----------------------------- MODULE MCCampaign -----------------------------
(***************************************************************************)
(* Instances of Campaign for TLC: a totalizer wave of an easy and a hard   *)
(* cube, a confirmation wave of one cube, in one of three worlds.  In      *)
(* "unsat" every cube is unsatisfiable and within the long budget; in      *)
(* "sat" the hard cube is satisfiable; in "hard" the second wave's cube is *)
(* beyond any budget.  The check pass may fail in the last two.            *)
(***************************************************************************)
EXTENDS Campaign, TLC

CONSTANTS a, b, d

MCCubes == {a, b, d}
MCCubesOf == ("tot" :> {a, b}) @@ ("seq" :> {d})

AllUnsat == [c \in Cubes |-> "unsat"]
HardSat == [c \in Cubes |-> IF c = b THEN "sat" ELSE "unsat"]

MCNeeds == [c \in Cubes |-> IF c \in {b, d} THEN "long" ELSE "short"]
TooHard == [c \in Cubes |-> IF c = d THEN "never" ELSE "short"]

OnlyWatchdog == {Watchdog}

VARIABLE world

Sat == INSTANCE Campaign WITH Truth <- HardSat, CheckRcs <- {0, 3}
Hard == INSTANCE Campaign WITH Needs <- TooHard, CheckRcs <- {0, 1, 3}

WorldsInit == Init /\ world \in {"unsat", "sat", "hard"}

WorldsNext ==
    /\ UNCHANGED world
    /\ \/ world = "unsat" /\ Next
       \/ world = "sat" /\ Sat!Next
       \/ world = "hard" /\ Hard!Next

OrchRuns(o) ==
    \/ world = "unsat" /\ OrchStep(o)
    \/ world = "sat" /\ Sat!OrchStep(o)
    \/ world = "hard" /\ Hard!OrchStep(o)

DriverRuns(o) ==
    \/ world = "unsat" /\ DriverStep(o)
    \/ world = "sat" /\ Sat!DriverStep(o)
    \/ world = "hard" /\ Hard!DriverStep(o)

\* The fairness of Campaign, in each world.
WorldsSpec ==
    /\ WorldsInit /\ [][WorldsNext]_<<vars, world>>
    /\ \A o \in Orchs : WF_vars(OrchRuns(o)) /\ WF_vars(DriverRuns(o))
    /\ \A k \in Callers : WF_vars(ResumeStep(k))
    /\ WF_vars(StartWatchdog) /\ WF_vars(Poll) /\ WF_vars(Judge)

\* With every cube unsatisfiable and within the long budget, and fewer faults
\* than automatic restarts, the campaign completes unattended.
UnsatCompletes == world = "unsat" => Completes
=============================================================================
