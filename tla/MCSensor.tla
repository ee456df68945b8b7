------------------------------ MODULE MCSensor ------------------------------
(***************************************************************************)
(* Instances of Campaign and Sensor for TLC, over an easy cube and a hard  *)
(* one that is satisfiable, in two worlds.  In "poll" both are in the      *)
(* totalizer wave (the other wave, never reached, is left empty), and a    *)
(* campaign with one caller is looked at by the sensor.  In "two" each     *)
(* wave has one of them, the resume script has two callers, and a killed   *)
(* orchestrator may leave its driver behind.                               *)
(***************************************************************************)
EXTENDS Sensor, TLC

CONSTANTS a, d

PollCubes == {a, d}
PollCubesOf == ("tot" :> {a, d}) @@ ("seq" :> {})
HardSat == [c \in Cubes |-> IF c = d THEN "sat" ELSE "unsat"]
OneLong == [c \in Cubes |-> IF c = d THEN "long" ELSE "short"]
OnlyWatchdog == {Watchdog}
SlotSymmetry == Permutations(Orchs)

Two == INSTANCE Sensor WITH
           CubesOf <- ("tot" :> {a}) @@ ("seq" :> {d}),
           Callers <- {Watchdog, "session"}, CheckRcs <- {0}, Orphans <- TRUE

VARIABLE world

WorldsInit ==
    \/ world = "poll" /\ SensorInit
    \/ world = "two" /\ Two!SensorInit

WorldsNext ==
    /\ UNCHANGED world
    /\ \/ world = "poll" /\ SensorNext
       \/ world = "two" /\ Two!Next /\ UNCHANGED sensor

WorldsSpec == WorldsInit /\ [][WorldsNext]_<<vars, sensor, world>>
=============================================================================
