------------------------------- MODULE Sensor -------------------------------
(***************************************************************************)
(* campaign_state.py, the unattended poller's one line about the campaign: *)
(* verdict by verdict, then the processes, then the two notices, while the *)
(* campaign goes on.  One poll, started at any moment.                     *)
(***************************************************************************)
EXTENDS Campaign

VARIABLES
    pc,         \* where main() is
    left,       \* cubes whose verdict files are still to be read
    unsat,      \* c1["unsat"]
    sat,        \* a verdict read so far is SAT
    procs,      \* "some", "none", or "unknown" when PowerShell did not answer
    noticed,    \* CAMPAIGN_ATTENTION.txt was there
    state,      \* what is printed
    satBefore   \* history: a SAT verdict was on disk when the poll began

sensor == <<pc, left, unsat, sat, procs, noticed, state, satBefore>>
counts == <<left, unsat, sat, satBefore>>

SensorInit ==
    /\ Init
    /\ pc = "off" /\ left = {} /\ unsat = 0 /\ sat = FALSE
    /\ procs = "unknown" /\ noticed = FALSE /\ state = "" /\ satBefore = FALSE

-----------------------------------------------------------------------------
StartPoll ==
    /\ pc = "off"
    /\ pc' = "count"
    /\ left' = Cubes
    /\ satBefore' = \E c \in Cubes : reg[c] = "sat"
    /\ UNCHANGED <<unsat, sat, procs, noticed, state>>

\* Seeded bug: every verdict file counts, and a SAT one for no more.
BugCountVerdict(c) ==
    /\ pc = "count"
    /\ c \in left
    /\ left' = left \ {c}
    /\ unsat' = IF c \in CubesOf["tot"] /\ reg[c] # None THEN unsat + 1 ELSE unsat
    /\ UNCHANGED <<pc, sat, procs, noticed, state, satBefore>>

\* verdict_counts: the totalizer wave, then the other, in no order within one.
CountVerdict(c) ==
    /\ pc = "count"
    /\ c \in left
    /\ c \in CubesOf["tot"] \/ left \cap CubesOf["tot"] = {}
    /\ left' = left \ {c}
    /\ unsat' = IF c \in CubesOf["tot"] /\ reg[c] = "unsat" THEN unsat + 1 ELSE unsat
    /\ sat' = (sat \/ reg[c] = "sat")
    /\ UNCHANGED <<pc, procs, noticed, state, satBefore>>

\* Orchestrators and solvers, counted by process; -1 when that fails.
CountProcs ==
    /\ pc = "count"
    /\ left = {}
    /\ procs' \in {"unknown",
                   IF OrchAlive \/ \E o \in Orchs : drv[o].busy # {} THEN "some" ELSE "none"}
    /\ pc' = "attention"
    /\ UNCHANGED <<counts, noticed, state>>

LookAttention ==
    /\ pc = "attention"
    /\ noticed' = (attention # "none")
    /\ pc' = "done"
    /\ UNCHANGED <<counts, procs, state>>

\* DONE.json explains a dead process list, and comes before it.
State(finished) ==
    IF sat THEN "SAT"
    ELSE IF noticed THEN "ATTENTION"
    ELSE IF finished THEN "DONE"
    ELSE IF procs = "none" THEN "DEAD"
    ELSE IF unsat >= Total("tot") THEN "WAVE_DONE" ELSE "RUNNING"

LookDone ==
    /\ pc = "done"
    /\ state' = State(done)
    /\ pc' = "reported"
    /\ UNCHANGED <<counts, procs, noticed>>

PollStep ==
    \/ StartPoll \/ CountProcs \/ LookAttention \/ LookDone
    \/ \E c \in Cubes : CountVerdict(c)

SensorNext ==
    \/ Next /\ UNCHANGED sensor
    \/ PollStep /\ UNCHANGED vars

SensorSpec == SensorInit /\ [][SensorNext]_<<vars, sensor>>

-----------------------------------------------------------------------------
(* Properties.                                                             *)

\* "A nonzero SAT count halts the campaign": a poll that began with a witness
\* candidate on disk prints SAT and nothing else, whatever was restarted,
\* cleaned up, retried or noticed while it read.
SatNeverMissed == pc = "reported" /\ satBefore => state = "SAT"

\* WAVE_DONE is "all totalizer cubes UNSAT": of the formula, not of a count
\* put together from verdicts that were there at different times.
WaveDoneTrue ==
    state = "WAVE_DONE" => \A c \in CubesOf["tot"] : Truth[c] = "unsat"

\* What one poll prints is so, in a campaign run as it is meant to be.
PollTrue == SatNeverMissed /\ WaveDoneTrue
=============================================================================
