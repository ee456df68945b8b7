------------------------------ MODULE Operations ------------------------------
(***************************************************************************)
(* The programs around a campaign beside one another: the harvest, the     *)
(* consoles, the watchdog's lock and the sleep sensor.  They share no      *)
(* state, and so one of them at a time moves, each in a world of its own.  *)
(***************************************************************************)
EXTENDS Harvest

CONSTANTS
    Setups, Refusals,               \* of Consoles
    Starters, Pids, Modes,          \* of WatchdogLock
    NoFile, Empty,
    Horizon, Hours, Moment          \* of Standby

VARIABLES
    world,
    setup, console, verify, exposed,
    mode, table, lock, pidfile, error, starter, launcher, met,
    now, log, sleeps

consoleVars == <<setup, console, verify, exposed>>
lockVars == <<mode, table, lock, pidfile, error, starter, launcher, met>>
sleepVars == <<now, log, sleeps>>
worldsVars == <<world, vars, consoleVars, lockVars, sleepVars>>

Console == INSTANCE Consoles
Lock == INSTANCE WatchdogLock

\* With the lines of three fields that the parser of the sensor asks for.
Machine == INSTANCE Standby WITH Fields <- 3

ASSUME OperationsAssumption ==
    /\ Console!ConsolesAssumption /\ Lock!LockAssumption
    /\ Machine!StandbyAssumption

-----------------------------------------------------------------------------
WorldsInit ==
    /\ world \in {"harvest", "consoles", "lock", "sleep"}
    /\ Init /\ Console!Init /\ Lock!Init /\ Machine!Init

WorldsNext ==
    /\ UNCHANGED world
    /\ \/ world = "harvest" /\ Next
          /\ UNCHANGED <<consoleVars, lockVars, sleepVars>>
       \/ world = "consoles" /\ Console!Next
          /\ UNCHANGED <<vars, lockVars, sleepVars>>
       \/ world = "lock" /\ Lock!Next
          /\ UNCHANGED <<vars, consoleVars, sleepVars>>
       \/ world = "sleep" /\ Machine!Next
          /\ UNCHANGED <<vars, consoleVars, lockVars>>

WorldsSpec == WorldsInit /\ [][WorldsNext]_worldsVars

-----------------------------------------------------------------------------
(* Properties.                                                             *)

\* Nothing of a resumed campaign is behind a window, and a PASS of
\* verify_detached.py is about every process it lists, whatever starts and
\* ends meanwhile.
ConsolesTrue == Console!ConsolesTrue

\* With starts of the watchdog one at a time there is one watchdog, and RUNNING
\* names a watchdog that took the lock.
LockTrue == Lock!LockTrue

\* Even when starts overlap, nobody stands back for a watchdog that is not
\* there.
NobodyUncovered == Lock!Covered

\* From lines of three fields, the minutes reported are those slept, a sleep
\* within one second aside.
SleepMeasured == world = "sleep" => Machine!SleepMeasured
=============================================================================
