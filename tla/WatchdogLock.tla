---------------------------- MODULE WatchdogLock ----------------------------
(***************************************************************************)
(* One watchdog and no more: start_watchdog.ps1 launches watchdog.py       *)
(* through detach.py and waits to see it; watchdog.py takes watchdog.pid.  *)
(* The lock is looked at, its holder asked after, and then it is written:  *)
(* three steps, and a process number outlives the process that had it.     *)
(***************************************************************************)
CONSTANTS
    Starters,   \* runs of start_watchdog.ps1, each with its launcher
    Pids,
    NoFile,
    Empty,      \* a file opened and not yet written
    Modes       \* what may happen, see Starts, Overlap and Reuse

LockAssumption == Modes \subseteq [starts : SUBSET Starters, overlap : BOOLEAN, reuse : BOOLEAN]

VARIABLES
    mode,       \* one of the Modes; it stays
    table,      \* table[p]: the process with number p
    lock,       \* watchdog.pid
    pidfile,    \* detach_watchdog.pid
    error,      \* detach_watchdog.pid.error exists
    starter,
    launcher,   \* launcher[s]: the detach.py that s had WMI create
    met         \* history: processes alive at some time since s began

shared == <<lock, pidfile, error>>
vars == <<mode, table, shared, starter, launcher, met>>

Starts == mode.starts       \* those of the Starters that are run
Overlap == mode.overlap     \* a start may begin while another is under way
Reuse == mode.reuse         \* a process number may be given out again

\* A process is "free" (no process yet), "other" (some python), a watchdog at
\* one of its steps, or gone; a watchdog that is gone had the lock or did not.
Alive(p) == table[p].pc \notin {"free", "gone"}
Idle == [pc |-> "idle", child |-> NoFile]

Init ==
    /\ mode \in Modes
    /\ table = [p \in Pids |-> [pc |-> "free", held |-> NoFile, ran |-> FALSE]]
    /\ lock = NoFile
    /\ pidfile = NoFile
    /\ error = FALSE
    /\ starter = [s \in Starters |-> Idle]
    /\ launcher = [s \in Starters |-> Idle]
    /\ met = [s \in Starters |-> {}]

-----------------------------------------------------------------------------
(* start_watchdog.ps1                                                      *)

Ended == {"already running", "RUNNING", "FAILED"}
Settling == {"look", "ask", "open", "fill"}

\* Nothing of an earlier start is still to come.
Settled ==
    /\ \A s \in Starters : starter[s].pc \in Ended \cup {"idle"} /\ launcher[s] = Idle
    /\ \A p \in Pids : table[p].pc \notin Settling

Step(s, pc) == starter' = [starter EXCEPT ![s].pc = pc]

\* Seeded bug: whoever is named in the lock is there.
BugHolder(pid) == pid \in Pids

\* Seeded bug: nobody is ever found to be there.
BugNoHolder(pid) == FALSE

\* The holder is alive and a python process: any python process.
Holder(pid) == pid \in Pids /\ Alive(pid)

Look(s) ==
    /\ s \in Starts
    /\ starter[s].pc = "idle"
    /\ Overlap \/ Settled
    /\ Step(s, IF Holder(lock) THEN "already running" ELSE "clear")
    /\ met' = [met EXCEPT ![s] = {p \in Pids : Alive(p)}]
    /\ UNCHANGED <<table, shared, launcher>>

\* Seeded bug: the last launch's process number is left for this one to find.
BugClear(s) ==
    /\ starter[s].pc = "clear"
    /\ error' = FALSE
    /\ Step(s, "create")
    /\ UNCHANGED <<table, lock, pidfile, launcher, met>>

Clear(s) ==
    /\ starter[s].pc = "clear"
    /\ pidfile' = NoFile
    /\ error' = FALSE
    /\ Step(s, "create")
    /\ UNCHANGED <<table, lock, launcher, met>>

\* WMI's return code is printed and decides nothing.
Create(s) ==
    /\ starter[s].pc = "create"
    /\ launcher' \in {launcher, [launcher EXCEPT ![s].pc = "spawn"]}
    /\ Step(s, "wait for pid")
    /\ UNCHANGED <<table, shared, met>>

\* 60 looks of 250 ms; an empty file does not parse.
WaitForPid(s) ==
    /\ starter[s].pc = "wait for pid"
    /\ \E child \in {NoFile} \cup ({pidfile} \cap Pids) :
        starter' = [starter EXCEPT ![s] = [pc |-> "wait for lock", child |-> child]]
    /\ UNCHANGED <<table, shared, launcher, met>>

\* 40 looks of 250 ms for the lock to name the child.
WaitForLock(s) ==
    /\ starter[s].pc = "wait for lock"
    /\ \/ lock = starter[s].child /\ lock \in Pids /\ Step(s, "RUNNING")
       \/ Step(s, "FAILED")
    /\ UNCHANGED <<table, shared, launcher, met>>

-----------------------------------------------------------------------------
(* detach.py                                                               *)

MayGet(p) == ~Alive(p) /\ (table[p].pc = "free" \/ Reuse)

Process(pc) == [pc |-> pc, held |-> NoFile, ran |-> FALSE]

Spawn(s) ==
    /\ launcher[s].pc = "spawn"
    /\ \E p \in Pids :
        /\ MayGet(p)
        /\ table' = [table EXCEPT ![p] = Process("look")]
        /\ launcher' = [launcher EXCEPT ![s] = [pc |-> "write", child |-> p]]
        /\ met' = [t \in Starters |->
                       IF starter[t].pc = "idle" THEN {} ELSE met[t] \cup {p}]
    /\ UNCHANGED <<shared, starter>>

\* Whatever it was, it is written down beside the pid file.
SpawnFails(s) ==
    /\ launcher[s].pc = "spawn"
    /\ error' = TRUE
    /\ launcher' = [launcher EXCEPT ![s] = Idle]
    /\ UNCHANGED <<table, lock, pidfile, starter, met>>

OpenPidfile(s) ==
    /\ launcher[s].pc = "write"
    /\ error' = FALSE
    /\ pidfile' = Empty
    /\ launcher' = [launcher EXCEPT ![s].pc = "fill"]
    /\ UNCHANGED <<table, lock, starter, met>>

FillPidfile(s) ==
    /\ launcher[s].pc = "fill"
    /\ pidfile' = IF pidfile = NoFile THEN NoFile ELSE launcher[s].child
    /\ launcher' = [launcher EXCEPT ![s] = Idle]
    /\ UNCHANGED <<table, lock, error, starter, met>>

\* The launcher has a window of its own for as long as it lives.
LauncherKilled(s) ==
    /\ launcher[s] # Idle
    /\ launcher' = [launcher EXCEPT ![s] = Idle]
    /\ UNCHANGED <<table, shared, starter, met>>

-----------------------------------------------------------------------------
(* watchdog.py: take_lock, and the life after it.                          *)

At(p, pc) == table[p].pc = pc
Goto(p, pc) == table' = [table EXCEPT ![p].pc = pc]

Leave(p) == Goto(p, "gone")

\* Seeded bug: the lock is written first and then asked about.
BugReadLock(p) ==
    /\ At(p, "look")
    /\ lock' = p
    /\ table' = [table EXCEPT ![p].pc = IF lock \in Pids \ {p} THEN "ask" ELSE "open",
                              ![p].held = lock]
    /\ UNCHANGED <<pidfile, error, starter, launcher, met>>

\* A file that is empty or not there holds nobody, and so does one's own number.
ReadLock(p) ==
    /\ At(p, "look")
    /\ table' = [table EXCEPT ![p].pc = IF lock \in Pids \ {p} THEN "ask" ELSE "open",
                              ![p].held = lock]
    /\ UNCHANGED <<shared, starter, launcher, met>>

\* pid_alive_python, seconds later; a PowerShell that does not answer is taken
\* for a holder that is dead.
Ask(p) ==
    /\ At(p, "ask")
    /\ \/ Holder(table[p].held) /\ Leave(p)
       \/ Goto(p, "open")
    /\ UNCHANGED <<shared, starter, launcher, met>>

OpenLock(p) ==
    /\ At(p, "open")
    /\ lock' = Empty
    /\ Goto(p, "fill")
    /\ UNCHANGED <<pidfile, error, starter, launcher, met>>

FillLock(p) ==
    /\ At(p, "fill")
    /\ lock' = p
    /\ table' = [table EXCEPT ![p].pc = "run", ![p].ran = TRUE]
    /\ UNCHANGED <<pidfile, error, starter, launcher, met>>

\* Killed, or done because DONE.json is there; the lock is never removed.
Die(p) ==
    /\ Alive(p)
    /\ Leave(p)
    /\ UNCHANGED <<shared, starter, launcher, met>>

\* One of the pool's processes, with a number somebody had.
OtherPython(p) ==
    /\ Reuse
    /\ MayGet(p)
    /\ table' = [table EXCEPT ![p] = Process("other")]
    /\ UNCHANGED <<shared, starter, launcher, met>>

-----------------------------------------------------------------------------
Next ==
    /\ UNCHANGED mode
    /\ \/ \E s \in Starters :
           \/ Look(s) \/ Clear(s) \/ Create(s) \/ WaitForPid(s) \/ WaitForLock(s)
           \/ Spawn(s) \/ SpawnFails(s) \/ OpenPidfile(s) \/ FillPidfile(s)
           \/ LauncherKilled(s)
       \/ \E p \in Pids :
           \/ ReadLock(p) \/ Ask(p) \/ OpenLock(p) \/ FillLock(p)
           \/ Die(p) \/ OtherPython(p)

Spec == Init /\ [][Next]_vars

-----------------------------------------------------------------------------
(* Properties.                                                             *)

Running == {p \in Pids : At(p, "run")}

\* The state has the shape the program gives it; a lock names a process that
\* was a watchdog and got as far as to write it.
TypeOK ==
    /\ lock \in {NoFile, Empty} \cup Pids
    /\ lock \in Pids => table[lock].ran \/ Reuse
    /\ pidfile \in {NoFile, Empty} \cup Pids
    /\ error \in BOOLEAN
    /\ \A s \in Starters : /\ starter[s].child \in {NoFile} \cup Pids
                           /\ launcher[s].pc \in {"idle", "spawn", "write", "fill"}
                           /\ met[s] \subseteq Pids

\* "Single instance, via a PID lock": there are never two watchdogs polling,
\* which would each restart what is missing.
SingleInstance == \A p, q \in Running : p = q

\* "Confirm it actually took its lock ... before reporting success": RUNNING
\* names a watchdog that was there since this start began and got the lock,
\* whatever files of dead ones there are and however late anything is.
ReportTrue ==
    \A s \in Starters : starter[s].pc = "RUNNING" =>
        starter[s].child \in met[s] /\ table[starter[s].child].ran

\* "The holder must be alive": whenever a start or a new watchdog stands back,
\* there is a watchdog polling.  Nothing is left unwatched by a dead one's lock.
StandsBack ==
    \/ \E s \in Starters : starter[s].pc = "idle" /\ starter'[s].pc = "already running"
    \/ \E p \in Pids : At(p, "ask") /\ Ask(p) /\ table'[p].pc = "gone"

Covered == [][~Reuse /\ StandsBack => Running # {}]_vars

\* With starts one at a time there is one watchdog, even if process numbers
\* come back; if they do not, RUNNING names a watchdog that took the lock.
LockTrue ==
    /\ TypeOK
    /\ ~Overlap => SingleInstance /\ (~Reuse => ReportTrue)
=============================================================================
