------------------------------ MODULE CubeWave ------------------------------
(***************************************************************************)
(* scratch/cube_wave2.py over scratch/verdict_io.py: drivers that run a    *)
(* pool of worker processes over the cubes of one wave directory, each     *)
(* worker solving one cube at a time with an external solver.  A driver    *)
(* is one run of `cube_wave2.py wave` or `sample`; retries are later       *)
(* drivers over the same directory.  A kill may fall between any two       *)
(* steps.  crash_cleanup.py is the one other writer of the directory.      *)
(***************************************************************************)
EXTENDS Verdict, FiniteSets, Naturals

CONSTANTS
    Drivers,    \* runs of cube_wave2.py, each started at most once
    Slots,      \* pool processes of one driver (max_workers)
    Calls,      \* command lines: the ids to run and whether proofs are wanted
    Overlap,    \* TRUE: a driver may start while another is alive
    WritesFail  \* TRUE: writing or replacing a verdict file may raise OSError

ASSUME CallsAssumption ==
    Calls \subseteq [ids : SUBSET Cubes, proof : BOOLEAN]

VARIABLES
    file,    \* file[c]: content of verdicts/v<c>.json
    temp,    \* temp[w]: content of the .wv*.tmp file worker w created
    cnf,     \* cnf[c]: cube_<c>.cnf in the wave directory
    proof,   \* proof[c]: drat/cube_<c>.drat
    driver,  \* driver[d]: life of driver d
    call,    \* call[d]: command line of driver d
    queue,   \* queue[d]: ids submitted to d's pool and not yet taken
    task,    \* task[w]: where worker w is in solve_cube
    left     \* cubes some job of which ended before its own clean-up

vars == <<file, temp, cnf, proof, driver, call, queue, task, left>>
disk == <<file, temp, cnf, proof>>

Workers == Drivers \X Slots
Boss(w) == w[1]

\* The steps of solve_cube; from "temp" on, the solver's rc is known.
Solving == {"open", "fill", "solve"}
Writing == {"temp", "dump", "replace", "clean"}
Idle == [pc |-> "idle", cube |-> None, rc |-> None]

\* A file that is not a verdict: absent, being written, or complete.
Whole == "whole"
Plain == {NoFile, Torn, Whole}

WorksOn(w, c) == task[w].cube = c

\* Another worker is at one of these steps on the same cube, hence the same path.
UsedByOther(w, pcs) ==
    \E o \in Workers \ {w} : WorksOn(o, task[w].cube) /\ task[o].pc \in pcs

Live(d) == driver[d] \in {"running", "failing"}

Init ==
    /\ file \in [Cubes -> {NoFile, Torn}]
    /\ temp = [w \in Workers |-> NoFile]
    /\ cnf = [c \in Cubes |-> NoFile]
    /\ proof = [c \in Cubes |-> NoFile]
    /\ driver = [d \in Drivers |-> "off"]
    /\ call = [d \in Drivers |-> [ids |-> {}, proof |-> FALSE]]
    /\ queue = [d \in Drivers |-> {}]
    /\ task = [w \in Workers |-> Idle]
    /\ left = {}

-----------------------------------------------------------------------------
(* The driver: run_many submits every id, then collects the results.       *)

StartDriver(d) ==
    /\ driver[d] = "off"
    /\ Overlap \/ \A e \in Drivers : ~Live(e)
    /\ \E args \in Calls :
        /\ call' = [call EXCEPT ![d] = args]
        /\ queue' = [queue EXCEPT ![d] = args.ids]
    /\ driver' = [driver EXCEPT ![d] = "running"]
    /\ UNCHANGED <<disk, task, left>>

\* A job that raised makes f.result() raise in the driver, but leaving the
\* `with` block waits for every submitted job first.
FinishDriver(d) ==
    /\ Live(d)
    /\ queue[d] = {}
    /\ \A s \in Slots : task[<<d, s>>] = Idle
    /\ driver' = [driver EXCEPT
                    ![d] = IF @ = "running" THEN "done" ELSE "failed"]
    /\ UNCHANGED <<disk, call, queue, task, left>>

\* The whole process tree of a driver dies; files stay as they are.
Kill(d) ==
    /\ Live(d)
    /\ driver' = [driver EXCEPT ![d] = "killed"]
    /\ queue' = [queue EXCEPT ![d] = {}]
    /\ task' = [w \in Workers |-> IF Boss(w) = d THEN Idle ELSE task[w]]
    /\ left' = left \cup {c \in Cubes : \E s \in Slots : WorksOn(<<d, s>>, c)}
    /\ UNCHANGED <<disk, call>>

-----------------------------------------------------------------------------
(* One worker in solve_cube.                                               *)

\* Seeded bug: the cache is never consulted.
BugAccepts(d, verdict) == FALSE

\* The cached verdict is good enough for this driver's command line.
Accepts(d, verdict) ==
    Decided(verdict) /\ (call[d].proof => verdict.drat)

\* Seeded bug: json.load on an unreadable cached verdict kills the job.
BugTake(w, c) ==
    /\ Live(Boss(w))
    /\ task[w] = Idle
    /\ c \in queue[Boss(w)]
    /\ queue' = [queue EXCEPT ![Boss(w)] = @ \ {c}]
    /\ IF file[c] = Torn
       THEN /\ driver' = [driver EXCEPT ![Boss(w)] = "failing"]
            /\ UNCHANGED task
       ELSE /\ task' = [task EXCEPT
                          ![w] = IF Accepts(Boss(w), Read(file[c])) THEN Idle
                                 ELSE [pc |-> "open", cube |-> c, rc |-> None]]
            /\ UNCHANGED driver
    /\ UNCHANGED <<disk, call, left>>

\* A worker takes a job and looks at the cached verdict first.
Take(w, c) ==
    /\ Live(Boss(w))
    /\ task[w] = Idle
    /\ c \in queue[Boss(w)]
    /\ queue' = [queue EXCEPT ![Boss(w)] = @ \ {c}]
    /\ task' = [task EXCEPT
                  ![w] = IF Accepts(Boss(w), Read(file[c])) THEN Idle
                         ELSE [pc |-> "open", cube |-> c, rc |-> None]]
    /\ UNCHANGED <<disk, driver, call, left>>

\* open(p, "w") truncates whatever was at the cube's one cnf path.
OpenCnf(w) ==
    /\ task[w].pc = "open"
    /\ cnf' = [cnf EXCEPT ![task[w].cube] = Torn]
    /\ task' = [task EXCEPT ![w].pc = "fill"]
    /\ UNCHANGED <<file, temp, proof, driver, call, queue, left>>

\* The last of the writers completes it; the solver then opens its proof.
FillCnf(w) ==
    LET c == task[w].cube IN
    /\ task[w].pc = "fill"
    /\ cnf' = IF UsedByOther(w, {"fill"}) THEN cnf ELSE [cnf EXCEPT ![c] = Whole]
    /\ proof' = IF call[Boss(w)].proof THEN [proof EXCEPT ![c] = Torn] ELSE proof
    /\ task' = [task EXCEPT ![w].pc = "solve"]
    /\ UNCHANGED <<file, temp, driver, call, queue, left>>

\* Seeded bug: the budget's exception escapes and no rc is bound.
BugUncaughtTimeout(c) == {"error", "unbound", Truth[c]}

\* Seeded bug: a formula cut short is solved as if it were all there.
BugTornAccepted(c) ==
    IF cnf[c] = Whole THEN {"error", Truth[c], "timeout"} ELSE {"error", "sat"}

\* The solver rejects a missing or incomplete formula (the header announces
\* the clause count); on a complete one it answers, runs out of budget, or
\* dies with some other status.
SolverMaySay(c) ==
    {"error"} \cup IF cnf[c] = Whole THEN {Truth[c], "timeout"} ELSE {}

Solve(w) ==
    LET c == task[w].cube IN
    /\ task[w].pc = "solve"
    /\ \E rc \in SolverMaySay(c) :
        /\ task' = [task EXCEPT ![w] = [pc |-> "temp", cube |-> c, rc |-> rc]]
        /\ proof' = IF call[Boss(w)].proof /\ rc = "unsat"
                    THEN [proof EXCEPT ![c] = Whole] ELSE proof
    /\ UNCHANGED <<file, temp, cnf, driver, call, queue, left>>

\* Seeded bug: the exception of a job is swallowed.
BugRaise(w) ==
    /\ task' = [task EXCEPT ![w] = Idle]
    /\ left' = left \cup {task[w].cube}
    /\ UNCHANGED driver

\* A job that raises: its worker goes on, its driver will not end cleanly.
Raise(w) ==
    /\ task' = [task EXCEPT ![w] = Idle]
    /\ driver' = [driver EXCEPT ![Boss(w)] = "failing"]
    /\ left' = left \cup {task[w].cube}

HasDigest(w) == call[Boss(w)].proof /\ task[w].rc = "unsat"

\* Seeded bug: open(vpath, "w") creates the file before json.dump fills it.
BugInPlace(w) ==
    /\ task[w].pc = "temp"
    /\ HasDigest(w) => proof[task[w].cube] # NoFile
    /\ temp' = [temp EXCEPT ![w] = Torn]
    /\ file' = [file EXCEPT ![task[w].cube] = Torn]
    /\ task' = [task EXCEPT ![w].pc = "dump"]
    /\ UNCHANGED <<cnf, proof, driver, call, queue, left>>

\* Hash the proof if there is one, then mkstemp a name nobody else uses.
MakeTemp(w) ==
    /\ task[w].pc = "temp"
    /\ HasDigest(w) => proof[task[w].cube] # NoFile
    /\ temp' = [temp EXCEPT ![w] = Torn]
    /\ task' = [task EXCEPT ![w].pc = "dump"]
    /\ UNCHANGED <<file, cnf, proof, driver, call, queue, left>>

\* sha256_file on a proof someone else deleted.
HashFails(w) ==
    /\ task[w].pc = "temp"
    /\ HasDigest(w) /\ proof[task[w].cube] = NoFile
    /\ Raise(w)
    /\ UNCHANGED <<disk, call, queue>>

\* Seeded bug: a run out of budget is written down as UNSAT.
BugDumpTemp(w) ==
    /\ task[w].pc = "dump"
    /\ temp' = [temp EXCEPT
                  ![w] = [rc |-> IF task[w].rc = "timeout" THEN "unsat" ELSE task[w].rc,
                          drat |-> HasDigest(w)]]
    /\ task' = [task EXCEPT ![w].pc = "replace"]
    /\ UNCHANGED <<file, cnf, proof, driver, call, queue, left>>

\* json.dump, flush and fsync into the temp file.
DumpTemp(w) ==
    /\ task[w].pc = "dump"
    /\ temp' = [temp EXCEPT ![w] = [rc |-> task[w].rc, drat |-> HasDigest(w)]]
    /\ task' = [task EXCEPT ![w].pc = "replace"]
    /\ UNCHANGED <<file, cnf, proof, driver, call, queue, left>>

\* os.replace: the temp file's bytes become the verdict in one step.
Replace(w) ==
    /\ task[w].pc = "replace"
    /\ file' = [file EXCEPT ![task[w].cube] = temp[w]]
    /\ temp' = [temp EXCEPT ![w] = NoFile]
    /\ task' = [task EXCEPT ![w].pc = "clean"]
    /\ UNCHANGED <<cnf, proof, driver, call, queue, left>>

\* write_verdict's handler unlinks the temp file and re-raises.
WriteFails(w) ==
    /\ WritesFail
    /\ task[w].pc \in {"dump", "replace"}
    /\ temp' = [temp EXCEPT ![w] = NoFile]
    /\ Raise(w)
    /\ UNCHANGED <<file, cnf, proof, call, queue>>

\* Seeded bug: the job removes nothing, or removes everything.
BugCleanNothing(w) ==
    /\ task[w].pc = "clean"
    /\ task' = [task EXCEPT ![w] = Idle]
    /\ UNCHANGED <<disk, driver, call, queue, left>>

BugCleanAll(w) ==
    LET c == task[w].cube IN
    /\ task[w].pc = "clean"
    /\ cnf' = [cnf EXCEPT ![c] = NoFile]
    /\ proof' = [proof EXCEPT ![c] = NoFile]
    /\ task' = [task EXCEPT ![w] = Idle]
    /\ UNCHANGED <<file, temp, driver, call, queue, left>>

\* Only a proof that will be checked keeps its files.  Windows refuses to
\* remove a file another process holds open.
CleanUp(w) ==
    LET c == task[w].cube IN
    /\ task[w].pc = "clean"
    /\ ~HasDigest(w) => ~UsedByOther(w, {"fill"})
    /\ IF HasDigest(w) THEN UNCHANGED <<cnf, proof>>
       ELSE /\ cnf' = [cnf EXCEPT ![c] = NoFile]
            /\ proof' = IF call[Boss(w)].proof THEN [proof EXCEPT ![c] = NoFile]
                        ELSE proof
    /\ task' = [task EXCEPT ![w] = Idle]
    /\ UNCHANGED <<file, temp, driver, call, queue, left>>

CleanUpFails(w) ==
    /\ task[w].pc = "clean"
    /\ ~HasDigest(w)
    /\ UsedByOther(w, {"fill", "solve"})
    /\ cnf' \in {cnf, [cnf EXCEPT ![task[w].cube] = NoFile]}
    /\ Raise(w)
    /\ UNCHANGED <<file, temp, proof, call, queue>>

-----------------------------------------------------------------------------
(* crash_cleanup.py, as restart_with_fix.ps1 runs it: after everything     *)
(* else has been stopped.                                                  *)

\* Seeded bug: everything that is not UNSAT counts as debris.
BugCrashCleanup ==
    LET debris == {c \in Cubes : file[c] = Torn \/
                                 (Read(file[c]) # None /\ file[c].rc # "unsat")}
    IN
    /\ \A d \in Drivers : ~Live(d)
    /\ file' = [c \in Cubes |-> IF c \in debris THEN NoFile ELSE file[c]]
    /\ UNCHANGED <<temp, cnf, proof, driver, call, queue, task, left>>

CrashCleanup ==
    LET debris == {c \in Cubes : file[c] # NoFile /\ ~Decided(Read(file[c]))}
        spent == {c \in Cubes : Decided(Read(file[c])) /\ file[c].rc = "unsat"}
    IN
    /\ \A d \in Drivers : ~Live(d)
    /\ file' = [c \in Cubes |-> IF c \in debris THEN NoFile ELSE file[c]]
    /\ proof' = [c \in Cubes |-> IF c \in debris THEN NoFile ELSE proof[c]]
    /\ cnf' = [c \in Cubes |-> IF c \in debris \cup spent THEN NoFile ELSE cnf[c]]
    /\ UNCHANGED <<temp, driver, call, queue, task, left>>

-----------------------------------------------------------------------------

WorkerStep(w) ==
    \/ \E c \in Cubes : Take(w, c)
    \/ OpenCnf(w) \/ FillCnf(w) \/ Solve(w)
    \/ MakeTemp(w) \/ HashFails(w) \/ DumpTemp(w) \/ Replace(w) \/ WriteFails(w)
    \/ CleanUp(w) \/ CleanUpFails(w)

Next ==
    \/ \E d \in Drivers : StartDriver(d) \/ FinishDriver(d) \/ Kill(d)
    \/ \E w \in Workers : WorkerStep(w)
    \/ CrashCleanup

Spec == Init /\ [][Next]_vars

\* The operating system runs every process, the solver has a time budget, and
\* the driver waits for its jobs.  Nobody is obliged to start a driver.
Fairness ==
    /\ \A w \in Workers : WF_vars(WorkerStep(w))
    /\ \A d \in Drivers : WF_vars(FinishDriver(d))

FairSpec == Spec /\ Fairness

-----------------------------------------------------------------------------
(* count_verdicts, over everything the verdicts directory holds.           *)

Entries ==
    [kind : {"v"}, of : {c \in Cubes : file[c] # NoFile}]
        \cup [kind : {"tmp"}, of : {w \in Workers : temp[w] # NoFile}]

\* Seeded bug: the temp files of killed writers are listed too.
BugIsVerdictName(entry) == TRUE

\* is_verdict_name: starts with "v", ends with ".json".
IsVerdictName(entry) == entry.kind = "v"

ContentOf(entry) == IF entry.kind = "v" THEN file[entry.of] ELSE temp[entry.of]

CountRc(rc) ==
    Cardinality({e \in Entries : /\ IsVerdictName(e)
                                 /\ Read(ContentOf(e)) # None
                                 /\ Read(ContentOf(e)).rc = rc})

-----------------------------------------------------------------------------
(* Properties.                                                             *)

\* A busy worker has a cube, and one that is writing has the solver's rc.
TaskOK ==
    /\ task \in [Workers -> [pc : {"idle"} \cup Solving \cup Writing,
                             cube : Cubes \cup {None}, rc : Rcs \cup {None}]]
    /\ \A w \in Workers :
          /\ task[w].pc # "idle" => task[w].cube \in Cubes
          /\ task[w].pc \in Writing => task[w].rc \in Rcs

\* The shape of the state: every file holds something a path can hold, and
\* every worker is idle or at one step of solve_cube on one cube.
TypeOK ==
    /\ file \in [Cubes -> Content]
    /\ temp \in [Workers -> Content]
    /\ cnf \in [Cubes -> Plain]
    /\ proof \in [Cubes -> Plain]
    /\ driver \in [Drivers ->
                    {"off", "running", "failing", "done", "failed", "killed"}]
    /\ call \in [Drivers -> [ids : SUBSET Cubes, proof : BOOLEAN]]
    /\ queue \in [Drivers -> SUBSET Cubes]
    /\ TaskOK
    /\ left \in SUBSET Cubes

\* verdict_io's first rule of caution: no kill, torn formula, torn verdict,
\* retry or second driver ever puts a wrong answer in a verdict file.
VerdictSound ==
    \A c \in Cubes : Read(file[c]) # None => Faithful(file[c], c)

\* What the orchestrator concludes from count_verdicts is true of the cubes:
\* as many UNSAT verdicts as cubes means the wave is UNSAT, and a SAT count
\* above zero means some cube is SAT.  Debris of killed writers never counts.
CountSound ==
    /\ CountRc("unsat") >= Cardinality(Cubes) => \A c \in Cubes : Truth[c] = "unsat"
    /\ CountRc("sat") > 0 => \E c \in Cubes : Truth[c] = "sat"

\* The root cause of the 2026-08-22 outage: no step, and so no kill between
\* two steps, makes a verdict file unreadable that was not so already.
NoNewTorn == [][\A c \in Cubes : file'[c] = Torn => file[c] = Torn]_vars

\* A verdict good enough for every command line in use is settled.
Settled(c) ==
    /\ Decided(Read(file[c]))
    /\ \A a \in Calls : a.proof => file[c].drat

\* "Every phase is resumable": while one driver runs at a time, no retry,
\* restart, timeout or clean-up ever replaces or deletes a settled verdict.
SettledKept == [][\A c \in Cubes : Settled(c) => file'[c] = file[c]]_vars

\* A driver that ends without an exception leaves a readable verdict for
\* every id it was given, whatever it found in the directory.
CleanEndCovers ==
    [][\A d \in Drivers :
          driver[d] # "done" /\ driver'[d] = "done" =>
              \A c \in call[d].ids : Read(file[c]) # None]_vars

\* A cube's 16 MB formula outlives its job only when the job was cut short, or
\* when its proof is kept for checking; otherwise the disk fills up.
CnfOwned ==
    \A c \in Cubes : cnf[c] # NoFile =>
        \/ \E w \in Workers : WorksOn(w, c)
        \/ c \in left
        \/ Read(file[c]) # None /\ file[c].drat

\* While one driver runs at a time, a verdict that carries a digest has its
\* complete proof on disk (pruning, which deletes it later, is another part).
DigestBacked ==
    \A c \in Cubes :
        Read(file[c]) # None /\ file[c].drat => proof[c] = Whole

\* What a job leaves behind: nothing without an owner, and nothing less than
\* the checker will ask for.
FilesOwned == CnfOwned /\ DigestBacked

\* "The system heals itself": a running driver ends with a readable verdict
\* for each of its ids, torn files included, unless it is killed.
Heals ==
    \A d \in Drivers, c \in Cubes :
        (driver[d] = "running" /\ c \in call[d].ids)
            ~> (Read(file[c]) # None \/ driver[d] = "killed")

\* The verdicts directory, seen through read_verdict, keeps the promises of
\* the abstract store.
Store == INSTANCE VerdictStore WITH reg <- [c \in Cubes |-> Read(file[c])]
StoreSpec == Store!Spec
=============================================================================
