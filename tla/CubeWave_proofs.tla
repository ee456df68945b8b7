--------------------------- MODULE CubeWave_proofs ---------------------------
(***************************************************************************)
(* Proofs about CubeWave, for every set of cubes, drivers and slots.  In   *)
(* the second half: what the counts mean, what a driver that ends cleanly  *)
(* leaves, and which files a job leaves behind.                            *)
(***************************************************************************)
EXTENDS CubeWave, FiniteSetTheorems, TLAPS

-----------------------------------------------------------------------------
(* How a step of a worker changes task, once for all the actions.          *)

\* A worker moves on to another step of the job it already has.
LEMMA Advance ==
    ASSUME TaskOK, NEW w \in Workers, NEW p \in Solving \cup Writing,
           task[w].pc # "idle",
           p \in Writing => task[w].rc \in Rcs,
           task' = [task EXCEPT ![w].pc = p]
    PROVE  TaskOK'
BY DEF TaskOK

\* A worker gives up or finishes the job it has.
LEMMA GoIdle ==
    ASSUME TaskOK, NEW w \in Workers, task' = [task EXCEPT ![w] = Idle]
    PROVE  TaskOK'
BY DEF TaskOK, Idle, Writing

\* A worker at a step of solve_cube works on a cube of the wave.
LEMMA BusyCube ==
    ASSUME TaskOK, NEW w \in Workers, task[w].pc # "idle"
    PROVE  task[w].cube \in Cubes
BY DEF TaskOK

-----------------------------------------------------------------------------

\* The state keeps its shape: the model of cube_wave2.py never leaves the
\* contents, phases and steps it names.
THEOREM TypeCorrect == Spec => []TypeOK
<1> USE TruthAssumption, CallsAssumption DEF Workers, Boss
<1>1. Init => TypeOK
  BY DEF Init, TypeOK, TaskOK, Idle, Solving, Writing, Content, Plain
<1>2. TypeOK /\ [Next]_vars => TypeOK'
  <2> SUFFICES ASSUME TypeOK, [Next]_vars
               PROVE  TypeOK'
    OBVIOUS
  <2> USE DEF TypeOK, disk
  <2>1. ASSUME NEW d \in Drivers, StartDriver(d)
        PROVE  TypeOK'
    BY <2>1 DEF StartDriver, TaskOK
  <2>2. ASSUME NEW d \in Drivers, FinishDriver(d)
        PROVE  TypeOK'
    BY <2>2 DEF FinishDriver, TaskOK
  <2>3. ASSUME NEW d \in Drivers, Kill(d)
        PROVE  TypeOK'
    BY <2>3 DEF Kill, TaskOK, Idle, Writing
  <2>4. ASSUME NEW w \in Workers, NEW c \in Cubes, Take(w, c)
        PROVE  TypeOK'
    BY <2>4 DEF Take, TaskOK, Idle, Solving, Writing
  <2>5. ASSUME NEW w \in Workers, OpenCnf(w)
        PROVE  TypeOK'
    <3>1. task[w].cube \in Cubes
      BY <2>5, BusyCube DEF OpenCnf
    <3>2. TaskOK'
      BY <2>5, Advance DEF OpenCnf, Solving, Writing
    <3> QED
      BY <2>5, <3>1, <3>2 DEF OpenCnf, Plain
  <2>6. ASSUME NEW w \in Workers, FillCnf(w)
        PROVE  TypeOK'
    <3>1. task[w].cube \in Cubes
      BY <2>6, BusyCube DEF FillCnf
    <3>2. TaskOK'
      BY <2>6, Advance DEF FillCnf, Solving, Writing
    <3> QED
      BY <2>6, <3>1, <3>2 DEF FillCnf, Plain
  <2>7. ASSUME NEW w \in Workers, Solve(w)
        PROVE  TypeOK'
    <3>1. PICK rc \in SolverMaySay(task[w].cube) :
             /\ task' = [task EXCEPT
                           ![w] = [pc |-> "temp", cube |-> task[w].cube, rc |-> rc]]
             /\ proof' = IF call[Boss(w)].proof /\ rc = "unsat"
                         THEN [proof EXCEPT ![task[w].cube] = Whole] ELSE proof
      BY <2>7 DEF Solve
    <3>2. task[w].cube \in Cubes
      BY <2>7, BusyCube DEF Solve
    <3>3. rc \in Rcs
      BY <3>1, <3>2 DEF SolverMaySay, Rcs, Answers
    <3>4. TaskOK'
      BY <3>1, <3>2, <3>3 DEF TaskOK, Writing
    <3> QED
      BY <2>7, <3>1, <3>2, <3>4 DEF Solve, Plain
  <2>8. ASSUME NEW w \in Workers, MakeTemp(w)
        PROVE  TypeOK'
    <3>1. TaskOK'
      BY <2>8, Advance DEF MakeTemp, TaskOK, Writing
    <3> QED
      BY <2>8, <3>1 DEF MakeTemp, Content
  <2>9. ASSUME NEW w \in Workers, HashFails(w)
        PROVE  TypeOK'
    <3>1. TaskOK' /\ task[w].cube \in Cubes
      BY <2>9, GoIdle, BusyCube DEF HashFails, Raise
    <3> QED
      BY <2>9, <3>1 DEF HashFails, Raise
  <2>10. ASSUME NEW w \in Workers, DumpTemp(w)
         PROVE  TypeOK'
    <3>1. TaskOK' /\ task[w].rc \in Rcs
      BY <2>10, Advance DEF DumpTemp, TaskOK, Writing
    <3>2. HasDigest(w) \in BOOLEAN
      BY DEF HasDigest
    <3>3. [rc |-> task[w].rc, drat |-> HasDigest(w)] \in Content
      BY <3>1, <3>2 DEF Content, VerdictRec
    <3> QED
      BY <2>10, <3>1, <3>3 DEF DumpTemp
  <2>11. ASSUME NEW w \in Workers, Replace(w)
         PROVE  TypeOK'
    <3>1. TaskOK' /\ task[w].cube \in Cubes
      BY <2>11, Advance, BusyCube DEF Replace, TaskOK, Writing
    <3> QED
      BY <2>11, <3>1 DEF Replace, Content
  <2>12. ASSUME NEW w \in Workers, WriteFails(w)
         PROVE  TypeOK'
    <3>1. TaskOK' /\ task[w].cube \in Cubes
      BY <2>12, GoIdle, BusyCube DEF WriteFails, Raise
    <3> QED
      BY <2>12, <3>1 DEF WriteFails, Raise, Content
  <2>13. ASSUME NEW w \in Workers, CleanUp(w)
         PROVE  TypeOK'
    <3>1. TaskOK' /\ task[w].cube \in Cubes
      BY <2>13, GoIdle, BusyCube DEF CleanUp
    <3> QED
      BY <2>13, <3>1 DEF CleanUp, Plain
  <2>14. ASSUME NEW w \in Workers, CleanUpFails(w)
         PROVE  TypeOK'
    <3>1. TaskOK' /\ task[w].cube \in Cubes
      BY <2>14, GoIdle, BusyCube DEF CleanUpFails, Raise
    <3> QED
      BY <2>14, <3>1 DEF CleanUpFails, Raise, Plain
  <2>15. CASE CrashCleanup
    BY <2>15 DEF CrashCleanup, TaskOK, Content, Plain
  <2>16. CASE UNCHANGED vars
    BY <2>16 DEF vars, TaskOK
  <2> QED
    BY <2>1, <2>2, <2>3, <2>4, <2>5, <2>6, <2>7, <2>8, <2>9, <2>10, <2>11,
       <2>12, <2>13, <2>14, <2>15, <2>16 DEF Next, WorkerStep
<1> QED
  BY <1>1, <1>2, PTL DEF Spec

-----------------------------------------------------------------------------
(* Who works on what: the bookkeeping the other proofs rest on.            *)

\* A busy worker's driver is alive, works on the command line it was given,
\* and has handed the cube to this worker alone.
Jobs ==
    /\ \A w \in Workers : task[w].pc # "idle" =>
          Live(Boss(w)) /\ task[w].cube \notin queue[Boss(w)]
    /\ \A w, o \in Workers :
          /\ task[w].pc # "idle" /\ task[o].pc # "idle"
          /\ Boss(w) = Boss(o) /\ task[w].cube = task[o].cube
          => w = o
    /\ \A d \in Drivers : Live(d) => call[d] \in Calls

\* Each step keeps the jobs of a pool within its command line.
LEMMA JobsStep == TypeOK /\ Jobs /\ [Next]_vars => Jobs'
<1> SUFFICES ASSUME TypeOK, Jobs, [Next]_vars
             PROVE  Jobs'
  OBVIOUS
<1> USE DEF TypeOK, TaskOK, Jobs, Workers, Boss, Live, disk
<1>1. ASSUME NEW d \in Drivers, StartDriver(d)
      PROVE  Jobs'
  BY <1>1 DEF StartDriver
<1>2. ASSUME NEW d \in Drivers, FinishDriver(d)
      PROVE  Jobs'
  BY <1>2 DEF FinishDriver, Idle
<1>3. ASSUME NEW d \in Drivers, Kill(d)
      PROVE  Jobs'
  BY <1>3 DEF Kill, Idle
<1>4. ASSUME NEW w \in Workers, NEW c \in Cubes, Take(w, c)
      PROVE  Jobs'
  BY <1>4 DEF Take, Idle
<1>5. ASSUME NEW w \in Workers,
             OpenCnf(w) \/ FillCnf(w) \/ Solve(w) \/ MakeTemp(w) \/ DumpTemp(w)
                \/ Replace(w)
      PROVE  Jobs'
  <2>1. UNCHANGED <<queue, driver, call>> /\ task[w].pc # "idle"
    BY <1>5 DEF OpenCnf, FillCnf, Solve, MakeTemp, DumpTemp, Replace
  <2>2. task'[w].cube = task[w].cube
    BY <1>5 DEF OpenCnf, FillCnf, Solve, MakeTemp, DumpTemp, Replace
  <2>3. \A o \in Workers : o # w => task'[o] = task[o]
    BY <1>5 DEF OpenCnf, FillCnf, Solve, MakeTemp, DumpTemp, Replace
  <2> HIDE DEF TypeOK, TaskOK
  <2>4. \A o \in Workers : task'[o].pc # "idle" =>
           task[o].pc # "idle" /\ task'[o].cube = task[o].cube
    BY <2>1, <2>2, <2>3
  <2> QED
    BY <2>1, <2>4
<1>6. ASSUME NEW w \in Workers,
             HashFails(w) \/ WriteFails(w) \/ CleanUp(w) \/ CleanUpFails(w)
      PROVE  Jobs'
  <2>1. /\ UNCHANGED <<queue, call>>
        /\ driver' \in {driver, [driver EXCEPT ![Boss(w)] = "failing"]}
        /\ task' = [task EXCEPT ![w] = Idle]
        /\ task[w].pc # "idle"
    BY <1>6 DEF HashFails, WriteFails, CleanUp, CleanUpFails, Raise
  <2> QED
    BY <2>1 DEF Idle
<1>7. CASE CrashCleanup
  BY <1>7 DEF CrashCleanup
<1>8. CASE UNCHANGED vars
  BY <1>8 DEF vars
<1> QED
  BY <1>1, <1>2, <1>3, <1>4, <1>5, <1>6, <1>7, <1>8 DEF Next, WorkerStep

\* Workers and queues only ever hold cubes their driver was asked for.
LEMMA JobsInvariant == Spec => []Jobs
<1>1. Init => Jobs
  BY DEF Init, Jobs, Idle, Live
<1> QED
  BY <1>1, JobsStep, TypeCorrect, PTL DEF Spec

-----------------------------------------------------------------------------
(* No wrong answer in a verdict file.  VerdictSound alone is not           *)
(* inductive: the answer travels from the solver through the worker's      *)
(* memory and its temp file before os.replace publishes it.                *)

\* The answer a worker carries is the right one for its cube, and the temp
\* file it is about to publish holds exactly that.
InFlightSound ==
    \A w \in Workers :
        /\ task[w].pc \in Writing /\ task[w].rc \in Answers
              => task[w].rc = Truth[task[w].cube]
        /\ task[w].pc = "replace" =>
              temp[w] = [rc |-> task[w].rc, drat |-> HasDigest(w)]

\* What is in a temp file, or on the way to one, stays right.
LEMMA InFlightStep ==
    TypeOK /\ Jobs /\ InFlightSound /\ [Next]_vars => InFlightSound'
<1> SUFFICES ASSUME TypeOK, Jobs, InFlightSound, [Next]_vars
             PROVE  InFlightSound'
  OBVIOUS
<1> USE DEF TypeOK, TaskOK, InFlightSound, HasDigest, Writing, Workers, Boss,
            disk
<1>1. ASSUME NEW d \in Drivers, StartDriver(d)
      PROVE  InFlightSound'
  <2>1. ASSUME NEW w \in Workers, task[w].pc # "idle"
        PROVE  Boss(w) # d
    BY <1>1, <2>1 DEF StartDriver, Jobs, Live
  <2> QED
    BY <1>1, <2>1 DEF StartDriver
<1>2. ASSUME NEW d \in Drivers, FinishDriver(d)
      PROVE  InFlightSound'
  BY <1>2 DEF FinishDriver
<1>3. ASSUME NEW d \in Drivers, Kill(d)
      PROVE  InFlightSound'
  BY <1>3 DEF Kill, Idle
<1>4. ASSUME NEW w \in Workers, NEW c \in Cubes, Take(w, c)
      PROVE  InFlightSound'
  BY <1>4 DEF Take, Idle
<1>5. ASSUME NEW w \in Workers, OpenCnf(w) \/ FillCnf(w)
      PROVE  InFlightSound'
  BY <1>5 DEF OpenCnf, FillCnf
<1>6. ASSUME NEW w \in Workers, Solve(w)
      PROVE  InFlightSound'
  <2>1. PICK rc \in SolverMaySay(task[w].cube) :
           task' = [task EXCEPT
                      ![w] = [pc |-> "temp", cube |-> task[w].cube, rc |-> rc]]
    BY <1>6 DEF Solve
  <2>2. rc \in Answers => rc = Truth[task[w].cube]
    BY <2>1 DEF SolverMaySay, Answers
  <2> QED
    BY <1>6, <2>1, <2>2 DEF Solve
<1>7. ASSUME NEW w \in Workers, MakeTemp(w) \/ DumpTemp(w) \/ Replace(w)
      PROVE  InFlightSound'
  BY <1>7 DEF MakeTemp, DumpTemp, Replace
<1>8. ASSUME NEW w \in Workers,
             HashFails(w) \/ WriteFails(w) \/ CleanUp(w) \/ CleanUpFails(w)
      PROVE  InFlightSound'
  BY <1>8 DEF HashFails, WriteFails, CleanUp, CleanUpFails, Raise, Idle
<1>9. CASE CrashCleanup
  BY <1>9 DEF CrashCleanup
<1>10. CASE UNCHANGED vars
  BY <1>10 DEF vars
<1> QED
  BY <1>1, <1>2, <1>3, <1>4, <1>5, <1>6, <1>7, <1>8, <1>9, <1>10
  DEF Next, WorkerStep

\* What one step can do to the verdict files: nothing, publish one worker's
\* right answer or non-answer, or forget verdicts that decide nothing.
LEMMA FileStep ==
    ASSUME TypeOK, InFlightSound, [Next]_vars
    PROVE  \/ UNCHANGED file
           \/ \E w \in Workers : \E v \in VerdictRec :
                /\ task[w].pc = "replace" /\ task'[w].pc = "clean"
                /\ Faithful(v, task[w].cube)
                /\ file' = [file EXCEPT ![task[w].cube] = v]
           \/ \E S \in SUBSET Cubes :
                /\ \A c \in S : ~Decided(Read(file[c]))
                /\ file' = [c \in Cubes |-> IF c \in S THEN NoFile ELSE file[c]]
<1>1. ASSUME NEW w \in Workers, Replace(w)
      PROVE  \E v \in VerdictRec :
                /\ task[w].pc = "replace" /\ task'[w].pc = "clean"
                /\ Faithful(v, task[w].cube)
                /\ file' = [file EXCEPT ![task[w].cube] = v]
  <2>1. temp[w] = [rc |-> task[w].rc, drat |-> HasDigest(w)]
    BY <1>1 DEF Replace, InFlightSound
  <2>2. HasDigest(w) \in BOOLEAN
    BY DEF HasDigest
  <2>3. temp[w] \in VerdictRec
    BY <1>1, <2>1, <2>2 DEF Replace, VerdictRec, TypeOK, TaskOK, Writing
  <2>5. task'[w].pc = "clean"
    BY <1>1 DEF Replace, TypeOK, TaskOK
  <2>4. Faithful(temp[w], task[w].cube)
    BY <1>1, <2>1 DEF Replace, Faithful, InFlightSound, Writing
  <2> QED
    BY <1>1, <2>3, <2>4, <2>5 DEF Replace
<1>2. ASSUME CrashCleanup
      PROVE  \E S \in SUBSET Cubes :
                /\ \A c \in S : ~Decided(Read(file[c]))
                /\ file' = [c \in Cubes |-> IF c \in S THEN NoFile ELSE file[c]]
  <2> DEFINE S == {c \in Cubes : file[c] # NoFile /\ ~Decided(Read(file[c]))}
  <2> WITNESS S \in SUBSET Cubes
  <2> QED
    BY <1>2 DEF CrashCleanup
<1>3. CASE UNCHANGED vars
  BY <1>3 DEF vars
<1> QED
  BY <1>1, <1>2, <1>3
  DEF Next, WorkerStep, StartDriver, FinishDriver, Kill, Take, OpenCnf, FillCnf,
      Solve, MakeTemp, HashFails, DumpTemp, WriteFails, CleanUp, CleanUpFails,
      disk

SoundInv == TypeOK /\ Jobs /\ InFlightSound

\* The inductive invariant behind the soundness of the verdict files.
LEMMA SoundInvariant == Spec => []SoundInv
<1>1. Init => InFlightSound
  BY DEF Init, InFlightSound, Idle, Writing
<1> QED
  BY <1>1, InFlightStep, TypeCorrect, JobsInvariant, PTL DEF Spec, SoundInv

\* No kill, torn formula, retry or second driver puts a wrong answer in a
\* verdict file, whatever the number of drivers and workers.
THEOREM Soundness == Spec => []VerdictSound
<1>1. Init => VerdictSound
  BY SentinelAssumption DEF Init, VerdictSound, Read
<1>2. SoundInv /\ VerdictSound /\ [Next]_vars => VerdictSound'
  <2> SUFFICES ASSUME SoundInv, VerdictSound, [Next]_vars
               PROVE  VerdictSound'
    OBVIOUS
  <2> USE SentinelAssumption DEF VerdictSound, Read, SoundInv, TypeOK
  <2> QED
    BY FileStep
<1> QED
  BY <1>1, <1>2, SoundInvariant, PTL DEF Spec

\* No step tears a verdict file: the fix of the 2026-08-22 outage holds for
\* every interleaving and every kill.
THEOREM NeverTorn == Spec => NoNewTorn
<1>1. SoundInv /\ [Next]_vars =>
         [\A c \in Cubes : file'[c] = Torn => file[c] = Torn]_vars
  <2> SUFFICES ASSUME SoundInv, [Next]_vars, NEW c \in Cubes, file'[c] = Torn
               PROVE  file[c] = Torn
    OBVIOUS
  <2> QED
    BY FileStep, SentinelAssumption DEF SoundInv, TypeOK
<1> QED
  BY <1>1, SoundInvariant, PTL DEF Spec, NoNewTorn

-----------------------------------------------------------------------------
(* Settled verdicts are settled for good while one driver runs at a time.  *)

\* With Overlap false no two drivers are alive together, and a worker that
\* is still to publish found nothing settled for its cube.
Single ==
    /\ \A d, e \in Drivers : Live(d) /\ Live(e) => d = e
    /\ \A w \in Workers : task[w].pc \notin {"idle", "clean"} =>
          ~Settled(task[w].cube)

\* With one driver at a time, nobody works on a cube that is settled.
LEMMA SingleStep ==
    ASSUME ~Overlap
    PROVE  SoundInv /\ Single /\ [Next]_vars => Single'
<1> SUFFICES ASSUME SoundInv, Single, [Next]_vars
             PROVE  Single'
  OBVIOUS
<1>1. \A d, e \in Drivers : Live(d)' /\ Live(e)' => d = e
  <2> USE DEF SoundInv, TypeOK, Single, Live, disk
  <2>1. ASSUME NEW d \in Drivers, StartDriver(d)
        PROVE  \A e, f \in Drivers : Live(e)' /\ Live(f)' => e = f
    BY <2>1 DEF StartDriver
  <2>2. ASSUME NEW d \in Drivers, Live(d)',
               ~\E e \in Drivers : StartDriver(e)
        PROVE  Live(d)
    <3>1. CASE \E e \in Drivers : FinishDriver(e) \/ Kill(e)
      BY <2>2, <3>1 DEF FinishDriver, Kill
    <3>2. ASSUME NEW w \in Workers, Raise(w), Live(Boss(w))
          PROVE  Live(d)
      BY <2>2, <3>2 DEF Raise
    <3>3. CASE UNCHANGED driver
      BY <2>2, <3>3
    <3>4. \A w \in Workers : task[w].pc # "idle" => Live(Boss(w))
      BY DEF Jobs
    <3> QED
      BY <2>2, <3>1, <3>2, <3>3, <3>4
      DEF Next, WorkerStep, Take, OpenCnf, FillCnf, Solve, MakeTemp, HashFails,
          DumpTemp, Replace, WriteFails, CleanUp, CleanUpFails, CrashCleanup, vars
  <2> QED
    BY <2>1, <2>2
<1>2. ASSUME NEW w \in Workers, task'[w].pc \notin {"idle", "clean"}
      PROVE  ~Settled(task[w].cube)'
  <2>1. CASE \E c \in Cubes : Take(w, c) /\ task'[w] # task[w]
    <3>0. PICK c \in Cubes : Take(w, c) /\ task'[w] # task[w]
      BY <2>1
    <3>1. /\ Take(w, c)
          /\ task'[w].cube = c
          /\ ~Accepts(Boss(w), Read(file[c]))
      BY <3>0 DEF Take, SoundInv, TypeOK, TaskOK
    <3>2. call[Boss(w)] \in Calls
      BY <3>1 DEF Take, SoundInv, Jobs, Workers, Boss
    <3>3. ~Settled(c)
      BY <3>1, <3>2, SentinelAssumption DEF Settled, Accepts, Read, Decided
    <3> QED
      BY <3>1, <3>3 DEF Take, Settled, disk
  <2>2. CASE ~\E c \in Cubes : Take(w, c) /\ task'[w] # task[w]
    <3>1. /\ task[w].pc \notin {"idle", "clean"}
          /\ task'[w].cube = task[w].cube
      <4> USE DEF SoundInv, TypeOK, TaskOK
      <4>1. ASSUME NEW o \in Workers, NEW c \in Cubes, Take(o, c)
            PROVE  task'[w] = task[w]
        BY <2>2, <4>1 DEF Take
      <4>2. ASSUME NEW o \in Workers,
                   \/ OpenCnf(o) \/ FillCnf(o) \/ Solve(o) \/ MakeTemp(o)
                   \/ DumpTemp(o) \/ Replace(o)
            PROVE  <3>1!:
        BY <1>2, <4>2
        DEF OpenCnf, FillCnf, Solve, MakeTemp, DumpTemp, Replace
      <4>3. ASSUME NEW o \in Workers,
                   \/ HashFails(o) \/ WriteFails(o) \/ CleanUp(o) \/ CleanUpFails(o)
            PROVE  <3>1!:
        BY <1>2, <4>3
        DEF HashFails, WriteFails, CleanUp, CleanUpFails, Raise, Idle
      <4>4. ASSUME NEW d \in Drivers, Kill(d)
            PROVE  <3>1!:
        BY <1>2, <4>4 DEF Kill, Idle
      <4>5. CASE \E d \in Drivers : StartDriver(d) \/ FinishDriver(d)
        BY <1>2, <4>5 DEF StartDriver, FinishDriver
      <4>6. CASE CrashCleanup \/ UNCHANGED vars
        BY <1>2, <4>6 DEF CrashCleanup, vars
      <4> QED
        BY <1>2, <4>1, <4>2, <4>3, <4>4, <4>5, <4>6 DEF Next, WorkerStep
    <3>2. Live(Boss(w)) /\ task[w].cube \in Cubes /\ ~Settled(task[w].cube)
      BY <3>1 DEF SoundInv, Jobs, Single, TypeOK, TaskOK
    <3>3. CASE UNCHANGED file
      BY <3>1, <3>2, <3>3 DEF Settled
    <3>4. ASSUME NEW o \in Workers, NEW v \in VerdictRec,
                 task[o].pc = "replace", task'[o].pc = "clean",
                 file' = [file EXCEPT ![task[o].cube] = v]
          PROVE  ~Settled(task[w].cube)'
      <4>1. Live(Boss(o)) /\ Boss(o) \in Drivers /\ Boss(w) \in Drivers
        BY <3>4 DEF SoundInv, Jobs, Workers, Boss
      <4>2. Boss(o) = Boss(w) /\ o # w
        BY <1>2, <3>2, <3>4, <4>1 DEF Single
      <4>3. task[o].cube # task[w].cube
        BY <3>1, <3>4, <4>2 DEF SoundInv, Jobs
      <4> QED
        BY <3>1, <3>2, <3>4, <4>3 DEF Settled, SoundInv, TypeOK
    <3>5. ASSUME NEW S \in SUBSET Cubes,
                 file' = [c \in Cubes |-> IF c \in S THEN NoFile ELSE file[c]]
          PROVE  ~Settled(task[w].cube)'
      BY <3>1, <3>2, <3>5, SentinelAssumption DEF Settled, Read, Decided
    <3> QED
      BY <3>3, <3>4, <3>5, FileStep DEF SoundInv
  <2> QED
    BY <2>1, <2>2
<1> QED
  BY <1>1, <1>2 DEF Single

\* "Every phase is resumable": with one driver at a time no retry, kill,
\* timeout or clean-up replaces or deletes a verdict that every command line
\* in use would accept.
THEOREM SettledForGood == ASSUME ~Overlap PROVE Spec => SettledKept
<1>1. Init => Single
  BY DEF Init, Single, Live, Idle
<1>2. SoundInv /\ Single /\ [Next]_vars =>
         [\A c \in Cubes : Settled(c) => file'[c] = file[c]]_vars
  <2> SUFFICES ASSUME SoundInv, Single, [Next]_vars, NEW c \in Cubes, Settled(c)
               PROVE  file'[c] = file[c]
    OBVIOUS
  <2>1. ASSUME NEW w \in Workers, NEW v \in VerdictRec, task[w].pc = "replace",
               file' = [file EXCEPT ![task[w].cube] = v]
        PROVE  file'[c] = file[c]
    BY <2>1 DEF Single, SoundInv, TypeOK
  <2>2. ASSUME NEW S \in SUBSET Cubes, \A e \in S : ~Decided(Read(file[e])),
               file' = [e \in Cubes |-> IF e \in S THEN NoFile ELSE file[e]]
        PROVE  file'[c] = file[c]
    BY <2>2 DEF Settled
  <2> QED
    BY <2>1, <2>2, FileStep DEF SoundInv
<1> QED
  BY <1>1, <1>2, SingleStep, SoundInvariant, PTL DEF Spec, SettledKept

-----------------------------------------------------------------------------
(* The directory implements the abstract store.                            *)

\* Seen through read_verdict, every step of the wave is a step of the
\* abstract store: one whole faithful verdict recorded, undecided ones
\* discarded, or nothing.
THEOREM ImplementsStore == Spec => StoreSpec
<1>1. Init => Store!Init
  BY SentinelAssumption DEF Init, Store!Init, Read
<1>2. SoundInv /\ [Next]_vars => [Store!Next]_([c \in Cubes |-> Read(file[c])])
  <2> SUFFICES ASSUME SoundInv, [Next]_vars
               PROVE  [Store!Next]_([c \in Cubes |-> Read(file[c])])
    OBVIOUS
  <2> DEFINE reg == [c \in Cubes |-> Read(file[c])]
  <2>1. CASE UNCHANGED file
    BY <2>1
  <2>2. ASSUME NEW w \in Workers, NEW v \in VerdictRec, task[w].cube \in Cubes,
               Faithful(v, task[w].cube),
               file' = [file EXCEPT ![task[w].cube] = v]
        PROVE  Store!Next
    <3>1. reg' = [reg EXCEPT ![task[w].cube] = v]
      BY <2>2 DEF Read, SoundInv, TypeOK
    <3>2. Store!Record(task[w].cube)
      BY <2>2, <3>1
      DEF Store!Record, Store!VerdictRec, Store!Faithful, Store!Rcs,
          Store!Answers, VerdictRec, Faithful, Rcs, Answers
    <3> QED
      BY <2>2, <3>2 DEF Store!Next
  <2>3. ASSUME NEW S \in SUBSET Cubes, \A c \in S : ~Decided(Read(file[c])),
               file' = [c \in Cubes |-> IF c \in S THEN NoFile ELSE file[c]]
        PROVE  Store!Next
    <3>1. reg' = [c \in Cubes |-> IF c \in S THEN None ELSE reg[c]]
      BY <2>3, SentinelAssumption DEF Read
    <3>2. \A c \in S : ~Decided(reg[c])
      BY <2>3
    <3>3. Store!Discard
      BY <3>1, <3>2
      DEF Store!Discard, Store!Decided, Store!VerdictRec, Store!Rcs,
          Store!Answers, Decided, VerdictRec, Rcs, Answers
    <3> QED
      BY <3>3 DEF Store!Next
  <2> QED
    BY <2>1, <2>2, <2>3, FileStep, BusyCube DEF SoundInv, TypeOK
<1> QED
  BY <1>1, <1>2, SoundInvariant, PTL DEF Spec, StoreSpec, Store!Spec


-----------------------------------------------------------------------------
(* count_verdicts.                                                         *)

WithRc(rc) == {c \in Cubes : Read(file[c]) # None /\ Read(file[c]).rc = rc}

\* A count is at most the number of cubes with that answer, whatever else the
\* directory holds, and a count above zero is about some cube.
LEMMA CountBound ==
    ASSUME IsFiniteSet(Cubes), NEW rc
    PROVE  /\ CountRc(rc) <= Cardinality(WithRc(rc))
           /\ CountRc(rc) \in Nat
           /\ CountRc(rc) > 0 => WithRc(rc) # {}
<1> DEFINE E == {e \in Entries : /\ IsVerdictName(e)
                                 /\ Read(ContentOf(e)) # None
                                 /\ Read(ContentOf(e)).rc = rc}
           f == [c \in WithRc(rc) |-> [kind |-> "v", of |-> c]]
<1>1. IsFiniteSet(WithRc(rc))
  BY FS_Subset DEF WithRc
<1>2. \A e \in E : e.of \in WithRc(rc) /\ e = [kind |-> "v", of |-> e.of]
  BY DEF Entries, IsVerdictName, ContentOf, WithRc
<1>3. \A c \in WithRc(rc) : file[c] # NoFile /\ c \in Cubes
                           /\ Read(file[c]) # None /\ Read(file[c]).rc = rc
  BY SentinelAssumption DEF WithRc, Read
<1>4. \A c \in WithRc(rc) : f[c] \in E
  BY <1>3 DEF Entries, IsVerdictName, ContentOf
<1>5. \A e \in E : e.of \in WithRc(rc) /\ f[e.of] = e
  BY <1>2
<1>6. f \in Surjection(WithRc(rc), E)
  BY <1>4, <1>5 DEF Surjection
<1>7. IsFiniteSet(E) /\ Cardinality(E) <= Cardinality(WithRc(rc))
  BY <1>1, <1>6, FS_Surjection
<1>8. Cardinality(E) \in Nat
  BY <1>7, FS_CardinalityType
<1>9. CountRc(rc) = Cardinality(E)
  BY DEF CountRc
<1>10. CountRc(rc) > 0 => WithRc(rc) # {}
  <2> SUFFICES ASSUME WithRc(rc) = {} PROVE ~(CountRc(rc) > 0)
    OBVIOUS
  <2>1. E = {}
    BY <1>5
  <2> QED
    BY <2>1, <1>9, FS_EmptySet
<1> QED
  BY <1>7, <1>8, <1>9, <1>10

\* What the orchestrator concludes from count_verdicts is true of the cubes.
THEOREM CountsTrue == ASSUME IsFiniteSet(Cubes) PROVE Spec => []CountSound
<1>1. VerdictSound => CountSound
  <2> SUFFICES ASSUME VerdictSound PROVE CountSound
    OBVIOUS
  <2>1. \A rc \in Answers : \A c \in WithRc(rc) : Truth[c] = rc
    BY SentinelAssumption DEF WithRc, VerdictSound, Faithful, Read
  <2>2. ASSUME CountRc("unsat") >= Cardinality(Cubes)
        PROVE  \A c \in Cubes : Truth[c] = "unsat"
    <3>1. WithRc("unsat") \in SUBSET Cubes
      BY DEF WithRc
    <3>2. /\ Cardinality(WithRc("unsat")) <= Cardinality(Cubes)
          /\ Cardinality(Cubes) = Cardinality(WithRc("unsat")) => Cubes = WithRc("unsat")
          /\ IsFiniteSet(WithRc("unsat"))
      BY <3>1, FS_Subset
    <3>3. Cardinality(WithRc("unsat")) \in Nat /\ Cardinality(Cubes) \in Nat
      BY <3>2, FS_CardinalityType
    <3>4. CountRc("unsat") <= Cardinality(WithRc("unsat")) /\ CountRc("unsat") \in Nat
      BY CountBound
    <3>5. Cubes = WithRc("unsat")
      BY <2>2, <3>2, <3>3, <3>4
    <3> QED
      BY <2>1, <3>5 DEF Answers
  <2>3. ASSUME CountRc("sat") > 0
        PROVE  \E c \in Cubes : Truth[c] = "sat"
    <3>1. PICK c \in WithRc("sat") : TRUE
      BY <2>3, CountBound
    <3> QED
      BY <2>1, <3>1 DEF WithRc, Answers
  <2> QED
    BY <2>2, <2>3 DEF CountSound
<1> QED
  BY <1>1, Soundness, PTL

-----------------------------------------------------------------------------
(* A driver that ends without an exception.                                *)

HasVerdict(c) == Read(file[c]) # None

\* Every id of a driver that no job has failed is done, in the queue, or in
\* the hands of a worker; a worker that is cleaning up has written its verdict.
InHand ==
    /\ \A d \in Drivers : driver[d] = "running" =>
          \A c \in call[d].ids : \/ HasVerdict(c) \/ c \in queue[d]
                                 \/ \E s \in Slots : WorksOn(<<d, s>>, c)
    /\ \A w \in Workers : task[w].pc = "clean" => HasVerdict(task[w].cube)

\* What os.replace publishes is a verdict.
LEMMA Publishes ==
    ASSUME SoundInv, NEW w \in Workers, Replace(w)
    PROVE  temp[w] = [rc |-> task[w].rc, drat |-> HasDigest(w)]
           /\ temp[w] \in VerdictRec /\ task[w].cube \in Cubes
<1>1. temp[w] = [rc |-> task[w].rc, drat |-> HasDigest(w)]
  BY DEF Replace, SoundInv, InFlightSound
<1>2. HasDigest(w) \in BOOLEAN
  BY DEF HasDigest
<1>3. task[w].rc \in Rcs /\ task[w].cube \in Cubes
  BY DEF Replace, SoundInv, TypeOK, TaskOK, Writing
<1> QED
  BY <1>1, <1>2, <1>3 DEF VerdictRec

\* A verdict only ever goes when nothing runs.
LEMMA VerdictGoes ==
    ASSUME SoundInv, [Next]_vars, NEW c \in Cubes, HasVerdict(c), ~HasVerdict(c)'
    PROVE  CrashCleanup
<1> USE SentinelAssumption DEF HasVerdict, Read, SoundInv, TypeOK
<1>1. ASSUME NEW w \in Workers, Replace(w)
      PROVE  FALSE
  <2>1. temp[w] \in VerdictRec /\ task[w].cube \in Cubes
    BY <1>1, Publishes
  <2> QED
    BY <1>1, <2>1 DEF Replace
<1>2. CASE UNCHANGED file
  BY <1>2
<1> QED
  BY <1>1, <1>2
  DEF Next, WorkerStep, StartDriver, FinishDriver, Kill, Take, OpenCnf, FillCnf,
      Solve, MakeTemp, HashFails, DumpTemp, WriteFails, CleanUp, CleanUpFails,
      disk, vars

\* No step drops an id of a driver that is running cleanly.
LEMMA InHandStep == SoundInv /\ InHand /\ [Next]_vars => InHand'
<1> SUFFICES ASSUME SoundInv, InHand, [Next]_vars PROVE InHand'
  OBVIOUS
<1> USE SentinelAssumption DEF Workers, Boss, disk
<1>0. TypeOK /\ TaskOK
  BY DEF SoundInv, TypeOK
<1>1. CASE CrashCleanup
  <2>1. \A d \in Drivers : ~Live(d)
    BY <1>1 DEF CrashCleanup
  <2>2. \A w \in Workers : task[w].pc = "idle"
    BY <2>1 DEF SoundInv, Jobs
  <2>3. UNCHANGED <<driver, task>>
    BY <1>1 DEF CrashCleanup
  <2> QED
    BY <2>1, <2>2, <2>3 DEF InHand, Live
<1>2. ASSUME ~CrashCleanup
      PROVE  \A c \in Cubes : HasVerdict(c) => HasVerdict(c)'
  BY <1>2, VerdictGoes
<1>c. \A d \in Drivers : call[d].ids \subseteq Cubes
  BY <1>0 DEF TypeOK
\* a step of one worker that leaves the queue alone
<1>3. ASSUME NEW w \in Workers, UNCHANGED <<queue, call>>, ~CrashCleanup,
             \A o \in Workers : o # w => task'[o] = task[o],
             \A d \in Drivers : driver'[d] = "running" => driver[d] = "running",
             \/ task'[w].cube = task[w].cube
             \/ driver'[Boss(w)] # "running"
             \/ task[w].cube \in Cubes => HasVerdict(task[w].cube),
             task'[w].pc = "clean" => HasVerdict(task[w].cube)'
      PROVE  InHand'
  <2>1. ASSUME NEW d \in Drivers, driver'[d] = "running", NEW c \in call[d].ids
        PROVE  \/ HasVerdict(c)' \/ c \in queue[d]
               \/ \E s \in Slots : task'[<<d, s>>].cube = c
    <3>1. CASE HasVerdict(c)
      BY <1>2, <1>3, <1>c, <3>1
    <3>2. ASSUME NEW s \in Slots, task[<<d, s>>].cube = c, ~HasVerdict(c)
          PROVE  task'[<<d, s>>].cube = c
      BY <1>3, <1>c, <2>1, <3>2
    <3> QED
      BY <1>3, <2>1, <3>1, <3>2 DEF InHand, WorksOn
  <2>2. ASSUME NEW o \in Workers, o # w, task'[o].pc = "clean"
        PROVE  HasVerdict(task[o].cube)'
    BY <1>0, <1>2, <1>3, <2>2 DEF InHand, TaskOK
  <2> QED
    BY <1>3, <2>1, <2>2 DEF InHand, WorksOn
<1>4. ASSUME NEW w \in Workers,
             OpenCnf(w) \/ FillCnf(w) \/ Solve(w) \/ MakeTemp(w) \/ DumpTemp(w)
      PROVE  InHand'
  <2>1. /\ UNCHANGED <<queue, call, driver, file>>
        /\ \A o \in Workers : o # w => task'[o] = task[o]
        /\ task'[w].cube = task[w].cube /\ task'[w].pc # "clean"
    BY <1>0, <1>4 DEF OpenCnf, FillCnf, Solve, MakeTemp, DumpTemp, TaskOK
  <2> QED
    BY <1>1, <1>3, <2>1
<1>5. ASSUME NEW w \in Workers, Replace(w)
      PROVE  InHand'
  <2>1. temp[w] \in VerdictRec /\ task[w].cube \in Cubes
    BY <1>5, Publishes
  <2>2. /\ UNCHANGED <<queue, call, driver>>
        /\ \A o \in Workers : o # w => task'[o] = task[o]
        /\ task'[w].cube = task[w].cube
        /\ file'[task[w].cube] = temp[w]
    BY <1>0, <1>5, <2>1 DEF Replace, TaskOK, TypeOK
  <2>3. HasVerdict(task[w].cube)'
    BY <2>1, <2>2 DEF HasVerdict, Read
  <2> QED
    BY <1>1, <1>3, <2>2, <2>3
<1>6. ASSUME NEW w \in Workers,
             HashFails(w) \/ WriteFails(w) \/ CleanUpFails(w) \/ CleanUp(w)
      PROVE  InHand'
  <2>1. /\ UNCHANGED <<queue, call>>
        /\ task' = [task EXCEPT ![w] = Idle]
        /\ \/ driver' = [driver EXCEPT ![Boss(w)] = "failing"]
           \/ UNCHANGED driver /\ task[w].pc = "clean"
    BY <1>6 DEF HashFails, WriteFails, CleanUp, CleanUpFails, Raise
  <2>2. /\ \A o \in Workers : o # w => task'[o] = task[o]
        /\ task'[w] = Idle
        /\ \A d \in Drivers : driver'[d] = "running" => driver[d] = "running"
        /\ driver'[Boss(w)] = "failing" \/ task[w].pc = "clean"
    BY <1>0, <2>1 DEF TypeOK, TaskOK
  <2> QED
    BY <1>1, <1>3, <2>1, <2>2 DEF InHand, Idle
<1>7. ASSUME NEW w \in Workers, NEW c \in Cubes, Take(w, c)
      PROVE  InHand'
  <2>1. /\ UNCHANGED <<file, call, driver>>
        /\ \A o \in Workers : o # w => task'[o] = task[o]
        /\ task[w] = Idle /\ task'[w].pc # "clean"
        /\ \A d \in Drivers : queue[d] \subseteq queue'[d] \cup IF d = Boss(w) THEN {c} ELSE {}
        /\ HasVerdict(c) \/ task'[w].cube = c
    BY <1>0, <1>7
    DEF Take, TaskOK, TypeOK, Idle, Accepts, Decided, HasVerdict
  <2>2. ASSUME NEW d \in Drivers, driver[d] = "running", NEW e \in call[d].ids
        PROVE  \/ HasVerdict(e) \/ e \in queue'[d]
               \/ \E s \in Slots : task'[<<d, s>>].cube = e
    <3>1. ASSUME NEW s \in Slots, task[<<d, s>>].cube = e
          PROVE  task'[<<d, s>>].cube = e
      BY <1>c, <2>1, <2>2, <3>1 DEF Idle
    <3>2. CASE e \in queue[d]
      <4>1. CASE d = Boss(w) /\ e = c
        <5>1. PICK s \in Slots : w = <<d, s>>
          BY <4>1
        <5> QED
          BY <2>1, <4>1, <5>1
      <4> QED
        BY <2>1, <3>2, <4>1
    <3> QED
      BY <2>2, <3>1, <3>2 DEF InHand, WorksOn
  <2> QED
    BY <2>1, <2>2 DEF InHand, WorksOn, HasVerdict
<1>8. ASSUME NEW d \in Drivers, StartDriver(d)
      PROVE  InHand'
  <2>1. /\ UNCHANGED <<file, task>>
        /\ call'[d].ids = queue'[d]
        /\ \A e \in Drivers : e # d => /\ call'[e] = call[e] /\ queue'[e] = queue[e]
                                       /\ driver'[e] = driver[e]
    BY <1>0, <1>8 DEF StartDriver, TypeOK
  <2> QED
    BY <2>1 DEF InHand, WorksOn, HasVerdict
<1>9. ASSUME NEW d \in Drivers, FinishDriver(d)
      PROVE  InHand'
  <2>1. /\ UNCHANGED <<file, task, queue, call>>
        /\ \A e \in Drivers : driver'[e] = "running" => driver[e] = "running"
    BY <1>0, <1>9 DEF FinishDriver, TypeOK
  <2> QED
    BY <2>1 DEF InHand, WorksOn, HasVerdict
<1>10. ASSUME NEW d \in Drivers, Kill(d)
       PROVE  InHand'
  <2>1. /\ UNCHANGED <<file, call>>
        /\ driver'[d] = "killed"
        /\ \A e \in Drivers : e # d => queue'[e] = queue[e] /\ driver'[e] = driver[e]
        /\ \A w \in Workers : task'[w] = IF Boss(w) = d THEN Idle ELSE task[w]
    BY <1>0, <1>10 DEF Kill, TypeOK
  <2>2. ASSUME NEW e \in Drivers, driver'[e] = "running", NEW c \in call[e].ids
        PROVE  \/ HasVerdict(c) \/ c \in queue'[e]
               \/ \E s \in Slots : task'[<<e, s>>].cube = c
    <3>1. e # d /\ driver[e] = "running"
      BY <2>1, <2>2
    <3>2. \A s \in Slots : task'[<<e, s>>] = task[<<e, s>>]
      BY <2>1, <3>1
    <3> QED
      BY <2>1, <2>2, <3>1, <3>2 DEF InHand, WorksOn
  <2>3. ASSUME NEW w \in Workers, task'[w].pc = "clean"
        PROVE  HasVerdict(task'[w].cube)
    BY <2>1, <2>3 DEF InHand, Idle
  <2> QED
    BY <2>1, <2>2, <2>3 DEF InHand, WorksOn, HasVerdict
<1>11. CASE UNCHANGED vars
  BY <1>11 DEF vars, InHand, WorksOn, HasVerdict
<1> QED
  BY <1>1, <1>4, <1>5, <1>6, <1>7, <1>8, <1>9, <1>10, <1>11 DEF Next, WorkerStep

\* A driver that ends without an exception leaves a readable verdict for every
\* id it was given, whatever it found and whoever else wrote there.
THEOREM CleanEnd == Spec => CleanEndCovers
<1>1. Init => InHand
  BY DEF Init, InHand, Idle
<1>2. SoundInv /\ InHand /\ [Next]_vars =>
         [\A d \in Drivers : driver[d] # "done" /\ driver'[d] = "done" =>
              \A c \in call[d].ids : Read(file[c]) # None]_vars
  <2> SUFFICES ASSUME SoundInv, InHand, [Next]_vars, NEW d \in Drivers,
                      driver[d] # "done", driver'[d] = "done", NEW c \in call[d].ids
               PROVE  HasVerdict(c)
    BY DEF HasVerdict
  <2>0. driver \in [Drivers -> {"off", "running", "failing", "done", "failed", "killed"}]
        /\ c \in Cubes
    BY DEF SoundInv, TypeOK
  <2>1. FinishDriver(d)
    BY <2>0
    DEF Next, WorkerStep, StartDriver, FinishDriver, Kill, Take, OpenCnf, FillCnf,
        Solve, MakeTemp, HashFails, DumpTemp, Replace, WriteFails, CleanUp,
        CleanUpFails, CrashCleanup, Raise, Boss, Workers, vars
  <2>2. driver[d] = "running" /\ queue[d] = {} /\ \A s \in Slots : task[<<d, s>>].cube = None
    BY <2>0, <2>1 DEF FinishDriver, Live, Idle
  <2> QED
    BY <2>0, <2>2, SentinelAssumption DEF InHand, WorksOn
<1> QED
  BY <1>1, <1>2, InHandStep, SoundInvariant, PTL DEF Spec, CleanEndCovers
-----------------------------------------------------------------------------
(* What a job leaves behind, with one driver at a time.                    *)

HasDrat(c) == HasVerdict(c) /\ file[c].drat

\* Who works on a cube whose verdict has a digest is only cleaning up, and who
\* is about to write such a verdict has the complete proof on disk.
Filing(w) ==
    LET c == task[w].cube IN
    /\ task[w].pc \notin {"idle", "clean"} => ~HasDrat(c)
    /\ task[w].pc \in {"temp", "dump", "replace"} /\ HasDigest(w) => proof[c] = Whole
    /\ task[w].pc = "clean" => (HasDigest(w) <=> HasDrat(c))

Owned(c) == (\E w \in Workers : WorksOn(w, c)) \/ c \in left \/ HasDrat(c)

Filed(c) ==
    /\ HasDrat(c) => file[c].rc = "unsat" /\ proof[c] = Whole
    /\ cnf[c] # NoFile => Owned(c)

FilesInv == (\A w \in Workers : Filing(w)) /\ (\A c \in Cubes : Filed(c))

\* With one driver at a time two workers never work on one cube.
LEMMA Apart ==
    ASSUME SoundInv, Single, NEW w \in Workers, NEW o \in Workers, w # o,
           task[w].pc # "idle", task[o].pc # "idle"
    PROVE  task[w].cube # task[o].cube
<1>1. Live(Boss(w)) /\ Live(Boss(o)) /\ Boss(w) \in Drivers /\ Boss(o) \in Drivers
  BY DEF SoundInv, Jobs, Workers, Boss
<1>2. Boss(w) = Boss(o)
  BY <1>1 DEF Single
<1> QED
  BY <1>2 DEF SoundInv, Jobs

\* A step of a worker on its cube is nobody else's business.
LEMMA OwnFiles ==
    ASSUME SoundInv, Single, FilesInv, NEW w \in Workers, task[w].pc # "idle",
           UNCHANGED call, left \subseteq left',
           \A o \in Workers : o # w => task'[o] = task[o],
           \A e \in Cubes : e # task[w].cube =>
              file'[e] = file[e] /\ cnf'[e] = cnf[e] /\ proof'[e] = proof[e],
           Filing(w)', \A e \in Cubes : e = task[w].cube => Filed(e)'
    PROVE  FilesInv'
<1>1. ASSUME NEW o \in Workers, o # w
      PROVE  Filing(o)'
  <2>1. CASE task[o].pc = "idle"
    BY <1>1, <2>1 DEF Filing
  <2>2. CASE task[o].pc # "idle"
    <3>1. task[o].cube # task[w].cube /\ task[o].cube \in Cubes
      BY <1>1, <2>2, Apart, BusyCube DEF SoundInv, TypeOK
    <3> QED
      BY <1>1, <3>1 DEF FilesInv, Filing, HasDrat, HasVerdict, HasDigest
  <2> QED
    BY <2>1, <2>2
<1>2. ASSUME NEW e \in Cubes, e # task[w].cube
      PROVE  Filed(e)'
  <2>1. \A o \in Workers : WorksOn(o, e) => WorksOn(o, e)'
    BY <1>2 DEF WorksOn
  <2> QED
    BY <1>2, <2>1 DEF FilesInv, Filed, Owned, HasDrat, HasVerdict
<1> QED
  BY <1>1, <1>2 DEF FilesInv

\* A step that touches no file, and leaves no cube without its owner.
LEMMA NoFiles ==
    ASSUME FilesInv, UNCHANGED disk, left \subseteq left',
           \A w \in Workers : \/ task'[w].pc = "idle"
                              \/ task'[w] = task[w] /\ HasDigest(w)' = HasDigest(w),
           \A w \in Workers, c \in Cubes : WorksOn(w, c) => WorksOn(w, c)' \/ c \in left'
    PROVE  FilesInv'
<1>1. ASSUME NEW w \in Workers
      PROVE  Filing(w)'
  BY <1>1 DEF FilesInv, Filing, HasDrat, HasVerdict, disk
<1>2. ASSUME NEW c \in Cubes
      PROVE  Filed(c)'
  BY <1>2 DEF FilesInv, Filed, Owned, HasDrat, HasVerdict, disk
<1> QED
  BY <1>1, <1>2 DEF FilesInv

\* No step takes a file from its owner, with one driver at a time.
LEMMA FilesStep ==
    SoundInv /\ Single /\ FilesInv /\ [Next]_vars => FilesInv'
<1> SUFFICES ASSUME SoundInv, Single, FilesInv, [Next]_vars PROVE FilesInv'
  OBVIOUS
<1> USE SentinelAssumption DEF disk
<1>0. TypeOK /\ TaskOK
  BY DEF SoundInv, TypeOK
<1>f. \A w \in Workers : Filing(w)
  BY DEF FilesInv
<1>1. ASSUME NEW w \in Workers, task[w].pc # "idle"
      PROVE  task[w].cube \in Cubes /\ Filed(task[w].cube) /\ Filing(w)
  BY <1>0, <1>1, BusyCube DEF FilesInv
<1>d. ASSUME NEW d \in Drivers, StartDriver(d)
      PROVE  FilesInv'
  <2>1. \A w \in Workers : task[w].pc = "idle" \/ HasDigest(w)' = HasDigest(w)
    BY <1>0, <1>d DEF StartDriver, HasDigest, SoundInv, Jobs, Live, TypeOK, Boss, Workers
  <2> QED
    BY <1>d, <2>1, NoFiles DEF StartDriver, WorksOn
<1>e. ASSUME NEW d \in Drivers, FinishDriver(d)
      PROVE  FilesInv'
  BY <1>e, NoFiles DEF FinishDriver, HasDigest, WorksOn
<1>k. ASSUME NEW d \in Drivers, Kill(d)
      PROVE  FilesInv'
  <2>1. /\ UNCHANGED <<disk, call>> /\ left \subseteq left'
        /\ \A w \in Workers : task'[w] = IF Boss(w) = d THEN Idle ELSE task[w]
    BY <1>0, <1>k DEF Kill
  <2>2. ASSUME NEW w \in Workers, NEW c \in Cubes, WorksOn(w, c)
        PROVE  WorksOn(w, c)' \/ c \in left'
    <3>1. CASE Boss(w) = d
      <4>1. PICK s \in Slots : w = <<d, s>>
        BY <3>1 DEF Workers, Boss
      <4> QED
        BY <1>k, <2>2, <4>1 DEF Kill
    <3>2. CASE Boss(w) # d
      BY <2>1, <2>2, <3>2 DEF WorksOn
    <3> QED
      BY <3>1, <3>2
  <2> QED
    BY <2>1, <2>2, NoFiles DEF Idle, HasDigest
<1>t. ASSUME NEW w \in Workers, NEW c \in Cubes, Take(w, c)
      PROVE  FilesInv'
  <2>1. /\ UNCHANGED <<disk, call, left>>
        /\ task[w] = Idle
        /\ \A o \in Workers : o # w => task'[o] = task[o]
        /\ \/ task'[w] = Idle
           \/ /\ task'[w] = [pc |-> "open", cube |-> c, rc |-> None]
              /\ ~Accepts(Boss(w), Read(file[c]))
    BY <1>0, <1>t DEF Take, TaskOK
  <2>2. Live(Boss(w)) /\ Boss(w) \in Drivers
    BY <1>t DEF Take, Boss, Workers
  <2>3. \A o \in Workers, e \in Cubes : WorksOn(o, e) => WorksOn(o, e)'
    BY <2>1 DEF WorksOn, Idle
  <2>4. \A e \in Cubes : Filed(e)'
    BY <2>1, <2>3 DEF FilesInv, Filed, Owned, HasDrat, HasVerdict
  <2>5. HasDrat(c) => Accepts(Boss(w), Read(file[c]))
    BY DEF FilesInv, Filed, HasDrat, HasVerdict, Read, Accepts, Decided, Answers
  <2>6. Filing(w)'
    BY <2>1, <2>5 DEF Filing, Idle, HasDrat, HasVerdict
  <2>7. \A o \in Workers : o # w => Filing(o)'
    BY <1>f, <2>1 DEF Filing, HasDrat, HasVerdict, HasDigest
  <2> QED
    BY <2>4, <2>6, <2>7 DEF FilesInv
<1>2. ASSUME NEW w \in Workers, OpenCnf(w)
      PROVE  FilesInv'
  <2>1. /\ task[w].pc = "open" /\ UNCHANGED <<file, proof, call, left>>
        /\ \A o \in Workers : o # w => task'[o] = task[o]
        /\ task'[w].cube = task[w].cube /\ task'[w].pc = "fill"
        /\ \A e \in Cubes : e # task[w].cube => cnf'[e] = cnf[e]
    BY <1>0, <1>2 DEF OpenCnf, TaskOK, TypeOK
  <2>2. Filing(w)'
    BY <1>f, <2>1 DEF Filing, HasDrat, HasVerdict
  <2>3. \A c \in Cubes : c = task[w].cube => Filed(c)'
    BY <1>1, <2>1 DEF Filed, Owned, WorksOn, HasDrat, HasVerdict
  <2> QED
    BY <2>1, <2>2, <2>3, OwnFiles
<1>3. ASSUME NEW w \in Workers, FillCnf(w)
      PROVE  FilesInv'
  <2>1. /\ task[w].pc = "fill" /\ UNCHANGED <<file, call, left>>
        /\ \A o \in Workers : o # w => task'[o] = task[o]
        /\ task'[w].cube = task[w].cube /\ task'[w].pc = "solve"
        /\ \A e \in Cubes : e # task[w].cube => cnf'[e] = cnf[e] /\ proof'[e] = proof[e]
    BY <1>0, <1>3 DEF FillCnf, TaskOK, TypeOK
  <2>2. Filing(w)'
    BY <1>f, <2>1 DEF Filing, HasDrat, HasVerdict
  <2>3. \A c \in Cubes : c = task[w].cube => Filed(c)'
    BY <1>1, <2>1, <2>2 DEF Filing, Filed, Owned, WorksOn, HasDrat, HasVerdict
  <2> QED
    BY <2>1, <2>2, <2>3, OwnFiles
<1>4. ASSUME NEW w \in Workers, Solve(w)
      PROVE  FilesInv'
  <2>1. PICK rc \in SolverMaySay(task[w].cube) :
           /\ task' = [task EXCEPT
                         ![w] = [pc |-> "temp", cube |-> task[w].cube, rc |-> rc]]
           /\ proof' = IF call[Boss(w)].proof /\ rc = "unsat"
                       THEN [proof EXCEPT ![task[w].cube] = Whole] ELSE proof
    BY <1>4 DEF Solve
  <2>2. /\ task[w].pc = "solve" /\ UNCHANGED <<file, cnf, call, left>>
        /\ \A o \in Workers : o # w => task'[o] = task[o]
        /\ task'[w] = [pc |-> "temp", cube |-> task[w].cube, rc |-> rc]
        /\ \A e \in Cubes : e # task[w].cube => proof'[e] = proof[e]
        /\ call[Boss(w)].proof /\ rc = "unsat" => proof'[task[w].cube] = Whole
    BY <1>0, <1>1, <1>4, <2>1 DEF Solve, TaskOK, TypeOK
  <2>3. Filing(w)'
    BY <1>f, <2>2 DEF Filing, HasDrat, HasVerdict, HasDigest
  <2>4. \A c \in Cubes : c = task[w].cube => Filed(c)'
    BY <1>1, <2>2, <2>3 DEF Filing, Filed, Owned, WorksOn, HasDrat, HasVerdict
  <2> QED
    BY <2>2, <2>3, <2>4, OwnFiles
<1>5. ASSUME NEW w \in Workers, MakeTemp(w) \/ DumpTemp(w)
      PROVE  FilesInv'
  <2>1. /\ task[w].pc \in {"temp", "dump"} /\ UNCHANGED <<file, cnf, proof, call, left>>
        /\ \A o \in Workers : o # w => task'[o] = task[o]
        /\ task'[w].cube = task[w].cube /\ task'[w].rc = task[w].rc
        /\ task'[w].pc \in {"dump", "replace"}
    BY <1>0, <1>5 DEF MakeTemp, DumpTemp, TaskOK
  <2>2. Filing(w)'
    BY <1>f, <2>1 DEF Filing, HasDrat, HasVerdict, HasDigest
  <2>3. \A c \in Cubes : c = task[w].cube => Filed(c)'
    BY <1>1, <2>1 DEF Filed, Owned, WorksOn, HasDrat, HasVerdict
  <2> QED
    BY <2>1, <2>2, <2>3, OwnFiles
<1>6. ASSUME NEW w \in Workers, Replace(w)
      PROVE  FilesInv'
  <2>1. /\ temp[w] = [rc |-> task[w].rc, drat |-> HasDigest(w)]
        /\ temp[w] \in VerdictRec /\ task[w].cube \in Cubes
    BY <1>6, Publishes
  <2>2. /\ task[w].pc = "replace" /\ UNCHANGED <<cnf, proof, call, left>>
        /\ \A o \in Workers : o # w => task'[o] = task[o]
        /\ task'[w].cube = task[w].cube /\ task'[w].rc = task[w].rc
        /\ task'[w].pc = "clean"
        /\ file'[task[w].cube] = temp[w]
        /\ \A e \in Cubes : e # task[w].cube => file'[e] = file[e]
    BY <1>0, <1>6, <2>1 DEF Replace, TaskOK, TypeOK
  <2>3. HasDrat(task[w].cube)' <=> HasDigest(w)
    BY <2>1, <2>2 DEF HasDrat, HasVerdict, Read
  <2>4. Filing(w)'
    BY <2>2, <2>3 DEF Filing, HasDigest, HasDrat, HasVerdict
  <2>5. \A c \in Cubes : c = task[w].cube => Filed(c)'
    <3>1. HasDigest(w) => task[w].rc = "unsat" /\ proof[task[w].cube] = Whole
      BY <1>f, <2>2 DEF Filing, HasDigest
    <3>2. Owned(task[w].cube)'
      BY <2>2 DEF Owned, WorksOn
    <3> QED
      BY <2>1, <2>2, <2>3, <3>1, <3>2 DEF Filed
  <2> QED
    BY <2>2, <2>4, <2>5, OwnFiles
<1>7. ASSUME NEW w \in Workers, HashFails(w) \/ WriteFails(w) \/ CleanUpFails(w)
      PROVE  FilesInv'
  <2>1. /\ task[w].pc # "idle" /\ UNCHANGED <<file, proof, call>>
        /\ left' = left \cup {task[w].cube}
        /\ \A o \in Workers : o # w => task'[o] = task[o]
        /\ task'[w].pc = "idle"
        /\ \A e \in Cubes : e # task[w].cube => cnf'[e] = cnf[e]
    BY <1>0, <1>7 DEF HashFails, WriteFails, CleanUpFails, Raise, Idle, TaskOK, TypeOK
  <2>2. Filing(w)' /\ \A c \in Cubes : c = task[w].cube => Filed(c)'
    BY <1>1, <2>1 DEF Filing, Filed, Owned, HasDrat, HasVerdict
  <2> QED
    BY <2>1, <2>2, OwnFiles
<1>8. ASSUME NEW w \in Workers, CleanUp(w)
      PROVE  FilesInv'
  <2>1. /\ task[w].pc = "clean" /\ UNCHANGED <<file, call, left>>
        /\ \A o \in Workers : o # w => task'[o] = task[o]
        /\ task'[w].pc = "idle"
        /\ \A e \in Cubes : e # task[w].cube => cnf'[e] = cnf[e] /\ proof'[e] = proof[e]
    BY <1>0, <1>8 DEF CleanUp, Idle, TaskOK, TypeOK
  <2>2. HasDigest(w) <=> HasDrat(task[w].cube)
    BY <1>f, <2>1 DEF Filing
  <2>3. \A c \in Cubes : c = task[w].cube => Filed(c)'
    <3>1. CASE HasDigest(w)
      BY <1>1, <1>8, <2>1, <2>2, <3>1 DEF CleanUp, Filed, Owned, HasDrat, HasVerdict
    <3>2. CASE ~HasDigest(w)
      <4>1. cnf'[task[w].cube] = NoFile
        BY <1>0, <1>1, <1>8, <2>1, <3>2 DEF CleanUp, TypeOK
      <4> QED
        BY <2>1, <2>2, <3>2, <4>1 DEF Filed, HasDrat, HasVerdict
    <3> QED
      BY <3>1, <3>2
  <2>4. Filing(w)'
    BY <2>1 DEF Filing
  <2> QED
    BY <2>1, <2>3, <2>4, OwnFiles
<1>9. CASE CrashCleanup
  <2>1. \A w \in Workers : task[w].pc = "idle"
    BY <1>9 DEF CrashCleanup, SoundInv, Jobs, Workers, Boss
  <2>2. ASSUME NEW c \in Cubes
        PROVE  Filed(c)'
    <3>1. CASE file[c] # NoFile /\ ~Decided(Read(file[c]))
      BY <1>9, <3>1 DEF CrashCleanup, Filed, HasDrat, HasVerdict, Read
    <3>2. CASE ~(file[c] # NoFile /\ ~Decided(Read(file[c])))
      <4>1. /\ file'[c] = file[c] /\ proof'[c] = proof[c]
            /\ cnf'[c] \in {cnf[c], NoFile} /\ UNCHANGED <<task, left>>
        BY <1>9, <3>2 DEF CrashCleanup
      <4> QED
        BY <4>1 DEF FilesInv, Filed, Owned, WorksOn, HasDrat, HasVerdict
    <3> QED
      BY <3>1, <3>2
  <2> QED
    BY <1>9, <2>1, <2>2 DEF CrashCleanup, FilesInv, Filing
<1>10. CASE UNCHANGED vars
  BY <1>10, NoFiles DEF vars, HasDigest, WorksOn
<1> QED
  BY <1>d, <1>e, <1>k, <1>t, <1>2, <1>3, <1>4, <1>5, <1>6, <1>7, <1>8, <1>9, <1>10
     DEF Next, WorkerStep

\* What a job leaves behind, nothing without an owner and nothing less than
\* the checker will ask for, whatever was killed, torn, raised or retried.
THEOREM FilesAccounted == ASSUME ~Overlap PROVE Spec => []FilesOwned
<1>1. Init => Single
  BY DEF Init, Single, Live, Idle
<1>2. Init => FilesInv
  BY SentinelAssumption DEF Init, FilesInv, Filing, Filed, HasDrat, HasVerdict, Read, Idle
<1>3. FilesInv => FilesOwned
  BY DEF FilesInv, Filed, Owned, HasDrat, HasVerdict, FilesOwned, CnfOwned, DigestBacked
<1> QED
  BY <1>1, <1>2, <1>3, FilesStep, SingleStep, SoundInvariant, PTL DEF Spec
=============================================================================
