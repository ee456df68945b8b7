------------------------------ MODULE Nk2_proofs ------------------------------
(***************************************************************************)
(* Proofs about the programs that work on one instance: nk2/solve.py, for  *)
(* every set of instances and command lines and any number of invocations  *)
(* at once, over each other's files; and a wave directory laid out again   *)
(* and again, for every depth.  Either also beside the others, as in Nk2.  *)
(***************************************************************************)
EXTENDS Nk2, FiniteSetTheorems, WellFoundedInduction, TLAPS

-----------------------------------------------------------------------------
(* nk2.solve.                                                              *)

\* What is not there and what is torn is no instance, and no return code.
SentinelsApart == Absent \notin Instances /\ Torn \notin Instances /\ Absent \notin {10, 20}

Bytes == {Absent, Torn} \cup Instances
FileOf(S) == [by : Procs \cup {Absent}, content : S]

Logs == [instance : Instances, sha256 : Bytes, rc : {Absent, 10, 20},
         verdict : {"UNSAT", "SAT", "UNKNOWN"}, proof : Bytes]

Steps == {"idle", "open body", "fill body", "open cnf", "fill cnf", "unlink", "solve",
          "solving", "status", "hash proof", "open log", "fill log", "decode", "check",
          "open witness", "fill witness", "exit 0", "exit 2", "exit 3", "raised", "killed"}

AnyModel == {Absent} \cup UNION {Models(i) : i \in Instances}

Processes ==
    [pc : Steps, job : Jobs \cup {Absent}, sha : Bytes, read : Bytes,
     rc : {Absent, 10, 20}, model : AnyModel, proof : Bytes]

Shape ==
    /\ body \in [Instances -> FileOf(Bytes)]
    /\ cnf \in [Instances -> FileOf(Bytes)]
    /\ proof \in [Instances -> FileOf(Bytes)]
    /\ log \in [Instances -> FileOf({Absent, Torn} \cup Logs)]
    /\ proc \in [Procs -> Processes]
    /\ \A p \in Procs : proc[p].pc # "idle" => proc[p].job \in Jobs

-----------------------------------------------------------------------------
(* What a file that is written may become.                                 *)

\* Whoever else was at it, the new bytes or a mixture.
LEMMA FilledShape ==
    ASSUME NEW S, Torn \in S, NEW file \in FileOf(S), NEW p \in Procs, NEW content \in S,
           NEW g \in Filled(file, p, content)
    PROVE  g \in FileOf(S) /\ g.content \in {content, Torn}
BY DEF Filled, FileOf

\* A process that is at a step has an instance.
LEMMA HasInstance ==
    ASSUME Shape, NEW p \in Procs, proc[p].pc # "idle"
    PROVE  /\ proc[p] \in Processes
           /\ proc[p].job \in Jobs
           /\ Instance(p) \in Instances
BY DEF Shape, Instance, Instances

\* One process becomes another record of its kind.
LEMMA Becomes ==
    ASSUME Shape, NEW p \in Procs, NEW r \in Processes, r.pc # "idle" => r.job \in Jobs,
           proc' = [proc EXCEPT ![p] = r]
    PROVE  /\ proc' \in [Procs -> Processes]
           /\ \A q \in Procs : proc'[q].pc # "idle" => proc'[q].job \in Jobs
BY DEF Shape

\* A process that moves on within its run.
LEMMA MovesOn ==
    ASSUME Shape, NEW p \in Procs, NEW to \in Steps \ {"idle"}, proc[p].pc # "idle",
           Goto(p, to)
    PROVE  /\ proc' \in [Procs -> Processes]
           /\ \A q \in Procs : proc'[q].pc # "idle" => proc'[q].job \in Jobs
<1>1. proc[p] \in Processes /\ proc[p].job \in Jobs
  BY DEF Shape
<1>2. [proc[p] EXCEPT !.pc = to] \in Processes
  BY <1>1 DEF Processes
<1>3. [proc[p] EXCEPT !.pc = to].job = proc[p].job
  BY <1>1 DEF Processes
<1>4. proc' = [proc EXCEPT ![p] = [proc[p] EXCEPT !.pc = to]]
  BY DEF Goto
<1> QED
  BY <1>1, <1>2, <1>3, <1>4, Becomes

\* A step that changes no file and moves one process on.
LEMMA OnlyMoves ==
    ASSUME Shape, NEW p \in Procs, NEW to \in Steps \ {"idle"}, proc[p].pc # "idle",
           Goto(p, to), UNCHANGED files
    PROVE  Shape'
BY MovesOn DEF Shape, files

\* Each step keeps files and processes what they are.
LEMMA ShapeStep == Shape /\ [Next]_vars => Shape'
<1> SUFFICES ASSUME Shape, [Next]_vars PROVE Shape'
  OBVIOUS
<1> USE DEF At, Ended
<1>1. ASSUME NEW p \in Procs, NEW asked \in Jobs, Start(p, asked)
      PROVE  Shape'
  <2>1. PICK to \in {"open body", "exit 2"} :
           proc' = [proc EXCEPT ![p] = [Idle EXCEPT !.pc = to, !.job = asked]]
    BY <1>1 DEF Start
  <2> DEFINE r == [Idle EXCEPT !.pc = to, !.job = asked]
  <2>2. r \in Processes /\ r.job = asked
    BY DEF Idle, Processes, Steps, Bytes, AnyModel
  <2>3. UNCHANGED files
    BY <1>1 DEF Start
  <2> QED
    BY <2>1, <2>2, <2>3, Becomes DEF Shape, files
<1>2. ASSUME NEW p \in Procs, OpenBody(p)
      PROVE  Shape'
  <2>1. body' \in [Instances -> FileOf(Bytes)]
    BY <1>2, HasInstance DEF OpenBody, Shape, Opened, FileOf, Bytes
  <2> QED
    BY <1>2, <2>1, MovesOn DEF OpenBody, Shape, Steps
<1>3. ASSUME NEW p \in Procs, FillBody(p)
      PROVE  Shape'
  <2>1. body' \in [Instances -> FileOf(Bytes)]
    <3>1. Instance(p) \in Instances /\ Instance(p) \in Bytes
      BY <1>3, HasInstance DEF FillBody, Bytes
    <3>2. [body[Instance(p)] EXCEPT !.content = Instance(p)] \in FileOf(Bytes)
      BY <3>1 DEF Shape, FileOf
    <3> QED
      BY <1>3, <3>1, <3>2 DEF FillBody, Shape
  <2> QED
    BY <1>3, <2>1, MovesOn DEF FillBody, Shape, Steps
<1>4. ASSUME NEW p \in Procs, OpenCnf(p)
      PROVE  Shape'
  <2>1. cnf' \in [Instances -> FileOf(Bytes)]
    BY <1>4, HasInstance DEF OpenCnf, Shape, Opened, FileOf, Bytes
  <2> QED
    BY <1>4, <2>1, MovesOn DEF OpenCnf, Shape, Steps
<1>5. ASSUME NEW p \in Procs, FillCnf(p)
      PROVE  Shape'
  <2> DEFINE bytes == IF body[Instance(p)] = NoFile THEN Torn
                      ELSE body[Instance(p)].content
  <2>1. Instance(p) \in Instances
    BY <1>5, HasInstance DEF FillCnf
  <2>2. bytes \in Bytes /\ Torn \in Bytes
    BY <2>1 DEF Shape, FileOf, Bytes
  <2>3. PICK file \in Filled(cnf[Instance(p)], p, bytes) :
           cnf' = [cnf EXCEPT ![Instance(p)] = file]
    BY <1>5 DEF FillCnf
  <2>4. cnf' \in [Instances -> FileOf(Bytes)]
    BY <2>1, <2>2, <2>3, FilledShape DEF Shape
  <2>5. proc' = [proc EXCEPT ![p].pc = "unlink", ![p].sha = bytes]
    BY <1>5 DEF FillCnf
  <2> DEFINE r == [proc[p] EXCEPT !.pc = "unlink", !.sha = bytes]
  <2> HIDE DEF bytes
  <2>6. r \in Processes /\ r.job \in Jobs
    BY <1>5, <2>2, HasInstance DEF FillCnf, Processes, Steps
  <2>7. proc' = [proc EXCEPT ![p] = r]
    BY <2>5
  <2> QED
    BY <1>5, <2>4, <2>6, <2>7, Becomes DEF FillCnf, Shape
<1>6. ASSUME NEW p \in Procs, Unlink(p)
      PROVE  Shape'
  <2>1. body' \in [Instances -> FileOf(Bytes)]
    <3>1. Instance(p) \in Instances
      BY <1>6, HasInstance DEF Unlink
    <3>2. NoFile \in FileOf(Bytes)
      BY DEF NoFile, FileOf, Bytes
    <3> QED
      BY <1>6, <3>1, <3>2 DEF Unlink, Shape
  <2> QED
    BY <1>6, <2>1, MovesOn DEF Unlink, Shape, Steps
<1>7. ASSUME NEW p \in Procs, StartSolver(p)
      PROVE  Shape'
  <2>1. Instance(p) \in Instances
    BY <1>7, HasInstance DEF StartSolver
  <2>2. proof' \in [Instances -> FileOf(Bytes)]
    BY <1>7, <2>1 DEF StartSolver, Shape, Opened, FileOf, Bytes
  <2>3. cnf[Instance(p)].content \in Bytes
    BY <2>1 DEF Shape, FileOf
  <2> DEFINE r == [proc[p] EXCEPT !.pc = "solving", !.read = cnf[Instance(p)].content]
  <2>4. r \in Processes /\ r.job \in Jobs
    <3>1. proc[p] \in Processes /\ proc[p].job \in Jobs
      BY <1>7, HasInstance DEF StartSolver
    <3> DEFINE content == cnf[Instance(p)].content
    <3> HIDE DEF content
    <3>2. content \in Bytes
      BY <2>3 DEF content
    <3>3. [proc[p] EXCEPT !.pc = "solving", !.read = content] \in Processes
      BY <3>1, <3>2 DEF Processes, Steps
    <3> QED
      BY <3>1, <3>3 DEF content
  <2>5. proc' = [proc EXCEPT ![p] = r]
    BY <1>7 DEF StartSolver
  <2> QED
    BY <1>7, <2>2, <2>4, <2>5, Becomes DEF StartSolver, Shape
<1>8. ASSUME NEW p \in Procs, AnswerUnsat(p)
      PROVE  Shape'
  <2>1. Instance(p) \in Instances
    BY <1>8, HasInstance DEF AnswerUnsat
  <2>2. proof' \in [Instances -> FileOf(Bytes)]
    <3>1. [proof[Instance(p)] EXCEPT !.by = p] \in FileOf(Bytes)
      BY <2>1 DEF Shape, FileOf
    <3>2. proc[p].read \in Bytes /\ Torn \in Bytes
      BY <1>8, HasInstance DEF AnswerUnsat, Processes, Bytes
    <3>3. \A g \in Filled([proof[Instance(p)] EXCEPT !.by = p], p, proc[p].read) :
             g \in FileOf(Bytes)
      BY <3>1, <3>2, FilledShape
    <3> QED
      BY <1>8, <2>1, <3>3 DEF AnswerUnsat, Shape
  <2>3. proc' = [proc EXCEPT ![p].pc = "status", ![p].rc = 20]
    BY <1>8 DEF AnswerUnsat
  <2> DEFINE r == [proc[p] EXCEPT !.pc = "status", !.rc = 20]
  <2>4. r \in Processes /\ r.job \in Jobs
    <3>1. proc[p] \in Processes /\ proc[p].job \in Jobs
      BY <1>8, HasInstance DEF AnswerUnsat
    <3>2. "status" \in Steps /\ 20 \in {Absent, 10, 20}
      BY DEF Steps
    <3> QED
      BY <3>1, <3>2 DEF Processes
  <2>5. proc' = [proc EXCEPT ![p] = r]
    BY <2>3
  <2> QED
    BY <1>8, <2>2, <2>4, <2>5, Becomes DEF AnswerUnsat, Shape
<1>9. ASSUME NEW p \in Procs, AnswerSat(p)
      PROVE  Shape'
  <2>1. PICK model \in Models(proc[p].read) :
           proc' = [proc EXCEPT ![p].pc = "status", ![p].rc = 10, ![p].model = model]
    BY <1>9 DEF AnswerSat
  <2>2. model \in AnyModel
    BY <1>9, <2>1 DEF AnswerSat, AnyModel
  <2> DEFINE r == [proc[p] EXCEPT !.pc = "status", !.rc = 10, !.model = model]
  <2>3. r \in Processes /\ r.job \in Jobs
    <3>1. proc[p] \in Processes /\ proc[p].job \in Jobs
      BY <1>9, HasInstance DEF AnswerSat
    <3>2. "status" \in Steps /\ 10 \in {Absent, 10, 20}
      BY DEF Steps
    <3> HIDE <2>1
    <3> QED
      BY <2>2, <3>1, <3>2 DEF Processes
  <2>4. proc' = [proc EXCEPT ![p] = r]
    BY <2>1
  <2> QED
    BY <1>9, <2>3, <2>4, Becomes DEF AnswerSat, Shape, files
<1>10. ASSUME NEW p \in Procs, NoAnswer(p)
       PROVE  Shape'
  <2> DEFINE r == [proc[p] EXCEPT !.pc = "status", !.rc = Absent]
  <2>1. r \in Processes /\ r.job \in Jobs
    <3>1. proc[p] \in Processes /\ proc[p].job \in Jobs
      BY <1>10, HasInstance DEF NoAnswer
    <3>2. "status" \in Steps /\ Absent \in {Absent, 10, 20}
      BY DEF Steps
    <3> QED
      BY <3>1, <3>2 DEF Processes
  <2>2. proc' = [proc EXCEPT ![p] = r]
    BY <1>10 DEF NoAnswer
  <2> QED
    BY <1>10, <2>1, <2>2, Becomes DEF NoAnswer, Shape, files
<1>11. ASSUME NEW p \in Procs, CheckStatus(p) \/ Decode(p) \/ CheckModel(p) \/ Kill(p)
       PROVE  Shape'
  <2>1. /\ proc[p].pc # "idle" /\ UNCHANGED files
        /\ \E to \in Steps \ {"idle"} : Goto(p, to)
    BY <1>11 DEF CheckStatus, Decode, CheckModel, Kill, Steps
  <2> QED
    BY <2>1, OnlyMoves
<1>12. ASSUME NEW p \in Procs, HashProof(p)
       PROVE  Shape'
  <2>1. Instance(p) \in Instances
    BY <1>12, HasInstance DEF HashProof
  <2> DEFINE hashed == IF proc[p].job.proof THEN proof[Instance(p)].content ELSE Absent
  <2>2. hashed \in Bytes
    BY <2>1 DEF Shape, FileOf, Bytes
  <2>3. proc' = [proc EXCEPT ![p].pc = "open log", ![p].proof = hashed]
    BY <1>12 DEF HashProof
  <2> DEFINE r == [proc[p] EXCEPT !.pc = "open log", !.proof = hashed]
  <2>4. r \in Processes /\ r.job \in Jobs
    <3>1. proc[p] \in Processes /\ proc[p].job \in Jobs
      BY <1>12, HasInstance DEF HashProof
    <3>2. "open log" \in Steps
      BY DEF Steps
    <3> QED
      BY <2>2, <3>1, <3>2 DEF Processes
  <2>5. proc' = [proc EXCEPT ![p] = r]
    BY <2>3
  <2> QED
    BY <1>12, <2>4, <2>5, Becomes DEF HashProof, Shape, files
<1>13. ASSUME NEW p \in Procs, OpenLog(p)
       PROVE  Shape'
  <2>1. log' \in [Instances -> FileOf({Absent, Torn} \cup Logs)]
    BY <1>13, HasInstance DEF OpenLog, Shape, Opened, FileOf
  <2> QED
    BY <1>13, <2>1, MovesOn DEF OpenLog, Shape, Steps
<1>14. ASSUME NEW p \in Procs, FillLog(p)
       PROVE  Shape'
  <2>1. Instance(p) \in Instances
    BY <1>14, HasInstance DEF FillLog
  <2>2. Record(p) \in Logs
    BY <1>14, <2>1, HasInstance DEF FillLog, Processes, Record, Verdict, Logs
  <2>3. \A g \in Filled(log[Instance(p)], p, Record(p)) :
           g \in FileOf({Absent, Torn} \cup Logs)
    BY <2>1, <2>2, FilledShape DEF Shape
  <2>4. log' \in [Instances -> FileOf({Absent, Torn} \cup Logs)]
    BY <1>14, <2>1, <2>3 DEF FillLog, Shape
  <2> QED
    BY <1>14, <2>4, MovesOn DEF FillLog, Shape, Steps
<1>15. ASSUME NEW p \in Procs, OpenWitness(p) \/ FillWitness(p)
       PROVE  Shape'
  <2>1. /\ proc[p].pc # "idle" /\ UNCHANGED <<body, cnf, proof, log>>
        /\ \E to \in Steps \ {"idle"} : Goto(p, to)
    BY <1>15 DEF OpenWitness, FillWitness, Steps
  <2> QED
    BY <2>1, MovesOn DEF Shape
<1>16. CASE UNCHANGED vars
  BY <1>16 DEF vars, files, Shape
<1> QED
  BY <1>1, <1>2, <1>3, <1>4, <1>5, <1>6, <1>7, <1>8, <1>9, <1>10, <1>11, <1>12, <1>13,
     <1>14, <1>15, <1>16 DEF Next, Step

\* The initial state has the shape.
LEMMA ShapeInit == Init => Shape
<1> SUFFICES ASSUME Init PROVE Shape
  OBVIOUS
<1>1. NoFile \in FileOf(Bytes) /\ NoFile \in FileOf({Absent, Torn} \cup Logs)
  BY DEF NoFile, FileOf, Bytes
<1>2. Idle \in Processes /\ Idle.pc = "idle"
  BY DEF Idle, Processes, Steps, Bytes, AnyModel
<1> QED
  BY <1>1, <1>2 DEF Init, Shape

-----------------------------------------------------------------------------
(* UnsatLogTrue.  Paths follow from the parameters, so that whoever writes *)
(* body or formula writes that instance or something torn; a solver reads  *)
(* one or the other, and 20 is the answer to what it read.                 *)

Own(file, i) == file.content \in {Absent, Torn, i}

\* What an invocation's solver read and answered.
Sees(r) ==
    r.pc # "idle" =>
        /\ r.read \in {Absent, Torn, r.job.instance}
        /\ r.rc = 20 => Avoiding(r.job.instance) = {}

LogTrue(file, i) ==
    file.content \notin {Absent, Torn} /\ file.content.verdict = "UNSAT" => Avoiding(i) = {}

BytesInv == \A i \in Instances : Own(body[i], i) /\ Own(cnf[i], i)
SeesInv == \A p \in Procs : Sees(proc[p])
LogInv == \A i \in Instances : LogTrue(log[i], i)

\* One process becomes another record.
LEMMA SeesBecomes ==
    ASSUME Shape, SeesInv, NEW p \in Procs, NEW r \in Processes, Sees(r),
           proc' = [proc EXCEPT ![p] = r]
    PROVE  SeesInv'
BY DEF Shape, SeesInv

\* A process that moves on has read and answered what it had.
LEMMA SeesMoves ==
    ASSUME Shape, SeesInv, NEW p \in Procs, NEW to \in Steps \ {"idle"},
           proc[p].pc # "idle", Goto(p, to)
    PROVE  SeesInv'
<1> DEFINE r == [proc[p] EXCEPT !.pc = to]
<1>1. proc[p] \in Processes
  BY HasInstance
<1>2. r \in Processes /\ r.job = proc[p].job /\ r.read = proc[p].read /\ r.rc = proc[p].rc
  BY <1>1 DEF Processes
<1>3. Sees(r)
  BY <1>2 DEF SeesInv, Sees
<1>4. proc' = [proc EXCEPT ![p] = r]
  BY DEF Goto
<1> QED
  BY <1>2, <1>3, <1>4, SeesBecomes

\* Each step keeps the bytes an instance's own.
LEMMA BytesStep == Shape /\ BytesInv /\ [Next]_vars => BytesInv'
<1> SUFFICES ASSUME Shape, BytesInv, [Next]_vars PROVE BytesInv'
  OBVIOUS
<1> USE DEF At
<1>1. ASSUME NEW p \in Procs, OpenBody(p)
      PROVE  BytesInv'
  <2>1. Instance(p) \in Instances
    BY <1>1, HasInstance DEF OpenBody
  <2> QED
    BY <1>1, <2>1 DEF OpenBody, BytesInv, Own, Opened, Shape
<1>2. ASSUME NEW p \in Procs, FillBody(p)
      PROVE  BytesInv'
  <2>1. Instance(p) \in Instances
    BY <1>2, HasInstance DEF FillBody
  <2>2. [body[Instance(p)] EXCEPT !.content = Instance(p)].content = Instance(p)
    BY <2>1 DEF Shape, FileOf
  <2> QED
    BY <1>2, <2>1, <2>2 DEF FillBody, BytesInv, Own, Shape
<1>3. ASSUME NEW p \in Procs, OpenCnf(p)
      PROVE  BytesInv'
  <2>1. Instance(p) \in Instances
    BY <1>3, HasInstance DEF OpenCnf
  <2> QED
    BY <1>3, <2>1 DEF OpenCnf, BytesInv, Own, Opened, Shape
<1>4. ASSUME NEW p \in Procs, FillCnf(p)
      PROVE  BytesInv'
  <2> DEFINE bytes == IF body[Instance(p)] = NoFile THEN Torn
                      ELSE body[Instance(p)].content
  <2>1. Instance(p) \in Instances
    BY <1>4, HasInstance DEF FillCnf
  <2>2. bytes \in Bytes /\ Torn \in Bytes /\ bytes \in {Absent, Torn, Instance(p)}
    BY <2>1 DEF Shape, FileOf, Bytes, BytesInv, Own
  <2>3. PICK file \in Filled(cnf[Instance(p)], p, bytes) :
           cnf' = [cnf EXCEPT ![Instance(p)] = file]
    BY <1>4 DEF FillCnf
  <2> HIDE DEF bytes
  <2>4. file.content \in {bytes, Torn}
    BY <2>1, <2>2, <2>3, FilledShape DEF Shape
  <2> QED
    BY <1>4, <2>1, <2>2, <2>3, <2>4 DEF FillCnf, BytesInv, Own, Shape
<1>5. ASSUME NEW p \in Procs, Unlink(p)
      PROVE  BytesInv'
  <2>1. Instance(p) \in Instances
    BY <1>5, HasInstance DEF Unlink
  <2>2. NoFile.content = Absent
    BY DEF NoFile
  <2>3. UNCHANGED cnf /\ (body' = [body EXCEPT ![Instance(p)] = NoFile] \/ UNCHANGED body)
    BY <1>5 DEF Unlink
  <2>4. \A i \in Instances : body'[i] = body[i] \/ body'[i] = NoFile
    BY <2>1, <2>3 DEF Shape
  <2> QED
    BY <2>2, <2>3, <2>4 DEF BytesInv, Own
<1>6. CASE UNCHANGED <<body, cnf>>
  BY <1>6 DEF BytesInv
<1> QED
  BY <1>1, <1>2, <1>3, <1>4, <1>5, <1>6
  DEF Next, Step, Start, StartSolver, AnswerUnsat, AnswerSat, NoAnswer, CheckStatus, HashProof,
      OpenLog, FillLog, Decode, CheckModel, OpenWitness, FillWitness, Kill, vars, files

\* Each step keeps what solvers read and answered true.
LEMMA SeesStep ==
    ASSUME SentinelsApart, Shape, BytesInv, SeesInv, [Next]_vars
    PROVE  SeesInv'
<1> USE DEF At, Ended
<1>1. ASSUME NEW p \in Procs, NEW asked \in Jobs, Start(p, asked)
      PROVE  SeesInv'
  <2>1. PICK to \in {"open body", "exit 2"} :
           proc' = [proc EXCEPT ![p] = [Idle EXCEPT !.pc = to, !.job = asked]]
    BY <1>1 DEF Start
  <2> DEFINE r == [Idle EXCEPT !.pc = to, !.job = asked]
  <2>2. r \in Processes /\ r.read = Absent /\ r.rc = Absent
    BY DEF Idle, Processes, Steps, Bytes, AnyModel
  <2>3. Sees(r)
    BY <2>2 DEF Sees, SentinelsApart
  <2> QED
    BY <2>1, <2>2, <2>3, SeesBecomes
<1>2. ASSUME NEW p \in Procs, FillCnf(p)
      PROVE  SeesInv'
  <2> DEFINE bytes == IF body[Instance(p)] = NoFile THEN Torn
                      ELSE body[Instance(p)].content
  <2>1. Instance(p) \in Instances /\ proc[p] \in Processes
    BY <1>2, HasInstance DEF FillCnf
  <2>2. bytes \in Bytes
    BY <2>1 DEF Shape, FileOf, Bytes
  <2>3. proc' = [proc EXCEPT ![p].pc = "unlink", ![p].sha = bytes]
    BY <1>2 DEF FillCnf
  <2> HIDE DEF bytes
  <2> DEFINE r == [proc[p] EXCEPT !.pc = "unlink", !.sha = bytes]
  <2>4. /\ r \in Processes /\ r.job = proc[p].job
        /\ r.read = proc[p].read /\ r.rc = proc[p].rc
    BY <2>1, <2>2 DEF Processes, Steps
  <2>5. Sees(r)
    BY <1>2, <2>4 DEF SeesInv, Sees, FillCnf
  <2> QED
    BY <2>3, <2>4, <2>5, SeesBecomes
<1>3. ASSUME NEW p \in Procs, StartSolver(p)
      PROVE  SeesInv'
  <2> DEFINE r == [proc[p] EXCEPT !.pc = "solving", !.read = cnf[Instance(p)].content]
  <2>1. Instance(p) \in Instances /\ proc[p] \in Processes
    BY <1>3, HasInstance DEF StartSolver
  <2>2. /\ cnf[Instance(p)].content \in Bytes
        /\ cnf[Instance(p)].content \in {Absent, Torn, Instance(p)}
    BY <2>1 DEF Shape, FileOf, BytesInv, Own
  <2>3. /\ r \in Processes /\ r.job = proc[p].job
        /\ r.read = cnf[Instance(p)].content /\ r.rc = proc[p].rc
    BY <2>1, <2>2 DEF Processes, Steps
  <2>4. Sees(r)
    BY <1>3, <2>2, <2>3 DEF SeesInv, Sees, StartSolver, Instance
  <2>5. proc' = [proc EXCEPT ![p] = r]
    BY <1>3 DEF StartSolver
  <2> QED
    BY <2>3, <2>4, <2>5, SeesBecomes
<1>4. ASSUME NEW p \in Procs, AnswerUnsat(p)
      PROVE  SeesInv'
  <2> DEFINE r == [proc[p] EXCEPT !.pc = "status", !.rc = 20]
  <2>1. proc[p] \in Processes /\ proc[p].pc # "idle"
    BY <1>4, HasInstance DEF AnswerUnsat
  <2>2. r \in Processes /\ r.job = proc[p].job /\ r.read = proc[p].read
    BY <2>1 DEF Processes, Steps
  <2>3. proc[p].read \in {Absent, Torn, proc[p].job.instance}
    BY <2>1 DEF SeesInv, Sees
  <2>4. proc[p].read = proc[p].job.instance /\ Avoiding(proc[p].job.instance) = {}
    BY <1>4, <2>3 DEF AnswerUnsat, SentinelsApart
  <2>5. Sees(r)
    BY <2>2, <2>4 DEF Sees
  <2>6. proc' = [proc EXCEPT ![p] = r]
    BY <1>4 DEF AnswerUnsat
  <2> QED
    BY <2>2, <2>5, <2>6, SeesBecomes
<1>5. ASSUME NEW p \in Procs, AnswerSat(p)
      PROVE  SeesInv'
  <2>1. PICK model \in Models(proc[p].read) :
           proc' = [proc EXCEPT ![p].pc = "status", ![p].rc = 10, ![p].model = model]
    BY <1>5 DEF AnswerSat
  <2>2. model \in AnyModel /\ proc[p] \in Processes /\ proc[p].pc # "idle"
    BY <1>5, <2>1, HasInstance DEF AnswerSat, AnyModel
  <2> DEFINE r == [proc[p] EXCEPT !.pc = "status", !.rc = 10, !.model = model]
  <2>3. r \in Processes /\ r.job = proc[p].job /\ r.read = proc[p].read /\ r.rc = 10
    BY <2>2 DEF Processes, Steps
  <2>4. Sees(r)
    BY <2>2, <2>3 DEF SeesInv, Sees
  <2>5. proc' = [proc EXCEPT ![p] = r]
    BY <2>1
  <2> QED
    BY <2>3, <2>4, <2>5, SeesBecomes
<1>6. ASSUME NEW p \in Procs, NoAnswer(p)
      PROVE  SeesInv'
  <2> DEFINE r == [proc[p] EXCEPT !.pc = "status", !.rc = Absent]
  <2>1. proc[p] \in Processes /\ proc[p].pc # "idle"
    BY <1>6, HasInstance DEF NoAnswer
  <2>2. r \in Processes /\ r.job = proc[p].job /\ r.read = proc[p].read /\ r.rc = Absent
    BY <2>1 DEF Processes, Steps
  <2>3. Sees(r)
    BY <2>1, <2>2 DEF SeesInv, Sees, SentinelsApart
  <2>4. proc' = [proc EXCEPT ![p] = r]
    BY <1>6 DEF NoAnswer
  <2> QED
    BY <2>2, <2>3, <2>4, SeesBecomes
<1>7. ASSUME NEW p \in Procs, HashProof(p)
      PROVE  SeesInv'
  <2> DEFINE hashed == IF proc[p].job.proof THEN proof[Instance(p)].content ELSE Absent
  <2>1. Instance(p) \in Instances /\ proc[p] \in Processes /\ proc[p].pc # "idle"
    BY <1>7, HasInstance DEF HashProof
  <2>2. hashed \in Bytes
    BY <2>1 DEF Shape, FileOf, Bytes
  <2>3. proc' = [proc EXCEPT ![p].pc = "open log", ![p].proof = hashed]
    BY <1>7 DEF HashProof
  <2> HIDE DEF hashed
  <2> DEFINE r == [proc[p] EXCEPT !.pc = "open log", !.proof = hashed]
  <2>4. /\ r \in Processes /\ r.job = proc[p].job
        /\ r.read = proc[p].read /\ r.rc = proc[p].rc
    BY <2>1, <2>2 DEF Processes, Steps
  <2>5. Sees(r)
    BY <2>1, <2>4 DEF SeesInv, Sees
  <2> QED
    BY <2>3, <2>4, <2>5, SeesBecomes
<1>8. ASSUME NEW p \in Procs,
             \/ OpenBody(p) \/ FillBody(p) \/ OpenCnf(p) \/ Unlink(p) \/ CheckStatus(p)
             \/ OpenLog(p) \/ FillLog(p) \/ Decode(p) \/ CheckModel(p)
             \/ OpenWitness(p) \/ FillWitness(p) \/ Kill(p)
      PROVE  SeesInv'
  <2>1. proc[p].pc # "idle" /\ \E to \in Steps \ {"idle"} : Goto(p, to)
    BY <1>8 DEF OpenBody, FillBody, OpenCnf, Unlink, CheckStatus, OpenLog, FillLog, Decode,
                CheckModel, OpenWitness, FillWitness, Kill, Steps
  <2> QED
    BY <2>1, SeesMoves
<1>9. CASE UNCHANGED vars
  BY <1>9 DEF vars, SeesInv
<1> QED
  BY <1>1, <1>2, <1>3, <1>4, <1>5, <1>6, <1>7, <1>8, <1>9 DEF Next, Step

\* Each step keeps run-logs that say UNSAT true.
LEMMA LogStep == Shape /\ SeesInv /\ LogInv /\ [Next]_vars => LogInv'
<1> SUFFICES ASSUME Shape, SeesInv, LogInv, [Next]_vars PROVE LogInv'
  OBVIOUS
<1> USE DEF At
<1>1. ASSUME NEW p \in Procs, OpenLog(p)
      PROVE  LogInv'
  <2>1. Instance(p) \in Instances
    BY <1>1, HasInstance DEF OpenLog
  <2> QED
    BY <1>1, <2>1 DEF OpenLog, LogInv, LogTrue, Opened, Shape
<1>2. ASSUME NEW p \in Procs, FillLog(p)
      PROVE  LogInv'
  <2>1. Instance(p) \in Instances /\ proc[p] \in Processes
    BY <1>2, HasInstance DEF FillLog
  <2>2. PICK file \in Filled(log[Instance(p)], p, Record(p)) :
           log' = [log EXCEPT ![Instance(p)] = file]
    BY <1>2 DEF FillLog
  <2>3. Record(p) \in Logs
    BY <2>1 DEF Processes, Record, Verdict, Logs
  <2>4. file.content \in {Record(p), Torn}
    BY <2>1, <2>2, <2>3, FilledShape DEF Shape
  <2>5. Record(p).verdict = "UNSAT" => Avoiding(Instance(p)) = {}
    BY <1>2, <2>1 DEF Record, Verdict, SeesInv, Sees, Instance, FillLog
  <2>6. LogTrue(file, Instance(p))
    BY <2>4, <2>5 DEF LogTrue
  <2> QED
    BY <2>1, <2>2, <2>6 DEF LogInv, Shape
<1>3. CASE UNCHANGED log
  BY <1>3 DEF LogInv
<1> QED
  BY <1>1, <1>2, <1>3
  DEF Next, Step, Start, OpenBody, FillBody, OpenCnf, FillCnf, Unlink, StartSolver, AnswerUnsat,
      AnswerSat, NoAnswer, CheckStatus, HashProof, Decode, CheckModel, OpenWitness,
      FillWitness, Kill, vars, files

\* A run-log that says UNSAT says so of an instance no coloring satisfies: for
\* any number of invocations of nk2/solve.py at once over the same files, and
\* any number of kills.
THEOREM UnsatLogsTrue == ASSUME SentinelsApart PROVE Spec => []UnsatLogTrue
<1> DEFINE Inv == Shape /\ BytesInv /\ SeesInv /\ LogInv
<1>1. Init => Inv
  <2> SUFFICES ASSUME Init PROVE Inv
    OBVIOUS
  <2>1. Shape
    BY ShapeInit
  <2>2. BytesInv /\ LogInv
    BY DEF Init, NoFile, BytesInv, LogInv, Own, LogTrue
  <2>3. SeesInv
    BY DEF Init, Idle, SeesInv, Sees
  <2> QED
    BY <2>1, <2>2, <2>3
<1>2. Inv /\ [Next]_vars => Inv'
  BY ShapeStep, BytesStep, SeesStep, LogStep
<1>3. Inv => UnsatLogTrue
  BY DEF UnsatLogTrue, Readable, LogInv, LogTrue
<1> QED
  BY <1>1, <1>2, <1>3, PTL DEF Spec

-----------------------------------------------------------------------------
(* Colorings and what they begin with.                                     *)

\* Quotients grow with what is divided.
LEMMA QuotientGrows ==
    ASSUME NEW x \in Nat, NEW y \in Nat, x <= y, NEW m \in Nat \ {0}
    PROVE  x \div m <= y \div m
OBVIOUS

\* A progression inside 1 .. n stays there, and is inside whatever is longer.
LEMMA ApsGrow ==
    ASSUME NEW n \in Nat, NEW m \in Nat, n <= m, NEW k \in Nat \ {0, 1},
           NEW ap \in Aps(n, k)
    PROVE  ap \subseteq 1 .. n /\ ap \in Aps(m, k)
<1>1. n >= k /\ m >= k
  BY DEF Aps
<1>2. ap \in UNION {{{first + i * gap : i \in 0 .. k - 1} : first \in 1 .. n - (k - 1) * gap} :
                      gap \in 1 .. (n - 1) \div (k - 1)}
  BY Zenon DEF Aps
<1>3. PICK gap \in 1 .. (n - 1) \div (k - 1) :
         ap \in {{first + i * gap : i \in 0 .. k - 1} : first \in 1 .. n - (k - 1) * gap}
  BY <1>2, Zenon
<1>4. PICK first \in 1 .. n - (k - 1) * gap : ap = {first + i * gap : i \in 0 .. k - 1}
  BY <1>3, Zenon
<1>5. gap \in 1 .. (m - 1) \div (k - 1)
  <2>1. /\ n - 1 \in Nat /\ m - 1 \in Nat /\ n - 1 <= m - 1 /\ k - 1 \in Nat \ {0}
    BY <1>1
  <2>2. (n - 1) \div (k - 1) <= (m - 1) \div (k - 1)
    BY <2>1, QuotientGrows
  <2>3. (n - 1) \div (k - 1) \in Int /\ (m - 1) \div (k - 1) \in Int
    BY <2>1
  <2> QED
    BY <2>2, <2>3
<1>6. first \in 1 .. m - (k - 1) * gap
  <2>1. (k - 1) * gap \in Int /\ gap \in Int
    BY <1>3
  <2> QED
    BY <2>1
<1>7. ap \subseteq 1 .. n
  <2>1. gap \in Nat \ {0} /\ first \in Nat \ {0}
    BY <1>3, <1>4
  <2>2. (k - 1) * gap \in Nat /\ first <= n - (k - 1) * gap
    BY <2>1
  <2>3. ASSUME NEW i \in 0 .. k - 1 PROVE first + i * gap \in 1 .. n
    <3>1. i * gap \in Nat /\ i * gap <= (k - 1) * gap
      BY <2>1
    <3> QED
      BY <2>1, <2>2, <3>1
  <2> QED
    BY <1>4, <2>3
<1>8. ap \in Aps(m, k)
  <2> DEFINE S(e) == {{b + i * e : i \in 0 .. k - 1} : b \in 1 .. m - (k - 1) * e}
  <2>1. ap \in S(gap)
    BY <1>4, <1>6, Zenon
  <2> HIDE DEF S
  <2>2. ap \in UNION {S(e) : e \in 1 .. (m - 1) \div (k - 1)}
    BY <1>5, <2>1
  <2> USE DEF S
  <2>3. ~(m < k)
    BY <1>1
  <2> QED
    BY <2>2, <2>3, Zenon DEF Aps
<1> QED
  BY <1>7, <1>8

\* A coloring is a sequence.
LEMMA ColoringIsSeq ==
    ASSUME NEW n \in Nat, NEW f \in [1 .. n -> {1, -1}]
    PROVE  f \in Seq({1, -1}) /\ Len(f) = n
OBVIOUS

\* Whatever a coloring that avoids begins with avoids.
LEMMA PrefixAvoids ==
    ASSUME NEW m \in Nat, NEW f \in [1 .. m -> {1, -1}], NEW n \in 0 .. m,
           NEW k \in Nat \ {0, 1}, NEW l, Avoids(f, k, l)
    PROVE  Avoids(SubSeq(f, 1, n), k, l)
<1> DEFINE g == SubSeq(f, 1, n)
<1>1. f \in Seq({1, -1}) /\ Len(f) = m
  OBVIOUS
<1>2. Len(g) = n /\ \A i \in 1 .. n : g[i] = f[i]
  BY <1>1
<1> HIDE DEF g
<1>3. ASSUME NEW ap \in Aps(n, k) PROVE Magnitude(ApSum(g, ap)) < l
  <2>1. ap \subseteq 1 .. n /\ ap \in Aps(m, k)
    BY ApsGrow
  <2>2. /\ {x \in ap : g[x] = 1} = {x \in ap : f[x] = 1}
        /\ {x \in ap : g[x] = -1} = {x \in ap : f[x] = -1}
    BY <1>2, <2>1
  <2>3. ApSum(g, ap) = ApSum(f, ap)
    BY <2>2, Zenon DEF ApSum
  <2> QED
    BY <1>1, <2>1, <2>3 DEF Avoids
<1> QED
  BY <1>2, <1>3 DEF Avoids, g

-----------------------------------------------------------------------------
(* WitnessAvoids.  A model is decoded only from the answer to what was     *)
(* read, and nothing gets into a witness that was not checked; what a file *)
(* cut short begins with avoids as the whole does.                         *)

\* What the command line and iter_aps demand of the numbers, and one problem
\* per length, as the caller who names the witness files sees to it.
Problems ==
    /\ \A i \in Instances : i.N \in Nat /\ i.k \in Nat \ {0, 1}
    /\ \A i, j \in Instances : i.N = j.N => i.k = j.k /\ i.l = j.l

\* A process that goes from one step to another.
LEMMA Reaches ==
    ASSUME Shape, NEW p \in Procs, NEW to \in Steps, Goto(p, to)
    PROVE  /\ proc'[p].pc = to /\ proc'[p].job = proc[p].job
           /\ proc'[p].sha = proc[p].sha /\ proc'[p].read = proc[p].read
           /\ proc'[p].rc = proc[p].rc /\ proc'[p].model = proc[p].model
           /\ proc'[p].proof = proc[p].proof
           /\ \A q \in Procs \ {p} : proc'[q] = proc[q]
<1> DEFINE r == [proc[p] EXCEPT !.pc = to]
<1>1. proc[p] \in Processes
  BY DEF Shape
<1>2. /\ r.pc = to /\ r.job = proc[p].job /\ r.sha = proc[p].sha /\ r.read = proc[p].read
      /\ r.rc = proc[p].rc /\ r.model = proc[p].model /\ r.proof = proc[p].proof
  BY <1>1 DEF Processes
<1>3. proc' = [proc EXCEPT ![p] = r]
  BY DEF Goto
<1> HIDE DEF r
<1> QED
  BY <1>2, <1>3 DEF Shape

\* What an invocation has of a model, step by step.
Thinks(r) ==
    LET i == r.job.instance IN
    r.pc # "idle" =>
        /\ r.rc = 10 => r.model \in {Absent} \cup Colorings(i.N)
        /\ r.pc \in {"decode", "check", "open witness", "fill witness", "exit 3"} => r.rc = 10
        /\ r.pc \in {"check", "open witness", "fill witness", "exit 3"} =>
              r.model \in Colorings(i.N)
        /\ r.pc \in {"open witness", "fill witness"} => Avoids(r.model, i.k, i.l)
        /\ r.pc = "exit 3" => ~Avoids(r.model, i.k, i.l)

ModelInv == \A p \in Procs : Thinks(proc[p])

\* One process becomes another record.
LEMMA ThinksBecomes ==
    ASSUME Shape, ModelInv, NEW p \in Procs, NEW r \in Processes, Thinks(r),
           proc' = [proc EXCEPT ![p] = r]
    PROVE  ModelInv'
BY DEF Shape, ModelInv

\* Steps at which nothing is asked of the model.
Blind == Steps \ {"idle", "decode", "check", "open witness", "fill witness", "exit 3"}

\* A process that has the same answer at such a step.
LEMMA ThinksOn ==
    ASSUME NEW s \in Processes, Thinks(s), s.pc # "idle", NEW r \in Processes,
           r.pc \in Blind, r.job = s.job, r.rc = s.rc, r.model = s.model
    PROVE  Thinks(r)
BY DEF Thinks, Blind

\* A process that goes from one step to another and keeps its answer.
LEMMA ThinksGoes ==
    ASSUME Shape, ModelInv, NEW p \in Procs, NEW to \in Steps, Goto(p, to),
           LET r == [proc[p] EXCEPT !.pc = to] IN Thinks(r)
    PROVE  ModelInv'
<1> DEFINE r == [proc[p] EXCEPT !.pc = to]
<1>1. r \in Processes
  BY DEF Shape, Processes
<1>2. proc' = [proc EXCEPT ![p] = r] /\ Thinks(r)
  BY DEF Goto
<1> QED
  BY <1>1, <1>2, ThinksBecomes

\* Each step keeps what invocations have of models true.
LEMMA ModelStep ==
    ASSUME SentinelsApart, Shape, SeesInv, ModelInv, [Next]_vars
    PROVE  ModelInv'
<1> USE DEF At, Ended
<1>1. ASSUME NEW p \in Procs, NEW asked \in Jobs, Start(p, asked)
      PROVE  ModelInv'
  <2>1. PICK to \in {"open body", "exit 2"} :
           proc' = [proc EXCEPT ![p] = [Idle EXCEPT !.pc = to, !.job = asked]]
    BY <1>1 DEF Start
  <2> DEFINE r == [Idle EXCEPT !.pc = to, !.job = asked]
  <2>2. r \in Processes /\ r.rc = Absent /\ r.pc = to
    BY DEF Idle, Processes, Steps, Bytes, AnyModel
  <2>3. Thinks(r)
    BY <2>2 DEF Thinks, SentinelsApart
  <2> QED
    BY <2>1, <2>2, <2>3, ThinksBecomes
<1>2. ASSUME NEW p \in Procs, FillCnf(p) \/ StartSolver(p) \/ HashProof(p)
      PROVE  ModelInv'
  <2>1. proc[p] \in Processes /\ proc[p].pc # "idle" /\ Instance(p) \in Instances
    BY <1>2, HasInstance DEF FillCnf, StartSolver, HashProof
  <2>2. \A c \in Bytes : LET r == [proc[p] EXCEPT !.pc = "unlink", !.sha = c] IN
           /\ r \in Processes /\ r.pc = "unlink" /\ r.job = proc[p].job
           /\ r.rc = proc[p].rc /\ r.model = proc[p].model
    BY <2>1 DEF Processes, Steps
  <2>3. \A c \in Bytes : LET r == [proc[p] EXCEPT !.pc = "solving", !.read = c] IN
           /\ r \in Processes /\ r.pc = "solving" /\ r.job = proc[p].job
           /\ r.rc = proc[p].rc /\ r.model = proc[p].model
    BY <2>1 DEF Processes, Steps
  <2>4. \A c \in Bytes : LET r == [proc[p] EXCEPT !.pc = "open log", !.proof = c] IN
           /\ r \in Processes /\ r.pc = "open log" /\ r.job = proc[p].job
           /\ r.rc = proc[p].rc /\ r.model = proc[p].model
    BY <2>1 DEF Processes, Steps
  <2>5. PICK c \in Bytes :
           \/ proc' = [proc EXCEPT ![p] = [proc[p] EXCEPT !.pc = "unlink", !.sha = c]]
           \/ proc' = [proc EXCEPT ![p] = [proc[p] EXCEPT !.pc = "solving", !.read = c]]
           \/ proc' = [proc EXCEPT ![p] = [proc[p] EXCEPT !.pc = "open log", !.proof = c]]
    <3>1. CASE FillCnf(p)
      <4> DEFINE c == IF body[Instance(p)] = NoFile THEN Torn
                      ELSE body[Instance(p)].content
      <4>1. c \in Bytes
        BY <2>1 DEF Shape, FileOf, Bytes
      <4>2. proc' = [proc EXCEPT ![p] = [proc[p] EXCEPT !.pc = "unlink", !.sha = c]]
        BY <3>1 DEF FillCnf
      <4> QED
        BY <4>1, <4>2
    <3>2. CASE StartSolver(p)
      <4>1. cnf[Instance(p)].content \in Bytes
        BY <2>1 DEF Shape, FileOf
      <4>2. proc' = [proc EXCEPT ![p] = [proc[p] EXCEPT !.pc = "solving",
                                                        !.read = cnf[Instance(p)].content]]
        BY <3>2 DEF StartSolver
      <4> QED
        BY <4>1, <4>2
    <3>3. CASE HashProof(p)
      <4> DEFINE c == IF proc[p].job.proof THEN proof[Instance(p)].content ELSE Absent
      <4>1. c \in Bytes
        BY <2>1 DEF Shape, FileOf, Bytes
      <4>2. proc' = [proc EXCEPT ![p] = [proc[p] EXCEPT !.pc = "open log", !.proof = c]]
        BY <3>3 DEF HashProof
      <4> QED
        BY <4>1, <4>2
    <3> QED
      BY <1>2, <3>1, <3>2, <3>3
  <2>6. PICK r \in Processes :
           /\ proc' = [proc EXCEPT ![p] = r]
           /\ r.pc \in Blind /\ r.job = proc[p].job
           /\ r.rc = proc[p].rc /\ r.model = proc[p].model
    <3>1. {"unlink", "solving", "open log"} \subseteq Blind
      BY DEF Blind, Steps
    <3>2. CASE proc' = [proc EXCEPT ![p] = [proc[p] EXCEPT !.pc = "unlink", !.sha = c]]
      BY <2>2, <3>1, <3>2
    <3>3. CASE proc' = [proc EXCEPT ![p] = [proc[p] EXCEPT !.pc = "solving", !.read = c]]
      BY <2>3, <3>1, <3>3
    <3>4. CASE proc' = [proc EXCEPT ![p] = [proc[p] EXCEPT !.pc = "open log", !.proof = c]]
      BY <2>4, <3>1, <3>4
    <3> QED
      BY <2>5, <3>2, <3>3, <3>4
  <2>7. Thinks(r)
    BY <2>1, <2>6, ThinksOn DEF ModelInv
  <2> QED
    BY <2>6, <2>7, ThinksBecomes
<1>3. ASSUME NEW p \in Procs, AnswerUnsat(p) \/ AnswerSat(p) \/ NoAnswer(p)
      PROVE  ModelInv'
  <2>1. proc[p] \in Processes /\ proc[p].pc # "idle"
    BY <1>3, HasInstance DEF AnswerUnsat, AnswerSat, NoAnswer
  <2>2. PICK rc \in {Absent, 10, 20}, model \in AnyModel :
           /\ proc' = [proc EXCEPT ![p] = [proc[p] EXCEPT !.pc = "status", !.rc = rc,
                                                          !.model = model]]
           /\ rc = 10 => model \in {Absent} \cup Colorings(proc[p].job.instance.N)
    <3>1. CASE AnswerSat(p)
      <4>1. PICK model \in Models(proc[p].read) :
               proc' = [proc EXCEPT ![p].pc = "status", ![p].rc = 10, ![p].model = model]
        BY <3>1 DEF AnswerSat
      <4>2. proc[p].read = proc[p].job.instance /\ proc[p].read \in Instances
        BY <2>1, <3>1 DEF AnswerSat, SeesInv, Sees, SentinelsApart
      <4>3. /\ model \in AnyModel
            /\ model \in {Absent} \cup Colorings(proc[p].job.instance.N)
        BY <4>1, <4>2 DEF AnyModel, Models
      <4> QED
        BY <4>1, <4>3
    <3>2. ASSUME NEW rc \in {Absent, 20},
                 proc' = [proc EXCEPT ![p].pc = "status", ![p].rc = rc]
          PROVE  \E model \in AnyModel :
                    /\ proc' = [proc EXCEPT ![p] = [proc[p] EXCEPT !.pc = "status", !.rc = rc,
                                                                   !.model = model]]
                    /\ rc # 10
      <4>1. proc[p].model \in AnyModel /\ rc # 10
        BY <2>1 DEF Processes, SentinelsApart
      <4>2. [proc[p] EXCEPT !.pc = "status", !.rc = rc]
              = [proc[p] EXCEPT !.pc = "status", !.rc = rc, !.model = proc[p].model]
        BY <2>1 DEF Processes
      <4>3. proc' = [proc EXCEPT ![p] = [proc[p] EXCEPT !.pc = "status", !.rc = rc]]
        BY <3>2
      <4> QED
        BY <4>1, <4>2, <4>3
    <3>3. CASE AnswerUnsat(p)
      BY <3>2, <3>3 DEF AnswerUnsat
    <3>4. CASE NoAnswer(p)
      BY <3>2, <3>4 DEF NoAnswer
    <3> QED
      BY <1>3, <3>1, <3>3, <3>4
  <2> DEFINE r == [proc[p] EXCEPT !.pc = "status", !.rc = rc, !.model = model]
  <2>3. /\ r \in Processes /\ r.pc = "status" /\ r.job = proc[p].job
        /\ r.rc = rc /\ r.model = model
    BY <2>1 DEF Processes, Steps
  <2> HIDE DEF r
  <2>4. Thinks(r)
    BY <2>2, <2>3 DEF Thinks
  <2> QED
    BY <2>2, <2>3, <2>4, ThinksBecomes DEF r
<1>4. ASSUME NEW p \in Procs,
             \/ OpenBody(p) \/ FillBody(p) \/ OpenCnf(p) \/ Unlink(p) \/ CheckStatus(p)
             \/ OpenLog(p) \/ FillLog(p) \/ Decode(p) \/ CheckModel(p)
             \/ OpenWitness(p) \/ FillWitness(p) \/ Kill(p)
      PROVE  ModelInv'
  <2>1. PICK to \in Steps \ {"idle"} :
           /\ Goto(p, to) /\ proc[p].pc # "idle"
           /\ to = "decode" => proc[p].rc = 10
           /\ to = "check" => proc[p].pc = "decode" /\ proc[p].model # Absent
           /\ to = "open witness" => /\ proc[p].pc = "check"
                                     /\ Avoids(proc[p].model, Instance(p).k, Instance(p).l)
           /\ to = "fill witness" => proc[p].pc = "open witness"
           /\ to = "exit 3" => /\ proc[p].pc = "check"
                               /\ ~Avoids(proc[p].model, Instance(p).k, Instance(p).l)
    <3>1. CASE \/ OpenBody(p) \/ FillBody(p) \/ OpenCnf(p) \/ Unlink(p) \/ CheckStatus(p)
               \/ OpenLog(p) \/ FillWitness(p) \/ Kill(p)
      <4>1. \E to \in Blind : Goto(p, to)
        BY <3>1 DEF OpenBody, FillBody, OpenCnf, Unlink, CheckStatus, OpenLog, FillWitness, Kill,
                    Blind, Steps
      <4>2. proc[p].pc # "idle"
        BY <3>1 DEF OpenBody, FillBody, OpenCnf, Unlink, CheckStatus, OpenLog, FillWitness, Kill
      <4> QED
        BY <4>1, <4>2 DEF Blind
    <3>2. CASE FillLog(p)
      <4>1. \E to \in {"decode", "exit 0"} : Goto(p, to) /\ (to = "decode" => proc[p].rc = 10)
        BY <3>2 DEF FillLog
      <4>2. proc[p].pc # "idle"
        BY <3>2 DEF FillLog
      <4> QED
        BY <4>1, <4>2 DEF Steps
    <3>3. CASE Decode(p)
      <4>1. \E to \in {"raised", "check"} :
               Goto(p, to) /\ (to = "check" => proc[p].model # Absent)
        BY <3>3 DEF Decode
      <4>2. proc[p].pc = "decode"
        BY <3>3 DEF Decode
      <4> QED
        BY <4>1, <4>2 DEF Steps
    <3>4. CASE CheckModel(p)
      <4> DEFINE good == Avoids(proc[p].model, Instance(p).k, Instance(p).l)
      <4>1. Goto(p, IF ~good THEN "exit 3"
                    ELSE IF proc[p].job.witness THEN "open witness" ELSE "exit 0")
        BY <3>4 DEF CheckModel
      <4>2. proc[p].pc = "check"
        BY <3>4 DEF CheckModel
      <4> HIDE DEF good
      <4>3. \E to \in {"exit 3", "open witness", "exit 0"} :
               Goto(p, to) /\ (to = "exit 3" => ~good) /\ (to = "open witness" => good)
        BY <4>1
      <4> QED
        BY <4>2, <4>3 DEF Steps, good
    <3>5. CASE OpenWitness(p)
      <4>1. \E to \in {"fill witness"} : Goto(p, to)
        BY <3>5 DEF OpenWitness
      <4>2. proc[p].pc = "open witness"
        BY <3>5 DEF OpenWitness
      <4> QED
        BY <4>1, <4>2 DEF Steps
    <3> QED
      BY <1>4, <3>1, <3>2, <3>3, <3>4, <3>5
  <2> DEFINE r == [proc[p] EXCEPT !.pc = to]
  <2>2. /\ r.pc = to /\ r.job = proc[p].job /\ r.rc = proc[p].rc
        /\ r.model = proc[p].model
    BY DEF Shape, Processes
  <2>3. Thinks(proc[p])
    BY DEF ModelInv
  <2> HIDE DEF r
  <2>4. Thinks(r)
    BY <2>1, <2>2, <2>3 DEF Thinks, Instance
  <2> QED
    BY <2>1, <2>4, ThinksGoes DEF r
<1>5. CASE UNCHANGED vars
  BY <1>5 DEF vars, ModelInv
<1> QED
  BY <1>1, <1>2, <1>3, <1>4, <1>5 DEF Next, Step

\* What a witness file may hold.
Lines == {Absent, Torn} \cup Seq({1, -1})

WitnessShape == witness \in [Lengths -> FileOf(Lines)]

Right(line, i) == line \in {Absent, Torn, <<>>} \/ Avoids(line, i.k, i.l)

WitnessInv == \A i \in Instances : Right(witness[i.N].content, i)

\* One witness file becomes another, right for the problem of its length.
LEMMA WitnessBecomes ==
    ASSUME Problems, WitnessShape, WitnessInv, NEW i \in Instances,
           NEW file \in FileOf(Lines), Right(file.content, i),
           witness' = [witness EXCEPT ![i.N] = file]
    PROVE  WitnessShape' /\ WitnessInv'
<1>1. i.N \in Lengths
  BY DEF Lengths
<1>2. \A j \in Instances : Right(witness'[j.N].content, j)
  <2> SUFFICES ASSUME NEW j \in Instances PROVE Right(witness'[j.N].content, j)
    OBVIOUS
  <2>1. j.N \in Lengths
    BY DEF Lengths
  <2>2. CASE j.N = i.N
    BY <1>1, <2>2 DEF WitnessShape, Right, Problems
  <2>3. CASE j.N # i.N
    BY <2>1, <2>3 DEF WitnessShape, WitnessInv
  <2> QED
    BY <2>2, <2>3
<1> QED
  BY <1>1, <1>2 DEF WitnessShape, WitnessInv

\* Each step leaves witnesses that avoid, or that nobody can read.
LEMMA WitnessStep ==
    ASSUME Problems, Shape, ModelInv, WitnessShape, WitnessInv, [Next]_vars
    PROVE  WitnessShape' /\ WitnessInv'
<1> USE DEF At
<1>1. ASSUME NEW p \in Procs, proc[p].pc \in {"open witness", "fill witness"}
      PROVE  /\ Instance(p) \in Instances /\ Instance(p).N \in Nat
             /\ Instance(p).k \in Nat \ {0, 1}
             /\ proc[p].model \in [1 .. Instance(p).N -> {1, -1}]
             /\ proc[p].model \in Lines
             /\ Avoids(proc[p].model, Instance(p).k, Instance(p).l)
  <2>1. /\ Instance(p) \in Instances /\ Instance(p).N \in Nat
        /\ Instance(p).k \in Nat \ {0, 1}
    BY <1>1, HasInstance DEF Problems
  <2>2. /\ proc[p].model \in [1 .. Instance(p).N -> {1, -1}]
        /\ Avoids(proc[p].model, Instance(p).k, Instance(p).l)
    BY <1>1 DEF ModelInv, Thinks, Colorings, Instance
  <2>3. proc[p].model \in Seq({1, -1})
    BY <2>1, <2>2, ColoringIsSeq
  <2> QED
    BY <2>1, <2>2, <2>3 DEF Lines
<1>2. ASSUME NEW p \in Procs, OpenWitness(p)
      PROVE  WitnessShape' /\ WitnessInv'
  <2>1. PICK n \in 0 .. Instance(p).N - 1 :
           witness' = [witness EXCEPT ![Instance(p).N] =
                          Opened(p, SubSeq(proc[p].model, 1, n))]
    BY <1>2 DEF OpenWitness
  <2> DEFINE line == SubSeq(proc[p].model, 1, n)
  <2>0. /\ Instance(p) \in Instances /\ Instance(p).N \in Nat
        /\ proc[p].model \in [1 .. Instance(p).N -> {1, -1}]
    BY <1>1, <1>2 DEF OpenWitness
  <2>2. n \in 0 .. Instance(p).N
    BY <2>0
  <2>3. Avoids(line, Instance(p).k, Instance(p).l)
    BY <1>1, <1>2, <2>2, PrefixAvoids DEF OpenWitness
  <2>4. line \in Lines
    <3>1. proc[p].model \in Seq({1, -1}) /\ Len(proc[p].model) = Instance(p).N
      BY <2>0, ColoringIsSeq
    <3>2. line \in Seq({1, -1})
      BY <2>2, <3>1
    <3> QED
      BY <3>2 DEF Lines
  <2> HIDE DEF line
  <2>5. /\ Opened(p, line) \in FileOf(Lines)
        /\ Right(Opened(p, line).content, Instance(p))
    BY <2>3, <2>4 DEF Opened, FileOf, Right
  <2>6. witness' = [witness EXCEPT ![Instance(p).N] = Opened(p, line)]
    BY <2>1 DEF line
  <2> QED
    BY <1>1, <1>2, <2>5, <2>6, WitnessBecomes DEF OpenWitness
<1>3. ASSUME NEW p \in Procs, FillWitness(p)
      PROVE  WitnessShape' /\ WitnessInv'
  <2>1. PICK file \in Filled(witness[Instance(p).N], p, proc[p].model) :
           witness' = [witness EXCEPT ![Instance(p).N] = file]
    BY <1>3 DEF FillWitness
  <2>2. proc[p].pc = "fill witness"
    BY <1>3 DEF FillWitness
  <2>3. Instance(p).N \in Lengths
    BY <1>1, <2>2 DEF Lengths
  <2>4. file \in FileOf(Lines) /\ file.content \in {proc[p].model, Torn}
    <3>1. Torn \in Lines /\ proc[p].model \in Lines
      BY <1>1, <2>2 DEF Lines
    <3> QED
      BY <2>1, <2>3, <3>1, FilledShape DEF WitnessShape
  <2>5. Right(file.content, Instance(p))
    BY <1>1, <2>2, <2>4 DEF Right
  <2> QED
    BY <1>1, <2>1, <2>2, <2>4, <2>5, WitnessBecomes
<1>4. CASE UNCHANGED witness
  BY <1>4 DEF WitnessShape, WitnessInv
<1> QED
  BY <1>2, <1>3, <1>4
  DEF Next, Step, Start, OpenBody, FillBody, OpenCnf, FillCnf, Unlink, StartSolver, AnswerUnsat,
      AnswerSat, NoAnswer, CheckStatus, HashProof, OpenLog, FillLog, Decode, CheckModel,
      Kill, vars, files

-----------------------------------------------------------------------------
(* ProofOwn.  Between the answer and its being hashed, the proof is in a   *)
(* file which follows from the instance; beside another invocation that    *)
(* writes it the log may name something else.                              *)

Alone == \A p, q \in Procs : p = q
NoProofs == \A asked \in Jobs : ~asked.proof

\* What the log of a refutation names, step by step.
Names(p) ==
    LET r == proc[p] IN
    r.rc = 20 =>
        /\ r.pc \in {"status", "hash proof"} /\ r.job.proof =>
              proof[r.job.instance].content = r.job.instance
        /\ r.pc \in {"open log", "fill log"} => r.proof \in {Absent, r.job.instance}

NamesInv == \A p \in Procs : Names(p)

ProofTrue(file, i) ==
    file.content \notin {Absent, Torn} /\ file.content.verdict = "UNSAT"
        => file.content.proof \in {Absent, i}

ProofInv == \A i \in Instances : ProofTrue(log[i], i)

\* Each step keeps what is about to be logged a proof of the instance.
LEMMA NamesStep ==
    ASSUME SentinelsApart, Alone \/ NoProofs, Shape, SeesInv, NamesInv, [Next]_vars
    PROVE  NamesInv'
<1> USE DEF At, Ended
<1>0. \A p \in Procs : proc[p] \in Processes /\ Names(p)
  BY DEF Shape, NamesInv
<1>1. ASSUME NEW p \in Procs, NEW asked \in Jobs, Start(p, asked)
      PROVE  NamesInv'
  <2>1. PICK to \in {"open body", "exit 2"} :
           proc' = [proc EXCEPT ![p] = [Idle EXCEPT !.pc = to, !.job = asked]]
    BY <1>1 DEF Start
  <2> DEFINE r == [Idle EXCEPT !.pc = to, !.job = asked]
  <2>2. r.rc # 20
    BY DEF Idle, SentinelsApart
  <2> HIDE DEF r
  <2>3. proc'[p] = r /\ \A q \in Procs \ {p} : proc'[q] = proc[q]
    BY <2>1 DEF Shape, r
  <2>4. UNCHANGED proof
    BY <1>1 DEF Start, files
  <2> QED
    BY <1>0, <2>2, <2>3, <2>4 DEF NamesInv, Names
<1>2. ASSUME NEW p \in Procs, FillCnf(p)
      PROVE  NamesInv'
  <2>1. PICK r \in Processes : r.pc = "unlink" /\ proc' = [proc EXCEPT ![p] = r]
    <3> DEFINE c == IF body[Instance(p)] = NoFile THEN Torn ELSE body[Instance(p)].content
    <3>1. c \in Bytes
      BY <1>2, HasInstance DEF FillCnf, Shape, FileOf, Bytes
    <3>2. proc' = [proc EXCEPT ![p] = [proc[p] EXCEPT !.pc = "unlink", !.sha = c]]
      BY <1>2 DEF FillCnf
    <3> HIDE DEF c
    <3>3. LET r == [proc[p] EXCEPT !.pc = "unlink", !.sha = c] IN
             r \in Processes /\ r.pc = "unlink"
      BY <1>0, <3>1 DEF Processes, Steps
    <3> QED
      BY <3>2, <3>3
  <2>2. proc'[p].pc = "unlink" /\ \A q \in Procs \ {p} : proc'[q] = proc[q]
    BY <2>1 DEF Shape
  <2>3. UNCHANGED proof
    BY <1>2 DEF FillCnf
  <2> QED
    BY <1>0, <2>2, <2>3 DEF NamesInv, Names
<1>3. ASSUME NEW p \in Procs, StartSolver(p)
      PROVE  NamesInv'
  <2>1. Instance(p) \in Instances /\ proc[p].job \in Jobs
    BY <1>3, HasInstance DEF StartSolver
  <2>2. PICK r \in Processes : r.pc = "solving" /\ proc' = [proc EXCEPT ![p] = r]
    <3>1. cnf[Instance(p)].content \in Bytes
      BY <2>1 DEF Shape, FileOf
    <3>2. LET r == [proc[p] EXCEPT !.pc = "solving", !.read = cnf[Instance(p)].content] IN
             r \in Processes /\ r.pc = "solving"
      BY <1>0, <3>1 DEF Processes, Steps
    <3>3. proc' = [proc EXCEPT ![p] = [proc[p] EXCEPT !.pc = "solving",
                                                      !.read = cnf[Instance(p)].content]]
      BY <1>3 DEF StartSolver
    <3> QED
      BY <3>2, <3>3
  <2>3. proc'[p].pc = "solving" /\ \A q \in Procs \ {p} : proc'[q] = proc[q]
    BY <2>2 DEF Shape
  <2>4. Alone \/ UNCHANGED proof
    BY <1>3, <2>1 DEF StartSolver, NoProofs
  <2> QED
    BY <1>0, <2>3, <2>4 DEF NamesInv, Names, Alone
<1>4. ASSUME NEW p \in Procs, AnswerUnsat(p)
      PROVE  NamesInv'
  <2>1. Instance(p) \in Instances /\ proc[p].job \in Jobs /\ proc[p].pc # "idle"
    BY <1>4, HasInstance DEF AnswerUnsat
  <2> DEFINE r == [proc[p] EXCEPT !.pc = "status", !.rc = 20]
  <2>2. r.pc = "status" /\ r.job = proc[p].job
    BY <1>0 DEF Processes
  <2>3. proc' = [proc EXCEPT ![p] = r]
    BY <1>4 DEF AnswerUnsat
  <2> HIDE DEF r
  <2>4. /\ proc'[p].pc = "status" /\ proc'[p].job = proc[p].job
        /\ \A q \in Procs \ {p} : proc'[q] = proc[q]
    BY <2>2, <2>3 DEF Shape
  <2>5. CASE proc[p].job.proof
    <3>1. proc[p].read = Instance(p)
      BY <1>4, <2>1 DEF AnswerUnsat, SeesInv, Sees, SentinelsApart, Instance
    <3>2. PICK file \in Filled([proof[Instance(p)] EXCEPT !.by = p], p, proc[p].read) :
             proof' = [proof EXCEPT ![Instance(p)] = file]
      BY <1>4, <2>5 DEF AnswerUnsat
    <3>3. file.content = Instance(p)
      <4>1. /\ [proof[Instance(p)] EXCEPT !.by = p] \in FileOf(Bytes)
            /\ [proof[Instance(p)] EXCEPT !.by = p].by = p
        BY <2>1 DEF Shape, FileOf
      <4>2. file = [[proof[Instance(p)] EXCEPT !.by = p] EXCEPT !.content = Instance(p)]
        BY <3>1, <3>2, <4>1 DEF Filled
      <4> QED
        BY <4>1, <4>2 DEF FileOf
    <3>4. proof'[Instance(p)].content = Instance(p)
      BY <2>1, <3>2, <3>3 DEF Shape
    <3>5. Alone
      BY <2>1, <2>5 DEF NoProofs
    <3> QED
      BY <2>4, <3>4, <3>5 DEF NamesInv, Names, Alone, Instance
  <2>6. CASE ~proc[p].job.proof
    <3>1. UNCHANGED proof
      BY <1>4, <2>6 DEF AnswerUnsat
    <3> QED
      BY <1>0, <2>4, <2>6, <3>1 DEF NamesInv, Names
  <2> QED
    BY <2>5, <2>6
<1>5. ASSUME NEW p \in Procs, AnswerSat(p) \/ NoAnswer(p)
      PROVE  NamesInv'
  <2>1. ASSUME NEW r, proc' = [proc EXCEPT ![p] = r], r.rc # 20
        PROVE  proc'[p].rc # 20 /\ \A q \in Procs \ {p} : proc'[q] = proc[q]
    BY <2>1 DEF Shape
  <2>2. proc'[p].rc # 20 /\ \A q \in Procs \ {p} : proc'[q] = proc[q]
    <3>1. CASE AnswerSat(p)
      <4>1. PICK model \in Models(proc[p].read) :
               proc' = [proc EXCEPT ![p].pc = "status", ![p].rc = 10, ![p].model = model]
        BY <3>1 DEF AnswerSat
      <4> DEFINE r == [proc[p] EXCEPT !.pc = "status", !.rc = 10, !.model = model]
      <4>2. r.rc # 20
        BY <1>0 DEF Processes
      <4>3. proc' = [proc EXCEPT ![p] = r]
        BY <4>1
      <4> HIDE DEF r
      <4> QED
        BY <2>1, <4>2, <4>3
    <3>2. CASE NoAnswer(p)
      <4> DEFINE r == [proc[p] EXCEPT !.pc = "status", !.rc = Absent]
      <4>1. r.rc # 20
        BY <1>0 DEF Processes, SentinelsApart
      <4>2. proc' = [proc EXCEPT ![p] = r]
        BY <3>2 DEF NoAnswer
      <4> HIDE DEF r
      <4> QED
        BY <2>1, <4>1, <4>2
    <3> QED
      BY <1>5, <3>1, <3>2
  <2>3. UNCHANGED proof
    BY <1>5 DEF AnswerSat, NoAnswer, files
  <2> QED
    BY <1>0, <2>2, <2>3 DEF NamesInv, Names
<1>6. ASSUME NEW p \in Procs, HashProof(p)
      PROVE  NamesInv'
  <2> DEFINE c == IF proc[p].job.proof THEN proof[Instance(p)].content ELSE Absent
  <2> DEFINE r == [proc[p] EXCEPT !.pc = "open log", !.proof = c]
  <2>1. r.pc = "open log" /\ r.job = proc[p].job /\ r.rc = proc[p].rc /\ r.proof = c
    BY <1>0 DEF Processes
  <2>2. proc' = [proc EXCEPT ![p] = r]
    BY <1>6 DEF HashProof
  <2>3. proc[p].rc = 20 => c \in {Absent, proc[p].job.instance}
    BY <1>0, <1>6 DEF HashProof, Names, Instance
  <2> HIDE DEF c, r
  <2>4. proc'[p] = r /\ \A q \in Procs \ {p} : proc'[q] = proc[q]
    BY <2>2 DEF Shape
  <2>5. UNCHANGED proof
    BY <1>6 DEF HashProof, files
  <2> QED
    BY <1>0, <2>1, <2>3, <2>4, <2>5 DEF NamesInv, Names
<1>7. ASSUME NEW p \in Procs,
             \/ OpenBody(p) \/ FillBody(p) \/ OpenCnf(p) \/ Unlink(p) \/ CheckStatus(p)
             \/ OpenLog(p) \/ FillLog(p) \/ Decode(p) \/ CheckModel(p)
             \/ OpenWitness(p) \/ FillWitness(p) \/ Kill(p)
      PROVE  NamesInv'
  <2>1. PICK to \in Steps :
           /\ Goto(p, to)
           /\ to \in {"status", "hash proof"} => proc[p].pc = "status"
           /\ to \in {"open log", "fill log"} => proc[p].pc = "open log"
    <3>1. CASE \/ OpenBody(p) \/ FillBody(p) \/ OpenCnf(p) \/ Unlink(p) \/ FillLog(p)
               \/ Decode(p) \/ CheckModel(p) \/ OpenWitness(p) \/ FillWitness(p) \/ Kill(p)
      <4>1. \E to \in Steps \ {"status", "hash proof", "open log", "fill log"} : Goto(p, to)
        BY <3>1 DEF OpenBody, FillBody, OpenCnf, Unlink, FillLog, Decode, CheckModel,
                    OpenWitness, FillWitness, Kill, Steps
      <4> QED
        BY <4>1
    <3>2. CASE CheckStatus(p)
      <4>1. \E to \in {"hash proof", "raised"} : Goto(p, to)
        BY <3>2 DEF CheckStatus
      <4>2. proc[p].pc = "status"
        BY <3>2 DEF CheckStatus
      <4> QED
        BY <4>1, <4>2 DEF Steps
    <3>3. CASE OpenLog(p)
      BY <3>3 DEF OpenLog, Steps
    <3> QED
      BY <1>7, <3>1, <3>2, <3>3
  <2>2. /\ proc'[p].pc = to /\ proc'[p].job = proc[p].job /\ proc'[p].rc = proc[p].rc
        /\ proc'[p].proof = proc[p].proof
        /\ \A q \in Procs \ {p} : proc'[q] = proc[q]
    BY <2>1, Reaches
  <2>3. UNCHANGED proof
    BY <1>7 DEF OpenBody, FillBody, OpenCnf, Unlink, CheckStatus, OpenLog, FillLog, Decode,
                CheckModel, OpenWitness, FillWitness, Kill, files
  <2>4. Names(p)
    BY <1>0
  <2>5. Names(p)'
    BY <2>1, <2>2, <2>3, <2>4 DEF Names
  <2>6. \A q \in Procs \ {p} : Names(q)'
    BY <1>0, <2>2, <2>3 DEF Names
  <2> QED
    BY <2>5, <2>6 DEF NamesInv
<1>8. CASE UNCHANGED vars
  BY <1>8 DEF vars, files, NamesInv, Names
<1> QED
  BY <1>1, <1>2, <1>3, <1>4, <1>5, <1>6, <1>7, <1>8 DEF Next, Step

\* Each step keeps the proofs that logs of refutations name their own.
LEMMA ProofStep == Shape /\ NamesInv /\ ProofInv /\ [Next]_vars => ProofInv'
<1> SUFFICES ASSUME Shape, NamesInv, ProofInv, [Next]_vars PROVE ProofInv'
  OBVIOUS
<1> USE DEF At
<1>1. ASSUME NEW p \in Procs, OpenLog(p)
      PROVE  ProofInv'
  <2>1. Instance(p) \in Instances
    BY <1>1, HasInstance DEF OpenLog
  <2> QED
    BY <1>1, <2>1 DEF OpenLog, ProofInv, ProofTrue, Opened, Shape
<1>2. ASSUME NEW p \in Procs, FillLog(p)
      PROVE  ProofInv'
  <2>1. Instance(p) \in Instances /\ proc[p] \in Processes
    BY <1>2, HasInstance DEF FillLog
  <2>2. PICK file \in Filled(log[Instance(p)], p, Record(p)) :
           log' = [log EXCEPT ![Instance(p)] = file]
    BY <1>2 DEF FillLog
  <2>3. Record(p) \in Logs
    BY <2>1 DEF Processes, Record, Verdict, Logs
  <2>4. file.content \in {Record(p), Torn}
    BY <2>1, <2>2, <2>3, FilledShape DEF Shape
  <2>5. Record(p).verdict = "UNSAT" => Record(p).proof \in {Absent, Instance(p)}
    BY <1>2, <2>1 DEF Record, Verdict, NamesInv, Names, Instance, FillLog
  <2>6. ProofTrue(file, Instance(p))
    BY <2>4, <2>5 DEF ProofTrue
  <2> QED
    BY <2>1, <2>2, <2>6 DEF ProofInv, Shape
<1>3. CASE UNCHANGED log
  BY <1>3 DEF ProofInv
<1> QED
  BY <1>1, <1>2, <1>3
  DEF Next, Step, Start, OpenBody, FillBody, OpenCnf, FillCnf, Unlink, StartSolver, AnswerUnsat,
      AnswerSat, NoAnswer, CheckStatus, HashProof, Decode, CheckModel, OpenWitness,
      FillWitness, Kill, vars, files

\* The invariant behind what nk2/solve.py leaves on disk.
FilesInv ==
    /\ Shape /\ BytesInv /\ SeesInv /\ LogInv
    /\ ModelInv /\ WitnessShape /\ WitnessInv
    /\ NamesInv /\ ProofInv

LEMMA FilesInit == ASSUME SentinelsApart, Init PROVE FilesInv
<1>1. Shape
  BY ShapeInit
<1>2. BytesInv /\ LogInv /\ ProofInv
  BY DEF Init, NoFile, BytesInv, LogInv, ProofInv, Own, LogTrue, ProofTrue
<1>3. SeesInv /\ ModelInv
  BY DEF Init, Idle, SeesInv, Sees, ModelInv, Thinks
<1>4. WitnessShape /\ WitnessInv
  <2>1. NoFile \in FileOf(Lines) /\ NoFile.content = Absent
    BY DEF NoFile, FileOf, Lines
  <2> QED
    BY <2>1 DEF Init, WitnessShape, WitnessInv, Right, Lengths
<1>5. NamesInv
  <2>1. Idle.rc # 20
    BY DEF Idle, SentinelsApart
  <2> QED
    BY <2>1 DEF Init, NamesInv, Names
<1> QED
  BY <1>1, <1>2, <1>3, <1>4, <1>5 DEF FilesInv

LEMMA FilesStep ==
    ASSUME SentinelsApart, Problems, Alone \/ NoProofs, FilesInv, [Next]_vars
    PROVE  FilesInv'
BY ShapeStep, BytesStep, SeesStep, LogStep, ModelStep, WitnessStep, NamesStep, ProofStep
DEF FilesInv

\* Run-logs, witnesses and proofs are what they are taken for, whenever an
\* invocation of nk2/solve.py is killed and whatever an earlier one left:
\* with any number of invocations at once, or with proofs and one at a time.
THEOREM FilesAreTrue ==
    ASSUME SentinelsApart, Problems, Alone \/ NoProofs
    PROVE  Spec => []FilesTrue
<1>1. Init => FilesInv
  BY FilesInit
<1>2. FilesInv /\ [Next]_vars => FilesInv'
  BY FilesStep
<1>3. FilesInv => FilesTrue
  <2> SUFFICES ASSUME FilesInv PROVE FilesTrue
    OBVIOUS
  <2>1. UnsatLogTrue /\ ProofOwn
    BY DEF FilesInv, UnsatLogTrue, ProofOwn, Readable, LogInv, LogTrue, ProofInv, ProofTrue
  <2>2. WitnessAvoids
    BY DEF FilesInv, WitnessAvoids, ReadWitness, WitnessInv, Right
  <2> QED
    BY <2>1, <2>2 DEF FilesTrue
<1> QED
  BY <1>1, <1>2, <1>3, PTL DEF Spec

\* Whatever read_witness accepts avoids, with any number of invocations over
\* the same files and with proofs or without.
THEOREM WitnessesAvoid ==
    ASSUME SentinelsApart, Problems PROVE Spec => []WitnessAvoids
<1> DEFINE Inv == /\ Shape /\ BytesInv /\ SeesInv
                  /\ ModelInv /\ WitnessShape /\ WitnessInv
<1>1. Init => Inv
  BY FilesInit DEF FilesInv
<1>2. Inv /\ [Next]_vars => Inv'
  BY ShapeStep, BytesStep, SeesStep, ModelStep, WitnessStep
<1>3. Inv => WitnessAvoids
  BY DEF WitnessAvoids, ReadWitness, WitnessInv, Right
<1> QED
  BY <1>1, <1>2, <1>3, PTL DEF Spec

-----------------------------------------------------------------------------
(* ExitCodes.  Alone, an invocation finds its files as it left them, so    *)
(* that what it knows grows step by step.                                  *)

\* What is torn or not there is no log and no coloring, and positions start
\* at 1.
RecordsApart ==
    /\ Absent \notin Logs /\ Torn \notin Logs
    /\ \A i \in Instances : /\ Absent \notin Colorings(i.N)
                            /\ Torn \notin Colorings(i.N)
                            /\ i.N \in Nat \ {0}

Logged == {"decode", "check", "open witness", "fill witness", "exit 0", "exit 3"}
Written == {"unlink", "solve", "solving", "status", "hash proof", "open log", "fill log"}
           \cup Logged

Knows(p) ==
    LET r == proc[p]
        i == Instance(p) IN
    /\ r.pc = "fill body" => body[i].by = p
    /\ r.pc \in {"open cnf", "fill cnf"} => body[i].content = i
    /\ r.pc \in Written => r.sha = i
    /\ r.pc = "fill log" => log[i].by = p
    /\ r.pc \in Logged => log[i].content = Record(p)
    /\ r.pc = "fill witness" => witness[i.N].by = p
    /\ r.pc \in {"check", "open witness", "fill witness"} => r.rc = 10
    /\ r.pc = "exit 0" /\ r.rc = 10 /\ r.job.witness =>
          witness[i.N].content = r.model /\ r.model \in Colorings(i.N)

KnowsInv == \A p \in Procs : Knows(p)

\* The record of a run is of what the run does not forget.
LEMMA RecordStays ==
    ASSUME NEW p \in Procs, proc'[p].job = proc[p].job, proc'[p].sha = proc[p].sha,
           proc'[p].rc = proc[p].rc, proc'[p].proof = proc[p].proof
    PROVE  Instance(p)' = Instance(p) /\ Record(p)' = Record(p)
BY DEF Record, Instance

\* A file that was opened and not since is filled with nothing else.
LEMMA FilledAlone ==
    ASSUME NEW S, NEW file \in FileOf(S), NEW p, file.by = p, NEW content,
           NEW g \in Filled(file, p, content)
    PROVE  g.content = content
BY DEF Filled, FileOf

\* Each step of an invocation alone adds to what it knows.
LEMMA KnowsStep ==
    ASSUME SentinelsApart, Alone, Shape, BytesInv, ModelInv, WitnessShape, KnowsInv,
           [Next]_vars
    PROVE  KnowsInv'
<1> USE DEF At, Ended
<1>0. ASSUME NEW p \in Procs, Knows(p)' PROVE KnowsInv'
  BY <1>0 DEF KnowsInv, Alone
<1>1. ASSUME NEW p \in Procs, NEW asked \in Jobs, Start(p, asked)
      PROVE  Knows(p)'
  <2>1. PICK to \in {"open body", "exit 2"} :
           proc' = [proc EXCEPT ![p] = [Idle EXCEPT !.pc = to, !.job = asked]]
    BY <1>1 DEF Start
  <2>2. proc'[p].pc = to
    BY <2>1 DEF Shape, Idle
  <2> QED
    BY <2>2 DEF Knows, Written, Logged
<1>2. ASSUME NEW p \in Procs, OpenBody(p)
      PROVE  Knows(p)'
  <2>1. proc'[p].pc = "fill body" /\ Instance(p)' = Instance(p)
    BY <1>2, Reaches DEF OpenBody, Instance, Steps
  <2>2. body'[Instance(p)].by = p
    BY <1>2, HasInstance DEF OpenBody, Opened, Shape
  <2> QED
    BY <2>1, <2>2 DEF Knows, Written, Logged
<1>3. ASSUME NEW p \in Procs, FillBody(p)
      PROVE  Knows(p)'
  <2>1. proc'[p].pc = "open cnf" /\ Instance(p)' = Instance(p)
    BY <1>3, Reaches DEF FillBody, Instance, Steps
  <2>2. body'[Instance(p)].content = Instance(p)
    <3>1. Instance(p) \in Instances /\ body[Instance(p)].by = p
      BY <1>3, HasInstance DEF FillBody, KnowsInv, Knows
    <3>2. [body[Instance(p)] EXCEPT !.content = Instance(p)].content = Instance(p)
      BY <3>1 DEF Shape, FileOf
    <3> QED
      BY <1>3, <3>1, <3>2 DEF FillBody, Shape
  <2> QED
    BY <2>1, <2>2 DEF Knows, Written, Logged
<1>4. ASSUME NEW p \in Procs, OpenCnf(p)
      PROVE  Knows(p)'
  <2>1. proc'[p].pc \in {"raised", "fill cnf"} /\ Instance(p)' = Instance(p)
    <3>1. PICK to \in {"raised", "fill cnf"} : Goto(p, to)
      BY <1>4 DEF OpenCnf
    <3> QED
      BY <3>1, Reaches DEF Instance, Steps
  <2>2. body[Instance(p)].content = Instance(p) /\ UNCHANGED body
    BY <1>4 DEF OpenCnf, KnowsInv, Knows
  <2> QED
    BY <2>1, <2>2 DEF Knows, Written, Logged
<1>5. ASSUME NEW p \in Procs, FillCnf(p)
      PROVE  Knows(p)'
  <2>1. Instance(p) \in Instances /\ body[Instance(p)].content = Instance(p)
    BY <1>5, HasInstance DEF FillCnf, KnowsInv, Knows
  <2>2. body[Instance(p)] # NoFile
    BY <2>1 DEF NoFile, SentinelsApart
  <2> DEFINE r == [proc[p] EXCEPT !.pc = "unlink", !.sha = Instance(p)]
  <2>3. r.pc = "unlink" /\ r.sha = Instance(p) /\ r.job = proc[p].job
    BY DEF Shape, Processes
  <2>4. proc' = [proc EXCEPT ![p] = r]
    BY <1>5, <2>1, <2>2 DEF FillCnf
  <2> HIDE DEF r
  <2>5. /\ proc'[p].pc = "unlink" /\ proc'[p].sha = Instance(p)
        /\ Instance(p)' = Instance(p)
    BY <2>3, <2>4 DEF Shape, Instance
  <2> QED
    BY <2>5 DEF Knows, Written, Logged
<1>6. ASSUME NEW p \in Procs, Unlink(p) \/ CheckStatus(p) \/ Kill(p)
      PROVE  Knows(p)'
  <2>1. PICK to \in {"raised", "solve", "hash proof", "killed"} :
           Goto(p, to) /\ (to \in Written => proc[p].pc \in Written)
    <3>1. CASE Unlink(p)
      <4>1. \E to \in {"raised", "solve"} : Goto(p, to)
        BY <3>1 DEF Unlink
      <4>2. proc[p].pc \in Written
        BY <3>1 DEF Unlink, Written
      <4> QED
        BY <4>1, <4>2
    <3>2. CASE CheckStatus(p)
      <4>1. \E to \in {"raised", "hash proof"} : Goto(p, to)
        BY <3>2 DEF CheckStatus
      <4>2. proc[p].pc \in Written
        BY <3>2 DEF CheckStatus, Written
      <4> QED
        BY <4>1, <4>2
    <3>3. CASE Kill(p)
      BY <3>3 DEF Kill, Written, Logged
    <3> QED
      BY <1>6, <3>1, <3>2, <3>3
  <2>2. /\ proc'[p].pc = to /\ proc'[p].sha = proc[p].sha
        /\ Instance(p)' = Instance(p)
    BY <2>1, Reaches DEF Instance, Steps
  <2>3. to \in Written => proc[p].sha = Instance(p)
    BY <2>1 DEF KnowsInv, Knows
  <2> QED
    BY <2>1, <2>2, <2>3 DEF Knows, Logged
<1>7. ASSUME NEW p \in Procs,
             \/ StartSolver(p) \/ AnswerUnsat(p) \/ AnswerSat(p) \/ NoAnswer(p) \/ HashProof(p)
      PROVE  Knows(p)'
  <2>1. proc[p].sha = Instance(p) /\ proc[p] \in Processes
    BY <1>7
    DEF StartSolver, AnswerUnsat, AnswerSat, NoAnswer, HashProof, KnowsInv, Knows, Written, Shape
  <2>2. /\ proc'[p].pc \in {"solving", "status", "open log"}
        /\ proc'[p].sha = proc[p].sha /\ proc'[p].job = proc[p].job
    <3>1. CASE StartSolver(p)
      BY <2>1, <3>1 DEF StartSolver, Shape, Processes
    <3>2. CASE AnswerUnsat(p)
      BY <2>1, <3>2 DEF AnswerUnsat, Shape, Processes
    <3>3. CASE AnswerSat(p)
      BY <2>1, <3>3 DEF AnswerSat, Shape, Processes
    <3>4. CASE NoAnswer(p)
      BY <2>1, <3>4 DEF NoAnswer, Shape, Processes
    <3>5. CASE HashProof(p)
      BY <2>1, <3>5 DEF HashProof, Shape, Processes
    <3> QED
      BY <1>7, <3>1, <3>2, <3>3, <3>4, <3>5
  <2> QED
    BY <2>1, <2>2 DEF Knows, Logged, Instance
<1>8. ASSUME NEW p \in Procs, OpenLog(p)
      PROVE  Knows(p)'
  <2>1. /\ proc'[p].pc = "fill log" /\ proc'[p].sha = proc[p].sha
        /\ Instance(p)' = Instance(p)
    BY <1>8, Reaches DEF OpenLog, Instance, Steps
  <2>2. log'[Instance(p)].by = p
    BY <1>8, HasInstance DEF OpenLog, Opened, Shape
  <2>3. proc[p].sha = Instance(p)
    BY <1>8 DEF OpenLog, KnowsInv, Knows, Written
  <2> QED
    BY <2>1, <2>2, <2>3 DEF Knows, Logged
<1>9. ASSUME NEW p \in Procs, FillLog(p)
      PROVE  Knows(p)'
  <2>1. PICK to \in {"decode", "exit 0"} : Goto(p, to) /\ (to = "exit 0" => proc[p].rc # 10)
    BY <1>9 DEF FillLog
  <2>2. /\ proc'[p].pc = to /\ proc'[p].sha = proc[p].sha /\ proc'[p].rc = proc[p].rc
        /\ Instance(p)' = Instance(p) /\ Record(p)' = Record(p)
    BY <2>1, Reaches, RecordStays DEF Steps
  <2>3. /\ Instance(p) \in Instances /\ log[Instance(p)].by = p
        /\ proc[p].sha = Instance(p)
    BY <1>9, HasInstance DEF FillLog, KnowsInv, Knows, Written
  <2>4. PICK file \in Filled(log[Instance(p)], p, Record(p)) :
           log' = [log EXCEPT ![Instance(p)] = file]
    BY <1>9 DEF FillLog
  <2>5. file.content = Record(p)
    BY <2>3, <2>4, FilledAlone DEF Shape
  <2>6. log'[Instance(p)].content = Record(p)
    BY <2>3, <2>4, <2>5 DEF Shape
  <2> QED
    BY <2>1, <2>2, <2>3, <2>6 DEF Knows
<1>10. ASSUME NEW p \in Procs, Decode(p) \/ CheckModel(p)
       PROVE  Knows(p)'
  <2>1. PICK to \in {"raised", "check", "exit 3", "open witness", "exit 0"} :
           /\ Goto(p, to)
           /\ to = "exit 0" => ~proc[p].job.witness
    <3>1. CASE Decode(p)
      BY <3>1 DEF Decode
    <3>2. CASE CheckModel(p)
      <4> DEFINE good == Avoids(proc[p].model, Instance(p).k, Instance(p).l)
      <4>1. Goto(p, IF ~good THEN "exit 3"
                    ELSE IF proc[p].job.witness THEN "open witness" ELSE "exit 0")
        BY <3>2 DEF CheckModel
      <4> HIDE DEF good
      <4> QED
        BY <4>1
    <3> QED
      BY <1>10, <3>1, <3>2
  <2>2. /\ proc'[p].pc = to /\ proc'[p].sha = proc[p].sha /\ proc'[p].rc = proc[p].rc
        /\ proc'[p].job = proc[p].job
        /\ Instance(p)' = Instance(p) /\ Record(p)' = Record(p)
    BY <2>1, Reaches, RecordStays DEF Steps
  <2>3. proc[p].pc \in {"decode", "check"} /\ UNCHANGED log
    BY <1>10 DEF Decode, CheckModel, files
  <2>4. log[Instance(p)].content = Record(p) /\ proc[p].sha = Instance(p) /\ proc[p].rc = 10
    BY <2>3 DEF KnowsInv, Knows, Written, Logged, ModelInv, Thinks
  <2> QED
    BY <2>1, <2>2, <2>3, <2>4 DEF Knows
<1>11. ASSUME NEW p \in Procs, OpenWitness(p)
       PROVE  Knows(p)'
  <2>1. /\ proc'[p].pc = "fill witness" /\ proc'[p].sha = proc[p].sha
        /\ proc'[p].rc = proc[p].rc
        /\ Instance(p)' = Instance(p) /\ Record(p)' = Record(p)
    BY <1>11, Reaches, RecordStays DEF OpenWitness, Steps
  <2>2. UNCHANGED log /\ proc[p].pc = "open witness"
    BY <1>11 DEF OpenWitness
  <2>3. log[Instance(p)].content = Record(p) /\ proc[p].sha = Instance(p) /\ proc[p].rc = 10
    BY <2>2 DEF KnowsInv, Knows, Written, Logged
  <2>4. witness'[Instance(p).N].by = p
    <3>1. Instance(p).N \in Lengths
      BY <2>2, HasInstance DEF Lengths
    <3>2. PICK n : witness' = [witness EXCEPT ![Instance(p).N] =
                                  Opened(p, SubSeq(proc[p].model, 1, n))]
      BY <1>11 DEF OpenWitness
    <3> QED
      BY <3>1, <3>2 DEF WitnessShape, Opened
  <2> QED
    BY <2>1, <2>2, <2>3, <2>4 DEF Knows
<1>12. ASSUME NEW p \in Procs, FillWitness(p)
       PROVE  Knows(p)'
  <2>1. /\ proc'[p].pc = "exit 0" /\ proc'[p].sha = proc[p].sha
        /\ proc'[p].model = proc[p].model
        /\ Instance(p)' = Instance(p) /\ Record(p)' = Record(p)
    BY <1>12, Reaches, RecordStays DEF FillWitness, Steps
  <2>2. UNCHANGED log /\ proc[p].pc = "fill witness"
    BY <1>12 DEF FillWitness
  <2>3. /\ log[Instance(p)].content = Record(p) /\ proc[p].sha = Instance(p)
        /\ witness[Instance(p).N].by = p
    BY <2>2 DEF KnowsInv, Knows, Written, Logged
  <2>4. proc[p].model \in Colorings(Instance(p).N)
    BY <2>2 DEF ModelInv, Thinks, Instance
  <2>5. witness'[Instance(p).N].content = proc[p].model
    <3>1. Instance(p).N \in Lengths
      BY <2>2, HasInstance DEF Lengths
    <3>2. PICK file \in Filled(witness[Instance(p).N], p, proc[p].model) :
             witness' = [witness EXCEPT ![Instance(p).N] = file]
      BY <1>12 DEF FillWitness
    <3>3. file.content = proc[p].model
      <4>1. witness[Instance(p).N] \in FileOf(Lines)
        BY <3>1 DEF WitnessShape
      <4>2. witness[Instance(p).N].by = p
        BY <2>3
      <4> QED
        BY <3>2, <4>1, <4>2, FilledAlone, Zenon
    <3> QED
      BY <3>1, <3>2, <3>3 DEF WitnessShape
  <2> QED
    BY <2>1, <2>2, <2>3, <2>4, <2>5 DEF Knows
<1>13. CASE UNCHANGED vars
  BY <1>13 DEF vars, files, KnowsInv, Knows, Record, Instance
<1> QED
  BY <1>0, <1>1, <1>2, <1>3, <1>4, <1>5, <1>6, <1>7, <1>8, <1>9, <1>10, <1>11, <1>12, <1>13
  DEF Next, Step

\* Exit codes of nk2/solve.py, when invocations follow one another: 0 leaves a
\* readable log of this run and the witness that was wanted and found, 3 a log
\* that says SAT and no new witness; however earlier ones were killed.
THEOREM ExitCodesTrue ==
    ASSUME SentinelsApart, Problems, RecordsApart, Alone PROVE Spec => []ExitCodes
<1>1. Init => FilesInv /\ KnowsInv
  <2>1. Init => KnowsInv
    <3>1. Idle.pc = "idle"
      BY DEF Idle
    <3>2. Init => \A p \in Procs : proc[p].pc = "idle"
      BY <3>1 DEF Init
    <3>3. ASSUME NEW p \in Procs, proc[p].pc = "idle" PROVE Knows(p)
      BY <3>3 DEF Knows, Written, Logged
    <3> QED
      BY <3>2, <3>3 DEF KnowsInv
  <2> QED
    BY <2>1, FilesInit
<1>2. FilesInv /\ KnowsInv /\ [Next]_vars => FilesInv' /\ KnowsInv'
  <2> SUFFICES ASSUME FilesInv, KnowsInv, [Next]_vars PROVE FilesInv' /\ KnowsInv'
    OBVIOUS
  <2>1. KnowsInv'
    BY KnowsStep DEF FilesInv
  <2> QED
    BY <2>1, FilesStep
<1>3. FilesInv /\ KnowsInv => ExitCodes
  <2> SUFFICES ASSUME FilesInv, KnowsInv, NEW p \in Procs, At(p, "exit 0") \/ At(p, "exit 3")
               PROVE  /\ Readable(Instance(p))
                      /\ log[Instance(p)].content = Record(p)
                      /\ proc[p].sha = Instance(p)
                      /\ At(p, "exit 0") /\ proc[p].rc = 10 /\ proc[p].job.witness =>
                            ReadWitness(Instance(p).N) = proc[p].model
                      /\ At(p, "exit 3") =>
                            /\ proc[p].rc = 10
                            /\ ReadWitness(Instance(p).N) # proc[p].model
    BY DEF ExitCodes
  <2>1. proc[p] \in Processes /\ proc[p].job \in Jobs /\ Instance(p) \in Instances
    BY HasInstance DEF FilesInv, At
  <2>2. log[Instance(p)].content = Record(p) /\ proc[p].sha = Instance(p)
    BY DEF KnowsInv, Knows, At, Written, Logged
  <2>3. Readable(Instance(p))
    <3>1. Record(p) \in Logs
      BY <2>1 DEF Processes, Record, Verdict, Logs
    <3> QED
      BY <2>2, <3>1 DEF Readable, RecordsApart
  <2>4. /\ Absent \notin Colorings(Instance(p).N) /\ Torn \notin Colorings(Instance(p).N)
        /\ <<>> \notin Colorings(Instance(p).N)
    <3>1. Instance(p).N \in Nat \ {0}
      BY <2>1 DEF RecordsApart
    <3>2. ASSUME <<>> \in Colorings(Instance(p).N) PROVE FALSE
      <4>1. Len(<<>>) = Instance(p).N
        BY <3>1, <3>2, ColoringIsSeq DEF Colorings
      <4> QED
        BY <3>1, <4>1
    <3> QED
      BY <2>1, <3>2 DEF RecordsApart
  <2>5. ASSUME At(p, "exit 0"), proc[p].rc = 10, proc[p].job.witness
        PROVE  ReadWitness(Instance(p).N) = proc[p].model
    BY <2>4, <2>5 DEF KnowsInv, Knows, At, ReadWitness
  <2>6. ASSUME At(p, "exit 3")
        PROVE  proc[p].rc = 10 /\ ReadWitness(Instance(p).N) # proc[p].model
    <3>1. /\ proc[p].rc = 10 /\ proc[p].model \in Colorings(Instance(p).N)
          /\ ~Avoids(proc[p].model, Instance(p).k, Instance(p).l)
      BY <2>6 DEF FilesInv, ModelInv, Thinks, At, Instance
    <3>2. \/ ReadWitness(Instance(p).N) = Absent
          \/ Avoids(ReadWitness(Instance(p).N), Instance(p).k, Instance(p).l)
      BY <2>1 DEF FilesInv, WitnessInv, Right, ReadWitness
    <3> QED
      BY <2>4, <3>1, <3>2
  <2> QED
    BY <2>2, <2>3, <2>5, <2>6
<1> QED
  BY <1>1, <1>2, <1>3, PTL DEF Spec

-----------------------------------------------------------------------------
(* TypeOK: what is at an instance's paths is the instance's.               *)

OwnInv ==
    /\ \A i \in Instances : Own(proof[i], i)
    /\ \A i \in Instances : Readable(i) => log[i].content.instance = i
    /\ starts \in 0 .. MaxStarts /\ kills \in 0 .. MaxKills

LEMMA OwnStep ==
    ASSUME MaxStarts \in Nat, MaxKills \in Nat, Shape, SeesInv, OwnInv, [Next]_vars
    PROVE  OwnInv'
<1> USE DEF At
<1>1. ASSUME NEW p \in Procs, NEW job0 \in Jobs, Start(p, job0) PROVE OwnInv'
  <2>1. UNCHANGED <<proof, log, kills>> /\ starts < MaxStarts /\ starts' = starts + 1
    BY <1>1 DEF Start, files
  <2>2. starts' \in 0 .. MaxStarts
    BY <2>1 DEF OwnInv
  <2> QED
    BY <2>1, <2>2 DEF OwnInv, Own, Readable
<1>2. ASSUME NEW p \in Procs, Kill(p) PROVE OwnInv'
  BY <1>2 DEF Kill, files, OwnInv, Own, Readable
<1>3. ASSUME NEW p \in Procs, StartSolver(p) PROVE OwnInv'
  <2>1. Instance(p) \in Instances
    BY <1>3, HasInstance DEF StartSolver
  <2>2. \A i \in Instances : Own(proof'[i], i)
    BY <1>3, <2>1 DEF StartSolver, OwnInv, Own, Opened, Shape
  <2> QED
    BY <1>3, <2>2 DEF StartSolver, OwnInv, Own, Readable
<1>4. ASSUME NEW p \in Procs, AnswerUnsat(p) PROVE OwnInv'
  <2>1. Instance(p) \in Instances /\ proc[p].read \in {Absent, Torn, Instance(p)}
    BY <1>4, HasInstance DEF AnswerUnsat, SeesInv, Sees, Instance
  <2>2. \A i \in Instances : Own(proof'[i], i)
    <3>1. CASE proof' = proof
      BY <3>1 DEF OwnInv, Own
    <3>2. CASE \E file \in Filled([proof[Instance(p)] EXCEPT !.by = p], p, proc[p].read) :
                  proof' = [proof EXCEPT ![Instance(p)] = file]
      <4>1. PICK file \in Filled([proof[Instance(p)] EXCEPT !.by = p], p, proc[p].read) :
                   proof' = [proof EXCEPT ![Instance(p)] = file]
        BY <3>2
      <4>2. [proof[Instance(p)] EXCEPT !.by = p] \in FileOf(Bytes)
        BY <2>1 DEF Shape, FileOf
      <4>3. file.content \in {proc[p].read, Torn}
        BY <2>1, <4>1, <4>2, FilledShape DEF Bytes
      <4> QED
        BY <2>1, <4>1, <4>3 DEF OwnInv, Own, Shape
    <3> QED
      BY <1>4, <3>1, <3>2 DEF AnswerUnsat
  <2> QED
    BY <1>4, <2>2 DEF AnswerUnsat, OwnInv, Own, Readable
<1>5. ASSUME NEW p \in Procs, OpenLog(p) PROVE OwnInv'
  <2>1. Instance(p) \in Instances
    BY <1>5, HasInstance DEF OpenLog
  <2>2. \A i \in Instances : Readable(i)' => Readable(i) /\ log'[i] = log[i]
    BY <1>5, <2>1 DEF OpenLog, Opened, Readable, Shape
  <2> QED
    BY <1>5, <2>2 DEF OpenLog, OwnInv, Own
<1>6. ASSUME NEW p \in Procs, FillLog(p) PROVE OwnInv'
  <2>1. Instance(p) \in Instances /\ proc[p] \in Processes
    BY <1>6, HasInstance DEF FillLog
  <2>2. PICK file \in Filled(log[Instance(p)], p, Record(p)) :
           log' = [log EXCEPT ![Instance(p)] = file]
    BY <1>6 DEF FillLog
  <2>3. Record(p) \in Logs /\ Record(p).instance = Instance(p)
    BY <2>1 DEF Processes, Record, Verdict, Logs
  <2>4. file.content \in {Record(p), Torn}
    BY <2>1, <2>2, <2>3, FilledShape DEF Shape
  <2>5. \A i \in Instances : Readable(i)' => log'[i].content.instance = i
    BY <2>1, <2>2, <2>3, <2>4 DEF OwnInv, Readable, Shape
  <2> QED
    BY <1>6, <2>5 DEF FillLog, OwnInv, Own
<1>7. CASE UNCHANGED <<proof, log, starts, kills>>
  BY <1>7 DEF OwnInv, Own, Readable
<1> QED
  BY <1>1, <1>2, <1>3, <1>4, <1>5, <1>6, <1>7
  DEF Next, Step, OpenBody, FillBody, OpenCnf, FillCnf, Unlink, AnswerSat, NoAnswer,
      CheckStatus, HashProof, Decode, CheckModel, OpenWitness, FillWitness, vars, files

\* Body, formula, proof and run-log at an instance's paths are the instance's,
\* or torn: the parameters determine the paths, whoever writes there.
THEOREM PathsAreOwn ==
    ASSUME SentinelsApart, MaxStarts \in Nat, MaxKills \in Nat PROVE Spec => []TypeOK
<1> DEFINE Inv == Shape /\ BytesInv /\ SeesInv /\ OwnInv
<1>1. Init => Inv
  <2>1. Init => OwnInv
    BY DEF Init, NoFile, OwnInv, Own, Readable
  <2> QED
    BY <2>1, FilesInit DEF FilesInv
<1>2. Inv /\ [Next]_vars => Inv'
  BY ShapeStep, BytesStep, SeesStep, OwnStep
<1>3. Inv => TypeOK
  BY DEF Shape, BytesInv, OwnInv, Own, Processes, Bytes, Ended, Steps, TypeOK
<1> QED
  BY <1>1, <1>2, <1>3, PTL DEF Spec

-----------------------------------------------------------------------------
(* Numbers.                                                                *)

\* Every set of natural numbers has a least element.
LEMMA LeastNumber ==
    ASSUME NEW S \in SUBSET Nat, S # {}
    PROVE  \E m \in S : \A n \in S : m <= n
<1>1. IsWellFoundedOn({ss \in Nat \X Nat : ss[1] < ss[2]}, Nat)
  BY NatLessThanWellFounded DEF OpToRel
<1>2. PICK x \in S : \A y \in S : ~(<<y, x>> \in {ss \in Nat \X Nat : ss[1] < ss[2]})
  BY <1>1, WFMin
<1>3. \A y \in S : ~(y < x)
  BY <1>2
<1> QED
  BY <1>3

\* Induction, over a set.
LEMMA FromZeroUp ==
    ASSUME NEW S \in SUBSET Nat, 0 \in S, \A n \in S : n + 1 \in S
    PROVE  S = Nat
<1> SUFFICES ASSUME S # Nat PROVE FALSE
  OBVIOUS
<1>1. Nat \ S # {}
  OBVIOUS
<1>2. PICK m \in Nat \ S : \A n \in Nat \ S : m <= n
  BY <1>1, LeastNumber
<1>3. m - 1 \in Nat /\ m - 1 \in S
  BY <1>2
<1> QED
  BY <1>2, <1>3

\* Powers of two, of which the prover knows nothing but that they count the
\* subsets of a set.
LEMMA Powers ==
    ASSUME NEW n \in Nat
    PROVE  /\ 2 ^ n \in Nat \ {0}
           /\ 2 ^ (n + 1) = 2 * 2 ^ n
<1> DEFINE Low == 1 .. n
           New(T) == T \cup {n + 1}
           High == {New(T) : T \in SUBSET Low}
<1>1. /\ IsFiniteSet(Low) /\ Cardinality(Low) = n
      /\ IsFiniteSet(1 .. n + 1) /\ Cardinality(1 .. n + 1) = n + 1
  BY FS_Interval
<1>2. /\ IsFiniteSet(SUBSET Low) /\ Cardinality(SUBSET Low) = 2 ^ n
      /\ Cardinality(SUBSET (1 .. n + 1)) = 2 ^ (n + 1)
  BY <1>1, FS_SUBSET
<1>3. 2 ^ n \in Nat /\ 2 ^ n # 0
  <2>1. Cardinality(SUBSET Low) \in Nat
    BY <1>2, FS_CardinalityType
  <2>2. SUBSET Low # {}
    OBVIOUS
  <2>3. Cardinality(SUBSET Low) # 0
    BY <1>2, <2>2, FS_EmptySet
  <2> QED
    BY <1>2, <2>1, <2>3
<1>4. IsFiniteSet(High) /\ Cardinality(High) = 2 ^ n
  <2> DEFINE g == [T \in SUBSET Low |-> New(T)]
  <2>1. \A T, U \in SUBSET Low : New(T) = New(U) => T = U
    <3> SUFFICES ASSUME NEW T \in SUBSET Low, NEW U \in SUBSET Low, New(T) = New(U)
                 PROVE  T = U
      OBVIOUS
    <3>1. n + 1 \notin T /\ n + 1 \notin U
      OBVIOUS
    <3>2. T = New(T) \ {n + 1} /\ U = New(U) \ {n + 1}
      BY <3>1
    <3> QED
      BY <3>2
  <2>2. /\ g \in [SUBSET Low -> High]
        /\ \A T, U \in SUBSET Low : g[T] = g[U] => T = U
        /\ \A V \in High : \E T \in SUBSET Low : g[T] = V
    <3>1. \A T \in SUBSET Low : g[T] = New(T) /\ New(T) \in High
      OBVIOUS
    <3>2. \A V \in High : \E T \in SUBSET Low : V = New(T)
      OBVIOUS
    <3>3. g \in [SUBSET Low -> High]
      OBVIOUS
    <3> HIDE DEF g, High, Low, New
    <3> QED
      BY <2>1, <3>1, <3>2, <3>3
  <2> HIDE DEF g, High, Low, New
  <2>3. g \in Injection(SUBSET Low, High) /\ g \in Surjection(SUBSET Low, High)
    BY <2>2 DEF Injection, IsInjective, Surjection
  <2>4. ExistsBijection(SUBSET Low, High)
    BY <2>3 DEF ExistsBijection, Bijection
  <2> QED
    BY <1>2, <2>4, FS_Bijection
<1>5. SUBSET (1 .. n + 1) = (SUBSET Low) \cup High
  <2>1. ASSUME NEW T \in SUBSET (1 .. n + 1), n + 1 \in T PROVE T \in High
    <3>1. T \ {n + 1} \in SUBSET Low /\ T = New(T \ {n + 1})
      BY <2>1
    <3> QED
      BY <3>1
  <2>2. ASSUME NEW T \in SUBSET (1 .. n + 1), n + 1 \notin T PROVE T \in SUBSET Low
    BY <2>2
  <2>3. SUBSET Low \subseteq SUBSET (1 .. n + 1)
    OBVIOUS
  <2>4. High \subseteq SUBSET (1 .. n + 1)
    <3>1. \A T \in SUBSET Low : New(T) \in SUBSET (1 .. n + 1)
      OBVIOUS
    <3> QED
      BY <3>1
  <2> QED
    BY <2>1, <2>2, <2>3, <2>4
<1>6. (SUBSET Low) \cap High = {}
  <2>1. \A T \in SUBSET Low : n + 1 \notin T
    OBVIOUS
  <2>2. \A T \in High : n + 1 \in T
    OBVIOUS
  <2> QED
    BY <2>1, <2>2
<1>7. Cardinality(SUBSET (1 .. n + 1)) = 2 ^ n + 2 ^ n
  <2> HIDE DEF High, Low
  <2>1. Cardinality((SUBSET Low) \cup High)
          = Cardinality(SUBSET Low) + Cardinality(High)
              - Cardinality((SUBSET Low) \cap High)
    BY <1>2, <1>4, FS_Union
  <2>2. Cardinality((SUBSET Low) \cap High) = 0
    BY <1>6, FS_EmptySet
  <2>3. Cardinality(SUBSET (1 .. n + 1)) = Cardinality((SUBSET Low) \cup High)
    BY <1>5
  <2>4. Cardinality(SUBSET Low) = 2 ^ n /\ Cardinality(High) = 2 ^ n
    BY <1>2, <1>4
  <2> QED
    BY <1>3, <2>1, <2>2, <2>3, <2>4
<1> QED
  BY <1>2, <1>3, <1>7

\* A quotient is told by its product and a remainder.
LEMMA Quotient ==
    ASSUME NEW p \in Nat \ {0}, NEW q \in Nat, NEW r \in 0 .. p - 1
    PROVE  (q * p + r) \div p = q
OBVIOUS

\* Half an index has the bits of the index, one place down.
LEMMA Halving ==
    ASSUME NEW p \in Nat \ {0}, NEW h \in Nat, NEW e \in {0, 1}
    PROVE  (2 * h + e) \div (2 * p) = h \div p
<1> DEFINE q == h \div p
           r == h % p
<1>1. q \in Nat /\ r \in 0 .. p - 1 /\ h = q * p + r
  OBVIOUS
<1> HIDE DEF q, r
<1>2. 2 * p \in Nat \ {0} /\ 2 * r + e \in 0 .. 2 * p - 1
  BY <1>1
<1>3. 2 * h + e = q * (2 * p) + (2 * r + e)
  BY <1>1
<1>4. (q * (2 * p) + (2 * r + e)) \div (2 * p) = q
  BY <1>1, <1>2, Quotient
<1> QED
  BY <1>3, <1>4 DEF q

\* Bits of an index, from the lowest, which has number one.
LEMMA LowBit ==
    ASSUME NEW h \in Nat, NEW e \in {0, 1}, NEW n
    PROVE  Layout!Bit(2 * h + e, 1, n) <=> e = 1
<1>1. 2 ^ (1 - 1) = 1
  OBVIOUS
<1>2. (2 * h + e) \div 1 = 2 * h + e /\ (2 * h + e) % 2 = e
  OBVIOUS
<1> QED
  BY <1>1, <1>2 DEF Layout!Bit

LEMMA HighBits ==
    ASSUME NEW h \in Nat, NEW e \in {0, 1}, NEW j \in Nat \ {0}, NEW n, NEW m
    PROVE  Layout!Bit(2 * h + e, j + 1, n) <=> Layout!Bit(h, j, m)
<1>1. 2 ^ (j - 1) \in Nat \ {0} /\ 2 ^ ((j - 1) + 1) = 2 * 2 ^ (j - 1)
  BY Powers
<1>2. (j - 1) + 1 = (j + 1) - 1
  OBVIOUS
<1>3. (2 * h + e) \div (2 * 2 ^ (j - 1)) = h \div 2 ^ (j - 1)
  BY <1>1, Halving
<1> QED
  BY <1>1, <1>2, <1>3 DEF Layout!Bit

\* Exactly one index below 2^n has given bits.
Patterned(n, index, bits) == \A j \in 1 .. n : Layout!Bit(index, j, n) <=> j \in bits

OnePattern(n) ==
    \A bits \in SUBSET (1 .. n) :
        \E i \in 0 .. 2 ^ n - 1 : \A index \in 0 .. 2 ^ n - 1 :
            Patterned(n, index, bits) <=> index = i

LEMMA OneIndex == \A n \in Nat : OnePattern(n)
<1>1. OnePattern(0)
  BY DEF OnePattern, Patterned
<1>2. ASSUME NEW n \in Nat, OnePattern(n) PROVE OnePattern(n + 1)
  <2> SUFFICES ASSUME NEW bits \in SUBSET (1 .. n + 1)
               PROVE  \E i \in 0 .. 2 ^ (n + 1) - 1 : \A index \in 0 .. 2 ^ (n + 1) - 1 :
                          Patterned(n + 1, index, bits) <=> index = i
    BY DEF OnePattern
  <2> DEFINE p == 2 ^ n
             upper == {j \in 1 .. n : j + 1 \in bits}
             low == IF 1 \in bits THEN 1 ELSE 0
  <2>1. p \in Nat \ {0} /\ 2 ^ (n + 1) = 2 * p
    BY Powers
  <2>2. PICK h \in 0 .. p - 1 : \A index \in 0 .. p - 1 :
            Patterned(n, index, upper) <=> index = h
    <3>1. upper \in SUBSET (1 .. n)
      OBVIOUS
    <3> HIDE DEF upper
    <3> QED
      BY <1>2, <3>1 DEF OnePattern
  <2>3. ASSUME NEW g \in Nat, NEW e \in {0, 1}
        PROVE  Patterned(n + 1, 2 * g + e, bits) <=> Patterned(n, g, upper) /\ e = low
    <3>1. Layout!Bit(2 * g + e, 1, n + 1) <=> e = 1
      BY <2>3, LowBit
    <3>2. \A j \in 1 .. n : Layout!Bit(2 * g + e, j + 1, n + 1) <=> Layout!Bit(g, j, n)
      BY <2>3, HighBits
    <3>3. /\ \A j \in 1 .. n : j + 1 \in 1 .. n + 1 /\ (j \in upper <=> j + 1 \in bits)
          /\ \A j \in 1 .. n + 1 : j = 1 \/ (j - 1 \in 1 .. n /\ j = (j - 1) + 1)
          /\ 1 \in 1 .. n + 1
      OBVIOUS
    <3>4. Patterned(n + 1, 2 * g + e, bits) => Patterned(n, g, upper) /\ e = low
      BY <3>1, <3>2, <3>3 DEF Patterned
    <3>5. Patterned(n, g, upper) /\ e = low => Patterned(n + 1, 2 * g + e, bits)
      <4> HIDE DEF upper
      <4> SUFFICES ASSUME Patterned(n, g, upper), e = low, NEW j \in 1 .. n + 1
                   PROVE  Layout!Bit(2 * g + e, j, n + 1) <=> j \in bits
        BY DEF Patterned
      <4>1. CASE j = 1
        BY <3>1, <4>1
      <4>2. CASE j # 1
        BY <3>2, <3>3, <4>2 DEF Patterned
      <4> QED
        BY <4>1, <4>2
    <3> QED
      BY <3>4, <3>5
  <2> HIDE DEF p, upper, low
  <2>4. low \in {0, 1}
    BY DEF low
  <2>7. ASSUME NEW g \in 0 .. p - 1, NEW e \in {0, 1}
        PROVE  Patterned(n + 1, 2 * g + e, bits) <=> g = h /\ e = low
    <3>1. g \in Nat
      BY <2>1
    <3>2. Patterned(n + 1, 2 * g + e, bits) <=> Patterned(n, g, upper) /\ e = low
      BY <2>3, <3>1
    <3>3. Patterned(n, g, upper) <=> g = h
      BY <2>2
    <3> QED
      BY <3>2, <3>3
  <2>5. 2 * h + low \in 0 .. 2 * p - 1
    BY <2>1, <2>2, <2>4
  <2>6. ASSUME NEW index \in 0 .. 2 * p - 1
        PROVE  Patterned(n + 1, index, bits) <=> index = 2 * h + low
    <3>1. PICK g \in 0 .. p - 1, e \in {0, 1} : index = 2 * g + e
      <4>1. index \div 2 \in 0 .. p - 1 /\ index % 2 \in {0, 1}
            /\ index = 2 * (index \div 2) + (index % 2)
        BY <2>1
      <4> QED
        BY <4>1
    <3>2. Patterned(n + 1, index, bits) <=> g = h /\ e = low
      BY <2>7, <3>1
    <3>3. index = 2 * h + low <=> g = h /\ e = low
      BY <2>1, <2>2, <2>4, <3>1
    <3> QED
      BY <3>2, <3>3
  <2> QED
    BY <2>1, <2>5, <2>6
<1> DEFINE S == {n \in Nat : OnePattern(n)}
<1>3. S \in SUBSET Nat /\ 0 \in S /\ \A n \in S : n + 1 \in S
  BY <1>1, <1>2
<1>4. S = Nat
  <2> HIDE DEF S
  <2> QED
    BY <1>3, FromZeroUp
<1> QED
  BY <1>4

-----------------------------------------------------------------------------
(* Splits.                                                                 *)

Increasing(s, n) == \A i, j \in 1 .. n : i < j => s[i] < s[j]

Injects(r, n) == \A i, j \in 1 .. n : r[i] = r[j] => i = j

Sortable(n) ==
    \A r \in [1 .. n -> Nat] :
        Injects(r, n) => \E s \in [1 .. n -> {r[i] : i \in 1 .. n}] : Increasing(s, n)

\* What does not repeat can be sorted.
LEMMA Sorting == \A n \in Nat : Sortable(n)
<1>1. Sortable(0)
  <2> SUFFICES ASSUME NEW r \in [1 .. 0 -> Nat]
               PROVE  \E s \in [1 .. 0 -> {r[i] : i \in 1 .. 0}] : Increasing(s, 0)
    BY DEF Sortable
  <2>1. [i \in 1 .. 0 |-> 0] \in [1 .. 0 -> {r[i] : i \in 1 .. 0}]
    OBVIOUS
  <2>2. Increasing([i \in 1 .. 0 |-> 0], 0)
    BY DEF Increasing
  <2> QED
    BY <2>1, <2>2
<1>2. ASSUME NEW n \in Nat, Sortable(n) PROVE Sortable(n + 1)
  <2> SUFFICES ASSUME NEW r \in [1 .. n + 1 -> Nat], Injects(r, n + 1)
               PROVE  \E s \in [1 .. n + 1 -> {r[i] : i \in 1 .. n + 1}] :
                          Increasing(s, n + 1)
    BY DEF Sortable
  <2> DEFINE S == {r[i] : i \in 1 .. n + 1}
  <2>1. S \in SUBSET Nat /\ r[1] \in S
    OBVIOUS
  <2>2. PICK m \in S : \A x \in S : m <= x
    BY <2>1, LeastNumber
  <2>3. PICK k \in 1 .. n + 1 : r[k] = m
    BY <2>2
  <2> DEFINE q == [i \in 1 .. n |-> IF i < k THEN r[i] ELSE r[i + 1]]
             T == {q[i] : i \in 1 .. n}
  <2>4. q \in [1 .. n -> Nat]
    OBVIOUS
  <2>5. Injects(q, n)
    BY DEF Injects
  <2>6. T \subseteq S /\ \A x \in T : m < x
    <3>1. ASSUME NEW i \in 1 .. n PROVE q[i] \in S /\ q[i] # m
      BY <2>3 DEF Injects
    <3>2. m \in Nat /\ \A x \in S : x # m => m < x
      <4> HIDE DEF S
      <4> QED
        BY <2>1, <2>2
    <3> HIDE DEF S, q
    <3> QED
      BY <3>1, <3>2
  <2>7. PICK u \in [1 .. n -> T] : Increasing(u, n)
    BY <1>2, <2>4, <2>5 DEF Sortable
  <2> DEFINE s == [i \in 1 .. n + 1 |-> IF i = 1 THEN m ELSE u[i - 1]]
  <2> HIDE DEF S, T, q
  <2>8. s \in [1 .. n + 1 -> S]
    BY <2>2, <2>6, <2>7
  <2>9. Increasing(s, n + 1)
    <3> SUFFICES ASSUME NEW i \in 1 .. n + 1, NEW j \in 1 .. n + 1, i < j PROVE s[i] < s[j]
      BY DEF Increasing
    <3>1. j - 1 \in 1 .. n /\ s[j] = u[j - 1] /\ u[j - 1] \in T
      BY <2>7
    <3>2. CASE i = 1
      BY <2>6, <3>1, <3>2
    <3>3. CASE i # 1
      BY <2>7, <3>1, <3>3 DEF Increasing
    <3> QED
      BY <3>2, <3>3
  <2> QED
    BY <2>8, <2>9 DEF S
<1> DEFINE S == {n \in Nat : Sortable(n)}
<1>3. S \in SUBSET Nat /\ 0 \in S /\ \A n \in S : n + 1 \in S
  BY <1>1, <1>2
<1>4. S = Nat
  <2> HIDE DEF S
  <2> QED
    BY <1>3, FromZeroUp
<1> QED
  BY <1>4

\* gen's split is as long as asked for and of distinct main variables.
LEMMA Splits ==
    ASSUME NEW depth \in 1 .. N
    PROVE  LET split == Layout!SplitOf(depth) IN
           /\ split \in [1 .. depth -> 1 .. N] /\ split \in Seq(1 .. N)
           /\ Len(split) = depth /\ DOMAIN split = 1 .. depth
           /\ \A i, j \in 1 .. depth : split[i] = split[j] => i = j
<1> DEFINE r == [i \in 1 .. depth |-> Ranking[i]]
           S == {r[i] : i \in 1 .. depth}
           split == Layout!SplitOf(depth)
<1>1. /\ N \in Nat /\ depth \in Nat
      /\ r \in [1 .. depth -> 1 .. N] /\ r \in [1 .. depth -> Nat]
  BY LayoutAssumption DEF Layout!SetupAssumption
<1>2. Injects(r, depth)
  BY LayoutAssumption DEF Layout!SetupAssumption, Injects
<1>3. \E s \in [1 .. depth -> S] : Increasing(s, depth)
  BY <1>1, <1>2, Sorting DEF Sortable
<1>4. S = {Ranking[i] : i \in 1 .. depth} /\ S \subseteq 1 .. N
  BY <1>1
<1> HIDE DEF S
<1>5. split = CHOOSE s \in [1 .. depth -> S] : \A i, j \in 1 .. depth : i < j => s[i] < s[j]
  BY <1>4 DEF Layout!SplitOf
<1>6. split \in [1 .. depth -> S] /\ Increasing(split, depth)
  BY <1>3, <1>5 DEF Increasing
<1> HIDE DEF split
<1>7. split \in [1 .. depth -> 1 .. N]
  BY <1>4, <1>6
<1>8. split \in Seq(1 .. N) /\ Len(split) = depth /\ DOMAIN split = 1 .. depth
  BY <1>1, <1>7
<1>9. ASSUME NEW i \in 1 .. depth, NEW j \in 1 .. depth, split[i] = split[j] PROVE i = j
  <2>1. split[i] \in Int /\ split[j] \in Int
    BY <1>7
  <2> QED
    BY <1>1, <1>6, <1>9, <2>1 DEF Increasing
<1> QED
  BY <1>7, <1>8, <1>9 DEF split

-----------------------------------------------------------------------------
(* Rows and cubes.                                                         *)

\* A row makes positive the variables of its cube.
LEMMA RowOfCube ==
    ASSUME NEW depth \in 1 .. N, NEW index \in 0 .. 2 ^ depth - 1
    PROVE  Layout!Literals(Layout!Row(Layout!SplitOf(depth), index))
             = Layout!CubeLiterals(Layout!SplitOf(depth),
                                   Layout!IndexSet(Layout!SplitOf(depth), index))
<1> DEFINE split == Layout!SplitOf(depth)
<1>1. /\ split \in [1 .. depth -> 1 .. N] /\ DOMAIN split = 1 .. depth
      /\ \A i, j \in 1 .. depth : split[i] = split[j] => i = j
  BY Splits
<1> HIDE DEF split
<1> DEFINE B(j) == (index \div 2 ^ (j - 1)) % 2 = 1
<1>2. \A j \in 1 .. depth :
          Layout!Row(split, index)[j] = IF B(j) THEN split[j] ELSE -split[j]
  BY <1>1 DEF Layout!Row, Layout!Bit
<1>3. DOMAIN Layout!Row(split, index) = 1 .. depth
  BY <1>1 DEF Layout!Row
<1>4. Layout!IndexSet(split, index) = {split[j] : j \in {j \in 1 .. depth : B(j)}}
  BY <1>1 DEF Layout!IndexSet
<1> HIDE DEF B
<1>5. Layout!Literals(Layout!Row(split, index))
        = {IF B(j) THEN split[j] ELSE -split[j] : j \in 1 .. depth}
  BY <1>2, <1>3 DEF Layout!Literals
<1>6. Layout!Vars(split) \ Layout!IndexSet(split, index)
        = {split[j] : j \in {j \in 1 .. depth : ~B(j)}}
  <2>1. Layout!Vars(split) = {split[j] : j \in 1 .. depth}
    BY <1>1 DEF Layout!Vars
  <2> QED
    BY <1>1, <1>4, <2>1
<1>7. Layout!CubeLiterals(split, Layout!IndexSet(split, index))
        = {split[j] : j \in {j \in 1 .. depth : B(j)}}
            \cup {-split[j] : j \in {j \in 1 .. depth : ~B(j)}}
  <2>1. {-v : v \in {split[j] : j \in {j \in 1 .. depth : ~B(j)}}}
          = {-split[j] : j \in {j \in 1 .. depth : ~B(j)}}
    OBVIOUS
  <2> QED
    BY <1>4, <1>6, <2>1 DEF Layout!CubeLiterals
<1>8. {IF B(j) THEN split[j] ELSE -split[j] : j \in 1 .. depth}
        = {split[j] : j \in {j \in 1 .. depth : B(j)}}
            \cup {-split[j] : j \in {j \in 1 .. depth : ~B(j)}}
  OBVIOUS
<1> QED
  BY <1>5, <1>7, <1>8 DEF split

\* A coloring makes a row's literals true if its positive split variables are
\* those of the row's bits.
LEMMA RowHolds ==
    ASSUME NEW depth \in 1 .. N, NEW index \in 0 .. 2 ^ depth - 1,
           NEW f \in [1 .. N -> {1, -1}]
    PROVE  Layout!Holds(f, Layout!Literals(Layout!Row(Layout!SplitOf(depth), index)))
             <=> Patterned(depth, index,
                           {j \in 1 .. depth : f[Layout!SplitOf(depth)[j]] = 1})
<1> DEFINE split == Layout!SplitOf(depth)
           row == Layout!Row(split, index)
<1>1. N \in Nat
  BY LayoutAssumption DEF Layout!SetupAssumption
<1>2. /\ split \in [1 .. depth -> 1 .. N]
      /\ Len(split) = depth /\ DOMAIN split = 1 .. depth
      /\ \A i, j \in 1 .. depth : split[i] = split[j] => i = j
  BY Splits
<1> HIDE DEF split
<1>3. /\ DOMAIN row = 1 .. depth
      /\ \A j \in 1 .. depth :
            row[j] = IF Layout!Bit(index, j, depth) THEN split[j] ELSE -split[j]
  BY <1>2 DEF Layout!Row
<1> HIDE DEF row
<1>4. ASSUME NEW j \in 1 .. depth, Layout!Holds(f, Layout!Literals(row))
      PROVE  Layout!Bit(index, j, depth) <=> f[split[j]] = 1
  <2>1. split[j] \in 1 .. N /\ row[j] \in Layout!Literals(row)
    BY <1>2, <1>3 DEF Layout!Literals
  <2>2. CASE Layout!Bit(index, j, depth)
    BY <1>3, <1>4, <2>1, <2>2 DEF Layout!Holds
  <2>3. CASE ~Layout!Bit(index, j, depth)
    <3>1. -split[j] \in Layout!Literals(row)
      BY <1>3, <2>1, <2>3
    <3>2. f[split[j]] = -1
      BY <1>4, <2>1, <3>1 DEF Layout!Holds
    <3> QED
      BY <2>3, <3>2
  <2> QED
    BY <2>2, <2>3
<1>5. ASSUME \A j \in 1 .. depth : Layout!Bit(index, j, depth) <=> f[split[j]] = 1
      PROVE  Layout!Holds(f, Layout!Literals(row))
  <2>1. ASSUME NEW v \in 1 .. N, v \in Layout!Literals(row) PROVE f[v] = 1
    <3>1. PICK j \in 1 .. depth : v = row[j]
      BY <1>3, <2>1 DEF Layout!Literals
    <3>2. split[j] \in 1 .. N
      BY <1>2
    <3>3. Layout!Bit(index, j, depth) /\ v = split[j]
      BY <1>1, <1>3, <3>1, <3>2
    <3> QED
      BY <1>5, <3>3
  <2>2. ASSUME NEW v \in 1 .. N, -v \in Layout!Literals(row) PROVE f[v] = -1
    <3>1. PICK j \in 1 .. depth : -v = row[j]
      BY <1>3, <2>2 DEF Layout!Literals
    <3>2. split[j] \in 1 .. N
      BY <1>2
    <3>3. ~Layout!Bit(index, j, depth) /\ v = split[j]
      BY <1>1, <1>3, <3>1, <3>2
    <3>4. f[v] # 1
      BY <1>5, <3>3
    <3> QED
      BY <3>4
  <2> QED
    BY <2>1, <2>2 DEF Layout!Holds
<1> QED
  BY <1>4, <1>5 DEF Patterned, row, split

\* What RowsAreCubes says, of the rows that a finished cube file holds.
LEMMA RowsPartition ==
    ASSUME NEW depth \in 1 .. N
    PROVE  LET split == Layout!SplitOf(depth)  rows == Layout!Rows(Layout!SplitOf(depth)) IN
           /\ \A i \in 0 .. 2 ^ depth - 1 :
                 Layout!Literals(rows[i + 1])
                   = Layout!CubeLiterals(split, Layout!IndexSet(split, i))
           /\ \A f \in [1 .. N -> {1, -1}] :
                 \E i \in DOMAIN rows : \A j \in DOMAIN rows :
                     Layout!Holds(f, Layout!Literals(rows[j])) <=> j = i
<1> DEFINE split == Layout!SplitOf(depth)
           rows == Layout!Rows(split)
<1>1. N \in Nat /\ depth \in Nat
  BY LayoutAssumption DEF Layout!SetupAssumption
<1>2. 2 ^ depth \in Nat
  BY <1>1, Powers
<1>3. Len(split) = depth
  BY Splits
<1>4. /\ DOMAIN rows = 1 .. 2 ^ depth
      /\ \A n \in 1 .. 2 ^ depth : rows[n] = Layout!Row(split, n - 1)
  BY <1>3 DEF Layout!Rows
<1> HIDE DEF rows
<1>5. ASSUME NEW i \in 0 .. 2 ^ depth - 1
      PROVE  Layout!Literals(rows[i + 1])
               = Layout!CubeLiterals(split, Layout!IndexSet(split, i))
  <2>1. i + 1 \in 1 .. 2 ^ depth /\ (i + 1) - 1 = i
    BY <1>2
  <2>2. rows[i + 1] = Layout!Row(split, i)
    BY <1>4, <2>1
  <2> QED
    BY <2>2, RowOfCube
<1>6. ASSUME NEW f \in [1 .. N -> {1, -1}]
      PROVE  \E i \in DOMAIN rows : \A j \in DOMAIN rows :
                 Layout!Holds(f, Layout!Literals(rows[j])) <=> j = i
  <2> DEFINE bits == {j \in 1 .. depth : f[split[j]] = 1}
  <2>1. bits \in SUBSET (1 .. depth)
    OBVIOUS
  <2>2. \A index \in 0 .. 2 ^ depth - 1 :
            Layout!Holds(f, Layout!Literals(Layout!Row(split, index)))
              <=> Patterned(depth, index, bits)
    BY RowHolds
  <2> HIDE DEF bits
  <2>3. PICK i \in 0 .. 2 ^ depth - 1 : \A index \in 0 .. 2 ^ depth - 1 :
            Patterned(depth, index, bits) <=> index = i
    BY <1>1, <2>1, OneIndex DEF OnePattern
  <2>4. i + 1 \in 1 .. 2 ^ depth
    BY <1>2
  <2>5. ASSUME NEW j \in 1 .. 2 ^ depth
        PROVE  Layout!Holds(f, Layout!Literals(rows[j])) <=> j = i + 1
    <3>1. j - 1 \in 0 .. 2 ^ depth - 1 /\ rows[j] = Layout!Row(split, j - 1)
      BY <1>2, <1>4
    <3>2. Layout!Holds(f, Layout!Literals(rows[j])) <=> j - 1 = i
      BY <2>2, <2>3, <3>1
    <3> QED
      BY <1>2, <3>2
  <2>6. i + 1 \in DOMAIN rows
    BY <1>4, <2>4
  <2>7. \A j \in DOMAIN rows : Layout!Holds(f, Layout!Literals(rows[j])) <=> j = i + 1
    BY <1>4, <2>5
  <2> QED
    BY <2>6, <2>7
<1> QED
  BY <1>5, <1>6 DEF rows, split

-----------------------------------------------------------------------------
(* The directory.                                                          *)

\* What a program records of its encoder and depth.
Describes(m, writer, depth) ==
    /\ DOMAIN m = {"shape", "N", "k", "l", "encoder", "symmetryBreak", "base", "split",
                   "nCubes", "cubes", "construction"}
    /\ m.N = N /\ m.k = 0 /\ m.l = 0
    /\ m.encoder = writer /\ m.symmetryBreak = TRUE /\ m.base = Layout!BaseOf(writer)
    /\ m.split = Layout!SplitOf(depth) /\ m.nCubes = 2 ^ depth

\* A manifest is not the mark of an absent one.
ManifestsShow == \A m, writer, depth : Describes(m, writer, depth) => m # Absent

\* A manifest cut short, and one with the second notation recorded, are of the
\* same encoder and depth.
LEMMA StillDescribes ==
    ASSUME NEW m, NEW writer, NEW depth, Describes(m, writer, depth), NEW listed
    PROVE  /\ Describes([m EXCEPT !.shape = FALSE], writer, depth)
           /\ LET new == [m EXCEPT !.cubes = listed,
                                   !.construction = Layout!Construction] IN
              /\ Describes(new, writer, depth)
              /\ new.shape = m.shape /\ new.cubes = listed
              /\ new.construction = Layout!Construction
BY DEF Describes

Writers == Encoders \cup {"seqcount"}

Phases ==
    {"idle", "base", "fill base", "cubes", "fill cubes", "meta", "open manifest",
     "fill manifest", "icnf", "fill icnf", "load", "reopen manifest", "refill manifest",
     "exit 0", "exit 2", "killed"}

Rested == {"idle", "exit 0", "exit 2"}

\* What a program knows of what it was asked.
AskedInv ==
    /\ setup = [pc |-> setup.pc, encoder |-> setup.encoder, depth |-> setup.depth,
                verified |-> setup.verified, next |-> setup.next]
    /\ setup.pc \in Phases
    /\ setup.pc # "idle" => setup.encoder \in Writers /\ setup.depth \in 1 .. N
    /\ setup.verified \in BOOLEAN
    /\ setup.verified => setup.encoder = "seqcount" /\ setup.depth = VerifiedDepth
    /\ setup.pc = "idle" => manifest = Absent /\ ~setup.verified

DirectoryInv ==
    /\ base \in {Absent, Torn} \cup {Layout!BaseOf(e) : e \in Writers}
    /\ cubes = [icnf |-> cubes.icnf, rows |-> cubes.rows]
    /\ cubes.icnf \in BOOLEAN
    /\ setup.pc \in {"meta", "load"} =>
          cubes.rows = Layout!Rows(Layout!SplitOf(setup.depth))
    /\ manifest # Absent => manifest.N = N /\ (manifest.shape \/ setup.pc \notin Rested)

\* A whole manifest that lists the cube file beside it.
Listed(m, writer, depth) ==
    /\ Describes(m, writer, depth)
    /\ m.shape = TRUE /\ m.cubes = Layout!CubesHash /\ m.construction = Layout!Construction

\* The manifest in hand is of the split that was asked for, and the second one
\* that gen_seqcount_verified.py writes lists the file beside it; both it has
\* compared when it ends with 0.
HandInv ==
    /\ setup.pc \in {"open manifest", "fill manifest", "icnf", "fill icnf", "load"} =>
          Describes(setup.next, setup.encoder, setup.depth) /\ setup.next.shape = TRUE
    /\ setup.pc \in {"icnf", "fill icnf", "load"} => setup.verified /\ manifest = setup.next
    /\ setup.pc \in {"reopen manifest", "refill manifest"} =>
          /\ setup.verified
          /\ Listed(setup.next, setup.encoder, setup.depth)
    /\ setup.pc = "exit 0" /\ setup.verified =>
          /\ Listed(manifest, "seqcount", VerifiedDepth)
          /\ base = Layout!BaseOf("seqcount")
          /\ Layout!CubesHash = Layout!CubeSet(Layout!SplitOf(VerifiedDepth))

\* A verdict is true of its literals, whatever cube file they were read from.
VerdictsInv ==
    \A i \in DOMAIN verdicts : verdicts[i] # Absent =>
        /\ verdicts[i].rc \in {10, 20}
        /\ verdicts[i].rc = 20 =>
              \A f \in Solutions : ~Layout!Holds(f, verdicts[i].literals)

SetupInv ==
    AskedInv /\ DirectoryInv /\ HandInv /\ VerdictsInv /\ setupKills \in 0 .. LayoutKills

\* A step of a program that names the next: what it was asked stays.
LEMMA Going ==
    ASSUME AskedInv, NEW to \in Phases \ {"idle"}, Layout!Goto(to), setup.pc # "idle"
    PROVE  /\ AskedInv'
           /\ setup'.pc = to /\ setup'.encoder = setup.encoder /\ setup'.depth = setup.depth
           /\ setup'.verified = setup.verified /\ setup'.next = setup.next
BY DEF AskedInv, Layout!Goto

LEMMA StartKeeps ==
    ASSUME SetupInv, NEW writer \in Writers, NEW depth \in 1 .. N, NEW check \in BOOLEAN,
           check => writer = "seqcount" /\ depth = VerifiedDepth,
           Layout!Begin(writer, depth, check)
    PROVE  SetupInv'
<1>1. setup' = [pc |-> "base", encoder |-> writer, depth |-> depth, verified |-> check,
                next |-> Absent]
  BY DEF Layout!Begin, Layout!NoSetup
<1>2. AskedInv'
  BY <1>1 DEF AskedInv, Phases
<1>3. DirectoryInv'
  BY <1>1 DEF SetupInv, DirectoryInv, Layout!Begin, Rested
<1>4. HandInv'
  BY <1>1 DEF HandInv
<1> QED
  BY <1>2, <1>3, <1>4 DEF SetupInv, VerdictsInv, Layout!Begin

LEMMA WriteKeeps ==
    ASSUME SetupInv,
           \/ Layout!OpenBase \/ Layout!FillBase \/ Layout!OpenCubes \/ Layout!FillCubes
    PROVE  SetupInv'
<1>1. PICK to \in {"fill base", "cubes", "fill cubes", "fill icnf", "load", "meta"} :
          /\ Layout!Goto(to)
          /\ to = "fill icnf" => setup.pc = "icnf"
          /\ to = "load" => setup.pc = "fill icnf"
          /\ to \in {"meta", "load"} => Layout!FillCubes
  BY DEF Layout!OpenBase, Layout!FillBase, Layout!OpenCubes, Layout!FillCubes
<1>2. setup.pc # "idle"
  BY DEF Layout!OpenBase, Layout!FillBase, Layout!OpenCubes, Layout!FillCubes
<1>3. /\ AskedInv'
      /\ setup'.pc = to /\ setup'.encoder = setup.encoder /\ setup'.depth = setup.depth
      /\ setup'.verified = setup.verified /\ setup'.next = setup.next
  BY <1>1, <1>2, Going DEF SetupInv, Phases
<1>4. DirectoryInv'
  <2>1. base' \in {Absent, Torn} \cup {Layout!BaseOf(e) : e \in Writers}
    BY <1>2
    DEF SetupInv, AskedInv, DirectoryInv, Layout!OpenBase, Layout!FillBase,
        Layout!OpenCubes, Layout!FillCubes
  <2>2. /\ cubes' = [icnf |-> cubes'.icnf, rows |-> cubes'.rows]
        /\ cubes'.icnf \in BOOLEAN
    <3>1. CASE Layout!OpenBase \/ Layout!FillBase
      BY <3>1 DEF SetupInv, DirectoryInv, Layout!OpenBase, Layout!FillBase
    <3>2. CASE Layout!OpenCubes
      <4>1. PICK rows : cubes' = [icnf |-> setup.pc = "icnf", rows |-> rows]
        BY <3>2 DEF Layout!OpenCubes
      <4>2. (setup.pc = "icnf") \in BOOLEAN
        OBVIOUS
      <4> QED
        BY <4>1, <4>2, Zenon
    <3>3. CASE Layout!FillCubes
      BY <3>3 DEF SetupInv, DirectoryInv, Layout!FillCubes
    <3> QED
      BY <3>1, <3>2, <3>3
  <2>3. to \in {"meta", "load"} => cubes'.rows = Layout!Rows(Layout!SplitOf(setup.depth))
    BY <1>1 DEF Layout!FillCubes, SetupInv, DirectoryInv
  <2>4. manifest' = manifest
    BY DEF Layout!OpenBase, Layout!FillBase, Layout!OpenCubes, Layout!FillCubes
  <2> QED
    BY <1>3, <2>1, <2>2, <2>3, <2>4 DEF SetupInv, DirectoryInv, Rested
<1>5. HandInv'
  <2>1. manifest' = manifest
    BY DEF Layout!OpenBase, Layout!FillBase, Layout!OpenCubes, Layout!FillCubes
  <2> QED
    BY <1>1, <1>3, <2>1 DEF SetupInv, HandInv
<1>6. verdicts' = verdicts /\ setupKills' = setupKills
  BY DEF Layout!OpenBase, Layout!FillBase, Layout!OpenCubes, Layout!FillCubes
<1> QED
  BY <1>3, <1>4, <1>5, <1>6 DEF SetupInv, VerdictsInv

LEMMA ManifestKeeps ==
    ASSUME SetupInv,
           \/ Layout!Meta \/ Layout!OpenManifest \/ Layout!FillManifest
           \/ Layout!Load \/ Layout!RefillManifest
    PROVE  SetupInv'
<1>1. /\ base' = base /\ cubes' = cubes /\ verdicts' = verdicts /\ setupKills' = setupKills
  BY DEF Layout!Meta, Layout!OpenManifest, Layout!FillManifest, Layout!Load,
         Layout!RefillManifest
<1>2. Layout!CubesHash' = Layout!CubesHash
  BY <1>1 DEF Layout!CubesHash
<1>3. CASE Layout!Meta
  <2>1. PICK made :
            /\ setup' = [pc |-> "open manifest", encoder |-> setup.encoder,
                         depth |-> setup.depth, verified |-> setup.verified, next |-> made]
            /\ Describes(made, setup.encoder, setup.depth) /\ made.shape = TRUE
    <3> DEFINE made == setup'.next
    <3>1. made = [shape |-> TRUE, N |-> N, k |-> 0, l |-> 0,
                  encoder |-> setup.encoder, symmetryBreak |-> TRUE,
                  base |-> Layout!BaseOf(setup.encoder),
                  split |-> Layout!SplitOf(setup.depth),
                  nCubes |-> 2 ^ setup.depth, cubes |-> Layout!CubesHash,
                  construction |-> "all sign patterns"]
      BY <1>3 DEF Layout!Meta, SetupInv, AskedInv
    <3>2. Describes(made, setup.encoder, setup.depth) /\ made.shape = TRUE
      <4> HIDE DEF made
      <4> QED
        BY <3>1 DEF Describes
    <3>3. setup' = [pc |-> "open manifest", encoder |-> setup.encoder,
                    depth |-> setup.depth, verified |-> setup.verified, next |-> made]
      BY <1>3 DEF Layout!Meta, SetupInv, AskedInv
    <3> QED
      BY <3>2, <3>3
  <2>2. manifest' = manifest /\ setup.pc = "meta"
    BY <1>3 DEF Layout!Meta
  <2> HIDE <1>3
  <2>3. AskedInv'
    BY <2>1, <2>2 DEF SetupInv, AskedInv, Phases
  <2>4. DirectoryInv'
    BY <1>1, <2>1, <2>2 DEF SetupInv, DirectoryInv, Rested
  <2>5. HandInv'
    BY <2>1 DEF HandInv
  <2> QED
    BY <1>1, <2>3, <2>4, <2>5 DEF SetupInv, VerdictsInv
<1>4. CASE Layout!OpenManifest
  <2>1. PICK to \in {"fill manifest", "refill manifest"} :
            Layout!Goto(to) /\ setup.pc = IF to = "fill manifest" THEN "open manifest"
                                   ELSE "reopen manifest"
    BY <1>4 DEF Layout!OpenManifest
  <2>2. /\ AskedInv'
        /\ setup'.pc = to /\ setup'.encoder = setup.encoder /\ setup'.depth = setup.depth
        /\ setup'.verified = setup.verified /\ setup'.next = setup.next
    BY <2>1, Going DEF SetupInv, Phases
  <2>3. Describes(setup.next, setup.encoder, setup.depth)
    BY <2>1 DEF SetupInv, HandInv, Listed
  <2>4. Describes(manifest', setup.encoder, setup.depth)
    BY <1>4, <2>3, StillDescribes DEF Layout!OpenManifest
  <2>5. manifest'.N = N
    BY <2>4 DEF Describes
  <2>6. DirectoryInv'
    BY <1>1, <2>2, <2>5 DEF SetupInv, DirectoryInv, Rested
  <2>7. HandInv'
    BY <1>2, <2>1, <2>2 DEF SetupInv, HandInv, Listed
  <2> QED
    BY <1>1, <2>2, <2>6, <2>7 DEF SetupInv, VerdictsInv
<1>5. CASE Layout!FillManifest
  <2>1. /\ Layout!Goto(IF setup.verified THEN "icnf" ELSE "exit 0")
        /\ setup.pc = "fill manifest" /\ manifest' = setup.next
    BY <1>5 DEF Layout!FillManifest
  <2>2. /\ AskedInv'
        /\ setup'.pc = IF setup.verified THEN "icnf" ELSE "exit 0"
        /\ setup'.encoder = setup.encoder /\ setup'.depth = setup.depth
        /\ setup'.verified = setup.verified /\ setup'.next = setup.next
    BY <2>1, Going DEF SetupInv, Phases
  <2>3. Describes(setup.next, setup.encoder, setup.depth) /\ setup.next.shape = TRUE
    BY <2>1 DEF SetupInv, HandInv
  <2>4. manifest'.N = N /\ manifest'.shape = TRUE
    BY <2>1, <2>3 DEF Describes
  <2>5. DirectoryInv'
    BY <1>1, <2>2, <2>4 DEF SetupInv, DirectoryInv, Rested
  <2>6. HandInv'
    BY <2>1, <2>2, <2>3 DEF HandInv
  <2> QED
    BY <1>1, <2>2, <2>5, <2>6 DEF SetupInv, VerdictsInv
<1>6. CASE Layout!Load
  <2>1. setup.pc = "load" /\ manifest' = manifest /\ manifest = setup.next /\ setup.verified
    BY <1>6 DEF Layout!Load, SetupInv, HandInv
  <2>2. Describes(setup.next, setup.encoder, setup.depth) /\ setup.next.shape = TRUE
    BY <2>1 DEF SetupInv, HandInv
  <2> DEFINE new == [manifest EXCEPT !.cubes = Layout!CubesHash,
                                     !.construction = Layout!Construction]
  <2>3. Listed(new, setup.encoder, setup.depth)
    <3>1. Describes(manifest, setup.encoder, setup.depth) /\ manifest.shape = TRUE
      BY <2>1, <2>2
    <3>2. /\ Describes(new, setup.encoder, setup.depth)
          /\ new.shape = manifest.shape /\ new.cubes = Layout!CubesHash
          /\ new.construction = Layout!Construction
      BY <3>1, StillDescribes
    <3> QED
      BY <3>1, <3>2 DEF Listed
  <2>4. setup' = [pc |-> "reopen manifest", encoder |-> setup.encoder,
                  depth |-> setup.depth, verified |-> setup.verified, next |-> new]
    BY <1>6 DEF Layout!Load, SetupInv, AskedInv
  <2> HIDE <1>6 DEF new
  <2>5. AskedInv'
    BY <2>1, <2>4 DEF SetupInv, AskedInv, Phases
  <2>6. DirectoryInv'
    BY <1>1, <2>1, <2>4 DEF SetupInv, DirectoryInv, Rested
  <2>7. HandInv'
    BY <1>2, <2>1, <2>3, <2>4 DEF HandInv, Listed
  <2> QED
    BY <1>1, <2>5, <2>6, <2>7 DEF SetupInv, VerdictsInv
<1>7. CASE Layout!RefillManifest
  <2>1. PICK to \in {"exit 0", "exit 2"} :
            /\ Layout!Goto(to) /\ setup.pc = "refill manifest" /\ manifest' = setup.next
            /\ to = "exit 0" =>
                              /\ base = Layout!BaseOf("seqcount")
                              /\ Layout!CubesHash
                                   = Layout!CubeSet(Layout!SplitOf(VerifiedDepth))
    BY <1>7 DEF Layout!RefillManifest
  <2>2. /\ AskedInv'
        /\ setup'.pc = to /\ setup'.encoder = setup.encoder /\ setup'.depth = setup.depth
        /\ setup'.verified = setup.verified /\ setup'.next = setup.next
    BY <2>1, Going DEF SetupInv, Phases
  <2>3. Listed(manifest', "seqcount", VerifiedDepth)
    BY <2>1 DEF SetupInv, HandInv, AskedInv
  <2>4. manifest'.N = N /\ manifest'.shape = TRUE
    BY <2>3 DEF Listed, Describes
  <2>5. DirectoryInv'
    BY <1>1, <2>2, <2>4 DEF SetupInv, DirectoryInv, Rested
  <2>6. HandInv'
    BY <1>1, <1>2, <2>1, <2>2, <2>3 DEF HandInv, Listed
  <2> QED
    BY <1>1, <2>2, <2>5, <2>6 DEF SetupInv, VerdictsInv
<1> QED
  BY <1>3, <1>4, <1>5, <1>6, <1>7

LEMMA OthersKeep ==
    ASSUME SetupInv,
           \/ Layout!Kill \/ Layout!StartDriver \/ Layout!EndDriver
           \/ \E index \in DOMAIN verdicts : Layout!SolveCube(index)
    PROVE  SetupInv'
<1>1. /\ base' = base /\ cubes' = cubes /\ manifest' = manifest
  BY DEF Layout!Kill, Layout!StartDriver, Layout!EndDriver, Layout!SolveCube
<1>2. Layout!CubesHash' = Layout!CubesHash
  BY <1>1 DEF Layout!CubesHash
<1>3. CASE Layout!Kill
  <2>1. setup.pc # "idle" /\ Layout!Goto("killed") /\ verdicts' = verdicts
    BY <1>3 DEF Layout!Kill, Layout!Resting
  <2>2. AskedInv' /\ setup'.pc = "killed"
    BY <2>1, Going DEF SetupInv, Phases
  <2>3. setupKills' \in 0 .. LayoutKills
    BY <1>3, LayoutAssumption DEF Layout!Kill, SetupInv, Layout!SetupAssumption
  <2>4. DirectoryInv'
    BY <1>1, <2>2 DEF SetupInv, DirectoryInv, Rested
  <2>5. HandInv'
    BY <2>2 DEF HandInv
  <2> QED
    BY <2>1, <2>2, <2>3, <2>4, <2>5 DEF SetupInv, VerdictsInv
<1>4. CASE \/ Layout!StartDriver \/ Layout!EndDriver
           \/ \E index \in DOMAIN verdicts : Layout!SolveCube(index)
  <2>1. setup' = setup /\ setupKills' = setupKills
    BY <1>4 DEF Layout!StartDriver, Layout!EndDriver, Layout!SolveCube
  <2>2. AskedInv' /\ DirectoryInv' /\ HandInv'
    BY <1>1, <1>2, <2>1 DEF SetupInv, AskedInv, DirectoryInv, HandInv, Listed
  <2>3. VerdictsInv'
    <3>1. CASE Layout!StartDriver \/ Layout!EndDriver
      BY <3>1 DEF Layout!StartDriver, Layout!EndDriver, SetupInv, VerdictsInv
    <3>2. ASSUME NEW index \in DOMAIN verdicts, Layout!SolveCube(index) PROVE VerdictsInv'
      <4> DEFINE literals == Layout!Literals(driver[index + 1])
                 verdict == [literals |-> literals, rc |-> Layout!Answer(literals)]
      <4>1. verdicts' = [verdicts EXCEPT ![index] = verdict]
        BY <3>2 DEF Layout!SolveCube
      <4>2. /\ verdict.rc \in {10, 20}
            /\ verdict.rc = 20 => \A f \in Solutions : ~Layout!Holds(f, verdict.literals)
        BY DEF Layout!Answer
      <4> HIDE DEF verdict
      <4> QED
        BY <4>1, <4>2 DEF SetupInv, VerdictsInv, Layout!Holds
    <3> QED
      BY <1>4, <3>1, <3>2
  <2> QED
    BY <2>1, <2>2, <2>3 DEF SetupInv
<1> QED
  BY <1>3, <1>4

\* Every coloring falls into a cube of the split, and if every cube is refuted,
\* over its own literals, none of them satisfies the base instance.
LEMMA RefutedCubes ==
    ASSUME SetupInv PROVE Layout!AcceptedTrue
<1> SUFFICES ASSUME Layout!Accepted, NEW f \in Solutions PROVE FALSE
  BY DEF Layout!AcceptedTrue
<1> DEFINE split == manifest.split
           cube == {v \in Layout!Vars(split) : f[v] = 1}
<1>1. manifest.N = N /\ N \in Nat /\ f \in [1 .. N -> {1, -1}]
  BY LayoutAssumption
  DEF Layout!SetupAssumption, Layout!Accepted, Layout!WellCut, SetupInv, DirectoryInv
<1>2. Layout!Vars(split) \subseteq 1 .. N
  BY <1>1 DEF Layout!Accepted, Layout!WellCut, Layout!UsableSplit
<1>3. PICK i \in DOMAIN Layout!Documents(manifest) :
          /\ Layout!Documents(manifest)[i].rc = 20
          /\ Layout!Documents(manifest)[i].lits = Layout!CubeLiterals(split, cube)
  BY DEF Layout!Accepted, Layout!EveryCubeUnsat, Layout!CubeIds
<1>4. /\ i \in DOMAIN verdicts /\ verdicts[i] # Absent
      /\ verdicts[i].rc = 20 /\ verdicts[i].literals = Layout!CubeLiterals(split, cube)
  BY <1>3 DEF Layout!Documents
<1>5. Layout!Holds(f, Layout!CubeLiterals(split, cube))
  <2> SUFFICES ASSUME NEW v \in 1 .. N
               PROVE  /\ v \in Layout!CubeLiterals(split, cube) => f[v] = 1
                      /\ -v \in Layout!CubeLiterals(split, cube) => f[v] = -1
    BY DEF Layout!Holds
  <2>1. ASSUME NEW w \in Layout!Vars(split) PROVE v # -w /\ (-v = -w => v = w) /\ -v # w
    BY <1>1, <1>2
  <2>2. v \in Layout!CubeLiterals(split, cube) => v \in cube
    BY <2>1 DEF Layout!CubeLiterals
  <2>3. -v \in Layout!CubeLiterals(split, cube) => v \in Layout!Vars(split) \ cube
    BY <2>1 DEF Layout!CubeLiterals
  <2> QED
    BY <1>1, <2>2, <2>3
<1> QED
  BY <1>4, <1>5 DEF SetupInv, VerdictsInv

\* The split that gen_seqcount_verified.py fixes is one the gate takes.
LEMMA VerifiedSplit == Layout!UsableSplit(Layout!SplitOf(VerifiedDepth), N)
<1> DEFINE split == Layout!SplitOf(VerifiedDepth)
<1>1. /\ N \in Nat /\ VerifiedDepth \in 1 .. N /\ VerifiedDepth <= MaxSplit
      /\ MaxSplit \in Nat
  BY LayoutAssumption, MaxSplitAssumption DEF Layout!SetupAssumption
<1>2. /\ split \in [1 .. VerifiedDepth -> 1 .. N] /\ DOMAIN split = 1 .. VerifiedDepth
      /\ Len(split) = VerifiedDepth
      /\ \A i, j \in 1 .. VerifiedDepth : split[i] = split[j] => i = j
  BY <1>1, Splits
<1> HIDE DEF split
<1>3. Len(split) \in 1 .. MaxSplit
  BY <1>1, <1>2
<1>4. Layout!Vars(split) \subseteq 1 .. N
  BY <1>2 DEF Layout!Vars
<1> QED
  BY <1>2, <1>3, <1>4 DEF Layout!UsableSplit, split

\* Shape, comparisons, rows and verdicts are in the invariant.
LEMMA SetupInvSuffices ==
    ASSUME ManifestsShow, SetupInv PROVE Layout!SetupTrue
<1>1. Layout!TypeOK
  BY DEF SetupInv, AskedInv, DirectoryInv, VerdictsInv, Layout!TypeOK, Rested, Writers
<1>2. Layout!SetupVerifies
  <2> SUFFICES ASSUME setup.pc = "exit 0", setup.verified
               PROVE  /\ Layout!WellCut(manifest) /\ Layout!BaseRegenerates(manifest)
                      /\ base = manifest.base /\ Layout!CubesHash = manifest.cubes
    BY DEF Layout!SetupVerifies
  <2> DEFINE split == Layout!SplitOf(VerifiedDepth)
  <2>1. /\ Listed(manifest, "seqcount", VerifiedDepth)
        /\ base = Layout!BaseOf("seqcount")
        /\ Layout!CubesHash = Layout!CubeSet(split)
    BY DEF SetupInv, HandInv
  <2>2. /\ N \in Nat /\ VerifiedDepth \in 1 .. N /\ VerifiedDepth <= MaxSplit
        /\ MaxSplit \in Nat
    BY LayoutAssumption, MaxSplitAssumption DEF Layout!SetupAssumption
  <2>3. /\ split \in [1 .. VerifiedDepth -> 1 .. N] /\ DOMAIN split = 1 .. VerifiedDepth
        /\ Len(split) = VerifiedDepth
        /\ \A i, j \in 1 .. VerifiedDepth : split[i] = split[j] => i = j
    BY <2>2, Splits
  <2> HIDE DEF split
  <2>4. Layout!UsableSplit(split, N)
    BY VerifiedSplit DEF split
  <2>5. /\ manifest # Absent /\ manifest.shape /\ manifest.N = N /\ manifest.split = split
        /\ manifest.nCubes = 2 ^ VerifiedDepth
        /\ manifest.construction = Layout!Construction
        /\ manifest.cubes = Layout!CubesHash /\ manifest.base = Layout!BaseOf("seqcount")
        /\ manifest.k = 0 /\ manifest.l = 0 /\ manifest.encoder = "seqcount"
        /\ manifest.symmetryBreak = TRUE
    BY <2>1, ManifestsShow DEF ManifestsShow, Listed, Describes, split
  <2> QED
    BY <2>1, <2>3, <2>4, <2>5 DEF Layout!WellCut, Layout!BaseRegenerates, Layout!BaseOf
<1>3. Layout!RowsAreCubes
  <2> SUFFICES ASSUME setup.pc \in {"meta", "load"} PROVE Layout!RowsAreCubes
    BY DEF Layout!RowsAreCubes
  <2>1. setup.depth \in 1 .. N /\ cubes.rows = Layout!Rows(Layout!SplitOf(setup.depth))
    BY DEF SetupInv, AskedInv, DirectoryInv
  <2> QED
    BY <2>1, RowsPartition DEF Layout!RowsAreCubes
<1> QED
  BY <1>1, <1>2, <1>3, RefutedCubes DEF Layout!SetupTrue

\* When a program that lays the directory out is sure of it, the gate can
\* re-derive it; a finished cube file puts every coloring in one job; and the
\* gate accepts a directory, laid out any number of times, only of a base
\* instance without a solution.
THEOREM LayoutSound == ASSUME ManifestsShow PROVE Layout!Spec => []Layout!SetupTrue
<1>1. Layout!Init => SetupInv
  BY LayoutAssumption
  DEF Layout!SetupAssumption, Layout!Init, Layout!NoSetup, Layout!NoCubes, SetupInv,
      AskedInv, DirectoryInv, HandInv, VerdictsInv, Phases
<1>2. SetupInv /\ [Layout!Next]_Layout!vars => SetupInv'
  <2> SUFFICES ASSUME SetupInv, [Layout!Next]_Layout!vars PROVE SetupInv'
    OBVIOUS
  <2>1. ASSUME NEW writer \in Encoders, NEW depth \in Depths,
               Layout!Begin(writer, depth, FALSE)
        PROVE  SetupInv'
    BY <2>1, StartKeeps, LayoutAssumption DEF Layout!SetupAssumption, Writers
  <2>2. CASE Layout!Begin("seqcount", VerifiedDepth, TRUE)
    BY <2>2, StartKeeps, LayoutAssumption DEF Layout!SetupAssumption, Writers
  <2>3. CASE UNCHANGED Layout!vars
    BY <2>3
    DEF Layout!vars, SetupInv, AskedInv, DirectoryInv, HandInv, Listed, VerdictsInv,
        Layout!CubesHash
  <2> QED
    BY <2>1, <2>2, <2>3, WriteKeeps, ManifestKeeps, OthersKeep DEF Layout!Next
<1>3. SetupInv => Layout!SetupTrue
  BY SetupInvSuffices
<1> QED
  BY <1>1, <1>2, <1>3, PTL DEF Layout!Spec

-----------------------------------------------------------------------------
(* Beside the others.                                                      *)

Solving == world = "solve"

\* In its own world nk2.solve takes its own steps.
LEMMA SolveWorld == WorldsSpec => []~Solving \/ Spec
<1>1. WorldsInit /\ Solving => Init
  BY DEF WorldsInit, Solving
<1>2. [WorldsNext]_worldsVars /\ Solving => [Next]_vars /\ Solving'
  BY DEF WorldsNext, worldsVars, Solving
<1>3. [WorldsNext]_worldsVars /\ ~Solving => ~Solving'
  BY DEF WorldsNext, worldsVars, Solving
<1> QED
  BY <1>1, <1>2, <1>3, PTL DEF WorldsSpec, Spec

\* What an invocation of nk2.solve that is alone leaves, and how it ends.
THEOREM RunSound ==
    ASSUME SentinelsApart, Problems, RecordsApart, Alone, MaxStarts \in Nat, MaxKills \in Nat
    PROVE  WorldsSpec => []RunTrue
<1>1. (~Solving => RunTrue) /\ (TypeOK /\ ExitCodes => RunTrue)
  BY DEF RunTrue, Solving
<1> QED
  BY <1>1, SolveWorld, PathsAreOwn, ExitCodesTrue, PTL

LayingOut == world = "lay out"

\* In its own world a directory is laid out by its own steps.
LEMMA LayoutWorld == WorldsSpec => []~LayingOut \/ Layout!Spec
<1>1. WorldsInit => Layout!Init
  BY DEF WorldsInit
<1>2. [WorldsNext]_worldsVars /\ LayingOut => [Layout!Next]_(Layout!vars) /\ LayingOut'
  BY DEF WorldsNext, worldsVars, others, layoutVars, Layout!vars, LayingOut
<1>3. [WorldsNext]_worldsVars /\ ~LayingOut => ~LayingOut'
  BY DEF WorldsNext, worldsVars, LayingOut
<1> QED
  BY <1>1, <1>2, <1>3, PTL DEF WorldsSpec, Layout!Spec

\* What holds of a directory laid out again and again, for any rank of the
\* variables, any depths, solutions and drivers.
THEOREM SetupSound == ASSUME ManifestsShow PROVE WorldsSpec => []SetupTrue
<1>1. (~LayingOut => SetupTrue) /\ (Layout!SetupTrue => SetupTrue)
  BY DEF SetupTrue, LayingOut
<1> QED
  BY <1>1, LayoutWorld, LayoutSound, PTL

-----------------------------------------------------------------------------
(* The encoders, whose proofs are in ClauseStream_proofs: what they say of *)
(* their own instances of the encoders, said of the two in Nk2.            *)

StreamProofs == INSTANCE ClauseStream_proofs WITH Jobs <- StreamJobs, body <- stream

\* The size of a set and its subsets of a size are the ones that the proofs speak of.
LEMMA StreamSizes ==
    /\ \A S : Stream!Cardinality(S) = StreamProofs!Cardinality(S)
    /\ \A m, S : Stream!kSubset(m, S) = StreamProofs!kSubset(m, S)
<1>1. \A S : Stream!Cardinality(S) = StreamProofs!Cardinality(S)
  BY DEF Stream!Cardinality, StreamProofs!Cardinality
<1>2. \A m, S : Stream!kSubset(m, S) = StreamProofs!kSubset(m, S)
  BY <1>1 DEF Stream!kSubset, StreamProofs!kSubset
<1> QED
  BY <1>1, <1>2

\* The at_most that the stream writes is the at_most that the proofs speak of.
LEMMA StreamAtMost ==
    \A name, lits, b, low : Stream!AtMost(name, lits, b, low)
          = StreamProofs!AtMost(name, lits, b, low)
<1>1. \A lits, b, low : Stream!SubsetsAtMost(lits, b, low)
      = StreamProofs!SubsetsAtMost(lits, b, low)
  BY StreamSizes DEF Stream!SubsetsAtMost, StreamProofs!SubsetsAtMost
<1>2. \A lits, b, low : Stream!SeqcountAtMost(lits, b, low)
      = StreamProofs!SeqcountAtMost(lits, b, low)
  BY DEF Stream!SeqcountAtMost, StreamProofs!SeqcountAtMost,
         Stream!CounterClauses, StreamProofs!CounterClauses, Stream!Register,
         StreamProofs!Register
<1>3. \A lits, b, low : Stream!TotalizerAtMost(lits, b, low)
      = StreamProofs!TotalizerAtMost(lits, b, low)
  <2>1. \A lits, b, low : Stream!Tree(lits, b, low)
        = StreamProofs!Tree(lits, b, low)
    BY DEF Stream!Tree, StreamProofs!Tree, Stream!Parent, StreamProofs!Parent,
           Stream!Least, StreamProofs!Least, Stream!Merge, StreamProofs!Merge,
           Stream!NodeClause, StreamProofs!NodeClause
  <2> QED
    BY <2>1 DEF Stream!TotalizerAtMost, StreamProofs!TotalizerAtMost
<1> QED
  BY <1>1, <1>2, <1>3 DEF Stream!AtMost, StreamProofs!AtMost

\* So is the block of auxiliary variables that it takes.
LEMMA StreamBlocks ==
    \A name, k, b : Stream!BlockSize(name, k, b)
          = StreamProofs!BlockSize(name, k, b)
<1>1. \A k, b : Stream!TreeSize(k, b) = StreamProofs!TreeSize(k, b)
  BY DEF Stream!TreeSize, StreamProofs!TreeSize, Stream!Least,
         StreamProofs!Least
<1> QED
  BY <1>1 DEF Stream!BlockSize, StreamProofs!BlockSize

\* So is what satisfies its clauses.
LEMMA StreamSatisfied ==
    \A clauses, f : Stream!Satisfiable(clauses, f) <=> StreamProofs!Satisfiable(clauses, f)
BY DEF Stream!Satisfiable, StreamProofs!Satisfiable, Stream!LeastModel,
       StreamProofs!LeastModel, Stream!Residue, StreamProofs!Residue,
       Stream!Main, StreamProofs!Main, Stream!TrueUnder, StreamProofs!TrueUnder

\* The same of the world in which one constraint is counted: its sizes,
LEMMA CountSizes ==
    /\ \A S : Count!Cardinality(S) = StreamProofs!Cardinality(S)
    /\ \A m, S : Count!kSubset(m, S) = StreamProofs!kSubset(m, S)
<1>1. \A S : Count!Cardinality(S) = StreamProofs!Cardinality(S)
  BY DEF Count!Cardinality, StreamProofs!Cardinality
<1>2. \A m, S : Count!kSubset(m, S) = StreamProofs!kSubset(m, S)
  BY <1>1 DEF Count!kSubset, StreamProofs!kSubset
<1> QED
  BY <1>1, <1>2

\* its at_most, the encoder that nk2.encode dispatches to,
LEMMA CountAtMost ==
    \A name, lits, b, low : Count!AtMost(name, lits, b, low)
          = StreamProofs!AtMost(name, lits, b, low)
<1>1. \A lits, b, low : Count!SubsetsAtMost(lits, b, low)
      = StreamProofs!SubsetsAtMost(lits, b, low)
  BY CountSizes DEF Count!SubsetsAtMost, StreamProofs!SubsetsAtMost
<1>2. \A lits, b, low : Count!SeqcountAtMost(lits, b, low)
      = StreamProofs!SeqcountAtMost(lits, b, low)
  BY DEF Count!SeqcountAtMost, StreamProofs!SeqcountAtMost,
         Count!CounterClauses, StreamProofs!CounterClauses, Count!Register,
         StreamProofs!Register
<1>3. \A lits, b, low : Count!TotalizerAtMost(lits, b, low)
      = StreamProofs!TotalizerAtMost(lits, b, low)
  <2>1. \A lits, b, low : Count!Tree(lits, b, low)
        = StreamProofs!Tree(lits, b, low)
    BY DEF Count!Tree, StreamProofs!Tree, Count!Parent, StreamProofs!Parent,
           Count!Least, StreamProofs!Least, Count!Merge, StreamProofs!Merge,
           Count!NodeClause, StreamProofs!NodeClause
  <2> QED
    BY <2>1 DEF Count!TotalizerAtMost, StreamProofs!TotalizerAtMost
<1> QED
  BY <1>1, <1>2, <1>3 DEF Count!AtMost, StreamProofs!AtMost

\* its blocks,
LEMMA CountBlocks ==
    \A name, k, b : Count!BlockSize(name, k, b)
          = StreamProofs!BlockSize(name, k, b)
<1>1. \A k, b : Count!TreeSize(k, b) = StreamProofs!TreeSize(k, b)
  BY DEF Count!TreeSize, StreamProofs!TreeSize, Count!Least, StreamProofs!Least
<1> QED
  BY <1>1 DEF Count!BlockSize, StreamProofs!BlockSize

\* and what satisfies its clauses.
LEMMA CountSatisfied ==
    \A clauses, f : Count!Satisfiable(clauses, f) <=> StreamProofs!Satisfiable(clauses, f)
BY DEF Count!Satisfiable, StreamProofs!Satisfiable, Count!LeastModel,
       StreamProofs!LeastModel, Count!Residue, StreamProofs!Residue,
       Count!Main, StreamProofs!Main, Count!TrueUnder, StreamProofs!TrueUnder

\* The formulas of the header and the clauses of a progression, nk2/encode_*.py,
\* are the ones that the proofs speak of.
LEMMA StreamFormulas ==
    /\ \A name, n, k, l : Stream!NumVars(name, n, k, l)
          = StreamProofs!NumVars(name, n, k, l)
    /\ \A n, k, l : Stream!SubsetsEstimate(n, k, l)
          = StreamProofs!SubsetsEstimate(n, k, l)
    /\ \A name, n, k, l, ap, place :
          Stream!ApClauses(name, n, k, l, ap, place)
            = StreamProofs!ApClauses(name, n, k, l, ap, place)
<1>1. \A name, n, k, l : Stream!NumVars(name, n, k, l)
      = StreamProofs!NumVars(name, n, k, l)
  BY StreamBlocks
     DEF Stream!NumVars, StreamProofs!NumVars, Stream!NumAps,
         StreamProofs!NumAps, Stream!LastDifference,
         StreamProofs!LastDifference, Stream!Degenerate,
         StreamProofs!Degenerate, Stream!Lo, StreamProofs!Lo, Stream!Hi,
         StreamProofs!Hi, Stream!UThreshold, StreamProofs!UThreshold
<1>2. \A n, k, l : Stream!SubsetsEstimate(n, k, l)
      = StreamProofs!SubsetsEstimate(n, k, l)
  BY StreamSizes
     DEF Stream!SubsetsEstimate, StreamProofs!SubsetsEstimate, Stream!NumAps,
         StreamProofs!NumAps, Stream!LastDifference,
         StreamProofs!LastDifference, Stream!Degenerate,
         StreamProofs!Degenerate, Stream!Lo, StreamProofs!Lo, Stream!Hi,
         StreamProofs!Hi, Stream!UThreshold, StreamProofs!UThreshold
<1>3. \A name, n, k, l, ap, place :
          Stream!ApClauses(name, n, k, l, ap, place)
            = StreamProofs!ApClauses(name, n, k, l, ap, place)
  <2>1. /\ \A k, l : /\ Stream!Degenerate(k, l) <=> StreamProofs!Degenerate(k, l)
                     /\ Stream!Hi(k, l) = StreamProofs!Hi(k, l)
        /\ \A ap : Stream!Negated(ap) = StreamProofs!Negated(ap)
    BY DEF Stream!Negated, StreamProofs!Negated, Stream!Degenerate,
           StreamProofs!Degenerate, Stream!Lo, StreamProofs!Lo, Stream!Hi,
           StreamProofs!Hi, Stream!UThreshold, StreamProofs!UThreshold
  <2>2. \A name, n, k, b, place, c :
            Stream!Base(name, n, k, b, place, c)
                  = StreamProofs!Base(name, n, k, b, place, c)
    BY StreamBlocks DEF Stream!Base, StreamProofs!Base
  <2> SUFFICES ASSUME NEW name, NEW n, NEW k, NEW l, NEW ap, NEW place
               PROVE  Stream!ApClauses(name, n, k, l, ap, place)
                        = StreamProofs!ApClauses(name, n, k, l, ap, place)
    OBVIOUS
  <2> DEFINE own   == StreamProofs!AtMost(name, ap, StreamProofs!Hi(k, l),
                          StreamProofs!Base(name, n, k, StreamProofs!Hi(k, l), place, 0))
             other == StreamProofs!AtMost(name, StreamProofs!Negated(ap), StreamProofs!Hi(k, l),
                          StreamProofs!Base(name, n, k, StreamProofs!Hi(k, l), place, 1))
  <2>3. /\ Stream!AtMost(name, ap, Stream!Hi(k, l),
                        Stream!Base(name, n, k, Stream!Hi(k, l), place, 0)) = own
        /\ Stream!AtMost(name, Stream!Negated(ap), Stream!Hi(k, l),
                        Stream!Base(name, n, k, Stream!Hi(k, l), place, 1)) = other
    BY <2>1, <2>2, StreamAtMost
  <2>4. StreamProofs!ApClauses(name, n, k, l, ap, place)
          = IF StreamProofs!Degenerate(k, l) THEN {{}} ELSE own \cup other
    BY DEF StreamProofs!ApClauses
  <2> HIDE DEF own, other
  <2>5. Stream!ApClauses(name, n, k, l, ap, place)
          = IF Stream!Degenerate(k, l) THEN {{}} ELSE own \cup other
    BY <2>3 DEF Stream!ApClauses
  <2> QED
    BY <2>1, <2>4, <2>5
<1> QED
  BY <1>1, <1>2, <1>3

\* A step of the encoder here is a step of the encoder there.
LEMMA StreamStepsAlike ==
    /\ Stream!Init => StreamProofs!Init
    /\ [Stream!Next]_streamVars => [StreamProofs!Next]_(StreamProofs!vars)
<1>1. Stream!Init => StreamProofs!Init
  BY DEF Stream!Init, StreamProofs!Init
<1>2. \A clauses, next : Stream!Write(clauses, next) => StreamProofs!Write(clauses, next)
  BY StreamFormulas, StreamSatisfied, StreamSizes
     DEF Stream!Write, StreamProofs!Write, Stream!Declared,
         StreamProofs!Declared
<1>3. Stream!Build => StreamProofs!Build
  BY StreamFormulas DEF Stream!Build, StreamProofs!Build
<1>4. Stream!EmitProgression => StreamProofs!EmitProgression
  BY <1>2, StreamFormulas
     DEF Stream!EmitProgression, StreamProofs!EmitProgression, Stream!MoreAps,
         StreamProofs!MoreAps, Stream!NextAp, StreamProofs!NextAp,
         Stream!LastDifference, StreamProofs!LastDifference, Stream!LastStart,
         StreamProofs!LastStart, Stream!Ap, StreamProofs!Ap
<1>5. Stream!EmitSymmetry => StreamProofs!EmitSymmetry
  BY <1>2, StreamFormulas
     DEF Stream!EmitSymmetry, StreamProofs!EmitSymmetry, Stream!MoreAps,
         StreamProofs!MoreAps, Stream!LastDifference,
         StreamProofs!LastDifference, Stream!SymmetryClauses,
         StreamProofs!SymmetryClauses
<1>6. UNCHANGED streamVars => UNCHANGED StreamProofs!vars
  BY DEF streamVars, StreamProofs!vars
<1> QED
  BY <1>1, <1>3, <1>4, <1>5, <1>6 DEF Stream!Next, StreamProofs!Next

\* Beside the other worlds the encoder does nothing that it would not do alone.
LEMMA EncodeWorld == WorldsSpec => StreamProofs!Spec
<1>1. WorldsInit => StreamProofs!Init
  BY StreamStepsAlike DEF WorldsInit
<1>2. [WorldsNext]_worldsVars => [StreamProofs!Next]_(StreamProofs!vars)
  <2>1. [WorldsNext]_worldsVars => [Stream!Next]_streamVars
    BY DEF WorldsNext, worldsVars, others
  <2> QED
    BY <2>1, StreamStepsAlike
<1> QED
  BY <1>1, <1>2, PTL DEF WorldsSpec, StreamProofs!Spec

\* The instances that the stream writes are ones that spec.py lets through.
LEMMA StreamsAsked == StreamProofs!StreamAssumption
BY EncodeAssumption
   DEF Stream!StreamAssumption, StreamProofs!StreamAssumption,
       Stream!EncoderNames, StreamProofs!EncoderNames

\* What is proved of the header there is what is said of it here.
LEMMA HeaderAlike ==
    StreamProofs!HeaderExact /\ StreamProofs!TypeOK => Stream!HeaderExact /\ Stream!TypeOK
<1>1. StreamProofs!TypeOK => Stream!TypeOK
  BY DEF Stream!TypeOK, StreamProofs!TypeOK, Stream!HornIn, StreamProofs!HornIn
<1>2. StreamProofs!HeaderExact => Stream!HeaderExact
  BY StreamFormulas, StreamSizes
     DEF Stream!HeaderExact, StreamProofs!HeaderExact, Stream!Auxiliary,
         StreamProofs!Auxiliary, Stream!Declared, StreamProofs!Declared,
         Stream!NumAps, StreamProofs!NumAps, Stream!LastDifference,
         StreamProofs!LastDifference, Stream!SymmetryClauses,
         StreamProofs!SymmetryClauses
<1> QED
  BY <1>1, <1>2

\* The counted constraint is of a known encoder, an integer bound and signs.
LEMMA Counted == WorldsSpec => [](/\ encoder \in Count!EncoderNames /\ bound \in Int
                                  /\ values \in Seq({1, -1}))
<1> DEFINE I == encoder \in Count!EncoderNames /\ bound \in Int /\ values \in Seq({1, -1})
<1>1. WorldsInit => I
  <2>1. Count!Init => I
    BY EncodeAssumption DEF Count!Init
  <2> QED
    BY <2>1 DEF WorldsInit
<1>2. I /\ [WorldsNext]_worldsVars => I'
  <2>1. [WorldsNext]_worldsVars => Count!Next \/ UNCHANGED countVars
    BY DEF WorldsNext, worldsVars, others
  <2>2. I /\ Count!Next => I'
    BY DEF Count!Next, Count!Decide
  <2>3. I /\ UNCHANGED countVars => I'
    BY DEF countVars
  <2> QED
    BY <2>1, <2>2, <2>3
<1> QED
  BY <1>1, <1>2, PTL DEF WorldsSpec

\* at_most of nk2/encode_*.py over a sequence is satisfied by the signs that have
\* at most the bound of pluses, by no others, within the block that it declares.
LEMMA CountsAtEveryBound ==
    ASSUME encoder \in Count!EncoderNames, bound \in Int, values \in Seq({1, -1})
    PROVE  Count!CountsExactly
<1>1. CASE Len(values) > 0
  <2> DEFINE width == Len(values)
             lits  == [i \in 1 .. width |-> i]
  <2>1. encoder \in StreamProofs!EncoderNames /\ StreamProofs!Coloring(values)
    BY DEF Count!EncoderNames, StreamProofs!EncoderNames, StreamProofs!Coloring
  <2>2. StreamProofs!CountsThem(encoder, bound, values)
    BY <1>1, <2>1, StreamProofs!ShortSequences
  <2>3. Count!Literals = lits /\ Count!Width = width
    BY DEF Count!Literals, Count!Width
  <2>4. \A s : Count!Negated(s) = StreamProofs!Negated(s)
    BY DEF Count!Negated, StreamProofs!Negated
  <2>5. Count!Plus(width)
        = StreamProofs!Cardinality({i \in 1 .. width : values[i] = 1})
    BY CountSizes DEF Count!Plus
  <2>6. \A c : Count!HornIn(c, width) <=> StreamProofs!HornIn(c, width)
    BY DEF Count!HornIn, StreamProofs!HornIn
  <2> DEFINE clauses  == StreamProofs!AtMost(encoder, lits, bound, width)
             negative == StreamProofs!AtMost(encoder, StreamProofs!Negated(lits), bound, width)
             plus     == StreamProofs!Cardinality({i \in 1 .. width : values[i] = 1})
  <2>7. /\ StreamProofs!Satisfiable(clauses, values) <=> plus <= bound
        /\ StreamProofs!Satisfiable(negative, values) <=> width - plus <= bound
        /\ StreamProofs!HornIn(clauses, width)
        /\ {lit \in UNION clauses : lit > width} \subseteq
              width + 1 .. width + StreamProofs!BlockSize(encoder, width, bound)
    BY <2>2 DEF StreamProofs!CountsThem
  <2> HIDE DEF clauses, negative, plus
  <2>8. /\ Count!Satisfiable(clauses, values) <=> Count!Plus(width) <= bound
        /\ Count!Satisfiable(negative, values) <=> width - Count!Plus(width) <= bound
        /\ Count!HornIn(clauses, width)
        /\ {lit \in UNION clauses : lit > width} \subseteq
              width + 1 .. width + Count!BlockSize(encoder, width, bound)
    <3>1. Count!Plus(width) = plus
      BY <2>5 DEF plus
    <3>2. /\ Count!Satisfiable(clauses, values) <=> StreamProofs!Satisfiable(clauses, values)
          /\ Count!Satisfiable(negative, values) <=> StreamProofs!Satisfiable(negative, values)
      BY CountSatisfied
    <3>3. Count!BlockSize(encoder, width, bound)
          = StreamProofs!BlockSize(encoder, width, bound)
      BY CountBlocks
    <3> HIDE DEF width
    <3> QED
      BY <2>6, <2>7, <3>1, <3>2, <3>3
  <2>9. /\ Count!AtMost(encoder, lits, bound, width) = clauses
        /\ Count!AtMost(encoder, Count!Negated(lits), bound, width) = negative
    BY <2>4, CountAtMost DEF clauses, negative
  <2> HIDE DEF width, lits
  <2> QED
    BY <2>3, <2>8, <2>9 DEF Count!CountsExactly
<1>2. CASE ~(Len(values) > 0)
  BY <1>2 DEF Count!CountsExactly, Count!Width
<1> QED
  BY <1>1, <1>2

\* The header and the blocks that nk2 writes are what its closed formulas promise,
\* and at_most of every encoder counts exactly, at every width and every bound:
\* for the sizes, the encoders and the ranking of every instance that spec.py admits.
THEOREM EncodersAreExact == WorldsSpec => []EncodersExact
<1>1. WorldsSpec => [](StreamProofs!HeaderExact /\ StreamProofs!TypeOK)
  BY EncodeWorld, StreamsAsked, StreamProofs!HeaderSound
<1>2. (StreamProofs!HeaderExact /\ StreamProofs!TypeOK)
        /\ (encoder \in Count!EncoderNames /\ bound \in Int /\ values \in Seq({1, -1}))
        => EncodersExact
  BY HeaderAlike, CountsAtEveryBound DEF EncodersExact
<1> QED
  BY <1>1, <1>2, Counted, PTL

\* A step of the definition of avoidance there is a step of the one here.
LEMMA MeaningAlike ==
    /\ StreamProofs!Meaning!Init => Stream!Meaning!Init
    /\ [StreamProofs!Meaning!Next]_(StreamProofs!Meaning!vars)
          => [Stream!Meaning!Next]_(Stream!Meaning!vars)
<1>1. StreamProofs!Meaning!Init => Stream!Meaning!Init
  BY DEF StreamProofs!LastDifference, Stream!LastDifference,
         StreamProofs!LastStart, Stream!LastStart, StreamProofs!Meaning!Init,
         Stream!Meaning!Init, StreamProofs!Meaning!Aps,
              Stream!Meaning!Aps, StreamProofs!Meaning!Colorings, Stream!Meaning!Colorings
<1>2. StreamProofs!Meaning!BreakSymmetry => Stream!Meaning!BreakSymmetry
  BY DEF StreamProofs!LastDifference, Stream!LastDifference,
         StreamProofs!LastStart, Stream!LastStart,
         StreamProofs!Meaning!BreakSymmetry, Stream!Meaning!BreakSymmetry
<1>3. \A ap : StreamProofs!Meaning!Rule(ap) => Stream!Meaning!Rule(ap)
  BY DEF StreamProofs!Meaning!Cardinality, Stream!Meaning!Cardinality,
         StreamProofs!Meaning!Magnitude, StreamProofs!Meaning!ApSum,
         Stream!Meaning!Magnitude, Stream!Meaning!ApSum,
         StreamProofs!LastDifference, Stream!LastDifference,
         StreamProofs!LastStart, Stream!LastStart, StreamProofs!Meaning!Rule,
         Stream!Meaning!Rule
<1>4. StreamProofs!Meaning!Next => Stream!Meaning!Next
  BY <1>2, <1>3
     DEF StreamProofs!LastDifference, Stream!LastDifference,
         StreamProofs!LastStart, Stream!LastStart, StreamProofs!Meaning!Next,
         Stream!Meaning!Next
<1>5. UNCHANGED StreamProofs!Meaning!vars => UNCHANGED Stream!Meaning!vars
  BY DEF StreamProofs!LastDifference, Stream!LastDifference,
         StreamProofs!LastStart, Stream!LastStart, StreamProofs!Meaning!vars,
         Stream!Meaning!vars
<1> QED
  BY <1>1, <1>4, <1>5

\* The clauses that the encoders of nk2 have written so far mean, at every moment,
\* the progressions so far: the stream implements the definition of avoidance step
\* by step.
THEOREM EncodersMean == WorldsSpec => MeaningSpec
<1>1. WorldsSpec => StreamProofs!MeaningSpec
  BY EncodeWorld, StreamsAsked, StreamProofs!StreamMeans
<1> QED
  BY <1>1, MeaningAlike, PTL
     DEF StreamProofs!MeaningSpec, MeaningSpec, Stream!MeaningSpec,
     StreamProofs!Meaning!Spec, Stream!Meaning!Spec
=============================================================================
