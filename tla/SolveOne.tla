------------------------------ MODULE SolveOne ------------------------------
(***************************************************************************)
(* nk2/solve.py from the command line, with nk2/dimacs.py and              *)
(* nk2/witness.py: write the instance, run a solver over it, keep a        *)
(* run-log, and a witness if there is one.  Paths follow from the          *)
(* parameters, so that two invocations may be writing the same files, and  *)
(* each may be killed over what an earlier one left.                       *)
(*                                                                         *)
(* A sha256 stands for what was hashed.  The solver is external: it is     *)
(* right when it says UNSAT, and may say anything else.                    *)
(***************************************************************************)
EXTENDS Wave, Evaluator

CONSTANTS
    Procs,      \* invocations that may be alive at the same time
    Jobs,       \* command lines: an instance, with --witness, with --proof
    Torn,       \* a file that is not all there
    MaxStarts,  \* bound on invocations, one after or beside another
    MaxKills

Instances == {job.instance : job \in Jobs}
Lengths == {i.N : i \in Instances}

Colorings(n) == [1 .. n -> {1, -1}]

\* What the instance has to be satisfied by.
Avoiding(i) ==
    {f \in Colorings(i.N) : /\ Avoids(f, i.k, i.l)
                            /\ i.symmetryBreak => f[1] = 1}

VARIABLES
    body,       \* <cnf>.body.tmp of each instance
    cnf,        \* evidence/instances/
    proof,
    log,        \* evidence/runs/
    witness,    \* evidence/witnesses/, by length
    proc,       \* the invocations
    starts,
    kills

files == <<body, cnf, proof, log, witness>>
vars == <<files, proc, starts, kills>>

-----------------------------------------------------------------------------
(* Files written in place: opening cuts the file to nothing, whoever else  *)
(* may be at it, and who opened it last decides what it becomes.           *)

NoFile == [by |-> Absent, content |-> Absent]

Opened(p, begun) == [by |-> p, content |-> begun]

\* Two writers of different bytes leave one version or a mixture.
Filled(file, p, content) ==
    IF file.by = p \/ file.content = content
    THEN {[file EXCEPT !.content = content]}
    ELSE {[file EXCEPT !.content = c] : c \in {content, Torn}}

Idle == [pc |-> "idle", job |-> Absent, sha |-> Absent, read |-> Absent,
         rc |-> Absent, model |-> Absent, proof |-> Absent]

Init ==
    /\ body = [i \in Instances |-> NoFile]
    /\ cnf = [i \in Instances |-> NoFile]
    /\ proof = [i \in Instances |-> NoFile]
    /\ log = [i \in Instances |-> NoFile]
    /\ witness = [n \in Lengths |-> NoFile]
    /\ proc = [p \in Procs |-> Idle]
    /\ starts = 0
    /\ kills = 0

At(p, pc) == proc[p].pc = pc
Instance(p) == proc[p].job.instance

Goto(p, pc) == proc' = [proc EXCEPT ![p].pc = pc]

Ended(p) == proc[p].pc \in {"idle", "exit 0", "exit 2", "exit 3", "raised", "killed"}

\* main finds a solver before it does anything, or there is none.
Start(p, job) ==
    /\ Ended(p)
    /\ starts < MaxStarts
    /\ starts' = starts + 1
    /\ \E pc \in {"open body", "exit 2"} :
        proc' = [proc EXCEPT ![p] = [Idle EXCEPT !.pc = pc, !.job = job]]
    /\ UNCHANGED <<files, kills>>

-----------------------------------------------------------------------------
(* build_instance and write_cnf.                                           *)

OpenBody(p) ==
    /\ At(p, "open body")
    /\ body' = [body EXCEPT ![Instance(p)] = Opened(p, Torn)]
    /\ Goto(p, "fill body")
    /\ UNCHANGED <<cnf, proof, log, witness, starts, kills>>

\* Another invocation may have unlinked the file under the open handle, or
\* have cut it short since: then what this one writes is lost or has a hole.
FillBody(p) ==
    /\ At(p, "fill body")
    /\ body' = IF body[Instance(p)].by = p
               THEN [body EXCEPT ![Instance(p)].content = Instance(p)]
               ELSE body
    /\ Goto(p, "open cnf")
    /\ UNCHANGED <<cnf, proof, log, witness, starts, kills>>

\* The final file is opened first, then the body, which may be gone.
OpenCnf(p) ==
    /\ At(p, "open cnf")
    /\ cnf' = [cnf EXCEPT ![Instance(p)] = Opened(p, Torn)]
    /\ Goto(p, IF body[Instance(p)] = NoFile THEN "raised" ELSE "fill cnf")
    /\ UNCHANGED <<body, proof, log, witness, starts, kills>>

\* The digest is of the bytes copied, not of the file they end up in.
FillCnf(p) ==
    /\ At(p, "fill cnf")
    /\ LET bytes == IF body[Instance(p)] = NoFile THEN Torn
                    ELSE body[Instance(p)].content IN
       /\ \E file \in Filled(cnf[Instance(p)], p, bytes) :
            cnf' = [cnf EXCEPT ![Instance(p)] = file]
       /\ proc' = [proc EXCEPT ![p].pc = "unlink", ![p].sha = bytes]
    /\ UNCHANGED <<body, proof, log, witness, starts, kills>>

\* Windows refuses while another invocation has the body open; POSIX does not.
Unlink(p) ==
    /\ At(p, "unlink")
    /\ \/ /\ body' = [body EXCEPT ![Instance(p)] = NoFile]
          /\ Goto(p, "solve")
       \/ /\ \E q \in Procs \ {p} : /\ proc[q].job = proc[p].job
                                    /\ proc[q].pc \in {"fill body", "fill cnf"}
          /\ Goto(p, "raised")
          /\ UNCHANGED body
    /\ UNCHANGED <<cnf, proof, log, witness, starts, kills>>

-----------------------------------------------------------------------------
(* solve.                                                                  *)

\* The solver reads the file and starts a proof, if it gets that far.
StartSolver(p) ==
    /\ At(p, "solve")
    /\ proc' = [proc EXCEPT ![p].pc = "solving", ![p].read = cnf[Instance(p)].content]
    /\ proof' \in {proof} \cup
          (IF proc[p].job.proof
           THEN {[proof EXCEPT ![Instance(p)] = Opened(p, Torn)]} ELSE {})
    /\ UNCHANGED <<body, cnf, log, witness, starts, kills>>

\* Seeded bug: the solver is not given the proof's path.
BugAnswerUnsat(p) ==
    /\ At(p, "solving")
    /\ proc[p].read \in Instances
    /\ Avoiding(proc[p].read) = {}
    /\ proc' = [proc EXCEPT ![p].pc = "status", ![p].rc = 20]
    /\ UNCHANGED <<files, starts, kills>>

\* A refutation of a whole instance, with its proof on disk.
AnswerUnsat(p) ==
    /\ At(p, "solving")
    /\ proc[p].read \in Instances
    /\ Avoiding(proc[p].read) = {}
    /\ proof' \in IF proc[p].job.proof
                  THEN {[proof EXCEPT ![Instance(p)] = file] :
                           file \in Filled([proof[Instance(p)] EXCEPT !.by = p],
                                           p, proc[p].read)}
                  ELSE {proof}
    /\ proc' = [proc EXCEPT ![p].pc = "status", ![p].rc = 20]
    /\ UNCHANGED <<body, cnf, log, witness, starts, kills>>

\* A model, right or wrong, or one with positions missing.
Models(i) == {Absent} \cup Colorings(i.N)

AnswerSat(p) ==
    /\ At(p, "solving")
    /\ proc[p].read \in Instances
    /\ \E model \in Models(proc[p].read) :
        proc' = [proc EXCEPT ![p].pc = "status", ![p].rc = 10, ![p].model = model]
    /\ UNCHANGED <<files, starts, kills>>

\* Out of time, killed, or over a file that does not parse.
NoAnswer(p) ==
    /\ At(p, "solving")
    /\ proc' = [proc EXCEPT ![p].pc = "status", ![p].rc = Absent]
    /\ UNCHANGED <<files, starts, kills>>

\* A status line that contradicts the return code raises; nothing is logged.
CheckStatus(p) ==
    /\ At(p, "status")
    /\ \/ Goto(p, "hash proof")
       \/ proc[p].rc # Absent /\ Goto(p, "raised")
    /\ UNCHANGED <<files, starts, kills>>

\* A proof that exists is recorded, whoever wrote it and when.
HashProof(p) ==
    /\ At(p, "hash proof")
    /\ proc' = [proc EXCEPT ![p].pc = "open log",
                            ![p].proof = IF proc[p].job.proof
                                         THEN proof[Instance(p)].content ELSE Absent]
    /\ UNCHANGED <<files, starts, kills>>

-----------------------------------------------------------------------------
(* The run-log, and the witness.                                           *)

\* Seeded bug: whatever is not satisfiable is unsatisfiable.
BugVerdict(rc) == IF rc = 10 THEN "SAT" ELSE "UNSAT"

Verdict(rc) == IF rc = 20 THEN "UNSAT" ELSE IF rc = 10 THEN "SAT" ELSE "UNKNOWN"

\* RunLog.to_dict
Record(p) ==
    [instance |-> Instance(p), sha256 |-> proc[p].sha, rc |-> proc[p].rc,
     verdict |-> Verdict(proc[p].rc), proof |-> proc[p].proof]

\* Seeded bug: a log that is there is kept.
BugOpenLog(p) ==
    /\ At(p, "open log")
    /\ log' = IF log[Instance(p)] = NoFile
              THEN [log EXCEPT ![Instance(p)] = Opened(p, Torn)] ELSE log
    /\ Goto(p, IF log[Instance(p)] = NoFile THEN "fill log" ELSE "exit 0")
    /\ UNCHANGED <<body, cnf, proof, witness, starts, kills>>

OpenLog(p) ==
    /\ At(p, "open log")
    /\ log' = [log EXCEPT ![Instance(p)] = Opened(p, Torn)]
    /\ Goto(p, "fill log")
    /\ UNCHANGED <<body, cnf, proof, witness, starts, kills>>

\* Seeded bug: the path does not tell instances apart.
BugFillLog(p) ==
    /\ At(p, "fill log")
    /\ log' = [i \in Instances |-> Opened(p, Record(p))]
    /\ Goto(p, IF proc[p].rc = 10 THEN "decode" ELSE "exit 0")
    /\ UNCHANGED <<body, cnf, proof, witness, starts, kills>>

FillLog(p) ==
    /\ At(p, "fill log")
    /\ \E file \in Filled(log[Instance(p)], p, Record(p)) :
        log' = [log EXCEPT ![Instance(p)] = file]
    /\ Goto(p, IF proc[p].rc = 10 THEN "decode" ELSE "exit 0")
    /\ UNCHANGED <<body, cnf, proof, witness, starts, kills>>

\* coloring_from_model
Decode(p) ==
    /\ At(p, "decode")
    /\ Goto(p, IF proc[p].model = Absent THEN "raised" ELSE "check")
    /\ UNCHANGED <<files, starts, kills>>

\* Seeded bug: the solver is taken at its word.
BugCheckModel(p) ==
    /\ At(p, "check")
    /\ Goto(p, IF proc[p].job.witness THEN "open witness" ELSE "exit 0")
    /\ UNCHANGED <<files, starts, kills>>

\* "Never trust the solver's word for it": main checks, and write_witness
\* checks again.
CheckModel(p) ==
    /\ At(p, "check")
    /\ Goto(p, IF ~Avoids(proc[p].model, Instance(p).k, Instance(p).l) THEN "exit 3"
               ELSE IF proc[p].job.witness THEN "open witness" ELSE "exit 0")
    /\ UNCHANGED <<files, starts, kills>>

\* Comment lines come before the one line of data, so that a file cut short
\* has some of the coloring or none.
OpenWitness(p) ==
    /\ At(p, "open witness")
    /\ \E n \in 0 .. Instance(p).N - 1 :
        witness' = [witness EXCEPT ![Instance(p).N] =
                       Opened(p, SubSeq(proc[p].model, 1, n))]
    /\ Goto(p, "fill witness")
    /\ UNCHANGED <<body, cnf, proof, log, starts, kills>>

FillWitness(p) ==
    /\ At(p, "fill witness")
    /\ \E file \in Filled(witness[Instance(p).N], p, proc[p].model) :
        witness' = [witness EXCEPT ![Instance(p).N] = file]
    /\ Goto(p, "exit 0")
    /\ UNCHANGED <<body, cnf, proof, log, starts, kills>>

Kill(p) ==
    /\ ~Ended(p)
    /\ kills < MaxKills
    /\ kills' = kills + 1
    /\ Goto(p, "killed")
    /\ UNCHANGED <<files, starts>>

-----------------------------------------------------------------------------
Step(p) ==
    \/ OpenBody(p) \/ FillBody(p) \/ OpenCnf(p) \/ FillCnf(p) \/ Unlink(p)
    \/ StartSolver(p) \/ AnswerUnsat(p) \/ AnswerSat(p) \/ NoAnswer(p)
    \/ CheckStatus(p) \/ HashProof(p)
    \/ OpenLog(p) \/ FillLog(p) \/ Decode(p) \/ CheckModel(p)
    \/ OpenWitness(p) \/ FillWitness(p)

Next ==
    \E p \in Procs : \/ Step(p)
                     \/ Kill(p)
                     \/ \E job \in Jobs : Start(p, job)

Spec == Init /\ [][Next]_vars

-----------------------------------------------------------------------------
(* Properties.                                                             *)

\* read_witness: nothing but one whole or cut line of signs can be read.
ReadWitness(n) ==
    IF witness[n].content \in {Absent, Torn, <<>>} THEN Absent ELSE witness[n].content

Readable(i) == log[i].content \notin {Absent, Torn}

\* The state has the shape the program gives it.
TypeOK ==
    /\ \A i \in Instances :
        /\ body[i].content \in {Absent, Torn, i}
        /\ cnf[i].content \in {Absent, Torn, i}
        /\ proof[i].content \in {Absent, Torn, i}
        /\ Readable(i) => log[i].content.instance = i
    /\ \A p \in Procs :
        /\ Ended(p) \/ proc[p].job \in Jobs
        /\ proc[p].rc \in {Absent, 10, 20}
        /\ proc[p].sha \in {Absent, Torn} \cup Instances
    /\ starts \in 0 .. MaxStarts /\ kills \in 0 .. MaxKills

\* A run-log that says UNSAT says so of an instance no coloring satisfies:
\* whatever another invocation did to the shared files meanwhile, and however
\* old the log is.
UnsatLogTrue ==
    \A i \in Instances :
        Readable(i) /\ log[i].content.verdict = "UNSAT" => Avoiding(i) = {}

\* "write_witness refuses to write a coloring that does not avoid", and the
\* solver's word is never taken: whatever read_witness accepts avoids, from a
\* file cut short by a kill and one that two invocations wrote at once, too.
WitnessAvoids ==
    \A i \in Instances :
        LET f == ReadWitness(i.N) IN f # Absent => Avoids(f, i.k, i.l)

\* The proof named in an UNSAT log is a whole proof of the instance in the
\* log, although any file at that path is hashed and recorded: an earlier
\* run's, or what a solver out of time left.
ProofOwn ==
    \A i \in Instances :
        Readable(i) /\ log[i].content.verdict = "UNSAT"
            => log[i].content.proof \in {Absent, i}

\* What nk2/solve.py leaves on disk is what it is taken for.
FilesTrue == UnsatLogTrue /\ WitnessAvoids /\ ProofOwn

\* What exit codes say when an invocation is alone: 0 leaves a readable log of
\* this run over the instance its parameters regenerate, with the witness if
\* one was wanted and found; 3 leaves a log that says SAT, and no new witness.
ExitCodes ==
    \A p \in Procs : At(p, "exit 0") \/ At(p, "exit 3") =>
        /\ Readable(Instance(p))
        /\ log[Instance(p)].content = Record(p)
        /\ proc[p].sha = Instance(p)
        /\ At(p, "exit 0") /\ proc[p].rc = 10 /\ proc[p].job.witness =>
              ReadWitness(Instance(p).N) = proc[p].model
        /\ At(p, "exit 3") =>
              /\ proc[p].rc = 10
              /\ ReadWitness(Instance(p).N) # proc[p].model
=============================================================================
