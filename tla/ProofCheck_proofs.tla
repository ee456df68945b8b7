--------------------------- MODULE ProofCheck_proofs ---------------------------
(***************************************************************************)
(* What holds of ProofCheck for every set of cubes, sample and proofs, any *)
(* batch size, any number of waits, failures, kills and restarts: the type *)
(* invariant, the check pass's two answers, that a bad proof halts the     *)
(* campaign, and that no unbanked proof is lost while nothing is killed.   *)
(***************************************************************************)
EXTENDS ProofCheck, TLAPS

-----------------------------------------------------------------------------
(* The inductive invariant.                                                *)

\* What a call has found is so: proofs are never made good again, and a proof
\* that is gone stays gone.
CallsTrue ==
    \A p \in Programs, c \in Cubes :
        /\ job[p][c] \in {"ok", "reclaimed"} => c \in Good
        /\ job[p][c] = "bad" => c \notin Good
        /\ job[p][c] = "missing" => c \notin proof
        /\ job[p][c] = "error" => c \in Slow \/ c \notin proof

\* Rows are about what they say; a bad proof of the sample is never deleted.
FilesTrue ==
    /\ trans \subseteq Good
    /\ fails \cap Good \cap proof \subseteq Slow
    /\ Sampled \ Good \subseteq proof

\* Every proof on disk has its row, or check_pass is still to judge it or has
\* noted that it could not.
Accounted ==
    pass.pc \in {"main", "retry"} =>
        \A c \in proof :
            \/ c \in trans \cup pass.errored \cup pass.failed
            \/ job["pass"][c] # "none"

\* Exit code 0, on its way to the orchestrator and after.
ZeroTrue ==
    \/ pass.pc = "over" /\ pass.rc = 0
    \/ pass.pc = "complete"
    => proof \subseteq trans

\* Between two batches the checker has no calls.
FrontRests == front.pc \in {"off", "start", "scan"} => job["front"] = NoJobs

Inv ==
    /\ TypeOK /\ CallsTrue /\ FilesTrue /\ Accounted /\ ZeroTrue /\ FrontRests
    /\ EvidenceKept

-----------------------------------------------------------------------------
\* The invariant holds at first.
LEMMA InitInv == Init => Inv
  <1> SUFFICES ASSUME Init PROVE Inv
    OBVIOUS
  <1> USE DEF Init, NoJobs, PassIdle, FrontOff, Nobody, Programs
  <1>1. TypeOK
    <2>1. job \in [Programs -> [Cubes -> {"none", "queued"} \cup Working \cup Returned]]
      OBVIOUS
    <2>2. pass.waited \in 0 .. MaxWaits /\ kills \in 0 .. MaxKills /\ pass.rc \in 0 .. 3
      BY ProofCheckAssumption
    <2> QED
      BY <2>1, <2>2 DEF TypeOK, FrontOK, PassOK, CallsOK
  <1>2. CallsTrue
    BY DEF CallsTrue
  <1>3. FilesTrue /\ Accounted /\ ZeroTrue /\ FrontRests /\ EvidenceKept
    BY ProofCheckAssumption DEF FilesTrue, Accounted, ZeroTrue, FrontRests, EvidenceKept
  <1> QED
    BY <1>1, <1>2, <1>3 DEF Inv

-----------------------------------------------------------------------------
(* The workers.                                                            *)

\* A worker looks at its proof.
LEMMA LookInv ==
    ASSUME Inv, NEW p \in Programs, NEW c \in Cubes, Look(p, c)
    PROVE  Inv'
  <1> USE DEF Inv, Look, Step, files, signs
  <1>1. TypeOK'
    BY DEF TypeOK, FrontOK, PassOK, CallsOK, Working, Returned
  <1>2. CallsTrue'
    BY DEF TypeOK, FrontOK, PassOK, CallsOK, CallsTrue
  <1>3. FilesTrue' /\ ZeroTrue'
    BY DEF FilesTrue, ZeroTrue
  <1>4. Accounted'
    BY DEF TypeOK, FrontOK, PassOK, CallsOK, Accounted, Programs
  <1>5. FrontRests'
    BY DEF TypeOK, FrontOK, PassOK, CallsOK, FrontRests, NoJobs, Programs
  <1>6. EvidenceKept'
    BY DEF TypeOK, FrontOK, PassOK, CallsOK, EvidenceKept, At
  <1> QED
    BY <1>1, <1>2, <1>3, <1>4, <1>5, <1>6

\* A worker copies it.
LEMMA CopyInv ==
    ASSUME Inv, NEW p \in Programs, NEW c \in Cubes, Copy(p, c)
    PROVE  Inv'
  <1> USE DEF Inv, Copy, Step, files, signs
  <1>1. TypeOK'
    BY DEF TypeOK, FrontOK, PassOK, CallsOK, Working, Returned
  <1>2. CallsTrue'
    BY DEF TypeOK, FrontOK, PassOK, CallsOK, CallsTrue
  <1>3. FilesTrue' /\ ZeroTrue'
    BY DEF FilesTrue, ZeroTrue
  <1>4. Accounted'
    BY DEF TypeOK, FrontOK, PassOK, CallsOK, Accounted, Programs
  <1>5. FrontRests'
    BY DEF TypeOK, FrontOK, PassOK, CallsOK, FrontRests, NoJobs, Programs
  <1>6. EvidenceKept'
    BY DEF TypeOK, FrontOK, PassOK, CallsOK, EvidenceKept, At
  <1> QED
    BY <1>1, <1>2, <1>3, <1>4, <1>5, <1>6

\* drat-trim judges the copy; a good proof is deleted.
LEMMA TrimInv ==
    ASSUME Inv, NEW p \in Programs, NEW c \in Cubes, Trim(p, c)
    PROVE  Inv'
  <1> USE DEF Inv, Trim, Step, files, signs
  <1>1. TypeOK'
    BY DEF TypeOK, FrontOK, PassOK, CallsOK, Working, Returned
  <1>2. CallsTrue'
    BY DEF TypeOK, FrontOK, PassOK, CallsOK, CallsTrue
  <1>3. FilesTrue' /\ ZeroTrue'
    BY DEF FilesTrue, ZeroTrue, TypeOK, CallsTrue
  <1>4. Accounted'
    BY DEF TypeOK, FrontOK, PassOK, CallsOK, Accounted, Programs
  <1>5. FrontRests'
    BY DEF TypeOK, FrontOK, PassOK, CallsOK, FrontRests, NoJobs, Programs
  <1>6. EvidenceKept'
    BY DEF TypeOK, FrontOK, PassOK, CallsOK, EvidenceKept, At, Programs
  <1> QED
    BY <1>1, <1>2, <1>3, <1>4, <1>5, <1>6

\* A worker that has reclaimed its proof returns the row.
LEMMA ReturnRowInv ==
    ASSUME Inv, NEW p \in Programs, NEW c \in Cubes, ReturnRow(p, c)
    PROVE  Inv'
  <1> USE DEF Inv, ReturnRow, Step, files, signs
  <1>1. TypeOK'
    BY DEF TypeOK, FrontOK, PassOK, CallsOK, Working, Returned
  <1>2. CallsTrue'
    BY DEF TypeOK, FrontOK, PassOK, CallsOK, CallsTrue
  <1>3. FilesTrue' /\ ZeroTrue'
    BY DEF FilesTrue, ZeroTrue
  <1>4. Accounted'
    BY DEF TypeOK, FrontOK, PassOK, CallsOK, Accounted, Programs
  <1>5. FrontRests'
    BY DEF TypeOK, FrontOK, PassOK, CallsOK, FrontRests, NoJobs, Programs
  <1>6. EvidenceKept'
    BY DEF TypeOK, FrontOK, PassOK, CallsOK, EvidenceKept, At
  <1> QED
    BY <1>1, <1>2, <1>3, <1>4, <1>5, <1>6

\* A drat-trim or a worker is killed.
LEMMA DieInv ==
    ASSUME Inv, NEW p \in Programs, Die(p)
    PROVE  Inv'
  <1> USE DEF Inv, TypeOK, FrontOK, PassOK, CallsOK, files, signs
  <1>1. CASE \E c \in At(p, {"trim"}) : Step(p, c, "raised") /\ UNCHANGED kills
    <2>1. PICK c \in Cubes : job[p][c] = "trim" /\ job' = [job EXCEPT ![p][c] = "raised"]
      BY <1>1 DEF At, Step
    <2>2. TypeOK' /\ CallsTrue'
      BY <1>1, <2>1 DEF Die, CallsTrue, Returned
    <2>3. FilesTrue' /\ ZeroTrue'
      BY DEF Die, FilesTrue, ZeroTrue
    <2>4. Accounted' /\ FrontRests' /\ EvidenceKept'
      BY <1>1, <2>1 DEF Die, Accounted, FrontRests, NoJobs, EvidenceKept, At, Programs
    <2> QED
      BY <2>2, <2>3, <2>4
  <1>2. CASE /\ kills' = kills + 1
             /\ kills < MaxKills
             /\ At(p, Working) # {}
             /\ job' = [job EXCEPT ![p] = [c \in Cubes |->
                          IF @[c] \in Working \cup {"queued"} THEN "raised" ELSE @[c]]]
    <2>1. \A q \in Programs, c \in Cubes : job'[q][c] \in {job[q][c], "raised"}
      BY <1>2
    <2>2. TypeOK'
      <3>1. CallsOK'
        BY <1>2 DEF Returned
      <3> QED
        BY <1>2, <3>1, ProofCheckAssumption DEF Die
    <2>3. CallsTrue'
      BY <2>1 DEF Die, CallsTrue
    <2>4. FilesTrue' /\ ZeroTrue'
      BY DEF Die, FilesTrue, ZeroTrue
    <2>5. Accounted'
      BY <1>2 DEF Die, Accounted, Programs
    <2>6. job["front"] = NoJobs => job'["front"] = NoJobs
      BY <1>2 DEF NoJobs, At, Working, Programs
    <2>7. FrontRests'
      BY <2>6 DEF Die, FrontRests
    <2>8. EvidenceKept'
      BY <1>2 DEF EvidenceKept
    <2> QED
      BY <2>2, <2>3, <2>4, <2>5, <2>7, <2>8
  <1> QED
    BY <1>1, <1>2 DEF Die

-----------------------------------------------------------------------------
(* The front-loaded checker.                                               *)

\* Steps that touch neither a file of proofs nor a call.
LEMMA FrontQuiet ==
    ASSUME Inv, UNCHANGED <<files, pass, job, pruner, kills>>, TypeOK',
           front'.pc \in {"off", "start", "scan"} => job["front"] = NoJobs
    PROVE  Inv'
  BY DEF Inv, CallsTrue, FilesTrue, Accounted, ZeroTrue, FrontRests, EvidenceKept, At, files, NoJobs

\* Resume launches the checker.
LEMMA LaunchFrontInv == Inv /\ LaunchFront => Inv'
  <1> SUFFICES ASSUME Inv, LaunchFront PROVE Inv'
    OBVIOUS
  <1>1. TypeOK'
    BY DEF Inv, LaunchFront, TypeOK, FrontOK, PassOK, CallsOK, files, signs
  <1> QED
    BY <1>1, FrontQuiet DEF Inv, LaunchFront, FrontRests

\* The checker starts.
LEMMA FrontStartInv == Inv /\ FrontStart => Inv'
  <1> SUFFICES ASSUME Inv, FrontStart PROVE Inv'
    OBVIOUS
  <1>1. TypeOK'
    BY DEF Inv, FrontStart, TypeOK, FrontOK, PassOK, CallsOK, files
  <1> QED
    BY <1>1, FrontQuiet DEF Inv, FrontStart, FrontRests

\* The checker exits.
LEMMA FrontExitInv == Inv /\ FrontExit => Inv'
  <1> SUFFICES ASSUME Inv, FrontExit PROVE Inv'
    OBVIOUS
  <1>1. TypeOK'
    BY DEF Inv, FrontExit, FrontOff, TypeOK, FrontOK, PassOK, CallsOK, files
  <1> QED
    BY <1>1, FrontQuiet DEF Inv, FrontExit, FrontRests

\* A batch of the checker ends.
LEMMA BatchEndInv == Inv /\ BatchEnd => Inv'
  <1> SUFFICES ASSUME Inv, BatchEnd PROVE Inv'
    OBVIOUS
  <1>1. TypeOK'
    <2>0. front' \in {FrontOff, [front EXCEPT !.pc = "scan"]} /\ lock' \in {lock, "none"}
      BY DEF BatchEnd
    <2>1. FrontOK'
      <3>1. CASE front' = FrontOff
        BY <3>1 DEF FrontOff, FrontOK
      <3>2. CASE front' = [front EXCEPT !.pc = "scan"]
        BY <3>2 DEF Inv, TypeOK, FrontOK
      <3> QED
        BY <2>0, <3>1, <3>2
    <2>2. PassOK' /\ CallsOK'
      BY DEF Inv, BatchEnd, TypeOK, PassOK, CallsOK
    <2> QED
      BY <2>0, <2>1, <2>2 DEF Inv, BatchEnd, TypeOK, files
  <1> QED
    BY <1>1, FrontQuiet DEF Inv, BatchEnd

\* The lock grows old.
LEMMA LockAgesInv == Inv /\ LockAges => Inv'
  <1> SUFFICES ASSUME Inv, LockAges PROVE Inv'
    OBVIOUS
  <1>1. TypeOK'
    BY DEF Inv, LockAges, TypeOK, FrontOK, PassOK, CallsOK, files
  <1> QED
    BY <1>1, FrontQuiet DEF Inv, LockAges, FrontRests

\* Steps of the checker that drop or submit calls, none of which holds a row.
LEMMA FrontCalls ==
    ASSUME Inv, UNCHANGED <<files, pass, pruner>>, TypeOK',
           job'["pass"] = job["pass"],
           \A c \in Cubes : job'["front"][c] \in {"none", "queued", job["front"][c]},
           FrontRests', EvidenceKept'
    PROVE  Inv'
  <1> USE DEF Inv, files, Programs
  <1>1. CallsTrue'
    BY DEF CallsTrue
  <1>2. FilesTrue' /\ Accounted' /\ ZeroTrue'
    BY DEF FilesTrue, Accounted, ZeroTrue
  <1> QED
    BY <1>1, <1>2

\* The checker looks for proofs and submits a batch.
LEMMA FrontScanInv == Inv /\ FrontScan => Inv'
  <1> SUFFICES ASSUME Inv, FrontScan PROVE Inv'
    OBVIOUS
  <1> USE DEF FrontScan, files, Programs
  <1>1. PICK batch \in SUBSET ((Sampled \cap proof) \ front.known) :
           /\ job' = [job EXCEPT !["front"] =
                        [c \in Cubes |-> IF c \in batch THEN "queued" ELSE "none"]]
           /\ front' = IF batch = {} THEN front ELSE [front EXCEPT !.pc = "batch"]
    OBVIOUS
  <1>2. TypeOK'
    BY <1>1 DEF Inv, TypeOK, FrontOK, PassOK, CallsOK
  <1>3. FrontRests'
    BY <1>1 DEF Inv, TypeOK, FrontOK, PassOK, CallsOK, FrontRests, NoJobs
  <1>4. EvidenceKept'
    BY <1>1 DEF Inv, TypeOK, FrontOK, PassOK, CallsOK, FrontRests, NoJobs, EvidenceKept, At
  <1>5. /\ job'["pass"] = job["pass"]
        /\ \A c \in Cubes : job'["front"][c] \in {"none", "queued", job["front"][c]}
    BY <1>1 DEF Inv, TypeOK, FrontOK, PassOK, CallsOK
  <1> QED
    BY <1>2, <1>3, <1>4, <1>5, FrontCalls

\* The checker is asked to go, and drops what it can.
LEMMA StandDownInv == Inv /\ StandDown => Inv'
  <1> SUFFICES ASSUME Inv, StandDown PROVE Inv'
    OBVIOUS
  <1> USE DEF StandDown, files, signs, Programs
  <1>1. TypeOK'
    BY DEF Inv, TypeOK, FrontOK, PassOK, CallsOK
  <1>2. FrontRests'
    BY DEF Inv, TypeOK, FrontOK, PassOK, CallsOK, FrontRests
  <1>3. EvidenceKept'
    BY DEF Inv, TypeOK, FrontOK, PassOK, CallsOK, EvidenceKept, At
  <1>4. /\ job'["pass"] = job["pass"]
        /\ \A c \in Cubes : job'["front"][c] \in {"none", "queued", job["front"][c]}
    BY DEF Inv, TypeOK, FrontOK, PassOK, CallsOK
  <1> QED
    BY <1>1, <1>2, <1>3, <1>4, FrontCalls

\* The checker is killed with its pool.
LEMMA KillFrontInv == Inv /\ KillFront => Inv'
  <1> SUFFICES ASSUME Inv, KillFront PROVE Inv'
    OBVIOUS
  <1> USE DEF KillFront, files, signs, Programs, FrontOff, NoJobs
  <1>1. TypeOK'
    <2>1. FrontOK' /\ CallsOK'
      BY DEF Inv, TypeOK, FrontOK, PassOK, CallsOK
    <2>2. PassOK' /\ kills' \in 0 .. MaxKills
      BY ProofCheckAssumption DEF Inv, TypeOK, PassOK
    <2> QED
      BY <2>1, <2>2 DEF Inv, TypeOK
  <1>2. FrontRests' /\ EvidenceKept'
    BY DEF Inv, TypeOK, FrontOK, PassOK, CallsOK, FrontRests, EvidenceKept
  <1>3. /\ job'["pass"] = job["pass"]
        /\ \A c \in Cubes : job'["front"][c] \in {"none", "queued", job["front"][c]}
    BY DEF Inv, TypeOK, FrontOK, PassOK, CallsOK
  <1> QED
    BY <1>1, <1>2, <1>3, FrontCalls

\* A result is banked where it belongs.
LEMMA FrontCollectInv ==
    ASSUME Inv, NEW c \in Cubes, FrontCollect(c)
    PROVE  Inv'
  <1> USE DEF FrontCollect, BankRow, Step, files, signs, Programs
  <1>1. /\ job' = [job EXCEPT !["front"][c] = "none"]
        /\ UNCHANGED <<proof, pruned, signs, pass, pruner, kills>>
    OBVIOUS
  <1>2. /\ front'.pc = front.pc \/ front'.pc = "cancel"
        /\ FrontOK'
    <2>1. CASE job["front"][c] = "raised"
      BY <2>1 DEF Inv, TypeOK, FrontOK
    <2>2. CASE job["front"][c] # "raised"
      <3>1. front' = [pc |-> IF stop /\ front.pc = "batch" THEN "cancel" ELSE front.pc,
                      known |-> front.known \cup {c},
                      failed |-> front.failed \/ job["front"][c] # "ok"]
        BY <2>2
      <3>2. front'.failed \in BOOLEAN
        BY <3>1
      <3>3. front'.pc \in {front.pc, "cancel"}
        BY <3>1
      <3>4. front' = [pc |-> front'.pc, known |-> front.known \cup {c}, failed |-> front'.failed]
        BY <3>1
      <3>5. front.pc \in {"off", "start", "scan", "batch", "cancel", "drain"}
            /\ front.known \in SUBSET Cubes
        BY DEF Inv, TypeOK, FrontOK
      <3>6. FrontOK'
        BY <3>2, <3>3, <3>4, <3>5 DEF FrontOK
      <3> QED
        BY <3>3, <3>6
    <2> QED
      BY <2>1, <2>2
  <1>3. /\ trans' = IF job["front"][c] = "ok" THEN trans \cup {c} ELSE trans
        /\ fails' = IF job["front"][c] \in {"bad", "missing", "error"}
                    THEN fails \cup {c} ELSE fails
    BY DEF Returned
  <1>4. TypeOK'
    <2>1. PassOK' /\ CallsOK'
      BY <1>1 DEF Inv, TypeOK, PassOK, CallsOK
    <2> QED
      BY <1>1, <1>2, <1>3, <2>1 DEF Inv, TypeOK
  <1>5. CallsTrue'
    BY <1>1 DEF Inv, TypeOK, CallsOK, CallsTrue
  <1>6. FilesTrue'
    BY <1>1, <1>3 DEF Inv, CallsTrue, FilesTrue
  <1>7. Accounted' /\ ZeroTrue'
    BY <1>1, <1>3 DEF Inv, TypeOK, CallsOK, Accounted, ZeroTrue
  <1>8. FrontRests'
    BY <1>2 DEF FrontRests
  <1>9. EvidenceKept'
    <2>1. At("front", {"reclaimed", "ok"})' = At("front", {"reclaimed", "ok"}) \ {c}
      BY <1>1 DEF Inv, TypeOK, CallsOK, At
    <2>2. c \in At("front", {"reclaimed", "ok"}) => c \in trans'
      BY <1>3 DEF At, Returned
    <2>3. trans \subseteq trans'
      BY <1>3
    <2> QED
      BY <1>1, <2>1, <2>2, <2>3 DEF Inv, EvidenceKept
  <1> QED
    BY <1>4, <1>5, <1>6, <1>7, <1>8, <1>9 DEF Inv

-----------------------------------------------------------------------------
(* The pruner.                                                             *)

\* The pruner deletes a proof outside the sample.
LEMMA PruneInv ==
    ASSUME Inv, NEW c \in Cubes, Prune(c)
    PROVE  Inv'
  <1> USE DEF Prune, files, signs, Nobody
  <1>1. TypeOK' /\ CallsTrue' /\ FilesTrue'
    BY DEF Inv, TypeOK, FrontOK, PassOK, CallsOK, CallsTrue, FilesTrue
  <1>2. Accounted' /\ ZeroTrue' /\ FrontRests'
    BY DEF Inv, Accounted, ZeroTrue, FrontRests, NoJobs
  <1>3. EvidenceKept'
    BY DEF Inv, TypeOK, FrontOK, PassOK, CallsOK, EvidenceKept, At
  <1> QED
    BY <1>1, <1>2, <1>3 DEF Inv

\* The pruner logs what it deleted, or is killed before it does.
LEMMA PrunerInv == Inv /\ (LogPruned \/ KillPruner) => Inv'
  <1> SUFFICES ASSUME Inv, LogPruned \/ KillPruner PROVE Inv'
    OBVIOUS
  <1> USE DEF LogPruned, KillPruner, files, signs, Nobody
  <1>1. TypeOK' /\ CallsTrue' /\ FilesTrue'
    <2>1. kills' \in 0 .. MaxKills
      BY ProofCheckAssumption DEF Inv, TypeOK
    <2> QED
      BY <2>1 DEF Inv, TypeOK, FrontOK, PassOK, CallsOK, CallsTrue, FilesTrue
  <1>2. Accounted' /\ ZeroTrue' /\ FrontRests'
    BY DEF Inv, Accounted, ZeroTrue, FrontRests, NoJobs
  <1>3. EvidenceKept'
    BY DEF Inv, TypeOK, FrontOK, PassOK, CallsOK, EvidenceKept, At
  <1> QED
    BY <1>1, <1>2, <1>3 DEF Inv

-----------------------------------------------------------------------------
(* Phase 3 and check_pass.                                                 *)

\* Steps that touch neither a file of proofs nor a call, and end nothing with
\* exit code 0 that was not so.
LEMMA PassQuiet ==
    ASSUME Inv, UNCHANGED <<files, lock, front, job, pruner, kills>>,
           stop' \in BOOLEAN, marker' \in BOOLEAN, PassOK', Accounted', ZeroTrue'
    PROVE  Inv'
  <1>1. TypeOK'
    BY DEF Inv, TypeOK, FrontOK, CallsOK, files
  <1> QED
    BY <1>1 DEF Inv, CallsTrue, FilesTrue, FrontRests, EvidenceKept, At, files, NoJobs

\* What the orchestrator does in phase 3.
LEMMA PhaseInv ==
    Inv /\ (WriteStop \/ WriteMarker \/ WaitAgain \/ StartPass \/ EndPhase \/ RestartPhase)
    => Inv'
  <1> SUFFICES ASSUME Inv PROVE
        WriteStop \/ WriteMarker \/ WaitAgain \/ StartPass \/ EndPhase \/ RestartPhase => Inv'
    OBVIOUS
  <1> USE DEF PassGoto, PassIdle, files, signs
  <1>1. stop \in BOOLEAN /\ marker \in BOOLEAN
    BY DEF Inv, TypeOK
  <1>2. CASE WriteStop \/ WriteMarker
    <2>1. PassOK' /\ Accounted' /\ ZeroTrue'
      BY <1>2 DEF WriteStop, WriteMarker, Inv, TypeOK, PassOK, Accounted, ZeroTrue
    <2> QED
      BY <1>1, <1>2, <2>1, PassQuiet DEF WriteStop, WriteMarker
  <1>3. CASE WaitAgain
    <2>1. PassOK' /\ Accounted' /\ ZeroTrue'
      BY <1>3, ProofCheckAssumption DEF WaitAgain, Inv, TypeOK, PassOK, Accounted, ZeroTrue
    <2> QED
      BY <1>1, <1>3, <2>1, PassQuiet DEF WaitAgain
  <1>4. CASE StartPass \/ RestartPhase
    <2>1. PassOK' /\ Accounted' /\ ZeroTrue'
      BY <1>4, ProofCheckAssumption
         DEF StartPass, RestartPhase, Inv, TypeOK, PassOK, Accounted, ZeroTrue
    <2> QED
      BY <1>1, <1>4, <2>1, PassQuiet DEF StartPass, RestartPhase
  <1>5. CASE EndPhase
    <2>1. PassOK' /\ Accounted' /\ ZeroTrue'
      BY <1>5 DEF EndPhase, Inv, TypeOK, PassOK, Accounted, ZeroTrue
    <2> QED
      BY <1>1, <1>5, <2>1, PassQuiet DEF EndPhase
  <1> QED
    BY <1>2, <1>3, <1>4, <1>5

\* A pass ends with an exit code.
LEMMA PassDoneInv == Inv /\ PassDone => Inv'
  <1> SUFFICES ASSUME Inv, PassDone PROVE Inv'
    OBVIOUS
  <1> USE DEF PassDone, files, signs
  <1>1. /\ pass' = [pass EXCEPT !.pc = "over", !.rc = ExitCode]
        /\ ExitCode \in 0 .. 3
        /\ ExitCode = 0 => pass.errored = {} /\ pass.failed = {}
    BY DEF ExitCode
  <1>2. PassOK'
    BY <1>1 DEF Inv, TypeOK, PassOK
  <1>3. Accounted'
    BY <1>1 DEF Inv, TypeOK, PassOK, Accounted
  <1>4. ZeroTrue'
    <2>1. \A c \in Cubes : job["pass"][c] = "none"
      BY DEF NoJobs
    <2>2. ExitCode = 0 => proof \subseteq trans
      BY <1>1, <2>1 DEF Inv, TypeOK, Accounted
    <2> QED
      BY <1>1, <1>2, <2>2 DEF Inv, TypeOK, PassOK, ZeroTrue
  <1>5. stop' \in BOOLEAN /\ marker' \in BOOLEAN
    BY DEF Inv, TypeOK
  <1> QED
    BY <1>2, <1>3, <1>4, <1>5, PassQuiet

\* Steps of phase 3 that drop or submit calls of check_pass.
LEMMA PassCalls ==
    ASSUME Inv, UNCHANGED <<files, signs, front, pruner>>,
           job' = [job EXCEPT !["pass"] = job'["pass"]],
           \A c \in Cubes : job'["pass"][c] \in {"none", "queued"},
           kills' \in {kills, kills + 1}, kills' \in 0 .. MaxKills,
           PassOK', CallsOK', Accounted', ZeroTrue'
    PROVE  Inv'
  <1> USE DEF Inv, files, signs, Programs
  <1>1. TypeOK'
    BY DEF TypeOK, FrontOK
  <1>2. job'["front"] = job["front"]
    BY DEF TypeOK, CallsOK
  <1>3. CallsTrue'
    BY <1>2 DEF CallsTrue
  <1>4. FilesTrue' /\ FrontRests'
    BY <1>2 DEF FilesTrue, FrontRests, NoJobs
  <1>5. EvidenceKept'
    BY <1>2 DEF EvidenceKept, At, TypeOK
  <1> QED
    BY <1>1, <1>3, <1>4, <1>5

\* A pass lists what it has to check.
LEMMA ListJobsInv == Inv /\ ListJobs => Inv'
  <1> SUFFICES ASSUME Inv, ListJobs PROVE Inv'
    OBVIOUS
  <1> USE DEF ListJobs, PassGoto, files, signs, Programs
  <1>1. /\ job'["pass"] = [c \in Cubes |-> IF c \in proof \ trans THEN "queued" ELSE "none"]
        /\ PassOK' /\ CallsOK' /\ kills' \in 0 .. MaxKills
    BY DEF Inv, TypeOK, PassOK, CallsOK
  <1>2. Accounted' /\ ZeroTrue'
    BY <1>1 DEF Inv, TypeOK, PassOK, Accounted, ZeroTrue
  <1> QED
    BY <1>1, <1>2, PassCalls

\* A pass retries what its pool lost.
LEMMA RetryInv == Inv /\ Retry => Inv'
  <1> SUFFICES ASSUME Inv, Retry PROVE Inv'
    OBVIOUS
  <1> USE DEF Retry, files, signs, Programs
  <1>1. /\ job'["pass"] = [c \in Cubes |-> IF c \in pass.errored THEN "queued" ELSE "none"]
        /\ PassOK' /\ CallsOK' /\ kills' \in 0 .. MaxKills
    BY DEF Inv, TypeOK, PassOK, CallsOK
  <1>2. Accounted' /\ ZeroTrue'
    BY <1>1 DEF Inv, TypeOK, PassOK, Accounted, ZeroTrue, NoJobs
  <1> QED
    BY <1>1, <1>2, PassCalls

\* A pass is killed with its pool.
LEMMA KillPassInv == Inv /\ KillPass => Inv'
  <1> SUFFICES ASSUME Inv, KillPass PROVE Inv'
    OBVIOUS
  <1> USE DEF KillPass, NoJobs, PassIdle, files, signs, Programs
  <1>1. /\ job'["pass"] = NoJobs
        /\ PassOK' /\ CallsOK'
    BY ProofCheckAssumption DEF Inv, TypeOK, PassOK, CallsOK
  <1>2. kills' \in 0 .. MaxKills
    BY ProofCheckAssumption DEF Inv, TypeOK
  <1>3. Accounted' /\ ZeroTrue'
    BY DEF Inv, TypeOK, PassOK, Accounted, ZeroTrue
  <1> QED
    BY <1>1, <1>2, <1>3, PassCalls

\* A pass banks a row.
LEMMA PassCollectInv ==
    ASSUME Inv, NEW c \in Cubes, PassCollect(c)
    PROVE  Inv'
  <1> USE DEF files, signs, Programs
  <1>1. job["pass"][c] \in Returned /\ pass.pc \in {"main", "retry"}
    BY DEF PassCollect
  <1> DEFINE errored == IF Classify(c) = "checker-error" THEN pass.errored \cup {c}
                        ELSE pass.errored
             failed == IF Classify(c) = "check-failure" THEN pass.failed \cup {c}
                       ELSE pass.failed
             abort == Cardinality(failed) > MaxFails
  <1>2. /\ pass' = [pass EXCEPT !.errored = errored, !.failed = failed,
                               !.rc = IF abort THEN 2 ELSE @,
                               !.pc = IF abort THEN "over" ELSE @]
        /\ job' = [job EXCEPT !["pass"] =
                     IF abort THEN NoJobs ELSE [@ EXCEPT ![c] = "none"]]
    BY DEF PassCollect
  <1> HIDE DEF abort
  <1>3. /\ trans' = IF Classify(c) = "transcript" THEN trans \cup {c} ELSE trans
        /\ fails' = IF Classify(c) = "check-failure" THEN fails \cup {c} ELSE fails
        /\ UNCHANGED <<proof, pruned, signs, front, pruner, kills>>
    BY DEF PassCollect
  <1>4. /\ Classify(c) = "transcript" => c \in Good
        /\ Classify(c) = "check-failure" => c \notin Good \/ c \in Slow \/ c \notin proof
        /\ Classify(c) = "skip" => c \in trans
        /\ Classify(c) \in {"transcript", "check-failure", "checker-error", "skip"}
    BY <1>1 DEF Classify, Returned, Inv, CallsTrue
  <1>5. /\ job'["front"] = job["front"]
        /\ \A e \in Cubes : job'["pass"][e] \in {"none", job["pass"][e]}
        /\ pass'.pc \in {"main", "retry"} =>
              \A e \in Cubes \ {c} : job'["pass"][e] = job["pass"][e]
    BY <1>2 DEF Inv, TypeOK, CallsOK, PassOK, NoJobs
  <1>6. TypeOK'
    <2>1. CallsOK'
      BY <1>2 DEF Inv, TypeOK, CallsOK, NoJobs
    <2>2. PassOK'
      <3>1. errored \in SUBSET Cubes /\ failed \in SUBSET Cubes
        BY DEF Inv, TypeOK, PassOK
      <3> HIDE DEF errored, failed
      <3>2. CASE abort
        <4>1. pass' = [pc |-> "over", waited |-> pass.waited, errored |-> errored,
                       failed |-> failed, rc |-> 2]
          BY <1>2, <3>2 DEF Inv, TypeOK, PassOK
        <4> QED
          BY <3>1, <4>1 DEF Inv, TypeOK, PassOK
      <3>3. CASE ~abort
        BY <1>2, <3>1, <3>3 DEF Inv, TypeOK, PassOK
      <3> QED
        BY <3>2, <3>3
    <2>3. FrontOK'
      BY <1>3 DEF Inv, TypeOK, FrontOK
    <2> QED
      BY <1>3, <2>1, <2>2, <2>3 DEF Inv, TypeOK
  <1>7. CallsTrue'
    BY <1>3, <1>5 DEF Inv, CallsTrue
  <1>8. FilesTrue'
    BY <1>3, <1>4 DEF Inv, FilesTrue
  <1>9. Accounted'
    <2> SUFFICES ASSUME pass'.pc \in {"main", "retry"}, NEW e \in proof
                 PROVE  e \in trans' \cup pass'.errored \cup pass'.failed
                        \/ job'["pass"][e] # "none"
      BY <1>3 DEF Accounted
    <2>1. e \in Cubes
      BY DEF Inv, TypeOK
    <2>2. pass'.errored = IF Classify(c) = "checker-error" THEN pass.errored \cup {c}
                          ELSE pass.errored
      BY <1>2 DEF Inv, TypeOK, PassOK
    <2>3. pass'.failed = IF Classify(c) = "check-failure" THEN pass.failed \cup {c}
                         ELSE pass.failed
      BY <1>2 DEF Inv, TypeOK, PassOK
    <2>4. CASE e = c
      BY <1>3, <1>4, <2>2, <2>3, <2>4
    <2>5. CASE e # c
      BY <1>1, <1>3, <1>5, <2>1, <2>2, <2>3, <2>5 DEF Inv, Accounted
    <2> QED
      BY <2>4, <2>5
  <1>10. ZeroTrue'
    BY <1>1, <1>2, <1>6 DEF Inv, TypeOK, PassOK, ZeroTrue
  <1>11. FrontRests' /\ EvidenceKept'
    BY <1>3, <1>5 DEF Inv, FrontRests, NoJobs, EvidenceKept, At
  <1> QED
    BY <1>6, <1>7, <1>8, <1>9, <1>10, <1>11 DEF Inv

-----------------------------------------------------------------------------
(* All together.                                                           *)

\* Nothing happens.
LEMMA StutterInv == Inv /\ UNCHANGED vars => Inv'
  BY DEF vars, files, signs, Inv, TypeOK, FrontOK, PassOK, CallsOK, CallsTrue, FilesTrue,
         Accounted, ZeroTrue, FrontRests, EvidenceKept, At, NoJobs

\* Each step keeps the invariant.
LEMMA Inductive == Inv /\ [Next]_vars => Inv'
  <1> SUFFICES ASSUME Inv, Next PROVE Inv'
    BY StutterInv
  <1>1. ASSUME NEW p \in Programs, Worker(p) PROVE Inv'
    BY <1>1, LookInv, CopyInv, TrimInv, ReturnRowInv DEF Worker
  <1>2. ASSUME NEW p \in Programs, Die(p) PROVE Inv'
    BY <1>2, DieInv
  <1>3. CASE LaunchFront \/ FrontStep \/ LockAges \/ KillFront
    BY <1>3, LaunchFrontInv, FrontStartInv, FrontScanInv, FrontExitInv, FrontCollectInv,
       StandDownInv, BatchEndInv, LockAgesInv, KillFrontInv DEF FrontStep
  <1>4. CASE PassStep \/ RestartPhase \/ KillPass
    BY <1>4, PhaseInv, ListJobsInv, RetryInv, PassCollectInv, PassDoneInv, KillPassInv
       DEF PassStep
  <1>5. CASE PrunerStep \/ KillPruner
    BY <1>5, PruneInv, PrunerInv DEF PrunerStep
  <1> QED
    BY <1>1, <1>2, <1>3, <1>4, <1>5 DEF Next

\* The invariant holds in every reachable state.
LEMMA Invariance == Spec => []Inv
  BY InitInv, Inductive, PTL DEF Spec

\* The state of checker, pruner and check pass keeps its shape.
THEOREM CheckTypeCorrect == Spec => []TypeOK
  <1>1. Inv => TypeOK
    BY DEF Inv
  <1> QED
    BY <1>1, Invariance, PTL

\* As long as no process of sample_prune.py or check_pass.py is killed, a proof
\* is off the disk only with its row banked, or about to be: for any sample,
\* any batches and any handover.
THEOREM NothingThrownAway == Spec => []EvidenceKept
  <1>1. Inv => EvidenceKept
    BY DEF Inv
  <1> QED
    BY <1>1, Invariance, PTL

\* check_pass.py exits with 0 only if no proof on disk is unchecked, and files
\* no good proof as failed because something died.
THEOREM PassAnswersTrue == Spec => []PassTrue
  <1>1. Inv => PassTrue
    BY DEF Inv, FilesTrue, ZeroTrue, PassTrue, PassCovers, FailuresAreMath
  <1> QED
    BY <1>1, Invariance, PTL

\* A proof that drat-trim refuses never gets a transcript line, and phase 3 is
\* never complete over a sample that holds one.
THEOREM BadProofsHalt == Spec => []BadProofHalts
  <1>1. Inv => BadProofHalts
    BY DEF Inv, FilesTrue, ZeroTrue, BadProofHalts
  <1> QED
    BY <1>1, Invariance, PTL
=============================================================================
