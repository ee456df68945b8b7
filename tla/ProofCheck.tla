----------------------------- MODULE ProofCheck -----------------------------
(***************************************************************************)
(* Who checks, banks and deletes the proofs of a finished totalizer wave:  *)
(* the front-loaded checker (sample_prune.py check, restarted by           *)
(* resume_campaign.ps1), the pruner (sample_prune.py prune) and phase 3 of *)
(* run_campaign.py, which asks the checker to stand down and then runs     *)
(* check_pass.py.  Every cube here has an UNSAT verdict with a digest.     *)
(***************************************************************************)
EXTENDS FiniteSets, Naturals

CONSTANTS
    Cubes,
    Sampled,    \* the declared sample: proofs that are to be verified
    Archived,   \* id % 512 = 0: proofs kept on disk after they were dealt with
    Good,       \* cubes whose proof drat-trim verifies, given the time
    Slow,       \* cubes whose proof may outlast drat-trim's time limit
    Front,      \* TRUE: the front-loaded checker is in use
    Deaths,     \* what may be killed under a running check: "tool", "worker"
    BatchMax,   \* proofs in one batch of the checker (60)
    MaxWaits,   \* polls of the lock before going on anyway (18 and 12)
    MaxFails,   \* failures check_pass puts up with (10)
    MaxKills    \* bound on killed programs and workers

ASSUME ProofCheckAssumption ==
    /\ Sampled \subseteq Cubes /\ Archived \subseteq Cubes
    /\ Good \subseteq Cubes /\ Slow \subseteq Cubes
    /\ Deaths \subseteq {"tool", "worker"}
    /\ MaxWaits \in Nat /\ MaxKills \in Nat

VARIABLES
    proof,     \* cubes whose proof is on disk
    trans,     \* cubes with a verified row in transcripts.jsonl
    pruned,    \* cubes with a row in pruned.jsonl
    fails,     \* cubes with a row in CHECK_FAILURES.jsonl
    stop,      \* STOP_CHECKER exists
    marker,    \* PHASE3_ACTIVE exists
    lock,      \* PRUNER_RUNNING_check: none, or younger or older than 1800 s
    front,     \* the front-loaded checker
    pass,      \* phase 3: the orchestrator, then check_pass.py
    job,       \* job[p][c]: the check_one call of program p for cube c
    pruner,    \* the proof the pruner removed and has not logged yet
    kills

files == <<proof, trans, pruned, fails>>
signs == <<stop, marker, lock>>
vars == <<proof, trans, pruned, fails, stop, marker, lock, front, pass, job, pruner, kills>>

Programs == {"front", "pass"}
Nobody == {}

\* A call is waiting, working, or has returned (or raised) and is not banked.
Working == {"open", "trim", "reclaimed"}
Returned == {"ok", "bad", "missing", "error", "raised"}
NoJobs == [c \in Cubes |-> "none"]
At(p, states) == {c \in Cubes : job[p][c] \in states}
Step(p, c, state) == job' = [job EXCEPT ![p][c] = state]

Least(a, b) == IF a < b THEN a ELSE b

FrontOff == [pc |-> "off", known |-> {}, failed |-> FALSE]
PassIdle == [pc |-> "idle", waited |-> 0, errored |-> {}, failed |-> {}, rc |-> 0]

Init ==
    /\ proof = Cubes
    /\ trans = {} /\ pruned = {} /\ fails = {}
    /\ stop = FALSE /\ marker = FALSE /\ lock = "none"
    /\ front = FrontOff
    /\ pass = PassIdle
    /\ job = [p \in Programs |-> NoJobs]
    /\ pruner = Nobody
    /\ kills = 0

-----------------------------------------------------------------------------
(* check_one, in a worker process of program p.                            *)

\* One worker serves the checker, many serve check_pass.
MayStart(p) == p = "front" => At("front", Working) = {}

\* Is there a proof at all?
Look(p, c) ==
    /\ job[p][c] = "queued"
    /\ MayStart(p)
    /\ Step(p, c, IF c \in proof THEN "open" ELSE "missing")
    /\ UNCHANGED <<files, signs, front, pass, pruner, kills>>

\* Copy and hash it; a file that is gone by now is an exception, hence a row
\* with ok false and no missing_proof.
Copy(p, c) ==
    /\ job[p][c] = "open"
    /\ Step(p, c, IF c \in proof THEN "trim" ELSE "error")
    /\ UNCHANGED <<files, signs, front, pass, pruner, kills>>

\* drat-trim's answer.  The checker's own check_one deletes a verified proof
\* before it returns the row.
Trim(p, c) ==
    /\ job[p][c] = "trim"
    /\ \/ /\ c \in Good /\ p = "front" /\ c \notin Archived
          /\ proof' = proof \ {c}
          /\ Step(p, c, "reclaimed")
       \/ /\ ~(c \in Good /\ p = "front" /\ c \notin Archived)
          /\ Step(p, c, IF c \in Good THEN "ok" ELSE "bad")
          /\ UNCHANGED proof
       \/ /\ c \in Slow
          /\ Step(p, c, "error")
          /\ UNCHANGED proof
    /\ UNCHANGED <<trans, pruned, fails, signs, front, pass, pruner, kills>>

ReturnRow(p, c) ==
    /\ job[p][c] = "reclaimed"
    /\ Step(p, c, "ok")
    /\ UNCHANGED <<files, signs, front, pass, pruner, kills>>

\* A killed drat-trim raises CheckerKilled; a killed worker breaks the pool,
\* which fails every call that has not returned.
Die(p) ==
    /\ \/ /\ "tool" \in Deaths
          /\ \E c \in At(p, {"trim"}) : Step(p, c, "raised")
          /\ UNCHANGED kills
       \/ /\ "worker" \in Deaths
          /\ At(p, Working) # {}
          /\ kills < MaxKills
          /\ kills' = kills + 1
          /\ job' = [job EXCEPT ![p] = [c \in Cubes |->
                       IF @[c] \in Working \cup {"queued"} THEN "raised" ELSE @[c]]]
    /\ UNCHANGED <<files, signs, front, pass, pruner>>

-----------------------------------------------------------------------------
(* sample_prune.py in check mode.                                          *)

\* resume_campaign.ps1 sees no failed proof, no PHASE3_ACTIVE and no checker,
\* and launches one.
LaunchFront ==
    /\ Front /\ fails = {} /\ ~marker
    /\ front.pc = "off"
    /\ front' = [front EXCEPT !.pc = "start"]
    /\ UNCHANGED <<files, signs, pass, job, pruner, kills>>

\* It removes a stop file left over, takes the lock, reads what is done.
FrontStart ==
    /\ front.pc = "start"
    /\ stop' = FALSE
    /\ lock' = "fresh"
    /\ front' = [pc |-> "scan", known |-> trans \cup pruned, failed |-> FALSE]
    /\ UNCHANGED <<files, marker, pass, job, pruner, kills>>

\* Seeded bug: the stop file is not looked at between batches.
BugFrontScan ==
    /\ front.pc = "scan"
    /\ Cardinality(front.known) < Cardinality(Cubes)
    /\ LET todo == (Sampled \cap proof) \ front.known IN
       \E batch \in SUBSET todo :
          /\ Cardinality(batch) = Least(BatchMax, Cardinality(todo))
          /\ job' = [job EXCEPT !["front"] =
                       [c \in Cubes |-> IF c \in batch THEN "queued" ELSE "none"]]
          /\ front' = IF batch = {} THEN front ELSE [front EXCEPT !.pc = "batch"]
    /\ lock' = "fresh"
    /\ UNCHANGED <<files, stop, marker, pass, pruner, kills>>

\* One turn of the loop: touch the lock, list the proofs, submit a batch.
FrontScan ==
    /\ front.pc = "scan"
    /\ ~stop
    /\ Cardinality(front.known) < Cardinality(Cubes)
    /\ LET todo == (Sampled \cap proof) \ front.known IN
       \E batch \in SUBSET todo :
          /\ Cardinality(batch) = Least(BatchMax, Cardinality(todo))
          /\ job' = [job EXCEPT !["front"] =
                       [c \in Cubes |-> IF c \in batch THEN "queued" ELSE "none"]]
          /\ front' = IF batch = {} THEN front ELSE [front EXCEPT !.pc = "batch"]
    /\ lock' = "fresh"
    /\ UNCHANGED <<files, stop, marker, pass, pruner, kills>>

FrontExit ==
    /\ front.pc = "scan"
    /\ stop \/ Cardinality(front.known) >= Cardinality(Cubes)
    /\ front' = FrontOff
    /\ lock' = "none"
    /\ UNCHANGED <<files, stop, marker, pass, job, pruner, kills>>

\* Seeded bug: a row is banked as verified without a look at its "ok".
BugBankRow(c) ==
    /\ front' = [pc |-> IF stop /\ front.pc = "batch" THEN "cancel" ELSE front.pc,
                 known |-> front.known \cup {c},
                 failed |-> front.failed]
    /\ trans' = trans \cup {c}
    /\ UNCHANGED fails

\* bank_row: verified rows to the transcripts, all others to the failures.
BankRow(c) ==
    /\ front' = [pc |-> IF stop /\ front.pc = "batch" THEN "cancel" ELSE front.pc,
                 known |-> front.known \cup {c},
                 failed |-> front.failed \/ job["front"][c] # "ok"]
    /\ trans' = IF job["front"][c] = "ok" THEN trans \cup {c} ELSE trans
    /\ fails' = IF job["front"][c] = "ok" THEN fails ELSE fails \cup {c}

\* A result arrives, in the batch or while it is drained.  A call that raised
\* is logged and left for the next pass, past the look at the stop file.
FrontCollect(c) ==
    /\ front.pc \in {"batch", "drain"}
    /\ job["front"][c] \in Returned
    /\ IF job["front"][c] = "raised" THEN UNCHANGED <<trans, fails, front>>
       ELSE BankRow(c)
    /\ Step("front", c, "none")
    /\ UNCHANGED <<proof, pruned, signs, pass, pruner, kills>>

\* Seeded bug: standing down abandons what the workers are still computing.
BugStandDown ==
    /\ front.pc = "cancel"
    /\ job' = [job EXCEPT !["front"] = NoJobs]
    /\ front' = [front EXCEPT !.pc = "drain"]
    /\ UNCHANGED <<files, signs, pass, pruner, kills>>

\* shutdown(cancel_futures=True) reaches what the call queue does not hold yet:
\* at most max_workers + 1 of the waiting calls run on.
StandDown ==
    /\ front.pc = "cancel"
    /\ \E on \in SUBSET At("front", {"queued"}) :
          /\ Cardinality(on) <= 2
          /\ job' = [job EXCEPT !["front"] = [c \in Cubes |->
                       IF @[c] = "queued" /\ c \notin on THEN "none" ELSE @[c]]]
    /\ front' = [front EXCEPT !.pc = "drain"]
    /\ UNCHANGED <<files, signs, pass, pruner, kills>>

\* The batch is over: halt after a failure, else the next turn.
BatchEnd ==
    /\ front.pc \in {"batch", "drain"}
    /\ job["front"] = NoJobs
    /\ IF front.failed THEN front' = FrontOff /\ lock' = "none"
       ELSE front' = [front EXCEPT !.pc = "scan"] /\ UNCHANGED lock
    /\ UNCHANGED <<files, stop, marker, pass, job, pruner, kills>>

\* A batch, or a dead checker, leaves the lock's time stamp alone for 1800 s.
LockAges ==
    /\ lock = "fresh"
    /\ front.pc # "scan"
    /\ lock' = "stale"
    /\ UNCHANGED <<files, stop, marker, front, pass, job, pruner, kills>>

KillFront ==
    /\ kills < MaxKills /\ kills' = kills + 1
    /\ front.pc # "off"
    /\ front' = FrontOff
    /\ job' = [job EXCEPT !["front"] = NoJobs]
    /\ UNCHANGED <<files, signs, pass, pruner>>

-----------------------------------------------------------------------------
(* sample_prune.py in prune mode: proofs outside the sample.               *)

Prune(c) ==
    /\ pruner = Nobody
    /\ c \in proof \ Sampled
    /\ c \notin pruned
    /\ pruner' = {c}
    /\ proof' = IF c \in Archived THEN proof ELSE proof \ {c}
    /\ UNCHANGED <<trans, pruned, fails, signs, front, pass, job, kills>>

LogPruned ==
    /\ pruner # Nobody
    /\ pruned' = pruned \cup pruner
    /\ pruner' = Nobody
    /\ UNCHANGED <<proof, trans, fails, signs, front, pass, job, kills>>

KillPruner ==
    /\ kills < MaxKills /\ kills' = kills + 1
    /\ pruner # Nobody
    /\ pruner' = Nobody
    /\ UNCHANGED <<files, signs, front, pass, job>>

-----------------------------------------------------------------------------
(* Phase 3 in run_campaign.py, then check_pass.py.                         *)

PassGoto(pc) == pass' = [pass EXCEPT !.pc = pc]

WriteStop ==
    /\ pass.pc = "idle"
    /\ stop' = TRUE
    /\ PassGoto("mark")
    /\ UNCHANGED <<files, marker, lock, front, job, pruner, kills>>

WriteMarker ==
    /\ pass.pc = "mark"
    /\ marker' = TRUE
    /\ PassGoto("wait")
    /\ UNCHANGED <<files, stop, lock, front, job, pruner, kills>>

\* Seeded bug: the wait for the lock has no bound.
BugMayGoOn == lock # "fresh"

\* The lock is gone, or too old to be believed, or was waited for long enough.
MayGoOn == lock # "fresh" \/ pass.waited >= MaxWaits

\* Seeded bug: one poll too many.
BugWaitAgain ==
    /\ pass.pc \in {"wait", "waitPass"}
    /\ lock = "fresh"
    /\ pass.waited <= MaxWaits
    /\ pass' = [pass EXCEPT !.waited = @ + 1]
    /\ UNCHANGED <<files, signs, front, job, pruner, kills>>

\* Both programs wait the same way: the orchestrator, then check_pass.
WaitAgain ==
    /\ pass.pc \in {"wait", "waitPass"}
    /\ lock = "fresh"
    /\ pass.waited < MaxWaits
    /\ pass' = [pass EXCEPT !.waited = @ + 1]
    /\ UNCHANGED <<files, signs, front, job, pruner, kills>>

StartPass ==
    /\ pass.pc = "wait"
    /\ MayGoOn
    /\ pass' = [PassIdle EXCEPT !.pc = "waitPass"]
    /\ UNCHANGED <<files, signs, front, job, pruner, kills>>

\* The job list: proofs on disk without a transcript line.  A missing proof is
\* taken for the pruner's policy and skipped.
ListJobs ==
    /\ pass.pc = "waitPass"
    /\ MayGoOn
    /\ job' = [job EXCEPT !["pass"] =
                 [c \in Cubes |-> IF c \in proof \ trans THEN "queued" ELSE "none"]]
    /\ PassGoto("main")
    /\ UNCHANGED <<files, signs, front, pruner, kills>>

\* Seeded bug: a worker that died is filed as a proof that failed.
BugClassify(c) ==
    CASE job["pass"][c] = "ok"      -> "transcript"
      [] job["pass"][c] = "missing" -> IF c \in trans THEN "skip" ELSE "checker-error"
      [] job["pass"][c] \in {"bad", "error", "raised"} -> "check-failure"

\* classify, reading transcripts.jsonl as it is now.
Classify(c) ==
    CASE job["pass"][c] = "ok"      -> "transcript"
      [] job["pass"][c] = "raised"  -> "checker-error"
      [] job["pass"][c] = "missing" -> IF c \in trans THEN "skip" ELSE "checker-error"
      [] job["pass"][c] \in {"bad", "error"} -> "check-failure"

\* run_batch: file one result; more than MaxFails failures abort the pass.
PassCollect(c) ==
    /\ pass.pc \in {"main", "retry"}
    /\ job["pass"][c] \in Returned
    /\ LET kind == Classify(c)
           failed == IF kind = "check-failure" THEN pass.failed \cup {c} ELSE pass.failed
           abort == Cardinality(failed) > MaxFails
       IN
       /\ trans' = IF kind = "transcript" THEN trans \cup {c} ELSE trans
       /\ fails' = IF kind = "check-failure" THEN fails \cup {c} ELSE fails
       /\ pass' = [pass EXCEPT
                     !.errored = IF kind = "checker-error" THEN @ \cup {c} ELSE @,
                     !.failed = failed,
                     !.rc = IF abort THEN 2 ELSE @,
                     !.pc = IF abort THEN "over" ELSE @]
       /\ job' = [job EXCEPT !["pass"] =
                    IF abort THEN NoJobs ELSE [@ EXCEPT ![c] = "none"]]
    /\ UNCHANGED <<proof, pruned, signs, front, pruner, kills>>

\* Everything that was not judged is tried once more.
Retry ==
    /\ pass.pc = "main"
    /\ job["pass"] = NoJobs
    /\ pass.errored # {}
    /\ job' = [job EXCEPT !["pass"] =
                 [c \in Cubes |-> IF c \in pass.errored THEN "queued" ELSE "none"]]
    /\ pass' = [pass EXCEPT !.pc = "retry", !.errored = {}]
    /\ UNCHANGED <<files, signs, front, pruner, kills>>

\* Seeded bug: cubes that stayed unchecked do not show in the exit code.
BugExitCode == IF pass.failed # {} THEN 1 ELSE 0

ExitCode == IF pass.errored # {} THEN 3 ELSE IF pass.failed # {} THEN 1 ELSE 0

PassDone ==
    /\ pass.pc \in {"main", "retry"}
    /\ job["pass"] = NoJobs
    /\ pass.pc = "main" => pass.errored = {}
    /\ pass' = [pass EXCEPT !.pc = "over", !.rc = ExitCode]
    /\ UNCHANGED <<files, signs, front, job, pruner, kills>>

\* The orchestrator takes both files away and goes on (0), or halts.
EndPhase ==
    /\ pass.pc = "over"
    /\ stop' = FALSE /\ marker' = FALSE
    /\ PassGoto(IF pass.rc = 0 THEN "complete" ELSE "halted")
    /\ UNCHANGED <<files, lock, front, job, pruner, kills>>

\* resume_campaign.ps1 restarts an orchestrator that halted or died, but not
\* through a proof that failed; phase 3 begins anew.
RestartPhase ==
    /\ pass.pc = "halted"
    /\ fails = {}
    /\ pass' = PassIdle
    /\ UNCHANGED <<files, signs, front, job, pruner, kills>>

\* The orchestrator dies with its check_pass; the two sign files stay.
KillPass ==
    /\ kills < MaxKills /\ kills' = kills + 1
    /\ pass.pc \notin {"idle", "complete", "halted"}
    /\ pass' = [PassIdle EXCEPT !.pc = "halted"]
    /\ job' = [job EXCEPT !["pass"] = NoJobs]
    /\ UNCHANGED <<files, signs, front, pruner>>

-----------------------------------------------------------------------------

Worker(p) ==
    \E c \in Cubes : Look(p, c) \/ Copy(p, c) \/ Trim(p, c) \/ ReturnRow(p, c)

FrontStep ==
    \/ FrontStart \/ FrontScan \/ FrontExit
    \/ \E c \in Cubes : FrontCollect(c)
    \/ StandDown \/ BatchEnd

PassStep ==
    \/ WriteStop \/ WriteMarker \/ WaitAgain \/ StartPass \/ ListJobs
    \/ \E c \in Cubes : PassCollect(c)
    \/ Retry \/ PassDone \/ EndPhase

PrunerStep == LogPruned \/ \E c \in Cubes : Prune(c)

Next ==
    \/ \E p \in Programs : Worker(p) \/ Die(p)
    \/ LaunchFront \/ FrontStep \/ LockAges
    \/ PassStep \/ RestartPhase
    \/ PrunerStep
    \/ KillFront \/ KillPruner \/ KillPass

Spec == Init /\ [][Next]_vars

\* Every process runs, and drat-trim has a time limit.  Nobody has to launch
\* the checker, and a lock need never age: its holder may touch it in time.
Fairness ==
    /\ \A p \in Programs : WF_vars(Worker(p))
    /\ WF_vars(FrontStep) /\ WF_vars(PassStep) /\ WF_vars(PrunerStep)

FairSpec == Spec /\ Fairness

-----------------------------------------------------------------------------
(* Properties.                                                             *)

FrontOK ==
    front \in [pc : {"off", "start", "scan", "batch", "cancel", "drain"},
               known : SUBSET Cubes, failed : BOOLEAN]

PassOK ==
    pass \in [pc : {"idle", "mark", "wait", "waitPass", "main", "retry", "over",
                    "complete", "halted"},
              waited : 0..MaxWaits, errored : SUBSET Cubes,
              failed : SUBSET Cubes, rc : 0..3]

CallsOK == job \in [Programs -> [Cubes -> {"none", "queued"} \cup Working \cup Returned]]

\* The shape of the state.
TypeOK ==
    /\ {proof, trans, pruned, fails, pruner} \subseteq SUBSET Cubes
    /\ stop \in BOOLEAN /\ marker \in BOOLEAN
    /\ lock \in {"none", "fresh", "stale"}
    /\ FrontOK /\ PassOK /\ CallsOK
    /\ kills \in 0..MaxKills

\* "A result that is computed and thrown away ... destroys the evidence": as
\* long as no process of the pipeline was killed (drat-trims may be, again and
\* again), a proof is gone only when its row is banked, or is about to be.
EvidenceKept ==
    kills = 0 => \A c \in Cubes \ proof :
        c \in trans \cup pruned \cup pruner \cup At("front", {"reclaimed", "ok"})

\* Exit code 0 means that no proof on disk is left unchecked, whatever died.
PassCovers ==
    pass.pc = "complete" => proof \cap Sampled \subseteq trans

\* CHECK_FAILURES.jsonl "means a proof did not verify": a good proof gets in
\* only when it outlasted the time limit or was deleted under the check, by the
\* other checker or the pruner, never because a worker, a tool or a run died.
FailuresAreMath == fails \cap Good \cap proof \subseteq Slow

\* The two answers of the check pass, its exit code and its list of failures.
PassTrue == PassCovers /\ FailuresAreMath

\* A proof that drat-trim refuses stops the campaign: no exit code 0, no
\* transcript line, in whichever program it is met, after any kill or retry.
BadProofHalts ==
    /\ trans \subseteq Good
    /\ pass.pc = "complete" => Sampled \subseteq Good

\* Asked to stand down, the checker does, even in the middle of a batch, unless
\* somebody takes the request back.
StandsDown == (stop /\ marker) ~> (front.pc = "off" \/ ~stop)

\* Phase 3 never hangs on the checker's lock, or on a dead worker.
PhaseEnds == (pass.pc = "wait") ~> (pass.pc \in {"idle", "complete", "halted"})

\* run_campaign.py, after exit code 0: "every cube proof drat-trim s VERIFIED".
EveryProofVerified == pass.pc = "complete" => Sampled \subseteq trans
=============================================================================
