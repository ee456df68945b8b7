# DiscrepancyRecords in TLA+

DiscrepancyRecords computes N(k, l), the least N such that every coloring of
1..N with +1 and -1 has a k-term arithmetic progression whose sum is at least l
in absolute value. It claims lower bounds by an avoiding coloring and upper
bounds by SAT solvers, the hard ones split into thousands of cubes that a
desktop machine solves over weeks. This directory models that machinery: how
an instance is encoded and laid out as a wave, how verdicts reach the disk, how
the campaign is kept alive, how proofs are checked and deleted, how a wave
becomes evidence and a claim, and what the gate's exit code is worth.

## Inventory

| Part | Source | State it keeps | Operations | Module |
|---|---|---|---|---|
| Verdict files | `scratch/verdict_io.py` | `verdicts/v*.json`, temp files | atomic write, tolerant read, count | `Verdict`, `VerdictStore`, `CubeWave` |
| Wave driver | `scratch/cube_wave2.py` | verdicts, `cube_*.cnf`, `drat/` | solve_cube in a process pool; gen | `CubeWave`; `WaveSetup` |
| Manifest of the second wave | `scratch/gen_seqcount_verified.py` | `manifest.json`, `cubes.icnf` | gen, second notation, comparison of hashes | `WaveSetup` |
| Crash clean-up | `scratch/crash_cleanup.py` | deletes torn and undecided verdicts, formulas, strays | one pass | `CubeWave`, `Campaign` |
| Orchestrator | `scratch/run_campaign.py` | `campaign.log`, `DONE.json`, markers | phases 1 to 5 | `Campaign`, `ProofCheck` |
| Resume script | `scratch/resume_campaign.ps1` | restart count | stop tests, launches | `Campaign`, `ProofCheck` |
| Watchdog | `scratch/watchdog.py`, `start_watchdog.ps1` | attention file, last progress; `watchdog.pid` | poll, stall, notices; start, lock | `Campaign`; `WatchdogLock` |
| Restart with fix | `scratch/restart_with_fix.ps1` | - | stop all, clean, start | `Campaign` |
| Checker, pruner | `scratch/sample_prune.py`, `check_and_prune.py` | `transcripts.jsonl`, `pruned.jsonl`, lock, proofs | check loop, prune loop | `ProofCheck` |
| Check pass | `scratch/check_pass.py` | `CHECK_FAILURES.jsonl`, transcripts | wait, batches, retry, exit code | `ProofCheck` |
| Detaching | `scratch/detach.py`, `verify_detached.py` | consoles of processes | launches, probe of every console | `Consoles`, `WatchdogLock` |
| Status | `scratch/campaign_state.py` | none: one line | count, process list, time asleep | `Sensor`, `Standby` |
| Wave importer | `tools/import_wave.py` | `evidence/waves/<name>/` | check whole source, write three files | `ImportWave` |
| Harvest | `scratch/harvest.py` | `claims/CLAIMS.json` | preflight, two imports, claim, gate | `Harvest` |
| Gate | `gate/verify_all.py` | none: reads `claims/`, `evidence/` | G1 to G7, W1 to W6, exit code | `Gate` |
| Cubes | `nk2/cubes.py` | - | split, literals, cube set | `Wave`, `WaveSetup` |
| Evaluator | `nk2/aps.py`, `nk2/evaluator.py` | - | avoids | `Evaluator` |
| Encoders | `nk2/spec.py`, `nk2/encode_*.py` | - | threshold, progressions, at_most, clauses | `Encoders`, `ClauseStream`, `Avoidance`, `AtMostCheck` |
| Solve pipeline | `nk2/solve.py`, `dimacs.py`, `witness.py` | `.cnf`, proof, run-log, witness | encode, solve, decode, check, record | `SolveOne`, `ClauseStream` |
| Reports, power, one-off tools | rest of `scratch/`, `tools/` | - | - | not modelled |

How they interact. The programs share no memory and no locks worth the name:
they talk through files in `scratch/wave274*/`, and through the process list.
The orchestrator starts a driver per phase and counts verdict files when it
ends; the watchdog counts files to see progress and runs the resume script every
poll; the resume script reads the last lines of a log and the process list and
launches an orchestrator or a checker; the checker reads verdicts and proofs,
deletes proofs and appends rows; phase 3 takes over from the checker by a stop
file, a marker and a lock file. The importer reads all of it, possibly while it
is still moving, the gate reads what the importer wrote, and harvest runs both
around the claim it adds.

What is hard here, and so what the properties are about:

- every process may be ended at any instruction, by a reboot, a log-off or a
  console event, and the next one must continue from the files it left;
- two programs of a kind may run at once although each looks for the other;
- values read before hours of work (a cached verdict, a job list, a process
  list) are used after it;
- deleting a proof and recording that it was good are two steps in two
  processes;
- absence of a file means "not yet", "pruned by policy" or "lost", and
  different readers decide differently; files of an earlier run lie where those
  of this run will be;
- counters stand for progress and for completeness;
- an exit code or a notice is the only thing that reaches a person;
- one wrong clause, threshold or bit of an index makes every later check a check
  of something else.

`PROJECT.json` lists each hazard at its line with the properties that bear on it.

## Modules

```
Verdict <- VerdictStore <= CubeWave, Campaign       (<= is implemented by)
   ^- CubeWave <- MCCubeWave
   |     ^- CubeWave_proofs
   ^- Campaign <- MCCampaign
         ^- Sensor <- MCSensor
         ^- Campaign_proofs
ProofCheck <- MCProofCheck, ProofCheck_proofs

Wave <- ImportWave <- ImportWave_proofs
  ^- Gate (with Evaluator) <- MCGate, Gate_proofs   (ImportWave, MCGate <- MCEvidence)
  ^- Harvest <- Operations (with Consoles, WatchdogLock, Standby <- MCStandby)
  |                ^- MCOperations, Operations_proofs
  ^- SolveOne (with Evaluator) <- Nk2 (with WaveSetup and the last line)
  |                ^- MCNk2, Nk2_proofs
  ^- WaveSetup
Encoders <- ClauseStream => Avoidance (with Evaluator)
  |            ^- ClauseStream_proofs <- Nk2_proofs
  ^- AtMostCheck                      (ClauseStream, AtMostCheck <- Nk2)
```

**Verdict, VerdictStore.** What a verdict file says to a reader: an answer
(`rc` 10 or 20), none (a timeout), or nothing (absent, torn). `VerdictStore` is
the abstract promise of the wave directory: per cube a register that only ever
holds the truth or "no answer", that may fall back only by being discarded when it
holds no answer, and that a retry may upgrade. `CubeWave` and `Campaign` both
implement it, with `reg` as what `read_verdict` returns for the file.

**CubeWave.** One directory of verdicts, several drivers, each with a pool of
workers. Variables: `file` (verdict file per cube: none, torn, or a record),
`temp` (the temp file of `write_verdict`), `cnf`, `proof`, `driver`, `call` (the
command line), `queue`, `task` (the program counter and locals of a worker) and
`left` (formulas stranded by kills, for the clean-up). One action per step
between which a kill matters: `Take` (cache test), `OpenCnf`, `FillCnf`,
`Solve`, `MakeTemp`, `DumpTemp`, `Replace`, `CleanUp` and their failing
variants, `Kill` of a driver with its pool, `CrashCleanup`. `Overlap` allows two
live drivers, which then share each cube's one `.cnf` path.

**WaveSetup.** How that directory comes about: `gen` at a depth a person chose,
and `gen_seqcount_verified.py`, which runs it and then rewrites the cube file and
the manifest in the gate's notation and compares their hashes. Both are killed
and run again over what is there: verdicts of another depth included. Cubes have
an index here, as in file names; `IndexSet` goes bit by bit from the index to the
sets of variables that `Wave` knows cubes by.

**Campaign.** `run_campaign.py`, its drivers, `resume_campaign.ps1`,
`watchdog.py` and `restart_with_fix.ps1` over two waves. The driver is coarser
than in `CubeWave`: a job is taken and answered in two steps. The resume script
is modelled line group by line group, because the stop tests, the process probe,
the launch and the new restart count are separate moments. Faults (kills of an
orchestrator, a driver, a solver, everything) are bounded by `MaxFaults`.

**Sensor.** One poll of `campaign_state.py` over a running `Campaign`: verdict by
verdict, then the process list, which may not answer, then the notices.
**Standby** is its `standby_minutes`: the event log of a machine that sleeps and
wakes, also within one second, the lines the query prints, what the parser keeps of
them, and the pairing, clamping and merging of those.

**ProofCheck.** Phase 3 in detail: the front-loaded checker with its stop file
and lock, the pruner, the handover, `check_pass.py` with its job list, worker
calls (`Look`, `Copy`, `Trim`, return), broken pools, retry and exit code, and
what the orchestrator and the resume script make of it. `Good` are the proofs
that are right, `Slow` those drat-trim may time out on, `Archived` those with a
row already, `Sampled` the cubes whose proof policy says must be checked.

**WatchdogLock.** `start_watchdog.ps1` clears old files, has WMI create
`detach.py`, waits for the pid file and for the lock; `watchdog.py` looks at the
lock, asks after its holder, opens and fills it. Process numbers are a finite
table, and with `Reuse` a number comes back as another process.

**Consoles.** For each role of the campaign the console it is attached to, by
creation flag and inheritance from launcher to orchestrator to driver to worker
to solver; and `verify_detached.py`, which lists the processes and probes them
one at a time.

**Wave.** What the importer and the gate both ask of a manifest, of verdicts and
of transcripts (W1 to W4), over cubes as sets of split variables. A sha256
stands for the thing hashed, so equality of digests is equality of contents.

**ImportWave.** `import_wave.py` file by file, beside a campaign that may still
write: `gen` and `gen_seqcount_verified.py` as the life of the manifest, drivers
replacing verdicts, checkers appending torn-then-whole lines. The importer reads
the manifest, the lines, a listing, each verdict in turn, the manifest again, and
then writes three files in place, each first cut short and then filled. `Tier`
is what the gate would say of the destination at that moment.

**Harvest.** The composition: preflight of both waves, import of each, the claim,
the gate. Importer and gate are one step each but for the files they leave or
find; the record of claims is opened and filled in two steps; the whole may be
killed anywhere and run again, beside a campaign that replaces verdicts.

**Evaluator, Gate.** The gate as one sequential program: the rules in `main`'s
order, the failures reported, what the rules found about the current claim, and
the exit code. The evidence tree is a constant; the record of claims and the
command line vary over `Inputs`, given as families. `IsTrue` says what a claim
means, by trying every coloring, and `Honest` what the gate takes on trust: that
a recorded 20 was a solver's over the recorded instance, that a recorded
`s VERIFIED` was a checker's. Everything else is up to the rules.

**Encoders, ClauseStream, Avoidance, AtMostCheck.** The clauses of the three
encoders, with their auxiliary variables; `build_instance` and `write_cnf`
emitting them one progression after the other under a header promised before.
`Avoidance` is the abstract question: progressions rule colorings out. That
`ClauseStream` implements it, with `alive` as the colorings its clauses leave
possible, is what correctness of an encoder means. `AtMostCheck` compares the
cardinality constraint by itself with counting, at bounds `build` never asks for.

**SolveOne.** `nk2.solve` from the command line: the temporary body, the copy
under the header, the solver, the decoded and re-checked model, the run-log and
the witness, each file opened and then filled, by invocations that may share
every path and be killed anywhere. The solver is right when it says UNSAT and
may say anything else: a model is never trusted, so it may be wrong.

**Operations, Nk2.** Programs that share no state, beside one another: a variable
`world`, chosen by the initial state and never changed, says which of them moves
while all others stand still. `Operations` is a harvest, the consoles, the lock and
the sleep sensor; `Nk2` is encode, count, lay out, solve, and solve together.
`MCOperations` chooses a harvest of unsatisfiable waves or with one SAT cube, the
consoles under the launchers of resume or under all that have a window, and the
lock with starts alone, with numbers reused or overlapping. In the same way
`MCCampaign` has three truths (all cubes UNSAT, one SAT, one too hard), and
`MCSensor` two callers of resume, or a poll.

Definitions carry the names of the functions they model where possible;
`PROJECT.json` maps each to its lines. Operators named `Bug...` are plausible
mistakes in the definition they precede: replacing the definition by one of them
must make TLC find the property violated, which shows the property depends on
that code.

## Runs

All run with `tlc -workers 2 -config X.cfg MC<module>` and take between seconds
and four minutes. Deadlock is not an error anywhere: every one of these programs
may legitimately be finished, halted or off.

| Run | Instance | Question |
|---|---|---|
| `wave_single` | two cubes, one SAT; two drivers, one at a time, with and without proofs; two workers; torn files to begin with; failing writes | Formulas and proofs are there as long as somebody needs them (`FilesOwned`), settled verdicts stay (`SettledKept`), a clean end covers the call (`CleanEndCovers`); `TypeOK` |
| `wave_overlap` | the same with both drivers alive at once, one worker each | What survives two drivers on one `.cnf` path: answers (`VerdictSound`), counts (`CountSound`), no step tears a file (`NoNewTorn`), the store (`StoreSpec`), and `Heals`: every id of a live driver gets a readable verdict |
| `campaign_alone` | three cubes, two of which need the long budget; two orchestrator slots; two faults; worlds "unsat", "sat", "hard" | `OneAtATime`, phases in order up to `DONE.json` (`InOrder`), `AnswersKept`; with fewer faults than restarts it completes (`UnsatCompletes`); a SAT cube halts it for good under a notice that says STOPPED, as long as no notice of a stall is there first and restarts are left (`SatReported`); and a campaign that cannot go on raises a notice, whichever (`NeverSilent`); `TypeOK` |
| `campaign_overlap` | a cube per wave, the second SAT; resumes by hand, orphaned drivers; in the other world a poll | `DoneSound` and `StoreSpec` even so; what the sensor prints is so (`PollTrue`) |
| `proof_kills` | a good proof, a bad one, one outside the sample; checker, pruner and pass together; one kill, any number of killed drat-trims | No proof goes without a row (`EvidenceKept`), exit code and failure list of the pass are true (`PassTrue`), `BadProofHalts`; `TypeOK` |
| `proof_live` | a slow proof and an archived one; one kill | The checker stands down (`StandsDown`), phase 3 ends (`PhaseEnds`) |
| `evidence` | a split of one variable, two cubes, two possible proofs each; one kill; and, in a world of its own, a checkout about N(2, 1) = N(2, 2) = 3, every coloring tried | `ImportSound`: the gate never takes the destination for more than was done, and an import that ends is granted the tier it printed; accepted evidence stays (`EvidenceStays`); exit code 0 of the gate means the record is true (`GateSound`) and every claim earned its kind and level (`LevelsEarned`) |
| `nk2` | encode: N up to 7, k and l up to 5, three encoders, with and without symmetry breaking; count: widths up to 7, every bound; lay out: two variables, two depths, two kills; solve: N of 2 and 3, three invocations and two kills, or two at once and one kill | The encoders mean avoidance (`MeaningSpec`) with the header they promised (`EncodersExact`); a directory laid out again and again never passes the gate over a satisfiable base (`SetupTrue`); UNSAT logs, witnesses and proof digests are true (`FilesTrue`), exit codes of an invocation alone are earned (`RunTrue`) |
| `operations` | two waves of two cubes, one kill; eleven roles in two casts; two or three starts, three process numbers; nine ticks with a window of six | A claim enters the record only over two complete waves (`ClaimBacked`), exit code 0 of harvest is earned and the preflight suffices (`HarvestTrue`); nothing of a resumed campaign is behind a window and a PASS is about every process listed (`ConsolesTrue`); one watchdog (`LockTrue`), and nobody stands back for one that is not there (`NobodyUncovered`); from lines of three fields the sensor reports the time slept (`SleepMeasured`) |
| `proof_lostrow`, `gate_tier`, `standby_lines` | two proofs, one kill; the gate's checkout of `evidence`; a machine as in `operations`, lines of four fields | Found violated, see Findings |

`SleepMeasured` is about the part of the sensor behind its parser, which takes
three fields, as cases C, D and E of its tests give it; it leaves out a sleep within
one second, which the sort gets wrong (below). What the program itself makes of the
lines that its query prints is `standby_lines`.

`SatReported` has two provisos, and each is where the code loses the verdict (below,
"Disagreements"). A restart past the HALT line is inside it: resume looks for the
line, the orchestrator halts, resume launches, and the start banner hides the line
until the next orchestrator has met the SAT verdict in its turn.

Several properties have more than one mutant: `GateSound` and `LevelsEarned`
rest on every rule of the gate, and a mistake in witnesses, run-logs,
transcripts, wave verdicts or confirmations reaches them by different claims.

### Bounds, and why they are enough

Two cubes suffice wherever a property relates a cube to the rest: one that is
at fault and one that is not; three where a phase needs an easy, a hard and a
confirmation cube, or a good, a bad and a pruned proof. Two workers and two
drivers give every pairwise interleaving; nothing in the code distinguishes a
third. Faults are bounded (`MaxFaults`, `MaxKills`) at one or two: a kill leaves
files, never a memory of how many came before, so a second kill meets the
states that a first may leave. `MaxRestarts`, `StallPolls`, `StallRestarts`,
`MaxWaits`, `MaxFails`, `BatchMax` stand for the code's 25, 9 and so on: small
values reach each limit. `MaxLines` leaves room for each cube's row, or for one
cube's row twice. The gate's instances are at k = 2, the one place where a complete
search over colorings costs nothing; its rules never compute with k or l except
through the evaluator and the regenerated instance. Most claims are at l = 1, of
which the published terms say nothing, so that G5 cannot catch what the rule
under test lets through; `Known` and `Contradicting` are at l = 2.

The encoders are checked on all k and l up to 5, which has progressions of
length 2 to 5 with every threshold, the degenerate ones included; N up to 7 has
progressions of several differences that share terms, and N too short for any.
`MaxClauses` is 30, so that the refusal of the subsets encoder happens.

### Fairness

Safety is checked without fairness. For liveness:

- `CubeWave`: weak fairness of each worker's step and of a driver's end. A pool
  runs each job to its end and the solver has a time budget; kills are not fair.
- `Campaign`: weak fairness of orchestrator and driver steps, of the resume
  script once called, of the watchdog's start, poll and judgement. The watchdog
  is restarted by a scheduled task and polls in a loop. Faults and a person's
  actions are never fair.
- `ProofCheck`: weak fairness of the worker calls, of the checker, pass and
  pruner loops. drat-trim has a timeout.

## Findings

Each is a run that TLC must find violated, and quotes in `PROJECT.json` the line
of the repository that says otherwise.

1. `proof_lostrow`: a kill between deleting a proof and banking its row leaves
   nothing to check, and phase 3 completes.
2. `gate_tier`: a confirmed wave without transcripts passes as
   `wave-drat-verified`.
3. `standby_lines`: the query of the sleep sensor prints four fields a line and the
   parser keeps lines of three (`campaign_state.py:111`, `:119`), so that
   `standby_minutes` reports none of the "Minutes spent in Modern Standby recently"
   (`:89`); its own tests give four fields and expect 531 minutes
   (`test_campaign_state_standby.py:60`).

### Disagreements without a run

Met while modelling, seen as counterexamples of the models by the formula given,
and plain in the code; each is a remark of the repository that the code does not
keep to the letter. None breaks a property above.

- A SAT verdict never satisfies a proof-logging driver's cache test
  (`cube_wave2.py:94`), is solved again, and a timeout may take its place.
  `[][\A c \in Cubes : rc[c] = "sat" => rc'[c] = "sat"]`
- Resume tests the reasons to stop seconds before it launches
  (`resume_campaign.ps1:122`), so it may restart a campaign that finished or
  halted in between. At the launch: `~(done \/ failures \/ satHalt)`
- Resume looks for `run_campaign.py` only: a driver that outlived its
  orchestrator gets a second one beside it. `drv[o].on /\ drv[p].on => o = p`
- Retry rounds overwrite verdict files and so do not move the watchdog's
  progress number (`watchdog.py:227`). `[][reg' # reg => Progress' > Progress]`
- A stall notice nobody removed silences every later one (`watchdog.py:180`): that of
  completion, and also that of a SAT verdict, although "a STOPPED: line raises
  CAMPAIGN_ATTENTION.txt" (`watchdog.py:24`). What the person then reads says "NOT a
  SAT verdict" (`:76`); the STOPPED line is in the log only. Two kills, two polls
  without progress and a SAT cube suffice:
  `(\E c \in Cubes : reg[c] = "sat") ~> attention = "stopped"`
- A restart on its way past a SAT HALT writes a start banner, and if that orchestrator
  dies and the restarts are used up, no HALT line counts any more: the STOPPED line,
  and the notice, name the number of restarts (`resume_campaign.ps1:125`), not the
  verdict. `(\E c \in Cubes : reg[c] = "sat") ~> []satHalt`
- A checker launched around the handover removes the stop file
  (`sample_prune.py:173`) and runs beside the check pass.
- A proof deleted between the test for it and its copy (`check_pass.py:64`), and
  a check out of time (`:110`), are filed as failed proofs; `FailuresAreMath`
  allows for these two and no other.
- Exit code 3 hides a failed proof in the same pass (`check_pass.py:358`).
- A proof pruned after the job list was read is reported as an environment fault
  (`check_pass.py:181`).
- An import killed between its three files leaves half a wave, which every later
  import refuses to touch (`import_wave.py:518`, `:691`).
- With three fields a line, `standby_minutes` would still put the exit of a sleep
  within one second before its entry (`campaign_state.py:133`) and count most of the
  window: case A2 of its tests, which expects 0. `SleepReported`, with `Fields` 3.
- `verdict_counts` counts the temp files of killed writers as "other"
  (`campaign_state.py:33`), which `verdict_io.py:46` warns of; one that vanishes
  between the listing and `getmtime` (`:35`), outside the `try`, ends the sensor
  with a traceback, of which `:50` says what it means.
- Verdicts of an earlier `gen` at another depth satisfy the cache test
  (`cube_wave2.py:93`): counts over such a directory mean nothing. The gate
  refuses it, by the literals (`SetupTrue`).
- A harvest killed or refused after its first import cannot be repeated
  (`harvest.py:206` foresees a claim already present; `import_wave.py:691`
  refuses the destination first). What it left is deleted by hand.
- The lock of the watchdog is looked at and then written: two overlapping starts
  may end with two watchdogs (`watchdog.py:140`, against `:15`), or with RUNNING
  reported for one that has died. `SingleInstance` in the mode with `overlap`.
- Any python process that has the number in a stale lock counts as the holder
  (`watchdog.py:136`, against `:122`): the start stands back and nothing watches.
- `verify_detached.py` has no name for `check_and_prune.py` (`:84`), so its PASS
  does not cover it, and which roles must be there follows the phase by hand.

## Proofs

Eight modules are checked by TLAPS, for every value of the constants that
satisfies the named assumptions of their modules.

`CubeWave_proofs`:

- `TypeCorrect`: `TypeOK` is inductive. A worker's locals have the types of the
  step it is at (`TaskOK`).
- `Soundness`: no wrong answer stands in a verdict file. `VerdictSound` alone is
  not inductive, since an answer is on its way through a worker, its temp file
  and `os.replace`; `InFlightSound` says that what a worker holds and what its
  temp file contains is right for the worker's own cube, and `Jobs` that a
  worker's cube is one of its driver's.
- `NeverTorn`: an action property from the type invariant: `Replace` is the only
  step that writes a verdict, and it moves a whole file.
- `SettledForGood`: assuming one driver at a time (`~Overlap`). The invariant is
  that no worker past the cache test works on a settled cube; the run
  `wave_overlap` leaves this property out because two drivers do break it.
- `ImplementsStore`: every step is a `Record`, a `Discard` or a stutter of
  `VerdictStore` under `reg[c] = Read(file[c])`.
- `CountsTrue`: what `count_verdicts` returns is at most the number of cubes with
  that answer, for finitely many cubes (`CountBound`, by a map from the files
  counted onto cubes).
- `CleanEnd`: a driver that ends cleanly leaves a readable verdict for each id of
  its call. The invariant `InHand`: each id of a running driver is queued, in a
  worker's hands, or has its verdict.
- `FilesAccounted`: assuming `~Overlap`, every formula has a worker or is
  stranded by a kill, and every digest has its whole proof (`FilesInv`).

`Campaign_proofs`, with orphans and hand-run resumes allowed:

- `CampaignTypeCorrect`: also bounds the retry rounds.
- `DoneSoundness`: `DONE.json` implies that every cube is unsatisfiable, so also
  where `OneAtATime` fails. The invariant: verdicts are true (`Honest`), and an
  orchestrator past a wave's final count has seen that wave full of `unsat`
  (`Established`), which stays because true answers cannot change. The count is
  a cardinality; `FullCount` turns it back into a statement about each cube.
- `CampaignImplementsStore`.

and assuming `Alone`, that the watchdog is the one caller and a driver dies with
its orchestrator:

- `OneOrchestrator`: `OneAtATime` is not inductive, a launch comes after the look
  at the process list; `Lone` adds that nobody is alive while the one caller is
  about to launch.
- `PhasesInOrder`: `Ordered` says that an orchestrator checks, writes `DONE.json`
  or works on the second wave only behind finished waves, and that a driver works
  on unanswered cubes only, so that finished waves stay finished.
- `AnswersForGood`: from the same, no answer is ever lost.

and of a poll of the sensor beside it:

- `WaveDoneSound`: what was counted one verdict after the other while the campaign
  went on is no more than the true answers (`Tallied`), and so the sensor reports a
  complete wave only where every cube of it is unsatisfiable; orphans and hand-run
  resumes allowed.
- `PollSound`, assuming `Alone`: also that a poll which began after a SAT verdict was
  on disk reports SAT. `SatAhead`: a SAT verdict on disk when the poll began has been
  counted, or stands ahead of it; that it cannot vanish meanwhile is `AnswersForGood`.

`ProofCheck_proofs`, one inductive invariant for four theorems:
`CheckTypeCorrect`, `NothingThrownAway`, `PassAnswersTrue`, `BadProofsHalt`. What
a call holds about a proof is so (`CallsTrue`), rows are of good proofs
(`FilesTrue`), every proof on disk while the pass works is banked, in a call, or
counted as an error or a failure (`Accounted`), a pass that answers 0 has left no
proof without a row (`ZeroTrue`), and a checker between batches holds no call
(`FrontRests`).
Any batch size and any number of waits, failures and kills.

`ImportWave_proofs`, for every split, every truth, any drivers and checkers that
write meanwhile and any number of kills. `AbsentApart` says that no file's content
is the mark of an absent file, which untyped TLA+ leaves open.

- `ImportIsSound`: what stands in the destination is worth no more than was done,
  and an import that ends is granted the tier it printed. The invariant
  (`ImportInvariant`) has a part for the source, where a verdict is an answer or
  none and a whole row is about a proof that was read (`SourceInv`); one for what
  the importer has read, which agreed once it was checked although the source has
  moved on (`ReaderInv`); and one for the three files, of which nothing passes for
  evidence before its last byte (`DestInv`).
- `EvidenceIsKept`: no step changes evidence that the gate accepts. While any
  file is open or torn, the gate accepts nothing, and a start over a wave refuses.

`Operations_proofs`, of a harvest:

- `ClaimsBacked`: the hashes of the table stay pinned in the sources until the last
  import (`Step`), what the importer holds is a complete wave (`Carried`), and so
  is what it has written (`Imported`), whatever the campaign replaces meanwhile.
  `TablesAreThere` is to tables of documents what `AbsentApart` is above.
- `ExitZeroEarned`: exit code 0 has the claim on record, the gate behind it, and
  every cube of both waves unsatisfiable. A verdict of 20 is true wherever it was
  copied to (`SourceTrue`, `WaveTrue`), so that an accepted wave is; no step after
  the gate's moves anything.
- `HarvestSound`: also that the preflight suffices. A preflight that has counted as
  many UNSAT verdicts as there are cubes has seen every cube's (`Cut`: a split of n
  variables has 2^n cubes), none of which is then replaced by anything else as long
  as no drivers overlap, so that the importer's own checks cannot refuse
  (`PreInv`). `TornShows` and `DocumentsShow` keep torn files apart from whole ones.

of the consoles:

- `ConsolesSound`: for every set of launchers and programs. Nothing of a resumed
  campaign is behind a window, since each role without a console was launched with
  the flag or by one that was; and a PASS of `verify_detached.py` is about every
  process it listed, each of which was off a window when it was probed
  (`ConsolesInv`).

of the watchdog's lock, for any number of starts and process numbers:

- `OneWatchdog`, starts not overlapping, numbers given out again or not. `Turns`:
  one start at a time, which launches once; `Sole`: nobody polls before a launch,
  only one process settles and then nobody polls, and who polls is named in the
  lock.
- `NobodyStandsBackForTheDead`, starts overlapping or not, assuming that numbers
  are given out once (`NumbersOnce`); where they are not, a stale lock may name
  anybody. A number in the lock, or read from it, is of a process that took the
  lock, and such a process polls or is gone (`Trace`).
- `RunningIsTrue`, with both assumptions: RUNNING names a watchdog that came up
  since the start began and got the lock; old files lie there, but the number a
  start takes from them is of a process that it has met itself (`Met`).
- `LockSound`: type correctness besides.

and of all of them in `Operations`, where the other programs stand still:
`HarvestKept`, `ConsolesKept`, `LockKept` and `CoveredKept`, from the theorems above.

`Gate_proofs`, for all records, evidence, command lines, published terms, claims
of any k, l and value, and any splits. Assumed are what the gate takes on
trust (`SoundSolvers`, `HonestEvidence`) and `RecordFormat`, that what passed for a
shape has the types that the rules insist on.

- `ExitZeroIsTrue`: exit code 0 means that every claim of the record is true. The
  rules are stated as predicates of a claim; `GateInv` says that of the claims
  behind `at` each has passed all of them, or a failure stands, and that
  `found` is what the rules said of the current one. There is a lemma for each rule;
  the one for G1 goes from one claim to the next, where `found` is forgotten. What
  remains is
  arithmetic and counting: a coloring and its mirror image have the same sums, so
  an instance with symmetry breaking is satisfiable when the problem is; a
  coloring of a longer interval avoids on a shorter; and each coloring satisfies
  the literals of some cube of a split, so a wave with every cube refuted has none.
- `ExitZeroIsEarned`: each claim has the witnesses, the two encoders, the
  transcripts and the confirmed wave that its kind and level say.

`Nk2_proofs`, for any instances and any number of invocations of `nk2.solve` over each
other's files. `SentinelsApart` keeps the marks of absent and torn files apart from
instances and return codes. `Problems` says that N is a number, k at least 2, and
that witnesses of one length are of one problem: the caller names their files, and
nothing in them says which problem they are of.

- `PathsAreOwn`: type correctness, of which the substance is that whatever is
  readable at the paths of an instance is that instance's.
- `UnsatLogsTrue`: every readable body or `.cnf` at the path of an instance is that
  instance's (`BytesInv`), so a solver that reads a whole file reads its own, and
  one that answers 20 has found that nothing avoids (`SeesInv`); logs follow
  (`LogInv`).
- `WitnessesAvoid`: a witness that reads as whole avoids, also one that a kill cut
  short of its last newline. No trust in the solver enters: what is written has
  passed the check, and a beginning of an avoiding coloring avoids (`PrefixAvoids`).
- `FilesAreTrue`: both, and that a proof digest in a log is of the instance's own
  proof. For the proofs it assumes one invocation at a time or no `--proof`: two
  with proofs share one path.
- `ExitCodesTrue`, one invocation at a time: 0 and 3 leave the log of this run, and
  the witness if one was wanted (`KnowsStep`: what a process remembers of the files
  it wrote is still in them). `RecordsApart` keeps logs and colorings apart from the
  marks of absent and torn files. `RunSound` says the same of `Nk2`, beside the other
  programs.

and of a wave directory, for every number of variables, depth, rank of the variables,
solutions and drivers, and any number of kills:

- `LayoutSound`: `SetupInv` says that the files are those of the writer, as far as its
  program counter says it has come (`DirectoryInv`), that what it holds is what it has
  read there (`HandInv`), and that a verdict is true of the literals recorded in it,
  whichever depth it was solved at (`VerdictsInv`). The rest is about numbers: the bits
  of an index determine it and every set of bits has an index (`OneIndex`), so the rows
  are the cubes of the sorted split, and each coloring satisfies the literals of exactly
  one (`RowsPartition`); a directory that the gate accepts has a true 20 for each cube,
  so nothing satisfies the base. Powers of two and the bits of an index are induction
  over numbers, which is done with the least number of a set (`FromZeroUp`).
  `ManifestsShow` keeps manifests apart from the mark of an absent one.
- `SetupSound` says the same of `Nk2`.

`ClauseStream_proofs`, for instances of every length, k and l and each of the three
encoders. `StreamAssumption` is what `spec.py` lets through (`_check`: k at least 2, l
at least 1), with N a number from 0 on; a negative N is treated by the code as 0 is.

- `AtMostSound`: whatever the literals, the bound and the place of the block, the
  auxiliary variables of a constraint can be chosen, under a coloring of the others,
  if and only if at most b of the literals are true; and all of them are in the block.
  From right to left a choice is exhibited: the registers or outputs that count.
  From left to right the clauses force it, register by register (`CounterSays`) or
  node by node (`TreeSays`). Both, and that the recursion of the tree is well defined
  (`TreeLaw`), are inductions over the number of literals, which `FromZeroUp` makes
  of the least number of a set, so that no theorem about operators is needed.
- `Decides`: `Satisfiable`, the unit propagation with which TLC decides about clauses,
  says whether a choice exists whenever no clause has two positive auxiliary
  literals. The set it closes is finite, so the recursion ends (`Closing`). It ties
  `AtMostSound` to what the runs evaluate: `ShortSequences`.
- `HeaderSound`: no literal is beyond the header, every variable it declares occurs,
  as many progressions come as `num_aps` says, and the size that let the subsets
  encoder through is the one written. `StreamInv` says where the loop stands
  (`Stands`: the index of a progression is the number of those before it, a sum over
  differences that `BeforeStep` takes one further), that the clauses so far are in,
  and fill, the blocks so far (`Formed`), and which colorings they leave (`Leave`).
- `StreamMeans`: the step of `Avoidance` that a progression is mapped to. The sum over
  it is below l exactly if neither its positive nor its negative terms are more than
  b (`Window`, `ApRuled`); clauses in blocks that do not meet rule out what each of
  them does (`Beside`, `Added`); and the progressions still to come lose this one and
  no other (`RemainingNext`).

They are carried over to the two instances in `Nk2` by `EncodersAreExact` and
`EncodersMean`, in `Nk2_proofs`.

The proof was also a test of the model: `BlockSize` had a CASE whose guards
overlapped, `CASE` then choosing either value, where the code returns 0 first. TLC
takes the first guard that holds and could not show it.

The runs check `WitnessAvoids` within `FilesTrue`, `ExitCodes` within `RunTrue`,
`ExitZeroTrue` within `HarvestTrue`, `SingleInstance` and `ReportTrue` within
`LockTrue`, `Covered` within `NobodyUncovered`, and `WaveDoneTrue` within `PollTrue`.

Only model-checked: liveness, which the prover cannot state under fairness; and
`SleepMeasured`, a sort and folds over the lines of a log, whose definitions in the
library take operators as parameters.

## Abstractions worth knowing

- A solver that finishes answers rightly (`Truth`; in `SolveOne` only its UNSAT,
  and any coloring may be its model); what it prints beyond the return code, and run times, are left out. A torn
  formula may make it say nothing useful or fail, never a wrong answer that fits
  its file.
- Killing a driver or a checker ends its worker calls in the same step.
- In `Campaign`, `restart_with_fix.ps1` runs between two polls, there is one
  watchdog at a time, and one look at the process list is one step.
- In `ProofCheck`, the checker's start (removing the stop file, taking the lock,
  reading the logs) is one step.
- In `ImportWave`, the byte rules (CR, ASCII, file names) are left out, and a
  write is two steps, some proper part of the content and then all of it.
- In `Gate`, a path outside its directory and a path to nothing both name
  nothing; the shape tests of JSON documents are one flag per document.
- In `Harvest`, importer and gate are one step each but for the files, and what
  `ImportWave` shows of a source in motion is not repeated.
- In `SolveOne`, a file that another invocation opened in between ends as what is
  written last or torn, unless both write the same (`Filled`).
- In `WaveSetup`, a driver starts only while no generator runs; it may then meet
  whatever a killed one left.
- In `Consoles`, one process stands for all of a role, and a role's parent is the
  one the code gives it.
- In `Encoders`, a clause is a set: the order of literals, which only the hash of
  a file depends on, is left out.
- In `Standby`, at most three events are logged in one second, and reasons are left
  out.

## Not modelled

Declaring and amending the sample, and the gap tools (`redeclare_sample`,
`close_sample_gap`), run by hand once; the preflights, which change nothing;
throughput, completion estimates and the reports on lids and gaps, which print
rates from logs and decide nothing; power and lid settings, keep-awake and the
heartbeat; `console_immunity.py`, whose handlers answer events that a process
without that console never gets; the texts of formats and logs, the byte rules of
the importer; WARN and INFO lines of the gate; claims, evidence and prose, which
are data; tests and CI.

What could be added: proofs of the pairing and merging of spans in `Standby`, by
induction with `FromZeroUp`, with the two folds written as recursive functions.
