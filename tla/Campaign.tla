------------------------------ MODULE Campaign ------------------------------
(***************************************************************************)
(* The unattended campaign: the orchestrator run_campaign.py walks the     *)
(* phases and runs the wave drivers; resume_campaign.ps1 restarts it;      *)
(* watchdog.py calls resume every poll and raises the operator's notice.   *)
(* The drivers are CubeWave seen through VerdictStore, one register per    *)
(* cube.  Every wave here is run with --no-proof, as the orchestrator does.*)
(***************************************************************************)
EXTENDS Verdict, FiniteSets, Naturals

CONSTANTS
    CubesOf,        \* CubesOf[wave]: the cubes of the wave, a partition of Cubes
    Needs,          \* Needs[c]: the least budget that decides c, or "never"
    Orchs,          \* process slots for run_campaign.py, reused once dead
    Callers,        \* who runs resume_campaign.ps1; the watchdog is one
    MaxRestarts,    \* automatic restarts before resume gives up (25)
    StallPolls,     \* polls without progress that make a stall (2700 s / 300 s)
    StallRestarts,  \* restarts that must come with them (3)
    CheckRcs,       \* exit codes check_pass.py may return in phase 3
    MaxFaults,      \* bound on kills, reboots and dead solvers
    Orphans         \* TRUE: killing an orchestrator may leave its driver alive

Waves == {"tot", "seq"}
Watchdog == "watchdog"

ASSUME CampaignAssumption ==
    /\ IsFiniteSet(Cubes) /\ None \notin Rcs
    /\ CubesOf \in [Waves -> SUBSET Cubes]
    /\ CubesOf["tot"] \cup CubesOf["seq"] = Cubes
    /\ CubesOf["tot"] \cap CubesOf["seq"] = {}
    /\ Needs \in [Cubes -> {"short", "long", "never"}]
    /\ Watchdog \in Callers
    /\ CheckRcs \subseteq {0, 1, 3}
    /\ MaxRestarts \in Nat /\ StallPolls \in Nat
    /\ StallRestarts \in Nat /\ MaxFaults \in Nat

VARIABLES
    reg,        \* reg[c]: the rc in c's verdict file, None when there is none
    orch,       \* orch[o]: where the orchestrator in slot o is in main()
    drv,        \* drv[o]: the cube_wave2.py process o started last
    satHalt,    \* campaign.log holds a SAT HALT after its last start banner
    failures,   \* CHECK_FAILURES.jsonl exists
    done,       \* DONE.json exists
    resume,     \* resume[k]: where caller k's resume_campaign.ps1 is
    n,          \* the number in watchdog_restarts.txt
    wd,         \* the watchdog process
    attention,  \* the notice in CAMPAIGN_ATTENTION.txt, "none" without the file
    faults      \* faults so far

campaign == <<orch, drv, reg>>
outcome == <<satHalt, failures, done>>
keeper == <<resume, n, wd, attention>>
vars == <<reg, orch, drv, satHalt, failures, done, resume, n, wd, attention, faults>>

-----------------------------------------------------------------------------
(* What the programs read.                                                 *)

\* counts(): cubes of the wave with this answer, and those undecided by a
\* verdict.  A cube without a verdict is in neither number.
Count(w, rc) == Cardinality({c \in CubesOf[w] : reg[c] = rc})
Other(w) == {c \in CubesOf[w] : reg[c] \in Rcs \ Answers}
Total(w) == Cardinality(CubesOf[w])

\* progress(): verdict files of both waves.  (transcripts.jsonl, its third
\* term, stands still: --no-proof waves give phase 3 nothing to check.)
Progress == Cardinality({c \in Cubes : reg[c] # None})

OrchAlive == \E o \in Orchs : orch[o].pc # "off"

FirstWave == [pc |-> "count", wave |-> "tot", rnd |-> 0]
Off == [pc |-> "off", wave |-> "tot", rnd |-> 0]
NoDriver == [on |-> FALSE, wave |-> "tot", long |-> FALSE, todo |-> {}, busy |-> {}]
Quiet == [pc |-> "idle", n |-> 0, said |-> "quiet"]
WdOff == [pc |-> "off", last |-> 0, idle |-> 0, restarts |-> 0]

Init ==
    /\ reg = [c \in Cubes |-> None]
    /\ orch = [o \in Orchs |-> Off]
    /\ drv = [o \in Orchs |-> NoDriver]
    /\ satHalt = FALSE /\ failures = FALSE /\ done = FALSE
    /\ resume = [k \in Callers |-> Quiet]
    /\ n = 0
    /\ wd = WdOff
    /\ attention = "none"
    /\ faults = 0

-----------------------------------------------------------------------------
(* The orchestrator.                                                       *)

Goto(o, pc) == orch' = [orch EXCEPT ![o].pc = pc]
Exit(o) == orch' = [orch EXCEPT ![o] = Off]

\* run(): start a driver over the whole wave and wait for it.
RunDriver(o, w, long) ==
    drv' = [drv EXCEPT ![o] = [on |-> TRUE, wave |-> w, long |-> long,
                               todo |-> CubesOf[w], busy |-> {}]]

\* The first look at a wave: all UNSAT already, or one pass at the short budget.
CountWave(o) ==
    LET w == orch[o].wave IN
    /\ orch[o].pc = "count"
    /\ IF Count(w, "unsat") < Total(w)
       THEN RunDriver(o, w, FALSE) /\ Goto(o, "run")
       ELSE Goto(o, "final") /\ UNCHANGED drv
    /\ UNCHANGED <<reg, outcome, keeper, faults>>

\* The driver's exit code is logged and otherwise ignored.
DriverEnded(o) ==
    /\ orch[o].pc = "run"
    /\ ~drv[o].on
    /\ Goto(o, "guard")
    /\ UNCHANGED <<reg, drv, outcome, keeper, faults>>

HaltOnSat(o) == Exit(o) /\ satHalt' = TRUE

\* sat_guard: exit 3 behind a HALT line when the wave holds a SAT verdict.
GuardWave(o) ==
    /\ orch[o].pc = "guard"
    /\ IF Count(orch[o].wave, "sat") > 0 THEN HaltOnSat(o)
       ELSE Goto(o, "retry") /\ UNCHANGED satHalt
    /\ UNCHANGED <<reg, drv, failures, done, keeper, faults>>

\* Seeded bugs: one round too many, and retries at the budget that failed.
BugThirdRound(o) ==
    LET w == orch[o].wave IN
    /\ orch[o].pc = "retry"
    /\ IF orch[o].rnd <= 2 /\ Other(w) # {}
       THEN /\ RunDriver(o, w, TRUE)
            /\ orch' = [orch EXCEPT ![o] = [pc |-> "run", wave |-> w, rnd |-> @.rnd + 1]]
       ELSE Goto(o, "final") /\ UNCHANGED drv
    /\ UNCHANGED <<reg, outcome, keeper, faults>>

BugSameBudget(o) ==
    LET w == orch[o].wave IN
    /\ orch[o].pc = "retry"
    /\ IF orch[o].rnd < 2 /\ Other(w) # {}
       THEN /\ RunDriver(o, w, FALSE)
            /\ orch' = [orch EXCEPT ![o] = [pc |-> "run", wave |-> w, rnd |-> @.rnd + 1]]
       ELSE Goto(o, "final") /\ UNCHANGED drv
    /\ UNCHANGED <<reg, outcome, keeper, faults>>

\* Up to two rounds at the long budget, while some verdict decides nothing.
RetryWave(o) ==
    LET w == orch[o].wave IN
    /\ orch[o].pc = "retry"
    /\ IF orch[o].rnd < 2 /\ Other(w) # {}
       THEN /\ RunDriver(o, w, TRUE)
            /\ orch' = [orch EXCEPT ![o] = [pc |-> "run", wave |-> w, rnd |-> @.rnd + 1]]
       ELSE Goto(o, "final") /\ UNCHANGED drv
    /\ UNCHANGED <<reg, outcome, keeper, faults>>

\* Seeded bug: "nothing left to retry" is taken for "everything UNSAT".
BugFinishWave(o) ==
    LET w == orch[o].wave IN
    /\ orch[o].pc = "final"
    /\ IF Count(w, "sat") > 0 THEN HaltOnSat(o)
       ELSE /\ IF Other(w) # {} THEN Exit(o)
               ELSE Goto(o, IF w = "tot" THEN "check" ELSE "write")
            /\ UNCHANGED satHalt
    /\ UNCHANGED <<reg, drv, failures, done, keeper, faults>>

\* The final guard, then exit 4 or 6 unless every cube of the wave is UNSAT.
FinishWave(o) ==
    LET w == orch[o].wave IN
    /\ orch[o].pc = "final"
    /\ IF Count(w, "sat") > 0 THEN HaltOnSat(o)
       ELSE /\ IF Count(w, "unsat") < Total(w) THEN Exit(o)
               ELSE Goto(o, IF w = "tot" THEN "check" ELSE "write")
            /\ UNCHANGED satHalt
    /\ UNCHANGED <<reg, drv, failures, done, keeper, faults>>

\* Phase 3 ends: 0 goes on to the other encoder's wave, 3 is exit 7, anything
\* else exit 5, after CHECK_FAILURES.jsonl was written or the pass crashed.
CheckEnded(o) ==
    /\ orch[o].pc = "check"
    /\ \E rc \in CheckRcs :
        /\ IF rc = 0 THEN orch' = [orch EXCEPT ![o] = [pc |-> "count", wave |-> "seq", rnd |-> 0]]
           ELSE Exit(o)
        /\ failures' \in IF rc = 1 THEN {failures, TRUE} ELSE {failures}
    /\ UNCHANGED <<reg, drv, satHalt, done, keeper, faults>>

WriteDone(o) ==
    /\ orch[o].pc = "write"
    /\ done' = TRUE
    /\ Exit(o)
    /\ UNCHANGED <<reg, drv, satHalt, failures, keeper, faults>>

-----------------------------------------------------------------------------
(* The wave driver, as its caller sees it.                                 *)

\* The jobs of o's driver are now these.
Jobs(o, todo, busy) ==
    drv' = [drv EXCEPT ![o] = [on |-> TRUE, wave |-> drv[o].wave, long |-> drv[o].long,
                               todo |-> todo, busy |-> busy]]

\* Seeded bug: a retry re-solves every cube of the wave.
BugTakeCube(o, c) ==
    /\ drv[o].on /\ c \in drv[o].todo
    /\ Jobs(o, drv[o].todo \ {c}, drv[o].busy \cup {c})
    /\ UNCHANGED <<reg, orch, outcome, keeper, faults>>

\* A worker takes a cube; a decided verdict is returned from the cache.
TakeCube(o, c) ==
    /\ drv[o].on /\ c \in drv[o].todo
    /\ Jobs(o, drv[o].todo \ {c},
               drv[o].busy \cup IF reg[c] \in Answers THEN {} ELSE {c})
    /\ UNCHANGED <<reg, orch, outcome, keeper, faults>>

\* Seeded bug: a run out of budget is written down as UNSAT.
BugSolveCube(o, c) ==
    /\ drv[o].on /\ c \in drv[o].busy
    /\ reg' = [reg EXCEPT ![c] =
                 IF Needs[c] = "short" \/ (Needs[c] = "long" /\ drv[o].long)
                 THEN Truth[c] ELSE "unsat"]
    /\ Jobs(o, drv[o].todo, drv[o].busy \ {c})
    /\ UNCHANGED <<orch, outcome, keeper, faults>>

\* The solver's budget decides the cube, or runs out; either is a verdict.
SolveCube(o, c) ==
    /\ drv[o].on /\ c \in drv[o].busy
    /\ reg' = [reg EXCEPT ![c] =
                 IF Needs[c] = "short" \/ (Needs[c] = "long" /\ drv[o].long)
                 THEN Truth[c] ELSE "timeout"]
    /\ Jobs(o, drv[o].todo, drv[o].busy \ {c})
    /\ UNCHANGED <<orch, outcome, keeper, faults>>

DriverDone(o) ==
    /\ drv[o].on /\ drv[o].todo = {} /\ drv[o].busy = {}
    /\ drv' = [drv EXCEPT ![o] = NoDriver]
    /\ UNCHANGED <<reg, orch, outcome, keeper, faults>>

-----------------------------------------------------------------------------
(* resume_campaign.ps1.                                                    *)

Say(k, said) == resume' = [resume EXCEPT ![k] = [pc |-> "idle", n |-> 0, said |-> said]]

\* A session, or start-up, runs the script by hand.
CallResume(k) ==
    /\ k # Watchdog
    /\ resume[k].pc = "idle"
    /\ resume' = [resume EXCEPT ![k].pc = "look"]
    /\ UNCHANGED <<campaign, outcome, n, wd, attention, faults>>

\* First what stopped the campaign for a reason, and the restart count.
LookForStop(k) ==
    /\ resume[k].pc = "look"
    /\ IF done THEN Say(k, "quiet")
       ELSE IF failures \/ satHalt THEN Say(k, "stopped")
       ELSE resume' = [resume EXCEPT ![k] = [pc |-> "probe", n |-> n, said |-> "quiet"]]
    /\ UNCHANGED <<campaign, outcome, n, wd, attention, faults>>

\* Seeded bug: the process list is not consulted.
BugProbe(k) ==
    /\ resume[k].pc = "probe"
    /\ IF resume[k].n >= MaxRestarts THEN Say(k, "stopped")
       ELSE resume' = [resume EXCEPT ![k].pc = "launch"]
    /\ UNCHANGED <<campaign, outcome, n, wd, attention, faults>>

\* Then, some seconds later, whether an orchestrator is in the process list.
Probe(k) ==
    /\ resume[k].pc = "probe"
    /\ IF OrchAlive THEN Say(k, "quiet")
       ELSE IF resume[k].n >= MaxRestarts THEN Say(k, "stopped")
       ELSE resume' = [resume EXCEPT ![k].pc = "launch"]
    /\ UNCHANGED <<campaign, outcome, n, wd, attention, faults>>

\* Start-Detached: the new orchestrator writes its start banner.
Launch(k) ==
    /\ resume[k].pc = "launch"
    /\ \E o \in Orchs :
        /\ orch[o].pc = "off" /\ ~drv[o].on
        /\ orch' = [orch EXCEPT ![o] = FirstWave]
    /\ satHalt' = FALSE
    /\ resume' = [resume EXCEPT ![k].pc = "tally"]
    /\ UNCHANGED <<reg, drv, failures, done, n, wd, attention, faults>>

\* The count it read, plus one.
Tally(k) ==
    /\ resume[k].pc = "tally"
    /\ n' = resume[k].n + 1
    /\ Say(k, "restarted")
    /\ UNCHANGED <<campaign, outcome, wd, attention, faults>>

ResumeStep(k) == LookForStop(k) \/ Probe(k) \/ Launch(k) \/ Tally(k)

-----------------------------------------------------------------------------
(* The watchdog: one poll every POLL_SECONDS.                              *)

\* At logon.  The lock of a dead watchdog is no obstacle.
StartWatchdog ==
    /\ wd.pc = "off"
    /\ wd' = [pc |-> "sleep", last |-> Progress, idle |-> 0, restarts |-> 0]
    /\ UNCHANGED <<campaign, outcome, resume, n, attention, faults>>

\* The first half of a poll compares progress and runs resume.
Poll ==
    /\ wd.pc = "sleep"
    /\ wd' = IF Progress # wd.last
             THEN [pc |-> "resume", last |-> Progress, idle |-> 0, restarts |-> 0]
             ELSE [wd EXCEPT !.pc = "resume"]
    /\ resume' = [resume EXCEPT ![Watchdog].pc = "look"]
    /\ UNCHANGED <<campaign, outcome, n, attention, faults>>

\* raise_attention: the first notice stays until a person removes the file.
Raised(notices) ==
    IF attention # "none" \/ notices = {} THEN {attention} ELSE notices

IsStalled(idle, restarts) == idle >= StallPolls /\ restarts >= StallRestarts

Capped(x, bound) == IF x < bound THEN x ELSE bound

\* Seeded bug: what resume said is logged and nothing more.
BugHeard(said) == "none"

\* A "STOPPED:" line is a terminal state.
Heard(said) == IF said = "stopped" THEN "stopped" ELSE "none"

\* The second half: what resume said, then the stall test, then DONE.json.  The
\* first notice raised in a poll wins.
Judge ==
    LET said == resume[Watchdog].said
        restarts == Capped(wd.restarts + IF said = "restarted" THEN 1 ELSE 0, StallRestarts)
        stall == IsStalled(wd.idle, restarts)
        notice == IF Heard(said) # "none" THEN {Heard(said)}
                  ELSE IF stall THEN {"stall"}
                  ELSE IF done THEN {"done"} ELSE {}
    IN
    /\ wd.pc = "resume"
    /\ resume[Watchdog].pc = "idle"
    /\ attention' \in Raised(notice)
    /\ wd' = IF done THEN [WdOff EXCEPT !.pc = "exited"]
             ELSE [pc |-> "sleep", last |-> wd.last,
                   idle |-> IF stall THEN 1 ELSE Capped(wd.idle + 1, StallPolls),
                   restarts |-> IF stall THEN 0 ELSE restarts]
    /\ UNCHANGED <<campaign, outcome, resume, n, faults>>

-----------------------------------------------------------------------------
(* Faults.                                                                 *)

Fault == faults < MaxFaults /\ faults' = faults + 1

\* The orchestrator dies, its driver with it or not.
KillOrch(o) ==
    /\ Fault
    /\ orch[o].pc # "off"
    /\ Exit(o)
    /\ drv' \in {[drv EXCEPT ![o] = NoDriver]} \cup IF Orphans THEN {drv} ELSE {}
    /\ UNCHANGED <<reg, outcome, keeper>>

\* The driver dies (a console event, a broken pool) and its parent lives.
KillDriver(o) ==
    /\ Fault
    /\ drv[o].on
    /\ drv' = [drv EXCEPT ![o] = NoDriver]
    /\ UNCHANGED <<reg, orch, outcome, keeper>>

\* A solver dies with some other exit status, which is a verdict as well.
KillSolver(o, c) ==
    /\ Fault
    /\ drv[o].on /\ c \in drv[o].busy
    /\ reg' = [reg EXCEPT ![c] = "error"]
    /\ Jobs(o, drv[o].todo, drv[o].busy \ {c})
    /\ UNCHANGED <<orch, outcome, keeper>>

AllProcessesEnd ==
    /\ orch' = [o \in Orchs |-> Off]
    /\ drv' = [o \in Orchs |-> NoDriver]
    /\ resume' = [k \in Callers |-> Quiet]
    /\ wd' = WdOff

\* A logoff or a reboot.
StopAll ==
    /\ Fault
    /\ AllProcessesEnd
    /\ UNCHANGED <<reg, outcome, n, attention>>

\* restart_with_fix.ps1, run by hand between two polls: everything stops, and
\* crash_cleanup.py deletes the totalizer verdicts that decide nothing.
RestartWithFix ==
    /\ Fault
    /\ \A k \in Callers : resume[k].pc = "idle"
    /\ AllProcessesEnd
    /\ reg' = [c \in Cubes |-> IF c \in Other("tot") THEN None ELSE reg[c]]
    /\ UNCHANGED <<outcome, n, attention>>

-----------------------------------------------------------------------------

OrchStep(o) ==
    \/ CountWave(o) \/ DriverEnded(o) \/ GuardWave(o) \/ RetryWave(o)
    \/ FinishWave(o) \/ CheckEnded(o) \/ WriteDone(o)

DriverStep(o) ==
    \/ \E c \in Cubes : TakeCube(o, c) \/ SolveCube(o, c)
    \/ DriverDone(o)

FaultStep ==
    \/ \E o \in Orchs : KillOrch(o) \/ KillDriver(o) \/ \E c \in Cubes : KillSolver(o, c)
    \/ StopAll \/ RestartWithFix

Next ==
    \/ \E o \in Orchs : OrchStep(o) \/ DriverStep(o)
    \/ \E k \in Callers : CallResume(k) \/ ResumeStep(k)
    \/ StartWatchdog \/ Poll \/ Judge
    \/ FaultStep

Spec == Init /\ [][Next]_vars

\* The operating system runs every process, solvers have a budget, and the
\* watchdog is started at logon.  Faults and hand-run resumes may never come.
Fairness ==
    /\ \A o \in Orchs : WF_vars(OrchStep(o)) /\ WF_vars(DriverStep(o))
    /\ \A k \in Callers : WF_vars(ResumeStep(k))
    /\ WF_vars(StartWatchdog) /\ WF_vars(Poll) /\ WF_vars(Judge)

FairSpec == Spec /\ Fairness

-----------------------------------------------------------------------------
(* Properties.                                                             *)

OrchOK ==
    orch \in [Orchs -> [pc : {"off", "count", "run", "guard", "retry", "final",
                             "check", "write"},
                       wave : Waves, rnd : 0..2]]

DrvOK ==
    drv \in [Orchs -> [on : BOOLEAN, wave : Waves, long : BOOLEAN,
                       todo : SUBSET Cubes, busy : SUBSET Cubes]]

ResumeOK ==
    resume \in [Callers -> [pc : {"idle", "look", "probe", "launch", "tally"},
                            n : Nat, said : {"quiet", "stopped", "restarted"}]]

WdOK ==
    wd \in [pc : {"off", "sleep", "resume", "exited"}, last : Nat,
            idle : Nat, restarts : Nat]

\* The shape of the state: every process is at a step of its program, no
\* orchestrator is past its second retry round.
TypeOK ==
    /\ reg \in [Cubes -> Rcs \cup {None}]
    /\ OrchOK /\ DrvOK /\ ResumeOK /\ WdOK
    /\ satHalt \in BOOLEAN /\ failures \in BOOLEAN /\ done \in BOOLEAN
    /\ n \in Nat
    /\ attention \in {"none", "stopped", "stall", "done"}
    /\ faults \in 0..MaxFaults

\* "both-encoder verified": DONE.json is only ever written about a problem
\* whose every cube, under both encodings, really is unsatisfiable, whatever
\* was killed, restarted twice at once or left behind on the way.
DoneSound == done => \A c \in Cubes : Truth[c] = "unsat"

\* "A nonzero SAT count HALTS the campaign" and hard cubes halt it too: while
\* no driver is orphaned, the confirmation wave never starts over a totalizer
\* wave that is not all UNSAT, nor is DONE.json written over a verdict that is
\* not, then or ever after.
PhaseOrder ==
    \A o \in Orchs : orch[o].pc # "off" /\ orch[o].wave = "seq" =>
        \A c \in CubesOf["tot"] : reg[c] = "unsat"
DoneComplete == done => \A c \in Cubes : reg[c] = "unsat"
InOrder == PhaseOrder /\ DoneComplete

\* "It does nothing if the campaign is already running": one orchestrator and
\* one driver at most, and the driver has its orchestrator waiting for it.
OneAtATime ==
    /\ \A o, p \in Orchs : orch[o].pc # "off" /\ orch[p].pc # "off" => o = p
    /\ \A o \in Orchs : drv[o].on => orch[o].pc = "run" /\ orch[o].wave = drv[o].wave

\* "Every phase is resumable": no retry round, restart or reboot ever loses
\* an answer once it is in a verdict file.
AnswersKept ==
    [][\A c \in Cubes : reg[c] \in Answers => reg'[c] = reg[c]]_vars

\* The campaign never ends in silence: it finishes, or the operator is told.
\* (Crash loops, hard cubes, a SAT cube and a failed proof are all covered.)
NeverSilent == <>(done \/ attention # "none")

\* A SAT verdict, the one result that refutes the claim, ends in the HALT line
\* and in the notice that "a STOPPED: line raises", and both stay: also when
\* resume looked for the line before it was there and restarts the campaign
\* after it.  Two cases are out: a stall that raised its notice first, which no
\* other replaces, and restarts used up, of which the STOPPED line then speaks.
SatReported ==
    [](attention # "stall" /\ n < MaxRestarts) =>
        ((\E c \in Cubes : reg[c] = "sat") ~>
             [](satHalt /\ ~OrchAlive /\ attention = "stopped"))

\* With fewer faults than automatic restarts, and no cube beyond the long
\* budget, the campaign completes unattended.
Completes == <>done

\* The waves, both together, are one verdict store.
Store == INSTANCE VerdictStore
             WITH reg <- [c \in Cubes |-> IF reg[c] = None THEN None
                                          ELSE [rc |-> reg[c], drat |-> FALSE]]
StoreSpec == Store!Spec
=============================================================================
