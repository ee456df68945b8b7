-------------------------- MODULE Campaign_proofs --------------------------
(***************************************************************************)
(* Proofs about Campaign, for all cubes, process slots, callers and bounds.*)
(* In the first half orphaned drivers and concurrent resumes are allowed.  *)
(* In the second it runs as it is meant to: the watchdog is the one caller *)
(* of resume_campaign.ps1, and a driver dies with its orchestrator.        *)
(***************************************************************************)
EXTENDS Sensor, FiniteSetTheorems, TLAPS

\* What the watchdog compares from poll to poll is a number.
LEMMA ProgressInNat ==
    ASSUME CampaignAssumption PROVE Progress \in Nat
<1>1. {c \in Cubes : reg[c] # None} \in SUBSET Cubes
  OBVIOUS
<1> QED
  BY <1>1, FS_Subset, FS_CardinalityType DEF Progress, CampaignAssumption

\* counts() reporting as many UNSAT verdicts as the wave has cubes means that
\* each of them is UNSAT: no other verdict can make up the number.
LEMMA FullCount ==
    ASSUME CampaignAssumption, NEW w \in Waves,
           ~(Count(w, "unsat") < Total(w))
    PROVE  \A c \in CubesOf[w] : reg[c] = "unsat"
<1> DEFINE U == {c \in CubesOf[w] : reg[c] = "unsat"}
<1>1. CubesOf[w] \in SUBSET Cubes
  BY DEF CampaignAssumption
<1>2. IsFiniteSet(CubesOf[w])
  BY <1>1, FS_Subset DEF CampaignAssumption
<1>3. U \in SUBSET CubesOf[w]
  OBVIOUS
<1>4. /\ IsFiniteSet(U)
      /\ Cardinality(U) <= Cardinality(CubesOf[w])
      /\ Cardinality(CubesOf[w]) = Cardinality(U) => CubesOf[w] = U
  BY <1>2, <1>3, FS_Subset
<1>5. Cardinality(U) \in Nat /\ Cardinality(CubesOf[w]) \in Nat
  BY <1>2, <1>4, FS_CardinalityType
<1>6. CubesOf[w] = U
  BY <1>4, <1>5 DEF Count, Total
<1> QED
  BY <1>6

\* How each of the processes moves, once for all the actions.
LEMMA GotoOK ==
    ASSUME OrchOK, NEW o \in Orchs, Goto(o, "off") \/ Goto(o, "count") \/ Goto(o, "run")
               \/ Goto(o, "guard") \/ Goto(o, "retry") \/ Goto(o, "final")
               \/ Goto(o, "check") \/ Goto(o, "write")
    PROVE  OrchOK'
BY DEF OrchOK, Goto

\* An orchestrator that exits frees its slot.
LEMMA ExitOK ==
    ASSUME OrchOK, NEW o \in Orchs, Exit(o) PROVE OrchOK'
BY DEF OrchOK, Exit, Off, Waves

\* A driver just started has the whole wave before it.
LEMMA RunDriverOK ==
    ASSUME DrvOK, NEW o \in Orchs, NEW w \in Waves, NEW long \in BOOLEAN,
           CampaignAssumption, RunDriver(o, w, long)
    PROVE  DrvOK'
BY DEF DrvOK, RunDriver, CampaignAssumption

\* A driver keeps its command line while its jobs change.
LEMMA JobsOK ==
    ASSUME DrvOK, NEW o \in Orchs, NEW todo \in SUBSET Cubes,
           NEW busy \in SUBSET Cubes, Jobs(o, todo, busy)
    PROVE  DrvOK'
BY DEF DrvOK, Jobs

\* A resume script that has said its last line is idle.
LEMMA SayOK ==
    ASSUME ResumeOK, NEW k \in Callers,
           NEW said \in {"quiet", "stopped", "restarted"}, Say(k, said)
    PROVE  ResumeOK'
BY DEF ResumeOK, Say

\* A resume script that moves on within a run.
LEMMA ResumeAtOK ==
    ASSUME ResumeOK, NEW k \in Callers, NEW p \in {"look", "probe", "launch", "tally"},
           resume' = [resume EXCEPT ![k].pc = p]
    PROVE  ResumeOK'
BY DEF ResumeOK

\* The state of the campaign keeps its shape.
THEOREM CampaignTypeCorrect == Spec => []TypeOK
<1> USE CampaignAssumption, TruthAssumption, SentinelAssumption
        DEF campaign, outcome, keeper
<1>1. Init => TypeOK
  <2> SUFFICES ASSUME Init PROVE TypeOK
    OBVIOUS
  <2> USE DEF Init
  <2>1. OrchOK
    BY DEF OrchOK, Off, Waves
  <2>2. DrvOK
    BY DEF DrvOK, NoDriver, Waves
  <2>3. ResumeOK
    BY DEF ResumeOK, Quiet
  <2>4. WdOK
    BY DEF WdOK, WdOff
  <2>5. 0 \in 0..MaxFaults
    BY DEF CampaignAssumption
  <2> QED
    BY <2>1, <2>2, <2>3, <2>4, <2>5 DEF TypeOK
<1>2. TypeOK /\ [Next]_vars => TypeOK'
  <2> SUFFICES ASSUME TypeOK, [Next]_vars
               PROVE  TypeOK'
    OBVIOUS
  <2> USE DEF TypeOK
  <2>o. ASSUME UNCHANGED orch PROVE OrchOK'
    BY <2>o DEF OrchOK
  <2>d. ASSUME UNCHANGED drv PROVE DrvOK'
    BY <2>d DEF DrvOK
  <2>r. ASSUME UNCHANGED resume PROVE ResumeOK'
    BY <2>r DEF ResumeOK
  <2>w. ASSUME UNCHANGED wd PROVE WdOK'
    BY <2>w DEF WdOK
  <2>f. \A o \in Orchs : orch[o].wave \in Waves
    BY DEF OrchOK
  <2>1. ASSUME NEW o \in Orchs, CountWave(o)
        PROVE  TypeOK'
    <3>1. OrchOK' /\ DrvOK'
      BY <2>1, <2>d, <2>f, GotoOK, RunDriverOK DEF CountWave
    <3> QED
      BY <2>1, <3>1, <2>r, <2>w DEF CountWave
  <2>2. ASSUME NEW o \in Orchs, DriverEnded(o)
        PROVE  TypeOK'
    BY <2>2, <2>d, <2>r, <2>w, GotoOK DEF DriverEnded
  <2>3. ASSUME NEW o \in Orchs, GuardWave(o)
        PROVE  TypeOK'
    <3>1. OrchOK' /\ satHalt' \in BOOLEAN
      BY <2>3, GotoOK, ExitOK DEF GuardWave, HaltOnSat
    <3> QED
      BY <2>3, <3>1, <2>d, <2>r, <2>w DEF GuardWave
  <2>4. ASSUME NEW o \in Orchs, RetryWave(o)
        PROVE  TypeOK'
    <3>1. CASE orch[o].rnd < 2 /\ Other(orch[o].wave) # {}
      <4>1. OrchOK'
        BY <2>4, <3>1 DEF RetryWave, OrchOK
      <4>2. DrvOK'
        BY <2>4, <3>1, <2>f, RunDriverOK DEF RetryWave
      <4> QED
        BY <2>4, <4>1, <4>2, <2>r, <2>w DEF RetryWave
    <3>2. CASE ~(orch[o].rnd < 2 /\ Other(orch[o].wave) # {})
      BY <2>4, <3>2, <2>d, <2>r, <2>w, GotoOK DEF RetryWave
    <3> QED
      BY <3>1, <3>2
  <2>5. ASSUME NEW o \in Orchs, FinishWave(o)
        PROVE  TypeOK'
    <3>1. OrchOK' /\ satHalt' \in BOOLEAN
      BY <2>5, GotoOK, ExitOK DEF FinishWave, HaltOnSat
    <3> QED
      BY <2>5, <3>1, <2>d, <2>r, <2>w DEF FinishWave
  <2>6. ASSUME NEW o \in Orchs, CheckEnded(o)
        PROVE  TypeOK'
    <3>1. OrchOK'
      BY <2>6, ExitOK DEF CheckEnded, OrchOK, Waves
    <3>2. failures' \in BOOLEAN
      BY <2>6 DEF CheckEnded
    <3> QED
      BY <2>6, <3>1, <3>2, <2>d, <2>r, <2>w DEF CheckEnded
  <2>7. ASSUME NEW o \in Orchs, WriteDone(o)
        PROVE  TypeOK'
    BY <2>7, <2>d, <2>r, <2>w, ExitOK DEF WriteDone
  <2>8. ASSUME NEW o \in Orchs, NEW c \in Cubes, TakeCube(o, c)
        PROVE  TypeOK'
    <3>1. DrvOK'
      BY <2>8 DEF TakeCube, Jobs, DrvOK
    <3> QED
      BY <2>8, <3>1, <2>o, <2>r, <2>w DEF TakeCube
  <2>9. ASSUME NEW o \in Orchs, NEW c \in Cubes, SolveCube(o, c)
        PROVE  TypeOK'
    <3>1. DrvOK'
      BY <2>9 DEF SolveCube, Jobs, DrvOK
    <3>2. reg' \in [Cubes -> Rcs \cup {None}]
      BY <2>9 DEF SolveCube, Rcs, Answers
    <3> QED
      BY <2>9, <3>1, <3>2, <2>o, <2>r, <2>w DEF SolveCube
  <2>10. ASSUME NEW o \in Orchs, DriverDone(o)
         PROVE  TypeOK'
    <3>1. DrvOK'
      BY <2>10 DEF DriverDone, NoDriver, DrvOK, Waves
    <3> QED
      BY <2>10, <3>1, <2>o, <2>r, <2>w DEF DriverDone
  <2>11. ASSUME NEW k \in Callers, CallResume(k)
         PROVE  TypeOK'
    BY <2>11, <2>o, <2>d, <2>w, ResumeAtOK DEF CallResume
  <2>12. ASSUME NEW k \in Callers, LookForStop(k)
         PROVE  TypeOK'
    <3>1. ResumeOK'
      BY <2>12, SayOK DEF LookForStop, ResumeOK
    <3> QED
      BY <2>12, <3>1, <2>o, <2>d, <2>w DEF LookForStop
  <2>13. ASSUME NEW k \in Callers, Probe(k)
         PROVE  TypeOK'
    <3>1. ResumeOK'
      BY <2>13, SayOK, ResumeAtOK DEF Probe
    <3> QED
      BY <2>13, <3>1, <2>o, <2>d, <2>w DEF Probe
  <2>14. ASSUME NEW k \in Callers, Launch(k)
         PROVE  TypeOK'
    <3>1. ResumeOK'
      BY <2>14, ResumeAtOK DEF Launch
    <3>2. OrchOK'
      BY <2>14 DEF Launch, OrchOK, FirstWave, Waves
    <3> QED
      BY <2>14, <3>1, <3>2, <2>d, <2>w DEF Launch
  <2>15. ASSUME NEW k \in Callers, Tally(k)
         PROVE  TypeOK'
    <3>1. ResumeOK' /\ n' \in Nat
      BY <2>15, SayOK DEF Tally, ResumeOK
    <3> QED
      BY <2>15, <3>1, <2>o, <2>d, <2>w DEF Tally
  <2>16. CASE StartWatchdog
    <3>1. WdOK'
      BY <2>16, ProgressInNat DEF StartWatchdog, WdOK
    <3> QED
      BY <2>16, <3>1, <2>o, <2>d, <2>r DEF StartWatchdog
  <2>17. CASE Poll
    <3>1. WdOK'
      BY <2>17, ProgressInNat DEF Poll, WdOK
    <3>2. ResumeOK'
      BY <2>17, ResumeAtOK DEF Poll, CampaignAssumption
    <3> QED
      BY <2>17, <3>1, <3>2, <2>o, <2>d DEF Poll
  <2>18. CASE Judge
    <3>1. attention' \in {"none", "stopped", "stall", "done"}
      BY <2>18 DEF Judge, Raised, Heard
    <3>2. \A x, bound \in Nat : Capped(x, bound) \in Nat
      BY DEF Capped
    <3>3. /\ wd.restarts + (IF resume[Watchdog].said = "restarted" THEN 1 ELSE 0) \in Nat
          /\ wd.idle + 1 \in Nat
          /\ StallRestarts \in Nat /\ StallPolls \in Nat
      BY DEF WdOK, CampaignAssumption
    <3>4. WdOK'
      <4>1. CASE done
        BY <2>18, <4>1 DEF Judge, WdOff, WdOK
      <4>2. CASE ~done
        BY <2>18, <3>2, <3>3, <4>2 DEF Judge, WdOK
      <4> QED
        BY <4>1, <4>2
    <3> QED
      BY <2>18, <3>1, <3>4, <2>o, <2>d, <2>r DEF Judge
  <2>19. ASSUME NEW o \in Orchs, KillOrch(o)
         PROVE  TypeOK'
    <3>0. UNCHANGED drv \/ drv' = [drv EXCEPT ![o] = NoDriver]
      BY <2>19 DEF KillOrch
    <3>1. OrchOK'
      BY <2>19, ExitOK DEF KillOrch
    <3>3. DrvOK'
      <4>1. CASE UNCHANGED drv
        BY <4>1, <2>d
      <4>2. CASE drv' = [drv EXCEPT ![o] = NoDriver]
        BY <4>2 DEF DrvOK, NoDriver, Waves
      <4> QED
        BY <3>0, <4>1, <4>2
    <3>2. faults' \in 0..MaxFaults
      BY <2>19 DEF KillOrch, Fault, CampaignAssumption
    <3> QED
      BY <2>19, <3>1, <3>2, <3>3, <2>r, <2>w DEF KillOrch
  <2>20. ASSUME NEW o \in Orchs, KillDriver(o)
         PROVE  TypeOK'
    <3>1. DrvOK'
      BY <2>20 DEF KillDriver, DrvOK, NoDriver, Waves
    <3>2. faults' \in 0..MaxFaults
      BY <2>20 DEF KillDriver, Fault, CampaignAssumption
    <3> QED
      BY <2>20, <3>1, <3>2, <2>o, <2>r, <2>w DEF KillDriver
  <2>21. ASSUME NEW o \in Orchs, NEW c \in Cubes, KillSolver(o, c)
         PROVE  TypeOK'
    <3>1. DrvOK'
      BY <2>21 DEF KillSolver, Jobs, DrvOK
    <3>2. faults' \in 0..MaxFaults
      BY <2>21 DEF KillSolver, Fault, CampaignAssumption
    <3>3. reg' \in [Cubes -> Rcs \cup {None}]
      BY <2>21 DEF KillSolver, Rcs
    <3> QED
      BY <2>21, <3>1, <3>2, <3>3, <2>o, <2>r, <2>w DEF KillSolver
  <2>22. CASE StopAll \/ RestartWithFix
    <3>0. AllProcessesEnd
      BY <2>22 DEF StopAll, RestartWithFix
    <3>1. OrchOK' /\ DrvOK' /\ ResumeOK' /\ WdOK'
      BY <3>0 DEF AllProcessesEnd, OrchOK, DrvOK, ResumeOK, WdOK, Off, NoDriver, Quiet,
                  WdOff, Waves
    <3>2. faults' \in 0..MaxFaults
      BY <2>22 DEF StopAll, RestartWithFix, Fault, CampaignAssumption
    <3>3. reg' \in [Cubes -> Rcs \cup {None}]
      BY <2>22 DEF StopAll, RestartWithFix
    <3> QED
      BY <2>22, <3>1, <3>2, <3>3 DEF StopAll, RestartWithFix
  <2>23. CASE UNCHANGED vars
    BY <2>23, <2>o, <2>d, <2>r, <2>w DEF vars
  <2> QED
    BY <2>1, <2>2, <2>3, <2>4, <2>5, <2>6, <2>7, <2>8, <2>9, <2>10, <2>11, <2>12,
       <2>13, <2>14, <2>15, <2>16, <2>17, <2>18, <2>19, <2>20, <2>21, <2>22, <2>23
       DEF Next, OrchStep, DriverStep, ResumeStep, FaultStep
<1> QED
  BY <1>1, <1>2, PTL DEF Spec

-----------------------------------------------------------------------------
(* What the orchestrator has established about the cubes by the time it    *)
(* stands at each of its steps.  Truth never changes, so it does not       *)
(* matter who overwrites a verdict file after it was counted.              *)

WaveUnsat(w) == \A c \in CubesOf[w] : Truth[c] = "unsat"

Honest == \A c \in Cubes : reg[c] \in Answers => reg[c] = Truth[c]

Established ==
    /\ \A o \in Orchs : orch[o].pc \in {"check", "write"} => WaveUnsat("tot")
    /\ \A o \in Orchs : orch[o].pc # "off" /\ orch[o].wave = "seq" => WaveUnsat("tot")
    /\ \A o \in Orchs : orch[o].pc = "write" => WaveUnsat("seq")

CampaignInv == TypeOK /\ Honest /\ Established /\ DoneSound

\* A wave whose count is full is unsatisfiable, verdicts being honest.
LEMMA FullWave ==
    ASSUME CampaignAssumption, Honest, NEW w \in Waves,
           ~(Count(w, "unsat") < Total(w))
    PROVE  WaveUnsat(w)
<1>1. \A c \in CubesOf[w] : c \in Cubes /\ reg[c] = "unsat"
  BY FullCount DEF CampaignAssumption
<1> QED
  BY <1>1 DEF WaveUnsat, Honest, Answers

\* Both waves together are all the cubes.
LEMMA BothWaves ==
    ASSUME CampaignAssumption, WaveUnsat("tot"), WaveUnsat("seq")
    PROVE  \A c \in Cubes : Truth[c] = "unsat"
BY DEF CampaignAssumption, WaveUnsat

\* Steps that leave reg alone, and move no orchestrator forward, keep all that
\* was established.
LEMMA NothingNew ==
    ASSUME OrchOK, Honest, Established, DoneSound, UNCHANGED <<reg, done>>,
           \A o \in Orchs : orch'[o] = orch[o] \/ orch'[o].pc = "off"
    PROVE  Honest' /\ Established' /\ DoneSound'
BY DEF Honest, Established, DoneSound, WaveUnsat

\* An orchestrator that moves within a wave, short of its next phase, keeps them.
LEMMA SamePhase ==
    ASSUME OrchOK, Honest, Established, DoneSound, UNCHANGED <<reg, done>>,
           NEW o \in Orchs, orch[o].pc # "off",
           NEW p \in {"run", "guard", "retry", "final"}, Goto(o, p)
    PROVE  Honest' /\ Established' /\ DoneSound'
<1>1. \A q \in Orchs : orch'[q].wave = orch[q].wave
                      /\ (orch'[q].pc = IF q = o THEN p ELSE orch[q].pc)
  BY DEF Goto, OrchOK
<1> QED
  BY <1>1 DEF Honest, Established, DoneSound, WaveUnsat

\* The inductive invariant, whoever is killed, restarted or left behind.
LEMMA CampaignInvariant == Spec => []CampaignInv
<1> USE CampaignAssumption
<1>1. Init => Honest /\ Established /\ DoneSound
  BY DEF Init, Honest, Established, DoneSound, Off, CampaignAssumption, Rcs
<1>2. CampaignInv /\ [Next]_vars => (Honest /\ Established /\ DoneSound)'
  <2> SUFFICES ASSUME CampaignInv, [Next]_vars
               PROVE  Honest' /\ Established' /\ DoneSound'
    OBVIOUS
  <2>0. OrchOK /\ Honest /\ Established /\ DoneSound /\ reg \in [Cubes -> Rcs \cup {None}]
    BY DEF CampaignInv, TypeOK
  <2> USE DEF campaign, outcome, keeper
  <2>1. ASSUME NEW o \in Orchs, CountWave(o)
        PROVE  Honest' /\ Established' /\ DoneSound'
    BY <2>0, <2>1, SamePhase DEF CountWave
  <2>2. ASSUME NEW o \in Orchs, DriverEnded(o)
        PROVE  Honest' /\ Established' /\ DoneSound'
    BY <2>0, <2>2, SamePhase DEF DriverEnded
  <2>3. ASSUME NEW o \in Orchs, Exit(o), UNCHANGED <<reg, done>>
        PROVE  Honest' /\ Established' /\ DoneSound'
    <3>1. \A q \in Orchs : orch'[q] = orch[q] \/ orch'[q].pc = "off"
      BY <2>0, <2>3 DEF Exit, Off, OrchOK
    <3> QED
      BY <2>0, <2>3, <3>1, NothingNew
  <2>4. ASSUME NEW o \in Orchs, GuardWave(o)
        PROVE  Honest' /\ Established' /\ DoneSound'
    BY <2>0, <2>3, <2>4, SamePhase DEF GuardWave, HaltOnSat
  <2>5. ASSUME NEW o \in Orchs, RetryWave(o)
        PROVE  Honest' /\ Established' /\ DoneSound'
    <3>1. CASE orch[o].rnd < 2 /\ Other(orch[o].wave) # {}
      <4>1. \A q \in Orchs : /\ orch'[q].wave = orch[q].wave
                             /\ orch'[q].pc = IF q = o THEN "run" ELSE orch[q].pc
        BY <2>0, <2>5, <3>1 DEF RetryWave, OrchOK
      <4>2. orch[o].pc = "retry" /\ UNCHANGED <<reg, done>>
        BY <2>5 DEF RetryWave
      <4> QED
        BY <2>0, <4>1, <4>2 DEF Honest, Established, DoneSound, WaveUnsat
    <3>2. CASE ~(orch[o].rnd < 2 /\ Other(orch[o].wave) # {})
      BY <2>0, <2>5, <3>2, SamePhase DEF RetryWave
    <3> QED
      BY <3>1, <3>2
  <2>6. ASSUME NEW o \in Orchs, FinishWave(o)
        PROVE  Honest' /\ Established' /\ DoneSound'
    <3> DEFINE w == orch[o].wave
    <3>1. w \in Waves /\ orch[o].pc = "final" /\ UNCHANGED <<reg, done>>
      BY <2>0, <2>6 DEF FinishWave, OrchOK
    <3>2. CASE Exit(o)
      BY <2>3, <3>1, <3>2
    <3>3. CASE ~Exit(o)
      <4>1. /\ ~(Count(w, "unsat") < Total(w))
            /\ Goto(o, IF w = "tot" THEN "check" ELSE "write")
        BY <2>6, <3>3 DEF FinishWave, HaltOnSat
      <4>2. WaveUnsat(w)
        BY <2>0, <3>1, <4>1, FullWave
      <4>3. \A q \in Orchs :
               /\ orch'[q].wave = orch[q].wave
               /\ orch'[q].pc = IF q # o THEN orch[q].pc
                                ELSE IF w = "tot" THEN "check" ELSE "write"
        BY <2>0, <4>1 DEF Goto, OrchOK
      <4>4. WaveUnsat("tot") /\ (w = "seq" => WaveUnsat("seq"))
        BY <2>0, <3>1, <4>2 DEF Established, Waves
      <4>5. UNCHANGED <<WaveUnsat("tot"), WaveUnsat("seq")>>
        BY DEF WaveUnsat
      <4>6. Established'
        BY <2>0, <3>1, <4>3, <4>4, <4>5 DEF Established, Waves
      <4> QED
        BY <2>0, <3>1, <4>6 DEF Honest, DoneSound
    <3> QED
      BY <3>2, <3>3
  <2>7. ASSUME NEW o \in Orchs, CheckEnded(o)
        PROVE  Honest' /\ Established' /\ DoneSound'
    <3>1. orch[o].pc = "check" /\ UNCHANGED <<reg, done>>
      BY <2>7 DEF CheckEnded
    <3>2. CASE Exit(o)
      BY <2>3, <3>1, <3>2
    <3>3. CASE orch' = [orch EXCEPT ![o] = [pc |-> "count", wave |-> "seq", rnd |-> 0]]
      <4>1. WaveUnsat("tot")
        BY <2>0, <3>1 DEF Established
      <4>2. \A q \in Orchs : orch'[q] = IF q = o THEN [pc |-> "count", wave |-> "seq", rnd |-> 0]
                                       ELSE orch[q]
        BY <2>0, <3>3 DEF OrchOK
      <4>3. Established'
        BY <2>0, <4>1, <4>2 DEF Established, WaveUnsat
      <4> QED
        BY <2>0, <3>1, <4>3 DEF Honest, DoneSound
    <3> QED
      BY <2>7, <3>2, <3>3 DEF CheckEnded
  <2>8. ASSUME NEW o \in Orchs, WriteDone(o)
        PROVE  Honest' /\ Established' /\ DoneSound'
    <3>1. orch[o].pc = "write" /\ UNCHANGED reg
      BY <2>8 DEF WriteDone
    <3>2. \A c \in Cubes : Truth[c] = "unsat"
      BY <2>0, <3>1, BothWaves DEF Established
    <3>3. WaveUnsat("tot") /\ WaveUnsat("seq")
      BY <3>2 DEF WaveUnsat, CampaignAssumption, Waves
    <3> QED
      BY <2>0, <3>1, <3>2, <3>3 DEF Honest, Established, DoneSound, WaveUnsat
  <2>9. ASSUME UNCHANGED <<orch, done>>,
               \A c \in Cubes : reg'[c] = reg[c] \/ reg'[c] \notin Answers \/ reg'[c] = Truth[c]
        PROVE  Honest' /\ Established' /\ DoneSound'
    BY <2>0, <2>9 DEF Honest, Established, DoneSound, WaveUnsat
  <2>10. ASSUME NEW o \in Orchs, DriverStep(o)
         PROVE  Honest' /\ Established' /\ DoneSound'
    <3>1. ASSUME NEW c \in Cubes, SolveCube(o, c)
          PROVE  Honest' /\ Established' /\ DoneSound'
      <4>1. \A e \in Cubes : reg'[e] = reg[e] \/ reg'[e] = "timeout" \/ reg'[e] = Truth[e]
        BY <2>0, <3>1 DEF SolveCube
      <4> QED
        BY <2>9, <3>1, <4>1 DEF SolveCube, Answers
    <3>2. CASE UNCHANGED <<reg, orch, done>>
      BY <2>9, <3>2
    <3> QED
      BY <2>10, <3>1, <3>2 DEF DriverStep, TakeCube, DriverDone
  <2>11. ASSUME NEW k \in Callers, Launch(k)
         PROVE  Honest' /\ Established' /\ DoneSound'
    <3>1. PICK o \in Orchs : orch' = [orch EXCEPT ![o] = FirstWave]
      BY <2>11 DEF Launch
    <3>2. \A q \in Orchs : orch'[q] = IF q = o THEN FirstWave ELSE orch[q]
      BY <2>0, <3>1 DEF OrchOK
    <3> QED
      BY <2>0, <2>11, <3>2 DEF FirstWave, Launch, Honest, Established, DoneSound, WaveUnsat
  <2>12. ASSUME NEW k \in Callers, CallResume(k) \/ LookForStop(k) \/ Probe(k) \/ Tally(k)
         PROVE  Honest' /\ Established' /\ DoneSound'
    BY <2>9, <2>12 DEF CallResume, LookForStop, Probe, Tally
  <2>13. CASE StartWatchdog \/ Poll \/ Judge
    BY <2>9, <2>13 DEF StartWatchdog, Poll, Judge
  <2>14. ASSUME NEW o \in Orchs, KillOrch(o)
         PROVE  Honest' /\ Established' /\ DoneSound'
    BY <2>3, <2>14 DEF KillOrch
  <2>15. ASSUME NEW o \in Orchs, NEW c \in Cubes, KillSolver(o, c)
         PROVE  Honest' /\ Established' /\ DoneSound'
    <3>1. \A e \in Cubes : reg'[e] = reg[e] \/ reg'[e] = "error"
      BY <2>0, <2>15 DEF KillSolver
    <3> QED
      BY <2>9, <2>15, <3>1 DEF KillSolver, Answers
  <2>16. ASSUME NEW o \in Orchs, KillDriver(o)
         PROVE  Honest' /\ Established' /\ DoneSound'
    BY <2>9, <2>16 DEF KillDriver
  <2>17. CASE StopAll \/ RestartWithFix
    <3>1. \A q \in Orchs : orch'[q].pc = "off"
      BY <2>17 DEF StopAll, RestartWithFix, AllProcessesEnd, Off
    <3>2. CASE StopAll
      BY <2>0, <3>1, <3>2, NothingNew DEF StopAll
    <3>3. CASE RestartWithFix
      <4>1. \A c \in Cubes : reg'[c] \in Answers => reg'[c] = reg[c]
        BY <3>3 DEF RestartWithFix, CampaignAssumption, Rcs
      <4> QED
        BY <2>0, <3>1, <3>3, <4>1
           DEF RestartWithFix, Honest, Established, DoneSound, WaveUnsat
    <3> QED
      BY <2>17, <3>2, <3>3
  <2>18. CASE UNCHANGED vars
    BY <2>9, <2>18 DEF vars
  <2> QED
    BY <2>1, <2>2, <2>4, <2>5, <2>6, <2>7, <2>8, <2>10, <2>11, <2>12, <2>13, <2>14,
       <2>15, <2>16, <2>17, <2>18 DEF Next, OrchStep, ResumeStep, FaultStep
<1> QED
  BY <1>1, <1>2, CampaignTypeCorrect, PTL DEF Spec, CampaignInv

\* DONE.json is never written about a satisfiable cube: for every set of cubes,
\* any number of orchestrators at once, orphaned drivers, kills and reboots.
THEOREM DoneSoundness == Spec => []DoneSound
<1>1. CampaignInv => DoneSound
  BY DEF CampaignInv
<1> QED
  BY <1>1, CampaignInvariant, PTL

-----------------------------------------------------------------------------

\* Both waves' verdict directories, whatever the campaign does to the programs
\* that fill them, keep the promises of the abstract verdict store.
THEOREM CampaignImplementsStore == Spec => StoreSpec
<1> USE CampaignAssumption
<1> DEFINE Seen == [c \in Cubes |-> IF reg[c] = None THEN None
                                    ELSE [rc |-> reg[c], drat |-> FALSE]]
<1>1. Init => Store!Init
  BY DEF Init, Store!Init
<1>2. ASSUME TypeOK, NEW c \in Cubes, NEW rc \in Rcs, rc \in Answers => rc = Truth[c],
             reg' = [reg EXCEPT ![c] = rc]
      PROVE  Store!Next
  <2> DEFINE v == [rc |-> rc, drat |-> FALSE]
  <2>1. v \in Store!VerdictRec /\ Store!Faithful(v, c)
    BY <1>2 DEF Store!VerdictRec, Store!Rcs, Store!Answers, Store!Faithful, Rcs, Answers
  <2>2. rc # None
    BY <1>2 DEF CampaignAssumption
  <2>3. Seen' = [Seen EXCEPT ![c] = v]
    BY <1>2, <2>2 DEF TypeOK
  <2>4. Store!Record(c)
    BY <2>1, <2>3 DEF Store!Record
  <2> QED
    BY <2>4 DEF Store!Next
<1>3. ASSUME UNCHANGED reg
      PROVE  UNCHANGED Seen
  BY <1>3
<1>4. TypeOK /\ [Next]_vars => [Store!Next]_Seen
  <2> SUFFICES ASSUME TypeOK, [Next]_vars
               PROVE  Store!Next \/ UNCHANGED Seen
    OBVIOUS
  <2>1. ASSUME NEW o \in Orchs, NEW c \in Cubes, SolveCube(o, c)
        PROVE  Store!Next
    <3>1. PICK rc \in {"timeout", Truth[c]} : reg' = [reg EXCEPT ![c] = rc]
      BY <2>1 DEF SolveCube
    <3>2. rc \in Rcs /\ (rc \in Answers => rc = Truth[c])
      BY TruthAssumption DEF Rcs, Answers
    <3> QED
      BY <1>2, <3>1, <3>2
  <2>2. ASSUME NEW o \in Orchs, NEW c \in Cubes, KillSolver(o, c)
        PROVE  Store!Next
    BY <1>2, <2>2 DEF KillSolver, Rcs, Answers
  <2>3. CASE UNCHANGED reg
    BY <1>3, <2>3
  <2> USE DEF campaign, outcome, keeper
  <2>4. ASSUME NEW o \in Orchs, OrchStep(o)
        PROVE  UNCHANGED reg
    BY <2>4 DEF OrchStep, CountWave, DriverEnded, GuardWave, RetryWave, FinishWave,
                CheckEnded, WriteDone
  <2>5. ASSUME NEW k \in Callers, CallResume(k) \/ ResumeStep(k)
        PROVE  UNCHANGED reg
    BY <2>5 DEF CallResume, ResumeStep, LookForStop, Probe, Launch, Tally
  <2>r. CASE RestartWithFix
    <3> DEFINE S == Other("tot")
    <3>1. S \in SUBSET Cubes
      BY DEF Other, CampaignAssumption, Waves
    <3>2. \A c \in S : ~Store!Decided(Seen[c])
      BY <3>1 DEF Other, Store!Decided, Store!VerdictRec, Store!Answers, Answers
    <3>3. Seen' = [c \in Cubes |-> IF c \in S THEN None ELSE Seen[c]]
      BY <2>r DEF RestartWithFix
    <3>4. Store!Discard
      BY <3>1, <3>2, <3>3 DEF Store!Discard
    <3> QED
      BY <3>4 DEF Store!Next
  <2>6. CASE StartWatchdog \/ Poll \/ Judge \/ StopAll
    BY <2>3, <2>6 DEF StartWatchdog, Poll, Judge, StopAll
  <2>7. ASSUME NEW o \in Orchs, KillOrch(o) \/ KillDriver(o) \/ DriverDone(o)
        PROVE  UNCHANGED reg
    BY <2>7 DEF KillOrch, KillDriver, DriverDone
  <2>8. ASSUME NEW o \in Orchs, NEW c \in Cubes, TakeCube(o, c)
        PROVE  UNCHANGED reg
    BY <2>8 DEF TakeCube
  <2>9. CASE UNCHANGED vars
    BY <2>3, <2>9 DEF vars
  <2> QED
    BY <2>1, <2>2, <2>3, <2>4, <2>5, <2>6, <2>7, <2>8, <2>9, <2>r
       DEF Next, DriverStep, FaultStep
<1> QED
  BY <1>1, <1>4, CampaignTypeCorrect, PTL DEF Spec, StoreSpec, Store!Spec


Alone == ~Orphans /\ Callers = {Watchdog}

-----------------------------------------------------------------------------
(* One orchestrator at a time.  OneAtATime is not inductive: between the   *)
(* look at the process list and the launch nobody else may launch.         *)

Lone == OneAtATime /\ (resume[Watchdog].pc = "launch" => ~OrchAlive)

\* A step of one orchestrator, or of its driver, that leaves resume alone.
LEMMA OneMoves ==
    ASSUME Lone, NEW o \in Orchs, orch[o].pc # "off", UNCHANGED resume,
           \A q \in Orchs : q # o => orch'[q] = orch[q] /\ drv'[q] = drv[q],
           drv'[o].on => orch'[o].pc = "run" /\ orch'[o].wave = drv'[o].wave
    PROVE  Lone'
<1>1. \A q \in Orchs : orch'[q].pc # "off" => q = o
  BY DEF Lone, OneAtATime
<1>2. \A q \in Orchs : drv'[q].on => orch'[q].pc = "run" /\ orch'[q].wave = drv'[q].wave
  BY DEF Lone, OneAtATime
<1>3. resume'[Watchdog].pc # "launch"
  BY DEF Lone, OrchAlive
<1> QED
  BY <1>1, <1>2, <1>3 DEF Lone, OneAtATime

\* An orchestrator whose driver is not on moves on or exits.
LEMMA OrchMoves ==
    ASSUME TypeOK, Lone, NEW o \in Orchs, orch[o].pc \notin {"off", "run"},
           UNCHANGED <<drv, resume>>,
           \E x : orch' = [orch EXCEPT ![o] = x]
    PROVE  Lone'
<1>1. ~drv[o].on
  BY DEF Lone, OneAtATime
<1>2. \A q \in Orchs : q # o => orch'[q] = orch[q]
  BY DEF TypeOK, OrchOK
<1> QED
  BY <1>1, <1>2, OneMoves

\* The driver an orchestrator waits for loses or finishes a job, or dies.
LEMMA DriverMoves ==
    ASSUME TypeOK, Lone, NEW o \in Orchs, drv[o].on, UNCHANGED <<orch, resume>>,
           NEW x, drv' = [drv EXCEPT ![o] = x],
           x.on => x.wave = drv[o].wave
    PROVE  Lone'
<1>1. orch[o].pc = "run" /\ orch[o].wave = drv[o].wave
  BY DEF Lone, OneAtATime
<1>2. /\ drv'[o] = x
      /\ \A q \in Orchs : q # o => drv'[q] = drv[q]
  BY DEF TypeOK, DrvOK
<1> QED
  BY <1>1, <1>2, OneMoves

\* An orchestrator starts a driver and waits for it.
LEMMA StartsDriver ==
    ASSUME TypeOK, Lone, NEW o \in Orchs, orch[o].pc # "off", UNCHANGED resume,
           NEW long, RunDriver(o, orch[o].wave, long),
           NEW rnd, orch' = [orch EXCEPT ![o] = [pc |-> "run", wave |-> orch[o].wave,
                                                 rnd |-> rnd]]
    PROVE  Lone'
<1>1. /\ drv'[o].wave = orch[o].wave
      /\ \A q \in Orchs : q # o => drv'[q] = drv[q]
  BY DEF TypeOK, DrvOK, RunDriver
<1>2. /\ orch'[o].pc = "run" /\ orch'[o].wave = orch[o].wave
      /\ \A q \in Orchs : q # o => orch'[q] = orch[q]
  BY DEF TypeOK, OrchOK
<1> QED
  BY <1>1, <1>2, OneMoves

\* No process is left.
LEMMA NobodyLeft == ASSUME AllProcessesEnd PROVE Lone'
BY DEF AllProcessesEnd, Lone, OneAtATime, Off, NoDriver, OrchAlive

\* One step keeps the campaign to one orchestrator and one driver.
LEMMA LoneStep ==
    ASSUME Alone PROVE TypeOK /\ Lone /\ [Next]_vars => Lone'
<1> SUFFICES ASSUME TypeOK, Lone, [Next]_vars PROVE Lone'
  OBVIOUS
<1> USE CampaignAssumption DEF campaign, outcome, keeper
<1>0. \A k \in Callers : k = Watchdog
  BY DEF Alone
<1>1. ASSUME NEW o \in Orchs, CountWave(o)
      PROVE  Lone'
  <2>1. CASE Count(orch[o].wave, "unsat") < Total(orch[o].wave)
    <3>1. orch' = [orch EXCEPT ![o] = [pc |-> "run", wave |-> orch[o].wave,
                                       rnd |-> orch[o].rnd]]
      BY <1>1, <2>1 DEF CountWave, Goto, TypeOK, OrchOK
    <3> QED
      BY <1>1, <2>1, <3>1, StartsDriver DEF CountWave
  <2>2. CASE ~(Count(orch[o].wave, "unsat") < Total(orch[o].wave))
    BY <1>1, <2>2, OrchMoves DEF CountWave, Goto
  <2> QED
    BY <2>1, <2>2
<1>2. ASSUME NEW o \in Orchs, DriverEnded(o)
      PROVE  Lone'
  <2>1. \A q \in Orchs : q # o => orch'[q] = orch[q]
    BY <1>2 DEF DriverEnded, Goto, TypeOK, OrchOK
  <2> QED
    BY <1>2, <2>1, OneMoves DEF DriverEnded
<1>3. ASSUME NEW o \in Orchs, GuardWave(o) \/ FinishWave(o) \/ CheckEnded(o) \/ WriteDone(o)
      PROVE  Lone'
  BY <1>3, OrchMoves
     DEF GuardWave, FinishWave, CheckEnded, WriteDone, HaltOnSat, Exit, Goto
<1>4. ASSUME NEW o \in Orchs, RetryWave(o)
      PROVE  Lone'
  <2>1. CASE orch[o].rnd < 2 /\ Other(orch[o].wave) # {}
    <3>1. orch' = [orch EXCEPT ![o] = [pc |-> "run", wave |-> orch[o].wave,
                                       rnd |-> orch[o].rnd + 1]]
      BY <1>4, <2>1 DEF RetryWave, TypeOK, OrchOK
    <3> QED
      BY <1>4, <2>1, <3>1, StartsDriver DEF RetryWave
  <2>2. CASE ~(orch[o].rnd < 2 /\ Other(orch[o].wave) # {})
    BY <1>4, <2>2, OrchMoves DEF RetryWave, Goto
  <2> QED
    BY <2>1, <2>2
<1>5. ASSUME NEW o \in Orchs, NEW c \in Cubes,
             TakeCube(o, c) \/ SolveCube(o, c) \/ KillSolver(o, c)
      PROVE  Lone'
  BY <1>5, DriverMoves DEF TakeCube, SolveCube, KillSolver, Jobs
<1>6. ASSUME NEW o \in Orchs, DriverDone(o) \/ KillDriver(o)
      PROVE  Lone'
  BY <1>6, DriverMoves DEF DriverDone, KillDriver, NoDriver
<1>7. ASSUME NEW o \in Orchs, KillOrch(o)
      PROVE  Lone'
  <2>1. ~drv'[o].on /\ \A q \in Orchs : q # o => drv'[q] = drv[q] /\ orch'[q] = orch[q]
    BY <1>7 DEF KillOrch, Exit, NoDriver, Alone, TypeOK, DrvOK, OrchOK
  <2> QED
    BY <1>7, <2>1, OneMoves DEF KillOrch
<1>8. CASE StopAll \/ RestartWithFix
  BY <1>8, NobodyLeft DEF StopAll, RestartWithFix
<1>9. ASSUME UNCHANGED <<orch, drv>>,
             resume'[Watchdog].pc = "launch" => resume[Watchdog].pc = "launch" \/ ~OrchAlive
      PROVE  Lone'
  BY <1>9 DEF Lone, OneAtATime, OrchAlive
<1>10. CASE LookForStop(Watchdog) \/ Probe(Watchdog) \/ Tally(Watchdog)
  BY <1>9, <1>10 DEF LookForStop, Probe, Tally, Say, TypeOK, ResumeOK
<1>11. CASE Launch(Watchdog)
  <2>1. PICK o \in Orchs : orch[o].pc = "off" /\ ~drv[o].on
                           /\ orch' = [orch EXCEPT ![o] = FirstWave]
    BY <1>11 DEF Launch
  <2>2. \A q \in Orchs : orch[q].pc = "off"
    BY <1>11 DEF Launch, Lone, OrchAlive
  <2>3. \A q \in Orchs : /\ ~drv'[q].on
                         /\ orch'[q].pc # "off" => q = o
    BY <1>11, <2>1, <2>2 DEF Launch, Lone, OneAtATime, TypeOK, OrchOK
  <2>4. resume'[Watchdog].pc # "launch"
    BY <1>11 DEF Launch, TypeOK, ResumeOK
  <2> QED
    BY <2>3, <2>4 DEF Lone, OneAtATime
<1>12. CASE Poll
  BY <1>9, <1>12 DEF Poll, TypeOK, ResumeOK
<1>13. CASE StartWatchdog \/ Judge \/ UNCHANGED vars
  BY <1>9, <1>13 DEF StartWatchdog, Judge, vars
<1> QED
  BY <1>0, <1>1, <1>2, <1>3, <1>4, <1>5, <1>6, <1>7, <1>8, <1>10, <1>11, <1>12, <1>13
     DEF Next, OrchStep, DriverStep, ResumeStep, CallResume, FaultStep

\* "It does nothing if the campaign is already running": with the watchdog the
\* only caller, kills, reboots and restarts never make two orchestrators or a
\* driver that nobody waits for.
THEOREM OneOrchestrator == ASSUME Alone PROVE Spec => []OneAtATime
<1>1. Init => Lone
  BY DEF Init, Lone, OneAtATime, Off, NoDriver, OrchAlive
<1>2. Lone => OneAtATime
  BY DEF Lone
<1> QED
  BY <1>1, <1>2, LoneStep, CampaignTypeCorrect, PTL DEF Spec
-----------------------------------------------------------------------------
(* Answers stay, so what a phase has established is there for the next.    *)

Finished(w) == \A c \in CubesOf[w] : reg[c] = "unsat"

\* A driver only ever works on what has no answer; the check pass begins
\* behind a finished totalizer wave, DONE.json behind both.
Ordered ==
    /\ \A o \in Orchs : drv[o].on => \A c \in drv[o].busy : reg[c] \notin Answers
    /\ \A o \in Orchs : orch[o].pc = "check" => Finished("tot")
    /\ \A o \in Orchs : orch[o].pc = "write" =>
          orch[o].wave = "seq" /\ Finished("seq")
    /\ InOrder

AloneInv == TypeOK /\ Lone /\ Ordered

\* One step loses no answer.
LEMMA AnswersStep ==
    ASSUME TypeOK, Ordered, [Next]_vars, NEW c \in Cubes, reg[c] \in Answers
    PROVE  reg'[c] = reg[c]
<1> USE DEF campaign, outcome, keeper
<1>1. CASE UNCHANGED reg
  BY <1>1
<1>2. ASSUME NEW o \in Orchs, NEW e \in Cubes, SolveCube(o, e) \/ KillSolver(o, e)
      PROVE  reg'[c] = reg[c]
  <2>1. e # c
    BY <1>2 DEF Ordered, SolveCube, KillSolver
  <2> QED
    BY <1>2, <2>1 DEF SolveCube, KillSolver, TypeOK
<1>3. CASE RestartWithFix
  BY <1>3 DEF RestartWithFix, Other
<1> QED
  BY <1>1, <1>2, <1>3
     DEF Next, OrchStep, DriverStep, ResumeStep, FaultStep, CountWave, DriverEnded,
         GuardWave, RetryWave, FinishWave, CheckEnded, WriteDone, TakeCube, DriverDone,
         CallResume, LookForStop, Probe, Launch, Tally, StartWatchdog, Poll, Judge,
         KillOrch, KillDriver, StopAll, vars

\* A wave that is finished stays finished.
LEMMA FinishedStays ==
    ASSUME TypeOK, Ordered, [Next]_vars
    PROVE  /\ \A w \in Waves : Finished(w) => Finished(w)'
           /\ (\A c \in Cubes : reg[c] = "unsat") => \A c \in Cubes : reg'[c] = "unsat"
<1>1. \A c \in Cubes : reg[c] = "unsat" => reg'[c] = "unsat"
  BY AnswersStep DEF Answers
<1>2. \A w \in Waves : CubesOf[w] \subseteq Cubes
  BY CampaignAssumption DEF CampaignAssumption
<1> QED
  BY <1>1, <1>2 DEF Finished

\* What is said of an orchestrator, of its driver and of DONE.json.
InStep(o) ==
    /\ orch[o].pc = "check" => Finished("tot")
    /\ orch[o].pc = "write" => orch[o].wave = "seq" /\ Finished("seq")
    /\ orch[o].pc # "off" /\ orch[o].wave = "seq" => Finished("tot")

Unanswered(o) == drv[o].on => \A c \in drv[o].busy : reg[c] \notin Answers

\* Ordered, said one process at a time.
LEMMA OrderedParts ==
    Ordered <=> /\ \A o \in Orchs : InStep(o) /\ Unanswered(o)
                /\ DoneComplete
BY DEF Ordered, InStep, Unanswered, InOrder, PhaseOrder, Finished

\* The order of the phases, one step on.
LEMMA InStepStep ==
    ASSUME TypeOK, Lone, Ordered, [Next]_vars, NEW o \in Orchs
    PROVE  InStep(o)'
<1> USE CampaignAssumption DEF campaign, outcome, keeper
<1>0. /\ InStep(o)
      /\ Finished("tot") => Finished("tot")'
      /\ Finished("seq") => Finished("seq")'
  BY OrderedParts, FinishedStays DEF Waves
<1>1. ASSUME orch'[o].wave = orch[o].wave, orch[o].pc # "off",
             orch'[o].pc \notin {"check", "write"} \/ orch'[o].pc = orch[o].pc
      PROVE  InStep(o)'
  BY <1>0, <1>1 DEF InStep
<1>2. CASE orch'[o] = orch[o]
  BY <1>0, <1>2 DEF InStep
<1>3. CASE orch'[o].pc = "off"
  BY <1>3 DEF InStep
<1>4. ASSUME NEW q \in Orchs, CountWave(q) \/ DriverEnded(q) \/ RetryWave(q)
      PROVE  InStep(o)'
  <2>1. CASE q # o
    <3>1. orch'[o] = orch[o]
      BY <1>4, <2>1 DEF CountWave, DriverEnded, RetryWave, Goto, TypeOK, OrchOK
    <3> QED
      BY <1>2, <3>1
  <2>2. CASE q = o
    <3>1. orch[o].pc # "off"
      BY <1>4, <2>2 DEF CountWave, DriverEnded, RetryWave
    <3>2. ASSUME NEW p \in {"run", "guard", "final"}, Goto(o, p)
          PROVE  orch'[o].wave = orch[o].wave /\ orch'[o].pc \notin {"check", "write"}
      BY <3>2 DEF Goto, TypeOK, OrchOK
    <3>3. ASSUME NEW rnd,
                 orch' = [orch EXCEPT ![o] = [pc |-> "run", wave |-> orch[o].wave, rnd |-> rnd]]
          PROVE  orch'[o].wave = orch[o].wave /\ orch'[o].pc \notin {"check", "write"}
      BY <3>3 DEF TypeOK, OrchOK
    <3>4. \/ \E p \in {"run", "guard", "final"} : Goto(o, p)
          \/ \E rnd : orch' = [orch EXCEPT ![o] = [pc |-> "run", wave |-> orch[o].wave,
                                                   rnd |-> rnd]]
      BY <1>4, <2>2 DEF CountWave, DriverEnded, RetryWave
    <3> QED
      BY <1>1, <3>1, <3>2, <3>3, <3>4
  <2> QED
    BY <2>1, <2>2
<1>5. ASSUME NEW q \in Orchs, GuardWave(q) \/ WriteDone(q) \/ KillOrch(q)
      PROVE  InStep(o)'
  BY <1>1, <1>2, <1>3, <1>5
     DEF GuardWave, WriteDone, KillOrch, HaltOnSat, Goto, Exit, Off, TypeOK, OrchOK
<1>6. ASSUME NEW q \in Orchs, FinishWave(q)
      PROVE  InStep(o)'
  <2>1. CASE Exit(q)
    BY <1>2, <1>3, <2>1 DEF Exit, Off, TypeOK, OrchOK
  <2>2. CASE q # o
    BY <1>2, <1>6, <2>2 DEF FinishWave, HaltOnSat, Exit, Goto, TypeOK, OrchOK
  <2>3. CASE q = o /\ ~Exit(q)
    <3>1. /\ orch[o].pc = "final" /\ orch[o].wave \in Waves
          /\ ~(Count(orch[o].wave, "unsat") < Total(orch[o].wave))
          /\ Goto(o, IF orch[o].wave = "tot" THEN "check" ELSE "write")
      BY <1>6, <2>3 DEF FinishWave, HaltOnSat, TypeOK, OrchOK
    <3>2. Finished(orch[o].wave)
      BY <3>1, FullCount DEF Finished
    <3>3. /\ orch'[o].wave = orch[o].wave
          /\ orch'[o].pc = IF orch[o].wave = "tot" THEN "check" ELSE "write"
      BY <3>1 DEF Goto, TypeOK, OrchOK
    <3> QED
      BY <1>0, <3>1, <3>2, <3>3 DEF InStep, Waves
  <2> QED
    BY <2>1, <2>2, <2>3
<1>7. ASSUME NEW q \in Orchs, CheckEnded(q)
      PROVE  InStep(o)'
  <2>1. CASE q # o
    BY <1>2, <1>7, <2>1 DEF CheckEnded, Exit, TypeOK, OrchOK
  <2>2. CASE q = o
    <3>1. CASE Exit(o)
      BY <1>3, <3>1 DEF Exit, Off, TypeOK, OrchOK
    <3>2. CASE orch' = [orch EXCEPT ![o] = [pc |-> "count", wave |-> "seq", rnd |-> 0]]
      <4>1. Finished("tot")'
        BY <1>0, <1>7, <2>2 DEF CheckEnded, InStep
      <4>2. orch'[o].pc = "count" /\ orch'[o].wave = "seq"
        BY <3>2 DEF TypeOK, OrchOK
      <4> QED
        BY <4>1, <4>2 DEF InStep
    <3> QED
      BY <1>7, <2>2, <3>1, <3>2 DEF CheckEnded
  <2> QED
    BY <2>1, <2>2
<1>8. ASSUME NEW k \in Callers, Launch(k)
      PROVE  InStep(o)'
  <2>1. PICK q \in Orchs : orch' = [orch EXCEPT ![q] = FirstWave]
    BY <1>8 DEF Launch
  <2>2. orch'[o] = IF q = o THEN FirstWave ELSE orch[o]
    BY <2>1 DEF TypeOK, OrchOK
  <2> QED
    BY <1>0, <2>2 DEF FirstWave, InStep
<1>9. CASE StopAll \/ RestartWithFix
  BY <1>3, <1>9 DEF StopAll, RestartWithFix, AllProcessesEnd, Off
<1>10. ASSUME NEW q \in Orchs, DriverStep(q) \/ KillDriver(q)
                                  \/ \E c \in Cubes : KillSolver(q, c)
       PROVE  InStep(o)'
  BY <1>2, <1>10 DEF DriverStep, TakeCube, SolveCube, DriverDone, KillDriver, KillSolver
<1>11. ASSUME NEW k \in Callers, CallResume(k) \/ LookForStop(k) \/ Probe(k) \/ Tally(k)
       PROVE  InStep(o)'
  BY <1>2, <1>11 DEF CallResume, LookForStop, Probe, Tally
<1>12. CASE StartWatchdog \/ Poll \/ Judge \/ UNCHANGED vars
  BY <1>2, <1>12 DEF StartWatchdog, Poll, Judge, vars
<1> QED
  BY <1>4, <1>5, <1>6, <1>7, <1>8, <1>9, <1>10, <1>11, <1>12
     DEF Next, OrchStep, ResumeStep, FaultStep

\* What a driver works on, one step on.
LEMMA UnansweredStep ==
    ASSUME TypeOK, Lone, Ordered, [Next]_vars, NEW o \in Orchs
    PROVE  Unanswered(o)'
<1> USE DEF campaign, outcome, keeper
<1>0. Unanswered(o)
  BY OrderedParts
<1>1. CASE ~drv'[o].on
  BY <1>1 DEF Unanswered
<1>2. CASE UNCHANGED <<reg, drv>>
  BY <1>0, <1>2 DEF Unanswered
<1>3. ASSUME NEW q \in Orchs, OrchStep(q)
      PROVE  Unanswered(o)'
  <2>1. UNCHANGED reg
    BY <1>3 DEF OrchStep, CountWave, DriverEnded, GuardWave, RetryWave, FinishWave,
                CheckEnded, WriteDone
  <2>2. UNCHANGED drv \/ \E w, long : RunDriver(q, w, long)
    BY <1>3 DEF OrchStep, CountWave, DriverEnded, GuardWave, RetryWave, FinishWave,
                CheckEnded, WriteDone
  <2>3. drv'[o] = drv[o] \/ drv'[o].busy = {}
    BY <2>2 DEF RunDriver, TypeOK, DrvOK
  <2> QED
    BY <1>0, <2>1, <2>3 DEF Unanswered
<1>4. ASSUME NEW q \in Orchs, NEW c \in Cubes, TakeCube(q, c)
      PROVE  Unanswered(o)'
  <2>1. /\ UNCHANGED reg
        /\ drv'[o].on => drv[o].on
        /\ drv'[o].busy \subseteq drv[o].busy \cup (IF reg[c] \in Answers THEN {} ELSE {c})
    BY <1>4 DEF TakeCube, Jobs, TypeOK, DrvOK
  <2> QED
    BY <1>0, <2>1 DEF Unanswered
<1>5. ASSUME NEW q \in Orchs, NEW c \in Cubes, SolveCube(q, c) \/ KillSolver(q, c)
      PROVE  Unanswered(o)'
  <2>1. drv[q].on /\ Jobs(q, drv[q].todo, drv[q].busy \ {c})
    BY <1>5 DEF SolveCube, KillSolver
  <2>2. CASE q # o
    <3>1. ~drv[o].on
      BY <2>1, <2>2 DEF Lone, OneAtATime
    <3> QED
      BY <1>1, <2>1, <2>2, <3>1 DEF Jobs, TypeOK, DrvOK
  <2>3. CASE q = o
    <3>1. drv'[o].busy = drv[o].busy \ {c}
      BY <2>1, <2>3 DEF Jobs, TypeOK, DrvOK
    <3>2. \A e \in Cubes : e # c => reg'[e] = reg[e]
      BY <1>5 DEF SolveCube, KillSolver, TypeOK
    <3>3. drv[o].busy \subseteq Cubes
      BY DEF TypeOK, DrvOK
    <3> QED
      BY <1>0, <2>1, <2>3, <3>1, <3>2, <3>3 DEF Unanswered
  <2> QED
    BY <2>2, <2>3
<1>6. ASSUME NEW q \in Orchs, DriverDone(q) \/ KillOrch(q) \/ KillDriver(q)
      PROVE  Unanswered(o)'
  <2>1. UNCHANGED reg /\ drv' \in {drv, [drv EXCEPT ![q] = NoDriver]}
    BY <1>6 DEF DriverDone, KillOrch, KillDriver
  <2>2. ~drv'[o].on \/ drv'[o] = drv[o]
    BY <2>1 DEF NoDriver, TypeOK, DrvOK
  <2> QED
    BY <1>0, <2>1, <2>2 DEF Unanswered
<1>7. CASE StopAll \/ RestartWithFix
  BY <1>1, <1>7 DEF StopAll, RestartWithFix, AllProcessesEnd, NoDriver
<1>8. ASSUME NEW k \in Callers, CallResume(k) \/ ResumeStep(k)
      PROVE  Unanswered(o)'
  BY <1>2, <1>8 DEF CallResume, ResumeStep, LookForStop, Probe, Launch, Tally
<1>9. CASE StartWatchdog \/ Poll \/ Judge \/ UNCHANGED vars
  BY <1>2, <1>9 DEF StartWatchdog, Poll, Judge, vars
<1> QED
  BY <1>3, <1>4, <1>5, <1>6, <1>7, <1>8, <1>9 DEF Next, DriverStep, FaultStep

\* DONE.json, one step on.
LEMMA DoneStep ==
    ASSUME TypeOK, Ordered, [Next]_vars
    PROVE  DoneComplete'
<1> USE DEF campaign, outcome, keeper
<1>1. CASE UNCHANGED done
  BY <1>1, FinishedStays DEF Ordered, InOrder, DoneComplete
<1>2. ASSUME NEW o \in Orchs, WriteDone(o)
      PROVE  DoneComplete'
  <2>1. InStep(o) /\ orch[o].pc = "write"
    BY <1>2, OrderedParts DEF WriteDone
  <2>2. Finished("tot") /\ Finished("seq")
    BY <2>1 DEF InStep
  <2>3. \A c \in Cubes : reg[c] = "unsat"
    BY <2>2, CampaignAssumption DEF Finished, CampaignAssumption
  <2> QED
    BY <2>3, FinishedStays DEF DoneComplete
<1> QED
  BY <1>1, <1>2
     DEF Next, OrchStep, DriverStep, ResumeStep, FaultStep, CountWave, DriverEnded,
         GuardWave, RetryWave, FinishWave, CheckEnded, TakeCube, SolveCube, DriverDone,
         CallResume, LookForStop, Probe, Launch, Tally, StartWatchdog, Poll, Judge,
         KillOrch, KillDriver, KillSolver, StopAll, RestartWithFix, vars

\* The inductive invariant of a campaign with one caller.
LEMMA AloneInvariant == ASSUME Alone PROVE Spec => []AloneInv
<1>1. Init => Lone
  BY DEF Init, Lone, OneAtATime, Off, NoDriver, OrchAlive
<1>2. Init => Ordered
  BY DEF Init, Ordered, InOrder, PhaseOrder, DoneComplete, Off, NoDriver
<1>3. TypeOK /\ Lone /\ Ordered /\ [Next]_vars => Ordered'
  <2> SUFFICES ASSUME TypeOK, Lone, Ordered, [Next]_vars
               PROVE  Ordered'
    OBVIOUS
  <2>1. \A o \in Orchs : InStep(o)' /\ Unanswered(o)'
    BY InStepStep, UnansweredStep
  <2>2. DoneComplete'
    BY DoneStep
  <2> QED
    BY <2>1, <2>2 DEF Ordered, InStep, Unanswered, InOrder, PhaseOrder, Finished
<1> QED
  BY <1>1, <1>2, <1>3, LoneStep, CampaignTypeCorrect, PTL DEF Spec, AloneInv

\* "A nonzero SAT count HALTS the campaign" and hard cubes halt it too: no
\* confirmation wave over an unfinished totalizer wave, and no DONE.json over
\* a verdict that is not UNSAT, then or ever after.
THEOREM PhasesInOrder == ASSUME Alone PROVE Spec => []InOrder
<1>1. AloneInv => InOrder
  BY DEF AloneInv, Ordered
<1> QED
  BY <1>1, AloneInvariant, PTL

\* "Every phase is resumable": no retry round, restart, reboot or clean-up
\* ever loses an answer once it is in a verdict file.
THEOREM AnswersForGood == ASSUME Alone PROVE Spec => AnswersKept
<1>1. AloneInv /\ [Next]_vars =>
         [\A c \in Cubes : reg[c] \in Answers => reg'[c] = reg[c]]_vars
  BY AnswersStep DEF AloneInv
<1> QED
  BY <1>1, AloneInvariant, PTL DEF Spec, AnswersKept

-----------------------------------------------------------------------------
(* The poller.  It sees the campaign go on while it reads, so what it has  *)
(* counted is tied to the formulas, which stay, and not to the files.      *)

\* A campaign that is looked at goes on as it would.
LEMMA LookingOn == SensorSpec => Spec
<1>1. SensorInit => Init
  BY DEF SensorInit
<1>2. [SensorNext]_<<vars, sensor>> => [Next]_vars
  BY DEF SensorNext
<1> QED
  BY <1>1, <1>2, PTL DEF SensorSpec, Spec

\* The cubes of the totalizer wave that are read and are unsatisfiable.
ReadUnsat == {c \in CubesOf["tot"] \ left : Truth[c] = "unsat"}

\* The count is of unsatisfiable cubes already read, and what is printed says
\* no more than was counted.
Tallied ==
    /\ pc \in {"off", "count", "attention", "done", "reported"}
    /\ left \subseteq Cubes
    /\ unsat \in Nat
    /\ pc = "off" => unsat = 0
    /\ pc # "off" => unsat <= Cardinality(ReadUnsat)
    /\ pc = "reported" /\ state = "WAVE_DONE" => unsat >= Total("tot")
    /\ pc # "reported" => state = ""

\* A SAT verdict that was there at the start is read, or still to be read.
SatAhead ==
    /\ pc # "off" /\ satBefore =>
          sat \/ (pc = "count" /\ \E c \in left : reg[c] = "sat")
    /\ pc = "reported" /\ sat => state = "SAT"

\* A set of cubes of a wave has a size, no greater than the wave's.
LEMMA WaveSize ==
    ASSUME NEW w \in Waves, NEW S \in SUBSET CubesOf[w]
    PROVE  /\ IsFiniteSet(S) /\ Cardinality(S) \in Nat
           /\ Total(w) \in Nat /\ Cardinality(S) <= Total(w)
           /\ Cardinality(S) = Total(w) => S = CubesOf[w]
<1>1. IsFiniteSet(CubesOf[w])
  BY CampaignAssumption, FS_Subset DEF CampaignAssumption
<1> QED
  BY <1>1, FS_Subset, FS_CardinalityType DEF Total

\* One more verdict is read: the count goes up for an unsatisfiable cube only.
LEMMA CountStep ==
    ASSUME Tallied, Honest, NEW c \in Cubes, CountVerdict(c)
    PROVE  Tallied'
<1> DEFINE Now == ReadUnsat'
<1>0. /\ pc = "count" /\ pc' = "count" /\ c \in left /\ left' = left \ {c}
      /\ state' = state
      /\ unsat' = IF c \in CubesOf["tot"] /\ reg[c] = "unsat" THEN unsat + 1 ELSE unsat
  BY DEF CountVerdict
<1>1. ReadUnsat \in SUBSET CubesOf["tot"] /\ Now \in SUBSET CubesOf["tot"]
  BY DEF ReadUnsat
<1>2. /\ IsFiniteSet(ReadUnsat) /\ Cardinality(ReadUnsat) \in Nat
      /\ IsFiniteSet(Now) /\ Cardinality(Now) \in Nat
  BY <1>1, WaveSize DEF Waves
<1>3. ReadUnsat \subseteq Now /\ c \notin ReadUnsat
  BY <1>0 DEF ReadUnsat
<1>4. Cardinality(ReadUnsat) <= Cardinality(Now)
  BY <1>2, <1>3, FS_Subset
<1>5. unsat \in Nat /\ unsat <= Cardinality(ReadUnsat)
  BY <1>0 DEF Tallied
<1>6. unsat' \in Nat /\ unsat' <= Cardinality(Now)
  <2>1. CASE c \in CubesOf["tot"] /\ reg[c] = "unsat"
    <3>1. Now = ReadUnsat \cup {c}
      BY <1>0, <2>1 DEF ReadUnsat, Honest, Answers
    <3>2. Cardinality(Now) = Cardinality(ReadUnsat) + 1
      BY <1>2, <1>3, <3>1, FS_AddElement
    <3> QED
      BY <1>0, <1>2, <1>5, <2>1, <3>2
  <2>2. CASE ~(c \in CubesOf["tot"] /\ reg[c] = "unsat")
    BY <1>0, <1>2, <1>4, <1>5, <2>2
  <2> QED
    BY <2>1, <2>2
<1>7. left' \subseteq Cubes /\ state' = ""
  BY <1>0 DEF Tallied
<1> HIDE DEF Now
<1> QED
  BY <1>0, <1>6, <1>7 DEF Tallied, Now

\* A step of the campaign or of the poll keeps the count what it is.
LEMMA TallyStep ==
    ASSUME Tallied, Honest, [SensorNext]_<<vars, sensor>> PROVE Tallied'
<1> USE DEF counts
<1>1. CASE UNCHANGED sensor
  BY <1>1 DEF Tallied, ReadUnsat, sensor, Total
<1>2. CASE StartPoll
  <2>1. /\ pc' = "count" /\ left' = Cubes /\ unsat' = 0 /\ state' = ""
    BY <1>2 DEF StartPoll, Tallied
  <2>2. ReadUnsat' \in SUBSET CubesOf["tot"]
    BY DEF ReadUnsat
  <2>3. Cardinality(ReadUnsat') \in Nat
    BY <2>2, WaveSize DEF Waves
  <2>4. ASSUME NEW size \in Nat, unsat' = 0 PROVE unsat' <= size
    BY <2>4
  <2>5. unsat' <= Cardinality(ReadUnsat')
    BY <2>1, <2>3, <2>4
  <2> QED
    BY <2>1, <2>5 DEF Tallied
<1>3. ASSUME NEW c \in Cubes, CountVerdict(c) PROVE Tallied'
  BY <1>3, CountStep
<1>4. CASE CountProcs \/ LookAttention
  BY <1>4 DEF CountProcs, LookAttention, Tallied, ReadUnsat
<1>5. CASE LookDone
  <2>1. /\ pc' = "reported" /\ pc = "done" /\ UNCHANGED <<left, unsat>>
        /\ state' = "WAVE_DONE" => unsat >= Total("tot")
    BY <1>5 DEF LookDone, State
  <2>2. UNCHANGED <<ReadUnsat, Total("tot")>>
    BY <2>1 DEF ReadUnsat, Total
  <2> QED
    BY <2>1, <2>2 DEF Tallied
<1> QED
  BY <1>1, <1>2, <1>3, <1>4, <1>5 DEF SensorNext, PollStep, sensor

\* Under Alone no verdict that is an answer is lost while the poll reads.
LEMMA AheadStep ==
    ASSUME SatAhead, [SensorNext]_<<vars, sensor>>,
           \A c \in Cubes : reg[c] \in Answers => reg'[c] = reg[c],
           left \subseteq Cubes
    PROVE  SatAhead'
<1> USE DEF counts
<1>1. CASE UNCHANGED sensor
  BY <1>1 DEF SatAhead, sensor, Answers
<1>2. CASE StartPoll /\ UNCHANGED vars
  BY <1>2 DEF StartPoll, SatAhead, vars
<1>3. ASSUME NEW c \in Cubes, CountVerdict(c), UNCHANGED vars PROVE SatAhead'
  BY <1>3 DEF CountVerdict, SatAhead, vars
<1>4. CASE CountProcs \/ LookAttention
  BY <1>4 DEF CountProcs, LookAttention, SatAhead
<1>5. CASE LookDone
  BY <1>5 DEF LookDone, State, SatAhead
<1> QED
  BY <1>1, <1>2, <1>3, <1>4, <1>5 DEF SensorNext, PollStep, sensor

\* Before the poll.
LEMMA NothingRead == ASSUME SensorInit PROVE SatAhead /\ Tallied
<1>1. pc = "off" /\ state = "" /\ left \subseteq Cubes /\ unsat = 0
  BY DEF SensorInit
<1>2. unsat \in Nat
  BY <1>1
<1> QED
  BY <1>1, <1>2 DEF SatAhead, Tallied

\* The sensor's line is WAVE_DONE only of a wave that really is unsatisfiable,
\* in any campaign at all, orphaned drivers and clean-ups included.
THEOREM WaveDoneSound == SensorSpec => []WaveDoneTrue
<1>1. SensorInit => Tallied
  BY NothingRead
<1>2. Tallied /\ CampaignInv /\ [SensorNext]_<<vars, sensor>> => Tallied'
  BY TallyStep DEF CampaignInv
<1>3. Tallied => WaveDoneTrue
  <2> SUFFICES ASSUME Tallied, state = "WAVE_DONE"
               PROVE  \A c \in CubesOf["tot"] : Truth[c] = "unsat"
    BY DEF WaveDoneTrue
  <2>1. pc = "reported"
    BY DEF Tallied
  <2>2. unsat \in Nat /\ unsat <= Cardinality(ReadUnsat) /\ unsat >= Total("tot")
    BY <2>1 DEF Tallied
  <2>3. ReadUnsat \in SUBSET CubesOf["tot"]
    BY DEF ReadUnsat
  <2>4. ReadUnsat = CubesOf["tot"]
    BY <2>2, <2>3, WaveSize DEF Waves
  <2> QED
    BY <2>4 DEF ReadUnsat
<1> QED
  BY <1>1, <1>2, <1>3, LookingOn, CampaignInvariant, PTL DEF SensorSpec

\* A poll that begins with a SAT verdict on disk prints SAT, and WAVE_DONE is
\* printed of nothing else than an unsatisfiable wave: the campaign being run
\* by one caller, whose orchestrator takes its driver along when it dies.
THEOREM PollSound == ASSUME Alone PROVE SensorSpec => []PollTrue
<1>1. SensorInit => SatAhead /\ Tallied
  BY NothingRead
<1>2. Tallied /\ CampaignInv /\ [SensorNext]_<<vars, sensor>> => Tallied'
  BY TallyStep DEF CampaignInv
<1>3. SatAhead /\ Tallied /\ AloneInv /\ [SensorNext]_<<vars, sensor>> => SatAhead'
  <2> SUFFICES ASSUME SatAhead, Tallied, AloneInv, [SensorNext]_<<vars, sensor>>
               PROVE  SatAhead'
    OBVIOUS
  <2>1. [Next]_vars
    BY DEF SensorNext
  <2>2. \A c \in Cubes : reg[c] \in Answers => reg'[c] = reg[c]
    BY <2>1, AnswersStep DEF AloneInv
  <2>3. left \subseteq Cubes
    BY DEF Tallied
  <2> QED
    BY <2>2, <2>3, AheadStep
<1>4. SatAhead => SatNeverMissed
  BY DEF SatAhead, SatNeverMissed
<1>5. SensorSpec => []WaveDoneTrue
  BY WaveDoneSound
<1> QED
  BY <1>1, <1>2, <1>3, <1>4, <1>5, LookingOn, CampaignInvariant, AloneInvariant, PTL
     DEF SensorSpec, PollTrue
=============================================================================
