--------------------------- MODULE Operations_proofs ---------------------------
(***************************************************************************)
(* Proofs about the programs around a campaign: the harvest, for every     *)
(* pair of pinned waves, whatever the campaign writes meanwhile, and for   *)
(* any number of attempts and kills; the consoles, for every set of        *)
(* launchers; the watchdog's lock, for any number of starts and of         *)
(* process numbers; and all of them in Operations, one of which moves.     *)
(***************************************************************************)
EXTENDS Operations, FiniteSetTheorems, TLAPS

-----------------------------------------------------------------------------
(* The harvest.                                                            *)

\* No document, and no table of documents, is the mark of absence.
Documents(w) ==
    {Absent, Garbage} \cup
    {Document(w, cube, lits, rc) : cube \in Cubes(w), rc \in {10, 20, Absent},
        lits \in {{}} \cup {CubeLiterals(Pins[w].split, c) : c \in Cubes(w)}}

TablesAreThere == \A w \in WaveSet : Absent \notin [Cubes(w) -> Documents(w)]

VerdictsOK == \A w \in WaveSet : verdicts[w] \in [Cubes(w) -> Documents(w)]

-----------------------------------------------------------------------------
(* ClaimBacked is not inductive: what the importer has found is carried    *)
(* in its memory, then in two files, while the campaign goes on.           *)

\* What the importer demands, of the pinned manifest.
Sound(w, docs) ==
    /\ docs \in [Cubes(w) -> Documents(w)]
    /\ WellCut(Pins[w])
    /\ OnePerCube(docs, Pins[w].split)
    /\ EveryCubeUnsat(docs, Pins[w].split)

Carried ==
    \E docs : taken = [manifest |-> Pins[wave], verdicts |-> docs] /\ Sound(wave, docs)

Imported(w) == dest[w].manifest = Pins[w] /\ Sound(w, dest[w].verdicts)

Recording == {"record", "open record", "fill record", "gate"}

\* Both manifests are the pinned ones until the last import; the main wave is
\* in its place before the other is looked at, both before the claim is.
Step ==
    /\ manifest \in [WaveSet -> {Absent, Garbage} \cup {Pins[w] : w \in WaveSet}]
    /\ dest = [w \in WaveSet |-> dest[w]]
    /\ VerdictsOK
    /\ truth \in Truths
    /\ wave \in WaveSet
    /\ pc = "preflight" => wave = Main
    /\ pc \in {"import", "open", "fill"} =>
          \A w \in WaveSet : manifest[w] = Pins[w]
    /\ pc \in {"import", "open", "fill"} /\ wave = Confirm => Imported(Main)
    /\ pc \in {"open", "fill"} => Carried
    /\ pc \in Recording => \A w \in WaveSet : Imported(w)

\* A wave that is in its place is complete evidence, and two of them back the
\* claim.
LEMMA ImportedBacks ==
    ASSUME TablesAreThere, \A w \in WaveSet : Imported(w)
    PROVE  Backed
<1>1. \A w \in WaveSet : Complete(w)
  BY PinsAssumption DEF Imported, Sound, Complete, TablesAreThere, PinsAssumption
<1>2. Main \in WaveSet /\ Confirm \in WaveSet
  BY DEF WaveSet
<1> QED
  BY <1>1, <1>2, PinsAssumption DEF Backed, Imported, PinsAssumption

\* Each step of the harvest, or of anybody else, keeps what was established.
LEMMA StepStep == Step /\ [Next]_vars => Step'
<1> SUFFICES ASSUME Step, [Next]_vars PROVE Step'
  OBVIOUS
<1> USE HarvestAssumption DEF HarvestAssumption, sources, given, Goto
<1>0. Main \in WaveSet /\ Confirm \in WaveSet /\ \A w \in WaveSet : w \in {Main, Confirm}
  BY DEF WaveSet
<1>1. ASSUME NEW w \in WaveSet, WriteManifest(w)
      PROVE  Step'
  <2>1. pc \notin {"import", "open", "fill"}
    BY <1>1 DEF WriteManifest, Step
  <2>2. manifest' \in [WaveSet -> {Absent, Garbage} \cup {Pins[v] : v \in WaveSet}]
    BY <1>1 DEF WriteManifest, Step
  <2>3. UNCHANGED <<verdicts, truth, dest, pc, wave, taken>>
    BY <1>1 DEF WriteManifest
  <2> QED
    BY <2>1, <2>2, <2>3 DEF Step, VerdictsOK, Imported, Recording
<1>2. ASSUME NEW w \in WaveSet, NEW cube \in Cubes(w), Solve(w, cube)
      PROVE  Step'
  <2>1. PICK document \in {Solved(w, cube, truth[w][cube]), Solved(w, cube, Absent),
                           Stale(w, cube), Garbage} :
           verdicts' = [verdicts EXCEPT ![w][cube] = document]
    BY <1>2 DEF Solve
  <2>2. truth[w][cube] \in {10, 20}
    BY DEF Step
  <2>3. document \in Documents(w)
    BY <2>1, <2>2 DEF Documents, Solved, Stale
  <2>4. VerdictsOK'
    BY <2>1, <2>3 DEF Step, VerdictsOK
  <2>5. UNCHANGED <<manifest, truth, dest, pc, wave, taken>>
    BY <1>2 DEF Solve
  <2> QED
    BY <2>4, <2>5 DEF Step, Imported, Carried, Recording
<1>3. CASE Start
  BY <1>0, <1>3 DEF Start, Step, VerdictsOK, Recording
<1>4. CASE Preflight
  <2>1. pc' = "import" => \A w \in WaveSet : manifest[w] = Pins[w]
    BY <1>4 DEF Preflight, FinishedAndClean
  <2>2. /\ pc' \in {"import", "raised", "exit 1"}
        /\ pc = "preflight" /\ UNCHANGED <<sources, dest, wave, taken>>
    BY <1>4 DEF Preflight
  <2>3. pc' = "import" => wave # Confirm
    BY <2>2 DEF Step
  <2> QED
    BY <2>1, <2>2, <2>3 DEF Step, VerdictsOK, Recording
<1>5. CASE Import
  <2>1. UNCHANGED <<sources, dest, wave>> /\ pc = "import"
    BY <1>5 DEF Import
  <2>2. CASE dest[wave] = NoWave /\ Importable(wave)
    <3>1. taken' = [manifest |-> Pins[wave], verdicts |-> verdicts[wave]] /\ pc' = "open"
      BY <1>5, <2>2 DEF Import, Step
    <3>2. Sound(wave, verdicts[wave])
      BY <2>1, <2>2 DEF Step, VerdictsOK, Importable, Sound
    <3> QED
      BY <2>1, <3>1, <3>2 DEF Step, VerdictsOK, Carried, Imported, Sound, Recording
  <2>3. CASE ~(dest[wave] = NoWave /\ Importable(wave))
    BY <1>5, <2>1, <2>3 DEF Import, Step, VerdictsOK, Recording
  <2> QED
    BY <2>2, <2>3
<1>6. CASE OpenDest
  <2>1. /\ UNCHANGED <<sources, wave, taken>> /\ pc = "open" /\ pc' = "fill"
        /\ dest' = [dest EXCEPT ![wave] = [taken EXCEPT !.verdicts = Absent]]
    BY <1>6 DEF OpenDest
  <2>2. wave = Confirm => dest'[Main] = dest[Main]
    BY <1>0, <2>1 DEF Step
  <2>3. dest' = [w \in WaveSet |-> dest'[w]]
    BY <2>1 DEF Step
  <2> QED
    BY <2>1, <2>2, <2>3 DEF Step, VerdictsOK, Carried, Imported, Recording
<1>7. CASE FillDest
  <2>1. /\ UNCHANGED sources /\ pc = "fill" /\ wave' = Confirm
        /\ dest' = [dest EXCEPT ![wave] = taken]
        /\ pc' = IF wave = Main THEN "import" ELSE "record"
    BY <1>7 DEF FillDest
  <2>2. dest' = [w \in WaveSet |-> dest'[w]] /\ dest'[wave] = taken
    BY <2>1 DEF Step
  <2>3. dest'[Main].manifest = Pins[Main] /\ Sound(Main, dest'[Main].verdicts)
    BY <1>0, <2>1, <2>2 DEF Step, Carried, Imported
  <2>4. wave = Confirm =>
           dest'[Confirm].manifest = Pins[Confirm] /\ Sound(Confirm, dest'[Confirm].verdicts)
    BY <2>1, <2>2 DEF Step, Carried
  <2> QED
    BY <1>0, <2>1, <2>2, <2>3, <2>4 DEF Step, VerdictsOK, Imported, Recording
<1>8. CASE LoadRecord \/ OpenRecord \/ FillRecord
  <2>1. /\ UNCHANGED <<sources, dest, wave, taken>>
        /\ pc \in Recording
        /\ pc' \in {"raised"} \cup Recording
    BY <1>8 DEF LoadRecord, OpenRecord, FillRecord, Recording
  <2> QED
    BY <2>1 DEF Step, VerdictsOK, Imported, Recording
<1>9. CASE Gate \/ Kill \/ RestoreRecord
  <2>1. /\ UNCHANGED <<sources, dest, wave>>
        /\ pc' \in {"exit 0", "gate 1", "killed", "idle"}
    BY <1>9 DEF Gate, Kill, RestoreRecord
  <2> QED
    BY <2>1 DEF Step, VerdictsOK, Recording
<1>10. ASSUME NEW w \in WaveSet, DeleteDest(w)
       PROVE  Step'
  <2>1. /\ UNCHANGED <<sources, wave>> /\ pc' = "idle"
        /\ dest' = [v \in WaveSet |-> dest'[v]]
    BY <1>10 DEF DeleteDest, Step
  <2> QED
    BY <2>1 DEF Step, VerdictsOK, Recording
<1>11. CASE UNCHANGED vars
  BY <1>11 DEF vars, Step, VerdictsOK, Imported, Carried, Recording
<1> QED
  BY <1>1, <1>2, <1>3, <1>4, <1>5, <1>6, <1>7, <1>8, <1>9, <1>10, <1>11
     DEF Next, Campaign, Apply, Person

\* apply writes the claim before it asks the gate, and it may: whenever the
\* claim enters the record, both waves are complete evidence from different
\* encoders, whatever the campaign did since the preflight and whatever an
\* earlier attempt had left behind.
THEOREM ClaimsBacked == ASSUME TablesAreThere PROVE Spec => ClaimBacked
<1>1. Init => Step
  BY DEF Init, Step, VerdictsOK, Documents, Recording, WaveSet
<1>2. Step /\ [Next]_vars =>
         [record' # record /\ record' # Garbage /\ NewClaim \in record' => Backed']_vars
  <2> SUFFICES ASSUME Step, [Next]_vars, record' # record, record' # Garbage,
                      NewClaim \in record'
               PROVE  Backed'
    OBVIOUS
  <2>a. ~(\E w \in WaveSet : WriteManifest(w) \/ DeleteDest(w)
                             \/ \E cube \in Cubes(w) : Solve(w, cube))
    BY DEF WriteManifest, DeleteDest, Solve
  <2>b. ~(Start \/ Preflight \/ Import \/ OpenDest \/ FillDest)
    BY DEF Start, Preflight, Import, OpenDest, FillDest
  <2>c. ~(LoadRecord \/ OpenRecord \/ Gate \/ Kill \/ UNCHANGED vars)
    BY DEF LoadRecord, OpenRecord, Gate, Kill, vars
  <2>d. ~RestoreRecord
    BY DEF RestoreRecord, OldRecord, NewClaim
  <2>1. FillRecord
    BY <2>a, <2>b, <2>c, <2>d DEF Next, Campaign, Apply, Person
  <2>2. Backed
    BY <2>1, ImportedBacks DEF Step, FillRecord, Recording
  <2> QED
    BY <2>1, <2>2 DEF FillRecord, Backed, Complete
<1> QED
  BY <1>1, <1>2, StepStep, PTL DEF Spec, ClaimBacked

-----------------------------------------------------------------------------
(* ExitZeroTrue.  Only a solver writes a 20 over the literals of a cube,   *)
(* and everything that is copied afterwards is a copy.                     *)

\* A verdict over the literals its file names tells the truth; one over no
\* literals at all, from an earlier cube file, may say anything.
DocTrue(answers, w, d) ==
    d.rc = 20 /\ d.lits = CubeLiterals(Pins[w].split, d.cube) /\ d.lits # {} =>
        d.cube \in Cubes(w) /\ answers[w][d.cube] = 20

TableTrue(answers, w, docs) == \A i \in DOMAIN docs : DocTrue(answers, w, docs[i])

SourceTrue ==
    \A w \in WaveSet :
        /\ DOMAIN verdicts[w] = Cubes(w)
        /\ \A cube \in Cubes(w) :
              verdicts[w][cube] \in {Absent, Garbage} \/ DocTrue(truth, w, verdicts[w][cube])

WaveTrue(answers, w, files) ==
    /\ files.manifest \in {Absent, Pins[w]}
    /\ files.verdicts # Absent => TableTrue(answers, w, files.verdicts)

ExitInv ==
    /\ SourceTrue
    /\ \A w \in WaveSet : WaveTrue(truth, w, dest[w])
    /\ pc \in {"open", "fill"} => WaveTrue(truth, wave, taken)
    /\ pc \in {"gate", "exit 0"} => NewClaim \in record
    /\ pc = "exit 0" => GateAccepts

\* What the drivers leave in a verdict file.
LEMMA WrittenTrue ==
    ASSUME Absent # 20, NEW w \in WaveSet, NEW cube \in Cubes(w)
    PROVE  /\ DocTrue(truth, w, Solved(w, cube, truth[w][cube]))
           /\ DocTrue(truth, w, Solved(w, cube, Absent))
           /\ DocTrue(truth, w, Stale(w, cube))
BY DEF DocTrue, Solved, Stale, Document

LEMMA SolveTrue ==
    ASSUME Absent # 20, SourceTrue, NEW w \in WaveSet, NEW cube \in Cubes(w), Solve(w, cube)
    PROVE  SourceTrue'
<1>1. PICK d \in {Solved(w, cube, truth[w][cube]), Solved(w, cube, Absent),
                  Stale(w, cube), Garbage} :
         verdicts' = [verdicts EXCEPT ![w][cube] = d]
  BY DEF Solve
<1>2. d = Garbage \/ DocTrue(truth, w, d)
  BY <1>1, WrittenTrue
<1> QED
  BY <1>1, <1>2 DEF SourceTrue, Solve, given

\* What the importer takes is the truth about the wave.
LEMMA TakenTrue ==
    ASSUME Step, SourceTrue, pc = "import", Importable(wave)
    PROVE  WaveTrue(truth, wave, [manifest |-> manifest[wave], verdicts |-> verdicts[wave]])
<1>1. wave \in WaveSet /\ manifest[wave] = Pins[wave]
  BY DEF Step
<1>2. TableTrue(truth, wave, verdicts[wave])
  BY <1>1 DEF SourceTrue, Importable, TableTrue
<1> QED
  BY <1>1, <1>2 DEF WaveTrue

LEMMA ExitStep == Absent # 20 /\ Step /\ ExitInv /\ [Next]_vars => ExitInv'
<1> SUFFICES ASSUME Absent # 20, Step, ExitInv, [Next]_vars PROVE ExitInv'
  OBVIOUS
<1>1. dest = [w \in WaveSet |-> dest[w]] /\ wave \in WaveSet
  BY DEF Step
<1>2. WaveTrue(truth, Main, NoWave) /\ WaveTrue(truth, Confirm, NoWave)
  BY DEF WaveTrue, NoWave
<1>3. ASSUME Campaign PROVE ExitInv'
  <2>1. PICK w \in WaveSet : WriteManifest(w) \/ \E cube \in Cubes(w) : Solve(w, cube)
    BY <1>3 DEF Campaign
  <2>2. UNCHANGED <<truth, dest, record, pc, wave, taken>>
    BY <2>1 DEF WriteManifest, Solve, given
  <2>3. SourceTrue'
    BY <2>1, SolveTrue DEF ExitInv, WriteManifest, SourceTrue, given
  <2> QED
    BY <2>2, <2>3 DEF ExitInv, WaveTrue, GateAccepts, Backed, Complete
<1>4. ASSUME UNCHANGED <<sources, dest, record>>,
             pc' \notin {"open", "fill", "gate", "exit 0"}
      PROVE  ExitInv'
  BY <1>4 DEF ExitInv, SourceTrue, sources, given
<1>5. CASE Start \/ Preflight \/ Kill
  BY <1>4, <1>5 DEF Start, Preflight, Kill, Goto
<1>6. CASE Import
  <2>1. CASE dest[wave] = NoWave /\ Importable(wave)
    BY <1>6, <2>1, TakenTrue DEF Import, Goto, ExitInv, SourceTrue, sources, given
  <2> QED
    BY <1>4, <1>6, <2>1 DEF Import, Goto
<1>7. CASE OpenDest
  <2>1. dest' = [dest EXCEPT ![wave] = [taken EXCEPT !.verdicts = Absent]]
        /\ pc = "open" /\ pc' = "fill" /\ UNCHANGED <<sources, record, wave, taken>>
    BY <1>7 DEF OpenDest, Goto
  <2>2. WaveTrue(truth, wave, taken)
    BY <2>1 DEF ExitInv
  <2> QED
    BY <1>1, <2>1, <2>2 DEF ExitInv, SourceTrue, WaveTrue, sources, given
<1>8. CASE FillDest
  <2>1. dest' = [dest EXCEPT ![wave] = taken]
        /\ pc = "fill" /\ pc' \in {"import", "record"} /\ UNCHANGED <<sources, record>>
    BY <1>8 DEF FillDest, Goto
  <2>2. WaveTrue(truth, wave, taken)
    BY <2>1 DEF ExitInv
  <2> QED
    BY <1>1, <2>1, <2>2 DEF ExitInv, SourceTrue, sources, given
<1>9. CASE LoadRecord \/ FillRecord \/ OpenRecord
  <2>1. /\ UNCHANGED <<sources, dest, wave, taken>>
        /\ pc' \notin {"open", "fill", "exit 0"}
        /\ pc' = "gate" => NewClaim \in record'
    BY <1>9 DEF LoadRecord, FillRecord, OpenRecord, Goto
  <2> QED
    BY <2>1 DEF ExitInv, SourceTrue, sources, given
<1>10. CASE Gate
  BY <1>10 DEF Gate, Goto, ExitInv, SourceTrue, sources, given, GateAccepts, Backed,
         Complete
<1>11. CASE Person
  <2>1. /\ UNCHANGED sources /\ pc' = "idle"
        /\ dest' = dest \/ \E w \in WaveSet : dest' = [dest EXCEPT ![w] = NoWave]
    BY <1>11 DEF Person, RestoreRecord, DeleteDest, Goto
  <2>2. \A w \in WaveSet : WaveTrue(truth, w, dest'[w])
    BY <1>1, <1>2, <2>1 DEF ExitInv, WaveSet
  <2> QED
    BY <2>1, <2>2 DEF ExitInv, SourceTrue, sources, given
<1>12. CASE UNCHANGED vars
  BY <1>12 DEF vars, sources, given, ExitInv, SourceTrue, GateAccepts, Backed, Complete
<1> QED
  BY <1>3, <1>5, <1>6, <1>7, <1>8, <1>9, <1>10, <1>11, <1>12 DEF Next, Apply

\* Complete evidence leaves no cube undecided.
LEMMA CompleteTrue ==
    ASSUME NEW w \in WaveSet, WaveTrue(truth, w, dest[w]), Complete(w)
    PROVE  \A cube \in Cubes(w) : truth[w][cube] = 20
<1>1. dest[w].manifest = Pins[w]
  BY DEF Complete, WaveTrue, WellCut
<1>2. Len(Pins[w].split) \in 1 .. MaxSplit
  BY <1>1 DEF Complete, WellCut, UsableSplit
<1> SUFFICES ASSUME NEW cube \in Cubes(w) PROVE truth[w][cube] = 20
  OBVIOUS
<1>3. PICK i \in DOMAIN dest[w].verdicts :
         LET d == dest[w].verdicts[i] IN
         /\ d.cube = cube /\ d.rc = 20 /\ d.lits = CubeLiterals(Pins[w].split, cube)
  BY <1>1 DEF Complete, EveryCubeUnsat, Cubes
<1>4. CubeLiterals(Pins[w].split, cube) # {}
  <2>1. Vars(Pins[w].split) # {}
    <3>1. Pins[w].split \in Seq(Nat)
      BY PinsAssumption DEF PinsAssumption
    <3>2. 1 \in DOMAIN Pins[w].split
      BY <1>2, <3>1, MaxSplitAssumption
    <3> QED
      BY <3>2 DEF Vars
  <2> QED
    BY <2>1 DEF CubeLiterals
<1>5. DocTrue(truth, w, dest[w].verdicts[i])
  BY DEF Complete, WaveTrue, TableTrue
<1> QED
  BY <1>3, <1>4, <1>5 DEF DocTrue

\* Exit code 0 of harvest.py --apply: the claim is on record, the gate stands
\* behind it and every cube of both waves is unsatisfiable, whatever the
\* campaign writes meanwhile and whatever earlier attempts have left.
THEOREM ExitZeroEarned == ASSUME Absent # 20 PROVE Spec => []ExitZeroTrue
<1>1. Init => Step /\ ExitInv
  BY DEF Init, Step, VerdictsOK, Documents, Recording, WaveSet,
         ExitInv, SourceTrue, WaveTrue, NoWave
<1>2. ExitInv => ExitZeroTrue
  <2> SUFFICES ASSUME ExitInv, pc = "exit 0" PROVE
        /\ NewClaim \in record /\ GateAccepts
        /\ \A w \in WaveSet : \A cube \in Cubes(w) : truth[w][cube] = 20
    BY DEF ExitZeroTrue
  <2>1. NewClaim \in record /\ GateAccepts /\ \A w \in WaveSet : WaveTrue(truth, w, dest[w])
    BY DEF ExitInv
  <2>2. \A w \in WaveSet : Complete(w)
    BY <2>1 DEF GateAccepts, Backed
  <2> QED
    BY <2>1, <2>2, CompleteTrue
<1>3. Step /\ ExitInv /\ [Next]_vars => Step' /\ ExitInv'
  BY StepStep, ExitStep
<1> QED
  BY <1>1, <1>2, <1>3, PTL DEF Spec

-----------------------------------------------------------------------------
(* The shape of the state.                                                 *)

\* A torn file is told from a record.
TornShows == Garbage \notin {OldRecord, OldRecord \cup {NewClaim}}

WaveShape(w, files) ==
    /\ files = NoWave \/ files.manifest = Pins[w]
    /\ files.verdicts # Absent => DOMAIN files.verdicts = Cubes(w)

LEMMA TypeStep ==
    ASSUME TornShows, Step, TypeOK, [Next]_vars PROVE TypeOK'
<1> USE DEF sources, given, Goto
<1>0. /\ Main \in WaveSet /\ Confirm \in WaveSet /\ wave \in WaveSet /\ kills \in 0 .. MaxKills
      /\ \A w \in WaveSet : WaveShape(w, dest[w])
      /\ \A w \in WaveSet : manifest[w] \in {Absent, Garbage, Pins[w]}
      /\ dest = [w \in WaveSet |-> dest[w]]
      /\ MaxKills \in Nat
  BY HarvestAssumption DEF HarvestAssumption, WaveSet, TypeOK, WaveShape, Step
<1>1. ASSUME UNCHANGED <<record, kills>>, wave' \in WaveSet,
             pc = "fill record" => pc' = "fill record",
             \A w \in WaveSet : manifest'[w] \in {Absent, Garbage, Pins[w]},
             \A w \in WaveSet : WaveShape(w, dest'[w])
      PROVE  TypeOK'
  BY <1>1 DEF TypeOK, WaveShape
<1>2. ASSUME NEW w \in WaveSet, WriteManifest(w) PROVE TypeOK'
  <2>1. \A v \in WaveSet : manifest'[v] \in {Absent, Garbage, Pins[v]}
    BY <1>0, <1>2 DEF WriteManifest, Step
  <2> QED
    BY <1>0, <1>1, <1>2, <2>1 DEF WriteManifest
<1>3. ASSUME NEW w \in WaveSet, NEW cube \in Cubes(w), Solve(w, cube) PROVE TypeOK'
  BY <1>0, <1>1, <1>3 DEF Solve
<1>4. CASE Start \/ Preflight \/ Import \/ LoadRecord \/ Gate
  <2>1. UNCHANGED <<record, kills, sources, dest>> /\ pc # "fill record"
        /\ wave' \in {wave, Main}
    BY <1>4 DEF Start, Ended, Preflight, Import, LoadRecord, Gate
  <2> QED
    BY <1>0, <1>1, <2>1
<1>5. CASE OpenDest
  <2>1. /\ UNCHANGED <<record, kills, sources, wave>> /\ pc # "fill record"
        /\ dest' = [dest EXCEPT ![wave] = [taken EXCEPT !.verdicts = Absent]]
        /\ Carried
    BY <1>5 DEF OpenDest, Step
  <2>2. \A w \in WaveSet : WaveShape(w, dest'[w])
    <3>1. PICK docs : taken = [manifest |-> Pins[wave], verdicts |-> docs]
      BY <2>1 DEF Carried
    <3>2. dest'[wave] = [manifest |-> Pins[wave], verdicts |-> Absent]
      BY <1>0, <2>1, <3>1
    <3> QED
      BY <1>0, <2>1, <3>2 DEF WaveShape
  <2> QED
    BY <1>0, <1>1, <2>1, <2>2
<1>6. CASE FillDest
  <2>1. /\ UNCHANGED <<record, kills, sources>> /\ wave' = Confirm /\ pc # "fill record"
        /\ dest' = [dest EXCEPT ![wave] = taken]
        /\ Carried
    BY <1>6 DEF FillDest, Step
  <2>2. WaveShape(wave, taken)
    <3>1. PICK docs : taken = [manifest |-> Pins[wave], verdicts |-> docs] /\ Sound(wave, docs)
      BY <2>1 DEF Carried
    <3>2. taken.manifest = Pins[wave] /\ taken.verdicts = docs
      BY <3>1
    <3>3. DOMAIN docs = Cubes(wave)
      BY <3>1 DEF Sound
    <3> QED
      BY <3>2, <3>3 DEF WaveShape
  <2> QED
    BY <1>0, <1>1, <2>1, <2>2
<1>7. CASE OpenRecord \/ FillRecord
  <2>1. /\ UNCHANGED <<sources, dest, wave, kills>>
        /\ \/ record' = Garbage /\ pc' = "fill record"
           \/ record' = OldRecord \cup {NewClaim}
    BY <1>7 DEF OpenRecord, FillRecord
  <2> QED
    BY <1>0, <2>1 DEF TypeOK, WaveShape, TornShows
<1>8. CASE Kill
  <2>1. /\ UNCHANGED <<sources, dest, record, wave>> /\ kills < MaxKills /\ kills' = kills + 1
    BY <1>8 DEF Kill
  <2>2. kills' \in 0 .. MaxKills /\ kills' > 0
    BY <1>0, <2>1
  <2> QED
    BY <1>0, <2>1, <2>2 DEF TypeOK, WaveShape
<1>9. ASSUME NEW w \in WaveSet, DeleteDest(w) PROVE TypeOK'
  <2>1. UNCHANGED <<record, kills, sources, wave>> /\ pc # "fill record"
        /\ dest' = [dest EXCEPT ![w] = NoWave]
    BY <1>9 DEF DeleteDest, Ended
  <2>2. WaveShape(w, NoWave)
    BY DEF WaveShape, NoWave
  <2> QED
    BY <1>0, <1>1, <2>1, <2>2
<1>10. CASE RestoreRecord
  <2>1. UNCHANGED <<sources, dest, wave, kills>> /\ record' = OldRecord
    BY <1>10 DEF RestoreRecord
  <2> QED
    BY <1>0, <2>1 DEF TypeOK, WaveShape, TornShows
<1>11. CASE UNCHANGED vars
  BY <1>0, <1>1, <1>11 DEF vars
<1> QED
  BY <1>2, <1>3, <1>4, <1>5, <1>6, <1>7, <1>8, <1>9, <1>10, <1>11
     DEF Next, Campaign, Apply, Person

-----------------------------------------------------------------------------
(* What the preflight leaves to be found.  It counts; a wave with as many  *)
(* 20s as cubes has one on every cube, and while no driver overlaps, a 20  *)
(* is never replaced.                                                      *)

\* Documents are told from what is not one.
DocumentsShow ==
    \A w \in WaveSet : \A cube \in Cubes(w) : \A lits, rc :
        Document(w, cube, lits, rc) \notin {Absent, Garbage}

Cut == \A w \in WaveSet : WellCut(Pins[w])

\* What a driver may have left in the verdict file of a cube.
Left(w, cube) ==
    {Absent, Garbage, Solved(w, cube, truth[w][cube]), Solved(w, cube, Absent),
     Stale(w, cube)}

\* The cube is UNSAT by its verdict file, over its literals or over none.
Answered(w, cube) == verdicts[w][cube] \in {Solved(w, cube, 20), Stale(w, cube)}

\* Why an import may be refused.
Excused ==
    \/ partial[wave] \/ dest[wave] # NoWave
    \/ \E cube \in Cubes(wave) : verdicts[wave][cube] = Stale(wave, cube)

PreInv ==
    /\ \A w \in WaveSet : \A cube \in Cubes(w) : verdicts[w][cube] \in Left(w, cube)
    /\ pc \in {"import", "open", "fill", "refused"} /\ ~overlap =>
          \A w \in WaveSet : /\ manifest[w] = Pins[w]
                             /\ \A cube \in Cubes(w) : Answered(w, cube)
    /\ pc = "refused" /\ ~overlap => Excused
    /\ pc = "gate" => record # Garbage
    /\ pc # "gate 1"

\* A split of s variables has 2^s cubes.
LEMMA CubesCounted ==
    ASSUME NEW w \in WaveSet, WellCut(Pins[w])
    PROVE  IsFiniteSet(Cubes(w)) /\ Cardinality(Cubes(w)) = Pins[w].nCubes
<1> DEFINE split == Pins[w].split
           s == Len(split)
<1>1. /\ split \in Seq(Nat) /\ s \in Nat /\ DOMAIN split = 1 .. s
      /\ \A i, j \in DOMAIN split : split[i] = split[j] => i = j
  BY PinsAssumption DEF PinsAssumption, WellCut, UsableSplit
<1>2. split \in Bijection(1 .. s, Vars(split))
  <2>1. split \in [1 .. s -> Vars(split)]
    BY <1>1 DEF Vars
  <2>2. \A v \in Vars(split) : \E i \in 1 .. s : split[i] = v
    BY <1>1 DEF Vars
  <2> HIDE DEF split, s
  <2> QED
    BY <1>1, <2>1, <2>2 DEF Bijection, Injection, Surjection, IsInjective
<1>3. ExistsBijection(1 .. s, Vars(split))
  BY <1>2 DEF ExistsBijection
<1>4. IsFiniteSet(Vars(split)) /\ Cardinality(Vars(split)) = s
  BY <1>1, <1>3, FS_NatBijection, FS_CountingElements
<1> QED
  BY <1>4, FS_SUBSET DEF Cubes, CubeIds, WellCut

\* As many 20s as cubes: there is a 20 on every cube.
LEMMA CountedAll ==
    ASSUME Absent # 20, NEW w \in WaveSet, WellCut(Pins[w]), FinishedAndClean(w), PreInv,
           NEW cube \in Cubes(w)
    PROVE  Answered(w, cube)
<1> DEFINE Unsat == {c \in Cubes(w) : verdicts[w][c] \notin {Absent, Garbage}
                                      /\ verdicts[w][c].rc = 20}
<1>1. Cardinality(Unsat) = Cardinality(Cubes(w))
  BY CubesCounted DEF FinishedAndClean, Count
<1>2. Unsat \in SUBSET Cubes(w)
  OBVIOUS
<1>3. Unsat = Cubes(w)
  BY <1>1, <1>2, CubesCounted, FS_Subset
<1>4. verdicts[w][cube] \in Left(w, cube) \ {Absent, Garbage} /\ verdicts[w][cube].rc = 20
  BY <1>3 DEF PreInv
<1>5. Solved(w, cube, Absent).rc = Absent /\ Solved(w, cube, truth[w][cube]).rc = truth[w][cube]
  BY DEF Solved, Document
<1> QED
  BY <1>4, <1>5 DEF Left, Answered

\* The importer finds nothing wrong with answered cubes but a stale verdict.
LEMMA RefusalExcused ==
    ASSUME DocumentsShow, NEW w \in WaveSet, WellCut(Pins[w]), manifest[w] = Pins[w],
           DOMAIN verdicts[w] = Cubes(w), \A cube \in Cubes(w) : Answered(w, cube),
           ~partial[w], ~Importable(w)
    PROVE  \E cube \in Cubes(w) : verdicts[w][cube] = Stale(w, cube)
<1> SUFFICES ASSUME \A cube \in Cubes(w) : verdicts[w][cube] = Solved(w, cube, 20)
             PROVE  Importable(w)
  BY DEF Answered
<1>1. \A cube \in Cubes(w) : verdicts[w][cube] \notin {Absent, Garbage}
  BY DEF DocumentsShow, Solved
<1>2. \A cube \in Cubes(w) :
         /\ verdicts[w][cube].shape /\ verdicts[w][cube].cube = cube
         /\ verdicts[w][cube].rc = 20
         /\ verdicts[w][cube].lits = CubeLiterals(Pins[w].split, cube)
  <2> TAKE cube \in Cubes(w)
  <2>1. verdicts[w][cube] = [shape |-> TRUE, cube |-> cube, rc |-> 20,
                lits |-> CubeLiterals(Pins[w].split, cube), digest |-> Absent]
    BY DEF Solved, Document
  <2> QED
    BY <2>1
<1>3. Cubes(w) = CubeIds(Pins[w].split)
  BY DEF Cubes
<1>4. OnePerCube(verdicts[w], Pins[w].split)
  BY <1>2, <1>3 DEF OnePerCube
<1>5. EveryCubeUnsat(verdicts[w], Pins[w].split)
  BY <1>2, <1>3 DEF EveryCubeUnsat
<1> QED
  BY <1>1, <1>4, <1>5 DEF Importable

LEMMA PreStep ==
    ASSUME Absent # 20, TornShows, DocumentsShow, TablesAreThere, Cut, Step, PreInv,
           [Next]_vars
    PROVE  PreInv'
<1> USE DEF sources, given, Goto
<1>1. /\ Main \in WaveSet /\ Confirm \in WaveSet /\ wave \in WaveSet
      /\ \A w \in WaveSet : DOMAIN verdicts[w] = Cubes(w)
  BY DEF WaveSet, Step, VerdictsOK
<1>2. ASSUME UNCHANGED sources, pc' \notin {"import", "open", "fill", "refused", "gate", "gate 1"}
      PROVE  PreInv'
  BY <1>2 DEF PreInv, Left, Solved
<1>3. ASSUME UNCHANGED <<sources, record>>, pc \in {"import", "open", "fill"},
             pc' \notin {"refused", "gate", "gate 1"}
      PROVE  PreInv'
  BY <1>3 DEF PreInv, Left, Solved, Answered
<1>4. ASSUME NEW w \in WaveSet, WriteManifest(w) PROVE PreInv'
  <2>1. UNCHANGED <<verdicts, given, dest, record, pc, wave>> /\ manifest[w] # Pins[w]
    BY <1>4 DEF WriteManifest
  <2>2. ~(pc \in {"import", "open", "fill", "refused"} /\ ~overlap)
    BY <2>1 DEF PreInv
  <2> QED
    BY <2>1, <2>2 DEF PreInv, Left, Solved
<1>5. ASSUME NEW w \in WaveSet, NEW cube \in Cubes(w), Solve(w, cube) PROVE PreInv'
  <2>1. /\ UNCHANGED <<manifest, given, dest, record, pc, wave>>
        /\ \/ verdicts[w][cube] \in {Absent, Garbage}
           \/ verdicts[w][cube] = Solved(w, cube, Absent)
           \/ overlap
    BY <1>5 DEF Solve
  <2>2. PICK document \in {Solved(w, cube, truth[w][cube]), Solved(w, cube, Absent),
                           Stale(w, cube), Garbage} :
           verdicts' = [verdicts EXCEPT ![w][cube] = document]
    BY <1>5 DEF Solve
  <2>3. document \in Left(w, cube)
    BY <2>2 DEF Left
  <2>4. ASSUME NEW v \in WaveSet, NEW c \in Cubes(v) PROVE verdicts'[v][c] \in Left(v, c)
    <3>1. verdicts[v][c] \in Left(v, c)
      BY DEF PreInv
    <3>2. verdicts'[v][c] = verdicts[v][c] \/ (v = w /\ c = cube /\ verdicts'[v][c] = document)
      BY <1>1, <2>2
    <3> QED
      BY <2>3, <3>1, <3>2
  <2>5. \A v, c : Left(v, c)' = Left(v, c)
    BY <2>1 DEF Left, Solved
  <2>6. ~overlap => ~Answered(w, cube)
    <3>1. Solved(w, cube, Absent).rc = Absent /\ Solved(w, cube, 20).rc = 20
          /\ Stale(w, cube).rc = 20
      BY DEF Solved, Stale, Document
    <3> QED
      BY <2>1, <3>1 DEF Answered, DocumentsShow, Solved, Stale
  <2>7. ~(pc \in {"import", "open", "fill", "refused"} /\ ~overlap)
    BY <2>6 DEF PreInv
  <2> QED
    BY <2>1, <2>4, <2>5, <2>7 DEF PreInv
<1>6. CASE Start \/ Kill
  BY <1>2, <1>6 DEF Start, Kill
<1>7. CASE Preflight
  <2>1. UNCHANGED <<sources, record>> /\ pc' \in {"raised", "import", "exit 1"}
        /\ (pc' = "import" => \A w \in WaveSet : FinishedAndClean(w))
    BY <1>7 DEF Preflight
  <2>2. pc' = "import" => \A w \in WaveSet : /\ manifest[w] = Pins[w]
                                             /\ \A cube \in Cubes(w) : Answered(w, cube)
    BY <2>1, CountedAll DEF Cut, FinishedAndClean
  <2> QED
    BY <2>1, <2>2 DEF PreInv, Left, Solved, Answered
<1>8. CASE Import
  <2>1. UNCHANGED <<sources, dest, record, wave>> /\ pc = "import" /\ pc' \in {"open", "refused"}
        /\ (pc' = "refused" => ~(dest[wave] = NoWave /\ Importable(wave)))
    BY <1>8 DEF Import
  <2>2. ASSUME ~overlap PROVE \A w \in WaveSet : /\ manifest[w] = Pins[w]
                                                 /\ \A cube \in Cubes(w) : Answered(w, cube)
    BY <2>1, <2>2 DEF PreInv
  <2>3. ASSUME ~overlap, pc' = "refused" PROVE Excused
    BY <1>1, <2>1, <2>2, <2>3, RefusalExcused DEF Excused, Cut
  <2> QED
    BY <2>1, <2>2, <2>3 DEF PreInv, Left, Solved, Answered, Excused
<1>9. CASE OpenDest \/ FillDest \/ LoadRecord \/ OpenRecord \/ FillRecord
  <2>1. CASE OpenDest \/ FillDest
    BY <1>2, <1>3, <2>1 DEF OpenDest, FillDest
  <2>2. CASE LoadRecord \/ OpenRecord \/ FillRecord
    <3>1. UNCHANGED sources /\ pc' \in {"raised", "gate", "open record", "fill record"}
          /\ (pc' = "gate" => record' # Garbage)
      <4>1. CASE LoadRecord
        BY <4>1 DEF LoadRecord
      <4>2. CASE OpenRecord \/ FillRecord
        BY <4>2 DEF OpenRecord, FillRecord, TornShows
      <4> QED
        BY <2>2, <4>1, <4>2
    <3> QED
      BY <3>1 DEF PreInv, Left, Solved
  <2> QED
    BY <1>9, <2>1, <2>2
<1>10. CASE Gate
  <2>1. pc = "gate" /\ \A w \in WaveSet : Imported(w)
    BY <1>10 DEF Gate, Step, Recording
  <2>2. GateAccepts
    BY <2>1, ImportedBacks DEF PreInv, GateAccepts
  <2> QED
    BY <1>2, <1>10, <2>2 DEF Gate
<1>11. CASE Person
  BY <1>2, <1>11 DEF Person, RestoreRecord, DeleteDest
<1>12. CASE UNCHANGED vars
  BY <1>12 DEF vars, PreInv, Left, Solved, Answered, Excused
<1> QED
  BY <1>4, <1>5, <1>6, <1>7, <1>8, <1>9, <1>10, <1>11, <1>12 DEF Next, Campaign, Apply

\* The shape of the state; exit code 0 is earned; and after the preflight the
\* gate refuses nothing and the importer only what the preflight does not look
\* at, for any two waves that are well cut, any answers, attempts and kills.
THEOREM HarvestSound ==
    ASSUME Absent # 20, TornShows, DocumentsShow, TablesAreThere, Cut
    PROVE  Spec => []HarvestTrue
<1>1. Init => Step /\ TypeOK /\ PreInv
  BY HarvestAssumption DEF HarvestAssumption, Init, Step, VerdictsOK, Documents,
         Recording,
     WaveSet, TypeOK, NoWave, PreInv, Left, TornShows
<1>2. Step /\ TypeOK /\ PreInv /\ [Next]_vars => Step' /\ TypeOK' /\ PreInv'
  BY StepStep, TypeStep, PreStep
<1>3. PreInv => PreflightSuffices
  BY DEF PreInv, PreflightSuffices, Excused
<1> QED
  BY <1>1, <1>2, <1>3, ExitZeroEarned, PTL DEF Spec, HarvestTrue

-----------------------------------------------------------------------------
(* The consoles.                                                           *)

Roles == Console!Roles

\* Every process is attached to a console as its launcher says; the launchers
\* that resume uses give no window to pass on; and whatever is on a window
\* since the processes were listed is still to be probed.
ConsolesInv ==
    /\ console \in [Roles -> Console!Consoles \cup {Console!Dead}]
    /\ verify \in [pc : {"off", "probe", "PASS", "FAIL"}, rows : SUBSET Roles]
    /\ exposed \subseteq Roles
    /\ \A r \in Roles : console[r] = Console!NoConsole => r \in Console!Consoleless
    /\ Console!NothingToClick
    /\ "launch_pruner" \notin setup.scripts =>
          /\ ~Console!Alive("check_and_prune")
          /\ verify.pc = "probe" =>
                exposed \subseteq verify.rows /\ \A r \in exposed : Console!OnWindow(r)
          /\ verify.pc = "PASS" => exposed = {}

\* A launch of a role that does not run, on a console that may be its.
LEMMA BeginKeeps ==
    ASSUME ConsolesInv, UNCHANGED setup,
           NEW r \in Roles, NEW c \in Console!Consoles, Console!Begin(r, c),
           c = Console!NoConsole => r \in Console!Consoleless,
           Console!Scripts \subseteq {"resume_campaign", "start_watchdog"} =>
               ~c.window /\ (r \in Console!Consoleless => c = Console!NoConsole),
           "launch_pruner" \notin setup.scripts => r # "check_and_prune"
    PROVE  ConsolesInv'
<1>1. /\ console' = [console EXCEPT ![r] = c] /\ ~Console!Alive(r)
      /\ UNCHANGED <<verify, exposed>>
  BY DEF Console!Begin
<1>2. console'[r] = c /\ \A s \in Roles \ {r} : console'[s] = console[s]
  BY <1>1 DEF ConsolesInv
<1>3. console' \in [Roles -> Console!Consoles \cup {Console!Dead}]
  BY <1>1 DEF ConsolesInv
<1>4. Console!NothingToClick'
  BY <1>2 DEF ConsolesInv, Console!NothingToClick, Console!Scripts, Console!Alive, Roles
<1>5. \A s \in Roles : Console!OnWindow(s) => s # r /\ Console!OnWindow(s)'
  BY <1>1, <1>2 DEF Console!OnWindow, Console!Alive
<1>6. \A s \in Roles : s # r => (Console!Alive(s)' <=> Console!Alive(s))
  BY <1>2 DEF Console!Alive
<1>7. "check_and_prune" \in Roles
  BY DEF Roles, Console!Roles
<1> QED
  BY <1>1, <1>2, <1>3, <1>4, <1>5, <1>6, <1>7 DEF ConsolesInv

\* The consoles there are.
LEMMA ConsoleKinds ==
    ASSUME NEW r \in Roles
    PROVE  /\ Console!NoConsole \in Console!Consoles /\ ~Console!NoConsole.window
           /\ Console!Windowless(r) \in Console!Consoles /\ ~Console!Windowless(r).window
           /\ Console!Windowless(r) # Console!NoConsole
           /\ Console!Window(r) \in Console!Consoles
           /\ Console!Window(r) # Console!NoConsole
BY DEF Roles, Console!Roles, Console!Consoles, Console!NoConsole, Console!Windowless,
       Console!Window

LEMMA LaunchKeeps ==
    ASSUME ConsolesInv, UNCHANGED setup, Console!Launch PROVE ConsolesInv'
<1>1. ASSUME NEW r \in Roles, Console!Resume(r) PROVE ConsolesInv'
  <2>1. CASE r = "orchestrator"
    <3>1. Console!Begin(r, Console!NoConsole) /\ r \in Console!Consoleless
      BY <1>1, <2>1
      DEF Console!Resume, Console!Attached, Console!DetachFlag, Console!Consoleless
    <3> QED
      BY <2>1, <3>1, ConsoleKinds, BeginKeeps
  <2>2. CASE r # "orchestrator"
    <3>1. /\ Console!Begin(r, Console!Windowless(r))
          /\ r \notin Console!Consoleless /\ r # "check_and_prune"
      BY <1>1, <2>2
      DEF Console!Resume, Console!Attached, Console!DetachFlag, Console!Consoleless
    <3> QED
      BY <3>1, ConsoleKinds, BeginKeeps
  <2> QED
    BY <2>1, <2>2
<1>2. ASSUME Console!StartWatchdog PROVE ConsolesInv'
  <2>1. /\ Console!Begin("watchdog", Console!NoConsole)
        /\ "watchdog" \in Console!Consoleless /\ "watchdog" \in Roles
    BY <1>2
    DEF Console!StartWatchdog, Console!Attached, Console!DetachFlag, Console!Consoleless,
        Roles, Console!Roles
  <2> QED
    BY <2>1, ConsoleKinds, BeginKeeps
<1>3. ASSUME NEW r \in Roles, NEW script \in Console!Scripts, Console!LaunchInCmd(script, r)
      PROVE  ConsolesInv'
  <2>1. Console!Begin(r, Console!Window(r))
    BY <1>3 DEF Console!LaunchInCmd
  <2>2. script \notin {"resume_campaign", "start_watchdog"}
    BY <1>3 DEF Console!LaunchInCmd
  <2>3. r = "check_and_prune" => "launch_pruner" \in setup.scripts
    BY <1>3 DEF Console!LaunchInCmd, Console!Scripts
  <2> QED
    BY <2>1, <2>2, <2>3, ConsoleKinds, BeginKeeps
<1>4. ASSUME NEW r \in Roles, Console!Run(r) PROVE ConsolesInv'
  <2>1. /\ Console!Begin(r, Console!Windowless(r))
        /\ r \notin Console!Consoleless /\ r # "check_and_prune"
    BY <1>4 DEF Console!Run, Console!Attached, Console!Consoleless
  <2> QED
    BY <2>1, ConsoleKinds, BeginKeeps
<1>5. ASSUME NEW pair \in Console!Children, Console!StartChild(pair[1], pair[2])
      PROVE  ConsolesInv'
  <2>1. /\ pair[1] \in Roles \ Console!Consoleless
        /\ pair[2] \in Roles \ (Console!Consoleless \cup {"check_and_prune"})
    <3> DEFINE Parents == {"wave driver", "wave worker", "check_pass", "checker", "pruner",
                           "check_and_prune", "check worker"}
               Started == {"wave worker", "kissat", "check worker", "drat-trim"}
    <3>1. PICK parent \in Parents, r \in Started : pair = <<parent, r>>
      BY DEF Console!Children
    <3>2. /\ Parents \subseteq Roles \ Console!Consoleless
          /\ Started \subseteq Roles \ (Console!Consoleless \cup {"check_and_prune"})
      BY DEF Roles, Console!Roles, Console!Consoleless
    <3> QED
      BY <3>1, <3>2
  <2>2. Console!Begin(pair[2], console[pair[1]]) /\ Console!Alive(pair[1])
    BY <1>5, <2>1 DEF ConsolesInv, Console!StartChild, Console!Attached
  <2>3. /\ console[pair[1]] \in Console!Consoles
        /\ console[pair[1]] # Console!NoConsole
        /\ Console!Scripts \subseteq {"resume_campaign", "start_watchdog"} =>
              ~console[pair[1]].window
    BY <2>1, <2>2 DEF ConsolesInv, Console!Alive, Console!NothingToClick, Roles
  <2> QED
    BY <2>1, <2>2, <2>3, BeginKeeps
<1> QED
  BY <1>1, <1>2, <1>3, <1>4, <1>5 DEF Console!Launch, Roles

\* Processes that end take nothing with them but their windows.
LEMMA EndKeeps ==
    ASSUME ConsolesInv, UNCHANGED setup, NEW ended \in SUBSET Roles, Console!End(ended)
    PROVE  ConsolesInv'
<1>1. /\ console' = [r \in Roles |-> IF r \in ended THEN Console!Dead ELSE console[r]]
      /\ exposed' = exposed \ ended /\ verify' = verify
  BY DEF Console!End, Roles
<1>2. console' \in [Roles -> Console!Consoles \cup {Console!Dead}]
  BY <1>1 DEF ConsolesInv
<1>3. \A r \in Roles : console'[r] = Console!Dead \/ console'[r] = console[r]
  BY <1>1
<1>4. Console!NothingToClick'
  BY <1>3 DEF ConsolesInv, Console!NothingToClick, Console!Scripts, Console!Alive, Roles
<1>5. \A r \in exposed' : Console!OnWindow(r) => Console!OnWindow(r)'
  BY <1>1 DEF ConsolesInv, Console!OnWindow, Console!Alive
<1>6. "check_and_prune" \in Roles /\ Console!Dead # Console!NoConsole
  BY DEF Roles, Console!Roles, Console!Dead, Console!NoConsole
<1> QED
  BY <1>1, <1>2, <1>3, <1>4, <1>5, <1>6 DEF ConsolesInv, Console!Alive

\* What is on a window when the processes are listed is listed, and its probe
\* fails; a pass comes when there is nothing left to probe.
LEMMA VerifyKeeps ==
    ASSUME ConsolesInv, UNCHANGED setup,
           \/ Console!Enumerate \/ Console!Result
           \/ \E r \in Roles : Console!Probe(r) \/ Console!Inconclusive(r)
    PROVE  ConsolesInv'
<1>0. UNCHANGED console
  BY DEF Console!Enumerate, Console!Result, Console!Probe, Console!Inconclusive,
         Console!Probed
<1>1. /\ Console!NothingToClick'
      /\ \A r \in Roles : /\ Console!Alive(r)' <=> Console!Alive(r)
                          /\ Console!OnWindow(r)' <=> Console!OnWindow(r)
      /\ "check_and_prune" \in Roles
  BY <1>0 DEF ConsolesInv, Console!NothingToClick, Console!Scripts, Console!Alive,
              Console!OnWindow, Roles, Console!Roles
<1>2. CASE Console!Enumerate
  <2> DEFINE rows == {r \in Roles : Console!Alive(r) /\ Console!Classify(r) # "None"}
  <2>1. verify' \in {[pc |-> "probe", rows |-> rows], [pc |-> "FAIL", rows |-> {}]}
    BY <1>2 DEF Console!Enumerate, Roles
  <2>2. exposed' = {r \in Roles : Console!OnWindow(r)}
    BY <1>2 DEF Console!Enumerate, Roles
  <2>3. \A r \in Roles \ {"check_and_prune"} : Console!OnWindow(r) => r \in rows
    BY DEF Console!OnWindow, Console!Classify, Roles, Console!Roles
  <2>4. ~Console!Alive("check_and_prune") => ~Console!OnWindow("check_and_prune")
    BY DEF Console!OnWindow
  <2>5. /\ verify' \in [pc : {"off", "probe", "PASS", "FAIL"}, rows : SUBSET Roles]
        /\ verify'.pc # "PASS" /\ (verify'.pc = "probe" => verify'.rows = rows)
    BY <2>1
  <2> HIDE DEF rows
  <2> QED
    BY <1>0, <1>1, <2>2, <2>3, <2>4, <2>5 DEF ConsolesInv
<1>3. ASSUME NEW r \in Roles, Console!Probe(r) \/ Console!Inconclusive(r) PROVE ConsolesInv'
  <2>1. PICK failed \in BOOLEAN :
           Console!Probed(r, failed) /\ (~failed => ~Console!OnWindow(r))
    <3>1. CASE Console!Inconclusive(r)
      BY <3>1 DEF Console!Inconclusive
    <3>2. CASE Console!Probe(r)
      <4> DEFINE failed == console[r].window
                           \/ (r \in Console!Consoleless /\ console[r] # Console!NoConsole)
      <4>1. Console!Probed(r, failed) /\ (~failed => ~Console!OnWindow(r))
        BY <3>2 DEF Console!Probe, Console!OnWindow
      <4>2. CASE failed
        <5>1. Console!Probed(r, TRUE)
          BY <3>2, <4>2 DEF Console!Probe, Console!Probed
        <5> QED
          BY <5>1
      <4>3. CASE ~failed
        <5>1. Console!Probed(r, FALSE)
          BY <3>2, <4>3 DEF Console!Probe, Console!Probed
        <5> QED
          BY <4>1, <4>3, <5>1
      <4> QED
        BY <4>2, <4>3
    <3> QED
      BY <1>3, <3>1, <3>2
  <2>2. /\ exposed' = exposed /\ verify.pc = "probe"
        /\ verify' = IF failed THEN [pc |-> "FAIL", rows |-> {}]
                     ELSE [verify EXCEPT !.rows = verify.rows \ {r}]
    BY <2>1 DEF Console!Probed
  <2>3. CASE failed
    <3>1. /\ verify' \in [pc : {"off", "probe", "PASS", "FAIL"}, rows : SUBSET Roles]
          /\ verify'.pc = "FAIL"
      BY <2>2, <2>3
    <3> QED
      BY <1>0, <1>1, <2>2, <3>1 DEF ConsolesInv
  <2>4. CASE ~failed
    <3>1. /\ verify' \in [pc : {"off", "probe", "PASS", "FAIL"}, rows : SUBSET Roles]
          /\ verify'.pc = "probe" /\ verify'.rows = verify.rows \ {r}
      BY <2>2, <2>4 DEF ConsolesInv
    <3> QED
      BY <1>0, <1>1, <2>1, <2>2, <2>4, <3>1 DEF ConsolesInv
  <2> QED
    BY <2>3, <2>4
<1>4. CASE Console!Result
  <2>1. verify.pc = "probe" /\ verify.rows = {} /\ exposed' = exposed
    BY <1>4 DEF Console!Result
  <2>2. /\ verify' \in [pc : {"off", "probe", "PASS", "FAIL"}, rows : SUBSET Roles]
        /\ verify'.pc = "PASS"
    BY <1>4 DEF Console!Result, ConsolesInv
  <2> QED
    BY <1>0, <1>1, <2>1, <2>2 DEF ConsolesInv
<1> QED
  BY <1>2, <1>3, <1>4

\* Nothing of a campaign that was resumed is ever behind a window, two levels
\* of children without flags included; and a PASS of verify_detached.py is
\* about every process, whatever starts and ends while it probes them.
THEOREM ConsolesSound == Console!Spec => []ConsolesTrue
<1>1. Console!Init => ConsolesInv
  <2> SUFFICES ASSUME Console!Init PROVE ConsolesInv
    OBVIOUS
  <2>1. /\ console \in [Roles -> Console!Consoles \cup {Console!Dead}]
        /\ \A r \in Roles : console[r] = Console!Dead
    BY DEF Console!Init, Roles
  <2>2. "check_and_prune" \in Roles /\ Console!Dead # Console!NoConsole
    BY DEF Roles, Console!Roles, Console!Dead, Console!NoConsole
  <2> QED
    BY <2>1, <2>2
    DEF Console!Init, ConsolesInv, Console!NothingToClick, Console!Alive, Roles
<1>2. ConsolesInv /\ [Console!Next]_Console!vars => ConsolesInv'
  <2> SUFFICES ASSUME ConsolesInv, [Console!Next]_Console!vars PROVE ConsolesInv'
    OBVIOUS
  <2>1. CASE UNCHANGED Console!vars
    BY <2>1 DEF Console!vars, ConsolesInv, Console!NothingToClick, Console!Scripts,
                Console!Alive, Console!OnWindow
  <2>2. CASE Console!Next
    <3>1. UNCHANGED setup
      BY <2>2 DEF Console!Next
    <3>2. ASSUME NEW r \in Roles, Console!Exit(r) PROVE ConsolesInv'
      BY <3>1, <3>2, EndKeeps DEF Console!Exit
    <3>3. ASSUME NEW c \in Console!Consoles, Console!CloseWindow(c) PROVE ConsolesInv'
      BY <3>1, <3>3, EndKeeps DEF Console!CloseWindow, Roles
    <3> QED
      BY <2>2, <3>1, <3>2, <3>3, LaunchKeeps, VerifyKeeps DEF Console!Next, Roles
  <2> QED
    BY <2>1, <2>2
<1>3. ConsolesInv => ConsolesTrue
  <2> SUFFICES ASSUME ConsolesInv PROVE ConsolesTrue
    OBVIOUS
  <2>1. Console!TypeOK
    BY DEF ConsolesInv, Console!TypeOK, Console!Alive, Roles
  <2>2. Console!PassSound
    BY DEF ConsolesInv, Console!PassSound, Console!Scripts
  <2> QED
    BY <2>1, <2>2 DEF ConsolesInv, ConsolesTrue, Console!ConsolesTrue
<1> QED
  BY <1>1, <1>2, <1>3, PTL DEF Console!Spec

-----------------------------------------------------------------------------
(* The watchdog's lock.                                                    *)

Kinds == {"free", "other", "gone", "look", "ask", "open", "fill", "run"}
Stages == {"idle", "clear", "create", "wait for pid", "wait for lock"} \cup Lock!Ended

Processes == [pc : Kinds, held : {NoFile, Empty} \cup Pids, ran : BOOLEAN]

\* No process has the number "no file".
Shape ==
    /\ NoFile \notin Pids
    /\ table \in [Pids -> Processes]
    /\ starter \in [Starters -> [pc : Stages, child : {NoFile} \cup Pids]]
    /\ launcher \in [Starters -> [pc : {"idle", "spawn", "write", "fill"},
                                  child : {NoFile} \cup Pids]]
    /\ lock \in {NoFile, Empty} \cup Pids
    /\ pidfile \in {NoFile, Empty} \cup Pids

Young(p) == table[p].pc \in Lock!Settling
Busy(s) == starter[s].pc \notin Lock!Ended \cup {"idle"} \/ launcher[s] # Lock!Idle

\* The start may still launch a watchdog.
Early(s) == starter[s].pc \in {"clear", "create"} \/ launcher[s].pc = "spawn"

\* One start at a time, which launches once.
Turns ==
    /\ \A s, t \in Starters : Busy(s) /\ Busy(t) => s = t
    /\ \A s \in Starters : starter[s].pc \in {"idle", "clear", "create"} => launcher[s] = Lock!Idle

\* Nobody polls or is about to when a watchdog is launched, nobody polls while
\* one settles, and who polls is named in the lock, so that a start sees it.
Sole ==
    /\ \A s \in Starters : Early(s) => \A p \in Pids : ~Young(p) /\ ~Lock!At(p, "run")
    /\ \A p, q \in Pids : Young(p) /\ Young(q) => p = q
    /\ \A p, q \in Pids : Young(p) => ~Lock!At(q, "run")
    /\ \A p \in Pids : Lock!At(p, "run") => lock = p

-----------------------------------------------------------------------------
\* What may happen does not change.
LEMMA ModeStays ==
    ASSUME [Lock!Next]_(Lock!vars) PROVE (Lock!Overlap' <=> Lock!Overlap) /\ (Lock!Reuse' <=> Lock!Reuse)
BY DEF Lock!Next, Lock!vars, Lock!Overlap, Lock!Reuse

\* Idle is a step, too.
LEMMA IdlePc == Lock!Idle.pc = "idle"
BY DEF Lock!Idle

\* A process of which two fields change.
LEMMA Reads ==
    ASSUME NEW t \in Processes, NEW stage \in Kinds, NEW h \in {NoFile, Empty} \cup Pids
    PROVE  /\ [t EXCEPT !.pc = stage, !.held = h] \in Processes
           /\ [t EXCEPT !.pc = stage, !.held = h].pc = stage
BY DEF Processes

\* The same of its step and its having run.
LEMMA Runs ==
    ASSUME NEW t \in Processes, NEW stage \in Kinds, NEW b \in BOOLEAN
    PROVE  /\ [t EXCEPT !.pc = stage, !.ran = b] \in Processes
           /\ [t EXCEPT !.pc = stage, !.ran = b].pc = stage
BY DEF Processes

\* A process that goes from one step to another.
LEMMA Goes ==
    ASSUME Shape, NEW p \in Pids, NEW stage \in Kinds, Lock!Goto(p, stage)
    PROVE  /\ table' \in [Pids -> Processes]
           /\ table'[p].pc = stage
           /\ \A q \in Pids \ {p} : table'[q] = table[q]
<1> DEFINE r == [table[p] EXCEPT !.pc = stage]
<1>1. /\ r \in Processes
      /\ r.pc = stage
  BY DEF Shape, Processes
<1>2. table' = [table EXCEPT ![p] = r]
  BY DEF Lock!Goto
<1> QED
  BY <1>1, <1>2 DEF Shape

\* A start that goes from one step to another.
LEMMA Steps ==
    ASSUME Shape, NEW s \in Starters, NEW stage \in Stages, Lock!Step(s, stage)
    PROVE  /\ starter' \in [Starters -> [pc : Stages, child : {NoFile} \cup Pids]]
           /\ starter'[s].pc = stage
           /\ \A t \in Starters \ {s} : starter'[t] = starter[t]
<1> DEFINE r == [starter[s] EXCEPT !.pc = stage]
<1>1. r \in [pc : Stages, child : {NoFile} \cup Pids] /\ r.pc = stage
  BY DEF Shape
<1>2. starter' = [starter EXCEPT ![s] = r]
  BY DEF Lock!Step
<1> QED
  BY <1>1, <1>2 DEF Shape

\* What happens to one start, of which the rest of the state knows nothing.
StarterStep(s) == Lock!Clear(s) \/ Lock!WaitForPid(s) \/ Lock!WaitForLock(s)

\* A watchdog that does not take the lock, and processes that are none.
ProcessStep(p) ==
    \/ Lock!ReadLock(p) \/ Lock!Ask(p) \/ Lock!OpenLock(p)
    \/ Lock!Die(p) \/ Lock!OtherPython(p)

-----------------------------------------------------------------------------
\* What a start does by itself leaves turns and watchdogs as they are.
LEMMA StarterKeeps ==
    ASSUME Shape, Turns, Sole, NEW s \in Starters, StarterStep(s)
    PROVE  Shape' /\ Turns' /\ Sole'
<1>1. PICK r \in [pc : Stages, child : {NoFile} \cup Pids] :
         /\ starter' = [starter EXCEPT ![s] = r]
         /\ r.pc \notin {"idle", "clear"}
         /\ r.pc = "create" => starter[s].pc = "clear"
         /\ starter[s].pc \in {"clear", "wait for pid", "wait for lock"}
  <2>1. CASE Lock!Clear(s)
    <3> DEFINE r == [starter[s] EXCEPT !.pc = "create"]
    <3>1. r \in [pc : Stages, child : {NoFile} \cup Pids] /\ r.pc = "create"
      BY DEF Shape, Stages
    <3>2. starter' = [starter EXCEPT ![s] = r] /\ starter[s].pc = "clear"
      BY <2>1 DEF Lock!Clear, Lock!Step
    <3> QED
      BY <3>1, <3>2
  <2>2. CASE Lock!WaitForPid(s)
    <3>1. PICK child \in {NoFile} \cup Pids :
             starter' = [starter EXCEPT ![s] = [pc |-> "wait for lock", child |-> child]]
      BY <2>2 DEF Lock!WaitForPid
    <3> DEFINE r == [pc |-> "wait for lock", child |-> child]
    <3>2. r \in [pc : Stages, child : {NoFile} \cup Pids] /\ r.pc = "wait for lock"
      BY DEF Stages
    <3>3. starter[s].pc = "wait for pid"
      BY <2>2 DEF Lock!WaitForPid
    <3> QED
      BY <3>1, <3>2, <3>3
  <2>3. CASE Lock!WaitForLock(s)
    <3>1. PICK stage \in {"RUNNING", "FAILED"} : Lock!Step(s, stage)
      BY <2>3 DEF Lock!WaitForLock
    <3> DEFINE r == [starter[s] EXCEPT !.pc = stage]
    <3>2. r \in [pc : Stages, child : {NoFile} \cup Pids] /\ r.pc = stage
      BY DEF Shape, Stages, Lock!Ended
    <3>3. starter' = [starter EXCEPT ![s] = r] /\ starter[s].pc = "wait for lock"
      BY <2>3, <3>1 DEF Lock!WaitForLock, Lock!Step
    <3> QED
      BY <3>1, <3>2, <3>3
  <2> QED
    BY <2>1, <2>2, <2>3 DEF StarterStep
<1>2. /\ UNCHANGED <<table, lock, launcher>>
      /\ pidfile' \in {pidfile, NoFile}
      /\ \A t \in Starters \ {s} : starter'[t] = starter[t]
      /\ starter' \in [Starters -> [pc : Stages, child : {NoFile} \cup Pids]]
      /\ starter'[s] = r
  BY <1>1 DEF StarterStep, Lock!Clear, Lock!WaitForPid, Lock!WaitForLock,
         Lock!shared, Shape
<1>3. Shape'
  BY <1>2 DEF Shape
<1>4. \A t \in Starters : (Busy(t)' => Busy(t)) /\ (Early(t)' => Early(t))
  BY <1>1, <1>2 DEF Busy, Early, Lock!Ended
<1>5. Turns'
  BY <1>1, <1>2, <1>4 DEF Turns
<1>6. Sole'
  BY <1>2, <1>4 DEF Sole, Young, Lock!At
<1> QED
  BY <1>3, <1>5, <1>6

\* A start begins when nothing of an earlier one is to come; if it goes on,
\* nobody is in the lock, and so nobody polls.
LEMMA LookKeeps ==
    ASSUME ~Lock!Overlap, Shape, Turns, Sole, NEW s \in Starters, Lock!Look(s)
    PROVE  Shape' /\ Turns' /\ Sole'
<1>1. /\ UNCHANGED <<table, lock, pidfile, launcher>>
      /\ Lock!Settled
      /\ \A t \in Starters \ {s} : starter'[t] = starter[t]
      /\ starter' \in [Starters -> [pc : Stages, child : {NoFile} \cup Pids]]
      /\ starter'[s].pc = IF Lock!Holder(lock) THEN "already running" ELSE "clear"
  BY Steps DEF Lock!Look, Lock!shared, Stages, Lock!Ended
<1>2. Shape'
  BY <1>1 DEF Shape
<1>3. \A t \in Starters : Busy(t)' => t = s
  BY <1>1 DEF Busy, Lock!Settled
<1>4. Turns'
  BY <1>1, <1>3 DEF Turns, Lock!Settled
<1>5. starter'[s].pc = "clear" => \A p \in Pids : ~Lock!At(p, "run")
  BY <1>1 DEF Sole, Lock!Holder, Lock!Alive, Lock!At
<1>6. \A p \in Pids : ~Young(p)
  BY <1>1 DEF Lock!Settled, Young
<1>7. \A t \in Starters : Early(t)' => t = s /\ starter'[s].pc = "clear"
  <2>1. \A t \in Starters : launcher'[t].pc = "idle"
    BY <1>1, IdlePc DEF Lock!Settled
  <2>2. \A t \in Starters \ {s} : starter'[t].pc \notin {"clear", "create"}
    BY <1>1 DEF Lock!Settled, Lock!Ended
  <2>3. starter'[s].pc \in {"already running", "clear"}
    BY <1>1
  <2> QED
    BY <2>1, <2>2, <2>3 DEF Early
<1>8. Sole'
  BY <1>1, <1>5, <1>6, <1>7 DEF Sole, Young, Lock!At
<1> QED
  BY <1>2, <1>4, <1>8

\* The launcher is created while it is the start's turn.
LEMMA CreateKeeps ==
    ASSUME Shape, Turns, Sole, NEW s \in Starters, Lock!Create(s)
    PROVE  Shape' /\ Turns' /\ Sole'
<1>1. /\ UNCHANGED <<table, lock, pidfile>>
      /\ starter[s].pc = "create"
      /\ \A t \in Starters \ {s} : starter'[t] = starter[t] /\ launcher'[t] = launcher[t]
      /\ starter' \in [Starters -> [pc : Stages, child : {NoFile} \cup Pids]]
      /\ starter'[s].pc = "wait for pid"
  BY Steps DEF Lock!Create, Lock!shared, Stages, Shape
<1>2. launcher' \in [Starters -> [pc : {"idle", "spawn", "write", "fill"},
                                  child : {NoFile} \cup Pids]]
  <2>1. [launcher[s] EXCEPT !.pc = "spawn"]
           \in [pc : {"idle", "spawn", "write", "fill"}, child : {NoFile} \cup Pids]
    BY DEF Shape
  <2>2. launcher' = launcher
           \/ launcher' = [launcher EXCEPT ![s] = [launcher[s] EXCEPT !.pc = "spawn"]]
    BY DEF Lock!Create
  <2> QED
    BY <2>1, <2>2 DEF Shape
<1>3. Shape'
  BY <1>1, <1>2 DEF Shape
<1>4. \A t \in Starters : (Busy(t)' => Busy(t)) /\ (Early(t)' => Early(t))
  BY <1>1 DEF Busy, Early, Lock!Ended
<1>5. Turns'
  BY <1>1, <1>4 DEF Turns
<1>6. Sole'
  BY <1>1, <1>4 DEF Sole, Young, Lock!At
<1> QED
  BY <1>3, <1>5, <1>6

\* A launcher that is done, dead or at its pid file.
LauncherStep(s) == Lock!SpawnFails(s) \/ Lock!OpenPidfile(s) \/ Lock!FillPidfile(s) \/ Lock!LauncherKilled(s)

\* It leaves turns and watchdogs as they are.
LEMMA LauncherKeeps ==
    ASSUME Shape, Turns, Sole, NEW s \in Starters, LauncherStep(s)
    PROVE  Shape' /\ Turns' /\ Sole'
<1>1. UNCHANGED <<table, lock, starter>>
  BY DEF LauncherStep, Lock!SpawnFails, Lock!OpenPidfile, Lock!FillPidfile,
         Lock!LauncherKilled, Lock!shared
<1>2. /\ launcher' \in [Starters -> [pc : {"idle", "spawn", "write", "fill"},
                                     child : {NoFile} \cup Pids]]
      /\ \A t \in Starters \ {s} : launcher'[t] = launcher[t]
      /\ launcher'[s].pc \in {"idle", "fill"}
      /\ launcher[s] # Lock!Idle
      /\ launcher'[s].pc = "fill" => launcher[s].pc = "write"
      /\ launcher'[s].pc = "idle" => launcher'[s] = Lock!Idle
      /\ pidfile' \in {NoFile, Empty} \cup Pids
  <2>1. Lock!Idle \in [pc : {"idle", "spawn", "write", "fill"}, child : {NoFile} \cup Pids]
    BY DEF Lock!Idle
  <2>2. CASE Lock!SpawnFails(s) \/ Lock!FillPidfile(s) \/ Lock!LauncherKilled(s)
    BY <2>1, <2>2 DEF Lock!SpawnFails, Lock!FillPidfile, Lock!LauncherKilled,
           Lock!shared, Shape, Lock!Idle
  <2>3. CASE Lock!OpenPidfile(s)
    <3> DEFINE r == [launcher[s] EXCEPT !.pc = "fill"]
    <3>1. /\ r \in [pc : {"idle", "spawn", "write", "fill"}, child : {NoFile} \cup Pids]
          /\ r.pc = "fill"
      BY DEF Shape
    <3>2. launcher' = [launcher EXCEPT ![s] = r] /\ launcher[s].pc = "write"
      BY <2>3 DEF Lock!OpenPidfile
    <3> QED
      BY <2>3, <3>1, <3>2 DEF Lock!OpenPidfile, Shape, Lock!Idle
  <2> QED
    BY <2>2, <2>3 DEF LauncherStep
<1>3. Shape'
  BY <1>1, <1>2 DEF Shape
<1>4. \A t \in Starters : (Busy(t)' => Busy(t)) /\ (Early(t)' => Early(t))
  BY <1>1, <1>2 DEF Busy, Early
<1>5. Turns'
  <2>1. \A t \in Starters : launcher[t] = Lock!Idle => launcher'[t] = Lock!Idle
    BY <1>2
  <2> QED
    BY <1>1, <1>4, <2>1 DEF Turns
<1>6. Sole'
  BY <1>1, <1>4 DEF Sole, Young, Lock!At
<1> QED
  BY <1>3, <1>5, <1>6

\* A watchdog is launched once, when nobody polls or is about to.
LEMMA SpawnKeeps ==
    ASSUME Shape, Turns, Sole, NEW s \in Starters, Lock!Spawn(s)
    PROVE  Shape' /\ Turns' /\ Sole'
<1>1. PICK p \in Pids :
         /\ Lock!MayGet(p)
         /\ table' = [table EXCEPT ![p] = Lock!Process("look")]
         /\ launcher' = [launcher EXCEPT ![s] = [pc |-> "write", child |-> p]]
  BY DEF Lock!Spawn
<1>2. UNCHANGED <<lock, pidfile, starter>> /\ launcher[s].pc = "spawn"
  BY DEF Lock!Spawn, Lock!shared
<1>3. /\ table'[p].pc = "look" /\ \A q \in Pids \ {p} : table'[q] = table[q]
      /\ launcher'[s].pc = "write" /\ \A t \in Starters \ {s} : launcher'[t] = launcher[t]
  BY <1>1 DEF Shape, Lock!Process
<1>4. Shape'
  BY <1>1, <1>2 DEF Shape, Lock!Process, Processes, Kinds
<1>5. launcher[s] # Lock!Idle /\ starter[s].pc \notin {"idle", "clear", "create"}
  BY <1>2 DEF Turns, Lock!Idle
<1>6. \A t \in Starters : Busy(t)' => Busy(t)
  BY <1>2, <1>3, <1>5 DEF Busy
<1>7. Turns'
  BY <1>2, <1>3, <1>5, <1>6 DEF Turns
<1>8. \A t \in Starters : ~Early(t)'
  <2>1. \A t \in Starters \ {s} : ~Early(t)
    <3>1. \A t \in Starters : Early(t) => Busy(t)
      BY IdlePc DEF Early, Busy, Lock!Ended
    <3>2. Busy(s)
      BY <1>5 DEF Busy
    <3> QED
      BY <3>1, <3>2 DEF Turns
  <2> QED
    BY <1>2, <1>3, <1>5, <2>1 DEF Early
<1>9. \A q \in Pids : ~Young(q) /\ ~Lock!At(q, "run")
  BY <1>2 DEF Sole, Early
<1>10. Sole'
  BY <1>3, <1>8, <1>9 DEF Sole, Young, Lock!At, Lock!Settling
<1> QED
  BY <1>4, <1>7, <1>10

\* The watchdog that settles, or one that ends, makes nobody poll.
LEMMA ProcessKeeps ==
    ASSUME Shape, Turns, Sole, NEW p \in Pids, ProcessStep(p)
    PROVE  Shape' /\ Turns' /\ Sole'
<1>1. UNCHANGED <<pidfile, starter, launcher>>
  BY DEF ProcessStep, Lock!ReadLock, Lock!Ask, Lock!OpenLock, Lock!Die,
         Lock!OtherPython, Lock!shared
<1>2. /\ table' \in [Pids -> Processes]
      /\ \A q \in Pids \ {p} : table'[q] = table[q]
      /\ table'[p].pc # "run"
      /\ table'[p].pc \in Lock!Settling => table[p].pc \in Lock!Settling
  <2>1. CASE Lock!ReadLock(p)
    <3> DEFINE stage == IF lock \in Pids \ {p} THEN "ask" ELSE "open"
               r == [table[p] EXCEPT !.pc = stage, !.held = lock]
    <3>0. table' = [table EXCEPT ![p].pc = stage, ![p].held = lock]
      BY <2>1 DEF Lock!ReadLock
    <3>1. r \in Processes /\ r.pc \in {"ask", "open"}
      <4>1. table[p] \in Processes /\ lock \in {NoFile, Empty} \cup Pids
        BY DEF Shape
      <4>2. stage \in Kinds /\ stage \in {"ask", "open"}
        BY DEF Kinds
      <4> HIDE DEF stage
      <4>3. r \in Processes /\ r.pc = stage
        BY <4>1, <4>2, Reads
      <4> QED
        BY <4>2, <4>3
    <3>2. table' = [table EXCEPT ![p] = r] /\ table[p].pc = "look"
      BY <2>1, <3>0 DEF Lock!ReadLock, Lock!At
    <3> QED
      BY <3>1, <3>2 DEF Shape, Lock!Settling
  <2>2. CASE Lock!Ask(p) \/ Lock!OpenLock(p) \/ Lock!Die(p)
    <3>1. \E stage \in {"gone", "open", "fill"} :
             Lock!Goto(p, stage) /\ (stage # "gone" => table[p].pc \in {"ask", "open"})
      BY <2>2 DEF Lock!Ask, Lock!OpenLock, Lock!Die, Lock!Leave, Lock!At
    <3> QED
      BY <3>1, Goes DEF Kinds, Lock!Settling
  <2>3. CASE Lock!OtherPython(p)
    BY <2>3 DEF Lock!OtherPython, Lock!Process, Processes, Shape, Kinds, Lock!Settling
  <2> QED
    BY <2>1, <2>2, <2>3 DEF ProcessStep
<1>3. lock' = lock \/ (lock' = Empty /\ Young(p))
  BY DEF ProcessStep, Lock!ReadLock, Lock!Ask, Lock!OpenLock, Lock!Die,
         Lock!OtherPython, Lock!shared, Young, Lock!Settling, Lock!At
<1>4. Shape'
  BY <1>1, <1>2, <1>3 DEF Shape
<1>5. Turns'
  BY <1>1 DEF Turns, Busy
<1>6. /\ \A q \in Pids : Young(q)' => Young(q)
      /\ \A q \in Pids : Lock!At(q, "run")' => Lock!At(q, "run")
  BY <1>2 DEF Young, Lock!At
<1>7. \A s \in Starters : Early(s)' <=> Early(s)
  BY <1>1 DEF Early
<1>8. \A q \in Pids : Lock!At(q, "run")' => lock' = q
  BY <1>3, <1>6 DEF Sole
<1>9. Sole'
  BY <1>6, <1>7, <1>8 DEF Sole
<1> QED
  BY <1>4, <1>5, <1>9

\* Who takes the lock was the only one about to.
LEMMA FillLockKeeps ==
    ASSUME Shape, Turns, Sole, NEW p \in Pids, Lock!FillLock(p)
    PROVE  Shape' /\ Turns' /\ Sole'
<1> DEFINE r == [table[p] EXCEPT !.pc = "run", !.ran = TRUE]
<1>1. /\ r \in Processes
      /\ r.pc = "run"
  BY Runs DEF Shape, Kinds
<1>2. table' = [table EXCEPT ![p] = r]
  BY DEF Lock!FillLock
<1>3. UNCHANGED <<pidfile, starter, launcher>> /\ lock' = p /\ Young(p)
  BY DEF Lock!FillLock, Young, Lock!Settling, Lock!At
<1>4. Shape'
  BY <1>1, <1>2, <1>3 DEF Shape
<1>5. Turns'
  BY <1>3 DEF Turns, Busy
<1>6. /\ \A q \in Pids : ~Young(q)'
      /\ \A q \in Pids : Lock!At(q, "run")' => q = p
  BY <1>1, <1>2, <1>3 DEF Sole, Young, Lock!At, Shape, Lock!Settling
<1>7. \A s \in Starters : ~Early(s)'
  BY <1>3 DEF Sole, Early
<1>8. Sole'
  BY <1>3, <1>6, <1>7 DEF Sole
<1> QED
  BY <1>4, <1>5, <1>8

-----------------------------------------------------------------------------
\* Two processes that both have the lock's name are one.
LEMMA OneHolder == Sole => Lock!SingleInstance
BY DEF Sole, Lock!SingleInstance, Lock!Running

\* There are never two watchdogs polling: the lock of watchdog.py works, with
\* its three separate steps and for process numbers that come back, as long as
\* nobody runs start_watchdog.ps1 while an earlier start is under way.
THEOREM OneWatchdog ==
    ASSUME NoFile \notin Pids
    PROVE  Lock!Spec => [](~Lock!Overlap => Lock!SingleInstance)
<1> DEFINE Inv == ~Lock!Overlap => Shape /\ Turns /\ Sole
<1>1. Lock!Init => Inv
  <2> SUFFICES ASSUME Lock!Init PROVE Inv
    OBVIOUS
  <2>1. \A s \in Starters : starter[s] = Lock!Idle /\ launcher[s] = Lock!Idle
    BY DEF Lock!Init
  <2>2. \A p \in Pids : table[p].pc = "free"
    BY DEF Lock!Init
  <2>3. Shape
    BY DEF Lock!Init, Shape, Lock!Idle, Processes, Kinds, Stages
  <2>4. Turns
    BY <2>1 DEF Turns, Busy, Lock!Idle
  <2>5. Sole
    BY <2>1, <2>2 DEF Sole, Early, Lock!Idle, Young, Lock!Settling, Lock!At
  <2> QED
    BY <2>3, <2>4, <2>5
<1>2. Inv /\ [Lock!Next]_(Lock!vars) => Inv'
  <2> SUFFICES ASSUME ~Lock!Overlap, Shape, Turns, Sole, [Lock!Next]_(Lock!vars) PROVE Shape' /\ Turns' /\ Sole'
    BY ModeStays
  <2>1. ASSUME NEW s \in Starters, Lock!Look(s) PROVE Shape' /\ Turns' /\ Sole'
    BY <2>1, LookKeeps
  <2>2. ASSUME NEW s \in Starters, Lock!Create(s) PROVE Shape' /\ Turns' /\ Sole'
    BY <2>2, CreateKeeps
  <2>3. ASSUME NEW s \in Starters, Lock!Clear(s) \/ Lock!WaitForPid(s) \/ Lock!WaitForLock(s) PROVE Shape' /\ Turns' /\ Sole'
    BY <2>3, StarterKeeps DEF StarterStep
  <2>4. ASSUME NEW s \in Starters, Lock!Spawn(s) PROVE Shape' /\ Turns' /\ Sole'
    BY <2>4, SpawnKeeps
  <2>5. ASSUME NEW s \in Starters,
               Lock!SpawnFails(s) \/ Lock!OpenPidfile(s) \/ Lock!FillPidfile(s) \/ Lock!LauncherKilled(s)
        PROVE  Shape' /\ Turns' /\ Sole'
    BY <2>5, LauncherKeeps DEF LauncherStep
  <2>6. ASSUME NEW p \in Pids, Lock!FillLock(p) PROVE Shape' /\ Turns' /\ Sole'
    BY <2>6, FillLockKeeps
  <2>7. ASSUME NEW p \in Pids,
               Lock!ReadLock(p) \/ Lock!Ask(p) \/ Lock!OpenLock(p) \/ Lock!Die(p) \/ Lock!OtherPython(p)
        PROVE  Shape' /\ Turns' /\ Sole'
    BY <2>7, ProcessKeeps DEF ProcessStep
  <2>8. CASE UNCHANGED Lock!vars
    <3>1. /\ Shape' <=> Shape
          /\ Turns' <=> Turns
          /\ Sole' <=> Sole
      BY <2>8 DEF Lock!vars, Lock!shared, Shape, Turns, Busy, Sole, Early, Young, Lock!At
    <3> QED
      BY <3>1
  <2> QED
    BY <2>1, <2>2, <2>3, <2>4, <2>5, <2>6, <2>7, <2>8 DEF Lock!Next
<1>3. Inv => (~Lock!Overlap => Lock!SingleInstance)
  BY OneHolder
<1> QED
  BY <1>1, <1>2, <1>3, PTL DEF Lock!Spec

-----------------------------------------------------------------------------
(* Covered and ReportTrue, where no process number is given out twice: who *)
(* once took the lock polls or is gone, and what a lock names took it.     *)

Trace ==
    /\ table \in [Pids -> Processes]
    /\ lock \in {NoFile, Empty} \cup Pids
    /\ \A p \in Pids : table[p].ran => table[p].pc \in {"run", "gone"}
    /\ lock \in Pids => table[lock].ran
    /\ \A p \in Pids : Lock!At(p, "ask") => table[p].held \in Pids /\ table[table[p].held].ran

\* No number is given out again, and none is the mark of a file's absence.
NumbersOnce == ~Lock!Reuse /\ NoFile \notin Pids /\ Empty \notin Pids

\* One process becomes another that has not run less.
LEMMA TraceBecomes ==
    ASSUME Trace, NEW p \in Pids, NEW r \in Processes, table' = [table EXCEPT ![p] = r],
           table[p].ran => r.ran, r.ran => r.pc \in {"run", "gone"},
           r.pc = "ask" => r.held \in Pids /\ table[r.held].ran,
           lock' \in {NoFile, Empty} \cup Pids,
           lock' \in Pids => lock' = lock \/ (lock' = p /\ r.ran)
    PROVE  Trace'
<1>1. table' \in [Pids -> Processes]
  BY DEF Trace
<1>2. table'[p] = r /\ \A q \in Pids \ {p} : table'[q] = table[q]
  BY DEF Trace
<1>3. \A q \in Pids : table[q].ran => table'[q].ran
  BY <1>2
<1> QED
  BY <1>1, <1>2, <1>3 DEF Trace, Lock!At

LEMMA TraceStep == NumbersOnce /\ Trace /\ [Lock!Next]_(Lock!vars) => Trace'
<1> SUFFICES ASSUME NumbersOnce, Trace, [Lock!Next]_(Lock!vars) PROVE Trace'
  OBVIOUS
<1> USE DEF NumbersOnce
<1>1. ASSUME NEW s \in Starters, Lock!Spawn(s) PROVE Trace'
  <2>1. PICK p \in Pids : Lock!MayGet(p) /\ table' = [table EXCEPT ![p] = Lock!Process("look")]
    BY <1>1 DEF Lock!Spawn
  <2>2. Lock!Process("look") \in Processes /\ Lock!Process("look").pc = "look"
    BY DEF Lock!Process, Processes, Kinds
  <2>3. ~table[p].ran
    BY <2>1 DEF Lock!MayGet, Trace
  <2>4. lock' = lock
    BY <1>1 DEF Lock!Spawn, Lock!shared
  <2>5. ~Lock!Process("look").ran
    BY DEF Lock!Process
  <2> HIDE DEF Lock!Process
  <2>6. lock' \in {NoFile, Empty} \cup Pids /\ (lock' \in Pids => lock' = lock)
    BY <2>4 DEF Trace
  <2> QED
    BY <2>1, <2>2, <2>3, <2>5, <2>6, TraceBecomes
<1>2. ASSUME NEW p \in Pids, Lock!ReadLock(p) PROVE Trace'
  <2> DEFINE r == [table[p] EXCEPT !.pc = IF lock \in Pids \ {p} THEN "ask" ELSE "open",
                                   !.held = lock]
  <2>1. table' = [table EXCEPT ![p] = r] /\ lock' = lock /\ table[p].pc = "look"
    BY <1>2 DEF Lock!ReadLock, Lock!shared, Lock!At
  <2>2. /\ r \in Processes /\ r.held = lock /\ r.ran = table[p].ran
        /\ r.pc = "ask" => lock \in Pids
    BY DEF Trace, Processes, Kinds
  <2>3. ~table[p].ran /\ (lock \in Pids => table[lock].ran)
        /\ lock' \in {NoFile, Empty} \cup Pids
    BY <2>1 DEF Trace
  <2> HIDE DEF r
  <2> QED
    BY <2>1, <2>2, <2>3, TraceBecomes
<1>3. ASSUME NEW p \in Pids, Lock!Ask(p) \/ Lock!OpenLock(p) \/ Lock!Die(p) PROVE Trace'
  <2>1. PICK stage \in {"gone", "open", "fill"} :
           /\ Lock!Goto(p, stage)
           /\ stage # "gone" => table[p].pc \in {"ask", "open"}
    BY <1>3 DEF Lock!Ask, Lock!OpenLock, Lock!Die, Lock!Leave, Lock!At
  <2> DEFINE r == [table[p] EXCEPT !.pc = stage]
  <2>2. r \in Processes /\ r.pc = stage /\ r.ran = table[p].ran
    BY DEF Trace, Processes, Kinds
  <2>3. table' = [table EXCEPT ![p] = r]
    BY <2>1 DEF Lock!Goto
  <2>4. lock' \in {NoFile, Empty} \cup Pids /\ (lock' \in Pids => lock' = lock)
    BY <1>3 DEF Lock!Ask, Lock!OpenLock, Lock!Die, Lock!shared, Trace
  <2>5. table[p].ran => stage = "gone"
    BY <2>1 DEF Trace
  <2> HIDE DEF r
  <2> QED
    BY <2>2, <2>3, <2>4, <2>5, TraceBecomes
<1>4. ASSUME NEW p \in Pids, Lock!FillLock(p) PROVE Trace'
  <2> DEFINE r == [table[p] EXCEPT !.pc = "run", !.ran = TRUE]
  <2>1. table' = [table EXCEPT ![p] = r] /\ lock' = p
    BY <1>4 DEF Lock!FillLock
  <2>2. r \in Processes /\ r.pc = "run" /\ r.ran = TRUE
    BY DEF Trace, Processes, Kinds
  <2> HIDE DEF r
  <2> QED
    BY <2>1, <2>2, TraceBecomes DEF Trace
<1>5. CASE UNCHANGED <<table, lock>>
  BY <1>5 DEF Trace, Lock!At
<1> QED
  BY <1>1, <1>2, <1>3, <1>4, <1>5
  DEF Lock!Next, Lock!Look, Lock!Clear, Lock!Create, Lock!WaitForPid,
      Lock!WaitForLock, Lock!SpawnFails, Lock!OpenPidfile,
      Lock!FillPidfile, Lock!LauncherKilled, Lock!OtherPython, Lock!vars, Lock!shared

LEMMA TraceInit == NumbersOnce /\ Lock!Init => Trace
BY DEF NumbersOnce, Lock!Init, Trace, Processes, Kinds, Lock!At

\* Only a look finds that a watchdog is running already.
Begun == starter \in [Starters -> [pc : Stages, child : {NoFile} \cup Pids]]

LEMMA StarterGoes ==
    ASSUME Begun, NEW s \in Starters, NEW stage \in Stages, Lock!Step(s, stage)
    PROVE  Begun' /\ starter'[s].pc = stage /\ \A t \in Starters \ {s} : starter'[t] = starter[t]
<1> DEFINE r == [starter[s] EXCEPT !.pc = stage]
<1>1. r \in [pc : Stages, child : {NoFile} \cup Pids] /\ r.pc = stage
  BY DEF Begun
<1>2. starter' = [starter EXCEPT ![s] = r]
  BY DEF Lock!Step
<1> QED
  BY <1>1, <1>2 DEF Begun

LEMMA BegunStep ==
    ASSUME Begun, [Lock!Next]_(Lock!vars)
    PROVE  /\ Begun'
           /\ \A s \in Starters :
                 /\ starter[s].pc # "already running"
                 /\ starter'[s].pc = "already running"
                 => Lock!Holder(lock)
<1>1. ASSUME NEW s \in Starters,
             Lock!Look(s) \/ Lock!Clear(s) \/ Lock!Create(s) \/ Lock!WaitForLock(s)
      PROVE  /\ Begun'
             /\ \A t \in Starters :
                   /\ starter[t].pc # "already running"
                   /\ starter'[t].pc = "already running"
                   => Lock!Holder(lock)
  <2>1. PICK stage \in Stages : Lock!Step(s, stage) /\ (stage = "already running" => Lock!Holder(lock))
    <3>1. \/ Lock!Step(s, "clear") \/ Lock!Step(s, "create") \/ Lock!Step(s, "wait for pid")
          \/ Lock!Step(s, "RUNNING") \/ Lock!Step(s, "FAILED")
          \/ Lock!Step(s, "already running") /\ Lock!Holder(lock)
      BY <1>1 DEF Lock!Look, Lock!Clear, Lock!Create, Lock!WaitForLock
    <3>2. /\ {"clear", "create", "wait for pid", "RUNNING", "FAILED"} \subseteq Stages
          /\ "already running" \in Stages
      BY DEF Stages, Lock!Ended
    <3> QED
      BY <3>1, <3>2
  <2> QED
    BY <2>1, StarterGoes
<1>2. ASSUME NEW s \in Starters, Lock!WaitForPid(s)
      PROVE  Begun' /\ \A t \in Starters : starter'[t].pc \in {starter[t].pc, "wait for lock"}
  <2>1. PICK child \in {NoFile} \cup Pids :
           starter' = [starter EXCEPT ![s] = [pc |-> "wait for lock", child |-> child]]
    BY <1>2 DEF Lock!WaitForPid
  <2> QED
    BY <2>1 DEF Begun, Stages
<1>3. CASE UNCHANGED starter
  BY <1>3 DEF Begun
<1> QED
  BY <1>1, <1>2, <1>3
  DEF Lock!Next, Lock!Spawn, Lock!SpawnFails, Lock!OpenPidfile, Lock!FillPidfile,
      Lock!LauncherKilled, Lock!ReadLock, Lock!Ask,
      Lock!OpenLock, Lock!FillLock, Lock!Die, Lock!OtherPython, Lock!vars, Lock!shared

\* Whenever start_watchdog.ps1 or a new watchdog.py stands back for another, a
\* watchdog is polling: for any number of starts, also at once, and kills.
THEOREM NobodyStandsBackForTheDead ==
    ASSUME NoFile \notin Pids, Empty \notin Pids
    PROVE  Lock!Spec => Lock!Covered
<1> DEFINE Inv == Begun /\ (NumbersOnce => Trace)
<1>1. ASSUME Inv, ~Lock!Reuse, [Lock!Next]_(Lock!vars), Lock!StandsBack PROVE Lock!Running # {}
  <2>0. Trace
    BY <1>1 DEF NumbersOnce
  <2>1. PICK p \in Pids : Lock!Alive(p) /\ table[p].ran
    <3>1. CASE \E s \in Starters :
                  starter[s].pc = "idle" /\ starter'[s].pc = "already running"
      <4>1. PICK s \in Starters :
                  starter[s].pc = "idle" /\ starter'[s].pc = "already running"
        BY <3>1
      <4>2. Lock!Holder(lock)
        BY <1>1, <4>1, BegunStep
      <4> QED
        BY <2>0, <4>2 DEF Lock!Holder, Trace
    <3>2. CASE \E q \in Pids : Lock!At(q, "ask") /\ Lock!Ask(q) /\ table'[q].pc = "gone"
      <4>1. PICK q \in Pids : Lock!At(q, "ask") /\ Lock!Ask(q) /\ table'[q].pc = "gone"
        BY <3>2
      <4>2. Lock!Holder(table[q].held)
        <5>1. CASE Lock!Goto(q, "open")
          BY <2>0, <4>1, <5>1 DEF Lock!Goto, Trace, Processes
        <5> QED
          BY <4>1, <5>1 DEF Lock!Ask
      <4> QED
        BY <2>0, <4>1, <4>2 DEF Lock!Holder, Trace
    <3> QED
      BY <1>1, <3>1, <3>2 DEF Lock!StandsBack
  <2>2. Lock!At(p, "run")
    BY <2>0, <2>1 DEF Trace, Lock!Alive, Lock!At
  <2> QED
    BY <2>2 DEF Lock!Running
<1>2. Lock!Init => Inv
  BY TraceInit DEF Lock!Init, Begun, Lock!Idle, Stages
<1>3. Inv /\ [Lock!Next]_(Lock!vars) => Inv'
  BY BegunStep, TraceStep, ModeStays DEF NumbersOnce
<1>4. Inv /\ [Lock!Next]_(Lock!vars) => (~Lock!Reuse /\ Lock!StandsBack => Lock!Running # {})
  BY <1>1
<1> QED
  BY <1>2, <1>3, <1>4, PTL DEF Lock!Spec, Lock!Covered

\* The number a start may come to read is of a process it has met.
Launchers == [pc : {"idle", "spawn", "write", "fill"}, child : {NoFile} \cup Pids]

Met ==
    /\ launcher \in [Starters -> Launchers]
    /\ met \in [Starters -> SUBSET Pids]
    /\ pidfile \in {NoFile, Empty} \cup Pids
    /\ \A s, t \in Starters :
          starter[s].pc # "idle" /\ launcher[t].pc \in {"write", "fill"} =>
              launcher[t].child \in met[s]
    /\ \A s \in Starters :
          /\ starter[s].pc \in {"create", "wait for pid"} /\ pidfile \in Pids =>
                pidfile \in met[s]
          /\ starter[s].pc \in {"wait for lock", "RUNNING"} /\ starter[s].child \in Pids =>
                starter[s].child \in met[s]
          /\ starter[s].pc = "RUNNING" =>
                starter[s].child \in Pids /\ table[starter[s].child].ran

\* Who once took the lock has taken it, and only starts forget whom they met.
LEMMA RanStays ==
    ASSUME NumbersOnce, Trace, [Lock!Next]_(Lock!vars)
    PROVE  \A p \in Pids : table[p].ran => table'[p].ran
<1> USE DEF NumbersOnce
<1> SUFFICES ASSUME NEW q \in Pids, table[q].ran PROVE table'[q].ran
  OBVIOUS
<1>1. ASSUME NEW s \in Starters, Lock!Spawn(s) PROVE table'[q].ran
  <2>1. PICK p \in Pids : Lock!MayGet(p) /\ table' = [table EXCEPT ![p] = Lock!Process("look")]
    BY <1>1 DEF Lock!Spawn
  <2>2. p # q
    BY <2>1 DEF Lock!MayGet, Trace
  <2> QED
    BY <2>1, <2>2 DEF Trace
<1>2. ASSUME NEW p \in Pids, Lock!ReadLock(p) \/ Lock!Ask(p) \/ Lock!OpenLock(p) \/ Lock!Die(p) \/ Lock!FillLock(p)
      PROVE  table'[q].ran
  <2>1. table[p] \in Processes /\ table[q] \in Processes
    BY DEF Trace
  <2>2. CASE p # q
    BY <1>2, <2>2 DEF Lock!ReadLock, Lock!Ask, Lock!OpenLock, Lock!Die,
           Lock!FillLock, Lock!Leave, Lock!Goto, Trace
  <2>3. CASE p = q
    BY <1>2, <2>1, <2>3
    DEF Lock!ReadLock, Lock!Ask, Lock!OpenLock, Lock!Die, Lock!FillLock, Lock!Leave,
        Lock!Goto, Trace, Processes
  <2> QED
    BY <2>2, <2>3
<1>3. CASE UNCHANGED table
  BY <1>3
<1> QED
  BY <1>1, <1>2, <1>3
  DEF Lock!Next, Lock!Look, Lock!Clear, Lock!Create, Lock!WaitForPid,
      Lock!WaitForLock, Lock!SpawnFails, Lock!OpenPidfile,
      Lock!FillPidfile, Lock!LauncherKilled, Lock!OtherPython, Lock!vars, Lock!shared

\* A launcher that goes from one step to another, and one that ends.
LEMMA LauncherGoes ==
    ASSUME NEW s \in Starters, launcher \in [Starters -> Launchers],
           NEW stage \in {"spawn", "fill"}, launcher' = [launcher EXCEPT ![s].pc = stage]
    PROVE  /\ launcher' \in [Starters -> Launchers]
           /\ launcher'[s].pc = stage /\ launcher'[s].child = launcher[s].child
           /\ \A t \in Starters \ {s} : launcher'[t] = launcher[t]
<1> DEFINE r == [launcher[s] EXCEPT !.pc = stage]
<1>1. r \in Launchers /\ r.pc = stage /\ r.child = launcher[s].child
  BY DEF Launchers
<1>2. launcher' = [launcher EXCEPT ![s] = r]
  OBVIOUS
<1> HIDE DEF r
<1> QED
  BY <1>1, <1>2

LEMMA IdleLauncher == Lock!Idle \in Launchers
BY DEF Lock!Idle, Launchers

LEMMA MetStep ==
    ASSUME NumbersOnce, ~Lock!Overlap, Trace, Begun, Met, [Lock!Next]_(Lock!vars)
    PROVE  Met'
<1> USE DEF NumbersOnce
<1>0. \A p \in Pids : table[p].ran => table'[p].ran
  BY RanStays
<1>1. ASSUME NEW s \in Starters, Lock!Look(s) PROVE Met'
  <2>1. PICK stage \in {"already running", "clear"} : Lock!Step(s, stage)
    BY <1>1 DEF Lock!Look
  <2>2. /\ starter'[s].pc = stage /\ \A t \in Starters \ {s} : starter'[t] = starter[t]
    BY <2>1, StarterGoes DEF Stages, Lock!Ended
  <2>3. \A t \in Starters : launcher[t] = Lock!Idle
    BY <1>1 DEF Lock!Look, Lock!Settled
  <2>4. \A t \in Starters : launcher[t].pc = "idle"
    BY <2>3, IdlePc
  <2>5. /\ UNCHANGED <<table, pidfile, launcher>>
        /\ met' = [met EXCEPT ![s] = {p \in Pids : Lock!Alive(p)}]
    BY <1>1 DEF Lock!Look, Lock!shared
  <2> QED
    BY <2>2, <2>4, <2>5 DEF Met
<1>2. ASSUME NEW s \in Starters, Lock!Clear(s) \/ Lock!Create(s) PROVE Met'
  <2>1. /\ starter[s].pc \in {"clear", "create"}
        /\ UNCHANGED <<table, met>>
        /\ \/ Lock!Step(s, "create") /\ pidfile' = NoFile /\ UNCHANGED launcher
           \/ /\ Lock!Step(s, "wait for pid") /\ starter[s].pc = "create" /\ UNCHANGED pidfile
              /\ launcher' \in {launcher, [launcher EXCEPT ![s].pc = "spawn"]}
    BY <1>2 DEF Lock!Clear, Lock!Create, Lock!shared
  <2>2. PICK stage \in {"create", "wait for pid"} :
           /\ starter'[s].pc = stage /\ \A t \in Starters \ {s} : starter'[t] = starter[t]
           /\ stage = "create" => pidfile' = NoFile
           /\ stage = "wait for pid" => pidfile' = pidfile /\ starter[s].pc = "create"
    BY <2>1, StarterGoes DEF Stages
  <2>3. /\ launcher' \in [Starters -> Launchers]
        /\ \A t \in Starters : launcher'[t].pc \in {"write", "fill"} =>
                                 launcher'[t] = launcher[t]
    <3>1. CASE launcher' = [launcher EXCEPT ![s].pc = "spawn"]
      BY <3>1, LauncherGoes DEF Met
    <3>2. CASE UNCHANGED launcher
      BY <3>2 DEF Met
    <3> QED
      BY <2>1, <3>1, <3>2
  <2>4. pidfile' \in {NoFile, pidfile}
    BY <2>2
  <2> QED
    BY <2>1, <2>2, <2>3, <2>4 DEF Met
<1>3. ASSUME NEW s \in Starters, Lock!WaitForPid(s) PROVE Met'
  <2>1. PICK child \in {NoFile} \cup ({pidfile} \cap Pids) :
           starter' = [starter EXCEPT ![s] = [pc |-> "wait for lock", child |-> child]]
    BY <1>3 DEF Lock!WaitForPid
  <2>2. starter[s].pc = "wait for pid" /\ UNCHANGED <<table, pidfile, launcher, met>>
    BY <1>3 DEF Lock!WaitForPid, Lock!shared
  <2>3. /\ starter'[s].pc = "wait for lock" /\ starter'[s].child = child
        /\ \A t \in Starters \ {s} : starter'[t] = starter[t]
    BY <2>1 DEF Begun
  <2>4. child \in Pids => child \in met[s]
    BY <2>1, <2>2 DEF Met
  <2> QED
    BY <2>2, <2>3, <2>4 DEF Met
<1>4. ASSUME NEW s \in Starters, Lock!WaitForLock(s) PROVE Met'
  <2>1. /\ starter[s].pc = "wait for lock" /\ UNCHANGED <<table, pidfile, launcher, met>>
        /\ \/ lock = starter[s].child /\ lock \in Pids /\ Lock!Step(s, "RUNNING")
           \/ Lock!Step(s, "FAILED")
    BY <1>4 DEF Lock!WaitForLock, Lock!shared
  <2>2. starter'[s].child = starter[s].child
    BY <2>1 DEF Lock!Step, Begun
  <2>3. PICK stage \in {"RUNNING", "FAILED"} :
           /\ starter'[s].pc = stage /\ \A t \in Starters \ {s} : starter'[t] = starter[t]
           /\ stage = "RUNNING" => lock = starter[s].child /\ lock \in Pids
    BY <2>1, StarterGoes DEF Stages, Lock!Ended
  <2>4. lock \in Pids => table[lock].ran
    BY DEF Trace
  <2> QED
    BY <2>1, <2>2, <2>3, <2>4 DEF Met
<1>5. ASSUME NEW s \in Starters, Lock!Spawn(s) PROVE Met'
  <2>1. PICK p \in Pids :
           /\ launcher' = [launcher EXCEPT ![s] = [pc |-> "write", child |-> p]]
           /\ met' = [t \in Starters |->
                         IF starter[t].pc = "idle" THEN {} ELSE met[t] \cup {p}]
    BY <1>5 DEF Lock!Spawn
  <2>2. UNCHANGED <<starter, pidfile>>
    BY <1>5 DEF Lock!Spawn, Lock!shared
  <2>3. /\ \A t \in Starters : starter[t].pc # "idle" => met[t] \cup {p} = met'[t]
        /\ met' \in [Starters -> SUBSET Pids]
    BY <2>1 DEF Met
  <2>4. /\ launcher' \in [Starters -> Launchers]
        /\ \A t \in Starters : launcher'[t] = launcher[t] \/ launcher'[t].child = p
    <3>1. [pc |-> "write", child |-> p] \in Launchers
      BY DEF Launchers
    <3> QED
      BY <2>1, <3>1 DEF Met
  <2> QED
    BY <1>0, <2>2, <2>3, <2>4 DEF Met
<1>6. ASSUME NEW s \in Starters,
             Lock!SpawnFails(s) \/ Lock!OpenPidfile(s) \/ Lock!FillPidfile(s) \/ Lock!LauncherKilled(s)
      PROVE  Met'
  <2>1. UNCHANGED <<table, starter, met>>
    BY <1>6 DEF Lock!SpawnFails, Lock!OpenPidfile, Lock!FillPidfile,
           Lock!LauncherKilled, Lock!shared
  <2>2. \/ launcher' = [launcher EXCEPT ![s] = Lock!Idle]
        \/ launcher[s].pc = "write" /\ launcher' = [launcher EXCEPT ![s].pc = "fill"]
    BY <1>6 DEF Lock!SpawnFails, Lock!OpenPidfile, Lock!FillPidfile, Lock!LauncherKilled
  <2>3. /\ launcher' \in [Starters -> Launchers]
        /\ \A t \in Starters : launcher'[t].pc \in {"write", "fill"} =>
              launcher[t].pc \in {"write", "fill"} /\ launcher'[t].child = launcher[t].child
    <3>1. CASE launcher' = [launcher EXCEPT ![s] = Lock!Idle]
      BY <3>1, IdlePc, IdleLauncher DEF Met
    <3>2. CASE launcher[s].pc = "write" /\ launcher' = [launcher EXCEPT ![s].pc = "fill"]
      BY <3>2, LauncherGoes DEF Met
    <3> QED
      BY <2>2, <3>1, <3>2
  <2>4. \/ pidfile' \in {pidfile, Empty, NoFile}
        \/ launcher[s].pc = "fill" /\ pidfile' = launcher[s].child
    BY <1>6 DEF Lock!SpawnFails, Lock!OpenPidfile, Lock!FillPidfile,
           Lock!LauncherKilled, Lock!shared
  <2>5. /\ pidfile' \in {NoFile, Empty} \cup Pids
        /\ \A t \in Starters : starter[t].pc \in {"create", "wait for pid"} /\ pidfile' \in Pids
                                => pidfile' \in met[t]
    <3>1. CASE pidfile' \in {pidfile, Empty, NoFile}
      BY <3>1 DEF Met
    <3>2. CASE launcher[s].pc = "fill" /\ pidfile' = launcher[s].child
      <4>1. launcher[s].child \in {NoFile} \cup Pids
        BY DEF Met, Launchers
      <4>2. \A t \in Starters : starter[t].pc # "idle" => launcher[s].child \in met[t]
        BY <3>2 DEF Met
      <4> QED
        BY <3>2, <4>1, <4>2
    <3> QED
      BY <2>4, <3>1, <3>2
  <2> QED
    BY <2>1, <2>3, <2>5 DEF Met
<1>7. CASE UNCHANGED <<starter, launcher, met, pidfile>>
  BY <1>0, <1>7 DEF Met
<1> QED
  BY <1>1, <1>2, <1>3, <1>4, <1>5, <1>6, <1>7
  DEF Lock!Next, Lock!ReadLock, Lock!Ask, Lock!OpenLock, Lock!FillLock, Lock!Die,
      Lock!OtherPython, Lock!vars, Lock!shared

\* RUNNING, printed by start_watchdog.ps1, is about a watchdog that was there
\* since this start began and took the lock: of starts one at a time, whatever
\* files the dead have left.
THEOREM RunningIsTrue ==
    ASSUME NoFile \notin Pids, Empty \notin Pids
    PROVE  Lock!Spec => [](~Lock!Overlap /\ ~Lock!Reuse => Lock!ReportTrue)
<1> DEFINE Inv == NumbersOnce /\ ~Lock!Overlap => Trace /\ Begun /\ Met
<1>1. Lock!Init => Inv
  <2> SUFFICES ASSUME Lock!Init, NumbersOnce PROVE Trace /\ Begun /\ Met
    OBVIOUS
  <2>1. Begun
    BY DEF Lock!Init, Begun, Lock!Idle, Stages
  <2>2. Met
    <3>1. \A s \in Starters : starter[s].pc = "idle" /\ launcher[s].pc = "idle"
      BY IdlePc DEF Lock!Init
    <3>2. launcher \in [Starters -> Launchers]
      BY IdleLauncher DEF Lock!Init
    <3>3. met \in [Starters -> SUBSET Pids] /\ pidfile = NoFile
      BY DEF Lock!Init
    <3> QED
      BY <3>1, <3>2, <3>3 DEF Met
  <2> QED
    BY <2>1, <2>2, TraceInit
<1>2. Inv /\ [Lock!Next]_(Lock!vars) => Inv'
  <2> SUFFICES ASSUME NumbersOnce, ~Lock!Overlap, Trace, Begun, Met, [Lock!Next]_(Lock!vars)
               PROVE  Trace' /\ Begun' /\ Met'
    BY ModeStays DEF NumbersOnce
  <2> QED
    BY TraceStep, BegunStep, MetStep
<1>3. Inv => (~Lock!Overlap /\ ~Lock!Reuse => Lock!ReportTrue)
  BY DEF Met, Lock!ReportTrue, NumbersOnce
<1> QED
  BY <1>1, <1>2, <1>3, PTL DEF Lock!Spec

-----------------------------------------------------------------------------
(* LockTrue, whatever may happen.                                          *)

Typed == Shape /\ error \in BOOLEAN /\ met \in [Starters -> SUBSET Pids]

\* Starts overlap or not, and numbers come back or not: no step is ill-typed.
LEMMA TypedStep == ASSUME Typed, [Lock!Next]_(Lock!vars) PROVE Typed'
<1>1. ASSUME NEW s \in Starters, Lock!Look(s) \/ Lock!Clear(s) \/ Lock!WaitForPid(s) \/ Lock!WaitForLock(s)
      PROVE  Typed'
  <2>1. starter' \in [Starters -> [pc : Stages, child : {NoFile} \cup Pids]]
    <3>1. CASE Lock!WaitForPid(s)
      <4>1. PICK child \in {NoFile} \cup Pids :
               starter' = [starter EXCEPT ![s] = [pc |-> "wait for lock", child |-> child]]
        BY <3>1 DEF Lock!WaitForPid
      <4>2. [pc |-> "wait for lock", child |-> child]
               \in [pc : Stages, child : {NoFile} \cup Pids]
        BY DEF Stages
      <4> QED
        BY <4>1, <4>2 DEF Typed, Shape
    <3>2. CASE Lock!Look(s) \/ Lock!Clear(s) \/ Lock!WaitForLock(s)
      <4>1. \/ Lock!Step(s, "clear") \/ Lock!Step(s, "create") \/ Lock!Step(s, "RUNNING")
            \/ Lock!Step(s, "FAILED") \/ Lock!Step(s, "already running")
        BY <3>2 DEF Lock!Look, Lock!Clear, Lock!WaitForLock
      <4> QED
        BY <4>1, Steps DEF Typed, Stages, Lock!Ended
    <3> QED
      BY <1>1, <3>1, <3>2
  <2>2. UNCHANGED <<table, lock, launcher>>
    BY <1>1 DEF Lock!Look, Lock!Clear, Lock!WaitForPid, Lock!WaitForLock, Lock!shared
  <2>3. pidfile' \in {NoFile, pidfile} /\ error' \in {FALSE, error}
    BY <1>1 DEF Lock!Look, Lock!Clear, Lock!WaitForPid, Lock!WaitForLock, Lock!shared
  <2>4. met' \in [Starters -> SUBSET Pids]
    BY <1>1 DEF Lock!Look, Lock!Clear, Lock!WaitForPid, Lock!WaitForLock, Typed
  <2> QED
    BY <2>1, <2>2, <2>3, <2>4 DEF Typed, Shape
<1>2. ASSUME NEW s \in Starters, Lock!Create(s) PROVE Typed'
  <2>1. starter' \in [Starters -> [pc : Stages, child : {NoFile} \cup Pids]]
    BY <1>2, Steps DEF Lock!Create, Typed, Stages
  <2>2. launcher' \in [Starters -> Launchers]
    BY <1>2, LauncherGoes DEF Lock!Create, Typed, Shape, Launchers
  <2> QED
    BY <1>2, <2>1, <2>2 DEF Lock!Create, Typed, Shape, Launchers, Lock!shared
<1>3. ASSUME NEW s \in Starters, Lock!Spawn(s) PROVE Typed'
  <2>1. PICK p \in Pids :
           /\ table' = [table EXCEPT ![p] = Lock!Process("look")]
           /\ launcher' = [launcher EXCEPT ![s] = [pc |-> "write", child |-> p]]
           /\ met' = [t \in Starters |->
                         IF starter[t].pc = "idle" THEN {} ELSE met[t] \cup {p}]
    BY <1>3 DEF Lock!Spawn
  <2>2. Lock!Process("look") \in Processes
    BY DEF Lock!Process, Processes, Kinds
  <2>3. met' \in [Starters -> SUBSET Pids]
    BY <2>1 DEF Typed
  <2> QED
    BY <1>3, <2>1, <2>2, <2>3 DEF Lock!Spawn, Typed, Shape, Lock!shared
<1>4. ASSUME NEW s \in Starters,
             Lock!SpawnFails(s) \/ Lock!OpenPidfile(s) \/ Lock!FillPidfile(s) \/ Lock!LauncherKilled(s)
      PROVE  Typed'
  <2>1. launcher' \in [Starters -> Launchers]
    BY <1>4, LauncherGoes, IdleLauncher
    DEF Lock!SpawnFails, Lock!OpenPidfile, Lock!FillPidfile, Lock!LauncherKilled,
        Typed, Shape, Launchers
  <2>2. pidfile' \in {NoFile, Empty} \cup Pids /\ error' \in BOOLEAN
    BY <1>4
    DEF Lock!SpawnFails, Lock!OpenPidfile, Lock!FillPidfile, Lock!LauncherKilled,
        Typed, Shape, Lock!shared
  <2>3. UNCHANGED <<table, lock, starter, met>>
    BY <1>4 DEF Lock!SpawnFails, Lock!OpenPidfile, Lock!FillPidfile,
           Lock!LauncherKilled, Lock!shared
  <2> QED
    BY <2>1, <2>2, <2>3 DEF Typed, Shape, Launchers
<1>5. ASSUME NEW p \in Pids, Lock!ReadLock(p) \/ Lock!FillLock(p) \/ Lock!OtherPython(p) PROVE Typed'
  <2>1. PICK r \in Processes : table' = [table EXCEPT ![p] = r]
    <3>1. CASE Lock!ReadLock(p)
      <4> DEFINE stage == IF lock \in Pids \ {p} THEN "ask" ELSE "open"
      <4>1. stage \in Kinds /\ lock \in {NoFile, Empty} \cup Pids /\ table[p] \in Processes
        BY DEF Kinds, Typed, Shape
      <4>2. table' = [table EXCEPT ![p] = [table[p] EXCEPT !.pc = stage, !.held = lock]]
        BY <3>1 DEF Lock!ReadLock
      <4> HIDE DEF stage
      <4> QED
        BY <4>1, <4>2, Reads
    <3>2. CASE Lock!FillLock(p)
      <4>1. table' = [table EXCEPT ![p] = [table[p] EXCEPT !.pc = "run", !.ran = TRUE]]
        BY <3>2 DEF Lock!FillLock
      <4>2. "run" \in Kinds /\ table[p] \in Processes
        BY DEF Kinds, Typed, Shape
      <4> QED
        BY <4>1, <4>2, Runs
    <3>3. CASE Lock!OtherPython(p)
      BY <3>3 DEF Lock!OtherPython, Lock!Process, Processes, Kinds
    <3> QED
      BY <1>5, <3>1, <3>2, <3>3
  <2>2. lock' \in {lock, p} /\ UNCHANGED <<pidfile, error, starter, launcher, met>>
    BY <1>5 DEF Lock!ReadLock, Lock!FillLock, Lock!OtherPython, Lock!shared
  <2> QED
    BY <2>1, <2>2 DEF Typed, Shape
<1>6. ASSUME NEW p \in Pids, Lock!Ask(p) \/ Lock!OpenLock(p) \/ Lock!Die(p) PROVE Typed'
  <2>1. Lock!Goto(p, "gone") \/ Lock!Goto(p, "open") \/ Lock!Goto(p, "fill")
    BY <1>6 DEF Lock!Ask, Lock!OpenLock, Lock!Die, Lock!Leave
  <2>2. table' \in [Pids -> Processes]
    BY <2>1, Goes DEF Typed, Kinds
  <2>3. lock' \in {lock, Empty} /\ UNCHANGED <<pidfile, error, starter, launcher, met>>
    BY <1>6 DEF Lock!Ask, Lock!OpenLock, Lock!Die, Lock!shared
  <2> QED
    BY <2>2, <2>3 DEF Typed, Shape
<1>7. CASE UNCHANGED Lock!vars
  BY <1>7 DEF Lock!vars, Lock!shared, Typed, Shape
<1> QED
  BY <1>1, <1>2, <1>3, <1>4, <1>5, <1>6, <1>7 DEF Lock!Next

\* start_watchdog.ps1 and watchdog.py keep their word: with starts one at a
\* time there is one watchdog, even if process numbers come back, and if they
\* do not, RUNNING names a watchdog that took the lock; the files are always
\* what a reader takes them for.
THEOREM LockSound ==
    ASSUME NoFile \notin Pids, Empty \notin Pids
    PROVE  Lock!Spec => []Lock!LockTrue
<1> DEFINE Inv == Typed /\ (NumbersOnce => Trace)
<1>1. Lock!Init => Inv
  <2> SUFFICES ASSUME Lock!Init PROVE Typed
    BY TraceInit
  <2>1. /\ table \in [Pids -> Processes]
        /\ launcher \in [Starters -> Launchers]
        /\ starter \in [Starters -> [pc : Stages, child : {NoFile} \cup Pids]]
    BY IdleLauncher DEF Lock!Init, Processes, Kinds, Lock!Idle, Stages
  <2> QED
    BY <2>1 DEF Lock!Init, Typed, Shape, Launchers
<1>2. Inv /\ [Lock!Next]_(Lock!vars) => Inv'
  BY TypedStep, TraceStep, ModeStays DEF NumbersOnce
<1>3. Inv => Lock!TypeOK
  BY DEF Typed, Shape, Trace, NumbersOnce, Lock!TypeOK
<1>4. (~Lock!Overlap => Lock!SingleInstance) /\ (~Lock!Overlap /\ ~Lock!Reuse => Lock!ReportTrue) /\ Lock!TypeOK
         => Lock!LockTrue
  BY DEF Lock!LockTrue
<1> QED
  BY <1>1, <1>2, <1>3, <1>4, OneWatchdog, RunningIsTrue, PTL DEF Lock!Spec

-----------------------------------------------------------------------------
(* All of them, of which one at a time moves.                              *)

\* To each program the steps of the others are none.
LEMMA Worlds == WorldsSpec => Spec /\ Console!Spec /\ Lock!Spec
<1>1. WorldsInit => Init /\ Console!Init /\ Lock!Init
  BY DEF WorldsInit
<1>2. [WorldsNext]_worldsVars
        => [Next]_vars /\ [Console!Next]_Console!vars /\ [Lock!Next]_Lock!vars
  <2>1. UNCHANGED consoleVars => UNCHANGED Console!vars
    BY DEF consoleVars, Console!vars
  <2>2. UNCHANGED lockVars => UNCHANGED Lock!vars
    BY DEF lockVars, Lock!vars, Lock!shared
  <2> QED
    BY <2>1, <2>2 DEF WorldsNext, worldsVars
<1> QED
  BY <1>1, <1>2, PTL DEF WorldsSpec, Spec, Console!Spec, Lock!Spec

\* So what the harvest promises it promises in Operations.
THEOREM HarvestKept ==
    ASSUME Absent # 20, TornShows, DocumentsShow, TablesAreThere, Cut
    PROVE  WorldsSpec => []HarvestTrue /\ ClaimBacked
BY Worlds, HarvestSound, ClaimsBacked, PTL

\* What verify_detached.py and the launchers promise.
THEOREM ConsolesKept == WorldsSpec => []ConsolesTrue
BY Worlds, ConsolesSound, PTL

\* And what start_watchdog.ps1 and watchdog.py promise: one watchdog, and a RUNNING
\* that is true, as long as starts do not overlap.
THEOREM LockKept ==
    ASSUME NoFile \notin Pids, Empty \notin Pids
    PROVE  WorldsSpec => []LockTrue
BY Worlds, LockSound, PTL DEF LockTrue

\* No start stands back for a watchdog that is not there, start_watchdog.ps1's
\* and watchdog.py's alike, while process numbers are given out once.
THEOREM CoveredKept ==
    ASSUME NoFile \notin Pids, Empty \notin Pids
    PROVE  WorldsSpec => NobodyUncovered
BY Worlds, NobodyStandsBackForTheDead, PTL DEF NobodyUncovered
=============================================================================
