------------------------------- MODULE Harvest -------------------------------
(***************************************************************************)
(* scratch/harvest.py --apply: a preflight over both waves of a campaign,  *)
(* the import of each, the exact claim in claims/CLAIMS.json, and the      *)
(* gate.  The importer (module ImportWave) and the gate (module Gate) are  *)
(* one step each but for the files they write or find; the campaign may    *)
(* still be writing, and the harvest may be killed anywhere and run again. *)
(***************************************************************************)
EXTENDS Wave

CONSTANTS
    Waves,      \* the two waves, in the order of the table WAVES
    Pins,       \* for each, the manifest whose hashes the table holds
    Truths,     \* for each, what a solver may turn out to answer to its cubes
    Garbage,    \* a file that does not parse
    MaxKills

Main == Waves[1]
Confirm == Waves[2]
WaveSet == {Main, Confirm}
Cubes(w) == CubeIds(Pins[w].split)

ASSUME HarvestAssumption ==
    /\ Main # Confirm
    /\ \A answers \in Truths, w \in WaveSet : answers[w] \in [Cubes(w) -> {10, 20}]
    /\ MaxKills \in Nat

\* WAVES: one instance, from two encoders, each under its true hash.
ASSUME PinsAssumption ==
    /\ Pins[Main].encoder # Pins[Confirm].encoder
    /\ Pins[Main].N = Pins[Confirm].N
    /\ \A w \in WaveSet : BaseRegenerates(Pins[w]) /\ Pins[w].split \in Seq(Nat)

VARIABLES
    manifest,   \* scratch/<wave>/manifest.json: Absent, Garbage or the pinned one
    verdicts,   \* scratch/<wave>/verdicts/: document of each cube
    partial,    \* does scratch/<wave>/ hold transcripts of a part of the wave?
    truth,      \* what a solver answers to the cubes of each wave
    overlap,    \* does a second driver replace an answer by none?
    dest,       \* evidence/waves/<wave>/
    record,     \* claims/CLAIMS.json: the claims in it, or Garbage
    pc, wave,   \* where harvest.py is, and at which wave
    taken,      \* what the importer has read
    kills

given == <<partial, truth, overlap>>
sources == <<manifest, verdicts, given>>
vars == <<sources, dest, record, pc, wave, taken, kills>>

-----------------------------------------------------------------------------
(* The campaign.                                                           *)

Document(w, cube, lits, rc) ==
    [shape |-> TRUE, cube |-> cube, rc |-> rc, lits |-> lits, digest |-> Absent]

Solved(w, cube, rc) == Document(w, cube, CubeLiterals(Pins[w].split, cube), rc)

\* A verdict that an earlier cube file led to (module WaveSetup).
Stale(w, cube) == Document(w, cube, {}, 20)

NoWave == [manifest |-> Absent, verdicts |-> Absent]

\* What git holds before the harvest.
OldRecord == {"lower"}
NewClaim == "exact"

Init ==
    /\ manifest = [w \in WaveSet |-> Absent]
    /\ verdicts = [w \in WaveSet |-> [cube \in Cubes(w) |-> Absent]]
    /\ partial \in [WaveSet -> BOOLEAN]
    /\ truth \in Truths
    /\ overlap \in BOOLEAN
    /\ dest = [w \in WaveSet |-> NoWave]
    /\ record = OldRecord
    /\ pc = "idle"
    /\ wave = Main
    /\ taken = NoWave
    /\ kills = 0

WriteManifest(w) ==
    /\ manifest[w] # Pins[w]
    /\ manifest' = [manifest EXCEPT ![w] = IF @ = Absent THEN Garbage ELSE Pins[w]]
    /\ UNCHANGED <<verdicts, given, dest, record, pc, wave, taken, kills>>

\* A driver answers, times out, or left a file that a crash has torn.
Solve(w, cube) ==
    /\ manifest[w] = Pins[w]
    /\ \/ verdicts[w][cube] \in {Absent, Garbage}
       \/ verdicts[w][cube] = Solved(w, cube, Absent)
       \/ overlap
    /\ \E document \in {Solved(w, cube, truth[w][cube]), Solved(w, cube, Absent),
                        Stale(w, cube), Garbage} :
        verdicts' = [verdicts EXCEPT ![w][cube] = document]
    /\ UNCHANGED <<manifest, given, dest, record, pc, wave, taken, kills>>

-----------------------------------------------------------------------------
(* preflight.                                                              *)

Ended == pc \in {"idle", "exit 0", "exit 1", "gate 1", "refused", "raised", "killed"}

Goto(next) == pc' = next

Start ==
    /\ Ended
    /\ pc' = "preflight"
    /\ wave' = Main
    /\ UNCHANGED <<sources, dest, record, taken, kills>>

Count(w, rc) ==
    Cardinality({cube \in Cubes(w) :
        verdicts[w][cube] \notin {Absent, Garbage} /\ verdicts[w][cube].rc = rc})

\* Seeded bug: an unreadable or undecided cube is not missed.
BugFinishedAndClean(w) == manifest[w] = Pins[w] /\ Count(w, 10) = 0

\* Both hashes are the pinned ones, and as many 20s as the wave has cubes.
FinishedAndClean(w) ==
    /\ manifest[w] = Pins[w]
    /\ Count(w, 10) = 0
    /\ Count(w, 20) = Pins[w].nCubes

\* Both waves are looked at even if the first fails; a manifest that does not
\* parse ends the program.
Preflight ==
    /\ pc = "preflight"
    /\ Goto(CASE Garbage \in {manifest[w] : w \in WaveSet}      -> "raised"
              [] \A w \in WaveSet : FinishedAndClean(w)         -> "import"
              [] OTHER                                          -> "exit 1")
    /\ UNCHANGED <<sources, dest, record, wave, taken, kills>>

-----------------------------------------------------------------------------
(* The importer, once for each wave.                                       *)

\* What it demands of the source: transcripts, if any, must be complete.
Importable(w) ==
    /\ WellCut(manifest[w])
    /\ ~partial[w]
    /\ \A cube \in Cubes(w) : verdicts[w][cube] \notin {Absent, Garbage}
    /\ OnePerCube(verdicts[w], manifest[w].split)
    /\ EveryCubeUnsat(verdicts[w], manifest[w].split)

\* Seeded bug: the importer's return code is not looked at.
BugImport ==
    /\ pc = "import"
    /\ IF dest[wave] = NoWave /\ Importable(wave)
       THEN /\ taken' = [manifest |-> manifest[wave], verdicts |-> verdicts[wave]]
            /\ Goto("open")
            /\ UNCHANGED wave
       ELSE /\ Goto(IF wave = Main THEN "import" ELSE "record")
            /\ wave' = Confirm
            /\ UNCHANGED taken
    /\ UNCHANGED <<sources, dest, record, kills>>

\* It never writes where a wave, or part of one, is already.
Import ==
    /\ pc = "import"
    /\ IF dest[wave] = NoWave /\ Importable(wave)
       THEN /\ taken' = [manifest |-> manifest[wave], verdicts |-> verdicts[wave]]
            /\ Goto("open")
       ELSE /\ Goto("refused")
            /\ UNCHANGED taken
    /\ UNCHANGED <<sources, dest, record, wave, kills>>

\* Seeded bug: the wave goes where the other one belongs.
BugOpenDest ==
    /\ pc = "open"
    /\ dest' = [dest EXCEPT ![Main] = [taken EXCEPT !.verdicts = Absent]]
    /\ Goto("fill")
    /\ UNCHANGED <<sources, record, wave, taken, kills>>

OpenDest ==
    /\ pc = "open"
    /\ dest' = [dest EXCEPT ![wave] = [taken EXCEPT !.verdicts = Absent]]
    /\ Goto("fill")
    /\ UNCHANGED <<sources, record, wave, taken, kills>>

FillDest ==
    /\ pc = "fill"
    /\ dest' = [dest EXCEPT ![wave] = taken]
    /\ Goto(IF wave = Main THEN "import" ELSE "record")
    /\ wave' = Confirm
    /\ taken' = NoWave
    /\ UNCHANGED <<sources, record, kills>>

-----------------------------------------------------------------------------
(* The claim and the gate.                                                 *)

\* json.load of what may be torn; a claim that is there is not duplicated.
LoadRecord ==
    /\ pc = "record"
    /\ Goto(IF record = Garbage THEN "raised"
            ELSE IF NewClaim \in record THEN "gate" ELSE "open record")
    /\ UNCHANGED <<sources, dest, record, wave, taken, kills>>

OpenRecord ==
    /\ pc = "open record"
    /\ record' = Garbage
    /\ Goto("fill record")
    /\ UNCHANGED <<sources, dest, wave, taken, kills>>

\* Seeded bug: the record is dumped before the claim is appended.
BugFillRecord ==
    /\ pc = "fill record"
    /\ record' = OldRecord
    /\ Goto("gate")
    /\ UNCHANGED <<sources, dest, wave, taken, kills>>

FillRecord ==
    /\ pc = "fill record"
    /\ record' = OldRecord \cup {NewClaim}
    /\ Goto("gate")
    /\ UNCHANGED <<sources, dest, wave, taken, kills>>

\* verify_wave over one destination, W1 to W3.
Complete(w) ==
    /\ WellCut(dest[w].manifest)
    /\ BaseRegenerates(dest[w].manifest)
    /\ dest[w].verdicts # Absent
    /\ OnePerCube(dest[w].verdicts, dest[w].manifest.split)
    /\ EveryCubeUnsat(dest[w].verdicts, dest[w].manifest.split)

\* W6: a second complete wave, from a different encoder, about one instance.
Backed ==
    /\ \A w \in WaveSet : Complete(w)
    /\ dest[Main].manifest.encoder # dest[Confirm].manifest.encoder
    /\ dest[Main].manifest.N = dest[Confirm].manifest.N

GateAccepts == record # Garbage /\ (NewClaim \in record => Backed)

\* The claim stays in the record if the gate refuses it.
Gate ==
    /\ pc = "gate"
    /\ Goto(IF GateAccepts THEN "exit 0" ELSE "gate 1")
    /\ UNCHANGED <<sources, dest, record, wave, taken, kills>>

-----------------------------------------------------------------------------
(* Faults, and a person who clears up between two attempts.                *)

Kill ==
    /\ ~Ended
    /\ kills < MaxKills
    /\ kills' = kills + 1
    /\ Goto("killed")
    /\ taken' = NoWave
    /\ UNCHANGED <<sources, dest, record, wave>>

DeleteDest(w) ==
    /\ Ended
    /\ dest[w] # NoWave
    /\ dest' = [dest EXCEPT ![w] = NoWave]
    /\ Goto("idle")
    /\ UNCHANGED <<sources, record, wave, taken, kills>>

RestoreRecord ==
    /\ Ended
    /\ record = Garbage
    /\ record' = OldRecord
    /\ Goto("idle")
    /\ UNCHANGED <<sources, dest, wave, taken, kills>>

-----------------------------------------------------------------------------
Apply ==
    \/ Preflight \/ Import \/ OpenDest \/ FillDest
    \/ LoadRecord \/ OpenRecord \/ FillRecord \/ Gate

Campaign ==
    \E w \in WaveSet :
        WriteManifest(w) \/ \E cube \in Cubes(w) : Solve(w, cube)

Person == RestoreRecord \/ \E w \in WaveSet : DeleteDest(w)

Next == Campaign \/ Start \/ Apply \/ Kill \/ Person

Spec == Init /\ [][Next]_vars

-----------------------------------------------------------------------------
(* Properties.                                                             *)

\* The state has the shape the programs give it; only a kill leaves a torn
\* record behind.
TypeOK ==
    /\ \A w \in WaveSet :
        /\ manifest[w] \in {Absent, Garbage, Pins[w]}
        /\ dest[w] = NoWave \/ dest[w].manifest = Pins[w]
        /\ dest[w].verdicts # Absent => DOMAIN dest[w].verdicts = Cubes(w)
    /\ record \in {Garbage, OldRecord, OldRecord \cup {NewClaim}}
    /\ record = Garbage => pc = "fill record" \/ kills > 0
    /\ wave \in WaveSet
    /\ kills \in 0 .. MaxKills

\* apply writes the claim before it asks the gate.  It may: whenever the claim
\* enters the record, both waves are complete evidence from different
\* encoders, whatever the campaign did since the preflight, and whatever an
\* earlier attempt that was killed or refused had left behind.
ClaimBacked ==
    [][record' # record /\ record' # Garbage /\ NewClaim \in record' => Backed']_vars

\* Exit code 0 means the claim is on record, the gate stands behind it, and
\* every cube of both waves is unsatisfiable.
ExitZeroTrue ==
    pc = "exit 0" =>
        /\ NewClaim \in record
        /\ GateAccepts
        /\ \A w \in WaveSet : \A cube \in Cubes(w) : truth[w][cube] = 20

\* The preflight looks for the same as importer and gate, in code of its own.
\* After it has passed, the gate refuses nothing, and while no driver replaces
\* answers an import is refused only over a destination that is not empty,
\* transcripts of a part of the wave, or verdicts over other literals, of all
\* of which the preflight knows nothing.
PreflightSuffices ==
    /\ pc # "gate 1"
    /\ pc = "refused" /\ ~overlap =>
          \/ partial[wave] \/ dest[wave] # NoWave
          \/ \E cube \in Cubes(wave) : verdicts[wave][cube] = Stale(wave, cube)

\* Exit code 0 of harvest.py is earned, and the preflight leaves importer and
\* gate nothing to find but what it does not look at.
HarvestTrue == TypeOK /\ ExitZeroTrue /\ PreflightSuffices
=============================================================================
