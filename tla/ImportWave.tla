----------------------------- MODULE ImportWave -----------------------------
(***************************************************************************)
(* tools/import_wave.py: one wave becomes evidence/waves/<name>/ while the *)
(* campaign may still be writing to the source.  The driver (module        *)
(* CubeWave) and the checkers (module ProofCheck) appear as what they do   *)
(* to the files read here; the gate as its verdict on the files written.   *)
(***************************************************************************)
EXTENDS Wave

CONSTANTS
    Split,      \* the split of the wave, as gen chooses it
    Base,       \* the regenerated base instance, a Formula
    Truth,      \* Truth[cube]: 20 or 10, what a solver that finishes answers
    Modes,      \* command lines of the drivers: TRUE keeps proofs
    Overlap,    \* may a second driver solve a settled cube again?
    MaxLines,   \* bound on the lines of transcripts.jsonl
    MaxKills    \* bound on kills of the importer and of a checker

Cubes == CubeIds(Split)

ASSUME ImportAssumption ==
    /\ Base = Formula(Base.N, Base.k, Base.l, Base.encoder, Base.symmetryBreak)
    /\ Truth \in [Cubes -> {10, 20}]
    /\ Modes \subseteq BOOLEAN
    /\ Overlap \in BOOLEAN
    /\ MaxLines \in Nat /\ MaxKills \in Nat

VARIABLES
    manifest,   \* source/manifest.json
    verdicts,   \* source/verdicts/: the document of each cube, or Absent
    lines,      \* source/transcripts.jsonl, a sequence; Absent before a check
    appending,  \* is the last line still being written?
    read,       \* digests of the proofs drat-trim has verified
    imp,        \* the importer
    dest,       \* evidence/waves/<name>/
    kills

source == <<manifest, verdicts, lines, appending, read>>
importVars == <<source, imp, dest, kills>>

-----------------------------------------------------------------------------
(* The files.                                                              *)

ManifestOf(shape, construction, cubes) ==
    [shape |-> shape, N |-> Base.N, k |-> Base.k, l |-> Base.l,
     encoder |-> Base.encoder, symmetryBreak |-> Base.symmetryBreak,
     base |-> Base, split |-> Split, nCubes |-> 2 ^ Len(Split),
     construction |-> construction, cubes |-> cubes]

\* gen opens the manifest and fills it, over a cube file in another notation;
\* gen_seqcount_verified.py does the same again over the gate's notation.
BareManifest == ManifestOf(TRUE, "all sign patterns", {})
IcnfManifest == ManifestOf(TRUE, Construction, CubeSet(Split))
TornManifest == ManifestOf(FALSE, Construction, CubeSet(Split))
ManifestLife == <<Absent, ManifestOf(FALSE, "all sign patterns", {}), BareManifest,
                  TornManifest, IcnfManifest>>

\* Two runs of a solver on one cube may leave two proofs.
Digests == Cubes \X {1, 2}

Document(cube, rc, digest) ==
    [shape |-> TRUE, cube |-> cube, rc |-> rc,
     lits |-> CubeLiterals(Split, cube), digest |-> digest]

TranscriptLine(shape, cube, digest) ==
    [shape |-> shape, cube |-> cube, verified |-> TRUE, digest |-> digest]

Rows == [shape : BOOLEAN, cube : Cubes, verified : {TRUE}, digest : Digests]

\* What a file that is there holds is never taken for a file that is not.
ASSUME AbsentApart ==
    /\ Absent \notin {10, 20}
    /\ \A n \in 1 .. MaxLines : Absent \notin [1 .. n -> Rows]
    /\ Absent \notin [Cubes -> Rows]
    /\ Absent \notin [Cubes -> {Document(cube, 20, d) :
                                   cube \in Cubes, d \in Digests \cup {Absent}}]

Files(docs) == {cube \in Cubes : docs[cube] # Absent}

Off == [pc |-> "off", manifest |-> Absent, lines |-> Absent, names |-> {},
        docs |-> <<>>]
NoWave == [manifest |-> Absent, verdicts |-> Absent, transcripts |-> Absent]

ImportInit ==
    /\ manifest = Absent
    /\ verdicts = [cube \in Cubes |-> Absent]
    /\ lines = Absent
    /\ appending = FALSE
    /\ read = {}
    /\ imp = Off
    /\ dest = NoWave
    /\ kills = 0

-----------------------------------------------------------------------------
(* The campaign, still running beside the import.                          *)

WriteManifest ==
    /\ \E i \in 1 .. Len(ManifestLife) - 1 :
        /\ manifest = ManifestLife[i]
        /\ manifest' = ManifestLife[i + 1]
    /\ UNCHANGED <<verdicts, lines, appending, read, imp, dest, kills>>

\* A driver replaces a verdict: one that decides nothing, one without the
\* digest it wants, or, beside another driver, any.
Solve(cube, proof) ==
    /\ manifest \in {BareManifest, IcnfManifest}
    /\ verdicts[cube] # Absent =>
          \/ verdicts[cube].rc = Absent
          \/ proof /\ verdicts[cube].digest = Absent
          \/ Overlap
    /\ \E rc \in {Truth[cube], Absent} :
        \E digest \in IF proof /\ rc = 20 THEN {cube} \X {1, 2} ELSE {Absent} :
            verdicts' = [verdicts EXCEPT ![cube] = Document(cube, rc, digest)]
    /\ UNCHANGED <<manifest, lines, appending, read, imp, dest, kills>>

Written == IF lines = Absent THEN <<>> ELSE lines

\* Seeded bug: the buffered line counts as written.
BugBank(cube) ==
    /\ ~appending
    /\ Len(Written) < MaxLines
    /\ verdicts[cube] # Absent
    /\ verdicts[cube].digest # Absent
    /\ lines' = Append(Written, TranscriptLine(TRUE, cube, verdicts[cube].digest))
    /\ appending' = TRUE
    /\ read' = read \cup {verdicts[cube].digest}
    /\ UNCHANGED <<manifest, verdicts, imp, dest, kills>>

\* A checker banks a row for a proof it found good; the line is on its way.
Bank(cube) ==
    /\ ~appending
    /\ Len(Written) < MaxLines
    /\ verdicts[cube] # Absent
    /\ verdicts[cube].digest # Absent
    /\ lines' = Append(Written, TranscriptLine(FALSE, cube, verdicts[cube].digest))
    /\ appending' = TRUE
    /\ read' = read \cup {verdicts[cube].digest}
    /\ UNCHANGED <<manifest, verdicts, imp, dest, kills>>

LineEnds ==
    /\ appending
    /\ lines' = [lines EXCEPT ![Len(lines)].shape = TRUE]
    /\ appending' = FALSE
    /\ UNCHANGED <<manifest, verdicts, read, imp, dest, kills>>

KillChecker ==
    /\ appending
    /\ kills < MaxKills
    /\ appending' = FALSE
    /\ kills' = kills + 1
    /\ UNCHANGED <<manifest, verdicts, lines, read, imp, dest>>

-----------------------------------------------------------------------------
(* The importer reads.                                                     *)

Running == imp.pc \notin {"off", "refused", "done"}

Refuse == imp' = [Off EXCEPT !.pc = "refused"]

\* One step of main: go on to pc, or refuse the source.
Demand(condition, next) == IF condition THEN imp' = next ELSE Refuse

DestinationFree == dest = NoWave

\* Seeded bug: a destination that is taken is emptied instead of refused.
BugStart ==
    /\ imp.pc \in {"off", "refused", "done"}
    /\ imp' = [Off EXCEPT !.pc = "manifest"]
    /\ dest' = NoWave
    /\ UNCHANGED <<source, kills>>

Start ==
    /\ imp.pc \in {"off", "refused", "done"}
    /\ Demand(DestinationFree, [Off EXCEPT !.pc = "manifest"])
    /\ UNCHANGED <<source, dest, kills>>

LoadManifest ==
    /\ imp.pc = "manifest"
    /\ Demand(WellCut(manifest), [imp EXCEPT !.pc = "lines", !.manifest = manifest])
    /\ UNCHANGED <<source, dest, kills>>

\* The transcripts are read for shape ahead of the verdicts.
ReadTranscriptLines ==
    /\ imp.pc = "lines"
    /\ Demand(lines = Absent \/ OneLinePerCube(lines, imp.manifest.split),
              [imp EXCEPT !.pc = "names", !.lines = lines])
    /\ UNCHANGED <<source, dest, kills>>

\* load_verdicts lists the directory once, then opens one file after another.
ListVerdicts ==
    /\ imp.pc = "names"
    /\ imp' = [imp EXCEPT !.pc = "verdicts", !.names = Files(verdicts)]
    /\ UNCHANGED <<source, dest, kills>>

ReadVerdict(cube) ==
    /\ imp.pc = "verdicts"
    /\ cube \in imp.names
    /\ imp' = [imp EXCEPT
                 !.names = @ \ {cube},
                 !.docs = [c \in DOMAIN imp.docs \cup {cube} |->
                              IF c = cube THEN verdicts[cube] ELSE imp.docs[c]]]
    /\ UNCHANGED <<source, dest, kills>>

CheckComplete == EveryCubeUnsat(imp.docs, imp.manifest.split)

\* Seeded bug: a transcripts file that covers part of a wave is accepted.
BugNormaliseTranscripts ==
    imp.lines # Absent =>
        \A i \in DOMAIN imp.lines :
            imp.lines[i].digest = imp.docs[imp.lines[i].cube].digest

NormaliseTranscripts ==
    imp.lines # Absent =>
        EveryProofRead(imp.lines, imp.docs, imp.manifest.split)

CheckWave ==
    /\ imp.pc = "verdicts"
    /\ imp.names = {}
    /\ Demand(/\ OnePerCube(imp.docs, imp.manifest.split)
              /\ CheckComplete
              /\ NormaliseTranscripts,
              [imp EXCEPT !.pc = "reread"])
    /\ UNCHANGED <<source, dest, kills>>

\* The bytes to copy are read from the source a second time; a dry run ends
\* there and leaves nothing behind.
RereadManifest ==
    /\ imp.pc = "reread"
    /\ \/ imp' = [imp EXCEPT !.manifest = manifest, !.pc = "open manifest"]
       \/ imp' = Off
    /\ UNCHANGED <<source, dest, kills>>

-----------------------------------------------------------------------------
(* The importer writes: three files, each opened and then filled.          *)

\* What a file of one object per line may hold while it is being written.
CutShort(docs) ==
    {[cube \in S |-> docs[cube]] : S \in (SUBSET DOMAIN docs) \ {DOMAIN docs}}
        \cup {[docs EXCEPT ![cube].shape = FALSE] : cube \in DOMAIN docs}

\* One line per cube, sorted; sorting makes the order of the source moot.
Normalised ==
    [cube \in {imp.lines[i].cube : i \in DOMAIN imp.lines} |->
        TranscriptLine(TRUE, cube,
            (CHOOSE l \in {imp.lines[i] : i \in DOMAIN imp.lines} : l.cube = cube).digest)]

OpenManifest ==
    /\ imp.pc = "open manifest"
    /\ dest' = [dest EXCEPT !.manifest = TornManifest]
    /\ imp' = [imp EXCEPT !.pc = "fill manifest"]
    /\ UNCHANGED <<source, kills>>

FillManifest ==
    /\ imp.pc = "fill manifest"
    /\ dest' = [dest EXCEPT !.manifest = imp.manifest]
    /\ imp' = [imp EXCEPT !.pc = "open verdicts"]
    /\ UNCHANGED <<source, kills>>

OpenVerdicts ==
    /\ imp.pc = "open verdicts"
    /\ \E cut \in CutShort(imp.docs) : dest' = [dest EXCEPT !.verdicts = cut]
    /\ imp' = [imp EXCEPT !.pc = "fill verdicts"]
    /\ UNCHANGED <<source, kills>>

FillVerdicts ==
    /\ imp.pc = "fill verdicts"
    /\ dest' = [dest EXCEPT !.verdicts = imp.docs]
    /\ imp' = [imp EXCEPT !.pc = IF imp.lines = Absent THEN "done"
                                 ELSE "open transcripts"]
    /\ UNCHANGED <<source, kills>>

OpenTranscripts ==
    /\ imp.pc = "open transcripts"
    /\ \E cut \in CutShort(Normalised) : dest' = [dest EXCEPT !.transcripts = cut]
    /\ imp' = [imp EXCEPT !.pc = "fill transcripts"]
    /\ UNCHANGED <<source, kills>>

FillTranscripts ==
    /\ imp.pc = "fill transcripts"
    /\ dest' = [dest EXCEPT !.transcripts = Normalised]
    /\ imp' = [imp EXCEPT !.pc = "done"]
    /\ UNCHANGED <<source, kills>>

KillImporter ==
    /\ Running
    /\ kills < MaxKills
    /\ imp' = Off
    /\ kills' = kills + 1
    /\ UNCHANGED <<source, dest>>

-----------------------------------------------------------------------------
Campaign ==
    \/ WriteManifest
    \/ LineEnds
    \/ \E cube \in Cubes : Bank(cube) \/ \E proof \in Modes : Solve(cube, proof)

Import ==
    \/ Start \/ LoadManifest \/ ReadTranscriptLines \/ ListVerdicts
    \/ CheckWave \/ RereadManifest
    \/ OpenManifest \/ FillManifest \/ OpenVerdicts \/ FillVerdicts
    \/ OpenTranscripts \/ FillTranscripts
    \/ \E cube \in Cubes : ReadVerdict(cube)

ImportNext == Campaign \/ Import \/ KillImporter \/ KillChecker

ImportSpec == ImportInit /\ [][ImportNext]_importVars

-----------------------------------------------------------------------------
(* What the gate makes of the destination, at any moment.                  *)

\* verify_wave over a claim whose wave names no transcripts.
WaveStands ==
    /\ WellCut(dest.manifest)
    /\ BaseRegenerates(dest.manifest)
    /\ dest.verdicts # Absent
    /\ OnePerCube(dest.verdicts, dest.manifest.split)
    /\ EveryCubeUnsat(dest.verdicts, dest.manifest.split)

\* verify_wave over a claim whose wave names them.
ProofsStand ==
    /\ WaveStands
    /\ dest.transcripts # Absent
    /\ OneLinePerCube(dest.transcripts, dest.manifest.split)
    /\ EveryProofRead(dest.transcripts, dest.verdicts, dest.manifest.split)

Tier(withTranscripts) ==
    IF withTranscripts
    THEN IF ProofsStand THEN "wave-drat-verified" ELSE "none"
    ELSE IF WaveStands THEN "unsat-wave" ELSE "none"

\* The tier the importer's summary prints.
TierPrinted == IF imp.lines = Absent THEN "unsat-wave" ELSE "wave-drat-verified"

-----------------------------------------------------------------------------
(* Properties.                                                             *)

\* The state has the shape the programs give it; a line that is being
\* appended is the last one and is not readable yet.
ImportTypeOK ==
    /\ manifest \in {ManifestLife[i] : i \in DOMAIN ManifestLife}
    /\ \A cube \in Files(verdicts) :
        /\ verdicts[cube].cube = cube
        /\ verdicts[cube].digest \in Digests \cup {Absent}
    /\ appending => lines # Absent /\ ~lines[Len(lines)].shape
    /\ read \subseteq Digests
    /\ kills \in 0 .. MaxKills

\* Whatever is killed, and whatever the campaign writes meanwhile: the gate
\* never takes the destination for more than was done.  Accepted at all, every
\* cube is UNSAT; accepted with transcripts, drat-trim verified the very proof
\* each imported verdict names.
TierEarned ==
    /\ \A t \in BOOLEAN :
          Tier(t) # "none" => \A cube \in Cubes : Truth[cube] = 20
    /\ Tier(TRUE) # "none" =>
          \A cube \in Cubes : dest.verdicts[cube].digest \in read

\* "The declared evidence_level is the tier the gate will grant": an import
\* that ended leaves a wave the gate accepts at the tier the summary printed,
\* although the files were read one by one from a source that kept changing.
TierGranted ==
    imp.pc = "done" => Tier(imp.lines # Absent) = TierPrinted

\* Both at once: no more than was done is granted, and no less than was said.
ImportSound == ImportTypeOK /\ TierEarned /\ TierGranted

\* "No import can quietly overwrite evidence": once a wave the gate accepts is
\* there, no later run changes it, except to add the transcripts it lacked.
EvidenceStays ==
    [][Tier(FALSE) # "none" =>
          /\ dest'.manifest = dest.manifest
          /\ dest'.verdicts = dest.verdicts]_importVars
=============================================================================
