--------------------------- MODULE ImportWave_proofs ---------------------------
(***************************************************************************)
(* Proofs about ImportWave, for every split, truth, set of command lines   *)
(* and bounds: what the importer leaves in evidence/waves is what the gate *)
(* takes it for, whatever the campaign writes meanwhile.                   *)
(***************************************************************************)
EXTENDS ImportWave, TLAPS

-----------------------------------------------------------------------------
(* The invariant.                                                          *)

\* What a driver may leave in the verdict file of a cube.
DocumentsOf(cube) ==
    {Document(cube, rc, d) : rc \in {Truth[cube], Absent}, d \in Digests \cup {Absent}}

\* Rows about proofs that drat-trim has read.
RowsRead(rows) ==
    /\ rows \in Seq(Rows)
    /\ Len(rows) \in 1 .. MaxLines
    /\ \A i \in DOMAIN rows : rows[i].digest \in read

SourceInv ==
    /\ DOMAIN verdicts = Cubes
    /\ \A cube \in Cubes : verdicts[cube] \in DocumentsOf(cube) \cup {Absent}
    /\ lines # Absent => RowsRead(lines)
    /\ appending \in BOOLEAN

\* The importer's steps in their order.
Ended == {"off", "refused", "done"}
Writing == {"open manifest", "fill manifest", "open verdicts", "fill verdicts",
            "open transcripts", "fill transcripts"}
Copying == {"reread"} \cup Writing
Loaded == {"lines", "names", "verdicts"} \cup Copying \cup {"done"}
Collected == {"verdicts"} \cup Copying \cup {"done"}
Checked == Copying \cup {"done"}

\* What the importer has read: one well cut manifest, shapely lines, documents
\* of cubes; once checked they agree, although the source has moved on.
ReaderInv ==
    /\ imp.pc \in Ended \cup {"manifest"} \cup Loaded
    /\ imp.pc \in Loaded =>
          /\ WellCut(IcnfManifest)
          /\ manifest = IcnfManifest
          /\ imp.manifest = IcnfManifest
    /\ imp.pc \in Loaded \ {"lines"} =>
          (imp.lines # Absent => RowsRead(imp.lines) /\ OneLinePerCube(imp.lines, Split))
    /\ imp.pc \in {"manifest", "lines", "names"} => imp.docs = <<>>
    /\ imp.pc \in Collected =>
          /\ imp.names \subseteq Cubes
          /\ \A cube \in imp.names : verdicts[cube] \in DocumentsOf(cube)
          /\ DOMAIN imp.docs \subseteq Cubes
          /\ imp.docs = [cube \in DOMAIN imp.docs |-> imp.docs[cube]]
          /\ \A cube \in DOMAIN imp.docs : imp.docs[cube] \in DocumentsOf(cube)
    /\ imp.pc \in Checked =>
          /\ EveryCubeUnsat(imp.docs, Split)
          /\ imp.lines # Absent => EveryProofRead(imp.lines, imp.docs, Split)

\* What it has written: nothing that is taken for evidence before the last byte
\* is there.
DestInv ==
    /\ dest.manifest \in {Absent, TornManifest, IcnfManifest}
    /\ imp.pc \in {"manifest", "lines", "names", "verdicts", "reread", "open manifest"} =>
          dest = NoWave
    /\ imp.pc \in {"fill manifest", "open verdicts"} => dest.verdicts = Absent
    /\ imp.pc \in Writing \ {"fill transcripts"} => dest.transcripts = Absent
    /\ imp.pc \in {"open verdicts", "fill verdicts", "open transcripts",
                   "fill transcripts", "done"} => dest.manifest = IcnfManifest
    /\ imp.pc = "fill verdicts" => ~WaveStands
    /\ imp.pc \in {"open transcripts", "fill transcripts", "done"} =>
          dest.verdicts = imp.docs
    /\ imp.pc \in {"open transcripts", "fill transcripts"} => imp.lines # Absent
    /\ imp.pc = "done" /\ imp.lines # Absent => dest.transcripts = Normalised

\* The two values keep their fields.
Fields ==
    /\ imp = [pc |-> imp.pc, manifest |-> imp.manifest, lines |-> imp.lines,
              names |-> imp.names, docs |-> imp.docs]
    /\ dest = [manifest |-> dest.manifest, verdicts |-> dest.verdicts,
               transcripts |-> dest.transcripts]

ImportInv == ImportTypeOK /\ SourceInv /\ Fields /\ ReaderInv /\ DestInv /\ TierEarned

-----------------------------------------------------------------------------
(* Manifests, verdicts and lines.                                          *)

\* Only the manifest that gen_seqcount_verified.py leaves is well cut, and
\* nothing writes it again.
LEMMA OneWellCut ==
    ASSUME NEW m \in {ManifestLife[i] : i \in DOMAIN ManifestLife}, WellCut(m)
    PROVE  /\ m = IcnfManifest
           /\ \A i \in 1 .. Len(ManifestLife) - 1 : ManifestLife[i] # m
<1>1. DOMAIN ManifestLife = 1 .. 5 /\ Len(ManifestLife) = 5
  <2>1. \A v, w, x, y, z : DOMAIN <<v, w, x, y, z>> = 1 .. 5 /\ Len(<<v, w, x, y, z>>) = 5
    OBVIOUS
  <2> QED
    BY <2>1, Zenon DEF ManifestLife
<1>2. /\ ~WellCut(ManifestLife[1])
      /\ ~WellCut(ManifestLife[2])
      /\ ~WellCut(ManifestLife[3])
      /\ ~WellCut(ManifestLife[4])
  BY DEF ManifestLife, WellCut, ManifestOf, BareManifest, TornManifest, Construction
<1>3. ManifestLife[5] = IcnfManifest
  BY DEF ManifestLife
<1> QED
  BY <1>1, <1>2, <1>3

LEMMA DocumentFields ==
    ASSUME NEW cube, NEW d \in DocumentsOf(cube)
    PROVE  /\ d = Document(cube, d.rc, d.digest)
           /\ d.shape = TRUE
           /\ d.cube = cube
           /\ d.rc \in {Truth[cube], Absent}
           /\ d.lits = CubeLiterals(Split, cube)
           /\ d.digest \in Digests \cup {Absent}
BY DEF DocumentsOf, Document

\* Documents filed by cube, of which every cube has one that says UNSAT: none
\* is missing, and the wave is UNSAT.
LEMMA CompleteDocs ==
    ASSUME NEW docs, DOMAIN docs \subseteq Cubes,
           \A cube \in DOMAIN docs : docs[cube] \in DocumentsOf(cube),
           EveryCubeUnsat(docs, Split)
    PROVE  /\ DOMAIN docs = Cubes
           /\ \A cube \in Cubes : docs[cube].rc = 20 /\ Truth[cube] = 20
<1>1. ASSUME NEW cube \in Cubes
      PROVE  cube \in DOMAIN docs /\ docs[cube].rc = 20
  <2>1. PICK i \in DOMAIN docs : docs[i].cube = cube /\ docs[i].rc = 20
    BY DEF EveryCubeUnsat, Cubes
  <2>2. i = cube
    BY <2>1, DocumentFields
  <2> QED
    BY <2>1, <2>2
<1>2. ASSUME NEW cube \in Cubes
      PROVE  Truth[cube] = 20
  <2>1. docs[cube].rc \in {Truth[cube], Absent}
    BY <1>1, DocumentFields
  <2> QED
    BY <1>1, <2>1, AbsentApart
<1> QED
  BY <1>1, <1>2

\* A verdicts file that is not whole is not taken for evidence.
LEMMA CutVerdicts ==
    ASSUME NEW docs, DOMAIN docs = Cubes,
           \A cube \in Cubes : docs[cube] \in DocumentsOf(cube),
           NEW cut \in CutShort(docs)
    PROVE  ~(OnePerCube(cut, Split) /\ EveryCubeUnsat(cut, Split))
<1>1. CASE \E S \in (SUBSET DOMAIN docs) \ {DOMAIN docs} : cut = [cube \in S |-> docs[cube]]
  <2>1. PICK S \in SUBSET Cubes : S # Cubes /\ cut = [cube \in S |-> docs[cube]]
    BY <1>1
  <2>2. PICK cube \in Cubes : cube \notin S
    BY <2>1
  <2>3. ASSUME NEW i \in DOMAIN cut PROVE cut[i].cube # cube
    <3>1. i \in S /\ cut[i] = docs[i] /\ i # cube
      BY <2>1, <2>2
    <3> QED
      BY <3>1, DocumentFields
  <2> QED
    BY <2>3 DEF EveryCubeUnsat, Cubes
<1>2. CASE \E cube \in DOMAIN docs : cut = [docs EXCEPT ![cube].shape = FALSE]
  <2>1. PICK cube \in Cubes : cut = [docs EXCEPT ![cube].shape = FALSE]
    BY <1>2
  <2>2. docs[cube] = Document(cube, docs[cube].rc, docs[cube].digest)
    BY DocumentFields
  <2>3. cube \in DOMAIN cut /\ cut[cube].shape = FALSE
    BY <2>1, <2>2 DEF Document
  <2> QED
    BY <2>3 DEF OnePerCube
<1> QED
  BY <1>1, <1>2 DEF CutShort

\* Lines filed by cube, about the digests of the documents.
LinesFor(docs) == [cube \in Cubes |-> TranscriptLine(TRUE, cube, docs[cube].digest)]

\* Nor is a transcripts file that is not whole.
LEMMA CutLines ==
    ASSUME NEW docs, NEW verdictDocs, NEW cut \in CutShort(LinesFor(docs))
    PROVE  ~(OneLinePerCube(cut, Split) /\ EveryProofRead(cut, verdictDocs, Split))
<1> DEFINE rows == LinesFor(docs)
<1>1. DOMAIN rows = Cubes /\ \A cube \in Cubes : rows[cube] = TranscriptLine(TRUE, cube, docs[cube].digest)
  BY DEF LinesFor
<1> HIDE DEF rows
<1>2. CASE \E S \in (SUBSET DOMAIN rows) \ {DOMAIN rows} : cut = [cube \in S |-> rows[cube]]
  <2>1. PICK S \in SUBSET Cubes : S # Cubes /\ cut = [cube \in S |-> rows[cube]]
    BY <1>1, <1>2
  <2>2. PICK cube \in Cubes : cube \notin S
    BY <2>1
  <2>3. \A i \in DOMAIN cut : cut[i].cube # cube
    BY <1>1, <2>1, <2>2 DEF TranscriptLine
  <2> QED
    BY <2>3 DEF EveryProofRead, Cubes
<1>3. CASE \E cube \in DOMAIN rows : cut = [rows EXCEPT ![cube].shape = FALSE]
  <2>1. PICK cube \in Cubes : cut = [rows EXCEPT ![cube].shape = FALSE]
    BY <1>1, <1>3
  <2>2. cube \in DOMAIN cut /\ cut[cube].shape = FALSE
    BY <1>1, <2>1 DEF TranscriptLine
  <2> QED
    BY <2>2 DEF OneLinePerCube
<1> QED
  BY <1>2, <1>3 DEF CutShort, rows

\* Sorted, one line a cube, the lines of the source become those of the
\* documents: agreement over every cube leaves no other.
LEMMA NormalisedLines ==
    ASSUME DOMAIN imp.docs = Cubes,
           \A cube \in Cubes : imp.docs[cube] \in DocumentsOf(cube),
           RowsRead(imp.lines), OneLinePerCube(imp.lines, Split),
           EveryProofRead(imp.lines, imp.docs, Split)
    PROVE  /\ Normalised = LinesFor(imp.docs)
           /\ \A cube \in Cubes : /\ imp.docs[cube].digest \in read \cap Digests
                                  /\ imp.docs[cube].digest # Absent
<1> DEFINE rows == imp.lines
           L == {rows[i] : i \in DOMAIN rows}
           line(cube) == CHOOSE l \in L : l.cube = cube
<1>1. ASSUME NEW cube \in Cubes
      PROVE  \E i \in DOMAIN rows : /\ rows[i].cube = cube
                                    /\ rows[i].digest = imp.docs[cube].digest
                                    /\ rows[i].digest # Absent
  <2>1. PICK i \in DOMAIN rows, j \in DOMAIN imp.docs :
           rows[i].cube = cube /\ imp.docs[j].cube = cube
           /\ rows[i].digest = imp.docs[j].digest /\ rows[i].digest # Absent
    BY DEF EveryProofRead, Cubes
  <2>2. j = cube
    BY <2>1, DocumentFields
  <2> QED
    BY <2>1, <2>2
<1>2. ASSUME NEW cube \in Cubes
      PROVE  line(cube).digest = imp.docs[cube].digest
  <2>1. PICK i \in DOMAIN rows : /\ rows[i].cube = cube
                                 /\ rows[i].digest = imp.docs[cube].digest
    BY <1>1
  <2>2. line(cube) \in L /\ line(cube).cube = cube
    BY <2>1
  <2>3. PICK h \in DOMAIN rows : line(cube) = rows[h]
    BY <2>2
  <2>4. h = i
    BY <2>1, <2>2, <2>3 DEF OneLinePerCube
  <2> QED
    BY <2>1, <2>3, <2>4
<1>3. {rows[i].cube : i \in DOMAIN rows} = Cubes
  BY <1>1 DEF OneLinePerCube, Cubes
<1>4. Normalised = [cube \in {rows[i].cube : i \in DOMAIN rows} |->
                       TranscriptLine(TRUE, cube, line(cube).digest)]
  BY DEF Normalised
<1>5. \A cube \in Cubes : /\ imp.docs[cube].digest \in read \cap Digests
                          /\ imp.docs[cube].digest # Absent
  <2>1. \A i \in DOMAIN rows : rows[i] \in Rows /\ rows[i].digest \in read
    BY DEF RowsRead
  <2> QED
    BY <1>1, <2>1 DEF Rows
<1> HIDE DEF line
<1> QED
  BY <1>2, <1>3, <1>4, <1>5 DEF LinesFor

-----------------------------------------------------------------------------
(* The campaign writes.                                                    *)

\* What the gate makes of the destination hangs on the destination alone.
LEMMA TierStays ==
    ASSUME UNCHANGED dest
    PROVE  (WaveStands' <=> WaveStands) /\ (ProofsStand' <=> ProofsStand)
BY DEF WaveStands, ProofsStand

LEMMA RowsStay ==
    ASSUME NEW rows, RowsRead(rows), read \subseteq read'
    PROVE  RowsRead(rows)'
BY DEF RowsRead

\* The source moves on: what the importer holds stays true, since digests are
\* only added to those read and a document only gives way to a document.
LEMMA SourceMoves ==
    ASSUME ImportInv, UNCHANGED <<imp, dest>>, ImportTypeOK', SourceInv',
           read \subseteq read',
           imp.pc \in Loaded => manifest' = manifest,
           \A cube \in Cubes :
              verdicts[cube] \in DocumentsOf(cube) => verdicts'[cube] \in DocumentsOf(cube)
    PROVE  ImportInv'
<1> USE DEF ImportInv
<1>1. ReaderInv'
  <2>1. imp.lines # Absent /\ RowsRead(imp.lines) => RowsRead(imp.lines)'
    BY RowsStay
  <2> QED
    BY <2>1 DEF ReaderInv
<1>2. DestInv'
  <2>1. (WaveStands' <=> WaveStands) /\ Normalised' = Normalised
    BY TierStays DEF Normalised
  <2> QED
    BY <2>1 DEF DestInv
<1>3. TierEarned'
  BY TierStays DEF TierEarned, Tier
<1> QED
  BY <1>1, <1>2, <1>3 DEF Fields

LEMMA AfterWriteManifest ==
    ASSUME ImportInv, WriteManifest PROVE ImportInv'
<1> USE DEF ImportInv, WriteManifest
<1>1. PICK i \in 1 .. Len(ManifestLife) - 1 :
         manifest = ManifestLife[i] /\ manifest' = ManifestLife[i + 1]
  OBVIOUS
<1>2. DOMAIN ManifestLife = 1 .. Len(ManifestLife) /\ Len(ManifestLife) \in Nat
  <2>1. \A v, w, x, y, z : DOMAIN <<v, w, x, y, z>> = 1 .. 5 /\ Len(<<v, w, x, y, z>>) = 5
    OBVIOUS
  <2>2. DOMAIN ManifestLife = 1 .. 5 /\ Len(ManifestLife) = 5
    BY <2>1, Zenon DEF ManifestLife
  <2> QED
    BY <2>2
<1>3. imp.pc \in Loaded => FALSE
  BY <1>1, OneWellCut DEF ReaderInv, ImportTypeOK
<1>4. ImportTypeOK' /\ SourceInv'
  BY <1>1, <1>2 DEF ImportTypeOK, SourceInv, RowsRead, Files
<1> QED
  BY <1>3, <1>4, SourceMoves

LEMMA AfterSolve ==
    ASSUME ImportInv, NEW cube \in Cubes, NEW proof \in Modes, Solve(cube, proof)
    PROVE  ImportInv'
<1> USE DEF ImportInv
<1>1. PICK rc \in {Truth[cube], Absent} :
         \E digest \in IF proof /\ rc = 20 THEN {cube} \X {1, 2} ELSE {Absent} :
             verdicts' = [verdicts EXCEPT ![cube] = Document(cube, rc, digest)]
  BY DEF Solve
<1>2. PICK d \in DocumentsOf(cube) : verdicts' = [verdicts EXCEPT ![cube] = d]
  <2>1. PICK digest \in IF proof /\ rc = 20 THEN {cube} \X {1, 2} ELSE {Absent} :
           verdicts' = [verdicts EXCEPT ![cube] = Document(cube, rc, digest)]
    BY <1>1
  <2>2. digest \in Digests \cup {Absent}
    BY <2>1 DEF Digests
  <2>3. Document(cube, rc, digest) \in DocumentsOf(cube)
    BY <2>2 DEF DocumentsOf
  <2> QED
    BY <2>1, <2>3
<1>3. UNCHANGED <<manifest, lines, appending, read, imp, dest, kills>>
  BY DEF Solve
<1>4. SourceInv'
  <2>1. lines # Absent => RowsRead(lines)'
    BY <1>3, RowsStay DEF SourceInv
  <2>2. /\ DOMAIN verdicts' = Cubes
        /\ \A c \in Cubes : verdicts'[c] \in DocumentsOf(c) \cup {Absent}
    BY <1>2 DEF SourceInv
  <2> QED
    BY <1>3, <2>1, <2>2 DEF SourceInv
<1>5. ImportTypeOK'
  <2>1. \A c \in Cubes : verdicts'[c] # Absent => verdicts'[c] \in DocumentsOf(c)
    BY <1>4 DEF SourceInv
  <2>2. \A c \in Files(verdicts)' :
           verdicts'[c].cube = c /\ verdicts'[c].digest \in Digests \cup {Absent}
    BY <2>1, DocumentFields DEF Files
  <2> QED
    BY <1>3, <2>2 DEF ImportTypeOK
<1>6. \A c \in Cubes :
         verdicts[c] \in DocumentsOf(c) => verdicts'[c] \in DocumentsOf(c)
  BY <1>2 DEF SourceInv
<1> QED
  BY <1>3, <1>4, <1>5, <1>6, SourceMoves

\* The lines are rows once more, with the proofs they are about among those
\* read; the rest of the source stays.
LEMMA LinesMove ==
    ASSUME ImportInv, UNCHANGED <<manifest, verdicts, imp, dest>>,
           read \subseteq read', read' \subseteq Digests, kills' \in 0 .. MaxKills,
           appending' \in BOOLEAN,
           NEW rows, lines' = rows, rows # Absent => RowsRead(rows)',
           appending' => rows # Absent /\ ~rows[Len(rows)].shape
    PROVE  ImportInv'
<1> USE DEF ImportInv
<1>1. SourceInv'
  BY DEF SourceInv
<1>2. ImportTypeOK'
  BY DEF ImportTypeOK, Files
<1> QED
  BY <1>1, <1>2, SourceMoves

\* A row goes to the file after drat-trim has read the proof it is about.
LEMMA AfterBank ==
    ASSUME ImportInv, NEW cube \in Cubes, Bank(cube) PROVE ImportInv'
<1> DEFINE digest == verdicts[cube].digest
           row == TranscriptLine(FALSE, cube, digest)
           new == Append(Written, row)
<1>1. /\ lines' = new /\ read' = read \cup {digest} /\ appending' = TRUE
      /\ Len(Written) < MaxLines /\ digest # Absent /\ verdicts[cube] # Absent
      /\ UNCHANGED <<manifest, verdicts, imp, dest, kills>>
  BY DEF Bank
<1>2. digest \in Digests
  BY <1>1, DocumentFields DEF ImportInv, SourceInv
<1>3. row \in Rows /\ row.digest = digest /\ row.shape = FALSE
  BY <1>2 DEF Rows, TranscriptLine
<1>4. /\ Written \in Seq(Rows) /\ Len(Written) \in Nat
      /\ \A i \in 1 .. Len(Written) : Written[i].digest \in read
  BY DEF ImportInv, Written, SourceInv, RowsRead
<1> HIDE DEF row
<1>5. /\ new \in Seq(Rows) /\ Len(new) = Len(Written) + 1
      /\ new[Len(new)] = row
      /\ \A i \in 1 .. Len(Written) : new[i] = Written[i]
  BY <1>3, <1>4
<1> HIDE DEF new, digest
<1>6. DOMAIN new = 1 .. Len(new) /\ new \in [1 .. Len(new) -> Rows]
  BY <1>5
<1>7. Len(new) \in 1 .. MaxLines
  BY <1>1, <1>4, <1>5, ImportAssumption
<1>8. new # Absent
  BY <1>6, <1>7, AbsentApart
<1>. PICK rows : rows = new
  OBVIOUS
<1>9. RowsRead(rows)'
  <2>1. ASSUME NEW i \in DOMAIN rows PROVE rows[i].digest \in read'
    <3>1. i \in 1 .. Len(Written) \/ i = Len(new)
      BY <1>4, <1>5, <1>6
    <3>2. CASE i \in 1 .. Len(Written)
      BY <1>1, <1>4, <1>5, <3>2
    <3>3. CASE i = Len(new)
      BY <1>1, <1>3, <1>5, <3>3
    <3> QED
      BY <3>1, <3>2, <3>3
  <2> QED
    BY <1>1, <1>5, <1>7, <2>1 DEF RowsRead
<1>10. read' \subseteq Digests /\ kills' \in 0 .. MaxKills
  BY <1>1, <1>2 DEF ImportInv, ImportTypeOK
<1> QED
  BY <1>1, <1>3, <1>5, <1>8, <1>9, <1>10, LinesMove

LEMMA AfterLineEnds ==
    ASSUME ImportInv, LineEnds PROVE ImportInv'
<1>1. lines # Absent /\ RowsRead(lines)
  BY DEF ImportInv, LineEnds, ImportTypeOK, SourceInv
<1>2. Len(lines) \in DOMAIN lines /\ Len(lines) \in 1 .. MaxLines /\ lines \in Seq(Rows)
  BY <1>1 DEF RowsRead
<1> DEFINE last == lines[Len(lines)]
           row == [last EXCEPT !.shape = TRUE]
           new == [lines EXCEPT ![Len(lines)] = row]
<1>3. row \in Rows /\ row.digest = last.digest
  <2>1. last \in Rows
    BY <1>2
  <2> HIDE DEF last
  <2> QED
    BY <2>1 DEF Rows
<1>4. /\ lines' = new /\ appending' = FALSE
      /\ UNCHANGED <<manifest, verdicts, read, imp, dest, kills>>
  BY DEF LineEnds
<1> HIDE DEF row
<1>5. /\ new \in Seq(Rows) /\ Len(new) = Len(lines) /\ DOMAIN new = DOMAIN lines
      /\ \A i \in DOMAIN lines : new[i].digest = lines[i].digest
  BY <1>2, <1>3
<1> HIDE DEF new
<1>. PICK rows : rows = new
  OBVIOUS
<1>6. RowsRead(rows)'
  BY <1>1, <1>2, <1>4, <1>5 DEF RowsRead
<1>7. read' \subseteq Digests /\ kills' \in 0 .. MaxKills
  BY <1>4 DEF ImportInv, ImportTypeOK
<1> QED
  BY <1>4, <1>6, <1>7, LinesMove

LEMMA AfterKillChecker ==
    ASSUME ImportInv, KillChecker PROVE ImportInv'
<1>1. /\ appending' = FALSE /\ kills' = kills + 1 /\ kills < MaxKills
      /\ UNCHANGED <<manifest, verdicts, lines, read, imp, dest>>
  BY DEF KillChecker
<1>2. lines # Absent => RowsRead(lines)'
  BY <1>1, RowsStay DEF ImportInv, SourceInv
<1>3. read' \subseteq Digests /\ kills' \in 0 .. MaxKills
  BY <1>1, ImportAssumption DEF ImportInv, ImportTypeOK
<1> QED
  BY <1>1, <1>2, <1>3, LinesMove

-----------------------------------------------------------------------------
(* The importer reads.                                                     *)

\* The source is as it was, and the gate finds what it found.
LEMMA ReaderMoves ==
    ASSUME ImportInv, UNCHANGED <<source, dest, kills>>, ReaderInv', DestInv',
           imp' = [pc |-> imp'.pc, manifest |-> imp'.manifest, lines |-> imp'.lines,
                   names |-> imp'.names, docs |-> imp'.docs]
    PROVE  ImportInv'
<1> USE DEF ImportInv, source
<1>1. SourceInv'
  <2>1. lines # Absent => RowsRead(lines)'
    BY RowsStay DEF SourceInv
  <2> QED
    BY <2>1 DEF SourceInv
<1>2. ImportTypeOK'
  BY DEF ImportTypeOK, Files
<1>3. TierEarned'
  BY TierStays DEF TierEarned, Tier
<1> QED
  BY <1>1, <1>2, <1>3 DEF Fields

LEMMA RowsKept ==
    ASSUME UNCHANGED source, NEW rows, RowsRead(rows)
    PROVE  RowsRead(rows)'
BY RowsStay DEF source

\* Off and refused, it holds nothing.
LEMMA AfterStop ==
    ASSUME ImportInv, UNCHANGED <<source, dest, kills>>,
           NEW pc \in {"off", "refused"}, imp' = [Off EXCEPT !.pc = pc]
    PROVE  ImportInv'
<1>1. /\ imp' = [pc |-> pc, manifest |-> Absent, lines |-> Absent, names |-> {},
                 docs |-> <<>>]
      /\ imp'.pc = pc
  BY DEF Off
<1>2. ReaderInv'
  BY <1>1 DEF ReaderInv, Ended, Loaded, Collected, Checked, Copying, Writing
<1>3. DestInv'
  BY <1>1 DEF ImportInv, DestInv, Writing
<1> QED
  BY <1>1, <1>2, <1>3, ReaderMoves

LEMMA OffIsOff == [Off EXCEPT !.pc = "off"] = Off
<1>1. /\ DOMAIN Off = {"pc", "manifest", "lines", "names", "docs"}
      /\ Off.pc = "off" /\ Off = [f \in DOMAIN Off |-> Off[f]]
  BY DEF Off
<1> QED
  BY <1>1

LEMMA AfterStart ==
    ASSUME ImportInv, Start PROVE ImportInv'
<1>1. CASE ~DestinationFree
  BY <1>1, AfterStop DEF Start, Demand, Refuse
<1>2. CASE DestinationFree
  <2>1. /\ imp' = [pc |-> "manifest", manifest |-> Absent, lines |-> Absent, names |-> {},
                   docs |-> <<>>]
        /\ UNCHANGED <<source, dest, kills>>
    BY <1>2 DEF Start, Demand, Off
  <2>2. ReaderInv'
    BY <2>1 DEF ReaderInv, Ended, Loaded, Collected, Checked, Copying, Writing
  <2>3. DestInv'
    BY <1>2, <2>1 DEF ImportInv, DestInv, Writing, DestinationFree, NoWave
  <2> QED
    BY <2>1, <2>2, <2>3, ReaderMoves
<1> QED
  BY <1>1, <1>2

LEMMA AfterLoadManifest ==
    ASSUME ImportInv, LoadManifest PROVE ImportInv'
<1>1. CASE ~WellCut(manifest)
  BY <1>1, AfterStop DEF LoadManifest, Demand, Refuse
<1>2. CASE WellCut(manifest)
  <2>1. manifest = IcnfManifest
    BY <1>2, OneWellCut DEF ImportInv, ImportTypeOK
  <2>2. /\ imp' = [pc |-> "lines", manifest |-> manifest, lines |-> imp.lines,
                   names |-> imp.names, docs |-> imp.docs]
        /\ imp.pc = "manifest" /\ UNCHANGED <<source, dest, kills>>
    BY <1>2 DEF LoadManifest, Demand, ImportInv, Fields
  <2>3. manifest' = manifest
    BY <2>2 DEF source
  <2>4. WellCut(IcnfManifest)
    BY <1>2, <2>1
  <2>5. ReaderInv'
    BY <2>1, <2>2, <2>3, <2>4
    DEF ImportInv, ReaderInv, Ended, Loaded, Collected, Checked, Copying, Writing,
        IcnfManifest
  <2>6. DestInv'
    BY <2>2 DEF ImportInv, DestInv, Writing
  <2> QED
    BY <2>2, <2>5, <2>6, ReaderMoves
<1> QED
  BY <1>1, <1>2

LEMMA AfterReadTranscriptLines ==
    ASSUME ImportInv, ReadTranscriptLines PROVE ImportInv'
<1> DEFINE fits == lines = Absent \/ OneLinePerCube(lines, imp.manifest.split)
<1>1. CASE ~fits
  BY <1>1, AfterStop DEF ReadTranscriptLines, Demand, Refuse
<1>2. CASE fits
  <2>1. /\ imp' = [pc |-> "names", manifest |-> imp.manifest, lines |-> lines,
                   names |-> imp.names, docs |-> imp.docs]
        /\ imp.pc = "lines" /\ UNCHANGED <<source, dest, kills>>
    BY <1>2 DEF ReadTranscriptLines, Demand, ImportInv, Fields
  <2>2. imp.manifest.split = Split
    BY <2>1 DEF ImportInv, ReaderInv, Loaded, IcnfManifest, ManifestOf
  <2>3. lines # Absent => RowsRead(lines)' /\ OneLinePerCube(lines, Split)
    BY <1>2, <2>1, <2>2, RowsKept DEF ImportInv, SourceInv, source
  <2>4. manifest' = manifest /\ lines' = lines
    BY <2>1 DEF source
  <2>5. ReaderInv'
    BY <2>1, <2>3, <2>4
    DEF ImportInv, ReaderInv, Ended, Loaded, Collected, Checked, Copying, Writing
  <2>6. DestInv'
    BY <2>1 DEF ImportInv, DestInv, Writing
  <2> QED
    BY <2>1, <2>5, <2>6, ReaderMoves
<1> QED
  BY <1>1, <1>2

LEMMA AfterListVerdicts ==
    ASSUME ImportInv, ListVerdicts PROVE ImportInv'
<1>1. /\ imp' = [pc |-> "verdicts", manifest |-> imp.manifest, lines |-> imp.lines,
                 names |-> Files(verdicts), docs |-> imp.docs]
      /\ imp.pc = "names" /\ UNCHANGED <<source, dest, kills>>
  BY DEF ListVerdicts, ImportInv, Fields
<1>2. manifest' = manifest /\ verdicts' = verdicts /\ imp.docs = <<>>
  BY <1>1 DEF source, ImportInv, ReaderInv
<1>3. imp.lines # Absent => RowsRead(imp.lines)' /\ OneLinePerCube(imp.lines, Split)
  BY <1>1, RowsKept DEF ImportInv, ReaderInv, Loaded
<1>4. \A cube \in Files(verdicts) : cube \in Cubes /\ verdicts[cube] \in DocumentsOf(cube)
  BY DEF ImportInv, SourceInv, Files
<1>5. DOMAIN <<>> = {} /\ <<>> = [cube \in {} |-> <<>>[cube]]
  OBVIOUS
<1>6. ReaderInv'
  BY <1>1, <1>2, <1>3, <1>4, <1>5
  DEF ImportInv, ReaderInv, Ended, Loaded, Collected, Checked, Copying, Writing
<1>7. DestInv'
  BY <1>1 DEF ImportInv, DestInv, Writing
<1> QED
  BY <1>1, <1>6, <1>7, ReaderMoves

LEMMA AfterReadVerdict ==
    ASSUME ImportInv, NEW cube \in Cubes, ReadVerdict(cube) PROVE ImportInv'
<1> DEFINE docs == [c \in DOMAIN imp.docs \cup {cube} |->
                       IF c = cube THEN verdicts[cube] ELSE imp.docs[c]]
<1>1. /\ imp' = [pc |-> "verdicts", manifest |-> imp.manifest, lines |-> imp.lines,
                 names |-> imp.names \ {cube}, docs |-> docs]
      /\ imp.pc = "verdicts" /\ cube \in imp.names /\ UNCHANGED <<source, dest, kills>>
  BY DEF ReadVerdict, ImportInv, Fields
<1>2. manifest' = manifest /\ verdicts' = verdicts
  BY <1>1 DEF source
<1>3. imp.lines # Absent => RowsRead(imp.lines)' /\ OneLinePerCube(imp.lines, Split)
  BY <1>1, RowsKept DEF ImportInv, ReaderInv, Loaded
<1>4. /\ DOMAIN docs \subseteq Cubes
      /\ docs = [c \in DOMAIN docs |-> docs[c]]
      /\ \A c \in DOMAIN docs : docs[c] \in DocumentsOf(c)
  BY <1>1 DEF ImportInv, ReaderInv, Collected
<1> HIDE DEF docs
<1>5. ReaderInv'
  BY <1>1, <1>2, <1>3, <1>4
  DEF ImportInv, ReaderInv, Ended, Loaded, Collected, Checked, Copying, Writing
<1>6. DestInv'
  BY <1>1 DEF ImportInv, DestInv, Writing
<1> QED
  BY <1>1, <1>5, <1>6, ReaderMoves

LEMMA AfterCheckWave ==
    ASSUME ImportInv, CheckWave PROVE ImportInv'
<1> DEFINE good == /\ OnePerCube(imp.docs, imp.manifest.split)
                   /\ CheckComplete
                   /\ NormaliseTranscripts
<1>1. CASE ~good
  BY <1>1, AfterStop DEF CheckWave, Demand, Refuse
<1>2. CASE good
  <2>1. /\ imp' = [pc |-> "reread", manifest |-> imp.manifest, lines |-> imp.lines,
                   names |-> imp.names, docs |-> imp.docs]
        /\ imp.pc = "verdicts" /\ UNCHANGED <<source, dest, kills>>
    BY <1>2 DEF CheckWave, Demand, ImportInv, Fields
  <2>2. imp.manifest.split = Split
    BY <2>1 DEF ImportInv, ReaderInv, Loaded, IcnfManifest, ManifestOf
  <2>3. /\ EveryCubeUnsat(imp.docs, Split)
        /\ imp.lines # Absent => EveryProofRead(imp.lines, imp.docs, Split)
    BY <1>2, <2>2 DEF CheckComplete, NormaliseTranscripts
  <2>4. imp.lines # Absent => RowsRead(imp.lines)' /\ OneLinePerCube(imp.lines, Split)
    BY <2>1, RowsKept DEF ImportInv, ReaderInv, Loaded
  <2>5. manifest' = manifest /\ verdicts' = verdicts
    BY <2>1 DEF source
  <2>6. ReaderInv'
    BY <2>1, <2>3, <2>4, <2>5
    DEF ImportInv, ReaderInv, Ended, Loaded, Collected, Checked, Copying, Writing
  <2>7. DestInv'
    BY <2>1 DEF ImportInv, DestInv, Writing
  <2> QED
    BY <2>1, <2>6, <2>7, ReaderMoves
<1> QED
  BY <1>1, <1>2

\* The manifest read a second time is the one that was checked.
LEMMA AfterRereadManifest ==
    ASSUME ImportInv, RereadManifest PROVE ImportInv'
<1>1. CASE imp' = Off
  <2>1. [Off EXCEPT !.pc = "off"] = Off
    BY Zenon, OffIsOff
  <2> QED
    BY <1>1, <2>1, AfterStop DEF RereadManifest
<1>2. CASE imp' = [imp EXCEPT !.manifest = manifest, !.pc = "open manifest"]
  <2>1. /\ imp' = [pc |-> "open manifest", manifest |-> manifest, lines |-> imp.lines,
                   names |-> imp.names, docs |-> imp.docs]
        /\ imp.pc = "reread" /\ UNCHANGED <<source, dest, kills>>
    BY <1>2 DEF RereadManifest, ImportInv, Fields
  <2>2. imp.lines # Absent => RowsRead(imp.lines)' /\ OneLinePerCube(imp.lines, Split)
    BY <2>1, RowsKept DEF ImportInv, ReaderInv, Loaded, Copying
  <2>3. manifest' = manifest /\ verdicts' = verdicts
    BY <2>1 DEF source
  <2>4. ReaderInv'
    BY <2>1, <2>2, <2>3
    DEF ImportInv, ReaderInv, Ended, Loaded, Collected, Checked, Copying, Writing
  <2>5. DestInv'
    <3>1. dest = NoWave /\ dest' = dest /\ imp'.pc = "open manifest"
      BY <2>1 DEF ImportInv, DestInv
    <3>2. dest.transcripts = Absent /\ dest.manifest = Absent
      BY <3>1 DEF NoWave
    <3> QED
      BY <3>1, <3>2 DEF DestInv, Writing
  <2> QED
    BY <2>1, <2>4, <2>5, ReaderMoves
<1> QED
  BY <1>1, <1>2 DEF RereadManifest

-----------------------------------------------------------------------------
(* The importer writes.                                                    *)

\* From the check on: every cube has a document that says UNSAT, and the lines
\* are about their proofs.
LEMMA WholeWave ==
    ASSUME ImportInv, imp.pc \in Checked
    PROVE  /\ DOMAIN imp.docs = Cubes
           /\ \A cube \in Cubes : imp.docs[cube] \in DocumentsOf(cube)
           /\ \A cube \in Cubes : imp.docs[cube].rc = 20 /\ Truth[cube] = 20
           /\ imp.lines # Absent =>
                 /\ Normalised = LinesFor(imp.docs)
                 /\ \A cube \in Cubes : /\ imp.docs[cube].digest \in read \cap Digests
                                        /\ imp.docs[cube].digest # Absent
<1>1. /\ DOMAIN imp.docs \subseteq Cubes
      /\ \A cube \in DOMAIN imp.docs : imp.docs[cube] \in DocumentsOf(cube)
      /\ EveryCubeUnsat(imp.docs, Split)
      /\ imp.lines # Absent => /\ RowsRead(imp.lines)
                               /\ OneLinePerCube(imp.lines, Split)
                               /\ EveryProofRead(imp.lines, imp.docs, Split)
  BY DEF ImportInv, ReaderInv, Checked, Copying, Writing, Loaded, Collected
<1>2. /\ DOMAIN imp.docs = Cubes
      /\ \A cube \in Cubes : imp.docs[cube].rc = 20 /\ Truth[cube] = 20
  BY <1>1, CompleteDocs
<1> QED
  BY <1>1, <1>2, NormalisedLines

\* A step that writes: the importer moves on, and nothing it has read changes.
LEMMA WriterMoves ==
    ASSUME ImportInv, UNCHANGED <<source, kills>>, imp.pc \in Writing,
           NEW pc \in Writing \cup {"done"}, imp' = [imp EXCEPT !.pc = pc],
           dest' = [manifest |-> dest'.manifest, verdicts |-> dest'.verdicts,
                    transcripts |-> dest'.transcripts],
           DestInv',
           ProofsStand' => \A cube \in Cubes : dest'.verdicts[cube].digest \in read
    PROVE  ImportInv'
<1>1. imp' = [pc |-> pc, manifest |-> imp.manifest, lines |-> imp.lines,
              names |-> imp.names, docs |-> imp.docs]
  BY DEF ImportInv, Fields
<1>2. /\ manifest' = manifest /\ verdicts' = verdicts /\ lines' = lines
      /\ appending' = appending /\ read' = read /\ kills' = kills
  BY DEF source
<1>3. SourceInv'
  <2>1. lines # Absent => RowsRead(lines)'
    BY <1>2, RowsStay DEF ImportInv, SourceInv
  <2> QED
    BY <1>2, <2>1 DEF ImportInv, SourceInv
<1>4. ImportTypeOK'
  BY <1>2 DEF ImportInv, ImportTypeOK, Files
<1>5. ReaderInv'
  <2>1. imp.lines # Absent => RowsRead(imp.lines)' /\ OneLinePerCube(imp.lines, Split)
    BY <1>1, <1>2, RowsStay DEF ImportInv, ReaderInv, Loaded, Copying, Writing
  <2> QED
    BY <1>1, <1>2, <2>1
    DEF ImportInv, ReaderInv, Ended, Loaded, Collected, Checked, Copying, Writing
<1>6. TierEarned'
  <2>1. \A cube \in Cubes : Truth[cube] = 20
    BY WholeWave DEF Checked, Copying
  <2> QED
    BY <1>2, <2>1 DEF TierEarned, Tier
<1> QED
  BY <1>1, <1>3, <1>4, <1>5, <1>6 DEF ImportInv, Fields

LEMMA SplitOfManifest == IcnfManifest.split = Split
BY DEF IcnfManifest, ManifestOf

LEMMA AfterOpenManifest ==
    ASSUME ImportInv, OpenManifest PROVE ImportInv'
<1>1. /\ dest' = [manifest |-> TornManifest, verdicts |-> dest.verdicts,
                  transcripts |-> dest.transcripts]
      /\ imp' = [imp EXCEPT !.pc = "fill manifest"] /\ imp.pc = "open manifest"
      /\ UNCHANGED <<source, kills>>
  BY DEF OpenManifest, ImportInv, Fields
<1>2. imp'.pc = "fill manifest" /\ imp'.docs = imp.docs /\ imp'.lines = imp.lines
  BY <1>1 DEF ImportInv, Fields
<1>3. dest.verdicts = Absent /\ dest.transcripts = Absent
  <2>1. dest = NoWave
    BY <1>1 DEF ImportInv, DestInv
  <2> QED
    BY <2>1 DEF NoWave
<1>4. DestInv'
  BY <1>1, <1>2, <1>3 DEF DestInv, Writing
<1>5. ~ProofsStand'
  BY <1>1, <1>3 DEF ProofsStand
<1> QED
  BY <1>1, <1>4, <1>5, WriterMoves DEF Writing

LEMMA AfterFillManifest ==
    ASSUME ImportInv, FillManifest PROVE ImportInv'
<1>1. /\ dest' = [manifest |-> imp.manifest, verdicts |-> dest.verdicts,
                  transcripts |-> dest.transcripts]
      /\ imp' = [imp EXCEPT !.pc = "open verdicts"] /\ imp.pc = "fill manifest"
      /\ UNCHANGED <<source, kills>>
  BY DEF FillManifest, ImportInv, Fields
<1>2. imp'.pc = "open verdicts" /\ imp'.docs = imp.docs /\ imp'.lines = imp.lines
  BY <1>1 DEF ImportInv, Fields
<1>3. dest.verdicts = Absent /\ dest.transcripts = Absent
  BY <1>1 DEF ImportInv, DestInv, Writing
<1>4. imp.manifest = IcnfManifest
  BY <1>1 DEF ImportInv, ReaderInv, Loaded, Copying, Writing
<1>5. DestInv'
  BY <1>1, <1>2, <1>3, <1>4 DEF DestInv, Writing
<1>6. ~ProofsStand'
  BY <1>1, <1>3 DEF ProofsStand
<1> QED
  BY <1>1, <1>5, <1>6, WriterMoves DEF Writing

\* A manifest in place does not make evidence of verdicts that are not whole.
LEMMA AfterOpenVerdicts ==
    ASSUME ImportInv, OpenVerdicts PROVE ImportInv'
<1>1. PICK cut \in CutShort(imp.docs) : dest' = [dest EXCEPT !.verdicts = cut]
  BY DEF OpenVerdicts
<1>2. /\ dest' = [manifest |-> dest.manifest, verdicts |-> cut,
                  transcripts |-> dest.transcripts]
      /\ imp' = [imp EXCEPT !.pc = "fill verdicts"] /\ imp.pc = "open verdicts"
      /\ UNCHANGED <<source, kills>>
  BY <1>1 DEF OpenVerdicts, ImportInv, Fields
<1>3. imp'.pc = "fill verdicts" /\ imp'.docs = imp.docs /\ imp'.lines = imp.lines
  BY <1>2 DEF ImportInv, Fields
<1>4. dest.manifest = IcnfManifest /\ dest.transcripts = Absent
  BY <1>2 DEF ImportInv, DestInv, Writing
<1>5. ~WaveStands'
  <2>1. ~(OnePerCube(cut, Split) /\ EveryCubeUnsat(cut, Split))
    BY <1>2, WholeWave, CutVerdicts DEF Checked, Copying, Writing
  <2>2. dest'.manifest.split = Split /\ dest'.verdicts = cut
    BY <1>2, <1>4, SplitOfManifest
  <2> QED
    BY <2>1, <2>2 DEF WaveStands
<1>6. DestInv'
  BY <1>2, <1>3, <1>4, <1>5 DEF DestInv, Writing
<1>7. ~ProofsStand'
  BY <1>5 DEF ProofsStand
<1> QED
  BY <1>2, <1>6, <1>7, WriterMoves DEF Writing

LEMMA AfterFillVerdicts ==
    ASSUME ImportInv, FillVerdicts PROVE ImportInv'
<1> DEFINE next == IF imp.lines = Absent THEN "done" ELSE "open transcripts"
<1>1. /\ dest' = [manifest |-> dest.manifest, verdicts |-> imp.docs,
                  transcripts |-> dest.transcripts]
      /\ imp' = [imp EXCEPT !.pc = next] /\ imp.pc = "fill verdicts"
      /\ UNCHANGED <<source, kills>>
  BY DEF FillVerdicts, ImportInv, Fields
<1>2. imp'.pc = next /\ imp'.docs = imp.docs /\ imp'.lines = imp.lines
  BY <1>1 DEF ImportInv, Fields
<1>3. dest.manifest = IcnfManifest /\ dest.transcripts = Absent
  BY <1>1 DEF ImportInv, DestInv, Writing
<1>4. DestInv'
  <2>1. /\ dest'.manifest = IcnfManifest /\ dest'.verdicts = imp'.docs
        /\ dest'.transcripts = Absent
        /\ \/ imp'.lines = Absent /\ imp'.pc = "done"
           \/ imp'.lines # Absent /\ imp'.pc = "open transcripts"
    BY <1>1, <1>2, <1>3
  <2> QED
    BY <2>1 DEF DestInv, Writing
<1>5. ~ProofsStand'
  BY <1>1, <1>3 DEF ProofsStand
<1> QED
  BY <1>1, <1>4, <1>5, WriterMoves DEF Writing

LEMMA AfterOpenTranscripts ==
    ASSUME ImportInv, OpenTranscripts PROVE ImportInv'
<1>1. PICK cut \in CutShort(Normalised) : dest' = [dest EXCEPT !.transcripts = cut]
  BY DEF OpenTranscripts
<1>2. /\ dest' = [manifest |-> dest.manifest, verdicts |-> dest.verdicts,
                  transcripts |-> cut]
      /\ imp' = [imp EXCEPT !.pc = "fill transcripts"] /\ imp.pc = "open transcripts"
      /\ UNCHANGED <<source, kills>>
  BY <1>1 DEF OpenTranscripts, ImportInv, Fields
<1>3. imp'.pc = "fill transcripts" /\ imp'.docs = imp.docs /\ imp'.lines = imp.lines
  BY <1>2 DEF ImportInv, Fields
<1>4. dest.manifest = IcnfManifest /\ dest.verdicts = imp.docs /\ imp.lines # Absent
  BY <1>2 DEF ImportInv, DestInv
<1>5. ~ProofsStand'
  <2>1. Normalised = LinesFor(imp.docs)
    BY <1>2, <1>4, WholeWave DEF Checked, Copying, Writing
  <2>2. ~(OneLinePerCube(cut, Split) /\ EveryProofRead(cut, dest.verdicts, Split))
    BY <2>1, CutLines
  <2>3. dest'.manifest.split = Split /\ dest'.transcripts = cut
        /\ dest'.verdicts = dest.verdicts
    BY <1>2, <1>4, SplitOfManifest
  <2> QED
    BY <2>2, <2>3 DEF ProofsStand
<1>6. DestInv'
  BY <1>2, <1>3, <1>4 DEF DestInv, Writing
<1> QED
  BY <1>2, <1>5, <1>6, WriterMoves DEF Writing

LEMMA AfterFillTranscripts ==
    ASSUME ImportInv, FillTranscripts PROVE ImportInv'
<1>1. /\ dest' = [manifest |-> dest.manifest, verdicts |-> dest.verdicts,
                  transcripts |-> Normalised]
      /\ imp' = [imp EXCEPT !.pc = "done"] /\ imp.pc = "fill transcripts"
      /\ UNCHANGED <<source, kills>>
  BY DEF FillTranscripts, ImportInv, Fields
<1>2. imp'.pc = "done" /\ imp'.docs = imp.docs /\ imp'.lines = imp.lines
  BY <1>1 DEF ImportInv, Fields
<1>3. dest.manifest = IcnfManifest /\ dest.verdicts = imp.docs /\ imp.lines # Absent
  BY <1>1 DEF ImportInv, DestInv
<1>4. DestInv'
  <2>1. Normalised' = Normalised
    BY <1>2 DEF Normalised
  <2> QED
    BY <1>1, <1>2, <1>3, <2>1 DEF DestInv, Writing
<1>5. \A cube \in Cubes : dest'.verdicts[cube].digest \in read
  BY <1>1, <1>3, WholeWave DEF Checked, Copying, Writing
<1> QED
  BY <1>1, <1>4, <1>5, WriterMoves DEF Writing

\* Killed, it leaves what it has written so far.
LEMMA AfterKillImporter ==
    ASSUME ImportInv, KillImporter PROVE ImportInv'
<1>1. /\ imp' = [pc |-> "off", manifest |-> Absent, lines |-> Absent, names |-> {},
                 docs |-> <<>>]
      /\ imp'.pc = "off"
      /\ dest' = dest /\ kills' = kills + 1 /\ kills < MaxKills
      /\ manifest' = manifest /\ verdicts' = verdicts /\ lines' = lines
      /\ appending' = appending /\ read' = read
  BY DEF KillImporter, Off, source
<1>2. ReaderInv'
  BY <1>1 DEF ReaderInv, Ended, Loaded, Collected, Checked, Copying, Writing
<1>3. DestInv'
  BY <1>1 DEF ImportInv, DestInv, Writing
<1>4. SourceInv'
  <2>1. lines # Absent => RowsRead(lines)'
    BY <1>1, RowsStay DEF ImportInv, SourceInv
  <2> QED
    BY <1>1, <2>1 DEF ImportInv, SourceInv
<1>5. kills' \in 0 .. MaxKills
  BY <1>1, ImportAssumption DEF ImportInv, ImportTypeOK
<1>6. ImportTypeOK'
  BY <1>1, <1>5 DEF ImportInv, ImportTypeOK, Files
<1>7. TierEarned'
  BY <1>1, TierStays DEF ImportInv, TierEarned, Tier
<1> QED
  BY <1>1, <1>2, <1>3, <1>4, <1>6, <1>7 DEF ImportInv, Fields

-----------------------------------------------------------------------------
(* The invariant holds.                                                    *)

LEMMA Beginning == ImportInit => ImportInv
<1> SUFFICES ASSUME ImportInit PROVE ImportInv
  OBVIOUS
<1> USE DEF ImportInit
<1>1. imp.pc = "off" /\ imp = [pc |-> "off", manifest |-> Absent, lines |-> Absent,
                               names |-> {}, docs |-> <<>>]
  BY DEF Off
<1>2. dest = [manifest |-> Absent, verdicts |-> Absent, transcripts |-> Absent]
  BY DEF NoWave
<1>3. ImportTypeOK
  <2>1. 1 \in DOMAIN ManifestLife /\ ManifestLife[1] = Absent
    BY DEF ManifestLife
  <2>2. Files(verdicts) = {}
    BY DEF Files
  <2> QED
    BY <2>1, <2>2, ImportAssumption DEF ImportTypeOK
<1>4. SourceInv
  BY DEF SourceInv
<1>5. ReaderInv
  BY <1>1 DEF ReaderInv, Ended, Loaded, Collected, Checked, Copying, Writing
<1>6. DestInv
  BY <1>1, <1>2 DEF DestInv, Writing
<1>7. TierEarned
  BY <1>2 DEF TierEarned, Tier, WaveStands, ProofsStand
<1> QED
  BY <1>1, <1>2, <1>3, <1>4, <1>5, <1>6, <1>7 DEF ImportInv, Fields

LEMMA Stutter == ASSUME ImportInv, UNCHANGED importVars PROVE ImportInv'
<1>1. /\ UNCHANGED <<manifest, verdicts, lines, appending, read, imp, dest, kills>>
  BY DEF importVars, source
<1>2. SourceInv' /\ ImportTypeOK'
  <2>1. lines # Absent => RowsRead(lines)'
    BY <1>1, RowsStay DEF ImportInv, SourceInv
  <2> QED
    BY <1>1, <2>1 DEF ImportInv, SourceInv, ImportTypeOK, Files
<1> QED
  BY <1>1, <1>2, SourceMoves DEF ImportInv

LEMMA Step == ImportInv /\ [ImportNext]_importVars => ImportInv'
<1> SUFFICES ASSUME ImportInv, [ImportNext]_importVars PROVE ImportInv'
  OBVIOUS
<1>1. CASE Campaign
  BY <1>1, AfterWriteManifest, AfterLineEnds, AfterBank, AfterSolve DEF Campaign
<1>2. CASE Import
  BY <1>2, AfterStart, AfterLoadManifest, AfterReadTranscriptLines, AfterListVerdicts,
     AfterReadVerdict, AfterCheckWave, AfterRereadManifest, AfterOpenManifest,
     AfterFillManifest, AfterOpenVerdicts, AfterFillVerdicts, AfterOpenTranscripts,
     AfterFillTranscripts
  DEF Import
<1>3. CASE KillImporter \/ KillChecker
  BY <1>3, AfterKillImporter, AfterKillChecker
<1>4. CASE UNCHANGED importVars
  BY <1>4, Stutter
<1> QED
  BY <1>1, <1>2, <1>3, <1>4 DEF ImportNext

\* What the importer has read agrees with itself, and what it has written is
\* never taken for more than it is: tools/import_wave.py, line by line.
THEOREM ImportInvariant == ImportSpec => []ImportInv
BY Beginning, Step, PTL DEF ImportSpec

-----------------------------------------------------------------------------
(* What an import leaves.                                                  *)

LEMMA Granted == ImportInv => TierGranted
<1> SUFFICES ASSUME ImportInv, imp.pc = "done"
             PROVE  Tier(imp.lines # Absent) = TierPrinted
  BY DEF TierGranted
<1> DEFINE docs == imp.docs
<1>1. /\ dest.manifest = IcnfManifest /\ dest.verdicts = docs
      /\ imp.lines # Absent => dest.transcripts = Normalised
  BY DEF ImportInv, DestInv
<1>2. /\ DOMAIN docs = Cubes
      /\ \A cube \in Cubes : docs[cube] \in DocumentsOf(cube)
      /\ \A cube \in Cubes : docs[cube].rc = 20
      /\ imp.lines # Absent =>
            /\ Normalised = LinesFor(docs)
            /\ \A cube \in Cubes : docs[cube].digest \in Digests /\ docs[cube].digest # Absent
  BY WholeWave DEF Checked
<1>3. docs = [cube \in Cubes |-> docs[cube]]
  BY <1>2 DEF ImportInv, ReaderInv, Collected
<1>4. WellCut(IcnfManifest)
  BY DEF ImportInv, ReaderInv, Loaded
<1>5. BaseRegenerates(IcnfManifest)
  BY ImportAssumption DEF BaseRegenerates, IcnfManifest, ManifestOf
<1> HIDE DEF docs
<1>6. docs # Absent
  <2> DEFINE D == {Document(cube, 20, d) : cube \in Cubes, d \in Digests \cup {Absent}}
  <2>1. \A cube \in Cubes : docs[cube] \in D
    <3>1. \A cube \in Cubes :
             /\ docs[cube] = Document(cube, 20, docs[cube].digest)
             /\ docs[cube].digest \in Digests \cup {Absent}
      <4> TAKE cube \in Cubes
      <4>1. PICK d \in DocumentsOf(cube) : d = docs[cube]
        BY <1>2
      <4>2. d = Document(cube, d.rc, d.digest) /\ d.digest \in Digests \cup {Absent}
        BY DocumentFields, Zenon
      <4> QED
        BY <1>2, <4>1, <4>2
    <3> QED
      BY <3>1
  <2>2. Absent \notin [Cubes -> D]
    BY AbsentApart
  <2> HIDE DEF D
  <2> QED
    BY <1>3, <2>1, <2>2
<1>7. OnePerCube(docs, Split) /\ EveryCubeUnsat(docs, Split)
  <2>1. \A cube \in Cubes : /\ docs[cube].shape /\ docs[cube].cube = cube
                            /\ docs[cube].rc = 20
                            /\ docs[cube].lits = CubeLiterals(Split, cube)
    BY <1>2, DocumentFields
  <2> QED
    BY <1>2, <2>1 DEF OnePerCube, EveryCubeUnsat, Cubes
<1>8. WaveStands
  BY <1>1, <1>4, <1>5, <1>6, <1>7, SplitOfManifest DEF WaveStands
<1>9. ASSUME imp.lines # Absent
      PROVE  ProofsStand
  <2> DEFINE rows == LinesFor(docs)
  <2>1. dest.transcripts = rows
    BY <1>1, <1>2, <1>9
  <2>2. /\ DOMAIN rows = Cubes /\ rows \in [Cubes -> Rows]
        /\ \A cube \in Cubes : /\ rows[cube].shape /\ rows[cube].verified
                               /\ rows[cube].cube = cube
                               /\ rows[cube].digest = docs[cube].digest
    BY <1>2, <1>9 DEF LinesFor, TranscriptLine, Rows
  <2> HIDE DEF rows
  <2>3. rows # Absent
    BY <2>2, AbsentApart
  <2>4. OneLinePerCube(rows, Split)
    BY <2>2 DEF OneLinePerCube, Cubes
  <2>5. \A cube \in Cubes : docs[cube].cube = cube /\ docs[cube].digest # Absent
    BY <1>2, <1>9, DocumentFields
  <2>6. EveryProofRead(rows, docs, Split)
    BY <1>2, <2>2, <2>5 DEF EveryProofRead, Cubes
  <2> QED
    BY <1>1, <1>8, <2>1, <2>3, <2>4, <2>6, SplitOfManifest DEF ProofsStand
<1> QED
  BY <1>8, <1>9 DEF Tier, TierPrinted

\* However the campaign writes beside it and whatever is killed, the gate takes
\* the destination for no more than was done, and a finished import for no less
\* than its summary printed.
THEOREM ImportIsSound == ImportSpec => []ImportSound
<1>1. ImportInv => ImportSound
  BY Granted DEF ImportInv, ImportSound
<1> QED
  BY <1>1, ImportInvariant, PTL

\* Evidence that the gate accepts is never rewritten: an import starts only over
\* nothing, and what it leaves half written the gate does not accept.
THEOREM EvidenceIsKept == ImportSpec => EvidenceStays
<1>1. ASSUME ImportInv, [ImportNext]_importVars
      PROVE  Tier(FALSE) # "none" => /\ dest'.manifest = dest.manifest
                                     /\ dest'.verdicts = dest.verdicts
  <2> SUFFICES ASSUME WaveStands
               PROVE  dest'.manifest = dest.manifest /\ dest'.verdicts = dest.verdicts
    BY DEF Tier
  <2>1. dest.verdicts # Absent /\ imp.pc # "fill verdicts"
    BY <1>1 DEF WaveStands, ImportInv, DestInv
  <2>2. imp.pc \notin {"open manifest", "fill manifest", "open verdicts"}
    <3>1. NoWave.verdicts = Absent
      BY DEF NoWave
    <3> QED
      BY <1>1, <2>1, <3>1 DEF ImportInv, DestInv
  <2>3. CASE UNCHANGED dest
    BY <2>3
  <2>4. CASE OpenTranscripts \/ FillTranscripts
    BY <1>1, <2>4 DEF OpenTranscripts, FillTranscripts, ImportInv, Fields
  <2>5. \/ UNCHANGED dest
        \/ OpenTranscripts \/ FillTranscripts
    <3>1. CASE Campaign
      BY <3>1 DEF Campaign, WriteManifest, LineEnds, Bank, Solve
    <3>2. CASE Import
      BY <2>1, <2>2, <3>2
      DEF Import, Start, LoadManifest, ReadTranscriptLines, ListVerdicts, ReadVerdict,
          CheckWave, RereadManifest, OpenManifest, FillManifest, OpenVerdicts, FillVerdicts
    <3>3. CASE KillImporter \/ KillChecker
      BY <3>3 DEF KillImporter, KillChecker
    <3>4. CASE UNCHANGED importVars
      BY <3>4 DEF importVars
    <3> QED
      BY <1>1, <3>1, <3>2, <3>3, <3>4 DEF ImportNext
  <2> QED
    BY <2>3, <2>4, <2>5
<1> QED
  BY <1>1, ImportInvariant, PTL DEF ImportSpec, EvidenceStays
=============================================================================
