------------------------------- MODULE MCGate -------------------------------
(***************************************************************************)
(* Instances of Gate for TLC: one checkout full of sound and unsound       *)
(* artifacts about N(2, 2) = 3, and the claims that can be made on them.   *)
(* Instances are small enough for every coloring to be tried, so that what *)
(* is refuted and what verifies is computed, not assumed.                  *)
(***************************************************************************)
EXTENDS Gate, TLC

\* N(2, 2) = 3 is published.  Sums of two signs are even, so N(2, 1) = 3 too,
\* about which G5 has no say and hides no other rule's mistake.
MCAnchors == 2 :> 3
MCEncoders == {"subsets", "totalizer"}
MCFixture == [coloring |-> <<1, 1, -1>>, k |-> 2, l |-> 2]

F(n, encoder) == Formula(n, 2, 1, encoder, TRUE)

GateSplit == <<1>>
Low == CubeLiterals(GateSplit, {})
High == CubeLiterals(GateSplit, {1})

MCRefuted ==
    {x \in {F(n, e) : n \in 2 .. 4, e \in MCEncoders} \X {{}, Low, High} :
        \A f \in Colorings(x[1]) : ~Satisfies(f, x[2])}

\* A proof names what it proves; a bad one verifies for nothing.
Proof(x, good) == [of |-> x, good |-> good]
MCVerified == {<<x[1], x[2], Proof(x, TRUE)>> : x \in MCRefuted}

-----------------------------------------------------------------------------
(* Artifacts of monolithic runs.                                           *)

Log(n, encoder, base, rc) ==
    [shape |-> TRUE, verdict |-> IF rc = 20 THEN "UNSAT" ELSE "SAT", rc |-> rc,
     N |-> n, k |-> 2, l |-> 1, encoder |-> encoder, symmetryBreak |-> TRUE,
     sha256 |-> base]

MCRuns ==
    [subsets  |-> Log(3, "subsets", F(3, "subsets"), 20),
     totals   |-> Log(3, "totalizer", F(3, "totalizer"), 20),
     large    |-> Log(4, "totalizer", F(4, "totalizer"), 20),
     sat      |-> Log(2, "subsets", F(2, "subsets"), 10),
     stale    |-> Log(2, "totalizer", F(3, "totalizer"), 20),
     torn     |-> [Log(2, "subsets", F(3, "subsets"), 20) EXCEPT !.shape = FALSE]]

Transcript(encoder, n, good, verified, onDisk) ==
    [instance |-> F(n, encoder), proof |-> Proof(<<F(n, encoder), {}>>, good),
     verified |-> verified, proofOnDisk |-> onDisk, instanceOnDisk |-> F(n, encoder)]

MCTranscripts ==
    [read     |-> Transcript("subsets", 3, TRUE, TRUE, "none"),
     kept     |-> Transcript("totalizer", 3, TRUE, TRUE, "same"),
     replaced |-> Transcript("subsets", 3, TRUE, TRUE, "other"),
     refused  |-> Transcript("subsets", 3, FALSE, FALSE, "same"),
     larger   |-> Transcript("totalizer", 4, TRUE, TRUE, "same")]

MCWitnesses ==
    [long |-> <<1, -1>>, short |-> <<1>>, flipped |-> <<1, 1>>, torn |-> Absent]

-----------------------------------------------------------------------------
(* Artifacts of waves, each named for what is wrong with it.               *)

MWave(n, encoder, base, cubes) ==
    [shape |-> TRUE, N |-> n, k |-> 2, l |-> 1, encoder |-> encoder,
     symmetryBreak |-> TRUE, split |-> GateSplit, nCubes |-> 2,
     construction |-> Construction, cubes |-> cubes, base |-> base]

Cut(n, encoder) == MWave(n, encoder, F(n, encoder), CubeSet(GateSplit))

MCWaves ==
    [good    |-> Cut(3, "subsets"),
     second  |-> Cut(3, "totalizer"),
     again   |-> Cut(3, "subsets"),
     unread  |-> Cut(3, "subsets"),
     partial |-> Cut(3, "subsets"),
     foreign |-> Cut(3, "subsets"),
     large   |-> Cut(4, "totalizer"),
     half    |-> Cut(2, "subsets"),
     twice   |-> Cut(2, "subsets"),
     sat     |-> Cut(2, "subsets"),
     swapped |-> Cut(2, "subsets"),
     stale   |-> MWave(2, "subsets", F(3, "subsets"), CubeSet(GateSplit)),
     cubes   |-> MWave(2, "subsets", F(2, "subsets"), {Low}),
     torn    |-> [Cut(3, "subsets") EXCEPT !.shape = FALSE]]

CubeProof(dir, cube, good) ==
    Proof(<<MCWaves[dir].base, CubeLiterals(GateSplit, cube)>>, good)

Doc(cube, lits, rc, digest) ==
    [shape |-> TRUE, cube |-> cube, lits |-> lits, rc |-> rc, digest |-> digest]

LowDoc(dir) == Doc({}, Low, 20, CubeProof(dir, {}, TRUE))
HighDoc(dir) == Doc({1}, High, 20, CubeProof(dir, {1}, TRUE))

Docs(dir) ==
    CASE dir = "half"    -> <<LowDoc(dir)>>
      [] dir = "twice"   -> <<LowDoc(dir), LowDoc(dir)>>
      [] dir = "sat"     -> <<LowDoc(dir), Doc({1}, High, 10, Absent)>>
      [] dir = "swapped" -> <<LowDoc(dir), Doc({1}, Low, 20, CubeProof(dir, {}, TRUE))>>
      [] dir = "cubes"   -> <<LowDoc(dir), Doc({1}, High, 0, Absent)>>
      [] dir = "unread"  -> <<LowDoc(dir), Doc({1}, High, 20, CubeProof(dir, {1}, FALSE))>>
      [] OTHER           -> <<LowDoc(dir), HighDoc(dir)>>

In(dir, name) == [at |-> dir, name |-> name]

MCVerdicts ==
    [p \in {In(d, "verdicts") : d \in DOMAIN MCWaves} |->
        [form |-> IF p.at = "second" THEN "file" ELSE "directory", docs |-> Docs(p.at)]]

Line(dir, cube) ==
    [shape |-> TRUE, cube |-> cube, verified |-> TRUE, at |-> dir,
     digest |-> CubeProof(dir, cube, TRUE),
     onDisk |-> CASE dir = "good" /\ cube = {}    -> "same"
                  [] dir = "again" /\ cube = {1} -> "other"
                  [] OTHER                       -> "none"]

MCLines ==
    [p \in {In(d, "transcripts") :
               d \in {"good", "second", "again", "unread", "partial", "foreign"}} |->
        CASE p.at = "partial" -> <<Line(p.at, {})>>
          [] p.at = "foreign" -> <<Line(p.at, {}), [Line(p.at, {1}) EXCEPT !.at = "good"]>>
          [] OTHER            -> <<Line(p.at, {}), Line(p.at, {1})>>]

-----------------------------------------------------------------------------
(* Claims.                                                                 *)

Claim(id, kind, value, witness, runs, drat, wave, level) ==
    [shape |-> TRUE, id |-> id, kind |-> kind, k |-> 2, l |-> 1, value |-> value,
     witness |-> witness, runs |-> runs, drat |-> drat, wave |-> wave, level |-> level]

Naming(p) == [path |-> p, sha256 |-> MCWitnesses[p]]

WitnessFields ==
    {Absent} \cup {Naming(p) : p \in DOMAIN MCWitnesses}
             \cup {[path |-> "nowhere", sha256 |-> <<1, -1>>],
                   [path |-> "flipped", sha256 |-> <<1, -1>>]}

DratFields ==
    {Absent} \cup {[transcript |-> p, proof |-> MCTranscripts[p].proof] : p \in DOMAIN MCTranscripts}
             \cup {[transcript |-> "read", proof |-> MCTranscripts.refused.proof]}

RunFields ==
    {{}, {"subsets"}, {"subsets", "totals"}, {"totals", "large"}, {"subsets", "large"},
     {"sat", "stale"}, {"torn", "stale"}, {"subsets", "totals", "torn"},
     {"subsets", "totals", "nowhere"}}

Block(dir, form, transcripts) ==
    [kind |-> "wave", manifest |-> dir, verdicts |-> In(dir, "verdicts"), form |-> form,
     transcripts |-> transcripts]

FormOf(dir) == IF dir = "second" THEN "file" ELSE "directory"

Blocks ==
    {Block(d, FormOf(d), Absent) : d \in DOMAIN MCWaves}
      \cup {Block(p.at, FormOf(p.at), p) : p \in DOMAIN MCLines}
      \cup {Block("good", "file", Absent), Block("nowhere", "directory", Absent),
            [Block("sat", "directory", Absent) EXCEPT !.verdicts = In("good", "verdicts")],
            Block("again", "directory", In("good", "transcripts"))}

ConfirmRuns ==
    [kind |-> "unsat_runs", manifest |-> Absent, verdicts |-> Absent, form |-> Absent,
     transcripts |-> Absent]

Confirms ==
    {Absent, ConfirmRuns,
     Block("good", "directory", Absent), Block("second", "file", Absent),
     Block("second", "file", In("second", "transcripts")),
     Block("large", "directory", Absent), Block("partial", "directory", In("partial", "transcripts"))}

WaveFields ==
    {[manifest |-> b.manifest, verdicts |-> b.verdicts, form |-> b.form,
      transcripts |-> b.transcripts, confirm |-> c] : b \in Blocks, c \in Confirms}

Checkout(claims, reverify, tool) ==
    [claims |-> claims, anchors |-> Anchors, tidy |-> TRUE, reverify |-> reverify,
     tool |-> tool]

\* Single claims on witnesses, run-logs and proofs.
RunInputs ==
    {Checkout(<<Claim("a", kind, value, w, runs, drat, Absent, level)>>, reverify, TRUE) :
        kind \in Kinds, value \in 2 .. 4, w \in WitnessFields, runs \in RunFields,
        drat \in DratFields, level \in {1, 4, 5, 6}, reverify \in BOOLEAN}

\* Single claims that a wave carries.
WaveInputs ==
    {Checkout(<<Claim("a", kind, value, Naming(IF value = 3 THEN "long" ELSE "short"),
                      runs, Absent, wave, level)>>, reverify, reverify) :
        kind \in {"upper_bound_wave", "exact"}, value \in 2 .. 3,
        runs \in {{}, {"subsets"}, {"totals"}}, wave \in WaveFields, level \in 1 .. 5,
        reverify \in BOOLEAN}

\* Records of up to three claims, which may be malformed, share an id, be
\* false, or contradict the published term.
Sound == Claim("a", "exact", 3, Naming("long"), {"subsets", "totals"}, Absent, Absent, 4)
False == [Sound EXCEPT !.kind = "lower_bound", !.value = 4]
Known == [Sound EXCEPT !.kind = "lower_bound", !.l = 2, !.runs = {}, !.level = 1]
Contradicting == [Known EXCEPT !.value = 4]
RecordClaims ==
    {[c EXCEPT !.id = id, !.shape = shape] :
        c \in {Sound, False, Known, Contradicting}, id \in {"a", "b"}, shape \in BOOLEAN}
RecordInputs ==
    {[Checkout(claims, FALSE, FALSE) EXCEPT !.tidy = tidy, !.anchors = anchors] :
        claims \in {<<>>} \cup {<<c>> : c \in RecordClaims}
                  \cup {<<c, d>> : c, d \in RecordClaims}
                  \cup {<<c, d, [Sound EXCEPT !.id = "c"]>> : c, d \in RecordClaims},
        tidy \in BOOLEAN, anchors \in {Anchors, 2 :> 4}}

MCInputs == {RunInputs, WaveInputs, RecordInputs}
=============================================================================
