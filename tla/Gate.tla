-------------------------------- MODULE Gate --------------------------------
(***************************************************************************)
(* gate/verify_all.py: the rules G1 to G7 and W1 to W6 over every claim,   *)
(* in the order main applies them.  The exit code is the only claim the    *)
(* repository makes.                                                       *)
(*                                                                         *)
(* A sha256 stands for what was hashed.  A path that is not a plain path   *)
(* into the directory its kind of artifact belongs in, and a path to a     *)
(* file that is not there, both name nothing in the repository.            *)
(***************************************************************************)
EXTENDS Wave, Evaluator

CONSTANTS
    Inputs,     \* families of records of claims and command lines to run the gate on
    Witnesses,  \* evidence/witnesses: path to coloring, Absent if torn
    RunLogs,    \* evidence/runs: path to run-log
    Transcripts,\* evidence/transcripts: path to drat-trim transcript
    Waves,      \* evidence/waves: directory to manifest
    Verdicts,   \* evidence/waves: directory and name to form and documents
    Lines,      \* evidence/waves: directory and name to transcript lines
    Anchors,    \* ANCHOR_TERMS, as a function of k
    Encoders,   \* ENCODERS: what the gate can regenerate an instance with
    Fixture,    \* the coloring, k and l of tests/fixtures/g2_flipped_sign
    Refuted,    \* <<formula, literals>>: what some solver returned 20 on
    Verified    \* <<formula, literals, proof>>: what drat-trim verifies

Colors == {1, -1}

\* The colorings an instance stands for: symmetry breaking fixes x1 to true.
Colorings(formula) ==
    {f \in [1 .. formula.N -> Colors] :
        /\ Avoids(f, formula.k, formula.l)
        /\ formula.symmetryBreak => f[1] = 1}

\* The coloring makes every literal on a main variable true.
Satisfies(f, literals) ==
    \A v \in DOMAIN f : /\ v \in literals => f[v] = 1
                        /\ -v \in literals => f[v] = -1

\* The solvers are sound and the encoders say what avoidance means: what was
\* refuted has no coloring.  The gate takes this on trust.
RefutedAssumption ==
    \A x \in Refuted : \A f \in Colorings(x[1]) : ~Satisfies(f, x[2])

ASSUME SoundSolvers == RefutedAssumption

Kinds == {"lower_bound", "upper_bound", "upper_bound_wave", "exact"}

\* LEVELS, weakest to strongest; 0 is no evidence at all.
Witness == 1
UnsatWave == 2
WaveDrat == 3
UnsatDual == 4
DratTranscript == 5
DratReverified == 6

\* What shape stands for in a claim, and in what the claim points at: the
\* types that rule_g1, rule_g3, read_manifest and read_witness insist on.
WellFormed(c) ==
    /\ c.kind \in Kinds
    /\ c.level \in Witness .. DratReverified
    /\ c.k \in Nat \ {0, 1}
    /\ c.l \in Nat \ {0}
    /\ c.value \in Nat \ {0}
    /\ c.wave # Absent /\ c.wave.confirm # Absent =>
           c.wave.confirm.kind \in {"wave", "unsat_runs"}

FormatAssumption ==
    /\ Absent \notin {0, 1}
    /\ \A family \in Inputs : \A r \in family :
           /\ Len(r.claims) \in Nat
           /\ DOMAIN r.claims = 1 .. Len(r.claims)
           /\ \A i \in DOMAIN r.claims : r.claims[i].shape => WellFormed(r.claims[i])
    /\ \A p \in DOMAIN Witnesses :
           Witnesses[p] # Absent => Witnesses[p] \in Seq(Colors)
    /\ \A p \in DOMAIN RunLogs :
           RunLogs[p].shape => RunLogs[p].symmetryBreak \in BOOLEAN
    /\ \A d \in DOMAIN Waves :
           Waves[d].shape => Waves[d].symmetryBreak \in BOOLEAN

ASSUME RecordFormat == FormatAssumption

VARIABLES
    repo,       \* the record and the command line, which the gate only reads
    pc,         \* the rule that is next
    at,         \* index of the claim being checked
    seen,       \* ids of the claims accepted by G1 so far
    failures,   \* Report: <<rule, claim id>> of every failure
    found,      \* what the rules found out about the current claim
    exit        \* the exit code, Absent while the gate runs

vars == <<repo, pc, at, seen, failures, found, exit>>

NothingFound ==
    [witness |-> FALSE, dual |-> FALSE, encoders |-> {}, shas |-> {}, drat |-> 0,
     wave |-> FALSE, proofs |-> FALSE, confirmed |-> FALSE]

Init ==
    /\ \E family \in Inputs : repo \in family
    /\ pc = "anchors"
    /\ at = 1
    /\ seen = {}
    /\ failures = {}
    /\ found = NothingFound
    /\ exit = Absent

claim == repo.claims[at]

Goto(next) == pc' = next

\* Report.fail for the current claim, unless the condition holds.
Require(rule, condition) ==
    failures' = IF condition THEN failures ELSE failures \cup {<<rule, claim.id>>}

\* Report.fail outside any claim.
RequireGlobally(rule, condition) ==
    failures' = IF condition THEN failures ELSE failures \cup {<<rule, "-">>}

\* Report.clean
Clean(id) == \A f \in failures : f[2] # id

-----------------------------------------------------------------------------
(* G1, G5 and G6: the record as a whole.                                   *)

AnchorsFile ==
    /\ pc = "anchors"
    /\ RequireGlobally("G5", repo.anchors = Anchors)
    /\ Goto("G1")
    /\ UNCHANGED <<repo, at, seen, found, exit>>

NextClaim ==
    /\ at' = at + 1
    /\ found' = NothingFound
    /\ Goto("G1")

\* Seeded bug: a claim that G1 turns away is dropped without a word.
BugRuleG1 ==
    /\ pc = "G1"
    /\ at \in DOMAIN repo.claims
    /\ UNCHANGED <<repo, exit, failures>>
    /\ IF claim.shape /\ claim.id \notin seen
       THEN /\ seen' = seen \cup {claim.id}
            /\ Goto("G2")
            /\ UNCHANGED <<at, found>>
       ELSE NextClaim /\ UNCHANGED seen

\* A claim of the wrong shape, or with an id seen before, fails and is skipped.
RuleG1 ==
    /\ pc = "G1"
    /\ at \in DOMAIN repo.claims
    /\ Require("G1", claim.shape /\ claim.id \notin seen)
    /\ UNCHANGED <<repo, exit>>
    /\ IF claim.shape /\ claim.id \notin seen
       THEN /\ seen' = seen \cup {claim.id}
            /\ Goto("G2")
            /\ UNCHANGED <<at, found>>
       ELSE NextClaim /\ UNCHANGED seen

\* Published terms are for l = 2; past them only the next k may be exact.
AgreesWithAnchors(c) ==
    IF c.k \in DOMAIN Anchors
    THEN c.l = 2 =>
            CASE c.kind = "exact"       -> c.value = Anchors[c.k]
              [] c.kind = "lower_bound" -> c.value <= Anchors[c.k]
              [] OTHER                  -> c.value >= Anchors[c.k]
    ELSE c.kind = "exact" => c.k - 1 \in DOMAIN Anchors

RuleG5 ==
    /\ pc = "G5"
    /\ Require("G5", AgreesWithAnchors(claim))
    /\ Goto("G7")
    /\ UNCHANGED <<repo, at, seen, found, exit>>

\* Seeded bug: the exit code is decided after any claim.
BugFinish ==
    /\ pc = "G1"
    /\ RequireGlobally("G6",
           repo.tidy /\ ~Avoids(Fixture.coloring, Fixture.k, Fixture.l))
    /\ exit' = IF failures' = {} THEN 0 ELSE 1
    /\ Goto("done")
    /\ UNCHANGED <<repo, at, seen, found>>

\* Once every claim is done: G6 scans the text files, the self-check asks the
\* evaluator about a coloring made to be refused, and the exit code falls.
Finish ==
    /\ pc = "G1"
    /\ at \notin DOMAIN repo.claims
    /\ RequireGlobally("G6",
           repo.tidy /\ ~Avoids(Fixture.coloring, Fixture.k, Fixture.l))
    /\ exit' = IF failures' = {} THEN 0 ELSE 1
    /\ Goto("done")
    /\ UNCHANGED <<repo, at, seen, found>>

-----------------------------------------------------------------------------
(* G2: the lower side.                                                     *)

NeedsWitness(c) == c.kind \in {"lower_bound", "exact"}

\* Seeded bug: the length of the coloring is not compared with the claim.
BugGoodWitness(c) ==
    /\ c.witness.path \in DOMAIN Witnesses
    /\ LET f == Witnesses[c.witness.path] IN
       f = c.witness.sha256 /\ f # Absent /\ Avoids(f, c.k, c.l)

\* The file is the recorded one, parses, is long enough and avoids (k, l).
GoodWitness(c) ==
    /\ c.witness.path \in DOMAIN Witnesses
    /\ LET f == Witnesses[c.witness.path] IN
       /\ f = c.witness.sha256
       /\ f # Absent
       /\ NeedsWitness(c) => Len(f) = c.value - 1
       /\ Avoids(f, c.k, c.l)

RuleG2 ==
    /\ pc = "G2"
    /\ LET good == claim.witness # Absent /\ GoodWitness(claim) IN
       /\ Require("G2", IF claim.witness = Absent THEN ~NeedsWitness(claim) ELSE good)
       /\ found' = [found EXCEPT !.witness = good]
    /\ Goto("G3")
    /\ UNCHANGED <<repo, at, seen, exit>>

-----------------------------------------------------------------------------
(* G3 and G4: the upper side on monolithic runs.                           *)

NeedsRuns(c) ==
    \/ c.kind = "upper_bound"
    \/ c.kind = "exact" /\ c.wave = Absent

\* Seeded bug: a run-log about another N will do.
BugGoodRun(c, path) ==
    /\ path \in DOMAIN RunLogs
    /\ LET log == RunLogs[path] IN
       /\ log.shape /\ log.verdict = "UNSAT" /\ log.rc = 20
       /\ log.sha256 = Formula(log.N, log.k, log.l, log.encoder, log.symmetryBreak)

\* The run-log says UNSAT twice over, is about the claim's instance, and that
\* instance regenerates from the recorded parameters.
GoodRun(c, path) ==
    /\ path \in DOMAIN RunLogs
    /\ LET log == RunLogs[path] IN
       /\ log.shape /\ log.verdict = "UNSAT" /\ log.rc = 20
       /\ <<log.N, log.k, log.l>> = <<c.value, c.k, c.l>>
       /\ log.encoder \in Encoders
       /\ log.sha256 = Formula(log.N, log.k, log.l, log.encoder, log.symmetryBreak)

GoodRuns(c) == {path \in c.runs : GoodRun(c, path)}

RunEncoders(c) == {RunLogs[path].encoder : path \in GoodRuns(c)}

TwoOf(encoders) == \E e1, e2 \in encoders : e1 # e2

RuleG3 ==
    /\ pc = "G3"
    /\ Require("G3", /\ GoodRuns(claim) = claim.runs
                     /\ NeedsRuns(claim) => TwoOf(RunEncoders(claim)))
    /\ found' = [found EXCEPT
                   !.encoders = RunEncoders(claim),
                   !.shas = {RunLogs[path].sha256 : path \in GoodRuns(claim)},
                   !.dual = TwoOf(RunEncoders(claim)) /\ GoodRuns(claim) = claim.runs]
    /\ Goto("G4")
    /\ UNCHANGED <<repo, at, seen, exit>>

\* Seeded bug: a transcript need not be about an instance that G3 verified.
BugGoodTranscript(c, shas) ==
    /\ c.drat.transcript \in DOMAIN Transcripts
    /\ LET t == Transcripts[c.drat.transcript] IN
       /\ t.proof = c.drat.proof
       /\ t.verified
       /\ t.proofOnDisk # "other"

\* The transcript is about the claimed proof and an instance G3 verified.
GoodTranscript(c, shas) ==
    /\ c.drat.transcript \in DOMAIN Transcripts
    /\ LET t == Transcripts[c.drat.transcript] IN
       /\ t.proof = c.drat.proof
       /\ t.instance \in shas
       /\ t.verified
       /\ t.proofOnDisk # "other"

\* --reverify-drat with a drat-trim binary and the proof itself at hand.
Reruns(t) == repo.reverify /\ repo.tool /\ t.proofOnDisk = "same"

RerunVerifies(t) ==
    t.instanceOnDisk = t.instance /\ <<t.instance, {}, t.proof>> \in Verified

\* What the claim's proof is worth: nothing if there is none, if its transcript
\* will not do, or if a rerun does not verify it.
DratLevel(c, shas) ==
    LET t == Transcripts[c.drat.transcript] IN
    IF c.drat = Absent \/ ~GoodTranscript(c, shas) THEN 0
    ELSE IF ~Reruns(t) THEN DratTranscript
    ELSE IF RerunVerifies(t) THEN DratReverified
    ELSE 0

RuleG4 ==
    /\ pc = "G4"
    /\ LET level == DratLevel(claim, found.shas) IN
       /\ Require("G4", claim.drat # Absent => level > 0)
       /\ found' = [found EXCEPT !.drat = level]
    /\ Goto("waves")
    /\ UNCHANGED <<repo, at, seen, exit>>

-----------------------------------------------------------------------------
(* W1 to W6: the upper side on cube-and-conquer waves.  A block names a    *)
(* wave by the directory its manifest.json sits in, and files by directory *)
(* and name; the confirming wave is a block like the claim's own.          *)

\* read_manifest: nothing, unless it is there and has the right shape.
Manifest(block) ==
    IF block.manifest \in DOMAIN Waves
    THEN LET m == Waves[block.manifest] IN
         IF m.shape THEN m ELSE Absent
    ELSE Absent

\* Seeded bug: verdicts may sit in another wave's directory.
BugVerdictsRead(block) ==
    /\ block.verdicts \in DOMAIN Verdicts
    /\ Verdicts[block.verdicts].form = block.form
    /\ OnePerCube(Verdicts[block.verdicts].docs, Manifest(block).split)

\* read_verdicts: inside the wave's directory, in the form its name says.
VerdictsRead(block) ==
    /\ block.verdicts \in DOMAIN Verdicts
    /\ block.verdicts.at = block.manifest
    /\ Verdicts[block.verdicts].form = block.form
    /\ OnePerCube(Verdicts[block.verdicts].docs, Manifest(block).split)

\* W1 to W3: a complete decomposition, every cube UNSAT.
Complete(block) ==
    LET m == Manifest(block) IN
    /\ WellCut(m)
    /\ m.encoder \in Encoders
    /\ BaseRegenerates(m)
    /\ VerdictsRead(block)
    /\ EveryCubeUnsat(Verdicts[block.verdicts].docs, m.split)

\* reverify_wave: of the proofs still on disk, all are the recorded ones and
\* verify once more.  Without a drat-trim this is waived.
WaveReverifies(block, lines) ==
    LET m == Manifest(block) IN
    repo.tool =>
        \A i \in DOMAIN lines :
            CASE lines[i].onDisk = "none"  -> TRUE
              [] lines[i].onDisk = "other" -> FALSE
              [] OTHER -> <<m.base, CubeLiterals(m.split, lines[i].cube),
                            lines[i].digest>> \in Verified

\* W4: one line per cube, each about the proof that the verdict recorded.
ProofsChecked(block) ==
    /\ block.transcripts \in DOMAIN Lines
    /\ block.transcripts.at = block.manifest
    /\ LET lines == Lines[block.transcripts]
           split == Manifest(block).split
       IN /\ OneLinePerCube(lines, split)
          /\ EveryProofRead(lines, Verdicts[block.verdicts].docs, split)
          /\ \A i \in DOMAIN lines : lines[i].at = block.manifest
          /\ repo.reverify => WaveReverifies(block, lines)

\* verify_wave reports nothing.
WaveAccepted(block) ==
    /\ Complete(block)
    /\ block.transcripts # Absent => ProofsChecked(block)

RuleWaves ==
    /\ pc = "waves"
    /\ Require("W4", claim.wave # Absent => WaveAccepted(claim.wave))
    /\ LET ok == claim.wave # Absent /\ Complete(claim.wave) IN
       found' = [found EXCEPT
                   !.wave = ok,
                   !.proofs = /\ ok
                              /\ claim.wave.transcripts # Absent
                              /\ ProofsChecked(claim.wave)]
    /\ Goto("W5")
    /\ UNCHANGED <<repo, at, seen, exit>>

SameInstance(m, c) == <<m.N, m.k, m.l>> = <<c.value, c.k, c.l>>

\* Seeded bug: a wave about another N will do.
BugKindAllowsWave(c) ==
    IF c.wave = Absent
    THEN c.kind # "upper_bound_wave"
    ELSE c.kind \notin {"lower_bound", "upper_bound"}

\* The kind says whether a wave carries the claim, and both are about one
\* instance.
KindAllowsWave(c) ==
    IF c.wave = Absent
    THEN c.kind # "upper_bound_wave"
    ELSE /\ c.kind \notin {"lower_bound", "upper_bound"}
         /\ Manifest(c.wave) # Absent => SameInstance(Manifest(c.wave), c)

RuleW5 ==
    /\ pc = "W5"
    /\ Require("W5", KindAllowsWave(claim))
    /\ Goto("W6")
    /\ UNCHANGED <<repo, at, seen, found, exit>>

\* The encoder of the claim's own wave, if its manifest could be read.
PrimaryEncoder(c) ==
    IF Manifest(c.wave) = Absent THEN Absent ELSE Manifest(c.wave).encoder

\* Seeded bug: a second run of the same encoding confirms.
BugConfirmed(c, runEncoders) ==
    LET confirm == c.wave.confirm IN
    /\ confirm # Absent
    /\ IF confirm.kind = "unsat_runs" THEN runEncoders # {}
       ELSE Complete(confirm) /\ SameInstance(Manifest(confirm), c)

\* By runs or by a second wave, of another encoder and for the same instance.
Confirmed(c, runEncoders) ==
    LET confirm == c.wave.confirm IN
    /\ confirm # Absent
    /\ IF confirm.kind = "unsat_runs"
       THEN runEncoders \ {PrimaryEncoder(c)} # {}
       ELSE /\ Complete(confirm)
            /\ Manifest(confirm).encoder # PrimaryEncoder(c)
            /\ SameInstance(Manifest(confirm), c)

ConfirmedByWave(c) ==
    /\ c.wave # Absent
    /\ c.wave.confirm # Absent
    /\ c.wave.confirm.kind = "wave"

\* Without a confirmation the claim must not say exact; a confirmation that
\* is named must hold, its transcripts included.
ConfirmationHolds(c, runEncoders) ==
    LET confirm == c.wave.confirm IN
    IF confirm = Absent
    THEN c.kind # "exact"
    ELSE /\ Confirmed(c, runEncoders)
         /\ confirm.kind = "wave" => WaveAccepted(confirm)

RuleW6 ==
    /\ pc = "W6"
    /\ Require("W6", claim.wave # Absent => ConfirmationHolds(claim, found.encoders))
    /\ found' = [found EXCEPT
                   !.confirmed = /\ claim.wave # Absent
                                 /\ Confirmed(claim, found.encoders)]
    /\ Goto("G5")
    /\ UNCHANGED <<repo, at, seen, exit>>

-----------------------------------------------------------------------------
(* G7: no claim says more than its artifacts reach.                        *)

\* Seeded bug: proofs lift a wave to the top without a second encoder.
BugWaveLevel(confirmed, proofs) ==
    CASE proofs                -> DratTranscript
      [] confirmed /\ ~proofs  -> UnsatDual
      [] ~confirmed /\ ~proofs -> UnsatWave

\* wave_evidence_level
WaveLevel(confirmed, proofs) ==
    CASE confirmed /\ proofs   -> DratTranscript
      [] confirmed /\ ~proofs  -> UnsatDual
      [] ~confirmed /\ proofs  -> WaveDrat
      [] ~confirmed /\ ~proofs -> UnsatWave

\* A proof lifts only a claim that two encoders already stand behind.
Reaches(level) ==
    \/ found.witness /\ level <= Witness
    \/ found.dual /\ level <= UnsatDual
    \/ found.dual /\ level <= found.drat
    \/ found.wave /\ level <= WaveLevel(found.confirmed, found.proofs)

\* Speaks only when nothing else about the claim is broken.
RuleG7 ==
    /\ pc = "G7"
    /\ Require("G7", Clean(claim.id) => Reaches(claim.level))
    /\ UNCHANGED <<repo, seen, exit>>
    /\ NextClaim

-----------------------------------------------------------------------------

Next ==
    \/ AnchorsFile \/ RuleG1 \/ RuleG2 \/ RuleG3 \/ RuleG4
    \/ RuleWaves \/ RuleW5 \/ RuleW6 \/ RuleG5 \/ RuleG7 \/ Finish

Spec == Init /\ [][Next]_vars

-----------------------------------------------------------------------------
(* What an exit code of 0 is worth.                                        *)

\* What the gate takes on trust about the evidence: a return code of 20 was a
\* solver's, over the instance recorded beside it, and s VERIFIED was a
\* checker's.  The verdicts and transcripts of a wave are about its manifest.
Honest ==
    /\ \A p \in DOMAIN RunLogs :
           LET log == RunLogs[p] IN
           log.shape /\ log.rc = 20 => <<log.sha256, {}>> \in Refuted
    /\ \A p \in DOMAIN Transcripts :
           LET t == Transcripts[p] IN
           t.verified => <<t.instance, {}, t.proof>> \in Verified
    /\ \A p \in DOMAIN Verdicts :
           LET m == Waves[p.at]
               docs == Verdicts[p].docs
           IN \A i \in DOMAIN docs :
                 docs[i].shape /\ docs[i].rc = 20 => <<m.base, docs[i].lits>> \in Refuted
    /\ \A p \in DOMAIN Lines :
           LET m == Waves[p.at]
               lines == Lines[p]
           IN \A i \in DOMAIN lines :
                 lines[i].shape /\ lines[i].verified =>
                     <<m.base, CubeLiterals(m.split, lines[i].cube), lines[i].digest>>
                         \in Verified

ASSUME HonestEvidence == Honest

\* What the verdicts, and the transcripts, of a wave block record.
SolvedIn(block) ==
    IF block.verdicts \notin DOMAIN Verdicts THEN {}
    ELSE LET docs == Verdicts[block.verdicts].docs IN
         {<<Waves[block.verdicts.at].base, docs[i].lits>> :
             i \in {j \in DOMAIN docs : docs[j].shape /\ docs[j].rc = 20}}

CheckedIn(block) ==
    IF block.transcripts \notin DOMAIN Lines THEN {}
    ELSE LET m == Waves[block.transcripts.at]
             lines == Lines[block.transcripts]
         IN {<<m.base, CubeLiterals(m.split, lines[i].cube), lines[i].digest>> :
                i \in {j \in DOMAIN lines : lines[j].shape /\ lines[j].verified}}

\* What solvers returned 20 on, according to the artifacts the claim names.
Solved(c) ==
    {<<RunLogs[p].sha256, {}>> :
        p \in {q \in c.runs \cap DOMAIN RunLogs : RunLogs[q].shape /\ RunLogs[q].rc = 20}}
      \cup (IF c.wave = Absent THEN {} ELSE SolvedIn(c.wave))
      \cup (IF ConfirmedByWave(c) THEN SolvedIn(c.wave.confirm) ELSE {})

\* Solved whole, or cube by cube along the split of some wave.
Decided(formula, c) ==
    \/ <<formula, {}>> \in Solved(c)
    \/ \E d \in DOMAIN Waves :
          LET split == Waves[d].split IN
          /\ UsableSplit(split, formula.N)
          /\ \A cube \in CubeIds(split) : <<formula, CubeLiterals(split, cube)>> \in Solved(c)

DecidedBy(c) ==
    {e \in Encoders :
        \E sb \in BOOLEAN : Decided(Formula(c.value, c.k, c.l, e, sb), c)}

\* A checker accepted the claimed proof of the claimed instance, or the proof
\* that each verdict of the claim's wave recorded.
ProofsVerified(c) ==
    \/ /\ c.drat # Absent
       /\ \E e \in Encoders, sb \in BOOLEAN :
             LET t == Transcripts[c.drat.transcript] IN
             /\ t.verified
             /\ t.proof = c.drat.proof
             /\ t.instance = Formula(c.value, c.k, c.l, e, sb)
    \/ /\ c.wave # Absent
       /\ LET m == Manifest(c.wave)
              docs == Verdicts[c.wave.verdicts].docs
          IN /\ SameInstance(m, c)
             /\ \A cube \in CubeIds(m.split) :
                   \E i \in DOMAIN docs :
                       /\ docs[i].cube = cube
                       /\ <<m.base, CubeLiterals(m.split, cube), docs[i].digest>>
                             \in CheckedIn(c.wave)

\* What the kind and the evidence level of a claim say about the evidence.
Established(c) ==
    /\ c.kind # "lower_bound" => DecidedBy(c) # {}
    /\ c.kind \in {"upper_bound", "exact"} => TwoOf(DecidedBy(c))
    /\ c.level >= UnsatWave => DecidedBy(c) # {}
    /\ c.level >= UnsatDual => TwoOf(DecidedBy(c))
    /\ c.level >= DratTranscript => ProofsVerified(c)
    /\ c.level >= DratReverified => repo.reverify /\ repo.tool

AvoidedAt(n, k, l) == \E f \in [1 .. n -> Colors] : Avoids(f, k, l)

\* What the claim says about N(k, l), the least n no coloring of which avoids.
IsTrue(c) ==
    /\ c.kind \in {"lower_bound", "exact"} => AvoidedAt(c.value - 1, c.k, c.l)
    /\ c.kind # "lower_bound" => ~AvoidedAt(c.value, c.k, c.l)

\* The gate's state is well formed; once it exits, it has seen every claim.
TypeOK ==
    /\ pc \in {"anchors", "G1", "G2", "G3", "G4", "waves", "W5", "W6", "G5", "G7", "done"}
    /\ at \in 1 .. Len(repo.claims) + 1
    /\ seen \subseteq {repo.claims[i].id : i \in 1 .. at - 1} \cup
                       (IF pc \in {"anchors", "G1", "done"} THEN {} ELSE {claim.id})
    /\ exit \in {Absent, 0, 1}
    /\ exit # Absent <=> pc = "done"
    /\ exit # Absent => at = Len(repo.claims) + 1

\* When the gate exits 0 every claim of the record is well formed, no two
\* share an id, and each is true of N(k, l): whatever artifacts the claims
\* point at, in whatever combination.
RecordTrue ==
    exit = 0 =>
        /\ \A i \in DOMAIN repo.claims :
              repo.claims[i].shape /\ IsTrue(repo.claims[i])
        /\ \A i, j \in DOMAIN repo.claims :
              repo.claims[i].id = repo.claims[j].id => i = j

\* The exit code stands for the record, once every claim has been seen.
GateSound == TypeOK /\ RecordTrue

\* When the gate exits 0 every claim stands on what its kind and level say:
\* exact and the levels from unsat-dual up on two encoders, drat-transcript
\* and up on proofs a checker read.
LevelsEarned ==
    exit = 0 => \A i \in DOMAIN repo.claims : Established(repo.claims[i])

\* docs/TDD.md: a wave with no transcripts cannot reach wave-drat-verified,
\* however it is declared; G7 refuses it.
ProofTierNeedsTranscripts ==
    exit = 0 =>
        \A i \in DOMAIN repo.claims :
            LET c == repo.claims[i] IN
            c.level = WaveDrat /\ c.wave # Absent => c.wave.transcripts # Absent
=============================================================================
