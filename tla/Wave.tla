-------------------------------- MODULE Wave --------------------------------
(***************************************************************************)
(* A cube-and-conquer wave as evidence: what nk2/cubes.py derives from a   *)
(* split, and what gate/verify_all.py (W1 to W4) and tools/import_wave.py  *)
(* ask of a manifest, of its verdicts and of its transcripts.              *)
(*                                                                         *)
(* A sha256 stands for what was hashed.  Cube index i stands as the set of *)
(* split variables whose bit is set in i, so the 2^s indices of a split    *)
(* are the subsets of its variables; WaveSetup relates this to the bit     *)
(* arithmetic of the source.                                               *)
(***************************************************************************)
EXTENDS Integers, Sequences, FiniteSets

CONSTANTS
    Absent,     \* no such file, key or pointer
    MaxSplit    \* nk2/cubes.py: the largest split, 24

ASSUME MaxSplitAssumption == MaxSplit \in Nat \ {0}

\* The one construction this repository can re-derive.
Construction == "mask-lsb-first.v1"

Vars(split) == {split[i] : i \in DOMAIN split}

\* check_split: distinct main variables, not none and not too many.
UsableSplit(split, n) ==
    /\ Len(split) \in 1 .. MaxSplit
    /\ Vars(split) \subseteq 1 .. n
    /\ \A i, j \in DOMAIN split : split[i] = split[j] => i = j

CubeIds(split) == SUBSET Vars(split)

\* cube_literals: a set bit is the positive literal.
CubeLiterals(split, cube) == cube \cup {-v : v \in Vars(split) \ cube}

\* What the cube file of a split lists, and so what its sha256 stands for.
CubeSet(split) == {CubeLiterals(split, cube) : cube \in CubeIds(split)}

\* The base instance that encoder and parameters regenerate.
Formula(n, k, l, encoder, sb) ==
    [N |-> n, k |-> k, l |-> l, encoder |-> encoder, symmetryBreak |-> sb]

-----------------------------------------------------------------------------
(* The manifest.                                                           *)

\* Keys, types, split and cube set: what importer and gate both demand.
WellCut(m) ==
    /\ m # Absent
    /\ m.shape
    /\ UsableSplit(m.split, m.N)
    /\ m.nCubes = 2 ^ Len(m.split)
    /\ m.construction = Construction
    /\ m.cubes = CubeSet(m.split)

\* W1: the base instance regenerates to what the manifest records.
BaseRegenerates(m) ==
    m.base = Formula(m.N, m.k, m.l, m.encoder, m.symmetryBreak)

-----------------------------------------------------------------------------
(* The verdicts: documents indexed by file or by line.  Whatever will not  *)
(* parse or lacks a key has no shape.                                      *)

\* collect_verdict and load_verdicts: one readable document per cube id.
OnePerCube(docs, split) ==
    \A i \in DOMAIN docs :
        /\ docs[i].shape
        /\ docs[i].cube \in CubeIds(split)
        /\ \A j \in DOMAIN docs : docs[j].cube = docs[i].cube => j = i

\* Seeded bug: what a verdict says it was about is not compared.
BugAnyLiterals(docs, split) ==
    \A cube \in CubeIds(split) :
        \E i \in DOMAIN docs : docs[i].cube = cube /\ docs[i].rc = 20

\* W3 and check_complete: every cube UNSAT, each over its own literals.
EveryCubeUnsat(docs, split) ==
    \A cube \in CubeIds(split) :
        \E i \in DOMAIN docs :
            /\ docs[i].cube = cube
            /\ docs[i].rc = 20
            /\ docs[i].lits = CubeLiterals(split, cube)

-----------------------------------------------------------------------------
(* The transcripts: one line per proof that a checker read.                *)

\* read_transcript_lines and the first half of W4: no line that will not do.
OneLinePerCube(lines, split) ==
    \A i \in DOMAIN lines :
        /\ lines[i].shape
        /\ lines[i].cube \in CubeIds(split)
        /\ \A j \in DOMAIN lines : lines[j].cube = lines[i].cube => j = i

\* Seeded bug: any verified proof of the cube will do.
BugEveryProofRead(lines, docs, split) ==
    \A cube \in CubeIds(split) :
        \E i \in DOMAIN lines, j \in DOMAIN docs :
            /\ lines[i].cube = cube
            /\ docs[j].cube = cube
            /\ lines[i].verified

\* normalise_transcripts and W4: every cube has a line about the very proof
\* its verdict recorded.  Two absences do not agree: a digest is demanded.
EveryProofRead(lines, docs, split) ==
    \A cube \in CubeIds(split) :
        \E i \in DOMAIN lines, j \in DOMAIN docs :
            /\ lines[i].cube = cube
            /\ docs[j].cube = cube
            /\ lines[i].verified
            /\ lines[i].digest # Absent
            /\ lines[i].digest = docs[j].digest
=============================================================================
