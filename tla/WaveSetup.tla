------------------------------ MODULE WaveSetup ------------------------------
(***************************************************************************)
(* How a wave directory comes about: scratch/cube_wave2.py gen, with a     *)
(* person's encoder and depth, and scratch/gen_seqcount_verified.py, which *)
(* runs it and writes the cube file again in the gate's notation.  Either  *)
(* may be killed and run again over a directory that already holds         *)
(* verdicts, and under a driver that has read the files.                   *)
(*                                                                         *)
(* Cubes have an index here, as in file names; IndexSet relates it to the  *)
(* sets of variables that module Wave knows cubes by.                      *)
(***************************************************************************)
EXTENDS Wave

CONSTANTS
    Torn,       \* a base instance that is not all there
    N,          \* main variables; k and l play no part
    Encoders,
    Ranking,    \* variables by falling number of occurrences in the base
    Depths,     \* nsplit, as people choose it
    VerifiedDepth,  \* and as gen_seqcount_verified.py fixes it
    Solutions,  \* the colorings that satisfy the base instance
    MaxKills

SetupAssumption ==
    /\ N \in Nat /\ MaxKills \in Nat
    /\ Solutions \subseteq [1 .. N -> {1, -1}]
    /\ Depths \cup {VerifiedDepth} \subseteq 1 .. N
    /\ VerifiedDepth <= MaxSplit
    /\ Ranking \in [1 .. N -> 1 .. N]
    /\ \A i, j \in 1 .. N : Ranking[i] = Ranking[j] => i = j

VARIABLES
    base,       \* base.cnf: Absent, Torn or a formula
    cubes,      \* cubes.txt: rows of literals and their notation
    manifest,
    verdicts,   \* verdicts/v<i>.json: literals and return code by index
    setup,      \* the program writing the directory
    driver,     \* the job list of cube_wave2.py wave, Absent if none runs
    kills

vars == <<base, cubes, manifest, verdicts, setup, driver, kills>>

-----------------------------------------------------------------------------
(* nk2/cubes.py, and the same arithmetic in gen and gen_seqcount_verified. *)

\* Seeded bug: the first split variable is the highest bit.
BugBit(index, j, n) == (index \div 2 ^ (n - j)) % 2 = 1

\* (index >> j) & 1, for the j-th of n split variables counted from one.
Bit(index, j, n) == (index \div 2 ^ (j - 1)) % 2 = 1

Row(split, index) ==
    [j \in DOMAIN split |-> IF Bit(index, j, Len(split)) THEN split[j] ELSE -split[j]]

\* iter_cube_lines: every row, in index order.
Rows(split) == [n \in 1 .. 2 ^ Len(split) |-> Row(split, n - 1)]

Literals(row) == {row[j] : j \in DOMAIN row}

\* The cube of an index, as module Wave names it: the variables whose bit is
\* set, the first of the split being the lowest.
IndexSet(split, index) ==
    {split[j] : j \in {j \in DOMAIN split : (index \div 2 ^ (j - 1)) % 2 = 1}}

\* gen: the most frequent variables, sorted.
SplitOf(depth) == CHOOSE s \in [1 .. depth -> {Ranking[i] : i \in 1 .. depth}] :
                      \A i, j \in 1 .. depth : i < j => s[i] < s[j]

BaseOf(encoder) == Formula(N, 0, 0, encoder, TRUE)

-----------------------------------------------------------------------------
(* Writing the directory.                                                  *)

NoSetup == [pc |-> "idle", encoder |-> Absent, depth |-> 0, verified |-> FALSE,
            next |-> Absent]
NoCubes == [icnf |-> FALSE, rows |-> <<>>]

Init ==
    /\ base = Absent
    /\ cubes = NoCubes
    /\ manifest = Absent
    /\ verdicts = [i \in 0 .. 2 ^ N - 1 |-> Absent]
    /\ setup = NoSetup
    /\ driver = Absent
    /\ kills = 0

Goto(pc) == setup' = [setup EXCEPT !.pc = pc]

Resting == setup.pc \in {"idle", "killed", "exit 0", "exit 2"}

Begin(encoder, depth, verified) ==
    /\ Resting
    /\ setup' = [NoSetup EXCEPT !.pc = "base", !.encoder = encoder,
                                !.depth = depth, !.verified = verified]
    /\ UNCHANGED <<base, cubes, manifest, verdicts, driver, kills>>

\* write_cnf opens the final file and then copies the body into it.
OpenBase ==
    /\ setup.pc = "base"
    /\ base' = Torn
    /\ Goto("fill base")
    /\ UNCHANGED <<cubes, manifest, verdicts, driver, kills>>

FillBase ==
    /\ setup.pc = "fill base"
    /\ base' = BaseOf(setup.encoder)
    /\ Goto("cubes")
    /\ UNCHANGED <<cubes, manifest, verdicts, driver, kills>>

\* A number cut short is another number.
CutRow(row) ==
    {SubSeq(row, 1, n) : n \in 1 .. Len(row) - 1}
        \cup {[row EXCEPT ![Len(row)] = IF @ > 0 THEN v ELSE -v] :
                  v \in 1 .. (IF row[Len(row)] > 0 THEN row[Len(row)] ELSE -row[Len(row)]) - 1}

\* What a cube file may hold while it is being written.
CutRows(rows) ==
    {SubSeq(rows, 1, n) : n \in 0 .. Len(rows) - 1}
        \cup UNION {{Append(SubSeq(rows, 1, n - 1), cut) : cut \in CutRow(rows[n])} :
                        n \in 1 .. Len(rows)}

OpenCubes ==
    /\ setup.pc \in {"cubes", "icnf"}
    /\ \E rows \in CutRows(Rows(SplitOf(setup.depth))) :
        cubes' = [icnf |-> setup.pc = "icnf", rows |-> rows]
    /\ Goto(IF setup.pc = "icnf" THEN "fill icnf" ELSE "fill cubes")
    /\ UNCHANGED <<base, manifest, verdicts, driver, kills>>

FillCubes ==
    /\ setup.pc \in {"fill cubes", "fill icnf"}
    /\ cubes' = [cubes EXCEPT !.rows = Rows(SplitOf(setup.depth))]
    /\ Goto(IF setup.pc = "fill icnf" THEN "load" ELSE "meta")
    /\ UNCHANGED <<base, manifest, verdicts, driver, kills>>

\* What a sha256 of the cube file tells: the gate's is over its notation.
CubesHash == IF cubes.icnf THEN {Literals(cubes.rows[i]) : i \in DOMAIN cubes.rows}
             ELSE {}

Meta ==
    /\ setup.pc = "meta"
    /\ setup' = [setup EXCEPT
          !.pc = "open manifest",
          !.next = [shape |-> TRUE, N |-> N, k |-> 0, l |-> 0,
                    encoder |-> setup.encoder, symmetryBreak |-> TRUE,
                    base |-> BaseOf(setup.encoder), split |-> SplitOf(setup.depth),
                    nCubes |-> 2 ^ setup.depth, cubes |-> CubesHash,
                    construction |-> "all sign patterns"]]
    /\ UNCHANGED <<base, cubes, manifest, verdicts, driver, kills>>

OpenManifest ==
    /\ setup.pc \in {"open manifest", "reopen manifest"}
    /\ manifest' = [setup.next EXCEPT !.shape = FALSE]
    /\ Goto(IF setup.pc = "open manifest" THEN "fill manifest" ELSE "refill manifest")
    /\ UNCHANGED <<base, cubes, verdicts, driver, kills>>

\* Seeded bug: the file is left unflushed.
BugFillManifest ==
    /\ setup.pc = "fill manifest"
    /\ Goto(IF setup.verified THEN "icnf" ELSE "exit 0")
    /\ UNCHANGED <<base, cubes, manifest, verdicts, driver, kills>>

\* gen ends here; gen_seqcount_verified goes on to the second notation.
FillManifest ==
    /\ setup.pc = "fill manifest"
    /\ manifest' = setup.next
    /\ Goto(IF setup.verified THEN "icnf" ELSE "exit 0")
    /\ UNCHANGED <<base, cubes, verdicts, driver, kills>>

\* Seeded bug: the new notation is recorded under the old file's hash.
BugLoad ==
    /\ setup.pc = "load"
    /\ setup' = [setup EXCEPT !.pc = "reopen manifest",
                              !.next = [manifest EXCEPT !.construction = Construction]]
    /\ UNCHANGED <<base, cubes, manifest, verdicts, driver, kills>>

\* The manifest of gen, with the hash and the name of the new notation.
Load ==
    /\ setup.pc = "load"
    /\ setup' = [setup EXCEPT !.pc = "reopen manifest",
                              !.next = [manifest EXCEPT !.cubes = CubesHash,
                                                        !.construction = Construction]]
    /\ UNCHANGED <<base, cubes, manifest, verdicts, driver, kills>>

\* Both files must be those of the lost original.
RefillManifest ==
    /\ setup.pc = "refill manifest"
    /\ manifest' = setup.next
    /\ Goto(IF base = BaseOf("seqcount") /\ CubesHash = CubeSet(SplitOf(VerifiedDepth))
            THEN "exit 0" ELSE "exit 2")
    /\ UNCHANGED <<base, cubes, verdicts, driver, kills>>

Kill ==
    /\ ~Resting
    /\ kills < MaxKills
    /\ kills' = kills + 1
    /\ Goto("killed")
    /\ UNCHANGED <<base, cubes, manifest, verdicts, driver>>

-----------------------------------------------------------------------------
(* A driver over the same directory.                                       *)

\* run_many parses both notations; the jobs are read once.  A person starts it
\* when no generator runs, perhaps over what a kill has left, and may lay the
\* directory out again under it.  Without any job it ends.
StartDriver ==
    /\ driver = Absent
    /\ Resting
    /\ cubes.rows # <<>>
    /\ driver' = cubes.rows
    /\ UNCHANGED <<base, cubes, manifest, verdicts, setup, kills>>

Holds(f, literals) ==
    \A v \in 1 .. N : (v \in literals => f[v] = 1) /\ (-v \in literals => f[v] = -1)

\* A cube is satisfiable if a model of the base makes its literals true.
Answer(literals) == IF \E f \in Solutions : Holds(f, literals) THEN 10 ELSE 20

\* solve_cube's cache test asks for an answer, not what it is about.
Cached(index, row) == verdicts[index] # Absent

\* A torn base has no answer, nor has a solver out of time.
SolveCube(index) ==
    /\ driver # Absent
    /\ index + 1 \in DOMAIN driver
    /\ base \notin {Absent, Torn}
    /\ ~Cached(index, driver[index + 1])
    /\ LET literals == Literals(driver[index + 1]) IN
       verdicts' = [verdicts EXCEPT ![index] =
                       [literals |-> literals, rc |-> Answer(literals)]]
    /\ UNCHANGED <<base, cubes, manifest, setup, driver, kills>>

EndDriver ==
    /\ driver # Absent
    /\ driver' = Absent
    /\ UNCHANGED <<base, cubes, manifest, verdicts, setup, kills>>

-----------------------------------------------------------------------------
Next ==
    \/ \E encoder \in Encoders, depth \in Depths : Begin(encoder, depth, FALSE)
    \/ Begin("seqcount", VerifiedDepth, TRUE)
    \/ OpenBase \/ FillBase \/ OpenCubes \/ FillCubes \/ Meta
    \/ OpenManifest \/ FillManifest \/ Load \/ RefillManifest \/ Kill
    \/ StartDriver \/ EndDriver
    \/ \E index \in DOMAIN verdicts : SolveCube(index)

Spec == Init /\ [][Next]_vars

-----------------------------------------------------------------------------
(* Properties.                                                             *)

Indices(m) == 0 .. m.nCubes - 1

\* The verdicts as the importer and the gate read them.
Documents(m) ==
    [i \in {i \in DOMAIN verdicts : verdicts[i] # Absent} |->
        [shape |-> TRUE, rc |-> verdicts[i].rc, lits |-> verdicts[i].literals,
         digest |-> Absent,
         cube |-> IF i \in Indices(m) THEN IndexSet(m.split, i) ELSE Absent]]

Accepted ==
    /\ WellCut(manifest)
    /\ BaseRegenerates(manifest)
    /\ OnePerCube(Documents(manifest), manifest.split)
    /\ EveryCubeUnsat(Documents(manifest), manifest.split)

\* The state has the shape the programs give it; half of a manifest is only
\* there while one is being written or after a kill.
TypeOK ==
    /\ base \in {Absent, Torn} \cup {BaseOf(e) : e \in Encoders \cup {"seqcount"}}
    /\ cubes.icnf \in BOOLEAN
    /\ manifest # Absent =>
          \/ manifest.shape
          \/ setup.pc \notin {"idle", "exit 0", "exit 2"}
    /\ \A i \in DOMAIN verdicts :
          verdicts[i] # Absent => verdicts[i].rc \in {10, 20}
    /\ kills \in 0 .. MaxKills

\* "PROVE it matches the lost original": when gen_seqcount_verified.py exits 0
\* the directory is a wave the gate can re-derive, base, split and cube file
\* alike, whatever an earlier run that was killed had left there.
SetupVerifies ==
    setup.pc = "exit 0" /\ setup.verified =>
        /\ WellCut(manifest)
        /\ BaseRegenerates(manifest)
        /\ base = manifest.base
        /\ CubesHash = manifest.cubes

\* Three programs compute the same bits: row i of a finished cube file is the
\* cube that the gate derives for index i, in either notation, so that every
\* coloring falls into exactly one job.
RowsAreCubes ==
    setup.pc \in {"meta", "load"} =>
        LET split == SplitOf(setup.depth) IN
        /\ \A i \in 0 .. 2 ^ setup.depth - 1 :
              Literals(cubes.rows[i + 1]) = CubeLiterals(split, IndexSet(split, i))
        /\ \A f \in [1 .. N -> {1, -1}] :
              \E i \in DOMAIN cubes.rows : \A j \in DOMAIN cubes.rows :
                  Holds(f, Literals(cubes.rows[j])) <=> j = i

\* Verdicts outlive the files they were computed from.  Even so the gate never
\* accepts a directory unless the base instance has no model: it compares the
\* literals in each verdict with those it derives for the index.
AcceptedTrue == Accepted => Solutions = {}

\* All of it: what the three programs compute and compare, and what is made of
\* the directory afterwards.
SetupTrue == TypeOK /\ SetupVerifies /\ RowsAreCubes /\ AcceptedTrue
=============================================================================
