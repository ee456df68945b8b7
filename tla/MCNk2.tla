-------------------------------- MODULE MCNk2 --------------------------------
(***************************************************************************)
(* Instances of Nk2 for TLC: every instance with small parameters, at_most *)
(* over every short sequence, a directory of two main variables, and       *)
(* nk2.solve over an instance that can be satisfied and one that cannot.   *)
(***************************************************************************)
EXTENDS Nk2, TLC

CONSTANTS p1, p2, MaxN, MaxK, MaxL

\* N(2, 1) = 3: a coloring of two positions avoids, none of three does.
MCInstances == {Formula(n, 2, 1, "subsets", FALSE) : n \in {2, 3}}

\* Alone, with and without a witness and a proof; the same command at once,
\* without a proof.
MCJobs == [instance : MCInstances, witness : BOOLEAN, proof : BOOLEAN]
MCCrewJobs == [instance : MCInstances, witness : {TRUE}, proof : {FALSE}]

MCStreamJobs ==
    [N : 0 .. MaxN, k : 2 .. MaxK, l : 1 .. MaxL, symmetryBreak : BOOLEAN,
     encoder : {"subsets", "seqcount", "totalizer"}]

\* Occurrences rank the variables backwards, as towards the middle of 1 .. N,
\* and one coloring satisfies the base instance.
MCRanking == <<2, 1>>
MCSolutions == {<<1, -1>>}

Idle0 == [N |-> 0, k |-> 2, l |-> 1, symmetryBreak |-> FALSE, encoder |-> "subsets"]

\* What does not concern a world has one value there.
MCInit ==
    /\ WorldsInit
    /\ world # "encode" => job = Idle0
    /\ world # "count" => encoder = "subsets" /\ bound = 0

MCSpec == MCInit /\ [][WorldsNext]_worldsVars

\* Invocations are alike.
Alike == Permutations({p1, p2})
=============================================================================
