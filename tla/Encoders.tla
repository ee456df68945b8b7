------------------------------ MODULE Encoders ------------------------------
(***************************************************************************)
(* nk2/spec.py, nk2/aps.py and the three encoders: what clauses state that *)
(* the terms of a progression avoid (k, l), and which variables they use.  *)
(*                                                                         *)
(* A literal is an integer, a clause the set of its literals; the order of *)
(* literals and clauses, which only the hash of a file depends on, is left *)
(* out.  The main variables are 1 .. N, the rest are auxiliary.            *)
(***************************************************************************)
EXTENDS Integers, Sequences, FiniteSets, FiniteSetsExt

EncoderNames == {"subsets", "seqcount", "totalizer"}

-----------------------------------------------------------------------------
(* spec.py: a k-term sum is under l in absolute value iff the number of    *)
(* positive terms is in Lo .. Hi.                                          *)

\* Seeded bug: the threshold is rounded down.
BugUThreshold(k, l) == (k + l) \div 2

UThreshold(k, l) == (k + l + 1) \div 2

Lo(k, l) == k - UThreshold(k, l) + 1
Hi(k, l) == UThreshold(k, l) - 1

\* No number of positive terms avoids: a single progression refutes.
Degenerate(k, l) == Lo(k, l) > Hi(k, l)

-----------------------------------------------------------------------------
(* aps.py: differences ascending, then first terms ascending.              *)

LastDifference(n, k) == IF n < k THEN 0 ELSE (n - 1) \div (k - 1)
LastStart(n, k, d) == n - (k - 1) * d

Ap(a, d, k) == [i \in 1 .. k |-> a + (i - 1) * d]

NumAps(n, k) ==
    IF n < k THEN 0
    ELSE LET D == LastDifference(n, k)
         IN  D * n - ((k - 1) * D * (D + 1)) \div 2

-----------------------------------------------------------------------------
(* At most b of the literals are true, each encoder's own way; variables   *)
(* above base are the constraint's own.                                    *)

Negated(lits) == [i \in DOMAIN lits |-> -lits[i]]

SubsetsAtMost(lits, b, base) ==
    CASE b >= Len(lits) -> {}
      [] b < 0          -> {{}}
      [] OTHER          -> {{-lit : lit \in S} :
                               S \in kSubset(b + 1, {lits[i] : i \in DOMAIN lits})}

\* "At least j of the first i literals are true".
Register(i, j, b, base) == base + (i - 1) * b + j

\* encode_seqcount.at_most for 0 < b < k, Sinz's sequential counter.
CounterClauses(lits, b, base) ==
    LET k == Len(lits)
        s(i, j) == Register(i, j, b, base)
    IN  {{-lits[i], s(i, 1)} : i \in 1 .. k - 1}
        \cup {{-s(1, j)} : j \in 2 .. b}
        \cup {{-s(i - 1, j), s(i, j)} : i \in 2 .. k - 1, j \in 1 .. b}
        \cup {{-lits[i], -s(i - 1, j - 1), s(i, j)} : i \in 2 .. k - 1, j \in 2 .. b}
        \cup {{-lits[i], -s(i - 1, b)} : i \in 2 .. k}

\* Seeded bug: a register is handed on with the sign dropped.
BugSeqcountAtMost(lits, b, base) ==
    CASE b \notin 1 .. Len(lits) - 1 -> {}
      [] OTHER -> CounterClauses(lits, b, base)
                    \cup {{Register(i - 1, 1, b, base), Register(i, 1, b, base)} :
                              i \in 2 .. Len(lits) - 1}

SeqcountAtMost(lits, b, base) ==
    CASE b >= Len(lits) -> {}
      [] b < 0          -> {{}}
      [] b = 0          -> {{-lits[i]} : i \in DOMAIN lits}
      [] OTHER          -> CounterClauses(lits, b, base)

Least(x, y) == IF x < y THEN x ELSE y

\* _tree_size, for one constraint's b.
TreeSize(k, b) ==
    LET T[m \in 0 .. k] ==
            IF m <= 1 THEN 0
            ELSE T[m \div 2] + T[m - m \div 2] + Least(m, b + 1)
    IN  T[k]

\* Alpha true on the left and beta on the right are alpha + beta.
NodeClause(left, right, out, alpha, beta) ==
    (IF alpha > 0 THEN {-left[alpha]} ELSE {})
        \cup (IF beta > 0 THEN {-right[beta]} ELSE {})
        \cup {out[alpha + beta]}

\* Seeded bug: a node adds its children up only one short of its last output.
BugMerge(left, right, out) ==
    {NodeClause(left, right, out, p[1], p[2]) :
        p \in {p \in (0 .. Len(left)) \X (0 .. Len(right)) :
                  p[1] + p[2] \in 1 .. Len(out) - 1}}

\* A node's own clauses, as far as its outputs go.
Merge(left, right, out) ==
    {NodeClause(left, right, out, p[1], p[2]) :
        p \in {p \in (0 .. Len(left)) \X (0 .. Len(right)) :
                  p[1] + p[2] \in 1 .. Len(out)}}

\* A node over m leaves: its outputs, the clauses of its whole subtree and the
\* cursor that it leaves behind.
Parent(left, right, m, b) ==
    LET r   == Least(m, b + 1)
        out == [j \in 1 .. r |-> right.cursor + j - 1]
    IN  [out     |-> out,
         clauses |-> left.clauses \cup right.clauses \cup Merge(left.out, right.out, out),
         cursor  |-> right.cursor + r]

\* _node, over the literals first .. last with the cursor at base + 1.
Tree(lits, b, base) ==
    LET Node[p \in (DOMAIN lits) \X (DOMAIN lits) \X Nat] ==
            LET first == p[1]
                last  == p[2]
                m     == last - first + 1
                split == first + m \div 2
                left  == Node[<<first, split - 1, p[3]>>]
                right == Node[<<split, last, left.cursor>>]
            IN  IF m <= 1
                THEN [out |-> <<lits[first]>>, clauses |-> {}, cursor |-> p[3]]
                ELSE Parent(left, right, m, b)
    IN  Node[<<1, Len(lits), base + 1>>]

TotalizerAtMost(lits, b, base) ==
    CASE b >= Len(lits) -> {}
      [] b < 0          -> {{}}
      [] b = 0          -> {{-lits[i]} : i \in DOMAIN lits}
      [] OTHER          -> LET tree == Tree(lits, b, base)
                           IN  tree.clauses \cup {{-tree.out[b + 1]}}

AtMost(encoder, lits, b, base) ==
    CASE encoder = "subsets"   -> SubsetsAtMost(lits, b, base)
      [] encoder = "seqcount"  -> SeqcountAtMost(lits, b, base)
      [] encoder = "totalizer" -> TotalizerAtMost(lits, b, base)

\* block_size: the auxiliary variables of one constraint.
BlockSize(encoder, k, b) ==
    IF encoder = "subsets" \/ b <= 0 \/ b >= k THEN 0
    ELSE CASE encoder = "seqcount"  -> (k - 1) * b
           [] encoder = "totalizer" -> TreeSize(k, b)

-----------------------------------------------------------------------------
(* The whole instance: two constraints for each progression.               *)

\* num_vars, which the header needs before the first clause is there.
NumVars(encoder, n, k, l) ==
    IF Degenerate(k, l) THEN n
    ELSE n + 2 * NumAps(n, k) * BlockSize(encoder, k, Hi(k, l))

\* encode_subsets.num_clauses_estimate, compared with MAX_CLAUSES.
SubsetsEstimate(n, k, l) ==
    LET u == Hi(k, l) + 1 IN
    CASE Degenerate(k, l) -> NumAps(n, k)
      [] u > k            -> 0
      [] OTHER            -> 2 * NumAps(n, k) * Cardinality(kSubset(u, 1 .. k))

\* Seeded bug: one block is counted for each progression, not two.
BugBase(encoder, n, k, b, t, c) == n + (t + c) * BlockSize(encoder, k, b)

\* The block of the t-th progression's constraint on its own literals (c = 0)
\* and on their negations (c = 1).
Base(encoder, n, k, b, t, c) == n + (2 * t + c) * BlockSize(encoder, k, b)

\* _clauses, for the t-th progression.
ApClauses(encoder, n, k, l, ap, t) ==
    LET b == Hi(k, l) IN
    IF Degenerate(k, l) THEN {{}}
    ELSE AtMost(encoder, ap, b, Base(encoder, n, k, b, t, 0))
            \cup AtMost(encoder, Negated(ap), b, Base(encoder, n, k, b, t, 1))

-----------------------------------------------------------------------------
(* What clauses mean.  Under a coloring of the main variables every clause *)
(* here asks auxiliary variables to follow from others (at most one occurs *)
(* positively), so unit propagation decides whether they can be chosen.    *)

TrueUnder(f, lit) == IF lit > 0 THEN f[lit] = 1 ELSE f[-lit] = -1

Main(lit, n) == lit \in -n .. n

\* The clauses that the coloring leaves open, less the literals it settles.
Residue(clauses, f) ==
    {{lit \in c : ~Main(lit, Len(f))} :
        c \in {c \in clauses : \A lit \in c : Main(lit, Len(f)) => ~TrueUnder(f, lit)}}

HornIn(clauses, n) ==
    \A c \in clauses : \A x, y \in {lit \in c : lit > n} : x = y

\* The auxiliary variables that have to be true, from those known to be.
LeastModel(clauses, known) ==
    LET vars == {lit \in UNION clauses : lit > 0}
        close[T \in SUBSET (vars \cup known)] ==
            LET forced == {v \in vars : \E c \in clauses :
                              v \in c /\ \A w \in c \ {v} : w < 0 /\ -w \in T}
            IN  IF forced \subseteq T THEN T ELSE close[T \cup forced]
    IN  close[known]

\* Can the auxiliary variables be chosen so that every clause holds?
Satisfiable(clauses, f) ==
    LET residue == Residue(clauses, f)
        T == LeastModel(residue, {})
    IN  \A c \in residue : \E lit \in c : IF lit > 0 THEN lit \in T ELSE -lit \notin T
=============================================================================
