-------------------------- MODULE ClauseStream_proofs --------------------------
(***************************************************************************)
(* Proofs, for any instances: each encoder's at_most counts, at any bound  *)
(* and over literals of any number; the clauses of one progression leave   *)
(* the colorings whose sum over it is below l; so the stream implements    *)
(* Avoidance, and its header is exact.                                     *)
(***************************************************************************)
EXTENDS ClauseStream, FiniteSetTheorems, WellFoundedInduction, TLAPS

\* Numbers have a least one.
LEMMA LeastNumber ==
    ASSUME NEW S \in SUBSET Nat, S # {}
    PROVE  \E m \in S : \A n \in S : m <= n
<1>1. IsWellFoundedOn({ss \in Nat \X Nat : ss[1] < ss[2]}, Nat)
  BY NatLessThanWellFounded DEF OpToRel
<1>2. PICK x \in S : \A y \in S : ~(<<y, x>> \in {ss \in Nat \X Nat : ss[1] < ss[2]})
  BY <1>1, WFMin
<1>3. \A y \in S : ~(y < x)
  BY <1>2
<1> QED
  BY <1>3

\* Induction, over a set.
LEMMA FromZeroUp ==
    ASSUME NEW S \in SUBSET Nat, 0 \in S, \A n \in S : n + 1 \in S
    PROVE  S = Nat
<1> SUFFICES ASSUME S # Nat PROVE FALSE
  OBVIOUS
<1>1. Nat \ S # {}
  OBVIOUS
<1>2. PICK m \in Nat \ S : \A n \in Nat \ S : m <= n
  BY <1>1, LeastNumber
<1>3. m - 1 \in Nat /\ m - 1 \in S
  BY <1>2
<1> QED
  BY <1>2, <1>3

-----------------------------------------------------------------------------
(* Unit propagation decides.                                               *)

Heads(residue) == {lit \in UNION residue : lit > 0}

Forced(residue, T) ==
    {v \in Heads(residue) :
        \E c \in residue : v \in c /\ \A w \in c \ {v} : w < 0 /\ -w \in T}

ClosedUnder(residue, T) == Forced(residue, T) \subseteq T

\* Every set that the clauses force nothing out of has it.
Least0(residue, T) ==
    {v \in Heads(residue) :
        \A U \in SUBSET Heads(residue) : T \subseteq U /\ ClosedUnder(residue, U) => v \in U}

\* The recursion is well defined, and goes on until nothing is forced.
LEMMA Closing ==
    ASSUME NEW residue
    PROVE  \E close :
              /\ LeastModel(residue, {}) = close[{}]
              /\ \A T \in SUBSET Heads(residue) :
                    close[T] = IF ClosedUnder(residue, T) THEN T
                               ELSE close[T \cup Forced(residue, T)]
<1> DEFINE H == Heads(residue)
           Good(close) ==
               close = [T \in SUBSET H |->
                           IF ClosedUnder(residue, T) THEN T
                           ELSE close[T \cup Forced(residue, T)]]
           least == [T \in SUBSET H |-> Least0(residue, T)]
<1>1. Good(least)
  <2> SUFFICES ASSUME NEW T \in SUBSET H
               PROVE  Least0(residue, T) = IF ClosedUnder(residue, T) THEN T
                                           ELSE least[T \cup Forced(residue, T)]
    OBVIOUS
  <2>1. CASE ClosedUnder(residue, T)
    BY <2>1 DEF Least0
  <2>2. CASE ~ClosedUnder(residue, T)
    <3>1. T \cup Forced(residue, T) \in SUBSET H
      BY DEF Forced
    <3>2. ASSUME NEW U \in SUBSET H, T \subseteq U, ClosedUnder(residue, U)
          PROVE  Forced(residue, T) \subseteq U
      BY <3>2 DEF Forced, ClosedUnder
    <3>3. Least0(residue, T \cup Forced(residue, T)) = Least0(residue, T)
      BY <3>2 DEF Least0
    <3> QED
      BY <2>2, <3>1, <3>3
  <2> QED
    BY <2>1, <2>2
<1>2. LeastModel(residue, {}) = (CHOOSE close : Good(close))[{}]
  <2>1. H = {lit \in UNION residue : lit > 0} /\ H \cup {} = H
    BY DEF Heads
  <2> QED
    BY <2>1 DEF LeastModel, ClosedUnder, Forced, Heads
<1> DEFINE close == CHOOSE close : Good(close)
<1>3. Good(close)
  BY <1>1
<1>4. \A T \in SUBSET H : close[T] = IF ClosedUnder(residue, T) THEN T
                                     ELSE close[T \cup Forced(residue, T)]
  <2> HIDE DEF close
  <2> QED
    BY <1>3
<1> QED
  BY <1>2, <1>4

\* What it ends with is the least set that the clauses force nothing out of.
LEMMA Propagated ==
    ASSUME NEW residue, IsFiniteSet(Heads(residue))
    PROVE  LET T == LeastModel(residue, {}) IN
           /\ T \subseteq Heads(residue)
           /\ ClosedUnder(residue, T)
           /\ \A U : ClosedUnder(residue, U) => T \subseteq U
<1> DEFINE H == Heads(residue)
<1>1. PICK close :
          /\ LeastModel(residue, {}) = close[{}]
          /\ \A T \in SUBSET H : close[T] = IF ClosedUnder(residue, T) THEN T
                                            ELSE close[T \cup Forced(residue, T)]
  BY Closing
<1> DEFINE Ends(T) ==
        /\ close[T] \in SUBSET H
        /\ ClosedUnder(residue, close[T])
        /\ \A U : T \subseteq U /\ ClosedUnder(residue, U) => close[T] \subseteq U
      S == {n \in Nat : \A T \in SUBSET H : Cardinality(H \ T) <= n => Ends(T)}
<1>2. \A T \in SUBSET H : IsFiniteSet(H \ T) /\ Cardinality(H \ T) \in Nat
  BY FS_Subset, FS_CardinalityType
<1>3. 0 \in S
  <2> SUFFICES ASSUME NEW T \in SUBSET H, Cardinality(H \ T) <= 0 PROVE Ends(T)
    OBVIOUS
  <2>1. H \ T = {}
    BY <1>2, FS_EmptySet
  <2>2. T = H
    BY <2>1
  <2>3. ClosedUnder(residue, T)
    BY <2>2 DEF ClosedUnder, Forced
  <2> QED
    BY <1>1, <2>3
<1>4. \A n \in S : n + 1 \in S
  <2> SUFFICES ASSUME NEW n \in Nat, n \in S, NEW T \in SUBSET H, Cardinality(H \ T) <= n + 1
               PROVE  Ends(T)
    <3> HIDE DEF Ends
    <3> QED
      OBVIOUS
  <2>1. CASE ClosedUnder(residue, T)
    BY <1>1, <2>1
  <2>2. CASE ~ClosedUnder(residue, T)
    <3> DEFINE W == T \cup Forced(residue, T)
    <3>1. W \in SUBSET H /\ close[T] = close[W]
      BY <1>1, <2>2 DEF Forced
    <3>2. PICK v \in Forced(residue, T) : v \notin T
      BY <2>2 DEF ClosedUnder
    <3>3. (H \ W) \subseteq (H \ T) \ {v}
      BY <3>2
    <3>4. v \in H \ T
      BY <3>2 DEF Forced
    <3>5. Cardinality((H \ T) \ {v}) = Cardinality(H \ T) - 1 /\ IsFiniteSet((H \ T) \ {v})
      BY <1>2, <3>4, FS_RemoveElement
    <3>6. Cardinality(H \ W) <= Cardinality((H \ T) \ {v})
      BY <3>3, <3>5, FS_Subset
    <3>7. Cardinality(H \ W) <= n
      <4>1. Cardinality(H \ W) \in Nat /\ Cardinality(H \ T) \in Nat /\ n \in Nat
        BY <1>2, <3>1
      <4> QED
        BY <3>5, <3>6, <4>1
    <3>8. Ends(W)
      <4> HIDE DEF W, Ends
      <4> QED
        BY <3>1, <3>7
    <3>9. ASSUME NEW U, T \subseteq U, ClosedUnder(residue, U) PROVE W \subseteq U
      BY <3>9 DEF Forced, ClosedUnder
    <3> HIDE DEF W
    <3> QED
      BY <3>1, <3>8, <3>9
  <2> QED
    BY <2>1, <2>2
<1>5. S = Nat
  <2> HIDE DEF Ends
  <2>1. S \in SUBSET Nat
    OBVIOUS
  <2> HIDE DEF S
  <2> QED
    BY <1>3, <1>4, <2>1, FromZeroUp
<1>6. Ends({})
  <2>1. Cardinality(H \ {}) \in S
    BY <1>2, <1>5
  <2> HIDE DEF Ends
  <2> QED
    BY <1>2, <2>1
<1> QED
  BY <1>1, <1>6

\* A literal, and clauses, under a coloring and the auxiliary variables V.
Meets(V, f, lit) ==
    IF Main(lit, Len(f)) THEN TrueUnder(f, lit)
    ELSE IF lit > 0 THEN lit \in V ELSE -lit \notin V

Models(V, clauses, f) == \A c \in clauses : \E lit \in c : Meets(V, f, lit)

\* Satisfiable says whether auxiliary variables can be chosen.
LEMMA Decides ==
    ASSUME NEW clauses, NEW f, NEW high \in Nat, Len(f) \in Nat,
           \A c \in clauses : c \subseteq -high .. high,
           HornIn(clauses, Len(f))
    PROVE  Satisfiable(clauses, f) <=> \E V \in SUBSET Nat : Models(V, clauses, f)
<1> DEFINE n == Len(f)
           residue == Residue(clauses, f)
           T == LeastModel(residue, {})
<1>1. \A c \in residue : c \subseteq -high .. high /\ \A lit \in c : ~Main(lit, n)
  BY DEF Residue
<1>2. IsFiniteSet(Heads(residue))
  <2>1. Heads(residue) \subseteq 1 .. high
    BY <1>1 DEF Heads
  <2>2. IsFiniteSet(1 .. high)
    BY FS_Interval
  <2> HIDE DEF residue
  <2> QED
    BY <2>1, <2>2, FS_Subset
<1>3. /\ T \subseteq Heads(residue)
      /\ ClosedUnder(residue, T)
      /\ \A U : ClosedUnder(residue, U) => T \subseteq U
  BY <1>2, Propagated
<1>4. \A lit \in Int : ~Main(lit, n) => IF lit > 0 THEN lit > n ELSE lit < -n
  BY DEF Main
<1> HIDE DEF T
<1>5. Satisfiable(clauses, f) <=>
          \A c \in residue : \E lit \in c : IF lit > 0 THEN lit \in T ELSE -lit \notin T
  BY DEF Satisfiable, T
<1>6. ASSUME Satisfiable(clauses, f) PROVE \E V \in SUBSET Nat : Models(V, clauses, f)
  <2>1. T \in SUBSET Nat
    BY <1>1, <1>3 DEF Heads
  <2>2. Models(T, clauses, f)
    <3> SUFFICES ASSUME NEW c \in clauses, \A lit \in c : Main(lit, n) => ~TrueUnder(f, lit)
                 PROVE  \E lit \in c : ~Main(lit, n) /\ IF lit > 0 THEN lit \in T ELSE -lit \notin T
      BY DEF Models, Meets
    <3>1. {lit \in c : ~Main(lit, n)} \in residue
      BY DEF Residue
    <3> HIDE DEF residue
    <3> QED
      BY <1>5, <1>6, <3>1
  <2> QED
    BY <2>1, <2>2
<1>7. ASSUME NEW V \in SUBSET Nat, Models(V, clauses, f) PROVE Satisfiable(clauses, f)
  <2>1. ASSUME NEW c \in residue
        PROVE  /\ \E lit \in c : IF lit > 0 THEN lit \in V ELSE -lit \notin V
               /\ \A x, y \in c : x > 0 /\ y > 0 => x = y
    <3>1. PICK whole \in clauses : /\ c = {lit \in whole : ~Main(lit, n)}
                                   /\ \A lit \in whole : Main(lit, n) => ~TrueUnder(f, lit)
      BY DEF Residue
    <3>2. \A x, y \in {lit \in whole : lit > n} : x = y
      BY DEF HornIn
    <3> QED
      BY <1>1, <1>4, <1>7, <3>1, <3>2 DEF Models, Meets
  <2> HIDE DEF residue
  <2>2. ClosedUnder(residue, V)
    <3> SUFFICES ASSUME NEW v \in Heads(residue), NEW c \in residue, v \in c,
                        \A w \in c \ {v} : w < 0 /\ -w \in V
                 PROVE  v \in V
      BY DEF ClosedUnder, Forced
    <3>1. PICK lit \in c : IF lit > 0 THEN lit \in V ELSE -lit \notin V
      BY <2>1
    <3>2. v > 0 /\ c \subseteq Int
      BY <1>1 DEF Heads
    <3> QED
      BY <3>1, <3>2
  <2>3. T \subseteq V
    BY <1>3, <2>2
  <2>4. ASSUME NEW c \in residue
        PROVE  \E lit \in c : IF lit > 0 THEN lit \in T ELSE -lit \notin T
    <3>1. PICK lit \in c : IF lit > 0 THEN lit \in V ELSE -lit \notin V
      BY <2>1
    <3>2. c \subseteq -high .. high
      BY <1>1
    <3>3. CASE lit > 0
      <4> SUFFICES ASSUME \A w \in c \ {lit} : w <= 0 /\ -w \in T
                   PROVE  lit \in T
        BY <2>1, <3>2, <3>3
      <4>1. \A w \in c \ {lit} : w < 0 /\ -w \in T
        BY <1>1, <1>4, <3>2 DEF Main
      <4>2. lit \in Heads(residue)
        BY <3>3 DEF Heads
      <4>3. lit \in Forced(residue, T)
        BY <4>1, <4>2 DEF Forced
      <4> QED
        BY <1>3, <4>3 DEF ClosedUnder
    <3>4. CASE ~(lit > 0)
      BY <2>3, <3>1, <3>4
    <3> QED
      BY <3>3, <3>4
  <2> QED
    BY <1>5, <2>4
<1> QED
  BY <1>6, <1>7

-----------------------------------------------------------------------------
(* What a constraint counts.                                               *)

Coloring(f) == f \in Seq({1, -1})

\* Literals of main variables, of which none repeats.
Distinct(lits, n) ==
    /\ lits \in Seq(Int)
    /\ \A i \in 1 .. Len(lits) : lits[i] \in -n .. n /\ lits[i] # 0
    /\ \A i, j \in 1 .. Len(lits) : lits[i] = lits[j] => i = j

\* A literal or its negation holds.
LEMMA Opposite ==
    ASSUME NEW f, Coloring(f), NEW lit \in -Len(f) .. Len(f), lit # 0
    PROVE  TrueUnder(f, -lit) <=> ~TrueUnder(f, lit)
<1>1. Len(f) \in Nat /\ f \in [1 .. Len(f) -> {1, -1}]
  BY DEF Coloring
<1>2. (lit > 0 => lit \in 1 .. Len(f)) /\ (~(lit > 0) => -lit \in 1 .. Len(f))
  BY <1>1
<1>3. CASE lit > 0
  <2>1. f[lit] \in {1, -1} /\ -(-lit) = lit /\ ~(-lit > 0)
    BY <1>1, <1>2, <1>3
  <2> QED
    BY <1>3, <2>1 DEF TrueUnder
<1>4. CASE ~(lit > 0)
  <2>1. f[-lit] \in {1, -1} /\ -lit > 0
    BY <1>1, <1>2, <1>4
  <2> QED
    BY <1>4, <2>1 DEF TrueUnder
<1> QED
  BY <1>3, <1>4

TrueOf(lits, f, first, last) == {i \in first .. last : TrueUnder(f, lits[i])}

Number(lits, f, first, last) == Cardinality(TrueOf(lits, f, first, last))

\* Counting goes on from one literal to the next, and over parts.
LEMMA Counting ==
    ASSUME NEW lits, NEW f, NEW first \in Int, NEW last \in Int
    PROVE  /\ IsFiniteSet(TrueOf(lits, f, first, last))
           /\ Number(lits, f, first, last) \in Nat
           /\ first <= last + 1 => Number(lits, f, first, last) <= last - first + 1
           /\ first > last => Number(lits, f, first, last) = 0
           /\ first <= last =>
                 Number(lits, f, first, last) =
                     IF TrueUnder(f, lits[last]) THEN Number(lits, f, first, last - 1) + 1
                     ELSE Number(lits, f, first, last - 1)
<1> DEFINE S == TrueOf(lits, f, first, last)
           P == TrueOf(lits, f, first, last - 1)
<1>1. /\ IsFiniteSet(first .. last) /\ IsFiniteSet(first .. last - 1)
      /\ Cardinality(first .. last) = IF first > last THEN 0 ELSE last - first + 1
  BY FS_Interval
<1>2. S \in SUBSET (first .. last) /\ P \in SUBSET (first .. last - 1)
  BY DEF TrueOf
<1>3. IsFiniteSet(S) /\ IsFiniteSet(P) /\ Cardinality(S) <= Cardinality(first .. last)
  BY <1>1, <1>2, FS_Subset
<1>4. Cardinality(S) \in Nat /\ Cardinality(P) \in Nat
  BY <1>3, FS_CardinalityType
<1>5. first > last => Cardinality(S) = 0
  BY <1>1, <1>3, <1>4
<1>6. ASSUME first <= last
      PROVE  Cardinality(S) = IF TrueUnder(f, lits[last]) THEN Cardinality(P) + 1
                              ELSE Cardinality(P)
  <2>1. CASE TrueUnder(f, lits[last])
    <3>1. S = P \cup {last} /\ last \notin P
      BY <1>6, <2>1 DEF TrueOf
    <3> QED
      BY <1>3, <2>1, <3>1, FS_AddElement
  <2>2. CASE ~TrueUnder(f, lits[last])
    <3>1. S = P
      BY <1>6, <2>2 DEF TrueOf
    <3> QED
      BY <2>2, <3>1
  <2> QED
    BY <2>1, <2>2
<1> QED
  BY <1>1, <1>3, <1>4, <1>5, <1>6 DEF Number

\* A list is counted in two parts.
LEMMA CountingParts ==
    ASSUME NEW lits, NEW f, NEW first \in Int, NEW split \in Int, NEW last \in Int,
           first <= split, split <= last + 1
    PROVE  Number(lits, f, first, last) =
               Number(lits, f, first, split - 1) + Number(lits, f, split, last)
<1> DEFINE A1 == TrueOf(lits, f, first, split - 1)
           A2 == TrueOf(lits, f, split, last)
<1>1. IsFiniteSet(A1) /\ IsFiniteSet(A2)
  BY Counting
<1>2. TrueOf(lits, f, first, last) = A1 \cup A2 /\ A1 \cap A2 = {}
  BY DEF TrueOf
<1>3. Cardinality(A1 \cup A2) = Cardinality(A1) + Cardinality(A2) - Cardinality({})
  <2> HIDE DEF A1, A2
  <2> QED
    BY <1>1, <1>2, FS_Union
<1> QED
  BY <1>1, <1>2, <1>3, FS_EmptySet, FS_CardinalityType DEF Number

\* A set has as many elements as one that it is numbered by.
LEMMA Renumbered ==
    ASSUME NEW J, IsFiniteSet(J), NEW g, \A i, j \in J : g[i] = g[j] => i = j
    PROVE  /\ IsFiniteSet({g[j] : j \in J})
           /\ Cardinality({g[j] : j \in J}) = Cardinality(J)
<1> DEFINE h == [j \in J |-> g[j]]
           K == {g[j] : j \in J}
<1>1. h \in Bijection(J, K)
  BY DEF Bijection, Injection, Surjection, IsInjective
<1> QED
  BY <1>1, FS_Bijection DEF ExistsBijection

\* A finite set has subsets of every smaller size.
LEMMA SubsetOfSize ==
    ASSUME NEW J, IsFiniteSet(J), NEW m \in 0 .. Cardinality(J)
    PROVE  \E K \in SUBSET J : Cardinality(K) = m
<1>1. Cardinality(J) \in Nat
  BY FS_CardinalityType
<1>2. PICK g \in Bijection(1 .. Cardinality(J), J) : TRUE
  BY FS_CardinalityType DEF ExistsBijection
<1>3. /\ \A i, j \in 1 .. m : g[i] = g[j] => i = j
      /\ {g[j] : j \in 1 .. m} \in SUBSET J
  BY <1>1, <1>2 DEF Bijection, Injection, Surjection, IsInjective
<1>4. IsFiniteSet(1 .. m) /\ Cardinality(1 .. m) = m
  BY <1>1, FS_Interval
<1>5. Cardinality({g[j] : j \in 1 .. m}) = m
  BY <1>3, <1>4, Renumbered
<1> QED
  BY <1>3, <1>5

-----------------------------------------------------------------------------
(* The three constraints.                                                  *)

\* Of n main variables, and of the auxiliary ones in the block after base.
Confined(clauses, n, base, size) ==
    \A c \in clauses : \A lit \in c :
        /\ lit \in Int
        /\ \/ lit \in -n .. n
           \/ lit \in base + 1 .. base + size
           \/ -lit \in base + 1 .. base + size

\* Every variable of the block occurs.
Fills(clauses, base, size) ==
    \A v \in base + 1 .. base + size : \E c \in clauses : v \in c \/ -v \in c

\* Auxiliary variables can be chosen if and only if the number is at most b,
\* and inside the block.
Counts(clauses, f, number, b, base, size) ==
    /\ \A V \in SUBSET Nat : Models(V, clauses, f) => number <= b
    /\ number <= b => \E V \in SUBSET (base + 1 .. base + size) : Models(V, clauses, f)

\* No literal at all: the constraint can be met, or cannot.
LEMMA Extremes ==
    ASSUME NEW f, NEW lits, Distinct(lits, Len(f)), Coloring(f), NEW b \in Int,
           NEW base \in Nat
    PROVE  LET number == Number(lits, f, 1, Len(lits)) IN
           /\ b >= Len(lits) => Counts({}, f, number, b, base, 0)
           /\ b < 0 => Counts({{}}, f, number, b, base, 0)
           /\ b = 0 => Counts({{-lits[i]} : i \in DOMAIN lits}, f, number, b, base, 0)
<1> DEFINE k == Len(lits)
           number == Number(lits, f, 1, k)
<1>1. k \in Nat /\ DOMAIN lits = 1 .. k
  BY DEF Distinct
<1>2. number \in Nat /\ number <= k
  <2>1. number <= k - 1 + 1
    BY <1>1, Counting
  <2> QED
    BY <1>1, <2>1, Counting
<1>3. {} \in SUBSET (base + 1 .. base + 0)
  OBVIOUS
<1>4. Models({}, {}, f) /\ \A V : ~Models(V, {{}}, f)
  BY DEF Models, Meets
<1>5. ASSUME b = 0 PROVE Counts({{-lits[i]} : i \in DOMAIN lits}, f, number, b, base, 0)
  <2>1. \A V : Models(V, {{-lits[i]} : i \in DOMAIN lits}, f) <=>
                   \A i \in 1 .. k : ~TrueUnder(f, lits[i])
    <3>1. \A i \in 1 .. k : /\ Main(-lits[i], Len(f))
                            /\ TrueUnder(f, -lits[i]) <=> ~TrueUnder(f, lits[i])
      <4>1. Len(f) \in Nat
        BY DEF Coloring
      <4> QED
        BY <4>1, Opposite DEF Distinct, Main
    <3>2. ASSUME NEW V, Models(V, {{-lits[i]} : i \in DOMAIN lits}, f), NEW i \in 1 .. k
          PROVE  ~TrueUnder(f, lits[i])
      <4>1. {-lits[i]} \in {{-lits[j]} : j \in DOMAIN lits}
        BY <1>1
      <4> QED
        BY <3>1, <3>2, <4>1 DEF Models, Meets
    <3>3. ASSUME NEW V, \A i \in 1 .. k : ~TrueUnder(f, lits[i])
          PROVE  Models(V, {{-lits[i]} : i \in DOMAIN lits}, f)
      <4> SUFFICES ASSUME NEW i \in 1 .. k
                   PROVE  \E lit \in {-lits[i]} : Main(lit, Len(f)) /\ TrueUnder(f, lit)
        BY <1>1 DEF Models, Meets
      <4> QED
        BY <3>1, <3>3
    <3> QED
      BY <3>2, <3>3
  <2>2. number = 0 <=> \A i \in 1 .. k : ~TrueUnder(f, lits[i])
    <3>1. IsFiniteSet(TrueOf(lits, f, 1, k))
      BY <1>1, Counting
    <3>2. number = 0 <=> TrueOf(lits, f, 1, k) = {}
      BY <3>1, FS_EmptySet DEF Number
    <3> QED
      BY <3>2 DEF TrueOf
  <2> DEFINE one == {{-lits[i]} : i \in DOMAIN lits}
  <2>3. \A V : Models(V, one, f) <=> number = 0
    BY <2>1, <2>2
  <2> HIDE DEF number, one
  <2>4. Counts(one, f, number, b, base, 0)
    BY SMTT(30), <1>2, <1>3, <1>5, <2>3 DEF Counts
  <2> QED
    BY <2>4 DEF one, number
<1> HIDE DEF number
<1>6. (b >= k => number <= b) /\ (b < 0 => ~(number <= b))
  BY <1>1, <1>2
<1> QED
  BY <1>3, <1>4, <1>5, <1>6 DEF Counts, number

\* encode_subsets.at_most: of b + 1 literals one is false.
LEMMA SubsetsCounts ==
    ASSUME NEW f, NEW lits, Distinct(lits, Len(f)), Coloring(f), NEW b \in Int,
           NEW base \in Nat
    PROVE  LET clauses == SubsetsAtMost(lits, b, base) IN
           /\ Counts(clauses, f, Number(lits, f, 1, Len(lits)), b, base, 0)
           /\ Confined(clauses, Len(f), base, 0)
           /\ HornIn(clauses, Len(f))
<1> DEFINE k == Len(lits)
           number == Number(lits, f, 1, k)
           L == {lits[i] : i \in 1 .. k}
           clauses == SubsetsAtMost(lits, b, base)
<1>1. /\ k \in Nat /\ DOMAIN lits = 1 .. k /\ Len(f) \in Nat
      /\ \A lit \in L : lit \in -Len(f) .. Len(f) /\ lit # 0
  BY SMTT(30) DEF Distinct, Coloring
<1>2. \A c \in clauses : \A lit \in c : -lit \in L /\ lit \in -Len(f) .. Len(f)
  <2>1. \A S \in kSubset(b + 1, L) : \A lit \in {-lit : lit \in S} :
            -lit \in L /\ lit \in -Len(f) .. Len(f)
    <3> SUFFICES ASSUME NEW S \in SUBSET L, NEW lit \in S
                 PROVE  -(-lit) \in L /\ -lit \in -Len(f) .. Len(f)
      BY DEF kSubset
    <3>1. lit \in L
      OBVIOUS
    <3> HIDE DEF L
    <3> QED
      BY <1>1, <3>1
  <2> QED
    BY <1>1, <2>1 DEF SubsetsAtMost
<1>3. Confined(clauses, Len(f), base, 0)
  BY <1>1, <1>2 DEF Confined
<1>4. HornIn(clauses, Len(f))
  BY <1>1, <1>2 DEF HornIn
<1>5. CASE b >= k
  BY <1>1, <1>3, <1>4, <1>5, Extremes DEF SubsetsAtMost
<1>6. CASE b < 0
  BY <1>1, <1>3, <1>4, <1>6, Extremes DEF SubsetsAtMost
<1>7. CASE 0 <= b /\ b < k
  <2>1. clauses = {{-lit : lit \in S} : S \in kSubset(b + 1, L)}
    <3>1. ~(b >= Len(lits)) /\ ~(b < 0) /\ L = {lits[i] : i \in DOMAIN lits}
      BY <1>1, <1>7
    <3> QED
      BY <3>1 DEF SubsetsAtMost
  <2>2. \A V : Models(V, clauses, f) <=>
                  \A S \in kSubset(b + 1, L) : \E lit \in S : ~TrueUnder(f, lit)
    <3>1. \A lit \in L : /\ Main(-lit, Len(f))
                         /\ TrueUnder(f, -lit) <=> ~TrueUnder(f, lit)
      <4> HIDE DEF L
      <4> SUFFICES ASSUME NEW lit \in L
                   PROVE  Main(-lit, Len(f)) /\ (TrueUnder(f, -lit) <=> ~TrueUnder(f, lit))
        OBVIOUS
      <4> QED
        BY <1>1, Opposite DEF Main
    <3>2. \A S \in kSubset(b + 1, L) : S \subseteq L
      BY DEF kSubset
    <3> HIDE DEF clauses, L
    <3>3. ASSUME NEW V, Models(V, clauses, f), NEW S \in kSubset(b + 1, L)
          PROVE  \E lit \in S : ~TrueUnder(f, lit)
      <4>1. {-lit : lit \in S} \in clauses
        BY <2>1
      <4>2. PICK x \in {-lit : lit \in S} :
                IF Main(x, Len(f)) THEN TrueUnder(f, x)
                ELSE IF x > 0 THEN x \in V ELSE -x \notin V
        BY <3>3, <4>1 DEF Models, Meets
      <4>3. PICK lit \in S : x = -lit
        BY <4>2
      <4>4. lit \in L
        BY <3>2
      <4>5. Main(x, Len(f)) /\ (TrueUnder(f, x) <=> ~TrueUnder(f, lit))
        BY <3>1, <4>3, <4>4
      <4> QED
        BY <4>2, <4>5
    <3>4. ASSUME NEW V, \A S \in kSubset(b + 1, L) : \E lit \in S : ~TrueUnder(f, lit)
          PROVE  Models(V, clauses, f)
      <4> SUFFICES ASSUME NEW S \in kSubset(b + 1, L)
                   PROVE  \E x \in {-lit : lit \in S} : Main(x, Len(f)) /\ TrueUnder(f, x)
        BY <2>1 DEF Models, Meets
      <4>1. PICK lit \in S : ~TrueUnder(f, lit)
        BY <3>4
      <4> QED
        BY <3>1, <3>2, <4>1
    <3> QED
      BY <3>3, <3>4
  <2> DEFINE On == TrueOf(lits, f, 1, k)
  <2>3. IsFiniteSet(On) /\ number = Cardinality(On) /\ number \in Nat /\ On \subseteq 1 .. k
    <3>1. On \subseteq 1 .. k
      BY DEF TrueOf
    <3>2. IsFiniteSet(On) /\ number \in Nat /\ number = Cardinality(On)
      BY <1>1, Counting DEF Number
    <3> QED
      BY <3>1, <3>2
  <2>4. ASSUME \A S \in kSubset(b + 1, L) : \E lit \in S : ~TrueUnder(f, lit)
        PROVE  number <= b
    <3> SUFFICES ASSUME b + 1 <= number PROVE FALSE
      BY <2>3
    <3>1. b + 1 \in 0 .. Cardinality(On)
      BY <1>7, <2>3
    <3>2. PICK K \in SUBSET On : Cardinality(K) = b + 1
      BY <2>3, <3>1, SubsetOfSize
    <3>3. IsFiniteSet(K)
      BY <2>3, FS_Subset
    <3>4. \A i, j \in K : lits[i] = lits[j] => i = j
      BY <2>3 DEF Distinct
    <3>5. Cardinality({lits[j] : j \in K}) = b + 1
      BY <3>2, <3>3, <3>4, Renumbered
    <3>6. {lits[j] : j \in K} \in kSubset(b + 1, L)
      BY <2>3, <3>5 DEF kSubset
    <3>7. PICK lit \in {lits[j] : j \in K} : ~TrueUnder(f, lit)
      BY <2>4, <3>6
    <3> QED
      BY <3>7 DEF TrueOf
  <2>5. ASSUME number <= b, NEW S \in kSubset(b + 1, L)
        PROVE  \E lit \in S : ~TrueUnder(f, lit)
    <3> SUFFICES ASSUME \A lit \in S : TrueUnder(f, lit) PROVE FALSE
      OBVIOUS
    <3>1. S \in SUBSET {lits[j] : j \in On}
      BY DEF kSubset, TrueOf
    <3>2. \A i, j \in On : lits[i] = lits[j] => i = j
      BY <2>3 DEF Distinct
    <3>3. /\ IsFiniteSet({lits[j] : j \in On})
          /\ Cardinality({lits[j] : j \in On}) = number
      BY <2>3, <3>2, Renumbered
    <3>4. Cardinality(S) <= number
      BY <3>1, <3>3, FS_Subset
    <3>5. Cardinality(S) = b + 1
      BY DEF kSubset
    <3> QED
      BY <2>3, <2>5, <3>4, <3>5
  <2>6. {} \in SUBSET (base + 1 .. base + 0)
    OBVIOUS
  <2> HIDE DEF clauses, number, L
  <2>7. Counts(clauses, f, number, b, base, 0)
    BY <2>2, <2>4, <2>5, <2>6 DEF Counts
  <2> QED
    BY <1>3, <1>4, <2>7 DEF clauses, number
<1> QED
  BY <1>1, <1>5, <1>6, <1>7

\* What meeting a literal comes to.
LEMMA Meeting ==
    ASSUME NEW f, Coloring(f), NEW V
    PROVE  /\ \A v \in Nat : v > Len(f) =>
                 /\ Meets(V, f, v) <=> v \in V
                 /\ Meets(V, f, -v) <=> v \notin V
           /\ \A lit \in -Len(f) .. Len(f) : lit # 0 =>
                 /\ Meets(V, f, lit) <=> TrueUnder(f, lit)
                 /\ Meets(V, f, -lit) <=> ~TrueUnder(f, lit)
<1>1. Len(f) \in Nat
  BY DEF Coloring
<1>2. ASSUME NEW v \in Nat, v > Len(f)
      PROVE  (Meets(V, f, v) <=> v \in V) /\ (Meets(V, f, -v) <=> v \notin V)
  <2>1. ~Main(v, Len(f)) /\ ~Main(-v, Len(f)) /\ v > 0 /\ ~(-v > 0) /\ -(-v) = v
    BY <1>1, <1>2 DEF Main
  <2> QED
    BY <2>1 DEF Meets
<1>3. ASSUME NEW lit \in -Len(f) .. Len(f), lit # 0
      PROVE  /\ Meets(V, f, lit) <=> TrueUnder(f, lit)
             /\ Meets(V, f, -lit) <=> ~TrueUnder(f, lit)
  <2>1. Main(lit, Len(f)) /\ Main(-lit, Len(f))
    BY <1>1 DEF Main
  <2>2. TrueUnder(f, -lit) <=> ~TrueUnder(f, lit)
    BY <1>3, Opposite
  <2> QED
    BY <2>1, <2>2 DEF Meets
<1> QED
  BY <1>2, <1>3

\* Multiplication keeps the order.
LEMMA Times ==
    ASSUME NEW x \in Int, NEW y \in Int, NEW m \in Nat
    PROVE  /\ x * m \in Int /\ y * m \in Int
           /\ (x + 1) * m = x * m + m /\ (x - 1) * m = x * m - m
           /\ x <= y => x * m <= y * m
           /\ x < y => x * m + m <= y * m
OBVIOUS

\* The registers are the variables of the block, each once.
LEMMA Registers ==
    ASSUME NEW k \in Nat, NEW b \in Nat, b > 0, NEW base \in Nat
    PROVE  /\ \A i \in 1 .. k - 1, j \in 1 .. b :
                 Register(i, j, b, base) \in base + 1 .. base + (k - 1) * b
           /\ \A i, x \in 1 .. k - 1, j, y \in 1 .. b :
                 Register(i, j, b, base) = Register(x, y, b, base) => i = x /\ j = y
           /\ \A v \in base + 1 .. base + (k - 1) * b :
                 \E i \in 1 .. k - 1, j \in 1 .. b : v = Register(i, j, b, base)
<1>1. ASSUME NEW i \in 1 .. k - 1, NEW j \in 1 .. b
      PROVE  Register(i, j, b, base) \in base + 1 .. base + (k - 1) * b
  <2>1. 0 * b = 0 /\ 0 * b <= (i - 1) * b /\ (i - 1) * b + b <= (k - 1) * b
    BY Times
  <2>2. (i - 1) * b \in Int /\ (k - 1) * b \in Int
    BY Times
  <2> QED
    BY <2>1, <2>2 DEF Register
<1>2. ASSUME NEW i \in 1 .. k - 1, NEW x \in 1 .. k - 1, NEW j \in 1 .. b, NEW y \in 1 .. b,
             Register(i, j, b, base) = Register(x, y, b, base)
      PROVE  i = x /\ j = y
  <2>1. (i - 1) * b \in Int /\ (x - 1) * b \in Int
    BY Times
  <2>2. i - 1 < x - 1 => (i - 1) * b + b <= (x - 1) * b
    BY Times
  <2>3. x - 1 < i - 1 => (x - 1) * b + b <= (i - 1) * b
    BY Times
  <2>4. (i - 1) * b + j = (x - 1) * b + y
    BY <1>2, <2>1 DEF Register
  <2>5. i = x
    BY <2>1, <2>2, <2>3, <2>4
  <2> QED
    BY <2>1, <2>4, <2>5
<1>3. ASSUME NEW v \in base + 1 .. base + (k - 1) * b
      PROVE  \E i \in 1 .. k - 1, j \in 1 .. b : v = Register(i, j, b, base)
  <2> DEFINE S == {m \in Nat : v <= base + m * b}
  <2>1. (k - 1) * b \in Int /\ 0 * b = 0
    BY Times
  <2>2. k - 1 \in S
    <3>1. k - 1 \in Nat
      <4> SUFFICES ASSUME k = 0 PROVE FALSE
        OBVIOUS
      <4>1. (0 - 1) * b = 0 * b - b
        BY Times
      <4> QED
        BY <2>1, <4>1
    <3> QED
      BY <2>1, <3>1
  <2>3. PICK m \in S : \A x \in S : m <= x
    <3>1. S \in SUBSET Nat /\ S # {}
      BY <2>2
    <3> HIDE DEF S
    <3> QED
      BY <3>1, LeastNumber
  <2>4. m \in 1 .. k - 1
    BY <2>1, <2>2, <2>3
  <2>5. ~(v <= base + (m - 1) * b)
    BY <2>3, <2>4
  <2>6. (m - 1) * b \in Int /\ m * b = (m - 1) * b + b
    BY <2>4, Times
  <2>7. v - base - (m - 1) * b \in 1 .. b
    BY <2>3, <2>5, <2>6
  <2> DEFINE y == v - base - (m - 1) * b
  <2>8. m \in 1 .. k - 1 /\ y \in 1 .. b /\ v = base + (m - 1) * b + y
    BY <2>4, <2>6, <2>7
  <2> HIDE DEF y
  <2> QED
    BY <2>8 DEF Register
<1> QED
  BY <1>1, <1>2, <1>3

\* What the clauses of the counter say.
Counter(V, f, lits, b, base) ==
    LET k == Len(lits)
        s(i, j) == Register(i, j, b, base)
        On(i) == TrueUnder(f, lits[i]) IN
    /\ \A i \in 1 .. k - 1 : On(i) => s(i, 1) \in V
    /\ \A j \in 2 .. b : s(1, j) \notin V
    /\ \A i \in 2 .. k - 1, j \in 1 .. b : s(i - 1, j) \in V => s(i, j) \in V
    /\ \A i \in 2 .. k - 1, j \in 2 .. b : On(i) /\ s(i - 1, j - 1) \in V => s(i, j) \in V
    /\ \A i \in 2 .. k : On(i) => s(i - 1, b) \notin V

\* What the counter's clauses say.
LEMMA CounterSays ==
    ASSUME NEW f, NEW lits, Distinct(lits, Len(f)), Coloring(f), NEW b \in Nat,
           0 < b, b < Len(lits), NEW base \in Nat, Len(f) <= base, NEW V
    PROVE  Models(V, CounterClauses(lits, b, base), f) <=> Counter(V, f, lits, b, base)
<1> DEFINE k == Len(lits)
           s(i, j) == Register(i, j, b, base)
           On(i) == TrueUnder(f, lits[i])
           C1 == {{-lits[i], s(i, 1)} : i \in 1 .. k - 1}
           C2 == {{-s(1, j)} : j \in 2 .. b}
           C3 == {{-s(i - 1, j), s(i, j)} : i \in 2 .. k - 1, j \in 1 .. b}
           C4 == {{-lits[i], -s(i - 1, j - 1), s(i, j)} : i \in 2 .. k - 1, j \in 2 .. b}
           C5 == {{-lits[i], -s(i - 1, b)} : i \in 2 .. k}
<1>1. k \in Nat /\ Len(f) \in Nat
  BY DEF Distinct, Coloring
<1>2. \A i \in 1 .. k - 1, j \in 1 .. b : s(i, j) \in Nat /\ s(i, j) > Len(f)
  <2> SUFFICES ASSUME NEW i \in 1 .. k - 1, NEW j \in 1 .. b
               PROVE  s(i, j) \in Nat /\ s(i, j) > Len(f)
    OBVIOUS
  <2>1. s(i, j) \in base + 1 .. base + (k - 1) * b
    BY <1>1, Registers
  <2>2. (k - 1) * b \in Int
    BY <1>1
  <2> HIDE DEF s
  <2> QED
    BY <1>1, <2>1, <2>2
<1>3. \A i \in 1 .. k - 1, j \in 1 .. b : /\ Meets(V, f, s(i, j)) <=> s(i, j) \in V
                                          /\ Meets(V, f, -s(i, j)) <=> s(i, j) \notin V
  <2> HIDE DEF s
  <2> QED
    BY <1>2, Meeting
<1>4. \A i \in 1 .. k : Meets(V, f, -lits[i]) <=> ~On(i)
  BY Meeting DEF Distinct
<1>5. Models(V, CounterClauses(lits, b, base), f) <=>
          /\ Models(V, C1, f) /\ Models(V, C2, f) /\ Models(V, C3, f)
          /\ Models(V, C4, f) /\ Models(V, C5, f)
  <2>1. CounterClauses(lits, b, base) = C1 \cup C2 \cup C3 \cup C4 \cup C5
    BY DEF CounterClauses
  <2> HIDE DEF C1, C2, C3, C4, C5
  <2> QED
    BY <2>1 DEF Models
<1>6. Models(V, C1, f) <=> \A i \in 1 .. k - 1 : On(i) => s(i, 1) \in V
  <2>1. Models(V, C1, f) <=>
            \A i \in 1 .. k - 1 : Meets(V, f, -lits[i]) \/ Meets(V, f, s(i, 1))
    <3>1. ASSUME Models(V, C1, f), NEW i \in 1 .. k - 1
          PROVE  Meets(V, f, -lits[i]) \/ Meets(V, f, s(i, 1))
      <4>1. {-lits[i], s(i, 1)} \in C1
        OBVIOUS
      <4> HIDE DEF C1, s
      <4> QED
        BY <3>1, <4>1 DEF Models
    <3>2. ASSUME \A i \in 1 .. k - 1 : Meets(V, f, -lits[i]) \/ Meets(V, f, s(i, 1))
          PROVE  Models(V, C1, f)
      BY <3>2 DEF Models
    <3> QED
      BY <3>1, <3>2
  <2> HIDE DEF On, C1, s
  <2> QED
    BY <1>1, <1>3, <1>4, <2>1
<1>7. Models(V, C2, f) <=> \A j \in 2 .. b : s(1, j) \notin V
  <2>1. Models(V, C2, f) <=> \A j \in 2 .. b : Meets(V, f, -s(1, j))
    <3>1. ASSUME Models(V, C2, f), NEW j \in 2 .. b
          PROVE  Meets(V, f, -s(1, j))
      <4>1. {-s(1, j)} \in C2
        OBVIOUS
      <4> HIDE DEF C2, s
      <4> QED
        BY <3>1, <4>1 DEF Models
    <3>2. ASSUME \A j \in 2 .. b : Meets(V, f, -s(1, j))
          PROVE  Models(V, C2, f)
      BY <3>2 DEF Models
    <3> QED
      BY <3>1, <3>2
  <2>2. 1 \in 1 .. k - 1
    BY <1>1
  <2> HIDE DEF On, C2, s
  <2> QED
    BY <1>1, <1>3, <2>1, <2>2
<1>8. Models(V, C3, f) <=>
          \A i \in 2 .. k - 1, j \in 1 .. b : s(i - 1, j) \in V => s(i, j) \in V
  <2>1. Models(V, C3, f) <=>
            \A i \in 2 .. k - 1, j \in 1 .. b : Meets(V, f, -s(i - 1, j)) \/ Meets(V, f, s(i, j))
    <3>1. ASSUME Models(V, C3, f), NEW i \in 2 .. k - 1, NEW j \in 1 .. b
          PROVE  Meets(V, f, -s(i - 1, j)) \/ Meets(V, f, s(i, j))
      <4>1. {-s(i - 1, j), s(i, j)} \in C3
        OBVIOUS
      <4> HIDE DEF C3, s
      <4> QED
        BY <3>1, <4>1 DEF Models
    <3>2. ASSUME \A i \in 2 .. k - 1, j \in 1 .. b : Meets(V, f, -s(i - 1, j)) \/ Meets(V, f, s(i, j))
          PROVE  Models(V, C3, f)
      BY <3>2 DEF Models
    <3> QED
      BY <3>1, <3>2
  <2>2. \A i \in 2 .. k - 1 : i \in 1 .. k - 1 /\ i - 1 \in 1 .. k - 1
    BY <1>1
  <2> HIDE DEF On, C3, s
  <2> QED
    BY <1>1, <1>3, <2>1, <2>2
<1>9. Models(V, C4, f) <=>
          \A i \in 2 .. k - 1, j \in 2 .. b :
              On(i) /\ s(i - 1, j - 1) \in V => s(i, j) \in V
  <2>1. Models(V, C4, f) <=>
            \A i \in 2 .. k - 1, j \in 2 .. b :
                \/ Meets(V, f, -lits[i]) \/ Meets(V, f, -s(i - 1, j - 1))
                \/ Meets(V, f, s(i, j))
    <3>1. ASSUME Models(V, C4, f), NEW i \in 2 .. k - 1, NEW j \in 2 .. b
          PROVE  \/ Meets(V, f, -lits[i]) \/ Meets(V, f, -s(i - 1, j - 1))
                 \/ Meets(V, f, s(i, j))
      <4>1. {-lits[i], -s(i - 1, j - 1), s(i, j)} \in C4
        OBVIOUS
      <4> HIDE DEF C4, s
      <4> QED
        BY <3>1, <4>1 DEF Models
    <3>2. ASSUME \A i \in 2 .. k - 1, j \in 2 .. b :
                     \/ Meets(V, f, -lits[i]) \/ Meets(V, f, -s(i - 1, j - 1))
                     \/ Meets(V, f, s(i, j))
          PROVE  Models(V, C4, f)
      <4> SUFFICES ASSUME NEW clause \in C4 PROVE \E lit \in clause : Meets(V, f, lit)
        <5> HIDE DEF C4
        <5> QED
          BY DEF Models
      <4>1. PICK i \in 2 .. k - 1, j \in 2 .. b :
                clause = {-lits[i], -s(i - 1, j - 1), s(i, j)}
        OBVIOUS
      <4> HIDE DEF s, C4
      <4> QED
        BY <3>2, <4>1
    <3> QED
      BY <3>1, <3>2
  <2>2. /\ \A i \in 2 .. k - 1 : i \in 1 .. k - 1 /\ i - 1 \in 1 .. k - 1 /\ i \in 1 .. k
        /\ \A j \in 2 .. b : j \in 1 .. b /\ j - 1 \in 1 .. b
    BY <1>1
  <2> HIDE DEF On, C4, s
  <2> QED
    BY <1>1, <1>3, <1>4, <2>1, <2>2
<1>10. Models(V, C5, f) <=> \A i \in 2 .. k : On(i) => s(i - 1, b) \notin V
  <2>1. Models(V, C5, f) <=>
            \A i \in 2 .. k : Meets(V, f, -lits[i]) \/ Meets(V, f, -s(i - 1, b))
    <3>1. ASSUME Models(V, C5, f), NEW i \in 2 .. k
          PROVE  Meets(V, f, -lits[i]) \/ Meets(V, f, -s(i - 1, b))
      <4>1. {-lits[i], -s(i - 1, b)} \in C5
        OBVIOUS
      <4> HIDE DEF C5, s
      <4> QED
        BY <3>1, <4>1 DEF Models
    <3>2. ASSUME \A i \in 2 .. k : Meets(V, f, -lits[i]) \/ Meets(V, f, -s(i - 1, b))
          PROVE  Models(V, C5, f)
      BY <3>2 DEF Models
    <3> QED
      BY <3>1, <3>2
  <2>2. (\A i \in 2 .. k : i \in 1 .. k /\ i - 1 \in 1 .. k - 1) /\ b \in 1 .. b
    BY <1>1
  <2> HIDE DEF On, C5, s
  <2> QED
    BY <1>1, <1>3, <1>4, <2>1, <2>2
<1> HIDE DEF C1, C2, C3, C4, C5
<1> QED
  BY <1>5, <1>6, <1>7, <1>8, <1>9, <1>10 DEF Counter

\* "At least j of the first i" is true in the registers that follow from the
\* literals, and the last of them allows no more.
LEMMA CounterCounts ==
    ASSUME NEW f, NEW lits, Distinct(lits, Len(f)), Coloring(f), NEW b \in Nat,
           0 < b, b < Len(lits), NEW base \in Nat, Len(f) <= base
    PROVE  Counts(CounterClauses(lits, b, base), f, Number(lits, f, 1, Len(lits)), b, base,
                  (Len(lits) - 1) * b)
<1>2a. \A i, x \in 1 .. Len(lits) - 1, j, y \in 1 .. b :
          Register(i, j, b, base) = Register(x, y, b, base) => i = x /\ j = y
  <2>1. Len(lits) \in Nat
    BY DEF Distinct
  <2> HIDE DEF Register
  <2> QED
    BY <2>1, Registers
<1> DEFINE k == Len(lits)
           s(i, j) == Register(i, j, b, base)
           on == {i \in 1 .. k : TrueUnder(f, lits[i])}
           c == [i \in 0 .. k |-> Number(lits, f, 1, i)]
<1>1. k \in Nat /\ Len(f) \in Nat
  BY DEF Distinct, Coloring
<1>2. /\ c \in [0 .. k -> Nat]
      /\ c[0] = 0 /\ c[k] = Number(lits, f, 1, k)
      /\ \A i \in 1 .. k : c[i] = IF i \in on THEN c[i - 1] + 1 ELSE c[i - 1]
  <2>1. \A i \in 0 .. k : c[i] = Number(lits, f, 1, i) /\ Number(lits, f, 1, i) \in Nat
    BY <1>1, Counting
  <2>2. Number(lits, f, 1, 0) = 0
    BY Counting
  <2>3. ASSUME NEW i \in 1 .. k PROVE c[i] = IF i \in on THEN c[i - 1] + 1 ELSE c[i - 1]
    <3>1. i - 1 \in 0 .. k /\ i \in 0 .. k /\ 1 <= i
      BY <1>1
    <3>2. Number(lits, f, 1, i) = IF TrueUnder(f, lits[i]) THEN Number(lits, f, 1, i - 1) + 1
                                  ELSE Number(lits, f, 1, i - 1)
      BY <3>1, Counting
    <3> HIDE DEF c
    <3> QED
      BY <2>1, <3>1, <3>2
  <2>4. c \in [0 .. k -> Nat]
    BY <2>1
  <2>5. 0 \in 0 .. k /\ k \in 0 .. k
    BY <1>1
  <2> HIDE DEF c, on
  <2> QED
    BY <2>1, <2>2, <2>3, <2>4, <2>5
<1>0. \A i \in 1 .. k : i \in on <=> TrueUnder(f, lits[i])
  OBVIOUS
<1> HIDE DEF c, on
<1>3. ASSUME NEW V \in SUBSET Nat, Models(V, CounterClauses(lits, b, base), f)
      PROVE  c[k] <= b
  <2>1. Counter(V, f, lits, b, base)
    BY <1>3, CounterSays
  <2>2. /\ \A i \in 1 .. k - 1 : (i \in on) => s(i, 1) \in V
        /\ \A j \in 2 .. b : s(1, j) \notin V
        /\ \A i \in 2 .. k - 1, j \in 1 .. b : s(i - 1, j) \in V => s(i, j) \in V
        /\ \A i \in 2 .. k - 1, j \in 2 .. b :
              (i \in on) /\ s(i - 1, j - 1) \in V => s(i, j) \in V
        /\ \A i \in 2 .. k : (i \in on) => s(i - 1, b) \notin V
    BY <1>0, <1>1, <2>1 DEF Counter
  <2> HIDE DEF s
  <2> DEFINE Reached(i) == i \in 1 .. k - 1 => \A j \in 1 .. b : j <= c[i] => s(i, j) \in V
             S == {i \in Nat : Reached(i)}
  <2>3. S = Nat
    <3>1. 0 \in S
      OBVIOUS
    <3>2. \A i \in S : i + 1 \in S
      <4> SUFFICES ASSUME NEW i \in Nat, Reached(i) PROVE Reached(i + 1)
        <5> HIDE DEF Reached
        <5> QED
          OBVIOUS
      <4> SUFFICES ASSUME i + 1 \in 1 .. k - 1, NEW j \in 1 .. b, j <= c[i + 1]
                   PROVE  s(i + 1, j) \in V
        OBVIOUS
      <4>1. CASE i = 0
        <5>1. (1 \in on) /\ j = 1
          BY <1>2, <4>1
        <5> QED
          BY <2>2, <4>1, <5>1
      <4>2. CASE i # 0
        <5>1. /\ i \in 1 .. k - 1 /\ i + 1 \in 2 .. k - 1 /\ (i + 1) - 1 = i
              /\ c[i] \in Nat
          BY <1>1, <1>2, <4>2
        <5>2. CASE j <= c[i]
          <6>1. s(i, j) \in V
            BY <5>1, <5>2
          <6> QED
            BY <2>2, <5>1, <6>1
        <5>3. CASE ~(j <= c[i])
          <6>1. (i + 1 \in on) /\ j = c[i] + 1
            BY <1>2, <5>1, <5>3
          <6>2. CASE j = 1
            BY <2>2, <6>1, <6>2
          <6>3. CASE j # 1
            <7>1. j \in 2 .. b /\ j - 1 \in 1 .. b /\ j - 1 <= c[i]
              BY <5>1, <6>1, <6>3
            <7>2. s(i, j - 1) \in V
              BY <5>1, <7>1
            <7> QED
              BY <2>2, <5>1, <6>1, <7>1, <7>2
          <6> QED
            BY <6>2, <6>3
        <5> QED
          BY <5>2, <5>3
      <4> QED
        BY <4>1, <4>2
    <3>3. S \in SUBSET Nat
      OBVIOUS
    <3> HIDE DEF S
    <3> QED
      BY <3>1, <3>2, <3>3, FromZeroUp
  <2> DEFINE R == {i \in Nat : i \in 0 .. k => c[i] <= b}
  <2>4. R = Nat
    <3>1. 0 \in R
      BY <1>2
    <3>2. \A i \in R : i + 1 \in R
      <4> SUFFICES ASSUME NEW i \in Nat, i \in R, i + 1 \in 0 .. k, b < c[i + 1] PROVE FALSE
        BY <1>2
      <4>1. (i + 1 \in on) /\ c[i] = b /\ i # 0
        BY <1>1, <1>2
      <4>2. i + 1 \in 2 .. k /\ i \in 1 .. k - 1 /\ (i + 1) - 1 = i /\ b \in 1 .. b
        BY <1>1, <4>1
      <4>3. i \in S
        BY <2>3
      <4>4. s(i, b) \in V
        BY <4>1, <4>2, <4>3
      <4> QED
        BY <2>2, <4>1, <4>2, <4>4
    <3>3. R \in SUBSET Nat
      OBVIOUS
    <3> HIDE DEF R
    <3> QED
      BY <3>1, <3>2, <3>3, FromZeroUp
  <2>5. k \in R
    BY <1>1, <2>4
  <2> QED
    BY <1>1, <2>5
<1>4. ASSUME c[k] <= b
      PROVE  \E V \in SUBSET (base + 1 .. base + (k - 1) * b) :
                 Models(V, CounterClauses(lits, b, base), f)
  <2> DEFINE Pairs == {p \in (1 .. k - 1) \X (1 .. b) : p[2] <= c[p[1]]}
             V == {s(p[1], p[2]) : p \in Pairs}
  <2>1. V \in SUBSET (base + 1 .. base + (k - 1) * b)
    <3> SUFFICES ASSUME NEW i \in 1 .. k - 1, NEW j \in 1 .. b
                 PROVE  s(i, j) \in base + 1 .. base + (k - 1) * b
      OBVIOUS
    <3> QED
      BY <1>1, Registers
  <2>2. \A i \in 1 .. k - 1, j \in 1 .. b : s(i, j) \in V <=> j <= c[i]
    <3> SUFFICES ASSUME NEW i \in 1 .. k - 1, NEW j \in 1 .. b
                 PROVE  s(i, j) \in V <=> j <= c[i]
      OBVIOUS
    <3>1. ASSUME j <= c[i] PROVE s(i, j) \in V
      <4>1. <<i, j>> \in Pairs
        BY <3>1
      <4> QED
        BY <4>1
    <3>2. ASSUME s(i, j) \in V PROVE j <= c[i]
      <4>1. PICK p \in Pairs : s(i, j) = s(p[1], p[2])
        BY <3>2
      <4>2. p[1] \in 1 .. k - 1 /\ p[2] \in 1 .. b /\ p[2] <= c[p[1]]
        OBVIOUS
      <4>3. i = p[1] /\ j = p[2]
        <5>1. \A x \in 1 .. k - 1, y \in 1 .. b : s(i, j) = s(x, y) => i = x /\ j = y
          BY <1>2a
        <5> HIDE DEF s
        <5> QED
          BY <4>1, <4>2, <5>1
      <4> QED
        BY <4>2, <4>3
    <3> QED
      BY <3>1, <3>2
  <2> HIDE DEF V
  <2>3. \A i \in 2 .. k - 1 : i \in 1 .. k - 1 /\ i - 1 \in 1 .. k - 1
    BY <1>1
  <2>4. \A i \in 1 .. k : /\ c[i] \in Nat /\ c[i - 1] \in Nat
                          /\ c[i] = IF i \in on THEN c[i - 1] + 1 ELSE c[i - 1]
                          /\ c[i - 1] <= c[i]
    <3> SUFFICES ASSUME NEW i \in 1 .. k
                 PROVE  /\ c[i] \in Nat /\ c[i - 1] \in Nat
                        /\ c[i] = IF i \in on THEN c[i - 1] + 1 ELSE c[i - 1]
                        /\ c[i - 1] <= c[i]
      OBVIOUS
    <3>1. i \in 0 .. k /\ i - 1 \in 0 .. k
      BY <1>1
    <3>2. c[i] \in Nat /\ c[i - 1] \in Nat
      BY <1>2, <3>1
    <3>3. c[i] = IF i \in on THEN c[i - 1] + 1 ELSE c[i - 1]
      BY <1>2
    <3> QED
      BY <3>2, <3>3
  <2>5. \A i \in 0 .. k : c[i] <= b
    <3> DEFINE R == {m \in Nat : m <= k => c[k - m] <= b}
    <3>1. 0 \in R
      BY <1>1, <1>4
    <3>2. \A m \in R : m + 1 \in R
      <4> SUFFICES ASSUME NEW m \in Nat, m \in R, m + 1 <= k PROVE c[k - (m + 1)] <= b
        OBVIOUS
      <4>1. k - m \in 1 .. k /\ (k - m) - 1 = k - (m + 1) /\ c[k - m] <= b
        BY <1>1
      <4>2. ASSUME NEW x \in 1 .. k, c[x] <= b PROVE c[x - 1] <= b
        BY <2>4, <4>2
      <4>3. c[(k - m) - 1] <= b
        BY <4>1, <4>2
      <4> QED
        BY <4>1, <4>3
    <3>3. R \in SUBSET Nat
      OBVIOUS
    <3>4. R = Nat
      <4> HIDE DEF R
      <4> QED
        BY <3>1, <3>2, <3>3, FromZeroUp
    <3> SUFFICES ASSUME NEW i \in 0 .. k PROVE c[i] <= b
      OBVIOUS
    <3>5. k - i \in Nat /\ k - i <= k /\ k - (k - i) = i
      BY <1>1
    <3>6. k - i \in R
      BY <3>4, <3>5
    <3> QED
      BY <3>5, <3>6
  <2>6. Counter(V, f, lits, b, base)
    <3>1. ASSUME NEW i \in 1 .. k - 1, (i \in on) PROVE s(i, 1) \in V
      <4>1. i \in 1 .. k /\ 1 \in 1 .. b
        BY <1>1
      <4>2. 1 <= c[i]
        BY SMTT(30), <2>4, <3>1, <4>1
      <4> HIDE DEF s
      <4> QED
        BY <2>2, <4>1, <4>2
    <3>2. ASSUME NEW j \in 2 .. b PROVE s(1, j) \notin V
      <4>1. 1 \in 1 .. k - 1 /\ 1 \in 1 .. k /\ j \in 1 .. b
        BY <1>1
      <4>2. c[1] <= 1 /\ c[1] \in Nat
        <5>1. c[1] = IF 1 \in on THEN c[1 - 1] + 1 ELSE c[1 - 1]
          BY <2>4, <4>1
        <5>2. 1 - 1 = 0
          OBVIOUS
        <5> QED
          BY <1>2, <5>1, <5>2
      <4>3. ~(j <= c[1])
        BY <4>2
      <4> HIDE DEF s
      <4> QED
        BY <2>2, <4>1, <4>3
    <3>3. ASSUME NEW i \in 2 .. k - 1, NEW j \in 1 .. b, s(i - 1, j) \in V
          PROVE  s(i, j) \in V
      <4>1. j <= c[i - 1]
        BY <2>2, <2>3, <3>3
      <4>2. c[i - 1] <= c[i] /\ c[i] \in Nat /\ c[i - 1] \in Nat
        <5>1. i \in 1 .. k
          BY <1>1
        <5> QED
          BY <2>4, <5>1
      <4>3. j <= c[i]
        BY <4>1, <4>2
      <4> HIDE DEF s
      <4> QED
        BY <2>2, <2>3, <4>3
    <3>4. ASSUME NEW i \in 2 .. k - 1, NEW j \in 2 .. b, (i \in on), s(i - 1, j - 1) \in V
          PROVE  s(i, j) \in V
      <4>1. j \in 1 .. b /\ j - 1 \in 1 .. b
        OBVIOUS
      <4>2. j - 1 <= c[i - 1]
        BY <2>2, <2>3, <3>4, <4>1
      <4>3. c[i] = c[i - 1] + 1 /\ c[i - 1] \in Nat
        BY <1>1, <2>3, <2>4, <3>4
      <4>4. j <= c[i]
        BY <4>2, <4>3
      <4> HIDE DEF s
      <4> QED
        BY <2>2, <2>3, <4>1, <4>4
    <3>5. ASSUME NEW i \in 2 .. k, (i \in on) PROVE s(i - 1, b) \notin V
      <4>1. i \in 1 .. k /\ i \in 0 .. k /\ i - 1 \in 1 .. k - 1 /\ b \in 1 .. b
        BY <1>1
      <4>2. c[i] = c[i - 1] + 1 /\ c[i - 1] \in Nat /\ c[i] <= b
        BY <2>4, <2>5, <3>5, <4>1
      <4>3. ~(b <= c[i - 1])
        BY <4>2
      <4> HIDE DEF s
      <4> QED
        BY <2>2, <4>1, <4>3
    <3> QED
      BY <1>0, <1>1, <3>1, <3>2, <3>3, <3>4, <3>5 DEF Counter
  <2>7. Models(V, CounterClauses(lits, b, base), f)
    BY <2>6, CounterSays
  <2> QED
    BY <2>1, <2>7
<1> QED
  BY <1>2, <1>3, <1>4 DEF Counts

\* The counter's clauses stay in their block and fill it.
LEMMA CounterShape ==
    ASSUME NEW n \in Nat, NEW lits, Distinct(lits, n), NEW b \in Nat,
           0 < b, b < Len(lits), NEW base \in Nat, n <= base
    PROVE  LET clauses == CounterClauses(lits, b, base) IN
           /\ Confined(clauses, n, base, (Len(lits) - 1) * b)
           /\ HornIn(clauses, n)
           /\ Fills(clauses, base, (Len(lits) - 1) * b)
<1> DEFINE k == Len(lits)
           size == (k - 1) * b
           s(i, j) == Register(i, j, b, base)
           C1 == {{-lits[i], s(i, 1)} : i \in 1 .. k - 1}
           C2 == {{-s(1, j)} : j \in 2 .. b}
           C3 == {{-s(i - 1, j), s(i, j)} : i \in 2 .. k - 1, j \in 1 .. b}
           C4 == {{-lits[i], -s(i - 1, j - 1), s(i, j)} : i \in 2 .. k - 1, j \in 2 .. b}
           C5 == {{-lits[i], -s(i - 1, b)} : i \in 2 .. k}
           clauses == C1 \cup C2 \cup C3 \cup C4 \cup C5
           Fine(c) == /\ \A lit \in c : \/ lit \in -n .. n
                                        \/ lit \in base + 1 .. base + size
                                        \/ lit \in Int /\ -lit \in base + 1 .. base + size
                      /\ \A x, y \in c : x > n /\ y > n => x = y
<1>1. k \in Nat /\ size \in Int
  BY DEF Distinct
<1>2. clauses = CounterClauses(lits, b, base)
  BY DEF CounterClauses
<1>3. \A i \in 1 .. k - 1, j \in 1 .. b : s(i, j) \in base + 1 .. base + size
  BY <1>1, Registers
<1>4. \A v \in base + 1 .. base + size : \E i \in 1 .. k - 1, j \in 1 .. b : v = s(i, j)
  BY <1>1, Registers
<1>5. \A i \in 1 .. k : -lits[i] \in -n .. n
  BY DEF Distinct
<1> HIDE DEF s, size
<1> DEFINE block == base + 1 .. base + size
<1>5a. ASSUME NEW p \in block, NEW q \in block, NEW m \in -n .. n
       PROVE  Fine({m, p}) /\ Fine({-q}) /\ Fine({-q, p}) /\ Fine({m, -q, p}) /\ Fine({m, -q})
  <2>1. p \in Int /\ p > n /\ q \in Int /\ -q < n /\ -(-q) = q /\ m <= n
    BY <1>1
  <2> QED
    BY <1>1, <2>1
<1> HIDE DEF Fine
<1>6. \A c \in C1 : Fine(c)
  <2> SUFFICES ASSUME NEW i \in 1 .. k - 1 PROVE Fine({-lits[i], s(i, 1)})
    OBVIOUS
  <2>1. s(i, 1) \in block /\ -lits[i] \in -n .. n
    BY <1>1, <1>3, <1>5
  <2> QED
    BY <1>5a, <2>1
<1>7. \A c \in C2 : Fine(c)
  <2> SUFFICES ASSUME NEW j \in 2 .. b PROVE Fine({-s(1, j)})
    OBVIOUS
  <2>1. 1 \in 1 .. k - 1 /\ 1 \in 1 .. k /\ j \in 1 .. b
    BY <1>1
  <2>2. s(1, j) \in block /\ -lits[1] \in -n .. n
    BY <1>3, <1>5, <2>1
  <2> QED
    BY <1>5a, <2>2
<1>8. \A c \in C3 : Fine(c)
  <2> SUFFICES ASSUME NEW i \in 2 .. k - 1, NEW j \in 1 .. b
               PROVE  Fine({-s(i - 1, j), s(i, j)})
    OBVIOUS
  <2>1. i - 1 \in 1 .. k - 1 /\ i \in 1 .. k - 1
    BY <1>1
  <2>2. s(i - 1, j) \in block /\ s(i, j) \in block /\ -lits[1] \in -n .. n
    BY <1>1, <1>3, <1>5, <2>1
  <2> QED
    BY <1>5a, <2>2
<1>9. \A c \in C4 : Fine(c)
  <2> SUFFICES ASSUME NEW c, c \in C4 PROVE Fine(c)
    <3> HIDE DEF C4
    <3> QED
      OBVIOUS
  <2>0. PICK i \in 2 .. k - 1, j \in 2 .. b : c = {-lits[i], -s(i - 1, j - 1), s(i, j)}
    OBVIOUS
  <2>1. i - 1 \in 1 .. k - 1 /\ i \in 1 .. k - 1 /\ j - 1 \in 1 .. b /\ j \in 1 .. b
    BY <1>1
  <2>2. s(i - 1, j - 1) \in block /\ s(i, j) \in block /\ -lits[i] \in -n .. n
    BY <1>1, <1>3, <1>5, <2>1
  <2> HIDE DEF C4
  <2> QED
    BY <1>5a, <2>0, <2>2
<1>10. \A c \in C5 : Fine(c)
  <2> SUFFICES ASSUME NEW i \in 2 .. k
               PROVE  Fine({-lits[i], -s(i - 1, b)})
    OBVIOUS
  <2>1. s(i - 1, b) \in block /\ -lits[i] \in -n .. n
    BY <1>1, <1>3, <1>5
  <2> QED
    BY <1>5a, <2>1
<1>11. \A c \in clauses : Fine(c)
  <2> HIDE DEF C1, C2, C3, C4, C5
  <2> QED
    BY <1>6, <1>7, <1>8, <1>9, <1>10
<1>12. ASSUME NEW i \in 1 .. k - 1, NEW j \in 1 .. b
       PROVE  \E c \in clauses : s(i, j) \in c \/ -s(i, j) \in c
  <2>1. j = 1 => {-lits[i], s(i, 1)} \in C1
    OBVIOUS
  <2>2. j # 1 /\ i = 1 => {-s(1, j)} \in C2
    OBVIOUS
  <2>3. j # 1 /\ i # 1 => {-s(i - 1, j), s(i, j)} \in C3
    BY <1>1
  <2> HIDE DEF C1, C2, C3, C4, C5
  <2>4. CASE j = 1
    BY <2>1, <2>4
  <2>5. CASE j # 1 /\ i = 1
    BY <2>2, <2>5
  <2>6. CASE j # 1 /\ i # 1
    BY <2>3, <2>6
  <2> QED
    BY <2>4, <2>5, <2>6
<1> HIDE DEF clauses
<1>13. Confined(clauses, n, base, size) /\ HornIn(clauses, n)
  BY <1>1, <1>11 DEF Fine, Confined, HornIn
<1>14. Fills(clauses, base, size)
  BY <1>4, <1>12 DEF Fills
<1> QED
  BY <1>2, <1>13, <1>14 DEF size

-----------------------------------------------------------------------------
(* The tree of the totalizer.                                              *)

\* How many variables a tree has, from its children's.
LEMMA SizeLaw ==
    ASSUME NEW k \in Nat, NEW b \in Nat
    PROVE  \E T \in [0 .. k -> Nat] :
              /\ TreeSize(k, b) = T[k]
              /\ \A m \in 0 .. k :
                    T[m] = IF m <= 1 THEN 0
                           ELSE T[m \div 2] + T[m - m \div 2] + Least(m, b + 1)
<1> DEFINE lo(m) == m \div 2
           hi(m) == m - m \div 2
           Rule(T, m) == IF m <= 1 THEN 0 ELSE T[lo(m)] + T[hi(m)] + Least(m, b + 1)
           Good(T) == T = [m \in 0 .. k |-> Rule(T, m)]
           S == {n \in Nat : \E g \in [0 .. k -> Nat] :
                                \A m \in 0 .. k : m <= n => g[m] = Rule(g, m)}
<1>2. \A m \in 0 .. k : m > 1 =>
          lo(m) \in 0 .. k /\ hi(m) \in 0 .. k /\ lo(m) < m /\ hi(m) < m
  OBVIOUS
<1> HIDE DEF lo, hi
<1>3. \A g \in [0 .. k -> Nat], m \in 0 .. k : Rule(g, m) \in Nat
  <2> SUFFICES ASSUME NEW g \in [0 .. k -> Nat], NEW m \in 0 .. k PROVE Rule(g, m) \in Nat
    OBVIOUS
  <2>1. CASE m <= 1
    BY <2>1
  <2>2. CASE m > 1
    <3>1. g[lo(m)] \in Nat /\ g[hi(m)] \in Nat
      BY <1>2, <2>2
    <3>2. Least(m, b + 1) \in Nat
      BY DEF Least
    <3> QED
      BY <2>2, <3>1, <3>2
  <2> QED
    BY <2>1, <2>2
<1>4. 0 \in S
  <2> DEFINE g == [m \in 0 .. k |-> 0]
  <2>1. g \in [0 .. k -> Nat] /\ \A m \in 0 .. k : m <= 0 => g[m] = Rule(g, m)
    OBVIOUS
  <2> HIDE DEF g, Rule
  <2> QED
    BY <2>1
<1>5. ASSUME NEW n \in S PROVE n + 1 \in S
  <2>0. PICK g \in [0 .. k -> Nat] : \A m \in 0 .. k : m <= n => g[m] = Rule(g, m)
    <3> HIDE DEF Rule
    <3> QED
      OBVIOUS
  <2> DEFINE h == [m \in 0 .. k |-> Rule(g, m)]
  <2>1. h \in [0 .. k -> Nat]
    <3> HIDE DEF Rule
    <3> QED
      BY <1>3
  <2>2. \A m \in 0 .. k : m <= n => h[m] = g[m]
    <3> HIDE DEF Rule
    <3> QED
      BY <2>0
  <2>3. ASSUME NEW m \in 0 .. k, m <= n + 1 PROVE h[m] = Rule(h, m)
    <3>1. h[m] = Rule(g, m)
      OBVIOUS
    <3> HIDE DEF h
    <3>2. CASE m <= 1
      BY <3>1, <3>2
    <3>3. CASE m > 1
      <4>1. h[lo(m)] = g[lo(m)] /\ h[hi(m)] = g[hi(m)]
        BY <1>2, <2>2, <2>3, <3>3
      <4> QED
        BY <3>1, <3>3, <4>1
    <3> QED
      BY <3>2, <3>3
  <2> HIDE DEF h, Rule
  <2> QED
    BY <2>1, <2>3
<1>6. S = Nat
  <2>1. S \in SUBSET Nat
    OBVIOUS
  <2> HIDE DEF S
  <2> QED
    BY <1>4, <1>5, <2>1, FromZeroUp
<1>7. PICK g \in [0 .. k -> Nat] : Good(g)
  <2>1. k \in S
    BY <1>6
  <2>2. PICK g \in [0 .. k -> Nat] : \A m \in 0 .. k : m <= k => g[m] = Rule(g, m)
    <3> HIDE DEF Rule
    <3> QED
      BY <2>1
  <2>3. \A m \in 0 .. k : g[m] = Rule(g, m)
    <3> HIDE DEF Rule
    <3> QED
      BY <2>2
  <2>4. g = [m \in 0 .. k |-> Rule(g, m)]
    <3> HIDE DEF Rule
    <3> QED
      BY <2>3
  <2> QED
    BY <2>4
<1> DEFINE T == CHOOSE T : Good(T)
<1>8. Good(T)
  <2> HIDE DEF Good
  <2> QED
    BY <1>7
<1>9. TreeSize(k, b) = T[k]
  BY DEF TreeSize, lo, hi
<1> HIDE DEF T
<1>10. \A m \in 0 .. k : T[m] = Rule(T, m)
  <2> HIDE DEF Rule
  <2> QED
    BY <1>8
<1>11. \A m \in 0 .. k : T[m] \in Nat
  <2> DEFINE R == {n \in Nat : \A m \in 0 .. k : m <= n => T[m] \in Nat}
  <2>1. 0 \in R
    BY <1>10
  <2>2. ASSUME NEW n \in R PROVE n + 1 \in R
    <3> SUFFICES ASSUME NEW m \in 0 .. k, m <= n + 1 PROVE T[m] \in Nat
      OBVIOUS
    <3>1. CASE m <= 1
      BY <1>10, <3>1
    <3>2. CASE m > 1
      <4>1. T[lo(m)] \in Nat /\ T[hi(m)] \in Nat
        BY <1>2, <3>2
      <4>2. T[m] = T[lo(m)] + T[hi(m)] + Least(m, b + 1)
        BY <1>10, <3>2
      <4>3. Least(m, b + 1) \in Nat
        BY DEF Least
      <4> QED
        BY <4>1, <4>2, <4>3
    <3> QED
      BY <3>1, <3>2
  <2>3. R = Nat
    <3>1. R \in SUBSET Nat
      OBVIOUS
    <3> HIDE DEF R
    <3> QED
      BY <2>1, <2>2, <3>1, FromZeroUp
  <2>4. k \in R
    BY <2>3
  <2> QED
    BY <2>4
<1>12. T \in [0 .. k -> Nat]
  <2> HIDE DEF Rule
  <2> QED
    BY <1>8, <1>11
<1> QED
  BY <1>9, <1>10, <1>12 DEF lo, hi

\* Where the leaves of a node are split.
Half(x, y) == x + (y - x + 1) \div 2

\* A list is split into halves that are shorter.
LEMMA Halves ==
    ASSUME NEW k \in Nat, NEW x \in 1 .. k, NEW y \in 1 .. k, x < y
    PROVE  /\ Half(x, y) \in 1 .. k /\ Half(x, y) - 1 \in 1 .. k
           /\ x < Half(x, y) /\ Half(x, y) <= y
           /\ Half(x, y) - 1 - x + 1 = (y - x + 1) \div 2
           /\ y - Half(x, y) + 1 = (y - x + 1) - (y - x + 1) \div 2
BY DEF Half

\* The recursion that makes a tree of lits.
Branches(node, lits, b) ==
    \A x, y \in 1 .. Len(lits), c \in Nat :
       LET child == node[<<x, Half(x, y) - 1, c>>] IN
       /\ node[<<x, y, c>>].cursor \in Nat
       /\ node[<<x, y, c>>] =
             IF x >= y
             THEN [out |-> <<lits[x]>>, clauses |-> {}, cursor |-> c]
             ELSE Parent(child, node[<<Half(x, y), y, child.cursor>>], y - x + 1, b)

\* The recursion of the tree is well defined.
LEMMA TreeLaw ==
    ASSUME NEW lits \in Seq(Int), Len(lits) >= 1, NEW b \in Nat, NEW base \in Nat
    PROVE  \E node : /\ Tree(lits, b, base) = node[<<1, Len(lits), base + 1>>]
                     /\ Branches(node, lits, b)
<1> DEFINE k == Len(lits)
           D == (DOMAIN lits) \X (DOMAIN lits) \X Nat
           M(p) == p[2] - p[1] + 1
           Left(p) == <<p[1], (p[1] + M(p) \div 2) - 1, p[3]>>
           Right(p, c) == <<p[1] + M(p) \div 2, p[2], c>>
           Leaf(p) == [out |-> <<lits[p[1]]>>, clauses |-> {}, cursor |-> p[3]]
           Rule(g, p) == IF M(p) <= 1 THEN Leaf(p)
                         ELSE Parent(g[Left(p)], g[Right(p, g[Left(p)].cursor)], M(p), b)
           Good(g) == g = [p \in D |-> Rule(g, p)]
           Upto(g, n) == \A p \in D : M(p) <= n => g[p] = Rule(g, p) /\ g[p].cursor \in Nat
           S == {n \in Nat : \E g : Upto(g, n)}
<1>1. k \in Nat /\ DOMAIN lits = 1 .. k
  OBVIOUS
<1>2. ASSUME NEW p \in D, ~(M(p) <= 1)
      PROVE  /\ Left(p) \in D /\ M(Left(p)) < M(p)
             /\ \A c \in Nat : Right(p, c) \in D /\ M(Right(p, c)) < M(p)
  <2>1. PICK x \in 1 .. k, y \in 1 .. k, e \in Nat : p = <<x, y, e>>
    BY <1>1
  <2>2. x < y /\ M(p) = y - x + 1
    BY <1>1, <1>2, <2>1
  <2> DEFINE split == Half(x, y)
  <2>3. split \in 1 .. k /\ split - 1 \in 1 .. k /\ x < split /\ split <= y
    BY <1>1, <2>2, Halves
  <2>4. Left(p) = <<x, split - 1, e>> /\ \A c \in Nat : Right(p, c) = <<split, y, c>>
    BY <2>1 DEF Half
  <2> HIDE DEF split
  <2>5. /\ <<x, split - 1, e>> \in D /\ M(<<x, split - 1, e>>) < y - x + 1
        /\ \A c \in Nat : <<split, y, c>> \in D /\ M(<<split, y, c>>) < y - x + 1
    <3>1. split - 1 - x + 1 < y - x + 1 /\ y - split + 1 < y - x + 1
      BY <1>1, <2>2, <2>3
    <3> QED
      BY <1>1, <2>3, <3>1
  <2> HIDE DEF D, M, Left, Right
  <2> QED
    BY <2>2, <2>4, <2>5
<1>3. \A p \in D : Leaf(p).cursor \in Nat /\ M(p) \in Int
  BY <1>1
<1>4. \A l, r, m : r.cursor \in Nat /\ m \in Int /\ ~(m <= 1)
                      => Parent(l, r, m, b).cursor \in Nat
  BY DEF Parent, Least
<1> HIDE DEF D, M, Left, Right, Leaf
<1>5. ASSUME NEW g, NEW n \in Nat, Upto(g, n), NEW p \in D, M(p) <= n + 1
      PROVE  /\ Rule(g, p).cursor \in Nat
             /\ \A h : (\A q \in D : M(q) <= n => h[q] = g[q]) => Rule(h, p) = Rule(g, p)
  <2>1. CASE M(p) <= 1
    BY <1>3, <2>1
  <2>2. CASE ~(M(p) <= 1)
    <3>1. Left(p) \in D /\ M(Left(p)) <= n
      BY <1>2, <1>3, <1>5, <2>2
    <3>2. g[Left(p)].cursor \in Nat
      BY <1>5, <3>1
    <3>3. /\ Right(p, g[Left(p)].cursor) \in D
          /\ M(Right(p, g[Left(p)].cursor)) <= n
      <4>1. \A c \in Nat : Right(p, c) \in D /\ M(Right(p, c)) < M(p)
        BY <1>2, <2>2
      <4>2. \A c \in Nat : Right(p, c) \in D /\ M(Right(p, c)) <= n
        BY <1>3, <1>5, <4>1
      <4> QED
        BY <3>2, <4>2
    <3>4. g[Right(p, g[Left(p)].cursor)].cursor \in Nat
      BY <1>5, <3>3
    <3>5. Parent(g[Left(p)], g[Right(p, g[Left(p)].cursor)], M(p), b).cursor \in Nat
      BY <1>3, <1>4, <2>2, <3>4
    <3> QED
      BY <2>2, <3>1, <3>3, <3>5
  <2> QED
    BY <2>1, <2>2
<1> HIDE DEF Rule
<1>6. 0 \in S
  <2>1. Upto([p \in D |-> Leaf(p)], 0)
    BY <1>3 DEF Rule
  <2> HIDE DEF Upto
  <2> QED
    BY <2>1
<1>7. ASSUME NEW n \in S PROVE n + 1 \in S
  <2>1. PICK g : Upto(g, n)
    BY <1>7
  <2> DEFINE h == [p \in D |-> Rule(g, p)]
  <2>2. \A q \in D : h[q] = Rule(g, q)
    OBVIOUS
  <2> HIDE DEF h
  <2>3. \A q \in D : M(q) <= n => h[q] = g[q]
    BY <2>1, <2>2
  <2>4. Upto(h, n + 1)
    <3> SUFFICES ASSUME NEW p \in D, M(p) <= n + 1
                 PROVE  h[p] = Rule(h, p) /\ h[p].cursor \in Nat
      OBVIOUS
    <3>1. n \in Nat
      OBVIOUS
    <3> HIDE DEF Upto, S
    <3> QED
      BY <1>5, <2>1, <2>2, <2>3, <3>1
  <2> HIDE DEF Upto
  <2> QED
    BY <2>4
<1>8. S = Nat
  <2>1. S \in SUBSET Nat
    OBVIOUS
  <2> HIDE DEF S
  <2> QED
    BY <1>6, <1>7, <2>1, FromZeroUp
<1>9. \E g : Good(g)
  <2>1. PICK g : Upto(g, k)
    BY <1>1, <1>8
  <2>2. \A p \in D : M(p) <= k
    BY <1>1 DEF D, M
  <2> DEFINE h == [p \in D |-> Rule(g, p)]
  <2>3. \A q \in D : h[q] = g[q]
    BY <2>1, <2>2
  <2>4. \A p \in D : Rule(h, p) = Rule(g, p)
    <3> SUFFICES ASSUME NEW p \in D PROVE Rule(h, p) = Rule(g, p)
      OBVIOUS
    <3>1. M(p) <= k + 1
      BY <1>1, <1>3, <2>2
    <3>2. \A q \in D : M(q) <= k => h[q] = g[q]
      BY <2>3
    <3> HIDE DEF h, Upto
    <3> QED
      BY <1>1, <1>5, <2>1, <3>1, <3>2
  <2>5. h = [p \in D |-> Rule(h, p)]
    BY <2>4
  <2> HIDE DEF h
  <2> QED
    BY <2>5
<1> DEFINE node == CHOOSE g : Good(g)
<1>10. Good(node)
  <2> HIDE DEF Good
  <2> QED
    BY <1>9
<1>11. Tree(lits, b, base) = node[<<1, Len(lits), base + 1>>]
  BY DEF Tree, D, Rule, Left, Right, Leaf, M
<1> HIDE DEF node
<1>12. \A p \in D : node[p] = Rule(node, p)
  BY <1>10
<1>13. \A p \in D : node[p].cursor \in Nat
  <2> DEFINE R == {n \in Nat : Upto(node, n)}
  <2>1. 0 \in R
    BY <1>3, <1>12 DEF Rule
  <2>2. ASSUME NEW n \in R PROVE n + 1 \in R
    BY <1>5, <1>12, <2>2
  <2>3. R = Nat
    <3>1. R \in SUBSET Nat
      OBVIOUS
    <3> HIDE DEF R
    <3> QED
      BY <2>1, <2>2, <3>1, FromZeroUp
  <2>4. \A p \in D : M(p) <= k
    BY <1>1 DEF D, M
  <2>5. Upto(node, k)
    BY <1>1, <2>3
  <2> QED
    BY <2>4, <2>5
<1>14. ASSUME NEW x \in 1 .. k, NEW y \in 1 .. k, NEW c \in Nat
       PROVE  LET child == node[<<x, Half(x, y) - 1, c>>] IN
              /\ node[<<x, y, c>>].cursor \in Nat
              /\ node[<<x, y, c>>] =
                    IF x >= y
                    THEN [out |-> <<lits[x]>>, clauses |-> {}, cursor |-> c]
                    ELSE Parent(child, node[<<Half(x, y), y, child.cursor>>],
                                y - x + 1, b)
  <2>1. <<x, y, c>> \in D
    BY DEF D
  <2>2. node[<<x, y, c>>] = Rule(node, <<x, y, c>>) /\ node[<<x, y, c>>].cursor \in Nat
    BY <1>12, <1>13, <2>1
  <2>3. Rule(node, <<x, y, c>>) =
            IF y - x + 1 <= 1
            THEN [out |-> <<lits[x]>>, clauses |-> {}, cursor |-> c]
            ELSE Parent(node[<<x, Half(x, y) - 1, c>>],
                        node[<<Half(x, y), y, node[<<x, Half(x, y) - 1, c>>].cursor>>],
                        y - x + 1, b)
    BY DEF Rule, Leaf, Left, Right, M, Half
  <2>4. y - x + 1 <= 1 <=> x >= y
    BY <1>1
  <2> QED
    BY <2>2, <2>3, <2>4
<1>15. Branches(node, lits, b)
  BY <1>14 DEF Branches
<1> QED
  BY <1>11, <1>15

\* A literal that is a main variable's, or a variable of the block after base.
Within(lit, n, base, size) ==
    lit \in Int /\ lit # 0 /\ (lit \in -n .. n \/ lit \in base + 1 .. base + size)

\* A literal or its negation is met, and a block decides about its own.
LEMMA OwnNegation ==
    ASSUME NEW f, Coloring(f), NEW base \in Nat, NEW size \in Nat, Len(f) <= base,
           NEW lit, Within(lit, Len(f), base, size), NEW V
    PROVE  Meets(V, f, -lit) <=> ~Meets(V, f, lit)
<1>1. Len(f) \in Nat
  BY DEF Coloring
<1>2. CASE lit \in -Len(f) .. Len(f)
  <2>1. lit # 0
    BY DEF Within
  <2> QED
    BY <1>2, <2>1, Meeting
<1>3. CASE lit \in base + 1 .. base + size
  <2>1. lit \in Nat /\ lit > Len(f)
    BY <1>1, <1>3
  <2> QED
    BY <1>3, <2>1, Meeting
<1> QED
  BY <1>2, <1>3 DEF Within

\* What a literal is depends on the choices in its own block only.
LEMMA OwnBlock ==
    ASSUME NEW f, Coloring(f), NEW base \in Nat, NEW size \in Nat, Len(f) <= base,
           NEW V, NEW W, \A v \in base + 1 .. base + size : v \in V <=> v \in W,
           NEW lit, Within(lit, Len(f), base, size)
    PROVE  Meets(V, f, lit) <=> Meets(W, f, lit)
<1>1. Len(f) \in Nat
  BY DEF Coloring
<1>2. CASE lit \in -Len(f) .. Len(f)
  <2>1. lit # 0
    BY DEF Within
  <2> QED
    BY <1>2, <2>1, Meeting
<1>3. CASE lit \in base + 1 .. base + size
  <2>1. lit \in Nat /\ lit > Len(f)
    BY <1>1, <1>3
  <2> QED
    BY <1>3, <2>1, Meeting
<1> QED
  BY <1>2, <1>3 DEF Within

\* Choices that agree on a block satisfy the same clauses of it.
LEMMA Agreeing ==
    ASSUME NEW f, Coloring(f), NEW base \in Nat, NEW size \in Nat, Len(f) <= base,
           NEW clauses, Confined(clauses, Len(f), base, size), NEW V, NEW W,
           \A v \in base + 1 .. base + size : v \in V <=> v \in W,
           Models(V, clauses, f)
    PROVE  Models(W, clauses, f)
<1> SUFFICES ASSUME NEW c \in clauses, NEW lit \in c, Meets(V, f, lit)
             PROVE  Meets(W, f, lit)
  BY DEF Models
<1>1. Len(f) \in Nat
  BY DEF Coloring
<1>2. /\ lit \in Int
      /\ \/ lit \in -Len(f) .. Len(f)
         \/ lit \in base + 1 .. base + size
         \/ -lit \in base + 1 .. base + size
  BY DEF Confined
<1>3. CASE lit \in -Len(f) .. Len(f)
  BY <1>1, <1>3 DEF Meets, Main
<1>4. CASE lit \in base + 1 .. base + size
  <2>1. lit \in Nat /\ lit > Len(f)
    BY <1>1, <1>4
  <2> QED
    BY <1>4, <2>1, Meeting
<1>5. CASE -lit \in base + 1 .. base + size
  <2>1. -lit \in Nat /\ -lit > Len(f) /\ lit = -(-lit)
    BY <1>1, <1>2, <1>5
  <2>2. Meets(V, f, -(-lit)) <=> -lit \notin V
    BY <2>1, Meeting
  <2>3. Meets(W, f, -(-lit)) <=> -lit \notin W
    BY <2>1, Meeting
  <2> QED
    BY <1>5, <2>1, <2>2, <2>3
<1> QED
  BY <1>2, <1>3, <1>4, <1>5

-----------------------------------------------------------------------------
\* The outputs of a tree over m leaves.
Width(m, b) == Least(m, b + 1)

\* What a tree over m leaves looks like whose variables are the size ones from
\* the cursor on.
Shaped(r, n, cursor, size, m, b) ==
    /\ r.cursor = cursor + size
    /\ r.out \in Seq(Int)
    /\ Len(r.out) = Width(m, b)
    /\ \A j \in 1 .. Len(r.out) : Within(r.out[j], n, cursor - 1, size)
    /\ Confined(r.clauses, n, cursor - 1, size)
    /\ HornIn(r.clauses, n)
    /\ Fills(r.clauses, cursor - 1, size)

\* That its j-th output has to be true if j of its leaves are, and no other.
Says(r, f, number, cursor, size) ==
    /\ \A V \in SUBSET Nat : Models(V, r.clauses, f) =>
          \A j \in 1 .. Len(r.out) : j <= number => Meets(V, f, r.out[j])
    /\ \E V \in SUBSET (cursor .. cursor + size - 1) :
          /\ Models(V, r.clauses, f)
          /\ \A j \in 1 .. Len(r.out) : Meets(V, f, r.out[j]) <=> j <= number

\* A leaf has the form of a tree, and says whether its literal is true.
LEMMA LeafShaped ==
    ASSUME NEW f, Coloring(f), NEW lits, Distinct(lits, Len(f)), NEW b \in Nat,
           NEW x \in 1 .. Len(lits), NEW cursor \in Nat, cursor > Len(f),
           NEW r, r = [out |-> <<lits[x]>>, clauses |-> {}, cursor |-> cursor]
    PROVE  /\ Shaped(r, Len(f), cursor, 0, 1, b)
           /\ Says(r, f, Number(lits, f, x, x), cursor, 0)
<1> DEFINE n == Len(f)
<1>1. n \in Nat /\ Len(lits) \in Nat
  BY DEF Coloring, Distinct
<1>2. lits[x] \in -n .. n /\ lits[x] # 0 /\ lits[x] \in Int
  BY <1>1 DEF Distinct
<1>3. r.out \in Seq(Int) /\ Len(r.out) = 1 /\ r.out[1] = lits[x] /\ r.clauses = {}
  BY <1>2
<1>4. Shaped(r, n, cursor, 0, 1, b)
  BY <1>1, <1>2, <1>3 DEF Shaped, Within, Confined, HornIn, Fills, Width, Least
<1>5. Number(lits, f, x, x) = IF TrueUnder(f, lits[x]) THEN 1 ELSE 0
  <2>1. /\ Number(lits, f, x, x - 1) = 0
        /\ Number(lits, f, x, x) = IF TrueUnder(f, lits[x]) THEN Number(lits, f, x, x - 1) + 1
                                   ELSE Number(lits, f, x, x - 1)
    BY <1>1, Counting
  <2> QED
    BY <2>1
<1>6. \A V : Meets(V, f, lits[x]) <=> TrueUnder(f, lits[x])
  BY <1>2, Meeting
<1>7. \A V : Models(V, {}, f)
  BY DEF Models
<1>8. \A V : \A j \in 1 .. Len(r.out) : Meets(V, f, r.out[j]) <=> j <= Number(lits, f, x, x)
  BY <1>3, <1>5, <1>6
<1>9. {} \in SUBSET (cursor .. cursor + 0 - 1)
  OBVIOUS
<1>10. Says(r, f, Number(lits, f, x, x), cursor, 0)
  BY <1>3, <1>7, <1>8, <1>9 DEF Says
<1> QED
  BY <1>4, <1>10

\* A larger block confines as well.
LEMMA WiderBlock ==
    ASSUME NEW clauses, NEW n \in Nat, NEW base \in Int, NEW size \in Int,
           NEW base2 \in Int, NEW size2 \in Int,
           base2 <= base, base + size <= base2 + size2, Confined(clauses, n, base, size)
    PROVE  Confined(clauses, n, base2, size2)
<1> SUFFICES ASSUME NEW c \in clauses, NEW lit \in c
             PROVE  /\ lit \in Int
                    /\ \/ lit \in -n .. n
                       \/ lit \in base2 + 1 .. base2 + size2
                       \/ -lit \in base2 + 1 .. base2 + size2
  BY DEF Confined
<1>1. /\ lit \in Int
      /\ \/ lit \in -n .. n
         \/ lit \in base + 1 .. base + size
         \/ -lit \in base + 1 .. base + size
  BY DEF Confined
<1> QED
  BY <1>1

\* The clause that adds alpha on one side and beta on the other.
Adds(c, l, u, out, alpha, beta) ==
    \A lit : lit \in c <=>
        \/ alpha > 0 /\ lit = -l[alpha]
        \/ beta > 0 /\ lit = -u[beta]
        \/ lit = out[alpha + beta]

\* A node's own clauses.
LEMMA MergeClauses ==
    ASSUME NEW l, NEW u, NEW out, Len(l) \in Nat, Len(u) \in Nat, Len(out) \in Nat
    PROVE  /\ \A c \in Merge(l, u, out) :
                 \E alpha \in 0 .. Len(l), beta \in 0 .. Len(u) :
                    alpha + beta \in 1 .. Len(out) /\ Adds(c, l, u, out, alpha, beta)
           /\ \A alpha \in 0 .. Len(l), beta \in 0 .. Len(u) :
                 alpha + beta \in 1 .. Len(out) =>
                    \E c \in Merge(l, u, out) : Adds(c, l, u, out, alpha, beta)
<1> DEFINE x == Len(l)
           y == Len(u)
           w == Len(out)
<1>1. \A alpha, beta : Adds(NodeClause(l, u, out, alpha, beta), l, u, out, alpha, beta)
  BY DEF NodeClause, Adds
<1> DEFINE pairs == {p \in (0 .. x) \X (0 .. y) : p[1] + p[2] \in 1 .. w}
<1>2. Merge(l, u, out) = {NodeClause(l, u, out, p[1], p[2]) : p \in pairs}
  BY DEF Merge
<1>3. ASSUME NEW c \in Merge(l, u, out)
      PROVE  \E alpha \in 0 .. x, beta \in 0 .. y :
                alpha + beta \in 1 .. w /\ Adds(c, l, u, out, alpha, beta)
  <2>1. PICK p \in pairs : c = NodeClause(l, u, out, p[1], p[2])
    BY <1>2
  <2>2. p[1] \in 0 .. x /\ p[2] \in 0 .. y /\ p[1] + p[2] \in 1 .. w
    OBVIOUS
  <2> HIDE DEF pairs
  <2> QED
    BY <1>1, <2>1, <2>2
<1>4. ASSUME NEW alpha \in 0 .. x, NEW beta \in 0 .. y, alpha + beta \in 1 .. w
      PROVE  \E c \in Merge(l, u, out) : Adds(c, l, u, out, alpha, beta)
  <2> DEFINE p == <<alpha, beta>>
  <2>1. p \in pairs /\ p[1] = alpha /\ p[2] = beta
    BY <1>4
  <2> HIDE DEF p, pairs
  <2>2. NodeClause(l, u, out, p[1], p[2]) \in Merge(l, u, out)
    BY <1>2, <2>1
  <2> QED
    BY <1>1, <2>1, <2>2
<1> QED
  BY <1>3, <1>4

\* A node over two trees.
Joined(r, l, u, n, b, cursor, m1, m2, s1, s2) ==
    /\ n \in Nat /\ b \in Nat /\ cursor \in Nat /\ cursor > n
    /\ m1 \in Nat /\ m2 \in Nat /\ s1 \in Nat /\ s2 \in Nat
    /\ Shaped(l, n, cursor, s1, m1, b)
    /\ Shaped(u, n, cursor + s1, s2, m2, b)
    /\ r = Parent(l, u, m1 + m2, b)

\* A node has the form that a tree has, if both of its children have it.
LEMMA ParentShaped ==
    ASSUME NEW r, NEW l, NEW u, NEW n, NEW b, NEW cursor, NEW m1, NEW m2, NEW s1, NEW s2,
           Joined(r, l, u, n, b, cursor, m1, m2, s1, s2)
    PROVE  LET w == Width(m1 + m2, b) IN
           /\ w \in Nat
           /\ Len(r.out) = w
           /\ \A j \in 1 .. w : r.out[j] = cursor + s1 + s2 + j - 1
           /\ r.clauses = l.clauses \cup u.clauses \cup Merge(l.out, u.out, r.out)
           /\ Shaped(r, n, cursor, s1 + s2 + w, m1 + m2, b)
<1> SUFFICES ASSUME n \in Nat, b \in Nat, cursor \in Nat, cursor > n,
                    m1 \in Nat, m2 \in Nat, s1 \in Nat, s2 \in Nat,
                    NEW c2, c2 = cursor + s1,
                    Shaped(l, n, cursor, s1, m1, b), Shaped(u, n, c2, s2, m2, b),
                    NEW m, m = m1 + m2, NEW w, w = Width(m, b), r = Parent(l, u, m, b)
             PROVE  /\ w \in Nat
                    /\ Len(r.out) = w
                    /\ \A j \in 1 .. w : r.out[j] = cursor + s1 + s2 + j - 1
                    /\ r.clauses = l.clauses \cup u.clauses \cup Merge(l.out, u.out, r.out)
                    /\ Shaped(r, n, cursor, s1 + s2 + w, m, b)
  BY DEF Joined
<1> DEFINE out == [j \in 1 .. w |-> u.cursor + j - 1]
           size == s1 + s2 + w
           base == cursor - 1
           own == Merge(l.out, u.out, out)
<1>1. w \in Nat
  BY DEF Width, Least
<1>2. u.cursor = cursor + s1 + s2 /\ base \in Nat /\ n <= base /\ size \in Nat
  <2>1. u.cursor = cursor + s1 + s2
    BY DEF Shaped
  <2> QED
    BY <1>1, <2>1
<1>3. /\ r.out = out /\ r.cursor = cursor + size
      /\ r.clauses = l.clauses \cup u.clauses \cup own
  <2>1. r = [out |-> out, clauses |-> l.clauses \cup u.clauses \cup own,
             cursor |-> u.cursor + w]
    BY DEF Parent, Width
  <2>2. u.cursor + w = cursor + size
    BY <1>1, <1>2
  <2> HIDE DEF out, size, own
  <2> QED
    BY <2>1, <2>2
<1>4. /\ out \in Seq(Int) /\ Len(out) = w
      /\ \A j \in 1 .. w : out[j] = cursor + s1 + s2 + j - 1
      /\ \A j \in 1 .. w : out[j] \in base + 1 .. base + size
  <2>1. \A j \in 1 .. w : /\ u.cursor + j - 1 = cursor + s1 + s2 + j - 1
                          /\ u.cursor + j - 1 \in base + 1 .. base + size
    BY <1>1, <1>2
  <2>2. \A j \in 1 .. w : u.cursor + j - 1 \in Int
    BY <1>1, <1>2
  <2>3. out \in Seq(Int) /\ Len(out) = w
    <3>1. out \in [1 .. w -> Int]
      BY <2>2
    <3> HIDE DEF out
    <3> QED
      BY <1>1, <3>1
  <2>4. \A j \in 1 .. w : out[j] = u.cursor + j - 1
    OBVIOUS
  <2> HIDE DEF out, base, size
  <2> QED
    BY <2>1, <2>3, <2>4
<1>5. /\ Len(l.out) = Width(m1, b) /\ Len(u.out) = Width(m2, b)
      /\ Len(l.out) \in Nat /\ Len(u.out) \in Nat
      /\ \A j \in 1 .. Len(l.out) : Within(l.out[j], n, base, size)
      /\ \A j \in 1 .. Len(u.out) : Within(u.out[j], n, base, size)
  <2>1. \A lit : Within(lit, n, cursor - 1, s1) => Within(lit, n, base, size)
    BY <1>1, <1>2 DEF Within
  <2>2. \A lit : Within(lit, n, c2 - 1, s2) => Within(lit, n, base, size)
    BY <1>1, <1>2 DEF Within
  <2>3. Len(l.out) = Width(m1, b) /\ Len(u.out) = Width(m2, b)
    BY DEF Shaped
  <2>4. Width(m1, b) \in Nat /\ Width(m2, b) \in Nat
    BY DEF Width, Least
  <2> HIDE DEF base, size
  <2> QED
    BY <2>1, <2>2, <2>3, <2>4 DEF Shaped
<1>6. \A j \in 1 .. w : Within(out[j], n, base, size)
  BY <1>2, <1>4 DEF Within
<1> HIDE DEF out, size, base
<1>7. ASSUME NEW c \in own
      PROVE  /\ \A lit \in c : /\ lit \in Int
                               /\ \/ lit \in -n .. n
                                  \/ lit \in base + 1 .. base + size
                                  \/ -lit \in base + 1 .. base + size
             /\ \A x, y \in {lit \in c : lit > n} : x = y
  <2>1. PICK alpha \in 0 .. Len(l.out), beta \in 0 .. Len(u.out) :
            alpha + beta \in 1 .. w /\ Adds(c, l.out, u.out, out, alpha, beta)
    BY <1>1, <1>4, <1>5, MergeClauses
  <2>2. /\ alpha > 0 => Within(l.out[alpha], n, base, size)
        /\ beta > 0 => Within(u.out[beta], n, base, size)
        /\ Within(out[alpha + beta], n, base, size)
    <3>1. (alpha > 0 => alpha \in 1 .. Len(l.out)) /\ (beta > 0 => beta \in 1 .. Len(u.out))
      BY <1>5
    <3> QED
      BY <1>5, <1>6, <2>1, <3>1
  <2>3. \A x : Within(x, n, base, size) =>
                 /\ x \in Int /\ -x \in Int /\ -x <= n
                 /\ \/ -x \in -n .. n
                    \/ -(-x) \in base + 1 .. base + size
                 /\ \/ x \in -n .. n
                    \/ x \in base + 1 .. base + size
    BY <1>2 DEF Within
  <2>4. \A lit \in c : \/ /\ lit \in Int /\ lit <= n
                          /\ lit \in -n .. n \/ -lit \in base + 1 .. base + size
                       \/ /\ lit = out[alpha + beta] /\ lit \in Int
                          /\ lit \in -n .. n \/ lit \in base + 1 .. base + size
    BY <2>1, <2>2, <2>3 DEF Adds
  <2>5. \A lit \in c : lit \in Int /\ (lit > n => lit = out[alpha + beta])
    BY <2>4
  <2> QED
    BY <2>4, <2>5
<1>8. Confined(r.clauses, n, base, size)
  <2>1. Confined(l.clauses, n, base, size)
    <3>1. cursor - 1 \in Int /\ base <= cursor - 1 /\ cursor - 1 + s1 <= base + size
      BY <1>1 DEF base, size
    <3> QED
      BY <1>2, <3>1, WiderBlock DEF Shaped
  <2>2. Confined(u.clauses, n, base, size)
    <3>1. /\ c2 - 1 \in Int /\ base <= c2 - 1
          /\ (c2 - 1) + s2 <= base + size
      BY <1>1 DEF base, size
    <3> QED
      BY <1>2, <3>1, WiderBlock DEF Shaped
  <2> HIDE DEF own
  <2> QED
    BY <1>3, <1>7, <2>1, <2>2 DEF Confined
<1>9. HornIn(r.clauses, n)
  <2> HIDE DEF own
  <2> QED
    BY <1>3, <1>7 DEF HornIn, Shaped
<1>10. Fills(r.clauses, base, size)
  <2> SUFFICES ASSUME NEW v \in base + 1 .. base + size
               PROVE  \E c \in r.clauses : v \in c \/ -v \in c
    BY DEF Fills
  <2>1. \/ v \in (cursor - 1) + 1 .. (cursor - 1) + s1
        \/ v \in (c2 - 1) + 1 .. (c2 - 1) + s2
        \/ v - (cursor + s1 + s2) + 1 \in 1 .. w
    BY <1>1 DEF base, size
  <2>2. CASE v \in (cursor - 1) + 1 .. (cursor - 1) + s1
    BY <1>3, <2>2 DEF Shaped, Fills
  <2>3. CASE v \in (c2 - 1) + 1 .. (c2 - 1) + s2
    BY <1>3, <2>3 DEF Shaped, Fills
  <2>4. CASE v - (cursor + s1 + s2) + 1 \in 1 .. w
    <3>1. PICK j \in 1 .. w : v = out[j]
      <4>1. out[v - (cursor + s1 + s2) + 1]
                = cursor + s1 + s2 + (v - (cursor + s1 + s2) + 1) - 1
        BY <1>4, <2>4
      <4>2. v = cursor + s1 + s2 + (v - (cursor + s1 + s2) + 1) - 1
        BY <1>2
      <4> QED
        BY <2>4, <4>1, <4>2
    <3>3. PICK alpha \in 0 .. Len(l.out), beta \in 0 .. Len(u.out) : alpha + beta = j
      <4>1. j <= m1 + m2 /\ j <= b + 1 /\ j \in Nat
        BY DEF Width, Least
      <4>2. CASE j <= m1
        <5>1. j \in 0 .. Len(l.out) /\ 0 \in 0 .. Len(u.out) /\ j + 0 = j
          BY <1>5, <4>1, <4>2 DEF Width, Least
        <5> QED
          BY <5>1
      <4>3. CASE m1 < j
        <5>1. m1 \in 0 .. Len(l.out) /\ j - m1 \in 0 .. Len(u.out) /\ m1 + (j - m1) = j
          BY <1>5, <4>1, <4>3 DEF Width, Least
        <5> QED
          BY <5>1
      <4> QED
        BY <4>1, <4>2, <4>3
    <3>4. PICK c \in own : out[alpha + beta] \in c
      <4>1. PICK c \in own : Adds(c, l.out, u.out, out, alpha, beta)
        <5> DEFINE x == l.out
                   y == u.out
        <5>1. Len(x) \in Nat /\ Len(y) \in Nat /\ Len(out) = w
          BY <1>4, <1>5
        <5>2. alpha \in 0 .. Len(x) /\ beta \in 0 .. Len(y) /\ alpha + beta \in 1 .. w
          BY <3>3
        <5>3. own = Merge(x, y, out)
          OBVIOUS
        <5> HIDE DEF x, y, out, own
        <5>4. \E c \in Merge(x, y, out) : Adds(c, x, y, out, alpha, beta)
          BY <1>1, <5>1, <5>2, MergeClauses
        <5> QED
          BY <5>3, <5>4 DEF x, y
      <4> QED
        BY <4>1 DEF Adds
    <3> HIDE DEF own
    <3> QED
      BY <1>3, <3>1, <3>3, <3>4
  <2> QED
    BY <2>1, <2>2, <2>3, <2>4
<1>11. Shaped(r, n, cursor, size, m, b)
  <2>1. /\ r.out \in Seq(Int) /\ Len(r.out) = w
        /\ \A j \in 1 .. Len(r.out) : Within(r.out[j], n, base, size)
    BY <1>3, <1>4, <1>6
  <2> QED
    BY <1>3, <1>8, <1>9, <1>10, <2>1 DEF Shaped, base
<1> QED
  BY <1>1, <1>3, <1>4, <1>11 DEF size

\* A node says of the leaves of two trees what they say of their own.
LEMMA ParentSays ==
    ASSUME NEW f, Coloring(f),
           NEW r, NEW l, NEW u, NEW b, NEW cursor, NEW m1, NEW m2, NEW s1, NEW s2,
           Joined(r, l, u, Len(f), b, cursor, m1, m2, s1, s2),
           NEW n1 \in 0 .. m1, Says(l, f, n1, cursor, s1),
           NEW n2 \in 0 .. m2, Says(u, f, n2, cursor + s1, s2)
    PROVE  Says(r, f, n1 + n2, cursor, s1 + s2 + Width(m1 + m2, b))
<1> DEFINE w == Width(m1 + m2, b)
<1>0. /\ w \in Nat
      /\ Len(r.out) = w
      /\ \A j \in 1 .. w : r.out[j] = cursor + s1 + s2 + j - 1
      /\ r.clauses = l.clauses \cup u.clauses \cup Merge(l.out, u.out, r.out)
  BY ParentShaped
<1> SUFFICES ASSUME b \in Nat, cursor \in Nat, cursor > Len(f),
                    m1 \in Nat, m2 \in Nat, s1 \in Nat, s2 \in Nat,
                    NEW c2 \in Nat, c2 = cursor + s1,
                    Shaped(l, Len(f), cursor, s1, m1, b), Shaped(u, Len(f), c2, s2, m2, b),
                    Says(u, f, n2, c2, s2), Says(l, f, n1, cursor, s1)
             PROVE  Says(r, f, n1 + n2, cursor, s1 + s2 + w)
  BY DEF Joined
<1>00. w = Width(m1 + m2, b)
  OBVIOUS
<1> HIDE DEF w
<1> DEFINE base1 == cursor - 1
           base2 == c2 - 1
           size == s1 + s2 + w
           k1 == Len(l.out)
           k2 == Len(u.out)
           own == Merge(l.out, u.out, r.out)
<1>1. Len(f) \in Nat
  BY DEF Coloring
<1>2. /\ w \in Nat
      /\ Len(r.out) = w
      /\ \A j \in 1 .. w : r.out[j] = cursor + s1 + s2 + j - 1
      /\ r.clauses = l.clauses \cup u.clauses \cup own
  BY <1>0
<1>3. /\ k1 = Width(m1, b) /\ k2 = Width(m2, b) /\ k1 \in Nat /\ k2 \in Nat
      /\ \A j \in 1 .. k1 : Within(l.out[j], Len(f), base1, s1)
      /\ \A j \in 1 .. k2 : Within(u.out[j], Len(f), base2, s2)
      /\ Confined(l.clauses, Len(f), base1, s1)
      /\ Confined(u.clauses, Len(f), base2, s2)
  <2>1. Width(m1, b) \in Nat /\ Width(m2, b) \in Nat
    BY DEF Width, Least
  <2> QED
    BY <2>1 DEF Shaped
<1>4. base1 \in Nat /\ Len(f) <= base1 /\ base2 \in Nat /\ Len(f) <= base2
  BY <1>1
<1>5. /\ \A c \in own :
            \E alpha \in 0 .. k1, beta \in 0 .. k2 :
               alpha + beta \in 1 .. w /\ Adds(c, l.out, u.out, r.out, alpha, beta)
      /\ \A alpha \in 0 .. k1, beta \in 0 .. k2 :
            alpha + beta \in 1 .. w =>
               \E c \in own : Adds(c, l.out, u.out, r.out, alpha, beta)
  <2>1. /\ Len(l.out) = k1 /\ Len(u.out) = k2 /\ Len(r.out) = w
        /\ k1 \in Nat /\ k2 \in Nat /\ w \in Nat
    BY <1>2, <1>3
  <2> HIDE DEF k1, k2
  <2> QED
    BY <2>1, MergeClauses
<1> HIDE DEF own, k1, k2, base1, base2
<1>6. ASSUME NEW V
      PROVE  /\ \A j \in 1 .. k1 : Meets(V, f, -l.out[j]) <=> ~Meets(V, f, l.out[j])
             /\ \A j \in 1 .. k2 : Meets(V, f, -u.out[j]) <=> ~Meets(V, f, u.out[j])
  BY <1>3, <1>4, OwnNegation
<1>7. ASSUME NEW V \in SUBSET Nat, Models(V, r.clauses, f), NEW j \in 1 .. w, j <= n1 + n2
      PROVE  Meets(V, f, r.out[j])
  <2>1. Models(V, l.clauses, f) /\ Models(V, u.clauses, f) /\ Models(V, own, f)
    BY <1>2, <1>7 DEF Models
  <2>2. /\ \A i \in 1 .. k1 : i <= n1 => Meets(V, f, l.out[i])
        /\ \A i \in 1 .. k2 : i <= n2 => Meets(V, f, u.out[i])
    BY <2>1 DEF Says, k1, k2
  <2>3. PICK alpha \in 0 .. k1, beta \in 0 .. k2 : alpha + beta = j /\ alpha <= n1 /\ beta <= n2
    <3>1. j <= m1 + m2 /\ j <= b + 1 /\ j \in Nat
      BY <1>00 DEF Width, Least
    <3>2. CASE j <= n1
      <4>1. j \in 0 .. k1 /\ 0 \in 0 .. k2 /\ j + 0 = j /\ 0 <= n2
        BY <1>3, <3>1, <3>2 DEF Width, Least
      <4> QED
        BY <3>2, <4>1
    <3>3. CASE n1 < j
      <4>1. n1 \in 0 .. k1 /\ j - n1 \in 0 .. k2 /\ n1 + (j - n1) = j /\ n1 <= n1 /\ j - n1 <= n2
        BY <1>3, <1>7, <3>1, <3>3 DEF Width, Least
      <4> QED
        BY <4>1
    <3> QED
      BY <3>1, <3>2, <3>3
  <2>4. PICK c \in own : Adds(c, l.out, u.out, r.out, alpha, beta)
    BY <1>5, <2>3
  <2>5. PICK lit \in c : Meets(V, f, lit)
    BY <2>1 DEF Models
  <2>6. alpha > 0 => ~Meets(V, f, -l.out[alpha])
    <3>1. alpha > 0 => alpha \in 1 .. k1
      BY <1>3
    <3> QED
      BY <1>6, <2>2, <2>3, <3>1
  <2>7. beta > 0 => ~Meets(V, f, -u.out[beta])
    <3>1. beta > 0 => beta \in 1 .. k2
      BY <1>3
    <3> QED
      BY <1>6, <2>2, <2>3, <3>1
  <2>8. lit = r.out[j]
    BY <2>3, <2>4, <2>5, <2>6, <2>7 DEF Adds
  <2> QED
    BY <2>5, <2>8
<1>8. \E V \in SUBSET (cursor .. cursor + size - 1) :
         /\ Models(V, r.clauses, f)
         /\ \A j \in 1 .. w : Meets(V, f, r.out[j]) <=> j <= n1 + n2
  <2>1. PICK V1 \in SUBSET (cursor .. cursor + s1 - 1) :
           /\ Models(V1, l.clauses, f)
           /\ \A j \in 1 .. k1 : Meets(V1, f, l.out[j]) <=> j <= n1
    BY DEF Says, k1
  <2>2. PICK V2 \in SUBSET (c2 .. c2 + s2 - 1) :
           /\ Models(V2, u.clauses, f)
           /\ \A j \in 1 .. k2 : Meets(V2, f, u.out[j]) <=> j <= n2
    BY DEF Says, k2
  <2> DEFINE V3 == {v \in cursor + s1 + s2 .. cursor + size - 1 :
                       v - (cursor + s1 + s2) + 1 <= n1 + n2}
             V == V1 \cup V2 \cup V3
  <2>3. /\ V \in SUBSET (cursor .. cursor + size - 1)
        /\ \A v \in base1 + 1 .. base1 + s1 : v \in V1 <=> v \in V
        /\ \A v \in base2 + 1 .. base2 + s2 : v \in V2 <=> v \in V
        /\ \A j \in 1 .. w : cursor + s1 + s2 + j - 1 \in V <=> j <= n1 + n2
    <3>1. V \in SUBSET (cursor .. cursor + size - 1)
      <4>1. /\ cursor .. cursor + s1 - 1 \subseteq cursor .. cursor + size - 1
            /\ c2 .. c2 + s2 - 1 \subseteq cursor .. cursor + size - 1
            /\ cursor + s1 + s2 .. cursor + size - 1 \subseteq cursor .. cursor + size - 1
        <5>1. w \in Nat
          BY <1>2
        <5> QED
          BY <5>1
      <4>2. V3 \subseteq cursor + s1 + s2 .. cursor + size - 1
        OBVIOUS
      <4> HIDE DEF V3, size
      <4> QED
        BY <4>1, <4>2
    <3>2. ASSUME NEW v \in base1 + 1 .. base1 + s1 PROVE v \in V1 <=> v \in V
      <4>1. v \notin V2 /\ v \notin V3
        BY <1>2 DEF base1, base2
      <4> QED
        BY <4>1
    <3>3. ASSUME NEW v \in base2 + 1 .. base2 + s2
          PROVE  v \in V2 <=> v \in V
      <4>1. v \notin V1 /\ v \notin V3
        BY <1>2 DEF base1, base2
      <4> QED
        BY <4>1
    <3>4. ASSUME NEW j \in 1 .. w PROVE cursor + s1 + s2 + j - 1 \in V <=> j <= n1 + n2
      <4> DEFINE v == cursor + s1 + s2 + j - 1
      <4>1. /\ v \notin V1 /\ v \notin V2
            /\ v \in cursor + s1 + s2 .. cursor + size - 1
            /\ v - (cursor + s1 + s2) + 1 = j
        BY <1>2
      <4> HIDE DEF v
      <4>2. v \in V <=> j <= n1 + n2
        BY <4>1
      <4> QED
        BY <4>2 DEF v
    <3> HIDE DEF V
    <3> QED
      BY <3>1, <3>2, <3>3, <3>4
  <2> HIDE DEF V
  <2>4. /\ Models(V, l.clauses, f) /\ Models(V, u.clauses, f)
    <3>1. Models(V, l.clauses, f)
      BY <1>3, <1>4, <2>1, <2>3, Agreeing
    <3>2. Models(V, u.clauses, f)
      BY SMTT(30), <1>3, <1>4, <2>2, <2>3, Agreeing
    <3> QED
      BY <3>1, <3>2
  <2>5. \A j \in 1 .. k1 : Meets(V, f, l.out[j]) <=> j <= n1
    <3>1. \A j \in 1 .. k1 : Meets(V1, f, l.out[j]) <=> Meets(V, f, l.out[j])
      BY <1>3, <1>4, <2>3, OwnBlock
    <3> QED
      BY <2>1, <3>1
  <2>6. \A j \in 1 .. k2 : Meets(V, f, u.out[j]) <=> j <= n2
    <3>1. \A j \in 1 .. k2 : Meets(V2, f, u.out[j]) <=> Meets(V, f, u.out[j])
      BY <1>3, <1>4, <2>3, OwnBlock
    <3> QED
      BY <2>2, <3>1
  <2>7. \A j \in 1 .. w : Meets(V, f, r.out[j]) <=> j <= n1 + n2
    <3> SUFFICES ASSUME NEW j \in 1 .. w PROVE Meets(V, f, r.out[j]) <=> r.out[j] \in V
      BY <1>2, <2>3
    <3> DEFINE v == r.out[j]
    <3>1. v = cursor + s1 + s2 + j - 1
      BY <1>2
    <3>2. cursor + s1 + s2 + j - 1 \in Nat /\ cursor + s1 + s2 + j - 1 > Len(f)
      BY <1>1
    <3>3. v \in Nat /\ v > Len(f)
      BY <3>1, <3>2
    <3> HIDE DEF v
    <3>4. Meets(V, f, v) <=> v \in V
      BY <3>3, Meeting
    <3> QED
      BY <3>4 DEF v
  <2>8. Models(V, own, f)
    <3> SUFFICES ASSUME NEW c \in own PROVE \E lit \in c : Meets(V, f, lit)
      BY DEF Models
    <3>1. PICK alpha \in 0 .. k1, beta \in 0 .. k2 :
             alpha + beta \in 1 .. w /\ Adds(c, l.out, u.out, r.out, alpha, beta)
      BY <1>5
    <3>2. CASE alpha > n1
      <4>1. alpha \in 1 .. k1 /\ alpha > 0
        BY <1>3, <3>2
      <4>2. -l.out[alpha] \in c
        BY <3>1, <4>1 DEF Adds
      <4>3. ~(alpha <= n1)
        BY <1>3, <3>2
      <4>4. Meets(V, f, -l.out[alpha])
        BY <1>6, <2>5, <4>1, <4>3
      <4> QED
        BY <4>2, <4>4
    <3>3. CASE beta > n2
      <4>1. beta \in 1 .. k2 /\ beta > 0
        BY <1>3, <3>3
      <4>2. -u.out[beta] \in c
        BY <3>1, <4>1 DEF Adds
      <4>3. ~(beta <= n2)
        BY <1>3, <3>3
      <4>4. Meets(V, f, -u.out[beta])
        BY <1>6, <2>6, <4>1, <4>3
      <4> QED
        BY <4>2, <4>4
    <3>4. CASE alpha <= n1 /\ beta <= n2
      <4>1. r.out[alpha + beta] \in c
        BY <3>1 DEF Adds
      <4>2. alpha + beta <= n1 + n2
        BY <1>3, <3>4
      <4> QED
        BY <2>7, <3>1, <4>1, <4>2
    <3> QED
      BY <1>3, <3>2, <3>3, <3>4
  <2>9. Models(V, r.clauses, f)
    BY <1>2, <2>4, <2>8 DEF Models
  <2> QED
    BY <2>3, <2>7, <2>9
<1> QED
  BY <1>2, <1>7, <1>8 DEF Says

\* The outputs of a tree count the true literals below it.
LEMMA TreeSays ==
    ASSUME NEW f, Coloring(f), NEW lits, Distinct(lits, Len(f)), Len(lits) >= 1,
           NEW b \in Nat, NEW base \in Nat, Len(f) <= base
    PROVE  LET tree == Tree(lits, b, base)
               size == TreeSize(Len(lits), b) IN
           /\ size \in Nat
           /\ Shaped(tree, Len(f), base + 1, size, Len(lits), b)
           /\ Says(tree, f, Number(lits, f, 1, Len(lits)), base + 1, size)
<1> DEFINE k == Len(lits)
<1>1. k \in Nat /\ lits \in Seq(Int) /\ Len(f) \in Nat
  BY DEF Distinct, Coloring
<1> DEFINE lo(m) == m \div 2
           hi(m) == m - m \div 2
<1>2. PICK T \in [0 .. k -> Nat] :
         /\ TreeSize(k, b) = T[k]
         /\ \A m \in 0 .. k : T[m] = IF m <= 1 THEN 0
                                     ELSE T[lo(m)] + T[hi(m)] + Least(m, b + 1)
  BY <1>1, SizeLaw
<1>3. PICK node : Tree(lits, b, base) = node[<<1, k, base + 1>>] /\ Branches(node, lits, b)
  BY <1>1, TreeLaw
<1> DEFINE Right(x, y, c, m) ==
               /\ Shaped(node[<<x, y, c>>], Len(f), c, T[m], m, b)
               /\ Says(node[<<x, y, c>>], f, Number(lits, f, x, y), c, T[m])
           S == {n \in Nat : \A x, y \in 1 .. k, c \in Nat, m \in 1 .. n :
                                m = y - x + 1 /\ c > Len(f) => Right(x, y, c, m)}
<1>4. 0 \in S
  OBVIOUS
<1>5. ASSUME NEW n \in S PROVE n + 1 \in S
  <2>0. n \in Nat /\ \A x, y \in 1 .. k, c \in Nat, m \in 1 .. n :
                                m = y - x + 1 /\ c > Len(f) => Right(x, y, c, m)
    BY <1>5
  <2> SUFFICES ASSUME NEW x \in 1 .. k, NEW y \in 1 .. k, NEW c \in Nat, NEW m \in 1 .. n + 1,
                      m = y - x + 1, c > Len(f)
               PROVE  Right(x, y, c, m)
    BY <2>0
  <2> HIDE DEF S
  <2>1. CASE m = 1
    <3>1. x = y /\ node[<<x, y, c>>] = [out |-> <<lits[x]>>, clauses |-> {}, cursor |-> c]
      <4>1. x = y /\ x >= y
        BY <2>1
      <4> HIDE DEF k
      <4> QED
        BY <1>3, <4>1 DEF Branches, k
    <3>2. T[m] = 0
      BY <1>1, <1>2, <2>1
    <3> QED
      BY <1>1, <2>1, <3>1, <3>2, LeafShaped
  <2>2. CASE m # 1
    <3> DEFINE h == Half(x, y)
               m1 == lo(m)
               m2 == hi(m)
    <3>0. x < y
      BY <1>1, <2>2
    <3>1. /\ h \in 1 .. k /\ h - 1 \in 1 .. k /\ x < h /\ h <= y
          /\ m1 = h - 1 - x + 1 /\ m2 = y - h + 1
      <4>1. /\ h \in 1 .. k /\ h - 1 \in 1 .. k /\ x < h /\ h <= y
            /\ h - 1 - x + 1 = lo(y - x + 1)
            /\ y - h + 1 = hi(y - x + 1)
        <5> HIDE DEF k
        <5> QED
          BY <1>1, <3>0, Halves DEF k
      <4> HIDE DEF lo, hi, h
      <4> QED
        BY <4>1
    <3> HIDE DEF lo, hi, h
    <3>2. /\ m1 \in 1 .. n /\ m2 \in 1 .. n /\ m1 \in 0 .. k /\ m2 \in 0 .. k /\ m \in 0 .. k
          /\ m1 + m2 = m
      <4>1. k \in Nat /\ n \in Nat /\ m \in 1 .. n + 1 /\ m <= k
        BY <1>1, <2>0
      <4> HIDE DEF k, m1, m2
      <4> QED
        BY <3>0, <3>1, <4>1
    <3>3. /\ T[m1] \in Nat /\ T[m2] \in Nat
          /\ T[m] = T[m1] + T[m2] + Width(m, b)
      <4>1. T[m] = T[m1] + T[m2] + Least(m, b + 1)
        <5>1. m \in 0 .. k /\ ~(m <= 1)
          BY <2>2, <3>2
        <5> QED
          BY <1>2, <5>1
      <4> HIDE DEF m1, m2
      <4> QED
        BY <3>2, <4>1 DEF Width
    <3> HIDE DEF m1, m2
    <3> DEFINE l == node[<<x, h - 1, c>>]
               u == node[<<h, y, l.cursor>>]
               r == node[<<x, y, c>>]
    <3>4. r = Parent(l, u, m1 + m2, b)
      <4>1. r = Parent(l, u, y - x + 1, b)
        <5>1. ~(x >= y)
          BY <3>2
        <5> QED
          BY <1>3, <5>1 DEF Branches, h
      <4> HIDE DEF l, u, r
      <4> QED
        BY <3>2, <4>1
    <3>5. Right(x, h - 1, c, m1)
      BY <2>0, <3>1, <3>2
    <3>6. l.cursor = c + T[m1]
      BY <3>5 DEF Shaped
    <3>7. Right(h, y, c + T[m1], m2)
      <4>1. c + T[m1] \in Nat /\ c + T[m1] > Len(f)
        <5> DEFINE more == T[m1]
        <5>1. more \in Nat /\ c \in Nat /\ Len(f) \in Nat
          BY <1>1, <3>3
        <5> HIDE DEF more
        <5>2. c + more \in Nat /\ c + more > Len(f)
          BY <5>1
        <5> QED
          BY <5>2 DEF more
      <4> HIDE DEF Right
      <4> QED
        BY <2>0, <3>1, <3>2, <4>1
    <3>8. u = node[<<h, y, c + T[m1]>>]
      BY <3>6
    <3> HIDE DEF l, u, r
    <3>9. /\ Shaped(l, Len(f), c, T[m1], m1, b) /\ Says(l, f, Number(lits, f, x, h - 1), c, T[m1])
      BY <3>5 DEF l
    <3>10. /\ Shaped(u, Len(f), c + T[m1], T[m2], m2, b)
           /\ Says(u, f, Number(lits, f, h, y), c + T[m1], T[m2])
      BY <3>7, <3>8
    <3>11. Joined(r, l, u, Len(f), b, c, m1, m2, T[m1], T[m2])
      <4>1. m1 \in Nat /\ m2 \in Nat
        BY <3>2
      <4> QED
        BY <1>1, <3>3, <3>4, <3>9, <3>10, <4>1 DEF Joined
    <3>12. /\ Number(lits, f, x, h - 1) \in 0 .. m1
           /\ Number(lits, f, h, y) \in 0 .. m2
           /\ Number(lits, f, x, y) = Number(lits, f, x, h - 1) + Number(lits, f, h, y)
      <4>1. /\ Number(lits, f, x, h - 1) \in Nat
            /\ Number(lits, f, x, h - 1) <= (h - 1) - x + 1
        <5>1. x \in Int /\ h - 1 \in Int /\ x <= (h - 1) + 1
          BY <3>1
        <5> QED
          BY <5>1, Counting
      <4>2. /\ Number(lits, f, h, y) \in Nat
            /\ Number(lits, f, h, y) <= y - h + 1
        <5>1. h \in Int /\ y \in Int /\ h <= y + 1
          BY <3>1
        <5> QED
          BY <5>1, Counting
      <4>3. Number(lits, f, x, y) = Number(lits, f, x, h - 1) + Number(lits, f, h, y)
        <5>1. x \in Int /\ h \in Int /\ y \in Int /\ x <= h /\ h <= y + 1
          BY <3>1
        <5> QED
          BY <5>1, CountingParts
      <4> QED
        BY <3>1, <4>1, <4>2, <4>3
    <3>13. Shaped(r, Len(f), c, T[m1] + T[m2] + Width(m1 + m2, b), m1 + m2, b)
      BY <3>11, ParentShaped
    <3>14. Says(r, f, Number(lits, f, x, h - 1) + Number(lits, f, h, y), c,
                T[m1] + T[m2] + Width(m1 + m2, b))
      BY <3>9, <3>10, <3>11, <3>12, ParentSays
    <3>15. /\ Shaped(r, Len(f), c, T[m], m, b)
           /\ Says(r, f, Number(lits, f, x, y), c, T[m])
      BY <3>2, <3>3, <3>12, <3>13, <3>14
    <3> QED
      BY <3>15 DEF r
  <2> QED
    BY <2>1, <2>2
<1>6. S = Nat
  <2>1. S \in SUBSET Nat
    OBVIOUS
  <2> HIDE DEF S
  <2> QED
    BY <1>4, <1>5, <2>1, FromZeroUp
<1>7. Right(1, k, base + 1, k)
  <2>1. /\ 1 \in 1 .. k /\ k \in 1 .. k /\ base + 1 \in Nat /\ base + 1 > Len(f)
        /\ k = k - 1 + 1
    BY <1>1
  <2>2. k \in S
    <3> HIDE DEF S, k
    <3> QED
      BY <1>1, <1>6
  <2>3. \A x, y \in 1 .. k, c \in Nat, m \in 1 .. k :
            m = y - x + 1 /\ c > Len(f) => Right(x, y, c, m)
    <3> HIDE DEF Right, k
    <3> QED
      BY <2>2
  <2> HIDE DEF Right, k, S
  <2> QED
    BY <2>1, <2>3
<1>8. T[k] \in Nat
  BY <1>1, <1>2
<1> QED
  BY <1>2, <1>3, <1>7, <1>8

\* encode_totalizer.at_most for 0 < b < k.
LEMMA TotalizerCounts ==
    ASSUME NEW f, Coloring(f), NEW lits, Distinct(lits, Len(f)), NEW b \in Nat,
           0 < b, b < Len(lits), NEW base \in Nat, Len(f) <= base
    PROVE  LET clauses == TotalizerAtMost(lits, b, base)
               size    == TreeSize(Len(lits), b) IN
           /\ size \in Nat
           /\ Counts(clauses, f, Number(lits, f, 1, Len(lits)), b, base, size)
           /\ Confined(clauses, Len(f), base, size)
           /\ HornIn(clauses, Len(f))
           /\ Fills(clauses, base, size)
<1> DEFINE k == Len(lits)
           number == Number(lits, f, 1, k)
           tree == Tree(lits, b, base)
           size == TreeSize(k, b)
           last == tree.out[b + 1]
           clauses == tree.clauses \cup {{-last}}
<1>1. k \in Nat /\ Len(f) \in Nat /\ k >= 1 /\ number \in Nat
  BY Counting DEF Distinct, Coloring
<1>2. /\ size \in Nat
      /\ Shaped(tree, Len(f), base + 1, size, k, b)
      /\ Says(tree, f, number, base + 1, size)
  BY <1>1, TreeSays
<1>3. TotalizerAtMost(lits, b, base) = clauses
  BY <1>1 DEF TotalizerAtMost
<1> HIDE DEF tree, size, number
<1>4. (base + 1) - 1 = base
  OBVIOUS
<1>5. Len(tree.out) = b + 1 /\ b + 1 \in 1 .. Len(tree.out)
  <2>1. Width(k, b) = b + 1
    BY <1>1 DEF Width, Least
  <2> QED
    BY <1>2, <2>1 DEF Shaped
<1>6. Within(last, Len(f), base, size)
  BY <1>2, <1>4, <1>5 DEF Shaped
<1>7. /\ Confined(tree.clauses, Len(f), base, size) /\ HornIn(tree.clauses, Len(f))
      /\ Fills(tree.clauses, base, size)
  BY <1>2, <1>4 DEF Shaped
<1>8. \A V : Meets(V, f, -last) <=> ~Meets(V, f, last)
  BY <1>2, <1>6, OwnNegation
<1>9. /\ \A V \in SUBSET Nat : Models(V, tree.clauses, f) =>
            \A j \in 1 .. b + 1 : j <= number => Meets(V, f, tree.out[j])
      /\ \E V \in SUBSET (base + 1 .. base + size) :
            /\ Models(V, tree.clauses, f)
            /\ \A j \in 1 .. b + 1 : Meets(V, f, tree.out[j]) <=> j <= number
  <2>1. (base + 1) + size - 1 = base + size
    BY <1>2
  <2> QED
    BY <1>2, <1>5, <2>1 DEF Says
<1> HIDE DEF last
<1>10. \A V : Models(V, clauses, f) <=> Models(V, tree.clauses, f) /\ ~Meets(V, f, last)
  <2> SUFFICES ASSUME NEW V
               PROVE  Models(V, clauses, f) <=> Models(V, tree.clauses, f) /\ ~Meets(V, f, last)
    OBVIOUS
  <2>1. ~Meets(V, f, last) <=> \E lit \in {-last} : Meets(V, f, lit)
    BY <1>8
  <2> DEFINE C == tree.clauses
             u == {-last}
  <2>2. Models(V, C \cup {u}, f) <=> Models(V, C, f) /\ \E lit \in u : Meets(V, f, lit)
    <3> HIDE DEF C, u
    <3> QED
      BY DEF Models
  <2> QED
    BY <2>1, <2>2
<1>11. Counts(clauses, f, number, b, base, size)
  <2>1. b + 1 \in 1 .. b + 1 /\ (b + 1 <= number <=> ~(number <= b))
    BY <1>1
  <2> HIDE DEF clauses
  <2> QED
    BY <1>9, <1>10, <2>1 DEF Counts, last
<1>12. Confined(clauses, Len(f), base, size)
  <2>1. /\ -last \in Int
        /\ \/ -last \in -Len(f) .. Len(f)
           \/ -(-last) \in base + 1 .. base + size
    BY <1>1, <1>2, <1>6 DEF Within
  <2> QED
    BY <1>7, <2>1 DEF Confined
<1>13. HornIn(clauses, Len(f))
  BY <1>7 DEF HornIn
<1>14. Fills(clauses, base, size)
  BY <1>7 DEF Fills
<1> HIDE DEF clauses
<1> QED
  BY <1>2, <1>3, <1>11, <1>12, <1>13, <1>14 DEF number, size

\* A constraint of the encoders, at any bound.
AtMostSays(clauses, f, number, b, base, size) ==
    /\ size \in Nat
    /\ Counts(clauses, f, number, b, base, size)
    /\ Confined(clauses, Len(f), base, size)
    /\ HornIn(clauses, Len(f))
    /\ Fills(clauses, base, size)

\* Every at_most can be met, by a choice of the variables of its own block, exactly
\* if at most b of its literals are true; whatever the literals, b and the block.
THEOREM AtMostSound ==
    ASSUME NEW encoder \in EncoderNames, NEW f, Coloring(f), NEW lits,
           Distinct(lits, Len(f)), Len(lits) >= 1, NEW b \in Int,
           NEW base \in Nat, Len(f) <= base
    PROVE  AtMostSays(AtMost(encoder, lits, b, base), f, Number(lits, f, 1, Len(lits)), b,
                      base, BlockSize(encoder, Len(lits), b))
<1> DEFINE k == Len(lits)
           number == Number(lits, f, 1, k)
<1>1. k \in Nat /\ Len(f) \in Nat /\ DOMAIN lits = 1 .. k
  BY DEF Distinct, Coloring
<1>2. \A clauses : Fills(clauses, base, 0)
  BY DEF Fills
<1>3. /\ Confined({}, Len(f), base, 0) /\ HornIn({}, Len(f))
      /\ Confined({{}}, Len(f), base, 0) /\ HornIn({{}}, Len(f))
  BY DEF Confined, HornIn
<1>4. /\ Confined({{-lits[i]} : i \in DOMAIN lits}, Len(f), base, 0)
      /\ HornIn({{-lits[i]} : i \in DOMAIN lits}, Len(f))
  <2>1. \A i \in 1 .. k : -lits[i] \in -Len(f) .. Len(f) /\ -lits[i] \in Int
    BY <1>1 DEF Distinct
  <2> QED
    BY <1>1, <2>1 DEF Confined, HornIn
<1> DEFINE None == {{-lits[i]} : i \in DOMAIN lits}
<1>0. /\ b >= k => Counts({}, f, number, b, base, 0)
      /\ b < 0 => Counts({{}}, f, number, b, base, 0)
      /\ b = 0 => Counts(None, f, number, b, base, 0)
  BY Extremes
<1> SUFFICES AtMostSays(AtMost(encoder, lits, b, base), f, number, b, base,
                        BlockSize(encoder, k, b))
  OBVIOUS
<1> HIDE DEF number, None
<1>5. CASE encoder = "subsets"
  <2>1. /\ AtMost(encoder, lits, b, base) = SubsetsAtMost(lits, b, base)
        /\ BlockSize(encoder, k, b) = 0
    BY <1>5 DEF AtMost, BlockSize
  <2>2. /\ Counts(SubsetsAtMost(lits, b, base), f, number, b, base, 0)
        /\ Confined(SubsetsAtMost(lits, b, base), Len(f), base, 0)
        /\ HornIn(SubsetsAtMost(lits, b, base), Len(f))
    BY SubsetsCounts DEF number
  <2> QED
    BY <1>2, <2>1, <2>2 DEF AtMostSays
<1>6. CASE encoder = "seqcount"
  <2>1. AtMost(encoder, lits, b, base) = SeqcountAtMost(lits, b, base)
    BY <1>6 DEF AtMost
  <2>2. CASE b >= k
    <3>1. ~(b < 0) /\ (b = 0 => None = {})
      BY <1>1, <2>2 DEF None
    <3>2. SeqcountAtMost(lits, b, base) = {} /\ BlockSize(encoder, k, b) = 0
      BY <2>2, <3>1 DEF SeqcountAtMost, BlockSize, None
    <3> HIDE DEF k
    <3> QED
      BY <1>0, <1>2, <1>3, <2>1, <2>2, <3>2 DEF AtMostSays
  <2>3. CASE b < 0
    <3>1. ~(b >= k) /\ b # 0 /\ b <= 0
      BY <1>1, <2>3
    <3>2. SeqcountAtMost(lits, b, base) = {{}} /\ BlockSize(encoder, k, b) = 0
      BY <2>3, <3>1 DEF SeqcountAtMost, BlockSize
    <3> HIDE DEF k
    <3> QED
      BY <1>0, <1>2, <1>3, <2>1, <2>3, <3>2 DEF AtMostSays
  <2>4. CASE b = 0
    <3>1. ~(b >= k) /\ ~(b < 0) /\ b <= 0
      BY <1>1, <2>4
    <3>2. SeqcountAtMost(lits, b, base) = None /\ BlockSize(encoder, k, b) = 0
      BY <2>4, <3>1 DEF SeqcountAtMost, BlockSize, None
    <3>3. Confined(None, Len(f), base, 0) /\ HornIn(None, Len(f))
      BY <1>4 DEF None
    <3> HIDE DEF k
    <3> QED
      BY <1>0, <1>2, <2>1, <2>4, <3>2, <3>3 DEF AtMostSays
  <2>5. CASE 0 < b /\ b < k
    <3>1. ~(b >= k) /\ ~(b < 0) /\ b # 0 /\ ~(b <= 0) /\ b \in Nat
      BY <1>1, <2>5
    <3>2. /\ SeqcountAtMost(lits, b, base) = CounterClauses(lits, b, base)
          /\ BlockSize(encoder, k, b) = (k - 1) * b
      BY <1>6, <3>1 DEF SeqcountAtMost, BlockSize
    <3>3. (k - 1) * b \in Nat
      <4>1. 0 * b <= (k - 1) * b /\ (k - 1) * b \in Int /\ 0 * b = 0
        BY <1>1, <3>1, <2>5, Times
      <4> QED
        BY <4>1
    <3>4. Counts(CounterClauses(lits, b, base), f, number, b, base, (k - 1) * b)
      BY <2>5, <3>1, CounterCounts DEF number
    <3>5. /\ Confined(CounterClauses(lits, b, base), Len(f), base, (k - 1) * b)
          /\ HornIn(CounterClauses(lits, b, base), Len(f))
          /\ Fills(CounterClauses(lits, b, base), base, (k - 1) * b)
      BY <1>1, <2>5, <3>1, CounterShape
    <3> QED
      BY <2>1, <3>2, <3>3, <3>4, <3>5 DEF AtMostSays
  <2> QED
    BY <1>1, <2>2, <2>3, <2>4, <2>5
<1>7. CASE encoder = "totalizer"
  <2>1. AtMost(encoder, lits, b, base) = TotalizerAtMost(lits, b, base)
    BY <1>7 DEF AtMost
  <2>2. CASE b >= k
    <3>1. ~(b < 0) /\ (b = 0 => None = {})
      BY <1>1, <2>2 DEF None
    <3>2. TotalizerAtMost(lits, b, base) = {} /\ BlockSize(encoder, k, b) = 0
      BY <2>2, <3>1 DEF TotalizerAtMost, BlockSize, None
    <3> HIDE DEF k
    <3> QED
      BY <1>0, <1>2, <1>3, <2>1, <2>2, <3>2 DEF AtMostSays
  <2>3. CASE b < 0
    <3>1. ~(b >= k) /\ b # 0 /\ b <= 0
      BY <1>1, <2>3
    <3>2. TotalizerAtMost(lits, b, base) = {{}} /\ BlockSize(encoder, k, b) = 0
      BY <2>3, <3>1 DEF TotalizerAtMost, BlockSize
    <3> HIDE DEF k
    <3> QED
      BY <1>0, <1>2, <1>3, <2>1, <2>3, <3>2 DEF AtMostSays
  <2>4. CASE b = 0
    <3>1. ~(b >= k) /\ ~(b < 0) /\ b <= 0
      BY <1>1, <2>4
    <3>2. TotalizerAtMost(lits, b, base) = None /\ BlockSize(encoder, k, b) = 0
      BY <2>4, <3>1 DEF TotalizerAtMost, BlockSize, None
    <3>3. Confined(None, Len(f), base, 0) /\ HornIn(None, Len(f))
      BY <1>4 DEF None
    <3> HIDE DEF k
    <3> QED
      BY <1>0, <1>2, <2>1, <2>4, <3>2, <3>3 DEF AtMostSays
  <2>5. CASE 0 < b /\ b < k
    <3>1. ~(b >= k) /\ ~(b < 0) /\ b # 0 /\ ~(b <= 0) /\ b \in Nat
      BY <1>1, <2>5
    <3>2. BlockSize(encoder, k, b) = TreeSize(k, b)
      BY <1>7, <3>1 DEF BlockSize
    <3> QED
      BY <2>1, <2>5, <3>1, <3>2, TotalizerCounts DEF AtMostSays, number
  <2> QED
    BY <1>1, <2>2, <2>3, <2>4, <2>5
<1> QED
  BY <1>5, <1>6, <1>7 DEF EncoderNames, number

\* And unit propagation decides that.
LEMMA AtMostDecided ==
    ASSUME NEW clauses, NEW f, Coloring(f), NEW number \in Nat, NEW b \in Int,
           NEW base \in Nat, NEW size, Len(f) <= base,
           AtMostSays(clauses, f, number, b, base, size)
    PROVE  Satisfiable(clauses, f) <=> number <= b
<1>1. size \in Nat /\ Len(f) \in Nat
  BY DEF AtMostSays, Coloring
<1>2. \A c \in clauses : c \subseteq -(base + size) .. base + size
  <2> SUFFICES ASSUME NEW c \in clauses, NEW lit \in c
               PROVE  lit \in -(base + size) .. base + size
    OBVIOUS
  <2>1. /\ lit \in Int
        /\ \/ lit \in -Len(f) .. Len(f)
           \/ lit \in base + 1 .. base + size
           \/ -lit \in base + 1 .. base + size
    BY DEF AtMostSays, Confined
  <2> QED
    BY <1>1, <2>1
<1>3. Satisfiable(clauses, f) <=> \E V \in SUBSET Nat : Models(V, clauses, f)
  <2>1. base + size \in Nat
    BY <1>1
  <2>2. \A high \in Nat : (\A c \in clauses : c \subseteq -high .. high)
           => (Satisfiable(clauses, f) <=> \E V \in SUBSET Nat : Models(V, clauses, f))
    BY <1>1, Decides DEF AtMostSays
  <2> QED
    BY <1>2, <2>1, <2>2
<1>4. base + 1 .. base + size \subseteq Nat
  BY <1>1
<1> QED
  BY <1>3, <1>4 DEF AtMostSays, Counts

\* Of main variables, once each: the terms of a progression, or their negations.
LEMMA NegatedDistinct ==
    ASSUME NEW n \in Nat, NEW lits, Distinct(lits, n)
    PROVE  Distinct(Negated(lits), n) /\ Len(Negated(lits)) = Len(lits)
<1> DEFINE k == Len(lits)
<1>1. /\ k \in Nat /\ DOMAIN lits = 1 .. k
      /\ \A i \in 1 .. k : lits[i] \in -n .. n /\ lits[i] # 0 /\ lits[i] \in Int
      /\ \A i, j \in 1 .. k : lits[i] = lits[j] => i = j
  BY DEF Distinct
<1>2. Negated(lits) = [i \in 1 .. k |-> -lits[i]]
  BY <1>1 DEF Negated
<1>3. \A i \in 1 .. k : -lits[i] \in Int
  BY <1>1
<1>4. Negated(lits) \in Seq(Int) /\ Len(Negated(lits)) = k
  <2> HIDE DEF k
  <2> QED
    BY <1>1, <1>2, <1>3
<1>5. \A i \in 1 .. k : -lits[i] \in -n .. n /\ -lits[i] # 0
  BY <1>1
<1>6. \A i, j \in 1 .. k : -lits[i] = -lits[j] => i = j
  BY <1>1
<1> HIDE DEF k
<1> QED
  BY <1>1, <1>2, <1>4, <1>5, <1>6 DEF Distinct, k

\* Of distinct literals those that hold and those whose negations do are all.
LEMMA OneOrOther ==
    ASSUME NEW f, Coloring(f), NEW lits, Distinct(lits, Len(f))
    PROVE  /\ Number(lits, f, 1, Len(lits)) \in Nat
           /\ Number(Negated(lits), f, 1, Len(lits)) \in Nat
           /\ Number(lits, f, 1, Len(lits)) + Number(Negated(lits), f, 1, Len(lits)) = Len(lits)
<1> DEFINE k == Len(lits)
           P == TrueOf(lits, f, 1, k)
           M == TrueOf(Negated(lits), f, 1, k)
<1>1. k \in Nat /\ DOMAIN lits = 1 .. k
  BY DEF Distinct
<1>2. \A i \in 1 .. k : TrueUnder(f, Negated(lits)[i]) <=> ~TrueUnder(f, lits[i])
  <2> SUFFICES ASSUME NEW i \in 1 .. k
               PROVE  TrueUnder(f, Negated(lits)[i]) <=> ~TrueUnder(f, lits[i])
    OBVIOUS
  <2>1. Negated(lits)[i] = -lits[i] /\ lits[i] \in -Len(f) .. Len(f) /\ lits[i] # 0
    BY <1>1 DEF Negated, Distinct
  <2> QED
    BY <2>1, Opposite
<1>3. P \cup M = 1 .. k /\ P \cap M = {}
  BY <1>2 DEF TrueOf
<1>4. IsFiniteSet(P) /\ IsFiniteSet(M) /\ Cardinality(P) \in Nat /\ Cardinality(M) \in Nat
  BY <1>1, Counting DEF Number
<1>5. Cardinality(1 .. k) = k
  <2> HIDE DEF k
  <2>1. Cardinality(1 .. k) = IF 1 > k THEN 0 ELSE k - 1 + 1
    BY <1>1, FS_Interval
  <2> QED
    BY <1>1, <2>1
<1>6. Cardinality(P \cup M) = Cardinality(P) + Cardinality(M) - Cardinality({})
  <2> HIDE DEF P, M
  <2> QED
    BY <1>3, <1>4, FS_Union
<1>7. Cardinality({}) = 0
  BY FS_EmptySet
<1>8. Cardinality(P) + Cardinality(M) = k
  <2> DEFINE p == Cardinality(P)
             m == Cardinality(M)
  <2>1. p \in Nat /\ m \in Nat /\ k = p + m - 0
    BY <1>3, <1>4, <1>5, <1>6, <1>7
  <2> HIDE DEF p, m, k
  <2>2. p + m = k
    BY <2>1
  <2> QED
    BY <2>2 DEF p, m
<1> HIDE DEF k, P, M
<1> QED
  BY <1>4, <1>8 DEF Number, k, P, M

\* What AtMostCheck says of the literals 1 .. width, under the values so far.
CountsThem(encoder, bound, values) ==
    LET width    == Len(values)
        lits     == [i \in 1 .. width |-> i]
        plus     == Cardinality({i \in 1 .. width : values[i] = 1})
        clauses  == AtMost(encoder, lits, bound, width)
        negative == AtMost(encoder, Negated(lits), bound, width)
    IN  /\ Satisfiable(clauses, values) <=> plus <= bound
        /\ Satisfiable(negative, values) <=> width - plus <= bound
        /\ HornIn(clauses, width)
        /\ {lit \in UNION clauses : lit > width} \subseteq
              width + 1 .. width + BlockSize(encoder, width, bound)

\* At every bound and for every sequence.
LEMMA ShortSequences ==
    ASSUME NEW encoder \in EncoderNames, NEW bound \in Int, NEW values, Coloring(values),
           Len(values) > 0
    PROVE  CountsThem(encoder, bound, values)
<1> DEFINE width    == Len(values)
           lits     == [i \in 1 .. width |-> i]
           plus     == Cardinality({i \in 1 .. width : values[i] = 1})
           clauses  == AtMost(encoder, lits, bound, width)
           negative == AtMost(encoder, Negated(lits), bound, width)
           size     == BlockSize(encoder, width, bound)
           number   == Number(lits, values, 1, width)
           other    == Number(Negated(lits), values, 1, width)
<1>1. width \in Nat /\ width >= 1
  BY DEF Coloring
<1>2. Distinct(lits, width) /\ Len(lits) = width
  <2> HIDE DEF width
  <2>1. lits \in Seq(Int) /\ Len(lits) = width
    BY <1>1
  <2> QED
    BY <1>1, <2>1 DEF Distinct
<1>3. Distinct(Negated(lits), width) /\ Len(Negated(lits)) = width
  BY <1>1, <1>2, NegatedDistinct
<1>4. number \in Nat /\ other \in Nat /\ number + other = width
  BY <1>2, OneOrOther
<1>5. number = plus
  <2>1. \A i \in 1 .. width : TrueUnder(values, lits[i]) <=> values[i] = 1
    BY <1>1 DEF TrueUnder
  <2> QED
    BY <2>1 DEF Number, TrueOf
<1>6. AtMostSays(clauses, values, number, bound, width, size)
  <2> HIDE DEF lits
  <2> QED
    BY <1>1, <1>2, AtMostSound
<1>7. AtMostSays(negative, values, other, bound, width, size)
  <2> HIDE DEF lits
  <2> QED
    BY <1>1, <1>3, AtMostSound
<1> HIDE DEF clauses, negative, number, other, size
<1>8. Satisfiable(clauses, values) <=> number <= bound
  BY <1>1, <1>4, <1>6, AtMostDecided
<1>9. Satisfiable(negative, values) <=> other <= bound
  BY <1>1, <1>4, <1>7, AtMostDecided
<1>10. HornIn(clauses, width)
  BY <1>6 DEF AtMostSays
<1>11. {lit \in UNION clauses : lit > width} \subseteq width + 1 .. width + size
  <2> SUFFICES ASSUME NEW c \in clauses, NEW lit \in c, lit > width
               PROVE  lit \in width + 1 .. width + size
    OBVIOUS
  <2>1. /\ size \in Nat /\ lit \in Int
        /\ \/ lit \in -width .. width
           \/ lit \in width + 1 .. width + size
           \/ -lit \in width + 1 .. width + size
    BY <1>6 DEF AtMostSays, Confined
  <2> QED
    BY <1>1, <2>1
<1>12. other = width - plus
  <2> HIDE DEF plus, width
  <2> QED
    BY <1>1, <1>4, <1>5
<1> QED
  BY <1>5, <1>8, <1>9, <1>10, <1>11, <1>12 DEF CountsThem, clauses, negative, size

-----------------------------------------------------------------------------
(* The window, and where a progression stands among the others.            *)

\* Positive terms: few enough, and few enough negative ones, is a sum below l.
LEMMA Window ==
    ASSUME NEW k \in Nat, NEW l \in Nat, k >= 2, l >= 1, NEW p \in Nat, NEW m \in Nat, p + m = k
    PROVE  /\ Hi(k, l) \in Nat /\ Hi(k, l) >= 1
           /\ UThreshold(k, l) = Hi(k, l) + 1
           /\ p <= Hi(k, l) /\ m <= Hi(k, l) <=> Magnitude(p - m) < l
           /\ Degenerate(k, l) => ~(Magnitude(p - m) < l)
<1> DEFINE u == UThreshold(k, l)
<1>1. u \in Nat /\ 2 * u >= k + l /\ 2 * u <= k + l + 1 /\ u >= 2
  BY DEF UThreshold
<1>2. Hi(k, l) = u - 1 /\ Lo(k, l) = k - u + 1
  BY DEF Hi, Lo
<1> HIDE DEF u
<1>3. Hi(k, l) \in Nat /\ Hi(k, l) >= 1 /\ u = Hi(k, l) + 1
  BY <1>1, <1>2
<1>4. p <= u - 1 /\ m <= u - 1 <=> Magnitude(p - m) < l
  BY <1>1 DEF Magnitude
<1>5. Degenerate(k, l) => ~(p <= u - 1 /\ m <= u - 1)
  BY <1>1, <1>2 DEF Degenerate
<1> QED
  BY <1>2, <1>3, <1>4, <1>5 DEF u

\* The sum of 1 .. m.
Triangle(m) == (m * (m + 1)) \div 2

\* One of two numbers beside one another is even.
LEMMA Doubled ==
    \A m \in Nat : Triangle(m) \in Nat /\ 2 * Triangle(m) = m * (m + 1)
<1> DEFINE S == {m \in Nat : \E h \in Nat : 2 * h = m * (m + 1)}
<1>1. 0 \in S
  OBVIOUS
<1>2. ASSUME NEW m \in S PROVE m + 1 \in S
  <2>1. PICK h \in Nat : 2 * h = m * (m + 1)
    OBVIOUS
  <2>2. m \in Nat /\ (m + 1) * (m + 1 + 1) = m * (m + 1) + 2 * (m + 1)
    OBVIOUS
  <2>3. 2 * (h + m + 1) = (m + 1) * (m + 1 + 1) /\ h + m + 1 \in Nat
    BY <2>1, <2>2
  <2> DEFINE next == m + 1
             even == h + m + 1
  <2>4. next \in Nat /\ even \in Nat /\ 2 * even = next * (next + 1)
    BY <2>2, <2>3
  <2> HIDE DEF next, even
  <2>5. next \in S
    BY <2>4
  <2> QED
    BY <2>5 DEF next
<1>3. S = Nat
  <2>1. S \in SUBSET Nat
    OBVIOUS
  <2> HIDE DEF S
  <2> QED
    BY <1>1, <1>2, <2>1, FromZeroUp
<1>4. \A m \in Nat : \E h \in Nat : 2 * h = m * (m + 1)
  BY <1>3
<1>5. ASSUME NEW m \in Nat
      PROVE  Triangle(m) \in Nat /\ 2 * Triangle(m) = m * (m + 1)
  <2>1. PICK h \in Nat : 2 * h = m * (m + 1)
    BY <1>4
  <2>2. Triangle(m) = (2 * h) \div 2
    BY <2>1 DEF Triangle
  <2>3. (2 * h) \div 2 = h
    OBVIOUS
  <2> QED
    BY <2>1, <2>2, <2>3
<1> QED
  BY <1>5

\* The next sum is the one before and the next number.
LEMMA Triangles ==
    /\ Triangle(0) = 0
    /\ \A m \in Nat : Triangle(m) \in Nat /\ Triangle(m + 1) = Triangle(m) + (m + 1)
<1>1. ASSUME NEW m \in Nat
      PROVE  Triangle(m) \in Nat /\ Triangle(m + 1) = Triangle(m) + (m + 1)
  <2> DEFINE x == Triangle(m)
             y == Triangle(m + 1)
  <2>1. 2 * y = (m + 1) * (m + 1 + 1) /\ y \in Nat /\ 2 * x = m * (m + 1) /\ x \in Nat
    BY Doubled
  <2>2. (m + 1) * (m + 1 + 1) = m * (m + 1) + 2 * (m + 1)
    OBVIOUS
  <2> HIDE DEF x, y
  <2>3. 2 * y = 2 * x + 2 * (m + 1)
    BY <2>1, <2>2
  <2>4. x \in Nat /\ y \in Nat
    BY <2>1
  <2>5. y = x + (m + 1)
    BY <2>3, <2>4
  <2> QED
    BY <2>4, <2>5 DEF x, y
<1>2. Triangle(0) = 0
  BY DEF Triangle
<1> QED
  BY <1>1, <1>2

\* How many progressions have a difference of at most d.
Before(n, k, gap) == gap * n - (k - 1) * Triangle(gap)

\* One more difference, and as many progressions as it has first terms.
LEMMA BeforeStep ==
    ASSUME NEW n \in Nat, NEW k \in Nat
    PROVE  /\ Before(n, k, 0) = 0
           /\ \A gap \in Nat : /\ Before(n, k, gap) \in Int
                             /\ Before(n, k, gap + 1) = Before(n, k, gap) + LastStart(n, k, gap + 1)
<1>1. Before(n, k, 0) = 0
  BY Triangles DEF Before
<1>2. ASSUME NEW gap \in Nat
      PROVE  /\ Before(n, k, gap) \in Int
             /\ Before(n, k, gap + 1) = Before(n, k, gap) + LastStart(n, k, gap + 1)
  <2>1. Triangle(gap) \in Nat /\ Triangle(gap + 1) = Triangle(gap) + (gap + 1)
    BY Triangles
  <2> DEFINE x == Triangle(gap)
  <2>2. x \in Int
    BY <2>1
  <2> HIDE DEF x
  <2>3. (k - 1) * (x + (gap + 1)) = (k - 1) * x + (k - 1) * (gap + 1)
    BY <2>2
  <2>4. (gap + 1) * n = gap * n + n
    OBVIOUS
  <2>5. gap * n \in Int /\ (k - 1) * x \in Int /\ (k - 1) * (gap + 1) \in Int
    BY <2>2
  <2>6. Before(n, k, gap) = gap * n - (k - 1) * x
    BY DEF Before, x
  <2>7. Before(n, k, gap + 1) = (gap + 1) * n - (k - 1) * (x + (gap + 1))
    BY <2>1 DEF Before, x
  <2>8. LastStart(n, k, gap + 1) = n - (k - 1) * (gap + 1)
    BY DEF LastStart
  <2> QED
    BY <2>3, <2>4, <2>5, <2>6, <2>7, <2>8
<1> QED
  BY <1>1, <1>2

\* The differences of the progressions in 1 .. n, and the formula of num_aps.
LEMMA Differences ==
    ASSUME NEW n \in Nat, NEW k \in Nat, k >= 2
    PROVE  /\ LastDifference(n, k) \in Nat
           /\ \A gap \in 1 .. LastDifference(n, k) : LastStart(n, k, gap) \in Nat \ {0}
           /\ NumAps(n, k) = Before(n, k, LastDifference(n, k))
<1> DEFINE D == LastDifference(n, k)
<1>1. D \in Nat /\ (D >= 1 => (k - 1) * D <= n - 1)
  <2>1. CASE n < k
    BY <2>1 DEF LastDifference
  <2>2. CASE ~(n < k)
    <3> DEFINE x == n - 1
               y == k - 1
    <3>1. x \in Nat /\ y \in Nat /\ y > 0
      BY <2>2
    <3> HIDE DEF x, y
    <3>2. x \div y \in Nat /\ y * (x \div y) <= x
      BY <3>1
    <3> QED
      BY <2>2, <3>2 DEF LastDifference, x, y
  <2> QED
    BY <2>1, <2>2
<1> HIDE DEF D
<1>2. ASSUME NEW gap \in 1 .. D PROVE LastStart(n, k, gap) \in Nat \ {0}
  <2>1. gap \in Int /\ D \in Int /\ gap <= D /\ D >= 1 /\ k - 1 \in Nat
    BY <1>1
  <2>2. gap * (k - 1) <= D * (k - 1) /\ gap * (k - 1) \in Int
    BY <2>1, Times
  <2>3. gap * (k - 1) = (k - 1) * gap /\ D * (k - 1) = (k - 1) * D
    BY <2>1
  <2>4. (k - 1) * gap <= n - 1 /\ (k - 1) * gap \in Int
    BY <1>1, <2>1, <2>2, <2>3
  <2> QED
    BY <2>4 DEF LastStart
<1>3. NumAps(n, k) = Before(n, k, D)
  <2>1. CASE n < k
    <3>1. D = 0
      BY <2>1 DEF D, LastDifference
    <3> QED
      BY <2>1, <3>1, BeforeStep DEF NumAps
  <2>2. CASE ~(n < k)
    <3>1. 2 * Triangle(D) = D * (D + 1) /\ Triangle(D) \in Nat
      BY <1>1, Doubled
    <3>2. ((k - 1) * D * (D + 1)) \div 2 = (k - 1) * Triangle(D)
      <4> DEFINE x == Triangle(D)
                 z == (k - 1) * x
      <4>1. (k - 1) * D * (D + 1) = (k - 1) * (D * (D + 1))
        BY <1>1
      <4>2. x \in Nat /\ D * (D + 1) = 2 * x
        BY <3>1
      <4> HIDE DEF x
      <4>3. (k - 1) * (2 * x) = 2 * z /\ z \in Int
        BY <4>2
      <4> HIDE DEF z
      <4>4. (2 * z) \div 2 = z
        BY <4>3
      <4> QED
        BY <4>1, <4>2, <4>3, <4>4 DEF z, x
    <3> QED
      BY <2>2, <3>2 DEF NumAps, Before, D
  <2> QED
    BY <2>1, <2>2
<1> QED
  BY <1>1, <1>2, <1>3 DEF D

\* Every progression that there is has its place before the last.
LEMMA Places ==
    ASSUME NEW n \in Nat, NEW k \in Nat, k >= 2, NEW gap \in 0 .. LastDifference(n, k)
    PROVE  Before(n, k, gap) <= NumAps(n, k)
<1> DEFINE D == LastDifference(n, k)
           S == {m \in Nat : gap + m <= D => Before(n, k, gap) <= Before(n, k, gap + m)}
<1>1. D \in Nat /\ NumAps(n, k) = Before(n, k, D) /\ gap \in Nat /\ gap <= D
  BY Differences
<1>2. \A e \in 1 .. D : LastStart(n, k, e) \in Nat \ {0}
  BY Differences
<1>3. \A e \in Nat : /\ Before(n, k, e) \in Int
                     /\ Before(n, k, e + 1) = Before(n, k, e) + LastStart(n, k, e + 1)
  BY BeforeStep
<1> HIDE DEF D
<1>4. 0 \in S
  BY <1>1, <1>3
<1>5. ASSUME NEW m \in S PROVE m + 1 \in S
  <2> SUFFICES ASSUME gap + (m + 1) <= D
               PROVE  Before(n, k, gap) <= Before(n, k, gap + (m + 1))
    BY <1>1
  <2>1. m \in Nat /\ gap + m \in Nat /\ gap + m <= D /\ gap + (m + 1) = (gap + m) + 1
        /\ (gap + m) + 1 \in 1 .. D
    BY <1>1
  <2>2. Before(n, k, gap) <= Before(n, k, gap + m)
    BY <2>1
  <2>3. LastStart(n, k, (gap + m) + 1) \in Nat
    BY <1>2, <2>1
  <2>4. /\ Before(n, k, gap + m) \in Int /\ Before(n, k, gap) \in Int
        /\ Before(n, k, (gap + m) + 1) = Before(n, k, gap + m) + LastStart(n, k, (gap + m) + 1)
    BY <1>1, <1>3, <2>1
  <2> HIDE DEF S
  <2>5. Before(n, k, gap) <= Before(n, k, (gap + m) + 1)
    BY <2>2, <2>3, <2>4
  <2> QED
    BY <2>1, <2>5
<1>6. S = Nat
  <2>1. S \in SUBSET Nat
    OBVIOUS
  <2> HIDE DEF S
  <2> QED
    BY <1>4, <1>5, <2>1, FromZeroUp
<1>7. D - gap \in S /\ gap + (D - gap) = D
  <2>1. D - gap \in Nat /\ gap + (D - gap) = D
    BY <1>1
  <2> HIDE DEF S
  <2> QED
    BY <1>6, <2>1
<1> QED
  BY <1>1, <1>7

-----------------------------------------------------------------------------
(* The two constraints of a progression.                                   *)

Terms(first, gap, k) == {first + i * gap : i \in 0 .. k - 1}

\* The terms of a progression are main variables, each once, and its sum is
\* the number of the positive ones less that of the others.
LEMMA ApTerms ==
    ASSUME NEW n \in Nat, NEW k \in Nat, k >= 2, NEW gap \in Nat \ {0},
           NEW first \in 1 .. LastStart(n, k, gap), NEW f, Coloring(f), Len(f) = n
    PROVE  /\ Distinct(Ap(first, gap, k), n) /\ Len(Ap(first, gap, k)) = k
           /\ \A i \in 1 .. k : Ap(first, gap, k)[i] > 0
           /\ ApSum(f, Terms(first, gap, k)) =
                 Number(Ap(first, gap, k), f, 1, k) - Number(Negated(Ap(first, gap, k)), f, 1, k)
<1> DEFINE lits == Ap(first, gap, k)
           at(i) == first + (i - 1) * gap
<1>1. first \in Nat /\ first >= 1 /\ first <= n - (k - 1) * gap
  <2> DEFINE x == (k - 1) * gap
  <2>1. x \in Int
    OBVIOUS
  <2>2. LastStart(n, k, gap) = n - x
    BY DEF LastStart
  <2> HIDE DEF x
  <2>3. first \in Nat /\ first >= 1 /\ first <= n - x
    BY <2>1, <2>2
  <2> QED
    BY <2>3 DEF x
<1>2. \A i \in 1 .. k : at(i) \in 1 .. n
  <2> SUFFICES ASSUME NEW i \in 1 .. k PROVE at(i) \in 1 .. n
    OBVIOUS
  <2>1. /\ 0 * gap = 0 /\ 0 * gap <= (i - 1) * gap /\ (i - 1) * gap <= (k - 1) * gap
        /\ (i - 1) * gap \in Int /\ (k - 1) * gap \in Int
    BY Times
  <2> QED
    BY <1>1, <2>1
<1>3. \A i, j \in 1 .. k : at(i) = at(j) => i = j
  <2>1. ASSUME NEW i \in 1 .. k, NEW j \in 1 .. k, i < j PROVE at(i) < at(j)
    <3>1. (i - 1) * gap + gap <= (j - 1) * gap /\ (i - 1) * gap \in Int /\ (j - 1) * gap \in Int
      BY <2>1, Times
    <3> QED
      BY <1>1, <3>1
  <2> HIDE DEF at
  <2>2. \A i, j \in 1 .. k : i < j \/ j < i \/ i = j
    OBVIOUS
  <2>3. \A i, j \in 1 .. k : i < j => at(i) < at(j)
    BY <2>1
  <2>4. \A i \in 1 .. k : at(i) \in Int
    BY <1>2
  <2> QED
    BY <2>2, <2>3, <2>4
<1>4. lits = [i \in 1 .. k |-> at(i)]
  BY DEF Ap
<1>5. Terms(first, gap, k) = {at(i) : i \in 1 .. k}
  <2>1. ASSUME NEW i \in 0 .. k - 1 PROVE i + 1 \in 1 .. k /\ at(i + 1) = first + i * gap
    <3>1. i + 1 \in 1 .. k /\ (i + 1) - 1 = i
      OBVIOUS
    <3> QED
      BY <3>1
  <2>2. ASSUME NEW i \in 1 .. k PROVE i - 1 \in 0 .. k - 1 /\ at(i) = first + (i - 1) * gap
    OBVIOUS
  <2> HIDE DEF at
  <2> QED
    BY <2>1, <2>2 DEF Terms
<1> HIDE DEF at
<1>6. Distinct(lits, n) /\ Len(lits) = k /\ \A i \in 1 .. k : lits[i] > 0 /\ lits[i] = at(i)
  <2>1. lits \in Seq(Int) /\ Len(lits) = k
    BY <1>2, <1>4
  <2> HIDE DEF lits
  <2> QED
    BY <1>2, <1>3, <1>4, <2>1 DEF Distinct
<1> DEFINE P == TrueOf(lits, f, 1, k)
           M == TrueOf(Negated(lits), f, 1, k)
<1>7. /\ P = {i \in 1 .. k : f[at(i)] = 1}
      /\ M = {i \in 1 .. k : f[at(i)] = -1}
  <2>1. \A i \in 1 .. k : TrueUnder(f, lits[i]) <=> f[at(i)] = 1
    BY <1>6 DEF TrueUnder
  <2>2. \A i \in 1 .. k : TrueUnder(f, Negated(lits)[i]) <=> f[at(i)] = -1
    <3> SUFFICES ASSUME NEW i \in 1 .. k
                 PROVE  TrueUnder(f, Negated(lits)[i]) <=> f[at(i)] = -1
      OBVIOUS
    <3>1. Negated(lits)[i] = -lits[i]
      BY <1>6 DEF Negated, Distinct
    <3>2. at(i) \in 1 .. n
      BY <1>2
    <3>3. ~(-at(i) > 0) /\ -(-at(i)) = at(i)
      BY <3>2
    <3> QED
      BY <1>6, <3>1, <3>3 DEF TrueUnder
  <2> QED
    BY <2>1, <2>2 DEF TrueOf
<1>8. IsFiniteSet(P) /\ IsFiniteSet(M) /\ P \subseteq 1 .. k /\ M \subseteq 1 .. k
  BY <1>7, Counting
<1>9. /\ {at(i) : i \in P} = {x \in Terms(first, gap, k) : f[x] = 1}
      /\ {at(i) : i \in M} = {x \in Terms(first, gap, k) : f[x] = -1}
  BY <1>5, <1>7
<1> DEFINE g == [i \in 1 .. k |-> at(i)]
<1>10. Cardinality({at(i) : i \in P}) = Cardinality(P)
  <2>1. {at(i) : i \in P} = {g[i] : i \in P} /\ \A i, j \in P : g[i] = g[j] => i = j
    BY <1>3, <1>8
  <2>2. Cardinality({g[i] : i \in P}) = Cardinality(P)
    <3> HIDE DEF P, g
    <3> QED
      BY <1>8, <2>1, Renumbered
  <2> QED
    BY <2>1, <2>2
<1>11. Cardinality({at(i) : i \in M}) = Cardinality(M)
  <2>1. {at(i) : i \in M} = {g[i] : i \in M} /\ \A i, j \in M : g[i] = g[j] => i = j
    BY <1>3, <1>8
  <2>2. Cardinality({g[i] : i \in M}) = Cardinality(M)
    <3> HIDE DEF M, g
    <3> QED
      BY <1>8, <2>1, Renumbered
  <2> QED
    BY <2>1, <2>2
<1>12. ApSum(f, Terms(first, gap, k)) = Cardinality(P) - Cardinality(M)
  <2> HIDE DEF P, M
  <2> QED
    BY <1>9, <1>10, <1>11 DEF ApSum
<1> QED
  BY <1>6, <1>12 DEF Number

\* Clauses that some coloring meets, in a block of their own.
Rules(clauses, f, good, base, size) ==
    /\ \A V \in SUBSET Nat : Models(V, clauses, f) => good
    /\ good => \E V \in SUBSET (base + 1 .. base + size) : Models(V, clauses, f)

Formed(clauses, n, base, size) ==
    Confined(clauses, n, base, size) /\ HornIn(clauses, n) /\ Fills(clauses, base, size)

\* Clauses in blocks beside one another do not meet.
LEMMA Adjacent ==
    ASSUME NEW n \in Nat, NEW base \in Nat, n <= base, NEW s1 \in Nat, NEW s2 \in Nat,
           NEW mid, mid = base + s1, NEW size, size = s1 + s2, NEW c1, NEW c2,
           Formed(c1, n, base, s1), Formed(c2, n, mid, s2)
    PROVE  Formed(c1 \cup c2, n, base, size)
<1>1. /\ mid \in Nat /\ size \in Nat /\ n <= mid
      /\ \A v \in base + 1 .. base + s1 : v \in base + 1 .. base + size
      /\ \A v \in mid + 1 .. mid + s2 : v \in base + 1 .. base + size
      /\ \A v \in base + 1 .. base + size : v \in base + 1 .. base + s1 \/ v \in mid + 1 .. mid + s2
  OBVIOUS
<1>2. Confined(c1 \cup c2, n, base, size)
  BY <1>1 DEF Formed, Confined
<1>3. HornIn(c1 \cup c2, n)
  BY DEF Formed, HornIn
<1>4. Fills(c1 \cup c2, base, size)
  BY <1>1 DEF Formed, Fills
<1> QED
  BY <1>2, <1>3, <1>4 DEF Formed

\* What sets of clauses rule in blocks beside one another, they rule together.
LEMMA Beside ==
    ASSUME NEW f, Coloring(f), NEW base \in Nat, Len(f) <= base, NEW s1 \in Nat, NEW s2 \in Nat,
           NEW mid, mid = base + s1, NEW size, size = s1 + s2, NEW c1, NEW c2,
           Formed(c1, Len(f), base, s1), Formed(c2, Len(f), mid, s2),
           NEW g1, NEW g2, NEW good, good <=> g1 /\ g2,
           Rules(c1, f, g1, base, s1), Rules(c2, f, g2, mid, s2)
    PROVE  Rules(c1 \cup c2, f, good, base, size)
<1> DEFINE n == Len(f)
<1>1. /\ mid \in Nat /\ size \in Nat /\ n <= mid /\ n \in Nat
      /\ \A v \in base + 1 .. base + s1 : v \in base + 1 .. base + size
      /\ \A v \in mid + 1 .. mid + s2 : v \in base + 1 .. base + size
      /\ \A v \in base + 1 .. base + s1 : v \notin mid + 1 .. mid + s2
  BY DEF Coloring
<1>2. \A V : Models(V, c1 \cup c2, f) <=> Models(V, c1, f) /\ Models(V, c2, f)
  BY DEF Models
<1>3. ASSUME good
      PROVE  \E V \in SUBSET (base + 1 .. base + size) : Models(V, c1 \cup c2, f)
  <2>1. PICK V1 \in SUBSET (base + 1 .. base + s1) : Models(V1, c1, f)
    BY <1>3 DEF Rules
  <2>2. PICK V2 \in SUBSET (mid + 1 .. mid + s2) : Models(V2, c2, f)
    BY <1>3 DEF Rules
  <2> DEFINE V == V1 \cup V2
  <2>3. V \in SUBSET (base + 1 .. base + size)
    BY <1>1
  <2>4. \A v \in base + 1 .. base + s1 : v \in V1 <=> v \in V
    BY <1>1
  <2>5. \A v \in mid + 1 .. mid + s2 : v \in V2 <=> v \in V
    BY <1>1
  <2> HIDE DEF V
  <2>6. Models(V, c1, f)
    BY <2>1, <2>4, Agreeing DEF Formed
  <2>7. Models(V, c2, f)
    BY <1>1, <2>2, <2>5, Agreeing DEF Formed
  <2> QED
    BY <1>2, <2>3, <2>6, <2>7
<1>4. ASSUME NEW V \in SUBSET Nat, Models(V, c1 \cup c2, f) PROVE good
  BY <1>2, <1>4 DEF Rules
<1> QED
  BY <1>3, <1>4 DEF Rules

\* And unit propagation decides about all of them.
LEMMA RulesDecided ==
    ASSUME NEW clauses, NEW f, Coloring(f), NEW good, NEW base \in Nat, NEW size \in Nat,
           Len(f) <= base, Formed(clauses, Len(f), base, size),
           Rules(clauses, f, good, base, size)
    PROVE  Satisfiable(clauses, f) <=> good
<1>1. Len(f) \in Nat
  BY DEF Coloring
<1>2. \A c \in clauses : c \subseteq -(base + size) .. base + size
  <2> SUFFICES ASSUME NEW c \in clauses, NEW lit \in c
               PROVE  lit \in -(base + size) .. base + size
    OBVIOUS
  <2>1. /\ lit \in Int
        /\ \/ lit \in -Len(f) .. Len(f)
           \/ lit \in base + 1 .. base + size
           \/ -lit \in base + 1 .. base + size
    BY DEF Formed, Confined
  <2> QED
    BY <1>1, <2>1
<1>3. Satisfiable(clauses, f) <=> \E V \in SUBSET Nat : Models(V, clauses, f)
  <2>1. base + size \in Nat
    OBVIOUS
  <2>2. \A high \in Nat : (\A c \in clauses : c \subseteq -high .. high)
           => (Satisfiable(clauses, f) <=> \E V \in SUBSET Nat : Models(V, clauses, f))
    BY <1>1, Decides DEF Formed
  <2> QED
    BY <1>2, <2>1, <2>2
<1>4. base + 1 .. base + size \subseteq Nat
  OBVIOUS
<1> QED
  BY <1>3, <1>4 DEF Rules

-----------------------------------------------------------------------------
\* The variables of one constraint of an instance.
Size(encoder, k, l) == IF Degenerate(k, l) THEN 0 ELSE BlockSize(encoder, k, Hi(k, l))

\* The variables before the two blocks of a progression.
Low(n, place, size) == n + 2 * place * size

\* A block and the one after it.
LEMMA Adding ==
    ASSUME NEW n \in Nat, NEW x \in Nat, NEW size \in Nat, NEW low, low = n + x
    PROVE  low + size = n + (x + size) /\ n + (x + size) \in Nat /\ n <= n + (x + size)
OBVIOUS

\* The clauses of the t-th progression use the two blocks that are theirs, and
\* a coloring meets them exactly if the sum of the progression is below l.
LEMMA ApRuled ==
    ASSUME NEW encoder \in EncoderNames, NEW n \in Nat, NEW k \in Nat, k >= 2,
           NEW l \in Nat, l >= 1, NEW gap \in Nat \ {0}, NEW first \in 1 .. LastStart(n, k, gap),
           NEW place \in Nat, NEW f, Coloring(f), Len(f) = n,
           NEW size, size = Size(encoder, k, l), NEW low, low = Low(n, place, size)
    PROVE  LET clauses == ApClauses(encoder, n, k, l, Ap(first, gap, k), place) IN
           /\ size \in Nat /\ low \in Nat /\ n <= low
           /\ Formed(clauses, n, low, 2 * size)
           /\ Rules(clauses, f, Magnitude(ApSum(f, Terms(first, gap, k))) < l, low, 2 * size)
<1> DEFINE lits == Ap(first, gap, k)
           clauses == ApClauses(encoder, n, k, l, lits, place)
           b == Hi(k, l)
           p == Number(lits, f, 1, k)
           m == Number(Negated(lits), f, 1, k)
           good == Magnitude(ApSum(f, Terms(first, gap, k))) < l
<1>1. /\ Distinct(lits, n) /\ Len(lits) = k
      /\ ApSum(f, Terms(first, gap, k)) = p - m
  BY ApTerms
<1>2. Distinct(Negated(lits), n) /\ Len(Negated(lits)) = k
  <2> HIDE DEF lits
  <2> QED
    BY <1>1, NegatedDistinct
<1>3. p \in Nat /\ m \in Nat /\ p + m = k
  <2> HIDE DEF lits
  <2> QED
    BY <1>1, OneOrOther
<1> HIDE DEF lits, p, m
<1>4. /\ b \in Nat
      /\ p <= b /\ m <= b <=> good
      /\ Degenerate(k, l) => ~good
  <2>1. /\ Hi(k, l) \in Nat
        /\ p <= Hi(k, l) /\ m <= Hi(k, l) <=> Magnitude(p - m) < l
        /\ Degenerate(k, l) => ~(Magnitude(p - m) < l)
    BY <1>3, Window
  <2> QED
    BY <1>1, <2>1
<1> SUFFICES /\ size \in Nat /\ low \in Nat /\ n <= low
             /\ Formed(clauses, n, low, 2 * size)
             /\ Rules(clauses, f, good, low, 2 * size)
  BY DEF lits
<1> HIDE DEF b, good
<1>5. CASE Degenerate(k, l)
  <2>1. size = 0 /\ clauses = {{}}
    BY <1>5 DEF Size, ApClauses
  <2>2. 2 * place * size = 0 /\ 2 * size = 0
    BY <2>1
  <2>3. low = n
    BY <2>2 DEF Low
  <2>4. Formed({{}}, n, low, 0)
    BY <2>3 DEF Formed, Confined, HornIn, Fills
  <2>5. Rules({{}}, f, good, low, 0)
    BY <1>4, <1>5 DEF Rules, Models
  <2> QED
    BY <2>1, <2>2, <2>3, <2>4, <2>5
<1>6. CASE ~Degenerate(k, l)
  <2> DEFINE mid == Base(encoder, n, k, b, place, 1)
             c1 == AtMost(encoder, lits, b, low)
             c2 == AtMost(encoder, Negated(lits), b, mid)
  <2>1. size = BlockSize(encoder, k, b)
    BY <1>6 DEF Size, b
  <2>2. size \in Nat
    <3>1. AtMostSays(AtMost(encoder, lits, b, n), f, Number(lits, f, 1, k), b, n,
                     BlockSize(encoder, k, b))
      BY <1>1, <1>4, AtMostSound
    <3> QED
      BY <2>1, <3>1 DEF AtMostSays
  <2>3. /\ Base(encoder, n, k, b, place, 0) = low /\ low \in Nat /\ n <= low
        /\ mid = low + size /\ mid \in Nat /\ n <= mid /\ 2 * size = size + size
    <3> DEFINE x == 2 * place * size
    <3>1. (2 * place + 0) * size = x /\ (2 * place + 1) * size = x + size /\ x \in Nat
      BY <2>2
    <3>2. low = n + x
      BY DEF Low
    <3>3. Base(encoder, n, k, b, place, 0) = n + x /\ mid = n + (x + size)
      BY <2>1, <3>1 DEF Base
    <3>4. x \in Nat
      BY <3>1
    <3> HIDE DEF x, mid
    <3>5. low \in Nat /\ n <= low
      BY <3>2, <3>4
    <3>6. mid = low + size /\ mid \in Nat /\ n <= mid
      <4>1. low + size = n + (x + size) /\ n + (x + size) \in Nat /\ n <= n + (x + size)
        BY <2>2, <3>2, <3>4, Adding
      <4>2. mid = n + (x + size)
        BY <3>3
      <4> QED
        BY <4>1, <4>2
    <3>7. 2 * size = size + size
      BY <2>2
    <3> QED
      BY <3>2, <3>3, <3>5, <3>6, <3>7
  <2>4. clauses = c1 \cup c2
    BY <1>6, <2>3 DEF ApClauses, b
  <2>5. AtMostSays(c1, f, p, b, low, size)
    <3> HIDE DEF c1
    <3>1. AtMostSays(AtMost(encoder, lits, b, low), f, Number(lits, f, 1, k), b, low,
                     BlockSize(encoder, k, b))
      BY <1>1, <1>4, <2>3, AtMostSound
    <3> QED
      BY <2>1, <3>1 DEF c1, p
  <2> HIDE DEF mid
  <2>6. AtMostSays(c2, f, m, b, mid, size)
    <3>1. AtMostSays(AtMost(encoder, Negated(lits), b, mid), f,
                     Number(Negated(lits), f, 1, k), b, mid, BlockSize(encoder, k, b))
      BY <1>2, <1>4, <2>3, AtMostSound
    <3> QED
      BY <2>1, <3>1 DEF m
  <2> HIDE DEF c1, c2, clauses
  <2>7. Formed(c1, n, low, size) /\ Rules(c1, f, p <= b, low, size)
    BY <2>5 DEF AtMostSays, Formed, Counts, Rules
  <2>8. Formed(c2, n, mid, size) /\ Rules(c2, f, m <= b, mid, size)
    BY <2>6 DEF AtMostSays, Formed, Counts, Rules
  <2> DEFINE twice == 2 * size
  <2>9. twice = size + size
    BY <2>3
  <2> HIDE DEF twice
  <2>10. Formed(c1 \cup c2, n, low, twice)
    BY <2>2, <2>3, <2>7, <2>8, <2>9, Adjacent
  <2> DEFINE g1 == p <= b
             g2 == m <= b
  <2>11. good <=> g1 /\ g2
    BY <1>4
  <2> HIDE DEF g1, g2
  <2>12. Rules(c1 \cup c2, f, good, low, twice)
    <3>1. Rules(c1, f, g1, low, size) /\ Rules(c2, f, g2, mid, size)
      BY <2>7, <2>8 DEF g1, g2
    <3>2. Len(f) <= low /\ low \in Nat /\ mid = low + size
      BY <2>3
    <3>3. Formed(c1, Len(f), low, size) /\ Formed(c2, Len(f), mid, size)
      BY <2>7, <2>8
    <3> HIDE DEF twice
    <3> QED
      BY SMTT(30), <2>2, <2>9, <2>11, <3>1, <3>2, <3>3, Beside
  <2> QED
    BY <2>2, <2>3, <2>4, <2>10, <2>12 DEF clauses, twice
<1> QED
  BY <1>5, <1>6

\* The variables that the first progressions take up.
Room(place, size) == 2 * place * size

\* A progression after another takes up two blocks.
LEMMA Rooms ==
    ASSUME NEW place \in Nat, NEW size \in Nat
    PROVE  /\ Room(place, size) \in Nat
           /\ Room(0, size) = 0
           /\ Room(place + 1, size) = Room(place, size) + 2 * size
           /\ \A n \in Nat : Low(n, place, size) = n + Room(place, size)
           /\ \A m \in Nat : place <= m => Room(place, size) <= Room(m, size)
<1>1. Room(place, size) \in Nat /\ Room(0, size) = 0
  BY DEF Room
<1>2. Room(place + 1, size) = Room(place, size) + 2 * size
  <2>1. (place + 1) * size = place * size + size /\ place * size \in Int
    OBVIOUS
  <2>2. 2 * (place + 1) * size = 2 * ((place + 1) * size) /\ 2 * place * size = 2 * (place * size)
    OBVIOUS
  <2> QED
    BY <2>1, <2>2 DEF Room
<1>3. \A n \in Nat : Low(n, place, size) = n + Room(place, size)
  BY DEF Low, Room
<1>4. ASSUME NEW m \in Nat, place <= m PROVE Room(place, size) <= Room(m, size)
  <2>1. place * size <= m * size /\ place * size \in Int /\ m * size \in Int
    BY <1>4, Times
  <2>2. 2 * m * size = 2 * (m * size) /\ 2 * place * size = 2 * (place * size)
    OBVIOUS
  <2> QED
    BY <2>1, <2>2 DEF Room
<1> QED
  BY <1>1, <1>2, <1>3, <1>4

\* What the header declares.
LEMMA DeclaredRoom ==
    ASSUME NEW encoder, NEW n \in Nat, NEW k, NEW l, NEW size, size = Size(encoder, k, l),
           NumAps(n, k) \in Nat
    PROVE  NumVars(encoder, n, k, l) = n + Room(NumAps(n, k), size)
<1>1. CASE Degenerate(k, l)
  <2>1. size = 0 /\ Room(NumAps(n, k), size) = 0
    BY <1>1 DEF Size, Room
  <2> QED
    BY <1>1, <2>1 DEF NumVars
<1>2. CASE ~Degenerate(k, l)
  <2>1. size = BlockSize(encoder, k, Hi(k, l))
    BY <1>2 DEF Size
  <2> HIDE DEF Size
  <2> QED
    BY <1>2, <2>1 DEF NumVars, Room
<1> QED
  BY <1>1, <1>2

\* All the colorings of 1 .. n.
Colorings(n) == [1 .. n -> {1, -1}]

\* A coloring is a sequence.
LEMMA IsColoring ==
    ASSUME NEW n \in Nat, NEW f \in Colorings(n)
    PROVE  Coloring(f) /\ Len(f) = n
BY DEF Colorings, Coloring

\* Clauses of a block are finitely many.
LEMMA FormedFinite ==
    ASSUME NEW clauses, NEW n \in Nat, NEW base \in Nat, NEW size \in Nat, n <= base,
           Formed(clauses, n, base, size)
    PROVE  /\ IsFiniteSet(clauses) /\ Cardinality(clauses) \in Nat
           /\ \A c \in clauses : \A lit \in c : lit \in -(base + size) .. base + size
<1>1. \A c \in clauses : \A lit \in c : lit \in -(base + size) .. base + size
  <2> SUFFICES ASSUME NEW c \in clauses, NEW lit \in c
               PROVE  lit \in -(base + size) .. base + size
    OBVIOUS
  <2>1. /\ lit \in Int
        /\ \/ lit \in -n .. n
           \/ lit \in base + 1 .. base + size
           \/ -lit \in base + 1 .. base + size
    BY DEF Formed, Confined
  <2> QED
    BY <2>1
<1>2. IsFiniteSet(-(base + size) .. base + size)
  BY FS_Interval
<1>3. IsFiniteSet(SUBSET (-(base + size) .. base + size))
  BY <1>2, FS_SUBSET
<1>4. clauses \subseteq SUBSET (-(base + size) .. base + size)
  BY <1>1
<1>5. IsFiniteSet(clauses)
  BY <1>3, <1>4, FS_Subset
<1> QED
  BY <1>1, <1>5, FS_CardinalityType

\* The colorings that meet the clauses are those of L.
Leave(clauses, n, L, base, size) ==
    \A f \in Colorings(n) : Rules(clauses, f, f \in L, base, size)

\* The colorings of L that the clauses leave possible.
Kept(L, clauses) == {f \in L : Satisfiable(clauses, f)}

\* Two sets of clauses, each in its block, the second one right after the first.
NextTo(old, clauses, n, L, G, x, extra) ==
    /\ n \in Nat /\ x \in Nat /\ extra \in Nat
    /\ L \in SUBSET Colorings(n) /\ G \in SUBSET Colorings(n)
    /\ Formed(old, n, n, x) /\ Leave(old, n, L, n, x)
    /\ Formed(clauses, n, n + x, extra) /\ Leave(clauses, n, G, n + x, extra)

\* Clauses in a block of their own are added to others: the colorings that are
\* left are the ones of both.
LEMMA Added ==
    ASSUME NEW old, NEW clauses, NEW n, NEW L, NEW G, NEW x, NEW extra,
           NextTo(old, clauses, n, L, G, x, extra),
           NEW y, y = x + extra, NEW all, all = old \cup clauses, NEW both, both = L \cap G
    PROVE  Formed(all, n, n, y) /\ Leave(all, n, both, n, y) /\ Kept(L, all) = both
<1> DEFINE low == n + x
<1>1. /\ n \in Nat /\ x \in Nat /\ extra \in Nat
      /\ L \in SUBSET Colorings(n) /\ G \in SUBSET Colorings(n)
      /\ Formed(old, n, n, x) /\ Leave(old, n, L, n, x)
      /\ Formed(clauses, n, low, extra) /\ Leave(clauses, n, G, low, extra)
      /\ low = n + x /\ y = x + extra /\ all = old \cup clauses /\ both = L \cap G
  BY DEF NextTo
<1> HIDE DEF low
<1>2. Formed(all, n, n, y) /\ y \in Nat
  <2>1. Formed(old \cup clauses, n, n, y) /\ y \in Nat
    BY <1>1, Adjacent
  <2> QED
    BY <1>1, <2>1
<1>3. ASSUME NEW f \in Colorings(n)
      PROVE  Rules(all, f, f \in both, n, y)
  <2> DEFINE g1 == f \in L
             g2 == f \in G
             good == f \in both
  <2>1. good <=> g1 /\ g2
    BY <1>1
  <2>2. Rules(old, f, g1, n, x) /\ Rules(clauses, f, g2, low, extra)
    BY <1>1 DEF Leave
  <2>3. Coloring(f) /\ Len(f) = n
    BY <1>1, IsColoring
  <2>4. Formed(old, Len(f), n, x) /\ Formed(clauses, Len(f), low, extra) /\ Len(f) <= n
    BY <1>1, <2>3
  <2> HIDE DEF g1, g2, good
  <2>5. Rules(old \cup clauses, f, good, n, y)
    BY <1>1, <2>1, <2>2, <2>3, <2>4, Beside
  <2> QED
    BY <1>1, <2>5 DEF good
<1>4. ASSUME NEW f \in Colorings(n)
      PROVE  Satisfiable(all, f) <=> f \in both
  <2> DEFINE good == f \in both
  <2>1. Rules(all, f, good, n, y)
    BY <1>3
  <2>2. Coloring(f) /\ Len(f) = n
    BY <1>1, IsColoring
  <2>3. Formed(all, Len(f), n, y) /\ Len(f) <= n
    BY <1>1, <1>2, <2>2
  <2> HIDE DEF good
  <2>4. Satisfiable(all, f) <=> good
    BY <1>1, <1>2, <2>1, <2>2, <2>3, RulesDecided
  <2> QED
    BY <2>4 DEF good
<1>5. Kept(L, all) = both
  BY <1>1, <1>4 DEF Kept
<1> QED
  BY <1>2, <1>3, <1>5 DEF Leave

-----------------------------------------------------------------------------
(* How many clauses the subsets encoder writes.                            *)

\* Lists of literals have as many sublists as lists of numbers.
LEMMA Sublists ==
    ASSUME NEW n \in Nat, NEW lits, Distinct(lits, n), NEW u \in Nat
    PROVE  LET clauses == {{-lit : lit \in S} :
                              S \in kSubset(u, {lits[i] : i \in DOMAIN lits})} IN
           /\ IsFiniteSet(clauses)
           /\ Cardinality(clauses) = Cardinality(kSubset(u, 1 .. Len(lits)))
<1> DEFINE k == Len(lits)
           J == kSubset(u, 1 .. k)
           g == [K \in J |-> {-lits[i] : i \in K}]
           clauses == {{-lit : lit \in S} : S \in kSubset(u, {lits[i] : i \in DOMAIN lits})}
<1>1. /\ k \in Nat /\ DOMAIN lits = 1 .. k
      /\ \A i, j \in 1 .. k : lits[i] = lits[j] => i = j
      /\ \A i \in 1 .. k : lits[i] \in Int
  BY DEF Distinct
<1>2. \A i, j \in 1 .. k : -lits[i] = -lits[j] => i = j
  BY <1>1
<1>3. IsFiniteSet(1 .. k)
  BY <1>1, FS_Interval
<1> HIDE DEF k
<1>4. J \subseteq SUBSET (1 .. k) /\ \A K \in J : Cardinality(K) = u
  BY DEF kSubset
<1>5. IsFiniteSet(J)
  <2>1. IsFiniteSet(SUBSET (1 .. k))
    BY <1>3, FS_SUBSET
  <2> HIDE DEF J
  <2> QED
    BY <1>4, <2>1, FS_Subset
<1>6. \A K \in SUBSET (1 .. k) : IsFiniteSet(K) /\ Cardinality({lits[i] : i \in K}) = Cardinality(K)
  <2> SUFFICES ASSUME NEW K \in SUBSET (1 .. k)
               PROVE  IsFiniteSet(K) /\ Cardinality({lits[i] : i \in K}) = Cardinality(K)
    OBVIOUS
  <2>1. IsFiniteSet(K)
    BY <1>3, FS_Subset
  <2>2. \A i, j \in K : lits[i] = lits[j] => i = j
    BY <1>1
  <2> QED
    BY <2>1, <2>2, Renumbered
<1>7. \A K, N2 \in J : g[K] = g[N2] => K = N2
  <2> SUFFICES ASSUME NEW K \in J, NEW N2 \in J, g[K] = g[N2], NEW i \in K
               PROVE  i \in N2
    <3>1. \A K, N2 \in J : g[K] = g[N2] => \A i \in K : i \in N2
      OBVIOUS
    <3> HIDE DEF J, g
    <3> QED
      BY <3>1
  <2>1. g[K] = {-lits[x] : x \in K} /\ g[N2] = {-lits[x] : x \in N2}
    OBVIOUS
  <2>2. -lits[i] \in {-lits[x] : x \in N2}
    BY <2>1
  <2>3. PICK x \in N2 : -lits[i] = -lits[x]
    BY <2>2
  <2>4. i \in 1 .. k /\ x \in 1 .. k
    BY <1>4
  <2> QED
    BY <1>2, <2>3, <2>4
<1>8. clauses = {g[K] : K \in J}
  <2>1. ASSUME NEW S \in kSubset(u, {lits[i] : i \in 1 .. k})
        PROVE  \E K \in J : {-lit : lit \in S} = {-lits[i] : i \in K}
    <3> DEFINE K == {i \in 1 .. k : lits[i] \in S}
    <3>1. S \subseteq {lits[i] : i \in 1 .. k} /\ Cardinality(S) = u
      BY DEF kSubset
    <3>2. S = {lits[i] : i \in K}
      BY <3>1
    <3>3. K \in SUBSET (1 .. k)
      OBVIOUS
    <3> HIDE DEF K
    <3>4. Cardinality(K) = u
      BY <1>6, <3>1, <3>2, <3>3
    <3>5. K \in J
      BY <3>3, <3>4 DEF kSubset
    <3> QED
      BY <3>2, <3>5
  <2>2. ASSUME NEW K \in J
        PROVE  \E S \in kSubset(u, {lits[i] : i \in 1 .. k}) :
                  {-lit : lit \in S} = {-lits[i] : i \in K}
    <3> DEFINE S == {lits[i] : i \in K}
    <3>1. K \in SUBSET (1 .. k) /\ Cardinality(K) = u
      BY <1>4
    <3>2. Cardinality(S) = u /\ S \subseteq {lits[i] : i \in 1 .. k}
      BY <1>6, <3>1
    <3>3. {-lit : lit \in S} = {-lits[i] : i \in K}
      OBVIOUS
    <3> HIDE DEF S
    <3>4. S \in kSubset(u, {lits[i] : i \in 1 .. k})
      BY <3>2 DEF kSubset
    <3> QED
      BY <3>3, <3>4
  <2>3. \A K \in J : g[K] = {-lits[i] : i \in K}
    OBVIOUS
  <2>4. DOMAIN lits = 1 .. k
    BY <1>1
  <2>5. clauses = {{-lit : lit \in S} : S \in kSubset(u, {lits[i] : i \in 1 .. k})}
    BY <2>4
  <2> HIDE DEF J, g, clauses
  <2>6. \A c \in clauses : c \in {g[K] : K \in J}
    BY <2>1, <2>3, <2>5
  <2>7. \A K \in J : g[K] \in clauses
    BY <2>2, <2>3, <2>5
  <2> QED
    BY <2>6, <2>7
<1>9. /\ IsFiniteSet({g[K] : K \in J})
      /\ Cardinality({g[K] : K \in J}) = Cardinality(J)
  <2> HIDE DEF J, g
  <2> QED
    BY <1>5, <1>7, Renumbered
<1> HIDE DEF clauses, g
<1> QED
  BY <1>8, <1>9 DEF clauses, k

\* A progression's clauses.
PerAp(k, l) ==
    IF Degenerate(k, l) THEN 1 ELSE 2 * Cardinality(kSubset(Hi(k, l) + 1, 1 .. k))

\* The subsets encoder's clauses for one progression have this number.
LEMMA SubsetLines ==
    ASSUME NEW n \in Nat, NEW k \in Nat, k >= 2, NEW l \in Nat, l >= 1, NEW lits, NEW place,
           Distinct(lits, n), Len(lits) = k, \A i \in 1 .. k : lits[i] > 0
    PROVE  /\ Cardinality(ApClauses("subsets", n, k, l, lits, place)) = PerAp(k, l)
           /\ PerAp(k, l) \in Nat
<1> DEFINE b == Hi(k, l)
           u == b + 1
           count == Cardinality(kSubset(u, 1 .. k))
           Sub(s) == {{-lit : lit \in S} : S \in kSubset(u, {s[i] : i \in DOMAIN s})}
<1>1. b \in Nat /\ b >= 1
  <2>1. 0 \in Nat /\ k + 0 = k
    OBVIOUS
  <2> QED
    BY <2>1, Window
<1>2. Distinct(Negated(lits), n) /\ Len(Negated(lits)) = k
  BY NegatedDistinct
<1>3. /\ DOMAIN lits = 1 .. k /\ \A i \in 1 .. k : lits[i] \in Int
      /\ \A i \in 1 .. k : Negated(lits)[i] = -lits[i]
      /\ DOMAIN Negated(lits) = 1 .. k
  BY DEF Distinct, Negated
<1>4. /\ IsFiniteSet(Sub(lits)) /\ Cardinality(Sub(lits)) = count
      /\ IsFiniteSet(Sub(Negated(lits))) /\ Cardinality(Sub(Negated(lits))) = count
  <2>1. u \in Nat
    BY <1>1
  <2> HIDE DEF u
  <2> QED
    BY <1>2, <2>1, Sublists
<1>5. count \in Nat
  BY <1>4, FS_CardinalityType
<1> DEFINE clauses == ApClauses("subsets", n, k, l, lits, place)
<1> SUFFICES Cardinality(clauses) = PerAp(k, l) /\ PerAp(k, l) \in Nat
  OBVIOUS
<1>6. CASE Degenerate(k, l)
  <2>1. ApClauses("subsets", n, k, l, lits, place) = {{}}
    BY <1>6 DEF ApClauses
  <2>2. Cardinality({{}}) = 1
    BY FS_Singleton
  <2> QED
    BY <1>6, <2>1, <2>2 DEF PerAp
<1>7. CASE ~Degenerate(k, l)
  <2>1. clauses =
            SubsetsAtMost(lits, b, Base("subsets", n, k, b, place, 0))
              \cup SubsetsAtMost(Negated(lits), b, Base("subsets", n, k, b, place, 1))
    BY <1>7 DEF ApClauses, AtMost
  <2>2. PerAp(k, l) = 2 * count
    BY <1>7 DEF PerAp
  <2> HIDE DEF clauses
  <2>3. CASE b >= k
    <3>1. \A base : SubsetsAtMost(lits, b, base) = {} /\ SubsetsAtMost(Negated(lits), b, base) = {}
      <4>1. ~(b < 0)
        BY <1>1
      <4> HIDE DEF b
      <4> QED
        BY <1>2, <2>3, <4>1 DEF SubsetsAtMost
    <3>2. kSubset(u, 1 .. k) = {}
      <4> SUFFICES ASSUME NEW K \in SUBSET (1 .. k), Cardinality(K) = u PROVE FALSE
        BY DEF kSubset
      <4>1. IsFiniteSet(1 .. k) /\ Cardinality(1 .. k) = k
        BY FS_Interval
      <4>2. Cardinality(K) <= k
        BY <4>1, FS_Subset
      <4> QED
        BY <1>1, <2>3, <4>2
    <3>3. count = 0
      BY <3>2, FS_EmptySet
    <3>4. Cardinality({}) = 0 /\ {} \cup {} = {}
      BY FS_EmptySet
    <3>5. clauses = {}
      BY <2>1, <3>1
    <3> HIDE DEF count
    <3> QED
      BY <2>2, <3>3, <3>4, <3>5
  <2>4. CASE ~(b >= k)
    <3>1. \A base : /\ SubsetsAtMost(lits, b, base) = Sub(lits)
                    /\ SubsetsAtMost(Negated(lits), b, base) = Sub(Negated(lits))
      <4>1. ~(b < 0)
        BY <1>1
      <4> HIDE DEF b
      <4> QED
        BY <1>2, <2>4, <4>1 DEF SubsetsAtMost
    <3>2. Sub(lits) \cap Sub(Negated(lits)) = {}
      <4> SUFFICES ASSUME NEW c \in Sub(lits), c \in Sub(Negated(lits)) PROVE FALSE
        OBVIOUS
      <4>1. PICK S : /\ S \subseteq {lits[i] : i \in 1 .. k} /\ Cardinality(S) = u
                     /\ c = {-lit : lit \in S}
        BY <1>3 DEF kSubset
      <4>2. PICK T : /\ T \subseteq {Negated(lits)[i] : i \in 1 .. k}
                     /\ c = {-lit : lit \in T}
        BY <1>3 DEF kSubset
      <4>3. S # {}
        <5>1. Cardinality({}) = 0
          BY FS_EmptySet
        <5>2. u # 0
          BY <1>1
        <5> QED
          BY <4>1, <5>1, <5>2
      <4>4. PICK i \in 1 .. k : lits[i] \in S
        BY <4>1, <4>3
      <4>5. -lits[i] \in c
        BY <4>1, <4>4
      <4>6. PICK j \in 1 .. k : -lits[i] = -(-lits[j])
        BY <1>3, <4>2, <4>5
      <4> QED
        BY <1>3, <4>6
    <3>3. Cardinality(Sub(lits) \cup Sub(Negated(lits)))
            = Cardinality(Sub(lits)) + Cardinality(Sub(Negated(lits))) - Cardinality({})
      <4> HIDE DEF Sub
      <4> QED
        BY <1>4, <3>2, FS_Union
    <3>4. Cardinality({}) = 0
      BY FS_EmptySet
    <3> HIDE DEF Sub, count, b
    <3>5. Cardinality(Sub(lits) \cup Sub(Negated(lits))) = 2 * count
      BY <1>4, <1>5, <3>3, <3>4
    <3>6. clauses = Sub(lits) \cup Sub(Negated(lits))
      BY <2>1, <3>1
    <3>7. PerAp(k, l) = 2 * count /\ 2 * count \in Nat
      BY <1>5, <2>2
    <3> QED
      BY <3>5, <3>6, <3>7
  <2> QED
    BY <2>3, <2>4
<1> QED
  BY <1>6, <1>7

\* num_clauses_estimate, which decides whether the encoder is let through.
LEMMA Estimated ==
    ASSUME NEW n \in Nat, NEW k \in Nat, k >= 2, NEW l \in Nat, l >= 1, NumAps(n, k) \in Nat,
           PerAp(k, l) \in Nat
    PROVE  SubsetsEstimate(n, k, l) = NumAps(n, k) * PerAp(k, l)
<1> DEFINE u == Hi(k, l) + 1
           aps == NumAps(n, k)
           count == Cardinality(kSubset(u, 1 .. k))
<1>1. u \in Nat /\ (Degenerate(k, l) => ~(u > k))
  <2>1. UThreshold(k, l) \in Int
    BY DEF UThreshold
  <2> HIDE DEF UThreshold
  <2> QED
    BY <2>1, Window DEF Hi, Lo, Degenerate
<1>2. CASE Degenerate(k, l)
  BY <1>1, <1>2 DEF SubsetsEstimate, PerAp
<1>3. CASE ~Degenerate(k, l) /\ u > k
  <2>1. kSubset(u, 1 .. k) = {}
    <3> SUFFICES ASSUME NEW K \in SUBSET (1 .. k), Cardinality(K) = u PROVE FALSE
      BY DEF kSubset
    <3>1. IsFiniteSet(1 .. k) /\ Cardinality(1 .. k) = k
      BY FS_Interval
    <3>2. Cardinality(K) <= k
      BY <3>1, FS_Subset
    <3> QED
      BY <1>1, <1>3, <3>2
  <2>2. count = 0
    BY <2>1, FS_EmptySet
  <2> QED
    BY <1>3, <2>2 DEF SubsetsEstimate, PerAp
<1>4. CASE ~Degenerate(k, l) /\ ~(u > k)
  <2>1. SubsetsEstimate(n, k, l) = 2 * aps * count /\ PerAp(k, l) = 2 * count
    BY <1>4 DEF SubsetsEstimate, PerAp
  <2>2. count \in Nat
    <3>0. IsFiniteSet(1 .. k)
      BY FS_Interval
    <3>1. IsFiniteSet(SUBSET (1 .. k))
      BY <3>0, FS_SUBSET
    <3>2. kSubset(u, 1 .. k) \subseteq SUBSET (1 .. k)
      BY DEF kSubset
    <3> QED
      BY <3>1, <3>2, FS_Subset, FS_CardinalityType
  <2> HIDE DEF count
  <2>3. 2 * aps * count = aps * (2 * count)
    BY <2>2
  <2> QED
    BY <2>1, <2>3
<1> QED
  BY <1>2, <1>3, <1>4

-----------------------------------------------------------------------------
(* Where the stream stands.                                                *)

\* Of the progressions in their order, the next one is the place-th.
Stands(n, k, gap, first, place) ==
    /\ gap \in 1 .. LastDifference(n, k) + 1
    /\ first \in Nat \ {0}
    /\ gap <= LastDifference(n, k) => first <= LastStart(n, k, gap)
    /\ gap > LastDifference(n, k) => first = 1
    /\ place \in Nat
    /\ place = (Before(n, k, gap - 1) + first) - 1

\* The first progression is the first one.
LEMMA StandsFirst ==
    ASSUME NEW n \in Nat, NEW k \in Nat, k >= 2
    PROVE  Stands(n, k, 1, 1, 0) /\ NumAps(n, k) \in Nat
<1> DEFINE D == LastDifference(n, k)
<1>1. /\ D \in Nat /\ \A gap \in 1 .. D : LastStart(n, k, gap) \in Nat \ {0}
      /\ NumAps(n, k) = Before(n, k, D)
  BY Differences
<1>2. Before(n, k, 0) = 0 /\ Before(n, k, D) \in Int
  BY <1>1, BeforeStep
<1>3. Before(n, k, 0) <= NumAps(n, k)
  BY <1>1, Places
<1>4. Before(n, k, 1 - 1) = 0
  BY <1>2
<1>5. 1 <= D => 1 <= LastStart(n, k, 1)
  <2> HIDE DEF D
  <2> QED
    BY <1>1
<1> QED
  BY <1>1, <1>2, <1>3, <1>4, <1>5 DEF Stands

\* The one after it has the next place.
LEMMA StandsNext ==
    ASSUME NEW n \in Nat, NEW k \in Nat, k >= 2, NEW gap, NEW first, NEW place,
           Stands(n, k, gap, first, place), gap <= LastDifference(n, k)
    PROVE  /\ place + 1 <= NumAps(n, k)
           /\ first < LastStart(n, k, gap) => Stands(n, k, gap, first + 1, place + 1)
           /\ ~(first < LastStart(n, k, gap)) => Stands(n, k, gap + 1, 1, place + 1)
<1> DEFINE D == LastDifference(n, k)
           S == LastStart(n, k, gap)
           B == Before(n, k, gap - 1)
           C == Before(n, k, gap)
           total == NumAps(n, k)
<1>1. /\ gap \in 1 .. D /\ first \in Nat \ {0} /\ first <= S /\ place \in Nat
      /\ place = (B + first) - 1 /\ D \in Nat
  BY Differences DEF Stands
<1>2. S \in Nat \ {0}
  BY <1>1, Differences
<1>3. B \in Int /\ C \in Int /\ C = B + S
  <2> DEFINE e == gap - 1
  <2>1. e \in Nat /\ e + 1 = gap /\ gap \in Nat
    BY <1>1
  <2>2. \A z \in Nat : /\ Before(n, k, z) \in Int
                       /\ Before(n, k, z + 1) = Before(n, k, z) + LastStart(n, k, z + 1)
    BY BeforeStep
  <2>3. Before(n, k, gap) \in Int
    BY <2>1, <2>2
  <2> HIDE DEF e
  <2>4. Before(n, k, e) \in Int /\ Before(n, k, gap) = Before(n, k, e) + LastStart(n, k, gap)
    BY <2>1, <2>2
  <2> QED
    BY <2>3, <2>4 DEF e
<1>4. C <= total /\ total \in Nat
  <2>1. gap \in 0 .. D
    BY <1>1
  <2> QED
    BY <2>1, Places, StandsFirst
<1>5. \A e \in 1 .. D : LastStart(n, k, e) \in Nat \ {0}
  BY Differences
<1> HIDE DEF D, S, B, C, total
<1>6. place + 1 <= total
  BY <1>1, <1>2, <1>3, <1>4
<1>7. ASSUME first < S PROVE Stands(n, k, gap, first + 1, place + 1)
  <2>1. /\ gap \in 1 .. D + 1 /\ first + 1 \in Nat \ {0} /\ first + 1 <= S /\ ~(gap > D)
        /\ place + 1 \in Nat /\ place + 1 = (B + (first + 1)) - 1
    BY <1>1, <1>2, <1>3, <1>7
  <2> QED
    BY <2>1 DEF Stands, D, S, B
<1>8. ASSUME ~(first < S) PROVE Stands(n, k, gap + 1, 1, place + 1)
  <2>1. /\ gap + 1 \in 1 .. D + 1 /\ place + 1 \in Nat /\ place + 1 = (C + 1) - 1
        /\ (gap + 1) - 1 = gap
    BY <1>1, <1>2, <1>3, <1>8
  <2>2. gap + 1 <= D => 1 <= LastStart(n, k, gap + 1)
    <3>1. gap + 1 <= D => gap + 1 \in 1 .. D
      BY <1>1
    <3> QED
      BY <1>5, <3>1
  <2>3. 1 \in Nat \ {0}
    OBVIOUS
  <2> QED
    BY <2>1, <2>2, <2>3 DEF Stands, D, C
<1> QED
  BY <1>6, <1>7, <1>8 DEF S, total

\* After the last one, all of them have had a place.
LEMMA StandsLast ==
    ASSUME NEW n \in Nat, NEW k \in Nat, k >= 2, NEW gap, NEW first, NEW place,
           Stands(n, k, gap, first, place), ~(gap <= LastDifference(n, k))
    PROVE  place = NumAps(n, k)
<1> DEFINE D == LastDifference(n, k)
<1>1. D \in Nat /\ NumAps(n, k) = Before(n, k, D)
  BY Differences
<1>2. gap = D + 1 /\ first = 1 /\ gap - 1 = D
  BY <1>1 DEF Stands
<1>3. Before(n, k, D) \in Int
  BY <1>1, BeforeStep
<1> QED
  BY <1>1, <1>2, <1>3 DEF Stands

\* A constraint has a number of variables of its own.
LEMMA SizeCounts ==
    ASSUME NEW encoder \in EncoderNames, NEW k \in Nat, k >= 2, NEW l \in Nat, l >= 1
    PROVE  Size(encoder, k, l) \in Nat
<1> DEFINE b == Hi(k, l)
           f == [i \in 1 .. k |-> 1]
           lits == [i \in 1 .. k |-> i]
<1>1. b \in Int
  <2>1. 0 \in Nat /\ k + 0 = k
    OBVIOUS
  <2> QED
    BY <2>1, Window
<1>2. Coloring(f) /\ Len(f) = k
  BY DEF Coloring
<1>3. Distinct(lits, k) /\ Len(lits) = k
  <2>1. lits \in Seq(Int) /\ Len(lits) = k
    OBVIOUS
  <2> QED
    BY <2>1 DEF Distinct
<1> HIDE DEF f, lits, b
<1>4. AtMostSays(AtMost(encoder, lits, b, k), f, Number(lits, f, 1, Len(lits)), b, k,
                 BlockSize(encoder, k, b))
  <2>1. Distinct(lits, Len(f)) /\ Len(lits) >= 1 /\ Len(f) <= k
    BY <1>2, <1>3
  <2>2. AtMostSays(AtMost(encoder, lits, b, k), f, Number(lits, f, 1, Len(lits)), b, k,
                   BlockSize(encoder, Len(lits), b))
    BY <1>1, <1>2, <2>1, AtMostSound
  <2> QED
    BY <1>3, <2>2
<1> QED
  BY <1>4 DEF Size, AtMostSays, b

\* A progression's clauses have a number.
LEMMA PerApCounts ==
    ASSUME NEW k \in Nat, k >= 2, NEW l \in Nat, l >= 1
    PROVE  PerAp(k, l) \in Nat
<1> DEFINE lits == [i \in 1 .. k |-> i]
<1>1. Distinct(lits, k) /\ Len(lits) = k /\ \A i \in 1 .. k : lits[i] > 0
  <2>1. lits \in Seq(Int) /\ Len(lits) = k
    OBVIOUS
  <2> QED
    BY <2>1 DEF Distinct
<1> HIDE DEF lits
<1> QED
  BY <1>1, SubsetLines

-----------------------------------------------------------------------------
(* The stream's invariant.                                                 *)

Each == Size(job.encoder, job.k, job.l)

\* The clauses so far take up the blocks of the progressions so far, and a
\* coloring meets them exactly if none of those has ruled it out.
StreamInv ==
    /\ job \in Jobs
    /\ Stands(job.N, job.k, d, a, t)
    /\ lines \in Nat
    /\ pc \in {"build", "too large", "body", "written"}
    /\ pc = "written" => ~MoreAps
    /\ left \in SUBSET Colorings(job.N)
    /\ Formed(body, job.N, job.N, Room(t, Each))
    /\ Leave(body, job.N, left, job.N, Room(t, Each))
    /\ job.encoder = "subsets" =>
          lines = t * PerAp(job.k, job.l)
                    + (IF pc = "written" THEN Cardinality(SymmetryClauses) ELSE 0)

\* The colorings whose sum over a progression is below l.
Avoiding(n, l, ap) == {f \in Colorings(n) : Magnitude(ApSum(f, ap)) < l}

\* What an instance is made of, and what its header declares.
LEMMA JobFacts ==
    ASSUME StreamAssumption, job \in Jobs
    PROVE  /\ job.N \in Nat /\ job.k \in Nat /\ job.k >= 2 /\ job.l \in Nat /\ job.l >= 1
           /\ job.encoder \in EncoderNames
           /\ Each \in Nat
           /\ NumAps(job.N, job.k) \in Nat
           /\ Declared = job.N + Room(NumAps(job.N, job.k), Each)
<1>1. /\ job.N \in Nat /\ job.k \in Nat /\ job.k >= 2 /\ job.l \in Nat /\ job.l >= 1
      /\ job.encoder \in EncoderNames
  BY DEF StreamAssumption
<1>2. Each \in Nat
  BY <1>1, SizeCounts DEF Each
<1>3. NumAps(job.N, job.k) \in Nat
  BY <1>1, StandsFirst
<1>4. Declared = job.N + Room(NumAps(job.N, job.k), Each)
  BY <1>1, <1>3, DeclaredRoom DEF Declared, Each
<1> QED
  BY <1>1, <1>2, <1>3, <1>4

\* An empty body.
LEMMA StreamStart ==
    ASSUME StreamAssumption, Init
    PROVE  StreamInv
<1> DEFINE n == job.N
<1>1. /\ job \in Jobs /\ d = 1 /\ a = 1 /\ t = 0 /\ body = {} /\ lines = 0 /\ pc = "build"
      /\ left = Colorings(n)
  BY DEF Init, Colorings
<1>2. /\ n \in Nat /\ job.k \in Nat /\ job.k >= 2 /\ job.l \in Nat /\ job.l >= 1 /\ Each \in Nat
  BY <1>1, JobFacts
<1>3. Stands(n, job.k, d, a, t)
  BY <1>1, <1>2, StandsFirst
<1>4. Room(t, Each) = 0
  BY <1>1, <1>2, Rooms
<1>5. Formed(body, n, n, 0)
  BY <1>1, <1>2 DEF Formed, Confined, HornIn, Fills
<1>6. Leave(body, n, left, n, 0)
  <2>1. \A f : Models({}, {}, f)
    BY DEF Models
  <2>2. {} \in SUBSET (n + 1 .. n + 0)
    OBVIOUS
  <2> QED
    BY <1>1, <2>1, <2>2 DEF Rules, Leave
<1>7. PerAp(job.k, job.l) \in Nat => lines = t * PerAp(job.k, job.l) + 0
  BY <1>1
<1>8. PerAp(job.k, job.l) \in Nat
  BY <1>2, PerApCounts
<1> QED
  BY <1>1, <1>3, <1>4, <1>5, <1>6, <1>7, <1>8 DEF StreamInv

\* What build decides touches no clause.
LEMMA StreamBuild ==
    ASSUME StreamInv, Build
    PROVE  StreamInv' /\ left' = left
BY DEF StreamInv, Build, MoreAps, SymmetryClauses, Each

\* A progression's clauses reach the body, in blocks of their own.
LEMMA StreamProgression ==
    ASSUME StreamAssumption, StreamInv, EmitProgression
    PROVE  /\ StreamInv'
           /\ left' = left \cap Avoiding(job.N, job.l, Terms(a, d, job.k))
<1> DEFINE n == job.N
           k == job.k
           clauses == ApClauses(job.encoder, n, k, job.l, Ap(a, d, k), t)
           G == Avoiding(n, job.l, Terms(a, d, k))
           x == Room(t, Each)
           y == Room(t + 1, Each)
           low == Low(n, t, Each)
           extra == 2 * Each
<1>1. /\ job \in Jobs /\ Stands(n, k, d, a, t) /\ lines \in Nat /\ pc = "body"
      /\ left \in SUBSET Colorings(n) /\ Formed(body, n, n, x)
      /\ Leave(body, n, left, n, x)
  BY DEF StreamInv, EmitProgression
<1>2. /\ n \in Nat /\ k \in Nat /\ k >= 2 /\ job.l \in Nat /\ job.l >= 1
      /\ job.encoder \in EncoderNames /\ Each \in Nat /\ NumAps(n, k) \in Nat
      /\ Declared = n + Room(NumAps(n, k), Each)
  BY <1>1, JobFacts
<1>3. /\ d <= LastDifference(n, k) /\ d \in Nat \ {0} /\ a \in 1 .. LastStart(n, k, d)
      /\ t \in Nat
  <2>1. /\ d <= LastDifference(n, k) /\ d \in 1 .. LastDifference(n, k) + 1
        /\ a \in Nat \ {0} /\ a <= LastStart(n, k, d) /\ t \in Nat
    BY <1>1 DEF Stands, EmitProgression, MoreAps
  <2>2. LastStart(n, k, d) \in Nat /\ LastDifference(n, k) \in Nat
    <3>1. LastDifference(n, k) \in Nat
      BY <1>2, Differences
    <3>2. d \in 1 .. LastDifference(n, k)
      BY <2>1, <3>1
    <3> QED
      BY <1>2, <3>1, <3>2, Differences
  <2> QED
    BY <2>1, <2>2
<1>4. /\ x \in Nat /\ low = n + x /\ y = x + extra /\ extra \in Nat
  <2>1. extra \in Nat
    BY <1>2
  <2>2. Room(t, Each) \in Nat /\ Room(t + 1, Each) = Room(t, Each) + 2 * Each
    BY <1>2, <1>3, Rooms
  <2>3. \A m \in Nat : Low(m, t, Each) = m + Room(t, Each)
    BY <1>2, <1>3, Rooms
  <2> QED
    BY <1>2, <2>1, <2>2, <2>3
<1>5. \A f \in Colorings(n) :
          /\ Formed(clauses, n, low, extra)
          /\ Rules(clauses, f, Magnitude(ApSum(f, Terms(a, d, k))) < job.l, low, extra)
  <2> SUFFICES ASSUME NEW f \in Colorings(n)
               PROVE  /\ Formed(clauses, n, low, extra)
                      /\ Rules(clauses, f, Magnitude(ApSum(f, Terms(a, d, k))) < job.l, low, extra)
    OBVIOUS
  <2>1. Coloring(f) /\ Len(f) = n
    BY <1>2, IsColoring
  <2>2. Each = Size(job.encoder, k, job.l)
    BY DEF Each
  <2> QED
    BY <1>2, <1>3, <2>1, <2>2, ApRuled
<1>6. Formed(clauses, n, low, extra)
  <2>1. [i \in 1 .. n |-> 1] \in Colorings(n)
    BY DEF Colorings
  <2> QED
    BY <1>5, <2>1
<1>7. Leave(clauses, n, G, low, extra)
  BY <1>5 DEF Avoiding, Rules, Leave
<1>8. /\ Stands(n, k, d', a', t + 1) /\ t + 1 <= NumAps(n, k)
      /\ t' = t + 1 /\ job' = job
  <2>1. /\ t + 1 <= NumAps(n, k)
        /\ a < LastStart(n, k, d) => Stands(n, k, d, a + 1, t + 1)
        /\ ~(a < LastStart(n, k, d)) => Stands(n, k, d + 1, 1, t + 1)
    BY <1>1, <1>2, <1>3, StandsNext
  <2> QED
    BY <2>1 DEF EmitProgression, NextAp
<1>9. y <= Room(NumAps(n, k), Each) /\ y \in Nat /\ Room(NumAps(n, k), Each) \in Nat
  BY <1>2, <1>3, <1>4, <1>8, Rooms
<1> HIDE DEF clauses, G, x, y, low, extra
<1>10. /\ Cardinality(clauses) \in Nat
       /\ \A c \in clauses : \A lit \in c : lit \in -Declared .. Declared
  <2>1. low \in Nat /\ n <= low /\ low + extra <= Declared /\ Declared \in Nat
    BY <1>2, <1>4, <1>9
  <2>2. /\ Cardinality(clauses) \in Nat
        /\ \A c \in clauses : \A lit \in c : lit \in -(low + extra) .. low + extra
    BY <1>2, <1>4, <1>6, <2>1, FormedFinite
  <2>3. -(low + extra) .. low + extra \subseteq -Declared .. Declared
    BY <1>4, <2>1
  <2> QED
    BY <2>2, <2>3
<1>11. /\ body' = body \cup clauses /\ lines' = lines + Cardinality(clauses)
       /\ left' = {f \in left : Satisfiable(body \cup clauses, f)} /\ pc' = "body"
  <2>1. Write(clauses, "body")
    BY DEF EmitProgression, clauses
  <2> QED
    BY <1>10, <2>1 DEF Write
<1>12. /\ Formed(body \cup clauses, n, n, y)
       /\ Leave(body \cup clauses, n, left \cap G, n, y)
       /\ left' = left \cap G
  <2>1. G \in SUBSET Colorings(n)
    BY DEF G, Avoiding
  <2>2. /\ left \in SUBSET Colorings(n) /\ Formed(body, n, n, x) /\ Leave(body, n, left, n, x)
    BY <1>1
  <2>3. n \in Nat /\ x \in Nat /\ extra \in Nat /\ low = n + x /\ y = x + extra
    BY <1>2, <1>4
  <2> HIDE DEF n
  <2> DEFINE z == x + extra
             all == body \cup clauses
             both == left \cap G
  <2>4. Formed(all, n, n, z) /\ Leave(all, n, both, n, z) /\ Kept(left, all) = both
    <3>1. NextTo(body, clauses, n, left, G, x, extra)
      BY <1>6, <1>7, <2>1, <2>2, <2>3 DEF NextTo
    <3>2. z = x + extra /\ all = body \cup clauses /\ both = left \cap G
      OBVIOUS
    <3> HIDE DEF z, all, both
    <3> QED
      BY <3>1, <3>2, Added
  <2>5. left' = Kept(left, body \cup clauses)
    BY <1>11 DEF Kept
  <2> QED
    BY <2>3, <2>4, <2>5
<1>13. job.encoder = "subsets" => lines' = (t + 1) * PerAp(k, job.l) + 0
  <2> SUFFICES ASSUME job.encoder = "subsets"
               PROVE  lines' = (t + 1) * PerAp(k, job.l) + 0
    OBVIOUS
  <2> DEFINE lits == Ap(a, d, k)
             per == PerAp(k, job.l)
  <2>1. Distinct(lits, n) /\ Len(lits) = k /\ \A i \in 1 .. k : lits[i] > 0
    <3>1. [i \in 1 .. n |-> 1] \in Colorings(n)
      BY DEF Colorings
    <3>2. PICK f : Coloring(f) /\ Len(f) = n
      BY <1>2, <3>1, IsColoring
    <3> QED
      BY <1>2, <1>3, <3>2, ApTerms
  <2> HIDE DEF lits
  <2>2. Cardinality(clauses) = per /\ per \in Nat
    <3>1. clauses = ApClauses("subsets", n, k, job.l, lits, t)
      BY DEF clauses, lits
    <3> HIDE DEF per
    <3> QED
      BY <1>2, <2>1, <3>1, SubsetLines DEF per
  <2>3. lines = t * per + 0
    BY <1>1 DEF StreamInv
  <2> HIDE DEF per
  <2>4. (t + 1) * per = t * per + per /\ t * per \in Int
    BY <1>3, <2>2
  <2> QED
    BY <1>11, <2>2, <2>3, <2>4 DEF per
<1>14. StreamInv'
  <2>1. Each' = Each
    BY <1>8 DEF Each
  <2>2. left' \in SUBSET Colorings(n)
    BY <1>1, <1>12
  <2>3. lines' \in Nat
    BY <1>1, <1>10, <1>11
  <2>4. Leave(body', n, left', n, y)
    BY <1>11, <1>12
  <2> QED
    BY <1>1, <1>8, <1>11, <1>12, <1>13, <2>1, <2>2, <2>3, <2>4 DEF StreamInv, y
<1> QED
  BY <1>12, <1>14 DEF G

\* Then, if it is asked for, the clause that fixes the first position.
LEMMA StreamSymmetry ==
    ASSUME StreamAssumption, StreamInv, EmitSymmetry
    PROVE  /\ StreamInv'
           /\ left' = IF job.symmetryBreak /\ job.N >= 1 THEN {f \in left : f[1] = 1} ELSE left
<1> DEFINE n == job.N
           clauses == SymmetryClauses
           fixes == job.symmetryBreak /\ n >= 1
           G == IF fixes THEN {f \in Colorings(n) : f[1] = 1} ELSE Colorings(n)
           x == Room(t, Each)
           low == n + x
<1>1. /\ job \in Jobs /\ Stands(n, job.k, d, a, t) /\ lines \in Nat /\ pc = "body" /\ ~MoreAps
      /\ left \in SUBSET Colorings(n) /\ Formed(body, n, n, x)
      /\ Leave(body, n, left, n, x)
      /\ job.encoder = "subsets" => lines = t * PerAp(job.k, job.l) + 0
  BY DEF StreamInv, EmitSymmetry
<1>2. /\ n \in Nat /\ Each \in Nat /\ t \in Nat /\ NumAps(n, job.k) \in Nat
      /\ Declared = n + Room(NumAps(n, job.k), Each)
  BY <1>1, JobFacts DEF Stands
<1>3. x \in Nat /\ Declared \in Nat /\ n <= Declared
  <2>1. Room(t, Each) \in Nat
    BY <1>2, Rooms
  <2>2. Room(NumAps(n, job.k), Each) \in Nat
    BY <1>2, Rooms
  <2> QED
    BY <1>2, <2>1, <2>2
<1> HIDE DEF x
<1>4. clauses = IF fixes THEN {{1}} ELSE {}
  BY DEF SymmetryClauses
<1>5. Formed(clauses, n, low, 0)
  BY <1>2, <1>3, <1>4 DEF Formed, Confined, HornIn, Fills
<1>6. Leave(clauses, n, G, low, 0)
  <2> SUFFICES ASSUME NEW f \in Colorings(n) PROVE Rules(clauses, f, f \in G, low, 0)
    BY DEF Leave
  <2>1. Coloring(f) /\ Len(f) = n
    BY <1>2, IsColoring
  <2>2. {} \in SUBSET (low + 1 .. low + 0)
    OBVIOUS
  <2>3. CASE fixes
    <3>1. \A V : Meets(V, f, 1) <=> f[1] = 1
      BY <1>2, <2>1, <2>3 DEF Meets, Main, TrueUnder
    <3>2. \A V : Models(V, clauses, f) <=> f[1] = 1
      BY <1>4, <2>3, <3>1 DEF Models
    <3>3. f \in G <=> f[1] = 1
      BY <2>3
    <3> HIDE DEF clauses, G
    <3> QED
      BY <2>2, <3>2, <3>3 DEF Rules
  <2>4. CASE ~fixes
    <3>1. \A V : Models(V, clauses, f)
      BY <1>4, <2>4 DEF Models
    <3>2. f \in G
      BY <2>4
    <3> HIDE DEF clauses, G
    <3> QED
      BY <2>2, <3>1, <3>2 DEF Rules
  <2> QED
    BY <2>3, <2>4
<1>7. G \in SUBSET Colorings(n)
  OBVIOUS
<1>8. /\ Cardinality(clauses) \in Nat
      /\ \A c \in clauses : \A lit \in c : lit \in -Declared .. Declared
  <2>1. Cardinality({{1}}) = 1 /\ Cardinality({}) = 0
    BY FS_Singleton, FS_EmptySet
  <2>2. fixes => 1 \in -Declared .. Declared
    BY <1>2, <1>3
  <2> QED
    BY <1>4, <2>1, <2>2
<1> HIDE DEF clauses, G
<1>9. /\ body' = body \cup clauses /\ lines' = lines + Cardinality(clauses)
      /\ left' = {f \in left : Satisfiable(body \cup clauses, f)} /\ pc' = "written"
      /\ UNCHANGED <<job, d, a, t>>
  <2>1. Write(clauses, "written") /\ UNCHANGED <<job, d, a, t>>
    BY DEF EmitSymmetry, clauses
  <2> QED
    BY <1>8, <2>1 DEF Write
<1>10. /\ Formed(body \cup clauses, n, n, x)
       /\ Leave(body \cup clauses, n, left \cap G, n, x)
       /\ left' = left \cap G
  <2>1. x = x + 0 /\ 0 \in Nat
    BY <1>3
  <2> HIDE DEF low
  <2>2. low = n + x
    BY DEF low
  <2>3. n \in Nat /\ x \in Nat /\ Leave(body, n, left, n, x) /\ Formed(body, n, n, x)
        /\ left \in SUBSET Colorings(n)
    BY <1>1, <1>2, <1>3
  <2> HIDE DEF n
  <2> DEFINE z == x + 0
             all == body \cup clauses
             both == left \cap G
  <2>4. Formed(all, n, n, z) /\ Leave(all, n, both, n, z) /\ Kept(left, all) = both
    <3>1. NextTo(body, clauses, n, left, G, x, 0)
      BY <1>5, <1>6, <1>7, <2>1, <2>2, <2>3 DEF NextTo
    <3>2. z = x + 0 /\ all = body \cup clauses /\ both = left \cap G
      OBVIOUS
    <3> HIDE DEF z, all, both
    <3> QED
      BY <3>1, <3>2, Added
  <2>5. left' = Kept(left, body \cup clauses)
    BY <1>9 DEF Kept
  <2> QED
    BY <2>1, <2>4, <2>5
<1>11. left \cap G = IF fixes THEN {f \in left : f[1] = 1} ELSE left
  BY <1>1 DEF G
<1>12. StreamInv'
  <2>1. Each' = Each /\ MoreAps' = MoreAps /\ SymmetryClauses' = SymmetryClauses
    BY <1>9 DEF Each, MoreAps, SymmetryClauses
  <2>2. left' \in SUBSET Colorings(n)
    BY <1>1, <1>10
  <2>3. lines' \in Nat
    BY <1>1, <1>8, <1>9
  <2>4. Leave(body', n, left', n, x)
    BY <1>9, <1>10
  <2>5. job.encoder = "subsets" =>
            lines' = t * PerAp(job.k, job.l) + Cardinality(SymmetryClauses)
    <3> SUFFICES ASSUME job.encoder = "subsets"
                 PROVE  lines' = t * PerAp(job.k, job.l) + Cardinality(SymmetryClauses)
      OBVIOUS
    <3> DEFINE z == t * PerAp(job.k, job.l)
    <3>1. lines = z + 0
      BY <1>1
    <3>2. z \in Int
      BY <1>1, <1>2, <3>1, JobFacts, PerApCounts
    <3> HIDE DEF z
    <3> QED
      BY <1>9, <3>1, <3>2 DEF clauses, z
  <2> QED
    BY <1>1, <1>9, <1>10, <2>1, <2>2, <2>3, <2>4, <2>5 DEF StreamInv, x
<1> QED
  BY <1>10, <1>11, <1>12

\* Every step keeps the stream's invariant.
LEMMA StreamStep ==
    ASSUME StreamAssumption, StreamInv, [Next]_vars
    PROVE  StreamInv'
<1>1. CASE Build
  BY <1>1, StreamBuild
<1>2. CASE EmitProgression
  BY <1>2, StreamProgression
<1>3. CASE EmitSymmetry
  BY <1>3, StreamSymmetry
<1>4. CASE UNCHANGED vars
  BY <1>4 DEF StreamInv, vars, MoreAps, SymmetryClauses, Each
<1> QED
  BY <1>1, <1>2, <1>3, <1>4 DEF Next

\* What is written occurs in the blocks that the header declares, and only there.
LEMMA StreamExact ==
    ASSUME StreamAssumption, StreamInv
    PROVE  HeaderExact /\ TypeOK
<1> DEFINE n == job.N
           k == job.k
           x == Room(t, Each)
<1>1. /\ job \in Jobs /\ Stands(n, k, d, a, t) /\ lines \in Nat
      /\ pc \in {"build", "too large", "body", "written"}
      /\ Formed(body, n, n, x) /\ (pc = "written" => ~MoreAps)
      /\ job.encoder = "subsets" =>
            lines = t * PerAp(k, job.l)
                      + (IF pc = "written" THEN Cardinality(SymmetryClauses) ELSE 0)
  BY DEF StreamInv
<1>2. /\ n \in Nat /\ k \in Nat /\ k >= 2 /\ job.l \in Nat /\ job.l >= 1
      /\ Each \in Nat /\ NumAps(n, k) \in Nat /\ Declared = n + Room(NumAps(n, k), Each)
  BY <1>1, JobFacts
<1>3. TypeOK
  <2>1. LastDifference(n, k) \in Nat
    BY <1>2, Differences
  <2>2. d \in Nat \ {0} /\ a \in Nat \ {0} /\ t \in Nat
    <3>1. d \in 1 .. LastDifference(n, k) + 1 /\ a \in Nat \ {0} /\ t \in Nat
      BY <1>1 DEF Stands
    <3> QED
      BY <2>1, <3>1
  <2>3. HornIn(body, n)
    BY <1>1 DEF Formed
  <2> QED
    BY <1>1, <2>2, <2>3 DEF TypeOK
<1>4. pc # "refused"
  BY <1>1
<1>5. ASSUME pc = "written"
      PROVE  /\ Auxiliary(body) = n + 1 .. Declared
             /\ t = NumAps(n, k)
             /\ job.encoder = "subsets" =>
                   SubsetsEstimate(n, k, job.l) = lines - Cardinality(SymmetryClauses)
  <2>1. t = NumAps(n, k)
    <3>1. ~(d <= LastDifference(n, k))
      BY <1>1, <1>5 DEF MoreAps
    <3> QED
      BY <1>1, <1>2, <3>1, StandsLast
  <2>2. x \in Nat /\ Declared = n + x
    BY <1>2, <2>1, Rooms
  <2>3. Auxiliary(body) = n + 1 .. n + x
    <3>1. /\ \A c \in body : \A lit \in c :
                /\ lit \in Int
                /\ \/ lit \in -n .. n
                   \/ lit \in n + 1 .. n + x
                   \/ -lit \in n + 1 .. n + x
          /\ \A v \in n + 1 .. n + x : \E c \in body : v \in c \/ -v \in c
      BY <1>1 DEF Formed, Confined, Fills
    <3>2. ASSUME NEW v \in Auxiliary(body) PROVE v \in n + 1 .. n + x
      <4>1. CASE \E lit \in UNION body : lit > n /\ v = lit
        BY <1>2, <2>2, <3>1, <4>1
      <4>2. CASE \E lit \in UNION body : lit < -n /\ v = -lit
        BY <1>2, <2>2, <3>1, <4>2
      <4> QED
        BY <3>2, <4>1, <4>2 DEF Auxiliary
    <3>3. ASSUME NEW v \in n + 1 .. n + x PROVE v \in Auxiliary(body)
      <4>1. v \in Int /\ v > n /\ -v < -n
        BY <1>2, <2>2
      <4>2. PICK c \in body : v \in c \/ -v \in c
        BY <3>1
      <4>3. CASE v \in c
        BY <4>1, <4>3 DEF Auxiliary
      <4>4. CASE -v \in c
        <5>1. -v \in {y \in UNION body : y < -n} /\ v = -(-v)
          BY <4>1, <4>4
        <5> QED
          BY <5>1 DEF Auxiliary
      <4> QED
        BY <4>2, <4>3, <4>4
    <3> QED
      BY <3>2, <3>3
  <2>4. ASSUME job.encoder = "subsets"
        PROVE  SubsetsEstimate(n, k, job.l) = lines - Cardinality(SymmetryClauses)
    <3> DEFINE fixed == Cardinality(SymmetryClauses)
               z == t * PerAp(k, job.l)
    <3>1. fixed \in Nat
      <4>1. Cardinality({{1}}) = 1 /\ Cardinality({}) = 0
        BY FS_Singleton, FS_EmptySet
      <4> QED
        BY <4>1 DEF SymmetryClauses
    <3>2. PerAp(k, job.l) \in Nat
      BY <1>2, PerApCounts
    <3>3. SubsetsEstimate(n, k, job.l) = z /\ z \in Int
      BY <1>2, <2>1, <3>2, Estimated
    <3>4. lines = z + fixed
      BY <1>1, <1>5, <2>4
    <3> HIDE DEF fixed, z
    <3>5. z = lines - fixed
      BY <3>1, <3>3, <3>4
    <3> QED
      BY <3>3, <3>5 DEF fixed
  <2> QED
    BY <2>1, <2>2, <2>3, <2>4
<1>6. HeaderExact
  BY <1>4, <1>5 DEF HeaderExact
<1> QED
  BY <1>3, <1>6

\* The header promises what the body then is: no literal is refused, every
\* variable it declares occurs, the progressions are all there, and the size
\* that let the subsets encoder through was the true one.
THEOREM HeaderSound ==
    ASSUME StreamAssumption
    PROVE  Spec => [](HeaderExact /\ TypeOK)
<1>1. Init => StreamInv
  BY StreamStart
<1>2. StreamInv /\ [Next]_vars => StreamInv'
  BY StreamStep
<1>3. StreamInv => HeaderExact /\ TypeOK
  BY StreamExact
<1> QED
  BY <1>1, <1>2, <1>3, PTL DEF Spec

-----------------------------------------------------------------------------
(* The progressions that are still to come.                                *)

Remaining(n, k, gap, first) ==
    UNION {{Terms(x, e, k) : x \in (IF e = gap THEN first ELSE 1) .. LastStart(n, k, e)} :
              e \in gap .. LastDifference(n, k)}

\* The progression of difference e from x on is not before the one of gap from
\* first on.
Later(e, x, gap, first) == e > gap \/ (e = gap /\ x >= first)

\* A progression has one first term and one difference.
LEMMA TermsDiffer ==
    ASSUME NEW k \in Nat, k >= 2, NEW x \in Nat, NEW e \in Nat, e >= 1,
           NEW y \in Nat, NEW g \in Nat, g >= 1, Terms(x, e, k) = Terms(y, g, k)
    PROVE  x = y /\ e = g
<1>1. ASSUME NEW z \in Nat, NEW h \in Nat, h >= 1
      PROVE  /\ z \in Terms(z, h, k) /\ z + h \in Terms(z, h, k)
             /\ \A m \in Terms(z, h, k) : m = z \/ m >= z + h
  <2>1. z = z + 0 * h /\ z + h = z + 1 * h /\ 0 \in 0 .. k - 1 /\ 1 \in 0 .. k - 1
    BY <1>1
  <2>2. ASSUME NEW i \in 0 .. k - 1 PROVE z + i * h = z \/ z + i * h >= z + h
    <3>1. CASE i = 0
      BY <3>1
    <3>2. CASE i # 0
      <4>1. i \in Nat /\ i >= 1
        BY <3>2
      <4>2. 1 * h <= i * h
        BY <4>1, Times
      <4>3. i * h \in Int /\ 1 * h = h
        BY <4>1
      <4> QED
        BY <4>2, <4>3
    <3> QED
      BY <3>1, <3>2
  <2> QED
    BY <2>1, <2>2 DEF Terms
<1>2. x = y
  <2>1. x \in Terms(y, g, k) /\ y \in Terms(x, e, k)
    BY <1>1
  <2>2. (x = y \/ x >= y + g) /\ (y = x \/ y >= x + e)
    BY <1>1, <2>1
  <2> QED
    BY <2>2
<1>3. e = g
  <2>1. x + e \in Terms(y, g, k) /\ y + g \in Terms(x, e, k)
    BY <1>1
  <2>2. (x + e = y \/ x + e >= y + g) /\ (y + g = x \/ y + g >= x + e)
    BY <1>1, <2>1
  <2> QED
    BY <1>2, <2>2
<1> QED
  BY <1>2, <1>3

\* The progressions still to come, by difference and first term.
LEMMA RemainingMembers ==
    ASSUME NEW n \in Nat, NEW k \in Nat, k >= 2, NEW gap \in Nat \ {0}, NEW first \in Nat \ {0},
           NEW ap
    PROVE  ap \in Remaining(n, k, gap, first) <=>
              \E e \in 1 .. LastDifference(n, k) : \E x \in 1 .. LastStart(n, k, e) :
                  Later(e, x, gap, first) /\ ap = Terms(x, e, k)
<1> DEFINE D == LastDifference(n, k)
           S(e) == LastStart(n, k, e)
<1>1. D \in Nat /\ \A e \in 1 .. D : S(e) \in Nat \ {0}
  BY Differences
<1>2. ap \in Remaining(n, k, gap, first) <=>
         \E e \in gap .. D : \E x \in (IF e = gap THEN first ELSE 1) .. S(e) :
            ap = Terms(x, e, k)
  BY DEF Remaining
<1> HIDE DEF D, S
<1>3. ASSUME NEW e \in gap .. D, NEW x \in (IF e = gap THEN first ELSE 1) .. S(e)
      PROVE  e \in 1 .. D /\ x \in 1 .. S(e) /\ Later(e, x, gap, first)
  <2>1. e \in 1 .. D
    BY <1>1
  <2>2. S(e) \in Nat
    BY <1>1, <2>1
  <2> QED
    BY <1>1, <2>1, <2>2 DEF Later
<1>4. ASSUME NEW e \in 1 .. D, NEW x \in 1 .. S(e), Later(e, x, gap, first)
      PROVE  e \in gap .. D /\ x \in (IF e = gap THEN first ELSE 1) .. S(e)
  <2>1. S(e) \in Nat
    BY <1>1
  <2> QED
    BY <1>1, <1>4, <2>1 DEF Later
<1>5. ASSUME NEW e \in gap .. D, NEW x \in (IF e = gap THEN first ELSE 1) .. S(e),
             ap = Terms(x, e, k)
      PROVE  \E e2 \in 1 .. D : \E x2 \in 1 .. S(e2) :
                Later(e2, x2, gap, first) /\ ap = Terms(x2, e2, k)
  BY <1>3, <1>5
<1>6. ASSUME NEW e \in 1 .. D, NEW x \in 1 .. S(e), Later(e, x, gap, first),
             ap = Terms(x, e, k)
      PROVE  \E e2 \in gap .. D : \E x2 \in (IF e2 = gap THEN first ELSE 1) .. S(e2) :
                ap = Terms(x2, e2, k)
  BY <1>4, <1>6
<1> QED
  BY <1>2, <1>5, <1>6 DEF D, S

\* At the start they are all of them.
LEMMA RemainingStart ==
    ASSUME NEW n \in Nat, NEW k \in Nat, k >= 2
    PROVE  Remaining(n, k, 1, 1) = Aps(n, k)
<1>1. CASE n < k
  <2>1. LastDifference(n, k) = 0
    BY <1>1 DEF LastDifference
  <2>2. 1 .. 0 = {}
    OBVIOUS
  <2> QED
    BY <1>1, <2>1, <2>2 DEF Remaining, Aps
<1>2. CASE ~(n < k)
  <2> DEFINE D == (n - 1) \div (k - 1)
  <2>1. LastDifference(n, k) = D /\ \A e : (IF e = 1 THEN 1 ELSE 1) = 1
    BY <1>2 DEF LastDifference
  <2>2. \A e, x : Terms(x, e, k) = {x + i * e : i \in 0 .. k - 1}
    BY DEF Terms
  <2>3. \A e : LastStart(n, k, e) = n - (k - 1) * e
    BY DEF LastStart
  <2>4. Remaining(n, k, 1, 1) =
            UNION {{Terms(x, e, k) : x \in 1 .. LastStart(n, k, e)} : e \in 1 .. D}
    BY <2>1 DEF Remaining
  <2>5. Aps(n, k) = UNION {{{a0 + i * d0 : i \in 0 .. k - 1} : a0 \in 1 .. n - (k - 1) * d0} :
                             d0 \in 1 .. D}
    BY <1>2 DEF Aps
  <2> HIDE DEF D
  <2>6. UNION {{Terms(x, e, k) : x \in 1 .. LastStart(n, k, e)} : e \in 1 .. D}
          = UNION {{{a0 + i * d0 : i \in 0 .. k - 1} : a0 \in 1 .. n - (k - 1) * d0} :
                             d0 \in 1 .. D}
    BY DEF Terms, LastStart
  <2> QED
    BY <2>4, <2>5, <2>6
<1> QED
  BY <1>1, <1>2

\* One after the other is taken out of them.
LEMMA RemainingNext ==
    ASSUME NEW n \in Nat, NEW k \in Nat, k >= 2, NEW gap \in 1 .. LastDifference(n, k),
           NEW first \in 1 .. LastStart(n, k, gap), NEW gap2, NEW first2,
           IF first < LastStart(n, k, gap) THEN gap2 = gap /\ first2 = first + 1
           ELSE gap2 = gap + 1 /\ first2 = 1
    PROVE  /\ Terms(first, gap, k) \in Remaining(n, k, gap, first)
           /\ Remaining(n, k, gap2, first2)
                = Remaining(n, k, gap, first) \ {Terms(first, gap, k)}
<1> DEFINE D == LastDifference(n, k)
           S(e) == LastStart(n, k, e)
<1>1. D \in Nat /\ \A e \in 1 .. D : S(e) \in Nat \ {0}
  BY Differences
<1>2. /\ gap \in 1 .. D /\ first \in 1 .. S(gap)
      /\ IF first < S(gap) THEN gap2 = gap /\ first2 = first + 1
         ELSE gap2 = gap + 1 /\ first2 = 1
  OBVIOUS
<1>3. /\ gap \in Nat \ {0} /\ first \in Nat \ {0} /\ gap2 \in Nat \ {0} /\ first2 \in Nat \ {0}
  <2> HIDE DEF D, S
  <2>1. S(gap) \in Nat
    BY <1>1, <1>2
  <2> QED
    BY <1>1, <1>2, <2>1
<1>4. \A ap : /\ ap \in Remaining(n, k, gap, first) <=>
                    \E e \in 1 .. D : \E x \in 1 .. S(e) :
                        Later(e, x, gap, first) /\ ap = Terms(x, e, k)
              /\ ap \in Remaining(n, k, gap2, first2) <=>
                    \E e \in 1 .. D : \E x \in 1 .. S(e) :
                        Later(e, x, gap2, first2) /\ ap = Terms(x, e, k)
  BY <1>3, RemainingMembers
<1> HIDE DEF D, S
<1>5. ASSUME NEW e \in 1 .. D, NEW x \in 1 .. S(e)
      PROVE  Later(e, x, gap2, first2) <=> Later(e, x, gap, first) /\ ~(e = gap /\ x = first)
  <2>1. S(e) \in Nat /\ S(gap) \in Nat /\ e \in Nat /\ x \in Nat /\ x <= S(e)
    BY <1>1, <1>2
  <2> QED
    BY <1>2, <1>3, <2>1 DEF Later
<1>6. ASSUME NEW e \in 1 .. D, NEW x \in 1 .. S(e)
      PROVE  Terms(x, e, k) = Terms(first, gap, k) <=> e = gap /\ x = first
  <2>1. e \in Nat /\ e >= 1 /\ x \in Nat /\ gap \in Nat /\ gap >= 1 /\ first \in Nat
    <3>1. S(e) \in Nat
      BY <1>1
    <3> QED
      BY <1>1, <1>3, <3>1
  <2> QED
    BY <2>1, TermsDiffer
<1>7. Terms(first, gap, k) \in Remaining(n, k, gap, first)
  <2>1. Later(gap, first, gap, first)
    BY <1>3 DEF Later
  <2> QED
    BY <1>2, <1>4, <2>1
<1>8. ASSUME NEW ap
      PROVE  ap \in Remaining(n, k, gap2, first2) <=>
                ap \in Remaining(n, k, gap, first) /\ ap # Terms(first, gap, k)
  <2>1. ASSUME ap \in Remaining(n, k, gap2, first2)
        PROVE  ap \in Remaining(n, k, gap, first) /\ ap # Terms(first, gap, k)
    <3>1. PICK e \in 1 .. D : \E x \in 1 .. S(e) :
                        Later(e, x, gap2, first2) /\ ap = Terms(x, e, k)
      BY <1>4, <2>1
    <3>2. PICK x \in 1 .. S(e) : Later(e, x, gap2, first2) /\ ap = Terms(x, e, k)
      BY <3>1
    <3>3. Later(e, x, gap, first) /\ ~(e = gap /\ x = first)
      BY <1>5, <3>2
    <3> QED
      BY <1>4, <1>6, <3>2, <3>3
  <2>2. ASSUME ap \in Remaining(n, k, gap, first), ap # Terms(first, gap, k)
        PROVE  ap \in Remaining(n, k, gap2, first2)
    <3>1. PICK e \in 1 .. D : \E x \in 1 .. S(e) :
                        Later(e, x, gap, first) /\ ap = Terms(x, e, k)
      BY <1>4, <2>2
    <3>2. PICK x \in 1 .. S(e) : Later(e, x, gap, first) /\ ap = Terms(x, e, k)
      BY <3>1
    <3>3. Later(e, x, gap2, first2)
      BY <1>5, <1>6, <2>2, <3>2
    <3> QED
      BY <1>4, <3>2, <3>3
  <2> QED
    BY <2>1, <2>2
<1> QED
  BY <1>7, <1>8

\* At the end there are none.
LEMMA RemainingLast ==
    ASSUME NEW n \in Nat, NEW k \in Nat, k >= 2, NEW gap \in Nat, NEW first,
           ~(gap <= LastDifference(n, k))
    PROVE  Remaining(n, k, gap, first) = {}
<1>1. LastDifference(n, k) \in Nat
  BY Differences
<1>2. gap .. LastDifference(n, k) = {}
  BY <1>1
<1> QED
  BY <1>2 DEF Remaining

-----------------------------------------------------------------------------
(* The stream implements Avoidance.                                        *)

Unread == Remaining(job.N, job.k, d, a)

Question == [N |-> job.N, k |-> job.k, l |-> job.l,
             symmetryBreak |-> job.symmetryBreak /\ job.N >= 1]

\* The state of Avoidance, under the refinement mapping.
LEMMA Mapped ==
    /\ Meaning!vars = <<Question, Unread, left>>
    /\ Meaning!Init <=> /\ Question \in {[N |-> j.N, k |-> j.k, l |-> j.l,
                                symmetryBreak |-> j.symmetryBreak /\ j.N >= 1] : j \in Jobs}
                        /\ Unread = Aps(Question.N, Question.k)
                        /\ left = Colorings(Question.N)
    /\ Meaning!BreakSymmetry <=> /\ Question.symmetryBreak
                                 /\ Unread = {}
                                 /\ left' = {f \in left : f[1] = 1}
                                 /\ Question' = Question /\ Unread' = Unread
    /\ \A ap : Meaning!Rule(ap) <=>
                  /\ Unread' = Unread \ {ap}
                  /\ left' = {f \in left : Magnitude(ApSum(f, ap)) < Question.l}
                  /\ Question' = Question
<1>1. Meaning!vars = <<Question, Unread, left>>
  BY DEF Meaning!vars, Question, Unread, Remaining, Terms
<1>2. Meaning!Init <=> /\ Question \in {[N |-> j.N, k |-> j.k, l |-> j.l,
                                symmetryBreak |-> j.symmetryBreak /\ j.N >= 1] : j \in Jobs}
                        /\ Unread = Aps(Question.N, Question.k)
                        /\ left = Colorings(Question.N)
  BY DEF Meaning!Init, Meaning!Aps, Meaning!Colorings, Question, Unread, Remaining, Terms, Aps,
         Colorings
<1>3. Meaning!BreakSymmetry <=> /\ Question.symmetryBreak
                                 /\ Unread = {}
                                 /\ left' = {f \in left : f[1] = 1}
                                 /\ Question' = Question /\ Unread' = Unread
  BY DEF Meaning!BreakSymmetry, Question, Unread, Remaining, Terms
<1>4. ASSUME NEW ap
      PROVE  Meaning!Rule(ap) <=>
                  /\ Unread' = Unread \ {ap}
                  /\ left' = {f \in left : Magnitude(ApSum(f, ap)) < Question.l}
                  /\ Question' = Question
  <2>1. \A f : Meaning!Magnitude(Meaning!ApSum(f, ap)) = Magnitude(ApSum(f, ap))
    <3>1. \A S : Meaning!Cardinality(S) = Cardinality(S)
      BY DEF Meaning!Cardinality, Cardinality
    <3> QED
      BY <3>1 DEF Meaning!Magnitude, Meaning!ApSum, Magnitude, ApSum
  <2>2. Meaning!Rule(ap) <=>
                  /\ Unread' = Unread \ {ap}
                  /\ left' = {f \in left : Meaning!Magnitude(Meaning!ApSum(f, ap)) < Question.l}
                  /\ Question' = Question
    BY DEF Meaning!Rule, Question, Unread, Remaining, Terms
  <2> QED
    BY <2>1, <2>2
<1> QED
  BY <1>1, <1>2, <1>3, <1>4

\* The stream starts where Avoidance does.
LEMMA MeaningStart ==
    ASSUME StreamAssumption, Init
    PROVE  Meaning!Init
<1>1. /\ job \in Jobs /\ d = 1 /\ a = 1 /\ left = Colorings(job.N)
  BY DEF Init, Colorings
<1>2. job.N \in Nat /\ job.k \in Nat /\ job.k >= 2
  BY <1>1, JobFacts
<1>3. Question.N = job.N /\ Question.k = job.k
  BY DEF Question
<1>4. Unread = Aps(Question.N, Question.k)
  BY <1>1, <1>2, <1>3, RemainingStart DEF Unread
<1>5. Question \in {[N |-> j.N, k |-> j.k, l |-> j.l,
                     symmetryBreak |-> j.symmetryBreak /\ j.N >= 1] : j \in Jobs}
  BY <1>1 DEF Question
<1> QED
  BY <1>1, <1>3, <1>4, <1>5, Mapped

\* Every step of the stream is one of Avoidance, or none.
LEMMA MeaningStep ==
    ASSUME StreamAssumption, StreamInv, [Next]_vars
    PROVE  [Meaning!Next]_(Meaning!vars)
<1> DEFINE n == job.N
           k == job.k
<1>1. /\ job \in Jobs /\ Stands(n, k, d, a, t) /\ left \in SUBSET Colorings(n)
  BY DEF StreamInv
<1>2. /\ n \in Nat /\ k \in Nat /\ k >= 2
  BY <1>1, JobFacts
<1>3. Question.l = job.l /\ (Question.symmetryBreak <=> job.symmetryBreak /\ n >= 1)
  BY DEF Question
<1>4. CASE Build
  <2>1. UNCHANGED <<Question, Unread, left>>
    BY <1>4 DEF Build, Question, Unread
  <2> QED
    BY <2>1 DEF Meaning!vars, Question, Unread, Remaining, Terms
<1>5. CASE EmitProgression
  <2>0. PICK ap : ap = Terms(a, d, k)
    OBVIOUS
  <2>1. left' = left \cap Avoiding(n, job.l, ap)
    BY <1>5, <2>0, StreamProgression
  <2>2. left' = {f \in left : Magnitude(ApSum(f, ap)) < Question.l}
    BY <1>1, <1>3, <2>1 DEF Avoiding
  <2>3. /\ d <= LastDifference(n, k) /\ NextAp /\ job' = job
    BY <1>5 DEF EmitProgression, MoreAps
  <2>4. d \in 1 .. LastDifference(n, k) /\ a \in 1 .. LastStart(n, k, d)
    <3>1. LastDifference(n, k) \in Nat
      BY <1>2, Differences
    <3>2. d \in 1 .. LastDifference(n, k) /\ a \in Nat \ {0} /\ a <= LastStart(n, k, d)
      BY <1>1, <2>3, <3>1 DEF Stands
    <3>3. LastStart(n, k, d) \in Nat
      BY <1>2, <3>2, Differences
    <3> QED
      BY <3>2, <3>3
  <2>5. IF a < LastStart(n, k, d) THEN d' = d /\ a' = a + 1 ELSE d' = d + 1 /\ a' = 1
    BY <2>3 DEF NextAp
  <2>6. ap \in Unread /\ Unread' = Unread \ {ap}
    <3>1. /\ Terms(a, d, k) \in Remaining(n, k, d, a)
          /\ Remaining(n, k, d', a') = Remaining(n, k, d, a) \ {Terms(a, d, k)}
      <4> HIDE DEF n, k
      <4> QED
        BY <1>2, <2>4, <2>5, RemainingNext
    <3>2. Unread' = Remaining(n, k, d', a')
      BY <2>3 DEF Unread
    <3> QED
      BY <2>0, <3>1, <3>2 DEF Unread
  <2>7. Question' = Question
    BY <2>3 DEF Question
  <2>8. Meaning!Rule(ap)
    BY <2>2, <2>6, <2>7, Mapped
  <2>9. \E gone \in Unread : Meaning!Rule(gone)
    BY <2>6, <2>8
  <2> QED
    BY <2>9 DEF Meaning!Next, Unread, Remaining, Terms
<1>6. CASE EmitSymmetry
  <2>1. left' = IF job.symmetryBreak /\ n >= 1 THEN {f \in left : f[1] = 1} ELSE left
    BY <1>6, StreamSymmetry
  <2>2. UNCHANGED <<job, d, a>> /\ ~(d <= LastDifference(n, k))
    BY <1>6 DEF EmitSymmetry, MoreAps
  <2>3. Question' = Question /\ Unread' = Unread
    BY <2>2 DEF Question, Unread
  <2>4. CASE job.symmetryBreak /\ n >= 1
    <3>1. d \in Nat
      <4>1. LastDifference(n, k) \in Nat
        BY <1>2, Differences
      <4> QED
        BY <1>1, <4>1 DEF Stands
    <3>2. Unread = {}
      BY <1>2, <2>2, <3>1, RemainingLast DEF Unread
    <3>3. Meaning!BreakSymmetry
      BY <1>3, <2>1, <2>3, <2>4, <3>2, Mapped
    <3> QED
      BY <3>3 DEF Meaning!Next
  <2>5. CASE ~(job.symmetryBreak /\ n >= 1)
    BY <2>1, <2>3, <2>5 DEF Meaning!vars, Question, Unread, Remaining, Terms
  <2> QED
    BY <2>4, <2>5
<1>7. CASE UNCHANGED vars
  <2>1. UNCHANGED <<Question, Unread, left>>
    BY <1>7 DEF vars, Question, Unread
  <2> QED
    BY <2>1 DEF Meaning!vars, Question, Unread, Remaining, Terms
<1> QED
  BY <1>4, <1>5, <1>6, <1>7 DEF Next

\* Whatever the encoder, its clauses for one progression after the other rule
\* out the colorings that the definition of avoidance rules out, and no other.
THEOREM StreamMeans ==
    ASSUME StreamAssumption
    PROVE  Spec => MeaningSpec
<1>1. Init => StreamInv
  BY StreamStart
<1>2. StreamInv /\ [Next]_vars => StreamInv'
  BY StreamStep
<1>3. Init => Meaning!Init
  BY MeaningStart
<1>4. StreamInv /\ [Next]_vars => [Meaning!Next]_(Meaning!vars)
  BY MeaningStep
<1> QED
  BY <1>1, <1>2, <1>3, <1>4, PTL DEF Spec, MeaningSpec, Meaning!Spec
=============================================================================
