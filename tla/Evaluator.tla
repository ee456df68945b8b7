------------------------------ MODULE Evaluator ------------------------------
(***************************************************************************)
(* nk2/aps.py and nk2/evaluator.py: the arithmetic progressions inside     *)
(* 1 .. N and the exact decision, straight from the definition, whether a  *)
(* coloring avoids (k, l).  A coloring is a sequence over {1, -1}.         *)
(***************************************************************************)
EXTENDS Integers, Sequences, FiniteSets

\* iter_aps: the terms of every k-AP in 1 .. n, as sets.
Aps(n, k) ==
    IF n < k THEN {}
    ELSE UNION {{{a + i * d : i \in 0 .. k - 1} : a \in 1 .. n - (k - 1) * d} :
                    d \in 1 .. (n - 1) \div (k - 1)}

\* A sum of +1 and -1 is the number of the former less that of the latter.
ApSum(f, ap) ==
    Cardinality({n \in ap : f[n] = 1}) - Cardinality({n \in ap : f[n] = -1})

Magnitude(x) == IF x < 0 THEN -x ELSE x

\* avoids: no progression reaches a sum of l; vacuously true without any.
Avoids(f, k, l) == \A ap \in Aps(Len(f), k) : Magnitude(ApSum(f, ap)) < l
=============================================================================
