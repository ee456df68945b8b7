---------------------------- MODULE AtMostCheck ----------------------------
(***************************************************************************)
(* The three at_most constraints against counting, over every short        *)
(* sequence of literals and every bound: build only ever asks for bounds   *)
(* of half a progression and more, at_most is written for any.  The values *)
(* of the literals arrive one at a time.                                   *)
(***************************************************************************)
EXTENDS Encoders

CONSTANT MaxWidth

VARIABLES encoder, bound, values

vars == <<encoder, bound, values>>

Init ==
    /\ encoder \in EncoderNames
    /\ bound \in -1 .. MaxWidth + 1
    /\ values = <<>>

Decide(value) ==
    /\ Len(values) < MaxWidth
    /\ values' = Append(values, value)
    /\ UNCHANGED <<encoder, bound>>

Next == \E value \in {1, -1} : Decide(value)

Spec == Init /\ [][Next]_vars

Width == Len(values)
Literals == [i \in 1 .. Width |-> i]
Plus(n) == Cardinality({i \in 1 .. n : values[i] = 1})

\* at_most is satisfiable in its auxiliary variables exactly when at most
\* bound of its literals are true, for the literals of a progression as for
\* their negations, and it stays inside the block that block_size reserves.
CountsExactly ==
    Width > 0 =>
        LET clauses  == AtMost(encoder, Literals, bound, Width)
            negative == AtMost(encoder, Negated(Literals), bound, Width)
        IN  /\ Satisfiable(clauses, values) <=> Plus(Width) <= bound
            /\ Satisfiable(negative, values) <=> Width - Plus(Width) <= bound
            /\ HornIn(clauses, Width)
            /\ {lit \in UNION clauses : lit > Width} \subseteq
                  Width + 1 .. Width + BlockSize(encoder, Width, bound)
=============================================================================
