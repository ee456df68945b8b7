----------------------------- MODULE Avoidance -----------------------------
(***************************************************************************)
(* The question an instance stands for: which colorings of 1 .. N avoid    *)
(* (k, l)?  Progressions rule colorings out, in any order, and symmetry    *)
(* breaking keeps one of each pair f, -f.  This is what the clauses that   *)
(* an encoder emits have to amount to, one progression after the other.    *)
(***************************************************************************)
EXTENDS Evaluator

CONSTANT Questions  \* records of N, k, l and symmetryBreak

VARIABLES
    question,
    unread,     \* the progressions that have not been heard
    alive       \* the colorings that nothing has ruled out

vars == <<question, unread, alive>>

Colorings(n) == [1 .. n -> {1, -1}]

Init ==
    /\ question \in Questions
    /\ unread = Aps(question.N, question.k)
    /\ alive = Colorings(question.N)

Rule(ap) ==
    /\ unread' = unread \ {ap}
    /\ alive' = {f \in alive : Magnitude(ApSum(f, ap)) < question.l}
    /\ UNCHANGED question

BreakSymmetry ==
    /\ question.symmetryBreak
    /\ unread = {}
    /\ alive' = {f \in alive : f[1] = 1}
    /\ UNCHANGED <<question, unread>>

Next == BreakSymmetry \/ \E ap \in unread : Rule(ap)

Spec == Init /\ [][Next]_vars
=============================================================================
