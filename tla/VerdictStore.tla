---------------------------- MODULE VerdictStore ----------------------------
(***************************************************************************)
(* What the verdicts directory of a wave promises to the programs that     *)
(* read it, whatever kills, retries or second drivers do to the processes  *)
(* that fill it: each cube holds either no verdict or one whole verdict,   *)
(* a verdict is replaced in one step, an answer in it is the right one,    *)
(* and only verdicts that decide nothing are ever thrown away.             *)
(***************************************************************************)
EXTENDS Verdict

VARIABLE reg    \* reg[c]: what read_verdict returns for cube c

Init == reg = [c \in Cubes |-> None]

Record(c) ==
    \E v \in VerdictRec :
        /\ Faithful(v, c)
        /\ reg' = [reg EXCEPT ![c] = v]

\* crash_cleanup.py forgets verdicts that are not results.
Discard ==
    \E S \in SUBSET Cubes :
        /\ \A c \in S : ~Decided(reg[c])
        /\ reg' = [c \in Cubes |-> IF c \in S THEN None ELSE reg[c]]

Next == Discard \/ \E c \in Cubes : Record(c)

Spec == Init /\ [][Next]_reg
=============================================================================
