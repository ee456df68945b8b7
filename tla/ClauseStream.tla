---------------------------- MODULE ClauseStream ----------------------------
(***************************************************************************)
(* nk2/solve.py build_instance: an encoder's clauses go one progression    *)
(* after the other into dimacs.write_cnf, whose header is promised before  *)
(* the first clause is known and which refuses a literal beyond it.        *)
(***************************************************************************)
EXTENDS Encoders, Evaluator

CONSTANTS
    Jobs,       \* records of N, k, l, symmetryBreak and encoder
    MaxClauses  \* MAX_CLAUSES of the subsets encoder

\* Spec demands of an instance that it is about sums of at least two terms.
StreamAssumption ==
    \A j \in Jobs : /\ j.N \in Nat
                    /\ j.k \in Nat /\ j.k >= 2
                    /\ j.l \in Nat /\ j.l >= 1
                    /\ j.encoder \in EncoderNames

VARIABLES
    job,        \* the instance being built
    d, a,       \* difference and first term of the next progression
    t,          \* its index
    body,       \* the clauses written to the temporary body
    lines,      \* how many clauses that was
    left,       \* for the properties: the colorings those leave possible
    pc

vars == <<job, d, a, t, body, lines, left, pc>>

Init ==
    /\ job \in Jobs
    /\ d = 1
    /\ a = 1
    /\ t = 0
    /\ body = {}
    /\ lines = 0
    /\ left = [1 .. job.N -> {1, -1}]
    /\ pc = "build"

\* The variables that the header will declare.
Declared == NumVars(job.encoder, job.N, job.k, job.l)

\* encode_subsets.build refuses what would be too large; nothing is written.
Build ==
    /\ pc = "build"
    /\ pc' = IF /\ job.encoder = "subsets"
                /\ SubsetsEstimate(job.N, job.k, job.l) > MaxClauses
             THEN "too large" ELSE "body"
    /\ UNCHANGED <<job, d, a, t, body, lines, left>>

\* write_cnf: clauses reach the body unless a literal is out of range.
Write(clauses, next) ==
    IF \A c \in clauses : \A lit \in c : lit \in -Declared .. Declared
    THEN /\ body' = body \cup clauses
         /\ lines' = lines + Cardinality(clauses)
         /\ left' = {f \in left : Satisfiable(body', f)}
         /\ pc' = next
    ELSE /\ pc' = "refused"
         /\ UNCHANGED <<body, lines, left>>

MoreAps == d <= LastDifference(job.N, job.k)

\* Seeded bug: the next difference starts at the second term.
BugNextAp ==
    IF a < LastStart(job.N, job.k, d)
    THEN a' = a + 1 /\ d' = d
    ELSE a' = 2 /\ d' = d + 1

\* iter_aps' nested loops.
NextAp ==
    IF a < LastStart(job.N, job.k, d)
    THEN a' = a + 1 /\ d' = d
    ELSE a' = 1 /\ d' = d + 1

EmitProgression ==
    /\ pc = "body"
    /\ MoreAps
    /\ Write(ApClauses(job.encoder, job.N, job.k, job.l, Ap(a, d, job.k), t), "body")
    /\ NextAp
    /\ t' = t + 1
    /\ UNCHANGED job

\* Seeded bug: the last position is fixed as well.
BugSymmetryClauses == IF job.symmetryBreak /\ job.N >= 1 THEN {{1}, {job.N}} ELSE {}

SymmetryClauses == IF job.symmetryBreak /\ job.N >= 1 THEN {{1}} ELSE {}

EmitSymmetry ==
    /\ pc = "body"
    /\ ~MoreAps
    /\ Write(SymmetryClauses, "written")
    /\ UNCHANGED <<job, d, a, t>>

Next == Build \/ EmitProgression \/ EmitSymmetry

Spec == Init /\ [][Next]_vars

-----------------------------------------------------------------------------
(* Properties.                                                             *)

Auxiliary(clauses) == {lit \in UNION clauses : lit > job.N}
                          \cup {-lit : lit \in {x \in UNION clauses : x < -job.N}}

\* The state has the shape the program gives it, and the clauses the form
\* under which unit propagation decides (see Encoders).
TypeOK ==
    /\ job \in Jobs
    /\ d \in Nat \ {0} /\ a \in Nat \ {0} /\ t \in Nat
    /\ lines \in Nat
    /\ pc \in {"build", "too large", "body", "refused", "written"}
    /\ HornIn(body, job.N)

\* num_vars and num_clauses_estimate are closed formulas, evaluated before a
\* clause is there.  They agree with what is then emitted: no literal is ever
\* beyond the header, the header declares no variable that does not occur, and
\* the subsets encoder was let through on the true size of its instance.
HeaderExact ==
    /\ pc # "refused"
    /\ pc = "written" =>
          /\ Auxiliary(body) = job.N + 1 .. Declared
          /\ t = NumAps(job.N, job.k)
          /\ job.encoder = "subsets" =>
                SubsetsEstimate(job.N, job.k, job.l)
                    = lines - Cardinality(SymmetryClauses)

\* Every encoder, one progression after the other, rules out the colorings
\* that the definition of avoidance rules out, and no other.
Meaning == INSTANCE Avoidance WITH
    Questions <- {[N |-> j.N, k |-> j.k, l |-> j.l,
                   symmetryBreak |-> j.symmetryBreak /\ j.N >= 1] : j \in Jobs},
    question <- [N |-> job.N, k |-> job.k, l |-> job.l,
                 symmetryBreak |-> job.symmetryBreak /\ job.N >= 1],
    unread <- UNION {{{x + i * e : i \in 0 .. job.k - 1} :
                         x \in (IF e = d THEN a ELSE 1) .. LastStart(job.N, job.k, e)} :
                        e \in d .. LastDifference(job.N, job.k)},
    alive <- left

MeaningSpec == Meaning!Spec
=============================================================================
