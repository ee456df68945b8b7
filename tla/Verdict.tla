------------------------------ MODULE Verdict ------------------------------
(***************************************************************************)
(* One verdict of one cube, as scratch/verdict_io.py reads and writes it.  *)
(* Shared by every module that looks into a wave's verdicts directory.     *)
(***************************************************************************)

CONSTANTS
    Cubes,      \* the cubes of one wave (its job ids)
    Truth,      \* Truth[c]: what a solver that finishes on cube c answers
    NoFile,     \* no such file
    Torn,       \* a file whose bytes do not parse as a verdict
    None        \* Python's None: no verdict, no job

\* A verdict's rc: 10 is "sat", 20 is "unsat", None (the budget ran out) is
\* "timeout", and every other exit status of the solver is "error".
Answers == {"sat", "unsat"}
Rcs == Answers \cup {"timeout", "error"}

\* The keys the campaign acts on: rc, and whether drat_sha256 is present.
VerdictRec == [rc : Rcs, drat : BOOLEAN]

\* What a path of the directory may hold.
Content == VerdictRec \cup {NoFile, Torn}

ASSUME TruthAssumption == Truth \in [Cubes -> Answers]
ASSUME SentinelAssumption ==
    /\ NoFile \notin VerdictRec
    /\ Torn \notin VerdictRec
    /\ None \notin VerdictRec
    /\ NoFile # Torn
    /\ None \notin Cubes

\* read_verdict: absent and unparseable files both read as "no verdict".
Read(content) == IF content \in VerdictRec THEN content ELSE None

\* rc in (10, 20): the cube is decided.
Decided(verdict) == verdict \in VerdictRec /\ verdict.rc \in Answers

\* A verdict of cube c that claims an answer claims the right one.
Faithful(verdict, c) == verdict.rc \in Answers => verdict.rc = Truth[c]
=============================================================================
