----------------------------- MODULE MCCubeWave -----------------------------
(***************************************************************************)
(* Instances of CubeWave for TLC: one satisfiable and one or two           *)
(* unsatisfiable cubes, and the command lines the campaign uses.           *)
(***************************************************************************)
EXTENDS CubeWave, TLC

CONSTANTS c1, c2

MCCubes == {c1, c2}
MCTruth == (c1 :> "unsat") @@ (c2 :> "sat")

Wave(p) == [ids |-> Cubes, proof |-> p]
Sample == [ids |-> {c1}, proof |-> FALSE]

MCCalls == {Wave(TRUE), Sample}
=============================================================================
