---------------------------- MODULE MCProofCheck ----------------------------
(***************************************************************************)
(* Instances of ProofCheck for TLC: sampled proofs, good and bad, and one  *)
(* proof outside the sample.                                               *)
(***************************************************************************)
EXTENDS ProofCheck, TLC
=============================================================================
