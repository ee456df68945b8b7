----------------------------- MODULE MCStandby ------------------------------
(***************************************************************************)
(* Instances of Standby for TLC: the sensor with the lines of four fields  *)
(* that its own query prints.                                              *)
(***************************************************************************)
EXTENDS Standby
=============================================================================
