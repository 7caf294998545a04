---------------------------- MODULE MCCandlePools ----------------------------
(* Instances of CandlePools for TLC.                                         *)
EXTENDS CandlePools
=============================================================================
