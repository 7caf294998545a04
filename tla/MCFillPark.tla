----------------------------- MODULE MCFillPark ------------------------------
(* Instances of FillPark for TLC.                                             *)
EXTENDS FillPark
=============================================================================
