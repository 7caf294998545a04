---------------------------- MODULE MCHlBalancer -----------------------------
(* Instances of HlBalancer for TLC.                                           *)
EXTENDS HlBalancer

\* Accounts are interchangeable names.
UuidSymmetry == Permutations(Uuids)
=============================================================================
