---------------------------- MODULE MCPriceWorkers ----------------------------
(* Instances of PriceWorkers for TLC.                                         *)
EXTENDS PriceWorkers

\* One family for every variant.
OneFamily == [v \in Variants |-> CHOOSE f \in Families : TRUE]
=============================================================================
