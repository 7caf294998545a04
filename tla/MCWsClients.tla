----------------------------- MODULE MCWsClients -----------------------------
(* Instances of WsClients for TLC.                                           *)
EXTENDS WsClients
=============================================================================
