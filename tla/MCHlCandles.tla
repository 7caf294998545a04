----------------------------- MODULE MCHlCandles -----------------------------
(* Instances of HlCandles for TLC.                                           *)
EXTENDS HlCandles

\* Rooms of perpetuals, and with their spot twins.
Perps == {[coin |-> c, spot |-> FALSE] : c \in Coins}
Pairs == Room

\* The rebuilt connector asks for the room the venue does not know.
Foreign == {CHOOSE r \in Perps : TRUE}
OneKept == Foreign
=============================================================================
