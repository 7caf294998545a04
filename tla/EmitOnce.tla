------------------------------ MODULE EmitOnce ------------------------------
(***************************************************************************)
(* What HyperliquidFillParkResolver promises for a filled order whose      *)
(* fills are not known yet: once parked it is owed one report, it gets     *)
(* exactly one, and it does get it.                                        *)
(***************************************************************************)
EXTENDS Naturals

CONSTANT Orders

VARIABLES owed,      \* orders parked and not reported yet
          emitted    \* number of reports the resolver has emitted, per order

vars == <<owed, emitted>>

Init ==
    /\ owed = {}
    /\ emitted = [o \in Orders |-> 0]

Owe(o) ==
    /\ o \notin owed
    /\ owed' = owed \cup {o}
    /\ UNCHANGED emitted

Emit(o) ==
    /\ o \in owed
    /\ owed' = owed \ {o}
    /\ emitted' = [emitted EXCEPT ![o] = @ + 1]

Next == \E o \in Orders : Owe(o) \/ Emit(o)

Spec == Init /\ [][Next]_vars

LiveSpec == Spec /\ \A o \in Orders : WF_vars(Emit(o))
=============================================================================
