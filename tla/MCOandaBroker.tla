--------------------------- MODULE MCOandaBroker ----------------------------
(* Instances of OandaBroker. *)
EXTENDS OandaBroker, TLC

CONSTANT p1

OneLeg == [o \in Orders |-> p1]
=============================================================================
