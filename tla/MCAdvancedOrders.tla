-------------------------- MODULE MCAdvancedOrders --------------------------
(* Small instances of AdvancedOrders. *)
EXTENDS AdvancedOrders

MCTrailSpecs ==
  { [side |-> "sell", amount |-> 1, percent |-> 0,  activation |-> 3],
    [side |-> "buy",  amount |-> 0, percent |-> 50, activation |-> 3],
    [side |-> "sell", amount |-> 0, percent |-> 0,  activation |-> 4] }

(* Linked orders can be reported beyond their quantity of 2. *)
MCMaxReported ==
  [o \in OrderIds |-> IF o \in Plain THEN 2 ELSE IF o \in Trails THEN 1 ELSE 3]
=============================================================================
