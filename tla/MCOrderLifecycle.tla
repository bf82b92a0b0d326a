------------------------- MODULE MCOrderLifecycle -------------------------
(* Small instance of OrderLifecycle: a limit order on each side, one of     *)
(* them with an expiry, and a market order.                                 *)
EXTENDS OrderLifecycle, TLC

CONSTANTS o1, o2

MCOrders == {o1, o2}
MCRequests ==
  { [side |-> "BUY",  order_type |-> "LIMIT",  quantity |-> 3, price |-> 2, expires |-> TRUE],
    [side |-> "SELL", order_type |-> "LIMIT",  quantity |-> 2, price |-> 2, expires |-> FALSE],
    [side |-> "SELL", order_type |-> "MARKET", quantity |-> 1, price |-> 0, expires |-> TRUE] }
MCFillSizes == {1, 2}
MCFillPrices == {1, 2, 3}
Symmetry == Permutations(MCOrders)
=============================================================================
