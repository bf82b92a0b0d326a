--------------------------- MODULE OrderLifecycle ---------------------------
(***************************************************************************)
(* execution/oms.py, class OrderLifecycleManager: the life of an order from *)
(* create_order to a final status.  Every method is synchronous on the     *)
(* asyncio loop, so each is one action; the only task is _async_submit,    *)
(* which sleeps and therefore runs as an action of its own, interleaved    *)
(* with fills, cancels and sweeps.                                         *)
(*                                                                         *)
(* A call that returns False without touching anything is a stutter.       *)
(* avg_fill_price is kept as the total cost of the fills,                  *)
(* filled_quantity * avg_fill_price, which the code's weighted average     *)
(* updates by exactly fill_qty * fill_price.  order_history is kept as the *)
(* quantity its entries account for, order by order.                       *)
(***************************************************************************)
EXTENDS Naturals

CONSTANTS
  Orders,     (* the uuids orders can get                                   *)
  Requests,   (* the keyword arguments create_order is called with          *)
  FillSizes,  (* quantities an execution report can carry                   *)
  FillPrices  (* prices an execution report can carry                       *)

(* STOP and STOP_LIMIT orders meet no price check: they stand with MARKET. *)
Request == [side : {"BUY", "SELL"}, order_type : {"MARKET", "LIMIT"},
            quantity : Nat, price : Nat, expires : BOOLEAN]

ASSUME RequestsAssumption == Requests \subseteq Request
ASSUME FillsAssumption == FillSizes \subseteq Nat \ {0} /\ FillPrices \subseteq Nat

VARIABLES
  request,    (* what the order was created with                              *)
  status,     (* OrderStatus, "ABSENT" before create_order                    *)
  filled,     (* filled_quantity                                              *)
  cost,       (* filled_quantity * avg_fill_price                             *)
  active,     (* the set active_orders, which get_order_book shows            *)
  submitting, (* orders whose _async_submit task has not finished             *)
  overdue,    (* orders whose expires_at has passed                           *)
  audited     (* the sum of the fill_qty in the order's order_history entries *)

vars == <<request, status, filled, cost, active, submitting, overdue, audited>>

-----------------------------------------------------------------------------
OrderStatus == {"CREATED", "PENDING_NEW", "NEW", "PARTIALLY_FILLED", "FILLED",
                "PENDING_CANCEL", "CANCELLED", "REJECTED", "EXPIRED"}

(* VALID_TRANSITIONS *)
ValidTransitions ==
  ({"CREATED"} \X {"PENDING_NEW", "CANCELLED"})
    \union ({"PENDING_NEW"} \X {"NEW", "REJECTED", "CANCELLED"})
    \union ({"NEW"} \X {"PARTIALLY_FILLED", "FILLED", "PENDING_CANCEL", "EXPIRED"})
    \union ({"PARTIALLY_FILLED"} \X {"FILLED", "PENDING_CANCEL"})
    \union ({"PENDING_CANCEL"} \X {"CANCELLED", "FILLED"})

(* _transition: the status after asking for s, which an invalid request    *)
(* leaves alone.                                                           *)
Transition(from, to) == IF <<from, to>> \in ValidTransitions THEN to ELSE from

(* Order.is_active *)
IsActive(s) == s \in {"PENDING_NEW", "NEW", "PARTIALLY_FILLED", "PENDING_CANCEL"}

(* Order.remaining_quantity *)
Remaining(o) == request[o].quantity - filled[o]

(* Fault: the limit is read as an upper bound on either side. *)
PriceBelowLimit(r, p) == r.order_type = "LIMIT" => p <= r.price

PriceWithinLimit(r, p) ==
  r.order_type = "LIMIT" => IF r.side = "BUY" THEN p <= r.price ELSE p >= r.price

(* Fault: the report is compared with the whole quantity, not the rest. *)
CanFillWhole(o, q, p) ==
  /\ status[o] \in {"NEW", "PARTIALLY_FILLED"}
  /\ q <= request[o].quantity
  /\ PriceWithinLimit(request[o], p)

(* Fault: a report is taken in any status. *)
CanFillAnyStatus(o, q, p) ==
  q <= Remaining(o) /\ PriceWithinLimit(request[o], p)

(* Order.can_fill *)
CanFill(o, q, p) ==
  /\ status[o] \in {"NEW", "PARTIALLY_FILLED"}
  /\ q <= Remaining(o)
  /\ PriceWithinLimit(request[o], p)

NoRequest == [side |-> "BUY", order_type |-> "LIMIT", quantity |-> 0,
              price |-> 0, expires |-> FALSE]

-----------------------------------------------------------------------------
Init ==
  /\ request = [o \in Orders |-> NoRequest]
  /\ status = [o \in Orders |-> "ABSENT"]
  /\ filled = [o \in Orders |-> 0]
  /\ cost = [o \in Orders |-> 0]
  /\ active = {} /\ submitting = {} /\ overdue = {}
  /\ audited = [o \in Orders |-> 0]

(* create_order.  The order starts as CREATED; the call to                 *)
(* _transition(CREATED) is refused and leaves no history entry.            *)
CreateOrder(o, r) ==
  /\ status[o] = "ABSENT"
  /\ request' = [request EXCEPT ![o] = r]
  /\ status' = [status EXCEPT ![o] = "CREATED"]
  /\ UNCHANGED <<filled, cost, active, submitting, overdue, audited>>

(* submit_order *)
SubmitOrder(o) ==
  /\ status[o] # "ABSENT"
  /\ <<status[o], "PENDING_NEW">> \in ValidTransitions
  /\ status' = [status EXCEPT ![o] = "PENDING_NEW"]
  /\ submitting' = submitting \union {o}
  /\ UNCHANGED <<request, filled, cost, active, overdue, audited>>

(* _async_submit after its sleep, when the broker refuses the order *)
AsyncReject(o) ==
  /\ o \in submitting
  /\ submitting' = submitting \ {o}
  /\ status' = [status EXCEPT ![o] = Transition(@, "REJECTED")]
  /\ UNCHANGED <<request, filled, cost, active, overdue, audited>>

(* _async_submit after its sleep, when the broker takes the order: the id  *)
(* enters active_orders whether or not the transition was valid.           *)
AsyncAccept(o) ==
  /\ o \in submitting
  /\ submitting' = submitting \ {o}
  /\ status' = [status EXCEPT ![o] = Transition(@, "NEW")]
  /\ active' = active \union {o}
  /\ UNCHANGED <<request, filled, cost, overdue, audited>>

(* The status fill_order asks for when it has added q. *)
FillStatus(o, q) ==
  IF filled[o] + q >= request[o].quantity THEN "FILLED" ELSE "PARTIALLY_FILLED"

(* fill_order up to its status change: quantity and average first, then    *)
(* active_orders.  The history entry exists only if the transition is      *)
(* valid, which PARTIALLY_FILLED -> PARTIALLY_FILLED is not.               *)
FillEffect(o, q, p) ==
  /\ CanFill(o, q, p)
  /\ filled' = [filled EXCEPT ![o] = @ + q]
  /\ cost' = [cost EXCEPT ![o] = @ + q * p]
  /\ active' = IF FillStatus(o, q) = "FILLED" THEN active \ {o} ELSE active
  /\ audited' = IF <<status[o], FillStatus(o, q)>> \in ValidTransitions
                THEN [audited EXCEPT ![o] = @ + q] ELSE audited

(* fill_order, with no callback registered *)
FillOrder(o, q, p) ==
  /\ FillEffect(o, q, p)
  /\ status' = [status EXCEPT ![o] = Transition(@, FillStatus(o, q))]
  /\ UNCHANGED <<request, submitting, overdue>>

(* Fault: the cancellation is not checked against VALID_TRANSITIONS. *)
CancelOrderUnchecked(o) ==
  /\ IsActive(status[o])
  /\ status' = [status EXCEPT ![o] = "PENDING_CANCEL"]
  /\ UNCHANGED <<request, filled, cost, active, submitting, overdue, audited>>

(* cancel_order.  Nothing ever reports the cancellation back: no caller    *)
(* asks for the transition PENDING_CANCEL -> CANCELLED.                    *)
CancelOrder(o) ==
  /\ IsActive(status[o])
  /\ <<status[o], "PENDING_CANCEL">> \in ValidTransitions
  /\ status' = [status EXCEPT ![o] = "PENDING_CANCEL"]
  /\ UNCHANGED <<request, filled, cost, active, submitting, overdue, audited>>

(* Fault: the sweep leaves the ids it expired in active_orders. *)
ExpireOrdersKeepListed ==
  /\ \E o \in active \intersect overdue : status[o] = "NEW"
  /\ status' = [o \in Orders |-> IF o \in active \intersect overdue
                                 THEN Transition(status[o], "EXPIRED") ELSE status[o]]
  /\ UNCHANGED <<request, filled, cost, active, submitting, overdue, audited>>

(* expire_orders: one sweep over a copy of active_orders.  An overdue order *)
(* leaves active_orders even when the transition to EXPIRED is invalid.     *)
ExpireOrders ==
  /\ active \intersect overdue # {}
  /\ status' = [o \in Orders |-> IF o \in active \intersect overdue
                                 THEN Transition(status[o], "EXPIRED") ELSE status[o]]
  /\ active' = active \ overdue
  /\ UNCHANGED <<request, filled, cost, submitting, overdue, audited>>

(* The clock passes expires_at of an order that has one. *)
ClockPasses(o) ==
  /\ status[o] # "ABSENT" /\ request[o].expires /\ o \notin overdue
  /\ overdue' = overdue \union {o}
  /\ UNCHANGED <<request, status, filled, cost, active, submitting, audited>>

Next ==
  \/ \E o \in Orders, r \in Requests : CreateOrder(o, r)
  \/ \E o \in Orders : SubmitOrder(o) \/ AsyncReject(o) \/ AsyncAccept(o)
                         \/ CancelOrder(o) \/ ClockPasses(o)
  \/ \E o \in Orders, q \in FillSizes, p \in FillPrices : FillOrder(o, q, p)
  \/ ExpireOrders

Spec == Init /\ [][Next]_vars

(* asyncio runs every task it was given; users, the broker's fills and the *)
(* callers of expire_orders owe nothing.                                   *)
FairSpec == Spec /\ \A o \in Orders : WF_vars(AsyncReject(o) \/ AsyncAccept(o))

-----------------------------------------------------------------------------
TypeOK ==
  /\ request \in [Orders -> Requests \union {NoRequest}]
  /\ status \in [Orders -> OrderStatus \union {"ABSENT"}]
  /\ filled \in [Orders -> Nat]
  /\ cost \in [Orders -> Nat]
  /\ active \subseteq Orders
  /\ submitting \subseteq Orders
  /\ overdue \subseteq Orders
  /\ audited \in [Orders -> Nat]

(* The status says what was executed: an order is FILLED exactly when all   *)
(* of its quantity has been filled, PARTIALLY_FILLED only with a proper     *)
(* part, and no fill was ever booked on an order that is still NEW, not yet *)
(* at the broker, REJECTED or EXPIRED (fill_order, _async_submit and        *)
(* expire_orders against each other).                                       *)
StatusMatchesFills ==
  \A o \in Orders :
    /\ filled[o] <= request[o].quantity
    /\ (status[o] = "FILLED") <=> (filled[o] > 0 /\ filled[o] = request[o].quantity)
    /\ status[o] = "PARTIALLY_FILLED" => filled[o] > 0
    /\ status[o] \in {"ABSENT", "CREATED", "PENDING_NEW", "NEW", "REJECTED", "EXPIRED"}
         => filled[o] = 0

(* The weighted average of a LIMIT order's fills never crosses its limit,  *)
(* however many reports at however many prices fill_order averaged.        *)
AverageWithinLimit ==
  \A o \in Orders :
    request[o].order_type = "LIMIT" =>
      IF request[o].side = "BUY" THEN cost[o] <= filled[o] * request[o].price
                                 ELSE cost[o] >= filled[o] * request[o].price

(* get_order_book walks active_orders: it shows every NEW order, and only  *)
(* orders that are with the broker (three writers keep the set in step     *)
(* with the statuses: _async_submit, fill_order and expire_orders).        *)
BookShowsWorkingOrders ==
  /\ \A o \in Orders : status[o] = "NEW" => o \in active
  /\ \A o \in active : status[o] \in {"NEW", "PARTIALLY_FILLED", "PENDING_CANCEL"}

(* An order is PENDING_NEW exactly while its submission task is alive, so   *)
(* a task never finds that its order moved on during the sleep and no order *)
(* is submitted twice.                                                      *)
PendingNewIffSubmitting ==
  \A o \in Orders : status[o] = "PENDING_NEW" <=> o \in submitting

(* A submission always comes to an end: the order is at the broker or was  *)
(* rejected.                                                               *)
SubmissionResolves ==
  \A o \in Orders : status[o] = "PENDING_NEW" ~> status[o] \in {"NEW", "REJECTED"}

Final == {"FILLED", "CANCELLED", "REJECTED", "EXPIRED"}

(* The order book keeps OrderPromise: an order is open from create_order to *)
(* a final status.                                                          *)
PhaseOf(s) == IF s = "ABSENT" THEN "none" ELSE IF s \in Final THEN "done" ELSE "open"
Promise == INSTANCE OrderPromise WITH
  phase <- [o \in Orders |-> PhaseOf(status[o])],
  size <- [o \in Orders |-> request[o].quantity],
  executed <- filled

KeepsPromise == Promise!Spec

-----------------------------------------------------------------------------
(* oms.py:92 "Ensures valid state transitions and audit logging.": the      *)
(* order history accounts for every quantity that was filled.               *)
HistoryAccountsForFills == \A o \in Orders : audited[o] = filled[o]
=============================================================================
