--------------------------- MODULE AdvancedOrders ---------------------------
(***************************************************************************)
(* brokers/advanced_orders.py, class AdvancedOrderManager.  Every method   *)
(* holds the manager's lock from its first read to its last write, so each *)
(* is one action.  The statistics it counts are left out.                  *)
(*                                                                         *)
(* The manager never talks to the exchange (broker_callback is stored and  *)
(* not called): it only hears of executions through handle_order_fill,     *)
(* which asks for nothing but a known order: a report may arrive for an    *)
(* order the manager has cancelled meanwhile, a second time, for more than *)
(* the order's quantity, or for a bracket's exit before that of its entry. *)
(* Children of a scaled order and the order of a conditional one have a    *)
(* parent that is neither an OCO nor a bracket: they are Plain orders.     *)
(***************************************************************************)
EXTENDS Integers, FiniteSets

CONSTANTS
  Plain,      (* ids of orders without a linked order                    *)
  Ocos,       (* ids of OCO pairs                                        *)
  Brackets,   (* ids of brackets                                         *)
  Trails,     (* ids of trailing stops                                   *)
  TrailSpecs, (* arguments create_trailing_stop is called with           *)
  Prices,     (* market prices update_trailing_stop is called with       *)
  Quantity,   (* the quantity of every order                             *)
  MaxReported (* bound: what the reports of each order add up to at most *)

ASSUME QuantityAssumption == Quantity \in Nat \ {0}
ASSUME PricesAssumption == Prices \subseteq Nat \ {0}

(* 0 stands for an absent trail_amount, trail_percent or activation_price. *)
TrailSpec == [side : {"buy", "sell"}, amount : Nat, percent : 0..100, activation : Nat]
ASSUME TrailSpecsAssumption == TrailSpecs \subseteq TrailSpec

OcoLeg(c, k) == <<c, k>>
Exit(b, k) == <<b, k>>
Entry(b) == <<b, "entry">>
Legs == Ocos \X {"limit", "stop"}
Exits == Brackets \X {"stop_loss", "take_profit"}
Entries == Brackets \X {"entry"}
OrderIds == Plain \union Trails \union Legs \union Exits \union Entries

ASSUME MaxReportedAssumption == MaxReported \in [OrderIds -> Nat]

(* Every id is a uuid of its own. *)
ASSUME IdsAssumption ==
  /\ Plain \intersect Trails = {} /\ Ocos \intersect Brackets = {}
  /\ (Plain \union Trails) \intersect (Legs \union Exits \union Entries) = {}

VARIABLES
  status,   (* OrderStatus of each order, "absent" before its creation   *)
  filled,   (* filled_quantity                                           *)
  oco,      (* the OCOOrder: status, triggered_order_id, cancelled_order_id *)
  bracket,  (* the BracketOrder: status, position_filled                 *)
  trail,    (* the TrailingStopOrder: its arguments, the highest (sell) or *)
            (* lowest (buy) price seen, the stop price in hundredths     *)
  reopened  (* history: the brackets whose entry was reported after the  *)
            (* last report of an exit                                    *)

advancedVars == <<status, filled, oco, bracket, trail, reopened>>

None == <<"none">>
NoTrail == [side |-> "sell", amount |-> 0, percent |-> 0, activation |-> 0]

AdvancedInit ==
  /\ status = [o \in OrderIds |-> "absent"]
  /\ filled = [o \in OrderIds |-> 0]
  /\ oco = [c \in Ocos |-> [status |-> "pending", triggered |-> None, cancelled |-> None]]
  /\ bracket = [b \in Brackets |-> [status |-> "pending", position_filled |-> FALSE]]
  /\ trail = [t \in Trails |-> [spec |-> NoTrail, extreme |-> 0, stop |-> 0]]
  /\ reopened = {}

(* create_order, create_oco_order and create_bracket_order, with the orders *)
(* S they register.                                                         *)
Create(S) ==
  /\ \A o \in S : status[o] = "absent"
  /\ status' = [o \in OrderIds |-> IF o \in S THEN "pending" ELSE status[o]]
  /\ UNCHANGED <<filled, oco, bracket, trail, reopened>>

CreateOrder(o) == Create({o})
CreateOcoOrder(c) == Create({c} \X {"limit", "stop"})
CreateBracketOrder(b) == Create({b} \X {"entry", "stop_loss", "take_profit"})

CreateTrailingStop(t, spec) ==
  /\ status[t] = "absent"
  /\ status' = [status EXCEPT ![t] = "pending"]
  /\ trail' = [trail EXCEPT ![t].spec = spec]
  /\ UNCHANGED <<filled, oco, bracket, reopened>>

-----------------------------------------------------------------------------
Activated(spec, price) ==
  \/ spec.activation = 0
  \/ spec.side = "sell" /\ price >= spec.activation
  \/ spec.side = "buy" /\ price <= spec.activation

(* Fault: every price moves the stop. *)
NewExtremeAlways(t, price) == TRUE

(* highest_price starts at 0, lowest_price at infinity (0 here). *)
NewExtreme(t, price) ==
  IF trail[t].spec.side = "sell" THEN price > trail[t].extreme
  ELSE trail[t].extreme = 0 \/ price < trail[t].extreme

(* The stop for a new extreme; the percentage wins over the amount. *)
NewStop(spec, price) ==
  LET away == IF spec.percent # 0 THEN price * spec.percent ELSE 100 * spec.amount
  IN IF spec.side = "sell" THEN 100 * price - away ELSE 100 * price + away

(* update_trailing_stop, whatever the order's status.  Without an amount   *)
(* and a percentage the extreme moves and the stop does not.               *)
UpdateTrailingStop(t, price) ==
  LET spec == trail[t].spec IN
  /\ status[t] # "absent"
  /\ Activated(spec, price) /\ NewExtreme(t, price)
  /\ trail' = [trail EXCEPT ![t].extreme = price,
                            ![t].stop = IF spec.percent = 0 /\ spec.amount = 0 THEN @
                                        ELSE NewStop(spec, price)]
  /\ UNCHANGED <<status, filled, oco, bracket, reopened>>

-----------------------------------------------------------------------------
(* A report of a known order; nothing else is looked at.  The second       *)
(* conjunct is the bound.                                                  *)
Reportable(o, q) == status[o] # "absent" /\ filled[o] + q <= MaxReported[o]

Completed(o, q) == filled[o] + q >= Quantity
FillStatus(o, q) == IF Completed(o, q) THEN "filled" ELSE "partially_filled"

(* Fault: the stop leg is cancelled whichever leg was executed. *)
OtherLegIsStop(o) == OcoLeg(o[1], "stop")

OtherLeg(o) == IF o[2] = "limit" THEN OcoLeg(o[1], "stop") ELSE OcoLeg(o[1], "limit")
OtherExit(o) == IF o[2] = "stop_loss" THEN Exit(o[1], "take_profit") ELSE Exit(o[1], "stop_loss")

(* handle_order_fill on an order without a linked order *)
PlainFill(o, q) ==
  /\ status' = [status EXCEPT ![o] = FillStatus(o, q)]
  /\ UNCHANGED <<oco, bracket, reopened>>

(* _handle_oco_fill: the other leg is CANCELLED, executed or not. *)
OcoFill(o, q) ==
  /\ status' = [status EXCEPT ![o] = FillStatus(o, q), ![OtherLeg(o)] = "cancelled"]
  /\ oco' = [oco EXCEPT ![o[1]] = [status |-> "filled", triggered |-> o, cancelled |-> OtherLeg(o)]]
  /\ UNCHANGED <<bracket, reopened>>

(* _handle_bracket_fill for the entry: every report opens both exits. *)
EntryFill(o, q) ==
  LET b == o[1] IN
  /\ status' = [status EXCEPT ![o] = FillStatus(o, q),
                              ![Exit(b, "stop_loss")] = "open", ![Exit(b, "take_profit")] = "open"]
  /\ bracket' = [bracket EXCEPT ![b].position_filled = TRUE]
  /\ reopened' = IF bracket[b].status = "filled" THEN reopened \union {b} ELSE reopened
  /\ UNCHANGED oco

(* _handle_bracket_fill for an exit *)
ExitFill(o, q) ==
  /\ status' = [status EXCEPT ![o] = FillStatus(o, q), ![OtherExit(o)] = "cancelled"]
  /\ bracket' = [bracket EXCEPT ![o[1]].status = "filled"]
  /\ reopened' = reopened \ {o[1]}
  /\ UNCHANGED oco

(* handle_order_fill: the report is booked in any status. *)
HandleOrderFill(o, q) ==
  /\ Reportable(o, q)
  /\ filled' = [filled EXCEPT ![o] = @ + q]
  /\ \/ o \in Plain \union Trails /\ PlainFill(o, q)
     \/ o \in Legs /\ OcoFill(o, q)
     \/ o \in Entries /\ EntryFill(o, q)
     \/ o \in Exits /\ ExitFill(o, q)
  /\ UNCHANGED trail

(* Fault: an order that was executed in part can be cancelled too. *)
CancelPartlyFilled(o) ==
  /\ status[o] \in {"pending", "open", "partially_filled"}
  /\ status' = [status EXCEPT ![o] = "cancelled"]
  /\ UNCHANGED <<filled, oco, bracket, trail, reopened>>

(* cancel_order; the linked orders are left as they are. *)
CancelOrder(o) ==
  /\ status[o] \in {"pending", "open"}
  /\ status' = [status EXCEPT ![o] = "cancelled"]
  /\ UNCHANGED <<filled, oco, bracket, trail, reopened>>

AdvancedNext ==
  \/ \E o \in Plain : CreateOrder(o)
  \/ \E c \in Ocos : CreateOcoOrder(c)
  \/ \E b \in Brackets : CreateBracketOrder(b)
  \/ \E t \in Trails : \/ \E spec \in TrailSpecs : CreateTrailingStop(t, spec)
                       \/ \E price \in Prices : UpdateTrailingStop(t, price)
  \/ \E o \in OrderIds : CancelOrder(o) \/ \E q \in 1..Quantity : HandleOrderFill(o, q)

AdvancedSpec == AdvancedInit /\ [][AdvancedNext]_advancedVars

-----------------------------------------------------------------------------
OrderStatus == {"pending", "open", "filled", "partially_filled", "cancelled"}

AdvancedTypeOK ==
  /\ status \in [OrderIds -> OrderStatus \union {"absent"}]
  /\ filled \in [OrderIds -> Nat]
  /\ oco \in [Ocos -> [status : {"pending", "filled"}, triggered : Legs \union {None},
                       cancelled : Legs \union {None}]]
  /\ bracket \in [Brackets -> [status : {"pending", "filled"}, position_filled : BOOLEAN]]
  /\ trail \in [Trails -> [spec : TrailSpecs \union {NoTrail}, extreme : Prices \union {0}, stop : Int]]
  /\ reopened \subseteq Brackets

(* The OCO record and its legs tell the same story through partial fills,  *)
(* cancellations, late and repeated reports: once a leg was executed, the record     *)
(* names one leg as triggered and the other as cancelled, the cancelled    *)
(* one is CANCELLED and the triggered one is not, and it was executed.     *)
OcoRecordMatchesLegs ==
  \A c \in Ocos :
    LET r == oco[c] IN
    IF filled[OcoLeg(c, "limit")] = 0 /\ filled[OcoLeg(c, "stop")] = 0
    THEN r.status = "pending"
    ELSE /\ r.status = "filled" /\ {r.triggered, r.cancelled} = {c} \X {"limit", "stop"}
         /\ status[r.cancelled] = "cancelled"
         /\ status[r.triggered] \in {"filled", "partially_filled"} /\ filled[r.triggered] > 0

ExitLeft(b) ==
  \E x \in {b} \X {"stop_loss", "take_profit"} :
    /\ status[x] \in {"filled", "partially_filled"} /\ filled[x] > 0
    /\ status[OtherExit(x)] = "cancelled"

(* A position is closed once: in a bracket that is complete, one exit was  *)
(* executed and the other one is cancelled, in whatever order the reports  *)
(* of entry and exits come, late, repeated or after a cancellation.  Not   *)
(* so in a bracket whose entry is reported after an exit (the next part of *)
(* a partial fill, or a report out of order): that report opens both exits *)
(* again, until the next report of an exit.                                *)
OneExitIsLeft ==
  \A b \in Brackets : bracket[b].status = "filled" /\ b \notin reopened => ExitLeft(b)

(* What the comment of l.820 says, "If SL or TP filled, cancel the other": *)
(* the brackets that were reopened are not excepted.  It does not hold.    *)
FilledExitCancelsTheOther == \A b \in Brackets : bracket[b].status = "filled" => ExitLeft(b)

(* A trailing stop only ever follows the market: a long position's stop    *)
(* never falls and a short position's never rises, for every order of      *)
(* prices and with or without an activation price.                         *)
TrailingStopNeverLoosens ==
  [][\A t \in Trails : trail[t].extreme # 0 =>
       IF trail[t].spec.side = "sell" THEN trail'[t].stop >= trail[t].stop
                                      ELSE trail'[t].stop <= trail[t].stop]_advancedVars
=============================================================================
