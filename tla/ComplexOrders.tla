--------------------------- MODULE ComplexOrders ---------------------------
(***************************************************************************)
(* execution/oms.py, class ComplexOrderManager: OCO groups, brackets and   *)
(* icebergs on top of OrderLifecycle.  The manager registers callbacks on  *)
(* the order manager; _transition runs them inside fill_order, so a fill   *)
(* and everything it sets off are one action.                              *)
(*                                                                         *)
(* The uuids are structured here: the exits a fill of entry e places for   *)
(* bracket b are <<"TP", e, b>> and <<"SL", e, b>>, the k-th slice of an   *)
(* iceberg i is <<"SLICE", i, k>>.  A bracket is named by its entry.       *)
(***************************************************************************)
EXTENDS OrderLifecycle

CONSTANTS
  OcoIds,      (* the parent ids create_oco can draw             *)
  LegsOf,      (* the orders create_oco is called with, per id   *)
  Entries,     (* orders create_bracket is called with           *)
  TakeProfit,  (* the take-profit price of every bracket         *)
  Icebergs,    (* parent orders of icebergs                      *)
  DisplaySize, (* display_size of every iceberg                  *)
  MaxSlices    (* bound on the slices one iceberg can reveal     *)

TpId(e, b) == <<"TP", e, b>>
SlId(e, b) == <<"SL", e, b>>
SliceId(i, k) == <<"SLICE", i, k>>
ExitIds == {"TP", "SL"} \X Entries \X Entries
SliceIds == {"SLICE"} \X Icebergs \X (1..MaxSlices)

(* What an order is a member of. *)
NoGroup == <<"NONE">>
ExitGroups == {"EXITS"} \X Entries \X Entries
OtherGroups == {"BRACKET", "ICEBERG"} \X (Entries \union Icebergs)
Ocos == OcoIds \union ExitGroups
Groups == {NoGroup} \union Ocos \union OtherGroups

ASSUME IdsAssumption ==
  /\ LegsOf \in [OcoIds -> SUBSET Orders]
  /\ Entries \union Icebergs \union ExitIds \union SliceIds \subseteq Orders

(* Every order and every group has a uuid of its own. *)
ASSUME DistinctAssumption ==
  /\ \A g, h \in OcoIds : g # h => LegsOf[g] \intersect LegsOf[h] = {}
  /\ \A g \in OcoIds :
       LegsOf[g] \intersect (Entries \union Icebergs \union ExitIds \union SliceIds) = {}
  /\ Entries \intersect Icebergs = {}
  /\ (Entries \union Icebergs) \intersect (ExitIds \union SliceIds) = {}
  /\ OcoIds \intersect ({NoGroup} \union ExitGroups \union OtherGroups) = {}
ASSUME SizesAssumption ==
  /\ TakeProfit \in Nat /\ {DisplaySize, MaxSlices} \subseteq Nat \ {0}

VARIABLES
  group,     (* parent_order_id                                          *)
  ocoHook,   (* some create_oco registered _cancel_siblings on FILLED     *)
  brackets,  (* brackets whose callback is registered on FILLED           *)
  revealed,  (* metadata["revealed"] of an iceberg                        *)
  late       (* history: orders not yet at the broker when a sibling was FILLED *)

complexVars == <<group, ocoHook, brackets, revealed, late>>
allVars == <<vars, complexVars>>

-----------------------------------------------------------------------------
ComplexInit ==
  /\ Init
  /\ group = [o \in Orders |-> NoGroup]
  /\ ocoHook = FALSE /\ brackets = {} /\ late = {}
  /\ revealed = [i \in Icebergs |-> 0]

(* create_oco creates its legs; it does not submit them. *)
CreateOco(g) ==
  /\ LegsOf[g] # {} /\ \A o \in LegsOf[g] : status[o] = "ABSENT"
  /\ \E r \in [LegsOf[g] -> Requests] :
       request' = [o \in Orders |-> IF o \in LegsOf[g] THEN r[o] ELSE request[o]]
  /\ status' = [o \in Orders |-> IF o \in LegsOf[g] THEN "CREATED" ELSE status[o]]
  /\ group' = [o \in Orders |-> IF o \in LegsOf[g] THEN g ELSE group[o]]
  /\ ocoHook' = TRUE
  /\ UNCHANGED <<filled, cost, active, submitting, overdue, audited, brackets, revealed, late>>

(* create_bracket *)
CreateBracket(e, r) ==
  /\ CreateOrder(e, r)
  /\ group' = [group EXCEPT ![e] = <<"BRACKET", e>>]
  /\ brackets' = brackets \union {e}
  /\ UNCHANGED <<ocoHook, revealed, late>>

(* _reveal_slice: the size of the next slice, 0 when there is none *)
NextSlice(i, total) ==
  IF total - revealed[i] < DisplaySize THEN total - revealed[i] ELSE DisplaySize
SlicesOf(i) == {s \in SliceIds : s[2] = i /\ status[s] # "ABSENT"}
NewSliceId(i) == CHOOSE s \in SliceIds : s[2] = i /\ s \notin SlicesOf(i)

(* create_iceberg: the parent order and, created and submitted, the first  *)
(* slice.                                                                  *)
CreateIceberg(i, r) ==
  LET s == NewSliceId(i) IN
  /\ status[i] = "ABSENT" /\ r.quantity > 0 /\ r.order_type = "LIMIT"
  /\ request' = [request EXCEPT ![i] = r, ![s] = [r EXCEPT !.quantity = NextSlice(i, r.quantity)]]
  /\ status' = [status EXCEPT ![i] = "CREATED", ![s] = "PENDING_NEW"]
  /\ submitting' = submitting \union {s}
  /\ group' = [group EXCEPT ![s] = <<"ICEBERG", i>>]
  /\ revealed' = [revealed EXCEPT ![i] = @ + NextSlice(i, r.quantity)]
  /\ UNCHANGED <<filled, cost, active, overdue, audited, ocoHook, brackets, late>>

-----------------------------------------------------------------------------
(* The callbacks *)

Siblings(o) == {x \in Orders \ {o} : group[o] # NoGroup /\ group[x] = group[o]}

(* Fault: only siblings without a fill are cancelled. *)
CancelledWithUnfilled(o) == {x \in Siblings(o) : status[x] \in {"PENDING_NEW", "NEW"}}

(* _cancel_siblings: cancel_order on every active sibling, whose answer is *)
(* not looked at.                                                          *)
CancelledWith(o) == {x \in Siblings(o) : IsActive(status[x])}

(* The callback create_bracket registered: any order tagged BRACKET_ENTRY  *)
(* triggers it, not only the bracket's own entry.                          *)
BracketsTriggeredBy(e) == IF e \in Entries THEN brackets ELSE {}
ExitsPlacedBy(e) == {"TP", "SL"} \X {e} \X BracketsTriggeredBy(e)

(* Fault: the exits are sized before the last report is added. *)
ExitRequestStale(x) ==
  LET e == x[2] IN
  [side |-> IF request[e].side = "BUY" THEN "SELL" ELSE "BUY",
   order_type |-> IF x[1] = "TP" THEN "LIMIT" ELSE "MARKET",
   quantity |-> filled[e],
   price |-> IF x[1] = "TP" THEN TakeProfit ELSE 0,
   expires |-> FALSE]

(* _place_bracket_exits; the STOP order carries no limit *)
ExitRequest(x) ==
  LET e == x[2] IN
  [side |-> IF request[e].side = "BUY" THEN "SELL" ELSE "BUY",
   order_type |-> IF x[1] = "TP" THEN "LIMIT" ELSE "MARKET",
   quantity |-> filled'[e],
   price |-> IF x[1] = "TP" THEN TakeProfit ELSE 0,
   expires |-> FALSE]

(* _check_reveal_next, registered on PARTIALLY_FILLED *)
RevealsNext(o, asked) ==
  /\ o \in SliceIds
  /\ asked = "PARTIALLY_FILLED" /\ <<status[o], asked>> \in ValidTransitions
  /\ filled'[o] >= request[o].quantity

(* The fill completes the order: siblings are asked to cancel, and exits   *)
(* are created in a group of their own (create_oco draws a new parent id). *)
OnFilled(o) ==
  /\ request' = [x \in Orders |-> IF x \in ExitsPlacedBy(o) THEN ExitRequest(x) ELSE request[x]]
  /\ status' = [x \in Orders |->
       IF x = o THEN "FILLED"
       ELSE IF x \in ExitsPlacedBy(o) THEN "CREATED"
       ELSE IF ocoHook /\ x \in CancelledWith(o) THEN Transition(status[x], "PENDING_CANCEL")
       ELSE status[x]]
  /\ group' = [x \in Orders |-> IF x \in ExitsPlacedBy(o) THEN <<"EXITS", x[2], x[3]>> ELSE group[x]]
  /\ ocoHook' = (ocoHook \/ ExitsPlacedBy(o) # {})
  /\ late' = late \union {x \in Siblings(o) : status[x] \in {"CREATED", "PENDING_NEW"}}
  /\ UNCHANGED <<submitting, revealed>>

(* The fill leaves a rest: only an iceberg listens. *)
OnPartiallyFilled(o) ==
  LET i == o[2]
      s == NewSliceId(i)
      size == NextSlice(i, request[i].quantity)
  IN
  /\ IF RevealsNext(o, "PARTIALLY_FILLED") /\ size > 0
     THEN /\ request' = [request EXCEPT ![s] = [request[i] EXCEPT !.quantity = size]]
          /\ status' = [status EXCEPT ![o] = "PARTIALLY_FILLED", ![s] = "PENDING_NEW"]
          /\ submitting' = submitting \union {s}
          /\ group' = [group EXCEPT ![s] = <<"ICEBERG", i>>]
          /\ revealed' = [revealed EXCEPT ![i] = @ + size]
     ELSE /\ status' = [status EXCEPT ![o] = "PARTIALLY_FILLED"]
          /\ UNCHANGED <<request, submitting, group, revealed>>
  /\ UNCHANGED <<ocoHook, late>>

(* fill_order with the callbacks of its new status *)
ComplexFill(o, q, p) ==
  /\ FillEffect(o, q, p)
  /\ IF FillStatus(o, q) = "FILLED" THEN OnFilled(o) ELSE OnPartiallyFilled(o)
  /\ UNCHANGED <<overdue, brackets>>

-----------------------------------------------------------------------------
(* Parents of icebergs are never submitted: they are the invisible order.  *)
ComplexNext ==
  \/ \E g \in OcoIds : CreateOco(g)
  \/ \E e \in Entries, r \in Requests : CreateBracket(e, r)
  \/ \E i \in Icebergs, r \in Requests : CreateIceberg(i, r)
  \/ \E o \in Orders, q \in FillSizes, p \in FillPrices : ComplexFill(o, q, p)
  \/ /\ \/ \E o \in Orders \ Icebergs : SubmitOrder(o)
        \/ \E o \in Orders : AsyncReject(o) \/ AsyncAccept(o) \/ CancelOrder(o) \/ ClockPasses(o)
        \/ ExpireOrders
     /\ UNCHANGED complexVars

ComplexSpec == ComplexInit /\ [][ComplexNext]_allVars

-----------------------------------------------------------------------------
ComplexTypeOK ==
  /\ request \in [Orders -> Request]
  /\ status \in [Orders -> OrderStatus \union {"ABSENT"}]
  /\ filled \in [Orders -> Nat] /\ cost \in [Orders -> Nat] /\ audited \in [Orders -> Nat]
  /\ active \subseteq Orders /\ submitting \subseteq Orders /\ overdue \subseteq Orders
  /\ group \in [Orders -> Groups]
  /\ ocoHook \in BOOLEAN
  /\ brackets \subseteq Entries
  /\ revealed \in [Icebergs -> Nat]
  /\ late \subseteq Orders

(* What create_oco does guarantee: of two legs that were both at the broker *)
(* when the first of them filled, the other one never fills completely      *)
(* (fill_order, _cancel_siblings, can_fill).                                *)
SiblingAtTheBrokerIsStopped ==
  \A a, b \in Orders :
    /\ a # b /\ group[a] \in Ocos /\ group[a] = group[b]
    /\ status[a] = "FILLED" /\ status[b] = "FILLED"
    => a \in late \/ b \in late

(* An entry that filled completely has its pair of exits, in the size that *)
(* was executed at the last of any number of fills (_place_bracket_exits); *)
(* exits come in pairs, only from such an entry, and no exit closes more   *)
(* than was opened.  Both exits of a pair together can: an exit executed   *)
(* in part, or not yet at the broker when the other one filled, adds to it. *)
ExitsMatchTheirEntry ==
  /\ \A e \in Entries : status[e] = "FILLED" => status[TpId(e, e)] # "ABSENT"
  /\ \A e, b \in Entries :
       status[TpId(e, b)] # "ABSENT" \/ status[SlId(e, b)] # "ABSENT" =>
         /\ status[e] = "FILLED" /\ b \in brackets
         /\ group[TpId(e, b)] = group[SlId(e, b)]
         /\ \A x \in {TpId(e, b), SlId(e, b)} :
              /\ status[x] # "ABSENT"
              /\ request[x].quantity = filled[e] /\ filled[x] <= filled[e]

-----------------------------------------------------------------------------
(* oms.py:309 "When entry fills, TP and SL are placed as OCO": one pair, of *)
(* the entry's own bracket.  With two brackets it does not hold.           *)
ExitsOfOwnBracketOnly == \A e, b \in Entries : status[TpId(e, b)] # "ABSENT" => e = b

(* oms.py:362 "When slice fills, next slice is revealed." *)
IcebergRevealsNextSlice ==
  \A i \in Icebergs :
    SlicesOf(i) # {} /\ (\A s \in SlicesOf(i) : status[s] = "FILLED")
      => revealed[i] >= request[i].quantity
=============================================================================
