---------------------------- MODULE OrderProofs ----------------------------
(***************************************************************************)
(* Theorems about OrderLifecycle and ComplexOrders for every set of order  *)
(* ids, requests, fill sizes and prices, OCO groups, brackets and icebergs.*)
(*                                                                         *)
(* The lifecycle alone comes first.  With the callbacks a step touches     *)
(* several orders, so the second half starts from what a step can do to    *)
(* one order (StepOnOne: it stays, moves, appears or is filled) and derives *)
(* the invariants and the refinement from that.                            *)
(***************************************************************************)
EXTENDS ComplexOrders, TLAPS

(* The inductive strengthening of the safety properties. *)
IInv == TypeOK /\ StatusMatchesFills /\ BookShowsWorkingOrders /\ PendingNewIffSubmitting

-----------------------------------------------------------------------------
(* Every status a valid transition can reach is a member of OrderStatus. *)
LEMMA TransitionType ==
  ASSUME NEW from \in OrderStatus \union {"ABSENT"}, NEW to \in OrderStatus
  PROVE  Transition(from, to) \in OrderStatus \union {"ABSENT"}
  BY DEF Transition, OrderStatus

(* TypeOK is inductive: create_order, _async_submit, fill_order, ... keep   *)
(* every order's record well formed.                                        *)
THEOREM TypeCorrect == Spec => []TypeOK
<1>1. Init => TypeOK
  BY DEF Init, TypeOK, NoRequest, OrderStatus
<1>2. TypeOK /\ [Next]_vars => TypeOK'
  <2> SUFFICES ASSUME TypeOK, [Next]_vars PROVE TypeOK'
    OBVIOUS
  <2> USE RequestsAssumption, FillsAssumption DEF TypeOK
  <2>1. ASSUME NEW o \in Orders, NEW r \in Requests, CreateOrder(o, r) PROVE TypeOK'
    BY <2>1 DEF CreateOrder, OrderStatus
  <2>2. ASSUME NEW o \in Orders, SubmitOrder(o) PROVE TypeOK'
    BY <2>2 DEF SubmitOrder, OrderStatus
  <2>3. ASSUME NEW o \in Orders, AsyncReject(o) PROVE TypeOK'
    BY <2>3, TransitionType DEF AsyncReject, OrderStatus
  <2>4. ASSUME NEW o \in Orders, AsyncAccept(o) PROVE TypeOK'
    BY <2>4, TransitionType DEF AsyncAccept, OrderStatus
  <2>5. ASSUME NEW o \in Orders, CancelOrder(o) PROVE TypeOK'
    BY <2>5 DEF CancelOrder, OrderStatus
  <2>6. ASSUME NEW o \in Orders, ClockPasses(o) PROVE TypeOK'
    BY <2>6 DEF ClockPasses
  <2>7. ASSUME NEW o \in Orders, NEW q \in FillSizes, NEW p \in FillPrices, FillOrder(o, q, p)
        PROVE  TypeOK'
    <3>1. q \in Nat /\ p \in Nat /\ q * p \in Nat
      OBVIOUS
    <3>2. FillStatus(o, q) \in OrderStatus
      BY DEF FillStatus, OrderStatus
    <3>3. status' \in [Orders -> OrderStatus \union {"ABSENT"}]
      BY <2>7, <3>2, TransitionType DEF FillOrder
    <3>4. /\ filled' \in [Orders -> Nat] /\ cost' \in [Orders -> Nat]
          /\ audited' \in [Orders -> Nat] /\ active' \subseteq Orders
      BY <2>7, <3>1 DEF FillOrder, FillEffect
    <3>5. QED
      BY <2>7, <3>3, <3>4 DEF FillOrder
  <2>8. CASE ExpireOrders
    <3>1. status' \in [Orders -> OrderStatus \union {"ABSENT"}]
      BY <2>8, TransitionType DEF ExpireOrders, OrderStatus
    <3>2. QED
      BY <2>8, <3>1 DEF ExpireOrders
  <2>9. CASE UNCHANGED vars
    BY <2>9 DEF vars
  <2>10. QED
    BY <2>1, <2>2, <2>3, <2>4, <2>5, <2>6, <2>7, <2>8, <2>9 DEF Next
<1>3. QED
  BY <1>1, <1>2, PTL DEF Spec

-----------------------------------------------------------------------------
(* A fillable order takes the status a fill asks for (a second partial fill *)
(* asks for the status the order already has).                              *)
LEMMA FillTransitions ==
  ASSUME NEW s \in {"NEW", "PARTIALLY_FILLED"}
  PROVE  /\ Transition(s, "FILLED") = "FILLED"
         /\ Transition(s, "PARTIALLY_FILLED") = "PARTIALLY_FILLED"
  BY DEF Transition, ValidTransitions

(* The statuses, the fills, the order book and the submission tasks stay in *)
(* step: the safety invariant of the component.                             *)
THEOREM InvariantHolds == Spec => []IInv
<1>1. Init => IInv
  BY DEF Init, IInv, TypeOK, StatusMatchesFills, BookShowsWorkingOrders,
         PendingNewIffSubmitting, NoRequest, OrderStatus
<1>2. IInv /\ TypeOK' /\ [Next]_vars => IInv'
  <2> SUFFICES ASSUME IInv, TypeOK', [Next]_vars PROVE IInv'
    OBVIOUS
  <2> USE RequestsAssumption, FillsAssumption
      DEF IInv, TypeOK, StatusMatchesFills, BookShowsWorkingOrders, PendingNewIffSubmitting
  <2>1. ASSUME NEW o \in Orders, NEW r \in Requests, CreateOrder(o, r) PROVE IInv'
    BY <2>1 DEF CreateOrder, Request
  <2>2. ASSUME NEW o \in Orders, SubmitOrder(o) PROVE IInv'
    BY <2>2 DEF SubmitOrder, ValidTransitions
  <2>3. ASSUME NEW o \in Orders, AsyncReject(o) PROVE IInv'
    BY <2>3 DEF AsyncReject, Transition, ValidTransitions
  <2>4. ASSUME NEW o \in Orders, AsyncAccept(o) PROVE IInv'
    BY <2>4 DEF AsyncAccept, Transition, ValidTransitions
  <2>5. ASSUME NEW o \in Orders, CancelOrder(o) PROVE IInv'
    BY <2>5 DEF CancelOrder, ValidTransitions
  <2>6. ASSUME NEW o \in Orders, ClockPasses(o) PROVE IInv'
    BY <2>6 DEF ClockPasses
  <2>7. ASSUME NEW o \in Orders, NEW q \in FillSizes, NEW p \in FillPrices, FillOrder(o, q, p)
        PROVE  IInv'
    <3>1. /\ q \in Nat \ {0} /\ filled[o] \in Nat /\ request[o].quantity \in Nat
          /\ status[o] \in {"NEW", "PARTIALLY_FILLED"}
          /\ filled[o] + q <= request[o].quantity
      BY <2>7 DEF FillOrder, FillEffect, CanFill, Remaining, Request, NoRequest
    <3>2. CASE filled[o] + q = request[o].quantity
      <4>1. FillStatus(o, q) = "FILLED"
        BY <3>1, <3>2 DEF FillStatus
      <4>2. status' = [status EXCEPT ![o] = "FILLED"] /\ active' = active \ {o}
        BY <2>7, <3>1, <4>1, FillTransitions DEF FillOrder, FillEffect
      <4>3. QED
        BY <2>7, <3>1, <3>2, <4>2 DEF FillOrder, FillEffect
    <3>3. CASE filled[o] + q < request[o].quantity
      <4>1. FillStatus(o, q) = "PARTIALLY_FILLED"
        BY <3>1, <3>3 DEF FillStatus
      <4>2. status' = [status EXCEPT ![o] = "PARTIALLY_FILLED"] /\ active' = active
        BY <2>7, <3>1, <4>1, FillTransitions DEF FillOrder, FillEffect
      <4>3. QED
        BY <2>7, <3>1, <3>3, <4>2 DEF FillOrder, FillEffect
    <3>4. filled[o] + q = request[o].quantity \/ filled[o] + q < request[o].quantity
      BY ONLY <3>1
    <3>5. QED
      BY ONLY <3>2, <3>3, <3>4
  <2>8. CASE ExpireOrders
    BY <2>8 DEF ExpireOrders, Transition, ValidTransitions
  <2>9. CASE UNCHANGED vars
    BY <2>9 DEF vars
  <2>10. QED
    BY <2>1, <2>2, <2>3, <2>4, <2>5, <2>6, <2>7, <2>8, <2>9 DEF Next
<1>3. QED
  BY <1>1, <1>2, TypeCorrect, PTL DEF Spec

(* The statuses always say what was executed. *)
COROLLARY StatusesMatchFills == Spec => []StatusMatchesFills
  BY InvariantHolds, PTL DEF IInv

(* The order book always shows the working orders. *)
COROLLARY BookIsConsistent == Spec => []BookShowsWorkingOrders
  BY InvariantHolds, PTL DEF IInv

(* A submission task never finds that its order moved on. *)
COROLLARY SubmissionsAreCurrent == Spec => []PendingNewIffSubmitting
  BY InvariantHolds, PTL DEF IInv

(* Weighted averages on one side of a limit stay on that side. *)
LEMMA AverageStep ==
  ASSUME NEW c \in Nat, NEW f \in Nat, NEW q \in Nat, NEW p \in Nat, NEW limit \in Nat
  PROVE  /\ c <= f * limit /\ p <= limit => c + q * p <= (f + q) * limit
         /\ c >= f * limit /\ p >= limit => c + q * p >= (f + q) * limit
  OBVIOUS

(* An order without a fill has no cost: what AverageWithinLimit needs when  *)
(* create_order sets the limit.                                             *)
CostOfNothing == \A o \in Orders : filled[o] = 0 => cost[o] = 0

(* Only create_order sets a limit and only fill_order moves the average.    *)
LEMMA FillsMoveTheAverage ==
  ASSUME TypeOK, Next
  PROVE  \/ \E o \in Orders, r \in Requests : CreateOrder(o, r)
         \/ \E o \in Orders, q \in FillSizes, p \in FillPrices : FillOrder(o, q, p)
         \/ UNCHANGED <<request, filled, cost>>
  BY DEF Next, SubmitOrder, AsyncReject, AsyncAccept, CancelOrder, ClockPasses, ExpireOrders

(* However fill_order averages, a LIMIT order's average never crosses its   *)
(* limit.                                                                   *)
THEOREM AverageStaysWithinLimit == Spec => []AverageWithinLimit
<1> DEFINE AInv == AverageWithinLimit /\ CostOfNothing
<1>1. Init => AInv
  BY DEF Init, AverageWithinLimit, CostOfNothing, NoRequest
<1>2. IInv /\ AInv /\ [Next]_vars => AInv'
  <2> SUFFICES ASSUME IInv, AInv, [Next]_vars PROVE AInv'
    OBVIOUS
  <2> USE RequestsAssumption, FillsAssumption
      DEF IInv, TypeOK, AverageWithinLimit, CostOfNothing
  <2>1. ASSUME NEW o \in Orders, NEW r \in Requests, CreateOrder(o, r) PROVE AInv'
    <3>1. cost[o] = 0 /\ filled[o] = 0 /\ r.price \in Nat
      BY <2>1 DEF CreateOrder, StatusMatchesFills, Request
    <3>2. QED
      BY <2>1, <3>1 DEF CreateOrder
  <2>2. ASSUME NEW o \in Orders, NEW q \in FillSizes, NEW p \in FillPrices, FillOrder(o, q, p)
        PROVE  AInv'
    <3> DEFINE r == request[o]
    <3>1. /\ q \in Nat \ {0} /\ p \in Nat /\ filled[o] \in Nat /\ cost[o] \in Nat
          /\ r.price \in Nat /\ r.order_type \in {"MARKET", "LIMIT"} /\ r.side \in {"BUY", "SELL"}
      BY DEF Request, NoRequest
    <3>2. /\ request' = request
          /\ filled' = [filled EXCEPT ![o] = @ + q] /\ cost' = [cost EXCEPT ![o] = @ + q * p]
          /\ PriceWithinLimit(r, p)
      BY <2>2 DEF FillOrder, FillEffect, CanFill
    <3>3. r.order_type = "LIMIT" =>
            IF r.side = "BUY" THEN cost[o] + q * p <= (filled[o] + q) * r.price
                              ELSE cost[o] + q * p >= (filled[o] + q) * r.price
      BY <3>1, <3>2, AverageStep DEF PriceWithinLimit
    <3>4. filled[o] + q # 0
      BY <3>1
    <3>5. QED
      BY <3>1, <3>2, <3>3, <3>4
  <2>3. CASE UNCHANGED <<request, filled, cost>>
    BY <2>3
  <2>4. QED
    BY <2>1, <2>2, <2>3, FillsMoveTheAverage DEF vars
<1>3. QED
  BY <1>1, <1>2, InvariantHolds, PTL DEF Spec

-----------------------------------------------------------------------------
(* The manager implements OrderPromise: executions accumulate up to the     *)
(* order's size, a completely executed order is done, and no callback-free  *)
(* step touches an order that is done.                                      *)
THEOREM ImplementsPromise == Spec => KeepsPromise
<1>1. Init => Promise!Init
  BY DEF Init, Promise!Init, PhaseOf, NoRequest, Final
<1>2. IInv /\ IInv' /\ [Next]_vars => [Promise!Next]_Promise!vars
  <2> SUFFICES ASSUME IInv, IInv', Next, NEW x \in Orders
               PROVE  Promise!Place(x) \/ Promise!Execute(x) \/ Promise!Close(x) \/ Promise!Rest(x)
    BY DEF Promise!Next, Promise!vars, vars
  <2> USE RequestsAssumption, FillsAssumption DEF IInv, TypeOK
  <2> DEFINE Same == request'[x] = request[x] /\ filled'[x] = filled[x]
  <2>1. Same /\ PhaseOf(status'[x]) = PhaseOf(status[x]) => Promise!Rest(x)
    BY DEF Promise!Rest
  <2>2. Same /\ PhaseOf(status[x]) = "open" /\ PhaseOf(status'[x]) = "done" => Promise!Close(x)
    BY DEF Promise!Close
  <2>3. ASSUME NEW o \in Orders, NEW r \in Requests, CreateOrder(o, r) PROVE Promise!Place(x) \/ Promise!Rest(x)
    BY <2>1, <2>3 DEF CreateOrder, PhaseOf, Final, Promise!Place
  <2>4. ASSUME NEW o \in Orders,
               SubmitOrder(o) \/ AsyncReject(o) \/ AsyncAccept(o) \/ CancelOrder(o) \/ ClockPasses(o)
        PROVE  Promise!Close(x) \/ Promise!Rest(x)
    <3>1. CASE SubmitOrder(o)
      BY <2>1, <3>1 DEF SubmitOrder, ValidTransitions, PhaseOf, Final
    <3>2. CASE AsyncReject(o)
      BY <2>1, <2>2, <3>2 DEF AsyncReject, Transition, ValidTransitions, PhaseOf, Final
    <3>3. CASE AsyncAccept(o)
      BY <2>1, <3>3 DEF AsyncAccept, Transition, ValidTransitions, PhaseOf, Final
    <3>4. CASE CancelOrder(o)
      BY <2>1, <3>4 DEF CancelOrder, IsActive, PhaseOf, Final
    <3>5. CASE ClockPasses(o)
      BY <2>1, <3>5 DEF ClockPasses
    <3>6. QED
      BY <2>4, <3>1, <3>2, <3>3, <3>4, <3>5
  <2>5. ASSUME NEW o \in Orders, NEW q \in FillSizes, NEW p \in FillPrices, FillOrder(o, q, p)
        PROVE  Promise!Execute(x) \/ Promise!Rest(x)
    <3>1. CASE x # o
      BY <2>1, <2>5, <3>1 DEF FillOrder, FillEffect
    <3>2. CASE x = o
      <4>1. /\ filled'[x] = filled[x] + q /\ q \in Nat \ {0} /\ request' = request
            /\ status[x] \in {"NEW", "PARTIALLY_FILLED"}
        BY <2>5, <3>2 DEF FillOrder, FillEffect, CanFill
      <4>2. /\ filled'[x] > filled[x] /\ filled'[x] <= request[x].quantity
            /\ (status'[x] = "FILLED") <=> (filled'[x] = request[x].quantity)
        BY <4>1 DEF StatusMatchesFills
      <4>3. status'[x] \in {"FILLED", "PARTIALLY_FILLED"}
        BY <2>5, <3>2, <4>1, FillTransitions DEF FillOrder, FillStatus
      <4>4. QED
        BY <4>1, <4>2, <4>3 DEF Promise!Execute, PhaseOf, Final
    <3>3. QED
      BY <3>1, <3>2
  <2>6. CASE ExpireOrders
    BY <2>1, <2>2, <2>6 DEF ExpireOrders, Transition, ValidTransitions, PhaseOf, Final
  <2>7. QED
    BY <2>3, <2>4, <2>5, <2>6 DEF Next
<1>3. QED
  BY <1>1, <1>2, InvariantHolds, PTL DEF Spec, KeepsPromise, Promise!Spec

-----------------------------------------------------------------------------
(* ComplexOrders *)

(* An order that was never created belongs to nothing and has no fill. *)
BlankIfAbsent == \A o \in Orders : status[o] = "ABSENT" => group[o] = NoGroup /\ filled[o] = 0

(* An OCO group has no members but its legs, exits no group but their own.  *)
GroupsFit ==
  \A o \in Orders :
    /\ group[o] \in OcoIds => o \in LegsOf[group[o]]
    /\ \A e, b \in Entries : group[o] = <<"EXITS", e, b>> => o \in {TpId(e, b), SlId(e, b)}

(* _cancel_siblings is registered once there is a group it is for. *)
HookIsSet == \A o \in Orders : group[o] \in Ocos => ocoHook

Stopped(s) == s \in {"PENDING_CANCEL", "CANCELLED", "REJECTED", "EXPIRED"}

(* Once a leg is FILLED, every sibling that was at the broker by then can   *)
(* no longer be filled.                                                     *)
SiblingsAreStopped ==
  \A a, b \in Orders :
    a # b /\ group[a] \in Ocos /\ group[a] = group[b] /\ status[a] = "FILLED"
      => a \in late \/ b \in late \/ Stopped(status[b])

(* An entry has the callback of its own bracket. *)
EntriesHaveBrackets == \A e \in Entries : status[e] # "ABSENT" => e \in brackets

(* An iceberg has one slice, which was cut to display_size. *)
IcebergHasOneSlice ==
  \A i \in Icebergs :
    /\ status[i] = "ABSENT" => SlicesOf(i) = {} /\ revealed[i] = 0
    /\ \A s, t \in SlicesOf(i) : s = t
    /\ \A s \in SlicesOf(i) : request[s].quantity <= DisplaySize

ComplexInv ==
  /\ ComplexTypeOK /\ BlankIfAbsent /\ GroupsFit /\ HookIsSet /\ EntriesHaveBrackets
  /\ SiblingsAreStopped /\ ExitsMatchTheirEntry /\ IcebergHasOneSlice

-----------------------------------------------------------------------------
(* The ids of exits and slices. *)
LEMMA ExitFacts ==
  ASSUME NEW e \in Entries, NEW b \in Entries
  PROVE  /\ {TpId(e, b), SlId(e, b)} = {"TP", "SL"} \X {e} \X {b}
         /\ TpId(e, b) \in ExitIds /\ SlId(e, b) \in ExitIds
         /\ TpId(e, b) \in Orders /\ SlId(e, b) \in Orders
         /\ TpId(e, b)[2] = e /\ SlId(e, b)[2] = e /\ TpId(e, b)[3] = b /\ SlId(e, b)[3] = b
  BY IdsAssumption DEF TpId, SlId, ExitIds

LEMMA ExitIdIsOfAnEntry ==
  ASSUME NEW x \in ExitIds
  PROVE  /\ x \in Orders /\ x[2] \in Entries /\ x[3] \in Entries
         /\ x \in {TpId(x[2], x[3]), SlId(x[2], x[3])}
         /\ x \notin Entries /\ x \notin Icebergs /\ x \notin SliceIds
         /\ \A g \in OcoIds : x \notin LegsOf[g]
  BY IdsAssumption, DistinctAssumption DEF TpId, SlId, ExitIds, SliceIds

LEMMA SliceIdFacts ==
  ASSUME NEW s \in SliceIds
  PROVE  /\ s \in Orders /\ s[2] \in Icebergs
         /\ s \notin Entries /\ s \notin Icebergs /\ s \notin ExitIds
         /\ \A g \in OcoIds : s \notin LegsOf[g]
  BY IdsAssumption, DistinctAssumption DEF SliceIds, ExitIds

LEMMA LegFacts ==
  ASSUME NEW g \in OcoIds, NEW o \in LegsOf[g]
  PROVE  /\ o \in Orders /\ o \notin Entries /\ o \notin Icebergs
         /\ o \notin ExitIds /\ o \notin SliceIds
         /\ \A h \in OcoIds : o \in LegsOf[h] => h = g
  BY IdsAssumption, DistinctAssumption

(* The exits a fill places are those of its own entry. *)
LEMMA ExitsPlacedFacts ==
  ASSUME NEW o \in Orders, NEW x \in ExitsPlacedBy(o), brackets \subseteq Entries
  PROVE  /\ o \in Entries /\ x \in ExitIds /\ x[2] = o /\ x[3] \in brackets
         /\ x # o /\ x \in Orders /\ x \in {TpId(o, x[3]), SlId(o, x[3])}
<1>1. o \in Entries /\ x \in {"TP", "SL"} \X {o} \X brackets
  BY DEF ExitsPlacedBy, BracketsTriggeredBy
<1>2. x \in ExitIds /\ x[2] = o /\ x[3] \in brackets
  BY <1>1 DEF ExitIds
<1>3. QED
  BY <1>1, <1>2, ExitIdIsOfAnEntry

(* The first slice of an iceberg is an id of its own that is still free. *)
LEMMA FirstSlice ==
  ASSUME NEW i \in Icebergs, SlicesOf(i) = {}
  PROVE  /\ NewSliceId(i) \in SliceIds /\ NewSliceId(i)[2] = i
         /\ status[NewSliceId(i)] = "ABSENT" /\ NewSliceId(i) # i
<1>1. <<"SLICE", i, 1>> \in SliceIds /\ <<"SLICE", i, 1>>[2] = i
  BY SizesAssumption DEF SliceIds
<1>2. \E s \in SliceIds : s[2] = i /\ s \notin SlicesOf(i)
  BY <1>1
<1>3. NewSliceId(i) \in SliceIds /\ NewSliceId(i)[2] = i /\ NewSliceId(i) \notin SlicesOf(i)
  BY <1>2 DEF NewSliceId
<1>4. QED
  BY <1>3, SliceIdFacts DEF SlicesOf

(* _check_reveal_next asks for a completely filled slice, but PARTIALLY_    *)
(* FILLED is only asked for while a rest is left: no slice is revealed.     *)
LEMMA NothingIsRevealed ==
  ASSUME NEW o \in Orders, NEW q \in FillSizes, NEW p \in FillPrices, ComplexTypeOK,
         FillEffect(o, q, p), FillStatus(o, q) # "FILLED"
  PROVE  ~RevealsNext(o, "PARTIALLY_FILLED")
<1>1. q \in Nat /\ filled[o] \in Nat /\ request[o].quantity \in Nat
  BY FillsAssumption DEF ComplexTypeOK, Request
<1>2. filled'[o] = filled[o] + q
  BY <1>1 DEF FillEffect, ComplexTypeOK
<1>3. ~(filled[o] + q >= request[o].quantity)
  BY DEF FillStatus
<1>4. QED
  BY <1>2, <1>3 DEF RevealsNext

-----------------------------------------------------------------------------
(* What a step, callbacks included, can do to one order. *)

Kept(x) == request'[x] = request[x] /\ filled'[x] = filled[x] /\ group'[x] = group[x]
Stays(x) == Kept(x) /\ status'[x] = status[x]
Moves(x) ==
  /\ Kept(x) /\ <<status[x], status'[x]>> \in ValidTransitions
  /\ status'[x] \notin {"FILLED", "PARTIALLY_FILLED"}
Appears(x) ==
  /\ status[x] = "ABSENT" /\ status'[x] \in {"CREATED", "PENDING_NEW"}
  /\ filled'[x] = filled[x]
Fills(x) ==
  /\ request'[x] = request[x] /\ group'[x] = group[x]
  /\ status[x] \in {"NEW", "PARTIALLY_FILLED"}
  /\ filled'[x] > filled[x] /\ filled'[x] <= request[x].quantity
  /\ status'[x] = IF filled'[x] = request[x].quantity THEN "FILLED" ELSE "PARTIALLY_FILLED"

(* The handlers of OrderLifecycle without a callback move one order, or     *)
(* those an expiry sweep finds, along VALID_TRANSITIONS.                    *)
PlainStep ==
  /\ \/ \E o \in Orders \ Icebergs : SubmitOrder(o)
     \/ \E o \in Orders : AsyncReject(o) \/ AsyncAccept(o) \/ CancelOrder(o) \/ ClockPasses(o)
     \/ ExpireOrders
  /\ UNCHANGED complexVars

LEMMA PlainStepOnOne ==
  ASSUME ComplexTypeOK, PlainStep, NEW x \in Orders
  PROVE  Stays(x) \/ Moves(x)
<1> USE DEF ComplexTypeOK, Stays, Moves, Kept, complexVars
<1>0. group'[x] = group[x]
  BY DEF PlainStep
<1>1. ASSUME NEW o \in Orders, SubmitOrder(o) PROVE Stays(x) \/ Moves(x)
  BY <1>0, <1>1 DEF SubmitOrder
<1>2. ASSUME NEW o \in Orders, AsyncReject(o) PROVE Stays(x) \/ Moves(x)
  BY <1>0, <1>2 DEF AsyncReject, Transition
<1>3. ASSUME NEW o \in Orders, AsyncAccept(o) PROVE Stays(x) \/ Moves(x)
  BY <1>0, <1>3 DEF AsyncAccept, Transition
<1>4. ASSUME NEW o \in Orders, CancelOrder(o) PROVE Stays(x) \/ Moves(x)
  BY <1>0, <1>4 DEF CancelOrder
<1>5. ASSUME NEW o \in Orders, ClockPasses(o) PROVE Stays(x) \/ Moves(x)
  BY <1>0, <1>5 DEF ClockPasses
<1>6. CASE ExpireOrders
  BY <1>0, <1>6 DEF ExpireOrders, Transition
<1>7. QED
  BY <1>1, <1>2, <1>3, <1>4, <1>5, <1>6 DEF PlainStep

(* A fill as its own order sees it. *)
LEMMA FilledOrder ==
  ASSUME ComplexInv, NEW o \in Orders, NEW q \in FillSizes, NEW p \in FillPrices, ComplexFill(o, q, p)
  PROVE  /\ Fills(o) /\ status'[o] = FillStatus(o, q)
         /\ \A x \in Orders : x # o => filled'[x] = filled[x]
<1> USE DEF ComplexInv, ComplexTypeOK
<1>1. /\ q \in Nat \ {0} /\ filled[o] \in Nat /\ request[o].quantity \in Nat
      /\ status[o] \in {"NEW", "PARTIALLY_FILLED"} /\ filled[o] + q <= request[o].quantity
  BY FillsAssumption DEF ComplexFill, FillEffect, CanFill, Remaining, Request
<1>2. filled' = [filled EXCEPT ![o] = @ + q]
  BY DEF ComplexFill, FillEffect
<1>3. filled'[o] = filled[o] + q
  BY <1>2
<1>4. FillStatus(o, q) = IF filled'[o] = request[o].quantity THEN "FILLED" ELSE "PARTIALLY_FILLED"
  BY <1>1, <1>3 DEF FillStatus
<1>5. CASE FillStatus(o, q) = "FILLED"
  <2>1. OnFilled(o) /\ o \notin ExitsPlacedBy(o)
    BY <1>5, ExitsPlacedFacts DEF ComplexFill
  <2>2. status'[o] = "FILLED" /\ request'[o] = request[o] /\ group'[o] = group[o]
    BY <2>1 DEF OnFilled
  <2>3. QED
    BY <1>1, <1>2, <1>3, <1>4, <1>5, <2>2 DEF Fills
<1>6. CASE FillStatus(o, q) # "FILLED"
  <2>1. OnPartiallyFilled(o) /\ ~RevealsNext(o, "PARTIALLY_FILLED")
    BY <1>6, NothingIsRevealed DEF ComplexFill
  <2>2. status'[o] = "PARTIALLY_FILLED" /\ request' = request /\ group' = group
    BY <2>1 DEF OnPartiallyFilled
  <2>3. QED
    BY <1>1, <1>2, <1>3, <1>4, <1>6, <2>2 DEF Fills
<1>7. QED
  BY <1>5, <1>6

(* A complete fill as the other orders see it: exits appear, siblings that  *)
(* work are asked to cancel, the rest does not notice.                      *)
LEMMA OthersAtAFill ==
  ASSUME ComplexInv, NEW o \in Orders, NEW q \in FillSizes, NEW p \in FillPrices, ComplexFill(o, q, p),
         NEW x \in Orders, x # o
  PROVE  Stays(x) \/ Moves(x) \/ (Appears(x) /\ x \in ExitsPlacedBy(o))
<1> USE DEF ComplexInv, ComplexTypeOK
<1>1. filled'[x] = filled[x]
  BY FilledOrder
<1>2. CASE FillStatus(o, q) = "FILLED"
  <2>1. OnFilled(o)
    BY <1>2 DEF ComplexFill
  <2>2. CASE x \in ExitsPlacedBy(o)
    <3>1. status[o] # "FILLED" /\ o \in Entries /\ x[3] \in Entries /\ x \in {TpId(o, x[3]), SlId(o, x[3])}
      BY <2>2, FilledOrder, ExitsPlacedFacts DEF Fills
    <3>2. status[x] = "ABSENT"
      BY <3>1 DEF ExitsMatchTheirEntry
    <3>3. status'[x] = "CREATED"
      BY <2>1, <2>2, ExitsPlacedFacts DEF OnFilled
    <3>4. QED
      BY <1>1, <2>2, <3>2, <3>3 DEF Appears
  <2>3. CASE x \notin ExitsPlacedBy(o)
    <3>1. Kept(x)
      BY <1>1, <2>1, <2>3 DEF OnFilled, Kept
    <3>2. status'[x] \in {status[x], Transition(status[x], "PENDING_CANCEL")}
      BY <2>1, <2>3 DEF OnFilled
    <3>3. QED
      BY <3>1, <3>2 DEF Stays, Moves, Transition
  <2>4. QED
    BY <2>2, <2>3
<1>3. CASE FillStatus(o, q) # "FILLED"
  <2>1. OnPartiallyFilled(o) /\ ~RevealsNext(o, "PARTIALLY_FILLED")
    BY <1>3, NothingIsRevealed DEF ComplexFill
  <2>2. QED
    BY <1>1, <2>1 DEF OnPartiallyFilled, Stays, Kept
<1>4. QED
  BY <1>2, <1>3

(* Every step, order by order. *)
LEMMA StepOnOne ==
  ASSUME ComplexInv, ComplexNext, NEW x \in Orders
  PROVE  Stays(x) \/ Moves(x) \/ Appears(x) \/ Fills(x)
<1> USE DEF ComplexInv, ComplexTypeOK
<1>1. ASSUME NEW g \in OcoIds, CreateOco(g) PROVE Stays(x) \/ Appears(x)
  BY <1>1 DEF CreateOco, Stays, Kept, Appears
<1>2. ASSUME NEW e \in Entries, NEW r \in Requests, CreateBracket(e, r) PROVE Stays(x) \/ Appears(x)
  BY <1>2, IdsAssumption DEF CreateBracket, CreateOrder, Stays, Kept, Appears
<1>3. ASSUME NEW i \in Icebergs, NEW r \in Requests, CreateIceberg(i, r) PROVE Stays(x) \/ Appears(x)
  <2>1. SlicesOf(i) = {} /\ status[i] = "ABSENT"
    BY <1>3 DEF CreateIceberg, IcebergHasOneSlice
  <2> DEFINE s == NewSliceId(i)
  <2>2. status[s] = "ABSENT" /\ s # i /\ s \in Orders /\ i \in Orders
    BY <2>1, FirstSlice, SliceIdFacts, IdsAssumption
  <2> HIDE DEF s
  <2>3. /\ status' = [status EXCEPT ![i] = "CREATED", ![s] = "PENDING_NEW"]
        /\ \A y \in Orders : y # i /\ y # s => request'[y] = request[y]
        /\ filled' = filled /\ group' = [group EXCEPT ![s] = <<"ICEBERG", i>>]
    BY <1>3 DEF CreateIceberg, s
  <2>4. QED
    BY <2>1, <2>2, <2>3 DEF Stays, Kept, Appears
<1>4. ASSUME NEW o \in Orders, NEW q \in FillSizes, NEW p \in FillPrices, ComplexFill(o, q, p)
      PROVE  Stays(x) \/ Moves(x) \/ Appears(x) \/ Fills(x)
  BY <1>4, FilledOrder, OthersAtAFill
<1>5. CASE PlainStep
  BY <1>5, PlainStepOnOne
<1>6. QED
  BY <1>1, <1>2, <1>3, <1>4, <1>5 DEF ComplexNext, PlainStep

-----------------------------------------------------------------------------
(* ComplexTypeOK is preserved. *)

LEMMA RequestTypes ==
  /\ NoRequest \in Request
  /\ \A r \in Request, n \in Nat : [r EXCEPT !.quantity = n] \in Request
  BY DEF NoRequest, Request

(* An exit is a well-formed request for what was executed. *)
LEMMA ExitRequestType ==
  ASSUME NEW x \in ExitIds, filled'[x[2]] \in Nat
  PROVE  ExitRequest(x) \in Request /\ ExitRequest(x).quantity = filled'[x[2]]
  BY SizesAssumption DEF ExitRequest, Request

LEMMA TypeStep ==
  ASSUME ComplexInv, ComplexNext
  PROVE  ComplexTypeOK'
<1> USE RequestsAssumption, FillsAssumption DEF ComplexInv, ComplexTypeOK
<1>1. ASSUME NEW g \in OcoIds, CreateOco(g) PROVE ComplexTypeOK'
  <2>1. PICK r \in [LegsOf[g] -> Requests] :
          request' = [o \in Orders |-> IF o \in LegsOf[g] THEN r[o] ELSE request[o]]
    BY <1>1 DEF CreateOco
  <2>2. request' \in [Orders -> Request]
    BY <2>1
  <2>3. group' \in [Orders -> Groups] /\ ocoHook' \in BOOLEAN
    BY <1>1 DEF CreateOco, Groups, Ocos
  <2>4. status' \in [Orders -> OrderStatus \union {"ABSENT"}]
    BY <1>1 DEF CreateOco, OrderStatus
  <2>5. QED
    BY <1>1, <2>2, <2>3, <2>4 DEF CreateOco
<1>2. ASSUME NEW e \in Entries, NEW r \in Requests, CreateBracket(e, r) PROVE ComplexTypeOK'
  <2>1. group' \in [Orders -> Groups] /\ brackets' \subseteq Entries
    BY <1>2 DEF CreateBracket, Groups, OtherGroups
  <2>2. QED
    BY <1>2, <2>1 DEF CreateBracket, CreateOrder, OrderStatus
<1>3. ASSUME NEW i \in Icebergs, NEW r \in Requests, CreateIceberg(i, r) PROVE ComplexTypeOK'
  <2> DEFINE s == NewSliceId(i)
             size == NextSlice(i, r.quantity)
  <2>1. s \in Orders /\ i \in Orders /\ revealed[i] = 0
    BY <1>3, FirstSlice, SliceIdFacts, IdsAssumption DEF CreateIceberg, IcebergHasOneSlice
  <2>2. r.quantity \in Nat /\ size \in Nat
    BY <2>1, SizesAssumption DEF NextSlice, Request
  <2>3. [r EXCEPT !.quantity = size] \in Request
    BY <2>2, RequestTypes
  <2> HIDE DEF s, size
  <2>4. request' \in [Orders -> Request]
    BY <1>3, <2>3 DEF CreateIceberg, s, size
  <2>5. group' \in [Orders -> Groups]
    BY <1>3 DEF CreateIceberg, Groups, OtherGroups
  <2>6. revealed' \in [Icebergs -> Nat]
    BY <1>3, <2>2 DEF CreateIceberg, size
  <2>7. status' \in [Orders -> OrderStatus \union {"ABSENT"}] /\ submitting' \subseteq Orders
    BY <1>3, <2>1 DEF CreateIceberg, OrderStatus, s
  <2>8. QED
    BY <1>3, <2>4, <2>5, <2>6, <2>7 DEF CreateIceberg
<1>4. ASSUME NEW o \in Orders, NEW q \in FillSizes, NEW p \in FillPrices, ComplexFill(o, q, p)
      PROVE  ComplexTypeOK'
  <2>1. q \in Nat /\ p \in Nat /\ q * p \in Nat
    OBVIOUS
  <2>2. /\ filled' \in [Orders -> Nat] /\ cost' \in [Orders -> Nat] /\ audited' \in [Orders -> Nat]
        /\ active' \subseteq Orders /\ overdue' \subseteq Orders /\ brackets' \subseteq Entries
    BY <1>4, <2>1 DEF ComplexFill, FillEffect
  <2>3. CASE FillStatus(o, q) = "FILLED"
    <3>1. OnFilled(o)
      BY <1>4, <2>3 DEF ComplexFill
    <3>2. \A x \in ExitsPlacedBy(o) : /\ x \in ExitIds /\ x[2] \in Entries /\ x[3] \in Entries
                                      /\ ExitRequest(x) \in Request
      BY <2>2, ExitsPlacedFacts, ExitIdIsOfAnEntry, ExitRequestType, IdsAssumption
    <3>3. request' \in [Orders -> Request]
      BY <3>1, <3>2 DEF OnFilled
    <3>4. group' \in [Orders -> Groups]
      BY <3>1, <3>2 DEF OnFilled, Groups, Ocos, ExitGroups
    <3>5. status' \in [Orders -> OrderStatus \union {"ABSENT"}]
      BY <3>1, TransitionType DEF OnFilled, OrderStatus
    <3>6. late' \subseteq Orders /\ submitting' \subseteq Orders /\ revealed' \in [Icebergs -> Nat]
      BY <3>1 DEF OnFilled, Siblings
    <3>7. ocoHook' \in BOOLEAN
      BY <3>1 DEF OnFilled
    <3>8. QED
      BY <2>2, <3>3, <3>4, <3>5, <3>6, <3>7
  <2>4. CASE FillStatus(o, q) # "FILLED"
    <3>1. OnPartiallyFilled(o) /\ ~RevealsNext(o, "PARTIALLY_FILLED")
      BY <1>4, <2>4, NothingIsRevealed DEF ComplexFill
    <3>2. QED
      BY <2>2, <3>1 DEF OnPartiallyFilled, OrderStatus
  <2>5. QED
    BY <2>3, <2>4
<1>5. CASE PlainStep
  <2>1. \A x \in Orders : status'[x] \in OrderStatus \union {"ABSENT"}
    <3> TAKE x \in Orders
    <3>1. Stays(x) \/ Moves(x)
      BY <1>5, PlainStepOnOne
    <3>2. QED
      BY <3>1 DEF Stays, Moves, ValidTransitions, OrderStatus
  <2>2. ASSUME NEW o \in Orders, SubmitOrder(o) \/ AsyncReject(o) \/ AsyncAccept(o) \/ CancelOrder(o) \/ ClockPasses(o)
        PROVE  /\ UNCHANGED <<request, filled, cost, audited>> /\ DOMAIN status' = Orders
               /\ status' = [x \in Orders |-> status'[x]]
               /\ active' \subseteq Orders /\ submitting' \subseteq Orders /\ overdue' \subseteq Orders
    BY <2>2 DEF SubmitOrder, AsyncReject, AsyncAccept, CancelOrder, ClockPasses
  <2>3. ASSUME ExpireOrders
        PROVE  /\ UNCHANGED <<request, filled, cost, audited>> /\ DOMAIN status' = Orders
               /\ status' = [x \in Orders |-> status'[x]]
               /\ active' \subseteq Orders /\ submitting' \subseteq Orders /\ overdue' \subseteq Orders
    BY <2>3 DEF ExpireOrders
  <2>4. QED
    BY <1>5, <2>1, <2>2, <2>3 DEF PlainStep, complexVars
<1>6. QED
  BY <1>1, <1>2, <1>3, <1>4, <1>5 DEF ComplexNext, PlainStep

-----------------------------------------------------------------------------
(* What is put in place besides the statuses. *)

(* The quantity of an order only grows through fill_order called for it. *)
LEMMA FillsComeFromReports ==
  ASSUME ComplexInv, ComplexNext, NEW x \in Orders, Fills(x)
  PROVE  \E q \in FillSizes, p \in FillPrices : ComplexFill(x, q, p)
<1>1. filled'[x] # filled[x]
  BY DEF Fills, ComplexInv, ComplexTypeOK
<1>2. ASSUME NEW g \in OcoIds, CreateOco(g) PROVE FALSE
  BY <1>1, <1>2 DEF CreateOco
<1>3. ASSUME NEW e \in Entries, NEW r \in Requests, CreateBracket(e, r) PROVE FALSE
  BY <1>1, <1>3 DEF CreateBracket, CreateOrder
<1>4. ASSUME NEW i \in Icebergs, NEW r \in Requests, CreateIceberg(i, r) PROVE FALSE
  BY <1>1, <1>4 DEF CreateIceberg
<1>5. ASSUME NEW o \in Orders, NEW q \in FillSizes, NEW p \in FillPrices, ComplexFill(o, q, p) PROVE o = x
  BY <1>1, <1>5, FilledOrder
<1>6. CASE PlainStep
  BY <1>1, <1>6, PlainStepOnOne DEF Stays, Moves, Kept, ComplexInv
<1>7. QED
  BY <1>2, <1>3, <1>4, <1>5, <1>6 DEF ComplexNext, PlainStep

(* Where the orders that appear come from. *)
LEMMA WhoAppears ==
  ASSUME ComplexInv, ComplexNext, NEW x \in Orders, Appears(x)
  PROVE  \/ \E g \in OcoIds : CreateOco(g) /\ x \in LegsOf[g]
         \/ x \in Entries /\ \E r \in Requests : CreateBracket(x, r)
         \/ \E i \in Icebergs, r \in Requests : CreateIceberg(i, r) /\ x \in {i, NewSliceId(i)}
         \/ \E o \in Orders, q \in FillSizes, p \in FillPrices :
               ComplexFill(o, q, p) /\ FillStatus(o, q) = "FILLED" /\ x \in ExitsPlacedBy(o)
<1> USE DEF ComplexInv, ComplexTypeOK
<1>1. status'[x] # status[x] /\ status[x] = "ABSENT" /\ ~Moves(x) /\ ~Fills(x)
  BY DEF Appears, Moves, Fills, ValidTransitions
<1>2. ASSUME NEW g \in OcoIds, CreateOco(g) PROVE x \in LegsOf[g]
  BY <1>1, <1>2 DEF CreateOco
<1>3. ASSUME NEW e \in Entries, NEW r \in Requests, CreateBracket(e, r) PROVE x = e
  BY <1>1, <1>3 DEF CreateBracket, CreateOrder
<1>4. ASSUME NEW i \in Icebergs, NEW r \in Requests, CreateIceberg(i, r) PROVE x \in {i, NewSliceId(i)}
  BY <1>1, <1>4 DEF CreateIceberg
<1>5. ASSUME NEW o \in Orders, NEW q \in FillSizes, NEW p \in FillPrices, ComplexFill(o, q, p)
      PROVE  FillStatus(o, q) = "FILLED" /\ x \in ExitsPlacedBy(o)
  <2>1. x # o
    BY <1>1, <1>5, FilledOrder
  <2>2. x \in ExitsPlacedBy(o)
    BY <1>1, <1>5, <2>1, OthersAtAFill DEF Stays
  <2>3. FillStatus(o, q) = "FILLED"
    <3>1. SUFFICES ASSUME FillStatus(o, q) # "FILLED" PROVE FALSE
      OBVIOUS
    <3>2. OnPartiallyFilled(o) /\ ~RevealsNext(o, "PARTIALLY_FILLED")
      BY <1>5, <3>1, NothingIsRevealed DEF ComplexFill
    <3>3. QED
      BY <1>1, <2>1, <3>2 DEF OnPartiallyFilled
  <2>4. QED
    BY <2>2, <2>3
<1>6. CASE PlainStep
  BY <1>1, <1>6, PlainStepOnOne DEF Stays
<1>7. QED
  BY <1>2, <1>3, <1>4, <1>5, <1>6 DEF ComplexNext, PlainStep

(* The order manager only ever registers callbacks and remembers. *)
LEMMA RegistersGrow ==
  ASSUME ComplexInv, ComplexNext
  PROVE  /\ brackets \subseteq brackets' /\ late \subseteq late' /\ (ocoHook => ocoHook')
<1>1. ASSUME NEW g \in OcoIds, CreateOco(g)
      PROVE  brackets' = brackets /\ late' = late /\ ocoHook'
  BY <1>1 DEF CreateOco
<1>2. ASSUME NEW e \in Entries, NEW r \in Requests, CreateBracket(e, r)
      PROVE  brackets \subseteq brackets' /\ late' = late /\ ocoHook' = ocoHook
  BY <1>2 DEF CreateBracket
<1>3. ASSUME NEW i \in Icebergs, NEW r \in Requests, CreateIceberg(i, r)
      PROVE  brackets' = brackets /\ late' = late /\ ocoHook' = ocoHook
  BY <1>3 DEF CreateIceberg
<1>4. ASSUME NEW o \in Orders, NEW q \in FillSizes, NEW p \in FillPrices, ComplexFill(o, q, p)
      PROVE  brackets' = brackets /\ late \subseteq late' /\ (ocoHook => ocoHook')
  BY <1>4 DEF ComplexFill, OnFilled, OnPartiallyFilled
<1>5. CASE PlainStep
  BY <1>5 DEF PlainStep, complexVars
<1>6. QED
  BY <1>1, <1>2, <1>3, <1>4, <1>5 DEF ComplexNext, PlainStep

(* Which orders enter a group, and how. *)
LEMMA WhoJoins ==
  ASSUME ComplexInv, ComplexNext, NEW x \in Orders, group'[x] # group[x]
  PROVE  \/ group'[x] \in OtherGroups
         \/ \E g \in OcoIds : CreateOco(g) /\ x \in LegsOf[g] /\ group'[x] = g
         \/ \E o \in Orders, q \in FillSizes, p \in FillPrices :
               /\ ComplexFill(o, q, p) /\ OnFilled(o)
               /\ x \in ExitsPlacedBy(o) /\ group'[x] = <<"EXITS", x[2], x[3]>>
<1> USE DEF ComplexInv, ComplexTypeOK
<1>1. ASSUME NEW g \in OcoIds, CreateOco(g) PROVE x \in LegsOf[g] /\ group'[x] = g
  BY <1>1 DEF CreateOco
<1>2. ASSUME NEW e \in Entries, NEW r \in Requests, CreateBracket(e, r) PROVE group'[x] \in OtherGroups
  BY <1>2 DEF CreateBracket, OtherGroups
<1>3. ASSUME NEW i \in Icebergs, NEW r \in Requests, CreateIceberg(i, r) PROVE group'[x] \in OtherGroups
  BY <1>3 DEF CreateIceberg, OtherGroups
<1>4. ASSUME NEW o \in Orders, NEW q \in FillSizes, NEW p \in FillPrices, ComplexFill(o, q, p)
      PROVE  OnFilled(o) /\ x \in ExitsPlacedBy(o) /\ group'[x] = <<"EXITS", x[2], x[3]>>
  <2>1. CASE FillStatus(o, q) = "FILLED"
    BY <1>4, <2>1 DEF ComplexFill, OnFilled
  <2>2. CASE FillStatus(o, q) # "FILLED"
    <3>1. OnPartiallyFilled(o) /\ ~RevealsNext(o, "PARTIALLY_FILLED")
      BY <1>4, <2>2, NothingIsRevealed DEF ComplexFill
    <3>2. QED
      BY <3>1 DEF OnPartiallyFilled
  <2>3. QED
    BY <2>1, <2>2
<1>5. CASE PlainStep
  BY <1>5 DEF PlainStep, complexVars
<1>6. QED
  BY <1>1, <1>2, <1>3, <1>4, <1>5 DEF ComplexNext, PlainStep

LEMMA GroupKinds ==
  /\ NoGroup \notin Ocos /\ \A g \in OtherGroups : g \notin Ocos
  /\ \A g \in ExitGroups : g \notin OcoIds
  /\ \A e, b \in Entries : <<"EXITS", e, b>> \in ExitGroups
<1>1. \A e, b \in Entries : <<"EXITS", e, b>> \in ExitGroups
  BY DEF ExitGroups
<1>2. QED
  BY <1>1, DistinctAssumption DEF NoGroup, OtherGroups, ExitGroups, Ocos

LEMMA BlankStep ==
  ASSUME ComplexInv, ComplexNext
  PROVE  BlankIfAbsent'
<1> SUFFICES ASSUME NEW x \in Orders, status'[x] = "ABSENT"
             PROVE  group'[x] = NoGroup /\ filled'[x] = 0
  BY DEF BlankIfAbsent
<1>1. Stays(x)
  BY StepOnOne DEF Moves, Appears, Fills, ValidTransitions
<1>2. QED
  BY <1>1 DEF Stays, Kept, ComplexInv, BlankIfAbsent

LEMMA GroupsStep ==
  ASSUME ComplexInv, ComplexNext
  PROVE  GroupsFit' /\ HookIsSet'
<1> USE DEF ComplexInv, ComplexTypeOK
<1> SUFFICES ASSUME NEW x \in Orders
             PROVE  /\ group'[x] \in OcoIds => x \in LegsOf[group'[x]]
                    /\ \A e, b \in Entries : group'[x] = <<"EXITS", e, b>> => x \in {TpId(e, b), SlId(e, b)}
                    /\ group'[x] \in Ocos => ocoHook'
  BY DEF GroupsFit, HookIsSet, TpId, SlId
<1>1. CASE group'[x] = group[x]
  BY <1>1, RegistersGrow DEF GroupsFit, HookIsSet
<1>2. CASE group'[x] \in OtherGroups
  <2>1. group'[x] \notin OcoIds /\ group'[x] \notin ExitGroups /\ group'[x] \notin Ocos
    BY <1>2, GroupKinds DEF Ocos
  <2>2. \A e, b \in Entries : group'[x] # <<"EXITS", e, b>>
    BY <2>1, GroupKinds
  <2>3. QED
    BY <2>1, <2>2
<1>3. ASSUME NEW g \in OcoIds, CreateOco(g), x \in LegsOf[g], group'[x] = g
      PROVE  /\ group'[x] \in OcoIds /\ x \in LegsOf[group'[x]] /\ ocoHook'
             /\ group'[x] \notin ExitGroups
  BY <1>3, GroupKinds DEF CreateOco
<1>4. ASSUME NEW o \in Orders, OnFilled(o), x \in ExitsPlacedBy(o), group'[x] = <<"EXITS", x[2], x[3]>>
      PROVE  /\ group'[x] \in ExitGroups /\ group'[x] \notin OcoIds /\ ocoHook'
             /\ x \in {TpId(x[2], x[3]), SlId(x[2], x[3])}
  <2>1. x \in ExitIds /\ x[2] \in Entries /\ x[3] \in Entries /\ x \in {TpId(x[2], x[3]), SlId(x[2], x[3])}
    BY <1>4, ExitsPlacedFacts, ExitIdIsOfAnEntry
  <2>2. group'[x] \in ExitGroups
    BY <1>4, <2>1 DEF ExitGroups
  <2>3. ocoHook'
    BY <1>4 DEF OnFilled
  <2>4. QED
    BY <2>1, <2>2, <2>3, GroupKinds
<1>5. QED
  <2>1. CASE \E g \in OcoIds : CreateOco(g) /\ x \in LegsOf[g] /\ group'[x] = g
    BY <1>3, <2>1 DEF ExitGroups
  <2>2. CASE \E o \in Orders : OnFilled(o) /\ x \in ExitsPlacedBy(o) /\ group'[x] = <<"EXITS", x[2], x[3]>>
    BY <1>4, <2>2
  <2>3. QED
    BY <1>1, <1>2, <2>1, <2>2, WhoJoins

(* The members of a group that is being formed are all new. *)
LEMMA NewGroupsAreNew ==
  ASSUME ComplexInv, ComplexNext, NEW x \in Orders, group'[x] # group[x], group'[x] \in Ocos,
         NEW y \in Orders, group'[y] = group'[x]
  PROVE  status'[y] = "CREATED"
<1> USE DEF ComplexInv, ComplexTypeOK
<1>1. ASSUME NEW g \in OcoIds, CreateOco(g), group'[x] = g PROVE status'[y] = "CREATED"
  <2>1. y \in LegsOf[g]
    BY <1>1 DEF CreateOco, GroupsFit
  <2>2. QED
    BY <1>1, <2>1 DEF CreateOco
<1>2. ASSUME NEW o \in Orders, OnFilled(o), x \in ExitsPlacedBy(o), group'[x] = <<"EXITS", x[2], x[3]>>
      PROVE  status'[y] = "CREATED"
  <2>1. o \in Entries /\ x[2] = o /\ x[3] \in brackets /\ x[3] \in Entries
    BY <1>2, ExitsPlacedFacts
  <2>2. y \in ExitsPlacedBy(o)
    <3>1. CASE group'[y] = group[y]
      <4>1. y \in {TpId(o, x[3]), SlId(o, x[3])}
        BY <1>2, <2>1, <3>1 DEF GroupsFit
      <4>2. QED
        BY <2>1, <4>1 DEF ExitsPlacedBy, BracketsTriggeredBy, TpId, SlId
    <3>2. CASE group'[y] # group[y]
      BY <1>2, <3>2 DEF OnFilled
    <3>3. QED
      BY <3>1, <3>2
  <2>3. y # o
    BY <2>2, ExitsPlacedFacts
  <2>4. QED
    BY <1>2, <2>2, <2>3 DEF OnFilled
<1>3. group'[x] \notin OtherGroups
  BY GroupKinds
<1>4. QED
  BY <1>1, <1>2, <1>3, WhoJoins

-----------------------------------------------------------------------------
(* A complete fill leaves every sibling stopped that was at the broker. *)
LEMMA SiblingsAtAFill ==
  ASSUME ComplexInv, NEW a \in Orders, NEW q \in FillSizes, NEW p \in FillPrices, ComplexFill(a, q, p),
         status'[a] = "FILLED", NEW b \in Orders, a # b, group[a] \in Ocos, group[b] = group[a],
         status[b] # "FILLED"
  PROVE  b \in late' \/ Stopped(status'[b])
<1> USE DEF ComplexInv, ComplexTypeOK
<1>1. OnFilled(a)
  BY FilledOrder DEF ComplexFill
<1>2. b \in Siblings(a) /\ ocoHook /\ status[b] # "ABSENT"
  BY GroupKinds DEF Siblings, HookIsSet, BlankIfAbsent
<1>3. b \notin ExitsPlacedBy(a)
  <2>1. SUFFICES ASSUME b \in ExitsPlacedBy(a) PROVE FALSE
    OBVIOUS
  <2>2. a \in Entries /\ b[3] \in Entries /\ b \in {TpId(a, b[3]), SlId(a, b[3])}
    BY <2>1, ExitsPlacedFacts
  <2>3. status[a] = "FILLED"
    BY <1>2, <2>2 DEF ExitsMatchTheirEntry
  <2>4. QED
    BY <2>3, FilledOrder DEF Fills
<1>4. CASE status[b] \in {"CREATED", "PENDING_NEW"}
  BY <1>1, <1>2, <1>4 DEF OnFilled
<1>5. CASE status[b] \in {"NEW", "PARTIALLY_FILLED", "PENDING_CANCEL"}
  <2>1. b \in CancelledWith(a)
    BY <1>2, <1>5 DEF CancelledWith, IsActive
  <2>2. status'[b] = Transition(status[b], "PENDING_CANCEL")
    BY <1>1, <1>2, <1>3, <2>1 DEF OnFilled
  <2>3. status'[b] = "PENDING_CANCEL"
    BY <1>5, <2>2 DEF Transition, ValidTransitions
  <2>4. QED
    BY <2>3 DEF Stopped
<1>6. CASE Stopped(status[b])
  <2>1. Transition(status[b], "PENDING_CANCEL") = status[b]
    BY <1>6 DEF Stopped, Transition, ValidTransitions
  <2>2. status'[b] = status[b]
    BY <1>1, <1>3, <2>1 DEF OnFilled
  <2>3. QED
    BY <1>6, <2>2
<1>7. QED
  BY <1>2, <1>4, <1>5, <1>6 DEF Stopped, OrderStatus

LEMMA SiblingsStep ==
  ASSUME ComplexInv, ComplexNext
  PROVE  SiblingsAreStopped'
<1> SUFFICES ASSUME NEW a \in Orders, NEW b \in Orders, a # b, group'[a] \in Ocos,
                    group'[a] = group'[b], status'[a] = "FILLED"
             PROVE  a \in late' \/ b \in late' \/ Stopped(status'[b])
  BY DEF SiblingsAreStopped
<1>1. group'[a] = group[a] /\ group'[b] = group[b]
  BY NewGroupsAreNew
<1>2. late \subseteq late'
  BY RegistersGrow
<1>3. Stopped(status[b]) => Stopped(status'[b])
  BY StepOnOne DEF Stopped, Stays, Moves, Appears, Fills, ValidTransitions
<1>4. CASE Stays(a)
  BY <1>1, <1>2, <1>3, <1>4 DEF Stays, ComplexInv, SiblingsAreStopped
<1>5. CASE Fills(a)
  <2>1. PICK q \in FillSizes, p \in FillPrices : ComplexFill(a, q, p)
    BY <1>5, FillsComeFromReports
  <2>2. CASE status[b] = "FILLED"
    BY <1>1, <1>2, <1>5, <2>2 DEF Fills, Stopped, ComplexInv, SiblingsAreStopped
  <2>3. CASE status[b] # "FILLED"
    BY <1>1, <2>1, <2>3, SiblingsAtAFill
  <2>4. QED
    BY <2>2, <2>3
<1>6. QED
  BY <1>4, <1>5, StepOnOne DEF Moves, Appears

(* EntriesHaveBrackets is preserved: create_bracket registers the callback  *)
(* with the order.                                                          *)
LEMMA EntriesStep ==
  ASSUME ComplexInv, ComplexNext
  PROVE  EntriesHaveBrackets'
<1> SUFFICES ASSUME NEW e \in Entries, status'[e] # "ABSENT" PROVE e \in brackets'
  BY DEF EntriesHaveBrackets
<1>1. e \in Orders  BY IdsAssumption
<1>2. CASE status[e] # "ABSENT"
  BY <1>2, RegistersGrow DEF ComplexInv, EntriesHaveBrackets
<1>3. CASE status[e] = "ABSENT"
  <2>1. Appears(e)
    BY <1>1, <1>3, StepOnOne DEF Stays, Moves, Fills, ValidTransitions
  <2>2. /\ \A g \in OcoIds : e \notin LegsOf[g]
        /\ e \notin Icebergs /\ e \notin SliceIds /\ e \notin ExitIds
    BY DistinctAssumption
  <2>3. ASSUME NEW i \in Icebergs, NEW r \in Requests, CreateIceberg(i, r) PROVE e # NewSliceId(i)
    BY <2>2, <2>3, FirstSlice DEF CreateIceberg, ComplexInv, IcebergHasOneSlice
  <2>4. ASSUME NEW o \in Orders PROVE e \notin ExitsPlacedBy(o)
    BY <2>2, ExitsPlacedFacts DEF ComplexInv, ComplexTypeOK
  <2>5. PICK r \in Requests : CreateBracket(e, r)
    BY <1>1, <2>1, <2>2, <2>3, <2>4, WhoAppears
  <2> QED  BY <2>5 DEF CreateBracket
<1> QED  BY <1>2, <1>3

(* The fill that completes an entry places its own exits. *)
LEMMA OwnExitsAppear ==
  ASSUME ComplexInv, ComplexNext, NEW e \in Entries, status'[e] = "FILLED"
  PROVE  status'[TpId(e, e)] # "ABSENT"
<1> USE DEF ComplexInv, ComplexTypeOK
<1>1. e \in Orders /\ TpId(e, e) \in Orders  BY IdsAssumption, ExitFacts
<1>2. CASE status[e] = "FILLED"
  <2>1. status[TpId(e, e)] # "ABSENT"  BY <1>2 DEF ExitsMatchTheirEntry
  <2> QED  BY <1>1, <2>1, StepOnOne DEF Stays, Moves, Appears, Fills, ValidTransitions
<1>3. CASE status[e] # "FILLED"
  <2>1. Fills(e)  BY <1>1, <1>3, StepOnOne DEF Stays, Moves, Appears
  <2>2. PICK q \in FillSizes, p \in FillPrices : ComplexFill(e, q, p)
    BY <1>1, <2>1, FillsComeFromReports
  <2>3. OnFilled(e)  BY <1>1, <2>2, FilledOrder DEF ComplexFill
  <2>4. e \in brackets  BY <2>1 DEF Fills, EntriesHaveBrackets
  <2>5. TpId(e, e) \in ExitsPlacedBy(e)
    BY <2>4, ExitFacts DEF ExitsPlacedBy, BracketsTriggeredBy
  <2>6. TpId(e, e) # e  BY <1>1, <2>5, ExitsPlacedFacts
  <2> QED  BY <1>1, <2>3, <2>5, <2>6 DEF OnFilled
<1> QED  BY <1>2, <1>3

(* ExitsMatchTheirEntry is preserved. *)
LEMMA ExitsStep ==
  ASSUME ComplexInv, ComplexNext
  PROVE  ExitsMatchTheirEntry'
<1> USE DEF ComplexInv, ComplexTypeOK
<1> SUFFICES ASSUME NEW e \in Entries, NEW b \in Entries,
                    status'[TpId(e, b)] # "ABSENT" \/ status'[SlId(e, b)] # "ABSENT"
             PROVE  /\ status'[e] = "FILLED" /\ b \in brackets'
                    /\ group'[TpId(e, b)] = group'[SlId(e, b)]
                    /\ \A x \in {TpId(e, b), SlId(e, b)} :
                         /\ status'[x] # "ABSENT"
                         /\ request'[x].quantity = filled'[e] /\ filled'[x] <= filled'[e]
  BY OwnExitsAppear DEF ExitsMatchTheirEntry, TpId, SlId
<1> DEFINE exits == {TpId(e, b), SlId(e, b)}
<1>1. e \in Orders /\ exits \subseteq Orders /\ exits \subseteq ExitIds
  BY IdsAssumption, ExitFacts
<1>2. CASE \E x \in exits : status[x] # "ABSENT"
  <2>1. /\ status[e] = "FILLED" /\ b \in brackets /\ group[TpId(e, b)] = group[SlId(e, b)]
        /\ \A x \in exits : /\ status[x] # "ABSENT" /\ request[x].quantity = filled[e]
                             /\ filled[x] <= filled[e]
    BY <1>2 DEF ExitsMatchTheirEntry
  <2>2. Stays(e)
    BY <1>1, <2>1, StepOnOne DEF Moves, Appears, Fills, ValidTransitions
  <2>3. ASSUME NEW x \in exits
        PROVE  /\ request'[x] = request[x] /\ group'[x] = group[x] /\ status'[x] # "ABSENT"
               /\ filled'[x] <= filled[e]
    BY <1>1, <2>1, StepOnOne DEF Stays, Kept, Moves, Appears, Fills, ValidTransitions
  <2>4. QED
    BY <2>1, <2>2, <2>3, RegistersGrow DEF Stays, Kept
<1>3. CASE \A x \in exits : status[x] = "ABSENT"
  <2>1. PICK x \in exits : status'[x] # "ABSENT" /\ status[x] = "ABSENT"
    BY <1>3
  <2>2. Appears(x)
    BY <1>1, <2>1, StepOnOne DEF Stays, Moves, Fills, ValidTransitions
  <2>3. /\ x \in ExitIds /\ x[2] = e /\ x[3] = b
        /\ \A g \in OcoIds : x \notin LegsOf[g]
        /\ x \notin Entries /\ x \notin Icebergs /\ x \notin SliceIds
    BY <1>1, ExitFacts, ExitIdIsOfAnEntry
  <2>4. ASSUME NEW i \in Icebergs, NEW r \in Requests, CreateIceberg(i, r) PROVE x # NewSliceId(i)
    BY <2>3, <2>4, FirstSlice DEF CreateIceberg, IcebergHasOneSlice
  <2>5. PICK o \in Orders, q \in FillSizes, p \in FillPrices :
          ComplexFill(o, q, p) /\ FillStatus(o, q) = "FILLED" /\ x \in ExitsPlacedBy(o)
    BY <1>1, <2>2, <2>3, <2>4, WhoAppears
  <2>6. o = e /\ b \in brackets /\ exits \subseteq ExitsPlacedBy(e) /\ e \notin exits
    BY <2>3, <2>5, ExitsPlacedFacts, ExitFacts DEF ExitsPlacedBy, BracketsTriggeredBy
  <2>7. OnFilled(e) /\ brackets' = brackets
    BY <2>5, <2>6 DEF ComplexFill
  <2>8. status'[e] = "FILLED" /\ filled'[e] \in Nat
    BY <1>1, <2>7, TypeStep DEF OnFilled
  <2>9. ASSUME NEW y \in exits
        PROVE  /\ status'[y] = "CREATED" /\ group'[y] = <<"EXITS", e, b>>
               /\ request'[y].quantity = filled'[e] /\ filled'[y] <= filled'[e]
    <3>1. y \in Orders /\ y \in ExitIds /\ y \in ExitsPlacedBy(e) /\ y # e /\ y[2] = e /\ y[3] = b
      BY <1>1, <2>6, ExitFacts
    <3>2. request'[y] = ExitRequest(y) /\ status'[y] = "CREATED" /\ group'[y] = <<"EXITS", y[2], y[3]>>
      BY <2>7, <3>1 DEF OnFilled
    <3>3. filled'[y] = 0
      BY <1>3, <2>5, <2>6, <3>1, FilledOrder DEF BlankIfAbsent
    <3>4. QED
      BY <2>8, <3>1, <3>2, <3>3, ExitRequestType
  <2>10. QED
    BY <2>6, <2>7, <2>8, <2>9
<1>4. QED
  BY <1>2, <1>3

(* IcebergHasOneSlice is preserved. *)
LEMMA SlicesStep ==
  ASSUME ComplexInv, ComplexNext
  PROVE  IcebergHasOneSlice'
<1> USE DEF ComplexInv, ComplexTypeOK
<1> SUFFICES ASSUME NEW i \in Icebergs
             PROVE  /\ status'[i] = "ABSENT" => SlicesOf(i)' = {} /\ revealed'[i] = 0
                    /\ \A s, t \in SlicesOf(i)' : s = t
                    /\ \A s \in SlicesOf(i)' : request'[s].quantity <= DisplaySize
  BY DEF IcebergHasOneSlice
<1>1. i \in Orders
  BY IdsAssumption
<1>2. ASSUME NEW r \in Requests, CreateIceberg(i, r)
      PROVE  /\ status'[i] # "ABSENT" /\ SlicesOf(i)' = {NewSliceId(i)}
             /\ request'[NewSliceId(i)].quantity <= DisplaySize
  <2> DEFINE s == NewSliceId(i)
             size == NextSlice(i, r.quantity)
  <2>1. SlicesOf(i) = {} /\ revealed[i] = 0
    BY <1>2 DEF CreateIceberg, IcebergHasOneSlice
  <2>2. s \in SliceIds /\ s[2] = i /\ s # i /\ s \in Orders
    BY <2>1, FirstSlice, SliceIdFacts
  <2>3. size <= DisplaySize
    BY <2>1, RequestsAssumption, SizesAssumption DEF NextSlice, Request
  <2>4. /\ request' = [request EXCEPT ![i] = r, ![s] = [r EXCEPT !.quantity = size]]
        /\ status' = [status EXCEPT ![i] = "CREATED", ![s] = "PENDING_NEW"]
    BY <1>2 DEF CreateIceberg
  <2> HIDE DEF s, size
  <2>5. request'[s] = [r EXCEPT !.quantity = size] /\ r \in Request
    BY <2>2, <2>4, RequestsAssumption
  <2>6. request'[s].quantity = size
    BY <2>5 DEF Request
  <2>7. SlicesOf(i)' = {s}
    BY <1>1, <2>1, <2>2, <2>4, SliceIdFacts DEF SlicesOf
  <2>8. status'[i] # "ABSENT"
    BY <1>1, <2>2, <2>4
  <2>9. QED
    BY <2>3, <2>6, <2>7, <2>8 DEF s
<1>3. ASSUME \A r \in Requests : ~CreateIceberg(i, r)
      PROVE  /\ revealed'[i] = revealed[i] /\ SlicesOf(i)' = SlicesOf(i)
             /\ \A s \in SlicesOf(i) : request'[s] = request[s]
  <2>1. ASSUME NEW s \in SliceIds, s[2] = i PROVE ~Appears(s)
    <3>1. SUFFICES ASSUME Appears(s) PROVE FALSE
      OBVIOUS
    <3>2. ASSUME NEW j \in Icebergs, NEW r \in Requests, CreateIceberg(j, r)
          PROVE  s # j /\ s # NewSliceId(j)
      <4>1. j # i /\ SlicesOf(j) = {}
        BY <1>3, <3>2 DEF CreateIceberg, IcebergHasOneSlice
      <4>2. NewSliceId(j)[2] = j
        BY <4>1, FirstSlice
      <4>3. QED
        BY <2>1, <4>1, <4>2, SliceIdFacts
    <3>3. QED
      BY <2>1, <3>1, <3>2, WhoAppears, SliceIdFacts, ExitsPlacedFacts
  <2>2. ASSUME NEW s \in SliceIds, s[2] = i
        PROVE  (status'[s] = "ABSENT" <=> status[s] = "ABSENT") /\ request'[s] = request[s]
    BY <2>1, <2>2, StepOnOne, SliceIdFacts DEF Stays, Kept, Moves, Fills, ValidTransitions
  <2>3. revealed'[i] = revealed[i]
    <3>1. ASSUME NEW g \in OcoIds, CreateOco(g) PROVE revealed' = revealed
      BY <3>1 DEF CreateOco
    <3>2. ASSUME NEW e \in Entries, NEW r \in Requests, CreateBracket(e, r) PROVE revealed' = revealed
      BY <3>2 DEF CreateBracket
    <3>3. ASSUME NEW j \in Icebergs, NEW r \in Requests, CreateIceberg(j, r) PROVE revealed'[i] = revealed[i]
      BY <1>3, <3>3 DEF CreateIceberg
    <3>4. ASSUME NEW o \in Orders, NEW q \in FillSizes, NEW p \in FillPrices, ComplexFill(o, q, p)
          PROVE  revealed' = revealed
      BY <3>4, NothingIsRevealed DEF ComplexFill, OnFilled, OnPartiallyFilled
    <3>5. CASE PlainStep
      BY <3>5 DEF PlainStep, complexVars
    <3>6. QED
      BY <3>1, <3>2, <3>3, <3>4, <3>5 DEF ComplexNext, PlainStep
  <2>4. QED
    BY <2>2, <2>3 DEF SlicesOf
<1>4. status'[i] = "ABSENT" => status[i] = "ABSENT"
  BY <1>1, StepOnOne DEF Stays, Moves, Appears, Fills, ValidTransitions
<1>5. CASE \A r \in Requests : ~CreateIceberg(i, r)
  BY <1>3, <1>4, <1>5 DEF IcebergHasOneSlice
<1>6. QED
  BY <1>2, <1>5

(* Whatever the callbacks of fill_order set off, the four families of       *)
(* orders keep to their rules.                                              *)
THEOREM ComplexInvariantHolds == ComplexSpec => []ComplexInv
<1>1. ComplexInit => ComplexInv
  <2> SUFFICES ASSUME ComplexInit PROVE ComplexInv
    OBVIOUS
  <2> USE DEF ComplexInit, Init
  <2>1. ComplexTypeOK
    BY RequestTypes DEF ComplexTypeOK, Groups, OrderStatus
  <2>2. BlankIfAbsent /\ HookIsSet /\ SiblingsAreStopped
    BY GroupKinds DEF BlankIfAbsent, HookIsSet, SiblingsAreStopped
  <2>3. GroupsFit
    <3>1. NoGroup \notin OcoIds /\ \A e, b \in Entries : NoGroup # <<"EXITS", e, b>>
      BY GroupKinds DEF Ocos
    <3>2. QED
      BY <3>1 DEF GroupsFit
  <2>4. ExitsMatchTheirEntry
    BY IdsAssumption, ExitFacts DEF ExitsMatchTheirEntry
  <2>5. IcebergHasOneSlice
    BY SliceIdFacts DEF IcebergHasOneSlice, SlicesOf
  <2>6. EntriesHaveBrackets
    BY IdsAssumption DEF EntriesHaveBrackets
  <2>7. QED
    BY <2>1, <2>2, <2>3, <2>4, <2>5, <2>6 DEF ComplexInv
<1>2. ComplexInv /\ ComplexNext => ComplexInv'
  BY TypeStep, BlankStep, GroupsStep, SiblingsStep, EntriesStep, ExitsStep, SlicesStep DEF ComplexInv
<1>3. ComplexInv /\ UNCHANGED allVars => ComplexInv'
  BY DEF ComplexInv, ComplexTypeOK, BlankIfAbsent, GroupsFit, HookIsSet, SiblingsAreStopped,
         EntriesHaveBrackets, ExitsMatchTheirEntry, IcebergHasOneSlice, SlicesOf, allVars, vars, complexVars
<1>4. QED
  BY <1>1, <1>2, <1>3, PTL DEF ComplexSpec

(* create_oco: of two legs that were both at the broker when the first of   *)
(* them filled, the other one never fills completely.                       *)
COROLLARY SiblingsAreNotBothFilled == ComplexSpec => []SiblingAtTheBrokerIsStopped
<1>1. ComplexInv => SiblingAtTheBrokerIsStopped
  BY DEF ComplexInv, SiblingsAreStopped, Stopped, SiblingAtTheBrokerIsStopped
<1>2. QED
  BY <1>1, ComplexInvariantHolds, PTL

(* create_bracket, _place_bracket_exits: an entry that filled has its pair  *)
(* of exits; exits come in pairs, only after their entry filled, in the     *)
(* size that was executed, and none of them closes more than that.          *)
COROLLARY ExitsFollowTheirEntry == ComplexSpec => []ExitsMatchTheirEntry
  BY ComplexInvariantHolds, PTL DEF ComplexInv

(* create_iceberg: however much of the first slice is filled,               *)
(* _check_reveal_next never shows a second one.                             *)
COROLLARY IcebergsStopAtOneSlice == ComplexSpec => []IcebergHasOneSlice
  BY ComplexInvariantHolds, PTL DEF ComplexInv

(* A final order keeps its status, its executions and what it was created   *)
(* with: no late report, sweep, sibling or exit touches it.                 *)
FinalStaysFinal == [][\A o \in Orders : status[o] \in Final => Stays(o)]_allVars

THEOREM FinalOrdersRest == ComplexSpec => FinalStaysFinal
<1>1. ComplexInv /\ ComplexNext => \A o \in Orders : status[o] \in Final => Stays(o)
  BY StepOnOne DEF Moves, Appears, Fills, ValidTransitions, Final
<1>2. QED
  BY <1>1, ComplexInvariantHolds, PTL DEF ComplexSpec, FinalStaysFinal

(* Whatever the callbacks do to other orders, each of them sees only what   *)
(* OrderPromise allows: an order that is done stays done, and executions    *)
(* come from fill_order for that very order.                                *)
THEOREM ComplexOrdersKeepPromise == ComplexSpec => KeepsPromise
<1>1. ComplexInit => Promise!Init
  BY DEF ComplexInit, Init, Promise!Init, PhaseOf, NoRequest, Final
<1>2. ComplexInv /\ ComplexTypeOK' /\ [ComplexNext]_allVars => [Promise!Next]_Promise!vars
  <2>1. SUFFICES ASSUME ComplexInv, ComplexTypeOK', ComplexNext, NEW x \in Orders
                 PROVE  Promise!Place(x) \/ Promise!Execute(x) \/ Promise!Close(x) \/ Promise!Rest(x)
    BY DEF Promise!Next, Promise!vars, allVars, vars
  <2> USE DEF ComplexInv, ComplexTypeOK
  <2>2. CASE Stays(x)
    BY <2>1, <2>2 DEF Stays, Kept, Promise!Rest
  <2>3. CASE Moves(x)
    <3>1. \/ PhaseOf(status[x]) = "open" /\ PhaseOf(status'[x]) = "done"
          \/ PhaseOf(status'[x]) = PhaseOf(status[x])
      BY <2>3 DEF Moves, ValidTransitions, PhaseOf, Final
    <3>2. QED
      BY <2>1, <2>3, <3>1 DEF Moves, Kept, Promise!Close, Promise!Rest
  <2>4. CASE Appears(x)
    BY <2>1, <2>4 DEF Appears, PhaseOf, Final, Promise!Place
  <2>5. CASE Fills(x)
    BY <2>1, <2>5 DEF Fills, PhaseOf, Final, Promise!Execute
  <2>6. QED
    BY <2>1, <2>2, <2>3, <2>4, <2>5, StepOnOne
<1>3. []ComplexInv => []ComplexTypeOK
  BY PTL DEF ComplexInv
<1>4. QED
  BY <1>1, <1>2, <1>3, ComplexInvariantHolds, PTL DEF ComplexSpec, KeepsPromise, Promise!Spec

-----------------------------------------------------------------------------
(* The statuses, the fills, the order book and the submission tasks stay in *)
(* step under the callbacks as they do without them.                        *)

LEMMA StatusMatchesFillsStep ==
  ASSUME ComplexInv, ComplexTypeOK', ComplexNext, StatusMatchesFills
  PROVE  StatusMatchesFills'
<1> SUFFICES ASSUME NEW x \in Orders
             PROVE  /\ filled'[x] <= request'[x].quantity
                    /\ (status'[x] = "FILLED") <=> (filled'[x] > 0 /\ filled'[x] = request'[x].quantity)
                    /\ status'[x] = "PARTIALLY_FILLED" => filled'[x] > 0
                    /\ status'[x] \in {"ABSENT", "CREATED", "PENDING_NEW", "NEW", "REJECTED", "EXPIRED"}
                         => filled'[x] = 0
  BY DEF StatusMatchesFills
<1>1. /\ filled[x] \in Nat /\ filled'[x] \in Nat
      /\ request[x].quantity \in Nat /\ request'[x].quantity \in Nat
  BY DEF ComplexInv, ComplexTypeOK, Request
<1>2. /\ filled[x] <= request[x].quantity
      /\ (status[x] = "FILLED") <=> (filled[x] > 0 /\ filled[x] = request[x].quantity)
      /\ status[x] = "PARTIALLY_FILLED" => filled[x] > 0
      /\ status[x] \in {"ABSENT", "CREATED", "PENDING_NEW", "NEW", "REJECTED", "EXPIRED"}
           => filled[x] = 0
  BY DEF StatusMatchesFills
<1>3. CASE Stays(x)
  BY <1>2, <1>3 DEF Stays, Kept
<1>4. CASE Moves(x)
  BY <1>1, <1>2, <1>4 DEF Moves, Kept, ValidTransitions
<1>5. CASE Appears(x)
  BY <1>1, <1>2, <1>5 DEF Appears
<1>6. CASE Fills(x)
  BY <1>1, <1>6 DEF Fills
<1>7. QED
  BY <1>3, <1>4, <1>5, <1>6, StepOnOne

(* The order book and the submission tasks as a complete fill leaves them. *)
LEMMA BookStep ==
  ASSUME ComplexInv, ComplexNext, BookShowsWorkingOrders, PendingNewIffSubmitting
  PROVE  BookShowsWorkingOrders' /\ PendingNewIffSubmitting'
<1> USE DEF ComplexInv, ComplexTypeOK
<1> DEFINE Listed(x) == /\ status[x] = "NEW" => x \in active
                        /\ x \in active => status[x] \in {"NEW", "PARTIALLY_FILLED", "PENDING_CANCEL"}
                        /\ status[x] = "PENDING_NEW" <=> x \in submitting
<1> SUFFICES ASSUME NEW x \in Orders PROVE Listed(x)'
  <2>1. active' \subseteq Orders
    BY TypeStep
  <2>2. QED
    BY <2>1 DEF BookShowsWorkingOrders, PendingNewIffSubmitting
<1>2. Listed(x)
  BY DEF BookShowsWorkingOrders, PendingNewIffSubmitting
<1>3. ASSUME NEW g \in OcoIds, CreateOco(g) PROVE Listed(x)'
  BY <1>2, <1>3 DEF CreateOco
<1>4. ASSUME NEW e \in Entries, NEW r \in Requests, CreateBracket(e, r) PROVE Listed(x)'
  BY <1>2, <1>4 DEF CreateBracket, CreateOrder
<1>5. ASSUME NEW i \in Icebergs, NEW r \in Requests, CreateIceberg(i, r) PROVE Listed(x)'
  <2> DEFINE s == NewSliceId(i)
  <2>1. status[s] = "ABSENT" /\ s # i /\ s \in Orders /\ i \in Orders /\ status[i] = "ABSENT"
    BY <1>5, FirstSlice, SliceIdFacts, IdsAssumption DEF CreateIceberg, IcebergHasOneSlice
  <2> HIDE DEF s
  <2>2. /\ status' = [status EXCEPT ![i] = "CREATED", ![s] = "PENDING_NEW"]
        /\ submitting' = submitting \union {s} /\ active' = active
    BY <1>5 DEF CreateIceberg, s
  <2>3. QED
    BY <1>2, <2>1, <2>2
<1>6. ASSUME NEW o \in Orders, NEW q \in FillSizes, NEW p \in FillPrices, ComplexFill(o, q, p)
      PROVE  Listed(x)'
  <2>1. status[o] \in {"NEW", "PARTIALLY_FILLED"} /\ status'[o] = FillStatus(o, q)
    BY <1>6, FilledOrder DEF Fills
  <2>2. submitting' = submitting
    BY <1>6, NothingIsRevealed DEF ComplexFill, OnFilled, OnPartiallyFilled
  <2>3. active' = IF FillStatus(o, q) = "FILLED" THEN active \ {o} ELSE active
    BY <1>6 DEF ComplexFill, FillEffect
  <2>4. CASE x = o
    BY <1>2, <2>1, <2>2, <2>3, <2>4 DEF FillStatus, BookShowsWorkingOrders
  <2>5. CASE x # o
    <3>1. CASE Stays(x)
      BY <1>2, <2>2, <2>3, <2>5, <3>1 DEF Stays
    <3>2. CASE Appears(x) /\ x \in ExitsPlacedBy(o)
      <4>1. status'[x] = "CREATED"
        <5>1. OnFilled(o)
          BY <1>6, <2>5, <3>2, NothingIsRevealed DEF ComplexFill, OnPartiallyFilled, Appears
        <5>2. QED
          BY <2>5, <3>2, <5>1 DEF OnFilled
      <4>2. QED
        BY <1>2, <2>2, <2>3, <3>2, <4>1 DEF Appears
    <3>3. CASE Moves(x)
      <4>1. status'[x] = "PENDING_CANCEL" /\ status[x] \in {"NEW", "PARTIALLY_FILLED"}
        <5>1. OnFilled(o)
          BY <1>6, <2>5, <3>3, NothingIsRevealed DEF ComplexFill, OnPartiallyFilled, Moves, ValidTransitions
        <5>2. status'[x] \in {status[x], "CREATED", Transition(status[x], "PENDING_CANCEL")}
          BY <2>5, <5>1 DEF OnFilled
        <5>3. QED
          BY <3>3, <5>2 DEF Moves, Transition, ValidTransitions
      <4>2. QED
        BY <1>2, <2>2, <2>3, <2>5, <4>1
    <3>4. QED
      BY <1>6, <2>5, <3>1, <3>2, <3>3, OthersAtAFill
  <2>6. QED
    BY <2>4, <2>5
<1>7. CASE PlainStep
  <2>1. ASSUME NEW o \in Orders, SubmitOrder(o) PROVE Listed(x)'
    BY <1>2, <2>1 DEF SubmitOrder, ValidTransitions
  <2>2. ASSUME NEW o \in Orders, AsyncReject(o) PROVE Listed(x)'
    BY <1>2, <2>2 DEF AsyncReject, Transition, ValidTransitions, PendingNewIffSubmitting
  <2>3. ASSUME NEW o \in Orders, AsyncAccept(o) PROVE Listed(x)'
    BY <1>2, <2>3 DEF AsyncAccept, Transition, ValidTransitions, PendingNewIffSubmitting
  <2>4. ASSUME NEW o \in Orders, CancelOrder(o) PROVE Listed(x)'
    BY <1>2, <2>4 DEF CancelOrder, ValidTransitions
  <2>5. ASSUME NEW o \in Orders, ClockPasses(o) PROVE Listed(x)'
    BY <1>2, <2>5 DEF ClockPasses
  <2>6. CASE ExpireOrders
    BY <1>2, <2>6 DEF ExpireOrders, Transition, ValidTransitions
  <2>7. QED
    BY <1>7, <2>1, <2>2, <2>3, <2>4, <2>5, <2>6 DEF PlainStep
<1>8. QED
  BY <1>3, <1>4, <1>5, <1>6, <1>7 DEF ComplexNext, PlainStep

(* A sibling that is asked to cancel stays in the order book until it is    *)
(* done, and a slice that is shown has a submission task of its own.        *)
THEOREM CallbacksKeepTheBook ==
  ComplexSpec => [](StatusMatchesFills /\ BookShowsWorkingOrders /\ PendingNewIffSubmitting)
<1> DEFINE Book == StatusMatchesFills /\ BookShowsWorkingOrders /\ PendingNewIffSubmitting
<1>1. ComplexInit => Book
  BY DEF ComplexInit, Init, StatusMatchesFills, BookShowsWorkingOrders, PendingNewIffSubmitting, NoRequest
<1>2. ComplexInv /\ ComplexInv' /\ Book /\ ComplexNext => Book'
  BY StatusMatchesFillsStep, BookStep DEF ComplexInv
<1>3. Book /\ UNCHANGED allVars => Book'
  BY DEF StatusMatchesFills, BookShowsWorkingOrders, PendingNewIffSubmitting, allVars, vars
<1>4. QED
  BY <1>1, <1>2, <1>3, ComplexInvariantHolds, PTL DEF ComplexSpec

-----------------------------------------------------------------------------
(* The cost of an order grows with its fills only. *)
LEMMA CostStep ==
  ASSUME ComplexInv, ComplexNext, NEW x \in Orders
  PROVE  \/ cost'[x] = cost[x] /\ filled'[x] = filled[x]
         \/ \E q \in FillSizes, p \in FillPrices :
               /\ ComplexFill(x, q, p)
               /\ filled'[x] = filled[x] + q /\ cost'[x] = cost[x] + q * p
<1> USE DEF ComplexInv, ComplexTypeOK
<1>1. ASSUME NEW g \in OcoIds, CreateOco(g) PROVE cost' = cost /\ filled' = filled
  BY <1>1 DEF CreateOco
<1>2. ASSUME NEW e \in Entries, NEW r \in Requests, CreateBracket(e, r) PROVE cost' = cost /\ filled' = filled
  BY <1>2 DEF CreateBracket, CreateOrder
<1>3. ASSUME NEW i \in Icebergs, NEW r \in Requests, CreateIceberg(i, r) PROVE cost' = cost /\ filled' = filled
  BY <1>3 DEF CreateIceberg
<1>4. ASSUME NEW o \in Orders, NEW q \in FillSizes, NEW p \in FillPrices, ComplexFill(o, q, p)
      PROVE  /\ filled' = [filled EXCEPT ![o] = @ + q] /\ cost' = [cost EXCEPT ![o] = @ + q * p]
  BY <1>4 DEF ComplexFill, FillEffect
<1>5. CASE PlainStep
  BY <1>5 DEF PlainStep, SubmitOrder, AsyncReject, AsyncAccept, CancelOrder, ClockPasses, ExpireOrders
<1>6. ASSUME NEW o \in Orders, NEW q \in FillSizes, NEW p \in FillPrices, ComplexFill(o, q, p)
      PROVE  \/ cost'[x] = cost[x] /\ filled'[x] = filled[x]
             \/ o = x /\ filled'[x] = filled[x] + q /\ cost'[x] = cost[x] + q * p
  BY <1>4, <1>6
<1>7. QED
  BY <1>1, <1>2, <1>3, <1>5, <1>6 DEF ComplexNext, PlainStep

(* Exits and slices carry limits of their own, and their fills respect them *)
(* too.                                                                     *)
THEOREM ComplexAverageStaysWithinLimit == ComplexSpec => []AverageWithinLimit
<1> DEFINE AInv == AverageWithinLimit /\ CostOfNothing
<1>1. ComplexInit => AInv
  BY DEF ComplexInit, Init, AverageWithinLimit, CostOfNothing, NoRequest
<1>2. ASSUME ComplexInv, ComplexInv', StatusMatchesFills, AInv, ComplexNext PROVE AInv'
  <2> SUFFICES ASSUME NEW x \in Orders
               PROVE  /\ filled'[x] = 0 => cost'[x] = 0
                      /\ request'[x].order_type = "LIMIT" =>
                           IF request'[x].side = "BUY" THEN cost'[x] <= filled'[x] * request'[x].price
                                                       ELSE cost'[x] >= filled'[x] * request'[x].price
    BY DEF AverageWithinLimit, CostOfNothing
  <2>2. /\ filled[x] \in Nat /\ cost[x] \in Nat /\ request[x] \in Request /\ request'[x] \in Request
    BY <1>2 DEF ComplexInv, ComplexTypeOK
  <2>3. /\ filled[x] = 0 => cost[x] = 0
        /\ request[x].order_type = "LIMIT" =>
             IF request[x].side = "BUY" THEN cost[x] <= filled[x] * request[x].price
                                        ELSE cost[x] >= filled[x] * request[x].price
    BY <1>2 DEF AverageWithinLimit, CostOfNothing
  <2>4. CASE cost'[x] = cost[x] /\ filled'[x] = filled[x] /\ request'[x] = request[x]
    BY <2>3, <2>4
  <2>5. CASE cost'[x] = cost[x] /\ filled'[x] = filled[x] /\ request'[x] # request[x]
    <3>1. Appears(x)
      BY <1>2, <2>5, StepOnOne DEF Stays, Kept, Moves, Fills
    <3>2. filled[x] = 0
      BY <1>2, <3>1 DEF Appears, StatusMatchesFills
    <3>3. request'[x].price \in Nat
      BY <2>2 DEF Request
    <3>4. QED
      BY <2>3, <2>5, <3>2, <3>3
  <2>6. ASSUME NEW q \in FillSizes, NEW p \in FillPrices, ComplexFill(x, q, p),
               filled'[x] = filled[x] + q, cost'[x] = cost[x] + q * p
        PROVE  /\ filled'[x] = 0 => cost'[x] = 0
               /\ request'[x].order_type = "LIMIT" =>
                    IF request'[x].side = "BUY" THEN cost'[x] <= filled'[x] * request'[x].price
                                                ELSE cost'[x] >= filled'[x] * request'[x].price
    <3>1. request'[x] = request[x] /\ PriceWithinLimit(request[x], p)
      BY <1>2, <2>6, FilledOrder DEF Fills, ComplexFill, FillEffect, CanFill
    <3>2. q \in Nat \ {0} /\ p \in Nat /\ request[x].price \in Nat
      BY <2>2, FillsAssumption DEF Request
    <3>3. filled[x] + q # 0
      BY <2>2, <3>2
    <3>4. request[x].order_type = "LIMIT" =>
            IF request[x].side = "BUY" THEN cost[x] + q * p <= (filled[x] + q) * request[x].price
                                       ELSE cost[x] + q * p >= (filled[x] + q) * request[x].price
      BY <2>2, <2>3, <3>1, <3>2, AverageStep DEF PriceWithinLimit
    <3>5. QED
      BY <2>6, <3>1, <3>3, <3>4
  <2>7. QED
    BY <1>2, <2>4, <2>5, <2>6, CostStep
<1>3. AInv /\ UNCHANGED allVars => AInv'
  BY DEF AverageWithinLimit, CostOfNothing, allVars, vars
<1>4. QED
  BY <1>1, <1>2, <1>3, ComplexInvariantHolds, CallbacksKeepTheBook, PTL DEF ComplexSpec
=============================================================================
