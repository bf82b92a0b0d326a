---------------------------- MODULE BrokerProofs ----------------------------
(***************************************************************************)
(* Theorems about the two components of brokers/: the connector            *)
(* OandaBroker, for every value of its constants, and AdvancedOrders (the  *)
(* last part), for all families of distinct ids, prices, trailing-stop     *)
(* arguments and order quantities.                                         *)
(***************************************************************************)
EXTENDS OandaBroker, AdvancedOrders, FiniteSetTheorems, TLAPS

LEMMA Constants ==
  /\ Leg \in [Orders -> Positions] /\ Slots \in Nat \ {0} /\ Retries \in Nat \ {0}
  /\ TTL \in Nat \ {0} /\ Timeout \in Nat \ {0}
  BY ConstantsAssumption

LEMMA IdleType == Idle \in CallType /\ Idle.op = "idle"
  BY Constants DEF Idle, CallType

LEMMA WaitingType ==
  ASSUME NEW op \in {"place", "positions", "close"},
         NEW item \in Orders \union Positions \union {Nothing},
         NEW mode \in {"single", "clean", "failed"}, NEW todo \in SUBSET Positions
  PROVE  /\ Waiting(op, item, mode, todo) \in CallType
         /\ Waiting(op, item, mode, todo).op = op
         /\ Waiting(op, item, mode, todo).item = item
  BY Constants DEF Waiting, CallType

(* A caller whose call goes from one well-typed state to another. *)
LEMMA CallChanges ==
  ASSUME CallsTyped, NEW c \in Callers, NEW r \in CallType,
         r.op = "place" => r.item \in Orders, r.op = "close" => r.item \in Positions,
         call' = [call EXCEPT ![c] = r]
  PROVE  CallsTyped'
  BY DEF CallsTyped

-----------------------------------------------------------------------------
(* What CloseNext does to the caller it is about and to nobody else. *)
LEMMA CloseNextEffect ==
  ASSUME CallsTyped, owed \in [Callers -> Debts], NEW c \in Callers,
         NEW todo \in SUBSET Positions, NEW mode \in {"clean", "failed"},
         NEW debt \in Debts, CloseNext(c, todo, mode, debt)
  PROVE  /\ CallsTyped' /\ owed' \in [Callers -> Debts] /\ left' \in Debts
         /\ \A d \in Callers \ {c} : call'[d] = call[d] /\ owed'[d] = owed[d]
         /\ \/ /\ todo = {} /\ call'[c] = Idle /\ owed'[c] = {}
               /\ left' = IF mode = "clean" THEN debt ELSE {}
            \/ /\ owed'[c] = debt /\ left' = {}
               /\ \E p \in todo : call'[c] = Waiting("close", p, mode, todo \ {p})
<1>0. {} \in Debts  BY DEF Debts
<1>1. CASE todo = {}
  <2>1. /\ call' = [call EXCEPT ![c] = Idle] /\ owed' = [owed EXCEPT ![c] = {}]
        /\ left' = IF mode = "clean" THEN debt ELSE {}
    BY <1>1 DEF CloseNext
  <2>2. CallsTyped'  BY <2>1, IdleType, CallChanges
  <2> QED  BY <1>0, <1>1, <2>1, <2>2 DEF CallsTyped
<1>2. CASE todo # {}
  <2>1. PICK p \in todo : call' = [call EXCEPT ![c] = Waiting("close", p, mode, todo \ {p})]
    BY <1>2 DEF CloseNext
  <2>2. owed' = [owed EXCEPT ![c] = debt] /\ left' = {}
    BY <1>2 DEF CloseNext
  <2>3. /\ Waiting("close", p, mode, todo \ {p}) \in CallType
        /\ Waiting("close", p, mode, todo \ {p}).op = "close"
        /\ Waiting("close", p, mode, todo \ {p}).item \in Positions
    BY WaitingType
  <2>4. CallsTyped'  BY <2>1, <2>3, CallChanges
  <2> QED  BY <1>0, <2>1, <2>2, <2>4 DEF CallsTyped
<1> QED  BY <1>1, <1>2

(* It leaves the caller idle or closing a position. *)
LEMMA CloseNextCaller ==
  ASSUME CallsTyped, NEW c \in Callers, NEW todo, NEW mode, NEW debt,
         CloseNext(c, todo, mode, debt)
  PROVE  call'[c].op # "place" /\ \A d \in Callers \ {c} : call'[d] = call[d]
<1>1. CASE todo = {}
  <2>1. call' = [call EXCEPT ![c] = Idle]  BY <1>1 DEF CloseNext
  <2> QED  BY <2>1 DEF CallsTyped, Idle
<1>2. CASE todo # {}
  <2>1. PICK p \in todo : call' = [call EXCEPT ![c] = Waiting("close", p, mode, todo \ {p})]
    BY <1>2 DEF CloseNext
  <2> QED  BY <2>1 DEF CallsTyped, Waiting
<1> QED  BY <1>1, <1>2

-----------------------------------------------------------------------------
(* Every variable keeps its type. *)
LEMMA TypeInit == Init => TypeOK
<1> SUFFICES ASSUME Init PROVE TypeOK  OBVIOUS
<1>1. CallsTyped
  BY IdleType DEF Init, CallsTyped
<1>2. owed \in [Callers -> Debts] /\ left \in Debts
  BY DEF Init, Debts
<1>3. age \in [Positions -> 0..Old] /\ cacheAge \in 0..TTL /\ free \in Nat /\ dials \in 0..Retries
  BY Constants DEF Init, Old
<1>4. open \subseteq Positions /\ cache \subseteq Positions
  BY DEF Init
<1>5. executed \in [Orders -> Nat] /\ strays \in [Orders -> Nat]
  BY DEF Init
<1>6. /\ session \in {"none", "open", "closed"}
      /\ order \in [Orders -> {"new", "placing", "filled", "failed"}]
  BY DEF Init
<1> QED  BY <1>1, <1>2, <1>3, <1>4, <1>5, <1>6 DEF TypeOK

LEMMA RaisesType ==
  ASSUME TypeOK, NEW c \in Callers, Raises(c)
  PROVE  /\ session' = session /\ dials' = dials /\ free' \in Nat /\ CallsTyped'
         /\ order' \in [Orders -> {"new", "placing", "filled", "failed"}]
         /\ cache' = cache /\ cacheAge' = cacheAge
         /\ owed' \in [Callers -> Debts] /\ left' \in Debts
<1>1. call[c] \in CallType  BY DEF TypeOK, CallsTyped
<1>2. order' \in [Orders -> {"new", "placing", "filled", "failed"}]
  BY DEF Raises, TypeOK
<1>3. /\ session' = session /\ dials' = dials /\ free' \in Nat
      /\ cache' = cache /\ cacheAge' = cacheAge
  BY DEF Raises, TypeOK
<1>4. CallsTyped' /\ owed' \in [Callers -> Debts] /\ left' \in Debts
  <2>1. CASE call[c].op = "close" /\ call[c].mode # "single"
    <3>1. call[c].todo \in SUBSET Positions  BY <1>1 DEF CallType
    <3>2. owed[c] \in Debts /\ owed \in [Callers -> Debts] /\ CallsTyped  BY DEF TypeOK
    <3>3. CloseNext(c, call[c].todo, "failed", owed[c])  BY <2>1 DEF Raises
    <3> QED  BY <3>1, <3>2, <3>3, CloseNextEffect
  <2>2. CASE ~(call[c].op = "close" /\ call[c].mode # "single")
    <3>1. /\ call' = [call EXCEPT ![c] = Idle] /\ owed' = [owed EXCEPT ![c] = {}]
          /\ left' = {}
      BY <2>2 DEF Raises
    <3>2. CallsTyped'  BY <3>1, IdleType, CallChanges DEF TypeOK
    <3> QED  BY <3>1, <3>2 DEF TypeOK, Debts
  <2> QED  BY <2>1, <2>2
<1> QED  BY <1>2, <1>3, <1>4

LEMMA RetryType ==
  ASSUME TypeOK, NEW c \in Callers, Retry(c)
  PROVE  CallsTyped' /\ left' \in Debts
<1> DEFINE r == [call[c] EXCEPT !.pc = "pause", !.age = 0, !.answer = Nothing, !.snap = {}]
<1>1. call[c] \in CallType  BY DEF TypeOK, CallsTyped
<1>2. r \in CallType /\ r.op = call[c].op /\ r.item = call[c].item
  <2>1. 0 \in 0..Timeout  BY Constants
  <2> QED  BY <1>1, <2>1 DEF CallType
<1>3. call' = [call EXCEPT ![c] = r]  BY DEF Retry
<1>4. left' \in Debts  BY DEF Retry, Debts
<1> HIDE DEF r
<1>5. CallsTyped /\ (call[c].op = "place" => call[c].item \in Orders)
                /\ (call[c].op = "close" => call[c].item \in Positions)
  BY DEF TypeOK, CallsTyped
<1> QED  BY <1>2, <1>3, <1>4, <1>5, CallChanges

LEMMA OpensType ==
  ASSUME TypeOK, NEW p \in Positions, Opens(p)
  PROVE  open' \subseteq Positions /\ age' \in [Positions -> 0..Old]
<1>1. 0 \in 0..Old  BY Constants DEF Old
<1> QED  BY <1>1 DEF TypeOK, Opens

LEMMA ClosesType ==
  ASSUME TypeOK, NEW p \in Positions, Closes(p)
  PROVE  /\ open' \subseteq Positions /\ age' \in [Positions -> 0..Old]
         /\ owed' \in [Callers -> Debts]
<1>1. 0 \in 0..Old  BY Constants DEF Old
<1>2. owed' \in [Callers -> Debts]  BY DEF TypeOK, Closes, Debts
<1> QED  BY <1>1, <1>2 DEF TypeOK, Closes

LEMMA RefusesType ==
  ASSUME TypeOK, NEW p \in Positions, NEW c \in Callers, Refuses(c, p)
  PROVE  /\ open' \subseteq Positions /\ age' \in [Positions -> 0..Old]
         /\ owed' \in [Callers -> Debts]
<1> DEFINE debt == {IF q[1] = p THEN <<p, "refused">> ELSE q : q \in owed[c]}
<1>1. owed[c] \in Debts /\ owed \in [Callers -> Debts]  BY DEF TypeOK
<1>2. debt \in Debts  BY <1>1 DEF Debts
<1>3. owed' = [owed EXCEPT ![c] = debt]  BY DEF Refuses
<1> HIDE DEF debt
<1>4. owed' \in [Callers -> Debts]  BY <1>1, <1>2, <1>3
<1> QED  BY <1>4 DEF TypeOK, Refuses

LEMMA OlderType ==
  ASSUME NEW limit \in Nat, NEW a \in 0..limit
  PROVE  Older(a, limit) \in 0..limit
  BY DEF Older

LEMMA CallsType ==
  ASSUME TypeOK, NEW c \in Callers, Calls(c)
  PROVE  TypeOK'
<1> USE DEF TypeOK
<1>0. {} \in Debts /\ {} \in SUBSET Positions  BY DEF Debts
<1>1. CASE GetPositions(c)
  <2>1. CallsTyped /\ call' = [call EXCEPT ![c] = Waiting("positions", Nothing, "single", {})]
    BY <1>1 DEF GetPositions
  <2>2. /\ Waiting("positions", Nothing, "single", {}) \in CallType
        /\ Waiting("positions", Nothing, "single", {}).op = "positions"
    BY Constants DEF Waiting, CallType
  <2>3. CallsTyped'  BY <2>1, <2>2, CallChanges
  <2> QED  BY <1>0, <1>1, <2>3 DEF GetPositions, venue
<1>2. ASSUME NEW o \in Orders, PlaceMarketOrder(c, o) PROVE TypeOK'
  <2>1. CallsTyped /\ call' = [call EXCEPT ![c] = Waiting("place", o, "single", {})]
    BY <1>2 DEF PlaceMarketOrder
  <2>2. /\ Waiting("place", o, "single", {}) \in CallType
        /\ Waiting("place", o, "single", {}).op = "place"
        /\ Waiting("place", o, "single", {}).item = o
    BY <1>0, WaitingType
  <2>3. CallsTyped'  BY <2>1, <2>2, CallChanges
  <2> QED  BY <1>0, <1>2, <2>3 DEF PlaceMarketOrder, venue
<1>3. ASSUME NEW p \in Positions, ClosePosition(c, p) PROVE TypeOK'
  <2>1. CallsTyped /\ call' = [call EXCEPT ![c] = Waiting("close", p, "single", {})]
    BY <1>3 DEF ClosePosition
  <2>2. /\ Waiting("close", p, "single", {}) \in CallType
        /\ Waiting("close", p, "single", {}).op = "close"
        /\ Waiting("close", p, "single", {}).item = p
    BY <1>0, WaitingType
  <2>3. CallsTyped'  BY <2>1, <2>2, CallChanges
  <2> QED  BY <1>0, <1>3, <2>3 DEF ClosePosition, venue
<1>4. CASE CloseAllPositions(c)
  <2> DEFINE debt == {<<p, Standing(p)>> : p \in open}
  <2>1. debt \in Debts  BY DEF Debts, Standing
  <2>2. CallsTyped' /\ owed' \in [Callers -> Debts] /\ left' \in Debts
    <3>1. CASE cacheAge < TTL
      <4>1. CloseNext(c, cache, "clean", debt)  BY <1>4, <3>1 DEF CloseAllPositions
      <4> HIDE DEF debt
      <4> QED  BY <2>1, <4>1, CloseNextEffect
    <3>2. CASE ~(cacheAge < TTL)
      <4>1. /\ call' = [call EXCEPT ![c] = Waiting("positions", Nothing, "clean", {})]
            /\ owed' = [owed EXCEPT ![c] = debt] /\ left' = {}
        BY <1>4, <3>2 DEF CloseAllPositions
      <4> HIDE DEF debt
      <4>2. /\ Waiting("positions", Nothing, "clean", {}) \in CallType
            /\ Waiting("positions", Nothing, "clean", {}).op = "positions"
        BY Constants DEF Waiting, CallType
      <4>3. CallsTyped'  BY <4>1, <4>2, CallChanges
      <4> QED  BY <1>0, <2>1, <4>1, <4>3
    <3> QED  BY <3>1, <3>2
  <2> QED  BY <1>4, <2>2 DEF CloseAllPositions, venue
<1> QED  BY <1>1, <1>2, <1>3, <1>4 DEF Calls

LEMMA AbandonedType ==
  ASSUME TypeOK, NEW c \in Callers, Abandoned(c)
  PROVE  strays' \in [Orders -> Nat]
  BY DEF TypeOK, CallsTyped, Abandoned

LEMMA RequestType ==
  ASSUME TypeOK, NEW c \in Callers, Request(c) \/ RateLimited(c)
  PROVE  TypeOK'
<1>0. call[c] \in CallType /\ CallsTyped  BY DEF TypeOK, CallsTyped
<1>1. CASE Fails(c)
  <2>1. strays' \in [Orders -> Nat]  BY <1>1, AbandonedType DEF Fails
  <2>2. CASE Retry(c)
    BY <1>1, <2>1, <2>2, RetryType DEF Fails, Retry, TypeOK
  <2>3. CASE Raises(c)
    BY <1>1, <2>1, <2>3, RaisesType DEF Fails, TypeOK
  <2> QED  BY <1>1, <2>2, <2>3 DEF Fails
<1>2. CASE RateLimited(c)
  BY <1>2, RetryType DEF RateLimited, Retry, TypeOK, venue
<1>3. CASE Resume(c)
  <2>1. CASE AttemptsLeft(c)
    <3> DEFINE r == [call[c] EXCEPT !.pc = Dispatched, !.attempt = @ + 1]
    <3>1. r \in CallType /\ r.op = call[c].op /\ r.item = call[c].item
      <4>1. call[c].attempt \in 0..Retries - 1  BY <1>0 DEF CallType
      <4>2. call[c].attempt + 1 \in 0..Retries - 1
        BY <2>1, <4>1, Constants DEF AttemptsLeft
      <4>3. Dispatched \in {"sent", "dead"}  BY DEF Dispatched
      <4> QED  BY <1>0, <4>2, <4>3 DEF CallType
    <3>2. call' = [call EXCEPT ![c] = r]  BY <1>3, <2>1 DEF Resume
    <3> HIDE DEF r
    <3>3. CallsTyped'  BY <1>0, <3>1, <3>2, CallChanges DEF CallsTyped
    <3>4. left' \in Debts  BY <1>3, <2>1 DEF Resume, Debts
    <3> QED  BY <1>3, <2>1, <3>3, <3>4 DEF Resume, TypeOK, venue
  <2>2. CASE ~AttemptsLeft(c)
    BY <1>3, <2>2, RaisesType DEF Resume, TypeOK, venue
  <2> QED  BY <2>1, <2>2
<1>4. CASE Receive(c)
  <2>1. CallsTyped' /\ owed' \in [Callers -> Debts] /\ left' \in Debts
    <3>1. CASE call[c].mode = "single"
      <4>1. call' = [call EXCEPT ![c] = Idle] /\ owed' = owed /\ left' = {}
        BY <1>4, <3>1 DEF Receive
      <4>2. CallsTyped'  BY <1>0, <4>1, IdleType, CallChanges
      <4> QED  BY <4>1, <4>2 DEF TypeOK, Debts
    <3>2. CASE call[c].mode # "single"
      <4> DEFINE todo == IF call[c].op = "positions" THEN call[c].snap ELSE call[c].todo
      <4>1. todo \in SUBSET Positions /\ call[c].mode \in {"clean", "failed"}
        BY <1>0, <3>2 DEF CallType
      <4>2. CloseNext(c, todo, call[c].mode, owed[c])  BY <1>4, <3>2 DEF Receive
      <4>3. owed \in [Callers -> Debts] /\ owed[c] \in Debts  BY DEF TypeOK
      <4> HIDE DEF todo
      <4> QED  BY <1>0, <4>1, <4>2, <4>3, CloseNextEffect
    <3> QED  BY <3>1, <3>2
  <2>2. cache' \subseteq Positions
    BY <1>0, <1>4 DEF Receive, CallType, TypeOK
  <2>3. cacheAge' \in 0..TTL
    BY <1>4, Constants DEF Receive, TypeOK
  <2>4. order' \in [Orders -> {"new", "placing", "filled", "failed"}]
    BY <1>4 DEF Receive, TypeOK
  <2> QED  BY <1>4, <2>1, <2>2, <2>3, <2>4 DEF Receive, TypeOK, venue
<1> QED  BY <1>1, <1>2, <1>3, <1>4 DEF Request

LEMMA VenueType ==
  ASSUME TypeOK, NEW c \in Callers, VenueAnswers(c)
  PROVE  TypeOK'
<1>0. call[c] \in CallType /\ CallsTyped  BY DEF TypeOK, CallsTyped
<1>1. PICK answer \in {"ok", "nofill"} :
        /\ call' = [call EXCEPT ![c].pc = "got", ![c].answer = answer,
                      ![c].snap = IF call[c].op = "positions" THEN open ELSE {}]
        /\ IF call[c].op = "place" /\ answer = "ok"
           THEN Opens(Leg[call[c].item])
                  /\ executed' = [executed EXCEPT ![call[c].item] = @ + 1] /\ owed' = owed
           ELSE /\ executed' = executed
                /\ IF call[c].op # "close" THEN open' = open /\ age' = age /\ owed' = owed
                   ELSE Closes(call[c].item) \/ Refuses(c, call[c].item)
  BY DEF VenueAnswers
<1> DEFINE r == [call[c] EXCEPT !.pc = "got", !.answer = answer,
                   !.snap = IF call[c].op = "positions" THEN open ELSE {}]
<1>2. r \in CallType /\ r.op = call[c].op /\ r.item = call[c].item
  BY <1>0 DEF CallType, TypeOK
<1>3. call' = [call EXCEPT ![c] = r]  BY <1>1
<1> HIDE DEF r
<1>4. CallsTyped'  BY <1>0, <1>2, <1>3, CallChanges DEF CallsTyped
<1>5. /\ open' \subseteq Positions /\ age' \in [Positions -> 0..Old]
      /\ owed' \in [Callers -> Debts] /\ executed' \in [Orders -> Nat]
  <2>1. CASE call[c].op = "place" /\ answer = "ok"
    <3>1. call[c].item \in Orders /\ Leg[call[c].item] \in Positions
      BY <1>0, <2>1, Constants DEF CallsTyped
    <3>2. /\ Opens(Leg[call[c].item])
          /\ executed' = [executed EXCEPT ![call[c].item] = @ + 1] /\ owed' = owed
      BY <1>1, <2>1
    <3>3. open' \subseteq Positions /\ age' \in [Positions -> 0..Old]
      BY <3>1, <3>2, OpensType
    <3> QED  BY <3>1, <3>2, <3>3 DEF TypeOK
  <2>2. CASE ~(call[c].op = "place" /\ answer = "ok") /\ call[c].op = "close"
    <3>1. call[c].item \in Positions  BY <1>0, <2>2 DEF CallsTyped
    <3>2. (Closes(call[c].item) \/ Refuses(c, call[c].item)) /\ executed' = executed
      BY <1>1, <2>2
    <3> QED  BY <3>1, <3>2, ClosesType, RefusesType DEF TypeOK
  <2>3. CASE ~(call[c].op = "place" /\ answer = "ok") /\ call[c].op # "close"
    BY <1>1, <2>3 DEF TypeOK
  <2> QED  BY <2>1, <2>2, <2>3
<1> QED  BY <1>4, <1>5 DEF VenueAnswers, TypeOK, Debts

LEMMA TypeNext == TypeOK /\ [Next]_vars => TypeOK'
<1> SUFFICES ASSUME TypeOK, [Next]_vars PROVE TypeOK'  OBVIOUS
<1>0. {} \in Debts  BY DEF Debts
<1>1. CASE UNCHANGED vars
  BY <1>1 DEF vars, client, venue, TypeOK, CallsTyped
<1>2. CASE Connect
  BY <1>0, <1>2, Constants DEF Connect, venue, TypeOK, CallsTyped
<1>3. CASE Disconnect
  BY <1>0, <1>3 DEF Disconnect, venue, TypeOK, CallsTyped
<1>4. CASE Tick
  <2>1. CallsTyped'
    <3>1. ASSUME NEW c \in Callers
          PROVE  /\ call'[c] \in CallType
                 /\ call'[c].op = call[c].op /\ call'[c].item = call[c].item
      <4>1. call[c] \in CallType  BY DEF TypeOK, CallsTyped
      <4>2. CASE Asking(c)
        <5>1. call[c].age < Timeout /\ call'[c] = [call[c] EXCEPT !.age = @ + 1]
          BY <1>4, <4>2 DEF Tick
        <5> QED  BY <4>1, <5>1, Constants DEF CallType
      <4>3. CASE ~Asking(c)
        BY <1>4, <4>1, <4>3 DEF Tick
      <4> QED  BY <4>2, <4>3
    <3>2. call' = [c \in Callers |-> call'[c]]  BY <1>4 DEF Tick
    <3>3. call' \in [Callers -> CallType]  BY <3>1, <3>2
    <3> QED  BY <3>1, <3>3 DEF TypeOK, CallsTyped
  <2>2. cacheAge' \in 0..TTL /\ age' \in [Positions -> 0..Old]
    <3>1. TTL \in Nat /\ Old \in Nat  BY Constants DEF Old
    <3>2. \A p \in Positions : Older(age[p], Old) \in 0..Old
      BY <3>1, OlderType DEF TypeOK
    <3>3. Older(cacheAge, TTL) \in 0..TTL  BY <3>1, OlderType DEF TypeOK
    <3> QED  BY <1>4, <3>2, <3>3 DEF Tick
  <2> QED  BY <1>0, <1>4, <2>1, <2>2 DEF Tick, TypeOK
<1>5. ASSUME NEW c \in Callers, Calls(c) PROVE TypeOK'
  BY <1>5, CallsType
<1>6. ASSUME NEW c \in Callers, Acquire(c) PROVE TypeOK'
  <2> DEFINE r == [call[c] EXCEPT !.pc = Dispatched]
  <2>1. call[c] \in CallType /\ CallsTyped  BY DEF TypeOK, CallsTyped
  <2>2. r \in CallType /\ r.op = call[c].op /\ r.item = call[c].item
    BY <2>1 DEF CallType, Dispatched
  <2>3. call' = [call EXCEPT ![c] = r]  BY <1>6 DEF Acquire
  <2> HIDE DEF r
  <2>4. CallsTyped'  BY <2>1, <2>2, <2>3, CallChanges DEF CallsTyped
  <2>5. free \in Nat /\ free > 0 /\ free' = free - 1  BY <1>6 DEF Acquire, TypeOK
  <2>6. free' \in Nat  BY <2>5
  <2> QED  BY <1>0, <1>6, <2>4, <2>6 DEF Acquire, TypeOK, venue
<1>7. ASSUME NEW c \in Callers, Request(c) \/ RateLimited(c) PROVE TypeOK'
  BY <1>7, RequestType
<1>8. ASSUME NEW c \in Callers, VenueAnswers(c) PROVE TypeOK'
  BY <1>8, VenueType
<1>9. ASSUME NEW c \in Callers, CutOff(c) PROVE TypeOK'
  <2>1. call' = [call EXCEPT ![c] = Idle] /\ owed' = [owed EXCEPT ![c] = {}] /\ left' = {}
    BY <1>9 DEF CutOff
  <2>2. CallsTyped'  BY <2>1, IdleType, CallChanges DEF TypeOK
  <2>3. strays' \in [Orders -> Nat]  BY <1>9, AbandonedType DEF CutOff
  <2>4. order' \in [Orders -> {"new", "placing", "filled", "failed"}]
    BY <1>9 DEF CutOff, TypeOK
  <2>5. free \in Nat /\ (free' = free + 1 \/ free' = free)
    BY <1>9 DEF CutOff, TypeOK
  <2>6. free' \in Nat  BY <2>5
  <2> QED  BY <1>0, <1>9, <2>1, <2>2, <2>3, <2>4, <2>6 DEF CutOff, TypeOK
<1>10. ASSUME NEW o \in Orders, StrayExecutes(o) PROVE TypeOK'
  <2>1. Leg[o] \in Positions  BY Constants
  <2>2. open' \subseteq Positions /\ age' \in [Positions -> 0..Old]
    BY <1>10, <2>1, OpensType DEF StrayExecutes
  <2>3. strays' \in [Orders -> Nat] /\ executed' \in [Orders -> Nat]
    BY <1>10 DEF StrayExecutes, TypeOK
  <2> QED  BY <1>0, <1>10, <2>2, <2>3 DEF StrayExecutes, client, TypeOK, CallsTyped
<1>11. ASSUME NEW p \in Positions, VenueCloses(p) PROVE TypeOK'
  BY <1>0, <1>11, ClosesType DEF VenueCloses, client, TypeOK, CallsTyped
<1> QED  BY <1>1, <1>2, <1>3, <1>4, <1>5, <1>6, <1>7, <1>8, <1>9, <1>10, <1>11 DEF Next

THEOREM TypeCorrect == Spec => []TypeOK
<1>1. Init => TypeOK  BY TypeInit
<1>2. TypeOK /\ [Next]_vars => TypeOK'  BY TypeNext
<1> QED  BY <1>1, <1>2, PTL DEF Spec

-----------------------------------------------------------------------------
(* Permits.  PermitsKept says it with the finiteness counting needs.        *)
PermitsKept == IsFiniteSet(Holders) /\ PermitsAddUp

LEMMA HoldersChange ==
  ASSUME TypeOK, PermitsKept, NEW c \in Callers,
         \A d \in Callers \ {c} : (Holds(d)' <=> Holds(d))
  PROVE  /\ (Holds(c) <=> Holds(c)') /\ free' = free => PermitsKept'
         /\ Holds(c) /\ ~Holds(c)' /\ free' = free + 1 => PermitsKept'
         /\ ~Holds(c) /\ Holds(c)' /\ free' = free - 1 => PermitsKept'
<1>1. free \in Nat /\ Slots \in Nat /\ Cardinality(Holders) \in Nat
      /\ IsFiniteSet(Holders) /\ free + Cardinality(Holders) = Slots
  BY Constants, FS_CardinalityType DEF TypeOK, PermitsKept, PermitsAddUp
<1>2. ASSUME (Holds(c) <=> Holds(c)'), free' = free PROVE PermitsKept'
  <2>1. Holders' = Holders  BY <1>2 DEF Holders
  <2> QED  BY <1>1, <1>2, <2>1 DEF PermitsKept, PermitsAddUp
<1>3. ASSUME Holds(c), ~Holds(c)', free' = free + 1 PROVE PermitsKept'
  <2>1. Holders' = Holders \ {c} /\ c \in Holders  BY <1>3 DEF Holders
  <2>2. IsFiniteSet(Holders') /\ Cardinality(Holders') = Cardinality(Holders) - 1
    BY <1>1, <2>1, FS_RemoveElement
  <2> QED  BY <1>1, <1>3, <2>2 DEF PermitsKept, PermitsAddUp
<1>4. ASSUME ~Holds(c), Holds(c)', free' = free - 1 PROVE PermitsKept'
  <2>1. Holders' = Holders \union {c} /\ c \notin Holders  BY <1>4 DEF Holders
  <2>2. IsFiniteSet(Holders') /\ Cardinality(Holders') = Cardinality(Holders) + 1
    BY <1>1, <2>1, FS_AddElement
  <2> QED  BY <1>1, <1>4, <2>2 DEF PermitsKept, PermitsAddUp
<1> QED  BY <1>2, <1>3, <1>4

(* Between its requests close_all_positions holds no permit. *)
LEMMA CloseNextHoldsNone ==
  ASSUME TypeOK, NEW c \in Callers, NEW todo, NEW mode, NEW debt, CloseNext(c, todo, mode, debt)
  PROVE  ~Holds(c)' /\ \A d \in Callers \ {c} : (Holds(d)' <=> Holds(d))
<1>0. call \in [Callers -> CallType]  BY DEF TypeOK, CallsTyped
<1>1. CASE todo = {}
  BY <1>0, <1>1 DEF CloseNext, Idle, Holds
<1>2. CASE todo # {}
  <2>1. PICK p \in todo : call' = [call EXCEPT ![c] = Waiting("close", p, mode, todo \ {p})]
    BY <1>2 DEF CloseNext
  <2> QED  BY <1>0, <2>1 DEF Waiting, Holds
<1> QED  BY <1>1, <1>2

LEMMA RaisesGivesBack ==
  ASSUME TypeOK, NEW c \in Callers, Raises(c)
  PROVE  ~Holds(c)' /\ free' = free + 1 /\ \A d \in Callers \ {c} : (Holds(d)' <=> Holds(d))
<1>0. call \in [Callers -> CallType]  BY DEF TypeOK, CallsTyped
<1>1. CASE call[c].op = "close" /\ call[c].mode # "single"
  BY <1>1, CloseNextHoldsNone DEF Raises
<1>2. CASE ~(call[c].op = "close" /\ call[c].mode # "single")
  BY <1>0, <1>2 DEF Raises, Idle, Holds
<1> QED  BY <1>1, <1>2

LEMMA RetryKeepsPermit ==
  ASSUME TypeOK, NEW c \in Callers, Retry(c)
  PROVE  Holds(c)' /\ free' = free /\ \A d \in Callers \ {c} : (Holds(d)' <=> Holds(d))
<1>0. call \in [Callers -> CallType]  BY DEF TypeOK, CallsTyped
<1>1. call' = [call EXCEPT ![c] = [call[c] EXCEPT !.pc = "pause", !.age = 0,
                                                  !.answer = Nothing, !.snap = {}]]
  BY <1>0 DEF Retry
<1>2. call'[c].pc = "pause"  BY <1>0, <1>1 DEF CallType
<1> QED  BY <1>0, <1>1, <1>2 DEF Retry, Holds

(* Each step of a caller. *)
LEMMA CallerKeepsPermits ==
  ASSUME TypeOK, PermitsKept, NEW c \in Callers,
         Calls(c) \/ Acquire(c) \/ Request(c) \/ RateLimited(c) \/ VenueAnswers(c) \/ CutOff(c)
  PROVE  PermitsKept'
<1>0. call \in [Callers -> CallType] /\ free \in Nat  BY DEF TypeOK, CallsTyped
<1>1. CASE Calls(c)
  <2>1. call[c] = Idle /\ free' = free
    BY <1>1 DEF Calls, GetPositions, CloseAllPositions, PlaceMarketOrder, ClosePosition
  <2>2. ~Holds(c)  BY <2>1 DEF Holds, Idle
  <2>3. ~Holds(c)' /\ \A d \in Callers \ {c} : (Holds(d)' <=> Holds(d))
    <3>1. CASE GetPositions(c)
      BY <1>0, <3>1 DEF GetPositions, Waiting, Holds
    <3>2. CASE CloseAllPositions(c)
      <4>1. CASE cacheAge < TTL
        BY <3>2, <4>1, CloseNextHoldsNone DEF CloseAllPositions
      <4>2. CASE ~(cacheAge < TTL)
        BY <1>0, <3>2, <4>2 DEF CloseAllPositions, Waiting, Holds
      <4> QED  BY <4>1, <4>2
    <3>3. ASSUME NEW o \in Orders, PlaceMarketOrder(c, o)
          PROVE  ~Holds(c)' /\ \A d \in Callers \ {c} : (Holds(d)' <=> Holds(d))
      BY <1>0, <3>3 DEF PlaceMarketOrder, Waiting, Holds
    <3>4. ASSUME NEW p \in Positions, ClosePosition(c, p)
          PROVE  ~Holds(c)' /\ \A d \in Callers \ {c} : (Holds(d)' <=> Holds(d))
      BY <1>0, <3>4 DEF ClosePosition, Waiting, Holds
    <3> QED  BY <1>1, <3>1, <3>2, <3>3, <3>4 DEF Calls
  <2> QED  BY <2>1, <2>2, <2>3, HoldersChange
<1>2. CASE Acquire(c)
  <2>1. ~Holds(c) /\ free' = free - 1  BY <1>2 DEF Acquire, Holds
  <2>2. call' = [call EXCEPT ![c] = [call[c] EXCEPT !.pc = Dispatched]]  BY <1>0, <1>2 DEF Acquire
  <2>3. call'[c].pc \in {"sent", "dead"}  BY <1>0, <2>2 DEF CallType, Dispatched
  <2>4. Holds(c)' /\ \A d \in Callers \ {c} : (Holds(d)' <=> Holds(d))
    BY <1>0, <2>2, <2>3 DEF Holds
  <2> QED  BY <2>1, <2>4, HoldersChange
<1>3. CASE Fails(c)
  <2>1. Holds(c)  BY <1>3 DEF Fails, Holds
  <2> QED  BY <1>3, <2>1, RetryKeepsPermit, RaisesGivesBack, HoldersChange DEF Fails
<1>4. CASE RateLimited(c)
  <2>1. Holds(c) /\ Retry(c)  BY <1>4 DEF RateLimited, Holds
  <2> QED  BY <2>1, RetryKeepsPermit, HoldersChange
<1>5. CASE Resume(c)
  <2>1. Holds(c)  BY <1>5 DEF Resume, Holds
  <2>2. CASE AttemptsLeft(c)
    <3>1. /\ call' = [call EXCEPT ![c] = [call[c] EXCEPT !.pc = Dispatched, !.attempt = @ + 1]]
          /\ free' = free
      BY <1>0, <1>5, <2>2 DEF Resume
    <3>2. call'[c].pc \in {"sent", "dead"}  BY <1>0, <3>1 DEF CallType, Dispatched
    <3>3. Holds(c)' /\ \A d \in Callers \ {c} : (Holds(d)' <=> Holds(d))
      BY <1>0, <3>1, <3>2 DEF Holds
    <3> QED  BY <2>1, <3>1, <3>3, HoldersChange
  <2>3. CASE ~AttemptsLeft(c)
    BY <1>5, <2>1, <2>3, RaisesGivesBack, HoldersChange DEF Resume
  <2> QED  BY <2>2, <2>3
<1>6. CASE Receive(c)
  <2>1. Holds(c) /\ free' = free + 1  BY <1>6 DEF Receive, Holds
  <2>2. ~Holds(c)' /\ \A d \in Callers \ {c} : (Holds(d)' <=> Holds(d))
    <3>1. CASE call[c].mode = "single"
      BY <1>0, <1>6, <3>1 DEF Receive, Idle, Holds
    <3>2. CASE call[c].mode # "single"
      BY <1>6, <3>2, CloseNextHoldsNone DEF Receive
    <3> QED  BY <3>1, <3>2
  <2> QED  BY <2>1, <2>2, HoldersChange
<1>7. CASE VenueAnswers(c)
  <2>1. PICK answer : call' = [call EXCEPT ![c].pc = "got", ![c].answer = answer,
                                 ![c].snap = IF call[c].op = "positions" THEN open ELSE {}]
    BY <1>7 DEF VenueAnswers
  <2>2. Holds(c) /\ free' = free  BY <1>7 DEF VenueAnswers, Holds
  <2>3. call' = [call EXCEPT ![c] = [call[c] EXCEPT !.pc = "got", !.answer = answer,
                               !.snap = IF call[c].op = "positions" THEN open ELSE {}]]
    BY <1>0, <2>1
  <2>4. call'[c].pc = "got"  BY <1>0, <2>3 DEF CallType
  <2>5. Holds(c)' /\ \A d \in Callers \ {c} : (Holds(d)' <=> Holds(d))
    BY <1>0, <2>3, <2>4 DEF Holds
  <2> QED  BY <2>2, <2>5, HoldersChange
<1>8. CASE CutOff(c)
  <2>1. ~Holds(c)' /\ \A d \in Callers \ {c} : (Holds(d)' <=> Holds(d))
    BY <1>0, <1>8 DEF CutOff, Idle, Holds
  <2>2. free' = IF Holds(c) THEN free + 1 ELSE free  BY <1>8 DEF CutOff
  <2> QED  BY <2>1, <2>2, HoldersChange
<1> QED  BY <1>1, <1>2, <1>3, <1>4, <1>5, <1>6, <1>7, <1>8 DEF Request

(* No permit of the connector's semaphore is ever lost or given back twice, *)
(* whatever fails, is retried, rate limited or cut off.                     *)
THEOREM PermitsAreKept == Spec => []PermitsAddUp
<1>1. Init => TypeOK /\ PermitsKept
  <2> SUFFICES ASSUME Init PROVE PermitsKept  BY TypeInit
  <2>1. Holders = {} /\ free = Slots  BY DEF Init, Holders, Holds, Idle
  <2> QED  BY <2>1, Constants, FS_EmptySet DEF PermitsKept, PermitsAddUp
<1>2. TypeOK /\ PermitsKept /\ [Next]_vars => PermitsKept'
  <2> SUFFICES ASSUME TypeOK, PermitsKept, [Next]_vars PROVE PermitsKept'  OBVIOUS
  <2>1. ASSUME UNCHANGED <<call, free>> PROVE PermitsKept'
    BY <2>1 DEF PermitsKept, PermitsAddUp, Holders, Holds
  <2>2. CASE Connect \/ Disconnect \/ UNCHANGED vars
    BY <2>1, <2>2 DEF Connect, Disconnect, vars, client
  <2>3. CASE Tick
    <3>1. \A c \in Callers : call'[c].pc = call[c].pc
      <4> SUFFICES ASSUME NEW c \in Callers PROVE call'[c].pc = call[c].pc  OBVIOUS
      <4>1. call[c] \in CallType  BY DEF TypeOK, CallsTyped
      <4>2. call'[c] \in {call[c], [call[c] EXCEPT !.age = @ + 1]}  BY <2>3 DEF Tick
      <4> QED  BY <4>1, <4>2 DEF CallType
    <3>2. Holders' = Holders /\ free' = free  BY <2>3, <3>1 DEF Holders, Holds, Tick
    <3> QED  BY <3>2 DEF PermitsKept, PermitsAddUp
  <2>4. ASSUME NEW o \in Orders, StrayExecutes(o) PROVE PermitsKept'
    BY <2>1, <2>4 DEF StrayExecutes, client
  <2>5. ASSUME NEW p \in Positions, VenueCloses(p) PROVE PermitsKept'
    BY <2>1, <2>5 DEF VenueCloses, client
  <2> QED  BY <2>2, <2>3, <2>4, <2>5, CallerKeepsPermits DEF Next
<1>3. PermitsKept => PermitsAddUp  BY DEF PermitsKept
<1> QED  BY <1>1, <1>2, <1>3, TypeNext, PTL DEF Spec

-----------------------------------------------------------------------------
(* Orders.  What a call may have cost the venue, at its place in the loop   *)
(* of attempts, bounds what is executed or still under way; a call places   *)
(* an order alone.                                                          *)
Spent(r) == CASE r.pc = "wait" -> 0
              [] r.pc \in {"sent", "dead"} -> r.attempt
              [] OTHER -> r.attempt + 1

Used(o) == executed[o] + strays[o]

Places(c, o) == call[c].op = "place" /\ call[c].item = o

PlacesWell(c, o) ==
  /\ order[o] = "placing"
  /\ Used(o) <= Spent(call[c])
  /\ call[c].pc = "got" /\ call[c].answer = "ok" => executed[o] > 0

OrdersInv ==
  /\ ExecutionsBounded
  /\ \A c \in Callers, o \in Orders : Places(c, o) => PlacesWell(c, o)
  /\ \A c, d \in Callers, o \in Orders : Places(c, o) /\ Places(d, o) => c = d

-----------------------------------------------------------------------------
(* Positions.  A list differs from the venue only by what changed lately,   *)
(* and what a clean close_all_positions owes is still before it.            *)
Differs(list, p) == (p \in list) # (p \in open)

CacheInv ==
  cacheAge < TTL =>
    \A p \in Positions : Differs(cache, p) => age[p] <= cacheAge + Timeout

ListInv ==
  \A c \in Callers : call[c].op = "positions" /\ call[c].pc = "got" =>
    \A p \in Positions : Differs(call[c].snap, p) => age[p] <= call[c].age

Ahead(r, q) ==
  /\ r.mode # "single" => r.op \in {"positions", "close"}
  /\ r.op = "positions" /\ r.pc = "got" /\ r.mode # "single" => q[1] \in r.snap
  /\ r.op = "close" /\ r.mode = "clean" /\ q[2] = "old" =>
       q[1] \in r.todo \/ (q[1] = r.item /\ r.pc # "got")

OwedInv == \A c \in Callers : \A q \in owed[c] : q[1] \in open /\ Ahead(call[c], q)

PositionsInv == OldPositionsAreAnswered /\ CacheInv /\ ListInv /\ OwedInv

-----------------------------------------------------------------------------
(* Orders: the proof *)
LEMMA SpentRange ==
  ASSUME TypeOK, NEW c \in Callers
  PROVE  /\ Spent(call[c]) \in Nat /\ Spent(call[c]) <= Retries
         /\ call[c].attempt + 1 <= Retries /\ call[c].attempt \in Nat
<1>1. call[c].attempt \in 0..Retries - 1  BY DEF TypeOK, CallsTyped, CallType
<1>2. call[c].attempt \in Nat /\ call[c].attempt + 1 <= Retries /\ Retries \in Nat
  BY <1>1, Constants
<1>3. \/ Spent(call[c]) = 0 \/ Spent(call[c]) = call[c].attempt
      \/ Spent(call[c]) = call[c].attempt + 1
  BY DEF Spent
<1> QED  BY <1>2, <1>3

LEMMA UsedNat ==
  ASSUME TypeOK
  PROVE  \A o \in Orders : executed[o] \in Nat /\ strays[o] \in Nat /\ Used(o) \in Nat
  BY DEF TypeOK, Used

(* An order that is being placed is within its bound. *)
LEMMA BoundFromSpent ==
  ASSUME TypeOK', NEW c \in Callers, NEW o \in Orders, Used(o)' <= Spent(call[c])'
  PROVE  Used(o)' <= Retries
<1>1. call'[c].attempt \in 0..Retries - 1  BY DEF TypeOK, CallsTyped, CallType
<1>2. call'[c].attempt \in Nat /\ call'[c].attempt + 1 <= Retries /\ Retries \in Nat
  BY <1>1, Constants
<1>3. \/ Spent(call[c])' = 0 \/ Spent(call[c])' = call'[c].attempt
      \/ Spent(call[c])' = call'[c].attempt + 1
  BY DEF Spent
<1>4. Used(o)' \in Nat  BY DEF TypeOK, Used
<1> QED  BY <1>2, <1>3, <1>4

OrderKept(o) == /\ executed'[o] = executed[o] /\ strays'[o] = strays[o]
                /\ order'[o] = order[o]

(* One caller moves, and only the order it was placing, or a new one it now *)
(* places, is touched.                                                      *)
LEMMA OneCallerMoves ==
  ASSUME TypeOK, TypeOK', OrdersInv, NEW c \in Callers,
         \A d \in Callers \ {c} : call'[d] = call[d],
         \A o \in Orders : OrderKept(o) \/ Places(c, o) \/ order[o] = "new",
         \A o \in Orders : Places(c, o)' =>
           PlacesWell(c, o)' /\ (Places(c, o) \/ order[o] = "new"),
         \A o \in Orders : ~OrderKept(o) =>
           /\ Used(o)' <= Retries
           /\ order'[o] = "filled" => executed'[o] > 0
           /\ order'[o] # "new"
  PROVE  OrdersInv'
<1>1. ExecutionsBounded'
  <2>1. ASSUME NEW o \in Orders, OrderKept(o)
        PROVE  /\ Used(o)' <= Retries
               /\ order'[o] = "filled" => executed'[o] > 0
               /\ order'[o] = "new" => Used(o)' = 0
    BY <2>1 DEF OrdersInv, ExecutionsBounded, OrderKept, Used
  <2> QED  BY <2>1 DEF ExecutionsBounded, Used
<1>2. ASSUME NEW d \in Callers, NEW o \in Orders, Places(d, o)'
      PROVE  PlacesWell(d, o)'
  <2>1. CASE d = c  BY <1>2, <2>1
  <2>2. CASE d # c
    <3>1. call'[d] = call[d] /\ Places(d, o)  BY <1>2, <2>2 DEF Places
    <3>2. PlacesWell(d, o) /\ order[o] # "new" /\ ~Places(c, o)
      BY <2>2, <3>1 DEF OrdersInv, PlacesWell
    <3>3. OrderKept(o)  BY <3>2
    <3> QED  BY <3>1, <3>2, <3>3 DEF PlacesWell, OrderKept, Used, Spent
  <2> QED  BY <2>1, <2>2
<1>3. ASSUME NEW d \in Callers, NEW o \in Orders, d # c, Places(d, o)'
      PROVE  ~Places(c, o)' /\ Places(d, o)
  <2>1. Places(d, o)  BY <1>3 DEF Places
  <2>2. order[o] = "placing"  BY <2>1 DEF OrdersInv, PlacesWell
  <2>3. ~Places(c, o)  BY <1>3, <2>1 DEF OrdersInv
  <2> QED  BY <2>1, <2>2, <2>3
<1>4. \A d, e \in Callers, o \in Orders : Places(d, o)' /\ Places(e, o)' => d = e
  BY <1>3 DEF OrdersInv
<1> QED  BY <1>1, <1>2, <1>4 DEF OrdersInv

(* Nobody places more than before and no order is touched. *)
LEMMA OrdersUntouched ==
  ASSUME TypeOK, OrdersInv, UNCHANGED <<order, executed, strays>>,
         \A c \in Callers : \A o \in Orders : Places(c, o)' =>
           /\ Places(c, o) /\ Spent(call[c])' = Spent(call[c])
           /\ call'[c].pc = call[c].pc /\ call'[c].answer = call[c].answer
  PROVE  OrdersInv'
  BY DEF OrdersInv, ExecutionsBounded, PlacesWell, Used

(* The call of c has ended or is no order; the order it placed, if any, has *)
(* its outcome.                                                             *)
LEMMA CallerLeaves ==
  ASSUME TypeOK, TypeOK', OrdersInv, NEW c \in Callers,
         \A d \in Callers \ {c} : call'[d] = call[d], call'[c].op # "place",
         \A o \in Orders : OrderKept(o) \/
           /\ Places(c, o)
           /\ Used(o)' <= Retries
           /\ order'[o] = "filled" => executed'[o] > 0
           /\ order'[o] # "new"
  PROVE  OrdersInv'
<1>1. \A o \in Orders : ~Places(c, o)'  BY DEF Places
<1> QED  BY <1>1, OneCallerMoves

LEMMA CallsKeepOrders ==
  ASSUME TypeOK, TypeOK', OrdersInv, NEW c \in Callers, Calls(c)
  PROVE  OrdersInv'
<1>1. CASE GetPositions(c)
  <2>1. /\ call' = [call EXCEPT ![c] = Waiting("positions", Nothing, "single", {})]
        /\ order' = order /\ executed' = executed /\ strays' = strays
    BY <1>1 DEF GetPositions, venue
  <2>2. call'[c].op # "place" /\ \A d \in Callers \ {c} : call'[d] = call[d]
    BY <2>1 DEF TypeOK, CallsTyped, Waiting
  <2> QED  BY <2>1, <2>2, CallerLeaves DEF OrderKept
<1>2. ASSUME NEW n \in Orders, PlaceMarketOrder(c, n) PROVE OrdersInv'
  <2>1. /\ order[n] = "new" /\ order' = [order EXCEPT ![n] = "placing"]
        /\ call' = [call EXCEPT ![c] = Waiting("place", n, "single", {})]
        /\ executed' = executed /\ strays' = strays
    BY <1>2 DEF PlaceMarketOrder, venue
  <2>2. \A d \in Callers \ {c} : call'[d] = call[d]
    BY <2>1 DEF TypeOK, CallsTyped
  <2>3. /\ call'[c].op = "place" /\ call'[c].item = n /\ call'[c].pc = "wait"
    BY <2>1 DEF TypeOK, CallsTyped, Waiting
  <2>4. order'[n] = "placing" /\ \A o \in Orders \ {n} : OrderKept(o)
    BY <2>1 DEF TypeOK, OrderKept
  <2>5. Used(n)' = 0
    BY <2>1 DEF OrdersInv, ExecutionsBounded, Used
  <2>6. PlacesWell(c, n)'
    BY <2>3, <2>4, <2>5 DEF PlacesWell, Spent
  <2>7. \A o \in Orders : Places(c, o)' => o = n  BY <2>3 DEF Places
  <2>8. Used(n)' <= Retries  BY <2>5, Constants
  <2> QED  BY <2>1, <2>2, <2>4, <2>6, <2>7, <2>8, OneCallerMoves
<1>3. ASSUME NEW p \in Positions, ClosePosition(c, p) PROVE OrdersInv'
  <2>1. /\ call' = [call EXCEPT ![c] = Waiting("close", p, "single", {})]
        /\ order' = order /\ executed' = executed /\ strays' = strays
    BY <1>3 DEF ClosePosition, venue
  <2>2. call'[c].op # "place" /\ \A d \in Callers \ {c} : call'[d] = call[d]
    BY <2>1 DEF TypeOK, CallsTyped, Waiting
  <2> QED  BY <2>1, <2>2, CallerLeaves DEF OrderKept
<1>4. CASE CloseAllPositions(c)
  <2>1. order' = order /\ executed' = executed /\ strays' = strays
    BY <1>4 DEF CloseAllPositions, venue
  <2>2. call'[c].op # "place" /\ \A d \in Callers \ {c} : call'[d] = call[d]
    <3>1. CASE cacheAge < TTL
      <4>1. CloseNext(c, cache, "clean", {<<p, Standing(p)>> : p \in open})
        BY <1>4, <3>1 DEF CloseAllPositions
      <4> QED  BY <4>1, CloseNextCaller DEF TypeOK
    <3>2. CASE ~(cacheAge < TTL)
      <4>1. call' = [call EXCEPT ![c] = Waiting("positions", Nothing, "clean", {})]
        BY <1>4, <3>2 DEF CloseAllPositions
      <4> QED  BY <4>1 DEF TypeOK, CallsTyped, Waiting
    <3> QED  BY <3>1, <3>2
  <2> QED  BY <2>1, <2>2, CallerLeaves DEF OrderKept
<1> QED  BY <1>1, <1>2, <1>3, <1>4 DEF Calls

(* What an order costs when its request is given up. *)
LEMMA AbandonedCost ==
  ASSUME TypeOK, OrdersInv, NEW c \in Callers, NEW o \in Orders, Places(c, o),
         Abandoned(c), executed' = executed
  PROVE  /\ Used(o)' <= call[c].attempt + 1
         /\ \A n \in Orders \ {o} : strays'[n] = strays[n]
<1>1. call[c].op = "place" /\ call[c].item = o  BY DEF Places
<1>2. Used(o) <= Spent(call[c])  BY DEF OrdersInv, PlacesWell
<1>3. call[c].attempt \in Nat  BY SpentRange
<1>4. Used(o) \in Nat  BY UsedNat
<1>5. CASE call[c].pc = "sent"
  <2>1. strays' = [strays EXCEPT ![o] = @ + 1]  BY <1>1, <1>5 DEF Abandoned
  <2>2. strays'[o] = strays[o] + 1 /\ \A n \in Orders \ {o} : strays'[n] = strays[n]
    BY <2>1 DEF TypeOK
  <2>3. Used(o)' = Used(o) + 1  BY <2>2, UsedNat DEF Used
  <2>4. Used(o) <= call[c].attempt  BY <1>2, <1>5 DEF Spent
  <2> QED  BY <1>3, <1>4, <2>2, <2>3, <2>4
<1>6. CASE call[c].pc # "sent"
  <2>1. strays' = strays  BY <1>6 DEF Abandoned
  <2>2. Used(o)' = Used(o)  BY <2>1 DEF Used
  <2>3. \/ Spent(call[c]) = 0 \/ Spent(call[c]) = call[c].attempt
        \/ Spent(call[c]) = call[c].attempt + 1
    BY DEF Spent
  <2>4. Used(o) <= call[c].attempt + 1  BY <1>2, <1>3, <1>4, <2>3
  <2> QED  BY <2>1, <2>2, <2>4
<1> QED  BY <1>5, <1>6

LEMMA NothingAbandoned ==
  ASSUME TypeOK, NEW c \in Callers, Abandoned(c)
  PROVE  \A n \in Orders : ~Places(c, n) => strays'[n] = strays[n]
<1>1. call[c].op = "place" => call[c].item \in Orders  BY DEF TypeOK, CallsTyped
<1> QED  BY <1>1 DEF Abandoned, Places, TypeOK

(* A call that raises fails the order it placed, and is no order any more. *)
LEMMA RaisesEffect ==
  ASSUME TypeOK, NEW c \in Callers, Raises(c)
  PROVE  /\ call'[c].op # "place" /\ \A d \in Callers \ {c} : call'[d] = call[d]
         /\ \A o \in Orders : IF Places(c, o) THEN order'[o] = "failed"
                               ELSE order'[o] = order[o]
<1>1. call'[c].op # "place" /\ \A d \in Callers \ {c} : call'[d] = call[d]
  <2>1. CASE call[c].op = "close" /\ call[c].mode # "single"
    <3>1. CloseNext(c, call[c].todo, "failed", owed[c])  BY <2>1 DEF Raises
    <3> QED  BY <3>1, CloseNextCaller DEF TypeOK
  <2>2. CASE ~(call[c].op = "close" /\ call[c].mode # "single")
    <3>1. call' = [call EXCEPT ![c] = Idle]  BY <2>2 DEF Raises
    <3> QED  BY <3>1 DEF TypeOK, CallsTyped, Idle
  <2> QED  BY <2>1, <2>2
<1>2. \A o \in Orders : IF Places(c, o) THEN order'[o] = "failed"
                        ELSE order'[o] = order[o]
  BY DEF Raises, TypeOK, Places
<1> QED  BY <1>1, <1>2

(* A call that is put off keeps its order within what was spent. *)
LEMMA RetryKeepsOrders ==
  ASSUME TypeOK, TypeOK', OrdersInv, NEW c \in Callers, Retry(c), executed' = executed,
         Abandoned(c) \/ strays' = strays, call[c].pc \in {"sent", "dead", "got"}
  PROVE  OrdersInv'
<1>1. order' = order  BY DEF Retry
<1>2. /\ call'[c].op = call[c].op /\ call'[c].item = call[c].item
      /\ call'[c].pc = "pause" /\ call'[c].attempt = call[c].attempt
      /\ \A d \in Callers \ {c} : call'[d] = call[d]
  BY DEF Retry, TypeOK, CallsTyped, CallType
<1>3. \A o \in Orders : ~Places(c, o) => OrderKept(o)
  BY <1>1, NothingAbandoned DEF OrderKept
<1>4. ASSUME NEW o \in Orders, Places(c, o)
      PROVE  Used(o)' <= call[c].attempt + 1
  <2>1. CASE Abandoned(c)  BY <1>4, <2>1, AbandonedCost
  <2>2. CASE strays' = strays
    <3>1. Used(o)' = Used(o)  BY <2>2 DEF Used
    <3>2. Used(o) <= Spent(call[c])  BY <1>4 DEF OrdersInv, PlacesWell
    <3>3. Spent(call[c]) = call[c].attempt \/ Spent(call[c]) = call[c].attempt + 1
      BY DEF Spent
    <3> QED  BY <3>1, <3>2, <3>3, SpentRange, UsedNat
  <2> QED  BY <2>1, <2>2
<1>5. ASSUME NEW o \in Orders, Places(c, o)'
      PROVE  PlacesWell(c, o)' /\ Places(c, o) /\ Used(o)' <= Retries
  <2>1. Places(c, o)  BY <1>2, <1>5 DEF Places
  <2>2. order[o] = "placing"  BY <2>1 DEF OrdersInv, PlacesWell
  <2>3. Spent(call[c])' = call[c].attempt + 1  BY <1>2 DEF Spent
  <2>4. Used(o)' <= Spent(call[c])'  BY <1>4, <2>1, <2>3
  <2>5. PlacesWell(c, o)'  BY <1>1, <1>2, <2>2, <2>4 DEF PlacesWell
  <2> QED  BY <2>1, <2>4, <2>5, BoundFromSpent
<1>6. \A o \in Orders : Places(c, o) => order'[o] = "placing" /\ Used(o)' <= Retries
  BY <1>1, <1>2, <1>5 DEF Places, OrdersInv, PlacesWell
<1> QED  BY <1>2, <1>3, <1>5, <1>6, OneCallerMoves

LEMMA FailsKeepsOrders ==
  ASSUME TypeOK, TypeOK', OrdersInv, NEW c \in Callers, Fails(c)
  PROVE  OrdersInv'
<1>1. Abandoned(c) /\ executed' = executed /\ call[c].pc \in {"sent", "dead", "got"}
  BY DEF Fails
<1>2. CASE Retry(c)  BY <1>1, <1>2, RetryKeepsOrders
<1>3. CASE Raises(c)
  <2>1. /\ call'[c].op # "place" /\ \A d \in Callers \ {c} : call'[d] = call[d]
        /\ \A o \in Orders : IF Places(c, o) THEN order'[o] = "failed"
                              ELSE order'[o] = order[o]
    BY <1>3, RaisesEffect
  <2>2. ASSUME NEW o \in Orders, Places(c, o)
        PROVE  Used(o)' <= Retries /\ order'[o] = "failed"
    <3>1. Used(o)' <= call[c].attempt + 1  BY <1>1, <2>2, AbandonedCost
    <3>2. Used(o)' \in Nat  BY DEF TypeOK, Used
    <3> QED  BY <2>1, <2>2, <3>1, <3>2, SpentRange, Constants
  <2>3. \A o \in Orders : ~Places(c, o) => OrderKept(o)
    BY <1>1, <2>1, NothingAbandoned DEF OrderKept
  <2> QED  BY <2>1, <2>2, <2>3, CallerLeaves
<1> QED  BY <1>2, <1>3 DEF Fails

LEMMA ResumeKeepsOrders ==
  ASSUME TypeOK, TypeOK', OrdersInv, NEW c \in Callers, Resume(c)
  PROVE  OrdersInv'
<1>1. executed' = executed /\ strays' = strays /\ call[c].pc = "pause"
  BY DEF Resume, venue
<1>2. CASE AttemptsLeft(c)
  <2>1. order' = order /\ \A o \in Orders : OrderKept(o)
    BY <1>1, <1>2 DEF Resume, OrderKept
  <2>2. /\ call'[c].op = call[c].op /\ call'[c].item = call[c].item
        /\ call'[c].pc \in {"sent", "dead"} /\ call'[c].attempt = call[c].attempt + 1
        /\ \A d \in Callers \ {c} : call'[d] = call[d]
    BY <1>2 DEF Resume, TypeOK, CallsTyped, CallType, Dispatched
  <2>3. ASSUME NEW o \in Orders, Places(c, o)'
        PROVE  PlacesWell(c, o)' /\ Places(c, o)
    <3>1. Places(c, o)  BY <2>2, <2>3 DEF Places
    <3>2. order[o] = "placing" /\ Used(o) <= Spent(call[c])
      BY <3>1 DEF OrdersInv, PlacesWell
    <3>3. Spent(call[c]) = call[c].attempt + 1 /\ Spent(call[c])' = call[c].attempt + 1
      BY <1>1, <2>2 DEF Spent
    <3>4. Used(o)' = Used(o)  BY <1>1 DEF Used
    <3> QED  BY <2>1, <2>2, <3>1, <3>2, <3>3, <3>4 DEF PlacesWell
  <2> QED  BY <2>1, <2>2, <2>3, OneCallerMoves
<1>3. CASE ~AttemptsLeft(c)
  <2>1. Raises(c)  BY <1>3 DEF Resume
  <2>2. /\ call'[c].op # "place" /\ \A d \in Callers \ {c} : call'[d] = call[d]
        /\ \A o \in Orders : IF Places(c, o) THEN order'[o] = "failed"
                              ELSE order'[o] = order[o]
    BY <2>1, RaisesEffect
  <2>3. \A o \in Orders : Used(o)' = Used(o) /\ Used(o) <= Retries
    BY <1>1 DEF Used, OrdersInv, ExecutionsBounded
  <2> QED  BY <1>1, <2>2, <2>3, CallerLeaves DEF OrderKept
<1> QED  BY <1>2, <1>3

LEMMA ReceiveKeepsOrders ==
  ASSUME TypeOK, TypeOK', OrdersInv, NEW c \in Callers, Receive(c)
  PROVE  OrdersInv'
<1>1. executed' = executed /\ strays' = strays /\ call[c].pc = "got"
  BY DEF Receive, venue
<1>2. call'[c].op # "place" /\ \A d \in Callers \ {c} : call'[d] = call[d]
  <2>1. CASE call[c].mode = "single"
    <3>1. call' = [call EXCEPT ![c] = Idle]  BY <2>1 DEF Receive
    <3> QED  BY <3>1 DEF TypeOK, CallsTyped, Idle
  <2>2. CASE call[c].mode # "single"
    <3>1. CloseNext(c, IF call[c].op = "positions" THEN call[c].snap ELSE call[c].todo,
                    call[c].mode, owed[c])
      BY <2>2 DEF Receive
    <3> QED  BY <3>1, CloseNextCaller DEF TypeOK
  <2> QED  BY <2>1, <2>2
<1>3. ASSUME NEW o \in Orders, Places(c, o)
      PROVE  /\ Used(o)' <= Retries /\ order'[o] # "new"
             /\ order'[o] = "filled" => executed'[o] > 0
  <2>1. order'[o] = IF call[c].answer = "ok" THEN "filled" ELSE "failed"
    BY <1>3 DEF Receive, TypeOK, Places
  <2>2. call[c].answer = "ok" => executed[o] > 0
    BY <1>1, <1>3 DEF OrdersInv, PlacesWell
  <2>3. Used(o)' = Used(o) /\ Used(o) <= Retries
    BY <1>1 DEF Used, OrdersInv, ExecutionsBounded
  <2> QED  BY <1>1, <2>1, <2>2, <2>3
<1>4. \A o \in Orders : ~Places(c, o) => OrderKept(o)
  BY <1>1 DEF Receive, TypeOK, Places, OrderKept
<1> QED  BY <1>2, <1>3, <1>4, CallerLeaves

LEMMA CutOffKeepsOrders ==
  ASSUME TypeOK, TypeOK', OrdersInv, NEW c \in Callers, CutOff(c)
  PROVE  OrdersInv'
<1>1. Abandoned(c) /\ executed' = executed /\ call' = [call EXCEPT ![c] = Idle]
  BY DEF CutOff
<1>2. call'[c].op # "place" /\ \A d \in Callers \ {c} : call'[d] = call[d]
  BY <1>1 DEF TypeOK, CallsTyped, Idle
<1>3. \A o \in Orders : IF Places(c, o) THEN order'[o] = "failed"
                        ELSE order'[o] = order[o]
  BY DEF CutOff, TypeOK, Places
<1>4. ASSUME NEW o \in Orders, Places(c, o)
      PROVE  Used(o)' <= Retries /\ order'[o] = "failed"
  <2>1. Used(o)' <= call[c].attempt + 1  BY <1>1, <1>4, AbandonedCost
  <2>2. Used(o)' \in Nat  BY DEF TypeOK, Used
  <2> QED  BY <1>3, <1>4, <2>1, <2>2, SpentRange, Constants
<1>5. \A o \in Orders : ~Places(c, o) => OrderKept(o)
  BY <1>1, <1>3, NothingAbandoned DEF OrderKept
<1> QED  BY <1>2, <1>4, <1>5, CallerLeaves

LEMMA AcquireKeepsOrders ==
  ASSUME TypeOK, TypeOK', OrdersInv, NEW c \in Callers, Acquire(c)
  PROVE  OrdersInv'
<1>1. \A o \in Orders : OrderKept(o)
  BY DEF Acquire, venue, OrderKept
<1>2. /\ call'[c].op = call[c].op /\ call'[c].item = call[c].item
      /\ call'[c].pc \in {"sent", "dead"} /\ call[c].pc = "wait"
      /\ \A d \in Callers \ {c} : call'[d] = call[d]
  BY DEF Acquire, TypeOK, CallsTyped, CallType, Dispatched
<1>3. call'[c].attempt \in Nat
  BY DEF TypeOK, CallsTyped, CallType
<1>4. ASSUME NEW o \in Orders, Places(c, o)'
      PROVE  PlacesWell(c, o)' /\ Places(c, o)
  <2>1. Places(c, o)  BY <1>2, <1>4 DEF Places
  <2>2. order[o] = "placing" /\ Used(o) <= Spent(call[c])
    BY <2>1 DEF OrdersInv, PlacesWell
  <2>3. Spent(call[c]) = 0 /\ Spent(call[c])' = call'[c].attempt
    BY <1>2 DEF Spent
  <2>4. Used(o)' = Used(o) /\ Used(o) \in Nat  BY <1>1, UsedNat DEF Used, OrderKept
  <2>5. Used(o)' <= Spent(call[c])'  BY <1>3, <2>2, <2>3, <2>4
  <2> QED  BY <1>1, <1>2, <2>1, <2>2, <2>5 DEF PlacesWell, OrderKept
<1> QED  BY <1>1, <1>2, <1>4, OneCallerMoves

LEMMA VenueKeepsOrders ==
  ASSUME TypeOK, TypeOK', OrdersInv, NEW c \in Callers, VenueAnswers(c)
  PROVE  OrdersInv'
<1>1. order' = order /\ strays' = strays /\ call[c].pc = "sent"
  BY DEF VenueAnswers
<1>2. PICK answer \in {"ok", "nofill"} :
        /\ call' = [call EXCEPT ![c].pc = "got", ![c].answer = answer,
                      ![c].snap = IF call[c].op = "positions" THEN open ELSE {}]
        /\ IF call[c].op = "place" /\ answer = "ok"
           THEN executed' = [executed EXCEPT ![call[c].item] = @ + 1]
           ELSE executed' = executed
  BY DEF VenueAnswers
<1>3. /\ call'[c].op = call[c].op /\ call'[c].item = call[c].item
      /\ call'[c].pc = "got" /\ call'[c].attempt = call[c].attempt
      /\ call'[c].answer = answer /\ \A d \in Callers \ {c} : call'[d] = call[d]
  BY <1>2 DEF TypeOK, CallsTyped, CallType
<1>4. \A o \in Orders : ~Places(c, o) => OrderKept(o)
  BY <1>1, <1>2 DEF OrderKept, TypeOK, Places
<1>5. ASSUME NEW o \in Orders, Places(c, o)
      PROVE  PlacesWell(c, o)' /\ Used(o)' <= Retries /\ order'[o] = "placing"
  <2>1. order[o] = "placing" /\ Used(o) <= Spent(call[c])
    BY <1>5 DEF OrdersInv, PlacesWell
  <2>2. Spent(call[c]) = call[c].attempt /\ Spent(call[c])' = call[c].attempt + 1
    BY <1>1, <1>3 DEF Spent
  <2>3. executed[o] \in Nat /\ strays[o] \in Nat /\ call[c].attempt \in Nat
    BY UsedNat, SpentRange
  <2>4. IF answer = "ok" THEN executed'[o] = executed[o] + 1 ELSE executed'[o] = executed[o]
    BY <1>2, <1>5 DEF Places, TypeOK
  <2>5. Used(o)' <= Spent(call[c])'
    <3>1. executed[o] + strays[o] <= call[c].attempt  BY <2>1, <2>2 DEF Used
    <3>2. strays'[o] = strays[o]  BY <1>1
    <3>3. CASE answer = "ok"
      <4>1. executed'[o] = executed[o] + 1  BY <2>4, <3>3
      <4>2. executed'[o] + strays'[o] <= call[c].attempt + 1
        BY <2>3, <3>1, <3>2, <4>1
      <4> QED  BY <2>2, <4>2 DEF Used
    <3>4. CASE answer # "ok"
      <4>1. executed'[o] = executed[o]  BY <2>4, <3>4
      <4>2. executed'[o] + strays'[o] <= call[c].attempt + 1
        BY <2>3, <3>1, <3>2, <4>1
      <4> QED  BY <2>2, <4>2 DEF Used
    <3> QED  BY <3>3, <3>4
  <2>6. answer = "ok" => executed'[o] > 0  BY <2>3, <2>4
  <2>7. PlacesWell(c, o)'  BY <1>1, <1>3, <2>1, <2>5, <2>6 DEF PlacesWell
  <2> QED  BY <1>1, <2>1, <2>5, <2>7, BoundFromSpent
<1>6. \A o \in Orders : Places(c, o)' => Places(c, o)  BY <1>3 DEF Places
<1> QED  BY <1>3, <1>4, <1>5, <1>6, OneCallerMoves

LEMMA StrayKeepsOrders ==
  ASSUME TypeOK, TypeOK', OrdersInv, NEW s \in Orders, StrayExecutes(s)
  PROVE  OrdersInv'
<1>1. /\ strays[s] > 0 /\ strays' = [strays EXCEPT ![s] = @ - 1]
      /\ executed' = [executed EXCEPT ![s] = @ + 1] /\ call' = call /\ order' = order
  BY DEF StrayExecutes, client
<1>2. ASSUME NEW o \in Orders
      PROVE  Used(o)' = Used(o) /\ (executed[o] > 0 => executed'[o] > 0)
  <2>1. executed[o] \in Nat /\ strays[o] \in Nat  BY UsedNat
  <2>2. CASE o = s
    <3>1. executed'[o] = executed[o] + 1 /\ strays'[o] = strays[o] - 1
      BY <1>1, <2>2 DEF TypeOK
    <3> QED  BY <2>1, <3>1 DEF Used
  <2>3. CASE o # s
    <3>1. executed'[o] = executed[o] /\ strays'[o] = strays[o]
      BY <1>1, <2>3 DEF TypeOK
    <3> QED  BY <3>1 DEF Used
  <2> QED  BY <2>2, <2>3
<1>3. ExecutionsBounded'
  <2>1. \A o \in Orders : /\ Used(o) <= Retries
                          /\ order[o] = "filled" => executed[o] > 0
                          /\ order[o] = "new" => Used(o) = 0
    BY DEF OrdersInv, ExecutionsBounded, Used
  <2>2. \A o \in Orders : /\ Used(o)' <= Retries
                          /\ order'[o] = "filled" => executed'[o] > 0
                          /\ order'[o] = "new" => Used(o)' = 0
    BY <1>1, <1>2, <2>1
  <2> QED  BY <2>2 DEF ExecutionsBounded, Used
<1>4. \A c \in Callers, o \in Orders : Places(c, o)' => PlacesWell(c, o)'
  BY <1>1, <1>2 DEF OrdersInv, Places, PlacesWell, Spent
<1>5. \A c, d \in Callers, o \in Orders : Places(c, o)' /\ Places(d, o)' => c = d
  BY <1>1 DEF OrdersInv, Places
<1> QED  BY <1>3, <1>4, <1>5 DEF OrdersInv

LEMMA OrdersNext == TypeOK /\ TypeOK' /\ OrdersInv /\ [Next]_vars => OrdersInv'
<1> SUFFICES ASSUME TypeOK, TypeOK', OrdersInv, [Next]_vars PROVE OrdersInv'  OBVIOUS
<1>1. ASSUME call' = call, UNCHANGED <<order, executed, strays>>
      PROVE  OrdersInv'
  BY <1>1, OrdersUntouched DEF Places, Spent
<1>2. CASE UNCHANGED vars
  BY <1>1, <1>2 DEF vars, client, venue
<1>3. CASE Connect \/ Disconnect
  BY <1>1, <1>3 DEF Connect, Disconnect, venue
<1>4. CASE Tick
  <2>1. UNCHANGED <<order, executed, strays>>  BY <1>4 DEF Tick
  <2>2. ASSUME NEW c \in Callers
        PROVE  /\ call'[c].op = call[c].op /\ call'[c].item = call[c].item
               /\ call'[c].pc = call[c].pc /\ call'[c].answer = call[c].answer
               /\ call'[c].attempt = call[c].attempt
    BY <1>4 DEF Tick, TypeOK, CallsTyped, CallType
  <2> QED  BY <2>1, <2>2, OrdersUntouched DEF Places, Spent
<1>5. ASSUME NEW c \in Callers, Calls(c) PROVE OrdersInv'
  BY <1>5, CallsKeepOrders
<1>6. ASSUME NEW c \in Callers, Acquire(c) PROVE OrdersInv'
  BY <1>6, AcquireKeepsOrders
<1>7. ASSUME NEW c \in Callers, Request(c) PROVE OrdersInv'
  BY <1>7, FailsKeepsOrders, ResumeKeepsOrders, ReceiveKeepsOrders DEF Request
<1>8. ASSUME NEW c \in Callers, RateLimited(c) PROVE OrdersInv'
  BY <1>8, RetryKeepsOrders DEF RateLimited, venue
<1>9. ASSUME NEW c \in Callers, VenueAnswers(c) PROVE OrdersInv'
  BY <1>9, VenueKeepsOrders
<1>10. ASSUME NEW c \in Callers, CutOff(c) PROVE OrdersInv'
  BY <1>10, CutOffKeepsOrders
<1>11. ASSUME NEW o \in Orders, StrayExecutes(o) PROVE OrdersInv'
  BY <1>11, StrayKeepsOrders
<1>12. ASSUME NEW p \in Positions, VenueCloses(p) PROVE OrdersInv'
  BY <1>1, <1>12 DEF VenueCloses, client
<1> QED  BY <1>2, <1>3, <1>4, <1>5, <1>6, <1>7, <1>8, <1>9, <1>10, <1>11, <1>12 DEF Next

LEMMA OrdersInit == Init => OrdersInv
<1> SUFFICES ASSUME Init PROVE OrdersInv  OBVIOUS
<1>1. \A c \in Callers, o \in Orders : ~Places(c, o)
  BY DEF Init, Idle, Places
<1>2. ExecutionsBounded
  BY Constants DEF Init, ExecutionsBounded
<1> QED  BY <1>1, <1>2 DEF OrdersInv

(* One call of place_market_order executes at most max_retries times, and   *)
(* what it reports as filled was executed.                                  *)
THEOREM OrdersAreBounded == Spec => []ExecutionsBounded
<1>1. Init => TypeOK /\ OrdersInv  BY TypeInit, OrdersInit
<1>2. TypeOK /\ OrdersInv /\ [Next]_vars => (TypeOK /\ OrdersInv)'
  BY TypeNext, OrdersNext
<1>3. OrdersInv => ExecutionsBounded  BY DEF OrdersInv
<1> QED  BY <1>1, <1>2, <1>3, PTL DEF Spec

-----------------------------------------------------------------------------
(* Positions: the proof.  A position that is opened or closed has just      *)
(* changed; nothing else ages without the clock.                            *)
VenueMoves ==
  \A p \in Positions : age'[p] = IF (p \in open') = (p \in open) THEN age[p] ELSE 0

LEMMA MoveKinds ==
  ASSUME TypeOK,
         \/ open' = open /\ age' = age
         \/ \E p \in Positions : Opens(p)
         \/ \E p \in Positions : Closes(p)
  PROVE  VenueMoves
  BY DEF TypeOK, VenueMoves, Opens, Closes

LEMMA DiffersKept ==
  ASSUME VenueMoves, NEW p \in Positions, NEW list, NEW k \in Nat,
         (p \in list) # (p \in open) => age[p] <= k
  PROVE  (p \in list) # (p \in open') => age'[p] <= k
  BY DEF VenueMoves

LEMMA CacheKept ==
  ASSUME TypeOK, CacheInv, VenueMoves, cache' = cache, cacheAge' \in {cacheAge, TTL}
  PROVE  CacheInv'
<1> SUFFICES ASSUME cacheAge' < TTL, NEW p \in Positions, Differs(cache, p)'
             PROVE  age'[p] <= cacheAge' + Timeout
  BY DEF CacheInv
<1>1. cacheAge' = cacheAge /\ cacheAge < TTL /\ cacheAge + Timeout \in Nat
  BY Constants DEF TypeOK
<1>2. (p \in cache) # (p \in open) => age[p] <= cacheAge + Timeout
  BY <1>1 DEF CacheInv, Differs
<1>3. (p \in cache) # (p \in open')  BY DEF Differs
<1> QED  BY <1>1, <1>2, <1>3, DiffersKept

(* Of the callers, only c may have another list in its hands than before. *)
LEMMA ListKept ==
  ASSUME TypeOK, ListInv, VenueMoves, NEW c \in Callers,
         \A d \in Callers \ {c} : call'[d] = call[d],
         \/ call'[c] = call[c]
         \/ ~(call'[c].op = "positions" /\ call'[c].pc = "got")
         \/ call'[c].snap = open /\ open' = open
  PROVE  ListInv'
<1> SUFFICES ASSUME NEW d \in Callers, call'[d].op = "positions", call'[d].pc = "got",
                    NEW p \in Positions, Differs(call[d].snap, p)'
             PROVE  age'[p] <= call'[d].age
  BY DEF ListInv
<1>0. (p \in call'[d].snap) # (p \in open')  BY DEF Differs
<1>1. CASE call'[d] = call[d]
  <2>1. call[d].age \in Nat  BY Constants DEF TypeOK, CallsTyped, CallType
  <2>2. (p \in call[d].snap) # (p \in open) => age[p] <= call[d].age
    BY <1>1 DEF ListInv, Differs
  <2>3. (p \in call[d].snap) # (p \in open')  BY <1>0, <1>1
  <2>4. age'[p] <= call[d].age  BY <2>1, <2>2, <2>3, DiffersKept
  <2> QED  BY <1>1, <2>4
<1>2. CASE call'[d] # call[d]
  <2>1. d = c /\ call'[c].snap = open /\ open' = open  BY <1>2
  <2> QED  BY <1>0, <2>1
<1> QED  BY <1>1, <1>2

LEMMA OwedKept ==
  ASSUME OwedInv, NEW c \in Callers,
         \A d \in Callers \ {c} : call'[d] = call[d],
         \A d \in Callers \ {c} : \A q \in owed'[d] : q \in owed[d] /\ q[1] \in open',
         \A q \in owed'[c] : q[1] \in open' /\ Ahead(call'[c], q)
  PROVE  OwedInv'
<1> SUFFICES ASSUME NEW d \in Callers, NEW q \in owed'[d]
             PROVE  q[1] \in open' /\ Ahead(call'[d], q)
  BY DEF OwedInv, Ahead
<1>1. CASE d = c  BY <1>1
<1>2. CASE d # c
  <2>1. call'[d] = call[d] /\ q \in owed[d] /\ q[1] \in open'  BY <1>2
  <2>2. Ahead(call[d], q)  BY <2>1 DEF OwedInv
  <2> QED  BY <2>1, <2>2
<1> QED  BY <1>1, <1>2

(* A call that moves on without an answer owes what it owed. *)
LEMMA AheadKept ==
  ASSUME NEW r, NEW s, NEW q, Ahead(r, q), s.op = r.op, s.mode = r.mode,
         s.todo = r.todo, s.item = r.item, s.pc # "got"
  PROVE  Ahead(s, q)
  BY DEF Ahead

(* The loop of close_all_positions owes nothing that is old and not ahead. *)
LEMMA CloseNextOwes ==
  ASSUME CallsTyped, owed \in [Callers -> Debts], NEW c \in Callers,
         NEW todo \in SUBSET Positions, NEW mode \in {"clean", "failed"},
         NEW debt \in Debts, CloseNext(c, todo, mode, debt),
         \A q \in debt : q[1] \in open,
         mode = "clean" => \A q \in debt : q[2] = "old" => q[1] \in todo
  PROVE  /\ OldPositionsAreAnswered'
         /\ \A q \in owed'[c] : q[1] \in open /\ Ahead(call'[c], q)
         /\ ~(call'[c].op = "positions" /\ call'[c].pc = "got")
         /\ \A d \in Callers \ {c} : call'[d] = call[d] /\ owed'[d] = owed[d]
<1>0. \A q \in debt : q[2] \in {"old", "fresh", "refused"}  BY DEF Debts
<1>1. CASE todo = {}
  <2>1. /\ call' = [call EXCEPT ![c] = Idle] /\ owed' = [owed EXCEPT ![c] = {}]
        /\ left' = IF mode = "clean" THEN debt ELSE {}
    BY <1>1 DEF CloseNext
  <2>2. OldPositionsAreAnswered'
    BY <1>0, <1>1, <2>1 DEF OldPositionsAreAnswered
  <2>3. call'[c] = Idle /\ owed'[c] = {}  BY <2>1 DEF CallsTyped
  <2>4. \A d \in Callers \ {c} : call'[d] = call[d] /\ owed'[d] = owed[d]
    BY <2>1 DEF CallsTyped
  <2> QED  BY <2>2, <2>3, <2>4 DEF Idle
<1>2. CASE todo # {}
  <2>1. PICK p \in todo : call' = [call EXCEPT ![c] = Waiting("close", p, mode, todo \ {p})]
    BY <1>2 DEF CloseNext
  <2>2. owed' = [owed EXCEPT ![c] = debt] /\ left' = {}
    BY <1>2 DEF CloseNext
  <2>3. /\ call'[c] = Waiting("close", p, mode, todo \ {p}) /\ owed'[c] = debt
        /\ \A d \in Callers \ {c} : call'[d] = call[d] /\ owed'[d] = owed[d]
    BY <2>1, <2>2 DEF CallsTyped
  <2>4. /\ call'[c].op = "close" /\ call'[c].pc = "wait" /\ call'[c].mode = mode
        /\ call'[c].item = p /\ call'[c].todo = todo \ {p}
    BY <2>3 DEF Waiting
  <2>5. \A q \in debt : Ahead(call'[c], q)
    BY <2>4 DEF Ahead
  <2> QED  BY <2>2, <2>3, <2>4, <2>5 DEF OldPositionsAreAnswered
<1> QED  BY <1>1, <1>2

(* A step of one caller that the venue has no part in. *)
LEMMA ClientMoves ==
  ASSUME TypeOK, PositionsInv, NEW c \in Callers, UNCHANGED <<open, age>>,
         CacheInv', OldPositionsAreAnswered',
         ~(call'[c].op = "positions" /\ call'[c].pc = "got"),
         \A d \in Callers \ {c} : call'[d] = call[d] /\ owed'[d] = owed[d],
         \A q \in owed'[c] : q[1] \in open /\ Ahead(call'[c], q)
  PROVE  PositionsInv'
<1>1. VenueMoves  BY MoveKinds
<1>2. ListInv'  BY <1>1, ListKept DEF PositionsInv
<1>3. OwedInv'
  <2>1. \A d \in Callers \ {c} : \A q \in owed'[d] : q \in owed[d] /\ q[1] \in open'
    BY DEF PositionsInv, OwedInv
  <2> QED  BY <2>1, OwedKept DEF PositionsInv
<1> QED  BY <1>2, <1>3 DEF PositionsInv

LEMMA NothingLeft == left' = {} => OldPositionsAreAnswered'
  BY DEF OldPositionsAreAnswered

(* An old position that the cache lacks would have changed lately. *)
LEMMA OldIsCached ==
  ASSUME TypeOK, CacheInv, cacheAge < TTL, NEW p \in open, Standing(p) = "old"
  PROVE  p \in cache
<1>1. age[p] = TTL + Timeout  BY DEF Standing, Old
<1>2. p \in Positions /\ cacheAge \in Nat  BY Constants DEF TypeOK
<1>3. ~(age[p] <= cacheAge + Timeout)  BY <1>1, <1>2, Constants
<1> QED  BY <1>2, <1>3 DEF CacheInv, Differs

LEMMA CallsKeepPositions ==
  ASSUME TypeOK, PositionsInv, NEW c \in Callers, Calls(c)
  PROVE  PositionsInv'
<1>0. UNCHANGED <<open, age, cache, cacheAge>>
  BY DEF Calls, GetPositions, PlaceMarketOrder, ClosePosition, CloseAllPositions, venue
<1>1. CacheInv'  BY <1>0, MoveKinds, CacheKept DEF PositionsInv
<1>2. ASSUME NEW op, NEW item, op # "", owed' = owed, left' = {},
             call' = [call EXCEPT ![c] = Waiting(op, item, "single", {})]
      PROVE  PositionsInv'
  <2>1. /\ call'[c].pc = "wait" /\ call'[c].mode = "single"
        /\ \A d \in Callers \ {c} : call'[d] = call[d] /\ owed'[d] = owed[d]
    BY <1>2 DEF TypeOK, CallsTyped, Waiting
  <2>2. \A q \in owed'[c] : q[1] \in open /\ Ahead(call'[c], q)
    BY <1>2, <2>1 DEF PositionsInv, OwedInv, Ahead
  <2> QED  BY <1>0, <1>1, <1>2, <2>1, <2>2, NothingLeft, ClientMoves
<1>3. CASE GetPositions(c)
  BY <1>2, <1>3 DEF GetPositions
<1>4. ASSUME NEW o \in Orders, PlaceMarketOrder(c, o) PROVE PositionsInv'
  BY <1>2, <1>4 DEF PlaceMarketOrder
<1>5. ASSUME NEW p \in Positions, ClosePosition(c, p) PROVE PositionsInv'
  BY <1>2, <1>5 DEF ClosePosition
<1>6. CASE CloseAllPositions(c)
  <2> DEFINE debt == {<<p, Standing(p)>> : p \in open}
  <2>1. debt \in Debts  BY DEF Debts, Standing, TypeOK
  <2>2. \A q \in debt : q[1] \in open  OBVIOUS
  <2>3. CASE cacheAge < TTL
    <3>1. CloseNext(c, cache, "clean", debt)  BY <1>6, <2>3 DEF CloseAllPositions
    <3>2. \A q \in debt : q[2] = "old" => q[1] \in cache
      BY <2>3, OldIsCached DEF PositionsInv
    <3>3. cache \in SUBSET Positions /\ CallsTyped /\ owed \in [Callers -> Debts]
      BY DEF TypeOK
    <3> HIDE DEF debt
    <3>4. /\ OldPositionsAreAnswered'
          /\ \A q \in owed'[c] : q[1] \in open /\ Ahead(call'[c], q)
          /\ ~(call'[c].op = "positions" /\ call'[c].pc = "got")
          /\ \A d \in Callers \ {c} : call'[d] = call[d] /\ owed'[d] = owed[d]
      BY <2>1, <2>2, <3>1, <3>2, <3>3, CloseNextOwes
    <3> QED  BY <1>0, <1>1, <3>4, ClientMoves
  <2>4. CASE ~(cacheAge < TTL)
    <3>1. /\ call' = [call EXCEPT ![c] = Waiting("positions", Nothing, "clean", {})]
          /\ owed' = [owed EXCEPT ![c] = debt] /\ left' = {}
      BY <1>6, <2>4 DEF CloseAllPositions
    <3> HIDE DEF debt
    <3>2. /\ call'[c].pc = "wait" /\ call'[c].op = "positions" /\ owed'[c] = debt
          /\ \A d \in Callers \ {c} : call'[d] = call[d] /\ owed'[d] = owed[d]
      BY <3>1 DEF TypeOK, CallsTyped, Waiting
    <3>3. \A q \in owed'[c] : q[1] \in open /\ Ahead(call'[c], q)
      BY <2>2, <3>2 DEF Ahead
    <3> QED  BY <1>0, <1>1, <3>1, <3>2, <3>3, NothingLeft, ClientMoves
  <2> QED  BY <2>3, <2>4
<1> QED  BY <1>3, <1>4, <1>5, <1>6 DEF Calls

(* A call that is put off, sent again or cut off. *)
LEMMA MovesOnWithoutAnswer ==
  ASSUME TypeOK, PositionsInv, NEW c \in Callers, left' = {},
         UNCHANGED <<open, age, cache, cacheAge, owed>>,
         \A d \in Callers \ {c} : call'[d] = call[d],
         call'[c].op = call[c].op, call'[c].mode = call[c].mode,
         call'[c].todo = call[c].todo, call'[c].item = call[c].item, call'[c].pc # "got"
  PROVE  PositionsInv'
<1>1. CacheInv'  BY MoveKinds, CacheKept DEF PositionsInv
<1>2. \A q \in owed'[c] : q[1] \in open /\ Ahead(call'[c], q)
  BY AheadKept DEF PositionsInv, OwedInv
<1> QED  BY <1>1, <1>2, NothingLeft, ClientMoves

LEMMA RetryKeepsPositions ==
  ASSUME TypeOK, PositionsInv, NEW c \in Callers, Retry(c), UNCHANGED <<open, age>>
  PROVE  PositionsInv'
<1>1. /\ call'[c].op = call[c].op /\ call'[c].item = call[c].item
      /\ call'[c].mode = call[c].mode /\ call'[c].todo = call[c].todo
      /\ call'[c].pc # "got" /\ \A d \in Callers \ {c} : call'[d] = call[d]
  BY DEF Retry, TypeOK, CallsTyped, CallType
<1>2. left' = {} /\ UNCHANGED <<cache, cacheAge, owed>>  BY DEF Retry
<1> QED  BY <1>1, <1>2, MovesOnWithoutAnswer

LEMMA RaisesKeepsPositions ==
  ASSUME TypeOK, PositionsInv, NEW c \in Callers, Raises(c), UNCHANGED <<open, age>>
  PROVE  PositionsInv'
<1>0. UNCHANGED <<cache, cacheAge>>  BY DEF Raises
<1>1. CacheInv'  BY <1>0, MoveKinds, CacheKept DEF PositionsInv
<1>2. CASE call[c].op = "close" /\ call[c].mode # "single"
  <2>1. CloseNext(c, call[c].todo, "failed", owed[c])  BY <1>2 DEF Raises
  <2>2. CallsTyped /\ owed \in [Callers -> Debts] /\ owed[c] \in Debts  BY DEF TypeOK
  <2>3. call[c].todo \in SUBSET Positions  BY DEF TypeOK, CallsTyped, CallType
  <2>4. \A q \in owed[c] : q[1] \in open  BY DEF PositionsInv, OwedInv
  <2>5. /\ OldPositionsAreAnswered'
        /\ \A q \in owed'[c] : q[1] \in open /\ Ahead(call'[c], q)
        /\ ~(call'[c].op = "positions" /\ call'[c].pc = "got")
        /\ \A d \in Callers \ {c} : call'[d] = call[d] /\ owed'[d] = owed[d]
    BY <2>1, <2>2, <2>3, <2>4, CloseNextOwes
  <2> QED  BY <1>1, <2>5, ClientMoves
<1>3. CASE ~(call[c].op = "close" /\ call[c].mode # "single")
  <2>1. /\ call' = [call EXCEPT ![c] = Idle] /\ owed' = [owed EXCEPT ![c] = {}]
        /\ left' = {}
    BY <1>3 DEF Raises
  <2>2. /\ call'[c].op = "idle" /\ owed'[c] = {}
        /\ \A d \in Callers \ {c} : call'[d] = call[d] /\ owed'[d] = owed[d]
    BY <2>1 DEF TypeOK, CallsTyped, Idle
  <2> QED  BY <1>1, <2>1, <2>2, NothingLeft, ClientMoves
<1> QED  BY <1>2, <1>3

LEMMA RequestKeepsPositions ==
  ASSUME TypeOK, PositionsInv, NEW c \in Callers, Request(c) \/ RateLimited(c)
  PROVE  PositionsInv'
<1>1. CASE Fails(c)
  BY <1>1, RetryKeepsPositions, RaisesKeepsPositions DEF Fails
<1>2. CASE RateLimited(c)
  BY <1>2, RetryKeepsPositions DEF RateLimited, venue
<1>3. CASE Resume(c) /\ AttemptsLeft(c)
  <2>1. /\ call'[c].op = call[c].op /\ call'[c].item = call[c].item
        /\ call'[c].mode = call[c].mode /\ call'[c].todo = call[c].todo
        /\ call'[c].pc # "got" /\ \A d \in Callers \ {c} : call'[d] = call[d]
    BY <1>3 DEF Resume, TypeOK, CallsTyped, CallType, Dispatched
  <2>2. left' = {} /\ UNCHANGED <<cache, cacheAge, owed, open, age>>
    BY <1>3 DEF Resume, venue
  <2> QED  BY <2>1, <2>2, MovesOnWithoutAnswer
<1>4. CASE Resume(c) /\ ~AttemptsLeft(c)
  BY <1>4, RaisesKeepsPositions DEF Resume, venue
<1>5. CASE Receive(c)
  <2>0. UNCHANGED <<open, age>> /\ call[c].pc = "got"  BY <1>5 DEF Receive, venue
  <2>1. CacheInv'
    <3>1. CASE call[c].op = "positions"
      <4>1. cache' = call[c].snap /\ cacheAge' = 0  BY <1>5, <3>1 DEF Receive
      <4>2. call[c].age \in 0..Timeout  BY DEF TypeOK, CallsTyped, CallType
      <4>3. \A p \in Positions : Differs(call[c].snap, p) => age[p] <= call[c].age
        BY <2>0, <3>1 DEF PositionsInv, ListInv
      <4>4. \A p \in Positions : age[p] \in 0..Old  BY DEF TypeOK
      <4>5. \A p \in Positions : Differs(cache, p)' => age'[p] <= 0 + Timeout
        BY <2>0, <4>1, <4>2, <4>3, <4>4, Constants DEF Differs, Old
      <4> QED  BY <4>1, <4>5 DEF CacheInv
    <3>2. CASE call[c].op # "positions"
      <4>1. cache' = cache /\ cacheAge' \in {cacheAge, TTL}  BY <1>5, <3>2 DEF Receive
      <4> QED  BY <2>0, <4>1, MoveKinds, CacheKept DEF PositionsInv
    <3> QED  BY <3>1, <3>2
  <2>2. CASE call[c].mode = "single"
    <3>1. call' = [call EXCEPT ![c] = Idle] /\ owed' = owed /\ left' = {}
      BY <1>5, <2>2 DEF Receive
    <3>2. /\ call'[c].op = "idle" /\ call'[c].mode = "single"
          /\ \A d \in Callers \ {c} : call'[d] = call[d] /\ owed'[d] = owed[d]
      BY <3>1 DEF TypeOK, CallsTyped, Idle
    <3>3. \A q \in owed'[c] : q[1] \in open /\ Ahead(call'[c], q)
      BY <3>1, <3>2 DEF PositionsInv, OwedInv, Ahead
    <3> QED  BY <2>0, <2>1, <3>1, <3>2, <3>3, NothingLeft, ClientMoves
  <2>3. CASE call[c].mode # "single"
    <3> DEFINE todo == IF call[c].op = "positions" THEN call[c].snap ELSE call[c].todo
               mode == call[c].mode
               debt == owed[c]
    <3>1. todo \in SUBSET Positions /\ mode \in {"clean", "failed"} /\ debt \in Debts
      BY <2>3 DEF TypeOK, CallsTyped, CallType
    <3>2. CloseNext(c, todo, mode, debt)  BY <1>5, <2>3 DEF Receive
    <3>3. CallsTyped /\ owed \in [Callers -> Debts]  BY DEF TypeOK
    <3>4. \A q \in debt : q[1] \in open  BY DEF PositionsInv, OwedInv
    <3>5. mode = "clean" => \A q \in debt : q[2] = "old" => q[1] \in todo
      <4>1. \A q \in owed[c] : Ahead(call[c], q)  BY DEF PositionsInv, OwedInv
      <4> QED  BY <2>0, <2>3, <4>1 DEF Ahead
    <3> HIDE DEF todo, mode, debt
    <3>6. /\ OldPositionsAreAnswered'
          /\ \A q \in owed'[c] : q[1] \in open /\ Ahead(call'[c], q)
          /\ ~(call'[c].op = "positions" /\ call'[c].pc = "got")
          /\ \A d \in Callers \ {c} : call'[d] = call[d] /\ owed'[d] = owed[d]
      BY <3>1, <3>2, <3>3, <3>4, <3>5, CloseNextOwes
    <3> QED  BY <2>0, <2>1, <3>6, ClientMoves
  <2> QED  BY <2>2, <2>3
<1> QED  BY <1>1, <1>2, <1>3, <1>4, <1>5 DEF Request

LEMMA CutOffKeepsPositions ==
  ASSUME TypeOK, PositionsInv, NEW c \in Callers, CutOff(c)
  PROVE  PositionsInv'
<1>1. /\ call' = [call EXCEPT ![c] = Idle] /\ owed' = [owed EXCEPT ![c] = {}]
      /\ left' = {} /\ UNCHANGED <<cache, cacheAge, open, age>>
  BY DEF CutOff
<1>2. /\ call'[c].op = "idle" /\ owed'[c] = {}
      /\ \A d \in Callers \ {c} : call'[d] = call[d] /\ owed'[d] = owed[d]
  BY <1>1 DEF TypeOK, CallsTyped, Idle
<1>3. CacheInv'  BY <1>1, MoveKinds, CacheKept DEF PositionsInv
<1> QED  BY <1>1, <1>2, <1>3, NothingLeft, ClientMoves

LEMMA AcquireKeepsPositions ==
  ASSUME TypeOK, PositionsInv, NEW c \in Callers, Acquire(c)
  PROVE  PositionsInv'
<1>1. /\ call'[c].op = call[c].op /\ call'[c].item = call[c].item
      /\ call'[c].mode = call[c].mode /\ call'[c].todo = call[c].todo
      /\ call'[c].pc # "got" /\ \A d \in Callers \ {c} : call'[d] = call[d]
  BY DEF Acquire, TypeOK, CallsTyped, CallType, Dispatched
<1>2. left' = {} /\ UNCHANGED <<cache, cacheAge, owed, open, age>>
  BY DEF Acquire, venue
<1> QED  BY <1>1, <1>2, MovesOnWithoutAnswer

(* A position that is closed is owed by nobody. *)
LEMMA ClosesSettles ==
  ASSUME TypeOK, OwedInv, NEW p \in Positions, Closes(p), NEW d \in Callers, NEW q \in owed'[d]
  PROVE  q \in owed[d] /\ q[1] # p /\ q[1] \in open'
<1>1. q \in owed[d] /\ q[1] # p  BY DEF Closes, TypeOK
<1>2. q[1] \in open  BY <1>1 DEF OwedInv
<1> QED  BY <1>1, <1>2 DEF Closes

(* After an answer without a fill the call owes what it owed, and the       *)
(* position is not an old one it has still to close.                        *)
LEMMA RefusesMarks ==
  ASSUME TypeOK, OwedInv, NEW p \in Positions, NEW c \in Callers, Refuses(c, p)
  PROVE  /\ \A d \in Callers \ {c} : \A q \in owed'[d] : q \in owed[d] /\ q[1] \in open'
         /\ \A q \in owed'[c] : /\ q[1] \in open'
                                /\ q[2] = "old" => q \in owed[c] /\ q[1] # p
<1>1. /\ owed'[c] = {IF q[1] = p THEN <<p, "refused">> ELSE q : q \in owed[c]}
      /\ \A d \in Callers \ {c} : owed'[d] = owed[d]
      /\ open' = open
  BY DEF Refuses, TypeOK
<1>2. \A d \in Callers : \A q \in owed[d] : q[1] \in open  BY DEF OwedInv
<1> SUFFICES ASSUME NEW q \in owed'[c]
             PROVE  q[1] \in open /\ (q[2] = "old" => q \in owed[c] /\ q[1] # p)
  BY <1>1, <1>2
<1>3. PICK r \in owed[c] : q = IF r[1] = p THEN <<p, "refused">> ELSE r  BY <1>1
<1> QED  BY <1>2, <1>3

LEMMA VenueKeepsPositions ==
  ASSUME TypeOK, PositionsInv, NEW c \in Callers, VenueAnswers(c)
  PROVE  PositionsInv'
<1>0. left' = {} /\ UNCHANGED <<cache, cacheAge>> /\ call[c].pc = "sent"
  BY DEF VenueAnswers
<1>1. PICK answer \in {"ok", "nofill"} :
        /\ call' = [call EXCEPT ![c].pc = "got", ![c].answer = answer,
                      ![c].snap = IF call[c].op = "positions" THEN open ELSE {}]
        /\ IF call[c].op = "place" /\ answer = "ok"
           THEN Opens(Leg[call[c].item]) /\ owed' = owed
           ELSE IF call[c].op # "close" THEN open' = open /\ age' = age /\ owed' = owed
                ELSE Closes(call[c].item) \/ Refuses(c, call[c].item)
  BY DEF VenueAnswers
<1>2. /\ call'[c].op = call[c].op /\ call'[c].item = call[c].item
      /\ call'[c].mode = call[c].mode /\ call'[c].todo = call[c].todo
      /\ call'[c].pc = "got" /\ \A d \in Callers \ {c} : call'[d] = call[d]
      /\ call[c].op = "positions" => call'[c].snap = open
  BY <1>1 DEF TypeOK, CallsTyped, CallType
<1>3. VenueMoves
  <2>1. CASE call[c].op = "place" /\ answer = "ok"
    <3>1. Leg[call[c].item] \in Positions
      BY <2>1, Constants DEF TypeOK, CallsTyped
    <3> QED  BY <1>1, <2>1, <3>1, MoveKinds
  <2>2. CASE ~(call[c].op = "place" /\ answer = "ok") /\ call[c].op = "close"
    <3>1. call[c].item \in Positions  BY <2>2 DEF TypeOK, CallsTyped
    <3> QED  BY <1>1, <2>2, <3>1, MoveKinds DEF Refuses
  <2>3. CASE ~(call[c].op = "place" /\ answer = "ok") /\ call[c].op # "close"
    BY <1>1, <2>3, MoveKinds
  <2> QED  BY <2>1, <2>2, <2>3
<1>4. CacheInv'  BY <1>0, <1>3, CacheKept DEF PositionsInv
<1>5. call[c].op = "positions" => open' = open  BY <1>1
<1>6. ListInv'  BY <1>2, <1>3, <1>5, ListKept DEF PositionsInv
<1>7. OwedInv'
  <2>1. CASE call[c].op = "close"
    <3>1. /\ Closes(call[c].item) \/ Refuses(c, call[c].item)
          /\ call[c].item \in Positions
      BY <1>1, <2>1 DEF TypeOK, CallsTyped
    <3>2. /\ \A d \in Callers \ {c} : \A q \in owed'[d] : q \in owed[d] /\ q[1] \in open'
          /\ \A q \in owed'[c] : /\ q[1] \in open'
                                 /\ q[2] = "old" => q \in owed[c] /\ q[1] # call[c].item
      BY <3>1, ClosesSettles, RefusesMarks DEF PositionsInv
    <3>3. \A q \in owed'[c] : Ahead(call'[c], q)
      <4>1. \A q \in owed[c] : Ahead(call[c], q)  BY DEF PositionsInv, OwedInv
      <4> QED  BY <1>2, <2>1, <3>2, <4>1 DEF Ahead
    <3> QED  BY <1>2, <3>2, <3>3, OwedKept DEF PositionsInv
  <2>2. CASE call[c].op # "close"
    <3>1. owed' = owed /\ open \subseteq open'  BY <1>1, <2>2 DEF Opens
    <3>2. \A d \in Callers : \A q \in owed[d] : q[1] \in open /\ Ahead(call[d], q)
      BY DEF PositionsInv, OwedInv
    <3>3. \A q \in owed'[c] : q[1] \in open' /\ Ahead(call'[c], q)
      BY <1>2, <2>2, <3>1, <3>2 DEF Ahead
    <3>4. \A d \in Callers \ {c} : \A q \in owed'[d] : q \in owed[d] /\ q[1] \in open'
      BY <3>1, <3>2
    <3> QED  BY <1>2, <3>3, <3>4, OwedKept DEF PositionsInv
  <2> QED  BY <2>1, <2>2
<1> QED  BY <1>0, <1>4, <1>6, <1>7, NothingLeft DEF PositionsInv

(* The venue acts on its own account. *)
LEMMA VenueAlone ==
  ASSUME TypeOK, PositionsInv, NEW p \in Positions,
         (Opens(p) /\ UNCHANGED owed) \/ Closes(p),
         UNCHANGED <<call, cache, cacheAge>>, left' = {}
  PROVE  PositionsInv'
<1>1. VenueMoves  BY MoveKinds
<1>2. CacheInv'  BY <1>1, CacheKept DEF PositionsInv
<1>3. ListInv'
  <2>1. CASE Callers = {}  BY <2>1 DEF ListInv
  <2>2. ASSUME NEW c \in Callers PROVE ListInv'
    BY <1>1, ListKept DEF PositionsInv
  <2> QED  BY <2>1, <2>2
<1>4. \A d \in Callers : \A q \in owed'[d] : q \in owed[d] /\ q[1] \in open'
  <2>1. CASE Opens(p) /\ UNCHANGED owed
    BY <2>1 DEF Opens, PositionsInv, OwedInv
  <2>2. CASE Closes(p)
    BY <2>2, ClosesSettles DEF PositionsInv
  <2> QED  BY <2>1, <2>2
<1>5. OwedInv'
  <2> SUFFICES ASSUME NEW d \in Callers, NEW q \in owed'[d]
               PROVE  q[1] \in open' /\ Ahead(call'[d], q)
    BY DEF OwedInv, Ahead
  <2>1. q \in owed[d] /\ q[1] \in open'  BY <1>4
  <2>2. Ahead(call[d], q)  BY <2>1 DEF PositionsInv, OwedInv
  <2> QED  BY <2>1, <2>2
<1> QED  BY <1>2, <1>3, <1>5, NothingLeft DEF PositionsInv

LEMMA OlderStep ==
  ASSUME NEW limit \in Nat, NEW a \in 0..limit
  PROVE  /\ Older(a, limit) <= a + 1 /\ Older(a, limit) \in 0..limit
         /\ Older(a, limit) < limit => Older(a, limit) = a + 1 /\ a < limit
  BY DEF Older

LEMMA TickKeepsPositions ==
  ASSUME TypeOK, PositionsInv, Tick
  PROVE  PositionsInv'
<1>0. UNCHANGED <<cache, open, owed>> /\ left' = {}  BY DEF Tick
<1>1. /\ TTL \in Nat /\ Old \in Nat /\ Timeout \in Nat /\ cacheAge \in 0..TTL
      /\ \A p \in Positions : age[p] \in 0..Old
  BY Constants DEF Old, TypeOK
<1>2. cacheAge' = Older(cacheAge, TTL) /\ \A p \in Positions : age'[p] = Older(age[p], Old)
  BY DEF Tick
<1>3. \A p \in Positions : age'[p] <= age[p] + 1 /\ age'[p] \in 0..Old
  BY <1>1, <1>2, OlderStep
<1>4. CacheInv'
  <2> SUFFICES ASSUME cacheAge' < TTL, NEW p \in Positions, Differs(cache, p)'
               PROVE  age'[p] <= cacheAge' + Timeout
    BY DEF CacheInv
  <2>1. cacheAge' = cacheAge + 1 /\ cacheAge < TTL  BY <1>1, <1>2, OlderStep
  <2>2. age[p] <= cacheAge + Timeout
    BY <1>0, <2>1 DEF PositionsInv, CacheInv, Differs
  <2> QED  BY <1>1, <1>3, <2>1, <2>2
<1>5. ListInv'
  <2> SUFFICES ASSUME NEW c \in Callers, call'[c].op = "positions", call'[c].pc = "got",
                      NEW p \in Positions, Differs(call[c].snap, p)'
               PROVE  age'[p] <= call'[c].age
    BY DEF ListInv
  <2>1. Asking(c)
    BY DEF Tick, Asking, TypeOK, CallsTyped, CallType
  <2>2. call'[c] = [call[c] EXCEPT !.age = @ + 1]  BY <2>1 DEF Tick
  <2>3. /\ call'[c].age = call[c].age + 1 /\ call'[c].snap = call[c].snap
        /\ call[c].op = "positions" /\ call[c].pc = "got" /\ call[c].age \in 0..Timeout
    BY <2>2 DEF TypeOK, CallsTyped, CallType
  <2>4. age[p] <= call[c].age
    BY <1>0, <2>3 DEF PositionsInv, ListInv, Differs
  <2> QED  BY <1>1, <1>3, <2>3, <2>4
<1>6. OwedInv'
  <2> SUFFICES ASSUME NEW d \in Callers, NEW q \in owed[d]
               PROVE  q[1] \in open /\ Ahead(call'[d], q)
    BY <1>0 DEF OwedInv, Ahead
  <2>1. q[1] \in open /\ Ahead(call[d], q)  BY DEF PositionsInv, OwedInv
  <2>2. /\ call'[d].op = call[d].op /\ call'[d].item = call[d].item
        /\ call'[d].mode = call[d].mode /\ call'[d].todo = call[d].todo
        /\ call'[d].pc = call[d].pc /\ call'[d].snap = call[d].snap
    BY DEF Tick, TypeOK, CallsTyped, CallType
  <2> QED  BY <2>1, <2>2 DEF Ahead
<1> QED  BY <1>0, <1>4, <1>5, <1>6, NothingLeft DEF PositionsInv

LEMMA PositionsNext == TypeOK /\ PositionsInv /\ [Next]_vars => PositionsInv'
<1> SUFFICES ASSUME TypeOK, PositionsInv, [Next]_vars PROVE PositionsInv'  OBVIOUS
<1>1. ASSUME UNCHANGED <<call, open, age, cache, cacheAge, owed>>, left' \in {left, {}}
      PROVE  PositionsInv'
  BY <1>1 DEF PositionsInv, OldPositionsAreAnswered, CacheInv, ListInv, OwedInv, Differs, Ahead
<1>2. CASE UNCHANGED vars
  BY <1>1, <1>2 DEF vars, client, venue
<1>3. CASE Connect \/ Disconnect
  BY <1>1, <1>3 DEF Connect, Disconnect, venue
<1>4. CASE Tick
  BY <1>4, TickKeepsPositions
<1>5. ASSUME NEW c \in Callers, Calls(c) PROVE PositionsInv'
  BY <1>5, CallsKeepPositions
<1>6. ASSUME NEW c \in Callers, Acquire(c) PROVE PositionsInv'
  BY <1>6, AcquireKeepsPositions
<1>7. ASSUME NEW c \in Callers, Request(c) \/ RateLimited(c) PROVE PositionsInv'
  BY <1>7, RequestKeepsPositions
<1>8. ASSUME NEW c \in Callers, VenueAnswers(c) PROVE PositionsInv'
  BY <1>8, VenueKeepsPositions
<1>9. ASSUME NEW c \in Callers, CutOff(c) PROVE PositionsInv'
  BY <1>9, CutOffKeepsPositions
<1>10. ASSUME NEW o \in Orders, StrayExecutes(o) PROVE PositionsInv'
  <2>1. Leg[o] \in Positions  BY Constants
  <2> QED  BY <1>10, <2>1, VenueAlone DEF StrayExecutes, client
<1>11. ASSUME NEW p \in Positions, VenueCloses(p) PROVE PositionsInv'
  BY <1>11, VenueAlone DEF VenueCloses, client
<1> QED  BY <1>2, <1>3, <1>4, <1>5, <1>6, <1>7, <1>8, <1>9, <1>10, <1>11 DEF Next

LEMMA PositionsInit == Init => PositionsInv
<1> SUFFICES ASSUME Init PROVE PositionsInv  OBVIOUS
<1>1. OldPositionsAreAnswered  BY DEF Init, OldPositionsAreAnswered
<1>2. CacheInv
  <2>1. cacheAge = TTL  BY DEF Init
  <2> QED  BY <2>1, Constants DEF CacheInv
<1>3. ListInv
  <2>1. \A c \in Callers : call[c].op = "idle"  BY DEF Init, Idle
  <2> QED  BY <2>1 DEF ListInv
<1>4. OwedInv
  <2>1. \A c \in Callers : owed[c] = {}  BY DEF Init
  <2> QED  BY <2>1 DEF OwedInv
<1> QED  BY <1>1, <1>2, <1>3, <1>4 DEF PositionsInv

(* What a close_all_positions without a failure leaves was opened less than *)
(* TTL + Timeout before the call, or the venue answered the call's closing  *)
(* request for it without a fill.                                           *)
THEOREM OldPositionsAnswered == Spec => []OldPositionsAreAnswered
<1>1. Init => TypeOK /\ PositionsInv  BY TypeInit, PositionsInit
<1>2. TypeOK /\ PositionsInv /\ [Next]_vars => (TypeOK /\ PositionsInv)'
  BY TypeNext, PositionsNext
<1>3. PositionsInv => OldPositionsAreAnswered  BY DEF PositionsInv
<1> QED  BY <1>1, <1>2, <1>3, PTL DEF Spec

-----------------------------------------------------------------------------
(* AdvancedOrders *)

(* The families of ids: which record an id belongs to, and that the         *)
(* handlers of one family never name an order of another.                   *)
LEMMA IdsOfAnOco ==
  ASSUME NEW c \in Ocos, NEW k \in {"limit", "stop"}
  PROVE  /\ OcoLeg(c, k) \in Legs /\ OcoLeg(c, k) \in OrderIds
         /\ OcoLeg(c, k)[1] = c /\ OcoLeg(c, k)[2] = k
         /\ OcoLeg(c, k) \notin Plain \union Trails \union Exits \union Entries
  BY IdsAssumption DEF OcoLeg, Legs, OrderIds, Exits, Entries

LEMMA IdsOfABracket ==
  ASSUME NEW b \in Brackets
  PROVE  /\ Entry(b) \in Entries /\ Entry(b) \in OrderIds
         /\ Entry(b) \notin Plain \union Trails \union Legs \union Exits
         /\ \A k \in {"stop_loss", "take_profit"} :
              /\ Exit(b, k) \in Exits /\ Exit(b, k) \in OrderIds
              /\ Exit(b, k) \notin Plain \union Trails \union Legs \union Entries
         /\ Entry(b)[1] = b
  BY IdsAssumption DEF Entry, Exit, Legs, OrderIds, Exits, Entries

LEMMA LegIsOfAnOco ==
  ASSUME NEW o \in Legs
  PROVE  /\ o[1] \in Ocos /\ o[2] \in {"limit", "stop"} /\ o = OcoLeg(o[1], o[2])
         /\ OtherLeg(o) \in Legs /\ OtherLeg(o) # o
         /\ {o, OtherLeg(o)} = {o[1]} \X {"limit", "stop"}
  BY DEF Legs, OcoLeg, OtherLeg

LEMMA ExitIsOfABracket ==
  ASSUME NEW o \in Exits
  PROVE  /\ o[1] \in Brackets /\ o[2] \in {"stop_loss", "take_profit"} /\ o = Exit(o[1], o[2])
         /\ OtherExit(o) \in Exits /\ OtherExit(o) # o /\ OtherExit(o)[1] = o[1]
         /\ {o, OtherExit(o)} = {Exit(o[1], "stop_loss"), Exit(o[1], "take_profit")}
  BY DEF Exits, Exit, OtherExit

LEMMA EntryIsOfABracket ==
  ASSUME NEW o \in Entries
  PROVE  o[1] \in Brackets /\ o = Entry(o[1])
  BY DEF Entries, Entry

-----------------------------------------------------------------------------
(* A stop price is an integer number of hundredths. *)
LEMMA NewStopType ==
  ASSUME NEW spec \in TrailSpec, NEW price \in Nat
  PROVE  NewStop(spec, price) \in Int
<1>1. /\ spec.percent \in 0..100 /\ spec.amount \in Nat /\ price * spec.percent \in Nat
  BY DEF TrailSpec
<1>2. QED
  BY <1>1 DEF NewStop

(* What a report does to the statuses: the order takes FillStatus, and      *)
(* nobody is absent afterwards who was not before.                          *)
LEMMA ReportType ==
  ASSUME AdvancedTypeOK, NEW o \in OrderIds, NEW q \in 1..Quantity, Reportable(o, q)
  PROVE  /\ filled[o] \in Nat /\ filled[o] + q \in Nat
         /\ FillStatus(o, q) \in {"filled", "partially_filled"}
  BY QuantityAssumption DEF AdvancedTypeOK, FillStatus, Completed

(* Every handler keeps the records well formed. *)
THEOREM AdvancedTypeCorrect == AdvancedSpec => []AdvancedTypeOK
<1>1. AdvancedInit => AdvancedTypeOK
  BY DEF AdvancedInit, AdvancedTypeOK
<1>2. AdvancedTypeOK /\ [AdvancedNext]_advancedVars => AdvancedTypeOK'
  <2> SUFFICES ASSUME AdvancedTypeOK, [AdvancedNext]_advancedVars PROVE AdvancedTypeOK'
    OBVIOUS
  <2> USE QuantityAssumption, PricesAssumption, TrailSpecsAssumption DEF AdvancedTypeOK
  <2>1. ASSUME NEW S, Create(S) PROVE AdvancedTypeOK'
    BY <2>1 DEF Create, OrderStatus
  <2>2. ASSUME NEW t \in Trails, NEW spec \in TrailSpecs, CreateTrailingStop(t, spec)
        PROVE  AdvancedTypeOK'
    BY <2>2 DEF CreateTrailingStop, OrderStatus
  <2>3. ASSUME NEW t \in Trails, NEW price \in Prices, UpdateTrailingStop(t, price)
        PROVE  AdvancedTypeOK'
    <3>1. trail[t].spec \in TrailSpec /\ trail[t].stop \in Int
      BY DEF TrailSpec, NoTrail
    <3>2. NewStop(trail[t].spec, price) \in Int
      BY <3>1, NewStopType
    <3> DEFINE stop == IF trail[t].spec.percent = 0 /\ trail[t].spec.amount = 0
                       THEN trail[t].stop ELSE NewStop(trail[t].spec, price)
    <3>3. trail' = [trail EXCEPT ![t].extreme = price, ![t].stop = stop] /\ stop \in Int
      BY <2>3, <3>1, <3>2 DEF UpdateTrailingStop
    <3> HIDE DEF stop
    <3> DEFINE Trail == [spec : TrailSpecs \union {NoTrail}, extreme : Prices \union {0}, stop : Int]
    <3>4. [[trail[t] EXCEPT !.extreme = price] EXCEPT !.stop = stop] \in Trail
      <4>1. trail[t] \in Trail
        OBVIOUS
      <4>2. QED
        BY <4>1, <3>3
    <3>5. trail' = [trail EXCEPT ![t] = [[trail[t] EXCEPT !.extreme = price] EXCEPT !.stop = stop]]
      BY <3>3
    <3>6. trail' \in [Trails -> Trail]
      <4> HIDE DEF Trail
      <4>1. trail \in [Trails -> Trail]
        BY DEF Trail
      <4>2. QED
        BY <3>4, <3>5, <4>1
    <3>7. QED
      BY <2>3, <3>6 DEF UpdateTrailingStop
  <2>4. ASSUME NEW o \in OrderIds, CancelOrder(o) PROVE AdvancedTypeOK'
    BY <2>4 DEF CancelOrder, OrderStatus
  <2>5. ASSUME NEW o \in OrderIds, NEW q \in 1..Quantity, HandleOrderFill(o, q)
        PROVE  AdvancedTypeOK'
    <3>1. /\ filled' \in [OrderIds -> Nat] /\ trail' = trail
          /\ FillStatus(o, q) \in OrderStatus
      BY <2>5, ReportType DEF HandleOrderFill, OrderStatus
    <3> SUFFICES /\ status' \in [OrderIds -> OrderStatus \union {"absent"}]
                 /\ oco' \in [Ocos -> [status : {"pending", "filled"}, triggered : Legs \union {None},
                                       cancelled : Legs \union {None}]]
                 /\ bracket' \in [Brackets -> [status : {"pending", "filled"}, position_filled : BOOLEAN]]
                 /\ reopened' \subseteq Brackets
      BY <3>1
    <3>2. CASE o \in Plain \union Trails /\ PlainFill(o, q)
      BY <3>1, <3>2 DEF PlainFill
    <3>3. CASE o \in Legs /\ OcoFill(o, q)
      <4>1. o[1] \in Ocos /\ OtherLeg(o) \in Legs
        BY <3>3, LegIsOfAnOco
      <4>2. oco' \in [Ocos -> [status : {"pending", "filled"}, triggered : Legs \union {None},
                               cancelled : Legs \union {None}]]
        BY <3>3, <4>1 DEF OcoFill
      <4>3. QED
        BY <3>1, <3>3, <4>2 DEF OcoFill, OrderStatus
    <3>4. CASE o \in Entries /\ EntryFill(o, q)
      <4>1. o[1] \in Brackets
        BY <3>4, EntryIsOfABracket
      <4>2. bracket' \in [Brackets -> [status : {"pending", "filled"}, position_filled : BOOLEAN]]
        BY <3>4, <4>1 DEF EntryFill
      <4>3. QED
        BY <3>1, <3>4, <4>1, <4>2 DEF EntryFill, OrderStatus
    <3>5. CASE o \in Exits /\ ExitFill(o, q)
      <4>1. o[1] \in Brackets
        BY <3>5, ExitIsOfABracket
      <4>2. bracket' \in [Brackets -> [status : {"pending", "filled"}, position_filled : BOOLEAN]]
        BY <3>5, <4>1 DEF ExitFill
      <4>3. QED
        BY <3>1, <3>5, <4>2 DEF ExitFill, OrderStatus
    <3>6. QED
      BY <2>5, <3>2, <3>3, <3>4, <3>5 DEF HandleOrderFill
  <2>6. CASE UNCHANGED advancedVars
    BY <2>6 DEF advancedVars
  <2>7. QED
    BY <2>1, <2>2, <2>3, <2>4, <2>5, <2>6
       DEF AdvancedNext, CreateOrder, CreateOcoOrder, CreateBracketOrder
<1>3. QED
  BY <1>1, <1>2, PTL DEF AdvancedSpec

-----------------------------------------------------------------------------
(* Which handler books a report, by the family of the order. *)
LEMMA ReportOnOne ==
  ASSUME NEW o \in OrderIds, NEW q \in 1..Quantity, HandleOrderFill(o, q)
  PROVE  \/ o \in Plain \union Trails /\ PlainFill(o, q)
         \/ o \in Legs /\ OcoFill(o, q)
         \/ o \in Entries /\ EntryFill(o, q)
         \/ o \in Exits /\ ExitFill(o, q)
  BY DEF HandleOrderFill

(* One OCO record and its legs. *)
OcoMatches(c) ==
  LET r == oco[c] IN
  IF filled[OcoLeg(c, "limit")] = 0 /\ filled[OcoLeg(c, "stop")] = 0
  THEN r.status = "pending"
  ELSE /\ r.status = "filled" /\ {r.triggered, r.cancelled} = {c} \X {"limit", "stop"}
       /\ status[r.cancelled] = "cancelled"
       /\ status[r.triggered] \in {"filled", "partially_filled"} /\ filled[r.triggered] > 0

(* A step that books nothing on the legs of c, and that moves a leg only    *)
(* while it works, leaves the story of c as it was.                         *)
LEMMA OcoStaysMatched ==
  ASSUME NEW c \in Ocos, OcoMatches(c), oco'[c] = oco[c],
         \A x \in {c} \X {"limit", "stop"} :
            /\ filled'[x] = filled[x]
            /\ status'[x] = status[x] \/ status[x] \in {"absent", "pending", "open"}
  PROVE  OcoMatches(c)'
<1>1. \A k \in {"limit", "stop"} : OcoLeg(c, k) \in {c} \X {"limit", "stop"}
  BY DEF OcoLeg
<1>2. CASE filled[OcoLeg(c, "limit")] = 0 /\ filled[OcoLeg(c, "stop")] = 0
  BY <1>1, <1>2 DEF OcoMatches
<1>3. CASE ~(filled[OcoLeg(c, "limit")] = 0 /\ filled[OcoLeg(c, "stop")] = 0)
  <2>1. oco[c].triggered \in {c} \X {"limit", "stop"} /\ oco[c].cancelled \in {c} \X {"limit", "stop"}
    BY <1>3 DEF OcoMatches
  <2>2. QED
    BY <1>1, <1>3, <2>1 DEF OcoMatches
<1>4. QED
  BY <1>2, <1>3

(* _handle_oco_fill tells the story anew. *)
LEMMA OcoFillMatches ==
  ASSUME AdvancedTypeOK, NEW o \in Legs, NEW q \in 1..Quantity, Reportable(o, q), OcoFill(o, q),
         filled' = [filled EXCEPT ![o] = @ + q]
  PROVE  OcoMatches(o[1])'
<1> DEFINE c == o[1]
<1>1. /\ c \in Ocos /\ o \in OrderIds /\ OtherLeg(o) \in OrderIds /\ OtherLeg(o) # o
      /\ {o, OtherLeg(o)} = {c} \X {"limit", "stop"}
  BY LegIsOfAnOco DEF OrderIds
<1>2. filled[o] \in Nat /\ filled'[o] = filled[o] + q /\ filled'[o] > 0
  BY <1>1 DEF AdvancedTypeOK
<1>3. /\ status'[OtherLeg(o)] = "cancelled" /\ status'[o] = FillStatus(o, q)
      /\ oco'[c] = [status |-> "filled", triggered |-> o, cancelled |-> OtherLeg(o)]
  BY <1>1 DEF OcoFill, AdvancedTypeOK
<1>4. o \in {OcoLeg(c, "limit"), OcoLeg(c, "stop")}
  BY LegIsOfAnOco
<1>5. FillStatus(o, q) \in {"filled", "partially_filled"}
  BY DEF FillStatus
<1>6. QED
  BY <1>1, <1>2, <1>3, <1>4, <1>5 DEF OcoMatches

(* After any number of reports, cancellations and late reports an OCO       *)
(* record and its legs tell the same story.                                 *)
THEOREM OcoRecordsMatch == AdvancedSpec => []OcoRecordMatchesLegs
<1>1. AdvancedInit => OcoRecordMatchesLegs
  BY IdsOfAnOco DEF AdvancedInit, OcoRecordMatchesLegs
<1>2. AdvancedTypeOK /\ OcoRecordMatchesLegs /\ [AdvancedNext]_advancedVars => OcoRecordMatchesLegs'
  <2> SUFFICES ASSUME AdvancedTypeOK, OcoRecordMatchesLegs, [AdvancedNext]_advancedVars, NEW c \in Ocos
               PROVE  OcoMatches(c)'
    BY DEF OcoRecordMatchesLegs, OcoMatches
  <2> DEFINE legs == {c} \X {"limit", "stop"}
             Calm == /\ oco'[c] = oco[c]
                     /\ \A x \in legs :
                          /\ filled'[x] = filled[x]
                          /\ status'[x] = status[x] \/ status[x] \in {"absent", "pending", "open"}
  <2>1. /\ legs \subseteq Legs /\ legs \subseteq OrderIds
        /\ legs \intersect (Plain \union Trails \union Exits \union Entries) = {}
    BY IdsAssumption DEF Legs, OrderIds, Exits, Entries
  <2>2. Calm => OcoMatches(c)'
    BY OcoStaysMatched DEF OcoRecordMatchesLegs, OcoMatches
  <2>3. ASSUME NEW S, Create(S) PROVE Calm
    BY <2>1, <2>3 DEF Create, AdvancedTypeOK
  <2>4. ASSUME NEW t \in Trails, NEW spec \in TrailSpecs, CreateTrailingStop(t, spec) PROVE Calm
    BY <2>1, <2>4 DEF CreateTrailingStop, AdvancedTypeOK
  <2>5. ASSUME NEW t \in Trails, NEW price \in Prices, UpdateTrailingStop(t, price) PROVE Calm
    BY <2>5 DEF UpdateTrailingStop
  <2>6. ASSUME NEW o \in OrderIds, CancelOrder(o) PROVE Calm
    BY <2>1, <2>6 DEF CancelOrder, AdvancedTypeOK
  <2>7. ASSUME NEW o \in OrderIds, NEW q \in 1..Quantity, HandleOrderFill(o, q) PROVE OcoMatches(c)'
    <3>1. filled' = [filled EXCEPT ![o] = @ + q] /\ Reportable(o, q)
      BY <2>7 DEF HandleOrderFill
    <3>2. CASE o \in Plain \union Trails /\ PlainFill(o, q)
      BY <2>1, <2>2, <3>1, <3>2 DEF PlainFill, AdvancedTypeOK
    <3>3. CASE o \in Legs /\ OcoFill(o, q)
      <4>1. CASE o[1] = c
        BY <3>1, <3>3, <4>1, OcoFillMatches
      <4>2. CASE o[1] # c
        <5>1. o \notin legs /\ OtherLeg(o) \notin legs /\ o[1] \in Ocos
          BY <3>3, <4>2, LegIsOfAnOco
        <5>2. Calm
          BY <2>1, <3>1, <3>3, <4>2, <5>1 DEF OcoFill, AdvancedTypeOK
        <5>3. QED
          BY <2>2, <5>2
      <4>3. QED
        BY <4>1, <4>2
    <3>4. CASE o \in Entries /\ EntryFill(o, q)
      <4>1. /\ o \notin legs /\ Exit(o[1], "stop_loss") \notin legs
            /\ Exit(o[1], "take_profit") \notin legs
        BY <2>1, <3>4, EntryIsOfABracket, IdsOfABracket
      <4>2. Calm
        BY <2>1, <3>1, <3>4, <4>1 DEF EntryFill, AdvancedTypeOK
      <4>3. QED
        BY <2>2, <4>2
    <3>5. CASE o \in Exits /\ ExitFill(o, q)
      <4>1. o \notin legs /\ OtherExit(o) \notin legs
        BY <2>1, <3>5, ExitIsOfABracket
      <4>2. Calm
        BY <2>1, <3>1, <3>5, <4>1 DEF ExitFill, AdvancedTypeOK
      <4>3. QED
        BY <2>2, <4>2
    <3>6. QED
      BY <2>7, <3>2, <3>3, <3>4, <3>5, ReportOnOne
  <2>8. CASE UNCHANGED advancedVars
    BY <2>2, <2>8 DEF advancedVars
  <2> HIDE DEF Calm
  <2>9. QED
    BY <2>2, <2>3, <2>4, <2>5, <2>6, <2>7, <2>8
       DEF AdvancedNext, CreateOrder, CreateOcoOrder, CreateBracketOrder
<1>3. QED
  BY <1>1, <1>2, AdvancedTypeCorrect, PTL DEF AdvancedSpec

-----------------------------------------------------------------------------
(* One bracket: complete and not reopened, it has one exit left. *)
Closed(b) == bracket[b].status = "filled" /\ b \notin reopened => ExitLeft(b)

(* A step that books nothing on the orders of b, and that moves an exit     *)
(* only while it works, leaves the bracket as it was.                       *)
LEMMA BracketStaysClosed ==
  ASSUME NEW b \in Brackets, Closed(b), bracket'[b] = bracket[b], b \in reopened => b \in reopened',
         \A x \in {b} \X {"entry", "stop_loss", "take_profit"} :
            /\ filled'[x] = filled[x]
            /\ status'[x] = status[x] \/ status[x] \in {"absent", "pending", "open"}
  PROVE  Closed(b)'
<1>1. SUFFICES ASSUME bracket'[b].status = "filled", b \notin reopened' PROVE ExitLeft(b)'
  BY DEF Closed
<1>2. PICK x \in {b} \X {"stop_loss", "take_profit"} :
        /\ status[x] \in {"filled", "partially_filled"} /\ filled[x] > 0
        /\ status[OtherExit(x)] = "cancelled"
  BY <1>1 DEF Closed, ExitLeft
<1>3. /\ x \in {b} \X {"entry", "stop_loss", "take_profit"}
      /\ OtherExit(x) \in {b} \X {"entry", "stop_loss", "take_profit"}
  BY <1>2 DEF OtherExit, Exit
<1>4. /\ status'[x] = status[x] /\ filled'[x] = filled[x]
      /\ status'[OtherExit(x)] = status[OtherExit(x)]
  BY <1>2, <1>3
<1> QED  BY <1>2, <1>4 DEF ExitLeft

(* _handle_bracket_fill for the entry: a bracket that is complete is        *)
(* reopened, in any other the status of the bracket stays.                  *)
LEMMA EntryFillReopens ==
  ASSUME AdvancedTypeOK, NEW o \in Entries, NEW q \in 1..Quantity, EntryFill(o, q)
  PROVE  Closed(o[1])'
<1>1. o[1] \in Brackets  BY EntryIsOfABracket
<1>2. bracket'[o[1]].status = bracket[o[1]].status  BY <1>1 DEF EntryFill, AdvancedTypeOK
<1> QED  BY <1>1, <1>2 DEF EntryFill, Closed

(* _handle_bracket_fill for an exit: the other one goes. *)
LEMMA ExitFillCloses ==
  ASSUME AdvancedTypeOK, NEW o \in Exits, NEW q \in 1..Quantity, ExitFill(o, q),
         filled' = [filled EXCEPT ![o] = @ + q]
  PROVE  Closed(o[1])'
<1>1. /\ o[1] \in Brackets /\ OtherExit(o) # o /\ o \in OrderIds /\ OtherExit(o) \in OrderIds
      /\ {Exit(o[1], "stop_loss"), Exit(o[1], "take_profit")} = {o, OtherExit(o)}
  BY ExitIsOfABracket, IdsOfABracket DEF OrderIds
<1>2. filled[o] \in Nat /\ filled'[o] = filled[o] + q /\ filled'[o] > 0
  BY <1>1 DEF AdvancedTypeOK
<1>3. status'[OtherExit(o)] = "cancelled" /\ status'[o] = FillStatus(o, q)
  BY <1>1 DEF ExitFill, AdvancedTypeOK
<1>4. FillStatus(o, q) \in {"filled", "partially_filled"}  BY DEF FillStatus
<1>5. o \in {o[1]} \X {"stop_loss", "take_profit"}  BY DEF Exits
<1> QED  BY <1>2, <1>3, <1>4, <1>5 DEF Closed, ExitLeft, OtherExit, Exit

(* In whatever order the reports of entry and exits come, late, repeated or *)
(* after a cancellation, a bracket that is complete has one executed exit   *)
(* and one cancelled exit, unless a report of the entry reopened it.        *)
THEOREM OneExitRemains == AdvancedSpec => []OneExitIsLeft
<1>1. AdvancedInit => OneExitIsLeft
  BY DEF AdvancedInit, OneExitIsLeft
<1>2. AdvancedTypeOK /\ OneExitIsLeft /\ [AdvancedNext]_advancedVars => OneExitIsLeft'
  <2> SUFFICES ASSUME AdvancedTypeOK, OneExitIsLeft, [AdvancedNext]_advancedVars, NEW b \in Brackets
               PROVE  Closed(b)'
    BY DEF OneExitIsLeft, Closed
  <2> DEFINE mine == {b} \X {"entry", "stop_loss", "take_profit"}
             Calm == /\ bracket'[b] = bracket[b] /\ (b \in reopened => b \in reopened')
                     /\ \A x \in mine :
                          /\ filled'[x] = filled[x]
                          /\ status'[x] = status[x] \/ status[x] \in {"absent", "pending", "open"}
  <2>1. /\ mine \subseteq OrderIds
        /\ mine \intersect (Plain \union Trails \union Legs) = {}
    BY IdsAssumption DEF Legs, OrderIds, Exits, Entries
  <2>2. Calm => Closed(b)'
    BY BracketStaysClosed DEF OneExitIsLeft, Closed
  <2>3. ASSUME NEW S, Create(S) PROVE Calm
    BY <2>1, <2>3 DEF Create, AdvancedTypeOK
  <2>4. ASSUME NEW t \in Trails, NEW spec \in TrailSpecs, CreateTrailingStop(t, spec) PROVE Calm
    BY <2>1, <2>4 DEF CreateTrailingStop, AdvancedTypeOK
  <2>5. ASSUME NEW t \in Trails, NEW price \in Prices, UpdateTrailingStop(t, price) PROVE Calm
    BY <2>5 DEF UpdateTrailingStop
  <2>6. ASSUME NEW o \in OrderIds, CancelOrder(o) PROVE Calm
    BY <2>1, <2>6 DEF CancelOrder, AdvancedTypeOK
  <2>7. ASSUME NEW o \in OrderIds, NEW q \in 1..Quantity, HandleOrderFill(o, q) PROVE Closed(b)'
    <3>1. filled' = [filled EXCEPT ![o] = @ + q]
      BY <2>7 DEF HandleOrderFill
    <3>2. CASE o \in Plain \union Trails /\ PlainFill(o, q)
      BY <2>1, <2>2, <3>1, <3>2 DEF PlainFill, AdvancedTypeOK
    <3>3. CASE o \in Legs /\ OcoFill(o, q)
      <4>1. o \notin mine /\ OtherLeg(o) \notin mine
        BY <2>1, <3>3, LegIsOfAnOco
      <4>2. Calm
        BY <2>1, <3>1, <3>3, <4>1 DEF OcoFill, AdvancedTypeOK
      <4>3. QED
        BY <2>2, <4>2
    <3>4. CASE o \in Entries /\ EntryFill(o, q)
      <4>1. CASE o[1] = b
        BY <3>4, <4>1, EntryFillReopens
      <4>2. CASE o[1] # b
        <5>1. o \notin mine /\ Exit(o[1], "stop_loss") \notin mine /\ Exit(o[1], "take_profit") \notin mine
          BY <3>4, <4>2, EntryIsOfABracket DEF Exit
        <5>2. Calm
          BY <2>1, <3>1, <3>4, <4>2, <5>1 DEF EntryFill, AdvancedTypeOK
        <5>3. QED
          BY <2>2, <5>2
      <4>3. QED
        BY <4>1, <4>2
    <3>5. CASE o \in Exits /\ ExitFill(o, q)
      <4>1. CASE o[1] = b
        BY <3>1, <3>5, <4>1, ExitFillCloses
      <4>2. CASE o[1] # b
        <5>1. o \notin mine /\ OtherExit(o) \notin mine
          BY <3>5, <4>2, ExitIsOfABracket
        <5>2. Calm
          BY <2>1, <3>1, <3>5, <4>2, <5>1 DEF ExitFill, AdvancedTypeOK
        <5>3. QED
          BY <2>2, <5>2
      <4>3. QED
        BY <4>1, <4>2
    <3>6. QED
      BY <2>7, <3>2, <3>3, <3>4, <3>5, ReportOnOne
  <2>8. CASE UNCHANGED advancedVars
    BY <2>2, <2>8 DEF advancedVars
  <2> HIDE DEF Calm
  <2>9. QED
    BY <2>2, <2>3, <2>4, <2>5, <2>6, <2>7, <2>8
       DEF AdvancedNext, CreateOrder, CreateOcoOrder, CreateBracketOrder
<1>3. QED
  BY <1>1, <1>2, AdvancedTypeCorrect, PTL DEF AdvancedSpec

-----------------------------------------------------------------------------
(* A higher price never takes the stop of a long position down, a lower one *)
(* never takes the stop of a short position up: a percentage is at most 100. *)
LEMMA StopFollowsThePrice ==
  ASSUME NEW spec \in TrailSpec, NEW low \in Nat, NEW high \in Nat, low <= high
  PROVE  /\ spec.side = "sell" => NewStop(spec, high) >= NewStop(spec, low)
         /\ spec.side = "buy" => NewStop(spec, low) <= NewStop(spec, high)
<1> DEFINE d == high - low
           percent == spec.percent
<1>1. spec.percent \in 0..100 /\ spec.amount \in Nat /\ d \in Nat /\ high = low + d
  BY DEF TrailSpec
<1>2. d * percent \in Nat /\ d * percent <= 100 * d
  BY <1>1
<1>3. high * percent = low * percent + d * percent /\ low * percent \in Nat
  BY <1>1
<1>4. ASSUME spec.side = "sell" PROVE NewStop(spec, high) >= NewStop(spec, low)
  <2>1. CASE percent = 0
    BY <1>1, <1>4, <2>1 DEF NewStop
  <2>2. CASE percent # 0
    <3>1. /\ NewStop(spec, high) = 100 * high - high * percent
          /\ NewStop(spec, low) = 100 * low - low * percent
      BY <1>4, <2>2 DEF NewStop
    <3> HIDE DEF percent, d
    <3>2. 100 * high = 100 * low + 100 * d
      BY <1>1
    <3> DEFINE H == high * percent
               L == low * percent
               D == d * percent
    <3>3. H = L + D /\ L \in Nat /\ D \in Nat /\ D <= 100 * d
      BY <1>2, <1>3
    <3>4. NewStop(spec, high) = 100 * high - H /\ NewStop(spec, low) = 100 * low - L
      BY <3>1
    <3> HIDE DEF H, L, D
    <3>5. QED
      BY <1>1, <3>2, <3>3, <3>4
  <2>3. QED
    BY <2>1, <2>2
<1>5. spec.side = "buy" => NewStop(spec, low) <= NewStop(spec, high)
  BY <1>1, <1>2, <1>3 DEF NewStop
<1>6. QED
  BY <1>4, <1>5

(* The stop is the one for the best price seen so far; before the first     *)
(* price, and for a trailing stop without a distance, it is 0.              *)
StopMatchesExtreme ==
  \A t \in Trails :
    LET spec == trail[t].spec IN
    /\ status[t] = "absent" => trail[t].extreme = 0 /\ trail[t].stop = 0
    /\ trail[t].stop = IF trail[t].extreme = 0 \/ (spec.percent = 0 /\ spec.amount = 0)
                       THEN 0 ELSE NewStop(spec, trail[t].extreme)

(* What each step does to one trailing stop. *)
LEMMA TrailSteps ==
  ASSUME AdvancedTypeOK, AdvancedNext, NEW t \in Trails
  PROVE  \/ trail'[t] = trail[t] /\ (status'[t] = "absent" => status[t] = "absent")
         \/ \E spec \in TrailSpecs : CreateTrailingStop(t, spec)
         \/ \E price \in Prices : UpdateTrailingStop(t, price)
<1>1. t \in OrderIds
  BY DEF OrderIds
<1> DEFINE Same == trail'[t] = trail[t] /\ (status'[t] = "absent" => status[t] = "absent")
<1>2. ASSUME NEW S, Create(S) PROVE Same
  BY <1>1, <1>2 DEF Create, AdvancedTypeOK
<1>3. ASSUME NEW u \in Trails, u # t, NEW spec \in TrailSpecs, CreateTrailingStop(u, spec) PROVE Same
  BY <1>1, <1>3 DEF CreateTrailingStop, AdvancedTypeOK
<1>4. ASSUME NEW u \in Trails, u # t, NEW price \in Prices, UpdateTrailingStop(u, price) PROVE Same
  BY <1>1, <1>4 DEF UpdateTrailingStop, AdvancedTypeOK
<1>5. ASSUME NEW o \in OrderIds, CancelOrder(o) PROVE Same
  BY <1>1, <1>5 DEF CancelOrder, AdvancedTypeOK
<1>6. ASSUME NEW o \in OrderIds, NEW q \in 1..Quantity, HandleOrderFill(o, q) PROVE Same
  <2>1. trail' = trail /\ FillStatus(o, q) # "absent"
    BY <1>6 DEF HandleOrderFill, FillStatus
  <2>2. CASE PlainFill(o, q)
    BY <1>1, <2>1, <2>2 DEF PlainFill, AdvancedTypeOK
  <2>3. CASE OcoFill(o, q)
    BY <1>1, <2>1, <2>3 DEF OcoFill, AdvancedTypeOK
  <2>4. CASE EntryFill(o, q)
    BY <1>1, <2>1, <2>4 DEF EntryFill, AdvancedTypeOK
  <2>5. CASE ExitFill(o, q)
    BY <1>1, <2>1, <2>5 DEF ExitFill, AdvancedTypeOK
  <2>6. QED
    BY <1>6, <2>2, <2>3, <2>4, <2>5 DEF HandleOrderFill
<1> HIDE DEF Same
<1>7. Same \/ (\E spec \in TrailSpecs : CreateTrailingStop(t, spec))
           \/ (\E price \in Prices : UpdateTrailingStop(t, price))
  BY <1>2, <1>3, <1>4, <1>5, <1>6
     DEF AdvancedNext, CreateOrder, CreateOcoOrder, CreateBracketOrder
<1>8. QED
  BY <1>7 DEF Same

(* What update_trailing_stop does to the stop it is called for. *)
LEMMA UpdateEffect ==
  ASSUME AdvancedTypeOK, NEW t \in Trails, NEW price \in Prices, UpdateTrailingStop(t, price)
  PROVE  LET spec == trail[t].spec IN
         /\ status' = status /\ status[t] # "absent" /\ spec \in TrailSpec
         /\ trail'[t].spec = spec /\ trail'[t].extreme = price
         /\ trail'[t].stop = IF spec.percent = 0 /\ spec.amount = 0 THEN trail[t].stop
                             ELSE NewStop(spec, price)
         /\ price \in Nat \ {0} /\ trail[t].extreme \in Nat
         /\ IF spec.side = "sell" THEN price > trail[t].extreme
            ELSE trail[t].extreme = 0 \/ price < trail[t].extreme
<1>1. trail[t].spec \in TrailSpec /\ trail[t].extreme \in Nat /\ price \in Nat \ {0}
  <2>1. NoTrail \in TrailSpec
    BY DEF NoTrail, TrailSpec
  <2>2. trail[t].spec \in TrailSpecs \union {NoTrail} /\ trail[t].extreme \in Prices \union {0}
    BY DEF AdvancedTypeOK
  <2>3. trail[t].spec \in TrailSpec
    BY <2>1, <2>2, TrailSpecsAssumption
  <2>4. price \in Nat \ {0}
    BY PricesAssumption
  <2>5. \A x \in Prices \union {0} : x \in Nat
    BY PricesAssumption
  <2>6. QED
    BY <2>2, <2>3, <2>4, <2>5
<1>2. trail \in [Trails -> [spec : TrailSpecs \union {NoTrail}, extreme : Prices \union {0}, stop : Int]]
  BY DEF AdvancedTypeOK
<1>3. QED
  BY <1>1, <1>2 DEF UpdateTrailingStop, NewExtreme

(* The stop is always the one for the best price seen. *)
THEOREM StopsMatchExtremes == AdvancedSpec => []StopMatchesExtreme
<1>1. AdvancedInit => StopMatchesExtreme
  BY DEF AdvancedInit, StopMatchesExtreme
<1>2. AdvancedTypeOK /\ StopMatchesExtreme /\ [AdvancedNext]_advancedVars => StopMatchesExtreme'
  <2> SUFFICES ASSUME AdvancedTypeOK, StopMatchesExtreme, AdvancedNext PROVE StopMatchesExtreme'
    BY DEF StopMatchesExtreme, advancedVars
  <2> SUFFICES ASSUME NEW t \in Trails
               PROVE  LET spec == trail'[t].spec IN
                      /\ status'[t] = "absent" => trail'[t].extreme = 0 /\ trail'[t].stop = 0
                      /\ trail'[t].stop = IF trail'[t].extreme = 0 \/ (spec.percent = 0 /\ spec.amount = 0)
                                          THEN 0 ELSE NewStop(spec, trail'[t].extreme)
    BY DEF StopMatchesExtreme, NewStop
  <2>1. CASE trail'[t] = trail[t] /\ (status'[t] = "absent" => status[t] = "absent")
    BY <2>1 DEF StopMatchesExtreme
  <2>2. ASSUME NEW spec \in TrailSpecs, CreateTrailingStop(t, spec)
        PROVE  /\ status'[t] # "absent" /\ trail'[t].extreme = 0 /\ trail'[t].stop = 0
    BY <2>2 DEF CreateTrailingStop, StopMatchesExtreme, AdvancedTypeOK, OrderIds
  <2>3. ASSUME NEW price \in Prices, UpdateTrailingStop(t, price)
        PROVE  /\ status'[t] # "absent" /\ trail'[t].spec = trail[t].spec /\ trail'[t].extreme # 0
               /\ trail'[t].stop = IF trail[t].spec.percent = 0 /\ trail[t].spec.amount = 0
                                   THEN 0 ELSE NewStop(trail[t].spec, trail'[t].extreme)
    BY <2>3, UpdateEffect DEF StopMatchesExtreme
  <2>4. QED
    BY <2>1, <2>2, <2>3, TrailSteps
<1>3. QED
  BY <1>1, <1>2, AdvancedTypeCorrect, PTL DEF AdvancedSpec

(* A trailing stop only ever follows the market, for every sequence of      *)
(* prices, every amount, every percentage up to 100 and every activation    *)
(* price.                                                                   *)
THEOREM TrailingStopsNeverLoosen == AdvancedSpec => TrailingStopNeverLoosens
<1> DEFINE Follows(t) == IF trail[t].spec.side = "sell" THEN trail'[t].stop >= trail[t].stop
                                                        ELSE trail'[t].stop <= trail[t].stop
<1>1. AdvancedTypeOK /\ StopMatchesExtreme /\ [AdvancedNext]_advancedVars =>
        [\A t \in Trails : trail[t].extreme # 0 => Follows(t)]_advancedVars
  <2> SUFFICES ASSUME AdvancedTypeOK, StopMatchesExtreme, AdvancedNext,
                      NEW t \in Trails, trail[t].extreme # 0
               PROVE  Follows(t)
    OBVIOUS
  <2>1. trail[t].stop \in Int
    BY DEF AdvancedTypeOK
  <2>2. CASE trail'[t] = trail[t]
    BY <2>1, <2>2
  <2>3. ASSUME NEW spec \in TrailSpecs, CreateTrailingStop(t, spec) PROVE FALSE
    BY <2>3 DEF CreateTrailingStop, StopMatchesExtreme
  <2>4. ASSUME NEW price \in Prices, UpdateTrailingStop(t, price) PROVE Follows(t)
    <3> DEFINE spec == trail[t].spec
               extreme == trail[t].extreme
    <3>1. /\ spec \in TrailSpec /\ price \in Nat /\ extreme \in Nat
          /\ trail'[t].stop = IF spec.percent = 0 /\ spec.amount = 0 THEN trail[t].stop
                              ELSE NewStop(spec, price)
          /\ IF spec.side = "sell" THEN price > extreme ELSE price < extreme
      BY <2>4, UpdateEffect
    <3>2. CASE spec.percent = 0 /\ spec.amount = 0
      BY <2>1, <3>1, <3>2
    <3>3. CASE ~(spec.percent = 0 /\ spec.amount = 0)
      <4>1. trail[t].stop = NewStop(spec, extreme) /\ trail'[t].stop = NewStop(spec, price)
        BY <3>1, <3>3 DEF StopMatchesExtreme
      <4>2. CASE spec.side = "sell"
        BY <3>1, <4>1, <4>2, StopFollowsThePrice
      <4>3. CASE spec.side = "buy"
        BY <3>1, <4>1, <4>3, StopFollowsThePrice
      <4>4. spec.side \in {"buy", "sell"}
        BY <3>1 DEF TrailSpec
      <4>5. QED
        BY <4>2, <4>3, <4>4
    <3>4. QED
      BY <3>2, <3>3
  <2>5. QED
    BY <2>2, <2>3, <2>4, TrailSteps
<1>2. QED
  BY <1>1, AdvancedTypeCorrect, StopsMatchExtremes, PTL DEF AdvancedSpec, TrailingStopNeverLoosens
=============================================================================
