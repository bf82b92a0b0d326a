----------------------------- MODULE OandaBroker ----------------------------
(***************************************************************************)
(* The live connector that main.py creates, OANDABroker of                 *)
(* brokers/__init__.py, with close_all_positions of its base class: HTTP   *)
(* requests that are retried, share a semaphore and may be cut off by the  *)
(* caller's wait_for, and a list of positions that is cached for TTL       *)
(* seconds.                                                                *)
(*                                                                         *)
(* The venue executes a request at any time after it was sent, also after  *)
(* the client has given up waiting, and answers or does not; an order or a *)
(* closing request it accepts may find no fill.  A market order opens a    *)
(* position or adds to it; the venue closes positions for reasons of its   *)
(* own as well (stops, margin, an order the other way, a closing request   *)
(* whose answer nobody awaits any more).  The calls that leave nothing     *)
(* behind in the connector (get_account_info, get_pending_orders,          *)
(* cancel_order) hold a permit like the others and do nothing else; they   *)
(* have no action of their own.                                            *)
(***************************************************************************)
EXTENDS Integers, FiniteSets

CONSTANTS
  Callers,   (* tasks that use the broker: brain loop, emergency stop, API  *)
  Orders,    (* bound: the calls of place_market_order                      *)
  Positions, (* instrument and side                                         *)
  Leg,       (* the position an order opens or adds to                      *)
  Slots,     (* the semaphore's permits                                     *)
  Retries,   (* max_retries                                                 *)
  TTL,       (* _cache_ttl                                                  *)
  Timeout    (* the session's total time for one request                    *)

ASSUME ConstantsAssumption ==
  /\ Leg \in [Orders -> Positions]
  /\ {Slots, Retries, TTL, Timeout} \subseteq Nat \ {0}

VARIABLES
  session,   (* _session: "none", "open" or, after disconnect, "closed"     *)
  dials,     (* attempts of connect that failed                             *)
  free,      (* _rate_limiter: permits left                                 *)
  call,      (* what each caller is doing                                   *)
  order,     (* what became of each call of place_market_order              *)
  cache,     (* _positions_cache                                            *)
  cacheAge,  (* time since _last_cache_update; TTL stands for any later     *)
  open,      (* venue: the open positions                                   *)
  age,       (* venue: time since a position was opened or closed           *)
  executed,  (* venue: executions per order                                 *)
  strays,    (* orders on their way to the venue that nobody awaits         *)
  owed,      (* history: what was open when a running close_all_positions   *)
             (* began and has not been closed since: "old" or "fresh" then, *)
             (* "refused" once a close of that call was answered unfilled   *)
  left       (* history: what a close_all_positions that has just ended     *)
             (* without a failure left                                      *)

client == <<session, dials, free, call, order, cache, cacheAge>>
venue  == <<open, age, executed, strays>>
vars   == <<client, venue, owed, left>>

Nothing == "none"
Old     == TTL + Timeout

Idle == [op |-> "idle", pc |-> "idle", item |-> Nothing, attempt |-> 0,
         age |-> 0, answer |-> Nothing, snap |-> {},
         todo |-> {}, mode |-> "single"]

(* A call of op that waits for the semaphore: on its own, or as a part of   *)
(* close_all_positions, to which nothing or something has failed so far.    *)
Waiting(op, item, mode, todo) ==
  [op |-> op, pc |-> "wait", item |-> item, attempt |-> 0,
   age |-> 0, answer |-> Nothing, snap |-> {}, todo |-> todo, mode |-> mode]

Init ==
  /\ session = "none" /\ dials = 0 /\ free = Slots
  /\ call = [c \in Callers |-> Idle]
  /\ order = [o \in Orders |-> "new"]
  /\ cache = {} /\ cacheAge = TTL
  /\ open \in SUBSET Positions /\ age = [p \in Positions |-> Old]
  /\ executed = [o \in Orders |-> 0] /\ strays = [o \in Orders |-> 0]
  /\ owed = [c \in Callers |-> {}] /\ left = {}

Older(a, limit) == IF a < limit THEN a + 1 ELSE limit
Holds(c) == call[c].pc \in {"sent", "dead", "got", "pause"}

-----------------------------------------------------------------------------
(* The venue *)

Opens(p) ==
  /\ open' = open \union {p}
  /\ age' = IF p \in open THEN age ELSE [age EXCEPT ![p] = 0]

(* Closing a position settles what any running close_all owes of it. *)
Closes(p) ==
  /\ p \in open /\ open' = open \ {p} /\ age' = [age EXCEPT ![p] = 0]
  /\ owed' = [c \in Callers |-> {q \in owed[c] : q[1] # p}]

(* A closing request of c is accepted and finds no fill: the position stays *)
(* open, and a close_all_positions that sent it learns nothing of that.     *)
Refuses(c, p) ==
  /\ owed' = [owed EXCEPT ![c] = {IF q[1] = p THEN <<p, "refused">> ELSE q : q \in owed[c]}]
  /\ UNCHANGED <<open, age>>

(* An order or a closing request is executed or not, or the list is sent. *)
VenueAnswers(c) ==
  LET r == call[c] IN
  /\ r.pc = "sent"
  /\ \E answer \in {"ok"} \union IF r.op = "positions" THEN {} ELSE {"nofill"} :
       /\ call' = [call EXCEPT ![c].pc = "got", ![c].answer = answer,
                     ![c].snap = IF r.op = "positions" THEN open ELSE {}]
       /\ IF r.op = "place" /\ answer = "ok"
          THEN Opens(Leg[r.item]) /\ executed' = [executed EXCEPT ![r.item] = @ + 1]
                 /\ UNCHANGED owed
          ELSE /\ UNCHANGED executed
               /\ IF r.op # "close" THEN UNCHANGED <<open, age, owed>>
                  ELSE IF answer = "ok" THEN Closes(r.item) ELSE Refuses(c, r.item)
  /\ UNCHANGED <<session, dials, free, order, cache, cacheAge, strays>> /\ left' = {}

(* An order nobody waits for any more reaches the venue after all. *)
StrayExecutes(o) ==
  /\ strays[o] > 0
  /\ strays' = [strays EXCEPT ![o] = @ - 1]
  /\ executed' = [executed EXCEPT ![o] = @ + 1]
  /\ Opens(Leg[o])
  /\ UNCHANGED <<client, owed>> /\ left' = {}

VenueCloses(p) == Closes(p) /\ UNCHANGED <<client, executed, strays>> /\ left' = {}

(* A request for the list that is under way; the age of others matters to    *)
(* nobody.                                                                  *)
Asking(c) == call[c].op = "positions" /\ call[c].pc \in {"sent", "got"}

(* Time passes; a request is never under way for longer than Timeout. *)
Tick ==
  /\ \A c \in Callers : Asking(c) => call[c].age < Timeout
  /\ call' = [c \in Callers |-> IF Asking(c) THEN [call[c] EXCEPT !.age = @ + 1]
                                             ELSE call[c]]
  /\ cacheAge' = Older(cacheAge, TTL)
  /\ age' = [p \in Positions |-> Older(age[p], Old)]
  /\ UNCHANGED <<session, dials, free, order, cache, open, executed, strays, owed>> /\ left' = {}

-----------------------------------------------------------------------------
(* Connection *)

Connect ==
  /\ session = "none" /\ dials < Retries
  /\ \/ session' = "open" /\ UNCHANGED dials
     \/ dials' = dials + 1 /\ UNCHANGED session
  /\ UNCHANGED <<free, call, order, cache, cacheAge, venue, owed>> /\ left' = {}

Disconnect ==
  /\ session = "open" /\ session' = "closed"
  /\ UNCHANGED <<dials, free, call, order, cache, cacheAge, venue, owed>> /\ left' = {}

-----------------------------------------------------------------------------
(* Calls *)

PlaceMarketOrder(c, o) ==
  /\ session # "none" /\ call[c] = Idle /\ order[o] = "new"
  /\ call' = [call EXCEPT ![c] = Waiting("place", o, "single", {})]
  /\ order' = [order EXCEPT ![o] = "placing"]
  /\ UNCHANGED <<session, dials, free, cache, cacheAge, venue, owed>> /\ left' = {}

ClosePosition(c, p) ==
  /\ session # "none" /\ call[c] = Idle
  /\ call' = [call EXCEPT ![c] = Waiting("close", p, "single", {})]
  /\ UNCHANGED <<session, dials, free, order, cache, cacheAge, venue, owed>> /\ left' = {}

(* A list in the cache is returned as it is: that changes nothing. *)
GetPositions(c) ==
  /\ session # "none" /\ call[c] = Idle /\ cacheAge = TTL
  /\ call' = [call EXCEPT ![c] = Waiting("positions", Nothing, "single", {})]
  /\ UNCHANGED <<session, dials, free, order, cache, cacheAge, venue, owed>> /\ left' = {}

(* A position is old when it has been open for longer than the cache lives  *)
(* and a request takes.                                                     *)
Standing(p) == IF age[p] = Old THEN "old" ELSE "fresh"

(* The loop of close_all_positions with todo still to close: the next       *)
(* position, or the end, where debt is what the call owed and has not done. *)
CloseNext(c, todo, mode, debt) ==
  IF todo = {}
  THEN /\ call' = [call EXCEPT ![c] = Idle]
       /\ owed' = [owed EXCEPT ![c] = {}]
       /\ left' = IF mode = "clean" THEN debt ELSE {}
  ELSE /\ \E p \in todo :
            call' = [call EXCEPT ![c] = Waiting("close", p, mode, todo \ {p})]
       /\ owed' = [owed EXCEPT ![c] = debt]
       /\ left' = {}

(* Fault: the list in the cache is used however old it is. *)
CloseAllPositionsCached(c) ==
  /\ session # "none" /\ call[c] = Idle
  /\ CloseNext(c, cache, "clean", {<<p, Standing(p)>> : p \in open})
  /\ UNCHANGED <<session, dials, free, order, cache, cacheAge, venue>>

CloseAllPositions(c) ==
  LET debt == {<<p, Standing(p)>> : p \in open} IN
  /\ session # "none" /\ call[c] = Idle
  /\ IF cacheAge < TTL
     THEN CloseNext(c, cache, "clean", debt)
     ELSE /\ call' = [call EXCEPT ![c] = Waiting("positions", Nothing, "clean", {})]
          /\ owed' = [owed EXCEPT ![c] = debt] /\ left' = {}
  /\ UNCHANGED <<session, dials, free, order, cache, cacheAge, venue>>

-----------------------------------------------------------------------------
(* _make_request *)

(* A request without a session fails before it is sent. *)
Dispatched == IF session = "open" THEN "sent" ELSE "dead"

Acquire(c) ==
  /\ call[c].pc = "wait" /\ free > 0
  /\ free' = free - 1
  /\ call' = [call EXCEPT ![c].pc = Dispatched]
  /\ UNCHANGED <<session, dials, order, cache, cacheAge, venue, owed>> /\ left' = {}

(* Fault: range(max_retries + 1). *)
AttemptsLeftOneMore(c) == call[c].attempt < Retries

(* for attempt in range(max_retries) *)
AttemptsLeft(c) == call[c].attempt + 1 < Retries

(* The call raises: close_position turns that into False, and the loop of  *)
(* close_all_positions notes a failure and goes on.                        *)
Raises(c) ==
  LET r == call[c] IN
  /\ free' = free + 1
  /\ order' = IF r.op = "place" THEN [order EXCEPT ![r.item] = "failed"] ELSE order
  /\ IF r.op = "close" /\ r.mode # "single"
     THEN CloseNext(c, r.todo, "failed", owed[c])
     ELSE /\ call' = [call EXCEPT ![c] = Idle]
          /\ owed' = [owed EXCEPT ![c] = {}] /\ left' = {}
  /\ UNCHANGED <<session, dials, cache, cacheAge>>

(* An order that was sent and not answered may still be executed. *)
Abandoned(c) ==
  strays' = IF call[c].op = "place" /\ call[c].pc = "sent"
            THEN [strays EXCEPT ![call[c].item] = @ + 1] ELSE strays

Retry(c) ==
  /\ call' = [call EXCEPT ![c].pc = "pause", ![c].age = 0,
                          ![c].answer = Nothing, ![c].snap = {}]
  /\ UNCHANGED <<session, dials, free, order, cache, cacheAge, owed>> /\ left' = {}

(* The time is up, the connection breaks or the venue answers with an      *)
(* error: another attempt after a pause, or the last one raises.           *)
Fails(c) ==
  /\ call[c].pc \in {"sent", "dead", "got"}
  /\ Abandoned(c)
  /\ IF AttemptsLeft(c) THEN Retry(c) ELSE Raises(c)
  /\ UNCHANGED <<open, age, executed>>

(* 429: nothing is executed, and the pause follows the last attempt too. *)
RateLimited(c) == call[c].pc = "sent" /\ Retry(c) /\ UNCHANGED venue

Resume(c) ==
  /\ call[c].pc = "pause"
  /\ IF AttemptsLeft(c)
     THEN /\ call' = [call EXCEPT ![c].pc = Dispatched, ![c].attempt = @ + 1]
          /\ UNCHANGED <<session, dials, free, order, cache, cacheAge, owed>> /\ left' = {}
     ELSE Raises(c)
  /\ UNCHANGED venue

(* The answer arrives: the semaphore is released and the call goes on with  *)
(* it.  An order without a fill in its answer raises; close_position does    *)
(* not look for one and takes every answer for a closed position.           *)
Receive(c) ==
  LET r == call[c] IN
  /\ r.pc = "got"
  /\ free' = free + 1
  /\ order' = IF r.op # "place" THEN order
              ELSE [order EXCEPT ![r.item] = IF r.answer = "ok" THEN "filled" ELSE "failed"]
  /\ cache' = IF r.op = "positions" THEN r.snap ELSE cache
  /\ cacheAge' = CASE r.op = "positions" -> 0 [] r.op = "close" -> TTL [] OTHER -> cacheAge
  /\ IF r.mode = "single"
     THEN call' = [call EXCEPT ![c] = Idle] /\ UNCHANGED owed /\ left' = {}
     ELSE CloseNext(c, IF r.op = "positions" THEN r.snap ELSE r.todo, r.mode, owed[c])
  /\ UNCHANGED <<session, dials, venue>>

(* Fault: the permit is lost with the call. *)
CutOffLeaks(c) ==
  /\ call[c] # Idle
  /\ Abandoned(c)
  /\ order' = IF call[c].op = "place" THEN [order EXCEPT ![call[c].item] = "failed"] ELSE order
  /\ call' = [call EXCEPT ![c] = Idle] /\ owed' = [owed EXCEPT ![c] = {}]
  /\ UNCHANGED <<session, dials, free, cache, cacheAge, open, age, executed>> /\ left' = {}

(* The caller's wait_for ends the call, wherever it is. *)
CutOff(c) ==
  /\ call[c] # Idle
  /\ Abandoned(c)
  /\ free' = IF Holds(c) THEN free + 1 ELSE free
  /\ order' = IF call[c].op = "place" THEN [order EXCEPT ![call[c].item] = "failed"] ELSE order
  /\ call' = [call EXCEPT ![c] = Idle] /\ owed' = [owed EXCEPT ![c] = {}]
  /\ UNCHANGED <<session, dials, cache, cacheAge, open, age, executed>> /\ left' = {}

Calls(c) ==
  \/ GetPositions(c) \/ CloseAllPositions(c)
  \/ \E o \in Orders : PlaceMarketOrder(c, o)
  \/ \E p \in Positions : ClosePosition(c, p)

Request(c) == Fails(c) \/ Resume(c) \/ Receive(c)

Next ==
  \/ Connect \/ Disconnect \/ Tick
  \/ \E c \in Callers : \/ Calls(c) \/ Acquire(c) \/ Request(c)
                        \/ RateLimited(c) \/ VenueAnswers(c) \/ CutOff(c)
  \/ \E o \in Orders : StrayExecutes(o)
  \/ \E p \in Positions : VenueCloses(p)

Spec == Init /\ [][Next]_vars

(* Every request is answered or timed out, pauses end, and the semaphore    *)
(* serves waiters in order of arrival; the venue need not answer, nobody    *)
(* need call or cut off, and no time need pass.                             *)
FairSpec ==
  /\ Spec
  /\ \A c \in Callers : WF_vars(Request(c)) /\ SF_vars(Acquire(c))

-----------------------------------------------------------------------------
CallType ==
  [op : {"idle", "place", "positions", "close"},
   pc : {"idle", "wait", "sent", "dead", "got", "pause"},
   item : Orders \union Positions \union {Nothing},
   attempt : 0..Retries - 1, age : 0..Timeout,
   answer : {Nothing, "ok", "nofill"}, snap : SUBSET Positions,
   todo : SUBSET Positions, mode : {"single", "clean", "failed"}]

Debts == SUBSET (Positions \X {"old", "fresh", "refused"})

CallsTyped ==
  /\ call \in [Callers -> CallType]
  /\ \A c \in Callers : /\ call[c].op = "place" => call[c].item \in Orders
                        /\ call[c].op = "close" => call[c].item \in Positions

TypeOK ==
  /\ session \in {"none", "open", "closed"} /\ dials \in 0..Retries
  /\ free \in Nat
  /\ CallsTyped
  /\ order \in [Orders -> {"new", "placing", "filled", "failed"}]
  /\ cache \subseteq Positions /\ cacheAge \in 0..TTL
  /\ open \subseteq Positions /\ age \in [Positions -> 0..Old]
  /\ executed \in [Orders -> Nat] /\ strays \in [Orders -> Nat]
  /\ owed \in [Callers -> Debts] /\ left \in Debts

(* _make_request gives back every permit it took, however it ends: by an    *)
(* answer, after its last attempt, in a pause or because it was cut off.    *)
Holders == {c \in Callers : Holds(c)}
PermitsAddUp == free + Cardinality(Holders) = Slots

(* A market order is sent again after every failure, whatever the venue did *)
(* with the earlier requests.  One call executes at most max_retries times, *)
(* however late its requests arrive, and an order that was reported filled  *)
(* was executed; an order that was never placed was not.                    *)
ExecutionsBounded ==
  \A o \in Orders :
    /\ executed[o] + strays[o] <= Retries
    /\ order[o] = "filled" => executed[o] > 0
    /\ order[o] = "new" => executed[o] + strays[o] = 0

(* When close_all_positions reports no failure, every position that had     *)
(* been open for longer than the cache lives and a request takes is closed, *)
(* or the venue answered this call's closing request for it without a fill; *)
(* none is forgotten, whatever list the call worked from and however old    *)
(* answers came between.                                                    *)
OldPositionsAreAnswered == \A q \in left : q[2] \in {"fresh", "refused"}

(* What the log says (brokers/__init__.py:1077), "Position closed": a close *)
(* that was answered closed its position, so only fresh ones can be left.   *)
AnsweredMeansClosed == \A q \in left : q[2] = "fresh"

(* What the documentation says (brokers/__init__.py:177), "Close all        *)
(* positions with error tracking": no position is left without a failure.   *)
NoPositionIsLeft == left = {}

(* Every call comes to an end, by an answer or by an exception. *)
CallsEnd == \A c \in Callers : call[c] # Idle ~> call[c] = Idle
=============================================================================
