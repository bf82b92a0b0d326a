----------------------------- MODULE QueuedOms ------------------------------
(***************************************************************************)
(* src/src/execution/oms.py with its broker (execution/brokers/paper.py)   *)
(* and the event queues it publishes on (core/bus.py): submit_order only   *)
(* queues an order; a worker, the task _process_loop that start() creates, *)
(* takes the orders and executes them one at a time.  Nothing stops a      *)
(* second start() while the worker of the first still waits for an order,  *)
(* so several workers may run.                                             *)
(*                                                                         *)
(* Everything runs on one event loop: an action is the code between two    *)
(* awaits that really suspend (the broker's latency, publish, the wait for *)
(* an order, connect).  No await happens while the OMS holds its lock, so  *)
(* the lock never makes anybody wait and is not part of the state.  The    *)
(* broker answers with the order object it was given: OMS and broker share *)
(* its status.                                                             *)
(***************************************************************************)
EXTENDS Naturals, Sequences, FiniteSets, SequencesExt

CONSTANTS
  Orders,    (* the orders that are submitted                                *)
  Workers,   (* bound: one per call of start                                 *)
  QueueSize  (* capacity of an event queue; 0 while nobody has subscribed    *)

ASSUME QueueSizeAssumption == QueueSize \in Nat

VARIABLES
  running,   (* _running                                                     *)
  worker,    (* where each _process_loop is, and the order it holds          *)
  pending,   (* _pending, the queue of submitted orders                      *)
  status,    (* the status of each order object                              *)
  book,      (* the broker's _orders                                         *)
  executed,  (* fills per order in the broker's _fills                       *)
  recorded,  (* fills per order in the OMS's OrderState                      *)
  events,    (* length of the queue of OrderEvents and of FillEvents         *)
  late       (* history: orders each worker took to the broker since a stop   *)

vars == <<running, worker, pending, status, book, executed, recorded, events,
          late>>

Kinds == {"ORDER", "FILL"}
NoOrder == "none"
ASSUME OrdersAssumption == NoOrder \notin Orders

Unborn == [pc |-> "unborn", order |-> NoOrder]
Ended  == [pc |-> "ended", order |-> NoOrder]

Init ==
  /\ running = FALSE
  /\ worker = [w \in Workers |-> Unborn]
  /\ pending = <<>>
  /\ status = [o \in Orders |-> "NEW"]
  /\ book = {}
  /\ executed = [o \in Orders |-> 0] /\ recorded = [o \in Orders |-> 0]
  /\ events = [k \in Kinds |-> 0]
  /\ late = [w \in Workers |-> 0]

At(w, place) == worker[w].pc = place

GoTo(w, place) == worker' = [worker EXCEPT ![w].pc = place]

(* Fault: the loop does not look at _running after an order. *)
NextRoundAlways == [pc |-> "get", order |-> NoOrder]

(* while self._running *)
NextRound == IF running THEN [pc |-> "get", order |-> NoOrder] ELSE Ended

(* start: running at once; the worker is created when connect returned. *)
Start(w) ==
  /\ At(w, "unborn")
  /\ running' = TRUE /\ GoTo(w, "connecting")
  /\ UNCHANGED <<pending, status, book, executed, recorded, events, late>>

Connected(w) ==
  /\ At(w, "connecting") /\ GoTo(w, "born")
  /\ UNCHANGED <<running, pending, status, book, executed, recorded, events, late>>

(* The new task runs for the first time: a stop may have come between. *)
Begins(w) ==
  /\ At(w, "born") /\ worker' = [worker EXCEPT ![w] = NextRound]
  /\ UNCHANGED <<running, pending, status, book, executed, recorded, events, late>>

(* stop: the worker is not told and the queue is not emptied. *)
Stop ==
  /\ running
  /\ running' = FALSE /\ late' = [w \in Workers |-> 0]
  /\ UNCHANGED <<worker, pending, status, book, executed, recorded, events>>

Submit(o) ==
  /\ status[o] = "NEW"
  /\ status' = [status EXCEPT ![o] = "PENDING"] /\ pending' = Append(pending, o)
  /\ UNCHANGED <<running, worker, book, executed, recorded, events, late>>

(* Fault: the order is looked at and stays in the queue. *)
TakePeeks(w) ==
  /\ At(w, "get") /\ pending # <<>>
  /\ worker' = [worker EXCEPT ![w] = [pc |-> "announce", order |-> Head(pending)]]
  /\ UNCHANGED <<running, pending, status, book, executed, recorded, events, late>>

(* The queue gives an order to one waiting worker, stopped or not. *)
Take(w) ==
  /\ At(w, "get") /\ pending # <<>>
  /\ worker' = [worker EXCEPT ![w] = [pc |-> "announce", order |-> Head(pending)]]
  /\ pending' = Tail(pending)
  /\ UNCHANGED <<running, status, book, executed, recorded, events, late>>

(* The wait of one second ends, and the loop looks at _running; the time    *)
(* may be up just when an order has come, which stays in the queue.         *)
GetTimesOut(w) ==
  /\ At(w, "get") /\ ~running
  /\ worker' = [worker EXCEPT ![w] = Ended]
  /\ UNCHANGED <<running, pending, status, book, executed, recorded, events, late>>

(* Fault: publish waits for room in the queue as long as it takes. *)
PublishedWaits(k) ==
  events[k] < QueueSize /\ events' = [events EXCEPT ![k] = @ + 1]

(* publish: the event is queued, or dropped when the queue is full for a    *)
(* second or has no subscriber.                                             *)
Published(k) ==
  events' = [events EXCEPT ![k] = IF @ < QueueSize THEN @ + 1 ELSE @]

(* The event that announces the order; the order goes to the broker. *)
Announced(w) ==
  /\ At(w, "announce") /\ Published("ORDER") /\ GoTo(w, "place")
  /\ UNCHANGED <<running, pending, status, book, executed, recorded, late>>

(* place_order after its latency: the order is filled or rejected. *)
Place(w, outcome) ==
  LET o == worker[w].order IN
  /\ At(w, "place")
  /\ status' = [status EXCEPT ![o] = outcome]
  /\ executed' = [executed EXCEPT ![o] = @ + IF outcome = "FILLED" THEN 1 ELSE 0]
  /\ book' = book \union {o}
  /\ GoTo(w, "placed")
  /\ late' = IF running THEN late ELSE [late EXCEPT ![w] = @ + 1]
  /\ UNCHANGED <<running, pending, recorded, events>>

(* The broker raises without executing the order. *)
PlaceRaises(w) ==
  LET o == worker[w].order IN
  /\ At(w, "place")
  /\ status' = [status EXCEPT ![o] = "REJECTED"]
  /\ GoTo(w, "report")
  /\ late' = IF running THEN late ELSE [late EXCEPT ![w] = @ + 1]
  /\ UNCHANGED <<running, pending, book, executed, recorded, events>>

(* Fault: the fill is written down when the order is already done with. *)
PlacedForgetsFills(w) ==
  /\ At(w, "placed") /\ Published("ORDER")
  /\ worker' = [worker EXCEPT ![w] = NextRound]
  /\ UNCHANGED <<running, pending, status, book, executed, recorded, late>>

(* The event about the outcome; the status is looked at after it, when a   *)
(* cancel may have changed it, and a fill is recorded only for FILLED.     *)
Placed(w) ==
  LET o == worker[w].order IN
  /\ At(w, "placed") /\ Published("ORDER")
  /\ IF status[o] = "FILLED"
     THEN recorded' = [recorded EXCEPT ![o] = @ + 1] /\ GoTo(w, "filled")
     ELSE worker' = [worker EXCEPT ![w] = NextRound] /\ UNCHANGED recorded
  /\ UNCHANGED <<running, pending, status, book, executed, late>>

(* The last event about an order, a fill or a failure. *)
Reported(w) ==
  /\ \/ At(w, "filled") /\ Published("FILL")
     \/ At(w, "report") /\ Published("ORDER")
  /\ worker' = [worker EXCEPT ![w] = NextRound]
  /\ UNCHANGED <<running, pending, status, book, executed, recorded, late>>

(* cancel: the broker cancels every order in its book, whatever became of  *)
(* it, and no order it has not answered yet.                               *)
Cancel(o) ==
  /\ o \in book
  /\ status' = [status EXCEPT ![o] = "CANCELLED"]
  /\ UNCHANGED <<running, worker, pending, book, executed, recorded, events, late>>

(* The subscriber of a queue finishes with an event. *)
Handled(k) ==
  /\ events[k] > 0 /\ events' = [events EXCEPT ![k] = @ - 1]
  /\ UNCHANGED <<running, worker, pending, status, book, executed, recorded, late>>

Work(w) ==
  \/ Connected(w) \/ Begins(w) \/ Take(w) \/ GetTimesOut(w) \/ Announced(w)
  \/ \E outcome \in {"FILLED", "REJECTED"} : Place(w, outcome)
  \/ PlaceRaises(w) \/ Placed(w) \/ Reported(w)

Next ==
  \/ \E w \in Workers : Start(w) \/ Work(w)
  \/ Stop
  \/ \E o \in Orders : Submit(o) \/ Cancel(o)
  \/ \E k \in Kinds : Handled(k)

Spec == Init /\ [][Next]_vars

(* The event loop runs every worker; nobody promises that subscribers are   *)
(* done with an event, that orders come or that stop is called.             *)
FairSpec == Spec /\ \A w \in Workers : WF_vars(Work(w))

-----------------------------------------------------------------------------
Waiting == ToSet(pending)
Undecided(w) == worker[w].pc \in {"announce", "place"}
Busy(w) == worker[w].pc \in {"announce", "place", "placed", "filled", "report"}

WorkerStates ==
  [pc : {"unborn", "connecting", "born", "get", "announce", "place",
         "placed", "filled", "report", "ended"},
   order : Orders \union {NoOrder}]

TypeOK ==
  /\ running \in BOOLEAN
  /\ worker \in [Workers -> WorkerStates]
  /\ \A w \in Workers : Busy(w) <=> worker[w].order # NoOrder
  /\ pending \in Seq(Orders)
  /\ status \in [Orders -> {"NEW", "PENDING", "FILLED", "REJECTED", "CANCELLED"}]
  /\ book \subseteq Orders
  /\ executed \in [Orders -> Nat] /\ recorded \in [Orders -> Nat]
  /\ events \in [Kinds -> 0..QueueSize]
  /\ late \in [Workers -> Nat]

(* An order that is neither filled nor refused is in exactly one place: in  *)
(* the queue once, or with one worker.  However often the OMS is stopped    *)
(* and started, and however many workers that leaves, no order is lost and  *)
(* none is worked on twice.                                                 *)
NoOrderLost ==
  /\ IsInjective(pending)
  /\ \A v, w \in Workers : v # w /\ Busy(v) /\ Busy(w) => worker[v].order # worker[w].order
  /\ \A w \in Workers : Busy(w) => worker[w].order \notin Waiting
  /\ \A o \in Orders : status[o] = "PENDING" <=>
       o \in Waiting \/ \E w \in Workers : Undecided(w) /\ worker[w].order = o

(* The OMS records each execution of the broker once and none of its own.   *)
(* An execution it has not recorded is still with its worker, or was        *)
(* cancelled after it had been executed: then the broker holds a position   *)
(* the OMS has no fill for.                                                 *)
FillsAreRecorded ==
  \A o \in Orders :
    /\ recorded[o] <= executed[o] /\ executed[o] <= 1
    /\ recorded[o] < executed[o] =>
         \/ status[o] = "CANCELLED"
         \/ \E w \in Workers : At(w, "placed") /\ worker[w].order = o

(* After stop, a worker brings at most one more order to the broker: the    *)
(* one it holds, or the one it is just given while it waits its second out. *)
StopLeavesOneEach == \A w \in Workers : late[w] <= 1

(* At the broker the queued orders keep OrderPromise as well: an order is    *)
(* executed once and only while it waits to be decided, however many        *)
(* workers there are, and cancelling never reopens one.                     *)
PhaseOf(s) == IF s = "NEW" THEN "none" ELSE IF s = "PENDING" THEN "open" ELSE "done"
Promise == INSTANCE OrderPromise WITH
  phase <- [o \in Orders |-> PhaseOf(status[o])],
  size <- [o \in Orders |-> IF status[o] = "NEW" THEN 0 ELSE 1]

KeepsPromise == Promise!Spec

(* A submitted order is filled, rejected or refused while the OMS runs,     *)
(* even if the subscribers of its events never come back.                   *)
SubmittedIsDecided ==
  \A o \in Orders : status[o] = "PENDING" ~> status[o] # "PENDING" \/ ~running
=============================================================================
