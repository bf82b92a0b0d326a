-------------------------- MODULE QueuedOmsProofs ---------------------------
(* Proofs about QueuedOms, for every number of orders and workers. *)
EXTENDS QueuedOms, TLAPS

(* What happens to the queue when an order is added or taken. *)
LEMMA AppendFacts ==
  ASSUME NEW S, NEW s \in Seq(S), NEW o \in S, IsInjective(s), o \notin ToSet(s)
  PROVE  /\ Append(s, o) \in Seq(S) /\ IsInjective(Append(s, o))
         /\ ToSet(Append(s, o)) = ToSet(s) \union {o}
<1>1. DOMAIN Append(s, o) = 1..Len(s) + 1 /\ Append(s, o) \in Seq(S)  OBVIOUS
<1>2. /\ \A i \in 1..Len(s) : Append(s, o)[i] = s[i] /\ s[i] # o
      /\ Append(s, o)[Len(s) + 1] = o
  BY DEF ToSet
<1>3. IsInjective(Append(s, o))
  BY <1>1, <1>2 DEF IsInjective
<1>4. ToSet(Append(s, o)) = ToSet(s) \union {o}
  BY <1>1, <1>2 DEF ToSet
<1> QED  BY <1>1, <1>3, <1>4

LEMMA TailFacts ==
  ASSUME NEW S, NEW s \in Seq(S), IsInjective(s), s # <<>>
  PROVE  /\ Head(s) \in S /\ Head(s) \in ToSet(s)
         /\ Tail(s) \in Seq(S) /\ IsInjective(Tail(s))
         /\ ToSet(Tail(s)) = ToSet(s) \ {Head(s)}
<1>1. /\ Len(s) \in Nat \ {0} /\ DOMAIN s = 1..Len(s) /\ Head(s) = s[1] /\ Head(s) \in S
      /\ Tail(s) \in Seq(S) /\ DOMAIN Tail(s) = 1..Len(s) - 1
      /\ \A i \in 1..Len(s) - 1 : Tail(s)[i] = s[i + 1]
  OBVIOUS
<1>2. \A i, j \in 1..Len(s) : s[i] = s[j] => i = j  BY <1>1 DEF IsInjective
<1>3. IsInjective(Tail(s))
  <2> SUFFICES ASSUME NEW i \in 1..Len(s) - 1, NEW j \in 1..Len(s) - 1, Tail(s)[i] = Tail(s)[j]
               PROVE  i = j
    BY <1>1 DEF IsInjective
  <2>1. s[i + 1] = s[j + 1] /\ i + 1 \in 1..Len(s) /\ j + 1 \in 1..Len(s)  BY <1>1
  <2> QED  BY <1>2, <2>1
<1>4. ToSet(Tail(s)) \subseteq ToSet(s) \ {Head(s)}
  <2> SUFFICES ASSUME NEW i \in 1..Len(s) - 1
               PROVE  Tail(s)[i] \in ToSet(s) /\ Tail(s)[i] # s[1]
    BY <1>1 DEF ToSet
  <2>1. Tail(s)[i] = s[i + 1] /\ i + 1 \in 1..Len(s) /\ 1 \in 1..Len(s) /\ i + 1 # 1  BY <1>1
  <2>2. s[i + 1] # s[1]  BY <1>2, <2>1
  <2> QED  BY <1>1, <2>1, <2>2 DEF ToSet
<1>5. ToSet(s) \ {Head(s)} \subseteq ToSet(Tail(s))
  <2> SUFFICES ASSUME NEW i \in 1..Len(s), s[i] # s[1] PROVE s[i] \in ToSet(Tail(s))
    BY <1>1 DEF ToSet
  <2>1. i - 1 \in 1..Len(s) - 1 /\ Tail(s)[i - 1] = s[(i - 1) + 1] /\ (i - 1) + 1 = i  BY <1>1
  <2> QED  BY <1>1, <2>1 DEF ToSet
<1>6. Head(s) \in ToSet(s)  BY <1>1 DEF ToSet
<1> QED  BY <1>1, <1>3, <1>4, <1>5, <1>6

-----------------------------------------------------------------------------
(* The inductive invariant: what is known of an order by its status, and of  *)
(* a worker by its place in the loop.                                       *)
OrderFacts ==
  \A o \in Orders :
    /\ status[o] \in {"NEW", "PENDING"} => executed[o] = 0 /\ recorded[o] = 0 /\ o \notin book
    /\ executed[o] > 0 => status[o] \in {"FILLED", "CANCELLED"}
    /\ status[o] = "FILLED" => executed[o] = 1

WorkerFacts ==
  \A w \in Workers :
    /\ Busy(w) => status[worker[w].order] # "NEW"
    /\ At(w, "placed") => recorded[worker[w].order] = 0

LateFacts ==
  \A w \in Workers :
    /\ late[w] <= 1
    /\ ~running /\ late[w] = 1 => worker[w].pc \in {"placed", "filled", "report", "ended"}

IInv == TypeOK /\ NoOrderLost /\ FillsAreRecorded /\ OrderFacts /\ WorkerFacts /\ LateFacts

-----------------------------------------------------------------------------
(* Types *)
BusyPlaces == {"announce", "place", "placed", "filled", "report"}
WorkersTyped == /\ worker \in [Workers -> WorkerStates]
                /\ \A w \in Workers : Busy(w) <=> worker[w].order # NoOrder

(* One worker steps. *)
LEMMA WorkerSteps ==
  ASSUME WorkersTyped, NEW w \in Workers, NEW r \in WorkerStates,
         r.pc \in BusyPlaces <=> r.order # NoOrder, worker' = [worker EXCEPT ![w] = r]
  PROVE  /\ WorkersTyped' /\ worker'[w] = r
         /\ \A v \in Workers \ {w} : worker'[v] = worker[v]
         /\ Busy(w)' <=> r.pc \in BusyPlaces
  BY DEF WorkersTyped, Busy, BusyPlaces

(* It goes to another place of the loop with the same order. *)
LEMMA GoesTo ==
  ASSUME WorkersTyped, NEW w \in Workers, NEW place, GoTo(w, place),
         \/ Busy(w) /\ place \in BusyPlaces
         \/ ~Busy(w) /\ place \in {"connecting", "born"}
  PROVE  /\ WorkersTyped' /\ worker'[w].pc = place /\ worker'[w].order = worker[w].order
         /\ \A v \in Workers \ {w} : worker'[v] = worker[v]
         /\ Busy(w)' <=> Busy(w)
<1> DEFINE r == [worker[w] EXCEPT !.pc = place]
<1>1. worker[w] \in WorkerStates /\ (Busy(w) <=> worker[w].order # NoOrder)
  BY DEF WorkersTyped
<1>2. r \in WorkerStates /\ r.pc = place /\ r.order = worker[w].order
  BY <1>1 DEF WorkerStates, BusyPlaces
<1>3. r.pc \in BusyPlaces <=> r.order # NoOrder
  BY <1>1, <1>2 DEF BusyPlaces
<1>4. worker' = [worker EXCEPT ![w] = r]  BY DEF GoTo
<1> HIDE DEF r
<1>5. /\ WorkersTyped' /\ worker'[w] = r /\ \A v \in Workers \ {w} : worker'[v] = worker[v]
      /\ Busy(w)' <=> r.pc \in BusyPlaces
  BY <1>2, <1>3, <1>4, WorkerSteps
<1> QED  BY <1>2, <1>5 DEF BusyPlaces

(* It is done with its order, or had none. *)
LEMMA LoopsOrEnds ==
  ASSUME WorkersTyped, NEW w \in Workers, NEW r \in {NextRound, Ended},
         worker' = [worker EXCEPT ![w] = r]
  PROVE  /\ WorkersTyped' /\ worker'[w] = r /\ ~Busy(w)'
         /\ worker'[w].pc \in {"get", "ended"} /\ (worker'[w].pc = "get" => running)
         /\ \A v \in Workers \ {w} : worker'[v] = worker[v]
<1>1. /\ r \in WorkerStates /\ r.order = NoOrder /\ r.pc \in {"get", "ended"}
      /\ r.pc = "get" => running
  BY DEF NextRound, Ended, WorkerStates, NoOrder
<1>2. /\ WorkersTyped' /\ worker'[w] = r /\ \A v \in Workers \ {w} : worker'[v] = worker[v]
      /\ Busy(w)' <=> r.pc \in BusyPlaces
  BY <1>1, WorkerSteps DEF BusyPlaces
<1> QED  BY <1>1, <1>2 DEF BusyPlaces

LEMMA PublishedType ==
  ASSUME TypeOK, NEW k \in Kinds, Published(k)
  PROVE  events' \in [Kinds -> 0..QueueSize]
<1>1. ASSUME NEW n \in 0..QueueSize
      PROVE  (IF n < QueueSize THEN n + 1 ELSE n) \in 0..QueueSize
  BY QueueSizeAssumption
<1> QED  BY <1>1 DEF TypeOK, Published

LEMMA TypeInit == Init => TypeOK
<1> SUFFICES ASSUME Init PROVE TypeOK  OBVIOUS
<1>1. Unborn \in WorkerStates /\ Unborn.order = NoOrder /\ Unborn.pc = "unborn"
  BY DEF Unborn, WorkerStates
<1>2. worker \in [Workers -> WorkerStates] /\ \A w \in Workers : Busy(w) <=> worker[w].order # NoOrder
  BY <1>1 DEF Init, Busy
<1>3. 0 \in 0..QueueSize  BY QueueSizeAssumption
<1>4. events \in [Kinds -> 0..QueueSize]  BY <1>3 DEF Init
<1>5. /\ executed \in [Orders -> Nat] /\ recorded \in [Orders -> Nat]
      /\ late \in [Workers -> Nat]
  BY DEF Init
<1>6. running \in BOOLEAN /\ book \subseteq Orders
  BY DEF Init
<1>7. status \in [Orders -> {"NEW", "PENDING", "FILLED", "REJECTED", "CANCELLED"}]
  BY DEF Init
<1>8. pending \in Seq(Orders)
  BY DEF Init
<1> QED  BY <1>2, <1>4, <1>5, <1>6, <1>7, <1>8 DEF TypeOK

LEMMA TypeNext == TypeOK /\ [Next]_vars => TypeOK'
<1> SUFFICES ASSUME TypeOK, [Next]_vars PROVE TypeOK'  OBVIOUS
<1>0. WorkersTyped  BY DEF TypeOK, WorkersTyped
<1>1. CASE UNCHANGED vars
  BY <1>1 DEF vars, TypeOK, Busy
<1>2. ASSUME NEW w \in Workers, Start(w) PROVE TypeOK'
  <2>1. ~Busy(w) /\ GoTo(w, "connecting")  BY <1>2 DEF Start, At, Busy
  <2>2. WorkersTyped'  BY <1>0, <2>1, GoesTo
  <2> QED  BY <1>2, <2>2 DEF Start, TypeOK, WorkersTyped
<1>3. ASSUME NEW w \in Workers, Connected(w) PROVE TypeOK'
  <2>1. ~Busy(w) /\ GoTo(w, "born")  BY <1>3 DEF Connected, At, Busy
  <2>2. WorkersTyped'  BY <1>0, <2>1, GoesTo
  <2> QED  BY <1>3, <2>2 DEF Connected, TypeOK, WorkersTyped
<1>4. ASSUME NEW w \in Workers, Begins(w) PROVE TypeOK'
  <2>1. WorkersTyped'  BY <1>0, <1>4, LoopsOrEnds DEF Begins
  <2> QED  BY <1>4, <2>1 DEF Begins, TypeOK, WorkersTyped
<1>5. ASSUME NEW w \in Workers, GetTimesOut(w) PROVE TypeOK'
  <2>1. WorkersTyped'  BY <1>0, <1>5, LoopsOrEnds DEF GetTimesOut
  <2> QED  BY <1>5, <2>1 DEF GetTimesOut, TypeOK, WorkersTyped
<1>6. ASSUME NEW w \in Workers, Take(w) PROVE TypeOK'
  <2> DEFINE r == [pc |-> "announce", order |-> Head(pending)]
  <2>1. Head(pending) \in Orders /\ Tail(pending) \in Seq(Orders)
    BY <1>6 DEF Take, TypeOK
  <2>2. r \in WorkerStates /\ r.pc \in BusyPlaces /\ r.order # NoOrder
    BY <2>1, OrdersAssumption DEF WorkerStates, BusyPlaces
  <2>3. worker' = [worker EXCEPT ![w] = r]  BY <1>6 DEF Take
  <2> HIDE DEF r
  <2>4. WorkersTyped'  BY <1>0, <2>2, <2>3, WorkerSteps
  <2> QED  BY <1>6, <2>1, <2>4 DEF Take, TypeOK, WorkersTyped
<1>7. ASSUME NEW w \in Workers, Announced(w) PROVE TypeOK'
  <2>1. Busy(w) /\ GoTo(w, "place")  BY <1>7 DEF Announced, At, Busy
  <2>2. WorkersTyped'  BY <1>0, <2>1, GoesTo DEF BusyPlaces
  <2>3. events' \in [Kinds -> 0..QueueSize]  BY <1>7, PublishedType DEF Announced, Kinds
  <2> QED  BY <1>7, <2>2, <2>3 DEF Announced, TypeOK, WorkersTyped
<1>8. ASSUME NEW w \in Workers, NEW outcome \in {"FILLED", "REJECTED"}, Place(w, outcome)
      PROVE  TypeOK'
  <2>1. Busy(w) /\ GoTo(w, "placed")  BY <1>8 DEF Place, At, Busy
  <2>2. WorkersTyped'  BY <1>0, <2>1, GoesTo DEF BusyPlaces
  <2>3. worker[w].order \in Orders
    BY <1>0, <2>1 DEF WorkersTyped, WorkerStates
  <2>4. executed' \in [Orders -> Nat] /\ late' \in [Workers -> Nat]
    BY <1>8, <2>3 DEF Place, TypeOK
  <2>5. /\ status' \in [Orders -> {"NEW", "PENDING", "FILLED", "REJECTED", "CANCELLED"}]
        /\ book' \subseteq Orders
    BY <1>8, <2>3 DEF Place, TypeOK
  <2> QED  BY <1>8, <2>2, <2>4, <2>5 DEF Place, TypeOK, WorkersTyped
<1>9. ASSUME NEW w \in Workers, PlaceRaises(w) PROVE TypeOK'
  <2>1. Busy(w) /\ GoTo(w, "report")  BY <1>9 DEF PlaceRaises, At, Busy
  <2>2. WorkersTyped'  BY <1>0, <2>1, GoesTo DEF BusyPlaces
  <2>3. late' \in [Workers -> Nat]
    BY <1>9 DEF PlaceRaises, TypeOK
  <2>4. status' \in [Orders -> {"NEW", "PENDING", "FILLED", "REJECTED", "CANCELLED"}]
    BY <1>9 DEF PlaceRaises, TypeOK
  <2> QED  BY <1>9, <2>2, <2>3, <2>4 DEF PlaceRaises, TypeOK, WorkersTyped
<1>10. ASSUME NEW w \in Workers, Placed(w) PROVE TypeOK'
  <2>1. WorkersTyped'
    <3>1. CASE status[worker[w].order] = "FILLED"
      <4>1. Busy(w) /\ GoTo(w, "filled")  BY <1>10, <3>1 DEF Placed, At, Busy
      <4> QED  BY <1>0, <4>1, GoesTo DEF BusyPlaces
    <3>2. CASE status[worker[w].order] # "FILLED"
      BY <1>0, <1>10, <3>2, LoopsOrEnds DEF Placed
    <3> QED  BY <3>1, <3>2
  <2>2. recorded' \in [Orders -> Nat]
    <3>1. recorded \in [Orders -> Nat]  BY DEF TypeOK
    <3>2. \/ recorded' = [recorded EXCEPT ![worker[w].order] = @ + 1]
          \/ recorded' = recorded
      BY <1>10 DEF Placed
    <3> QED  BY <3>1, <3>2
  <2>3. events' \in [Kinds -> 0..QueueSize]  BY <1>10, PublishedType DEF Placed, Kinds
  <2> QED  BY <1>10, <2>1, <2>2, <2>3 DEF Placed, TypeOK, WorkersTyped
<1>11. ASSUME NEW w \in Workers, Reported(w) PROVE TypeOK'
  <2>1. WorkersTyped'  BY <1>0, <1>11, LoopsOrEnds DEF Reported
  <2>2. events' \in [Kinds -> 0..QueueSize]  BY <1>11, PublishedType DEF Reported, Kinds
  <2> QED  BY <1>11, <2>1, <2>2 DEF Reported, TypeOK, WorkersTyped
<1>12. CASE Stop
  BY <1>12 DEF Stop, TypeOK, Busy
<1>13. ASSUME NEW o \in Orders, Submit(o) PROVE TypeOK'
  BY <1>13 DEF Submit, TypeOK, Busy
<1>14. ASSUME NEW o \in Orders, Cancel(o) PROVE TypeOK'
  BY <1>14 DEF Cancel, TypeOK, Busy
<1>15. ASSUME NEW k \in Kinds, Handled(k) PROVE TypeOK'
  <2>1. events' \in [Kinds -> 0..QueueSize]
    <3>1. ASSUME NEW n \in 0..QueueSize, n > 0 PROVE n - 1 \in 0..QueueSize
      BY <3>1, QueueSizeAssumption
    <3> QED  BY <1>15, <3>1 DEF Handled, TypeOK
  <2> QED  BY <1>15, <2>1 DEF Handled, TypeOK, Busy
<1> QED  BY <1>1, <1>2, <1>3, <1>4, <1>5, <1>6, <1>7, <1>8, <1>9, <1>10, <1>11, <1>12,
            <1>13, <1>14, <1>15 DEF Next, Work

(* Every variable keeps its type. *)
THEOREM TypeCorrect == Spec => []TypeOK
<1> QED  BY TypeInit, TypeNext, PTL DEF Spec

-----------------------------------------------------------------------------
(* Safety.  First the steps of a worker that holds no order. *)
LEMMA IdleWorkerSteps ==
  ASSUME IInv, TypeOK', NEW w \in Workers, ~Busy(w), ~Busy(w)',
         UNCHANGED <<pending, status, book, executed, recorded, late>>,
         \A v \in Workers \ {w} : worker'[v] = worker[v],
         ~running' => ~running /\ (late[w] = 1 => worker'[w].pc = "ended")
  PROVE  IInv'
<1>1. /\ TypeOK /\ NoOrderLost /\ FillsAreRecorded /\ OrderFacts /\ WorkerFacts /\ LateFacts
  BY DEF IInv
<1>2. \A v \in Workers : /\ Busy(v)' => v # w /\ worker'[v] = worker[v] /\ Busy(v)
                         /\ Busy(v) => v # w /\ worker'[v] = worker[v]
  BY DEF Busy
<1>3. \A v \in Workers : /\ Undecided(v)' => Undecided(v) /\ worker'[v] = worker[v]
                         /\ Undecided(v) => Undecided(v)' /\ worker'[v] = worker[v]
  BY <1>2 DEF Busy, Undecided
<1>4. \A v \in Workers : /\ At(v, "placed")' => At(v, "placed") /\ worker'[v] = worker[v]
                         /\ At(v, "placed") => At(v, "placed")' /\ worker'[v] = worker[v]
  BY <1>2 DEF Busy, At
<1>5. NoOrderLost'
  BY <1>1, <1>2, <1>3 DEF NoOrderLost, Waiting
<1>6. FillsAreRecorded'
  BY <1>1, <1>4 DEF FillsAreRecorded
<1>7. OrderFacts'  BY <1>1 DEF OrderFacts
<1>8. WorkerFacts'  BY <1>1, <1>2, <1>4 DEF WorkerFacts
<1>9. LateFacts'
  <2> SUFFICES ASSUME NEW v \in Workers
               PROVE  /\ late[v] <= 1
                      /\ ~running' /\ late[v] = 1 =>
                           worker'[v].pc \in {"placed", "filled", "report", "ended"}
    BY DEF LateFacts
  <2>1. CASE v = w  BY <1>1, <2>1 DEF LateFacts
  <2>2. CASE v # w  BY <1>1, <2>2 DEF LateFacts
  <2> QED  BY <2>1, <2>2
<1> QED  BY <1>5, <1>6, <1>7, <1>8, <1>9 DEF IInv

(* A worker takes the first order of the queue, which nobody else holds. *)
LEMMA TakesOrder ==
  ASSUME IInv, TypeOK', NEW w \in Workers, Take(w)
  PROVE  IInv'
<1> DEFINE o == Head(pending)
<1>1. /\ TypeOK /\ NoOrderLost /\ FillsAreRecorded /\ OrderFacts /\ WorkerFacts /\ LateFacts
  BY DEF IInv
<1>2. /\ o \in Orders /\ o \in Waiting /\ IsInjective(pending') /\ Waiting' = Waiting \ {o}
  BY <1>1, TailFacts DEF Take, TypeOK, NoOrderLost, Waiting
<1>3. /\ worker'[w].pc = "announce" /\ worker'[w].order = o /\ worker[w].pc = "get"
      /\ \A v \in Workers \ {w} : worker'[v] = worker[v]
  BY <1>1 DEF Take, TypeOK, At
<1>4. UNCHANGED <<running, status, book, executed, recorded, late>>  BY DEF Take
<1> HIDE DEF o
<1>5. \A v \in Workers : Busy(v) => v # w /\ worker[v].order # o
  BY <1>1, <1>2, <1>3 DEF NoOrderLost, Busy
<1>6. \A v \in Workers : /\ v # w => (Busy(v)' <=> Busy(v)) /\ (Undecided(v)' <=> Undecided(v))
                         /\ v = w => Busy(v)' /\ Undecided(v)' /\ ~Undecided(v)
                         /\ At(v, "placed")' <=> At(v, "placed")
  BY <1>3 DEF Busy, Undecided, At
<1>7. status[o] = "PENDING"  BY <1>1, <1>2 DEF NoOrderLost
<1>8. NoOrderLost'
  <2>1. \A u, v \in Workers : u # v /\ Busy(u)' /\ Busy(v)' => worker'[u].order # worker'[v].order
    BY <1>1, <1>3, <1>5, <1>6 DEF NoOrderLost
  <2>2. \A v \in Workers : Busy(v)' => worker'[v].order \notin Waiting'
    BY <1>1, <1>2, <1>3, <1>6 DEF NoOrderLost
  <2>3. ASSUME NEW n \in Orders
        PROVE  status'[n] = "PENDING" <=>
                 n \in Waiting' \/ \E v \in Workers : Undecided(v)' /\ worker'[v].order = n
    <3>1. CASE n = o  BY <1>3, <1>4, <1>6, <1>7, <3>1
    <3>2. CASE n # o
      <4>1. n \in Waiting' <=> n \in Waiting  BY <1>2, <3>2
      <4>2. \A v \in Workers : (Undecided(v)' /\ worker'[v].order = n)
                             <=> (Undecided(v) /\ worker[v].order = n)
        BY <1>3, <1>6, <3>2
      <4> QED  BY <1>1, <1>4, <4>1, <4>2 DEF NoOrderLost
    <3> QED  BY <3>1, <3>2
  <2> QED  BY <1>2, <2>1, <2>2, <2>3 DEF NoOrderLost
<1>9. FillsAreRecorded'
  <2>1. \A v \in Workers : At(v, "placed") => worker'[v].order = worker[v].order
    BY <1>3 DEF At
  <2> QED  BY <1>1, <1>4, <1>6, <2>1 DEF FillsAreRecorded
<1>10. OrderFacts'  BY <1>1, <1>4 DEF OrderFacts
<1>11. WorkerFacts'
  <2>1. \A v \in Workers : Busy(v)' => status'[worker'[v].order] # "NEW"
    BY <1>1, <1>3, <1>4, <1>6, <1>7 DEF WorkerFacts
  <2>2. \A v \in Workers : At(v, "placed")' => recorded'[worker'[v].order] = 0
    BY <1>1, <1>3, <1>4, <1>6 DEF WorkerFacts, At
  <2> QED  BY <2>1, <2>2 DEF WorkerFacts
<1>12. LateFacts'
  <2>1. \A v \in Workers : late[v] = 1 /\ ~running => v # w
    BY <1>1, <1>3 DEF LateFacts
  <2> QED  BY <1>1, <1>3, <1>4, <2>1 DEF LateFacts
<1> QED  BY <1>8, <1>9, <1>10, <1>11, <1>12 DEF IInv

(* It announces the order: only its place in the loop changes. *)
LEMMA AnnouncesOrder ==
  ASSUME IInv, TypeOK', NEW w \in Workers, Announced(w)
  PROVE  IInv'
<1>1. /\ TypeOK /\ NoOrderLost /\ FillsAreRecorded /\ OrderFacts /\ WorkerFacts /\ LateFacts
  BY DEF IInv
<1>2. /\ worker[w].pc = "announce" /\ worker'[w].pc = "place"
      /\ \A v \in Workers \ {w} : worker'[v] = worker[v]
      /\ \A v \in Workers : worker'[v].order = worker[v].order
  BY <1>1 DEF Announced, GoTo, At, TypeOK, WorkerStates
<1>3. UNCHANGED <<running, pending, status, book, executed, recorded, late>>
  BY DEF Announced
<1>4. \A v \in Workers : /\ (Busy(v)' <=> Busy(v)) /\ (Undecided(v)' <=> Undecided(v))
                         /\ At(v, "placed")' <=> At(v, "placed")
  BY <1>2 DEF Busy, Undecided, At
<1>5. NoOrderLost'  BY <1>1, <1>2, <1>3, <1>4 DEF NoOrderLost, Waiting
<1>6. FillsAreRecorded'  BY <1>1, <1>2, <1>3, <1>4 DEF FillsAreRecorded
<1>7. OrderFacts'  BY <1>1, <1>3 DEF OrderFacts
<1>8. WorkerFacts'  BY <1>1, <1>2, <1>3, <1>4 DEF WorkerFacts
<1>9. LateFacts'
  <2>1. \A v \in Workers : late[v] = 1 /\ ~running => v # w
    BY <1>1, <1>2 DEF LateFacts
  <2> QED  BY <1>1, <1>2, <1>3, <2>1 DEF LateFacts
<1> QED  BY <1>5, <1>6, <1>7, <1>8, <1>9 DEF IInv

(* The broker decides about a pending order: executed once or not at all. *)
LEMMA OrderIsDecided ==
  ASSUME IInv, TypeOK', NEW w \in Workers, worker[w].pc = "place", NEW o \in Orders,
         worker[w].order = o, NEW place \in {"placed", "report"}, GoTo(w, place),
         NEW outcome \in {"FILLED", "REJECTED"}, status' = [status EXCEPT ![o] = outcome],
         executed' = [executed EXCEPT ![o] = @ + IF outcome = "FILLED" THEN 1 ELSE 0],
         outcome = "FILLED" => place = "placed",
         book' \in {book, book \union {o}}, UNCHANGED <<running, pending, recorded>>,
         late' = IF running THEN late ELSE [late EXCEPT ![w] = @ + 1]
  PROVE  IInv'
<1>1. /\ TypeOK /\ NoOrderLost /\ FillsAreRecorded /\ OrderFacts /\ WorkerFacts /\ LateFacts
  BY DEF IInv
<1>2. /\ worker'[w].pc = place /\ worker'[w].order = o
      /\ \A v \in Workers \ {w} : worker'[v] = worker[v]
      /\ \A v \in Workers : worker'[v].order = worker[v].order
  BY <1>1 DEF GoTo, TypeOK, WorkerStates
<1>3. /\ \A v \in Workers : Busy(v)' <=> Busy(v)
      /\ \A v \in Workers \ {w} : Undecided(v)' <=> Undecided(v)
      /\ \A v \in Workers \ {w} : At(v, "placed")' <=> At(v, "placed")
      /\ Busy(w) /\ Undecided(w) /\ ~Undecided(w)' /\ ~At(w, "placed")
  BY <1>2 DEF Busy, Undecided, At
<1>4. /\ o \notin Waiting /\ \A v \in Workers \ {w} : Busy(v) => worker[v].order # o
      /\ status[o] = "PENDING"
  BY <1>1, <1>3 DEF NoOrderLost
<1>5. executed[o] = 0 /\ recorded[o] = 0 /\ o \notin book
  BY <1>1, <1>4 DEF OrderFacts
<1>6. /\ status'[o] = outcome /\ \A n \in Orders \ {o} : status'[n] = status[n]
      /\ \A n \in Orders \ {o} : executed'[n] = executed[n]
  BY <1>1 DEF TypeOK
<1>7. executed'[o] = IF outcome = "FILLED" THEN 1 ELSE 0
  <2>1. executed'[o] = executed[o] + IF outcome = "FILLED" THEN 1 ELSE 0
    BY <1>1 DEF TypeOK
  <2> QED  BY <1>5, <2>1
<1>8. NoOrderLost'
  <2>1. Waiting' = Waiting  BY DEF Waiting
  <2>2. ASSUME NEW n \in Orders
        PROVE  status'[n] = "PENDING" <=>
                 n \in Waiting' \/ \E v \in Workers : Undecided(v)' /\ worker'[v].order = n
    <3>1. CASE n = o
      <4>1. \A v \in Workers : Undecided(v)' => worker'[v].order # o
        BY <1>2, <1>3, <1>4 DEF Busy, Undecided
      <4> QED  BY <1>4, <1>6, <2>1, <3>1, <4>1
    <3>2. CASE n # o
      <4>1. \A v \in Workers : (Undecided(v)' /\ worker'[v].order = n)
                             <=> (Undecided(v) /\ worker[v].order = n)
        <5> SUFFICES ASSUME NEW v \in Workers
                     PROVE  (Undecided(v)' /\ worker'[v].order = n)
                              <=> (Undecided(v) /\ worker[v].order = n)
          OBVIOUS
        <5>1. CASE v = w  BY <1>2, <3>2, <5>1
        <5>2. CASE v # w  BY <1>2, <1>3, <5>2
        <5> QED  BY <5>1, <5>2
      <4> QED  BY <1>1, <1>6, <2>1, <3>2, <4>1 DEF NoOrderLost
    <3> QED  BY <3>1, <3>2
  <2>3. /\ IsInjective(pending')
        /\ \A u, v \in Workers : u # v /\ Busy(u)' /\ Busy(v)' => worker'[u].order # worker'[v].order
        /\ \A v \in Workers : Busy(v)' => worker'[v].order \notin Waiting'
    BY <1>1, <1>2, <1>3, <2>1 DEF NoOrderLost
  <2> QED  BY <2>2, <2>3 DEF NoOrderLost
<1>9. FillsAreRecorded'
  <2> SUFFICES ASSUME NEW n \in Orders
               PROVE  /\ recorded'[n] <= executed'[n] /\ executed'[n] <= 1
                      /\ recorded'[n] < executed'[n] =>
                           \/ status'[n] = "CANCELLED"
                           \/ \E v \in Workers : At(v, "placed")' /\ worker'[v].order = n
    BY DEF FillsAreRecorded
  <2>1. CASE n = o
    <3>1. recorded'[o] = 0 /\ executed'[o] \in {0, 1}  BY <1>5, <1>7
    <3>2. executed'[o] = 1 => At(w, "placed")'  BY <1>2, <1>7 DEF At
    <3> QED  BY <1>2, <2>1, <3>1, <3>2
  <2>2. CASE n # o
    <3>1. executed'[n] = executed[n] /\ recorded'[n] = recorded[n] /\ status'[n] = status[n]
      BY <1>6, <2>2
    <3>2. \A v \in Workers : At(v, "placed") /\ worker[v].order = n =>
                             At(v, "placed")' /\ worker'[v].order = n
      BY <1>2, <1>3
    <3> QED  BY <1>1, <3>1, <3>2 DEF FillsAreRecorded
  <2> QED  BY <2>1, <2>2
<1>10. OrderFacts'
  <2> SUFFICES ASSUME NEW n \in Orders
               PROVE  /\ status'[n] \in {"NEW", "PENDING"} =>
                           executed'[n] = 0 /\ recorded'[n] = 0 /\ n \notin book'
                      /\ executed'[n] > 0 => status'[n] \in {"FILLED", "CANCELLED"}
                      /\ status'[n] = "FILLED" => executed'[n] = 1
    BY DEF OrderFacts
  <2>1. CASE n = o  BY <1>6, <1>7, <2>1
  <2>2. CASE n # o
    <3>1. /\ executed'[n] = executed[n] /\ recorded'[n] = recorded[n] /\ status'[n] = status[n]
          /\ n \in book' <=> n \in book
      BY <1>6, <2>2
    <3> QED  BY <1>1, <3>1 DEF OrderFacts
  <2> QED  BY <2>1, <2>2
<1>11. WorkerFacts'
  <2> SUFFICES ASSUME NEW v \in Workers
               PROVE  /\ Busy(v)' => status'[worker'[v].order] # "NEW"
                      /\ At(v, "placed")' => recorded'[worker'[v].order] = 0
    BY DEF WorkerFacts
  <2>1. CASE v = w  BY <1>2, <1>5, <1>6, <2>1
  <2>2. CASE v # w
    <3>1. Busy(v) => worker[v].order \in Orders \ {o}
      BY <1>1, <1>4, <2>2 DEF TypeOK, WorkerStates
    <3>2. Busy(v)' => status'[worker'[v].order] # "NEW"
      BY <1>1, <1>2, <1>3, <1>6, <2>2, <3>1 DEF WorkerFacts
    <3>3. At(v, "placed")' => At(v, "placed") /\ worker'[v].order = worker[v].order
      BY <1>2, <1>3, <2>2
    <3>4. At(v, "placed")' => recorded'[worker'[v].order] = 0
      BY <1>1, <3>3 DEF WorkerFacts
    <3> QED  BY <3>2, <3>4
  <2> QED  BY <2>1, <2>2
<1>12. LateFacts'
  <2> SUFFICES ASSUME NEW v \in Workers
               PROVE  /\ late'[v] <= 1
                      /\ ~running' /\ late'[v] = 1 =>
                           worker'[v].pc \in {"placed", "filled", "report", "ended"}
    BY DEF LateFacts
  <2>1. CASE running  BY <1>1, <2>1 DEF LateFacts
  <2>2. CASE ~running /\ v = w
    <3>1. late[w] \in Nat /\ late[w] <= 1 /\ late[w] # 1 /\ late'[w] = late[w] + 1
      BY <1>1, <2>2 DEF LateFacts, TypeOK
    <3> QED  BY <1>2, <2>2, <3>1
  <2>3. CASE ~running /\ v # w
    <3>1. late'[v] = late[v] /\ worker'[v] = worker[v]  BY <1>1, <1>2, <2>3 DEF TypeOK
    <3> QED  BY <1>1, <3>1 DEF LateFacts
  <2> QED  BY <2>1, <2>2, <2>3
<1> QED  BY <1>8, <1>9, <1>10, <1>11, <1>12 DEF IInv

(* It is done with the order, or goes on to the event about its fill, which *)
(* it has recorded.                                                         *)
LEMMA OrderIsReported ==
  ASSUME IInv, TypeOK', NEW w \in Workers,
         worker[w].pc \in {"placed", "filled", "report"}, NEW o \in Orders,
         worker[w].order = o, worker'[w].order = o \/ ~Busy(w)',
         worker'[w].pc \in {"filled", "get", "ended"}, worker'[w].pc = "get" => running,
         \A v \in Workers \ {w} : worker'[v] = worker[v],
         recorded' = IF worker[w].pc = "placed" /\ status[o] = "FILLED"
                     THEN [recorded EXCEPT ![o] = @ + 1] ELSE recorded,
         UNCHANGED <<running, pending, status, book, executed, late>>
  PROVE  IInv'
<1>1. /\ TypeOK /\ NoOrderLost /\ FillsAreRecorded /\ OrderFacts /\ WorkerFacts /\ LateFacts
  BY DEF IInv
<1>2. /\ \A v \in Workers \ {w} : Busy(v)' <=> Busy(v)
      /\ \A v \in Workers \ {w} : Undecided(v)' <=> Undecided(v)
      /\ \A v \in Workers \ {w} : At(v, "placed")' <=> At(v, "placed")
      /\ Busy(w) /\ ~Undecided(w) /\ ~Undecided(w)' /\ ~At(w, "placed")'
  BY DEF Busy, Undecided, At
<1>3. NoOrderLost'
  <2>1. Waiting' = Waiting  BY DEF Waiting
  <2>2. \A u, v \in Workers : u # v /\ Busy(u)' /\ Busy(v)' => worker'[u].order # worker'[v].order
    BY <1>1, <1>2 DEF NoOrderLost
  <2>3. \A v \in Workers : Busy(v)' => worker'[v].order \notin Waiting'
    BY <1>1, <1>2, <2>1 DEF NoOrderLost
  <2>4. \A n \in Orders, v \in Workers : (Undecided(v)' /\ worker'[v].order = n)
                                      <=> (Undecided(v) /\ worker[v].order = n)
    BY <1>2
  <2>5. \A n \in Orders : status'[n] = "PENDING" <=>
          n \in Waiting' \/ \E v \in Workers : Undecided(v)' /\ worker'[v].order = n
    BY <1>1, <2>1, <2>4 DEF NoOrderLost
  <2> QED  BY <1>1, <2>2, <2>3, <2>5 DEF NoOrderLost
<1>4. \A v \in Workers \ {w} : Busy(v) => worker[v].order # o
  BY <1>1, <1>2 DEF NoOrderLost
<1>5. \A n \in Orders \ {o} : recorded'[n] = recorded[n]
  BY <1>1 DEF TypeOK
<1>6. recorded[o] \in Nat /\ executed[o] \in Nat /\ recorded[o] <= executed[o] /\ executed[o] <= 1
  BY <1>1 DEF TypeOK, FillsAreRecorded
<1>7. status[o] # "NEW" /\ status[o] # "PENDING"
  <2>1. status[o] # "NEW"  BY <1>1, <1>2 DEF WorkerFacts
  <2>2. o \notin Waiting /\ \A v \in Workers : ~(Undecided(v) /\ worker[v].order = o)
    BY <1>1, <1>2, <1>4 DEF NoOrderLost, Undecided, Busy
  <2> QED  BY <1>1, <2>1, <2>2 DEF NoOrderLost
<1>8. /\ recorded'[o] <= executed[o]
      /\ recorded'[o] < executed[o] => status[o] = "CANCELLED"
  <2>1. CASE worker[w].pc = "placed"
    <3>1. recorded[o] = 0  BY <1>1, <2>1 DEF WorkerFacts, At
    <3>2. CASE status[o] = "FILLED"
      <4>1. recorded'[o] = 1 /\ executed[o] = 1
        BY <1>1, <2>1, <3>1, <3>2 DEF TypeOK, OrderFacts
      <4> QED  BY <4>1
    <3>3. CASE status[o] # "FILLED"
      <4>1. recorded'[o] = 0  BY <3>1, <3>3
      <4>2. executed[o] > 0 => status[o] = "CANCELLED"  BY <1>1, <3>3 DEF OrderFacts
      <4> QED  BY <1>6, <4>1, <4>2
    <3> QED  BY <3>2, <3>3
  <2>2. CASE worker[w].pc # "placed"
    <3>1. recorded' = recorded  BY <2>2
    <3>2. \A v \in Workers : ~(At(v, "placed") /\ worker[v].order = o)
      BY <1>4, <2>2 DEF At, Busy
    <3> QED  BY <1>1, <3>1, <3>2 DEF FillsAreRecorded
  <2> QED  BY <2>1, <2>2
<1>9. FillsAreRecorded'
  <2> SUFFICES ASSUME NEW n \in Orders
               PROVE  /\ recorded'[n] <= executed[n] /\ executed[n] <= 1
                      /\ recorded'[n] < executed[n] =>
                           \/ status[n] = "CANCELLED"
                           \/ \E v \in Workers : At(v, "placed")' /\ worker'[v].order = n
    BY DEF FillsAreRecorded
  <2>1. CASE n = o  BY <1>6, <1>8, <2>1
  <2>2. CASE n # o
    <3>1. \A v \in Workers : At(v, "placed") /\ worker[v].order = n =>
                             At(v, "placed")' /\ worker'[v].order = n
      BY <1>2, <2>2
    <3> QED  BY <1>1, <1>5, <2>2, <3>1 DEF FillsAreRecorded
  <2> QED  BY <2>1, <2>2
<1>10. OrderFacts'
  <2> SUFFICES ASSUME NEW n \in Orders, status[n] \in {"NEW", "PENDING"}
               PROVE  recorded'[n] = 0
    BY <1>1 DEF OrderFacts
  <2>1. n # o  BY <1>7
  <2> QED  BY <1>1, <1>5, <2>1 DEF OrderFacts
<1>11. WorkerFacts'
  <2> SUFFICES ASSUME NEW v \in Workers
               PROVE  /\ Busy(v)' => status[worker'[v].order] # "NEW"
                      /\ At(v, "placed")' => recorded'[worker'[v].order] = 0
    BY DEF WorkerFacts
  <2>1. CASE v = w  BY <1>2, <1>7, <2>1
  <2>2. CASE v # w
    <3>1. Busy(v)' => status[worker'[v].order] # "NEW"
      BY <1>1, <1>2, <2>2 DEF WorkerFacts
    <3>2. At(v, "placed")' => At(v, "placed") /\ worker'[v].order \in Orders \ {o}
      BY <1>1, <1>2, <1>4, <2>2, OrdersAssumption DEF TypeOK, WorkerStates, At, Busy
    <3>3. At(v, "placed")' => recorded'[worker'[v].order] = 0
      BY <1>1, <1>5, <2>2, <3>2 DEF WorkerFacts
    <3> QED  BY <3>1, <3>3
  <2> QED  BY <2>1, <2>2
<1>12. LateFacts'
  <2> SUFFICES ASSUME NEW v \in Workers
               PROVE  /\ late[v] <= 1
                      /\ ~running /\ late[v] = 1 =>
                           worker'[v].pc \in {"placed", "filled", "report", "ended"}
    BY DEF LateFacts
  <2>1. CASE v = w  BY <1>1, <2>1 DEF LateFacts
  <2>2. CASE v # w  BY <1>1, <2>2 DEF LateFacts
  <2> QED  BY <2>1, <2>2
<1> QED  BY <1>3, <1>9, <1>10, <1>11, <1>12 DEF IInv

LEMMA SubmitsOrder ==
  ASSUME IInv, TypeOK', NEW o \in Orders, Submit(o)
  PROVE  IInv'
<1>1. /\ TypeOK /\ NoOrderLost /\ FillsAreRecorded /\ OrderFacts /\ WorkerFacts /\ LateFacts
  BY DEF IInv
<1>2. /\ status[o] = "NEW" /\ status'[o] = "PENDING" /\ pending' = Append(pending, o)
      /\ \A n \in Orders \ {o} : status'[n] = status[n]
      /\ UNCHANGED <<running, worker, book, executed, recorded, events, late>>
  BY <1>1 DEF Submit, TypeOK
<1>3. o \notin Waiting /\ \A v \in Workers : Busy(v) => worker[v].order # o
  BY <1>1, <1>2 DEF NoOrderLost, WorkerFacts
<1>4. IsInjective(pending') /\ Waiting' = Waiting \union {o}
  BY <1>1, <1>2, <1>3, AppendFacts DEF TypeOK, NoOrderLost, Waiting
<1>5. /\ \A v \in Workers : Busy(v)' <=> Busy(v)
      /\ \A v \in Workers : Undecided(v)' <=> Undecided(v)
      /\ \A v \in Workers : At(v, "placed")' <=> At(v, "placed")
  BY <1>2 DEF Busy, Undecided, At
<1>6. NoOrderLost'
  <2>1. /\ \A u, v \in Workers : u # v /\ Busy(u)' /\ Busy(v)' => worker'[u].order # worker'[v].order
        /\ \A v \in Workers : Busy(v)' => worker'[v].order \notin Waiting'
    BY <1>1, <1>2, <1>3, <1>4, <1>5 DEF NoOrderLost
  <2>2. \A n \in Orders : status'[n] = "PENDING" <=>
          n \in Waiting' \/ \E v \in Workers : Undecided(v)' /\ worker'[v].order = n
    BY <1>1, <1>2, <1>4, <1>5 DEF NoOrderLost
  <2> QED  BY <1>4, <2>1, <2>2 DEF NoOrderLost
<1>7. FillsAreRecorded'
  <2>1. recorded[o] = 0 /\ executed[o] = 0  BY <1>1, <1>2 DEF OrderFacts
  <2> QED  BY <1>1, <1>2, <1>5, <2>1 DEF FillsAreRecorded
<1>8. OrderFacts'  BY <1>1, <1>2 DEF OrderFacts
<1>9. WorkerFacts'
  <2>1. \A v \in Workers : Busy(v) => worker[v].order \in Orders
    BY <1>1 DEF TypeOK, WorkerStates
  <2> QED  BY <1>1, <1>2, <1>3, <1>5, <2>1 DEF WorkerFacts
<1>10. LateFacts'  BY <1>1, <1>2 DEF LateFacts
<1> QED  BY <1>6, <1>7, <1>8, <1>9, <1>10 DEF IInv

LEMMA CancelsOrder ==
  ASSUME IInv, TypeOK', NEW o \in Orders, Cancel(o)
  PROVE  IInv'
<1>1. /\ TypeOK /\ NoOrderLost /\ FillsAreRecorded /\ OrderFacts /\ WorkerFacts /\ LateFacts
  BY DEF IInv
<1>2. /\ o \in book /\ status'[o] = "CANCELLED"
      /\ \A n \in Orders \ {o} : status'[n] = status[n]
      /\ UNCHANGED <<running, worker, pending, book, executed, recorded, events, late>>
  BY <1>1 DEF Cancel, TypeOK
<1>3. status[o] # "NEW" /\ status[o] # "PENDING"  BY <1>1, <1>2 DEF OrderFacts
<1>4. /\ \A v \in Workers : Busy(v)' <=> Busy(v)
      /\ \A v \in Workers : Undecided(v)' <=> Undecided(v)
      /\ \A v \in Workers : At(v, "placed")' <=> At(v, "placed")
      /\ Waiting' = Waiting
  BY <1>2 DEF Busy, Undecided, At, Waiting
<1>5. NoOrderLost'
  BY <1>1, <1>2, <1>3, <1>4 DEF NoOrderLost
<1>6. FillsAreRecorded'
  BY <1>1, <1>2, <1>4 DEF FillsAreRecorded
<1>7. OrderFacts'  BY <1>1, <1>2 DEF OrderFacts
<1>8. WorkerFacts'
  <2>1. \A v \in Workers : Busy(v) => worker[v].order \in Orders
    BY <1>1 DEF TypeOK, WorkerStates
  <2> QED  BY <1>1, <1>2, <1>4, <2>1 DEF WorkerFacts
<1>9. LateFacts'  BY <1>1, <1>2 DEF LateFacts
<1> QED  BY <1>5, <1>6, <1>7, <1>8, <1>9 DEF IInv

(* A step that leaves orders and workers alone, perhaps a stop. *)
LEMMA NobodyMoves ==
  ASSUME IInv, TypeOK', UNCHANGED <<worker, pending, status, book, executed, recorded>>,
         \/ UNCHANGED <<running, late>>
         \/ late' = [w \in Workers |-> 0]
  PROVE  IInv'
<1>1. /\ TypeOK /\ NoOrderLost /\ FillsAreRecorded /\ OrderFacts /\ WorkerFacts /\ LateFacts
  BY DEF IInv
<1>2. NoOrderLost'  BY <1>1 DEF NoOrderLost, Waiting, Busy, Undecided
<1>3. FillsAreRecorded'  BY <1>1 DEF FillsAreRecorded, At
<1>4. OrderFacts' /\ WorkerFacts'  BY <1>1 DEF OrderFacts, WorkerFacts, Busy, At
<1>5. LateFacts'  BY <1>1 DEF LateFacts
<1> QED  BY <1>2, <1>3, <1>4, <1>5 DEF IInv

LEMMA WorkKeepsIInv ==
  ASSUME IInv, TypeOK', NEW w \in Workers, Start(w) \/ Work(w)
  PROVE  IInv'
<1>0. /\ TypeOK /\ LateFacts /\ WorkersTyped
      /\ Busy(w) => worker[w].order \in Orders
  BY DEF IInv, TypeOK, WorkersTyped, WorkerStates
<1>1. CASE Start(w)
  <2>1. ~Busy(w) /\ GoTo(w, "connecting")  BY <1>1 DEF Start, At, Busy
  <2>2. ~Busy(w)' /\ \A v \in Workers \ {w} : worker'[v] = worker[v]
    BY <1>0, <2>1, GoesTo
  <2>3. running' = TRUE /\ UNCHANGED <<pending, status, book, executed, recorded, late>>
    BY <1>1 DEF Start
  <2> QED  BY <2>1, <2>2, <2>3, IdleWorkerSteps
<1>2. CASE Connected(w)
  <2>1. ~Busy(w) /\ GoTo(w, "born") /\ worker[w].pc = "connecting"
    BY <1>2 DEF Connected, At, Busy
  <2>2. ~Busy(w)' /\ \A v \in Workers \ {w} : worker'[v] = worker[v]
    BY <1>0, <2>1, GoesTo
  <2>3. UNCHANGED <<running, pending, status, book, executed, recorded, late>>
    BY <1>2 DEF Connected
  <2>4. ~running => late[w] # 1  BY <1>0, <2>1 DEF LateFacts
  <2> QED  BY <2>1, <2>2, <2>3, <2>4, IdleWorkerSteps
<1>3. CASE Begins(w) \/ GetTimesOut(w)
  <2>1. ~Busy(w) /\ worker[w].pc \in {"born", "get"}
    BY <1>3 DEF Begins, GetTimesOut, At, Busy
  <2>2. ~Busy(w)' /\ \A v \in Workers \ {w} : worker'[v] = worker[v]
    BY <1>0, <1>3, LoopsOrEnds DEF Begins, GetTimesOut
  <2>3. UNCHANGED <<running, pending, status, book, executed, recorded, late>>
    BY <1>3 DEF Begins, GetTimesOut
  <2>4. ~running => late[w] # 1  BY <1>0, <2>1 DEF LateFacts
  <2> QED  BY <2>1, <2>2, <2>3, <2>4, IdleWorkerSteps
<1>4. CASE Take(w)  BY <1>4, TakesOrder
<1>5. CASE Announced(w)  BY <1>5, AnnouncesOrder
<1>6. ASSUME NEW outcome \in {"FILLED", "REJECTED"}, Place(w, outcome)
      PROVE  IInv'
  <2>1. worker[w].pc = "place" /\ worker[w].order \in Orders
    BY <1>0, <1>6 DEF Place, At, Busy
  <2>2. /\ GoTo(w, "placed") /\ status' = [status EXCEPT ![worker[w].order] = outcome]
        /\ executed' = [executed EXCEPT ![worker[w].order] =
                          @ + IF outcome = "FILLED" THEN 1 ELSE 0]
        /\ book' = book \union {worker[w].order}
        /\ late' = IF running THEN late ELSE [late EXCEPT ![w] = @ + 1]
        /\ UNCHANGED <<running, pending, recorded>>
    BY <1>6 DEF Place
  <2> QED  BY <2>1, <2>2, OrderIsDecided
<1>7. CASE PlaceRaises(w)
  <2> DEFINE o == worker[w].order
  <2>1. worker[w].pc = "place" /\ o \in Orders
    BY <1>0, <1>7 DEF PlaceRaises, At, Busy
  <2>2. /\ GoTo(w, "report") /\ status' = [status EXCEPT ![o] = "REJECTED"]
        /\ executed' = executed /\ book' = book
        /\ late' = IF running THEN late ELSE [late EXCEPT ![w] = @ + 1]
        /\ UNCHANGED <<running, pending, recorded>>
    BY <1>7 DEF PlaceRaises
  <2>3. executed' = [executed EXCEPT ![o] = @ + IF "REJECTED" = "FILLED" THEN 1 ELSE 0]
    <3>1. executed \in [Orders -> Nat]  BY <1>0 DEF TypeOK
    <3>2. executed = [executed EXCEPT ![o] = @ + 0]  BY <2>1, <3>1
    <3> QED  BY <2>2, <3>2
  <2> QED  BY <2>1, <2>2, <2>3, OrderIsDecided
<1>8. CASE Placed(w)
  <2> DEFINE o == worker[w].order
  <2>1. worker[w].pc = "placed" /\ o \in Orders /\ Busy(w)
    BY <1>0, <1>8 DEF Placed, At, Busy
  <2>2. UNCHANGED <<running, pending, status, book, executed, late>>
    BY <1>8 DEF Placed
  <2>3. CASE status[o] = "FILLED"
    <3>1. recorded' = [recorded EXCEPT ![o] = @ + 1] /\ GoTo(w, "filled")
      BY <1>8, <2>3 DEF Placed
    <3>2. /\ worker'[w].pc = "filled" /\ worker'[w].order = o
          /\ \A v \in Workers \ {w} : worker'[v] = worker[v]
      BY <1>0, <2>1, <3>1, GoesTo DEF BusyPlaces
    <3> QED  BY <2>1, <2>2, <2>3, <3>1, <3>2, OrderIsReported
  <2>4. CASE status[o] # "FILLED"
    <3>1. recorded' = recorded /\ worker' = [worker EXCEPT ![w] = NextRound]
      BY <1>8, <2>4 DEF Placed
    <3>2. /\ ~Busy(w)' /\ worker'[w].pc \in {"get", "ended"}
          /\ worker'[w].pc = "get" => running
          /\ \A v \in Workers \ {w} : worker'[v] = worker[v]
      BY <1>0, <3>1, LoopsOrEnds
    <3> QED  BY <2>1, <2>2, <2>4, <3>1, <3>2, OrderIsReported
  <2> QED  BY <2>3, <2>4
<1>9. CASE Reported(w)
  <2>1. worker[w].pc \in {"filled", "report"} /\ worker[w].order \in Orders
    BY <1>0, <1>9 DEF Reported, At, Busy
  <2>2. /\ worker' = [worker EXCEPT ![w] = NextRound]
        /\ UNCHANGED <<running, pending, status, book, executed, recorded, late>>
    BY <1>9 DEF Reported
  <2>3. /\ ~Busy(w)' /\ worker'[w].pc \in {"get", "ended"}
        /\ worker'[w].pc = "get" => running
        /\ \A v \in Workers \ {w} : worker'[v] = worker[v]
    BY <1>0, <2>2, LoopsOrEnds
  <2> QED  BY <2>1, <2>2, <2>3, OrderIsReported
<1> QED  BY <1>1, <1>2, <1>3, <1>4, <1>5, <1>6, <1>7, <1>8, <1>9 DEF Work

LEMMA IInvNext == IInv /\ [Next]_vars => IInv'
<1> SUFFICES ASSUME IInv, [Next]_vars PROVE IInv'  OBVIOUS
<1>0. TypeOK'  BY TypeNext DEF IInv
<1>1. CASE UNCHANGED vars  BY <1>0, <1>1, NobodyMoves DEF vars
<1>2. ASSUME NEW w \in Workers, Start(w) \/ Work(w) PROVE IInv'
  BY <1>0, <1>2, WorkKeepsIInv
<1>3. CASE Stop  BY <1>0, <1>3, NobodyMoves DEF Stop
<1>4. ASSUME NEW o \in Orders, Submit(o) \/ Cancel(o) PROVE IInv'
  BY <1>0, <1>4, SubmitsOrder, CancelsOrder
<1>5. ASSUME NEW k \in Kinds, Handled(k) PROVE IInv'
  BY <1>0, <1>5, NobodyMoves DEF Handled
<1> QED  BY <1>1, <1>2, <1>3, <1>4, <1>5 DEF Next

LEMMA IInvInit == Init => IInv
<1> SUFFICES ASSUME Init PROVE IInv  OBVIOUS
<1>1. TypeOK  BY TypeInit
<1>2. \A w \in Workers : ~Busy(w) /\ ~Undecided(w) /\ ~At(w, "placed")
  BY DEF Init, Unborn, Busy, Undecided, At
<1>3. pending = <<>> /\ Waiting = {} /\ IsInjective(pending)
  BY DEF Init, Waiting, ToSet, IsInjective
<1>4. NoOrderLost  BY <1>2, <1>3 DEF Init, NoOrderLost
<1>5. FillsAreRecorded  BY DEF Init, FillsAreRecorded
<1>6. OrderFacts  BY DEF Init, OrderFacts
<1>7. WorkerFacts  BY <1>2 DEF WorkerFacts
<1>8. LateFacts  BY DEF Init, LateFacts
<1> QED  BY <1>1, <1>4, <1>5, <1>6, <1>7, <1>8 DEF IInv

(* No order is lost or worked on twice, however many workers there are. *)
THEOREM NothingIsLost == Spec => []NoOrderLost
<1>1. IInv => NoOrderLost  BY DEF IInv
<1> QED  BY IInvInit, IInvNext, <1>1, PTL DEF Spec

(* What the broker executed is recorded once, is about to be, or was        *)
(* cancelled too late.                                                      *)
THEOREM FillsMatch == Spec => []FillsAreRecorded
<1>1. IInv => FillsAreRecorded  BY DEF IInv
<1> QED  BY IInvInit, IInvNext, <1>1, PTL DEF Spec

(* A worker brings at most one order to the broker after stop. *)
THEOREM StopIsNear == Spec => []StopLeavesOneEach
<1>1. IInv => StopLeavesOneEach  BY DEF IInv, LateFacts, StopLeavesOneEach
<1> QED  BY IInvInit, IInvNext, <1>1, PTL DEF Spec

-----------------------------------------------------------------------------
(* What a step does to one order and its executions at the broker. *)
LEMMA StepOnOneOrder ==
  ASSUME IInv, Next, NEW x \in Orders
  PROVE  \/ status'[x] = status[x] /\ executed'[x] = executed[x]
         \/ status[x] = "NEW" /\ status'[x] = "PENDING" /\ executed'[x] = executed[x]
         \/ status[x] = "PENDING" /\ status'[x] = "FILLED" /\ executed'[x] = 1
         \/ status[x] = "PENDING" /\ status'[x] = "REJECTED" /\ executed'[x] = executed[x]
         \/ /\ status[x] \notin {"NEW", "PENDING"} /\ status'[x] = "CANCELLED"
            /\ executed'[x] = executed[x]
<1>0. /\ status \in [Orders -> {"NEW", "PENDING", "FILLED", "REJECTED", "CANCELLED"}]
      /\ executed \in [Orders -> Nat] /\ NoOrderLost /\ OrderFacts
  BY DEF IInv, TypeOK
<1>1. ASSUME NEW w \in Workers,
             Start(w) \/ Connected(w) \/ Begins(w) \/ Take(w) \/ GetTimesOut(w) \/ Announced(w)
               \/ Placed(w) \/ Reported(w)
      PROVE  status' = status /\ executed' = executed
  BY <1>1 DEF Start, Connected, Begins, Take, GetTimesOut, Announced, Placed, Reported
<1>2. ASSUME NEW w \in Workers, At(w, "place")
      PROVE  /\ worker[w].order \in Orders => status[worker[w].order] = "PENDING"
             /\ worker[w].order \in Orders => executed[worker[w].order] = 0
  BY <1>0, <1>2 DEF NoOrderLost, OrderFacts, Undecided, At
<1>3. ASSUME NEW w \in Workers, NEW outcome \in {"FILLED", "REJECTED"}, Place(w, outcome)
      PROVE  \/ status'[x] = status[x] /\ executed'[x] = executed[x]
             \/ status[x] = "PENDING" /\ status'[x] = "FILLED" /\ executed'[x] = 1
             \/ status[x] = "PENDING" /\ status'[x] = "REJECTED" /\ executed'[x] = executed[x]
  <2>1. /\ At(w, "place") /\ status' = [status EXCEPT ![worker[w].order] = outcome]
        /\ executed' = [executed EXCEPT ![worker[w].order] =
                          @ + IF outcome = "FILLED" THEN 1 ELSE 0]
    BY <1>3 DEF Place
  <2>2. CASE x # worker[w].order
    BY <1>0, <2>1, <2>2
  <2>3. CASE x = worker[w].order
    <3>1. /\ status[x] = "PENDING" /\ executed[x] = 0 /\ status'[x] = outcome
          /\ executed'[x] = executed[x] + IF outcome = "FILLED" THEN 1 ELSE 0
      BY <1>0, <1>2, <2>1, <2>3
    <3> QED  BY <3>1
  <2> QED  BY <2>2, <2>3
<1>4. ASSUME NEW w \in Workers, PlaceRaises(w)
      PROVE  \/ status'[x] = status[x] /\ executed'[x] = executed[x]
             \/ status[x] = "PENDING" /\ status'[x] = "REJECTED" /\ executed'[x] = executed[x]
  BY <1>0, <1>2, <1>4 DEF PlaceRaises
<1>5. CASE Stop
  BY <1>5 DEF Stop
<1>6. ASSUME NEW o \in Orders, Submit(o)
      PROVE  \/ status'[x] = status[x] /\ executed'[x] = executed[x]
             \/ status[x] = "NEW" /\ status'[x] = "PENDING" /\ executed'[x] = executed[x]
  BY <1>0, <1>6 DEF Submit
<1>7. ASSUME NEW o \in Orders, Cancel(o)
      PROVE  \/ status'[x] = status[x] /\ executed'[x] = executed[x]
             \/ /\ status[x] \notin {"NEW", "PENDING"} /\ status'[x] = "CANCELLED"
                /\ executed'[x] = executed[x]
  BY <1>0, <1>7 DEF Cancel, OrderFacts
<1>8. ASSUME NEW k \in Kinds, Handled(k) PROVE status' = status /\ executed' = executed
  BY <1>8 DEF Handled
<1> QED  BY <1>1, <1>3, <1>4, <1>5, <1>6, <1>7, <1>8 DEF Next, Work

(* The queue in front of the broker implements OrderPromise: the broker     *)
(* executes an order once and only while it is undecided, however many      *)
(* workers stops and starts leave, and a cancellation reopens none.         *)
THEOREM BrokerKeepsPromise == Spec => KeepsPromise
<1>1. Init => Promise!Init
  BY DEF Init, Promise!Init, PhaseOf
<1>2. IInv /\ [Next]_vars => [Promise!Next]_Promise!vars
  <2> SUFFICES ASSUME IInv, Next, NEW x \in Orders
               PROVE  Promise!Place(x) \/ Promise!Execute(x) \/ Promise!Close(x) \/ Promise!Rest(x)
    BY DEF Promise!Next, Promise!vars, vars
  <2>1. CASE status'[x] = status[x] /\ executed'[x] = executed[x]
    BY <2>1 DEF Promise!Rest
  <2>2. CASE status[x] = "NEW" /\ status'[x] = "PENDING" /\ executed'[x] = executed[x]
    BY <2>2 DEF Promise!Place, PhaseOf
  <2>3. CASE status[x] = "PENDING" /\ status'[x] = "FILLED" /\ executed'[x] = 1
    <3>1. executed[x] = 0
      BY <2>3 DEF IInv, OrderFacts
    <3> QED  BY <2>3, <3>1 DEF Promise!Execute, PhaseOf
  <2>4. CASE status[x] = "PENDING" /\ status'[x] = "REJECTED" /\ executed'[x] = executed[x]
    BY <2>4 DEF Promise!Close, PhaseOf
  <2>5. CASE /\ status[x] \notin {"NEW", "PENDING"} /\ status'[x] = "CANCELLED"
             /\ executed'[x] = executed[x]
    BY <2>5 DEF Promise!Rest, PhaseOf
  <2> QED  BY <2>1, <2>2, <2>3, <2>4, <2>5, StepOnOneOrder
<1> QED  BY <1>1, <1>2, IInvInit, IInvNext, PTL DEF Spec, KeepsPromise, Promise!Spec
=============================================================================
