-------------------------- MODULE StreamBusProofs ---------------------------
(* Proofs about StreamBus, for every number of messages, consumers and      *)
(* callers, every batch size and every length of the streams.               *)
EXTENDS StreamBus, SequenceTheorems, TLAPS

(* The rest of a batch. *)
LEMMA RestOfBatch ==
  ASSUME NEW S, NEW s \in Seq(S), IsInjective(s), s # <<>>
  PROVE  /\ Head(s) = s[1] /\ Head(s) \in S /\ Head(s) \in ToSet(s)
         /\ Tail(s) \in Seq(S) /\ IsInjective(Tail(s)) /\ Len(Tail(s)) = Len(s) - 1
         /\ ToSet(Tail(s)) \subseteq ToSet(s) \ {Head(s)}
         /\ \A i \in 1..Len(Tail(s)) : i + 1 \in 1..Len(s) /\ Tail(s)[i] = s[i + 1]
<1>1. /\ Len(s) \in Nat \ {0} /\ DOMAIN s = 1..Len(s) /\ Head(s) = s[1] /\ Head(s) \in S
      /\ Tail(s) \in Seq(S) /\ Len(Tail(s)) = Len(s) - 1 /\ DOMAIN Tail(s) = 1..Len(s) - 1
      /\ \A i \in 1..Len(s) - 1 : i + 1 \in 1..Len(s) /\ Tail(s)[i] = s[i + 1]
  OBVIOUS
<1>2. \A i, j \in 1..Len(s) : s[i] = s[j] => i = j  BY <1>1 DEF IsInjective
<1>3. ASSUME NEW i \in 1..Len(s) - 1, NEW j \in 1..Len(s) - 1, Tail(s)[i] = Tail(s)[j]
      PROVE  i = j
  <2>1. s[i + 1] = s[j + 1] /\ i + 1 \in 1..Len(s) /\ j + 1 \in 1..Len(s)  BY <1>1, <1>3
  <2> QED  BY <1>2, <2>1
<1>4. IsInjective(Tail(s))  BY <1>1, <1>3 DEF IsInjective
<1>5. ASSUME NEW i \in 1..Len(s) - 1 PROVE Tail(s)[i] \in ToSet(s) /\ Tail(s)[i] # s[1]
  <2>1. Tail(s)[i] = s[i + 1] /\ i + 1 \in 1..Len(s) /\ 1 \in 1..Len(s) /\ i + 1 # 1  BY <1>1
  <2>2. s[i + 1] # s[1]  BY <1>2, <2>1
  <2> QED  BY <1>1, <2>1, <2>2 DEF ToSet
<1>6. ToSet(Tail(s)) \subseteq ToSet(s) \ {Head(s)}  BY <1>1, <1>5 DEF ToSet
<1>7. Head(s) \in ToSet(s)  BY <1>1 DEF ToSet
<1> QED  BY <1>1, <1>4, <1>6, <1>7

(* The entries of one stream after those of another. *)
LEMMA ConcatFacts ==
  ASSUME NEW S, NEW s \in Seq(S), NEW t \in Seq(S)
  PROVE  /\ s \o t \in Seq(S) /\ ToSet(s \o t) = ToSet(s) \union ToSet(t)
         /\ IsInjective(s) /\ IsInjective(t) /\ ToSet(s) \intersect ToSet(t) = {}
              => IsInjective(s \o t)
<1> DEFINE u == s \o t
<1>1. /\ u \in Seq(S) /\ Len(u) = Len(s) + Len(t) /\ Len(s) \in Nat /\ Len(t) \in Nat
      /\ DOMAIN s = 1..Len(s) /\ DOMAIN t = 1..Len(t) /\ DOMAIN u = 1..Len(s) + Len(t)
      /\ \A i \in 1..Len(s) + Len(t) : u[i] = IF i <= Len(s) THEN s[i] ELSE t[i - Len(s)]
  BY ConcatProperties
<1> HIDE DEF u
<1>2. \A i \in 1..Len(s) : i \in 1..Len(s) + Len(t) /\ u[i] = s[i]  BY <1>1
<1>3. ASSUME NEW i \in 1..Len(t)
      PROVE  i + Len(s) \in 1..Len(s) + Len(t) /\ u[i + Len(s)] = t[i]
  <2>1. /\ i + Len(s) \in 1..Len(s) + Len(t) /\ ~(i + Len(s) <= Len(s))
        /\ (i + Len(s)) - Len(s) = i
    BY <1>1
  <2> QED  BY <1>1, <2>1
<1>4. ASSUME NEW i \in 1..Len(s) + Len(t)
      PROVE  \/ i \in 1..Len(s) /\ u[i] = s[i] /\ u[i] \in ToSet(s)
             \/ i - Len(s) \in 1..Len(t) /\ u[i] = t[i - Len(s)] /\ u[i] \in ToSet(t)
  <2>1. CASE i <= Len(s)
    <3>1. i \in 1..Len(s) /\ u[i] = s[i]  BY <1>1, <2>1
    <3> QED  BY <1>1, <3>1 DEF ToSet
  <2>2. CASE ~(i <= Len(s))
    <3>1. i - Len(s) \in 1..Len(t) /\ u[i] = t[i - Len(s)]  BY <1>1, <2>2
    <3> QED  BY <1>1, <3>1 DEF ToSet
  <2> QED  BY <2>1, <2>2
<1>5. ToSet(u) = ToSet(s) \union ToSet(t)
  <2>1. ToSet(u) \subseteq ToSet(s) \union ToSet(t)  BY <1>1, <1>4 DEF ToSet
  <2>2. ToSet(s) \subseteq ToSet(u)  BY <1>1, <1>2 DEF ToSet
  <2>3. ToSet(t) \subseteq ToSet(u)
    <3>1. SUFFICES ASSUME NEW i \in 1..Len(t) PROVE t[i] \in ToSet(u)
      BY <1>1 DEF ToSet
    <3>2. i + Len(s) \in 1..Len(u) /\ u[i + Len(s)] = t[i]  BY <1>1, <1>3
    <3> QED  BY <3>2 DEF ToSet
  <2> QED  BY <2>1, <2>2, <2>3
<1>6. ASSUME IsInjective(s), IsInjective(t), ToSet(s) \intersect ToSet(t) = {}
      PROVE  IsInjective(u)
  <2> SUFFICES ASSUME NEW i \in 1..Len(s) + Len(t), NEW j \in 1..Len(s) + Len(t), u[i] = u[j]
               PROVE  i = j
    BY <1>1 DEF IsInjective
  <2>1. CASE u[i] \in ToSet(s)
    <3>1. /\ i \in 1..Len(s) /\ u[i] = s[i]
          /\ j \in 1..Len(s) /\ u[j] = s[j]
      BY <1>4, <1>6, <2>1
    <3> QED  BY <1>1, <1>6, <3>1 DEF IsInjective
  <2>2. CASE u[i] \notin ToSet(s)
    <3>1. /\ i - Len(s) \in 1..Len(t) /\ u[i] = t[i - Len(s)]
          /\ j - Len(s) \in 1..Len(t) /\ u[j] = t[j - Len(s)]
      BY <1>4, <2>2
    <3>2. i - Len(s) = j - Len(s)  BY <1>1, <1>6, <3>1 DEF IsInjective
    <3> QED  BY <1>1, <3>2
  <2> QED  BY <2>1, <2>2
<1> QED  BY <1>1, <1>5, <1>6 DEF u

(* A part of a stream. *)
LEMMA PartFacts ==
  ASSUME NEW S, NEW s \in Seq(S), NEW t \in Seq(S),
         NEW a \in Nat, NEW b \in Nat, a <= b, b <= Len(s),
         Len(t) = b - a, \A i \in 1..b - a : t[i] = s[a + i]
  PROVE  /\ ToSet(t) = {s[i] : i \in a + 1..b}
         /\ IsInjective(s) => IsInjective(t)
<1>1. Len(s) \in Nat /\ DOMAIN s = 1..Len(s)  OBVIOUS
<1>4. Len(t) = b - a /\ DOMAIN t = 1..b - a  OBVIOUS
<1>5. \A i \in 1..b - a : a + i \in 1..Len(s) /\ a + i \in a + 1..b /\ t[i] = s[a + i]
  BY <1>1
<1>6. ToSet(t) = {s[i] : i \in a + 1..b}
  <2>1. ToSet(t) \subseteq {s[i] : i \in a + 1..b}  BY <1>4, <1>5 DEF ToSet
  <2>2. ASSUME NEW i \in a + 1..b PROVE s[i] \in ToSet(t)
    <3>1. i - a \in 1..b - a /\ t[i - a] = s[a + (i - a)] /\ a + (i - a) = i  BY <1>5
    <3> QED  BY <1>4, <3>1 DEF ToSet
  <2> QED  BY <2>1, <2>2
<1>7. ASSUME IsInjective(s) PROVE IsInjective(t)
  <2> SUFFICES ASSUME NEW i \in 1..b - a, NEW j \in 1..b - a, t[i] = t[j] PROVE i = j
    BY <1>4 DEF IsInjective
  <2>1. a + i \in 1..Len(s) /\ a + j \in 1..Len(s) /\ s[a + i] = s[a + j]  BY <1>5
  <2>2. a + i = a + j  BY <1>1, <1>7, <2>1 DEF IsInjective
  <2> QED  BY <2>2
<1> QED  BY <1>6, <1>7

-----------------------------------------------------------------------------
(* The inductive invariant: the log the server keeps and how far the group  *)
(* is in it, ...                                                            *)
LogFacts ==
  /\ \A s \in Streams :
       /\ cursor[s] <= Len(stream[s]) /\ IsInjective(stream[s])
       /\ \A i \in 1..Len(stream[s]) :
            /\ where[stream[s][i]] = s
            /\ i <= cursor[s] <=> stream[s][i] \in given
  /\ \A m, n \in Messages :
       where[m] = where[n] /\ where[m] # Nowhere /\ id[m] = id[n] => m = n
  /\ \A m \in Messages :
       where[m] # Nowhere /\ ~InStream(m) => Len(stream[where[m]]) >= MaxLen

(* ... what has become of the messages the group was given, ... *)
GivenFacts ==
  /\ pending \subseteq given
  /\ \A m \in given :
       /\ where[m] # Nowhere
       /\ m \in pending \union handled \union buried \/ Trimmed(m) \/ HasTwin(m)

(* ... and what the consumers have done to those in their hands. *)
Tried(place, i, n) ==
  /\ n \in {0, 1}
  /\ n = 1 => i = 1 /\ place # "handle"
  /\ i = 1 /\ place = "ack" => n = 1

TaskFacts(c) ==
  /\ IsInjective(task[c].batch) /\ ToSet(task[c].batch) \subseteq given
  /\ \A i \in 1..Len(task[c].batch) : Tried(task[c].pc, i, tries[task[c].batch[i]])
  /\ At(c, "ack") => Current(c) \in handled
  /\ At(c, "ackdead") => Current(c) \in buried

WorkFacts ==
  /\ \A c \in Consumers : TaskFacts(c)
  /\ \A c, d \in Consumers :
       c # d => ToSet(task[c].batch) \intersect ToSet(task[d].batch) = {}
  /\ \A m \in Messages \ given : tries[m] = 0

ClaimFacts == \A m \in idle : claims[m] = 0

(* The dead letter queue only loses what its length made it drop. *)
DeadFacts == \A m \in buried : m \in ToSet(dead) \/ Len(dead) >= MaxDead

IInv == /\ TypeOK /\ HandledAtMostOnce /\ ClaimedByOne
        /\ LogFacts /\ GivenFacts /\ WorkFacts /\ ClaimFacts /\ DeadFacts

-----------------------------------------------------------------------------
(* Types *)
BusyPlaces == {"handle", "ack", "bury", "ackdead"}
TaskStates == [pc : Places, batch : Seq(Messages)]
TasksTyped == /\ task \in [Consumers -> TaskStates]
              /\ \A c \in Consumers : task[c].pc \in BusyPlaces <=> task[c].batch # <<>>

(* A consumer steps. *)
LEMMA TaskSteps ==
  ASSUME TasksTyped, NEW c \in Consumers, NEW r \in TaskStates,
         r.pc \in BusyPlaces <=> r.batch # <<>>, task' = [task EXCEPT ![c] = r]
  PROVE  /\ TasksTyped' /\ task'[c] = r
         /\ \A d \in Consumers \ {c} : task'[d] = task[d]
  BY DEF TasksTyped

(* It goes to another place with the same batch. *)
LEMMA GoesTo ==
  ASSUME TasksTyped, NEW c \in Consumers, NEW place \in Places, GoTo(c, place),
         task[c].pc \in BusyPlaces <=> place \in BusyPlaces
  PROVE  /\ TasksTyped' /\ task'[c].pc = place /\ task'[c].batch = task[c].batch
         /\ \A d \in Consumers \ {c} : task'[d] = task[d]
<1> DEFINE r == [task[c] EXCEPT !.pc = place]
<1>1. task[c] \in TaskStates /\ (task[c].pc \in BusyPlaces <=> task[c].batch # <<>>)
  BY DEF TasksTyped
<1>2. r \in TaskStates /\ r.pc = place /\ r.batch = task[c].batch
  BY <1>1 DEF TaskStates
<1>3. r.pc \in BusyPlaces <=> r.batch # <<>>  BY <1>1, <1>2
<1>4. task' = [task EXCEPT ![c] = r]  BY DEF GoTo
<1> HIDE DEF r
<1> QED  BY <1>2, <1>3, <1>4, TaskSteps

(* It lets go of its batch. *)
LEMMA LetsGo ==
  ASSUME TasksTyped, NEW c \in Consumers, NEW place \in {"read", "ended"},
         task' = [task EXCEPT ![c] = [pc |-> place, batch |-> <<>>]]
  PROVE  /\ TasksTyped' /\ task'[c].pc = place /\ task'[c].batch = <<>>
         /\ \A d \in Consumers \ {c} : task'[d] = task[d]
<1> DEFINE r == [pc |-> place, batch |-> <<>>]
<1>1. r \in TaskStates /\ r.pc = place /\ r.batch = <<>> /\ r.pc \notin BusyPlaces
  BY DEF TaskStates, Places, BusyPlaces
<1> HIDE DEF r
<1> QED  BY <1>1, TaskSteps DEF r

(* It goes on with the rest of its batch. *)
LEMMA GoesOn ==
  ASSUME TasksTyped, NEW c \in Consumers, task[c].pc \in BusyPlaces, NextMessage(c)
  PROVE  /\ TasksTyped' /\ task'[c].batch = Tail(task[c].batch)
         /\ task'[c].pc = IF Tail(task[c].batch) = <<>> THEN "read" ELSE "handle"
         /\ \A d \in Consumers \ {c} : task'[d] = task[d]
<1> DEFINE rest == Tail(task[c].batch)
           r == [pc |-> IF rest = <<>> THEN "read" ELSE "handle", batch |-> rest]
<1>1. task[c].batch \in Seq(Messages) /\ task[c].batch # <<>>
  BY DEF TasksTyped, TaskStates
<1>2. rest \in Seq(Messages)  BY <1>1
<1>3. task' = [task EXCEPT ![c] = r]  BY DEF NextMessage
<1> HIDE DEF rest
<1>4. /\ r \in TaskStates /\ r.batch = rest
      /\ r.pc = IF rest = <<>> THEN "read" ELSE "handle"
      /\ r.pc \in BusyPlaces <=> r.batch # <<>>
  BY <1>2 DEF TaskStates, Places, BusyPlaces
<1> HIDE DEF r
<1> QED  BY <1>3, <1>4, TaskSteps DEF rest

(* What a read delivers. *)
LEMMA TakenFacts ==
  ASSUME TypeOK, NEW s \in Streams, cursor[s] <= Len(stream[s])
  PROVE  /\ UpTo(s) \in cursor[s]..Len(stream[s]) /\ Taken(s) \in Seq(Messages)
         /\ ToSet(Taken(s)) = {stream[s][i] : i \in cursor[s] + 1..UpTo(s)}
         /\ IsInjective(stream[s]) => IsInjective(Taken(s))
<1>1. cursor[s] \in Nat /\ stream[s] \in Seq(Messages) /\ Len(stream[s]) \in Nat
  BY DEF TypeOK
<1>2. UpTo(s) \in Nat /\ cursor[s] <= UpTo(s) /\ UpTo(s) <= Len(stream[s])
  BY <1>1, ConstantsAssumption DEF UpTo, Lesser
<1> DEFINE q == stream[s]
           a == cursor[s]
           b == UpTo(s)
           t == Taken(s)
<1>3. t = SubSeq(q, a + 1, b)  BY DEF Taken
<1>4. a \in Nat /\ b \in Nat /\ a <= b /\ b <= Len(q) /\ q \in Seq(Messages) /\ Len(q) \in Nat
  BY <1>1, <1>2
<1> HIDE DEF q, a, b, t
<1>5. t \in Seq(Messages) /\ Len(t) = b - a /\ \A i \in 1..b - a : t[i] = q[a + i]
  <2>1. a + 1 \in Int /\ b \in Int /\ \A i \in a + 1..b : q[i] \in Messages  BY <1>4
  <2>2. /\ t \in Seq(Messages) /\ Len(t) = IF a + 1 <= b THEN b - (a + 1) + 1 ELSE 0
        /\ \A i \in 1..b - (a + 1) + 1 : t[i] = q[(a + 1) + i - 1]
    BY <1>3, <2>1, SubSeqProperties
  <2> QED  BY <1>4, <2>2
<1>6. ToSet(t) = {q[i] : i \in a + 1..b} /\ (IsInjective(q) => IsInjective(t))
  BY <1>4, <1>5, PartFacts
<1>7. b \in a..Len(q)  BY <1>4
<1> QED  BY <1>5, <1>6, <1>7 DEF q, a, b, t

LEMMA DeliveryFacts ==
  ASSUME TypeOK, \A s \in Streams : cursor[s] <= Len(stream[s])
  PROVE  /\ Delivery \in Seq(Messages)
         /\ ToSet(Delivery) = UNION {ToSet(Taken(s)) : s \in Streams}
         /\ LogFacts => IsInjective(Delivery)
<1>1. Streams = {"critical", "normal", "low"}  BY DEF Streams
<1>2. \A s \in Streams :
        /\ UpTo(s) \in cursor[s]..Len(stream[s]) /\ Taken(s) \in Seq(Messages)
        /\ ToSet(Taken(s)) = {stream[s][i] : i \in cursor[s] + 1..UpTo(s)}
        /\ IsInjective(stream[s]) => IsInjective(Taken(s))
  BY TakenFacts
<1> DEFINE u == Taken("critical") \o Taken("normal")
<1>3. /\ u \in Seq(Messages)
      /\ ToSet(u) = ToSet(Taken("critical")) \union ToSet(Taken("normal"))
  BY <1>1, <1>2, ConcatFacts
<1>7. Delivery = u \o Taken("low")  BY DEF Delivery
<1> HIDE DEF u
<1>4. /\ Delivery \in Seq(Messages) /\ Delivery = u \o Taken("low")
      /\ ToSet(Delivery) = ToSet(u) \union ToSet(Taken("low"))
  BY <1>1, <1>2, <1>3, <1>7, ConcatFacts
<1>5. ASSUME LogFacts PROVE IsInjective(Delivery)
  <2>1. \A s \in Streams : \A m \in ToSet(Taken(s)) : where[m] = s
    <3> SUFFICES ASSUME NEW s \in Streams, NEW i \in cursor[s] + 1..UpTo(s)
                 PROVE  where[stream[s][i]] = s
      BY <1>2
    <3>1. i \in 1..Len(stream[s])  BY <1>2 DEF TypeOK
    <3> QED  BY <1>5, <3>1 DEF LogFacts
  <2>2. \A s \in Streams : IsInjective(Taken(s))  BY <1>2, <1>5 DEF LogFacts
  <2>3. ToSet(Taken("critical")) \intersect ToSet(Taken("normal")) = {}  BY <1>1, <2>1
  <2>4. IsInjective(u)  BY <1>1, <1>2, <2>2, <2>3, ConcatFacts DEF u
  <2>5. ToSet(u) \intersect ToSet(Taken("low")) = {}  BY <1>1, <1>3, <2>1
  <2> QED  BY <1>1, <1>2, <1>3, <1>4, <2>2, <2>4, <2>5, ConcatFacts
<1>6. ToSet(Delivery) = UNION {ToSet(Taken(s)) : s \in Streams}  BY <1>1, <1>3, <1>4
<1> QED  BY <1>4, <1>5, <1>6

(* The part of TypeOK that a request for an acknowledgement can change. *)
LEMMA SendAckFacts ==
  ASSUME TypeOK, NEW c \in Consumers, NEW reply \in Replies, SendAck(c, reply)
  PROVE  /\ pending' \subseteq pending /\ idle' \subseteq idle /\ idle' \subseteq pending'
         /\ \A m \in pending \ pending' : where[m] = "normal" /\ id[m] = id[Current(c)]
         /\ UNCHANGED <<where, id, stream, cursor, dead, fits, running, listed, handled, history>>
<1> DEFINE gone == IF reply = "refused" THEN {} ELSE Acknowledged(Current(c))
<1>1. /\ pending' = pending \ gone /\ idle' = idle \ gone
      /\ UNCHANGED <<where, id, stream, cursor, dead, fits, running, listed, handled, history>>
  BY DEF SendAck
<1>2. \A m \in gone : where[m] = "normal" /\ id[m] = id[Current(c)]  BY DEF Acknowledged
<1>3. idle \subseteq pending  BY DEF TypeOK
<1> HIDE DEF gone
<1> QED  BY <1>1, <1>2, <1>3

LEMMA ClaimCases ==
  ASSUME NEW k \in Claimers, NEW m \in Messages, Claim(k, m)
  PROVE  \/ UNCHANGED <<pending, idle, claims>>
         \/ /\ m \in idle /\ idle' = idle \ {m} /\ pending' = pending
            /\ claims' = [claims EXCEPT ![m] = @ + 1]
         \/ /\ m \in idle /\ ~InStream(m) /\ idle' = idle \ {m} /\ pending' = pending \ {m}
            /\ claims' = claims
<1>1. CASE ~Claimable(m)  BY <1>1 DEF Claim
<1>2. CASE Claimable(m) /\ InStream(m)  BY <1>2 DEF Claim, Claimable
<1>3. CASE Claimable(m) /\ ~InStream(m)
  <2>1. PICK forgotten \in {{}, {m}} :
          pending' = pending \ forgotten /\ idle' = idle \ forgotten
    BY <1>3 DEF Claim
  <2>2. claims' = claims  BY <1>3 DEF Claim
  <2>3. CASE forgotten = {}
    <3>1. pending \ {} = pending /\ idle \ {} = idle  OBVIOUS
    <3> QED  BY <2>1, <2>2, <2>3, <3>1
  <2>4. CASE forgotten = {m}  BY <1>3, <2>1, <2>2, <2>4 DEF Claimable
  <2> QED  BY <2>1, <2>3, <2>4
<1> QED  BY <1>1, <1>2, <1>3

(* The dead letter queue gets an entry, and loses some to its length. *)
LEMMA AddedToDead ==
  ASSUME TypeOK, NEW e \in Messages \union {Other}, AddToDead(e)
  PROVE  /\ dead' \in Seq(Messages \union {Other})
         /\ Len(dead) >= MaxDead => Len(dead') >= MaxDead
         /\ Len(dead') >= MaxDead \/ ToSet(dead) \union {e} \subseteq ToSet(dead')
<1> DEFINE longer == Append(dead, e)
           n == Len(dead)
<1>1. PICK k \in Drops(longer, MaxDead) : dead' = SubSeq(longer, k + 1, Len(longer))
  BY DEF AddToDead
<1>2. /\ longer \in Seq(Messages \union {Other}) /\ Len(longer) = n + 1 /\ n \in Nat
      /\ longer[n + 1] = e /\ \A j \in 1..n : longer[j] = dead[j]
      /\ DOMAIN dead = 1..n
  BY DEF TypeOK
<1> HIDE DEF longer, n
<1>3. k \in Nat /\ k <= n /\ (k = 0 \/ n + 1 - k >= MaxDead) /\ MaxDead \in Nat
  BY <1>2, ConstantsAssumption DEF Drops
<1> DEFINE b == n + 1
           t == dead'
<1>4. k + 1 \in Int /\ b \in Int /\ \A j \in k + 1..b : longer[j] \in Messages \union {Other}
  BY <1>2, <1>3
<1>5. t = SubSeq(longer, k + 1, b)  BY <1>1, <1>2
<1> HIDE DEF b, t
<1>6. /\ t \in Seq(Messages \union {Other}) /\ Len(t) = IF k + 1 <= b THEN b - (k + 1) + 1 ELSE 0
      /\ \A j \in 1..b - (k + 1) + 1 : t[j] = longer[(k + 1) + j - 1]
  BY <1>4, <1>5, SubSeqProperties
<1>7. Len(t) = n + 1 - k /\ b = n + 1  BY <1>2, <1>3, <1>6 DEF b
<1>8. CASE k = 0
  <2>1. \A j \in 1..n + 1 : t[j] = longer[j]  BY <1>2, <1>6, <1>7, <1>8
  <2>2. DOMAIN t = 1..n + 1  BY <1>6, <1>7, <1>8, <1>2
  <2>3. \A j \in 1..n : j \in DOMAIN t /\ t[j] = dead[j]  BY <1>2, <2>1, <2>2
  <2>4. n + 1 \in DOMAIN t /\ t[n + 1] = e  BY <1>2, <2>1, <2>2
  <2>5. ToSet(dead) \union {e} \subseteq ToSet(t)  BY <1>2, <2>3, <2>4 DEF ToSet
  <2>6. n >= MaxDead => Len(t) >= MaxDead  BY <1>2, <1>3, <1>7, <1>8
  <2> QED  BY <1>6, <2>5, <2>6 DEF t, n
<1>9. CASE k # 0
  <2>1. Len(t) >= MaxDead  BY <1>3, <1>7, <1>9
  <2> QED  BY <1>6, <2>1 DEF t
<1> QED  BY <1>8, <1>9

LEMMA TypeInit == Init => TypeOK
<1> SUFFICES ASSUME Init PROVE TypeOK  OBVIOUS
<1>1. /\ where \in [Messages -> Streams \union {Nowhere}]
      /\ id \in [Messages -> Ids \union {NoId}]
      /\ stream \in [Streams -> Seq(Messages)] /\ cursor \in [Streams -> Nat]
      /\ pending \subseteq Messages /\ idle \subseteq pending
      /\ dead \in Seq(Messages \union {Other}) /\ buried \subseteq Messages /\ fits \in BOOLEAN
      /\ running \in [Consumers -> BOOLEAN] /\ listed \in [Claimers -> SUBSET Messages]
      /\ handled \subseteq Messages /\ given \subseteq Messages
      /\ tries \in [Messages -> Nat] /\ claims \in [Messages -> Nat]
  BY DEF Init
<1>2. [pc |-> "none", batch |-> <<>>] \in [pc : Places, batch : Seq(Messages)]  BY DEF Places
<1>3. /\ task \in [Consumers -> [pc : Places, batch : Seq(Messages)]]
      /\ \A c \in Consumers : task[c].pc = "none" /\ task[c].batch = <<>>
  BY <1>2 DEF Init
<1> QED  BY <1>1, <1>3 DEF TypeOK

LEMMA TypeNext == TypeOK /\ LogFacts /\ [Next]_vars => TypeOK'
<1> SUFFICES ASSUME TypeOK, LogFacts, [Next]_vars PROVE TypeOK'  OBVIOUS
<1>0. TasksTyped /\ \A c \in Consumers :
        task[c].pc \in BusyPlaces =>
          /\ task[c].batch \in Seq(Messages) /\ task[c].batch # <<>> /\ Current(c) \in Messages
  BY DEF TypeOK, TasksTyped, TaskStates, BusyPlaces, Current
<1>1. CASE UNCHANGED vars
  BY <1>1 DEF vars, server, history, TypeOK
<1>2. ASSUME NEW m \in Messages, NEW s \in Streams, NEW i \in Ids, Publish(m, s, i)
      PROVE  TypeOK'
  <2> DEFINE longer == Append(stream[s], m)
  <2>1. PICK k \in Drops(longer, MaxLen) :
          /\ stream' = [stream EXCEPT ![s] = SubSeq(longer, k + 1, Len(longer))]
          /\ cursor' = [cursor EXCEPT ![s] = IF @ > k THEN @ - k ELSE 0]
    BY <1>2 DEF Publish
  <2>2. longer \in Seq(Messages) /\ Len(longer) \in Nat  BY DEF TypeOK
  <2> HIDE DEF longer
  <2>3. k \in Nat  BY <2>2 DEF Drops
  <2>4. SubSeq(longer, k + 1, Len(longer)) \in Seq(Messages)  BY <2>2, <2>3
  <2>5. (IF cursor[s] > k THEN cursor[s] - k ELSE 0) \in Nat  BY <2>3 DEF TypeOK
  <2>6. stream' \in [Streams -> Seq(Messages)] /\ cursor' \in [Streams -> Nat]
    BY <2>1, <2>4, <2>5 DEF TypeOK
  <2>7. /\ where' \in [Messages -> Streams \union {Nowhere}]
        /\ id' \in [Messages -> Ids \union {NoId}]
    BY <1>2 DEF Publish, TypeOK
  <2>8. UNCHANGED <<pending, idle, dead, fits, running, task, listed, handled, history>>
    BY <1>2 DEF Publish
  <2> QED  BY <2>6, <2>7, <2>8 DEF TypeOK, history
<1>3. ASSUME NEW c \in Consumers, Subscribe(c) PROVE TypeOK'
  <2>1. GoTo(c, "read") /\ task[c].pc \notin BusyPlaces
    BY <1>3 DEF Subscribe, At, BusyPlaces
  <2>2. TasksTyped'  BY <1>0, <2>1, GoesTo DEF BusyPlaces, Places
  <2> QED  BY <1>3, <2>2 DEF Subscribe, TypeOK, TasksTyped, TaskStates, BusyPlaces, server, history
<1>4. ASSUME NEW c \in Consumers, Read(c) PROVE TypeOK'
  <2>1. Delivery \in Seq(Messages)
    BY DeliveryFacts DEF LogFacts
  <2>2. ToSet(Delivery) \subseteq Messages  BY <2>1 DEF ToSet
  <2>3. \A s \in Streams : UpTo(s) \in Nat
    BY ConstantsAssumption DEF TypeOK, UpTo, Lesser
  <2>4. TasksTyped'
    <3> DEFINE r == [pc |-> "handle", batch |-> Delivery]
    <3>1. Delivery # <<>> => r \in TaskStates /\ r.pc \in BusyPlaces /\ r.batch # <<>>
      BY <2>1 DEF TaskStates, Places, BusyPlaces
    <3>2. (Delivery # <<>> /\ task' = [task EXCEPT ![c] = r]) \/ task' = task
      BY <1>4 DEF Read
    <3> HIDE DEF r
    <3> QED  BY <1>0, <3>1, <3>2, TaskSteps DEF TasksTyped
  <2>5. /\ cursor' \in [Streams -> Nat] /\ pending' \subseteq Messages
        /\ idle' \subseteq pending' /\ given' \subseteq Messages
    BY <1>4, <2>2, <2>3 DEF Read, TypeOK
  <2> QED  BY <1>4, <2>4, <2>5 DEF Read, TypeOK, TasksTyped, TaskStates, BusyPlaces
<1>5. ASSUME NEW c \in Consumers, Handle(c) PROVE TypeOK'
  <2>1. task[c].pc \in BusyPlaces /\ Current(c) \in Messages
    BY <1>0, <1>5 DEF Handle, At, BusyPlaces
  <2>2. PICK place \in {"ack", "bury"} : GoTo(c, place)  BY <1>5 DEF Handle
  <2>3. TasksTyped'  BY <1>0, <2>1, <2>2, GoesTo DEF BusyPlaces, Places
  <2>4. tries' \in [Messages -> Nat] /\ handled' \subseteq Messages
    <3>1. /\ tries' = [tries EXCEPT ![Current(c)] = @ + 1] \/ tries' = tries
          /\ handled' \in {handled, handled \union {Current(c)}}
      BY <1>5 DEF Handle
    <3> QED  BY <2>1, <3>1 DEF TypeOK
  <2> QED
    BY <1>5, <2>3, <2>4 DEF Handle, TypeOK, TasksTyped, TaskStates, BusyPlaces, server
<1>6. ASSUME NEW c \in Consumers, NEW reply \in Replies, SendAck(c, reply), TasksTyped'
      PROVE  TypeOK'
  <2>1. /\ pending' \subseteq Messages /\ idle' \subseteq pending'
        /\ UNCHANGED <<where, id, stream, cursor, dead, fits, running, listed, handled, history>>
    BY <1>6, SendAckFacts DEF TypeOK
  <2> QED  BY <1>6, <2>1 DEF TypeOK, TasksTyped, TaskStates, BusyPlaces, history
<1>7. ASSUME NEW c \in Consumers, Ack(c) PROVE TypeOK'
  <2>1. task[c].pc \in BusyPlaces  BY <1>7 DEF Ack, At, BusyPlaces
  <2>2. PICK reply \in Replies : SendAck(c, reply) /\ (NextMessage(c) \/ GoTo(c, "bury"))
    BY <1>7 DEF Ack
  <2>3. TasksTyped'  BY <1>0, <2>1, <2>2, GoesOn, GoesTo DEF BusyPlaces, Places
  <2> QED  BY <1>6, <2>2, <2>3
<1>8. ASSUME NEW c \in Consumers, Bury(c) PROVE TypeOK'
  <2>1. task[c].pc \in BusyPlaces /\ Current(c) \in Messages
    BY <1>0, <1>8 DEF Bury, At, BusyPlaces
  <2>2. GoTo(c, "ackdead") \/ Abandon(c)  BY <1>8 DEF Bury
  <2>3. TasksTyped'  BY <1>0, <2>1, <2>2, GoesTo, LetsGo DEF Abandon, BusyPlaces, Places
  <2>4. PICK reply \in Replies : SendToDlq(c, reply)  BY <1>8 DEF Bury
  <2>5. dead' \in Seq(Messages \union {Other}) /\ buried' \subseteq Messages
    <3>1. CASE reply = "refused"  BY <2>4, <3>1 DEF SendToDlq, TypeOK
    <3>2. CASE reply # "refused"
      <4>1. AddToDead(Current(c)) /\ buried' = buried \union {Current(c)}
        BY <2>4, <3>2 DEF SendToDlq
      <4> QED  BY <2>1, <4>1, AddedToDead DEF TypeOK
    <3> QED  BY <3>1, <3>2
  <2> QED
    BY <2>3, <2>4, <2>5 DEF SendToDlq, TypeOK, TasksTyped, TaskStates, BusyPlaces
<1>9. ASSUME NEW c \in Consumers, AckDead(c) PROVE TypeOK'
  <2>1. task[c].pc \in BusyPlaces  BY <1>9 DEF AckDead, At, BusyPlaces
  <2>2. PICK reply \in Replies : SendAck(c, reply) /\ (NextMessage(c) \/ Abandon(c))
    BY <1>9 DEF AckDead
  <2>3. TasksTyped'  BY <1>0, <2>1, <2>2, GoesOn, LetsGo DEF Abandon
  <2> QED  BY <1>6, <2>2, <2>3
<1>10. ASSUME NEW c \in Consumers, Ends(c) PROVE TypeOK'
  <2>1. TasksTyped'  BY <1>0, <1>10, LetsGo DEF Ends
  <2> QED
    BY <1>10, <2>1 DEF Ends, TypeOK, TasksTyped, TaskStates, BusyPlaces, server, history
<1>11. ASSUME NEW m \in Messages, GrowsIdle(m) PROVE TypeOK'
  <2>1. claims' \in [Messages -> Nat] /\ idle' \subseteq pending
    BY <1>11 DEF GrowsIdle, TypeOK
  <2> QED  BY <1>11, <2>1 DEF GrowsIdle, TypeOK
<1>12. ASSUME NEW k \in Claimers, ListPending(k) \/ ClaimFails(k) PROVE TypeOK'
  BY <1>12 DEF ListPending, ClaimFails, TypeOK, server, history
<1>13. ASSUME NEW k \in Claimers, NEW m \in Messages, Claim(k, m) PROVE TypeOK'
  <2>3. idle \subseteq pending /\ pending \subseteq Messages /\ claims \in [Messages -> Nat]
    BY DEF TypeOK
  <2>4. claims' = claims \/ claims' = [claims EXCEPT ![m] = @ + 1]  BY <1>13, ClaimCases
  <2>5. pending' \subseteq Messages /\ idle' \subseteq pending'
    BY <1>13, <2>3, ClaimCases
  <2>6. claims' \in [Messages -> Nat]  BY <2>3, <2>4
  <2>2. listed' \in [Claimers -> SUBSET Messages]  BY <1>13 DEF Claim, TypeOK
  <2> QED  BY <1>13, <2>2, <2>5, <2>6 DEF Claim, TypeOK
<1>14. CASE OtherDies
  <2>1. dead' \in Seq(Messages \union {Other})  BY <1>14, AddedToDead DEF OtherDies
  <2> QED  BY <1>14, <2>1 DEF OtherDies, TypeOK, history
<1> QED
  BY <1>1, <1>2, <1>3, <1>4, <1>5, <1>7, <1>8, <1>9, <1>10, <1>11, <1>12, <1>13, <1>14
  DEF Next, Consume

-----------------------------------------------------------------------------
(* The log *)
LEMMA InItsStream ==
  ASSUME TypeOK, LogFacts, NEW m \in Messages
  PROVE  InStream(m) <=> where[m] \in Streams /\ m \in ToSet(stream[where[m]])
<1>1. \A s \in Streams : stream[s] \in Seq(Messages)  BY DEF TypeOK
<1>2. ASSUME NEW s \in Streams, m \in ToSet(stream[s]) PROVE where[m] = s
  <2>1. PICK i \in 1..Len(stream[s]) : stream[s][i] = m  BY <1>1, <1>2 DEF ToSet
  <2> QED  BY <2>1 DEF LogFacts
<1> QED  BY <1>2 DEF InStream

(* Nothing is published or read, and what is no longer pending is handled,  *)
(* dead, dropped from its stream or the twin of a message.                  *)
LEMMA LogIsKept ==
  ASSUME TypeOK, LogFacts, GivenFacts, UNCHANGED <<where, id, stream, cursor, given>>,
         handled \subseteq handled', buried \subseteq buried', pending' \subseteq pending,
         \A m \in pending \ pending' : m \in handled \union buried \/ ~InStream(m) \/ HasTwin(m)
  PROVE  LogFacts' /\ GivenFacts'
<1>1. \A m \in Messages : (InStream(m)' <=> InStream(m))
  BY DEF InStream
<1>2. LogFacts'  BY <1>1 DEF LogFacts
<1>3. GivenFacts'
  <2>1. pending' \subseteq given'  BY DEF GivenFacts
  <2> SUFFICES ASSUME NEW m \in given
               PROVE  /\ where'[m] # Nowhere
                      /\ \/ m \in pending' \union handled' \union buried'
                         \/ Trimmed(m)' \/ HasTwin(m)'
    BY <2>1 DEF GivenFacts
  <2>2. where[m] # Nowhere /\ (Trimmed(m)' <=> Trimmed(m)) /\ (HasTwin(m)' <=> HasTwin(m))
    BY DEF GivenFacts, Trimmed, InStream, HasTwin
  <2>3. m \in pending \union handled \union buried \/ Trimmed(m) \/ HasTwin(m)
    BY DEF GivenFacts
  <2>4. ~InStream(m) => Trimmed(m)  BY <2>2 DEF TypeOK, LogFacts, Trimmed
  <2>5. CASE m \in pending \ pending'
    <3>1. m \in handled \union buried \/ Trimmed(m) \/ HasTwin(m)  BY <2>4, <2>5
    <3> QED  BY <2>2, <3>1
  <2>6. CASE m \notin pending \ pending'
    BY <2>2, <2>3, <2>6
  <2> QED  BY <2>5, <2>6
<1> QED  BY <1>2, <1>3

(* A read that the server answers; the others change nothing. *)
Delivers ==
  /\ cursor' = [s \in Streams |-> UpTo(s)]
  /\ pending' = pending \union ToSet(Delivery)
  /\ given' = given \union ToSet(Delivery)

LEMMA ReadCases ==
  ASSUME NEW c \in Consumers, Read(c)
  PROVE  \/ UNCHANGED <<where, id, stream, cursor, pending, idle, task, handled, dead, history>>
         \/ Delivers /\ (task' = task \/ Delivery # <<>>)
  BY DEF Read, Delivers, history

LEMMA ReadKeepsLog ==
  ASSUME TypeOK, LogFacts, GivenFacts, NEW c \in Consumers, Read(c),
         Delivers
  PROVE  LogFacts' /\ GivenFacts'
<1>1. /\ cursor' = [s \in Streams |-> UpTo(s)]
      /\ pending' = pending \union ToSet(Delivery) /\ given' = given \union ToSet(Delivery)
      /\ UNCHANGED <<where, id, stream, handled, buried>>
  BY DEF Read, Delivers
<1>2. \A s \in Streams :
        /\ UpTo(s) \in cursor[s]..Len(stream[s])
        /\ ToSet(Taken(s)) = {stream[s][i] : i \in cursor[s] + 1..UpTo(s)}
  BY TakenFacts DEF LogFacts
<1>3. ToSet(Delivery) = UNION {ToSet(Taken(s)) : s \in Streams}
  BY DeliveryFacts DEF LogFacts
<1>4. \A s \in Streams : /\ cursor[s] \in Nat /\ Len(stream[s]) \in Nat
                         /\ DOMAIN stream[s] = 1..Len(stream[s])
  BY DEF TypeOK
<1>5. ASSUME NEW s \in Streams, NEW i \in 1..Len(stream[s])
      PROVE  i <= UpTo(s) <=> stream[s][i] \in given'
  <2>1. where[stream[s][i]] = s /\ (i <= cursor[s] <=> stream[s][i] \in given)
    BY DEF LogFacts
  <2>2. CASE i <= cursor[s]
    <3>1. i <= UpTo(s)  BY <1>2, <1>4, <2>2
    <3> QED  BY <1>1, <2>1, <2>2, <3>1
  <2>3. CASE ~(i <= cursor[s]) /\ i <= UpTo(s)
    <3>1. i \in cursor[s] + 1..UpTo(s)  BY <1>2, <1>4, <2>3
    <3>2. stream[s][i] \in ToSet(Taken(s))  BY <1>2, <3>1
    <3> QED  BY <1>1, <1>3, <2>3, <3>2
  <2>4. CASE ~(i <= UpTo(s))
    <3>1. ~(i <= cursor[s])  BY <1>2, <1>4, <2>4
    <3>2. SUFFICES ASSUME NEW t \in Streams, stream[s][i] \in ToSet(Taken(t)) PROVE FALSE
      BY <1>1, <1>3, <2>1, <2>4, <3>1
    <3>3. PICK j \in cursor[t] + 1..UpTo(t) : stream[s][i] = stream[t][j]  BY <1>2, <3>2
    <3>4. j \in 1..Len(stream[t])  BY <1>2, <1>4
    <3>5. t = s  BY <2>1, <3>3, <3>4 DEF LogFacts
    <3>6. i = j  BY <1>4, <3>3, <3>4, <3>5 DEF LogFacts, IsInjective
    <3> QED  BY <1>2, <1>4, <2>4, <3>5, <3>6
  <2> QED  BY <2>2, <2>3, <2>4
<1>6. LogFacts'
  <2>1. \A s \in Streams :
          /\ cursor'[s] <= Len(stream'[s]) /\ IsInjective(stream'[s])
          /\ \A i \in 1..Len(stream'[s]) :
               /\ where'[stream'[s][i]] = s
               /\ i <= cursor'[s] <=> stream'[s][i] \in given'
    BY <1>1, <1>2, <1>4, <1>5 DEF LogFacts
  <2>2. \A m \in Messages : InStream(m)' <=> InStream(m)  BY <1>1 DEF InStream
  <2>3. \A m, n \in Messages :
          where'[m] = where'[n] /\ where'[m] # Nowhere /\ id'[m] = id'[n] => m = n
    BY <1>1 DEF LogFacts
  <2>4. \A m \in Messages :
          where'[m] # Nowhere /\ ~InStream(m)' => Len(stream'[where'[m]]) >= MaxLen
    BY <1>1, <2>2 DEF LogFacts
  <2> QED  BY <2>1, <2>3, <2>4 DEF LogFacts
<1>7. GivenFacts'
  <2>1. pending' \subseteq given'  BY <1>1 DEF GivenFacts
  <2>2. ASSUME NEW m \in given
        PROVE  /\ where'[m] # Nowhere
               /\ \/ m \in pending' \union handled' \union buried'
                  \/ Trimmed(m)' \/ HasTwin(m)'
    BY <1>1 DEF GivenFacts, Trimmed, InStream, HasTwin
  <2>3. ASSUME NEW m \in ToSet(Delivery) PROVE where'[m] # Nowhere /\ m \in pending'
    <3>1. PICK s \in Streams : m \in ToSet(Taken(s))  BY <1>3, <2>3
    <3>2. PICK i \in cursor[s] + 1..UpTo(s) : m = stream[s][i]  BY <1>2, <3>1
    <3>3. i \in 1..Len(stream[s])  BY <1>2, <1>4
    <3>4. where[m] = s  BY <3>2, <3>3 DEF LogFacts
    <3> QED  BY <1>1, <2>3, <3>4 DEF Streams, Nowhere
  <2> QED  BY <1>1, <2>1, <2>2, <2>3 DEF GivenFacts
<1> QED  BY <1>6, <1>7

(* The stream a message is added to, and what is left after a cut. *)
IsLonger(longer, q, m) ==
  /\ longer \in Seq(Messages) /\ Len(longer) = Len(q) + 1 /\ longer[Len(q) + 1] = m
  /\ \A i \in 1..Len(q) : longer[i] = q[i]

IsCut(t, longer, k) ==
  /\ t \in Seq(Messages) /\ Len(t) = Len(longer) - k
  /\ \A i \in 1..Len(longer) - k : t[i] = longer[k + i]

IsShifted(t, q, m, k) ==
  /\ Len(t) \in 1..Len(q) + 1 /\ IsInjective(t) /\ t[Len(t)] = m
  /\ \A j \in 1..Len(t) - 1 : k + j \in 1..Len(q) /\ t[j] = q[k + j] /\ t[j] # m
  /\ \A i \in 1..Len(q) : i > k => q[i] \in ToSet(t)

LEMMA LongerStream ==
  ASSUME TypeOK, LogFacts, NEW m \in Messages, NEW s \in Streams, where[m] = Nowhere,
         NEW longer, IsLonger(longer, stream[s], m),
         NEW k \in Nat, k <= Len(stream[s]), NEW t, IsCut(t, longer, k)
  PROVE  IsShifted(t, stream[s], m, k)
<1> DEFINE q == stream[s]
           n == Len(stream[s])
<1>1. /\ q \in Seq(Messages) /\ n \in Nat /\ n = Len(q) /\ DOMAIN q = 1..n /\ IsInjective(q)
      /\ \A i \in 1..n : q[i] \in Messages /\ where[q[i]] = s
  BY DEF TypeOK, LogFacts
<1>2. \A i \in 1..n : q[i] # m  BY <1>1 DEF Streams, Nowhere
<1> HIDE DEF q, n
<1>3. /\ longer \in Seq(Messages) /\ Len(longer) = n + 1 /\ longer[n + 1] = m
      /\ \A i \in 1..n : longer[i] = q[i]
  BY DEF q, n, IsLonger
<1>4. IsInjective(longer)
  <2>1. DOMAIN longer = 1..n + 1  BY <1>1, <1>3
  <2> SUFFICES ASSUME NEW i \in 1..n + 1, NEW j \in 1..n + 1, longer[i] = longer[j]
               PROVE  i = j
    BY <2>1 DEF IsInjective
  <2>2. CASE i \in 1..n /\ j \in 1..n
    BY <1>1, <1>3, <2>2 DEF IsInjective
  <2>3. CASE i = n + 1 \/ j = n + 1
    <3>1. \A l \in 1..n + 1 : l \in 1..n => longer[l] # longer[n + 1]
      BY <1>2, <1>3
    <3>2. /\ i = n + 1 \/ i \in 1..n
          /\ j = n + 1 \/ j \in 1..n
      BY <1>1
    <3>3. CASE i = n + 1  BY <3>1, <3>2, <3>3
    <3>4. CASE j = n + 1  BY <3>1, <3>2, <3>4
    <3> QED  BY <2>3, <3>3, <3>4
  <2> QED  BY <1>1, <2>2, <2>3
<1> DEFINE b == Len(longer)
<1>5. /\ b = n + 1 /\ t \in Seq(Messages) /\ Len(t) = b - k
      /\ \A i \in 1..b - k : t[i] = longer[k + i]
  BY <1>3 DEF IsCut
<1>6. k <= n  BY DEF n
<1> HIDE DEF b
<1>8. b \in Nat /\ k <= b /\ b <= Len(longer) /\ longer \in Seq(Messages)
  BY <1>1, <1>3, <1>5, <1>6
<1>9. IsInjective(t)
  <2>1. IsInjective(longer) => IsInjective(t)  BY <1>5, <1>8, PartFacts
  <2> QED  BY <1>4, <2>1
<1>10. /\ Len(t) = n + 1 - k /\ Len(t) \in 1..n + 1  BY <1>1, <1>5, <1>6
<1>11. t[Len(t)] = m
  <2>1. Len(t) \in 1..b - k /\ k + Len(t) = n + 1  BY <1>1, <1>5, <1>6, <1>10
  <2> QED  BY <1>3, <1>5, <2>1
<1>12. ASSUME NEW j \in 1..Len(t) - 1
       PROVE  k + j \in 1..n /\ t[j] = q[k + j] /\ t[j] # m
  <2>1. j \in 1..b - k /\ k + j \in 1..n  BY <1>1, <1>5, <1>6, <1>10
  <2> QED  BY <1>2, <1>3, <1>5, <2>1
<1>13. ASSUME NEW i \in 1..n, i > k PROVE q[i] \in ToSet(t)
  <2>1. i - k \in 1..b - k /\ k + (i - k) = i  BY <1>1, <1>5, <1>13
  <2>2. t[i - k] = q[i] /\ i - k \in 1..Len(t)  BY <1>3, <1>5, <2>1
  <2> QED  BY <2>2 DEF ToSet
<1> QED  BY <1>9, <1>10, <1>11, <1>12, <1>13 DEF q, n, IsShifted

LEMMA PublishKeepsLog ==
  ASSUME TypeOK, LogFacts, GivenFacts,
         NEW m \in Messages, NEW s \in Streams, NEW i \in Ids, Publish(m, s, i)
  PROVE  LogFacts' /\ GivenFacts'
<1> DEFINE n == Len(stream[s])
           longer == Append(stream[s], m)
<1>1. /\ where[m] = Nowhere /\ \A x \in Messages : where[x] = s => id[x] # i
      /\ where' = [where EXCEPT ![m] = s] /\ id' = [id EXCEPT ![m] = i]
      /\ UNCHANGED <<pending, buried, handled, given>>
  BY DEF Publish, history
<1>2. PICK k \in 0..(Len(longer) - 1) :
        /\ k = 0 \/ Len(longer) - k >= MaxLen
        /\ stream' = [stream EXCEPT ![s] = SubSeq(longer, k + 1, Len(longer))]
        /\ cursor' = [cursor EXCEPT ![s] = IF @ > k THEN @ - k ELSE 0]
  BY DEF Publish, Drops
<1>3. /\ longer \in Seq(Messages) /\ Len(longer) = n + 1 /\ n \in Nat /\ k \in Nat /\ k <= n
      /\ longer[n + 1] = m /\ \A j \in 1..n : longer[j] = stream[s][j]
      /\ DOMAIN stream[s] = 1..n
  BY <1>2 DEF TypeOK
<1> DEFINE t == stream'[s]
<1>4. t \in Seq(Messages) /\ Len(t) = n + 1 - k /\ \A j \in 1..n + 1 - k : t[j] = longer[k + j]
  <2> DEFINE b == n + 1
             part == SubSeq(longer, k + 1, b)
  <2>1. t = part /\ b = n + 1  BY <1>2, <1>3 DEF TypeOK
  <2> HIDE DEF longer, n
  <2>2. k + 1 \in Int /\ b \in Int /\ \A j \in k + 1..b : longer[j] \in Messages
    BY <1>3
  <2>3. b \in Nat /\ k + 1 <= b /\ b - (k + 1) + 1 = b - k  BY <1>3
  <2> HIDE DEF b
  <2>4. /\ part \in Seq(Messages) /\ Len(part) = IF k + 1 <= b THEN b - (k + 1) + 1 ELSE 0
        /\ \A j \in 1..b - (k + 1) + 1 : part[j] = longer[(k + 1) + j - 1]
    BY <2>2, SubSeqProperties
  <2> HIDE DEF part, t
  <2>5. t \in Seq(Messages) /\ Len(t) = b - k  BY <2>1, <2>3, <2>4
  <2>6. ASSUME NEW j \in 1..b - k PROVE t[j] = longer[k + j]
    <3>1. (k + 1) + j - 1 = k + j /\ j \in 1..b - (k + 1) + 1  BY <1>3, <2>3
    <3> QED  BY <2>1, <2>4, <3>1
  <2>7. b - k = n + 1 - k  BY <1>3, <2>1
  <2>8. Len(t) = n + 1 - k  BY <2>5, <2>7
  <2>9. \A j \in 1..n + 1 - k : t[j] = longer[k + j]  BY <2>6, <2>7
  <2> QED  BY <2>5, <2>8, <2>9
<1>5. /\ Len(t) \in 1..n + 1 /\ IsInjective(t) /\ t[Len(t)] = m
      /\ \A j \in 1..Len(t) - 1 : k + j \in 1..n /\ t[j] = stream[s][k + j] /\ t[j] # m
      /\ \A j \in 1..n : j > k => stream[s][j] \in ToSet(t)
  <2>1. IsLonger(longer, stream[s], m)  BY <1>3 DEF IsLonger
  <2>3. IsCut(t, longer, k)
    <3> HIDE DEF t, longer
    <3> QED  BY <1>3, <1>4 DEF IsCut
  <2>4. k \in Nat /\ k <= Len(stream[s]) /\ where[m] = Nowhere  BY <1>1, <1>3
  <2> HIDE DEF t, longer
  <2>5. IsShifted(t, stream[s], m, k)  BY <2>1, <2>3, <2>4, LongerStream
  <2> QED  BY <2>5 DEF IsShifted
<1>6. /\ \A u \in Streams \ {s} : stream'[u] = stream[u] /\ cursor'[u] = cursor[u]
      /\ \A x \in Messages \ {m} : where'[x] = where[x] /\ id'[x] = id[x]
      /\ where'[m] = s /\ id'[m] = i /\ s # Nowhere /\ cursor[s] \in Nat /\ cursor[s] <= n
      /\ cursor'[s] = IF cursor[s] > k THEN cursor[s] - k ELSE 0
  BY <1>1, <1>2 DEF TypeOK, LogFacts, Streams, Nowhere
<1>7. m \notin given /\ given \subseteq Messages  BY <1>1 DEF GivenFacts, TypeOK
<1>8. n + 1 - k >= MaxLen \/ k = 0  BY <1>2, <1>3
<1> HIDE DEF n, longer, t
<1>9. /\ cursor'[s] <= Len(t) /\ IsInjective(t)
      /\ \A j \in 1..Len(t) : where'[t[j]] = s /\ (j <= cursor'[s] <=> t[j] \in given)
  <2>1. cursor'[s] <= Len(t)  BY <1>3, <1>4, <1>6
  <2>2. ASSUME NEW j \in 1..Len(t)
        PROVE  where'[t[j]] = s /\ (j <= cursor'[s] <=> t[j] \in given)
    <3>1. CASE j = Len(t)
      <4>1. ~(j <= cursor'[s])  BY <1>3, <1>4, <1>6, <3>1
      <4> QED  BY <1>5, <1>6, <1>7, <3>1, <4>1
    <3>2. CASE j # Len(t)
      <4>1. k + j \in 1..n /\ t[j] = stream[s][k + j] /\ t[j] # m
        <5>1. j \in 1..Len(t) - 1  BY <1>5, <3>2
        <5> QED  BY <1>5, <5>1
      <4>2. where[t[j]] = s /\ (k + j <= cursor[s] <=> t[j] \in given)
        <5>1. \A l \in 1..n : where[stream[s][l]] = s
                            /\ (l <= cursor[s] <=> stream[s][l] \in given)
          BY DEF LogFacts, n
        <5> QED  BY <4>1, <5>1
      <4>3. j <= cursor'[s] <=> k + j <= cursor[s]  BY <1>3, <1>5, <1>6
      <4>4. t[j] \in Messages  BY <1>4
      <4> QED  BY <1>6, <4>1, <4>2, <4>3, <4>4
    <3> QED  BY <3>1, <3>2
  <2> QED  BY <1>5, <2>1, <2>2
<1>10. ASSUME NEW u \in Streams \ {s}
       PROVE  /\ cursor'[u] <= Len(stream'[u]) /\ IsInjective(stream'[u])
              /\ \A j \in 1..Len(stream'[u]) :
                   /\ where'[stream'[u][j]] = u
                   /\ j <= cursor'[u] <=> stream'[u][j] \in given'
  <2>1. stream[u] \in Seq(Messages)  BY DEF TypeOK
  <2>2. ASSUME NEW j \in 1..Len(stream[u])
        PROVE  where'[stream[u][j]] = u /\ (j <= cursor[u] <=> stream[u][j] \in given)
    <3>1. where[stream[u][j]] = u /\ (j <= cursor[u] <=> stream[u][j] \in given)
      BY DEF LogFacts
    <3>2. stream[u][j] \in Messages /\ stream[u][j] # m
      BY <1>1, <2>1, <3>1 DEF Streams, Nowhere
    <3> QED  BY <1>6, <3>1, <3>2
  <2> QED  BY <1>1, <1>6, <2>2 DEF LogFacts
<1>11. ASSUME NEW x \in Messages, NEW y \in Messages,
              where'[x] = where'[y], where'[x] # Nowhere, id'[x] = id'[y]
       PROVE  x = y
  BY <1>1, <1>6, <1>11 DEF LogFacts
<1>12. Len(t) >= MaxLen \/ Len(t) >= n
  BY <1>3, <1>4, <1>8
<1>13. InStream(m)'
  BY <1>4, <1>5 DEF InStream, ToSet, t
<1>14. ASSUME NEW x \in Messages \ {m}, where[x] # Nowhere, ~InStream(x)'
       PROVE  Len(stream'[where[x]]) >= MaxLen
  <2>1. where[x] \in Streams  BY <1>14 DEF TypeOK
  <2>2. CASE x \in ToSet(stream[s])
    <3>0. stream[s] \in Seq(Messages)  BY DEF TypeOK
    <3>a. DOMAIN stream[s] = 1..n  BY <3>0 DEF n
    <3>1. PICK j \in 1..n : stream[s][j] = x  BY <2>2, <3>a DEF ToSet
    <3>2. where[x] = s  BY <3>1 DEF LogFacts, n
    <3>3. ~(j > k)  BY <1>5, <1>14, <3>1 DEF InStream, t
    <3>4. k # 0  BY <1>3, <3>3
    <3> QED  BY <1>3, <1>4, <1>8, <3>2, <3>4 DEF t
  <2>3. CASE x \notin ToSet(stream[s])
    <3>1. ~InStream(x)  BY <1>6, <1>14, <2>3 DEF InStream
    <3>2. Len(stream[where[x]]) >= MaxLen  BY <1>14, <3>1 DEF LogFacts
    <3>3. CASE where[x] = s
      BY <1>3, <1>4, <1>8, <1>12, <3>2, <3>3, ConstantsAssumption DEF t, n
    <3>4. CASE where[x] # s  BY <1>6, <2>1, <3>2, <3>4
    <3> QED  BY <3>3, <3>4
  <2> QED  BY <2>2, <2>3
<1>15. LogFacts'
  <2>1. \A u \in Streams :
          /\ cursor'[u] <= Len(stream'[u]) /\ IsInjective(stream'[u])
          /\ \A j \in 1..Len(stream'[u]) :
               /\ where'[stream'[u][j]] = u
               /\ j <= cursor'[u] <=> stream'[u][j] \in given'
    BY <1>1, <1>9, <1>10 DEF t
  <2>2. \A x \in Messages :
          where'[x] # Nowhere /\ ~InStream(x)' => Len(stream'[where'[x]]) >= MaxLen
    BY <1>6, <1>13, <1>14
  <2> QED  BY <1>11, <2>1, <2>2 DEF LogFacts
<1>16. GivenFacts'
  <2> SUFFICES ASSUME NEW x \in given
               PROVE  /\ where'[x] # Nowhere
                      /\ \/ x \in pending' \union handled' \union buried'
                         \/ Trimmed(x)' \/ HasTwin(x)'
    BY <1>1 DEF GivenFacts
  <2>1. /\ x \in Messages \ {m} /\ where[x] # Nowhere
        /\ x \in pending \union handled \union buried \/ Trimmed(x) \/ HasTwin(x)
    BY <1>7 DEF GivenFacts
  <2>2. HasTwin(x) => HasTwin(x)'  BY <1>1, <1>6, <1>7, <2>1 DEF HasTwin
  <2>3. ASSUME Trimmed(x) PROVE Trimmed(x)'
    <3>1. ~InStream(x)'
      <4> SUFFICES ASSUME NEW u \in Streams, x \in ToSet(stream'[u]) PROVE FALSE
        BY DEF InStream
      <4>1. CASE u # s  BY <1>6, <2>3, <4>1 DEF Trimmed, InStream
      <4>2. CASE u = s
        <5>1. PICK j \in 1..Len(t) : t[j] = x  BY <1>4, <4>2 DEF ToSet, t
        <5>2. j \in 1..Len(t) - 1  BY <1>5, <2>1, <5>1
        <5>3. k + j \in 1..n /\ stream[s][k + j] = x  BY <1>5, <5>1, <5>2
        <5>4. x \in ToSet(stream[s])  BY <1>3, <5>3 DEF ToSet
        <5> QED  BY <2>3, <5>4 DEF Trimmed, InStream
      <4> QED  BY <4>1, <4>2
    <3>2. Len(stream'[where[x]]) >= MaxLen  BY <1>14, <2>1, <3>1
    <3> QED  BY <1>6, <2>1, <3>1, <3>2 DEF Trimmed
  <2> QED  BY <1>1, <1>6, <2>1, <2>2, <2>3
<1> QED  BY <1>15, <1>16

-----------------------------------------------------------------------------
(* The consumers *)
LEMMA BatchFacts ==
  ASSUME TypeOK, WorkFacts, NEW c \in Consumers, task[c].pc \in BusyPlaces
  PROVE  /\ task[c].batch \in Seq(Messages) /\ task[c].batch # <<>>
         /\ Current(c) = task[c].batch[1] /\ 1 \in 1..Len(task[c].batch)
         /\ Current(c) \in Messages /\ Current(c) \in given
         /\ Current(c) \in ToSet(task[c].batch)
         /\ Tried(task[c].pc, 1, tries[Current(c)])
<1>1. task[c].batch \in Seq(Messages) /\ task[c].batch # <<>> /\ IsInjective(task[c].batch)
  BY DEF TypeOK, WorkFacts, TaskFacts, BusyPlaces
<1>2. /\ Current(c) = task[c].batch[1] /\ 1 \in 1..Len(task[c].batch)
      /\ Current(c) \in Messages /\ Current(c) \in ToSet(task[c].batch)
  BY <1>1, RestOfBatch DEF Current
<1> QED  BY <1>1, <1>2 DEF WorkFacts, TaskFacts

(* One consumer steps without reading. *)
LEMMA OneConsumerSteps ==
  ASSUME TypeOK, WorkFacts, NEW c \in Consumers,
         \A d \in Consumers \ {c} : task'[d] = task[d],
         given' = given, handled \subseteq handled', buried \subseteq buried',
         \A m \in Messages \ ToSet(task[c].batch) : tries'[m] = tries[m],
         ToSet(task'[c].batch) \subseteq ToSet(task[c].batch), TaskFacts(c)'
  PROVE  WorkFacts'
<1>1. ASSUME NEW d \in Consumers \ {c} PROVE TaskFacts(d)'
  <2>1. TaskFacts(d) /\ ToSet(task[c].batch) \intersect ToSet(task[d].batch) = {}
    BY DEF WorkFacts
  <2>2. task[d].batch \in Seq(Messages)  BY DEF TypeOK
  <2>3. \A i \in 1..Len(task[d].batch) : tries'[task[d].batch[i]] = tries[task[d].batch[i]]
    BY <2>1, <2>2 DEF ToSet
  <2> QED  BY <2>1, <2>3 DEF TaskFacts, At, Current
<1>2. ASSUME NEW d \in Consumers, NEW b \in Consumers, d # b
      PROVE  ToSet(task'[d].batch) \intersect ToSet(task'[b].batch) = {}
  <2>1. ToSet(task[d].batch) \intersect ToSet(task[b].batch) = {}  BY <1>2 DEF WorkFacts
  <2>2. /\ ToSet(task'[d].batch) \subseteq ToSet(task[d].batch)
        /\ ToSet(task'[b].batch) \subseteq ToSet(task[b].batch)
    OBVIOUS
  <2> QED  BY <2>1, <2>2
<1>3. ASSUME NEW m \in Messages \ given PROVE tries'[m] = 0
  BY DEF WorkFacts, TaskFacts
<1> QED  BY <1>1, <1>2, <1>3 DEF WorkFacts

(* A batch that is let go of. *)
LEMMA EmptyBatch ==
  ASSUME NEW c \in Consumers, task'[c].batch = <<>>, task'[c].pc \in {"read", "ended"}
  PROVE  TaskFacts(c)' /\ ToSet(task'[c].batch) = {}
  BY DEF TaskFacts, At, IsInjective, ToSet

LEMMA NextMessageFacts ==
  ASSUME TypeOK, WorkFacts, NEW c \in Consumers, NextMessage(c),
         task[c].pc \in {"ack", "ackdead"}, UNCHANGED <<given, tries>>
  PROVE  TaskFacts(c)' /\ ToSet(task'[c].batch) \subseteq ToSet(task[c].batch)
<1> DEFINE b == task[c].batch
           rest == task'[c].batch
<1>1. TasksTyped /\ task[c].pc \in BusyPlaces
  BY DEF TypeOK, TasksTyped, TaskStates, BusyPlaces
<1>2. rest = Tail(b) /\ task'[c].pc \in {"read", "handle"} /\ (task'[c].pc = "read" => rest = <<>>)
  BY <1>1, GoesOn
<1>3. /\ b \in Seq(Messages) /\ b # <<>> /\ IsInjective(b) /\ ToSet(b) \subseteq given
      /\ \A i \in 1..Len(b) : Tried(task[c].pc, i, tries[b[i]])
  BY <1>1, BatchFacts DEF WorkFacts, TaskFacts
<1> HIDE DEF b, rest
<1>4. /\ rest \in Seq(Messages) /\ IsInjective(rest) /\ ToSet(rest) \subseteq ToSet(b)
      /\ \A i \in 1..Len(rest) : i + 1 \in 1..Len(b) /\ rest[i] = b[i + 1]
  BY <1>2, <1>3, RestOfBatch
<1>5. ASSUME NEW i \in 1..Len(rest) PROVE Tried(task'[c].pc, i, tries'[rest[i]])
  <2>1. rest # <<>>  BY <1>4
  <2>2. task'[c].pc = "handle"  BY <1>2, <2>1
  <2>3. i + 1 # 1 /\ Tried(task[c].pc, i + 1, tries[b[i + 1]])  BY <1>3, <1>4
  <2> QED  BY <1>4, <2>2, <2>3 DEF Tried
<1>6. task'[c].pc # "ack" /\ task'[c].pc # "ackdead"  BY <1>2
<1> QED  BY <1>3, <1>4, <1>5, <1>6 DEF TaskFacts, At, rest, b

LEMMA ReadKeepsWork ==
  ASSUME TypeOK, LogFacts, WorkFacts, NEW c \in Consumers, Read(c), Delivers,
         task' = task \/ Delivery # <<>>
  PROVE  WorkFacts'
<1>1. /\ task[c].pc = "read" /\ given' = given \union ToSet(Delivery)
      /\ \/ task' = [task EXCEPT ![c] = [pc |-> "handle", batch |-> Delivery]]
         \/ task' = task
      /\ UNCHANGED <<handled, buried, tries>>
  BY DEF Read, Delivers, At
<1>2. task[c].batch = <<>> /\ TasksTyped
  BY <1>1 DEF TypeOK, TasksTyped, TaskStates, BusyPlaces
<1>3. /\ Delivery \in Seq(Messages) /\ IsInjective(Delivery)
      /\ ToSet(Delivery) = UNION {ToSet(Taken(s)) : s \in Streams}
  BY DeliveryFacts DEF LogFacts
<1>4. ASSUME NEW m \in ToSet(Delivery) PROVE m \notin given /\ m \in Messages
  <2>1. PICK s \in Streams : m \in ToSet(Taken(s))  BY <1>3
  <2>2. /\ UpTo(s) \in cursor[s]..Len(stream[s]) /\ cursor[s] \in Nat
        /\ stream[s] \in Seq(Messages)
        /\ ToSet(Taken(s)) = {stream[s][i] : i \in cursor[s] + 1..UpTo(s)}
    BY TakenFacts DEF LogFacts, TypeOK
  <2>3. PICK i \in cursor[s] + 1..UpTo(s) : m = stream[s][i]  BY <2>1, <2>2
  <2>4. i \in 1..Len(stream[s]) /\ ~(i <= cursor[s])  BY <2>2
  <2> QED  BY <2>2, <2>3, <2>4 DEF LogFacts
<1>5. \A m \in Messages \ given' : tries'[m] = 0  BY <1>1 DEF WorkFacts
<1>6. ASSUME NEW d \in Consumers, task'[d] = task[d] PROVE TaskFacts(d)'
  BY <1>1, <1>6 DEF WorkFacts, TaskFacts, At, Current
<1>7. CASE task' = task
  BY <1>5, <1>6, <1>7 DEF WorkFacts
<1>8. CASE task' # task /\ task' = [task EXCEPT ![c] = [pc |-> "handle", batch |-> Delivery]]
  <2>1. /\ task'[c].pc = "handle" /\ task'[c].batch = Delivery
        /\ \A d \in Consumers \ {c} : task'[d] = task[d]
    <3> DEFINE r == [pc |-> "handle", batch |-> Delivery]
    <3>1. r \in TaskStates /\ r.pc \in BusyPlaces /\ r.batch # <<>>
      BY <1>3, <1>8 DEF TaskStates, Places, BusyPlaces
    <3>2. r.pc = "handle" /\ r.batch = Delivery  OBVIOUS
    <3> HIDE DEF r
    <3> QED  BY <1>2, <1>8, <3>1, <3>2, TaskSteps DEF r
  <2>2. TaskFacts(c)'
    <3>1. ASSUME NEW i \in 1..Len(Delivery) PROVE Tried("handle", i, tries'[Delivery[i]])
      <4>1. Delivery[i] \in ToSet(Delivery)  BY <1>3 DEF ToSet
      <4> QED  BY <1>1, <1>4, <4>1 DEF WorkFacts, Tried
    <3> QED  BY <1>1, <1>3, <2>1, <3>1 DEF TaskFacts, At
  <2>3. ASSUME NEW d \in Consumers \ {c}
        PROVE  ToSet(task'[d].batch) \intersect ToSet(task'[c].batch) = {}
    <3>1. ToSet(task[d].batch) \subseteq given  BY DEF WorkFacts, TaskFacts
    <3> QED  BY <1>4, <2>1, <3>1
  <2>4. ASSUME NEW d \in Consumers, NEW b \in Consumers, d # b
        PROVE  ToSet(task'[d].batch) \intersect ToSet(task'[b].batch) = {}
    <3>1. CASE d = c \/ b = c  BY <2>3, <2>4, <3>1
    <3>2. CASE d # c /\ b # c  BY <2>1, <2>4, <3>2 DEF WorkFacts
    <3> QED  BY <3>1, <3>2
  <2> QED  BY <1>5, <1>6, <2>1, <2>2, <2>4 DEF WorkFacts
<1> QED  BY <1>1, <1>7, <1>8

(* The handler is called: it has never seen the message. *)
LEMMA HandleKeepsWork ==
  ASSUME TypeOK, WorkFacts, HandledAtMostOnce, NEW c \in Consumers, Handle(c)
  PROVE  WorkFacts' /\ HandledAtMostOnce'
<1> DEFINE b == task[c].batch
           m == Current(c)
<1>1. /\ task[c].pc = "handle" /\ task[c].pc \in BusyPlaces /\ UNCHANGED <<given, buried>>
  BY DEF Handle, At, BusyPlaces
<1>2. PICK place \in {"ack", "bury"}, n \in {0, 1} :
        /\ GoTo(c, place) /\ tries' = [tries EXCEPT ![m] = @ + n]
        /\ handled' = IF place = "ack" THEN handled \union {m} ELSE handled
        /\ place = "ack" => n = 1
  <2>1. CASE tries' = [tries EXCEPT ![m] = @ + 1]  BY <2>1 DEF Handle
  <2>2. CASE GoTo(c, "bury") /\ UNCHANGED <<handled, tries>>
    <3>1. tries[m] = tries[m] + 0 /\ m \in Messages
      BY <1>1, BatchFacts DEF TypeOK
    <3>2. tries' = [tries EXCEPT ![m] = @ + 0]  BY <2>2, <3>1 DEF TypeOK
    <3> QED  BY <2>2, <3>2
  <2> QED  BY <2>1, <2>2 DEF Handle
<1>3. /\ b \in Seq(Messages) /\ m = b[1] /\ 1 \in 1..Len(b) /\ m \in Messages /\ m \in ToSet(b)
      /\ tries[m] = 0
  BY <1>1, BatchFacts DEF Tried
<1>4. /\ task'[c].pc = place /\ task'[c].batch = b
      /\ \A d \in Consumers \ {c} : task'[d] = task[d]
  <2>1. TasksTyped  BY DEF TypeOK, TasksTyped, TaskStates, BusyPlaces
  <2> QED  BY <1>1, <1>2, <2>1, GoesTo DEF BusyPlaces, Places
<1>5. /\ tries'[m] = n /\ \A x \in Messages \ {m} : tries'[x] = tries[x]
  BY <1>2, <1>3 DEF TypeOK
<1>6. IsInjective(b) /\ ToSet(b) \subseteq given /\ \A i \in 1..Len(b) : tries[b[i]] = 0
  BY <1>1 DEF WorkFacts, TaskFacts, Tried
<1>10. HandledAtMostOnce'
  BY <1>2, <1>3, <1>5 DEF HandledAtMostOnce
<1> HIDE DEF b, m
<1>7. ASSUME NEW i \in 1..Len(b) PROVE Tried(place, i, tries'[b[i]])
  <2>1. CASE i = 1  BY <1>2, <1>3, <1>5, <2>1 DEF Tried
  <2>2. CASE i # 1
    <3>1. b[i] \in Messages /\ b[i] # m  BY <1>3, <1>6, <2>2 DEF IsInjective
    <3> QED  BY <1>5, <1>6, <2>2, <3>1 DEF Tried
  <2> QED  BY <2>1, <2>2
<1>8. TaskFacts(c)'
  BY <1>1, <1>2, <1>4, <1>6, <1>7 DEF TaskFacts, At, Current, m, b
<1>9. WorkFacts'
  <2>1. \A x \in Messages \ ToSet(b) : tries'[x] = tries[x]  BY <1>3, <1>5
  <2>2. handled \subseteq handled' /\ buried \subseteq buried'  BY <1>1, <1>2
  <2> QED  BY <1>1, <1>4, <1>8, <2>1, <2>2, OneConsumerSteps DEF b
<1> QED  BY <1>9, <1>10

(* After the handler nothing is called: the batch goes on, or is dropped. *)
LEMMA AnswersKeepWork ==
  ASSUME TypeOK, WorkFacts, HandledAtMostOnce, NEW c \in Consumers, Ack(c) \/ Bury(c) \/ AckDead(c)
  PROVE  WorkFacts' /\ HandledAtMostOnce'
<1>0. TasksTyped  BY DEF TypeOK, TasksTyped, TaskStates, BusyPlaces
<1>1. /\ task[c].pc \in {"ack", "bury", "ackdead"} /\ task[c].pc \in BusyPlaces
      /\ UNCHANGED <<given, tries, handled>> /\ buried \subseteq buried'
  BY DEF Ack, Bury, AckDead, SendAck, SendToDlq, At, BusyPlaces, history
<1>3. HandledAtMostOnce'
  BY <1>1 DEF HandledAtMostOnce
<1>4. CASE task[c].pc \in {"ack", "ackdead"} /\ NextMessage(c)
  <2>1. TaskFacts(c)' /\ ToSet(task'[c].batch) \subseteq ToSet(task[c].batch)
    BY <1>1, <1>4, NextMessageFacts
  <2>2. \A d \in Consumers \ {c} : task'[d] = task[d]  BY <1>0, <1>1, <1>4, GoesOn
  <2> QED  BY <1>1, <1>3, <2>1, <2>2, OneConsumerSteps
<1>5. CASE Abandon(c)
  <2>1. /\ task'[c].pc = "read" /\ task'[c].batch = <<>>
        /\ \A d \in Consumers \ {c} : task'[d] = task[d]
    BY <1>0, <1>5, LetsGo DEF Abandon
  <2>2. TaskFacts(c)' /\ ToSet(task'[c].batch) \subseteq ToSet(task[c].batch)
    BY <2>1, EmptyBatch
  <2> QED  BY <1>1, <1>3, <2>1, <2>2, OneConsumerSteps
<1>6. ASSUME NEW place \in {"bury", "ackdead"}, GoTo(c, place),
             place = "ackdead" => Current(c) \in buried'
      PROVE  WorkFacts'
  <2>1. /\ task'[c].pc = place /\ task'[c].batch = task[c].batch
        /\ \A d \in Consumers \ {c} : task'[d] = task[d]
    BY <1>0, <1>1, <1>6, GoesTo DEF BusyPlaces, Places
  <2>2. \A i \in 1..Len(task[c].batch), n \in Nat :
          Tried(task[c].pc, i, n) => Tried(place, i, n)
    BY <1>1 DEF Tried
  <2>3. TaskFacts(c)
    BY DEF WorkFacts
  <2>4. Current(c)' = Current(c)  BY <2>1 DEF Current
  <2>5. TaskFacts(c)'
    <3>1. \A i \in 1..Len(task[c].batch) : tries[task[c].batch[i]] \in Nat
      BY <2>3 DEF TaskFacts, Tried
    <3> QED  BY <1>1, <1>6, <2>1, <2>2, <2>3, <2>4, <3>1 DEF TaskFacts, At
  <2>6. ToSet(task'[c].batch) \subseteq ToSet(task[c].batch)  BY <2>1
  <2> QED  BY <1>1, <2>1, <2>5, <2>6, OneConsumerSteps
<1>7. CASE Ack(c)
  <2>1. task[c].pc = "ack" /\ (NextMessage(c) \/ GoTo(c, "bury"))  BY <1>7 DEF Ack, At
  <2> QED  BY <1>3, <1>4, <1>6, <2>1
<1>8. CASE Bury(c)
  <2>1. Abandon(c) \/ (GoTo(c, "ackdead") /\ Current(c) \in buried')
    BY <1>8 DEF Bury, SendToDlq
  <2> QED  BY <1>3, <1>5, <1>6, <2>1
<1>9. CASE AckDead(c)
  <2>1. task[c].pc = "ackdead" /\ (NextMessage(c) \/ Abandon(c))  BY <1>9 DEF AckDead, At
  <2> QED  BY <1>3, <1>4, <1>5, <2>1
<1> QED  BY <1>7, <1>8, <1>9

(* An acknowledgement takes the message itself, or its twin. *)
LEMMA SendAckKeepsLog ==
  ASSUME TypeOK, LogFacts, GivenFacts, WorkFacts, NEW c \in Consumers, NEW reply \in Replies,
         SendAck(c, reply), task[c].pc \in {"ack", "ackdead"}
  PROVE  LogFacts' /\ GivenFacts'
<1>1. /\ pending' \subseteq pending /\ UNCHANGED <<where, id, stream, cursor, given, handled, buried>>
      /\ \A m \in pending \ pending' : where[m] = "normal" /\ id[m] = id[Current(c)]
  BY SendAckFacts DEF history
<1>2. /\ Current(c) \in handled \union buried /\ Current(c) \in Messages /\ Current(c) \in given
      /\ pending \subseteq Messages
  BY BatchFacts DEF BusyPlaces, WorkFacts, TaskFacts, At, TypeOK
<1>3. ASSUME NEW m \in pending \ pending' PROVE m \in handled \union buried \/ HasTwin(m)
  <2>1. CASE where[Current(c)] = where[m]
    <3>1. m = Current(c)  BY <1>1, <1>2, <2>1 DEF LogFacts, Nowhere
    <3> QED  BY <1>2, <3>1
  <2>2. CASE where[Current(c)] # where[m]
    BY <1>1, <1>2, <2>2 DEF HasTwin
  <2> QED  BY <2>1, <2>2
<1> QED  BY <1>1, <1>3, LogIsKept

-----------------------------------------------------------------------------
LEMMA LogAndWorkNext ==
  ASSUME TypeOK, LogFacts, GivenFacts, WorkFacts, HandledAtMostOnce, [Next]_vars
  PROVE  LogFacts' /\ GivenFacts' /\ WorkFacts' /\ HandledAtMostOnce'
<1>0. TasksTyped  BY DEF TypeOK, TasksTyped, TaskStates, BusyPlaces
<1>1. ASSUME UNCHANGED <<task, handled, buried, given, tries>>
      PROVE  WorkFacts' /\ HandledAtMostOnce'
  BY <1>1 DEF WorkFacts, TaskFacts, At, Current, HandledAtMostOnce
<1>2. ASSUME UNCHANGED <<where, id, stream, cursor, pending, given>>,
             handled \subseteq handled', buried \subseteq buried'
      PROVE  LogFacts' /\ GivenFacts'
  BY <1>2, LogIsKept
<1>3. CASE UNCHANGED vars  BY <1>1, <1>2, <1>3 DEF vars, server, history
<1>4. ASSUME NEW m \in Messages, NEW s \in Streams, NEW i \in Ids, Publish(m, s, i)
      PROVE  LogFacts' /\ GivenFacts' /\ WorkFacts' /\ HandledAtMostOnce'
  <2>1. LogFacts' /\ GivenFacts'  BY <1>4, PublishKeepsLog
  <2> QED  BY <1>1, <1>4, <2>1 DEF Publish, history
<1>5. ASSUME NEW m \in Messages, GrowsIdle(m)
      PROVE  LogFacts' /\ GivenFacts' /\ WorkFacts' /\ HandledAtMostOnce'
  BY <1>1, <1>2, <1>5 DEF GrowsIdle
<1>6. ASSUME NEW c \in Consumers, Subscribe(c) \/ Ends(c)
      PROVE  LogFacts' /\ GivenFacts' /\ WorkFacts' /\ HandledAtMostOnce'
  <2>1. /\ UNCHANGED <<where, id, stream, cursor, pending, buried, handled, given, tries>>
    BY <1>6 DEF Subscribe, Ends, server, history
  <2>2. LogFacts' /\ GivenFacts'  BY <1>2, <2>1
  <2>3. HandledAtMostOnce'  BY <2>1 DEF HandledAtMostOnce
  <2>4. /\ task'[c].pc \in {"read", "ended"} /\ task'[c].batch = <<>>
        /\ \A d \in Consumers \ {c} : task'[d] = task[d]
    <3>1. CASE Subscribe(c)
      <4>1. task[c].pc \notin BusyPlaces /\ GoTo(c, "read") /\ task[c].batch = <<>>
        BY <1>0, <3>1 DEF Subscribe, At, BusyPlaces, TasksTyped
      <4> QED  BY <1>0, <4>1, GoesTo DEF BusyPlaces, Places
    <3>2. CASE Ends(c)  BY <1>0, <3>2, LetsGo DEF Ends
    <3> QED  BY <1>6, <3>1, <3>2
  <2>5. TaskFacts(c)' /\ ToSet(task'[c].batch) \subseteq ToSet(task[c].batch)
    BY <2>4, EmptyBatch
  <2> QED  BY <2>1, <2>2, <2>3, <2>4, <2>5, OneConsumerSteps
<1>7. ASSUME NEW c \in Consumers, Read(c)
      PROVE  LogFacts' /\ GivenFacts' /\ WorkFacts' /\ HandledAtMostOnce'
  <2>1. UNCHANGED <<handled, tries>>  BY <1>7 DEF Read
  <2>2. HandledAtMostOnce'  BY <2>1 DEF HandledAtMostOnce
  <2>3. CASE UNCHANGED <<where, id, stream, cursor, pending, idle, task, handled, dead, history>>
    BY <1>1, <1>2, <2>3 DEF history
  <2>4. CASE Delivers /\ (task' = task \/ Delivery # <<>>)
    BY <1>7, <2>2, <2>4, ReadKeepsLog, ReadKeepsWork
  <2> QED  BY <1>7, <2>3, <2>4, ReadCases
<1>8. ASSUME NEW c \in Consumers, Handle(c)
      PROVE  LogFacts' /\ GivenFacts' /\ WorkFacts' /\ HandledAtMostOnce'
  <2>1. /\ UNCHANGED <<where, id, stream, cursor, pending, buried, given>>
        /\ handled \subseteq handled'
    BY <1>8 DEF Handle, server
  <2> QED  BY <1>2, <1>8, <2>1, HandleKeepsWork
<1>9. ASSUME NEW c \in Consumers, Ack(c) \/ AckDead(c)
      PROVE  LogFacts' /\ GivenFacts' /\ WorkFacts' /\ HandledAtMostOnce'
  <2>1. PICK reply \in Replies : SendAck(c, reply)  BY <1>9 DEF Ack, AckDead
  <2>2. task[c].pc \in {"ack", "ackdead"}  BY <1>9 DEF Ack, AckDead, At
  <2> QED  BY <1>9, <2>1, <2>2, SendAckKeepsLog, AnswersKeepWork
<1>10. ASSUME NEW c \in Consumers, Bury(c)
       PROVE  LogFacts' /\ GivenFacts' /\ WorkFacts' /\ HandledAtMostOnce'
  <2>1. /\ UNCHANGED <<where, id, stream, cursor, pending, handled, given>>
        /\ buried \subseteq buried'
    BY <1>10 DEF Bury, SendToDlq
  <2> QED  BY <1>2, <1>10, <2>1, AnswersKeepWork
<1>11. ASSUME NEW k \in Claimers, ListPending(k) \/ ClaimFails(k)
       PROVE  LogFacts' /\ GivenFacts' /\ WorkFacts' /\ HandledAtMostOnce'
  BY <1>1, <1>2, <1>11 DEF ListPending, ClaimFails, server, history
<1>12. ASSUME NEW k \in Claimers, NEW m \in Messages, Claim(k, m)
       PROVE  LogFacts' /\ GivenFacts' /\ WorkFacts' /\ HandledAtMostOnce'
  <2>1. UNCHANGED <<where, id, stream, cursor, buried, task, handled, given, tries>>
    BY <1>12 DEF Claim
  <2>2. pending' \subseteq pending /\ \A n \in pending \ pending' : ~InStream(n)
    BY <1>12, ClaimCases
  <2>3. LogFacts' /\ GivenFacts'  BY <2>1, <2>2, LogIsKept
  <2> QED  BY <1>1, <2>1, <2>3
<1>13. CASE OtherDies
  BY <1>1, <1>2, <1>13 DEF OtherDies, history
<1> QED
  BY <1>3, <1>4, <1>5, <1>6, <1>7, <1>8, <1>9, <1>10, <1>11, <1>12, <1>13 DEF Next, Consume

(* What is dead stays in the queue or was dropped from it. *)
LEMMA DeadNext ==
  ASSUME TypeOK, WorkFacts, DeadFacts, [Next]_vars
  PROVE  DeadFacts'
<1>1. ASSUME UNCHANGED <<dead, buried>> PROVE DeadFacts'
  BY <1>1 DEF DeadFacts
<1>2. ASSUME NEW e \in Messages \union {Other}, AddToDead(e), buried' \subseteq buried \union {e}
      PROVE  DeadFacts'
  <2>1. /\ Len(dead) >= MaxDead => Len(dead') >= MaxDead
        /\ Len(dead') >= MaxDead \/ ToSet(dead) \union {e} \subseteq ToSet(dead')
    BY <1>2, AddedToDead
  <2> QED  BY <1>2, <2>1 DEF DeadFacts
<1>3. CASE UNCHANGED vars  BY <1>1, <1>3 DEF vars, server, history
<1>4. ASSUME NEW m \in Messages, GrowsIdle(m) \/ \E s \in Streams, i \in Ids : Publish(m, s, i)
      PROVE  DeadFacts'
  BY <1>1, <1>4 DEF GrowsIdle, Publish, history
<1>5. ASSUME NEW c \in Consumers, Subscribe(c) \/ Read(c) \/ Handle(c) \/ Ends(c)
      PROVE  DeadFacts'
  BY <1>1, <1>5 DEF Subscribe, Read, Handle, Ends, server, history
<1>6. ASSUME NEW c \in Consumers, Ack(c) \/ AckDead(c) PROVE DeadFacts'
  <2>1. PICK reply \in Replies : SendAck(c, reply)  BY <1>6 DEF Ack, AckDead
  <2> QED  BY <1>1, <2>1 DEF SendAck, history
<1>7. ASSUME NEW c \in Consumers, Bury(c) PROVE DeadFacts'
  <2>1. PICK reply \in Replies : SendToDlq(c, reply)  BY <1>7 DEF Bury
  <2>2. Current(c) \in Messages
    <3>1. task[c].pc \in BusyPlaces  BY <1>7 DEF Bury, At, BusyPlaces
    <3> QED  BY <3>1, BatchFacts
  <2>3. CASE reply = "refused"  BY <1>1, <2>1, <2>3 DEF SendToDlq
  <2>4. CASE reply # "refused"  BY <1>2, <2>1, <2>2, <2>4 DEF SendToDlq
  <2> QED  BY <2>3, <2>4
<1>8. ASSUME NEW k \in Claimers, \/ ListPending(k) \/ ClaimFails(k)
                                 \/ \E m \in Messages : Claim(k, m)
      PROVE  DeadFacts'
  BY <1>1, <1>8 DEF ListPending, ClaimFails, Claim, server, history
<1>9. CASE OtherDies
  BY <1>2, <1>9 DEF OtherDies, history
<1> QED  BY <1>3, <1>4, <1>5, <1>6, <1>7, <1>8, <1>9 DEF Next, Consume

(* A claim is counted for what is idle, and makes it no longer idle. *)
LEMMA ClaimsNext ==
  ASSUME TypeOK, ClaimFacts, ClaimedByOne, [Next]_vars
  PROVE  ClaimFacts' /\ ClaimedByOne'
<1>1. ASSUME idle' \subseteq idle, claims' = claims PROVE ClaimFacts' /\ ClaimedByOne'
  BY <1>1 DEF ClaimFacts, ClaimedByOne
<1>2. ASSUME NEW m \in Messages, GrowsIdle(m) PROVE ClaimFacts' /\ ClaimedByOne'
  <2>1. /\ idle' = idle \union {m} /\ claims'[m] = 0
        /\ \A n \in Messages \ {m} : claims'[n] = claims[n]
    BY <1>2 DEF GrowsIdle, TypeOK
  <2>2. idle \subseteq Messages  BY DEF TypeOK
  <2>3. ClaimFacts'  BY <2>1, <2>2 DEF ClaimFacts
  <2>4. ClaimedByOne'  BY <2>1 DEF ClaimedByOne
  <2> QED  BY <2>3, <2>4
<1>3. ASSUME NEW k \in Claimers, NEW m \in Messages, Claim(k, m)
      PROVE  ClaimFacts' /\ ClaimedByOne'
  <2>1. CASE idle' \subseteq idle /\ claims' = claims  BY <1>1, <2>1
  <2>2. CASE m \in idle /\ idle' = idle \ {m} /\ claims' = [claims EXCEPT ![m] = @ + 1]
    <3>1. claims'[m] = 1 /\ \A n \in Messages \ {m} : claims'[n] = claims[n]
      BY <2>2 DEF ClaimFacts, TypeOK
    <3>2. ClaimFacts'
      <4>1. \A n \in idle' : n \in idle \ {m} /\ n \in Messages  BY <2>2 DEF TypeOK
      <4> QED  BY <3>1, <4>1 DEF ClaimFacts
    <3>3. ClaimedByOne'  BY <3>1 DEF ClaimedByOne
    <3> QED  BY <3>2, <3>3
  <2> QED  BY <1>3, <2>1, <2>2, ClaimCases
<1>4. ASSUME NEW c \in Consumers, Ack(c) \/ AckDead(c) PROVE idle' \subseteq idle /\ claims' = claims
  BY <1>4, SendAckFacts DEF Ack, AckDead, history
<1>5. ASSUME NEW c \in Consumers, Subscribe(c) \/ Read(c) \/ Handle(c) \/ Bury(c) \/ Ends(c)
      PROVE  idle' \subseteq idle /\ claims' = claims
  BY <1>5 DEF Subscribe, Read, Handle, Bury, SendToDlq, Ends, server, history
<1>6. ASSUME NEW m \in Messages, NEW s \in Streams, NEW i \in Ids, Publish(m, s, i)
      PROVE  idle' \subseteq idle /\ claims' = claims
  BY <1>6 DEF Publish, history
<1>7. ASSUME NEW k \in Claimers, ListPending(k) \/ ClaimFails(k)
      PROVE  idle' \subseteq idle /\ claims' = claims
  BY <1>7 DEF ListPending, ClaimFails, server, history
<1>8. CASE UNCHANGED vars  BY <1>1, <1>8 DEF vars, server, history
<1>9. CASE OtherDies  BY <1>1, <1>9 DEF OtherDies, history
<1> QED  BY <1>1, <1>2, <1>3, <1>4, <1>5, <1>6, <1>7, <1>8, <1>9 DEF Next, Consume

LEMMA IInvNext == IInv /\ [Next]_vars => IInv'
  BY TypeNext, LogAndWorkNext, ClaimsNext, DeadNext DEF IInv

LEMMA IInvInit == Init => IInv
<1> SUFFICES ASSUME Init PROVE IInv  OBVIOUS
<1>1. TypeOK  BY TypeInit
<1>2. HandledAtMostOnce /\ ClaimedByOne /\ GivenFacts /\ ClaimFacts /\ DeadFacts
  BY DEF Init, HandledAtMostOnce, ClaimedByOne, GivenFacts, ClaimFacts, DeadFacts
<1>3. LogFacts
  <2>1. \A s \in Streams : stream[s] = <<>> /\ cursor[s] = 0 /\ IsInjective(stream[s])
    BY DEF Init, IsInjective
  <2> QED  BY <2>1 DEF Init, LogFacts
<1>4. WorkFacts
  <2>1. \A c \in Consumers : /\ task[c].pc = "none" /\ task[c].batch = <<>>
                             /\ ToSet(task[c].batch) = {} /\ IsInjective(task[c].batch)
    BY DEF Init, ToSet, IsInjective
  <2> QED  BY <2>1 DEF Init, WorkFacts, TaskFacts, At
<1> QED  BY <1>1, <1>2, <1>3, <1>4 DEF IInv

(* What the invariant says of a message. *)
LEMMA NothingLost == IInv => NoMessageLost
<1> SUFFICES ASSUME IInv, NEW m \in Messages, where[m] # Nowhere
             PROVE  \/ Unread(m) \/ m \in pending \union handled \union ToSet(dead)
                    \/ Trimmed(m) \/ HasTwin(m) \/ DroppedFromDead(m)
  BY DEF NoMessageLost
<1>1. CASE m \in given
  <2>1. m \in pending \union handled \union buried \/ Trimmed(m) \/ HasTwin(m)
    BY <1>1 DEF IInv, GivenFacts
  <2> QED  BY <2>1 DEF IInv, DeadFacts, DroppedFromDead
<1>2. CASE m \notin given /\ ~InStream(m)  BY <1>2 DEF IInv, LogFacts, Trimmed
<1>3. CASE m \notin given /\ InStream(m)
  <2>1. PICK s \in Streams : m \in ToSet(stream[s])  BY <1>3 DEF InStream
  <2>2. DOMAIN stream[s] = 1..Len(stream[s]) /\ cursor[s] \in Nat /\ Len(stream[s]) \in Nat
    BY DEF IInv, TypeOK
  <2>3. PICK i \in 1..Len(stream[s]) : stream[s][i] = m  BY <2>1, <2>2 DEF ToSet
  <2>4. i > cursor[s]  BY <1>3, <2>2, <2>3 DEF IInv, LogFacts
  <2> QED  BY <2>2, <2>3, <2>4 DEF Unread
<1> QED  BY <1>1, <1>2, <1>3

-----------------------------------------------------------------------------
(* The types, and that a task holds a batch exactly while it works on one. *)
THEOREM TypeCorrect == Spec => []TypeOK
<1>1. IInv => TypeOK  BY DEF IInv
<1> QED  BY IInvInit, IInvNext, <1>1, PTL DEF Spec

(* A message is unread, pending, handled or dead, whatever fails, unless    *)
(* its stream or the dead letter queue was cut or its twin acknowledged.    *)
THEOREM NothingIsLost == Spec => []NoMessageLost
  BY IInvInit, IInvNext, NothingLost, PTL DEF Spec

(* No handler is called twice with a message, and what was handled was tried. *)
THEOREM HandledOnce == Spec => []HandledAtMostOnce
<1>1. IInv => HandledAtMostOnce  BY DEF IInv
<1> QED  BY IInvInit, IInvNext, <1>1, PTL DEF Spec

(* Two concurrent claims of a message do not both succeed. *)
THEOREM OneClaimWins == Spec => []ClaimedByOne
<1>1. IInv => ClaimedByOne  BY DEF IInv
<1> QED  BY IInvInit, IInvNext, <1>1, PTL DEF Spec
=============================================================================
