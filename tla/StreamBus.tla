------------------------------ MODULE StreamBus ------------------------------
(***************************************************************************)
(* src/src/infrastructure/messaging.py, RedisStreamBus: publishers add     *)
(* messages to one of three Redis streams of a topic, consumers of one     *)
(* group read them in batches, run a handler on each, acknowledge it or    *)
(* put it into the dead letter queue, and claim_pending_messages hands out *)
(* what a consumer that failed has left behind.                            *)
(*                                                                         *)
(* The processes of the consumers share nothing but the Redis server.  A   *)
(* request may be refused, or be executed while its answer is lost: the    *)
(* client sees an exception both times.  A message is an entry of a        *)
(* stream: a publish repeated by its caller adds another one.              *)
(*                                                                         *)
(* The loop reads with the arguments group_name and consumer_name.  The    *)
(* pinned aioredis 2.0.1 has groupname and consumername there and raises;  *)
(* a library that takes the names reads.  The model starts with either.    *)
(* The ephemeral pub/sub copy of every message (_subscribe_pubsub) is not  *)
(* part of it.                                                             *)
(***************************************************************************)
EXTENDS Naturals, Sequences, FiniteSets, SequencesExt

CONSTANTS
  Messages,  (* bound: the messages published on the topic                   *)
  Ids,       (* ids the server gives, from its clock: they only grow, but    *)
             (* messages of different streams may have the same              *)
  Consumers, (* bound: one per subscription; a restarted process subscribes  *)
             (* under a new consumer name                                    *)
  Claimers,  (* callers of claim_pending_messages                            *)
  BatchSize, (* batch_size: messages per stream in one read                  *)
  MaxLen,    (* stream_maxlen                                                *)
  MaxDead    (* the dead letter queue's maxlen                               *)

Streams == {"critical", "normal", "low"}
Nowhere == "none"
Other   == "other"  (* a dead message of another topic *)
NoId    == 0

ASSUME ConstantsAssumption ==
  /\ Ids \subseteq Nat \ {NoId}
  /\ {BatchSize, MaxLen, MaxDead} \subseteq Nat \ {0}
  /\ Other \notin Messages

VARIABLES
  where,     (* the stream a message was published on                        *)
  id,        (* server: the id it was given there                            *)
  stream,    (* server: entries of each stream, oldest first                 *)
  cursor,    (* server: how many of them the group has been given            *)
  pending,   (* server: messages given to a consumer and not acknowledged    *)
  idle,      (* server: those of the normal stream given more than           *)
             (* idle_time_ms ago; nobody asks about the others               *)
  dead,      (* server: the dead letter queue of all topics, oldest first    *)
  fits,      (* the client library takes the names of the read's arguments   *)
  running,   (* _running of each consumer's bus                              *)
  task,      (* where each consumer task is, and the rest of its batch       *)
  listed,    (* what each running claim_pending_messages has still to claim  *)
  handled,   (* messages whose handler has returned                          *)
  given,     (* history: messages the group has been given                   *)
  buried,    (* history: messages that were put into the dead letter queue   *)
  tries,     (* history: how often a handler was called with the message     *)
  claims     (* history: how often it was claimed since it became idle       *)

server  == <<where, id, stream, cursor, pending, idle, dead>>
history == <<given, buried, tries, claims>>
vars    == <<server, fits, running, task, listed, handled, history>>

Replies == {"ok", "lost", "refused"}

Init ==
  /\ where = [m \in Messages |-> Nowhere] /\ id = [m \in Messages |-> NoId]
  /\ stream = [s \in Streams |-> <<>>] /\ cursor = [s \in Streams |-> 0]
  /\ pending = {} /\ idle = {} /\ dead = <<>> /\ fits \in BOOLEAN
  /\ running = [c \in Consumers |-> FALSE]
  /\ task = [c \in Consumers |-> [pc |-> "none", batch |-> <<>>]]
  /\ listed = [k \in Claimers |-> {}]
  /\ handled = {} /\ given = {} /\ buried = {}
  /\ tries = [m \in Messages |-> 0] /\ claims = [m \in Messages |-> 0]

At(c, place) == task[c].pc = place
Current(c) == Head(task[c].batch)
GoTo(c, place) == task' = [task EXCEPT ![c].pc = place]

-----------------------------------------------------------------------------
(* XADD with MAXLEN ~ limit may drop entries, the oldest first, as long as  *)
(* limit remain: how many.                                                  *)
Drops(longer, limit) == {k \in 0..(Len(longer) - 1) : k = 0 \/ Len(longer) - k >= limit}

(* publish: the priority chooses the stream.  An entry is dropped whether   *)
(* or not the group has been given it.                                      *)
Publish(m, s, i) ==
  LET longer == Append(stream[s], m) IN
  /\ where[m] = Nowhere
  /\ \A n \in Messages : id[n] <= i /\ (where[n] = s => id[n] # i)
  /\ where' = [where EXCEPT ![m] = s] /\ id' = [id EXCEPT ![m] = i]
  /\ \E k \in Drops(longer, MaxLen) :
       /\ stream' = [stream EXCEPT ![s] = SubSeq(longer, k + 1, Len(longer))]
       /\ cursor' = [cursor EXCEPT ![s] = IF @ > k THEN @ - k ELSE 0]
  /\ UNCHANGED <<pending, idle, dead, fits, running, task, listed, handled, history>>

(* start, connect and subscribe: the group begins with the oldest entry. *)
Subscribe(c) ==
  /\ At(c, "none")
  /\ running' = [running EXCEPT ![c] = TRUE] /\ GoTo(c, "read")
  /\ UNCHANGED <<server, fits, listed, handled, history>>

(* What XREADGROUP delivers of a stream, and of the three in this order. *)
Lesser(a, b) == IF a < b THEN a ELSE b
UpTo(s)  == Lesser(cursor[s] + BatchSize, Len(stream[s]))
Taken(s) == SubSeq(stream[s], cursor[s] + 1, UpTo(s))
Delivery == Taken("critical") \o Taken("normal") \o Taken("low")

(* One read.  When the answer is lost, the server has delivered the batch   *)
(* all the same, and the loop goes on with the messages after it; when the  *)
(* request is refused or raises, or nothing is there, it reads again.       *)
Read(c) ==
  /\ At(c, "read")
  /\ \E reply \in Replies :
       IF reply = "refused" \/ ~fits
       THEN UNCHANGED <<task, cursor, pending, given>>
       ELSE /\ task' = IF reply = "ok" /\ Delivery # <<>>
                       THEN [task EXCEPT ![c] = [pc |-> "handle", batch |-> Delivery]]
                       ELSE task
            /\ cursor' = [s \in Streams |-> UpTo(s)]
            /\ pending' = pending \union ToSet(Delivery)
            /\ given' = given \union ToSet(Delivery)
  /\ UNCHANGED <<where, id, stream, idle, dead, fits, running, listed, handled,
                 buried, tries, claims>>

(* The message is parsed and the handler returns or raises; or it cannot be *)
(* parsed, and no handler is called.                                        *)
Handle(c) ==
  /\ At(c, "handle")
  /\ \/ /\ tries' = [tries EXCEPT ![Current(c)] = @ + 1]
        /\ \/ handled' = handled \union {Current(c)} /\ GoTo(c, "ack")
           \/ GoTo(c, "bury") /\ UNCHANGED handled
     \/ GoTo(c, "bury") /\ UNCHANGED <<handled, tries>>
  /\ UNCHANGED <<server, fits, running, listed, given, buried, claims>>

(* XACK is always sent for the normal stream: there it finds the message,   *)
(* or one with the same id, or nothing.                                     *)
Acknowledged(m) == {n \in Messages : where[n] = "normal" /\ id[n] = id[m]}

SendAck(c, reply) ==
  LET gone == IF reply = "refused" THEN {} ELSE Acknowledged(Current(c)) IN
  /\ pending' = pending \ gone /\ idle' = idle \ gone
  /\ UNCHANGED <<where, id, stream, cursor, dead, fits, running, listed, handled, history>>

(* for msg_id, fields in entries, and the loop around it *)
NextMessage(c) ==
  LET rest == Tail(task[c].batch) IN
  task' = [task EXCEPT ![c] =
             [pc |-> IF rest = <<>> THEN "read" ELSE "handle", batch |-> rest]]

(* Fault: the batch is gone through again from where it failed. *)
AbandonRetries(c) == GoTo(c, "handle")

(* An exception outside the inner try: the rest of the batch is dropped. *)
Abandon(c) == task' = [task EXCEPT ![c] = [pc |-> "read", batch |-> <<>>]]

(* An acknowledgement that fails sends the handled message to the queue of  *)
(* the dead.                                                                *)
Ack(c) ==
  /\ At(c, "ack")
  /\ \E reply \in Replies :
       /\ SendAck(c, reply)
       /\ IF reply = "ok" THEN NextMessage(c) ELSE GoTo(c, "bury")

(* The queue is one for all topics and is cut to MaxDead entries. *)
AddToDead(entry) ==
  LET longer == Append(dead, entry) IN
  \E k \in Drops(longer, MaxDead) : dead' = SubSeq(longer, k + 1, Len(longer))

(* The request to put c's message there. *)
SendToDlq(c, reply) ==
  /\ IF reply = "refused" THEN UNCHANGED <<dead, buried>>
     ELSE AddToDead(Current(c)) /\ buried' = buried \union {Current(c)}
  /\ UNCHANGED <<where, id, stream, cursor, pending, idle, fits, running, listed, handled,
                 given, tries, claims>>

(* Fault: a message that could not be put there counts as dead. *)
BuryUnanswered(c) ==
  /\ At(c, "bury")
  /\ \E reply \in Replies : SendToDlq(c, reply)
  /\ GoTo(c, "ackdead")

(* _send_to_dlq *)
Bury(c) ==
  /\ At(c, "bury")
  /\ \E reply \in Replies :
       /\ SendToDlq(c, reply)
       /\ IF reply = "ok" THEN GoTo(c, "ackdead") ELSE Abandon(c)

(* A message of another topic dies.  Bound: the queue is at its limit. *)
OtherDies ==
  /\ Len(dead) <= MaxDead /\ AddToDead(Other)
  /\ UNCHANGED <<where, id, stream, cursor, pending, idle, fits, running, task, listed,
                 handled, history>>

AckDead(c) ==
  /\ At(c, "ackdead")
  /\ \E reply \in Replies :
       /\ SendAck(c, reply)
       /\ IF reply = "ok" THEN NextMessage(c) ELSE Abandon(c)

(* disconnect cancels the task wherever it is; a crash does the same. *)
Ends(c) ==
  /\ running[c]
  /\ running' = [running EXCEPT ![c] = FALSE]
  /\ task' = [task EXCEPT ![c] = [pc |-> "ended", batch |-> <<>>]]
  /\ UNCHANGED <<server, fits, listed, handled, history>>

-----------------------------------------------------------------------------
(* Time passes for a pending message. *)
GrowsIdle(m) ==
  /\ m \in pending \ idle /\ where[m] = "normal"
  /\ idle' = idle \union {m} /\ claims' = [claims EXCEPT ![m] = 0]
  /\ UNCHANGED <<where, id, stream, cursor, pending, dead, fits, running, task, listed,
                 handled, given, buried, tries>>

(* claim_pending_messages lists what is idle on the normal stream ... *)
ListPending(k) ==
  /\ listed[k] = {} /\ idle # {}
  /\ listed' = [listed EXCEPT ![k] = idle]
  /\ UNCHANGED <<server, fits, running, task, handled, history>>

(* Fault: min_idle_time = 0. *)
ClaimableAnyTime(m) == m \in pending

(* The claim passes min_idle_time, so the server asks again that the        *)
(* message is pending and idle.                                             *)
Claimable(m) == m \in idle

InStream(m) == \E s \in Streams : m \in ToSet(stream[s])

(* ... and claims one after the other.  A message that another caller has   *)
(* claimed or that has been acknowledged meanwhile is not handed out, and   *)
(* one whose entry is no longer in the stream may be forgotten for good.    *)
Claim(k, m) ==
  /\ m \in listed[k]
  /\ listed' = [listed EXCEPT ![k] = @ \ {m}]
  /\ IF Claimable(m)
     THEN IF InStream(m)
          THEN /\ idle' = idle \ {m} /\ claims' = [claims EXCEPT ![m] = @ + 1]
               /\ UNCHANGED pending
          ELSE /\ \E forgotten \in {{}, {m}} :
                    pending' = pending \ forgotten /\ idle' = idle \ forgotten
               /\ UNCHANGED claims
     ELSE UNCHANGED <<pending, idle, claims>>
  /\ UNCHANGED <<where, id, stream, cursor, dead, fits, running, task, handled, given,
                 buried, tries>>

(* An exception ends the call; what it has claimed is handed to nobody. *)
ClaimFails(k) ==
  /\ listed[k] # {} /\ listed' = [listed EXCEPT ![k] = {}]
  /\ UNCHANGED <<server, fits, running, task, handled, history>>

Consume(c) == Read(c) \/ Handle(c) \/ Ack(c) \/ Bury(c) \/ AckDead(c)

Next ==
  \/ \E m \in Messages : \/ GrowsIdle(m)
                         \/ \E s \in Streams, i \in Ids : Publish(m, s, i)
  \/ \E c \in Consumers : Subscribe(c) \/ Consume(c) \/ Ends(c)
  \/ \E k \in Claimers : \/ ListPending(k) \/ ClaimFails(k)
                         \/ \E m \in Messages : Claim(k, m)
  \/ OtherDies

Spec == Init /\ [][Next]_vars

(* The event loop runs every consumer, handlers return, and Redis does not  *)
(* refuse the same request for ever; nobody need publish, subscribe or      *)
(* claim.  Only MessagesAreRead, below, is about this one.                  *)
FairSpec == Spec /\ \A c \in Consumers : WF_vars(Consume(c))

-----------------------------------------------------------------------------
Places == {"none", "read", "handle", "ack", "bury", "ackdead", "ended"}

TypeOK ==
  /\ where \in [Messages -> Streams \union {Nowhere}]
  /\ id \in [Messages -> Ids \union {NoId}]
  /\ stream \in [Streams -> Seq(Messages)] /\ cursor \in [Streams -> Nat]
  /\ pending \subseteq Messages /\ idle \subseteq pending
  /\ dead \in Seq(Messages \union {Other}) /\ buried \subseteq Messages
  /\ fits \in BOOLEAN
  /\ running \in [Consumers -> BOOLEAN]
  /\ task \in [Consumers -> [pc : Places, batch : Seq(Messages)]]
  /\ \A c \in Consumers :
       task[c].pc \in {"handle", "ack", "bury", "ackdead"} <=> task[c].batch # <<>>
  /\ listed \in [Claimers -> SUBSET Messages]
  /\ handled \subseteq Messages /\ given \subseteq Messages
  /\ tries \in [Messages -> Nat] /\ claims \in [Messages -> Nat]

Unread(m) ==
  \E s \in Streams : \E i \in DOMAIN stream[s] : i > cursor[s] /\ stream[s][i] = m

(* The server has dropped the entry to keep the stream at its length. *)
Trimmed(m) == ~InStream(m) /\ Len(stream[where[m]]) >= MaxLen

(* Another message with the same id was given out: its acknowledgement      *)
(* takes this one from the list of pending messages too.                    *)
HasTwin(m) == \E n \in given : where[n] # where[m] /\ id[n] = id[m]

(* It was dead, and the dead letter queue has been cut since. *)
DroppedFromDead(m) == m \in buried /\ Len(dead) >= MaxDead

(* A published message waits in its stream, or is pending, where a claim    *)
(* can find it, or was handled, or is in the dead letter queue, whatever    *)
(* request failed and whichever consumer died, unless its stream or the     *)
(* dead letter queue has grown over its length or a message of the same id  *)
(* was acknowledged.                                                        *)
NoMessageLost ==
  \A m \in Messages : where[m] # Nowhere =>
    \/ Unread(m) \/ m \in pending \union handled \union ToSet(dead)
    \/ Trimmed(m) \/ HasTwin(m) \/ DroppedFromDead(m)

(* No consumer calls a handler twice for a message: what was left by a      *)
(* failure is never read again, only claimed, and a message goes to the     *)
(* dead letter queue after one call or none.                                *)
HandledAtMostOnce ==
  \A m \in Messages : tries[m] <= 1 /\ (m \in handled => tries[m] = 1)

(* What the comment says (messaging.py:295), "Send to dead letter queue     *)
(* after retries": a dead message was tried more than once.                 *)
DeadAfterRetries == \A m \in buried : tries[m] > 1

(* Concurrent calls of claim_pending_messages that have listed the same     *)
(* message do not both get it.                                              *)
ClaimedByOne == \A m \in Messages : claims[m] <= 1

(* What the documentation says (messaging.py:3), "Provides at-least-once    *)
(* delivery": every message is given to a consumer while one runs, unless   *)
(* the stream is trimmed.                                                   *)
MessagesAreRead ==
  \A m \in Messages :
    Unread(m) ~> ~Unread(m) \/ \A c \in Consumers : ~running[c]
=============================================================================
