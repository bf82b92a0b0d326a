------------------------------ MODULE Bulkhead ------------------------------
(***************************************************************************)
(* resilience/circuit_breaker.py, class Bulkhead: at most max_concurrent   *)
(* calls execute, at most max_queue hold a place.  A call keeps its place   *)
(* (queue_size) while it executes.  The two asyncio semaphores are fair: a *)
(* call waits only if no slot is free or somebody waits already, and the   *)
(* slots go to the waiting calls in the order they came.                   *)
(***************************************************************************)
EXTENDS Integers, Sequences, FiniteSets, SequencesExt

CONSTANTS
  Tasks,          (* the tasks that call execute                              *)
  MaxConcurrent,  (* max_concurrent                                           *)
  MaxQueue,       (* max_queue                                                *)
  MaxLost         (* bound: cancellations of waiting calls                    *)

ASSUME SizesAssumption ==
  {MaxConcurrent, MaxQueue} \subseteq Nat \ {0} /\ MaxLost \in Nat

VARIABLES
  line,         (* the calls that wait for a slot, first come first           *)
  executing,    (* the calls inside their function                            *)
  active_count,
  queue_count,
  withdrawn          (* history: calls cancelled while they waited                 *)

bulkheadVars == <<line, executing, active_count, queue_count, withdrawn>>

Held == Len(line) + Cardinality(executing)

(* queue_size.locked(): execute raises BulkheadFull, a stutter here *)
Full == Held >= MaxQueue

BulkheadInit ==
  /\ line = <<>> /\ executing = {} /\ active_count = 0 /\ queue_count = 0
  /\ withdrawn = 0

Outside(c) == c \notin executing /\ c \notin ToSet(line)

(* execute: a place and a slot, without waiting. *)
ExecuteAtOnce(c) ==
  /\ Outside(c) /\ ~Full
  /\ line = <<>> /\ Cardinality(executing) < MaxConcurrent
  /\ executing' = executing \union {c} /\ active_count' = active_count + 1
  /\ UNCHANGED <<line, queue_count, withdrawn>>

(* execute: a place, and a wait for a slot. *)
Wait(c) ==
  /\ Outside(c) /\ ~Full
  /\ line # <<>> \/ Cardinality(executing) >= MaxConcurrent
  /\ line' = Append(line, c) /\ queue_count' = queue_count + 1
  /\ UNCHANGED <<executing, active_count, withdrawn>>

(* Fault: a slot that becomes free goes to the call that came last. *)
ResumeLast ==
  /\ line # <<>> /\ Cardinality(executing) < MaxConcurrent
  /\ line' = Front(line) /\ executing' = executing \union {Last(line)}
  /\ queue_count' = queue_count - 1 /\ active_count' = active_count + 1
  /\ UNCHANGED withdrawn

(* The first waiting call resumes with the slot it was given. *)
Resume ==
  /\ line # <<>> /\ Cardinality(executing) < MaxConcurrent
  /\ line' = Tail(line) /\ executing' = executing \union {Head(line)}
  /\ queue_count' = queue_count - 1 /\ active_count' = active_count + 1
  /\ UNCHANGED withdrawn

(* Fault: only a normal end gives the count back. *)
FinishCountsResults(c) ==
  /\ c \in executing
  /\ executing' = executing \ {c}
  /\ active_count' \in {active_count, active_count - 1}
  /\ UNCHANGED <<line, queue_count, withdrawn>>

(* The function returns, raises or is cancelled. *)
Finish(c) ==
  /\ c \in executing
  /\ executing' = executing \ {c} /\ active_count' = active_count - 1
  /\ UNCHANGED <<line, queue_count, withdrawn>>

(* A waiting call is cancelled: its place is free again, queue_count stays. *)
CancelWaiting(c) ==
  /\ withdrawn < MaxLost
  /\ \E i \in 1..Len(line) : line[i] = c /\ line' = RemoveAt(line, i)
  /\ withdrawn' = withdrawn + 1
  /\ UNCHANGED <<executing, active_count, queue_count>>

BulkheadNext ==
  \/ Resume
  \/ \E c \in Tasks : ExecuteAtOnce(c) \/ Wait(c) \/ Finish(c) \/ CancelWaiting(c)

BulkheadSpec == BulkheadInit /\ [][BulkheadNext]_bulkheadVars

(* The functions end (with_timeout sees to it) and the loop resumes who was *)
(* given a slot.                                                            *)
FairBulkheadSpec == BulkheadSpec /\ WF_bulkheadVars(Resume) /\ \A c \in Tasks : WF_bulkheadVars(Finish(c))

-----------------------------------------------------------------------------
(* What get_stats reports: active_count is the number of executing calls,   *)
(* never above max_concurrent; queue_count is the number of waiting ones    *)
(* plus all that were ever cancelled while they waited.                     *)
CountsAddUp ==
  /\ active_count = Cardinality(executing) /\ active_count <= MaxConcurrent
  /\ queue_count = Len(line) + withdrawn
  /\ Held <= MaxQueue

(* A call that got a place gets a slot, or was cancelled: nobody is passed  *)
(* over for ever.                                                           *)
EveryPlaceGetsASlot == \A c \in Tasks : c \in ToSet(line) ~> c \notin ToSet(line)
=============================================================================
