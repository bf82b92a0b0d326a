--------------------------- MODULE ServiceBreaker ---------------------------
(***************************************************************************)
(* resilience/circuit_breaker.py, class CircuitBreaker: calls to a service *)
(* that is cut off when it fails too often and probed after a timeout.     *)
(*                                                                         *)
(* call() admits or refuses its function at once, awaits it, and books the *)
(* outcome in whatever state the breaker is by then: two actions a call.   *)
(* TimeoutManager.with_timeout (or any other canceller) ends an admitted   *)
(* call with a CancelledError, which no handler of call() books.  A call    *)
(* that is refused is a stutter.  Time is counted in ticks since the last  *)
(* failure, as far as the timeout tells them apart.                        *)
(***************************************************************************)
EXTENDS Integers, FiniteSets

CONSTANTS
  Calls,            (* the tasks that use the service                        *)
  FailureThreshold, (* failure_threshold                                     *)
  SuccessThreshold, (* success_threshold                                     *)
  MaxProbes,        (* half_open_max_calls                                   *)
  Timeout           (* timeout_seconds, in ticks                             *)

ASSUME ConfigAssumption ==
  /\ IsFiniteSet(Calls) /\ Timeout \in Nat
  /\ {FailureThreshold, SuccessThreshold, MaxProbes} \subseteq Nat \ {0}
  /\ SuccessThreshold <= MaxProbes   (* 3 and 3 by default *)

VARIABLES
  state,     (* CircuitState                                                 *)
  failures,  (* failures; the count matters up to the threshold              *)
  successes, (* successes                                                    *)
  slots,     (* half_open_calls                                              *)
  age,       (* ticks since last_failure_time, up to Timeout + 1, or Never   *)
  running,   (* calls inside their function                                  *)
  probes,    (* history: those admitted in the current HALF_OPEN period      *)
  lost       (* history: how many of them were cancelled, with their slots   *)

vars == <<state, failures, successes, slots, age, running, probes, lost>>

Never == -1

Init ==
  /\ state = "closed" /\ failures = 0 /\ successes = 0 /\ slots = 0 /\ age = Never
  /\ running = {} /\ probes = {} /\ lost = 0

-----------------------------------------------------------------------------
(* call(), normal operation: the function is awaited.  An OPEN breaker that *)
(* knows of no failure would let the call through as well.                  *)
Pass(c) ==
  /\ c \notin running
  /\ state = "closed" \/ (state = "open" /\ age = Never)
  /\ running' = running \union {c}
  /\ UNCHANGED <<state, failures, successes, slots, age, probes, lost>>

(* call() on an OPEN breaker after the timeout: the first probe. *)
StartTest(c) ==
  /\ c \notin running
  /\ state = "open" /\ age > Timeout
  /\ state' = "half_open" /\ slots' = 1
  /\ running' = running \union {c} /\ probes' = {c} /\ lost' = 0
  /\ UNCHANGED <<failures, successes, age>>

(* Fault: the limit on test calls is taken as the last number allowed. *)
ProbeOneMore(c) ==
  /\ c \notin running
  /\ state = "half_open" /\ slots <= MaxProbes
  /\ slots' = slots + 1
  /\ running' = running \union {c} /\ probes' = probes \union {c}
  /\ UNCHANGED <<state, failures, successes, age, lost>>

(* call() on a HALF_OPEN breaker that still has a test call left. *)
Probe(c) ==
  /\ c \notin running
  /\ state = "half_open" /\ slots < MaxProbes
  /\ slots' = slots + 1
  /\ running' = running \union {c} /\ probes' = probes \union {c}
  /\ UNCHANGED <<state, failures, successes, age, lost>>

Leaves(c) == running' = running \ {c} /\ probes' = probes \ {c}

(* Fault: successes above the threshold are needed. *)
ClosesAbove == successes + 1 > SuccessThreshold

Closes == successes + 1 >= SuccessThreshold

(* _on_success: a success counts for the state the breaker is in now, not   *)
(* for the one that admitted the call.                                      *)
OnSuccess(c) ==
  /\ c \in running /\ Leaves(c)
  /\ \/ /\ state = "half_open"
        /\ state' = IF Closes THEN "closed" ELSE state
        /\ successes' = IF Closes THEN 0 ELSE successes + 1
        /\ failures' = IF Closes THEN 0 ELSE failures
     \/ /\ state = "closed"
        /\ failures' = IF failures = 0 THEN 0 ELSE failures - 1
        /\ UNCHANGED <<state, successes>>
     \/ /\ state = "open" /\ UNCHANGED <<state, failures, successes>>
  /\ UNCHANGED <<slots, age, lost>>

OneMoreFailure == IF failures < FailureThreshold THEN failures + 1 ELSE failures

(* Fault: a failed test leaves the breaker HALF_OPEN. *)
OnFailureKeepsTesting(c) ==
  /\ c \in running /\ Leaves(c)
  /\ failures' = OneMoreFailure /\ age' = 0
  /\ state' = IF state = "closed" /\ failures' = FailureThreshold THEN "open" ELSE state
  /\ UNCHANGED <<successes, slots, lost>>

(* _on_failure; the successes of an aborted test are kept *)
OnFailure(c) ==
  /\ c \in running /\ Leaves(c)
  /\ failures' = OneMoreFailure /\ age' = 0
  /\ state' = IF state = "half_open" \/ (state = "closed" /\ failures' = FailureThreshold)
              THEN "open" ELSE state
  /\ UNCHANGED <<successes, slots, lost>>

(* A CancelledError passes through call(). *)
Cancelled(c) ==
  /\ c \in running /\ Leaves(c)
  /\ lost' = IF c \in probes THEN lost + 1 ELSE lost
  /\ UNCHANGED <<state, failures, successes, slots, age>>

(* Fault: the timeout never gets longer than its whole length. *)
TickToTimeout ==
  /\ age # Never /\ age < Timeout
  /\ age' = age + 1
  /\ UNCHANGED <<state, failures, successes, slots, running, probes, lost>>

Tick ==
  /\ age # Never /\ age <= Timeout
  /\ age' = age + 1
  /\ UNCHANGED <<state, failures, successes, slots, running, probes, lost>>

Admit(c) == Pass(c) \/ StartTest(c) \/ Probe(c)
Answer(c) == OnSuccess(c) \/ OnFailure(c)

Next == Tick \/ \E c \in Calls : Admit(c) \/ Answer(c) \/ Cancelled(c)

Spec == Init /\ [][Next]_vars

(* Time passes, the service answers every call (TimeoutManager sees to it), *)
(* and the trading loops keep making calls.                                 *)
FairSpec == /\ Spec /\ WF_vars(Tick)
            /\ \A c \in Calls : WF_vars(Admit(c)) /\ WF_vars(Answer(c))

-----------------------------------------------------------------------------
TypeOK ==
  /\ state \in {"closed", "open", "half_open"}
  /\ failures \in 0..FailureThreshold
  /\ successes \in 0..(SuccessThreshold - 1)
  /\ slots \in 0..MaxProbes
  /\ age \in 0..(Timeout + 1) \union {Never}
  /\ running \subseteq Calls /\ probes \subseteq running
  /\ lost \in Nat

(* The failures that opened the breaker never open it twice: a CLOSED       *)
(* breaker is below the threshold, and one that is not CLOSED knows when    *)
(* the failure was from which the timeout counts.                           *)
CountersFitState ==
  /\ state = "closed" => failures < FailureThreshold
  /\ state # "closed" => age # Never

(* No more than half_open_max_calls calls test the service at a time,       *)
(* although calls admitted earlier end and are booked in between.           *)
ProbesBounded == state = "half_open" => Cardinality(probes) <= MaxProbes

(* A HALF_OPEN breaker of which no test call was cancelled is waiting for a *)
(* test call or still has one to give: it never refuses everybody for good. *)
(* (A cancelled one takes its slot along, and that is what may happen then.) *)
TestCanGoOn == state = "half_open" /\ probes = {} /\ lost = 0 => slots < MaxProbes

(* A service that was cut off is probed again, and the probing comes to an  *)
(* outcome unless a test call was cancelled.                                *)
RecoveryIsTried == state = "open" ~> state = "half_open"
TestIsDecided == state = "half_open" ~> state # "half_open" \/ lost # 0
=============================================================================
