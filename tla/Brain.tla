-------------------------------- MODULE Brain --------------------------------
(***************************************************************************)
(* brain/brain.py: the control loop dominate(), its breaker, and the calls *)
(* that steer it from outside: pause, resume, emergency_stop, shutdown and *)
(* the cancellation of its task by main.py.                                *)
(*                                                                         *)
(* An action ends at an await where others can run: the loop reads the     *)
(* account, closes positions, waits for signals, for each order and for    *)
(* the next cycle.  Every emergency_stop() call is a task of its own that  *)
(* runs beside the loop; the loop runs the same procedure when it finds a  *)
(* reason itself.  wait_for bounds every call of the broker, so a call     *)
(* either answers or is given up; what it asked for may happen later.      *)
(* Nothing assigns state.daily_pnl, so the daily-loss pause never happens. *)
(***************************************************************************)
EXTENDS Integers, FiniteSets

CONSTANTS
  MaxOrders,   (* how many orders the loop may place: a bound                 *)
  Calls,       (* the emergency_stop() calls that may be made: a bound        *)
  MaxSignals,  (* signals[:5]                                                 *)
  Threshold,   (* failure_threshold of the breaker                            *)
  MaxFailures, (* 10: more failures are a reason for an emergency stop        *)
  Attempts     (* 3: how often close_all_positions is tried                   *)

ASSUME BrainAssumption ==
  /\ {MaxSignals, Threshold, Attempts} \subseteq Nat \ {0} /\ {MaxOrders, MaxFailures} \subseteq Nat

Loop == "loop"  (* the emergency stop run by the loop itself *)
ASSUME CallsAssumption == Loop \notin Calls
Stops == Calls \union {Loop}
Orders == 1..MaxOrders

VARIABLES
  pc,       (* where dominate() waits                                         *)
  batch,    (* signals of this cycle still to be executed                     *)
  current,  (* the orders the loop awaits an answer for: one, or none         *)
  seen,     (* state.active_positions, then those _reduce_exposure will close *)
  running,  (* _running and not _shutdown_event                               *)
  stopFlag, (* _emergency_stop                                                *)
  paused,   (* _paused                                                        *)
  state,    (* state.system_state                                             *)
  resuming, (* a task of resume() waits for the state lock                    *)
  breaker,  (* [open, failures, cooled]: whether, when it is open, the        *)
            (* recovery_timeout has passed since the last failure             *)
  stop,     (* for each emergency stop, where it stands                       *)
  tries,    (* and how often it failed to close all positions                 *)
  order,    (* what became of each order at the broker                        *)
  decided,  (* the orders in decision_history                                 *)
  answered, (* history: the stops whose close_all_positions answered          *)
  missed    (* history: positions an answered close_all_positions left open   *)

history == <<answered, missed>>

vars == <<pc, batch, current, seen, running, stopFlag, paused, state, resuming,
          breaker, stop, tries, order, decided, answered, missed>>

Control == <<running, stopFlag, paused, state, resuming>>
Broker  == <<order, decided, history>>

Positions == {o \in Orders : order[o] = "open"}
InCycle   == {"update", "assess", "reduce", "stop_assess", "check", "stop_check",
              "generate", "execute"}

TypeOK ==
  /\ pc \in InCycle \union {"head", "ended"}
  /\ batch \in 0..MaxSignals
  /\ current \subseteq Orders /\ seen \subseteq Orders
  /\ {running, stopFlag, paused, resuming} \subseteq BOOLEAN
  /\ state \in {"running", "emergency_stop", "shutdown"}
  /\ breaker \in [open : BOOLEAN, failures : 0..Threshold, cooled : BOOLEAN]
  /\ stop \in [Stops -> {"none", "lock", "close", "cancel", "done"}]
  /\ tries \in [Stops -> 0..(Attempts - 1)]
  /\ order \in [Orders -> {"none", "sent", "open", "closed", "refused"}]
  /\ decided \subseteq Orders /\ missed \subseteq Orders /\ answered \subseteq Stops

(* dominate() has just set RUNNING. *)
Init ==
  /\ pc = "head" /\ batch = 0 /\ current = {} /\ seen = {}
  /\ running = TRUE /\ stopFlag = FALSE /\ paused = FALSE /\ state = "running" /\ resuming = FALSE
  /\ breaker = [open |-> FALSE, failures |-> 0, cooled |-> FALSE]
  /\ stop = [p \in Stops |-> "none"] /\ tries = [p \in Stops |-> 0]
  /\ order = [o \in Orders |-> "none"] /\ decided = {} /\ answered = {} /\ missed = {}

-----------------------------------------------------------------------------
(* The breaker. *)
RecordSuccess ==
  LET f == IF breaker.failures > 0 THEN breaker.failures - 1 ELSE 0
  IN breaker' = [breaker EXCEPT !.failures = f, !.open = @ /\ f > 0]

RecordFailure ==
  LET f == breaker.failures + 1
  IN breaker' = [open |-> breaker.open \/ f >= Threshold, failures |-> f, cooled |-> FALSE]

(* check_recovery() when it recovers; otherwise it changes nothing. *)
CheckRecovery ==
  /\ breaker.open /\ breaker.cooled
  /\ breaker' = [breaker EXCEPT !.open = FALSE, !.failures = Threshold - 1, !.cooled = FALSE]

(* recovery_timeout passes since the last failure. *)
RecoveryTimeoutPasses ==
  /\ breaker.open /\ ~breaker.cooled
  /\ breaker' = [breaker EXCEPT !.cooled = TRUE]
  /\ UNCHANGED <<pc, batch, current, seen, stop, tries, Control, Broker>>

-----------------------------------------------------------------------------
(* The head of the loop, where it also sleeps between two cycles.  A paused *)
(* loop, and one whose breaker stays open, comes back here: a stutter.      *)
LoopEnds ==
  /\ pc = "head" /\ ~running
  /\ pc' = "ended" /\ state' = "shutdown"
  /\ UNCHANGED <<batch, current, seen, running, stopFlag, paused, resuming, breaker, stop, tries, Broker>>

(* Fault: the pause is looked at before the breaker. *)
HandleCircuitOpenAfterPause ==
  /\ pc # "ended"
  /\ pc = "head" /\ running /\ ~paused
  /\ CheckRecovery
  /\ UNCHANGED <<pc, batch, current, seen, stop, tries, Control, Broker>>

HandleCircuitOpen ==
  /\ pc = "head" /\ running
  /\ CheckRecovery
  /\ UNCHANGED <<pc, batch, current, seen, stop, tries, Control, Broker>>

(* Fault: a pause does not keep the next cycle from starting. *)
StartCyclePaused ==
  /\ pc = "head" /\ running /\ ~breaker.open
  /\ pc' = "update"
  /\ UNCHANGED <<batch, current, seen, breaker, stop, tries, Control, Broker>>

StartCycle ==
  /\ pc = "head" /\ running /\ ~breaker.open /\ ~paused
  /\ pc' = "update"
  /\ UNCHANGED <<batch, current, seen, breaker, stop, tries, Control, Broker>>

(* _update_state(), under the state lock: account, positions and orders are *)
(* read; positions that cannot be read count as none.                       *)
UpdateState ==
  /\ pc = "update"
  /\ pc' = "assess"
  /\ seen' \in {Positions, {}}
  /\ UNCHANGED <<batch, current, breaker, stop, tries, Control, Broker>>

(* The account cannot be read: the error reaches _handle_cycle_error(). *)
UpdateStateFails ==
  /\ pc = "update"
  /\ pc' = "head"
  /\ RecordFailure
  /\ UNCHANGED <<batch, current, seen, stop, tries, Control, Broker>>

(* _assess_risk(): more than 80% of the equity is bound as margin, so the   *)
(* worse half of the positions is to be closed.                             *)
HighMargin ==
  /\ pc = "assess" /\ seen # {}
  /\ pc' = "reduce"
  /\ \E s \in SUBSET seen :
       /\ Cardinality(s) = IF Cardinality(seen) = 1 THEN 1 ELSE Cardinality(seen) \div 2
       /\ seen' = s
  /\ UNCHANGED <<batch, current, breaker, stop, tries, Control, Broker>>

(* _reduce_exposure(), one close_position(): it works, or is logged. *)
ReduceExposure(o) ==
  /\ pc = "reduce" /\ o \in seen
  /\ seen' = seen \ {o}
  /\ order' \in {order} \union {[order EXCEPT ![o] = "closed"] : x \in Positions \intersect {o}}
  /\ UNCHANGED <<pc, batch, current, breaker, stop, tries, Control, decided, history>>

Assessed == pc = "assess" \/ (pc = "reduce" /\ seen = {})

(* The end of _assess_risk(): the drawdown is within its limit, or not. *)
RiskAccepted ==
  /\ Assessed
  /\ pc' = "check" /\ seen' = {}
  /\ UNCHANGED <<batch, current, breaker, stop, tries, Control, Broker>>

MaxDrawdown ==
  /\ Assessed
  /\ pc' = "stop_assess" /\ seen' = {}
  /\ stop' = [stop EXCEPT ![Loop] = "lock"]
  /\ UNCHANGED <<batch, current, breaker, tries, Control, Broker>>

(* _check_emergency_conditions() finds a reason to stop: the flag, too many *)
(* failures, or an equity below half of the balance, which may always be.   *)
EmergencyFound ==
  /\ pc = "check"
  /\ pc' = "stop_check"
  /\ stop' = [stop EXCEPT ![Loop] = "lock"]
  /\ UNCHANGED <<batch, current, seen, breaker, tries, Control, Broker>>

(* Fault: the flag of emergency_stop() is not among the conditions. *)
NoEmergencyFlagUnread ==
  /\ pc = "check"
  /\ breaker.failures <= MaxFailures
  /\ IF state = "running"
       THEN pc' = "generate" /\ UNCHANGED breaker
       ELSE pc' = "head" /\ RecordSuccess
  /\ UNCHANGED <<batch, current, seen, stop, tries, Control, Broker>>

(* No emergency: decide when the system runs, else end the cycle. *)
NoEmergency ==
  /\ pc = "check"
  /\ ~stopFlag /\ breaker.failures <= MaxFailures
  /\ IF state = "running"
       THEN pc' = "generate" /\ UNCHANGED breaker
       ELSE pc' = "head" /\ RecordSuccess
  /\ UNCHANGED <<batch, current, seen, stop, tries, Control, Broker>>

-----------------------------------------------------------------------------
(* _make_strategy_decisions(): signals are generated and filtered; none     *)
(* when a component is missing, raises or takes too long.                   *)
SignalsArrive ==
  /\ pc = "generate"
  /\ pc' = "execute" /\ batch' \in 0..MaxSignals
  /\ UNCHANGED <<current, seen, breaker, stop, tries, Control, Broker>>

(* _execute_signal(), one at a time under the decision lock. *)
PlaceOrder(o) ==
  /\ pc = "execute" /\ current = {} /\ batch > 0
  /\ order[o] = "none" /\ \A q \in 1..(o - 1) : order[q] # "none"
  /\ batch' = batch - 1 /\ current' = {o}
  /\ order' = [order EXCEPT ![o] = "sent"]
  /\ UNCHANGED <<pc, seen, breaker, stop, tries, Control, decided, history>>

(* A signal that is invalid, or closes a position if it can. *)
CloseOrSkip ==
  /\ pc = "execute" /\ current = {} /\ batch > 0
  /\ batch' = batch - 1
  /\ order' \in {order} \union {[order EXCEPT ![o] = "closed"] : o \in Positions}
  /\ UNCHANGED <<pc, current, seen, breaker, stop, tries, Control, decided, history>>

(* The broker answers: the decision is recorded, unless it refused. *)
OrderAnswered(o) ==
  /\ o \in current /\ order[o] # "sent"
  /\ current' = {}
  /\ decided' = IF order[o] = "refused" THEN decided ELSE decided \union {o}
  /\ UNCHANGED <<pc, batch, seen, breaker, stop, tries, Control, order, history>>

(* The ten seconds pass, whatever the broker has done or will do. *)
OrderTimesOut(o) ==
  /\ o \in current
  /\ current' = {}
  /\ UNCHANGED <<pc, batch, seen, breaker, stop, tries, Control, Broker>>

CycleSucceeds ==
  /\ pc = "execute" /\ batch = 0 /\ current = {}
  /\ pc' = "head"
  /\ RecordSuccess
  /\ UNCHANGED <<batch, current, seen, stop, tries, Control, Broker>>

(* The broker executes a market order or refuses it, awaited or not. *)
BrokerActs(o) ==
  /\ order[o] = "sent"
  /\ order' \in {[order EXCEPT ![o] = r] : r \in {"open", "refused"}}
  /\ UNCHANGED <<pc, batch, current, seen, breaker, stop, tries, Control, decided, history>>

-----------------------------------------------------------------------------
(* _execute_emergency_stop(), of the loop and of every emergency_stop().    *)
(* The loop cannot need the lock that _update_state() holds.                *)
StopBegins(p) ==
  /\ stop[p] = "lock" /\ pc # "update"
  /\ stop' = [stop EXCEPT ![p] = "close"]
  /\ stopFlag' = TRUE /\ state' = "emergency_stop"
  /\ UNCHANGED <<pc, batch, current, seen, running, paused, resuming, breaker, tries, Broker>>

(* close_all_positions() answers.  The broker of this repository answers    *)
(* whether or not it closed them all (its list may be a cached one, a close *)
(* refused), and the stop goes on without a look at the answer.             *)
CloseAnswers(p) ==
  /\ stop[p] = "close"
  /\ stop' = [stop EXCEPT ![p] = "cancel"] /\ tries' = [tries EXCEPT ![p] = 0]
  /\ \E s \in SUBSET Positions :
       /\ order' = [o \in Orders |-> IF o \in s THEN "closed" ELSE order[o]]
       /\ missed' = missed \union (Positions \ s)
  /\ answered' = answered \union {p}
  /\ UNCHANGED <<pc, batch, current, seen, breaker, Control, decided>>

(* It raises or takes too long, with some positions closed; after the last *)
(* attempt the stop goes on all the same.                                  *)
CloseFails(p) ==
  /\ stop[p] = "close"
  /\ IF tries[p] + 1 < Attempts
       THEN tries' = [tries EXCEPT ![p] = @ + 1] /\ UNCHANGED stop
       ELSE tries' = [tries EXCEPT ![p] = 0] /\ stop' = [stop EXCEPT ![p] = "cancel"]
  /\ \E s \in SUBSET Positions : order' = [o \in Orders |-> IF o \in s THEN "closed" ELSE order[o]]
  /\ UNCHANGED <<pc, batch, current, seen, breaker, Control, decided, history>>

(* The loop goes on where it ran the procedure. *)
AfterStop(p) ==
  IF p # Loop THEN UNCHANGED <<pc, breaker>>
  ELSE \/ pc = "stop_assess" /\ pc' = "check" /\ UNCHANGED breaker
       \/ pc = "stop_check" /\ pc' = "head" /\ RecordSuccess

(* Fault: the loop is left running. *)
StopEndsLoopRuns(p) ==
  /\ stop[p] = "cancel"
  /\ stop' = [stop EXCEPT ![p] = "done"]
  /\ AfterStop(p)
  /\ UNCHANGED <<batch, current, seen, tries, Control, Broker>>

(* cancel_all_orders() may withdraw orders that are not executed yet; after *)
(* it and the notification the loop is told to end.                         *)
StopEnds(p) ==
  /\ stop[p] = "cancel"
  /\ stop' = [stop EXCEPT ![p] = "done"]
  /\ \E s \in SUBSET {o \in Orders : order[o] = "sent"} :
       order' = [o \in Orders |-> IF o \in s THEN "refused" ELSE order[o]]
  /\ running' = FALSE
  /\ AfterStop(p)
  /\ UNCHANGED <<batch, current, seen, stopFlag, paused, state, resuming, tries, decided, history>>

-----------------------------------------------------------------------------
(* The calls from outside: API, dashboard, main.py.  What pause(),         *)
(* resume() and shutdown() do once the loop has ended concerns nobody.  An  *)
(* emergency_stop() outside of any event loop only sets the flag; its       *)
(* callers here are coroutines.                                             *)
EmergencyStop(p) ==
  /\ p \in Calls /\ stop[p] = "none"
  /\ stop' = [stop EXCEPT ![p] = "lock"]
  /\ stopFlag' = TRUE
  /\ UNCHANGED <<pc, batch, current, seen, running, paused, state, resuming, breaker, tries, Broker>>

Pause ==
  /\ pc # "ended"
  /\ paused' = TRUE
  /\ UNCHANGED <<pc, batch, current, seen, running, stopFlag, state, resuming, breaker, stop, tries, Broker>>

Resume ==
  /\ pc # "ended"
  /\ paused' = FALSE /\ resuming' = TRUE
  /\ UNCHANGED <<pc, batch, current, seen, running, stopFlag, state, breaker, stop, tries, Broker>>

(* The task of resume(), whatever the state has become. *)
ResumeRuns ==
  /\ resuming /\ pc # "update"
  /\ resuming' = FALSE /\ state' = "running"
  /\ UNCHANGED <<pc, batch, current, seen, running, stopFlag, paused, breaker, stop, tries, Broker>>

Shutdown ==
  /\ pc # "ended"
  /\ running' = FALSE
  /\ UNCHANGED <<pc, batch, current, seen, stopFlag, paused, state, resuming, breaker, stop, tries, Broker>>

(* main.py's shutdown() cancels the loop wherever it waits. *)
Cancel ==
  /\ pc # "ended"
  /\ pc' = "ended" /\ state' = "shutdown"
  /\ batch' = 0 /\ current' = {} /\ seen' = {}
  /\ stop' = [stop EXCEPT ![Loop] = "none"] /\ tries' = [tries EXCEPT ![Loop] = 0]
  /\ UNCHANGED <<running, stopFlag, paused, resuming, breaker, Broker>>

-----------------------------------------------------------------------------
LoopStep ==
  \/ LoopEnds \/ HandleCircuitOpen \/ StartCycle
  \/ UpdateState \/ UpdateStateFails
  \/ HighMargin \/ RiskAccepted \/ MaxDrawdown \/ EmergencyFound \/ NoEmergency
  \/ SignalsArrive \/ CloseOrSkip \/ CycleSucceeds
  \/ \E o \in Orders : ReduceExposure(o) \/ PlaceOrder(o) \/ OrderAnswered(o) \/ OrderTimesOut(o)

StopStep(p) == StopBegins(p) \/ CloseAnswers(p) \/ CloseFails(p) \/ StopEnds(p)

Next ==
  \/ LoopStep \/ RecoveryTimeoutPasses
  \/ \E p \in Stops : StopStep(p) \/ EmergencyStop(p)
  \/ \E o \in Orders : BrokerActs(o)
  \/ Pause \/ Resume \/ ResumeRuns \/ Shutdown \/ Cancel

Spec == Init /\ [][Next]_vars

(* wait_for and the sleeps are bounded, so the loop and every stop go on;  *)
(* time passes.  The state lock is handed to whoever waited first, so a    *)
(* stop gets it although every cycle takes it again: strong fairness.      *)
(* Nobody outside is obliged to call anything.                             *)
FairSpec ==
  /\ Spec /\ WF_vars(LoopStep) /\ WF_vars(RecoveryTimeoutPasses)
  /\ \A p \in Stops : SF_vars(StopBegins(p)) /\ WF_vars(StopStep(p))

-----------------------------------------------------------------------------
(* The signals the loop may still execute before it checks for an emergency *)
(* again, and before it looks at the pause again.                           *)
BeforeCheck == IF pc = "generate" THEN MaxSignals ELSE IF pc = "execute" THEN batch ELSE 0
BeforeHead ==
  IF pc \in {"update", "assess", "reduce", "stop_assess", "check"} THEN MaxSignals ELSE BeforeCheck

(* Orders are placed out of the current batch only; once an emergency stop  *)
(* was asked for, and as long as the loop is paused, no further batch of    *)
(* signals is begun, whatever resume(), the breaker and a stop that already *)
(* ran do meanwhile.                                                        *)
TradingEndsWithItsBatch ==
  [][/\ \A o \in Orders : order[o] = "none" /\ order'[o] # "none" => BeforeCheck' < BeforeCheck
     /\ stopFlag => stopFlag' /\ BeforeCheck' <= BeforeCheck
     /\ paused /\ paused' => BeforeHead' <= BeforeHead]_vars

(* What can be open although a stop had an answer to its closing of all     *)
(* positions, of those the brain has on record: the positions this answer   *)
(* silently left (missed), and beside them at most what the batch under way *)
(* still placed, when the stop ran beside the loop; a stop run by the loop  *)
(* itself has nothing to race with and adds none, for good.  Orders the     *)
(* brain gave up waiting for are on no record and may be executed any time. *)
Recorded == (Positions \intersect decided) \ missed
StopLeavesAtMostABatch ==
  /\ Loop \in answered => Recorded = {} /\ current = {}
  /\ answered # {} => Cardinality(Recorded) <= MaxSignals

(* brain.py:679 "Emergency shutdown procedure - GUARANTEED EXECUTION": an    *)
(* answered stop of the loop leaves none of the recorded positions open.    *)
StopClosesAll == Loop \in answered => Positions \intersect decided = {}

(* The breaker is open exactly when its count has reached the threshold,    *)
(* and the count goes no further.                                           *)
BreakerFitsCount == breaker.open <=> breaker.failures = Threshold

(* An emergency stop ends the loop, paused or not, with its breaker open or *)
(* not, whether or not the broker answers any of the calls.                 *)
StopEndsTheLoop == stopFlag ~> pc = "ended"

(* An open breaker is closed again as long as the loop lives. *)
BreakerIsTriedAgain == breaker.open ~> ~breaker.open \/ pc = "ended"
=============================================================================
