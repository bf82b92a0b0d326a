----------------------------- MODULE BrainProofs -----------------------------
(***************************************************************************)
(* Theorems about Brain for any number of orders, signals and calls of     *)
(* emergency_stop(), and any thresholds.                                   *)
(***************************************************************************)
EXTENDS Brain, FiniteSetTheorems, TLAPS

(* A cycle is begun with the breaker closed, and fails at most once, as it  *)
(* ends.                                                                    *)
CycleIsClosed == pc \in InCycle => ~breaker.open

(* The loop waits for the stop it runs itself. *)
LoopAwaitsItsStop ==
  stop[Loop] \in {"lock", "close", "cancel"} => pc \in {"stop_assess", "stop_check"}

(* Whoever closes positions, or has closed them, has set the flag. *)
FlagIsSet ==
  /\ \A p \in Stops : stop[p] \in {"close", "cancel"} => stopFlag
  /\ answered # {} => stopFlag

(* At most one order is awaited, while a batch is executed. *)
OneAwaited ==
  current = {} \/ (pc = "execute" /\ \E o \in Orders : current = {o} /\ order[o] # "none")

(* A decision is recorded for an order that was executed. *)
DecidedIsExecuted == \A o \in decided : order[o] \in {"open", "closed"}

IInv == TypeOK /\ BreakerFitsCount /\ CycleIsClosed /\ LoopAwaitsItsStop /\ FlagIsSet
        /\ OneAwaited /\ DecidedIsExecuted

-----------------------------------------------------------------------------
(* What the three operations of the breaker return when its count fits.     *)
LEMMA BreakerSteps ==
  ASSUME breaker \in [open : BOOLEAN, failures : 0..Threshold, cooled : BOOLEAN], BreakerFitsCount
  PROVE  /\ RecordSuccess /\ ~breaker.open =>
              /\ breaker' \in [open : BOOLEAN, failures : 0..Threshold, cooled : BOOLEAN]
              /\ BreakerFitsCount' /\ ~breaker'.open
         /\ RecordFailure /\ ~breaker.open =>
              /\ breaker' \in [open : BOOLEAN, failures : 0..Threshold, cooled : BOOLEAN]
              /\ BreakerFitsCount'
         /\ CheckRecovery =>
              /\ breaker' \in [open : BOOLEAN, failures : 0..Threshold, cooled : BOOLEAN]
              /\ BreakerFitsCount'
<1>1. /\ Threshold \in Nat \ {0} /\ breaker.failures \in 0..Threshold
      /\ breaker.open \in BOOLEAN /\ breaker.cooled \in BOOLEAN
      /\ breaker.open <=> breaker.failures = Threshold
  BY BrainAssumption DEF BreakerFitsCount
<1>2. ASSUME RecordSuccess, ~breaker.open
      PROVE  /\ breaker' \in [open : BOOLEAN, failures : 0..Threshold, cooled : BOOLEAN]
             /\ BreakerFitsCount' /\ ~breaker'.open
  <2> DEFINE f == IF breaker.failures > 0 THEN breaker.failures - 1 ELSE 0
  <2>1. f \in 0..Threshold /\ f # Threshold
    BY <1>1, <1>2
  <2>2. breaker' = [breaker EXCEPT !.failures = f, !.open = breaker.open /\ f > 0]
    BY <1>2 DEF RecordSuccess
  <2>3. (breaker.open /\ f > 0) = FALSE
    BY <1>2
  <2> HIDE DEF f
  <2>4. breaker' = [breaker EXCEPT !.failures = f, !.open = FALSE]
    BY <2>2, <2>3
  <2>5. breaker'.failures = f /\ breaker'.open = FALSE
    BY <2>4
  <2>6. QED
    BY <2>1, <2>4, <2>5 DEF BreakerFitsCount
<1>3. ASSUME RecordFailure, ~breaker.open
      PROVE  /\ breaker' \in [open : BOOLEAN, failures : 0..Threshold, cooled : BOOLEAN]
             /\ BreakerFitsCount'
  <2> DEFINE f == breaker.failures + 1
  <2>1. f \in 0..Threshold /\ (f >= Threshold <=> f = Threshold)
    BY <1>1, <1>3
  <2>2. breaker' = [open |-> breaker.open \/ f >= Threshold, failures |-> f, cooled |-> FALSE]
    BY <1>3 DEF RecordFailure
  <2> HIDE DEF f
  <2>3. breaker'.failures = f /\ (breaker'.open <=> f = Threshold)
    BY <1>3, <2>1, <2>2
  <2>4. (breaker.open \/ f >= Threshold) \in BOOLEAN
    OBVIOUS
  <2>5. breaker' \in [open : BOOLEAN, failures : 0..Threshold, cooled : BOOLEAN]
    BY <2>1, <2>2, <2>4
  <2>6. QED
    BY <2>3, <2>5 DEF BreakerFitsCount
<1>4. ASSUME CheckRecovery
      PROVE  /\ breaker' \in [open : BOOLEAN, failures : 0..Threshold, cooled : BOOLEAN]
             /\ BreakerFitsCount'
  <2>1. breaker' = [breaker EXCEPT !.open = FALSE, !.failures = Threshold - 1, !.cooled = FALSE]
    BY <1>4 DEF CheckRecovery
  <2>2. Threshold - 1 \in 0..Threshold /\ Threshold - 1 # Threshold
    BY <1>1
  <2>3. breaker'.failures = Threshold - 1 /\ breaker'.open = FALSE
    BY <2>1
  <2>4. QED
    BY <2>1, <2>2, <2>3 DEF BreakerFitsCount
<1>5. QED
  BY <1>2, <1>3, <1>4

(* Types, the breaker's count and where the loop, its stop and its awaited  *)
(* order stand, over all steps.                                             *)
THEOREM InvariantHolds == Spec => []IInv
<1>1. Init => IInv
  <2> SUFFICES ASSUME Init PROVE IInv
    OBVIOUS
  <2>1. 0 \in 0..MaxSignals /\ 0 \in 0..Threshold /\ 0 # Threshold /\ 0 \in 0..(Attempts - 1)
    BY BrainAssumption
  <2>2. TypeOK
    BY <2>1 DEF Init, TypeOK
  <2>3. QED
    BY <2>1, <2>2 DEF Init, IInv, BreakerFitsCount, CycleIsClosed, LoopAwaitsItsStop, FlagIsSet,
       OneAwaited, DecidedIsExecuted, Stops, InCycle
<1>2. IInv /\ [Next]_vars => IInv'
  <2> SUFFICES ASSUME IInv, [Next]_vars PROVE IInv'
    OBVIOUS
  <2> USE BrainAssumption, CallsAssumption
  <2> USE DEF IInv, TypeOK, CycleIsClosed, LoopAwaitsItsStop, FlagIsSet, OneAwaited,
              DecidedIsExecuted, Control, Broker, history, InCycle, Positions
  <2>1. CASE LoopEnds
    BY <2>1 DEF LoopEnds, BreakerFitsCount
  <2>2. CASE HandleCircuitOpen
    BY <2>2, BreakerSteps DEF HandleCircuitOpen
  <2>3. CASE StartCycle
    BY <2>3 DEF StartCycle, BreakerFitsCount
  <2>4. CASE UpdateState
    BY <2>4 DEF UpdateState, BreakerFitsCount
  <2>5. CASE UpdateStateFails
    BY <2>5, BreakerSteps DEF UpdateStateFails
  <2>6. CASE HighMargin
    BY <2>6 DEF HighMargin, BreakerFitsCount
  <2>7. CASE RiskAccepted
    BY <2>7 DEF RiskAccepted, Assessed, BreakerFitsCount
  <2>8. CASE MaxDrawdown
    BY <2>8 DEF MaxDrawdown, Assessed, BreakerFitsCount, Stops
  <2>9. CASE EmergencyFound
    BY <2>9 DEF EmergencyFound, BreakerFitsCount, Stops
  <2>10. CASE NoEmergency
    <3>1. CASE state = "running"
      BY <2>10, <3>1 DEF NoEmergency, BreakerFitsCount
    <3>2. CASE state # "running"
      BY <2>10, <3>2, BreakerSteps DEF NoEmergency
    <3>3. QED
      BY <3>1, <3>2
  <2>11. CASE SignalsArrive
    BY <2>11 DEF SignalsArrive, BreakerFitsCount
  <2>12. CASE CloseOrSkip
    <3>1. order' \in [Orders -> {"none", "sent", "open", "closed", "refused"}]
      BY <2>12 DEF CloseOrSkip
    <3>2. \A o \in Orders : order'[o] = order[o] \/ (order[o] = "open" /\ order'[o] = "closed")
      BY <2>12 DEF CloseOrSkip
    <3>3. QED
      BY <2>12, <3>1, <3>2 DEF CloseOrSkip, BreakerFitsCount
  <2>13. CASE CycleSucceeds
    BY <2>13, BreakerSteps DEF CycleSucceeds
  <2>14. ASSUME NEW o \in Orders, ReduceExposure(o) PROVE IInv'
    <3>1. /\ order' \in [Orders -> {"none", "sent", "open", "closed", "refused"}]
          /\ \A q \in Orders : order'[q] = order[q] \/ (order[q] = "open" /\ order'[q] = "closed")
      BY <2>14 DEF ReduceExposure
    <3>2. QED
      BY <2>14, <3>1 DEF ReduceExposure, BreakerFitsCount
  <2>15. ASSUME NEW o \in Orders, PlaceOrder(o) PROVE IInv'
    BY <2>15 DEF PlaceOrder, BreakerFitsCount
  <2>16. ASSUME NEW o \in Orders, OrderAnswered(o) PROVE IInv'
    <3>1. order[o] # "none"
      BY <2>16 DEF OrderAnswered
    <3>2. QED
      BY <2>16, <3>1 DEF OrderAnswered, BreakerFitsCount
  <2>17. ASSUME NEW o \in Orders, OrderTimesOut(o) PROVE IInv'
    BY <2>17 DEF OrderTimesOut, BreakerFitsCount
  <2>18. CASE RecoveryTimeoutPasses
    BY <2>18 DEF RecoveryTimeoutPasses, BreakerFitsCount
  <2>19. ASSUME NEW p \in Stops, StopBegins(p) PROVE IInv'
    BY <2>19 DEF StopBegins, BreakerFitsCount
  <2>20. ASSUME NEW p \in Stops, CloseAnswers(p) PROVE IInv'
    BY <2>20 DEF CloseAnswers, BreakerFitsCount
  <2>21. ASSUME NEW p \in Stops, CloseFails(p) PROVE IInv'
    <3>1. /\ order' \in [Orders -> {"none", "sent", "open", "closed", "refused"}]
          /\ \A q \in Orders : order'[q] = order[q] \/ (order[q] = "open" /\ order'[q] = "closed")
      BY <2>21 DEF CloseFails
    <3>2. /\ tries' \in [Stops -> 0..(Attempts - 1)]
          /\ stop' \in [Stops -> {"none", "lock", "close", "cancel", "done"}]
          /\ \A q \in Stops : stop'[q] = stop[q] \/ (stop[q] = "close" /\ stop'[q] = "cancel")
      BY <2>21 DEF CloseFails
    <3>3. Loop \in Stops
      BY DEF Stops
    <3>4. UNCHANGED <<pc, batch, current, seen, breaker, Control, decided, history>>
      BY <2>21 DEF CloseFails
    <3>5. QED
      BY <3>1, <3>2, <3>3, <3>4 DEF BreakerFitsCount
  <2>22. ASSUME NEW p \in Stops, StopEnds(p) PROVE IInv'
    <3>1. /\ order' \in [Orders -> {"none", "sent", "open", "closed", "refused"}]
          /\ \A q \in Orders : order'[q] = order[q] \/ (order[q] = "sent" /\ order'[q] = "refused")
      BY <2>22 DEF StopEnds
    <3>2. /\ stop' \in [Stops -> {"none", "lock", "close", "cancel", "done"}]
          /\ \A q \in Stops \ {p} : stop'[q] = stop[q]
          /\ stop'[p] = "done" /\ stop[p] = "cancel"
      BY <2>22 DEF StopEnds
    <3>3. UNCHANGED <<batch, current, seen, stopFlag, paused, state, resuming, tries, decided, history>>
          /\ running' = FALSE
      BY <2>22 DEF StopEnds
    <3>4. /\ breaker' \in [open : BOOLEAN, failures : 0..Threshold, cooled : BOOLEAN]
          /\ BreakerFitsCount'
          /\ \/ UNCHANGED <<pc, breaker>> /\ p # Loop
             \/ p = Loop /\ pc = "stop_assess" /\ pc' = "check" /\ ~breaker'.open
             \/ p = Loop /\ pc = "stop_check" /\ pc' = "head"
      BY <2>22, BreakerSteps DEF StopEnds, AfterStop, BreakerFitsCount
    <3>5. QED
      BY <3>1, <3>2, <3>3, <3>4 DEF Stops
  <2>23. ASSUME NEW p \in Stops, EmergencyStop(p) PROVE IInv'
    BY <2>23 DEF EmergencyStop, BreakerFitsCount
  <2>24. ASSUME NEW o \in Orders, BrokerActs(o) PROVE IInv'
    BY <2>24 DEF BrokerActs, BreakerFitsCount
  <2>25. CASE Pause \/ Resume \/ ResumeRuns \/ Shutdown
    BY <2>25 DEF Pause, Resume, ResumeRuns, Shutdown, BreakerFitsCount
  <2>26. CASE Cancel
    BY <2>26 DEF Cancel, BreakerFitsCount, Stops
  <2>27. CASE UNCHANGED vars
    BY <2>27 DEF vars, BreakerFitsCount
  <2>28. QED
    BY <2>1, <2>2, <2>3, <2>4, <2>5, <2>6, <2>7, <2>8, <2>9, <2>10, <2>11, <2>12, <2>13,
       <2>14, <2>15, <2>16, <2>17, <2>18, <2>19, <2>20, <2>21, <2>22, <2>23, <2>24, <2>25,
       <2>26, <2>27
    DEF Next, LoopStep, StopStep
<1>3. QED
  BY <1>1, <1>2, PTL DEF Spec

-----------------------------------------------------------------------------
(* In no state is the brain's bookkeeping ill-typed. *)
THEOREM TypeCorrect == Spec => []TypeOK
<1>1. IInv => TypeOK
  BY DEF IInv
<1>2. QED
  BY <1>1, InvariantHolds, PTL

(* The breaker is open exactly when its count has reached the threshold.    *)
THEOREM BreakerIsConsistent == Spec => []BreakerFitsCount
<1>1. IInv => BreakerFitsCount
  BY DEF IInv
<1>2. QED
  BY <1>1, InvariantHolds, PTL

-----------------------------------------------------------------------------
(* What every step keeps to: the property TradingEndsWithItsBatch.          *)
Steps ==
  /\ \A o \in Orders : order[o] = "none" /\ order'[o] # "none" => BeforeCheck' < BeforeCheck
  /\ stopFlag => stopFlag' /\ BeforeCheck' <= BeforeCheck
  /\ paused /\ paused' => BeforeHead' <= BeforeHead

(* Which orders leave "none": the one PlaceOrder takes, out of the batch.   *)
(* And what a step does to the flag and to the signals still to come.       *)
LEMMA StepsOfTheBatch ==
  ASSUME IInv, [Next]_vars
  PROVE  Steps
<1> USE BrainAssumption, CallsAssumption
    DEF IInv, TypeOK, BeforeCheck, BeforeHead, Control, Broker, Positions
<1>1. CASE LoopEnds
  BY <1>1 DEF Steps, LoopEnds
<1>2. CASE HandleCircuitOpen
  BY <1>2 DEF Steps, HandleCircuitOpen
<1>3. CASE StartCycle
  BY <1>3 DEF Steps, StartCycle
<1>4. CASE UpdateState \/ UpdateStateFails
  BY <1>4 DEF Steps, UpdateState, UpdateStateFails
<1>5. CASE HighMargin \/ RiskAccepted \/ MaxDrawdown
  BY <1>5 DEF Steps, HighMargin, RiskAccepted, MaxDrawdown, Assessed
<1>6. CASE EmergencyFound \/ NoEmergency
  BY <1>6 DEF Steps, EmergencyFound, NoEmergency
<1>7. CASE SignalsArrive
  BY <1>7 DEF Steps, SignalsArrive
<1>8. CASE CloseOrSkip
  BY <1>8 DEF Steps, CloseOrSkip
<1>9. CASE CycleSucceeds
  BY <1>9 DEF Steps, CycleSucceeds
<1>10. ASSUME NEW o \in Orders, ReduceExposure(o) PROVE Steps
  <2>1. UNCHANGED <<pc, batch, Control>> /\ \A q \in Orders : order[q] = "none" => order'[q] = "none"
    BY <1>10 DEF ReduceExposure
  <2>2. QED
    BY <2>1 DEF Steps
<1>11. ASSUME NEW o \in Orders, PlaceOrder(o) PROVE Steps
  <2>1. /\ pc = "execute" /\ pc' = pc /\ batch' = batch - 1
        /\ UNCHANGED Control
    BY <1>11 DEF PlaceOrder
  <2>2. BeforeCheck' < BeforeCheck /\ BeforeCheck' <= BeforeCheck /\ BeforeHead' <= BeforeHead
    BY <2>1
  <2>3. stopFlag' = stopFlag
    BY <2>1
  <2> HIDE DEF BeforeCheck, BeforeHead, TypeOK, IInv
  <2>4. QED
    BY <2>2, <2>3 DEF Steps
<1>12. ASSUME NEW o \in Orders, OrderAnswered(o) \/ OrderTimesOut(o) PROVE Steps
  <2>1. UNCHANGED <<pc, batch, Control, order>>
    BY <1>12 DEF OrderAnswered, OrderTimesOut
  <2>2. QED
    BY <2>1 DEF Steps
<1>13. CASE RecoveryTimeoutPasses
  BY <1>13 DEF Steps, RecoveryTimeoutPasses
<1>14. ASSUME NEW p \in Stops, StopBegins(p) \/ EmergencyStop(p) PROVE Steps
  <2>1. UNCHANGED <<pc, batch, order>>
    BY <1>14 DEF StopBegins, EmergencyStop
  <2>2. stopFlag' = TRUE
    BY <1>14 DEF StopBegins, EmergencyStop
  <2>3. BeforeCheck' <= BeforeCheck /\ BeforeHead' <= BeforeHead /\ order' = order
    BY <2>1
  <2> HIDE DEF BeforeCheck, BeforeHead, TypeOK, IInv
  <2>4. QED
    BY <2>2, <2>3 DEF Steps
<1>15. ASSUME NEW p \in Stops, CloseAnswers(p) \/ CloseFails(p) PROVE Steps
  <2>1. UNCHANGED <<pc, batch, Control>> /\ \A q \in Orders : order[q] = "none" => order'[q] = "none"
    BY <1>15 DEF CloseAnswers, CloseFails
  <2>2. QED
    BY <2>1 DEF Steps
<1>16. ASSUME NEW p \in Stops, StopEnds(p) PROVE Steps
  <2>1. /\ batch' = batch /\ UNCHANGED <<stopFlag, paused>>
        /\ \A q \in Orders : order[q] = "none" => order'[q] = "none"
    BY <1>16 DEF StopEnds
  <2>2. \/ pc' = pc
        \/ pc = "stop_assess" /\ pc' = "check"
        \/ pc = "stop_check" /\ pc' = "head"
    BY <1>16 DEF StopEnds, AfterStop
  <2>3. BeforeCheck' <= BeforeCheck /\ BeforeHead' <= BeforeHead
    BY <2>1, <2>2
  <2>4. QED
    BY <2>1, <2>3 DEF Steps
<1>17. ASSUME NEW o \in Orders, BrokerActs(o) PROVE Steps
  <2>1. UNCHANGED <<pc, batch, Control>> /\ \A q \in Orders : order[q] = "none" => order'[q] = "none"
    BY <1>17 DEF BrokerActs
  <2>2. QED
    BY <2>1 DEF Steps
<1>18. CASE Pause \/ Resume \/ ResumeRuns \/ Shutdown
  BY <1>18 DEF Steps, Pause, Resume, ResumeRuns, Shutdown
<1>19. CASE Cancel
  BY <1>19 DEF Steps, Cancel
<1>20. CASE UNCHANGED vars
  BY <1>20 DEF Steps, vars
<1>21. QED
  BY <1>1, <1>2, <1>3, <1>4, <1>5, <1>6, <1>7, <1>8, <1>9, <1>10, <1>11, <1>12, <1>13, <1>14,
     <1>15, <1>16, <1>17, <1>18, <1>19, <1>20
  DEF Next, LoopStep, StopStep

(* Orders come out of the batch under way; after an emergency stop, and     *)
(* during a pause, no batch begins.                                         *)
THEOREM TradingIsBounded == Spec => TradingEndsWithItsBatch
<1>1. IInv /\ [Next]_vars => [Steps]_vars
  BY StepsOfTheBatch
<1>2. QED
  BY <1>1, InvariantHolds, PTL DEF Spec, TradingEndsWithItsBatch, Steps

-----------------------------------------------------------------------------
(* What a stop leaves open.                                                 *)
Awaited  == IF current = {} THEN 0 ELSE 1

(* The positions on record once a stop has closed them all are those of the *)
(* batch under way: executed, awaited or still to come.                     *)
BatchBoundsTheRest ==
  /\ pc = "execute" => batch + Awaited <= MaxSignals
  /\ answered # {} => Cardinality(Recorded) + BeforeCheck + Awaited <= MaxSignals

(* The loop that stopped by itself awaits nothing and starts nothing.       *)
OwnStopIsLast ==
  Loop \in answered => Recorded = {} /\ current = {} /\ pc \notin {"generate", "execute"}

(* Positions on record are finitely many; one answer adds at most one.      *)
LEMMA RecordedIsFinite ==
  ASSUME MaxOrders \in Nat
  PROVE  /\ IsFiniteSet(Recorded) /\ Cardinality(Recorded) \in Nat
         /\ Recorded' \subseteq Recorded =>
              Cardinality(Recorded') \in Nat /\ Cardinality(Recorded') <= Cardinality(Recorded)
         /\ \A o \in Orders : Recorded' \subseteq Recorded \union {o} =>
              Cardinality(Recorded') \in Nat /\ Cardinality(Recorded') <= Cardinality(Recorded) + 1
<1>1. IsFiniteSet(Orders)
  BY FS_Interval DEF Orders
<1>2. IsFiniteSet(Recorded) /\ Cardinality(Recorded) \in Nat
  BY <1>1, FS_Subset, FS_CardinalityType DEF Recorded, Positions
<1>3. ASSUME Recorded' \subseteq Recorded
      PROVE  Cardinality(Recorded') \in Nat /\ Cardinality(Recorded') <= Cardinality(Recorded)
  BY <1>2, <1>3, FS_Subset, FS_CardinalityType
<1>4. ASSUME NEW o \in Orders, Recorded' \subseteq Recorded \union {o}
      PROVE  Cardinality(Recorded') \in Nat /\ Cardinality(Recorded') <= Cardinality(Recorded) + 1
  <2>1. /\ IsFiniteSet(Recorded \union {o})
        /\ Cardinality(Recorded \union {o}) =
             IF o \in Recorded THEN Cardinality(Recorded) ELSE Cardinality(Recorded) + 1
    BY <1>2, FS_AddElement
  <2>2. /\ IsFiniteSet(Recorded')
        /\ Cardinality(Recorded') <= Cardinality(Recorded \union {o})
    BY <1>4, <2>1, FS_Subset
  <2>3. QED
    BY <1>2, <2>1, <2>2, FS_CardinalityType
<1>5. QED
  BY <1>2, <1>3, <1>4

(* Adding two bounds. *)
LEMMA SumIsBounded ==
  ASSUME NEW a \in Int, NEW b \in Int, NEW c \in Int, NEW d \in Int, NEW m \in Int,
         a + b <= m, c <= a, d <= b
  PROVE  c + d <= m
OBVIOUS

(* A stop leaves at most the batch under way, the loop's own leaves none.   *)
THEOREM StopLeavesLittle == Spec => []StopLeavesAtMostABatch
<1> DEFINE Rest == BatchBoundsTheRest /\ OwnStopIsLast
<1>1. Init => Rest
  BY DEF Init, BatchBoundsTheRest, OwnStopIsLast
<1>2. IInv /\ Rest /\ [Next]_vars => Rest'
  <2> SUFFICES ASSUME IInv, Rest, [Next]_vars PROVE Rest'
    OBVIOUS
  <2>0. /\ MaxSignals \in Nat \ {0} /\ MaxOrders \in Nat
        /\ batch \in 0..MaxSignals /\ Cardinality(Recorded) \in Nat
    BY BrainAssumption, RecordedIsFinite DEF IInv, TypeOK
  <2> USE DEF IInv, LoopAwaitsItsStop, FlagIsSet, OneAwaited, BatchBoundsTheRest,
              OwnStopIsLast, Control, Broker, history, BeforeCheck, Awaited
  <2>1. ASSUME Recorded' \subseteq Recorded, UNCHANGED <<batch, current, history>>,
               pc' \in {pc, "head", "update", "assess", "reduce", "check", "ended",
                        "stop_assess", "stop_check"}
        PROVE  Rest'
    <3>1. Cardinality(Recorded') \in Nat /\ Cardinality(Recorded') <= Cardinality(Recorded)
      BY <2>0, <2>1, RecordedIsFinite
    <3>2. QED
      BY <2>0, <2>1, <3>1
  <2>2. CASE \/ LoopEnds \/ HandleCircuitOpen \/ StartCycle \/ UpdateState \/ UpdateStateFails
             \/ HighMargin \/ RiskAccepted \/ MaxDrawdown \/ EmergencyFound \/ CycleSucceeds
             \/ RecoveryTimeoutPasses \/ Pause \/ Resume \/ ResumeRuns \/ Shutdown
             \/ UNCHANGED vars
    <3>1. UNCHANGED <<batch, current, order, decided, history>>
      BY <2>2 DEF LoopEnds, HandleCircuitOpen, StartCycle, UpdateState, UpdateStateFails, HighMargin,
         RiskAccepted, MaxDrawdown, EmergencyFound, CycleSucceeds, RecoveryTimeoutPasses, Pause,
         Resume, ResumeRuns, Shutdown, vars
    <3>2. pc' \in {pc, "head", "update", "assess", "reduce", "check", "ended",
                   "stop_assess", "stop_check"}
      BY <2>2 DEF LoopEnds, HandleCircuitOpen, StartCycle, UpdateState, UpdateStateFails, HighMargin,
         RiskAccepted, MaxDrawdown, EmergencyFound, CycleSucceeds, RecoveryTimeoutPasses, Pause,
         Resume, ResumeRuns, Shutdown, vars
    <3>3. QED
      BY <2>1, <3>1, <3>2 DEF Recorded, Positions
  <2>3. CASE NoEmergency
    <3>1. ~stopFlag /\ answered = {} /\ answered' = {}
      BY <2>3 DEF NoEmergency
    <3>2. pc' # "execute"
      BY <2>3 DEF NoEmergency
    <3>3. QED
      BY <3>1, <3>2
  <2>4. CASE SignalsArrive
    <3>1. UNCHANGED <<current, order, decided, history>> /\ pc = "generate" /\ pc' = "execute"
      BY <2>4 DEF SignalsArrive
    <3>2. current = {} /\ batch' \in 0..MaxSignals /\ Recorded' = Recorded
      BY <2>4, <3>1 DEF SignalsArrive, Recorded, Positions
    <3>3. /\ Awaited = 0 /\ Awaited' = 0 /\ BeforeCheck = MaxSignals /\ BeforeCheck' = batch'
          /\ Cardinality(Recorded') = Cardinality(Recorded)
      BY <3>1, <3>2
    <3>4. BatchBoundsTheRest'
      <4> HIDE DEF Awaited, BeforeCheck, OneAwaited, IInv, OwnStopIsLast
      <4>1. pc' = "execute" => batch' + Awaited' <= MaxSignals
        <5>1. batch' \in Int /\ batch' <= MaxSignals /\ MaxSignals \in Int
          BY <2>0, <3>2
        <5>2. Awaited' \in Int /\ Awaited' <= 0
          BY <3>3
        <5>3. 0 \in Int /\ MaxSignals + 0 <= MaxSignals
          BY <5>1
        <5>4. batch' + Awaited' <= MaxSignals
          BY <5>1, <5>2, <5>3, SumIsBounded, Zenon
        <5>5. QED
          BY <5>4
      <4>2. ASSUME answered # {}
            PROVE  Cardinality(Recorded') + BeforeCheck' + Awaited' <= MaxSignals
        <5>1. Cardinality(Recorded) + BeforeCheck + Awaited <= MaxSignals
          BY <4>2
        <5>2. QED
          BY <5>1, <2>0, <3>1, <3>2, <3>3
      <4>3. QED
        BY <3>1, <4>1, <4>2
    <3>5. OwnStopIsLast'
      BY <3>1, <3>2
    <3>6. QED
      BY <3>4, <3>5
  <2>5. CASE CloseOrSkip \/ \E o \in Orders : ReduceExposure(o)
    <3>1. /\ batch' \in {batch, batch - 1} /\ UNCHANGED <<pc, current, decided, history>>
          /\ pc = "execute" => batch' \in 0..batch
      BY <2>0, <2>5 DEF CloseOrSkip, ReduceExposure
    <3>2. Recorded' \subseteq Recorded
      BY <2>5, <3>1 DEF CloseOrSkip, ReduceExposure, Recorded, Positions, TypeOK
    <3>3. Cardinality(Recorded') \in Nat /\ Cardinality(Recorded') <= Cardinality(Recorded)
      BY <2>0, <3>2, RecordedIsFinite
    <3>4. pc = "execute" \/ batch' = batch
      BY <2>5 DEF CloseOrSkip, ReduceExposure
    <3>5. Awaited' = Awaited /\ Awaited \in {0, 1}
      BY <3>1
    <3>6. BeforeCheck \in Nat /\ BeforeCheck' <= BeforeCheck /\ BeforeCheck' \in Nat
      BY <2>0, <3>1, <3>4
    <3>7. BatchBoundsTheRest'
      <4> HIDE DEF Awaited, BeforeCheck, OneAwaited, IInv, OwnStopIsLast
      <4>1. ASSUME pc' = "execute" PROVE batch' + Awaited' <= MaxSignals
        <5>1. batch + Awaited <= MaxSignals
          BY <3>1, <4>1
        <5>2. batch \in Int /\ batch' \in Int /\ batch' <= batch /\ MaxSignals \in Int
          BY <2>0, <3>1
        <5>3. Awaited' = Awaited /\ Awaited \in Int
          BY <3>5
        <5>4. Awaited' <= Awaited /\ Awaited' \in Int
          BY <5>3
        <5>5. QED
          BY <5>1, <5>2, <5>3, <5>4, SumIsBounded, Zenon
      <4>2. ASSUME answered # {}
            PROVE  Cardinality(Recorded') + BeforeCheck' + Awaited' <= MaxSignals
        <5>1. Cardinality(Recorded) + BeforeCheck + Awaited <= MaxSignals
          BY <4>2
        <5>2. QED
          BY <5>1, <2>0, <3>1, <3>3, <3>4, <3>5, <3>6
      <4>3. QED
        BY <3>1, <4>1, <4>2
    <3>8. OwnStopIsLast'
      BY <3>1, <3>2
    <3>9. QED
      BY <3>7, <3>8
  <2>6. ASSUME NEW o \in Orders, PlaceOrder(o) PROVE Rest'
    <3>1. /\ pc = "execute" /\ current = {} /\ current' = {o} /\ batch' = batch - 1
          /\ batch > 0 /\ UNCHANGED <<pc, decided, history>>
      BY <2>6 DEF PlaceOrder
    <3>2. Recorded' \subseteq Recorded
      BY <2>6 DEF PlaceOrder, Recorded, Positions, TypeOK
    <3>3. Cardinality(Recorded') \in Nat /\ Cardinality(Recorded') <= Cardinality(Recorded)
      BY <2>0, <3>2, RecordedIsFinite
    <3>4. Awaited = 0 /\ Awaited' = 1 /\ BeforeCheck = batch /\ BeforeCheck' = batch - 1
      BY <3>1
    <3>5. BatchBoundsTheRest'
      <4> HIDE DEF Awaited, BeforeCheck, OneAwaited, IInv, OwnStopIsLast
      <4> QED
        BY <2>0, <3>1, <3>3, <3>4
    <3>6. OwnStopIsLast'
      BY <3>1
    <3>7. QED
      BY <3>5, <3>6
  <2>7. ASSUME NEW o \in Orders, OrderAnswered(o) \/ OrderTimesOut(o) PROVE Rest'
    <3>1. /\ current # {} /\ current' = {} /\ pc = "execute"
          /\ UNCHANGED <<pc, batch, order, history>> /\ decided' \subseteq decided \union {o}
      BY <2>7 DEF OrderAnswered, OrderTimesOut
    <3>2. Recorded' \subseteq Recorded \union {o}
      BY <3>1 DEF Recorded, Positions
    <3>3. Cardinality(Recorded') \in Nat /\ Cardinality(Recorded') <= Cardinality(Recorded) + 1
      BY <2>0, <3>2, RecordedIsFinite
    <3>4. Awaited = 1 /\ Awaited' = 0 /\ BeforeCheck = batch /\ BeforeCheck' = batch
      BY <3>1
    <3>5. BatchBoundsTheRest'
      <4> HIDE DEF Awaited, BeforeCheck, OneAwaited, IInv, OwnStopIsLast
      <4> QED
        BY <2>0, <3>1, <3>3, <3>4
    <3>6. OwnStopIsLast'
      BY <3>1
    <3>7. QED
      BY <3>5, <3>6
  <2>8. ASSUME NEW p \in Stops, StopBegins(p) \/ EmergencyStop(p) \/ CloseFails(p) \/ StopEnds(p)
        PROVE  Rest'
    <3>1. UNCHANGED <<batch, current, decided, history>>
      BY <2>8 DEF StopBegins, EmergencyStop, CloseFails, StopEnds
    <3>2. pc' \in {pc, "check", "head"}
      BY <2>8 DEF StopBegins, EmergencyStop, CloseFails, StopEnds, AfterStop
    <3>3. \A q \in Orders : order'[q] = "open" => order[q] = "open"
      BY <2>8 DEF StopBegins, EmergencyStop, CloseFails, StopEnds, TypeOK
    <3>4. QED
      BY <2>1, <3>1, <3>2, <3>3 DEF Recorded, Positions
  <2>9. ASSUME NEW p \in Stops, CloseAnswers(p) PROVE Rest'
    <3>1. /\ UNCHANGED <<pc, batch, current, decided>> /\ stop[p] = "close"
          /\ answered' = answered \union {p}
      BY <2>9 DEF CloseAnswers
    <3>2. Recorded' = {}
      <4>1. PICK s \in SUBSET Positions :
              /\ order' = [o \in Orders |-> IF o \in s THEN "closed" ELSE order[o]]
              /\ missed' = missed \union (Positions \ s)
        BY <2>9 DEF CloseAnswers
      <4>2. \A o \in Orders : order'[o] = "open" => o \in Positions /\ o \notin s
        BY <4>1 DEF Positions
      <4>3. QED
        BY <4>1, <4>2 DEF Recorded, Positions
    <3>3. Cardinality(Recorded') = 0
      BY <3>2, FS_EmptySet
    <3>4. p = Loop => current = {} /\ pc \notin {"generate", "execute"}
      BY <3>1
    <3>5. pc \in {"generate", "execute"} \/ current = {}
      OBVIOUS
    <3>6. QED
      BY <2>0, <3>1, <3>2, <3>3, <3>4, <3>5
  <2>10. ASSUME NEW o \in Orders, BrokerActs(o) PROVE Rest'
    <3>1. UNCHANGED <<pc, batch, current, decided, history>> /\ order[o] = "sent"
      BY <2>10 DEF BrokerActs
    <3>2. Recorded' \subseteq Recorded
      BY <2>10, <3>1 DEF BrokerActs, Recorded, Positions, TypeOK, DecidedIsExecuted
    <3>3. QED
      BY <2>1, <3>1, <3>2
  <2>11. CASE Cancel
    <3>1. /\ pc' = "ended" /\ current' = {} /\ UNCHANGED <<order, decided, history>>
      BY <2>11 DEF Cancel
    <3>2. Recorded' = Recorded
      BY <3>1 DEF Recorded, Positions
    <3>3. QED
      BY <2>0, <3>1, <3>2
  <2>12. QED
    BY <2>2, <2>3, <2>4, <2>5, <2>6, <2>7, <2>8, <2>9, <2>10, <2>11 DEF Next, LoopStep, StopStep
<1>3. IInv /\ Rest => StopLeavesAtMostABatch
  <2> SUFFICES ASSUME IInv, Rest, answered # {} PROVE Cardinality(Recorded) <= MaxSignals
    BY DEF StopLeavesAtMostABatch, OwnStopIsLast, Recorded
  <2>1. MaxSignals \in Nat /\ batch \in 0..MaxSignals /\ Cardinality(Recorded) \in Nat
    BY BrainAssumption, RecordedIsFinite DEF IInv, TypeOK
  <2>2. BeforeCheck \in Nat /\ Awaited \in Nat
    BY <2>1 DEF BeforeCheck, Awaited
  <2>3. QED
    BY <2>1, <2>2 DEF BatchBoundsTheRest
<1>4. QED
  BY <1>1, <1>2, <1>3, InvariantHolds, PTL DEF Spec
=============================================================================
