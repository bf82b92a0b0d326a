------------------------- MODULE RiskBreakerProofs --------------------------
(***************************************************************************)
(* Theorems about RiskBreaker for every set of positions and balances and  *)
(* every limit, cooldown and test period (shorter than the cooldown).      *)
(***************************************************************************)
EXTENDS RiskBreaker, TLAPS

(* Where the pending checks may stand: none in normal operation, and in a   *)
(* halt only checks that wake up, and find nothing to do, before the        *)
(* recovery does.                                                           *)
ChecksInTheirPlace ==
  /\ state = "closed" => checks = {}
  /\ recovery # Off => \A t \in checks : t < recovery

(* The inductive invariant. *)
IInv == TypeOK /\ OneRecoveryPerHalt /\ OwnCheckOnly /\ LimitNeverInflated /\ ChecksInTheirPlace

-----------------------------------------------------------------------------
(* An attempt of the kill switch leaves its record and the recovery timer   *)
(* well formed, starts the timer only when it is the last one, and then     *)
(* above every pending check.                                               *)
LEMMA AttemptOutcome ==
  ASSUME TypeOK, NEW n \in 1..(MaxRetries + 1), recovery = Off, KillAttempt(n)
  PROVE  /\ kill' \in {Idle} \union [attempt : 1..MaxRetries, phase : {"close", "verify"}]
         /\ recovery' \in {Off, Cooldown}
         /\ kill' = Idle \/ recovery' = Off
         /\ {snapshot', approved'} \subseteq SUBSET PositionIds
         /\ alerted' \in BOOLEAN
         /\ recovery' # Off => \A t \in checks : t < recovery'
<1> USE BoundsAssumption DEF TypeOK, Off, MaxRetries
<1>1. CASE positions = {} \/ n > MaxRetries
  <2>1. /\ kill' = Idle /\ snapshot' = {} /\ approved' = approved
        /\ recovery' \in {Off, Cooldown}
    BY <1>1 DEF KillAttempt, KillEnds, KillLost
  <2>2. alerted' \in BOOLEAN
    BY <1>1 DEF KillAttempt, KillEnds, KillLost
  <2>3. \A t \in checks : t < Cooldown
    OBVIOUS
  <2>4. QED
    BY <2>1, <2>2, <2>3
<1>2. CASE ~(positions = {} \/ n > MaxRetries)
  <2>1. n \in 1..3
    BY <1>2
  <2>2. /\ kill' \in [attempt : 1..3, phase : {"close", "verify"}]
        /\ recovery' = Off /\ alerted' = alerted
    BY <1>2, <2>1 DEF KillAttempt
  <2>3. {snapshot', approved'} \subseteq SUBSET PositionIds
    BY <1>2 DEF KillAttempt
  <2>4. QED
    BY <2>2, <2>3
<1>3. QED
  BY <1>1, <1>2

(* The halt, its kill switch and its recovery never overlap, every test     *)
(* period has its own check, and the position limit is never inflated.      *)
THEOREM InvariantHolds == Spec => []IInv
<1>1. Init => IInv
  <2> SUFFICES ASSUME Init PROVE IInv
    OBVIOUS
  <2>1. /\ 0 \in 0..MaxHalvings /\ 0 \in 0..MaxLosses /\ 0 \in 0..MaxOrders
        /\ 0 \in 0..MaxBoots /\ Off \in 0..Cooldown \union {Off}
    BY BoundsAssumption
  <2>2. redis \in [state : {"closed", "open", "half_open"}, losses : 0..MaxLosses]
    BY <2>1 DEF Init, Persisted
  <2>3. TypeOK
    BY <2>1, <2>2 DEF Init, TypeOK
  <2>4. QED
    BY <2>3 DEF Init, IInv, OneRecoveryPerHalt, OwnCheckOnly, LimitNeverInflated,
       ChecksInTheirPlace
<1>2. IInv /\ [Next]_vars => IInv'
  <2> SUFFICES ASSUME IInv, [Next]_vars PROVE IInv'
    OBVIOUS
  <2> USE BoundsAssumption
      DEF IInv, TypeOK, OneRecoveryPerHalt, OwnCheckOnly, LimitNeverInflated,
          ChecksInTheirPlace, Off
  <2> USE DEF limits, tracked, counters, timers, switch, broker
  <2>1. CASE BalanceMoves
    BY <2>1 DEF BalanceMoves
  <2>2. CASE WindowSlides
    BY <2>2 DEF WindowSlides
  <2>3. CASE CheckQuiet
    BY <2>3 DEF CheckQuiet, PeakAfter
  <2>4. CASE Trigger
    <3>1. recovery = Off /\ kill = Idle
      BY <2>4 DEF Trigger
    <3>2. /\ kill' \in {Idle} \union [attempt : 1..MaxRetries, phase : {"close", "verify"}]
          /\ recovery' \in {Off, Cooldown}
          /\ kill' = Idle \/ recovery' = Off
          /\ {snapshot', approved'} \subseteq SUBSET PositionIds
          /\ alerted' \in BOOLEAN
          /\ recovery' # Off => \A t \in checks : t < recovery'
      BY <2>4, <3>1, AttemptOutcome DEF Trigger, MaxRetries
    <3>3. QED
      BY <2>4, <3>2 DEF Trigger, PeakAfter, Persisted
  <2>5. CASE TriggerRaises
    <3>1. /\ state # "open" /\ state' = "open" /\ strays' = {} /\ alerted' = FALSE
          /\ peak' \in Balances /\ seen' \in Balances
          /\ UNCHANGED <<limits, counters, timers, kill, snapshot, redis, broker, boots>>
      BY <2>5 DEF TriggerRaises, PeakAfter
    <3>2. alerted' \in BOOLEAN
      BY <3>1
    <3>3. QED
      BY <3>1, <3>2
  <2>6. CASE KillClose
    <3>1. kill \in [attempt : 1..MaxRetries, phase : {"close", "verify"}]
      BY <2>6 DEF KillClose, Idle
    <3>2. kill' \in [attempt : 1..MaxRetries, phase : {"close", "verify"}]
      BY <2>6, <3>1 DEF KillClose
    <3>3. kill # Idle
      BY <2>6 DEF KillClose, Idle
    <3>4. QED
      BY <2>6, <3>2, <3>3 DEF KillClose
  <2>7. CASE KillVerify
    <3>1. kill \in [attempt : 1..MaxRetries, phase : {"close", "verify"}] /\ kill # Idle
      BY <2>7 DEF KillVerify, Idle
    <3>2. kill.attempt + 1 \in 1..(MaxRetries + 1) /\ recovery = Off /\ state = "open"
      BY <3>1 DEF MaxRetries
    <3>3. /\ kill' \in {Idle} \union [attempt : 1..MaxRetries, phase : {"close", "verify"}]
          /\ recovery' \in {Off, Cooldown}
          /\ kill' = Idle \/ recovery' = Off
          /\ {snapshot', approved'} \subseteq SUBSET PositionIds
          /\ alerted' \in BOOLEAN
          /\ recovery' # Off => \A t \in checks : t < recovery'
      BY <2>7, <3>2, AttemptOutcome DEF KillVerify
    <3>4. QED
      BY <2>7, <3>2, <3>3 DEF KillVerify
  <2>8. CASE Recover
    <3>1. state = "open" /\ kill = Idle /\ checks = {}
      BY <2>8 DEF Recover
    <3>2. QED
      BY <2>8, <3>1 DEF Recover, Halved
  <2>9. CASE CheckRecovery
    <3>1. CASE state # "half_open"
      BY <2>9, <3>1 DEF CheckRecovery
    <3>2. CASE state = "half_open"
      <4>1. checks' = {} /\ recovery = Off /\ kill = Idle /\ halvings >= 1
        BY <2>9, <3>2 DEF CheckRecovery
      <4>2. QED
        BY <2>9, <3>2, <4>1 DEF CheckRecovery, Persisted
    <3>3. QED
      BY <3>1, <3>2
  <2>10. CASE Tick
    <3>1. /\ recovery' = (IF recovery = Off THEN Off ELSE recovery - 1)
          /\ checks' = {t - 1 : t \in checks}
          /\ recovery # 0 /\ 0 \notin checks
      BY <2>10 DEF Tick
    <3>2. recovery' \in 0..Cooldown \union {Off} /\ checks' \subseteq 0..TestPeriod
      BY <3>1
    <3>3. recovery' # Off => recovery # Off /\ \A t \in checks' : t < recovery'
      BY <3>1
    <3>4. ASSUME state = "half_open" PROVE \E t \in checks' : checks' = {t}
      <4>1. PICK t \in checks : checks = {t}
        BY <3>4
      <4>2. checks' = {t - 1}
        BY <3>1, <4>1
      <4>3. QED
        BY <4>2
    <3>5. state = "closed" => checks' = {}
      BY <3>1
    <3>6. QED
      BY <2>10, <3>2, <3>3, <3>4, <3>5 DEF Tick
  <2>11. CASE Restart
    <3>1. /\ boots + 1 \in 0..MaxBoots
          /\ 0 \in 0..MaxHalvings /\ 0 \in 0..MaxOrders
      BY <2>11 DEF Restart
    <3>2. redis' \in [state : {"closed", "open", "half_open"}, losses : 0..MaxLosses]
      BY <2>11 DEF Restart, Persisted
    <3>3. /\ losses' \in 0..MaxLosses /\ boots' \in 0..MaxBoots
          /\ override' \in BOOLEAN /\ costly' \in BOOLEAN /\ alerted' \in BOOLEAN
      BY <2>11, <3>1, <3>2 DEF Restart
    <3>4. TypeOK'
      BY <2>11, <3>1, <3>2, <3>3 DEF Restart
    <3>5. QED
      BY <2>11, <3>4 DEF Restart
  <2>12. ASSUME NEW p \in PositionIds, PreTradeCheck(p) PROVE IInv'
    BY <2>12 DEF PreTradeCheck
  <2>13. ASSUME NEW p \in PositionIds, OrderExecutes(p) PROVE IInv'
    BY <2>13 DEF OrderExecutes
  <2>14. ASSUME NEW p \in PositionIds, NEW lost \in BOOLEAN, TradeResult(p, lost) PROVE IInv'
    <3>1. losses' \in 0..MaxLosses
      BY <2>14 DEF TradeResult
    <3>2. redis' \in [state : {"closed", "open", "half_open"}, losses : 0..MaxLosses]
      BY <2>14, <3>1 DEF TradeResult, Persisted
    <3>3. costly' \in BOOLEAN
      BY <2>14 DEF TradeResult
    <3>4. QED
      BY <2>14, <3>1, <3>2, <3>3 DEF TradeResult
  <2>15. ASSUME NEW enable \in BOOLEAN, ManualOverride(enable) PROVE IInv'
    BY <2>15 DEF ManualOverride, Persisted
  <2>16. CASE UNCHANGED vars
    BY <2>16 DEF vars
  <2>17. QED
    BY <2>1, <2>2, <2>3, <2>4, <2>5, <2>6, <2>7, <2>8, <2>9, <2>10, <2>11, <2>12,
       <2>13, <2>14, <2>15, <2>16 DEF Next, Kill, Wake
<1>3. QED
  BY <1>1, <1>2, PTL DEF Spec

(* A halt has one actor at a time, whatever order checks, kill switch and   *)
(* timers run in.                                                           *)
COROLLARY HaltsHaveOneActor == Spec => []OneRecoveryPerHalt
  BY InvariantHolds, PTL DEF IInv

(* No test period is judged by a check left over from an earlier one. *)
COROLLARY TestsAreJudgedInTime == Spec => []OwnCheckOnly
  BY InvariantHolds, PTL DEF IInv

(* max_position_size_pct never exceeds the configured limit. *)
COROLLARY LimitIsNeverInflated == Spec => []LimitNeverInflated
  BY InvariantHolds, PTL DEF IInv

-----------------------------------------------------------------------------
(* When no broker call raises, a halt flattens the book or raises the       *)
(* alarm, however many closes the broker refuses.                           *)
THEOREM HaltsFlattenOrAlert == ASSUME ~BrokerRaises PROVE Spec => []HaltFlattensOrAlerts
<1>1. Init => HaltFlattensOrAlerts
  BY DEF Init, HaltFlattensOrAlerts
<1>2. TypeOK /\ HaltFlattensOrAlerts /\ [Next]_vars => HaltFlattensOrAlerts'
  <2> SUFFICES ASSUME TypeOK, HaltFlattensOrAlerts, [Next]_vars PROVE HaltFlattensOrAlerts'
    OBVIOUS
  <2> USE DEF HaltFlattensOrAlerts, limits, tracked, counters, timers, switch, broker
  <2>a. ASSUME NEW n, KillAttempt(n), positions' = positions PROVE HaltFlattensOrAlerts'
    <3>1. CASE positions = {} \/ n > MaxRetries
      <4>1. alerted' = (positions # {})
        BY <2>a, <3>1 DEF KillAttempt, KillEnds, KillLost
      <4>2. QED
        BY <2>a, <4>1
    <3>2. CASE ~(positions = {} \/ n > MaxRetries)
      <4>1. kill' = [attempt |-> n, phase |-> "close"]
        BY <2>a, <3>2 DEF KillAttempt
      <4>2. kill' # Idle
        BY <4>1 DEF Idle
      <4>3. QED
        BY <4>2
    <3>3. QED
      BY <3>1, <3>2
  <2>1. CASE BalanceMoves \/ WindowSlides \/ CheckQuiet
    BY <2>1 DEF BalanceMoves, WindowSlides, CheckQuiet
  <2>2. CASE Trigger \/ TriggerRaises
    BY <2>2, <2>a DEF Trigger, TriggerRaises
  <2>3. CASE KillClose
    <3>1. kill'.phase = "verify"
      BY <2>3 DEF KillClose, TypeOK, Idle
    <3>2. kill' # Idle
      BY <3>1 DEF Idle
    <3>3. QED
      BY <3>2
  <2>4. CASE KillVerify
    BY <2>4, <2>a DEF KillVerify
  <2>5. CASE Recover \/ Tick
    BY <2>5 DEF Recover, Tick
  <2>6. CASE CheckRecovery
    BY <2>6 DEF CheckRecovery
  <2>7. CASE Restart
    BY <2>7 DEF Restart
  <2>8. ASSUME NEW p \in PositionIds,
               PreTradeCheck(p) \/ OrderExecutes(p) \/ \E lost \in BOOLEAN : TradeResult(p, lost)
        PROVE  HaltFlattensOrAlerts'
    BY <2>8 DEF PreTradeCheck, OrderExecutes, TradeResult
  <2>9. ASSUME NEW enable \in BOOLEAN, ManualOverride(enable) PROVE HaltFlattensOrAlerts'
    BY <2>9 DEF ManualOverride
  <2>10. CASE UNCHANGED vars
    BY <2>10 DEF vars
  <2>11. QED
    BY <2>1, <2>2, <2>3, <2>4, <2>5, <2>6, <2>7, <2>8, <2>9, <2>10 DEF Next, Kill, Wake
<1>3. Spec => []TypeOK
  BY InvariantHolds, PTL DEF IInv
<1>4. QED
  BY <1>1, <1>2, <1>3, PTL DEF Spec
=============================================================================
