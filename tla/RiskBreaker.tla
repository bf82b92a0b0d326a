--------------------------- MODULE RiskBreaker ----------------------------
(***************************************************************************)
(* risk/circuit_breakers.py, class CircuitBreaker: the trading halt with    *)
(* its kill switch, timed recovery, manual override and restart.           *)
(*                                                                         *)
(* Everything runs on one asyncio loop, where the re-entrant state_lock     *)
(* excludes nobody, so the awaits cut the methods into actions: the kill   *)
(* switch at its sleeps, _schedule_recovery and _check_recovery at their   *)
(* wake-up.  A tick is the grain of these two timers (five minutes); the   *)
(* kill switch (at most five seconds) and the monitoring loop run inside a *)
(* tick.  Of the orders and positions only their identity is kept: sizes,  *)
(* exposure and correlation are other reasons for pre_trade_check to say   *)
(* no.  A Redis server is there and keeps what it is given.                *)
(***************************************************************************)
EXTENDS Integers, FiniteSets

CONSTANTS
  PositionIds,       (* positions, and the orders that open them             *)
  Balances,          (* what broker.get_balance() can return                 *)
  DailyDrawdown,     (* max_daily_drawdown_pct, in percent                   *)
  MaxLosses,         (* max_consecutive_losses; losses are counted up to it  *)
  MaxOrders,         (* max_orders_per_minute; orders are counted up to it   *)
  Cooldown,          (* ticks of circuit_breaker_cooldown_minutes: 3 in fact *)
  TestPeriod,        (* ticks _check_recovery sleeps: 1 in fact              *)
  MaxHalvings,       (* bound: halvings are counted up to it                 *)
  MaxBoots,          (* bound: restarts of the process                       *)
  OperatorOverrides, (* the operator uses manual_override                    *)
  BrokerRaises       (* broker calls of the halt may raise                   *)

ASSUME BoundsAssumption ==
  /\ Balances \subseteq Nat \ {0} /\ DailyDrawdown \in 0..100
  /\ {MaxLosses, MaxOrders, TestPeriod, MaxHalvings} \subseteq Nat \ {0}
  /\ Cooldown \in Nat /\ TestPeriod < Cooldown
  /\ MaxBoots \in Nat /\ OperatorOverrides \in BOOLEAN /\ BrokerRaises \in BOOLEAN

VARIABLES
  state,      (* CircuitState                                                *)
  override,   (* _manual_override                                            *)
  halvings,   (* how often max_position_size_pct was halved and not restored *)
  peak,       (* peak_balance                                                *)
  seen,       (* the balance current_drawdown was computed from              *)
  losses,     (* consecutive_losses                                          *)
  costly,     (* loss_streak_amount is over its limit                        *)
  recent,     (* orders in the rate window                                   *)
  recovery,   (* ticks until the _schedule_recovery task wakes, or Off       *)
  checks,     (* ticks until each _check_recovery task wakes                 *)
  kill,       (* where _execute_kill_switch sleeps: attempt and phase        *)
  snapshot,   (* the positions the attempt is going to close                 *)
  alerted,    (* the last kill switch ended with an emergency alert          *)
  redis,      (* the persisted state and consecutive_losses                  *)
  balance,    (* the broker's balance                                        *)
  positions,  (* the broker's open positions                                 *)
  approved,   (* orders that passed pre_trade_check and are not executed yet *)
  strays,     (* history: positions no kill switch of this halt has looked at*)
  boots       (* restarts so far                                             *)

limits == <<override, halvings>>
tracked == <<peak, seen>>
counters == <<losses, costly, recent>>
timers == <<recovery, checks>>
switch == <<kill, snapshot, alerted>>
broker == <<balance, positions, approved>>
vars == <<state, limits, tracked, counters, timers, switch, redis, broker, strays, boots>>

Off == -1
Idle == [attempt |-> 0, phase |-> "idle"]
MaxRetries == 3

(* _persist_state *)
Persisted(s, n) == [state |-> s, losses |-> n]

Init ==
  /\ balance \in Balances /\ peak = balance /\ seen = balance
  /\ state = "closed" /\ override = FALSE /\ halvings = 0
  /\ losses = 0 /\ costly = FALSE /\ recent = 0
  /\ recovery = Off /\ checks = {} /\ kill = Idle /\ snapshot = {} /\ alerted = FALSE
  /\ redis = Persisted("closed", 0)
  /\ positions = {} /\ approved = {} /\ strays = {} /\ boots = 0

-----------------------------------------------------------------------------
(* The broker and the callers *)

BalanceMoves ==
  /\ balance' \in Balances \ {balance}
  /\ UNCHANGED <<state, limits, tracked, counters, timers, switch, redis, positions, approved, strays, boots>>

(* pre_trade_check lets an order through. *)
PreTradeCheck(p) ==
  /\ state # "open" /\ p \notin positions \union approved
  /\ approved' = approved \union {p}
  /\ recent' = IF recent < MaxOrders THEN recent + 1 ELSE recent
  /\ UNCHANGED <<state, limits, tracked, losses, costly, timers, switch, redis, balance, positions, strays, boots>>

(* The oldest order leaves the one-minute window. *)
WindowSlides ==
  /\ recent > 0 /\ recent' = recent - 1
  /\ UNCHANGED <<state, limits, tracked, losses, costly, timers, switch, redis, broker, strays, boots>>

(* The broker executes an approved order, in whatever state the breaker is. *)
OrderExecutes(p) ==
  /\ p \in approved
  /\ approved' = approved \ {p} /\ positions' = positions \union {p}
  /\ strays' = IF state = "open" /\ kill = Idle THEN strays \union {p} ELSE strays
  /\ UNCHANGED <<state, limits, tracked, counters, timers, switch, redis, balance, boots>>

(* The broker closes a position at its stop or target: update_trade_result. *)
TradeResult(p, lost) ==
  /\ p \in positions
  /\ positions' = positions \ {p} /\ strays' = strays \ {p}
  /\ losses' = IF ~lost THEN 0 ELSE IF losses < MaxLosses THEN losses + 1 ELSE losses
  /\ costly' \in IF lost THEN {costly, TRUE} ELSE {FALSE}
  /\ redis' = Persisted(state, losses')
  /\ UNCHANGED <<state, limits, tracked, recent, timers, switch, balance, approved, boots>>

-----------------------------------------------------------------------------
(* The halt *)

(* _check_risk_limits: the breach of a drawdown, order rate or loss limit.  *)
(* The total drawdown limit is the wider one and never decides.             *)
PeakAfter == IF balance > peak THEN balance ELSE peak
Breached == \/ 100 * (PeakAfter - balance) >= DailyDrawdown * PeakAfter
            \/ recent >= MaxOrders
            \/ losses >= MaxLosses /\ costly

(* Fault: no final look at the positions after the last attempt. *)
KillEndsUnchecked(left) ==
  kill' = Idle /\ snapshot' = {} /\ alerted' = FALSE /\ recovery' = Cooldown

(* Fault: the recovery is not scheduled when positions are left. *)
KillEndsStuck(left) ==
  /\ kill' = Idle /\ snapshot' = {} /\ alerted' = (left # {})
  /\ recovery' = IF left = {} THEN Cooldown ELSE Off

(* The kill switch is over: the final look at the positions, an alert if    *)
(* some are left, and the recovery is scheduled.                            *)
KillEnds(left) ==
  kill' = Idle /\ snapshot' = {} /\ alerted' = (left # {}) /\ recovery' = Cooldown

(* The final look raises: no alert, and _trigger_circuit_breaker never gets *)
(* to schedule the recovery.                                               *)
KillLost ==
  /\ BrokerRaises
  /\ kill' = Idle /\ snapshot' = {} /\ alerted' = FALSE /\ UNCHANGED recovery

(* Attempt n of the kill switch up to its first sleep.  It finds nothing to *)
(* close, or the attempts are used up; it cancels the orders that have      *)
(* reached the broker and lists the positions to close; or a broker call    *)
(* raises and the attempt sleeps until the next one.                        *)
KillAttempt(n) ==
  IF positions = {} \/ n > MaxRetries
  THEN (KillEnds(positions) \/ KillLost) /\ UNCHANGED approved
  ELSE /\ UNCHANGED <<alerted, recovery>>
       /\ \/ /\ kill' = [attempt |-> n, phase |-> "close"] /\ snapshot' = positions
             /\ approved' \in SUBSET approved
          \/ /\ BrokerRaises
             /\ kill' = [attempt |-> n, phase |-> "verify"]
             /\ UNCHANGED <<snapshot, approved>>

(* _check_risk_limits with nothing to report, or in a halt.  The monitoring *)
(* loop waits for its kill switch; a check that manual_override scheduled   *)
(* does not.                                                                *)
CheckQuiet ==
  /\ ~Breached \/ state = "open"
  /\ kill = Idle \/ OperatorOverrides
  /\ tracked # <<PeakAfter, balance>>
  /\ peak' = PeakAfter /\ seen' = balance
  /\ UNCHANGED <<state, limits, counters, timers, switch, redis, broker, strays, boots>>

(* Fault: a halt that is on is triggered again. *)
TriggerAgain ==
  /\ Breached
  /\ peak' = PeakAfter /\ seen' = balance
  /\ state' = "open" /\ strays' = {}
  /\ redis' = Persisted("open", losses) /\ KillAttempt(1)
  /\ UNCHANGED <<limits, counters, checks, balance, positions, boots>>

(* _check_risk_limits with a breach: _trigger_circuit_breaker up to the     *)
(* first sleep of the kill switch.                                          *)
Trigger ==
  /\ Breached /\ state # "open"
  /\ peak' = PeakAfter /\ seen' = balance
  /\ state' = "open" /\ strays' = {}
  /\ redis' = Persisted("open", losses) /\ KillAttempt(1)
  /\ UNCHANGED <<limits, counters, checks, balance, positions, boots>>

(* The same when broker.get_balance() raises while the breach is recorded:  *)
(* the state is OPEN already; the monitoring loop logs the error.           *)
TriggerRaises ==
  /\ BrokerRaises /\ Breached /\ state # "open"
  /\ peak' = PeakAfter /\ seen' = balance
  /\ state' = "open" /\ strays' = {} /\ alerted' = FALSE
  /\ UNCHANGED <<limits, counters, timers, kill, snapshot, redis, broker, boots>>

(* After the first sleep: close_position on each position of the list; a    *)
(* refused close is logged and passed over.                                 *)
KillClose ==
  /\ kill.phase = "close"
  /\ kill' = [kill EXCEPT !.phase = "verify"]
  /\ \E refused \in SUBSET snapshot : positions' = positions \ (snapshot \ refused)
  /\ UNCHANGED <<state, limits, tracked, counters, timers, snapshot, alerted, redis, balance, approved, strays, boots>>

(* After the second sleep: done, or the next attempt. *)
KillVerify ==
  /\ kill.phase = "verify"
  /\ KillAttempt(kill.attempt + 1)
  /\ UNCHANGED <<state, limits, tracked, counters, checks, redis, balance, positions, strays, boots>>

-----------------------------------------------------------------------------
(* The recovery *)

Halved == IF halvings < MaxHalvings THEN halvings + 1 ELSE halvings

(* Fault: the check at the end of the test period is not scheduled. *)
RecoverUnwatched ==
  /\ recovery = 0 /\ recovery' = Off
  /\ \/ override /\ UNCHANGED <<state, halvings>>
     \/ ~override /\ state' = "half_open" /\ halvings' = Halved
  /\ UNCHANGED <<override, tracked, counters, checks, switch, redis, broker, strays, boots>>

(* _schedule_recovery wakes up; it does not look at the state. *)
Recover ==
  /\ recovery = 0 /\ recovery' = Off
  /\ \/ override /\ UNCHANGED <<state, halvings, checks>>
     \/ /\ ~override
        /\ state' = "half_open" /\ halvings' = Halved
        /\ checks' = checks \union {TestPeriod}
  /\ UNCHANGED <<override, tracked, counters, switch, redis, broker, strays, boots>>

(* current_drawdown < max_daily_drawdown_pct * 0.5, as last computed *)
DrawdownRecovered == 200 * (peak - seen) < DailyDrawdown * peak

(* Fault: a check that comes too late for its test period is repeated. *)
CheckRecoveryRepeats ==
  /\ 0 \in checks
  /\ \/ /\ state # "half_open" /\ checks' = (checks \ {0}) \union {TestPeriod}
        /\ UNCHANGED <<state, halvings, redis, recovery, strays>>
     \/ /\ state = "half_open" /\ checks' = checks \ {0}
        /\ state' = "closed" /\ halvings' = halvings - 1
        /\ redis' = Persisted("closed", losses) /\ UNCHANGED <<recovery, strays>>
  /\ UNCHANGED <<override, tracked, counters, switch, broker, boots>>

(* _check_recovery wakes up.  A failed test halts trading again, without    *)
(* the kill switch.                                                         *)
CheckRecovery ==
  /\ 0 \in checks /\ checks' = checks \ {0}
  /\ \/ state # "half_open" /\ UNCHANGED <<state, halvings, redis, recovery, strays>>
     \/ /\ state = "half_open" /\ DrawdownRecovered
        /\ state' = "closed" /\ halvings' = halvings - 1
        /\ redis' = Persisted("closed", losses)
        /\ UNCHANGED <<recovery, strays>>
     \/ /\ state = "half_open" /\ ~DrawdownRecovered
        /\ state' = "open" /\ recovery' = Cooldown /\ strays' = positions
        /\ UNCHANGED <<halvings, redis>>
  /\ UNCHANGED <<override, tracked, counters, switch, broker, boots>>

Tick ==
  /\ recovery # 0 /\ 0 \notin checks /\ kill = Idle
  /\ recovery # Off \/ checks # {}
  /\ recovery' = IF recovery = Off THEN Off ELSE recovery - 1
  /\ checks' = {t - 1 : t \in checks}
  /\ UNCHANGED <<state, limits, tracked, counters, switch, redis, broker, strays, boots>>

(* manual_override; disabling it also schedules a _check_risk_limits. *)
ManualOverride(enable) ==
  /\ OperatorOverrides /\ override # enable
  /\ override' = enable
  /\ redis' = Persisted(state, losses)
  /\ UNCHANGED <<state, halvings, tracked, counters, timers, switch, broker, strays, boots>>

(* The process dies, or ends after shutdown() has persisted once more, and  *)
(* __init__ runs again: _load_state takes up the loss count, not the state  *)
(* and not the streak's amount, and the peak it loads is overwritten by the *)
(* balance.                                                                 *)
Restart ==
  /\ boots < MaxBoots /\ boots' = boots + 1
  /\ state' = "closed" /\ override' = FALSE /\ halvings' = 0
  /\ peak' = balance /\ seen' = balance
  /\ redis' \in {redis, Persisted(state, losses)}
  /\ losses' = redis'.losses /\ costly' = FALSE /\ recent' = 0
  /\ recovery' = Off /\ checks' = {}
  /\ kill' = Idle /\ snapshot' = {} /\ alerted' = FALSE /\ strays' = {}
  /\ UNCHANGED broker

-----------------------------------------------------------------------------
Kill == KillClose \/ KillVerify
Wake == Recover \/ CheckRecovery \/ Tick

Next ==
  \/ BalanceMoves \/ WindowSlides \/ CheckQuiet \/ Trigger \/ TriggerRaises
  \/ Kill \/ Wake \/ Restart
  \/ \E p \in PositionIds :
       PreTradeCheck(p) \/ OrderExecutes(p) \/ \E lost \in BOOLEAN : TradeResult(p, lost)
  \/ \E enable \in BOOLEAN : ManualOverride(enable)

Spec == Init /\ [][Next]_vars

(* asyncio resumes the sleeping tasks; the broker, the market and the       *)
(* operator owe nothing.                                                    *)
FairSpec == Spec /\ WF_vars(Kill) /\ WF_vars(Wake)

-----------------------------------------------------------------------------
TypeOK ==
  /\ state \in {"closed", "open", "half_open"} /\ override \in BOOLEAN
  /\ halvings \in 0..MaxHalvings
  /\ {peak, seen, balance} \subseteq Balances
  /\ losses \in 0..MaxLosses /\ costly \in BOOLEAN /\ recent \in 0..MaxOrders
  /\ recovery \in 0..Cooldown \union {Off} /\ checks \subseteq 0..TestPeriod
  /\ kill \in {Idle} \union [attempt : 1..MaxRetries, phase : {"close", "verify"}]
  /\ {snapshot, positions, approved, strays} \subseteq SUBSET PositionIds
  /\ alerted \in BOOLEAN
  /\ redis \in [state : {"closed", "open", "half_open"}, losses : 0..MaxLosses]
  /\ boots \in 0..MaxBoots

(* A halt is worked on by one actor at most: its kill switch, then its      *)
(* recovery timer.  Neither outlives the halt, although                     *)
(* _schedule_recovery wakes up without looking at the state and the         *)
(* monitoring loop keeps checking the limits.                               *)
OneRecoveryPerHalt ==
  /\ kill # Idle \/ recovery # Off => state = "open"
  /\ kill = Idle \/ recovery = Off

(* While HALF_OPEN lasts exactly one _check_recovery is pending, its own: a *)
(* test period is never cut short by a check left over from an earlier one. *)
OwnCheckOnly == state = "half_open" => \E t \in checks : checks = {t}

(* _check_recovery restores max_position_size_pct only what Recover halved: *)
(* the limit never ends above the configured one, and it is reduced all     *)
(* through the test period.                                                 *)
LimitNeverInflated == halvings >= (IF state = "half_open" THEN 1 ELSE 0)

(* circuit_breakers.py:62 "Automatic position flattening on breach": in a   *)
(* halt whose kill switch is over, every position it was responsible for is *)
(* closed, or the emergency alert was sent.  (Positions that appeared after *)
(* it, or were kept by a failed test, are nobody's responsibility.)         *)
HaltFlattensOrAlerts ==
  state = "open" /\ kill = Idle /\ ~alerted => positions \subseteq strays

(* An automatic halt is not for ever: its recovery comes (_trigger,         *)
(* _execute_kill_switch and _schedule_recovery one after the other).        *)
HaltEnds == state = "open" ~> state # "open"

(* A test period comes to its verdict or is broken off by a new halt. *)
TestEnds == state = "half_open" ~> state # "half_open"

-----------------------------------------------------------------------------
(* circuit_breakers.py:380 "Persist state to Redis for recovery": a process *)
(* that restarts during a persisted halt comes back halted.                 *)
RestartKeepsHalt == [][boots' # boots /\ redis.state = "open" => state' = "open"]_vars
=============================================================================
