# Verification of the HOPEFX trading platform

TLA+ models of the parts of this repository that move orders, halt trading, cut
off failing services, carry messages and hold customers' money, with TLC configurations that
check them on small instances and TLAPS proofs for every value of their
parameters. Paths below are relative to the repository.

Contents: [the system](#1-the-system) - [modules and code](#2-modules-and-the-code-they-model) -
[runs](#3-what-the-runs-check) - [bounds](#4-bounds) - [fairness](#5-fairness) -
[proofs](#6-what-is-proved) - [disagreements](#7-where-code-and-documentation-disagree) -
[not modelled](#8-what-is-not-modelled) - [next](#9-what-would-come-next).

## 1. The system

The platform is a Python asyncio application. A control loop (`brain/brain.py`)
turns strategy signals into orders at a broker; order managers keep the life of
those orders; risk components stop trading; payment components keep the money of
its users. Several layers exist in two generations (`execution/`, `risk/`,
`infrastructure/` and their newer counterparts under the directory `src/`).

| Component | State it keeps | Operations | Talks to | Hard behaviour | Correct when |
|---|---|---|---|---|---|
| Order lifecycle, `execution/oms.py` `OrderLifecycleManager` | orders with status, filled quantity and average; `active_orders`; `order_history`; callbacks | create, submit (async acceptance), fill, cancel, expiry sweep | complex orders through callbacks | the submission sleeps while fills, cancels and sweeps arrive | status, quantities, book and history tell one story; a final order stays final |
| Complex orders, same file, `ComplexOrderManager` | parent ids, registered callbacks, slices revealed | OCO, bracket, iceberg | creates and cancels orders of the lifecycle inside its callbacks | a fill sets off several orders at once; legs not yet at the broker | one leg per pair; exits equal to the position |
| Advanced orders, `brokers/advanced_orders.py` | orders, OCO and bracket records, trailing stops | create, report a fill, cancel, update a stop | hears of executions only by reports | late, partial, repeated and misordered reports, in any status | group records match legs; a complete bracket keeps one exit; stops only tighten |
| Risk circuit breaker, `risk/circuit_breakers.py` | state, limits, peak and drawdown, loss streak, order window, sleeping tasks, a Redis record | pre-trade check, trade result, limit check, kill switch, recovery, override, restart | broker, Redis, alerts | seconds of awaits inside a halt; timers that do not look at the state | one actor per halt; positions closed or alarm raised; halts end |
| Service breaker and bulkhead, `resilience/circuit_breaker.py` | state, three counters, time of the last failure; two semaphores | call, book success or failure; execute | any service | results booked in another state than the one that admitted the call; cancellation | bounded test calls; recovery tried; nobody starves |
| Wallets and AML gate, `payments/wallet.py`, `compliance/aml.py` | balances and status in memory; rows of `wallet_transactions` | create/restore, credit, debit, transfer, freeze | database, gate | refused or failed rows, restart, one id per second | money conserved; limits hold; restart restores |
| Brain, `brain/brain.py` | where the loop waits, batch of signals, flags (running, stop, paused), reported state, own breaker, positions it knows | control cycle, reduce exposure, emergency stop (by the loop and beside it), pause, resume, shutdown, cancellation | any broker, signals, the API | in-flight orders against a stop; calls given up that succeed later; a resume after a stop | a stop leaves at most the batch under way, ends the loop, and nothing starts after it |
| Queued order manager, `src/execution/oms.py` (second generation) | queue of orders, status, recorded fills, workers | start, stop, submit, the worker's loop, cancel | paper broker, bounded event queues | answers after a cancellation; a second worker after a quick restart; queues nobody empties | no order lost or worked on twice; fills match executions; orders are decided |
| OANDA connector, `brokers/__init__.py` | session, semaphore permits, cached list of positions | connect, order, close one, close all, list, disconnect | the venue | retried requests that were executed; late answers; a cut-off caller; a stale list | executions bounded and reported truly; old positions not forgotten; calls end |
| Redis stream bus, `src/infrastructure/messaging.py` | tasks of the subscriptions; on the server streams, cursor, pending list, dead letters | publish, subscribe, consume, acknowledge, bury, claim, disconnect | Redis, handlers | refused requests and lost answers, crashes, trimming, two claimers | no message lost unnoticed; handled once; one claimer wins |
| Risk manager, paper broker | counters of the day, halt and its expiry; positions | update, check; place, close | brain | wiring (section 8) | - |
| Event store, `events/event_store.py` | buffer, last 10 000 events, subscribers | append, notify, flush, replay | every producer | a task per notification; re-buffered flush | no event lost or reordered; replay is complete |
| Transactions, `payments/transaction_manager.py` | payments and their status | record, complete, fail, cancel, reverse | wallet, gateways | unguarded status updates | one reversal per payment |
| Second-generation breaker and kill switch, `src/infrastructure/circuit_breaker.py`, `src/risk/kill_switch.py` | computed breaker state; votes | call; trigger | replicas | a state that is computed and never stored | probing can go on |
| Throttler, `execution/throttler.py` | two windows, cooldown | check, record | senders on several threads | check and record are two locked sections | rate limits hold |
| Signal engine, reconciler, position tracker, copy trading, connectors, feeds, API, analysis | various | various | various | see section 8 | - |

Interaction: the order managers call each other synchronously (callbacks run
inside `fill_order`), so a fill and all it sets off are one step. The risk
breaker and the brain share an event loop with everything else: each `await` is a
point where others run, and a re-entrant lock held by the same thread excludes
nobody there. The brain calls its broker under `wait_for`, so what the connector
does may end after the brain has given it up; the two models meet in that
interface (`Brain`: an order the loop gave up on executes later; `OandaBroker`:
`CutOff` leaves requests on their way). Processes on the Redis bus share nothing
but the server. Wallet and AML gate share no memory but one table.

`PROJECT.json` lists the hazards of the modelled code with their lines and the
properties that watch them; section 8 names those of the code left out.

## 2. Modules and the code they model

| Module | Models | Correspondence |
|---|---|---|
| `OrderPromise` | what an order book promises, with no statuses or callbacks | abstract: an order is placed, executes up to its size, and is done for good |
| `OrderLifecycle` | `OrderLifecycleManager` | one action per method; `_async_submit` is an action of its own because it sleeps. `cost` is quantity times average price; `audited` is what `order_history` accounts for |
| `ComplexOrders` | `ComplexOrderManager`; EXTENDS `OrderLifecycle` | `ComplexFill` is `fill_order` with the callbacks of the status it reaches; all other order actions are reused |
| `AdvancedOrders` | `AdvancedOrderManager` | every method holds its lock to the end, so one action each; `HandleOrderFill` has a disjunct per kind of order |
| `RiskBreaker` | `risk/circuit_breakers.py` `CircuitBreaker` | methods are cut at their awaits: `Trigger`, `KillClose`, `KillVerify` are the parts of one kill switch, `Recover` and `CheckRecovery` the wake-ups of the two timers. A tick is five minutes, the grain of both timers |
| `ServiceBreaker` | `resilience/circuit_breaker.py` `CircuitBreaker` | a call is two actions: admitted (`Pass`, `StartTest`, `Probe`) and booked (`OnSuccess`, `OnFailure`, or `Cancelled`, which books nothing) |
| `Bulkhead` | `Bulkhead.execute` | a place and a slot at once, or a place and a wait in a FIFO line |
| `Wallet` | `WalletManager` with `AMLGate._check_db_rules` over one table | each operation with the row it writes; a row is refused when its second is taken or the database fails |
| `Brain` | `brain/brain.py` `HOPEFXBrain.dominate` and its breaker | an action ends at an await where others can run; every `emergency_stop()` is a process beside the loop. The broker may execute, refuse or stay silent, act later on what was given up, and answer the closing of all positions with any of them left (`CloseAnswers`). The flag read at l.640 and the lock asked for at l.644 are one step (`NoEmergency`) |
| `QueuedOms` | `src/src/execution/oms.py`, `PaperBroker.place_order`, `src/src/core/bus.py` `BoundedEventQueue` | the worker is cut at its awaits (`Take`, `Announced`, `Placed` or `PlaceRaises`, `Reported`); each `start()` creates another worker; event queues are counted |
| `OandaBroker` | `brokers/__init__.py` `OANDABroker`, `BaseBroker.close_all_positions` | a request is sent (`Acquire`, `Resume`), executed or answered without a fill at any time (`VenueAnswers`, `StrayExecutes`), and received, retried or abandoned; `CutOff` is the emergency stop's `wait_for` |
| `StreamBus` | `src/src/infrastructure/messaging.py` `RedisStreamBus` | a consumer is cut at each request; a request is done, refused, or done with its answer lost. `fits` says whether the client library takes the names the read passes, `OtherDies` is a dead message of another topic in the common dead letter queue |
| `MC...` | - | small instances: requests, legs, trailing stop arguments, symmetry sets |
| `...Proofs` | - | theorems of section 6 |

`ComplexOrders` composes with `OrderLifecycle` by extension, and both are shown
to implement `OrderPromise` by the same refinement mapping (`KeepsPromise`):
`phase` is read off the status, `size` is the requested quantity and `executed`
is `filled_quantity`. `QueuedOms` implements it too: an order is placed when
it is submitted, open while PENDING, of size 1, and `executed` counts what the
broker executed, not what the order manager recorded (`KeepsPromise` of that module).

Data is abstracted to what the properties tell apart: prices and amounts are
small numbers, names and reasons are dropped, STOP orders stand with MARKET
orders because `can_fill` checks neither. Operators whose
comment begins with "Fault:" are deliberate errors, put in the place of the
definition that follows them to show that a property can fail; no specification
uses them.

History variables, which no action reads: `late` (ComplexOrders: orders not yet
at the broker when a sibling filled), `strays` (RiskBreaker: positions the kill
switch of this halt is not responsible for), `lost` and `probes`
(ServiceBreaker), `withdrawn` (Bulkhead), `paid`, `net`, `slipped`, `mixed` (Wallet),
`answered` and `missed` (Brain: stops whose closing was answered, and the positions such
an answer silently left), `reopened` (AdvancedOrders: brackets whose entry was reported
after the last report of an exit), `late` (QueuedOms: orders taken to
the broker since a stop), `owed` and `left` (OandaBroker: what a running or ended
close of all positions has still open), `given`, `buried`, `tries`, `claims` (StreamBus).
Two of them appear in guards only to bound the model: `paid` (MaxPaid) and the
Bulkhead's `withdrawn` (MaxLost).

## 3. What the runs check

| Run | Question | Properties |
|---|---|---|
| `orders` | do status, fills, price and book agree under every interleaving, and does every submission resolve? | `StatusMatchesFills`, `AverageWithinLimit`, `BookShowsWorkingOrders`, `SubmissionResolves` |
| `complex_orders` | do callbacks keep OCO pairs, brackets and icebergs consistent, all three on one order manager, and does the whole keep the order book's promise? | `SiblingAtTheBrokerIsStopped`, `ExitsMatchTheirEntry`, `KeepsPromise` |
| `advanced_orders` | do group records follow executions under any order and number of reports and cancellations? | `OcoRecordMatchesLegs`, `OneExitIsLeft`, `TrailingStopNeverLoosens` |
| `risk_halt` | is a halt worked on by one actor, with raising broker, overrides and a restart? | `OneRecoveryPerHalt`, `OwnCheckOnly` |
| `risk_live` | are positions closed or reported, and do halts and test periods end? | `HaltFlattensOrAlerts`, `HaltEnds`, `TestEnds` |
| `service` | are test calls bounded, can testing go on, is recovery tried and decided? | `ProbesBounded`, `TestCanGoOn`, `RecoveryIsTried`, `TestIsDecided` |
| `bulkhead` | do the counts add up, does everybody get a slot? | `CountsAddUp`, `EveryPlaceGetsASlot` |
| `wallet` | is money conserved, does the table tell the balance, do the daily limits hold? | `MoneyIsConserved`, `NewestRowIsTheBalance`, `DailyLimitsHold` |
| `brain` | what can an emergency stop leave, can trading go on after a stop or under a pause, does a stop end the loop, is the breaker tried again? | `StopLeavesAtMostABatch`, `TradingEndsWithItsBatch`, `StopEndsTheLoop`, `BreakerIsTriedAgain` |
| `queued_oms` | is every order in one place and every fill recorded, how near is a stop, does a blocked event queue block the orders? | `NoOrderLost`, `FillsAreRecorded`, `StopLeavesOneEach`, `SubmittedIsDecided` |
| `oanda` | how often can one order execute, what does closing everything forget, does every call end? | `ExecutionsBounded`, `OldPositionsAreAnswered`, `CallsEnd` |
| `stream_bus` | where can a message be, how often is it handled, who gets a claim? | `NoMessageLost`, `HandledAtMostOnce`, `ClaimedByOne` |

Each property has a mutant in `PROJECT.json`: a one-definition error under which
the run finds the property violated. Type invariants and a few auxiliary
invariants (`PendingNewIffSubmitting`, `LimitNeverInflated`, `CountersFitState`,
`BreakerFitsCount`, `StopMatchesExtreme`) are proved (section 6) and not run, and so are
`PermitsAddUp` of `OandaBroker` (every permit of the semaphore is free or held by one
caller) and `KeepsPromise` of `QueuedOms`. TLC finds no violation of these two either when
they are added to `oanda.cfg` and `queued_oms.cfg`.

What the properties leave out is said in them: `SiblingAtTheBrokerIsStopped`
excuses legs that were not at the broker when the first leg filled (`late`),
`HaltFlattensOrAlerts` excuses positions that appeared after the last look
(`strays`), `TestCanGoOn` and `TestIsDecided` excuse a test that lost a cancelled
call, `NewestRowIsTheBalance` and `DailyLimitsHold` speak of runs in which every
access to the table succeeded. `StopLeavesAtMostABatch` speaks of positions the
brain has on record and excepts those an answered `close_all_positions` silently left
(`missed`): `BaseBroker` answers normally with failed positions or from a stale list, and
`brain.py:690` looks at no answer. `OneExitIsLeft` excepts a bracket whose entry was
reported after an exit (`reopened`), `FillsAreRecorded` excepts orders cancelled after they were
executed, `OldPositionsAreAnswered` positions younger than the cache and a request and those whose
closing request the venue answered without a fill,
`NoMessageLost` messages cut off a stream or the dead letter queue and those that share an
id with another. `ExitsMatchTheirEntry` bounds each exit, not the two exits of a pair
together, which can close more than was opened. In each case the code really misbehaves outside
the stated condition, so the condition marks the edge of what it guarantees.

Deadlock is not checked: all these components stop when nothing more is asked of
them (every order final, no recovery pending, loop ended, all bounds used up).

## 4. Bounds

| Run | Instance | Why it is enough |
|---|---|---|
| `orders` | 2 orders; a buy limit of 3 with expiry, a sell limit of 2, a market order of 1; reports of 1 or 2 at prices 1..3 | two partial fills followed by a rest, both sides of the limit, overfill attempts, an overdue order next to a live one. Orders do not influence each other except through the sweep |
| `complex_orders` | one OCO pair (its legs are symmetric), one bracket, one iceberg, all of quantity 3, display size 2, at most 2 slices | every callback fires, a fill of either leg precedes, follows or overlaps the submission of the other; a slice can be filled in part and has a rest behind it |
| `advanced_orders` | one of each kind, quantity 2, reports of a linked order up to 3 in all (a plain one 2, a trailing stop 1), prices 2..4, three trailing stops with activation prices (amount, percentage on the short side, neither) | partial, late, repeated and excessive reports for each order, an exit reported before its entry; all three stop computations |
| `risk_halt` | 1 position, balances 97, 98, 100 with a limit of 3 percent, 1 loss, 2 orders, cooldown 3, test period 1, 1 restart | 97 breaches the limit, 98 is over half of it (test fails), 100 passes it. Three attempts of the kill switch are the code's own number |
| `risk_live` | 2 positions, the same limits, no raises, overrides and restarts | closes accepted and refused within one attempt |
| `service` | 4 callers, thresholds 3 and 2, 2 test calls, timeout 2 | one stale call of an earlier period beside a full test |
| `bulkhead` | 4 tasks, 2 slots, 3 places, 2 cancellations | a full bulkhead with somebody outside, and a cancelled first in line |
| `wallet` | amounts 1..3, KYC cap 2, 2 withdrawals and volume 3 a day, balance up to 4, 1 restart | both limits are reached by different sequences; an amount above the cap is always refused |
| `brain` | 2 orders, 1 call of `emergency_stop`, batches of 1 signal (the code: 5), threshold 2, 10 failures, 2 attempts to close (the code: 3) | a stop beside an order in flight and one by the loop in the same behaviour; a second batch after a stop would be seen; the breaker opens and is tried; the first attempt fails and the second does or does not |
| `queued_oms` | 3 orders, 2 workers, event queues of 1 | one order with each worker and one in the queue; the queues are full after one event |
| `oanda` | 2 callers, 1 order, 1 position, 1 permit, 2 attempts, cache and request time 1 | a caller that waits for the permit of another; a request executed late beside its retry; a list answered after the order or close that outdates it. Positions do not influence each other |
| `stream_bus` | 2 messages on any streams with equal or distinct ids, 2 consumers, 2 claimers, batches of 2, streams of 1, dead letter queue of 1, either client library; messages, consumers and claimers are symmetric | a twin id in two streams, a batch left half done, a message trimmed by the next, both claimers with one listing, a dead message cut off by the next of this topic or of another. The code lists at most 100 messages per claim, which 2 do not reach |

Bounds that are not in the code: `MaxSlices`, `MaxHalvings`, `MaxBoots`,
`MaxLost`, `MaxBalance`, `MaxPaid`, the Brain's `MaxOrders` and `Calls`, `Workers`
of QueuedOms, `Orders` of OandaBroker,
`Messages` and `Consumers` of StreamBus, `MaxReported` of AdvancedOrders. `MaxLosses`, `MaxOrders` and
`FailureThreshold` are parameters of the code; beyond them a counter makes no
difference and is kept at the limit.

## 5. Fairness

* `orders`: weak fairness of each submission task. asyncio runs the tasks it was
  given. Users, fills and the caller of `expire_orders` owe nothing.
* `risk_live`: weak fairness of the kill switch's and the timers' wake-ups, again
  asyncio's scheduling. Market, broker results and pre-trade checks owe nothing.
  Liveness is checked without overrides and raising broker calls because the code
  loses the recovery then (section 7).
* `service`: time passes, a call that was admitted is answered
  (`TimeoutManager.with_timeout` ends it otherwise), and callers keep calling:
  weak fairness each. Nobody is obliged to cancel.
* `bulkhead`: an executing call ends, a granted slot is taken up.
* `brain`: weak fairness of the loop and of each stop, because every wait in them
  is bounded by `wait_for` or a sleep; time passes. A stop needs the state lock
  that the loop takes again in each cycle: asyncio's lock serves in order of
  arrival, so getting it is strongly fair. Signals, broker and callers owe nothing.
* `queued_oms`: weak fairness of each worker; subscribers never need to return.
* `oanda`: weak fairness of each request (the session's total timeout ends it) and
  strong fairness of getting a permit, since asyncio's semaphore serves waiters in
  order. The venue never needs to answer.

The remaining runs check safety only and assume no fairness.

## 6. What is proved

All theorems hold for every value of the constants that satisfies the ASSUMEs of
the module, which TLC evaluates in the runs.

| Module | Theorems | Assumed | Argument |
|---|---|---|---|
| `OrderProofs`, on `OrderLifecycle` | `TypeCorrect`, `StatusesMatchFills`, `BookIsConsistent`, `SubmissionsAreCurrent`, `AverageStaysWithinLimit`, `ImplementsPromise` | requests are requests, report sizes positive, prices natural numbers | `IInv` is `TypeOK` with the three state invariants together: the book needs to know that a PENDING_NEW order has its task, a fill needs to know that a working order is not complete. The average is inductive on top of it: a report within the limit keeps `cost` on the right side. The refinement maps each action to a placement, execution, closing or rest of each order |
| `OrderProofs`, on `ComplexOrders` | `SiblingsAreNotBothFilled`, `ExitsFollowTheirEntry`, `IcebergsStopAtOneSlice`, `FinalOrdersRest`, `CallbacksKeepTheBook`, `ComplexAverageStaysWithinLimit`, `ComplexOrdersKeepPromise` | the same, and that every order and group has a uuid of its own, display size and number of slices positive | A fill changes several orders at once, so preservation is not by action alone: `StepOnOne` shows that in every step each single order stays as it is, moves between statuses, appears, or is filled, and says which (`Stays`, `Moves`...). What holds of one order then holds of all. `ComplexInv` adds what ties orders together: a group of OCO legs has its callback (`HookIsSet`), a sibling of a filled leg is late or final (`SiblingsAreStopped`), exits carry the quantity of their entry (`ExitsMatchTheirEntry`), an entry is registered with its bracket (`EntriesHaveBrackets`), so the fill that completes it places its pair (`OwnExitsAppear`), an iceberg has one slice (`IcebergHasOneSlice`) |
| `RiskBreakerProofs` | `InvariantHolds` and its consequences, `HaltsFlattenOrAlert` | the test period is shorter than the cooldown; for the last theorem also that broker calls do not raise | `IInv` adds to the properties that a closed breaker has no pending check and that pending checks wake before the recovery (`ChecksInTheirPlace`): that is why an old check never meets a new test period, and it is where the relation of five to fifteen minutes is used |
| `ResilienceProofs`, on `ServiceBreaker` | `CountersAlwaysFit`, `ProbesAreBounded`, `TestsCanGoOn` | thresholds positive, success threshold at most the number of test calls, finitely many callers | test calls hold slots (`ProbesHoldSlots`), and every slot is a running call, a success or a lost call (`SlotsAccountedFor`): with none running and none lost, the successes are below their threshold, so a slot is left |
| `ResilienceProofs`, on `Bulkhead` | `BulkheadCountsAddUp` | slots and places positive | `BulkheadInv`: a call is in one place only, executing, granted or in the line once (`OneCallOnePlace`), so what one action takes from a set it adds to exactly one counter |
| `BrainProofs` | `TypeCorrect`, `BreakerIsConsistent`, `TradingIsBounded`, `StopLeavesLittle` | batch, threshold and attempts positive | `IInv` says where the loop stands: a cycle begins with the breaker closed, the loop waits for its own stop, whoever closes has raised the flag, and at most one order is awaited. On top of it `BatchBoundsTheRest` counts recorded positions (but those `missed`), the awaited order and what the batch may still place after a closing was answered, and `OwnStopIsLast` says that a loop that stopped by itself trades no more |
| `QueuedOmsProofs` | `TypeCorrect`, `NothingIsLost`, `FillsMatch`, `StopIsNear`, `BrokerKeepsPromise` | none but that no order is the empty name | `IInv` joins the three properties with what an order's status says of its executions (`OrderFacts`), what a worker's place says of its order (`WorkerFacts`), and that a worker which took its late order while stopped is past the broker call (`LateFacts`). For the refinement, `StepOnOneOrder` reads off every action what it does to the broker's record of one order |
| `BrokerProofs`, on `OandaBroker` | `TypeCorrect`, `OrdersAreBounded`, `OldPositionsAnswered`, `PermitsAreKept` | permits, retries and times positive | `OrdersInv`: executions and requests on their way stay within what the call has spent of its attempts. `PositionsInv`: a list, fresh or cached, differs from the venue only by changes younger than it and a request (`ListInv`, `CacheInv`), so an old position is in the list a close works from and stays ahead of it until it is closed or its closing request answered (`OwedInv`). The permits add up because only finitely many callers ever hold one (`PermitsKept`): each took it from the free ones |
| `BrokerProofs`, on `AdvancedOrders` | `AdvancedTypeCorrect`, `OcoRecordsMatch`, `OneExitRemains`, `StopsMatchExtremes`, `TrailingStopsNeverLoosen` | quantity and prices positive, percentages up to 100, ids distinct | each group record is inductive together with the types once ids are distinct: no report for one order can touch the record of another. A trailing stop is a function of the best price seen (`StopMatchesExtreme`), and that price only improves, so the stop never loosens; the percentage needs that scaling by a number up to 100 is monotone |
| `StreamBusProofs` | `TypeCorrect`, `NothingIsLost`, `HandledOnce`, `OneClaimWins` | ids positive, batch and both lengths at least 1 | `IInv` adds that the entries up to the cursor are the given messages (`LogFacts`), what has become of those (`GivenFacts`), that the consumers' batches are disjoint and their rest untried (`WorkFacts`), and that a claimed message is no longer idle (`ClaimFacts`) |
| `WalletProofs` | `MoneyConserved`, `RowsTellTheBalance`, `LimitsHoldDaily` | amounts positive, limits natural numbers | an unloaded wallet is empty, the gate sees every withdrawal while nothing slipped, the commission wallet is empty while no transaction concerned it |

Wherever a run checks a property that is also proved, the theorem states that
very definition, so a reader can see on a small instance what it says for all.
Every safety invariant and every action property that a run checks is proved.

Only model-checked: the liveness properties (`SubmissionResolves`, `HaltEnds`,
`TestEnds`, `RecoveryIsTried`, `TestIsDecided`, `EveryPlaceGetsASlot`,
`StopEndsTheLoop`, `BreakerIsTriedAgain`, `SubmittedIsDecided`, `CallsEnd`).
Liveness under fairness and ENABLED are outside what the proof
system handles, as is induction over data structures (so nothing is claimed of
recursive definitions; none of the modules has one).

## 7. Where code and documentation disagree

The following come with a definition that states what the text says and that the code
violates; to see the trace, add it to the named cfg as an INVARIANT, or where that is
said as a PROPERTY:

* `execution/oms.py:92` "audit logging": the second partial fill of an order is
  booked (l.161), its transition refused (l.205), no history entry is written and
  `fill_order` returns False (`HistoryAccountsForFills`, `orders.cfg`).
* `execution/oms.py:362` "When slice fills, next slice is revealed.": the callback
  listens to a status a complete slice never has (`IcebergRevealsNextSlice`,
  `complex_orders.cfg`). `IcebergsStopAtOneSlice` proves it for every display size and
  quantity: no iceberg ever has a second slice.
* `risk/circuit_breakers.py:380` "Persist state to Redis for recovery": the state
  is written and never loaded (`RestartKeepsHalt`, `risk_halt.cfg`, as a PROPERTY). `Restart` stands for both ends
  of a process: `shutdown` persists once more before it, a crash does not.
* `compliance/aml.py:7` "max N withdrawals per 24 h": rows are refused when a
  second's transaction id is taken, and then not counted (`VelocityLimit`,
  `wallet.cfg` with `DbFails = FALSE` and `MaxBoots = 0`, so that no outage is needed).
* `brokers/__init__.py:177` "Close all positions with error tracking": the list of
  positions comes from a cache of five seconds (l.1021); a position opened since
  stays open and no error is tracked (`NoPositionIsLeft`, `oanda.cfg`).
* `brokers/__init__.py:1077` "Position closed": `close_position` returns True on any 200
  or 201 (l.1073) and, unlike `place_market_order` (l.999), looks for no fill; an old
  position whose closing request was answered without one stays open and no failure is
  reported (`AnsweredMeansClosed`, `oanda.cfg`).
* `brain/brain.py:679` "Emergency shutdown procedure - GUARANTEED EXECUTION": the stop
  takes any answer of `close_all_positions` for success (l.690), although it answers
  normally with failed positions (`brokers/__init__.py:176`) (`StopClosesAll`, `brain.cfg`).
* `brokers/advanced_orders.py:820` "If SL or TP filled, cancel the other": a report of
  the entry that comes after an exit's, the next part of a partial fill or one out of
  order, opens both exits again, the executed one too (l.816)
  (`FilledExitCancelsTheOther`, `advanced_orders.cfg`).
* `execution/oms.py:309` "When entry fills, TP and SL are placed as OCO": a filled entry
  triggers the exits of every registered bracket (l.322) (`ExitsOfOwnBracketOnly`,
  `complex_orders.cfg` with `Entries = {e1, e2}`).
* `src/src/infrastructure/messaging.py:295` "Send to dead letter queue after retries":
  there is no retry; a message goes there after one call of its handler, or none when it
  cannot be parsed (l.274) (`DeadAfterRetries`, `stream_bus.cfg`).
* `src/src/infrastructure/messaging.py:3` "Provides at-least-once delivery":
  `xreadgroup` is called with keyword names that the pinned aioredis 2.0.1 does not have
  (l.262, `requirements-optional.txt:69`), so every read raises and no message is given to
  anybody (`MessagesAreRead`, `stream_bus.cfg` with `SPECIFICATION FairSpec`, without
  SYMMETRY, as a PROPERTY).

Met while modelling and contained in the models:

* OCO siblings that are CREATED when the first leg fills survive
  (`oms.py:301`, against l.279); both legs of an advanced OCO can execute through
  a late report (`advanced_orders.py:791`, against l.377).
* The expiry sweep takes a partially filled order out of the book and leaves it
  fillable (`oms.py:196`); `PENDING_CANCEL` never becomes `CANCELLED`.
* `handle_order_fill` books a report twice, beyond the order's quantity, and for a
  bracket's exit before its entry (`advanced_orders.py:771`).
* If the balance cannot be read after the breaker opened, neither kill switch nor
  recovery follows (`circuit_breakers.py:194`, against l.62); an override in force
  at the wake-up drops the recovery for good (l.272); a test period broken off by
  a new halt leaves the position limit halved (l.280, against l.296); a failed
  test halts without the kill switch (l.301).
* A cancelled test call keeps its slot (`resilience/circuit_breaker.py:69`), the
  successes of an aborted test are kept (l.95), a call cancelled in the bulkhead
  leaves `queue_count` too high (l.140), and "queue full" counts executing calls
  too (l.137).
* A restart restores the subscription wallet from a commission row
  (`wallet.py:154`) and forgets a freeze (l.424).
* The brain's emergency stop closes positions beside an order in flight, gives a
  broker call up after ten seconds although it may still take effect
  (`brain.py:690`, `brain.py:820`); `resume()` after a stop shows RUNNING (l.913)
  while the stop flag stays set. `wait_for` around the synchronous
  `filter_signals` of `main.py`'s risk manager raises (l.773), so that brain never
  trades: the model covers a brain without risk manager or with an asynchronous one.
* Queued order manager: cancelling a FILLED paper order succeeds and shows it
  CANCELLED while the position stays; a cancellation between the broker's answer
  and the check of the status loses the record of the fill
  (`src/src/execution/oms.py:124`); stop and start within a second leave two
  workers (l.41).
* OANDA connector: a market order is posted again after a timeout
  (`brokers/__init__.py:945`) and may execute once per attempt.
* Redis stream bus: with a library that takes the names of the read's arguments,
  consumers read only new messages (`src/src/infrastructure/messaging.py:262`), so one
  left by a crash, a lost answer or a failed burial is never read again; it can be
  claimed, on the normal stream only, and nothing calls `claim_pending_messages`.
  Acknowledgements always go to the normal stream (l.289). A message whose handler
  returned but whose acknowledgement failed is also buried (l.296). The dead letter
  queue, common to all topics, drops its oldest messages (l.359).

## 8. What is not modelled

* Risk manager (`risk/manager.py`): synchronous day counters. Its daily loss limit
  compares the absolute value of the day's result (l.149), so a profit halts too.
  Paper broker (`brokers/paper_trading.py`): its synchronous methods are awaited by
  the brain and raise. In today's wiring the composition with the brain is empty.
* Event store: appends in memory; the database insert is not implemented
  (`events/event_store.py`). Hazards left: one task per notification may reorder
  events of an aggregate (l.152); replay reads at most 100 of them (l.225).
* Transaction manager: status updates without any guard
  (`payments/transaction_manager.py:175`), so a reversed payment can be reversed again.
* Second-generation breaker: HALF_OPEN is computed, never stored, so after three
  test calls every call is refused (`src/src/infrastructure/circuit_breaker.py:135`).
  Consensus kill switch: its list of replicas is always empty, consensus never
  succeeds. Event bus of `src/src/hopefx/events/bus.py`: `start()` raises NameError
  (l.44). These files describe protocols that do not run.
* Throttler: no callers; its check and record are two locked sections
  (`execution/throttler.py:63`).
* Signal engine, reconciler: read the broker's objects as dictionaries and fail.
* In modelled components: how a scaled order splits its quantity over levels and
  how a conditional order's conditions are evaluated; exposure and correlation
  checks of the pre-trade check; statistics (those of the advanced orders among them) and log records; more than one user's
  wallets beyond the transaction ids they share.
* In `Brain`: strategies, learning, periodic reports, and `emergency_stop()` called
  outside a running event loop (`brain.py:929`), which `api/trading.py` does not do. In `StreamBus`: the pub/sub
  copy of each message and `get_message_bus`. In `OandaBroker`: account, pending
  orders and cancel, which leave nothing behind.
* Other broker connectors, price feeds, databases, Redis and the venue are external:
  what they answer is nondeterminism in the modules that call them.
* Backtesting, machine learning, analysis, dashboard, authentication,
  notifications, API routes and deployment carry no protocol state worth a model.

## 9. What would come next

In this order, if the suite is extended:

1. `Brain` over `OandaBroker` instead of over an abstract broker: the interface is
   the same (`CutOff` against `OrderTimesOut` and `CloseFails`), so the
   composition asks that the connector implements the broker the brain assumes.
2. Abstract specifications like `OrderPromise` for the halt (`RiskBreaker`) and for
   message delivery (`StreamBus`), with the refinement proved from the invariants
   of section 6.
3. The components of section 8 that do not run today, once they do.
