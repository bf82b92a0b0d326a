-------------------------- MODULE ResilienceProofs --------------------------
(***************************************************************************)
(* Theorems about the two components of resilience/circuit_breaker.py:     *)
(* ServiceBreaker, for every finite set of callers and every configuration *)
(* whose success threshold the test calls can reach, and Bulkhead, for     *)
(* every set of tasks and every positive number of slots and places.       *)
(***************************************************************************)
EXTENDS ServiceBreaker, Bulkhead, FiniteSetTheorems, SequenceTheorems, TLAPS

(* Every running test call holds one of the slots given out. *)
ProbesHoldSlots == state = "half_open" => Cardinality(probes) <= slots

(* Every slot given out is a running test call, was turned into a success   *)
(* or went with a cancelled call.                                           *)
SlotsAccountedFor ==
  state = "half_open" => slots <= successes + Cardinality(probes) + lost

IInv == TypeOK /\ CountersFitState /\ ProbesHoldSlots /\ SlotsAccountedFor

-----------------------------------------------------------------------------
(* How many test calls are left when a call returns, and how many there are *)
(* when one more is admitted.                                               *)
LEMMA ProbesChange ==
  ASSUME TypeOK, NEW c \in Calls
  PROVE  /\ Cardinality(probes) \in Nat /\ Cardinality(probes \ {c}) \in Nat
         /\ Cardinality(probes \ {c}) <= Cardinality(probes)
         /\ Cardinality(probes) <= Cardinality(probes \ {c}) + 1
         /\ c \notin running => Cardinality(probes \union {c}) = Cardinality(probes) + 1
         /\ Cardinality({c}) = 1
<1>1. IsFiniteSet(probes)
  BY ConfigAssumption, FS_Subset DEF TypeOK
<1>2. Cardinality(probes) \in Nat /\ Cardinality({c}) = 1
  BY <1>1, FS_CardinalityType, FS_Singleton
<1>3. IsFiniteSet(probes \ {c})
  BY <1>1, FS_RemoveElement
<1>4. Cardinality(probes \ {c}) \in Nat
  BY <1>3, FS_CardinalityType
<1>5. /\ Cardinality(probes \ {c}) <= Cardinality(probes)
      /\ Cardinality(probes) <= Cardinality(probes \ {c}) + 1
  <2>1. Cardinality(probes \ {c}) =
          IF c \in probes THEN Cardinality(probes) - 1 ELSE Cardinality(probes)
    BY <1>1, FS_RemoveElement, Zenon
  <2>2. QED
    BY <1>2, <2>1
<1>6. c \notin running => Cardinality(probes \union {c}) = Cardinality(probes) + 1
  BY <1>1, FS_AddElement DEF TypeOK
<1>7. QED
  BY <1>2, <1>4, <1>5, <1>6

(* The counters stay in step with the calls that are under way. *)
THEOREM InvariantHolds == Spec => []IInv
<1>1. Init => IInv
  BY ConfigAssumption, FS_EmptySet
     DEF Init, IInv, TypeOK, CountersFitState, ProbesHoldSlots, SlotsAccountedFor, Never
<1>2. IInv /\ [Next]_vars => IInv'
  <2> SUFFICES ASSUME IInv, [Next]_vars PROVE IInv'
    OBVIOUS
  <2> USE ConfigAssumption
      DEF IInv, TypeOK, CountersFitState, ProbesHoldSlots, SlotsAccountedFor, Never
  <2>1. CASE Tick
    BY <2>1 DEF Tick
  <2>2. ASSUME NEW c \in Calls, Pass(c) PROVE IInv'
    BY <2>2 DEF Pass
  <2>3. ASSUME NEW c \in Calls, StartTest(c) PROVE IInv'
    <3>1. Cardinality({c}) = 1
      BY ProbesChange, Zenon
    <3>2. QED
      BY <2>3, <3>1 DEF StartTest
  <2>4. ASSUME NEW c \in Calls, Probe(c) PROVE IInv'
    <3>1. /\ Cardinality(probes) \in Nat
          /\ c \notin running => Cardinality(probes \union {c}) = Cardinality(probes) + 1
      BY ProbesChange, Zenon
    <3>2. QED
      BY <2>4, <3>1 DEF Probe
  <2>5. ASSUME NEW c \in Calls, OnSuccess(c) PROVE IInv'
    <3>1. running' \subseteq Calls /\ probes' \subseteq running'
      BY <2>5 DEF OnSuccess, Leaves
    <3>a. /\ Cardinality(probes) \in Nat /\ Cardinality(probes \ {c}) \in Nat
          /\ Cardinality(probes \ {c}) <= Cardinality(probes)
          /\ Cardinality(probes) <= Cardinality(probes \ {c}) + 1
      BY ProbesChange, Zenon
    <3>2. CASE state = "half_open"
      BY <2>5, <3>1, <3>2, <3>a DEF OnSuccess, Leaves, Closes
    <3>3. CASE state # "half_open"
      BY <2>5, <3>1, <3>3 DEF OnSuccess, Leaves
    <3>4. QED
      BY <3>2, <3>3
  <2>6. ASSUME NEW c \in Calls, OnFailure(c) PROVE IInv'
    BY <2>6 DEF OnFailure, Leaves, OneMoreFailure
  <2>7. ASSUME NEW c \in Calls, Cancelled(c) PROVE IInv'
    <3>1. /\ Cardinality(probes) \in Nat /\ Cardinality(probes \ {c}) \in Nat
          /\ Cardinality(probes \ {c}) <= Cardinality(probes)
          /\ Cardinality(probes) <= Cardinality(probes \ {c}) + 1
      BY ProbesChange, Zenon
    <3>2. CASE c \in probes
      BY <2>7, <3>1, <3>2 DEF Cancelled, Leaves
    <3>3. CASE c \notin probes
      <4>1. probes \ {c} = probes
        BY <3>3
      <4>2. QED
        BY <2>7, <3>1, <3>3, <4>1 DEF Cancelled, Leaves
    <3>4. QED
      BY <3>2, <3>3
  <2>8. CASE UNCHANGED vars
    BY <2>8 DEF vars
  <2>9. QED
    BY <2>1, <2>2, <2>3, <2>4, <2>5, <2>6, <2>7, <2>8 DEF Next, Admit, Answer
<1>3. QED
  BY <1>1, <1>2, PTL DEF Spec

(* The failure counter and the time of the last failure fit the state. *)
COROLLARY CountersAlwaysFit == Spec => []CountersFitState
  BY InvariantHolds, PTL DEF IInv

(* The service never sees more test calls than half_open_max_calls. *)
THEOREM ProbesAreBounded == Spec => []ProbesBounded
<1>1. IInv => ProbesBounded
  <2> SUFFICES ASSUME IInv, state = "half_open" PROVE Cardinality(probes) <= MaxProbes
    BY DEF ProbesBounded
  <2>1. Cardinality(probes) \in Nat
    BY ConfigAssumption, FS_Subset, FS_CardinalityType DEF IInv, TypeOK
  <2>2. QED
    BY <2>1, ConfigAssumption DEF IInv, TypeOK, ProbesHoldSlots
<1>2. QED
  BY <1>1, InvariantHolds, PTL

(* Unless a test call was cancelled, a HALF_OPEN breaker never runs out of  *)
(* slots while it waits for nobody.                                         *)
THEOREM TestsCanGoOn == Spec => []TestCanGoOn
<1>1. IInv => TestCanGoOn
  <2> SUFFICES ASSUME IInv, state = "half_open", probes = {}, lost = 0 PROVE slots < MaxProbes
    BY DEF TestCanGoOn
  <2>1. slots <= successes
    BY FS_EmptySet DEF IInv, TypeOK, SlotsAccountedFor
  <2>2. QED
    BY <2>1, ConfigAssumption DEF IInv, TypeOK
<1>2. QED
  BY <1>1, InvariantHolds, PTL

-----------------------------------------------------------------------------
(* Bulkhead *)

(* A call is in the line once, or executes, or is outside: with Tail and    *)
(* RemoveAt the line then loses exactly one call, and Resume adds a call to *)
(* executing that was not there.                                            *)
OneCallOnePlace ==
  /\ \A i, j \in 1..Len(line) : line[i] = line[j] => i = j
  /\ \A i \in 1..Len(line) : line[i] \notin executing

BulkheadTypeOK ==
  /\ line \in Seq(Tasks) /\ executing \subseteq Tasks /\ IsFiniteSet(executing)
  /\ active_count \in Int /\ queue_count \in Int /\ withdrawn \in Nat

BulkheadInv == BulkheadTypeOK /\ OneCallOnePlace /\ CountsAddUp

(* How many calls execute when one more resumes and when one leaves. *)
LEMMA ExecutingChanges ==
  ASSUME BulkheadTypeOK, NEW c
  PROVE  /\ Cardinality(executing) \in Nat
         /\ IsFiniteSet(executing \union {c}) /\ IsFiniteSet(executing \ {c})
         /\ c \notin executing => Cardinality(executing \union {c}) = Cardinality(executing) + 1
         /\ c \in executing => Cardinality(executing \ {c}) = Cardinality(executing) - 1
  BY FS_CardinalityType, FS_AddElement, FS_RemoveElement DEF BulkheadTypeOK

(* A call that is taken out of the line leaves the others in their order. *)
LEMMA LineWithout ==
  ASSUME NEW S, NEW s \in Seq(S), NEW i \in 1..Len(s)
  PROVE  /\ RemoveAt(s, i) \in Seq(S) /\ Len(RemoveAt(s, i)) = Len(s) - 1
         /\ \A k \in 1..(Len(s) - 1) : RemoveAt(s, i)[k] = IF k < i THEN s[k] ELSE s[k + 1]
<1> DEFINE front == SubSeq(s, 1, i - 1)
           back == SubSeq(s, i + 1, Len(s))
<1>1. /\ front \in Seq(S) /\ Len(front) = i - 1
      /\ \A k \in 1..(i - 1) : front[k] = s[k]
  OBVIOUS
<1>2. /\ back \in Seq(S) /\ Len(back) = Len(s) - i
      /\ \A k \in 1..(Len(s) - i) : back[k] = s[k + i]
  OBVIOUS
<1>3. RemoveAt(s, i) = front \o back
  BY DEF RemoveAt
<1> HIDE DEF front, back
<1>4. /\ front \o back \in Seq(S) /\ Len(front \o back) = Len(front) + Len(back)
      /\ \A k \in 1..(Len(front) + Len(back)) :
           (front \o back)[k] = IF k <= Len(front) THEN front[k] ELSE back[k - Len(front)]
  BY <1>1, <1>2, ConcatProperties
<1>5. ASSUME NEW k \in 1..(Len(s) - 1)
      PROVE  (front \o back)[k] = IF k < i THEN s[k] ELSE s[k + 1]
  <2> Len(s) \in Nat /\ k \in Int /\ i \in Int /\ 1 <= k /\ k <= Len(s) - 1 /\ 1 <= i /\ i <= Len(s)
    OBVIOUS
  <2>1. CASE k < i
    <3>1. k \in 1..(i - 1) /\ k \in 1..(Len(front) + Len(back)) /\ k <= Len(front)
      BY <1>1, <1>2, <2>1
    <3>2. front[k] = s[k]
      BY <1>1, <3>1
    <3>3. (front \o back)[k] = front[k]
      BY <1>4, <3>1
    <3>4. QED
      BY <2>1, <3>2, <3>3
  <2>2. CASE k >= i
    <3>1. k - (i - 1) \in 1..(Len(s) - i) /\ (k - (i - 1)) + i = k + 1
      BY <2>2
    <3>2. back[k - (i - 1)] = s[k + 1]
      BY <1>2, <3>1
    <3>3. k \in 1..(Len(front) + Len(back)) /\ ~(k <= Len(front)) /\ Len(front) = i - 1
      BY <1>1, <1>2, <2>2
    <3>4. (front \o back)[k] = back[k - Len(front)]
      BY <1>4, <3>3
    <3>5. QED
      BY <2>2, <3>2, <3>3, <3>4
  <2>3. k < i \/ k >= i
    OBVIOUS
  <2>4. QED
    BY ONLY <2>1, <2>2, <2>3
<1>6. QED
  BY <1>1, <1>2, <1>3, <1>4, <1>5

(* The counts of get_stats add up, whatever the calls do and whoever is     *)
(* cancelled while waiting.                                                 *)
THEOREM BulkheadCountsAddUp == BulkheadSpec => []CountsAddUp
<1>1. BulkheadInit => BulkheadInv
  BY SizesAssumption, FS_EmptySet
     DEF BulkheadInit, BulkheadInv, BulkheadTypeOK, OneCallOnePlace, CountsAddUp, Held
<1>2. BulkheadInv /\ [BulkheadNext]_bulkheadVars => BulkheadInv'
  <2> SUFFICES ASSUME BulkheadInv, [BulkheadNext]_bulkheadVars PROVE BulkheadInv'
    OBVIOUS
  <2> USE SizesAssumption DEF BulkheadInv, BulkheadTypeOK, OneCallOnePlace, CountsAddUp, Held
  <2>1. CASE Resume
    <3>1. /\ Head(line) = line[1] /\ Head(line) \in Tasks /\ Head(line) \notin executing
          /\ line' \in Seq(Tasks) /\ Len(line') = Len(line) - 1
          /\ \A k \in 1..Len(line') : line'[k] = line[k + 1]
      BY <2>1 DEF Resume
    <3>2. Cardinality(executing') = Cardinality(executing) + 1 /\ IsFiniteSet(executing')
      BY <2>1, <3>1, ExecutingChanges DEF Resume
    <3>3. Cardinality(executing) \in Nat
      BY ExecutingChanges
    <3>4. BulkheadTypeOK' /\ CountsAddUp'
      BY <2>1, <3>1, <3>2, <3>3 DEF Resume
    <3>5. OneCallOnePlace'
      BY <2>1, <3>1 DEF Resume
    <3>6. QED
      BY <3>4, <3>5
  <2>2. ASSUME NEW c \in Tasks, ExecuteAtOnce(c) PROVE BulkheadInv'
    <3>1. /\ c \notin executing /\ line = <<>> /\ Cardinality(executing) < MaxConcurrent
          /\ Len(line) + Cardinality(executing) < MaxQueue
      BY <2>2, ExecutingChanges DEF ExecuteAtOnce, Outside, Full
    <3>2. /\ Cardinality(executing') = Cardinality(executing) + 1 /\ IsFiniteSet(executing')
          /\ Cardinality(executing) \in Nat
      BY <2>2, <3>1, ExecutingChanges DEF ExecuteAtOnce
    <3>3. QED
      BY <2>2, <3>1, <3>2 DEF ExecuteAtOnce
  <2>3. ASSUME NEW c \in Tasks, Wait(c) PROVE BulkheadInv'
    <3>1. /\ c \notin executing /\ \A k \in 1..Len(line) : line[k] # c
          /\ Len(line) + Cardinality(executing) < MaxQueue
      BY <2>3, ExecutingChanges DEF Wait, Outside, Full, ToSet
    <3>2. /\ line' \in Seq(Tasks) /\ Len(line') = Len(line) + 1
          /\ \A k \in 1..Len(line') : line'[k] = IF k = Len(line) + 1 THEN c ELSE line[k]
      BY <2>3 DEF Wait
    <3>3. BulkheadTypeOK' /\ CountsAddUp'
      BY <2>3, <3>1, <3>2, ExecutingChanges DEF Wait
    <3>4. OneCallOnePlace'
      BY <2>3, <3>1, <3>2 DEF Wait
    <3>5. QED
      BY <3>3, <3>4
  <2>4. ASSUME NEW c \in Tasks, Finish(c) PROVE BulkheadInv'
    <3>1. c \in executing /\ Cardinality(executing') = Cardinality(executing) - 1
      BY <2>4, ExecutingChanges DEF Finish
    <3>2. Cardinality(executing) \in Nat /\ IsFiniteSet(executing')
      BY <2>4, ExecutingChanges DEF Finish
    <3>3. QED
      BY <2>4, <3>1, <3>2 DEF Finish
  <2>5. ASSUME NEW c \in Tasks, CancelWaiting(c) PROVE BulkheadInv'
    <3>1. PICK i \in 1..Len(line) : line' = RemoveAt(line, i)
      BY <2>5 DEF CancelWaiting
    <3>2. /\ line' \in Seq(Tasks) /\ Len(line') = Len(line) - 1
          /\ \A k \in 1..Len(line') : line'[k] = IF k < i THEN line[k] ELSE line[k + 1]
      BY <3>1, LineWithout
    <3>3. /\ UNCHANGED <<executing, active_count, queue_count>> /\ withdrawn' = withdrawn + 1
          /\ Cardinality(executing) \in Nat
      BY <2>5, ExecutingChanges DEF CancelWaiting
    <3>4. BulkheadTypeOK' /\ CountsAddUp'
      BY <3>2, <3>3
    <3> DEFINE before(k) == IF k < i THEN k ELSE k + 1
    <3>5. \A k \in 1..Len(line') : before(k) \in 1..Len(line) /\ line'[k] = line[before(k)]
      BY <3>2
    <3>6. OneCallOnePlace'
      <4>1. ASSUME NEW j \in 1..Len(line'), NEW k \in 1..Len(line'), line'[j] = line'[k]
            PROVE  j = k
        <5>1. before(j) = before(k)
          BY <3>5, <4>1
        <5>2. QED
          BY <5>1
      <4>2. ASSUME NEW k \in 1..Len(line') PROVE line'[k] \notin executing'
        BY <3>3, <3>5
      <4>3. QED
        BY <4>1, <4>2
    <3>7. QED
      BY <3>4, <3>6
  <2>6. CASE UNCHANGED bulkheadVars
    BY <2>6 DEF bulkheadVars
  <2>7. QED
    BY <2>1, <2>2, <2>3, <2>4, <2>5, <2>6 DEF BulkheadNext
<1>3. QED
  BY <1>1, <1>2, PTL DEF BulkheadSpec, BulkheadInv
=============================================================================
