---------------------------- MODULE WalletProofs ----------------------------
(***************************************************************************)
(* Theorems about Wallet for every set of amounts, all limits and any      *)
(* number of restarts.                                                     *)
(***************************************************************************)
EXTENDS Wallet, TLAPS

(* A wallet that is not loaded holds nothing, and has no rows before the   *)
(* first restart.                                                          *)
UnloadedIsEmpty == ~loaded => balance = Empty /\ (boots = 0 => latest = NoRow)

(* While nothing slipped, the gate sees every withdrawal of the day. *)
GateSeesAll == ~slipped => recorded = paid

(* While no transaction concerned it, the commission wallet is empty. *)
CommissionUntouched == ~mixed => balance["commission"] = 0

IInv ==
  /\ TypeOK /\ MoneyIsConserved /\ NewestRowIsTheBalance /\ DailyLimitsHold
  /\ UnloadedIsEmpty /\ GateSeesAll /\ CommissionUntouched

-----------------------------------------------------------------------------
(* The values a day and a process start with have their types. *)
LEMMA StartTypes ==
  /\ Empty \in [Types -> Nat]
  /\ Nothing \in [count : Nat, sum : Nat] /\ Nothing \in [count : 0..MaxPaid, sum : Nat]
<1>1. 0 \in 0..MaxPaid
  BY AmountsAssumption
<1>2. Nothing \in [count : Nat, sum : Nat] /\ Nothing \in [count : 0..MaxPaid, sum : Nat]
  BY <1>1 DEF Nothing
<1>3. Empty \in [Types -> Nat]
  BY DEF Empty
<1>4. QED
  BY <1>2, <1>3

(* Writing a row: if nothing has slipped afterwards, the row is there, it   *)
(* took the second's id, and the reads of the call succeeded.               *)
LEMMA PersistWrites ==
  ASSUME TypeOK, NEW after \in Nat, NEW read \in BOOLEAN, Persist(after, read)
  PROVE  /\ latest' \in Nat \union {NoRow} /\ idTaken' \in BOOLEAN /\ slipped' \in BOOLEAN
         /\ ~slipped' => ~slipped /\ read /\ latest' = after /\ idTaken' # idTaken
  BY DEF TypeOK, Persist

LEMMA PersistTwoWrites ==
  ASSUME TypeOK, NEW first \in Nat, NEW second \in Nat, PersistTwo(first, second)
  PROVE  /\ latest' \in Nat \union {NoRow} /\ idTaken' \in BOOLEAN /\ slipped' \in BOOLEAN
         /\ ~slipped' => ~slipped /\ latest' = second
<1>1. latest' = second \/ latest' = first \/ latest' = latest
  BY Zenon DEF PersistTwo
<1>2. latest' \in Nat \union {NoRow}
  BY <1>1 DEF TypeOK
<1>3. idTaken' \in BOOLEAN
  BY DEF PersistTwo
<1>4. CASE slipped' = TRUE
  BY <1>2, <1>3, <1>4
<1>5. CASE latest' = second /\ slipped' = slipped
  BY <1>2, <1>3, <1>5 DEF TypeOK
<1>6. QED
  BY <1>4, <1>5 DEF PersistTwo

(* A balance with one wallet changed by d. *)
LEMMA OneWalletChanges ==
  ASSUME TypeOK, NEW w \in Types, NEW d \in Int, balance[w] + d \in Nat
  PROVE  /\ Plus(w, d) \in [Types -> Nat]
         /\ Plus(w, d)[w] = balance[w] + d
         /\ Plus(w, d)["subscription"] + Plus(w, d)["commission"] = Total + d
         /\ w # "commission" => Plus(w, d)["commission"] = balance["commission"]
  BY DEF TypeOK, Plus, Types, Total

(* One transaction on one wallet keeps the parts of the invariant that are  *)
(* about the balance and its newest row.                                    *)
LEMMA TransactionKeepsBooks ==
  ASSUME IInv, NEW w \in Types, NEW d \in Int, NEW read \in BOOLEAN,
         loaded, loaded' = loaded, status' = status, boots' = boots,
         balance[w] + d \in Nat, balance' = Plus(w, d),
         Persist(balance'[w], read), net' = net + d, Touches(w)
  PROVE  /\ balance' \in [Types -> Nat] /\ latest' \in Nat \union {NoRow}
         /\ idTaken' \in BOOLEAN /\ slipped' \in BOOLEAN /\ mixed' \in BOOLEAN
         /\ net' \in Int
         /\ ~slipped' => ~slipped /\ read /\ idTaken' # idTaken
         /\ MoneyIsConserved' /\ NewestRowIsTheBalance' /\ CommissionUntouched'
<1>0. TypeOK
  BY DEF IInv
<1>1. /\ balance' \in [Types -> Nat] /\ balance'[w] = balance[w] + d
      /\ balance'["subscription"] + balance'["commission"] = Total + d
      /\ w # "commission" => balance'["commission"] = balance["commission"]
  BY <1>0, OneWalletChanges
<1>2. balance'[w] \in Nat
  BY <1>1
<1>3. /\ latest' \in Nat \union {NoRow} /\ idTaken' \in BOOLEAN /\ slipped' \in BOOLEAN
      /\ ~slipped' => ~slipped /\ read /\ latest' = balance'[w] /\ idTaken' # idTaken
  BY <1>0, <1>2, PersistWrites
<1>4. mixed' \in BOOLEAN /\ (~mixed' => ~mixed /\ w # "commission")
  BY <1>0 DEF TypeOK, Touches
<1>5. net' \in Int /\ MoneyIsConserved'
  BY <1>0, <1>1 DEF IInv, TypeOK, MoneyIsConserved, Total
<1>6. CommissionUntouched'
  BY <1>1, <1>4 DEF IInv, CommissionUntouched
<1>7. NewestRowIsTheBalance'
  <2> SUFFICES ASSUME ~slipped', ~mixed' PROVE latest' = Total'
    BY DEF NewestRowIsTheBalance
  <2>1. balance'["commission"] = 0 /\ w = "subscription"
    BY <1>4, <1>6 DEF CommissionUntouched, Types
  <2>2. QED
    BY <1>1, <1>2, <1>3, <2>1 DEF Total, Types
<1>8. QED
  BY <1>1, <1>3, <1>4, <1>5, <1>6, <1>7

(* The wallet, its newest row and the gate's count agree as long as no      *)
(* access to the table has failed.                                          *)
THEOREM InvariantHolds == Spec => []IInv
<1>1. Init => IInv
  <2> SUFFICES ASSUME Init PROVE IInv
    OBVIOUS
  <2>1. TypeOK
    <3>1. balance \in [Types -> Nat]
      BY StartTypes, Zenon DEF Init
    <3>2. recorded \in [count : Nat, sum : Nat] /\ paid \in [count : 0..MaxPaid, sum : Nat]
      BY StartTypes, Zenon DEF Init
    <3>3. boots \in 0..MaxBoots /\ net \in Int
      BY AmountsAssumption DEF Init
    <3>4. QED
      BY <3>1, <3>2, <3>3 DEF Init, TypeOK
  <2>2. balance["commission"] = 0 /\ Total = 0
    BY DEF Init, Empty, Types, Total
  <2>3. DailyLimitsHold /\ GateSeesAll
    BY AmountsAssumption DEF Init, DailyLimitsHold, GateSeesAll, Nothing
  <2>4. QED
    BY <2>1, <2>2, <2>3
       DEF Init, IInv, MoneyIsConserved, NewestRowIsTheBalance, UnloadedIsEmpty, CommissionUntouched
<1>2. IInv /\ [Next]_vars => IInv'
  <2> SUFFICES ASSUME IInv, [Next]_vars PROVE IInv'
    OBVIOUS
  <2> USE AmountsAssumption
  <2>0. TypeOK
    BY DEF IInv
  <2>1. ASSUME NEW i \in Initials, NEW read \in Reads, CreateWallet(i, read) PROVE IInv'
    <3>1. read \in BOOLEAN
      BY DEF Reads
    <3>2. StartingBalance(i, read) \in Nat
      BY <2>0 DEF TypeOK, StartingBalance
    <3>3. balance' = [w \in Types |-> IF w = "subscription" THEN StartingBalance(i, read) ELSE 0]
      BY <2>1 DEF CreateWallet, Empty, Types
    <3>4. TypeOK'
      <4>1. balance' \in [Types -> Nat]
        BY <3>2, <3>3
      <4>2. slipped' \in BOOLEAN
        BY <2>1, <2>0, <3>1 DEF CreateWallet, TypeOK
      <4>3. net' \in Int
        BY <2>1, <2>0 DEF CreateWallet, TypeOK
      <4>4. QED
        BY <2>1, <2>0, <4>1, <4>2, <4>3 DEF CreateWallet, TypeOK, table
    <3>5. balance'["commission"] = 0 /\ Total' = StartingBalance(i, read)
      BY <3>2, <3>3 DEF Total, Types
    <3>6. MoneyIsConserved'
      <4> SUFFICES ASSUME boots' = 0 PROVE Total' = net'
        BY DEF MoneyIsConserved
      <4>1. boots = 0 /\ net' = net + i
        BY <2>1 DEF CreateWallet
      <4>2. Total = 0
        BY <2>1 DEF IInv, UnloadedIsEmpty, CreateWallet, Empty, Total, Types
      <4>3. latest = NoRow
        BY <2>1, <4>1 DEF IInv, UnloadedIsEmpty, CreateWallet
      <4>4. QED
        BY <4>1, <4>2, <4>3, <3>5, <2>0 DEF StartingBalance, IInv, MoneyIsConserved, TypeOK
    <3>7. QED
      BY <2>1, <3>4, <3>5, <3>6
         DEF IInv, CreateWallet, table, NewestRowIsTheBalance, DailyLimitsHold, UnloadedIsEmpty,
             GateSeesAll, CommissionUntouched, StartingBalance
  <2>2. ASSUME NEW w \in Types, NEW a \in Amounts, Credit(w, a) PROVE IInv'
    <3>1. a \in Int /\ balance[w] + a \in Nat /\ TRUE \in BOOLEAN
      BY <2>0 DEF TypeOK
    <3>2. /\ balance' \in [Types -> Nat] /\ latest' \in Nat \union {NoRow}
          /\ idTaken' \in BOOLEAN /\ slipped' \in BOOLEAN /\ mixed' \in BOOLEAN /\ net' \in Int
          /\ ~slipped' => ~slipped
          /\ MoneyIsConserved' /\ NewestRowIsTheBalance' /\ CommissionUntouched'
      BY <2>2, <3>1, TransactionKeepsBooks DEF Credit
    <3>3. QED
      BY <2>2, <2>0, <3>2
         DEF IInv, TypeOK, Credit, DailyLimitsHold, UnloadedIsEmpty, GateSeesAll
  <2>3. ASSUME NEW w \in Types, NEW a \in Amounts, Debit(w, a) PROVE IInv'
    <3>1. a \in Nat /\ -a \in Int /\ balance[w] + (-a) \in Nat /\ net - a = net + (-a)
      BY <2>3, <2>0 DEF TypeOK, Debit
    <3>2. /\ balance' \in [Types -> Nat] /\ latest' \in Nat \union {NoRow}
          /\ idTaken' \in BOOLEAN /\ slipped' \in BOOLEAN /\ mixed' \in BOOLEAN /\ net' \in Int
          /\ ~slipped' => ~slipped
          /\ MoneyIsConserved' /\ NewestRowIsTheBalance' /\ CommissionUntouched'
      BY <2>3, <3>1, TransactionKeepsBooks DEF Debit
    <3>3. QED
      BY <2>3, <2>0, <3>2
         DEF IInv, TypeOK, Debit, DailyLimitsHold, UnloadedIsEmpty, GateSeesAll
  <2>4. ASSUME NEW w \in Types, NEW a \in Amounts, NEW read \in Reads, Withdraw(w, a, read)
        PROVE  IInv'
    <3>0. read \in BOOLEAN
      BY DEF Reads
    <3>1. a \in Nat /\ -a \in Int /\ balance[w] + (-a) \in Nat /\ net - a = net + (-a)
      BY <2>4, <2>0 DEF TypeOK, Withdraw
    <3>2. /\ balance' \in [Types -> Nat] /\ latest' \in Nat \union {NoRow}
          /\ idTaken' \in BOOLEAN /\ slipped' \in BOOLEAN /\ mixed' \in BOOLEAN /\ net' \in Int
          /\ ~slipped' => ~slipped /\ read /\ idTaken' # idTaken
          /\ MoneyIsConserved' /\ NewestRowIsTheBalance' /\ CommissionUntouched'
      BY <2>4, <3>0, <3>1, TransactionKeepsBooks DEF Withdraw
    <3>3. TypeOK'
      BY <2>4, <2>0, <3>1, <3>2 DEF TypeOK, Withdraw, Counted
    <3>4. GateSeesAll' /\ DailyLimitsHold'
      <4> SUFFICES ASSUME ~slipped'
                   PROVE  /\ recorded' = paid'
                          /\ paid'.count <= MaxPerDay /\ paid'.sum <= DailyLimit
        BY DEF GateSeesAll, DailyLimitsHold
      <4>1. recorded = paid /\ WithinLimits(a) /\ idTaken' # idTaken
        BY <2>4, <3>2 DEF IInv, GateSeesAll, Withdraw
      <4>2. recorded' = Counted(recorded, a) /\ paid' = Counted(paid, a)
        BY <2>4, <4>1 DEF Withdraw
      <4>3. QED
        BY <2>0, <4>1, <4>2, <3>1 DEF TypeOK, WithinLimits, Counted
    <3>5. UnloadedIsEmpty'
      BY <2>4 DEF Withdraw, UnloadedIsEmpty
    <3>6. QED
      BY <3>2, <3>3, <3>4, <3>5 DEF IInv
  <2>5. ASSUME NEW w \in Types, NEW to \in Types, NEW a \in Amounts, Transfer(w, to, a)
        PROVE  IInv'
    <3>1. /\ balance' \in [Types -> Nat] /\ balance'[w] \in Nat /\ balance'[to] \in Nat
          /\ Total' = Total
      BY <2>5, <2>0 DEF TypeOK, Transfer, Total, Types
    <3>2. /\ latest' \in Nat \union {NoRow} /\ idTaken' \in BOOLEAN /\ slipped' \in BOOLEAN
          /\ ~slipped' => ~slipped
      BY <2>5, <2>0, <3>1, PersistTwoWrites DEF Transfer
    <3>3. TypeOK'
      BY <2>5, <2>0, <3>1, <3>2 DEF TypeOK, Transfer
    <3>4. QED
      BY <2>5, <3>1, <3>2, <3>3
         DEF IInv, Transfer, MoneyIsConserved, NewestRowIsTheBalance, DailyLimitsHold,
             UnloadedIsEmpty, GateSeesAll, CommissionUntouched
  <2>6. ASSUME NEW w \in Types, NEW a \in Amounts, TransferFails(w, a) PROVE IInv'
    <3>1. balance[w] \in Nat /\ balance[w] - a \in Nat
      BY <2>6, <2>0 DEF TypeOK, TransferFails
    <3>2. /\ latest' \in Nat \union {NoRow} /\ idTaken' \in BOOLEAN /\ slipped' \in BOOLEAN
          /\ ~slipped' => ~slipped /\ latest' = balance[w]
      BY <2>6, <2>0, <3>1, PersistTwoWrites DEF TransferFails
    <3>3. mixed' \in BOOLEAN /\ (~mixed' => ~mixed /\ w = "subscription")
      BY <2>6, <2>0 DEF TypeOK, TransferFails, Touches, Types
    <3>4. TypeOK' /\ Total' = Total /\ loaded /\ loaded'
      BY <2>6, <2>0, <3>2, <3>3 DEF TypeOK, TransferFails, memory, Total
    <3>5. NewestRowIsTheBalance'
      <4> SUFFICES ASSUME ~slipped', ~mixed' PROVE latest' = Total'
        BY DEF NewestRowIsTheBalance
      <4>1. latest' = balance["subscription"] /\ balance["commission"] = 0
        BY <3>2, <3>3 DEF IInv, CommissionUntouched
      <4>2. QED
        BY <4>1, <3>4, <2>0 DEF Total, TypeOK, Types
    <3>6. QED
      BY <2>6, <3>2, <3>3, <3>4, <3>5
         DEF IInv, TransferFails, memory, MoneyIsConserved, DailyLimitsHold,
             UnloadedIsEmpty, GateSeesAll, CommissionUntouched
  <2>7. ASSUME FreezeWallet \/ UnfreezeWallet PROVE IInv'
    BY <2>7, <2>0
       DEF FreezeWallet, UnfreezeWallet, SetStatus, table, IInv, TypeOK, MoneyIsConserved, Total,
           NewestRowIsTheBalance, DailyLimitsHold, UnloadedIsEmpty, GateSeesAll, CommissionUntouched
  <2>8. CASE NextSecond \/ OtherUser
    <3>1. /\ idTaken' \in BOOLEAN
          /\ UNCHANGED <<loaded, status, balance, latest, recorded, boots, paid, net, slipped, mixed>>
      BY <2>8 DEF NextSecond, OtherUser, memory, ghosts
    <3>2. QED
      BY <3>1
         DEF IInv, TypeOK, MoneyIsConserved, Total, NewestRowIsTheBalance, DailyLimitsHold,
             UnloadedIsEmpty, GateSeesAll, CommissionUntouched
  <2>9. CASE NextDay
    <3>1. /\ idTaken' = FALSE /\ recorded' = Nothing /\ paid' = Nothing
          /\ UNCHANGED <<loaded, status, balance, latest, boots, net, slipped, mixed>>
      BY <2>9 DEF NextDay, memory
    <3>2. TypeOK'
      BY <3>1, <2>0, StartTypes DEF TypeOK
    <3>3. DailyLimitsHold' /\ GateSeesAll'
      BY <3>1 DEF DailyLimitsHold, GateSeesAll, Nothing
    <3>4. QED
      BY <3>1, <3>2, <3>3
         DEF IInv, MoneyIsConserved, Total, NewestRowIsTheBalance, UnloadedIsEmpty, CommissionUntouched
  <2>10. CASE Restart
    <3>1. /\ loaded' = FALSE /\ status' = "active" /\ balance' = Empty /\ boots' = boots + 1
          /\ UNCHANGED <<latest, idTaken, recorded, paid, net, slipped, mixed>>
      BY <2>10 DEF Restart, table, ghosts
    <3>2. TypeOK' /\ boots' # 0
      <4>1. balance' \in [Types -> Nat]
        BY <3>1, StartTypes, Zenon
      <4>2. boots' \in 0..MaxBoots /\ boots' # 0
        BY <3>1, <2>0, <2>10 DEF TypeOK, Restart
      <4>3. QED
        BY <3>1, <4>1, <4>2, <2>0 DEF TypeOK
    <3>3. balance'["commission"] = 0
      BY <3>1 DEF Empty, Types
    <3>4. QED
      BY <3>1, <3>2, <3>3
         DEF IInv, MoneyIsConserved, NewestRowIsTheBalance, DailyLimitsHold, UnloadedIsEmpty,
             GateSeesAll, CommissionUntouched
  <2>11. CASE UNCHANGED vars
    BY <2>11
       DEF vars, memory, table, ghosts, IInv, TypeOK, MoneyIsConserved, Total,
           NewestRowIsTheBalance, DailyLimitsHold, UnloadedIsEmpty, GateSeesAll, CommissionUntouched
  <2>12. QED
    BY <2>1, <2>2, <2>3, <2>4, <2>5, <2>6, <2>7, <2>8, <2>9, <2>10, <2>11 DEF Next
<1>3. QED
  BY <1>1, <1>2, PTL DEF Spec

(* No operation makes or loses money. *)
COROLLARY MoneyConserved == Spec => []MoneyIsConserved
  BY InvariantHolds, PTL DEF IInv

(* A restart finds the balance in the newest row, if no access to the table *)
(* ever failed and the commission wallet was never used.                    *)
COROLLARY RowsTellTheBalance == Spec => []NewestRowIsTheBalance
  BY InvariantHolds, PTL DEF IInv

(* The limits of the gate hold as long as no access to the table failed. *)
COROLLARY LimitsHoldDaily == Spec => []DailyLimitsHold
  BY InvariantHolds, PTL DEF IInv
=============================================================================
