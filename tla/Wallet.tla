------------------------------- MODULE Wallet -------------------------------
(***************************************************************************)
(* payments/wallet.py, class WalletManager, with the withdrawal gate of    *)
(* compliance/aml.py and the wallet_transactions table both of them use:   *)
(* the wallets of one user.  Balances live in memory, every transaction    *)
(* leaves a row in the table, a restart restores what it can from rows.    *)
(*                                                                         *)
(* Of the table only what is read back is kept: the balance_after of the   *)
(* newest row, the withdrawals of the last 24 hours, and whether the       *)
(* current second's transaction id is taken.  An id is TXN-<second>, and   *)
(* unique over all users, so the second row of one second is refused; that *)
(* error is logged and the transaction stands.  No wallet has a kyc_status *)
(* so the KYC threshold caps a withdrawal before the single cap does.      *)
(* The 24 hours are a day of the model: its withdrawals leave the window   *)
(* together.                                                               *)
(***************************************************************************)
EXTENDS Integers

CONSTANTS
  Amounts,      (* amounts of deposits, withdrawals and transfers             *)
  Initials,     (* initial_balance of create_wallet                           *)
  KycThreshold, (* KYC_THRESHOLD                                              *)
  MaxPerDay,    (* MAX_WITHDRAWALS_PER_DAY                                    *)
  DailyLimit,   (* DAILY_WITHDRAWAL_LIMIT                                     *)
  MaxBalance,   (* bound: no credit beyond it                                 *)
  MaxPaid,      (* bound: withdrawals in a day                                *)
  MaxBoots,     (* bound: restarts                                            *)
  DbFails       (* the database may be unreachable                            *)

ASSUME AmountsAssumption ==
  /\ Amounts \subseteq Nat \ {0} /\ Initials \subseteq Nat
  /\ KycThreshold \in Nat /\ MaxPerDay \in Nat /\ DailyLimit \in Nat
  /\ MaxBalance \in Nat /\ MaxPaid \in Nat /\ MaxBoots \in Nat
  /\ DbFails \in BOOLEAN

Types == {"subscription", "commission"}

VARIABLES
  loaded,    (* the wallet is in _wallets                                     *)
  status,    (* its status                                                    *)
  balance,   (* subscription_balance and commission_balance                   *)
  latest,    (* balance_after of the newest row, or NoRow                     *)
  idTaken,   (* the table has a row with the current second's id              *)
  recorded,  (* number and sum of the last day's withdrawal rows              *)
  boots,     (* restarts so far                                               *)
  paid,      (* history: number and sum of the last day's withdrawals         *)
  net,       (* history: what credits brought, less what debits took          *)
  slipped,   (* history: some read or write of the table has failed           *)
  mixed      (* history: some transaction concerned the commission wallet     *)

memory == <<loaded, status, balance>>
table == <<latest, idTaken, recorded>>
ghosts == <<paid, net, slipped, mixed>>
vars == <<memory, table, boots, ghosts>>

NoRow == -1
Nothing == [count |-> 0, sum |-> 0]
Empty == [w \in Types |-> 0]

Init ==
  /\ loaded = FALSE /\ status = "active" /\ balance = Empty
  /\ latest = NoRow /\ idTaken = FALSE /\ recorded = Nothing
  /\ boots = 0
  /\ paid = Nothing /\ net = 0 /\ slipped = FALSE /\ mixed = FALSE

-----------------------------------------------------------------------------
(* The balance create_wallet finds in the newest row, whatever wallet that  *)
(* row was about; without one, or when the read fails, the initial balance. *)
StartingBalance(initial, read) == IF read /\ latest # NoRow THEN latest ELSE initial

(* The reads of the table that can succeed or fail. *)
Reads == IF DbFails THEN BOOLEAN ELSE {TRUE}

CreateWallet(initial, read) ==
  /\ ~loaded /\ loaded' = TRUE
  /\ status' = "active"
  /\ balance' = [Empty EXCEPT !["subscription"] = StartingBalance(initial, read)]
  /\ net' = IF boots = 0 THEN net + initial ELSE net
  /\ slipped' = (slipped \/ ~read)
  /\ UNCHANGED <<table, boots, paid, mixed>>

Plus(w, a) == [balance EXCEPT ![w] = @ + a]
Counted(c, a) == [count |-> c.count + 1, sum |-> c.sum + a]
Touches(w) == mixed' = (mixed \/ w = "commission")

(* _persist_transaction of a row that tells the balance after *)
Persist(after, read) ==
  \/ ~idTaken /\ latest' = after /\ idTaken' = TRUE /\ slipped' = (slipped \/ ~read)
  \/ (idTaken \/ DbFails) /\ slipped' = TRUE /\ UNCHANGED <<latest, idTaken>>

(* Fault: the row tells the balance before the transaction. *)
CreditRecordsOldBalance(w, a) ==
  /\ loaded /\ status = "active" /\ balance[w] + a <= MaxBalance
  /\ balance' = Plus(w, a) /\ Persist(balance[w], TRUE)
  /\ net' = net + a /\ Touches(w)
  /\ UNCHANGED <<loaded, status, recorded, boots, paid>>

(* credit_wallet, of a wallet that exists: a missing one is created first, *)
(* which is CreateWallet(0) before this.                                   *)
Credit(w, a) ==
  /\ loaded /\ status = "active" /\ balance[w] + a <= MaxBalance
  /\ balance' = Plus(w, a) /\ Persist(balance'[w], TRUE)
  /\ net' = net + a /\ Touches(w)
  /\ UNCHANGED <<loaded, status, recorded, boots, paid>>

(* Fault: the day's volume is compared without the withdrawal at hand. *)
WithinLimitsSoFar(a) == recorded.count < MaxPerDay /\ recorded.sum <= DailyLimit

(* _check_db_rules: the rules that read the table *)
WithinLimits(a) == recorded.count < MaxPerDay /\ recorded.sum + a <= DailyLimit

(* debit_wallet of a withdrawal: the gate lets it pass when its read fails. *)
Withdraw(w, a, read) ==
  /\ loaded /\ status = "active" /\ paid.count < MaxPaid
  /\ a <= KycThreshold /\ (read => WithinLimits(a)) /\ balance[w] >= a
  /\ balance' = Plus(w, -a) /\ Persist(balance'[w], read)
  /\ recorded' = IF idTaken' = idTaken THEN recorded ELSE Counted(recorded, a)
  /\ paid' = Counted(paid, a) /\ net' = net - a /\ Touches(w)
  /\ UNCHANGED <<loaded, status, boots>>

(* debit_wallet of anything but a withdrawal: no gate *)
Debit(w, a) ==
  /\ loaded /\ status = "active" /\ balance[w] >= a
  /\ balance' = Plus(w, -a) /\ Persist(balance'[w], TRUE)
  /\ net' = net - a /\ Touches(w)
  /\ UNCHANGED <<loaded, status, recorded, boots, paid>>

(* The two rows of a transfer, written in one second or, when it passes in *)
(* between, in two: each of them may be lost.                              *)
PersistTwo(first, second) ==
  /\ idTaken' \in BOOLEAN
  /\ latest' \in {second} \union (IF idTaken THEN {} ELSE {first})
                \union (IF idTaken \/ DbFails THEN {latest} ELSE {})
  /\ slipped' = TRUE \/ (~idTaken /\ latest' = second /\ UNCHANGED slipped)

(* transfer_between_wallets: a debit and a credit *)
Transfer(from, to, a) ==
  /\ from # to
  /\ loaded /\ status = "active" /\ balance[from] >= a /\ balance[to] + a <= MaxBalance
  /\ balance' = [balance EXCEPT ![from] = @ - a, ![to] = @ + a]
  /\ PersistTwo(balance'[from], balance'[to])
  /\ mixed' = TRUE
  /\ UNCHANGED <<loaded, status, recorded, boots, paid, net>>

(* Fault: the rollback of a failed transfer is forgotten. *)
TransferFailsNoRollback(from, a) ==
  /\ loaded /\ status = "active" /\ balance[from] >= a
  /\ balance' = Plus(from, -a) /\ Persist(balance'[from], TRUE)
  /\ Touches(from)
  /\ UNCHANGED <<loaded, status, recorded, boots, paid, net>>

(* transfer_between_wallets to a wallet type that does not exist: the debit *)
(* is rolled back by a credit.                                              *)
TransferFails(from, a) ==
  /\ loaded /\ status = "active" /\ balance[from] >= a
  /\ PersistTwo(balance[from] - a, balance[from])
  /\ Touches(from)
  /\ UNCHANGED <<memory, recorded, boots, paid, net>>

SetStatus(s) ==
  /\ loaded
  /\ status' = s
  /\ UNCHANGED <<loaded, balance, table, boots, paid, net, slipped, mixed>>

FreezeWallet == SetStatus("frozen")
UnfreezeWallet == SetStatus("active")

-----------------------------------------------------------------------------
NextSecond == idTaken /\ idTaken' = FALSE /\ UNCHANGED <<memory, latest, recorded, boots, ghosts>>

(* Another user's transaction leaves its row in this second. *)
OtherUser == ~idTaken /\ idTaken' = TRUE /\ UNCHANGED <<memory, latest, recorded, boots, ghosts>>

(* Yesterday's withdrawals leave the 24 hours the gate looks at. *)
NextDay ==
  /\ paid # Nothing
  /\ recorded' = Nothing /\ paid' = Nothing /\ idTaken' = FALSE
  /\ UNCHANGED <<memory, latest, boots, net, slipped, mixed>>

Restart ==
  /\ boots < MaxBoots /\ boots' = boots + 1
  /\ loaded' = FALSE /\ status' = "active" /\ balance' = Empty
  /\ UNCHANGED <<table, ghosts>>

Next ==
  \/ \E i \in Initials, read \in Reads : CreateWallet(i, read)
  \/ \E w \in Types, a \in Amounts :
       \/ Credit(w, a) \/ Debit(w, a) \/ TransferFails(w, a)
       \/ \E read \in Reads : Withdraw(w, a, read)
       \/ \E to \in Types : Transfer(w, to, a)
  \/ FreezeWallet \/ UnfreezeWallet
  \/ NextSecond \/ OtherUser \/ NextDay \/ Restart

Spec == Init /\ [][Next]_vars

-----------------------------------------------------------------------------
TypeOK ==
  /\ loaded \in BOOLEAN /\ idTaken \in BOOLEAN
  /\ slipped \in BOOLEAN /\ mixed \in BOOLEAN
  /\ status \in {"active", "frozen"}
  /\ balance \in [Types -> Nat]
  /\ latest \in Nat \union {NoRow}
  /\ recorded \in [count : Nat, sum : Nat] /\ paid \in [count : 0..MaxPaid, sum : Nat]
  /\ boots \in 0..MaxBoots /\ net \in Int

Total == balance["subscription"] + balance["commission"]

(* Money is neither made nor lost by an operation: until the process first  *)
(* restarts, both wallets together hold what credits brought and debits     *)
(* left, through transfers, failed transfers and their rollback.            *)
MoneyIsConserved == boots = 0 => Total = net

(* What a restart relies on: as long as every access to the table succeeded *)
(* and no transaction concerned the commission wallet, the newest row tells *)
(* the balance, however many restarts there were.                           *)
NewestRowIsTheBalance ==
  ~slipped /\ ~mixed /\ loaded /\ latest # NoRow => latest = Total

(* The AML limits hold, across restarts and over both wallets, as long as   *)
(* every access to the table succeeded: no day has more withdrawals than    *)
(* the velocity limit, or more volume than the daily limit.                 *)
DailyLimitsHold == ~slipped => paid.count <= MaxPerDay /\ paid.sum <= DailyLimit

-----------------------------------------------------------------------------
(* aml.py:7 "Velocity check: max N withdrawals per 24 h". *)
VelocityLimit == paid.count <= MaxPerDay
=============================================================================
