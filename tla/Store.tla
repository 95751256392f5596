------------------------------- MODULE Store -------------------------------
(***************************************************************************)
(* What every handler of AutoPay shares: the committed rows of Postgres    *)
(* (READ COMMITTED), the row locks that SELECT ... FOR UPDATE takes, the   *)
(* one asyncio event loop of the one uvicorn worker, and the clock.        *)
(*                                                                         *)
(* A handler that is a coroutine makes blocking psycopg2 calls on the loop *)
(* itself: while it waits for a row lock it keeps the loop.  It gives the  *)
(* loop up only at an `await` of the payment provider, and then keeps its  *)
(* database transaction, with its row locks, open.                         *)
(***************************************************************************)
EXTENDS Integers

CONSTANTS
  Users, Bills,
  Reqs,         \* one attempt of a bills endpoint; names its transfer too
  Credits,      \* references of inbound transfers to a virtual account
  EventIds,     \* requestIds the provider may give deliveries of one event
  None,         \* no lock holder, no loop owner
  Hook,         \* the webhook handler as owner of the loop
  BillOwner,    \* bills.user_id
  Amount,       \* bills.amount
  HasAccount,   \* the bills with account_number and bank_code set
  DueDay,       \* the day after which the bill is due
  InitStatus,   \* a bill's status at the start; "absent": not inserted yet
  ReqBill,      \* the bill a request pays or inserts
  CreditUser, CreditAmount,
  CreditRows,   \* the credits with a pending transaction row
  InitBalance,
  Fee,          \* settings.payout_fee_ngn
  MaxRetries,   \* bills.max_retries
  MaxNow        \* bound of the clock

BillStatus == {"pending", "scheduled", "processing", "paid", "failed", "cancelled"}
TxnStatus == {"pending", "processing", "success", "failed"}
Refs == Reqs \cup Credits

\* A debit moves amount + fee; a credit the amount the event carries.
Charge(r) == Amount[ReqBill[r]] + Fee

ASSUME ActorAssumption ==
  /\ None \notin Reqs \cup Bills /\ Hook \notin Reqs /\ Hook # None
  /\ Reqs \cap Credits = {}

ASSUME DataAssumption ==
  /\ BillOwner \in [Bills -> Users]
  /\ Amount \in [Bills -> Nat \ {0}]
  /\ HasAccount \subseteq Bills
  /\ DueDay \in [Bills -> Int]
  /\ InitStatus \in [Bills -> {"absent", "pending", "scheduled"}]
  /\ ReqBill \in [Reqs -> Bills]
  /\ CreditUser \in [Credits -> Users]
  /\ CreditAmount \in [Credits -> Nat]
  /\ CreditRows \subseteq Credits
  /\ InitBalance \in [Users -> Nat]
  /\ Fee \in Nat /\ MaxRetries \in Nat /\ MaxNow \in Nat

VARIABLES
  balance,      \* users.balance
  bill,         \* bills.status and bills.retry_count
  txn,          \* transactions.status by provider_reference
  seen,         \* the webhook_events rows
  billLock, userLock,
  loop,         \* the coroutine running on the event loop
  now           \* the current day

tables == <<balance, bill, txn, seen>>
rowLocks == <<billLock, userLock>>
storeVars == <<balance, bill, txn, seen, billLock, userLock, loop, now>>

BillRow == [status : BillStatus \cup {"absent"}, retry : Nat]

TransferEvents == [ref : Reqs, id : EventIds,
                   type : {"transfer.success", "transfer.failed", "transfer.reversed"}]
ChargeEvents == [ref : Credits, id : EventIds, type : {"charge.success"}]
Events == TransferEvents \cup ChargeEvents

StoreTypeOK ==
  /\ balance \in [Users -> Int]
  /\ bill \in [Bills -> BillRow]
  /\ txn \in [Refs -> TxnStatus \cup {"absent"}]
  /\ seen \subseteq Events
  /\ billLock \in [Bills -> Reqs \cup {None}]
  /\ userLock \in [Users -> Reqs \cup {None}]
  /\ loop \in Reqs \cup {None, Hook}
  /\ now \in 0..MaxNow

StoreInit ==
  /\ balance = InitBalance
  /\ bill = [b \in Bills |-> [status |-> InitStatus[b], retry |-> 0]]
  /\ txn = [t \in Refs |-> IF t \in CreditRows THEN "pending" ELSE "absent"]
  /\ seen = {}
  /\ billLock = [b \in Bills |-> None]
  /\ userLock = [u \in Users |-> None]
  /\ loop = None
  /\ now = 0

-----------------------------------------------------------------------------
\* timedelta.days: below zero exactly when the due date has passed.
DaysUntilDue(b) == DueDay[b] - now

\* What the ORM writes at a flush: the columns that differ from what the
\* session loaded, as absolute values; the other columns keep what is there.
Flushed(row, loaded, current) ==
  [status |-> IF current.status # loaded.status THEN current.status ELSE row.status,
   retry  |-> IF current.retry # loaded.retry THEN current.retry ELSE row.retry]

\* Mutant: the failed attempt's status is not reset.
AfterFailureStatusKept(row) == [row EXCEPT !.retry = @ + 1]

\* A failed attempt: one more retry, and back to scheduled while any is left.
AfterFailure(row) ==
  [status |-> IF row.retry + 1 >= MaxRetries THEN "failed" ELSE "scheduled",
   retry  |-> row.retry + 1]

Released(lock, holder) ==
  [k \in DOMAIN lock |-> IF lock[k] = holder THEN None ELSE lock[k]]

\* A day passes.
Tick ==
  /\ now < MaxNow
  /\ now' = now + 1
  /\ UNCHANGED <<tables, rowLocks, loop>>
=============================================================================
