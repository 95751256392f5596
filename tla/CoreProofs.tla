----------------------------- MODULE CoreProofs -----------------------------
(***************************************************************************)
(* The payment core's types are right, and CoreInv is inductive: the loop  *)
(* and the row locks have the owners they should, and what open            *)
(* transactions and webhooks hold stays true.                              *)
(***************************************************************************)
EXTENDS Invariants, TLAPS

-----------------------------------------------------------------------------
(* Type correctness: each action keeps TypeOK. *)

\* The values the constants give a request.
LEMMA RequestData ==
  ASSUME NEW r \in Reqs
  PROVE  /\ ReqBill[r] \in Bills /\ ReqUser[r] \in Users
         /\ BillOwner[ReqBill[r]] \in Users
         /\ Charge(r) \in Nat /\ r \in Refs /\ r # None /\ r # Hook
BY ActorAssumption, DataAssumption, RequestAssumption
DEF ActorAssumption, DataAssumption, RequestAssumption, Charge, Refs

\* The initial tables, sessions and handlers are well typed.
LEMMA InitTypeOK == Init => TypeOK
<1> USE ActorAssumption, DataAssumption, RequestAssumption, CancelAssumption,
        SweepAssumption, CrashAssumption, RecurrenceAssumption
    DEF ActorAssumption, DataAssumption, RequestAssumption, CancelAssumption,
        SweepAssumption, CrashAssumption, RecurrenceAssumption
<1>1. ASSUME Init PROVE TypeOK
  <2>1. StoreTypeOK
    BY <1>1 DEF Init, StoreInit, StoreTypeOK, BillRow, BillStatus, TxnStatus, Refs
  <2>2. ProviderTypeOK
    BY <1>1 DEF Init, ProviderInit, ProviderTypeOK, TransferStates
  <2>3. PayoutTypeOK
    BY <1>1 DEF Init, PayoutInit, PayoutTypeOK, PcStates, NoRow, NoDraft, BillRow
  <2>4. WebhookTypeOK
    BY <1>1 DEF Init, WebhookInit, WebhookTypeOK, HookRecords
  <2>5. CancelTypeOK /\ JobTypeOK
    BY <1>1 DEF Init, CancelInit, JobInit, CancelTypeOK, JobTypeOK, IdleJob
  <2>6. RecurrenceTypeOK
    BY <1>1 DEF Init, RecurrenceInit, RecurrenceTypeOK
  <2>7. QED
    BY <1>1, <2>1, <2>2, <2>3, <2>4, <2>5, <2>6 DEF Init, TypeOK
<1>2. QED BY <1>1

\* The ORM's flush and the failure rule yield rows of the bills table.
LEMMA RowTypes ==
  ASSUME NEW row \in BillRow, NEW loaded \in BillRow, NEW current \in BillRow
  PROVE  /\ Flushed(row, loaded, current) \in BillRow
         /\ AfterFailure(row) \in BillRow
         /\ [row EXCEPT !.status = "paid"] \in BillRow
         /\ [row EXCEPT !.status = "processing"] \in BillRow
<1> USE DEF BillRow, BillStatus
<1>1. Flushed(row, loaded, current) \in BillRow
  BY DEF Flushed
<1>2. AfterFailure(row) \in BillRow
  BY DEF AfterFailure
<1>3. QED BY <1>1, <1>2

\* Releasing a holder's locks leaves a lock table.
LEMMA ReleasedType ==
  ASSUME NEW S, NEW lock \in [S -> Reqs \cup {None}], NEW r
  PROVE  Released(lock, r) \in [S -> Reqs \cup {None}]
BY DEF Released

\* An endpoint's rollback leaves well-typed state.
LEMMA RollbackType ==
  ASSUME TypeOK, NEW r \in Reqs, NEW answer \in PcStates, Rollback(r, answer),
         UNCHANGED <<xfer, hook, cancel, jobVars, recurVars, crashes>>
  PROVE  TypeOK'
<1> USE DEF TypeOK
<1>1. billLock' \in [Bills -> Reqs \cup {None}] /\ userLock' \in [Users -> Reqs \cup {None}]
  BY ReleasedType DEF Rollback, StoreTypeOK
<1>2. StoreTypeOK'
  BY <1>1 DEF Rollback, StoreTypeOK, tables
<1>3. PayoutTypeOK'
  BY DEF Rollback, PayoutTypeOK, NoDraft, NoRow, BillRow
<1>4. QED
  BY <1>2, <1>3 DEF Rollback, ProviderTypeOK, WebhookTypeOK, CancelTypeOK, JobTypeOK, RecurrenceTypeOK,
     jobVars, recurVars, HookRecords, Events

\* So does every step of a bill request.
LEMMA RequestType ==
  ASSUME TypeOK, NEW r \in Reqs, Request(r)
  PROVE  TypeOK'
<1> USE RequestData
<1>1. UNCHANGED <<hook, cancel, jobVars, recurVars, crashes>>
  BY DEF Request
<1>2. (StoreTypeOK /\ PayoutTypeOK)' => TypeOK'
  <2>1. ProviderTypeOK'
    BY DEF Request, AccountResolved, Send, TypeOK, ProviderTypeOK, TransferStates
  <2>2. QED
    BY <1>1, <2>1 DEF TypeOK, WebhookTypeOK, CancelTypeOK, JobTypeOK, RecurrenceTypeOK, jobVars, recurVars,
       HookRecords, Events
<1>3. CASE LoadUser(r)
  BY <1>2, <1>3 DEF LoadUser, TypeOK, StoreTypeOK, PayoutTypeOK, storeVars, PcStates
<1>4. CASE StartPay(r)
  BY <1>2, <1>4 DEF StartPay, TypeOK, StoreTypeOK, PayoutTypeOK, tables, rowLocks, PcStates
<1>5. CASE StartInsert(r)
  <2>1. NewRow \in BillRow
    BY DEF NewRow, BillRow, BillStatus
  <2>2. QED
    BY <1>2, <1>5, <2>1 DEF StartInsert, TypeOK, StoreTypeOK, PayoutTypeOK, tables, rowLocks, PcStates
<1>6. CASE InsertBill(r)
  <2>1. StatusFor(Verdict(r)) \in BillStatus
    BY DEF StatusFor, BillStatus
  <2>2. bill' \in [Bills -> BillRow]
    BY <1>6, <2>1 DEF InsertBill, TypeOK, StoreTypeOK, BillRow
  <2>3. QED
    BY <1>2, <1>6, <2>2 DEF InsertBill, TypeOK, StoreTypeOK, PayoutTypeOK, rowLocks, PcStates, Answered
<1>7. CASE InsertAndPay(r)
  BY <1>2, <1>7 DEF InsertAndPay, TypeOK, StoreTypeOK, PayoutTypeOK, tables, PcStates
<1>8. CASE LockBill(r)
  BY <1>2, <1>8 DEF LockBill, TypeOK, StoreTypeOK, PayoutTypeOK, tables, PcStates
<1>9. CASE Reserve(r)
  <2>1. Reserved(r) \in [bill : BillRow, debit : {"absent", "processing", "failed"}]
    BY RowTypes DEF Reserved, TypeOK, PayoutTypeOK
  <2>2. RefundOnFailure(Reserved(r)) \in [bill : BillRow, debit : {"absent", "processing", "failed"}]
    BY <2>1, RowTypes DEF RefundOnFailure
  <2>3. StoreTypeOK'
    BY <1>9 DEF Reserve, TypeOK, StoreTypeOK, tables
  <2>4. PayoutTypeOK'
    <3>1. pc' \in [Reqs -> PcStates] /\ snap' = snap
      BY <1>9 DEF Reserve, TypeOK, PayoutTypeOK, PcStates
    <3>2. draft' = [draft EXCEPT ![r] = Reserved(r)] \/ draft' = [draft EXCEPT ![r] = RefundOnFailure(Reserved(r))]
      BY <1>9 DEF Reserve
    <3>3. QED BY <2>1, <2>2, <3>1, <3>2 DEF TypeOK, PayoutTypeOK
  <2>5. QED BY <1>2, <2>3, <2>4
<1>10. CASE AccountResolved(r)
  BY <1>2, <1>10 DEF AccountResolved, TypeOK, StoreTypeOK, PayoutTypeOK, storeVars, PcStates
<1>11. CASE AccountInvalid(r) \/ TransferErred(r)
  <2>1. RefundOnFailure(draft[r]) \in [bill : BillRow, debit : {"absent", "processing", "failed"}]
    BY RowTypes DEF RefundOnFailure, TypeOK, PayoutTypeOK
  <2>2. StoreTypeOK'
    BY <1>11 DEF AccountInvalid, TransferErred, TypeOK, StoreTypeOK, tables, rowLocks
  <2>3. /\ draft' = [draft EXCEPT ![r] = RefundOnFailure(draft[r])]
        /\ pc' = [pc EXCEPT ![r] = "refund"] /\ snap' = snap
    BY <1>11 DEF AccountInvalid, TransferErred
  <2>4. PayoutTypeOK'
    BY <2>1, <2>3 DEF TypeOK, PayoutTypeOK, PcStates
  <2>5. QED BY <1>2, <2>2, <2>4
<1>12. CASE TransferInitiated(r)
  <2>1. Flushed(bill[ReqBill[r]], snap[r].bill, draft[r].bill) \in BillRow
    BY RowTypes DEF TypeOK, StoreTypeOK, PayoutTypeOK
  <2>2. billLock' \in [Bills -> Reqs \cup {None}] /\ userLock' \in [Users -> Reqs \cup {None}]
    BY <1>12, ReleasedType DEF TransferInitiated, TypeOK, StoreTypeOK
  <2>3. balance' \in [Users -> Int]
    BY <1>12 DEF TransferInitiated, TypeOK, StoreTypeOK, PayoutTypeOK, Charge
  <2>4. txn' \in [Refs -> TxnStatus \cup {"absent"}]
    BY <1>12 DEF TransferInitiated, TypeOK, StoreTypeOK, PayoutTypeOK, TxnStatus
  <2>5. StoreTypeOK'
    BY <1>12, <2>1, <2>2, <2>3, <2>4 DEF TransferInitiated, TypeOK, StoreTypeOK
  <2>6. PayoutTypeOK'
    BY <1>12 DEF TransferInitiated, TypeOK, PayoutTypeOK, NoDraft, NoRow, BillRow, PcStates, Answered
  <2>7. QED BY <1>2, <2>5, <2>6
<1>13. CASE Respond(r)
  BY <1>2, <1>13 DEF Respond, TypeOK, StoreTypeOK, PayoutTypeOK, tables, rowLocks, PcStates, Answered
<1>14. CASE xfer' = xfer /\ \E answer \in Answered : Rollback(r, answer)
  BY <1>1, <1>14, RollbackType DEF PcStates
<1>15. QED
  BY <1>3, <1>4, <1>5, <1>6, <1>7, <1>8, <1>9, <1>10, <1>11, <1>12, <1>13, <1>14
  DEF Request, PayoutStep, PayUnknownBill, UploadUnreadable, RefusePayout, LookupFailed,
      PayoutRaised, Answered

\* The provider, its deliveries and the webhook handler.
LEMMA ProviderType ==
  ASSUME TypeOK, NEW r \in Reqs, ProviderStep(r)
  PROVE  TypeOK'
<1>1. xfer' \in [Reqs -> TransferStates]
  BY DEF ProviderStep, Accept, Settle, Reverse, TypeOK, ProviderTypeOK, TransferStates
<1>2. UNCHANGED <<storeVars, payoutVars, hook, cancel, jobVars, recurVars, crashes>>
  BY DEF ProviderStep
<1>3. QED
  BY <1>1, <1>2 DEF TypeOK, StoreTypeOK, ProviderTypeOK, PayoutTypeOK, WebhookTypeOK, CancelTypeOK,
     JobTypeOK, RecurrenceTypeOK, storeVars, payoutVars, jobVars, recurVars, HookRecords, Events

\* The parts of the state a webhook leaves alone.
LEMMA WebhookFrame ==
  ASSUME TypeOK, UNCHANGED <<xfer, cancel, jobVars, recurVars, crashes, payoutVars>>,
         StoreTypeOK', WebhookTypeOK'
  PROVE  TypeOK'
BY DEF TypeOK, ProviderTypeOK, PayoutTypeOK, CancelTypeOK, JobTypeOK, RecurrenceTypeOK, payoutVars, jobVars,
   recurVars

\* An event about a transfer names a request, one about a credit a credit.
LEMMA EventTypes ==
  ASSUME NEW e \in Events
  PROVE  /\ e.ref \in Refs
         /\ e.type \in Transfers => e.ref \in Reqs
         /\ e.type = "charge.success" => e.ref \in Credits
BY DEF Events, TransferEvents, ChargeEvents, Transfers, Refs

\* Accepting a delivery of an event keeps the types.
LEMMA DeliveryType ==
  ASSUME TypeOK, NEW e \in Events, Delivery(e)
  PROVE  TypeOK'
<1>1. RefBill(e.ref) \in BillRow
  BY RequestData DEF RefBill, TypeOK, StoreTypeOK, NoRow, BillRow
<1>2. txn[e.ref] \in TxnStatus \cup {"absent"}
  BY EventTypes DEF TypeOK, StoreTypeOK
<1>3. hook' \in HookRecords
  BY <1>1, <1>2 DEF Delivery, Deliver, HookRecords
<1>4. StoreTypeOK'
  BY DEF Delivery, Deliver, TypeOK, StoreTypeOK, tables, rowLocks
<1>5. UNCHANGED <<xfer, cancel, jobVars, recurVars, crashes, payoutVars>>
  BY DEF Delivery, Deliver
<1>6. QED
  BY <1>3, <1>4, <1>5, WebhookFrame DEF WebhookTypeOK

\* A webhook that is being handled has read what its record says.
LEMMA HookType ==
  ASSUME TypeOK, hook.phase # "idle"
  PROVE  /\ hook.event \in Events /\ hook.bill \in BillRow
         /\ hook.status \in TxnStatus \cup {"absent"}
         /\ hook.phase \in {"apply", "replay"}
BY DEF TypeOK, WebhookTypeOK, HookRecords, NoHook

\* Adding an amount to one wallet leaves a table of balances.
LEMMA AddedType ==
  ASSUME NEW table \in [Users -> Int], NEW u \in Users, NEW n \in Int
  PROVE  [table EXCEPT ![u] = @ + n] \in [Users -> Int]
<1>1. table[u] + n \in Int
  OBVIOUS
<1>2. [table EXCEPT ![u] = table[u] + n] \in [Users -> Int]
  BY <1>1
<1>3. QED BY <1>2

\* So does every way the webhook handler ends.
LEMMA WebhookType ==
  ASSUME TypeOK, Webhook
  PROVE  TypeOK'
<1> USE RequestData
<1>1. UNCHANGED <<xfer, cancel, jobVars, recurVars, crashes>>
  BY DEF Webhook
<1>2. PICK rows \in SUBSET Events : Finish(rows)
  <2>1. hook.phase # "idle"
    BY DEF Webhook, WebhookStep, RejectReplay, IgnoreTransfer, ConfirmSuccess, ConfirmFailure,
       OrphanCredit, AlreadyCredited, ApplyCredit, Applying
  <2>2. seen \in SUBSET Events /\ Recorded \in SUBSET Events
    BY <2>1, HookType DEF TypeOK, StoreTypeOK, Recorded
  <2>3. Finish(seen) \/ Finish(Recorded)
    BY DEF Webhook, WebhookStep, RejectReplay, IgnoreTransfer, ConfirmSuccess, ConfirmFailure,
       OrphanCredit, AlreadyCredited, ApplyCredit
  <2>4. QED BY <2>2, <2>3
<1>3. /\ seen' \subseteq Events /\ WebhookTypeOK' /\ loop' = None
      /\ UNCHANGED <<billLock, userLock, now, payoutVars>>
  BY <1>2 DEF Finish, WebhookTypeOK, HookRecords, rowLocks
<1>4. ASSUME balance' \in [Users -> Int], bill' \in [Bills -> BillRow],
             txn' \in [Refs -> TxnStatus \cup {"absent"}]
      PROVE  TypeOK'
  <2>1. StoreTypeOK'
    BY <1>3, <1>4 DEF TypeOK, StoreTypeOK
  <2>2. QED BY <1>1, <1>3, <2>1, WebhookFrame
<1>5. CASE UNCHANGED <<balance, bill, txn>>
  BY <1>4, <1>5 DEF TypeOK, StoreTypeOK
<1>6. CASE ConfirmSuccess
  <2>1. hook.event \in Events /\ hook.event.ref \in Reqs /\ hook.bill \in BillRow
    BY <1>6, HookType, EventTypes DEF ConfirmSuccess, Applying, SuccessTypes, Transfers
  <2>2. bill' \in [Bills -> BillRow]
    BY <1>6, <2>1, RowTypes DEF ConfirmSuccess, TypeOK, StoreTypeOK
  <2>3. txn' \in [Refs -> TxnStatus \cup {"absent"}]
    BY <1>6 DEF ConfirmSuccess, TypeOK, StoreTypeOK, TxnStatus
  <2>4. QED
    BY <1>4, <1>6, <2>2, <2>3 DEF ConfirmSuccess, TypeOK, StoreTypeOK
<1>7. CASE ConfirmFailure
  <2>1. hook.event \in Events /\ hook.event.ref \in Reqs /\ hook.bill \in BillRow
    BY <1>7, HookType, EventTypes DEF ConfirmFailure, Applying, FailureTypes, Transfers
  <2>2. bill' \in [Bills -> BillRow]
    BY <1>7, <2>1, RowTypes DEF ConfirmFailure, TypeOK, StoreTypeOK
  <2>3. txn' \in [Refs -> TxnStatus \cup {"absent"}]
    BY <1>7 DEF ConfirmFailure, TypeOK, StoreTypeOK, TxnStatus
  <2>4. Refund(hook.event.ref) \in Int
    BY <2>1 DEF Refund
  <2>5. balance' = [balance EXCEPT ![BillOwner[ReqBill[hook.event.ref]]] = @ + Refund(hook.event.ref)]
    BY <1>7 DEF ConfirmFailure
  <2>6. balance' \in [Users -> Int]
    BY <2>1, <2>4, <2>5, AddedType DEF TypeOK, StoreTypeOK
  <2>7. QED
    BY <1>4, <2>2, <2>3, <2>6
<1>8. CASE ApplyCredit
  <2>1. hook.event \in Events /\ hook.event.ref \in Credits
    BY <1>8, HookType, EventTypes DEF ApplyCredit, Applying
  <2>2. CreditAmount[hook.event.ref] \in Nat
    BY <2>1, DataAssumption DEF DataAssumption
  <2>3. CreditUser[hook.event.ref] \in Users
    BY <2>1, DataAssumption DEF DataAssumption
  <2>4. balance' = [balance EXCEPT ![CreditUser[hook.event.ref]] = @ + CreditAmount[hook.event.ref]]
    BY <1>8 DEF ApplyCredit
  <2>5. balance' \in [Users -> Int]
    BY <2>2, <2>3, <2>4, AddedType DEF TypeOK, StoreTypeOK
  <2>6. txn' \in [Refs -> TxnStatus \cup {"absent"}]
    BY <1>8 DEF ApplyCredit, TypeOK, StoreTypeOK, TxnStatus
  <2>7. QED
    BY <1>4, <1>8, <2>5, <2>6 DEF ApplyCredit, TypeOK, StoreTypeOK
<1>9. QED
  BY <1>5, <1>6, <1>7, <1>8
  DEF Webhook, WebhookStep, RejectReplay, IgnoreTransfer, OrphanCredit, AlreadyCredited

\* The writers of a bill's status in worker threads, the clock and a crash.
LEMMA ThreadType ==
  ASSUME TypeOK, (\E c \in Cancels : Cancelling(c)) \/ Sweeping \/ Spawning \/ Day \/ Crash
  PROVE  TypeOK'
<1>1. CASE \E c \in Cancels : Cancelling(c)
  <2>1. PICK c \in Cancels : Cancelling(c)
    BY <1>1
  <2>2. StoreTypeOK'
    BY <2>1 DEF Cancelling, CancelStep, CancelRead, CancelWrite, TypeOK, StoreTypeOK, storeVars, rowLocks,
       BillRow, BillStatus
  <2>3. CancelTypeOK'
    BY <2>1 DEF Cancelling, CancelStep, CancelRead, CancelWrite, TypeOK, CancelTypeOK
  <2>4. QED
    BY <2>1, <2>2, <2>3 DEF Cancelling, TypeOK, ProviderTypeOK, PayoutTypeOK, WebhookTypeOK, JobTypeOK,
       RecurrenceTypeOK, payoutVars, jobVars, recurVars, HookRecords, Events
<1>2. CASE Sweeping
  <2>1. StoreTypeOK'
    BY <1>2 DEF Sweeping, JobStep, SweepStart, SweepRead, SweepWrite, TypeOK, StoreTypeOK, storeVars,
       rowLocks, BillRow, BillStatus
  <2>2. JobTypeOK'
    BY <1>2, SweepAssumption DEF Sweeping, JobStep, SweepStart, SweepRead, SweepWrite, TypeOK, JobTypeOK,
       IdleJob, SweepAssumption
  <2>3. QED
    BY <1>2, <2>1, <2>2 DEF Sweeping, TypeOK, ProviderTypeOK, PayoutTypeOK, WebhookTypeOK, CancelTypeOK,
       RecurrenceTypeOK, payoutVars, recurVars, HookRecords, Events
<1>3. CASE Day
  BY <1>3, DataAssumption DEF Day, Tick, TypeOK, StoreTypeOK, ProviderTypeOK, PayoutTypeOK, WebhookTypeOK,
     CancelTypeOK, JobTypeOK, RecurrenceTypeOK, payoutVars, jobVars, recurVars, tables, rowLocks, HookRecords, Events, DataAssumption
<1>4. CASE Crash
  <2>1. StoreTypeOK'
    BY <1>4 DEF Crash, TypeOK, StoreTypeOK, tables
  <2>2. PayoutTypeOK'
    BY <1>4 DEF Crash, TypeOK, PayoutTypeOK, NoDraft, NoRow, BillRow, PcStates, Answered
  <2>3. CancelTypeOK' /\ JobTypeOK' /\ WebhookTypeOK' /\ ProviderTypeOK'
    BY <1>4 DEF Crash, TypeOK, CancelTypeOK, JobTypeOK, WebhookTypeOK, ProviderTypeOK, HookRecords, IdleJob
  <2>4. crashes' \in 0..MaxCrashes
    BY <1>4, CrashAssumption DEF Crash, TypeOK, CrashAssumption
  <2>5. RecurrenceTypeOK'
    BY <1>4 DEF Crash, TypeOK, RecurrenceTypeOK
  <2>6. QED BY <2>1, <2>2, <2>3, <2>4, <2>5 DEF TypeOK
<1>5. CASE Spawning
  <2> USE RecurrenceAssumption DEF RecurrenceAssumption
  <2>1. StoreTypeOK'
    <3>1. CASE SpawnStart
      BY <3>1 DEF SpawnStart, TypeOK, StoreTypeOK, storeVars
    <3>2. CASE \E b \in Recurring : Spawn(b)
      <4>1. CopyRow \in BillRow
        BY DEF CopyRow, BillRow, BillStatus
      <4>2. \E c \in Copies : bill' = [bill EXCEPT ![c] = CopyRow]
        BY <3>2 DEF Spawn
      <4>3. bill' \in [Bills -> BillRow]
        BY <4>1, <4>2 DEF TypeOK, StoreTypeOK
      <4>4. QED BY <3>2, <4>3 DEF Spawn, TypeOK, StoreTypeOK, rowLocks
    <3>3. QED BY <1>5, <3>1, <3>2 DEF Spawning, SpawnStep
  <2>2. RecurrenceTypeOK'
    <3>1. CASE SpawnStart
      BY <3>1 DEF SpawnStart, TypeOK, RecurrenceTypeOK
    <3>2. CASE \E b \in Recurring : Spawn(b)
      <4>1. PICK b \in Recurring, c \in Copies :
              nextDay' = Dated(b, c) /\ spawning' = spawning \ {b} /\ spawns' = spawns
        BY <3>2 DEF Spawn
      <4>2. DueDay[c] \in Int
        BY DataAssumption DEF DataAssumption
      <4>3. QED BY <4>1, <4>2 DEF Dated, TypeOK, RecurrenceTypeOK
    <3>3. QED BY <1>5, <3>1, <3>2 DEF Spawning, SpawnStep
  <2>3. QED
    BY <1>5, <2>1, <2>2 DEF Spawning, TypeOK, ProviderTypeOK, PayoutTypeOK, WebhookTypeOK, CancelTypeOK,
       JobTypeOK, payoutVars, jobVars, HookRecords, Events
<1>6. QED BY <1>1, <1>2, <1>3, <1>4, <1>5

\* And a step that changes nothing.
LEMMA StutterType ==
  ASSUME TypeOK, UNCHANGED vars
  PROVE  TypeOK'
BY DEF vars, storeVars, payoutVars, jobVars, recurVars, RecurrenceTypeOK, TypeOK, StoreTypeOK, ProviderTypeOK, PayoutTypeOK,
   WebhookTypeOK, CancelTypeOK, JobTypeOK, HookRecords, Events

\* TypeOK is inductive.
LEMMA TypeInductive ==
  ASSUME TypeOK, [Next]_vars
  PROVE  TypeOK'
BY RequestType, ProviderType, DeliveryType, WebhookType, ThreadType, StutterType DEF Next

\* Every variable keeps its type: rows keep to the enums of the schema, locks
\* are held by requests, and the loop has one owner.
THEOREM TypeCorrect == Spec => []TypeOK
<1>1. TypeOK /\ [Next]_vars => TypeOK'
  BY TypeInductive
<1>2. QED
  BY InitTypeOK, <1>1, PTL DEF Spec

-----------------------------------------------------------------------------
(* The inductive invariant. *)

\* What CoreInv speaks of.
coreVars == <<pc, snap, draft, loop, billLock, userLock, hook, txn, xfer>>

\* The rows of bills that are in the table before and after a step.
SameRows == \A b \in Bills : Present(b)' <=> Present(b)

\* No row goes, and none appears that a request is to insert.
RowsKept ==
  /\ \A b \in Bills : Present(b) => Present(b)'
  /\ \A r \in Reqs : Kind[r] # "pay" /\ Present(ReqBill[r])' => Present(ReqBill[r])

LEMMA SameIsKept == SameRows => RowsKept
BY RequestData DEF SameRows, RowsKept

\* The initial state has no lock, no open transaction, no debit.
LEMMA InitCore == Init => CoreInv
<1> SUFFICES ASSUME Init PROVE CoreInv
  OBVIOUS
<1> USE DEF Init, StoreInit, PayoutInit, WebhookInit, NoHook, NoDraft
<1>1. \A r \in Reqs : pc[r] \in {"new", "never"} /\ draft[r].debit = "absent"
  OBVIOUS
<1>2. \A r \in Reqs : txn[r] = "absent"
  BY RequestData, ActorAssumption, DataAssumption DEF ActorAssumption, DataAssumption
<1>3. LoopInv /\ HookInv
  BY <1>1 DEF LoopInv, OnLoop, HookInv
<1>4. LockInv /\ DraftInv /\ DebitInv /\ DebitBillInv
  BY <1>1, <1>2 DEF LockInv, DraftInv, DebitInv, DebitBillInv, Open
<1>5. \A r \in Reqs : Kind[r] # "pay" => ~Present(ReqBill[r])
  BY RequestData, RequestAssumption DEF RequestAssumption, Present
<1>6. PresentInv
  <2>1. (\A c \in Cancels : cancel[c] # "write") /\ job.writing \notin Bills
    BY ActorAssumption DEF ActorAssumption, Init, CancelInit, JobInit, IdleJob
  <2>2. QED BY <1>1, <1>5, <2>1 DEF PresentInv, Stored, Open
<1>7. QED BY <1>3, <1>4, <1>6 DEF CoreInv

\* Present keeps its meaning for cancellations and the job.
LEMMA WritersPresent ==
  ASSUME PresentInv, TypeOK, UNCHANGED <<cancel, job>>, \A b \in Bills : Present(b) => Present(b)'
  PROVE  /\ (\A c \in Cancels : cancel[c] = "write" => Present(CancelBill[c]))'
         /\ (job.writing \in Bills => Present(job.writing))'
BY CancelAssumption DEF CancelAssumption, PresentInv, Present

\* A step that leaves coreVars alone and keeps the rows.
LEMMA CoreFrame ==
  ASSUME CoreInv, UNCHANGED coreVars, RowsKept,
         (\A c \in Cancels : cancel[c] = "write" => Present(CancelBill[c]))',
         (job.writing \in Bills => Present(job.writing))'
  PROVE  CoreInv'
<1>1. LoopInv' /\ LockInv' /\ DebitInv'
  BY DEF coreVars, CoreInv, LoopInv, LockInv, DebitInv, Open
<1>2. DraftInv'
  BY DEF coreVars, CoreInv, DraftInv, Open, MayReserve, Reserved, Charge
<1>3. HookInv'
  BY DEF coreVars, CoreInv, HookInv, Announced
<1>4. PresentInv' /\ DebitBillInv'
  BY RequestData DEF coreVars, CoreInv, RowsKept, PresentInv, DebitBillInv, Present, Open
<1>5. QED BY <1>1, <1>2, <1>3, <1>4 DEF CoreInv

\* A released lock is no longer the holder's; every other one is as before.
LEMMA ReleasedLock ==
  ASSUME NEW S, NEW lock \in [S -> Reqs \cup {None}], NEW r \in Reqs, NEW k \in S
  PROVE  /\ Released(lock, r)[k] # r
         /\ lock[k] # r => Released(lock, r)[k] = lock[k]
BY RequestData DEF Released

\* A request's locks at the points where it counts on them.
Holds(q) ==
  /\ pc[q] = "lockUser" \/ Open(q) => billLock[ReqBill[q]] = q
  /\ Open(q) => userLock[ReqUser[q]] = q

\* What a step of request r means for the other requests and for the webhook:
\* their state is untouched, they keep their locks, who had the loop has it,
\* and no bill comes or goes except the one that r inserts.
OthersKeep(r) ==
  /\ \A q \in Reqs \ {r} :
       /\ pc'[q] = pc[q] /\ snap'[q] = snap[q] /\ draft'[q] = draft[q] /\ txn'[q] = txn[q]
       /\ loop = q => loop' = q
       /\ Holds(q)'
  /\ loop = Hook => loop' = Hook /\ txn' = txn /\ xfer' = xfer
  /\ \A b \in Bills : /\ Present(b) => Present(b)'
                      /\ Kind[r] = "pay" \/ b # ReqBill[r] => (Present(b)' => Present(b))
  /\ UNCHANGED <<hook, cancel, job>>

\* The part of CoreInv about request r alone.
Own(r) ==
  /\ pc[r] \in OnLoop => loop = r
  /\ Holds(r)
  /\ Open(r) => MayReserve(r)
  /\ pc[r] \in {"resolve", "transfer"} => draft[r] = Reserved(r)
  /\ draft[r].debit # "absent" => Open(r)
  /\ pc[r] \in {"committed", "initiated"} => txn[r] # "absent"
  /\ txn[r] # "absent" => /\ pc[r] \in {"committed", "initiated", "lost"}
                         /\ Present(ReqBill[r])
  /\ IF Kind[r] = "pay"
       THEN /\ pc[r] # "insert"
            /\ pc[r] \in {"lockBill", "lockUser"} \cup Stored \/ Open(r) => Present(ReqBill[r])
       ELSE /\ pc[r] \in Stored => Present(ReqBill[r])
            /\ Present(ReqBill[r]) => pc[r] \in Stored \cup {"lost"}

\* CoreInv is what holds of each request, and of the other actors.
LEMMA CoreIsOwn ==
  CoreInv => /\ \A r \in Reqs : Own(r)
             /\ hook.phase # "idle" => loop = Hook
             /\ HookInv /\ PresentInv
BY DEF CoreInv, LoopInv, LockInv, DraftInv, DebitInv, PresentInv, DebitBillInv, Own, Holds

\* So a step of a request is checked against that request only.
LEMMA CoreStep ==
  ASSUME TypeOK, CoreInv, NEW r \in Reqs, OthersKeep(r), Own(r)'
  PROVE  CoreInv' /\ OthersKeep(r)
<1>1. \A q \in Reqs : Own(q)'
  <2> SUFFICES ASSUME NEW q \in Reqs, q # r PROVE Own(q)'
    OBVIOUS
  <2>1. Own(q)
    BY CoreIsOwn
  <2>2. Kind[q] # "pay" => (Present(ReqBill[q]) <=> Present(ReqBill[q])')
    BY RequestData, RequestAssumption DEF RequestAssumption, OthersKeep
  <2>3. Present(ReqBill[q]) => Present(ReqBill[q])'
    BY RequestData DEF OthersKeep
  <2>4. (IF Kind[q] = "pay"
           THEN /\ pc[q] # "insert"
                /\ pc[q] \in {"lockBill", "lockUser"} \cup Stored \/ Open(q) => Present(ReqBill[q])
           ELSE /\ pc[q] \in Stored => Present(ReqBill[q])
                /\ Present(ReqBill[q]) => pc[q] \in Stored \cup {"lost"})'
    BY <2>1, <2>2, <2>3 DEF OthersKeep, Own, Open
  <2>5. QED
    BY <2>1, <2>3, <2>4 DEF OthersKeep, Own, Open, MayReserve, Reserved, Charge
<1>2. (hook.phase # "idle" => loop = Hook)'
  BY CoreIsOwn DEF OthersKeep
<1>3. HookInv'
  BY CoreIsOwn DEF OthersKeep, HookInv, Announced
<1>4. (/\ \A c \in Cancels : cancel[c] = "write" => Present(CancelBill[c])
       /\ job.writing \in Bills => Present(job.writing))'
  BY CoreIsOwn, WritersPresent DEF OthersKeep
<1>5. QED
  <2>1. (\A q \in Reqs : Own(q))' /\ (hook.phase # "idle" => loop = Hook)' /\ HookInv'
    BY <1>1, <1>2, <1>3
  <2>2. QED BY <1>4, <2>1
         DEF CoreInv, LoopInv, LockInv, DraftInv, DebitInv, PresentInv, DebitBillInv, Own, Holds

\* Who releases its locks takes none from the others.
LEMMA ReleaseHolds ==
  ASSUME TypeOK, CoreInv, NEW r \in Reqs, NEW q \in Reqs, q # r, pc'[q] = pc[q],
         billLock' = Released(billLock, r), userLock' = Released(userLock, r)
  PROVE  Holds(q)'
<1>1. Holds(q)
  BY CoreIsOwn DEF Own
<1>2. billLock'[ReqBill[q]] = billLock[ReqBill[q]] \/ billLock[ReqBill[q]] = r
  BY RequestData, ReleasedLock DEF TypeOK, StoreTypeOK
<1>3. userLock'[ReqUser[q]] = userLock[ReqUser[q]] \/ userLock[ReqUser[q]] = r
  BY RequestData, ReleasedLock DEF TypeOK, StoreTypeOK
<1>4. QED BY <1>1, <1>2, <1>3 DEF Holds, Open

\* Who leaves the locks alone, or takes one that is free, does neither.
LEMMA TakenHolds ==
  ASSUME TypeOK, CoreInv, NEW r \in Reqs, NEW q \in Reqs, q # r, pc'[q] = pc[q],
         \/ billLock' = billLock
         \/ billLock[ReqBill[r]] = None /\ billLock' = [billLock EXCEPT ![ReqBill[r]] = r],
         \/ userLock' = userLock
         \/ userLock[ReqUser[r]] = None /\ userLock' = [userLock EXCEPT ![ReqUser[r]] = r]
  PROVE  Holds(q)'
<1>1. Holds(q)
  BY CoreIsOwn DEF Own
<1>2. QED BY <1>1, RequestData DEF Holds, Open, TypeOK, StoreTypeOK

\* A rollback needs the loop to be free or its own.
LEMMA RollbackCore ==
  ASSUME TypeOK, CoreInv, NEW r \in Reqs, NEW answer \in {"rejected", "refused"},
         Rollback(r, answer), pc[r] \in {"ready", "lockUser", "resolve", "refund"},
         loop = Hook => xfer' = xfer, UNCHANGED <<hook, cancel, job>>
  PROVE  CoreInv' /\ OthersKeep(r)
<1> USE RequestData
<1>1. Own(r)
  BY CoreIsOwn
<1>2. \A q \in Reqs \ {r} : pc'[q] = pc[q] /\ draft'[q] = draft[q] /\ (loop = q => loop' = q)
  BY DEF Rollback, TypeOK, PayoutTypeOK
<1>3. \A q \in Reqs \ {r} : Holds(q)'
  BY <1>2, ReleaseHolds DEF Rollback
<1>4. UNCHANGED <<snap, txn, bill>>
  BY DEF Rollback, tables
<1>5. loop = Hook => loop' = Hook
  BY DEF Rollback
<1>6. OthersKeep(r)
  BY <1>2, <1>3, <1>4, <1>5 DEF OthersKeep, Present
<1>7. pc'[r] = answer /\ draft'[r] = NoDraft
  BY DEF Rollback, TypeOK, PayoutTypeOK
<1>8. Own(r)'
  BY <1>1, <1>4, <1>7 DEF Own, Holds, Open, OnLoop, Stored, NoDraft, Present
<1>9. QED BY <1>6, <1>8, CoreStep

\* Every step of a request keeps CoreInv.
LEMMA RequestCore ==
  ASSUME TypeOK, CoreInv, NEW r \in Reqs, Request(r)
  PROVE  CoreInv' /\ OthersKeep(r)
<1> USE RequestData, ActorAssumption
    DEF ActorAssumption, TypeOK, StoreTypeOK, PayoutTypeOK, tables, rowLocks, storeVars, jobVars
<1>1. /\ PayoutStep(r) \/ AccountResolved(r)
      /\ loop = Hook => xfer' = xfer
      /\ UNCHANGED <<hook, cancel, job>>
  BY DEF Request, AccountResolved
<1>2. Own(r)
  BY CoreIsOwn
<1>3. CASE LoadUser(r)
  <2>1. \A q \in Reqs \ {r} : pc'[q] = pc[q]
    BY <1>3 DEF LoadUser
  <2>2. \A q \in Reqs \ {r} : Holds(q)'
    BY <1>3, <2>1, TakenHolds DEF LoadUser
  <2>3. OthersKeep(r)
    BY <1>1, <1>2, <1>3, <2>1, <2>2 DEF LoadUser, OthersKeep, Present, Own, OnLoop
  <2>4. Own(r)'
    BY <1>1, <1>2, <1>3 DEF LoadUser, Own, Holds, Open, OnLoop, Stored, Present
  <2>5. QED BY <2>3, <2>4, CoreStep
<1>4. CASE StartPay(r)
  <2>1. \A q \in Reqs \ {r} : pc'[q] = pc[q]
    BY <1>4 DEF StartPay
  <2>2. \A q \in Reqs \ {r} : Holds(q)'
    BY <1>4, <2>1, TakenHolds DEF StartPay
  <2>3. OthersKeep(r)
    BY <1>1, <1>2, <1>4, <2>1, <2>2 DEF StartPay, OthersKeep, Present, Own, OnLoop
  <2>4. Own(r)'
    BY <1>1, <1>2, <1>4 DEF StartPay, Own, Holds, Open, OnLoop, Stored, Present, BillVisible
  <2>5. QED BY <2>3, <2>4, CoreStep
<1>5. CASE StartInsert(r)
  <2>1. \A q \in Reqs \ {r} : pc'[q] = pc[q]
    BY <1>5 DEF StartInsert
  <2>2. \A q \in Reqs \ {r} : Holds(q)'
    BY <1>5, <2>1, TakenHolds DEF StartInsert
  <2>3. OthersKeep(r)
    BY <1>1, <1>2, <1>5, <2>1, <2>2 DEF StartInsert, OthersKeep, Present, Own, OnLoop
  <2>4. Own(r)'
    BY <1>1, <1>2, <1>5 DEF StartInsert, Own, Holds, Open, OnLoop, Stored, Present
  <2>5. QED BY <2>3, <2>4, CoreStep
<1>6. CASE LockBill(r)
  <2>1. \A q \in Reqs \ {r} : pc'[q] = pc[q]
    BY <1>6 DEF LockBill
  <2>2. \A q \in Reqs \ {r} : Holds(q)'
    BY <1>6, <2>1, TakenHolds DEF LockBill
  <2>3. OthersKeep(r)
    BY <1>1, <1>2, <1>6, <2>1, <2>2 DEF LockBill, OthersKeep, Present, Own, OnLoop
  <2>4. Own(r)'
    BY <1>1, <1>2, <1>6 DEF LockBill, Own, Holds, Open, OnLoop, Stored, Present
  <2>5. QED BY <2>3, <2>4, CoreStep
<1>7. CASE Reserve(r)
  <2>1. \A q \in Reqs \ {r} : pc'[q] = pc[q]
    BY <1>7 DEF Reserve, WalletFree
  <2>2. \A q \in Reqs \ {r} : Holds(q)'
    BY <1>7, <2>1, TakenHolds DEF Reserve, WalletFree
  <2>3. OthersKeep(r)
    BY <1>1, <1>2, <1>7, <2>1, <2>2 DEF Reserve, WalletFree, OthersKeep, Present, Own, OnLoop
  <2>4. Own(r)'
    <3>1. /\ pc[r] = "lockUser" /\ MayReserve(r) /\ userLock'[ReqUser[r]] = r
          /\ \/ pc'[r] = "resolve" /\ draft'[r] = Reserved(r)
             \/ pc'[r] = "refund" /\ loop' = loop
          /\ UNCHANGED <<bill, txn, snap, billLock>>
      BY <1>7 DEF Reserve
    <3>2. (Open(r) => MayReserve(r))' /\ (draft[r] = Reserved(r))' = (draft'[r] = Reserved(r))
      BY <3>1 DEF MayReserve, Reserved, Charge
    <3>3. Holds(r)' /\ pc[r] \in OnLoop
      BY <1>2, <3>1 DEF Own, Holds, Open, OnLoop
    <3>4. QED
      BY <1>2, <3>1, <3>2, <3>3 DEF Own, Open, OnLoop, Stored, Present
  <2>5. QED BY <2>3, <2>4, CoreStep
<1>8. CASE AccountResolved(r)
  <2>1. \A q \in Reqs \ {r} : pc'[q] = pc[q]
    BY <1>8 DEF AccountResolved
  <2>2. \A q \in Reqs \ {r} : Holds(q)'
    BY <1>8, <2>1, TakenHolds DEF AccountResolved
  <2>3. OthersKeep(r)
    BY <1>1, <1>2, <1>8, <2>1, <2>2 DEF AccountResolved, OthersKeep, Present, Own, OnLoop
  <2>4. Own(r)'
    BY <1>1, <1>2, <1>8 DEF AccountResolved, Own, Holds, Open, OnLoop, Stored, Present, MayReserve, Reserved, Charge
  <2>5. QED BY <2>3, <2>4, CoreStep
<1>9. CASE AccountInvalid(r) \/ TransferErred(r)
  <2>1. \A q \in Reqs \ {r} : pc'[q] = pc[q]
    BY <1>9 DEF AccountInvalid, TransferErred
  <2>2. \A q \in Reqs \ {r} : Holds(q)'
    BY <1>9, <2>1, TakenHolds DEF AccountInvalid, TransferErred
  <2>3. OthersKeep(r)
    BY <1>1, <1>2, <1>9, <2>1, <2>2 DEF AccountInvalid, TransferErred, OthersKeep, Present, Own, OnLoop
  <2>4. Own(r)'
    BY <1>1, <1>2, <1>9 DEF AccountInvalid, TransferErred, Own, Holds, Open, OnLoop, Stored, Present, MayReserve, Charge
  <2>5. QED BY <2>3, <2>4, CoreStep
<1>10. CASE InsertBill(r)
  <2>1. \A q \in Reqs \ {r} : pc'[q] = pc[q] /\ Holds(q)'
    BY <1>10, TakenHolds DEF InsertBill
  <2>2. bill' = [bill EXCEPT ![ReqBill[r]].status = StatusFor(Verdict(r))] /\ Kind[r] # "pay"
    BY <1>2, <1>10 DEF InsertBill, Own
  <2>3. Present(ReqBill[r])' /\ \A b \in Bills \ {ReqBill[r]} : Present(b)' <=> Present(b)
    BY <2>2 DEF Present, StatusFor, BillRow
  <2>4. OthersKeep(r)
    BY <1>1, <1>2, <1>10, <2>1, <2>2, <2>3 DEF InsertBill, OthersKeep, Own, OnLoop
  <2>5. Own(r)'
    BY <1>1, <1>2, <1>10, <2>2, <2>3 DEF InsertBill, Own, Holds, Open, OnLoop, Stored
  <2>6. QED BY <2>4, <2>5, CoreStep
<1>11. CASE InsertAndPay(r)
  <2>1. Kind[r] # "pay" /\ ~Present(ReqBill[r]) /\ pc' = [pc EXCEPT ![r] = "lockUser"] /\ bill' = bill
    BY <1>2, <1>11 DEF InsertAndPay, Own, Stored
  <2>2. \A q \in Reqs \ {r} : ReqBill[q] = ReqBill[r] => pc[q] # "lockUser" /\ ~Open(q)
    BY <2>1, RequestAssumption, CoreIsOwn DEF RequestAssumption, Own
  <2>3. \A q \in Reqs \ {r} : Holds(q)'
    BY <1>11, <2>1, <2>2, CoreIsOwn DEF InsertAndPay, Own, Holds, Open
  <2>4. OthersKeep(r)
    BY <1>1, <1>2, <1>11, <2>1, <2>3 DEF InsertAndPay, OthersKeep, Present
  <2>5. Own(r)'
    BY <1>1, <1>2, <1>11, <2>1 DEF InsertAndPay, Own, Holds, Open, OnLoop, Stored, Present
  <2>6. QED BY <2>4, <2>5, CoreStep
<1>12. CASE TransferInitiated(r)
  <2>1. \A q \in Reqs \ {r} : /\ pc'[q] = pc[q] /\ draft'[q] = draft[q] /\ txn'[q] = txn[q]
                              /\ Holds(q)'
    BY <1>12, ReleaseHolds DEF TransferInitiated
  <2>2. draft[r] = Reserved(r) /\ MayReserve(r)
    BY <1>2, <1>12 DEF TransferInitiated, Own, Open
  <2>3. bill' = [bill EXCEPT ![ReqBill[r]] = Flushed(bill[ReqBill[r]], snap[r].bill, draft[r].bill)]
    BY <1>12 DEF TransferInitiated
  <2>4. Flushed(bill[ReqBill[r]], snap[r].bill, draft[r].bill).status = "processing"
    BY <2>2 DEF Flushed, Reserved, MayReserve, BillRow
  <2>5. Present(ReqBill[r])' /\ \A b \in Bills \ {ReqBill[r]} : Present(b)' <=> Present(b)
    BY <2>3, <2>4 DEF Present
  <2>6. Kind[r] = "pay" => Present(ReqBill[r])
    BY <1>2, <1>12 DEF TransferInitiated, Own, Open
  <2>7. OthersKeep(r)
    BY <1>1, <1>12, <2>1, <2>5, <2>6 DEF TransferInitiated, OthersKeep
  <2>8. Own(r)'
    BY <1>1, <1>2, <1>12, <2>2, <2>5 DEF TransferInitiated, Own, Holds, Open, OnLoop, Stored, NoDraft, Reserved
  <2>9. QED BY <2>7, <2>8, CoreStep
<1>13. CASE Respond(r)
  <2>1. /\ \/ pc[r] = "committed" /\ pc' = [pc EXCEPT ![r] = "initiated"]
           \/ pc[r] = "inserted" /\ pc' = [pc EXCEPT ![r] = "created"]
        /\ loop = r /\ UNCHANGED <<bill, txn, billLock, userLock, snap, draft>>
    BY <1>2, <1>13 DEF Respond, Own, OnLoop
  <2>2. \A q \in Reqs \ {r} : pc'[q] = pc[q] /\ Holds(q)'
    BY <2>1, TakenHolds
  <2>3. OthersKeep(r)
    BY <1>1, <2>1, <2>2 DEF OthersKeep, Present
  <2>4. Own(r)'
    BY <1>2, <2>1 DEF Own, Holds, Open, OnLoop, Stored, Present
  <2>5. QED BY <2>3, <2>4, CoreStep
<1>14. CASE \E answer \in {"rejected", "refused"} :
             Rollback(r, answer) /\ pc[r] \in {"ready", "lockUser", "resolve", "refund"}
  BY <1>1, <1>14, RollbackCore
<1>15. QED
  BY <1>1, <1>3, <1>4, <1>5, <1>6, <1>7, <1>8, <1>9, <1>10, <1>11, <1>12, <1>13, <1>14
  DEF PayoutStep, PayUnknownBill, UploadUnreadable, RefusePayout, LookupFailed, PayoutRaised

\* The provider only adds to what it has announced.
LEMMA ProviderCore ==
  ASSUME TypeOK, CoreInv, NEW r \in Reqs, ProviderStep(r)
  PROVE  CoreInv'
<1>1. UNCHANGED <<pc, snap, draft, loop, billLock, userLock, hook, txn, bill, cancel, job>>
  BY DEF ProviderStep, storeVars, payoutVars, jobVars
<1>2. \A q \in Reqs : /\ xfer[q] \in {"failed", "reversed"} => xfer'[q] = xfer[q]
                      /\ xfer[q] = "success" => xfer'[q] \in {"success", "reversed"}
  BY DEF ProviderStep, Accept, Settle, Reverse, TypeOK, ProviderTypeOK
<1>3. \A e \in Events : Announced(e) => Announced(e)'
  <2> SUFFICES ASSUME NEW e \in Events, Announced(e) PROVE Announced(e)'
    OBVIOUS
  <2>1. e.type = "charge.success" \/ e.ref \in Reqs
    BY DEF Events, TransferEvents, ChargeEvents
  <2>2. CASE e.type = "charge.success"
    BY <2>2 DEF Announced
  <2>3. CASE e.ref \in Reqs
    <3>1. PICK q \in Reqs : q = e.ref
      BY <2>3
    <3>2. /\ xfer[q] \in {"failed", "reversed"} => xfer'[q] = xfer[q]
          /\ xfer[q] = "success" => xfer'[q] \in {"success", "reversed"}
      BY <1>2
    <3>3. QED BY <3>1, <3>2 DEF Announced
  <2>4. QED BY <2>1, <2>2, <2>3
<1>4. hook.phase = "apply" => hook.event \in Events
  BY HookType
<1>5. LoopInv' /\ LockInv' /\ DebitInv' /\ PresentInv' /\ DebitBillInv'
  BY <1>1 DEF CoreInv, LoopInv, LockInv, DebitInv, PresentInv, DebitBillInv, Present, Open
<1>6. DraftInv'
  BY <1>1 DEF CoreInv, DraftInv, Open, MayReserve, Reserved, Charge
<1>7. HookInv'
  BY <1>1, <1>3, <1>4 DEF CoreInv, HookInv
<1>8. QED BY <1>5, <1>6, <1>7 DEF CoreInv

\* A delivery takes the free loop and reads its transaction.
LEMMA DeliveryCore ==
  ASSUME TypeOK, CoreInv, NEW e \in Events, Delivery(e)
  PROVE  CoreInv'
<1>1. /\ UNCHANGED <<pc, snap, draft, billLock, userLock, txn, bill, xfer, cancel, job>>
      /\ loop = None /\ loop' = Hook /\ Announced(e)
      /\ hook'.event = e /\ hook'.status = txn[e.ref]
  BY DEF Delivery, Deliver, payoutVars, tables, rowLocks, jobVars
<1>2. LoopInv'
  BY <1>1, RequestData DEF CoreInv, LoopInv
<1>3. LockInv' /\ DebitInv' /\ PresentInv' /\ DebitBillInv'
  BY <1>1 DEF CoreInv, LockInv, DebitInv, PresentInv, DebitBillInv, Present, Open
<1>4. DraftInv'
  BY <1>1 DEF CoreInv, DraftInv, Open, MayReserve, Reserved, Charge
<1>5. HookInv'
  BY <1>1 DEF HookInv, Announced
<1>6. QED BY <1>2, <1>3, <1>4, <1>5 DEF CoreInv

\* A webhook rewrites at most the transaction it has read, which exists, and
\* the row of its bill; it gives the loop back.
LEMMA WebhookEffect ==
  ASSUME TypeOK, CoreInv, Webhook
  PROVE  /\ hook' = NoHook /\ loop = Hook /\ loop' = None
         /\ UNCHANGED <<pc, snap, draft, billLock, userLock, xfer, cancel, job>>
         /\ \/ txn' = txn /\ bill' = bill
            \/ ConfirmSuccess \/ ConfirmFailure \/ ApplyCredit
<1>1. hook.phase # "idle"
  BY DEF Webhook, WebhookStep, RejectReplay, IgnoreTransfer, ConfirmSuccess, ConfirmFailure,
     OrphanCredit, AlreadyCredited, ApplyCredit, Applying
<1>2. \E rows : Finish(rows)
  BY DEF Webhook, WebhookStep, RejectReplay, IgnoreTransfer, ConfirmSuccess, ConfirmFailure,
     OrphanCredit, AlreadyCredited, ApplyCredit
<1>3. hook' = NoHook /\ loop = Hook /\ loop' = None
  BY <1>1, <1>2 DEF CoreInv, LoopInv, Finish
<1>4. UNCHANGED <<pc, snap, draft, billLock, userLock, xfer, cancel, job>>
  BY <1>2 DEF Webhook, Finish, rowLocks, payoutVars, jobVars
<1>5. (txn' = txn /\ bill' = bill) \/ ConfirmSuccess \/ ConfirmFailure \/ ApplyCredit
  BY DEF Webhook, WebhookStep, RejectReplay, IgnoreTransfer, OrphanCredit, AlreadyCredited
<1>6. QED BY <1>3, <1>4, <1>5

\* A transfer that is reconciled has a committed debit, in flight, and a bill.
LEMMA Reconciling ==
  ASSUME TypeOK, CoreInv, ConfirmSuccess \/ ConfirmFailure
  PROVE  /\ hook.phase = "apply" /\ hook.event \in Events /\ hook.event.ref \in Reqs
         /\ txn[hook.event.ref] \notin {"absent", "success", "failed"}
         /\ Present(ReqBill[hook.event.ref])
         /\ hook.bill \in BillRow /\ Announced(hook.event)
<1>1. hook.phase = "apply" /\ hook.event.type \in Transfers /\ Reconcilable(hook.status)
  BY DEF ConfirmSuccess, ConfirmFailure, Applying, SuccessTypes, FailureTypes, Transfers
<1>2. hook.event \in Events /\ hook.event.ref \in Reqs /\ hook.bill \in BillRow
  BY <1>1, HookType, EventTypes
<1>3. hook.status = txn[hook.event.ref] /\ Announced(hook.event)
  BY <1>1 DEF CoreInv, HookInv
<1>4. Present(ReqBill[hook.event.ref])
  BY <1>1, <1>2, <1>3 DEF CoreInv, DebitBillInv, Reconcilable
<1>5. QED BY <1>1, <1>2, <1>3, <1>4 DEF Reconcilable

\* A webhook removes no transaction and adds none, and no bill either.
LEMMA WebhookRows ==
  ASSUME TypeOK, CoreInv, Webhook
  PROVE  /\ \A t \in Refs : txn[t] = "absent" <=> txn'[t] = "absent"
         /\ SameRows
<1> USE RequestData DEF TypeOK, StoreTypeOK
<1>1. CASE txn' = txn /\ bill' = bill
  BY <1>1 DEF SameRows, Present
<1>2. CASE ConfirmSuccess \/ ConfirmFailure
  <2> DEFINE ref == hook.event.ref
             b == ReqBill[hook.event.ref]
  <2>1. ref \in Reqs /\ b \in Bills /\ txn[ref] # "absent" /\ Present(b) /\ hook.bill \in BillRow
    BY <1>2, Reconciling
  <2>2. \E s \in {"success", "failed"} : txn' = [txn EXCEPT ![ref] = s]
    BY <1>2 DEF ConfirmSuccess, ConfirmFailure
  <2>3. \E row \in {[hook.bill EXCEPT !.status = "paid"], AfterFailure(hook.bill)} :
          bill' = [bill EXCEPT ![b] = Flushed(bill[b], hook.bill, row)]
    BY <1>2 DEF ConfirmSuccess, ConfirmFailure
  <2>4. \A row \in {[hook.bill EXCEPT !.status = "paid"], AfterFailure(hook.bill)} :
          Flushed(bill[b], hook.bill, row).status # "absent"
    BY <2>1 DEF Flushed, AfterFailure, Present, BillRow
  <2>5. SameRows
    BY <2>1, <2>3, <2>4 DEF SameRows, Present
  <2>6. \A t \in Refs : txn[t] = "absent" <=> txn'[t] = "absent"
    BY <2>1, <2>2
  <2>7. QED BY <2>5, <2>6
<1>3. CASE ApplyCredit
  <2>1. hook.event.ref \in Refs /\ txn[hook.event.ref] # "absent"
    BY <1>3, HookType, EventTypes DEF ApplyCredit, Applying, CoreInv, HookInv
  <2>2. txn' = [txn EXCEPT ![hook.event.ref] = "success"] /\ bill' = bill
    BY <1>3 DEF ApplyCredit
  <2>3. QED BY <2>1, <2>2 DEF SameRows, Present
<1>4. QED BY <1>1, <1>2, <1>3, WebhookEffect

\* A webhook keeps CoreInv.
LEMMA WebhookCore ==
  ASSUME TypeOK, CoreInv, Webhook
  PROVE  CoreInv'
<1> USE WebhookEffect, WebhookRows, RequestData
<1>1. LoopInv'
  BY DEF CoreInv, LoopInv, NoHook
<1>2. LockInv' /\ DebitInv'
  BY DEF CoreInv, LockInv, DebitInv, Open
<1>3. DraftInv'
  BY DEF CoreInv, DraftInv, Open, MayReserve, Reserved, Charge
<1>4. HookInv'
  BY DEF HookInv, NoHook
<1>5. PresentInv' /\ DebitBillInv'
  <2>1. \A b \in Bills : Present(b) => Present(b)'
    BY DEF SameRows
  <2>2. \A r \in Reqs : txn'[r] # "absent" => txn[r] # "absent"
    BY DEF Refs
  <2>3. PresentInv'
    BY <2>1, WritersPresent DEF CoreInv, SameRows, PresentInv, Open
  <2>4. QED BY <2>1, <2>2, <2>3 DEF CoreInv, DebitBillInv
<1>6. QED BY <1>1, <1>2, <1>3, <1>4, <1>5 DEF CoreInv

\* After a crash nobody runs, holds a lock or has a transaction open.
LEMMA CrashCore ==
  ASSUME TypeOK, CoreInv, Crash
  PROVE  CoreInv'
<1>1. /\ \A r \in Reqs : /\ pc'[r] \in Answered \cup {"never", "new"} /\ draft'[r] = NoDraft
                         /\ pc'[r] # "lost" => pc'[r] = pc[r]
                         /\ pc[r] \in Answered => pc'[r] = pc[r]
      /\ UNCHANGED <<txn, bill>>
  BY DEF Crash, InProgress, PcStates, Answered, TypeOK, PayoutTypeOK, tables
<1>2. hook' = NoHook
  BY DEF Crash
<1>3. LoopInv' /\ HookInv'
  BY <1>1, <1>2 DEF LoopInv, HookInv, OnLoop, Answered, NoHook
<1>4. LockInv' /\ DraftInv' /\ DebitInv' /\ DebitBillInv'
  BY <1>1 DEF CoreInv, LockInv, DraftInv, DebitInv, DebitBillInv, Present, Open, Answered, NoDraft
<1>5. (\A c \in Cancels : cancel'[c] # "write") /\ job'.writing \notin Bills
  BY ActorAssumption DEF ActorAssumption, Crash, TypeOK, CancelTypeOK, IdleJob
<1>6. PresentInv'
  BY <1>1, <1>5 DEF CoreInv, PresentInv, Stored, Present, Open, Answered
<1>7. QED BY <1>3, <1>4, <1>6 DEF CoreInv

\* Writing another status to a bill's row keeps the rows that are there.
LEMMA StatusWrite ==
  ASSUME bill \in [Bills -> BillRow], NEW b \in Bills, Present(b), NEW s, s # "absent",
         bill' = [bill EXCEPT ![b].status = s]
  PROVE  SameRows
<1>1. bill'[b].status = s
  BY DEF BillRow
<1>2. \A d \in Bills \ {b} : bill'[d] = bill[d]
  OBVIOUS
<1>3. QED BY <1>1, <1>2 DEF SameRows, Present

\* Cancellations and the job write only to bills that are in the table.
LEMMA ThreadCore ==
  ASSUME TypeOK, CoreInv, (\E c \in Cancels : Cancelling(c)) \/ Sweeping
  PROVE  CoreInv' /\ SameRows
<1> USE DEF TypeOK, StoreTypeOK
<1>1. PresentInv
  BY DEF CoreInv
<1>2. CASE \E c \in Cancels : Cancelling(c)
  <2>1. PICK c \in Cancels : CancelStep(c) /\ UNCHANGED <<xfer, payoutVars, hook, job>>
    BY <1>2 DEF Cancelling, jobVars
  <2>2. CancelBill[c] \in Bills
    BY CancelAssumption DEF CancelAssumption
  <2>3. UNCHANGED coreVars
    BY <2>1 DEF CancelStep, CancelRead, CancelWrite, storeVars, payoutVars, rowLocks, coreVars
  <2>4. SameRows
    <3>1. CASE CancelRead(c)
      BY <3>1 DEF CancelRead, storeVars, SameRows, Present
    <3>2. CASE CancelWrite(c)
      BY <1>1, <2>2, <3>2, StatusWrite DEF CancelWrite, PresentInv
    <3>3. QED BY <2>1, <3>1, <3>2 DEF CancelStep
  <2>5. (job.writing \in Bills => Present(job.writing))'
    BY <1>1, <2>1, <2>4 DEF SameRows, PresentInv, Present
  <2>6. \A d \in Cancels : cancel'[d] = "write" => Present(CancelBill[d])
    BY <1>1, <2>1 DEF CancelStep, CancelRead, CancelWrite, CancelTypeOK, PresentInv, Present
  <2>7. (\A d \in Cancels : cancel[d] = "write" => Present(CancelBill[d]))'
    BY <2>4, <2>6, CancelAssumption DEF CancelAssumption, SameRows
  <2>8. QED BY <2>3, <2>4, <2>5, <2>7, SameIsKept, CoreFrame
<1>3. CASE Sweeping
  <2>1. JobStep /\ UNCHANGED <<xfer, payoutVars, hook, cancel>>
    BY <1>3 DEF Sweeping
  <2>2. UNCHANGED coreVars
    BY <2>1 DEF JobStep, SweepStart, SweepRead, SweepWrite, storeVars, payoutVars, rowLocks, coreVars
  <2>3. SameRows
    <3>1. CASE UNCHANGED bill
      BY <3>1 DEF SameRows, Present
    <3>2. ASSUME NEW b \in Bills, SweepWrite(b) PROVE SameRows
      <4>1. Present(b)
        BY <1>1, <3>2 DEF SweepWrite, PresentInv
      <4>2. bill' = [bill EXCEPT ![b].status = "pending"]
        BY <3>2 DEF SweepWrite
      <4>3. QED BY <4>1, <4>2, StatusWrite
    <3>3. QED BY <2>1, <3>1, <3>2 DEF JobStep, SweepStart, SweepRead, storeVars
  <2>4. job'.writing \in Bills => Present(job'.writing)
    <3>1. None \notin Bills
      BY ActorAssumption DEF ActorAssumption
    <3>2. ASSUME NEW b \in Bills, SweepRead(b)
          PROVE  job'.writing = None \/ Present(job'.writing)
      BY <3>2 DEF SweepRead, Present
    <3>3. CASE SweepStart
      BY <3>1, <3>3 DEF SweepStart
    <3>4. ASSUME NEW b \in Bills, SweepWrite(b)
          PROVE  job'.writing = None
      BY <3>4 DEF SweepWrite, JobTypeOK
    <3>5. QED BY <2>1, <3>1, <3>2, <3>3, <3>4 DEF JobStep
  <2>5. (job.writing \in Bills => Present(job.writing))'
    BY <2>3, <2>4 DEF SameRows
  <2>6. (\A d \in Cancels : cancel[d] = "write" => Present(CancelBill[d]))'
    BY <1>1, <2>1, <2>3, CancelAssumption DEF CancelAssumption, SameRows, PresentInv
  <2>7. QED BY <2>2, <2>3, <2>5, <2>6, SameIsKept, CoreFrame
<1>4. QED BY <1>2, <1>3

\* What a step of the recurrence job does to bills: nothing, or a new row for
\* an occurrence that had none.
LEMMA SpawnEffect ==
  ASSUME TypeOK, Spawning
  PROVE  /\ UNCHANGED coreVars /\ UNCHANGED <<balance, seen, now, cancel, job>>
         /\ \/ bill' = bill
            \/ \E c \in Copies : ~Present(c) /\ bill' = [bill EXCEPT ![c] = CopyRow]
BY DEF Spawning, SpawnStep, SpawnStart, Spawn, storeVars, payoutVars, rowLocks, jobVars, coreVars, Present

\* A copy is no bill that a request inserts.
LEMMA SpawnCore ==
  ASSUME TypeOK, CoreInv, Spawning
  PROVE  CoreInv'
<1> USE DEF TypeOK, StoreTypeOK
<1>1. UNCHANGED coreVars /\ UNCHANGED <<cancel, job>>
  BY SpawnEffect
<1>2. RowsKept
  <2>1. CASE bill' = bill
    BY <2>1 DEF RowsKept, Present
  <2>2. CASE \E c \in Copies : ~Present(c) /\ bill' = [bill EXCEPT ![c] = CopyRow]
    <3>1. PICK c \in Copies : bill' = [bill EXCEPT ![c] = CopyRow]
      BY <2>2
    <3>2. c \in Bills /\ \A r \in Reqs : Kind[r] # "pay" => ReqBill[r] # c
      BY RecurrenceAssumption, CopyAssumption DEF RecurrenceAssumption, CopyAssumption
    <3>3. bill'[c].status = "scheduled" /\ \A b \in Bills \ {c} : bill'[b] = bill[b]
      BY <3>1, <3>2 DEF CopyRow
    <3>4. QED BY <3>2, <3>3, RequestData DEF RowsKept, Present
  <2>3. QED BY <2>1, <2>2, SpawnEffect
<1>3. QED
  BY <1>1, <1>2, WritersPresent, CoreFrame DEF CoreInv, RowsKept

\* CoreInv is inductive relative to the types.
LEMMA CoreInductive ==
  ASSUME TypeOK, CoreInv, [Next]_vars
  PROVE  CoreInv'
<1>1. CASE Day \/ UNCHANGED vars
  <2>1. UNCHANGED coreVars /\ UNCHANGED <<bill, cancel, job>>
    BY <1>1 DEF Day, Tick, vars, storeVars, payoutVars, jobVars, tables, rowLocks, coreVars
  <2>2. SameRows
    BY <2>1 DEF SameRows, Present
  <2>3. QED BY <2>1, <2>2, WritersPresent, SameIsKept, CoreFrame DEF CoreInv, SameRows
<1>2. QED
  BY <1>1, RequestCore, ProviderCore, DeliveryCore, WebhookCore, ThreadCore, SpawnCore, CrashCore DEF Next

\* Loop, locks, open transactions, webhooks and rows are as CoreInv says in
\* every reachable state, however many requests, bills and wallets there are.
THEOREM CoreInvariant == Spec => [](TypeOK /\ CoreInv)
<1>1. Init => TypeOK /\ CoreInv
  BY InitTypeOK, InitCore
<1>2. TypeOK /\ CoreInv /\ [Next]_vars => (TypeOK /\ CoreInv)'
  BY TypeInductive, CoreInductive
<1>3. QED BY <1>1, <1>2, PTL DEF Spec

\* The row locks serialize the payouts of a bill and of a wallet.
THEOREM PayoutsSerialized == Spec => []OneOpenPayout
<1>1. CoreInv => OneOpenPayout
  BY RequestData DEF CoreInv, LockInv, OneOpenPayout
<1>2. QED BY <1>1, CoreInvariant, PTL
=============================================================================
