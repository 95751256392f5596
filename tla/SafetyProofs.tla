---------------------------- MODULE SafetyProofs ----------------------------
(***************************************************************************)
(* The safety properties that follow from CoreInv, for any number of       *)
(* requests, bills, wallets, credits, cancellations and runs of the jobs;  *)
(* that the payout protocol implements the atomic wallet; last, that the   *)
(* recurrence job inserts no occurrence twice before it has passed.        *)
(***************************************************************************)
EXTENDS CoreProofs

\* Debits and bills are there as the callers are told, and a crash between a
\* commit and its answer takes no part of the transaction with it.
THEOREM AnswersTrue == Spec => []AnswersMatchBooks
<1>1. CoreInv => AnswersMatchBooks
  BY DEF CoreInv, DebitInv, PresentInv, DebitBillInv, Present, Stored, AnswersMatchBooks
<1>2. QED BY <1>1, CoreInvariant, PTL

-----------------------------------------------------------------------------
(* Who writes a transaction's status. *)

\* A credit's transaction is pending until it is applied.
CreditInv == \A c \in Credits : txn[c] \in {"absent", "pending", "success"}

\* A step changes a transaction by committing its debit, by reconciling the
\* transfer a webhook has read, or by applying a credit.
LEMMA TxnWriters ==
  ASSUME TypeOK, CoreInv, [Next]_vars
  PROVE  \/ txn' = txn
         \/ \E r \in Reqs : TransferInitiated(r) /\ txn' = [txn EXCEPT ![r] = "processing"]
                            /\ xfer' = xfer /\ txn[r] = "absent"
         \/ ConfirmSuccess \/ ConfirmFailure \/ ApplyCredit
<1>1. CASE \E r \in Reqs : TransferInitiated(r) /\ Request(r)
  <2>1. PICK r \in Reqs : TransferInitiated(r) /\ Request(r)
    BY <1>1
  <2>2. Own(r)
    BY CoreIsOwn
  <2>3. txn[r] = "absent" /\ draft[r].debit = "processing"
    BY <2>1, <2>2 DEF TransferInitiated, Own, Reserved
  <2>4. QED BY <2>1, <2>3 DEF TransferInitiated, Request, AccountResolved
<1>2. CASE \E r \in Reqs : Request(r) /\ ~TransferInitiated(r)
  BY <1>2 DEF Request, PayoutStep, LoadUser, PayUnknownBill, StartPay, UploadUnreadable, StartInsert,
     InsertBill, InsertAndPay, LockBill, RefusePayout, Reserve, AccountResolved, AccountInvalid,
     LookupFailed, TransferErred, PayoutRaised, Respond, Rollback, tables, storeVars
<1>3. CASE Webhook
  BY <1>3, WebhookEffect
<1>4. CASE \E r \in Reqs : ProviderStep(r)
  BY <1>4 DEF ProviderStep, storeVars
<1>5. CASE (\E e \in Events : Delivery(e)) \/ (\E c \in Cancels : Cancelling(c)) \/ Sweeping
           \/ Spawning \/ Day \/ Crash \/ UNCHANGED vars
  BY <1>5 DEF Delivery, Deliver, Cancelling, CancelStep, CancelRead, CancelWrite, Sweeping, JobStep,
     SweepStart, SweepRead, SweepWrite, Spawning, SpawnStep, SpawnStart, Spawn, Day, Tick, Crash, vars,
     storeVars, tables
<1>6. QED BY <1>1, <1>2, <1>3, <1>4, <1>5 DEF Next

\* What a webhook that applies a credit has read.
LEMMA Crediting ==
  ASSUME TypeOK, CoreInv, ApplyCredit
  PROVE  /\ hook.event.ref \in Credits /\ txn[hook.event.ref] \notin {"absent", "success"}
         /\ txn' = [txn EXCEPT ![hook.event.ref] = "success"]
BY HookType, EventTypes DEF ApplyCredit, Applying, CoreInv, HookInv

\* The states a transaction goes through: a debit's is inserted as processing, a
\* credit's as pending.
LEMMA EntryStates == Spec => [](CreditInv /\ DebitStates)
<1>1. Init => CreditInv /\ DebitStates
  BY DataAssumption, ActorAssumption
  DEF DataAssumption, ActorAssumption, Init, StoreInit, CreditInv, DebitStates, Refs
<1>2. TypeOK /\ CoreInv /\ CreditInv /\ DebitStates /\ [Next]_vars => (CreditInv /\ DebitStates)'
  <2> SUFFICES ASSUME TypeOK, CoreInv, CreditInv, DebitStates, [Next]_vars
               PROVE  CreditInv' /\ DebitStates'
    OBVIOUS
  <2> USE ActorAssumption DEF ActorAssumption, CreditInv, DebitStates, TypeOK, StoreTypeOK, Refs
  <2>1. CASE ConfirmSuccess \/ ConfirmFailure
    BY <2>1, Reconciling DEF ConfirmSuccess, ConfirmFailure
  <2>2. CASE ApplyCredit
    BY <2>2, Crediting
  <2>3. CASE \E r \in Reqs : txn' = [txn EXCEPT ![r] = "processing"]
    BY <2>3
  <2>4. QED BY <2>1, <2>2, <2>3, TxnWriters
<1>3. QED BY <1>1, <1>2, CoreInvariant, PTL DEF Spec

\* A reconciled transaction is final, whatever is delivered later or again.
THEOREM ReconciliationFinal == Spec => ReconciledForGood
<1>1. TypeOK /\ CoreInv /\ CreditInv /\ [Next]_vars
        => [\A t \in Refs : txn[t] \in {"success", "failed"} => txn'[t] = txn[t]]_vars
  <2> SUFFICES ASSUME TypeOK, CoreInv, CreditInv, [Next]_vars,
                      NEW t \in Refs, txn[t] \in {"success", "failed"}
               PROVE  txn'[t] = txn[t]
    OBVIOUS
  <2> USE DEF TypeOK, StoreTypeOK
  <2>1. CASE ConfirmSuccess \/ ConfirmFailure
    BY <2>1, Reconciling DEF ConfirmSuccess, ConfirmFailure
  <2>2. CASE ApplyCredit
    BY <2>2, Crediting DEF CreditInv
  <2>3. CASE \E r \in Reqs : txn' = [txn EXCEPT ![r] = "processing"] /\ txn[r] = "absent"
    BY <2>3
  <2>4. QED BY <2>1, <2>2, <2>3, TxnWriters
<1>2. QED
  BY <1>1, CoreInvariant, EntryStates, PTL DEF Spec, ReconciledForGood

\* The books never claim an outcome that the provider did not reach.
THEOREM BooksCorrect == Spec => []BooksFollowProvider
<1>1. Init => BooksFollowProvider
  BY InitCore DEF BooksFollowProvider, Init, StoreInit, CoreInv, DebitInv, PayoutInit
<1>2. TypeOK /\ CoreInv /\ BooksFollowProvider /\ [Next]_vars => BooksFollowProvider'
  <2> SUFFICES ASSUME TypeOK, CoreInv, BooksFollowProvider, [Next]_vars,
                      NEW r \in Reqs
               PROVE  /\ txn'[r] = "success" => xfer'[r] \in {"success", "reversed"}
                      /\ txn'[r] = "failed" => xfer'[r] \in {"failed", "reversed"}
    BY DEF BooksFollowProvider
  <2> USE RequestData DEF TypeOK, StoreTypeOK, ProviderTypeOK
  <2>1. CASE \E q \in Reqs : ProviderStep(q)
    <3>1. PICK q \in Reqs : ProviderStep(q)
      BY <2>1
    <3>2. txn' = txn /\ (Accept(q) \/ Settle(q) \/ Reverse(q))
      BY <3>1 DEF ProviderStep, storeVars
    <3>3. \/ xfer'[r] = xfer[r]
          \/ xfer[r] = "sent" /\ xfer'[r] = "accepted"
          \/ xfer[r] = "accepted" /\ xfer'[r] \in {"success", "failed"}
          \/ xfer[r] = "success" /\ xfer'[r] = "reversed"
      BY <3>2 DEF Accept, Settle, Reverse
    <3>4. QED BY <3>2, <3>3 DEF BooksFollowProvider
  <2>2. CASE xfer' = xfer
    <3>1. CASE ConfirmSuccess \/ ConfirmFailure
      <4>1. hook.event.ref \in Reqs /\ Announced(hook.event)
        BY <3>1, Reconciling
      <4>2. CASE ConfirmSuccess
        <5>1. xfer[hook.event.ref] \in {"success", "reversed"}
          BY <4>1, <4>2 DEF ConfirmSuccess, Applying, SuccessTypes, Announced
        <5>2. QED BY <2>2, <4>1, <4>2, <5>1 DEF BooksFollowProvider, ConfirmSuccess
      <4>3. CASE ConfirmFailure
        <5>1. xfer[hook.event.ref] \in {"failed", "reversed"}
          BY <4>1, <4>3 DEF ConfirmFailure, Applying, FailureTypes, Announced
        <5>2. QED BY <2>2, <4>1, <4>3, <5>1 DEF BooksFollowProvider, ConfirmFailure
      <4>4. QED BY <3>1, <4>2, <4>3
    <3>2. CASE ApplyCredit
      BY <2>2, <3>2, Crediting, ActorAssumption DEF ActorAssumption, BooksFollowProvider
    <3>3. CASE \E q \in Reqs : TransferInitiated(q) /\ txn' = [txn EXCEPT ![q] = "processing"]
      BY <2>2, <3>3 DEF BooksFollowProvider, TransferInitiated
    <3>4. CASE txn' = txn
      BY <2>2, <3>4 DEF BooksFollowProvider
    <3>5. QED BY <3>1, <3>2, <3>3, <3>4, TxnWriters
  <2>3. CASE \E q \in Reqs : AccountResolved(q)
    <3>1. PICK q \in Reqs : AccountResolved(q)
      BY <2>3
    <3>2. txn[q] = "absent"
      BY <3>1, CoreIsOwn DEF AccountResolved, Own
    <3>3. txn' = txn /\ xfer' = [xfer EXCEPT ![q] = "sent"]
      BY <3>1 DEF AccountResolved, Send, storeVars
    <3>4. QED BY <3>2, <3>3 DEF BooksFollowProvider
  <2>4. (\E q \in Reqs : ProviderStep(q) \/ AccountResolved(q)) \/ xfer' = xfer
    BY DEF Next, Request, Webhook, Delivery, Cancelling, Sweeping, Spawning, Day, Crash, vars
  <2>5. QED BY <2>1, <2>2, <2>3, <2>4
<1>3. QED BY <1>1, <1>2, CoreInvariant, PTL DEF Spec

-----------------------------------------------------------------------------
(* Who writes a bill's row and a wallet's balance. *)

\* A step that marks a bill paid is a webhook confirming one of its transfers.
LEMMA PaidWriters ==
  ASSUME TypeOK, CoreInv, [Next]_vars, NEW b \in Bills,
         bill[b].status # "paid", bill'[b].status = "paid"
  PROVE  ConfirmSuccess /\ ReqBill[hook.event.ref] = b
<1> USE RequestData DEF TypeOK, StoreTypeOK
<1>1. CASE \E r \in Reqs : Request(r)
  <2>1. PICK r \in Reqs : Request(r)
    BY <1>1
  <2>2. InsertBill(r) \/ TransferInitiated(r)
    BY <2>1 DEF Request, PayoutStep, LoadUser, PayUnknownBill, StartPay, UploadUnreadable, StartInsert,
       InsertAndPay, LockBill, RefusePayout, Reserve, AccountResolved, AccountInvalid,
       LookupFailed, TransferErred, PayoutRaised, Respond, Rollback, tables, storeVars
  <2>3. CASE InsertBill(r)
    BY <2>3 DEF InsertBill, StatusFor, BillRow
  <2>4. CASE TransferInitiated(r)
    <3>1. draft[r] = Reserved(r)
      BY <2>4, CoreIsOwn DEF TransferInitiated, Own
    <3>2. bill' = [bill EXCEPT ![ReqBill[r]] = Flushed(bill[ReqBill[r]], snap[r].bill, draft[r].bill)]
      BY <2>4 DEF TransferInitiated
    <3>3. Flushed(bill[ReqBill[r]], snap[r].bill, draft[r].bill).status
            \in {"processing", bill[ReqBill[r]].status}
      BY <3>1 DEF Flushed, Reserved, BillRow, PayoutTypeOK
    <3>4. QED BY <3>2, <3>3
  <2>5. QED BY <2>2, <2>3, <2>4
<1>2. CASE ConfirmSuccess \/ ConfirmFailure
  <2>1. hook.event.ref \in Reqs /\ hook.bill \in BillRow
    BY <1>2, Reconciling
  <2>2. CASE ConfirmSuccess
    BY <2>1, <2>2 DEF ConfirmSuccess
  <2>3. CASE ConfirmFailure
    <3>1. bill' = [bill EXCEPT ![ReqBill[hook.event.ref]] =
                     Flushed(bill[ReqBill[hook.event.ref]], hook.bill, AfterFailure(hook.bill))]
      BY <2>3 DEF ConfirmFailure
    <3>2. Flushed(bill[ReqBill[hook.event.ref]], hook.bill, AfterFailure(hook.bill)).status
            \in {"failed", "scheduled", bill[ReqBill[hook.event.ref]].status}
      BY <2>1 DEF Flushed, AfterFailure, BillRow
    <3>3. QED BY <3>1, <3>2
  <2>4. QED BY <1>2, <2>2, <2>3
<1>3. CASE Webhook
  BY <1>2, <1>3, WebhookEffect DEF ApplyCredit
<1>4. CASE (\E c \in Cancels : Cancelling(c)) \/ Sweeping
  <2>1. \/ bill' = bill
        \/ \E d \in Bills, s \in {"cancelled", "pending"} : bill' = [bill EXCEPT ![d].status = s]
    BY <1>4, CancelAssumption
    DEF CancelAssumption, Cancelling, CancelStep, CancelRead, CancelWrite, Sweeping, JobStep, SweepStart,
        SweepRead, SweepWrite, storeVars
  <2>2. QED BY <2>1 DEF BillRow
<1>5. CASE Spawning
  BY <1>5, SpawnEffect, RecurrenceAssumption DEF CopyRow
<1>6. CASE (\E r \in Reqs : ProviderStep(r)) \/ (\E e \in Events : Delivery(e)) \/ Day \/ Crash
           \/ UNCHANGED vars
  BY <1>6 DEF ProviderStep, Delivery, Deliver, Day, Tick, Crash, vars, storeVars, tables
<1>7. QED BY <1>1, <1>3, <1>4, <1>5, <1>6 DEF Next

\* A bill is marked paid only on the provider's word for one of its debits.
THEOREM PaidOnlyOnSuccess == Spec => []PaidHasSuccess
<1>1. Init => PaidHasSuccess
  <2>1. ASSUME Init, NEW b \in Bills PROVE bill[b].status # "paid"
    <3>1. bill[b].status = InitStatus[b]
      BY <2>1 DEF Init, StoreInit
    <3>2. InitStatus[b] \in {"absent", "pending", "scheduled"}
      BY DataAssumption DEF DataAssumption
    <3>3. QED BY <3>1, <3>2
  <2>2. QED BY <2>1 DEF PaidHasSuccess
<1>2. TypeOK /\ CoreInv /\ PaidHasSuccess /\ [Next]_vars
        /\ [\A t \in Refs : txn[t] \in {"success", "failed"} => txn'[t] = txn[t]]_vars
        => PaidHasSuccess'
  <2> SUFFICES ASSUME TypeOK, CoreInv, PaidHasSuccess, [Next]_vars, NEW b \in Bills,
                      [\A t \in Refs : txn[t] \in {"success", "failed"} => txn'[t] = txn[t]]_vars,
                      bill'[b].status = "paid"
               PROVE  \E r \in Reqs : ReqBill[r] = b /\ txn'[r] = "success"
    BY DEF PaidHasSuccess
  <2>1. CASE bill[b].status = "paid"
    <3>1. PICK r \in Reqs : ReqBill[r] = b /\ txn[r] = "success"
      BY <2>1 DEF PaidHasSuccess
    <3>2. txn'[r] = txn[r]
      BY <3>1, RequestData DEF vars, storeVars
    <3>3. QED BY <3>1, <3>2
  <2>2. CASE bill[b].status # "paid"
    <3>1. ConfirmSuccess /\ ReqBill[hook.event.ref] = b
      BY <2>2, PaidWriters
    <3>2. hook.event.ref \in Reqs
      BY <3>1, Reconciling
    <3>3. txn'[hook.event.ref] = "success"
      BY <3>1, <3>2, RequestData DEF ConfirmSuccess, TypeOK, StoreTypeOK
    <3>4. QED BY <3>1, <3>2, <3>3
  <2>3. QED BY <2>1, <2>2
<1>3. QED BY <1>1, <1>2, CoreInvariant, ReconciliationFinal, PTL DEF Spec, ReconciledForGood

\* A balance is written by the commit of a payout, a refund or a credit.
LEMMA BalanceWriters ==
  ASSUME TypeOK, CoreInv, [Next]_vars
  PROVE  \/ balance' = balance
         \/ \E r \in Reqs : TransferInitiated(r)
         \/ ConfirmFailure \/ ApplyCredit
<1>1. CASE \E r \in Reqs : Request(r) /\ ~TransferInitiated(r)
  BY <1>1 DEF Request, PayoutStep, LoadUser, PayUnknownBill, StartPay, UploadUnreadable, StartInsert,
     InsertBill, InsertAndPay, LockBill, RefusePayout, Reserve, AccountResolved, AccountInvalid,
     LookupFailed, TransferErred, PayoutRaised, Respond, Rollback, tables, storeVars
<1>2. CASE Webhook
  BY <1>2 DEF Webhook, WebhookStep, RejectReplay, IgnoreTransfer, ConfirmSuccess, OrphanCredit,
     AlreadyCredited
<1>3. CASE (\E r \in Reqs : ProviderStep(r)) \/ (\E e \in Events : Delivery(e))
           \/ (\E c \in Cancels : Cancelling(c)) \/ Sweeping \/ Spawning \/ Day \/ Crash
           \/ UNCHANGED vars
  BY <1>3 DEF ProviderStep, Delivery, Deliver, Cancelling, CancelStep, CancelRead, CancelWrite, Sweeping,
     JobStep, SweepStart, SweepRead, SweepWrite, Spawning, SpawnStep, SpawnStart, Spawn, Day, Tick,
     Crash, vars, storeVars, tables
<1>4. QED BY <1>1, <1>2, <1>3 DEF Next

\* No wallet is overdrawn, although every debit is computed from a balance that
\* was loaded before the wallet was locked.
THEOREM WalletsNonNegative == Spec => []NonNegativeBalance
<1>1. Init => NonNegativeBalance
  <2>1. ASSUME Init, NEW u \in Users PROVE balance[u] >= 0
    <3>1. InitBalance[u] \in Nat
      BY DataAssumption DEF DataAssumption
    <3>2. QED BY <2>1, <3>1 DEF Init, StoreInit
  <2>2. QED BY <2>1 DEF NonNegativeBalance
<1>2. TypeOK /\ CoreInv /\ NonNegativeBalance /\ [Next]_vars => NonNegativeBalance'
  <2> SUFFICES ASSUME TypeOK, CoreInv, NonNegativeBalance, [Next]_vars, NEW u \in Users
               PROVE  balance'[u] >= 0
    BY DEF NonNegativeBalance
  <2> USE RequestData DEF TypeOK, StoreTypeOK
  <2>1. balance[u] >= 0 /\ balance[u] \in Int
    BY DEF NonNegativeBalance
  <2>2. CASE \E r \in Reqs : TransferInitiated(r)
    <3>1. PICK r \in Reqs : TransferInitiated(r)
      BY <2>2
    <3>2. snap[r].balance >= Charge(r) /\ snap[r].balance \in Int
      BY <3>1, CoreIsOwn DEF TransferInitiated, Own, Open, MayReserve, PayoutTypeOK
    <3>3. balance' = [balance EXCEPT ![ReqUser[r]] = snap[r].balance - Charge(r)]
      BY <3>1 DEF TransferInitiated
    <3>4. QED BY <2>1, <3>2, <3>3
  <2>3. CASE ConfirmFailure
    <3> DEFINE owner == BillOwner[ReqBill[hook.event.ref]]
    <3>1. hook.event.ref \in Reqs
      BY <2>3, Reconciling
    <3>2. Refund(hook.event.ref) \in Nat
      BY <3>1 DEF Refund
    <3>3. balance' = [balance EXCEPT ![owner] = balance[owner] + Refund(hook.event.ref)]
      BY <2>3 DEF ConfirmFailure
    <3>4. QED BY <2>1, <3>2, <3>3
  <2>4. CASE ApplyCredit
    <3> DEFINE owner == CreditUser[hook.event.ref]
    <3>1. CreditAmount[hook.event.ref] \in Nat
      BY <2>4, Crediting, DataAssumption DEF DataAssumption
    <3>2. balance' = [balance EXCEPT ![owner] = balance[owner] + CreditAmount[hook.event.ref]]
      BY <2>4 DEF ApplyCredit
    <3>3. QED BY <2>1, <3>1, <3>2
  <2>5. QED BY <2>1, <2>2, <2>3, <2>4, BalanceWriters
<1>3. QED BY <1>1, <1>2, CoreInvariant, PTL DEF Spec

-----------------------------------------------------------------------------
(* The payout protocol refines the atomic wallet. *)

\* The wallet starts with the balances and entries of the core.
LEMMA InitWallet == Init => W!Init
BY DEF Init, StoreInit, W!Init, Refs

\* A debit is of the wallet of its bill's owner.
OwnerInv ==
  \A r \in Reqs :
    pc[r] \in {"lockBill", "lockUser"} \/ Open(r) \/ txn[r] # "absent"
      => BillOwner[ReqBill[r]] = ReqUser[r]

LEMMA OwnerInductive ==
  ASSUME TypeOK, CoreInv, OwnerInv, [Next]_vars
  PROVE  OwnerInv'
<1> USE DEF OwnerInv, Open, TypeOK, StoreTypeOK, PayoutTypeOK
<1> USE RequestData
<1>1. CASE \E r \in Reqs : Request(r)
  <2>1. PICK r \in Reqs : Request(r)
    BY <1>1
  <2>2. CASE StartPay(r)
    BY <2>2 DEF StartPay, BillVisible, tables
  <2>3. CASE InsertAndPay(r)
    <3>1. Kind[r] # "pay"
      BY <2>3, CoreIsOwn DEF InsertAndPay, PresentInv
    <3>2. BillOwner[ReqBill[r]] = ReqUser[r]
      BY <3>1, RequestAssumption DEF RequestAssumption
    <3>3. QED BY <2>3, <3>2 DEF InsertAndPay, tables
  <2>4. CASE ~StartPay(r) /\ ~InsertAndPay(r)
    BY <2>1, <2>4
    DEF Request, PayoutStep, LoadUser, PayUnknownBill, UploadUnreadable, StartInsert, InsertBill,
        LockBill, RefusePayout, Reserve, AccountResolved, AccountInvalid, LookupFailed,
        TransferInitiated, TransferErred, PayoutRaised, Respond, Rollback, tables, storeVars
  <2>5. QED BY <2>2, <2>3, <2>4
<1>2. CASE Crash
  BY <1>2 DEF Crash, InProgress, PcStates, Answered, tables
<1>3. CASE pc' = pc /\ \A r \in Reqs : txn[r] = "absent" => txn'[r] = "absent"
  BY <1>3
<1>4. QED
  BY <1>1, <1>2, <1>3, WebhookEffect, WebhookRows
  DEF Next, ProviderStep, Delivery, Deliver, Cancelling, CancelStep, CancelRead, CancelWrite, Sweeping,
      JobStep, SweepStart, SweepRead, SweepWrite, Spawning, SpawnStep, SpawnStart, Spawn, Day, Tick,
      payoutVars, storeVars, tables, vars

\* What the steps of the core take of each other's invariants to be the
\* wallet's steps.
EntryInv == CreditInv /\ DebitStates /\ OwnerInv

\* A payout that commits takes its charge, or overwrites what it did not load.
LEMMA CommitTakes ==
  ASSUME TypeOK, CoreInv, NEW r \in Reqs, TransferInitiated(r)
  PROVE  (W!Take(r) /\ snap[r].balance = balance[ReqUser[r]]) \/ StaleCommit(r)
<1> USE RequestData DEF TypeOK, StoreTypeOK
<1>1. Own(r)
  BY CoreIsOwn
<1>2. /\ txn[r] = "absent" /\ draft[r].debit = "processing"
      /\ snap[r].balance >= Charge(r) /\ snap[r].balance \in Int /\ Charge(r) \in Int
  BY <1>1 DEF TransferInitiated, Own, Open, MayReserve, Reserved, PayoutTypeOK
<1>3. W!Becomes(r, "absent", "processing")
  BY <1>2 DEF TransferInitiated, W!Becomes
<1>4. balance' = [balance EXCEPT ![ReqUser[r]] = snap[r].balance - Charge(r)]
  BY DEF TransferInitiated
<1>5. pc[r] = "transfer" /\ pc'[r] = "committed"
  BY DEF TransferInitiated, PayoutTypeOK
<1>6. CASE snap[r].balance = balance[ReqUser[r]]
  <2>1. W!Add(ReqUser[r], -Charge(r))
    BY <1>2, <1>4, <1>6 DEF W!Add
  <2>2. QED BY <1>2, <1>3, <1>6, <2>1 DEF W!Take
<1>7. CASE snap[r].balance # balance[ReqUser[r]]
  BY <1>3, <1>4, <1>5, <1>7 DEF StaleCommit
<1>8. QED BY <1>6, <1>7

\* A webhook that writes keeps or gives back a debit, or makes a deposit.
LEMMA WebhookIsWallet ==
  ASSUME TypeOK, CoreInv, EntryInv, ConfirmSuccess \/ ConfirmFailure \/ ApplyCredit
  PROVE  W!Next
<1> DEFINE ref == hook.event.ref
<1> USE RequestData DEF EntryInv
<1>1. CASE ConfirmSuccess
  <2>1. ref \in Reqs /\ txn[ref] = "processing"
    BY <1>1, Reconciling DEF DebitStates
  <2>2. W!Keep(ref)
    BY <1>1, <2>1 DEF ConfirmSuccess, W!Keep, W!Becomes
  <2>3. QED BY <2>1, <2>2 DEF W!Next
<1>2. CASE ConfirmFailure
  <2>1. ref \in Reqs /\ txn[ref] = "processing"
    BY <1>2, Reconciling DEF DebitStates
  <2>2. BillOwner[ReqBill[ref]] = ReqUser[ref]
    BY <2>1 DEF OwnerInv
  <2>3. W!GiveBack(ref)
    BY <1>2, <2>1, <2>2 DEF ConfirmFailure, Refund, W!GiveBack, W!Becomes, W!Add
  <2>4. QED BY <2>1, <2>3 DEF W!Next
<1>3. CASE ApplyCredit
  <2>1. ref \in Credits /\ txn[ref] = "pending"
    BY <1>3, Crediting DEF CreditInv
  <2>2. W!Deposit(ref)
    BY <1>3, <2>1 DEF ApplyCredit, W!Deposit, W!Becomes, W!Add
  <2>3. QED BY <2>1, <2>2 DEF W!Next
<1>4. QED BY <1>1, <1>2, <1>3

\* Every step is the wallet's, leaves it alone, or is a stale commit.
LEMMA StepsAreWallet ==
  ASSUME TypeOK, CoreInv, EntryInv, [Next]_vars
  PROVE  W!Next \/ (\E r \in Reqs : StaleCommit(r)) \/ UNCHANGED <<balance, txn>>
<1>1. CASE \E r \in Reqs : TransferInitiated(r)
  BY <1>1, CommitTakes DEF W!Next
<1>2. CASE ConfirmSuccess \/ ConfirmFailure \/ ApplyCredit
  BY <1>2, WebhookIsWallet
<1>3. CASE ~(\E r \in Reqs : TransferInitiated(r)) /\ ~(ConfirmSuccess \/ ConfirmFailure \/ ApplyCredit)
  BY <1>3, TxnWriters, BalanceWriters
<1>4. QED BY <1>1, <1>2, <1>3

LEMMA EntryInvariant == Spec => []EntryInv
<1>1. Init => OwnerInv
  BY InitCore DEF Init, PayoutInit, OwnerInv, Open, CoreInv, DebitInv
<1>2. TypeOK /\ CoreInv /\ OwnerInv /\ [Next]_vars => OwnerInv'
  BY OwnerInductive
<1>3. QED BY <1>1, <1>2, CoreInvariant, EntryStates, PTL DEF Spec, EntryInv

\* Whatever requests, webhooks, threads, jobs and crashes do, only a payout that
\* commits over a change it has not loaded departs from the atomic wallet.
THEOREM WalletAtomic == Spec => AtomicUnlessStale
<1>1. TypeOK /\ CoreInv /\ EntryInv /\ [Next]_vars
        => [W!Next \/ \E r \in Reqs : StaleCommit(r)]_<<balance, txn>>
  BY StepsAreWallet
<1>2. QED BY <1>1, CoreInvariant, EntryInvariant, PTL DEF Spec, AtomicUnlessStale

\* No wallet has two requests, or a request and an inbound transfer.
Separate ==
  /\ \A r, q \in Reqs : ReqUser[r] = ReqUser[q] => r = q
  /\ \A r \in Reqs, c \in Credits : CreditUser[c] # ReqUser[r]

\* The balance a request loaded is still its wallet's.
FreshInv ==
  \A r \in Reqs : pc[r] \in {"ready", "insert", "lockBill", "lockUser", "resolve", "transfer"} =>
    snap[r].balance = balance[ReqUser[r]]

\* A step that writes a wallet is of its own request, or finds that answered.
LEMMA FreshWrites ==
  ASSUME Separate, TypeOK, CoreInv, EntryInv, FreshInv,
         (\E r \in Reqs : TransferInitiated(r)) \/ ConfirmFailure \/ ApplyCredit
  PROVE  FreshInv'
<1> USE RequestData DEF TypeOK, StoreTypeOK, PayoutTypeOK, FreshInv
<1>1. CASE \E r \in Reqs : TransferInitiated(r)
  <2>1. PICK r \in Reqs : TransferInitiated(r)
    BY <1>1
  <2>2. /\ pc' = [pc EXCEPT ![r] = "committed"] /\ snap' = snap
        /\ balance' = [balance EXCEPT ![ReqUser[r]] = snap[r].balance - Charge(r)]
    BY <2>1 DEF TransferInitiated
  <2>3. \A q \in Reqs \ {r} : ReqUser[q] # ReqUser[r]
    BY DEF Separate
  <2>4. QED BY <2>2, <2>3
<1>2. CASE ConfirmFailure
  <2> DEFINE ref == hook.event.ref
  <2>1. ref \in Reqs /\ txn[ref] # "absent"
    BY <1>2, Reconciling
  <2>2. BillOwner[ReqBill[ref]] = ReqUser[ref]
    BY <2>1 DEF EntryInv, OwnerInv
  <2>3. pc' = pc /\ snap' = snap
    BY <1>2 DEF ConfirmFailure, Finish, payoutVars
  <2>4. balance' = [balance EXCEPT ![ReqUser[ref]] = balance[ReqUser[ref]] + Refund(ref)]
    BY <1>2, <2>2 DEF ConfirmFailure
  <2>5. \A q \in Reqs \ {ref} : ReqUser[q] # ReqUser[ref]
    BY <2>1 DEF Separate
  <2>6. pc[ref] \in {"committed", "initiated", "lost"}
    BY <2>1 DEF CoreInv, DebitInv
  <2>7. QED BY <2>1, <2>3, <2>4, <2>5, <2>6
<1>3. CASE ApplyCredit
  <2> DEFINE c == hook.event.ref
  <2>1. c \in Credits
    BY <1>3, Crediting
  <2>2. pc' = pc /\ snap' = snap
    BY <1>3 DEF ApplyCredit, Finish, payoutVars
  <2>3. balance' = [balance EXCEPT ![CreditUser[c]] = balance[CreditUser[c]] + CreditAmount[c]]
    BY <1>3 DEF ApplyCredit
  <2>4. QED BY <2>1, <2>2, <2>3 DEF Separate
<1>4. QED BY <1>1, <1>2, <1>3

\* Other steps load a wallet as it is, or keep what was loaded.
LEMMA FreshInductive ==
  ASSUME Separate, TypeOK, CoreInv, EntryInv, FreshInv, [Next]_vars
  PROVE  FreshInv'
<1> SUFFICES ASSUME balance' = balance, ~\E r \in Reqs : TransferInitiated(r)
             PROVE  FreshInv'
  BY FreshWrites, BalanceWriters
<1> USE RequestData DEF TypeOK, StoreTypeOK, PayoutTypeOK, FreshInv
<1>1. CASE \E r \in Reqs : Request(r)
  <2>1. PICK r \in Reqs : Request(r)
    BY <1>1
  <2>2. CASE LoadUser(r)
    BY <2>2 DEF LoadUser
  <2>3. CASE StartPay(r)
    BY <2>3 DEF StartPay
  <2>4. CASE StartInsert(r)
    BY <2>4 DEF StartInsert
  <2>5. CASE ~(LoadUser(r) \/ StartPay(r) \/ StartInsert(r))
    <3>1. /\ \A q \in Reqs \ {r} : pc'[q] = pc[q]
          /\ snap' = snap
          /\ pc'[r] \in {"ready", "insert", "lockBill", "lockUser", "resolve", "transfer"} =>
               pc[r] \in {"ready", "insert", "lockBill", "lockUser", "resolve", "transfer"}
      BY <2>1, <2>5
      DEF Request, PayoutStep, PayUnknownBill, UploadUnreadable, InsertBill, InsertAndPay,
          LockBill, RefusePayout, Reserve, AccountResolved, AccountInvalid, LookupFailed,
          TransferErred, PayoutRaised, Respond, Rollback
    <3>2. QED BY <3>1
  <2>6. QED BY <2>2, <2>3, <2>4, <2>5
<1>2. CASE Crash
  BY <1>2 DEF Crash, InProgress, PcStates, Answered
<1>3. CASE UNCHANGED <<pc, snap>>
  BY <1>3
<1>4. QED
  BY <1>1, <1>2, <1>3, WebhookEffect
  DEF Next, ProviderStep, Delivery, Deliver, Cancelling, CancelStep, CancelRead, CancelWrite, Sweeping,
      JobStep, SweepStart, SweepRead, SweepWrite, Spawning, SpawnStep, SpawnStart, Spawn, Day, Tick,
      payoutVars, vars

\* With one actor to a wallet no commit is stale, and the payout protocol is an
\* atomic wallet: the refinement, initial states and steps.
THEOREM PayoutsImplementWallet ==
  ASSUME Separate
  PROVE  Spec => ImplementsWallet
<1>1. Init => W!Init /\ FreshInv
  BY InitWallet DEF Init, PayoutInit, FreshInv
<1>2. TypeOK /\ CoreInv /\ EntryInv /\ FreshInv /\ [Next]_vars => FreshInv'
  BY FreshInductive
<1>3. TypeOK /\ CoreInv /\ EntryInv /\ FreshInv /\ [Next]_vars => [W!Next]_<<balance, txn>>
  <2>1. ASSUME FreshInv, NEW r \in Reqs PROVE ~StaleCommit(r)
    BY <2>1 DEF FreshInv, StaleCommit
  <2>2. QED BY <2>1, StepsAreWallet
<1>4. QED BY <1>1, <1>2, <1>3, CoreInvariant, EntryInvariant, PTL DEF Spec, ImplementsWallet, W!Spec

-----------------------------------------------------------------------------
(* Row locks, and the loop that waits for them. *)

\* A row is locked by an open payout of that row's bill or wallet, or by nobody:
\* no lock outlives the answer, the rollback or the crash that ends its payout.
HeldInv ==
  \A r \in Reqs :
    /\ \A b \in Bills : billLock[b] = r => ReqBill[r] = b /\ (pc[r] = "lockUser" \/ Open(r))
    /\ \A u \in Users : userLock[u] = r => ReqUser[r] = u /\ Open(r)

\* What a step of one request may do to the locks.
Takes(r) ==
  /\ \A q \in Reqs \ {r} : pc'[q] = pc[q]
  /\ \A b \in Bills : /\ billLock'[b] \in {billLock[b], None, r}
                      /\ billLock'[b] = r => ReqBill[r] = b /\ (pc'[r] = "lockUser" \/ Open(r)')
  /\ \A u \in Users : /\ userLock'[u] \in {userLock[u], None, r}
                      /\ userLock'[u] = r => ReqUser[r] = u /\ Open(r)'

LEMMA TakesKeeps ==
  ASSUME HeldInv, NEW r \in Reqs, Takes(r)
  PROVE  HeldInv'
<1> SUFFICES ASSUME NEW q \in Reqs, q # r
             PROVE  /\ \A b \in Bills : billLock'[b] = q =>
                         ReqBill[q] = b /\ (pc'[q] = "lockUser" \/ Open(q)')
                    /\ \A u \in Users : userLock'[u] = q => ReqUser[q] = u /\ Open(q)'
  BY DEF HeldInv, Takes
<1>1. pc'[q] = pc[q] /\ q # None
  BY RequestData DEF Takes
<1>2. \A b \in Bills : billLock'[b] = q => billLock[b] = q
  BY <1>1 DEF Takes
<1>3. \A u \in Users : userLock'[u] = q => userLock[u] = q
  BY <1>1 DEF Takes
<1>4. QED BY <1>1, <1>2, <1>3 DEF HeldInv, Open

\* A request takes locks for itself only, and gives all of them up when it ends.
LEMMA HeldByRequests ==
  ASSUME TypeOK, CoreInv, HeldInv, NEW r \in Reqs, Request(r)
  PROVE  HeldInv'
<1>1. SUFFICES Takes(r)
  BY TakesKeeps
<1>2. /\ pc \in [Reqs -> PcStates] /\ r # None
      /\ billLock \in [Bills -> Reqs \cup {None}] /\ userLock \in [Users -> Reqs \cup {None}]
      /\ ReqBill[r] \in Bills /\ ReqUser[r] \in Users
  BY RequestData DEF TypeOK, StoreTypeOK, PayoutTypeOK
<1>3. /\ \A b \in Bills : billLock[b] = r => ReqBill[r] = b /\ (pc[r] = "lockUser" \/ Open(r))
      /\ \A u \in Users : userLock[u] = r => ReqUser[r] = u /\ Open(r)
  BY DEF HeldInv
<1>4. CASE InsertAndPay(r) \/ LockBill(r)
  <2>1. /\ pc[r] \in {"insert", "lockBill"} /\ pc' = [pc EXCEPT ![r] = "lockUser"]
        /\ billLock' = [billLock EXCEPT ![ReqBill[r]] = r] /\ userLock' = userLock
    BY <1>4 DEF InsertAndPay, LockBill
  <2>2. QED BY <1>2, <1>3, <2>1 DEF Takes, Open
<1>5. CASE Reserve(r)
  <2>1. /\ pc[r] = "lockUser" /\ \E at \in {"resolve", "refund"} : pc' = [pc EXCEPT ![r] = at]
        /\ userLock' = [userLock EXCEPT ![ReqUser[r]] = r] /\ billLock' = billLock
    BY <1>5 DEF Reserve
  <2>2. QED BY <1>2, <1>3, <2>1 DEF Takes, Open
<1>6. CASE TransferInitiated(r) \/ \E answer : Rollback(r, answer)
  <2>1. /\ \E answer : pc' = [pc EXCEPT ![r] = answer]
        /\ billLock' = Released(billLock, r) /\ userLock' = Released(userLock, r)
    BY <1>6 DEF TransferInitiated, Rollback
  <2>2. QED BY <1>2, <2>1 DEF Takes, Released
<1>7. CASE LoadUser(r) \/ StartPay(r) \/ StartInsert(r) \/ InsertBill(r) \/ Respond(r)
  <2>1. /\ pc[r] \in {"new", "ready", "insert", "committed", "inserted"} /\ \E at : pc' = [pc EXCEPT ![r] = at]
        /\ billLock' = billLock /\ userLock' = userLock
    BY <1>7 DEF LoadUser, StartPay, StartInsert, InsertBill, Respond, storeVars, rowLocks
  <2>2. QED BY <1>2, <1>3, <2>1 DEF Takes, Open
<1>8. CASE AccountResolved(r) \/ AccountInvalid(r) \/ TransferErred(r)
  <2>1. /\ \E at \in {"transfer", "refund"} : pc' = [pc EXCEPT ![r] = at]
        /\ billLock' = billLock /\ userLock' = userLock
    BY <1>8 DEF AccountResolved, AccountInvalid, TransferErred, storeVars, rowLocks
  <2>2. QED BY <1>2, <1>3, <2>1 DEF Takes, Open
<1>9. QED
  BY <1>4, <1>5, <1>6, <1>7, <1>8
  DEF Request, PayoutStep, PayUnknownBill, UploadUnreadable, RefusePayout, LookupFailed, PayoutRaised

LEMMA HeldInductive ==
  ASSUME TypeOK, CoreInv, HeldInv, [Next]_vars
  PROVE  HeldInv'
<1>1. CASE \E r \in Reqs : Request(r)
  BY <1>1, HeldByRequests
<1>2. CASE Crash
  BY <1>2, RequestData DEF Crash, HeldInv
<1>3. CASE UNCHANGED <<pc, billLock, userLock>>
  BY <1>3 DEF HeldInv, Open
<1>4. QED
  BY <1>1, <1>2, <1>3, WebhookEffect
  DEF Next, ProviderStep, Delivery, Deliver, Cancelling, CancelStep, CancelRead, CancelWrite, Sweeping,
      JobStep, SweepStart, SweepRead, SweepWrite, Spawning, SpawnStep, SpawnStart, Spawn, Day, Tick,
      payoutVars, rowLocks, storeVars, vars

LEMMA LocksHeld == Spec => []HeldInv
<1>1. Init => HeldInv
  BY RequestData DEF Init, StoreInit, HeldInv
<1>2. TypeOK /\ CoreInv /\ HeldInv /\ [Next]_vars => HeldInv'
  BY HeldInductive
<1>3. QED BY <1>1, <1>2, CoreInvariant, PTL DEF Spec

\* What is left of "concurrent attempts serialize at the database" (payout.py:4):
\* the loop waits for itself only where two requests share a wallet, or a request
\* and an inbound transfer do.  Two payouts of one bill are of one wallet.
THEOREM SeparateNeverWait ==
  ASSUME Separate
  PROVE  Spec => []LoopNeverWaitsForItself
<1>1. TypeOK /\ CoreInv /\ EntryInv /\ HeldInv => LoopNeverWaitsForItself
  <2> SUFFICES ASSUME TypeOK, CoreInv, EntryInv, HeldInv
               PROVE  LoopNeverWaitsForItself
    OBVIOUS
  <2>1. /\ \A b \in Bills : billLock[b] \in Reqs \cup {None}
        /\ \A u \in Users : userLock[u] \in Reqs \cup {None}
    BY DEF TypeOK, StoreTypeOK
  <2>2. ASSUME NEW r \in Reqs, pc[r] = "lockBill", billLock[ReqBill[r]] # None PROVE FALSE
    <3>1. PICK q \in Reqs : billLock[ReqBill[r]] = q
      BY <2>1, <2>2, RequestData
    <3>2. ReqBill[q] = ReqBill[r] /\ (pc[q] = "lockUser" \/ Open(q))
      BY <3>1, RequestData DEF HeldInv
    <3>3. ReqUser[q] = ReqUser[r]
      BY <2>2, <3>2 DEF EntryInv, OwnerInv
    <3>4. q = r
      BY <3>3 DEF Separate
    <3>5. QED BY <2>2, <3>2, <3>4 DEF Open
  <2>3. ASSUME NEW r \in Reqs, pc[r] \in {"insert", "lockUser"}, userLock[ReqUser[r]] # None PROVE FALSE
    <3>1. PICK q \in Reqs : userLock[ReqUser[r]] = q
      BY <2>1, <2>3, RequestData
    <3>2. ReqUser[q] = ReqUser[r] /\ Open(q)
      BY <3>1, RequestData DEF HeldInv
    <3>3. QED BY <2>3, <3>2 DEF Separate, Open
  <2>4. ASSUME hook.phase = "apply", hook.event.type = "charge.success",
               userLock[CreditUser[hook.event.ref]] # None
        PROVE  FALSE
    <3>1. hook.event.ref \in Credits /\ CreditUser[hook.event.ref] \in Users
      BY <2>4, HookType, EventTypes, DataAssumption DEF DataAssumption
    <3>2. PICK q \in Reqs : userLock[CreditUser[hook.event.ref]] = q
      BY <2>1, <2>4, <3>1
    <3>3. ReqUser[q] = CreditUser[hook.event.ref]
      BY <3>1, <3>2 DEF HeldInv
    <3>4. QED BY <3>1, <3>3 DEF Separate
  <2>5. QED BY <2>2, <2>3, <2>4 DEF LoopNeverWaitsForItself
<1>2. QED BY <1>1, CoreInvariant, EntryInvariant, LocksHeld, PTL

-----------------------------------------------------------------------------
(* The bills that wait for a debit. *)

\* A step that changes a bill outside of webhooks and payouts cancels it, hands
\* it back as pending, or inserts it.
LEMMA OtherBillWriters ==
  ASSUME TypeOK, CoreInv, [Next]_vars, ~Webhook,
         \A r \in Reqs : ~(Request(r) /\ TransferInitiated(r))
  PROVE  /\ UNCHANGED txn
         /\ \A b \in Bills : \/ bill'[b].status = bill[b].status
                             \/ bill'[b].status \in {"cancelled", "pending"}
                             \/ bill'[b].status = "scheduled" /\ ~Present(b)
<1> USE RequestData DEF TypeOK, StoreTypeOK
<1>1. CASE \E r \in Reqs : Request(r)
  <2>1. PICK r \in Reqs : Request(r)
    BY <1>1
  <2>2. CASE InsertBill(r)
    <3>1. ~Present(ReqBill[r])
      BY <2>2, CoreIsOwn DEF InsertBill, Own, Stored
    <3>2. bill' = [bill EXCEPT ![ReqBill[r]].status = StatusFor(Verdict(r))] /\ UNCHANGED txn
      BY <2>2 DEF InsertBill
    <3>3. StatusFor(Verdict(r)) \in {"scheduled", "pending"}
      BY DEF StatusFor
    <3>4. QED BY <3>1, <3>2, <3>3 DEF BillRow
  <2>3. CASE ~InsertBill(r)
    <3>1. UNCHANGED <<bill, txn>>
      BY <2>1, <2>3 DEF Request, PayoutStep, LoadUser, PayUnknownBill, StartPay, UploadUnreadable, StartInsert,
         InsertAndPay, LockBill, RefusePayout, Reserve, AccountResolved, AccountInvalid,
         LookupFailed, TransferErred, PayoutRaised, Respond, Rollback, tables, storeVars
    <3>2. QED BY <3>1
  <2>4. QED BY <2>2, <2>3
<1>2. CASE (\E c \in Cancels : Cancelling(c)) \/ Sweeping
  <2>1. /\ UNCHANGED txn
        /\ \/ bill' = bill
           \/ \E d \in Bills, s \in {"cancelled", "pending"} : bill' = [bill EXCEPT ![d].status = s]
    BY <1>2, CancelAssumption
    DEF CancelAssumption, Cancelling, CancelStep, CancelRead, CancelWrite, Sweeping, JobStep, SweepStart,
        SweepRead, SweepWrite, storeVars
  <2>2. QED BY <2>1 DEF BillRow
<1>3. CASE (\E r \in Reqs : ProviderStep(r)) \/ (\E e \in Events : Delivery(e)) \/ Day \/ Crash
           \/ UNCHANGED vars
  BY <1>3 DEF ProviderStep, Delivery, Deliver, Day, Tick, Crash, vars, storeVars, tables
<1>4. CASE Spawning
  BY <1>4, SpawnEffect, RecurrenceAssumption DEF CopyRow, coreVars, Present
<1>5. QED BY <1>1, <1>2, <1>3, <1>4 DEF Next

\* What a webhook read of its bill stays so, but for threads.
LEMMA HookRowInductive ==
  ASSUME TypeOK, CoreInv, HookRowInv, [Next]_vars
  PROVE  HookRowInv'
<1> USE RequestData DEF TypeOK, StoreTypeOK
<1>1. CASE Webhook
  BY <1>1, WebhookEffect DEF HookRowInv, NoHook
<1>2. CASE Crash
  BY <1>2 DEF Crash, HookRowInv, NoHook
<1>3. CASE \E e \in Events : Delivery(e)
  <2>1. bill' = bill /\ (hook'.event.ref \in Reqs => hook'.bill = bill[ReqBill[hook'.event.ref]])
    BY <1>3 DEF Delivery, Deliver, RefBill, tables
  <2>2. QED BY <2>1 DEF HookRowInv
<1>4. CASE hook' = hook /\ ~Webhook
  <2>1. CASE \E r \in Reqs : Request(r) /\ TransferInitiated(r)
    <3>1. loop = None
      BY <2>1 DEF TransferInitiated
    <3>2. hook.phase # "apply"
      BY <3>1, CoreIsOwn, ActorAssumption DEF ActorAssumption
    <3>3. QED BY <1>4, <3>2 DEF HookRowInv
  <2>2. CASE ~\E r \in Reqs : Request(r) /\ TransferInitiated(r)
    <3> SUFFICES ASSUME hook.phase = "apply", hook.event.ref \in Reqs,
                        txn'[hook.event.ref] # "absent"
                 PROVE  bill'[ReqBill[hook.event.ref]].status \in {hook.bill.status, "cancelled", "pending"}
      BY <1>4 DEF HookRowInv
    <3>1. txn[hook.event.ref] # "absent"
      BY <1>4, <2>2, OtherBillWriters
    <3>2. Present(ReqBill[hook.event.ref])
      BY <3>1, CoreIsOwn DEF Own
    <3>3. bill[ReqBill[hook.event.ref]].status \in {hook.bill.status, "cancelled", "pending"}
      BY <3>1 DEF HookRowInv
    <3>4. QED BY <1>4, <2>2, <3>2, <3>3, OtherBillWriters
  <2>3. QED BY <2>1, <2>2
<1>5. QED
  BY <1>1, <1>2, <1>3, <1>4
  DEF Next, Request, AccountResolved, ProviderStep, Cancelling, Sweeping, Spawning, Day, vars

\* After a webhook its bill is not processing, whatever threads did meanwhile.
LEMMA WebhookEndsProcessing ==
  ASSUME TypeOK, CoreInv, HookRowInv, ConfirmSuccess \/ ConfirmFailure
  PROVE  bill'[ReqBill[hook.event.ref]].status # "processing"
<1> USE RequestData DEF TypeOK, StoreTypeOK
<1>1. PICK r \in Reqs : r = hook.event.ref
  BY Reconciling
<1>2. hook.phase = "apply" /\ hook.bill \in BillRow /\ txn[r] # "absent"
  BY <1>1, Reconciling
<1>3. bill[ReqBill[r]].status \in {hook.bill.status, "cancelled", "pending"}
  BY <1>1, <1>2 DEF HookRowInv
<1>4. PICK row \in {[hook.bill EXCEPT !.status = "paid"], AfterFailure(hook.bill)} :
        bill'[ReqBill[r]] = Flushed(bill[ReqBill[r]], hook.bill, row)
  BY <1>1 DEF ConfirmSuccess, ConfirmFailure
<1>5. row.status \in {"paid", "failed", "scheduled"}
  BY <1>2, <1>4 DEF AfterFailure, BillRow
<1>6. QED BY <1>1, <1>3, <1>4, <1>5 DEF Flushed

\* A bill that shows `processing` has a debit in flight, with the job or
\* without it: nobody is sent away for a payment that is over.
THEOREM ProcessingMeansInFlight == Spec => []ProcessingHasDebit
<1>1. Init => HookRowInv /\ ProcessingHasDebit
  <2>1. ASSUME Init, NEW b \in Bills PROVE bill[b].status # "processing"
    <3>1. bill[b].status = InitStatus[b]
      BY <2>1 DEF Init, StoreInit
    <3>2. InitStatus[b] \in {"absent", "pending", "scheduled"}
      BY DataAssumption DEF DataAssumption
    <3>3. QED BY <3>1, <3>2
  <2>2. QED BY <2>1 DEF ProcessingHasDebit, Init, WebhookInit, NoHook, HookRowInv
<1>2. TypeOK /\ CoreInv /\ HookRowInv /\ ProcessingHasDebit /\ [Next]_vars => ProcessingHasDebit'
  <2> SUFFICES ASSUME TypeOK, CoreInv, HookRowInv, ProcessingHasDebit, [Next]_vars,
                      NEW b \in Bills, bill'[b].status = "processing"
               PROVE  \E r \in Reqs : ReqBill[r] = b /\ txn'[r] = "processing"
    BY DEF ProcessingHasDebit
  <2> USE RequestData DEF TypeOK, StoreTypeOK
  <2>1. CASE \E r \in Reqs : Request(r) /\ TransferInitiated(r)
    <3>1. PICK r \in Reqs : TransferInitiated(r)
      BY <2>1
    <3>2. draft[r].debit = "processing"
      <4>1. Own(r)
        BY CoreIsOwn
      <4>2. QED BY <3>1, <4>1 DEF TransferInitiated, Own, Reserved
    <3>3. txn' = [txn EXCEPT ![r] = "processing"] /\ \A d \in Bills \ {ReqBill[r]} : bill'[d] = bill[d]
      BY <3>1, <3>2 DEF TransferInitiated
    <3>4. QED BY <3>3 DEF ProcessingHasDebit
  <2>2. CASE ConfirmSuccess \/ ConfirmFailure
    <3>1. b # ReqBill[hook.event.ref]
      BY <2>2, WebhookEndsProcessing
    <3>2. bill'[b] = bill[b] /\ \A r \in Reqs : ReqBill[r] = b => txn'[r] = txn[r]
      BY <2>2, <3>1 DEF ConfirmSuccess, ConfirmFailure
    <3>3. QED BY <3>2 DEF ProcessingHasDebit
  <2>3. CASE ApplyCredit \/ (txn' = txn /\ bill' = bill)
    <3>1. bill' = bill /\ \A r \in Reqs : txn'[r] = txn[r]
      BY <2>3, Crediting, ActorAssumption DEF ActorAssumption, ApplyCredit
    <3>2. QED BY <3>1 DEF ProcessingHasDebit
  <2>4. CASE Webhook
    BY <2>2, <2>3, <2>4, WebhookEffect
  <2>5. CASE ~Webhook /\ ~\E r \in Reqs : Request(r) /\ TransferInitiated(r)
    <3>1. UNCHANGED txn /\ bill[b].status = "processing"
      BY <2>5, OtherBillWriters
    <3>2. QED BY <3>1 DEF ProcessingHasDebit
  <2>6. QED BY <2>1, <2>4, <2>5
<1>3. TypeOK /\ CoreInv /\ HookRowInv /\ [Next]_vars => HookRowInv'
  BY HookRowInductive
<1>4. QED BY <1>1, <1>2, <1>3, CoreInvariant, PTL DEF Spec

-----------------------------------------------------------------------------
\* A stored occurrence has moved its original's date; what the job is about to
\* copy is stored and its date has come.
SpawnInv ==
  /\ \A c \in Copies : Present(c) => Present(CopyOf[c]) /\ nextDay[CopyOf[c]] = DueDay[c]
  /\ \A b \in spawning : Present(b) /\ nextDay[b] \in Int /\ nextDay[b] < now

\* At first no occurrence is stored.
LEMMA InitSpawn == Init => SpawnInv /\ OccurrenceOnce
<1> SUFFICES ASSUME Init PROVE SpawnInv /\ OccurrenceOnce
  OBVIOUS
<1>1. \A c \in Copies : ~Present(c)
  BY RecurrenceAssumption DEF RecurrenceAssumption, Init, StoreInit, Present
<1>2. spawning = {}
  BY DEF Init, RecurrenceInit
<1>3. QED BY <1>1, <1>2 DEF SpawnInv, OccurrenceOnce, Present

\* A step of anyone else stores no occurrence, and takes no bill away.
LEMMA OthersSpawnNothing ==
  ASSUME TypeOK, CoreInv, [Next]_vars, ~Spawning
  PROVE  /\ nextDay' = nextDay /\ spawning' \subseteq spawning /\ now' >= now
         /\ \A b \in Bills : Present(b) => Present(b)'
         /\ \A c \in Copies : Present(c)' => Present(c)
<1> USE DEF TypeOK, StoreTypeOK
<1>1. Copies \subseteq Bills /\ \A r \in Reqs : Kind[r] # "pay" => ReqBill[r] \notin Copies
  BY RecurrenceAssumption, CopyAssumption DEF RecurrenceAssumption, CopyAssumption
<1>2. ASSUME SameRows
      PROVE  /\ \A b \in Bills : Present(b) => Present(b)'
             /\ \A c \in Copies : Present(c)' => Present(c)
  BY <1>1, <1>2 DEF SameRows
<1>3. CASE \E r \in Reqs : Request(r)
  <2>1. PICK r \in Reqs : Request(r)
    BY <1>3
  <2>2. OthersKeep(r)
    BY <2>1, RequestCore
  <2>3. nextDay' = nextDay /\ spawning' = spawning
    BY <2>1 DEF Request, recurVars
  <2>4. now' = now
    BY <2>1 DEF Request, PayoutStep, LoadUser, PayUnknownBill, StartPay, UploadUnreadable, StartInsert,
       InsertBill, InsertAndPay, LockBill, RefusePayout, Reserve, AccountResolved, AccountInvalid,
       LookupFailed, TransferInitiated, TransferErred, PayoutRaised, Respond, Rollback, storeVars
  <2>5. QED BY <1>1, <2>2, <2>3, <2>4 DEF OthersKeep
<1>4. CASE Webhook
  <2>1. SameRows
    BY <1>4, WebhookRows
  <2>2. UNCHANGED <<nextDay, spawning, now>>
    BY <1>4 DEF Webhook, recurVars, WebhookStep, RejectReplay, IgnoreTransfer, ConfirmSuccess,
       ConfirmFailure, OrphanCredit, AlreadyCredited, ApplyCredit, Finish
  <2>3. QED BY <1>2, <2>1, <2>2
<1>5. CASE (\E c \in Cancels : Cancelling(c)) \/ Sweeping
  <2>1. SameRows
    BY <1>5, ThreadCore
  <2>2. UNCHANGED <<nextDay, spawning, now>>
    BY <1>5 DEF Cancelling, CancelStep, CancelRead, CancelWrite, Sweeping, JobStep, SweepStart, SweepRead,
       SweepWrite, recurVars, storeVars
  <2>3. QED BY <1>2, <2>1, <2>2
<1>6. CASE (\E r \in Reqs : ProviderStep(r)) \/ (\E e \in Events : Delivery(e)) \/ Day \/ Crash
           \/ UNCHANGED vars
  <2>1. bill' = bill /\ nextDay' = nextDay /\ spawning' \subseteq spawning
    BY <1>6 DEF ProviderStep, Delivery, Deliver, Day, Tick, Crash, vars, storeVars, recurVars, tables
  <2>2. now' = now \/ now' = now + 1
    BY <1>6 DEF ProviderStep, Delivery, Deliver, Day, Tick, Crash, vars, storeVars
  <2>3. QED BY <1>2, <2>1, <2>2 DEF SameRows, Present
<1>7. QED BY <1>3, <1>4, <1>5, <1>6 DEF Next

\* The job copies a bill whose date has come: if its occurrence is stored
\* already, that occurrence has passed.
LEMMA SpawnStepInv ==
  ASSUME TypeOK, CoreInv, SpawnInv, OccurrenceOnce, Spawning
  PROVE  SpawnInv' /\ OccurrenceOnce'
<1> USE DEF TypeOK, StoreTypeOK
<1>1. now' = now /\ now \in Int
  BY SpawnEffect
<1>2. CASE SpawnStart
  <2>1. bill' = bill /\ nextDay' = nextDay /\ spawning' = {b \in Recurring : DateCame(b)}
    BY <1>2 DEF SpawnStart, storeVars
  <2>2. \A b \in spawning' : Present(b) /\ nextDay[b] \in Int /\ nextDay[b] < now
    BY <2>1 DEF DateCame, Present, RecurrenceTypeOK
  <2>3. QED BY <1>1, <2>1, <2>2 DEF SpawnInv, OccurrenceOnce, Present
<1>3. CASE \E b \in Recurring : Spawn(b)
  <2>1. PICK b \in Recurring, c \in Copies :
          /\ b \in spawning /\ spawning' = spawning \ {b}
          /\ CopyOf[c] = b /\ ~Present(c)
          /\ bill' = [bill EXCEPT ![c] = CopyRow]
          /\ nextDay' = [nextDay EXCEPT ![b] = DueDay[c], ![c] = DueDay[c]]
    BY <1>3 DEF Spawn, Dated, Present
  <2>2. /\ b \in Bills /\ c \in Bills /\ c \in Recurring /\ b # c
        /\ \A d \in Copies : d \in Recurring /\ d \in Bills /\ CopyOf[d] \in Bills /\ CopyOf[d] \in Recurring
    <3>1. Present(b)
      BY <2>1 DEF SpawnInv
    <3>2. QED BY <2>1, <3>1, RecurrenceAssumption DEF RecurrenceAssumption
  <2>3. Present(c)' /\ \A d \in Bills \ {c} : Present(d)' <=> Present(d)
    BY <2>1, <2>2 DEF Present, CopyRow
  <2>4. nextDay'[b] = DueDay[c] /\ \A d \in Recurring \ {b, c} : nextDay'[d] = nextDay[d]
    BY <2>1, <2>2 DEF RecurrenceTypeOK
  <2>5. \A d \in Copies : CopyOf[d] = b => DueDay[d] = DueDay[c]
    BY <2>1, RecurrenceAssumption DEF RecurrenceAssumption
  <2>6. nextDay[b] < now
    BY <2>1 DEF SpawnInv
  <2>7. ASSUME NEW d \in Copies, Present(d)'
        PROVE  Present(CopyOf[d])' /\ nextDay'[CopyOf[d]] = DueDay[d]
    <3>1. CASE d = c
      BY <2>1, <2>2, <2>3, <2>4, <3>1 DEF SpawnInv
    <3>2. CASE d # c
      <4>1. Present(d) /\ Present(CopyOf[d]) /\ nextDay[CopyOf[d]] = DueDay[d]
        BY <2>2, <2>3, <2>7, <3>2 DEF SpawnInv
      <4>2. CopyOf[d] # c
        BY <2>1, <4>1
      <4>3. QED BY <2>2, <2>3, <2>4, <2>5, <4>1, <4>2
    <3>3. QED BY <3>1, <3>2
  <2>8. ASSUME NEW d \in spawning'
        PROVE  Present(d)' /\ nextDay'[d] \in Int /\ nextDay'[d] < now'
    <3>1. d \in spawning /\ d # b /\ d \in Recurring /\ d \in Bills
      BY <2>1, <2>8, RecurrenceAssumption DEF RecurrenceTypeOK, RecurrenceAssumption
    <3>2. Present(d) /\ nextDay[d] \in Int /\ nextDay[d] < now
      BY <3>1 DEF SpawnInv
    <3>3. d # c
      BY <2>1, <3>2
    <3>4. QED BY <1>1, <2>3, <2>4, <3>1, <3>2, <3>3
  <2>9. ASSUME NEW d \in Copies, NEW e \in Copies, Present(d)', Present(e)',
               CopyOf[d] = CopyOf[e], DueDay[d] >= now
        PROVE  d = e
    <3>1. CASE CopyOf[d] = b
      <4>1. \A f \in Copies : Present(f) /\ CopyOf[f] = b => DueDay[f] = nextDay[b]
        BY DEF SpawnInv
      <4>2. DueDay[d] = DueDay[c] /\ DueDay[e] = DueDay[c] /\ DueDay[c] \in Int
        BY <2>2, <2>5, <2>9, <3>1, DataAssumption DEF DataAssumption
      <4>3. nextDay[b] \in Int
        BY <2>1 DEF SpawnInv
      <4>4. ~Present(d) /\ ~Present(e)
        <5>1. DueDay[c] >= now /\ ~(DueDay[c] = nextDay[b])
          BY <1>1, <2>6, <2>9, <4>2, <4>3
        <5>2. CopyOf[e] = b
          BY <2>9, <3>1
        <5>3. QED BY <3>1, <4>1, <4>2, <5>1, <5>2
      <4>5. QED BY <2>2, <2>3, <2>9, <4>4
    <3>2. CASE CopyOf[d] # b
      <4>1. Present(d) /\ Present(e)
        BY <2>1, <2>2, <2>3, <2>9, <3>2
      <4>2. QED BY <2>9, <4>1 DEF OccurrenceOnce, Present
    <3>3. QED BY <3>1, <3>2
  <2>10. OccurrenceOnce'
    BY <1>1, <2>9 DEF OccurrenceOnce, Present
  <2>11. SpawnInv'
    BY <2>7, <2>8 DEF SpawnInv
  <2>12. QED BY <2>10, <2>11
<1>4. QED BY <1>2, <1>3 DEF Spawning, SpawnStep

\* Two stored occurrences of one bill with the same date have passed.
THEOREM OccurrencesUnique == Spec => []OccurrenceOnce
<1>1. TypeOK /\ CoreInv /\ SpawnInv /\ OccurrenceOnce /\ [Next]_vars
        => (SpawnInv /\ OccurrenceOnce)'
  <2> SUFFICES ASSUME TypeOK, CoreInv, SpawnInv, OccurrenceOnce, [Next]_vars, ~Spawning
               PROVE  SpawnInv' /\ OccurrenceOnce'
    BY SpawnStepInv
  <2>1. Copies \subseteq Bills /\ \A c \in Copies : CopyOf[c] \in Bills /\ DueDay[c] \in Int
    BY RecurrenceAssumption, DataAssumption DEF RecurrenceAssumption, DataAssumption
  <2>2. now \in Int /\ now' \in Int /\ spawning \subseteq Bills
    BY TypeInductive, RecurrenceAssumption DEF TypeOK, StoreTypeOK, RecurrenceTypeOK, RecurrenceAssumption
  <2>3. SpawnInv'
    BY <2>1, <2>2, OthersSpawnNothing DEF SpawnInv
  <2>4. OccurrenceOnce'
    BY <2>1, <2>2, OthersSpawnNothing DEF OccurrenceOnce, Present
  <2>5. QED BY <2>3, <2>4
<1>2. QED BY InitSpawn, <1>1, CoreInvariant, PTL DEF Spec
=============================================================================
