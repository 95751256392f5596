---------------------------- MODULE ChargeProofs ----------------------------
(***************************************************************************)
(* A bill is never charged twice, for the program as it is deployed: with  *)
(* the scheduler's job paused (MaxSweeps = 0).  The proof is that BillInv  *)
(* is inductive relative to TypeOK and CoreInv.                            *)
(***************************************************************************)
EXTENDS SafetyProofs

\* Before anything happened there is no debit.
LEMMA InitBill == Init => BillInv
<1> SUFFICES ASSUME Init PROVE BillInv
  OBVIOUS
<1>1. \A r \in Reqs : txn[r] = "absent" /\ pc[r] \in {"new", "never"}
  BY InitCore DEF CoreInv, DebitInv, Init, PayoutInit
<1>2. JobAtRest /\ hook = NoHook
  BY DEF Init, JobInit, WebhookInit, JobAtRest
<1>3. DebitStates /\ ChargeInv /\ GuardInv /\ OneLiveDebit
  BY <1>1, <1>2 DEF DebitStates, ChargeInv, Open, GuardInv, Guarded, NoHook, OneLiveDebit, Live
<1>4. QED BY <1>2, <1>3 DEF BillInv

\* The guard of a bill's status says that a payable bill has no live debit.
LEMMA PayableUncharged ==
  ASSUME DebitStates, NEW b \in Bills, NEW status, Guarded(status, b), Payable(status)
  PROVE  Uncharged(b)
BY DEF Guarded, Payable, Uncharged, Live

\* A bill that is not in the table yet has none either.
LEMMA AbsentUncharged ==
  ASSUME CoreInv, NEW b \in Bills, ~Present(b)
  PROVE  Uncharged(b) /\ \A status : Guarded(status, b)
<1>1. \A q \in Reqs : ReqBill[q] = b => txn[q] = "absent"
  BY CoreIsOwn DEF Own
<1>2. QED BY <1>1 DEF Uncharged, Live, Guarded

\* What the committed debits look like after a step that commits none.
NoNewDebit ==
  \A q \in Reqs : /\ txn'[q] # txn[q] => txn[q] = "processing" /\ txn'[q] \in {"success", "failed"}

\* Without a new debit, requests that are about to charge stay entitled to.
LEMMA ChargeStep ==
  ASSUME BillInv, NoNewDebit,
         \A r \in Reqs :
           \/ pc'[r] \in {"lockBill", "lockUser"} /\ Payable(snap'[r].bill.status)
           \/ Open(r)'
           => Uncharged(ReqBill[r])
  PROVE  DebitStates' /\ ChargeInv' /\ OneLiveDebit'
<1>1. \A q \in Reqs : Live(q)' => Live(q)
  BY DEF NoNewDebit, Live
<1>2. DebitStates' /\ OneLiveDebit'
  BY <1>1 DEF BillInv, NoNewDebit, DebitStates, OneLiveDebit
<1>3. ChargeInv'
  BY <1>1 DEF ChargeInv, Uncharged, Open
<1>4. QED BY <1>2, <1>3

\* A step that moves no debit and only cancels bills keeps the guards.
LEMMA GuardStep ==
  ASSUME TypeOK, BillInv, UNCHANGED txn,
         \A b \in Bills : bill'[b].status = bill[b].status \/ bill'[b].status = "cancelled"
                          \/ Uncharged(b),
         \/ hook' = hook \/ hook'.phase # "apply"
         \/ hook'.event.ref \in Reqs => hook'.bill = bill[ReqBill[hook'.event.ref]]
  PROVE  GuardInv'
<1>1. ASSUME NEW b \in Bills PROVE Guarded(bill[b].status, b)'
  BY <1>1 DEF BillInv, GuardInv, Guarded, Uncharged, Live
<1>2. ASSUME hook'.phase = "apply", hook'.event.ref \in Reqs
      PROVE  Guarded(hook.bill.status, ReqBill[hook.event.ref])'
  <2>1. CASE hook' = hook
    BY <1>2, <2>1 DEF BillInv, GuardInv, Guarded
  <2>2. CASE hook'.bill = bill[ReqBill[hook'.event.ref]]
    <3> DEFINE b == ReqBill[hook'.event.ref]
    <3>1. b \in Bills /\ hook'.bill = bill[b]
      BY <1>2, <2>2, RequestData
    <3>2. Guarded(bill[b].status, b)
      BY <3>1 DEF BillInv, GuardInv
    <3>3. QED BY <3>1, <3>2 DEF Guarded
  <2>3. QED BY <1>2, <2>1, <2>2
<1>3. QED BY <1>1, <1>2 DEF GuardInv

\* The commit of a payout: the bill had no live debit, and gets one.
LEMMA CommitBill ==
  ASSUME TypeOK, CoreInv, BillInv, NEW r \in Reqs, Request(r), TransferInitiated(r)
  PROVE  BillInv'
<1> USE RequestData DEF TypeOK, StoreTypeOK, PayoutTypeOK
<1>1. Own(r) /\ Open(r)
  BY CoreIsOwn DEF TransferInitiated, Open
<1>2. Uncharged(ReqBill[r])
  BY <1>1 DEF BillInv, ChargeInv
<1>3. /\ txn' = [txn EXCEPT ![r] = "processing"] /\ pc' = [pc EXCEPT ![r] = "committed"]
      /\ snap' = snap /\ loop = None /\ UNCHANGED <<hook, job>>
  <2>1. draft[r].debit = "processing"
    BY <1>1 DEF TransferInitiated, Own, Reserved
  <2>2. QED BY <2>1 DEF TransferInitiated, Request, jobVars
<1>4. bill' = [bill EXCEPT ![ReqBill[r]] = Flushed(bill[ReqBill[r]], snap[r].bill, draft[r].bill)]
  BY DEF TransferInitiated
<1>5. Flushed(bill[ReqBill[r]], snap[r].bill, draft[r].bill).status = "processing"
  BY <1>1 DEF TransferInitiated, Own, Flushed, Reserved, MayReserve, BillRow
<1>6. bill'[ReqBill[r]].status = "processing" /\ \A b \in Bills \ {ReqBill[r]} : bill'[b] = bill[b]
  BY <1>4, <1>5
<1>7. DebitStates' /\ OneLiveDebit'
  BY <1>2, <1>3 DEF BillInv, DebitStates, OneLiveDebit, Uncharged, Live
<1>8. ChargeInv'
  <2> SUFFICES ASSUME NEW q \in Reqs, q # r,
                      \/ pc[q] \in {"lockBill", "lockUser"} /\ Payable(snap[q].bill.status)
                      \/ Open(q)
               PROVE  Uncharged(ReqBill[q])'
    BY <1>3 DEF ChargeInv, Open
  <2>1. Uncharged(ReqBill[q])
    BY DEF BillInv, ChargeInv
  <2>2. Own(q)
    BY CoreIsOwn
  <2>3. ReqBill[q] # ReqBill[r]
    BY <1>1, <1>3, <2>2 DEF Own, Holds, OnLoop
  <2>4. QED BY <1>3, <2>1, <2>3 DEF Uncharged, Live
<1>9. GuardInv'
  <2>1. \A b \in Bills : Guarded(bill[b].status, b)'
    BY <1>2, <1>3, <1>6 DEF BillInv, GuardInv, Guarded, Uncharged, Live
  <2>2. hook'.phase # "apply"
    BY <1>3, CoreIsOwn, ActorAssumption DEF ActorAssumption
  <2>3. QED BY <2>1, <2>2 DEF GuardInv
<1>10. QED BY <1>3, <1>7, <1>8, <1>9 DEF BillInv, JobAtRest

\* Every other step of a request: it starts on a bill that its guard declares
\* free, goes on with one it was entitled to, or ends.
LEMMA RequestBill ==
  ASSUME TypeOK, CoreInv, BillInv, NEW r \in Reqs, Request(r), ~TransferInitiated(r)
  PROVE  BillInv'
<1> USE RequestData DEF TypeOK, StoreTypeOK, PayoutTypeOK
<1>1. (PayoutStep(r) \/ AccountResolved(r)) /\ UNCHANGED <<hook, job>>
  BY DEF Request, jobVars
<1>2. UNCHANGED txn /\ (bill' = bill \/ InsertBill(r))
  BY <1>1 DEF PayoutStep, LoadUser, PayUnknownBill, StartPay, UploadUnreadable, StartInsert,
     InsertBill, InsertAndPay, LockBill, RefusePayout, Reserve, AccountResolved, AccountInvalid,
     LookupFailed, TransferErred, PayoutRaised, Respond, Rollback, tables, storeVars
<1>3. Own(r)
  BY CoreIsOwn
<1>4. ASSUME NEW q \in Reqs,
             \/ pc'[q] \in {"lockBill", "lockUser"} /\ Payable(snap'[q].bill.status)
             \/ Open(q)'
      PROVE  Uncharged(ReqBill[q])
  <2>1. CASE q # r
    <3>1. pc'[q] = pc[q] /\ snap'[q] = snap[q]
      BY <1>1, <2>1 DEF PayoutStep, LoadUser, PayUnknownBill, StartPay, UploadUnreadable, StartInsert,
         InsertBill, InsertAndPay, LockBill, RefusePayout, Reserve, AccountResolved, AccountInvalid,
         LookupFailed, TransferInitiated, TransferErred, PayoutRaised, Respond, Rollback
    <3>2. QED BY <1>4, <3>1 DEF BillInv, ChargeInv, Open
  <2>2. CASE q = r /\ StartPay(r)
    <3>1. pc'[r] = "lockBill" /\ snap'[r].bill = bill[ReqBill[r]]
      BY <2>2 DEF StartPay
    <3>2. Payable(bill[ReqBill[r]].status)
      BY <1>4, <2>2, <3>1 DEF Open
    <3>3. QED BY <2>2, <3>2, PayableUncharged DEF BillInv, GuardInv
  <2>3. CASE q = r /\ InsertAndPay(r)
    BY <1>3, <2>3, AbsentUncharged DEF InsertAndPay, Own, Stored
  <2>4. CASE q = r /\ LockBill(r)
    BY <1>4, <2>4 DEF LockBill, BillInv, ChargeInv, Open
  <2>5. CASE q = r /\ Reserve(r)
    BY <2>5 DEF Reserve, MayReserve, Payable, BillInv, ChargeInv
  <2>6. CASE q = r /\ (AccountResolved(r) \/ AccountInvalid(r) \/ TransferErred(r))
    BY <2>6 DEF AccountResolved, AccountInvalid, TransferErred, Open, BillInv, ChargeInv
  <2>7. CASE q = r /\ (LoadUser(r) \/ StartInsert(r) \/ InsertBill(r) \/ Respond(r))
    BY <1>4, <2>7 DEF LoadUser, StartInsert, InsertBill, Respond, Open
  <2>8. CASE q = r /\ \E answer \in {"rejected", "refused"} : Rollback(r, answer)
    BY <1>4, <2>8 DEF Rollback, Open
  <2>9. QED
    BY <1>1, <2>1, <2>2, <2>3, <2>4, <2>5, <2>6, <2>7, <2>8
    DEF PayoutStep, PayUnknownBill, UploadUnreadable, RefusePayout, LookupFailed, PayoutRaised
<1>5. DebitStates' /\ ChargeInv' /\ OneLiveDebit'
  BY <1>2, <1>4, ChargeStep DEF NoNewDebit
<1>6. \A b \in Bills : bill'[b].status = bill[b].status \/ Uncharged(b)
  <2>1. CASE InsertBill(r)
    <3>1. Uncharged(ReqBill[r])
      BY <1>3, <2>1, AbsentUncharged DEF InsertBill, Own, Stored
    <3>2. \A b \in Bills \ {ReqBill[r]} : bill'[b] = bill[b]
      BY <2>1 DEF InsertBill
    <3>3. QED BY <3>1, <3>2
  <2>2. QED BY <1>2, <2>1
<1>7. GuardInv'
  BY <1>1, <1>2, <1>6, GuardStep
<1>8. QED BY <1>1, <1>5, <1>7 DEF BillInv, JobAtRest

\* A webhook settles the only live debit of its bill, and the status it writes
\* is the one that goes with it.
LEMMA WebhookBill ==
  ASSUME TypeOK, CoreInv, BillInv, Webhook
  PROVE  BillInv'
<1> USE RequestData DEF TypeOK, StoreTypeOK
<1>1. UNCHANGED <<pc, snap, job>> /\ hook' = NoHook
  BY WebhookEffect
<1>2. ASSUME NoNewDebit, \A b \in Bills : Guarded(bill[b].status, b)' PROVE BillInv'
  <2>1. DebitStates' /\ ChargeInv' /\ OneLiveDebit'
    <3>1. \A r \in Reqs :
            \/ pc'[r] \in {"lockBill", "lockUser"} /\ Payable(snap'[r].bill.status)
           \/ Open(r)'
            => Uncharged(ReqBill[r])
      BY <1>1 DEF BillInv, ChargeInv, Open
    <3>2. QED BY <1>2, <3>1, ChargeStep
  <2>2. GuardInv'
    BY <1>1, <1>2 DEF GuardInv, NoHook
  <2>3. QED BY <1>1, <2>1, <2>2 DEF BillInv, JobAtRest
<1>3. CASE (txn' = txn /\ bill' = bill) \/ ApplyCredit
  <2>1. \A q \in Reqs : txn'[q] = txn[q]
    BY <1>3, Crediting, ActorAssumption DEF ActorAssumption
  <2>2. bill' = bill
    BY <1>3 DEF ApplyCredit
  <2>3. \A b \in Bills : Guarded(bill[b].status, b)'
    BY <2>1, <2>2 DEF BillInv, GuardInv, Guarded
  <2>4. QED BY <1>2, <2>1, <2>3 DEF NoNewDebit
<1>4. CASE ConfirmSuccess \/ ConfirmFailure
  <2>0. PICK r \in Reqs : r = hook.event.ref
    BY <1>4, Reconciling
  <2> DEFINE b == ReqBill[r]
  <2>1. r \in Reqs /\ b \in Bills /\ txn[r] = "processing" /\ hook.bill \in BillRow /\ hook.phase = "apply"
    BY <1>4, <2>0, Reconciling DEF BillInv, DebitStates
  <2>2. hook.bill.status \in {"processing", "cancelled"}
    BY <2>0, <2>1 DEF BillInv, GuardInv, Guarded
  <2>3. \A q \in Reqs : ReqBill[q] = b /\ q # r => ~Live(q)
    BY <2>1 DEF BillInv, OneLiveDebit, Live
  <2>4. \E s \in {"success", "failed"} : txn' = [txn EXCEPT ![r] = s]
    BY <1>4, <2>0 DEF ConfirmSuccess, ConfirmFailure
  <2>5. NoNewDebit
    BY <2>1, <2>4 DEF NoNewDebit
  <2>6. \A d \in Bills \ {b} : bill'[d] = bill[d]
    BY <1>4, <2>0 DEF ConfirmSuccess, ConfirmFailure
  <2>7. ASSUME ConfirmSuccess PROVE bill'[b].status = "paid"
    <3>1. bill'[b] = Flushed(bill[b], hook.bill, [hook.bill EXCEPT !.status = "paid"])
      BY <2>0, <2>1, <2>7 DEF ConfirmSuccess
    <3>2. QED BY <2>1, <2>2, <3>1 DEF Flushed, BillRow
  <2>8. ASSUME ConfirmFailure PROVE txn'[r] = "failed"
    BY <2>0, <2>1, <2>8 DEF ConfirmFailure
  <2>9. \A q \in Reqs \ {r} : txn'[q] = txn[q]
    BY <2>4
  <2>10. Guarded(bill[b].status, b)'
    <3>1. CASE ConfirmSuccess
      <4>1. txn'[r] = "success" /\ bill'[b].status = "paid"
        BY <2>0, <2>1, <2>7, <3>1 DEF ConfirmSuccess
      <4>2. QED BY <2>3, <2>9, <4>1 DEF Guarded, Live
    <3>2. CASE ConfirmFailure
      BY <2>3, <2>8, <2>9, <3>2 DEF Guarded, Live
    <3>3. QED BY <1>4, <3>1, <3>2
  <2>11. \A d \in Bills \ {b} : Guarded(bill[d].status, d)'
    BY <2>6, <2>9 DEF BillInv, GuardInv, Guarded
  <2>12. QED BY <1>2, <2>5, <2>10, <2>11
<1>5. QED BY <1>3, <1>4, WebhookEffect

\* BillInv is inductive as long as the job does not run.
LEMMA BillInductive ==
  ASSUME MaxSweeps = 0, TypeOK, CoreInv, BillInv, [Next]_vars
  PROVE  BillInv'
<1> USE RequestData DEF TypeOK, StoreTypeOK
<1>1. CASE Sweeping
  <2>1. sweeps = 0
    BY DEF JobTypeOK
  <2>2. job.due = {} /\ job.writing \notin Bills
    BY ActorAssumption DEF ActorAssumption, BillInv, JobAtRest, IdleJob
  <2>3. QED BY <1>1, <2>1, <2>2 DEF Sweeping, JobStep, SweepStart, SweepRead, SweepWrite
<1>2. ASSUME UNCHANGED <<txn, job>>,
             \A r \in Reqs : snap'[r] = snap[r] /\ (pc'[r] = pc[r] \/ pc'[r] = "lost"),
             \A b \in Bills : \/ bill'[b].status = bill[b].status
                             \/ bill'[b].status = "cancelled"
                             \/ ~Present(b),
             \/ hook' = hook \/ hook'.phase # "apply"
             \/ hook'.event.ref \in Reqs => hook'.bill = bill[ReqBill[hook'.event.ref]]
      PROVE  BillInv'
  <2>1. \A r \in Reqs :
          \/ pc'[r] \in {"lockBill", "lockUser"} /\ Payable(snap'[r].bill.status)
          \/ Open(r)'
          => Uncharged(ReqBill[r])
    BY <1>2 DEF BillInv, ChargeInv, Open
  <2>2. DebitStates' /\ ChargeInv' /\ OneLiveDebit'
    BY <1>2, <2>1, ChargeStep DEF NoNewDebit
  <2>3. GuardInv'
    BY <1>2, AbsentUncharged, GuardStep
  <2>4. QED BY <1>2, <2>2, <2>3 DEF BillInv, JobAtRest
<1>3. CASE (\E r \in Reqs : ProviderStep(r)) \/ Day \/ UNCHANGED vars
  BY <1>2, <1>3 DEF ProviderStep, Day, Tick, vars, storeVars, payoutVars, jobVars, tables
<1>4. CASE \E e \in Events : Delivery(e)
  BY <1>2, <1>4 DEF Delivery, Deliver, RefBill, payoutVars, jobVars, tables
<1>5. CASE \E c \in Cancels : Cancelling(c)
  <2>1. UNCHANGED <<txn, job, hook, pc, snap>>
    BY <1>5 DEF Cancelling, CancelStep, CancelRead, CancelWrite, storeVars, payoutVars, jobVars
  <2>2. bill' = bill \/ \E b \in Bills : bill' = [bill EXCEPT ![b].status = "cancelled"]
    BY <1>5, CancelAssumption
    DEF CancelAssumption, Cancelling, CancelStep, CancelRead, CancelWrite, storeVars
  <2>3. \A b \in Bills : bill'[b].status = bill[b].status \/ bill'[b].status = "cancelled"
    BY <2>2 DEF BillRow
  <2>4. QED BY <1>2, <2>1, <2>3
<1>6. CASE Crash
  <2>1. UNCHANGED <<txn, bill, snap>> /\ hook'.phase # "apply" /\ job' = IdleJob
        /\ \A r \in Reqs : pc'[r] = pc[r] \/ pc'[r] = "lost"
    BY <1>6 DEF Crash, tables, NoHook
  <2>2. QED BY <1>2, <2>1 DEF BillInv, JobAtRest
<1>7. CASE Spawning
  <2>1. \A b \in Bills : bill'[b].status = bill[b].status \/ ~Present(b)
    BY <1>7, SpawnEffect
  <2>2. QED BY <1>2, <1>7, <2>1, SpawnEffect DEF coreVars
<1>8. QED
  BY <1>1, <1>3, <1>4, <1>5, <1>6, <1>7, CommitBill, RequestBill, WebhookBill DEF Next

\* With the job paused, the status of every bill guards its debits: no bill
\* that a request may still charge has one in flight or kept.
THEOREM ChargesGuarded ==
  ASSUME MaxSweeps = 0
  PROVE  Spec => []BillInv
<1>1. Init => BillInv
  BY InitBill
<1>2. TypeOK /\ CoreInv /\ BillInv /\ [Next]_vars => BillInv'
  BY BillInductive
<1>3. QED BY <1>1, <1>2, CoreInvariant, PTL DEF Spec

\* So a bill has at most one debit that is in flight or kept, however many
\* payments, cancellations, webhooks and crashes concern it.
THEOREM ChargedAtMostOnce ==
  ASSUME MaxSweeps = 0
  PROVE  Spec => []OneLiveDebit
<1>1. BillInv => OneLiveDebit
  BY DEF BillInv
<1>2. QED BY <1>1, ChargesGuarded, PTL
=============================================================================
