------------------------------ MODULE AutoPay ------------------------------
(***************************************************************************)
(* The payment core of AutoPay: bill requests, the provider, its webhooks, *)
(* cancellations and the scheduler's jobs over one database and one loop.  *)
(***************************************************************************)
EXTENDS Webhooks, BillCancel, Recurrence

CONSTANTS
  Together,     \* the sets of requests, cancellations and recurring bills with a
                \* next date that one history may have
  MaxCrashes    \* bound on process crashes

ASSUME CrashAssumption == MaxCrashes \in Nat

\* The job inserts bills of its own, a request another.
ASSUME CopyAssumption == \A r \in Reqs : Kind[r] # "pay" => ReqBill[r] \notin Copies

VARIABLE crashes

vars == <<storeVars, xfer, payoutVars, hook, cancel, jobVars, recurVars, crashes>>

TypeOK ==
  /\ StoreTypeOK /\ ProviderTypeOK /\ PayoutTypeOK /\ WebhookTypeOK
  /\ CancelTypeOK /\ JobTypeOK /\ RecurrenceTypeOK
  /\ crashes \in 0..MaxCrashes

Init ==
  /\ StoreInit /\ ProviderInit /\ WebhookInit /\ JobInit
  /\ \E made \in Together :
       PayoutInit(made) /\ CancelInit(made) /\ RecurrenceInit(made)
  /\ crashes = 0

-----------------------------------------------------------------------------
Request(r) ==
  /\ \/ PayoutStep(r) /\ UNCHANGED xfer
     \/ AccountResolved(r)
  /\ UNCHANGED <<hook, cancel, jobVars, recurVars, crashes>>

ProviderStep(r) ==
  /\ Accept(r) \/ Settle(r) \/ Reverse(r)
  /\ UNCHANGED <<storeVars, payoutVars, hook, cancel, jobVars, recurVars, crashes>>

Webhook ==
  /\ WebhookStep
  /\ UNCHANGED <<xfer, cancel, jobVars, recurVars, crashes>>

Delivery(e) ==
  /\ Deliver(e)
  /\ UNCHANGED <<xfer, cancel, jobVars, recurVars, crashes>>

Cancelling(c) ==
  /\ CancelStep(c)
  /\ UNCHANGED <<xfer, payoutVars, hook, jobVars, recurVars, crashes>>

Sweeping ==
  /\ JobStep
  /\ UNCHANGED <<xfer, payoutVars, hook, cancel, recurVars, crashes>>

Spawning ==
  /\ SpawnStep
  /\ UNCHANGED <<xfer, payoutVars, hook, cancel, jobVars, crashes>>

Day ==
  /\ Tick
  /\ UNCHANGED <<xfer, payoutVars, hook, cancel, jobVars, recurVars, crashes>>

InProgress == PcStates \ (Answered \cup {"never", "new"})

\* The process dies and restarts: open transactions are rolled back by the
\* database, what was in memory is gone, the provider goes on.
Crash ==
  /\ crashes < MaxCrashes
  /\ crashes' = crashes + 1
  /\ pc' = [r \in Reqs |-> IF pc[r] \in InProgress THEN "lost" ELSE pc[r]]
  /\ draft' = [r \in Reqs |-> NoDraft]
  /\ billLock' = [b \in Bills |-> None]
  /\ userLock' = [u \in Users |-> None]
  /\ loop' = None
  /\ hook' = NoHook
  /\ cancel' = [c \in Cancels |-> IF cancel[c] = "write" THEN "lost" ELSE cancel[c]]
  /\ job' = IdleJob
  /\ spawning' = {}
  /\ UNCHANGED <<tables, now, xfer, snap, sweeps, nextDay, spawns>>

Next ==
  \/ \E r \in Reqs : Request(r) \/ ProviderStep(r)
  \/ \E e \in Events : Delivery(e)
  \/ Webhook
  \/ \E c \in Cancels : Cancelling(c)
  \/ Sweeping \/ Spawning \/ Day \/ Crash

Spec == Init /\ [][Next]_vars

(***************************************************************************)
(* Fairness.  Started handlers go on: worker threads are scheduled, the    *)
(* loop serves its ready callbacks in turn (a step that needs the loop is  *)
(* enabled again and again, so strong fairness), Postgres grants row locks *)
(* in the order they were asked for, and an awaited provider call returns, *)
(* the HTTP client's timeout turning silence into an error.  The provider  *)
(* delivers every event it announces.  Nothing is assumed of users, of the *)
(* time a transfer takes to settle, of the clock or of crashes.            *)
(***************************************************************************)
HandlerStep(r) ==
  \/ PayUnknownBill(r) \/ StartPay(r)
  \/ UploadUnreadable(r) \/ StartInsert(r) \/ InsertBill(r) \/ InsertAndPay(r)
  \/ LockBill(r) \/ RefusePayout(r) \/ Reserve(r) \/ PayoutRaised(r)
  \/ AccountResolved(r) \/ AccountInvalid(r) \/ LookupFailed(r)
  \/ TransferInitiated(r) \/ TransferErred(r) \/ Respond(r)

Fairness ==
  /\ \A r \in Reqs : SF_vars(Request(r) /\ HandlerStep(r))
  /\ \A t \in Refs : SF_vars(\E e \in Events \ seen : e.ref = t /\ Delivery(e))
  /\ WF_vars(Webhook)
  /\ WF_vars(Sweeping /\ job # IdleJob)
  /\ WF_vars(Spawning /\ spawning # {})
  /\ \A c \in Cancels : SF_vars(Cancelling(c) /\ cancel[c] = "write")

FairSpec == Spec /\ Fairness
=============================================================================
