------------------------------- MODULE Payout -------------------------------
(***************************************************************************)
(* The bills endpoints that run execute_payout or insert a bill: POST      *)
(* /bills/{id}/pay, POST /bills/upload and POST /bills.                    *)
(*                                                                         *)
(* A request's session keeps the user as its dependency loaded it (in a    *)
(* worker thread) and the bill as it was first read: SELECT ... FOR UPDATE *)
(* takes the row lock but does not refresh an instance the session already *)
(* holds.  snap[r] is those loaded values, draft[r] the bill and the debit *)
(* as the open transaction has them, to be committed or rolled back.       *)
(***************************************************************************)
EXTENDS Provider, Agent

CONSTANTS Kind,      \* which endpoint a request calls
          ReqUser    \* the authenticated user of the request

ASSUME RequestAssumption ==
  /\ Kind \in [Reqs -> {"pay", "upload", "create"}]
  /\ ReqUser \in [Reqs -> Users]
  /\ \A r \in Reqs : Kind[r] # "pay" => /\ InitStatus[ReqBill[r]] = "absent"
                                        /\ BillOwner[ReqBill[r]] = ReqUser[r]
  /\ \A r, q \in Reqs :
       Kind[r] # "pay" /\ Kind[q] # "pay" /\ ReqBill[r] = ReqBill[q] => r = q

VARIABLES pc, snap, draft

payoutVars == <<pc, snap, draft>>

Answered == {"initiated", "created", "rejected", "refused", "lost"}
PcStates == {"never", "new", "ready", "insert", "lockBill", "lockUser",
             "resolve", "transfer", "refund", "committed", "inserted"} \cup Answered

NoRow == [status |-> "absent", retry |-> 0]
NewRow == [status |-> "pending", retry |-> 0]
NoDraft == [bill |-> NoRow, debit |-> "absent"]

PayoutTypeOK ==
  /\ pc \in [Reqs -> PcStates]
  /\ snap \in [Reqs -> [balance : Int, bill : BillRow]]
  /\ draft \in [Reqs -> [bill : BillRow, debit : {"absent", "processing", "failed"}]]

\* `made` are the requests that will come.
PayoutInit(made) ==
  /\ pc = [r \in Reqs |-> IF r \in made THEN "new" ELSE "never"]
  /\ snap = [r \in Reqs |-> [balance |-> 0, bill |-> NoRow]]
  /\ draft = [r \in Reqs |-> NoDraft]

-----------------------------------------------------------------------------
\* Mutant: the endpoint commits where it should roll back.
RollbackCommits(r, answer) ==
  /\ pc' = [pc EXCEPT ![r] = answer]
  /\ draft' = [draft EXCEPT ![r] = NoDraft]
  /\ txn' = [txn EXCEPT ![r] = IF @ = "absent" THEN draft[r].debit ELSE @]
  /\ billLock' = Released(billLock, r)
  /\ userLock' = Released(userLock, r)
  /\ loop' = IF loop = r THEN None ELSE loop
  /\ UNCHANGED <<balance, bill, seen, snap, now>>

\* The request's transaction ends without a commit and its answer is sent.
Rollback(r, answer) ==
  /\ pc' = [pc EXCEPT ![r] = answer]
  /\ draft' = [draft EXCEPT ![r] = NoDraft]
  /\ billLock' = Released(billLock, r)
  /\ userLock' = Released(userLock, r)
  /\ loop' = IF loop = r THEN None ELSE loop
  /\ UNCHANGED <<tables, snap, now>>

\* get_current_active_user, a plain SELECT in a worker thread.
LoadUser(r) ==
  /\ pc[r] = "new"
  /\ pc' = [pc EXCEPT ![r] = "ready"]
  /\ snap' = [snap EXCEPT ![r].balance = balance[ReqUser[r]]]
  /\ UNCHANGED <<storeVars, draft>>

BillVisible(r) ==
  /\ bill[ReqBill[r]].status # "absent"
  /\ BillOwner[ReqBill[r]] = ReqUser[r]

PayUnknownBill(r) ==
  /\ pc[r] = "ready" /\ loop = None /\ Kind[r] = "pay"
  /\ ~BillVisible(r)
  /\ Rollback(r, "rejected")

\* session.get(Bill) at the head of pay_bill.
StartPay(r) ==
  /\ pc[r] = "ready" /\ loop = None /\ Kind[r] = "pay"
  /\ BillVisible(r)
  /\ loop' = r
  /\ pc' = [pc EXCEPT ![r] = "lockBill"]
  /\ snap' = [snap EXCEPT ![r].bill = bill[ReqBill[r]]]
  /\ UNCHANGED <<tables, rowLocks, now, draft>>

\* Reading or extracting the upload failed, or it names no vendor or amount.
UploadUnreadable(r) ==
  /\ pc[r] = "ready" /\ loop = None /\ Kind[r] = "upload"
  /\ Rollback(r, "rejected")

StartInsert(r) ==
  /\ pc[r] = "ready" /\ loop = None /\ Kind[r] \in {"upload", "create"}
  /\ loop' = r
  /\ pc' = [pc EXCEPT ![r] = "insert"]
  /\ snap' = [snap EXCEPT ![r].bill = NewRow]
  /\ UNCHANGED <<tables, rowLocks, now, draft>>

\* What upload_bill's agent makes of the inserted bill; create_bill has none.
Verdict(r) ==
  IF Kind[r] = "create" THEN "hold"
  ELSE Decide(snap[r].balance, Amount[ReqBill[r]], Fee, DaysUntilDue(ReqBill[r]))

\* Mutant: the agent's word is stored as the bill's status.
StatusAsDecided(verdict) == verdict

StatusFor(verdict) == IF verdict = "schedule" THEN "scheduled" ELSE "pending"

\* Mutants: no row lock on the wallet, and a lock on the whole users table.
WalletUnlocked(r) == TRUE
AllWalletsFree(r) == \A u \in Users : userLock[u] = None

WalletFree(r) == userLock[ReqUser[r]] = None

\* The INSERT checks its foreign key, so it waits for a FOR UPDATE lock on the
\* user's row.  Without a payout the row is committed, held or scheduled; the
\* answer is still to be built.
InsertBill(r) ==
  /\ pc[r] = "insert"
  /\ WalletFree(r)
  /\ Verdict(r) # "pay_now"
  /\ bill' = [bill EXCEPT ![ReqBill[r]].status = StatusFor(Verdict(r))]
  /\ pc' = [pc EXCEPT ![r] = "inserted"]
  /\ UNCHANGED <<balance, txn, seen, rowLocks, loop, now, snap, draft>>

\* With one, the row stays uncommitted and execute_payout locks it.
InsertAndPay(r) ==
  /\ pc[r] = "insert"
  /\ WalletFree(r)
  /\ Verdict(r) = "pay_now"
  /\ billLock' = [billLock EXCEPT ![ReqBill[r]] = r]
  /\ pc' = [pc EXCEPT ![r] = "lockUser"]
  /\ UNCHANGED <<tables, userLock, loop, now, snap, draft>>

-----------------------------------------------------------------------------
\* execute_payout.

LockBill(r) ==
  /\ pc[r] = "lockBill"
  /\ billLock[ReqBill[r]] = None
  /\ billLock' = [billLock EXCEPT ![ReqBill[r]] = r]
  /\ pc' = [pc EXCEPT ![r] = "lockUser"]
  /\ UNCHANGED <<tables, userLock, loop, now, snap, draft>>

\* Mutants: one of the checks is missing.
MayReserveUnfunded(r) == snap[r].bill.status \notin {"paid", "cancelled", "processing"}
MayReserveTwice(r) ==
  /\ snap[r].bill.status \notin {"paid", "cancelled"}
  /\ snap[r].balance >= Charge(r)

\* The state and balance checks, on the values the session holds.
MayReserve(r) ==
  /\ snap[r].bill.status \notin {"paid", "cancelled", "processing"}
  /\ snap[r].balance >= Charge(r)

RefusePayout(r) ==
  /\ pc[r] = "lockUser"
  /\ WalletFree(r)
  /\ ~MayReserve(r)
  /\ Rollback(r, "rejected")

\* Mutant: the bill counts as paid once the transfer is initiated.
ReservedAsPaid(r) == [bill |-> [snap[r].bill EXCEPT !.status = "paid"],
                      debit |-> "processing"]

Reserved(r) == [bill |-> [snap[r].bill EXCEPT !.status = "processing"],
                debit |-> "processing"]

\* _refund_on_failure: writes to the open transaction only.
RefundOnFailure(d) == [bill |-> AfterFailure(d.bill), debit |-> "failed"]

\* Mark the bill processing and insert the debit, uncommitted; then ask the
\* provider, giving up the loop, or fail at once when there is no account.
Reserve(r) ==
  /\ pc[r] = "lockUser"
  /\ WalletFree(r)
  /\ MayReserve(r)
  /\ userLock' = [userLock EXCEPT ![ReqUser[r]] = r]
  /\ IF ReqBill[r] \in HasAccount
       THEN /\ draft' = [draft EXCEPT ![r] = Reserved(r)]
            /\ pc' = [pc EXCEPT ![r] = "resolve"]
            /\ loop' = None
       ELSE /\ draft' = [draft EXCEPT ![r] = RefundOnFailure(Reserved(r))]
            /\ pc' = [pc EXCEPT ![r] = "refund"]
            /\ loop' = loop
  /\ UNCHANGED <<tables, billLock, now, snap>>

\* The account is known: send the transfer and await its reply.
AccountResolved(r) ==
  /\ pc[r] = "resolve" /\ loop = None
  /\ pc' = [pc EXCEPT ![r] = "transfer"]
  /\ Send(r)
  /\ UNCHANGED <<storeVars, snap, draft>>

\* InvalidAccount is caught; any other error of the lookup propagates.
AccountInvalid(r) ==
  /\ pc[r] = "resolve" /\ loop = None
  /\ loop' = r
  /\ pc' = [pc EXCEPT ![r] = "refund"]
  /\ draft' = [draft EXCEPT ![r] = RefundOnFailure(@)]
  /\ UNCHANGED <<tables, rowLocks, now, snap>>

LookupFailed(r) ==
  /\ pc[r] = "resolve" /\ loop = None
  /\ Rollback(r, "refused")

\* A reply with a 2xx status, whatever its envelope's code says of the transfer:
\* debit the wallet as loaded, and commit everything.
TransferInitiated(r) ==
  /\ pc[r] = "transfer" /\ loop = None
  /\ loop' = r
  /\ balance' = [balance EXCEPT ![ReqUser[r]] = snap[r].balance - Charge(r)]
  /\ bill' = [bill EXCEPT ![ReqBill[r]] = Flushed(@, snap[r].bill, draft[r].bill)]
  /\ txn' = [txn EXCEPT ![r] = draft[r].debit]
  /\ billLock' = Released(billLock, r)
  /\ userLock' = Released(userLock, r)
  /\ pc' = [pc EXCEPT ![r] = "committed"]
  /\ draft' = [draft EXCEPT ![r] = NoDraft]
  /\ UNCHANGED <<seen, now, snap>>

\* An error reply, or no reply in time, whether or not the transfer was taken.
TransferErred(r) ==
  /\ pc[r] = "transfer" /\ loop = None
  /\ loop' = r
  /\ pc' = [pc EXCEPT ![r] = "refund"]
  /\ draft' = [draft EXCEPT ![r] = RefundOnFailure(@)]
  /\ UNCHANGED <<tables, rowLocks, now, snap>>

\* execute_payout raised: the endpoint rolls back, the refund rows included.
PayoutRaised(r) ==
  /\ pc[r] = "refund"
  /\ Rollback(r, "refused")

\* After the commit the endpoint reads its bill again and answers.
Respond(r) ==
  /\ \/ pc[r] = "committed" /\ pc' = [pc EXCEPT ![r] = "initiated"]
     \/ pc[r] = "inserted" /\ pc' = [pc EXCEPT ![r] = "created"]
  /\ loop' = None
  /\ UNCHANGED <<tables, rowLocks, now, snap, draft>>

\* The steps of one request that leave the provider alone.
PayoutStep(r) ==
  \/ LoadUser(r) \/ PayUnknownBill(r) \/ StartPay(r)
  \/ UploadUnreadable(r) \/ StartInsert(r) \/ InsertBill(r) \/ InsertAndPay(r)
  \/ LockBill(r) \/ RefusePayout(r) \/ Reserve(r)
  \/ AccountInvalid(r) \/ LookupFailed(r)
  \/ TransferInitiated(r) \/ TransferErred(r) \/ PayoutRaised(r) \/ Respond(r)
=============================================================================
