------------------------------- MODULE Safety -------------------------------
(***************************************************************************)
(* What the payment core promises, apart from the sums of the ledger.      *)
(***************************************************************************)
EXTENDS AutoPay

\* A wallet balance is never negative (payout.py, invariant 2), although the
\* balance check and the debit work on values loaded before the lock.
NonNegativeBalance == \A u \in Users : balance[u] >= 0

\* The payouts that have reserved and not yet committed or rolled back.
Open(r) == pc[r] \in {"resolve", "transfer", "refund"}

\* The two row locks serialize attempts: while one payout awaits the provider
\* no other payout of the same bill or of the same wallet is open.
OneOpenPayout ==
  \A r, q \in Reqs :
    /\ Open(r) /\ Open(q)
    /\ ReqBill[r] = ReqBill[q] \/ ReqUser[r] = ReqUser[q]
    => r = q

\* A bill is paid only on the provider's word: one of its debits succeeded.
PaidHasSuccess ==
  \A b \in Bills : bill[b].status = "paid" =>
    \E r \in Reqs : ReqBill[r] = b /\ txn[r] = "success"

Live(r) == txn[r] \in {"processing", "success"}

\* A bill is never charged twice: at most one of its committed debits is in
\* flight or settled, whatever cancellations, webhooks and crashes do to the
\* status column that guards it.
OneLiveDebit ==
  \A r, q \in Reqs : Live(r) /\ Live(q) /\ ReqBill[r] = ReqBill[q] => r = q

\* A bill shows `processing` only while one of its debits is in flight, so no
\* bill is refused with 409 for a payment that is already over.
ProcessingHasDebit ==
  \A b \in Bills : bill[b].status = "processing" =>
    \E r \in Reqs : ReqBill[r] = b /\ txn[r] = "processing"

\* What a caller is told is what the books hold.  A debit, a failed one included,
\* is there with its bill, and only for a request that is told "initiated"
\* unless a crash takes the answer; who is told "created" has the bill; and a
\* refused or rejected request leaves nothing of its transaction, neither a
\* debit nor the bill it inserted.
AnswersMatchBooks ==
  \A r \in Reqs :
    LET debited == txn[r] # "absent"
        inserted == bill[ReqBill[r]].status # "absent"
    IN  /\ debited => inserted /\ pc[r] \in {"committed", "initiated", "lost"}
        /\ pc[r] = "initiated" => debited
        /\ pc[r] = "created" => inserted
        /\ pc[r] \in {"rejected", "refused"} /\ Kind[r] # "pay" => ~inserted

\* The books never claim an outcome that the provider did not reach.
BooksFollowProvider ==
  \A r \in Reqs :
    /\ txn[r] = "success" => xfer[r] \in {"success", "reversed"}
    /\ txn[r] = "failed" => xfer[r] \in {"failed", "reversed"}

\* A reconciled transaction is final: no later, repeated or reordered event
\* changes it (the idempotency of confirm_payout and _handle_charge_success).
ReconciledForGood ==
  [][\A t \in Refs : txn[t] \in {"success", "failed"} => txn'[t] = txn[t]]_vars

\* The scheduler does not insert an occurrence of a recurring bill twice before
\* that occurrence is itself past due: the original's date moves with the copy.
OccurrenceOnce ==
  \A c, d \in Copies :
    /\ bill[c].status # "absent" /\ bill[d].status # "absent"
    /\ CopyOf[c] = CopyOf[d] /\ DueDay[c] >= now
    => c = d

-----------------------------------------------------------------------------
(* The payout protocol as an atomic wallet. *)

\* The transactions table is the wallet's book of entries.
W == INSTANCE Wallet WITH
       Owners <- Users, Debits <- Reqs, Deposits <- Credits, Pending <- CreditRows,
       DebitOwner <- ReqUser, DebitCharge <- Charge,
       DepositOwner <- CreditUser, DepositAmount <- CreditAmount, entry <- txn

\* The commit of a payout whose wallet was changed since its request loaded it.
StaleCommit(r) ==
  /\ pc[r] = "transfer" /\ pc'[r] = "committed"
  /\ snap[r].balance # balance[ReqUser[r]]
  /\ W!Becomes(r, "absent", "processing")
  /\ balance' = [balance EXCEPT ![ReqUser[r]] = snap[r].balance - Charge(r)]

\* With its snapshots, open transactions, late webhooks and crashes, every step
\* of the core is a step of an atomic wallet, but for the commits that overwrite
\* a change made since their request loaded the user.
AtomicUnlessStale == [][W!Next \/ \E r \in Reqs : StaleCommit(r)]_<<balance, txn>>

\* When no two actors change one wallet, the protocol is an atomic wallet.
ImplementsWallet == W!Spec

-----------------------------------------------------------------------------
(* Promises of the documentation that the code does not keep. *)

\* payout.py:4-6 and DOCUMENTATION.md 5.3: concurrent attempts serialize at the
\* database.  They do not when the attempt that waits for a row lock keeps the
\* event loop that the lock's holder needs to go on.
LoopNeverWaitsForItself ==
  /\ \A r \in Reqs :
       /\ pc[r] = "lockBill" => billLock[ReqBill[r]] = None
       /\ pc[r] \in {"insert", "lockUser"} => userLock[ReqUser[r]] = None
  /\ hook.phase = "apply" /\ hook.event.type = "charge.success"
       => userLock[CreditUser[hook.event.ref]] = None

\* payout.py:66, the reference is the idempotency key at the provider: a bill's
\* payment reaches the provider at most once at a time.
ProviderPaysOnce ==
  \A r, q \in Reqs :
    /\ xfer[r] \in {"accepted", "success"} /\ xfer[q] \in {"accepted", "success"}
    /\ ReqBill[r] = ReqBill[q]
    => r = q

-----------------------------------------------------------------------------
(* Liveness, under FairSpec. *)

Started(r) == pc[r] \in InProgress

\* Every request whose handling began is answered.  With two requests of one
\* wallet it is not: see LoopNeverWaitsForItself.
EveryRequestAnswered ==
  \A r \in Reqs : Started(r) ~> pc[r] \in Answered

SettlesAt(r) == {e \in Events : e.ref = r /\ Announced(e)}

\* A debit whose outcome the provider still has to announce is reconciled.
NewsReconciles ==
  \A r \in Reqs :
    txn[r] = "processing" /\ SettlesAt(r) \ seen # {} ~> txn[r] # "processing"

\* DOCUMENTATION.md 5.3, item 3: a webhook that arrives before the HTTP response
\* can not race an uncommitted debit; so a settled transfer is reconciled.
SettledReconciles ==
  \A r \in Reqs :
    txn[r] = "processing" /\ xfer[r] \in {"success", "failed", "reversed"}
      ~> txn[r] # "processing"
=============================================================================
