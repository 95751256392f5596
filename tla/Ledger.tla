------------------------------- MODULE Ledger -------------------------------
(***************************************************************************)
(* The wallet balances against the transactions table.                     *)
(***************************************************************************)
EXTENDS Safety, Functions

Credited(u) == {c \in Credits : CreditUser[c] = u /\ txn[c] = "success"}
Debited(u) == {r \in Reqs : ReqUser[r] = u /\ Live(r)}

Charges == [r \in Reqs |-> Charge(r)]

\* What the transactions table says a wallet should hold.
Expected(u) ==
  InitBalance[u] + SumFunctionOnSet(CreditAmount, Credited(u))
                 - SumFunctionOnSet(Charges, Debited(u))

Drift(u) == balance[u] - Expected(u)

\* DOCUMENTATION.md 5.3: the wallet is never left silently inconsistent, even
\* under concurrent requests or a mid-flight provider failure.
LedgerBalanced == \A u \in Users : Drift(u) = 0

\* The one way the ledger comes apart: a payout commits a balance computed from
\* a wallet it loaded before someone else changed it, and the error is exactly
\* the change it overwrote.  Every webhook, refund, crash, refusal or
\* cancellation keeps balance and transactions in step.
OnlyStaleCommitsDrift ==
  [][\A u \in Users : Drift(u)' # Drift(u) =>
       \E r \in Reqs :
         /\ ReqUser[r] = u /\ pc[r] = "transfer" /\ pc'[r] = "committed"
         /\ Drift(u)' - Drift(u) = snap[r].balance - balance[u]]_vars
=============================================================================
