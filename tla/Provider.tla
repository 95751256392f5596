------------------------------ MODULE Provider ------------------------------
(***************************************************************************)
(* The payment provider (Nomba), outside the repository: modelled from how *)
(* initiate_transfer and the webhook route use it.  A transfer it accepts  *)
(* settles later, may be reversed after it settled, and is announced by    *)
(* webhook events that may arrive at any time, in any order, repeatedly.   *)
(***************************************************************************)
EXTENDS Store

VARIABLE xfer   \* the state of the transfer each request's reference names

TransferStates == {"none", "sent", "accepted", "success", "failed", "reversed"}

ProviderTypeOK == xfer \in [Reqs -> TransferStates]

ProviderInit == xfer = [r \in Reqs |-> "none"]

Send(r) == xfer' = [xfer EXCEPT ![r] = "sent"]

\* A message that was sent may be taken on at any time, or never.
Accept(r) ==
  /\ xfer[r] = "sent"
  /\ xfer' = [xfer EXCEPT ![r] = "accepted"]

Settle(r) ==
  /\ xfer[r] = "accepted"
  /\ \E outcome \in {"success", "failed"} : xfer' = [xfer EXCEPT ![r] = outcome]

Reverse(r) ==
  /\ xfer[r] = "success"
  /\ xfer' = [xfer EXCEPT ![r] = "reversed"]

\* The events the provider may deliver.
Announced(e) ==
  \/ e.type = "charge.success"
  \/ e.type = "transfer.success" /\ xfer[e.ref] \in {"success", "reversed"}
  \/ e.type = "transfer.failed" /\ xfer[e.ref] = "failed"
  \/ e.type = "transfer.reversed" /\ xfer[e.ref] = "reversed"
=============================================================================
