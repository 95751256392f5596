----------------------------- MODULE BillCancel -----------------------------
(***************************************************************************)
(* POST /bills/{id}/cancel, a plain function that FastAPI runs in a worker *)
(* thread: between its read of the bill and its UPDATE anything may        *)
(* commit, and the UPDATE waits for the bill's row lock.                   *)
(***************************************************************************)
EXTENDS Store

CONSTANTS Cancels, CancelBill, CancelUser

ASSUME CancelAssumption ==
  CancelBill \in [Cancels -> Bills] /\ CancelUser \in [Cancels -> Users]

VARIABLE cancel

CancelTypeOK == cancel \in [Cancels -> {"never", "new", "write", "done", "refused", "lost"}]

CancelInit(made) == cancel = [c \in Cancels |-> IF c \in made THEN "new" ELSE "never"]

\* Cancelling a cancelled bill changes no column, so nothing is written.
CancelRead(c) ==
  LET b == CancelBill[c]
      visible == bill[b].status # "absent" /\ BillOwner[b] = CancelUser[c]
  IN /\ cancel[c] = "new"
     /\ cancel' = [cancel EXCEPT ![c] =
          IF ~visible \/ bill[b].status \in {"paid", "processing"} THEN "refused"
          ELSE IF bill[b].status = "cancelled" THEN "done" ELSE "write"]
     /\ UNCHANGED storeVars

CancelWrite(c) ==
  /\ cancel[c] = "write"
  /\ billLock[CancelBill[c]] = None
  /\ bill' = [bill EXCEPT ![CancelBill[c]].status = "cancelled"]
  /\ cancel' = [cancel EXCEPT ![c] = "done"]
  /\ UNCHANGED <<balance, txn, seen, rowLocks, loop, now>>

CancelStep(c) == CancelRead(c) \/ CancelWrite(c)
=============================================================================
