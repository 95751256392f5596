------------------------------- MODULE Wallet -------------------------------
(***************************************************************************)
(* What a wallet promises, without sessions, locks, a loop or a provider:  *)
(* a debit takes its whole charge in one step and only from a balance that *)
(* covers it, and ends once, kept or refunded in full.                     *)
(***************************************************************************)
EXTENDS Integers

CONSTANTS Owners, Debits, Deposits, InitBalance, Pending,
          DebitOwner, DebitCharge(_), DepositOwner, DepositAmount

VARIABLES balance, entry   \* entry: the state of each debit and deposit

Init ==
  /\ balance = InitBalance
  /\ entry = [t \in Debits \cup Deposits |-> IF t \in Pending THEN "pending" ELSE "absent"]

Becomes(t, before, after) == entry[t] = before /\ entry' = [entry EXCEPT ![t] = after]

Add(u, n) == balance' = [balance EXCEPT ![u] = @ + n]

Take(d) ==
  /\ balance[DebitOwner[d]] >= DebitCharge(d)
  /\ Becomes(d, "absent", "processing")
  /\ Add(DebitOwner[d], -DebitCharge(d))

Keep(d) == Becomes(d, "processing", "success") /\ UNCHANGED balance

GiveBack(d) == Becomes(d, "processing", "failed") /\ Add(DebitOwner[d], DebitCharge(d))

Deposit(c) == Becomes(c, "pending", "success") /\ Add(DepositOwner[c], DepositAmount[c])

Next ==
  \/ \E d \in Debits : Take(d) \/ Keep(d) \/ GiveBack(d)
  \/ \E c \in Deposits : Deposit(c)

Spec == Init /\ [][Next]_<<balance, entry>>
=============================================================================
