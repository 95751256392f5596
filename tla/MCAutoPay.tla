----------------------------- MODULE MCAutoPay -----------------------------
(***************************************************************************)
(* Instances of the payment core for TLC.  A configuration picks the       *)
(* requests, bills, credits and cancellations that take part; the tables   *)
(* below give each of them its constants.                                  *)
(***************************************************************************)
EXTENDS Ledger, Invariants

Of(table, S) == [x \in S |-> table[x]]

MCBillOwner == Of([b1 |-> "u1", b2 |-> "u1", b3 |-> "u2", b4 |-> "u1", b5 |-> "u1",
                   b6 |-> "u1", x1 |-> "u1", y1 |-> "u1"], Bills)
MCAmount == Of([b1 |-> 3, b2 |-> 2, b3 |-> 3, b4 |-> 3, b5 |-> 1, b6 |-> 1, x1 |-> 3,
                y1 |-> 3], Bills)
MCHasAccount == Bills \ {"b6"}
MCDueDay == Of([b1 |-> -1, b2 |-> 0, b3 |-> 0, b4 |-> 4, b5 |-> 4, b6 |-> 0, x1 |-> 0,
                y1 |-> 0], Bills)
MCInitStatus == Of([b1 |-> "pending", b2 |-> "scheduled", b3 |-> "pending",
                    b4 |-> "absent", b5 |-> "absent", b6 |-> "pending",
                    x1 |-> "absent", y1 |-> "absent"], Bills)
MCReqBill == Of([pay1 |-> "b1", again1 |-> "b1", pay2 |-> "b2", again2 |-> "b2",
                 pay3 |-> "b3", upload4 |-> "b4", pay4 |-> "b4", create5 |-> "b5",
                 pay6 |-> "b6", stray3 |-> "b3", payx |-> "x1"], Reqs)
MCReqUser == [r \in Reqs |-> IF r = "pay3" THEN "u2" ELSE "u1"]
MCKind == [r \in Reqs |-> CASE r = "upload4" -> "upload" [] r = "create5" -> "create"
                            [] OTHER -> "pay"]
MCCreditUser == [c \in Credits |-> "u1"]
MCCreditAmount == [c \in Credits |-> 2]
MCInitBalance == [u \in Users |-> 6]
MCCancelBill == Of([cancel1 |-> "b1", cancel2 |-> "b2", cancel3 |-> "b3"], Cancels)
MCCancelUser == [c \in Cancels |-> "u1"]
MCRecurring == Bills \cap {"b1", "x1", "y1"}
MCCopies == Bills \cap {"x1", "y1"}
MCCopyOf == [c \in Copies |-> "b1"]
MCPeriod == [b \in Recurring |-> 1]
MCFirstDay == [b \in Recurring |-> -2]
AtOnce == {Reqs \cup Cancels}
BillScenarios == {{"pay1", "again1", "cancel1"}, {"pay1", "payx", "b1"},
                  {"upload4", "pay6", "b1"}, {"create5", "stray3", "pay6"}}
=============================================================================
