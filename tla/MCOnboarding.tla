---------------------------- MODULE MCOnboarding ----------------------------
(* Two provisionings of one user, a payout, and signups for TLC. *)
EXTENDS Onboarding

Of(table, S) == [x \in S |-> table[x]]

MCPersonOf == Of([s1 |-> "u1", again1 |-> "u1", s2 |-> "u2", open1 |-> "u1", open2 |-> "u1",
                  k1 |-> "u1", k2 |-> "u2", k3 |-> "u1", pay |-> "u1"], Attempts)
MCBvn == Of([k1 |-> "A", k2 |-> "A", k3 |-> "B"], Submissions)
MCTogether == {{"s1", "open1", "open2"}, {"s1", "k1", "open1", "pay"},
               {"s1", "again1", "s2", "k1", "k2", "k3"}}
MCScript == [c \in Clients |-> IF c \in Payouts THEN <<"lookup", "transfer">> ELSE <<"account">>]
=============================================================================
