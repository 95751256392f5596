--------------------------- MODULE MCConversation ---------------------------
(* A chat that begins on 1 March at 10 o'clock, for TLC. *)
EXTENDS Conversation, TLC

CONSTANTS h1, h2, m1, m2

MCSlots == {h1, h2}
MCMessages == {m1, m2}
MCSymmetry == Permutations(MCSlots) \cup Permutations(MCMessages)

T(f, x, y) == [form |-> f, a |-> x, b |-> y]

MCStart == Midnight(1, 3) + 10

ToPay == T("iso", 3, 5)
ToSchedule == T("iso", 3, 12)

Notations == {
  T("in", 4, 0),                             \* at the cutoff, as it is rounded
  T("slash", 12, 3), T("slashUS", 12, 3),    \* 12 March or 3 December
  T("slash", 13, 3), T("slashUS", 2, 28),    \* to be read one way only; past
  T("zoned", 3, 6), T("yearless", 5, 1),     \* an hour, a year
  T("other", 3, 12),                         \* as "Mar 12 2026"
  T("none", 0, 0)}

MCTexts == {ToPay, ToSchedule} \cup Notations

\* One update at a time, with every verdict and a call that fails;
One == {[slots |-> {h}, amounts |-> {1, 9}, texts |-> {ToPay, ToSchedule},
         rests |-> 0, ids |-> 2, failures |-> 1] : h \in MCSlots}

\* two updates at a time;
Two == {[slots |-> MCSlots, amounts |-> {1}, texts |-> {ToPay, ToSchedule},
         rests |-> 0, ids |-> 2, failures |-> 0]}

\* one notation, and a rest.
Dated == {[slots |-> {h}, amounts |-> {1}, texts |-> {t},
           rests |-> 1, ids |-> 1, failures |-> 0] : h \in MCSlots, t \in Notations}

MCHistories == One \cup Two \cup Dated
=============================================================================
