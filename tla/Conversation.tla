---------------------------- MODULE Conversation ----------------------------
(***************************************************************************)
(* One chat's bill conversation with the Telegram bot                      *)
(* (app/handlers/bill_conversation.py): the state python-telegram-bot      *)
(* keeps for it, context.user_data, the messages with buttons, and the     *)
(* handlers that run.                                                      *)
(*                                                                         *)
(* A handler is called if the state lets it, awaits Telegram, does its     *)
(* work, and replies; only when it returns is the new state set.  Slots    *)
(* are the updates handled at a time: several when Telegram pushes them,   *)
(* as in production, where each is a request of its own; one when the bot  *)
(* polls.                                                                  *)
(*                                                                         *)
(* A bill's due date stays the text it was written as until the bill is    *)
(* confirmed, or becomes the date it is read as when the user types it.    *)
(***************************************************************************)
EXTENDS DueDate, Agent, Sequences

CONSTANTS Amounts, Texts,   \* what a bill may say, as sent or as edited
          Balance, Fee,
          Slots,
          Messages,     \* bound on the messages with buttons at a time
          Start, Pause, \* the hour a chat begins, and how long it may rest
          Histories,    \* the bounds of one history each
          None

VARIABLES state,      \* the conversation's state
          data,       \* user_data: the bill and its id (0: not set)
          cards,      \* the buttons a message has, or None
          running,    \* the handler in each slot
          drawn,      \* the bill each id was drawn for, ids in order
          stored,     \* ids whose row is committed
          asked,      \* ids execute_payout was called with
          failures,
          now,        \* the hour
          bounds      \* of this history

chat == <<state, data, cards>>
bills == <<drawn, stored, asked>>
world == <<failures, now, bounds>>
convVars == <<chat, running, bills, world>>

States == {"END", "CONFIRM", "CHOOSE_FIELD", "EDIT_VALUE", "FINAL_CONFIRM"}
Buttons == [confirm |-> {"confirm", "edit", "cancel"},
            field   |-> {"field", "back"},
            final   |-> {"final_confirm", "final_cancel"}]
Keyboard == [CONFIRM |-> "confirm", CHOOSE_FIELD |-> "field", FINAL_CONFIRM |-> "final"]

\* A bill in user_data: as it was extracted from a message of the hour `sent`,
\* or with the date that what the user typed then was read as.  It `fits` if the
\* columns of its table take what its other fields say.
Draft == [amount : Amounts, text : Texts, sent : Nat, typed : Int \cup {None},
          fits : BOOLEAN]

\* The slots used, the amounts and texts that occur, and how many rests, bill ids
\* and failing calls to Telegram there may be.
History == [slots : SUBSET Slots, amounts : SUBSET Amounts, texts : SUBSET Texts,
            rests : Nat, ids : Nat, failures : Nat]

ASSUME ConversationAssumption ==
  /\ Amounts \subseteq Int /\ Balance \in Int /\ Fee \in Int
  /\ Texts \subseteq {t \in Text : NamesADay(t)}
  /\ Start \in Nat /\ Pause \in Nat /\ Histories \subseteq History
  /\ None \notin Int /\ None \notin Draft /\ None \notin Messages
  /\ None \notin DOMAIN Buttons

\* A row, with what the agent decided about it and when.
Row == [bill : Draft, due : Int, at : Nat, verdict : Decisions]

\* Handlers wait to begin their work, "paying" to call execute_payout with the
\* id they read, or for their last reply to arrive.
Handlers == {"idle", "receive_bill", "paying", "reply"}
              \cup UNION {Buttons[k] : k \in DOMAIN Buttons}

\* The message a handler was called from; what its reply shows, the state after
\* it, and whether it clears user_data; the id it pays.  A history field: it was
\* `overtaken` if another handler changed the state or user_data meanwhile.
Running == [on : Handlers, card : Messages \cup {None},
            shows : DOMAIN Buttons \cup {None}, next : States, clear : BOOLEAN,
            id : Nat, overtaken : BOOLEAN]

Empty == [bill |-> None, id |-> 0]
Idle == [on |-> "idle", card |-> None, shows |-> None, next |-> "END", clear |-> FALSE,
         id |-> 0, overtaken |-> FALSE]

ConvTypeOK ==
  /\ state \in States
  /\ data \in [bill : Draft \cup {None}, id : Nat]
  /\ cards \in [Messages -> DOMAIN Buttons \cup {None}]
  /\ running \in [Slots -> Running]
  /\ drawn \in Seq(Row) /\ stored \cup asked \subseteq 1..Len(drawn)
  /\ failures \in Nat /\ now \in Nat /\ bounds \in Histories

ConvInit ==
  /\ state = "END" /\ data = Empty /\ cards = [m \in Messages |-> None]
  /\ running = [h \in Slots |-> Idle]
  /\ drawn = <<>> /\ stored = {} /\ asked = {}
  /\ failures = 0 /\ now = Start /\ bounds \in Histories

-----------------------------------------------------------------------------
\* The handler of a slot goes on as `x`; the others notice nothing.
Becomes(h, x) ==
  LET changed == <<state', data'>> # <<state, data>> IN
    running' = [g \in Slots |->
      IF g = h THEN x
      ELSE IF changed /\ running[g] # Idle THEN [running[g] EXCEPT !.overtaken = TRUE]
      ELSE running[g]]

\* A handler is called and awaits Telegram; `card` is the message tapped.
Called(h, name, card) ==
  /\ running[h] = Idle
  /\ UNCHANGED <<chat, bills, world>>
  /\ Becomes(h, [Idle EXCEPT !.on = name, !.card = card])

\* Its last reply is under way: the message will have the buttons `shows`, the
\* state will be `next`, and user_data is cleared if `clear`.
Replying(h, shows, next, clear) ==
  Becomes(h, [running[h] EXCEPT !.on = "reply", !.shows = shows, !.next = next, !.clear = clear])

\* The message a handler was called from has new buttons or none, or the bot
\* sends a new one, for which one that lost its buttons stands in.
Delivered(h) ==
  LET x == running[h] IN
    \/ x.card # None /\ cards' = [cards EXCEPT ![x.card] = x.shows]
    \/ x.card = None /\ x.shows = None /\ UNCHANGED cards
    \/ /\ x.card = None /\ x.shows # None
       /\ \E m \in Messages :
            /\ cards[m] = None /\ \A g \in Slots : running[g].card # m
            /\ cards' = [cards EXCEPT ![m] = x.shows]

\* The reply arrived and the handler returns the new state: two replies to one
\* message return in the order they arrive.
Return(h) ==
  /\ running[h].on = "reply"
  /\ Delivered(h)
  /\ state' = running[h].next
  /\ data' = IF running[h].clear THEN Empty ELSE data
  /\ Becomes(h, Idle)
  /\ UNCHANGED <<bills, world>>

\* What these await may take the buttons from their message.
Editing == {"confirm", "cancel", "final_cancel", "paying", "reply"}

\* A call to Telegram raises, though it may have arrived, and with it the
\* handler: the state stays.
TelegramFails(h) ==
  /\ running[h] # Idle /\ failures < bounds.failures
  /\ failures' = failures + 1
  /\ UNCHANGED cards \/ (running[h].on \in Editing /\ Delivered(h))
  /\ UNCHANGED <<state, data, bills, now, bounds>>
  /\ Becomes(h, Idle)

\* Mutant: the reply_markup is forgotten.
PlainSummary == None
Summary == "confirm"

-----------------------------------------------------------------------------
\* A text, photo or PDF outside a conversation.
SendBill(h) == state = "END" /\ Called(h, "receive_bill", None)

SetBill(bill) == data' = [data EXCEPT !.bill = bill]

\* The chat is not linked, or no bill can be read.
ReceiveNothing(h) ==
  /\ running[h].on = "receive_bill"
  /\ UNCHANGED <<chat, bills, world>>
  /\ Replying(h, None, "END", FALSE)

ReceiveBill(h) ==
  /\ running[h].on = "receive_bill"
  /\ \E n \in bounds.amounts, t \in bounds.texts, f \in BOOLEAN :
       SetBill([amount |-> n, text |-> t, sent |-> now, typed |-> None, fits |-> f])
  /\ UNCHANGED <<state, cards, bills, world>>
  /\ Replying(h, Summary, "CONFIRM", FALSE)

\* A tap on any message that still has its buttons, this conversation's or an
\* older one's, calls the handler that the current state has for it.
Tap(h, m) ==
  /\ state \in DOMAIN Keyboard /\ cards[m] = Keyboard[state]
  /\ \E button \in Buttons[Keyboard[state]] : Called(h, button, m)

\* session_scope closes its session without committing it.
ScopeCommits == FALSE

\* When a bill confirmed at `hour` is due: a date typed was stored as read.
DueAt(bill, hour) ==
  IF bill.typed = None THEN ParseBillDueDate(bill.text, hour) ELSE ClampToPresent(bill.typed, hour)

\* The row that is inserted, and what the agent decides about it.
RowAt(bill, hour) ==
  [bill |-> bill, due |-> DueAt(bill, hour), at |-> hour,
   verdict |-> Decide(Balance, bill.amount, Fee, DaysUntil(DueAt(bill, hour), hour))]

Insert(bill) == Append(drawn, RowAt(bill, now))

\* Whether the final confirmation is offered.
\* Mutant: to every bill that is not held.
OfferedUnlessHeld(row) == row.verdict # "hold"
Offered(row) == row.verdict = "pay_now"

\* What the agent's decision makes of the conversation: the buttons, the next
\* state, and whether user_data is cleared.  There is no next state when the
\* row to be marked scheduled is not found: bill.due_date of None raises.
Concludes(h, row, id) ==
  CASE Offered(row) -> Replying(h, "final", "FINAL_CONFIRM", FALSE)
    [] row.verdict = "hold" -> Replying(h, None, "END", TRUE)
    [] row.verdict = "schedule" ->
         IF id \in stored' THEN Replying(h, None, "END", TRUE) ELSE Becomes(h, Idle)

\* The first edit has taken the buttons; insert the bill, or fail to, and ask
\* the agent.
HandleConfirm(h) ==
  /\ running[h].on = "confirm"
  /\ cards' = [cards EXCEPT ![running[h].card] = None]
  /\ \/ data.bill = None /\ UNCHANGED <<state, data, drawn, stored>>
         /\ Replying(h, None, "END", FALSE)
     \/ data.bill # None /\ ~data.bill.fits /\ UNCHANGED <<state, data, drawn, stored>>
         /\ Becomes(h, Idle)
     \/ /\ data.bill # None /\ data.bill.fits /\ Len(drawn) < bounds.ids
        /\ drawn' = Insert(data.bill)
        /\ stored' = IF ScopeCommits THEN stored \cup {Len(drawn')} ELSE stored
        /\ data' = [data EXCEPT !.id = Len(drawn')]
        /\ UNCHANGED state
        /\ Concludes(h, drawn'[Len(drawn')], Len(drawn'))
  /\ UNCHANGED <<asked, world>>

HandleEdit(h) ==
  /\ running[h].on = "edit"
  /\ UNCHANGED <<chat, bills, world>>
  /\ Replying(h, "field", "CHOOSE_FIELD", FALSE)

\* A choice, or none ("back"); without a bill in user_data it raises.
HandleFieldChoice(h) ==
  /\ running[h].on \in {"field", "back"}
  /\ UNCHANGED <<chat, bills, world>>
  /\ IF data.bill = None THEN Becomes(h, Idle)
     ELSE IF running[h].on = "back" THEN Replying(h, Summary, "CONFIRM", FALSE)
     ELSE Replying(h, None, "EDIT_VALUE", FALSE)

\* The text typed is no amount or no date: ask again.
NewValueInvalid(h) ==
  /\ state = "EDIT_VALUE" /\ running[h] = Idle
  /\ UNCHANGED <<chat, bills, world>>
  /\ Replying(h, None, "EDIT_VALUE", FALSE)

\* An amount or another field of the row, or a date.  Without a bill in
\* user_data the handler raises, and nothing changes.
HandleNewValue(h) ==
  /\ state = "EDIT_VALUE" /\ running[h] = Idle
  /\ data.bill # None
  /\ \/ \E n \in bounds.amounts, f \in BOOLEAN :
          SetBill([data.bill EXCEPT !.amount = n, !.fits = f])
     \/ \E t \in bounds.texts : \E due \in ParseUserDate(t, now) :
          SetBill([data.bill EXCEPT !.text = t, !.sent = now, !.typed = due])
  /\ UNCHANGED <<state, cards, bills, world>>
  /\ Replying(h, Summary, "CONFIRM", FALSE)

\* The id is read, and the next edit awaited that takes the buttons.
HandleFinalConfirm(h) ==
  /\ running[h].on = "final_confirm"
  /\ UNCHANGED <<chat, bills, world>>
  /\ IF data.id = 0 THEN Replying(h, None, "END", FALSE)
     ELSE Becomes(h, [running[h] EXCEPT !.on = "paying", !.id = data.id])

\* execute_payout of that id.  Paid or refused, the last message says so and the
\* conversation ends.
ExecutePayout(h) ==
  /\ running[h].on = "paying"
  /\ cards' = [cards EXCEPT ![running[h].card] = None]
  /\ asked' = asked \cup {running[h].id}
  /\ UNCHANGED <<state, data, drawn, stored, world>>
  /\ Replying(h, None, "END", TRUE)

\* Mutants: user_data survives the cancellation; its keys are set to None.
Keeps(d) == d
ClearedToNone(d) == [bill |-> None, id |-> None]
Cleared(d) == Empty

\* The bill's row is looked up to be cancelled, in vain; no await follows.
HandleCancel(h) ==
  /\ running[h].on \in {"cancel", "final_cancel"}
  /\ state' = "END" /\ data' = Cleared(data)
  /\ cards' = [cards EXCEPT ![running[h].card] = None]
  /\ UNCHANGED <<bills, world>>
  /\ Becomes(h, Idle)

\* The command /cancel; the messages keep their buttons.
CancelCommand(h) ==
  /\ state # "END" /\ running[h] = Idle
  /\ data' = Cleared(data)
  /\ UNCHANGED <<state, cards, bills, world>>
  /\ Replying(h, None, "END", FALSE)

ConvStep(h) ==
  \/ SendBill(h) \/ ReceiveNothing(h) \/ ReceiveBill(h)
  \/ \E m \in Messages : Tap(h, m)
  \/ HandleConfirm(h) \/ HandleEdit(h) \/ HandleFieldChoice(h)
  \/ NewValueInvalid(h) \/ HandleNewValue(h)
  \/ HandleFinalConfirm(h) \/ ExecutePayout(h)
  \/ HandleCancel(h) \/ CancelCommand(h)
  \/ Return(h) \/ TelegramFails(h)

Quiet == \A h \in Slots : running[h] = Idle

\* Time passes between two updates.
Rest ==
  /\ Quiet /\ now + Pause <= Start + bounds.rests * Pause
  /\ now' = now + Pause
  /\ UNCHANGED <<chat, bills, running, failures, bounds>>

ConvNext == Rest \/ \E h \in bounds.slots : ConvStep(h)

ConvSpec == ConvInit /\ [][ConvNext]_convVars

-----------------------------------------------------------------------------
\* The user confirmed the bill in user_data, and the agent judged it payable.
Agreed(id) == drawn[id].verdict = "pay_now" /\ drawn[id].bill = data.bill

\* The final confirmation would pay another bill, or one held or scheduled.
Misled == state = "FINAL_CONFIRM" /\ data.id # 0 /\ ~Agreed(data.id)

ByOvertaken == \E h \in Slots : running[h].overtaken /\ running'[h] # running[h]

\* What the final confirmation offers to pay, and what a payout is then asked
\* for, is the bill of the last summary the user confirmed, with its edits, and
\* the agent judged it payable, also after replies that failed and older messages
\* tapped.  Only a handler that another one overtook while it awaited Telegram
\* brings the chat to offer, or pays, anything else (bill_conversation.py:3-8).
OnlyOvertakenMislead ==
  [][~Misled => (~Misled' /\ \A id \in asked' \ asked : Agreed(id)) \/ ByOvertaken]_convVars

\* An ended conversation has an id behind it, which the final confirmation of a
\* later one might pay.
Left == state = "END" /\ data.id # 0

\* Only a handler that was overtaken leaves one.
OnlyOvertakenLeaveId == [][~Left /\ Left' => ByOvertaken]_convVars

\* While Telegram answers, the user always has a button for the current state
\* or may type, whatever overlaps.  The exceptions are a bill to be scheduled and
\* a bill its table does not take: the handler of its confirmation raises after
\* the buttons are gone, and the chat hears only /cancel.
StuckOnlyAfterConfirm ==
  /\ Quiet /\ failures = 0 /\ state \in DOMAIN Keyboard
  /\ \A m \in Messages : cards[m] # Keyboard[state]
  => \/ data.id # 0 /\ drawn[data.id].verdict = "schedule"
     \/ data.bill # None /\ ~data.bill.fits

\* A text that can be read one way only, in a notation that whoever reads it has
\* a format for.
ReadPlainly(bill) ==
  Plain(bill.text) /\ (bill.text.form = "other" => bill.typed # None)

\* However long a chat rests between its messages, a bill is stored as due when
\* its sender meant, or at once if that is past: for a date that can be read one
\* way only, for one with the day first that was extracted and one with the
\* month first that was typed.  An extracted date in a notation without a format,
\* as "Mar 15 2026", is due at once.  "In 4 days" is counted from the
\* confirmation; an offset or a year left out never puts a bill off by more than
\* the offset.
DueAsMeant ==
  \A i \in DOMAIN drawn :
    LET row == drawn[i]
        text == row.bill.text
        meant == Meant(text, row.bill.sent)
    IN  /\ \/ ReadPlainly(row.bill)
           \/ text.form = (IF row.bill.typed = None THEN "slash" ELSE "slashUS")
           => row.due = IF meant < row.at THEN row.at ELSE meant
        /\ text.form = "other" /\ row.bill.typed = None => row.due = row.at
        /\ text.form = "in" /\ row.bill.typed = None
           => row.due - meant = row.at - row.bill.sent
        /\ text.form \in {"zoned", "yearless"}
           => row.due <= (IF meant < row.at THEN row.at ELSE meant) + 1

\* A bill with a date its reader knows and that can be read one way only is not
\* judged payable before the cutoff: that is in the last CutoffDays + 1 days
\* before it is due, or later.
NotOfferedEarly ==
  \A i \in DOMAIN drawn :
    LET bill == drawn[i].bill
    IN  drawn[i].verdict = "pay_now" /\ ReadPlainly(bill) =>
          Meant(bill.text, bill.sent) <= drawn[i].at + (CutoffDays + 1) * Day

\* bill_conversation.py:177 and DOCUMENTATION.md 3.3: the confirmed bill is
\* persisted before the agent decides and before the final confirmation.
ConfirmedBillStored == state = "FINAL_CONFIRM" /\ Quiet => data.id \in stored
=============================================================================
