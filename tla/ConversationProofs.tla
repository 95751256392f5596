------------------------- MODULE ConversationProofs -------------------------
(***************************************************************************)
(* Theorems about the bill conversation, for any texts, amounts, balance   *)
(* and fee, any number of bills, failures and rests, and any number of     *)
(* updates handled at a time.                                              *)
(***************************************************************************)
EXTENDS Conversation, TLAPS

-----------------------------------------------------------------------------
\* Reading a date gives a time.
LEMMA MidnightInt ==
  ASSUME NEW d \in Nat, NEW m \in Nat, Exists(d, m)
  PROVE  Midnight(d, m) \in Int
<1>1. DaysBefore[m] \in Nat
  BY DEF Exists, DaysBefore
<1>2. QED BY <1>1 DEF Midnight, Day

LEMMA DatesInt ==
  ASSUME NEW d \in Nat, NEW m \in Nat, NEW x \in Dates(d, m)
  PROVE  x \in Int /\ x = Midnight(d, m) /\ Exists(d, m)
BY MidnightInt DEF Dates

LEMMA ParsedInt ==
  ASSUME NEW t \in Text, NEW n \in Nat, NEW x \in Parsed(t, n)
  PROVE  x \in Int
<1>1. t.a \in Nat /\ t.b \in Nat /\ t.form \in Forms
  BY DEF Text
<1>2. CASE t.form \in {"iso", "zoned"}
  BY <1>1, <1>2, DatesInt DEF Parsed
<1>3. CASE t.form \in {"slash", "slashUS"}
  <2>1. x \in DayFirst(t.a, t.b)
    BY <1>3 DEF Parsed
  <2>2. x \in Dates(t.a, t.b) \/ x \in Dates(t.b, t.a)
    BY <2>1 DEF DayFirst
  <2>3. QED BY <1>1, <2>2, DatesInt
<1>4. CASE t.form = "yearless"
  BY <1>1, <1>4, DatesInt DEF Parsed
<1>5. CASE t.form = "in"
  BY <1>1, <1>5 DEF Parsed, Day
<1>6. CASE t.form \in {"other", "none"}
  BY <1>6 DEF Parsed
<1>7. QED BY <1>1, <1>2, <1>3, <1>4, <1>5, <1>6 DEF Forms

\* A bill is never due before the moment it is read.
LEMMA NeverPast ==
  ASSUME NEW t \in Text, NEW n \in Nat
  PROVE  /\ ParseBillDueDate(t, n) \in Int
         /\ ParseBillDueDate(t, n) >= n
<1>1. CASE Parsed(t, n) = {}
  BY <1>1 DEF ParseBillDueDate
<1>2. CASE Parsed(t, n) # {}
  <2> DEFINE x == CHOOSE due \in Parsed(t, n) : TRUE
  <2>1. x \in Int
    <3>1. x \in Parsed(t, n)
      BY <1>2
    <3>2. QED BY <3>1, ParsedInt
  <2>2. ParseBillDueDate(t, n) = ClampToPresent(x, n)
    BY <1>2 DEF ParseBillDueDate
  <2> HIDE DEF x
  <2>3. QED BY <2>1, <2>2 DEF ClampToPresent
<1>3. QED BY <1>1, <1>2

LEMMA TypedInt ==
  ASSUME NEW t \in Text, NEW n \in Nat, NEW x \in ParseUserDate(t, n)
  PROVE  x \in Int
<1>1. t.a \in Nat /\ t.b \in Nat /\ t.form \in Forms
  BY DEF Text
<1>2. CASE t.form \in {"iso", "zoned", "other"}
  BY <1>1, <1>2, DatesInt DEF ParseUserDate
<1>3. CASE t.form \in {"slash", "slashUS"}
  <2>1. x \in Dates(t.a, t.b) \/ x \in Dates(t.b, t.a)
    BY <1>3 DEF ParseUserDate
  <2>2. QED BY <1>1, <2>1, DatesInt
<1>4. CASE t.form = "yearless"
  BY <1>1, <1>4, DatesInt DEF ParseUserDate
<1>5. CASE t.form = "in"
  <2>1. PICK m \in 1..12 : x \in Dates(t.a, m)
    BY <1>5 DEF ParseUserDate, DatesOfThisMonth
  <2>2. QED BY <1>1, <2>1, DatesInt
<1>6. CASE t.form = "none"
  BY <1>6 DEF ParseUserDate
<1>7. QED BY <1>1, <1>2, <1>3, <1>4, <1>5, <1>6 DEF Forms

-----------------------------------------------------------------------------
\* The text of a bill gives the date typed, if one was.
Read(bill) ==
  bill \in Draft /\ (bill.typed # None => bill.typed \in ParseUserDate(bill.text, bill.sent))

LEMMA DraftParts ==
  ASSUME NEW bill \in Draft
  PROVE  /\ bill.amount \in Int /\ bill.fits \in BOOLEAN /\ bill.text \in Texts
         /\ bill.text \in Text /\ NamesADay(bill.text)
         /\ bill.sent \in Nat /\ bill.typed \in Int \cup {None} /\ bill # None
BY ConversationAssumption DEF Draft, ConversationAssumption

\* A bill as it is received and as it is edited.
LEMMA ReceivedRead ==
  ASSUME NEW n \in Amounts, NEW t \in Texts, NEW s \in Nat, NEW f \in BOOLEAN
  PROVE  Read([amount |-> n, text |-> t, sent |-> s, typed |-> None, fits |-> f])
<1> DEFINE b == [amount |-> n, text |-> t, sent |-> s, typed |-> None, fits |-> f]
<1>1. b \in Draft /\ b.typed = None
  BY DEF Draft
<1>2. Read(b)
  <2> HIDE DEF b
  <2>1. QED BY <1>1 DEF Read
<1>3. QED BY <1>2

LEMMA AmountRead ==
  ASSUME NEW bill, Read(bill), NEW n \in Amounts, NEW f \in BOOLEAN
  PROVE  Read([bill EXCEPT !.amount = n, !.fits = f])
<1> DEFINE b == [bill EXCEPT !.amount = n, !.fits = f]
<1>1. bill \in Draft
  BY DEF Read
<1>2. b \in Draft /\ b.typed = bill.typed /\ b.text = bill.text /\ b.sent = bill.sent
  BY <1>1 DEF Draft
<1>3. Read(b)
  <2> HIDE DEF b
  <2>1. QED BY <1>2 DEF Read
<1>4. QED BY <1>3

LEMMA DateRead ==
  ASSUME NEW bill, Read(bill), NEW t \in Texts, NEW s \in Nat, NEW due \in ParseUserDate(t, s)
  PROVE  Read([bill EXCEPT !.text = t, !.sent = s, !.typed = due])
<1> DEFINE b == [bill EXCEPT !.text = t, !.sent = s, !.typed = due]
<1>1. bill \in Draft /\ due \in Int
  BY TypedInt, ConversationAssumption DEF Read, ConversationAssumption
<1>2. b \in Draft /\ b.typed = due /\ b.text = t /\ b.sent = s
  BY <1>1 DEF Draft
<1>3. Read(b)
  <2> HIDE DEF b
  <2>1. QED BY <1>2 DEF Read
<1>4. QED BY <1>3

-----------------------------------------------------------------------------
\* A row says what its bill said when it was inserted.
Judged(row) == row \in Row /\ Read(row.bill) /\ row = RowAt(row.bill, row.at)

LEMMA DueInt ==
  ASSUME NEW bill, Read(bill), NEW n \in Nat
  PROVE  DueAt(bill, n) \in Int
<1>1. bill \in Draft /\ bill.typed \in Int \cup {None} /\ bill.text \in Text
  BY DraftParts DEF Read
<1>2. CASE bill.typed = None
  BY <1>1, <1>2, NeverPast DEF DueAt
<1>3. CASE bill.typed # None
  BY <1>1, <1>3 DEF DueAt, ClampToPresent
<1>4. QED BY <1>2, <1>3

LEMMA InsertedJudged ==
  ASSUME NEW bill, Read(bill), NEW n \in Nat
  PROVE  Judged(RowAt(bill, n)) /\ RowAt(bill, n).bill = bill
<1> DEFINE due == DueAt(bill, n)
           days == DaysUntil(due, n)
           v == Decide(Balance, bill.amount, Fee, days)
           r == [bill |-> bill, due |-> due, at |-> n, verdict |-> v]
<1>1. bill \in Draft /\ bill.amount \in Int
  BY DraftParts DEF Read
<1>2. due \in Int
  BY DueInt
<1> HIDE DEF due
<1>3. days \in Int
  BY <1>2 DEF DaysUntil, Day
<1> HIDE DEF days
<1>4. v \in Decisions
  BY <1>1, <1>3, ConversationAssumption DEF ConversationAssumption, Decide, Decisions, CutoffDays
<1> HIDE DEF v
<1>5. r \in Row /\ r.bill = bill /\ r.at = n
  BY <1>1, <1>2, <1>4 DEF Row
<1>6. r = RowAt(bill, n)
  BY DEF RowAt, due, days, v
<1> HIDE DEF r
<1>7. QED BY <1>5, <1>6 DEF Judged

LEMMA Appended ==
  ASSUME NEW S, NEW s \in Seq(S), NEW r \in S
  PROVE  /\ Append(s, r) \in Seq(S) /\ Len(Append(s, r)) = Len(s) + 1 /\ Len(s) \in Nat
         /\ DOMAIN s = 1..Len(s) /\ DOMAIN Append(s, r) = 1..(Len(s) + 1)
         /\ \A i \in 1..Len(s) : Append(s, r)[i] = s[i]
         /\ Append(s, r)[Len(s) + 1] = r
OBVIOUS
-----------------------------------------------------------------------------
\* What a text is read as, when it can be read one way only.
LEMMA Extracted ==
  ASSUME NEW t \in Text, NamesADay(t), NEW n \in Nat, NEW s \in Nat
  PROVE  /\ (Plain(t) /\ t.form # "other") \/ t.form = "slash" => Parsed(t, n) = {Meant(t, s)}
         /\ t.form = "other" => Parsed(t, n) = {}
         /\ t.form = "zoned" => Parsed(t, n) = {Meant(t, s) + 1}
         /\ t.form = "yearless" => Parsed(t, n) = {Midnight(t.a, t.b)}
         /\ t.form = "in" => Parsed(t, n) = {n + t.a * Day}
<1>1. t.a \in Nat /\ t.b \in Nat
  BY DEF Text
<1>2. CASE t.form = "iso"
  <2>1. Exists(t.b, t.a)
    BY <1>2 DEF NamesADay
  <2>2. QED BY <1>2, <2>1 DEF Parsed, Dates, Meant
<1>3. CASE t.form = "zoned"
  <2>1. Exists(t.b, t.a)
    BY <1>3 DEF NamesADay
  <2>2. Parsed(t, n) = {Midnight(t.b, t.a)} /\ Meant(t, s) = Midnight(t.b, t.a) - 1
    BY <1>3, <2>1 DEF Parsed, Dates, Meant
  <2>3. Midnight(t.b, t.a) \in Int
    BY <1>1, <2>1, MidnightInt
  <2>4. Midnight(t.b, t.a) = Meant(t, s) + 1
    BY <2>2, <2>3
  <2>5. QED BY <1>3, <2>2, <2>4 DEF Plain
<1>4. CASE t.form = "slash"
  <2>1. Exists(t.a, t.b)
    BY <1>4 DEF NamesADay
  <2>2. QED BY <1>4, <2>1 DEF Parsed, DayFirst, Dates, Meant
<1>5. CASE t.form = "slashUS"
  <2>1. Exists(t.b, t.a) /\ t.a \in 1..12
    BY <1>5 DEF NamesADay, Exists
  <2>2. Parsed(t, n) = DayFirst(t.a, t.b) /\ Meant(t, s) = Midnight(t.b, t.a)
    BY <1>5 DEF Parsed, Meant
  <2>3. CASE t.a = t.b
    BY <1>5, <2>1, <2>2, <2>3 DEF DayFirst, Dates
  <2>4. CASE t.b > 12
    <3>1. ~Exists(t.a, t.b)
      BY <1>1, <2>4 DEF Exists
    <3>2. QED BY <1>5, <2>1, <2>2, <3>1 DEF DayFirst, Dates
  <2>5. QED BY <1>1, <1>5, <2>1, <2>3, <2>4 DEF Plain
<1>6. CASE t.form = "yearless"
  <2>1. Exists(t.a, t.b)
    BY <1>6 DEF NamesADay
  <2>2. QED BY <1>6, <2>1 DEF Parsed, Dates, Plain
<1>7. CASE t.form = "in"
  BY <1>7 DEF Parsed, Plain
<1>8. CASE t.form \in {"other", "none"}
  BY <1>8 DEF Plain, Parsed
<1>9. t.form \in Forms
  BY DEF Text
<1>10. QED BY <1>2, <1>3, <1>4, <1>5, <1>6, <1>7, <1>8, <1>9 DEF Forms

LEMMA Typed ==
  ASSUME NEW t \in Text, NamesADay(t), NEW n \in Nat, NEW s \in Nat, NEW x \in ParseUserDate(t, n)
  PROVE  /\ Plain(t) \/ t.form = "slashUS" => x = Meant(t, s)
         /\ t.form = "zoned" => x = Meant(t, s) + 1
         /\ t.form = "yearless" => x = Midnight(t.a, t.b)
<1>1. t.a \in Nat /\ t.b \in Nat
  BY DEF Text
<1>2. CASE t.form \in {"iso", "zoned", "other"}
  <2>1. x = Midnight(t.b, t.a) /\ x \in Int
    BY <1>1, <1>2, DatesInt DEF ParseUserDate
  <2>2. QED BY <1>2, <2>1 DEF Meant, Plain
<1>3. CASE t.form = "slash"
  <2>1. Exists(t.a, t.b) /\ t.b \in 1..12
    BY <1>3 DEF NamesADay, Exists
  <2>2. CASE t.a > 12
    <3>1. x \in Dates(t.a, t.b)
      BY <1>3, <2>2 DEF ParseUserDate
    <3>2. QED BY <1>3, <2>1, <3>1 DEF Dates, Meant
  <2>3. CASE t.a = t.b
    <3>1. x \in Dates(t.a, t.b)
      BY <1>3, <2>3 DEF ParseUserDate
    <3>2. QED BY <1>3, <2>1, <3>1 DEF Dates, Meant
  <2>4. QED BY <1>1, <1>3, <2>1, <2>2, <2>3 DEF Plain
<1>4. CASE t.form = "slashUS"
  <2>1. Exists(t.b, t.a) /\ t.a \in 1..12
    BY <1>4 DEF NamesADay, Exists
  <2>2. x \in Dates(t.b, t.a)
    BY <1>1, <1>4, <2>1 DEF ParseUserDate
  <2>3. QED BY <1>4, <2>1, <2>2 DEF Dates, Meant
<1>5. CASE t.form = "yearless"
  <2>1. x \in Dates(t.a, t.b)
    BY <1>5 DEF ParseUserDate
  <2>2. QED BY <1>1, <1>5, <2>1, DatesInt DEF Plain
<1>6. CASE t.form \in {"in", "none"}
  BY <1>6 DEF Plain
<1>7. t.form \in Forms
  BY DEF Text
<1>8. QED BY <1>2, <1>3, <1>4, <1>5, <1>6, <1>7 DEF Forms

LEMMA OnlyReading ==
  ASSUME NEW t, NEW n, NEW x, Parsed(t, n) = {x}
  PROVE  ParseBillDueDate(t, n) = ClampToPresent(x, n)
<1>1. (CHOOSE due \in Parsed(t, n) : TRUE) = x
  OBVIOUS
<1>2. QED BY <1>1 DEF ParseBillDueDate

\* The due date of a row, from its text.
LEMMA DueRead ==
  ASSUME NEW row, Judged(row)
  PROVE  LET bill == row.bill
             text == bill.text
             meant == Meant(text, bill.sent)
         IN  /\ \/ ReadPlainly(bill)
                \/ text.form = "slash" /\ bill.typed = None
                \/ text.form = "slashUS" /\ bill.typed # None
                => row.due = ClampToPresent(meant, row.at)
             /\ text.form = "other" /\ bill.typed = None => row.due = row.at
             /\ text.form = "in" /\ bill.typed = None
                => row.due = ClampToPresent(row.at + text.a * Day, row.at)
             /\ text.form = "zoned" => row.due = ClampToPresent(meant + 1, row.at)
             /\ text.form = "yearless" => row.due = ClampToPresent(Midnight(text.a, text.b), row.at)
<1> DEFINE bill == row.bill
           text == bill.text
<1>1. /\ bill \in Draft /\ row.at \in Nat /\ row.due = DueAt(bill, row.at)
      /\ bill.typed # None => bill.typed \in ParseUserDate(text, bill.sent)
  BY DEF Judged, Read, Row, RowAt
<1>2. text \in Text /\ NamesADay(text) /\ bill.sent \in Nat
  BY <1>1, DraftParts
<1>3. CASE bill.typed = None
  <2>1. row.due = ParseBillDueDate(text, row.at)
    BY <1>1, <1>3 DEF DueAt
  <2>2. /\ (Plain(text) /\ text.form # "other") \/ text.form = "slash"
           => Parsed(text, row.at) = {Meant(text, bill.sent)}
        /\ text.form = "other" => Parsed(text, row.at) = {}
        /\ text.form = "zoned" => Parsed(text, row.at) = {Meant(text, bill.sent) + 1}
        /\ text.form = "yearless" => Parsed(text, row.at) = {Midnight(text.a, text.b)}
        /\ text.form = "in" => Parsed(text, row.at) = {row.at + text.a * Day}
    BY <1>1, <1>2, Extracted
  <2>3. text.form = "other" => row.due = row.at
    BY <2>1, <2>2 DEF ParseBillDueDate
  <2>4. ReadPlainly(bill) => Plain(text) /\ text.form # "other"
    BY <1>3 DEF ReadPlainly
  <2>5. QED BY <1>3, <2>1, <2>2, <2>3, <2>4, OnlyReading
<1>4. CASE bill.typed # None
  <2>1. row.due = ClampToPresent(bill.typed, row.at)
    BY <1>1, <1>4 DEF DueAt
  <2>2. /\ Plain(text) \/ text.form = "slashUS" => bill.typed = Meant(text, bill.sent)
        /\ text.form = "zoned" => bill.typed = Meant(text, bill.sent) + 1
        /\ text.form = "yearless" => bill.typed = Midnight(text.a, text.b)
    BY <1>1, <1>2, <1>4, Typed
  <2>3. ReadPlainly(bill) => Plain(text)
    BY DEF ReadPlainly
  <2>4. QED BY <1>4, <2>1, <2>2, <2>3
<1>5. QED BY <1>3, <1>4

LEMMA MeantInt ==
  ASSUME NEW t \in Text, NamesADay(t), NEW s \in Nat
  PROVE  /\ Meant(t, s) \in Int
         /\ t.form = "in" => Meant(t, s) = s + t.a * Day
         /\ t.form = "yearless" => /\ Midnight(t.a, t.b) \in Int
                                   /\ Midnight(t.a, t.b) <= Meant(t, s)
<1>1. t.a \in Nat /\ t.b \in Nat /\ t.form \in Forms
  BY DEF Text
<1>2. CASE t.form \in {"iso", "zoned", "slashUS", "other"}
  <2>1. Midnight(t.b, t.a) \in Int
    BY <1>1, <1>2, MidnightInt DEF NamesADay
  <2>2. QED BY <1>2, <2>1 DEF Meant
<1>3. CASE t.form = "slash"
  <2>1. Midnight(t.a, t.b) \in Int
    BY <1>1, <1>3, MidnightInt DEF NamesADay
  <2>2. QED BY <1>3, <2>1 DEF Meant
<1>4. CASE t.form = "yearless"
  <2>1. Midnight(t.a, t.b) \in Int
    BY <1>1, <1>4, MidnightInt DEF NamesADay
  <2>2. QED BY <1>4, <2>1 DEF Meant, Day
<1>5. CASE t.form = "in"
  BY <1>1, <1>5 DEF Meant, Day
<1>6. CASE t.form = "none"
  BY <1>6 DEF Meant
<1>7. QED BY <1>1, <1>2, <1>3, <1>4, <1>5, <1>6 DEF Forms

-----------------------------------------------------------------------------
(* The inductive invariant.  What a handler does next fits the state and       *)
(* user_data as long as no other handler has changed them: only overtaken      *)
(* handlers are outside of it.                                                 *)

Offers(d, rows) == d.id # 0 => rows[d.id].verdict = "pay_now" /\ rows[d.id].bill = d.bill

DataFits(d, rows) ==
  /\ d.id # 0 => d.id \in DOMAIN rows
  /\ d.bill # None => Read(d.bill)
  /\ d.bill = None => d.id = 0

\* A handler waits in the state it was called in, which its reply then changes.
HandlerFits(x, st, d, rows) ==
  /\ x.on = "receive_bill" => st = "END"
  /\ x.on \in {"confirm", "edit", "cancel"} => st = "CONFIRM"
  /\ x.on \in {"final_confirm", "final_cancel", "paying"} => st = "FINAL_CONFIRM"
  /\ x.on = "paying" => d.id = x.id
  /\ x.on = "reply" /\ x.next = "END" => x.clear \/ d.id = 0 \/ st = "END"
  /\ x.on = "reply" /\ x.next = "FINAL_CONFIRM" => ~x.clear /\ Offers(d, rows)

\* The id that is to be paid is a row's; a reply that leads to a state with
\* buttons brings them.
Shaped(x, rows) ==
  /\ x.on = "paying" => x.id \in 1..Len(rows)
  /\ x.on = "reply" /\ x.next \in DOMAIN Keyboard => x.shows = Keyboard[x.next]

RowsJudged == \A i \in DOMAIN drawn : Judged(drawn[i])

ChatInv ==
  /\ ConvTypeOK /\ RowsJudged /\ DataFits(data, drawn)
  /\ \A h \in Slots :
       /\ Shaped(running[h], drawn)
       /\ running[h].overtaken \/ HandlerFits(running[h], state, data, drawn)

-----------------------------------------------------------------------------
\* The records of the state, and what the actions make of them.
DataRec == [bill : Draft \cup {None}, id : Nat]
Cards == [Messages -> DOMAIN Buttons \cup {None}]
Shows == DOMAIN Buttons \cup {None}

LEMMA RunningParts ==
  ASSUME NEW x \in Running
  PROVE  /\ x.on \in Handlers /\ x.card \in Messages \cup {None} /\ x.shows \in Shows
         /\ x.next \in States /\ x.clear \in BOOLEAN /\ x.id \in Nat /\ x.overtaken \in BOOLEAN
BY DEF Running, Shows

LEMMA IdleRec ==
  /\ Idle \in Running /\ Idle.on = "idle" /\ Idle.overtaken = FALSE
  /\ Idle.card = None /\ Idle.id = 0
<1>1. "idle" \in Handlers /\ "END" \in States
  BY DEF Handlers, States
<1>2. QED BY <1>1 DEF Idle, Running

LEMMA OvertakenRec ==
  ASSUME NEW x \in Running
  PROVE  LET y == [x EXCEPT !.overtaken = TRUE] IN
         /\ y \in Running /\ y.overtaken = TRUE /\ y.on = x.on /\ y.id = x.id
         /\ y.shows = x.shows /\ y.next = x.next
BY DEF Running

LEMMA CalledRec ==
  ASSUME NEW name \in Handlers, NEW card \in Messages \cup {None}
  PROVE  LET y == [Idle EXCEPT !.on = name, !.card = card] IN
         y \in Running /\ y.on = name /\ y.overtaken = FALSE
<1>1. "END" \in States
  BY DEF States
<1>2. QED BY <1>1 DEF Idle, Running

ReplyOf(x, s, n, c) == [x EXCEPT !.on = "reply", !.shows = s, !.next = n, !.clear = c]

LEMMA ReplyRec ==
  ASSUME NEW x \in Running, NEW s \in Shows, NEW n \in States, NEW c \in BOOLEAN
  PROVE  /\ ReplyOf(x, s, n, c) \in Running /\ ReplyOf(x, s, n, c).on = "reply"
         /\ ReplyOf(x, s, n, c).shows = s /\ ReplyOf(x, s, n, c).next = n
         /\ ReplyOf(x, s, n, c).clear = c /\ ReplyOf(x, s, n, c).overtaken = x.overtaken
<1>1. "reply" \in Handlers
  BY DEF Handlers
<1>2. QED BY <1>1 DEF Running, Shows, ReplyOf

LEMMA PayingRec ==
  ASSUME NEW x \in Running, NEW i \in Nat
  PROVE  LET y == [x EXCEPT !.on = "paying", !.id = i] IN
         y \in Running /\ y.on = "paying" /\ y.id = i /\ y.overtaken = x.overtaken
<1>1. "paying" \in Handlers
  BY DEF Handlers
<1>2. QED BY <1>1 DEF Running

LEMMA EmptyData == Empty \in DataRec /\ Empty.bill = None /\ Empty.id = 0
BY DEF Empty, DataRec

LEMMA DataParts ==
  ASSUME ConvTypeOK
  PROVE  data \in DataRec /\ data.bill \in Draft \cup {None} /\ data.id \in Nat
BY DEF ConvTypeOK, DataRec

LEMMA DataBill ==
  ASSUME NEW d \in DataRec, NEW b \in Draft
  PROVE  /\ [d EXCEPT !.bill = b] \in DataRec
         /\ [d EXCEPT !.bill = b].bill = b /\ [d EXCEPT !.bill = b].id = d.id
BY DEF DataRec

LEMMA DataId ==
  ASSUME NEW d \in DataRec, NEW i \in Nat
  PROVE  /\ [d EXCEPT !.id = i] \in DataRec
         /\ [d EXCEPT !.id = i].id = i /\ [d EXCEPT !.id = i].bill = d.bill
BY DEF DataRec

LEMMA BoundsParts ==
  ASSUME ConvTypeOK
  PROVE  /\ bounds.slots \subseteq Slots /\ bounds.amounts \subseteq Amounts
         /\ bounds.texts \subseteq Texts /\ now \in Nat /\ failures \in Nat
<1>1. bounds \in History
  BY ConversationAssumption DEF ConversationAssumption, ConvTypeOK
<1>2. QED BY <1>1 DEF History, ConvTypeOK

-----------------------------------------------------------------------------
\* The other slots go on as they were, or were overtaken.
OthersKept(h) ==
  \A g \in Slots \ {h} :
    /\ running'[g].on = running[g].on /\ running'[g].id = running[g].id
    /\ running'[g].shows = running[g].shows /\ running'[g].next = running[g].next
    /\ \/ running'[g].overtaken
       \/ running'[g] = running[g] /\ running[g] = Idle
       \/ running'[g] = running[g] /\ state' = state /\ data' = data

\* The slot's handler is `x` now.
GoesOn(h, x) == running' \in [Slots -> Running] /\ running'[h] = x /\ OthersKept(h)

LEMMA BecomesX ==
  ASSUME ConvTypeOK, NEW h \in Slots, NEW x \in Running, Becomes(h, x)
  PROVE  GoesOn(h, x)
<1> DEFINE changed == <<state', data'>> # <<state, data>>
<1>1. running' = [g \in Slots |->
        IF g = h THEN x
        ELSE IF changed /\ running[g] # Idle THEN [running[g] EXCEPT !.overtaken = TRUE]
        ELSE running[g]]
  BY DEF Becomes
<1>2. \A g \in Slots : running[g] \in Running
  BY DEF ConvTypeOK
<1>3. ~changed => state' = state /\ data' = data
  OBVIOUS
<1> HIDE DEF changed
<1>4. running' \in [Slots -> Running] /\ running'[h] = x
  BY <1>1, <1>2, OvertakenRec
<1>5. OthersKept(h)
  <2> SUFFICES ASSUME NEW g \in Slots \ {h}
               PROVE  /\ running'[g].on = running[g].on /\ running'[g].id = running[g].id
                      /\ running'[g].shows = running[g].shows /\ running'[g].next = running[g].next
                      /\ \/ running'[g].overtaken
                         \/ running'[g] = running[g] /\ running[g] = Idle
                         \/ running'[g] = running[g] /\ state' = state /\ data' = data
    BY DEF OthersKept
  <2>1. CASE changed /\ running[g] # Idle
    BY <1>1, <1>2, <2>1, OvertakenRec
  <2>2. CASE ~(changed /\ running[g] # Idle)
    BY <1>1, <1>3, <2>2
  <2>3. QED BY <2>1, <2>2
<1>6. QED BY <1>4, <1>5 DEF GoesOn

LEMMA EndsX ==
  ASSUME ConvTypeOK, NEW h \in Slots, Becomes(h, Idle)
  PROVE  GoesOn(h, Idle)
BY BecomesX, IdleRec

LEMMA CalledX ==
  ASSUME ConvTypeOK, NEW h \in Slots, NEW name \in Handlers, NEW card \in Messages \cup {None},
         Called(h, name, card)
  PROVE  \E x \in Running : GoesOn(h, x) /\ x.on = name /\ x.overtaken = FALSE
<1> DEFINE x == [Idle EXCEPT !.on = name, !.card = card]
<1>1. x \in Running /\ x.on = name /\ x.overtaken = FALSE
  BY CalledRec
<1>2. Becomes(h, x)
  BY DEF Called
<1> HIDE DEF x
<1>3. GoesOn(h, x)
  BY <1>1, <1>2, BecomesX
<1>4. QED BY <1>1, <1>3

LEMMA RepliesX ==
  ASSUME ConvTypeOK, NEW h \in Slots, NEW s \in Shows, NEW n \in States, NEW c \in BOOLEAN,
         Replying(h, s, n, c)
  PROVE  \E x \in Running : /\ GoesOn(h, x) /\ x.on = "reply" /\ x.shows = s /\ x.next = n
                            /\ (x.clear <=> c) /\ x.overtaken = running[h].overtaken
<1> DEFINE x == ReplyOf(running[h], s, n, c)
<1>1. running[h] \in Running
  BY DEF ConvTypeOK
<1>2. /\ x \in Running /\ x.on = "reply" /\ x.shows = s /\ x.next = n /\ (x.clear <=> c)
      /\ x.overtaken = running[h].overtaken
  BY <1>1, ReplyRec
<1>3. Becomes(h, x)
  BY DEF Replying, ReplyOf
<1> HIDE DEF x
<1>4. GoesOn(h, x)
  BY <1>2, <1>3, BecomesX
<1>5. QED BY <1>2, <1>4

\* What the replies show and lead to.
LEMMA Replies ==
  /\ None \in Shows /\ "confirm" \in Shows /\ "field" \in Shows /\ "final" \in Shows
  /\ {"END", "CONFIRM", "CHOOSE_FIELD", "EDIT_VALUE", "FINAL_CONFIRM"} = States
  /\ DOMAIN Keyboard = {"CONFIRM", "CHOOSE_FIELD", "FINAL_CONFIRM"}
  /\ Keyboard["CONFIRM"] = "confirm" /\ Keyboard["CHOOSE_FIELD"] = "field"
  /\ Keyboard["FINAL_CONFIRM"] = "final"
BY DEF Shows, Buttons, States, Keyboard

\* The last reply of a conversation that clears user_data, and the offer.
LEMMA LastReplyX ==
  ASSUME ConvTypeOK, NEW h \in Slots, Replying(h, None, "END", TRUE)
  PROVE  \E x \in Running : /\ GoesOn(h, x) /\ x.on = "reply" /\ x.next = "END"
                            /\ x.clear /\ x.overtaken = running[h].overtaken
<1> DEFINE x == [running[h] EXCEPT !.on = "reply", !.shows = None, !.next = "END", !.clear = TRUE]
<1>1. running[h] \in Running /\ "reply" \in Handlers /\ "END" \in States
  BY DEF ConvTypeOK, Handlers, States
<1>2. /\ x \in Running /\ x.on = "reply" /\ x.next = "END" /\ x.clear
      /\ x.overtaken = running[h].overtaken
  BY <1>1 DEF Running
<1>3. Becomes(h, x)
  BY DEF Replying
<1> HIDE DEF x
<1>4. GoesOn(h, x)
  BY <1>2, <1>3, BecomesX
<1>5. QED BY <1>2, <1>4

LEMMA OfferX ==
  ASSUME ConvTypeOK, NEW h \in Slots, Replying(h, "final", "FINAL_CONFIRM", FALSE)
  PROVE  \E x \in Running : /\ GoesOn(h, x) /\ x.on = "reply" /\ x.next = "FINAL_CONFIRM"
                            /\ x.shows = "final" /\ ~x.clear /\ x.overtaken = running[h].overtaken
<1> DEFINE x == [running[h] EXCEPT !.on = "reply", !.shows = "final", !.next = "FINAL_CONFIRM",
                                   !.clear = FALSE]
<1>1. /\ running[h] \in Running /\ "reply" \in Handlers /\ "FINAL_CONFIRM" \in States
      /\ "final" \in DOMAIN Buttons
  BY DEF ConvTypeOK, Handlers, States, Buttons
<1>2. /\ x \in Running /\ x.on = "reply" /\ x.next = "FINAL_CONFIRM" /\ x.shows = "final"
      /\ ~x.clear /\ x.overtaken = running[h].overtaken
  BY <1>1 DEF Running
<1>3. Becomes(h, x)
  BY DEF Replying
<1> HIDE DEF x
<1>4. GoesOn(h, x)
  BY <1>2, <1>3, BecomesX
<1>5. QED BY <1>2, <1>4

\* The message of a handler has one of the keyboards, or none, afterwards.
LEMMA DeliveredCards ==
  ASSUME ConvTypeOK, NEW h \in Slots, Delivered(h)
  PROVE  cards' \in Cards
<1>1. cards \in Cards /\ running[h].shows \in Shows
  BY RunningParts DEF ConvTypeOK, Cards
<1>2. QED BY <1>1 DEF Delivered, Cards, Shows

LEMMA TakenCards ==
  ASSUME ConvTypeOK, NEW m, cards' = [cards EXCEPT ![m] = None]
  PROVE  cards' \in Cards
BY DEF ConvTypeOK, Cards

-----------------------------------------------------------------------------
\* The invariant in one list, for an action of a slot to establish.  Rows are
\* only added with a change of user_data, which overtakes the other handlers.
LEMMA InvFrom ==
  ASSUME ChatInv, NEW h \in Slots, NEW x \in Running, GoesOn(h, x),
         state' \in States, data' \in DataRec, cards' \in Cards,
         failures' \in Nat, now' \in Nat, bounds' = bounds,
         drawn' \in Seq(Row), stored' \cup asked' \subseteq 1..Len(drawn'),
         RowsJudged', DataFits(data', drawn'),
         1..Len(drawn) \subseteq 1..Len(drawn'), drawn' = drawn \/ data' # data,
         Shaped(x, drawn'), x.overtaken \/ HandlerFits(x, state', data', drawn')
  PROVE  ChatInv'
<1>1. ConvTypeOK'
  BY DEF ChatInv, ConvTypeOK, DataRec, Cards, GoesOn
<1>2. ASSUME NEW g \in Slots
      PROVE  /\ Shaped(running'[g], drawn')
             /\ running'[g].overtaken \/ HandlerFits(running'[g], state', data', drawn')
  <2>1. CASE g = h
    BY <2>1 DEF GoesOn
  <2>2. CASE g # h
    <3>1. /\ running'[g].on = running[g].on /\ running'[g].id = running[g].id
          /\ running'[g].shows = running[g].shows /\ running'[g].next = running[g].next
          /\ \/ running'[g].overtaken
             \/ running'[g] = running[g] /\ running[g] = Idle
             \/ running'[g] = running[g] /\ state' = state /\ data' = data
      BY <2>2 DEF GoesOn, OthersKept
    <3>2. Shaped(running'[g], drawn')
      BY <3>1 DEF ChatInv, Shaped
    <3>3. CASE running'[g].overtaken
      BY <3>2, <3>3
    <3>4. CASE running'[g] = Idle
      BY <3>2, <3>4, IdleRec DEF HandlerFits
    <3>5. CASE running'[g] = running[g] /\ state' = state /\ data' = data
      <4>1. drawn' = drawn
        BY <3>5
      <4>2. QED BY <3>2, <3>5, <4>1 DEF ChatInv
    <3>6. QED BY <3>1, <3>3, <3>4, <3>5
  <2>3. QED BY <2>1, <2>2
<1>3. QED BY <1>1, <1>2 DEF ChatInv

\* The rows stay as they are.
LEMMA RowsKept ==
  ASSUME ChatInv, UNCHANGED bills
  PROVE  /\ drawn' = drawn /\ drawn' \in Seq(Row) /\ stored' \cup asked' \subseteq 1..Len(drawn')
         /\ RowsJudged'
BY DEF ChatInv, ConvTypeOK, bills, RowsJudged

LEMMA InvSame ==
  ASSUME ChatInv, NEW h \in Slots, NEW x \in Running, GoesOn(h, x),
         UNCHANGED bills, failures' \in Nat, now' = now, bounds' = bounds,
         state' \in States, data' \in DataRec, cards' \in Cards, DataFits(data', drawn),
         Shaped(x, drawn), x.overtaken \/ HandlerFits(x, state', data', drawn)
  PROVE  ChatInv'
<1>1. /\ drawn' = drawn /\ drawn' \in Seq(Row) /\ stored' \cup asked' \subseteq 1..Len(drawn')
      /\ RowsJudged'
  BY RowsKept
<1>2. now' \in Nat
  BY DEF ChatInv, ConvTypeOK
<1>3. QED BY <1>1, <1>2, InvFrom

\* What is not changed has its type, and fits.
LEMMA ChatParts ==
  ASSUME ChatInv
  PROVE  /\ ConvTypeOK /\ state \in States /\ data \in DataRec /\ cards \in Cards
         /\ failures \in Nat /\ now \in Nat /\ DataFits(data, drawn)
BY DEF ChatInv, ConvTypeOK, DataRec, Cards

\* A handler is called in the state that has it.
LEMMA CallKeeps ==
  ASSUME ChatInv, NEW h \in Slots, NEW name \in Handlers, NEW card \in Messages \cup {None},
         Called(h, name, card), name \notin {"reply", "paying"},
         name = "receive_bill" => state = "END",
         name \in {"confirm", "edit", "cancel"} => state = "CONFIRM",
         name \in {"final_confirm", "final_cancel"} => state = "FINAL_CONFIRM"
  PROVE  ChatInv'
<1>1. PICK x \in Running : GoesOn(h, x) /\ x.on = name /\ x.overtaken = FALSE
  BY ChatParts, CalledX
<1>2. /\ state' = state /\ data' = data /\ cards' = cards /\ UNCHANGED bills
      /\ failures' = failures /\ now' = now /\ bounds' = bounds
  BY DEF Called, chat, world
<1>3. Shaped(x, drawn) /\ HandlerFits(x, state', data', drawn)
  BY <1>1, <1>2 DEF Shaped, HandlerFits
<1>4. QED BY <1>1, <1>2, <1>3, ChatParts, InvSame

\* A reply to be sent, with what was done before it.
LEMMA ReplyKeeps ==
  ASSUME ChatInv, NEW h \in Slots, NEW s \in Shows, NEW n \in States, NEW c \in BOOLEAN,
         Replying(h, s, n, c), UNCHANGED bills, UNCHANGED world,
         state' \in States, data' \in DataRec, cards' \in Cards, DataFits(data', drawn),
         n \in DOMAIN Keyboard => s = Keyboard[n], n # "FINAL_CONFIRM",
         ~running[h].overtaken /\ n = "END" => c \/ data'.id = 0 \/ state' = "END"
  PROVE  ChatInv'
<1>1. PICK x \in Running : /\ GoesOn(h, x) /\ x.on = "reply" /\ x.shows = s /\ x.next = n
                           /\ (x.clear <=> c) /\ x.overtaken = running[h].overtaken
  BY ChatParts, RepliesX
<1>2. failures' = failures /\ now' = now /\ bounds' = bounds
  BY DEF world
<1>3. Shaped(x, drawn)
  BY <1>1 DEF Shaped
<1>4. x.overtaken \/ HandlerFits(x, state', data', drawn)
  BY <1>1 DEF HandlerFits
<1>5. QED BY <1>1, <1>2, <1>3, <1>4, ChatParts, InvSame

\* The handler is over.
LEMMA EndKeeps ==
  ASSUME ChatInv, NEW h \in Slots, Becomes(h, Idle),
         UNCHANGED bills, failures' \in Nat, now' = now, bounds' = bounds,
         state' \in States, data' \in DataRec, cards' \in Cards, DataFits(data', drawn)
  PROVE  ChatInv'
<1>1. GoesOn(h, Idle)
  BY ChatParts, EndsX
<1>2. Shaped(Idle, drawn) /\ HandlerFits(Idle, state', data', drawn)
  BY IdleRec DEF Shaped, HandlerFits
<1>3. QED BY <1>1, <1>2, IdleRec, InvSame

LEMMA TapKeeps ==
  ASSUME ChatInv, NEW h \in Slots, NEW m \in Messages, Tap(h, m)
  PROVE  ChatInv'
<1>1. PICK button \in Buttons[Keyboard[state]] : Called(h, button, m)
  BY DEF Tap
<1>2. state \in {"CONFIRM", "CHOOSE_FIELD", "FINAL_CONFIRM"}
  BY Replies DEF Tap
<1>3. /\ Buttons["confirm"] = {"confirm", "edit", "cancel"} /\ Buttons["field"] = {"field", "back"}
      /\ Buttons["final"] = {"final_confirm", "final_cancel"}
  BY DEF Buttons
<1>4. /\ state = "CONFIRM" => button \in {"confirm", "edit", "cancel"}
      /\ state = "CHOOSE_FIELD" => button \in {"field", "back"}
      /\ state = "FINAL_CONFIRM" => button \in {"final_confirm", "final_cancel"}
  BY <1>1, <1>3, Replies
<1>5. button \in Handlers /\ button \notin {"reply", "paying", "receive_bill"}
  <2>1. Keyboard[state] \in DOMAIN Buttons
    BY <1>2, Replies DEF Buttons
  <2>2. button \in Handlers
    BY <1>1, <2>1 DEF Handlers
  <2>3. QED BY <1>2, <1>4, <2>2
<1>6. QED BY <1>1, <1>2, <1>4, <1>5, CallKeeps

\* A bill was read, or edited: it takes the place of the one in user_data.
LEMMA BillKeeps ==
  ASSUME ChatInv, NEW h \in Slots, NEW b, Read(b), SetBill(b),
         Replying(h, Summary, "CONFIRM", FALSE), UNCHANGED <<state, cards, bills, world>>
  PROVE  ChatInv'
<1>1. b \in Draft /\ b # None
  BY DraftParts DEF Read
<1>2. data' \in DataRec /\ data'.bill = b /\ data'.id = data.id
  BY <1>1, ChatParts, DataBill DEF SetBill
<1>3. DataFits(data', drawn)
  BY <1>1, <1>2, ChatParts DEF DataFits
<1>4. state' \in States /\ cards' \in Cards /\ UNCHANGED bills /\ UNCHANGED world
  BY ChatParts
<1>5. QED BY <1>2, <1>3, <1>4, Replies, ReplyKeeps DEF Summary

LEMMA ReceiveKeeps ==
  ASSUME ChatInv, NEW h \in Slots, ReceiveBill(h)
  PROVE  ChatInv'
<1>1. PICK n \in bounds.amounts, t \in bounds.texts, f \in BOOLEAN :
        SetBill([amount |-> n, text |-> t, sent |-> now, typed |-> None, fits |-> f])
  BY DEF ReceiveBill
<1> DEFINE b == [amount |-> n, text |-> t, sent |-> now, typed |-> None, fits |-> f]
<1>2. n \in Amounts /\ t \in Texts /\ now \in Nat
  BY ChatParts, BoundsParts
<1>3. Read(b) /\ SetBill(b)
  BY <1>1, <1>2, ReceivedRead
<1> HIDE DEF b
<1>4. Replying(h, Summary, "CONFIRM", FALSE) /\ UNCHANGED <<state, cards, bills, world>>
  BY DEF ReceiveBill
<1>5. QED BY <1>3, <1>4, BillKeeps

LEMMA NewValueKeeps ==
  ASSUME ChatInv, NEW h \in Slots, HandleNewValue(h)
  PROVE  ChatInv'
<1>1. Read(data.bill) /\ now \in Nat
  BY ChatParts DEF HandleNewValue, DataFits
<1>2. Replying(h, Summary, "CONFIRM", FALSE) /\ UNCHANGED <<state, cards, bills, world>>
  BY DEF HandleNewValue
<1>3. CASE \E n \in bounds.amounts, f \in BOOLEAN :
             SetBill([data.bill EXCEPT !.amount = n, !.fits = f])
  <2>1. PICK n \in bounds.amounts, f \in BOOLEAN :
               SetBill([data.bill EXCEPT !.amount = n, !.fits = f])
    BY <1>3
  <2> DEFINE b == [data.bill EXCEPT !.amount = n, !.fits = f]
  <2>2. n \in Amounts
    BY ChatParts, BoundsParts
  <2>3. Read(b)
    BY <1>1, <2>2, AmountRead
  <2>4. SetBill(b)
    BY <2>1
  <2> HIDE DEF b
  <2>5. QED BY <1>2, <2>3, <2>4, BillKeeps
<1>4. CASE \E t \in bounds.texts : \E due \in ParseUserDate(t, now) :
             SetBill([data.bill EXCEPT !.text = t, !.sent = now, !.typed = due])
  <2>1. PICK t \in bounds.texts : \E due \in ParseUserDate(t, now) :
               SetBill([data.bill EXCEPT !.text = t, !.sent = now, !.typed = due])
    BY <1>4
  <2>2. PICK due \in ParseUserDate(t, now) :
               SetBill([data.bill EXCEPT !.text = t, !.sent = now, !.typed = due])
    BY <2>1
  <2> DEFINE b == [data.bill EXCEPT !.text = t, !.sent = now, !.typed = due]
  <2>3. t \in Texts
    BY ChatParts, BoundsParts
  <2>4. Read(b)
    BY <1>1, <2>3, DateRead
  <2>5. SetBill(b)
    BY <2>2
  <2> HIDE DEF b
  <2>6. QED BY <1>2, <2>4, <2>5, BillKeeps
<1>5. QED BY <1>3, <1>4 DEF HandleNewValue

\* The confirmation inserts the bill and asks the agent.
LEMMA InsertKeeps ==
  ASSUME ChatInv, NEW h \in Slots, HandleConfirm(h), data.bill # None, data.bill.fits
  PROVE  ChatInv'
<1> DEFINE row == RowAt(data.bill, now)
           id == Len(drawn) + 1
<1>1. /\ drawn' = Append(drawn, row)
      /\ stored' = IF ScopeCommits THEN stored \cup {Len(drawn')} ELSE stored
      /\ data' = [data EXCEPT !.id = Len(drawn')] /\ state' = state
      /\ Concludes(h, drawn'[Len(drawn')], Len(drawn'))
  BY DEF HandleConfirm, Insert
<1>2. running[h].on = "confirm" /\ cards' \in Cards /\ asked' = asked /\ UNCHANGED world
  BY ChatParts, TakenCards DEF HandleConfirm
<1>3. Read(data.bill) /\ now \in Nat /\ drawn \in Seq(Row)
  BY ChatParts DEF DataFits, ConvTypeOK
<1>4. Judged(row) /\ row.bill = data.bill
  BY <1>3, InsertedJudged
<1> HIDE DEF row
<1>5. row \in Row /\ row.verdict \in {"pay_now", "schedule", "hold"}
  BY <1>4 DEF Judged, Row, Decisions
<1>6. /\ drawn' \in Seq(Row) /\ Len(drawn') = id /\ Len(drawn) \in Nat
      /\ DOMAIN drawn = 1..Len(drawn) /\ DOMAIN drawn' = 1..id
      /\ \A i \in 1..Len(drawn) : drawn'[i] = drawn[i]
      /\ drawn'[id] = row
  BY <1>1, <1>3, <1>5, Appended
<1>7. id \in Nat /\ id # 0 /\ id \in DOMAIN drawn' /\ 1..Len(drawn) \subseteq 1..Len(drawn')
  BY <1>6
<1>8. data' \in DataRec /\ data'.id = id /\ data'.bill = data.bill
  BY <1>1, <1>6, <1>7, ChatParts, DataId
<1>9. data' # data
  <2>1. data.id # 0 => data.id \in 1..Len(drawn)
    BY <1>6, ChatParts DEF DataFits
  <2>2. data.id # id
    BY <1>6, <1>7, <2>1
  <2>3. QED BY <1>8, <2>2
<1>10. RowsJudged'
  <2> SUFFICES ASSUME NEW i \in DOMAIN drawn' PROVE Judged(drawn'[i])
    BY DEF RowsJudged, Judged, Read, RowAt, DueAt
  <2>1. CASE i = id
    BY <1>4, <1>6, <2>1
  <2>2. CASE i # id
    <3>1. i \in 1..Len(drawn)
      BY <1>6, <2>2
    <3>2. QED BY <1>6, <3>1 DEF ChatInv, RowsJudged
  <2>3. QED BY <2>1, <2>2
<1>11. stored' \cup asked' \subseteq 1..Len(drawn')
  BY <1>1, <1>2, <1>7 DEF ScopeCommits, ChatInv, ConvTypeOK
<1>12. DataFits(data', drawn')
  BY <1>3, <1>7, <1>8 DEF DataFits
<1>13. \E x \in Running : /\ GoesOn(h, x) /\ Shaped(x, drawn')
                          /\ x.overtaken \/ HandlerFits(x, state', data', drawn')
  <2>1. Concludes(h, row, id)
    BY <1>1, <1>6
  <2>2. CASE row.verdict = "pay_now"
    <3>1. Replying(h, "final", "FINAL_CONFIRM", FALSE)
      BY <2>1, <2>2 DEF Concludes, Offered
    <3>2. PICK x \in Running :
            /\ GoesOn(h, x) /\ x.on = "reply" /\ x.next = "FINAL_CONFIRM"
            /\ x.shows = "final" /\ ~x.clear /\ x.overtaken = running[h].overtaken
      BY <3>1, ChatParts, OfferX
    <3>3. Offers(data', drawn')
      BY <1>4, <1>6, <1>8, <2>2 DEF Offers
    <3>4. Shaped(x, drawn') /\ HandlerFits(x, state', data', drawn')
      BY <3>2, <3>3, Replies DEF Shaped, HandlerFits
    <3>5. QED BY <3>2, <3>4
  <2>3. CASE row.verdict # "pay_now"
    <3>1. Replying(h, None, "END", TRUE) \/ Becomes(h, Idle)
      <4>1. CASE row.verdict = "hold"
        BY <2>1, <4>1 DEF Concludes, Offered
      <4>2. CASE row.verdict = "schedule"
        BY <2>1, <4>2 DEF Concludes, Offered
      <4>3. QED BY <1>5, <2>3, <4>1, <4>2
    <3>2. CASE Replying(h, None, "END", TRUE)
      <4>1. PICK x \in Running :
              /\ GoesOn(h, x) /\ x.on = "reply" /\ x.next = "END"
              /\ x.clear /\ x.overtaken = running[h].overtaken
        BY <3>2, ChatParts, LastReplyX
      <4>2. Shaped(x, drawn') /\ HandlerFits(x, state', data', drawn')
        BY <4>1, Replies DEF Shaped, HandlerFits
      <4>3. QED BY <4>1, <4>2
    <3>3. CASE Becomes(h, Idle)
      <4>1. GoesOn(h, Idle)
        BY <3>3, ChatParts, EndsX
      <4>2. Shaped(Idle, drawn') /\ HandlerFits(Idle, state', data', drawn')
        BY IdleRec DEF Shaped, HandlerFits
      <4>3. QED BY <4>1, <4>2, IdleRec
    <3>4. QED BY <3>1, <3>2, <3>3
  <2>4. QED BY <2>2, <2>3
<1>14. failures' \in Nat /\ now' \in Nat /\ bounds' = bounds /\ state' \in States
  BY <1>1, <1>2, ChatParts DEF world
<1> HIDE DEF id
<1>15. QED BY <1>2, <1>6, <1>7, <1>8, <1>9, <1>10, <1>11, <1>12, <1>13, <1>14, InvFrom

LEMMA ConfirmKeeps ==
  ASSUME ChatInv, NEW h \in Slots, HandleConfirm(h)
  PROVE  ChatInv'
<1>1. cards' \in Cards /\ UNCHANGED world /\ asked' = asked
  BY ChatParts, TakenCards DEF HandleConfirm
<1>2. CASE data.bill = None
  <2>1. Replying(h, None, "END", FALSE) /\ UNCHANGED <<state, data, drawn, stored>>
    BY <1>2 DEF HandleConfirm
  <2>2. UNCHANGED bills /\ state' \in States /\ data' \in DataRec /\ DataFits(data', drawn)
    BY <1>1, <2>1, ChatParts DEF bills
  <2>3. data'.id = 0
    BY <1>2, <2>1, ChatParts DEF DataFits
  <2>4. QED BY <1>1, <2>1, <2>2, <2>3, Replies, ReplyKeeps
<1>3. CASE data.bill # None /\ ~data.bill.fits
  <2>1. Becomes(h, Idle) /\ UNCHANGED <<state, data, drawn, stored>>
    BY <1>3 DEF HandleConfirm
  <2>2. UNCHANGED bills /\ state' \in States /\ data' \in DataRec /\ DataFits(data', drawn)
    BY <1>1, <2>1, ChatParts DEF bills
  <2>3. failures' \in Nat /\ now' = now /\ bounds' = bounds
    BY <1>1, ChatParts DEF world
  <2>4. QED BY <1>1, <2>1, <2>2, <2>3, EndKeeps
<1>4. QED BY <1>2, <1>3, InsertKeeps

\* A handler that replies, or raises, and changes nothing else.
LEMMA PlainKeeps ==
  ASSUME ChatInv, NEW h \in Slots,
         ReceiveNothing(h) \/ HandleEdit(h) \/ HandleFieldChoice(h) \/ NewValueInvalid(h)
  PROVE  ChatInv'
<1>1. UNCHANGED <<chat, bills, world>>
  BY DEF ReceiveNothing, HandleEdit, HandleFieldChoice, NewValueInvalid
<1>2. /\ UNCHANGED bills /\ UNCHANGED world /\ state' = state /\ state' \in States
      /\ data' \in DataRec /\ cards' \in Cards /\ DataFits(data', drawn)
      /\ failures' \in Nat /\ now' = now /\ bounds' = bounds
  BY <1>1, ChatParts DEF chat, world
<1>3. CASE ReceiveNothing(h)
  <2>1. ~running[h].overtaken => state = "END"
    BY <1>3 DEF ReceiveNothing, ChatInv, HandlerFits
  <2>2. QED BY <1>2, <1>3, <2>1, Replies, ReplyKeeps DEF ReceiveNothing
<1>4. CASE Replying(h, "field", "CHOOSE_FIELD", FALSE)
  BY <1>2, <1>4, Replies, ReplyKeeps
<1>5. CASE Replying(h, Summary, "CONFIRM", FALSE)
  BY <1>2, <1>5, Replies, ReplyKeeps DEF Summary
<1>6. CASE Replying(h, None, "EDIT_VALUE", FALSE)
  BY <1>2, <1>6, Replies, ReplyKeeps
<1>7. CASE Becomes(h, Idle)
  BY <1>2, <1>7, EndKeeps
<1>8. QED
  BY <1>3, <1>4, <1>5, <1>6, <1>7 DEF HandleEdit, HandleFieldChoice, NewValueInvalid

LEMMA FinalKeeps ==
  ASSUME ChatInv, NEW h \in Slots, HandleFinalConfirm(h)
  PROVE  ChatInv'
<1>1. UNCHANGED <<chat, bills, world>> /\ running[h].on = "final_confirm"
  BY DEF HandleFinalConfirm
<1>2. /\ UNCHANGED bills /\ UNCHANGED world /\ state' = state /\ data' = data /\ state' \in States
      /\ data' \in DataRec /\ cards' \in Cards /\ DataFits(data', drawn)
      /\ failures' \in Nat /\ now' = now /\ bounds' = bounds
  BY <1>1, ChatParts DEF chat, world
<1>3. CASE data.id = 0
  <2>1. Replying(h, None, "END", FALSE)
    BY <1>3 DEF HandleFinalConfirm
  <2>2. data'.id = 0
    BY <1>2, <1>3
  <2>3. QED BY <1>2, <2>1, <2>2, Replies, ReplyKeeps
<1>4. CASE data.id # 0
  <2> DEFINE x == [running[h] EXCEPT !.on = "paying", !.id = data.id]
  <2>1. Becomes(h, x)
    BY <1>4 DEF HandleFinalConfirm
  <2>2. running[h] \in Running /\ data.id \in Nat
    BY ChatParts, DataParts DEF ConvTypeOK
  <2>3. x \in Running /\ x.on = "paying" /\ x.id = data.id /\ x.overtaken = running[h].overtaken
    BY <2>2, PayingRec
  <2> HIDE DEF x
  <2>4. GoesOn(h, x)
    BY <2>1, <2>3, ChatParts, BecomesX
  <2>5. Shaped(x, drawn)
    BY <1>4, <2>3, ChatParts DEF Shaped, DataFits, ConvTypeOK
  <2>6. running[h].overtaken \/ state = "FINAL_CONFIRM"
    BY <1>1 DEF ChatInv, HandlerFits
  <2>7. x.overtaken \/ HandlerFits(x, state', data', drawn)
    BY <1>2, <2>3, <2>6 DEF HandlerFits
  <2>8. QED BY <1>2, <2>3, <2>4, <2>5, <2>7, InvSame
<1>5. QED BY <1>3, <1>4

LEMMA PayoutKeeps ==
  ASSUME ChatInv, NEW h \in Slots, ExecutePayout(h)
  PROVE  ChatInv'
<1>1. /\ running[h].on = "paying" /\ asked' = asked \cup {running[h].id}
      /\ Replying(h, None, "END", TRUE)
      /\ state' = state /\ data' = data /\ drawn' = drawn /\ stored' = stored /\ UNCHANGED world
  BY DEF ExecutePayout
<1>2. PICK x \in Running : /\ GoesOn(h, x) /\ x.on = "reply" /\ x.next = "END"
                           /\ x.clear /\ x.overtaken = running[h].overtaken
  BY <1>1, ChatParts, LastReplyX
<1>3. Shaped(x, drawn') /\ HandlerFits(x, state', data', drawn')
  BY <1>2, Replies DEF Shaped, HandlerFits
<1>4. running[h].id \in 1..Len(drawn)
  BY <1>1 DEF ChatInv, Shaped
<1>5. stored' \cup asked' \subseteq 1..Len(drawn') /\ drawn' \in Seq(Row)
  BY <1>1, <1>4 DEF ChatInv, ConvTypeOK
<1>6. RowsJudged' /\ 1..Len(drawn) \subseteq 1..Len(drawn')
  BY <1>1 DEF ChatInv, RowsJudged
<1>7. cards' \in Cards
  BY ChatParts, TakenCards DEF ExecutePayout
<1>8. /\ state' \in States /\ data' \in DataRec /\ DataFits(data', drawn')
      /\ failures' \in Nat /\ now' \in Nat /\ bounds' = bounds
  BY <1>1, ChatParts DEF world
<1>9. QED BY <1>1, <1>2, <1>3, <1>5, <1>6, <1>7, <1>8, InvFrom

\* user_data was cleared.
LEMMA EmptyFits == Empty \in DataRec /\ Empty.id = 0 /\ DataFits(Empty, drawn)
BY EmptyData DEF DataFits

LEMMA CancelKeeps ==
  ASSUME ChatInv, NEW h \in Slots, HandleCancel(h) \/ CancelCommand(h)
  PROVE  ChatInv'
<1>1. data' = Empty /\ UNCHANGED bills /\ UNCHANGED world
  BY DEF HandleCancel, CancelCommand, Cleared
<1>2. data' \in DataRec /\ data'.id = 0 /\ DataFits(data', drawn)
  BY <1>1, EmptyFits
<1>3. failures' \in Nat /\ now' = now /\ bounds' = bounds
  BY <1>1, ChatParts DEF world
<1>4. CASE HandleCancel(h)
  <2>1. cards' \in Cards /\ state' \in States /\ Becomes(h, Idle)
    BY <1>4, ChatParts, TakenCards, Replies DEF HandleCancel
  <2>2. QED BY <1>1, <1>2, <1>3, <2>1, EndKeeps
<1>5. CASE CancelCommand(h)
  <2>1. cards' \in Cards /\ state' \in States /\ Replying(h, None, "END", FALSE)
    BY <1>5, ChatParts DEF CancelCommand
  <2>2. QED BY <1>1, <1>2, <2>1, Replies, ReplyKeeps
<1>6. QED BY <1>4, <1>5

LEMMA ReturnKeeps ==
  ASSUME ChatInv, NEW h \in Slots, Return(h)
  PROVE  ChatInv'
<1>1. /\ state' = running[h].next /\ data' = IF running[h].clear THEN Empty ELSE data
      /\ Becomes(h, Idle) /\ UNCHANGED bills /\ UNCHANGED world
  BY DEF Return
<1>2. cards' \in Cards /\ state' \in States
  BY <1>1, ChatParts, DeliveredCards, RunningParts DEF Return, ConvTypeOK
<1>3. data' \in DataRec /\ DataFits(data', drawn)
  BY <1>1, ChatParts, EmptyFits
<1>4. failures' \in Nat /\ now' = now /\ bounds' = bounds
  BY <1>1, ChatParts DEF world
<1>5. QED BY <1>1, <1>2, <1>3, <1>4, EndKeeps

LEMMA FailsKeeps ==
  ASSUME ChatInv, NEW h \in Slots, TelegramFails(h)
  PROVE  ChatInv'
<1>1. /\ failures' = failures + 1 /\ Becomes(h, Idle)
      /\ state' = state /\ data' = data /\ UNCHANGED bills /\ now' = now /\ bounds' = bounds
  BY DEF TelegramFails
<1>2. cards' \in Cards
  BY ChatParts, DeliveredCards DEF TelegramFails
<1>3. failures' \in Nat /\ state' \in States /\ data' \in DataRec /\ DataFits(data', drawn)
  BY <1>1, ChatParts
<1>4. QED BY <1>1, <1>2, <1>3, EndKeeps

LEMMA StepKeeps ==
  ASSUME ChatInv, NEW h \in Slots, ConvStep(h)
  PROVE  ChatInv'
<1>1. CASE SendBill(h)
  <2>1. "receive_bill" \in Handlers /\ None \in Messages \cup {None}
    BY DEF Handlers
  <2>2. QED BY <1>1, <2>1, CallKeeps DEF SendBill
<1>2. CASE \E m \in Messages : Tap(h, m)
  BY <1>2, TapKeeps
<1>3. CASE ReceiveNothing(h) \/ HandleEdit(h) \/ HandleFieldChoice(h) \/ NewValueInvalid(h)
  BY <1>3, PlainKeeps
<1>4. CASE HandleCancel(h) \/ CancelCommand(h)
  BY <1>4, CancelKeeps
<1>5. QED BY <1>1, <1>2, <1>3, <1>4, ReceiveKeeps, ConfirmKeeps, NewValueKeeps, FinalKeeps,
             PayoutKeeps, ReturnKeeps, FailsKeeps DEF ConvStep

LEMMA StillKeeps ==
  ASSUME ChatInv, Rest \/ UNCHANGED convVars
  PROVE  ChatInv'
<1>1. /\ UNCHANGED <<chat, bills, running, failures, bounds>>
      /\ now' = now \/ now' = now + Pause
  BY DEF Rest, convVars, world
<1>2. now' \in Nat
  BY <1>1, ChatParts, ConversationAssumption DEF ConversationAssumption
<1>3. ConvTypeOK'
  BY <1>1, <1>2 DEF ChatInv, ConvTypeOK, chat, bills
<1>4. RowsJudged'
  BY <1>1, RowsKept
<1>5. QED BY <1>1, <1>3, <1>4 DEF ChatInv, chat, bills

LEMMA InitChat ==
  ASSUME ConvInit
  PROVE  ChatInv
<1>1. /\ state = "END" /\ data = Empty /\ cards = [m \in Messages |-> None]
      /\ running = [h \in Slots |-> Idle]
      /\ drawn = <<>> /\ stored = {} /\ asked = {} /\ failures = 0 /\ now = Start
      /\ bounds \in Histories
  BY DEF ConvInit
<1>2. /\ state \in States /\ data \in DataRec /\ running \in [Slots -> Running]
      /\ now \in Nat /\ failures \in Nat /\ cards \in Cards
  BY <1>1, EmptyData, IdleRec, ConversationAssumption DEF States, ConversationAssumption, Cards
<1>3. ConvTypeOK
  BY <1>1, <1>2 DEF ConvTypeOK, DataRec, Cards
<1>4. RowsJudged /\ DataFits(data, drawn)
  BY <1>1, EmptyData DEF RowsJudged, DataFits
<1>5. \A h \in Slots : Shaped(running[h], drawn) /\ HandlerFits(running[h], state, data, drawn)
  BY <1>1, IdleRec DEF Shaped, HandlerFits
<1>6. QED BY <1>3, <1>4, <1>5 DEF ChatInv

\* A step is a slot's, or of no slot.
LEMMA SlotSteps ==
  ASSUME ChatInv, [ConvNext]_convVars
  PROVE  (\E h \in Slots : ConvStep(h)) \/ Rest \/ UNCHANGED convVars
BY ChatParts, BoundsParts DEF ConvNext

\* The invariant holds whatever is tapped, typed or sent, when, and beside what.
LEMMA ChatHolds == ConvSpec => []ChatInv
<1>1. ConvInit => ChatInv
  BY InitChat
<1>2. ChatInv /\ [ConvNext]_convVars => ChatInv'
  BY SlotSteps, StepKeeps, StillKeeps
<1>3. QED BY <1>1, <1>2, PTL DEF ConvSpec

-----------------------------------------------------------------------------
\* What a handler that was not overtaken does to the conversation: nothing, or
\* it gets or edits a bill, or the bill's row, or clears user_data, or pays what
\* was offered, or returns the state that its reply was made for.
LEMMA Outcome ==
  ASSUME ChatInv, NEW h \in Slots, ConvStep(h), ~running[h].overtaken
  PROVE  \/ state' = state /\ data' = data /\ drawn' = drawn /\ asked' = asked
         \/ state' = state /\ state = "END" /\ data'.id = data.id /\ asked' = asked
         \/ state' = state /\ state \in {"CONFIRM", "EDIT_VALUE"} /\ asked' = asked
         \/ data'.id = 0 /\ asked' = asked
         \/ /\ state' = state /\ state = "FINAL_CONFIRM" /\ data' = data /\ drawn' = drawn
            /\ data.id # 0 /\ asked' = asked \cup {data.id}
         \/ /\ data' = data /\ drawn' = drawn /\ asked' = asked
            /\ state' = "END" => data.id = 0 \/ state = "END"
            /\ state' = "FINAL_CONFIRM" => Offers(data, drawn)
<1>1. HandlerFits(running[h], state, data, drawn) /\ Shaped(running[h], drawn)
  BY DEF ChatInv
<1>2. CASE \/ SendBill(h) \/ ReceiveNothing(h) \/ HandleEdit(h) \/ HandleFieldChoice(h)
           \/ NewValueInvalid(h) \/ HandleFinalConfirm(h) \/ TelegramFails(h)
           \/ \E m \in Messages : Tap(h, m)
  BY <1>2 DEF SendBill, Tap, Called, ReceiveNothing, HandleEdit, HandleFieldChoice,
              NewValueInvalid, HandleFinalConfirm, TelegramFails, chat, bills
<1>3. CASE ReceiveBill(h)
  <2>1. state = "END"
    BY <1>1, <1>3 DEF HandlerFits, ReceiveBill
  <2>2. PICK b : data' = [data EXCEPT !.bill = b]
    BY <1>3 DEF ReceiveBill, SetBill
  <2>3. data'.id = data.id
    BY <2>2, ChatParts DEF DataRec
  <2>4. QED BY <1>3, <2>1, <2>3 DEF ReceiveBill, bills
<1>4. CASE HandleConfirm(h)
  BY <1>1, <1>4 DEF HandlerFits, HandleConfirm
<1>5. CASE HandleNewValue(h)
  BY <1>5 DEF HandleNewValue, bills
<1>6. CASE HandleCancel(h) \/ CancelCommand(h)
  BY <1>6, EmptyData DEF HandleCancel, CancelCommand, Cleared, bills
<1>7. CASE ExecutePayout(h)
  <2>1. state = "FINAL_CONFIRM" /\ data.id = running[h].id /\ running[h].id \in 1..Len(drawn)
    BY <1>1, <1>7 DEF HandlerFits, Shaped, ExecutePayout
  <2>2. data.id # 0
    BY <2>1
  <2>3. QED BY <1>7, <2>1, <2>2 DEF ExecutePayout
<1>8. CASE Return(h)
  <2>1. /\ running[h].on = "reply" /\ state' = running[h].next
        /\ data' = (IF running[h].clear THEN Empty ELSE data) /\ drawn' = drawn /\ asked' = asked
    BY <1>8 DEF Return, bills
  <2>2. CASE running[h].clear
    BY <2>1, <2>2, EmptyData
  <2>3. CASE ~running[h].clear
    BY <1>1, <2>1, <2>3 DEF HandlerFits
  <2>4. QED BY <2>2, <2>3
<1>9. QED BY <1>2, <1>3, <1>4, <1>5, <1>6, <1>7, <1>8 DEF ConvStep

\* A step of a handler is one: the handler begins, goes on or is over.
LEMMA ReplyMoves ==
  ASSUME ChatInv, NEW h \in Slots, NEW s \in Shows, NEW n \in States, NEW c \in BOOLEAN,
         Replying(h, s, n, c)
  PROVE  running'[h].on = "reply"
BY ChatParts, RepliesX DEF GoesOn

LEMMA EndMoves ==
  ASSUME NEW h \in Slots, Becomes(h, Idle)
  PROVE  running'[h] = Idle
BY DEF Becomes

\* The handlers that reply whatever they find.
LEMMA AlwaysReplies ==
  ASSUME ChatInv, NEW h \in Slots,
         \/ ReceiveNothing(h) \/ ReceiveBill(h) \/ HandleEdit(h) \/ NewValueInvalid(h)
         \/ HandleNewValue(h) \/ ExecutePayout(h) \/ CancelCommand(h)
  PROVE  running'[h].on = "reply" /\ running[h].on # "reply"
<1>1. running[h].on # "reply"
  BY IdleRec DEF ReceiveNothing, ReceiveBill, HandleEdit, NewValueInvalid, HandleNewValue,
                 ExecutePayout, CancelCommand
<1>2. CASE Replying(h, None, "END", FALSE)
  BY <1>1, <1>2, Replies, ReplyMoves
<1>3. CASE Replying(h, "confirm", "CONFIRM", FALSE)
  BY <1>1, <1>3, Replies, ReplyMoves
<1>4. CASE Replying(h, "field", "CHOOSE_FIELD", FALSE)
  BY <1>1, <1>4, Replies, ReplyMoves
<1>5. CASE Replying(h, None, "EDIT_VALUE", FALSE)
  BY <1>1, <1>5, Replies, ReplyMoves
<1>6. CASE Replying(h, None, "END", TRUE)
  BY <1>1, <1>6, Replies, ReplyMoves
<1>7. QED
  BY <1>2, <1>3, <1>4, <1>5, <1>6 DEF ReceiveNothing, ReceiveBill, HandleEdit, NewValueInvalid,
    HandleNewValue, ExecutePayout, CancelCommand, Summary

\* The handlers that reply, or raise.
LEMMA RepliesOrEnds ==
  ASSUME ChatInv, NEW h \in Slots, HandleConfirm(h) \/ HandleFieldChoice(h)
  PROVE  running[h].on # "reply" /\ running[h].on # "idle"
         /\ (running'[h].on = "reply" \/ running'[h] = Idle)
<1>1. running[h].on # "reply" /\ running[h].on # "idle"
  BY DEF HandleConfirm, HandleFieldChoice
<1>2. CASE Becomes(h, Idle)
  BY <1>1, <1>2, EndMoves
<1>3. CASE Replying(h, None, "END", FALSE)
  BY <1>1, <1>3, Replies, ReplyMoves
<1>4. CASE Replying(h, "confirm", "CONFIRM", FALSE)
  BY <1>1, <1>4, Replies, ReplyMoves
<1>5. CASE Replying(h, None, "EDIT_VALUE", FALSE)
  BY <1>1, <1>5, Replies, ReplyMoves
<1>6. CASE Replying(h, None, "END", TRUE)
  BY <1>1, <1>6, Replies, ReplyMoves
<1>7. CASE Replying(h, "final", "FINAL_CONFIRM", FALSE)
  BY <1>1, <1>7, Replies, ReplyMoves
<1>8. CASE HandleFieldChoice(h)
  BY <1>2, <1>4, <1>5, <1>8 DEF HandleFieldChoice, Summary
<1>9. CASE HandleConfirm(h)
  <2>1. CASE data.bill = None \/ ~data.bill.fits
    BY <1>2, <1>3, <1>9, <2>1 DEF HandleConfirm
  <2>2. CASE data.bill # None /\ data.bill.fits
    <3> DEFINE row == RowAt(data.bill, now)
    <3>1. Read(data.bill) /\ now \in Nat /\ drawn \in Seq(Row)
      BY <2>2, ChatParts DEF DataFits, ConvTypeOK
    <3>2. Judged(row)
      BY <3>1, InsertedJudged
    <3>3. drawn' = Append(drawn, row) /\ Concludes(h, drawn'[Len(drawn')], Len(drawn'))
      BY <1>9, <2>2 DEF HandleConfirm, Insert
    <3> HIDE DEF row
    <3>4. row \in Row /\ row.verdict \in {"pay_now", "schedule", "hold"}
      BY <3>2 DEF Judged, Row, Decisions
    <3>5. Concludes(h, row, Len(drawn'))
      BY <3>1, <3>3, <3>4, Appended
    <3>6. CASE row.verdict = "pay_now"
      BY <1>7, <3>5, <3>6 DEF Concludes, Offered
    <3>7. CASE row.verdict = "hold"
      BY <1>6, <3>5, <3>7 DEF Concludes, Offered
    <3>8. CASE row.verdict = "schedule"
      BY <1>2, <1>6, <3>5, <3>8 DEF Concludes, Offered
    <3>9. QED BY <3>4, <3>6, <3>7, <3>8
  <2>3. QED BY <2>1, <2>2
<1>10. QED BY <1>8, <1>9

\* A handler is called, or reads the id it is to pay.
LEMMA Begins ==
  ASSUME ChatInv, NEW h \in Slots, SendBill(h) \/ (\E m \in Messages : Tap(h, m))
  PROVE  running[h].on = "idle" /\ running'[h].on # "idle" /\ UNCHANGED <<chat, bills, world>>
<1>1. CASE SendBill(h)
  <2>1. "receive_bill" \in Handlers /\ None \in Messages \cup {None}
    BY DEF Handlers
  <2>2. Called(h, "receive_bill", None)
    BY <1>1 DEF SendBill
  <2>3. running'[h].on = "receive_bill"
    BY <2>1, <2>2, ChatParts, CalledX DEF GoesOn
  <2>4. QED BY <2>2, <2>3, IdleRec DEF Called
<1>2. CASE \E m \in Messages : Tap(h, m)
  <2>1. PICK m \in Messages : Tap(h, m)
    BY <1>2
  <2>2. PICK button \in Buttons[Keyboard[state]] : Called(h, button, m)
    BY <2>1 DEF Tap
  <2>3. Keyboard[state] \in DOMAIN Buttons
    BY <2>1, Replies DEF Tap, Buttons
  <2>4. button \in Handlers /\ button # "idle"
    BY <2>2, <2>3 DEF Handlers, Buttons
  <2>5. running'[h].on = button
    BY <2>2, <2>4, ChatParts, CalledX DEF GoesOn
  <2>6. QED BY <2>2, <2>4, <2>5, IdleRec DEF Called
<1>3. QED BY <1>1, <1>2

LEMMA FinalMoves ==
  ASSUME ChatInv, NEW h \in Slots, HandleFinalConfirm(h)
  PROVE  running[h].on = "final_confirm" /\ running'[h].on \in {"reply", "paying"}
<1>1. CASE data.id = 0
  <2>1. Replying(h, None, "END", FALSE)
    BY <1>1 DEF HandleFinalConfirm
  <2>2. QED BY <2>1, Replies, ReplyMoves DEF HandleFinalConfirm
<1>2. CASE data.id # 0
  <2> DEFINE x == [running[h] EXCEPT !.on = "paying", !.id = data.id]
  <2>1. Becomes(h, x)
    BY <1>2 DEF HandleFinalConfirm
  <2>2. running[h] \in Running /\ data.id \in Nat
    BY ChatParts, DataParts DEF ConvTypeOK
  <2>3. x.on = "paying"
    BY <2>2, PayingRec
  <2> HIDE DEF x
  <2>4. running'[h] = x
    BY <2>1 DEF Becomes
  <2>5. QED BY <2>3, <2>4 DEF HandleFinalConfirm
<1>3. QED BY <1>1, <1>2

LEMMA Moves ==
  ASSUME ChatInv, NEW h \in Slots, ConvStep(h)
  PROVE  running'[h] # running[h]
<1>1. CASE HandleCancel(h) \/ Return(h) \/ TelegramFails(h)
  <2>1. running'[h] = Idle
    BY <1>1, EndMoves DEF HandleCancel, Return, TelegramFails
  <2>2. QED BY <1>1, <2>1, IdleRec DEF HandleCancel, Return, TelegramFails
<1>2. CASE HandleConfirm(h) \/ HandleFieldChoice(h)
  BY <1>2, RepliesOrEnds, IdleRec
<1>3. QED BY <1>1, <1>2, AlwaysReplies, Begins, FinalMoves DEF ConvStep

-----------------------------------------------------------------------------
(* Who is stuck.  While Telegram answers, a state that takes taps has a      *)
(* message with its buttons, or a reply is under way; only the bill to be    *)
(* scheduled and the one its table does not take lose them.                  *)

Served(st, messages) ==
  st \in DOMAIN Keyboard => \E m \in Messages : messages[m] = Keyboard[st]

Excused(d, rows) ==
  \/ d.id # 0 /\ rows[d.id].verdict = "schedule"
  \/ d.bill # None /\ ~d.bill.fits

HearsInv ==
  failures = 0 =>
    \/ Served(state, cards) \/ Excused(data, drawn)
    \/ \E h \in Slots : running[h].on = "reply"

\* Nothing that the user sees has changed, and the other replies come.
LEMMA SameHears ==
  ASSUME ChatInv, HearsInv, NEW h \in Slots, NEW x, Becomes(h, x), running[h].on # "reply",
         UNCHANGED <<chat, bills, world>>
  PROVE  HearsInv'
<1>1. state' = state /\ data' = data /\ cards' = cards /\ drawn' = drawn /\ failures' = failures
  BY DEF chat, bills, world
<1>2. ASSUME NEW g \in Slots, running[g].on = "reply"
      PROVE  running'[g].on = "reply"
  BY <1>1, <1>2 DEF Becomes
<1>3. QED BY <1>1, <1>2 DEF HearsInv

\* The confirmation takes the buttons; it offers others, ends, or raises for the
\* bill to be scheduled, whose row it does not find.
LEMMA ConfirmHears ==
  ASSUME ChatInv, NEW h \in Slots, HandleConfirm(h)
  PROVE  HearsInv'
<1>1. CASE running'[h].on = "reply"
  BY <1>1 DEF HearsInv
<1>2. CASE data.bill # None /\ ~data.bill.fits
  <2>1. data' = data
    BY <1>2 DEF HandleConfirm
  <2>2. Excused(data', drawn')
    BY <1>2, <2>1 DEF Excused
  <2>3. QED BY <2>2 DEF HearsInv
<1>3. CASE data.bill = None
  <2>1. Replying(h, None, "END", FALSE)
    BY <1>3 DEF HandleConfirm
  <2>2. QED BY <1>1, <2>1, Replies, ReplyMoves
<1>4. CASE data.bill # None /\ data.bill.fits
  <2> DEFINE row == RowAt(data.bill, now)
             id == Len(drawn) + 1
  <2>1. Read(data.bill) /\ now \in Nat /\ drawn \in Seq(Row) /\ stored \subseteq 1..Len(drawn)
    BY <1>4, ChatParts DEF DataFits, ConvTypeOK
  <2>2. Judged(row)
    BY <2>1, InsertedJudged
  <2>3. /\ drawn' = Append(drawn, row) /\ stored' = stored /\ data' = [data EXCEPT !.id = Len(drawn')]
        /\ Concludes(h, drawn'[Len(drawn')], Len(drawn'))
    BY <1>4 DEF HandleConfirm, Insert, ScopeCommits
  <2> HIDE DEF row
  <2>4. row \in Row /\ row.verdict \in {"pay_now", "schedule", "hold"}
    BY <2>2 DEF Judged, Row, Decisions
  <2>5. Len(drawn') = id /\ drawn'[id] = row /\ id \in Nat /\ id # 0 /\ id \notin stored'
    BY <2>1, <2>3, <2>4, Appended
  <2>6. Concludes(h, row, id) /\ data' = [data EXCEPT !.id = id]
    BY <2>3, <2>5
  <2> HIDE DEF id
  <2>7. CASE row.verdict = "pay_now"
    <3>1. Replying(h, "final", "FINAL_CONFIRM", FALSE)
      BY <2>6, <2>7 DEF Concludes, Offered
    <3>2. QED BY <1>1, <3>1, Replies, ReplyMoves
  <2>8. CASE row.verdict = "hold"
    <3>1. Replying(h, None, "END", TRUE)
      BY <2>6, <2>8 DEF Concludes, Offered
    <3>2. QED BY <1>1, <3>1, Replies, ReplyMoves
  <2>9. CASE row.verdict = "schedule"
    <3>1. data'.id = id
      BY <2>5, <2>6, ChatParts, DataId
    <3>2. Excused(data', drawn')
      BY <2>5, <2>9, <3>1 DEF Excused
    <3>3. QED BY <3>2 DEF HearsInv
  <2>10. QED BY <2>4, <2>7, <2>8, <2>9
<1>5. QED BY <1>2, <1>3, <1>4

\* A reply that arrives shows its buttons.
LEMMA ReturnHears ==
  ASSUME ChatInv, NEW h \in Slots, Return(h)
  PROVE  HearsInv'
<1> DEFINE x == running[h]
<1>1. /\ x.on = "reply" /\ Delivered(h) /\ state' = x.next
      /\ x.next \in DOMAIN Keyboard => x.shows = Keyboard[x.next]
  BY DEF Return, ChatInv, Shaped
<1>2. x.card \in Messages \cup {None} /\ cards \in Cards
  BY ChatParts, RunningParts DEF ConvTypeOK
<1>3. x.next \in DOMAIN Keyboard => x.shows # None
  BY <1>1, ConversationAssumption DEF ConversationAssumption, Keyboard, Buttons
<1>4. x.shows # None => \E m \in Messages : cards'[m] = x.shows
  BY <1>1, <1>2 DEF Delivered, Cards
<1>5. Served(state', cards')
  BY <1>1, <1>3, <1>4 DEF Served
<1>6. QED BY <1>5 DEF HearsInv

\* Once a call has failed nothing is claimed.
LEMMA StepHears ==
  ASSUME ChatInv, HearsInv, NEW h \in Slots, ConvStep(h)
  PROVE  HearsInv'
<1>1. CASE \/ ReceiveNothing(h) \/ ReceiveBill(h) \/ HandleEdit(h) \/ NewValueInvalid(h)
           \/ HandleNewValue(h) \/ ExecutePayout(h) \/ CancelCommand(h)
  BY <1>1, AlwaysReplies DEF HearsInv
<1>2. CASE SendBill(h) \/ \E m \in Messages : Tap(h, m)
  <2>1. \E x : Becomes(h, x)
    BY <1>2 DEF SendBill, Tap, Called
  <2>2. QED BY <1>2, <2>1, Begins, SameHears
<1>3. CASE HandleFinalConfirm(h)
  <2>1. \E x : Becomes(h, x)
    BY <1>3 DEF HandleFinalConfirm, Replying
  <2>2. UNCHANGED <<chat, bills, world>> /\ running[h].on # "reply"
    BY <1>3 DEF HandleFinalConfirm
  <2>3. QED BY <2>1, <2>2, SameHears
<1>4. CASE HandleFieldChoice(h)
  <2>1. \E x : Becomes(h, x)
    BY <1>4 DEF HandleFieldChoice, Replying
  <2>2. UNCHANGED <<chat, bills, world>> /\ running[h].on # "reply"
    BY <1>4 DEF HandleFieldChoice
  <2>3. QED BY <2>1, <2>2, SameHears
<1>5. CASE HandleCancel(h)
  <2>1. Served(state', cards')
    BY <1>5, Replies DEF HandleCancel, Served
  <2>2. QED BY <2>1 DEF HearsInv
<1>6. CASE TelegramFails(h)
  BY <1>6, ChatParts DEF TelegramFails, HearsInv
<1>7. QED
  BY <1>1, <1>2, <1>3, <1>4, <1>5, <1>6, ConfirmHears, ReturnHears DEF ConvStep

LEMMA StillHears ==
  ASSUME HearsInv, Rest \/ UNCHANGED convVars
  PROVE  HearsInv'
BY DEF Rest, HearsInv, convVars, chat, bills, world

-----------------------------------------------------------------------------
\* The conversation's variables have their types, whatever overlaps and
\* whatever fails between: user_data is a bill or nothing with the id of a row
\* or none, and only ids that were drawn are paid.
THEOREM ConvTypeCorrect == ConvSpec => []ConvTypeOK
<1>1. ChatInv => ConvTypeOK
  BY DEF ChatInv
<1>2. QED BY <1>1, ChatHolds, PTL

\* The final confirmation offers, and pays, only the bill confirmed last and
\* judged payable, unless by a handler that another one overtook.
THEOREM MisledOnlyByOvertaken == ConvSpec => OnlyOvertakenMislead
<1>1. ChatInv /\ [ConvNext]_convVars
        => [~Misled => (~Misled' /\ \A id \in asked' \ asked : Agreed(id)) \/ ByOvertaken]_convVars
  <2> SUFFICES ASSUME ChatInv, [ConvNext]_convVars, ~Misled, ~ByOvertaken, convVars' # convVars
               PROVE  ~Misled' /\ \A id \in asked' \ asked : Agreed(id)
    OBVIOUS
  <2>1. CASE Rest
    BY <2>1 DEF Rest, Misled, Agreed, chat, bills
  <2>2. CASE \E h \in Slots : ConvStep(h)
    <3>1. PICK h \in Slots : ConvStep(h)
      BY <2>2
    <3>2. ~running[h].overtaken
      BY <3>1, Moves DEF ByOvertaken
    <3>3. state = "FINAL_CONFIRM" /\ data.id # 0 => Agreed(data.id)
      BY DEF Misled
    <3>4. state = "FINAL_CONFIRM" /\ data.id # 0 /\ drawn' = drawn /\ data' = data
          => ~Misled'
      BY <3>3 DEF Misled, Agreed
    <3>5. CASE state' = state /\ data' = data /\ drawn' = drawn /\ asked' = asked
      BY <3>4, <3>5 DEF Misled
    <3>6. CASE /\ asked' = asked
               /\ state' # "FINAL_CONFIRM" \/ data'.id = 0
      BY <3>6 DEF Misled
    <3>7. CASE /\ state = "FINAL_CONFIRM" /\ data' = data /\ drawn' = drawn
               /\ data.id # 0 /\ asked' = asked \cup {data.id}
      BY <3>3, <3>4, <3>7
    <3>8. CASE /\ data' = data /\ drawn' = drawn /\ asked' = asked /\ Offers(data, drawn)
      BY <3>8 DEF Misled, Agreed, Offers
    <3>9. QED BY <3>1, <3>2, <3>5, <3>6, <3>7, <3>8, Outcome
  <2>3. QED BY <2>1, <2>2, SlotSteps
<1>2. QED BY <1>1, ChatHolds, PTL DEF ConvSpec, OnlyOvertakenMislead

\* A conversation that ends leaves no bill id in user_data, unless by a handler
\* that another one overtook.
THEOREM IdLeftOnlyByOvertaken == ConvSpec => OnlyOvertakenLeaveId
<1>1. ChatInv /\ [ConvNext]_convVars => [~Left /\ Left' => ByOvertaken]_convVars
  <2> SUFFICES ASSUME ChatInv, [ConvNext]_convVars, ~Left, Left', ~ByOvertaken,
                      convVars' # convVars
               PROVE  FALSE
    OBVIOUS
  <2>1. CASE Rest
    BY <2>1 DEF Rest, Left, chat
  <2>2. CASE \E h \in Slots : ConvStep(h)
    <3>1. PICK h \in Slots : ConvStep(h)
      BY <2>2
    <3>2. ~running[h].overtaken
      BY <3>1, Moves DEF ByOvertaken
    <3>3. QED BY <3>1, <3>2, Outcome DEF Left
  <2>3. QED BY <2>1, <2>2, SlotSteps
<1>2. QED BY <1>1, ChatHolds, PTL DEF ConvSpec, OnlyOvertakenLeaveId

\* Bills are stored as due when their senders meant, for every date and however
\* long the chat rests: what the two date readers get right, and that a notation
\* the first has no format for is due at once.
THEOREM StoredAsMeant == ConvSpec => []DueAsMeant
<1>1. ASSUME ChatInv PROVE DueAsMeant
  <2> SUFFICES ASSUME NEW i \in DOMAIN drawn
               PROVE
    LET row == drawn[i]
        text == row.bill.text
        meant == Meant(text, row.bill.sent)
    IN  /\ \/ ReadPlainly(row.bill)
           \/ text.form = (IF row.bill.typed = None THEN "slash" ELSE "slashUS")
           => row.due = IF meant < row.at THEN row.at ELSE meant
        /\ text.form = "other" /\ row.bill.typed = None => row.due = row.at
        /\ text.form = "in" /\ row.bill.typed = None
           => row.due - meant = row.at - row.bill.sent
        /\ text.form \in {"zoned", "yearless"}
           => row.due <= (IF meant < row.at THEN row.at ELSE meant) + 1
    BY DEF DueAsMeant
  <2> DEFINE row == drawn[i]
             text == row.bill.text
             meant == Meant(text, row.bill.sent)
  <2>1. Judged(row)
    BY <1>1 DEF ChatInv, RowsJudged
  <2> HIDE DEF row
  <2>2. row.bill \in Draft /\ row.at \in Nat /\ text \in Text /\ NamesADay(text)
        /\ row.bill.sent \in Nat /\ text.a \in Nat
    <3>1. row.bill \in Draft /\ row.at \in Nat
      BY <2>1 DEF Judged, Read, Row
    <3>2. QED BY <3>1, DraftParts DEF Text
  <2>3. /\ meant \in Int
        /\ text.form = "in" => meant = row.bill.sent + text.a * Day
        /\ text.form = "yearless" => /\ Midnight(text.a, text.b) \in Int
                                     /\ Midnight(text.a, text.b) <= meant
    BY <2>2, MeantInt
  <2>4. /\ \/ ReadPlainly(row.bill)
           \/ text.form = "slash" /\ row.bill.typed = None
           \/ text.form = "slashUS" /\ row.bill.typed # None
           => row.due = ClampToPresent(meant, row.at)
        /\ text.form = "other" /\ row.bill.typed = None => row.due = row.at
        /\ text.form = "in" /\ row.bill.typed = None
           => row.due = ClampToPresent(row.at + text.a * Day, row.at)
        /\ text.form = "zoned" => row.due = ClampToPresent(meant + 1, row.at)
        /\ text.form = "yearless" => row.due = ClampToPresent(Midnight(text.a, text.b), row.at)
    BY <2>1, DueRead
  <2> HIDE DEF meant
  <2>5. \/ ReadPlainly(row.bill)
        \/ text.form = (IF row.bill.typed = None THEN "slash" ELSE "slashUS")
        => row.due = IF meant < row.at THEN row.at ELSE meant
    BY <2>4 DEF ClampToPresent
  <2>6. text.form = "in" /\ row.bill.typed = None
        => row.due - meant = row.at - row.bill.sent
    BY <2>2, <2>3, <2>4 DEF ClampToPresent, Day
  <2>7. text.form \in {"zoned", "yearless"}
        => row.due <= (IF meant < row.at THEN row.at ELSE meant) + 1
    <3>1. CASE text.form = "zoned"
      BY <2>2, <2>3, <2>4, <3>1 DEF ClampToPresent
    <3>2. CASE text.form = "yearless"
      BY <2>2, <2>3, <2>4, <3>2 DEF ClampToPresent
    <3>3. QED BY <3>1, <3>2
  <2>8. QED BY <2>4, <2>5, <2>6, <2>7 DEF meant, row
<1>2. QED BY <1>1, ChatHolds, PTL

\* A bill with a date its reader knows, and that can be read one way only, is
\* judged payable only when the agent's cutoff lets it, by the date its sender
\* meant.
THEOREM NoOfferBeforeTheCutoff == ConvSpec => []NotOfferedEarly
<1>1. ASSUME ChatInv PROVE NotOfferedEarly
  <2> SUFFICES ASSUME NEW id \in DOMAIN drawn, drawn[id].verdict = "pay_now",
                      ReadPlainly(drawn[id].bill)
               PROVE  Meant(drawn[id].bill.text, drawn[id].bill.sent)
                        <= drawn[id].at + (CutoffDays + 1) * Day
    BY DEF NotOfferedEarly
  <2> DEFINE row == drawn[id]
             meant == Meant(row.bill.text, row.bill.sent)
  <2>1. row.verdict = "pay_now" /\ ReadPlainly(row.bill)
    OBVIOUS
  <2>2. Judged(row)
    BY <1>1 DEF ChatInv, RowsJudged
  <2> HIDE DEF row
  <2>3. /\ row.bill \in Draft /\ row.at \in Nat /\ row.due \in Int /\ row.bill.amount \in Int
        /\ row.verdict = Decide(Balance, row.bill.amount, Fee, DaysUntil(row.due, row.at))
    <3>1. row.bill \in Draft /\ row.at \in Nat /\ row.due \in Int
      BY <2>2 DEF Judged, Row
    <3>2. row.verdict = Decide(Balance, row.bill.amount, Fee, DaysUntil(row.due, row.at))
      BY <2>2 DEF Judged, RowAt
    <3>3. QED BY <3>1, <3>2, DraftParts
  <2>4. DaysUntil(row.due, row.at) <= CutoffDays
    <3> DEFINE days == DaysUntil(row.due, row.at)
    <3>1. days \in Int
      BY <2>3 DEF DaysUntil, Day
    <3> HIDE DEF days
    <3>2. Decide(Balance, row.bill.amount, Fee, days) = "pay_now"
      BY <2>1, <2>3 DEF days
    <3>3. days <= CutoffDays
      BY <2>3, <3>1, <3>2, ConversationAssumption DEF Decide, CutoffDays, ConversationAssumption
    <3>4. QED BY <3>3 DEF days
  <2>5. row.due <= row.at + (CutoffDays + 1) * Day
    BY <2>3, <2>4 DEF DaysUntil, Day, CutoffDays
  <2>6. meant \in Int /\ row.due = ClampToPresent(meant, row.at)
    <3>1. row.bill.text \in Text /\ NamesADay(row.bill.text) /\ row.bill.sent \in Nat
      BY <2>3, DraftParts
    <3>2. meant \in Int
      BY <3>1, MeantInt
    <3>3. QED BY <2>1, <2>2, <3>2, DueRead
  <2> HIDE DEF meant
  <2>7. meant <= row.at + (CutoffDays + 1) * Day
    BY <2>3, <2>5, <2>6 DEF ClampToPresent, CutoffDays, Day
  <2>8. QED BY <2>7 DEF meant, row
<1>2. QED BY <1>1, ChatHolds, PTL

\* While Telegram answers, only the bill to be scheduled and the bill its table
\* does not take leave the user without a button for the state the chat is in:
\* the handler of the confirmation raises after the buttons are gone.
THEOREM StuckOnlyByConfirm == ConvSpec => []StuckOnlyAfterConfirm
<1>1. ConvInit => HearsInv
  BY Replies DEF ConvInit, HearsInv, Served
<1>2. ChatInv /\ HearsInv /\ [ConvNext]_convVars => HearsInv'
  BY SlotSteps, StepHears, StillHears
<1>3. HearsInv => StuckOnlyAfterConfirm
  <2> SUFFICES ASSUME HearsInv, Quiet, failures = 0, state \in DOMAIN Keyboard,
                      \A m \in Messages : cards[m] # Keyboard[state]
               PROVE  Excused(data, drawn)
    BY DEF StuckOnlyAfterConfirm, Excused
  <2>1. \A h \in Slots : running[h].on # "reply"
    BY IdleRec DEF Quiet
  <2>2. ~Served(state, cards)
    BY DEF Served
  <2>3. QED BY <2>1, <2>2 DEF HearsInv
<1>4. QED BY <1>1, <1>2, <1>3, ChatHolds, PTL DEF ConvSpec
=============================================================================
