------------------------------- MODULE DueDate -------------------------------
(***************************************************************************)
(* How a due date is read: by app/services/date_parser.py from what was    *)
(* extracted from a bill, and by parse_user_date of app/handlers/helpers.py*)
(* from what a user types to correct it.                                   *)
(*                                                                         *)
(* Time is in hours, and day n of the year begins at n * Day.  A text is   *)
(* the notation it is in with its two numbers.                             *)
(***************************************************************************)
EXTENDS Integers

Day == 24

\* iso: day b of month a, as "2026-03-15", "15 March 2026" or "Mar 15, 2026".
\* zoned: a time of ISO 8601 with an offset of one hour, east of the server.
\* slash, slashUS: a/b or a-b and four digits of a year, the day first or the
\*   month first.
\* yearless: day a of month b and no year, as "15 Mar".  in: in a days.
\* other: day b of month a as only dateutil reads it, "Mar 15 2026" without the
\*   comma, "2026/03/15", "03/15/26".
\* none: nothing, or nothing that can be read.
Forms == {"iso", "zoned", "slash", "slashUS", "yearless", "in", "other", "none"}

Text == [form : Forms, a : Nat, b : Nat]

-----------------------------------------------------------------------------
\* The calendar of a year that is no leap year.
MonthLength == <<31, 28, 31, 30, 31, 30, 31, 31, 30, 31, 30, 31>>
DaysBefore == <<0, 31, 59, 90, 120, 151, 181, 212, 243, 273, 304, 334>>

Exists(d, m) == m \in 1..12 /\ d \in 1..MonthLength[m]
Midnight(d, m) == (DaysBefore[m] + d) * Day

\* The times a day and a month may stand for: one, or none if there is no
\* such day.
Dates(d, m) == IF Exists(d, m) THEN {Midnight(d, m)} ELSE {}
DatesOfThisMonth(d, now) ==
  UNION {Dates(d, m) : m \in {k \in 1..12 : \E e \in 1..MonthLength[k] : now \div Day = DaysBefore[k] + e}}

\* Mutant: 03/04 is read month first.
MonthFirst(a, b) == IF Exists(b, a) THEN Dates(b, a) ELSE Dates(a, b)

\* The formats of parse_bill_due_date: the day is tried first.
DayFirst(a, b) == IF Exists(a, b) THEN Dates(a, b) ELSE Dates(b, a)

\* An offset is stripped, not converted; a missing year is this one.
Parsed(t, now) ==
  CASE t.form \in {"iso", "zoned"}     -> Dates(t.b, t.a)
    [] t.form \in {"slash", "slashUS"} -> DayFirst(t.a, t.b)
    [] t.form = "yearless"             -> Dates(t.a, t.b)
    [] t.form = "in"                   -> {now + t.a * Day}
    [] t.form \in {"other", "none"}    -> {}

ClampToPresent(due, now) == IF due < now THEN now ELSE due

\* What cannot be read is due now, and so is what is past.
ParseBillDueDate(t, now) ==
  LET found == Parsed(t, now) IN
    IF found = {} THEN now ELSE ClampToPresent(CHOOSE due \in found : TRUE, now)

\* dateutil takes the month first unless it can be none, and of "in 4 days"
\* only the 4, as a day of this month.
ParseUserDate(t, now) ==
  CASE t.form \in {"iso", "zoned", "other"} -> Dates(t.b, t.a)
    [] t.form \in {"slash", "slashUS"} -> IF t.a > 12 THEN Dates(t.a, t.b) ELSE Dates(t.b, t.a)
    [] t.form = "yearless"             -> Dates(t.a, t.b)
    [] t.form = "in"                   -> DatesOfThisMonth(t.a, now)
    [] t.form = "none"                 -> {}

\* Mutant: timedelta.seconds in place of its days.
DaysOfSeconds(due, now) == ((due - now - 1) % Day) \div Day

\* Whole days until a bill is due, rounded down as timedelta.days is, a moment
\* after `now`.
DaysUntil(due, now) == (due - now - 1) \div Day

-----------------------------------------------------------------------------
\* A text with a date names a day that exists, and one with a number of days at
\* most a month of them; any other is "none".
NamesADay(t) ==
  /\ t.form = "in" => t.a \in 1..31
  /\ t.form \in {"iso", "zoned", "slashUS", "other"} => Exists(t.b, t.a)
  /\ t.form \in {"slash", "yearless"} => Exists(t.a, t.b)

\* What whoever wrote a text at `sent` meant by it.
Meant(t, sent) ==
  CASE t.form \in {"iso", "other"} -> Midnight(t.b, t.a)
    [] t.form = "zoned"    -> Midnight(t.b, t.a) - 1
    [] t.form = "slash"    -> Midnight(t.a, t.b)
    [] t.form = "slashUS"  -> Midnight(t.b, t.a)
    [] t.form = "yearless" -> IF Midnight(t.a, t.b) + Day > sent THEN Midnight(t.a, t.b)
                              ELSE Midnight(t.a, t.b) + 365 * Day
    [] t.form = "in"       -> sent + t.a * Day
    [] t.form = "none"     -> sent

\* A text that leaves no room for another reading.
Plain(t) ==
  \/ t.form \in {"iso", "other"}
  \/ t.form \in {"slash", "slashUS"} /\ (t.a = t.b \/ t.a > 12 \/ t.b > 12)
=============================================================================
