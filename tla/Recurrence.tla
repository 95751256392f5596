----------------------------- MODULE Recurrence -----------------------------
(***************************************************************************)
(* The scheduler's second job, process_recurring_bills, with               *)
(* schedule_recurrence of app/services/payout.py: every recurring bill     *)
(* whose next date has passed is copied, Period days later, whatever its   *)
(* own status.  Ids of bills to come are reserved: Copies are absent until *)
(* the job inserts them.                                                   *)
(*                                                                         *)
(* MaxSpawns bounds how often the job runs; as start_scheduler leaves it,  *)
(* paused, it is 0.                                                        *)
(***************************************************************************)
EXTENDS SchedulerJob

CONSTANTS
  Recurring,    \* the bills with is_recurring and an interval
  Copies,       \* ids the job may insert a bill under
  CopyOf,       \* the bill a copy is made of
  Period,       \* days between a bill and its next occurrence
  FirstDay,     \* next_recurrence_date of a bill that is no copy, if it has one
  MaxSpawns

ASSUME RecurrenceAssumption ==
  /\ Recurring \subseteq Bills /\ Copies \subseteq Recurring
  /\ CopyOf \in [Copies -> Recurring]
  /\ Period \in [Recurring -> Nat \ {0}]
  /\ FirstDay \in [Recurring -> Int]
  /\ MaxSpawns \in Nat
  /\ \A c \in Copies :
       /\ InitStatus[c] = "absent"
       /\ DueDay[c] = DueDay[CopyOf[c]] + Period[CopyOf[c]]
       /\ BillOwner[c] = BillOwner[CopyOf[c]]
       /\ Amount[c] = Amount[CopyOf[c]]

VARIABLES nextDay,    \* bills.next_recurrence_date, None for NULL
          spawning,   \* the bill ids the job has still to copy
          spawns      \* how often the job was run

recurVars == <<nextDay, spawning, spawns>>

RecurrenceTypeOK ==
  /\ nextDay \in [Recurring -> Int \cup {None}]
  /\ spawning \subseteq Recurring
  /\ spawns \in 0..MaxSpawns

\* The bills of `dated` have a next date.
RecurrenceInit(dated) ==
  /\ nextDay = [b \in Recurring |-> IF b \in dated THEN FirstDay[b] ELSE None]
  /\ spawning = {}
  /\ spawns = 0

\* Mutant: the query leaves the date out.
AnyDay(b) == bill[b].status # "absent" /\ nextDay[b] # None

\* The query: next_recurrence_date <= now.
DateCame(b) ==
  /\ bill[b].status # "absent"
  /\ nextDay[b] # None
  /\ nextDay[b] < now

SpawnStart ==
  /\ spawns < MaxSpawns /\ spawning = {}
  /\ spawns' = spawns + 1
  /\ spawning' = {b \in Recurring : DateCame(b)}
  /\ spawning' # {}
  /\ UNCHANGED <<storeVars, nextDay>>

\* Mutant: the original keeps its date.
OnlyCopyDated(b, c) == [nextDay EXCEPT ![c] = DueDay[c]]

\* Original and copy get the copy's due date as their next.
Dated(b, c) == [nextDay EXCEPT ![b] = DueDay[c], ![c] = DueDay[c]]

CopyRow == [status |-> "scheduled", retry |-> 0]

\* The UPDATE of the original, the INSERT of the copy and the commit: the
\* first waits for the original's row lock if it changes the date, the second
\* for a FOR UPDATE lock on the user's row.
Spawn(b) ==
  /\ b \in spawning
  /\ nextDay[b] = DueDay[b] + Period[b] \/ billLock[b] = None
  /\ userLock[BillOwner[b]] = None
  /\ \E c \in Copies :
       /\ CopyOf[c] = b /\ bill[c].status = "absent"
       /\ bill' = [bill EXCEPT ![c] = CopyRow]
       /\ nextDay' = Dated(b, c)
  /\ spawning' = spawning \ {b}
  /\ UNCHANGED <<balance, txn, seen, rowLocks, loop, now, spawns>>

SpawnStep == SpawnStart \/ \E b \in Recurring : Spawn(b)
=============================================================================
