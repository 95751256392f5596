---------------------------- MODULE SchedulerJob ----------------------------
(***************************************************************************)
(* The job process_scheduled_bills of app/core/scheduler.py, run in a      *)
(* worker thread, one instance at a time (max_instances=1).  Each due bill *)
(* is re-read in a session of its own, judged by the agent and, if the     *)
(* agent says pay_now, handed back to the user as pending.                 *)
(*                                                                         *)
(* MaxSweeps bounds how often the job runs.  It is 0 for the program as    *)
(* start_scheduler leaves it: next_run_time=None adds a job paused.        *)
(***************************************************************************)
EXTENDS Store, Agent

CONSTANT MaxSweeps

ASSUME SweepAssumption == MaxSweeps \in Nat

VARIABLES job,      \* the bill ids still to do and the one about to be written
          sweeps    \* how often the job was run

jobVars == <<job, sweeps>>

IdleJob == [due |-> {}, writing |-> None]

JobTypeOK ==
  /\ job \in [due : SUBSET Bills, writing : Bills \cup {None}]
  /\ sweeps \in 0..MaxSweeps

JobInit == job = IdleJob /\ sweeps = 0

\* The query: status = 'scheduled' AND due_date <= now.
SweepStart ==
  /\ sweeps < MaxSweeps /\ job = IdleJob
  /\ sweeps' = sweeps + 1
  /\ job' = [due |-> {b \in Bills : bill[b].status = "scheduled" /\ DaysUntilDue(b) < 0},
             writing |-> None]
  /\ UNCHANGED storeVars

Judgement(b) == Decide(balance[BillOwner[b]], Amount[b], Fee, DaysUntilDue(b))

\* Read the bill and its user; the one status written is for pay_now.
SweepRead(b) ==
  /\ job.writing = None /\ b \in job.due
  /\ job' = [due |-> job.due \ {b},
             writing |-> IF bill[b].status = "scheduled" /\ Judgement(b) = "pay_now"
                           THEN b ELSE None]
  /\ UNCHANGED <<storeVars, sweeps>>

SweepWrite(b) ==
  /\ job.writing = b
  /\ billLock[b] = None
  /\ bill' = [bill EXCEPT ![b].status = "pending"]
  /\ job' = [job EXCEPT !.writing = None]
  /\ UNCHANGED <<balance, txn, seen, rowLocks, loop, now, sweeps>>

JobStep == SweepStart \/ \E b \in Bills : SweepRead(b) \/ SweepWrite(b)
=============================================================================
