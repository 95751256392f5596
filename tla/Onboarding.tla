----------------------------- MODULE Onboarding -----------------------------
(***************************************************************************)
(* How a user comes by an account: POST /auth/signup, POST /kyc/bvn and    *)
(* POST /wallet/provision, over one database, one event loop and a client  *)
(* of the payment provider for each provisioning.  Payouts take part as    *)
(* far as they matter here: one holds the row lock of its user while its   *)
(* own client looks the payee up and transfers.                            *)
(*                                                                         *)
(* An INSERT that refers to a user waits for a FOR UPDATE lock on its row. *)
(* signup and provision are coroutines and keep the loop while they wait;  *)
(* submit_bvn runs in a worker thread.                                     *)
(***************************************************************************)
EXTENDS NombaClient

CONSTANTS
  People,       \* who signs up: an email address and a phone number
  Signups, Provisions, Submissions, Payouts,   \* one attempt each
  Together,     \* the sets of attempts that may be made in one history
  PersonOf,     \* the person behind an attempt
  Bvn,          \* the BVN a submission carries
  AutoProvision,  \* settings.auto_provision_dva_on_signup
  MaxCrashes, None

Attempts == Signups \cup Provisions \cup Submissions \cup Payouts

ASSUME AttemptAssumption ==
  /\ Clients = Provisions \cup Payouts
  /\ \A p \in Provisions : Script[p] = <<"account">>
  /\ Signups \cap Clients = {} /\ Submissions \cap (Clients \cup Signups) = {}
  /\ Provisions \cap Payouts = {}
  /\ Together \subseteq SUBSET Attempts
  /\ PersonOf \in [Attempts -> People]
  /\ None \notin Attempts
  /\ AutoProvision \in BOOLEAN /\ MaxCrashes \in Nat

VARIABLES
  users,       \* people with a users row
  account,     \* virtual_accounts by user: the attempt that opened it
  kyc,         \* kyc_records by user: the submission stored
  audited,     \* attempts with a va.created row of status failed
  rowLock,     \* who holds a users row FOR UPDATE
  pc, loop, crashes

rows == <<users, account, kyc, audited>>
vars == <<rows, rowLock, pc, loop, crashes, clientVars>>

Done == {"created", "existed", "conflict", "refused", "failed", "ended", "lost"}
PcStates == {"new", "tokens", "lock", "waiting", "insert", "audit", "write",
             "stored", "logged", "never"} \cup Done

OnboardTypeOK ==
  /\ ClientTypeOK
  /\ users \subseteq People
  /\ account \in [People -> Provisions \cup {None}]
  /\ kyc \in [People -> Submissions \cup {None}]
  /\ audited \subseteq Signups \cup Provisions
  /\ rowLock \in [People -> Payouts \cup {None}]
  /\ pc \in [Attempts -> PcStates]
  /\ loop \in Attempts \cup {None}
  /\ crashes \in 0..MaxCrashes

Init ==
  /\ ClientInit
  /\ users = {} /\ audited = {}
  /\ account = [u \in People |-> None]
  /\ kyc = [u \in People |-> None]
  /\ rowLock = [u \in People |-> None]
  /\ \E made \in Together :
       pc = [a \in Attempts |-> IF a \in made THEN "new" ELSE "never"]
  /\ loop = None /\ crashes = 0

-----------------------------------------------------------------------------
Goes(a, state) == pc' = [pc EXCEPT ![a] = state]

RowFree(a) == rowLock[PersonOf[a]] = None

\* An access token is needed for everything but a signup.
Begins(a) == pc[a] = "new" /\ PersonOf[a] \in users

\* signup_user and the first commit, or 409 for an email or phone in use.
Signup(s) ==
  /\ pc[s] = "new" /\ loop = None
  /\ IF PersonOf[s] \in users
       THEN Goes(s, "conflict") /\ UNCHANGED <<users, loop>>
       ELSE Goes(s, "tokens") /\ users' = users \cup {PersonOf[s]} /\ loop' = s
  /\ UNCHANGED <<account, kyc, audited, rowLock, crashes, clientVars>>

\* _try_provision_dva passes no account_name, so NombaProvider raises before it
\* sends anything, and all that remains to commit is the audit row.
SignupTokens(s) ==
  /\ pc[s] = "tokens"
  /\ audited' = IF AutoProvision THEN audited \cup {s} ELSE audited
  /\ Goes(s, "stored")
  /\ UNCHANGED <<users, account, kyc, rowLock, loop, crashes, clientVars>>

\* After the commit an attempt reads its row again, or issues the tokens of its
\* new user, and answers; a coroutine without an await in between.
Respond(a) ==
  /\ \/ pc[a] = "stored" /\ Goes(a, "created")
     \/ pc[a] = "logged" /\ Goes(a, "refused")
  /\ loop' = IF loop = a THEN None ELSE loop
  /\ UNCHANGED <<rows, rowLock, crashes, clientVars>>

-----------------------------------------------------------------------------
\* get: the account there is, or a call to the provider for a fresh accountRef.
ProvisionExisting(p) ==
  /\ Begins(p) /\ loop = None
  /\ account[PersonOf[p]] # None
  /\ Goes(p, "existed")
  /\ UNCHANGED <<rows, rowLock, loop, crashes, clientVars>>

ProvisionStart(p) ==
  /\ Begins(p) /\ loop = None
  /\ account[PersonOf[p]] = None
  /\ BeginCalls(p)
  /\ Goes(p, "waiting")
  /\ UNCHANGED <<rows, rowLock, loop, crashes>>

\* Mutant: an error of the provider is swallowed.
AfterSwallowing(phase) ==
  CASE phase \in {"ok", "error"} -> "insert" [] phase = "raised" -> "failed"
    [] OTHER -> "waiting"

\* Where provision_virtual_account is when its client is in a phase.  What is
\* not a PaymentError is not caught.
After(phase) ==
  CASE phase = "ok" -> "insert" [] phase = "error" -> "audit"
    [] phase = "raised" -> "failed" [] OTHER -> "waiting"

ProvisionReply(p) ==
  /\ pc[p] = "waiting" /\ loop = None
  /\ ReplyStep(p)
  /\ Goes(p, After(client'[p].phase))
  /\ loop' = IF client'[p].phase \in {"ok", "error"} THEN p ELSE None
  /\ UNCHANGED <<rows, rowLock, crashes>>

\* Mutant: the INSERT replaces the row there is.
AlwaysFree(p) == TRUE

\* virtual_accounts.user_id is unique.
AccountFree(p) == account[PersonOf[p]] = None

\* A violated constraint is not caught: the account is open, but nobody's.
InsertAccount(p) ==
  /\ pc[p] = "insert" /\ RowFree(p)
  /\ IF AccountFree(p)
       THEN Goes(p, "stored") /\ account' = [account EXCEPT ![PersonOf[p]] = p]
                              /\ UNCHANGED loop
       ELSE Goes(p, "failed") /\ loop' = None /\ UNCHANGED account
  /\ UNCHANGED <<users, kyc, audited, rowLock, crashes, clientVars>>

AuditFailure(p) ==
  /\ pc[p] = "audit" /\ RowFree(p)
  /\ audited' = audited \cup {p}
  /\ Goes(p, "logged")
  /\ UNCHANGED <<users, account, kyc, rowLock, loop, crashes, clientVars>>

-----------------------------------------------------------------------------
\* submit_bvn: no record yet, and the BVN could be encrypted, or not.
SubmitRead(k) ==
  /\ Begins(k)
  /\ \E state \in IF kyc[PersonOf[k]] # None THEN {"conflict"} ELSE {"write", "failed"} :
       Goes(k, state)
  /\ UNCHANGED <<rows, rowLock, loop, crashes, clientVars>>

\* kyc_records.user_id and .bvn_hash are unique.
Storable(k) ==
  /\ kyc[PersonOf[k]] = None
  /\ \A u \in People : kyc[u] # None => Bvn[kyc[u]] # Bvn[k]

SubmitWrite(k) ==
  /\ pc[k] = "write" /\ RowFree(k)
  /\ IF Storable(k)
       THEN Goes(k, "stored") /\ kyc' = [kyc EXCEPT ![PersonOf[k]] = k]
       ELSE Goes(k, "failed") /\ UNCHANGED kyc
  /\ UNCHANGED <<users, account, audited, rowLock, loop, crashes, clientVars>>

-----------------------------------------------------------------------------
\* execute_payout comes to SELECT ... FOR UPDATE on the user,
PayoutStart(r) ==
  /\ Begins(r) /\ loop = None
  /\ Goes(r, "lock")
  /\ loop' = r
  /\ UNCHANGED <<rows, rowLock, crashes, clientVars>>

\* has the lock, and awaits its client,
PayoutLock(r) ==
  /\ pc[r] = "lock" /\ RowFree(r)
  /\ rowLock' = [rowLock EXCEPT ![PersonOf[r]] = r]
  /\ BeginCalls(r)
  /\ Goes(r, "waiting")
  /\ loop' = None
  /\ UNCHANGED <<rows, crashes>>

\* whose last reply ends the transaction, one way or another.
PayoutReply(r) ==
  /\ pc[r] = "waiting" /\ loop = None
  /\ ReplyStep(r)
  /\ IF client'[r].phase \in Over
       THEN Goes(r, "ended") /\ rowLock' = [rowLock EXCEPT ![PersonOf[r]] = None]
       ELSE UNCHANGED <<pc, rowLock>>
  /\ UNCHANGED <<rows, loop, crashes>>

-----------------------------------------------------------------------------
ProviderActs(c) ==
  /\ TakeEffect(c)
  /\ UNCHANGED <<rows, rowLock, pc, loop, crashes>>

Underway(a) == pc[a] \notin Done \cup {"new", "never"}

\* The process dies; what it had not committed and whom it had not answered is
\* lost, but not a message on its way.
Crash ==
  /\ crashes < MaxCrashes
  /\ crashes' = crashes + 1
  /\ pc' = [a \in Attempts |-> IF Underway(a) THEN "lost" ELSE pc[a]]
  /\ client' = [c \in Clients |->
       IF client[c].phase \in Over \cup {"idle"} THEN client[c] ELSE Ends(client[c], "lost")]
  /\ rowLock' = [u \in People |-> None]
  /\ loop' = None
  /\ UNCHANGED <<rows, flying, effects>>

ProvisionStep(p) ==
  \/ ProvisionExisting(p) \/ ProvisionStart(p) \/ ProvisionReply(p)
  \/ InsertAccount(p) \/ AuditFailure(p)

Next ==
  \/ \E s \in Signups : Signup(s) \/ SignupTokens(s)
  \/ \E p \in Provisions : ProvisionStep(p)
  \/ \E k \in Submissions : SubmitRead(k) \/ SubmitWrite(k)
  \/ \E a \in Attempts : Respond(a)
  \/ \E r \in Payouts : PayoutStart(r) \/ PayoutLock(r) \/ PayoutReply(r)
  \/ \E c \in Clients : ProviderActs(c)
  \/ Crash

Spec == Init /\ [][Next]_vars

\* The loop serves its ready coroutines in turn, an awaited call returns or
\* times out, threads are scheduled and row locks are granted in order.
Fairness ==
  /\ \A s \in Signups : WF_vars(SignupTokens(s))
  /\ \A a \in Attempts : WF_vars(Respond(a))
  /\ \A p \in Provisions : SF_vars(ProvisionReply(p) \/ InsertAccount(p) \/ AuditFailure(p))
  /\ \A k \in Submissions : SF_vars(SubmitWrite(k))
  /\ \A r \in Payouts : SF_vars(PayoutLock(r) \/ PayoutReply(r))

FairSpec == Spec /\ Fairness

-----------------------------------------------------------------------------
\* Who is told of a row can count on it: a 201 has its account or KYC record, a
\* 502 its failed va.created, and an attempt told of an account or record it did
\* not make was told the truth.  A row of an attempt that is not told of it is
\* one whose answer a crash took after the commit.  No attempt both opens an
\* account and reports a failure.
RowsMatchAnswers ==
  /\ \A p \in Provisions :
       /\ pc[p] \in {"stored", "created"} => account[PersonOf[p]] = p
       /\ account[PersonOf[p]] = p => pc[p] \in {"stored", "created", "lost"} /\ p \notin audited
       /\ pc[p] = "existed" => account[PersonOf[p]] # None
       /\ pc[p] \in {"logged", "refused"} => p \in audited
       /\ p \in audited => pc[p] \in {"logged", "refused", "lost"}
  /\ \A k \in Submissions :
       /\ pc[k] \in {"stored", "created"} => kyc[PersonOf[k]] = k
       /\ kyc[PersonOf[k]] = k => pc[k] \in {"stored", "created", "lost"}
       /\ pc[k] = "conflict" => kyc[PersonOf[k]] # None

\* Whatever is retried, lost or raced: a stored account was opened, once, and
\* with "already provisioned" none was opened (wallet.py: it is idempotent).
StoredAccountOpen ==
  \A p \in Provisions :
    /\ account[PersonOf[p]] = p => effects[<<p, 1>>] = 1
    /\ pc[p] = "existed" => effects[<<p, 1>>] = 0 /\ ~flying[p]

\* What the caller of a client was told of the i-th call of its script.
AnswerOf(c, i) ==
  LET x == client[c] IN
    IF i < x.at \/ (i = x.at /\ x.phase = "ok") THEN "ok"
    ELSE IF i = x.at /\ x.phase \in Over THEN "error" ELSE "none"

Abstract == INSTANCE ProviderCalls WITH
  Calls <- ProviderCallIds,
  Shown <- {k \in ProviderCallIds : Shows(Script[k[1]][k[2]])},
  answer <- [k \in ProviderCallIds |-> AnswerOf(k[1], k[2])]

\* The repeat after a 401, late messages and crashes do not make a call take
\* effect twice, nor answer `ok` for one whose reply should have shown an effect
\* it did not have (nomba.py: a single 401 or 403 triggers one repeat, then gives
\* up).
CallsTakeEffectOnce == Abstract!Spec

\* The one way to be kept waiting: whoever runs on the loop waits for the row of
\* a user whose payout waits for the loop.
Stranded ==
  /\ loop # None /\ pc[loop] \in {"lock", "insert", "audit"}
  /\ ~RowFree(loop)

\* The system comes to rest: whoever began is answered, 401s, rejected refreshes,
\* timeouts and crashes notwithstanding, unless the loop is stranded.
AnsweredUnlessStranded == <>[]((\E a \in Attempts : Underway(a)) => Stranded)
=============================================================================
