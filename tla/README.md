# AutoPay in TLA+

A verification project for AutoPay, a FastAPI service that pays bills from a
wallet: TLA+ modules of its payment core, its onboarding, its refresh tokens and
its Telegram bot, TLC runs that check them on small instances, and theorems
about them that TLAPS proves for all values of the constants. Every definition
is translated from the code under `src/`; the payment provider, PostgreSQL's row
locks, SQLAlchemy's unit of work, python-telegram-bot, dateutil and the calendar
are modelled from how that code uses them and are marked external in
`PROJECT.json`, which also maps each definition to its source lines.

## 1. The system

One process (one uvicorn worker), one asyncio event loop, one PostgreSQL
database, one payment provider (Nomba).

| Part | State it keeps | Operations | Interacts with |
|---|---|---|---|
| Bills API `api/bills.py` | `bills` rows | upload, create, pay, cancel, list, get | agent, payout service |
| Payout service `services/payout.py` | `bills.status/retry_count`, `users.balance`, `transactions` | `execute_payout`, `_refund_on_failure`, `confirm_payout`, `schedule_recurrence` | provider (awaits), database (row locks) |
| Payment webhooks `api/webhooks.py` | `webhook_events` | dedup, `charge.success`, `transfer.success/failed/reversed` | payout service |
| Decision agent `agents/` | none | `decide` | called by upload, the scheduler, the bot |
| Scheduler `core/scheduler.py` | the APScheduler jobs | re-evaluate scheduled bills, spawn recurrences | database, in worker threads |
| Provider client `services/payments/` | an OAuth token per client object | token issue and refresh, one repeat of a call after a 401, account lookup, transfer, virtual account, webhook parsing | Nomba over HTTP |
| Authentication `services/auth.py`, `api/auth.py` | `users`, `refresh_tokens` | signup, login, refresh, logout | loads the user of every request; signup tries to open an account |
| Virtual accounts `api/wallet.py` | `virtual_accounts` | provision | provider (awaits) |
| KYC `api/kyc.py` | `kyc_records` | submit a BVN | unique constraints, a worker thread |
| Due dates `services/date_parser.py`, `handlers/helpers.py` | none (the clock) | read an extracted date, read a typed date, clamp | upload and the bot, before the agent |
| Telegram `handlers/`, `services/telegram.py` | link codes, a conversation per chat | link, unlink, bill conversation | payout service |
| Loaders, audit, health | `audit_logs` | | |

What is hard about it:

* **Blocking calls on the loop.** Handlers declared `async def` make blocking
  database calls. A wait for a row lock there stops the loop, and with it every
  coroutine, the lock's holder included.
* **A transaction held across an await.** `execute_payout` keeps its
  transaction and both row locks open while it awaits the provider. What it
  wrote before is visible to nobody, what it read before may no longer hold.
* **Sessions that remember.** `SELECT ... FOR UPDATE` does not refresh an
  instance the session already holds, and a flush writes only the columns that
  differ from what was loaded, as absolute values.
* **Worker threads.** Dependencies and handlers declared `def` (`cancel_bill`,
  `submit_bvn`, the loading of the user, the scheduler's jobs) run beside the
  loop.
* **A provider with a life of its own.** It may take a transfer on although the
  reply was an error or a timeout, and also after it; it settles, reverses and
  announces at any time, in any order, more than once.
* **Check, then act.** Refresh tokens, link codes, accounts and KYC records are
  looked up by one statement and used up or inserted by another, under READ
  COMMITTED, by several threads or across an await.
* **A clock that moves.** Dates are read when they are used, not when they were
  written; days are counted down a moment later; a job compares a date it wrote
  itself with the time it happens to run.
* **Conversations.** The bot's state, its buttons and `user_data` change at
  different moments of one handler, handlers of one chat overlap where Telegram
  pushes its updates, and any call to Telegram may raise.
* **Commit, then answer.** A handler reads its row again after the commit and
  then responds; a crash in between leaves a row whose caller heard nothing.

What makes each part correct: a wallet is never overdrawn and agrees with the
transactions; a bill is charged at most once, is `paid` only on the provider's
word and `processing` only while a debit is in flight; what a caller is told is
what the books hold; an event is applied exactly once; an occurrence of a
recurring bill is created once; a call of the provider takes effect at most once
and a stored account was opened; every request is answered;
a refresh token buys one successor and a signed-out one none; a link code links
one chat, and a chat has one account; a bill is due when its sender meant; the
bot offers and pays the bill that was confirmed and judged payable, no other, and
not early. Section 5 gives the properties and which of them the code keeps.

## 2. Modules

| Module | Models | Code |
|---|---|---|
| `Agent` | the decision rule | `agents/nodes.py` |
| `Store` | rows, row locks, the loop, the clock; the ORM's flush | `models/`, `core/database.py`, `schema.sql` |
| `Provider` | transfers and which events they announce (external) | as used by `nomba.py` |
| `Payout` | `POST /bills/{id}/pay`, `/bills/upload`, `/bills`; `execute_payout`, `_refund_on_failure` | `api/bills.py`, `services/payout.py` |
| `Webhooks` | `POST /webhooks/nomba`; `confirm_payout` | `api/webhooks.py`, `services/payout.py` |
| `BillCancel` | `POST /bills/{id}/cancel` | `api/bills.py` |
| `SchedulerJob` | `process_scheduled_bills` | `core/scheduler.py` |
| `Recurrence` | `process_recurring_bills`, `schedule_recurrence` | `core/scheduler.py`, `services/payout.py` |
| `AutoPay` | the composition, crashes, fairness | `main.py` |
| `Safety` | the properties of the core; the refinement of `Wallet` | |
| `Wallet` | an atomic wallet: the abstract specification | |
| `Ledger` | balances against the sums of the transactions | |
| `Invariants` | the inductive invariants of the core | |
| `NombaClient` | the provider client's token and its one repeat of a call | `services/payments/nomba.py` |
| `ProviderCalls` | what its callers count on: the abstract specification of the client | |
| `Onboarding` | signup, `POST /wallet/provision`, `POST /kyc/bvn`, beside payouts | `api/auth.py`, `api/wallet.py`, `api/kyc.py` |
| `Sessions` | login, refresh, logout, sign-out everywhere | `services/auth.py`, `api/auth.py`, `core/security.py` |
| `TelegramLink` | `/link`, `/unlink`, link codes, unlinking from the dashboard | `handlers/auth.py`, `api/auth.py` |
| `DueDate` | the two readers of due dates, the clamp, the days until | `services/date_parser.py`, `handlers/helpers.py` |
| `Conversation` | the bill conversation of one chat, and the time it takes | `handlers/bill_conversation.py` |
| `CoreProofs`, `SafetyProofs`, `ChargeProofs`, `LedgerProofs` | theorems about the core | |
| `OnboardingProofs`, `SessionsProofs`, `TelegramLinkProofs`, `ConversationProofs` | theorems about the module each extends | |
| `MCAutoPay`, `MCOnboarding`, `MCSessions`, `MCTelegramLink`, `MCConversation` | the instances for TLC | |

`Payout` extends `Provider` and `Agent`, `Webhooks` extends `Payout`,
`Recurrence` extends `SchedulerJob`, and `AutoPay` puts `Webhooks`, `BillCancel`
and `Recurrence` together. `Onboarding` extends `NombaClient`, `Conversation`
extends `DueDate` and `Agent`. `Sessions`, `TelegramLink`, `Onboarding` and
`Conversation` stand apart from the core: where one of them calls or waits for
the payout service its model says what it assumes.

### How state and actions correspond

The core:

* `balance`, `bill`, `txn`, `seen` are the **committed** rows. A request's
  uncommitted writes are in `draft[r]`, what its session loaded in `snap[r]`.
  A request names the transaction and the transfer it makes: the code draws a
  fresh reference for each attempt.
* `billLock`, `userLock` are the locks of `SELECT ... FOR UPDATE` and end with
  the transaction. An UPDATE of a locked row waits, and so does an INSERT whose
  foreign key names a locked user (`bills`, `audit_logs`).
* `loop` is the coroutine between two awaits. An action of a coroutine that
  starts after an await needs `loop = None`; one that only waits for a lock
  keeps `loop` and so blocks all others. A step that neither awaits nor waits
  is one action; several blocking statements in a row are one action with the
  guard of all their locks.
* `LoadUser` is a step of its own because FastAPI runs `get_current_active_user`
  in a worker thread, before the endpoint's coroutine gets the loop, and
  uploads then await the extraction. This is where a balance grows stale.
* `Reserve` is sections 5 and 6 of `execute_payout` up to the first await,
  including the missing-account branch that refunds without an await.
  `AccountResolved` is the account lookup's reply, after which the transfer is
  sent (`Send`); `AccountInvalid` and `LookupFailed` end the payout instead.
  `Accept` is the provider's step and may come at any time after `Send`, also
  when the payout has long been answered. `TransferInitiated` is the reply with
  the debit and the commit, whether or not the provider took the transfer on (see
  section 7); `TransferErred` an error or a timeout. `PayoutRaised` is the
  endpoint's rollback, for `upload_bill` with the bill in it. `Respond` is what
  follows a commit, which only a crash can keep from its caller.
* `Deliver` is the webhook's read part up to its dispatch, the actions of
  `WebhookStep` its write part; between them only threads run, because the
  handler does not await. `Flushed` writes the columns the handler changed.
* `CancelRead`/`CancelWrite` and `SweepRead`/`SweepWrite` are read and write of
  the threaded handlers, with everything else free to commit in between.
* `SpawnStart` is the recurrence job's query, `Spawn` one iteration of its loop,
  with its own commit: the original's UPDATE, which waits for the bill's row
  lock, then the copy's INSERT, which waits for the user's. `Copies` are ids
  reserved for the copies; they are absent until inserted, may be paid from then
  on, and have the original's next date as their own. `FirstDay` is a date only
  an operator can have set: no endpoint writes `is_recurring` or
  `next_recurrence_date`, so without one the job finds nothing.
* `Crash` rolls open transactions back, frees their locks and loses the
  coroutines; the provider and the committed rows stay.

Around it:

* In `NombaClient` a client is at a call of its `Script`, in a phase: waiting for
  a token (`issue`, `refresh`) or for the call's reply (`send`). `flying` is the
  message the provider has not decided on, `effects` what it did. A client is
  built for each request, so its token lock is always free and is left out. A
  token whose `expiresAt` came without an offset is `naive`: the next look at it
  raises.
* In `Onboarding`, `rowLock` is the payout's FOR UPDATE lock on the user, and
  `loop` is as above. `ProvisionReply` is every resumption of the coroutine
  while its client works; `InsertAccount` and `AuditFailure` are what it commits
  then, waiting on the loop for the row, and `Respond` is the answer. `Signup`'s account name is missing from
  its call, so nothing is sent; only its audit row remains (`SignupTokens`).
* In `Sessions` every statement of a worker thread is a step. A call names the
  token it mints. `tokenLock` is the row lock of a flushed UPDATE; a sign-out
  takes the locks of its rows one by one in the order of their ids (`issued`).
  The audit row of a refresh waits for a payout of its user (foreign key); the
  payout takes no token lock, so this wait ends and is left out.
* In `TelegramLink` the bot's handlers own the loop (`inLoop`) from their first
  query to their commit, statement by statement because threads come between;
  `Flush` writes the columns that differ from what was loaded, which is how an
  unlink and a relink can mix.
* In `Conversation` a handler is called, does its work and replies in separate
  steps, and the state changes only when it returns. `Slots` are the updates
  handled at a time: several in webhook mode, which `.env.example:42` and
  `services/telegram.py:6-9` make production, one when the bot polls. A handler is
  `overtaken` if another one changed the state or `user_data` while it awaited
  Telegram (a history field). `cards` are the messages whose buttons can still be
  tapped; one that lost its buttons stands in for a new one. Whether the columns
  of `bills` take what a bill says is `fits`: if not, the flush of `handle_confirm`
  raises after its first edit took the buttons. The arrival of a handler's last
  reply and its return are one step. `session_scope` closes without a commit
  (`ScopeCommits`), so a bill's id is drawn and its row is gone: `drawn` is a
  history of what was inserted. `Rest` lets the hours pass between updates.
* A bill in `user_data` has the text of its due date and the hour it was sent;
  the text is read when the bill is confirmed (`DueAt`). A date the user types
  is read at once, by dateutil, which takes the month first and of "in 4 days"
  only the 4, and is stored as the date it was read as (`typed`). In `DueDate` a
  text is its notation with two numbers, and `other` are the notations without a
  format in `date_parser.py`, as "Mar 15 2026" and "03/15/26"; time is in whole hours of a year that
  is no leap year, and the server's clock is the sender's (UTC).

## 3. Instances and bounds

`MCAutoPay` gives each named bill, request, credit and cancellation its data:
a charge is an amount plus a fee of 1 and a wallet starts with 6, so that one
payment fits and the second does not (`b1` at 3+1, `b2` at 2+1) until a credit
of 2 arrives. `b4` is due in 4 days, one more than the agent's cutoff, so the
day that may pass turns its verdict from schedule to pay now; `b6` has no
account number; `stray3` asks for a bill of another user. `b1` recurs, with
`x1` and `y1` as ids for its copies.

Bounds: `MaxNow` (days that pass; one is what a verdict and a recurrence need to
change), `MaxRetries` (`bills.max_retries`, 2 where the limit and the step before
it matter, else 1), `MaxSweeps` and `MaxSpawns` (runs of the two jobs),
`MaxCrashes`. `Reqs` bounds the attempts, `EventIds` the requestIds under which
one event may be announced (two in `core_separate`); an event may be delivered
any number of times under each. `Together` are the sets of actors that meet in
one history: `BillScenarios` holds four, so that a run has the hazards of two
attempts, a cancellation, the job and an upload without all of them at once. A
bill named there has a next recurrence date.

Two requests are enough for the hazards of two actors (two attempts at one
bill, or at one wallet), and the provider, the webhook handler, a canceller,
the job and a crash add the others. What TLC says of two requests the theorems
below say of any number.

`MCOnboarding`: three histories of one user, or two: two provisionings; a
provisioning, a submission and a payout with two calls; three signups of two
people and three submissions with two BVNs. One crash. Clients are bounded by
their scripts: a call is repeated once.

`MCSessions`: two logins, two refreshes, a logout and a sign-out everywhere of
one user; tokens of two users never meet. Two valid tokens and two calls that
revoke everything (a sign-out and a replay) are what row locks need to wait in a
circle. `Expiring` bounds the tokens that may expire. `MCTelegramLink`: three
codes of one user, whose ids are symmetric, and one of another; two `/link`
commands in one chat and one in another, an `/unlink`, two unlinks from the
dashboard, an invalidation. Two unlinks and a new link between them are what the
second interleaving of `OnlyStaleLinksPart` takes.

`MCConversation`: a chat that begins at 10 o'clock on 1 March and may rest once
for 20 hours (`Pause`, `rests`), past midnight and past a whole day's rounding.
Amounts of 1 and 9 over a balance of 5, and dates before, at and after the
cutoff, give all three verdicts. A history has its own bounds (`MCHistories`), so
that each question is asked where it bites: two updates at a time, a bill to pay
and one to schedule, two ids; one update at a time with a bill of each verdict
and one call to Telegram that raises; and each notation of a date with a rest.
Two `Messages` are one more than a conversation needs. Slots and messages are
symmetric. The theorems have no such bounds.

`CHECK_DEADLOCK FALSE` everywhere: an instance whose requests are answered,
whose transfers are announced, or whose ids are used up has nothing left to do.
That a request can also wait for ever is a property of its own
(`EveryRequestAnswered`, `LoopNeverWaitsForItself`, `AnsweredUnlessStranded`,
`CallsAnswered`).

## 4. Runs

Passing:

| Run | Shows |
|---|---|
| `core_bills` | one bill's charges: two payments and a cancellation; a payment beside the recurrence job and a payment of its copy; an upload that may pay at once, an insert, payments turned down; events, a day and a crash in any order, one between a commit and its response included: one live debit (`OneLiveDebit`), `processing` only with a debit in flight, answers that are what the books hold (`AnswersMatchBooks`), books that follow the provider, an occurrence inserted once, and the inductive `CoreInv` and `BillInv` |
| `core_same_wallet` | two bills of one wallet, two credits and the scheduler's first job: no negative balance, one open payout, `paid` only after success, `processing` only with a debit in flight, and every step one of the atomic wallet (`AtomicUnlessStale`) that keeps the ledger (`OnlyStaleCommitsDrift`), but for stale commits |
| `core_separate` | under fairness and with separate wallets, each event under two requestIds: every request is answered, every announced outcome is reconciled, once, and the protocol implements `Wallet` |
| `onboarding` | signups, provisionings, submissions and a payout, with clients whose tokens expire and whose calls are turned down, time out or arrive late, and a crash: what is stored is what was answered, a stored account is open, the client implements `ProviderCalls`, and all are answered unless the loop is stranded |
| `sessions` | overlapping calls on refresh tokens: a rotation is all or nothing, used and signed-out tokens open no later rotation, locks never wait in a circle |
| `telegram_link` | codes, commands and endpoints: a code links once, a chat has one account, and a link's two columns part in two interleavings only |
| `bot` | a chat with two updates at a time, edits, cancellations, old buttons, a failing call and a rest: only a handler that was overtaken offers or pays a bill that was not confirmed and judged payable, or leaves an id behind; only a confirmation strands the user; a date that can be read one way, in a notation its reader knows, is the one stored, and none such is judged payable before the cutoff |

Runs that TLC must find violated. Each states what the repository says of
itself and what the code does not do; the finding in `PROJECT.json` quotes it.

| Run | What happens |
|---|---|
| `claim_ledger_balanced` | two payments of one wallet: the second debits the balance it loaded before the first committed, whose debit is lost |
| `claim_loop_never_waits` | a second payment of a bill waits for its row lock on the loop that the first needs |
| `claim_settled_reconciles` | the event comes before the commit and is consumed: `processing` for ever |
| `claim_provider_pays_once` | a timeout of an accepted transfer, then a second attempt under a new reference |
| `claim_bot_bill_stored` | the bill the user confirms in the chat is flushed, never committed, and gone before the final confirmation |

Met while modelling, true of the actions and without a run of their own:

* a refused payout leaves no `failed` debit and no retry count, because the
  endpoint rolls back what `_refund_on_failure` wrote (DOCUMENTATION.md:315), and
  for an upload the bill goes with it (the comment at `api/bills.py:144-145`);
* a `payout_refund` after `payout_success` refunds nothing (DOCUMENTATION.md:324);
* two refreshes that overlap both rotate the same token, against "atomically
  look up + revoke" (`services/auth.py:178`); an expired token never revokes the
  others, since its JWT no longer decodes (DOCUMENTATION.md:181);
* `/link` takes any unused code, not "the most-recent" one
  (`api/auth.py:252-253`);
* a bill the agent would schedule makes `handle_confirm` raise, so its
  conversation does not end (DOCUMENTATION.md:208), and so does a bank code,
  account number or amount that its column does not take;
* with two updates at a time the final confirmation can ask for a bill the agent
  scheduled, or that was edited since: its reply is under way when an older card
  is used to edit the bill, and `FINAL_CONFIRM` is set afterwards, against
  "schedule → I'll process it when due" (`handlers/bill_conversation.py:7`). A cancellation
  may likewise clear the id between the confirmation's reply and its return;
* "Mar 15 2026" is listed as accepted (`services/date_parser.py:14`), but the
  formats have the comma only: it is due now, and payable at once;
* signup's own provisioning names no account, which the client refuses before it
  sends anything: no signup opens one (DOCUMENTATION.md:178 and 292);
* the `accountRef` the client calls stable is drawn anew by each attempt
  (`services/payments/nomba.py:294-297`), so two attempts open two accounts;
* the recurrence job computes the next date from the original's due date, which
  never changes: once that has passed too it spawns the same occurrence again,
  from the original and from its copies, although the date is moved "so the
  scheduler doesn't re-process the same bill" (`services/payout.py:313-314`); and
  it asks nothing of the bill's status, where DOCUMENTATION.md:268 says "once
  paid";
* a past due date is clamped so that the agent does not pay it at once
  (`services/date_parser.py:99-104`), but a date of now is -1 days away a moment
  later and is paid at once all the same;
* "in N days" with a huge N raises an OverflowError where
  `services/date_parser.py:34` says "Never raises"; a date without a year is this
  year's and, past, becomes now; an offset is dropped, not converted;
* the same text, 03/04/2026, is one day extracted from a bill and another typed
  as its correction;
* without a language-model key no bill can be entered from text: the vendor stays
  blank and the upload is turned down, where `services/loaders.py:12-15` says the
  missing fields are asked for.

## 5. Properties

`NonNegativeBalance`, `OneOpenPayout`, `PaidHasSuccess`, `OneLiveDebit`,
`ProcessingHasDebit`, `AnswersMatchBooks`, `BooksFollowProvider`,
`OccurrenceOnce` and `ReconciledForGood` (all in `Safety`),
`AtomicUnlessStale` and `ImplementsWallet` (both against `Wallet`),
`OnlyStaleCommitsDrift` (`Ledger`),
`EveryRequestAnswered` and `NewsReconciles`; `RowsMatchAnswers`,
`StoredAccountOpen`, `CallsTakeEffectOnce` and `AnsweredUnlessStranded`
 (`Onboarding`); `SuccessorRevokesPredecessor`,
`UsedTokenRefused`, `SignedOutStaysOut` and `CallsAnswered` (`Sessions`);
`CodeLinksOnce`, `ChatOfOneUser` and `OnlyStaleLinksPart` (`TelegramLink`);
`OnlyOvertakenMislead`, `OnlyOvertakenLeaveId`, `StuckOnlyAfterConfirm`,
`DueAsMeant` and `NotOfferedEarly` (`Conversation`).

Some deserve a word.

* `NonNegativeBalance` holds although the check uses a stale balance, since the
  debit uses the *same* stale balance: what is committed is what was checked.
  The price is the ledger: `OnlyStaleCommitsDrift` says that each error in it
  is exactly the change some payout overwrote, and that nothing else errs.
* `AtomicUnlessStale` says the same without sums: a step of the core takes,
  keeps or gives back a charge, or deposits a credit, atomically, or it is a
  `StaleCommit`. `ImplementsWallet` is the refinement where no commit can be
  stale; it fails with a shared wallet, as `claim_ledger_balanced` shows.
* `OneLiveDebit` holds although the status that guards it is stale when
  checked and can be overwritten by a cancellation in a thread. The bill is
  read and its lock asked for without an await in between, so on one loop
  nothing but a thread can come between; a cancellation only makes the status
  unpayable. With the scheduler's job it fails (the job turns `processing` back
  into `pending`), so it is stated for `MaxSweeps = 0`, the program as
  `start_scheduler` leaves it: APScheduler adds a job with
  `next_run_time=None` paused, and nothing resumes it.
* `core_same_wallet` runs that job all the same, and `core_bills` the recurrence
  job, to show what they would keep: neither `ProcessingHasDebit` nor
  `PaidHasSuccess` breaks, nor `OneLiveDebit` with the recurrence job.
* `AnswersMatchBooks` is where rollback and crash meet: a refusal leaves neither a
  debit nor the bill it inserted, and only a crash between commit and response
  leaves a debit whose caller was told nothing.
* `OccurrenceOnce` is about one bill while its next occurrence has not come:
  what the date written before the commit is for. Once it has come the job does
  spawn it again, as said above.
* `StoredAccountOpen` and `RowsMatchAnswers` are what is left of "idempotent" in
  `api/wallet.py`: an account opened in vain stays open at the provider, but what
  is stored was opened exactly once and, unless a crash took the answer after the
  commit, was answered so.
* `AnsweredUnlessStranded` names the one wait that may not end: whoever waits on
  the loop for the row of a user whose payout awaits its client.
* `UsedTokenRefused` and `SignedOutStaysOut` are about refreshes that begin
  later. Two that overlap both succeed, and a rotation in flight escapes a
  sign-out: the SELECT of each sees neither the other's UPDATE nor its INSERT.
* `OnlyStaleLinksPart` names the two interleavings that part a link's columns.
  `/link` loads a linked user, the dashboard unlinks it, and `/link` then writes
  the new chat only: that chat can neither be linked elsewhere nor unlinked. And
  an unlink from the dashboard that had loaded such a row writes its chat column
  only, over whatever link was made since. An `/unlink` cannot: it finds its user
  by a linked chat.
* `OnlyOvertakenMislead` and `OnlyOvertakenLeaveId` say where the conversation goes
  wrong: not with the polling bot, whatever replies fail and whatever older cards
  are tapped, and in webhook mode only by a handler that took `user_data` or the
  state for what it had been before an await.
* `DueAsMeant` compares what is stored with what the sender meant when the text
  was written (`Meant`), for texts that leave one reading (`Plain`), and bounds
  the error of the others: "in 4 days" slips by the time the chat rested.
* `NotOfferedEarly` shows what the floor of `timedelta.days` costs: a bill due in
  almost four days is judged payable, none earlier. A date in a notation its
  reader has no format for is left out: it is due at once, as `DueAsMeant` says.

### Fairness

`FairSpec` of `AutoPay` assumes what the runtime gives and nothing of its users:
a started handler goes on (threads are scheduled; the loop serves its callbacks
in turn, so strong fairness for steps that need it; PostgreSQL grants locks in
the order they were asked for); an awaited provider call ends, the HTTP client's
timeout of 30 seconds turning silence into an error; an event that is announced
and not yet in `webhook_events` is delivered again. It does not assume that a
transfer settles, that users act, that days pass, nor that nothing crashes.

`FairSpec` of `Onboarding` assumes the same of its coroutines and threads, and
nothing of the provider: a message may fly for ever, the client does not wait
for ever. `SessionsSpec` assumes that a call once begun goes on: its thread is
scheduled and PostgreSQL grants a lock that stays free. It assumes no call to
begin.

The liveness run of the core keeps requests on separate wallets: with one wallet
the loop can wait for itself, which `claim_loop_never_waits` shows.

## 6. Proofs

For all constants that satisfy the named assumptions of the modules: in the core
`ActorAssumption`, `DataAssumption`, `RequestAssumption`, `CancelAssumption`,
`SweepAssumption`, `RecurrenceAssumption` and `CrashAssumption`; `ScriptAssumption`
and `AttemptAssumption` in onboarding; `CallAssumption` in `Sessions`;
`LinkAssumption` in `TelegramLink`;
`ConversationAssumption` in the bot.

| Theorem | Property |
|---|---|
| `TypeCorrect` | `TypeOK` |
| `CoreInvariant` | `CoreInv` |
| `PayoutsSerialized` | `OneOpenPayout` |
| `AnswersTrue` | `AnswersMatchBooks` |
| `ReconciliationFinal` | `ReconciledForGood` |
| `BooksCorrect` | `BooksFollowProvider` |
| `PaidOnlyOnSuccess` | `PaidHasSuccess` |
| `WalletsNonNegative` | `NonNegativeBalance` |
| `ProcessingMeansInFlight` | `ProcessingHasDebit` |
| `ChargesGuarded` | `BillInv`, given `MaxSweeps = 0` |
| `ChargedAtMostOnce` | `OneLiveDebit`, given `MaxSweeps = 0` |
| `OccurrencesUnique` | `OccurrenceOnce` |
| `WalletAtomic` | `AtomicUnlessStale` |
| `PayoutsImplementWallet` | `ImplementsWallet`, given `Separate`: the refinement of `Wallet` |
| `DriftOnlyByStaleCommits` | `OnlyStaleCommitsDrift` |
| `SeparateWalletsBalance` | `LedgerBalanced`, given `Separate` |
| `SeparateNeverWait` | `LoopNeverWaitsForItself`, given `Separate` |
| `OnboardTypeCorrect` | `OnboardTypeOK` |
| `TakesEffectOnce` | `CallsTakeEffectOnce`: the refinement of `ProviderCalls` |
| `RowsAsAnswered` | `RowsMatchAnswers` |
| `StoredIsOpen` | `StoredAccountOpen` |
| `SessionsTyped` | `SessionsTypeOK` |
| `RotationAtomic` | `SuccessorRevokesPredecessor` |
| `UsedTokenOpensNothing` | `UsedTokenRefused` |
| `SignedOutOpensNothing` | `SignedOutStaysOut` |
| `LinksTypeCorrect` | `LinkTypeOK` |
| `OneLinkPerCode` | `CodeLinksOnce` |
| `OneUserPerChat` | `ChatOfOneUser` |
| `StaleLinksPart` | `OnlyStaleLinksPart` |
| `ConvTypeCorrect` | `ConvTypeOK` |
| `MisledOnlyByOvertaken` | `OnlyOvertakenMislead` |
| `IdLeftOnlyByOvertaken` | `OnlyOvertakenLeaveId` |
| `StoredAsMeant` | `DueAsMeant` |
| `NoOfferBeforeTheCutoff` | `NotOfferedEarly` |
| `StuckOnlyByConfirm` | `StuckOnlyAfterConfirm` |

Two hypotheses on the constants are not in the assumptions. `MaxSweeps = 0` is
the program as it starts, its first job paused. `Separate` (no wallet has two requests, or a request
and an inbound transfer) is what a user gets who does one thing at a time;
`core_separate` is an instance of it and `core_same_wallet` is not. Two properties
that a run finds violated hold under it, `LedgerBalanced` and
`LoopNeverWaitsForItself`: sharing a wallet is all that breaks them.

The core. None of the properties is inductive: each depends on who may run
and who holds which lock. `CoreInv` says so. `LoopInv`: a request
in the middle of a coroutine's stretch, or a webhook being handled, owns the
loop. `LockInv`: from `LockBill` on a payout has its bill's lock, from
`Reserve` on its wallet's. `DraftInv`: an open payout passed the checks on the
values in `snap`, and its draft is the one `Reserve` made. `HookInv`: the
transaction the webhook read is still as it was, because only coroutines write
transactions. `DebitInv`: a debit is there once a payout commits, and for a request that was
told so unless a crash took the answer.
`PresentInv`: who works on a bill has found its row. `OneOpenPayout` follows
from `LockInv` at once; the wallets stay non-negative because a commit writes
`snap` minus the charge, which `DraftInv` bounds.

`BillInv` then carries `OneLiveDebit`: a request that may still charge a bill
has an unpayable status to come past unless no debit of the bill is live
(`ChargeInv`), and a live debit leaves a status that no later attempt passes,
in the row and in the row a webhook read (`GuardInv`), given that the job is at
rest. `SpawnInv` carries `OccurrenceOnce`: a stored occurrence has moved its
original's date, and what the job is about to copy has one that has come.

`CoreProofs` has one lemma per family of actions for what it does to locks,
loop and drafts, and one for what the other requests keep meanwhile;
`SafetyProofs` and `ChargeProofs` use them action by action.

The wallet. `EntryInv` says what the moves of `Wallet` presuppose: which statuses
the entry of a debit or a credit may have (`DebitStates`, `CreditInv`), and that
a payout is of the wallet of its bill's owner (`OwnerInv`), so that a refund goes
where the charge came from. With it each writer of a balance or a transaction is
one move of `Wallet`, the commit of a payout with a fresh snapshot included; with
a stale one it is `StaleCommit`. Under `Separate` a snapshot stays fresh from the
load of the user to the commit (`FreshInv`), so that no step is stale and the
refinement follows; the initial states map to `Wallet`'s. `HeldInv` is the other
half of `LockInv`: who has a lock is an open payout of that row, so that no lock
outlives an answer, a rollback or a crash. `SeparateNeverWait` follows from it.

The ledger. `Expected` sums over finite sets of transactions. The library defines
the sum by choosing an element, so its two laws, a summand taken out and one put
in, need induction over the set, and an induction theorem with an operator for
parameter cannot be used here. `LedgerProofs` takes a minimal counterexample
instead: the subsets of a finite set are well-founded under the strict subset,
so a set of subsets that break the law has a minimal member (`Smallest`), and the
law holds there. There may be infinitely many requests, but only finitely many
have moved: `FiniteBooks`, an invariant since a step writes one entry at most.
Each of the four moves of `Wallet` then changes a balance and its expectation
alike, and a stale commit by what it overwrites. `SeparateWalletsBalance` is drawn
from the refinement alone: an atomic wallet balances.

Onboarding. `ClientInv` says of each call what its client's phase allows: one
not yet sent, or turned down, has had no effect; one with a message in the air
has had none and will have at most that one; one whose data was read as that of
an account or a lookup has had one (`Fits`). Every action of the client is one of three moves, and each is a step
or a stutter of `ProviderCalls`. `LinkInv` ties a provisioning to its client, so
that who inserts has a client whose call succeeded; with it `RowsMatchAnswers` is
inductive, `Respond` and `Crash` included.

Sessions. `SessionsInv`: a call that has not minted has no row (`AbsentInv`), who
rotates or revokes presented a row of the table (`RotateInv`, `RevokeInv`,
`RowsInv`), and who rotated left a revoked one (`RotatedInv`), which no step
makes valid again because a row is valid only from its INSERT.
`UsedTokenRefused` follows, as a call is let through only on a row it read as
valid. For `SignedOutStaysOut` `DeniedInv` adds that the tokens a sign-out or a
replay found are revoked rows from its answer on, and stay so.

Links. `LinkInv`: a `/link` that has read its code as unused holds the loop until
it commits, nobody else has linked with that code (`Unclaimed`), and no other
account has its chat (`Others`), since only a commit of `/link` gives one;
an `/unlink` commits over columns that agree. The rest are threads that only
clear. `StaleLinksPart` then goes through the commits that may part a row.

The bot. `ChatInv`: a handler that was not overtaken finds the state it was called
in and, when it offers the final confirmation, the id and the bill in `user_data`
that the agent judged payable (`HandlerFits`, `Offers`), one that ends the
conversation clears the id or finds none; an overtaken one is bound by nothing but
the shape of its reply (`Shaped`). The two properties of overtaken handlers are
what that says of the steps that set the state. And every row is what its bill was read and judged
as at the hour of its insertion (`RowsJudged`). The two properties about dates
follow from `RowsJudged` and the lemmas on the readers (`Extracted`, `Typed`),
for every text, hour and rest.

`StuckOnlyByConfirm` needs `HearsInv` beside it: while Telegram has not failed, a
state with buttons has a message with that state's keyboard, or a reply is under
way, unless the bill is one to schedule or one its table does not take; each
reply, edit and question leaves it so.

Only model-checked: the liveness properties `EveryRequestAnswered`,
`NewsReconciles`, `AnsweredUnlessStranded` and `CallsAnswered`, since fairness and
`ENABLED` are beyond the prover. Every other property of the passing runs is a
theorem. The runs that must be violated need no proof: their traces are one.

## 7. Assumptions

What the models take from outside the code, beside the fairness above:

* The provider never gives two events one requestId. The code's key is the
  requestId alone (`services/payments/nomba.py:494`), the model's the event with
  its id; `DuplicateId`, a mutant, is what goes wrong otherwise.
* No event announces a transfer that the provider did not take on. A reply may:
  `_request` returns the data of any 2xx without a look at its envelope's code
  (`services/payments/nomba.py:282`), so a debit may be committed for a transfer
  that was declined, and no property says that it ever leaves `processing`.
* A reply with the data of an account or a lookup means that the call was carried
  out; one without raises, whatever was done.
* The database answers: an error or a lost connection between a commit and its
  response is not modelled apart from a crash, which has the same outcome.
* In the bot, the last reply's arrival and the handler's return are one step, so
  that two replies to one message return in the order they arrive, and Telegram
  delivers an update once.

## 8. Not modelled, and the plan

Left out for good: HTTP and webhook signatures; what the loaders' PDF, OCR and
language-model calls make of a bill (the models take any bill, or none);
password hashing, JWT encoding and the encryption of a BVN beyond that it may
fail; the set-up of the bot and of the application; logging, health and timing;
and the contents of audit rows, which no handler reads. A virtual-account event
and an unknown event only write an audit row. The connection pool is taken to be
large enough. Of `create_transfer_recipient` only success is kept: in `nomba.py`
it does not fail. In `DueDate` times of day, weeks, months and words for numbers
are left out: they are other ways to write the same hours.

Left to do, in this order:

1. Proofs: under which hypothesis on the provider `ProviderPaysOnce` holds; that
   locks of `Sessions` are never waited for in a circle, the safety part of
   `CallsAnswered`; what is left of `OneLiveDebit` with the scheduler's first job.
2. Runs for the disagreements above that have none, each in turn of another: the
   repeated occurrence first.
3. A copy of a copy in `Recurrence`: the instances reserve no id for one, so the
   job waits at it.
