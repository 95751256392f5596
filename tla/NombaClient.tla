----------------------------- MODULE NombaClient -----------------------------
(***************************************************************************)
(* The client of the payment provider (app/services/payments/nomba.py):    *)
(* its access token and its one repeat of a call answered 401 or 403.      *)
(*                                                                         *)
(* get_payment_provider builds a client for each request, so a client is   *)
(* used by one coroutine and its token lock is always free.  A client makes*)
(* the calls of its Script one after the other; the first that fails ends  *)
(* it, as it ends the handler that makes them.  Between two awaits a step  *)
(* needs the event loop: the module that composes the clients grants it.   *)
(***************************************************************************)
EXTENDS Naturals, Sequences

CONSTANTS Clients,
          Script     \* the calls each client's handler makes, in order

ASSUME ScriptAssumption == Script \in [Clients -> Seq(STRING) \ {<<>>}]

VARIABLES client,
          flying,    \* the client's last message is not yet decided on
          effects    \* how often each call took effect at the provider

clientVars == <<client, flying, effects>>

\* A token with a date is fresh until five minutes before it; one whose
\* expiresAt came without an offset can not be compared with the clock.
Tokens == {"none", "dated", "naive"}

Over == {"ok", "error", "raised", "lost"}
Phases == {"idle", "issue", "refresh", "send"} \cup Over

ClientRec == [phase : Phases, at : Nat \ {0}, token : Tokens,
              canRefresh : BOOLEAN, retried : BOOLEAN]

NewClient == [phase |-> "idle", at |-> 1, token |-> "none",
              canRefresh |-> FALSE, retried |-> FALSE]

ProviderCallIds == UNION {{c} \X DOMAIN Script[c] : c \in Clients}

ClientTypeOK ==
  /\ client \in [Clients -> ClientRec]
  /\ \A c \in Clients : client[c].at \in DOMAIN Script[c]
  /\ flying \in [Clients -> BOOLEAN]
  /\ effects \in [ProviderCallIds -> Nat]

ClientInit ==
  /\ client = [c \in Clients |-> NewClient]
  /\ flying = [c \in Clients |-> FALSE]
  /\ effects = [k \in ProviderCallIds |-> 0]

Current(c) == <<c, client[c].at>>

-----------------------------------------------------------------------------
\* The client goes on as `x`; the message it sends is on its way.
GoesOn(c, x) ==
  /\ client' = [client EXCEPT ![c] = x]
  /\ flying' = [flying EXCEPT ![c] = (x.phase = "send")]
  /\ UNCHANGED effects

\* Mutant: a finished client points past the call it ended in.
EndsPastCall(x, phase) == [NewClient EXCEPT !.phase = phase, !.at = x.at + 1]

\* A finished client keeps only where it got to.
Ends(x, phase) == [NewClient EXCEPT !.phase = phase, !.at = x.at]

\* _ensure_token, at the head of a call: where it leaves a client `x`.
Entered(x) ==
  CASE x.token = "none"  -> {[x EXCEPT !.phase = "issue"]}
    [] x.token = "naive" -> {Ends(x, "raised")}
    [] x.token = "dated" -> {[x EXCEPT !.phase = "send"],
                             [x EXCEPT !.phase = IF x.canRefresh THEN "refresh" ELSE "issue"]}

BeginCalls(c) ==
  /\ client[c].phase = "idle"
  /\ \E x \in Entered(client[c]) : GoesOn(c, x)

\* _issue_token and _refresh_token_call: a token arrives and the call is sent.
TokenGranted(c) ==
  /\ client[c].phase \in {"issue", "refresh"}
  /\ \E t \in Tokens \ {"none"}, again \in BOOLEAN :
       GoesOn(c, [client[c] EXCEPT !.phase = "send", !.token = t, !.canRefresh = again])

\* A rejected refresh falls back to a full re-issue.
RefreshRejected(c) ==
  /\ client[c].phase = "refresh"
  /\ GoesOn(c, [client[c] EXCEPT !.phase = "issue"])

\* A transport error or a rejected issue raises a PaymentError; a body that is
\* not JSON or has no access_token raises something else.
TokenDenied(c) ==
  /\ client[c].phase \in {"issue", "refresh"}
  /\ \E how \in {"error", "raised"} : GoesOn(c, Ends(client[c], how))

-----------------------------------------------------------------------------
\* The provider acts on a message, whether or not someone still waits.
TakeEffect(c) ==
  /\ flying[c]
  /\ flying' = [flying EXCEPT ![c] = FALSE]
  /\ effects' = [effects EXCEPT ![Current(c)] = @ + 1]
  /\ UNCHANGED client

\* Mutant: the repeat may itself be repeated.
RepeatsAlways(x) == TRUE

\* _retried: a call is repeated once.
MayRepeat(x) == ~x.retried

\* The provider turns the token down, and with it the call: drop the token and
\* repeat the call, or give up.
Unauthorized(c) ==
  /\ client[c].phase = "send" /\ flying[c]
  /\ IF MayRepeat(client[c])
       THEN \E x \in Entered([client[c] EXCEPT !.token = "none", !.retried = TRUE]) :
              GoesOn(c, x)
       ELSE GoesOn(c, Ends(client[c], "error"))

\* Mutant: after a transport error the call is sent again.
SentAgain(c) == GoesOn(c, client[c])

LeftInDoubt(c) ==
  /\ client' = [client EXCEPT ![c] = Ends(@, "error")]
  /\ UNCHANGED <<flying, effects>>

\* No reply in time, or a broken connection: the message may still arrive.
TransportError(c) ==
  /\ client[c].phase = "send"
  /\ LeftInDoubt(c)

\* Any other status >= 400, or a body that is not JSON, done or not.
CallRejected(c) ==
  /\ client[c].phase = "send"
  /\ GoesOn(c, Ends(client[c], "error"))

\* A 2xx whose data lacks a key the caller reads, the envelope of an error too:
\* _request does not look at its code.
ReplyIncomplete(c) ==
  /\ client[c].phase = "send"
  /\ GoesOn(c, Ends(client[c], "raised"))

\* The data of an account or a lookup, which the caller reads, shows that the
\* call was carried out; of a transfer's reply nothing is required.
Shows(call) == call # "transfer"

\* A 2xx with what the caller reads: the handler makes its next call, if there
\* is one.
CallSucceeds(c) ==
  /\ client[c].phase = "send"
  /\ flying[c] => ~Shows(Script[c][client[c].at])
  /\ LET x == [client[c] EXCEPT !.at = @ + 1, !.retried = FALSE]
     IN  IF client[c].at = Len(Script[c])
           THEN GoesOn(c, Ends(client[c], "ok"))
           ELSE \E y \in Entered(x) : GoesOn(c, y)

\* What resumes the coroutine that awaits the client.
ReplyStep(c) ==
  \/ TokenGranted(c) \/ RefreshRejected(c) \/ TokenDenied(c)
  \/ Unauthorized(c) \/ TransportError(c) \/ CallRejected(c)
  \/ ReplyIncomplete(c) \/ CallSucceeds(c)
=============================================================================
