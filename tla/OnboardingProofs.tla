-------------------------- MODULE OnboardingProofs --------------------------
(***************************************************************************)
(* Theorems about onboarding, for any attempts, clients and crashes: a     *)
(* call of the payment client takes effect at most once, and what a user   *)
(* was told of an account or a KYC record is what is stored.               *)
(***************************************************************************)
EXTENDS Onboarding, TLAPS

\* What an `ok` for its i-th call tells a client.
Sound(c, i) ==
  /\ effects[<<c, i>>] \in {0, 1}
  /\ Shows(Script[c][i]) => effects[<<c, i>>] = 1

\* A client `x` with `fl` for its message fits what its calls have done: those
\* before the current one took effect once if their replies show it, those after
\* it never, and the current one not before its message was sent nor while it is
\* on its way.
Fits(c, x, fl) ==
  /\ x \in ClientRec /\ fl \in BOOLEAN
  /\ x.at \in DOMAIN Script[c]
  /\ \A i \in DOMAIN Script[c] : /\ i < x.at => Sound(c, i)
                                 /\ i > x.at => effects[<<c, i>>] = 0
  /\ effects[<<c, x.at>>] \in {0, 1}
  /\ fl => effects[<<c, x.at>>] = 0 /\ x.phase \in {"send", "error", "lost"}
  /\ x.phase \in {"idle", "issue", "refresh"} => effects[<<c, x.at>>] = 0
  /\ x.phase = "send" /\ ~fl => effects[<<c, x.at>>] = 1
  /\ x.phase = "ok" => Sound(c, x.at) /\ x.at = Len(Script[c])

ClientInv ==
  /\ ClientTypeOK
  /\ \A c \in Clients : Fits(c, client[c], flying[c])

\* The calls of a script are numbered from 1.
LEMMA ScriptData ==
  ASSUME NEW c \in Clients
  PROVE  /\ DOMAIN Script[c] = 1..Len(Script[c])
         /\ Len(Script[c]) \in Nat /\ Len(Script[c]) >= 1
BY ScriptAssumption DEF ScriptAssumption

LEMMA CallIds ==
  ASSUME NEW c \in Clients, NEW i \in DOMAIN Script[c]
  PROVE  <<c, i>> \in ProviderCallIds
BY DEF ProviderCallIds

LEMMA CallIdsOnly ==
  ASSUME NEW k \in ProviderCallIds
  PROVE  \E c \in Clients : \E i \in DOMAIN Script[c] : k = <<c, i>>
<1>1. PICK c \in Clients : k \in {c} \X DOMAIN Script[c]
  BY DEF ProviderCallIds
<1>2. QED BY <1>1

\* The parts of a client's record.
LEMMA ClientParts ==
  ASSUME NEW x \in ClientRec
  PROVE  /\ x.phase \in Phases /\ x.at \in Nat /\ x.at >= 1 /\ x.token \in Tokens
         /\ x.retried \in BOOLEAN
BY DEF ClientRec

\* Changing the phase, or starting anew at the same call.
LEMMA ClientMoves ==
  ASSUME NEW x \in ClientRec, NEW ph \in Phases
  PROVE  /\ [x EXCEPT !.phase = ph] \in ClientRec
         /\ [x EXCEPT !.phase = ph].phase = ph /\ [x EXCEPT !.phase = ph].at = x.at
         /\ Ends(x, ph) \in ClientRec /\ Ends(x, ph).phase = ph /\ Ends(x, ph).at = x.at
BY DEF ClientRec, Ends, NewClient, Tokens, Phases, Over

\* A token arrives.
LEMMA GrantMoves ==
  ASSUME NEW x \in ClientRec, NEW t \in Tokens, NEW b \in BOOLEAN
  PROVE  [x EXCEPT !.phase = "send", !.token = t, !.canRefresh = b] \in ClientRec
<1>1. "send" \in Phases
  BY DEF Phases
<1>2. QED BY <1>1 DEF ClientRec

\* The token is dropped for the repeat, or the client turns to its next call.
LEMMA TurnMoves ==
  ASSUME NEW x \in ClientRec
  PROVE  /\ [x EXCEPT !.token = "none", !.retried = TRUE] \in ClientRec
         /\ [x EXCEPT !.at = x.at + 1, !.retried = FALSE] \in ClientRec
         /\ [x EXCEPT !.at = x.at + 1, !.retried = FALSE].at = x.at + 1
<1>1. "none" \in Tokens /\ x.at \in Nat \ {0} /\ x.at + 1 \in Nat \ {0}
  BY DEF ClientRec, Tokens
<1>2. [x EXCEPT !.token = "none", !.retried = TRUE] \in ClientRec
  BY <1>1 DEF ClientRec
<1>3. /\ [x EXCEPT !.at = x.at + 1, !.retried = FALSE] \in ClientRec
      /\ [x EXCEPT !.at = x.at + 1, !.retried = FALSE].at = x.at + 1
  BY <1>1 DEF ClientRec
<1>4. QED BY <1>2, <1>3

\* Where a client is after it has ensured a token: it waits for one, has sent
\* the call, or has given up; in the same call.
LEMMA EnteredMoves ==
  ASSUME NEW x \in ClientRec, NEW y \in Entered(x)
  PROVE  y \in ClientRec /\ y.at = x.at /\ y.phase \in {"issue", "refresh", "send", "raised"}
<1>1. PICK ph \in {"issue", "refresh", "send", "raised"} :
        y = [x EXCEPT !.phase = ph] \/ y = Ends(x, ph)
  <2>1. x.token = "none" \/ x.token = "naive" \/ x.token = "dated"
    BY ClientParts DEF Tokens
  <2>2. CASE x.token = "none"
    BY <2>2 DEF Entered
  <2>3. CASE x.token = "naive"
    BY <2>3 DEF Entered
  <2>4. CASE x.token = "dated"
    <3>1. Entered(x) = {[x EXCEPT !.phase = "send"],
                        [x EXCEPT !.phase = IF x.canRefresh THEN "refresh" ELSE "issue"]}
      BY <2>4 DEF Entered
    <3>2. CASE x.canRefresh
      <4>1. Entered(x) = {[x EXCEPT !.phase = "send"], [x EXCEPT !.phase = "refresh"]}
        BY <3>1, <3>2
      <4>2. QED BY <4>1
    <3>3. CASE ~x.canRefresh
      <4>1. Entered(x) = {[x EXCEPT !.phase = "send"], [x EXCEPT !.phase = "issue"]}
        BY <3>1, <3>3
      <4>2. QED BY <4>1
    <3>4. QED BY <3>2, <3>3
  <2>5. QED BY <2>1, <2>2, <2>3, <2>4
<1>2. ph \in Phases
  BY DEF Phases, Over
<1>3. /\ [x EXCEPT !.phase = ph] \in ClientRec
      /\ [x EXCEPT !.phase = ph].phase = ph /\ [x EXCEPT !.phase = ph].at = x.at
      /\ Ends(x, ph) \in ClientRec /\ Ends(x, ph).phase = ph /\ Ends(x, ph).at = x.at
  BY <1>2, ClientMoves
<1>4. CASE y = [x EXCEPT !.phase = ph]
  BY <1>3, <1>4
<1>5. CASE y = Ends(x, ph)
  BY <1>3, <1>5
<1>6. QED BY <1>1, <1>4, <1>5

\* Initially no call has taken effect.
LEMMA InitClient == Init => ClientInv
<1>0. Init => ClientTypeOK
  <2>1. NewClient \in ClientRec /\ NewClient.at = 1
    <3>1. "idle" \in Phases /\ "none" \in Tokens /\ 1 \in Nat \ {0}
      BY DEF Phases, Tokens
    <3>2. QED BY <3>1 DEF NewClient, ClientRec
  <2>2. ASSUME NEW c \in Clients PROVE 1 \in DOMAIN Script[c]
    BY ScriptData
  <2>3. QED BY <2>1, <2>2 DEF Init, ClientInit, ClientTypeOK
<1> SUFFICES ASSUME Init, NEW c \in Clients PROVE Fits(c, client[c], flying[c])
  BY <1>0 DEF ClientInv
<1>1. client[c] = NewClient /\ flying[c] = FALSE /\ \A k \in ProviderCallIds : effects[k] = 0
  BY DEF Init, ClientInit
<1>2. NewClient \in ClientRec /\ NewClient.at = 1 /\ NewClient.phase = "idle"
  BY DEF NewClient, ClientRec, Phases, Over, Tokens
<1>3. \A i \in DOMAIN Script[c] : effects[<<c, i>>] = 0
  BY <1>1, CallIds
<1>4. 1 \in DOMAIN Script[c] /\ \A i \in DOMAIN Script[c] : ~(i < 1)
  BY ScriptData
<1>5. QED BY <1>1, <1>2, <1>3, <1>4 DEF Fits

\* A client's own step: it moves within a call, or to the next one after this
\* one took effect.
Moves(c, x, fl) ==
  /\ client' = [client EXCEPT ![c] = x]
  /\ flying' = [flying EXCEPT ![c] = fl]
  /\ effects' = effects
  /\ Fits(c, x, fl)
  /\ client[c].phase \notin Over
  /\ \/ x.at = client[c].at
     \/ x.at = client[c].at + 1 /\ Sound(c, client[c].at) /\ x.phase # "ok"

\* Moving on within a call that has not been sent, or has not taken effect.
LEMMA UnsentFits ==
  ASSUME ClientInv, NEW c \in Clients, effects[<<c, client[c].at>>] = 0,
         NEW y \in ClientRec, y.at = client[c].at, y.phase # "ok",
         NEW fl \in BOOLEAN, fl <=> y.phase = "send"
  PROVE  Fits(c, y, fl)
<1>1. Fits(c, client[c], flying[c])
  BY DEF ClientInv
<1>2. QED BY <1>1 DEF Fits

\* Ending in an error, whatever the call did.
LEMMA EndedFits ==
  ASSUME ClientInv, NEW c \in Clients, client[c].phase \notin Over, NEW ph \in {"error", "lost", "raised"},
         NEW fl \in BOOLEAN, fl => flying[c] /\ ph # "raised"
  PROVE  Fits(c, Ends(client[c], ph), fl)
<1>1. Fits(c, client[c], flying[c])
  BY DEF ClientInv
<1>2. /\ Ends(client[c], ph) \in ClientRec /\ Ends(client[c], ph).phase = ph
      /\ Ends(client[c], ph).at = client[c].at
  <2>1. client[c] \in ClientRec
    BY <1>1 DEF Fits
  <2>2. ph \in Phases
    BY DEF Phases, Over
  <2>3. QED BY <2>1, <2>2, ClientMoves
<1>3. QED BY <1>1, <1>2 DEF Fits

\* To go on as `y`, having sent a message or not.
LEMMA GoesOnMoves ==
  ASSUME NEW c \in Clients, NEW y, GoesOn(c, y), Fits(c, y, y.phase = "send"),
         client[c].phase \notin Over,
         \/ y.at = client[c].at
         \/ y.at = client[c].at + 1 /\ Sound(c, client[c].at) /\ y.phase # "ok"
  PROVE  \E x, fl : Moves(c, x, fl)
<1>1. Moves(c, y, y.phase = "send")
  BY DEF GoesOn, Moves
<1>2. QED BY <1>1

\* What the record of a client says of the call it makes.
LEMMA ClientAt ==
  ASSUME ClientInv, NEW c \in Clients
  PROVE  /\ client[c] \in ClientRec /\ Fits(c, client[c], flying[c])
         /\ client[c].phase \in {"idle", "issue", "refresh"} => effects[<<c, client[c].at>>] = 0
         /\ client[c].phase = "send" /\ flying[c] => effects[<<c, client[c].at>>] = 0
         /\ client[c].phase = "send" /\ ~flying[c] => effects[<<c, client[c].at>>] = 1
<1>1. Fits(c, client[c], flying[c])
  BY DEF ClientInv
<1>2. QED BY <1>1 DEF Fits

\* A 2xx ends the script or begins its next call.
LEMMA SuccessMoves ==
  ASSUME ClientInv, NEW c \in Clients, CallSucceeds(c)
  PROVE  \E x, fl : Moves(c, x, fl)
<1> DEFINE z == [client[c] EXCEPT !.at = client[c].at + 1, !.retried = FALSE]
<1>1. client[c].phase = "send" /\ Sound(c, client[c].at)
  BY ClientAt DEF CallSucceeds, Fits, Sound
<1>2. Fits(c, client[c], flying[c]) /\ client[c] \in ClientRec
  BY ClientAt
<1>3. client[c].phase \notin Over
  BY <1>1 DEF Over
<1>4. CASE client[c].at = Len(Script[c])
  <2> DEFINE y == Ends(client[c], "ok")
  <2>1. GoesOn(c, y)
    BY <1>4 DEF CallSucceeds
  <2>2. y \in ClientRec /\ y.phase = "ok" /\ y.at = client[c].at
    BY <1>2, ClientMoves DEF Phases, Over
  <2>3. Fits(c, y, FALSE)
    <3> HIDE DEF y
    <3>1. QED BY <1>1, <1>2, <1>4, <2>2 DEF Fits
  <2>4. Fits(c, y, y.phase = "send")
    <3>1. (y.phase = "send") = FALSE
      BY <2>2
    <3>2. QED BY <2>3, <3>1
  <2>5. QED BY <1>3, <2>1, <2>2, <2>4, GoesOnMoves
<1>5. CASE client[c].at # Len(Script[c])
  <2>1. PICK y \in Entered(z) : GoesOn(c, y)
    BY <1>5 DEF CallSucceeds
  <2>2. z \in ClientRec /\ z.at = client[c].at + 1
    BY <1>2, TurnMoves
  <2>3. y \in ClientRec /\ y.at = client[c].at + 1 /\ y.phase \in {"issue", "refresh", "send", "raised"}
    BY <2>2, EnteredMoves
  <2>4. y.at \in DOMAIN Script[c] /\ client[c].at \in Nat
    BY <1>2, <1>5, <2>3, ScriptData, ClientParts DEF Fits
  <2>5. /\ effects[<<c, y.at>>] = 0
        /\ \A i \in DOMAIN Script[c] : /\ i < y.at => Sound(c, i)
                                       /\ i > y.at => effects[<<c, i>>] = 0
    <3>1. client[c].at + 1 \in DOMAIN Script[c]
      BY <2>3, <2>4
    <3>2. \A i \in DOMAIN Script[c] : /\ i < client[c].at => Sound(c, i)
                                      /\ i > client[c].at => effects[<<c, i>>] = 0
      BY <1>2 DEF Fits
    <3>3. effects[<<c, client[c].at + 1>>] = 0
      BY <2>4, <3>1, <3>2
    <3>4. ASSUME NEW i \in DOMAIN Script[c]
          PROVE  /\ i < client[c].at + 1 => Sound(c, i)
                 /\ i > client[c].at + 1 => effects[<<c, i>>] = 0
      <4>1. i \in Nat
        BY ScriptData
      <4>2. CASE i = client[c].at
        BY <1>1, <2>4, <4>2
      <4>3. CASE i # client[c].at
        BY <2>4, <3>2, <4>1, <4>3
      <4>4. QED BY <4>2, <4>3
    <3>5. QED BY <2>3, <3>3, <3>4
  <2>6. Fits(c, y, y.phase = "send")
    BY <2>3, <2>4, <2>5 DEF Fits
  <2>7. QED BY <1>1, <1>3, <2>1, <2>3, <2>6, GoesOnMoves
<1>6. QED BY <1>4, <1>5

\* Every step of a client is such a move.
LEMMA ClientStepMoves ==
  ASSUME ClientInv, NEW c \in Clients, BeginCalls(c) \/ ReplyStep(c)
  PROVE  \E x, fl : Moves(c, x, fl)
<1>1. client[c] \in ClientRec /\ Fits(c, client[c], flying[c])
  BY ClientAt
<1>2. ASSUME client[c].phase \notin Over, effects[<<c, client[c].at>>] = 0,
             NEW y \in ClientRec, y.at = client[c].at, y.phase # "ok", GoesOn(c, y)
      PROVE  \E x, fl : Moves(c, x, fl)
  <2>1. Fits(c, y, y.phase = "send")
    BY <1>2, UnsentFits
  <2>2. QED BY <1>2, <2>1, GoesOnMoves
<1>3. ASSUME client[c].phase \notin Over, NEW ph \in {"error", "raised"}, GoesOn(c, Ends(client[c], ph))
      PROVE  \E x, fl : Moves(c, x, fl)
  <2> DEFINE y == Ends(client[c], ph)
  <2>1. y.phase = ph /\ y.at = client[c].at
    BY <1>1, <1>3, ClientMoves DEF Phases, Over
  <2>2. Fits(c, y, FALSE)
    BY <1>3, EndedFits
  <2>3. Fits(c, y, y.phase = "send")
    <3>1. (y.phase = "send") = FALSE
      BY <1>3, <2>1
    <3>2. QED BY <2>2, <3>1
  <2>4. QED BY <1>3, <2>1, <2>3, GoesOnMoves
<1>4. CASE BeginCalls(c)
  <2>1. client[c].phase = "idle" /\ \E y \in Entered(client[c]) : GoesOn(c, y)
    BY <1>4 DEF BeginCalls
  <2>2. effects[<<c, client[c].at>>] = 0 /\ client[c].phase \notin Over
    BY <2>1, ClientAt DEF Over
  <2>3. PICK y \in Entered(client[c]) : GoesOn(c, y)
    BY <2>1
  <2>4. y \in ClientRec /\ y.at = client[c].at /\ y.phase # "ok"
    BY <1>1, EnteredMoves
  <2>5. QED BY <1>2, <2>2, <2>3, <2>4
<1>5. CASE TokenGranted(c)
  <2>1. PICK t \in Tokens \ {"none"}, again \in BOOLEAN :
          GoesOn(c, [client[c] EXCEPT !.phase = "send", !.token = t, !.canRefresh = again])
    BY <1>5 DEF TokenGranted
  <2> DEFINE y == [client[c] EXCEPT !.phase = "send", !.token = t, !.canRefresh = again]
  <2>2. y \in ClientRec /\ y.phase = "send" /\ y.at = client[c].at
    <3>1. y \in ClientRec
      BY <1>1, GrantMoves
    <3>2. y.phase = "send" /\ y.at = client[c].at
      BY <1>1 DEF ClientRec
    <3>3. QED BY <3>1, <3>2
  <2>3. client[c].phase \in {"issue", "refresh"}
    BY <1>5 DEF TokenGranted
  <2>4. effects[<<c, client[c].at>>] = 0 /\ client[c].phase \notin Over
    BY <2>3, ClientAt DEF Over
  <2> HIDE DEF y
  <2>5. GoesOn(c, y)
    BY <2>1 DEF y
  <2>6. QED BY <1>2, <2>2, <2>4, <2>5
<1>6. CASE RefreshRejected(c)
  <2> DEFINE y == [client[c] EXCEPT !.phase = "issue"]
  <2>1. client[c].phase = "refresh" /\ GoesOn(c, y)
    BY <1>6 DEF RefreshRejected
  <2>2. y \in ClientRec /\ y.phase = "issue" /\ y.at = client[c].at
    BY <1>1, ClientMoves DEF Phases
  <2>3. effects[<<c, client[c].at>>] = 0 /\ client[c].phase \notin Over
    BY <2>1, ClientAt DEF Over
  <2> HIDE DEF y
  <2>4. QED BY <1>2, <2>1, <2>2, <2>3
<1>7. CASE TokenDenied(c)
  BY <1>3, <1>7 DEF TokenDenied, Over
<1>8. CASE Unauthorized(c)
  <2>1. client[c].phase = "send" /\ flying[c]
    BY <1>8 DEF Unauthorized
  <2>2. effects[<<c, client[c].at>>] = 0 /\ client[c].phase \notin Over
    BY <2>1, ClientAt DEF Over
  <2>3. CASE GoesOn(c, Ends(client[c], "error"))
    BY <1>3, <2>2, <2>3
  <2>4. CASE \E y \in Entered([client[c] EXCEPT !.token = "none", !.retried = TRUE]) : GoesOn(c, y)
    <3> DEFINE z == [client[c] EXCEPT !.token = "none", !.retried = TRUE]
    <3>1. z \in ClientRec /\ z.at = client[c].at
      <4>1. z \in ClientRec
        BY <1>1, TurnMoves
      <4>2. z.at = client[c].at
        BY <1>1 DEF ClientRec
      <4>3. QED BY <4>1, <4>2
    <3>2. PICK y \in Entered(z) : GoesOn(c, y)
      BY <2>4
    <3>3. y \in ClientRec /\ y.at = client[c].at /\ y.phase # "ok"
      <4> HIDE DEF z
      <4>1. QED BY <3>1, EnteredMoves
    <3>4. QED BY <1>2, <2>2, <3>2, <3>3
  <2>5. QED BY <1>8, <2>3, <2>4 DEF Unauthorized
<1>9. CASE TransportError(c)
  <2>1. /\ client' = [client EXCEPT ![c] = Ends(client[c], "error")]
        /\ UNCHANGED <<flying, effects>> /\ client[c].phase = "send"
    BY <1>9 DEF TransportError, LeftInDoubt
  <2>2. client[c].phase \notin Over /\ flying[c] \in BOOLEAN
    BY <1>1, <2>1 DEF Over, Fits
  <2>3. Ends(client[c], "error").at = client[c].at
    BY <1>1, ClientMoves DEF Phases, Over
  <2>4. Fits(c, Ends(client[c], "error"), flying[c])
    BY <2>2, EndedFits
  <2>5. flying' = [flying EXCEPT ![c] = flying[c]]
    BY <2>1 DEF ClientInv, ClientTypeOK
  <2>6. Moves(c, Ends(client[c], "error"), flying[c])
    BY <2>1, <2>2, <2>3, <2>4, <2>5 DEF Moves
  <2>7. QED BY <2>6
<1>10. CASE CallRejected(c) \/ ReplyIncomplete(c)
  BY <1>3, <1>10 DEF CallRejected, ReplyIncomplete, Over
<1>11. QED
  BY <1>4, <1>5, <1>6, <1>7, <1>8, <1>9, <1>10, SuccessMoves DEF ReplyStep

-----------------------------------------------------------------------------
(* The calls of all clients. *)

\* What a crash does to clients.
Deserted ==
  /\ client' = [c \in Clients |->
       IF client[c].phase \in Over \cup {"idle"} THEN client[c] ELSE Ends(client[c], "lost")]
  /\ UNCHANGED <<flying, effects>>

\* The steps of the system, as the clients see them.
LEMMA NextClients ==
  ASSUME ClientInv, [Next]_vars
  PROVE  \/ \E c \in Clients : \E x, fl : Moves(c, x, fl)
         \/ \E c \in Clients : TakeEffect(c)
         \/ Deserted \/ UNCHANGED clientVars
<1>1. Provisions \subseteq Clients /\ Payouts \subseteq Clients
  BY AttemptAssumption DEF AttemptAssumption
<1>2. CASE \E p \in Provisions : ProvisionStep(p)
  <2>1. PICK p \in Provisions : ProvisionStep(p)
    BY <1>2
  <2>2. p \in Clients
    BY <1>1
  <2>3. BeginCalls(p) \/ ReplyStep(p) \/ UNCHANGED clientVars
    BY <2>1 DEF ProvisionStep, ProvisionExisting, ProvisionStart, ProvisionReply, InsertAccount, AuditFailure
  <2>4. QED BY <2>2, <2>3, ClientStepMoves
<1>3. CASE \E r \in Payouts : PayoutStart(r) \/ PayoutLock(r) \/ PayoutReply(r)
  <2>1. PICK r \in Payouts : PayoutStart(r) \/ PayoutLock(r) \/ PayoutReply(r)
    BY <1>3
  <2>2. r \in Clients
    BY <1>1
  <2>3. BeginCalls(r) \/ ReplyStep(r) \/ UNCHANGED clientVars
    BY <2>1 DEF PayoutStart, PayoutLock, PayoutReply
  <2>4. QED BY <2>2, <2>3, ClientStepMoves
<1>4. CASE (\E s \in Signups : Signup(s) \/ SignupTokens(s))
           \/ (\E k \in Submissions : SubmitRead(k) \/ SubmitWrite(k))
           \/ (\E a \in Attempts : Respond(a)) \/ UNCHANGED vars
  BY <1>4 DEF Signup, SignupTokens, SubmitRead, SubmitWrite, Respond, vars
<1>5. CASE \E c \in Clients : ProviderActs(c)
  BY <1>5 DEF ProviderActs
<1>6. CASE Crash
  BY <1>6 DEF Crash, Deserted
<1>7. QED BY <1>2, <1>3, <1>4, <1>5, <1>6 DEF Next

\* What a client is does not depend on what the others' calls do.
LEMMA FitsKept ==
  ASSUME NEW c \in Clients, NEW x, NEW fl, Fits(c, x, fl),
         \A i \in DOMAIN Script[c] : effects'[<<c, i>>] = effects[<<c, i>>]
  PROVE  Fits(c, x, fl)'
BY DEF Fits, Sound

\* A move keeps every client fitting,
LEMMA MovesInv ==
  ASSUME ClientInv, NEW c \in Clients, NEW x, NEW fl, Moves(c, x, fl)
  PROVE  ClientInv'
<1>1. /\ client' = [client EXCEPT ![c] = x] /\ flying' = [flying EXCEPT ![c] = fl]
      /\ effects' = effects /\ Fits(c, x, fl)
  BY DEF Moves
<1>2. x \in ClientRec /\ fl \in BOOLEAN /\ x.at \in DOMAIN Script[c]
  BY <1>1 DEF Fits
<1>3. ClientTypeOK'
  BY <1>1, <1>2 DEF ClientInv, ClientTypeOK
<1>4. ASSUME NEW d \in Clients PROVE Fits(d, client[d], flying[d])'
  <2>1. CASE d = c
    <3>1. client'[c] = x /\ flying'[c] = fl
      BY <1>1 DEF ClientInv, ClientTypeOK
    <3>2. Fits(c, x, fl)'
      BY <1>1, FitsKept
    <3>3. QED BY <2>1, <3>1, <3>2 DEF Fits, Sound
  <2>2. CASE d # c
    <3>1. client'[d] = client[d] /\ flying'[d] = flying[d]
      BY <1>1, <2>2 DEF ClientInv, ClientTypeOK
    <3>2. Fits(d, client[d], flying[d])
      BY DEF ClientInv
    <3>3. QED BY <1>1, <3>1, <3>2 DEF Fits, Sound
  <2>3. QED BY <2>1, <2>2
<1>5. QED BY <1>3, <1>4 DEF ClientInv

\* and so does the provider, which acts once on a message,
LEMMA EffectInv ==
  ASSUME ClientInv, NEW c \in Clients, TakeEffect(c)
  PROVE  /\ ClientInv' /\ <<c, client[c].at>> \in ProviderCallIds
         /\ effects[<<c, client[c].at>>] = 0
         /\ effects' = [effects EXCEPT ![<<c, client[c].at>>] = 1] /\ client' = client
<1> DEFINE k == <<c, client[c].at>>
<1>1. Fits(c, client[c], flying[c]) /\ flying[c]
  BY DEF TakeEffect, ClientInv
<1>2. effects[k] = 0 /\ client[c].at \in DOMAIN Script[c] /\ client[c].phase \in {"send", "error", "lost"}
  BY <1>1 DEF Fits
<1>3. k \in ProviderCallIds
  BY <1>2, CallIds
<1>4. /\ effects' = [effects EXCEPT ![k] = 1] /\ client' = client
      /\ flying' = [flying EXCEPT ![c] = FALSE]
  BY <1>2, <1>3 DEF TakeEffect, Current
<1>5. effects'[k] = 1 /\ \A j \in ProviderCallIds \ {k} : effects'[j] = effects[j]
  BY <1>3, <1>4 DEF ClientInv, ClientTypeOK
<1>6. ClientTypeOK'
  BY <1>3, <1>4 DEF ClientInv, ClientTypeOK
<1>7. ASSUME NEW d \in Clients, NEW i \in DOMAIN Script[d], d # c \/ i # client[c].at
      PROVE  effects'[<<d, i>>] = effects[<<d, i>>]
  BY <1>5, <1>7, CallIds
<1>8. ASSUME NEW d \in Clients PROVE Fits(d, client[d], flying[d])'
  <2>1. CASE d = c
    <3>1. flying'[c] = FALSE
      BY <1>4 DEF ClientInv, ClientTypeOK
    <3>2. effects'[<<c, client[c].at>>] = 1
      BY <1>5
    <3>3. \A i \in DOMAIN Script[c] : i # client[c].at => effects'[<<c, i>>] = effects[<<c, i>>]
      BY <1>7
    <3>4. DOMAIN Script[c] = 1..Len(Script[c]) /\ Len(Script[c]) \in Nat
      BY ScriptData
    <3>5. \A i \in DOMAIN Script[c] : i # client[c].at => Sound(c, i)' = Sound(c, i)
      BY <3>3 DEF Sound
    <3>6. \A i \in DOMAIN Script[c] :
            /\ i < client[c].at => i # client[c].at /\ Sound(c, i)
            /\ i > client[c].at => i # client[c].at /\ effects[<<c, i>>] = 0
      BY <1>1, <1>2, <3>4 DEF Fits
    <3>7. client[c] \in ClientRec
      BY <1>1 DEF Fits
    <3>8. QED BY <1>2, <1>4, <2>1, <3>1, <3>2, <3>3, <3>5, <3>6, <3>7 DEF Fits
  <2>2. CASE d # c
    <3>1. client'[d] = client[d] /\ flying'[d] = flying[d]
      BY <1>4, <2>2 DEF ClientInv, ClientTypeOK
    <3>2. Fits(d, client[d], flying[d])
      BY DEF ClientInv
    <3>3. \A i \in DOMAIN Script[d] : effects'[<<d, i>>] = effects[<<d, i>>]
      BY <1>7, <2>2
    <3>4. Fits(d, client[d], flying[d]) => client[d].at \in DOMAIN Script[d]
      BY DEF Fits
    <3>5. Fits(d, client[d], flying[d])'
      BY <3>1, <3>2, <3>3, <3>4, FitsKept DEF Fits, Sound
    <3>6. QED BY <3>5
  <2>3. QED BY <2>1, <2>2
<1>9. QED BY <1>2, <1>3, <1>4, <1>6, <1>8 DEF ClientInv

\* and a crash.
LEMMA DesertedInv ==
  ASSUME ClientInv, Deserted
  PROVE  ClientInv'
<1>1. ASSUME NEW c \in Clients
      PROVE  /\ client'[c] \in ClientRec /\ client'[c].at = client[c].at
             /\ Fits(c, client'[c], flying[c])
  <2>1. Fits(c, client[c], flying[c])
    BY DEF ClientInv
  <2>2. CASE client[c].phase \in Over \cup {"idle"}
    BY <2>1, <2>2 DEF Deserted, Fits
  <2>3. CASE client[c].phase \notin Over \cup {"idle"}
    <3>1. client'[c] = Ends(client[c], "lost")
      BY <2>3 DEF Deserted
    <3>2. Ends(client[c], "lost") \in ClientRec /\ Ends(client[c], "lost").at = client[c].at
      BY <2>1, ClientMoves DEF Fits, Phases, Over
    <3>3. Fits(c, Ends(client[c], "lost"), flying[c])
      <4>1. flying[c] \in BOOLEAN
        BY <2>1 DEF Fits
      <4>2. QED BY <2>3, <4>1, EndedFits
    <3>4. QED BY <3>1, <3>2, <3>3
  <2>4. QED BY <2>2, <2>3
<1>2. ClientTypeOK'
  <2>1. client' \in [Clients -> ClientRec]
    BY <1>1 DEF Deserted
  <2>2. \A c \in Clients : client'[c].at \in DOMAIN Script[c]
    BY <1>1 DEF ClientInv, ClientTypeOK
  <2>3. QED BY <2>1, <2>2 DEF Deserted, ClientInv, ClientTypeOK
<1>3. ASSUME NEW c \in Clients PROVE Fits(c, client[c], flying[c])'
  <2>1. effects' = effects /\ flying' = flying
    BY DEF Deserted
  <2>2. Fits(c, client'[c], flying[c])
    BY <1>1
  <2>3. QED BY <2>1, <2>2 DEF Fits, Sound
<1>4. QED BY <1>2, <1>3 DEF ClientInv

\* ClientInv is inductive.
LEMMA ClientInductive ==
  ASSUME ClientInv, [Next]_vars
  PROVE  ClientInv'
<1>1. CASE UNCHANGED clientVars
  BY <1>1 DEF clientVars, ClientInv, ClientTypeOK, Fits, Sound
<1>2. QED BY <1>1, NextClients, MovesInv, EffectInv, DesertedInv

-----------------------------------------------------------------------------
(* A call takes effect at most once and is answered the truth. *)

Told == [k \in ProviderCallIds |-> AnswerOf(k[1], k[2])]

LEMMA ToldOf ==
  ASSUME NEW c \in Clients, NEW i \in DOMAIN Script[c]
  PROVE  /\ Told[<<c, i>>] = AnswerOf(c, i) /\ Told'[<<c, i>>] = AnswerOf(c, i)'
         /\ AnswerOf(c, i) \in {"none", "ok", "error"}
BY CallIds DEF Told, AnswerOf

\* The answers change as callers are told, if each changes from none, and to
\* `ok` only once the call took effect or without a reply that shows it.
LEMMA TellStep ==
  ASSUME UNCHANGED effects,
         \A c \in Clients : \A i \in DOMAIN Script[c] :
           \/ AnswerOf(c, i)' = AnswerOf(c, i)
           \/ /\ AnswerOf(c, i) = "none"
              /\ AnswerOf(c, i)' = "ok" => Sound(c, i)
  PROVE  Abstract!Tell
<1>1. Told' \in [ProviderCallIds -> {"none", "ok", "error"}]
  BY DEF Told, AnswerOf
<1>2. ASSUME NEW k \in ProviderCallIds, Told'[k] # Told[k]
      PROVE  /\ Told[k] = "none"
             /\ Told'[k] = "ok" /\ k \in {j \in ProviderCallIds : Shows(Script[j[1]][j[2]])}
                  => effects[k] = 1
  <2>1. PICK c \in Clients : \E i \in DOMAIN Script[c] : k = <<c, i>>
    BY CallIdsOnly
  <2>2. PICK i \in DOMAIN Script[c] : k = <<c, i>>
    BY <2>1
  <2>3. Told[k] = AnswerOf(c, i) /\ Told'[k] = AnswerOf(c, i)'
    BY <2>2, ToldOf
  <2>4. QED BY <1>2, <2>2, <2>3 DEF Sound
<1>3. QED BY <1>1, <1>2 DEF Abstract!Tell, Abstract!Answers, Told

\* A client's step answers the call it ends, and no other.
LEMMA MovesTell ==
  ASSUME ClientInv, NEW c \in Clients, NEW x, NEW fl, Moves(c, x, fl)
  PROVE  Abstract!Tell
<1>1. /\ client' = [client EXCEPT ![c] = x] /\ effects' = effects /\ Fits(c, x, fl)
      /\ client[c].phase \notin Over
      /\ \/ x.at = client[c].at
         \/ x.at = client[c].at + 1 /\ Sound(c, client[c].at) /\ x.phase # "ok"
  BY DEF Moves
<1>2. client'[c] = x /\ \A d \in Clients \ {c} : client'[d] = client[d]
  BY <1>1 DEF ClientInv, ClientTypeOK
<1>3. client[c].at \in Nat
  BY ClientAt, ClientParts
<1>4. ASSUME NEW d \in Clients, NEW i \in DOMAIN Script[d]
      PROVE  \/ AnswerOf(d, i)' = AnswerOf(d, i)
             \/ /\ AnswerOf(d, i) = "none"
                /\ AnswerOf(d, i)' = "ok" => Sound(d, i)
  <2>1. CASE d # c
    BY <1>2, <2>1 DEF AnswerOf
  <2>2. CASE d = c
    <3>1. i \in Nat
      BY ScriptData
    <3>2. AnswerOf(c, i) = IF i < client[c].at THEN "ok" ELSE "none"
      BY <1>1, <3>1, <1>3 DEF AnswerOf, Over
    <3>3. AnswerOf(c, i)' = IF i < x.at \/ (i = x.at /\ x.phase = "ok") THEN "ok"
                            ELSE IF i = x.at /\ x.phase \in Over THEN "error" ELSE "none"
      BY <1>2 DEF AnswerOf
    <3>4. x.phase = "ok" => Sound(c, x.at)
      BY <1>1 DEF Fits
    <3>5. CASE x.at = client[c].at
      BY <1>3, <2>2, <3>1, <3>2, <3>3, <3>4, <3>5
    <3>6. CASE x.at = client[c].at + 1 /\ Sound(c, client[c].at) /\ x.phase # "ok"
      BY <1>3, <2>2, <3>1, <3>2, <3>3, <3>6
    <3>7. QED BY <1>1, <3>5, <3>6
  <2>3. QED BY <2>1, <2>2
<1>5. QED BY <1>1, <1>4, TellStep

\* A crash answers the calls under way, never with `ok`.
LEMMA DesertedTell ==
  ASSUME ClientInv, Deserted
  PROVE  Abstract!Tell
<1>1. ASSUME NEW c \in Clients, NEW i \in DOMAIN Script[c]
      PROVE  \/ AnswerOf(c, i)' = AnswerOf(c, i)
             \/ AnswerOf(c, i) = "none" /\ AnswerOf(c, i)' # "ok"
  <2>1. CASE client[c].phase \in Over \cup {"idle"}
    BY <2>1 DEF Deserted, AnswerOf
  <2>2. CASE client[c].phase \notin Over \cup {"idle"}
    <3>1. client'[c] = Ends(client[c], "lost")
      BY <2>2 DEF Deserted
    <3>0. client[c] \in ClientRec
      BY ClientAt
    <3>2. client'[c].phase = "lost" /\ client'[c].at = client[c].at
      <4>1. "lost" \in Phases
        BY DEF Phases, Over
      <4>2. Ends(client[c], "lost").phase = "lost" /\ Ends(client[c], "lost").at = client[c].at
        BY <3>0, <4>1, ClientMoves
      <4>3. QED BY <3>1, <4>2
    <3>3. client[c].at \in Nat /\ i \in Nat
      <4>1. client[c].at \in Nat
        BY <3>0, ClientParts
      <4>2. QED BY <4>1, ScriptData
    <3>4. QED BY <2>2, <3>2, <3>3 DEF AnswerOf, Over
  <2>3. QED BY <2>1, <2>2
<1>2. QED BY <1>1, TellStep DEF Deserted

LEMMA StepsAbstract ==
  ASSUME ClientInv, [Next]_vars
  PROVE  [Abstract!Next]_<<effects, Told>>
<1>1. CASE \E c \in Clients : \E x, fl : Moves(c, x, fl)
  BY <1>1, MovesTell DEF Abstract!Next
<1>2. CASE \E c \in Clients : TakeEffect(c)
  <2>1. PICK c \in Clients : TakeEffect(c)
    BY <1>2
  <2> DEFINE k == <<c, client[c].at>>
  <2>2. k \in ProviderCallIds /\ effects[k] = 0 /\ effects' = [effects EXCEPT ![k] = 1] /\ client' = client
    BY <2>1, EffectInv
  <2>3. Told' = Told
    BY <2>2 DEF Told, AnswerOf
  <2> HIDE DEF k
  <2>4. Abstract!TakeEffect(k)
    BY <2>2, <2>3 DEF Abstract!TakeEffect, Told
  <2>5. QED BY <2>2, <2>4 DEF Abstract!Next
<1>3. CASE Deserted
  BY <1>3, DesertedTell DEF Abstract!Next
<1>4. CASE UNCHANGED clientVars
  BY <1>4 DEF clientVars, Told, AnswerOf
<1>5. QED BY <1>1, <1>2, <1>3, <1>4, NextClients

\* The payment client keeps its callers' promise: no call takes effect twice,
\* and none is answered `ok` that took no effect, unless its reply is not asked
\* to show one (nomba.py, the repeat after a 401).
THEOREM TakesEffectOnce == Spec => CallsTakeEffectOnce
<1>1. Init => Abstract!Init
  <2> SUFFICES ASSUME Init PROVE Abstract!Init
    OBVIOUS
  <2>1. ASSUME NEW k \in ProviderCallIds PROVE AnswerOf(k[1], k[2]) = "none"
    <3>1. PICK c \in Clients : \E i \in DOMAIN Script[c] : k = <<c, i>>
      BY CallIdsOnly
    <3>2. PICK i \in DOMAIN Script[c] : k = <<c, i>>
      BY <3>1
    <3>3. client[c].phase = "idle" /\ client[c].at = 1 /\ i >= 1 /\ i \in Nat
      BY ScriptData DEF Init, ClientInit, NewClient
    <3>4. QED BY <3>2, <3>3 DEF AnswerOf, Over
  <2>2. QED BY <2>1 DEF Init, ClientInit, Abstract!Init
<1>2. ClientInv /\ [Next]_vars => [Abstract!Next]_<<effects, Told>>
  BY StepsAbstract
<1>3. ClientInv /\ [Next]_vars => ClientInv'
  BY ClientInductive
<1>4. QED
  BY <1>1, <1>2, <1>3, InitClient, PTL DEF Spec, CallsTakeEffectOnce, Abstract!Spec, Told

-----------------------------------------------------------------------------
(* Rows and answers. *)

\* A provisioning has used its client as far as its handler has come.
LinkInv ==
  \A p \in Provisions :
    /\ pc[p] \in {"new", "never", "existed"} => client[p].phase = "idle"
    /\ pc[p] = "insert" \/ account[PersonOf[p]] = p => client[p].phase = "ok"

OnboardInv == ClientInv /\ OnboardTypeOK /\ RowsMatchAnswers /\ LinkInv

LEMMA Roles ==
  /\ Signups \subseteq Attempts /\ Provisions \subseteq Attempts
  /\ Submissions \subseteq Attempts /\ Payouts \subseteq Attempts
  /\ Provisions \subseteq Clients /\ Payouts \subseteq Clients
  /\ \A s \in Signups : s \notin Provisions /\ s \notin Submissions
  /\ \A k \in Submissions : k \notin Provisions
  /\ \A r \in Payouts : r \notin Provisions /\ r \notin Submissions
  /\ \A a \in Attempts : a # None /\ PersonOf[a] \in People
BY AttemptAssumption DEF AttemptAssumption, Attempts

LEMMA GoesTo ==
  ASSUME OnboardTypeOK, NEW a \in Attempts, NEW state \in PcStates, Goes(a, state)
  PROVE  /\ pc' \in [Attempts -> PcStates] /\ pc'[a] = state
         /\ \A b \in Attempts \ {a} : pc'[b] = pc[b]
BY DEF OnboardTypeOK, Goes

LEMMA AfterStates ==
  ASSUME NEW ph
  PROVE  /\ After(ph) \in {"insert", "audit", "failed", "waiting"}
         /\ After(ph) = "insert" => ph = "ok"
BY DEF After

\* Where the step of an attempt takes it.
LEMMA StepGoes ==
  ASSUME OnboardTypeOK, Next
  PROVE  \/ \E a \in Attempts, state \in PcStates : Goes(a, state)
         \/ UNCHANGED pc \/ Crash
<1>1. CASE \E s \in Signups : Signup(s) \/ SignupTokens(s)
  <2>1. PICK s \in Signups : Signup(s) \/ SignupTokens(s)
    BY <1>1
  <2>2. \E state \in {"conflict", "tokens", "stored"} : Goes(s, state)
    BY <2>1 DEF Signup, SignupTokens
  <2>3. QED BY <2>2, Roles DEF PcStates, Done
<1>2. CASE \E p \in Provisions : ProvisionStep(p)
  <2>1. PICK p \in Provisions : ProvisionStep(p)
    BY <1>2
  <2>2. CASE ProvisionReply(p)
    <3>1. Goes(p, After(client'[p].phase))
      BY <2>2 DEF ProvisionReply
    <3>2. After(client'[p].phase) \in PcStates
      BY AfterStates DEF PcStates, Done
    <3>3. QED BY <3>1, <3>2, Roles
  <2>3. CASE ~ProvisionReply(p)
    <3>1. \E state \in {"existed", "waiting", "stored", "failed", "logged"} : Goes(p, state)
      BY <2>1, <2>3 DEF ProvisionStep, ProvisionExisting, ProvisionStart, InsertAccount, AuditFailure
    <3>2. QED BY <3>1, Roles DEF PcStates, Done
  <2>4. QED BY <2>2, <2>3
<1>3. CASE \E k \in Submissions : SubmitRead(k) \/ SubmitWrite(k)
  <2>1. PICK k \in Submissions : SubmitRead(k) \/ SubmitWrite(k)
    BY <1>3
  <2>2. \E state \in {"conflict", "write", "failed", "stored"} : Goes(k, state)
    <3>1. CASE SubmitRead(k)
      <4>1. PICK state \in IF kyc[PersonOf[k]] # None THEN {"conflict"} ELSE {"write", "failed"} : Goes(k, state)
        BY <3>1 DEF SubmitRead
      <4>2. state \in {"conflict", "write", "failed"}
        BY <4>1
      <4>3. QED BY <4>1, <4>2
    <3>2. CASE SubmitWrite(k)
      BY <3>2 DEF SubmitWrite
    <3>3. QED BY <2>1, <3>1, <3>2
  <2>3. QED BY <2>2, Roles DEF PcStates, Done
<1>4. CASE \E r \in Payouts : PayoutStart(r) \/ PayoutLock(r) \/ PayoutReply(r)
  <2>1. PICK r \in Payouts : PayoutStart(r) \/ PayoutLock(r) \/ PayoutReply(r)
    BY <1>4
  <2>2. UNCHANGED pc \/ \E state \in {"lock", "waiting", "ended"} : Goes(r, state)
    BY <2>1 DEF PayoutStart, PayoutLock, PayoutReply
  <2>3. QED BY <2>2, Roles DEF PcStates, Done
<1>5. CASE \E c \in Clients : ProviderActs(c)
  BY <1>5 DEF ProviderActs
<1>6. CASE Crash
  BY <1>6
<1>7. CASE \E a \in Attempts : Respond(a)
  BY <1>7 DEF Respond, PcStates, Done
<1>8. QED BY <1>1, <1>2, <1>3, <1>4, <1>5, <1>6, <1>7 DEF Next

\* The rows keep their types.
LEMMA RowTypes ==
  ASSUME OnboardTypeOK, Next
  PROVE  /\ users' \subseteq People
         /\ account' \in [People -> Provisions \cup {None}]
         /\ kyc' \in [People -> Submissions \cup {None}]
         /\ audited' \subseteq Signups \cup Provisions
         /\ rowLock' \in [People -> Payouts \cup {None}]
         /\ loop' \in Attempts \cup {None}
         /\ crashes' \in 0..MaxCrashes
<1> USE DEF OnboardTypeOK, rows
<1>1. CASE \E s \in Signups : Signup(s) \/ SignupTokens(s)
  BY <1>1, Roles DEF Signup, SignupTokens
<1>2. CASE \E p \in Provisions : ProvisionStep(p)
  BY <1>2, Roles DEF ProvisionStep, ProvisionExisting, ProvisionStart, ProvisionReply,
                     InsertAccount, AuditFailure
<1>3. CASE \E k \in Submissions : SubmitRead(k) \/ SubmitWrite(k)
  BY <1>3, Roles DEF SubmitRead, SubmitWrite
<1>4. CASE \E r \in Payouts : PayoutStart(r) \/ PayoutLock(r) \/ PayoutReply(r)
  BY <1>4, Roles DEF PayoutStart, PayoutLock, PayoutReply
<1>5. CASE \E c \in Clients : ProviderActs(c)
  BY <1>5 DEF ProviderActs
<1>6. CASE Crash
  <2>1. crashes' \in 0..MaxCrashes
    BY <1>6, AttemptAssumption DEF AttemptAssumption, Crash
  <2>2. QED BY <1>6, <2>1 DEF Crash
<1>7. CASE \E a \in Attempts : Respond(a)
  BY <1>7 DEF Respond
<1>8. QED BY <1>1, <1>2, <1>3, <1>4, <1>5, <1>6, <1>7 DEF Next

LEMMA OnboardTypeInductive ==
  ASSUME ClientInv, OnboardTypeOK, [Next]_vars
  PROVE  OnboardTypeOK'
<1>1. ClientTypeOK'
  BY ClientInductive DEF ClientInv
<1>2. CASE Next
  <2>1. pc' \in [Attempts -> PcStates]
    <3>1. CASE \E a \in Attempts, state \in PcStates : Goes(a, state)
      BY <3>1, GoesTo
    <3>2. CASE UNCHANGED pc
      BY <3>2 DEF OnboardTypeOK
    <3>3. CASE Crash
      BY <3>3 DEF Crash, OnboardTypeOK, PcStates, Done
    <3>4. QED BY <1>2, <3>1, <3>2, <3>3, StepGoes
  <2>2. QED BY <1>1, <1>2, <2>1, RowTypes DEF OnboardTypeOK
<1>3. CASE UNCHANGED vars
  BY <1>1, <1>3 DEF vars, rows, OnboardTypeOK
<1>4. QED BY <1>2, <1>3

\* The states of an attempt whose rows or whose answer RowsMatchAnswers is about.
Told201 == {"stored", "created", "existed", "logged", "refused", "conflict", "lost"}

\* A step of an attempt that stores and answers nothing leaves rows and answers
\* matching.
LEMMA QuietRows ==
  ASSUME OnboardTypeOK, RowsMatchAnswers,
         NEW a \in Attempts, NEW state \in PcStates, Goes(a, state),
         \/ a \notin Provisions \cup Submissions
         \/ pc[a] \notin Told201 /\ state \notin Told201,
         account' = account, kyc' = kyc,
         \A p \in Provisions : p \in audited' <=> p \in audited
  PROVE  RowsMatchAnswers'
<1>1. pc'[a] = state /\ \A b \in Attempts \ {a} : pc'[b] = pc[b]
  BY GoesTo
<1>2. QED BY <1>1, Roles DEF RowsMatchAnswers, Told201

LEMMA SignupRows ==
  ASSUME OnboardTypeOK, RowsMatchAnswers, NEW s \in Signups, Signup(s) \/ SignupTokens(s)
  PROVE  RowsMatchAnswers'
<1>1. PICK state \in {"conflict", "tokens", "stored"} : Goes(s, state)
  BY DEF Signup, SignupTokens
<1>2. state \in PcStates
  BY DEF PcStates, Done
<1>3. s \in Attempts /\ s \notin Provisions \cup Submissions
  BY Roles
<1>4. account' = account /\ kyc' = kyc /\ \A p \in Provisions : p \in audited' <=> p \in audited
  BY Roles DEF Signup, SignupTokens
<1>5. QED BY <1>1, <1>2, <1>3, <1>4, QuietRows

LEMMA PayoutRows ==
  ASSUME OnboardTypeOK, RowsMatchAnswers, NEW r \in Payouts,
         PayoutStart(r) \/ PayoutLock(r) \/ PayoutReply(r)
  PROVE  RowsMatchAnswers'
<1>1. account' = account /\ kyc' = kyc /\ audited' = audited
  BY DEF PayoutStart, PayoutLock, PayoutReply, rows
<1>2. UNCHANGED pc \/ \E state \in {"lock", "waiting", "ended"} : Goes(r, state)
  BY DEF PayoutStart, PayoutLock, PayoutReply
<1>3. r \in Attempts /\ r \notin Provisions \cup Submissions
  BY Roles
<1>4. CASE UNCHANGED pc
  BY <1>1, <1>4 DEF RowsMatchAnswers
<1>5. CASE \E state \in {"lock", "waiting", "ended"} : Goes(r, state)
  <2>1. PICK state \in {"lock", "waiting", "ended"} : Goes(r, state)
    BY <1>5
  <2>2. state \in PcStates
    BY DEF PcStates, Done
  <2>3. QED BY <1>1, <1>3, <2>1, <2>2, QuietRows
<1>6. QED BY <1>2, <1>4, <1>5

LEMMA ProvisionRows ==
  ASSUME OnboardTypeOK, RowsMatchAnswers, NEW p \in Provisions, ProvisionStep(p)
  PROVE  RowsMatchAnswers'
<1>0. p \in Attempts /\ p # None /\ PersonOf[p] \in People /\ p \notin Submissions
  BY Roles
<1>1. CASE ProvisionExisting(p)
  <2>1. /\ pc[p] = "new" /\ account[PersonOf[p]] # None /\ Goes(p, "existed")
        /\ account' = account /\ kyc' = kyc /\ audited' = audited
    BY <1>1 DEF ProvisionExisting, Begins, rows
  <2>2. pc'[p] = "existed" /\ \A b \in Attempts \ {p} : pc'[b] = pc[b]
    BY <1>0, <2>1, GoesTo DEF PcStates, Done
  <2>3. QED BY <1>0, <2>1, <2>2, Roles DEF RowsMatchAnswers
<1>2. CASE ProvisionStart(p)
  <2>1. /\ pc[p] = "new" /\ Goes(p, "waiting")
        /\ account' = account /\ kyc' = kyc /\ audited' = audited
    BY <1>2 DEF ProvisionStart, Begins, rows
  <2>2. QED BY <1>0, <2>1, QuietRows DEF PcStates, Done, Told201
<1>3. CASE ProvisionReply(p)
  <2> DEFINE state == After(client'[p].phase)
  <2>1. /\ pc[p] = "waiting" /\ Goes(p, state)
        /\ account' = account /\ kyc' = kyc /\ audited' = audited
    BY <1>3 DEF ProvisionReply, rows
  <2>2. state \in {"insert", "audit", "failed", "waiting"}
    BY AfterStates
  <2>3. state \in PcStates /\ state \notin Told201 /\ pc[p] \notin Told201
    BY <2>1, <2>2 DEF PcStates, Done, Told201
  <2> HIDE DEF state
  <2>4. QED BY <1>0, <2>1, <2>3, QuietRows
<1>4. CASE InsertAccount(p)
  <2>1. pc[p] = "insert" /\ kyc' = kyc /\ audited' = audited
    BY <1>4 DEF InsertAccount
  <2>2. CASE AccountFree(p)
    <3>1. /\ Goes(p, "stored") /\ account' = [account EXCEPT ![PersonOf[p]] = p]
          /\ account[PersonOf[p]] = None
      BY <1>4, <2>2 DEF InsertAccount, AccountFree
    <3>2. pc'[p] = "stored" /\ \A b \in Attempts \ {p} : pc'[b] = pc[b]
      BY <1>0, <3>1, GoesTo DEF PcStates, Done
    <3>3. account'[PersonOf[p]] = p /\ \A u \in People \ {PersonOf[p]} : account'[u] = account[u]
      BY <1>0, <3>1 DEF OnboardTypeOK
    <3>4. ASSUME NEW q \in Provisions
          PROVE  /\ pc'[q] \in {"stored", "created"} => account'[PersonOf[q]] = q
                 /\ account'[PersonOf[q]] = q =>
                      pc'[q] \in {"stored", "created", "lost"} /\ q \notin audited'
                 /\ pc'[q] = "existed" => account'[PersonOf[q]] # None
                 /\ pc'[q] \in {"logged", "refused"} => q \in audited'
                 /\ q \in audited' => pc'[q] \in {"logged", "refused", "lost"}
      <4>1. q \in Attempts /\ q # None /\ PersonOf[q] \in People
        BY Roles
      <4>2. CASE q = p
        <5>1. p \notin audited
          BY <2>1 DEF RowsMatchAnswers
        <5>2. QED BY <2>1, <3>2, <3>3, <4>2, <5>1
      <4>3. CASE q # p
        <5>1. pc'[q] = pc[q]
          BY <3>2, <4>1, <4>3
        <5>2. CASE PersonOf[q] = PersonOf[p]
          BY <1>0, <2>1, <3>1, <3>3, <4>1, <4>3, <5>1, <5>2 DEF RowsMatchAnswers
        <5>3. CASE PersonOf[q] # PersonOf[p]
          <6>1. account'[PersonOf[q]] = account[PersonOf[q]]
            BY <3>3, <4>1, <5>3
          <6>2. QED BY <2>1, <5>1, <6>1 DEF RowsMatchAnswers
        <5>4. QED BY <5>2, <5>3
      <4>4. QED BY <4>2, <4>3
    <3>5. QED BY <1>0, <2>1, <3>2, <3>4, Roles DEF RowsMatchAnswers
  <2>3. CASE ~AccountFree(p)
    <3>1. Goes(p, "failed") /\ account' = account
      BY <1>4, <2>3 DEF InsertAccount
    <3>2. QED BY <1>0, <2>1, <3>1, QuietRows DEF PcStates, Done, Told201
  <2>4. QED BY <2>2, <2>3
<1>5. CASE AuditFailure(p)
  <2>1. /\ pc[p] = "audit" /\ Goes(p, "logged") /\ audited' = audited \cup {p}
        /\ account' = account /\ kyc' = kyc
    BY <1>5 DEF AuditFailure
  <2>2. pc'[p] = "logged" /\ \A b \in Attempts \ {p} : pc'[b] = pc[b]
    BY <1>0, <2>1, GoesTo DEF PcStates, Done
  <2>3. QED BY <1>0, <2>1, <2>2, Roles DEF RowsMatchAnswers
<1>6. QED BY <1>1, <1>2, <1>3, <1>4, <1>5 DEF ProvisionStep

LEMMA SubmitRows ==
  ASSUME OnboardTypeOK, RowsMatchAnswers, NEW k \in Submissions,
         SubmitRead(k) \/ SubmitWrite(k)
  PROVE  RowsMatchAnswers'
<1>0. k \in Attempts /\ k # None /\ PersonOf[k] \in People /\ k \notin Provisions
  BY Roles
<1>1. CASE SubmitRead(k)
  <2>1. pc[k] = "new" /\ account' = account /\ kyc' = kyc /\ audited' = audited
    BY <1>1 DEF SubmitRead, Begins, rows
  <2>2. PICK state \in IF kyc[PersonOf[k]] # None THEN {"conflict"} ELSE {"write", "failed"} : Goes(k, state)
    BY <1>1 DEF SubmitRead
  <2>3. \/ state \in {"write", "failed"}
        \/ state = "conflict" /\ kyc[PersonOf[k]] # None
    BY <2>2
  <2>5. CASE state \in {"write", "failed"}
    <3>1. state \in PcStates /\ state \notin Told201 /\ pc[k] \notin Told201
      BY <2>1, <2>5 DEF PcStates, Done, Told201
    <3>2. QED BY <1>0, <2>1, <2>2, <3>1, QuietRows
  <2>6. CASE state = "conflict" /\ kyc[PersonOf[k]] # None
    <3>1. pc'[k] = "conflict" /\ \A b \in Attempts \ {k} : pc'[b] = pc[b]
      BY <1>0, <2>2, <2>6, GoesTo DEF PcStates, Done
    <3>2. QED BY <1>0, <2>1, <2>6, <3>1, Roles DEF RowsMatchAnswers
  <2>7. QED BY <2>3, <2>5, <2>6
<1>2. CASE SubmitWrite(k)
  <2>1. pc[k] = "write" /\ account' = account /\ audited' = audited
    BY <1>2 DEF SubmitWrite
  <2>2. CASE Storable(k)
    <3>1. /\ Goes(k, "stored") /\ kyc' = [kyc EXCEPT ![PersonOf[k]] = k]
          /\ kyc[PersonOf[k]] = None
      BY <1>2, <2>2 DEF SubmitWrite, Storable
    <3>2. pc'[k] = "stored" /\ \A b \in Attempts \ {k} : pc'[b] = pc[b]
      BY <1>0, <3>1, GoesTo DEF PcStates, Done
    <3>3. kyc'[PersonOf[k]] = k /\ \A u \in People \ {PersonOf[k]} : kyc'[u] = kyc[u]
      BY <1>0, <3>1 DEF OnboardTypeOK
    <3>4. ASSUME NEW q \in Submissions
          PROVE  /\ pc'[q] \in {"stored", "created"} => kyc'[PersonOf[q]] = q
                 /\ kyc'[PersonOf[q]] = q => pc'[q] \in {"stored", "created", "lost"}
                 /\ pc'[q] = "conflict" => kyc'[PersonOf[q]] # None
      <4>1. q \in Attempts /\ q # None /\ PersonOf[q] \in People
        BY Roles
      <4>2. CASE q = k
        BY <3>2, <3>3, <4>2
      <4>3. CASE q # k
        BY <1>0, <3>1, <3>2, <3>3, <4>1, <4>3 DEF RowsMatchAnswers
      <4>4. QED BY <4>2, <4>3
    <3>5. QED BY <1>0, <2>1, <3>2, <3>4, Roles DEF RowsMatchAnswers
  <2>3. CASE ~Storable(k)
    <3>1. Goes(k, "failed") /\ kyc' = kyc
      BY <1>2, <2>3 DEF SubmitWrite
    <3>2. QED BY <1>0, <2>1, <3>1, QuietRows DEF PcStates, Done, Told201
  <2>4. QED BY <2>2, <2>3
<1>3. QED BY <1>1, <1>2

\* An answer changes no row.
LEMMA RespondRows ==
  ASSUME OnboardTypeOK, RowsMatchAnswers, NEW a \in Attempts, Respond(a)
  PROVE  RowsMatchAnswers'
<1>1. account' = account /\ kyc' = kyc /\ audited' = audited
  BY DEF Respond, rows
<1>2. PICK state \in {"created", "refused"} :
        /\ Goes(a, state)
        /\ state = "created" => pc[a] = "stored"
        /\ state = "refused" => pc[a] = "logged"
  BY DEF Respond
<1>3. pc'[a] = state /\ \A b \in Attempts \ {a} : pc'[b] = pc[b]
  BY <1>2, GoesTo DEF PcStates, Done
<1>4. QED BY <1>1, <1>2, <1>3, Roles DEF RowsMatchAnswers

LEMMA RowsInductive ==
  ASSUME OnboardTypeOK, RowsMatchAnswers, [Next]_vars
  PROVE  RowsMatchAnswers'
<1>1. CASE \E s \in Signups : Signup(s) \/ SignupTokens(s)
  BY <1>1, SignupRows
<1>2. CASE \E p \in Provisions : ProvisionStep(p)
  BY <1>2, ProvisionRows
<1>3. CASE \E k \in Submissions : SubmitRead(k) \/ SubmitWrite(k)
  BY <1>3, SubmitRows
<1>4. CASE \E r \in Payouts : PayoutStart(r) \/ PayoutLock(r) \/ PayoutReply(r)
  BY <1>4, PayoutRows
<1>5. CASE Crash
  <2>1. /\ account' = account /\ kyc' = kyc /\ audited' = audited
        /\ \A a \in Attempts : pc'[a] = IF Underway(a) THEN "lost" ELSE pc[a]
    BY <1>5 DEF Crash, rows
  <2>2. \A a \in Attempts : (pc'[a] = pc[a] /\ pc[a] \notin {"stored", "logged"}) \/ pc'[a] = "lost"
    BY <2>1 DEF Underway, Done
  <2>3. QED BY <2>1, <2>2, Roles DEF RowsMatchAnswers
<1>6. CASE (\E c \in Clients : ProviderActs(c)) \/ UNCHANGED vars
  BY <1>6 DEF ProviderActs, vars, rows, RowsMatchAnswers
<1>7. CASE \E a \in Attempts : Respond(a)
  BY <1>7, RespondRows
<1>8. QED BY <1>1, <1>2, <1>3, <1>4, <1>5, <1>6, <1>7 DEF Next

\* A client's own step leaves the others alone.
LEMMA OthersAlone ==
  ASSUME ClientInv, NEW c \in Clients, BeginCalls(c) \/ ReplyStep(c)
  PROVE  \A d \in Clients \ {c} : client'[d] = client[d]
<1>1. PICK x, fl : Moves(c, x, fl)
  BY ClientStepMoves
<1>2. QED BY <1>1 DEF Moves, ClientInv, ClientTypeOK

LEMMA LinkInductive ==
  ASSUME ClientInv, OnboardTypeOK, RowsMatchAnswers, LinkInv, [Next]_vars
  PROVE  LinkInv'
<1>1. CASE \E s \in Signups : Signup(s) \/ SignupTokens(s)
  <2>1. PICK s \in Signups : Signup(s) \/ SignupTokens(s)
    BY <1>1
  <2>2. PICK state \in {"conflict", "tokens", "stored"} : Goes(s, state)
    BY <2>1 DEF Signup, SignupTokens
  <2>3. \A p \in Provisions : pc'[p] = pc[p]
    BY <2>2, Roles, GoesTo DEF PcStates, Done
  <2>4. UNCHANGED <<client, account>>
    BY <2>1 DEF Signup, SignupTokens, clientVars
  <2>5. QED BY <2>3, <2>4 DEF LinkInv
<1>2. CASE \E p \in Provisions : ProvisionStep(p)
  <2>1. PICK p \in Provisions : ProvisionStep(p)
    BY <1>2
  <2>2. p \in Attempts /\ p \in Clients
    BY Roles
  <2>3. CASE ProvisionExisting(p)
    <3>1. pc[p] = "new" /\ Goes(p, "existed") /\ UNCHANGED <<client, account>>
      BY <2>3 DEF ProvisionExisting, Begins, clientVars, rows
    <3>2. pc'[p] = "existed" /\ \A b \in Attempts \ {p} : pc'[b] = pc[b]
      BY <2>2, <3>1, GoesTo DEF PcStates, Done
    <3>3. QED BY <3>1, <3>2, Roles DEF LinkInv
  <2>4. CASE ProvisionStart(p)
    <3>1. /\ Goes(p, "waiting") /\ \A d \in Clients \ {p} : client'[d] = client[d]
          /\ account' = account /\ account[PersonOf[p]] = None
      BY <2>2, <2>4, OthersAlone DEF ProvisionStart, rows
    <3>2. pc'[p] = "waiting" /\ \A b \in Attempts \ {p} : pc'[b] = pc[b]
      BY <2>2, <3>1, GoesTo DEF PcStates, Done
    <3>3. QED BY <3>1, <3>2, Roles DEF LinkInv
  <2>5. CASE ProvisionReply(p)
    <3> DEFINE state == After(client'[p].phase)
    <3>1. /\ Goes(p, state) /\ \A d \in Clients \ {p} : client'[d] = client[d]
          /\ account' = account /\ pc[p] = "waiting"
      BY <2>2, <2>5, OthersAlone DEF ProvisionReply, rows
    <3>6. account[PersonOf[p]] # p
      BY <3>1 DEF RowsMatchAnswers
    <3>2. /\ state \in {"insert", "audit", "failed", "waiting"}
          /\ state = "insert" => client'[p].phase = "ok"
      BY AfterStates
    <3>3. state \in PcStates
      BY <3>2 DEF PcStates, Done
    <3> HIDE DEF state
    <3>4. pc'[p] = state /\ \A b \in Attempts \ {p} : pc'[b] = pc[b]
      BY <2>2, <3>1, <3>3, GoesTo
    <3>5. QED BY <3>1, <3>2, <3>4, <3>6, Roles DEF LinkInv
  <2>6. CASE InsertAccount(p) \/ AuditFailure(p)
    <3>1. UNCHANGED client
      BY <2>6 DEF InsertAccount, AuditFailure, clientVars
    <3>2. PICK state \in {"stored", "failed", "logged"} : Goes(p, state)
      BY <2>6 DEF InsertAccount, AuditFailure
    <3>3. state \in PcStates
      BY DEF PcStates, Done
    <3>4. pc'[p] = state /\ \A b \in Attempts \ {p} : pc'[b] = pc[b]
      BY <2>2, <3>2, <3>3, GoesTo
    <3>5. ASSUME NEW q \in Provisions, account'[PersonOf[q]] = q
          PROVE  client[q].phase = "ok"
      <4>1. account[PersonOf[q]] = q \/ (q = p /\ pc[p] = "insert")
        <5>1. PersonOf[q] \in People /\ PersonOf[p] \in People
          BY <2>2, Roles
        <5>2. CASE account' = account
          BY <3>5, <5>2
        <5>3. CASE pc[p] = "insert" /\ account' = [account EXCEPT ![PersonOf[p]] = p]
          <6>1. CASE PersonOf[q] = PersonOf[p]
            BY <3>5, <5>1, <5>3, <6>1 DEF OnboardTypeOK
          <6>2. CASE PersonOf[q] # PersonOf[p]
            BY <3>5, <5>1, <5>3, <6>2 DEF OnboardTypeOK
          <6>3. QED BY <6>1, <6>2
        <5>4. QED BY <2>6, <5>2, <5>3 DEF InsertAccount, AuditFailure
      <4>2. QED BY <4>1 DEF LinkInv
    <3>6. QED BY <3>1, <3>2, <3>4, <3>5, Roles DEF LinkInv
  <2>7. QED BY <2>1, <2>3, <2>4, <2>5, <2>6 DEF ProvisionStep
<1>3. CASE \E k \in Submissions : SubmitRead(k) \/ SubmitWrite(k)
  <2>1. PICK k \in Submissions : SubmitRead(k) \/ SubmitWrite(k)
    BY <1>3
  <2>2. UNCHANGED <<client, account>>
    BY <2>1 DEF SubmitRead, SubmitWrite, clientVars, rows
  <2>3. \A p \in Provisions : pc'[p] = pc[p]
    BY <2>1, Roles DEF SubmitRead, SubmitWrite, Goes, OnboardTypeOK
  <2>4. QED BY <2>2, <2>3 DEF LinkInv
<1>4. CASE \E r \in Payouts : PayoutStart(r) \/ PayoutLock(r) \/ PayoutReply(r)
  <2>1. PICK r \in Payouts : PayoutStart(r) \/ PayoutLock(r) \/ PayoutReply(r)
    BY <1>4
  <2>2. BeginCalls(r) \/ ReplyStep(r) \/ UNCHANGED client
    BY <2>1 DEF PayoutStart, PayoutLock, PayoutReply, clientVars
  <2>3. \A p \in Provisions : client'[p] = client[p]
    BY <2>2, OthersAlone, Roles
  <2>4. \A p \in Provisions : pc'[p] = pc[p]
    BY <2>1, Roles DEF PayoutStart, PayoutLock, PayoutReply, Goes, OnboardTypeOK
  <2>5. account' = account
    BY <2>1 DEF PayoutStart, PayoutLock, PayoutReply, rows
  <2>6. QED BY <2>3, <2>4, <2>5 DEF LinkInv
<1>5. CASE Crash
  <2>1. /\ \A a \in Attempts : pc'[a] = IF Underway(a) THEN "lost" ELSE pc[a]
        /\ \A c \in Clients : client[c].phase \in Over \cup {"idle"} => client'[c] = client[c]
        /\ account' = account
    BY <1>5 DEF Crash, rows
  <2>2. ASSUME NEW p \in Provisions
        PROVE  /\ pc'[p] \in {"new", "never", "existed"} => client'[p].phase = "idle"
               /\ pc'[p] = "insert" \/ account'[PersonOf[p]] = p => client'[p].phase = "ok"
    <3>1. p \in Attempts /\ p \in Clients
      BY Roles
    <3>2. account[PersonOf[p]] = p => client'[p].phase = "ok"
      BY <2>1, <3>1 DEF LinkInv, Over
    <3>3. CASE Underway(p)
      BY <2>1, <3>1, <3>2, <3>3
    <3>4. CASE ~Underway(p)
      BY <2>1, <3>1, <3>2, <3>4 DEF LinkInv, Over
    <3>5. QED BY <3>3, <3>4
  <2>3. QED BY <2>2 DEF LinkInv
<1>6. CASE (\E c \in Clients : ProviderActs(c)) \/ UNCHANGED vars
  BY <1>6 DEF ProviderActs, TakeEffect, vars, rows, clientVars, LinkInv
<1>7. CASE \E a \in Attempts : Respond(a)
  <2>1. PICK a \in Attempts : Respond(a)
    BY <1>7
  <2>2. \E state \in {"created", "refused"} : Goes(a, state)
    BY <2>1 DEF Respond
  <2>3. /\ pc'[a] \in {"created", "refused"}
        /\ \A b \in Attempts \ {a} : pc'[b] = pc[b]
    BY <2>2, GoesTo DEF PcStates, Done
  <2>4. UNCHANGED <<client, account>>
    BY <2>1 DEF Respond, clientVars, rows
  <2>5. QED BY <2>3, <2>4, Roles DEF LinkInv
<1>8. QED BY <1>1, <1>2, <1>3, <1>4, <1>5, <1>6, <1>7 DEF Next

LEMMA InitOnboard == Init => OnboardInv
<1> SUFFICES ASSUME Init PROVE OnboardInv
  OBVIOUS
<1>1. ClientInv
  BY InitClient
<1>2. PICK made \in Together : pc = [a \in Attempts |-> IF a \in made THEN "new" ELSE "never"]
  BY DEF Init
<1>3. \A a \in Attempts : pc[a] = "new" \/ pc[a] = "never"
  BY <1>2
<1>4. OnboardTypeOK
  <2>1. ClientTypeOK
    BY <1>1 DEF ClientInv
  <2>2. pc \in [Attempts -> PcStates]
    BY <1>2 DEF PcStates
  <2>3. 0 \in 0..MaxCrashes
    BY AttemptAssumption DEF AttemptAssumption
  <2>4. QED BY <2>1, <2>2, <2>3 DEF Init, OnboardTypeOK
<1>5. LinkInv
  BY <1>3, Roles DEF LinkInv, Init, ClientInit, NewClient
<1>6. RowsMatchAnswers
  BY <1>3, Roles DEF Init, RowsMatchAnswers
<1>7. QED BY <1>1, <1>4, <1>5, <1>6 DEF OnboardInv

LEMMA OnboardInvariant == Spec => []OnboardInv
<1>1. OnboardInv /\ [Next]_vars => OnboardInv'
  BY ClientInductive, OnboardTypeInductive, RowsInductive, LinkInductive DEF OnboardInv
<1>2. QED BY <1>1, InitOnboard, PTL DEF Spec

\* Every variable of onboarding keeps its type.
THEOREM OnboardTypeCorrect == Spec => []OnboardTypeOK
<1>1. OnboardInv => OnboardTypeOK
  BY DEF OnboardInv
<1>2. QED BY <1>1, OnboardInvariant, PTL

\* Who was told of an account, a KYC record or a failure has its row, and a row
\* whose attempt was not told is one a crash overtook (wallet.py, kyc.py).
THEOREM RowsAsAnswered == Spec => []RowsMatchAnswers
<1>1. OnboardInv => RowsMatchAnswers
  BY DEF OnboardInv
<1>2. QED BY <1>1, OnboardInvariant, PTL

\* A stored account was opened once, and none was for "already provisioned",
\* whatever was repeated, lost or raced (wallet.py, nomba.py).
THEOREM StoredIsOpen == Spec => []StoredAccountOpen
<1>1. OnboardInv => StoredAccountOpen
  <2> SUFFICES ASSUME OnboardInv, NEW p \in Provisions
               PROVE  /\ account[PersonOf[p]] = p => effects[<<p, 1>>] = 1
                      /\ pc[p] = "existed" => effects[<<p, 1>>] = 0 /\ ~flying[p]
    BY DEF StoredAccountOpen
  <2>1. p \in Clients /\ ClientInv /\ LinkInv
    BY Roles DEF OnboardInv
  <2>2. Fits(p, client[p], flying[p])
    BY <2>1, ClientAt
  <2>3. client[p].at = 1
    <3>1. Script[p] = <<"account">>
      BY AttemptAssumption DEF AttemptAssumption
    <3>2. client[p].at \in DOMAIN <<"account">>
      BY <2>2, <3>1 DEF Fits
    <3>3. QED BY <3>2
  <2>4. account[PersonOf[p]] = p => effects[<<p, 1>>] = 1
    <3>1. SUFFICES ASSUME account[PersonOf[p]] = p PROVE effects[<<p, 1>>] = 1
      OBVIOUS
    <3>2. client[p].phase = "ok"
      BY <2>1, <3>1 DEF LinkInv
    <3>3. Sound(p, 1)
      BY <2>2, <2>3, <3>2 DEF Fits
    <3>4. Shows(Script[p][1])
      BY AttemptAssumption DEF AttemptAssumption, Shows
    <3>5. QED BY <3>3, <3>4 DEF Sound
  <2>5. CASE pc[p] = "existed"
    <3>1. client[p].phase = "idle"
      BY <2>1, <2>5 DEF LinkInv
    <3>2. QED BY <2>2, <2>3, <2>4, <2>5, <3>1 DEF Fits
  <2>6. QED BY <2>4, <2>5
<1>2. QED BY <1>1, OnboardInvariant, PTL
=============================================================================
