------------------------------ MODULE Sessions ------------------------------
(***************************************************************************)
(* Refresh tokens: login, refresh and logout of app/services/auth.py.      *)
(* Their endpoints run in worker threads, each in a database session of    *)
(* its own (READ COMMITTED), so every statement is a step.  The token a    *)
(* call mints is named after the call; a client may present any token it   *)
(* was ever given, an old one if the answer with the new one was lost.     *)
(***************************************************************************)
EXTENDS Naturals, Sequences

CONSTANTS Users, Calls, None,
          CallKind,     \* what a call asks for
          CallUser,     \* whose credentials or tokens it presents
          Expiring      \* bound: the tokens that live to their end

ASSUME CallAssumption ==
  /\ CallKind \in [Calls -> {"login", "refresh", "logout", "logoutAll"}]
  /\ CallUser \in [Calls -> Users]
  /\ None \notin Calls /\ Expiring \subseteq Calls

VARIABLES token,        \* refresh_tokens: absent, valid or revoked
          issued,       \* the tokens by their rows' ids, which are drawn in order
          expired,      \* tokens past their expires_at
          tokenLock,    \* row locks of uncommitted UPDATEs
          call          \* where a call is, its token, and the rows it selected

tokenVars == <<token, issued, expired, tokenLock, call>>

Pcs == {"new", "rotate", "mint", "select", "revokeAll", "revoke", "answered", "denied"}
CallRow == [pc : Pcs, with : Calls \cup {None}, rows : SUBSET Calls]
Waiting == [pc |-> "new", with |-> None, rows |-> {}]

SessionsTypeOK ==
  /\ token \in [Calls -> {"absent", "valid", "revoked"}]
  /\ issued \in Seq(Calls)
  /\ expired \subseteq Calls
  /\ tokenLock \in [Calls -> Calls \cup {None}]
  /\ call \in [Calls -> CallRow]

SessionsInit ==
  /\ token = [r \in Calls |-> "absent"]
  /\ issued = <<>>
  /\ expired = {}
  /\ tokenLock = [r \in Calls |-> None]
  /\ call = [r \in Calls |-> Waiting]

-----------------------------------------------------------------------------
To(r, pc) == call' = [call EXCEPT ![r].pc = pc]

\* The tokens the client of r was given.
Held(r) == {t \in Calls : CallUser[t] = CallUser[r] /\ token[t] # "absent"}

\* issue_tokens: one INSERT and its commit.
Login(r) ==
  /\ call[r].pc = "new" /\ CallKind[r] = "login"
  /\ token' = [token EXCEPT ![r] = "valid"]
  /\ issued' = Append(issued, r)
  /\ To(r, "answered")
  /\ UNCHANGED <<expired, tokenLock>>

\* A token's lifetime ends, of its JWT and of its row.
Expire(t) ==
  /\ token[t] # "absent" /\ t \notin expired
  /\ expired' = expired \cup {t}
  /\ UNCHANGED <<token, issued, tokenLock, call>>

\* rotate_tokens: an expired JWT does not decode, before any query.
RefreshUndecodable(r, t) ==
  /\ call[r].pc = "new" /\ CallKind[r] = "refresh" /\ t \in Held(r)
  /\ t \in expired
  /\ To(r, "answered")
  /\ UNCHANGED <<token, issued, expired, tokenLock>>

\* Otherwise the row decides; a revoked one is taken for a replay.
RefreshRead(r, t) ==
  /\ call[r].pc = "new" /\ CallKind[r] = "refresh" /\ t \in Held(r)
  /\ t \notin expired
  /\ call' = [call EXCEPT ![r] = [@ EXCEPT !.with = t,
                                           !.pc = IF token[t] = "valid" THEN "rotate" ELSE "select"]]
  /\ UNCHANGED <<token, issued, expired, tokenLock>>

\* The flush of row.revoked: an UPDATE by primary key, whoever came before.
RotateFlush(r) ==
  /\ call[r].pc = "rotate"
  /\ tokenLock[call[r].with] = None
  /\ tokenLock' = [tokenLock EXCEPT ![call[r].with] = r]
  /\ To(r, "mint")
  /\ UNCHANGED <<token, issued, expired>>

\* What becomes of the token a rotation presented.
\* Mutants: the old token stays valid beside the new one; its row is deleted.
StaysValid(t) == "valid"
Deleted(t) == "deleted"
Spent(t) == "revoked"

\* The INSERT of the successor and the commit of both.
RotateCommit(r) ==
  /\ call[r].pc = "mint"
  /\ token' = [token EXCEPT ![call[r].with] = Spent(call[r].with), ![r] = "valid"]
  /\ issued' = Append(issued, r)
  /\ tokenLock' = [tokenLock EXCEPT ![call[r].with] = None]
  /\ To(r, "answered")
  /\ UNCHANGED expired

\* logout_user without a token goes straight to _revoke_all_for_user.
LogoutEverywhere(r) ==
  /\ call[r].pc = "new" /\ CallKind[r] = "logoutAll" /\ Held(r) # {}
  /\ To(r, "select")
  /\ UNCHANGED <<token, issued, expired, tokenLock>>

\* _revoke_all_for_user: select the valid rows...
RevokeAllSelect(r) ==
  /\ call[r].pc = "select"
  /\ call' = [call EXCEPT ![r] =
       [@ EXCEPT !.pc = "revokeAll", !.rows = {t \in Held(r) : token[t] = "valid"}]]
  /\ UNCHANGED <<token, issued, expired, tokenLock>>

Unlocked(r) == {t \in call[r].rows : tokenLock[t] # r}

\* ...update them one by one in the order of their primary keys, in which the
\* unit of work sorts them, waiting for each row's lock...
\* Mutant: in the order in which the rows happen to come.
AnyOrder(r, t) == TRUE
FirstById(r, t) ==
  \E i \in DOMAIN issued :
    issued[i] = t /\ \A j \in 1..(i - 1) : issued[j] \notin Unlocked(r)

RevokeAllFlush(r, t) ==
  /\ call[r].pc = "revokeAll"
  /\ t \in Unlocked(r) /\ FirstById(r, t)
  /\ tokenLock[t] = None
  /\ tokenLock' = [tokenLock EXCEPT ![t] = r]
  /\ UNCHANGED <<token, issued, expired, call>>

\* ...and commit.
\* Mutant: a replay raises its 401 before the commit.
CommittedUnlessReplay(r) == IF CallKind[r] = "refresh" THEN {} ELSE call[r].rows
Committed(r) == call[r].rows

RevokeAllCommit(r) ==
  /\ call[r].pc = "revokeAll" /\ Unlocked(r) = {}
  /\ token' = [t \in Calls |-> IF t \in Committed(r) THEN "revoked" ELSE token[t]]
  /\ tokenLock' = [t \in Calls |-> IF t \in call[r].rows THEN None ELSE tokenLock[t]]
  /\ To(r, "denied")
  /\ UNCHANGED <<issued, expired>>

\* revoke_refresh of the token presented, if it is still valid.
LogoutRead(r, t) ==
  /\ call[r].pc = "new" /\ CallKind[r] = "logout" /\ t \in Held(r)
  /\ call' = [call EXCEPT ![r] = [@ EXCEPT !.with = t,
                                           !.pc = IF token[t] = "valid" THEN "revoke" ELSE "answered"]]
  /\ UNCHANGED <<token, issued, expired, tokenLock>>

LogoutCommit(r) ==
  /\ call[r].pc = "revoke"
  /\ tokenLock[call[r].with] = None
  /\ token' = [token EXCEPT ![call[r].with] = "revoked"]
  /\ To(r, "answered")
  /\ UNCHANGED <<issued, expired, tokenLock>>

Handle(r) ==
  \/ Login(r) \/ LogoutEverywhere(r)
  \/ \E t \in Calls : RefreshUndecodable(r, t) \/ RefreshRead(r, t)
                      \/ LogoutRead(r, t) \/ RevokeAllFlush(r, t)
  \/ RotateFlush(r) \/ RotateCommit(r) \/ LogoutCommit(r)
  \/ RevokeAllSelect(r) \/ RevokeAllCommit(r)

SessionsNext == (\E r \in Calls : Handle(r)) \/ \E t \in Expiring : Expire(t)

\* A call once begun goes on: its thread is scheduled and locks are granted.
SessionsSpec ==
  /\ SessionsInit /\ [][SessionsNext]_tokenVars
  /\ \A r \in Calls : WF_tokenVars(call[r].pc # "new" /\ Handle(r))

-----------------------------------------------------------------------------
\* Calls that exchanged the token they presented for one of their own.
Rotated(r) == CallKind[r] = "refresh" /\ token[r] # "absent"

Accepts(r) == call[r].pc = "new" /\ call'[r].pc = "rotate"

\* A refresh token buys one new pair, overlapping calls apart: no call that
\* begins after a rotation was committed is let through with the same token.
UsedTokenRefused ==
  [][\A r, q \in Calls :
       Accepts(r) /\ Rotated(q) => call[q].with # call'[r].with]_tokenVars

\* Signing out everywhere, or replaying a revoked token, ends every session it
\* found: none of those tokens opens a rotation that begins later.
SignedOutStaysOut ==
  [][\A r, q \in Calls :
       Accepts(r) /\ call[q].pc = "denied" => call'[r].with \notin call[q].rows]_tokenVars

\* A rotation is all or nothing: a successor is in the table only with its
\* predecessor revoked, so a family grows no second branch behind a lost call.
SuccessorRevokesPredecessor ==
  \A r \in Calls : Rotated(r) => token[call[r].with] = "revoked"

\* The row locks of overlapping rotations and sign-outs never wait in a circle:
\* every call that began is answered (calls are finitely many, and begin once).
CallsAnswered == []<>(\A r \in Calls : call[r].pc \in {"new", "answered", "denied"})
=============================================================================
