--------------------------- MODULE SessionsProofs ---------------------------
(***************************************************************************)
(* Theorems about refresh tokens, for any users and calls.                 *)
(***************************************************************************)
EXTENDS Sessions, TLAPS

\* The calls whose token is not in the table yet: a new call, and a refresh in
\* any step before its INSERT.
AbsentInv ==
  \A r \in Calls : call[r].pc \in {"new", "rotate", "mint"} => token[r] = "absent"

\* Who rotates is a refresh that presented a token in the table.
RotateInv ==
  \A r \in Calls :
    call[r].pc \in {"rotate", "mint"} =>
      /\ CallKind[r] = "refresh"
      /\ call[r].with \in Calls /\ token[call[r].with] # "absent"

\* Whoever revokes the one token it presented is a logout.
RevokeInv ==
  \A r \in Calls : call[r].pc = "revoke" =>
    CallKind[r] = "logout" /\ call[r].with \in Calls /\ token[call[r].with] # "absent"

\* Whoever rotated was answered, and the token it presented is revoked.
RotatedInv ==
  \A r \in Calls : Rotated(r) =>
    /\ call[r].pc = "answered"
    /\ call[r].with \in Calls /\ token[call[r].with] = "revoked"

\* A sign-out updates rows it found in the table.
RowsInv ==
  \A r \in Calls : \A t \in call[r].rows : t \in Calls /\ token[t] # "absent"

SessionsInv ==
  SessionsTypeOK /\ AbsentInv /\ RotateInv /\ RevokeInv /\ RotatedInv /\ RowsInv

LEMMA RowParts ==
  ASSUME NEW c \in CallRow
  PROVE  c.pc \in Pcs /\ c.with \in Calls \cup {None} /\ c.rows \in SUBSET Calls
  BY DEF CallRow

LEMMA RowPc ==
  ASSUME NEW c \in CallRow, NEW p \in Pcs
  PROVE  LET d == [c EXCEPT !.pc = p] IN
           d \in CallRow /\ d.pc = p /\ d.with = c.with /\ d.rows = c.rows
  BY DEF CallRow

LEMMA RowPcWith ==
  ASSUME NEW c \in CallRow, NEW p \in Pcs, NEW t \in Calls
  PROVE  LET d == [c EXCEPT !.with = t, !.pc = p] IN
           d \in CallRow /\ d.pc = p /\ d.with = t /\ d.rows = c.rows
  BY DEF CallRow

\* What a call's own step leaves of the other calls.
Steps(r) == call' \in [Calls -> CallRow] /\ \A q \in Calls \ {r} : call'[q] = call[q]

LEMMA StepTo ==
  ASSUME SessionsTypeOK, NEW r \in Calls, NEW p \in Pcs, To(r, p)
  PROVE  /\ Steps(r)
         /\ call'[r].pc = p /\ call'[r].with = call[r].with /\ call'[r].rows = call[r].rows
<1>1. call[r] \in CallRow
  BY DEF SessionsTypeOK
<1>2. call' = [call EXCEPT ![r] = [call[r] EXCEPT !.pc = p]]
  BY DEF To
<1> QED
  BY <1>1, <1>2, RowPc DEF SessionsTypeOK, Steps

\* Call `r` presents token `t` and goes on to `p`.
Takes(r, t, p) == call' = [call EXCEPT ![r] = [@ EXCEPT !.with = t, !.pc = p]]

LEMMA StepWith ==
  ASSUME SessionsTypeOK, NEW r \in Calls, NEW p \in Pcs, NEW t \in Calls, Takes(r, t, p)
  PROVE  /\ Steps(r)
         /\ call'[r].pc = p /\ call'[r].with = t /\ call'[r].rows = call[r].rows
<1> DEFINE d == [call[r] EXCEPT !.with = t, !.pc = p]
<1>1. call[r] \in CallRow /\ call \in [Calls -> CallRow]
  BY DEF SessionsTypeOK
<1>2. d \in CallRow /\ d.pc = p /\ d.with = t /\ d.rows = call[r].rows
  BY <1>1, RowPcWith
<1>3. call' = [call EXCEPT ![r] = d]
  BY DEF Takes
<1> HIDE DEF d
<1> QED
  BY <1>1, <1>2, <1>3 DEF Steps

LEMMA RefreshReadStep ==
  ASSUME SessionsTypeOK, NEW r \in Calls, NEW t \in Calls, RefreshRead(r, t)
  PROVE  /\ Steps(r)
         /\ call'[r].pc = IF token[t] = "valid" THEN "rotate" ELSE "select"
         /\ call'[r].with = t /\ call'[r].rows = call[r].rows
<1> DEFINE p == IF token[t] = "valid" THEN "rotate" ELSE "select"
<1>1. p \in Pcs /\ p \in {"rotate", "select"}
  BY DEF Pcs
<1> DEFINE d == [call[r] EXCEPT !.with = t, !.pc = p]
<1>2. call' = [call EXCEPT ![r] = d]
  BY DEF RefreshRead
<1> HIDE DEF p
<1>3. call[r] \in CallRow /\ call \in [Calls -> CallRow]
  BY DEF SessionsTypeOK
<1>4. d \in CallRow /\ d.pc = p /\ d.with = t /\ d.rows = call[r].rows
  BY <1>1, <1>3, RowPcWith
<1> HIDE DEF d
<1>5. Steps(r) /\ call'[r] = d
  BY <1>2, <1>3, <1>4 DEF Steps
<1> QED
  BY <1>4, <1>5 DEF p

LEMMA StepRows ==
  ASSUME SessionsTypeOK, NEW r \in Calls, NEW p \in Pcs, NEW S \in SUBSET Calls,
         call' = [call EXCEPT ![r] = [@ EXCEPT !.pc = p, !.rows = S]]
  PROVE  /\ Steps(r)
         /\ call'[r].pc = p /\ call'[r].with = call[r].with /\ call'[r].rows = S
<1> DEFINE d == [call[r] EXCEPT !.pc = p, !.rows = S]
<1>1. call[r] \in CallRow /\ call \in [Calls -> CallRow]
  BY DEF SessionsTypeOK
<1>2. d \in CallRow /\ d.pc = p /\ d.with = call[r].with /\ d.rows = S
  BY <1>1 DEF CallRow
<1>3. call' = [call EXCEPT ![r] = d]
  OBVIOUS
<1> HIDE DEF d
<1> QED
  BY <1>1, <1>2, <1>3 DEF Steps

LEMMA SessionsInitInv == SessionsInit => SessionsInv
<1> SUFFICES ASSUME SessionsInit PROVE SessionsInv
  OBVIOUS
<1>1. Waiting \in CallRow
  BY DEF Waiting, CallRow, Pcs
<1>2. SessionsTypeOK
  <2>1. issued \in Seq(Calls) /\ expired \subseteq Calls
    BY DEF SessionsInit
  <2>2. call \in [Calls -> CallRow]
    BY <1>1 DEF SessionsInit
  <2>3. token \in [Calls -> {"absent", "valid", "revoked"}]
    BY DEF SessionsInit
  <2>4. tokenLock \in [Calls -> Calls \cup {None}]
    BY DEF SessionsInit
  <2> QED
    BY <2>1, <2>2, <2>3, <2>4 DEF SessionsTypeOK
<1> QED
  BY <1>2 DEF SessionsInit, SessionsInv, AbsentInv, RotateInv, RevokeInv, RotatedInv,
              Rotated, RowsInv, Waiting

\* A step of r that leaves the token table alone keeps the invariant if where it
\* takes r is what the parts say of r.
LEMMA QuietStep ==
  ASSUME SessionsInv, NEW r \in Calls, Steps(r),
         UNCHANGED <<token, issued>>, expired' \subseteq Calls,
         tokenLock' \in [Calls -> Calls \cup {None}],
         token[r] = "absent" \/ call'[r].pc \notin {"new", "rotate", "mint"},
         call'[r].pc \in {"rotate", "mint"} =>
           CallKind[r] = "refresh" /\ call'[r].with \in Calls
             /\ token[call'[r].with] # "absent",
         call'[r].pc = "revoke" =>
           CallKind[r] = "logout" /\ call'[r].with \in Calls
             /\ token[call'[r].with] # "absent",
         Rotated(r) => call'[r].pc = "answered" /\ call'[r].with = call[r].with,
         \A t \in call'[r].rows : t \in Calls /\ token[t] # "absent"
  PROVE  SessionsInv'
<1>1. SessionsTypeOK'
  BY DEF SessionsInv, SessionsTypeOK, Steps
<1>2. AbsentInv'
  BY DEF SessionsInv, AbsentInv, Steps
<1>3. RotateInv'
  BY DEF SessionsInv, RotateInv, Steps
<1>4. RevokeInv'
  BY DEF SessionsInv, RevokeInv, Steps
<1>5. RotatedInv'
  BY DEF SessionsInv, RotatedInv, Rotated, Steps
<1>6. RowsInv'
  BY DEF SessionsInv, RowsInv, Steps
<1> QED
  BY <1>1, <1>2, <1>3, <1>4, <1>5, <1>6 DEF SessionsInv

LEMMA LoginKeeps ==
  ASSUME SessionsInv, NEW r \in Calls, Login(r) PROVE SessionsInv'
<1>1. Steps(r) /\ call'[r].pc = "answered" /\ call'[r].with = call[r].with
      /\ call'[r].rows = call[r].rows
  BY StepTo DEF Login, SessionsInv, Pcs
<1>2. token \in [Calls -> {"absent", "valid", "revoked"}]
      /\ token' = [token EXCEPT ![r] = "valid"] /\ token[r] = "absent"
  BY DEF Login, SessionsInv, SessionsTypeOK, AbsentInv
<1>3. token' \in [Calls -> {"absent", "valid", "revoked"}]
  BY <1>2
<1>4. issued' \in Seq(Calls)
  BY DEF Login, SessionsInv, SessionsTypeOK
<1>5. SessionsTypeOK'
  BY <1>1, <1>3, <1>4 DEF Login, SessionsInv, SessionsTypeOK, Steps
<1>6. AbsentInv'
  BY <1>1, <1>2 DEF SessionsInv, AbsentInv, Steps
<1>7. RotateInv'
  BY <1>1, <1>2 DEF SessionsInv, RotateInv, Steps
<1>8. RevokeInv'
  BY <1>1, <1>2 DEF SessionsInv, RevokeInv, Steps
<1>9. RotatedInv'
  BY <1>1, <1>2 DEF Login, SessionsInv, RotatedInv, Rotated, Steps
<1>10. RowsInv'
  BY <1>1, <1>2 DEF SessionsInv, RowsInv, Steps
<1> QED
  BY <1>5, <1>6, <1>7, <1>8, <1>9, <1>10 DEF SessionsInv

\* The presented token becomes revoked and the call's own token valid.
LEMMA RotateKeeps ==
  ASSUME SessionsInv, NEW r \in Calls, RotateCommit(r) PROVE SessionsInv'
<1> DEFINE t == call[r].with
<1>1. Steps(r) /\ call'[r].pc = "answered" /\ call'[r].with = call[r].with
      /\ call'[r].rows = call[r].rows
  BY StepTo DEF RotateCommit, SessionsInv, Pcs
<1>2. /\ token \in [Calls -> {"absent", "valid", "revoked"}]
      /\ t \in Calls /\ token[t] # "absent" /\ token[r] = "absent"
  BY DEF RotateCommit, SessionsInv, SessionsTypeOK, AbsentInv, RotateInv
<1>3. token' = [token EXCEPT ![t] = "revoked", ![r] = "valid"]
  BY DEF RotateCommit, Spent
<1>4. /\ token' \in [Calls -> {"absent", "valid", "revoked"}]
      /\ token'[t] = "revoked" /\ token'[r] = "valid"
      /\ \A q \in Calls : q # r /\ q # t => token'[q] = token[q]
  BY <1>2, <1>3
<1> HIDE DEF t
<1>5. SessionsTypeOK'
  <2>1. issued' \in Seq(Calls)
    BY DEF RotateCommit, SessionsInv, SessionsTypeOK
  <2>2. tokenLock' \in [Calls -> Calls \cup {None}] /\ expired' \subseteq Calls
    BY DEF RotateCommit, SessionsInv, SessionsTypeOK
  <2> QED
    BY <1>1, <1>4, <2>1, <2>2 DEF SessionsTypeOK, Steps
<1>6. AbsentInv'
  BY <1>1, <1>2, <1>4 DEF SessionsInv, AbsentInv, Steps
<1>7. RotateInv'
  BY <1>1, <1>2, <1>4 DEF SessionsInv, RotateInv, Steps
<1>8. RevokeInv'
  BY <1>1, <1>2, <1>4 DEF SessionsInv, RevokeInv, Steps
<1>9. RotatedInv'
  <2> SUFFICES ASSUME NEW q \in Calls, Rotated(q)'
               PROVE  /\ call'[q].pc = "answered"
                      /\ call'[q].with \in Calls /\ token'[call'[q].with] = "revoked"
    BY DEF RotatedInv
  <2>1. CASE q = r
    BY <1>1, <1>2, <1>4, <2>1 DEF t
  <2>2. CASE q # r
    <3>1. Rotated(q) /\ call'[q] = call[q]
      BY <1>1, <1>2, <1>4, <2>2 DEF Rotated, Steps
    <3>2. call[q].pc = "answered" /\ call[q].with \in Calls /\ token[call[q].with] = "revoked"
      BY <3>1 DEF SessionsInv, RotatedInv
    <3> QED
      BY <1>2, <1>4, <3>1, <3>2
  <2> QED
    BY <2>1, <2>2
<1>10. RowsInv'
  BY <1>1, <1>2, <1>4 DEF SessionsInv, RowsInv, Steps
<1> QED
  BY <1>5, <1>6, <1>7, <1>8, <1>9, <1>10 DEF SessionsInv

\* A step that only turns tokens of the table to revoked, and answers.
LEMMA RevokeKeeps ==
  ASSUME SessionsInv, NEW r \in Calls, Steps(r), UNCHANGED issued, expired' \subseteq Calls,
         tokenLock' \in [Calls -> Calls \cup {None}],
         token' \in [Calls -> {"absent", "valid", "revoked"}],
         \A t \in Calls :
           token'[t] = token[t] \/ (token[t] # "absent" /\ token'[t] = "revoked"),
         call'[r].pc \in {"answered", "denied"}, call'[r].with = call[r].with,
         call'[r].rows = call[r].rows, call[r].pc # "answered"
  PROVE  SessionsInv'
<1>1. SessionsTypeOK'
  BY DEF SessionsInv, SessionsTypeOK, Steps
<1>2. AbsentInv'
  BY DEF SessionsInv, AbsentInv, Steps
<1>3. RotateInv'
  BY DEF SessionsInv, RotateInv, Steps
<1>4. RevokeInv'
  BY DEF SessionsInv, RevokeInv, Steps
<1>5. RotatedInv'
  BY DEF SessionsInv, RotatedInv, Rotated, Steps
<1>6. RowsInv'
  BY DEF SessionsInv, RowsInv, Steps
<1> QED
  BY <1>1, <1>2, <1>3, <1>4, <1>5, <1>6 DEF SessionsInv

LEMMA SessionsStep == SessionsInv /\ [SessionsNext]_tokenVars => SessionsInv'
<1> SUFFICES ASSUME SessionsInv, [SessionsNext]_tokenVars PROVE SessionsInv'
  OBVIOUS
<1>t. SessionsTypeOK /\ expired \subseteq Calls /\ tokenLock \in [Calls -> Calls \cup {None}]
      /\ token \in [Calls -> {"absent", "valid", "revoked"}]
      /\ \A r \in Calls : call[r] \in CallRow
  BY DEF SessionsInv, SessionsTypeOK
<1>a. \A r \in Calls : call[r].pc \in {"new", "rotate", "mint"} =>
        token[r] = "absent" /\ ~Rotated(r)
  BY DEF SessionsInv, AbsentInv, Rotated
<1>b. \A r \in Calls : call[r].pc # "answered" => ~Rotated(r)
  BY DEF SessionsInv, RotatedInv
<1>r. \A r \in Calls : \A t \in call[r].rows : t \in Calls /\ token[t] # "absent"
  BY DEF SessionsInv, RowsInv
<1>1. ASSUME NEW r \in Calls, Login(r) PROVE SessionsInv'
  BY <1>1, LoginKeeps
<1>2. ASSUME NEW r \in Calls, LogoutEverywhere(r) PROVE SessionsInv'
  <2>1. Steps(r) /\ call'[r].pc = "select" /\ call'[r].rows = call[r].rows
    BY <1>2, <1>t, StepTo DEF LogoutEverywhere, Pcs
  <2> QED
    BY <1>2, <1>t, <1>b, <1>r, <2>1, QuietStep DEF LogoutEverywhere
<1>3. ASSUME NEW r \in Calls, NEW t \in Calls, RefreshUndecodable(r, t) PROVE SessionsInv'
  <2>1. Steps(r) /\ call'[r].pc = "answered" /\ call'[r].rows = call[r].rows
    BY <1>3, <1>t, StepTo DEF RefreshUndecodable, Pcs
  <2> QED
    BY <1>3, <1>t, <1>a, <1>r, <2>1, QuietStep DEF RefreshUndecodable
<1>4. ASSUME NEW r \in Calls, NEW t \in Calls, RefreshRead(r, t) PROVE SessionsInv'
  <2>3. /\ Steps(r) /\ call'[r].pc \in {"rotate", "select"}
        /\ call'[r].with = t /\ call'[r].rows = call[r].rows
    BY <1>t, <1>4, RefreshReadStep
  <2>4. /\ call[r].pc = "new" /\ CallKind[r] = "refresh" /\ token[t] # "absent"
        /\ UNCHANGED <<token, issued, expired, tokenLock>>
    BY <1>4 DEF RefreshRead, Held
  <2> QED
    BY <1>t, <1>a, <1>r, <2>3, <2>4, QuietStep
<1>5. ASSUME NEW r \in Calls, NEW t \in Calls, LogoutRead(r, t) PROVE SessionsInv'
  <2> DEFINE p == IF token[t] = "valid" THEN "revoke" ELSE "answered"
  <2>1. p \in Pcs /\ p \in {"revoke", "answered"}
    BY DEF Pcs
  <2>2. Takes(r, t, p)
    BY <1>5 DEF LogoutRead, Takes
  <2> HIDE DEF p
  <2>3. Steps(r) /\ call'[r].pc = p /\ call'[r].with = t /\ call'[r].rows = call[r].rows
    BY <1>t, <2>1, <2>2, StepWith
  <2>4. /\ call[r].pc = "new" /\ CallKind[r] = "logout" /\ token[t] # "absent"
        /\ UNCHANGED <<token, issued, expired, tokenLock>>
    BY <1>5 DEF LogoutRead, Held
  <2> QED
    BY <1>t, <1>a, <1>r, <2>1, <2>3, <2>4, QuietStep
<1>6. ASSUME NEW r \in Calls, NEW t \in Calls, RevokeAllFlush(r, t) PROVE SessionsInv'
  <2>1. Steps(r) /\ call' = call
    BY <1>6, <1>t DEF RevokeAllFlush, Steps, SessionsTypeOK
  <2>2. call[r].pc = "revokeAll" /\ tokenLock' \in [Calls -> Calls \cup {None}]
        /\ UNCHANGED <<token, issued, expired>>
    BY <1>6, <1>t DEF RevokeAllFlush
  <2> QED
    BY <1>t, <1>b, <1>r, <2>1, <2>2, QuietStep
<1>7. ASSUME NEW r \in Calls, RotateFlush(r) PROVE SessionsInv'
  <2>1. Steps(r) /\ call'[r].pc = "mint" /\ call'[r].with = call[r].with
        /\ call'[r].rows = call[r].rows
    BY <1>7, <1>t, StepTo DEF RotateFlush, Pcs
  <2>2. call[r].pc = "rotate" /\ tokenLock' \in [Calls -> Calls \cup {None}]
        /\ UNCHANGED <<token, issued, expired>>
    BY <1>7, <1>t DEF RotateFlush
  <2>3. CallKind[r] = "refresh" /\ call[r].with \in Calls /\ token[call[r].with] # "absent"
    BY <2>2 DEF SessionsInv, RotateInv
  <2> QED
    BY <1>t, <1>a, <1>r, <2>1, <2>2, <2>3, QuietStep
<1>8. ASSUME NEW r \in Calls, RotateCommit(r) PROVE SessionsInv'
  BY <1>8, RotateKeeps
<1>9. ASSUME NEW r \in Calls, LogoutCommit(r) PROVE SessionsInv'
  <2>1. Steps(r) /\ call'[r].pc = "answered" /\ call'[r].with = call[r].with
        /\ call'[r].rows = call[r].rows
    BY <1>9, <1>t, StepTo DEF LogoutCommit, Pcs
  <2>2. /\ call[r].pc = "revoke" /\ UNCHANGED <<issued, expired, tokenLock>>
        /\ token' = [token EXCEPT ![call[r].with] = "revoked"]
    BY <1>9 DEF LogoutCommit
  <2>3. call[r].with \in Calls /\ token[call[r].with] # "absent"
    BY <2>2 DEF SessionsInv, RevokeInv
  <2>4. /\ token' \in [Calls -> {"absent", "valid", "revoked"}]
        /\ \A t \in Calls :
             token'[t] = token[t] \/ (token[t] # "absent" /\ token'[t] = "revoked")
    BY <1>t, <2>2, <2>3
  <2> QED
    BY <1>t, <2>1, <2>2, <2>4, RevokeKeeps
<1>10. ASSUME NEW r \in Calls, RevokeAllSelect(r) PROVE SessionsInv'
  <2> DEFINE S == {t \in Held(r) : token[t] = "valid"}
  <2>1. S \in SUBSET Calls /\ \A t \in S : t \in Calls /\ token[t] # "absent"
    BY DEF Held
  <2>2. /\ call[r].pc = "select" /\ UNCHANGED <<token, issued, expired, tokenLock>>
        /\ call' = [call EXCEPT ![r] = [@ EXCEPT !.pc = "revokeAll", !.rows = S]]
    BY <1>10 DEF RevokeAllSelect
  <2> HIDE DEF S
  <2>3. Steps(r) /\ call'[r].pc = "revokeAll" /\ call'[r].rows = S
    BY <1>t, <2>1, <2>2, StepRows DEF Pcs
  <2> QED
    BY <1>t, <1>b, <2>1, <2>2, <2>3, QuietStep
<1>11. ASSUME NEW r \in Calls, RevokeAllCommit(r) PROVE SessionsInv'
  <2>1. Steps(r) /\ call'[r].pc = "denied" /\ call'[r].with = call[r].with
        /\ call'[r].rows = call[r].rows
    BY <1>11, <1>t, StepTo DEF RevokeAllCommit, Pcs
  <2>2. /\ call[r].pc = "revokeAll" /\ UNCHANGED <<issued, expired>>
        /\ token' = [t \in Calls |-> IF t \in call[r].rows THEN "revoked" ELSE token[t]]
        /\ tokenLock' = [t \in Calls |-> IF t \in call[r].rows THEN None ELSE tokenLock[t]]
    BY <1>11 DEF RevokeAllCommit, Committed
  <2>3. /\ token' \in [Calls -> {"absent", "valid", "revoked"}]
        /\ \A t \in Calls :
             token'[t] = token[t] \/ (token[t] # "absent" /\ token'[t] = "revoked")
    BY <1>t, <1>r, <2>2
  <2>4. tokenLock' \in [Calls -> Calls \cup {None}]
    BY <1>t, <2>2
  <2> QED
    BY <1>t, <2>1, <2>2, <2>3, <2>4, RevokeKeeps
<1>12. ASSUME NEW t \in Expiring, Expire(t) PROVE SessionsInv'
  BY <1>t, <1>12, CallAssumption DEF Expire, SessionsInv, SessionsTypeOK, AbsentInv, RotateInv,
     RevokeInv, RotatedInv, Rotated, RowsInv
<1>13. CASE UNCHANGED tokenVars
  BY <1>13 DEF tokenVars, SessionsInv, SessionsTypeOK, AbsentInv, RotateInv, RevokeInv,
     RotatedInv, Rotated, RowsInv
<1> QED
  BY <1>1, <1>2, <1>3, <1>4, <1>5, <1>6, <1>7, <1>8, <1>9, <1>10, <1>11, <1>12, <1>13
  DEF SessionsNext, Handle

LEMMA SessionsInvariant == SessionsSpec => []SessionsInv
  BY SessionsInitInv, SessionsStep, PTL DEF SessionsSpec

-----------------------------------------------------------------------------
\* Every reachable state of the refresh tokens is well typed.
THEOREM SessionsTyped == SessionsSpec => []SessionsTypeOK
<1>1. SessionsInv => SessionsTypeOK
  BY DEF SessionsInv
<1> QED
  BY <1>1, SessionsInvariant, PTL

\* rotate_tokens is all or nothing: for any number of overlapping calls, a token
\* it issued is in the table only with the one it was issued for revoked.
THEOREM RotationAtomic == SessionsSpec => []SuccessorRevokesPredecessor
<1>1. SessionsInv => SuccessorRevokesPredecessor
  BY DEF SessionsInv, RotatedInv, SuccessorRevokesPredecessor
<1> QED
  BY <1>1, SessionsInvariant, PTL

\* Only RefreshRead lets a call through to a rotation, and on a valid token.
LEMMA AcceptedIsValid ==
  ASSUME SessionsInv, SessionsNext, NEW r \in Calls, Accepts(r)
  PROVE  token[call'[r].with] = "valid"
<1>t. SessionsTypeOK /\ call[r].pc = "new" /\ call'[r].pc = "rotate"
  BY DEF SessionsInv, Accepts
<1>u. SessionsTypeOK
  BY DEF SessionsInv
<1>s. ASSUME NEW q \in Calls, NEW p \in Pcs, To(q, p), p # "rotate" PROVE FALSE
  BY <1>t, <1>s, StepTo DEF Steps
<1>1. ASSUME NEW q \in Calls,
             Login(q) \/ LogoutEverywhere(q) \/ RotateFlush(q) \/ RotateCommit(q)
               \/ LogoutCommit(q) \/ RevokeAllCommit(q)
      PROVE  FALSE
  BY <1>s, <1>1 DEF Login, LogoutEverywhere, RotateFlush, RotateCommit, LogoutCommit,
     RevokeAllCommit, Pcs
<1>2. ASSUME NEW q \in Calls, RevokeAllSelect(q) PROVE FALSE
  <2> DEFINE S == {t \in Held(q) : token[t] = "valid"}
  <2>1. S \in SUBSET Calls /\ call[q].pc = "select"
        /\ call' = [call EXCEPT ![q] = [@ EXCEPT !.pc = "revokeAll", !.rows = S]]
    BY <1>2 DEF RevokeAllSelect, Held
  <2> HIDE DEF S
  <2> QED
    BY <1>t, <2>1, StepRows DEF Pcs, Steps
<1>3. ASSUME NEW q \in Calls, NEW t \in Calls,
             RefreshUndecodable(q, t) \/ RevokeAllFlush(q, t)
      PROVE  FALSE
  BY <1>s, <1>t, <1>3 DEF RefreshUndecodable, RevokeAllFlush, Pcs
<1>4. ASSUME NEW q \in Calls, NEW t \in Calls, LogoutRead(q, t) PROVE FALSE
  <2> DEFINE p == IF token[t] = "valid" THEN "revoke" ELSE "answered"
  <2>1. p \in Pcs /\ p # "rotate"
    BY DEF Pcs
  <2>2. Takes(q, t, p)
    BY <1>4 DEF LogoutRead, Takes
  <2> HIDE DEF p
  <2>3. Steps(q) /\ call'[q].pc = p
    BY <1>t, <2>1, <2>2, StepWith
  <2> QED
    BY <1>t, <2>1, <2>3 DEF Steps
<1>5. ASSUME NEW q \in Calls, NEW t \in Calls, RefreshRead(q, t)
      PROVE  token[call'[r].with] = "valid"
  BY <1>t, <1>5, RefreshReadStep DEF Steps
<1>6. ASSUME NEW t \in Expiring, Expire(t) PROVE FALSE
  BY <1>t, <1>6 DEF Expire
<1> QED
  BY <1>1, <1>2, <1>3, <1>4, <1>5, <1>6 DEF SessionsNext, Handle

\* No call is let through with a token that a committed rotation used.
THEOREM UsedTokenOpensNothing == SessionsSpec => UsedTokenRefused
<1> DEFINE Refused ==
      \A r, q \in Calls : Accepts(r) /\ Rotated(q) => call[q].with # call'[r].with
<1>1. SessionsInv /\ [SessionsNext]_tokenVars => [Refused]_tokenVars
  <2> SUFFICES ASSUME SessionsInv, SessionsNext, NEW r \in Calls, NEW q \in Calls,
                      Accepts(r), Rotated(q)
               PROVE  call[q].with # call'[r].with
    OBVIOUS
  <2>1. token[call'[r].with] = "valid"
    BY AcceptedIsValid
  <2>2. token[call[q].with] = "revoked"
    BY DEF SessionsInv, RotatedInv
  <2> QED
    BY <2>1, <2>2
<1> QED
  BY <1>1, SessionsInvariant, PTL DEF SessionsSpec, UsedTokenRefused

-----------------------------------------------------------------------------
\* A sign-out that was answered has revoked every row it found.
DeniedInv ==
  \A q \in Calls : call[q].pc = "denied" => \A t \in call[q].rows : token[t] = "revoked"

\* A revoked row stays revoked: its only other write is its own INSERT.
LEMMA DeniedKept ==
  ASSUME SessionsInv, DeniedInv, NEW r \in Calls, Steps(r),
         \A t \in Calls : token[t] = "revoked" => token'[t] = "revoked",
         call'[r].pc = "denied" => \A t \in call'[r].rows : token'[t] = "revoked"
  PROVE  DeniedInv'
<1> SUFFICES ASSUME NEW q \in Calls, call'[q].pc = "denied", NEW t \in call'[q].rows
             PROVE  token'[t] = "revoked"
  BY DEF DeniedInv
<1>1. CASE q = r
  BY <1>1
<1>2. CASE q # r
  <2>1. call'[q] = call[q]
    BY <1>2 DEF Steps
  <2> QED
    BY <2>1 DEF DeniedInv, SessionsInv, RowsInv
<1> QED
  BY <1>1, <1>2

\* A call's step that writes no token and does not answer a sign-out.
LEMMA QuietDenies ==
  ASSUME SessionsInv, DeniedInv, NEW r \in Calls, Steps(r), call'[r].pc # "denied",
         UNCHANGED token
  PROVE  DeniedInv'
  BY DeniedKept

LEMMA DeniedStep == SessionsInv /\ DeniedInv /\ [SessionsNext]_tokenVars => DeniedInv'
<1> SUFFICES ASSUME SessionsInv, DeniedInv, [SessionsNext]_tokenVars PROVE DeniedInv'
  OBVIOUS
<1>t. SessionsTypeOK /\ token \in [Calls -> {"absent", "valid", "revoked"}]
  BY DEF SessionsInv, SessionsTypeOK
<1>1. ASSUME NEW r \in Calls, NEW p \in Pcs, To(r, p), p # "denied", UNCHANGED token
      PROVE  DeniedInv'
  BY <1>t, <1>1, StepTo, QuietDenies
<1>2. ASSUME NEW r \in Calls, LogoutEverywhere(r) \/ RotateFlush(r) PROVE DeniedInv'
  BY <1>1, <1>2 DEF LogoutEverywhere, RotateFlush, Pcs
<1>3. ASSUME NEW r \in Calls, NEW t \in Calls, RefreshUndecodable(r, t) PROVE DeniedInv'
  BY <1>1, <1>3 DEF RefreshUndecodable, Pcs
<1>4. ASSUME NEW r \in Calls, NEW t \in Calls, RefreshRead(r, t) PROVE DeniedInv'
  <2>1. UNCHANGED token
    BY <1>4 DEF RefreshRead
  <2>2. Steps(r) /\ call'[r].pc # "denied"
    BY <1>t, <1>4, RefreshReadStep
  <2> QED
    BY <2>1, <2>2, QuietDenies
<1>5. ASSUME NEW r \in Calls, NEW t \in Calls, LogoutRead(r, t) PROVE DeniedInv'
  <2> DEFINE p == IF token[t] = "valid" THEN "revoke" ELSE "answered"
  <2>1. p \in Pcs /\ p # "denied"
    BY DEF Pcs
  <2>2. Takes(r, t, p) /\ UNCHANGED token
    BY <1>5 DEF LogoutRead, Takes
  <2> HIDE DEF p
  <2> QED
    BY <1>t, <2>1, <2>2, StepWith, QuietDenies
<1>6. ASSUME NEW r \in Calls, NEW t \in Calls, RevokeAllFlush(r, t) PROVE DeniedInv'
  BY <1>6 DEF RevokeAllFlush, DeniedInv
<1>7. ASSUME NEW r \in Calls, RevokeAllSelect(r) PROVE DeniedInv'
  <2> DEFINE S == {t \in Held(r) : token[t] = "valid"}
  <2>1. S \in SUBSET Calls /\ UNCHANGED token
        /\ call' = [call EXCEPT ![r] = [@ EXCEPT !.pc = "revokeAll", !.rows = S]]
    BY <1>7 DEF RevokeAllSelect, Held
  <2> HIDE DEF S
  <2>2. Steps(r) /\ call'[r].pc = "revokeAll"
    BY <1>t, <2>1, StepRows DEF Pcs
  <2> QED
    BY <2>1, <2>2, QuietDenies
<1>8. ASSUME NEW r \in Calls, Login(r) PROVE DeniedInv'
  <2>1. Steps(r) /\ call'[r].pc = "answered"
    BY <1>t, <1>8, StepTo DEF Login, Pcs
  <2>2. token' = [token EXCEPT ![r] = "valid"] /\ token[r] = "absent"
    BY <1>8 DEF Login, SessionsInv, AbsentInv
  <2> QED
    BY <1>t, <2>1, <2>2, DeniedKept
<1>9. ASSUME NEW r \in Calls, RotateCommit(r) PROVE DeniedInv'
  <2> DEFINE t == call[r].with
  <2>1. Steps(r) /\ call'[r].pc = "answered"
    BY <1>t, <1>9, StepTo DEF RotateCommit, Pcs
  <2>2. t \in Calls /\ token[r] = "absent" /\ token' = [token EXCEPT ![t] = "revoked", ![r] = "valid"]
    BY <1>9 DEF RotateCommit, Spent, SessionsInv, AbsentInv, RotateInv
  <2> HIDE DEF t
  <2> QED
    BY <1>t, <2>1, <2>2, DeniedKept
<1>10. ASSUME NEW r \in Calls, LogoutCommit(r) PROVE DeniedInv'
  <2>1. Steps(r) /\ call'[r].pc = "answered"
    BY <1>t, <1>10, StepTo DEF LogoutCommit, Pcs
  <2>2. token' = [token EXCEPT ![call[r].with] = "revoked"]
    BY <1>10 DEF LogoutCommit
  <2> QED
    BY <1>t, <2>1, <2>2, DeniedKept
<1>11. ASSUME NEW r \in Calls, RevokeAllCommit(r) PROVE DeniedInv'
  <2>1. Steps(r) /\ call'[r].rows = call[r].rows
    BY <1>t, <1>11, StepTo DEF RevokeAllCommit, Pcs
  <2>2. /\ call[r].rows \subseteq Calls
        /\ token' = [t \in Calls |-> IF t \in call[r].rows THEN "revoked" ELSE token[t]]
    BY <1>11 DEF RevokeAllCommit, Committed, SessionsInv, RowsInv
  <2> QED
    BY <2>1, <2>2, DeniedKept
<1>12. CASE (\E t \in Expiring : Expire(t)) \/ UNCHANGED tokenVars
  BY <1>12 DEF Expire, tokenVars, DeniedInv
<1> QED
  BY <1>2, <1>3, <1>4, <1>5, <1>6, <1>7, <1>8, <1>9, <1>10, <1>11, <1>12
  DEF SessionsNext, Handle

\* No call that begins after a sign-out or a replay was answered is let through
\* with a token that _revoke_all_for_user found.
THEOREM SignedOutOpensNothing == SessionsSpec => SignedOutStaysOut
<1> DEFINE Refused ==
      \A r, q \in Calls :
        Accepts(r) /\ call[q].pc = "denied" => call'[r].with \notin call[q].rows
<1>1. SessionsInit => DeniedInv
  BY DEF SessionsInit, DeniedInv, Waiting
<1>2. SessionsInv /\ DeniedInv /\ [SessionsNext]_tokenVars => [Refused]_tokenVars
  <2> SUFFICES ASSUME SessionsInv, DeniedInv, SessionsNext, NEW r \in Calls, NEW q \in Calls,
                      Accepts(r), call[q].pc = "denied"
               PROVE  call'[r].with \notin call[q].rows
    OBVIOUS
  <2>1. token[call'[r].with] = "valid"
    BY AcceptedIsValid
  <2> QED
    BY <2>1 DEF DeniedInv
<1> QED
  BY <1>1, <1>2, DeniedStep, SessionsInvariant, PTL DEF SessionsSpec, SignedOutStaysOut
=============================================================================
