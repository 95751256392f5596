------------------------ MODULE TelegramLinkProofs ------------------------
(***************************************************************************)
(* Theorems about linking chats to accounts, for any users, chats, codes   *)
(* and calls.                                                              *)
(***************************************************************************)
EXTENDS TelegramLink, TLAPS

\* The commands whose handler is between its first query and its reply.
Handling(k) ==
  \/ call[k].pc \in {"readCode", "readUser"}
  \/ call[k].pc = "commit" /\ CallKind[k] \in {"link", "unlinkChat"}

\* A /link that has read its code as unused, which by now may be invalidated
\* but has linked nobody.
Claiming(k) == CallKind[k] = "link" /\ call[k].pc \in {"readUser", "commit"}

Unclaimed(c) == code[c] # "absent" /\ \A q \in Calls : Linked(q) => call[q].code # c

\* What is true of a call in each of its steps.
CallFits(k) ==
  /\ Handling(k) => inLoop = k
  /\ call[k].pc \in {"readCode", "readUser", "linked"} =>
       CallKind[k] = "link" /\ call[k].code \in Codes
  /\ call[k].pc = "commit" /\ CallKind[k] # "invalidate" => call[k].user \in Users
  /\ call[k].pc = "commit" /\ CallKind[k] = "unlinkChat" => Agrees(call[k].snap)
  /\ Linked(k) => code[call[k].code] = "used"
  /\ Claiming(k) => /\ call[k].code \in Codes /\ call[k].user \in Users
                    /\ Unclaimed(call[k].code)
  /\ call[k].pc = "commit" /\ CallKind[k] = "link" => Others(k) = {}

LinkInv == LinkTypeOK /\ CodeLinksOnce /\ ChatOfOneUser /\ \A k \in Calls : CallFits(k)

-----------------------------------------------------------------------------
LEMMA CallParts ==
  ASSUME NEW r \in CallRow
  PROVE  /\ r.pc \in {"new", "readCode", "readUser", "commit", "linked", "done"}
         /\ r.code \in Codes \cup {None} /\ r.user \in Users \cup {None}
         /\ r.snap \in UserRow /\ r.found \in SUBSET Codes
  BY DEF CallRow

LEMMA UserParts ==
  ASSUME NEW r \in UserRow
  PROVE  r.chat \in Chats \cup {None} /\ r.linked \in BOOLEAN
  BY DEF UserRow

LEMMA UnlinkedRow == Unlinked \in UserRow /\ Unlinked.chat = None /\ Unlinked.linked = FALSE
  BY DEF Unlinked, UserRow

\* A flush writes a column only if it was changed after the load.
LEMMA FlushParts ==
  ASSUME NEW row \in UserRow, NEW snap \in UserRow, NEW new \in UserRow
  PROVE  /\ Flush(row, snap, new) \in UserRow
         /\ Flush(row, snap, new).chat = IF new.chat = snap.chat THEN row.chat ELSE new.chat
         /\ Flush(row, snap, new).linked =
              IF new.linked = snap.linked THEN row.linked ELSE new.linked
<1>1. /\ row.chat \in Chats \cup {None} /\ row.linked \in BOOLEAN
      /\ new.chat \in Chats \cup {None} /\ new.linked \in BOOLEAN
  BY UserParts
<1> QED
  BY <1>1 DEF Flush, UserRow

LEMMA FreshRows ==
  /\ NotCalled \in CallRow /\ NotCalled.pc = "new"
  /\ Finished \in CallRow /\ Finished.pc = "done"
<1>1. NotCalled \in CallRow /\ NotCalled.pc = "new"
  BY UnlinkedRow DEF NotCalled, CallRow
<1>2. Finished \in CallRow /\ Finished.pc = "done"
  BY <1>1 DEF Finished, CallRow
<1> QED
  BY <1>1, <1>2

LEMMA LinkedRow ==
  ASSUME NEW c \in Codes
  PROVE  LinkedWith(c) \in CallRow /\ LinkedWith(c).pc = "linked" /\ LinkedWith(c).code = c
  BY UnlinkedRow DEF LinkedWith, NotCalled, CallRow

\* The ways in which a row advances.
LEMMA CodeTaken ==
  ASSUME NEW r \in CallRow, NEW c \in Codes
  PROVE  LET d == [r EXCEPT !.pc = "readCode", !.code = c] IN
           d \in CallRow /\ d.pc = "readCode" /\ d.code = c
  BY DEF CallRow

LEMMA UserFound ==
  ASSUME NEW r \in CallRow, NEW u \in Users
  PROVE  LET d == [r EXCEPT !.pc = "readUser", !.user = u] IN
           d \in CallRow /\ d.pc = "readUser" /\ d.code = r.code /\ d.user = u
  BY DEF CallRow

LEMMA UserLoaded ==
  ASSUME NEW r \in CallRow, NEW row \in UserRow
  PROVE  LET d == [r EXCEPT !.pc = "commit", !.snap = row] IN
           d \in CallRow /\ d.pc = "commit" /\ d.code = r.code /\ d.user = r.user /\ d.snap = row
  BY DEF CallRow

LEMMA CodesFound ==
  ASSUME NEW r \in CallRow, NEW F \in SUBSET Codes
  PROVE  LET d == [r EXCEPT !.pc = "commit", !.found = F] IN d \in CallRow /\ d.pc = "commit"
  BY DEF CallRow

-----------------------------------------------------------------------------
\* Call k goes on as d, and no other call moves.
Becomes(k, d) == call' = [call EXCEPT ![k] = d]

LEMMA OneMoves ==
  ASSUME LinkTypeOK, NEW k \in Calls, NEW d \in CallRow, Becomes(k, d)
  PROVE  call' \in [Calls -> CallRow] /\ call'[k] = d /\ \A q \in Calls \ {k} : call'[q] = call[q]
  BY DEF LinkTypeOK, Becomes

\* No step takes a code back: what exists goes on to exist, used for ever.
CodesAge ==
  /\ code' \in [Codes -> {"absent", "unused", "used"}]
  /\ \A c \in Codes : /\ code[c] # "absent" => code'[c] # "absent"
                      /\ code[c] = "used" => code'[c] = "used"

\* A step that gives no user a chat.
NoNewChat ==
  /\ owner' \in [Users -> UserRow]
  /\ \A u \in Users : owner'[u].chat \in {owner[u].chat, None}

\* What a call's step leaves true of the others: if it links, it has the loop,
\* and nobody else is at a handler.
LEMMA OthersFit ==
  ASSUME LinkInv, NEW k \in Calls, NEW q \in Calls \ {k}, call'[q] = call[q],
         \A p \in Calls \ {k} : call'[p] = call[p],
         CodesAge, inLoop' = inLoop \/ inLoop \in {None, k},
         inLoop = k \/ (NoNewChat /\ call'[k].pc # "linked")
  PROVE  CallFits(q)'
<1>1. CallFits(q) /\ None \notin Calls /\ call[q] \in CallRow
  BY LinkAssumption DEF LinkInv, LinkAssumption, LinkTypeOK
<1>2. Handling(q)' => Handling(q) /\ inLoop' = q /\ inLoop = q
  BY <1>1 DEF CallFits, Handling
<1>3. /\ call[q].pc \in {"readCode", "readUser", "linked"} =>
           CallKind[q] = "link" /\ call[q].code \in Codes
      /\ call[q].pc = "commit" /\ CallKind[q] # "invalidate" => call[q].user \in Users
      /\ call[q].pc = "commit" /\ CallKind[q] = "unlinkChat" => Agrees(call[q].snap)
  BY <1>1 DEF CallFits
<1>4. Linked(q)' => code'[call'[q].code] = "used"
  BY <1>1, <1>3 DEF CallFits, Linked, CodesAge
<1>5. ASSUME Claiming(q)'
      PROVE  /\ call[q].code \in Codes /\ call[q].user \in Users
             /\ Unclaimed(call[q].code)'
  <2>1. Claiming(q) /\ inLoop # k
    BY <1>2, <1>5 DEF Claiming, Handling
  <2>2. call[q].code \in Codes /\ call[q].user \in Users /\ Unclaimed(call[q].code)
    BY <1>1, <2>1 DEF CallFits
  <2>3. \A p \in Calls : Linked(p)' => Linked(p) /\ call'[p] = call[p]
    BY <2>1 DEF Linked
  <2>4. code'[call[q].code] # "absent"
    BY <2>2 DEF CodesAge, Unclaimed
  <2> QED
    BY <2>2, <2>3, <2>4 DEF Unclaimed
<1>6. ASSUME call'[q].pc = "commit", CallKind[q] = "link"
      PROVE  Others(q)' = {}
  <2>1. inLoop # k /\ Others(q) = {}
    BY <1>1, <1>2, <1>6 DEF CallFits, Handling
  <2>2. CallChat[q] # None /\ CallChat[q] \in Chats
    BY LinkAssumption DEF LinkAssumption
  <2> QED
    BY <2>1, <2>2 DEF Others, NoNewChat
<1> QED
  BY <1>2, <1>3, <1>4, <1>5, <1>6 DEF CallFits, Claiming

\* A step of call k that links nobody keeps LinkInv if it leaves k fit.
LEMMA Advance ==
  ASSUME LinkInv, NEW k \in Calls, NEW d \in CallRow, Becomes(k, d), d.pc # "linked",
         CodesAge, NoNewChat, stale' = stale,
         inLoop' = inLoop \/ (inLoop \in {None, k} /\ inLoop' \in {None, k}),
         CallFits(k)'
  PROVE  LinkInv'
<1>1. call' \in [Calls -> CallRow] /\ call'[k] = d /\ \A q \in Calls \ {k} : call'[q] = call[q]
  BY OneMoves DEF LinkInv
<1>2. LinkTypeOK'
  BY <1>1 DEF LinkInv, LinkTypeOK, CodesAge, NoNewChat
<1>3. \A q \in Calls \ {k} : CallFits(q)'
  BY <1>1, OthersFit
<1>4. CodeLinksOnce'
  BY <1>1 DEF LinkInv, CodeLinksOnce, Linked
<1>5. ChatOfOneUser'
  BY DEF LinkInv, ChatOfOneUser, NoNewChat
<1> QED
  BY <1>2, <1>3, <1>4, <1>5 DEF LinkInv

\* The tables stay as they are.
LEMMA TablesKept ==
  ASSUME LinkTypeOK, UNCHANGED <<code, stale, owner>>
  PROVE  CodesAge /\ NoNewChat /\ stale' = stale
  BY DEF LinkTypeOK, CodesAge, NoNewChat

LEMMA RowHere ==
  ASSUME LinkInv, NEW k \in Calls
  PROVE  LinkTypeOK /\ call[k] \in CallRow /\ CallFits(k)
  BY DEF LinkInv, LinkTypeOK

\* An answered call has nothing left to fit.
LEMMA FinishedFits ==
  ASSUME NEW k \in Calls, call'[k].pc = "done"
  PROVE  CallFits(k)'
  BY DEF CallFits, Handling, Claiming, Linked

LEMMA AnswerKeeps ==
  ASSUME LinkInv, NEW k \in Calls, Becomes(k, Finished), CodesAge, NoNewChat, stale' = stale,
         inLoop' = inLoop \/ (inLoop \in {None, k} /\ inLoop' = None)
  PROVE  LinkInv'
<1>1. CallFits(k)'
  BY FreshRows, OneMoves, FinishedFits DEF LinkInv
<1> QED
  BY <1>1, FreshRows, Advance

LEMMA LinkStartKeeps ==
  ASSUME LinkInv, NEW k \in Calls, NEW c \in Codes, LinkStart(k, c)
  PROVE  LinkInv'
<1>1. CodesAge /\ NoNewChat /\ stale' = stale
  BY TablesKept, RowHere DEF LinkStart
<1>2. CASE LinkedTo(CallChat[k]) = {}
  <2> DEFINE d == [call[k] EXCEPT !.pc = "readCode", !.code = c]
  <2>1. d \in CallRow /\ d.pc = "readCode" /\ d.code = c
    BY RowHere, CodeTaken
  <2>2. Becomes(k, d) /\ inLoop' = k /\ inLoop = None /\ CallKind[k] = "link"
    BY <1>2 DEF LinkStart, Becomes, LoopFree
  <2> HIDE DEF d
  <2>3. call'[k] = d
    BY <2>1, <2>2, RowHere, OneMoves
  <2>4. CallFits(k)'
    BY <2>1, <2>2, <2>3 DEF CallFits, Handling, Claiming, Linked
  <2> QED
    BY <1>1, <2>1, <2>2, <2>4, Advance
<1>3. CASE LinkedTo(CallChat[k]) # {}
  BY <1>1, <1>3, AnswerKeeps DEF LinkStart, Becomes
<1> QED
  BY <1>2, <1>3

\* A rejected /link gives the loop back.
LEMMA RejectKeeps ==
  ASSUME LinkInv, NEW k \in Calls, LinkBadCode(k) \/ LinkTaken(k)
  PROVE  LinkInv'
<1>1. Becomes(k, Finished) /\ inLoop' = None /\ UNCHANGED <<code, stale, owner>>
  BY DEF LinkBadCode, LinkTaken, Reject, Becomes
<1>2. inLoop = k
  BY RowHere DEF LinkBadCode, LinkTaken, CallFits, Handling
<1> QED
  BY <1>1, <1>2, RowHere, TablesKept, AnswerKeeps

\* The code was unused, so no call has linked with it.
LEMMA LinkReadCodeKeeps ==
  ASSUME LinkInv, NEW k \in Calls, LinkReadCode(k)
  PROVE  LinkInv'
<1> DEFINE u == CodeOwner[call[k].code]
<1> DEFINE d == [call[k] EXCEPT !.pc = "readUser", !.user = u]
<1>1. /\ CodesAge /\ NoNewChat /\ stale' = stale /\ inLoop' = inLoop /\ code' = code
      /\ Becomes(k, d) /\ code[call[k].code] = "unused" /\ call[k].pc = "readCode"
  BY TablesKept, RowHere DEF LinkReadCode, Becomes
<1>2. inLoop = k /\ CallKind[k] = "link" /\ call[k].code \in Codes
  BY <1>1, RowHere DEF CallFits, Handling
<1>3. u \in Users
  BY <1>2, LinkAssumption DEF LinkAssumption
<1> HIDE DEF u
<1>4. d \in CallRow /\ d.pc = "readUser" /\ d.code = call[k].code /\ d.user = u
  BY <1>3, RowHere, UserFound
<1> HIDE DEF d
<1>5. call'[k] = d /\ \A q \in Calls \ {k} : call'[q] = call[q]
  BY <1>1, <1>4, RowHere, OneMoves
<1>6. Unclaimed(call[k].code)'
  <2>1. \A q \in Calls : Linked(q)' => Linked(q) /\ call'[q] = call[q]
    BY <1>4, <1>5 DEF Linked
  <2>2. \A q \in Calls : Linked(q) => code[call[q].code] = "used"
    BY RowHere DEF CallFits
  <2>3. call'[k].code = call[k].code
    BY <1>4, <1>5
  <2> QED
    BY <1>1, <2>1, <2>2, <2>3 DEF Unclaimed
<1>7. CallFits(k)'
  <2>1. call'[k].code = call[k].code
    BY <1>4, <1>5
  <2> QED
    BY <1>1, <1>2, <1>3, <1>4, <1>5, <1>6, <2>1 DEF CallFits, Handling, Linked
<1> QED
  BY <1>1, <1>4, <1>7, Advance

\* The check of /link: nobody else has the chat.
LEMMA LinkReadUserKeeps ==
  ASSUME LinkInv, NEW k \in Calls, LinkReadUser(k)
  PROVE  LinkInv'
<1> DEFINE row == owner[call[k].user]
<1> DEFINE d == [call[k] EXCEPT !.pc = "commit", !.snap = row]
<1>1. /\ CodesAge /\ NoNewChat /\ stale' = stale /\ inLoop' = inLoop /\ code' = code
      /\ owner' = owner /\ Becomes(k, d) /\ call[k].pc = "readUser" /\ Others(k) = {}
  BY TablesKept, RowHere DEF LinkReadUser, Becomes
<1>2. /\ inLoop = k /\ CallKind[k] = "link" /\ call[k].code \in Codes /\ call[k].user \in Users
      /\ Unclaimed(call[k].code)
  BY <1>1, RowHere DEF CallFits, Handling, Claiming
<1>3. row \in UserRow
  BY <1>2, RowHere DEF LinkTypeOK
<1> HIDE DEF row
<1>4. /\ d \in CallRow /\ d.pc = "commit" /\ d.code = call[k].code /\ d.user = call[k].user
      /\ d.snap = row
  BY <1>3, RowHere, UserLoaded
<1> HIDE DEF d
<1>5. call'[k] = d /\ \A q \in Calls \ {k} : call'[q] = call[q]
  BY <1>1, <1>4, RowHere, OneMoves
<1>6. call'[k].code = call[k].code /\ call'[k].user = call[k].user /\ call'[k].pc = "commit"
  BY <1>4, <1>5
<1>7. Unclaimed(call[k].code)' /\ Others(k)' = {}
  <2>1. \A q \in Calls : Linked(q)' => Linked(q) /\ call'[q] = call[q]
    BY <1>4, <1>5 DEF Linked
  <2> QED
    BY <1>1, <1>2, <1>6, <2>1 DEF Unclaimed, Others
<1>8. CallFits(k)'
  BY <1>1, <1>2, <1>6, <1>7 DEF CallFits, Handling, Linked
<1> QED
  BY <1>1, <1>4, <1>8, Advance

\* The commit of /link: nobody has linked with its code, nobody else has the
\* chat, and it alone is at a handler.
LEMMA LinkCommitKeeps ==
  ASSUME LinkInv, NEW k \in Calls, LinkCommit(k)
  PROVE  LinkInv'
<1> DEFINE c == call[k].code
           u == call[k].user
           chat == CallChat[k]
           row == Flush(owner[u], call[k].snap, [chat |-> chat, linked |-> TRUE])
<1>1. /\ inLoop = k /\ CallKind[k] = "link" /\ call[k].pc = "commit" /\ c \in Codes
      /\ u \in Users /\ Unclaimed(c) /\ Others(k) = {}
  BY RowHere DEF LinkCommit, CallFits, Handling, Claiming
<1>2. chat \in Chats /\ chat # None /\ [chat |-> chat, linked |-> TRUE] \in UserRow
  BY LinkAssumption DEF LinkAssumption, UserRow
<1>3. row \in UserRow /\ row.chat \in {owner[u].chat, chat}
  <2>1. owner[u] \in UserRow /\ call[k].snap \in UserRow
    BY <1>1, RowHere, CallParts DEF LinkTypeOK
  <2> QED
    BY <1>2, <2>1, FlushParts
<1>4. /\ Becomes(k, LinkedWith(c)) /\ inLoop' = None /\ stale' = stale
      /\ owner' = [owner EXCEPT ![u] = row] /\ code' = [code EXCEPT ![c] = "used"]
  BY DEF LinkCommit, Becomes
<1> HIDE DEF row
<1>5. CodesAge
  BY <1>4, RowHere DEF CodesAge, LinkTypeOK
<1>6. /\ call' \in [Calls -> CallRow] /\ call'[k] = LinkedWith(c)
      /\ \A q \in Calls \ {k} : call'[q] = call[q]
  BY <1>1, <1>4, RowHere, OneMoves, LinkedRow
<1>7. call'[k].pc = "linked" /\ call'[k].code = c
  BY <1>1, <1>6, LinkedRow
<1>8. CallFits(k)'
  BY <1>1, <1>4, <1>7, RowHere DEF CallFits, Handling, Claiming, Linked, LinkTypeOK
<1>9. \A q \in Calls \ {k} : CallFits(q)'
  BY <1>1, <1>4, <1>5, <1>6, OthersFit
<1>10. CodeLinksOnce'
  <2>1. \A q \in Calls \ {k} : Linked(q)' => Linked(q) /\ call'[q].code = call[q].code
                                             /\ call[q].code # c
    BY <1>1, <1>6 DEF Linked, Unclaimed
  <2> QED
    BY <1>7, <2>1 DEF LinkInv, CodeLinksOnce
<1>11. ChatOfOneUser'
  <2>1. \A v \in Users \ {u} : owner'[v] = owner[v] /\ owner[v].chat # chat
    BY <1>1, <1>4, RowHere DEF Others, LinkTypeOK
  <2>2. owner'[u].chat \in {owner[u].chat, chat}
    BY <1>1, <1>3, <1>4, RowHere DEF LinkTypeOK
  <2> QED
    BY <1>1, <2>1, <2>2 DEF LinkInv, ChatOfOneUser
<1>12. LinkTypeOK'
  BY <1>3, <1>4, <1>5, <1>6, RowHere DEF LinkTypeOK, CodesAge
<1> QED
  BY <1>8, <1>9, <1>10, <1>11, <1>12 DEF LinkInv

LEMMA UnlinkChatReadKeeps ==
  ASSUME LinkInv, NEW k \in Calls, UnlinkChatRead(k)
  PROVE  LinkInv'
<1>1. /\ CodesAge /\ NoNewChat /\ stale' = stale /\ inLoop = None
      /\ CallKind[k] = "unlinkChat"
  BY TablesKept, RowHere DEF UnlinkChatRead, LoopFree
<1>2. CASE Becomes(k, Finished) /\ UNCHANGED inLoop
  BY <1>1, <1>2, AnswerKeeps
<1>3. ASSUME NEW u \in LinkedTo(CallChat[k]),
             call' = [call EXCEPT ![k] = [@ EXCEPT !.pc = "commit", !.user = u,
                                                   !.snap = owner[u]]],
             inLoop' = k
      PROVE  LinkInv'
  <2> DEFINE row == owner[u]
             d == [call[k] EXCEPT !.pc = "commit", !.user = u, !.snap = row]
  <2>1. u \in Users /\ row \in UserRow /\ Agrees(row)
    BY RowHere, LinkAssumption DEF LinkedTo, LinkTypeOK, LinkAssumption, Agrees
  <2>2. Becomes(k, d)
    BY <1>3 DEF Becomes
  <2> HIDE DEF row
  <2>3. d \in CallRow /\ d.pc = "commit" /\ d.user = u /\ d.snap = row
    <3>1. call[k] \in CallRow
      BY RowHere
    <3> QED
      BY <2>1, <3>1 DEF CallRow
  <2> HIDE DEF d
  <2>4. call'[k] = d
    BY <2>2, <2>3, RowHere, OneMoves
  <2>5. CallFits(k)'
    BY <1>1, <1>3, <2>1, <2>3, <2>4 DEF CallFits, Handling, Claiming, Linked, Agrees
  <2> QED
    BY <1>1, <1>3, <2>2, <2>3, <2>5, Advance
<1> QED
  BY <1>2, <1>3 DEF UnlinkChatRead, Becomes

\* Neither way of unlinking gives anyone a chat.
LEMMA ClearingGivesNoChat ==
  ASSUME LinkTypeOK, NEW u \in Users, NEW snap \in UserRow,
         owner' = [owner EXCEPT ![u] = Flush(@, snap, Unlinked)]
  PROVE  NoNewChat
<1> DEFINE row == Flush(owner[u], snap, Unlinked)
<1>1. row \in UserRow /\ row.chat \in {owner[u].chat, None}
  BY UnlinkedRow, FlushParts DEF LinkTypeOK
<1>2. owner' = [owner EXCEPT ![u] = row]
  OBVIOUS
<1> HIDE DEF row
<1> QED
  BY <1>1, <1>2 DEF NoNewChat, LinkTypeOK

LEMMA ClearKeeps ==
  ASSUME LinkInv, NEW k \in Calls, UnlinkChatCommit(k) \/ UnlinkUserCommit(k)
  PROVE  LinkInv'
<1>1. /\ call[k].pc = "commit" /\ CallKind[k] \in {"unlinkChat", "unlinkUser"}
      /\ CallKind[k] = "unlinkUser" => inLoop' = inLoop
      /\ CallKind[k] = "unlinkChat" => inLoop' = None
      /\ Becomes(k, Finished) /\ code' = code /\ stale' = stale
      /\ owner' = [owner EXCEPT ![call[k].user] = Flush(@, call[k].snap, Unlinked)]
  BY DEF UnlinkChatCommit, UnlinkUserCommit, Becomes
<1>2. call[k].user \in Users /\ (CallKind[k] = "unlinkChat" => inLoop = k)
  BY <1>1, RowHere DEF CallFits, Handling
<1>3. NoNewChat
  BY <1>1, <1>2, RowHere, CallParts, ClearingGivesNoChat
<1>4. CodesAge
  BY <1>1, RowHere DEF CodesAge, LinkTypeOK
<1> QED
  BY <1>1, <1>2, <1>3, <1>4, AnswerKeeps

LEMMA UnlinkUserLoadKeeps ==
  ASSUME LinkInv, NEW k \in Calls, UnlinkUserLoad(k)
  PROVE  LinkInv'
<1> DEFINE u == CallUser[k]
           row == owner[u]
           d == [call[k] EXCEPT !.pc = "commit", !.user = u, !.snap = row]
<1>1. /\ CodesAge /\ NoNewChat /\ stale' = stale /\ inLoop' = inLoop /\ Becomes(k, d)
      /\ CallKind[k] = "unlinkUser"
  BY TablesKept, RowHere DEF UnlinkUserLoad, Becomes
<1>2. u \in Users /\ row \in UserRow
  BY RowHere, LinkAssumption DEF LinkTypeOK, LinkAssumption
<1> HIDE DEF u, row
<1>3. d \in CallRow /\ d.pc = "commit" /\ d.user = u
  <2>1. call[k] \in CallRow
    BY RowHere
  <2> QED
    BY <1>2, <2>1 DEF CallRow
<1> HIDE DEF d
<1>4. call'[k] = d
  BY <1>1, <1>3, RowHere, OneMoves
<1>5. CallFits(k)'
  BY <1>1, <1>2, <1>3, <1>4 DEF CallFits, Handling, Claiming, Linked
<1> QED
  BY <1>1, <1>3, <1>5, Advance

LEMMA InvalidateReadKeeps ==
  ASSUME LinkInv, NEW k \in Calls, InvalidateRead(k)
  PROVE  LinkInv'
<1> DEFINE F == {c \in Codes : CodeOwner[c] = CallUser[k] /\ code[c] = "unused"}
           d == [call[k] EXCEPT !.pc = "commit", !.found = F]
<1>1. /\ CodesAge /\ NoNewChat /\ stale' = stale /\ inLoop' = inLoop /\ Becomes(k, d)
      /\ CallKind[k] = "invalidate"
  BY TablesKept, RowHere DEF InvalidateRead, Becomes
<1>2. F \in SUBSET Codes
  OBVIOUS
<1> HIDE DEF F
<1>3. d \in CallRow /\ d.pc = "commit"
  BY <1>2, RowHere, CodesFound
<1> HIDE DEF d
<1>4. call'[k] = d
  BY <1>1, <1>3, RowHere, OneMoves
<1>5. CallFits(k)'
  BY <1>1, <1>3, <1>4 DEF CallFits, Handling, Claiming, Linked
<1> QED
  BY <1>1, <1>3, <1>5, Advance

\* Invalidation may mark a code that a /link claims: it linked nobody.
LEMMA InvalidateCommitKeeps ==
  ASSUME LinkInv, NEW k \in Calls, InvalidateCommit(k)
  PROVE  LinkInv'
<1>1. Becomes(k, Finished) /\ UNCHANGED <<stale, owner, inLoop>>
  BY DEF InvalidateCommit, Becomes
<1>2. CodesAge /\ NoNewChat
  BY RowHere DEF InvalidateCommit, CodesAge, NoNewChat, LinkTypeOK
<1> QED
  BY <1>1, <1>2, AnswerKeeps

\* A step that moves no call, takes no code back and leaves the users alone.
LEMMA CodesStepKeeps ==
  ASSUME LinkInv, CodesAge, stale' \in SUBSET Codes, UNCHANGED <<owner, inLoop, call>>
  PROVE  LinkInv'
<1>1. \A k \in Calls : CallFits(k)'
  <2> SUFFICES ASSUME NEW k \in Calls PROVE CallFits(k)'
    OBVIOUS
  <2>1. CallFits(k)
    BY RowHere
  <2>2. Linked(k) => code'[call[k].code] = "used"
    BY <2>1 DEF CallFits, CodesAge, Linked
  <2>3. Claiming(k) => Unclaimed(call[k].code)'
    BY <2>1 DEF CallFits, Unclaimed, CodesAge, Linked
  <2> QED
    BY <2>1, <2>2, <2>3 DEF CallFits, Handling, Claiming, Linked, Others
<1>2. LinkTypeOK'
  BY DEF LinkInv, LinkTypeOK, CodesAge
<1> QED
  BY <1>1, <1>2 DEF LinkInv, CodeLinksOnce, ChatOfOneUser, Linked

LEMMA CodesKeep ==
  ASSUME LinkInv, (\E c \in Codes : CreateCode(c)) \/ \E c \in Expiring : Expire(c)
  PROVE  LinkInv'
<1>1. CodesAge
  BY DEF LinkInv, LinkTypeOK, CodesAge, CreateCode, Expire
<1>2. stale' \in SUBSET Codes /\ UNCHANGED <<owner, inLoop, call>>
  BY LinkAssumption DEF LinkInv, LinkTypeOK, CreateCode, Expire, LinkAssumption
<1> QED
  BY <1>1, <1>2, CodesStepKeeps

LEMMA LinkInitInv == LinkInit => LinkInv
<1> SUFFICES ASSUME LinkInit PROVE LinkInv
  OBVIOUS
<1>1. LinkTypeOK
  BY FreshRows, UnlinkedRow DEF LinkInit, LinkTypeOK
<1>2. \A k \in Calls : call[k].pc = "new"
  BY FreshRows DEF LinkInit
<1>3. \A u \in Users : owner[u].chat = None
  BY UnlinkedRow DEF LinkInit
<1> QED
  BY <1>1, <1>2, <1>3
  DEF LinkInv, CallFits, Handling, Claiming, Linked, CodeLinksOnce, ChatOfOneUser

\* Who links holds the loop from its check to its commit, and only a commit of
\* /link gives a user a chat.
THEOREM LinksInvariant == LinkSpec => []LinkInv
<1>1. LinkInv /\ [LinkNext]_linkVars => LinkInv'
  <2> SUFFICES ASSUME LinkInv, [LinkNext]_linkVars PROVE LinkInv'
    OBVIOUS
  <2>1. CASE UNCHANGED linkVars
    <3>1. CodesAge /\ stale' \in SUBSET Codes
      BY <2>1 DEF linkVars, LinkInv, LinkTypeOK, CodesAge
    <3> QED
      BY <2>1, <3>1, CodesStepKeeps DEF linkVars
  <2>2. ASSUME NEW k \in Calls, LinkStep(k)
        PROVE  LinkInv'
    BY <2>2, LinkStartKeeps, LinkReadCodeKeeps, RejectKeeps, LinkReadUserKeeps,
       LinkCommitKeeps, UnlinkChatReadKeeps, UnlinkUserLoadKeeps, ClearKeeps,
       InvalidateReadKeeps, InvalidateCommitKeeps
    DEF LinkStep
  <2> QED
    BY <2>1, <2>2, CodesKeep DEF LinkNext
<1> QED
  BY <1>1, LinkInitInv, PTL DEF LinkSpec

\* The rows of users and codes and what handlers hold of them stay well typed,
\* through any interleaving of link_command, unlink_command and the endpoints.
THEOREM LinksTypeCorrect == LinkSpec => []LinkTypeOK
<1>1. LinkInv => LinkTypeOK
  BY DEF LinkInv
<1> QED
  BY <1>1, LinksInvariant, PTL

\* A code that link_command has read as unused is used by that command alone:
\* no two commands ever link with one code.
THEOREM OneLinkPerCode == LinkSpec => []CodeLinksOnce
<1>1. LinkInv => CodeLinksOnce
  BY DEF LinkInv
<1> QED
  BY <1>1, LinksInvariant, PTL

\* link_command's check that the chat has no account still holds when it
\* commits: no two accounts ever have one chat.
THEOREM OneUserPerChat == LinkSpec => []ChatOfOneUser
<1>1. LinkInv => ChatOfOneUser
  BY DEF LinkInv
<1> QED
  BY <1>1, LinksInvariant, PTL

\* A commit of /link over a row that agrees leaves it so, unless the row was
\* cleared since it was loaded.
LEMMA LinkingAgrees ==
  ASSUME NEW row \in UserRow, NEW snap \in UserRow, NEW chat \in Chats, Agrees(row),
         row # Unlinked \/ snap = Unlinked
  PROVE  Agrees(Flush(row, snap, [chat |-> chat, linked |-> TRUE]))
<1> DEFINE new == [chat |-> chat, linked |-> TRUE]
           f == Flush(row, snap, new)
<1>1. new \in UserRow /\ new.chat = chat /\ new.linked = TRUE /\ chat # None
  BY LinkAssumption DEF UserRow, LinkAssumption
<1> HIDE DEF new
<1>2. /\ f.chat = IF new.chat = snap.chat THEN row.chat ELSE new.chat
      /\ f.linked = IF new.linked = snap.linked THEN row.linked ELSE new.linked
  BY <1>1, FlushParts
<1>3. Agrees(f)
  <2> HIDE DEF f
  <2>1. CASE snap = Unlinked
    BY <1>1, <1>2, <2>1, UnlinkedRow DEF Agrees
  <2>2. CASE row # Unlinked
    <3>1. row.chat # None \/ row.linked
      BY <2>2, UserParts DEF UserRow, Unlinked
    <3> QED
      BY <1>1, <1>2, <3>1, UserParts DEF Agrees
  <2> QED
    BY <2>1, <2>2
<1> QED
  BY <1>3 DEF new

\* Clearing a row from a load that agreed leaves it in agreement.
LEMMA ClearingAgrees ==
  ASSUME NEW row \in UserRow, NEW snap \in UserRow, Agrees(row), Agrees(snap)
  PROVE  Agrees(Flush(row, snap, Unlinked))
<1> DEFINE f == Flush(row, snap, Unlinked)
<1>1. /\ f.chat = IF Unlinked.chat = snap.chat THEN row.chat ELSE Unlinked.chat
      /\ f.linked = IF Unlinked.linked = snap.linked THEN row.linked ELSE Unlinked.linked
  BY UnlinkedRow, FlushParts
<1>2. Agrees(f)
  <2> HIDE DEF f
  <2> QED
    BY <1>1, UserParts, UnlinkedRow DEF Agrees
<1> QED
  BY <1>2

\* The columns of a user part in the two ways that OnlyStaleLinksPart names and
\* in no other.
THEOREM StaleLinksPart == LinkSpec => OnlyStaleLinksPart
<1> DEFINE Parts(u, k) ==
             /\ call[k].pc = "commit" /\ call'[k].pc # "commit" /\ call[k].user = u
             /\ \/ CallKind[k] = "link" /\ owner[u] = Unlinked /\ call[k].snap # Unlinked
                \/ CallKind[k] = "unlinkUser" /\ ~Agrees(call[k].snap)
           Confined == \A u \in Users : Agrees(owner[u]) /\ ~Agrees(owner'[u]) =>
                         \E k \in Calls : Parts(u, k)
<1>1. LinkInv /\ [LinkNext]_linkVars => [Confined]_linkVars
  <2> SUFFICES ASSUME LinkInv, LinkNext, NEW u \in Users, Agrees(owner[u]), ~Agrees(owner'[u])
               PROVE  \E k \in Calls : Parts(u, k)
    OBVIOUS
  <2>1. owner' # owner
    BY DEF Agrees
  <2>2. PICK k \in Calls : LinkCommit(k) \/ UnlinkChatCommit(k) \/ UnlinkUserCommit(k)
    BY <2>1 DEF LinkNext, LinkStep, CreateCode, Expire, LinkStart, LinkReadCode, LinkBadCode,
       LinkReadUser, LinkTaken, Reject, UnlinkChatRead, UnlinkUserLoad, InvalidateRead,
       InvalidateCommit
  <2> DEFINE new == IF CallKind[k] = "link" THEN [chat |-> CallChat[k], linked |-> TRUE]
                                            ELSE Unlinked
             row == Flush(owner[call[k].user], call[k].snap, new)
  <2>3. /\ call[k].pc = "commit" /\ owner' = [owner EXCEPT ![call[k].user] = row]
        /\ CallKind[k] \in {"link", "unlinkChat", "unlinkUser"}
    BY <2>2 DEF LinkCommit, UnlinkChatCommit, UnlinkUserCommit
  <2>4. call[k].user \in Users /\ (CallKind[k] = "unlinkChat" => Agrees(call[k].snap))
    BY <2>3, RowHere DEF CallFits
  <2>5. call'[k].pc # "commit"
    <3>1. \/ Becomes(k, Finished)
          \/ Becomes(k, LinkedWith(call[k].code)) /\ call[k].code \in Codes
      BY <2>2, RowHere DEF LinkCommit, UnlinkChatCommit, UnlinkUserCommit, Becomes, CallFits, Claiming
    <3> QED
      BY <3>1, RowHere, FreshRows, LinkedRow DEF Becomes, LinkTypeOK
  <2>6. owner[u] \in UserRow /\ call[k].snap \in UserRow
    BY RowHere, CallParts DEF LinkTypeOK
  <2>7. call[k].user = u /\ ~Agrees(row)
    <3> HIDE DEF row
    <3> QED
      BY <2>3, <2>4, RowHere DEF LinkTypeOK
  <2>8. CASE CallKind[k] = "link"
    <3>1. owner[u] = Unlinked /\ call[k].snap # Unlinked
      BY <2>6, <2>7, <2>8, LinkingAgrees, LinkAssumption DEF LinkAssumption
    <3> QED
      BY <2>3, <2>5, <2>7, <2>8, <3>1
  <2>9. CASE CallKind[k] # "link"
    <3>1. ~Agrees(call[k].snap)
      BY <2>6, <2>7, <2>9, ClearingAgrees
    <3> QED
      BY <2>3, <2>4, <2>5, <2>7, <2>9, <3>1
  <2> QED
    BY <2>8, <2>9
<1> QED
  BY <1>1, LinksInvariant, PTL DEF LinkSpec, OnlyStaleLinksPart
=============================================================================
