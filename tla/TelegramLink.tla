---------------------------- MODULE TelegramLink ----------------------------
(***************************************************************************)
(* Linking a Telegram chat to an account: /link and /unlink of the bot     *)
(* (app/handlers/auth.py) and the endpoints for link codes and unlinking   *)
(* (app/api/auth.py).                                                      *)
(*                                                                         *)
(* The bot's handlers are coroutines that do not await between their first *)
(* query and their commit: only worker threads, which run the endpoints,   *)
(* come in between.  Every session flushes the columns that differ from    *)
(* what it loaded.                                                         *)
(***************************************************************************)
EXTENDS Naturals

CONSTANTS Users, Chats, Codes, Calls, None,
          CodeOwner,    \* who asked for a code
          CallKind,     \* what a call asks for
          CallChat,     \* the chat a command is sent in
          CallUser,     \* who is logged in at an endpoint
          Expiring      \* bound: the codes that may expire

ASSUME LinkAssumption ==
  /\ CodeOwner \in [Codes -> Users]
  /\ CallKind \in [Calls -> {"link", "unlinkChat", "unlinkUser", "invalidate"}]
  /\ CallChat \in [Calls -> Chats] /\ CallUser \in [Calls -> Users]
  /\ None \notin Users \cup Chats \cup Codes \cup Calls
  /\ Expiring \subseteq Codes

VARIABLES code,     \* telegram_link_codes: absent, unused or used
          stale,    \* codes past their expires_at
          owner,    \* users.telegram_chat_id and is_telegram_linked
          inLoop,   \* the command whose handler is on the event loop
          call      \* where a call is, its code, and the user it loaded

linkVars == <<code, stale, owner, inLoop, call>>

UserRow == [chat : Chats \cup {None}, linked : BOOLEAN]
\* Mutant: the chat is cleared to the empty string.
EmptyChat == [chat |-> "", linked |-> FALSE]
Unlinked == [chat |-> None, linked |-> FALSE]

CallRow == [pc : {"new", "readCode", "readUser", "commit", "linked", "done"},
            code : Codes \cup {None}, user : Users \cup {None},
            snap : UserRow, found : SUBSET Codes]
NotCalled == [pc |-> "new", code |-> None, user |-> None, snap |-> Unlinked, found |-> {}]
\* Of a call that was answered only the code it linked with matters.
Finished == [NotCalled EXCEPT !.pc = "done"]
LinkedWith(c) == [NotCalled EXCEPT !.pc = "linked", !.code = c]

LinkTypeOK ==
  /\ code \in [Codes -> {"absent", "unused", "used"}] /\ stale \subseteq Codes
  /\ owner \in [Users -> UserRow]
  /\ inLoop \in Calls \cup {None}
  /\ call \in [Calls -> CallRow]

LinkInit ==
  /\ code = [c \in Codes |-> "absent"] /\ stale = {}
  /\ owner = [u \in Users |-> Unlinked]
  /\ inLoop = None
  /\ call = [k \in Calls |-> NotCalled]

-----------------------------------------------------------------------------
\* create_telegram_link_code: a thread's INSERT; older codes stay valid.
CreateCode(c) ==
  /\ code[c] = "absent"
  /\ code' = [code EXCEPT ![c] = "unused"]
  /\ UNCHANGED <<stale, owner, inLoop, call>>

Expire(c) ==
  /\ code[c] # "absent" /\ c \notin stale
  /\ stale' = stale \cup {c}
  /\ UNCHANGED <<code, owner, inLoop, call>>

\* get_linked_user, and the query of /unlink.
LinkedTo(chat) == {u \in Users : owner[u].chat = chat /\ owner[u].linked}

\* A handler starts when the loop is free and has it until it replies.
\* Mutant: it awaits before it commits.
NeverBusy == TRUE
LoopFree == inLoop = None

\* /link CODE in a chat that is not linked yet; otherwise a reply and no more.
LinkStart(k, c) ==
  /\ call[k].pc = "new" /\ CallKind[k] = "link" /\ LoopFree
  /\ IF LinkedTo(CallChat[k]) = {}
       THEN /\ inLoop' = k
            /\ call' = [call EXCEPT ![k] = [@ EXCEPT !.pc = "readCode", !.code = c]]
       ELSE /\ call' = [call EXCEPT ![k] = Finished]
            /\ UNCHANGED inLoop
  /\ UNCHANGED <<code, stale, owner>>

Reject(k) ==
  /\ call' = [call EXCEPT ![k] = Finished]
  /\ inLoop' = None
  /\ UNCHANGED <<code, stale, owner>>

LinkReadCode(k) ==
  /\ call[k].pc = "readCode"
  /\ code[call[k].code] = "unused" /\ call[k].code \notin stale
  /\ call' = [call EXCEPT ![k] = [@ EXCEPT !.pc = "readUser", !.user = CodeOwner[call[k].code]]]
  /\ UNCHANGED <<code, stale, owner, inLoop>>

LinkBadCode(k) ==
  /\ call[k].pc = "readCode"
  /\ code[call[k].code] # "unused" \/ call[k].code \in stale
  /\ Reject(k)

\* Users whose chat this is, linked or not, other than the code's.
\* Mutant: only the linked ones are looked for.
LinkedOthers(k) == LinkedTo(CallChat[k]) \ {call[k].user}
Others(k) == {u \in Users : owner[u].chat = CallChat[k]} \ {call[k].user}

LinkReadUser(k) ==
  /\ call[k].pc = "readUser" /\ Others(k) = {}
  /\ call' = [call EXCEPT ![k] = [@ EXCEPT !.pc = "commit", !.snap = owner[call[k].user]]]
  /\ UNCHANGED <<code, stale, owner, inLoop>>

LinkTaken(k) ==
  /\ call[k].pc = "readUser" /\ Others(k) # {}
  /\ Reject(k)

\* What a flush makes of a row: the columns that differ from the snapshot.
\* Mutant: is_telegram_linked is not assigned.
FlushChat(row, snap, new) == [row EXCEPT !.chat = IF new.chat = snap.chat THEN @ ELSE new.chat]
Flush(row, snap, new) ==
  [chat |-> IF new.chat = snap.chat THEN row.chat ELSE new.chat,
   linked |-> IF new.linked = snap.linked THEN row.linked ELSE new.linked]

LinkCommit(k) ==
  /\ call[k].pc = "commit" /\ CallKind[k] = "link"
  /\ owner' = [owner EXCEPT ![call[k].user] =
                 Flush(@, call[k].snap, [chat |-> CallChat[k], linked |-> TRUE])]
  /\ code' = [code EXCEPT ![call[k].code] = "used"]
  /\ call' = [call EXCEPT ![k] = LinkedWith(@.code)]
  /\ inLoop' = None
  /\ UNCHANGED stale

\* /unlink in a chat, linked or not.
UnlinkChatRead(k) ==
  /\ call[k].pc = "new" /\ CallKind[k] = "unlinkChat" /\ LoopFree
  /\ \/ /\ LinkedTo(CallChat[k]) = {}
        /\ call' = [call EXCEPT ![k] = Finished]
        /\ UNCHANGED inLoop
     \/ \E u \in LinkedTo(CallChat[k]) :
          /\ call' = [call EXCEPT ![k] = [@ EXCEPT !.pc = "commit", !.user = u,
                                                   !.snap = owner[u]]]
          /\ inLoop' = k
  /\ UNCHANGED <<code, stale, owner>>

UnlinkChatCommit(k) ==
  /\ call[k].pc = "commit" /\ CallKind[k] = "unlinkChat"
  /\ owner' = [owner EXCEPT ![call[k].user] = Flush(@, call[k].snap, Unlinked)]
  /\ call' = [call EXCEPT ![k] = Finished]
  /\ inLoop' = None
  /\ UNCHANGED <<code, stale>>

\* unlink_telegram: the dependency loads the user in one thread, the endpoint
\* writes in another.
UnlinkUserLoad(k) ==
  /\ call[k].pc = "new" /\ CallKind[k] = "unlinkUser"
  /\ call' = [call EXCEPT ![k] = [@ EXCEPT !.pc = "commit", !.user = CallUser[k],
                                           !.snap = owner[CallUser[k]]]]
  /\ UNCHANGED <<code, stale, owner, inLoop>>

UnlinkUserCommit(k) ==
  /\ call[k].pc = "commit" /\ CallKind[k] = "unlinkUser"
  /\ owner' = [owner EXCEPT ![call[k].user] = Flush(@, call[k].snap, Unlinked)]
  /\ call' = [call EXCEPT ![k] = Finished]
  /\ UNCHANGED <<code, stale, inLoop>>

\* invalidate_telegram_link_codes: select the unused ones, then mark them.
InvalidateRead(k) ==
  /\ call[k].pc = "new" /\ CallKind[k] = "invalidate"
  /\ call' = [call EXCEPT ![k] =
       [@ EXCEPT !.pc = "commit",
                 !.found = {c \in Codes : CodeOwner[c] = CallUser[k] /\ code[c] = "unused"}]]
  /\ UNCHANGED <<code, stale, owner, inLoop>>

InvalidateCommit(k) ==
  /\ call[k].pc = "commit" /\ CallKind[k] = "invalidate"
  /\ code' = [c \in Codes |-> IF c \in call[k].found THEN "used" ELSE code[c]]
  /\ call' = [call EXCEPT ![k] = Finished]
  /\ UNCHANGED <<stale, owner, inLoop>>

LinkStep(k) ==
  \/ (\E c \in Codes : LinkStart(k, c)) \/ LinkReadCode(k) \/ LinkBadCode(k)
  \/ LinkReadUser(k) \/ LinkTaken(k) \/ LinkCommit(k)
  \/ UnlinkChatRead(k) \/ UnlinkChatCommit(k) \/ UnlinkUserLoad(k) \/ UnlinkUserCommit(k)
  \/ InvalidateRead(k) \/ InvalidateCommit(k)

LinkNext ==
  \/ \E c \in Codes : CreateCode(c)
  \/ \E c \in Expiring : Expire(c)
  \/ \E k \in Calls : LinkStep(k)

LinkSpec == LinkInit /\ [][LinkNext]_linkVars

-----------------------------------------------------------------------------
Linked(k) == call[k].pc = "linked"

\* A code links one chat, whoever else tries it meanwhile.
CodeLinksOnce ==
  \A k, q \in Calls : Linked(k) /\ Linked(q) /\ call[k].code = call[q].code => k = q

\* A chat belongs to one account: the check of /link never lets a commit run
\* into the UNIQUE constraint of users.telegram_chat_id.
ChatOfOneUser ==
  \A u, v \in Users : owner[u].chat # None /\ owner[u].chat = owner[v].chat => u = v

Agrees(row) == row.linked <=> row.chat # None

\* The two columns of a user part only when /link commits over a row that an
\* unlinking thread cleared after /link had loaded it, or when such a thread
\* commits that had loaded columns already parted: no other interleaving of
\* codes, commands and endpoints leaves a chat that is set but not linked, which
\* /link refuses as taken and /unlink does not find.
OnlyStaleLinksPart ==
  [][\A u \in Users : Agrees(owner[u]) /\ ~Agrees(owner'[u]) =>
       \E k \in Calls :
         /\ call[k].pc = "commit" /\ call'[k].pc # "commit" /\ call[k].user = u
         /\ \/ CallKind[k] = "link" /\ owner[u] = Unlinked /\ call[k].snap # Unlinked
            \/ CallKind[k] = "unlinkUser" /\ ~Agrees(call[k].snap)]_linkVars
=============================================================================
