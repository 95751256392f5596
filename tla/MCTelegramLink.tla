--------------------------- MODULE MCTelegramLink ---------------------------
(* Two users, two chats, and calls named for what they do, for TLC. *)
EXTENDS TelegramLink, TLC

CONSTANT code3   \* the one code of the second user; the others are alike

MCCodeOwner == [c \in Codes |-> IF c = code3 THEN "u2" ELSE "u1"]
MCCallKind == [k \in Calls |->
  CASE k \in {"linkA", "linkA2", "linkB"} -> "link"
    [] k = "unlinkA" -> "unlinkChat"
    [] k \in {"webUnlink", "webUnlink2"} -> "unlinkUser"
    [] OTHER -> "invalidate"]
MCCallChat == [k \in Calls |-> IF k = "linkB" THEN "chatB" ELSE "chatA"]
MCCallUser == [k \in Calls |-> "u1"]
CodeSymmetry == Permutations(Codes \ {code3})
=============================================================================
