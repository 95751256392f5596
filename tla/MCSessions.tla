----------------------------- MODULE MCSessions -----------------------------
(* Logins, refreshes and sign-outs of one user for TLC. *)
EXTENDS Sessions

MCCallKind == [r \in Calls |->
  CASE r \in {"login1", "login2"} -> "login"
    [] r = "logout" -> "logout"
    [] r = "everywhere" -> "logoutAll"
    [] OTHER -> "refresh"]
MCCallUser == [r \in Calls |-> "u1"]
=============================================================================
