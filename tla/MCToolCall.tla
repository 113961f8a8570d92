----------------------------- MODULE MCToolCall -----------------------------
(* An instance of ToolCall: a token for each of three people, one of whom  *)
(* has no login.                                                           *)
EXTENDS ToolCall, TLC

CONSTANTS a1, a2, a3, p1, p2, p3, k1, k2

People == a1 :> p1 @@ a2 :> p2 @@ a3 :> p3
Logins == p1 :> k1 @@ p2 :> k2 @@ p3 :> None
=============================================================================
