----------------------------- MODULE MCClientTokens -----------------------------
(***************************************************************************)
(* A small instance of ClientTokens: two commands at once, so that saves,  *)
(* refreshes and logins meet, with tokens that live one unit longer than   *)
(* the margin and an exchange that may take as long as the margin.         *)
(***************************************************************************)
EXTENDS ClientTokens

MCProcs == {"p1", "p2"}
=============================================================================
