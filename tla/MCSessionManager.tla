--------------------------- MODULE MCSessionManager ---------------------------
(***************************************************************************)
(* Small instance of SessionManager: two sessions of one subject on one    *)
(* certificate, a third of another subject on the same certificate, and    *)
(* room for one session per subject.                                       *)
(***************************************************************************)
EXTENDS SessionManager

MCSessions == {"s1", "s2", "s3"}
MCSubOf == [s1 |-> "alice", s2 |-> "alice", s3 |-> "bob"]
MCSerialOf == [s1 |-> "n1", s2 |-> "n2", s3 |-> "n1"]
=============================================================================
