------------------------------ MODULE MCGateway ------------------------------
(***************************************************************************)
(* Small instances of Gateway.  Two connections of one subject, on the     *)
(* same certificate or on two.                                             *)
(***************************************************************************)
EXTENDS Gateway

MCConns == {"c1", "c2"}
MCSubOf == [c \in MCConns |-> "alice"]
MCSerialOf == [c1 |-> "n1", c2 |-> "n2"]
MCOneSerial == [c \in MCConns |-> "n1"]
=============================================================================
