-------------------------- MODULE MCSessionTelemetry --------------------------
(***************************************************************************)
(* A small instance of SessionTelemetry: the sessions do not interact, two  *)
(* of them show the requests of different sessions interleaved.            *)
(***************************************************************************)
EXTENDS SessionTelemetry

MCSessions == {"s1", "s2"}
=============================================================================
