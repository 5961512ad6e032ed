-------------------------------- MODULE MCRelay --------------------------------
(***************************************************************************)
(* A small instance of Relay: two chunks each way over links that hold     *)
(* one, so that writers block, chunks are in a copy's hand when a side     *)
(* closes, and closings meet data in both directions.                      *)
(***************************************************************************)
EXTENDS Relay
=============================================================================
