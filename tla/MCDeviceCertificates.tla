------------------------- MODULE MCDeviceCertificates -------------------------
(***************************************************************************)
(* A small instance of DeviceCertificates: two runs of `ztna cert` and a   *)
(* few stops of the control plane and the gateway.                         *)
(***************************************************************************)
EXTENDS DeviceCertificates

MCRuns == 1..2
=============================================================================
