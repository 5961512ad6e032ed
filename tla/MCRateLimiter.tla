----------------------------- MODULE MCRateLimiter -----------------------------
(***************************************************************************)
(* A small instance of RateLimiter: two keys, buckets of two tokens that   *)
(* are full again exactly when their key may be deleted.                   *)
(***************************************************************************)
EXTENDS RateLimiter

MCKeys == {"k1", "k2"}
=============================================================================
