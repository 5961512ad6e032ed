---------------------------- MODULE MCJwksValidator ----------------------------
(* Two requests over a key that is rotated, small enough for TLC. *)
EXTENDS JwksValidator, TLC

CONSTANTS r1, r2, k1, k2

MCRequests == {r1, r2}
MCKids == {k1, k2}
MCFirst == {k1}
MCSymmetry == Permutations(MCRequests)
=============================================================================
