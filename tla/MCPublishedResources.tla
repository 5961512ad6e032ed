------------------------- MODULE MCPublishedResources -------------------------
(***************************************************************************)
(* A small instance of PublishedResources: two handlers, one name, two     *)
(* backends and a route between them; caches of decisions and of resources *)
(* that expire.                                                            *)
(***************************************************************************)
EXTENDS PublishedResources, TLC

CONSTANTS h1, h2, k1, k2

MCHandlers == {h1, h2}
MCKeys == {k1, k2}
MCRoutes == k1 :> k2 @@ k2 :> k1
MCSymmetry == Permutations(MCHandlers) \cup Permutations(MCKeys)
=============================================================================
