-------------------------- MODULE MCUpstreamClient --------------------------
(***************************************************************************)
(* One call with two keys and three attempts for what concerns a single    *)
(* call; two calls on one key, where one failure trips a breaker, for what *)
(* concerns the half-open probe they compete for.                          *)
(***************************************************************************)
EXTENDS UpstreamClient, TLC

CONSTANTS c1, c2, k1, k2

Symmetry == Permutations({c1, c2})
=============================================================================
