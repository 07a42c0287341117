----------------------------- MODULE MCRateLimit -----------------------------
(* Instances of RateLimit for TLC. *)
EXTENDS RateLimit, TLC

CONSTANTS c1, c2

Symmetry == Permutations(Callers)
=============================================================================
