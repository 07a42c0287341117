-------------------------------- MODULE MCDog --------------------------------
(* An instance of DogApi for TLC. *)
EXTENDS DogApi, TLC

CONSTANTS w1, w2, k1, k2, a1, n1

ScopeNames == {"premium", "admin"}
Premium == {{"premium"}}
Symmetry == Permutations(Callers)
=============================================================================
