------------------------------- MODULE MCRedis -------------------------------
(* Instances of RedisKeyStore for TLC. *)
EXTENDS RedisKeyStore, TLC

CONSTANTS c1, c2, c3, k1, h1

NullOr1 == {Null, 1}
Symmetry == Permutations(Callers) \cup Permutations(Ids) \cup Permutations(Hashes)
=============================================================================
