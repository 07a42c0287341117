------------------------------ MODULE MCSerial -------------------------------
(* Instances of SerialUsefulKey for TLC: one caller, every method. *)
EXTENDS SerialUsefulKey, TLC

CONSTANTS c1, k1, k2, h1, h2, s1

AllPlugins == <<"enable-disable", "usage-limits-per-key", "permissions-scopes">>
EveryOp == AllOps
NeverOr0Or2 == {Null, 0, 2}
NullOr1 == {Null, 1}
BeforeAndAfter == {1, 0, -1}

(* Ids and hashes are interchangeable: nothing orders them. *)
Symmetry == Permutations(Ids) \cup Permutations(Hashes)
=============================================================================
