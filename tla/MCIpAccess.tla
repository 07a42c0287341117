----------------------------- MODULE MCIpAccess -----------------------------
(* An instance of IpAccessControl for TLC. *)
EXTENDS IpAccessControl, TLC

CONSTANTS i1, i2, c1, c2, x, stranger

Symmetry == Permutations(Instances) \cup Permutations(Callers)
=============================================================================
