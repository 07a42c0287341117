------------------------------ MODULE MCKeyRaces ------------------------------
(* Instances of UsageLedger for TLC: two callers that race on one id. *)
EXTENDS UsageLedger, TLC

CONSTANTS c1, c2, k1, h1, h2

LimitsAndSwitch == <<"usage-limits-per-key", "enable-disable">>
NullOr2 == {Null, 2}
RaceOps == {"createKey", "verifyKey", "extendKeyExpiry", "revokeKey",
            "disableKey", "setScopes"}

Symmetry == Permutations(Callers) \cup Permutations(Hashes)
=============================================================================
