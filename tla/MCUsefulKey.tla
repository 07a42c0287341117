----------------------------- MODULE MCUsefulKey -----------------------------
(* Instances of UsefulKey for TLC: two callers that race. *)
EXTENDS UsefulKeyClaims, TLC

CONSTANTS c1, c2, k1, k2, h1, h2, s1

(* The orders in which an application may register the plugins. *)
LimitsFirst == <<"usage-limits-per-key", "enable-disable", "permissions-scopes">>
NoPlugins == <<>>

NullOr0 == {Null, 0}
NullOnly == {Null}

SweepOps == {"createKey", "verifyKey", "extendKeyExpiry", "sweepExpired"}
=============================================================================
