----------------------------- MODULE KeyService ------------------------------
(***************************************************************************)
(* What UsefulKey is to a caller who waits for each answer: a service that *)
(* performs a call in one step on the current state of the key, and whose  *)
(* answer is determined by that state, up to the choice of the keys that a *)
(* full batch of a sweep removes and to plugins that block a verification. *)
(*                                                                         *)
(* It is the service of the documentation but for three points where the   *)
(* code decides otherwise, marked below by what the documentation says.    *)
(***************************************************************************)
EXTENDS Integers, Sequences, FiniteSets

CONSTANTS Callers, Ids, Null, AutoDelete,
          Plugins   (* The plugins installed, in the order of registration. *)

VARIABLES
  keys,     (* The key of each id, or Null.                                  *)
  clock,    (* The time.                                                     *)
  issued,   (* Hashes of the keys handed out.                                *)
  asked,    (* The request of each caller not yet performed, or Null.        *)
  answer    (* The last answer to each caller, "none" until there is one.    *)

svars == <<keys, clock, issued, asked, answer>>

Keys == {keys[i] : i \in Ids} \ {Null}

Init ==
  /\ keys = [i \in Ids |-> Null]
  /\ clock = 1
  /\ issued = {}
  /\ asked = [c \in Callers |-> Null]
  /\ answer = [c \in Callers |-> "none"]

Reply(c, a) ==
  /\ asked' = [asked EXCEPT ![c] = Null]
  /\ answer' = [answer EXCEPT ![c] = a]
  /\ UNCHANGED <<clock, issued>>

Ask(c) ==
  /\ asked[c] = Null /\ asked'[c] # Null
  /\ asked' = [asked EXCEPT ![c] = asked'[c]]
  /\ answer' = [answer EXCEPT ![c] = "none"]
  /\ UNCHANGED <<keys, clock, issued>>

-----------------------------------------------------------------------------
(* An id that is free gets a new key, under a hash never issued before. *)
Create(c) ==
  /\ asked[c] = Null
  /\ asked' = asked
  /\ \E h \in issued' \ issued :
       /\ issued' = issued \cup {h}
       /\ \E i \in Ids :
            IF keys[i] # Null
              THEN answer' = [answer EXCEPT ![c] = "error"] /\ UNCHANGED keys
              ELSE /\ keys' = [keys EXCEPT ![i] = keys'[i]]
                   /\ keys'[i] # Null
                   /\ keys'[i].keyHash = h /\ ~keys'[i].revoked /\ ~keys'[i].disabled
                   /\ answer' = [answer EXCEPT ![c] = "ok"]
  /\ UNCHANGED clock

(* Documented (usefulkey.ts:591 and :700): "If the key doesn't exist, the    *)
(* operation will fail".  An id without a key is answered ok.                *)
Revoke(c) ==
  /\ asked[c] = Null
  /\ \E i \in Ids :
       keys' = [keys EXCEPT ![i] = IF @ = Null THEN Null ELSE [@ EXCEPT !.revoked = TRUE]]
  /\ Reply(c, "ok")

HardRemove(c) ==
  /\ asked[c] = Null
  /\ \E i \in Ids : keys' = [keys EXCEPT ![i] = Null]
  /\ Reply(c, "ok")

-----------------------------------------------------------------------------
(* An expiry of 0 never comes for verifications and reads, though sweeps     *)
(* count it as past (Prunable).                                              *)
Expired(k) == k.expiresAt \notin {Null, 0} /\ k.expiresAt <= clock

Exhausted(k) == k.usesRemaining # Null /\ k.usesRemaining = 0

Limited == \E i \in DOMAIN Plugins : Plugins[i] = "usage-limits-per-key"

(* What plugin p has against a verification of k that requires some scopes.  *)
Objects(p, k, required) ==
  \/ p = "usage-limits-per-key" /\ Exhausted(k)
  \/ p = "enable-disable" /\ k.disabled
  \/ p = "permissions-scopes" /\ ~(required \subseteq k.scopes)

Refusal(p) ==
  CASE p = "usage-limits-per-key" -> "usage_exceeded"
    [] p = "enable-disable" -> "disabled"
    [] p = "permissions-scopes" -> "insufficient_scope"

First(S) == CHOOSE i \in S : \A j \in S : i <= j

(* Documented (expiring-keys.mdx:33): revoked, expired, usage_exceeded, "in  *)
(* order".  Plugins speak before the expiry is judged, so that the one for   *)
(* limits refuses a key both spent and expired as usage_exceeded.            *)
Verdict(k, required) ==
  LET objecting == {i \in DOMAIN Plugins : Objects(Plugins[i], k, required)}
  IN  IF k.revoked THEN "revoked"
      ELSE IF objecting # {} THEN Refusal(Plugins[First(objecting)])
      ELSE IF Expired(k) THEN "expired"
      ELSE IF Exhausted(k) THEN "usage_exceeded"
      ELSE "valid"

(* A valid verification costs a use, an expired key is removed if the        *)
(* service is so configured, any other verdict leaves the key alone.         *)
Judged(k, verdict) ==
  CASE verdict = "valid" /\ Limited /\ k.usesRemaining # Null ->
         [k EXCEPT !.usesRemaining = @ - 1]
    [] verdict = "expired" /\ AutoDelete -> Null
    [] OTHER -> k

Verify(c) ==
  /\ asked[c] # Null /\ asked[c].op = "verifyKey"
  /\ \/ Reply(c, "blocked_by_plugin") /\ UNCHANGED keys
     \/ /\ \A k \in Keys : k.keyHash # asked[c].keyHash
        /\ Reply(c, "not_found") /\ UNCHANGED keys
     \/ \E k \in Keys :
          /\ k.keyHash = asked[c].keyHash
          /\ LET verdict == Verdict(k, asked[c].scopes)
             IN  /\ Reply(c, verdict)
                 /\ keys' = [keys EXCEPT ![k.id] = Judged(k, verdict)]

Named(k, q) == IF q.op = "getKey" THEN k.keyHash = q.keyHash ELSE k.id = q.id

Get(c) ==
  /\ asked[c] # Null /\ asked[c].op \in {"getKey", "getKeyById"}
  /\ \/ /\ \A k \in Keys : ~Named(k, asked[c])
        /\ Reply(c, "null") /\ UNCHANGED keys
     \/ \E k \in Keys :
          /\ Named(k, asked[c])
          /\ IF Expired(k) /\ AutoDelete
               THEN keys' = [keys EXCEPT ![k.id] = Null] /\ Reply(c, "null")
               ELSE UNCHANGED keys /\ Reply(c, "ok")

-----------------------------------------------------------------------------
(* The key after a change. *)
Changed(k, q) ==
  CASE q.op = "extendKeyExpiry" -> [k EXCEPT !.expiresAt =
                                     q.additionalMs + (IF @ = Null THEN clock ELSE @)]
    [] q.op = "setUsesRemaining" -> [k EXCEPT !.usesRemaining = q.remaining]
    [] q.op = "topUpUses" -> [k EXCEPT !.usesRemaining =
                               q.amount + (IF @ = Null THEN 0 ELSE @)]
    [] q.op = "clearUsageLimit" -> [k EXCEPT !.usesRemaining = Null]
    [] q.op = "disableKey" -> [k EXCEPT !.disabled = TRUE]
    [] q.op = "enableKey" -> [k EXCEPT !.disabled = FALSE]
    [] q.op = "grantScopes" -> [k EXCEPT !.scopes = @ \cup q.scopes]
    [] q.op = "revokeScopes" -> [k EXCEPT !.scopes = @ \ q.scopes]
    [] q.op = "setScopes" -> [k EXCEPT !.scopes = q.scopes]

(* The changing methods that answer null when there is no such key, and the  *)
(* ones that fail.                                                           *)
Indifferent == {"extendKeyExpiry", "grantScopes", "revokeScopes", "setScopes"}
Insisting == {"setUsesRemaining", "topUpUses", "clearUsageLimit", "disableKey", "enableKey"}

Invalid(q) == \/ q.op = "extendKeyExpiry" /\ q.additionalMs = 0
              \/ q.op = "topUpUses" /\ q.amount = 0

Change(c) ==
  LET q == asked[c]
  IN  /\ q # Null /\ q.op \in Indifferent \cup Insisting
      /\ \/ Invalid(q) /\ Reply(c, "error") /\ UNCHANGED keys
         \/ /\ ~Invalid(q) /\ keys[q.id] = Null
            /\ Reply(c, IF q.op \in Insisting THEN "error" ELSE "null") /\ UNCHANGED keys
         \/ /\ ~Invalid(q) /\ keys[q.id] # Null
            /\ Reply(c, "ok") /\ keys' = [keys EXCEPT ![q.id] = Changed(@, q)]

-----------------------------------------------------------------------------
Prunable(i, q) == /\ keys[i] # Null /\ keys[i].expiresAt # Null
                  /\ keys[i].expiresAt <= q.olderThan

(* A sweep removes the keys that expired by olderThan, as many of them as    *)
(* its batch holds, and answers "more" exactly when the batch was full.      *)
Sweep(c) ==
  /\ asked[c] # Null /\ asked[c].op = "sweepExpired"
  /\ LET q == asked[c]
         prunable == {i \in Ids : Prunable(i, q)}
     IN  \E S \in SUBSET prunable :
           /\ \/ S = prunable /\ Cardinality(S) <= q.batchSize
              \/ Cardinality(S) = q.batchSize
           /\ keys' = [i \in Ids |-> IF i \in S THEN Null ELSE keys[i]]
           /\ Reply(c, IF Cardinality(S) = q.batchSize THEN "more" ELSE "swept")

Tick == clock' = clock + 1 /\ UNCHANGED <<keys, issued, asked, answer>>

Next ==
  \/ Tick
  \/ \E c \in Callers : \/ Ask(c) \/ Create(c) \/ Revoke(c) \/ HardRemove(c)
                        \/ Verify(c) \/ Get(c) \/ Change(c) \/ Sweep(c)

Spec == Init /\ [][Next]_svars
=============================================================================
