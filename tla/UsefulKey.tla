------------------------------ MODULE UsefulKey ------------------------------
(***************************************************************************)
(* The UsefulKey class with the usage-limits-per-key, enable-disable and   *)
(* permissions-scopes plugins, over a key table shared by every instance.  *)
(*                                                                         *)
(* An async method runs without interruption between two awaits.  A call   *)
(* is therefore a chain of steps, one per stretch of code that ends at an  *)
(* await of the keystore, and between two of them any other call may step: *)
(*                                                                         *)
(*   find -> found -> update | remove   getKey, getKeyById, verifyKey,     *)
(*                                      extendKeyExpiry, plugin methods    *)
(*   find -> sweep -> ... -> sweep      sweepExpired                       *)
(*                                                                         *)
(* In "find" the SELECT is on its way to the table, in "found" the code    *)
(* resumes with the record it read, in "update" the UPDATE is on its way.  *)
(* Every UPDATE puts back the whole record that was read.  createKey,      *)
(* revokeKey and hardRemoveKey carry nothing across an await before their  *)
(* one statement, and are one step.                                        *)
(***************************************************************************)
EXTENDS SqlKeyStore, Integers, Sequences

CONSTANTS
  Callers,      (* Concurrent callers, in one process or in several.         *)
  Ops,          (* The methods the callers of an instance use.               *)
  Plugins,      (* The plugins installed, in the order of registration.      *)
  AutoDelete,   (* config.autoDeleteExpiredKeys.                             *)
  StoreFails,   (* Whether a keystore call may reject.                       *)
  Expiries,     (* Values of expiresAt given to createKey.                   *)
  Budgets,      (* Values of usesRemaining given to createKey and setUses.   *)
  TopUps,       (* Amounts given to topUpUses; 0 stands for an invalid one.  *)
  Extensions,   (* additionalMs of extendKeyExpiry; 0 as above.              *)
  BatchSizes,   (* batchSize given to sweepExpired, after clamping to >= 1.  *)
  Lags,         (* now() - olderThan in calls of sweepExpired, of any sign.  *)
  MaxTime,      (* Bound on the clock.                                       *)
  MaxUses,      (* Bound on the counters topUpUses grows.                    *)
  MaxExpiry     (* Bound on the expiries extendKeyExpiry grows.              *)

Refills == {"setUsesRemaining", "topUpUses", "clearUsageLimit"}

ByHash == {"getKey", "verifyKey"}

(* Methods that read the record by id and write it back. *)
Setters == Refills \cup {"extendKeyExpiry", "disableKey", "enableKey",
                         "grantScopes", "revokeScopes", "setScopes"}

AllOps == ByHash \cup Setters \cup
          {"createKey", "getKeyById", "revokeKey", "hardRemoveKey", "sweepExpired"}

PluginNames == {"usage-limits-per-key", "enable-disable", "permissions-scopes"}

ASSUME ParametersAssumption ==
  /\ Ops \subseteq AllOps
  /\ Plugins \in Seq(PluginNames)
  /\ AutoDelete \in BOOLEAN /\ StoreFails \in BOOLEAN
  /\ Expiries \subseteq Nat \cup {Null} /\ Budgets \subseteq Nat \cup {Null}
  /\ TopUps \subseteq Nat /\ Extensions \subseteq Nat
  /\ BatchSizes \subseteq Nat \ {0} /\ Lags \subseteq Int
  /\ MaxTime \in Nat \ {0} /\ MaxUses \in Nat /\ MaxExpiry \in Nat

HashRequest == [op : {"getKey"}, keyHash : Hashes] \cup
               [op : {"verifyKey"}, keyHash : Hashes, scopes : SUBSET Scopes]

(* Methods that start by reading the record of an id. *)
IdRequest ==
       [op : {"getKeyById", "clearUsageLimit", "disableKey", "enableKey"}, id : Ids]
  \cup [op : {"setUsesRemaining"}, id : Ids, remaining : Budgets]
  \cup [op : {"topUpUses"}, id : Ids, amount : TopUps]
  \cup [op : {"extendKeyExpiry"}, id : Ids, additionalMs : Extensions]
  \cup [op : {"grantScopes", "revokeScopes", "setScopes"}, id : Ids,
        scopes : SUBSET Scopes]

SweepRequest == [op : {"sweepExpired"}, batchSize : BatchSizes, olderThan : Int]

Request == HashRequest \cup IdRequest \cup SweepRequest

ASSUME NullIsNotARequest == Null \notin Request

VARIABLES
  clock,    (* Date.now(), always positive.                                  *)
  issued,   (* Hashes of the keys generated so far.                          *)
  pc,       (* Where each caller's call stands; "idle" between calls.        *)
  call,     (* The request being served, Null when idle.                     *)
  record,   (* The local variable record, then updated, of the call.         *)
  ids,      (* sweepExpired: the ids of the batch still to be removed.       *)
  reply     (* What the caller's last call answered, "none" during a call.   *)

vars == <<keyStore, clock, issued, pc, call, record, ids, reply>>

Phases == {"idle", "find", "found", "update", "remove", "sweep"}

Replies == {"none", "ok", "null", "error", "valid", "not_found", "revoked",
            "disabled", "insufficient_scope", "usage_exceeded", "expired",
            "blocked_by_plugin", "more", "swept"}

Installed(p) == \E i \in 1..Len(Plugins) : Plugins[i] = p

(* What a call holds in each phase.  A write-back carries the hash that was   *)
(* looked up, and a verification that goes on to write found the key neither *)
(* revoked nor disabled.                                                     *)
CallOK(c) ==
  /\ pc[c] = "idle" <=> call[c] = Null
  /\ pc[c] # "idle" => reply[c] \in {"none", "more", "swept"}
  /\ pc[c] \in {"idle", "find", "sweep"} => record[c] = Null
  /\ pc[c] \in {"update", "remove"} => record[c] # Null
  /\ record[c] # Null /\ call[c] # Null /\ call[c].op \in ByHash
       => record[c].keyHash = call[c].keyHash
  /\ pc[c] = "update" /\ call[c].op = "verifyKey"
       => ~record[c].revoked /\ (Installed("enable-disable") => ~record[c].disabled)

TypeOK ==
  /\ keyStore \in [Ids -> KeyRecord \cup {Null}]
  /\ clock \in 1..MaxTime
  /\ issued \subseteq Hashes
  /\ pc \in [Callers -> Phases]
  /\ call \in [Callers -> Request \cup {Null}]
  /\ record \in [Callers -> KeyRecord \cup {Null}]
  /\ ids \in [Callers -> SUBSET Ids]
  /\ reply \in [Callers -> Replies]
  /\ \A c \in Callers : CallOK(c)

Init ==
  /\ keyStore = [i \in Ids |-> Null]
  /\ clock = 1
  /\ issued = {}
  /\ pc = [c \in Callers |-> "idle"]
  /\ call = [c \in Callers |-> Null]
  /\ record = [c \in Callers |-> Null]
  /\ ids = [c \in Callers |-> {}]
  /\ reply = [c \in Callers |-> "none"]

-----------------------------------------------------------------------------
(* Ending a call. *)

Answer(c, a) ==
  /\ pc' = [pc EXCEPT ![c] = "idle"]
  /\ call' = [call EXCEPT ![c] = Null]
  /\ record' = [record EXCEPT ![c] = Null]
  /\ ids' = [ids EXCEPT ![c] = {}]
  /\ reply' = [reply EXCEPT ![c] = a]

(* The outcomes of a keystore write: it resolves, or it rejects, and then    *)
(* may have been applied all the same (a connection lost after the commit).  *)
(* A rejecting call answers "failed" instead of "done".                      *)
Writes(c, write, done, failed) ==
  \/ write /\ Answer(c, done)
  \/ StoreFails /\ (write \/ UNCHANGED keyStore) /\ Answer(c, failed)

-----------------------------------------------------------------------------
(* Methods that are one statement. *)

(* Mutant: a generator that avoids only the keys in the table. *)
UnstoredHashes == {h \in Hashes : \A r \in Rows : r.keyHash # h}

(* Every plaintext is rendered from 16 random bytes: none appears twice. *)
FreshHashes == Hashes \ issued

(* createKey renders a plaintext never rendered before and inserts its hash. *)
CreateKey(c) ==
  \E id \in Ids, h \in FreshHashes, t \in Expiries, n \in Budgets, s \in SUBSET Scopes :
    LET new == [id |-> id, keyHash |-> h, expiresAt |-> t, usesRemaining |-> n,
                revoked |-> FALSE, disabled |-> FALSE, scopes |-> s]
    IN  /\ pc[c] = "idle" /\ "createKey" \in Ops
        /\ issued' = issued \cup {h}
        /\ IF InsertConflicts(new)
             THEN Answer(c, "error") /\ UNCHANGED keyStore
             ELSE Writes(c, InsertKey(new), "ok", "error")
        /\ UNCHANGED clock

RevokeKey(c) ==
  /\ pc[c] = "idle" /\ "revokeKey" \in Ops
  /\ \E id \in Ids : Writes(c, RevokeKeyById(id), "ok", "error")
  /\ UNCHANGED <<clock, issued>>

HardRemoveKey(c) ==
  /\ pc[c] = "idle" /\ "hardRemoveKey" \in Ops
  /\ \E id \in Ids : Writes(c, HardRemoveKeyById(id), "ok", "error")
  /\ UNCHANGED <<clock, issued>>

-----------------------------------------------------------------------------
(* Beginning a call that reads first. *)

Begin(c, q) ==
  /\ pc[c] = "idle" /\ q.op \in Ops
  /\ pc' = [pc EXCEPT ![c] = "find"]
  /\ call' = [call EXCEPT ![c] = q]
  /\ reply' = [reply EXCEPT ![c] = "none"]
  /\ UNCHANGED <<keyStore, clock, issued, record, ids>>

BeginByHash(c) ==
  \E q \in HashRequest : q.keyHash \in issued /\ Begin(c, q)

(* The bounds of the model: a call that grows a number begins only while the *)
(* calls in flight leave room for it.                                        *)
WithinBounds(q) ==
  LET inFlight == 1 + Cardinality({c \in Callers : call[c] # Null /\ call[c].op = q.op})
  IN  \A r \in (Rows \cup {record[c] : c \in Callers}) \ {Null} :
        /\ q.op = "topUpUses" =>
             inFlight * q.amount
               + (IF r.usesRemaining = Null THEN 0 ELSE r.usesRemaining) <= MaxUses
        /\ q.op = "extendKeyExpiry" =>
             inFlight * q.additionalMs
               + (IF r.expiresAt = Null THEN MaxTime ELSE r.expiresAt) <= MaxExpiry

BeginById(c) == \E q \in IdRequest : WithinBounds(q) /\ Begin(c, q)

(* olderThan defaults to now(); the caller may give any time, past or future. *)
BeginSweep(c) ==
  \E b \in BatchSizes, lag \in Lags :
    Begin(c, [op |-> "sweepExpired", batchSize |-> b, olderThan |-> clock - lag])

-----------------------------------------------------------------------------
(* The read. *)

(* additionalMs and amount are validated before the record is read. *)
Refused(q) == \/ q.op = "extendKeyExpiry" /\ q.additionalMs = 0
              \/ q.op = "topUpUses" /\ q.amount = 0

RefuseArgument(c) ==
  /\ pc[c] = "find" /\ Refused(call[c])
  /\ Answer(c, "error")
  /\ UNCHANGED <<keyStore, clock, issued>>

(* A beforeVerify hook (rate-limit, ip-access-control) rejects the call. *)
BeforeVerifyRejects(c) ==
  /\ pc[c] = "find" /\ call[c].op = "verifyKey"
  /\ Answer(c, "blocked_by_plugin")
  /\ UNCHANGED <<keyStore, clock, issued>>

Find(c) ==
  /\ pc[c] = "find" /\ call[c].op # "sweepExpired" /\ ~Refused(call[c])
  /\ \E r \in IF call[c].op \in ByHash THEN FindKeyByHash(call[c].keyHash)
                                         ELSE FindKeyById(call[c].id) :
       record' = [record EXCEPT ![c] = r]
  /\ pc' = [pc EXCEPT ![c] = "found"]
  /\ UNCHANGED <<keyStore, clock, issued, call, ids, reply>>

FindRejects(c) ==
  /\ pc[c] = "find" /\ StoreFails
  /\ Answer(c, "error")
  /\ UNCHANGED <<keyStore, clock, issued>>

(* The code resumed after its read: in the body of method op. *)
Resumed(c, op) ==
  /\ pc[c] = "found" /\ call[c].op = op
  /\ UNCHANGED <<keyStore, clock, issued>>

(* No record: the limit and enable-disable methods throw KEY_NOT_FOUND, the  *)
(* scope methods return, extendKeyExpiry and the getters answer null.        *)
Missing(c) ==
  /\ pc[c] = "found" /\ record[c] = Null
  /\ Answer(c, CASE call[c].op = "verifyKey" -> "not_found"
                 [] call[c].op \in Refills \cup {"disableKey", "enableKey"} -> "error"
                 [] OTHER -> "null")
  /\ UNCHANGED <<keyStore, clock, issued>>

(* Mutant: expiry only after the moment itself. *)
ExpiredLater(r) ==
  /\ r.expiresAt # Null
  /\ r.expiresAt # 0
  /\ r.expiresAt < clock

(* record.expiresAt && record.expiresAt <= now(): an expiry of 0 is falsy. *)
Expired(r) ==
  /\ r.expiresAt # Null
  /\ r.expiresAt # 0
  /\ r.expiresAt <= clock

(* The code goes on to write r, or to remove the record it holds. *)
Put(c, r) ==
  /\ record' = [record EXCEPT ![c] = r]
  /\ pc' = [pc EXCEPT ![c] = "update"]
  /\ UNCHANGED <<call, ids, reply>>

AutoRemove(c) ==
  /\ pc' = [pc EXCEPT ![c] = "remove"]
  /\ UNCHANGED <<call, record, ids, reply>>

-----------------------------------------------------------------------------
(* getKey and getKeyById. *)

GetKey(c) ==
  /\ \E op \in {"getKey", "getKeyById"} : Resumed(c, op)
  /\ record[c] # Null
  /\ IF Expired(record[c]) /\ AutoDelete THEN AutoRemove(c) ELSE Answer(c, "ok")

-----------------------------------------------------------------------------
(* verifyKey. *)

(* What the onKeyRecordLoaded hook of plugin p answers when it rejects. *)
Reason == [p \in PluginNames |->
             CASE p = "usage-limits-per-key" -> "usage_exceeded"
               [] p = "enable-disable" -> "disabled"
               [] p = "permissions-scopes" -> "insufficient_scope"]

(* Mutant: the counter is spent only below zero. *)
ExhaustedLate(r) == r.usesRemaining # Null /\ r.usesRemaining < 0

Exhausted(r) == r.usesRemaining # Null /\ r.usesRemaining = 0

Rejects(p, q, r) ==
  \/ p = "usage-limits-per-key" /\ Exhausted(r)
  \/ p = "enable-disable" /\ r.disabled
  \/ p = "permissions-scopes" /\ ~(q.scopes \subseteq r.scopes)

HooksReject(q, r) == \E i \in 1..Len(Plugins) : Rejects(Plugins[i], q, r)

VerifyRevoked(c) ==
  /\ Resumed(c, "verifyKey")
  /\ record[c] # Null /\ record[c].revoked
  /\ Answer(c, "revoked")

(* The first hook that rejects ends the verification. *)
VerifyRejected(c) ==
  /\ Resumed(c, "verifyKey")
  /\ record[c] # Null /\ ~record[c].revoked
  /\ \E i \in 1..Len(Plugins) :
       /\ Rejects(Plugins[i], call[c], record[c])
       /\ \A j \in 1..(i - 1) : ~Rejects(Plugins[j], call[c], record[c])
       /\ Answer(c, Reason[Plugins[i]])

VerifyExpired(c) ==
  /\ Resumed(c, "verifyKey")
  /\ record[c] # Null /\ ~record[c].revoked
  /\ ~HooksReject(call[c], record[c])
  /\ Expired(record[c])
  /\ IF AutoDelete THEN AutoRemove(c) ELSE Answer(c, "expired")

VerifyExceeded(c) ==
  /\ Resumed(c, "verifyKey")
  /\ record[c] # Null /\ ~record[c].revoked
  /\ ~HooksReject(call[c], record[c])
  /\ ~Expired(record[c])
  /\ Exhausted(record[c])
  /\ Answer(c, "usage_exceeded")

(* The limit plugin's onVerifySuccess writes the counter back before the     *)
(* caller is answered; without a limit, or without the plugin, nothing does. *)
VerifyValid(c) ==
  /\ Resumed(c, "verifyKey")
  /\ record[c] # Null /\ ~record[c].revoked
  /\ ~HooksReject(call[c], record[c])
  /\ ~Expired(record[c])
  /\ ~Exhausted(record[c])
  /\ IF record[c].usesRemaining # Null /\ Installed("usage-limits-per-key")
       THEN Put(c, [record[c] EXCEPT !.usesRemaining = @ - 1])
       ELSE Answer(c, "valid")

-----------------------------------------------------------------------------
(* The methods that change a record: what each one writes back. *)

(* Mutants: an extension that builds a new record and forgets revokedAt, one *)
(* that makes the key usable again, and a setScopes that replaces the        *)
(* metadata instead of spreading it.                                         *)
ExtendAndRevive(c) ==
  /\ Resumed(c, "extendKeyExpiry") /\ record[c] # Null
  /\ Put(c, [record[c] EXCEPT !.expiresAt = clock + call[c].additionalMs, !.revoked = FALSE])

ExtendAndRefill(c) ==
  /\ Resumed(c, "extendKeyExpiry") /\ record[c] # Null
  /\ Put(c, [record[c] EXCEPT !.expiresAt = clock + call[c].additionalMs,
                              !.usesRemaining = IF @ = 0 THEN 1 ELSE @])

SetScopesOnly(c) ==
  /\ Resumed(c, "setScopes") /\ record[c] # Null
  /\ Put(c, [record[c] EXCEPT !.scopes = call[c].scopes, !.disabled = FALSE])

ExtendKeyExpiry(c) ==
  /\ Resumed(c, "extendKeyExpiry") /\ record[c] # Null
  /\ LET from == IF record[c].expiresAt = Null THEN clock ELSE record[c].expiresAt
     IN  Put(c, [record[c] EXCEPT !.expiresAt = from + call[c].additionalMs])

SetUsesRemaining(c) ==
  /\ Resumed(c, "setUsesRemaining") /\ record[c] # Null
  /\ Put(c, [record[c] EXCEPT !.usesRemaining = call[c].remaining])

TopUpUses(c) ==
  /\ Resumed(c, "topUpUses") /\ record[c] # Null
  /\ LET current == IF record[c].usesRemaining = Null THEN 0
                                                      ELSE record[c].usesRemaining
     IN  Put(c, [record[c] EXCEPT !.usesRemaining = current + call[c].amount])

ClearUsageLimit(c) ==
  /\ Resumed(c, "clearUsageLimit") /\ record[c] # Null
  /\ Put(c, [record[c] EXCEPT !.usesRemaining = Null])

DisableKey(c) ==
  /\ Resumed(c, "disableKey") /\ record[c] # Null
  /\ Put(c, [record[c] EXCEPT !.disabled = TRUE])

EnableKey(c) ==
  /\ Resumed(c, "enableKey") /\ record[c] # Null
  /\ Put(c, [record[c] EXCEPT !.disabled = FALSE])

GrantScopes(c) ==
  /\ Resumed(c, "grantScopes") /\ record[c] # Null
  /\ Put(c, [record[c] EXCEPT !.scopes = @ \cup call[c].scopes])

RevokeScopes(c) ==
  /\ Resumed(c, "revokeScopes") /\ record[c] # Null
  /\ Put(c, [record[c] EXCEPT !.scopes = @ \ call[c].scopes])

SetScopes(c) ==
  /\ Resumed(c, "setScopes") /\ record[c] # Null
  /\ Put(c, [record[c] EXCEPT !.scopes = call[c].scopes])

-----------------------------------------------------------------------------
(* The write. *)

(* A failing onVerifySuccess hook is logged, and the key is valid anyway. *)
Update(c) ==
  /\ pc[c] = "update"
  /\ IF call[c].op = "verifyKey"
       THEN Writes(c, UpdateKey(record[c]), "valid", "valid")
       ELSE Writes(c, UpdateKey(record[c]), "ok", "error")
  /\ UNCHANGED <<clock, issued>>

(* autoDeleteExpiredKeys: a failing removal is ignored. *)
Remove(c) ==
  /\ pc[c] = "remove"
  /\ IF call[c].op = "verifyKey"
       THEN Writes(c, HardRemoveKeyById(record[c].id), "expired", "expired")
       ELSE Writes(c, HardRemoveKeyById(record[c].id), "null", "null")
  /\ UNCHANGED <<clock, issued>>

(* sweepExpired removes the ids of its batch one by one and skips the ones   *)
(* whose removal fails.  It answers "more" (remainingHint -1) when the batch *)
(* was full, which is settled here, and "swept" (remainingHint 0) if not.    *)
SweepFind(c) ==
  /\ pc[c] = "find" /\ call[c].op = "sweepExpired"
  /\ \E S \in FindExpiredIds(call[c].olderThan, call[c].batchSize) :
       /\ ids' = [ids EXCEPT ![c] = S]
       /\ reply' = [reply EXCEPT ![c] =
                      IF Cardinality(S) = call[c].batchSize THEN "more" ELSE "swept"]
  /\ pc' = [pc EXCEPT ![c] = "sweep"]
  /\ UNCHANGED <<keyStore, clock, issued, call, record>>

SweepRemove(c) ==
  /\ pc[c] = "sweep"
  /\ \E id \in ids[c] :
       /\ HardRemoveKeyById(id) \/ (StoreFails /\ UNCHANGED keyStore)
       /\ ids' = [ids EXCEPT ![c] = @ \ {id}]
  /\ UNCHANGED <<clock, issued, pc, call, record, reply>>

(* Mutant: a sweep that goes on while its batches are full. *)
SweepUntilEmpty(c) ==
  /\ pc[c] = "sweep" /\ ids[c] = {}
  /\ IF reply[c] = "more"
       THEN pc' = [pc EXCEPT ![c] = "find"] /\ UNCHANGED <<call, record, ids, reply>>
       ELSE Answer(c, reply[c])
  /\ UNCHANGED <<keyStore, clock, issued>>

SweepDone(c) ==
  /\ pc[c] = "sweep" /\ ids[c] = {}
  /\ Answer(c, reply[c])
  /\ UNCHANGED <<keyStore, clock, issued>>

-----------------------------------------------------------------------------
Tick ==
  /\ clock < MaxTime
  /\ clock' = clock + 1
  /\ UNCHANGED <<keyStore, issued, pc, call, record, ids, reply>>

OneStatement(c) == CreateKey(c) \/ RevokeKey(c) \/ HardRemoveKey(c)

BeginCall(c) == BeginByHash(c) \/ BeginById(c) \/ BeginSweep(c)

Verify(c) == \/ VerifyRevoked(c) \/ VerifyRejected(c) \/ VerifyExpired(c)
             \/ VerifyExceeded(c) \/ VerifyValid(c)

Change(c) == \/ ExtendKeyExpiry(c)
             \/ SetUsesRemaining(c) \/ TopUpUses(c) \/ ClearUsageLimit(c)
             \/ DisableKey(c) \/ EnableKey(c)
             \/ GrantScopes(c) \/ RevokeScopes(c) \/ SetScopes(c)

(* The steps of a call that has begun. *)
Step(c) ==
  \/ RefuseArgument(c) \/ BeforeVerifyRejects(c) \/ Find(c) \/ FindRejects(c)
  \/ Missing(c) \/ GetKey(c) \/ Verify(c) \/ Change(c)
  \/ Update(c) \/ Remove(c)
  \/ SweepFind(c) \/ SweepRemove(c) \/ SweepDone(c)

Next == Tick \/ \E c \in Callers : OneStatement(c) \/ BeginCall(c) \/ Step(c)

Spec == Init /\ [][Next]_vars

(* The event loop resumes a call whose await settled, and every statement    *)
(* settles: a driver resolves or rejects it.  Nobody has to begin a call.    *)
FairSpec == Spec /\ \A c \in Callers : WF_vars(Step(c))
-----------------------------------------------------------------------------
(* Properties. *)

(* The records of a key: its row, and what the calls in flight hold of it. *)
AllCopies == (Rows \cup {record[c] : c \in Callers}) \ {Null}
Copies(h) == {r \in AllCopies : r.keyHash = h}

(* A key is dead when every copy of it is revoked, or there is none left. *)
Dead(h) == \A r \in Copies(h) : r.revoked

(* The UNIQUE index on key_hash never refuses an UPDATE, and a plaintext     *)
(* never names two keys: all copies of a hash, stored or in flight, belong   *)
(* to one id, even when ids are reused and stale records are written back.   *)
OneKeyPerHash ==
  \A h \in Hashes : \A r, s \in Copies(h) : r.id = s.id

(* This step answers a verification of h with valid. *)
Granted(h) == \E c \in Callers : /\ call[c] # Null /\ call[c].op = "verifyKey"
                                /\ call[c].keyHash = h /\ reply'[c] = "valid"

(* Once a key is dead nothing brings it back: no write-back of any method,   *)
(* no reuse of its id and no failed statement; and it verifies no more.      *)
(* This is what is left of the promise of revokeKey and hardRemoveKey: it    *)
(* holds from the moment no older copy of the record is in flight.           *)
DeadStaysDead == [][\A h \in issued : Dead(h) => Dead(h)' /\ ~Granted(h)]_vars

Refilling == \E c \in Callers : call[c] # Null /\ call[c].op \in Refills

(* Only the limit methods give uses back: when every copy of a key has spent *)
(* its uses it stays spent until one of them is called, although every other *)
(* method writes the counter too.                                            *)
Spent(h) == \A r \in Copies(h) : Exhausted(r)
SpentStaysSpent ==
  [][\A h \in issued : Spent(h) => Spent(h)' \/ Refilling \/ Refilling']_vars

Enabling == \E c \in Callers : call[c] # Null /\ call[c].op = "enableKey"

(* A key disabled in every copy stays disabled until enableKey is called, and *)
(* with the plugin installed it is not valid meanwhile.                       *)
Disabled(h) == \A r \in Copies(h) : r.disabled
DisabledStaysDisabled ==
  [][\A h \in issued : Disabled(h) =>
       \/ Disabled(h)' /\ (Installed("enable-disable") => ~Granted(h))
       \/ Enabling \/ Enabling']_vars

(* A call always answers: no failing statement, lost record or concurrent    *)
(* removal leaves a caller waiting, and a sweep ends whatever fails in it.   *)
CallsComplete == \A c \in Callers : pc[c] # "idle" ~> pc[c] = "idle"

=============================================================================
