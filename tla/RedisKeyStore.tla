---------------------------- MODULE RedisKeyStore ----------------------------
(***************************************************************************)
(* The Redis keystore adapter under the methods of UsefulKey that use it.  *)
(*                                                                         *)
(* A key is two Redis keys: a hash that holds its record, named by its id, *)
(* and a string that holds its id, named by its key hash.  Redis executes  *)
(* one command at a time, and a method of the adapter is several commands: *)
(*                                                                         *)
(*   createKey, updateKey   HSET record, SET index         hset -> index   *)
(*   findKeyByHash          GET index, HGETALL record      -> load         *)
(*   hardRemoveKeyById      HGETALL record, DEL index, DEL record          *)
(*                                               fetch -> unindex -> drop  *)
(*   findExpiredIds         KEYS, HGETALL of each          -> scan         *)
(*                                                                         *)
(* Each action executes one command and the code up to the next; pc names  *)
(* the command a call waits for.  HSET creates what is missing, so that    *)
(* updateKey may bring a removed record back and revokeKeyById may leave a *)
(* record that holds nothing but revokedAt.                                *)
(***************************************************************************)
EXTENDS Naturals, FiniteSets

CONSTANTS
  Callers,     (* Concurrent callers, in one process or in several.          *)
  Ids,         (* Ids; every key gets one never used before (uuid).          *)
  Hashes,      (* Key hashes, one for every plaintext ever generated.        *)
  Undefined,   (* The text "undefined", which a missing field is read as.    *)
  Expiries,    (* Values of expiresAt given to createKey.                    *)
  BatchSize,   (* batchSize of sweepExpired.                                 *)
  MaxTime,     (* Bound on the clock.                                        *)
  MaxExpiry,   (* Bound on the expiries extendKeyExpiry grows.               *)
  Null         (* No such key in Redis, no such field in a hash.             *)

ASSUME RedisAssumption ==
  /\ Undefined \notin Ids \cup Hashes /\ Null \notin Ids \cup Hashes \cup {Undefined}
  /\ Expiries \subseteq Nat \cup {Null}
  /\ BatchSize \in Nat \ {0} /\ MaxTime \in Nat \ {0} /\ MaxExpiry \in Nat

AllIds == Ids \cup {Undefined}
AllHashes == Hashes \cup {Undefined}

(* The fields that decide whether a key may be used. *)
KeyRecord ==
  [id : AllIds \cup {Null}, keyHash : AllHashes \cup {Null},
   expiresAt : Nat \cup {Null}, revoked : BOOLEAN]

ASSUME NullIsNoRecord == Null \notin KeyRecord

VARIABLES
  records,    (* The hash of each id.                                        *)
  index,      (* The id each key hash leads to.                              *)
  clock,      (* now().                                                      *)
  reliable,   (* No command rejects and no process stops in this behaviour.  *)
  usedIds,    (* Ids and hashes of the keys created so far.                  *)
  issued,
  op,         (* The method each caller is in, Null when in none.            *)
  pc,         (* The command it waits for, "idle" when in no method.         *)
  sought,     (* verifyKey: the hash of the plaintext.                       *)
  target,     (* The id of the record the next command is about.             *)
  held,       (* The record in a local variable of the call.                 *)
  olderThan,  (* sweepExpired: the cutoff, now() when it was called.         *)
  todo,       (* sweepExpired: keys still to be read.                        *)
  batch,      (* sweepExpired: ids still to be removed.                      *)
  granted,    (* History: the hash the last step found valid.                *)
  overlapped  (* History: two calls have been in progress at once.           *)

redis == <<records, index>>
sweeping == <<todo, batch, olderThan>>
locals == <<op, pc, sought, target, held, sweeping>>
vars == <<redis, clock, reliable, usedIds, issued, locals, granted, overlapped>>

TypeOK ==
  /\ records \in [AllIds -> KeyRecord \cup {Null}]
  /\ \A i \in AllIds : records[i] # Null =>
       /\ records[i].id \in {i, Null}
       /\ records[i].id = Null => records[i].keyHash = Null /\ records[i].revoked
  /\ index \in [AllHashes -> AllIds \cup {Null}]
  /\ clock \in 1..MaxTime /\ reliable \in BOOLEAN /\ overlapped \in BOOLEAN
  /\ usedIds \subseteq Ids /\ issued \subseteq Hashes
  /\ pc \in [Callers -> {"idle", "load", "hset", "index", "scan",
                         "fetch", "unindex", "drop"}]
  /\ held \in [Callers -> KeyRecord \cup {Null}]
  /\ \A c \in Callers : pc[c] \in {"hset", "index"} => held[c].id # Null
  /\ olderThan \in [Callers -> 0..clock]
  /\ todo \in [Callers -> SUBSET AllIds] /\ batch \in [Callers -> SUBSET AllIds]
  /\ granted \in Hashes \cup {Null}

Init ==
  /\ records = [i \in AllIds |-> Null]
  /\ index = [h \in AllHashes |-> Null]
  /\ clock = 1 /\ reliable \in BOOLEAN
  /\ usedIds = {} /\ issued = {}
  /\ op = [c \in Callers |-> Null]
  /\ pc = [c \in Callers |-> "idle"]
  /\ sought = [c \in Callers |-> Null]
  /\ target = [c \in Callers |-> Null]
  /\ held = [c \in Callers |-> Null]
  /\ olderThan = [c \in Callers |-> 0]
  /\ todo = [c \in Callers |-> {}]
  /\ batch = [c \in Callers |-> {}]
  /\ granted = Null /\ overlapped = FALSE

-----------------------------------------------------------------------------
(* Steps of a call. *)

(* The call of method m waits for command p about id i, holding record r. *)
Await(c, m, p, i, r) ==
  /\ op' = [op EXCEPT ![c] = m]
  /\ pc' = [pc EXCEPT ![c] = p]
  /\ target' = [target EXCEPT ![c] = i]
  /\ held' = [held EXCEPT ![c] = r]

Answer(c) ==
  /\ Await(c, Null, "idle", Null, Null)
  /\ sought' = [sought EXCEPT ![c] = Null]
  /\ olderThan' = [olderThan EXCEPT ![c] = 0]
  /\ todo' = [todo EXCEPT ![c] = {}]
  /\ batch' = [batch EXCEPT ![c] = {}]

(* A sweep goes on to the next id of its batch; other calls end here. *)
NextOfBatch(c, b) ==
  \/ b = {} /\ Answer(c)
  \/ /\ \E i \in b : Await(c, op[c], "fetch", i, Null) /\ batch' = [batch EXCEPT ![c] = b \ {i}]
     /\ UNCHANGED <<sought, todo, olderThan>>

Starts(c) ==
  /\ pc[c] = "idle"
  /\ overlapped' = (overlapped \/ \E d \in Callers \ {c} : pc[d] # "idle")
  /\ UNCHANGED <<clock, reliable>>

Goes(c, p) ==
  /\ pc[c] = p
  /\ UNCHANGED <<clock, reliable, usedIds, issued, overlapped>>

NoGrant == granted' = Null

-----------------------------------------------------------------------------
(* Reading and writing a record. *)

(* Mutant: revokedAt is left out of the fields written. *)
HSetUnrevoked(r) ==
  records' = [records EXCEPT ![r.id] =
    [r EXCEPT !.revoked = records[r.id] # Null /\ records[r.id].revoked]]

(* createKey and updateKey write every field, whatever was there before. *)
HSet(r) == records' = [records EXCEPT ![r.id] = r]

(* Mutant: the fields are taken as they are. *)
HGetAllRaw(i) == records[i]

(* deserialize: a field that is missing becomes the text "undefined". *)
HGetAll(i) ==
  IF records[i] = Null THEN Null
  ELSE [records[i] EXCEPT !.id = IF @ = Null THEN Undefined ELSE @,
                          !.keyHash = IF @ = Null THEN Undefined ELSE @]

-----------------------------------------------------------------------------
CreateKey(c) ==
  /\ Starts(c) /\ NoGrant
  /\ \E i \in Ids \ usedIds, h \in Hashes \ issued, t \in Expiries :
       LET new == [id |-> i, keyHash |-> h, expiresAt |-> t, revoked |-> FALSE]
       IN  /\ usedIds' = usedIds \cup {i} /\ issued' = issued \cup {h}
           /\ HSet(new)
           /\ Await(c, "createKey", "index", i, new)
  /\ UNCHANGED <<index, sought, sweeping>>

(* Mutant: an index entry never changes, so an update leaves it alone. *)
UpdateRecordOnly(c) ==
  /\ Goes(c, "hset") /\ NoGrant
  /\ HSet(held[c])
  /\ Answer(c)
  /\ UNCHANGED index

(* updateKey, of extendKeyExpiry and of a verification that counts a use. *)
Update(c) ==
  /\ Goes(c, "hset") /\ NoGrant
  /\ HSet(held[c])
  /\ Await(c, op[c], "index", target[c], held[c])
  /\ UNCHANGED <<index, sought, sweeping>>

SetIndex(c) ==
  /\ Goes(c, "index") /\ NoGrant
  /\ index' = [index EXCEPT ![held[c].keyHash] = held[c].id]
  /\ Answer(c)
  /\ UNCHANGED records

(* For every method that reads a record by id and writes it back. *)
ExtendKeyExpiry(c) ==
  /\ Starts(c) /\ NoGrant
  /\ \E i \in usedIds :
       LET r == HGetAll(i)
           to == 1 + (IF r.expiresAt = Null THEN clock ELSE r.expiresAt)
       IN  /\ r # Null /\ to <= MaxExpiry
           /\ Await(c, "extendKeyExpiry", "hset", r.id, [r EXCEPT !.expiresAt = to])
  /\ UNCHANGED <<redis, usedIds, issued, sought, sweeping>>

(* HSET of one field, also when there is no such record. *)
RevokeKey(c) ==
  /\ Starts(c) /\ NoGrant
  /\ \E i \in usedIds :
       records' = [records EXCEPT ![i] =
         IF @ = Null
           THEN [id |-> Null, keyHash |-> Null, expiresAt |-> Null, revoked |-> TRUE]
           ELSE [@ EXCEPT !.revoked = TRUE]]
  /\ UNCHANGED <<index, usedIds, issued, locals>>

-----------------------------------------------------------------------------
(* verifyKey. *)

Get(c) ==
  /\ Starts(c) /\ NoGrant
  /\ \E h \in issued :
       /\ index[h] # Null
       /\ Await(c, "verifyKey", "load", index[h], Null)
       /\ sought' = [sought EXCEPT ![c] = h]
  /\ UNCHANGED <<redis, usedIds, issued, sweeping>>

Expired(r, t) == r.expiresAt # Null /\ r.expiresAt <= t

(* What the key leads to may be missing, by a removal or a crash in between. *)
LoadRefused(c) ==
  /\ Goes(c, "load") /\ NoGrant
  /\ records[target[c]] # Null => HGetAll(target[c]).revoked
  /\ Answer(c)
  /\ UNCHANGED redis

(* autoDeleteExpiredKeys. *)
LoadExpired(c) ==
  /\ Goes(c, "load") /\ NoGrant
  /\ records[target[c]] # Null
  /\ LET r == HGetAll(target[c])
     IN  /\ ~r.revoked /\ Expired(r, clock)
         /\ Await(c, "verifyKey", "fetch", r.id, Null)
  /\ UNCHANGED <<redis, sought, sweeping>>

(* A key without a usage limit is answered at once, one with a limit after   *)
(* its record has been written back.                                         *)
LoadValid(c) ==
  /\ Goes(c, "load") /\ UNCHANGED redis
  /\ records[target[c]] # Null
  /\ LET r == HGetAll(target[c])
     IN  /\ ~r.revoked /\ ~Expired(r, clock)
         /\ granted' = sought[c]
         /\ \/ Answer(c)
            \/ Await(c, "verifyKey", "hset", r.id, r) /\ UNCHANGED <<sought, sweeping>>

-----------------------------------------------------------------------------
(* hardRemoveKeyById. *)

HardRemoveKey(c) ==
  /\ Starts(c) /\ NoGrant
  /\ \E i \in usedIds : Await(c, "hardRemoveKey", "fetch", i, Null)
  /\ UNCHANGED <<redis, usedIds, issued, sought, sweeping>>

(* HGETALL, for the name of the index entry; a record without keyHash has none. *)
Fetch(c) ==
  /\ Goes(c, "fetch") /\ NoGrant
  /\ LET r == records[target[c]]
     IN  IF r = Null \/ r.keyHash = Null
           THEN Await(c, op[c], "drop", target[c], Null)
           ELSE Await(c, op[c], "unindex", target[c], r)
  /\ UNCHANGED <<redis, sought, sweeping>>

(* Mutant: the index entry is left to itself. *)
UnindexNothing(c) ==
  /\ Goes(c, "unindex") /\ NoGrant
  /\ Await(c, op[c], "drop", target[c], Null)
  /\ UNCHANGED <<redis, sought, sweeping>>

Unindex(c) ==
  /\ Goes(c, "unindex") /\ NoGrant
  /\ index' = [index EXCEPT ![held[c].keyHash] = Null]
  /\ Await(c, op[c], "drop", target[c], Null)
  /\ UNCHANGED <<records, sought, sweeping>>

Drop(c) ==
  /\ Goes(c, "drop") /\ NoGrant
  /\ records' = [records EXCEPT ![target[c]] = Null]
  /\ NextOfBatch(c, batch[c])
  /\ UNCHANGED index

-----------------------------------------------------------------------------
(* sweepExpired: findExpiredIds lists the keys and reads one after another   *)
(* until the batch is full, and then each id of the batch is removed.        *)

Keys(c) ==
  /\ Starts(c) /\ NoGrant
  /\ LET stored == {i \in AllIds : records[i] # Null}
     IN  /\ stored # {}
         /\ Await(c, "sweepExpired", "scan", Null, Null)
         /\ todo' = [todo EXCEPT ![c] = stored]
         /\ olderThan' = [olderThan EXCEPT ![c] = clock]
  /\ UNCHANGED <<redis, usedIds, issued, sought, batch>>

Scan(c) ==
  /\ Goes(c, "scan") /\ NoGrant
  /\ \E i \in todo[c] :
       LET found == IF records[i] # Null /\ Expired(records[i], olderThan[c]) THEN {i} ELSE {}
           b == batch[c] \cup found
           rest == todo[c] \ {i}
       IN  IF rest = {} \/ Cardinality(b) = BatchSize
             THEN NextOfBatch(c, b)
             ELSE /\ todo' = [todo EXCEPT ![c] = rest]
                  /\ batch' = [batch EXCEPT ![c] = b]
                  /\ UNCHANGED <<op, pc, sought, target, held, olderThan>>
  /\ UNCHANGED redis

-----------------------------------------------------------------------------
(* A command rejects, or the process stops: the call ends, with an error or  *)
(* an ignored one, except that a sweep skips an id it could not remove.      *)
(* That a rejected command was executed all the same is a reject of the one  *)
(* after it.                                                                 *)
Reject(c) ==
  /\ ~reliable /\ pc[c] # "idle" /\ NoGrant
  /\ \/ Answer(c)
     \/ pc[c] \in {"fetch", "unindex", "drop"} /\ batch[c] # {} /\ NextOfBatch(c, batch[c])
  /\ UNCHANGED <<redis, clock, reliable, usedIds, issued, overlapped>>

Tick ==
  /\ clock < MaxTime /\ clock' = clock + 1 /\ NoGrant
  /\ UNCHANGED <<redis, reliable, usedIds, issued, locals, overlapped>>

Start(c) == \/ CreateKey(c) \/ ExtendKeyExpiry(c) \/ RevokeKey(c) \/ Get(c)
            \/ HardRemoveKey(c) \/ Keys(c)

Continue(c) == \/ Update(c) \/ SetIndex(c)
               \/ LoadRefused(c) \/ LoadExpired(c) \/ LoadValid(c)
               \/ Fetch(c) \/ Unindex(c) \/ Drop(c) \/ Scan(c) \/ Reject(c)

Next == Tick \/ \E c \in Callers : Start(c) \/ Continue(c)

Spec == Init /\ [][Next]_vars
-----------------------------------------------------------------------------
(* Properties. *)

AtRest == \A c \in Callers : pc[c] = "idle"

(* A record in Redis can be found by its plaintext once every call has come  *)
(* to its end: although updateKey may bring a record back in the middle of   *)
(* removals, it never brings back one that no plaintext leads to and that    *)
(* would stay behind unseen.  The order of commands in both methods matters. *)
Findable ==
  AtRest /\ reliable =>
    \A i \in AllIds : (records[i] # Null /\ records[i].keyHash # Null)
                        => index[records[i].keyHash] = i

(* While calls do not overlap, removal leaves nothing of a key: an index     *)
(* entry leads to the record of that hash, never to nothing or to what       *)
(* revokeKeyById made of a missing record.                                   *)
NothingLeftBehind ==
  AtRest /\ reliable /\ ~overlapped =>
    \A h \in AllHashes : index[h] # Null =>
      records[index[h]] # Null /\ records[index[h]].keyHash = h

(* The records of a key: in Redis, and about to be written to it. *)
Stored(h) == {r \in {records[i] : i \in AllIds} \ {Null} : r.keyHash = h}
InFlight(h) == {held[c] : c \in {d \in Callers : pc[d] = "hset" /\ held[d].keyHash = h}}

Dead(h) == \A r \in Stored(h) \cup InFlight(h) : r.revoked

(* A key that is revoked or removed, with no older copy about to be written, *)
(* is never revived and verifies no more: not by an index entry that a       *)
(* removal or a crash left behind, not by the record revokeKeyById makes of  *)
(* a missing one, not by the "undefined" record an extension makes of that.  *)
DeadStaysDead ==
  [][\A h \in issued : Dead(h) => Dead(h)' /\ granted' # h]_vars
=============================================================================
