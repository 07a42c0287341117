--------------------------- MODULE MemoryKeyStore ---------------------------
(***************************************************************************)
(* The in-memory keystore adapter: two maps to record objects.             *)
(*                                                                         *)
(* The adapter hands out its own objects, never copies, so that a caller   *)
(* that found a record shares it with the maps.  createKey and updateKey   *)
(* put a new object in place, and callers keep the old one; revokeKeyById  *)
(* changes the object itself, under everyone who holds it.  An async       *)
(* function runs at once up to its first await, and these methods have     *)
(* none: each one is a single step of its caller.                          *)
(*                                                                         *)
(* Objects are modelled by their values and by whether what a caller holds *)
(* is still the object in the maps.                                        *)
(***************************************************************************)
EXTENDS Naturals, FiniteSets

CONSTANTS
  Callers,  (* Those who call the adapter.                                  *)
  Ids,      (* Key ids.                                                     *)
  Hashes,   (* Key hashes, one for every plaintext ever generated.          *)
  Scopes,   (* Scope names a key may hold.                                  *)
  Null      (* null: no record, no usage limit.                             *)

(* The fields that decide whether a key may be used; see SqlKeyStore. *)
KeyRecord ==
  [id : Ids, keyHash : Hashes, usesRemaining : Nat \cup {Null},
   revoked : BOOLEAN, disabled : BOOLEAN, scopes : SUBSET Scopes]

ASSUME MemoryAssumption == Null \notin Nat \cup KeyRecord

VARIABLES
  keyHashToRecord,  (* The record each key hash leads to.                    *)
  idToRecord,       (* The record each id leads to.                          *)
  held,             (* The record each caller has found, Null if none.       *)
  shared            (* The callers whose record is the object in the maps.   *)

maps == <<keyHashToRecord, idToRecord>>
store == <<maps, held, shared>>

StoreTypeOK ==
  /\ keyHashToRecord \in [Hashes -> KeyRecord \cup {Null}]
  /\ idToRecord \in [Ids -> KeyRecord \cup {Null}]
  /\ held \in [Callers -> KeyRecord \cup {Null}]
  /\ shared \subseteq {c \in Callers : held[c] # Null}

EmptyStore ==
  /\ keyHashToRecord = [h \in Hashes |-> Null]
  /\ idToRecord = [i \in Ids |-> Null]
  /\ held = [c \in Callers |-> Null]
  /\ shared = {}

(* Caller c finds r and keeps it, or lets go of what it had found. *)
Keep(c, r) ==
  /\ held' = [held EXCEPT ![c] = r]
  /\ shared' = IF r = Null THEN shared \ {c} ELSE shared \cup {c}

FindKeyByHash(c, h) == Keep(c, keyHashToRecord[h]) /\ UNCHANGED maps
FindKeyById(c, i) == Keep(c, idToRecord[i]) /\ UNCHANGED maps
Release(c) == Keep(c, Null) /\ UNCHANGED maps

(* The new object takes the place of the one other callers may hold; c       *)
(* itself drops what it held.                                                *)
Replace(c, r) ==
  /\ held' = [held EXCEPT ![c] = Null]
  /\ shared' = {d \in shared \ {c} : held[d].id # r.id}

(* createKey and updateKey are the same two lines: an upsert into both maps. *)
Upsert(c, r) ==
  /\ keyHashToRecord' = [keyHashToRecord EXCEPT ![r.keyHash] = r]
  /\ idToRecord' = [idToRecord EXCEPT ![r.id] = r]
  /\ Replace(c, r)

CreateKey(c, r) == Upsert(c, r)

(* Mutant: an update that forgets the map by hash. *)
UpdateKeyById(c, r) ==
  /\ idToRecord' = [idToRecord EXCEPT ![r.id] = r]
  /\ Replace(c, r) /\ UNCHANGED keyHashToRecord

UpdateKey(c, r) == Upsert(c, r)

(* Mutant: a revocation that stores a changed copy. *)
RevokeCopy(i) ==
  IF idToRecord[i] = Null THEN UNCHANGED store
  ELSE LET r == [idToRecord[i] EXCEPT !.revoked = TRUE]
       IN  /\ keyHashToRecord' = [keyHashToRecord EXCEPT ![r.keyHash] = r]
           /\ idToRecord' = [idToRecord EXCEPT ![i] = r]
           /\ shared' = {d \in shared : held[d].id # i}
           /\ UNCHANGED held

RevokeKeyById(i) ==
  IF idToRecord[i] = Null THEN UNCHANGED store
  ELSE LET r == [idToRecord[i] EXCEPT !.revoked = TRUE]
       IN  /\ keyHashToRecord' = [keyHashToRecord EXCEPT ![r.keyHash] = r]
           /\ idToRecord' = [idToRecord EXCEPT ![i] = r]
           /\ held' = [c \in Callers |-> IF c \in shared /\ held[c].id = i THEN r ELSE held[c]]
           /\ UNCHANGED shared
=============================================================================
