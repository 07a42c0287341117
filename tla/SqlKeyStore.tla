----------------------------- MODULE SqlKeyStore -----------------------------
(***************************************************************************)
(* The key table behind the SQL keystore adapters (postgres.ts, sqlite.ts, *)
(* cloudflare-d1.ts).  Every adapter method issues exactly one statement,  *)
(* so each operator below is one atomic access to the table: id is its     *)
(* primary key and key_hash is UNIQUE.                                     *)
(*                                                                         *)
(* A record keeps the columns that decide whether a key may be used.       *)
(* revokedAt is abstracted to whether it is set, and the two metadata      *)
(* entries the plugins read (metadata.disabled and metadata.scopes) are    *)
(* fields.  user_id, prefix, created_at and other metadata decide nothing. *)
(***************************************************************************)
EXTENDS Naturals, FiniteSets

CONSTANTS
  Ids,      (* Key ids, chosen by the caller or by customIdGenerator/uuid. *)
  Hashes,   (* Key hashes, one for every plaintext ever generated.         *)
  Scopes,   (* Scope names a key may hold.                                 *)
  Null      (* null: no row, no expiry, no usage limit.                    *)

KeyRecord ==
  [id            : Ids,
   keyHash       : Hashes,
   expiresAt     : Nat \cup {Null},
   usesRemaining : Nat \cup {Null},
   revoked       : BOOLEAN,
   disabled      : BOOLEAN,
   scopes        : SUBSET Scopes]

ASSUME NullIsNotAValue == Null \notin Nat /\ Null \notin KeyRecord

VARIABLE keyStore   (* The table: the row of each id, Null when it has none. *)

Rows == {keyStore[i] : i \in Ids} \ {Null}

-----------------------------------------------------------------------------
(* Reads: the records SELECT ... LIMIT 1 may return, Null when none match.   *)
OneOf(rows) == IF rows = {} THEN {Null} ELSE rows

FindKeyById(id) == OneOf({r \in Rows : r.id = id})

FindKeyByHash(h) == OneOf({r \in Rows : r.keyHash = h})

(* Mutant: the cutoff itself is not expired. *)
FindExpiredBefore(olderThan, limit) ==
  LET expired == {r.id : r \in {s \in Rows : s.expiresAt # Null /\ s.expiresAt < olderThan}}
  IN  {S \in SUBSET expired : S = expired \/ Cardinality(S) = limit}

(* The id lists SELECT ... WHERE expires_at <= $1 LIMIT $2 may return: the   *)
(* statement has no ORDER BY, so any choice of the right size.               *)
FindExpiredIds(olderThan, limit) ==
  LET expired == {i \in Ids : /\ keyStore[i] # Null
                              /\ keyStore[i].expiresAt # Null
                              /\ keyStore[i].expiresAt <= olderThan}
  IN  {S \in SUBSET expired :
         \/ S = expired /\ Cardinality(S) <= limit
         \/ Cardinality(S) = limit}

-----------------------------------------------------------------------------
(* Writes. *)

(* INSERT fails on a taken id and on a taken key_hash. *)
InsertConflicts(r) ==
  keyStore[r.id] # Null \/ \E s \in Rows : s.keyHash = r.keyHash

InsertKey(r) == keyStore' = [keyStore EXCEPT ![r.id] = r]

(* Mutant: a counter that the statement itself decrements. *)
UpdateKeyDecrement(r) ==
  keyStore' = [keyStore EXCEPT ![r.id] =
    IF @ = Null THEN Null
                ELSE [r EXCEPT !.usesRemaining = IF @ \in {0, Null} THEN @ ELSE @ - 1]]

(* UPDATE ... WHERE id = $9 writes every column, and does nothing when the   *)
(* row is gone.                                                              *)
UpdateKey(r) ==
  keyStore' = [keyStore EXCEPT ![r.id] = IF @ = Null THEN Null ELSE r]

RevokeKeyById(id) ==
  keyStore' = [keyStore EXCEPT ![id] =
                 IF @ = Null THEN Null ELSE [@ EXCEPT !.revoked = TRUE]]

HardRemoveKeyById(id) == keyStore' = [keyStore EXCEPT ![id] = Null]
=============================================================================
