----------------------------- MODULE DogApiProofs -----------------------------
(***************************************************************************)
(* Proofs about DogApi for every set of concurrent requests, keys and      *)
(* addresses, and every limit.                                             *)
(***************************************************************************)
EXTENDS DogApi, TLAPS

-----------------------------------------------------------------------------
(* The inductive invariant. *)

(* The maps lead to the same objects, each under its own names, and a        *)
(* request that shares an object holds what the maps lead to.                *)
Objects ==
  /\ \A k \in Keys : keyHashToRecord[k] = idToRecord[k]
  /\ \A k \in Keys : idToRecord[k] # Null => idToRecord[k].id = k /\ idToRecord[k].keyHash = k
  /\ \A w \in Callers : held[w] # Null => held[w].keyHash = held[w].id
  /\ \A w \in shared : held[w] = idToRecord[held[w].id]

(* What a request carries, in each phase of each route. *)
RequestOK(w) ==
  /\ phase[w] = "idle" <=> route[w] = Null
  /\ given[w] \in IF route[w] = "limits" THEN Remaining \cup {Null}
                                         ELSE (SUBSET Scopes) \cup {Null}
  /\ phase[w] = "charge" => held[w] # Null
  /\ held[w] # Null => held[w].id = key[w] /\ phase[w] \in {"judge", "charge", "write"}
  /\ phase[w] # "idle" /\ route[w] # "keys" => key[w] \in Keys
  /\ phase[w] \in {"lookup", "judge", "charge"} => route[w] \in Public
  /\ phase[w] = "find" => route[w] \in Grantors
  /\ phase[w] \in {"find", "write", "reread"} => route[w] \in Routes \ ({"keys"} \cup Public)
  /\ phase[w] \in {"find", "write"} /\ route[w] \in ScopeWrites \cup Grantors
       => given[w] \in SUBSET Scopes
  /\ route[w] \in Grantors =>
       /\ phase[w] \in {"find", "write"}
       /\ idToRecord[key[w]] # Null
       /\ phase[w] = "write" => held[w] # Null

(* A key that is gone is revoked in every copy. *)
Gone ==
  \A k \in gone :
    /\ idToRecord[k] # Null /\ idToRecord[k].revoked
    /\ \A w \in Callers : held[w] # Null /\ held[w].id = k => held[w].revoked

VarTypes ==
  /\ StoreTypeOK
  /\ hits \in [Addresses -> 0..Limit] /\ names \subseteq Names
  /\ phase \in [Callers -> Phases]
  /\ route \in [Callers -> Routes \cup {Null}]
  /\ key \in [Callers -> Keys \cup {Null}]
  /\ given \in [Callers -> Nat \cup (SUBSET Scopes) \cup {Null}]
  /\ handed \in [Keys -> (SUBSET Scopes) \cup {Null}] /\ gone \subseteq Keys

IInv == VarTypes /\ (\A w \in Callers : RequestOK(w)) /\ Objects /\ Gone

LEMMA InvImpliesTypes == ASSUME IInv PROVE TypeOK
BY DEF IInv, VarTypes, RequestOK, TypeOK

LEMMA InvImpliesAgreement == ASSUME IInv PROVE MapsAgree
BY DEF IInv, Objects, MapsAgree

LEMMA Initially == ASSUME Init PROVE IInv
<1>1. VarTypes
  BY DogAssumption DEF Init, EmptyStore, VarTypes, StoreTypeOK, Phases, Routes
<1>2. \A w \in Callers : RequestOK(w)
  BY NullIsNoRoute DEF Init, EmptyStore, RequestOK, Routes, Grantors, BodyRoutes, ScopeWrites
<1>3. Objects /\ Gone
  BY DogAssumption DEF Init, EmptyStore, Objects, Gone
<1> QED
  BY <1>1, <1>2, <1>3 DEF IInv

-----------------------------------------------------------------------------
(* The store. *)

(* What the other requests hold is not taken from them, and a revocation is  *)
(* not undone in it.                                                         *)
OthersKept(w) ==
  /\ \A d \in Callers \ {w} :
       /\ held'[d] = Null <=> held[d] = Null
       /\ held[d] # Null => /\ held'[d].id = held[d].id
                            /\ held[d].revoked => held'[d].revoked
  /\ \A k \in Keys : idToRecord[k] # Null => idToRecord'[k] # Null

LEMMA RecordFields ==
  ASSUME NEW r \in KeyRecord
  PROVE  /\ r # Null /\ r.id \in Keys /\ r.keyHash \in Keys
         /\ r.revoked \in BOOLEAN /\ r.scopes \in SUBSET Scopes
         /\ r.usesRemaining \in Nat \cup {Null}
BY MemoryAssumption, DogAssumption DEF KeyRecord

(* Finding a record, or letting go of one. *)
LEMMA KeepKeeps ==
  ASSUME IInv, NEW w \in Callers, NEW r, Keep(w, r), UNCHANGED maps,
         r = Null \/ \E k \in Keys : r = idToRecord[k]
  PROVE  /\ StoreTypeOK' /\ Objects' /\ OthersKept(w)
         /\ held'[w] = r /\ idToRecord' = idToRecord
<1>1. r \in KeyRecord \cup {Null}
  BY DogAssumption DEF IInv, VarTypes, StoreTypeOK
<1>2. /\ held' = [held EXCEPT ![w] = r] /\ idToRecord' = idToRecord
      /\ keyHashToRecord' = keyHashToRecord
  BY DEF Keep, maps
<1>3. held \in [Callers -> KeyRecord \cup {Null}] /\ shared \subseteq Callers
  BY DEF IInv, VarTypes, StoreTypeOK
<1>4. StoreTypeOK'
  BY <1>1, <1>2, <1>3 DEF Keep, IInv, VarTypes, StoreTypeOK
<1>5. Objects'
  BY <1>2, <1>3 DEF Keep, IInv, Objects
<1>6. OthersKept(w)
  BY <1>2, <1>3 DEF OthersKept
<1> QED
  BY <1>2, <1>3, <1>4, <1>5, <1>6

(* createKey and updateKey. *)
LEMMA UpsertKeeps ==
  ASSUME IInv, NEW w \in Callers, NEW r \in KeyRecord, Upsert(w, r), r.keyHash = r.id
  PROVE  /\ StoreTypeOK' /\ Objects' /\ OthersKept(w)
         /\ held'[w] = Null /\ idToRecord' = [idToRecord EXCEPT ![r.id] = r]
<1>1. r # Null /\ r.id \in Keys
  BY RecordFields
<1>2. /\ held \in [Callers -> KeyRecord \cup {Null}]
      /\ shared \subseteq {c \in Callers : held[c] # Null}
      /\ idToRecord \in [Keys -> KeyRecord \cup {Null}]
      /\ keyHashToRecord \in [Keys -> KeyRecord \cup {Null}]
  BY DogAssumption DEF IInv, VarTypes, StoreTypeOK
<1>3. /\ keyHashToRecord' = [keyHashToRecord EXCEPT ![r.id] = r]
      /\ idToRecord' = [idToRecord EXCEPT ![r.id] = r]
      /\ held' = [held EXCEPT ![w] = Null]
      /\ shared' = {d \in shared \ {w} : held[d].id # r.id}
  BY DEF Upsert, Replace
<1>4. StoreTypeOK'
  BY <1>1, <1>2, <1>3, DogAssumption DEF StoreTypeOK
<1>5. Objects'
  <2>1. /\ \A k \in Keys : keyHashToRecord'[k] = idToRecord'[k]
        /\ \A k \in Keys : idToRecord'[k] # Null
             => idToRecord'[k].id = k /\ idToRecord'[k].keyHash = k
    BY <1>1, <1>2, <1>3 DEF IInv, Objects
  <2>2. \A d \in Callers : held'[d] # Null => held'[d].keyHash = held'[d].id
    BY <1>2, <1>3 DEF IInv, Objects
  <2>3. \A d \in shared' : held'[d] = idToRecord'[held'[d].id]
    <3> TAKE d \in shared'
    <3>1. d \in shared /\ d # w /\ held[d].id # r.id /\ held'[d] = held[d] /\ held[d] \in KeyRecord
      BY <1>2, <1>3
    <3>2. held[d].id \in Keys
      BY <3>1, RecordFields
    <3> QED
      BY <1>2, <1>3, <3>1, <3>2 DEF IInv, Objects
  <2> QED
    BY <2>1, <2>2, <2>3 DEF Objects
<1>6. OthersKept(w)
  BY <1>1, <1>2, <1>3 DEF OthersKept
<1> QED
  BY <1>2, <1>3, <1>4, <1>5, <1>6

(* revokeKeyById. *)
LEMMA RevokeKeeps ==
  ASSUME IInv, NEW w \in Callers, NEW i \in Keys, RevokeKeyById(i)
  PROVE  /\ StoreTypeOK' /\ Objects' /\ OthersKept(w)
         /\ held'[w] = Null <=> held[w] = Null
         /\ held[w] # Null => /\ held'[w].id = held[w].id
                              /\ held[w].revoked => held'[w].revoked
         /\ \A k \in Keys : idToRecord[k] # Null /\ idToRecord[k].revoked => idToRecord'[k].revoked
         /\ idToRecord[i] # Null =>
              /\ idToRecord'[i].revoked
              /\ \A d \in shared : held[d].id = i => held'[d].revoked
<1>1. /\ held \in [Callers -> KeyRecord \cup {Null}]
      /\ shared \subseteq {c \in Callers : held[c] # Null}
      /\ idToRecord \in [Keys -> KeyRecord \cup {Null}]
      /\ keyHashToRecord \in [Keys -> KeyRecord \cup {Null}]
  BY DogAssumption DEF IInv, VarTypes, StoreTypeOK
<1>2. CASE idToRecord[i] = Null
  BY <1>1, <1>2 DEF RevokeKeyById, store, maps, IInv, VarTypes, StoreTypeOK, Objects, OthersKept
<1>3. CASE idToRecord[i] # Null
  <2> DEFINE r == [idToRecord[i] EXCEPT !.revoked = TRUE]
  <2>1. r \in KeyRecord /\ r.id = i /\ r.keyHash = i /\ r.revoked
    <3>1. idToRecord[i] \in KeyRecord /\ idToRecord[i].id = i /\ idToRecord[i].keyHash = i
      BY <1>1, <1>3 DEF IInv, Objects
    <3> QED
      BY <3>1 DEF KeyRecord
  <2>2. r # Null
    BY <2>1, RecordFields
  <2>3. /\ keyHashToRecord' = [keyHashToRecord EXCEPT ![i] = r]
        /\ idToRecord' = [idToRecord EXCEPT ![i] = r]
        /\ held' = [c \in Callers |-> IF c \in shared /\ held[c].id = i THEN r ELSE held[c]]
        /\ shared' = shared
    BY <1>3, <2>1 DEF RevokeKeyById
  <2> HIDE DEF r
  <2>4. StoreTypeOK'
    BY <1>1, <2>1, <2>2, <2>3, DogAssumption DEF StoreTypeOK
  <2>5. Objects'
    <3>1. /\ \A k \in Keys : keyHashToRecord'[k] = idToRecord'[k]
          /\ \A k \in Keys : idToRecord'[k] # Null
               => idToRecord'[k].id = k /\ idToRecord'[k].keyHash = k
      BY <1>1, <2>1, <2>2, <2>3 DEF IInv, Objects
    <3>2. \A d \in Callers : held'[d] # Null => held'[d].keyHash = held'[d].id
      BY <1>1, <2>1, <2>2, <2>3 DEF IInv, Objects
    <3>3. \A d \in shared' : held'[d] = idToRecord'[held'[d].id]
      <4> TAKE d \in shared'
      <4>1. d \in shared /\ d \in Callers /\ held[d] \in KeyRecord /\ held[d].id \in Keys
        BY <1>1, <2>3, RecordFields
      <4>2. CASE held[d].id = i
        BY <1>1, <2>1, <2>3, <4>1, <4>2
      <4>3. CASE held[d].id # i
        BY <1>1, <2>3, <4>1, <4>3 DEF IInv, Objects
      <4> QED
        BY <4>2, <4>3
    <3> QED
      BY <3>1, <3>2, <3>3 DEF Objects
  <2> QED
    BY <1>1, <2>1, <2>2, <2>3, <2>4, <2>5 DEF OthersKept
<1> QED
  BY <1>2, <1>3

-----------------------------------------------------------------------------
(* A step of one request. *)

(* Request w is now at phase p of route r. *)
Moves(w, p, r, k, g) ==
  /\ phase' = [phase EXCEPT ![w] = p]
  /\ route' = [route EXCEPT ![w] = r]
  /\ key' = [key EXCEPT ![w] = k]
  /\ given' = [given EXCEPT ![w] = g]

LEMMA StepsMove ==
  ASSUME IInv, NEW w \in Callers
  PROVE  /\ \A p : GoOn(w, p) => Moves(w, p, route[w], key[w], given[w])
         /\ Answer(w) => Moves(w, "idle", Null, Null, Null)
         /\ \A p, r, k, g : Arrive(w, r, k, g, p) => Moves(w, p, r, k, g)
         /\ UNCHANGED request => Moves(w, phase[w], route[w], key[w], given[w])
BY DEF IInv, VarTypes, GoOn, Answer, Arrive, request, Moves

(* Nobody but its own steps and those of the store concern a request. *)
LEMMA OthersOK ==
  ASSUME IInv, NEW w \in Callers, OthersKept(w), NEW p, NEW r, NEW k, NEW g,
         Moves(w, p, r, k, g), NEW d \in Callers, d # w
  PROVE  RequestOK(d)'
<1>1. /\ phase'[d] = phase[d] /\ route'[d] = route[d]
      /\ key'[d] = key[d] /\ given'[d] = given[d]
  BY DEF Moves, IInv, VarTypes
<1>2. RequestOK(d)
  BY DEF IInv
<1>3. /\ held'[d] = Null <=> held[d] = Null
      /\ held[d] # Null => held'[d].id = held[d].id
  BY DEF OthersKept
<1>4. route[d] \in Grantors => idToRecord'[key'[d]] # Null
  <2> SUFFICES ASSUME route[d] \in Grantors PROVE idToRecord'[key'[d]] # Null
    OBVIOUS
  <2>1. key[d] \in Keys /\ idToRecord[key[d]] # Null
    BY <1>2 DEF RequestOK, Grantors
  <2> QED
    BY <1>1, <2>1 DEF OthersKept
<1> QED
  BY <1>1, <1>2, <1>3, <1>4 DEF RequestOK

LEMMA GoneKept ==
  ASSUME IInv, NEW w \in Callers, OthersKept(w), gone' = gone,
         \A k \in gone : idToRecord'[k].revoked,
         held'[w] # Null /\ held'[w].id \in gone => held'[w].revoked
  PROVE  Gone'
<1>1. gone \subseteq Keys /\ Gone
  BY DEF IInv, VarTypes
<1> SUFFICES ASSUME NEW k \in gone
             PROVE  /\ idToRecord'[k] # Null /\ idToRecord'[k].revoked
                    /\ \A d \in Callers : held'[d] # Null /\ held'[d].id = k => held'[d].revoked
  BY DEF Gone
<1>2. idToRecord'[k] # Null /\ idToRecord'[k].revoked
  BY <1>1 DEF Gone, OthersKept
<1>3. \A d \in Callers : held'[d] # Null /\ held'[d].id = k => held'[d].revoked
  <2> TAKE d \in Callers
  <2>1. CASE d = w
    BY <2>1
  <2>2. CASE d # w
    BY <1>1, <2>2 DEF Gone, OthersKept
  <2> QED
    BY <2>1, <2>2
<1> QED
  BY <1>2, <1>3

LEMMA StepKeeps ==
  ASSUME IInv, NEW w \in Callers,
         NEW p \in Phases, NEW r \in Routes \cup {Null}, NEW k \in Keys \cup {Null},
         NEW g \in Nat \cup (SUBSET Scopes) \cup {Null}, Moves(w, p, r, k, g),
         StoreTypeOK', Objects', OthersKept(w), RequestOK(w)', Gone',
         hits' \in [Addresses -> 0..Limit], names' \subseteq Names,
         handed' \in [Keys -> (SUBSET Scopes) \cup {Null}], gone' \subseteq Keys
  PROVE  IInv'
<1>1. VarTypes'
  BY DEF IInv, VarTypes, Moves
<1>2. \A d \in Callers : RequestOK(d)'
  BY OthersOK
<1> QED
  BY <1>1, <1>2 DEF IInv

(* A step that leaves the store alone. *)
LEMMA StoreRests ==
  ASSUME IInv, NEW w \in Callers, UNCHANGED store, gone' = gone
  PROVE  StoreTypeOK' /\ Objects' /\ OthersKept(w) /\ Gone'
BY DEF IInv, VarTypes, store, maps, StoreTypeOK, Objects, OthersKept, Gone

LEMMA Unfold ==
  ASSUME IInv, NEW w \in Callers
  PROVE  /\ phase[w] \in Phases /\ route[w] \in Routes \cup {Null}
         /\ key[w] \in Keys \cup {Null}
         /\ given[w] \in Nat \cup (SUBSET Scopes) \cup {Null}
         /\ held[w] \in KeyRecord \cup {Null}
         /\ held[w] # Null => held[w].keyHash = held[w].id /\ held[w].id = key[w] /\ key[w] \in Keys
         /\ phase[w] \notin {"judge", "charge", "write"} => held[w] = Null
         /\ hits \in [Addresses -> 0..Limit] /\ names \subseteq Names
         /\ handed \in [Keys -> (SUBSET Scopes) \cup {Null}] /\ gone \subseteq Keys
         /\ idToRecord \in [Keys -> KeyRecord \cup {Null}]
         /\ RequestOK(w) /\ Objects /\ Gone
<1>1. held[w] \in KeyRecord \cup {Null} /\ RequestOK(w) /\ Objects /\ Gone
  BY DEF IInv, VarTypes, StoreTypeOK
<1>2. held[w] # Null => held[w].keyHash = held[w].id /\ held[w].id = key[w] /\ key[w] \in Keys
  BY <1>1, RecordFields DEF RequestOK, Objects
<1>3. phase[w] \notin {"judge", "charge", "write"} => held[w] = Null
  BY <1>1 DEF RequestOK
<1> QED
  BY <1>1, <1>2, <1>3, DogAssumption DEF IInv, VarTypes, StoreTypeOK

-----------------------------------------------------------------------------
(* Every step preserves the invariant; one lemma for each kind of action. *)

LEMMA VerifyKeeps ==
  ASSUME IInv, NEW w \in Callers, NEW r \in Public, NEW required \in SUBSET Scopes,
         Verify(w, r, required)
  PROVE  IInv'
<1>1. PICK k \in Keys, a \in Addresses :
        /\ ~Full(a) /\ hits' = [hits EXCEPT ![a] = @ + 1]
        /\ Arrive(w, r, k, required, "lookup")
        /\ UNCHANGED <<store, names, handed, gone>>
  BY DEF Verify
<1>2. Moves(w, "lookup", r, k, required) /\ phase[w] = "idle"
  BY <1>1, StepsMove DEF Arrive, Idle
<1>3. hits' \in [Addresses -> 0..Limit]
  <2>1. hits[a] \in 0..Limit /\ hits[a] < Limit
    BY <1>1, Unfold, DogAssumption DEF Full
  <2> QED
    BY <1>1, <2>1, Unfold, DogAssumption
<1>4. held[w] = Null /\ held' = held
  BY <1>1, <1>2, Unfold DEF store
<1>5. RequestOK(w)'
  BY <1>2, <1>4, NullIsNoRoute DEF Moves, RequestOK, IInv, VarTypes, Public, Routes, Grantors
<1>6. "lookup" \in Phases /\ r \in Routes
  BY DEF Phases, Routes
<1> QED
  BY <1>1, <1>2, <1>3, <1>5, <1>6, StoreRests, StepKeeps, Unfold

LEMMA LookupKeeps == ASSUME IInv, NEW w \in Callers, Lookup(w) PROVE IInv'
<1>1. /\ key[w] \in Keys /\ route[w] \in Public /\ held[w] = Null
  BY Unfold DEF Lookup, RequestOK, Public
<1>2. Keep(w, idToRecord[key[w]]) /\ UNCHANGED maps
  BY <1>1, Unfold DEF Lookup, FindKeyByHash, Objects
<1>3. /\ StoreTypeOK' /\ Objects' /\ OthersKept(w)
      /\ held'[w] = idToRecord[key[w]] /\ idToRecord' = idToRecord
  BY <1>1, <1>2, KeepKeeps
<1>4. Moves(w, "judge", route[w], key[w], given[w]) /\ phase[w] = "lookup"
  BY StepsMove DEF Lookup
<1>5. held'[w] # Null => held'[w].id = key[w] /\ (key[w] \in gone => held'[w].revoked)
  BY <1>1, <1>3, Unfold DEF Objects, Gone
<1>6. RequestOK(w)'
  BY <1>1, <1>4, <1>5, NullIsNoRoute, Unfold
  DEF Moves, RequestOK, IInv, VarTypes, Public, Routes, Grantors, ScopeWrites
<1>7. Gone'
  BY <1>3, <1>5, GoneKept, Unfold DEF Lookup, Gone
<1>8. "judge" \in Phases
  BY DEF Phases
<1> QED
  BY <1>3, <1>4, <1>6, <1>7, <1>8, StepKeeps, Unfold DEF Lookup

LEMMA JudgeKeeps == ASSUME IInv, NEW w \in Callers, Judge(w) PROVE IInv'
<1>1. phase[w] = "judge" /\ route[w] \in Public /\ key[w] \in Keys
  BY Unfold DEF Judge, RequestOK, Public
<1>2. CASE Valid(held[w], given[w])
  <2>1. UNCHANGED store /\ Moves(w, "charge", route[w], key[w], given[w]) /\ held[w] # Null
    BY <1>2, StepsMove DEF Judge, Valid
  <2>2. RequestOK(w)'
    BY <1>1, <2>1, NullIsNoRoute, Unfold
    DEF Moves, RequestOK, IInv, VarTypes, Public, Routes, Grantors, ScopeWrites, store
  <2>3. "charge" \in Phases
    BY DEF Phases
  <2> QED
    BY <2>1, <2>2, <2>3, StoreRests, StepKeeps, Unfold DEF Judge
<1>3. CASE ~Valid(held[w], given[w])
  <2>1. Keep(w, Null) /\ UNCHANGED maps /\ Moves(w, "idle", Null, Null, Null)
    BY <1>3, StepsMove DEF Judge, Release
  <2>2. StoreTypeOK' /\ Objects' /\ OthersKept(w) /\ held'[w] = Null /\ idToRecord' = idToRecord
    BY <2>1, KeepKeeps
  <2>3. RequestOK(w)'
    BY <2>1, <2>2, NullIsNoRoute DEF Moves, RequestOK, IInv, VarTypes, Routes, Grantors, BodyRoutes
  <2>4. Gone'
    BY <2>2, GoneKept, Unfold DEF Judge, Gone
  <2>5. "idle" \in Phases
    BY DEF Phases
  <2> QED
    BY <2>1, <2>2, <2>3, <2>4, <2>5, StepKeeps, Unfold DEF Judge
<1> QED
  BY <1>2, <1>3

(* Answering a request that holds nothing. *)
LEMMA AnswerKeeps ==
  ASSUME IInv, NEW w \in Callers, StoreTypeOK', Objects', OthersKept(w), Gone',
         Answer(w), held'[w] = Null, hits' = hits, names' \subseteq Names,
         handed' \in [Keys -> (SUBSET Scopes) \cup {Null}], gone' \subseteq Keys
  PROVE  IInv'
<1>1. Moves(w, "idle", Null, Null, Null)
  BY StepsMove
<1>2. RequestOK(w)'
  BY <1>1, NullIsNoRoute DEF Moves, RequestOK, IInv, VarTypes, Routes, Grantors, BodyRoutes
<1>3. "idle" \in Phases
  BY DEF Phases
<1> QED
  BY <1>1, <1>2, <1>3, StepKeeps, Unfold

LEMMA ChargeKeeps == ASSUME IInv, NEW w \in Callers, Charge(w) PROVE IInv'
<1>1. /\ phase[w] = "charge" /\ route[w] \in Public /\ key[w] \in Keys
      /\ held[w] \in KeyRecord /\ held[w].id = key[w] /\ held[w].keyHash = key[w]
  BY Unfold DEF Charge, RequestOK, Public
<1>2. /\ StoreTypeOK' /\ Objects' /\ OthersKept(w) /\ held'[w] = Null
      /\ \A k \in gone : idToRecord'[k].revoked
  <2>1. CASE held[w].usesRemaining \in {Null, 0}
    <3>1. Keep(w, Null) /\ UNCHANGED maps
      BY <2>1 DEF Charge, Release
    <3> QED
      BY <3>1, KeepKeeps, Unfold DEF Gone
  <2>2. CASE held[w].usesRemaining \notin {Null, 0}
    <3> DEFINE r == [held[w] EXCEPT !.usesRemaining = @ - 1]
    <3>1. Upsert(w, r)
      BY <2>2 DEF Charge, UpdateKey
    <3>2. held[w].usesRemaining \in Nat /\ held[w].usesRemaining # 0
      BY <1>1, <2>2, RecordFields
    <3>3. r \in KeyRecord /\ r.id = key[w] /\ r.keyHash = key[w] /\ r.revoked = held[w].revoked
      BY <1>1, <3>2 DEF KeyRecord
    <3> HIDE DEF r
    <3>4. /\ StoreTypeOK' /\ Objects' /\ OthersKept(w) /\ held'[w] = Null
          /\ idToRecord' = [idToRecord EXCEPT ![key[w]] = r]
      BY <3>1, <3>3, UpsertKeeps
    <3>5. \A k \in gone : idToRecord'[k].revoked
      <4>1. key[w] \in gone => held[w].revoked
        BY <1>1, Unfold, RecordFields DEF Gone
      <4> QED
        BY <1>1, <3>3, <3>4, <4>1, Unfold DEF Gone
    <3> QED
      BY <3>4, <3>5
  <2> QED
    BY <2>1, <2>2
<1>3. Gone'
  BY <1>2, GoneKept DEF Charge
<1>4. CASE route[w] = "manage"
  <2>1. Moves(w, "body", route[w], key[w], given[w])
    BY <1>4, StepsMove DEF Charge
  <2>2. RequestOK(w)'
    BY <1>1, <1>2, <1>4, <2>1, NullIsNoRoute, Unfold
    DEF Moves, RequestOK, IInv, VarTypes, Public, Routes, Grantors, ScopeWrites
  <2>3. "body" \in Phases
    BY DEF Phases
  <2> QED
    BY <1>2, <1>3, <2>1, <2>2, <2>3, StepKeeps, Unfold DEF Charge
<1>5. CASE route[w] # "manage"
  BY <1>2, <1>3, <1>5, AnswerKeeps, Unfold DEF Charge
<1> QED
  BY <1>4, <1>5

LEMMA AnswersKeep ==
  ASSUME IInv, NEW w \in Callers, Manage(w) \/ BadBody(w) \/ Reread(w)
  PROVE  IInv'
<1>1. /\ UNCHANGED store /\ Answer(w) /\ hits' = hits /\ handed' = handed /\ gone' = gone
      /\ phase[w] \in {"body", "reread"} /\ names' \subseteq Names
  BY Unfold DEF Manage, BadBody, Reread
<1>2. held'[w] = Null
  BY <1>1, Unfold DEF store
<1> QED
  BY <1>1, <1>2, StoreRests, AnswerKeeps, Unfold

(* A new key, under a name that no request has. *)
LEMMA CreationKeeps ==
  ASSUME IInv, NEW w \in Callers, NEW k \in Unissued, NEW s \in SUBSET Scopes,
         NEW d \in BOOLEAN, CreateKey(w, NewRecord(k, s, d)), gone' = gone
  PROVE  /\ StoreTypeOK' /\ Objects' /\ OthersKept(w) /\ held'[w] = Null /\ Gone'
         /\ idToRecord' = [idToRecord EXCEPT ![k] = NewRecord(k, s, d)]
         /\ NewRecord(k, s, d) # Null /\ k \in Keys
<1> DEFINE r == NewRecord(k, s, d)
<1>1. k \in Keys /\ idToRecord[k] = Null
  BY DEF Unissued
<1>2. r \in KeyRecord /\ r.id = k /\ r.keyHash = k
  BY <1>1, DogAssumption DEF NewRecord, KeyRecord
<1> HIDE DEF r
<1>3. Upsert(w, r)
  BY DEF CreateKey, r
<1>4. /\ StoreTypeOK' /\ Objects' /\ OthersKept(w) /\ held'[w] = Null
      /\ idToRecord' = [idToRecord EXCEPT ![k] = r]
  BY <1>2, <1>3, UpsertKeeps
<1>5. \A j \in gone : idToRecord'[j].revoked
  BY <1>1, <1>4, Unfold DEF Gone
<1>6. r # Null
  BY <1>2, RecordFields
<1> QED
  BY <1>1, <1>4, <1>5, <1>6, GoneKept DEF r

LEMMA CreateFromBodyKeeps == ASSUME IInv, NEW w \in Callers, CreateFromBody(w) PROVE IInv'
<1>1. PICK k \in Unissued, s \in Grants \cup {{}}, d \in BOOLEAN :
        CreateKey(w, NewRecord(k, s, d)) /\ HandOut(k, s)
  BY DEF CreateFromBody
<1>2. s \in SUBSET Scopes /\ gone' = gone
  BY DogAssumption DEF CreateFromBody
<1>3. StoreTypeOK' /\ Objects' /\ OthersKept(w) /\ held'[w] = Null /\ Gone' /\ k \in Keys
  BY <1>1, <1>2, CreationKeeps
<1>4. handed' \in [Keys -> (SUBSET Scopes) \cup {Null}]
  BY <1>1, <1>2, <1>3, Unfold DEF HandOut
<1> QED
  BY <1>3, <1>4, AnswerKeeps, Unfold DEF CreateFromBody

LEMMA CreateProKeeps == ASSUME IInv, NEW w \in Callers, CreatePro(w) PROVE IInv'
<1>1. PICK k \in Unissued : CreateKey(w, NewRecord(k, {}, FALSE)) /\ HandOut(k, {})
  BY DEF CreatePro
<1>2. phase[w] = "idle" /\ Moves(w, phase[w], route[w], key[w], given[w]) /\ gone' = gone
  BY StepsMove DEF CreatePro, Idle
<1>3. StoreTypeOK' /\ Objects' /\ OthersKept(w) /\ held'[w] = Null /\ Gone' /\ k \in Keys
  BY <1>1, <1>2, CreationKeeps
<1>4. handed' \in [Keys -> (SUBSET Scopes) \cup {Null}]
  BY <1>1, <1>3, Unfold DEF HandOut
<1>5. RequestOK(w)'
  BY <1>2, <1>3, NullIsNoRoute, Unfold
  DEF Moves, RequestOK, IInv, VarTypes, Routes, Grantors, BodyRoutes
<1> QED
  BY <1>2, <1>3, <1>4, <1>5, StepKeeps, Unfold DEF CreatePro

LEMMA CreateAndGrantKeeps ==
  ASSUME IInv, NEW w \in Callers, NEW r \in Grantors, NEW s \in SUBSET Scopes,
         CreateAndGrant(w, r, s)
  PROVE  IInv'
<1>1. PICK k \in Unissued :
        CreateKey(w, NewRecord(k, {}, FALSE)) /\ Arrive(w, r, k, s, "find")
  BY DEF CreateAndGrant
<1>2. Moves(w, "find", r, k, s) /\ gone' = gone
  BY <1>1, StepsMove DEF CreateAndGrant
<1>3. /\ StoreTypeOK' /\ Objects' /\ OthersKept(w) /\ held'[w] = Null /\ Gone'
      /\ k \in Keys /\ idToRecord'[k] # Null
  <2>1. /\ StoreTypeOK' /\ Objects' /\ OthersKept(w) /\ held'[w] = Null /\ Gone'
        /\ k \in Keys /\ NewRecord(k, {}, FALSE) # Null
        /\ idToRecord' = [idToRecord EXCEPT ![k] = NewRecord(k, {}, FALSE)]
    BY <1>1, <1>2, CreationKeeps
  <2> QED
    BY <2>1, Unfold
<1>4. RequestOK(w)'
  BY <1>2, <1>3, NullIsNoRoute
  DEF Moves, RequestOK, IInv, VarTypes, Routes, Public, Grantors, BodyRoutes, ScopeWrites
<1>5. "find" \in Phases /\ r \in Routes
  BY DEF Phases, Routes
<1> QED
  BY <1>2, <1>3, <1>4, <1>5, StepKeeps, Unfold DEF CreateAndGrant

LEMMA AwaitBodyKeeps ==
  ASSUME IInv, NEW w \in Callers,
         PostKeys(w) \/ \E r \in BodyRoutes : AwaitBody(w, r)
  PROVE  IInv'
<1>1. PICK r \in BodyRoutes \cup {"keys"}, k \in Keys \cup {Null} :
        /\ Arrive(w, r, k, Null, "body") /\ (r # "keys" => k \in Keys)
        /\ UNCHANGED <<store, hits, names, handed, gone>>
  BY DEF PostKeys, AwaitBody, BodyRoutes, ScopeWrites
<1>2. Moves(w, "body", r, k, Null) /\ phase[w] = "idle"
  BY <1>1, StepsMove DEF Arrive, Idle
<1>3. held'[w] = Null
  BY <1>1, <1>2, Unfold DEF store
<1>4. RequestOK(w)'
  BY <1>1, <1>2, <1>3, NullIsNoRoute
  DEF Moves, RequestOK, IInv, VarTypes, Routes, Public, Grantors, BodyRoutes, ScopeWrites
<1>5. "body" \in Phases /\ r \in Routes
  BY DEF Phases, Routes
<1> QED
  BY <1>1, <1>2, <1>4, <1>5, StoreRests, StepKeeps, Unfold

(* A method has found the record it will change. *)
LEMMA FindKeeps ==
  ASSUME IInv, NEW w \in Callers, NEW k \in Keys, FindKeyById(w, k),
         NEW r \in Switches \cup BodyRoutes \cup Grantors,
         NEW g \in Nat \cup (SUBSET Scopes) \cup {Null},
         Moves(w, "write", r, k, g),
         IF r = "limits" THEN g \in Remaining
         ELSE r \notin Switches => g \in SUBSET Scopes,
         r \in Switches => g = Null,
         r \in Grantors => idToRecord[k] # Null,
         UNCHANGED <<hits, names, handed, gone>>
  PROVE  IInv'
<1>1. Keep(w, idToRecord[k]) /\ UNCHANGED maps
  BY DEF FindKeyById
<1>2. /\ StoreTypeOK' /\ Objects' /\ OthersKept(w)
      /\ held'[w] = idToRecord[k] /\ idToRecord' = idToRecord
  BY <1>1, KeepKeeps
<1>3. held'[w] # Null => held'[w].id = k /\ (k \in gone => held'[w].revoked)
  BY <1>2, Unfold DEF Objects, Gone
<1>4. RequestOK(w)'
  BY <1>2, <1>3, NullIsNoRoute
  DEF Moves, RequestOK, IInv, VarTypes, Routes, Public, Switches, Grantors, BodyRoutes, ScopeWrites
<1>5. Gone'
  BY <1>2, <1>3, GoneKept, Unfold DEF Gone
<1>6. "write" \in Phases /\ r \in Routes
  BY DEF Phases, Routes
<1> QED
  BY <1>2, <1>4, <1>5, <1>6, StepKeeps, Unfold

LEMMA FindCreatedKeeps == ASSUME IInv, NEW w \in Callers, FindCreated(w) PROVE IInv'
<1>1. phase[w] = "find" /\ RequestOK(w) /\ FindKeyById(w, key[w])
  BY Unfold DEF FindCreated
<1>2. /\ route[w] \in Grantors /\ key[w] \in Keys /\ given[w] \in SUBSET Scopes
      /\ idToRecord[key[w]] # Null
  BY <1>1 DEF RequestOK, Grantors
<1>3. Moves(w, "write", route[w], key[w], given[w])
  BY StepsMove DEF FindCreated
<1> QED
  BY <1>1, <1>2, <1>3, FindKeeps DEF FindCreated, Grantors, Switches, BodyRoutes

LEMMA SwitchKeeps ==
  ASSUME IInv, NEW w \in Callers, NEW r \in Switches, Switch(w, r) PROVE IInv'
<1>1. PICK k \in Keys : Moves(w, "write", r, k, Null) /\ FindKeyById(w, k)
  BY StepsMove DEF Switch
<1> QED
  BY <1>1, FindKeeps DEF Switch, Switches, Grantors

LEMMA GoodBodyKeeps == ASSUME IInv, NEW w \in Callers, GoodBody(w) PROVE IInv'
<1>1. PICK g \in IF route[w] = "limits" THEN Remaining ELSE Grants :
        given' = [given EXCEPT ![w] = g]
  BY DEF GoodBody
<1>2. /\ phase[w] = "body" /\ route[w] \in BodyRoutes /\ key[w] \in Keys
      /\ FindKeyById(w, key[w])
  BY Unfold DEF GoodBody, RequestOK, BodyRoutes, ScopeWrites
<1>3. Moves(w, "write", route[w], key[w], g)
  BY <1>1 DEF Moves, GoodBody, IInv, VarTypes
<1>4. /\ route[w] = "limits" => g \in Remaining /\ g \in Nat
      /\ route[w] # "limits" => g \in SUBSET Scopes
  BY <1>1, DogAssumption
<1> QED
  BY <1>2, <1>3, <1>4, FindKeeps DEF GoodBody, Switches, Grantors, BodyRoutes, ScopeWrites

LEMMA DeleteKeeps == ASSUME IInv, NEW w \in Callers, Delete(w) PROVE IInv'
<1>1. PICK k \in Keys :
        /\ Idle(w) /\ RevokeKeyById(k) /\ UNCHANGED <<hits, names, request, handed>>
        /\ gone' = IF idToRecord[k] # Null /\ OnlyCurrent(k) THEN gone \cup {k} ELSE gone
  BY DEF Delete
<1>2. phase[w] = "idle" /\ held[w] = Null /\ Moves(w, phase[w], route[w], key[w], given[w])
  BY <1>1, StepsMove, Unfold DEF Idle
<1>3. /\ StoreTypeOK' /\ Objects' /\ OthersKept(w) /\ held'[w] = Null
      /\ \A j \in Keys : idToRecord[j] # Null /\ idToRecord[j].revoked => idToRecord'[j].revoked
      /\ idToRecord[k] # Null =>
           /\ idToRecord'[k].revoked
           /\ \A d \in shared : held[d].id = k => held'[d].revoked
  BY <1>1, <1>2, RevokeKeeps
<1>4. RequestOK(w)'
  BY <1>2, <1>3, Unfold, NullIsNoRoute
  DEF Moves, RequestOK, IInv, VarTypes, Routes, Grantors, BodyRoutes
<1>5. Gone'
  <2> SUFFICES ASSUME NEW j \in gone'
               PROVE  /\ idToRecord'[j] # Null /\ idToRecord'[j].revoked
                      /\ \A d \in Callers : held'[d] # Null /\ held'[d].id = j => held'[d].revoked
    BY DEF Gone
  <2>1. CASE j \in gone
    BY <1>2, <1>3, <2>1, Unfold DEF Gone, OthersKept
  <2>2. CASE j \notin gone
    <3>1. j = k /\ idToRecord[k] # Null /\ OnlyCurrent(k)
      BY <1>1, <2>2
    <3> QED
      BY <1>2, <1>3, <3>1 DEF OnlyCurrent, OthersKept
  <2> QED
    BY <2>1, <2>2
<1>6. gone' \subseteq Keys
  BY <1>1, Unfold
<1> QED
  BY <1>1, <1>2, <1>3, <1>4, <1>5, <1>6, StepKeeps, Unfold

(* The end of a method that wrote, or had nothing to write. *)
LEMMA WrittenKeeps ==
  ASSUME IInv, NEW w \in Callers, phase[w] = "write", Written(w),
         StoreTypeOK', Objects', OthersKept(w), held'[w] = Null,
         \A k \in gone : idToRecord'[k].revoked
  PROVE  IInv'
<1>1. key[w] \in Keys /\ (route[w] \in Grantors => given[w] \in SUBSET Scopes)
  BY Unfold, NullIsNoRoute DEF RequestOK
<1>2. handed' \in [Keys -> (SUBSET Scopes) \cup {Null}]
  BY <1>1, Unfold DEF Written, HandOut
<1>3. Gone'
  BY GoneKept DEF Written
<1>4. CASE route[w] \in Rereads
  <2>1. Moves(w, "reread", route[w], key[w], given[w])
    BY <1>4, StepsMove DEF Written
  <2>2. RequestOK(w)'
    BY <1>1, <1>4, <2>1, Unfold, NullIsNoRoute
    DEF Moves, RequestOK, IInv, VarTypes, Routes, Public, Grantors, BodyRoutes, ScopeWrites, Rereads
  <2>3. "reread" \in Phases
    BY DEF Phases
  <2> QED
    BY <1>2, <1>3, <2>1, <2>2, <2>3, StepKeeps, Unfold DEF Written
<1>5. CASE route[w] \notin Rereads
  BY <1>2, <1>3, <1>5, AnswerKeeps, Unfold DEF Written
<1> QED
  BY <1>4, <1>5

LEMMA WriteMissingKeeps == ASSUME IInv, NEW w \in Callers, WriteMissing(w) PROVE IInv'
<1>1. StoreTypeOK' /\ Objects' /\ OthersKept(w) /\ held'[w] = Null /\ idToRecord' = idToRecord
  BY StoreRests DEF WriteMissing, Written, store, maps
<1> QED
  BY <1>1, WrittenKeeps, Unfold DEF WriteMissing, Gone

(* No method of a route revives, renames or unnames a record. *)
LEMMA ChangedTyped ==
  ASSUME IInv, NEW w \in Callers, phase[w] = "write", held[w] # Null
  PROVE  LET r == Changed(route[w], held[w], given[w])
         IN  /\ r \in KeyRecord /\ r.id = key[w] /\ r.keyHash = key[w] /\ r.revoked = held[w].revoked
             /\ route[w] \in Grantors => given[w] \subseteq r.scopes
<1>1. /\ held[w] \in KeyRecord /\ held[w].id = key[w] /\ held[w].keyHash = key[w]
      /\ held[w].scopes \in SUBSET Scopes
  BY Unfold, RecordFields
<1>2. /\ route[w] \in Routes \ ({"keys"} \cup Public)
      /\ route[w] = "limits" => given[w] \in Nat \cup {Null}
      /\ route[w] \in ScopeWrites \cup Grantors => given[w] \in SUBSET Scopes
  BY Unfold, DogAssumption, NullIsNoRoute DEF RequestOK
<1>3. CASE route[w] \in {"enable", "disable", "limits"}
  BY <1>1, <1>2, <1>3 DEF Changed, KeyRecord, Grantors
<1>4. CASE route[w] \in ScopeWrites \cup Grantors
  <2>1. CASE route[w] = "setScopes"
    BY <1>1, <1>2, <1>4, <2>1 DEF Changed, KeyRecord, Grantors
  <2>2. CASE route[w] = "revokeScopes"
    BY <1>1, <1>2, <1>4, <2>2 DEF Changed, KeyRecord, Grantors
  <2>3. CASE route[w] \in {"grant"} \cup Grantors
    BY <1>1, <1>2, <1>4, <2>3 DEF Changed, KeyRecord, Grantors
  <2> QED
    BY <1>4, <2>1, <2>2, <2>3 DEF ScopeWrites
<1> QED
  BY <1>2, <1>3, <1>4 DEF Routes, Switches, BodyRoutes

LEMMA WriteKeeps == ASSUME IInv, NEW w \in Callers, Write(w) PROVE IInv'
<1> DEFINE r == Changed(route[w], held[w], given[w])
<1>1. /\ phase[w] = "write" /\ held[w] # Null /\ Upsert(w, r) /\ key[w] \in Keys
      /\ held[w].id = key[w] /\ held[w] \in KeyRecord
  BY Unfold DEF Write, UpdateKey
<1>2. r \in KeyRecord /\ r.id = key[w] /\ r.keyHash = key[w] /\ r.revoked = held[w].revoked
  BY <1>1, ChangedTyped
<1> HIDE DEF r
<1>3. /\ StoreTypeOK' /\ Objects' /\ OthersKept(w) /\ held'[w] = Null
      /\ idToRecord' = [idToRecord EXCEPT ![key[w]] = r]
  BY <1>1, <1>2, UpsertKeeps
<1>4. \A k \in gone : idToRecord'[k].revoked
  <2>1. key[w] \in gone => held[w].revoked
    BY <1>1, Unfold DEF Gone
  <2> QED
    BY <1>1, <1>2, <1>3, <2>1, Unfold DEF Gone
<1> QED
  BY <1>1, <1>3, <1>4, WrittenKeeps DEF Write

LEMMA WindowEndsKeeps == ASSUME IInv, WindowEnds PROVE IInv'
<1>1. hits' \in [Addresses -> 0..Limit]
  BY DogAssumption DEF WindowEnds, IInv, VarTypes
<1>2. VarTypes'
  BY <1>1 DEF WindowEnds, IInv, VarTypes, store, maps, request, StoreTypeOK
<1>3. \A w \in Callers : RequestOK(w)'
  BY DEF WindowEnds, IInv, RequestOK, store, maps, request
<1>4. Objects' /\ Gone'
  BY DEF WindowEnds, IInv, Objects, Gone, store, maps
<1> QED
  BY <1>2, <1>3, <1>4 DEF IInv

LEMMA StutterKeeps == ASSUME IInv, UNCHANGED vars PROVE IInv'
<1>1. VarTypes'
  BY DEF vars, IInv, VarTypes, store, maps, request, StoreTypeOK
<1>2. \A w \in Callers : RequestOK(w)'
  BY DEF vars, IInv, RequestOK, store, maps, request
<1>3. Objects' /\ Gone'
  BY DEF vars, IInv, Objects, Gone, store, maps
<1> QED
  BY <1>1, <1>2, <1>3 DEF IInv

LEMMA Inductive == ASSUME IInv, [Next]_vars PROVE IInv'
<1>1. ASSUME NEW w \in Callers, Arrival(w) PROVE IInv'
  <2>1. CASE GetDogs(w) \/ GetFacts(w) \/ PostManage(w)
    <3>1. {} \in SUBSET Scopes /\ {"premium"} \in SUBSET Scopes /\ {"admin"} \in SUBSET Scopes
      BY DogAssumption
    <3> QED
      BY <2>1, <3>1, VerifyKeeps DEF GetDogs, GetFacts, PostManage, Public
  <2>2. CASE PostKeys(w) \/ PutLimits(w) \/ PutScopes(w) \/ PostGrant(w) \/ PostRevoke(w)
    BY <2>2, AwaitBodyKeeps DEF PutLimits, PutScopes, PostGrant, PostRevoke, BodyRoutes, ScopeWrites
  <2>3. CASE CreatePro(w)
    BY <2>3, CreateProKeeps
  <2>4. CASE CreatePremium(w) \/ CreateAdmin(w)
    <3>1. {"premium"} \in SUBSET Scopes /\ {"admin", "premium"} \in SUBSET Scopes
      BY DogAssumption
    <3> QED
      BY <2>4, <3>1, CreateAndGrantKeeps DEF CreatePremium, CreateAdmin, Grantors
  <2>5. CASE Delete(w)
    BY <2>5, DeleteKeeps
  <2>6. CASE PutEnable(w) \/ PutDisable(w)
    BY <2>6, SwitchKeeps DEF PutEnable, PutDisable, Switches
  <2> QED
    BY <1>1, <2>1, <2>2, <2>3, <2>4, <2>5, <2>6 DEF Arrival
<1>2. ASSUME NEW w \in Callers, Step(w) PROVE IInv'
  BY <1>2, LookupKeeps, JudgeKeeps, ChargeKeeps, AnswersKeep, CreateFromBodyKeeps,
     FindCreatedKeeps, GoodBodyKeeps, WriteMissingKeeps, WriteKeeps DEF Step
<1> QED
  BY <1>1, <1>2, WindowEndsKeeps, StutterKeeps DEF Next

LEMMA Invariance == Spec => []IInv
BY Initially, Inductive, PTL DEF Spec

-----------------------------------------------------------------------------
(* Revocation. *)

LEMMA GoneGrows == ASSUME [Next]_vars PROVE gone \subseteq gone'
<1>1. ASSUME NEW w \in Callers, Arrival(w) PROVE gone \subseteq gone'
  BY <1>1 DEF Arrival, GetDogs, GetFacts, PostManage, Verify, PostKeys, CreatePro, CreatePremium,
     CreateAdmin, CreateAndGrant, Delete, PutEnable, PutDisable, Switch, PutLimits, PutScopes,
     PostGrant, PostRevoke, AwaitBody
<1>2. ASSUME NEW w \in Callers, Step(w) PROVE gone \subseteq gone'
  BY <1>2 DEF Step, Lookup, Judge, Charge, Manage, CreateFromBody, FindCreated, BadBody,
     GoodBody, WriteMissing, Write, Written, Reread
<1> QED
  BY <1>1, <1>2 DEF Next, WindowEnds, vars

(* A request leaves the phase "judge" by its own step only. *)
LEMMA OnlyJudgeCharges ==
  ASSUME IInv, [Next]_vars, NEW w \in Callers, phase[w] = "judge", phase'[w] = "charge"
  PROVE  Judge(w)
<1>1. phase \in [Callers -> Phases]
  BY DEF IInv, VarTypes
<1>2. ASSUME NEW d \in Callers, Arrival(d) PROVE FALSE
  <2>1. phase'[w] = phase[w] \/ (phase[w] = "idle" /\ d = w)
    BY <1>1, <1>2 DEF Arrival, GetDogs, GetFacts, PostManage, Verify, PostKeys, CreatePro,
       CreatePremium, CreateAdmin, CreateAndGrant, Delete, PutEnable, PutDisable, Switch,
       PutLimits, PutScopes, PostGrant, PostRevoke, AwaitBody, Arrive, Idle, request
  <2> QED
    BY <2>1
<1>3. ASSUME NEW d \in Callers, Step(d), ~Judge(w) PROVE FALSE
  <2>1. CASE d = w
    BY <1>3, <2>1 DEF Step, Lookup, Charge, Manage, CreateFromBody, FindCreated, BadBody,
       GoodBody, WriteMissing, Write, Reread
  <2>2. CASE d # w
    <3>1. phase'[w] = phase[w]
      BY <1>1, <1>3, <2>2 DEF Step, Lookup, Judge, Charge, Manage, CreateFromBody, FindCreated,
         BadBody, GoodBody, WriteMissing, Write, Written, Reread, GoOn, Answer
    <3> QED
      BY <3>1
  <2> QED
    BY <2>1, <2>2
<1>4. CASE WindowEnds \/ UNCHANGED vars
  BY <1>4 DEF WindowEnds, vars, request
<1> QED
  BY <1>2, <1>3, <1>4 DEF Next

LEMMA RevocationStep ==
  ASSUME IInv, [Next]_vars, NEW k \in gone
  PROVE  /\ idToRecord'[k].revoked
         /\ \A w \in Callers : phase[w] = "judge" /\ key[w] = k => phase'[w] # "charge"
<1>1. idToRecord'[k].revoked
  BY Inductive, GoneGrows DEF IInv, Gone
<1>2. ASSUME NEW w \in Callers, phase[w] = "judge", key[w] = k, phase'[w] = "charge"
      PROVE  FALSE
  <2>1. Judge(w)
    BY <1>2, OnlyJudgeCharges
  <2>2. held[w] # Null /\ ~held[w].revoked
    <3>1. Valid(held[w], given[w]) \/ Answer(w)
      BY <2>1 DEF Judge
    <3>2. ~Answer(w)
      BY <1>2 DEF Answer, IInv, VarTypes
    <3> QED
      BY <3>1, <3>2 DEF Valid
  <2>3. held[w].id = k
    BY <1>2, <2>2 DEF IInv, RequestOK
  <2> QED
    BY <2>2, <2>3 DEF IInv, Gone
<1> QED
  BY <1>1, <1>2

(* A handed out plaintext comes with what the answer says. *)
LEMMA HandingOut ==
  ASSUME IInv, [Next]_vars, NEW k \in Keys, handed[k] = Null, handed'[k] # Null
  PROVE  idToRecord'[k] # Null /\ handed'[k] \subseteq idToRecord'[k].scopes
<1>1. handed' # handed /\ handed \in [Keys -> (SUBSET Scopes) \cup {Null}]
  BY DEF IInv, VarTypes
<1>2. PICK w \in Callers :
        CreateFromBody(w) \/ CreatePro(w) \/ WriteMissing(w) \/ Write(w)
  BY <1>1 DEF Next, WindowEnds, vars, Arrival, GetDogs, GetFacts, PostManage, Verify, PostKeys,
     CreatePremium, CreateAdmin, CreateAndGrant, Delete, PutEnable, PutDisable, Switch,
     PutLimits, PutScopes, PostGrant, PostRevoke, AwaitBody, Step, Lookup, Judge, Charge,
     Manage, FindCreated, BadBody, GoodBody, Reread
<1>3. CASE CreateFromBody(w) \/ CreatePro(w)
  <2>1. PICK j \in Unissued, s \in SUBSET Scopes, d \in BOOLEAN :
          CreateKey(w, NewRecord(j, s, d)) /\ HandOut(j, s) /\ gone' = gone
    BY <1>3, DogAssumption DEF CreateFromBody, CreatePro
  <2>2. /\ idToRecord' = [idToRecord EXCEPT ![j] = NewRecord(j, s, d)]
        /\ NewRecord(j, s, d) # Null /\ j \in Keys
    BY <2>1, CreationKeeps
  <2>3. j = k /\ handed'[k] = s
    BY <1>1, <2>1, <2>2 DEF HandOut
  <2> QED
    BY <2>2, <2>3, Unfold DEF NewRecord
<1>4. CASE WriteMissing(w)
  <2>1. route[w] \in Grantors
    BY <1>1, <1>4 DEF WriteMissing, Written
  <2> QED
    BY <1>4, <2>1 DEF WriteMissing, IInv, RequestOK
<1>5. CASE Write(w)
  <2> DEFINE r == Changed(route[w], held[w], given[w])
  <2>1. /\ route[w] \in Grantors /\ HandOut(key[w], given[w]) /\ Upsert(w, r)
        /\ phase[w] = "write" /\ held[w] # Null /\ key[w] \in Keys
    BY <1>1, <1>5, Unfold DEF Write, Written, UpdateKey
  <2>2. /\ r \in KeyRecord /\ r.id = key[w] /\ r.keyHash = key[w]
        /\ given[w] \subseteq r.scopes
    BY <2>1, ChangedTyped
  <2> HIDE DEF r
  <2>3. idToRecord' = [idToRecord EXCEPT ![key[w]] = r] /\ r # Null
    BY <2>1, <2>2, UpsertKeeps, RecordFields
  <2>4. k = key[w] /\ handed'[k] = given[w]
    BY <1>1, <2>1 DEF HandOut
  <2> QED
    BY <2>1, <2>2, <2>3, <2>4, Unfold
<1> QED
  BY <1>2, <1>3, <1>4, <1>5

-----------------------------------------------------------------------------
(* The theorems. *)

(* Requests, objects and counters keep their shape, whatever requests        *)
(* interleave: in particular no address is granted more than the limit.      *)
THEOREM TypeCorrect == Spec => []TypeOK
BY Invariance, InvImpliesTypes, PTL

(* The maps by hash and by id never part, although every write upserts a     *)
(* record that was read earlier into both.                                   *)
THEOREM MapsStayOne == Spec => []MapsAgree
BY Invariance, InvImpliesAgreement, PTL

(* A revocation made while every request in flight shared the object that    *)
(* was revoked lasts: no write-back revives the key, and no request that     *)
(* held it becomes valid.                                                    *)
THEOREM RevocationLasts == Spec => RevokedStaysRevoked
<1>1. IInv /\ [Next]_vars
        => [\A k \in gone :
              /\ idToRecord'[k].revoked
              /\ \A w \in Callers :
                   phase[w] = "judge" /\ key[w] = k => phase'[w] # "charge"]_vars
  BY RevocationStep
<1> QED
  BY <1>1, Invariance, PTL DEF Spec, RevokedStaysRevoked

(* Premium and admin keys are handed out with their scopes, whatever happens *)
(* between the creation and the grant.                                       *)
THEOREM ScopesComeAlong == Spec => KeysComeWithTheirScopes
<1>1. IInv /\ [Next]_vars
        => [\A k \in Keys : handed[k] = Null /\ handed'[k] # Null
              => idToRecord'[k] # Null /\ handed'[k] \subseteq idToRecord'[k].scopes]_vars
  BY HandingOut
<1> QED
  BY <1>1, Invariance, PTL DEF Spec, KeysComeWithTheirScopes
=============================================================================
