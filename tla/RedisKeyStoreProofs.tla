------------------------- MODULE RedisKeyStoreProofs -------------------------
(***************************************************************************)
(* Proofs about RedisKeyStore for every set of callers, ids and hashes.    *)
(***************************************************************************)
EXTENDS RedisKeyStore, TLAPS

-----------------------------------------------------------------------------
(* The inductive invariant, part by part. *)

Commands == {"idle", "load", "hset", "index", "scan", "fetch", "unindex", "drop"}

VarTypes ==
  /\ records \in [AllIds -> KeyRecord \cup {Null}]
  /\ index \in [AllHashes -> AllIds \cup {Null}]
  /\ clock \in 1..MaxTime /\ reliable \in BOOLEAN /\ overlapped \in BOOLEAN
  /\ usedIds \subseteq Ids /\ issued \subseteq Hashes
  /\ pc \in [Callers -> Commands]
  /\ sought \in [Callers -> Hashes \cup {Null}]
  /\ target \in [Callers -> AllIds \cup {Null}]
  /\ held \in [Callers -> KeyRecord \cup {Null}]
  /\ olderThan \in [Callers -> 0..clock]
  /\ todo \in [Callers -> SUBSET AllIds] /\ batch \in [Callers -> SUBSET AllIds]
  /\ granted \in Hashes \cup {Null}

(* What revokeKeyById made of a missing record has neither id nor hash. *)
RecordOK(i) ==
  records[i] # Null =>
    /\ records[i].id \in {i, Null}
    /\ records[i].id = Null <=> records[i].keyHash = Null
    /\ records[i].id = Null => records[i].revoked

(* What a call carries to the command it waits for. *)
CallOK(c) ==
  /\ pc[c] \in {"hset", "index", "unindex"} =>
       /\ held[c] # Null /\ held[c].id # Null /\ held[c].keyHash # Null
       /\ target[c] = held[c].id
  /\ pc[c] \in {"load", "fetch", "drop"} => target[c] \in AllIds
  /\ pc[c] = "load" => sought[c] \in issued

(* The id and the hash of one key, as the index, a record or a call has them. *)
CallPair(c, i, h) ==
  \/ pc[c] \in {"hset", "index", "unindex"} /\ held[c].id = i /\ held[c].keyHash = h
  \/ pc[c] = "load" /\ target[c] = i /\ sought[c] = h

Pair(i, h) ==
  \/ i = Undefined /\ h = Undefined
  \/ records[i] # Null /\ records[i].keyHash = h
  \/ index[h] = i
  \/ \E c \in Callers : CallPair(c, i, h)

(* An id stands for one hash and a hash for one id, and both have been issued. *)
Matched ==
  \A i \in AllIds, h \in AllHashes : Pair(i, h) =>
    /\ i \in usedIds \cup {Undefined} /\ h \in issued \cup {Undefined}
    /\ \A j \in AllIds, g \in AllHashes : Pair(j, g) => (i = j <=> h = g)

(* While no command rejects, a record that the index does not lead to is     *)
(* about to be indexed or dropped.                                           *)
Lost(i) == records[i] # Null /\ records[i].keyHash # Null /\ index[records[i].keyHash] # i

Mends(c, i) == \/ pc[c] = "index" /\ held[c].id = i
               \/ pc[c] = "drop" /\ target[c] = i

LostAreMended ==
  reliable => \A i \in AllIds : Lost(i) => \E c \in Callers : Mends(c, i)

(* While calls do not overlap, the index leads to records of its hashes, and *)
(* stays so: what is to be indexed is stored, what is to be dropped is not   *)
(* indexed.                                                                  *)
Alone == \A c, d \in Callers : pc[c] # "idle" /\ pc[d] # "idle" => c = d

LeadsToRecords ==
  \A h \in AllHashes : index[h] # Null =>
    records[index[h]] # Null /\ records[index[h]].keyHash = h

CallLeaves(c) ==
  /\ pc[c] = "index" =>
       records[held[c].id] # Null /\ records[held[c].id].keyHash = held[c].keyHash
  /\ pc[c] = "drop" => \A h \in AllHashes : index[h] # target[c]

Tidy == reliable /\ ~overlapped =>
          Alone /\ LeadsToRecords /\ \A c \in Callers : CallLeaves(c)

Types == VarTypes /\ (\A i \in AllIds : RecordOK(i)) /\ \A c \in Callers : CallOK(c)

IInv == Types /\ Matched /\ LostAreMended /\ Tidy

LEMMA TypesImplyTypeOK == ASSUME Types PROVE TypeOK
BY DEF Types, VarTypes, RecordOK, CallOK, TypeOK, Commands

LEMMA Initially == ASSUME Init PROVE IInv
<1>1. VarTypes
  <2>1. clock \in 1..MaxTime /\ 0 \in 0..clock
    BY RedisAssumption DEF Init
  <2> QED
    BY <2>1 DEF Init, VarTypes, Commands
<1>4. Types
  BY <1>1, RedisAssumption DEF Init, Types, RecordOK, CallOK
<1>2. Matched
  BY RedisAssumption DEF Init, Matched, Pair, CallPair, AllIds, AllHashes
<1>3. LostAreMended /\ Tidy
  BY DEF Init, LostAreMended, Lost, Tidy, Alone, LeadsToRecords, CallLeaves
<1> QED
  BY <1>2, <1>3, <1>4 DEF IInv

-----------------------------------------------------------------------------
(* The steps of a call. *)

(* What the calls other than c carry. *)
Others(c) ==
  \A d \in Callers \ {c} :
    pc'[d] = pc[d] /\ target'[d] = target[d] /\ held'[d] = held[d] /\ sought'[d] = sought[d]

CallTypes ==
  /\ pc \in [Callers -> Commands]
  /\ target \in [Callers -> AllIds \cup {Null}]
  /\ held \in [Callers -> KeyRecord \cup {Null}]

LEMMA AwaitIs ==
  ASSUME VarTypes, NEW c \in Callers, NEW m, NEW p \in Commands,
         NEW i \in AllIds \cup {Null}, NEW r \in KeyRecord \cup {Null}, Await(c, m, p, i, r)
  PROVE  /\ CallTypes'
         /\ pc'[c] = p /\ target'[c] = i /\ held'[c] = r
         /\ \A d \in Callers \ {c} :
              pc'[d] = pc[d] /\ target'[d] = target[d] /\ held'[d] = held[d]
BY DEF VarTypes, CallTypes, Await

(* What a call carries besides. *)
RestTypes ==
  /\ sought \in [Callers -> Hashes \cup {Null}]
  /\ olderThan \in [Callers -> 0..clock]
  /\ todo \in [Callers -> SUBSET AllIds] /\ batch \in [Callers -> SUBSET AllIds]

LEMMA AnswerIs ==
  ASSUME VarTypes, NEW c \in Callers, Answer(c), clock' = clock
  PROVE  CallTypes' /\ RestTypes' /\ Others(c) /\ pc'[c] = "idle"
<1>1. Await(c, Null, "idle", Null, Null)
  BY DEF Answer
<1>2. /\ CallTypes' /\ pc'[c] = "idle"
      /\ \A d \in Callers \ {c} : pc'[d] = pc[d] /\ target'[d] = target[d] /\ held'[d] = held[d]
  <2> HIDE DEF Await
  <2> QED
    BY <1>1, AwaitIs DEF Commands
<1>3. 0 \in 0..clock
  BY DEF VarTypes
<1>4. RestTypes' /\ \A d \in Callers \ {c} : sought'[d] = sought[d]
  BY <1>3 DEF VarTypes, RestTypes, Answer
<1> QED
  BY <1>2, <1>4 DEF Others

LEMMA NextOfBatchIs ==
  ASSUME VarTypes, NEW c \in Callers, NEW b \in SUBSET AllIds, NextOfBatch(c, b), clock' = clock
  PROVE  /\ CallTypes' /\ RestTypes' /\ Others(c)
         /\ \/ pc'[c] = "idle"
            \/ pc'[c] = "fetch" /\ target'[c] \in AllIds
<1>1. CASE b = {} /\ Answer(c)
  BY <1>1, AnswerIs, Zenon
<1>2. CASE /\ \E i \in b : Await(c, op[c], "fetch", i, Null) /\ batch' = [batch EXCEPT ![c] = b \ {i}]
           /\ UNCHANGED <<sought, todo, olderThan>>
  <2>1. PICK i \in b : Await(c, op[c], "fetch", i, Null) /\ batch' = [batch EXCEPT ![c] = b \ {i}]
    BY <1>2
  <2>2. /\ CallTypes' /\ pc'[c] = "fetch" /\ target'[c] = i
        /\ \A d \in Callers \ {c} : pc'[d] = pc[d] /\ target'[d] = target[d] /\ held'[d] = held[d]
    BY <2>1, AwaitIs DEF Commands
  <2>3. RestTypes'
    BY <1>2, <2>1 DEF VarTypes, RestTypes
  <2> QED
    BY <1>2, <2>2, <2>3 DEF Others
<1> QED
  BY <1>1, <1>2 DEF NextOfBatch

LEMMA HGetAllIs ==
  ASSUME Types, NEW i \in AllIds, records[i] # Null
  PROVE  /\ HGetAll(i) \in KeyRecord /\ HGetAll(i) # Null
         /\ HGetAll(i).id # Null /\ HGetAll(i).keyHash # Null
         /\ HGetAll(i).revoked = records[i].revoked
         /\ HGetAll(i).expiresAt = records[i].expiresAt
         /\ \/ /\ HGetAll(i).id = i /\ HGetAll(i).keyHash = records[i].keyHash
            \/ /\ HGetAll(i).id = Undefined /\ HGetAll(i).keyHash = Undefined
               /\ records[i].keyHash = Null /\ HGetAll(i).revoked
<1>1. records[i] \in KeyRecord /\ RecordOK(i) /\ Null \notin KeyRecord
  BY NullIsNoRecord DEF Types, VarTypes
<1>2. HGetAll(i) = [records[i] EXCEPT !.id = IF @ = Null THEN Undefined ELSE @,
                                      !.keyHash = IF @ = Null THEN Undefined ELSE @]
  BY DEF HGetAll
<1>3. CASE records[i].id = Null
  BY <1>1, <1>2, <1>3, RedisAssumption DEF RecordOK, KeyRecord, AllIds, AllHashes
<1>4. CASE records[i].id # Null
  BY <1>1, <1>2, <1>4, RedisAssumption DEF RecordOK, KeyRecord, AllIds, AllHashes
<1> QED
  BY <1>3, <1>4

-----------------------------------------------------------------------------
(* How the parts of the invariant survive the step of one call. *)

LEMMA TypesKept ==
  ASSUME Types, NEW c \in Callers, Others(c), CallTypes', RestTypes',
         records' \in [AllIds -> KeyRecord \cup {Null}],
         index' \in [AllHashes -> AllIds \cup {Null}],
         clock' = clock, reliable' = reliable, overlapped' \in BOOLEAN,
         usedIds' \subseteq Ids, issued \subseteq issued', issued' \subseteq Hashes,
         granted' \in Hashes \cup {Null},
         \A i \in AllIds : RecordOK(i)', CallOK(c)'
  PROVE  Types'
<1>1. VarTypes'
  BY DEF Types, VarTypes, CallTypes, RestTypes
<1>2. ASSUME NEW d \in Callers PROVE CallOK(d)'
  <2>1. CASE d = c
    BY <2>1
  <2>2. CASE d # c
    BY <2>2 DEF Types, Others, CallOK
  <2> QED
    BY <2>1, <2>2
<1> QED
  BY <1>1, <1>2 DEF Types

LEMMA MatchedKept ==
  ASSUME Matched, usedIds \subseteq usedIds', issued \subseteq issued',
         \A i \in AllIds, h \in AllHashes : Pair(i, h)' => Pair(i, h)
  PROVE  Matched'
<1> SUFFICES ASSUME NEW i \in AllIds, NEW h \in AllHashes, Pair(i, h)'
             PROVE  /\ i \in usedIds' \cup {Undefined} /\ h \in issued' \cup {Undefined}
                    /\ \A j \in AllIds, g \in AllHashes : Pair(j, g)' => (i = j <=> h = g)
  BY DEF Matched
<1>1. Pair(i, h)
  OBVIOUS
<1> QED
  BY <1>1 DEF Matched

LEMMA PairsKept ==
  ASSUME NEW c \in Callers, Others(c), UNCHANGED redis,
         \A i \in AllIds, h \in AllHashes : CallPair(c, i, h)' => Pair(i, h)
  PROVE  \A i \in AllIds, h \in AllHashes : Pair(i, h)' => Pair(i, h)
<1> SUFFICES ASSUME NEW i \in AllIds, NEW h \in AllHashes, Pair(i, h)' PROVE Pair(i, h)
  OBVIOUS
<1>1. CASE \E d \in Callers : CallPair(d, i, h)'
  <2>1. PICK d \in Callers : CallPair(d, i, h)'
    BY <1>1
  <2>2. CASE d = c
    BY <2>1, <2>2
  <2>3. CASE d # c
    BY <2>1, <2>3 DEF Others, CallPair, Pair
  <2> QED
    BY <2>2, <2>3
<1>2. CASE ~\E d \in Callers : CallPair(d, i, h)'
  BY <1>2 DEF Pair, redis
<1> QED
  BY <1>1, <1>2

(* A call that leaves neither an index to set nor a record to drop undone. *)
LEMMA MendedKept ==
  ASSUME LostAreMended, NEW c \in Callers, Others(c), UNCHANGED <<redis, reliable>>,
         reliable => pc[c] \notin {"index", "drop"}
  PROVE  LostAreMended'
<1> SUFFICES ASSUME reliable, NEW i \in AllIds, Lost(i)'
             PROVE  \E d \in Callers : Mends(d, i)'
  BY DEF LostAreMended
<1>1. Lost(i)
  BY DEF Lost, redis
<1>2. PICK d \in Callers : Mends(d, i)
  BY <1>1 DEF LostAreMended
<1>3. d # c
  BY <1>2 DEF Mends
<1> QED
  BY <1>2, <1>3 DEF Mends, Others

(* A call starts or goes on. *)
Counts(c) ==
  \/ pc[c] # "idle" /\ overlapped' = overlapped
  \/ pc[c] = "idle" /\ overlapped' = (overlapped \/ \E d \in Callers \ {c} : pc[d] # "idle")

LEMMA OneCall ==
  ASSUME Tidy, NEW c \in Callers, Counts(c), Others(c), reliable' = reliable,
         overlapped \in BOOLEAN, overlapped' \in BOOLEAN, reliable', ~overlapped'
  PROVE  /\ ~overlapped /\ reliable
         /\ Alone' /\ Alone /\ LeadsToRecords /\ CallLeaves(c)
         /\ \A d \in Callers \ {c} : pc[d] = "idle" /\ pc'[d] = "idle"
<1>1. ~overlapped /\ \A d \in Callers \ {c} : pc[d] # "idle" => pc[c] # "idle"
  BY DEF Counts
<1>2. Alone /\ LeadsToRecords /\ CallLeaves(c)
  BY <1>1 DEF Tidy
<1>3. \A d \in Callers \ {c} : pc[d] = "idle"
  BY <1>1, <1>2 DEF Alone
<1>4. \A d \in Callers \ {c} : pc'[d] = "idle"
  BY <1>3 DEF Others
<1> QED
  BY <1>1, <1>2, <1>3, <1>4 DEF Alone

LEMMA TidyKept ==
  ASSUME Tidy, NEW c \in Callers, Counts(c), Others(c), reliable' = reliable,
         overlapped \in BOOLEAN, overlapped' \in BOOLEAN,
         reliable /\ ~overlapped' => LeadsToRecords' /\ CallLeaves(c)'
  PROVE  Tidy'
<1> SUFFICES ASSUME reliable', ~overlapped'
             PROVE  Alone' /\ LeadsToRecords' /\ \A d \in Callers : CallLeaves(d)'
  BY DEF Tidy
<1>1. Alone' /\ \A d \in Callers \ {c} : pc'[d] = "idle"
  BY OneCall
<1>2. LeadsToRecords' /\ CallLeaves(c)'
  OBVIOUS
<1>3. \A d \in Callers \ {c} : CallLeaves(d)'
  BY <1>1 DEF CallLeaves
<1> QED
  BY <1>1, <1>2, <1>3

-----------------------------------------------------------------------------
(* Steps that change nothing in Redis and leave c with nothing to write. *)

LetsGo(c) ==
  /\ UNCHANGED <<redis, clock, reliable, usedIds, issued>>
  /\ CallTypes' /\ RestTypes' /\ Others(c) /\ Counts(c)
  /\ pc'[c] \in {"idle", "scan", "fetch"}
  /\ pc'[c] = "fetch" => target'[c] \in AllIds
  /\ reliable => pc[c] \notin {"index", "drop"}
  /\ granted' \in Hashes \cup {Null} /\ overlapped' \in BOOLEAN

LEMMA LetsGoKeeps ==
  ASSUME IInv, NEW c \in Callers, LetsGo(c)
  PROVE  IInv'
<1>1. Types'
  <2>1. CallOK(c)'
    BY DEF LetsGo, CallOK
  <2>2. \A i \in AllIds : RecordOK(i)'
    BY DEF LetsGo, redis, RecordOK, IInv, Types
  <2> QED
    BY <2>1, <2>2, TypesKept DEF LetsGo, redis, IInv, Types, VarTypes
<1>2. Matched'
  <2>1. \A i \in AllIds, h \in AllHashes : ~CallPair(c, i, h)'
    BY DEF LetsGo, CallPair
  <2>2. \A i \in AllIds, h \in AllHashes : Pair(i, h)' => Pair(i, h)
    BY <2>1, PairsKept DEF LetsGo
  <2> QED
    BY <2>2, MatchedKept DEF LetsGo, IInv
<1>3. LostAreMended'
  BY MendedKept DEF LetsGo, IInv
<1>4. Tidy'
  <2>1. overlapped \in BOOLEAN /\ Tidy
    BY DEF IInv, Types, VarTypes
  <2>2. ASSUME reliable, ~overlapped' PROVE LeadsToRecords' /\ CallLeaves(c)'
    <3>1. LeadsToRecords
      BY <2>1, <2>2, OneCall DEF LetsGo
    <3> QED
      BY <3>1 DEF LeadsToRecords, CallLeaves, LetsGo, redis
  <2> QED
    BY <2>1, <2>2, TidyKept DEF LetsGo
<1> QED
  BY <1>1, <1>2, <1>3, <1>4 DEF IInv

LEMMA StartsCounts ==
  ASSUME NEW c \in Callers, Starts(c)
  PROVE  Counts(c) /\ overlapped' \in BOOLEAN /\ UNCHANGED <<clock, reliable>> /\ pc[c] = "idle"
BY DEF Starts, Counts

LEMMA GoesCounts ==
  ASSUME VarTypes, NEW c \in Callers, NEW p, p # "idle", Goes(c, p)
  PROVE  /\ Counts(c) /\ overlapped' \in BOOLEAN /\ pc[c] = p
         /\ UNCHANGED <<clock, reliable, usedIds, issued>>
BY DEF Goes, Counts, VarTypes

(* What Await leaves of the other locals, when they are all unchanged. *)
LEMMA SameRest ==
  ASSUME VarTypes, UNCHANGED <<sought, sweeping, clock>>
  PROVE  RestTypes'
BY DEF VarTypes, RestTypes, sweeping

LEMMA Plain ==
  ASSUME IInv
  PROVE  VarTypes /\ Types /\ Matched /\ LostAreMended /\ Tidy /\ overlapped \in BOOLEAN
BY DEF IInv, Types, VarTypes

LEMMA HardRemoveKeyLetsGo ==
  ASSUME IInv, NEW c \in Callers, HardRemoveKey(c)
  PROVE  LetsGo(c)
<1>1. PICK i \in usedIds : Await(c, "hardRemoveKey", "fetch", i, Null)
  BY DEF HardRemoveKey
<1>2. i \in AllIds
  BY Plain DEF VarTypes, AllIds
<1>3. /\ CallTypes' /\ pc'[c] = "fetch" /\ target'[c] = i
      /\ \A d \in Callers \ {c} : pc'[d] = pc[d] /\ target'[d] = target[d] /\ held'[d] = held[d]
  BY <1>1, <1>2, Plain, AwaitIs DEF Commands
<1>4. RestTypes' /\ Counts(c) /\ overlapped' \in BOOLEAN /\ pc[c] = "idle"
  BY StartsCounts, SameRest, Plain DEF HardRemoveKey, Starts
<1> QED
  BY <1>2, <1>3, <1>4 DEF HardRemoveKey, Starts, LetsGo, NoGrant, Others

LEMMA KeysLetsGo ==
  ASSUME IInv, NEW c \in Callers, Keys(c)
  PROVE  LetsGo(c)
<1>1. /\ Await(c, "sweepExpired", "scan", Null, Null)
      /\ todo' = [todo EXCEPT ![c] = {i \in AllIds : records[i] # Null}]
      /\ olderThan' = [olderThan EXCEPT ![c] = clock]
  BY DEF Keys
<1>2. /\ CallTypes' /\ pc'[c] = "scan"
      /\ \A d \in Callers \ {c} : pc'[d] = pc[d] /\ target'[d] = target[d] /\ held'[d] = held[d]
  BY <1>1, Plain, AwaitIs DEF Commands
<1>3. clock \in 0..clock /\ {i \in AllIds : records[i] # Null} \in SUBSET AllIds
  BY Plain DEF VarTypes
<1>4. RestTypes'
  BY <1>1, <1>3, Plain DEF VarTypes, RestTypes, Keys, Starts
<1>5. Counts(c) /\ overlapped' \in BOOLEAN /\ pc[c] = "idle"
  BY StartsCounts DEF Keys
<1> QED
  BY <1>2, <1>4, <1>5 DEF Keys, Starts, LetsGo, NoGrant, Others

LEMMA LoadRefusedLetsGo ==
  ASSUME IInv, NEW c \in Callers, LoadRefused(c)
  PROVE  LetsGo(c)
<1>1. Answer(c) /\ Goes(c, "load")
  BY DEF LoadRefused
<1>2. /\ Counts(c) /\ overlapped' \in BOOLEAN /\ pc[c] = "load"
      /\ UNCHANGED <<clock, reliable, usedIds, issued>>
  BY <1>1, Plain, GoesCounts
<1>3. CallTypes' /\ RestTypes' /\ Others(c) /\ pc'[c] = "idle"
  BY <1>1, <1>2, Plain, AnswerIs
<1> QED
  BY <1>2, <1>3 DEF LetsGo, LoadRefused, NoGrant

LEMMA LoadExpiredLetsGo ==
  ASSUME IInv, NEW c \in Callers, LoadExpired(c)
  PROVE  LetsGo(c)
<1>1. /\ Counts(c) /\ overlapped' \in BOOLEAN /\ pc[c] = "load"
      /\ UNCHANGED <<clock, reliable, usedIds, issued>>
  BY Plain, GoesCounts DEF LoadExpired
<1>2. records[target[c]] # Null /\ Await(c, "verifyKey", "fetch", HGetAll(target[c]).id, Null)
  BY DEF LoadExpired
<1>3. target[c] \in AllIds
  BY <1>1, Plain DEF Types, CallOK
<1>4. HGetAll(target[c]).id \in AllIds
  BY <1>2, <1>3, Plain, HGetAllIs DEF KeyRecord
<1>5. /\ CallTypes' /\ pc'[c] = "fetch" /\ target'[c] \in AllIds
      /\ \A d \in Callers \ {c} : pc'[d] = pc[d] /\ target'[d] = target[d] /\ held'[d] = held[d]
  BY <1>2, <1>4, Plain, AwaitIs DEF Commands
<1>6. RestTypes'
  BY <1>1, Plain, SameRest DEF LoadExpired
<1> QED
  BY <1>1, <1>5, <1>6 DEF LoadExpired, LetsGo, NoGrant, Others

LEMMA ScanLetsGo ==
  ASSUME IInv, NEW c \in Callers, Scan(c)
  PROVE  LetsGo(c)
<1>1. /\ Counts(c) /\ overlapped' \in BOOLEAN /\ pc[c] = "scan"
      /\ UNCHANGED <<clock, reliable, usedIds, issued>>
  BY Plain, GoesCounts DEF Scan
<1>2. PICK i \in todo[c], b \in SUBSET AllIds :
        \/ NextOfBatch(c, b)
        \/ /\ todo' = [todo EXCEPT ![c] = todo[c] \ {i}]
           /\ batch' = [batch EXCEPT ![c] = b]
           /\ UNCHANGED <<op, pc, sought, target, held, olderThan>>
  <2>1. PICK i \in todo[c] :
          LET found == IF records[i] # Null /\ Expired(records[i], olderThan[c]) THEN {i} ELSE {}
              b == batch[c] \cup found
              rest == todo[c] \ {i}
          IN  IF rest = {} \/ Cardinality(b) = BatchSize
                THEN NextOfBatch(c, b)
                ELSE /\ todo' = [todo EXCEPT ![c] = rest]
                     /\ batch' = [batch EXCEPT ![c] = b]
                     /\ UNCHANGED <<op, pc, sought, target, held, olderThan>>
    BY DEF Scan
  <2> DEFINE b == batch[c] \cup IF records[i] # Null /\ Expired(records[i], olderThan[c])
                                  THEN {i} ELSE {}
  <2>2. b \in SUBSET AllIds
    BY Plain DEF VarTypes
  <2>3. \/ NextOfBatch(c, b)
        \/ /\ todo' = [todo EXCEPT ![c] = todo[c] \ {i}]
           /\ batch' = [batch EXCEPT ![c] = b]
           /\ UNCHANGED <<op, pc, sought, target, held, olderThan>>
    BY <2>1
  <2> HIDE DEF b
  <2> QED
    BY <2>2, <2>3
<1>3. CASE NextOfBatch(c, b)
  <2>1. /\ CallTypes' /\ RestTypes' /\ Others(c)
        /\ \/ pc'[c] = "idle"
           \/ pc'[c] = "fetch" /\ target'[c] \in AllIds
    BY <1>1, <1>3, Plain, NextOfBatchIs
  <2> QED
    BY <1>1, <2>1 DEF Scan, LetsGo, NoGrant
<1>4. CASE /\ todo' = [todo EXCEPT ![c] = todo[c] \ {i}]
           /\ batch' = [batch EXCEPT ![c] = b]
           /\ UNCHANGED <<op, pc, sought, target, held, olderThan>>
  <2>1. RestTypes' /\ CallTypes'
    BY <1>1, <1>4, Plain DEF VarTypes, RestTypes, CallTypes
  <2>2. Others(c) /\ pc'[c] = "scan"
    BY <1>1, <1>4 DEF Others
  <2> QED
    BY <1>1, <2>1, <2>2 DEF Scan, LetsGo, NoGrant
<1> QED
  BY <1>2, <1>3, <1>4

LEMMA RejectLetsGo ==
  ASSUME IInv, NEW c \in Callers, Reject(c)
  PROVE  LetsGo(c)
<1>1. Counts(c) /\ overlapped' \in BOOLEAN
  BY Plain DEF Reject, Counts
<1>2. /\ CallTypes' /\ RestTypes' /\ Others(c)
      /\ \/ pc'[c] = "idle"
         \/ pc'[c] = "fetch" /\ target'[c] \in AllIds
  <2>1. clock' = clock /\ batch[c] \in SUBSET AllIds
    BY Plain DEF Reject, VarTypes
  <2>2. Answer(c) \/ NextOfBatch(c, batch[c])
    BY DEF Reject
  <2>3. CASE Answer(c)
    BY <2>1, <2>3, Plain, AnswerIs
  <2>4. CASE NextOfBatch(c, batch[c])
    BY <2>1, <2>4, Plain, NextOfBatchIs
  <2> QED
    BY <2>2, <2>3, <2>4
<1> QED
  BY <1>1, <1>2 DEF Reject, LetsGo, NoGrant

LEMMA LoadValidIs ==
  ASSUME IInv, NEW c \in Callers, LoadValid(c)
  PROVE  /\ UNCHANGED <<redis, clock, reliable, usedIds, issued>>
         /\ Counts(c) /\ overlapped' \in BOOLEAN /\ pc[c] = "load"
         /\ target[c] \in AllIds /\ records[target[c]] # Null /\ ~HGetAll(target[c]).revoked
         /\ granted' = sought[c] /\ sought[c] \in issued
         /\ \/ LetsGo(c)
            \/ /\ Await(c, "verifyKey", "hset", HGetAll(target[c]).id, HGetAll(target[c]))
               /\ UNCHANGED <<sought, sweeping>>
<1>1. /\ Counts(c) /\ overlapped' \in BOOLEAN /\ pc[c] = "load"
      /\ UNCHANGED <<clock, reliable, usedIds, issued>>
  BY Plain, GoesCounts DEF LoadValid
<1>2. target[c] \in AllIds /\ sought[c] \in issued /\ sought[c] \in Hashes
  BY <1>1, Plain DEF Types, CallOK, VarTypes
<1>3. ASSUME Answer(c) PROVE LetsGo(c)
  <2>1. CallTypes' /\ RestTypes' /\ Others(c) /\ pc'[c] = "idle"
    BY <1>1, <1>3, Plain, AnswerIs
  <2> QED
    BY <1>1, <1>2, <2>1 DEF LoadValid, LetsGo
<1> QED
  BY <1>1, <1>2, <1>3 DEF LoadValid

-----------------------------------------------------------------------------
(* Steps that read: the call carries on with what Redis holds.               *)

LEMMA WriteBackKeeps ==
  ASSUME IInv, NEW c \in Callers, NEW m, NEW i \in AllIds, NEW r \in KeyRecord,
         records[i] # Null, r.id = HGetAll(i).id, r.keyHash = HGetAll(i).keyHash,
         Await(c, m, "hset", r.id, r),
         UNCHANGED <<redis, clock, reliable, usedIds, issued, sought, sweeping>>,
         Counts(c), overlapped' \in BOOLEAN, granted' \in Hashes \cup {Null},
         pc[c] \notin {"index", "drop"}
  PROVE  IInv'
<1>1. /\ r # Null /\ r.id \in AllIds /\ r.id # Null /\ r.keyHash # Null
      /\ \/ r.id = i /\ r.keyHash = records[i].keyHash
         \/ r.id = Undefined /\ r.keyHash = Undefined
  BY HGetAllIs, Plain, NullIsNoRecord DEF KeyRecord
<1>2. /\ CallTypes' /\ pc'[c] = "hset" /\ target'[c] = r.id /\ held'[c] = r
      /\ \A d \in Callers \ {c} : pc'[d] = pc[d] /\ target'[d] = target[d] /\ held'[d] = held[d]
  <2>1. "hset" \in Commands /\ r.id \in AllIds \cup {Null} /\ r \in KeyRecord \cup {Null}
    BY <1>1 DEF Commands
  <2>2. VarTypes
    BY Plain
  <2> QED
    BY <2>1, <2>2 DEF Await, VarTypes, CallTypes
<1>3. Others(c) /\ RestTypes'
  BY <1>2, Plain, SameRest DEF Others
<1>4. Types'
  <2>1. CallOK(c)'
    BY <1>1, <1>2 DEF CallOK
  <2>2. \A j \in AllIds : RecordOK(j)'
    BY DEF redis, RecordOK, IInv, Types
  <2> QED
    BY <1>2, <1>3, <2>1, <2>2, TypesKept DEF redis, IInv, Types, VarTypes
<1>5. Matched'
  <2>1. ASSUME NEW j \in AllIds, NEW h \in AllHashes, CallPair(c, j, h)' PROVE Pair(j, h)
    <3>1. j = r.id /\ h = r.keyHash
      BY <1>2, <2>1 DEF CallPair
    <3> QED
      BY <1>1, <3>1 DEF Pair
  <2>2. \A j \in AllIds, h \in AllHashes : Pair(j, h)' => Pair(j, h)
    BY <1>3, <2>1, PairsKept
  <2> QED
    BY <2>2, MatchedKept, Plain
<1>6. LostAreMended'
  BY <1>3, MendedKept, Plain
<1>7. Tidy'
  <2>1. ASSUME reliable, ~overlapped' PROVE LeadsToRecords' /\ CallLeaves(c)'
    <3>1. LeadsToRecords
      BY <1>3, <2>1, Plain, OneCall
    <3> QED
      BY <1>2, <3>1 DEF LeadsToRecords, CallLeaves, redis
  <2> QED
    BY <1>3, <2>1, Plain, TidyKept
<1> QED
  BY <1>4, <1>5, <1>6, <1>7 DEF IInv

LEMMA LoadValidKeeps ==
  ASSUME IInv, NEW c \in Callers, LoadValid(c)
  PROVE  IInv'
<1>1. CASE LetsGo(c)
  BY <1>1, LetsGoKeeps
<1>2. CASE /\ Await(c, "verifyKey", "hset", HGetAll(target[c]).id, HGetAll(target[c]))
           /\ UNCHANGED <<sought, sweeping>>
  <2>1. /\ UNCHANGED <<redis, clock, reliable, usedIds, issued>>
        /\ Counts(c) /\ overlapped' \in BOOLEAN /\ pc[c] = "load"
        /\ target[c] \in AllIds /\ records[target[c]] # Null
        /\ granted' \in Hashes \cup {Null}
    BY LoadValidIs, Plain DEF VarTypes
  <2>2. HGetAll(target[c]) \in KeyRecord
    BY <2>1, Plain, HGetAllIs
  <2> QED
    BY <1>2, <2>1, <2>2, WriteBackKeeps
<1> QED
  BY <1>1, <1>2, LoadValidIs

LEMMA ExtendIs ==
  ASSUME IInv, NEW c \in Callers, ExtendKeyExpiry(c)
  PROVE  \E i \in AllIds, r \in KeyRecord :
           /\ records[i] # Null /\ r.id = HGetAll(i).id /\ r.keyHash = HGetAll(i).keyHash
           /\ r.revoked = HGetAll(i).revoked
           /\ Await(c, "extendKeyExpiry", "hset", r.id, r)
<1>1. PICK i \in usedIds :
        LET r == HGetAll(i)
            to == 1 + (IF r.expiresAt = Null THEN clock ELSE r.expiresAt)
        IN  /\ r # Null /\ to <= MaxExpiry
            /\ Await(c, "extendKeyExpiry", "hset", r.id, [r EXCEPT !.expiresAt = to])
  BY DEF ExtendKeyExpiry
<1>2. i \in AllIds /\ records[i] # Null
  BY <1>1, Plain DEF VarTypes, AllIds, HGetAll
<1> DEFINE r == HGetAll(i)
           to == 1 + (IF r.expiresAt = Null THEN clock ELSE r.expiresAt)
           new == [r EXCEPT !.expiresAt = to]
<1>3. r \in KeyRecord
  BY <1>2, HGetAllIs, Plain
<1>4. to \in Nat
  BY <1>3, Plain DEF KeyRecord, VarTypes
<1>5. Await(c, "extendKeyExpiry", "hset", r.id, new)
  BY <1>1
<1> HIDE DEF r, to
<1>6. new \in KeyRecord /\ new.id = r.id /\ new.keyHash = r.keyHash /\ new.revoked = r.revoked
  BY <1>3, <1>4 DEF KeyRecord
<1> HIDE DEF new
<1>7. Await(c, "extendKeyExpiry", "hset", new.id, new)
  BY <1>5, <1>6
<1> QED
  BY <1>2, <1>6, <1>7 DEF r

LEMMA ExtendKeyExpiryKeeps ==
  ASSUME IInv, NEW c \in Callers, ExtendKeyExpiry(c)
  PROVE  IInv'
<1>1. PICK i \in AllIds, r \in KeyRecord :
        /\ records[i] # Null /\ r.id = HGetAll(i).id /\ r.keyHash = HGetAll(i).keyHash
        /\ Await(c, "extendKeyExpiry", "hset", r.id, r)
  BY ExtendIs
<1>2. Counts(c) /\ overlapped' \in BOOLEAN /\ UNCHANGED <<clock, reliable>> /\ pc[c] = "idle"
  BY StartsCounts DEF ExtendKeyExpiry
<1> QED
  BY <1>1, <1>2, WriteBackKeeps DEF ExtendKeyExpiry, NoGrant

(* The other steps that read. *)
LEMMA ReadKeeps ==
  ASSUME IInv, NEW c \in Callers, CallTypes', RestTypes', Others(c), Counts(c),
         UNCHANGED <<redis, clock, reliable, usedIds, issued>>,
         overlapped' \in BOOLEAN, granted' \in Hashes \cup {Null},
         pc[c] \notin {"index", "drop"}, CallOK(c)',
         \A i \in AllIds, h \in AllHashes : CallPair(c, i, h)' => Pair(i, h),
         LeadsToRecords => CallLeaves(c)'
  PROVE  IInv'
<1>1. Types'
  <2>1. \A j \in AllIds : RecordOK(j)'
    BY DEF redis, RecordOK, IInv, Types
  <2> QED
    BY <2>1, TypesKept DEF redis, IInv, Types, VarTypes
<1>2. Matched'
  <2>1. \A j \in AllIds, h \in AllHashes : Pair(j, h)' => Pair(j, h)
    BY PairsKept
  <2> QED
    BY <2>1, MatchedKept, Plain
<1>3. LostAreMended'
  BY MendedKept, Plain
<1>4. Tidy'
  <2>1. ASSUME reliable, ~overlapped' PROVE LeadsToRecords' /\ CallLeaves(c)'
    <3>1. LeadsToRecords
      BY <2>1, Plain, OneCall
    <3> QED
      BY <3>1 DEF LeadsToRecords, redis
  <2> QED
    BY <2>1, Plain, TidyKept
<1> QED
  BY <1>1, <1>2, <1>3, <1>4 DEF IInv

LEMMA GetKeeps ==
  ASSUME IInv, NEW c \in Callers, Get(c)
  PROVE  IInv'
<1>1. PICK h \in issued :
        /\ index[h] # Null
        /\ Await(c, "verifyKey", "load", index[h], Null)
        /\ sought' = [sought EXCEPT ![c] = h]
  BY DEF Get
<1>2. h \in Hashes /\ h \in AllHashes /\ index[h] \in AllIds
  BY <1>1, Plain DEF VarTypes, AllHashes
<1>3. /\ CallTypes' /\ pc'[c] = "load" /\ target'[c] = index[h]
      /\ \A d \in Callers \ {c} : pc'[d] = pc[d] /\ target'[d] = target[d] /\ held'[d] = held[d]
  BY <1>1, <1>2, Plain DEF Await, VarTypes, CallTypes, Commands
<1>4. Counts(c) /\ overlapped' \in BOOLEAN /\ UNCHANGED <<clock, reliable>> /\ pc[c] = "idle"
  BY StartsCounts DEF Get
<1>5. RestTypes' /\ Others(c) /\ sought'[c] = h
  BY <1>1, <1>2, <1>3, <1>4, Plain DEF Get, VarTypes, RestTypes, sweeping, Others
<1>6. CallOK(c)'
  BY <1>2, <1>3, <1>5 DEF CallOK, Get
<1>7. \A i \in AllIds, g \in AllHashes : CallPair(c, i, g)' => Pair(i, g)
  BY <1>3, <1>5 DEF CallPair, Pair
<1>8. LeadsToRecords => CallLeaves(c)'
  BY <1>3 DEF CallLeaves
<1> QED
  BY <1>3, <1>4, <1>5, <1>6, <1>7, <1>8, ReadKeeps DEF Get, NoGrant

LEMMA FetchKeeps ==
  ASSUME IInv, NEW c \in Callers, Fetch(c)
  PROVE  IInv'
<1>1. /\ Counts(c) /\ overlapped' \in BOOLEAN /\ pc[c] = "fetch"
      /\ UNCHANGED <<clock, reliable, usedIds, issued>>
  BY Plain, GoesCounts DEF Fetch
<1>2. target[c] \in AllIds /\ records[target[c]] \in KeyRecord \cup {Null} /\ RecordOK(target[c])
  BY <1>1, Plain DEF Types, CallOK, VarTypes
<1>3. RestTypes' /\ sought' = sought
  BY <1>1, Plain, SameRest DEF Fetch
<1>4. CASE records[target[c]] = Null \/ records[target[c]].keyHash = Null
  <2>1. Await(c, op[c], "drop", target[c], Null)
    BY <1>4 DEF Fetch
  <2>2. /\ CallTypes' /\ pc'[c] = "drop" /\ target'[c] = target[c]
        /\ \A d \in Callers \ {c} : pc'[d] = pc[d] /\ target'[d] = target[d] /\ held'[d] = held[d]
    BY <2>1, <1>2, Plain DEF Await, VarTypes, CallTypes, Commands
  <2>3. LeadsToRecords => CallLeaves(c)'
    BY <1>2, <1>4, <2>2, RedisAssumption DEF LeadsToRecords, CallLeaves, AllHashes, AllIds, Fetch, redis
  <2>4. CallOK(c)' /\ \A i \in AllIds, g \in AllHashes : CallPair(c, i, g)' => Pair(i, g)
    BY <1>2, <2>2 DEF CallPair, CallOK
  <2> QED
    BY <1>1, <1>3, <2>2, <2>3, <2>4, ReadKeeps DEF Fetch, NoGrant, Others
<1>5. CASE ~(records[target[c]] = Null \/ records[target[c]].keyHash = Null)
  <2>1. Await(c, op[c], "unindex", target[c], records[target[c]])
    BY <1>5 DEF Fetch
  <2>2. /\ CallTypes' /\ pc'[c] = "unindex" /\ target'[c] = target[c] /\ held'[c] = records[target[c]]
        /\ \A d \in Callers \ {c} : pc'[d] = pc[d] /\ target'[d] = target[d] /\ held'[d] = held[d]
    BY <2>1, <1>2, Plain DEF Await, VarTypes, CallTypes, Commands
  <2>3. records[target[c]].id = target[c] /\ target[c] # Null
    BY <1>2, <1>5, RedisAssumption DEF RecordOK, AllIds
  <2>4. CallOK(c)' /\ \A i \in AllIds, g \in AllHashes : CallPair(c, i, g)' => Pair(i, g)
    BY <1>2, <1>5, <2>2, <2>3 DEF CallPair, CallOK, Pair
  <2>5. LeadsToRecords => CallLeaves(c)'
    BY <2>2 DEF CallLeaves
  <2> QED
    BY <1>1, <1>3, <2>2, <2>4, <2>5, ReadKeeps DEF Fetch, NoGrant, Others
<1> QED
  BY <1>4, <1>5

-----------------------------------------------------------------------------
(* Steps that write. *)

LEMMA TickKeeps ==
  ASSUME IInv, Tick
  PROVE  IInv'
<1>0. UNCHANGED <<records, index, reliable, usedIds, issued, overlapped, pc, sought, target, held,
                  todo, batch, olderThan>>
  BY DEF Tick, redis, locals, sweeping
<1>1. VarTypes'
  <2>1. clock' \in 1..MaxTime /\ 0..clock \subseteq 0..clock'
    BY Plain, RedisAssumption DEF Tick, VarTypes
  <2> QED
    BY <1>0, <2>1, Plain DEF VarTypes, Tick, NoGrant
<1>2. (\A i \in AllIds : RecordOK(i)') /\ \A c \in Callers : CallOK(c)'
  BY <1>0, Plain DEF Types, RecordOK, CallOK
<1>3. Matched'
  BY <1>0, Plain DEF Matched, Pair, CallPair
<1>4. LostAreMended'
  BY <1>0, Plain DEF LostAreMended, Lost, Mends
<1>5. Tidy'
  BY <1>0, Plain DEF Tidy, Alone, LeadsToRecords, CallLeaves
<1> QED
  BY <1>1, <1>2, <1>3, <1>4, <1>5 DEF IInv, Types

LEMMA CreateKeyKeeps ==
  ASSUME IInv, NEW c \in Callers, CreateKey(c)
  PROVE  IInv'
<1>1. PICK i \in Ids \ usedIds, h \in Hashes \ issued, t \in Expiries :
        LET new == [id |-> i, keyHash |-> h, expiresAt |-> t, revoked |-> FALSE]
        IN  /\ usedIds' = usedIds \cup {i} /\ issued' = issued \cup {h}
            /\ HSet(new)
            /\ Await(c, "createKey", "index", i, new)
  BY DEF CreateKey
<1> DEFINE new == [id |-> i, keyHash |-> h, expiresAt |-> t, revoked |-> FALSE]
<1>2. /\ new \in KeyRecord /\ new # Null /\ new.id = i /\ new.keyHash = h
      /\ i # Null /\ h # Null /\ i # Undefined /\ h # Undefined /\ i \in AllIds /\ h \in AllHashes
  <2>1. /\ i # Null /\ h # Null /\ i # Undefined /\ h # Undefined
        /\ i \in AllIds /\ h \in AllHashes /\ t \in Nat \cup {Null}
    BY RedisAssumption DEF AllIds, AllHashes
  <2>2. new \in KeyRecord
    BY <2>1 DEF KeyRecord
  <2> QED
    BY <2>1, <2>2, NullIsNoRecord
<1>3. /\ records' = [records EXCEPT ![i] = new]
      /\ Await(c, "createKey", "index", i, new)
      /\ usedIds' = usedIds \cup {i} /\ issued' = issued \cup {h}
  BY <1>1, <1>2 DEF HSet
<1> HIDE DEF new
<1>4. /\ CallTypes' /\ pc'[c] = "index" /\ target'[c] = i /\ held'[c] = new
      /\ \A d \in Callers \ {c} : pc'[d] = pc[d] /\ target'[d] = target[d] /\ held'[d] = held[d]
  BY <1>2, <1>3, Plain DEF Await, VarTypes, CallTypes, Commands
<1>5. Counts(c) /\ overlapped' \in BOOLEAN /\ UNCHANGED <<clock, reliable>> /\ pc[c] = "idle"
  BY StartsCounts DEF CreateKey
<1>6. Others(c) /\ RestTypes' /\ UNCHANGED <<index, sought>> /\ granted' = Null
  BY <1>4, <1>5, Plain, SameRest DEF Others, CreateKey, NoGrant
<1>7. /\ records' \in [AllIds -> KeyRecord \cup {Null}] /\ records'[i] = new
      /\ \A j \in AllIds \ {i} : records'[j] = records[j]
  BY <1>2, <1>3, Plain DEF VarTypes
<1>8. Types'
  <2>1. CallOK(c)'
    BY <1>2, <1>4 DEF CallOK
  <2>2. \A j \in AllIds : RecordOK(j)'
    BY <1>2, <1>7, Plain DEF RecordOK, Types
  <2>3. usedIds' \subseteq Ids /\ issued \subseteq issued' /\ issued' \subseteq Hashes
    BY <1>3, Plain DEF VarTypes
  <2> QED
    BY <1>4, <1>5, <1>6, <1>7, <2>1, <2>2, <2>3, Plain, TypesKept DEF VarTypes
<1>9. ASSUME NEW j \in AllIds, NEW g \in AllHashes, Pair(j, g)'
      PROVE  \/ Pair(j, g)
             \/ j = i /\ g = h
  <2>1. CASE \E d \in Callers : CallPair(d, j, g)'
    <3>1. PICK d \in Callers : CallPair(d, j, g)'
      BY <2>1
    <3>2. CASE d = c
      BY <1>2, <1>4, <3>1, <3>2 DEF CallPair
    <3>3. CASE d # c
      BY <1>6, <3>1, <3>3 DEF Others, CallPair, Pair
    <3> QED
      BY <3>2, <3>3
  <2>2. CASE ~\E d \in Callers : CallPair(d, j, g)'
    BY <1>2, <1>6, <1>7, <1>9, <2>2 DEF Pair
  <2> QED
    BY <2>1, <2>2
<1>10. \A j \in AllIds, g \in AllHashes : Pair(j, g) => j # i /\ g # h
  BY <1>2, Plain DEF Matched
<1>11. Matched'
  <2> SUFFICES ASSUME NEW j \in AllIds, NEW g \in AllHashes, Pair(j, g)'
               PROVE  /\ j \in usedIds' \cup {Undefined} /\ g \in issued' \cup {Undefined}
                      /\ \A k \in AllIds, f \in AllHashes : Pair(k, f)' => (j = k <=> g = f)
    BY DEF Matched
  <2>1. j \in usedIds' \cup {Undefined} /\ g \in issued' \cup {Undefined}
    BY <1>3, <1>9, Plain DEF Matched
  <2>2. ASSUME NEW k \in AllIds, NEW f \in AllHashes, Pair(k, f)' PROVE j = k <=> g = f
    <3>1. Pair(j, g) \/ (j = i /\ g = h)
      BY <1>9
    <3>2. Pair(k, f) \/ (k = i /\ f = h)
      BY <1>9, <2>2
    <3> QED
      BY <1>10, <3>1, <3>2, Plain DEF Matched
  <2> QED
    BY <2>1, <2>2
<1>12. LostAreMended'
  <2> SUFFICES ASSUME reliable, NEW j \in AllIds, Lost(j)'
               PROVE  \E d \in Callers : Mends(d, j)'
    BY <1>5 DEF LostAreMended
  <2>1. CASE j = i
    BY <1>2, <1>4, <2>1 DEF Mends
  <2>2. CASE j # i
    <3>1. Lost(j)
      BY <1>6, <1>7, <2>2 DEF Lost
    <3>2. PICK d \in Callers : Mends(d, j)
      BY <3>1, Plain DEF LostAreMended
    <3> QED
      BY <1>5, <1>6, <3>2 DEF Mends, Others
  <2> QED
    BY <2>1, <2>2
<1>13. Tidy'
  <2>1. ASSUME reliable, ~overlapped' PROVE LeadsToRecords' /\ CallLeaves(c)'
    <3>1. LeadsToRecords
      BY <1>5, <1>6, <2>1, Plain, OneCall
    <3>2. ASSUME NEW g \in AllHashes, index[g] # Null PROVE index[g] \in AllIds \ {i}
      <4>1. index[g] \in AllIds
        BY <3>2, Plain DEF VarTypes
      <4>2. Pair(index[g], g)
        BY DEF Pair
      <4> QED
        BY <1>10, <4>1, <4>2
    <3>3. LeadsToRecords'
      BY <1>6, <1>7, <3>1, <3>2 DEF LeadsToRecords
    <3>4. CallLeaves(c)'
      BY <1>2, <1>4, <1>7 DEF CallLeaves
    <3> QED
      BY <3>3, <3>4
  <2> QED
    BY <1>5, <1>6, <2>1, Plain, TidyKept
<1> QED
  BY <1>8, <1>11, <1>12, <1>13 DEF IInv

LEMMA RevokeKeyKeeps ==
  ASSUME IInv, NEW c \in Callers, RevokeKey(c)
  PROVE  IInv'
<1>1. PICK i \in usedIds :
        records' = [records EXCEPT ![i] =
          IF @ = Null
            THEN [id |-> Null, keyHash |-> Null, expiresAt |-> Null, revoked |-> TRUE]
            ELSE [@ EXCEPT !.revoked = TRUE]]
  BY DEF RevokeKey
<1>2. i \in AllIds /\ Null \notin AllHashes
  BY Plain, RedisAssumption DEF VarTypes, AllIds, AllHashes
<1> DEFINE partial == [id |-> Null, keyHash |-> Null, expiresAt |-> Null, revoked |-> TRUE]
           marked == [records[i] EXCEPT !.revoked = TRUE]
<1>3. partial \in KeyRecord /\ partial # Null
  <2>1. partial \in KeyRecord
    BY DEF KeyRecord
  <2> QED
    BY <2>1, NullIsNoRecord
<1>4. records[i] # Null => /\ marked \in KeyRecord /\ marked # Null
                           /\ marked.id = records[i].id /\ marked.keyHash = records[i].keyHash
                           /\ marked.revoked
  <2>1. records[i] # Null => records[i] \in KeyRecord
    BY <1>2, Plain DEF VarTypes
  <2>2. records[i] # Null => /\ marked \in KeyRecord
                             /\ marked.id = records[i].id /\ marked.keyHash = records[i].keyHash
                             /\ marked.revoked
    BY <2>1 DEF KeyRecord
  <2> QED
    BY <2>2, NullIsNoRecord
<1>5. /\ records' \in [AllIds -> KeyRecord \cup {Null}]
      /\ \A j \in AllIds \ {i} : records'[j] = records[j]
      /\ \/ records[i] = Null /\ records'[i] = partial
         \/ records[i] # Null /\ records'[i] = marked
  <2>1. records \in [AllIds -> KeyRecord \cup {Null}]
    BY Plain DEF VarTypes
  <2>2. records' = [records EXCEPT ![i] = IF records[i] = Null THEN partial ELSE marked]
    BY <1>1, <1>2, <2>1
  <2> HIDE DEF partial, marked
  <2> QED
    BY <1>2, <1>3, <1>4, <2>1, <2>2
<1>6. /\ records'[i] # Null
      /\ \/ /\ records[i] = Null
            /\ records'[i].id = Null /\ records'[i].keyHash = Null /\ records'[i].revoked
         \/ /\ records[i] # Null
            /\ records'[i].id = records[i].id /\ records'[i].keyHash = records[i].keyHash
            /\ records'[i].revoked
  <2>1. partial.id = Null /\ partial.keyHash = Null /\ partial.revoked
    OBVIOUS
  <2> HIDE DEF partial, marked
  <2> QED
    BY <1>3, <1>4, <1>5, <2>1
<1> HIDE DEF partial, marked
<1>7. Counts(c) /\ overlapped' \in BOOLEAN /\ UNCHANGED <<clock, reliable>> /\ pc[c] = "idle"
  BY StartsCounts DEF RevokeKey
<1>8. UNCHANGED <<index, usedIds, issued, pc, sought, target, held, todo, batch, olderThan>>
  BY DEF RevokeKey, locals, sweeping
<1>9. Others(c) /\ CallTypes' /\ RestTypes' /\ granted' = Null
  BY <1>7, <1>8, Plain DEF Others, VarTypes, CallTypes, RestTypes, RevokeKey, NoGrant
<1>10. Types'
  <2>1. CallOK(c)'
    BY <1>7, <1>8 DEF CallOK
  <2>2. \A j \in AllIds : RecordOK(j)'
    BY <1>5, <1>6, Plain DEF RecordOK, Types
  <2> QED
    BY <1>5, <1>7, <1>8, <1>9, <2>1, <2>2, Plain, TypesKept DEF VarTypes
<1>11. Matched'
  <2>1. ASSUME NEW j \in AllIds, NEW h \in AllHashes, Pair(j, h)' PROVE Pair(j, h)
    <3>1. records'[j] # Null /\ records'[j].keyHash = h =>
            records[j] # Null /\ records[j].keyHash = h
      BY <1>2, <1>5, <1>6
    <3> QED
      BY <1>8, <2>1, <3>1 DEF Pair, CallPair
  <2> QED
    BY <1>8, <2>1, MatchedKept, Plain
<1>12. LostAreMended'
  <2> SUFFICES ASSUME reliable, NEW j \in AllIds, Lost(j)' PROVE \E d \in Callers : Mends(d, j)'
    BY <1>7 DEF LostAreMended
  <2>1. Lost(j)
    BY <1>5, <1>6, <1>8 DEF Lost
  <2> QED
    BY <1>8, <2>1, Plain DEF LostAreMended, Mends
<1>13. Tidy'
  <2>1. ASSUME reliable, ~overlapped' PROVE LeadsToRecords' /\ CallLeaves(c)'
    <3>1. LeadsToRecords
      BY <1>7, <1>9, <2>1, Plain, OneCall
    <3>2. \A h \in AllHashes : index[h] # Null => index[h] \in AllIds
      BY Plain DEF VarTypes
    <3>3. LeadsToRecords'
      BY <1>5, <1>6, <1>8, <3>1, <3>2 DEF LeadsToRecords
    <3> QED
      BY <1>7, <1>8, <3>3 DEF CallLeaves
  <2> QED
    BY <1>7, <1>9, <2>1, Plain, TidyKept
<1> QED
  BY <1>10, <1>11, <1>12, <1>13 DEF IInv

LEMMA UpdateKeeps ==
  ASSUME IInv, NEW c \in Callers, Update(c)
  PROVE  IInv'
<1>1. /\ Counts(c) /\ overlapped' \in BOOLEAN /\ pc[c] = "hset"
      /\ UNCHANGED <<clock, reliable, usedIds, issued>>
  BY Plain, GoesCounts DEF Update
<1> DEFINE r == held[c]
<1>2. /\ r \in KeyRecord /\ r # Null /\ r.id # Null /\ r.keyHash # Null /\ target[c] = r.id
      /\ r.id \in AllIds /\ r.keyHash \in AllHashes
  <2>1. /\ r \in KeyRecord /\ r # Null /\ r.id # Null /\ r.keyHash # Null /\ target[c] = r.id
    BY <1>1, Plain, NullIsNoRecord DEF Types, VarTypes, CallOK
  <2> QED
    BY <2>1 DEF KeyRecord
<1>3. Pair(r.id, r.keyHash)
  BY <1>1 DEF Pair, CallPair
<1>4. records' = [records EXCEPT ![r.id] = r] /\ Await(c, op[c], "index", target[c], r)
  BY DEF Update, HSet
<1> HIDE DEF r
<1>5. /\ CallTypes' /\ pc'[c] = "index" /\ target'[c] = r.id /\ held'[c] = r
      /\ \A d \in Callers \ {c} : pc'[d] = pc[d] /\ target'[d] = target[d] /\ held'[d] = held[d]
  BY <1>2, <1>4, Plain DEF Await, VarTypes, CallTypes, Commands
<1>6. Others(c) /\ RestTypes' /\ UNCHANGED <<index, sought>> /\ granted' = Null
  BY <1>1, <1>5, Plain, SameRest DEF Others, Update, NoGrant
<1>7. /\ records' \in [AllIds -> KeyRecord \cup {Null}] /\ records'[r.id] = r
      /\ \A j \in AllIds \ {r.id} : records'[j] = records[j]
  BY <1>2, <1>4, Plain DEF VarTypes
<1>8. Types'
  <2>1. CallOK(c)'
    BY <1>2, <1>5 DEF CallOK
  <2>2. \A j \in AllIds : RecordOK(j)'
    BY <1>2, <1>7, Plain DEF RecordOK, Types
  <2> QED
    BY <1>1, <1>5, <1>6, <1>7, <2>1, <2>2, Plain, TypesKept DEF VarTypes
<1>9. ASSUME NEW j \in AllIds, NEW g \in AllHashes, Pair(j, g)' PROVE Pair(j, g)
  <2>1. CASE \E d \in Callers : CallPair(d, j, g)'
    <3>1. PICK d \in Callers : CallPair(d, j, g)'
      BY <2>1
    <3>2. CASE d = c
      BY <1>3, <1>5, <3>1, <3>2 DEF CallPair
    <3>3. CASE d # c
      BY <1>6, <3>1, <3>3 DEF Others, CallPair, Pair
    <3> QED
      BY <3>2, <3>3
  <2>2. CASE ~\E d \in Callers : CallPair(d, j, g)'
    <3>1. CASE j = r.id /\ g = r.keyHash
      BY <1>3, <3>1
    <3>2. CASE ~(j = r.id /\ g = r.keyHash)
      BY <1>6, <1>7, <1>9, <2>2, <3>2 DEF Pair
    <3> QED
      BY <3>1, <3>2
  <2> QED
    BY <2>1, <2>2
<1>10. Matched'
  BY <1>1, <1>9, MatchedKept, Plain
<1>11. LostAreMended'
  <2> SUFFICES ASSUME reliable, NEW j \in AllIds, Lost(j)' PROVE \E d \in Callers : Mends(d, j)'
    BY <1>1 DEF LostAreMended
  <2>1. CASE j = r.id
    BY <1>5, <2>1 DEF Mends
  <2>2. CASE j # r.id
    <3>1. Lost(j)
      BY <1>6, <1>7, <2>2 DEF Lost
    <3>2. PICK d \in Callers : Mends(d, j)
      BY <3>1, Plain DEF LostAreMended
    <3> QED
      BY <1>1, <1>6, <3>2 DEF Mends, Others
  <2> QED
    BY <2>1, <2>2
<1>12. Tidy'
  <2>1. ASSUME reliable, ~overlapped' PROVE LeadsToRecords' /\ CallLeaves(c)'
    <3>1. LeadsToRecords
      BY <1>1, <1>6, <2>1, Plain, OneCall
    <3>2. ASSUME NEW g \in AllHashes, index[g] # Null
          PROVE  /\ index[g] \in AllIds
                 /\ index[g] = r.id => g = r.keyHash
      <4>1. index[g] \in AllIds
        BY <3>2, Plain DEF VarTypes
      <4>2. Pair(index[g], g)
        BY DEF Pair
      <4> QED
        BY <1>2, <1>3, <4>1, <4>2, Plain DEF Matched
    <3>3. LeadsToRecords'
      BY <1>2, <1>6, <1>7, <3>1, <3>2 DEF LeadsToRecords
    <3>4. CallLeaves(c)'
      BY <1>2, <1>5, <1>7 DEF CallLeaves
    <3> QED
      BY <3>3, <3>4
  <2> QED
    BY <1>1, <1>6, <2>1, Plain, TidyKept
<1> QED
  BY <1>8, <1>10, <1>11, <1>12 DEF IInv

LEMMA SetIndexKeeps ==
  ASSUME IInv, NEW c \in Callers, SetIndex(c)
  PROVE  IInv'
<1>1. /\ Counts(c) /\ overlapped' \in BOOLEAN /\ pc[c] = "index"
      /\ UNCHANGED <<clock, reliable, usedIds, issued>>
  BY Plain, GoesCounts DEF SetIndex
<1>2. CallTypes' /\ RestTypes' /\ Others(c) /\ pc'[c] = "idle"
  BY <1>1, Plain, AnswerIs DEF SetIndex
<1> DEFINE i == held[c].id
           h == held[c].keyHash
<1>3. i \in AllIds /\ h \in AllHashes
  <2>1. held[c] \in KeyRecord /\ i # Null /\ h # Null
    BY <1>1, Plain, NullIsNoRecord DEF Types, VarTypes, CallOK
  <2> QED
    BY <2>1 DEF KeyRecord
<1>4. Pair(i, h)
  BY <1>1 DEF Pair, CallPair
<1>5. index' = [index EXCEPT ![h] = i] /\ records' = records /\ granted' = Null
  BY DEF SetIndex, NoGrant
<1>6. /\ index' \in [AllHashes -> AllIds \cup {Null}] /\ index'[h] = i
      /\ \A g \in AllHashes \ {h} : index'[g] = index[g]
  BY <1>3, <1>5, Plain DEF VarTypes
<1>7. \A j \in AllIds, g \in AllHashes : Pair(j, g) => (j = i <=> g = h)
  BY <1>3, <1>4, Plain DEF Matched
<1> HIDE DEF i, h
<1>8. Types'
  <2>1. CallOK(c)'
    BY <1>2 DEF CallOK
  <2>2. \A j \in AllIds : RecordOK(j)'
    BY <1>5, Plain DEF RecordOK, Types
  <2> QED
    BY <1>1, <1>2, <1>5, <1>6, <2>1, <2>2, Plain, TypesKept DEF VarTypes
<1>9. ASSUME NEW j \in AllIds, NEW g \in AllHashes, Pair(j, g)' PROVE Pair(j, g)
  <2>1. CASE \E d \in Callers : CallPair(d, j, g)'
    <3>1. PICK d \in Callers : CallPair(d, j, g)'
      BY <2>1
    <3>2. d # c
      BY <1>2, <3>1 DEF CallPair
    <3> QED
      BY <1>2, <3>1, <3>2 DEF Others, CallPair, Pair
  <2>2. CASE ~\E d \in Callers : CallPair(d, j, g)'
    <3>1. CASE j = i /\ g = h
      BY <1>4, <3>1
    <3>2. CASE ~(j = i /\ g = h)
      BY <1>5, <1>6, <1>9, <2>2, <3>2 DEF Pair
    <3> QED
      BY <3>1, <3>2
  <2> QED
    BY <2>1, <2>2
<1>10. Matched'
  BY <1>1, <1>9, MatchedKept, Plain
<1>11. LostAreMended'
  <2> SUFFICES ASSUME reliable, NEW j \in AllIds, Lost(j)' PROVE \E d \in Callers : Mends(d, j)'
    BY <1>1 DEF LostAreMended
  <2>1. records[j].keyHash \in AllHashes /\ records[j] # Null
    <3>1. records[j] \in KeyRecord /\ records[j].keyHash # Null
      BY <1>5, Plain DEF Lost, VarTypes
    <3> QED
      BY <1>5, <3>1 DEF Lost, KeyRecord
  <2>2. Pair(j, records[j].keyHash)
    BY <2>1 DEF Pair
  <2>3. j # i
    BY <1>5, <1>6, <1>7, <2>1, <2>2 DEF Lost
  <2>4. Lost(j)
    BY <1>5, <1>6, <1>7, <2>1, <2>2, <2>3 DEF Lost
  <2>5. PICK d \in Callers : Mends(d, j)
    BY <2>4, Plain DEF LostAreMended
  <2>6. d # c
    BY <1>1, <2>3, <2>5 DEF Mends, i
  <2> QED
    BY <1>2, <2>5, <2>6 DEF Mends, Others
<1>12. Tidy'
  <2>1. ASSUME reliable, ~overlapped' PROVE LeadsToRecords' /\ CallLeaves(c)'
    <3>1. LeadsToRecords /\ CallLeaves(c)
      BY <1>1, <1>2, <2>1, Plain, OneCall
    <3>2. records[i] # Null /\ records[i].keyHash = h
      BY <1>1, <3>1 DEF CallLeaves, i, h
    <3>3. LeadsToRecords'
      BY <1>5, <1>6, <3>1, <3>2 DEF LeadsToRecords
    <3> QED
      BY <1>2, <3>3 DEF CallLeaves
  <2> QED
    BY <1>1, <1>2, <2>1, Plain, TidyKept
<1> QED
  BY <1>8, <1>10, <1>11, <1>12 DEF IInv

LEMMA UnindexKeeps ==
  ASSUME IInv, NEW c \in Callers, Unindex(c)
  PROVE  IInv'
<1>1. /\ Counts(c) /\ overlapped' \in BOOLEAN /\ pc[c] = "unindex"
      /\ UNCHANGED <<clock, reliable, usedIds, issued>>
  BY Plain, GoesCounts DEF Unindex
<1> DEFINE i == held[c].id
           h == held[c].keyHash
<1>2. i \in AllIds /\ h \in AllHashes /\ target[c] = i /\ i # Null
  <2>1. held[c] \in KeyRecord /\ i # Null /\ h # Null /\ target[c] = i
    BY <1>1, Plain, NullIsNoRecord DEF Types, VarTypes, CallOK
  <2> QED
    BY <2>1 DEF KeyRecord
<1>3. Pair(i, h)
  BY <1>1 DEF Pair, CallPair
<1>4. /\ index' = [index EXCEPT ![h] = Null] /\ records' = records /\ granted' = Null
      /\ Await(c, op[c], "drop", target[c], Null)
  BY DEF Unindex, NoGrant
<1>5. /\ index' \in [AllHashes -> AllIds \cup {Null}] /\ index'[h] = Null
      /\ \A g \in AllHashes \ {h} : index'[g] = index[g]
  BY <1>2, <1>4, Plain DEF VarTypes
<1>6. \A j \in AllIds, g \in AllHashes : Pair(j, g) => (j = i <=> g = h)
  BY <1>2, <1>3, Plain DEF Matched
<1> HIDE DEF i, h
<1>7. /\ CallTypes' /\ pc'[c] = "drop" /\ target'[c] = i
      /\ \A d \in Callers \ {c} : pc'[d] = pc[d] /\ target'[d] = target[d] /\ held'[d] = held[d]
  BY <1>2, <1>4, Plain DEF Await, VarTypes, CallTypes, Commands
<1>8. Others(c) /\ RestTypes'
  BY <1>1, <1>7, Plain, SameRest DEF Others, Unindex
<1>9. Types'
  <2>1. CallOK(c)'
    BY <1>2, <1>7 DEF CallOK
  <2>2. \A j \in AllIds : RecordOK(j)'
    BY <1>4, Plain DEF RecordOK, Types
  <2> QED
    BY <1>1, <1>4, <1>5, <1>7, <1>8, <2>1, <2>2, Plain, TypesKept DEF VarTypes
<1>10. ASSUME NEW j \in AllIds, NEW g \in AllHashes, Pair(j, g)' PROVE Pair(j, g)
  <2>1. CASE \E d \in Callers : CallPair(d, j, g)'
    <3>1. PICK d \in Callers : CallPair(d, j, g)'
      BY <2>1
    <3>2. d # c
      BY <1>7, <3>1 DEF CallPair
    <3> QED
      BY <1>8, <3>1, <3>2 DEF Others, CallPair, Pair
  <2>2. CASE ~\E d \in Callers : CallPair(d, j, g)'
    <3>1. j # Null
      BY RedisAssumption DEF AllIds
    <3> QED
      BY <1>4, <1>5, <1>10, <2>2, <3>1 DEF Pair
  <2> QED
    BY <2>1, <2>2
<1>11. Matched'
  BY <1>1, <1>10, MatchedKept, Plain
<1>12. LostAreMended'
  <2> SUFFICES ASSUME reliable, NEW j \in AllIds, Lost(j)' PROVE \E d \in Callers : Mends(d, j)'
    BY <1>1 DEF LostAreMended
  <2>1. CASE j = i
    BY <1>7, <2>1 DEF Mends
  <2>2. CASE j # i
    <3>1. records[j].keyHash \in AllHashes /\ records[j] # Null
      <4>1. records[j] \in KeyRecord /\ records[j].keyHash # Null
        BY <1>4, Plain DEF Lost, VarTypes
      <4> QED
        BY <1>4, <4>1 DEF Lost, KeyRecord
    <3>2. Pair(j, records[j].keyHash)
      BY <3>1 DEF Pair
    <3>3. Lost(j)
      BY <1>4, <1>5, <1>6, <2>2, <3>1, <3>2 DEF Lost
    <3>4. PICK d \in Callers : Mends(d, j)
      BY <3>3, Plain DEF LostAreMended
    <3>5. d # c
      BY <1>1, <3>4 DEF Mends
    <3> QED
      BY <1>8, <3>4, <3>5 DEF Mends, Others
  <2> QED
    BY <2>1, <2>2
<1>13. Tidy'
  <2>1. ASSUME reliable, ~overlapped' PROVE LeadsToRecords' /\ CallLeaves(c)'
    <3>1. LeadsToRecords
      BY <1>1, <1>8, <2>1, Plain, OneCall
    <3>2. \A g \in AllHashes : index'[g] # i
      <4>1. \A g \in AllHashes : index[g] = i => Pair(i, g)
        BY DEF Pair
      <4> QED
        BY <1>2, <1>5, <1>6, <4>1
    <3>3. LeadsToRecords'
      BY <1>4, <1>5, <3>1 DEF LeadsToRecords
    <3> QED
      BY <1>7, <3>2, <3>3 DEF CallLeaves
  <2> QED
    BY <1>1, <1>8, <2>1, Plain, TidyKept
<1> QED
  BY <1>9, <1>11, <1>12, <1>13 DEF IInv

LEMMA DropKeeps ==
  ASSUME IInv, NEW c \in Callers, Drop(c)
  PROVE  IInv'
<1>1. /\ Counts(c) /\ overlapped' \in BOOLEAN /\ pc[c] = "drop"
      /\ UNCHANGED <<clock, reliable, usedIds, issued>>
  BY Plain, GoesCounts DEF Drop
<1> DEFINE i == target[c]
<1>2. i \in AllIds /\ batch[c] \in SUBSET AllIds
  BY <1>1, Plain DEF Types, VarTypes, CallOK
<1>3. /\ CallTypes' /\ RestTypes' /\ Others(c)
      /\ \/ pc'[c] = "idle"
         \/ pc'[c] = "fetch" /\ target'[c] \in AllIds
  BY <1>1, <1>2, Plain, NextOfBatchIs DEF Drop
<1>4. records' = [records EXCEPT ![i] = Null] /\ index' = index /\ granted' = Null
  BY DEF Drop, NoGrant
<1>5. /\ records' \in [AllIds -> KeyRecord \cup {Null}] /\ records'[i] = Null
      /\ \A j \in AllIds \ {i} : records'[j] = records[j]
  BY <1>2, <1>4, Plain DEF VarTypes
<1> HIDE DEF i
<1>6. Types'
  <2>1. CallOK(c)'
    BY <1>3 DEF CallOK
  <2>2. \A j \in AllIds : RecordOK(j)'
    BY <1>5, Plain DEF RecordOK, Types
  <2> QED
    BY <1>1, <1>3, <1>4, <1>5, <2>1, <2>2, Plain, TypesKept DEF VarTypes
<1>7. ASSUME NEW j \in AllIds, NEW g \in AllHashes, Pair(j, g)' PROVE Pair(j, g)
  <2>1. CASE \E d \in Callers : CallPair(d, j, g)'
    <3>1. PICK d \in Callers : CallPair(d, j, g)'
      BY <2>1
    <3>2. d # c
      BY <1>3, <3>1 DEF CallPair
    <3> QED
      BY <1>3, <3>1, <3>2 DEF Others, CallPair, Pair
  <2>2. CASE ~\E d \in Callers : CallPair(d, j, g)'
    BY <1>4, <1>5, <1>7, <2>2 DEF Pair
  <2> QED
    BY <2>1, <2>2
<1>8. Matched'
  BY <1>1, <1>7, MatchedKept, Plain
<1>9. LostAreMended'
  <2> SUFFICES ASSUME reliable, NEW j \in AllIds, Lost(j)' PROVE \E d \in Callers : Mends(d, j)'
    BY <1>1 DEF LostAreMended
  <2>1. j # i /\ Lost(j)
    BY <1>4, <1>5 DEF Lost
  <2>2. PICK d \in Callers : Mends(d, j)
    BY <2>1, Plain DEF LostAreMended
  <2>3. d # c
    BY <1>1, <2>1, <2>2 DEF Mends, i
  <2> QED
    BY <1>3, <2>2, <2>3 DEF Mends, Others
<1>10. Tidy'
  <2>1. ASSUME reliable, ~overlapped' PROVE LeadsToRecords' /\ CallLeaves(c)'
    <3>1. LeadsToRecords /\ CallLeaves(c)
      BY <1>1, <1>3, <2>1, Plain, OneCall
    <3>2. \A g \in AllHashes : index[g] # i
      BY <1>1, <3>1 DEF CallLeaves, i
    <3>3. \A g \in AllHashes : index[g] # Null => index[g] \in AllIds
      BY Plain DEF VarTypes
    <3>4. LeadsToRecords'
      BY <1>4, <1>5, <3>1, <3>2, <3>3 DEF LeadsToRecords
    <3> QED
      BY <1>3, <3>4 DEF CallLeaves
  <2> QED
    BY <1>1, <1>3, <2>1, Plain, TidyKept
<1> QED
  BY <1>6, <1>8, <1>9, <1>10 DEF IInv

LEMMA StepKeeps ==
  ASSUME IInv, [Next]_vars
  PROVE  IInv'
<1>1. CASE Tick
  BY <1>1, TickKeeps
<1>2. ASSUME NEW c \in Callers, Start(c) PROVE IInv'
  <2>1. CASE CreateKey(c)
    BY <2>1, CreateKeyKeeps
  <2>2. CASE ExtendKeyExpiry(c)
    BY <2>2, ExtendKeyExpiryKeeps
  <2>3. CASE RevokeKey(c)
    BY <2>3, RevokeKeyKeeps
  <2>4. CASE Get(c)
    BY <2>4, GetKeeps
  <2>5. CASE HardRemoveKey(c)
    BY <2>5, HardRemoveKeyLetsGo, LetsGoKeeps
  <2>6. CASE Keys(c)
    BY <2>6, KeysLetsGo, LetsGoKeeps
  <2> QED
    BY <1>2, <2>1, <2>2, <2>3, <2>4, <2>5, <2>6 DEF Start
<1>3. ASSUME NEW c \in Callers, Continue(c) PROVE IInv'
  <2>1. CASE Update(c)
    BY <2>1, UpdateKeeps
  <2>2. CASE SetIndex(c)
    BY <2>2, SetIndexKeeps
  <2>3. CASE LoadRefused(c)
    BY <2>3, LoadRefusedLetsGo, LetsGoKeeps
  <2>4. CASE LoadExpired(c)
    BY <2>4, LoadExpiredLetsGo, LetsGoKeeps
  <2>5. CASE LoadValid(c)
    BY <2>5, LoadValidKeeps
  <2>6. CASE Fetch(c)
    BY <2>6, FetchKeeps
  <2>7. CASE Unindex(c)
    BY <2>7, UnindexKeeps
  <2>8. CASE Drop(c)
    BY <2>8, DropKeeps
  <2>9. CASE Scan(c)
    BY <2>9, ScanLetsGo, LetsGoKeeps
  <2>10. CASE Reject(c)
    BY <2>10, RejectLetsGo, LetsGoKeeps
  <2> QED
    BY <1>3, <2>1, <2>2, <2>3, <2>4, <2>5, <2>6, <2>7, <2>8, <2>9, <2>10 DEF Continue
<1>4. CASE UNCHANGED vars
  <2>0. UNCHANGED <<records, index, clock, reliable, usedIds, issued, granted, overlapped, pc,
                    sought, target, held, todo, batch, olderThan>>
    BY <1>4 DEF vars, redis, locals, sweeping
  <2>1. Types'
    BY <2>0, Plain DEF Types, VarTypes, RecordOK, CallOK
  <2>2. Matched'
    BY <2>0, Plain DEF Matched, Pair, CallPair
  <2>3. LostAreMended'
    BY <2>0, Plain DEF LostAreMended, Lost, Mends
  <2>4. Tidy'
    BY <2>0, Plain DEF Tidy, Alone, LeadsToRecords, CallLeaves
  <2> QED
    BY <2>1, <2>2, <2>3, <2>4 DEF IInv
<1> QED
  BY <1>1, <1>2, <1>3, <1>4 DEF Next

LEMMA Invariance == Spec => []IInv
<1>1. Init => IInv
  BY Initially
<1>2. IInv /\ [Next]_vars => IInv'
  BY StepKeeps
<1> QED
  BY <1>1, <1>2, PTL DEF Spec

-----------------------------------------------------------------------------
(* The invariants. *)

(* Records, index entries and what every call of redis.ts carries between    *)
(* two of its commands have their types.                                     *)
THEOREM TypeCorrect == Spec => []TypeOK
<1>1. IInv => TypeOK
  BY TypesImplyTypeOK DEF IInv
<1> QED
  BY <1>1, Invariance, PTL

(* However the commands of createKey, updateKey and hardRemoveKeyById are    *)
(* interleaved, a record that remains when every call has ended is found by  *)
(* its hash, unless a command rejected.                                      *)
THEOREM RecordsAreFindable == Spec => []Findable
<1>1. IInv => Findable
  <2> SUFFICES ASSUME IInv, AtRest, reliable,
                      NEW i \in AllIds, records[i] # Null, records[i].keyHash # Null
               PROVE  index[records[i].keyHash] = i
    BY DEF Findable
  <2>1. ~\E c \in Callers : Mends(c, i)
    BY DEF AtRest, Mends
  <2> QED
    BY <2>1, Plain DEF LostAreMended, Lost
<1> QED
  BY <1>1, Invariance, PTL

(* As long as calls follow one another and no command rejects, removeKey     *)
(* leaves no index entry behind: every entry leads to a record of its hash.  *)
THEOREM RemovalIsComplete == Spec => []NothingLeftBehind
<1>1. IInv => NothingLeftBehind
  BY DEF IInv, Tidy, LeadsToRecords, NothingLeftBehind
<1> QED
  BY <1>1, Invariance, PTL

-----------------------------------------------------------------------------
(* A key that is revoked or removed stays so. *)

LEMMA DeadIs ==
  ASSUME VarTypes, NEW h
  PROVE  Dead(h) <=>
           /\ \A i \in AllIds : records[i] # Null /\ records[i].keyHash = h => records[i].revoked
           /\ \A c \in Callers : pc[c] = "hset" /\ held[c].keyHash = h => held[c].revoked
BY DEF Dead, Stored, InFlight

(* No step but a write to Redis brings a record, none but a read a copy.     *)
LEMMA DeadKept ==
  ASSUME IInv, IInv', NEW h \in issued, Dead(h),
         \A i \in AllIds : records'[i] # Null /\ records'[i].keyHash = h /\ records'[i] # records[i]
                             => records'[i].revoked,
         \A c \in Callers : \/ pc'[c] = pc[c] /\ held'[c] = held[c]
                            \/ pc'[c] = "hset" /\ held'[c].keyHash = h => held'[c].revoked
  PROVE  Dead(h)'
<1>1. VarTypes /\ VarTypes'
  BY DEF IInv, Types
<1>2. \A i \in AllIds : records'[i] # Null /\ records'[i].keyHash = h => records'[i].revoked
  BY <1>1, DeadIs
<1>3. \A c \in Callers : pc'[c] = "hset" /\ held'[c].keyHash = h => held'[c].revoked
  BY <1>1, DeadIs
<1>4. Dead(h)' <=>
           /\ \A i \in AllIds : records'[i] # Null /\ records'[i].keyHash = h => records'[i].revoked
           /\ \A c \in Callers : pc'[c] = "hset" /\ held'[c].keyHash = h => held'[c].revoked
  BY <1>1 DEF Dead, Stored, InFlight
<1> QED
  BY <1>2, <1>3, <1>4

(* A step after which c has nothing to write back.                           *)
LEMMA DeadWithoutWrite ==
  ASSUME IInv, IInv', NEW h \in issued, Dead(h), NEW c \in Callers, Others(c), pc'[c] # "hset",
         \A i \in AllIds : records'[i] # Null /\ records'[i].keyHash = h /\ records'[i] # records[i]
                             => records'[i].revoked
  PROVE  Dead(h)'
<1>1. \A d \in Callers : \/ pc'[d] = pc[d] /\ held'[d] = held[d]
                         \/ pc'[d] = "hset" /\ held'[d].keyHash = h => held'[d].revoked
  BY DEF Others
<1> QED
  BY <1>1, DeadKept

LEMMA DeadLetsGo ==
  ASSUME IInv, IInv', NEW h \in issued, Dead(h), NEW c \in Callers, LetsGo(c)
  PROVE  Dead(h)'
BY DeadWithoutWrite DEF LetsGo, redis

LEMMA IssuedIs ==
  ASSUME IInv, NEW h \in issued
  PROVE  h \in Hashes /\ h \in AllHashes /\ h # Null /\ h # Undefined
BY Plain, RedisAssumption DEF VarTypes, AllHashes

LEMMA DeadReads ==
  ASSUME IInv, NEW h \in issued, Dead(h), NEW i \in AllIds, records[i] # Null,
         HGetAll(i).keyHash = h
  PROVE  HGetAll(i).revoked
<1>1. records[i].keyHash = h
  BY HGetAllIs, IssuedIs, Plain
<1> QED
  BY <1>1, HGetAllIs, Plain, DeadIs

LEMMA StartKeepsDead ==
  ASSUME IInv, IInv', NEW h \in issued, Dead(h), NEW c \in Callers, Start(c)
  PROVE  Dead(h)' /\ granted' # h
<1>1. granted' # h
  BY IssuedIs DEF Start, CreateKey, ExtendKeyExpiry, RevokeKey, Get, HardRemoveKey, Keys, NoGrant
<1>2. CASE CreateKey(c)
  <2>1. PICK i \in Ids \ usedIds, g \in Hashes \ issued, t \in Expiries :
          LET new == [id |-> i, keyHash |-> g, expiresAt |-> t, revoked |-> FALSE]
          IN  HSet(new) /\ Await(c, "createKey", "index", i, new)
    BY <1>2 DEF CreateKey
  <2> DEFINE new == [id |-> i, keyHash |-> g, expiresAt |-> t, revoked |-> FALSE]
  <2>2. new.id = i /\ new.keyHash = g /\ g # h /\ i \in AllIds
    BY DEF AllIds
  <2>3. records' = [records EXCEPT ![i] = new] /\ Await(c, "createKey", "index", i, new)
    BY <2>1, <2>2 DEF HSet
  <2> HIDE DEF new
  <2>4. pc'[c] = "index" /\ Others(c)
    BY <1>2, <2>3, Plain DEF CreateKey, VarTypes, Await, Others
  <2>5. \A j \in AllIds : records'[j] = IF j = i THEN new ELSE records[j]
    BY <2>2, <2>3, Plain DEF VarTypes
  <2> QED
    BY <1>1, <2>2, <2>4, <2>5, DeadWithoutWrite
<1>3. CASE ExtendKeyExpiry(c)
  <2>1. PICK i \in AllIds, r \in KeyRecord :
          /\ records[i] # Null /\ r.id = HGetAll(i).id /\ r.keyHash = HGetAll(i).keyHash
          /\ r.revoked = HGetAll(i).revoked
          /\ Await(c, "extendKeyExpiry", "hset", r.id, r)
    BY <1>3, ExtendIs
  <2>2. held'[c] = r /\ \A d \in Callers \ {c} : pc'[d] = pc[d] /\ held'[d] = held[d]
    BY <2>1, Plain DEF VarTypes, Await
  <2>3. r.keyHash = h => r.revoked
    BY <2>1, DeadReads
  <2>4. records' = records
    BY <1>3 DEF ExtendKeyExpiry, redis
  <2> QED
    BY <1>1, <2>2, <2>3, <2>4, DeadKept
<1>4. CASE RevokeKey(c)
  <2>1. PICK i \in usedIds :
          records' = [records EXCEPT ![i] =
            IF @ = Null
              THEN [id |-> Null, keyHash |-> Null, expiresAt |-> Null, revoked |-> TRUE]
              ELSE [@ EXCEPT !.revoked = TRUE]]
    BY <1>4 DEF RevokeKey
  <2>2. i \in AllIds
    BY Plain DEF VarTypes, AllIds
  <2>3. \A j \in AllIds \ {i} : records'[j] = records[j]
    BY <2>1, Plain DEF VarTypes
  <2>4. records'[i].revoked
    <3>1. records[i] # Null => records[i] \in KeyRecord
      BY <2>2, Plain DEF VarTypes
    <3> QED
      BY <2>1, <2>2, <3>1, Plain DEF VarTypes, KeyRecord
  <2>5. UNCHANGED <<pc, held>>
    BY <1>4 DEF RevokeKey, locals
  <2> QED
    BY <1>1, <2>3, <2>4, <2>5, DeadKept
<1>5. CASE Get(c)
  <2>1. PICK g \in issued : /\ Await(c, "verifyKey", "load", index[g], Null)
                            /\ sought' = [sought EXCEPT ![c] = g]
    BY <1>5 DEF Get
  <2>2. pc'[c] = "load" /\ Others(c)
    BY <2>1, Plain DEF VarTypes, Await, Others
  <2> QED
    BY <1>1, <1>5, <2>2, DeadWithoutWrite DEF Get, redis
<1>6. CASE HardRemoveKey(c)
  BY <1>1, <1>6, HardRemoveKeyLetsGo, DeadLetsGo
<1>7. CASE Keys(c)
  BY <1>1, <1>7, KeysLetsGo, DeadLetsGo
<1> QED
  BY <1>2, <1>3, <1>4, <1>5, <1>6, <1>7 DEF Start

LEMMA ContinueKeepsDead ==
  ASSUME IInv, IInv', NEW h \in issued, Dead(h), NEW c \in Callers, Continue(c)
  PROVE  Dead(h)' /\ granted' # h
<1>1. ~LoadValid(c) => granted' # h
  BY IssuedIs DEF Continue, Update, SetIndex, LoadRefused, LoadExpired, Fetch, Unindex, Drop, Scan,
                  Reject, NoGrant
<1>2. CASE Update(c)
  <2>1. /\ records' = [records EXCEPT ![held[c].id] = held[c]]
        /\ Await(c, op[c], "index", target[c], held[c])
        /\ pc[c] = "hset" /\ sought' = sought
    BY <1>2 DEF Update, HSet, Goes
  <2>2. pc'[c] = "index" /\ Others(c)
    BY <2>1, Plain DEF VarTypes, Await, Others
  <2>3. \A j \in AllIds : records'[j] = IF j = held[c].id THEN held[c] ELSE records[j]
    BY <2>1, Plain DEF VarTypes
  <2>4. held[c].keyHash = h => held[c].revoked
    BY <2>1, Plain, DeadIs
  <2> QED
    BY <1>1, <1>2, <2>2, <2>3, <2>4, DeadWithoutWrite DEF Update, Goes, LoadValid
<1>3. CASE SetIndex(c)
  <2>1. records' = records /\ pc[c] = "index" /\ Answer(c) /\ clock' = clock
    BY <1>3 DEF SetIndex, Goes
  <2>2. Others(c) /\ pc'[c] = "idle"
    BY <2>1, Plain, AnswerIs
  <2> QED
    BY <1>1, <2>1, <2>2, DeadWithoutWrite DEF LoadValid, Goes
<1>4. CASE LoadRefused(c) \/ LoadExpired(c) \/ Scan(c) \/ Reject(c)
  <2>1. LetsGo(c)
    BY <1>4, LoadRefusedLetsGo, LoadExpiredLetsGo, ScanLetsGo, RejectLetsGo
  <2>2. granted' = Null
    BY <1>4 DEF LoadRefused, LoadExpired, Scan, Reject, NoGrant
  <2> QED
    BY <2>1, <2>2, DeadLetsGo, IssuedIs
<1>5. CASE LoadValid(c)
  <2>1. /\ UNCHANGED redis /\ pc[c] = "load"
        /\ target[c] \in AllIds /\ records[target[c]] # Null /\ ~HGetAll(target[c]).revoked
        /\ granted' = sought[c] /\ sought[c] \in issued
        /\ \/ LetsGo(c)
           \/ /\ Await(c, "verifyKey", "hset", HGetAll(target[c]).id, HGetAll(target[c]))
              /\ UNCHANGED <<sought, sweeping>>
    BY <1>5, LoadValidIs
  <2>2. granted' # h
    <3> SUFFICES ASSUME sought[c] = h PROVE FALSE
      BY <2>1
    <3>1. records[target[c]].keyHash # Null
      BY <2>1, Plain, HGetAllIs
    <3>2. records[target[c]].keyHash \in AllHashes
      <4>1. records[target[c]] \in KeyRecord
        BY <2>1, Plain DEF VarTypes
      <4> QED
        BY <3>1, <4>1 DEF KeyRecord
    <3>3. Pair(target[c], records[target[c]].keyHash) /\ Pair(target[c], h)
      BY <2>1 DEF Pair, CallPair
    <3>4. records[target[c]].keyHash = h
      BY <2>1, <3>2, <3>3, IssuedIs, Plain DEF Matched
    <3> QED
      BY <2>1, <3>4, Plain, DeadIs, HGetAllIs
  <2>3. CASE LetsGo(c)
    BY <2>2, <2>3, DeadLetsGo
  <2>4. CASE Await(c, "verifyKey", "hset", HGetAll(target[c]).id, HGetAll(target[c]))
    <3>1. /\ held'[c] = HGetAll(target[c])
          /\ \A d \in Callers \ {c} : pc'[d] = pc[d] /\ held'[d] = held[d]
      BY <2>4, Plain DEF VarTypes, Await
    <3>2. held'[c].keyHash = h => held'[c].revoked
      BY <2>1, <3>1, DeadReads
    <3>3. records' = records
      BY <2>1 DEF redis
    <3> QED
      BY <2>2, <3>1, <3>2, <3>3, DeadKept
  <2> QED
    BY <2>1, <2>3, <2>4
<1>6. CASE Fetch(c)
  <2>1. /\ records' = records /\ sought' = sought /\ pc[c] = "fetch"
        /\ \/ Await(c, op[c], "drop", target[c], Null)
           \/ Await(c, op[c], "unindex", target[c], records[target[c]])
    BY <1>6 DEF Fetch, redis, Goes
  <2>2. pc'[c] # "hset" /\ Others(c)
    BY <2>1, Plain DEF VarTypes, Await, Others
  <2> QED
    BY <1>1, <2>1, <2>2, DeadWithoutWrite DEF LoadValid, Goes
<1>7. CASE Unindex(c)
  <2>1. /\ records' = records /\ sought' = sought /\ pc[c] = "unindex"
        /\ Await(c, op[c], "drop", target[c], Null)
    BY <1>7 DEF Unindex, Goes
  <2>2. pc'[c] # "hset" /\ Others(c)
    BY <2>1, Plain DEF VarTypes, Await, Others
  <2> QED
    BY <1>1, <2>1, <2>2, DeadWithoutWrite DEF LoadValid, Goes
<1>8. CASE Drop(c)
  <2>1. /\ records' = [records EXCEPT ![target[c]] = Null] /\ pc[c] = "drop"
        /\ NextOfBatch(c, batch[c]) /\ clock' = clock /\ batch[c] \in SUBSET AllIds
    BY <1>8, Plain DEF Drop, Goes, VarTypes
  <2>2. pc'[c] # "hset" /\ Others(c)
    BY <2>1, Plain, NextOfBatchIs
  <2>3. \A j \in AllIds : records'[j] = IF j = target[c] THEN Null ELSE records[j]
    BY <2>1, Plain DEF VarTypes
  <2> QED
    BY <1>1, <2>1, <2>2, <2>3, DeadWithoutWrite DEF LoadValid, Goes
<1> QED
  BY <1>2, <1>3, <1>4, <1>5, <1>6, <1>7, <1>8 DEF Continue

LEMMA TickKeepsDead ==
  ASSUME IInv, NEW h \in issued, Dead(h), Tick
  PROVE  Dead(h)' /\ granted' # h
<1>1. UNCHANGED <<records, pc, held>> /\ granted' = Null
  BY DEF Tick, redis, locals, NoGrant
<1> QED
  BY <1>1, IssuedIs DEF Dead, Stored, InFlight

(* Whatever copies of a record, entries of the index or ids concurrent calls *)
(* and earlier crashes have left, a key whose record is revoked or removed,  *)
(* and of which no older copy is about to be written, is not granted again.  *)
THEOREM RevocationLasts == Spec => DeadStaysDead
<1> DEFINE Step == \A h \in issued : Dead(h) => Dead(h)' /\ granted' # h
<1>1. IInv /\ IInv' /\ [Next]_vars => [Step]_vars
  <2> SUFFICES ASSUME IInv, IInv', Next, NEW h \in issued, Dead(h)
               PROVE  Dead(h)' /\ granted' # h
    OBVIOUS
  <2>1. CASE Tick
    BY <2>1, TickKeepsDead
  <2>2. ASSUME NEW c \in Callers, Start(c) PROVE Dead(h)' /\ granted' # h
    BY <2>2, StartKeepsDead
  <2>3. ASSUME NEW c \in Callers, Continue(c) PROVE Dead(h)' /\ granted' # h
    BY <2>3, ContinueKeepsDead
  <2> QED
    BY <2>1, <2>2, <2>3 DEF Next
<1> QED
  BY <1>1, Invariance, PTL DEF Spec, DeadStaysDead
=============================================================================
