--------------------------- MODULE UsefulKeyProofs ---------------------------
(***************************************************************************)
(* Proofs about UsefulKey for every set of callers, ids and hashes and     *)
(* every choice of the parameters.                                         *)
(***************************************************************************)
EXTENDS UsefulKey, TLAPS

-----------------------------------------------------------------------------
(* Type correctness. *)

(* Keystore writes keep the table typed. *)
LEMMA WritesTyped ==
  ASSUME TypeOK, NEW r \in KeyRecord \cup {Null}, NEW id,
         \/ InsertKey(r) /\ r # Null
         \/ UpdateKey(r) /\ r # Null
         \/ RevokeKeyById(id)
         \/ HardRemoveKeyById(id)
         \/ UNCHANGED keyStore
  PROVE  keyStore' \in [Ids -> KeyRecord \cup {Null}]
<1>1. keyStore \in [Ids -> KeyRecord \cup {Null}]
  BY DEF TypeOK
<1>2. CASE InsertKey(r) /\ r # Null
  BY <1>1, <1>2 DEF InsertKey
<1>3. CASE UpdateKey(r) /\ r # Null
  BY <1>1, <1>3 DEF UpdateKey
<1>4. CASE RevokeKeyById(id)
  <2>1. \A k \in KeyRecord : [k EXCEPT !.revoked = TRUE] \in KeyRecord
    BY DEF KeyRecord
  <2> QED
    BY <1>1, <1>4, <2>1 DEF RevokeKeyById
<1>5. CASE HardRemoveKeyById(id)
  BY <1>1, <1>5 DEF HardRemoveKeyById
<1> QED
  BY <1>1, <1>2, <1>3, <1>4, <1>5

(* Ending a call leaves its caller well typed. *)
LEMMA AnswerTyped ==
  ASSUME TypeOK, NEW c \in Callers, NEW a \in Replies, Answer(c, a),
         keyStore' \in [Ids -> KeyRecord \cup {Null}], clock' \in 1..MaxTime,
         issued' \subseteq Hashes
  PROVE  TypeOK'
<1>1. pc' \in [Callers -> Phases] /\ call' \in [Callers -> Request \cup {Null}]
  BY DEF TypeOK, Answer, Phases
<1>2. /\ record' \in [Callers -> KeyRecord \cup {Null}]
      /\ ids' \in [Callers -> SUBSET Ids]
      /\ reply' \in [Callers -> Replies]
  BY DEF TypeOK, Answer
<1>3. \A d \in Callers : CallOK(d)'
  <2> TAKE d \in Callers
  <2>1. CASE d = c
    BY <2>1 DEF TypeOK, Answer, CallOK
  <2>2. CASE d # c
    <3>1. /\ pc'[d] = pc[d] /\ call'[d] = call[d] /\ record'[d] = record[d]
          /\ reply'[d] = reply[d]
      BY <2>2 DEF TypeOK, Answer
    <3>2. CallOK(d)
      BY DEF TypeOK
    <3> QED
      BY <3>1, <3>2 DEF CallOK
  <2> QED
    BY <2>1, <2>2
<1> QED
  BY <1>1, <1>2, <1>3 DEF TypeOK
(* A call that goes on after its read: with a record to write, or to remove  *)
(* the record it holds.                                                      *)
LEMMA OthersOK ==
  ASSUME TypeOK, NEW c \in Callers, NEW d \in Callers, d # c,
         pc'[d] = pc[d], call'[d] = call[d], record'[d] = record[d], reply'[d] = reply[d]
  PROVE  CallOK(d)'
BY DEF TypeOK, CallOK

LEMMA PutTyped ==
  ASSUME TypeOK, NEW c \in Callers, NEW r \in KeyRecord, Put(c, r),
         pc[c] = "found", record[c] # Null, r.keyHash = record[c].keyHash,
         call[c].op = "verifyKey"
           => ~r.revoked /\ (Installed("enable-disable") => ~r.disabled),
         UNCHANGED <<keyStore, clock, issued>>
  PROVE  TypeOK'
<1>1. /\ pc' \in [Callers -> Phases] /\ call' \in [Callers -> Request \cup {Null}]
      /\ record' \in [Callers -> KeyRecord \cup {Null}]
  BY DEF TypeOK, Put, Phases
<1>2. \A d \in Callers : CallOK(d)'
  <2> TAKE d \in Callers
  <2>1. CASE d = c
    <3>1. pc'[c] = "update" /\ record'[c] = r /\ call'[c] = call[c] /\ reply'[c] = reply[c]
      BY DEF Put, TypeOK
    <3>2. CallOK(c) /\ r # Null
      BY NullIsNotAValue DEF TypeOK
    <3> QED
      BY <2>1, <3>1, <3>2 DEF CallOK
  <2>2. CASE d # c
    BY <2>2, OthersOK DEF Put, TypeOK
  <2> QED
    BY <2>1, <2>2
<1> QED
  BY <1>1, <1>2 DEF TypeOK, Put

LEMMA AutoRemoveTyped ==
  ASSUME TypeOK, NEW c \in Callers, AutoRemove(c), pc[c] = "found", record[c] # Null,
         UNCHANGED <<keyStore, clock, issued>>
  PROVE  TypeOK'
<1>1. pc' \in [Callers -> Phases]
  BY DEF TypeOK, AutoRemove, Phases
<1>2. \A d \in Callers : CallOK(d)'
  <2> TAKE d \in Callers
  <2>1. CASE d = c
    BY <2>1 DEF AutoRemove, TypeOK, CallOK
  <2>2. CASE d # c
    BY <2>2, OthersOK DEF AutoRemove, TypeOK
  <2> QED
    BY <2>1, <2>2
<1> QED
  BY <1>1, <1>2 DEF TypeOK, AutoRemove

(* What a call answers is a reply whichever way its write ends. *)
LEMMA WritesAnswers ==
  ASSUME NEW c, NEW a, NEW b, NEW ACTION W, Writes(c, W, a, b)
  PROVE  (W \/ UNCHANGED keyStore) /\ \E x \in {a, b} : Answer(c, x)
BY DEF Writes

-----------------------------------------------------------------------------
(* Every step preserves TypeOK; one lemma for each group of actions. *)

LEMMA OneStatementTyped ==
  ASSUME TypeOK, NEW c \in Callers, OneStatement(c)
  PROVE  TypeOK'
<1>1. CASE CreateKey(c)
  <2>1. PICK id \in Ids, h \in FreshHashes, t \in Expiries, n \in Budgets,
             s \in SUBSET Scopes :
          LET new == [id |-> id, keyHash |-> h, expiresAt |-> t, usesRemaining |-> n,
                      revoked |-> FALSE, disabled |-> FALSE, scopes |-> s]
          IN  /\ issued' = issued \cup {h}
              /\ IF InsertConflicts(new)
                   THEN Answer(c, "error") /\ UNCHANGED keyStore
                   ELSE Writes(c, InsertKey(new), "ok", "error")
              /\ UNCHANGED clock
    BY <1>1 DEF CreateKey
  <2> DEFINE new == [id |-> id, keyHash |-> h, expiresAt |-> t, usesRemaining |-> n,
                     revoked |-> FALSE, disabled |-> FALSE, scopes |-> s]
  <2>2. new \in KeyRecord /\ new # Null
    <3>1. t \in Nat \cup {Null} /\ n \in Nat \cup {Null}
      BY ParametersAssumption
    <3>2. new \in KeyRecord
      BY <3>1 DEF KeyRecord, FreshHashes
    <3> QED
      BY <3>2, NullIsNotAValue
  <2> HIDE DEF new
  <2>3. /\ InsertKey(new) \/ UNCHANGED keyStore
        /\ \E x \in {"ok", "error"} : Answer(c, x)
    BY <2>1, WritesAnswers DEF new
  <2>4. keyStore' \in [Ids -> KeyRecord \cup {Null}]
    BY <2>2, <2>3, WritesTyped
  <2>5. issued' \subseteq Hashes /\ clock' \in 1..MaxTime
    BY <2>1 DEF TypeOK, FreshHashes
  <2> QED
    BY <2>3, <2>4, <2>5, AnswerTyped DEF Replies
<1>2. CASE RevokeKey(c)
  <2>1. PICK id \in Ids : Writes(c, RevokeKeyById(id), "ok", "error")
    BY <1>2 DEF RevokeKey
  <2>2. /\ RevokeKeyById(id) \/ UNCHANGED keyStore
        /\ \E x \in {"ok", "error"} : Answer(c, x)
    BY <2>1, WritesAnswers
  <2>3. keyStore' \in [Ids -> KeyRecord \cup {Null}]
    BY <2>2, WritesTyped
  <2>4. issued' \subseteq Hashes /\ clock' \in 1..MaxTime
    BY <1>2 DEF TypeOK, RevokeKey
  <2> QED
    BY <2>2, <2>3, <2>4, AnswerTyped DEF Replies
<1>3. CASE HardRemoveKey(c)
  <2>1. PICK id \in Ids : Writes(c, HardRemoveKeyById(id), "ok", "error")
    BY <1>3 DEF HardRemoveKey
  <2>2. /\ HardRemoveKeyById(id) \/ UNCHANGED keyStore
        /\ \E x \in {"ok", "error"} : Answer(c, x)
    BY <2>1, WritesAnswers
  <2>3. keyStore' \in [Ids -> KeyRecord \cup {Null}]
    BY <2>2, WritesTyped
  <2>4. issued' \subseteq Hashes /\ clock' \in 1..MaxTime
    BY <1>3 DEF TypeOK, HardRemoveKey
  <2> QED
    BY <2>2, <2>3, <2>4, AnswerTyped DEF Replies
<1> QED
  BY <1>1, <1>2, <1>3 DEF OneStatement

LEMMA BeginTyped ==
  ASSUME TypeOK, NEW c \in Callers, NEW q \in Request, Begin(c, q)
  PROVE  TypeOK'
<1>1. /\ pc' \in [Callers -> Phases] /\ call' \in [Callers -> Request \cup {Null}]
      /\ reply' \in [Callers -> Replies]
  BY DEF TypeOK, Begin, Phases, Replies
<1>2. \A d \in Callers : CallOK(d)'
  <2> TAKE d \in Callers
  <2>1. CASE d = c
    <3>1. /\ pc[c] = "idle" /\ pc'[c] = "find" /\ call'[c] = q /\ reply'[c] = "none"
          /\ record'[c] = record[c]
      BY DEF Begin, TypeOK
    <3>2. record[c] = Null
      BY <3>1 DEF TypeOK, CallOK
    <3> QED
      BY <2>1, <3>1, <3>2, NullIsNotARequest DEF CallOK
  <2>2. CASE d # c
    BY <2>2, OthersOK DEF Begin, TypeOK
  <2> QED
    BY <2>1, <2>2
<1> QED
  BY <1>1, <1>2 DEF TypeOK, Begin

LEMMA BeginCallTyped ==
  ASSUME TypeOK, NEW c \in Callers, BeginCall(c)
  PROVE  TypeOK'
<1>1. CASE BeginByHash(c)
  BY <1>1, BeginTyped DEF BeginByHash, Request
<1>2. CASE BeginById(c)
  BY <1>2, BeginTyped DEF BeginById, Request
<1>3. CASE BeginSweep(c)
  <2>1. PICK b \in BatchSizes, lag \in Lags :
          Begin(c, [op |-> "sweepExpired", batchSize |-> b, olderThan |-> clock - lag])
    BY <1>3 DEF BeginSweep
  <2>2. clock - lag \in Int
    <3>1. clock \in Int /\ lag \in Int
      BY ParametersAssumption DEF TypeOK
    <3> QED
      BY <3>1
  <2>3. [op |-> "sweepExpired", batchSize |-> b, olderThan |-> clock - lag] \in Request
    BY <2>2 DEF Request, SweepRequest
  <2> QED
    BY <2>1, <2>3, BeginTyped
<1> QED
  BY <1>1, <1>2, <1>3 DEF BeginCall

LEMMA PlainAnswerTyped ==
  ASSUME TypeOK, NEW c \in Callers, NEW a \in Replies, Answer(c, a),
         UNCHANGED <<keyStore, clock, issued>>
  PROVE  TypeOK'
BY AnswerTyped DEF TypeOK

(* The table answers a lookup with a row, which has what was looked up. *)
LEMMA LookupTyped ==
  ASSUME TypeOK, NEW x
  PROVE  /\ FindKeyById(x) \subseteq KeyRecord \cup {Null}
         /\ FindKeyByHash(x) \subseteq KeyRecord \cup {Null}
         /\ \A r \in FindKeyByHash(x) : r # Null => r.keyHash = x
BY DEF TypeOK, FindKeyById, FindKeyByHash, OneOf, Rows

LEMMA FindTyped ==
  ASSUME TypeOK, NEW c \in Callers, Find(c)
  PROVE  TypeOK'
<1>1. PICK r \in IF call[c].op \in ByHash THEN FindKeyByHash(call[c].keyHash)
                                          ELSE FindKeyById(call[c].id) :
        record' = [record EXCEPT ![c] = r]
  BY DEF Find
<1>2. /\ r \in KeyRecord \cup {Null}
      /\ call[c].op \in ByHash /\ r # Null => r.keyHash = call[c].keyHash
  BY LookupTyped
<1>3. /\ pc' \in [Callers -> Phases] /\ record' \in [Callers -> KeyRecord \cup {Null}]
  BY <1>1, <1>2 DEF TypeOK, Find, Phases
<1>4. \A d \in Callers : CallOK(d)'
  <2> TAKE d \in Callers
  <2>1. CASE d = c
    <3>1. /\ pc[c] = "find" /\ pc'[c] = "found" /\ call'[c] = call[c]
          /\ reply'[c] = reply[c] /\ record'[c] = r
      BY <1>1 DEF Find, TypeOK
    <3>2. CallOK(c)
      BY DEF TypeOK
    <3> QED
      BY <2>1, <3>1, <3>2, <1>2 DEF CallOK
  <2>2. CASE d # c
    BY <1>1, <2>2, OthersOK DEF Find, TypeOK
  <2> QED
    BY <2>1, <2>2
<1> QED
  BY <1>3, <1>4 DEF TypeOK, Find

(* The steps that answer without a write. *)
LEMMA AnsweringTyped ==
  ASSUME TypeOK, NEW c \in Callers,
         \/ RefuseArgument(c) \/ BeforeVerifyRejects(c) \/ FindRejects(c)
         \/ Missing(c) \/ VerifyRevoked(c) \/ VerifyRejected(c) \/ VerifyExceeded(c)
         \/ SweepDone(c)
  PROVE  TypeOK'
<1>1. CASE RefuseArgument(c)
  BY <1>1, PlainAnswerTyped DEF RefuseArgument, Replies
<1>2. CASE BeforeVerifyRejects(c)
  BY <1>2, PlainAnswerTyped DEF BeforeVerifyRejects, Replies
<1>3. CASE FindRejects(c)
  BY <1>3, PlainAnswerTyped DEF FindRejects, Replies
<1>4. CASE Missing(c)
  <2>1. \E a \in {"not_found", "error", "null"} : Answer(c, a)
    BY <1>4 DEF Missing
  <2> QED
    BY <1>4, <2>1, PlainAnswerTyped DEF Missing, Replies
<1>5. CASE VerifyRevoked(c)
  BY <1>5, PlainAnswerTyped DEF VerifyRevoked, Resumed, Replies
<1>6. CASE VerifyRejected(c)
  <2>1. PICK i \in 1..Len(Plugins) : Answer(c, Reason[Plugins[i]])
    BY <1>6 DEF VerifyRejected
  <2>2. Plugins[i] \in PluginNames
    BY ParametersAssumption
  <2>3. Reason[Plugins[i]] \in Replies
    BY <2>2 DEF Reason, PluginNames, Replies
  <2> QED
    BY <1>6, <2>1, <2>3, PlainAnswerTyped DEF VerifyRejected, Resumed
<1>7. CASE VerifyExceeded(c)
  BY <1>7, PlainAnswerTyped DEF VerifyExceeded, Resumed, Replies
<1>8. CASE SweepDone(c)
  BY <1>8, PlainAnswerTyped DEF SweepDone, TypeOK
<1> QED
  BY <1>1, <1>2, <1>3, <1>4, <1>5, <1>6, <1>7, <1>8

LEMMA RemovingTyped ==
  ASSUME TypeOK, NEW c \in Callers, GetKey(c) \/ VerifyExpired(c)
  PROVE  TypeOK'
<1>1. /\ pc[c] = "found" /\ record[c] # Null
      /\ UNCHANGED <<keyStore, clock, issued>>
      /\ AutoRemove(c) \/ \E a \in {"ok", "expired"} : Answer(c, a)
  BY DEF GetKey, VerifyExpired, Resumed
<1> QED
  BY <1>1, AutoRemoveTyped, PlainAnswerTyped DEF Replies

LEMMA ResumedRecord ==
  ASSUME TypeOK, NEW c \in Callers, pc[c] = "found", record[c] # Null
  PROVE  /\ record[c] \in KeyRecord /\ call[c] \in Request
         /\ clock \in Nat
BY DEF TypeOK, CallOK

(* A verification that may succeed has a record that is not disabled. *)
LEMMA NotDisabled ==
  ASSUME NEW q, NEW r, ~HooksReject(q, r), Installed("enable-disable")
  PROVE  ~r.disabled
BY DEF HooksReject, Rejects, Installed

LEMMA VerifyValidTyped ==
  ASSUME TypeOK, NEW c \in Callers, VerifyValid(c)
  PROVE  TypeOK'
<1>1. /\ pc[c] = "found" /\ record[c] # Null /\ ~record[c].revoked
      /\ ~Exhausted(record[c])
      /\ UNCHANGED <<keyStore, clock, issued>>
  BY DEF VerifyValid, Resumed
<1>2. record[c] \in KeyRecord
  BY <1>1, ResumedRecord
<1>3. CASE Answer(c, "valid")
  BY <1>1, <1>3, PlainAnswerTyped DEF Replies
<1>4. CASE /\ record[c].usesRemaining # Null
           /\ Put(c, [record[c] EXCEPT !.usesRemaining = @ - 1])
  <2>1. record[c].usesRemaining - 1 \in Nat
    BY <1>1, <1>2, <1>4 DEF Exhausted, KeyRecord
  <2> DEFINE r == [record[c] EXCEPT !.usesRemaining = @ - 1]
  <2>2. /\ r \in KeyRecord /\ r.keyHash = record[c].keyHash
        /\ r.revoked = record[c].revoked /\ r.disabled = record[c].disabled
    BY <1>2, <2>1 DEF KeyRecord
  <2>3. Installed("enable-disable") => ~record[c].disabled
    BY NotDisabled DEF VerifyValid
  <2> HIDE DEF r
  <2> QED
    BY <1>1, <1>4, <2>2, <2>3, PutTyped DEF r
<1> QED
  BY <1>3, <1>4 DEF VerifyValid

(* What the requests of the changing methods carry. *)
LEMMA RequestTyped ==
  ASSUME NEW q \in Request
  PROVE  /\ q.op \in Setters => q.id \in Ids
         /\ q.op = "extendKeyExpiry" => q.additionalMs \in Nat
         /\ q.op = "setUsesRemaining" => q.remaining \in Nat \cup {Null}
         /\ q.op = "topUpUses" => q.amount \in Nat
         /\ q.op \in {"grantScopes", "revokeScopes", "setScopes"} => q.scopes \subseteq Scopes
<1>1. Extensions \subseteq Nat /\ Budgets \subseteq Nat \cup {Null} /\ TopUps \subseteq Nat
  BY ParametersAssumption
<1> QED
  BY <1>1 DEF Request, HashRequest, IdRequest, SweepRequest, Setters, Refills

(* What a changing method writes is a record of the same key.  It touches    *)
(* usesRemaining only in a refill and enables only in enableKey.             *)
ChangesTo(c, r) ==
  /\ r \in KeyRecord
  /\ r.id = record[c].id /\ r.keyHash = record[c].keyHash
  /\ r.revoked = record[c].revoked
  /\ call[c].op \notin Refills => r.usesRemaining = record[c].usesRemaining
  /\ call[c].op # "enableKey" /\ record[c].disabled => r.disabled

LEMMA ChangePuts ==
  ASSUME TypeOK, NEW c \in Callers, Change(c)
  PROVE  /\ pc[c] = "found" /\ record[c] # Null /\ call[c].op # "verifyKey"
         /\ UNCHANGED <<keyStore, clock, issued>>
         /\ \E r \in KeyRecord : Put(c, r) /\ ChangesTo(c, r)
<1>1. /\ pc[c] = "found" /\ record[c] # Null /\ call[c].op # "verifyKey"
      /\ UNCHANGED <<keyStore, clock, issued>>
  BY DEF Change, Resumed, ExtendKeyExpiry, SetUsesRemaining, TopUpUses, ClearUsageLimit,
         DisableKey, EnableKey, GrantScopes, RevokeScopes, SetScopes
<1>2. record[c] \in KeyRecord /\ call[c] \in Request /\ clock \in Nat
  BY <1>1, ResumedRecord
<1>3. CASE ExtendKeyExpiry(c)
  <2> DEFINE from == IF record[c].expiresAt = Null THEN clock ELSE record[c].expiresAt
             r == [record[c] EXCEPT !.expiresAt = from + call[c].additionalMs]
  <2>1. from + call[c].additionalMs \in Nat
    <3>1. call[c].additionalMs \in Nat
      BY <1>2, <1>3, RequestTyped DEF ExtendKeyExpiry, Resumed
    <3>2. from \in Nat
      BY <1>2 DEF KeyRecord
    <3> QED
      BY <3>1, <3>2
  <2>2. ChangesTo(c, r)
    BY <1>2, <2>1 DEF KeyRecord, ChangesTo
  <2> QED
    BY <1>1, <1>3, <2>2 DEF ExtendKeyExpiry, ChangesTo
<1>4. CASE SetUsesRemaining(c)
  <2> DEFINE r == [record[c] EXCEPT !.usesRemaining = call[c].remaining]
  <2>1. call[c].op = "setUsesRemaining" /\ call[c].remaining \in Nat \cup {Null}
    BY <1>2, <1>4, RequestTyped DEF SetUsesRemaining, Resumed
  <2>2. ChangesTo(c, r)
    BY <1>2, <2>1 DEF KeyRecord, ChangesTo, Refills
  <2> QED
    BY <1>1, <1>4, <2>2 DEF SetUsesRemaining, ChangesTo
<1>5. CASE TopUpUses(c)
  <2> DEFINE current == IF record[c].usesRemaining = Null THEN 0 ELSE record[c].usesRemaining
             r == [record[c] EXCEPT !.usesRemaining = current + call[c].amount]
  <2>1. call[c].op = "topUpUses" /\ current + call[c].amount \in Nat
    <3>1. call[c].op = "topUpUses" /\ call[c].amount \in Nat
      BY <1>2, <1>5, RequestTyped DEF TopUpUses, Resumed
    <3>2. current \in Nat
      BY <1>2 DEF KeyRecord
    <3> QED
      BY <3>1, <3>2
  <2>2. ChangesTo(c, r)
    BY <1>2, <2>1 DEF KeyRecord, ChangesTo, Refills
  <2> QED
    BY <1>1, <1>5, <2>2 DEF TopUpUses, ChangesTo
<1>6. CASE ClearUsageLimit(c)
  <2> DEFINE r == [record[c] EXCEPT !.usesRemaining = Null]
  <2>1. ChangesTo(c, r)
    BY <1>2, <1>6 DEF KeyRecord, ChangesTo, Refills, ClearUsageLimit, Resumed
  <2> QED
    BY <1>1, <1>6, <2>1 DEF ClearUsageLimit, ChangesTo
<1>7. CASE DisableKey(c)
  <2> DEFINE r == [record[c] EXCEPT !.disabled = TRUE]
  <2>1. ChangesTo(c, r)
    BY <1>2 DEF KeyRecord, ChangesTo
  <2> QED
    BY <1>1, <1>7, <2>1 DEF DisableKey, ChangesTo
<1>8. CASE EnableKey(c)
  <2> DEFINE r == [record[c] EXCEPT !.disabled = FALSE]
  <2>1. ChangesTo(c, r)
    BY <1>2, <1>8 DEF KeyRecord, ChangesTo, EnableKey, Resumed
  <2> QED
    BY <1>1, <1>8, <2>1 DEF EnableKey, ChangesTo
<1>9. CASE GrantScopes(c) \/ RevokeScopes(c) \/ SetScopes(c)
  <2>1. call[c].scopes \subseteq Scopes
    BY <1>2, <1>9, RequestTyped DEF GrantScopes, RevokeScopes, SetScopes, Resumed
  <2>2. \A s \in SUBSET Scopes : ChangesTo(c, [record[c] EXCEPT !.scopes = s])
    BY <1>2 DEF KeyRecord, ChangesTo
  <2>3. /\ record[c].scopes \cup call[c].scopes \in SUBSET Scopes
        /\ record[c].scopes \ call[c].scopes \in SUBSET Scopes
    BY <1>2, <2>1 DEF KeyRecord
  <2>4. \E s \in SUBSET Scopes : Put(c, [record[c] EXCEPT !.scopes = s])
    BY <1>9, <2>1, <2>3 DEF GrantScopes, RevokeScopes, SetScopes
  <2> QED
    BY <1>1, <2>2, <2>4 DEF ChangesTo
<1> QED
  BY <1>3, <1>4, <1>5, <1>6, <1>7, <1>8, <1>9 DEF Change

LEMMA ChangeTyped ==
  ASSUME TypeOK, NEW c \in Callers, Change(c)
  PROVE  TypeOK'
BY ChangePuts, PutTyped DEF ChangesTo

(* What the writes of Update and Remove do to the table and answer. *)
LEMMA LandingAnswers ==
  ASSUME NEW c \in Callers, Update(c) \/ Remove(c)
  PROVE  /\ \/ pc[c] = "update" /\ UpdateKey(record[c])
            \/ pc[c] = "remove" /\ HardRemoveKeyById(record[c].id)
            \/ UNCHANGED keyStore
         /\ \E a \in {"ok", "error", "valid", "null", "expired"} :
              Answer(c, a) /\ (a = "valid" => pc[c] = "update" /\ call[c].op = "verifyKey")
         /\ pc[c] \in {"update", "remove"}
         /\ UNCHANGED <<clock, issued>>
<1>1. CASE Update(c)
  <2>1. CASE call[c].op = "verifyKey"
    BY <1>1, <2>1, WritesAnswers DEF Update
  <2>2. CASE call[c].op # "verifyKey"
    BY <1>1, <2>2, WritesAnswers DEF Update
  <2> QED
    BY <2>1, <2>2
<1>2. CASE Remove(c)
  <2>1. CASE call[c].op = "verifyKey"
    BY <1>2, <2>1, WritesAnswers DEF Remove
  <2>2. CASE call[c].op # "verifyKey"
    BY <1>2, <2>2, WritesAnswers DEF Remove
  <2> QED
    BY <2>1, <2>2
<1> QED
  BY <1>1, <1>2

LEMMA LandingTyped ==
  ASSUME TypeOK, NEW c \in Callers, Update(c) \/ Remove(c)
  PROVE  TypeOK'
<1>1. record[c] \in KeyRecord /\ record[c] # Null
  BY LandingAnswers DEF TypeOK, CallOK
<1>2. keyStore' \in [Ids -> KeyRecord \cup {Null}]
  BY <1>1, LandingAnswers, WritesTyped
<1>3. issued' \subseteq Hashes /\ clock' \in 1..MaxTime
  BY LandingAnswers DEF TypeOK
<1> QED
  BY <1>2, <1>3, LandingAnswers, AnswerTyped DEF Replies

LEMMA SweepTyped ==
  ASSUME TypeOK, NEW c \in Callers, SweepFind(c) \/ SweepRemove(c)
  PROVE  TypeOK'
<1>1. CASE SweepFind(c)
  <2>1. PICK S \in FindExpiredIds(call[c].olderThan, call[c].batchSize) :
          /\ ids' = [ids EXCEPT ![c] = S]
          /\ reply' = [reply EXCEPT ![c] =
                         IF Cardinality(S) = call[c].batchSize THEN "more" ELSE "swept"]
    BY <1>1 DEF SweepFind
  <2>2. S \subseteq Ids
    BY DEF FindExpiredIds
  <2>3. /\ pc' \in [Callers -> Phases] /\ ids' \in [Callers -> SUBSET Ids]
        /\ reply' \in [Callers -> Replies]
    BY <1>1, <2>1, <2>2 DEF TypeOK, SweepFind, Phases, Replies
  <2>4. \A d \in Callers : CallOK(d)'
    <3> TAKE d \in Callers
    <3>1. CASE d = c
      <4>1. /\ pc[c] = "find" /\ pc'[c] = "sweep" /\ call'[c] = call[c]
            /\ call[c].op = "sweepExpired"
            /\ record'[c] = record[c] /\ reply'[c] \in {"more", "swept"}
        BY <1>1, <2>1 DEF SweepFind, TypeOK
      <4>2. CallOK(c)
        BY DEF TypeOK
      <4> QED
        BY <3>1, <4>1, <4>2 DEF CallOK, ByHash
    <3>2. CASE d # c
      BY <1>1, <2>1, <3>2, OthersOK DEF SweepFind, TypeOK
    <3> QED
      BY <3>1, <3>2
  <2> QED
    BY <1>1, <2>3, <2>4 DEF TypeOK, SweepFind
<1>2. CASE SweepRemove(c)
  <2>1. PICK id \in ids[c] : /\ HardRemoveKeyById(id) \/ UNCHANGED keyStore
                             /\ ids' = [ids EXCEPT ![c] = @ \ {id}]
    BY <1>2 DEF SweepRemove
  <2>2. keyStore' \in [Ids -> KeyRecord \cup {Null}]
    BY <2>1, WritesTyped
  <2>3. ids' \in [Callers -> SUBSET Ids]
    BY <2>1 DEF TypeOK
  <2>4. \A d \in Callers : CallOK(d)'
    BY <1>2 DEF TypeOK, SweepRemove, CallOK
  <2> QED
    BY <1>2, <2>2, <2>3, <2>4 DEF TypeOK, SweepRemove
<1> QED
  BY <1>1, <1>2

LEMMA StepTyped ==
  ASSUME TypeOK, NEW c \in Callers, Step(c)
  PROVE  TypeOK'
BY AnsweringTyped, FindTyped, RemovingTyped, VerifyValidTyped, ChangeTyped, LandingTyped,
   SweepTyped DEF Step, Verify

LEMMA TickTyped ==
  ASSUME TypeOK, Tick
  PROVE  TypeOK'
<1>1. clock' \in 1..MaxTime
  <2>1. MaxTime \in Nat
    BY ParametersAssumption
  <2> QED
    BY <2>1 DEF TypeOK, Tick
<1>2. \A d \in Callers : CallOK(d)'
  BY DEF TypeOK, Tick, CallOK
<1> QED
  BY <1>1, <1>2 DEF TypeOK, Tick

LEMMA TypeInit == Init => TypeOK
<1> SUFFICES ASSUME Init PROVE TypeOK
  OBVIOUS
<1>1. clock \in 1..MaxTime
  <2>1. MaxTime \in Nat \ {0}
    BY ParametersAssumption
  <2> QED
    BY <2>1 DEF Init
<1>2. \A c \in Callers : CallOK(c)
  BY DEF Init, CallOK
<1> QED
  BY <1>1, <1>2 DEF Init, TypeOK, Phases, Replies

LEMMA TypeNext == TypeOK /\ [Next]_vars => TypeOK'
<1> SUFFICES ASSUME TypeOK, [Next]_vars PROVE TypeOK'
  OBVIOUS
<1>1. CASE Tick
  BY <1>1, TickTyped
<1>2. ASSUME NEW c \in Callers, OneStatement(c) PROVE TypeOK'
  BY <1>2, OneStatementTyped
<1>3. ASSUME NEW c \in Callers, BeginCall(c) PROVE TypeOK'
  BY <1>3, BeginCallTyped
<1>4. ASSUME NEW c \in Callers, Step(c) PROVE TypeOK'
  BY <1>4, StepTyped
<1>5. CASE UNCHANGED vars
  BY <1>5 DEF TypeOK, vars, CallOK
<1> QED
  BY <1>1, <1>2, <1>3, <1>4, <1>5 DEF Next

(* Every variable keeps its type and every call the shape of its phase, in   *)
(* particular a write-back carries the key that was looked up.               *)
THEOREM TypeCorrect == Spec => []TypeOK
BY TypeInit, TypeNext, PTL DEF Spec

-----------------------------------------------------------------------------
(* Where the copies of a key come from. *)

(* A verification decided in this step in favour of the key of r takes one   *)
(* of the uses r has left.                                                   *)
TakesUse(r2, r) ==
  /\ r.usesRemaining \in Nat \ {0} /\ r2.usesRemaining = r.usesRemaining - 1
  /\ \E c \in Callers : /\ pc[c] = "found" /\ pc'[c] = "update"
                        /\ call[c].op = "verifyKey" /\ record[c].keyHash = r.keyHash

(* r2 is what a step made of the copy r: it is of the same key, still        *)
(* revoked, and has as many uses left and is disabled still, unless a method *)
(* that says so is under way or a verification took a use.                   *)
Descends(r2, r) ==
  /\ r2.id = r.id /\ r2.keyHash = r.keyHash
  /\ r.revoked => r2.revoked
  /\ r2.usesRemaining = r.usesRemaining \/ TakesUse(r2, r) \/ Refilling
  /\ r.disabled => r2.disabled \/ Enabling

Inherited(r2) == \E r \in AllCopies : Descends(r2, r)

(* Every copy there is after a step has a predecessor. *)
Inherits == \A r2 \in AllCopies' : Inherited(r2)

(* n is the record of a key created in this step. *)
Created(n) ==
  /\ n.keyHash \in issued' \ issued
  /\ \A r2 \in AllCopies' : (r2 = n /\ n \in Rows') \/ Inherited(r2)

LEMMA CopiesTyped ==
  ASSUME TypeOK
  PROVE  AllCopies \subseteq KeyRecord /\ Rows \subseteq AllCopies
BY DEF TypeOK, AllCopies, Rows

LEMMA CopyInherited ==
  ASSUME NEW r \in AllCopies
  PROVE  Inherited(r)
BY DEF Inherited, Descends

(* The writes to the table other than an insertion. *)
LEMMA TableInherits ==
  ASSUME TypeOK, NEW c \in Callers, NEW id \in Ids,
         \/ record[c] # Null /\ UpdateKey(record[c])
         \/ RevokeKeyById(id)
         \/ HardRemoveKeyById(id)
         \/ record[c] # Null /\ HardRemoveKeyById(record[c].id)
         \/ UNCHANGED keyStore
  PROVE  \A r2 \in Rows' : Inherited(r2)
<1>1. keyStore \in [Ids -> KeyRecord \cup {Null}]
  BY DEF TypeOK
<1>2. \A r \in Rows : Inherited(r)
  BY CopiesTyped, CopyInherited
<1>3. CASE record[c] # Null /\ UpdateKey(record[c])
  <2>1. record[c] \in AllCopies
    BY <1>3 DEF AllCopies
  <2>2. Rows' \subseteq Rows \cup {record[c]}
    BY <1>1, <1>3 DEF UpdateKey, Rows
  <2> QED
    BY <1>2, <2>1, <2>2, CopyInherited
<1>4. CASE RevokeKeyById(id)
  <2> TAKE r2 \in Rows'
  <2>1. CASE r2 \in Rows
    BY <1>2, <2>1
  <2>2. CASE r2 \notin Rows
    <3>1. keyStore[id] \in Rows /\ r2 = [keyStore[id] EXCEPT !.revoked = TRUE]
      BY <1>1, <1>4, <2>2 DEF RevokeKeyById, Rows
    <3>2. keyStore[id] \in AllCopies /\ keyStore[id] \in KeyRecord
      BY <3>1, CopiesTyped
    <3>3. Descends(r2, keyStore[id])
      BY <3>1, <3>2 DEF Descends, KeyRecord
    <3> QED
      BY <3>2, <3>3 DEF Inherited
  <2> QED
    BY <2>1, <2>2
<1>5. CASE \/ HardRemoveKeyById(id)
           \/ record[c] # Null /\ HardRemoveKeyById(record[c].id)
  <2>1. Rows' \subseteq Rows
    BY <1>1, <1>5 DEF HardRemoveKeyById, Rows
  <2> QED
    BY <1>2, <2>1
<1>6. CASE UNCHANGED keyStore
  BY <1>2, <1>6 DEF Rows
<1> QED
  BY <1>3, <1>4, <1>5, <1>6

(* A step that puts nothing new in front of the code. *)
LEMMA RecordsInherit ==
  ASSUME TypeOK, \A r2 \in Rows' : Inherited(r2),
         \A d \in Callers : record'[d] \in {Null, record[d]}
  PROVE  Inherits
<1> SUFFICES ASSUME NEW r2 \in AllCopies' PROVE Inherited(r2)
  BY DEF Inherits
<1>1. CASE r2 \in Rows'
  BY <1>1
<1>2. CASE r2 \notin Rows'
  <2>1. r2 \in AllCopies
    BY <1>2 DEF AllCopies
  <2> QED
    BY <2>1, CopyInherited
<1> QED
  BY <1>1, <1>2

LEMMA AnswerRecords ==
  ASSUME TypeOK, NEW c \in Callers, NEW a, Answer(c, a)
  PROVE  \A d \in Callers : record'[d] \in {Null, record[d]}
BY DEF TypeOK, Answer

LEMMA InsertCreates ==
  ASSUME TypeOK, NEW c \in Callers, CreateKey(c)
  PROVE  Inherits \/ \E n : Created(n)
<1>1. PICK id \in Ids, h \in FreshHashes, t \in Expiries, n \in Budgets,
           s \in SUBSET Scopes :
        LET new == [id |-> id, keyHash |-> h, expiresAt |-> t, usesRemaining |-> n,
                    revoked |-> FALSE, disabled |-> FALSE, scopes |-> s]
        IN  /\ issued' = issued \cup {h}
            /\ IF InsertConflicts(new)
                 THEN Answer(c, "error") /\ UNCHANGED keyStore
                 ELSE Writes(c, InsertKey(new), "ok", "error")
            /\ UNCHANGED clock
  BY DEF CreateKey
<1> DEFINE new == [id |-> id, keyHash |-> h, expiresAt |-> t, usesRemaining |-> n,
                   revoked |-> FALSE, disabled |-> FALSE, scopes |-> s]
<1>2. new.keyHash \in issued' \ issued
  BY <1>1 DEF FreshHashes
<1> HIDE DEF new
<1>3. /\ InsertKey(new) \/ UNCHANGED keyStore
      /\ \E x \in {"ok", "error"} : Answer(c, x)
  BY <1>1, WritesAnswers DEF new
<1>4. \A d \in Callers : record'[d] \in {Null, record[d]}
  BY <1>3, AnswerRecords
<1>5. \A r2 \in Rows' : r2 = new \/ r2 \in Rows
  BY <1>3 DEF TypeOK, InsertKey, Rows
<1>6. \A r2 \in AllCopies' : (r2 = new /\ new \in Rows') \/ r2 \in AllCopies
  BY <1>4, <1>5 DEF AllCopies
<1>7. Created(new)
  BY <1>2, <1>6, CopyInherited DEF Created
<1> QED
  BY <1>7

(* A record the code goes on with: read from the table, or changed. *)
LEMMA HeldInherits ==
  ASSUME TypeOK, NEW c \in Callers, NEW r, r = Null \/ Inherited(r),
         record' = [record EXCEPT ![c] = r], UNCHANGED keyStore
  PROVE  Inherits
<1> SUFFICES ASSUME NEW r2 \in AllCopies' PROVE Inherited(r2)
  BY DEF Inherits
<1>1. CASE r2 = r
  BY <1>1 DEF AllCopies
<1>2. CASE r2 # r
  <2>1. r2 \in AllCopies
    BY <1>2 DEF AllCopies, TypeOK, Rows
  <2> QED
    BY <2>1, CopyInherited
<1> QED
  BY <1>1, <1>2

LEMMA FindInherits ==
  ASSUME TypeOK, NEW c \in Callers, Find(c)
  PROVE  Inherits
<1>1. PICK r \in IF call[c].op \in ByHash THEN FindKeyByHash(call[c].keyHash)
                                          ELSE FindKeyById(call[c].id) :
        record' = [record EXCEPT ![c] = r]
  BY DEF Find
<1>2. r = Null \/ r \in Rows
  BY DEF FindKeyByHash, FindKeyById, OneOf
<1>3. r = Null \/ Inherited(r)
  BY <1>2, CopiesTyped, CopyInherited
<1> QED
  BY <1>1, <1>3, HeldInherits DEF Find

LEMMA ChangeInherits ==
  ASSUME TypeOK, NEW c \in Callers, Change(c)
  PROVE  Inherits
<1>1. PICK r \in KeyRecord : Put(c, r) /\ ChangesTo(c, r)
  BY ChangePuts
<1>2. record[c] \in AllCopies /\ call[c] # Null
  BY ChangePuts DEF AllCopies, TypeOK, CallOK
<1>3. Descends(r, record[c])
  <2>1. r.usesRemaining = record[c].usesRemaining \/ Refilling
    BY <1>1, <1>2 DEF ChangesTo, Refilling
  <2>2. record[c].disabled => r.disabled \/ Enabling
    BY <1>1, <1>2 DEF ChangesTo, Enabling
  <2> QED
    BY <1>1, <2>1, <2>2 DEF ChangesTo, Descends
<1> QED
  BY <1>1, <1>2, <1>3, ChangePuts, HeldInherits DEF Put, Inherited

LEMMA VerifyValidInherits ==
  ASSUME TypeOK, NEW c \in Callers, VerifyValid(c)
  PROVE  Inherits
<1>1. /\ pc[c] = "found" /\ record[c] # Null /\ ~Exhausted(record[c])
      /\ UNCHANGED <<keyStore, clock, issued>>
  BY DEF VerifyValid, Resumed
<1>2. record[c] \in KeyRecord /\ record[c] \in AllCopies
  BY <1>1, ResumedRecord DEF AllCopies
<1>3. CASE Answer(c, "valid")
  <2>1. \A r2 \in Rows' : Inherited(r2)
    BY <1>1, CopiesTyped, CopyInherited DEF Rows
  <2> QED
    BY <1>3, <2>1, AnswerRecords, RecordsInherit
<1>4. CASE /\ record[c].usesRemaining # Null
           /\ Put(c, [record[c] EXCEPT !.usesRemaining = @ - 1])
  <2> DEFINE r == [record[c] EXCEPT !.usesRemaining = @ - 1]
  <2>1. /\ r.id = record[c].id /\ r.keyHash = record[c].keyHash
        /\ r.revoked = record[c].revoked /\ r.disabled = record[c].disabled
        /\ r.usesRemaining = record[c].usesRemaining - 1
    BY <1>2 DEF KeyRecord
  <2>2. record[c].usesRemaining \in Nat \ {0}
    BY <1>1, <1>2, <1>4 DEF Exhausted, KeyRecord
  <2>3. pc'[c] = "update" /\ call[c].op = "verifyKey"
    BY <1>4 DEF Put, TypeOK, VerifyValid, Resumed
  <2> HIDE DEF r
  <2>4. Descends(r, record[c])
    BY <1>1, <2>1, <2>2, <2>3 DEF Descends, TakesUse
  <2> QED
    BY <1>1, <1>2, <1>4, <2>4, HeldInherits DEF Put, Inherited, r
<1> QED
  BY <1>3, <1>4 DEF VerifyValid

(* The steps that leave every record they hold alone or drop it. *)
LEMMA KeepingInherits ==
  ASSUME TypeOK, UNCHANGED keyStore,
         \A d \in Callers : record'[d] \in {Null, record[d]}
  PROVE  Inherits
<1>1. \A r2 \in Rows' : Inherited(r2)
  BY CopiesTyped, CopyInherited DEF Rows
<1> QED
  BY <1>1, RecordsInherit

LEMMA StepInherits ==
  ASSUME TypeOK, NEW c \in Callers, Step(c)
  PROVE  Inherits
<1>1. CASE \/ RefuseArgument(c) \/ BeforeVerifyRejects(c) \/ FindRejects(c)
           \/ Missing(c) \/ VerifyRevoked(c) \/ VerifyRejected(c) \/ VerifyExceeded(c)
           \/ SweepDone(c)
  <2>1. UNCHANGED keyStore /\ \E a : Answer(c, a)
    BY <1>1 DEF RefuseArgument, BeforeVerifyRejects, FindRejects, Missing, VerifyRevoked,
                VerifyRejected, VerifyExceeded, SweepDone, Resumed
  <2> QED
    BY <2>1, AnswerRecords, KeepingInherits
<1>2. CASE GetKey(c) \/ VerifyExpired(c)
  <2>1. UNCHANGED keyStore /\ (AutoRemove(c) \/ \E a : Answer(c, a))
    BY <1>2 DEF GetKey, VerifyExpired, Resumed
  <2>2. \A d \in Callers : record'[d] \in {Null, record[d]}
    BY <2>1, AnswerRecords DEF AutoRemove
  <2> QED
    BY <2>1, <2>2, KeepingInherits
<1>3. CASE Find(c)
  BY <1>3, FindInherits
<1>4. CASE VerifyValid(c)
  BY <1>4, VerifyValidInherits
<1>5. CASE Change(c)
  BY <1>5, ChangeInherits
<1>6. CASE Update(c) \/ Remove(c)
  <2>1. record[c] # Null /\ record[c].id \in Ids
    BY <1>6, LandingAnswers DEF TypeOK, CallOK, KeyRecord
  <2>2. \A r2 \in Rows' : Inherited(r2)
    BY <1>6, <2>1, LandingAnswers, TableInherits
  <2>3. \A d \in Callers : record'[d] \in {Null, record[d]}
    BY <1>6, LandingAnswers, AnswerRecords
  <2> QED
    BY <2>2, <2>3, RecordsInherit
<1>7. CASE SweepFind(c)
  BY <1>7, KeepingInherits DEF SweepFind
<1>8. CASE SweepRemove(c)
  <2>1. PICK id \in ids[c] : HardRemoveKeyById(id) \/ UNCHANGED keyStore
    BY <1>8 DEF SweepRemove
  <2>2. id \in Ids
    BY DEF TypeOK
  <2>3. \A r2 \in Rows' : Inherited(r2)
    BY <2>1, <2>2, TableInherits
  <2> QED
    BY <1>8, <2>3, RecordsInherit DEF SweepRemove
<1> QED
  BY <1>1, <1>2, <1>3, <1>4, <1>5, <1>6, <1>7, <1>8 DEF Step, Verify

(* After any step every copy of a key has a predecessor, except the one row  *)
(* of a key created under a hash never issued before.                        *)
LEMMA NextInherits ==
  ASSUME TypeOK, [Next]_vars
  PROVE  /\ Inherits \/ \E n : Created(n)
         /\ issued \subseteq issued'
<1>1. CASE Tick
  BY <1>1, KeepingInherits DEF Tick
<1>2. ASSUME NEW c \in Callers, CreateKey(c)
      PROVE  (Inherits \/ \E n : Created(n)) /\ issued \subseteq issued'
  BY <1>2, InsertCreates DEF CreateKey
<1>3. ASSUME NEW c \in Callers, RevokeKey(c) \/ HardRemoveKey(c)
      PROVE  Inherits /\ issued \subseteq issued'
  <2>1. PICK id \in Ids :
          /\ RevokeKeyById(id) \/ HardRemoveKeyById(id) \/ UNCHANGED keyStore
          /\ \E a : Answer(c, a)
    BY <1>3, WritesAnswers DEF RevokeKey, HardRemoveKey
  <2>2. \A r2 \in Rows' : Inherited(r2)
    BY <2>1, TableInherits
  <2> QED
    BY <1>3, <2>1, <2>2, AnswerRecords, RecordsInherit DEF RevokeKey, HardRemoveKey
<1>4. ASSUME NEW c \in Callers, BeginCall(c)
      PROVE  Inherits /\ issued \subseteq issued'
  <2>1. \E q : Begin(c, q)
    BY <1>4 DEF BeginCall, BeginByHash, BeginById, BeginSweep
  <2> QED
    BY <2>1, KeepingInherits DEF Begin
<1>5. ASSUME NEW c \in Callers, Step(c)
      PROVE  Inherits /\ issued \subseteq issued'
  <2>1. UNCHANGED issued
    BY <1>5, ChangePuts, LandingAnswers
       DEF Step, Verify, RefuseArgument, BeforeVerifyRejects, Find, FindRejects, Missing,
           GetKey, VerifyRevoked, VerifyRejected, VerifyExpired, VerifyExceeded, VerifyValid,
           Resumed, SweepFind, SweepRemove, SweepDone
  <2> QED
    BY <1>5, <2>1, StepInherits
<1>6. CASE UNCHANGED vars
  BY <1>6, KeepingInherits DEF vars
<1> QED
  BY <1>1, <1>2, <1>3, <1>4, <1>5, <1>6 DEF Next, OneStatement

(* So every copy of a key that existed before has a predecessor. *)
LEMMA IssuedInherits ==
  ASSUME TypeOK, [Next]_vars, NEW h \in issued, NEW r2 \in Copies(h)'
  PROVE  \E r \in Copies(h) : Descends(r2, r)
<1>1. r2 \in AllCopies' /\ r2.keyHash = h
  BY DEF Copies
<1>2. Inherited(r2)
  BY <1>1, NextInherits DEF Inherits, Created
<1> QED
  BY <1>1, <1>2 DEF Inherited, Descends, Copies

-----------------------------------------------------------------------------
(* One id for each plaintext. *)

CopiesIssued == \A r \in AllCopies : r.keyHash \in issued

IdentityInv == TypeOK /\ CopiesIssued /\ OneKeyPerHash

LEMMA IdentityInit == Init => IdentityInv
BY TypeInit DEF Init, IdentityInv, CopiesIssued, OneKeyPerHash, Copies, AllCopies, Rows

LEMMA IdentityNext == IdentityInv /\ [Next]_vars => IdentityInv'
<1> SUFFICES ASSUME IdentityInv, [Next]_vars PROVE IdentityInv'
  OBVIOUS
<1>1. TypeOK /\ TypeOK' /\ issued \subseteq issued'
  BY TypeNext, NextInherits DEF IdentityInv
<1>2. \A r, s \in AllCopies : r.keyHash = s.keyHash => r.id = s.id
  <2> SUFFICES ASSUME NEW r \in AllCopies, NEW s \in AllCopies, r.keyHash = s.keyHash
               PROVE  r.id = s.id
    OBVIOUS
  <2>1. r.keyHash \in Hashes
    BY <1>1, CopiesTyped DEF KeyRecord
  <2> QED
    BY <2>1 DEF IdentityInv, OneKeyPerHash, Copies
<1>3. \A r2 \in AllCopies' : Inherited(r2) => r2.keyHash \in issued
  BY DEF Inherited, Descends, IdentityInv, CopiesIssued
<1>4. CopiesIssued'
  BY <1>1, <1>3, NextInherits DEF CopiesIssued, Inherits, Created
<1>5. ASSUME NEW r2 \in AllCopies', NEW s2 \in AllCopies', r2.keyHash = s2.keyHash
      PROVE  r2.id = s2.id
  <2>1. CASE Inherited(r2) /\ Inherited(s2)
    BY <1>2, <1>5, <2>1 DEF Inherited, Descends
  <2>2. CASE ~(Inherited(r2) /\ Inherited(s2))
    <3>1. PICK n : Created(n)
      BY <1>1, <2>2, NextInherits DEF Inherits
    <3>2. r2 = n /\ s2 = n
      BY <1>3, <1>5, <2>2, <3>1 DEF Created
    <3> QED
      BY <3>2
  <2> QED
    BY <2>1, <2>2
<1>6. OneKeyPerHash'
  BY <1>5 DEF OneKeyPerHash, Copies
<1> QED
  BY <1>1, <1>4, <1>6 DEF IdentityInv

(* A plaintext never names two keys, in the table or in a call in flight,    *)
(* however ids are reused and stale records written back; so the UNIQUE      *)
(* index on key_hash never refuses an updateKey.                             *)
THEOREM KeyIdentity == Spec => []OneKeyPerHash
<1>1. IdentityInv => OneKeyPerHash
  BY DEF IdentityInv
<1> QED
  BY <1>1, IdentityInit, IdentityNext, PTL DEF Spec

-----------------------------------------------------------------------------
(* What a step can do to a key that is dead, spent or disabled. *)

(* No step but the last of a verification answers valid. *)
LEMMA ValidAnswers ==
  ASSUME TypeOK, [Next]_vars, NEW c \in Callers, call[c] # Null, reply'[c] = "valid"
  PROVE  VerifyValid(c) \/ (Update(c) /\ call[c].op = "verifyKey")
<1>1. pc[c] # "idle" /\ reply[c] # "valid"
  BY DEF TypeOK, CallOK
<1>2. \A d \in Callers, a \in Replies : Answer(d, a) => d = c /\ a = "valid"
  BY <1>1 DEF Answer, TypeOK
<1>3. reply' # reply
  BY <1>1
<1>4. ASSUME NEW d \in Callers, OneStatement(d) PROVE FALSE
  <2>1. pc[d] = "idle" /\ \E a \in {"ok", "error"} : Answer(d, a)
    <3>1. CASE CreateKey(d)
      BY <3>1 DEF CreateKey, Writes
    <3>2. CASE RevokeKey(d)
      BY <3>2 DEF RevokeKey, Writes
    <3>3. CASE HardRemoveKey(d)
      BY <3>3 DEF HardRemoveKey, Writes
    <3> QED
      BY <1>4, <3>1, <3>2, <3>3 DEF OneStatement
  <2> QED
    BY <1>1, <1>2, <2>1 DEF Replies
<1>5. ASSUME NEW d \in Callers, BeginCall(d) PROVE FALSE
  <2>1. reply' = [reply EXCEPT ![d] = "none"]
    BY <1>5 DEF BeginCall, BeginByHash, BeginById, BeginSweep, Begin
  <2> QED
    BY <1>1, <2>1 DEF TypeOK
<1>6. ASSUME NEW d \in Callers, Step(d)
      PROVE  d = c /\ (VerifyValid(d) \/ (Update(d) /\ call[d].op = "verifyKey"))
  <2>1. CASE RefuseArgument(d) \/ BeforeVerifyRejects(d) \/ FindRejects(d)
    BY <1>2, <2>1 DEF RefuseArgument, BeforeVerifyRejects, FindRejects, Replies
  <2>2. CASE Find(d) \/ SweepRemove(d)
    BY <1>3, <2>2 DEF Find, SweepRemove
  <2>3. CASE Missing(d)
    <3>1. \E a \in {"not_found", "error", "null"} : Answer(d, a)
      BY <2>3 DEF Missing
    <3> QED
      BY <1>2, <3>1 DEF Replies
  <2>4. CASE GetKey(d) \/ VerifyExpired(d)
    <3>1. AutoRemove(d) \/ \E a \in {"ok", "expired"} : Answer(d, a)
      BY <2>4 DEF GetKey, VerifyExpired
    <3> QED
      BY <1>2, <1>3, <3>1 DEF AutoRemove, Replies
  <2>5. CASE VerifyRevoked(d) \/ VerifyExceeded(d)
    BY <1>2, <2>5 DEF VerifyRevoked, VerifyExceeded, Replies
  <2>6. CASE VerifyRejected(d)
    <3>1. PICK i \in 1..Len(Plugins) : Answer(d, Reason[Plugins[i]])
      BY <2>6 DEF VerifyRejected
    <3>2. Plugins[i] \in PluginNames
      BY ParametersAssumption
    <3>3. Reason[Plugins[i]] \in {"usage_exceeded", "disabled", "insufficient_scope"}
      BY <3>2 DEF Reason, PluginNames
    <3> QED
      BY <1>2, <3>1, <3>3 DEF Replies
  <2>7. CASE VerifyValid(d)
    <3>1. Answer(d, "valid")
      BY <1>3, <2>7 DEF VerifyValid, Put
    <3> QED
      BY <1>2, <2>7, <3>1 DEF Replies
  <2>8. CASE Change(d)
    BY <1>3, <2>8, ChangePuts DEF Put
  <2>9. CASE Update(d) \/ Remove(d)
    <3>1. PICK a \in {"ok", "error", "valid", "null", "expired"} :
            Answer(d, a) /\ (a = "valid" => pc[d] = "update" /\ call[d].op = "verifyKey")
      BY <2>9, LandingAnswers
    <3> QED
      BY <1>2, <2>9, <3>1 DEF Replies, Remove
  <2>10. CASE SweepFind(d)
    <3>1. \E a \in {"more", "swept"} : reply' = [reply EXCEPT ![d] = a]
      BY <2>10 DEF SweepFind
    <3> QED
      BY <1>1, <3>1 DEF TypeOK
  <2>11. CASE SweepDone(d)
    <3>1. pc[d] # "idle" /\ reply[d] \in Replies /\ reply[d] # "valid"
      BY <2>11 DEF SweepDone, TypeOK, CallOK
    <3> QED
      BY <1>2, <2>11, <3>1 DEF SweepDone
  <2> QED
    BY <1>6, <2>1, <2>2, <2>3, <2>4, <2>5, <2>6, <2>7, <2>8, <2>9, <2>10, <2>11
       DEF Step, Verify
<1>7. CASE Tick \/ UNCHANGED vars
  BY <1>3, <1>7 DEF Tick, vars
<1> QED
  BY <1>4, <1>5, <1>6, <1>7 DEF Next

(* A verification that succeeds holds a copy that is neither revoked nor,    *)
(* with the plugin, disabled.                                                *)
LEMMA GrantedCopy ==
  ASSUME TypeOK, [Next]_vars, NEW h, Granted(h)
  PROVE  \E r \in Copies(h) :
           ~r.revoked /\ (Installed("enable-disable") => ~r.disabled)
<1>1. PICK c \in Callers : /\ call[c] # Null /\ call[c].op = "verifyKey"
                           /\ call[c].keyHash = h /\ reply'[c] = "valid"
  BY DEF Granted
<1>2. VerifyValid(c) \/ (Update(c) /\ call[c].op = "verifyKey")
  BY <1>1, ValidAnswers
<1>3. /\ record[c] # Null /\ ~record[c].revoked
      /\ Installed("enable-disable") => ~record[c].disabled
  BY <1>2, NotDisabled DEF VerifyValid, Update, TypeOK, CallOK
<1>4. record[c].keyHash = h
  BY <1>1, <1>3 DEF TypeOK, CallOK, ByHash
<1> QED
  BY <1>3, <1>4 DEF Copies, AllCopies

(* Nothing brings a dead key back: once no unrevoked copy of it is stored or *)
(* in flight, no write-back, reused id or failed statement makes one, and no *)
(* verification of it succeeds.                                              *)
THEOREM RevocationLasts == Spec => DeadStaysDead
<1>1. TypeOK /\ [Next]_vars => \A h \in issued : Dead(h) => Dead(h)' /\ ~Granted(h)
  <2> SUFFICES ASSUME TypeOK, [Next]_vars, NEW h \in issued, Dead(h)
               PROVE  Dead(h)' /\ ~Granted(h)
    OBVIOUS
  <2>1. Dead(h)'
    BY IssuedInherits DEF Dead, Descends
  <2>2. ~Granted(h)
    BY GrantedCopy DEF Dead
  <2> QED
    BY <2>1, <2>2
<1> QED
  BY <1>1, TypeInit, TypeNext, PTL DEF Spec, DeadStaysDead

(* Uses come back only through setUsesRemaining, topUpUses and               *)
(* clearUsageLimit, although every other write-back stores the counter too.  *)
THEOREM LimitsLast == Spec => SpentStaysSpent
<1>1. TypeOK /\ [Next]_vars =>
        \A h \in issued : Spent(h) => Spent(h)' \/ Refilling \/ Refilling'
  BY IssuedInherits DEF Spent, Descends, TakesUse, Exhausted
<1> QED
  BY <1>1, TypeInit, TypeNext, PTL DEF Spec, SpentStaysSpent

(* Only enableKey enables a disabled key, and with the plugin installed it   *)
(* verifies no more until then.                                              *)
THEOREM DisablingLasts == Spec => DisabledStaysDisabled
<1>1. TypeOK /\ [Next]_vars =>
        \A h \in issued : Disabled(h) =>
          \/ Disabled(h)' /\ (Installed("enable-disable") => ~Granted(h))
          \/ Enabling \/ Enabling'
  <2> SUFFICES ASSUME TypeOK, [Next]_vars, NEW h \in issued, Disabled(h), ~Enabling
               PROVE  Disabled(h)' /\ (Installed("enable-disable") => ~Granted(h))
    OBVIOUS
  <2>1. Disabled(h)'
    BY IssuedInherits DEF Disabled, Descends
  <2>2. Installed("enable-disable") => ~Granted(h)
    BY GrantedCopy DEF Disabled
  <2> QED
    BY <2>1, <2>2
<1> QED
  BY <1>1, TypeInit, TypeNext, PTL DEF Spec, DisabledStaysDisabled
=============================================================================
