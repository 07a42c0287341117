--------------------------- MODULE KeyServiceProofs ---------------------------
(***************************************************************************)
(* What a caller of UsefulKey may rely on, for every set of ids and keys   *)
(* and every choice of the parameters: the uses it was sold, however calls *)
(* overlap (UsageLedger), and, when calls do not overlap, a service that   *)
(* performs each call in one step (SerialUsefulKey implements KeyService). *)
(***************************************************************************)
EXTENDS UsageLedger, SerialUsefulKey, UsefulKeyProofs, FiniteSetTheorems

-----------------------------------------------------------------------------
(* Only methods of the instance are ever called. *)

CallsAreOps == \A c \in Callers : call[c] # Null => call[c].op \in Ops

LEMMA StepKeepsCall ==
  ASSUME TypeOK, NEW c \in Callers, Step(c)
  PROVE  /\ \A d \in Callers : call'[d] \in {Null, call[d]}
         /\ \E x : pc' = [pc EXCEPT ![c] = x]
<1>1. \A a : Answer(c, a) => /\ \A d \in Callers : call'[d] \in {Null, call[d]}
                             /\ \E x : pc' = [pc EXCEPT ![c] = x]
  BY DEF Answer, TypeOK
<1>2. CASE \/ RefuseArgument(c) \/ BeforeVerifyRejects(c) \/ FindRejects(c)
           \/ Missing(c) \/ VerifyRevoked(c) \/ VerifyRejected(c) \/ VerifyExceeded(c)
           \/ SweepDone(c)
  <2>1. \E a : Answer(c, a)
    BY <1>2 DEF RefuseArgument, BeforeVerifyRejects, FindRejects, Missing, VerifyRevoked,
                VerifyRejected, VerifyExceeded, SweepDone
  <2> QED
    BY <1>1, <2>1
<1>3. CASE GetKey(c) \/ VerifyExpired(c)
  <2>1. AutoRemove(c) \/ \E a : Answer(c, a)
    BY <1>3 DEF GetKey, VerifyExpired
  <2>2. CASE AutoRemove(c)
    BY <2>2 DEF AutoRemove
  <2> QED
    BY <1>1, <2>1, <2>2
<1>4. CASE VerifyValid(c) \/ Change(c)
  <2>1. (\E r : Put(c, r)) \/ \E a : Answer(c, a)
    BY <1>4, ChangePuts DEF VerifyValid
  <2>2. CASE \E r : Put(c, r)
    BY <2>2 DEF Put
  <2> QED
    BY <1>1, <2>1, <2>2
<1>5. CASE Find(c) \/ SweepFind(c)
  BY <1>5 DEF Find, SweepFind
<1>6. CASE SweepRemove(c)
  <2>1. UNCHANGED <<pc, call>> /\ pc \in [Callers -> Phases]
    BY <1>6 DEF SweepRemove, TypeOK
  <2>2. pc' = [pc EXCEPT ![c] = pc[c]]
    BY <2>1
  <2> QED
    BY <2>1, <2>2
<1>7. CASE Update(c) \/ Remove(c)
  BY <1>1, <1>7, LandingAnswers
<1> QED
  BY <1>2, <1>3, <1>4, <1>5, <1>6, <1>7 DEF Step, Verify

(* No step moves two callers. *)
LEMMA OneMoves ==
  ASSUME TypeOK, [Next]_vars
  PROVE  \/ UNCHANGED pc
         \/ \E c \in Callers : \E x : pc' = [pc EXCEPT ![c] = x]
<1>1. CASE Tick \/ UNCHANGED vars
  BY <1>1 DEF Tick, vars
<1>2. ASSUME NEW c \in Callers, OneStatement(c) PROVE \E x : pc' = [pc EXCEPT ![c] = x]
  <2>1. \E a : Answer(c, a)
    <3>1. CASE CreateKey(c)
      BY <3>1 DEF CreateKey, Writes
    <3>2. CASE RevokeKey(c) \/ HardRemoveKey(c)
      BY <3>2 DEF RevokeKey, HardRemoveKey, Writes
    <3> QED
      BY <1>2, <3>1, <3>2 DEF OneStatement
  <2> QED
    BY <2>1 DEF Answer
<1>3. ASSUME NEW c \in Callers, BeginCall(c) PROVE \E x : pc' = [pc EXCEPT ![c] = x]
  BY <1>3 DEF BeginCall, BeginByHash, BeginById, BeginSweep, Begin
<1>4. ASSUME NEW c \in Callers, Step(c) PROVE \E x : pc' = [pc EXCEPT ![c] = x]
  BY <1>4, StepKeepsCall
<1> QED
  BY <1>1, <1>2, <1>3, <1>4 DEF Next

LEMMA CallsAreOpsKept ==
  ASSUME TypeOK, CallsAreOps, [Next]_vars
  PROVE  CallsAreOps'
<1>1. ASSUME \A d \in Callers : call'[d] \in {Null, call[d]} PROVE CallsAreOps'
  BY <1>1 DEF CallsAreOps
<1>2. CASE Tick \/ UNCHANGED vars
  BY <1>2 DEF Tick, vars, CallsAreOps
<1>3. ASSUME NEW c \in Callers, OneStatement(c) PROVE CallsAreOps'
  <2>1. \E a : Answer(c, a)
    <3>1. CASE CreateKey(c)
      BY <3>1 DEF CreateKey, Writes
    <3>2. CASE RevokeKey(c) \/ HardRemoveKey(c)
      BY <3>2 DEF RevokeKey, HardRemoveKey, Writes
    <3> QED
      BY <1>3, <3>1, <3>2 DEF OneStatement
  <2> QED
    BY <1>1, <2>1 DEF Answer, TypeOK
<1>4. ASSUME NEW c \in Callers, BeginCall(c) PROVE CallsAreOps'
  <2>1. PICK q : Begin(c, q)
    BY <1>4 DEF BeginCall, BeginByHash, BeginById, BeginSweep
  <2> QED
    BY <2>1 DEF Begin, CallsAreOps, TypeOK
<1>5. ASSUME NEW c \in Callers, Step(c) PROVE CallsAreOps'
  BY <1>1, <1>5, StepKeepsCall
<1> QED
  BY <1>2, <1>3, <1>4, <1>5 DEF Next

-----------------------------------------------------------------------------
(* The ledger. *)

LedgerInv ==
  /\ IdentityInv /\ CallsAreOps
  /\ budget \in [Hashes -> Nat \cup {Null}] /\ granted \in [Hashes -> Nat]
  /\ NeverOvercharged

LEMMA LedgerInitially == LedgerInit => LedgerInv
<1> SUFFICES ASSUME LedgerInit PROVE LedgerInv
  OBVIOUS
<1>1. IdentityInv /\ CallsAreOps
  BY IdentityInit DEF LedgerInit, Init, CallsAreOps
<1>2. \A h \in Hashes : Copies(h) = {}
  BY DEF LedgerInit, Init, Copies, AllCopies, Rows
<1> QED
  BY <1>1, <1>2 DEF LedgerInit, LedgerInv, NeverOvercharged

(* At most one verification is decided in a step. *)
LEMMA GrantsCounted ==
  ASSUME TypeOK, [Next]_vars, NEW h
  PROVE  /\ Cardinality(Grants(h)) \in Nat
         /\ Grants(h) # {} => Cardinality(Grants(h)) = 1
<1>1. CASE Grants(h) = {}
  BY <1>1, FS_EmptySet
<1>2. CASE Grants(h) # {}
  <2>1. PICK c \in Callers : \E x : pc' = [pc EXCEPT ![c] = x]
    BY <1>2, OneMoves DEF Grants
  <2>2. \A d \in Callers : d # c => pc'[d] = pc[d]
    BY <2>1 DEF TypeOK
  <2>3. Grants(h) = {c}
    BY <1>2, <2>2 DEF Grants
  <2> QED
    BY <2>3, FS_Singleton
<1> QED
  BY <1>1, <1>2

(* A key issued before keeps what it was sold, and pays for what it grants.  *)
LEMMA OldKeyBalances ==
  ASSUME LedgerInv, LedgerNext, Ops \cap Refills = {},
         NEW h \in Hashes, h \in issued, NEW r2 \in Copies(h)'
  PROVE  IF budget'[h] = Null
           THEN r2.usesRemaining = Null
           ELSE /\ r2.usesRemaining \in 0..budget'[h]
                /\ r2.usesRemaining + granted'[h] >= budget'[h]
<1>1. TypeOK /\ Next
  BY DEF LedgerInv, IdentityInv, LedgerNext
<1>2. PICK r \in Copies(h) : Descends(r2, r)
  BY <1>1, IssuedInherits
<1>3. ~Refilling
  BY DEF LedgerInv, CallsAreOps, Refilling
<1>4. /\ budget'[h] = budget[h] /\ budget[h] \in Nat \cup {Null}
      /\ granted'[h] = granted[h] + Cardinality(Grants(h)) /\ granted[h] \in Nat
  BY DEF LedgerNext, LedgerInv
<1>5. IF budget[h] = Null
        THEN r.usesRemaining = Null
        ELSE /\ r.usesRemaining \in 0..budget[h]
             /\ r.usesRemaining + granted[h] >= budget[h]
  BY DEF LedgerInv, NeverOvercharged
<1>6. Cardinality(Grants(h)) \in Nat /\ (Grants(h) # {} => Cardinality(Grants(h)) = 1)
  BY <1>1, GrantsCounted
<1>7. r.keyHash = h /\ Null \notin Nat
  BY NullIsNotAValue DEF Copies
<1>8. CASE r2.usesRemaining = r.usesRemaining
  BY <1>4, <1>5, <1>6, <1>8
<1>9. CASE TakesUse(r2, r)
  <2>1. Grants(h) # {}
    BY <1>7, <1>9 DEF TakesUse, Grants
  <2> QED
    BY <1>4, <1>5, <1>6, <1>7, <1>9, <2>1 DEF TakesUse
<1> QED
  BY <1>2, <1>3, <1>8, <1>9 DEF Descends

(* A new key has the uses it was sold. *)
LEMMA NewKeyBalances ==
  ASSUME LedgerInv, LedgerNext, TypeOK',
         NEW h \in Hashes, h \notin issued, NEW r2 \in Copies(h)'
  PROVE  /\ budget'[h] = r2.usesRemaining /\ granted'[h] \in Nat
         /\ r2.usesRemaining \in Nat \cup {Null}
<1>1. TypeOK /\ Next /\ CopiesIssued
  BY DEF LedgerInv, IdentityInv, LedgerNext
<1>2. \A s \in AllCopies' : s.keyHash = h => ~Inherited(s)
  BY <1>1 DEF Inherited, Descends, CopiesIssued
<1>3. r2 \in AllCopies' /\ r2.keyHash = h
  BY DEF Copies
<1>4. PICK n : Created(n)
  BY <1>1, <1>2, <1>3, NextInherits DEF Inherits
<1>5. r2 = n /\ n \in Rows' /\ \A s \in AllCopies' : s.keyHash = h => s = n
  BY <1>2, <1>3, <1>4 DEF Created
<1>6. \A s \in Rows' : s \in AllCopies'
  BY DEF AllCopies, Rows
<1>7. (CHOOSE s \in Rows' : s.keyHash = h) = n
  BY <1>3, <1>5, <1>6
<1>8. budget'[h] = n.usesRemaining
  BY <1>3, <1>5, <1>7 DEF LedgerNext
<1>9. n \in KeyRecord
  <2>1. (TypeOK => AllCopies \subseteq KeyRecord)'
    BY CopiesTyped, PTL
  <2> QED
    BY <1>3, <1>5, <2>1
<1>10. granted'[h] \in Nat
  BY <1>1, GrantsCounted DEF LedgerNext, LedgerInv
<1> QED
  BY <1>5, <1>8, <1>9, <1>10 DEF KeyRecord

LEMMA LedgerKept ==
  ASSUME Ops \cap Refills = {}
  PROVE  LedgerInv /\ [LedgerNext]_lvars => LedgerInv'
<1>1. ASSUME LedgerInv, LedgerNext PROVE LedgerInv'
  <2>1. IdentityInv' /\ CallsAreOps' /\ TypeOK'
    BY <1>1, IdentityNext, CallsAreOpsKept, TypeNext DEF LedgerNext, LedgerInv, IdentityInv
  <2>2. budget' \in [Hashes -> Nat \cup {Null}]
    <3>1. ASSUME NEW h \in Hashes, NEW r \in Rows', r.keyHash = h, h \notin issued
          PROVE  (CHOOSE s \in Rows' : s.keyHash = h).usesRemaining \in Nat \cup {Null}
      <4>1. (CHOOSE s \in Rows' : s.keyHash = h) \in Rows'
        BY <3>1
      <4>2. Rows' \subseteq KeyRecord
        BY <2>1 DEF TypeOK, Rows
      <4> QED
        BY <4>1, <4>2 DEF KeyRecord
    <3> QED
      BY <1>1, <3>1 DEF LedgerNext, LedgerInv
  <2>3. granted' \in [Hashes -> Nat]
    <3>1. \A h \in Hashes : Cardinality(Grants(h)) \in Nat
      BY <1>1, GrantsCounted DEF LedgerNext, LedgerInv, IdentityInv
    <3> QED
      BY <1>1, <3>1 DEF LedgerNext, LedgerInv
  <2>4. NeverOvercharged'
    <3> SUFFICES ASSUME NEW h \in Hashes, NEW r2 \in Copies(h)'
                 PROVE  IF budget'[h] = Null
                          THEN r2.usesRemaining = Null
                          ELSE /\ r2.usesRemaining \in 0..budget'[h]
                               /\ r2.usesRemaining + granted'[h] >= budget'[h]
      BY DEF NeverOvercharged
    <3>1. CASE h \in issued
      BY <1>1, <3>1, OldKeyBalances
    <3>2. CASE h \notin issued
      BY <1>1, <2>1, <3>2, NewKeyBalances
    <3> QED
      BY <3>1, <3>2
  <2> QED
    BY <2>1, <2>2, <2>3, <2>4 DEF LedgerInv
<1>2. ASSUME LedgerInv, UNCHANGED lvars PROVE LedgerInv'
  <2>1. UNCHANGED vars /\ UNCHANGED <<budget, granted>>
    BY <1>2 DEF lvars
  <2>2. IdentityInv' /\ CallsAreOps'
    BY <1>2, <2>1, IdentityNext, CallsAreOpsKept DEF LedgerInv, IdentityInv
  <2>3. NeverOvercharged'
    BY <1>2, <2>1 DEF LedgerInv, NeverOvercharged, Copies, AllCopies, Rows, vars
  <2> QED
    BY <1>2, <2>1, <2>2, <2>3 DEF LedgerInv
<1> QED
  BY <1>1, <1>2

(* As long as nothing but verification changes usesRemaining, a key never    *)
(* shows more uses than it was sold and is never charged twice for one use:  *)
(* what it has left and the verifications it has granted make up at least    *)
(* the budget it was created with, however verifications overlap with each   *)
(* other, with write-backs of stale records and with failing statements      *)
(* (onVerifySuccess of the usage-limits-per-key plugin).                     *)
THEOREM NobodyOvercharged ==
  ASSUME Ops \cap Refills = {}
  PROVE  LedgerSpec => []NeverOvercharged
<1>1. LedgerInv => NeverOvercharged
  BY DEF LedgerInv
<1>2. LedgerInv /\ [LedgerNext]_lvars => LedgerInv'
  BY LedgerKept
<1> QED
  BY <1>1, <1>2, LedgerInitially, PTL DEF LedgerSpec

-----------------------------------------------------------------------------
(* One caller, whose statements succeed.                                     *)
Serial ==
  /\ \A c, d \in Callers : c = d
  /\ ~StoreFails

(* The row of an id is a record of that id. *)
RowsOK == \A i \in Ids : keyStore[i] # Null => keyStore[i].id = i

Sought(q, r) == IF q.op \in ByHash THEN r.keyHash = q.keyHash ELSE r.id = q.id

(* A call that reads has a valid argument, and what it has read is still so. *)
Current(q, r) ==
  /\ q.op # "sweepExpired" /\ ~Refused(q)
  /\ IF r = Null THEN \A s \in Rows : ~Sought(q, s) ELSE r \in Rows /\ Sought(q, r)

CallHolds(c) ==
  /\ pc[c] \in {"find", "found", "update", "remove"} => reply[c] = "none"
  /\ pc[c] = "found" => Current(call[c], record[c])

SerialInv == IdentityInv /\ RowsOK /\ \A c \in Callers : CallHolds(c)

-----------------------------------------------------------------------------
(* What the service shows of the one caller. *)

View(rows, phase, r, S) ==
  CASE phase = "update" -> [rows EXCEPT ![r.id] = IF @ = Null THEN Null ELSE r]
    [] phase = "remove" -> [rows EXCEPT ![r.id] = Null]
    [] phase = "sweep" -> [i \in Ids |-> IF i \in S THEN Null ELSE rows[i]]
    [] OTHER -> rows

LEMMA ShownIs ==
  ASSUME Serial, TypeOK, NEW c \in Callers
  PROVE  ShownKeys = View(keyStore, pc[c], record[c], ids[c])
<1>1. Callers = {c} /\ keyStore \in [Ids -> KeyRecord \cup {Null}]
  BY DEF Serial, TypeOK
<1>2. pc[c] \in {"update", "remove"} => record[c] \in KeyRecord /\ record[c].id \in Ids
  BY DEF TypeOK, CallOK, KeyRecord
<1>3. \A i \in Ids : Shown(i) =
        IF keyStore[i] # Null /\ Decided(c) THEN Landed(c, i, keyStore[i]) ELSE keyStore[i]
  <2> TAKE i \in Ids
  <2>1. CASE keyStore[i] # Null /\ Decided(c)
    <3>1. (CHOOSE d \in Callers : Decided(d)) = c
      BY <1>1, <2>1
    <3> QED
      BY <1>1, <2>1, <3>1 DEF Shown
  <2>2. CASE ~(keyStore[i] # Null /\ Decided(c))
    BY <1>1, <2>2 DEF Shown
  <2> QED
    BY <2>1, <2>2
<1>4. CASE pc[c] = "update"
  BY <1>1, <1>2, <1>3, <1>4 DEF ShownKeys, View, Decided, Landed
<1>5. CASE pc[c] = "remove"
  BY <1>1, <1>2, <1>3, <1>5 DEF ShownKeys, View, Decided, Landed
<1>6. CASE pc[c] = "sweep"
  BY <1>1, <1>3, <1>6 DEF ShownKeys, View, Decided, Landed
<1>7. CASE ~Decided(c)
  BY <1>1, <1>3, <1>7 DEF ShownKeys, View, Decided
<1> QED
  BY <1>4, <1>5, <1>6, <1>7 DEF Decided

AllShown == \A c \in Callers : ShownKeys = View(keyStore, pc[c], record[c], ids[c])

LEMMA ShownAlways == Serial /\ TypeOK => AllShown
BY ShownIs DEF AllShown

LEMMA ShownNext ==
  ASSUME Serial, TypeOK', NEW c \in Callers
  PROVE  ShownKeys' = View(keyStore', pc'[c], record'[c], ids'[c])
<1>1. (Serial /\ TypeOK => AllShown)'
  BY ShownAlways, PTL
<1>2. Serial'
  BY DEF Serial
<1> QED
  BY <1>1, <1>2 DEF AllShown, View

LEMMA AskedIs ==
  ASSUME Serial, NEW c \in Callers
  PROVE  /\ Asked[c] = (IF Decided(c) THEN Null ELSE call[c])
         /\ Answers[c] = Outcome(c)
         /\ \A v : (IF Decided(c)' THEN Null ELSE call'[c]) = v
                     => Asked' = [Asked EXCEPT ![c] = v]
         /\ \A v : Outcome(c)' = v => Answers' = [Answers EXCEPT ![c] = v]
<1>1. Callers = {c}
  BY DEF Serial
<1> QED
  BY <1>1 DEF Asked, Answers

(* A step that changes no table but perhaps decides, or just goes on.        *)
LEMMA Stutters ==
  ASSUME Serial, TypeOK, TypeOK', NEW c \in Callers, UNCHANGED <<clock, issued>>,
         View(keyStore', pc'[c], record'[c], ids'[c]) = View(keyStore, pc[c], record[c], ids[c]),
         (IF Decided(c)' THEN Null ELSE call'[c]) = (IF Decided(c) THEN Null ELSE call[c]),
         Outcome(c)' = Outcome(c)
  PROVE  UNCHANGED Service!svars
<1>1. ShownKeys' = ShownKeys
  BY ShownIs, ShownNext
<1>2. Callers = {c}
  BY DEF Serial
<1>3. Asked' = Asked /\ Answers' = Answers
  BY <1>2 DEF Asked, Answers
<1> QED
  BY <1>1, <1>3 DEF Service!svars

LEMMA Replying ==
  ASSUME Serial, NEW c \in Callers, NEW a, UNCHANGED <<clock, issued>>,
         Decided(c)' \/ call'[c] = Null, Outcome(c)' = a
  PROVE  Service!Reply(c, a)
<1>1. Asked' = [Asked EXCEPT ![c] = Null] /\ Answers' = [Answers EXCEPT ![c] = a]
  BY AskedIs
<1> QED
  BY <1>1 DEF Service!Reply

(* The answer of a call that ends. *)
LEMMA Answering ==
  ASSUME Serial, TypeOK, NEW c \in Callers, NEW a, Answer(c, a),
         UNCHANGED <<clock, issued>>
  PROVE  /\ pc'[c] = "idle" /\ reply'[c] = a /\ Service!Reply(c, a)
         /\ \A rows, r, S : View(rows, pc'[c], r, S) = rows
<1>1. pc'[c] = "idle" /\ reply'[c] = a /\ call'[c] = Null
  BY DEF Answer, TypeOK
<1>2. Outcome(c)' = a
  BY <1>1 DEF Outcome
<1> QED
  BY <1>1, <1>2, Replying DEF View

LEMMA Undecided ==
  ASSUME Serial, TypeOK, NEW c \in Callers, pc[c] \notin {"update", "remove", "sweep"}
  PROVE  ShownKeys = keyStore /\ Asked[c] = call[c]
BY ShownIs, AskedIs DEF View, Decided

(* A call that ends and changes at most the table. *)
LEMMA AnswerShows ==
  ASSUME Serial, TypeOK, TypeOK', NEW c \in Callers, NEW a, Answer(c, a),
         UNCHANGED <<clock, issued>>
  PROVE  ShownKeys' = keyStore'
BY Answering, ShownNext

-----------------------------------------------------------------------------
(* Methods that are one statement, and the beginning of a call. *)

LEMMA CreateServes ==
  ASSUME Serial, SerialInv, TypeOK', NEW c \in Callers, CreateKey(c)
  PROVE  Service!Create(c)
<1>1. PICK id \in Ids, h \in FreshHashes, t \in Expiries, n \in Budgets,
           s \in SUBSET Scopes :
        LET new == [id |-> id, keyHash |-> h, expiresAt |-> t, usesRemaining |-> n,
                    revoked |-> FALSE, disabled |-> FALSE, scopes |-> s]
        IN  /\ issued' = issued \cup {h}
            /\ IF InsertConflicts(new)
                 THEN Answer(c, "error") /\ UNCHANGED keyStore
                 ELSE Writes(c, InsertKey(new), "ok", "error")
            /\ UNCHANGED clock
  BY DEF CreateKey
<1> DEFINE new == [id |-> id, keyHash |-> h, expiresAt |-> t, usesRemaining |-> n,
                   revoked |-> FALSE, disabled |-> FALSE, scopes |-> s]
<1>2. pc[c] = "idle" /\ TypeOK /\ call[c] = Null
  BY DEF CreateKey, SerialInv, IdentityInv, TypeOK, CallOK
<1>3. h \in issued' \ issued /\ h \notin issued /\ UNCHANGED clock
  BY <1>1 DEF FreshHashes
<1>4. new.id = id /\ new.keyHash = h /\ ~new.revoked /\ ~new.disabled /\ new # Null
  <2>1. new \in KeyRecord
    BY ParametersAssumption DEF KeyRecord, FreshHashes
  <2> QED
    BY <2>1, NullIsNotAValue
<1>5. IF InsertConflicts(new)
        THEN Answer(c, "error") /\ UNCHANGED keyStore
        ELSE InsertKey(new) /\ Answer(c, "ok")
  BY <1>1 DEF Writes, Serial
<1> HIDE DEF new
<1>6. InsertConflicts(new) <=> keyStore[id] # Null
  <2>1. \A r \in Rows : r.keyHash # h
    BY <1>3, CopiesTyped, <1>2 DEF SerialInv, IdentityInv, CopiesIssued
  <2> QED
    BY <1>4, <2>1 DEF InsertConflicts
<1>7. PICK a \in {"error", "ok"} : Answer(c, a) /\ (a = "error" <=> keyStore[id] # Null)
  BY <1>5, <1>6
<1>8. /\ pc'[c] = "idle" /\ call'[c] = Null /\ Outcome(c)' = a
  BY <1>2, <1>7 DEF Answer, TypeOK, Outcome
<1>9. ShownKeys = keyStore /\ ShownKeys' = keyStore' /\ Asked[c] = Null
  BY <1>2, <1>8, Undecided, ShownNext DEF View
<1>10. Asked' = Asked /\ Answers' = [Answers EXCEPT ![c] = a]
  <2>1. Callers = {c} /\ ~Decided(c) /\ ~Decided(c)'
    BY <1>2, <1>8 DEF Decided, Serial
  <2> QED
    BY <1>2, <1>8, <2>1, AskedIs DEF Asked
<1>11. CASE keyStore[id] # Null
  BY <1>1, <1>3, <1>5, <1>6, <1>7, <1>9, <1>10, <1>11 DEF Service!Create
<1>12. CASE keyStore[id] = Null
  <2>1. keyStore' = [keyStore EXCEPT ![id] = new] /\ keyStore \in [Ids -> KeyRecord \cup {Null}]
    BY <1>2, <1>4, <1>5, <1>6, <1>12 DEF InsertKey, TypeOK
  <2>2. keyStore'[id] = new /\ keyStore' = [keyStore EXCEPT ![id] = keyStore'[id]]
    BY <2>1
  <2> QED
    BY <1>1, <1>3, <1>4, <1>7, <1>9, <1>10, <1>12, <2>2 DEF Service!Create
<1> QED
  BY <1>11, <1>12

LEMMA OneStatementServes ==
  ASSUME Serial, SerialInv, TypeOK', NEW c \in Callers, RevokeKey(c) \/ HardRemoveKey(c)
  PROVE  Service!Revoke(c) \/ Service!HardRemove(c)
<1>1. pc[c] = "idle" /\ TypeOK /\ call[c] = Null /\ UNCHANGED <<clock, issued>>
  BY DEF RevokeKey, HardRemoveKey, SerialInv, IdentityInv, TypeOK, CallOK
<1>2. PICK id \in Ids :
        (RevokeKeyById(id) \/ HardRemoveKeyById(id)) /\ Answer(c, "ok")
  BY DEF RevokeKey, HardRemoveKey, Writes, Serial
<1>3. ShownKeys = keyStore /\ ShownKeys' = keyStore' /\ Asked[c] = Null
      /\ Service!Reply(c, "ok")
  BY <1>1, <1>2, Undecided, Answering, AnswerShows
<1> QED
  BY <1>2, <1>3 DEF RevokeKeyById, HardRemoveKeyById, Service!Revoke, Service!HardRemove

LEMMA BeginServes ==
  ASSUME Serial, SerialInv, TypeOK', NEW c \in Callers, BeginCall(c)
  PROVE  Service!Ask(c)
<1>1. PICK q : Begin(c, q)
  BY DEF BeginCall, BeginByHash, BeginById, BeginSweep
<1>2. /\ TypeOK /\ pc[c] = "idle" /\ call[c] = Null
      /\ pc'[c] = "find" /\ call'[c] = q /\ reply'[c] = "none"
      /\ UNCHANGED <<keyStore, clock, issued>>
  BY <1>1 DEF Begin, SerialInv, IdentityInv, TypeOK, CallOK
<1>3. q # Null
  BY <1>2 DEF TypeOK, CallOK
<1>4. ShownKeys' = ShownKeys
  BY <1>2, Undecided, ShownNext DEF View
<1>5. Asked' = [Asked EXCEPT ![c] = q] /\ Answers' = [Answers EXCEPT ![c] = "none"]
      /\ Asked[c] = Null
  BY <1>2, AskedIs DEF Decided, Outcome
<1>6. Asked'[c] = q
  BY <1>5 DEF Asked
<1> QED
  BY <1>2, <1>3, <1>4, <1>5, <1>6 DEF Service!Ask

-----------------------------------------------------------------------------
(* Reads, and the calls that end after them. *)

(* A call that ends without a write. *)
LEMMA PlainServes ==
  ASSUME Serial, SerialInv, TypeOK', NEW c \in Callers, NEW a, Answer(c, a),
         pc[c] \in {"find", "found"}, UNCHANGED <<keyStore, clock, issued>>
  PROVE  /\ Service!Reply(c, a) /\ UNCHANGED ShownKeys
         /\ ShownKeys = keyStore /\ Asked[c] = call[c] /\ call[c] # Null
         /\ Service!Keys = Rows
<1>1. TypeOK /\ call[c] # Null
  BY DEF SerialInv, IdentityInv, TypeOK, CallOK
<1>2. ShownKeys = keyStore /\ Asked[c] = call[c]
  BY <1>1, Undecided
<1>3. Service!Reply(c, a) /\ ShownKeys' = keyStore'
  BY <1>1, Answering, AnswerShows
<1>4. Service!Keys = Rows
  BY <1>2 DEF Service!Keys, Rows
<1> QED
  BY <1>1, <1>2, <1>3, <1>4

LEMMA RefusalServes ==
  ASSUME Serial, SerialInv, TypeOK', NEW c \in Callers,
         RefuseArgument(c) \/ BeforeVerifyRejects(c)
  PROVE  Service!Change(c) \/ Service!Verify(c)
<1>1. CASE RefuseArgument(c)
  <2>1. Answer(c, "error") /\ call[c].op \in {"extendKeyExpiry", "topUpUses"}
        /\ pc[c] = "find" /\ UNCHANGED <<keyStore, clock, issued>>
    BY <1>1 DEF RefuseArgument, Refused
  <2>2. Service!Invalid(call[c])
    BY <1>1 DEF RefuseArgument, Refused, Service!Invalid
  <2> QED
    BY <2>1, <2>2, PlainServes DEF Service!Change, Service!Indifferent, Service!Insisting
<1>2. CASE BeforeVerifyRejects(c)
  <2>1. Answer(c, "blocked_by_plugin") /\ call[c].op = "verifyKey"
        /\ pc[c] = "find" /\ UNCHANGED <<keyStore, clock, issued>>
    BY <1>2 DEF BeforeVerifyRejects
  <2> QED
    BY <2>1, PlainServes DEF Service!Verify
<1> QED
  BY <1>1, <1>2

LEMMA FindServes ==
  ASSUME Serial, SerialInv, TypeOK', NEW c \in Callers, Find(c)
  PROVE  UNCHANGED Service!svars
<1>1. TypeOK /\ reply[c] = "none" /\ pc[c] = "find"
  BY DEF Find, SerialInv, IdentityInv, CallHolds
<1>2. pc'[c] = "found" /\ call'[c] = call[c] /\ reply'[c] = reply[c]
      /\ UNCHANGED <<keyStore, clock, issued>>
  BY <1>1 DEF Find, TypeOK
<1>3. Outcome(c)' = Outcome(c)
  BY <1>1, <1>2 DEF Outcome
<1>4. View(keyStore', pc'[c], record'[c], ids'[c]) = View(keyStore, pc[c], record[c], ids[c])
  BY <1>1, <1>2 DEF View
<1>5. (IF Decided(c)' THEN Null ELSE call'[c]) = (IF Decided(c) THEN Null ELSE call[c])
  BY <1>1, <1>2 DEF Decided
<1> QED
  BY <1>1, <1>2, <1>3, <1>4, <1>5, Stutters

(* What a call goes by after its read. *)
LEMMA FoundIs ==
  ASSUME SerialInv, NEW c \in Callers, pc[c] = "found"
  PROVE  /\ call[c] \in Request /\ call[c].op # "sweepExpired" /\ ~Refused(call[c])
         /\ record[c] = Null => \A r \in Rows : ~Sought(call[c], r)
         /\ record[c] # Null =>
              /\ record[c] \in KeyRecord /\ record[c] \in Rows
              /\ record[c].id \in Ids /\ keyStore[record[c].id] = record[c]
              /\ Sought(call[c], record[c])
<1>1. TypeOK /\ CallHolds(c)
  BY DEF SerialInv, IdentityInv
<1>2. call[c] \in Request /\ Current(call[c], record[c])
  BY <1>1 DEF TypeOK, CallOK, CallHolds
<1>3. CASE record[c] = Null
  BY <1>2, <1>3 DEF Current
<1>4. CASE record[c] # Null
  <2>1. record[c] \in KeyRecord /\ record[c] \in Rows /\ Sought(call[c], record[c])
    BY <1>1, <1>2, <1>4 DEF Current, TypeOK
  <2>2. PICK i \in Ids : keyStore[i] = record[c]
    BY <2>1 DEF Rows
  <2>3. record[c].id = i
    BY <1>4, <2>2 DEF SerialInv, RowsOK
  <2> QED
    BY <1>2, <1>4, <2>1, <2>2, <2>3 DEF Current
<1> QED
  BY <1>3, <1>4

LEMMA RequestOps ==
  ASSUME NEW q \in Request
  PROVE  q.op \in {"getKey", "getKeyById", "verifyKey", "sweepExpired"} \cup Setters
BY DEF Request, HashRequest, IdRequest, SweepRequest, Setters, Refills

LEMMA MissingServes ==
  ASSUME Serial, SerialInv, TypeOK', NEW c \in Callers, Missing(c)
  PROVE  Service!Verify(c) \/ Service!Get(c) \/ Service!Change(c)
<1>1. /\ pc[c] = "found" /\ record[c] = Null /\ UNCHANGED <<keyStore, clock, issued>>
      /\ call[c] \in Request /\ call[c].op # "sweepExpired"
      /\ \A r \in Rows : ~Sought(call[c], r)
  BY FoundIs DEF Missing
<1>2. CASE call[c].op = "verifyKey"
  <2>1. Answer(c, "not_found")
    BY <1>2 DEF Missing, Refills
  <2> QED
    BY <1>1, <1>2, <2>1, PlainServes DEF Service!Verify, Sought, ByHash
<1>3. CASE call[c].op \in {"getKey", "getKeyById"}
  <2>1. Answer(c, "null")
    BY <1>3 DEF Missing, Refills
  <2>2. \A r \in Rows : ~Service!Named(r, call[c])
    BY <1>1, <1>3 DEF Service!Named, Sought, ByHash
  <2> QED
    BY <1>1, <1>3, <2>1, <2>2, PlainServes DEF Service!Get
<1>4. CASE call[c].op \in Setters
  <2> DEFINE a == IF call[c].op \in Service!Insisting THEN "error" ELSE "null"
  <2>1. Answer(c, a)
    <3>1. call[c].op # "verifyKey" /\ (call[c].op \in Service!Insisting <=>
             call[c].op \in Refills \cup {"disableKey", "enableKey"})
      BY <1>4 DEF Setters, Refills, Service!Insisting
    <3>2. CASE call[c].op \in Refills \cup {"disableKey", "enableKey"}
      BY <3>1, <3>2 DEF Missing
    <3>3. CASE call[c].op \notin Refills \cup {"disableKey", "enableKey"}
      BY <3>1, <3>3 DEF Missing
    <3> QED
      BY <3>2, <3>3
  <2> HIDE DEF a
  <2>2. call[c].op \in Service!Indifferent \cup Service!Insisting /\ call[c].op \notin ByHash
    BY <1>4 DEF Setters, Refills, Service!Indifferent, Service!Insisting, ByHash
  <2>3. call[c].id \in Ids
    BY <1>1, <1>4, RequestTyped DEF Setters, Refills
  <2>4. keyStore[call[c].id] = Null
    <3>1. ASSUME keyStore[call[c].id] # Null PROVE FALSE
      <4>1. keyStore[call[c].id] \in Rows /\ keyStore[call[c].id].id = call[c].id
        BY <2>3, <3>1 DEF Rows, SerialInv, RowsOK
      <4> QED
        BY <1>1, <2>2, <4>1 DEF Sought
    <3> QED
      BY <3>1
  <2>5. ~Service!Invalid(call[c])
    BY <1>1, FoundIs DEF Refused, Service!Invalid
  <2>6. /\ Service!Reply(c, a) /\ UNCHANGED ShownKeys /\ ShownKeys = keyStore
        /\ Asked[c] = call[c] /\ call[c] # Null
    BY <1>1, <2>1, PlainServes
  <2> QED
    BY <2>2, <2>4, <2>5, <2>6 DEF Service!Change, a
<1> QED
  BY <1>1, <1>2, <1>3, <1>4, RequestOps

(* A call that goes on to remove the expired record it holds. *)
LEMMA RemovalServes ==
  ASSUME Serial, SerialInv, TypeOK', NEW c \in Callers, AutoRemove(c), pc[c] = "found",
         record[c] # Null, UNCHANGED <<keyStore, clock, issued>>
  PROVE  /\ ShownKeys = keyStore /\ Asked[c] = call[c] /\ call[c] # Null
         /\ Service!Keys = Rows
         /\ ShownKeys' = [ShownKeys EXCEPT ![record[c].id] = Null]
         /\ Service!Reply(c, IF call[c].op = "verifyKey" THEN "expired" ELSE "null")
<1>1. TypeOK /\ call[c] # Null
  BY DEF SerialInv, IdentityInv, TypeOK, CallOK
<1>2. ShownKeys = keyStore /\ Asked[c] = call[c]
  BY <1>1, Undecided
<1>3. pc'[c] = "remove" /\ record'[c] = record[c] /\ call'[c] = call[c]
  BY <1>1 DEF AutoRemove, TypeOK
<1>4. ShownKeys' = [keyStore EXCEPT ![record[c].id] = Null]
  BY <1>3, ShownNext DEF View
<1>5. Decided(c)' /\ Outcome(c)' = IF call[c].op = "verifyKey" THEN "expired" ELSE "null"
  BY <1>3 DEF Decided, Outcome
<1>6. Service!Keys = Rows
  BY <1>2 DEF Service!Keys, Rows
<1> QED
  BY <1>1, <1>2, <1>4, <1>5, <1>6, Replying

LEMMA ExpiredAlike ==
  ASSUME NEW r
  PROVE  Expired(r) <=> Service!Expired(r)
BY DEF Expired, Service!Expired

LEMMA GetServes ==
  ASSUME Serial, SerialInv, TypeOK', NEW c \in Callers, GetKey(c)
  PROVE  Service!Get(c)
<1>1. /\ pc[c] = "found" /\ record[c] # Null /\ UNCHANGED <<keyStore, clock, issued>>
      /\ call[c].op \in {"getKey", "getKeyById"}
      /\ IF Expired(record[c]) /\ AutoDelete THEN AutoRemove(c) ELSE Answer(c, "ok")
  BY DEF GetKey, Resumed
<1>2. record[c] \in Rows /\ Sought(call[c], record[c])
  BY <1>1, FoundIs
<1>3. Service!Named(record[c], call[c]) /\ (Expired(record[c]) <=> Service!Expired(record[c]))
  BY <1>1, <1>2, ExpiredAlike DEF Sought, Service!Named, ByHash
<1>4. CASE Expired(record[c]) /\ AutoDelete
  <2>1. Service!Reply(c, "null")
    BY <1>1, <1>4, RemovalServes
  <2> QED
    BY <1>1, <1>2, <1>3, <1>4, <2>1, RemovalServes DEF Service!Get
<1>5. CASE ~(Expired(record[c]) /\ AutoDelete)
  BY <1>1, <1>2, <1>3, <1>5, PlainServes DEF Service!Get
<1> QED
  BY <1>4, <1>5

-----------------------------------------------------------------------------
(* Verification. *)

(* The hooks of the plugins object to what the service does. *)
LEMMA ObjectsAlike ==
  ASSUME NEW p, NEW q, NEW r
  PROVE  Rejects(p, q, r) <=> Service!Objects(p, r, q.scopes)
BY DEF Rejects, Service!Objects, Exhausted, Service!Exhausted

LEMMA FirstIs ==
  ASSUME NEW S, S \subseteq Nat, NEW i \in S, \A j \in S : i <= j
  PROVE  Service!First(S) = i
<1>1. \A k \in S : (\A j \in S : k <= j) => k = i
  OBVIOUS
<1> QED
  BY <1>1 DEF Service!First

LEMMA PluginsAre ==
  /\ DOMAIN Plugins = 1..Len(Plugins) /\ Len(Plugins) \in Nat
  /\ \A i \in 1..Len(Plugins) : Plugins[i] \in PluginNames
BY ParametersAssumption

(* No hook rejects: the service goes on to judge expiry and uses. *)
LEMMA UnobjectedVerdict ==
  ASSUME NEW q, NEW r, ~r.revoked, ~HooksReject(q, r)
  PROVE  Service!Verdict(r, q.scopes) =
           IF Expired(r) THEN "expired" ELSE IF Exhausted(r) THEN "usage_exceeded" ELSE "valid"
<1>1. {i \in DOMAIN Plugins : Service!Objects(Plugins[i], r, q.scopes)} = {}
  BY ObjectsAlike, PluginsAre DEF HooksReject
<1> QED
  BY <1>1, ExpiredAlike DEF Service!Verdict, Exhausted, Service!Exhausted

(* The first hook that rejects gives the verdict. *)
LEMMA ObjectedVerdict ==
  ASSUME NEW q, NEW r, ~r.revoked, NEW i \in 1..Len(Plugins), Rejects(Plugins[i], q, r),
         \A j \in 1..(i - 1) : ~Rejects(Plugins[j], q, r)
  PROVE  /\ Service!Verdict(r, q.scopes) = Reason[Plugins[i]]
         /\ Reason[Plugins[i]] \notin {"valid", "expired"}
<1> DEFINE S == {j \in DOMAIN Plugins : Service!Objects(Plugins[j], r, q.scopes)}
<1>1. i \in S /\ S \subseteq Nat /\ \A j \in S : i <= j
  <2>1. i \in S
    BY ObjectsAlike, PluginsAre
  <2>2. ASSUME NEW j \in S PROVE i <= j
    <3>1. j \in 1..Len(Plugins) /\ Rejects(Plugins[j], q, r)
      BY ObjectsAlike, PluginsAre
    <3>2. i \in Nat /\ j \in Nat /\ j \notin 1..(i - 1)
      BY <3>1
    <3> QED
      BY <3>1, <3>2
  <2>3. S \subseteq Nat
    BY PluginsAre
  <2> QED
    BY <2>1, <2>2, <2>3
<1>2. Service!First(S) = i /\ S # {}
  <2> HIDE DEF S
  <2> QED
    BY <1>1, FirstIs
<1>3. Service!Verdict(r, q.scopes) = Service!Refusal(Plugins[i])
  BY <1>2 DEF Service!Verdict
<1>4. Plugins[i] \in PluginNames
  BY PluginsAre
<1>5. CASE Plugins[i] = "usage-limits-per-key"
  BY <1>3, <1>4, <1>5 DEF Reason, Service!Refusal
<1>6. CASE Plugins[i] = "enable-disable"
  BY <1>3, <1>4, <1>6 DEF Reason, Service!Refusal
<1>7. CASE Plugins[i] = "permissions-scopes"
  BY <1>3, <1>4, <1>7 DEF Reason, Service!Refusal
<1> QED
  BY <1>4, <1>5, <1>6, <1>7 DEF PluginNames

(* A verdict that leaves the key alone. *)
LEMMA VerdictServes ==
  ASSUME Serial, SerialInv, TypeOK', NEW c \in Callers, NEW a,
         Resumed(c, "verifyKey"), record[c] # Null, Answer(c, a),
         a = Service!Verdict(record[c], call[c].scopes),
         Service!Judged(record[c], a) = record[c]
  PROVE  Service!Verify(c)
<1>1. /\ record[c] \in Rows /\ record[c].keyHash = call[c].keyHash
      /\ call[c].op = "verifyKey" /\ pc[c] = "found" /\ UNCHANGED <<keyStore, clock, issued>>
      /\ record[c].id \in Ids /\ keyStore[record[c].id] = record[c]
  BY FoundIs DEF Resumed, Sought, ByHash
<1>2. /\ Service!Reply(c, a) /\ UNCHANGED ShownKeys /\ ShownKeys = keyStore
      /\ Asked[c] = call[c] /\ call[c] # Null /\ Service!Keys = Rows
  BY <1>1, PlainServes
<1>3. ShownKeys' = [ShownKeys EXCEPT ![record[c].id] = record[c]]
  BY <1>1, <1>2 DEF SerialInv, IdentityInv, TypeOK
<1> QED
  BY <1>1, <1>2, <1>3 DEF Service!Verify

LEMMA VerifyExpiredServes ==
  ASSUME Serial, SerialInv, TypeOK', NEW c \in Callers, VerifyExpired(c)
  PROVE  Service!Verify(c)
<1>1. /\ Resumed(c, "verifyKey") /\ record[c] # Null
      /\ IF AutoDelete THEN AutoRemove(c) ELSE Answer(c, "expired")
      /\ Service!Verdict(record[c], call[c].scopes) = "expired"
  BY UnobjectedVerdict DEF VerifyExpired
<1>2. /\ record[c] \in Rows /\ record[c].keyHash = call[c].keyHash
      /\ call[c].op = "verifyKey" /\ pc[c] = "found" /\ UNCHANGED <<keyStore, clock, issued>>
  BY <1>1, FoundIs DEF Resumed, Sought, ByHash
<1>3. CASE AutoDelete
  <2>1. /\ Service!Reply(c, "expired")
        /\ ShownKeys' = [ShownKeys EXCEPT ![record[c].id] = Null]
        /\ Asked[c] = call[c] /\ call[c] # Null /\ Service!Keys = Rows
    BY <1>1, <1>2, <1>3, RemovalServes
  <2>2. Service!Judged(record[c], "expired") = Null
    BY <1>3 DEF Service!Judged
  <2> QED
    BY <1>1, <1>2, <2>1, <2>2 DEF Service!Verify
<1>4. CASE ~AutoDelete
  <2>1. Service!Judged(record[c], "expired") = record[c]
    BY <1>4 DEF Service!Judged
  <2> QED
    BY <1>1, <1>4, <2>1, VerdictServes
<1> QED
  BY <1>3, <1>4

(* A record a call goes on to write is what the service shows from then on.  *)
LEMMA PutShows ==
  ASSUME Serial, SerialInv, TypeOK', NEW c \in Callers, NEW r \in KeyRecord, Put(c, r),
         pc[c] = "found", record[c] # Null, r.id = record[c].id,
         UNCHANGED <<keyStore, clock, issued>>
  PROVE  /\ ShownKeys = keyStore /\ Asked[c] = call[c] /\ call[c] # Null
         /\ Service!Keys = Rows
         /\ ShownKeys' = [ShownKeys EXCEPT ![record[c].id] = r]
         /\ Service!Reply(c, IF call[c].op = "verifyKey" THEN "valid" ELSE "ok")
<1>1. TypeOK /\ call[c] # Null
  BY DEF SerialInv, IdentityInv, TypeOK, CallOK
<1>2. ShownKeys = keyStore /\ Asked[c] = call[c]
  BY <1>1, Undecided
<1>3. pc'[c] = "update" /\ record'[c] = r /\ call'[c] = call[c]
  BY <1>1 DEF Put, TypeOK
<1>4. keyStore[r.id] = record[c] /\ r.id \in Ids
  BY FoundIs
<1>5. ShownKeys' = [keyStore EXCEPT ![r.id] = IF @ = Null THEN Null ELSE r]
  BY <1>3, ShownNext DEF View
<1>6. ShownKeys' = [keyStore EXCEPT ![r.id] = r]
  BY <1>4, <1>5
<1>7. Decided(c)' /\ Outcome(c)' = IF call[c].op = "verifyKey" THEN "valid" ELSE "ok"
  BY <1>3 DEF Decided, Outcome
<1>8. Service!Keys = Rows
  BY <1>2 DEF Service!Keys, Rows
<1> QED
  BY <1>1, <1>2, <1>6, <1>7, <1>8, Replying

LEMMA VerifyValidServes ==
  ASSUME Serial, SerialInv, TypeOK', NEW c \in Callers, VerifyValid(c)
  PROVE  Service!Verify(c)
<1>1. /\ Resumed(c, "verifyKey") /\ record[c] # Null /\ ~Exhausted(record[c])
      /\ Service!Verdict(record[c], call[c].scopes) = "valid"
  BY UnobjectedVerdict DEF VerifyValid
<1>2. /\ record[c] \in Rows /\ record[c].keyHash = call[c].keyHash /\ record[c] \in KeyRecord
      /\ call[c].op = "verifyKey" /\ pc[c] = "found" /\ UNCHANGED <<keyStore, clock, issued>>
  BY <1>1, FoundIs DEF Resumed, Sought, ByHash
<1>3. Installed("usage-limits-per-key") <=> Service!Limited
  BY PluginsAre DEF Installed, Service!Limited
<1>4. CASE record[c].usesRemaining # Null /\ Installed("usage-limits-per-key")
  <2> DEFINE r == [record[c] EXCEPT !.usesRemaining = @ - 1]
  <2>1. record[c].usesRemaining - 1 \in Nat
    BY <1>1, <1>2, <1>4 DEF Exhausted, KeyRecord
  <2>2. r \in KeyRecord /\ r.id = record[c].id
    BY <1>2, <2>1 DEF KeyRecord
  <2>3. Put(c, r)
    BY <1>4 DEF VerifyValid
  <2>4. Service!Judged(record[c], "valid") = r
    BY <1>3, <1>4 DEF Service!Judged
  <2> HIDE DEF r
  <2>5. /\ ShownKeys' = [ShownKeys EXCEPT ![record[c].id] = r]
        /\ Service!Reply(c, "valid")
        /\ Asked[c] = call[c] /\ call[c] # Null /\ Service!Keys = Rows
    BY <1>1, <1>2, <2>2, <2>3, PutShows
  <2> QED
    BY <1>1, <1>2, <2>4, <2>5 DEF Service!Verify
<1>5. CASE ~(record[c].usesRemaining # Null /\ Installed("usage-limits-per-key"))
  <2>1. Answer(c, "valid")
    BY <1>5 DEF VerifyValid
  <2>2. Service!Judged(record[c], "valid") = record[c]
    BY <1>3, <1>5 DEF Service!Judged
  <2> QED
    BY <1>1, <2>1, <2>2, VerdictServes
<1> QED
  BY <1>4, <1>5

LEMMA VerifyServes ==
  ASSUME Serial, SerialInv, TypeOK', NEW c \in Callers, Verify(c)
  PROVE  Service!Verify(c)
<1>1. ASSUME NEW a, a \notin {"valid", "expired"}
      PROVE  Service!Judged(record[c], a) = record[c]
  BY <1>1 DEF Service!Judged
<1>2. CASE VerifyRevoked(c)
  <2>1. Service!Verdict(record[c], call[c].scopes) = "revoked"
    BY <1>2 DEF VerifyRevoked, Service!Verdict
  <2> QED
    BY <1>1, <1>2, <2>1, VerdictServes DEF VerifyRevoked
<1>3. CASE VerifyRejected(c)
  <2>1. PICK i \in 1..Len(Plugins) :
          /\ Rejects(Plugins[i], call[c], record[c])
          /\ \A j \in 1..(i - 1) : ~Rejects(Plugins[j], call[c], record[c])
          /\ Answer(c, Reason[Plugins[i]])
    BY <1>3 DEF VerifyRejected
  <2>2. /\ Service!Verdict(record[c], call[c].scopes) = Reason[Plugins[i]]
        /\ Reason[Plugins[i]] \notin {"valid", "expired"}
    BY <1>3, <2>1, ObjectedVerdict DEF VerifyRejected
  <2> QED
    BY <1>1, <1>3, <2>1, <2>2, VerdictServes DEF VerifyRejected
<1>4. CASE VerifyExceeded(c)
  <2>1. Service!Verdict(record[c], call[c].scopes) = "usage_exceeded"
    BY <1>4, UnobjectedVerdict DEF VerifyExceeded
  <2> QED
    BY <1>1, <1>4, <2>1, VerdictServes DEF VerifyExceeded
<1> QED
  BY <1>2, <1>3, <1>4, VerifyExpiredServes, VerifyValidServes DEF Verify

-----------------------------------------------------------------------------
(* Changes. *)

(* What a changing method writes is what the service makes of the record.    *)
LEMMA ChangedIs ==
  ASSUME SerialInv, NEW c \in Callers, Change(c)
  PROVE  /\ call[c].op \in Service!Indifferent \cup Service!Insisting
         /\ call[c].op \notin ByHash
         /\ Put(c, Service!Changed(record[c], call[c]))
<1>1. /\ pc[c] = "found" /\ record[c] # Null /\ record[c] \in KeyRecord
      /\ call[c] \in Request /\ clock \in Nat \ {0}
  BY ChangePuts, FoundIs DEF SerialInv, IdentityInv, TypeOK
<1> DEFINE q == call[c]
           r == record[c]
<1>2. CASE ExtendKeyExpiry(c)
  <2> DEFINE from == IF r.expiresAt = Null THEN clock ELSE r.expiresAt
             t == from + q.additionalMs
  <2>1. q.op = "extendKeyExpiry"
    BY <1>2 DEF ExtendKeyExpiry, Resumed
  <2>2. q.additionalMs \in Nat /\ from \in Nat
    BY <1>1, <2>1, RequestTyped DEF KeyRecord
  <2>3. t = q.additionalMs + (IF r.expiresAt = Null THEN clock ELSE r.expiresAt)
    BY <2>2
  <2>4. Service!Changed(r, q) = [r EXCEPT !.expiresAt = t]
    BY <2>1, <2>3 DEF Service!Changed
  <2>5. Put(c, [r EXCEPT !.expiresAt = t])
    BY <1>2 DEF ExtendKeyExpiry
  <2> HIDE DEF t
  <2> QED
    BY <2>1, <2>4, <2>5 DEF Service!Indifferent, Service!Insisting, ByHash
<1>3. CASE SetUsesRemaining(c)
  <2>1. q.op = "setUsesRemaining" /\ Put(c, [r EXCEPT !.usesRemaining = q.remaining])
    BY <1>3 DEF SetUsesRemaining, Resumed
  <2>2. Service!Changed(r, q) = [r EXCEPT !.usesRemaining = q.remaining]
    BY <2>1 DEF Service!Changed
  <2> QED
    BY <1>1, <2>1, <2>2 DEF Service!Indifferent, Service!Insisting, ByHash
<1>4. CASE TopUpUses(c)
  <2> DEFINE current == IF r.usesRemaining = Null THEN 0 ELSE r.usesRemaining
             n == current + q.amount
  <2>1. q.op = "topUpUses"
    BY <1>4 DEF TopUpUses, Resumed
  <2>2. q.amount \in Nat /\ current \in Nat
    BY <1>1, <2>1, RequestTyped DEF KeyRecord
  <2>3. n = q.amount + (IF r.usesRemaining = Null THEN 0 ELSE r.usesRemaining)
    BY <2>2
  <2>4. Service!Changed(r, q) = [r EXCEPT !.usesRemaining = n]
    BY <2>1, <2>3 DEF Service!Changed
  <2>5. Put(c, [r EXCEPT !.usesRemaining = n])
    BY <1>4 DEF TopUpUses
  <2> HIDE DEF n
  <2> QED
    BY <1>1, <2>1, <2>4, <2>5 DEF Service!Indifferent, Service!Insisting, ByHash
<1>5. CASE ClearUsageLimit(c)
  <2>1. q.op = "clearUsageLimit" /\ Put(c, [r EXCEPT !.usesRemaining = Null])
    BY <1>5 DEF ClearUsageLimit, Resumed
  <2>2. Service!Changed(r, q) = [r EXCEPT !.usesRemaining = Null]
    BY <2>1 DEF Service!Changed
  <2> QED
    BY <1>1, <2>1, <2>2 DEF Service!Indifferent, Service!Insisting, ByHash
<1>6. CASE DisableKey(c)
  <2>1. q.op = "disableKey" /\ Put(c, [r EXCEPT !.disabled = TRUE])
    BY <1>6 DEF DisableKey, Resumed
  <2>2. Service!Changed(r, q) = [r EXCEPT !.disabled = TRUE]
    BY <2>1 DEF Service!Changed
  <2> QED
    BY <1>1, <2>1, <2>2 DEF Service!Indifferent, Service!Insisting, ByHash
<1>7. CASE EnableKey(c)
  <2>1. q.op = "enableKey" /\ Put(c, [r EXCEPT !.disabled = FALSE])
    BY <1>7 DEF EnableKey, Resumed
  <2>2. Service!Changed(r, q) = [r EXCEPT !.disabled = FALSE]
    BY <2>1 DEF Service!Changed
  <2> QED
    BY <1>1, <2>1, <2>2 DEF Service!Indifferent, Service!Insisting, ByHash
<1>8. CASE GrantScopes(c)
  <2>1. q.op = "grantScopes" /\ Put(c, [r EXCEPT !.scopes = @ \cup q.scopes])
    BY <1>8 DEF GrantScopes, Resumed
  <2>2. Service!Changed(r, q) = [r EXCEPT !.scopes = @ \cup q.scopes]
    BY <2>1 DEF Service!Changed
  <2> QED
    BY <1>1, <2>1, <2>2 DEF Service!Indifferent, Service!Insisting, ByHash
<1>9. CASE RevokeScopes(c)
  <2>1. q.op = "revokeScopes" /\ Put(c, [r EXCEPT !.scopes = @ \ q.scopes])
    BY <1>9 DEF RevokeScopes, Resumed
  <2>2. Service!Changed(r, q) = [r EXCEPT !.scopes = @ \ q.scopes]
    BY <2>1 DEF Service!Changed
  <2> QED
    BY <1>1, <2>1, <2>2 DEF Service!Indifferent, Service!Insisting, ByHash
<1>10. CASE SetScopes(c)
  <2>1. q.op = "setScopes" /\ Put(c, [r EXCEPT !.scopes = q.scopes])
    BY <1>10 DEF SetScopes, Resumed
  <2>2. Service!Changed(r, q) = [r EXCEPT !.scopes = q.scopes]
    BY <2>1 DEF Service!Changed
  <2> QED
    BY <1>1, <2>1, <2>2 DEF Service!Indifferent, Service!Insisting, ByHash
<1> QED
  BY <1>2, <1>3, <1>4, <1>5, <1>6, <1>7, <1>8, <1>9, <1>10 DEF Change

LEMMA ChangeServes ==
  ASSUME Serial, SerialInv, TypeOK', NEW c \in Callers, Change(c)
  PROVE  Service!Change(c)
<1>1. /\ pc[c] = "found" /\ record[c] # Null /\ call[c].op # "verifyKey" /\ TypeOK
      /\ UNCHANGED <<keyStore, clock, issued>>
  BY ChangePuts DEF SerialInv, IdentityInv
<1> DEFINE r == Service!Changed(record[c], call[c])
<1>2. /\ Put(c, r) /\ call[c].op \in Service!Indifferent \cup Service!Insisting
      /\ call[c].op \notin ByHash
  BY ChangedIs
<1> HIDE DEF r
<1>3. r \in KeyRecord /\ r.id = record[c].id
  <2>1. PICK s \in KeyRecord : Put(c, s) /\ ChangesTo(c, s)
    BY <1>1, ChangePuts
  <2>2. r = s
    BY <1>1, <1>2, <2>1 DEF Put, TypeOK
  <2> QED
    BY <2>1, <2>2 DEF ChangesTo
<1>4. /\ ShownKeys' = [ShownKeys EXCEPT ![record[c].id] = r] /\ ShownKeys = keyStore
      /\ Service!Reply(c, "ok") /\ Asked[c] = call[c] /\ call[c] # Null
  BY <1>1, <1>2, <1>3, PutShows
<1>5. /\ call[c].id = record[c].id /\ keyStore[record[c].id] = record[c]
      /\ ~Service!Invalid(call[c])
  BY <1>1, <1>2, FoundIs DEF Sought, Refused, Service!Invalid
<1> QED
  BY <1>1, <1>2, <1>4, <1>5 DEF Service!Change, r

-----------------------------------------------------------------------------
(* Writes, and sweeps. *)

(* The write brings the table to what the service shows already.             *)
LEMMA LandingServes ==
  ASSUME Serial, SerialInv, TypeOK', NEW c \in Callers, Update(c) \/ Remove(c)
  PROVE  UNCHANGED Service!svars
<1>1. TypeOK /\ UNCHANGED <<clock, issued>>
  BY LandingAnswers DEF SerialInv, IdentityInv
<1>2. PICK a : Answer(c, a) /\ a = Outcome(c) /\ Decided(c)
              /\ keyStore' = View(keyStore, pc[c], record[c], ids[c])
  <2>1. CASE Update(c)
    <3>1. pc[c] = "update" /\ UpdateKey(record[c])
          /\ Answer(c, IF call[c].op = "verifyKey" THEN "valid" ELSE "ok")
      <4>1. CASE call[c].op = "verifyKey"
        BY <2>1, <4>1 DEF Update, Writes, Serial
      <4>2. CASE call[c].op # "verifyKey"
        BY <2>1, <4>2 DEF Update, Writes, Serial
      <4> QED
        BY <4>1, <4>2
    <3>2. keyStore' = View(keyStore, pc[c], record[c], ids[c])
      BY <3>1 DEF UpdateKey, View
    <3> QED
      BY <3>1, <3>2 DEF Outcome, Decided
  <2>2. CASE Remove(c)
    <3>1. pc[c] = "remove" /\ HardRemoveKeyById(record[c].id)
          /\ Answer(c, IF call[c].op = "verifyKey" THEN "expired" ELSE "null")
      <4>1. CASE call[c].op = "verifyKey"
        BY <2>2, <4>1 DEF Remove, Writes, Serial
      <4>2. CASE call[c].op # "verifyKey"
        BY <2>2, <4>2 DEF Remove, Writes, Serial
      <4> QED
        BY <4>1, <4>2
    <3>2. keyStore' = View(keyStore, pc[c], record[c], ids[c])
      BY <3>1 DEF HardRemoveKeyById, View
    <3> QED
      BY <3>1, <3>2 DEF Outcome, Decided
  <2> QED
    BY <2>1, <2>2
<1>3. pc'[c] = "idle" /\ reply'[c] = a /\ call'[c] = Null
  BY <1>1, <1>2 DEF Answer, TypeOK
<1>4. Outcome(c)' = Outcome(c)
  BY <1>2, <1>3 DEF Outcome
<1>5. View(keyStore', pc'[c], record'[c], ids'[c]) = View(keyStore, pc[c], record[c], ids[c])
  BY <1>2, <1>3 DEF View
<1>6. (IF Decided(c)' THEN Null ELSE call'[c]) = (IF Decided(c) THEN Null ELSE call[c])
  BY <1>2, <1>3
<1> QED
  BY <1>1, <1>4, <1>5, <1>6, Stutters

LEMMA SameCardinality == \A S : Service!Cardinality(S) = Cardinality(S)
BY DEF Service!Cardinality, Cardinality

(* A sweep is over for the service when it knows what to remove. *)
LEMMA SweepFindServes ==
  ASSUME Serial, SerialInv, TypeOK', NEW c \in Callers, SweepFind(c)
  PROVE  Service!Sweep(c)
<1>1. TypeOK /\ pc[c] = "find" /\ call[c] # Null /\ call[c].op = "sweepExpired"
      /\ UNCHANGED <<keyStore, clock, issued, call, record>>
  BY DEF SweepFind, SerialInv, IdentityInv, TypeOK, CallOK
<1>2. PICK S \in FindExpiredIds(call[c].olderThan, call[c].batchSize) :
        /\ ids' = [ids EXCEPT ![c] = S]
        /\ reply' = [reply EXCEPT ![c] =
                       IF Cardinality(S) = call[c].batchSize THEN "more" ELSE "swept"]
  BY DEF SweepFind
<1> DEFINE a == IF Cardinality(S) = call[c].batchSize THEN "more" ELSE "swept"
<1>3. pc'[c] = "sweep" /\ ids'[c] = S /\ reply'[c] = a
  BY <1>1, <1>2 DEF SweepFind, TypeOK
<1>4. ShownKeys = keyStore /\ Asked[c] = call[c]
  BY <1>1, Undecided
<1>5. ShownKeys' = [i \in Ids |-> IF i \in S THEN Null ELSE ShownKeys[i]]
  BY <1>1, <1>3, <1>4, ShownNext DEF View
<1>6. Decided(c)' /\ Outcome(c)' = a
  BY <1>3 DEF Decided, Outcome
<1> HIDE DEF a
<1>7. Service!Reply(c, a)
  BY <1>1, <1>6, Replying
<1> DEFINE prunable == {i \in Ids : Service!Prunable(i, call[c])}
<1>8. /\ S \in SUBSET prunable
      /\ \/ S = prunable /\ Cardinality(S) <= call[c].batchSize
         \/ Cardinality(S) = call[c].batchSize
  <2>1. prunable = {i \in Ids : /\ keyStore[i] # Null /\ keyStore[i].expiresAt # Null
                                /\ keyStore[i].expiresAt <= call[c].olderThan}
    BY <1>4 DEF Service!Prunable
  <2> HIDE DEF prunable
  <2> QED
    BY <1>2, <2>1 DEF FindExpiredIds
<1> HIDE DEF prunable
<1> QED
  BY <1>1, <1>4, <1>5, <1>7, <1>8, SameCardinality DEF Service!Sweep, a, prunable

(* What it removes shows as removed already. *)
LEMMA SweepRemoveServes ==
  ASSUME Serial, SerialInv, TypeOK', NEW c \in Callers, SweepRemove(c)
  PROVE  UNCHANGED Service!svars
<1>1. /\ TypeOK /\ pc[c] = "sweep" /\ UNCHANGED <<clock, issued, pc, call, record, reply>>
  BY DEF SweepRemove, SerialInv, IdentityInv
<1>2. PICK i \in ids[c] : keyStore' = [keyStore EXCEPT ![i] = Null]
                         /\ ids' = [ids EXCEPT ![c] = @ \ {i}]
  BY DEF SweepRemove, HardRemoveKeyById, Serial
<1>3. ids'[c] = ids[c] \ {i} /\ keyStore \in [Ids -> KeyRecord \cup {Null}] /\ ids[c] \subseteq Ids
  BY <1>1, <1>2 DEF TypeOK
<1>4. View(keyStore', pc'[c], record'[c], ids'[c]) = View(keyStore, pc[c], record[c], ids[c])
  BY <1>1, <1>2, <1>3 DEF View
<1>5. Outcome(c)' = Outcome(c) /\ (Decided(c)' <=> Decided(c))
  BY <1>1 DEF Outcome, Decided
<1> QED
  BY <1>1, <1>4, <1>5, Stutters

LEMMA SweepDoneServes ==
  ASSUME Serial, SerialInv, TypeOK', NEW c \in Callers, SweepDone(c)
  PROVE  UNCHANGED Service!svars
<1>1. /\ TypeOK /\ pc[c] = "sweep" /\ ids[c] = {} /\ Answer(c, reply[c])
      /\ UNCHANGED <<keyStore, clock, issued>>
  BY DEF SweepDone, SerialInv, IdentityInv
<1>2. pc'[c] = "idle" /\ call'[c] = Null /\ reply'[c] = reply[c]
  BY <1>1 DEF Answer, TypeOK
<1>3. View(keyStore', pc'[c], record'[c], ids'[c]) = View(keyStore, pc[c], record[c], ids[c])
  BY <1>1, <1>2 DEF View, TypeOK
<1>4. Outcome(c)' = Outcome(c) /\ Decided(c) /\ ~Decided(c)'
  BY <1>1, <1>2 DEF Outcome, Decided
<1> QED
  BY <1>1, <1>2, <1>3, <1>4, Stutters

-----------------------------------------------------------------------------
(* Every step keeps the invariant. *)

LEMMA RowsKept ==
  ASSUME SerialInv, NEW c \in Callers, NEW id \in Ids,
         \/ record[c] # Null /\ UpdateKey(record[c])
         \/ RevokeKeyById(id)
         \/ HardRemoveKeyById(id)
         \/ record[c] # Null /\ HardRemoveKeyById(record[c].id)
         \/ UNCHANGED keyStore
  PROVE  RowsOK'
<1>1. keyStore \in [Ids -> KeyRecord \cup {Null}] /\ RowsOK
  BY DEF SerialInv, IdentityInv, TypeOK
<1>2. CASE record[c] # Null /\ UpdateKey(record[c])
  BY <1>1, <1>2 DEF UpdateKey, RowsOK
<1>3. CASE RevokeKeyById(id)
  <2> SUFFICES ASSUME NEW i \in Ids, keyStore'[i] # Null
               PROVE  keyStore'[i].id = i
    BY DEF RowsOK
  <2>1. keyStore[i] \in KeyRecord /\ keyStore[i].id = i
    BY <1>1, <1>3 DEF RevokeKeyById, RowsOK
  <2>2. keyStore'[i] \in {keyStore[i], [keyStore[i] EXCEPT !.revoked = TRUE]}
    BY <1>1, <1>3, <2>1, NullIsNotAValue DEF RevokeKeyById
  <2> QED
    BY <2>1, <2>2 DEF KeyRecord
<1>4. CASE HardRemoveKeyById(id) \/ (record[c] # Null /\ HardRemoveKeyById(record[c].id))
  BY <1>1, <1>4 DEF HardRemoveKeyById, RowsOK
<1>5. CASE UNCHANGED keyStore
  BY <1>1, <1>5 DEF RowsOK
<1> QED
  BY <1>2, <1>3, <1>4, <1>5

LEMMA RowsStay ==
  ASSUME SerialInv, UNCHANGED keyStore
  PROVE  RowsOK'
BY DEF SerialInv, RowsOK

LEMMA EndedHolds ==
  ASSUME TypeOK, NEW c \in Callers, NEW a, Answer(c, a)
  PROVE  CallHolds(c)'
BY DEF TypeOK, Answer, CallHolds

LEMMA CreateKeeps ==
  ASSUME Serial, SerialInv, NEW c \in Callers, CreateKey(c)
  PROVE  RowsOK' /\ CallHolds(c)'
<1>1. PICK id \in Ids, h \in FreshHashes, t \in Expiries, n \in Budgets,
           s \in SUBSET Scopes :
        LET new == [id |-> id, keyHash |-> h, expiresAt |-> t, usesRemaining |-> n,
                    revoked |-> FALSE, disabled |-> FALSE, scopes |-> s]
        IN  IF InsertConflicts(new)
              THEN Answer(c, "error") /\ UNCHANGED keyStore
              ELSE Writes(c, InsertKey(new), "ok", "error")
  BY DEF CreateKey
<1> DEFINE new == [id |-> id, keyHash |-> h, expiresAt |-> t, usesRemaining |-> n,
                   revoked |-> FALSE, disabled |-> FALSE, scopes |-> s]
<1>2. new.id = id
  OBVIOUS
<1>3. (InsertKey(new) \/ UNCHANGED keyStore) /\ \E a : Answer(c, a)
  BY <1>1 DEF Writes
<1> HIDE DEF new
<1>4. RowsOK'
  BY <1>2, <1>3 DEF InsertKey, RowsOK, SerialInv, IdentityInv, TypeOK
<1> QED
  BY <1>3, <1>4, EndedHolds DEF SerialInv, IdentityInv

LEMMA OneStatementKeeps ==
  ASSUME Serial, SerialInv, NEW c \in Callers, RevokeKey(c) \/ HardRemoveKey(c)
  PROVE  RowsOK' /\ CallHolds(c)'
<1>1. PICK id \in Ids :
        (RevokeKeyById(id) \/ HardRemoveKeyById(id)) /\ Answer(c, "ok")
  BY DEF RevokeKey, HardRemoveKey, Writes, Serial
<1> QED
  BY <1>1, RowsKept, EndedHolds DEF SerialInv, IdentityInv

LEMMA BeginKeeps ==
  ASSUME SerialInv, NEW c \in Callers, BeginCall(c)
  PROVE  RowsOK' /\ CallHolds(c)'
<1>1. PICK q : Begin(c, q)
  BY DEF BeginCall, BeginByHash, BeginById, BeginSweep
<1>2. pc'[c] = "find" /\ reply'[c] = "none" /\ UNCHANGED keyStore
  BY <1>1 DEF Begin, SerialInv, IdentityInv, TypeOK
<1> QED
  BY <1>2, RowsStay DEF CallHolds

LEMMA FindKeeps ==
  ASSUME SerialInv, NEW c \in Callers, Find(c)
  PROVE  RowsOK' /\ CallHolds(c)'
<1>1. /\ TypeOK /\ reply[c] = "none" /\ pc[c] = "find" /\ call[c].op # "sweepExpired"
      /\ ~Refused(call[c]) /\ UNCHANGED <<keyStore, call, reply>>
  BY DEF Find, SerialInv, IdentityInv, CallHolds
<1>2. PICK r \in IF call[c].op \in ByHash THEN FindKeyByHash(call[c].keyHash)
                                          ELSE FindKeyById(call[c].id) :
        record' = [record EXCEPT ![c] = r]
  BY DEF Find
<1>3. pc'[c] = "found" /\ record'[c] = r
  BY <1>1, <1>2 DEF Find, TypeOK
<1>4. Null \notin Rows
  BY DEF Rows
<1>5. IF r = Null THEN \A s \in Rows : ~Sought(call[c], s) ELSE r \in Rows /\ Sought(call[c], r)
  <2>1. CASE call[c].op \in ByHash
    <3>1. r \in OneOf({s \in Rows : s.keyHash = call[c].keyHash})
      BY <1>2, <2>1 DEF FindKeyByHash
    <3> QED
      BY <1>4, <2>1, <3>1 DEF OneOf, Sought
  <2>2. CASE call[c].op \notin ByHash
    <3>1. r \in OneOf({s \in Rows : s.id = call[c].id})
      BY <1>2, <2>2 DEF FindKeyById
    <3> QED
      BY <1>4, <2>2, <3>1 DEF OneOf, Sought
  <2> QED
    BY <2>1, <2>2
<1>6. Rows' = Rows /\ call'[c] = call[c] /\ reply'[c] = reply[c]
  BY <1>1 DEF Rows
<1>7. Current(call[c], r)'
  BY <1>1, <1>5, <1>6 DEF Current, Sought
<1> QED
  BY <1>1, <1>3, <1>6, <1>7, RowsStay DEF CallHolds, Current, Sought

LEMMA GoingOnKeeps ==
  ASSUME Serial, SerialInv, NEW c \in Callers,
         GetKey(c) \/ Verify(c) \/ Change(c) \/ Missing(c)
  PROVE  RowsOK' /\ CallHolds(c)'
<1>1. TypeOK /\ UNCHANGED keyStore /\ pc[c] = "found" /\ reply[c] = "none"
  BY ChangePuts
     DEF GetKey, Verify, VerifyRevoked, VerifyRejected, VerifyExpired, VerifyExceeded,
         VerifyValid, Missing, Resumed, SerialInv, IdentityInv, CallHolds
<1>2. \/ \E a : Answer(c, a)
      \/ AutoRemove(c)
      \/ \E r : Put(c, r)
  <2>1. CASE Change(c)
    BY <1>1, <2>1, ChangePuts
  <2>2. CASE VerifyValid(c)
    BY <2>2 DEF VerifyValid
  <2>3. CASE GetKey(c) \/ VerifyExpired(c)
    BY <2>3 DEF GetKey, VerifyExpired
  <2>4. CASE Missing(c) \/ VerifyRevoked(c) \/ VerifyRejected(c) \/ VerifyExceeded(c)
    BY <2>4 DEF Missing, VerifyRevoked, VerifyRejected, VerifyExceeded
  <2> QED
    BY <2>1, <2>2, <2>3, <2>4 DEF Verify
<1>3. CASE \E a : Answer(c, a)
  BY <1>1, <1>3, EndedHolds, RowsStay
<1>4. CASE AutoRemove(c)
  <2>1. pc'[c] = "remove" /\ reply'[c] = "none"
    BY <1>1, <1>4 DEF AutoRemove, TypeOK
  <2> QED
    BY <1>1, <2>1, RowsStay DEF CallHolds
<1>5. ASSUME NEW r, Put(c, r) PROVE RowsOK' /\ CallHolds(c)'
  <2>1. pc'[c] = "update" /\ reply'[c] = "none" /\ record'[c] = r
    BY <1>1, <1>5 DEF Put, TypeOK
  <2> QED
    BY <1>1, <1>5, <2>1, RowsStay DEF CallHolds
<1> QED
  BY <1>2, <1>3, <1>4, <1>5

LEMMA LandingKeeps ==
  ASSUME SerialInv, NEW c \in Callers, Update(c) \/ Remove(c)
  PROVE  RowsOK' /\ CallHolds(c)'
<1>1. TypeOK /\ pc[c] \in {"update", "remove"} /\ \E a : Answer(c, a)
  BY LandingAnswers DEF SerialInv, IdentityInv
<1>2. record[c] # Null /\ record[c].id \in Ids
  BY <1>1 DEF TypeOK, CallOK, KeyRecord
<1>3. RowsOK'
  BY <1>2, LandingAnswers, RowsKept
<1> QED
  BY <1>1, <1>3, EndedHolds

LEMMA SweepKeeps ==
  ASSUME Serial, SerialInv, NEW c \in Callers, SweepFind(c) \/ SweepRemove(c)
  PROVE  RowsOK' /\ CallHolds(c)'
<1>1. TypeOK /\ pc'[c] = "sweep"
  BY DEF SweepFind, SweepRemove, SerialInv, IdentityInv, TypeOK
<1>2. RowsOK'
  <2>1. CASE SweepFind(c)
    BY <2>1, RowsStay DEF SweepFind
  <2>2. CASE SweepRemove(c)
    <3>1. PICK i \in ids[c] : HardRemoveKeyById(i)
      BY <2>2 DEF SweepRemove, Serial
    <3> QED
      BY <1>1, <3>1, RowsKept DEF TypeOK
  <2> QED
    BY <2>1, <2>2
<1> QED
  BY <1>1, <1>2 DEF CallHolds

(* Time passes, or nothing happens. *)
LEMMA RestingKeeps ==
  ASSUME Serial, SerialInv, TypeOK', UNCHANGED <<keyStore, issued, pc, call, record, ids, reply>>
  PROVE  RowsOK' /\ (\A c \in Callers : CallHolds(c)') /\ UNCHANGED <<ShownKeys, Asked, Answers>>
<1>1. RowsOK' /\ Rows' = Rows
  BY RowsStay DEF Rows
<1>2. UNCHANGED <<ShownKeys, Asked, Answers>>
  BY DEF ShownKeys, Shown, Asked, Answers, Decided, Outcome, Landed
<1>3. ASSUME NEW c \in Callers PROVE CallHolds(c)'
  <2>1. CallHolds(c)
    BY DEF SerialInv
  <2> QED
    BY <1>1, <1>2, <2>1 DEF CallHolds, Current, Sought, Refused
<1> QED
  BY <1>1, <1>2, <1>3

-----------------------------------------------------------------------------
(* The refinement. *)

LEMMA ServiceInit == Serial /\ Init => Service!Init /\ SerialInv
<1> SUFFICES ASSUME Serial, Init PROVE Service!Init /\ SerialInv
  OBVIOUS
<1>1. IdentityInv
  BY IdentityInit
<1>2. \A c \in Callers : ~Decided(c) /\ call[c] = Null /\ Outcome(c) = "none"
  BY DEF Init, Decided, Outcome
<1>3. ShownKeys = [i \in Ids |-> Null]
  BY <1>2 DEF ShownKeys, Shown, Init
<1>4. Service!Init
  BY <1>2, <1>3 DEF Service!Init, Asked, Answers, Init
<1>5. RowsOK /\ \A c \in Callers : CallHolds(c)
  BY DEF Init, RowsOK, CallHolds
<1> QED
  BY <1>1, <1>4, <1>5 DEF SerialInv

(* What the step of a call keeps, and what it is to the service.             *)
LEMMA CallServes ==
  ASSUME Serial, SerialInv, TypeOK', NEW c \in Callers,
         OneStatement(c) \/ BeginCall(c) \/ Step(c)
  PROVE  /\ RowsOK' /\ CallHolds(c)'
         /\ \/ Service!Ask(c) \/ Service!Create(c) \/ Service!Revoke(c)
            \/ Service!HardRemove(c) \/ Service!Verify(c) \/ Service!Get(c)
            \/ Service!Change(c) \/ Service!Sweep(c)
            \/ UNCHANGED Service!svars
<1>1. CASE CreateKey(c)
  BY <1>1, CreateKeeps, CreateServes
<1>2. CASE RevokeKey(c) \/ HardRemoveKey(c)
  BY <1>2, OneStatementKeeps, OneStatementServes
<1>3. CASE BeginCall(c)
  BY <1>3, BeginKeeps, BeginServes
<1>4. CASE RefuseArgument(c) \/ BeforeVerifyRejects(c)
  <2>1. UNCHANGED keyStore /\ \E a : Answer(c, a)
    BY <1>4 DEF RefuseArgument, BeforeVerifyRejects
  <2>2. RowsOK' /\ CallHolds(c)'
    BY <2>1, RowsStay, EndedHolds DEF SerialInv, IdentityInv
  <2> QED
    BY <1>4, <2>2, RefusalServes
<1>5. CASE Find(c)
  BY <1>5, FindKeeps, FindServes
<1>6. CASE Missing(c)
  BY <1>6, GoingOnKeeps, MissingServes
<1>7. CASE GetKey(c)
  BY <1>7, GoingOnKeeps, GetServes
<1>8. CASE Verify(c)
  BY <1>8, GoingOnKeeps, VerifyServes
<1>9. CASE Change(c)
  BY <1>9, GoingOnKeeps, ChangeServes
<1>10. CASE Update(c) \/ Remove(c)
  BY <1>10, LandingKeeps, LandingServes
<1>11. CASE SweepFind(c)
  BY <1>11, SweepKeeps, SweepFindServes
<1>12. CASE SweepRemove(c)
  BY <1>12, SweepKeeps, SweepRemoveServes
<1>13. CASE SweepDone(c)
  <2>1. UNCHANGED keyStore /\ \E a : Answer(c, a)
    BY <1>13 DEF SweepDone
  <2>2. RowsOK' /\ CallHolds(c)'
    BY <2>1, RowsStay, EndedHolds DEF SerialInv, IdentityInv
  <2> QED
    BY <1>13, <2>2, SweepDoneServes
<1>14. ~FindRejects(c)
  BY DEF FindRejects, Serial
<1> QED
  BY <1>1, <1>2, <1>3, <1>4, <1>5, <1>6, <1>7, <1>8, <1>9, <1>10, <1>11, <1>12, <1>13, <1>14
     DEF OneStatement, Step

LEMMA ServiceNext ==
  Serial /\ SerialInv /\ [Next]_vars => SerialInv' /\ [Service!Next]_(Service!svars)
<1> SUFFICES ASSUME Serial, SerialInv, [Next]_vars
             PROVE  SerialInv' /\ [Service!Next]_(Service!svars)
  OBVIOUS
<1>1. IdentityInv' /\ TypeOK'
  BY IdentityNext DEF SerialInv, IdentityInv
<1>2. CASE Tick
  <2>1. RowsOK' /\ (\A c \in Callers : CallHolds(c)') /\ UNCHANGED <<ShownKeys, Asked, Answers>>
    BY <1>1, <1>2, RestingKeeps DEF Tick
  <2>2. Service!Tick
    BY <1>2, <2>1 DEF Tick, Service!Tick
  <2> QED
    BY <1>1, <2>1, <2>2 DEF SerialInv, Service!Next
<1>3. CASE UNCHANGED vars
  <2>1. RowsOK' /\ (\A c \in Callers : CallHolds(c)') /\ UNCHANGED <<ShownKeys, Asked, Answers>>
    BY <1>1, <1>3, RestingKeeps DEF vars
  <2> QED
    BY <1>1, <1>3, <2>1 DEF SerialInv, vars, Service!svars
<1>4. ASSUME NEW c \in Callers, OneStatement(c) \/ BeginCall(c) \/ Step(c)
      PROVE  SerialInv' /\ [Service!Next]_(Service!svars)
  <2>1. \A d \in Callers : d = c
    BY DEF Serial
  <2>2. RowsOK' /\ \A d \in Callers : CallHolds(d)'
    BY <1>1, <1>4, <2>1, CallServes
  <2> QED
    BY <1>1, <1>4, <2>2, CallServes DEF SerialInv, Service!Next
<1> QED
  BY <1>2, <1>3, <1>4 DEF Next

(* A caller that waits for each answer, with a store that works, cannot tell *)
(* UsefulKey from a service that performs the call in one step on the        *)
(* current key: verification gives the first of the reasons against the key  *)
(* in the order of the code, or costs one use; a change is refused or        *)
(* changes one thing; reads and sweeps remove exactly what they take for     *)
(* expired; for every set of ids and plaintexts, every order of plugins,     *)
(* every expiry and every cutoff.                                            *)
THEOREM ImplementsKeyService ==
  ASSUME Serial
  PROVE  Spec => IsKeyService
<1>1. Init => Service!Init /\ SerialInv
  BY ServiceInit
<1>2. SerialInv /\ [Next]_vars => SerialInv' /\ [Service!Next]_(Service!svars)
  BY ServiceNext
<1> QED
  BY <1>1, <1>2, PTL DEF Spec, IsKeyService, Service!Spec
==============================================================================
