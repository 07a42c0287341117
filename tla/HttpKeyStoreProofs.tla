-------------------------- MODULE HttpKeyStoreProofs --------------------------
(***************************************************************************)
(* Proofs about HttpKeyStore for every set of calls, keys and APIs.        *)
(***************************************************************************)
EXTENDS HttpKeyStore, TLAPS

-----------------------------------------------------------------------------
(* What the methods expect, and what a request carries. *)

LEMMA ExpectedIs ==
  /\ /\ Len(Expected("createKey")) = 3
     /\ Expected("createKey")[1] = "201"
     /\ Expected("createKey")[2] = "200"
     /\ Expected("createKey")[3] = "204"
  /\ \A o \in {"updateKey", "revokeKeyById", "hardRemoveKeyById"} :
       /\ Len(Expected(o)) = 2 /\ Expected(o)[1] = "200" /\ Expected(o)[2] = "204"
  /\ \A o \in Finds : Len(Expected(o)) = 1 /\ Expected(o)[1] = "200"
<1>1. Expected("createKey") = <<"201", "200", "204">>
  BY DEF Expected, createKey
<1>2. \A o \in {"updateKey", "revokeKeyById", "hardRemoveKeyById"} : Expected(o) = <<"200", "204">>
  BY DEF Expected, updateKey, revokeKeyById, hardRemoveKeyById
<1>3. \A o \in Finds : Expected(o) = <<"200">>
  BY DEF Expected, Finds, findKey, findExpiredIds
<1> QED
  BY <1>1, <1>2, <1>3

LEMMA RequestIs ==
  ASSUME NEW q \in Request
  PROVE  /\ q.op \in Finds \cup Writes /\ q.id \in Ids
         /\ q.op = "createKey" => q.record = "active"
         /\ q.op = "updateKey" => q.record \in Records
BY DEF Request, Finds, Writes

LEMMA EffectIs ==
  ASSUME NEW q \in Request, remote \in Tables
  PROVE  /\ Effect(q) \in Tables
         /\ q.op \in Finds => Effect(q) = remote
         /\ q.op = "createKey" =>
              Effect(q)[q.id] = IF ~Absent(q) /\ server.refuses THEN remote[q.id] ELSE q.record
         /\ q.op = "updateKey" => Effect(q)[q.id] = IF Absent(q) THEN Null ELSE q.record
         /\ q.op = "revokeKeyById" => Effect(q)[q.id] = IF Absent(q) THEN Null ELSE "revoked"
         /\ q.op = "hardRemoveKeyById" => Effect(q)[q.id] = Null
         /\ q.op \in {"updateKey", "revokeKeyById"} /\ Absent(q) => Effect(q) = remote
<1>0. q.id \in Ids /\ q.op \in Finds \cup Writes
  BY RequestIs
<1>1. CASE q.op = "createKey"
  BY <1>0, <1>1, RequestIs DEF Effect, Tables, Records, Finds
<1>2. CASE q.op = "updateKey"
  BY <1>0, <1>2, RequestIs DEF Effect, Tables, Records, Finds, Absent
<1>3. CASE q.op = "revokeKeyById"
  BY <1>0, <1>3, RequestIs DEF Effect, Tables, Records, Finds, Absent
<1>4. CASE q.op = "hardRemoveKeyById"
  BY <1>0, <1>4, RequestIs DEF Effect, Tables, Records, Finds
<1>5. CASE q.op \in Finds
  BY <1>0, <1>5, RequestIs DEF Effect, Tables, Records, Finds, Writes
<1> QED
  BY <1>0, <1>1, <1>2, <1>3, <1>4, <1>5 DEF Writes

LEMMA EntriesTypes ==
  ASSUME NEW t \in Tables
  PROVE  Entries(t) \subseteq Ids \X Records
BY DEF Entries, Tables

-----------------------------------------------------------------------------
(* The inductive invariant, part by part. *)

VarTypes ==
  /\ server \in Servers /\ remote \in Tables /\ late \subseteq Request
  /\ phase \in [Callers -> {"idle", "sent", "answered", "reading"}]
  /\ request \in [Callers -> Request \cup {Null}]
  /\ attempt \in [Callers -> Nat]
  /\ response \in [Callers -> Response \cup {Null}]
  /\ outcome \in [Callers -> {"none", "done", "error"}]
  /\ result \in [Callers -> SUBSET (Ids \X Records)]
  /\ misled \in [Callers -> BOOLEAN]
  /\ during \in [Callers -> SUBSET Tables] /\ calm \in BOOLEAN

(* What a call carries in each phase; its history ends with the table of now, *)
(* and only the step that ends it is misled.                                  *)
CallOK(c) ==
  /\ phase[c] = "idle" <=> request[c] = Null
  /\ phase[c] \in {"answered", "reading"} <=> response[c] # Null
  /\ attempt[c] \in IF request[c] = Null THEN {0} ELSE 1..Len(Expected(request[c].op))
  /\ phase[c] # "idle" => remote \in during[c] /\ ~misled[c]

Types == VarTypes /\ \A c \in Callers : CallOK(c)

LEMMA TypesImplyTypeOK == ASSUME Types PROVE TypeOK
BY DEF Types, VarTypes, CallOK, TypeOK

LEMMA InitiallyTypes == ASSUME Init PROVE Types
<1>1. VarTypes
  BY DEF Init, VarTypes, Tables
<1>2. \A c \in Callers : CallOK(c)
  BY DEF Init, CallOK
<1> QED
  BY <1>1, <1>2 DEF Types

-----------------------------------------------------------------------------
(* The attempts a call may be at. *)

LEMMA AttemptIs ==
  ASSUME Types, NEW c \in Callers, phase[c] # "idle"
  PROVE  /\ request[c] \in Request
         /\ request[c].op = "createKey" => attempt[c] \in 1..3
         /\ request[c].op \in {"updateKey", "revokeKeyById", "hardRemoveKeyById"} =>
              attempt[c] \in 1..2
         /\ request[c].op \in Finds => attempt[c] = 1
<1>1. request[c] \in Request /\ attempt[c] \in Nat /\ CallOK(c) /\ request[c] # Null
  BY DEF Types, VarTypes, CallOK
<1>2. attempt[c] \in 1..Len(Expected(request[c].op))
  BY <1>1 DEF CallOK
<1>3. ASSUME NEW n \in Nat, Len(Expected(request[c].op)) = n PROVE attempt[c] \in 1..n
  BY <1>2, <1>3
<1>4. request[c].op = "createKey" => attempt[c] \in 1..3
  BY <1>3, ExpectedIs
<1>5. request[c].op \in {"updateKey", "revokeKeyById", "hardRemoveKeyById"} => attempt[c] \in 1..2
  BY <1>3, ExpectedIs
<1>6. request[c].op \in Finds => attempt[c] \in 1..1
  BY <1>3, ExpectedIs
<1> QED
  BY <1>1, <1>4, <1>5, <1>6

(* The ways a call changes. *)

Retries(c) ==
  /\ attempt[c] < Len(Expected(request[c].op))
  /\ attempt' = [attempt EXCEPT ![c] = @ + 1]
  /\ phase' = [phase EXCEPT ![c] = "sent"]
  /\ response' = [response EXCEPT ![c] = Null]
  /\ UNCHANGED <<request, outcome, result, misled>>

LEMMA AttemptFailsIs ==
  ASSUME NEW c, NEW s, AttemptFails(c, s)
  PROVE  \/ Retries(c)
         \/ /\ attempt[c] = Len(Expected(request[c].op))
            /\ End(c, IF NotFound(request[c].op, s) THEN "done" ELSE "error", {})
            /\ misled' = [misled EXCEPT ![c] = request[c].op = "findKey" /\ s = "500 404"]
BY DEF AttemptFails, Retries

(* Nothing else of the call or of others changes. *)
LEMMA RetriesKeepTypes ==
  ASSUME Types, NEW c \in Callers, phase[c] # "idle", Retries(c),
         UNCHANGED <<server, remote, during>>, late' \subseteq Request, calm' \in BOOLEAN
  PROVE  Types'
<1>0. VarTypes /\ \A d \in Callers : CallOK(d)
  BY DEF Types
<1>1. VarTypes'
  BY <1>0 DEF VarTypes, Retries
<1>2. ASSUME NEW d \in Callers PROVE CallOK(d)'
  <2>0. CallOK(d) /\ CallOK(c)
    BY <1>0
  <2>1. CASE d = c
    <3>1. request[c] # Null /\ request[c] \in Request
      BY <1>0, <2>0 DEF CallOK, VarTypes
    <3>2. Len(Expected(request[c].op)) \in Nat
      BY <3>1, ExpectedIs, RequestIs DEF Writes
    <3>3. attempt'[d] = attempt[c] + 1 /\ phase'[d] = "sent" /\ response'[d] = Null
      BY <1>0, <2>1 DEF Retries, VarTypes
    <3>4. attempt[c] \in 1..Len(Expected(request[c].op))
      BY <2>0, <3>1 DEF CallOK
    <3>5. attempt'[d] \in 1..Len(Expected(request[c].op))
      BY <3>2, <3>3, <3>4 DEF Retries
    <3> QED
      BY <2>0, <2>1, <3>1, <3>3, <3>5 DEF CallOK, Retries
  <2>2. CASE d # c
    BY <1>0, <2>0, <2>2 DEF CallOK, Retries, VarTypes
  <2> QED
    BY <2>1, <2>2
<1> QED
  BY <1>1, <1>2 DEF Types

LEMMA EndKeepsTypes ==
  ASSUME Types, NEW c \in Callers, NEW how \in {"done", "error"},
         NEW entries \in SUBSET (Ids \X Records), End(c, how, entries),
         misled' \in [Callers -> BOOLEAN], \A d \in Callers \ {c} : misled'[d] = misled[d],
         UNCHANGED <<server, remote, during>>, late' \subseteq Request, calm' \in BOOLEAN
  PROVE  Types'
<1>0. VarTypes /\ \A d \in Callers : CallOK(d)
  BY DEF Types
<1>1. VarTypes'
  BY <1>0 DEF VarTypes, End
<1>2. \A d \in Callers : CallOK(d)'
  BY <1>0 DEF VarTypes, CallOK, End
<1> QED
  BY <1>1, <1>2 DEF Types

LEMMA AttemptFailsKeepsTypes ==
  ASSUME Types, NEW c \in Callers, phase[c] # "idle", NEW s, AttemptFails(c, s),
         UNCHANGED <<server, remote, during>>, late' \subseteq Request, calm' \in BOOLEAN
  PROVE  Types'
<1>1. CASE Retries(c)
  BY <1>1, RetriesKeepTypes
<1>2. CASE ~Retries(c)
  <2>1. /\ End(c, IF NotFound(request[c].op, s) THEN "done" ELSE "error", {})
        /\ misled' = [misled EXCEPT ![c] = request[c].op = "findKey" /\ s = "500 404"]
    BY <1>2, AttemptFailsIs
  <2>2. misled' \in [Callers -> BOOLEAN] /\ \A d \in Callers \ {c} : misled'[d] = misled[d]
    BY <2>1 DEF Types, VarTypes
  <2> QED
    BY <2>1, <2>2, EndKeepsTypes
<1> QED
  BY <1>1, <1>2

(* A request executed, or a table shown, reaches the history of every call.  *)
LEMMA ShowGrows ==
  ASSUME Types, NEW t \in Tables, Show(t)
  PROVE  /\ during' \in [Callers -> SUBSET Tables]
         /\ \A c \in Callers : phase[c] # "idle" => during[c] \subseteq during'[c] /\ t \in during'[c]
BY DEF Types, VarTypes, Show

LEMMA RespondsKeepsTypes ==
  ASSUME Types, NEW c \in Callers, NEW s \in Statuses, NEW p \in SUBSET (Ids \X Records),
         Responds(c, s, p), calm' \in BOOLEAN,
         Execute(request[c]) \/ UNCHANGED <<remote, during>>
  PROVE  Types'
<1>0. VarTypes /\ \A d \in Callers : CallOK(d)
  BY DEF Types
<1>1. request[c] \in Request
  BY <1>0 DEF VarTypes, CallOK, Responds
<1>2. remote' \in Tables /\ during' \in [Callers -> SUBSET Tables]
      /\ \A d \in Callers : phase[d] # "idle" => remote' \in during'[d]
  <2>1. CASE Execute(request[c])
    BY <1>0, <1>1, <2>1, EffectIs, ShowGrows DEF Execute, VarTypes
  <2>2. CASE UNCHANGED <<remote, during>>
    BY <1>0, <2>2 DEF VarTypes, CallOK
  <2> QED
    BY <2>1, <2>2
<1>3. VarTypes'
  <2>1. [status |-> s, entries |-> p] \in Response
    BY DEF Response
  <2> QED
    BY <1>0, <1>2, <2>1 DEF VarTypes, Responds
<1>4. ASSUME NEW d \in Callers PROVE CallOK(d)'
  <2>1. [status |-> s, entries |-> p] # Null
    BY NullIsNothing DEF Response
  <2> QED
    BY <1>0, <1>2, <2>1 DEF VarTypes, CallOK, Responds
<1> QED
  BY <1>3, <1>4 DEF Types

LEMMA ServeAnswers ==
  ASSUME Types, NEW c \in Callers, phase[c] = "sent",
         NEW s \in Answers(request[c]), NEW p \in Payloads(request[c])
  PROVE  s \in Statuses /\ p \in SUBSET (Ids \X Records)
<1>1. request[c] \in Request /\ remote \in Tables /\ server \in API
  BY HttpAssumption DEF Types, VarTypes, CallOK
<1>2. s \in Statuses
  BY <1>1, RequestIs DEF Answers, Statuses, API, Finds, Writes
<1>3. p \in SUBSET (Ids \X Records)
  BY <1>1, RequestIs, EntriesTypes DEF Payloads, Finds, Writes
<1> QED
  BY <1>2, <1>3

LEMMA TypesKept ==
  ASSUME Types, Next
  PROVE  Types'
<1>0. VarTypes /\ \A c \in Callers : CallOK(c)
  BY DEF Types
<1>1. CASE ServeLate
  <2>1. PICK q \in late : Execute(q) /\ late' = late \ {q}
    BY <1>1 DEF ServeLate
  <2>2. q \in Request /\ remote \in Tables
    BY <1>0 DEF VarTypes
  <2>3. remote' \in Tables /\ Show(remote')
    BY <2>1, <2>2, EffectIs DEF Execute
  <2> QED
    BY <1>0, <1>1, <2>1, <2>3, ShowGrows DEF ServeLate, Types, VarTypes, CallOK
<1>2. ASSUME NEW c \in Callers, Call(c) PROVE Types'
  <2>1. PICK q \in Request : request' = [request EXCEPT ![c] = q]
    BY <1>2 DEF Call
  <2>2. q # Null /\ 1 \in 1..Len(Expected(q.op))
    BY ExpectedIs, RequestIs, NullIsNothing DEF Writes
  <2>3. VarTypes'
    BY <1>0, <1>2, <2>1 DEF Call, VarTypes
  <2>4. ASSUME NEW d \in Callers PROVE CallOK(d)'
    BY <1>0, <1>2, <2>1, <2>2 DEF Call, VarTypes, CallOK
  <2> QED
    BY <2>3, <2>4 DEF Types
<1>3. ASSUME NEW c \in Callers, Serve(c) PROVE Types'
  BY <1>0, <1>3, ServeAnswers, RespondsKeepsTypes DEF Serve, VarTypes
<1>4. ASSUME NEW c \in Callers, ServeFails(c) PROVE Types'
  <2>1. PICK s \in Failures : Responds(c, s, {})
    BY <1>4 DEF ServeFails
  <2>2. s \in Statuses /\ {} \in SUBSET (Ids \X Records)
    BY DEF Statuses
  <2>3. calm' \in BOOLEAN /\ (Execute(request[c]) \/ UNCHANGED <<remote, during>>)
    BY <1>4 DEF ServeFails
  <2> QED
    BY <2>1, <2>2, <2>3, RespondsKeepsTypes
<1>5. ASSUME NEW c \in Callers, NEW s, GivenUp(c, s) PROVE Types'
  <2>1. late' \subseteq Request /\ phase[c] # "idle"
    BY <1>0, <1>5 DEF GivenUp, VarTypes, CallOK
  <2> QED
    BY <1>5, <2>1, AttemptFailsKeepsTypes DEF GivenUp
<1>6. ASSUME NEW c \in Callers, Receive(c) PROVE Types'
  <2>1. CASE Acceptable(c) /\ request[c].op \in Writes
    BY <1>0, <1>6, <2>1, EndKeepsTypes DEF Receive, VarTypes, ghosts
  <2>2. CASE ~(Acceptable(c) /\ request[c].op \in Writes)
    BY <1>0, <1>6, <2>2 DEF Receive, Types, VarTypes, CallOK, ghosts
  <2> QED
    BY <2>1, <2>2
<1>7. ASSUME NEW c \in Callers, Read(c) PROVE Types'
  <2>0. phase[c] # "idle" /\ late' \subseteq Request /\ calm' \in BOOLEAN
    BY <1>0, <1>7 DEF Read, VarTypes
  <2>1. response[c].entries \in SUBSET (Ids \X Records)
    BY <1>0, <1>7 DEF Read, VarTypes, CallOK, Response
  <2>2. CASE End(c, "done", response[c].entries) /\ UNCHANGED misled
    BY <1>0, <1>7, <2>0, <2>1, <2>2, EndKeepsTypes DEF Read, VarTypes
  <2>3. ASSUME NEW s, AttemptFails(c, s) PROVE Types'
    BY <1>7, <2>0, <2>3, AttemptFailsKeepsTypes DEF Read
  <2> QED
    BY <1>7, <2>2, <2>3 DEF Read
<1> QED
  BY <1>1, <1>2, <1>3, <1>4, <1>5, <1>6, <1>7 DEF Next, Adapter, FetchRejects, TimesOut

-----------------------------------------------------------------------------
(* What an answer proves about the tables of the call, and, while calls wait *)
(* for each other and nothing fails, about the table of now.                 *)

Success == {"200", "201", "204"}

Asked(q, t) == {e \in Entries(t) : e[1] = q.id}

(* The answer a to the request q is true of one of the tables. *)
TrueOf(q, a, tables) ==
  a # Null =>
    /\ q.op \in Writes /\ a.status \in Success => \E t \in tables : Written(q, t)
    /\ q.op = "findKey" /\ a.status \in {"200", "404"} =>
         \E t \in tables : a.entries = Asked(q, t)
    /\ q.op = "findKey" /\ a.status = "404" => a.entries = {}
    /\ q.op = "findExpiredIds" /\ a.status = "200" =>
         \E t \in tables : a.entries \subseteq Entries(t)

AnswerOK(c) == TrueOf(request[c], response[c], during[c])

Alone ==
  /\ late = {}
  /\ \A c, d \in Callers : phase[c] # "idle" /\ phase[d] # "idle" => c = d

CalmAnswer(c) ==
  LET q == request[c] IN
  response[c] # Null /\ q.op \in Writes /\ response[c].status \in Success => Written(q, remote)

(* An API that minds no repetition: what an attempt shows about the next.    *)
CalmAttempt(c) ==
  LET q == request[c]
      Answered(s) == response[c] # Null => response[c].status = s
  IN  /\ q.op = "createKey" =>
           /\ Answered(server.created)
           /\ attempt[c] >= 2 => server.created # "201"
           /\ attempt[c] >= 3 => server.created # "200"
      /\ q.op = "hardRemoveKeyById" =>
           Answered(server.done) /\ (attempt[c] >= 2 => server.done # "200")
      /\ q.op \in {"updateKey", "revokeKeyById"} =>
           /\ Answered(IF Absent(q) THEN "404" ELSE server.done)
           /\ Absent(q) => during[c] = {remote}
           /\ ~Absent(q) /\ attempt[c] >= 2 => server.done # "200"
      /\ q.op = "findExpiredIds" => Answered("200")
      /\ q.op = "findKey" /\ response[c] # Null => response[c].status \in {"200", "404"}

CalmOK ==
  calm => /\ Alone
          /\ \A c \in Callers : phase[c] # "idle" =>
               CalmAnswer(c) /\ (~server.refuses => CalmAttempt(c))

IInv == Types /\ (\A c \in Callers : AnswerOK(c)) /\ CalmOK

LEMMA InvTypes == ASSUME IInv PROVE Types
BY DEF IInv

LEMMA Initially == ASSUME Init PROVE IInv
BY InitiallyTypes DEF Init, IInv, AnswerOK, TrueOf, CalmOK, Alone

-----------------------------------------------------------------------------
(* Answers stay true: histories grow. *)

LEMMA TrueOfMore ==
  ASSUME NEW q, NEW a, NEW tables, NEW more, TrueOf(q, a, tables), tables \subseteq more
  PROVE  TrueOf(q, a, more)
BY DEF TrueOf

LEMMA AnswerStays ==
  ASSUME Types, NEW c \in Callers, AnswerOK(c),
         request'[c] = request[c], response'[c] = response[c],
         phase[c] # "idle" => during[c] \subseteq during'[c]
  PROVE  AnswerOK(c)'
<1>1. CASE response[c] = Null
  BY <1>1 DEF AnswerOK, TrueOf
<1>2. CASE response[c] # Null
  <2>1. during[c] \subseteq during'[c]
    BY <1>2 DEF Types, CallOK
  <2> QED
    BY <2>1, TrueOfMore DEF AnswerOK
<1> QED
  BY <1>1, <1>2

LEMMA ServedIsTrue ==
  ASSUME Types, NEW c \in Callers, phase[c] = "sent", Execute(request[c]),
         NEW s \in Answers(request[c]), NEW p \in Payloads(request[c]),
         Responds(c, s, p)
  PROVE  AnswerOK(c)'
<1> DEFINE q == request[c]
<1>0. q \in Request /\ remote \in Tables /\ server \in API
  BY HttpAssumption DEF Types, VarTypes, CallOK
<1>1. /\ request'[c] = q /\ response'[c] = [status |-> s, entries |-> p]
      /\ remote' = Effect(q) /\ remote' \in during'[c] /\ remote \in during'[c]
  <2>1. remote' = Effect(q) /\ remote' \in Tables /\ Show(remote')
    BY <1>0, EffectIs DEF Execute
  <2>2. remote' \in during'[c] /\ during[c] \subseteq during'[c]
    BY <2>1, ShowGrows
  <2> QED
    BY <2>1, <2>2 DEF Responds, Types, VarTypes, CallOK
<1>2. ASSUME q.op \in Writes, s \in Success PROVE Written(q, remote')
  <2>1. q.op = "createKey" => ~(~Absent(q) /\ server.refuses)
    BY <1>2 DEF Answers, Success
  <2>2. q.op \in {"updateKey", "revokeKeyById"} => ~Absent(q)
    BY <1>2 DEF Answers, Success
  <2> QED
    BY <1>0, <1>1, <1>2, <2>1, <2>2, EffectIs DEF Written, Writes
<1>3. ASSUME q.op = "findKey" PROVE p = Asked(q, remote)
  BY <1>3 DEF Payloads, Asked, Writes
<1>4. ASSUME q.op = "findKey", s = "404" PROVE p = {}
  <2>1. Absent(q)
    BY <1>4 DEF Answers
  <2> QED
    BY <1>3, <1>4, <2>1 DEF Asked, Entries, Absent
<1>5. ASSUME q.op = "findExpiredIds" PROVE p \subseteq Entries(remote)
  BY <1>5 DEF Payloads, Writes
<1>6. TrueOf(q, [status |-> s, entries |-> p], {remote, remote'})
  BY <1>2, <1>3, <1>4, <1>5 DEF TrueOf
<1>7. TrueOf(q, [status |-> s, entries |-> p], during'[c])
  BY <1>1, <1>6, TrueOfMore
<1> QED
  BY <1>1, <1>7 DEF AnswerOK

LEMMA AnswersKept ==
  ASSUME IInv, Next
  PROVE  \A d \in Callers : AnswerOK(d)'
<1>0. VarTypes /\ Types /\ \A c \in Callers : CallOK(c) /\ AnswerOK(c)
  BY DEF IInv, Types
<1> SUFFICES ASSUME NEW d \in Callers PROVE AnswerOK(d)'
  OBVIOUS
<1>d. ASSUME request'[d] = request[d], response'[d] = response[d],
             phase[d] # "idle" => during[d] \subseteq during'[d]
      PROVE  AnswerOK(d)'
  BY <1>0, <1>d, AnswerStays
<1>n. ASSUME response'[d] = Null PROVE AnswerOK(d)'
  BY <1>n DEF AnswerOK, TrueOf
<1>e. ASSUME NEW q \in Request, Execute(q)
      PROVE  phase[d] # "idle" => during[d] \subseteq during'[d]
  BY <1>0, <1>e, EffectIs, ShowGrows DEF Execute, VarTypes
<1>1. CASE ServeLate
  <2>1. PICK q \in late : Execute(q) /\ late' = late \ {q}
    BY <1>1 DEF ServeLate
  <2> QED
    BY <1>0, <1>1, <1>d, <1>e, <2>1 DEF ServeLate, VarTypes
<1>2. ASSUME NEW c \in Callers, Call(c) PROVE AnswerOK(d)'
  <2>1. CASE d = c
    BY <1>0, <1>2, <1>n, <2>1 DEF Call, CallOK
  <2>2. CASE d # c
    BY <1>0, <1>2, <1>d, <2>2 DEF Call, VarTypes
  <2> QED
    BY <2>1, <2>2
<1>3. ASSUME NEW c \in Callers, Serve(c) PROVE AnswerOK(d)'
  <2>0. request[c] \in Request
    BY <1>0, <1>3 DEF Serve, VarTypes, CallOK
  <2>1. CASE d = c
    BY <1>0, <1>3, <2>1, ServedIsTrue DEF Serve
  <2>2. CASE d # c
    BY <1>0, <1>3, <1>d, <1>e, <2>0, <2>2 DEF Serve, Responds, VarTypes
  <2> QED
    BY <2>1, <2>2
<1>4. ASSUME NEW c \in Callers, ServeFails(c) PROVE AnswerOK(d)'
  <2>0. PICK s \in Failures : Responds(c, s, {})
    BY <1>4 DEF ServeFails
  <2>1. CASE d = c
    <3>1. response'[c].status \notin Success \cup {"404"}
      BY <1>0, <2>0, HttpAssumption DEF Responds, VarTypes, Success
    <3> QED
      BY <2>1, <3>1 DEF AnswerOK, TrueOf, Success
  <2>2. CASE d # c
    <3>1. request[c] \in Request
      BY <1>0, <2>0 DEF Responds, VarTypes, CallOK
    <3>2. phase[d] # "idle" => during[d] \subseteq during'[d]
      BY <1>4, <1>e, <3>1 DEF ServeFails
    <3> QED
      BY <1>0, <1>d, <2>0, <2>2, <3>2 DEF Responds, VarTypes
  <2> QED
    BY <2>1, <2>2
<1>a. ASSUME NEW c \in Callers, NEW s, AttemptFails(c, s), during' = during PROVE AnswerOK(d)'
  <2>1. CASE d = c
    BY <1>0, <1>a, <1>n, <2>1 DEF AttemptFails, End, VarTypes
  <2>2. CASE d # c
    BY <1>0, <1>a, <1>d, <2>2 DEF AttemptFails, End, VarTypes
  <2> QED
    BY <2>1, <2>2
<1>5. ASSUME NEW c \in Callers, NEW how, NEW entries, End(c, how, entries), during' = during
      PROVE  AnswerOK(d)'
  <2>1. CASE d = c
    BY <1>0, <1>5, <1>n, <2>1 DEF End, VarTypes
  <2>2. CASE d # c
    BY <1>0, <1>5, <1>d, <2>2 DEF End, VarTypes
  <2> QED
    BY <2>1, <2>2
<1>6. ASSUME NEW c \in Callers, Receive(c) PROVE AnswerOK(d)'
  <2>1. CASE End(c, "done", {})
    BY <1>5, <1>6, <2>1 DEF Receive, ghosts
  <2>2. CASE UNCHANGED <<request, attempt, response, outcome, result>>
    BY <1>6, <1>d, <2>2 DEF Receive, ghosts
  <2> QED
    BY <1>6, <2>1, <2>2 DEF Receive
<1>7. ASSUME NEW c \in Callers, Read(c) PROVE AnswerOK(d)'
  BY <1>7, <1>a, <1>5 DEF Read
<1> QED
  BY <1>1, <1>2, <1>3, <1>4, <1>a, <1>6, <1>7
     DEF Next, Adapter, FetchRejects, TimesOut, GivenUp

-----------------------------------------------------------------------------
(* Calls that wait for each other. *)

(* The server answers the only call.                                         *)
LEMMA CalmServe ==
  ASSUME IInv, calm, NEW c \in Callers, Serve(c)
  PROVE  CalmAnswer(c)' /\ (~server'.refuses => CalmAttempt(c)')
<1> DEFINE q == request[c]
<1>0. Types /\ VarTypes /\ CallOK(c) /\ phase[c] = "sent" /\ server \in API
  BY HttpAssumption DEF IInv, Types, VarTypes, Serve
<1>1. q \in Request /\ remote \in Tables
  BY <1>0 DEF VarTypes, CallOK
<1>2. PICK s \in Answers(q), p \in Payloads(q) : Responds(c, s, p)
  BY DEF Serve
<1>3. /\ request'[c] = q /\ attempt'[c] = attempt[c] /\ server' = server
      /\ response'[c] = [status |-> s, entries |-> p] /\ response'[c] # Null
  BY <1>0, <1>2, NullIsNothing, ServeAnswers DEF Responds, VarTypes, Response
<1>4. remote' = Effect(q) /\ during'[c] = during[c] \cup {remote'}
  BY <1>0 DEF Serve, Execute, Show, VarTypes
<1>5. CalmAnswer(c)'
  <2> SUFFICES ASSUME q.op \in Writes, s \in Success PROVE Written(q, remote')
    BY <1>3 DEF CalmAnswer
  <2>1. q.op = "createKey" => ~(~Absent(q) /\ server.refuses)
    BY DEF Answers, Success
  <2>2. q.op \in {"updateKey", "revokeKeyById"} => ~Absent(q)
    BY DEF Answers, Success
  <2> QED
    BY <1>1, <1>4, <2>1, <2>2, EffectIs DEF Written, Writes
<1>6. ASSUME ~server.refuses PROVE CalmAttempt(c)'
  <2>0. CalmAttempt(c)
    BY <1>0, <1>6 DEF IInv, CalmOK
  <2>1. CASE q.op = "createKey"
    <3>1. s = server.created
      BY <1>6, <2>1 DEF Answers
    <3> QED
      BY <1>3, <2>0, <2>1, <3>1 DEF CalmAttempt
  <2>2. CASE q.op = "hardRemoveKeyById"
    <3>1. s = server.done
      BY <1>6, <2>2 DEF Answers
    <3> QED
      BY <1>3, <2>0, <2>2, <3>1 DEF CalmAttempt
  <2>3. CASE q.op \in {"updateKey", "revokeKeyById"}
    <3>1. s = IF Absent(q) THEN "404" ELSE server.done
      BY <2>3 DEF Answers
    <3>2. CASE Absent(q)
      <4>1. remote' = remote
        BY <1>1, <1>4, <2>3, <3>2, EffectIs
      <4>2. during[c] = {remote}
        BY <2>0, <2>3, <3>2 DEF CalmAttempt
      <4> QED
        BY <1>3, <1>4, <2>3, <3>1, <3>2, <4>1, <4>2 DEF CalmAttempt, Absent
    <3>3. CASE ~Absent(q)
      <4>1. remote'[q.id] # Null
        BY <1>1, <1>4, <2>3, <3>3, EffectIs, RequestIs, NullIsNothing DEF Records
      <4> QED
        BY <1>3, <2>0, <2>3, <3>1, <3>3, <4>1 DEF CalmAttempt, Absent
    <3> QED
      BY <3>2, <3>3
  <2>4. CASE q.op \in Finds
    <3>1. /\ q.op = "findExpiredIds" => s = "200"
          /\ q.op = "findKey" => s \in {"200", "404"}
      BY <2>4 DEF Answers
    <3> QED
      BY <1>3, <2>4, <3>1 DEF CalmAttempt, Finds
  <2> QED
    BY <1>1, <2>1, <2>2, <2>3, <2>4, RequestIs DEF Writes
<1> QED
  BY <1>3, <1>5, <1>6

(* The next attempt of the only call. *)
LEMMA CalmRetry ==
  ASSUME IInv, calm, NEW c \in Callers, phase[c] = "reading", ~Acceptable(c), Retries(c),
         UNCHANGED <<server, remote, during>>
  PROVE  CalmAnswer(c)' /\ (~server'.refuses => CalmAttempt(c)')
<1> DEFINE q == request[c]
<1>0. Types /\ VarTypes /\ CallOK(c) /\ response[c] # Null /\ server \in API
  BY HttpAssumption DEF IInv, Types, VarTypes, CallOK
<1>1. /\ q \in Request /\ attempt[c] \in Nat /\ attempt[c] >= 1
      /\ attempt[c] <= Len(Expected(q.op))
  BY <1>0 DEF VarTypes, CallOK
<1>2. /\ request'[c] = q /\ attempt'[c] = attempt[c] + 1 /\ response'[c] = Null
      /\ attempt[c] < Len(Expected(q.op)) /\ Absent(q)' = Absent(q)
  BY <1>0 DEF Retries, VarTypes, Absent
<1>3. CalmAnswer(c)'
  BY <1>2 DEF CalmAnswer
<1>4. ASSUME ~server.refuses PROVE CalmAttempt(c)'
  <2>0. CalmAttempt(c) /\ response[c].status # Expected(q.op)[attempt[c]]
    BY <1>4 DEF IInv, CalmOK, Acceptable
  <2>1. CASE q.op = "createKey"
    <3>1. response[c].status = server.created
      BY <1>0, <2>0, <2>1 DEF CalmAttempt
    <3>0. Len(Expected(q.op)) = 3
      BY <2>1, ExpectedIs
    <3>2. attempt[c] \in 1..2
      BY <1>1, <1>2, <3>0
    <3>3. /\ attempt[c] = 1 => server.created # "201"
          /\ attempt[c] = 2 => server.created # "201" /\ server.created # "200"
      BY <2>0, <2>1, <3>1, ExpectedIs DEF CalmAttempt
    <3> QED
      BY <1>2, <2>1, <3>2, <3>3 DEF CalmAttempt
  <2>2. CASE q.op = "hardRemoveKeyById"
    <3>0. Len(Expected(q.op)) = 2
      BY <2>2, ExpectedIs
    <3>1. attempt[c] = 1
      BY <1>1, <1>2, <3>0
    <3>2. server.done # "200"
      BY <1>0, <2>0, <2>2, <3>1, ExpectedIs DEF CalmAttempt
    <3> QED
      BY <1>2, <2>2, <3>1, <3>2 DEF CalmAttempt
  <2>3. CASE q.op \in {"updateKey", "revokeKeyById"}
    <3>0. Len(Expected(q.op)) = 2
      BY <2>3, ExpectedIs
    <3>1. attempt[c] = 1
      BY <1>1, <1>2, <3>0
    <3>2. ~Absent(q) => server.done # "200"
      BY <1>0, <2>0, <2>3, <3>1, ExpectedIs DEF CalmAttempt
    <3> QED
      BY <1>2, <2>0, <2>3, <3>1, <3>2 DEF CalmAttempt, Absent
  <2>4. CASE q.op \in Finds
    <3>1. Len(Expected(q.op)) = 1
      BY <2>4, ExpectedIs
    <3> QED
      BY <1>1, <1>2, <3>1
  <2> QED
    BY <1>1, <2>1, <2>2, <2>3, <2>4, RequestIs DEF Writes
<1> QED
  BY <1>3, <1>4

LEMMA CalmKept ==
  ASSUME IInv, Next
  PROVE  CalmOK'
<1>0. Types /\ VarTypes /\ CalmOK /\ \A c \in Callers : CallOK(c)
  BY DEF IInv, Types
<1> SUFFICES ASSUME calm'
             PROVE  /\ Alone'
                    /\ \A d \in Callers : phase'[d] # "idle" =>
                         CalmAnswer(d)' /\ (~server'.refuses => CalmAttempt(d)')
  BY DEF CalmOK
<1> DEFINE Goal == /\ Alone'
                   /\ \A d \in Callers : phase'[d] # "idle" =>
                        CalmAnswer(d)' /\ (~server'.refuses => CalmAttempt(d)')
<1>a. ASSUME NEW c \in Callers, calm, phase[c] # "idle", late' = late,
             \A d \in Callers \ {c} : phase'[d] = phase[d],
             phase'[c] # "idle" => CalmAnswer(c)' /\ (~server'.refuses => CalmAttempt(c)')
      PROVE  Goal
  <2>1. Alone
    BY <1>0, <1>a DEF CalmOK
  <2>2. \A d \in Callers : phase'[d] # "idle" => d = c
    BY <1>a, <2>1 DEF Alone
  <2> QED
    BY <1>a, <2>1, <2>2 DEF Alone
<1>1. CASE ServeLate
  BY <1>0, <1>1 DEF ServeLate, CalmOK, Alone
<1>2. ASSUME NEW c \in Callers, Call(c) PROVE Goal
  <2>1. calm /\ \A d \in Callers : phase[d] = "idle"
    BY <1>2 DEF Call
  <2>2. /\ attempt'[c] = 1 /\ response'[c] = Null /\ during'[c] = {remote'}
        /\ \A d \in Callers \ {c} : phase'[d] = "idle"
    BY <1>0, <1>2, <2>1 DEF Call, VarTypes, CallOK
  <2>3. CalmAnswer(c)' /\ CalmAttempt(c)'
    BY <2>2 DEF CalmAnswer, CalmAttempt
  <2> QED
    BY <1>0, <1>2, <2>1, <2>2, <2>3 DEF Call, CalmOK, Alone
<1>3. ASSUME NEW c \in Callers, Serve(c) PROVE Goal
  <2>1. calm /\ late' = late /\ phase[c] # "idle" /\ \A d \in Callers \ {c} : phase'[d] = phase[d]
    BY <1>0, <1>3 DEF Serve, Responds, VarTypes
  <2> QED
    BY <1>3, <1>a, <2>1, CalmServe
<1>4. ASSUME NEW c \in Callers, NEW s, ServeFails(c) \/ GivenUp(c, s) PROVE Goal
  BY <1>4 DEF ServeFails, GivenUp
<1>e. ASSUME NEW c \in Callers, calm, phase[c] # "idle", late' = late,
             NEW how, NEW entries, End(c, how, entries)
      PROVE  Goal
  <2>1. phase'[c] = "idle" /\ \A d \in Callers \ {c} : phase'[d] = phase[d]
    BY <1>0, <1>e DEF End, VarTypes
  <2> QED
    BY <1>e, <1>a, <2>1
<1>6. ASSUME NEW c \in Callers, Receive(c) PROVE Goal
  <2>1. calm /\ late' = late /\ phase[c] # "idle"
    BY <1>6 DEF Receive, ghosts
  <2>2. CASE Acceptable(c) /\ request[c].op \in Writes
    BY <1>6, <1>e, <2>1, <2>2 DEF Receive
  <2>3. CASE ~(Acceptable(c) /\ request[c].op \in Writes)
    <3>1. UNCHANGED <<server, remote, request, attempt, response, during>>
      BY <1>6, <2>3 DEF Receive, ghosts
    <3>2. CalmAnswer(c) /\ (~server.refuses => CalmAttempt(c))
      BY <1>0, <2>1 DEF CalmOK
    <3>3. CalmAnswer(c)' /\ (~server'.refuses => CalmAttempt(c)')
      BY <3>1, <3>2 DEF CalmAnswer, CalmAttempt, Absent
    <3>4. \A d \in Callers \ {c} : phase'[d] = phase[d]
      BY <1>0, <1>6, <2>3 DEF Receive, VarTypes
    <3> QED
      BY <1>a, <2>1, <3>3, <3>4
  <2> QED
    BY <2>2, <2>3
<1>7. ASSUME NEW c \in Callers, Read(c) PROVE Goal
  <2>1. calm /\ late' = late /\ phase[c] = "reading" /\ UNCHANGED <<server, remote, during>>
    BY <1>7 DEF Read
  <2>2. CASE End(c, "done", response[c].entries)
    BY <1>e, <2>1, <2>2
  <2>3. CASE ~Acceptable(c) /\ AttemptFails(c, response[c].status)
    <3>1. CASE Retries(c)
      <4>1. \A d \in Callers \ {c} : phase'[d] = phase[d]
        BY <1>0, <3>1 DEF Retries, VarTypes
      <4> QED
        BY <1>a, <2>1, <2>3, <3>1, <4>1, CalmRetry
    <3>2. CASE ~Retries(c)
      BY <1>e, <2>1, <2>3, <3>2, AttemptFailsIs
    <3> QED
      BY <3>1, <3>2
  <2> QED
    BY <1>7, <2>1, <2>2, <2>3 DEF Read
<1> QED
  BY <1>1, <1>2, <1>3, <1>4, <1>6, <1>7 DEF Next, Adapter, FetchRejects, TimesOut

LEMMA Invariance == Spec => []IInv
<1>1. Init => IInv
  BY Initially
<1>2. IInv /\ [Next]_vars => IInv'
  <2> SUFFICES ASSUME IInv, [Next]_vars PROVE IInv'
    OBVIOUS
  <2>1. CASE Next
    BY <2>1, TypesKept, AnswersKept, CalmKept DEF IInv
  <2>2. CASE UNCHANGED vars
    BY <2>2 DEF vars, ghosts, IInv, Types, VarTypes, CallOK, AnswerOK, CalmOK, Alone,
                CalmAnswer, CalmAttempt, Absent
  <2> QED
    BY <2>1, <2>2
<1> QED
  BY <1>1, <1>2, PTL DEF Spec

-----------------------------------------------------------------------------
(* The type invariant: phases, requests, attempts and answers belong         *)
(* together.                                                                 *)
THEOREM TypeCorrect == Spec => []TypeOK
BY Invariance, InvTypes, TypesImplyTypeOK, PTL

(* How a call may end.                                                       *)
LEMMA EndsBy ==
  ASSUME IInv, Next, NEW c \in Callers, NEW how, Ends(c, how)
  PROVE  \/ /\ Receive(c) /\ Acceptable(c) /\ request[c].op \in Writes
            /\ how = "done" /\ calm' = calm
         \/ /\ Read(c) /\ Acceptable(c) /\ how = "done" /\ result'[c] = response[c].entries
            /\ ~misled'[c]
         \/ /\ Read(c) /\ ~Acceptable(c)
            /\ attempt[c] = Len(Expected(request[c].op)) /\ calm' = calm
            /\ result'[c] = {}
            /\ misled'[c] = (request[c].op = "findKey" /\ response[c].status = "500 404")
            /\ \/ how = "done" /\ NotFound(request[c].op, response[c].status)
               \/ how = "error" /\ ~NotFound(request[c].op, response[c].status)
         \/ how = "error" /\ ~calm'
         \/ /\ how = "done" /\ ~calm' /\ result'[c] = {} /\ misled'[c]
            /\ request[c].op = "findKey"
<1>0. Types /\ VarTypes /\ \A d \in Callers : CallOK(d)
  BY DEF IInv, Types
<1>o. phase[c] # "idle" /\ phase'[c] = "idle" /\ outcome'[c] = how
  BY DEF Ends
<1>e. ASSUME NEW d \in Callers, NEW h, NEW e, End(d, h, e)
      PROVE  d = c /\ how = h /\ result'[c] = e
  BY <1>0, <1>e, <1>o DEF End, VarTypes
<1>a. ASSUME NEW d \in Callers, NEW s, AttemptFails(d, s)
      PROVE  /\ d = c /\ attempt[c] = Len(Expected(request[c].op)) /\ result'[c] = {}
             /\ how = IF NotFound(request[c].op, s) THEN "done" ELSE "error"
             /\ misled'[c] = (request[c].op = "findKey" /\ s = "500 404")
  <2>1. ~Retries(d)
    BY <1>0, <1>o DEF Retries, VarTypes
  <2>2. /\ End(d, IF NotFound(request[d].op, s) THEN "done" ELSE "error", {})
        /\ attempt[d] = Len(Expected(request[d].op))
        /\ misled' = [misled EXCEPT ![d] = request[d].op = "findKey" /\ s = "500 404"]
    BY <1>a, <2>1, AttemptFailsIs
  <2>3. d = c /\ how = (IF NotFound(request[d].op, s) THEN "done" ELSE "error") /\ result'[c] = {}
    BY <1>e, <2>2
  <2> QED
    BY <1>0, <2>2, <2>3 DEF VarTypes
<1>t. ASSUME NEW d \in Callers, NEW s, s # "404", AttemptFails(d, s), ~calm'
      PROVE  \/ how = "error" /\ ~calm'
             \/ how = "done" /\ ~calm' /\ result'[c] = {} /\ misled'[c] /\ request[c].op = "findKey"
  <2>1. /\ result'[c] = {} /\ how = IF NotFound(request[c].op, s) THEN "done" ELSE "error"
        /\ misled'[c] = (request[c].op = "findKey" /\ s = "500 404")
    BY <1>t, <1>a
  <2> QED
    BY <1>t, <2>1 DEF NotFound
<1>x. "404" \notin Texts
  BY HttpAssumption DEF Texts
<1>1. ~ServeLate /\ \A d \in Callers : ~Call(d) /\ ~Serve(d) /\ ~ServeFails(d)
  BY <1>0, <1>o DEF ServeLate, Call, Serve, ServeFails, Responds, VarTypes
<1>2. ASSUME NEW d \in Callers, NEW s, s # "404", GivenUp(d, s)
      PROVE  \/ how = "error" /\ ~calm'
             \/ how = "done" /\ ~calm' /\ result'[c] = {} /\ misled'[c] /\ request[c].op = "findKey"
  BY <1>2, <1>t DEF GivenUp
<1>3. ASSUME NEW d \in Callers, Receive(d)
      PROVE  /\ Receive(c) /\ Acceptable(c) /\ request[c].op \in Writes
             /\ how = "done" /\ calm' = calm
  <2>1. Acceptable(d) /\ request[d].op \in Writes
    BY <1>0, <1>3, <1>o DEF Receive, VarTypes
  <2>2. End(d, "done", {}) /\ calm' = calm
    BY <1>3, <2>1 DEF Receive, ghosts
  <2>3. d = c /\ how = "done"
    BY <1>e, <2>2
  <2> QED
    BY <1>3, <2>1, <2>2, <2>3
<1>4. ASSUME NEW d \in Callers, Read(d), Acceptable(d), End(d, "done", response[d].entries),
             misled' = misled
      PROVE  d = c /\ how = "done" /\ result'[c] = response[c].entries /\ ~misled'[c]
  <2>1. d = c /\ how = "done" /\ result'[c] = response[d].entries
    BY <1>4, <1>e
  <2> QED
    BY <1>0, <1>4, <1>o, <2>1 DEF CallOK
<1>5. ASSUME NEW d \in Callers, NEW s \in Texts, AttemptFails(d, s), calm' = FALSE
      PROVE  \/ how = "error" /\ ~calm'
             \/ how = "done" /\ ~calm' /\ result'[c] = {} /\ misled'[c] /\ request[c].op = "findKey"
  BY <1>5, <1>t, <1>x
<1>6. ASSUME NEW d \in Callers, Read(d), ~Acceptable(d), AttemptFails(d, response[d].status)
      PROVE  /\ d = c /\ attempt[c] = Len(Expected(request[c].op)) /\ calm' = calm
             /\ result'[c] = {}
             /\ misled'[c] = (request[c].op = "findKey" /\ response[c].status = "500 404")
             /\ how = IF NotFound(request[c].op, response[c].status) THEN "done" ELSE "error"
  <2>1. calm' = calm
    BY <1>6 DEF Read
  <2>2. /\ d = c /\ attempt[c] = Len(Expected(request[c].op)) /\ result'[c] = {}
        /\ misled'[c] = (request[c].op = "findKey" /\ response[d].status = "500 404")
        /\ how = IF NotFound(request[c].op, response[d].status) THEN "done" ELSE "error"
    BY <1>6, <1>a
  <2> QED
    BY <2>1, <2>2
<1>7. ASSUME NEW d \in Callers, FetchRejects(d) \/ TimesOut(d)
      PROVE  \/ how = "error" /\ ~calm'
             \/ how = "done" /\ ~calm' /\ result'[c] = {} /\ misled'[c] /\ request[c].op = "findKey"
  BY <1>7, <1>2, <1>x DEF FetchRejects, TimesOut
<1>8. PICK d \in Callers : Receive(d) \/ Read(d) \/ FetchRejects(d) \/ TimesOut(d)
  BY <1>1 DEF Next, Adapter
<1>9. CASE Receive(d)
  BY <1>3, <1>9
<1>10. CASE Read(d) /\ Acceptable(d)
  <2>1. CASE End(d, "done", response[d].entries) /\ UNCHANGED <<misled, calm>>
    BY <1>4, <1>10, <2>1
  <2>2. CASE (\E s \in Texts : AttemptFails(d, s)) /\ calm' = FALSE
    BY <1>5, <2>2
  <2> QED
    BY <1>10, <2>1, <2>2 DEF Read
<1>11. CASE Read(d) /\ ~Acceptable(d)
  <2>1. AttemptFails(d, response[d].status)
    BY <1>11 DEF Read
  <2> QED
    BY <1>6, <1>11, <2>1
<1> QED
  BY <1>7, <1>8, <1>9, <1>10, <1>11

LEMMA ResolvesBy ==
  ASSUME IInv, Next, NEW c \in Callers, Ends(c, "done")
  PROVE  \/ Receive(c) /\ request[c].op \in Writes
         \/ Read(c) /\ Acceptable(c) /\ result'[c] = response[c].entries /\ ~misled'[c]
         \/ /\ Read(c) /\ result'[c] = {} /\ NotFound(request[c].op, response[c].status)
            /\ misled'[c] = (request[c].op = "findKey" /\ response[c].status = "500 404")
         \/ result'[c] = {} /\ misled'[c] /\ request[c].op = "findKey"
BY EndsBy

(* Whichever servers fail and however: a read that is not misled by a 404 in *)
(* the text of a failure resolves with what the server held during the call, *)
(* and only findKey is ever misled, into an absent key.                      *)
THEOREM ReadsAreCorrect == Spec => ReadsAreTrue
<1> DEFINE Reads == \A c \in Callers : Ends(c, "done") /\ request[c].op \in Finds =>
             IF misled'[c]
               THEN request[c].op = "findKey" /\ result'[c] = {}
               ELSE \E t \in during[c] :
                      IF request[c].op = "findKey"
                        THEN result'[c] = {e \in Entries(t) : e[1] = request[c].id}
                        ELSE result'[c] \subseteq Entries(t)
<1>1. IInv /\ [Next]_vars => [Reads]_vars
  <2> SUFFICES ASSUME IInv, Next, NEW c \in Callers, Ends(c, "done"), request[c].op \in Finds
               PROVE  IF misled'[c]
                        THEN request[c].op = "findKey" /\ result'[c] = {}
                        ELSE \E t \in during[c] :
                               IF request[c].op = "findKey" THEN result'[c] = Asked(request[c], t)
                                                            ELSE result'[c] \subseteq Entries(t)
    BY DEF Asked
  <2>0. AnswerOK(c) /\ CallOK(c) /\ (response[c] # Null => response[c].status \in Statuses)
    BY DEF IInv, Types, VarTypes, Response
  <2>1. request[c].op \notin Writes
    BY DEF Finds, Writes
  <2>2. CASE Read(c) /\ Acceptable(c) /\ result'[c] = response[c].entries /\ ~misled'[c]
    <3>1. response[c] # Null
      BY <2>0, <2>2 DEF Read, CallOK
    <3>2. Len(Expected(request[c].op)) = 1 /\ Expected(request[c].op)[1] = "200"
      BY ExpectedIs
    <3>3. attempt[c] = 1
      BY <2>2, AttemptIs DEF IInv, Read
    <3>4. response[c].status = "200"
      BY <2>2, <3>2, <3>3 DEF Acceptable
    <3> QED
      BY <2>0, <2>2, <3>1, <3>4 DEF AnswerOK, TrueOf, Finds
  <2>3. CASE /\ Read(c) /\ result'[c] = {} /\ NotFound(request[c].op, response[c].status)
             /\ misled'[c] = (request[c].op = "findKey" /\ response[c].status = "500 404")
    <3>1. response[c] # Null
      BY <2>0, <2>3 DEF Read, CallOK
    <3>2. request[c].op = "findKey" /\ response[c].status \in {"404", "500 404"}
      BY <2>3 DEF NotFound
    <3>3. CASE response[c].status = "404"
      BY <2>0, <2>3, <3>1, <3>2, <3>3 DEF AnswerOK, TrueOf
    <3>4. CASE response[c].status = "500 404"
      BY <2>3, <3>2, <3>4
    <3> QED
      BY <3>2, <3>3, <3>4
  <2>4. CASE result'[c] = {} /\ misled'[c] /\ request[c].op = "findKey"
    BY <2>4
  <2>5. \/ Receive(c) /\ request[c].op \in Writes
        \/ Read(c) /\ Acceptable(c) /\ result'[c] = response[c].entries /\ ~misled'[c]
        \/ /\ Read(c) /\ result'[c] = {} /\ NotFound(request[c].op, response[c].status)
           /\ misled'[c] = (request[c].op = "findKey" /\ response[c].status = "500 404")
        \/ result'[c] = {} /\ misled'[c] /\ request[c].op = "findKey"
    BY ResolvesBy, Zenon
  <2> QED
    BY <2>1, <2>2, <2>3, <2>4, <2>5
<1> QED
  BY <1>1, Invariance, PTL DEF Spec, ReadsAreTrue

(* A write that resolves has been carried out, however often it was sent,    *)
(* and is still in effect while calls wait for each other and none is given  *)
(* up.                                                                       *)
THEOREM ResolvedWritesHappened == Spec => ResolvedIsWritten
<1> DEFINE Resolved == \A c \in Callers : Ends(c, "done") /\ request[c].op \in Writes =>
             /\ \E t \in during[c] : Written(request[c], t)
             /\ calm => Written(request[c], remote)
<1>1. IInv /\ [Next]_vars => [Resolved]_vars
  <2> SUFFICES ASSUME IInv, Next, NEW c \in Callers, Ends(c, "done"), request[c].op \in Writes
               PROVE  /\ \E t \in during[c] : Written(request[c], t)
                      /\ calm => Written(request[c], remote)
    OBVIOUS
  <2>1. AnswerOK(c) /\ CallOK(c) /\ phase[c] # "idle" /\ (calm => CalmAnswer(c))
    BY DEF IInv, Types, CalmOK, Ends
  <2>2. ~NotFound(request[c].op, response[c].status)
    BY DEF NotFound, Writes
  <2>3. (Receive(c) \/ Read(c)) /\ Acceptable(c)
    <3>1. request[c].op # "findKey"
      BY DEF Writes
    <3> QED
      BY <2>2, <3>1, EndsBy
  <2>4. response[c] # Null
    BY <2>1, <2>3 DEF Receive, Read, CallOK
  <2>5. response[c].status \in Success
    <3>2. CASE request[c].op = "createKey"
      <4>2. attempt[c] \in 1..3
        BY <2>1, <3>2, AttemptIs DEF IInv
      <4> QED
        BY <2>3, <3>2, <4>2, ExpectedIs DEF Acceptable, Success
    <3>3. CASE request[c].op # "createKey"
      <4>1. request[c].op \in {"updateKey", "revokeKeyById", "hardRemoveKeyById"}
        BY <3>3 DEF Writes
      <4>3. attempt[c] \in 1..2
        BY <2>1, <4>1, AttemptIs DEF IInv
      <4> QED
        BY <2>3, <4>1, <4>3, ExpectedIs DEF Acceptable, Success
    <3> QED
      BY <3>2, <3>3
  <2> QED
    BY <2>1, <2>4, <2>5 DEF AnswerOK, TrueOf, CalmAnswer
<1> QED
  BY <1>1, Invariance, PTL DEF Spec, ResolvedIsWritten

(* Repeating a request with the next status always ends in an accepted one,  *)
(* unless there was nothing to change: a rejected write wrote nothing.       *)
THEOREM RejectedWritesDidNot == Spec => RejectedIsNotWritten
<1> DEFINE Rejected == ~server.refuses => \A c \in Callers : RejectedChangesNothing(c)
<1>1. IInv /\ [Next]_vars => [Rejected]_vars
  <2> SUFFICES ASSUME IInv, Next, ~server.refuses, NEW c \in Callers, calm', Ends(c, "error")
               PROVE  during[c] = {remote}
    BY DEF RejectedChangesNothing
  <2>1. /\ Read(c) /\ ~Acceptable(c) /\ calm
        /\ attempt[c] = Len(Expected(request[c].op))
        /\ ~NotFound(request[c].op, response[c].status)
    BY EndsBy
  <2>2. /\ CallOK(c) /\ phase[c] # "idle" /\ response[c] # Null /\ request[c] \in Request
        /\ server \in API
    BY <2>1, HttpAssumption DEF IInv, Types, VarTypes, CallOK, Read
  <2>3. CalmAttempt(c) /\ response[c].status # Expected(request[c].op)[attempt[c]]
    BY <2>1, <2>2 DEF IInv, CalmOK, Acceptable
  <2>4. CASE request[c].op = "createKey"
    <3>1. attempt[c] = 3 /\ Expected(request[c].op)[3] = "204"
      BY <2>1, <2>4, ExpectedIs
    <3> QED
      BY <2>2, <2>3, <2>4, <3>1 DEF CalmAttempt, API
  <2>5. CASE request[c].op \in {"updateKey", "revokeKeyById", "hardRemoveKeyById"}
    <3>1. attempt[c] = 2 /\ Expected(request[c].op)[2] = "204"
      BY <2>1, <2>5, ExpectedIs
    <3> QED
      BY <2>2, <2>3, <2>5, <3>1 DEF CalmAttempt, API
  <2>6. CASE request[c].op \in Finds
    <3>1. attempt[c] = 1 /\ Expected(request[c].op)[1] = "200"
      BY <2>1, <2>6, ExpectedIs
    <3>2. response[c].status # "200" /\ (request[c].op = "findKey" => response[c].status # "404")
      BY <2>1, <2>3, <3>1 DEF NotFound
    <3> QED
      BY <2>2, <2>3, <2>6, <3>2 DEF CalmAttempt, Finds
  <2> QED
    BY <2>2, <2>4, <2>5, <2>6, RequestIs DEF Writes
<1> QED
  BY <1>1, Invariance, PTL DEF Spec, RejectedIsNotWritten
=============================================================================
