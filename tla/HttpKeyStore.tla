---------------------------- MODULE HttpKeyStore ----------------------------
(***************************************************************************)
(* The HTTP keystore: each method is one to three requests to a remote     *)
(* API, which is external and modelled as the adapter expects it to be.    *)
(*                                                                         *)
(*   sent       fetch is pending; the server has not executed the request  *)
(*   answered   the server has, and its answer is on the way               *)
(*   reading    fetch has resolved, the body is being read                 *)
(*                                                                         *)
(* A request that times out is given up, not cancelled: it stays in late   *)
(* and the server may execute it at any time, or never.                    *)
(***************************************************************************)
EXTENDS Naturals, FiniteSets, Sequences

CONSTANTS
  Callers,   (* Concurrent calls.                                            *)
  Ids,       (* Keys; an id and the hash of its key are not told apart.      *)
  Servers,   (* The APIs an instance ranges over.                            *)
  Failures,  (* Statuses of a failing API.                                   *)
  Timeout,   (* Whether timeoutMs is positive.                               *)
  MaxLate,   (* Bound: requests given up that the server may yet execute.    *)
  Null       (* No record, no request, no answer.                            *)

(* What an API answers to a POST of a new key, to its other writes, and      *)
(* whether it refuses to create a key that is there or delete one that is    *)
(* not.                                                                      *)
API == [created : {"200", "201", "204"}, done : {"200", "204"}, refuses : BOOLEAN]

(* A 500 whose URL or text has the word 404 in it is a status of its own.    *)
ASSUME HttpAssumption ==
  /\ Servers \subseteq API /\ Failures \subseteq {"500", "500 404"}
  /\ Timeout \in BOOLEAN /\ MaxLate \in Nat

Records == {"active", "revoked"}
Tables == [Ids -> Records \cup {Null}]
Entries(t) == {<<i, t[i]>> : i \in {j \in Ids : t[j] # Null}}

(* findKey stands for findKeyById and findKeyByHash. *)
Finds == {"findKey", "findExpiredIds"}
Writes == {"createKey", "updateKey", "revokeKeyById", "hardRemoveKeyById"}

(* The status that each attempt of a method takes for success. *)
createKey == <<"201", "200", "204">>
updateKey == <<"200", "204">>
revokeKeyById == <<"200", "204">>
hardRemoveKeyById == <<"200", "204">>
findKey == <<"200">>
findExpiredIds == <<"200">>

(* Mutant: a createKey that does not know 204. *)
ExpectedNot204(op) ==
  CASE op = "createKey" -> <<"201", "200">>
    [] op \in Writes \ {"createKey"} -> <<"200", "204">>
    [] op \in Finds -> <<"200">>

Expected(op) ==
  CASE op = "createKey" -> createKey
    [] op = "updateKey" -> updateKey
    [] op = "revokeKeyById" -> revokeKeyById
    [] op = "hardRemoveKeyById" -> hardRemoveKeyById
    [] op = "findKey" -> findKey
    [] op = "findExpiredIds" -> findExpiredIds

(* What is sent: the record, for the methods that have one. *)
Request ==
       [op : {"createKey"}, id : Ids, record : {"active"}]
  \cup [op : {"updateKey"}, id : Ids, record : Records]
  \cup [op : Finds \cup {"revokeKeyById", "hardRemoveKeyById"}, id : Ids, record : {Null}]

Statuses == {"200", "201", "204", "404", "409"} \cup Failures

(* What the error of an attempt without a status may say: a fetch that       *)
(* rejects and a body that is not JSON also choose their words.              *)
Texts == {"500"} \cup Failures
Response == [status : Statuses, entries : SUBSET (Ids \X Records)]

ASSUME NullIsNothing == Null \notin Records \cup Request \cup Response

VARIABLES
  server,    (* The API in use.                                              *)
  remote,    (* Its table.                                                   *)
  late,      (* Requests given up that it may yet execute.                   *)
  phase,     (* Where each call stands.                                      *)
  request,   (* Its request.                                                 *)
  attempt,   (* How many times it has been sent.                             *)
  response,  (* The answer to the last one: status and the entries in it.    *)
  outcome,   (* Whether the last call resolved.                              *)
  result,    (* What it resolved with, as entries of the table.              *)
  misled,    (* History: the call found a 404 in the text of another failure. *)
  during,    (* History: the tables the server has had during the call.      *)
  calm       (* History: calls have not overlapped, nothing has failed.      *)

ghosts == <<misled, during, calm>>
vars == <<server, remote, late, phase, request, attempt, response, outcome, result, ghosts>>

TypeOK ==
  /\ server \in Servers /\ remote \in Tables /\ late \subseteq Request
  /\ phase \in [Callers -> {"idle", "sent", "answered", "reading"}]
  /\ request \in [Callers -> Request \cup {Null}]
  /\ response \in [Callers -> Response \cup {Null}]
  /\ outcome \in [Callers -> {"none", "done", "error"}]
  /\ result \in [Callers -> SUBSET (Ids \X Records)]
  /\ \A c \in Callers :
       /\ phase[c] = "idle" <=> request[c] = Null
       /\ phase[c] \in {"answered", "reading"} <=> response[c] # Null
       /\ attempt[c] \in IF request[c] = Null THEN {0} ELSE 1..Len(Expected(request[c].op))
  /\ misled \in [Callers -> BOOLEAN]
  /\ during \in [Callers -> SUBSET Tables] /\ calm \in BOOLEAN

Init ==
  /\ server \in Servers /\ late = {}
  /\ remote = [i \in Ids |-> Null]
  /\ phase = [c \in Callers |-> "idle"] /\ request = [c \in Callers |-> Null]
  /\ attempt = [c \in Callers |-> 0] /\ response = [c \in Callers |-> Null]
  /\ outcome = [c \in Callers |-> "none"] /\ result = [c \in Callers |-> {}]
  /\ misled = [c \in Callers |-> FALSE]
  /\ during = [c \in Callers |-> {}] /\ calm = TRUE

-----------------------------------------------------------------------------
(* The server. *)

Absent(q) == remote[q.id] = Null

Effect(q) ==
  [remote EXCEPT ![q.id] =
     CASE q.op = "createKey" -> IF ~Absent(q) /\ server.refuses THEN @ ELSE q.record
       [] q.op = "updateKey" -> IF Absent(q) THEN Null ELSE q.record
       [] q.op = "revokeKeyById" -> IF Absent(q) THEN Null ELSE "revoked"
       [] q.op = "hardRemoveKeyById" -> Null
       [] q.op \in Finds -> @]

(* An absent key is a 404, or 200 with null. *)
Answers(q) ==
  CASE q.op = "createKey" -> {IF ~Absent(q) /\ server.refuses THEN "409" ELSE server.created}
    [] q.op \in {"updateKey", "revokeKeyById"} -> {IF Absent(q) THEN "404" ELSE server.done}
    [] q.op = "hardRemoveKeyById" ->
         {IF Absent(q) /\ server.refuses THEN "404" ELSE server.done}
    [] q.op = "findExpiredIds" -> {"200"}
    [] q.op = "findKey" -> IF Absent(q) THEN {"200", "404"} ELSE {"200"}

(* The key asked for; any of the keys, or a body without ids, for a sweep.   *)
Payloads(q) ==
  CASE q.op = "findExpiredIds" -> SUBSET Entries(remote)
    [] q.op = "findKey" -> {{e \in Entries(remote) : e[1] = q.id}}
    [] q.op \in Writes -> {{}}

Show(t) == during' = [c \in Callers |-> IF phase[c] = "idle" THEN {} ELSE during[c] \cup {t}]

Execute(q) == remote' = Effect(q) /\ Show(remote')

Responds(c, s, p) ==
  /\ phase[c] = "sent"
  /\ phase' = [phase EXCEPT ![c] = "answered"]
  /\ response' = [response EXCEPT ![c] = [status |-> s, entries |-> p]]
  /\ UNCHANGED <<server, late, request, attempt, outcome, result, misled>>

Serve(c) ==
  /\ phase[c] = "sent"
  /\ \E s \in Answers(request[c]), p \in Payloads(request[c]) : Responds(c, s, p)
  /\ Execute(request[c])
  /\ UNCHANGED calm

(* It fails, before or after it has carried the request out. *)
ServeFails(c) ==
  /\ \E s \in Failures : Responds(c, s, {})
  /\ Execute(request[c]) \/ UNCHANGED <<remote, during>>
  /\ calm' = FALSE

ServeLate ==
  /\ \E q \in late : Execute(q) /\ late' = late \ {q}
  /\ UNCHANGED <<server, phase, request, attempt, response, outcome, result, misled, calm>>

-----------------------------------------------------------------------------
(* The adapter. *)

Call(c) ==
  /\ phase[c] = "idle"
  /\ \E q \in Request : request' = [request EXCEPT ![c] = q]
  /\ phase' = [phase EXCEPT ![c] = "sent"]
  /\ attempt' = [attempt EXCEPT ![c] = 1]
  /\ outcome' = [outcome EXCEPT ![c] = "none"]
  /\ result' = [result EXCEPT ![c] = {}]
  /\ misled' = [misled EXCEPT ![c] = FALSE]
  /\ during' = [during EXCEPT ![c] = {remote}]
  /\ calm' = (calm /\ \A d \in Callers : phase[d] = "idle")
  /\ UNCHANGED <<server, remote, late, response>>

End(c, how, entries) ==
  /\ phase' = [phase EXCEPT ![c] = "idle"]
  /\ request' = [request EXCEPT ![c] = Null]
  /\ attempt' = [attempt EXCEPT ![c] = 0]
  /\ response' = [response EXCEPT ![c] = Null]
  /\ outcome' = [outcome EXCEPT ![c] = how]
  /\ result' = [result EXCEPT ![c] = entries]

(* Mutant: every failure is taken for an absent key. *)
NotFoundAny(op, status) == op = "findKey"

(* findKey looks for the word 404 in the message of the error. *)
NotFound(op, status) == op = "findKey" /\ status \in {"404", "500 404"}

(* The request failed, was given up, or was answered with another status:    *)
(* the next attempt sends it again; after the last one the error is thrown.  *)
AttemptFails(c, status) ==
  LET op == request[c].op
  IN  \/ /\ attempt[c] < Len(Expected(op))
         /\ attempt' = [attempt EXCEPT ![c] = @ + 1]
         /\ phase' = [phase EXCEPT ![c] = "sent"]
         /\ response' = [response EXCEPT ![c] = Null]
         /\ UNCHANGED <<request, outcome, result, misled>>
      \/ /\ attempt[c] = Len(Expected(op))
         /\ End(c, IF NotFound(op, status) THEN "done" ELSE "error", {})
         /\ misled' = [misled EXCEPT ![c] = op = "findKey" /\ status = "500 404"]

(* Mutant: like fetch, request does not reject for a status. *)
AcceptableAny(c) == TRUE

Acceptable(c) == response[c].status = Expected(request[c].op)[attempt[c]]

(* fetch has resolved.  A write answered as expected does not read the body. *)
Receive(c) ==
  /\ phase[c] = "answered"
  /\ IF Acceptable(c) /\ request[c].op \in Writes
       THEN End(c, "done", {})
       ELSE /\ phase' = [phase EXCEPT ![c] = "reading"]
            /\ UNCHANGED <<request, attempt, response, outcome, result>>
  /\ UNCHANGED <<server, remote, late, ghosts>>

(* The body has been read, or breaks off or is not JSON: then the result is   *)
(* lost, but the text of an error is not missed.                             *)
Read(c) ==
  /\ phase[c] = "reading"
  /\ IF Acceptable(c)
       THEN \/ End(c, "done", response[c].entries) /\ UNCHANGED <<misled, calm>>
            \/ (\E s \in Texts : AttemptFails(c, s)) /\ calm' = FALSE
       ELSE AttemptFails(c, response[c].status) /\ UNCHANGED calm
  /\ UNCHANGED <<server, remote, late, during>>

(* The request goes on without its caller, or is lost.  (A late read changes  *)
(* nothing.)                                                                 *)
GivenUp(c, text) ==
  /\ phase[c] \in {"sent", "answered"}
  /\ late' \in {late, late \cup {request[c]}} /\ Cardinality(late') <= MaxLate
  /\ late' # late => phase[c] = "sent" /\ request[c].op \in Writes
  /\ AttemptFails(c, text)
  /\ calm' = FALSE
  /\ UNCHANGED <<server, remote, during>>

FetchRejects(c) == \E s \in Texts : GivenUp(c, s)

(* Mutants: a timer for the first request only; and an answer that comes too *)
(* late and is left to the next attempt.                                     *)
TimesOutOnce(c) == Timeout /\ attempt[c] = 1 /\ GivenUp(c, "500")

TimesOutLate(c) ==
  /\ Timeout /\ phase[c] \in {"sent", "answered"}
  /\ phase' = [phase EXCEPT ![c] = "sent"]
  /\ calm' = FALSE
  /\ UNCHANGED <<server, remote, late, request, attempt, response, outcome, result>>
  /\ UNCHANGED <<misled, during>>

(* withTimeout; its error has no 404 in it. *)
TimesOut(c) == Timeout /\ GivenUp(c, "500")

-----------------------------------------------------------------------------
Adapter(c) == Receive(c) \/ Read(c) \/ TimesOut(c)

Next ==
  \/ ServeLate
  \/ \E c \in Callers : Call(c) \/ Serve(c) \/ ServeFails(c) \/ FetchRejects(c) \/ Adapter(c)

Spec == Init /\ [][Next]_vars

(* The event loop resumes a call whose fetch has settled, and the timer      *)
(* fires.  Nothing makes the server execute or answer a request, nor a body  *)
(* end: it is read outside withTimeout.                                      *)
FairSpec == Spec /\ \A c \in Callers : WF_vars(Receive(c) \/ TimesOut(c))
-----------------------------------------------------------------------------
(* Properties. *)

(* This step ends the call of c. *)
Ends(c, how) == phase[c] # "idle" /\ phase'[c] = "idle" /\ outcome'[c] = how

(* A read resolves with what the server held at some moment of the call, no  *)
(* matter which servers fail and which requests and answers are lost or      *)
(* late.  findKey alone may be misled, into an absent key, and by nothing    *)
(* but a failure whose text has the word 404 in it: it tells an absent key   *)
(* from a failure by the text of the error.                                  *)
ReadsAreTrue ==
  [][\A c \in Callers : Ends(c, "done") /\ request[c].op \in Finds =>
       IF misled'[c]
         THEN request[c].op = "findKey" /\ result'[c] = {}
         ELSE \E t \in during[c] :
                IF request[c].op = "findKey"
                  THEN result'[c] = {e \in Entries(t) : e[1] = request[c].id}
                  ELSE result'[c] \subseteq Entries(t)]_vars

Written(q, t) ==
  CASE q.op \in {"createKey", "updateKey"} -> t[q.id] = q.record
    [] q.op = "revokeKeyById" -> t[q.id] = "revoked"
    [] q.op = "hardRemoveKeyById" -> t[q.id] = Null

(* A write that resolves has been in effect at some moment of the call; and  *)
(* still is, however often it was sent, while calls do not overlap and none  *)
(* is given up: a late request undoes later writes.                          *)
ResolvedIsWritten ==
  [][\A c \in Callers : Ends(c, "done") /\ request[c].op \in Writes =>
       /\ \E t \in during[c] : Written(request[c], t)
       /\ calm => Written(request[c], remote)]_vars

(* A write that rejects has changed nothing, while calls do not overlap and  *)
(* nothing fails: whichever status the server answers, its repeated requests *)
(* are accepted in the end.                                                  *)
RejectedChangesNothing(c) ==
  calm' /\ Ends(c, "error") => during[c] = {remote}

(* The same where servers do not refuse a repetition.                        *)
RejectedIsNotWritten ==
  [][~server.refuses => \A c \in Callers : RejectedChangesNothing(c)]_vars

(* keystore.http.test.ts: "createKey accepts 201 or retries 200/204",        *)
(* "hardRemoveKeyById uses DELETE and accepts 200/204", of any server.       *)
AcceptsEveryStatus == [][\A c \in Callers : RejectedChangesNothing(c)]_vars

(* With a timeout a call that never ends is one that waits for the rest of   *)
(* one body: lost requests and answers, however often it sends the request   *)
(* again, hold it up for a while only.  No timeout covers the body.          *)
CallsComplete ==
  \A c \in Callers : []<>(phase[c] = "idle") \/ <>[](phase[c] = "reading")
=============================================================================
