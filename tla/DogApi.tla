------------------------------- MODULE DogApi -------------------------------
(***************************************************************************)
(* The Bun example server: HTTP handlers over one UsefulKey object with    *)
(* the plugins ratelimit, enable-disable, usage-limits-per-key and         *)
(* permissions-scopes, the in-memory keystore and the in-memory rate-limit *)
(* store.                                                                  *)
(*                                                                         *)
(* A handler runs without interruption between two awaits, and between     *)
(* them any other request may step; what it carries across is its request  *)
(* and the record object it found:                                         *)
(*                                                                         *)
(*   public    lookup -> judge -> charge [-> body]                         *)
(*   creation  [body] or [find -> write]                                   *)
(*   by id     [body ->] write [-> reread]                                 *)
(*                                                                         *)
(* Every id and plaintext is new (uuid, 16 random bytes): a key is named   *)
(* by one element of Keys, which is both.  The callers of the keystore are *)
(* the requests in progress.  Requests with a wrong admin key or a bad     *)
(* path are answered at once and change nothing; they are left out, as are *)
(* the plan of a key and the status and wording of answers.                *)
(***************************************************************************)
EXTENDS MemoryKeyStore

CONSTANTS
  Keys,       (* The keys the server may create, in any order.              *)
  Addresses,  (* x-forwarded-for, which identifies a client to ratelimit.   *)
  Limit,      (* Requests per window of the rate limit: 200 in the server.  *)
  Remaining,  (* Values of body.remaining.                                  *)
  Grants,     (* Values of body.scopes and body.metadata.scopes.            *)
  Names       (* Dog names the list does not have yet.                      *)

ASSUME DogAssumption ==
  /\ Ids = Keys /\ Hashes = Keys /\ Scopes = {"premium", "admin"}
  /\ Limit \in Nat /\ Remaining \subseteq Nat /\ Grants \subseteq SUBSET Scopes

Public == {"dogs", "facts", "manage"}
Switches == {"enable", "disable"}
ScopeWrites == {"setScopes", "grant", "revokeScopes"}
BodyRoutes == {"limits"} \cup ScopeWrites
Grantors == {"premium", "admin"}
Routes == Public \cup Switches \cup BodyRoutes \cup Grantors \cup {"keys"}

Phases == {"idle", "lookup", "judge", "charge", "body", "find", "write", "reread"}

ASSUME NullIsNoRoute == Null \notin Routes

VARIABLES
  hits,     (* Requests counted in the current window of each address.       *)
  names,    (* What was added to DOG_NAMES.                                  *)
  phase,    (* The await each request stands at, "idle" when it is answered. *)
  route,    (* The route of the request, Null when idle.                     *)
  key,      (* Its x-api-key or {id}, Null before the key is created.        *)
  given,    (* The scopes it demands, hands out or was given; body.remaining.*)
  handed,   (* History: the scopes each key was handed out with, Null before.*)
  gone      (* History: keys revoked while only current objects were held.   *)

request == <<phase, route, key, given>>
vars == <<store, hits, names, request, handed, gone>>

TypeOK ==
  /\ StoreTypeOK
  /\ hits \in [Addresses -> 0..Limit] /\ names \subseteq Names
  /\ phase \in [Callers -> Phases]
  /\ route \in [Callers -> Routes \cup {Null}]
  /\ key \in [Callers -> Keys \cup {Null}]
  /\ handed \in [Keys -> (SUBSET Scopes) \cup {Null}] /\ gone \subseteq Keys
  /\ \A w \in Callers :
       /\ phase[w] = "idle" <=> route[w] = Null
       /\ given[w] \in IF route[w] = "limits" THEN Remaining \cup {Null}
                                              ELSE (SUBSET Scopes) \cup {Null}
       /\ phase[w] = "charge" => held[w] # Null
       /\ held[w] # Null => held[w].id = key[w] /\ phase[w] \in {"judge", "charge", "write"}

Init ==
  /\ EmptyStore
  /\ hits = [a \in Addresses |-> 0] /\ names = {}
  /\ phase = [w \in Callers |-> "idle"]
  /\ route = [w \in Callers |-> Null]
  /\ key = [w \in Callers |-> Null]
  /\ given = [w \in Callers |-> Null]
  /\ handed = [k \in Keys |-> Null] /\ gone = {}

-----------------------------------------------------------------------------
(* Steps of a request. *)

Idle(w) == phase[w] = "idle"

(* Request w of route r for key k waits at phase p. *)
Arrive(w, r, k, g, p) ==
  /\ Idle(w)
  /\ phase' = [phase EXCEPT ![w] = p]
  /\ route' = [route EXCEPT ![w] = r]
  /\ key' = [key EXCEPT ![w] = k]
  /\ given' = [given EXCEPT ![w] = g]

GoOn(w, p) ==
  /\ phase' = [phase EXCEPT ![w] = p]
  /\ UNCHANGED <<route, key, given>>

Answer(w) ==
  /\ phase' = [phase EXCEPT ![w] = "idle"]
  /\ route' = [route EXCEPT ![w] = Null]
  /\ key' = [key EXCEPT ![w] = Null]
  /\ given' = [given EXCEPT ![w] = Null]

(* Plaintexts and ids a client can know: those it was told, or an unknown one. *)
Known(k) == handed[k] # Null \/ idToRecord[k] = Null

-----------------------------------------------------------------------------
(* The public routes: verifyKey with the plugins of the server. *)

(* Mutant: one more request than the limit. *)
FullLater(a) == hits[a] > Limit

Full(a) == hits[a] >= Limit

(* beforeVerify of ratelimit: incrementAndCheck of the memory store counts a *)
(* request unless the window is full, whatever its key is worth.  A request  *)
(* over the limit is refused and changes nothing.                            *)
Verify(w, r, required) ==
  \E k \in Keys, a \in Addresses :
    /\ Known(k)
    /\ ~Full(a)
    /\ hits' = [hits EXCEPT ![a] = @ + 1]
    /\ Arrive(w, r, k, required, "lookup")
    /\ UNCHANGED <<store, names, handed, gone>>

GetDogs(w) == Verify(w, "dogs", {})
GetFacts(w) == Verify(w, "facts", {"premium"})
PostManage(w) == Verify(w, "manage", {"admin"})

Lookup(w) ==
  /\ phase[w] = "lookup"
  /\ FindKeyByHash(w, key[w])
  /\ GoOn(w, "judge")
  /\ UNCHANGED <<hits, names, handed, gone>>

(* revokedAt, then the onKeyRecordLoaded hooks of the plugins. *)
Valid(r, required) ==
  /\ r # Null
  /\ ~r.revoked /\ ~r.disabled /\ r.usesRemaining # 0
  /\ required \subseteq r.scopes

Judge(w) ==
  /\ phase[w] = "judge"
  /\ IF Valid(held[w], given[w]) THEN GoOn(w, "charge") /\ UNCHANGED store
                                 ELSE Answer(w) /\ Release(w)
  /\ UNCHANGED <<hits, names, handed, gone>>

(* onVerifySuccess spreads the record it was given and writes it back.  A    *)
(* manage request is judged before its body has come.                        *)
Charge(w) ==
  /\ phase[w] = "charge"
  /\ IF held[w].usesRemaining \in {Null, 0}
       THEN Release(w)
       ELSE UpdateKey(w, [held[w] EXCEPT !.usesRemaining = @ - 1])
  /\ IF route[w] = "manage" THEN GoOn(w, "body") ELSE Answer(w)
  /\ UNCHANGED <<hits, names, handed, gone>>

(* A bad body or a name the list has changes nothing. *)
Manage(w) ==
  /\ phase[w] = "body" /\ route[w] = "manage"
  /\ names' = names \/ \E n \in Names : names' = names \cup {n}
  /\ Answer(w)
  /\ UNCHANGED <<store, hits, handed, gone>>

-----------------------------------------------------------------------------
(* Creating keys. *)

NewRecord(k, s, d) ==
  [id |-> k, keyHash |-> k, usesRemaining |-> Null, revoked |-> FALSE, disabled |-> d, scopes |-> s]

(* A new key is none that a request has guessed. *)
Unissued == {k \in Keys : idToRecord[k] = Null /\ \A w \in Callers : key[w] # k}

HandOut(k, s) == handed' = [handed EXCEPT ![k] = s]

(* POST /admin/keys: body.metadata may hold anything, also what the plugins  *)
(* read; a body that cannot be parsed counts as {}.                          *)
PostKeys(w) ==
  /\ Arrive(w, "keys", Null, Null, "body")
  /\ UNCHANGED <<store, hits, names, handed, gone>>

CreateFromBody(w) ==
  /\ phase[w] = "body" /\ route[w] = "keys"
  /\ \E k \in Unissued, s \in Grants \cup {{}}, d \in BOOLEAN :
       CreateKey(w, NewRecord(k, s, d)) /\ HandOut(k, s)
  /\ Answer(w)
  /\ UNCHANGED <<hits, names, gone>>

CreatePro(w) ==
  /\ Idle(w)
  /\ \E k \in Unissued : CreateKey(w, NewRecord(k, {}, FALSE)) /\ HandOut(k, {})
  /\ UNCHANGED <<hits, names, request, gone>>

(* The premium and admin routes create a key and grant its scopes with a     *)
(* second call, before the plaintext is handed out.                          *)
CreateAndGrant(w, r, s) ==
  /\ \E k \in Unissued : CreateKey(w, NewRecord(k, {}, FALSE)) /\ Arrive(w, r, k, s, "find")
  /\ UNCHANGED <<hits, names, handed, gone>>

CreatePremium(w) == CreateAndGrant(w, "premium", {"premium"})
CreateAdmin(w) == CreateAndGrant(w, "admin", {"admin", "premium"})

(* Mutant: the call of grantScopes is not awaited. *)
FindAndAnswer(w) ==
  /\ phase[w] = "find"
  /\ HandOut(key[w], given[w]) /\ Answer(w)
  /\ UNCHANGED <<store, hits, names, gone>>

(* grantScopes finds the record. *)
FindCreated(w) ==
  /\ phase[w] = "find"
  /\ FindKeyById(w, key[w])
  /\ GoOn(w, "write")
  /\ UNCHANGED <<hits, names, handed, gone>>

-----------------------------------------------------------------------------
(* The admin routes with an id; getKeyById and getScopes only read. *)

(* Every request that has found a record of k holds the object in the maps. *)
OnlyCurrent(k) == \A w \in Callers : held[w] # Null /\ held[w].id = k => w \in shared

(* DELETE is a revocation, and answers success for an unknown id, too. *)
Delete(w) ==
  \E k \in Keys :
    /\ Idle(w) /\ Known(k)
    /\ RevokeKeyById(k)
    /\ gone' = IF idToRecord[k] # Null /\ OnlyCurrent(k) THEN gone \cup {k} ELSE gone
    /\ UNCHANGED <<hits, names, request, handed>>

(* enableKey and disableKey find the record at once. *)
Switch(w, r) ==
  /\ \E k \in Keys : Known(k) /\ Arrive(w, r, k, Null, "write") /\ FindKeyById(w, k)
  /\ UNCHANGED <<hits, names, handed, gone>>

PutEnable(w) == Switch(w, "enable")
PutDisable(w) == Switch(w, "disable")

(* The others wait for the body first. *)
AwaitBody(w, r) ==
  /\ \E k \in Keys : Known(k) /\ Arrive(w, r, k, Null, "body")
  /\ UNCHANGED <<store, hits, names, handed, gone>>

PutLimits(w) == AwaitBody(w, "limits")
PutScopes(w) == AwaitBody(w, "setScopes")
PostGrant(w) == AwaitBody(w, "grant")
PostRevoke(w) == AwaitBody(w, "revokeScopes")

BadBody(w) ==
  /\ phase[w] = "body" /\ route[w] \in BodyRoutes
  /\ Answer(w)
  /\ UNCHANGED <<store, hits, names, handed, gone>>

(* The body has come: the method that is called finds the record. *)
GoodBody(w) ==
  /\ phase[w] = "body" /\ route[w] \in BodyRoutes
  /\ \E g \in IF route[w] = "limits" THEN Remaining ELSE Grants :
       given' = [given EXCEPT ![w] = g]
  /\ phase' = [phase EXCEPT ![w] = "write"]
  /\ FindKeyById(w, key[w])
  /\ UNCHANGED <<hits, names, route, key, handed, gone>>

(* What the method called by route r makes of record k. *)
Changed(r, k, g) ==
  CASE r = "enable" -> [k EXCEPT !.disabled = FALSE]
    [] r = "disable" -> [k EXCEPT !.disabled = TRUE]
    [] r = "limits" -> [k EXCEPT !.usesRemaining = g]
    [] r = "setScopes" -> [k EXCEPT !.scopes = g]
    [] r = "revokeScopes" -> [k EXCEPT !.scopes = @ \ g]
    [] OTHER -> [k EXCEPT !.scopes = @ \cup g]

Rereads == {"grant", "revokeScopes"}

(* The request has made its change, or had nothing to change. *)
Written(w) ==
  /\ IF route[w] \in Rereads THEN GoOn(w, "reread") ELSE Answer(w)
  /\ IF route[w] \in Grantors THEN HandOut(key[w], given[w]) ELSE UNCHANGED handed
  /\ UNCHANGED <<hits, names, gone>>

(* No record: the scope methods return as if they had changed it, and the    *)
(* others throw KEY_NOT_FOUND.                                               *)
WriteMissing(w) ==
  /\ phase[w] = "write" /\ held[w] = Null
  /\ Written(w)
  /\ UNCHANGED store

Write(w) ==
  /\ phase[w] = "write" /\ held[w] # Null
  /\ UpdateKey(w, Changed(route[w], held[w], given[w]))
  /\ Written(w)

(* getScopes after the change, for the answer. *)
Reread(w) ==
  /\ phase[w] = "reread"
  /\ Answer(w)
  /\ UNCHANGED <<store, hits, names, handed, gone>>

-----------------------------------------------------------------------------
WindowEnds ==
  /\ \E a \in Addresses : hits[a] # 0 /\ hits' = [hits EXCEPT ![a] = 0]
  /\ UNCHANGED <<store, names, request, handed, gone>>

Arrival(w) ==
  \/ GetDogs(w) \/ GetFacts(w) \/ PostManage(w)
  \/ PostKeys(w) \/ CreatePro(w) \/ CreatePremium(w) \/ CreateAdmin(w)
  \/ Delete(w) \/ PutEnable(w) \/ PutDisable(w)
  \/ PutLimits(w) \/ PutScopes(w) \/ PostGrant(w) \/ PostRevoke(w)

Step(w) ==
  \/ Lookup(w) \/ Judge(w) \/ Charge(w) \/ Manage(w) \/ CreateFromBody(w)
  \/ FindCreated(w) \/ BadBody(w) \/ GoodBody(w)
  \/ WriteMissing(w) \/ Write(w) \/ Reread(w)

Next == WindowEnds \/ \E w \in Callers : Arrival(w) \/ Step(w)

Spec == Init /\ [][Next]_vars
-----------------------------------------------------------------------------
(* Properties. *)

(* The two maps always lead to the same record, whatever stale record is     *)
(* upserted: a key found by its plaintext is the one found by its id, so a   *)
(* change made by id is seen by the next verification.                       *)
MapsAgree == \A k \in Keys : keyHashToRecord[k] = idToRecord[k]

(* What is left of "DELETE revokes": a key revoked while every request that  *)
(* had found it held its current object is never valid again, also for the   *)
(* requests that hold it, and no write-back in flight revives it, because    *)
(* they share the object that was revoked.                                   *)
RevokedStaysRevoked ==
  [][\A k \in gone :
       /\ idToRecord'[k].revoked
       /\ \A w \in Callers :
            phase[w] = "judge" /\ key[w] = k => phase'[w] # "charge"]_vars

(* The plaintext of a premium or admin key is handed out only when the key   *)
(* holds the scopes the answer lists, although it was created without them.  *)
KeysComeWithTheirScopes ==
  [][\A k \in Keys : handed[k] = Null /\ handed'[k] # Null
       => idToRecord'[k] # Null /\ handed'[k] \subseteq idToRecord'[k].scopes]_vars
=============================================================================
