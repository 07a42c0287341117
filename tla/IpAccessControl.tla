--------------------------- MODULE IpAccessControl ---------------------------
(***************************************************************************)
(* The IP access control plugins and the start of verifyKey, where their   *)
(* beforeVerify hook runs, followed by that of the ratelimit plugin.       *)
(*                                                                         *)
(*   static    lists given at construction                                 *)
(*   memory    lists the application may change                            *)
(*   keystore  lists that are kept in the metadata of a reserved record,   *)
(*             and loaded from it by setup, by refresh, and by the first   *)
(*             method or verification that finds them not loaded           *)
(*                                                                         *)
(* Each instance is a UsefulKey object with one of them; the record is     *)
(* shared.  A call is a chain of steps, one per stretch of code that ends  *)
(* at an await of the keystore: in phase p a SELECT is on its way, in the  *)
(* phase Found[p] the code resumes with the record it read, in "create"    *)
(* and "update" the lists are on their way to the record:                  *)
(*                                                                         *)
(*   setup         exist [-> create] -> load                               *)
(*   verifyKey     [load ->] go -> rate                                    *)
(*   add, remove   [load ->] go -> save -> update, or                      *)
(*   and clear                     save -> exist -> create                 *)
(*   refresh       load                                                    *)
(*                                                                         *)
(* An SQL keystore refuses to create a record that exists; the memory and  *)
(* the Redis keystore replace it.                                          *)
(***************************************************************************)
EXTENDS Naturals, FiniteSets, Sequences

CONSTANTS
  Instances,   (* UsefulKey objects, in one process or in several.           *)
  Kinds,       (* The plugins an instance may have.                          *)
  Stores,      (* What the createKey of its keystore does to a record.       *)
  Callers,     (* Calls in progress.                                         *)
  Ips,         (* Addresses on the lists.                                    *)
  Clients,     (* Addresses that verify: some of Ips, others, or Null.       *)
  InitialDeny, (* The deny list given at construction; allow is empty.       *)
  Null         (* No record, no address.                                     *)

AllKinds == {"static", "memory", "keystore"}

Lists == [allow : SUBSET Ips, deny : SUBSET Ips]

Changes == {"addAllow", "removeAllow", "clearAllow", "addDeny", "removeDeny", "clearDeny"}
Ops == Changes \cup {"setup", "verifyKey", "refresh"}

ASSUME IpAssumption ==
  /\ Kinds \subseteq AllKinds /\ InitialDeny \subseteq Ips
  /\ Stores \subseteq {"insert", "replace"}
  /\ Null \notin Lists \cup Instances \cup Ips \cup Ops

(* The phase in which a SELECT that left in phase p is resumed. *)
Found == [p \in {"load", "save", "exist"} |->
            CASE p = "load" -> "loading" [] p = "save" -> "saving" [] p = "exist" -> "existing"]

Phases == {"idle", "load", "loading", "go", "save", "saving", "exist", "existing",
           "create", "update", "rate"}

VARIABLES
  kind,      (* The plugin of each instance.                                 *)
  store,     (* The keystore.                                                *)
  running,   (* The instances that have been constructed and not crashed.    *)
  loaded,    (* Its variable loaded.                                         *)
  lists,     (* Its variables allow and deny.                                *)
  record,    (* metadata of the reserved record, Null while there is none.   *)
  phase,     (* Where each call stands.                                      *)
  op,        (* Its method.                                                  *)
  instance,  (* The instance it was made on.                                 *)
  ip,        (* Its address.                                                 *)
  value,     (* The lists it read, or is writing.                            *)
  stale      (* History: instances that have to load the lists before they   *)
             (* can be expected to be those of the record.                   *)

config == <<kind, store>>
call == <<phase, op, instance, ip, value>>
vars == <<config, running, loaded, lists, record, call, stale>>

TypeOK ==
  /\ kind \in [Instances -> Kinds] /\ store \in Stores /\ running \subseteq Instances
  /\ loaded \in [Instances -> BOOLEAN]
  /\ lists \in [Instances -> Lists] /\ record \in Lists \cup {Null}
  /\ phase \in [Callers -> Phases] /\ op \in [Callers -> Ops \cup {Null}]
  /\ instance \in [Callers -> Instances \cup {Null}]
  /\ ip \in [Callers -> Ips \cup Clients \cup {Null}]
  /\ value \in [Callers -> Lists \cup {Null}]
  /\ stale \subseteq running
  /\ \A c \in Callers :
       /\ phase[c] = "idle" <=> op[c] = Null
       /\ phase[c] # "idle" => instance[c] \in running
       /\ phase[c] \in {"save", "saving", "update"} => op[c] \in Changes /\ loaded[instance[c]]
       /\ phase[c] \in {"create", "update"} => value[c] # Null

Init ==
  /\ kind \in [Instances -> Kinds] /\ store \in Stores /\ running = {}
  /\ loaded = [i \in Instances |-> FALSE]
  /\ lists = [i \in Instances |-> [allow |-> {}, deny |-> InitialDeny]]
  /\ record = Null
  /\ phase = [c \in Callers |-> "idle"] /\ op = [c \in Callers |-> Null]
  /\ instance = [c \in Callers |-> Null] /\ ip = [c \in Callers |-> Null]
  /\ value = [c \in Callers |-> Null]
  /\ stale = {}

-----------------------------------------------------------------------------
(* Beginning and ending a call. *)

(* A verification that found the lists loaded neither reads nor writes the   *)
(* record; no call of the instance i other than those of D does.             *)
Passing(o, p) == o = "verifyKey" /\ p \in {"go", "rate"}
QuietBut(i, D) == \A c \in Callers \ D : instance[c] = i => Passing(op[c], phase[c])
Quiet(i) == QuietBut(i, {})

Begin(c, o, i, a, p) ==
  /\ phase[c] = "idle"
  /\ phase' = [phase EXCEPT ![c] = p]
  /\ op' = [op EXCEPT ![c] = o]
  /\ instance' = [instance EXCEPT ![c] = i]
  /\ ip' = [ip EXCEPT ![c] = a]
  /\ stale' = IF Passing(o, p) \/ Quiet(i) THEN stale ELSE stale \cup {i}
  /\ UNCHANGED value

GoOn(c, p, v) ==
  /\ phase' = [phase EXCEPT ![c] = p]
  /\ value' = [value EXCEPT ![c] = v]
  /\ UNCHANGED <<op, instance, ip>>

Idle(D) ==
  /\ phase' = [c \in Callers |-> IF c \in D THEN "idle" ELSE phase[c]]
  /\ op' = [c \in Callers |-> IF c \in D THEN Null ELSE op[c]]
  /\ instance' = [c \in Callers |-> IF c \in D THEN Null ELSE instance[c]]
  /\ ip' = [c \in Callers |-> IF c \in D THEN Null ELSE ip[c]]
  /\ value' = [c \in Callers |-> IF c \in D THEN Null ELSE value[c]]

Return(c) == Idle({c})

(* The constructor starts the plugin's setup and does not wait for it. *)
Construct(i) ==
  /\ i \notin running /\ running' = running \cup {i}
  /\ IF kind[i] = "keystore"
       THEN /\ \E c \in Callers : Begin(c, "setup", i, Null, "exist")
            /\ UNCHANGED loaded
       ELSE /\ loaded' = [loaded EXCEPT ![i] = TRUE]
            /\ UNCHANGED <<call, stale>>
  /\ UNCHANGED <<config, lists, record>>

(* The process dies.  Its next instance starts from the initial lists. *)
Crash(i) ==
  /\ i \in running /\ running' = running \ {i}
  /\ loaded' = [loaded EXCEPT ![i] = FALSE]
  /\ lists' = [lists EXCEPT ![i] = [allow |-> {}, deny |-> InitialDeny]]
  /\ Idle({c \in Callers : instance[c] = i})
  /\ stale' = stale \ {i}
  /\ UNCHANGED <<config, record>>

-----------------------------------------------------------------------------
(* The lists. *)

Change(o, a, l) ==
  CASE o = "addAllow" -> [l EXCEPT !.allow = @ \cup {a}]
    [] o = "removeAllow" -> [l EXCEPT !.allow = @ \ {a}]
    [] o = "clearAllow" -> [l EXCEPT !.allow = {}]
    [] o = "addDeny" -> [l EXCEPT !.deny = @ \cup {a}]
    [] o = "removeDeny" -> [l EXCEPT !.deny = @ \ {a}]
    [] o = "clearDeny" -> [l EXCEPT !.deny = {}]

(* deny wins over allow, an empty allow list lets everybody in, and so does  *)
(* a request without an address.                                             *)
Refuses(l, a) ==
  /\ a # Null
  /\ a \in l.deny \/ (l.allow # {} /\ a \notin l.allow)

(* The memory plugin's methods are synchronous. *)
ChangeMemory(i) ==
  /\ i \in running /\ kind[i] = "memory"
  /\ \E o \in Changes, a \in Ips : lists' = [lists EXCEPT ![i] = Change(o, a, @)]
  /\ UNCHANGED <<config, running, loaded, record, call, stale>>

(* ensureLoaded comes first in every method but setup and refresh. *)
Call(c, i) ==
  /\ i \in running
  /\ LET first == IF loaded[i] THEN "go" ELSE "load"
     IN  \/ \E a \in Clients : Begin(c, "verifyKey", i, a, first)
         \/ /\ kind[i] = "keystore"
            /\ \/ \E o \in Changes, a \in Ips : Begin(c, o, i, a, first)
               \/ Begin(c, "refresh", i, Null, "load")
  /\ UNCHANGED <<config, running, loaded, lists, record>>

(* SELECT: findKeyById(recordId). *)
Find(c) ==
  /\ phase[c] \in DOMAIN Found
  /\ GoOn(c, Found[phase[c]], record)
  /\ stale' = IF phase[c] = "load" /\ QuietBut(instance[c], {c})
                THEN stale \ {instance[c]} ELSE stale
  /\ UNCHANGED <<config, running, loaded, lists, record>>

(* Mutants: loaded is not set; and loaded is set, but nothing copied. *)
LoadUnmarked(c) ==
  /\ phase[c] = "loading"
  /\ lists' = [lists EXCEPT ![instance[c]] = IF value[c] = Null THEN @ ELSE value[c]]
  /\ IF op[c] \in {"setup", "refresh"} THEN Return(c) ELSE GoOn(c, "go", Null)
  /\ UNCHANGED <<config, running, loaded, record, stale>>

LoadNothing(c) ==
  /\ phase[c] = "loading"
  /\ loaded' = [loaded EXCEPT ![instance[c]] = TRUE]
  /\ IF op[c] \in {"setup", "refresh"} THEN Return(c) ELSE GoOn(c, "go", Null)
  /\ UNCHANGED <<config, running, lists, record, stale>>

(* loadFromStore: the stored lists replace those in memory, all at once. *)
Load(c) ==
  /\ phase[c] = "loading"
  /\ lists' = [lists EXCEPT ![instance[c]] = IF value[c] = Null THEN @ ELSE value[c]]
  /\ loaded' = [loaded EXCEPT ![instance[c]] = TRUE]
  /\ IF op[c] \in {"setup", "refresh"} THEN Return(c) ELSE GoOn(c, "go", Null)
  /\ UNCHANGED <<config, running, record, stale>>

(* The method itself: the lists in memory change, then they are saved. *)
ChangeLists(c) ==
  /\ phase[c] = "go" /\ op[c] \in Changes
  /\ lists' = [lists EXCEPT ![instance[c]] = Change(op[c], ip[c], @)]
  /\ GoOn(c, "save", Null)
  /\ UNCHANGED <<config, running, loaded, record, stale>>

(* Mutant: the stored metadata is spread last, over the lists. *)
SaveStored(c) ==
  /\ phase[c] = "saving"
  /\ IF value[c] = Null THEN GoOn(c, "exist", Null) ELSE GoOn(c, "update", value[c])
  /\ UNCHANGED <<config, running, loaded, lists, record, stale>>

(* saveToStore: the lists of this moment, in a record that was read before.  *)
Save(c) ==
  /\ phase[c] = "saving"
  /\ IF value[c] = Null THEN GoOn(c, "exist", Null) ELSE GoOn(c, "update", lists[instance[c]])
  /\ UNCHANGED <<config, running, loaded, lists, record, stale>>

(* Mutant: the record is created again. *)
EnsureExistsAgain(c) ==
  /\ phase[c] = "existing"
  /\ GoOn(c, "create", lists[instance[c]])
  /\ UNCHANGED <<config, running, loaded, lists, record, stale>>

(* ensureExists: done when the record is there, also when its lists differ.  *)
EnsureExists(c) ==
  /\ phase[c] = "existing"
  /\ IF value[c] = Null THEN GoOn(c, "create", lists[instance[c]])
     ELSE IF op[c] = "setup" THEN GoOn(c, "load", Null) ELSE Return(c)
  /\ UNCHANGED <<config, running, loaded, lists, record, stale>>

(* What createKey leaves of the record. *)
Created(v) == IF record = Null \/ store = "replace" THEN v ELSE record

Wrote(c) == stale' = IF record' = record THEN stale ELSE stale \cup (running \ {instance[c]})

(* createKey, and updateKey.  setup goes on whatever becomes of the first.   *)
Create(c) ==
  /\ phase[c] = "create"
  /\ record' = Created(value[c]) /\ Wrote(c)
  /\ IF op[c] = "setup" THEN GoOn(c, "load", Null) ELSE Return(c)
  /\ UNCHANGED <<config, running, loaded, lists>>

(* The record is there: its caller has read it, and nothing removes it.      *)
Update(c) ==
  /\ phase[c] = "update"
  /\ record' = value[c] /\ Wrote(c)
  /\ Return(c)
  /\ UNCHANGED <<config, running, loaded, lists>>

(* A statement rejects, and may have been applied all the same.  setup goes  *)
(* on, a method rejects, and a hook that throws is skipped by                *)
(* executePluginHooks: the verification goes on to the next hook.            *)
Reject(c) ==
  /\ phase[c] \in DOMAIN Found \cup {"create", "update"}
  /\ \/ UNCHANGED record
     \/ phase[c] = "create" /\ record' = Created(value[c])
     \/ phase[c] = "update" /\ record' = value[c]
  /\ CASE op[c] = "setup" /\ phase[c] # "load" -> GoOn(c, "load", Null)
       [] op[c] = "verifyKey" -> GoOn(c, "rate", Null)
       [] OTHER -> Return(c)
  /\ stale' = IF record' = record THEN stale \cup {instance[c]} ELSE running
  /\ UNCHANGED <<config, running, loaded, lists>>

-----------------------------------------------------------------------------
(* beforeVerify of this plugin, and of the ratelimit plugin after it. *)

Judge(c) ==
  /\ phase[c] = "go" /\ op[c] = "verifyKey"
  /\ IF Refuses(lists[instance[c]], ip[c]) THEN Return(c) ELSE GoOn(c, "rate", Null)
  /\ UNCHANGED <<config, running, loaded, lists, record, stale>>

(* What ratelimit does: refuse (no namespace, or over the limit), pass (no   *)
(* identifier, no limit, an unknown kind, or within the limit) or throw (a   *)
(* duration that cannot be parsed, or a failing store), which counts as a    *)
(* pass.  Either way the verification leaves this model.                     *)
RateLimit(c) ==
  /\ phase[c] = "rate"
  /\ Return(c)
  /\ UNCHANGED <<config, running, loaded, lists, record, stale>>

-----------------------------------------------------------------------------
Step(c) ==
  \/ Find(c) \/ Load(c) \/ ChangeLists(c) \/ Save(c) \/ EnsureExists(c)
  \/ Create(c) \/ Update(c) \/ Reject(c) \/ Judge(c) \/ RateLimit(c)

Next ==
  \/ \E i \in Instances : Construct(i) \/ Crash(i) \/ ChangeMemory(i)
  \/ \E c \in Callers : Step(c) \/ \E i \in Instances : Call(c, i)

Spec == Init /\ [][Next]_vars
-----------------------------------------------------------------------------
(* Properties. *)

(* An address is denied everywhere: in the record, in every loaded instance, *)
(* in the lists every call read or is writing, and in those of a call that   *)
(* found no record.  Where createKey replaces, that call will store them.    *)
Denied(a) ==
  /\ record # Null /\ a \in record.deny
  /\ \A i \in running : loaded[i] => a \in lists[i].deny
  /\ \A c \in Callers :
       /\ value[c] # Null /\ (phase[c] = "create" => store = "replace") => a \in value[c].deny
       /\ value[c] = Null /\ (phase[c] = "loading" \/ (phase[c] = "existing" /\ store = "replace"))
            => a \in lists[instance[c]].deny

Removing(a) ==
  \E c \in Callers : op[c] = "clearDeny" \/ (op[c] = "removeDeny" /\ ip[c] = a)

(* Steps by which the memory plugin forgets: its methods, and a restart,     *)
(* after which it has the initial lists.                                     *)
Forgets == \E i \in Instances : kind[i] # "keystore" /\ (lists'[i] # lists[i] \/ i \notin running)

(* Once an address is denied everywhere it stays so until somebody removes   *)
(* it, through refreshes, saves of other lists, setups of new instances,     *)
(* failing statements, crashes and restarts, on either kind of keystore; and *)
(* no instance that has its lists lets it pass meanwhile.                    *)
DeniedStaysDenied ==
  [][\A a \in Ips : Denied(a) =>
       \/ /\ Denied(a)'
          /\ \A c \in Callers : phase[c] = "go" /\ ip[c] = a => phase'[c] # "rate"
       \/ Removing(a) \/ Removing(a)' \/ Forgets]_vars

(* The lists an instance verifies with are those of the record, so that its  *)
(* changes survive a restart and it knows those of the others: once its      *)
(* calls have been answered, unless since it was constructed or last loaded  *)
(* in peace another instance has written the record, or a call of its own    *)
(* has failed or met another.                                                *)
ListsAreCurrent ==
  \A i \in running \ stale :
    kind[i] = "keystore" /\ Quiet(i) /\ record # Null => lists[i] = record
=============================================================================
