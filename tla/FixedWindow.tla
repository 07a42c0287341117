----------------------------- MODULE FixedWindow -----------------------------
(***************************************************************************)
(* incrementAndCheck and reset of the rate-limit stores, for one namespace *)
(* and identifier: a counter that lives until its reset time.              *)
(*                                                                         *)
(*   memory, sqlite   one stretch of synchronous code                      *)
(*   sqlite-shared    processes that share the file: SELECT, then an       *)
(*                    upsert or an UPDATE, in no transaction               *)
(*   redis-eval       kNow, then one Lua script                            *)
(*   redis-incr       INCR, PTTL, PEXPIRE, when the client has no eval     *)
(*   redis-ttl        the same for a client that has TTL, but not PTTL,    *)
(*   redis-nottl      and for one that has neither                         *)
(*   postgres         SELECT, then an upsert or an UPDATE                  *)
(*   kv               get, then put (Cloudflare KV)                        *)
(*                                                                         *)
(* A behaviour uses one adapter with one limit.  In all but the first line *)
(* other callers step in between, and a call may end early: its process    *)
(* stops, or the client rejects and the plugin hook is skipped.            *)
(***************************************************************************)
EXTENDS Integers

CONSTANTS
  Callers,    (* Concurrent verifications of the identifier.                  *)
  Adapters,   (* The adapters an instance ranges over.                        *)
  Limits,     (* Values of limit.                                             *)
  Duration,   (* durationMs, in ticks.                                        *)
  Second,     (* A second, in ticks: TTL and expirationTtl count in seconds.  *)
  MaxTime,    (* Bound on the clock.                                          *)
  MaxCount,   (* Bound: no call begins while the counter is this high.        *)
  Null        (* No row, no key, no expiry, no answer.                        *)

(* Adapters that increment with INCR, those whose increment is atomic, and   *)
(* those that read a row and write it back.                                  *)
Incrementing == {"redis-incr", "redis-ttl", "redis-nottl"}
Counting == {"memory", "sqlite", "redis-eval"} \cup Incrementing
RowStores == {"postgres", "sqlite-shared"}
AllAdapters == Counting \cup RowStores \cup {"kv"}

Counters == [count : Nat \ {0}, reset : Nat \cup {Null}]
Answers == [success : BOOLEAN, reset : Nat]
Decisions == [ok : BOOLEAN, before : Nat]

WindowAssumption ==
  /\ Adapters \subseteq AllAdapters
  /\ Limits \subseteq Nat
  /\ Duration \in Nat \ {0} /\ Second \in Nat \ {0} /\ MaxTime \in Nat \ {0} /\ MaxCount \in Nat
  /\ Null \notin Nat \cup Counters \cup Answers \cup Decisions

VARIABLES
  adapter,      (* The adapter in use.                                        *)
  limit,        (* The limit every call is given.                             *)
  clock,        (* now(), and the server's clock where the server expires.    *)
  counter,      (* The row or key: its count and reset time.                  *)
  pc,           (* Where each call stands.                                    *)
  kNow,         (* The local kNow of a call: the clock when it began.         *)
  seen,         (* What the call read: the row, the count, or INCR's answer.  *)
  answer,       (* Each caller's last answer since reset() was called.        *)
  admitted,     (* History: calls charged to the current window.              *)
  last,         (* History: the last decision, and the calls charged before.  *)
  overlapped    (* History: two calls have been in flight at once.            *)

ghosts == <<admitted, last>>
vars == <<adapter, limit, clock, counter, pc, kNow, seen, answer, admitted,
          last, overlapped>>

(* The window is open.  An expired row stays but reads as none; an expired   *)
(* key is gone.                                                              *)
Open == counter # Null /\ (counter.reset = Null \/ counter.reset > clock)
Charged == IF Open THEN admitted ELSE 0
Current == IF Open THEN counter.count ELSE 0

TypeOK ==
  /\ adapter \in Adapters /\ limit \in Limits /\ clock \in 1..MaxTime
  /\ counter \in Counters \cup {Null}
  /\ counter # Null /\ counter.reset = Null => adapter \in Incrementing
  /\ pc \in [Callers -> {"idle", "read", "write", "pttl", "pexpire"}]
  /\ kNow \in [Callers -> 0..clock]
  /\ answer \in [Callers -> Answers \cup {Null}]
  /\ overlapped \in BOOLEAN
  /\ admitted \in Nat /\ last \in Decisions \cup {Null}

Init ==
  /\ adapter \in Adapters /\ limit \in Limits
  /\ clock = 1
  /\ counter = Null
  /\ pc = [c \in Callers |-> "idle"]
  /\ kNow = [c \in Callers |-> 0]
  /\ seen = [c \in Callers |-> Null]
  /\ answer = [c \in Callers |-> Null]
  /\ admitted = 0 /\ last = Null
  /\ overlapped = FALSE

-----------------------------------------------------------------------------
(* A call enters, and answers. *)

Enter(c) ==
  /\ pc[c] = "idle"
  /\ Current < MaxCount
  /\ overlapped' = (overlapped \/ \E d \in Callers : pc[d] # "idle")
  /\ UNCHANGED <<adapter, limit, clock>>

Answer(c, ok, t) ==
  /\ pc' = [pc EXCEPT ![c] = "idle"]
  /\ kNow' = [kNow EXCEPT ![c] = 0]
  /\ seen' = [seen EXCEPT ![c] = Null]
  /\ answer' = [answer EXCEPT ![c] = [success |-> ok, reset |-> t]]

Wait(c, phase, row) ==
  /\ pc' = [pc EXCEPT ![c] = phase]
  /\ seen' = [seen EXCEPT ![c] = row]
  /\ answer' = [answer EXCEPT ![c] = Null]

(* The store has taken the decision, in a window that has admitted n calls:  *)
(* an admitted call is charged.                                              *)
DecideAfter(n, ok) ==
  /\ last' = [ok |-> ok, before |-> n]
  /\ admitted' = IF ok THEN n + 1 ELSE n

Decide(ok) == DecideAfter(Charged, ok)

-----------------------------------------------------------------------------
(* memory.ts and sqlite.ts. *)

(* Mutant: a window that slides with every request, refused ones included. *)
HitSliding(c) ==
  /\ adapter \in {"memory", "sqlite"}
  /\ Enter(c)
  /\ LET ok == ~Open \/ counter.count < limit
     IN  /\ counter' = [count |-> IF ok THEN Current + 1 ELSE Current,
                        reset |-> clock + Duration]
         /\ Decide(ok) /\ Answer(c, ok, clock + Duration)

HitAtOnce(c) ==
  /\ adapter \in {"memory", "sqlite"}
  /\ Enter(c)
  /\ \/ /\ ~Open
        /\ counter' = [count |-> 1, reset |-> clock + Duration]
        /\ Decide(TRUE) /\ Answer(c, TRUE, clock + Duration)
     \/ /\ Open /\ counter.count < limit
        /\ counter' = [counter EXCEPT !.count = @ + 1]
        /\ Decide(TRUE) /\ Answer(c, TRUE, counter.reset)
     \/ /\ Open /\ counter.count >= limit
        /\ UNCHANGED counter
        /\ Decide(FALSE) /\ Answer(c, FALSE, counter.reset)

-----------------------------------------------------------------------------
(* redis.ts, postgres.ts and cloudflare-kv.ts read kNow, then await; another *)
(* process may step in before the next statement of sqlite.ts.               *)

Begin(c) ==
  /\ adapter \in RowStores \cup {"redis-eval", "kv"}
  /\ Enter(c)
  /\ Wait(c, "read", Null)
  /\ kNow' = [kNow EXCEPT ![c] = clock]
  /\ UNCHANGED <<counter, ghosts>>

(* Mutant: a script that never sets the expiry. *)
ScriptEndless(c) ==
  /\ adapter = "redis-eval" /\ pc[c] = "read"
  /\ counter' = [count |-> Current + 1, reset |-> Null]
  /\ LET ok == Current = 0 \/ Current + 1 <= limit
     IN  Decide(ok) /\ Answer(c, ok, kNow[c] + Duration)
  /\ UNCHANGED <<adapter, limit, clock, overlapped>>

(* The script of redis.ts: INCR, and PEXPIRE by the call that created the    *)
(* key.  The reset time adds the server's PTTL to the caller's kNow.         *)
Script(c) ==
  /\ adapter = "redis-eval" /\ pc[c] = "read"
  /\ \/ /\ Current = 0
        /\ counter' = [count |-> 1, reset |-> clock + Duration]
        /\ Decide(TRUE) /\ Answer(c, TRUE, kNow[c] + Duration)
     \/ /\ Current > 0
        /\ counter' = [counter EXCEPT !.count = @ + 1]
        /\ LET ok == Current + 1 <= limit
           IN  Decide(ok) /\ Answer(c, ok, kNow[c] + (counter.reset - clock))
  /\ UNCHANGED <<adapter, limit, clock, overlapped>>

-----------------------------------------------------------------------------
(* redis.ts without eval. *)

Incr(c) ==
  /\ adapter \in Incrementing
  /\ Enter(c)
  /\ counter' = [count |-> Current + 1, reset |-> IF Open THEN counter.reset ELSE Null]
  /\ Decide(Current + 1 <= limit)
  /\ Wait(c, "pttl", Current + 1)
  /\ UNCHANGED kNow

(* What is left of the window: negative when there is no key or no expiry,   *)
(* when the client cannot tell, and when TTL rounds it down to no second.    *)
Ttl ==
  LET left == counter.reset - clock
      seconds == (left + Second \div 2) \div Second
  IN  IF ~Open \/ counter.reset = Null THEN -1
      ELSE CASE adapter = "redis-incr" -> left
             [] adapter = "redis-ttl" /\ seconds > 0 -> seconds * Second
             [] OTHER -> -1

(* Mutant: only the call that created the key sets its expiry. *)
MustExpireFirst(n) == n = 1

MustExpire(n) == n = 1 \/ Ttl < 0

Pttl(c) ==
  /\ pc[c] = "pttl"
  /\ IF MustExpire(seen[c])
       THEN Wait(c, "pexpire", seen[c]) /\ UNCHANGED kNow
       ELSE Answer(c, seen[c] <= limit, clock + IF Ttl > 0 THEN Ttl ELSE Duration)
  /\ UNCHANGED <<adapter, limit, clock, counter, ghosts, overlapped>>

Pexpire(c) ==
  /\ pc[c] = "pexpire"
  /\ counter' = IF Open THEN [counter EXCEPT !.reset = clock + Duration] ELSE counter
  /\ Answer(c, seen[c] <= limit, clock + Duration)
  /\ UNCHANGED <<adapter, limit, clock, ghosts, overlapped>>

-----------------------------------------------------------------------------
(* postgres.ts, sqlite.ts between processes, and cloudflare-kv.ts. *)

(* Mutant: the comparison lets one more request through. *)
FullLater(row) == row.count > limit

Full(row) == row.count >= limit

(* Calls charged to the row's window, if that is open at kNow. *)
ChargedAt(t) == IF counter # Null /\ counter.reset > t THEN admitted ELSE 0

(* A full window answers without another statement. *)
Select(c) ==
  /\ adapter \in RowStores /\ pc[c] = "read"
  /\ IF counter # Null /\ counter.reset > kNow[c] /\ Full(counter)
       THEN DecideAfter(ChargedAt(kNow[c]), FALSE) /\ Answer(c, FALSE, counter.reset)
       ELSE Wait(c, "write", counter) /\ UNCHANGED <<kNow, ghosts>>
  /\ UNCHANGED <<adapter, limit, clock, counter, overlapped>>

(* No row, or an expired one: the upsert opens a window.  Else the UPDATE    *)
(* writes the count computed from the row read, whatever row is there now.   *)
Write(c) ==
  /\ adapter \in RowStores /\ pc[c] = "write"
  /\ IF seen[c] = Null \/ seen[c].reset <= kNow[c]
       THEN /\ counter' = [count |-> 1, reset |-> kNow[c] + Duration]
            /\ Answer(c, TRUE, kNow[c] + Duration)
       ELSE /\ counter' = IF counter = Null THEN Null
                          ELSE [counter EXCEPT !.count = seen[c].count + 1]
            /\ Answer(c, TRUE, seen[c].reset)
  /\ DecideAfter(ChargedAt(kNow[c]), TRUE)
  /\ UNCHANGED <<adapter, limit, clock, overlapped>>

Get(c) ==
  /\ adapter = "kv" /\ pc[c] = "read"
  /\ Wait(c, "write", Current)
  /\ UNCHANGED <<adapter, limit, clock, counter, kNow, ghosts, overlapped>>

(* expirationTtl: durationMs in seconds, rounded up. *)
ExpirationTtl == ((Duration + Second - 1) \div Second) * Second

(* Every put renews the expiry, that of a rejected request too, and writes   *)
(* the count computed from the one read, even if the key has expired since.  *)
Put(c) ==
  /\ adapter = "kv" /\ pc[c] = "write"
  /\ counter' = [count |-> seen[c] + 1, reset |-> clock + ExpirationTtl]
  /\ LET ok == seen[c] = 0 \/ seen[c] + 1 <= limit
     IN  /\ DecideAfter(IF seen[c] = 0 THEN Charged ELSE admitted, ok)
         /\ Answer(c, ok, kNow[c] + Duration)
  /\ UNCHANGED <<adapter, limit, clock, overlapped>>

-----------------------------------------------------------------------------
Reset(c) ==
  /\ Enter(c)
  /\ counter' = Null
  /\ admitted' = 0
  /\ answer' = [d \in Callers |-> Null]
  /\ UNCHANGED <<pc, kNow, seen, last>>

Abort(c) ==
  /\ pc[c] # "idle"
  /\ pc' = [pc EXCEPT ![c] = "idle"]
  /\ kNow' = [kNow EXCEPT ![c] = 0]
  /\ seen' = [seen EXCEPT ![c] = Null]
  /\ UNCHANGED <<adapter, limit, clock, counter, answer, ghosts, overlapped>>

Tick ==
  /\ clock < MaxTime
  /\ clock' = clock + 1
  /\ UNCHANGED <<adapter, limit, counter, pc, kNow, seen, answer, ghosts, overlapped>>

IncrementAndCheck(c) ==
  \/ HitAtOnce(c)
  \/ Incr(c) \/ Pttl(c) \/ Pexpire(c)
  \/ Begin(c) \/ Script(c) \/ Select(c) \/ Write(c) \/ Get(c) \/ Put(c)

Next == Tick \/ \E c \in Callers : IncrementAndCheck(c) \/ Reset(c) \/ Abort(c)

Spec == Init /\ [][Next]_vars
-----------------------------------------------------------------------------
(* Properties. *)

(* What a window lets through: the limit, and where the store creates the    *)
(* counter without looking at the limit, at least the first request.         *)
Allowance == IF limit = 0 /\ adapter \notin Incrementing THEN 1 ELSE limit

(* A request is admitted exactly when the window has admitted fewer than its *)
(* allowance: none over the limit, and none refused for requests that were   *)
(* refused, aborted before they counted, or admitted in an earlier window.   *)
(* It holds under any interleaving where the increment is one command, and   *)
(* elsewhere, and between processes that share an SQLite file, as long as    *)
(* calls do not overlap.                                                     *)
ExactLimit ==
  (adapter \in Counting \/ ~overlapped) /\ last # Null
    => (last.ok <=> last.before < Allowance)

(* The reset time told to a refused caller is kept: once it has come, the    *)
(* window is over, or a whole one has been opened since.  Left out are kv,   *)
(* which renews the expiry with every refused request, Redis without eval,   *)
(* where the key may expire between INCR and PTTL or be given a new expiry,  *)
(* and redis-eval, whose answer is early by the time the script was on its   *)
(* way.                                                                      *)
ResetIsKept ==
  adapter \in {"memory", "sqlite"} \/ (adapter \in RowStores /\ ~overlapped)
    => \A c \in Callers :
         answer[c] # Null /\ ~answer[c].success /\ clock >= answer[c].reset
           => ~Open \/ counter.reset >= answer[c].reset + Duration

(* No call answers and leaves a counter without expiry behind, whatever call *)
(* died between INCR and PEXPIRE before: the window of a crashed process     *)
(* ends, too, once the identifier is used again.                             *)
NoEndlessWindow ==
  [][\A c \in Callers :
       pc[c] \in {"pttl", "pexpire"} /\ pc'[c] = "idle" /\ answer'[c] # Null
         => counter' = Null \/ counter'.reset # Null]_vars
=============================================================================
