----------------------------- MODULE TokenBucket -----------------------------
(***************************************************************************)
(* consumeTokenBucket and reset of the rate-limit stores, for one          *)
(* namespace and identifier: a bucket that refills with time.              *)
(*                                                                         *)
(*   memory, sqlite             one stretch of synchronous code; memory    *)
(*                              keeps the capacity of the first call       *)
(*   redis-eval                 kNow, then one Lua script                  *)
(*   postgres, sqlite-shared,   kNow, a read and a write: Redis without    *)
(*   redis-set, kv              eval and Cloudflare KV store the same as   *)
(*                              "tokens:lastRefill", and processes that    *)
(*                              share an SQLite file interleave            *)
(*                                                                         *)
(* Tokens are fractions in the code, doubles that every refill rounds.     *)
(* They are counted here in shares.  A share is the most that the refill   *)
(* of a call is off by, Lua's tostring with its 14 digits included.  A     *)
(* tick adds Refill * Grain shares but for one share more or less, so a    *)
(* token is Interval * Grain shares: the larger Grain, the finer numbers.  *)
(***************************************************************************)
EXTENDS Integers

CONSTANTS
  Callers,      (* Concurrent verifications of the identifier.                *)
  Adapters,     (* The adapters an instance ranges over.                      *)
  Capacities,   (* capacity of the calls: an application may change its plan. *)
  Costs,        (* cost of the calls.                                         *)
  Refill,       (* refillTokens.                                              *)
  Interval,     (* refillIntervalMs, in ticks.                                *)
  Grain,        (* Precision: the shares in what one tick adds to one token   *)
                (* refilled per interval.                                     *)
  MaxTime,      (* Bound on the clock.                                        *)
  Null          (* No bucket, no answer.                                      *)

Atomic == {"memory", "sqlite", "redis-eval"}
AllAdapters == Atomic \cup {"postgres", "sqlite-shared", "redis-set", "kv"}

Token == Interval * Grain
PerTick == Refill * Grain

Buckets == [shares : Nat, lastRefill : 1..MaxTime, capacity : Capacities \cup {Null}]
Calls == [capacity : Capacities, cost : Costs, kNow : 1..MaxTime]
Refusals == [capacity : Capacities, cost : Costs, since : 1..MaxTime, reset : Nat]

BucketAssumption ==
  /\ Adapters \subseteq AllAdapters
  /\ Capacities \subseteq Nat /\ Costs \subseteq Nat \ {0}
  /\ \E cap \in Capacities : \A other \in Capacities : other <= cap
  /\ Refill \in Nat \ {0} /\ Interval \in Nat \ {0} /\ Grain \in Nat \ {0}
  /\ MaxTime \in Nat \ {0}
  /\ Null \notin Nat \cup Buckets \cup Calls \cup Refusals

VARIABLES
  adapter,      (* The adapter in use.                                        *)
  clock,        (* now().                                                     *)
  bucket,       (* The stored bucket: shares, lastRefill and, for memory,     *)
                (* its capacity.                                              *)
  request,      (* Each call in flight: capacity, cost and kNow.              *)
  pc,           (* Where each call stands.                                    *)
  seen,         (* The bucket a call read.                                    *)
  answer,       (* The first refusal since a call was granted or the capacity *)
                (* of the calls changed: its cost and capacity, its kNow and  *)
                (* the reset time it was told.                                *)
  spent,        (* History: shares granted up to each moment since reset(),   *)
                (* by the bucket's own clock, lastRefill.                     *)
  overlapped    (* History: calls have been in flight at once; answer is no   *)
                (* longer kept, nor spent if the adapter is not atomic.       *)

vars == <<adapter, clock, bucket, request, pc, seen, answer, spent, overlapped>>

TypeOK ==
  /\ adapter \in Adapters /\ clock \in 1..MaxTime
  /\ bucket \in Buckets \cup {Null}
  /\ request \in [Callers -> Calls \cup {Null}]
  /\ \A c \in Callers : request[c] # Null => request[c].kNow <= clock
  /\ pc \in [Callers -> {"idle", "read", "write"}]
  /\ seen \in [Callers -> Buckets \cup {Null}]
  /\ answer \in Refusals \cup {Null}
  /\ spent \in [0..MaxTime -> Nat]
  /\ overlapped \in BOOLEAN

Nothing == [t \in 0..MaxTime |-> 0]

(* The calls made now. *)
Requests == [capacity : Capacities, cost : Costs, kNow : {clock}]

Init ==
  /\ adapter \in Adapters
  /\ clock = 1
  /\ bucket = Null
  /\ request = [c \in Callers |-> Null]
  /\ pc = [c \in Callers |-> "idle"]
  /\ seen = [c \in Callers |-> Null]
  /\ answer = Null
  /\ spent = Nothing
  /\ overlapped = FALSE

-----------------------------------------------------------------------------
(* The arithmetic, the same in every adapter. *)

Smaller(m, n) == IF m < n THEN m ELSE n
Larger(m, n) == IF m > n THEN m ELSE n
CeilDiv(m, n) == (m + n - 1) \div n

(* What a call with request q finds: a full bucket if there is none.  The    *)
(* SQL tables have a column for the capacity, too, which nothing reads.      *)
Loaded(b, q) ==
  IF b # Null THEN b
  ELSE [shares |-> q.capacity * Token, lastRefill |-> q.kNow,
        capacity |-> IF adapter = "memory" THEN q.capacity ELSE Null]

(* The capacity the adapter goes by. *)
CapacityOf(b, q) == IF adapter = "memory" THEN b.capacity ELSE q.capacity

(* The numbers that n may come out as. *)
Rounded(n) == {m \in (n - 1)..(n + 1) : m >= 0}

(* Mutants: any token is enough for any cost; a refill in whole tokens; and  *)
(* one that forgets the capacity.                                            *)
EnoughPositive(b, q) == b.shares > 0

RefilledWhole(b, q) ==
  IF q.kNow <= b.lastRefill THEN {b}
  ELSE {[b EXCEPT !.shares = Smaller(CapacityOf(b, q) * Token,
                               @ + (((q.kNow - b.lastRefill) * PerTick) \div Token) * Token),
                  !.lastRefill = q.kNow]}

RefilledOver(b, q) ==
  IF q.kNow <= b.lastRefill THEN {b}
  ELSE {[b EXCEPT !.shares = n, !.lastRefill = q.kNow] :
          n \in Rounded(b.shares + (q.kNow - b.lastRefill) * PerTick)}

(* No time passed, or a clock that went backwards, leaves the bucket alone. *)
Refilled(b, q) ==
  IF q.kNow <= b.lastRefill THEN {b}
  ELSE {[b EXCEPT !.shares = Smaller(CapacityOf(b, q) * Token, n), !.lastRefill = q.kNow] :
          n \in Rounded(b.shares + (q.kNow - b.lastRefill) * PerTick)}

Enough(b, q) == b.shares >= q.cost * Token

(* When a refused caller is told to come back: the wait is rounded up, and   *)
(* before that the number it is computed as.                                 *)
ResetAt(b, q) ==
  {q.kNow + CeilDiv(missing, PerTick) : missing \in Rounded(q.cost * Token - b.shares)}

-----------------------------------------------------------------------------
(* What has been spent once n more shares are granted at moment t. *)
SpentMore(t, n) == [u \in 0..MaxTime |-> IF u < t THEN spent[u] ELSE spent[u] + n]

(* The order of calls is that of their effects, or they do not overlap. *)
Kept == adapter \in Atomic \/ ~overlapped

(* A call with request q takes its tokens from the bucket b it refilled, and *)
(* leaves the rest.  A refused call stores the refilled bucket, too.         *)
Grant(b, rest, q) ==
  /\ Enough(b, q)
  /\ bucket' = [rest EXCEPT !.shares = Larger(0, @ - q.cost * Token)]
  /\ answer' = Null
  /\ spent' = IF Kept THEN SpentMore(b.lastRefill, q.cost * Token) ELSE Nothing

Refuse(b, rest, q) ==
  /\ ~Enough(b, q)
  /\ bucket' = rest
  /\ \E t \in ResetAt(b, q) :
       answer' = IF overlapped THEN Null
                 ELSE IF answer # Null /\ answer.capacity = q.capacity THEN answer
                 ELSE [capacity |-> q.capacity, cost |-> q.cost,
                       since |-> q.kNow, reset |-> t]
  /\ UNCHANGED spent

(* The script of Redis decides with the number and stores its text, which    *)
(* may round the other way.                                                  *)
Consume(found, q) ==
  \E b \in Refilled(found, q) :
    \E rest \in IF adapter = "redis-eval" THEN Refilled(found, q) ELSE {b} :
      Grant(b, rest, q) \/ Refuse(b, rest, q)

InFlight == \E c \in Callers : pc[c] # "idle"

ConsumeAtOnce ==
  /\ adapter \in {"memory", "sqlite"}
  /\ \E q \in Requests : Consume(Loaded(bucket, q), q)
  /\ UNCHANGED <<adapter, clock, request, pc, seen, overlapped>>

Begin(c) ==
  /\ adapter \notin {"memory", "sqlite"}
  /\ pc[c] = "idle"
  /\ pc' = [pc EXCEPT ![c] = "read"]
  /\ \E q \in Requests : request' = [request EXCEPT ![c] = q]
  /\ IF InFlight
       THEN /\ overlapped' = TRUE /\ answer' = Null
            /\ spent' = IF adapter \in Atomic THEN spent ELSE Nothing
       ELSE UNCHANGED <<overlapped, answer, spent>>
  /\ UNCHANGED <<adapter, clock, bucket, seen>>

Read(c) ==
  /\ pc[c] = "read" /\ adapter # "redis-eval"
  /\ seen' = [seen EXCEPT ![c] = bucket]
  /\ pc' = [pc EXCEPT ![c] = "write"]
  /\ UNCHANGED <<adapter, clock, bucket, request, answer, spent, overlapped>>

Leave(c) ==
  /\ pc' = [pc EXCEPT ![c] = "idle"]
  /\ request' = [request EXCEPT ![c] = Null]
  /\ seen' = [seen EXCEPT ![c] = Null]
  /\ UNCHANGED <<adapter, clock, overlapped>>

Write(c) ==
  /\ pc[c] = "write"
  /\ Consume(Loaded(seen[c], request[c]), request[c])
  /\ Leave(c)

Script(c) ==
  /\ pc[c] = "read" /\ adapter = "redis-eval"
  /\ Consume(Loaded(bucket, request[c]), request[c])
  /\ Leave(c)

(* The process stops, or the client rejects, before the write. *)
Abort(c) ==
  /\ pc[c] # "idle"
  /\ Leave(c)
  /\ UNCHANGED <<bucket, answer, spent>>

Reset ==
  /\ bucket' = Null
  /\ answer' = Null
  /\ spent' = Nothing
  /\ overlapped' = InFlight
  /\ UNCHANGED <<adapter, clock, request, pc, seen>>

Tick ==
  /\ clock < MaxTime
  /\ clock' = clock + 1
  /\ UNCHANGED <<adapter, bucket, request, pc, seen, answer, spent, overlapped>>

Next == \/ Tick \/ Reset \/ ConsumeAtOnce
        \/ \E c \in Callers : Begin(c) \/ Script(c) \/ Read(c) \/ Write(c) \/ Abort(c)

Spec == Init /\ [][Next]_vars
-----------------------------------------------------------------------------
(* Properties. *)

SpentBetween(t, u) == spent[u] - spent[t - 1]

Largest == CHOOSE cap \in Capacities : \A other \in Capacities : other <= cap

(* "Start with a capacity, refill tokens over time": in any stretch of time  *)
(* a bucket grants no more than a full bucket and what flowed in meanwhile,  *)
(* but for a share for each moment at which it was refilled, however plans   *)
(* change between calls, fractions add up and calls are refused or aborted.  *)
(* It holds under any interleaving where consumption is one step, and        *)
(* elsewhere as long as calls do not overlap.                                *)
BurstAndRateBounded ==
  Kept =>
    \A t \in 1..clock : \A u \in t..clock :
      SpentBetween(t, u) <= Largest * Token + 1 + (u - t) * (PerTick + 1)

(* What refills and roundings may have taken from the caller refused with    *)
(* answer a: a share for each moment since, one for the wait told, and two   *)
(* between the numbers decided with and stored.                              *)
Drift(a) == clock - a.since + 3

(* The reset time told with a refusal is kept, but for roundings: if no call *)
(* has been granted since and the cost fits the bucket, the same request     *)
(* passes as soon as what flowed in after that time makes up for the drift,  *)
(* how often ever it was polled for.  Exactly at the reset time it may be    *)
(* refused: ten refills of a tenth of a token need not add up to one.        *)
ResetIsKept ==
  ~overlapped /\ answer # Null /\ (clock - answer.reset) * PerTick >= Drift(answer) =>
    LET q == [capacity |-> answer.capacity, cost |-> answer.cost, kNow |-> clock]
    IN  \A b \in Refilled(bucket, q) : q.cost <= CapacityOf(b, q) => Enough(b, q)
=============================================================================
