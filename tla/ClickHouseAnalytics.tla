------------------------- MODULE ClickHouseAnalytics -------------------------
(***************************************************************************)
(* The buffering analytics adapter of clickhouse.ts: track queues events,  *)
(* a timer and full batches start a flush, and a flush inserts one batch   *)
(* at a time until the queue is empty or an insert fails.  The adapter     *)
(* runs on one event loop; its only awaits are on inserts.                 *)
(*                                                                         *)
(* Events are numbered in the order in which they are tracked.             *)
(***************************************************************************)
EXTENDS Integers, Sequences, SequencesExt

CONSTANTS
  BatchSize,     (* options.batchSize, at least 1 after the constructor.      *)
  Interval,      (* Whether options.flushIntervalMs > 0.                      *)
  Timeout,       (* Whether an insert can time out: HTTP with timeoutMs > 0.  *)
  MaxEvents,     (* Bound on the events tracked.                              *)
  MaxFailures    (* Bound on the inserts that fail.                           *)

ASSUME ParametersAssumption ==
  /\ BatchSize \in Nat \ {0} /\ MaxEvents \in Nat /\ MaxFailures \in Nat
  /\ Interval \in BOOLEAN /\ Timeout \in BOOLEAN

VARIABLES
  tracked,      (* How many events track has been given.                     *)
  queue,        (* this.queue.                                               *)
  isFlushing,   (* this.isFlushing.                                          *)
  flushes,      (* The flushes waiting for an insert: the batch each one has *)
                (* taken off the queue, and whether close() awaits it.       *)
  timer,        (* "pending" until the microtask of the constructor has run, *)
                (* then "on" while the interval is set.                      *)
  closing,      (* "open", "waiting" in close(), "closed" after it returned. *)
  failures,     (* Inserts that have failed.                                 *)
  abandoned,    (* Batches of inserts that timed out and may yet be stored.  *)
  table         (* The rows of the ClickHouse table in order of arrival.     *)

vars == <<tracked, queue, isFlushing, flushes, timer, closing, failures,
          abandoned, table>>

Events == 1..MaxEvents

TypeOK ==
  /\ tracked \in 0..MaxEvents
  /\ queue \in Seq(Events) /\ table \in Seq(Events)
  /\ isFlushing \in BOOLEAN /\ isFlushing <=> flushes # {}
  /\ flushes \subseteq [batch : Seq(Events) \ {<<>>}, awaited : BOOLEAN]
  /\ timer \in {"pending", "on", "off"}
  /\ closing \in {"open", "waiting", "closed"}
  /\ failures \in 0..MaxFailures
  /\ abandoned \in Seq(Seq(Events))

Init ==
  /\ tracked = 0 /\ queue = <<>> /\ isFlushing = FALSE /\ flushes = {}
  /\ timer = "pending" /\ closing = "open" /\ failures = 0
  /\ abandoned = <<>> /\ table = <<>>

-----------------------------------------------------------------------------
(* Queue.splice(0, batchSize) and what it leaves. *)
NextBatch(q) == SubSeq(q, 1, IF Len(q) < BatchSize THEN Len(q) ELSE BatchSize)
(* Mutant: a splice that leaves the last event it returned. *)
RemainingOverlap(q) == SubSeq(q, BatchSize, Len(q))
Remaining(q) == SubSeq(q, BatchSize + 1, Len(q))

(* The end of a flush; close() returns when the flush it awaits ends. *)
Ends(awaited) == closing' = IF awaited THEN "closed" ELSE closing

(* The head of the loop, with q queued and the other flushes in progress:    *)
(* one more insert, or the end.                                              *)
Drain(q, others, awaited) ==
  IF q = <<>>
    THEN queue' = q /\ isFlushing' = FALSE /\ flushes' = others /\ Ends(awaited)
    ELSE /\ queue' = Remaining(q) /\ isFlushing' = TRUE
         /\ flushes' = others \cup {[batch |-> NextBatch(q), awaited |-> awaited]}
         /\ closing' = IF awaited THEN "waiting" ELSE closing

(* Mutant: flushes that overlap. *)
FlushAlways(q, awaited) == Drain(q, flushes, awaited)

(* flush() up to its first await. *)
Flush(q, awaited) ==
  IF isFlushing
    THEN queue' = q /\ UNCHANGED <<isFlushing, flushes>> /\ Ends(awaited)
    ELSE Drain(q, flushes, awaited)

-----------------------------------------------------------------------------
Start ==
  /\ timer = "pending"
  /\ timer' = IF Interval THEN "on" ELSE "off"
  /\ UNCHANGED <<tracked, queue, isFlushing, flushes, closing, failures,
                 abandoned, table>>

Track ==
  /\ tracked < MaxEvents
  /\ tracked' = tracked + 1
  /\ LET q == Append(queue, tracked + 1)
     IN  IF Len(q) >= BatchSize
           THEN Flush(q, FALSE)
           ELSE queue' = q /\ UNCHANGED <<isFlushing, flushes, closing>>
  /\ UNCHANGED <<timer, failures, abandoned, table>>

TimerFires ==
  /\ timer = "on"
  /\ Flush(queue, FALSE)
  /\ UNCHANGED <<tracked, timer, failures, abandoned, table>>

(* An insert succeeds and the loop goes on. *)
InsertSucceeds(f) ==
  /\ table' = table \o f.batch
  /\ Drain(queue, flushes \ {f}, f.awaited)
  /\ UNCHANGED <<tracked, timer, failures, abandoned>>

(* Mutants: a failed batch goes to the end of the queue, or is dropped, or   *)
(* isFlushing stays set.                                                     *)
RequeueLast(f) ==
  /\ queue' = queue \o f.batch
  /\ isFlushing' = FALSE /\ flushes' = flushes \ {f} /\ Ends(f.awaited)

Forget(f) ==
  /\ queue' = queue
  /\ isFlushing' = FALSE /\ flushes' = flushes \ {f} /\ Ends(f.awaited)

RequeueStuck(f) ==
  /\ queue' = f.batch \o queue
  /\ flushes' = flushes \ {f} /\ Ends(f.awaited)
  /\ UNCHANGED isFlushing

(* A failed batch goes back to the front and the flush ends. *)
Requeue(f) ==
  /\ queue' = f.batch \o queue
  /\ isFlushing' = FALSE /\ flushes' = flushes \ {f} /\ Ends(f.awaited)

(* The client rejects, fetch rejects or the response is not ok.  The rows    *)
(* may have been stored: the answer can be what was lost.                    *)
InsertFails(f) ==
  /\ failures < MaxFailures /\ failures' = failures + 1
  /\ table' \in {table, table \o f.batch}
  /\ Requeue(f)
  /\ UNCHANGED <<tracked, timer, abandoned>>

(* withTimeout gives up on the request but does not cancel it. *)
InsertTimesOut(f) ==
  /\ Timeout
  /\ failures < MaxFailures /\ failures' = failures + 1
  /\ abandoned' = Append(abandoned, f.batch)
  /\ Requeue(f)
  /\ UNCHANGED <<tracked, timer, table>>

AbandonedArrives ==
  \E i \in 1..Len(abandoned) :
    /\ table' = table \o abandoned[i]
    /\ abandoned' = RemoveAt(abandoned, i)
    /\ UNCHANGED <<tracked, queue, isFlushing, flushes, timer, closing, failures>>

Close ==
  /\ closing = "open"
  /\ timer' = IF timer = "on" THEN "off" ELSE timer
  /\ Flush(queue, TRUE)
  /\ UNCHANGED <<tracked, failures, abandoned, table>>

Answered(f) == InsertSucceeds(f) \/ InsertFails(f) \/ InsertTimesOut(f)

Next ==
  \/ Start \/ Track \/ TimerFires \/ Close \/ AbandonedArrives
  \/ \E f \in flushes : Answered(f)

Spec == Init /\ [][Next]_vars

(* The runtime runs microtasks and timers, and every insert is answered:     *)
(* withTimeout sees to it over HTTP, a client has to by itself.              *)
FairSpec ==
  /\ Spec
  /\ WF_vars(Start) /\ WF_vars(TimerFires)
  /\ WF_vars(\E f \in flushes : Answered(f))

-----------------------------------------------------------------------------
(* Properties. *)

(* What the adapter still has to store, in the order it will store it. *)
Pending == IF flushes = {} THEN queue
                           ELSE (CHOOSE f \in flushes : TRUE).batch \o queue

(* Whatever fails and whenever events are tracked meanwhile, the adapter     *)
(* holds exactly the latest events, each once and in order, and all earlier  *)
(* ones are stored: nothing is lost, skipped or queued twice.                *)
BufferIsSuffix ==
  LET stored == tracked - Len(Pending)
  IN  /\ Cardinality(flushes) <= 1
      /\ \A i \in 1..Len(Pending) : Pending[i] = stored + i
      /\ 1..stored \subseteq ToSet(table)

(* The table never has an event without all that came before it: a batch is  *)
(* not overtaken by later ones, even when it failed or timed out.            *)
StoredInOrder == \A i \in 1..Len(table) :
                   \A e \in 1..table[i] : e \in ToSet(SubSeq(table, 1, i))

(* While inserts succeed no event is stored twice. *)
DuplicatesNeedFailures ==
  Len(table) > Cardinality(ToSet(table)) => failures > 0

(* An event is stored at last, once inserts stop failing, unless the adapter *)
(* is closed.                                                                *)
EventuallyStored ==
  \A e \in Events : tracked >= e ~> e \in ToSet(table) \/ closing # "open"

(* clickhouse.mdx: "Call analytics.close() on shutdown to stop timer and     *)
(* flush remaining events".  When close returns, no event tracked before it  *)
(* was called is waiting (no insert failing).                                *)
CloseFlushes == [][closing' = "closed" /\ closing # "closed" =>
                     Pending' = <<>> \/ Pending'[1] > tracked]_vars
=============================================================================
