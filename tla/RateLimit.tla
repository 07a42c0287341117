------------------------------ MODULE RateLimit ------------------------------
(***************************************************************************)
(* The ratelimit plugin over a rate-limit store, for one namespace and     *)
(* identifier.  The kind of the request, of the call or of the plugin's    *)
(* defaults, decides which of the store's two algorithms counts it; their  *)
(* states share nothing, so a behaviour uses one kind.                     *)
(***************************************************************************)
EXTENDS Integers

CONSTANTS
  Callers,        (* Concurrent verifications of the identifier.             *)
  Kinds,          (* The kinds an instance ranges over.                      *)
  FixedAdapters,  (* The adapters it ranges over, for fixed windows,         *)
  BucketAdapters, (* and for token buckets.                                  *)
  Limits, Duration, Second, MaxCount,           (* See FixedWindow.          *)
  Capacities, Costs, Refill, Interval, Grain,   (* See TokenBucket.          *)
  MaxTime,        (* Bound on the clock.                                     *)
  Null

VARIABLES
  kind,                                                (* cfg.kind.          *)
  adapter, clock, pc, seen, answer, overlapped,        (* See both modules.  *)
  limit, counter, kNow, admitted, last,                (* See FixedWindow.   *)
  bucket, request, spent                               (* See TokenBucket.   *)

window == <<limit, counter, kNow, admitted, last>>
tokens == <<bucket, request, spent>>
vars == <<kind, adapter, clock, pc, seen, answer, overlapped, window, tokens>>

Window == INSTANCE FixedWindow WITH Adapters <- FixedAdapters
Bucket == INSTANCE TokenBucket WITH Adapters <- BucketAdapters

ASSUME KindsAssumption == Kinds \subseteq {"fixed", "tokenBucket"}
ASSUME StoreAssumption == Window!WindowAssumption /\ Bucket!BucketAssumption

Init ==
  /\ kind \in Kinds
  /\ \/ /\ kind = "fixed" /\ Window!Init
        /\ bucket = Null /\ request = Null /\ spent = Null
     \/ /\ kind = "tokenBucket" /\ Bucket!Init
        /\ limit = Null /\ counter = Null /\ kNow = Null
        /\ admitted = Null /\ last = Null

(* beforeVerify dispatches on cfg.kind. *)
Next ==
  \/ kind = "fixed" /\ Window!Next /\ UNCHANGED <<kind, tokens>>
  \/ kind = "tokenBucket" /\ Bucket!Next /\ UNCHANGED <<kind, window>>

Spec == Init /\ [][Next]_vars
-----------------------------------------------------------------------------
(* The properties, each stated and explained with its algorithm. *)

(* The state of the algorithm in use is well formed. *)
TypeOK == IF kind = "fixed" THEN Window!TypeOK ELSE Bucket!TypeOK

(* A window admits exactly its allowance (FixedWindow). *)
ExactLimit == kind = "fixed" => Window!ExactLimit

(* No answered call leaves a window without an end (FixedWindow). *)
NoEndlessWindow == Window!NoEndlessWindow

(* A bucket grants no more than burst and rate allow (TokenBucket). *)
BurstAndRateBounded == kind = "tokenBucket" => Bucket!BurstAndRateBounded

(* The reset time told to a refused caller is kept, by either algorithm, but *)
(* for the roundings of a bucket.                                            *)
ResetIsKept ==
  IF kind = "fixed" THEN Window!ResetIsKept ELSE Bucket!ResetIsKept
=============================================================================
