--------------------------- MODULE RateLimitProofs ---------------------------
(***************************************************************************)
(* Proofs about RateLimit for every number of callers, every limit, cost,  *)
(* capacity, duration and refill rate: first fixed windows, then token     *)
(* buckets.                                                                *)
(***************************************************************************)
EXTENDS RateLimit, TLAPS

-----------------------------------------------------------------------------
(* Fixed windows. *)

USE DEF Window!Incrementing, Window!RowStores

(* The adapters whose phases a call goes through, and what it has read.      *)
InPhase(c) ==
  /\ pc[c] = "read" => adapter \in Window!RowStores \cup {"redis-eval", "kv"}
  /\ pc[c] = "write" /\ adapter \in Window!RowStores => seen[c] \in Window!Counters \cup {Null}
  /\ pc[c] = "write" /\ adapter \in Window!RowStores /\ seen[c] # Null => seen[c].reset # Null
  /\ pc[c] = "write" /\ adapter \notin Window!RowStores => adapter = "kv" /\ seen[c] \in Nat
  /\ pc[c] \in {"pttl", "pexpire"} => adapter \in Window!Incrementing /\ seen[c] \in Nat
  /\ pc[c] # "idle" => answer[c] = Null

Smaller(m, n) == IF m < n THEN m ELSE n

(* One call at a time, or an adapter whose increment is atomic.              *)
Serial == ~overlapped => \A c, d \in Callers : pc[c] # "idle" /\ pc[d] # "idle" => c = d

(* How many calls the window has admitted, as its counter has it: some       *)
(* adapters count the calls they refuse, too.                                *)
Admissions ==
  /\ adapter \in {"memory", "sqlite"} /\ Window!Open => admitted = counter.count
  /\ adapter \in Window!RowStores /\ ~overlapped /\ counter # Null => admitted = counter.count
  /\ adapter \in Window!Incrementing \cup {"redis-eval"} \/ (adapter = "kv" /\ ~overlapped)
       => (Window!Open => admitted = Smaller(counter.count, Window!Allowance))

(* What a call that does not overlap with others has read still holds.       *)
ReadHolds(c) ==
  ~overlapped /\ pc[c] = "write" =>
    /\ adapter \in Window!RowStores =>
         /\ seen[c] = counter
         /\ seen[c] # Null /\ seen[c].reset > kNow[c] => seen[c].count < limit
    /\ adapter = "kv" => IF seen[c] = 0 THEN ~Window!Open
                         ELSE admitted = Smaller(seen[c], Window!Allowance)

(* What a refused caller has been told, and the window since.                *)
RefusalKept(c) ==
  /\ adapter \in {"memory", "sqlite"} \/ (adapter \in Window!RowStores /\ ~overlapped)
  /\ answer[c] # Null /\ ~answer[c].success
  => /\ counter # Null
     /\ counter.reset = answer[c].reset \/ counter.reset >= answer[c].reset + Duration

WindowInv ==
  /\ Window!TypeOK /\ Window!ExactLimit /\ Serial /\ Admissions
  /\ \A c \in Callers : InPhase(c) /\ ReadHolds(c) /\ RefusalKept(c)
  /\ seen \in [Callers -> Nat \cup Window!Counters \cup {Null}]

LEMMA WindowConstants ==
  /\ Limits \subseteq Nat /\ Duration \in Nat \ {0} /\ Second \in Nat \ {0} /\ MaxTime \in Nat \ {0}
  /\ Null \notin Nat /\ Null \notin Window!Counters /\ Null \notin Window!Answers
  /\ Null \notin Window!Decisions
BY StoreAssumption DEF Window!WindowAssumption

LEMMA WindowInitially == ASSUME Window!Init PROVE WindowInv
<1> USE WindowConstants
<1>1. Window!TypeOK
  <2>1. counter = Null /\ clock = 1 /\ admitted = 0 /\ last = Null /\ overlapped = FALSE
        /\ adapter \in FixedAdapters /\ limit \in Limits
    BY DEF Window!Init
  <2>2. clock \in 1..MaxTime
    BY <2>1
  <2>3. pc \in [Callers -> {"idle", "read", "write", "pttl", "pexpire"}]
    BY DEF Window!Init
  <2>4. kNow \in [Callers -> 0..clock]
    BY <2>1 DEF Window!Init
  <2>5. answer \in [Callers -> Window!Answers \cup {Null}]
    BY DEF Window!Init
  <2> QED
    BY <2>1, <2>2, <2>3, <2>4, <2>5 DEF Window!TypeOK
<1>2. Window!ExactLimit /\ Serial /\ Admissions
  BY DEF Window!Init, Window!ExactLimit, Serial, Admissions, Window!Open
<1>3. \A c \in Callers : InPhase(c) /\ ReadHolds(c) /\ RefusalKept(c)
  <2> TAKE c \in Callers
  <2>1. pc[c] = "idle" /\ answer[c] = Null
    BY DEF Window!Init
  <2> QED
    BY <2>1 DEF InPhase, ReadHolds, RefusalKept
<1>4. seen \in [Callers -> Nat \cup Window!Counters \cup {Null}]
  BY DEF Window!Init
<1> QED
  BY <1>1, <1>2, <1>3, <1>4 DEF WindowInv

(* What is known of the state before a step.                                 *)
LEMMA WindowFacts ==
  ASSUME WindowInv
  PROVE  /\ limit \in Nat /\ Window!Allowance \in Nat /\ clock \in Nat /\ admitted \in Nat
         /\ limit # 0 => Window!Allowance = limit
         /\ adapter \notin Window!Incrementing /\ limit = 0 => Window!Allowance = 1
         /\ adapter \in Window!Incrementing => Window!Allowance = limit
         /\ counter # Null =>
              /\ counter \in Window!Counters /\ counter.count \in Nat \ {0}
              /\ counter.reset # Null => counter.reset \in Nat
              /\ adapter \notin Window!Incrementing => counter.reset # Null
         /\ Window!Open => Window!Charged = admitted /\ Window!Current = counter.count
         /\ ~Window!Open => Window!Charged = 0 /\ Window!Current = 0
<1>1. limit \in Nat /\ clock \in Nat /\ admitted \in Nat
  BY WindowConstants DEF WindowInv, Window!TypeOK
<1>2. counter # Null =>
              /\ counter \in Window!Counters /\ counter.count \in Nat \ {0}
              /\ counter.reset # Null => counter.reset \in Nat
              /\ adapter \notin Window!Incrementing => counter.reset # Null
  BY DEF WindowInv, Window!TypeOK, Window!Counters
<1> QED
  BY <1>1, <1>2 DEF Window!Allowance, Window!Charged, Window!Current

(* A caller's step leaves the calls of the others alone.                     *)
OthersWait(c) ==
  \A d \in Callers : d # c =>
    pc'[d] = pc[d] /\ seen'[d] = seen[d] /\ answer'[d] = answer[d] /\ kNow'[d] = kNow[d]

CallTypes ==
  /\ pc \in [Callers -> {"idle", "read", "write", "pttl", "pexpire"}]
  /\ kNow \in [Callers -> 0..clock]
  /\ answer \in [Callers -> Window!Answers \cup {Null}]
  /\ seen \in [Callers -> Nat \cup Window!Counters \cup {Null}]

LEMMA AnswerIs ==
  ASSUME WindowInv, NEW c \in Callers, NEW ok \in BOOLEAN, NEW t \in Nat,
         Window!Answer(c, ok, t), clock' = clock
  PROVE  /\ CallTypes' /\ OthersWait(c)
         /\ pc'[c] = "idle" /\ answer'[c] # Null
         /\ answer'[c].success = ok /\ answer'[c].reset = t
<1>1. [success |-> ok, reset |-> t] \in Window!Answers
  BY DEF Window!Answers
<1>2. CallTypes /\ clock \in Nat
  BY WindowFacts DEF WindowInv, Window!TypeOK, CallTypes
<1>3. pc' \in [Callers -> {"idle", "read", "write", "pttl", "pexpire"}] /\ kNow' \in [Callers -> 0..clock']
  BY <1>2 DEF Window!Answer, CallTypes
<1>4. answer' \in [Callers -> Window!Answers \cup {Null}]
  BY <1>1, <1>2 DEF Window!Answer, CallTypes
<1>5. seen' \in [Callers -> Nat \cup Window!Counters \cup {Null}]
  BY <1>2 DEF Window!Answer, CallTypes
<1>6. OthersWait(c)
  BY <1>2 DEF Window!Answer, CallTypes, OthersWait
<1>7. pc'[c] = "idle" /\ answer'[c] = [success |-> ok, reset |-> t]
  BY <1>2 DEF Window!Answer, CallTypes
<1> QED
  BY <1>1, <1>3, <1>4, <1>5, <1>6, <1>7, WindowConstants DEF CallTypes

LEMMA WaitIs ==
  ASSUME WindowInv, NEW c \in Callers, NEW p \in {"read", "write", "pttl", "pexpire"},
         NEW row \in Nat \cup Window!Counters \cup {Null},
         Window!Wait(c, p, row), clock' = clock,
         kNow' = kNow \/ kNow' = [kNow EXCEPT ![c] = clock]
  PROVE  /\ CallTypes' /\ OthersWait(c)
         /\ pc'[c] = p /\ seen'[c] = row /\ answer'[c] = Null
<1>1. CallTypes /\ clock \in Nat
  BY WindowFacts DEF WindowInv, Window!TypeOK, CallTypes
<1>2. pc' \in [Callers -> {"idle", "read", "write", "pttl", "pexpire"}] /\ kNow' \in [Callers -> 0..clock']
  BY <1>1 DEF Window!Wait, CallTypes
<1>3. answer' \in [Callers -> Window!Answers \cup {Null}]
  BY <1>1 DEF Window!Wait, CallTypes
<1>4. seen' \in [Callers -> Nat \cup Window!Counters \cup {Null}]
  BY <1>1 DEF Window!Wait, CallTypes
<1>5. OthersWait(c) /\ pc'[c] = p /\ seen'[c] = row /\ answer'[c] = Null
  BY <1>1 DEF Window!Wait, CallTypes, OthersWait
<1> QED
  BY <1>2, <1>3, <1>4, <1>5 DEF CallTypes

(* An undisturbed window, or a whole new one.                                *)
WindowGoesOn ==
  adapter \in {"memory", "sqlite"} \/ (adapter \in Window!RowStores /\ ~overlapped')
    => (counter # Null => /\ counter' # Null
                          /\ \/ counter'.reset = counter.reset
                             \/ counter'.reset >= counter.reset + Duration)

(* The store's decision, and the counter it leaves.                          *)
StoreOK ==
  /\ counter' \in Window!Counters \cup {Null}
  /\ counter' # Null /\ counter'.reset = Null => adapter \in Window!Incrementing
  /\ admitted' \in Nat /\ last' \in Window!Decisions \cup {Null}
  /\ Window!ExactLimit' /\ Admissions' /\ WindowGoesOn

(* Calls that do not overlap, from the side of the one that takes the step.  *)
TakesTurn(c) ==
  /\ overlapped' \in BOOLEAN
  /\ ~overlapped' => ~overlapped /\ \A d \in Callers : d # c => pc[d] = "idle"

LEMMA TurnIs ==
  ASSUME WindowInv, NEW c \in Callers,
         Window!Enter(c) \/ (pc[c] # "idle" /\ overlapped' = overlapped)
  PROVE  TakesTurn(c)
BY DEF WindowInv, Window!TypeOK, Serial, Window!Enter, TakesTurn

LEMMA StepKeeps ==
  ASSUME WindowInv, NEW c \in Callers, TakesTurn(c), OthersWait(c), CallTypes', StoreOK,
         adapter' = adapter, limit' = limit, clock' = clock,
         InPhase(c)', ReadHolds(c)', RefusalKept(c)'
  PROVE  WindowInv'
<1>1. Window!TypeOK'
  BY DEF WindowInv, Window!TypeOK, CallTypes, StoreOK, TakesTurn
<1>2. Serial'
  BY DEF TakesTurn, OthersWait, Serial
<1>3. ASSUME NEW d \in Callers, d # c PROVE InPhase(d)'
  BY <1>3 DEF WindowInv, InPhase, OthersWait
<1>4. ASSUME NEW d \in Callers, d # c PROVE ReadHolds(d)'
  BY <1>4 DEF TakesTurn, OthersWait, ReadHolds
<1>5. ASSUME NEW d \in Callers, d # c PROVE RefusalKept(d)'
  <2> SUFFICES ASSUME adapter \in {"memory", "sqlite"} \/ (adapter \in Window!RowStores /\ ~overlapped'),
                      answer'[d] # Null, ~answer'[d].success
               PROVE  /\ counter' # Null
                      /\ \/ counter'.reset = answer'[d].reset
                         \/ counter'.reset >= answer'[d].reset + Duration
    BY DEF RefusalKept
  <2>1. answer'[d] = answer[d] /\ RefusalKept(d) /\ (~overlapped' => ~overlapped)
    BY <1>5 DEF WindowInv, OthersWait, TakesTurn
  <2>2. /\ counter # Null
        /\ counter.reset = answer[d].reset \/ counter.reset >= answer[d].reset + Duration
    BY <2>1 DEF RefusalKept
  <2>3. /\ counter' # Null
        /\ counter'.reset = counter.reset \/ counter'.reset >= counter.reset + Duration
    BY <2>2 DEF StoreOK, WindowGoesOn
  <2>4. counter.reset \in Nat /\ counter'.reset \in Nat
    BY <2>2, <2>3, WindowFacts DEF StoreOK, Window!Counters
  <2>5. answer[d].reset \in Nat
    BY <2>1 DEF WindowInv, Window!TypeOK, Window!Answers
  <2> QED
    BY <2>1, <2>2, <2>3, <2>4, <2>5, WindowConstants
<1>6. \A d \in Callers : InPhase(d)' /\ ReadHolds(d)' /\ RefusalKept(d)'
  BY <1>3, <1>4, <1>5
<1> QED
  BY <1>1, <1>2, <1>6 DEF WindowInv, CallTypes, StoreOK

LEMMA DecideIs ==
  ASSUME WindowInv, NEW n \in Nat, NEW ok \in BOOLEAN, Window!DecideAfter(n, ok),
         adapter' = adapter, limit' = limit,
         adapter \in Window!Counting \/ ~overlapped' => (ok <=> n < Window!Allowance)
  PROVE  /\ last' \in Window!Decisions /\ admitted' \in Nat /\ admitted' = IF ok THEN n + 1 ELSE n
         /\ Window!ExactLimit' /\ Window!Allowance' = Window!Allowance
<1>1. last' = [ok |-> ok, before |-> n] /\ admitted' = IF ok THEN n + 1 ELSE n
  BY DEF Window!DecideAfter
<1>2. Window!Allowance' = Window!Allowance
  BY DEF Window!Allowance
<1> QED
  BY <1>1, <1>2 DEF Window!Decisions, Window!ExactLimit

LEMMA UndecidedIs ==
  ASSUME WindowInv, admitted' = admitted, last' = last, adapter' = adapter, limit' = limit,
         ~overlapped' => ~overlapped
  PROVE  /\ last' \in Window!Decisions \cup {Null} /\ admitted' \in Nat
         /\ Window!ExactLimit' /\ Window!Allowance' = Window!Allowance
<1>1. Window!Allowance' = Window!Allowance
  BY DEF Window!Allowance
<1> QED
  BY <1>1 DEF WindowInv, Window!TypeOK, Window!ExactLimit

LEMMA HitKeeps ==
  ASSUME WindowInv, NEW c \in Callers, Window!HitAtOnce(c)
  PROVE  WindowInv'
<1> USE WindowConstants
<1>1. /\ adapter \in {"memory", "sqlite"} /\ adapter' = adapter /\ limit' = limit
      /\ clock' = clock /\ TakesTurn(c)
  BY TurnIs DEF Window!HitAtOnce, Window!Enter
<1>2. Window!Open => admitted = counter.count
  BY <1>1 DEF WindowInv, Admissions
<1>3. CASE ~Window!Open
  <2>1. /\ counter' = [count |-> 1, reset |-> clock + Duration]
        /\ Window!DecideAfter(0, TRUE) /\ Window!Answer(c, TRUE, clock + Duration)
    <3>1. /\ counter' = [count |-> 1, reset |-> clock + Duration]
          /\ Window!Decide(TRUE) /\ Window!Answer(c, TRUE, clock + Duration)
      BY <1>3, Zenon DEF Window!HitAtOnce
    <3> QED
      BY <1>3, <3>1, WindowFacts, Zenon DEF Window!Decide
  <2>2. /\ last' \in Window!Decisions /\ admitted' = 1 /\ Window!ExactLimit'
    <3> DEFINE n == 0
    <3>1. n \in Nat /\ n + 1 = 1 /\ n < Window!Allowance
      BY <1>1, WindowFacts
    <3>2. Window!DecideAfter(n, TRUE)
      BY <2>1
    <3> HIDE DEF n
    <3> QED
      BY <1>1, <3>1, <3>2, DecideIs
  <2>3. counter # Null => counter.reset \in Nat /\ counter.reset <= clock
    BY <1>1, <1>3, WindowFacts DEF Window!Open
  <2>4. counter' \in Window!Counters /\ counter'.count = 1 /\ counter'.reset = clock + Duration
    BY <2>1, WindowFacts DEF Window!Counters
  <2>5. StoreOK
    BY <1>1, <2>2, <2>3, <2>4, WindowFacts DEF StoreOK, Admissions, WindowGoesOn
  <2>6. CallTypes' /\ OthersWait(c) /\ pc'[c] = "idle" /\ answer'[c].success = TRUE
    <3>1. ASSUME NEW t \in Nat, Window!Answer(c, TRUE, t)
          PROVE  CallTypes' /\ OthersWait(c) /\ pc'[c] = "idle" /\ answer'[c].success = TRUE
      BY <1>1, <3>1, AnswerIs
    <3>2. clock + Duration \in Nat
      BY WindowFacts
    <3> QED
      BY <2>1, <3>1, <3>2
  <2>7. InPhase(c)' /\ ReadHolds(c)' /\ RefusalKept(c)'
    BY <2>6 DEF InPhase, ReadHolds, RefusalKept
  <2> QED
    BY <1>1, <2>5, <2>6, <2>7, StepKeeps
<1>4. CASE Window!Open /\ counter.count < limit
  <2>1. /\ counter' = [counter EXCEPT !.count = @ + 1]
        /\ Window!DecideAfter(admitted, TRUE) /\ Window!Answer(c, TRUE, counter.reset)
    <3>1. ~(counter.count >= limit)
      BY <1>4, WindowFacts DEF Window!Open
    <3>2. /\ counter' = [counter EXCEPT !.count = @ + 1]
          /\ Window!Decide(TRUE) /\ Window!Answer(c, TRUE, counter.reset)
      BY <1>4, <3>1, Zenon DEF Window!HitAtOnce
    <3> QED
      BY <1>4, <3>2, WindowFacts, Zenon DEF Window!Decide
  <2>2. counter \in Window!Counters /\ counter.count \in Nat \ {0} /\ counter.reset \in Nat
    BY <1>1, <1>4, WindowFacts DEF Window!Open
  <2>3. admitted < Window!Allowance
    BY <1>2, <1>4, <2>2, WindowFacts
  <2>4. /\ last' \in Window!Decisions /\ admitted' = admitted + 1 /\ Window!ExactLimit'
    BY <1>1, <2>1, <2>3, WindowFacts, DecideIs
  <2>5. /\ counter' \in Window!Counters /\ counter'.count = counter.count + 1
        /\ counter'.reset = counter.reset
    BY <2>1, <2>2 DEF Window!Counters
  <2>6. StoreOK
    BY <1>1, <1>2, <1>4, <2>2, <2>4, <2>5, WindowFacts DEF StoreOK, Admissions, WindowGoesOn
  <2>7. CallTypes' /\ OthersWait(c) /\ pc'[c] = "idle" /\ answer'[c].success = TRUE
    BY <1>1, <2>1, <2>2, AnswerIs
  <2>8. InPhase(c)' /\ ReadHolds(c)' /\ RefusalKept(c)'
    BY <2>7 DEF InPhase, ReadHolds, RefusalKept
  <2> QED
    BY <1>1, <2>6, <2>7, <2>8, StepKeeps
<1>5. CASE Window!Open /\ ~(counter.count < limit)
  <2>1. /\ counter' = counter
        /\ Window!DecideAfter(admitted, FALSE) /\ Window!Answer(c, FALSE, counter.reset)
    <3>1. /\ counter' = counter
          /\ Window!Decide(FALSE) /\ Window!Answer(c, FALSE, counter.reset)
      BY <1>5, Zenon DEF Window!HitAtOnce
    <3> QED
      BY <1>5, <3>1, WindowFacts, Zenon DEF Window!Decide
  <2>2. /\ counter # Null /\ counter \in Window!Counters
        /\ counter.count \in Nat \ {0} /\ counter.reset \in Nat
    BY <1>1, <1>5, WindowFacts DEF Window!Open
  <2>3. ~(admitted < Window!Allowance)
    BY <1>1, <1>2, <1>5, <2>2, WindowFacts
  <2>4. /\ last' \in Window!Decisions /\ admitted' = admitted /\ Window!ExactLimit'
    BY <1>1, <2>1, <2>3, WindowFacts, DecideIs
  <2>5. StoreOK
    BY <1>1, <1>2, <1>5, <2>1, <2>2, <2>4, WindowFacts DEF StoreOK, Admissions, WindowGoesOn
  <2>6. CallTypes' /\ OthersWait(c) /\ pc'[c] = "idle" /\ answer'[c].reset = counter.reset
    BY <1>1, <2>1, <2>2, AnswerIs
  <2>7. InPhase(c)' /\ ReadHolds(c)' /\ RefusalKept(c)'
    BY <2>1, <2>2, <2>6 DEF InPhase, ReadHolds, RefusalKept
  <2> QED
    BY <1>1, <2>5, <2>6, <2>7, StepKeeps
<1> QED
  BY <1>3, <1>4, <1>5

LEMMA StoreStays ==
  ASSUME WindowInv, adapter' = adapter, limit' = limit, clock' = clock,
         counter' = counter, admitted' = admitted, last' = last, ~overlapped' => ~overlapped
  PROVE  StoreOK
<1>1. /\ last' \in Window!Decisions \cup {Null} /\ admitted' \in Nat
      /\ Window!ExactLimit' /\ Window!Allowance' = Window!Allowance
  BY UndecidedIs
<1>2. Window!Open' = Window!Open
  BY DEF Window!Open
<1> QED
  BY <1>1, <1>2 DEF WindowInv, Window!TypeOK, StoreOK, Admissions, WindowGoesOn

LEMMA BeginKeeps ==
  ASSUME WindowInv, NEW c \in Callers, Window!Begin(c)
  PROVE  WindowInv'
<1>1. /\ adapter \in Window!RowStores \cup {"redis-eval", "kv"} /\ adapter' = adapter /\ limit' = limit
      /\ clock' = clock /\ TakesTurn(c) /\ (~overlapped' => ~overlapped)
      /\ counter' = counter /\ admitted' = admitted /\ last' = last
  BY TurnIs DEF Window!Begin, Window!Enter, TakesTurn, Window!ghosts
<1>2. CallTypes' /\ OthersWait(c) /\ pc'[c] = "read" /\ answer'[c] = Null
  BY <1>1, WaitIs DEF Window!Begin
<1>3. StoreOK
  BY <1>1, StoreStays
<1>4. InPhase(c)' /\ ReadHolds(c)' /\ RefusalKept(c)'
  BY <1>1, <1>2 DEF InPhase, ReadHolds, RefusalKept
<1> QED
  BY <1>1, <1>2, <1>3, <1>4, StepKeeps

(* The increments of redis.ts count every call; of these, the first ones up  *)
(* to the allowance are admitted.                                            *)
LEMMA CountIs ==
  ASSUME WindowInv, NEW ok \in BOOLEAN, Window!DecideAfter(Window!Charged, ok),
         adapter \in Window!Incrementing \cup {"redis-eval"}, adapter' = adapter, limit' = limit,
         ok <=> (Window!Current + 1 <= limit \/ (Window!Current = 0 /\ adapter = "redis-eval")),
         counter' \in Window!Counters, counter'.count = Window!Current + 1,
         counter'.reset = Null => adapter \in Window!Incrementing
  PROVE  StoreOK
<1> DEFINE n == Window!Charged
           k == Window!Current
           a == Window!Allowance
<1>1. /\ n \in Nat /\ k \in Nat /\ a \in Nat /\ limit \in Nat /\ n = Smaller(k, a)
      /\ limit # 0 => a = limit
      /\ limit = 0 => a = (IF adapter = "redis-eval" THEN 1 ELSE 0)
  <2>1. CASE Window!Open
    <3>1. n = admitted /\ k = counter.count /\ counter.count \in Nat
      BY <2>1, WindowFacts DEF Window!Open
    <3>2. admitted = Smaller(counter.count, a)
      BY <2>1 DEF WindowInv, Admissions
    <3> QED
      BY <3>1, <3>2, WindowFacts
  <2>2. CASE ~Window!Open
    <3>1. n = 0 /\ k = 0 /\ a \in Nat
      BY <2>2, WindowFacts
    <3>2. Smaller(0, a) = 0
      BY <3>1 DEF Smaller
    <3> QED
      BY <3>1, <3>2, WindowFacts
  <2> QED
    BY <2>1, <2>2
<1>2. /\ ok <=> n < a
      /\ (IF ok THEN n + 1 ELSE n) = Smaller(k + 1, a)
  <2> HIDE DEF n, k, a
  <2> SUFFICES (k + 1 <= limit \/ (k = 0 /\ adapter = "redis-eval")) <=> n < a
    BY <1>1 DEF Smaller, k
  <2> QED
    BY <1>1 DEF Smaller
<1>3. /\ last' \in Window!Decisions /\ admitted' \in Nat /\ admitted' = IF ok THEN n + 1 ELSE n
      /\ Window!ExactLimit' /\ Window!Allowance' = a
  BY <1>1, <1>2, DecideIs
<1>4. admitted' = Smaller(counter'.count, Window!Allowance')
  BY <1>2, <1>3
<1>5. Admissions'
  BY <1>4 DEF Admissions
<1> QED
  BY <1>3, <1>5 DEF StoreOK, WindowGoesOn

LEMMA ScriptKeeps ==
  ASSUME WindowInv, NEW c \in Callers, Window!Script(c)
  PROVE  WindowInv'
<1> USE WindowConstants
<1>1. /\ adapter = "redis-eval" /\ adapter' = adapter /\ limit' = limit
      /\ clock' = clock /\ TakesTurn(c)
  BY TurnIs DEF Window!Script
<1>2. kNow[c] \in Nat
  BY WindowFacts DEF WindowInv, Window!TypeOK
<1>3. ASSUME NEW ok \in BOOLEAN, NEW t \in Nat, Window!Answer(c, ok, t), StoreOK
      PROVE  WindowInv'
  <2>1. CallTypes' /\ OthersWait(c) /\ pc'[c] = "idle"
    BY <1>1, <1>3, AnswerIs
  <2>2. InPhase(c)' /\ ReadHolds(c)' /\ RefusalKept(c)'
    BY <1>1, <2>1 DEF InPhase, ReadHolds, RefusalKept
  <2> QED
    BY <1>1, <1>3, <2>1, <2>2, StepKeeps
<1>4. CASE ~Window!Open
  <2> DEFINE ok == TRUE
  <2>1. Window!Current = 0 /\ ~(Window!Current > 0)
    BY <1>4, WindowFacts
  <2>2. /\ counter' = [count |-> 1, reset |-> clock + Duration]
        /\ Window!Decide(ok) /\ Window!Answer(c, ok, kNow[c] + Duration)
    BY <2>1, Zenon DEF Window!Script
  <2>3. /\ counter' \in Window!Counters /\ counter'.count = Window!Current + 1
        /\ counter'.reset # Null /\ kNow[c] + Duration \in Nat
    BY <1>2, <2>1, <2>2, WindowFacts DEF Window!Counters
  <2>4. Window!DecideAfter(Window!Charged, ok)
    BY <2>2 DEF Window!Decide
  <2>5. ok \in BOOLEAN /\ ok
    OBVIOUS
  <2> HIDE DEF ok
  <2>6. StoreOK
    BY <1>1, <2>1, <2>3, <2>4, <2>5, CountIs
  <2> QED
    BY <1>3, <2>2, <2>3, <2>5, <2>6
<1>5. CASE Window!Open
  <2> DEFINE ok == Window!Current + 1 <= limit
             t == kNow[c] + (counter.reset - clock)
  <2>1. Window!Current > 0 /\ Window!Current # 0 /\ Window!Current = counter.count
    BY <1>5, WindowFacts DEF Window!Open
  <2>2. /\ counter' = [counter EXCEPT !.count = @ + 1]
        /\ Window!Decide(ok) /\ Window!Answer(c, ok, t)
    BY <2>1, Zenon DEF Window!Script
  <2>3. counter \in Window!Counters /\ counter.reset \in Nat /\ counter.reset > clock
    BY <1>1, <1>5, WindowFacts DEF Window!Open
  <2>4. t \in Nat
    BY <1>2, <2>3, WindowFacts
  <2>5. /\ counter' \in Window!Counters /\ counter'.count = Window!Current + 1
        /\ counter'.reset # Null
    BY <2>1, <2>2, <2>3 DEF Window!Counters
  <2>6. Window!DecideAfter(Window!Charged, ok)
    BY <2>2 DEF Window!Decide
  <2>7. ok \in BOOLEAN /\ (ok <=> (Window!Current + 1 <= limit \/ (Window!Current = 0 /\ adapter = "redis-eval")))
    BY <2>1
  <2> HIDE DEF ok, t
  <2>8. StoreOK
    BY <1>1, <2>5, <2>6, <2>7, CountIs
  <2> QED
    BY <1>3, <2>2, <2>4, <2>7, <2>8
<1> QED
  BY <1>4, <1>5

LEMMA IncrKeeps ==
  ASSUME WindowInv, NEW c \in Callers, Window!Incr(c)
  PROVE  WindowInv'
<1> USE WindowConstants
<1> DEFINE ok == Window!Current + 1 <= limit
           row == Window!Current + 1
<1>1. /\ adapter \in Window!Incrementing /\ adapter' = adapter /\ limit' = limit
      /\ clock' = clock /\ TakesTurn(c) /\ kNow' = kNow
  BY TurnIs DEF Window!Incr, Window!Enter
<1>2. /\ counter' = [count |-> row, reset |-> IF Window!Open THEN counter.reset ELSE Null]
      /\ Window!DecideAfter(Window!Charged, ok) /\ Window!Wait(c, "pttl", row)
  BY Zenon DEF Window!Incr, Window!Decide
<1>3. row \in Nat \ {0} /\ (Window!Open => counter.reset \in Nat \cup {Null})
  BY WindowFacts DEF Window!Open
<1>4. counter' \in Window!Counters /\ counter'.count = Window!Current + 1
  BY <1>2, <1>3 DEF Window!Counters
<1>5. ok \in BOOLEAN /\ (ok <=> (Window!Current + 1 <= limit \/ (Window!Current = 0 /\ adapter = "redis-eval")))
  BY <1>1
<1> HIDE DEF ok, row
<1>6. StoreOK
  BY <1>1, <1>2, <1>4, <1>5, CountIs
<1>7. CallTypes' /\ OthersWait(c) /\ pc'[c] = "pttl" /\ seen'[c] = row /\ answer'[c] = Null
  BY <1>1, <1>2, <1>3, WaitIs
<1>8. InPhase(c)' /\ ReadHolds(c)' /\ RefusalKept(c)'
  BY <1>1, <1>3, <1>7 DEF InPhase, ReadHolds, RefusalKept
<1> QED
  BY <1>1, <1>6, <1>7, <1>8, StepKeeps

(* A client that knows of an expiry has asked about a key that has one.      *)
LEMMA TtlIs ==
  ASSUME WindowInv
  PROVE  Window!Ttl \in Int /\ (~(Window!Ttl < 0) => counter.reset # Null)
<1> USE WindowConstants
<1> DEFINE left == counter.reset - clock
           half == Second \div 2
           seconds == (left + half) \div Second
<1>1. CASE ~Window!Open \/ counter.reset = Null
  BY <1>1 DEF Window!Ttl
<1>2. CASE Window!Open /\ counter.reset # Null
  <2>1. left \in Int
    BY <1>2, WindowFacts DEF Window!Open
  <2>2. half \in Int
    OBVIOUS
  <2>3. seconds \in Int
    <3> HIDE DEF left, half
    <3> QED
      BY <2>1, <2>2
  <2>4. seconds * Second \in Int
    <3> HIDE DEF seconds
    <3> QED
      BY <2>3
  <2>5. Window!Ttl = CASE adapter = "redis-incr" -> left
                       [] adapter = "redis-ttl" /\ seconds > 0 -> seconds * Second
                       [] OTHER -> -1
    BY <1>2 DEF Window!Ttl
  <2> DEFINE long == seconds * Second
  <2> HIDE DEF left, seconds, long
  <2> QED
    BY <1>2, <2>1, <2>4, <2>5 DEF long
<1> QED
  BY <1>1, <1>2

LEMMA PttlKeeps ==
  ASSUME WindowInv, NEW c \in Callers, Window!Pttl(c)
  PROVE  WindowInv'
<1> USE WindowConstants
<1>1. /\ adapter \in Window!Incrementing /\ adapter' = adapter /\ limit' = limit
      /\ clock' = clock /\ TakesTurn(c) /\ seen[c] \in Nat /\ StoreOK
  <2>1. pc[c] = "pttl" /\ overlapped' = overlapped
    BY DEF Window!Pttl
  <2>2. TakesTurn(c)
    BY <2>1, TurnIs
  <2> QED
    BY <2>1, <2>2, StoreStays DEF Window!Pttl, Window!ghosts, WindowInv, InPhase
<1>2. CASE Window!MustExpire(seen[c])
  <2>1. Window!Wait(c, "pexpire", seen[c]) /\ kNow' = kNow
    BY <1>2, Zenon DEF Window!Pttl
  <2>2. CallTypes' /\ OthersWait(c) /\ pc'[c] = "pexpire" /\ seen'[c] = seen[c] /\ answer'[c] = Null
    BY <1>1, <2>1, WaitIs
  <2>3. InPhase(c)' /\ ReadHolds(c)' /\ RefusalKept(c)'
    BY <1>1, <2>2 DEF InPhase, ReadHolds, RefusalKept
  <2> QED
    BY <1>1, <2>2, <2>3, StepKeeps
<1>3. CASE ~Window!MustExpire(seen[c])
  <2> DEFINE ok == seen[c] <= limit
             t == clock + IF Window!Ttl > 0 THEN Window!Ttl ELSE Duration
  <2>1. Window!Answer(c, ok, t)
    BY <1>3, Zenon DEF Window!Pttl
  <2>2. ok \in BOOLEAN /\ t \in Nat
    <3>1. Window!Ttl \in Int /\ clock \in Nat
      BY WindowFacts, TtlIs
    <3> QED
      BY <3>1
  <2> HIDE DEF ok, t
  <2>3. CallTypes' /\ OthersWait(c) /\ pc'[c] = "idle"
    BY <1>1, <2>1, <2>2, AnswerIs
  <2>4. InPhase(c)' /\ ReadHolds(c)' /\ RefusalKept(c)'
    BY <1>1, <2>3 DEF InPhase, ReadHolds, RefusalKept
  <2> QED
    BY <1>1, <2>3, <2>4, StepKeeps
<1> QED
  BY <1>2, <1>3

LEMMA PexpireKeeps ==
  ASSUME WindowInv, NEW c \in Callers, Window!Pexpire(c)
  PROVE  WindowInv'
<1> USE WindowConstants
<1> DEFINE ok == seen[c] <= limit
           t == clock + Duration
<1>1. /\ adapter \in Window!Incrementing /\ adapter' = adapter /\ limit' = limit
      /\ clock' = clock /\ seen[c] \in Nat /\ overlapped' = overlapped /\ pc[c] # "idle"
      /\ admitted' = admitted /\ last' = last
  BY DEF Window!Pexpire, Window!ghosts, WindowInv, InPhase
<1>2. /\ counter' = IF Window!Open THEN [counter EXCEPT !.reset = clock + Duration] ELSE counter
      /\ Window!Answer(c, ok, t)
  BY Zenon DEF Window!Pexpire
<1>3. TakesTurn(c)
  BY <1>1, TurnIs
<1>4. ok \in BOOLEAN /\ t \in Nat
  BY WindowFacts
<1>5. StoreOK
  <2>1. CASE Window!Open
    <3>1. counter \in Window!Counters /\ counter # Null
      BY <2>1, WindowFacts DEF Window!Open
    <3>2. counter' \in Window!Counters /\ counter'.count = counter.count /\ counter'.reset # Null
      BY <1>2, <1>4, <2>1, <3>1 DEF Window!Counters
    <3>3. /\ last' \in Window!Decisions \cup {Null} /\ admitted' \in Nat
          /\ Window!ExactLimit' /\ Window!Allowance' = Window!Allowance
      BY <1>1, UndecidedIs
    <3>4. admitted = Smaller(counter.count, Window!Allowance)
      BY <1>1, <2>1 DEF WindowInv, Admissions
    <3> QED
      BY <1>1, <3>2, <3>3, <3>4 DEF StoreOK, Admissions, WindowGoesOn
  <2>2. CASE ~Window!Open
    BY <1>1, <1>2, <2>2, StoreStays
  <2> QED
    BY <2>1, <2>2
<1> HIDE DEF ok, t
<1>6. CallTypes' /\ OthersWait(c) /\ pc'[c] = "idle"
  BY <1>1, <1>2, <1>4, AnswerIs
<1>7. InPhase(c)' /\ ReadHolds(c)' /\ RefusalKept(c)'
  BY <1>1, <1>6 DEF InPhase, ReadHolds, RefusalKept
<1> QED
  BY <1>1, <1>3, <1>5, <1>6, <1>7, StepKeeps

LEMMA SelectKeeps ==
  ASSUME WindowInv, NEW c \in Callers, Window!Select(c)
  PROVE  WindowInv'
<1> USE WindowConstants
<1>1. /\ adapter \in Window!RowStores /\ adapter' = adapter /\ limit' = limit
      /\ clock' = clock /\ counter' = counter /\ pc[c] # "idle" /\ overlapped' = overlapped
  BY DEF Window!Select
<1>2. TakesTurn(c)
  BY <1>1, TurnIs
<1>3. kNow[c] \in Nat
  BY WindowFacts DEF WindowInv, Window!TypeOK
<1> DEFINE full == counter # Null /\ counter.reset > kNow[c] /\ Window!Full(counter)
<1>4. CASE full
  <2>1. Window!DecideAfter(Window!ChargedAt(kNow[c]), FALSE) /\ Window!Answer(c, FALSE, counter.reset)
    BY <1>4, Zenon DEF Window!Select
  <2>2. /\ counter # Null /\ counter.reset \in Nat /\ counter.count \in Nat \ {0}
        /\ counter.count >= limit /\ Window!ChargedAt(kNow[c]) = admitted
    BY <1>1, <1>4, WindowFacts DEF Window!Full, Window!ChargedAt
  <2>3. ~overlapped => admitted = counter.count
    BY <1>1, <2>2 DEF WindowInv, Admissions
  <2>4. ~overlapped => ~(admitted < Window!Allowance)
    BY <1>1, <2>2, <2>3, WindowFacts
  <2>5. /\ last' \in Window!Decisions /\ admitted' = admitted /\ admitted' \in Nat
        /\ Window!ExactLimit'
    <3>1. Window!DecideAfter(admitted, FALSE)
      BY <2>1, <2>2
    <3>2. adapter \notin Window!Counting
      BY <1>1 DEF Window!Counting
    <3> QED
      BY <1>1, <2>4, <3>1, <3>2, WindowFacts, DecideIs
  <2>6. StoreOK
    BY <1>1, <2>3, <2>5, WindowFacts DEF StoreOK, Admissions, WindowGoesOn
  <2>7. CallTypes' /\ OthersWait(c) /\ pc'[c] = "idle" /\ answer'[c].reset = counter.reset
    BY <1>1, <2>1, <2>2, AnswerIs
  <2>8. InPhase(c)' /\ ReadHolds(c)' /\ RefusalKept(c)'
    BY <1>1, <2>2, <2>7 DEF InPhase, ReadHolds, RefusalKept
  <2> QED
    BY <1>1, <1>2, <2>6, <2>7, <2>8, StepKeeps
<1>5. CASE ~full
  <2>1. /\ Window!Wait(c, "write", counter) /\ kNow' = kNow /\ admitted' = admitted /\ last' = last
    BY <1>5, Zenon DEF Window!Select, Window!ghosts
  <2>2. counter # Null => /\ counter \in Window!Counters /\ counter.count \in Nat /\ counter.reset \in Nat
    BY <1>1, WindowFacts
  <2>3. counter # Null /\ counter.reset > kNow[c] => counter.count < limit
    BY <1>5, <2>2, WindowFacts DEF Window!Full
  <2>4. StoreOK
    BY <1>1, <2>1, StoreStays
  <2>5. CallTypes' /\ OthersWait(c) /\ pc'[c] = "write" /\ seen'[c] = counter /\ answer'[c] = Null
    BY <1>1, <2>1, <2>2, WaitIs
  <2>6. InPhase(c)' /\ ReadHolds(c)' /\ RefusalKept(c)'
    BY <1>1, <2>1, <2>2, <2>3, <2>5 DEF InPhase, ReadHolds, RefusalKept
  <2> QED
    BY <1>1, <1>2, <2>4, <2>5, <2>6, StepKeeps
<1> QED
  BY <1>4, <1>5

LEMMA WriteKeeps ==
  ASSUME WindowInv, NEW c \in Callers, Window!Write(c)
  PROVE  WindowInv'
<1> USE WindowConstants
<1> DEFINE n == Window!ChargedAt(kNow[c])
<1>1. /\ adapter \in Window!RowStores /\ adapter' = adapter /\ limit' = limit /\ adapter \notin Window!Counting
      /\ clock' = clock /\ pc[c] = "write" /\ overlapped' = overlapped
      /\ Window!DecideAfter(n, TRUE)
  BY DEF Window!Write, Window!Counting
<1>2. TakesTurn(c)
  BY <1>1, TurnIs
<1>3. kNow[c] \in Nat
  BY WindowFacts DEF WindowInv, Window!TypeOK
<1>4. /\ seen[c] # Null => /\ seen[c] \in Window!Counters /\ seen[c].count \in Nat \ {0}
                           /\ seen[c].reset \in Nat
      /\ ~overlapped => /\ seen[c] = counter
                        /\ seen[c] # Null /\ seen[c].reset > kNow[c] => seen[c].count < limit
  BY <1>1 DEF WindowInv, InPhase, ReadHolds, Window!Counters
<1>5. n \in Nat /\ (~overlapped /\ counter # Null => admitted = counter.count)
  BY <1>1, WindowFacts DEF Window!ChargedAt, WindowInv, Admissions
<1>6. ASSUME ~overlapped => n < Window!Allowance
      PROVE  /\ last' \in Window!Decisions /\ admitted' = n + 1 /\ admitted' \in Nat
             /\ Window!ExactLimit'
  <2> HIDE DEF n
  <2> QED
    BY <1>1, <1>5, <1>6, DecideIs
<1>7. ASSUME NEW t \in Nat, Window!Answer(c, TRUE, t), StoreOK
      PROVE  WindowInv'
  <2>1. CallTypes' /\ OthersWait(c) /\ pc'[c] = "idle" /\ answer'[c].success = TRUE
    BY <1>1, <1>7, AnswerIs
  <2>2. InPhase(c)' /\ ReadHolds(c)' /\ RefusalKept(c)'
    BY <1>1, <2>1 DEF InPhase, ReadHolds, RefusalKept
  <2> QED
    BY <1>1, <1>2, <1>7, <2>1, <2>2, StepKeeps
<1>8. CASE seen[c] = Null \/ seen[c].reset <= kNow[c]
  <2>1. /\ counter' = [count |-> 1, reset |-> kNow[c] + Duration]
        /\ Window!Answer(c, TRUE, kNow[c] + Duration)
    BY <1>8, Zenon DEF Window!Write
  <2>2. kNow[c] + Duration \in Nat
    BY <1>3
  <2>3. counter' \in Window!Counters /\ counter'.count = 1 /\ counter'.reset = kNow[c] + Duration
    BY <2>1, <2>2 DEF Window!Counters
  <2>4. ~overlapped => n = 0 /\ (counter # Null => counter.reset \in Nat /\ counter.reset <= kNow[c])
    BY <1>3, <1>4, <1>8 DEF Window!ChargedAt
  <2>5. ~overlapped => n < Window!Allowance
    BY <1>1, <2>4, WindowFacts
  <2>6. StoreOK
    BY <1>1, <1>3, <1>6, <2>2, <2>3, <2>4, <2>5 DEF StoreOK, Admissions, WindowGoesOn
  <2> QED
    BY <1>7, <2>1, <2>2, <2>6
<1>9. CASE seen[c] # Null /\ seen[c].reset > kNow[c]
  <2>1. /\ counter' = IF counter = Null THEN Null ELSE [counter EXCEPT !.count = seen[c].count + 1]
        /\ Window!Answer(c, TRUE, seen[c].reset)
    <3>1. ~(seen[c] = Null \/ seen[c].reset <= kNow[c])
      BY <1>3, <1>4, <1>9
    <3> QED
      BY <3>1, Zenon DEF Window!Write
  <2>2. counter # Null =>
          /\ counter' \in Window!Counters /\ counter'.count = seen[c].count + 1
          /\ counter'.reset = counter.reset /\ counter.reset # Null /\ counter' # Null
    BY <1>1, <1>4, <1>9, <2>1, WindowFacts DEF Window!Counters
  <2>3. ~overlapped => n = seen[c].count /\ counter # Null /\ seen[c].count < limit
    BY <1>4, <1>5, <1>9 DEF Window!ChargedAt
  <2>4. ~overlapped => n < Window!Allowance
    BY <1>4, <1>9, <2>3, WindowFacts
  <2>5. counter' \in Window!Counters \cup {Null} /\ (counter' # Null => counter'.reset # Null)
    BY <2>1, <2>2
  <2>6. StoreOK
    BY <1>1, <1>6, <2>2, <2>3, <2>4, <2>5 DEF StoreOK, Admissions, WindowGoesOn
  <2> QED
    BY <1>4, <1>7, <1>9, <2>1, <2>6
<1> QED
  BY <1>3, <1>4, <1>8, <1>9

LEMMA GetKeeps ==
  ASSUME WindowInv, NEW c \in Callers, Window!Get(c)
  PROVE  WindowInv'
<1> USE WindowConstants
<1> DEFINE row == Window!Current
<1>1. /\ adapter = "kv" /\ adapter' = adapter /\ limit' = limit /\ clock' = clock
      /\ counter' = counter /\ admitted' = admitted /\ last' = last /\ kNow' = kNow
      /\ pc[c] # "idle" /\ overlapped' = overlapped /\ Window!Wait(c, "write", row)
  BY DEF Window!Get, Window!ghosts
<1>2. TakesTurn(c) /\ StoreOK
  BY <1>1, TurnIs, StoreStays
<1>3. row \in Nat
  BY WindowFacts DEF Window!Open
<1>4. ~overlapped => IF row = 0 THEN ~Window!Open ELSE admitted = Smaller(row, Window!Allowance)
  BY <1>1, WindowFacts DEF WindowInv, Admissions, Window!Open
<1>5. Window!Open' = Window!Open /\ Window!Allowance' = Window!Allowance
  BY <1>1 DEF Window!Open, Window!Allowance
<1> HIDE DEF row
<1>6. CallTypes' /\ OthersWait(c) /\ pc'[c] = "write" /\ seen'[c] = row /\ answer'[c] = Null
  BY <1>1, <1>3, WaitIs
<1>7. InPhase(c)' /\ ReadHolds(c)' /\ RefusalKept(c)'
  BY <1>1, <1>3, <1>4, <1>5, <1>6 DEF InPhase, ReadHolds, RefusalKept
<1> QED
  BY <1>1, <1>2, <1>6, <1>7, StepKeeps

LEMMA ExpirationIs == Window!ExpirationTtl \in Nat
<1> USE WindowConstants
<1> DEFINE seconds == (Duration + Second - 1) \div Second
<1>1. Duration + Second - 1 \in Nat /\ Second \in Nat \ {0}
  OBVIOUS
<1>2. seconds \in Nat
  BY <1>1
<1> HIDE DEF seconds
<1>3. seconds * Second \in Nat
  BY <1>2
<1> QED
  BY <1>3 DEF Window!ExpirationTtl, seconds

LEMMA PutKeeps ==
  ASSUME WindowInv, NEW c \in Callers, Window!Put(c)
  PROVE  WindowInv'
<1> USE WindowConstants
<1> DEFINE n == IF seen[c] = 0 THEN Window!Charged ELSE admitted
           ok == seen[c] = 0 \/ seen[c] + 1 <= limit
           t == kNow[c] + Duration
           a == Window!Allowance
<1>1. /\ adapter = "kv" /\ adapter' = adapter /\ limit' = limit /\ adapter \notin Window!Counting
      /\ clock' = clock /\ pc[c] = "write" /\ overlapped' = overlapped
      /\ counter' = [count |-> seen[c] + 1, reset |-> clock + Window!ExpirationTtl]
  BY DEF Window!Put, Window!Counting
<1>2. Window!DecideAfter(n, ok) /\ Window!Answer(c, ok, t)
  BY Zenon DEF Window!Put
<1>3. TakesTurn(c)
  BY <1>1, TurnIs
<1>4. seen[c] \in Nat /\ t \in Nat /\ ok \in BOOLEAN
  BY <1>1, WindowFacts DEF WindowInv, InPhase, Window!TypeOK
<1>5. n \in Nat /\ a \in Nat /\ limit \in Nat /\ a = IF limit = 0 THEN 1 ELSE limit
  BY <1>1, WindowFacts
<1>6. ~overlapped => n = Smaller(seen[c], a)
  <2>1. ~overlapped => IF seen[c] = 0 THEN n = 0 ELSE n = Smaller(seen[c], a)
    BY <1>1, WindowFacts DEF WindowInv, ReadHolds
  <2> QED
    BY <1>5, <2>1 DEF Smaller
<1>7. ~overlapped => (ok <=> n < a) /\ (IF ok THEN n + 1 ELSE n) = Smaller(seen[c] + 1, a)
  <2> HIDE DEF n, a
  <2> QED
    BY <1>4, <1>5, <1>6 DEF Smaller
<1>8. /\ last' \in Window!Decisions /\ admitted' \in Nat /\ admitted' = IF ok THEN n + 1 ELSE n
      /\ Window!ExactLimit' /\ Window!Allowance' = a
  <2> HIDE DEF n, ok
  <2> QED
    BY <1>1, <1>2, <1>4, <1>5, <1>7, DecideIs
<1>9. counter' \in Window!Counters /\ counter'.count = seen[c] + 1 /\ counter'.reset # Null
  <2> DEFINE ttl == Window!ExpirationTtl
  <2>1. ttl \in Nat
    BY ExpirationIs
  <2> HIDE DEF ttl
  <2>2. counter' = [count |-> seen[c] + 1, reset |-> clock + ttl]
    BY <1>1 DEF ttl
  <2> QED
    BY <1>4, <2>1, <2>2, WindowFacts DEF Window!Counters
<1>10. StoreOK
  BY <1>1, <1>7, <1>8, <1>9 DEF StoreOK, Admissions, WindowGoesOn
<1> HIDE DEF n, ok, t, a
<1>11. CallTypes' /\ OthersWait(c) /\ pc'[c] = "idle"
  BY <1>1, <1>2, <1>4, AnswerIs
<1>12. InPhase(c)' /\ ReadHolds(c)' /\ RefusalKept(c)'
  BY <1>1, <1>11 DEF InPhase, ReadHolds, RefusalKept
<1> QED
  BY <1>1, <1>3, <1>10, <1>11, <1>12, StepKeeps

LEMMA ResetKeeps ==
  ASSUME WindowInv, NEW c \in Callers, Window!Reset(c)
  PROVE  WindowInv'
<1> USE WindowConstants
<1>1. /\ adapter' = adapter /\ limit' = limit /\ clock' = clock /\ TakesTurn(c) /\ pc[c] = "idle"
      /\ counter' = Null /\ admitted' = 0 /\ last' = last /\ pc' = pc /\ kNow' = kNow /\ seen' = seen
      /\ answer' = [d \in Callers |-> Null] /\ overlapped' \in BOOLEAN
  BY TurnIs DEF Window!Reset, Window!Enter, TakesTurn
<1>2. ~overlapped' => ~overlapped /\ \A d \in Callers : pc[d] = "idle"
  BY <1>1 DEF TakesTurn
<1>3. Window!ExactLimit'
  BY <1>1, <1>2 DEF WindowInv, Window!ExactLimit, Window!Allowance
<1>4. answer' \in [Callers -> Window!Answers \cup {Null}]
  BY <1>1
<1>5. Window!TypeOK'
  BY <1>1, <1>4 DEF WindowInv, Window!TypeOK
<1>6. Serial' /\ Admissions'
  BY <1>1, <1>2 DEF Serial, Admissions, Window!Open
<1>7. ASSUME NEW d \in Callers PROVE InPhase(d)' /\ ReadHolds(d)' /\ RefusalKept(d)'
  <2>1. answer'[d] = Null /\ InPhase(d)
    BY <1>1 DEF WindowInv
  <2> QED
    BY <1>1, <1>2, <2>1 DEF InPhase, ReadHolds, RefusalKept
<1> QED
  BY <1>1, <1>3, <1>5, <1>6, <1>7 DEF WindowInv

LEMMA AbortKeeps ==
  ASSUME WindowInv, NEW c \in Callers, Window!Abort(c)
  PROVE  WindowInv'
<1> USE WindowConstants
<1>1. /\ adapter' = adapter /\ limit' = limit /\ clock' = clock /\ pc[c] # "idle"
      /\ counter' = counter /\ admitted' = admitted /\ last' = last /\ answer' = answer
      /\ overlapped' = overlapped
  BY DEF Window!Abort, Window!ghosts
<1>2. CallTypes /\ clock \in Nat
  BY WindowFacts DEF WindowInv, Window!TypeOK, CallTypes
<1>3. CallTypes' /\ OthersWait(c) /\ pc'[c] = "idle"
  BY <1>1, <1>2 DEF Window!Abort, CallTypes, OthersWait
<1>4. TakesTurn(c) /\ StoreOK
  BY <1>1, TurnIs, StoreStays
<1>5. InPhase(c) /\ RefusalKept(c)
  BY DEF WindowInv
<1>6. InPhase(c)' /\ ReadHolds(c)' /\ RefusalKept(c)'
  BY <1>1, <1>3, <1>5 DEF InPhase, ReadHolds, RefusalKept
<1> QED
  BY <1>1, <1>3, <1>4, <1>6, StepKeeps

LEMMA TickKeeps ==
  ASSUME WindowInv, Window!Tick
  PROVE  WindowInv'
<1> USE WindowConstants
<1>1. /\ clock' = clock + 1 /\ clock < MaxTime
      /\ UNCHANGED <<adapter, limit, counter, pc, kNow, seen, answer, admitted, last, overlapped>>
  BY DEF Window!Tick, Window!ghosts
<1>2. Window!Allowance' = Window!Allowance /\ (Window!Open' => Window!Open)
  BY <1>1, WindowFacts DEF Window!Allowance, Window!Open
<1>3. Window!TypeOK'
  <2>1. kNow \in [Callers -> 0..clock] /\ clock \in Nat
    BY WindowFacts DEF WindowInv, Window!TypeOK
  <2>2. kNow \in [Callers -> 0..(clock + 1)]
    BY <2>1
  <2>3. clock + 1 \in 1..MaxTime
    BY <1>1, <2>1
  <2> QED
    BY <1>1, <2>2, <2>3 DEF WindowInv, Window!TypeOK
<1>4. Window!ExactLimit' /\ Serial' /\ Admissions'
  BY <1>1, <1>2 DEF WindowInv, Window!ExactLimit, Serial, Admissions
<1>5. ASSUME NEW d \in Callers PROVE InPhase(d)' /\ ReadHolds(d)' /\ RefusalKept(d)'
  BY <1>1, <1>2 DEF WindowInv, InPhase, ReadHolds, RefusalKept
<1> QED
  BY <1>1, <1>3, <1>4, <1>5 DEF WindowInv

LEMMA WindowKept ==
  ASSUME WindowInv, Window!Next
  PROVE  WindowInv'
BY HitKeeps, BeginKeeps, ScriptKeeps, IncrKeeps, PttlKeeps, PexpireKeeps, SelectKeeps, WriteKeeps,
   GetKeeps, PutKeeps, ResetKeeps, AbortKeeps, TickKeeps
   DEF Window!Next, Window!IncrementAndCheck

(* An open window ends no later than it was told to end.                     *)
LEMMA RefusalsAreKept ==
  ASSUME WindowInv
  PROVE  Window!ResetIsKept
<1> USE WindowConstants
<1> SUFFICES ASSUME adapter \in {"memory", "sqlite"} \/ (adapter \in Window!RowStores /\ ~overlapped),
                    NEW c \in Callers, answer[c] # Null, ~answer[c].success,
                    clock >= answer[c].reset, Window!Open
             PROVE  counter.reset >= answer[c].reset + Duration
  BY DEF Window!ResetIsKept
<1>1. /\ counter # Null
      /\ counter.reset = answer[c].reset \/ counter.reset >= answer[c].reset + Duration
  BY DEF WindowInv, RefusalKept
<1>2. counter.reset \in Nat /\ counter.reset > clock /\ clock \in Nat
  BY <1>1, WindowFacts DEF Window!Open
<1>3. answer[c].reset \in Nat
  BY DEF WindowInv, Window!TypeOK, Window!Answers
<1> QED
  BY <1>1, <1>2, <1>3

(* What a call that answers after PTTL or PEXPIRE leaves.                    *)
LEMMA NoEndlessStep ==
  ASSUME WindowInv, Window!Next, NEW c \in Callers,
         pc[c] \in {"pttl", "pexpire"}, pc'[c] = "idle", answer'[c] # Null
  PROVE  counter' = Null \/ counter'.reset # Null
<1> USE WindowConstants
<1>1. /\ adapter \in Window!Incrementing /\ answer[c] = Null
      /\ pc \in [Callers -> {"idle", "read", "write", "pttl", "pexpire"}]
      /\ answer \in [Callers -> Window!Answers \cup {Null}]
  BY DEF WindowInv, InPhase, Window!TypeOK
<1>2. ASSUME NEW d \in Callers, Window!Pttl(d), d = c PROVE counter' = Null \/ counter'.reset # Null
  <2>1. CASE Window!MustExpire(seen[c])
    BY <1>1, <1>2, <2>1 DEF Window!Pttl, Window!Wait
  <2>2. CASE ~Window!MustExpire(seen[c])
    <3>1. counter' = counter
      BY <1>2 DEF Window!Pttl
    <3> QED
      BY <2>2, <3>1, TtlIs DEF Window!MustExpire
  <2> QED
    BY <2>1, <2>2
<1>3. ASSUME NEW d \in Callers, Window!Pexpire(d), d = c PROVE counter' = Null \/ counter'.reset # Null
  <2>1. CASE Window!Open
    <3>1. counter \in Window!Counters /\ clock + Duration \in Nat
      BY <2>1, WindowFacts DEF Window!Open
    <3>2. counter'.reset = clock + Duration
      BY <1>3, <2>1, <3>1 DEF Window!Pexpire, Window!Counters
    <3> QED
      BY <3>1, <3>2
  <2>2. CASE ~Window!Open
    BY <1>3, <2>2 DEF Window!Pexpire, Window!Open
  <2> QED
    BY <2>1, <2>2
<1>4. ASSUME NEW d \in Callers, Window!Abort(d) \/ Window!Reset(d) PROVE answer'[c] = Null
  BY <1>1, <1>4 DEF Window!Abort, Window!Reset
<1>5. ASSUME NEW d \in Callers, Window!IncrementAndCheck(d), d # c PROVE pc'[c] = pc[c]
  BY <1>1, <1>5
     DEF Window!IncrementAndCheck, Window!HitAtOnce, Window!Begin, Window!Script, Window!Incr,
         Window!Pttl, Window!Pexpire, Window!Select, Window!Write, Window!Get, Window!Put,
         Window!Answer, Window!Wait
<1>6. ASSUME Window!IncrementAndCheck(c) PROVE Window!Pttl(c) \/ Window!Pexpire(c)
  BY <1>1, <1>6
     DEF Window!IncrementAndCheck, Window!HitAtOnce, Window!Begin, Window!Script, Window!Incr,
         Window!Select, Window!Write, Window!Get, Window!Put, Window!Enter
<1>7. ~Window!Tick
  BY <1>1 DEF Window!Tick
<1> QED
  BY <1>2, <1>3, <1>4, <1>5, <1>6, <1>7 DEF Window!Next

-----------------------------------------------------------------------------
(* Token buckets. *)

(* A full bucket, and the most that a tick adds, but for roundings.          *)
Full == Bucket!Largest * Bucket!Token + 1
Rate == Bucket!PerTick + 1

(* A bucket with s shares at moment l, and what has been granted up to each  *)
(* moment: whatever stretch of time one looks at, what was granted in it and *)
(* what is left is no more than a full bucket and what flowed in.            *)
Level(sp, l, s) ==
  /\ \A t \in 1..MaxTime : \A u \in t..MaxTime : sp[u] - sp[t - 1] <= Full + (u - t) * Rate
  /\ \A t \in 1..l : sp[l] - sp[t - 1] + s <= Full + (l - t) * Rate
  /\ \A u \in l..MaxTime : sp[u] = sp[l]

Spending ==
  Bucket!Kept => IF bucket = Null THEN spent = Bucket!Nothing
                 ELSE Level(spent, bucket.lastRefill, bucket.shares)

(* Bucket b holds, or will hold by the time it was promised and but for the  *)
(* drift since, what refusal a lacked, if it can hold as much at all.        *)
Promised(b, a) ==
  a.cost <= Bucket!CapacityOf(b, a) =>
    \/ b.shares >= a.cost * Bucket!Token
    \/ b.shares + (a.reset - b.lastRefill) * Bucket!PerTick + (b.lastRefill - a.since) + 3
         >= a.cost * Bucket!Token

(* A bucket as the adapter keeps it at this moment.                          *)
Sound(b) ==
  /\ b \in Bucket!Buckets /\ b.lastRefill <= clock
  /\ adapter = "memory" => b.capacity \in Capacities

(* A call in flight, and what it has read.                                   *)
CallOK(c) ==
  /\ pc[c] # "idle" => request[c] # Null /\ adapter \notin {"memory", "sqlite"}
  /\ pc[c] = "write" => adapter # "redis-eval"
  /\ seen[c] # Null => Sound(seen[c])
  /\ ~overlapped /\ pc[c] = "write" => seen[c] = bucket
  /\ ~overlapped /\ pc[c] # "idle" /\ bucket # Null => bucket.lastRefill <= request[c].kNow

BucketInv ==
  /\ Bucket!TypeOK /\ Serial /\ Spending
  /\ bucket # Null => Sound(bucket)
  /\ ~overlapped /\ answer # Null => bucket # Null /\ Promised(bucket, answer)
  /\ \A c \in Callers : CallOK(c)

LEMMA PositiveProduct ==
  ASSUME NEW m \in Nat \ {0}, NEW n \in Nat \ {0}
  PROVE  m * n \in Nat \ {0}
BY SMT

LEMMA BucketConstants ==
  /\ Capacities \subseteq Nat /\ Costs \subseteq Nat \ {0}
  /\ Bucket!Token \in Nat \ {0} /\ Bucket!PerTick \in Nat \ {0} /\ Rate \in Nat \ {0}
  /\ MaxTime \in Nat \ {0}
  /\ Null \notin Nat /\ Null \notin Bucket!Buckets /\ Null \notin Bucket!Calls
  /\ Null \notin Bucket!Refusals
  /\ Bucket!Largest \in Capacities /\ \A cap \in Capacities : cap <= Bucket!Largest
<1>1. \E cap \in Capacities : \A other \in Capacities : other <= cap
  BY StoreAssumption DEF Bucket!BucketAssumption
<1>2. Bucket!Largest \in Capacities /\ \A cap \in Capacities : cap <= Bucket!Largest
  BY <1>1 DEF Bucket!Largest
<1>3. /\ Refill \in Nat \ {0} /\ Interval \in Nat \ {0} /\ Grain \in Nat \ {0}
  BY StoreAssumption DEF Bucket!BucketAssumption
<1>4. Bucket!Token \in Nat \ {0} /\ Bucket!PerTick \in Nat \ {0}
  BY <1>3, PositiveProduct DEF Bucket!Token, Bucket!PerTick
<1>5. Rate \in Nat \ {0}
  <2> DEFINE n == Bucket!PerTick
  <2>1. n \in Nat \ {0}
    BY <1>4
  <2> HIDE DEF n
  <2>2. n + 1 \in Nat \ {0}
    BY <2>1
  <2> QED
    BY <2>2 DEF Rate, n
<1> QED
  BY <1>2, <1>4, <1>5, StoreAssumption DEF Bucket!BucketAssumption

LEMMA ProductSplits ==
  ASSUME NEW a \in Int, NEW b \in Int, NEW r \in Int
  PROVE  (a + b) * r = a * r + b * r /\ a * r \in Int /\ b * r \in Int
BY SMT

LEMMA ProductGrows ==
  ASSUME NEW a \in Int, NEW b \in Int, NEW r \in Nat, a <= b
  PROVE  a * r <= b * r /\ a * r \in Int /\ b * r \in Int
BY SMT

LEMMA CeilDivIs ==
  ASSUME NEW m \in Nat, NEW n \in Nat \ {0}
  PROVE  Bucket!CeilDiv(m, n) \in Nat /\ Bucket!CeilDiv(m, n) * n >= m
BY SMT DEF Bucket!CeilDiv

LEMMA FullIs ==
  /\ Full \in Nat
  /\ \A cap \in Capacities : cap * Bucket!Token \in Nat /\ cap * Bucket!Token <= Full
<1> USE BucketConstants
<1> DEFINE token == Bucket!Token
           most == Bucket!Largest * token
<1>1. Bucket!Largest \in Nat /\ token \in Nat
  OBVIOUS
<1>2. ASSUME NEW cap \in Capacities PROVE cap * token \in Nat /\ cap * token <= most
  <2>1. cap \in Nat /\ cap <= Bucket!Largest
    OBVIOUS
  <2> HIDE DEF token
  <2>2. cap * token \in Nat
    BY <1>1, <2>1
  <2> QED
    BY <1>1, <2>1, <2>2, ProductGrows DEF most
<1>3. most \in Nat /\ Full = most + 1
  <2> HIDE DEF token
  <2>1. Bucket!Largest * token \in Nat
    BY <1>1
  <2> QED
    BY <2>1 DEF Full, token
<1> HIDE DEF most
<1>4. ASSUME NEW cap \in Capacities PROVE cap * token \in Nat /\ cap * token <= Full
  <2> DEFINE n == cap * token
  <2>1. n \in Nat /\ n <= most
    BY <1>2
  <2> HIDE DEF n
  <2>2. n \in Nat /\ n <= Full
    BY <1>3, <2>1
  <2> QED
    BY <2>2 DEF n
<1>5. Full \in Nat
  BY <1>3
<1> QED
  BY <1>4, <1>5

(* A bucket that has granted nothing is level, be it full.                   *)
LEMMA NewIsLevel ==
  ASSUME NEW l \in 1..MaxTime, NEW s \in Nat, s <= Full
  PROVE  Level(Bucket!Nothing, l, s)
<1> USE BucketConstants
<1>1. ASSUME NEW t \in 1..MaxTime, NEW u \in t..MaxTime PROVE (u - t) * Rate \in Nat
  <2>1. u - t \in Nat /\ Rate \in Nat
    OBVIOUS
  <2> QED
    BY <2>1
<1>2. \A t \in 0..MaxTime : Bucket!Nothing[t] = 0
  BY DEF Bucket!Nothing
<1>3. \A t \in 1..MaxTime : t - 1 \in 0..MaxTime /\ t \in 0..MaxTime
  OBVIOUS
<1>4. \A t \in 1..MaxTime : \A u \in t..MaxTime :
        Bucket!Nothing[u] - Bucket!Nothing[t - 1] <= Full + (u - t) * Rate
  <2> TAKE t \in 1..MaxTime
  <2> TAKE u \in t..MaxTime
  <2>1. Bucket!Nothing[u] = 0 /\ Bucket!Nothing[t - 1] = 0
    BY <1>2, <1>3
  <2>2. (u - t) * Rate \in Nat
    BY <1>1
  <2> QED
    BY <2>1, <2>2, FullIs
<1>5. \A t \in 1..l : Bucket!Nothing[l] - Bucket!Nothing[t - 1] + s <= Full + (l - t) * Rate
  <2> TAKE t \in 1..l
  <2>1. Bucket!Nothing[l] = 0 /\ Bucket!Nothing[t - 1] = 0
    BY <1>2, <1>3
  <2>2. (l - t) * Rate \in Nat
    BY <1>1
  <2> QED
    BY <2>1, <2>2, FullIs
<1> QED
  BY <1>2, <1>4, <1>5 DEF Level

(* It stays so when time refills it,                                         *)
LEMMA RefillIsLevel ==
  ASSUME NEW sp \in [0..MaxTime -> Nat], NEW l \in 1..MaxTime, NEW s \in Nat, Level(sp, l, s),
         NEW k \in 1..MaxTime, l < k, NEW n \in Nat, n <= Full, n <= s + (k - l) * Rate
  PROVE  Level(sp, k, n)
<1> USE BucketConstants
<1>1. \A u \in k..MaxTime : sp[u] = sp[k]
  BY DEF Level
<1>2. ASSUME NEW t \in 1..k PROVE sp[k] - sp[t - 1] + n <= Full + (k - t) * Rate
  <2>1. sp[k] = sp[l] /\ sp[k] \in Nat /\ sp[t - 1] \in Nat
    BY DEF Level
  <2>2. CASE t <= l
    <3>1. sp[l] - sp[t - 1] + s <= Full + (l - t) * Rate
      BY <2>2 DEF Level
    <3>2. ((l - t) + (k - l)) * Rate = (l - t) * Rate + (k - l) * Rate
          /\ (l - t) * Rate \in Int /\ (k - l) * Rate \in Int
      BY ProductSplits
    <3>3. (l - t) + (k - l) = k - t
      OBVIOUS
    <3> QED
      BY <2>1, <3>1, <3>2, <3>3, FullIs
  <2>3. CASE t > l
    <3>1. sp[t - 1] = sp[l]
      BY <2>3 DEF Level
    <3>2. k - t \in Nat /\ Rate \in Nat
      OBVIOUS
    <3> DEFINE flown == (k - t) * Rate
    <3>3. flown \in Nat
      BY <3>2
    <3> HIDE DEF flown
    <3>4. sp[k] - sp[t - 1] + n <= Full + flown
      BY <2>1, <3>1, <3>3, FullIs
    <3> QED
      BY <3>4 DEF flown
  <2> QED
    BY <2>2, <2>3
<1> QED
  BY <1>1, <1>2 DEF Level

(* and when some of it is granted.                                           *)
LEMMA GrantIsLevel ==
  ASSUME NEW sp \in [0..MaxTime -> Nat], NEW l \in 1..MaxTime, NEW s \in Nat, Level(sp, l, s),
         NEW n \in Nat, n <= s
  PROVE  Level([u \in 0..MaxTime |-> IF u < l THEN sp[u] ELSE sp[u] + n], l, s - n)
<1> USE BucketConstants
<1> DEFINE more == [u \in 0..MaxTime |-> IF u < l THEN sp[u] ELSE sp[u] + n]
<1>1. \A u \in 0..MaxTime : more[u] = (IF u < l THEN sp[u] ELSE sp[u] + n) /\ sp[u] \in Nat
  OBVIOUS
<1> HIDE DEF more
<1>2. \A u \in l..MaxTime : more[u] = more[l]
  BY <1>1 DEF Level
<1>3. ASSUME NEW t \in 1..l PROVE more[l] - more[t - 1] + (s - n) <= Full + (l - t) * Rate
  <2>1. sp[l] - sp[t - 1] + s <= Full + (l - t) * Rate
    BY DEF Level
  <2>2. more[l] = sp[l] + n /\ more[t - 1] = sp[t - 1] /\ sp[l] \in Nat /\ sp[t - 1] \in Nat
    BY <1>1
  <2>3. (l - t) * Rate \in Int
    BY ProductSplits
  <2> QED
    BY <2>1, <2>2, <2>3, FullIs
<1>4. ASSUME NEW t \in 1..MaxTime, NEW u \in t..MaxTime
      PROVE  more[u] - more[t - 1] <= Full + (u - t) * Rate
  <2>1. sp[u] - sp[t - 1] <= Full + (u - t) * Rate
    BY DEF Level
  <2>2. sp[u] \in Nat /\ sp[t - 1] \in Nat /\ (u - t) * Rate \in Int
    BY <1>1, ProductSplits
  <2>3. CASE u < l \/ t > l
    <3>1. more[u] - more[t - 1] = sp[u] - sp[t - 1]
      BY SMTT(30), <1>1, <2>2, <2>3
    <3> QED
      BY <2>1, <3>1
  <2>4. CASE t <= l /\ l <= u
    <3>1. more[u] = more[l] /\ more[l] - more[t - 1] + (s - n) <= Full + (l - t) * Rate
      BY <1>2, <1>3, <2>4
    <3>2. (l - t) * Rate <= (u - t) * Rate /\ (l - t) * Rate \in Int
      BY <2>4, ProductGrows
    <3>3. more[l] \in Nat /\ more[t - 1] \in Nat
      BY SMTT(30), <1>1
    <3> DEFINE flown == (l - t) * Rate
               inflow == (u - t) * Rate
               total == more[l] - more[t - 1]
    <3>4. /\ total + (s - n) <= Full + flown /\ flown <= inflow /\ flown \in Int /\ inflow \in Int
          /\ total \in Int /\ more[u] - more[t - 1] = total
      BY SMTT(30), <2>2, <3>1, <3>2, <3>3
    <3> HIDE DEF flown, inflow, total
    <3>5. total <= Full + inflow
      BY <3>4, FullIs
    <3> QED
      BY <3>4, <3>5 DEF inflow
  <2> QED
    BY <2>3, <2>4
<1>5. Level(more, l, s - n)
  BY <1>2, <1>3, <1>4 DEF Level
<1> QED
  BY <1>5 DEF more

(* A bucket in the hands of a call with request q.                           *)
Holding(b, q) ==
  /\ Sound(b)
  /\ Bucket!Kept => Level(spent, b.lastRefill, b.shares)
  /\ ~overlapped => b.lastRefill <= q.kNow
  /\ ~overlapped /\ answer # Null /\ answer.capacity = q.capacity => Promised(b, answer)

LEMMA BucketFields ==
  ASSUME NEW b, Sound(b)
  PROVE  /\ b \in Bucket!Buckets /\ b # Null /\ b.shares \in Nat /\ b.lastRefill \in 1..MaxTime
         /\ b.capacity \in Capacities \cup {Null} /\ b.lastRefill <= clock
BY BucketConstants DEF Sound, Bucket!Buckets

LEMMA CallFields ==
  ASSUME NEW q \in Bucket!Calls
  PROVE  /\ q # Null /\ q.capacity \in Capacities /\ q.cost \in Costs /\ q.kNow \in 1..MaxTime
         /\ q.cost \in Nat \ {0} /\ q.cost * Bucket!Token \in Nat
<1> USE BucketConstants
<1>1. q # Null /\ q.capacity \in Capacities /\ q.cost \in Costs /\ q.kNow \in 1..MaxTime
  BY DEF Bucket!Calls
<1>2. q.cost \in Nat \ {0} /\ Bucket!Token \in Nat \ {0}
  BY <1>1
<1> QED
  BY <1>1, <1>2, PositiveProduct

LEMMA RefusalFields ==
  ASSUME NEW a \in Bucket!Refusals
  PROVE  /\ a.cost \in Nat \ {0} /\ a.since \in Nat /\ a.reset \in Nat
         /\ a.cost * Bucket!Token \in Nat
<1> USE BucketConstants
<1>1. a.cost \in Costs /\ a.since \in 1..MaxTime /\ a.reset \in Nat
  BY DEF Bucket!Refusals
<1>2. Bucket!Token \in Nat \ {0}
  OBVIOUS
<1>3. ASSUME NEW n \in Costs PROVE n \in Nat \ {0}
  BY <1>3
<1>4. ASSUME NEW n \in 1..MaxTime PROVE n \in Nat
  BY <1>4
<1>5. a.cost \in Nat \ {0} /\ a.since \in Nat
  BY <1>1, <1>3, <1>4, Zenon
<1> QED
  BY <1>1, <1>2, <1>5, PositiveProduct

LEMMA LoadedHolds ==
  ASSUME BucketInv, NEW q \in Bucket!Calls, q.kNow <= clock,
         NEW b \in Bucket!Buckets \cup {Null}, b # Null => Sound(b),
         Bucket!Kept => b = bucket,
         ~overlapped /\ bucket # Null => bucket.lastRefill <= q.kNow
  PROVE  Holding(Bucket!Loaded(b, q), q)
<1> USE BucketConstants
<1>1. CASE b # Null
  <2>1. Bucket!Loaded(b, q) = b
    BY <1>1 DEF Bucket!Loaded
  <2>2. Bucket!Kept => bucket = b /\ Level(spent, b.lastRefill, b.shares)
    BY <1>1 DEF BucketInv, Spending
  <2>3. ~overlapped => Bucket!Kept
    BY DEF Bucket!Kept
  <2> QED
    BY <1>1, <2>1, <2>2, <2>3 DEF Holding, BucketInv
<1>2. CASE b = Null
  <2> DEFINE new == [shares |-> q.capacity * Bucket!Token, lastRefill |-> q.kNow,
                     capacity |-> IF adapter = "memory" THEN q.capacity ELSE Null]
  <2>1. Bucket!Loaded(b, q) = new
    BY <1>2 DEF Bucket!Loaded
  <2>2. /\ q.capacity * Bucket!Token \in Nat /\ q.capacity * Bucket!Token <= Full
        /\ q.capacity \in Capacities /\ q.kNow \in 1..MaxTime
    BY CallFields, FullIs
  <2>3. /\ new \in Bucket!Buckets /\ new.lastRefill = q.kNow
        /\ new.shares = q.capacity * Bucket!Token
        /\ adapter = "memory" => new.capacity \in Capacities
    BY <2>2 DEF Bucket!Buckets
  <2>4. (Bucket!Kept => spent = Bucket!Nothing) /\ (~overlapped => answer = Null)
    BY <1>2 DEF BucketInv, Spending, Bucket!Kept
  <2> HIDE DEF new
  <2>5. Bucket!Kept => Level(spent, new.lastRefill, new.shares)
    BY <2>2, <2>3, <2>4, NewIsLevel
  <2> QED
    BY <2>1, <2>2, <2>3, <2>4, <2>5 DEF Holding, Sound
<1> QED
  BY <1>1, <1>2

(* What a refill makes of a bucket: it is off by a share.                    *)
LEMMA RefilledIs ==
  ASSUME NEW q \in Bucket!Calls, NEW b, Sound(b), NEW r \in Bucket!Refilled(b, q), b.lastRefill < q.kNow
  PROVE  /\ r \in Bucket!Buckets /\ r.lastRefill = q.kNow /\ r.capacity = b.capacity
         /\ Bucket!CapacityOf(b, q) \in Capacities
         /\ \E flown \in Nat, cap \in Nat, n \in Nat :
              /\ flown = (q.kNow - b.lastRefill) * Bucket!PerTick
              /\ cap = Bucket!CapacityOf(b, q) * Bucket!Token
              /\ b.shares + flown - 1 <= n /\ n <= b.shares + flown + 1
              /\ r.shares = Bucket!Smaller(cap, n)
<1> USE BucketConstants
<1> DEFINE cap == Bucket!CapacityOf(b, q) * Bucket!Token
           flown == (q.kNow - b.lastRefill) * Bucket!PerTick
<1>1. /\ b \in Bucket!Buckets /\ b.shares \in Nat /\ b.lastRefill \in 1..MaxTime
      /\ q.kNow \in 1..MaxTime /\ q.capacity \in Capacities
  BY BucketFields, CallFields
<1>2. PICK n \in Bucket!Rounded(b.shares + flown) :
        r = [b EXCEPT !.shares = Bucket!Smaller(cap, n), !.lastRefill = q.kNow]
  <2>1. ~(q.kNow <= b.lastRefill)
    BY <1>1
  <2> QED
    BY <2>1 DEF Bucket!Refilled
<1>3. Bucket!CapacityOf(b, q) \in Capacities /\ Bucket!CapacityOf(b, q) \in Nat
  BY <1>1 DEF Bucket!CapacityOf, Sound
<1>4. cap \in Nat
  BY <1>3, FullIs
<1>5. flown \in Nat
  <2>1. q.kNow - b.lastRefill \in Nat \ {0} /\ Bucket!PerTick \in Nat \ {0}
    BY <1>1
  <2> QED
    BY <2>1, PositiveProduct
<1> HIDE DEF cap, flown
<1>6. n \in Nat /\ b.shares + flown - 1 <= n /\ n <= b.shares + flown + 1
  BY <1>1, <1>2, <1>5 DEF Bucket!Rounded
<1>7. Bucket!Smaller(cap, n) \in Nat
  BY <1>4, <1>6 DEF Bucket!Smaller
<1>8. /\ r \in Bucket!Buckets /\ r.lastRefill = q.kNow /\ r.capacity = b.capacity
      /\ r.shares = Bucket!Smaller(cap, n)
  BY <1>1, <1>2, <1>7 DEF Bucket!Buckets
<1> QED
  BY <1>3, <1>4, <1>5, <1>6, <1>8 DEF cap, flown

(* Two roundings of one refill.                                              *)
LEMMA RefilledAlike ==
  ASSUME NEW q \in Bucket!Calls, NEW b, Sound(b),
         NEW r \in Bucket!Refilled(b, q), NEW rest \in Bucket!Refilled(b, q)
  PROVE  /\ rest.lastRefill = r.lastRefill /\ rest.capacity = r.capacity
         /\ r.shares \in Nat /\ rest.shares \in Nat /\ r.shares <= rest.shares + 2
<1>1. /\ b \in Bucket!Buckets /\ b.shares \in Nat /\ b.lastRefill \in 1..MaxTime
      /\ q.kNow \in 1..MaxTime
  BY BucketFields, CallFields
<1>2. CASE q.kNow <= b.lastRefill
  BY <1>1, <1>2 DEF Bucket!Refilled
<1>3. CASE b.lastRefill < q.kNow
  <2> DEFINE flown == (q.kNow - b.lastRefill) * Bucket!PerTick
             cap == Bucket!CapacityOf(b, q) * Bucket!Token
  <2>1. /\ r.lastRefill = q.kNow /\ r.capacity = b.capacity
        /\ \E n \in Nat : /\ b.shares + flown - 1 <= n /\ n <= b.shares + flown + 1
                          /\ r.shares = Bucket!Smaller(cap, n)
        /\ flown \in Nat /\ cap \in Nat
    BY <1>3, RefilledIs
  <2>2. /\ rest.lastRefill = q.kNow /\ rest.capacity = b.capacity
        /\ \E n \in Nat : /\ b.shares + flown - 1 <= n /\ n <= b.shares + flown + 1
                          /\ rest.shares = Bucket!Smaller(cap, n)
    BY <1>3, RefilledIs
  <2> HIDE DEF flown, cap
  <2>3. PICK n \in Nat : /\ b.shares + flown - 1 <= n /\ n <= b.shares + flown + 1
                         /\ r.shares = Bucket!Smaller(cap, n)
    BY <2>1
  <2>4. PICK m \in Nat : /\ b.shares + flown - 1 <= m /\ m <= b.shares + flown + 1
                         /\ rest.shares = Bucket!Smaller(cap, m)
    BY <2>2
  <2> QED
    BY <1>1, <2>1, <2>2, <2>3, <2>4 DEF Bucket!Smaller
<1> QED
  BY <1>1, <1>2, <1>3

LEMMA RefilledHolds ==
  ASSUME BucketInv, NEW q \in Bucket!Calls, q.kNow <= clock, NEW b, Holding(b, q),
         NEW new \in Bucket!Refilled(b, q)
  PROVE  Holding(new, q) /\ (~overlapped => new.lastRefill = q.kNow)
<1> USE BucketConstants
<1>1. /\ b \in Bucket!Buckets /\ b.shares \in Nat /\ b.lastRefill \in 1..MaxTime
      /\ b.lastRefill <= clock /\ clock \in Nat /\ q.kNow \in 1..MaxTime
  BY BucketFields, CallFields DEF Holding, BucketInv, Bucket!TypeOK
<1>2. CASE q.kNow <= b.lastRefill
  <2>1. new = b
    BY <1>2 DEF Bucket!Refilled
  <2> QED
    BY <1>1, <1>2, <2>1 DEF Holding
<1>3. CASE b.lastRefill < q.kNow
  <2> DEFINE capacity == Bucket!CapacityOf(b, q)
  <2>1. /\ new \in Bucket!Buckets /\ new.lastRefill = q.kNow /\ new.capacity = b.capacity
        /\ capacity \in Capacities
    BY <1>3, RefilledIs DEF Holding
  <2>2. PICK flown \in Nat, cap \in Nat, n \in Nat :
          /\ flown = (q.kNow - b.lastRefill) * Bucket!PerTick
          /\ cap = capacity * Bucket!Token
          /\ b.shares + flown - 1 <= n /\ n <= b.shares + flown + 1
          /\ new.shares = Bucket!Smaller(cap, n)
    BY <1>3, RefilledIs DEF Holding
  <2> HIDE DEF capacity
  <2>3. cap <= Full
    BY <2>1, <2>2, FullIs
  <2>4. new.shares \in Nat /\ new.shares <= cap /\ new.shares <= b.shares + flown + 1
        /\ (new.shares = cap \/ new.shares >= b.shares + flown - 1)
    BY <1>1, <2>2 DEF Bucket!Smaller
  <2>5. Sound(new)
    BY <2>1 DEF Holding, Sound
  <2>6. Bucket!Kept => Level(spent, new.lastRefill, new.shares)
    <3>1. spent \in [0..MaxTime -> Nat]
      BY DEF BucketInv, Bucket!TypeOK
    <3>2. ASSUME NEW l \in 1..MaxTime, NEW s \in Nat, l = b.lastRefill, s = b.shares, Level(spent, l, s)
          PROVE  Level(spent, q.kNow, new.shares)
      <4> DEFINE gap == q.kNow - l
                 more == gap * Rate
      <4>1. gap \in Nat /\ gap >= 1 /\ gap = q.kNow - b.lastRefill
        BY <1>1, <1>3, <3>2
      <4>2. more = flown + gap
        <5> DEFINE pace == Bucket!PerTick
        <5>1. pace \in Nat /\ Rate = pace + 1 /\ flown = gap * pace
          BY <2>2, <4>1 DEF Rate
        <5> HIDE DEF pace, gap
        <5>2. gap * (pace + 1) = gap * pace + gap
          BY <4>1, <5>1
        <5> QED
          BY <5>1, <5>2
      <4> HIDE DEF more, gap
      <4>3. new.shares <= s + more
        BY <1>1, <2>4, <3>2, <4>1, <4>2
      <4>4. new.shares <= s + (q.kNow - l) * Rate
        BY <4>3 DEF more, gap
      <4>5. new.shares <= Full /\ l < q.kNow
        BY <1>3, <2>3, <2>4, <3>2, FullIs
      <4> QED
        BY <1>1, <2>4, <3>1, <3>2, <4>4, <4>5, RefillIsLevel
    <3> QED
      BY <1>1, <2>1, <3>2 DEF Holding
  <2>7. ASSUME ~overlapped, answer # Null, answer.capacity = q.capacity PROVE Promised(new, answer)
    <3> DEFINE need == answer.cost * Bucket!Token
               pace == Bucket!PerTick
    <3>1. /\ answer.cost \in Nat /\ answer.reset \in Nat /\ answer.since \in Nat
          /\ need \in Nat /\ pace \in Nat \ {0}
      <4>1. answer \in Bucket!Refusals
        BY <2>7 DEF BucketInv, Bucket!TypeOK
      <4> QED
        BY <4>1, RefusalFields
    <3>2. /\ Bucket!CapacityOf(new, answer) = Bucket!CapacityOf(b, answer)
          /\ Bucket!CapacityOf(b, answer) = capacity
          /\ capacity \in Nat
      BY <2>1, <2>7 DEF Bucket!CapacityOf, capacity
    <3> SUFFICES ASSUME answer.cost <= capacity
                 PROVE  \/ new.shares >= need
                        \/ new.shares + (answer.reset - q.kNow) * pace + (q.kNow - answer.since) + 3 >= need
      BY <2>1, <3>2 DEF Promised
    <3>3. cap >= need
      BY <2>2, <3>1, <3>2, ProductGrows
    <3>4. \/ b.shares >= need
          \/ b.shares + (answer.reset - b.lastRefill) * pace + (b.lastRefill - answer.since) + 3 >= need
      BY <2>7, <3>2 DEF Holding, Promised
    <3>5. (answer.reset - b.lastRefill) * pace = (answer.reset - q.kNow) * pace + flown
      <4>1. (answer.reset - q.kNow) + (q.kNow - b.lastRefill) = answer.reset - b.lastRefill
        BY <1>1, <3>1
      <4>2. answer.reset - q.kNow \in Int /\ q.kNow - b.lastRefill \in Int
        BY <1>1, <3>1
      <4> HIDE DEF pace
      <4> QED
        BY <2>2, <3>1, <4>1, <4>2, ProductSplits DEF pace
    <3>6. flown >= 1
      <4> DEFINE gap == q.kNow - b.lastRefill
      <4>1. gap \in Nat \ {0}
        BY <1>1, <1>3
      <4> HIDE DEF gap, pace
      <4>2. gap * pace \in Nat \ {0}
        BY <3>1, <4>1, PositiveProduct
      <4> QED
        BY <2>2, <4>2 DEF gap, pace
    <3> DEFINE owed == (answer.reset - q.kNow) * pace
    <3>7. owed \in Int
      <4>1. answer.reset - q.kNow \in Int
        BY <1>1, <3>1
      <4> HIDE DEF pace
      <4> QED
        BY <3>1, <4>1, ProductSplits
    <3>8. b.shares >= need \/ b.shares + (owed + flown) + (b.lastRefill - answer.since) + 3 >= need
      BY <3>4, <3>5
    <3> HIDE DEF need, owed, pace
    <3>9. new.shares >= need \/ new.shares + owed + (q.kNow - answer.since) + 3 >= need
      BY <1>1, <1>3, <2>4, <3>1, <3>3, <3>6, <3>7, <3>8
    <3> QED
      BY <3>9 DEF owed
  <2> QED
    BY <1>1, <2>1, <2>5, <2>6, <2>7 DEF Holding
<1> QED
  BY <1>1, <1>2, <1>3

(* What a call leaves behind when it has consumed, or been refused.          *)
Leaves ==
  /\ Sound(bucket)' /\ answer' \in Bucket!Refusals \cup {Null} /\ spent' \in [0..MaxTime -> Nat]
  /\ Bucket!Kept => Level(spent', bucket'.lastRefill, bucket'.shares)
  /\ ~overlapped /\ answer' # Null => Promised(bucket, answer)'

(* A bucket with less in it is level, too.                                   *)
LEMMA LessIsLevel ==
  ASSUME NEW sp \in [0..MaxTime -> Nat], NEW l \in 1..MaxTime, NEW s \in Nat, NEW n \in Nat,
         Level(sp, l, s), n <= s
  PROVE  Level(sp, l, n)
<1> USE BucketConstants
<1> SUFFICES ASSUME NEW t \in 1..l PROVE sp[l] - sp[t - 1] + n <= Full + (l - t) * Rate
  BY DEF Level
<1>1. sp[l] - sp[t - 1] + s <= Full + (l - t) * Rate
  BY DEF Level
<1>2. sp[l] \in Nat /\ sp[t - 1] \in Nat
  OBVIOUS
<1> DEFINE most == Full + (l - t) * Rate
<1>3. most \in Int
  BY FullIs, ProductSplits
<1>4. sp[l] - sp[t - 1] + s <= most
  BY <1>1
<1> HIDE DEF most
<1>5. sp[l] - sp[t - 1] + n <= most
  BY <1>2, <1>3, <1>4
<1> QED
  BY <1>5 DEF most

(* A call that was granted its tokens.                                       *)
LEMMA GrantLeaves ==
  ASSUME BucketInv, NEW q \in Bucket!Calls, NEW b, NEW rest, Holding(b, q), Holding(rest, q),
         rest.lastRefill = b.lastRefill, Bucket!Grant(b, rest, q), adapter' = adapter, clock' = clock
  PROVE  Leaves
<1> USE BucketConstants
<1> DEFINE need == q.cost * Bucket!Token
           most == Bucket!Larger(b.shares, rest.shares)
           left == Bucket!Larger(0, rest.shares - need)
<1>1. /\ rest \in Bucket!Buckets /\ rest.shares \in Nat /\ rest.lastRefill \in 1..MaxTime
      /\ b.shares \in Nat /\ need \in Nat /\ spent \in [0..MaxTime -> Nat] /\ Sound(rest)
  BY BucketFields, CallFields DEF Holding, BucketInv, Bucket!TypeOK
<1>2. /\ bucket' = [rest EXCEPT !.shares = left] /\ answer' = Null /\ need <= b.shares
      /\ spent' = IF Bucket!Kept THEN Bucket!SpentMore(b.lastRefill, need) ELSE Bucket!Nothing
  BY <1>1 DEF Bucket!Grant, Bucket!Enough
<1> HIDE DEF need
<1>3. /\ most \in Nat /\ (most = b.shares \/ most = rest.shares) /\ need <= most
      /\ left \in Nat /\ left <= most - need /\ most - need \in Nat
  BY SMTT(30), <1>1, <1>2 DEF Bucket!Larger
<1> HIDE DEF most, left
<1>4. spent' \in [0..MaxTime -> Nat]
  <2>1. Bucket!SpentMore(b.lastRefill, need) \in [0..MaxTime -> Nat]
    BY <1>1 DEF Bucket!SpentMore
  <2>2. Bucket!Nothing \in [0..MaxTime -> Nat]
    BY DEF Bucket!Nothing
  <2> QED
    BY <1>2, <2>1, <2>2
<1>5. Bucket!Kept => Level(spent', rest.lastRefill, left)
  <2> SUFFICES ASSUME Bucket!Kept PROVE Level(spent', rest.lastRefill, left)
    OBVIOUS
  <2> DEFINE l == rest.lastRefill
  <2>1. Level(spent, l, most)
    BY <1>3 DEF Holding
  <2>2. spent' = [u \in 0..MaxTime |-> IF u < l THEN spent[u] ELSE spent[u] + need]
    BY <1>2 DEF Bucket!SpentMore
  <2>3. l \in 1..MaxTime
    BY <1>1
  <2> HIDE DEF l
  <2>4. Level([u \in 0..MaxTime |-> IF u < l THEN spent[u] ELSE spent[u] + need], l, most - need)
    BY <1>1, <1>3, <2>1, <2>3, GrantIsLevel
  <2>5. Level(spent', l, most - need)
    BY <2>2, <2>4
  <2>6. Level(spent', l, left)
    BY <1>3, <1>4, <2>3, <2>5, LessIsLevel
  <2> QED
    BY <2>6 DEF l
<1>6. /\ bucket' \in Bucket!Buckets /\ bucket'.shares = left
      /\ bucket'.lastRefill = rest.lastRefill /\ bucket'.capacity = rest.capacity
  BY <1>1, <1>2, <1>3 DEF Bucket!Buckets
<1>7. Sound(bucket)'
  BY <1>1, <1>6 DEF Sound
<1> QED
  BY <1>2, <1>4, <1>5, <1>6, <1>7 DEF Leaves

(* The shortfall of a bucket, of a wait and of what is stored are a share    *)
(* each, and two.                                                            *)
LEMMA ShortfallsAddUp ==
  ASSUME NEW held \in Nat, NEW kept \in Nat, NEW flow \in Nat, NEW lack \in Nat, NEW goal \in Nat,
         held <= kept + 2, flow >= lack, lack + held + 1 >= goal
  PROVE  kept + flow + 0 + 3 >= goal
OBVIOUS

(* A call that was refused them.                                             *)
LEMMA RefuseLeaves ==
  ASSUME BucketInv, NEW q \in Bucket!Calls, NEW b, NEW rest, Holding(b, q), Holding(rest, q),
         rest.lastRefill = b.lastRefill, b.shares <= rest.shares + 2,
         ~overlapped => rest.lastRefill = q.kNow,
         Bucket!Refuse(b, rest, q), adapter' = adapter, clock' = clock
  PROVE  Leaves
<1> USE BucketConstants
<1> DEFINE need == q.cost * Bucket!Token
           pace == Bucket!PerTick
<1>1. /\ rest \in Bucket!Buckets /\ rest.shares \in Nat /\ rest.lastRefill \in 1..MaxTime
      /\ b.shares \in Nat /\ need \in Nat /\ spent \in [0..MaxTime -> Nat] /\ Sound(rest)
      /\ pace \in Nat \ {0} /\ q.kNow \in 1..MaxTime
  BY BucketFields, CallFields DEF Holding, BucketInv, Bucket!TypeOK
<1>2. PICK missing \in Bucket!Rounded(need - b.shares) :
        /\ bucket' = rest /\ spent' = spent /\ ~(b.shares >= need)
        /\ answer' = IF overlapped THEN Null
                     ELSE IF answer # Null /\ answer.capacity = q.capacity THEN answer
                     ELSE [capacity |-> q.capacity, cost |-> q.cost, since |-> q.kNow,
                           reset |-> q.kNow + Bucket!CeilDiv(missing, pace)]
  BY DEF Bucket!Refuse, Bucket!ResetAt, Bucket!Enough
<1> DEFINE wait == Bucket!CeilDiv(missing, pace)
           new == [capacity |-> q.capacity, cost |-> q.cost, since |-> q.kNow,
                   reset |-> q.kNow + wait]
           flown == wait * pace
<1>3. missing \in Nat /\ missing + b.shares + 1 >= need
  <2> HIDE DEF need
  <2> QED
    BY SMTT(30), <1>1, <1>2 DEF Bucket!Rounded
<1>4. wait \in Nat /\ flown >= missing /\ flown \in Nat
  <2> HIDE DEF pace
  <2>1. wait \in Nat /\ wait * pace >= missing
    BY <1>1, <1>3, CeilDivIs
  <2> HIDE DEF wait
  <2>2. wait * pace \in Nat
    BY <1>1, <2>1
  <2> QED
    BY <2>1, <2>2
<1> HIDE DEF wait
<1>5. /\ new \in Bucket!Refusals /\ new.capacity = q.capacity /\ new.cost = q.cost
      /\ new.since = q.kNow /\ new.reset = q.kNow + wait
  <2> DEFINE moment == q.kNow
             told == q.kNow + wait
  <2>1. /\ moment \in 1..MaxTime /\ told \in Nat
        /\ q.capacity \in Capacities /\ q.cost \in Costs
    BY SMTT(30), <1>1, <1>4, CallFields
  <2> HIDE DEF moment, told
  <2>2. new = [capacity |-> q.capacity, cost |-> q.cost, since |-> moment, reset |-> told]
    BY DEF moment, told
  <2>3. /\ new \in Bucket!Refusals /\ new.capacity = q.capacity /\ new.cost = q.cost
        /\ new.since = moment /\ new.reset = told
    BY <2>1, <2>2 DEF Bucket!Refusals
  <2> QED
    BY <2>3 DEF moment, told
<1>6. answer' = IF overlapped THEN Null
                ELSE IF answer # Null /\ answer.capacity = q.capacity THEN answer ELSE new
  BY <1>2 DEF wait
<1> HIDE DEF new
<1>7. ~overlapped => Promised(rest, new)
  <2> SUFFICES ASSUME ~overlapped
               PROVE  rest.shares + (new.reset - rest.lastRefill) * pace
                        + (rest.lastRefill - new.since) + 3 >= need
    BY <1>5 DEF Promised
  <2>1. new.reset - rest.lastRefill = wait /\ rest.lastRefill - new.since = 0
    BY SMTT(30), <1>1, <1>4, <1>5
  <2> HIDE DEF need
  <2>2. rest.shares + flown + 0 + 3 >= need
    <3> DEFINE held == b.shares
               kept == rest.shares
    <3>1. /\ held \in Nat /\ kept \in Nat /\ flown \in Nat /\ missing \in Nat /\ need \in Nat
          /\ held <= kept + 2 /\ flown >= missing /\ missing + held + 1 >= need
      BY <1>1, <1>3, <1>4
    <3> HIDE DEF flown, held, kept
    <3>2. kept + flown + 0 + 3 >= need
      BY <3>1, ShortfallsAddUp
    <3> QED
      BY <3>2 DEF kept
  <2> QED
    BY <2>1, <2>2
<1>8. answer' \in Bucket!Refusals \cup {Null}
  BY <1>5, <1>6 DEF BucketInv, Bucket!TypeOK
<1>9. ~overlapped /\ answer' # Null => Promised(rest, answer')
  <2>1. CASE answer # Null /\ answer.capacity = q.capacity
    BY <1>6, <2>1 DEF Holding
  <2>2. CASE ~(answer # Null /\ answer.capacity = q.capacity)
    BY <1>6, <1>7, <2>2
  <2> QED
    BY <2>1, <2>2
<1>10. bucket' = rest /\ spent' = spent
  BY <1>2
<1>11. Promised(rest, answer') => Promised(bucket, answer)'
  BY <1>10 DEF Promised, Bucket!CapacityOf
<1>12. Sound(bucket)'
  BY <1>1, <1>10 DEF Sound
<1> QED
  BY <1>1, <1>8, <1>9, <1>10, <1>11, <1>12 DEF Leaves, Holding

LEMMA ConsumeLeaves ==
  ASSUME BucketInv, NEW q \in Bucket!Calls, q.kNow <= clock, NEW found, Holding(found, q),
         Bucket!Consume(found, q), adapter' = adapter, clock' = clock
  PROVE  Leaves
<1>1. PICK b \in Bucket!Refilled(found, q), rest \in Bucket!Refilled(found, q) :
        Bucket!Grant(b, rest, q) \/ Bucket!Refuse(b, rest, q)
  BY DEF Bucket!Consume
<1>2. Holding(b, q) /\ Holding(rest, q) /\ (~overlapped => rest.lastRefill = q.kNow)
  BY RefilledHolds
<1>3. rest.lastRefill = b.lastRefill /\ b.shares <= rest.shares + 2
  BY RefilledAlike DEF Holding
<1> QED
  BY <1>1, <1>2, <1>3, GrantLeaves, RefuseLeaves

LEMMA LeavesInv ==
  ASSUME BucketInv, Leaves, adapter' = adapter, clock' = clock, overlapped' = overlapped
  PROVE  /\ bucket' # Null /\ Sound(bucket)' /\ Spending'
         /\ bucket' \in Bucket!Buckets /\ answer' \in Bucket!Refusals \cup {Null}
         /\ spent' \in [0..MaxTime -> Nat]
         /\ ~overlapped' /\ answer' # Null => Promised(bucket, answer)'
<1>1. bucket' \in Bucket!Buckets /\ bucket' # Null
  BY BucketConstants DEF Leaves, Sound
<1>2. Bucket!Kept' = Bucket!Kept
  BY DEF Bucket!Kept
<1> QED
  BY <1>1, <1>2 DEF Leaves, Spending

LEMMA AtOnceKeeps ==
  ASSUME BucketInv, Bucket!ConsumeAtOnce
  PROVE  BucketInv'
<1> USE BucketConstants
<1>1. /\ adapter \in {"memory", "sqlite"}
      /\ UNCHANGED <<adapter, clock, request, pc, seen, overlapped>>
  BY DEF Bucket!ConsumeAtOnce
<1>2. PICK q \in Bucket!Requests : Bucket!Consume(Bucket!Loaded(bucket, q), q)
  BY DEF Bucket!ConsumeAtOnce
<1>3. q \in Bucket!Calls /\ q.kNow = clock /\ clock \in 1..MaxTime
  BY DEF Bucket!Requests, Bucket!Calls, BucketInv, Bucket!TypeOK
<1>4. bucket # Null => Sound(bucket) /\ bucket.lastRefill <= clock
  BY DEF BucketInv, Sound
<1>5. Holding(Bucket!Loaded(bucket, q), q)
  BY <1>3, <1>4, LoadedHolds DEF BucketInv, Bucket!TypeOK
<1> DEFINE found == Bucket!Loaded(bucket, q)
<1>6. Bucket!Consume(found, q) /\ Holding(found, q) /\ q.kNow <= clock
  BY <1>2, <1>3, <1>5
<1> HIDE DEF found
<1>7. clock' = clock /\ adapter' = adapter
  BY <1>1
<1>8. Leaves
  BY <1>3, <1>6, <1>7, ConsumeLeaves
<1>9. /\ bucket' # Null /\ Sound(bucket)' /\ Spending'
      /\ bucket' \in Bucket!Buckets /\ answer' \in Bucket!Refusals \cup {Null}
      /\ spent' \in [0..MaxTime -> Nat]
      /\ ~overlapped' /\ answer' # Null => Promised(bucket, answer)'
  BY <1>1, <1>8, LeavesInv
<1>10. \A c \in Callers : CallOK(c)'
  BY <1>1 DEF BucketInv, CallOK, Sound
<1>11. Bucket!TypeOK' /\ Serial'
  BY <1>1, <1>9 DEF BucketInv, Bucket!TypeOK, Serial
<1> QED
  BY <1>9, <1>10, <1>11 DEF BucketInv

(* The end of a call, whatever became of it.                                 *)
LEMMA LeaveIs ==
  ASSUME BucketInv, NEW c \in Callers, pc[c] # "idle", Bucket!Leave(c),
         ~overlapped \/ bucket' = bucket \/ bucket' # Null
  PROVE  /\ adapter' = adapter /\ clock' = clock /\ overlapped' = overlapped /\ Serial'
         /\ request' \in [Callers -> Bucket!Calls \cup {Null}]
         /\ \A d \in Callers : request'[d] # Null => request'[d].kNow <= clock
         /\ pc' \in [Callers -> {"idle", "read", "write"}]
         /\ seen' \in [Callers -> Bucket!Buckets \cup {Null}]
         /\ \A d \in Callers : CallOK(d)'
<1> USE BucketConstants
<1>1. /\ adapter' = adapter /\ clock' = clock /\ overlapped' = overlapped
      /\ pc' = [pc EXCEPT ![c] = "idle"] /\ request' = [request EXCEPT ![c] = Null]
      /\ seen' = [seen EXCEPT ![c] = Null]
  BY DEF Bucket!Leave
<1>2. /\ request \in [Callers -> Bucket!Calls \cup {Null}]
      /\ \A d \in Callers : request[d] # Null => request[d].kNow <= clock
      /\ pc \in [Callers -> {"idle", "read", "write"}]
      /\ seen \in [Callers -> Bucket!Buckets \cup {Null}] /\ Serial
  BY DEF BucketInv, Bucket!TypeOK
<1>3. Serial'
  BY <1>1, <1>2 DEF Serial
<1>4. CallOK(c)'
  BY <1>1, <1>2 DEF CallOK
<1>5. ASSUME NEW d \in Callers, d # c PROVE CallOK(d)'
  <2>1. pc'[d] = pc[d] /\ seen'[d] = seen[d] /\ request'[d] = request[d] /\ CallOK(d)
    BY <1>1, <1>2, <1>5 DEF BucketInv
  <2>2. ~overlapped => pc[d] = "idle"
    BY <1>2, <1>5 DEF Serial
  <2>3. Sound(seen[d]) => Sound(seen[d])'
    BY <1>1, <2>1 DEF Sound
  <2> QED
    BY <1>1, <2>1, <2>2, <2>3 DEF CallOK
<1>6. \A d \in Callers : CallOK(d)'
  BY <1>4, <1>5
<1> QED
  BY <1>1, <1>2, <1>3, <1>6

LEMMA ConsumeKeeps ==
  ASSUME BucketInv, NEW c \in Callers, pc[c] # "idle", Leaves, Bucket!Leave(c)
  PROVE  BucketInv'
<1>1. adapter' = adapter /\ clock' = clock /\ overlapped' = overlapped
  BY DEF Bucket!Leave
<1>2. /\ bucket' # Null /\ Sound(bucket)' /\ Spending'
      /\ bucket' \in Bucket!Buckets /\ answer' \in Bucket!Refusals \cup {Null}
      /\ spent' \in [0..MaxTime -> Nat]
      /\ ~overlapped' /\ answer' # Null => Promised(bucket, answer)'
  BY <1>1, LeavesInv
<1>3. /\ Serial' /\ \A d \in Callers : CallOK(d)'
      /\ request' \in [Callers -> Bucket!Calls \cup {Null}]
      /\ \A d \in Callers : request'[d] # Null => request'[d].kNow <= clock'
      /\ pc' \in [Callers -> {"idle", "read", "write"}]
      /\ seen' \in [Callers -> Bucket!Buckets \cup {Null}]
  BY <1>1, <1>2, LeaveIs
<1>4. Bucket!TypeOK'
  BY <1>1, <1>2, <1>3 DEF BucketInv, Bucket!TypeOK
<1> QED
  BY <1>2, <1>3, <1>4 DEF BucketInv

(* The bucket a call goes on with: the one it read, or that of the moment.   *)
LEMMA GoesOn ==
  ASSUME BucketInv, NEW c \in Callers, pc[c] # "idle", NEW b \in Bucket!Buckets \cup {Null},
         b # Null => Sound(b), Bucket!Kept => b = bucket,
         Bucket!Consume(Bucket!Loaded(b, request[c]), request[c]),
         Bucket!Leave(c)
  PROVE  BucketInv'
<1> DEFINE q == request[c]
           found == Bucket!Loaded(b, q)
<1>1. q \in Bucket!Calls /\ q.kNow <= clock /\ adapter' = adapter /\ clock' = clock
  BY DEF BucketInv, Bucket!TypeOK, CallOK, Bucket!Leave
<1>2. ~overlapped /\ bucket # Null => bucket.lastRefill <= q.kNow
  BY DEF BucketInv, CallOK
<1>3. Bucket!Consume(found, q)
  OBVIOUS
<1> HIDE DEF q
<1>4. Holding(found, q)
  BY <1>1, <1>2, LoadedHolds
<1> HIDE DEF found
<1>5. Leaves
  BY <1>1, <1>3, <1>4, ConsumeLeaves
<1> QED
  BY <1>5, ConsumeKeeps

LEMMA BucketScriptKeeps ==
  ASSUME BucketInv, NEW c \in Callers, Bucket!Script(c)
  PROVE  BucketInv'
<1>1. pc[c] # "idle" /\ bucket \in Bucket!Buckets \cup {Null} /\ (bucket # Null => Sound(bucket))
  BY DEF Bucket!Script, BucketInv, Bucket!TypeOK
<1>2. /\ Bucket!Consume(Bucket!Loaded(bucket, request[c]), request[c])
      /\ Bucket!Leave(c)
  BY DEF Bucket!Script
<1> QED
  BY <1>1, <1>2, GoesOn

LEMMA BucketWriteKeeps ==
  ASSUME BucketInv, NEW c \in Callers, Bucket!Write(c)
  PROVE  BucketInv'
<1> DEFINE b == seen[c]
<1>1. /\ pc[c] = "write" /\ Bucket!Leave(c)
      /\ Bucket!Consume(Bucket!Loaded(b, request[c]), request[c])
  BY DEF Bucket!Write
<1>2. b \in Bucket!Buckets \cup {Null} /\ (b # Null => Sound(b))
  BY DEF BucketInv, Bucket!TypeOK, CallOK
<1>3. Bucket!Kept => b = bucket
  BY <1>1 DEF BucketInv, CallOK, Bucket!Kept, Bucket!Atomic
<1> HIDE DEF b
<1> QED
  BY <1>1, <1>2, <1>3, GoesOn

LEMMA BucketAbortKeeps ==
  ASSUME BucketInv, NEW c \in Callers, Bucket!Abort(c)
  PROVE  BucketInv'
<1>1. /\ pc[c] # "idle" /\ Bucket!Leave(c)
      /\ bucket' = bucket /\ answer' = answer /\ spent' = spent
      /\ adapter' = adapter /\ clock' = clock /\ overlapped' = overlapped
  BY DEF Bucket!Abort, Bucket!Leave
<1>2. /\ Serial' /\ \A d \in Callers : CallOK(d)'
      /\ request' \in [Callers -> Bucket!Calls \cup {Null}]
      /\ \A d \in Callers : request'[d] # Null => request'[d].kNow <= clock'
      /\ pc' \in [Callers -> {"idle", "read", "write"}]
      /\ seen' \in [Callers -> Bucket!Buckets \cup {Null}]
  BY <1>1, LeaveIs
<1>3. Bucket!TypeOK'
  BY <1>1, <1>2 DEF BucketInv, Bucket!TypeOK
<1>4. Spending'
  BY <1>1 DEF BucketInv, Spending, Bucket!Kept
<1>5. bucket' # Null => Sound(bucket)'
  BY <1>1 DEF BucketInv, Sound
<1>6. ~overlapped' /\ answer' # Null => bucket' # Null /\ Promised(bucket, answer)'
  BY <1>1 DEF BucketInv, Promised, Bucket!CapacityOf
<1> QED
  BY <1>2, <1>3, <1>4, <1>5, <1>6 DEF BucketInv

LEMMA BucketBeginKeeps ==
  ASSUME BucketInv, NEW c \in Callers, Bucket!Begin(c)
  PROVE  BucketInv'
<1> USE BucketConstants
<1>1. PICK q \in Bucket!Requests : request' = [request EXCEPT ![c] = q]
  BY DEF Bucket!Begin
<1>2. q \in Bucket!Calls /\ q.kNow = clock /\ clock \in 1..MaxTime
  BY DEF Bucket!Requests, Bucket!Calls, BucketInv, Bucket!TypeOK
<1>3. /\ adapter \notin {"memory", "sqlite"} /\ pc[c] = "idle" /\ pc' = [pc EXCEPT ![c] = "read"]
      /\ adapter' = adapter /\ clock' = clock /\ bucket' = bucket /\ seen' = seen
  BY DEF Bucket!Begin
<1>4. \/ /\ overlapped' = TRUE /\ answer' = Null
         /\ spent' = IF adapter \in Bucket!Atomic THEN spent ELSE Bucket!Nothing
      \/ /\ \A d \in Callers : pc[d] = "idle"
         /\ overlapped' = overlapped /\ answer' = answer /\ spent' = spent
  BY DEF Bucket!Begin, Bucket!InFlight
<1>5. /\ request \in [Callers -> Bucket!Calls \cup {Null}]
      /\ \A d \in Callers : request[d] # Null => request[d].kNow <= clock
      /\ pc \in [Callers -> {"idle", "read", "write"}]
      /\ seen \in [Callers -> Bucket!Buckets \cup {Null}]
      /\ answer \in Bucket!Refusals \cup {Null} /\ spent \in [0..MaxTime -> Nat]
      /\ overlapped \in BOOLEAN
  BY DEF BucketInv, Bucket!TypeOK
<1>6. Bucket!Nothing \in [0..MaxTime -> Nat]
  BY DEF Bucket!Nothing
<1>7. Bucket!TypeOK'
  <2>1. /\ request' \in [Callers -> Bucket!Calls \cup {Null}]
        /\ \A d \in Callers : request'[d] # Null => request'[d].kNow <= clock'
    BY <1>1, <1>2, <1>3, <1>5
  <2>2. pc' \in [Callers -> {"idle", "read", "write"}]
    BY <1>3, <1>5
  <2>3. /\ answer' \in Bucket!Refusals \cup {Null} /\ spent' \in [0..MaxTime -> Nat]
        /\ overlapped' \in BOOLEAN
    BY <1>4, <1>5, <1>6
  <2> QED
    BY <1>3, <2>1, <2>2, <2>3 DEF BucketInv, Bucket!TypeOK
<1>8. ~overlapped' => /\ ~overlapped /\ answer' = answer /\ spent' = spent
                     /\ \A d \in Callers : pc[d] = "idle"
  BY <1>4
<1>9. Serial'
  BY <1>3, <1>5, <1>8 DEF Serial
<1>10. Spending'
  BY <1>3, <1>4, <1>8 DEF BucketInv, Spending, Bucket!Kept
<1>11. bucket # Null => Sound(bucket) /\ Sound(bucket)'
  BY <1>3 DEF BucketInv, Sound
<1>12. ~overlapped' /\ answer' # Null => bucket' # Null /\ Promised(bucket, answer)'
  BY <1>3, <1>8 DEF BucketInv, Promised, Bucket!CapacityOf
<1>13. CallOK(c)'
  <2>1. pc'[c] = "read" /\ request'[c] = q /\ seen'[c] = seen[c]
    BY <1>1, <1>3, <1>5
  <2>2. seen[c] # Null => Sound(seen[c])'
    BY <1>3 DEF BucketInv, CallOK, Sound
  <2> QED
    BY <1>2, <1>3, <1>11, <2>1, <2>2 DEF CallOK, Sound
<1>14. ASSUME NEW d \in Callers, d # c PROVE CallOK(d)'
  <2>1. pc'[d] = pc[d] /\ request'[d] = request[d] /\ seen'[d] = seen[d] /\ CallOK(d)
    BY <1>1, <1>3, <1>5, <1>14 DEF BucketInv
  <2>2. Sound(seen[d]) => Sound(seen[d])'
    BY <1>3, <2>1 DEF Sound
  <2> QED
    BY <1>3, <1>8, <2>1, <2>2 DEF CallOK
<1>15. \A d \in Callers : CallOK(d)'
  BY <1>13, <1>14
<1> QED
  BY <1>3, <1>7, <1>9, <1>10, <1>11, <1>12, <1>15 DEF BucketInv

LEMMA BucketReadKeeps ==
  ASSUME BucketInv, NEW c \in Callers, Bucket!Read(c)
  PROVE  BucketInv'
<1> USE BucketConstants
<1>1. /\ pc[c] = "read" /\ adapter # "redis-eval"
      /\ seen' = [seen EXCEPT ![c] = bucket] /\ pc' = [pc EXCEPT ![c] = "write"]
      /\ UNCHANGED <<adapter, clock, bucket, request, answer, spent, overlapped>>
  BY DEF Bucket!Read
<1>2. Bucket!TypeOK'
  BY <1>1 DEF BucketInv, Bucket!TypeOK
<1>3. Serial' /\ Spending'
  BY <1>1 DEF BucketInv, Bucket!TypeOK, Serial, Spending, Bucket!Kept
<1>4. bucket # Null => Sound(bucket) /\ Sound(bucket)'
  BY <1>1 DEF BucketInv, Sound
<1>5. ~overlapped' /\ answer' # Null => bucket' # Null /\ Promised(bucket, answer)'
  BY <1>1 DEF BucketInv, Promised, Bucket!CapacityOf
<1>6. ASSUME NEW d \in Callers PROVE CallOK(d)'
  <2>1. CallOK(d)
    BY DEF BucketInv
  <2>2. CASE d = c
    <3>1. pc'[c] = "write" /\ seen'[c] = bucket
      BY <1>1 DEF BucketInv, Bucket!TypeOK
    <3> QED
      BY <1>1, <1>4, <2>1, <2>2, <3>1 DEF CallOK, Sound
  <2>3. CASE d # c
    <3>1. pc'[d] = pc[d] /\ seen'[d] = seen[d]
      BY <1>1, <2>3 DEF BucketInv, Bucket!TypeOK
    <3>2. Sound(seen[d]) => Sound(seen[d])'
      BY <1>1, <3>1 DEF Sound
    <3> QED
      BY <1>1, <2>1, <3>1, <3>2 DEF CallOK
  <2> QED
    BY <2>2, <2>3
<1> QED
  BY <1>1, <1>2, <1>3, <1>4, <1>5, <1>6 DEF BucketInv

LEMMA BucketResetKeeps ==
  ASSUME BucketInv, Bucket!Reset
  PROVE  BucketInv'
<1>1. /\ bucket' = Null /\ answer' = Null /\ spent' = Bucket!Nothing
      /\ overlapped' = (\E c \in Callers : pc[c] # "idle")
      /\ UNCHANGED <<adapter, clock, request, pc, seen>>
  BY DEF Bucket!Reset, Bucket!InFlight
<1>2. Bucket!Nothing \in [0..MaxTime -> Nat]
  BY DEF Bucket!Nothing
<1>3. Bucket!TypeOK'
  BY <1>1, <1>2 DEF BucketInv, Bucket!TypeOK
<1>4. Serial' /\ Spending'
  BY <1>1 DEF Serial, Spending
<1>5. ASSUME NEW d \in Callers PROVE CallOK(d)'
  <2>1. CallOK(d)
    BY DEF BucketInv
  <2>2. Sound(seen[d]) => Sound(seen[d])'
    BY <1>1 DEF Sound
  <2> QED
    BY <1>1, <2>1, <2>2 DEF CallOK
<1> QED
  BY <1>1, <1>3, <1>4, <1>5 DEF BucketInv

LEMMA BucketTickKeeps ==
  ASSUME BucketInv, Bucket!Tick
  PROVE  BucketInv'
<1> USE BucketConstants
<1>1. /\ clock' = clock + 1 /\ clock < MaxTime /\ clock \in Nat
      /\ UNCHANGED <<adapter, bucket, request, pc, seen, answer, spent, overlapped>>
  BY DEF Bucket!Tick, BucketInv, Bucket!TypeOK
<1>2. Bucket!TypeOK'
  <2>1. ASSUME NEW c \in Callers, request[c] # Null PROVE request[c].kNow <= clock + 1
    <3>1. request[c].kNow \in Nat /\ request[c].kNow <= clock
      BY <2>1, CallFields DEF BucketInv, Bucket!TypeOK
    <3> QED
      BY <1>1, <3>1
  <2> QED
    BY <1>1, <2>1 DEF BucketInv, Bucket!TypeOK
<1>3. Serial' /\ Spending'
  BY <1>1 DEF BucketInv, Serial, Spending, Bucket!Kept
<1>4. ASSUME NEW b, Sound(b), NEW x, x = b
      PROVE  x \in Bucket!Buckets /\ x.lastRefill <= clock + 1 /\ (adapter = "memory" => x.capacity \in Capacities)
  <2>1. b.lastRefill \in Nat /\ b.lastRefill <= clock
    BY <1>4, BucketFields
  <2> QED
    BY <1>1, <1>4, <2>1 DEF Sound
<1>5. bucket # Null => Sound(bucket)'
  BY <1>1, <1>4 DEF BucketInv, Sound
<1>6. ~overlapped' /\ answer' # Null => bucket' # Null /\ Promised(bucket, answer)'
  BY <1>1 DEF BucketInv, Promised, Bucket!CapacityOf
<1>7. ASSUME NEW d \in Callers PROVE CallOK(d)'
  <2>1. CallOK(d)
    BY DEF BucketInv
  <2>2. Sound(seen[d]) => Sound(seen[d])'
    BY <1>1, <1>4 DEF Sound
  <2> QED
    BY <1>1, <2>1, <2>2 DEF CallOK
<1> QED
  BY <1>1, <1>2, <1>3, <1>5, <1>6, <1>7 DEF BucketInv

LEMMA BucketKept ==
  ASSUME BucketInv, Bucket!Next
  PROVE  BucketInv'
BY AtOnceKeeps, BucketBeginKeeps, BucketScriptKeeps, BucketReadKeeps, BucketWriteKeeps,
   BucketAbortKeeps, BucketResetKeeps, BucketTickKeeps
   DEF Bucket!Next

LEMMA BucketInitially == ASSUME Bucket!Init PROVE BucketInv
<1> USE BucketConstants
<1>1. Bucket!Nothing \in [0..MaxTime -> Nat] /\ 1 \in 1..MaxTime
  BY DEF Bucket!Nothing
<1>2. Bucket!TypeOK
  <2>1. /\ bucket = Null /\ answer = Null /\ overlapped = FALSE /\ spent = Bucket!Nothing
        /\ clock = 1 /\ adapter \in BucketAdapters
    BY DEF Bucket!Init
  <2>2. /\ request \in [Callers -> Bucket!Calls \cup {Null}]
        /\ pc \in [Callers -> {"idle", "read", "write"}]
        /\ seen \in [Callers -> Bucket!Buckets \cup {Null}]
        /\ \A c \in Callers : request[c] = Null
    BY DEF Bucket!Init
  <2> QED
    BY <1>1, <2>1, <2>2 DEF Bucket!TypeOK
<1>3. Serial /\ Spending /\ bucket = Null /\ answer = Null
  BY DEF Bucket!Init, Serial, Spending
<1>4. \A c \in Callers : CallOK(c)
  BY DEF Bucket!Init, CallOK
<1> QED
  BY <1>2, <1>3, <1>4 DEF BucketInv

LEMMA GrantsAreBounded ==
  ASSUME BucketInv
  PROVE  Bucket!BurstAndRateBounded
<1> USE BucketConstants
<1> SUFFICES ASSUME Bucket!Kept, NEW t \in 1..clock, NEW u \in t..clock
             PROVE  spent[u] - spent[t - 1] <= Full + (u - t) * Rate
  BY DEF Bucket!BurstAndRateBounded, Bucket!SpentBetween, Full, Rate
<1>1. clock \in 1..MaxTime
  BY DEF BucketInv, Bucket!TypeOK
<1>2. t \in 1..MaxTime /\ u \in t..MaxTime
  BY <1>1
<1>3. \E l \in 1..MaxTime, s \in Nat : Level(spent, l, s)
  <2>1. CASE bucket = Null
    BY <1>2, <2>1, NewIsLevel, FullIs DEF BucketInv, Spending
  <2>2. CASE bucket # Null
    BY <2>2, BucketFields DEF BucketInv, Spending
  <2> QED
    BY <2>1, <2>2
<1> QED
  BY <1>2, <1>3 DEF Level

LEMMA PromisesAreKept ==
  ASSUME BucketInv
  PROVE  Bucket!ResetIsKept
<1> USE BucketConstants
<1> DEFINE q == [capacity |-> answer.capacity, cost |-> answer.cost, kNow |-> clock]
           late == (clock - answer.reset) * Bucket!PerTick
<1> SUFFICES ASSUME ~overlapped, answer # Null, late >= Bucket!Drift(answer),
                    NEW b \in Bucket!Refilled(bucket, q), q.cost <= Bucket!CapacityOf(b, q)
             PROVE  Bucket!Enough(b, q)
  BY DEF Bucket!ResetIsKept
<1>1. /\ answer \in Bucket!Refusals /\ bucket # Null /\ Sound(bucket) /\ clock \in 1..MaxTime
      /\ Promised(bucket, answer)
  BY DEF BucketInv, Bucket!TypeOK
<1>2. /\ q \in Bucket!Calls /\ q.capacity = answer.capacity /\ q.cost = answer.cost
      /\ q.kNow = clock /\ answer.reset \in Nat /\ answer.since \in Nat
  BY <1>1 DEF Bucket!Calls, Bucket!Refusals
<1> HIDE DEF q
<1>3. Holding(bucket, q)
  BY <1>1, <1>2, BucketFields DEF Holding, BucketInv, Spending
<1>4. Holding(b, q) /\ b.lastRefill = clock
  BY SMTT(30), <1>2, <1>3, RefilledHolds DEF BucketInv, Bucket!TypeOK
<1>5. Promised(b, answer) /\ b.shares \in Nat /\ q.cost * Bucket!Token \in Nat
  BY <1>2, <1>4, BucketFields, CallFields DEF Holding
<1>6. Bucket!CapacityOf(b, answer) = Bucket!CapacityOf(b, q)
  BY <1>2 DEF Bucket!CapacityOf
<1> DEFINE need == q.cost * Bucket!Token
           owed == (answer.reset - clock) * Bucket!PerTick
<1>7. \/ b.shares >= need
      \/ b.shares + owed + (clock - answer.since) + 3 >= need
  BY <1>2, <1>4, <1>5, <1>6 DEF Promised
<1>8. owed \in Int /\ late \in Int /\ owed + late = 0
  <2> DEFINE ahead == answer.reset - clock
             behind == clock - answer.reset
             pace == Bucket!PerTick
  <2>1. ahead \in Int /\ behind \in Int /\ ahead + behind = 0 /\ pace \in Int
    BY <1>1, <1>2
  <2> HIDE DEF ahead, behind, pace
  <2>2. (ahead + behind) * pace = ahead * pace + behind * pace
        /\ ahead * pace \in Int /\ behind * pace \in Int
    BY <2>1, ProductSplits
  <2>3. 0 * pace = 0
    BY <2>1
  <2> QED
    BY <2>1, <2>2, <2>3 DEF ahead, behind, pace
<1>9. need \in Nat
  BY <1>5
<1>10. late >= clock - answer.since + 3
  BY DEF Bucket!Drift
<1> HIDE DEF need, owed, late
<1>11. b.shares >= need
  BY <1>1, <1>2, <1>5, <1>7, <1>8, <1>9, <1>10
<1> QED
  BY <1>11 DEF Bucket!Enough, need
-----------------------------------------------------------------------------
(* The plugin, whichever algorithm it goes by. *)

IInv ==
  /\ kind \in {"fixed", "tokenBucket"}
  /\ IF kind = "fixed" THEN WindowInv ELSE BucketInv

LEMMA Initially == Init => IInv
<1> SUFFICES ASSUME Init PROVE IInv
  OBVIOUS
<1>1. CASE kind = "fixed" /\ Window!Init
  BY <1>1, WindowInitially DEF IInv
<1>2. CASE kind = "tokenBucket" /\ Bucket!Init
  BY <1>2, BucketInitially DEF IInv
<1> QED
  BY <1>1, <1>2 DEF Init

LEMMA WindowRests == WindowInv /\ UNCHANGED vars => WindowInv'
BY DEF WindowInv, Window!TypeOK, Window!ExactLimit, Serial, Admissions, InPhase, ReadHolds,
       RefusalKept, Window!Open, Window!Allowance, vars, window, tokens

LEMMA BucketRests == BucketInv /\ UNCHANGED vars => BucketInv'
BY DEF BucketInv, Bucket!TypeOK, Serial, Spending, Sound, Promised, CallOK, Bucket!Kept,
       Bucket!CapacityOf, vars, window, tokens

LEMMA Invariant == IInv /\ [Next]_vars => IInv'
<1> SUFFICES ASSUME IInv, [Next]_vars PROVE IInv'
  OBVIOUS
<1>1. CASE kind = "fixed" /\ Window!Next /\ kind' = kind
  BY <1>1, WindowKept DEF IInv
<1>2. CASE kind = "tokenBucket" /\ Bucket!Next /\ kind' = kind
  BY <1>2, BucketKept DEF IInv
<1>3. CASE UNCHANGED vars
  <2>1. kind' = kind
    BY <1>3 DEF vars
  <2> QED
    BY <1>3, <2>1, WindowRests, BucketRests DEF IInv
<1> QED
  BY <1>1, <1>2, <1>3 DEF Next

LEMMA Invariance == Spec => []IInv
BY Initially, Invariant, PTL DEF Spec

(* The row or bucket of the algorithm in use, its calls in flight and its    *)
(* answers are well formed in every reachable state: a call is only in a     *)
(* phase its adapter has, and only a Redis client without eval ever leaves a *)
(* key without expiry (the stores' incrementAndCheck, consumeTokenBucket).   *)
THEOREM TypeCorrect == Spec => []TypeOK
<1>1. IInv => TypeOK
  BY DEF IInv, WindowInv, BucketInv, TypeOK
<1> QED
  BY <1>1, Invariance, PTL

(* A fixed window admits a request exactly when it has admitted fewer than   *)
(* its allowance, for any limit, window length and number of callers: in any *)
(* interleaving where the increment is one command, and in postgres.ts and   *)
(* cloudflare-kv.ts while calls do not overlap.                              *)
THEOREM LimitIsExact == Spec => []ExactLimit
<1>1. IInv => ExactLimit
  BY DEF IInv, WindowInv, ExactLimit
<1> QED
  BY <1>1, Invariance, PTL

(* In any stretch of time a bucket grants no more than its largest capacity  *)
(* and what flowed in meanwhile, but for a share for each moment, for any    *)
(* capacities, costs and refill rate and any size of the shares that numbers *)
(* are rounded by, however plans change, fractions add up and calls are      *)
(* refused or aborted (consumeTokenBucket).                                  *)
THEOREM BurstIsBounded == Spec => []BurstAndRateBounded
<1>1. IInv => BurstAndRateBounded
  BY GrantsAreBounded DEF IInv, BurstAndRateBounded
<1> QED
  BY <1>1, Invariance, PTL

(* A refused caller that comes back at the reset time it was told finds its  *)
(* window over: of memory and SQLite, and of Postgres and of an SQLite file  *)
(* that is shared when calls do not overlap.  On a bucket that calls do not  *)
(* overlap on it finds its tokens there, if nothing was granted in between   *)
(* and its cost fits the bucket, once what flows in makes up for a share     *)
(* lost at each moment since it was refused and three more, whatever the     *)
(* size of a share (the reset of the stores' answers).                       *)
THEOREM ResetTimesAreKept == Spec => []ResetIsKept
<1>1. IInv => ResetIsKept
  BY RefusalsAreKept, PromisesAreKept DEF IInv, ResetIsKept
<1> QED
  BY <1>1, Invariance, PTL

(* No call of the Redis client without eval answers and leaves a counter     *)
(* without expiry behind, whatever call died between INCR and PEXPIRE before *)
(* (incrementAndCheck of redis.ts).                                          *)
THEOREM WindowsEnd == Spec => NoEndlessWindow
<1> DEFINE Step ==
      \A c \in Callers :
        pc[c] \in {"pttl", "pexpire"} /\ pc'[c] = "idle" /\ answer'[c] # Null
          => counter' = Null \/ counter'.reset # Null
<1>1. IInv /\ [Next]_vars => [Step]_(Window!vars)
  <2> SUFFICES ASSUME IInv, [Next]_vars PROVE [Step]_(Window!vars)
    OBVIOUS
  <2>1. CASE kind = "fixed" /\ Window!Next
    BY <2>1, NoEndlessStep DEF IInv
  <2>2. CASE kind = "tokenBucket"
    BY <2>2 DEF IInv, BucketInv, Bucket!TypeOK
  <2>3. CASE UNCHANGED vars
    BY <2>3 DEF vars, window, Window!vars
  <2> QED
    BY <2>1, <2>2, <2>3 DEF Next, IInv
<1> QED
  BY <1>1, Invariance, PTL DEF Spec, NoEndlessWindow, Window!NoEndlessWindow
=============================================================================
