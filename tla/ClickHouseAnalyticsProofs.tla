----------------------- MODULE ClickHouseAnalyticsProofs -----------------------
(***************************************************************************)
(* Proofs about ClickHouseAnalytics for every batch size, with and without *)
(* a timer and a timeout, and for any number of events and failures.       *)
(***************************************************************************)
EXTENDS ClickHouseAnalytics, SequenceTheorems, FiniteSetTheorems, TLAPS

-----------------------------------------------------------------------------
(* The inductive invariant, part by part. *)

Batches == [batch : Seq(Events) \ {<<>>}, awaited : BOOLEAN]

Types ==
  /\ tracked \in 0..MaxEvents
  /\ queue \in Seq(Events) /\ table \in Seq(Events)
  /\ isFlushing \in BOOLEAN /\ isFlushing <=> flushes # {}
  /\ flushes \subseteq Batches
  /\ timer \in {"pending", "on", "off"}
  /\ closing \in {"open", "waiting", "closed"}
  /\ failures \in 0..MaxFailures
  /\ abandoned \in Seq(Seq(Events))

(* isFlushing keeps flushes from overlapping. *)
OneFlush == \A f, g \in flushes : f = g

(* The events of s are those that follow the n-th. *)
Consecutive(s, n) == \A i \in 1..Len(s) : s[i] = n + i

(* Batch s may be added to table tb: everything before it is there. *)
Follows(s, tb) == \E n \in Nat : Consecutive(s, n) /\ 1..n \subseteq ToSet(tb)

InOrder(tb) == \A i \in 1..Len(tb) : \A e \in 1..tb[i] : \E j \in 1..i : tb[j] = e

(* Of the t events tracked those in p are still to be stored, all others are *)
(* in tb; a batch of ab may be stored once more at any time; and the table   *)
(* is exactly the events in order as long as nothing has failed.             *)
Accounted(t, p, tb, ab, fails) ==
  /\ t - Len(p) \in Nat /\ Consecutive(p, t - Len(p))
  /\ 1..(t - Len(p)) \subseteq ToSet(tb)
  /\ InOrder(tb)
  /\ \A i \in 1..Len(ab) : Follows(ab[i], tb)
  /\ fails = 0 => ab = <<>> /\ Len(tb) = t - Len(p) /\ Consecutive(tb, 0)

IInv == Types /\ OneFlush /\ Accounted(tracked, Pending, table, abandoned, failures)

-----------------------------------------------------------------------------
(* Sequences of events. *)

(* Append and \o by other names, which the provers do not rewrite.           *)
Cat(s, t) == s \o t
Add(s, e) == Append(s, e)

LEMMA ConcatIs ==
  ASSUME NEW S, NEW s \in Seq(S), NEW t \in Seq(S)
  PROVE  /\ s \o t \in Seq(S) /\ Len(s \o t) = Len(s) + Len(t)
         /\ Len(s) \in Nat /\ Len(t) \in Nat
         /\ \A i \in 1..Len(s) : (s \o t)[i] = s[i]
         /\ \A i \in 1..Len(t) : (s \o t)[Len(s) + i] = t[i]
<1>1. Len(s) \in Nat /\ Len(t) \in Nat
  BY LenProperties
<1>2. /\ s \o t \in Seq(S) /\ Len(s \o t) = Len(s) + Len(t)
      /\ \A i \in 1..Len(s) + Len(t) : (s \o t)[i] = IF i <= Len(s) THEN s[i] ELSE t[i - Len(s)]
  BY ConcatProperties
<1>3. \A i \in 1..Len(s) : (s \o t)[i] = s[i]
  BY <1>1, <1>2
<1>4. ASSUME NEW i \in 1..Len(t) PROVE (s \o t)[Len(s) + i] = t[i]
  <2>1. Len(s) + i \in 1..Len(s) + Len(t) /\ ~(Len(s) + i <= Len(s)) /\ Len(s) + i - Len(s) = i
    BY <1>1
  <2> QED
    BY <1>2, <2>1
<1> QED
  BY <1>1, <1>2, <1>3, <1>4

LEMMA ToSetIs ==
  ASSUME NEW S, NEW s \in Seq(S)
  PROVE  /\ ToSet(s) \subseteq S
         /\ \A e : e \in ToSet(s) <=> \E i \in 1..Len(s) : s[i] = e
BY LenProperties DEF ToSet

LEMMA ToSetConcat ==
  ASSUME NEW S, NEW s \in Seq(S), NEW t \in Seq(S)
  PROVE  ToSet(s \o t) = ToSet(s) \cup ToSet(t)
<1>1. ASSUME NEW e \in ToSet(s) PROVE e \in ToSet(s \o t)
  <2>1. PICK i \in 1..Len(s) : s[i] = e
    BY ToSetIs
  <2>2. i \in 1..Len(s \o t) /\ (s \o t)[i] = e
    BY <2>1, ConcatIs
  <2> QED
    BY <2>2, ConcatIs, ToSetIs
<1>2. ASSUME NEW e \in ToSet(t) PROVE e \in ToSet(s \o t)
  <2>1. PICK i \in 1..Len(t) : t[i] = e
    BY ToSetIs
  <2>2. Len(s) + i \in 1..Len(s \o t) /\ (s \o t)[Len(s) + i] = e
    BY <2>1, ConcatIs
  <2> QED
    BY <2>2, ConcatIs, ToSetIs
<1>3. ASSUME NEW e \in ToSet(s \o t) PROVE e \in ToSet(s) \cup ToSet(t)
  <2>1. PICK i \in 1..Len(s \o t) : (s \o t)[i] = e
    BY ConcatIs, ToSetIs
  <2>2. CASE i <= Len(s)
    <3>1. i \in 1..Len(s)
      BY <2>2, ConcatIs
    <3> QED
      BY <2>1, <3>1, ConcatIs, ToSetIs
  <2>3. CASE ~(i <= Len(s))
    <3>1. i - Len(s) \in 1..Len(t) /\ Len(s) + (i - Len(s)) = i
      BY <2>3, ConcatIs
    <3>2. t[i - Len(s)] = e
      BY <2>1, <3>1, ConcatIs
    <3> QED
      BY <3>1, <3>2, ToSetIs
  <2> QED
    BY <2>2, <2>3
<1> QED
  BY <1>1, <1>2, <1>3

(* A batch and what is left of the queue. *)
LEMMA BatchIs ==
  ASSUME NEW S, NEW q \in Seq(S), q # <<>>
  PROVE  /\ NextBatch(q) \in Seq(S) \ {<<>>} /\ Remaining(q) \in Seq(S)
         /\ NextBatch(q) \o Remaining(q) = q
<1>1. /\ Len(q) \in Nat \ {0} /\ BatchSize \in Nat \ {0}
      /\ \A i \in 1..Len(q) : q[i] \in S
  BY EmptySeq, ParametersAssumption, ElementOfSeq
<1> DEFINE n == IF Len(q) < BatchSize THEN Len(q) ELSE BatchSize
<1>2. n \in 1..Len(q) /\ n \in Int
  BY <1>1
<1>3. NextBatch(q) = SubSeq(q, 1, n)
  BY DEF NextBatch
<1>4. /\ NextBatch(q) \in Seq(S) /\ Len(NextBatch(q)) = n
      /\ \A i \in 1..n : NextBatch(q)[i] = q[i]
  <2> HIDE DEF n
  <2>1. \A i \in 1..n : q[i] \in S
    BY <1>1, <1>2
  <2>2. /\ SubSeq(q, 1, n) \in Seq(S)
        /\ Len(SubSeq(q, 1, n)) = IF 1 <= n THEN n - 1 + 1 ELSE 0
        /\ \A i \in 1..(n - 1 + 1) : SubSeq(q, 1, n)[i] = q[1 + i - 1]
    BY <1>2, <2>1, SubSeqProperties
  <2> QED
    BY <1>2, <1>3, <2>2
<1>5. NextBatch(q) # <<>>
  BY <1>2, <1>4, EmptySeq
<1>6. /\ Remaining(q) \in Seq(S) /\ Len(Remaining(q)) = Len(q) - n
      /\ \A i \in 1..(Len(q) - n) : Remaining(q)[i] = q[n + i]
  <2>1. /\ BatchSize + 1 \in Int /\ Len(q) \in Int
        /\ \A i \in (BatchSize + 1)..Len(q) : q[i] \in S
    BY <1>1
  <2>2. /\ SubSeq(q, BatchSize + 1, Len(q)) \in Seq(S)
        /\ Len(SubSeq(q, BatchSize + 1, Len(q))) =
             IF BatchSize + 1 <= Len(q) THEN Len(q) - (BatchSize + 1) + 1 ELSE 0
        /\ \A i \in 1..(Len(q) - (BatchSize + 1) + 1) :
             SubSeq(q, BatchSize + 1, Len(q))[i] = q[BatchSize + 1 + i - 1]
    BY <2>1, SubSeqProperties
  <2>5. Len(Remaining(q)) = IF BatchSize + 1 <= Len(q) THEN Len(q) - (BatchSize + 1) + 1 ELSE 0
    BY <2>2 DEF Remaining
  <2>6. ASSUME NEW l \in Nat, NEW b \in Nat
        PROVE  (IF b + 1 <= l THEN l - (b + 1) + 1 ELSE 0) = l - (IF l < b THEN l ELSE b)
    OBVIOUS
  <2>3. Len(Remaining(q)) = Len(q) - n
    <3>1. Len(q) \in Nat /\ BatchSize \in Nat
      BY <1>1
    <3> QED
      BY <2>5, <2>6, <3>1
  <2>4. ASSUME NEW i \in 1..(Len(q) - n) PROVE Remaining(q)[i] = q[n + i]
    <3>1. n = BatchSize /\ i \in 1..(Len(q) - (BatchSize + 1) + 1)
      BY <1>1
    <3>2. BatchSize + 1 + i - 1 = n + i
      BY <1>1, <3>1
    <3> QED
      BY <2>2, <3>1, <3>2 DEF Remaining
  <2> QED
    BY <2>2, <2>3, <2>4 DEF Remaining
<1> HIDE DEF n
<1>7. Len(NextBatch(q) \o Remaining(q)) = Len(q)
  <2>1. Len(NextBatch(q) \o Remaining(q)) = Len(NextBatch(q)) + Len(Remaining(q))
    BY <1>4, <1>6, ConcatIs
  <2> QED
    BY <1>1, <1>2, <1>4, <1>6, <2>1
<1>8. ASSUME NEW i \in 1..Len(q) PROVE (NextBatch(q) \o Remaining(q))[i] = q[i]
  <2>1. CASE i <= n
    BY <1>2, <1>4, <1>6, <2>1, ConcatIs
  <2>2. CASE ~(i <= n)
    <3>1. i - n \in 1..(Len(q) - n) /\ n + (i - n) = i
      BY <1>1, <1>2, <2>2
    <3> QED
      BY <1>4, <1>6, <3>1, ConcatIs
  <2> QED
    BY <2>1, <2>2
<1>9. NextBatch(q) \o Remaining(q) \in Seq(S)
  BY <1>4, <1>6, ConcatIs
<1>10. NextBatch(q) \o Remaining(q) = q
  BY <1>7, <1>8, <1>9, SeqEqual
<1> QED
  BY <1>4, <1>5, <1>6, <1>10

LEMMA ConsecutiveParts ==
  ASSUME NEW S, NEW s \in Seq(S), NEW t \in Seq(S), NEW n \in Int
  PROVE  Consecutive(s \o t, n) <=> Consecutive(s, n) /\ Consecutive(t, n + Len(s))
<1>1. ASSUME Consecutive(s \o t, n) PROVE Consecutive(s, n)
  <2>1. ASSUME NEW i \in 1..Len(s) PROVE s[i] = n + i
    <3>1. i \in 1..Len(s \o t)
      BY ConcatIs
    <3> QED
      BY <1>1, <3>1, ConcatIs DEF Consecutive
  <2> QED
    BY <2>1 DEF Consecutive
<1>2. ASSUME Consecutive(s \o t, n) PROVE Consecutive(t, n + Len(s))
  <2>1. ASSUME NEW i \in 1..Len(t) PROVE t[i] = n + Len(s) + i
    <3>1. Len(s) + i \in 1..Len(s \o t) /\ n + (Len(s) + i) = n + Len(s) + i
      BY ConcatIs
    <3>2. (s \o t)[Len(s) + i] = n + (Len(s) + i)
      BY <1>2, <3>1 DEF Consecutive
    <3> QED
      BY <3>1, <3>2, ConcatIs
  <2> QED
    BY <2>1 DEF Consecutive
<1>3. ASSUME Consecutive(s, n), Consecutive(t, n + Len(s)), NEW i \in 1..Len(s \o t)
      PROVE  (s \o t)[i] = n + i
  <2>1. CASE i <= Len(s)
    <3>1. i \in 1..Len(s)
      BY <2>1, ConcatIs
    <3> QED
      BY <1>3, <3>1, ConcatIs DEF Consecutive
  <2>2. CASE ~(i <= Len(s))
    <3>1. /\ i - Len(s) \in 1..Len(t) /\ Len(s) + (i - Len(s)) = i
          /\ n + Len(s) + (i - Len(s)) = n + i
      BY <2>2, ConcatIs
    <3>2. t[i - Len(s)] = n + Len(s) + (i - Len(s))
      BY <1>3, <3>1 DEF Consecutive
    <3> QED
      BY <3>1, <3>2, ConcatIs
  <2> QED
    BY <2>1, <2>2
<1> QED
  BY <1>1, <1>2, <1>3 DEF Consecutive

(* The n + Len(s) first events are there once those of s are added. *)
LEMMA AddedEvents ==
  ASSUME NEW s \in Seq(Events), NEW tb \in Seq(Events), NEW n \in Nat,
         Consecutive(s, n), 1..n \subseteq ToSet(tb)
  PROVE  1..(n + Len(s)) \subseteq ToSet(tb \o s)
<1> SUFFICES ASSUME NEW e \in 1..(n + Len(s)) PROVE e \in ToSet(tb) \cup ToSet(s)
  BY ToSetConcat
<1>0. Len(s) \in Nat
  BY LenProperties
<1>1. CASE e <= n
  BY <1>1
<1>2. CASE ~(e <= n)
  <2>1. e - n \in 1..Len(s) /\ n + (e - n) = e
    BY <1>0, <1>2
  <2>2. s[e - n] = e
    BY <2>1 DEF Consecutive
  <2> QED
    BY <2>1, <2>2, ToSetIs
<1> QED
  BY <1>1, <1>2

LEMMA FollowsMore ==
  ASSUME NEW s, NEW tb \in Seq(Events), NEW more \in Seq(Events), Follows(s, tb)
  PROVE  Follows(s, tb \o more)
BY ToSetConcat DEF Follows

(* Adding a batch that follows does not break the order of the table. *)
LEMMA InOrderConcat ==
  ASSUME NEW tb \in Seq(Events), NEW s \in Seq(Events), InOrder(tb), Follows(s, tb)
  PROVE  InOrder(tb \o s)
<1> DEFINE new == tb \o s
<1>1. PICK n \in Nat : Consecutive(s, n) /\ 1..n \subseteq ToSet(tb)
  BY DEF Follows
<1>2. /\ Len(new) = Len(tb) + Len(s) /\ Len(tb) \in Nat /\ Len(s) \in Nat
      /\ \A i \in 1..Len(tb) : new[i] = tb[i]
      /\ \A i \in 1..Len(s) : new[Len(tb) + i] = s[i]
  BY ConcatIs
<1> HIDE DEF new
<1>3. ASSUME NEW i \in 1..Len(new), NEW e \in 1..new[i] PROVE \E j \in 1..i : new[j] = e
  <2>1. CASE i <= Len(tb)
    <3>1. i \in 1..Len(tb) /\ e \in 1..tb[i]
      BY <1>2, <1>3, <2>1
    <3>2. PICK j \in 1..i : tb[j] = e
      BY <3>1 DEF InOrder
    <3>3. j \in 1..Len(tb)
      BY <1>2, <2>1
    <3> QED
      BY <1>2, <3>2, <3>3
  <2>2. CASE ~(i <= Len(tb))
    <3>1. i - Len(tb) \in 1..Len(s) /\ Len(tb) + (i - Len(tb)) = i
      BY <1>2, <1>3, <2>2
    <3>2. new[i] = s[i - Len(tb)] /\ s[i - Len(tb)] = n + (i - Len(tb))
      BY <1>1, <1>2, <3>1 DEF Consecutive
    <3>3. CASE e <= n
      <4>1. e \in ToSet(tb)
        BY <1>1, <1>3, <3>2, <3>3
      <4>2. PICK j \in 1..Len(tb) : tb[j] = e
        BY <4>1, ToSetIs
      <4>3. j \in 1..i
        BY <1>2, <2>2
      <4> QED
        BY <1>2, <4>2, <4>3
    <3>4. CASE ~(e <= n)
      <4>1. /\ e - n \in 1..Len(s) /\ n + (e - n) = e /\ Len(tb) + (e - n) \in 1..i
        BY <1>2, <1>3, <3>1, <3>2, <3>4
      <4>2. new[Len(tb) + (e - n)] = e
        BY <1>1, <1>2, <4>1 DEF Consecutive
      <4> QED
        BY <4>1, <4>2
    <3> QED
      BY <3>3, <3>4
  <2> QED
    BY <2>1, <2>2
<1> QED
  BY <1>3 DEF InOrder, new

LEMMA RemoveAtIs ==
  ASSUME NEW S, NEW s \in Seq(S), NEW i \in 1..Len(s)
  PROVE  /\ RemoveAt(s, i) \in Seq(S)
         /\ \A j \in 1..Len(RemoveAt(s, i)) : \E k \in 1..Len(s) : RemoveAt(s, i)[j] = s[k]
<1> DEFINE a == SubSeq(s, 1, i - 1)
           b == SubSeq(s, i + 1, Len(s))
<1>1. Len(s) \in Nat /\ \A j \in 1..Len(s) : s[j] \in S
  BY LenProperties, ElementOfSeq
<1>2. a \in Seq(S) /\ Len(a) = i - 1 /\ \A j \in 1..(i - 1) : a[j] = s[j]
  <2>1. 1 \in Int /\ i - 1 \in Int /\ \A j \in 1..(i - 1) : s[j] \in S
    BY <1>1
  <2>2. /\ a \in Seq(S)
        /\ Len(a) = IF 1 <= i - 1 THEN (i - 1) - 1 + 1 ELSE 0
        /\ \A j \in 1..((i - 1) - 1 + 1) : a[j] = s[1 + j - 1]
    BY <2>1, SubSeqProperties
  <2> HIDE DEF a
  <2> QED
    BY <1>1, <2>2
<1>3. b \in Seq(S) /\ Len(b) = Len(s) - i /\ \A j \in 1..(Len(s) - i) : b[j] = s[i + j]
  <2>1. i + 1 \in Int /\ Len(s) \in Int /\ \A j \in (i + 1)..Len(s) : s[j] \in S
    BY <1>1
  <2>2. /\ b \in Seq(S)
        /\ Len(b) = IF i + 1 <= Len(s) THEN Len(s) - (i + 1) + 1 ELSE 0
        /\ \A j \in 1..(Len(s) - (i + 1) + 1) : b[j] = s[i + 1 + j - 1]
    BY <2>1, SubSeqProperties
  <2> HIDE DEF b
  <2> QED
    BY <1>1, <2>2
<1> HIDE DEF a, b
<1>4. RemoveAt(s, i) = a \o b
  BY DEF RemoveAt, a, b
<1>5. ASSUME NEW j \in 1..Len(a \o b) PROVE \E k \in 1..Len(s) : (a \o b)[j] = s[k]
  <2>1. CASE j <= Len(a)
    <3>1. j \in 1..Len(s) /\ (a \o b)[j] = s[j]
      BY <1>1, <1>2, <1>3, <2>1, ConcatIs
    <3> QED
      BY <3>1
  <2>2. CASE ~(j <= Len(a))
    <3>1. j - Len(a) \in 1..Len(b) /\ Len(a) + (j - Len(a)) = j
      BY <1>2, <1>3, <2>2, ConcatIs
    <3>2. (a \o b)[j] = b[j - Len(a)]
      BY <1>2, <1>3, <3>1, ConcatIs
    <3>3. i + (j - Len(a)) \in 1..Len(s) /\ b[j - Len(a)] = s[i + (j - Len(a))]
      BY <1>1, <1>2, <1>3, <3>1
    <3> QED
      BY <3>2, <3>3
  <2> QED
    BY <2>1, <2>2
<1> QED
  BY <1>2, <1>3, <1>4, <1>5, ConcatIs

-----------------------------------------------------------------------------
(* What an event, an insert and its failure do to the accounts. *)

LEMMA AccountedTrack ==
  ASSUME NEW t \in Nat, t + 1 \in Events, NEW p \in Seq(Events), NEW tb, NEW ab, NEW fails,
         Accounted(t, p, tb, ab, fails)
  PROVE  Accounted(t + 1, Append(p, t + 1), tb, ab, fails)
<1>1. /\ Append(p, t + 1) = p \o <<t + 1>> /\ Len(Append(p, t + 1)) = Len(p) + 1
      /\ Len(p) \in Nat
  BY AppendProperties, AppendIsConcat, LenProperties
<1>2. t + 1 - (Len(p) + 1) = t - Len(p) /\ t - Len(p) + Len(p) = t /\ t - Len(p) \in Int
  BY <1>1
<1>3. Consecutive(<<t + 1>>, t)
  BY DEF Consecutive
<1>4. Consecutive(p \o <<t + 1>>, t - Len(p))
  <2>1. <<t + 1>> \in Seq(Events)
    OBVIOUS
  <2>2. Consecutive(p, t - Len(p)) /\ Consecutive(<<t + 1>>, t - Len(p) + Len(p))
    BY <1>2, <1>3 DEF Accounted
  <2> QED
    BY <1>2, <2>1, <2>2, ConsecutiveParts
<1>5. t + 1 - Len(Append(p, t + 1)) = t - Len(p)
  BY <1>1, <1>2
<1>6. Consecutive(Append(p, t + 1), t - Len(p))
  BY <1>1, <1>4
<1> HIDE DEF Consecutive
<1> QED
  BY <1>5, <1>6 DEF Accounted

LEMMA AccountedStored ==
  ASSUME NEW t \in Nat, NEW b \in Seq(Events), NEW q \in Seq(Events), NEW tb \in Seq(Events),
         NEW ab, NEW fails, Accounted(t, b \o q, tb, ab, fails)
  PROVE  Accounted(t, q, tb \o b, ab, fails)
<1> DEFINE n == t - Len(b \o q)
<1>1. /\ Len(b \o q) = Len(b) + Len(q) /\ Len(b) \in Nat /\ Len(q) \in Nat
      /\ n \in Nat /\ t - Len(q) = n + Len(b) /\ n + Len(b) \in Nat
  BY ConcatIs DEF Accounted
<1>2. Consecutive(b, n) /\ Consecutive(q, n + Len(b)) /\ 1..n \subseteq ToSet(tb)
  BY <1>1, ConsecutiveParts DEF Accounted
<1> HIDE DEF n
<1>3. 1..(n + Len(b)) \subseteq ToSet(tb \o b)
  BY <1>1, <1>2, AddedEvents
<1>4. InOrder(tb \o b)
  BY <1>1, <1>2, InOrderConcat DEF Accounted, Follows
<1>5. \A i \in 1..Len(ab) : Follows(ab[i], tb \o b)
  BY FollowsMore DEF Accounted
<1>6. ASSUME fails = 0 PROVE ab = <<>> /\ Len(tb \o b) = n + Len(b) /\ Consecutive(tb \o b, 0)
  <2>1. ab = <<>> /\ Len(tb) = n /\ Consecutive(tb, 0)
    BY <1>6 DEF Accounted, n
  <2>2. Consecutive(b, 0 + Len(tb))
    BY <1>1, <1>2, <2>1
  <2>3. 0 \in Int /\ Consecutive(tb \o b, 0)
    BY <2>1, <2>2, ConsecutiveParts
  <2>4. Len(tb \o b) = n + Len(b)
    BY <2>1, ConcatIs
  <2> QED
    BY <2>1, <2>3, <2>4
<1> QED
  BY <1>1, <1>2, <1>3, <1>4, <1>5, <1>6 DEF Accounted

LEMMA AccountedFailed ==
  ASSUME NEW t \in Nat, NEW b \in Seq(Events), NEW q \in Seq(Events), NEW tb \in Seq(Events),
         NEW ab \in Seq(Seq(Events)), NEW fails \in Nat, Accounted(t, b \o q, tb, ab, fails)
  PROVE  /\ Accounted(t, b \o q, tb, ab, fails + 1)
         /\ Accounted(t, b \o q, tb \o b, ab, fails + 1)
         /\ Accounted(t, b \o q, tb, Add(ab, b), fails + 1)
<1> DEFINE p == b \o q
           n == t - Len(p)
<1>1. /\ n \in Nat /\ Consecutive(p, n) /\ 1..n \subseteq ToSet(tb) /\ InOrder(tb)
      /\ \A i \in 1..Len(ab) : Follows(ab[i], tb)
      /\ fails + 1 # 0
  BY DEF Accounted
<1>2. Consecutive(b, n)
  BY <1>1, ConsecutiveParts
<1>3. Follows(b, tb)
  BY <1>1, <1>2 DEF Follows
<1> HIDE DEF p
<1>4. Accounted(t, p, tb, ab, fails + 1)
  BY <1>1 DEF Accounted
<1>5. Accounted(t, p, tb \o b, ab, fails + 1)
  <2>1. InOrder(tb \o b) /\ \A i \in 1..Len(ab) : Follows(ab[i], tb \o b)
    BY <1>1, <1>3, InOrderConcat, FollowsMore
  <2>2. 1..n \subseteq ToSet(tb \o b)
    BY <1>1, ToSetConcat
  <2> QED
    BY <1>1, <2>1, <2>2 DEF Accounted
<1>6. Accounted(t, p, tb, Append(ab, b), fails + 1)
  <2>1. /\ Len(Append(ab, b)) = Len(ab) + 1 /\ Len(ab) \in Nat
        /\ \A i \in 1..Len(ab) : Append(ab, b)[i] = ab[i]
        /\ Append(ab, b)[Len(ab) + 1] = b
    BY AppendProperties, LenProperties
  <2>2. \A i \in 1..Len(Append(ab, b)) : Follows(Append(ab, b)[i], tb)
    BY <1>1, <1>3, <2>1
  <2> QED
    BY <1>1, <2>2 DEF Accounted
<1> QED
  BY <1>4, <1>5, <1>6 DEF p, Add

LEMMA AccountedArrival ==
  ASSUME NEW t, NEW p, NEW tb \in Seq(Events), NEW ab \in Seq(Seq(Events)), NEW fails,
         NEW i \in 1..Len(ab), Accounted(t, p, tb, ab, fails)
  PROVE  Accounted(t, p, tb \o ab[i], RemoveAt(ab, i), fails)
<1>1. ab[i] \in Seq(Events) /\ Follows(ab[i], tb) /\ ab # <<>>
  BY ElementOfSeq, EmptySeq DEF Accounted
<1>2. InOrder(tb \o ab[i])
  BY <1>1, InOrderConcat DEF Accounted
<1>3. \A k \in 1..Len(ab) : Follows(ab[k], tb \o ab[i])
  BY <1>1, FollowsMore DEF Accounted
<1>4. \A j \in 1..Len(RemoveAt(ab, i)) : Follows(RemoveAt(ab, i)[j], tb \o ab[i])
  BY <1>3, RemoveAtIs
<1>5. 1..(t - Len(p)) \subseteq ToSet(tb \o ab[i])
  BY <1>1, ToSetConcat DEF Accounted
<1> QED
  BY <1>1, <1>2, <1>4, <1>5 DEF Accounted

-----------------------------------------------------------------------------
(* The loop of a flush. *)

(* Pending, for a given queue. *)
Held(fs, q) == IF fs = {} THEN q ELSE (CHOOSE f \in fs : TRUE).batch \o q

LEMMA PendingIs == Pending = Held(flushes, queue) /\ Pending' = Held(flushes', queue')
BY DEF Pending, Held

LEMMA HeldIs ==
  /\ \A q : Held({}, q) = q
  /\ \A f, q : Held({f}, q) = f.batch \o q
<1>1. \A q : Held({}, q) = q
  BY DEF Held
<1>2. ASSUME NEW f, NEW q PROVE Held({f}, q) = f.batch \o q
  <2>1. (CHOOSE g \in {f} : TRUE) = f
    OBVIOUS
  <2> QED
    BY <2>1 DEF Held
<1> QED
  BY <1>1, <1>2

FlushTypes ==
  /\ queue \in Seq(Events)
  /\ isFlushing \in BOOLEAN /\ isFlushing <=> flushes # {}
  /\ flushes \subseteq Batches /\ OneFlush
  /\ closing \in {"open", "waiting", "closed"}

LEMMA BatchesIs ==
  ASSUME NEW f \in Batches
  PROVE  f.batch \in Seq(Events) /\ f.batch # <<>> /\ f.awaited \in BOOLEAN
BY DEF Batches

LEMMA DrainIs ==
  ASSUME closing \in {"open", "waiting", "closed"},
         NEW q \in Seq(Events), NEW a \in BOOLEAN, Drain(q, {}, a)
  PROVE  FlushTypes' /\ Pending' = q
<1>1. CASE q = <<>>
  <2>1. /\ queue' = q /\ isFlushing' = FALSE /\ flushes' = {}
        /\ closing' \in {"open", "waiting", "closed"}
    BY <1>1 DEF Drain, Ends
  <2> QED
    BY <2>1, PendingIs, HeldIs DEF FlushTypes, OneFlush
<1>2. CASE q # <<>>
  <2> DEFINE f == [batch |-> NextBatch(q), awaited |-> a]
  <2>1. /\ queue' = Remaining(q) /\ isFlushing' = TRUE /\ flushes' = {f}
        /\ closing' \in {"open", "waiting", "closed"}
    BY <1>2 DEF Drain
  <2>2. /\ NextBatch(q) \in Seq(Events) \ {<<>>} /\ Remaining(q) \in Seq(Events)
        /\ NextBatch(q) \o Remaining(q) = q
    BY <1>2, BatchIs
  <2>3. f \in Batches /\ f.batch = NextBatch(q)
    BY <2>2 DEF Batches
  <2> HIDE DEF f
  <2>4. Pending' = q
    BY <2>1, <2>2, <2>3, PendingIs, HeldIs
  <2> QED
    BY <2>1, <2>2, <2>3, <2>4 DEF FlushTypes, OneFlush
<1> QED
  BY <1>1, <1>2

LEMMA FlushIs ==
  ASSUME FlushTypes, NEW q \in Seq(Events), NEW a \in BOOLEAN, Flush(q, a)
  PROVE  FlushTypes' /\ Pending' = Held(flushes, q)
<1>1. CASE isFlushing
  <2>1. queue' = q /\ UNCHANGED <<isFlushing, flushes>> /\ Ends(a)
    BY <1>1 DEF Flush
  <2> QED
    BY <2>1, PendingIs DEF FlushTypes, OneFlush, Ends
<1>2. CASE ~isFlushing
  <2>1. flushes = {} /\ Drain(q, {}, a)
    BY <1>2 DEF Flush, FlushTypes
  <2> QED
    BY <2>1, DrainIs, HeldIs DEF FlushTypes
<1> QED
  BY <1>1, <1>2

(* A batch that failed is at the front again, and its flush has ended. *)
LEMMA RequeueIs ==
  ASSUME FlushTypes, NEW f \in flushes, Requeue(f)
  PROVE  /\ FlushTypes' /\ Pending' = Pending /\ Pending = f.batch \o queue
         /\ f.batch \in Seq(Events)
<1>1. flushes = {f} /\ f \in Batches
  BY DEF FlushTypes, OneFlush
<1>2. /\ queue' = f.batch \o queue /\ isFlushing' = FALSE /\ flushes' = {} /\ Ends(f.awaited)
      /\ f.batch \in Seq(Events)
  BY <1>1, BatchesIs DEF Requeue
<1>3. queue' \in Seq(Events)
  BY <1>2, ConcatIs DEF FlushTypes
<1> QED
  BY <1>1, <1>2, <1>3, PendingIs, HeldIs DEF FlushTypes, OneFlush, Ends

LEMMA AppendToConcat ==
  ASSUME NEW S, NEW s \in Seq(S), NEW t \in Seq(S), NEW e \in S
  PROVE  Add(Cat(s, t), e) = Cat(s, Add(t, e))
<1>1. s \o t \in Seq(S) /\ <<e>> \in Seq(S)
  BY ConcatIs
<1>2. (s \o t) \o <<e>> = s \o (t \o <<e>>)
  <2>1. \A u \in Seq(S) : (s \o t) \o u = s \o (t \o u)
    BY ConcatAssociative
  <2> QED
    BY <1>1, <2>1
<1>3. \A u \in Seq(S) : Append(u, e) = u \o <<e>>
  BY AppendIsConcat
<1> QED
  BY <1>1, <1>2, <1>3 DEF Cat, Add

LEMMA HeldOneMore ==
  ASSUME FlushTypes, NEW e \in Events
  PROVE  /\ Held(flushes, Append(queue, e)) = Append(Pending, e)
         /\ Pending \in Seq(Events) /\ Append(queue, e) \in Seq(Events)
<1>1. queue \in Seq(Events) /\ Append(queue, e) \in Seq(Events) /\ <<e>> \in Seq(Events)
  BY AppendProperties DEF FlushTypes
<1>2. CASE flushes = {}
  BY <1>1, <1>2, PendingIs, HeldIs
<1>3. ASSUME NEW f \in flushes
      PROVE  /\ Held(flushes, Append(queue, e)) = Append(Pending, e)
             /\ Pending \in Seq(Events)
  <2>1. flushes = {f} /\ f.batch \in Seq(Events)
    BY BatchesIs DEF FlushTypes, OneFlush
  <2>2. Pending = f.batch \o queue /\ Held(flushes, Append(queue, e)) = f.batch \o Append(queue, e)
    BY <2>1, PendingIs, HeldIs
  <2>3. f.batch \o queue \in Seq(Events)
    BY <1>1, <2>1, ConcatIs
  <2>4. Append(f.batch \o queue, e) = f.batch \o Append(queue, e)
    <3>1. Add(Cat(f.batch, queue), e) = Cat(f.batch, Add(queue, e))
      BY <1>1, <2>1, AppendToConcat
    <3> QED
      BY <3>1 DEF Cat, Add
  <2> QED
    BY <2>2, <2>3, <2>4
<1> QED
  BY <1>1, <1>2, <1>3

-----------------------------------------------------------------------------
(* The invariant is inductive. *)

Rest ==
  /\ tracked \in 0..MaxEvents /\ table \in Seq(Events)
  /\ timer \in {"pending", "on", "off"}
  /\ failures \in 0..MaxFailures /\ abandoned \in Seq(Seq(Events))

LEMMA InvIs ==
  IInv <=> Rest /\ FlushTypes /\ Accounted(tracked, Pending, table, abandoned, failures)
BY DEF IInv, Types, Rest, FlushTypes

LEMMA NextInvIs ==
  IInv' <=> /\ Rest' /\ FlushTypes'
            /\ Accounted(tracked', Pending', table', abandoned', failures')
BY DEF IInv, Types, Rest, FlushTypes

LEMMA Initially == ASSUME Init PROVE IInv
<1>1. Pending = <<>>
  BY PendingIs, HeldIs DEF Init
<1>2. /\ <<>> \in Seq(Events) /\ <<>> \in Seq(Seq(Events))
      /\ Len(<<>>) = 0 /\ 0 \in 0..MaxEvents /\ 0 \in 0..MaxFailures
  BY ParametersAssumption
<1>3. Rest /\ FlushTypes
  BY <1>2 DEF Init, Rest, FlushTypes, OneFlush
<1>4. Accounted(0, <<>>, <<>>, <<>>, 0)
  <2> DEFINE none == <<>>
  <2>1. Len(none) = 0
    OBVIOUS
  <2> HIDE DEF none
  <2>2. Consecutive(none, 0) /\ InOrder(none)
    BY <2>1 DEF Consecutive, InOrder
  <2>3. 0 - Len(none) = 0 /\ 1..0 = {} /\ 1..Len(none) = {}
    BY <2>1
  <2>4. Accounted(0, none, none, none, 0)
    BY <2>1, <2>2, <2>3 DEF Accounted, none
  <2> QED
    BY <2>4 DEF none
<1> QED
  BY <1>1, <1>3, <1>4, InvIs DEF Init

LEMMA HeldAtRest ==
  ASSUME FlushTypes
  PROVE  /\ Held(flushes, queue) = Pending
         /\ queue \in Seq(Events)
BY PendingIs DEF FlushTypes

LEMMA FlushKeeps ==
  ASSUME IInv, NEW a \in BOOLEAN, Flush(queue, a), timer' \in {"pending", "on", "off"},
         UNCHANGED <<tracked, failures, abandoned, table>>
  PROVE  IInv'
<1>1. FlushTypes' /\ Pending' = Pending
  BY InvIs, FlushIs, HeldAtRest
<1> QED
  BY <1>1, InvIs, NextInvIs DEF Rest

LEMMA TrackKeeps ==
  ASSUME IInv, Track
  PROVE  IInv'
<1>0. Rest /\ FlushTypes /\ Accounted(tracked, Pending, table, abandoned, failures)
  BY InvIs
<1>1. /\ tracked \in Nat /\ tracked + 1 \in Events /\ tracked' = tracked + 1
      /\ tracked' \in 0..MaxEvents
  BY <1>0, ParametersAssumption DEF Rest, Track, Events
<1> DEFINE q == Append(queue, tracked + 1)
<1>2. q \in Seq(Events) /\ Held(flushes, q) = Append(Pending, tracked + 1) /\ Pending \in Seq(Events)
  BY <1>0, <1>1, HeldOneMore
<1>3. \/ Flush(q, FALSE)
      \/ queue' = q /\ UNCHANGED <<isFlushing, flushes, closing>>
  BY DEF Track
<1> HIDE DEF q
<1>4. FlushTypes' /\ Pending' = Held(flushes, q)
  <2>1. CASE Flush(q, FALSE)
    BY <1>0, <1>2, <2>1, FlushIs
  <2>2. CASE queue' = q /\ UNCHANGED <<isFlushing, flushes, closing>>
    BY <1>0, <1>2, <2>2, PendingIs DEF FlushTypes, OneFlush
  <2> QED
    BY <1>3, <2>1, <2>2
<1>5. Accounted(tracked + 1, Append(Pending, tracked + 1), table, abandoned, failures)
  BY <1>0, <1>1, <1>2, AccountedTrack
<1>6. Rest' /\ UNCHANGED <<table, abandoned, failures>>
  BY <1>0, <1>1 DEF Rest, Track
<1> QED
  BY <1>1, <1>2, <1>4, <1>5, <1>6, NextInvIs

(* A flush that waits for its insert. *)
LEMMA WaitingIs ==
  ASSUME IInv, NEW f \in flushes
  PROVE  /\ flushes \ {f} = {} /\ Pending = f.batch \o queue
         /\ f.batch \in Seq(Events) /\ f.awaited \in BOOLEAN /\ queue \in Seq(Events)
         /\ tracked \in Nat /\ failures \in Nat
<1>1. flushes = {f} /\ f \in Batches /\ queue \in Seq(Events)
  BY InvIs DEF FlushTypes, OneFlush
<1>2. tracked \in Nat /\ failures \in Nat
  BY InvIs, ParametersAssumption DEF Rest
<1> QED
  BY <1>1, <1>2, PendingIs, HeldIs, BatchesIs

LEMMA InsertSucceedsKeeps ==
  ASSUME IInv, NEW f \in flushes, InsertSucceeds(f)
  PROVE  IInv'
<1>0. Rest /\ FlushTypes /\ Accounted(tracked, Pending, table, abandoned, failures)
  BY InvIs
<1>1. Drain(queue, {}, f.awaited) /\ table' = table \o f.batch
  BY WaitingIs DEF InsertSucceeds
<1>2. FlushTypes' /\ Pending' = queue
  BY <1>0, <1>1, WaitingIs, DrainIs DEF FlushTypes
<1>3. Accounted(tracked, queue, table \o f.batch, abandoned, failures)
  BY <1>0, WaitingIs, AccountedStored DEF Rest
<1>4. table' \in Seq(Events)
  BY <1>0, <1>1, WaitingIs, ConcatIs DEF Rest
<1>5. Rest' /\ UNCHANGED <<tracked, abandoned, failures>>
  BY <1>0, <1>4 DEF Rest, InsertSucceeds
<1> QED
  BY <1>1, <1>2, <1>3, <1>5, NextInvIs

LEMMA InsertFailsKeeps ==
  ASSUME IInv, NEW f \in flushes, InsertFails(f) \/ InsertTimesOut(f)
  PROVE  IInv'
<1>0. Rest /\ FlushTypes /\ Accounted(tracked, Pending, table, abandoned, failures)
  BY InvIs
<1>1. FlushTypes' /\ Pending' = Pending
  BY <1>0, RequeueIs DEF InsertFails, InsertTimesOut
<1>2. failures' = failures + 1 /\ failures' \in 0..MaxFailures /\ UNCHANGED <<tracked, timer>>
  BY <1>0, ParametersAssumption DEF Rest, InsertFails, InsertTimesOut
<1>3. /\ Accounted(tracked, Pending, table, abandoned, failures + 1)
      /\ Accounted(tracked, Pending, table \o f.batch, abandoned, failures + 1)
      /\ Accounted(tracked, Pending, table, Add(abandoned, f.batch), failures + 1)
  <2>1. /\ tracked \in Nat /\ failures \in Nat /\ table \in Seq(Events)
        /\ abandoned \in Seq(Seq(Events))
        /\ f.batch \in Seq(Events) /\ queue \in Seq(Events) /\ Pending = f.batch \o queue
    BY <1>0, WaitingIs DEF Rest
  <2>2. ASSUME NEW b \in Seq(Events), b = f.batch
        PROVE  /\ Accounted(tracked, b \o queue, table, abandoned, failures + 1)
               /\ Accounted(tracked, b \o queue, table \o b, abandoned, failures + 1)
               /\ Accounted(tracked, b \o queue, table, Add(abandoned, b), failures + 1)
    BY <1>0, <2>1, <2>2, AccountedFailed
  <2> QED
    BY <2>1, <2>2
<1>4. /\ table \o f.batch \in Seq(Events)
      /\ Append(abandoned, f.batch) \in Seq(Seq(Events))
  BY <1>0, WaitingIs, ConcatIs, AppendProperties DEF Rest
<1>5. \/ table' = table /\ abandoned' = abandoned
      \/ table' = table \o f.batch /\ abandoned' = abandoned
      \/ table' = table /\ abandoned' = Append(abandoned, f.batch)
  BY DEF InsertFails, InsertTimesOut
<1>6. Rest' /\ Accounted(tracked', Pending', table', abandoned', failures')
  BY <1>0, <1>1, <1>2, <1>3, <1>4, <1>5 DEF Rest, Add
<1> QED
  BY <1>1, <1>6, NextInvIs

LEMMA ArrivesKeeps ==
  ASSUME IInv, AbandonedArrives
  PROVE  IInv'
<1>0. Rest /\ FlushTypes /\ Accounted(tracked, Pending, table, abandoned, failures)
  BY InvIs
<1>1. PICK i \in 1..Len(abandoned) :
        table' = table \o abandoned[i] /\ abandoned' = RemoveAt(abandoned, i)
  BY DEF AbandonedArrives
<1>2. UNCHANGED <<tracked, queue, isFlushing, flushes, timer, closing, failures>>
  BY DEF AbandonedArrives
<1>3. FlushTypes' /\ Pending' = Pending
  BY <1>0, <1>2, PendingIs DEF FlushTypes, OneFlush
<1>4. Accounted(tracked, Pending, table \o abandoned[i], RemoveAt(abandoned, i), failures)
  BY <1>0, AccountedArrival DEF Rest
<1>5. table' \in Seq(Events) /\ abandoned' \in Seq(Seq(Events))
  <2>1. table \in Seq(Events) /\ abandoned \in Seq(Seq(Events))
    BY <1>0 DEF Rest
  <2>2. abandoned[i] \in Seq(Events)
    BY <2>1, ElementOfSeq
  <2>3. table \o abandoned[i] \in Seq(Events)
    BY <2>1, <2>2, ConcatIs
  <2>4. RemoveAt(abandoned, i) \in Seq(Seq(Events))
    BY <2>1, RemoveAtIs
  <2> QED
    BY <1>1, <2>3, <2>4
<1>6. Rest'
  BY <1>0, <1>2, <1>5 DEF Rest
<1> QED
  BY <1>1, <1>2, <1>3, <1>4, <1>6, NextInvIs

LEMMA StepKeeps ==
  ASSUME IInv, [Next]_vars
  PROVE  IInv'
<1>0. Rest /\ FlushTypes /\ Accounted(tracked, Pending, table, abandoned, failures)
  BY InvIs
<1>1. CASE Start
  <2>1. Rest' /\ FlushTypes' /\ Pending' = Pending /\ UNCHANGED <<tracked, table, abandoned, failures>>
    BY <1>0, <1>1, PendingIs DEF Start, Rest, FlushTypes, OneFlush
  <2> QED
    BY <1>0, <2>1, NextInvIs
<1>2. CASE Track
  BY <1>2, TrackKeeps
<1>3. CASE TimerFires
  <2>1. timer' \in {"pending", "on", "off"}
    BY <1>0, <1>3 DEF TimerFires, Rest
  <2> QED
    BY <1>3, <2>1, FlushKeeps DEF TimerFires
<1>4. CASE Close
  <2>1. timer' \in {"pending", "on", "off"}
    BY <1>0, <1>4 DEF Close, Rest
  <2> QED
    BY <1>4, <2>1, FlushKeeps DEF Close
<1>5. CASE AbandonedArrives
  BY <1>5, ArrivesKeeps
<1>6. ASSUME NEW f \in flushes, Answered(f) PROVE IInv'
  BY <1>6, InsertSucceedsKeeps, InsertFailsKeeps DEF Answered
<1>7. CASE UNCHANGED vars
  <2>1. Rest' /\ FlushTypes' /\ Pending' = Pending /\ UNCHANGED <<tracked, table, abandoned, failures>>
    BY <1>0, <1>7, PendingIs DEF vars, Rest, FlushTypes, OneFlush
  <2> QED
    BY <1>0, <2>1, NextInvIs
<1> QED
  BY <1>1, <1>2, <1>3, <1>4, <1>5, <1>6, <1>7 DEF Next

LEMMA Invariance == Spec => []IInv
<1>1. Init => IInv
  BY Initially
<1>2. IInv /\ [Next]_vars => IInv'
  BY StepKeeps
<1> QED
  BY <1>1, <1>2, PTL DEF Spec

-----------------------------------------------------------------------------
(* The invariants. *)

(* The fields of the adapter of clickhouse.ts have their types, and          *)
(* isFlushing is set exactly while a flush waits for an insert.              *)
THEOREM TypeCorrect == Spec => []TypeOK
<1>1. IInv => TypeOK
  BY DEF IInv, Types, Batches, TypeOK
<1> QED
  BY <1>1, Invariance, PTL

LEMMA AtMostOneFlush ==
  ASSUME OneFlush
  PROVE  Cardinality(flushes) <= 1
<1>1. CASE flushes = {}
  BY <1>1, FS_EmptySet
<1>2. ASSUME NEW f \in flushes PROVE Cardinality(flushes) <= 1
  <2>1. flushes = {f}
    BY DEF OneFlush
  <2> QED
    BY <2>1, FS_Singleton
<1> QED
  BY <1>1, <1>2

(* However inserts, failures, timeouts and calls of track, close and the     *)
(* timer are interleaved, the buffer holds exactly the latest events, each   *)
(* once and in order, and every earlier one is in the table: requeueing a    *)
(* batch after track has added to the queue loses and repeats nothing.       *)
THEOREM NothingIsLost == Spec => []BufferIsSuffix
<1>1. IInv => BufferIsSuffix
  BY AtMostOneFlush DEF IInv, Accounted, Consecutive, BufferIsSuffix
<1> QED
  BY <1>1, Invariance, PTL

(* No event reaches the table before all earlier ones, although a request    *)
(* that timed out may be executed at any later time.                         *)
THEOREM TableInOrder == Spec => []StoredInOrder
<1>1. IInv => StoredInOrder
  <2> SUFFICES ASSUME IInv, NEW i \in 1..Len(table), NEW e \in 1..table[i]
               PROVE  e \in ToSet(SubSeq(table, 1, i))
    BY DEF StoredInOrder
  <2>1. table \in Seq(Events) /\ Len(table) \in Nat /\ \A k \in 1..Len(table) : table[k] \in Events
    BY LenProperties, ElementOfSeq DEF IInv, Types
  <2>2. PICK j \in 1..i : table[j] = e
    BY DEF IInv, Accounted, InOrder
  <2>3. 1 \in Int /\ i \in Int /\ \A k \in 1..i : table[k] \in Events
    BY <2>1
  <2> DEFINE s == SubSeq(table, 1, i)
  <2>4. /\ s \in Seq(Events) /\ Len(s) = (IF 1 <= i THEN i - 1 + 1 ELSE 0)
        /\ \A k \in 1..(i - 1 + 1) : s[k] = table[1 + k - 1]
    BY <2>3, SubSeqProperties
  <2> HIDE DEF s
  <2>5. j \in 1..Len(s) /\ s[j] = e
    BY <2>2, <2>3, <2>4
  <2>6. e \in ToSet(s)
    BY <2>4, <2>5, ToSetIs
  <2> QED
    BY <2>6 DEF s
<1> QED
  BY <1>1, Invariance, PTL

(* An event is stored twice only after an insert has failed or timed out.    *)
THEOREM OnceWithoutFailures == Spec => []DuplicatesNeedFailures
<1>1. IInv => DuplicatesNeedFailures
  <2> SUFFICES ASSUME IInv PROVE DuplicatesNeedFailures
    OBVIOUS
  <2>1. /\ failures \in Nat /\ table \in Seq(Events) /\ Len(table) \in Nat
        /\ \A i \in 1..Len(table) : table[i] \in Events
    BY ParametersAssumption, LenProperties, ElementOfSeq DEF IInv, Types
  <2>2. \A e : e \in ToSet(table) <=> \E i \in 1..Len(table) : table[i] = e
    BY <2>1, ToSetIs
  <2>3. Cardinality(ToSet(table)) \in Nat
    <3>1. ToSet(table) \subseteq 1..MaxEvents
      BY <2>1, <2>2 DEF Events
    <3>2. IsFiniteSet(1..MaxEvents)
      BY ParametersAssumption, FS_Interval
    <3> QED
      BY <3>1, <3>2, FS_Subset, FS_CardinalityType
  <2>4. CASE failures = 0
    <3>1. Consecutive(table, 0)
      BY <2>4 DEF IInv, Accounted
    <3>2. \A i \in 1..Len(table) : table[i] = i
      <4> TAKE i \in 1..Len(table)
      <4>1. table[i] = 0 + i
        BY <3>1 DEF Consecutive
      <4> QED
        BY <2>1, <4>1
    <3>3. ToSet(table) = 1..Len(table)
      <4>1. \A e : e \in ToSet(table) <=> e \in 1..Len(table)
        BY <2>2, <3>2
      <4> QED
        BY <4>1
    <3>4. Cardinality(1..Len(table)) = Len(table)
      <4>1. ASSUME NEW n \in Nat PROVE Cardinality(1..n) = n
        BY FS_Interval
      <4> QED
        BY <2>1, <4>1
    <3>5. ~(Len(table) > Cardinality(ToSet(table)))
      BY <2>1, <3>3, <3>4
    <3> QED
      BY <3>5 DEF DuplicatesNeedFailures
  <2> QED
    BY <2>1, <2>3, <2>4 DEF DuplicatesNeedFailures
<1> QED
  BY <1>1, Invariance, PTL
=============================================================================
