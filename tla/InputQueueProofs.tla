-------------------------- MODULE InputQueueProofs --------------------------
(***************************************************************************)
(* Theorems about InputQueue, for every set of keys and buttons and every  *)
(* LIMIT, BATCH and CAPACITY that QueueAssumption allows.                  *)
(***************************************************************************)
EXTENDS InputQueue, TLAPS, FiniteSetTheorems, SequenceTheorems

(* Applying two runs of operations one after the other is applying their   *)
(* concatenation: what makes batching invisible.                           *)
LEMMA HeldAfterConcat ==
  ASSUME NEW held, NEW S, NEW q \in Seq(S), NEW r \in Seq(S)
  PROVE  HeldAfter(held, q \o r) = HeldAfter(HeldAfter(held, q), r)
<1> DEFINE both == q \o r
<1>1. /\ both \in Seq(S) /\ Len(both) = Len(q) + Len(r)
      /\ DOMAIN both = 1 .. Len(both) /\ DOMAIN q = 1 .. Len(q) /\ DOMAIN r = 1 .. Len(r)
      /\ Len(q) \in Nat /\ Len(r) \in Nat
  BY ConcatProperties, LenProperties
<1>2. /\ \A n \in DOMAIN q : both[n] = q[n] /\ n \in DOMAIN both
      /\ \A n \in DOMAIN r : both[Len(q) + n] = r[n] /\ Len(q) + n \in DOMAIN both
      /\ \A n \in DOMAIN both : n \in DOMAIN q \/ (n - Len(q) \in DOMAIN r /\ both[n] = r[n - Len(q)])
  BY <1>1, ConcatProperties
<1>3. ASSUME NEW i \in Inputs, i \in HeldAfter(held, both)
      PROVE  i \in HeldAfter(HeldAfter(held, q), r)
  <2>1. CASE \E m \in DOMAIN r : Releases(r[m], i)
    <3>1. PICK m \in DOMAIN r : Releases(r[m], i)
      BY <2>1
    <3>2. Len(q) + m \in DOMAIN both /\ Releases(both[Len(q) + m], i)
      BY <3>1, <1>2
    <3>3. PICK n \in DOMAIN both : /\ Presses(both[n], i)
                                  /\ \A k \in DOMAIN both : k > n => ~Releases(both[k], i)
      BY <1>3, <3>2 DEF HeldAfter
    <3>4. n >= Len(q) + m
      BY <3>2, <3>3, <1>1
    <3>5. n - Len(q) \in DOMAIN r /\ both[n] = r[n - Len(q)]
      BY <3>1, <3>4, <1>1, <1>2
    <3>6. ASSUME NEW k \in DOMAIN r, k > n - Len(q) PROVE ~Releases(r[k], i)
      <4>1. Len(q) + k \in DOMAIN both /\ both[Len(q) + k] = r[k]
        BY <1>2
      <4>2. n \in Int /\ k \in Int /\ Len(q) + k > n
        BY <3>6, <1>1
      <4> QED BY <3>3, <4>1, <4>2
    <3>7. Presses(r[n - Len(q)], i)
      BY <3>3, <3>5
    <3> QED BY <3>5, <3>6, <3>7 DEF HeldAfter
  <2>2. CASE \A m \in DOMAIN r : ~Releases(r[m], i)
    <3>1. CASE \E n \in DOMAIN r : Presses(r[n], i)
      BY <2>2, <3>1 DEF HeldAfter
    <3>2. CASE \A n \in DOMAIN r : ~Presses(r[n], i)
      <4>1. i \in HeldAfter(held, q)
        BY <1>1, <1>2, <1>3, <3>2 DEF HeldAfter
      <4> QED BY <4>1, <2>2 DEF HeldAfter
    <3> QED BY <3>1, <3>2
  <2> QED BY <2>1, <2>2
<1>4. ASSUME NEW i \in Inputs, i \in HeldAfter(HeldAfter(held, q), r)
      PROVE  i \in HeldAfter(held, both)
  <2>1. CASE \E n \in DOMAIN r : /\ Presses(r[n], i)
                                 /\ \A m \in DOMAIN r : m > n => ~Releases(r[m], i)
    <3>1. PICK n \in DOMAIN r : /\ Presses(r[n], i)
                               /\ \A m \in DOMAIN r : m > n => ~Releases(r[m], i)
      BY <2>1
    <3>2. Len(q) + n \in DOMAIN both /\ Presses(both[Len(q) + n], i)
      BY <3>1, <1>2
    <3>3. ASSUME NEW k \in DOMAIN both, k > Len(q) + n PROVE ~Releases(both[k], i)
      <4>1. k - Len(q) \in DOMAIN r /\ both[k] = r[k - Len(q)] /\ k - Len(q) > n
        BY <3>3, <1>1, <1>2
      <4> QED BY <4>1, <3>1
    <3> QED BY <3>2, <3>3 DEF HeldAfter
  <2>2. CASE i \in HeldAfter(held, q) /\ \A m \in DOMAIN r : ~Releases(r[m], i)
    <3>1. CASE \E n \in DOMAIN q : /\ Presses(q[n], i)
                                   /\ \A m \in DOMAIN q : m > n => ~Releases(q[m], i)
      <4>1. PICK n \in DOMAIN q : /\ Presses(q[n], i)
                                 /\ \A m \in DOMAIN q : m > n => ~Releases(q[m], i)
        BY <3>1
      <4>2. n \in DOMAIN both /\ Presses(both[n], i)
        BY <4>1, <1>2
      <4>3. ASSUME NEW k \in DOMAIN both, k > n PROVE ~Releases(both[k], i)
        BY <4>1, <4>3, <2>2, <1>1, <1>2
      <4> QED BY <4>2, <4>3 DEF HeldAfter
    <3>2. CASE i \in held /\ \A m \in DOMAIN q : ~Releases(q[m], i)
      <4>1. \A k \in DOMAIN both : ~Releases(both[k], i)
        BY <3>2, <2>2, <1>1, <1>2
      <4> QED BY <4>1, <3>2 DEF HeldAfter
    <3> QED BY <3>1, <3>2, <2>2 DEF HeldAfter
  <2> QED BY <2>1, <2>2, <1>4 DEF HeldAfter
<1>5. HeldAfter(held, both) \subseteq Inputs /\ HeldAfter(HeldAfter(held, q), r) \subseteq Inputs
  BY DEF HeldAfter
<1> QED BY <1>3, <1>4, <1>5

(* Fewer inputs down before means no more inputs down after.               *)
LEMMA HeldAfterMonotone ==
  ASSUME NEW held, NEW other, held \subseteq other, NEW q
  PROVE  HeldAfter(held, q) \subseteq HeldAfter(other, q)
BY DEF HeldAfter
-----------------------------------------------------------------------------
(* Sequences of releases.                                                  *)

LEMMA SetToSeqEnumerates ==
  ASSUME NEW S, IsFiniteSet(S)
  PROVE  /\ SetToSeq(S) \in [1 .. Cardinality(S) -> S]
         /\ \A s \in S : \E n \in 1 .. Cardinality(S) : SetToSeq(S)[n] = s
<1>1. Cardinality(S) \in Nat /\ ExistsBijection(1 .. Cardinality(S), S)
  BY FS_CardinalityType
<1>2. \E f \in [1 .. Cardinality(S) -> S] : IsInjective(f)
  BY <1>1 DEF ExistsBijection, Bijection, Injection
<1>3. SetToSeq(S) \in [1 .. Cardinality(S) -> S] /\ IsInjective(SetToSeq(S))
  BY <1>2 DEF SetToSeq
<1>4. SetToSeq(S) \in Injection(1 .. Cardinality(S), S)
  BY <1>3 DEF Injection
<1>5. Cardinality(1 .. Cardinality(S)) = Cardinality(S)
  BY <1>1, FS_Interval
<1>6. SetToSeq(S) \in Surjection(1 .. Cardinality(S), S)
  BY <1>4, <1>5, FS_Injection
<1> QED BY <1>3, <1>6 DEF Surjection

LEMMA ReleasesOfProperties ==
  ASSUME NEW S \in SUBSET Inputs, IsFiniteSet(S)
  PROVE  /\ ReleasesOf(S) \in Seq(Operation) /\ Len(ReleasesOf(S)) = Cardinality(S)
         /\ \A n \in DOMAIN ReleasesOf(S) : \E s \in S : ReleasesOf(S)[n] = Release(s)
         /\ \A s \in S : \E n \in DOMAIN ReleasesOf(S) : ReleasesOf(S)[n] = Release(s)
<1> DEFINE order == SetToSeq(S)
<1>1. Cardinality(S) \in Nat
  BY FS_CardinalityType
<1>2. /\ order \in [1 .. Cardinality(S) -> S]
      /\ \A s \in S : \E n \in 1 .. Cardinality(S) : order[n] = s
  BY SetToSeqEnumerates
<1>3. ReleasesOf(S) = [n \in 1 .. Cardinality(S) |-> Release(order[n])]
  BY DEF ReleasesOf
<1>4. \A n \in 1 .. Cardinality(S) : order[n] \in S /\ Release(order[n]) \in Operation
  BY <1>2 DEF Operation, Release
<1>5. ReleasesOf(S) \in [1 .. Cardinality(S) -> Operation]
  BY <1>3, <1>4
<1>6. ReleasesOf(S) \in Seq(Operation)
  BY <1>1, <1>5, SeqDef
<1>7. Len(ReleasesOf(S)) = Cardinality(S)
  BY <1>1, <1>5, <1>6, LenProperties
<1> QED BY <1>2, <1>3, <1>4, <1>6, <1>7

(* After releases of a set of inputs, exactly those are no longer held.    *)
LEMMA HeldAfterReleases ==
  ASSUME NEW held, NEW S \in SUBSET Inputs, IsFiniteSet(S)
  PROVE  HeldAfter(held, ReleasesOf(S)) = (held \cap Inputs) \ S
<1>1. ASSUME NEW n \in DOMAIN ReleasesOf(S), NEW i \in Inputs
      PROVE  ~Presses(ReleasesOf(S)[n], i) /\ (Releases(ReleasesOf(S)[n], i) => i \in S)
  BY ReleasesOfProperties DEF Presses, Releases, Release
<1>2. ASSUME NEW i \in S
      PROVE  \E n \in DOMAIN ReleasesOf(S) : Releases(ReleasesOf(S)[n], i)
  BY ReleasesOfProperties DEF Releases, Release
<1> QED BY <1>1, <1>2 DEF HeldAfter

LEMMA InputsFinite ==
  ASSUME NEW S \in SUBSET Inputs
  PROVE  /\ IsFiniteSet(S \cap Keys) /\ IsFiniteSet(S \cap Buttons)
         /\ Cardinality(S \cap Keys) \in Nat /\ Cardinality(S \cap Buttons) \in Nat
         /\ Cardinality(S \cap Keys) + Cardinality(S \cap Buttons) <= LIMIT
<1>1. S \cap Keys \in SUBSET Keys /\ S \cap Buttons \in SUBSET Buttons
  OBVIOUS
<1>2. /\ IsFiniteSet(S \cap Keys) /\ Cardinality(S \cap Keys) <= Cardinality(Keys)
      /\ IsFiniteSet(S \cap Buttons) /\ Cardinality(S \cap Buttons) <= Cardinality(Buttons)
  BY <1>1, QueueAssumption, FS_Subset
<1>3. /\ Cardinality(S \cap Keys) \in Nat /\ Cardinality(S \cap Buttons) \in Nat
      /\ Cardinality(Keys) \in Nat /\ Cardinality(Buttons) \in Nat
  BY <1>2, QueueAssumption, FS_CardinalityType
<1> QED BY <1>2, <1>3, QueueAssumption

(* queue_releases: within LIMIT, and nothing is held once it is applied.   *)
LEMMA QueuedReleasesProperties ==
  ASSUME database \subseteq Inputs
  PROVE  /\ QueuedReleases \in Seq(Operation) /\ Len(QueuedReleases) <= LIMIT
         /\ HeldAfter(database, QueuedReleases) = {}
<1> DEFINE keys == database \cap Keys
           buttons == database \cap Buttons
<1>1. /\ IsFiniteSet(keys) /\ IsFiniteSet(buttons)
      /\ Cardinality(keys) \in Nat /\ Cardinality(buttons) \in Nat
      /\ Cardinality(keys) + Cardinality(buttons) <= LIMIT
  BY InputsFinite
<1>2. keys \in SUBSET Inputs /\ buttons \in SUBSET Inputs
  OBVIOUS
<1>3. /\ ReleasesOf(keys) \in Seq(Operation) /\ Len(ReleasesOf(keys)) = Cardinality(keys)
      /\ ReleasesOf(buttons) \in Seq(Operation) /\ Len(ReleasesOf(buttons)) = Cardinality(buttons)
  BY <1>1, <1>2, ReleasesOfProperties
<1>4. /\ QueuedReleases \in Seq(Operation)
      /\ Len(QueuedReleases) = Cardinality(keys) + Cardinality(buttons)
  BY <1>3, ConcatProperties DEF QueuedReleases
<1>5. HeldAfter(database, QueuedReleases)
        = HeldAfter(HeldAfter(database, ReleasesOf(keys)), ReleasesOf(buttons))
  BY <1>3, HeldAfterConcat DEF QueuedReleases
<1>6. HeldAfter(database, ReleasesOf(keys)) = (database \cap Inputs) \ keys
  BY <1>1, <1>2, HeldAfterReleases
<1>7. HeldAfter((database \cap Inputs) \ keys, ReleasesOf(buttons)) = {}
  BY <1>1, <1>2, HeldAfterReleases DEF Inputs
<1> QED BY <1>1, <1>4, <1>5, <1>6, <1>7
-----------------------------------------------------------------------------
(* send.                                                                   *)

LEMMA SingletonSeq ==
  ASSUME NEW S, NEW e \in S
  PROVE  <<e>> \in Seq(S) /\ Len(<<e>>) = 1 /\ <<e>>[1] = e
OBVIOUS

LEMMA HeldAfterMove ==
  ASSUME NEW held, NEW operation \in Operation, IsMove(operation)
  PROVE  HeldAfter(held, <<operation>>) = held \cap Inputs
BY DEF HeldAfter, Presses, Releases, IsMove

(* Motion replaced by newer motion holds the same inputs down.             *)
LEMMA CoalescedHolds ==
  ASSUME NEW held, NEW queue \in Seq(Operation), NEW operation \in Operation,
         Coalesces(queue, operation)
  PROVE  /\ [queue EXCEPT ![Len(queue)] = operation] \in Seq(Operation)
         /\ Len([queue EXCEPT ![Len(queue)] = operation]) = Len(queue)
         /\ HeldAfter(held, [queue EXCEPT ![Len(queue)] = operation]) = HeldAfter(held, queue)
<1> DEFINE moved == [queue EXCEPT ![Len(queue)] = operation]
<1>1. /\ Len(queue) \in Nat /\ DOMAIN queue = 1 .. Len(queue)
      /\ Len(queue) \in 1 .. Len(queue)
  BY LenProperties DEF Coalesces
<1>2. /\ moved \in Seq(Operation) /\ Len(moved) = Len(queue) /\ DOMAIN moved = DOMAIN queue
      /\ \A j \in DOMAIN queue : moved[j] = IF j = Len(queue) THEN operation ELSE queue[j]
  BY <1>1, ExceptSeq, LenProperties
<1>3. \A i \in Inputs : \A j \in DOMAIN queue :
        /\ Presses(moved[j], i) <=> Presses(queue[j], i)
        /\ Releases(moved[j], i) <=> Releases(queue[j], i)
  BY <1>1, <1>2 DEF Coalesces, IsMove, Presses, Releases
<1> QED BY <1>2, <1>3 DEF HeldAfter

LEMMA OfferedProperties ==
  ASSUME database \subseteq Inputs,
         NEW queue \in Seq(Operation), Len(queue) <= LIMIT,
         NEW operation \in Operation
  PROVE  /\ Offered(queue, operation) \in Seq(Operation)
         /\ Len(Offered(queue, operation)) <= LIMIT
         /\ ~Saturates(queue, operation) =>
              HeldAfter(database, Offered(queue, operation))
                = HeldAfter(HeldAfter(database, queue), <<operation>>)
         /\ Saturates(queue, operation) => HeldAfter(database, Offered(queue, operation)) = {}
<1>1. CASE Coalesces(queue, operation)
  <2>1. HeldAfter(database, queue) \subseteq Inputs
    BY DEF HeldAfter
  <2>2. Offered(queue, operation) = [queue EXCEPT ![Len(queue)] = operation]
    BY <1>1 DEF Offered
  <2>3. /\ Offered(queue, operation) \in Seq(Operation)
        /\ Len(Offered(queue, operation)) = Len(queue)
        /\ HeldAfter(database, Offered(queue, operation)) = HeldAfter(database, queue)
    BY <1>1, <2>2, CoalescedHolds
  <2>4. HeldAfter(HeldAfter(database, queue), <<operation>>) = HeldAfter(database, queue)
    BY <1>1, <2>1, HeldAfterMove DEF Coalesces
  <2> QED BY <1>1, <2>1, <2>3, <2>4 DEF Saturates
<1>2. CASE Saturates(queue, operation)
  BY <1>2, QueuedReleasesProperties DEF Offered, Saturates
<1>3. CASE ~Coalesces(queue, operation) /\ ~Saturates(queue, operation)
  <2>1. Offered(queue, operation) = Append(queue, operation)
    BY <1>3 DEF Offered
  <2>2. Len(queue) \in Nat /\ Len(queue) < LIMIT
    BY <1>3, LenProperties, QueueAssumption DEF Saturates
  <2>3. /\ Append(queue, operation) \in Seq(Operation)
        /\ Len(Append(queue, operation)) <= LIMIT
    BY <2>2, AppendProperties, QueueAssumption
  <2> DEFINE single == <<operation>>
  <2>4. Append(queue, operation) = queue \o single /\ single \in Seq(Operation)
    BY AppendIsConcat, SingletonSeq
  <2> HIDE DEF single
  <2>5. HeldAfter(database, Append(queue, operation)) = HeldAfter(HeldAfter(database, queue), single)
    BY <2>4, HeldAfterConcat
  <2> USE DEF single
  <2> QED BY <2>1, <2>3, <2>5, <1>3
<1> QED BY <1>1, <1>2, <1>3

LEMMA OfferedAllProperties ==
  ASSUME database \subseteq Inputs,
         NEW queue \in Seq(Operation), Len(queue) <= LIMIT,
         NEW operations \in Seq(Operation), Len(operations) \in {1, 2}
  PROVE  /\ OfferedAll(queue, operations) \in Seq(Operation)
         /\ Len(OfferedAll(queue, operations)) <= LIMIT
         /\ HeldAfter(database, OfferedAll(queue, operations))
              \in {HeldAfter(HeldAfter(database, queue), operations), {}}
<1> DEFINE held == HeldAfter(database, queue)
           one == operations[1]
           first == Offered(queue, one)
<1>1. one \in Operation
  BY LenProperties
<1>2. /\ first \in Seq(Operation) /\ Len(first) <= LIMIT
      /\ ~Saturates(queue, one) => HeldAfter(database, first) = HeldAfter(held, <<one>>)
      /\ Saturates(queue, one) => HeldAfter(database, first) = {}
  BY <1>1, OfferedProperties
<1>3. CASE Saturates(queue, one)
  BY <1>2, <1>3 DEF OfferedAll
<1>4. CASE Len(operations) = 1
  <2>1. operations = <<one>>
    <3>1. <<one>> \in Seq(Operation) /\ Len(<<one>>) = 1 /\ <<one>>[1] = one
      BY <1>1, SingletonSeq
    <3> QED BY <1>4, <3>1, SeqEqual
  <2>2. OfferedAll(queue, operations) = first
    BY <1>4 DEF OfferedAll
  <2>3. HeldAfter(held, operations) = HeldAfter(held, <<one>>)
    BY <2>1
  <2> QED BY <1>2, <2>2, <2>3
<1>5. CASE Len(operations) = 2 /\ ~Saturates(queue, one)
  <2> DEFINE two == operations[2]
  <2> DEFINE s1 == <<one>>
             s2 == <<two>>
  <2>1. /\ two \in Operation
        /\ s1 \in Seq(Operation) /\ Len(s1) = 1 /\ s1[1] = one
        /\ s2 \in Seq(Operation) /\ Len(s2) = 1 /\ s2[1] = two
    <3>1. two \in Operation
      BY <1>5, ElementOfSeq
    <3> QED BY <1>1, <3>1, SingletonSeq
  <2> HIDE DEF s1, s2
  <2>2. operations = s1 \o s2
    <3>1. /\ s1 \o s2 \in Seq(Operation) /\ Len(s1 \o s2) = 2
          /\ (s1 \o s2)[1] = one /\ (s1 \o s2)[2] = two
      BY <2>1, ConcatProperties
    <3>2. \A i \in 1 .. Len(operations) : operations[i] = (s1 \o s2)[i]
      <4>1. Len(operations) = 2 /\ operations[1] = one /\ operations[2] = two
        BY <1>5
      <4>2. \A i \in 1 .. 2 : i = 1 \/ i = 2
        OBVIOUS
      <4> QED BY <3>1, <4>1, <4>2
    <3>3. Len(operations) = Len(s1 \o s2)
      BY <1>5, <3>1
    <3> QED BY <3>1, <3>2, <3>3, SeqEqual
  <2>4. HeldAfter(held, operations) = HeldAfter(HeldAfter(held, s1), s2)
    BY <2>1, <2>2, HeldAfterConcat
  <2>3. OfferedAll(queue, operations) = Offered(first, two)
    BY <1>5 DEF OfferedAll
  <2>5. HeldAfter(database, first) = HeldAfter(held, s1)
    BY <1>2, <1>5 DEF s1
  <2>6. /\ Offered(first, two) \in Seq(Operation) /\ Len(Offered(first, two)) <= LIMIT
        /\ HeldAfter(database, Offered(first, two)) \in {HeldAfter(HeldAfter(database, first), s2), {}}
    BY <1>2, <2>1, OfferedProperties DEF s2
  <2> QED BY <2>3, <2>4, <2>5, <2>6
<1> QED BY <1>3, <1>4, <1>5
-----------------------------------------------------------------------------
(* release_buttons.                                                        *)

(* The position of index i among the indices in K.                         *)
UpTo(K, i) == {m \in K : m <= i}
Rank(K, i) == Cardinality(UpTo(K, i))

LEMMA IntervalSize ==
  ASSUME NEW n \in Nat
  PROVE  IsFiniteSet(1 .. n) /\ Cardinality(1 .. n) = n
BY FS_Interval

(* The retained subsequence: its operations are those at the indices in K, *)
(* each once, in their order.                                              *)
LEMMA RetainedProperties ==
  ASSUME NEW S, NEW q \in Seq(S), NEW K \in SUBSET DOMAIN q
  PROVE  /\ Retained(q, K) \in Seq(S) /\ Len(Retained(q, K)) <= Len(q)
         /\ \A n \in DOMAIN Retained(q, K) : Nth(K, n) \in K /\ Retained(q, K)[n] = q[Nth(K, n)]
         /\ \A m, n \in DOMAIN Retained(q, K) : m < n => Nth(K, m) < Nth(K, n)
         /\ \A i \in K : \E n \in DOMAIN Retained(q, K) : Nth(K, n) = i
<1> DEFINE size == Cardinality(K)
<1>1. Len(q) \in Nat /\ DOMAIN q = 1 .. Len(q) /\ q \in [1 .. Len(q) -> S] /\ K \subseteq 1 .. Len(q)
  BY LenProperties
<1>2. IsFiniteSet(K) /\ size \in Nat /\ size <= Len(q)
  <2>1. IsFiniteSet(1 .. Len(q)) /\ Cardinality(1 .. Len(q)) = Len(q)
    BY <1>1, IntervalSize
  <2>2. K \in SUBSET (1 .. Len(q))
    BY <1>1
  <2>3. IsFiniteSet(K) /\ Cardinality(K) <= Cardinality(1 .. Len(q))
    BY <2>1, <2>2, FS_Subset
  <2>4. Cardinality(K) \in Nat
    BY <2>3, FS_CardinalityType
  <2> QED BY <2>1, <2>3, <2>4
<1>3. ASSUME NEW i \in K
      PROVE  IsFiniteSet(UpTo(K, i)) /\ Rank(K, i) \in 1 .. size
  <2>1. UpTo(K, i) \in SUBSET K /\ i \in UpTo(K, i)
    BY <1>1 DEF UpTo
  <2>2. IsFiniteSet(UpTo(K, i)) /\ Rank(K, i) <= size /\ Rank(K, i) \in Nat
    BY <1>2, <2>1, FS_Subset, FS_CardinalityType DEF Rank
  <2>3. Rank(K, i) # 0
    BY <2>1, <2>2, FS_EmptySet DEF Rank
  <2> QED BY <1>2, <2>2, <2>3
<1>4. ASSUME NEW i \in K, NEW j \in K, i < j
      PROVE  Rank(K, i) < Rank(K, j)
  <2>1. UpTo(K, i) \in SUBSET UpTo(K, j) /\ j \in UpTo(K, j) /\ j \notin UpTo(K, i)
    BY <1>1, <1>4 DEF UpTo
  <2>2. Rank(K, i) <= Rank(K, j) /\ Rank(K, i) # Rank(K, j)
    BY <1>3, <2>1, FS_Subset DEF Rank
  <2> QED BY <1>3, <2>2
<1> DEFINE f == [i \in K |-> Rank(K, i)]
<1>5. \A n \in 1 .. size : \E i \in K : Rank(K, i) = n
  <2>1. f \in [K -> 1 .. size]
    BY <1>3
  <2>2. ASSUME NEW i \in K, NEW j \in K, f[i] = f[j] PROVE i = j
    <3>1. Rank(K, i) = Rank(K, j) /\ Rank(K, i) \in Int /\ i \in Int /\ j \in Int
      BY <1>1, <1>3, <2>2
    <3>2. ~(i < j) /\ ~(j < i)
      BY <1>4, <3>1
    <3> QED BY <3>1, <3>2
  <2>3. f \in Injection(K, 1 .. size)
    BY <2>1, <2>2 DEF Injection, IsInjective
  <2>4. IsFiniteSet(1 .. size) /\ Cardinality(1 .. size) = size
    BY <1>2, FS_Interval
  <2>5. f \in Surjection(K, 1 .. size)
    BY <2>3, <2>4, FS_Injection
  <2> QED BY <2>5 DEF Surjection
<1>6. \A n \in 1 .. size : Nth(K, n) \in K /\ Rank(K, Nth(K, n)) = n
  BY <1>5 DEF Nth, Rank, UpTo
<1>7. /\ Retained(q, K) = [n \in 1 .. size |-> q[Nth(K, n)]]
      /\ DOMAIN Retained(q, K) = 1 .. size
  BY DEF Retained
<1>8. /\ Retained(q, K) \in [1 .. size -> S]
      /\ \A n \in 1 .. size : Retained(q, K)[n] = q[Nth(K, n)]
  BY <1>1, <1>6, <1>7
<1>9. Retained(q, K) \in Seq(S) /\ Len(Retained(q, K)) = size
  <2>1. Retained(q, K) \in Seq(S)
    BY <1>2, <1>8, SeqDef
  <2> QED BY <1>2, <1>7, <2>1, LenProperties
<1>10. ASSUME NEW m \in 1 .. size, NEW n \in 1 .. size, m < n
       PROVE  Nth(K, m) < Nth(K, n)
  <2>1. /\ Nth(K, m) \in K /\ Nth(K, n) \in K /\ Nth(K, m) \in Int /\ Nth(K, n) \in Int
        /\ Rank(K, Nth(K, m)) = m /\ Rank(K, Nth(K, n)) = n
    BY <1>1, <1>6
  <2>2. Nth(K, m) # Nth(K, n)
    BY <1>10, <2>1
  <2>3. ~(Nth(K, n) < Nth(K, m))
    BY <1>4, <1>10, <2>1
  <2> QED BY <2>1, <2>2, <2>3
<1>11. ASSUME NEW i \in K PROVE Nth(K, Rank(K, i)) = i /\ Rank(K, i) \in 1 .. size
  <2>1. /\ Rank(K, i) \in 1 .. size /\ Nth(K, Rank(K, i)) \in K /\ Rank(K, Nth(K, Rank(K, i))) = Rank(K, i)
        /\ i \in Int /\ Nth(K, Rank(K, i)) \in Int
    BY <1>1, <1>3, <1>6
  <2>2. ~(Nth(K, Rank(K, i)) < i) /\ ~(i < Nth(K, Rank(K, i)))
    BY <1>4, <2>1
  <2> QED BY <2>1, <2>2
<1> QED BY <1>2, <1>6, <1>7, <1>8, <1>9, <1>10, <1>11

(* Dropping operations that are no edge of input i changes nothing for it. *)
LEMMA RetainedHolds ==
  ASSUME NEW held, NEW q \in Seq(Operation), NEW K \in SUBSET DOMAIN q, NEW i \in Inputs,
         \A n \in DOMAIN q \ K : ~Presses(q[n], i) /\ ~Releases(q[n], i)
  PROVE  i \in HeldAfter(held, Retained(q, K)) <=> i \in HeldAfter(held, q)
<1> DEFINE r == Retained(q, K)
<1>1. /\ \A n \in DOMAIN r : Nth(K, n) \in K /\ r[n] = q[Nth(K, n)]
      /\ \A m, n \in DOMAIN r : m < n => Nth(K, m) < Nth(K, n)
      /\ \A k \in K : \E n \in DOMAIN r : Nth(K, n) = k
  BY RetainedProperties
<1>2. DOMAIN r \subseteq Int /\ DOMAIN q \subseteq Int
  BY RetainedProperties, LenProperties
<1> HIDE DEF r
<1>3. ASSUME NEW n \in DOMAIN q, Presses(q[n], i),
             \A m \in DOMAIN q : m > n => ~Releases(q[m], i)
      PROVE  i \in HeldAfter(held, r)
  <2>1. PICK k \in DOMAIN r : Nth(K, k) = n /\ r[k] = q[n]
    BY <1>1, <1>3
  <2>2. ASSUME NEW m \in DOMAIN r, m > k PROVE ~Releases(r[m], i)
    BY <1>1, <1>2, <1>3, <2>1, <2>2
  <2> QED BY <1>3, <2>1, <2>2 DEF HeldAfter
<1>4. ASSUME NEW n \in DOMAIN r, Presses(r[n], i),
             \A m \in DOMAIN r : m > n => ~Releases(r[m], i)
      PROVE  i \in HeldAfter(held, q)
  <2>1. Nth(K, n) \in DOMAIN q /\ Presses(q[Nth(K, n)], i)
    BY <1>1, <1>4
  <2>2. ASSUME NEW m \in DOMAIN q, m > Nth(K, n) PROVE ~Releases(q[m], i)
    <3>1. SUFFICES ASSUME m \in K PROVE ~Releases(q[m], i)
      OBVIOUS
    <3>2. PICK k \in DOMAIN r : Nth(K, k) = m /\ r[k] = q[m]
      BY <1>1, <3>1
    <3>3. ~(k < n) /\ k # n
      BY <1>1, <1>2, <2>1, <2>2, <3>2
    <3> QED BY <1>2, <1>4, <3>2, <3>3
  <2> QED BY <2>1, <2>2 DEF HeldAfter
<1>5. (\A m \in DOMAIN r : ~Releases(r[m], i)) <=> (\A m \in DOMAIN q : ~Releases(q[m], i))
  BY <1>1
<1> QED BY <1>3, <1>4, <1>5 DEF HeldAfter, r

(* Taking the pointer keeps the queue within LIMIT, lets go of every       *)
(* button, and of no key unless the queue had to be abandoned.             *)
LEMMA CaptureProperties ==
  ASSUME database \subseteq Inputs, pending \in Seq(Operation), Len(pending) <= LIMIT
  PROVE  /\ CaptureReleases \in Seq(Operation) /\ Len(CaptureReleases) <= LIMIT
         /\ HeldAfter(database, CaptureReleases) \cap Buttons = {}
         /\ \/ HeldAfter(database, CaptureReleases) = HeldAfter(database, pending) \cap Keys
            \/ HeldAfter(database, CaptureReleases) = {}
<1> DEFINE K == {n \in DOMAIN pending : KeptByCapture(pending[n])}
           kept == Retained(pending, K)
           queued == {b \in Buttons : \E n \in DOMAIN kept : Releases(kept[n], b)}
           S == (database \cap Buttons) \ queued
           releases == ReleasesOf(S)
<1>1. CaptureReleases = IF Len(kept) + Len(releases) > LIMIT THEN QueuedReleases ELSE kept \o releases
  BY DEF CaptureReleases
<1>2. /\ kept \in Seq(Operation)
      /\ \A n \in DOMAIN kept : KeptByCapture(kept[n])
  <2>1. K \in SUBSET DOMAIN pending
    OBVIOUS
  <2> QED BY <2>1, RetainedProperties
<1>3. S \in SUBSET Inputs /\ IsFiniteSet(S)
  <2>1. S \in SUBSET (database \cap Buttons) /\ IsFiniteSet(database \cap Buttons)
    BY InputsFinite
  <2> QED BY <2>1, FS_Subset
<1>4. releases \in Seq(Operation)
  BY <1>3, ReleasesOfProperties
<1>5. \A k \in Keys : k \in HeldAfter(database, kept) <=> k \in HeldAfter(database, pending)
  <2> TAKE k \in Keys
  <2>1. \A n \in DOMAIN pending \ K : ~Presses(pending[n], k) /\ ~Releases(pending[n], k)
    BY QueueAssumption DEF KeptByCapture, Presses, Releases
  <2>2. k \in Inputs /\ K \in SUBSET DOMAIN pending
    BY DEF Inputs
  <2> QED BY <2>1, <2>2, RetainedHolds
<1>6. \A b \in Buttons : b \in HeldAfter(database, kept) => b \in S
  BY <1>2 DEF HeldAfter, KeptByCapture
<1>7. HeldAfter(database, kept \o releases) = HeldAfter(database, kept) \ S
  <2>1. HeldAfter(database, kept \o releases) = HeldAfter(HeldAfter(database, kept), releases)
    BY <1>2, <1>4, HeldAfterConcat
  <2>2. HeldAfter(HeldAfter(database, kept), releases) = (HeldAfter(database, kept) \cap Inputs) \ S
    BY <1>3, HeldAfterReleases
  <2>3. HeldAfter(database, kept) \subseteq Inputs
    BY DEF HeldAfter
  <2> QED BY <2>1, <2>2, <2>3
<1>8. HeldAfter(database, kept \o releases) = HeldAfter(database, pending) \cap Keys
  <2>1. HeldAfter(database, kept) \subseteq Inputs /\ HeldAfter(database, pending) \subseteq Inputs
    BY DEF HeldAfter
  <2>2. S \cap Keys = {}
    BY QueueAssumption
  <2>3. \A b \in Buttons : b \notin Keys
    BY QueueAssumption
  <2> HIDE DEF S, kept
  <2> QED BY <1>5, <1>6, <1>7, <2>1, <2>2, <2>3 DEF Inputs
<1>9. CASE Len(kept) + Len(releases) > LIMIT
  BY <1>1, <1>9, QueuedReleasesProperties
<1>10. CASE ~(Len(kept) + Len(releases) > LIMIT)
  <2>1. CaptureReleases = kept \o releases
    BY <1>1, <1>10
  <2>2. /\ kept \o releases \in Seq(Operation)
        /\ Len(kept \o releases) <= LIMIT
    <3> HIDE DEF kept, releases
    <3> QED BY <1>2, <1>4, <1>10, ConcatProperties, LenProperties, QueueAssumption
  <2>3. Keys \cap Buttons = {}
    BY QueueAssumption
  <2> QED BY <2>1, <2>2, <2>3, <1>8
<1> QED BY <1>9, <1>10
-----------------------------------------------------------------------------
(* flush.                                                                  *)

(* Sending the first operations of the queue and noting them in the        *)
(* database leaves what will be held unchanged.                            *)
LEMMA DeliverProperties ==
  ASSUME NEW held, NEW q \in Seq(Operation), NEW count \in 1 .. Len(q)
  PROVE  /\ SubSeq(q, 1, count) \in Seq(Operation)
         /\ SubSeq(q, count + 1, Len(q)) \in Seq(Operation)
         /\ Len(SubSeq(q, count + 1, Len(q))) < Len(q)
         /\ SubSeq(q, 1, count) \o SubSeq(q, count + 1, Len(q)) = q
         /\ HeldAfter(HeldAfter(held, SubSeq(q, 1, count)), SubSeq(q, count + 1, Len(q)))
              = HeldAfter(held, q)
<1>1. Len(q) \in Nat
  BY LenProperties
<1>2. /\ SubSeq(q, 1, count) \in Seq(Operation)
      /\ SubSeq(q, count + 1, Len(q)) \in Seq(Operation)
      /\ Len(SubSeq(q, count + 1, Len(q))) = Len(q) - count
  BY <1>1, SubSeqProperties
<1> DEFINE head == SubSeq(q, 1, count)
           rest == SubSeq(q, count + 1, Len(q))
<1>3. head \o rest = q
  <2>1. /\ Len(head) = count /\ Len(rest) = Len(q) - count
        /\ \A n \in 1 .. count : head[n] = q[n]
        /\ \A n \in 1 .. Len(q) - count : rest[n] = q[count + n]
    BY <1>1, SubSeqProperties
  <2> HIDE DEF head, rest
  <2>2. head \in Seq(Operation) /\ rest \in Seq(Operation)
    BY <1>2 DEF head, rest
  <2>3. head \o rest \in Seq(Operation) /\ Len(head \o rest) = Len(head) + Len(rest)
    BY <2>2, ConcatProperties
  <2>4. Len(head \o rest) = Len(q)
    BY <1>1, <2>1, <2>3
  <2>5. ASSUME NEW n \in 1 .. Len(head \o rest) PROVE (head \o rest)[n] = q[n]
    <3>1. (head \o rest)[n] = IF n <= Len(head) THEN head[n] ELSE rest[n - Len(head)]
      BY <2>2, <2>3, ConcatProperties
    <3>2. CASE n <= count
      <4>1. n \in 1 .. count
        BY <2>4, <3>2, <1>1
      <4> QED BY <2>1, <3>1, <3>2, <4>1
    <3>3. CASE n > count
      <4>1. n - count \in 1 .. Len(q) - count /\ count + (n - count) = n /\ ~(n <= count)
        BY <1>1, <2>4, <3>3
      <4>2. rest[n - count] = q[count + (n - count)]
        BY <2>1, <4>1
      <4> QED BY <2>1, <3>1, <4>1, <4>2
    <3> QED BY <1>1, <2>4, <3>2, <3>3
  <2> DEFINE whole == head \o rest
  <2>6. whole \in Seq(Operation) /\ Len(whole) = Len(q) /\ \A n \in 1 .. Len(whole) : whole[n] = q[n]
    BY <2>3, <2>4, <2>5
  <2> HIDE DEF whole
  <2>7. whole = q
    BY <2>6, SeqEqual
  <2> QED BY <2>7 DEF whole
<1>4. head \in Seq(Operation) /\ rest \in Seq(Operation) /\ Len(rest) < Len(q)
  BY <1>1, <1>2
<1> HIDE DEF head, rest
<1>5. HeldAfter(held, head \o rest) = HeldAfter(HeldAfter(held, head), rest)
  BY <1>4, HeldAfterConcat
<1> QED BY <1>3, <1>4, <1>5 DEF head, rest

(* Operations that make no event change nothing of what is held.           *)
LEMMA NoEventsHold ==
  ASSUME NEW held \in SUBSET Inputs, NEW q, ~HasEvents(held, q)
  PROVE  HeldAfter(held, q) = held
BY DEF HasEvents, HeldAfter, Inputs
-----------------------------------------------------------------------------
(* The channel.                                                            *)

LEMMA HeldAfterAllAppend ==
  ASSUME NEW held, NEW c \in Seq(Seq(Operation)), NEW m \in Seq(Operation)
  PROVE  HeldAfterAll(held, Append(c, m)) = HeldAfter(HeldAfterAll(held, c), m)
<1> DEFINE d == Append(c, m)
<1>1. /\ d \in Seq(Seq(Operation)) /\ Len(d) = Len(c) + 1 /\ Len(c) \in Nat
      /\ DOMAIN c = 1 .. Len(c) /\ DOMAIN d = 1 .. Len(d)
      /\ \A n \in 1 .. Len(c) : d[n] = c[n]
      /\ d[Len(d)] = m
  BY AppendProperties, LenProperties
<1> HIDE DEF d
<1> DEFINE Released(s, i) == \E n \in DOMAIN s : Releases(s[n], i)
<1> DEFINE Sent(s, i) == \E n \in DOMAIN s : /\ i \in HeldAfter({}, s[n])
                                            /\ \A l \in DOMAIN s : l > n => ~Released(s[l], i)
           Kept(s, i) == i \in held /\ \A n \in DOMAIN s : ~Released(s[n], i)
           wire == HeldAfterAll(held, c)
<1>2. /\ \A i : i \in wire <=> i \in Inputs /\ (Sent(c, i) \/ Kept(c, i))
      /\ \A i : i \in HeldAfterAll(held, d) <=> i \in Inputs /\ (Sent(d, i) \/ Kept(d, i))
  BY DEF HeldAfterAll
<1>3. \A i : i \in HeldAfter(wire, m) <=> i \in Inputs /\ (i \in HeldAfter({}, m) \/ (i \in wire /\ ~Released(m, i)))
  BY DEF HeldAfter
<1> HIDE DEF wire
<1> HIDE DEF Released
<1>6. /\ Len(d) \in DOMAIN d
      /\ \A l \in DOMAIN c : l \in DOMAIN d /\ d[l] = c[l]
      /\ \A l \in DOMAIN d : (l \in DOMAIN c /\ d[l] = c[l]) \/ d[l] = m
  BY <1>1
<1>4. ASSUME NEW i, i \in HeldAfterAll(held, d)
      PROVE  i \in HeldAfter(wire, m)
  <2>1. CASE i \in HeldAfter({}, m)
    BY <1>3, <1>2, <1>4, <2>1
  <2>2. CASE i \notin HeldAfter({}, m)
    <3>1. CASE Kept(d, i)
      <4>1. \A l \in DOMAIN c : ~Released(c[l], i)
        BY <1>6, <3>1
      <4>2. ~Released(m, i)
        BY <1>1, <1>6, <3>1
      <4> QED BY <1>2, <1>3, <1>4, <3>1, <4>1, <4>2
    <3>2. CASE Sent(d, i)
      <4>1. PICK n \in DOMAIN d : /\ i \in HeldAfter({}, d[n])
                                 /\ \A l \in DOMAIN d : l > n => ~Released(d[l], i)
        BY <3>2
      <4>2. n # Len(d)
        BY <1>1, <2>2, <4>1
      <4>3. n \in DOMAIN c /\ c[n] = d[n] /\ Len(d) \in DOMAIN d /\ Len(d) > n
        BY <1>1, <4>2
      <4>4. ~Released(m, i)
        BY <1>1, <4>1, <4>3
      <4>5. \A l \in DOMAIN c : l > n => ~Released(c[l], i)
        BY <1>1, <4>1
      <4>6. i \in wire
        BY <1>2, <1>4, <4>1, <4>3, <4>5
      <4> QED BY <1>3, <1>2, <4>4, <4>6
    <3>3. Sent(d, i) \/ Kept(d, i)
      BY <1>2, <1>4
    <3> QED BY <3>1, <3>2, <3>3
  <2> QED BY <2>1, <2>2
<1>5. ASSUME NEW i, i \in HeldAfter(wire, m)
      PROVE  i \in HeldAfterAll(held, d)
  <2>1. CASE i \in HeldAfter({}, m)
    <3>1. Len(d) \in DOMAIN d /\ i \in HeldAfter({}, d[Len(d)])
      BY <1>1, <2>1
    <3>2. \A l \in DOMAIN d : ~(l > Len(d))
      BY <1>1
    <3> QED BY <1>2, <1>3, <1>5, <3>1, <3>2
  <2>2. CASE i \in wire /\ ~Released(m, i)
    <3>1. CASE Kept(c, i)
      <4>1. \A n \in DOMAIN d : ~Released(d[n], i)
        BY <1>6, <2>2, <3>1
      <4> QED BY <1>2, <2>2, <3>1, <4>1
    <3>2. CASE Sent(c, i)
      <4>1. PICK n \in DOMAIN c : /\ i \in HeldAfter({}, c[n])
                                 /\ \A l \in DOMAIN c : l > n => ~Released(c[l], i)
        BY <3>2
      <4>2. n \in DOMAIN d /\ i \in HeldAfter({}, d[n])
        BY <1>1, <4>1
      <4>3. \A l \in DOMAIN d : l > n => ~Released(d[l], i)
        BY <1>6, <2>2, <4>1
      <4> QED BY <1>2, <2>2, <4>2, <4>3
    <3>3. Sent(c, i) \/ Kept(c, i)
      BY <1>2, <2>2
    <3> QED BY <3>1, <3>2, <3>3
  <2> QED BY <1>3, <1>5, <2>1, <2>2
<1> QED BY <1>4, <1>5 DEF d, wire

LEMMA HeldAfterAllHead ==
  ASSUME NEW held, NEW c \in Seq(Seq(Operation)), c # <<>>
  PROVE  HeldAfterAll(HeldAfter(held, Head(c)), Tail(c)) = HeldAfterAll(held, c)
<1> DEFINE d == Tail(c)
           m == Head(c)
           before == HeldAfter(held, m)
<1>1. /\ d \in Seq(Seq(Operation)) /\ Len(d) = Len(c) - 1 /\ Len(c) \in Nat
      /\ DOMAIN c = 1 .. Len(c) /\ DOMAIN d = 1 .. Len(d)
      /\ \A n \in 1 .. Len(d) : d[n] = c[n + 1]
      /\ m = c[1] /\ Len(c) > 0
  BY HeadTailProperties, EmptySeq, LenProperties
<1> HIDE DEF d, m
<1> DEFINE Released(s, i) == \E n \in DOMAIN s : Releases(s[n], i)
           Sent(s, i) == \E n \in DOMAIN s : /\ i \in HeldAfter({}, s[n])
                                             /\ \A l \in DOMAIN s : l > n => ~Released(s[l], i)
           Kept(x, s, i) == i \in x /\ \A n \in DOMAIN s : ~Released(s[n], i)
<1>2. /\ \A i : i \in HeldAfterAll(held, c) <=> i \in Inputs /\ (Sent(c, i) \/ Kept(held, c, i))
      /\ \A i : i \in HeldAfterAll(before, d) <=> i \in Inputs /\ (Sent(d, i) \/ Kept(before, d, i))
  BY DEF HeldAfterAll
<1>3. \A i : i \in before <=> i \in Inputs /\ (i \in HeldAfter({}, m) \/ (i \in held /\ ~Released(m, i)))
  BY DEF HeldAfter
<1> HIDE DEF Released, before
<1>4. /\ 1 \in DOMAIN c /\ c[1] = m
      /\ \A l \in DOMAIN d : l + 1 \in DOMAIN c /\ c[l + 1] = d[l] /\ l + 1 > 1
      /\ \A l \in DOMAIN c : l = 1 \/ (l - 1 \in DOMAIN d /\ c[l] = d[l - 1] /\ l > 1)
      /\ DOMAIN c \subseteq Int /\ DOMAIN d \subseteq Int
  <2>1. /\ 1 \in DOMAIN c /\ c[1] = m
        /\ DOMAIN c \subseteq Int /\ DOMAIN d \subseteq Int
    BY <1>1
  <2>2. ASSUME NEW l \in DOMAIN d PROVE l + 1 \in DOMAIN c /\ c[l + 1] = d[l] /\ l + 1 > 1
    BY <1>1
  <2>3. ASSUME NEW l \in DOMAIN c, l # 1 PROVE l - 1 \in DOMAIN d /\ c[l] = d[l - 1] /\ l > 1
    <3>1. l \in Int /\ l > 1 /\ l <= Len(c) /\ Len(c) \in Int
      <4>1. l \in 1 .. Len(c)
        BY <1>1
      <4> QED BY <1>1, <2>3, <4>1
    <3>2. l - 1 \in 1 .. Len(d) /\ (l - 1) + 1 = l
      BY <1>1, <3>1
    <3> QED BY <1>1, <3>1, <3>2
  <2> QED BY <2>1, <2>2, <2>3
<1>5. ASSUME NEW i \in Inputs
      PROVE  Kept(held, c, i) <=> i \in held /\ ~Released(m, i) /\ \A n \in DOMAIN d : ~Released(d[n], i)
  <2>1. ASSUME \A n \in DOMAIN c : ~Released(c[n], i), NEW n \in DOMAIN d PROVE ~Released(d[n], i)
    BY <1>4, <2>1
  <2>2. ASSUME ~Released(m, i), \A n \in DOMAIN d : ~Released(d[n], i), NEW n \in DOMAIN c
        PROVE  ~Released(c[n], i)
    BY <1>4, <2>2
  <2>3. (\A n \in DOMAIN c : ~Released(c[n], i)) => ~Released(m, i)
    BY <1>4
  <2> QED BY <2>1, <2>2, <2>3
<1>6. ASSUME NEW i \in Inputs, Sent(d, i) PROVE Sent(c, i)
  <2>1. PICK n \in DOMAIN d : /\ i \in HeldAfter({}, d[n])
                             /\ \A l \in DOMAIN d : l > n => ~Released(d[l], i)
    BY <1>6
  <2>2. n + 1 \in DOMAIN c /\ i \in HeldAfter({}, c[n + 1])
    BY <1>4, <2>1
  <2>3. ASSUME NEW l \in DOMAIN c, l > n + 1 PROVE ~Released(c[l], i)
    <3>1. l - 1 \in DOMAIN d /\ c[l] = d[l - 1] /\ l - 1 > n
      BY <1>4, <2>3
    <3> QED BY <2>1, <3>1
  <2> QED BY <2>2, <2>3
<1>7. ASSUME NEW i \in Inputs, i \in HeldAfter({}, m), \A n \in DOMAIN d : ~Released(d[n], i)
      PROVE  Sent(c, i)
  <2>1. ASSUME NEW l \in DOMAIN c, l > 1 PROVE ~Released(c[l], i)
    BY <1>4, <1>7, <2>1
  <2> QED BY <1>4, <1>7, <2>1
<1>8. ASSUME NEW i \in Inputs, Sent(c, i)
      PROVE  Sent(d, i) \/ (i \in HeldAfter({}, m) /\ \A n \in DOMAIN d : ~Released(d[n], i))
  <2>1. PICK n \in DOMAIN c : /\ i \in HeldAfter({}, c[n])
                             /\ \A l \in DOMAIN c : l > n => ~Released(c[l], i)
    BY <1>8
  <2>2. CASE n = 1
    <3>1. ASSUME NEW l \in DOMAIN d PROVE ~Released(d[l], i)
      BY <1>4, <2>1, <2>2
    <3> QED BY <1>4, <2>1, <2>2, <3>1
  <2>3. CASE n # 1
    <3>1. n - 1 \in DOMAIN d /\ i \in HeldAfter({}, d[n - 1])
      BY <1>4, <2>1, <2>3
    <3>2. ASSUME NEW l \in DOMAIN d, l > n - 1 PROVE ~Released(d[l], i)
      <4>1. l + 1 \in DOMAIN c /\ c[l + 1] = d[l] /\ l + 1 > n
        BY <1>4, <3>2
      <4> QED BY <2>1, <4>1
    <3> QED BY <3>1, <3>2
  <2> QED BY <2>2, <2>3
<1>9. \A i \in Inputs : i \in HeldAfterAll(held, c) <=> i \in HeldAfterAll(before, d)
  <2> HIDE DEF Sent
  <2> QED BY <1>2, <1>3, <1>5, <1>6, <1>7, <1>8
<1>10. HeldAfterAll(held, c) \subseteq Inputs /\ HeldAfterAll(before, d) \subseteq Inputs
  BY <1>2
<1> QED BY <1>9, <1>10 DEF before, d, m
-----------------------------------------------------------------------------
(* The inductive invariant: what flush leaves behind depends on the retry  *)
(* being off while it runs, and what a release must undo depends on the    *)
(* database agreeing with the channel.                                     *)
IInv ==
  /\ TypeOK /\ Bounded /\ NothingStuck /\ NeverStalled /\ AcceptedOnly
  /\ flushing => ~retry_at

LEMMA InitIInv == Init => IInv
<1> SUFFICES ASSUME Init PROVE IInv
  OBVIOUS
<1>1. pending \in Seq(Operation) /\ channel \in Seq(Seq(Operation)) /\ Len(pending) = 0 /\ Len(channel) = 0
  BY DEF Init
<1>2. HeldAfter(database, pending) = {} /\ HeldAfterAll(remote, channel) = {}
  BY DEF Init, HeldAfter, HeldAfterAll
<1>3. LIMIT \in Nat /\ CAPACITY \in Nat
  BY QueueAssumption
<1>4. TypeOK /\ Bounded
  <2>1. /\ database \subseteq Inputs /\ remote \subseteq Inputs /\ down \subseteq Inputs
        /\ pointer \in Positions \cup {Nowhere} /\ aim \in Positions \cup {Nowhere}
        /\ retry_at \in BOOLEAN /\ flushing \in BOOLEAN /\ open \in BOOLEAN
    BY DEF Init
  <2> QED BY <1>1, <1>3, <2>1 DEF TypeOK, Bounded
<1>5. NothingStuck /\ NeverStalled /\ AcceptedOnly
  BY <1>2 DEF Init, NothingStuck, NeverStalled, AcceptedOnly
<1> QED BY <1>4, <1>5 DEF Init, IInv

LEMMA AimTypeOK ==
  ASSUME TypeOK
  PROVE  AimAfterDropping(pending) \in Positions \cup {Nowhere}
BY DEF TypeOK, AimAfterDropping

LEMMA SendIInv ==
  ASSUME IInv, NEW operations \in Seq(Operation), Len(operations) \in {1, 2}, Send(operations)
  PROVE  IInv'
<1>1. /\ pending' \in Seq(Operation) /\ Len(pending') <= LIMIT
      /\ HeldAfter(database, pending') \subseteq down'
  <2>1. HeldAfter(HeldAfter(database, pending), operations) \subseteq HeldAfter(down, operations)
    BY HeldAfterMonotone DEF IInv, NothingStuck
  <2> QED BY <2>1, OfferedAllProperties DEF IInv, TypeOK, Bounded, Send
<1>2. down' \subseteq Inputs
  BY DEF Send, HeldAfter
<1>3. aim' \in Positions \cup {Nowhere}
  <2>1. operations[1] \in Operation
    BY ElementOfSeq
  <2>2. IsMove(operations[1]) => operations[1].at \in Positions
    BY <2>1 DEF IsMove, Operation
  <2> QED BY <2>2, AimTypeOK DEF Send, IInv, TypeOK
<1>4. TypeOK'
  BY <1>1, <1>2, <1>3 DEF IInv, TypeOK, Send, StartFlush, remoteVars
<1> QED BY <1>1, <1>4 DEF IInv, Bounded, NothingStuck, NeverStalled, AcceptedOnly, Send, StartFlush, remoteVars

LEMMA InputsIInv ==
  ASSUME IInv, PressInput \/ ReleaseInput \/ TapKey \/ MovePointer \/ TurnWheel
  PROVE  IInv'
<1>1. ASSUME NEW o \in Operation, Send(<<o>>) PROVE IInv'
  BY <1>1, SendIInv, SingletonSeq
<1>2. ASSUME NEW o \in Operation, NEW p \in Operation, Send(<<o, p>>) PROVE IInv'
  <2>1. <<o, p>> \in Seq(Operation) /\ Len(<<o, p>>) = 2
    OBVIOUS
  <2> QED BY <1>2, <2>1, SendIInv
<1>3. aim \in Positions \cup {Nowhere} /\ ReleaseOnly \subseteq Inputs
  BY QueueAssumption DEF IInv, TypeOK, Inputs
<1>4. /\ \A i \in Inputs : Press(i, aim) \in Operation /\ Release(i) \in Operation
      /\ \A p \in Positions : Move(p) \in Operation
      /\ \A w \in Wheels : Wheel(w) \in Operation
  BY <1>3 DEF Operation, Press, Release, Move, Wheel
<1> QED BY <1>1, <1>2, <1>3, <1>4 DEF PressInput, ReleaseInput, TapKey, MovePointer, TurnWheel

LEMMA ReleasesIInv ==
  ASSUME IInv, ReleaseAll \/ ReleaseButtons
  PROVE  IInv'
<1>1. /\ QueuedReleases \in Seq(Operation) /\ Len(QueuedReleases) <= LIMIT
      /\ HeldAfter(database, QueuedReleases) = {}
  BY QueuedReleasesProperties DEF IInv, TypeOK
<1>2. /\ CaptureReleases \in Seq(Operation) /\ Len(CaptureReleases) <= LIMIT
      /\ HeldAfter(database, CaptureReleases) \subseteq HeldAfter(database, pending)
  BY CaptureProperties DEF IInv, TypeOK, Bounded
<1>3. /\ pending' \in Seq(Operation) /\ Len(pending') <= LIMIT
      /\ HeldAfter(database, pending') \subseteq down
  BY <1>1, <1>2 DEF ReleaseAll, ReleaseButtons, IInv, NothingStuck
<1>4. TypeOK'
  BY <1>3, AimTypeOK DEF IInv, TypeOK, ReleaseAll, ReleaseButtons, StartFlush, remoteVars
<1> QED BY <1>3, <1>4
        DEF IInv, Bounded, NothingStuck, NeverStalled, AcceptedOnly, ReleaseAll, ReleaseButtons, StartFlush, remoteVars

LEMMA DiscardIInv ==
  ASSUME IInv, DiscardAll, Target = "Direct" => ~open, flushing
  PROVE  IInv'
<1>1. pending' \in Seq(Operation) /\ Len(pending') = 0 /\ HeldAfter(database', pending') = {}
  BY DEF DiscardAll, HeldAfter
<1>2. TypeOK'
  BY <1>1, AimTypeOK DEF IInv, TypeOK, DiscardAll, remoteVars
<1> QED BY <1>1, <1>2, QueueAssumption
        DEF IInv, Bounded, NothingStuck, NeverStalled, AcceptedOnly, DiscardAll, remoteVars

LEMMA DeliverIInv ==
  ASSUME IInv, flushing, Room, NEW count \in 1 .. Len(pending), NEW held, Deliver(count, held),
         Target = "Direct" => held = database
  PROVE  IInv'
<1> DEFINE batch == SubSeq(pending, 1, count)
<1>1. /\ pending \in Seq(Operation) /\ Len(pending) \in Nat /\ channel \in Seq(Seq(Operation))
      /\ Len(channel) \in Nat
  BY LenProperties DEF IInv, TypeOK
<1>2. /\ batch \in Seq(Operation) /\ pending' \in Seq(Operation) /\ Len(pending') < Len(pending)
      /\ HeldAfter(HeldAfter(database, batch), pending') = HeldAfter(database, pending)
  BY <1>1, DeliverProperties DEF Deliver
<1>3. /\ database' = HeldAfter(database, batch)
      /\ channel' = IF HasEvents(held, batch) THEN Append(channel, batch) ELSE channel
      /\ UNCHANGED <<retry_at, flushing, open, remote, pointer, down, aim>>
  BY DEF Deliver
<1> HIDE DEF batch
<1>4. database' \subseteq Inputs
  BY <1>3 DEF HeldAfter
<1>5. channel' \in Seq(Seq(Operation)) /\ Len(channel') <= CAPACITY
  <2>1. Append(channel, batch) \in Seq(Seq(Operation)) /\ Len(Append(channel, batch)) = Len(channel) + 1
    BY <1>1, <1>2, AppendProperties
  <2> QED BY <1>1, <1>3, <2>1, QueueAssumption DEF Room, IInv, TypeOK
<1>6. AcceptedOnly'
  <2> SUFFICES ASSUME Target = "Direct" PROVE database' = HeldAfterAll(remote', channel')
    BY DEF AcceptedOnly
  <2>1. database = HeldAfterAll(remote, channel) /\ held = database /\ database \in SUBSET Inputs
    BY DEF IInv, AcceptedOnly, Room, TypeOK
  <2>2. CASE HasEvents(held, batch)
    BY <1>1, <1>2, <1>3, <2>1, <2>2, HeldAfterAllAppend
  <2>3. CASE ~HasEvents(held, batch)
    BY <1>3, <2>1, <2>3, NoEventsHold
  <2> QED BY <2>2, <2>3
<1>7. TypeOK'
  BY <1>2, <1>3, <1>4, <1>5 DEF IInv, TypeOK
<1>8. Len(pending') <= LIMIT
  BY <1>1, <1>2, QueueAssumption, LenProperties DEF IInv, Bounded
<1> QED BY <1>2, <1>3, <1>6, <1>7, <1>8 DEF IInv, Bounded, NothingStuck, NeverStalled

LEMMA FlushIInv ==
  ASSUME IInv, Flush
  PROVE  IInv'
<1>1. pending # <<>> => Len(pending) \in Nat \ {0}
  BY LenProperties, EmptySeq DEF IInv, TypeOK
<1>2. CASE FlushDone
  BY <1>2 DEF FlushDone, IInv, TypeOK, Bounded, NothingStuck, NeverStalled, AcceptedOnly, remoteVars
<1>3. CASE FlushFull
  BY <1>3 DEF FlushFull, IInv, TypeOK, Bounded, NothingStuck, NeverStalled, AcceptedOnly, remoteVars
<1>4. CASE FlushClosed
  BY <1>4, DiscardIInv DEF FlushClosed
<1>5. CASE FlushRefused
  BY <1>5, DiscardIInv DEF FlushRefused
<1>6. CASE FlushBatch
  <2>1. Batch \in 1 .. Len(pending)
    BY <1>1, <1>6, QueueAssumption DEF Batch, FlushBatch
  <2> QED BY <1>6, <2>1, DeliverIInv DEF FlushBatch
<1>7. CASE FlushOperation
  <2>1. 1 \in 1 .. Len(pending)
    BY <1>1, <1>7 DEF FlushOperation
  <2> QED BY <1>7, <2>1, DeliverIInv DEF FlushOperation
<1> QED BY <1>2, <1>3, <1>4, <1>5, <1>6, <1>7 DEF Flush

(* A nonempty set of indices has a last one.                               *)
LEMMA LastIndex ==
  ASSUME NEW S, NEW q \in Seq(S), NEW K \in SUBSET DOMAIN q, K # {}
  PROVE  Max(K) \in K /\ \A y \in K : Max(K) >= y
<1> DEFINE r == Retained(q, K)
<1>1. /\ r \in Seq(S) /\ DOMAIN r = 1 .. Len(r) /\ Len(r) \in Nat
      /\ \A n \in DOMAIN r : Nth(K, n) \in K
      /\ \A m, n \in DOMAIN r : m < n => Nth(K, m) < Nth(K, n)
      /\ \A i \in K : \E n \in DOMAIN r : Nth(K, n) = i
  BY RetainedProperties, LenProperties
<1> HIDE DEF r
<1>2. K \subseteq Int
  BY LenProperties
<1> DEFINE last == Nth(K, Len(r))
<1>3. Len(r) \in DOMAIN r /\ last \in K
  BY <1>1
<1>4. ASSUME NEW y \in K PROVE last >= y
  <2>1. PICK n \in DOMAIN r : Nth(K, n) = y
    BY <1>1
  <2>2. n = Len(r) \/ n < Len(r)
    BY <1>1
  <2>3. n < Len(r) => y < last
    BY <1>1, <1>3, <2>1
  <2> QED BY <1>2, <1>3, <2>1, <2>2, <2>3
<1> QED BY <1>3, <1>4 DEF Max

(* The pointer is where the last motion took it, or where it was before.   *)
LastMove(q, n, k) ==
  /\ k \in DOMAIN q /\ k < n /\ IsMove(q[k])
  /\ \A m \in DOMAIN q : k < m /\ m < n => ~IsMove(q[m])
Still(q, n) == \A m \in DOMAIN q : m < n => ~IsMove(q[m])

LEMMA PointerBeforeCases ==
  ASSUME NEW S, NEW q \in Seq(S), NEW n \in Int, NEW from
  PROVE  /\ Still(q, n) => PointerBefore(from, q, n) = from
         /\ \A k : LastMove(q, n, k) => PointerBefore(from, q, n) = q[k].at
         /\ Still(q, n) \/ \E k \in DOMAIN q : LastMove(q, n, k)
<1> DEFINE moves == {m \in DOMAIN q : m < n /\ IsMove(q[m])}
<1>1. DOMAIN q \subseteq Int
  BY LenProperties
<1>2. Still(q, n) <=> moves = {}
  BY DEF Still
<1>3. ASSUME NEW k, LastMove(q, n, k) PROVE Max(moves) = k /\ moves # {}
  <2>1. k \in moves /\ \A m \in moves : k >= m
    BY <1>1, <1>3 DEF LastMove
  <2>2. \A m \in moves : (\A y \in moves : m >= y) => m = k
    BY <1>1, <2>1
  <2> QED BY <2>1, <2>2 DEF Max
<1>4. ASSUME moves # {} PROVE LastMove(q, n, Max(moves))
  <2>1. moves \in SUBSET DOMAIN q
    OBVIOUS
  <2>2. Max(moves) \in moves /\ \A y \in moves : Max(moves) >= y
    BY <1>4, <2>1, LastIndex
  <2> DEFINE last == Max(moves)
  <2>3. last \in DOMAIN q /\ last < n /\ IsMove(q[last]) /\ \A y \in moves : last >= y
    BY <2>2
  <2> HIDE DEF last
  <2>4. \A m \in DOMAIN q : last < m /\ m < n => ~IsMove(q[m])
    BY <1>1, <2>3
  <2> QED BY <2>3, <2>4 DEF LastMove, last
<1>5. CASE Still(q, n)
  <2>1. PointerBefore(from, q, n) = from
    BY <1>2, <1>5 DEF PointerBefore
  <2> QED BY <1>2, <1>3, <1>5, <2>1
<1>6. CASE ~Still(q, n)
  <2>1. PointerBefore(from, q, n) = q[Max(moves)].at
    BY <1>2, <1>6 DEF PointerBefore
  <2>2. LastMove(q, n, Max(moves))
    BY <1>2, <1>4, <1>6
  <2>3. \A k : LastMove(q, n, k) => k = Max(moves)
    BY <1>3
  <2> HIDE DEF moves
  <2> QED BY <1>6, <2>1, <2>2, <2>3 DEF LastMove
<1> QED BY <1>5, <1>6

LEMMA ReceiveIInv ==
  ASSUME IInv, Receive
  PROVE  IInv'
<1>1. /\ channel \in Seq(Seq(Operation)) /\ channel # <<>> /\ Len(channel) \in Nat
      /\ channel' = Tail(channel) /\ remote' = HeldAfter(remote, Head(channel))
  BY LenProperties DEF Receive, IInv, TypeOK
<1>2. HeldAfterAll(remote', channel') = HeldAfterAll(remote, channel)
  BY <1>1, HeldAfterAllHead
<1>3. /\ channel' \in Seq(Seq(Operation)) /\ Len(channel') <= CAPACITY
      /\ Head(channel) \in Seq(Operation)
  BY <1>1, HeadTailProperties, QueueAssumption DEF IInv, TypeOK
<1>4. remote' \subseteq Inputs
  BY <1>1 DEF HeldAfter
<1>5. pointer' \in Positions \cup {Nowhere}
  <2> DEFINE q == Head(channel)
             n == Len(q) + 1
  <2>1. q \in Seq(Operation) /\ n \in Int /\ pointer' = PointerBefore(pointer, q, n)
    BY <1>3, LenProperties DEF Receive, PointerAfter
  <2> HIDE DEF q, n
  <2>2. CASE Still(q, n)
    BY <2>1, <2>2, PointerBeforeCases DEF IInv, TypeOK
  <2>3. ASSUME NEW k \in DOMAIN q, LastMove(q, n, k) PROVE pointer' \in Positions
    <3>1. q[k] \in Operation /\ IsMove(q[k])
      BY <2>1, <2>3, ElementOfSeq, LenProperties DEF LastMove
    <3>2. q[k].at \in Positions
      BY <3>1 DEF Operation, IsMove
    <3> QED BY <2>1, <2>3, <3>2, PointerBeforeCases
  <2> QED BY <2>1, <2>2, <2>3, PointerBeforeCases
<1> QED BY <1>2, <1>3, <1>4, <1>5
        DEF Receive, IInv, TypeOK, Bounded, NothingStuck, NeverStalled, AcceptedOnly, queueVars

LEMMA OtherIInv ==
  ASSUME IInv, Retry \/ Close \/ UNCHANGED vars
  PROVE  IInv'
<1>1. CASE Retry
  BY <1>1 DEF Retry, StartFlush, IInv, TypeOK, Bounded, NothingStuck, NeverStalled, AcceptedOnly, remoteVars
<1>2. CASE Close
  <2>1. channel' \in Seq(Seq(Operation)) /\ Len(channel') = 0
    BY <1>2 DEF Close
  <2>2. CAPACITY \in Nat
    BY QueueAssumption
  <2>3. /\ open' \in BOOLEAN /\ remote' \subseteq Inputs /\ pointer' \in Positions \cup {Nowhere}
        /\ UNCHANGED <<database, pending, retry_at, flushing, down, aim>>
    BY <1>2 DEF Close, queueVars
  <2>4. TypeOK'
    BY <2>1, <2>2, <2>3 DEF IInv, TypeOK
  <2>5. (Bounded /\ NothingStuck /\ NeverStalled /\ AcceptedOnly)'
    BY <1>2 DEF Close, IInv, Bounded, NothingStuck, NeverStalled, AcceptedOnly, queueVars
  <2> QED BY <2>3, <2>4, <2>5 DEF IInv
<1>3. CASE UNCHANGED vars
  BY <1>3 DEF vars, IInv, TypeOK, Bounded, NothingStuck, NeverStalled, AcceptedOnly
<1> QED BY <1>1, <1>2, <1>3

LEMMA NextIInv == IInv /\ [Next]_vars => IInv'
BY InputsIInv, ReleasesIInv, FlushIInv, ReceiveIInv, OtherIInv DEF Next, Flush

(* The invariant holds in every reachable state.                           *)
THEOREM Invariance == Spec => []IInv
BY InitIInv, NextIInv, PTL DEF Spec

(* Every variable keeps its type, and the channel its capacity.            *)
THEOREM TypeCorrect == Spec => []TypeOK
<1>1. IInv => TypeOK
  BY DEF IInv
<1> QED BY <1>1, Invariance, PTL

(* A stalled connection does not grow the queue past LIMIT, whatever is    *)
(* typed: the releases that replace abandoned input fit as well.           *)
THEOREM QueueBounded == Spec => []Bounded
<1>1. IInv => Bounded
  BY DEF IInv
<1> QED BY <1>1, Invariance, PTL

(* What drains from the queue leaves nothing held that the user let go of. *)
THEOREM ReleasesSurvive == Spec => []NothingStuck
<1>1. IInv => NothingStuck
  BY DEF IInv
<1> QED BY <1>1, Invariance, PTL

(* Outside flush a retry is scheduled exactly while input is pending.      *)
THEOREM RetryScheduled == Spec => []NeverStalled
<1>1. IInv => NeverStalled
  BY DEF IInv
<1> QED BY <1>1, Invariance, PTL

(* The database tells what the accepted messages will hold down.           *)
THEOREM DatabaseRight == Spec => []AcceptedOnly
<1>1. IInv => AcceptedOnly
  BY DEF IInv
<1> QED BY <1>1, Invariance, PTL

(* End to end, for a direct connection: nothing the user let go of stays   *)
(* held on the remote desktop once the channel and the queue have arrived. *)
(* It is the database's agreement with the channel that carries a release  *)
(* computed on this side over to the other.                                *)
THEOREM NoReleaseLost ==
  ASSUME Target = "Direct"
  PROVE  Spec => []NoLostRelease
<1>1. IInv => NoLostRelease
  BY DEF IInv, AcceptedOnly, NothingStuck, NoLostRelease
<1> QED BY <1>1, Invariance, PTL

(* Whenever the pointer is taken, every button is let go of and no key is, *)
(* unless the queue overflowed and everything was.                         *)
THEOREM CaptureLetsGoAlways == Spec => CaptureLetsGo
<1>1. IInv /\ [Next]_vars =>
        [ReleaseButtons =>
           LET before == HeldAfter(database, pending)
               after == HeldAfter(database', pending')
           IN  after \cap Buttons = {} /\ (after = before \cap Keys \/ after = {})]_vars
  <2> SUFFICES ASSUME IInv, ReleaseButtons
               PROVE  /\ HeldAfter(database', pending') \cap Buttons = {}
                      /\ \/ HeldAfter(database', pending') = HeldAfter(database, pending) \cap Keys
                         \/ HeldAfter(database', pending') = {}
    OBVIOUS
  <2>1. database' = database /\ pending' = CaptureReleases
    BY DEF ReleaseButtons
  <2> QED BY <2>1, CaptureProperties DEF IInv, TypeOK, Bounded
<1> QED BY <1>1, Invariance, PTL DEF Spec, CaptureLetsGo
-----------------------------------------------------------------------------
(* Where clicks land: motion is a run of positions, of which the last one  *)
(* counts, and a channel is one run of what its messages amount to.        *)

LEMMA ConcatIndices ==
  ASSUME NEW S, NEW q \in Seq(S), NEW r \in Seq(S)
  PROVE  /\ q \o r \in Seq(S) /\ Len(q \o r) = Len(q) + Len(r) /\ Len(q) \in Nat /\ Len(r) \in Nat
         /\ DOMAIN q = 1 .. Len(q) /\ DOMAIN r = 1 .. Len(r) /\ DOMAIN (q \o r) = 1 .. Len(q) + Len(r)
         /\ \A n \in DOMAIN q : (q \o r)[n] = q[n]
         /\ \A n \in DOMAIN r : (q \o r)[Len(q) + n] = r[n]
         /\ \A n \in DOMAIN (q \o r) : n \in DOMAIN q \/ n - Len(q) \in DOMAIN r
BY ConcatProperties, LenProperties

(* Nothing after the n-th operation moves the pointer before it.           *)
LEMMA PointerConcatHead ==
  ASSUME NEW S, NEW q \in Seq(S), NEW r \in Seq(S), NEW from, NEW n \in 1 .. Len(q) + 1
  PROVE  PointerBefore(from, q \o r, n) = PointerBefore(from, q, n)
<1> DEFINE both == q \o r
<1>1. /\ both \in Seq(S) /\ Len(q) \in Nat /\ n \in Int
      /\ DOMAIN q = 1 .. Len(q) /\ DOMAIN both \subseteq Int /\ DOMAIN q \subseteq DOMAIN both
      /\ \A m \in DOMAIN q : both[m] = q[m]
      /\ \A m \in DOMAIN both : m < n => m \in DOMAIN q
  <2>1. \A m \in DOMAIN both : m < n => m \in DOMAIN q
    BY ConcatIndices
  <2> QED BY <2>1, ConcatIndices
<1> HIDE DEF both
<1>2. Still(q, n) => Still(both, n)
  BY <1>1 DEF Still
<1>3. \A k : LastMove(q, n, k) => LastMove(both, n, k) /\ both[k] = q[k]
  BY <1>1 DEF LastMove
<1>4. PointerBefore(from, both, n) = PointerBefore(from, q, n)
  BY <1>1, <1>2, <1>3, PointerBeforeCases
<1> QED BY <1>4 DEF both

LEMMA PointerConcatTail ==
  ASSUME NEW S, NEW q \in Seq(S), NEW r \in Seq(S), NEW from, NEW n \in 1 .. Len(r) + 1
  PROVE  PointerBefore(from, q \o r, Len(q) + n) = PointerBefore(PointerAfter(from, q), r, n)
<1> DEFINE both == q \o r
           size == Len(q)
           after == PointerAfter(from, q)
<1>1. /\ both \in Seq(S) /\ size \in Nat /\ n \in Int /\ n >= 1
      /\ DOMAIN q = 1 .. size /\ DOMAIN both \subseteq Int /\ DOMAIN r \subseteq Int
      /\ \A m \in DOMAIN q : both[m] = q[m] /\ m \in DOMAIN both
      /\ \A m \in DOMAIN r : both[size + m] = r[m] /\ size + m \in DOMAIN both /\ size + m > size
      /\ \A m \in DOMAIN both : m \in DOMAIN q \/ m - size \in DOMAIN r
  BY ConcatIndices
<1>2. after = PointerBefore(from, q, size + 1)
  BY DEF PointerAfter
<1> HIDE DEF both, size, after
<1>3. CASE Still(r, n)
  <2>1. PointerBefore(after, r, n) = after
    BY <1>1, <1>3, PointerBeforeCases
  <2>2. ASSUME NEW m \in DOMAIN both, m < size + n, m \notin DOMAIN q PROVE ~IsMove(both[m])
    <3>1. m - size \in DOMAIN r /\ m - size < n /\ size + (m - size) = m
      BY <1>1, <2>2
    <3>2. ~IsMove(r[m - size])
      BY <1>3, <3>1 DEF Still
    <3> QED BY <1>1, <3>1, <3>2
  <2>3. Still(q, size + 1) => Still(both, size + n)
    BY <1>1, <2>2 DEF Still
  <2>4. \A k : LastMove(q, size + 1, k) => LastMove(both, size + n, k) /\ both[k] = q[k]
    BY <1>1, <2>2 DEF LastMove
  <2>5. PointerBefore(from, both, size + n) = after
    <3>1. size + n \in Int /\ size + 1 \in Int
      BY <1>1
    <3>2. CASE Still(q, size + 1)
      BY <1>1, <1>2, <2>3, <3>1, <3>2, PointerBeforeCases
    <3>3. ASSUME NEW k, LastMove(q, size + 1, k) PROVE PointerBefore(from, both, size + n) = after
      <4>1. LastMove(both, size + n, k) /\ both[k] = q[k]
        BY <2>4, <3>3
      <4>2. PointerBefore(from, both, size + n) = both[k].at
        BY <1>1, <3>1, <4>1, PointerBeforeCases
      <4>3. after = q[k].at
        BY <1>2, <3>1, <3>3, PointerBeforeCases
      <4> QED BY <4>1, <4>2, <4>3
    <3> QED BY <3>1, <3>2, <3>3, PointerBeforeCases
  <2> QED BY <2>1, <2>5 DEF both, size, after
<1>4. ASSUME NEW k \in DOMAIN r, LastMove(r, n, k)
      PROVE  PointerBefore(from, both, size + n) = PointerBefore(after, r, n)
  <2>1. ASSUME NEW m \in DOMAIN both, size + k < m, m < size + n PROVE ~IsMove(both[m])
    <3>1. m - size \in DOMAIN r /\ k < m - size /\ m - size < n /\ size + (m - size) = m
      BY <1>1, <2>1
    <3>2. ~IsMove(r[m - size])
      BY <1>4, <3>1 DEF LastMove
    <3> QED BY <1>1, <3>1, <3>2
  <2>2. LastMove(both, size + n, size + k) /\ both[size + k] = r[k]
    BY <1>1, <1>4, <2>1 DEF LastMove
  <2>3. PointerBefore(after, r, n) = r[k].at
    BY <1>1, <1>4, PointerBeforeCases
  <2>4. size + n \in Int
    BY <1>1
  <2>5. PointerBefore(from, both, size + n) = both[size + k].at
    BY <1>1, <2>2, <2>4, PointerBeforeCases
  <2> QED BY <2>2, <2>3, <2>5
<1>5. Still(r, n) \/ \E k \in DOMAIN r : LastMove(r, n, k)
  BY <1>1, PointerBeforeCases
<1> QED BY <1>3, <1>4, <1>5 DEF both, size, after

LEMMA PointerConcat ==
  ASSUME NEW S, NEW q \in Seq(S), NEW r \in Seq(S), NEW from
  PROVE  PointerAfter(from, q \o r) = PointerAfter(PointerAfter(from, q), r)
<1>1. /\ Len(q \o r) + 1 = Len(q) + (Len(r) + 1)
      /\ Len(r) + 1 \in 1 .. Len(r) + 1
  BY ConcatIndices
<1> QED BY <1>1, PointerConcatTail DEF PointerAfter

LEMMA LandsConcat ==
  ASSUME NEW q \in Seq(Operation), NEW r \in Seq(Operation), NEW from
  PROVE  Lands(from, q \o r) <=> Lands(from, q) /\ Lands(PointerAfter(from, q), r)
<1> DEFINE both == q \o r
<1>1. /\ DOMAIN q = 1 .. Len(q) /\ DOMAIN r = 1 .. Len(r) /\ Len(q) \in Nat /\ Len(r) \in Nat
      /\ \A n \in DOMAIN q : both[n] = q[n] /\ n \in DOMAIN both
      /\ \A n \in DOMAIN r : both[Len(q) + n] = r[n] /\ Len(q) + n \in DOMAIN both
      /\ \A n \in DOMAIN both : n \in DOMAIN q \/ (n - Len(q) \in DOMAIN r /\ Len(q) + (n - Len(q)) = n)
  BY ConcatIndices
<1>2. \A n \in DOMAIN q : PointerBefore(from, both, n) = PointerBefore(from, q, n)
  <2> TAKE n \in DOMAIN q
  <2>1. n \in 1 .. Len(q) + 1
    BY <1>1
  <2> QED BY <2>1, PointerConcatHead
<1>3. \A n \in DOMAIN r :
        PointerBefore(from, both, Len(q) + n) = PointerBefore(PointerAfter(from, q), r, n)
  <2> TAKE n \in DOMAIN r
  <2>1. n \in 1 .. Len(r) + 1
    BY <1>1
  <2> QED BY <2>1, PointerConcatTail
<1> HIDE DEF both
<1>4. ASSUME Lands(from, both) PROVE Lands(from, q) /\ Lands(PointerAfter(from, q), r)
  <2>1. Lands(from, q)
    BY <1>1, <1>2, <1>4 DEF Lands
  <2>2. Lands(PointerAfter(from, q), r)
    BY <1>1, <1>3, <1>4 DEF Lands
  <2> QED BY <2>1, <2>2
<1>5. ASSUME Lands(from, q), Lands(PointerAfter(from, q), r) PROVE Lands(from, both)
  <2> SUFFICES ASSUME NEW n \in DOMAIN both, \E b \in Buttons : Presses(both[n], b), both[n].at # Nowhere
               PROVE  PointerBefore(from, both, n) = both[n].at
    BY DEF Lands
  <2>1. CASE n \in DOMAIN q
    BY <1>1, <1>2, <1>5, <2>1 DEF Lands
  <2>2. CASE n - Len(q) \in DOMAIN r /\ Len(q) + (n - Len(q)) = n
    <3> DEFINE m == n - Len(q)
    <3>1. m \in DOMAIN r /\ Len(q) + m = n
      BY <2>2
    <3> HIDE DEF m
    <3>2. both[n] = r[m] /\ PointerBefore(from, both, n) = PointerBefore(PointerAfter(from, q), r, m)
      BY <1>1, <1>3, <3>1
    <3> QED BY <1>5, <3>1, <3>2 DEF Lands
  <2> QED BY <1>1, <2>1, <2>2
<1> QED BY <1>4, <1>5 DEF both

(* Operations without motion and without a button press change nothing.    *)
Quiet(q) == \A n \in DOMAIN q : ~IsMove(q[n]) /\ \A b \in Buttons : ~Presses(q[n], b)

LEMMA QuietLands ==
  ASSUME NEW q \in Seq(Operation), Quiet(q), NEW from
  PROVE  Lands(from, q) /\ PointerAfter(from, q) = from
<1>1. Lands(from, q)
  BY DEF Lands, Quiet
<1>2. Still(q, Len(q) + 1) /\ Len(q) + 1 \in Int
  BY LenProperties DEF Still, Quiet
<1> QED BY <1>1, <1>2, PointerBeforeCases DEF PointerAfter

LEMMA MotionlessStays ==
  ASSUME NEW q \in Seq(Operation), ~HasMotion(q), NEW from
  PROVE  PointerAfter(from, q) = from
<1>1. Still(q, Len(q) + 1) /\ Len(q) + 1 \in Int
  BY LenProperties DEF Still, HasMotion
<1> QED BY <1>1, PointerBeforeCases DEF PointerAfter

(* A message, and a channel of them, as far as the pointer is concerned.   *)
Summary(message) ==
  IF HasMotion(message) THEN Move(PointerAfter(Nowhere, message)) ELSE [op |-> "still"]
Summaries(messages) == [n \in 1 .. Len(messages) |-> Summary(messages[n])]
SummarySet == {Summary(message) : message \in Seq(Operation)}

LEMMA SummaryMoves ==
  ASSUME NEW message \in Seq(Operation), NEW from
  PROVE  /\ IsMove(Summary(message)) <=> HasMotion(message)
         /\ HasMotion(message) => Summary(message).at = PointerAfter(from, message)
<1>1. IsMove(Summary(message)) <=> HasMotion(message)
  BY DEF Summary, IsMove, Move
<1>2. ASSUME HasMotion(message) PROVE PointerAfter(Nowhere, message) = PointerAfter(from, message)
  <2> DEFINE n == Len(message) + 1
  <2>1. n \in Int /\ \A m \in DOMAIN message : m < n
    BY LenProperties
  <2>2. ~Still(message, n)
    BY <1>2, <2>1 DEF HasMotion, Still
  <2> HIDE DEF n
  <2>3. PICK k \in DOMAIN message : LastMove(message, n, k)
    BY <2>1, <2>2, PointerBeforeCases
  <2>4. PointerBefore(Nowhere, message, n) = PointerBefore(from, message, n)
    BY <2>1, <2>3, PointerBeforeCases
  <2> QED BY <2>4 DEF PointerAfter, n
<1> QED BY <1>1, <1>2 DEF Summary, Move

LEMMA SummariesProperties ==
  ASSUME NEW c \in Seq(Seq(Operation))
  PROVE  /\ Summaries(c) \in Seq(SummarySet) /\ Len(Summaries(c)) = Len(c)
         /\ \A n \in DOMAIN c : c[n] \in Seq(Operation) /\ Summaries(c)[n] = Summary(c[n])
         /\ DOMAIN Summaries(c) = DOMAIN c /\ DOMAIN c = 1 .. Len(c) /\ Len(c) \in Nat
<1>1. Len(c) \in Nat /\ DOMAIN c = 1 .. Len(c) /\ \A n \in 1 .. Len(c) : c[n] \in Seq(Operation)
  BY LenProperties, ElementOfSeq
<1>2. Summaries(c) \in [1 .. Len(c) -> SummarySet]
  BY <1>1 DEF Summaries, SummarySet
<1>3. Summaries(c) \in Seq(SummarySet)
  <2> DEFINE size == Len(c)
  <2>1. size \in Nat /\ Summaries(c) \in [1 .. size -> SummarySet]
    BY <1>1, <1>2
  <2> HIDE DEF size
  <2> QED BY <2>1, SeqDef
<1>4. Len(Summaries(c)) = Len(c)
  BY <1>1, <1>2, <1>3, LenProperties
<1> QED BY <1>1, <1>3, <1>4 DEF Summaries

LEMMA AheadOfSummaries ==
  ASSUME NEW c \in Seq(Seq(Operation)), NEW from, NEW n \in Int
  PROVE  PointerAhead(from, c, n) = PointerBefore(from, Summaries(c), n)
<1> DEFINE s == Summaries(c)
           moving == {m \in DOMAIN c : m < n /\ HasMotion(c[m])}
           moves == {m \in DOMAIN s : m < n /\ IsMove(s[m])}
<1>1. DOMAIN s = DOMAIN c /\ \A m \in DOMAIN c : c[m] \in Seq(Operation) /\ s[m] = Summary(c[m])
  BY SummariesProperties
<1>2. moving = moves
  BY <1>1, SummaryMoves
<1>3. moving # {} => Max(moving) \in moving
  <2>1. moving \in SUBSET DOMAIN c
    OBVIOUS
  <2> QED BY <2>1, LastIndex
<1>4. ASSUME moving # {} PROVE s[Max(moving)].at = PointerAfter(from, c[Max(moving)])
  <2> DEFINE last == Max(moving)
  <2>1. last \in DOMAIN c /\ HasMotion(c[last])
    BY <1>3, <1>4
  <2> HIDE DEF last
  <2>2. s[last].at = PointerAfter(from, c[last])
    BY <1>1, <2>1, SummaryMoves
  <2> QED BY <2>2 DEF last
<1> QED BY <1>2, <1>4 DEF PointerAhead, PointerBefore

LEMMA PointerOfSummary ==
  ASSUME NEW message \in Seq(Operation), NEW from
  PROVE  PointerAfter(from, <<Summary(message)>>) = PointerAfter(from, message)
<1> DEFINE s == <<Summary(message)>>
<1>1. s \in Seq(SummarySet) /\ Len(s) = 1 /\ s[1] = Summary(message) /\ DOMAIN s = {1}
  BY SingletonSeq DEF SummarySet
<1>2. PointerAfter(from, s) = PointerBefore(from, s, 2)
  BY <1>1 DEF PointerAfter
<1> HIDE DEF s
<1>3. CASE HasMotion(message)
  <2>1. LastMove(s, 2, 1)
    BY <1>1, <1>3, SummaryMoves DEF LastMove
  <2>2. PointerBefore(from, s, 2) = s[1].at
    BY <1>1, <2>1, PointerBeforeCases
  <2> QED BY <1>1, <1>2, <1>3, <2>2, SummaryMoves DEF s
<1>4. CASE ~HasMotion(message)
  <2>1. Still(s, 2)
    BY <1>1, <1>4, SummaryMoves DEF Still
  <2>2. PointerBefore(from, s, 2) = from
    BY <1>1, <2>1, PointerBeforeCases
  <2> QED BY <1>2, <1>4, <2>2, MotionlessStays DEF s
<1> QED BY <1>3, <1>4

LEMMA PointerAheadAppend ==
  ASSUME NEW c \in Seq(Seq(Operation)), NEW message \in Seq(Operation), NEW from
  PROVE  /\ \A n \in 1 .. Len(c) + 1 : PointerAhead(from, Append(c, message), n) = PointerAhead(from, c, n)
         /\ PointerAhead(from, Append(c, message), Len(c) + 2)
              = PointerAfter(PointerAhead(from, c, Len(c) + 1), message)
<1> DEFINE d == Append(c, message)
           s == Summaries(c)
           last == <<Summary(message)>>
<1>1. d \in Seq(Seq(Operation)) /\ Len(d) = Len(c) + 1 /\ Len(c) \in Nat
  BY AppendProperties, LenProperties
<1>2. s \in Seq(SummarySet) /\ Len(s) = Len(c) /\ last \in Seq(SummarySet) /\ Len(last) = 1
  BY SummariesProperties, SingletonSeq DEF SummarySet
<1>3. Summaries(d) = s \o last
  <2>1. /\ Summaries(d) \in Seq(SummarySet) /\ Len(Summaries(d)) = Len(c) + 1
        /\ \A n \in 1 .. Len(c) + 1 : Summaries(d)[n] = Summary(d[n])
    BY <1>1, SummariesProperties
  <2>2. /\ s \o last \in Seq(SummarySet) /\ Len(s \o last) = Len(c) + 1
        /\ \A n \in 1 .. Len(c) : (s \o last)[n] = Summary(c[n])
        /\ (s \o last)[Len(c) + 1] = Summary(message)
    BY <1>1, <1>2, ConcatProperties, SummariesProperties
  <2>3. d[Len(c) + 1] = message /\ \A n \in 1 .. Len(c) : d[n] = c[n]
    BY <1>1, AppendProperties
  <2>4. \A n \in 1 .. Len(c) + 1 : n \in 1 .. Len(c) \/ n = Len(c) + 1
    BY <1>1
  <2>5. \A n \in 1 .. Len(Summaries(d)) : Summaries(d)[n] = (s \o last)[n]
    BY <2>1, <2>2, <2>3, <2>4
  <2>6. Len(Summaries(d)) = Len(s \o last)
    BY <2>1, <2>2
  <2> QED BY <2>1, <2>2, <2>5, <2>6, SeqEqual
<1> HIDE DEF d
<1>4. ASSUME NEW n \in 1 .. Len(c) + 1 PROVE PointerAhead(from, d, n) = PointerAhead(from, c, n)
  <2>1. n \in Int /\ n \in 1 .. Len(s) + 1
    BY <1>1, <1>2
  <2>2. PointerBefore(from, s \o last, n) = PointerBefore(from, s, n)
    <3> HIDE DEF s, last
    <3> QED BY <1>2, <2>1, PointerConcatHead
  <2> QED BY <1>1, <1>3, <2>1, <2>2, AheadOfSummaries
<1>5. PointerAhead(from, d, Len(c) + 2) = PointerAfter(PointerAhead(from, c, Len(c) + 1), message)
  <2> DEFINE before == PointerAhead(from, c, Len(c) + 1)
  <2>1. before = PointerAfter(from, s)
    BY <1>1, <1>2, AheadOfSummaries DEF PointerAfter
  <2>2. PointerAhead(from, d, Len(c) + 2) = PointerAfter(from, s \o last)
    <3>1. Len(s \o last) + 1 = Len(c) + 2 /\ Len(c) + 2 \in Int
      <4> HIDE DEF s, last
      <4>1. Len(s \o last) = Len(s) + Len(last)
        BY <1>2, ConcatIndices
      <4> QED BY <1>1, <1>2, <4>1
    <3> QED BY <1>1, <1>3, <3>1, AheadOfSummaries DEF PointerAfter
  <2>3. PointerAfter(from, s \o last) = PointerAfter(PointerAfter(from, s), last)
    <3> HIDE DEF s, last
    <3> QED BY <1>2, PointerConcat
  <2> HIDE DEF before, s
  <2>4. PointerAfter(before, last) = PointerAfter(before, message)
    BY PointerOfSummary
  <2> QED BY <2>1, <2>2, <2>3, <2>4 DEF before
<1> QED BY <1>4, <1>5 DEF d

LEMMA PointerAheadTail ==
  ASSUME NEW c \in Seq(Seq(Operation)), c # <<>>, NEW from, NEW n \in 1 .. Len(c)
  PROVE  PointerAhead(PointerAfter(from, Head(c)), Tail(c), n) = PointerAhead(from, c, n + 1)
<1> DEFINE d == Tail(c)
           s == Summaries(d)
           first == <<Summary(Head(c))>>
<1>1. /\ d \in Seq(Seq(Operation)) /\ Len(d) = Len(c) - 1 /\ Len(c) \in Nat /\ Len(c) > 0
      /\ Head(c) \in Seq(Operation) /\ Head(c) = c[1]
      /\ \A m \in 1 .. Len(d) : d[m] = c[m + 1]
  BY HeadTailProperties, LenProperties, EmptySeq
<1> HIDE DEF d
<1>2. s \in Seq(SummarySet) /\ Len(s) = Len(d) /\ first \in Seq(SummarySet) /\ Len(first) = 1
  BY <1>1, SummariesProperties, SingletonSeq DEF SummarySet
<1>3. Summaries(c) = first \o s
  <2>1. /\ Summaries(c) \in Seq(SummarySet) /\ Len(Summaries(c)) = Len(c)
        /\ \A m \in 1 .. Len(c) : Summaries(c)[m] = Summary(c[m])
    BY SummariesProperties
  <2>2. /\ first \o s \in Seq(SummarySet) /\ Len(first \o s) = Len(c)
        /\ (first \o s)[1] = Summary(c[1])
    BY <1>1, <1>2, ConcatProperties
  <2>3. ASSUME NEW m \in 2 .. Len(c) PROVE (first \o s)[m] = Summary(c[m])
    <3>1. m - 1 \in 1 .. Len(d) /\ m = 1 + (m - 1)
      BY <1>1, <2>3
    <3> DEFINE k == m - 1
    <3>2. k \in 1 .. Len(d) /\ m = 1 + k /\ m = k + 1
      BY <3>1
    <3> HIDE DEF k
    <3>3. (first \o s)[Len(first) + k] = s[k]
      <4> HIDE DEF first, s
      <4>1. k \in DOMAIN s
        BY <1>2, <3>2, LenProperties
      <4>2. first \in Seq(SummarySet) /\ s \in Seq(SummarySet)
        BY <1>2
      <4> QED BY <4>1, <4>2, ConcatIndices
    <3>4. s[k] = Summary(d[k]) /\ d[k] = c[m]
      BY <1>1, <3>2, SummariesProperties
    <3> QED BY <1>2, <3>2, <3>3, <3>4
  <2>4. \A m \in 1 .. Len(c) : m = 1 \/ m \in 2 .. Len(c)
    BY <1>1
  <2>5. \A m \in 1 .. Len(Summaries(c)) : Summaries(c)[m] = (first \o s)[m]
    BY <2>1, <2>2, <2>3, <2>4
  <2>6. Len(Summaries(c)) = Len(first \o s)
    BY <2>1, <2>2
  <2> QED BY <2>1, <2>2, <2>5, <2>6, SeqEqual
<1>4. n \in Int /\ n + 1 \in Int /\ n \in 1 .. Len(s) + 1 /\ Len(first) + n = n + 1
  BY <1>1, <1>2
<1>5. PointerAhead(from, c, n + 1) = PointerBefore(from, first \o s, Len(first) + n)
  BY <1>3, <1>4, AheadOfSummaries
<1>6. PointerBefore(from, first \o s, Len(first) + n) = PointerBefore(PointerAfter(from, first), s, n)
  <2> HIDE DEF first, s
  <2>1. first \in Seq(SummarySet) /\ s \in Seq(SummarySet) /\ n \in 1 .. Len(s) + 1
    BY <1>2, <1>4
  <2> QED BY <2>1, PointerConcatTail
<1>7. PointerAfter(from, first) = PointerAfter(from, Head(c))
  BY <1>1, PointerOfSummary
<1>8. PointerAhead(PointerAfter(from, Head(c)), d, n) = PointerBefore(PointerAfter(from, Head(c)), s, n)
  BY <1>1, <1>4, AheadOfSummaries
<1> QED BY <1>5, <1>6, <1>7, <1>8 DEF d

(* Beside ClicksLand: the next press will be noted where the pointer is    *)
(* going to be.                                                            *)
Reached == PointerAhead(pointer, channel, Len(channel) + 1)
Aimed(from, queue, at) == at # Nowhere => PointerAfter(from, queue) = at
ClicksInv == ClicksLand /\ (open => Aimed(Reached, pending, aim))

LEMMA ReleasesQuiet ==
  ASSUME NEW S \in SUBSET Inputs, IsFiniteSet(S)
  PROVE  Quiet(ReleasesOf(S))
BY ReleasesOfProperties DEF Quiet, IsMove, Presses, Release

LEMMA QuietConcat ==
  ASSUME NEW q \in Seq(Operation), Quiet(q), NEW r \in Seq(Operation), Quiet(r)
  PROVE  Quiet(q \o r)
<1> DEFINE both == q \o r
<1>1. /\ \A n \in DOMAIN q : both[n] = q[n]
      /\ \A n \in DOMAIN r : both[Len(q) + n] = r[n]
      /\ \A n \in DOMAIN both : n \in DOMAIN q \/ (n - Len(q) \in DOMAIN r /\ Len(q) + (n - Len(q)) = n)
  BY ConcatIndices
<1> HIDE DEF both
<1>2. ASSUME NEW n \in DOMAIN both
      PROVE  (\E m \in DOMAIN q : both[n] = q[m]) \/ \E m \in DOMAIN r : both[n] = r[m]
  <2> DEFINE m == n - Len(q)
  <2>1. n \in DOMAIN q \/ (m \in DOMAIN r /\ Len(q) + m = n)
    BY <1>1
  <2> HIDE DEF m
  <2> QED BY <1>1, <2>1
<1>3. Quiet(both)
  BY <1>2 DEF Quiet
<1> QED BY <1>3 DEF both

LEMMA QueuedReleasesQuiet ==
  ASSUME database \subseteq Inputs
  PROVE  Quiet(QueuedReleases)
<1>1. /\ database \cap Keys \in SUBSET Inputs /\ IsFiniteSet(database \cap Keys)
      /\ database \cap Buttons \in SUBSET Inputs /\ IsFiniteSet(database \cap Buttons)
  BY InputsFinite
<1>2. /\ ReleasesOf(database \cap Keys) \in Seq(Operation) /\ Quiet(ReleasesOf(database \cap Keys))
      /\ ReleasesOf(database \cap Buttons) \in Seq(Operation) /\ Quiet(ReleasesOf(database \cap Buttons))
  BY <1>1, ReleasesOfProperties, ReleasesQuiet
<1> QED BY <1>2, QuietConcat DEF QueuedReleases

LEMMA CaptureQuiet ==
  ASSUME database \subseteq Inputs, pending \in Seq(Operation)
  PROVE  Quiet(CaptureReleases)
<1> DEFINE K == {n \in DOMAIN pending : KeptByCapture(pending[n])}
           kept == Retained(pending, K)
           queued == {b \in Buttons : \E n \in DOMAIN kept : Releases(kept[n], b)}
           S == (database \cap Buttons) \ queued
           releases == ReleasesOf(S)
<1>1. CaptureReleases = IF Len(kept) + Len(releases) > LIMIT THEN QueuedReleases ELSE kept \o releases
  BY DEF CaptureReleases
<1>2. kept \in Seq(Operation) /\ Quiet(kept)
  <2>1. K \in SUBSET DOMAIN pending
    OBVIOUS
  <2>2. kept \in Seq(Operation) /\ \A n \in DOMAIN kept : KeptByCapture(kept[n])
    BY <2>1, RetainedProperties
  <2> HIDE DEF kept
  <2> QED BY <2>2 DEF Quiet, KeptByCapture, IsMove
<1>3. S \in SUBSET Inputs /\ IsFiniteSet(S)
  <2>1. S \in SUBSET (database \cap Buttons) /\ IsFiniteSet(database \cap Buttons)
    BY InputsFinite
  <2> QED BY <2>1, FS_Subset
<1>4. releases \in Seq(Operation) /\ Quiet(releases)
  BY <1>3, ReleasesOfProperties, ReleasesQuiet
<1>5. Quiet(kept \o releases)
  <2> HIDE DEF kept, releases
  <2> QED BY <1>2, <1>4, QuietConcat
<1> QED BY <1>1, <1>5, QueuedReleasesQuiet

(* Motion that replaces motion moves no click queued before it.            *)
LEMMA CoalescedLands ==
  ASSUME NEW queue \in Seq(Operation), NEW operation \in Operation, Coalesces(queue, operation),
         NEW from, Lands(from, queue)
  PROVE  /\ Lands(from, [queue EXCEPT ![Len(queue)] = operation])
         /\ PointerAfter(from, [queue EXCEPT ![Len(queue)] = operation]) = operation.at
<1> DEFINE moved == [queue EXCEPT ![Len(queue)] = operation]
           size == Len(queue)
<1>1. /\ moved \in Seq(Operation) /\ Len(moved) = size /\ DOMAIN moved = DOMAIN queue
      /\ size \in Nat /\ DOMAIN queue = 1 .. size /\ size \in DOMAIN queue
      /\ \A j \in DOMAIN queue : moved[j] = IF j = size THEN operation ELSE queue[j]
  BY ExceptSeq, LenProperties DEF Coalesces
<1>2. IsMove(operation) /\ Len(moved) = size
  BY <1>1 DEF Coalesces
<1> HIDE DEF moved, size
<1>3. PointerAfter(from, moved) = operation.at
  <2>1. LastMove(moved, size + 1, size) /\ size + 1 \in Int
    BY <1>1, <1>2 DEF LastMove
  <2>2. PointerBefore(from, moved, size + 1) = moved[size].at
    BY <1>1, <2>1, PointerBeforeCases
  <2> QED BY <1>1, <1>2, <2>2 DEF PointerAfter
<1>4. ASSUME NEW n \in DOMAIN queue PROVE PointerBefore(from, moved, n) = PointerBefore(from, queue, n)
  <2>1. n \in Int /\ \A m \in DOMAIN queue : m < n => moved[m] = queue[m]
    BY <1>1
  <2>2. Still(queue, n) => Still(moved, n)
    BY <1>1, <2>1 DEF Still
  <2>3. \A k : LastMove(queue, n, k) => LastMove(moved, n, k) /\ moved[k] = queue[k]
    BY <1>1, <2>1 DEF LastMove
  <2>4. PointerBefore(from, queue, n) = PointerBefore(from, moved, n)
    <3>1. CASE Still(queue, n)
      BY <1>1, <2>1, <2>2, <3>1, PointerBeforeCases
    <3>2. ASSUME NEW k, LastMove(queue, n, k) PROVE PointerBefore(from, queue, n) = PointerBefore(from, moved, n)
      <4>1. LastMove(moved, n, k) /\ moved[k] = queue[k]
        BY <2>3, <3>2
      <4>2. PointerBefore(from, moved, n) = moved[k].at
        BY <1>1, <2>1, <4>1, PointerBeforeCases
      <4>3. PointerBefore(from, queue, n) = queue[k].at
        BY <2>1, <3>2, PointerBeforeCases
      <4> QED BY <4>1, <4>2, <4>3
    <3> QED BY <2>1, <3>1, <3>2, PointerBeforeCases
  <2> QED BY <2>4
<1>5. Lands(from, moved)
  <2> SUFFICES ASSUME NEW n \in DOMAIN moved, \E b \in Buttons : Presses(moved[n], b), moved[n].at # Nowhere
               PROVE  PointerBefore(from, moved, n) = moved[n].at
    BY DEF Lands
  <2>1. n # size
    BY <1>1, <1>2 DEF Presses, IsMove
  <2>2. n \in DOMAIN queue /\ moved[n] = queue[n]
    BY <1>1, <2>1
  <2> QED BY <1>4, <2>2 DEF Lands
<1> QED BY <1>3, <1>5 DEF moved, size

LEMMA OfferedLands ==
  ASSUME database \subseteq Inputs,
         NEW queue \in Seq(Operation), NEW operation \in Operation, NEW from, NEW at,
         Lands(from, queue), Aimed(from, queue, at), operation.op = "press" => operation.at = at
  PROVE  /\ Lands(from, Offered(queue, operation))
         /\ Saturates(queue, operation) => Quiet(Offered(queue, operation))
         /\ ~Saturates(queue, operation) =>
              Aimed(from, Offered(queue, operation), IF IsMove(operation) THEN operation.at ELSE at)
<1>1. CASE Coalesces(queue, operation)
  BY <1>1, CoalescedLands DEF Offered, Saturates, Coalesces, Aimed
<1>2. CASE Saturates(queue, operation)
  <2>1. Offered(queue, operation) = QueuedReleases
    BY <1>2 DEF Offered, Saturates
  <2>2. QueuedReleases \in Seq(Operation) /\ Quiet(QueuedReleases)
    BY QueuedReleasesProperties, QueuedReleasesQuiet
  <2> QED BY <1>2, <2>1, <2>2, QuietLands
<1>3. CASE ~Coalesces(queue, operation) /\ ~Saturates(queue, operation)
  <2> DEFINE single == <<operation>>
             to == IF IsMove(operation) THEN operation.at ELSE at
             after == PointerAfter(from, queue)
  <2>1. /\ Offered(queue, operation) = queue \o single
        /\ single \in Seq(Operation) /\ Len(single) = 1 /\ single[1] = operation /\ DOMAIN single = {1}
    BY <1>3, AppendIsConcat, SingletonSeq DEF Offered
  <2> HIDE DEF single
  <2>2. PointerBefore(after, single, 1) = after
    <3>1. Still(single, 1)
      BY <2>1 DEF Still
    <3> QED BY <2>1, <3>1, PointerBeforeCases
  <2>3. Lands(after, single)
    <3> SUFFICES ASSUME \E b \in Buttons : Presses(operation, b), operation.at # Nowhere
                 PROVE  after = operation.at
      BY <2>1, <2>2 DEF Lands
    <3> QED BY DEF Presses, Aimed
  <2>4. PointerAfter(after, single) = IF IsMove(operation) THEN operation.at ELSE after
    <3>1. PointerAfter(after, single) = PointerBefore(after, single, 2)
      BY <2>1 DEF PointerAfter
    <3>2. CASE IsMove(operation)
      <4>1. LastMove(single, 2, 1)
        BY <2>1, <3>2 DEF LastMove
      <4> QED BY <2>1, <3>1, <3>2, <4>1, PointerBeforeCases
    <3>3. CASE ~IsMove(operation)
      <4>1. Still(single, 2)
        BY <2>1, <3>3 DEF Still
      <4> QED BY <2>1, <3>1, <3>3, <4>1, PointerBeforeCases
    <3> QED BY <3>2, <3>3
  <2>5. Lands(from, queue \o single)
    BY <2>1, <2>3, LandsConcat
  <2>6. PointerAfter(from, queue \o single) = PointerAfter(after, single)
    BY <2>1, PointerConcat
  <2> QED BY <1>3, <2>1, <2>4, <2>5, <2>6 DEF Aimed
<1> QED BY <1>1, <1>2, <1>3

(* What one window event sends presses where the user points, and any      *)
(* motion in it is its only operation.                                     *)
Pointed(operations) ==
  /\ operations[1].op = "press" => operations[1].at = aim
  /\ Len(operations) = 2 =>
       /\ ~IsMove(operations[1]) /\ ~IsMove(operations[2])
       /\ operations[2].op # "press"

LEMMA OfferedAllLands ==
  ASSUME TypeOK, Bounded, NEW operations \in Seq(Operation), Len(operations) \in {1, 2}, Pointed(operations),
         Send(operations), NEW from, Lands(from, pending), Aimed(from, pending, aim)
  PROVE  Lands(from, pending') /\ Aimed(from, pending', aim')
<1> DEFINE one == operations[1]
           first == Offered(pending, one)
<1>1. /\ one \in Operation /\ pending \in Seq(Operation) /\ database \subseteq Inputs
      /\ Len(operations) = 2 => operations[2] \in Operation
  BY LenProperties, ElementOfSeq DEF TypeOK
<1>2. /\ first \in Seq(Operation)
      /\ Lands(from, first)
      /\ Saturates(pending, one) => Quiet(first)
      /\ ~Saturates(pending, one) => Aimed(from, first, IF IsMove(one) THEN one.at ELSE aim)
  BY <1>1, OfferedLands, OfferedProperties DEF Pointed, Bounded
<1>3. ASSUME NEW q \in Seq(Operation), Quiet(q) PROVE Aimed(from, q, AimAfterDropping(pending))
  <2>1. PointerAfter(from, q) = from
    BY <1>3, QuietLands
  <2>2. ~HasMotion(pending) => PointerAfter(from, pending) = from
    BY <1>1, MotionlessStays
  <2> QED BY <2>1, <2>2 DEF Aimed, AimAfterDropping
<1>4. CASE Saturates(pending, one)
  <2>1. pending' = first /\ aim' = AimAfterDropping(pending)
    BY <1>4 DEF Send, OfferedAll, SaturatesOn
  <2> QED BY <1>2, <1>3, <1>4, <2>1
<1>5. CASE ~Saturates(pending, one) /\ Len(operations) = 1
  <2>1. pending' = first /\ aim' = IF IsMove(one) THEN one.at ELSE aim
    BY <1>5 DEF Send, OfferedAll, SaturatesOn
  <2> QED BY <1>2, <1>5, <2>1
<1>6. CASE ~Saturates(pending, one) /\ Len(operations) = 2
  <2> DEFINE two == operations[2]
             second == Offered(first, two)
  <2>1. two \in Operation /\ two.op # "press" /\ ~IsMove(one) /\ ~IsMove(two)
    BY <1>1, <1>6 DEF Pointed
  <2>2. Aimed(from, first, aim) /\ Len(first) <= LIMIT
    BY <1>1, <1>2, <1>6, <2>1, OfferedProperties DEF Bounded
  <2>3. /\ second \in Seq(Operation)
        /\ Lands(from, second)
        /\ Saturates(first, two) => Quiet(second)
        /\ ~Saturates(first, two) => Aimed(from, second, aim)
    <3> HIDE DEF first, two
    <3> QED BY <1>1, <1>2, <2>1, <2>2, OfferedLands, OfferedProperties
  <2>4. /\ pending' = second
        /\ aim' = IF Saturates(first, two) THEN AimAfterDropping(pending) ELSE aim
    BY <1>6, <2>1 DEF Send, OfferedAll, SaturatesOn
  <2> QED BY <1>3, <2>3, <2>4
<1> QED BY <1>4, <1>5, <1>6

LEMMA SendClicks ==
  ASSUME IInv, ClicksInv, NEW operations \in Seq(Operation), Len(operations) \in {1, 2},
         Pointed(operations), Send(operations)
  PROVE  ClicksInv'
<1>1. UNCHANGED <<channel, open, pointer>>
  BY DEF Send, remoteVars
<1>2. open => Lands(Reached, pending') /\ Aimed(Reached, pending', aim')
  BY OfferedAllLands DEF IInv, ClicksInv, ClicksLand, Reached
<1> QED BY <1>1, <1>2 DEF ClicksInv, ClicksLand, Reached

LEMMA InputsClicks ==
  ASSUME IInv, ClicksInv, PressInput \/ ReleaseInput \/ TapKey \/ MovePointer \/ TurnWheel
  PROVE  ClicksInv'
<1>1. ASSUME NEW o \in Operation, o.op = "press" => o.at = aim, Send(<<o>>) PROVE ClicksInv'
  <2>1. <<o>> \in Seq(Operation) /\ Len(<<o>>) = 1 /\ <<o>>[1] = o
    BY SingletonSeq
  <2>2. Pointed(<<o>>)
    BY <1>1, <2>1 DEF Pointed
  <2> QED BY <1>1, <2>1, <2>2, SendClicks
<1>2. ASSUME NEW o \in Operation, NEW p \in Operation, Send(<<o, p>>),
             o.op = "press" => o.at = aim, ~IsMove(o), ~IsMove(p), p.op # "press"
      PROVE  ClicksInv'
  <2>1. <<o, p>> \in Seq(Operation) /\ Len(<<o, p>>) = 2 /\ <<o, p>>[1] = o /\ <<o, p>>[2] = p
    OBVIOUS
  <2>2. Pointed(<<o, p>>)
    BY <1>2, <2>1 DEF Pointed
  <2> QED BY <1>2, <2>1, <2>2, SendClicks
<1>3. aim \in Positions \cup {Nowhere} /\ ReleaseOnly \subseteq Inputs
  BY QueueAssumption DEF IInv, TypeOK, Inputs
<1>4. /\ \A i \in Inputs : Press(i, aim) \in Operation /\ Release(i) \in Operation
      /\ \A p \in Positions : Move(p) \in Operation
      /\ \A w \in Wheels : Wheel(w) \in Operation
  BY <1>3 DEF Operation, Press, Release, Move, Wheel
<1>5. /\ \A i \in Inputs : Press(i, aim).op = "press" /\ Press(i, aim).at = aim /\ Release(i).op = "release"
      /\ \A p \in Positions : Move(p).op = "move"
      /\ \A w \in Wheels : Wheel(w).op = "wheel"
  BY DEF Press, Release, Move, Wheel
<1>6. /\ \A i \in Inputs : ~IsMove(Press(i, aim)) /\ ~IsMove(Release(i))
      /\ \A w \in Wheels : ~IsMove(Wheel(w))
  BY <1>5 DEF IsMove
<1>7. CASE PressInput
  BY <1>1, <1>4, <1>5, <1>7 DEF PressInput
<1>8. CASE ReleaseInput
  BY <1>1, <1>4, <1>5, <1>8 DEF ReleaseInput
<1>9. CASE TapKey
  <2>1. PICK k \in ReleaseOnly : Send(<<Press(k, aim), Release(k)>>)
    BY <1>9 DEF TapKey
  <2>2. /\ Press(k, aim) \in Operation /\ Release(k) \in Operation /\ Press(k, aim).at = aim
        /\ ~IsMove(Press(k, aim)) /\ ~IsMove(Release(k)) /\ Release(k).op # "press"
    BY <1>3, <1>4, <1>5, <1>6
  <2> QED BY <1>2, <2>1, <2>2
<1>10. CASE MovePointer
  BY <1>1, <1>4, <1>5, <1>10 DEF MovePointer
<1>11. CASE TurnWheel
  <2>1. ASSUME NEW v \in Wheels, NEW w \in Wheels, Send(<<Wheel(v), Wheel(w)>>) PROVE ClicksInv'
    <3>1. /\ Wheel(v) \in Operation /\ Wheel(w) \in Operation /\ ~IsMove(Wheel(v)) /\ ~IsMove(Wheel(w))
          /\ Wheel(v).op # "press" /\ Wheel(w).op # "press"
      BY <1>4, <1>5, <1>6
    <3> QED BY <1>2, <2>1, <3>1
  <2>2. ASSUME NEW w \in Wheels, Send(<<Wheel(w)>>) PROVE ClicksInv'
    BY <1>1, <1>4, <1>5, <2>2
  <2> QED BY <1>11, <2>1, <2>2 DEF TurnWheel
<1> QED BY <1>7, <1>8, <1>9, <1>10, <1>11

(* Input that is abandoned leaves nothing pending that moves or clicks.    *)
LEMMA AbandonedClicks ==
  ASSUME IInv, ClicksInv, pending' \in Seq(Operation), Quiet(pending'),
         aim' = AimAfterDropping(pending), UNCHANGED <<channel, open, pointer>>
  PROVE  ClicksInv'
<1>1. Lands(Reached, pending') /\ PointerAfter(Reached, pending') = Reached
  BY QuietLands
<1>2. ~HasMotion(pending) => PointerAfter(Reached, pending) = Reached
  BY MotionlessStays DEF IInv, TypeOK
<1>3. open => Aimed(Reached, pending', aim')
  BY <1>1, <1>2 DEF ClicksInv, Aimed, AimAfterDropping
<1> QED BY <1>1, <1>3 DEF ClicksInv, ClicksLand, Reached

LEMMA ReleasesClicks ==
  ASSUME IInv, ClicksInv, ReleaseAll \/ ReleaseButtons
  PROVE  ClicksInv'
<1>1. /\ QueuedReleases \in Seq(Operation) /\ Quiet(QueuedReleases)
      /\ CaptureReleases \in Seq(Operation) /\ Quiet(CaptureReleases)
  BY QueuedReleasesProperties, CaptureProperties, QueuedReleasesQuiet, CaptureQuiet DEF IInv, TypeOK, Bounded
<1> QED BY <1>1, AbandonedClicks DEF ReleaseAll, ReleaseButtons, remoteVars

LEMMA DiscardClicks ==
  ASSUME IInv, ClicksInv, DiscardAll
  PROVE  ClicksInv'
<1>1. pending' \in Seq(Operation) /\ Quiet(pending')
  BY DEF DiscardAll, Quiet
<1> QED BY <1>1, AbandonedClicks DEF DiscardAll, remoteVars

(* Motion is an event for every database: a message without events has no  *)
(* bearing on the pointer.                                                 *)
LEMMA DeliverClicks ==
  ASSUME IInv, ClicksInv, NEW count \in 1 .. Len(pending), NEW held, Deliver(count, held)
  PROVE  ClicksInv'
<1> DEFINE batch == SubSeq(pending, 1, count)
           rest == SubSeq(pending, count + 1, Len(pending))
<1>1. /\ batch \in Seq(Operation) /\ rest \in Seq(Operation) /\ batch \o rest = pending
      /\ channel \in Seq(Seq(Operation)) /\ Len(channel) \in Nat
  BY DeliverProperties, LenProperties DEF IInv, TypeOK
<1>2. /\ pending' = rest /\ UNCHANGED <<open, pointer, aim>>
      /\ channel' = IF HasEvents(held, batch) THEN Append(channel, batch) ELSE channel
  BY DEF Deliver
<1> HIDE DEF batch, rest
<1> SUFFICES ASSUME open PROVE ClicksInv'
  BY <1>2 DEF ClicksInv, ClicksLand
<1>3. /\ Lands(Reached, batch) /\ Lands(PointerAfter(Reached, batch), rest)
      /\ Aimed(PointerAfter(Reached, batch), rest, aim)
  <2>1. Lands(Reached, batch \o rest) /\ Aimed(Reached, batch \o rest, aim)
    BY <1>1 DEF ClicksInv, ClicksLand, Reached
  <2>2. PointerAfter(Reached, batch \o rest) = PointerAfter(PointerAfter(Reached, batch), rest)
    BY <1>1, PointerConcat
  <2> QED BY <1>1, <2>1, <2>2, LandsConcat DEF Aimed
<1>4. CASE HasEvents(held, batch)
  <2>1. /\ Len(channel') = Len(channel) + 1
        /\ \A n \in 1 .. Len(channel) : channel'[n] = channel[n]
        /\ channel'[Len(channel) + 1] = batch
        /\ DOMAIN channel = 1 .. Len(channel) /\ DOMAIN channel' = 1 .. Len(channel) + 1
    BY <1>1, <1>2, <1>4, AppendProperties, LenProperties
  <2>2. /\ \A n \in 1 .. Len(channel) + 1 : PointerAhead(pointer, channel', n) = PointerAhead(pointer, channel, n)
        /\ PointerAhead(pointer, channel', Len(channel) + 2) = PointerAfter(Reached, batch)
    BY <1>1, <1>2, <1>4, PointerAheadAppend DEF Reached
  <2>3. Reached' = PointerAfter(Reached, batch)
    BY <1>1, <1>2, <2>1, <2>2 DEF Reached
  <2>4. ASSUME NEW n \in DOMAIN channel' PROVE Lands(PointerAhead(pointer, channel', n), channel'[n])
    <3>1. CASE n \in 1 .. Len(channel)
      <4>1. n \in DOMAIN channel /\ n \in 1 .. Len(channel) + 1 /\ channel'[n] = channel[n]
        BY <1>1, <2>1, <3>1
      <4> QED BY <2>2, <4>1 DEF ClicksInv, ClicksLand
    <3>2. CASE n = Len(channel) + 1
      <4>1. Len(channel) + 1 \in 1 .. Len(channel) + 1
        BY <1>1
      <4> QED BY <1>3, <2>1, <2>2, <3>2, <4>1 DEF Reached
    <3>3. n \in 1 .. Len(channel) + 1
      BY <2>1
    <3>4. n \in 1 .. Len(channel) \/ n = Len(channel) + 1
      BY <1>1, <3>3
    <3> QED BY <3>1, <3>2, <3>4
  <2> QED BY <1>2, <1>3, <2>3, <2>4 DEF ClicksInv, ClicksLand, Reached
<1>5. CASE ~HasEvents(held, batch)
  <2>1. ~HasMotion(batch)
    BY <1>5 DEF HasEvents, HasMotion, IsMove
  <2>2. PointerAfter(Reached, batch) = Reached
    BY <1>1, <2>1, MotionlessStays
  <2> QED BY <1>2, <1>3, <1>5, <2>2 DEF ClicksInv, ClicksLand, Reached
<1> QED BY <1>4, <1>5

LEMMA FlushClicks ==
  ASSUME IInv, ClicksInv, Flush
  PROVE  ClicksInv'
<1>1. pending # <<>> => Len(pending) \in Nat \ {0}
  BY LenProperties, EmptySeq DEF IInv, TypeOK
<1>2. CASE FlushDone \/ FlushFull
  BY <1>2 DEF FlushDone, FlushFull, ClicksInv, ClicksLand, Reached, remoteVars
<1>3. CASE FlushClosed \/ FlushRefused
  BY <1>3, DiscardClicks DEF FlushClosed, FlushRefused
<1>4. CASE FlushBatch
  <2>1. Batch \in 1 .. Len(pending)
    BY <1>1, <1>4, QueueAssumption DEF Batch, FlushBatch
  <2> QED BY <1>4, <2>1, DeliverClicks DEF FlushBatch
<1>5. CASE FlushOperation
  <2>1. 1 \in 1 .. Len(pending)
    BY <1>1, <1>5 DEF FlushOperation
  <2> QED BY <1>5, <2>1, DeliverClicks DEF FlushOperation
<1> QED BY <1>2, <1>3, <1>4, <1>5 DEF Flush

LEMMA ReceiveClicks ==
  ASSUME IInv, ClicksInv, Receive
  PROVE  ClicksInv'
<1>1. /\ channel \in Seq(Seq(Operation)) /\ channel # <<>> /\ Len(channel) \in Nat /\ Len(channel) > 0
      /\ channel' = Tail(channel) /\ pointer' = PointerAfter(pointer, Head(channel))
      /\ UNCHANGED <<open, pending, aim>>
  BY LenProperties, EmptySeq DEF Receive, IInv, TypeOK, queueVars
<1>2. /\ Len(channel') = Len(channel) - 1 /\ DOMAIN channel = 1 .. Len(channel)
      /\ DOMAIN channel' = 1 .. Len(channel) - 1
      /\ \A n \in 1 .. Len(channel) - 1 : channel'[n] = channel[n + 1]
  BY <1>1, HeadTailProperties, LenProperties
<1>3. \A n \in 1 .. Len(channel) : PointerAhead(pointer', channel', n) = PointerAhead(pointer, channel, n + 1)
  BY <1>1, PointerAheadTail
<1>4. Reached' = Reached
  <2>1. Len(channel) \in 1 .. Len(channel) /\ Len(channel') + 1 = Len(channel)
    BY <1>1, <1>2
  <2> QED BY <1>3, <2>1 DEF Reached
<1>5. ASSUME open, NEW n \in DOMAIN channel' PROVE Lands(PointerAhead(pointer', channel', n), channel'[n])
  <2>1. n \in 1 .. Len(channel) /\ n + 1 \in DOMAIN channel /\ channel'[n] = channel[n + 1]
    BY <1>1, <1>2
  <2> QED BY <1>3, <1>5, <2>1 DEF ClicksInv, ClicksLand
<1> QED BY <1>1, <1>4, <1>5 DEF ClicksInv, ClicksLand, Reached

LEMMA NextClicks == IInv /\ ClicksInv /\ [Next]_vars => ClicksInv'
<1> SUFFICES ASSUME IInv, ClicksInv, [Next]_vars PROVE ClicksInv'
  OBVIOUS
<1>1. CASE Retry
  BY <1>1 DEF Retry, ClicksInv, ClicksLand, Reached, remoteVars
<1>2. CASE Close
  BY <1>2 DEF Close, ClicksInv, ClicksLand
<1>3. CASE UNCHANGED vars
  BY <1>3 DEF vars, ClicksInv, ClicksLand, Reached
<1> QED BY <1>1, <1>2, <1>3, InputsClicks, ReleasesClicks, FlushClicks, ReceiveClicks DEF Next, Flush

(* A button goes down where the user pointed, for any positions, limits,   *)
(* batches and either target: coalescing replaces only motion that nothing *)
(* was queued behind, and a message left out for want of events holds no   *)
(* motion.                                                                 *)
THEOREM ClicksLandHolds == Spec => []ClicksLand
<1>1. Init => ClicksInv
  BY DEF Init, ClicksInv, ClicksLand, Lands, Aimed
<1>2. ClicksInv => ClicksLand
  BY DEF ClicksInv
<1> QED BY <1>1, <1>2, Invariance, NextClicks, PTL DEF Spec
-----------------------------------------------------------------------------
(* Releases stay ahead of the presses behind them.                         *)

(* The database never says more than the other side holds, not even when   *)
(* the daemon refused input and the account of it was dropped.             *)
Believed == open => database \subseteq HeldAfterAll(remote, channel)

LEMMA DeliverBelieved ==
  ASSUME IInv, Believed, Room, NEW count \in 1 .. Len(pending), NEW held, Deliver(count, held),
         held \in {database, DaemonHolds}
  PROVE  Believed'
<1> DEFINE batch == SubSeq(pending, 1, count)
           wire == HeldAfterAll(remote, channel)
<1>1. batch \in Seq(Operation) /\ channel \in Seq(Seq(Operation))
  BY DeliverProperties DEF IInv, TypeOK
<1>2. /\ database' = HeldAfter(database, batch) /\ UNCHANGED <<open, remote>>
      /\ channel' = IF HasEvents(held, batch) THEN Append(channel, batch) ELSE channel
  BY DEF Deliver
<1> HIDE DEF batch
<1>3. database \subseteq wire /\ wire \in SUBSET Inputs /\ database \in SUBSET Inputs
  BY DEF Believed, Room, IInv, TypeOK, HeldAfterAll
<1>4. HeldAfter(database, batch) \subseteq HeldAfter(wire, batch)
  BY <1>3, HeldAfterMonotone
<1>5. CASE HasEvents(held, batch)
  <2>1. HeldAfterAll(remote, channel)' = HeldAfter(wire, batch)
    BY <1>1, <1>2, <1>5, HeldAfterAllAppend
  <2> QED BY <1>2, <1>4, <2>1 DEF Believed
<1>6. CASE ~HasEvents(held, batch)
  <2>1. HeldAfterAll(remote, channel)' = wire
    BY <1>2, <1>6
  <2>2. HeldAfter(database, batch) \subseteq wire
    <3>1. CASE held = database
      BY <1>3, <1>6, <3>1, NoEventsHold
    <3>2. CASE held = wire
      BY <1>3, <1>4, <1>6, <3>2, NoEventsHold
    <3> QED BY <3>1, <3>2 DEF DaemonHolds
  <2> QED BY <1>2, <2>1, <2>2 DEF Believed
<1> QED BY <1>5, <1>6

LEMMA BatchIndices ==
  ASSUME IInv
  PROVE  /\ FlushBatch => Batch \in 1 .. Len(pending)
         /\ FlushOperation => 1 \in 1 .. Len(pending)
<1>1. pending # <<>> => Len(pending) \in Nat \ {0}
  BY LenProperties, EmptySeq DEF IInv, TypeOK
<1> QED BY <1>1, QueueAssumption DEF Batch, FlushBatch, FlushOperation

LEMMA NextBelieved == IInv /\ Believed /\ [Next]_vars => Believed'
<1> SUFFICES ASSUME IInv, Believed, [Next]_vars PROVE Believed'
  OBVIOUS
<1>1. CASE PressInput \/ ReleaseInput \/ TapKey \/ MovePointer \/ TurnWheel \/ ReleaseAll \/ ReleaseButtons \/ Retry
  <2>1. UNCHANGED <<database, open, remote, channel>>
    BY <1>1 DEF PressInput, ReleaseInput, TapKey, MovePointer, TurnWheel, Send, ReleaseAll, ReleaseButtons, Retry, remoteVars
  <2> QED BY <2>1 DEF Believed
<1>2. CASE FlushDone \/ FlushFull \/ UNCHANGED vars
  BY <1>2 DEF FlushDone, FlushFull, vars, remoteVars, Believed
<1>3. CASE FlushClosed \/ FlushRefused
  BY <1>3 DEF FlushClosed, FlushRefused, DiscardAll, Believed
<1>4. CASE FlushBatch
  BY <1>4, BatchIndices, DeliverBelieved DEF FlushBatch
<1>5. CASE FlushOperation
  BY <1>5, BatchIndices, DeliverBelieved DEF FlushOperation
<1>6. CASE Receive
  <2>1. HeldAfterAll(remote, channel)' = HeldAfterAll(remote, channel)
    BY <1>6, HeldAfterAllHead DEF Receive, IInv, TypeOK
  <2> QED BY <1>6, <2>1 DEF Receive, queueVars, Believed
<1>7. CASE Close
  BY <1>7 DEF Close, Believed
<1> QED BY <1>1, <1>2, <1>3, <1>4, <1>5, <1>6, <1>7 DEF Next

LEMMA ReleasesPressNothing ==
  ASSUME NEW S \in SUBSET Inputs, IsFiniteSet(S), NEW j
  PROVE  ReleasesOf(S) \in Seq(Operation) /\ \A n \in DOMAIN ReleasesOf(S) : ~Presses(ReleasesOf(S)[n], j)
<1>1. \A n \in DOMAIN ReleasesOf(S) : ReleasesOf(S)[n].op = "release"
  BY ReleasesOfProperties DEF Release
<1> QED BY <1>1, ReleasesOfProperties DEF Presses

LEMMA QueuedReleasesPressNothing ==
  ASSUME database \subseteq Inputs, NEW j
  PROVE  ~StillQueued(QueuedReleases, j)
<1> DEFINE keys == ReleasesOf(database \cap Keys)
           buttons == ReleasesOf(database \cap Buttons)
<1>1. /\ database \cap Keys \in SUBSET Inputs /\ IsFiniteSet(database \cap Keys)
      /\ database \cap Buttons \in SUBSET Inputs /\ IsFiniteSet(database \cap Buttons)
  BY InputsFinite
<1>2. /\ keys \in Seq(Operation) /\ buttons \in Seq(Operation)
      /\ \A n \in DOMAIN keys : ~Presses(keys[n], j)
      /\ \A n \in DOMAIN buttons : ~Presses(buttons[n], j)
  BY <1>1, ReleasesPressNothing
<1> DEFINE both == keys \o buttons
<1>3. QueuedReleases = both
  BY DEF QueuedReleases
<1> HIDE DEF keys, buttons
<1>4. /\ \A n \in DOMAIN keys : both[n] = keys[n]
      /\ \A n \in DOMAIN buttons : both[Len(keys) + n] = buttons[n]
      /\ \A n \in DOMAIN both : n \in DOMAIN keys \/ (n - Len(keys) \in DOMAIN buttons /\ Len(keys) + (n - Len(keys)) = n)
  BY <1>2, ConcatIndices
<1> HIDE DEF both
<1>5. ASSUME NEW n \in DOMAIN both PROVE ~Presses(both[n], j)
  <2> DEFINE m == n - Len(keys)
  <2>1. n \in DOMAIN keys \/ (m \in DOMAIN buttons /\ Len(keys) + m = n)
    BY <1>4
  <2> HIDE DEF m
  <2> QED BY <1>2, <1>4, <2>1
<1> QED BY <1>3, <1>5 DEF StillQueued

(* A queue that another begins with keeps everything in its place.         *)
LEMMA AheadConcat ==
  ASSUME NEW q \in Seq(Operation), NEW r \in Seq(Operation), NEW i, NEW j, Ahead(q, i, j)
  PROVE  Ahead(q \o r, i, j)
<1>1. \A n \in DOMAIN q : (q \o r)[n] = q[n] /\ n \in DOMAIN (q \o r)
  BY ConcatIndices
<1> QED BY <1>1 DEF Ahead

LEMMA OfferedAhead ==
  ASSUME NEW queue \in Seq(Operation), NEW operation \in Operation, NEW i, NEW j,
         Ahead(queue, i, j), ~Saturates(queue, operation)
  PROVE  Ahead(Offered(queue, operation), i, j)
<1>1. CASE Coalesces(queue, operation)
  <2> DEFINE moved == [queue EXCEPT ![Len(queue)] = operation]
  <2>1. /\ DOMAIN moved = DOMAIN queue
        /\ \A k \in DOMAIN queue : k # Len(queue) => moved[k] = queue[k]
    BY LenProperties
  <2>2. PICK m, n \in DOMAIN queue : m < n /\ Releases(queue[m], i) /\ Presses(queue[n], j)
    BY DEF Ahead
  <2>3. m # Len(queue) /\ n # Len(queue)
    BY <1>1, <2>2 DEF Coalesces, IsMove, Releases, Presses
  <2>4. Offered(queue, operation) = moved
    BY <1>1 DEF Offered
  <2> HIDE DEF moved
  <2> QED BY <2>1, <2>2, <2>3, <2>4 DEF Ahead
<1>2. CASE ~Coalesces(queue, operation)
  <2>1. Offered(queue, operation) = queue \o <<operation>> /\ <<operation>> \in Seq(Operation)
    BY <1>2, AppendIsConcat, SingletonSeq DEF Offered
  <2> QED BY <2>1, AheadConcat
<1> QED BY <1>1, <1>2

LEMMA SendAhead ==
  ASSUME IInv, NEW operations \in Seq(Operation), Len(operations) \in {1, 2}, Send(operations),
         NEW i, NEW j, Ahead(pending, i, j), StillQueued(pending', j)
  PROVE  Ahead(pending', i, j)
<1> DEFINE one == operations[1]
           first == Offered(pending, one)
<1>1. /\ one \in Operation /\ pending \in Seq(Operation) /\ Len(pending) <= LIMIT /\ database \subseteq Inputs
      /\ Len(operations) = 2 => operations[2] \in Operation
      /\ pending' = OfferedAll(pending, operations)
  BY LenProperties, ElementOfSeq DEF IInv, TypeOK, Bounded, Send
<1>2. ASSUME NEW queue \in Seq(Operation), NEW operation \in Operation, Saturates(queue, operation),
             pending' = Offered(queue, operation)
      PROVE  FALSE
  <2>1. pending' = QueuedReleases
    BY <1>2 DEF Offered, Saturates
  <2> QED BY <1>1, <2>1, QueuedReleasesPressNothing
<1>3. CASE Saturates(pending, one)
  BY <1>1, <1>2, <1>3 DEF OfferedAll
<1>4. CASE ~Saturates(pending, one) /\ Len(operations) = 1
  BY <1>1, <1>4, OfferedAhead DEF OfferedAll
<1>5. CASE ~Saturates(pending, one) /\ Len(operations) = 2
  <2>1. first \in Seq(Operation) /\ Ahead(first, i, j)
    BY <1>1, <1>5, OfferedAhead, OfferedProperties
  <2>2. pending' = Offered(first, operations[2])
    BY <1>1, <1>5 DEF OfferedAll
  <2> HIDE DEF first
  <2> QED BY <1>1, <1>2, <1>5, <2>1, <2>2, OfferedAhead
<1> QED BY <1>3, <1>4, <1>5

(* What a capture keeps keeps its order: every release, and every press of *)
(* a key.                                                                  *)
LEMMA CaptureAhead ==
  ASSUME IInv, ReleaseButtons, NEW i \in Inputs, NEW j \in Inputs,
         Ahead(pending, i, j), StillQueued(pending', j)
  PROVE  Ahead(pending', i, j)
<1> DEFINE K == {n \in DOMAIN pending : KeptByCapture(pending[n])}
           kept == Retained(pending, K)
           queued == {b \in Buttons : \E n \in DOMAIN kept : Releases(kept[n], b)}
           S == (database \cap Buttons) \ queued
           releases == ReleasesOf(S)
<1>1. /\ pending' = IF Len(kept) + Len(releases) > LIMIT THEN QueuedReleases ELSE kept \o releases
      /\ pending \in Seq(Operation) /\ database \subseteq Inputs
  BY DEF ReleaseButtons, CaptureReleases, IInv, TypeOK
<1>2. pending' = kept \o releases
  BY <1>1, QueuedReleasesPressNothing
<1>3. /\ K \in SUBSET DOMAIN pending /\ DOMAIN kept \subseteq Int
      /\ kept \in Seq(Operation)
      /\ \A n \in DOMAIN kept : Nth(K, n) \in K /\ kept[n] = pending[Nth(K, n)]
      /\ \A m, n \in DOMAIN kept : m < n => Nth(K, m) < Nth(K, n)
      /\ \A k \in K : \E n \in DOMAIN kept : Nth(K, n) = k
  <2>1. K \in SUBSET DOMAIN pending
    OBVIOUS
  <2> HIDE DEF K
  <2>2. kept \in Seq(Operation)
    BY <1>1, <2>1, RetainedProperties
  <2>3. DOMAIN kept \subseteq Int
    BY <2>2, LenProperties
  <2> QED BY <1>1, <2>1, <2>2, <2>3, RetainedProperties
<1>4. S \in SUBSET Inputs /\ IsFiniteSet(S)
  <2>1. S \in SUBSET (database \cap Buttons) /\ IsFiniteSet(database \cap Buttons)
    BY <1>1, InputsFinite
  <2> QED BY <1>1, <2>1, FS_Subset
<1>5. releases \in Seq(Operation) /\ \A n \in DOMAIN releases : ~Presses(releases[n], j)
  BY <1>4, ReleasesPressNothing
<1> HIDE DEF releases, kept
<1>6. \A n \in DOMAIN kept : \A b \in Buttons : ~Presses(kept[n], b)
  BY <1>3 DEF KeptByCapture
<1>7. j \notin Buttons
  <2>1. PICK n \in DOMAIN (kept \o releases) : Presses((kept \o releases)[n], j)
    BY <1>2 DEF StillQueued
  <2>2. /\ \A k \in DOMAIN kept : (kept \o releases)[k] = kept[k]
        /\ \A k \in DOMAIN releases : (kept \o releases)[Len(kept) + k] = releases[k]
        /\ n \in DOMAIN kept \/ (n - Len(kept) \in DOMAIN releases /\ Len(kept) + (n - Len(kept)) = n)
    BY <1>3, <1>5, ConcatIndices
  <2> DEFINE m == n - Len(kept)
  <2>3. n \in DOMAIN kept \/ (m \in DOMAIN releases /\ Len(kept) + m = n)
    BY <2>2
  <2> HIDE DEF m
  <2> QED BY <1>5, <1>6, <2>1, <2>2, <2>3
<1>8. Ahead(kept, i, j)
  <2>1. PICK m, n \in DOMAIN pending : m < n /\ Releases(pending[m], i) /\ Presses(pending[n], j)
    BY DEF Ahead
  <2>2. m \in K /\ n \in K
    BY <1>7, <2>1 DEF KeptByCapture, Releases, Presses
  <2>3. PICK x, y \in DOMAIN kept : Nth(K, x) = m /\ Nth(K, y) = n
    BY <1>3, <2>2
  <2>4. /\ kept[x] = pending[m] /\ kept[y] = pending[n] /\ ~(y < x) /\ x # y /\ x \in Int /\ y \in Int
    <3>1. m \in Int /\ n \in Int
      BY <1>1, LenProperties
    <3> HIDE DEF K
    <3> QED BY <1>3, <2>1, <2>3, <3>1
  <2> QED BY <2>1, <2>3, <2>4 DEF Ahead
<1> QED BY <1>2, <1>3, <1>5, <1>8, AheadConcat

(* A release of something held is an event: it is not left out.            *)
LEMMA DeliverAhead ==
  ASSUME IInv, Believed, Room, NEW count \in 1 .. Len(pending), NEW held, Deliver(count, held),
         held \in {database, DaemonHolds}, channel' = channel,
         NEW i \in database, NEW j, Ahead(pending, i, j)
  PROVE  Ahead(pending', i, j)
<1>1. /\ pending \in Seq(Operation) /\ Len(pending) \in Nat /\ DOMAIN pending = 1 .. Len(pending)
      /\ channel \in Seq(Seq(Operation)) /\ Len(channel) \in Nat
      /\ i \in Inputs /\ i \in held
  BY LenProperties DEF IInv, TypeOK, Believed, DaemonHolds, Room
<1> DEFINE batch == SubSeq(pending, 1, count)
<1>2. /\ batch \in Seq(Operation) /\ DOMAIN batch = 1 .. count
      /\ \A n \in 1 .. count : batch[n] = pending[n]
  BY <1>1, SubSeqProperties, LenProperties
<1>3. /\ pending' \in Seq(Operation) /\ DOMAIN pending' = 1 .. Len(pending) - count
      /\ \A n \in 1 .. Len(pending) - count : pending'[n] = pending[count + n]
  <2>1. pending' = SubSeq(pending, count + 1, Len(pending))
    BY DEF Deliver
  <2> QED BY <1>1, <2>1, SubSeqProperties, LenProperties
<1>4. ~HasEvents(held, batch)
  <2>1. HasEvents(held, batch) => Len(channel') = Len(channel) + 1
    BY <1>1, <1>2, AppendProperties DEF Deliver
  <2> QED BY <1>1, <2>1
<1> HIDE DEF batch
<1>5. PICK m, n \in DOMAIN pending : m < n /\ Releases(pending[m], i) /\ Presses(pending[n], j)
  BY DEF Ahead
<1>6. ~(m \in 1 .. count)
  BY <1>1, <1>2, <1>4, <1>5 DEF HasEvents
<1> DEFINE x == m - count
           y == n - count
<1>7. /\ x \in 1 .. Len(pending) - count /\ y \in 1 .. Len(pending) - count /\ x < y
      /\ count + x = m /\ count + y = n
  BY <1>1, <1>5, <1>6
<1> HIDE DEF x, y
<1> QED BY <1>3, <1>5, <1>7 DEF Ahead

LEMMA InputsAhead ==
  ASSUME IInv, PressInput \/ ReleaseInput \/ TapKey \/ MovePointer \/ TurnWheel,
         NEW i, NEW j, Ahead(pending, i, j), StillQueued(pending', j)
  PROVE  Ahead(pending', i, j)
<1>1. ASSUME NEW o \in Operation, Send(<<o>>) PROVE Ahead(pending', i, j)
  BY <1>1, SendAhead, SingletonSeq
<1>2. ASSUME NEW o \in Operation, NEW p \in Operation, Send(<<o, p>>) PROVE Ahead(pending', i, j)
  <2>1. <<o, p>> \in Seq(Operation) /\ Len(<<o, p>>) = 2
    OBVIOUS
  <2> QED BY <1>2, <2>1, SendAhead
<1>3. aim \in Positions \cup {Nowhere} /\ ReleaseOnly \subseteq Inputs
  BY QueueAssumption DEF IInv, TypeOK, Inputs
<1>4. /\ \A k \in Inputs : Press(k, aim) \in Operation /\ Release(k) \in Operation
      /\ \A p \in Positions : Move(p) \in Operation
      /\ \A w \in Wheels : Wheel(w) \in Operation
  BY <1>3 DEF Operation, Press, Release, Move, Wheel
<1> QED BY <1>1, <1>2, <1>3, <1>4 DEF PressInput, ReleaseInput, TapKey, MovePointer, TurnWheel

(* Whatever is captured, coalesced, saturated or delivered, a queued       *)
(* release stays ahead of the presses queued after it, for both targets.   *)
THEOREM NoOvertakingHolds == Spec => NoOvertaking
<1>1. IInv /\ Believed /\ [Next]_vars =>
        [\A i, j \in Inputs :
           /\ i \in database /\ Ahead(pending, i, j)
           /\ channel' = channel /\ StillQueued(pending', j)
           => Ahead(pending', i, j)]_vars
  <2> SUFFICES ASSUME IInv, Believed, Next, NEW i \in Inputs, NEW j \in Inputs,
                      i \in database, Ahead(pending, i, j), channel' = channel, StillQueued(pending', j)
               PROVE  Ahead(pending', i, j)
    OBVIOUS
  <2>1. CASE ReleaseAll
    BY <2>1, QueuedReleasesPressNothing DEF ReleaseAll, IInv, TypeOK
  <2>2. CASE ReleaseButtons
    BY <2>2, CaptureAhead
  <2>3. CASE FlushClosed \/ FlushRefused
    BY <2>3 DEF FlushClosed, FlushRefused, DiscardAll, StillQueued
  <2>4. CASE FlushBatch
    BY <2>4, BatchIndices, DeliverAhead DEF FlushBatch
  <2>5. CASE FlushOperation
    BY <2>5, BatchIndices, DeliverAhead DEF FlushOperation
  <2>6. CASE Retry \/ FlushDone \/ FlushFull \/ Receive \/ Close
    BY <2>6 DEF Retry, FlushDone, FlushFull, Receive, Close, queueVars
  <2> QED BY <2>1, <2>2, <2>3, <2>4, <2>5, <2>6, InputsAhead DEF Next
<1>2. Init => Believed
  BY DEF Init, Believed
<1> QED BY <1>1, <1>2, Invariance, NextBelieved, PTL DEF Spec, NoOvertaking
-----------------------------------------------------------------------------
(* The queue implements HeldInputs.                                        *)

LEMMA EdgesHold ==
  ASSUME NEW held \in SUBSET Inputs, NEW i \in Inputs, NEW at
  PROVE  /\ HeldAfter(held, <<Press(i, at)>>) = held \cup {i}
         /\ HeldAfter(held, <<Release(i)>>) = held \ {i}
         /\ HeldAfter(held, <<Press(i, at), Release(i)>>) = held \ {i}
<1>1. /\ \A j : Presses(Press(i, at), j) <=> i = j
      /\ \A j : Releases(Release(i), j) <=> i = j
      /\ \A j : ~Releases(Press(i, at), j) /\ ~Presses(Release(i), j)
  BY DEF Presses, Releases, Press, Release
<1> QED BY <1>1 DEF HeldAfter

LEMMA MotionHolds ==
  ASSUME NEW held \in SUBSET Inputs, NEW p, NEW w, NEW v
  PROVE  /\ HeldAfter(held, <<Move(p)>>) = held
         /\ HeldAfter(held, <<Wheel(w)>>) = held
         /\ HeldAfter(held, <<Wheel(v), Wheel(w)>>) = held
<1>1. \A j : /\ ~Presses(Move(p), j) /\ ~Presses(Wheel(w), j) /\ ~Presses(Wheel(v), j)
             /\ ~Releases(Move(p), j) /\ ~Releases(Wheel(w), j) /\ ~Releases(Wheel(v), j)
  BY DEF Presses, Releases, Move, Wheel
<1> QED BY <1>1 DEF HeldAfter

(* What a Send makes of the inputs held: its operations, or nothing held.  *)
LEMMA SendHolds ==
  ASSUME IInv, NEW operations \in Seq(Operation), Len(operations) \in {1, 2}, Send(operations)
  PROVE  HeldAfter(database, pending)'
           \in {HeldAfter(HeldAfter(database, pending), operations), {}}
BY OfferedAllProperties DEF IInv, TypeOK, Bounded, Send

LEMMA InputsImplement ==
  ASSUME IInv, PressInput \/ ReleaseInput \/ TapKey \/ MovePointer \/ TurnWheel
  PROVE  HeldStep
<1> DEFINE held == HeldAfter(database, pending)
<1>1. held \in SUBSET Inputs
  BY DEF HeldAfter
<1>2. ASSUME NEW o \in Operation, Send(<<o>>) PROVE held' \in {HeldAfter(held, <<o>>), {}}
  BY <1>2, SendHolds, SingletonSeq
<1>3. ASSUME NEW o \in Operation, NEW p \in Operation, Send(<<o, p>>)
      PROVE  held' \in {HeldAfter(held, <<o, p>>), {}}
  <2>1. <<o, p>> \in Seq(Operation) /\ Len(<<o, p>>) = 2
    OBVIOUS
  <2> QED BY <1>3, <2>1, SendHolds
<1>4. aim \in Positions \cup {Nowhere} /\ ReleaseOnly \subseteq Inputs
  BY QueueAssumption DEF IInv, TypeOK, Inputs
<1>5. /\ \A i \in Inputs : Press(i, aim) \in Operation /\ Release(i) \in Operation
      /\ \A p \in Positions : Move(p) \in Operation
      /\ \A w \in Wheels : Wheel(w) \in Operation
  BY <1>4 DEF Operation, Press, Release, Move, Wheel
<1> HIDE DEF held
<1>6. CASE PressInput
  <2>1. PICK i \in Inputs : Send(<<Press(i, aim)>>)
    BY <1>6 DEF PressInput
  <2>2. held' \in {held \cup {i}, {}}
    BY <1>1, <1>2, <1>5, <2>1, EdgesHold
  <2> QED BY <2>1, <2>2 DEF HeldStep, Abstract!Press, Abstract!Becomes, held
<1>7. CASE ReleaseInput
  <2>1. PICK i \in Inputs : Send(<<Release(i)>>)
    BY <1>7 DEF ReleaseInput
  <2>2. held' \in {held \ {i}, {}}
    BY <1>1, <1>2, <1>5, <2>1, EdgesHold
  <2> QED BY <2>1, <2>2 DEF HeldStep, Abstract!Release, Abstract!Becomes, held
<1>8. CASE TapKey
  <2>1. PICK k \in ReleaseOnly : Send(<<Press(k, aim), Release(k)>>)
    BY <1>8 DEF TapKey
  <2>2. k \in Inputs /\ Press(k, aim) \in Operation /\ Release(k) \in Operation
    BY <1>4, <1>5
  <2>3. held' \in {HeldAfter(held, <<Press(k, aim), Release(k)>>), {}}
    BY <1>3, <2>1, <2>2
  <2>4. HeldAfter(held, <<Press(k, aim), Release(k)>>) = held \ {k}
    BY <1>1, <2>2, EdgesHold
  <2> QED BY <2>1, <2>3, <2>4 DEF HeldStep, Abstract!Release, Abstract!Becomes, held
<1>9. CASE MovePointer \/ TurnWheel
  <2>1. ASSUME NEW p \in Positions, Send(<<Move(p)>>) PROVE held' \in {held, {}}
    BY <1>1, <1>2, <1>5, <2>1, MotionHolds
  <2>2. ASSUME NEW w \in Wheels, Send(<<Wheel(w)>>) PROVE held' \in {held, {}}
    BY <1>1, <1>2, <1>5, <2>2, MotionHolds
  <2>3. ASSUME NEW v \in Wheels, NEW w \in Wheels, Send(<<Wheel(v), Wheel(w)>>)
        PROVE  held' \in {held, {}}
    <3>1. held' \in {HeldAfter(held, <<Wheel(v), Wheel(w)>>), {}}
      BY <1>3, <1>5, <2>3
    <3> QED BY <1>1, <3>1, MotionHolds
  <2>4. held' \in {held, {}}
    BY <1>9, <2>1, <2>2, <2>3 DEF MovePointer, TurnWheel
  <2> QED BY <1>9, <2>4 DEF HeldStep, Abstract!Move, Abstract!Becomes, held
<1> QED BY <1>6, <1>7, <1>8, <1>9

LEMMA ReleasesImplement ==
  ASSUME IInv, ReleaseAll \/ ReleaseButtons
  PROVE  HeldStep
<1>1. CASE ReleaseAll
  <2>1. HeldAfter(database, pending)' = {}
    BY <1>1, QueuedReleasesProperties DEF ReleaseAll, IInv, TypeOK
  <2> QED BY <1>1, <2>1 DEF HeldStep, Abstract!ReleaseAll
<1>2. CASE ReleaseButtons
  <2>1. HeldAfter(database, pending)' \in {HeldAfter(database, pending) \cap Keys, {}}
    BY <1>2, CaptureProperties DEF ReleaseButtons, IInv, TypeOK, Bounded
  <2> QED BY <1>2, <2>1 DEF HeldStep, Abstract!ReleaseButtons, Abstract!Becomes
<1> QED BY <1>1, <1>2

LEMMA FlushImplements ==
  ASSUME IInv, Flush
  PROVE  HeldStep
<1>1. CASE FlushClosed \/ FlushRefused
  <2>1. HeldAfter(database, pending)' = {}
    BY <1>1 DEF FlushClosed, FlushRefused, DiscardAll, HeldAfter
  <2> QED BY <1>1, <2>1 DEF HeldStep, Abstract!ReleaseAll
<1>2. CASE FlushDone \/ FlushFull
  <2>1. HeldAfter(database, pending)' = HeldAfter(database, pending)
    BY <1>2 DEF FlushDone, FlushFull
  <2> QED BY <1>2, <2>1 DEF HeldStep, Abstract!Unchanged
<1>3. CASE FlushBatch \/ FlushOperation
  <2>1. pending \in Seq(Operation) /\ (pending # <<>> => Len(pending) \in Nat \ {0})
    BY LenProperties, EmptySeq DEF IInv, TypeOK
  <2>2. Batch \in 1 .. Len(pending) /\ 1 \in 1 .. Len(pending)
    BY <1>3, <2>1, QueueAssumption DEF Batch, FlushBatch, FlushOperation
  <2>3. PICK count \in 1 .. Len(pending) :
          /\ pending' = SubSeq(pending, count + 1, Len(pending))
          /\ database' = HeldAfter(database, SubSeq(pending, 1, count))
    BY <1>3, <2>2 DEF FlushBatch, FlushOperation, Deliver
  <2>4. HeldAfter(database, pending)' = HeldAfter(database, pending)
    BY <2>1, <2>3, DeliverProperties
  <2> QED BY <1>3, <2>4 DEF HeldStep, Abstract!Unchanged
<1> QED BY <1>1, <1>2, <1>3 DEF Flush

LEMMA OtherImplements ==
  ASSUME Retry \/ Receive \/ Close
  PROVE  HeldStep
<1>1. HeldAfter(database, pending)' = HeldAfter(database, pending)
  BY DEF Retry, Receive, Close, queueVars
<1> QED BY <1>1 DEF HeldStep, Abstract!Unchanged

(* The queue implements HeldInputs for any keys, buttons, limits, batches  *)
(* and either target: saturation, coalescing, captures, retries and lost   *)
(* connections never change what the remote desktop will hold down other   *)
(* than the operation asks, except by letting go of everything.            *)
THEOREM QueueImplements == Spec => Implements
<1>1. Init => Abstract!Init
  BY DEF Init, Abstract!Init, HeldAfter
<1>2. IInv /\ [Next]_vars => [HeldStep]_vars
  BY InputsImplement, ReleasesImplement, FlushImplements, OtherImplements DEF Next, Flush
<1> QED BY <1>1, <1>2, Invariance, PTL DEF Spec, Implements
=============================================================================
