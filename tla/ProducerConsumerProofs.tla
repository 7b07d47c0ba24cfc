----------------------- MODULE ProducerConsumerProofs -----------------------
(***************************************************************************)
(* Proofs about ProducerConsumer, for any finite sets of writers and        *)
(* readers.  The invariant behind all of them is a count: the items in the  *)
(* queue are those of the writers that have not released yet, those of the  *)
(* readers already let through, and one for each permit left.               *)
(***************************************************************************)
EXTENDS ProducerConsumer, FiniteSetTheorems, SequenceTheorems, TLAPS

\* Every queued item is accounted for by exactly one permit, reader or writer.
CountInv == Len(queue) = permits + Cardinality(Granted) + Cardinality(Signalling)

\* The semaphore's queue holds waiting readers, each once, and only while no
\* permit is left.
WaitersInv ==
    /\ \A i \in 1 .. Len(waiters) : rpc[waiters[i]] = "waiting"
    /\ \A i, j \in 1 .. Len(waiters) : waiters[i] = waiters[j] => i = j
    /\ waiters # <<>> => permits = 0

IInv == TypeOK /\ CountInv /\ WaitersInv

-----------------------------------------------------------------------------
(* Lemmas about the sequences the actions build                             *)

\* Taking the head from one sequence to the end of another keeps their
\* concatenation.
LEMMA MoveHead ==
  ASSUME NEW S, NEW s \in Seq(S), NEW t \in Seq(S), t # <<>>
  PROVE  Append(s, Head(t)) \o Tail(t) = s \o t
  OBVIOUS

\* Appending to the second of two sequences appends to their concatenation.
LEMMA AppendRight ==
  ASSUME NEW S, NEW s \in Seq(S), NEW t \in Seq(S), NEW e \in S
  PROVE  s \o Append(t, e) = Append(s \o t, e)
  OBVIOUS

\* Removing position i shifts the later elements down by one.
LEMMA RemoveAtElements ==
  ASSUME NEW S, NEW s \in Seq(S), NEW i \in 1 .. Len(s)
  PROVE  /\ RemoveAt(s, i) \in Seq(S)
         /\ Len(RemoveAt(s, i)) = Len(s) - 1
         /\ \A j \in 1 .. Len(s) - 1 :
                RemoveAt(s, i)[j] = IF j < i THEN s[j] ELSE s[j + 1]
<1> DEFINE a == SubSeq(s, 1, i - 1)
           b == SubSeq(s, i + 1, Len(s))
<1>1. /\ a \in Seq(S) /\ Len(a) = i - 1
      /\ \A j \in 1 .. i - 1 : a[j] = s[j]
  BY SubSeqProperties
<1>2. /\ b \in Seq(S) /\ Len(b) = Len(s) - i
      /\ \A j \in 1 .. Len(s) - i : b[j] = s[i + j]
  BY SubSeqProperties
<1>3. RemoveAt(s, i) = a \o b
  BY DEF RemoveAt
<1> HIDE DEF a, b
<1>4. /\ a \o b \in Seq(S) /\ Len(a \o b) = Len(s) - 1
      /\ \A j \in 1 .. Len(s) - 1 :
             (a \o b)[j] = IF j <= i - 1 THEN a[j] ELSE b[j - (i - 1)]
  <2>1. Len(a) + Len(b) = Len(s) - 1 /\ Len(a) = i - 1
    BY <1>1, <1>2
  <2>2. a \in Seq(S) /\ b \in Seq(S)
    BY <1>1, <1>2
  <2>3. /\ a \o b \in Seq(S)
        /\ Len(a \o b) = Len(a) + Len(b)
        /\ \A j \in 1 .. Len(a) + Len(b) :
               (a \o b)[j] = IF j <= Len(a) THEN a[j] ELSE b[j - Len(a)]
    BY <2>2, ConcatProperties
  <2> QED  BY <2>1, <2>3
<1>5. ASSUME NEW j \in 1 .. Len(s) - 1
      PROVE  (a \o b)[j] = IF j < i THEN s[j] ELSE s[j + 1]
  <2>1. CASE j < i
    BY <1>1, <1>4, <2>1
  <2>2. CASE ~(j < i)
    <3>1. j - (i - 1) \in 1 .. Len(s) - i /\ i + (j - (i - 1)) = j + 1
      BY <2>2
    <3>2. b[j - (i - 1)] = s[j + 1]
      BY <1>2, <3>1
    <3> QED  BY <1>4, <2>2, <3>2
  <2> QED  BY <2>1, <2>2
<1> QED  BY <1>3, <1>4, <1>5

\* In a sequence without repetitions, removing position i leaves no repetition
\* and none of the removed element.
LEMMA RemoveAtInjective ==
  ASSUME NEW S, NEW s \in Seq(S), NEW i \in 1 .. Len(s), NEW t, t = RemoveAt(s, i),
         \A j, k \in 1 .. Len(s) : s[j] = s[k] => j = k
  PROVE  /\ t \in Seq(S) /\ Len(t) = Len(s) - 1
         /\ \A j \in 1 .. Len(t) :
               \E k \in 1 .. Len(s) : k # i /\ t[j] = s[k]
         /\ \A j, k \in 1 .. Len(t) : t[j] = t[k] => j = k
<1> DEFINE old(j) == IF j < i THEN j ELSE j + 1
<1>1. /\ t \in Seq(S) /\ Len(t) = Len(s) - 1
      /\ \A j \in 1 .. Len(s) - 1 : t[j] = s[old(j)]
  BY RemoveAtElements
<1>2. \A j \in 1 .. Len(s) - 1 : old(j) \in 1 .. Len(s) /\ old(j) # i
  OBVIOUS
<1>3. \A j, k \in 1 .. Len(s) - 1 : old(j) = old(k) => j = k
  OBVIOUS
<1> HIDE DEF old
<1>4. \A j, k \in 1 .. Len(t) : t[j] = t[k] => j = k
  BY <1>1, <1>2, <1>3
<1>5. ASSUME NEW j \in 1 .. Len(t)
      PROVE  \E k \in 1 .. Len(s) : k # i /\ t[j] = s[k]
  <2>1. j \in 1 .. Len(s) - 1
    BY <1>1
  <2>2. old(j) \in 1 .. Len(s) /\ old(j) # i /\ t[j] = s[old(j)]
    BY <2>1, <1>1, <1>2
  <2> QED  BY <2>2
<1> QED  BY <1>1, <1>4, <1>5

\* Putting one element into a set of readers or writers, or taking one out,
\* moves its size by one.
LEMMA OneMore ==
  ASSUME NEW S, NEW T, IsFiniteSet(S), NEW x, x \notin S, T = S \cup {x}
  PROVE  Cardinality(T) = Cardinality(S) + 1
  BY FS_AddElement

LEMMA OneLess ==
  ASSUME NEW S, NEW T, IsFiniteSet(S), NEW x \in S, T = S \ {x}
  PROVE  Cardinality(T) = Cardinality(S) - 1
  BY FS_RemoveElement

\* The readers let through and the writers between their two steps are finite.
LEMMA FiniteParties ==
  /\ IsFiniteSet(Granted) /\ Cardinality(Granted) \in Nat
  /\ IsFiniteSet(Signalling) /\ Cardinality(Signalling) \in Nat
  BY ConstantsOK, FS_Subset, FS_CardinalityType DEF Granted, Signalling

-----------------------------------------------------------------------------
(* Type correctness                                                         *)

\* The variables keep the types the declarations of ProducerConsumer<T> give.
THEOREM TypeCorrect == Spec => []TypeOK
<1>1. Init => TypeOK
  BY ConstantsOK DEF Init, TypeOK
<1>2. TypeOK /\ [Next]_vars => TypeOK'
  <2> SUFFICES ASSUME TypeOK, [Next]_vars  PROVE TypeOK'
    OBVIOUS
  <2> USE DEF TypeOK
  <2>1. ASSUME NEW w \in Writers, Enqueue(w)  PROVE TypeOK'
    BY <2>1, ConstantsOK DEF Enqueue, Item
  <2>2. ASSUME NEW w \in Writers, Release(w)  PROVE TypeOK'
    <3>1. CASE waiters = <<>>
      BY <2>2, <3>1 DEF Release, GivePermit
    <3>2. CASE waiters # <<>>
      <4>1. Head(waiters) \in Readers /\ Tail(waiters) \in Seq(Readers)
        BY <3>2
      <4> QED  BY <2>2, <3>2, <4>1 DEF Release, GivePermit
    <3> QED  BY <3>1, <3>2
  <2>3. ASSUME NEW r \in Readers, BeginRead(r)  PROVE TypeOK'
    <3>1. CASE permits > 0
      <4>1. permits' \in Nat /\ waiters' = waiters
        BY <2>3, <3>1 DEF BeginRead
      <4>2. rpc' \in [Readers -> {"idle", "waiting", "granted"}]
        BY <2>3, <3>1 DEF BeginRead
      <4> QED  BY <2>3, <4>1, <4>2 DEF BeginRead
    <3>2. CASE ~(permits > 0)
      <4>1. permits' = permits /\ waiters' = Append(waiters, r)
        BY <2>3, <3>2 DEF BeginRead
      <4>2. rpc' \in [Readers -> {"idle", "waiting", "granted"}]
        BY <2>3, <3>2 DEF BeginRead
      <4>3. Append(waiters, r) \in Seq(Readers)
        BY AppendProperties
      <4> QED  BY <2>3, <4>1, <4>2, <4>3 DEF BeginRead
    <3> QED  BY <3>1, <3>2
  <2>4. ASSUME NEW r \in Readers, Cancel(r)  PROVE TypeOK'
    <3>1. PICK i \in 1 .. Len(waiters) : waiters' = RemoveAt(waiters, i)
      BY <2>4 DEF Cancel
    <3>2. waiters' \in Seq(Readers)
      BY <3>1, RemoveAtElements
    <3> QED  BY <2>4, <3>2 DEF Cancel
  <2>5. ASSUME NEW r \in Readers, Dequeue(r)  PROVE TypeOK'
    <3>1. rpc' \in [Readers -> {"idle", "waiting", "granted"}]
      BY <2>5 DEF Dequeue
    <3>2. queue' \in Seq(Item) /\ taken' \in Seq(Item \cup {NoItem})
      <4>1. CASE queue = <<>>
        <5>1. queue' = queue /\ taken' = Append(taken, NoItem)
          BY <2>5, <4>1 DEF Dequeue
        <5>2. Append(taken, NoItem) \in Seq(Item \cup {NoItem})
          BY AppendProperties
        <5> QED  BY <5>1, <5>2
      <4>2. CASE queue # <<>>
        <5>1. Head(queue) \in Item /\ Tail(queue) \in Seq(Item)
          BY <4>2, HeadTailProperties
        <5>2. queue' = Tail(queue) /\ taken' = Append(taken, Head(queue))
          BY <2>5, <4>2 DEF Dequeue
        <5>3. Append(taken, Head(queue)) \in Seq(Item \cup {NoItem})
          BY <5>1, AppendProperties
        <5> QED  BY <5>1, <5>2, <5>3
      <4> QED  BY <4>1, <4>2
    <3> QED  BY <2>5, <3>1, <3>2 DEF Dequeue
  <2>6. CASE UNCHANGED vars
    BY <2>6 DEF vars
  <2> QED  BY <2>1, <2>2, <2>3, <2>4, <2>5, <2>6 DEF Next
<1> QED  BY <1>1, <1>2, PTL DEF Spec

-----------------------------------------------------------------------------
(* The count                                                                *)

LEMMA CountStep == IInv /\ [Next]_vars => CountInv'
<1> SUFFICES ASSUME IInv, [Next]_vars  PROVE CountInv'
  OBVIOUS
<1> USE FiniteParties DEF IInv, TypeOK, CountInv
<1>1. ASSUME NEW w \in Writers, Enqueue(w)  PROVE CountInv'
  <2>1. Granted' = Granted
    BY <1>1 DEF Enqueue, Granted
  <2>2. w \notin Signalling /\ Signalling' = Signalling \cup {w}
    BY <1>1 DEF Enqueue, Signalling
  <2>3. Len(queue') = Len(queue) + 1 /\ permits' = permits
    BY <1>1 DEF Enqueue
  <2>4. Cardinality(Signalling') = Cardinality(Signalling) + 1
    BY <2>2, OneMore
  <2> QED  BY <2>1, <2>3, <2>4
<1>2. ASSUME NEW w \in Writers, Release(w)  PROVE CountInv'
  <2>1. w \in Signalling /\ Signalling' = Signalling \ {w}
    BY <1>2 DEF Release, Signalling
  <2>2. Cardinality(Signalling') = Cardinality(Signalling) - 1
    BY <2>1, OneLess
  <2>3. CASE waiters = <<>>
    <3>1. permits' = permits + 1 /\ queue' = queue /\ Granted' = Granted
      BY <1>2, <2>3 DEF Release, GivePermit, Granted
    <3> QED  BY <2>2, <3>1
  <2>4. CASE waiters # <<>>
    <3>1. Head(waiters) \in Readers /\ rpc[Head(waiters)] = "waiting"
      BY <2>4 DEF WaitersInv
    <3>2. /\ rpc' = [rpc EXCEPT ![Head(waiters)] = "granted"]
          /\ permits' = permits /\ queue' = queue
      BY <1>2, <2>4 DEF Release, GivePermit
    <3>3. Head(waiters) \notin Granted /\ Granted' = Granted \cup {Head(waiters)}
      BY <3>1, <3>2 DEF Granted
    <3>4. Cardinality(Granted') = Cardinality(Granted) + 1
      BY <3>3, OneMore
    <3> QED  BY <2>2, <3>2, <3>4
  <2> QED  BY <2>3, <2>4
<1>3. ASSUME NEW r \in Readers, BeginRead(r)  PROVE CountInv'
  <2>1. Signalling' = Signalling /\ queue' = queue
    BY <1>3 DEF BeginRead, Signalling
  <2>2. CASE permits > 0
    <3>1. r \notin Granted /\ Granted' = Granted \cup {r} /\ permits' = permits - 1
      BY <1>3, <2>2 DEF BeginRead, Granted
    <3>2. Cardinality(Granted') = Cardinality(Granted) + 1
      BY <3>1, OneMore
    <3> QED  BY <2>1, <3>1, <3>2
  <2>3. CASE ~(permits > 0)
    <3>1. Granted' = Granted /\ permits' = permits
      BY <1>3, <2>3 DEF BeginRead, Granted
    <3> QED  BY <2>1, <3>1
  <2> QED  BY <2>2, <2>3
<1>4. ASSUME NEW r \in Readers, Cancel(r)  PROVE CountInv'
  <2>1. Granted' = Granted /\ Signalling' = Signalling
    BY <1>4 DEF Cancel, Granted, Signalling
  <2>2. queue' = queue /\ permits' = permits
    BY <1>4 DEF Cancel
  <2> QED  BY <2>1, <2>2
<1>5. ASSUME NEW r \in Readers, Dequeue(r)  PROVE CountInv'
  <2>1. r \in Granted /\ Granted' = Granted \ {r}
    BY <1>5 DEF Dequeue, Granted
  <2>2. Cardinality(Granted') = Cardinality(Granted) - 1
    BY <2>1, OneLess
  <2>3. queue # <<>>
    BY <2>1, <2>2, FS_EmptySet
  <2>4. Len(queue') = Len(queue) - 1 /\ permits' = permits
    BY <1>5, <2>3 DEF Dequeue
  <2>5. Signalling' = Signalling
    BY <1>5 DEF Dequeue, Signalling
  <2> QED  BY <2>2, <2>4, <2>5
<1>6. CASE UNCHANGED vars
  BY <1>6 DEF vars, Granted, Signalling
<1> QED  BY <1>1, <1>2, <1>3, <1>4, <1>5, <1>6 DEF Next

LEMMA WaitersStep == IInv /\ [Next]_vars => WaitersInv'
<1> SUFFICES ASSUME IInv, [Next]_vars  PROVE WaitersInv'
  OBVIOUS
<1> USE DEF IInv, TypeOK, WaitersInv
<1>1. ASSUME NEW w \in Writers, Enqueue(w)  PROVE WaitersInv'
  BY <1>1 DEF Enqueue
<1>2. ASSUME NEW w \in Writers, Release(w)  PROVE WaitersInv'
  <2>1. CASE waiters = <<>>
    BY <1>2, <2>1 DEF Release, GivePermit
  <2>2. CASE waiters # <<>>
    <3>1. /\ waiters' = Tail(waiters) /\ permits' = permits
          /\ rpc' = [rpc EXCEPT ![waiters[1]] = "granted"]
      BY <1>2, <2>2 DEF Release, GivePermit
    <3>2. /\ Len(waiters') = Len(waiters) - 1
          /\ \A i \in 1 .. Len(waiters) - 1 : waiters'[i] = waiters[i + 1]
      BY <2>2, <3>1
    <3> QED  BY <2>2, <3>1, <3>2
  <2> QED  BY <2>1, <2>2
<1>3. ASSUME NEW r \in Readers, BeginRead(r)  PROVE WaitersInv'
  <2>1. \A i \in 1 .. Len(waiters) : waiters[i] # r
    BY <1>3 DEF BeginRead
  <2>2. CASE permits > 0
    <3>1. /\ waiters = <<>> /\ waiters' = <<>>
      BY <1>3, <2>2 DEF BeginRead
    <3> QED  BY <3>1
  <2>3. CASE ~(permits > 0)
    <3>1. /\ waiters' = Append(waiters, r) /\ permits' = permits /\ permits = 0
          /\ rpc' = [rpc EXCEPT ![r] = "waiting"]
      BY <1>3, <2>3 DEF BeginRead
    <3> QED  BY <2>1, <3>1
  <2> QED  BY <2>2, <2>3
<1>4. ASSUME NEW r \in Readers, Cancel(r)  PROVE WaitersInv'
  <2>1. PICK i \in 1 .. Len(waiters) :
            waiters[i] = r /\ waiters' = RemoveAt(waiters, i)
    BY <1>4 DEF Cancel
  <2>2. /\ waiters' \in Seq(Readers) /\ Len(waiters') = Len(waiters) - 1
        /\ \A j \in 1 .. Len(waiters') :
               \E k \in 1 .. Len(waiters) : k # i /\ waiters'[j] = waiters[k]
        /\ \A j, k \in 1 .. Len(waiters') : waiters'[j] = waiters'[k] => j = k
    <3>1. waiters \in Seq(Readers)
      OBVIOUS
    <3>2. \A j, k \in 1 .. Len(waiters) : waiters[j] = waiters[k] => j = k
      OBVIOUS
    <3> DEFINE t == RemoveAt(waiters, i)
    <3>3. waiters' = t
      BY <2>1
    <3> HIDE DEF TypeOK, WaitersInv, IInv
    <3>4. /\ t \in Seq(Readers) /\ Len(t) = Len(waiters) - 1
          /\ \A j \in 1 .. Len(t) :
                 \E k \in 1 .. Len(waiters) : k # i /\ t[j] = waiters[k]
          /\ \A j, k \in 1 .. Len(t) : t[j] = t[k] => j = k
      BY <3>1, <3>2, RemoveAtInjective
    <3> HIDE DEF t
    <3> QED  BY <3>3, <3>4
  <2>3. rpc' = [rpc EXCEPT ![r] = "idle"] /\ permits' = permits
    BY <1>4 DEF Cancel
  <2>4. ASSUME NEW j \in 1 .. Len(waiters')  PROVE rpc'[waiters'[j]] = "waiting"
    <3>1. PICK k \in 1 .. Len(waiters) : k # i /\ waiters'[j] = waiters[k]
      BY <2>2
    <3>2. waiters[k] # r /\ waiters[k] \in Readers
      BY <2>1, <3>1
    <3>3. rpc[waiters[k]] = "waiting"
      OBVIOUS
    <3>4. rpc'[waiters[k]] = rpc[waiters[k]]
      BY <2>3, <3>2
    <3> QED  BY <3>1, <3>3, <3>4
  <2>6. waiters' # <<>> => permits' = 0
    BY <2>1, <2>3
  <2> QED  BY <2>2, <2>4, <2>6
<1>5. ASSUME NEW r \in Readers, Dequeue(r)  PROVE WaitersInv'
  BY <1>5 DEF Dequeue
<1>6. CASE UNCHANGED vars
  BY <1>6 DEF vars
<1> QED  BY <1>1, <1>2, <1>3, <1>4, <1>5, <1>6 DEF Next

\* The count of items and the semaphore's queue stay consistent.
THEOREM Invariance == Spec => []IInv
<1>1. Init => CountInv /\ WaitersInv
  <2> SUFFICES ASSUME Init  PROVE CountInv /\ WaitersInv
    OBVIOUS
  <2>1. Granted = {} /\ Signalling = {}
    BY DEF Init, Granted, Signalling
  <2> QED  BY <2>1, FS_EmptySet DEF Init, CountInv, WaitersInv
<1>2. TypeOK /\ TypeOK' /\ CountInv /\ WaitersInv /\ [Next]_vars
          => CountInv' /\ WaitersInv'
  BY CountStep, WaitersStep DEF IInv
<1> QED  BY <1>1, <1>2, TypeCorrect, PTL DEF Spec, IInv

\* gotOne is never false.
THEOREM AlwaysGotOne == Spec => []GotOne
<1>1. IInv => GotOne
  <2> SUFFICES ASSUME IInv, Granted # {}  PROVE queue # <<>>
    BY DEF GotOne
  <2>1. Cardinality(Granted) # 0
    BY FiniteParties, FS_EmptySet
  <2> QED  BY <2>1, FiniteParties DEF IInv, TypeOK, CountInv
<1> QED  BY <1>1, Invariance, PTL

\* No item is left in the queue while a reader waits, but for the ones about
\* to be released or dequeued.
THEOREM NeverStranded == Spec => []NoStrandedItem
<1>1. IInv => NoStrandedItem
  BY FiniteParties DEF IInv, TypeOK, CountInv, WaitersInv, NoStrandedItem
<1> QED  BY <1>1, Invariance, PTL

-----------------------------------------------------------------------------
(* Refinement and order                                                     *)

\* Every step of the queue and semaphore is a Put, a Take or nothing at all
\* of the FIFO buffer.
THEOREM ImplementsBuffer == Spec => Buffer!Spec
<1>1. Init => Buffer!Init
  BY DEF Init, Buffer!Init
<1>2. IInv /\ [Next]_vars => [Buffer!Next]_(Buffer!queueVars)
  <2> SUFFICES ASSUME IInv, [Next]_vars
               PROVE  Buffer!Next \/ UNCHANGED <<queue, taken>>
    BY DEF Buffer!queueVars
  <2>1. ASSUME NEW w \in Writers, Enqueue(w)
        PROVE  Buffer!Next
    <3>1. <<w, written[w] + 1>> \in Item
      BY <2>1, ConstantsOK DEF Enqueue, IInv, TypeOK, Item
    <3>2. Buffer!Put(<<w, written[w] + 1>>)
      BY <2>1 DEF Enqueue, Buffer!Put
    <3> QED  BY <3>1, <3>2 DEF Buffer!Next
  <2>2. ASSUME NEW r \in Readers, Dequeue(r)
        PROVE  Buffer!Next
    <3>1. queue # <<>>
      <4>1. r \in Granted
        BY <2>2 DEF Dequeue, Granted
      <4>2. Cardinality(Granted) # 0
        BY <4>1, FiniteParties, FS_EmptySet
      <4> QED  BY <4>2, FiniteParties DEF IInv, TypeOK, CountInv
    <3> QED  BY <2>2, <3>1 DEF Dequeue, Buffer!Take, Buffer!Next
  <2>3. ASSUME NEW w \in Writers, Release(w)
        PROVE  UNCHANGED <<queue, taken>>
    BY <2>3 DEF Release
  <2>4. ASSUME NEW r \in Readers, BeginRead(r) \/ Cancel(r)
        PROVE  UNCHANGED <<queue, taken>>
    BY <2>4 DEF BeginRead, Cancel
  <2>5. CASE UNCHANGED vars
    BY <2>5 DEF vars
  <2> QED  BY <2>1, <2>2, <2>3, <2>4, <2>5 DEF Next
<1> QED  BY <1>1, <1>2, Invariance, PTL DEF Spec, Buffer!Spec

\* A dequeue always finds an item, so it moves it from the queue to its reader.
LEMMA DequeueMoves ==
  ASSUME IInv, NEW r \in Readers, Dequeue(r)
  PROVE  taken' \o queue' = taken \o queue
<1>1. r \in Granted
  BY DEF Dequeue, Granted
<1>2. Cardinality(Granted) # 0
  BY <1>1, FiniteParties, FS_EmptySet
<1>3. queue # <<>>
  BY <1>2, FiniteParties DEF IInv, TypeOK, CountInv
<1>4. taken' = Append(taken, Head(queue)) /\ queue' = Tail(queue)
  BY <1>3 DEF Dequeue
<1>5. taken \in Seq(Item \cup {NoItem}) /\ queue \in Seq(Item \cup {NoItem})
  BY DEF IInv, TypeOK
<1> QED  BY <1>3, <1>4, <1>5, MoveHead

\* What was returned followed by what is queued is exactly what was written,
\* each writer's items in its order: nothing lost, doubled or overtaken.
THEOREM ReadOnceInOrder == Spec => []ExactlyOnceInOrder
<1>1. Init => ExactlyOnceInOrder
  BY DEF Init, ExactlyOnceInOrder
<1>2. IInv /\ ExactlyOnceInOrder /\ [Next]_vars => ExactlyOnceInOrder'
  <2> SUFFICES ASSUME IInv, ExactlyOnceInOrder, [Next]_vars
               PROVE  ExactlyOnceInOrder'
    OBVIOUS
  <2> DEFINE all == taken \o queue
  <2>1. ASSUME NEW w \in Writers, Enqueue(w)  PROVE ExactlyOnceInOrder'
    <3> DEFINE x == <<w, written[w] + 1>>
    <3>1. /\ written \in [Writers -> 0 .. MaxWrites] /\ written[w] + 1 \in 1 .. MaxWrites
          /\ taken \in Seq(Item \cup {NoItem}) /\ queue \in Seq(Item \cup {NoItem})
      BY <2>1, ConstantsOK DEF Enqueue, IInv, TypeOK
    <3>2. /\ written' = [written EXCEPT ![w] = written[w] + 1]
          /\ taken' = taken /\ queue' = Append(queue, x)
      BY <2>1 DEF Enqueue
    <3>3. x \in Item
      BY <3>1 DEF Item
    <3>4. all \in Seq(Item \cup {NoItem}) /\ all' = Append(all, x)
      BY <3>1, <3>2, <3>3, AppendRight
    <3>5. /\ Len(all') = Len(all) + 1 /\ Len(all) \in Nat
          /\ \A i \in 1 .. Len(all) : all'[i] = all[i]
          /\ all'[Len(all) + 1] = x
      BY <3>3, <3>4, AppendProperties
    <3>6. \A i \in 1 .. Len(all) : all[i] \in Item /\ all[i][2] <= written[all[i][1]]
      BY DEF ExactlyOnceInOrder
    <3>7. \A v \in Writers : \A n \in 1 .. written[v] :
              \E i \in 1 .. Len(all) : all[i] = <<v, n>>
      BY DEF ExactlyOnceInOrder
    <3>8. \A i, j \in 1 .. Len(all) :
              i < j /\ all[i][1] = all[j][1] => all[i][2] < all[j][2]
      BY DEF ExactlyOnceInOrder
    <3> HIDE DEF all
    <3>9. \A i \in 1 .. Len(all') : all'[i] \in Item /\ all'[i][2] <= written'[all'[i][1]]
      <4> SUFFICES ASSUME NEW i \in 1 .. Len(all')
                   PROVE  all'[i] \in Item /\ all'[i][2] <= written'[all'[i][1]]
        OBVIOUS
      <4>1. CASE i \in 1 .. Len(all)
        <5>1. /\ all'[i] = all[i] /\ all[i][1] \in Writers /\ all[i][2] \in 1 .. MaxWrites
              /\ all[i] \in Item /\ all[i][2] <= written[all[i][1]]
          BY <3>5, <3>6, <4>1 DEF Item
        <5>2. written'[all[i][1]] >= written[all[i][1]]
          BY <3>1, <3>2, <5>1
        <5>3. written[all[i][1]] \in Nat /\ written'[all[i][1]] \in Nat
          BY <3>1, <3>2, <5>1, ConstantsOK
        <5> HIDE DEF Item
        <5> QED  BY <5>1, <5>2, <5>3
      <4>2. CASE i = Len(all) + 1
        <5>1. all'[i] = x /\ x[1] = w /\ x[2] = written[w] + 1
          BY <3>5, <4>2
        <5>2. written'[w] = written[w] + 1 /\ written[w] + 1 \in Nat
          BY <3>1, <3>2
        <5> QED  BY <3>3, <5>1, <5>2
      <4> QED  BY <3>5, <4>1, <4>2
    <3>10. \A v \in Writers : \A n \in 1 .. written'[v] :
              \E i \in 1 .. Len(all') : all'[i] = <<v, n>>
      <4> SUFFICES ASSUME NEW v \in Writers, NEW n \in 1 .. written'[v]
                   PROVE  \E i \in 1 .. Len(all') : all'[i] = <<v, n>>
        OBVIOUS
      <4>1. CASE n \in 1 .. written[v]
        <5>1. PICK i \in 1 .. Len(all) : all[i] = <<v, n>>
          BY <3>7, <4>1
        <5>2. i \in 1 .. Len(all') /\ all'[i] = <<v, n>>
          BY <3>5, <5>1
        <5> QED  BY <5>2
      <4>2. CASE n \notin 1 .. written[v]
        <5>1. v = w /\ n = written[w] + 1
          BY <3>1, <3>2, <4>2
        <5>2. Len(all) + 1 \in 1 .. Len(all') /\ all'[Len(all) + 1] = <<v, n>>
          BY <3>5, <5>1
        <5> QED  BY <5>2
      <4> QED  BY <4>1, <4>2
    <3>11. \A i, j \in 1 .. Len(all') :
              i < j /\ all'[i][1] = all'[j][1] => all'[i][2] < all'[j][2]
      <4> SUFFICES ASSUME NEW i \in 1 .. Len(all'), NEW j \in 1 .. Len(all'),
                          i < j, all'[i][1] = all'[j][1]
                   PROVE  all'[i][2] < all'[j][2]
        OBVIOUS
      <4>1. i \in 1 .. Len(all) /\ all'[i] = all[i]
        BY <3>5
      <4>2. CASE j \in 1 .. Len(all)
        BY <3>5, <3>8, <4>1, <4>2
      <4>3. CASE j = Len(all) + 1
        <5>1. all[i][1] = w /\ all'[j][2] = written[w] + 1
          BY <3>5, <4>1, <4>3
        <5>2. all[i][2] <= written[w] /\ all[i][2] \in 1 .. MaxWrites
          BY <3>6, <4>1, <5>1 DEF Item
        <5> QED  BY <3>1, <4>1, <5>1, <5>2
      <4> QED  BY <3>5, <4>2, <4>3
    <3> QED  BY <3>9, <3>10, <3>11 DEF ExactlyOnceInOrder, all
  <2>2. ASSUME all' = all, written' = written  PROVE ExactlyOnceInOrder'
    BY <2>2 DEF ExactlyOnceInOrder
  <2>3. ASSUME NEW r \in Readers, Dequeue(r)  PROVE ExactlyOnceInOrder'
    <3>1. written' = written
      BY <2>3 DEF Dequeue
    <3> QED  BY <2>2, <2>3, <3>1, DequeueMoves
  <2>4. ASSUME NEW w \in Writers, Release(w)  PROVE ExactlyOnceInOrder'
    BY <2>2, <2>4 DEF Release
  <2>5. ASSUME NEW r \in Readers, BeginRead(r) \/ Cancel(r)  PROVE ExactlyOnceInOrder'
    BY <2>2, <2>5 DEF BeginRead, Cancel
  <2>6. CASE UNCHANGED vars
    BY <2>2, <2>6 DEF vars
  <2> QED  BY <2>1, <2>3, <2>4, <2>5, <2>6 DEF Next
<1> QED  BY <1>1, <1>2, Invariance, PTL DEF Spec
=============================================================================
