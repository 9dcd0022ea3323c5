------------------------ MODULE ConcurrencyQueueProofs ------------------------
(***************************************************************************)
(* Proofs about ConcurrencyQueue for any set of calls and any limit: the   *)
(* four invariants the run checks are, together, inductive, and admission  *)
(* is in the order of arrival.                                             *)
(***************************************************************************)
EXTENDS ConcurrencyQueue, FiniteSetTheorems, SequenceTheorems, TLAPS

\* splice: taking one element out of a sequence: the others stay in their order.
LEMMA RemoveAtProperties ==
    ASSUME NEW S, NEW q \in Seq(S), NEW i \in 1..Len(q)
    PROVE  /\ RemoveAt(q, i) \in Seq(S)
           /\ Len(RemoveAt(q, i)) = Len(q) - 1
           /\ \A j \in 1..(Len(q) - 1) :
                  RemoveAt(q, i)[j] = IF j < i THEN q[j] ELSE q[j + 1]
<1> DEFINE a == SubSeq(q, 1, i - 1)
           b == SubSeq(q, i + 1, Len(q))
<1>1. /\ a \in Seq(S) /\ Len(a) = i - 1 /\ \A j \in 1..(i - 1) : a[j] = q[j]
      /\ b \in Seq(S) /\ Len(b) = Len(q) - i /\ \A j \in 1..(Len(q) - i) : b[j] = q[i + j]
  OBVIOUS
<1>2. RemoveAt(q, i) = a \o b
  BY DEF RemoveAt
<1> HIDE DEF a, b
<1>3. Len(q) \in Nat
  OBVIOUS
<1>4. a \o b \in Seq(S) /\ Len(a \o b) = Len(q) - 1
  <2>1. a \in Seq(S) /\ b \in Seq(S)
    BY <1>1
  <2>2. a \o b \in Seq(S) /\ Len(a \o b) = Len(a) + Len(b)
    BY <2>1
  <2> QED BY <1>1, <1>3, <2>2
<1>5. ASSUME NEW j \in 1..(Len(q) - 1) PROVE (a \o b)[j] = IF j < i THEN q[j] ELSE q[j + 1]
  <2>1. CASE j < i
    BY <1>1, <1>3, <2>1
  <2>2. CASE ~(j < i)
    <3>1. j - (i - 1) \in 1..(Len(q) - i) /\ i + (j - (i - 1)) = j + 1
      BY <1>3, <2>2
    <3>2. (a \o b)[j] = b[j - (i - 1)]
      BY <1>1, <1>3, <2>2
    <3> QED BY <1>1, <2>2, <3>1, <3>2
  <2> QED BY <2>1, <2>2
<1> QED BY <1>2, <1>4, <1>5

Distinct(q) == \A i, j \in 1..Len(q) : q[i] = q[j] => i = j

NotIn(q, h) == \A i \in 1..Len(q) : q[i] \notin h

\* Finite sets of calls have a cardinality that behaves as a number.
LEMMA HoldersFinite ==
    ASSUME NEW h \in SUBSET Calls
    PROVE  IsFiniteSet(h) /\ Cardinality(h) \in Nat
BY FS_Subset, FS_CardinalityType, CallsAssumption

\* What resolveNext does to a queue whose entries are distinct and hold
\* nothing: it conserves waiters plus holders, keeps them apart, and admits one
\* call whenever it leaves anyone waiting.
LEMMA ResolveNextProperties ==
    ASSUME NEW q \in Seq(Calls), NEW h \in SUBSET Calls,
           Distinct(q), NotIn(q, h), ResolveNext(q, h)
    PROVE  /\ queue' \in Seq(Calls)
           /\ holders' \in SUBSET Calls
           /\ Distinct(queue)'
           /\ NotIn(queue, holders)'
           /\ Len(queue') + Cardinality(holders') = Len(q) + Cardinality(h)
           /\ queue' # <<>> => Cardinality(holders') = Cardinality(h) + 1
<1>1. CASE q = <<>>
  BY <1>1, EmptySeq DEF ResolveNext, Distinct, NotIn
<1>2. CASE q # <<>>
  <2>1. /\ Len(q) \in Nat \ {0}
        /\ Head(q) = q[1] /\ q[1] \in Calls
        /\ Tail(q) \in Seq(Calls) /\ Len(Tail(q)) = Len(q) - 1
        /\ \A k \in 1..(Len(q) - 1) : Tail(q)[k] = q[k + 1]
    BY <1>2, EmptySeq, HeadTailProperties, LenProperties
  <2>2. queue' = Tail(q) /\ holders' = h \cup {q[1]}
    BY <1>2, <2>1 DEF ResolveNext
  <2>3. Distinct(queue)'
    BY <2>1, <2>2 DEF Distinct
  <2>4. NotIn(queue, holders)'
    BY <2>1, <2>2 DEF Distinct, NotIn
  <2>5. Cardinality(holders') = Cardinality(h) + 1
    <3>1. q[1] \notin h
      BY <2>1 DEF NotIn
    <3> QED  BY <2>2, <3>1, HoldersFinite, FS_AddElement
  <2> QED  BY <2>1, <2>2, <2>3, <2>4, <2>5, HoldersFinite
<1> QED  BY <1>1, <1>2

-----------------------------------------------------------------------------

IndInv == TypeOK /\ NoDuplicateWait /\ SlotAccounting /\ NoIdleSlot

\* NoDuplicateWait in the vocabulary of the lemmas.
LEMMA NoDuplicateWaitSplit ==
    NoDuplicateWait <=> Distinct(queue) /\ NotIn(queue, holders)
BY DEF NoDuplicateWait, Distinct, NotIn, Waiting

\* The same of the state after a step.
LEMMA NoDuplicateWaitSplitNext ==
    NoDuplicateWait' <=> Distinct(queue)' /\ NotIn(queue, holders)'
BY DEF NoDuplicateWait, Distinct, NotIn, Waiting

\* A queue as the constructor leaves it satisfies the invariant.
LEMMA InitEstablishes == QueueInit => IndInv
<1> SUFFICES ASSUME QueueInit PROVE IndInv
  OBVIOUS
<1>1. Len(queue) = 0 /\ queue \in Seq(Calls)
  BY EmptySeq DEF QueueInit
<1>2. Cardinality(holders) = 0
  BY FS_EmptySet DEF QueueInit
<1> QED
  BY <1>1, <1>2, LimitAssumption
  DEF QueueInit, IndInv, TypeOK, NoDuplicateWait, SlotAccounting, NoIdleSlot, Waiting

\* Throttling preserves the invariant: with capacity left the call is admitted,
\* below zero it goes to the end of the queue.
LEMMA ThrottlePreserves ==
    ASSUME IndInv, NEW c \in Calls, Throttle(c)
    PROVE  IndInv'
<1>0. /\ capacity \in Int /\ queue \in Seq(Calls) /\ holders \in SUBSET Calls
      /\ Len(queue) \in Nat /\ Cardinality(holders) \in Nat
      /\ capacity = Limit - Len(queue) - Cardinality(holders)
      /\ capacity' = capacity - 1
      /\ c \notin holders /\ \A i \in 1..Len(queue) : queue[i] # c
  BY HoldersFinite, LenProperties
  DEF IndInv, TypeOK, SlotAccounting, Throttle, Enqueue, Waiting
<1>1. CASE capacity' < 0
  <2>1. queue' = Append(queue, c) /\ holders' = holders
    BY <1>1 DEF Throttle, Enqueue
  <2>2. /\ queue' \in Seq(Calls) /\ Len(queue') = Len(queue) + 1
        /\ \A i \in 1..Len(queue) : queue'[i] = queue[i]
        /\ queue'[Len(queue) + 1] = c
    BY <1>0, <2>1, AppendProperties
  <2>3. TypeOK' /\ SlotAccounting'
    BY <1>0, <2>1, <2>2, LimitAssumption DEF TypeOK, SlotAccounting
  <2>4. Distinct(queue)' /\ NotIn(queue, holders)'
    <3>1. Distinct(queue) /\ NotIn(queue, holders)
      BY NoDuplicateWaitSplit DEF IndInv
    <3> QED  BY <1>0, <2>1, <2>2, <3>1 DEF Distinct, NotIn
  <2>5. NoIdleSlot'
    <3>1. CASE queue = <<>>
      BY <1>0, <1>1, <2>1, <3>1, EmptySeq, LimitAssumption DEF NoIdleSlot
    <3>2. CASE queue # <<>>
      BY <2>1, <3>2 DEF IndInv, NoIdleSlot
    <3> QED  BY <3>1, <3>2
  <2> QED  BY <2>3, <2>4, <2>5, NoDuplicateWaitSplitNext DEF IndInv
<1>2. CASE ~(capacity' < 0)
  <2>1. queue' = queue /\ holders' = holders \cup {c}
    BY <1>2 DEF Throttle, Enqueue
  <2>2. Cardinality(holders') = Cardinality(holders) + 1
    BY <1>0, <2>1, HoldersFinite, FS_AddElement
  <2>3. TypeOK' /\ SlotAccounting'
    BY <1>0, <2>1, <2>2, LimitAssumption DEF TypeOK, SlotAccounting
  <2>4. Distinct(queue)' /\ NotIn(queue, holders)'
    <3>1. Distinct(queue) /\ NotIn(queue, holders)
      BY NoDuplicateWaitSplit DEF IndInv
    <3> QED  BY <1>0, <2>1, <3>1 DEF Distinct, NotIn
  <2>5. NoIdleSlot'
    BY <1>0, <2>1, <2>2, LimitAssumption DEF IndInv, NoIdleSlot
  <2> QED  BY <2>3, <2>4, <2>5, NoDuplicateWaitSplitNext DEF IndInv
<1> QED  BY <1>1, <1>2

\* Releasing preserves the invariant: the slot given back goes to the oldest waiter.
LEMMA ReleasePreserves ==
    ASSUME IndInv, NEW c \in Calls, Release(c)
    PROVE  IndInv'
<1> DEFINE h == holders \ {c}
<1>0. /\ capacity \in Int /\ queue \in Seq(Calls) /\ h \in SUBSET Calls
      /\ Len(queue) \in Nat /\ Cardinality(h) \in Nat
      /\ Cardinality(holders) = Cardinality(h) + 1
      /\ capacity = Limit - Len(queue) - Cardinality(holders)
      /\ capacity' = capacity + 1
      /\ ResolveNext(queue, h)
  <2>1. /\ capacity \in Int /\ queue \in Seq(Calls) /\ holders \in SUBSET Calls
        /\ capacity = Limit - Len(queue) - Cardinality(holders)
        /\ c \in holders
        /\ capacity' = capacity + 1
        /\ ResolveNext(queue, h)
    BY DEF IndInv, TypeOK, SlotAccounting, Release, Dequeue
  <2>2. h \in SUBSET Calls
    BY <2>1
  <2>3. /\ IsFiniteSet(holders) /\ Cardinality(holders) \in Nat
        /\ Cardinality(h) \in Nat
    BY <2>1, <2>2, HoldersFinite
  <2>4. Cardinality(h) = Cardinality(holders) - 1
    BY <2>1, <2>3, FS_RemoveElement
  <2>5. Len(queue) \in Nat
    BY <2>1, LenProperties
  <2> HIDE DEF h
  <2> QED  BY <2>1, <2>2, <2>3, <2>4, <2>5
<1>1. Distinct(queue) /\ NotIn(queue, h)
  BY NoDuplicateWaitSplit DEF IndInv, NotIn
<1> HIDE DEF h
<1>2. /\ queue' \in Seq(Calls) /\ holders' \in SUBSET Calls
      /\ Distinct(queue)' /\ NotIn(queue, holders)'
      /\ Len(queue') + Cardinality(holders') = Len(queue) + Cardinality(h)
      /\ queue' # <<>> => Cardinality(holders') = Cardinality(h) + 1
  BY <1>0, <1>1, ResolveNextProperties
<1>3. Len(queue') \in Nat /\ Cardinality(holders') \in Nat
  BY <1>2, HoldersFinite, LenProperties
<1>4. TypeOK' /\ SlotAccounting'
  BY <1>0, <1>2, <1>3, LimitAssumption DEF TypeOK, SlotAccounting
<1>5. NoIdleSlot'
  <2>1. queue' # <<>> => queue # <<>>
    BY <1>0 DEF ResolveNext
  <2> QED  BY <1>0, <1>2, <2>1 DEF IndInv, NoIdleSlot
<1> QED  BY <1>2, <1>4, <1>5, NoDuplicateWaitSplitNext DEF IndInv

\* Removing a waiter from any place of the queue preserves the invariant.
LEMMA RemovePreserves ==
    ASSUME IndInv, NEW e \in Executions, RemoveQueued(e)
    PROVE  IndInv'
<1>1. PICK i \in 1..Len(queue) : RemoveEntry(e, i)
  BY DEF RemoveQueued
<1> DEFINE q == RemoveAt(queue, i)
<1>0. /\ capacity \in Int /\ queue \in Seq(Calls) /\ holders \in SUBSET Calls
      /\ Len(queue) \in Nat /\ Cardinality(holders) \in Nat
      /\ capacity = Limit - Len(queue) - Cardinality(holders)
      /\ capacity' = capacity + 1
      /\ ResolveNext(q, holders)
  BY <1>1, HoldersFinite, LenProperties
  DEF IndInv, TypeOK, SlotAccounting, RemoveEntry
<1>2. /\ q \in Seq(Calls) /\ Len(q) = Len(queue) - 1
      /\ \A j \in 1..(Len(queue) - 1) : q[j] = IF j < i THEN queue[j] ELSE queue[j + 1]
  BY <1>0, RemoveAtProperties
<1> HIDE DEF q
<1>3. Distinct(queue) /\ NotIn(queue, holders)
  BY NoDuplicateWaitSplit DEF IndInv
<1>4. Distinct(q) /\ NotIn(q, holders)
  <2> DEFINE at(j) == IF j < i THEN j ELSE j + 1
  <2>1. \A j \in 1..Len(q) : at(j) \in 1..Len(queue) /\ q[j] = queue[at(j)]
    BY <1>0, <1>2
  <2>2. \A j, k \in 1..Len(q) : at(j) = at(k) => j = k
    BY <1>0, <1>2
  <2> HIDE DEF at
  <2> QED  BY <1>3, <2>1, <2>2 DEF Distinct, NotIn
<1>5. /\ queue' \in Seq(Calls) /\ holders' \in SUBSET Calls
      /\ Distinct(queue)' /\ NotIn(queue, holders)'
      /\ Len(queue') + Cardinality(holders') = Len(q) + Cardinality(holders)
      /\ queue' # <<>> => Cardinality(holders') = Cardinality(holders) + 1
  BY <1>0, <1>2, <1>4, ResolveNextProperties
<1>6. Len(queue') \in Nat /\ Cardinality(holders') \in Nat
  BY <1>5, HoldersFinite, LenProperties
<1>7. TypeOK' /\ SlotAccounting'
  <2> DEFINE n == Len(queue)
             m == Cardinality(holders)
             n1 == Len(queue')
             m1 == Cardinality(holders')
  <2>1. /\ capacity' \in Int /\ Limit \in Nat
        /\ n \in Nat /\ m \in Nat /\ n1 \in Nat /\ m1 \in Nat
    BY <1>0, <1>6, LimitAssumption
  <2>2. n1 + m1 + 1 = n + m
    BY <1>0, <1>2, <1>5
  <2>3. capacity' + n + m = Limit + 1
    BY <1>0, LimitAssumption
  <2>4. capacity' = Limit - n1 - m1
    <3> HIDE DEF n, m, n1, m1
    <3>1. PICK cap \in Int : capacity' = cap
      BY <2>1
    <3>2. cap + n + m = Limit + 1
      BY <2>3, <3>1
    <3>3. cap = Limit - n1 - m1
      BY <2>1, <2>2, <3>2
    <3> QED  BY <3>1, <3>3
  <2> QED  BY <1>0, <1>5, <2>4 DEF TypeOK, SlotAccounting
<1>8. NoIdleSlot'
  <2>1. queue # <<>>
    BY <1>0, EmptySeq
  <2> QED  BY <1>0, <1>5, <2>1, LimitAssumption DEF IndInv, NoIdleSlot
<1> QED  BY <1>5, <1>7, <1>8, NoDuplicateWaitSplitNext DEF IndInv

\* Every step, stuttering included, preserves the invariant.
LEMMA NextPreserves == IndInv /\ [Next]_queueVars => IndInv'
<1> SUFFICES ASSUME IndInv, [Next]_queueVars PROVE IndInv'
  OBVIOUS
<1>1. ASSUME NEW c \in Calls, Throttle(c) PROVE IndInv'
  BY <1>1, ThrottlePreserves
<1>2. ASSUME NEW c \in Calls, Release(c) PROVE IndInv'
  BY <1>2, ReleasePreserves
<1>3. ASSUME NEW e \in Executions, RemoveQueued(e) PROVE IndInv'
  BY <1>3, RemovePreserves
<1>4. CASE UNCHANGED queueVars
  BY <1>4 DEF queueVars, IndInv, TypeOK, NoDuplicateWait, SlotAccounting, NoIdleSlot, Waiting
<1> QED  BY <1>1, <1>2, <1>3, <1>4 DEF Next

\* The four invariants together are inductive.
THEOREM Inductive == Spec => []IndInv
BY InitEstablishes, NextPreserves, PTL DEF Spec

\* The queue's variables keep their types, for any calls and any limit.
THEOREM TypeCorrect == Spec => []TypeOK
BY Inductive, PTL DEF IndInv

\* Throttle, release and remove never lose and never invent a unit of capacity.
THEOREM CapacityConserved == Spec => []SlotAccounting
BY Inductive, PTL DEF IndInv

\* Nobody waits while a slot is free: dequeue and remove never leave the oldest
\* waiter behind.
THEOREM NoLostWakeup == Spec => []NoIdleSlot
BY Inductive, PTL DEF IndInv

\* A call waits at most once and never waits while it holds a slot.
THEOREM WaitsOnce == Spec => []NoDuplicateWait
BY Inductive, PTL DEF IndInv

-----------------------------------------------------------------------------
(* Admission in the order of arrival.                                      *)

InOrder ==
    \A i, j \in 1..Len(queue) :
        i < j /\ queue[j] \in holders' => queue[i] \notin {queue'[k] : k \in 1..Len(queue')}

\* resolveNext admits the head of the queue it is given: whoever is admitted from
\* a place further back in a queue with distinct entries was at that head.
LEMMA ResolvesHead ==
    ASSUME NEW q \in Seq(Calls), NEW h \in SUBSET Calls,
           Distinct(q), ResolveNext(q, h),
           NEW c, c \in holders', c \notin h
    PROVE  /\ Len(q) \in Nat \ {0}
           /\ c = q[1]
           /\ Len(queue') = Len(q) - 1
           /\ \A k \in 1..Len(queue') : queue'[k] = q[k + 1]
<1>1. q # <<>>
  BY DEF ResolveNext
<1>2. /\ Len(q) \in Nat \ {0}
      /\ Head(q) = q[1]
      /\ Tail(q) \in Seq(Calls) /\ Len(Tail(q)) = Len(q) - 1
      /\ \A k \in 1..(Len(q) - 1) : Tail(q)[k] = q[k + 1]
  BY <1>1, EmptySeq, HeadTailProperties, LenProperties
<1>3. queue' = Tail(q) /\ holders' = h \cup {q[1]}
  BY <1>1, <1>2 DEF ResolveNext
<1> QED  BY <1>2, <1>3

\* Releasing admits the call at position 1, which has nobody ahead of it.
LEMMA ReleaseInOrder ==
    ASSUME IndInv, NEW c \in Calls, Release(c)
    PROVE  InOrder
<1> DEFINE h == holders \ {c}
<1>1. /\ queue \in Seq(Calls) /\ h \in SUBSET Calls /\ Len(queue) \in Nat
      /\ ResolveNext(queue, h)
  BY LenProperties DEF IndInv, TypeOK, Release, Dequeue
<1>2. Distinct(queue) /\ NotIn(queue, h)
  BY NoDuplicateWaitSplit DEF IndInv, NotIn
<1> HIDE DEF h
<1>3. SUFFICES ASSUME NEW i \in 1..Len(queue), NEW j \in 1..Len(queue),
                      i < j, queue[j] \in holders'
               PROVE  FALSE
  BY DEF InOrder
<1>4. queue[j] = queue[1]
  BY <1>1, <1>2, <1>3, ResolvesHead DEF NotIn
<1> QED  BY <1>1, <1>2, <1>3, <1>4 DEF Distinct

\* Removing entry k admits position 1, or position 2 when k is 1: either way
\* nobody ahead of the admitted call is left in the queue.
LEMMA RemoveInOrder ==
    ASSUME IndInv, NEW e \in Executions, RemoveQueued(e)
    PROVE  InOrder
<1>1. PICK p \in 1..Len(queue) : RemoveEntry(e, p)
  BY DEF RemoveQueued
<1> DEFINE q == RemoveAt(queue, p)
           at(n) == IF n < p THEN n ELSE n + 1
<1>2. /\ queue \in Seq(Calls) /\ holders \in SUBSET Calls /\ Len(queue) \in Nat
      /\ ResolveNext(q, holders)
  BY <1>1, LenProperties DEF IndInv, TypeOK, RemoveEntry
<1>3. q \in Seq(Calls) /\ Len(q) = Len(queue) - 1
  BY <1>2, RemoveAtProperties
<1>4. \A n \in 1..Len(q) : at(n) \in 1..Len(queue) /\ q[n] = queue[at(n)]
  BY <1>2, <1>3, RemoveAtProperties
<1> HIDE DEF q
<1>5. Distinct(queue) /\ NotIn(queue, holders)
  BY NoDuplicateWaitSplit DEF IndInv
<1>6. Distinct(q)
  <2>1. \A n, m \in 1..Len(q) : at(n) = at(m) => n = m
    BY <1>2, <1>3
  <2> QED  BY <1>4, <1>5, <2>1 DEF Distinct
<1>7. SUFFICES ASSUME NEW i \in 1..Len(queue), NEW j \in 1..Len(queue),
                      i < j, queue[j] \in holders',
                      NEW k \in 1..Len(queue'), queue[i] = queue'[k]
               PROVE  FALSE
  BY DEF InOrder
<1>8. /\ Len(q) \in Nat \ {0}
      /\ queue[j] = q[1]
      /\ Len(queue') = Len(q) - 1
      /\ queue'[k] = q[k + 1]
  <2>1. queue[j] \notin holders
    BY <1>5 DEF NotIn
  <2> QED  BY <1>2, <1>3, <1>6, <1>7, <2>1, ResolvesHead
<1>9. j = at(1) /\ i = at(k + 1)
  <2>1. 1 \in 1..Len(q) /\ k + 1 \in 1..Len(q)
    BY <1>8
  <2>2. /\ at(1) \in 1..Len(queue) /\ queue[j] = queue[at(1)]
        /\ at(k + 1) \in 1..Len(queue) /\ queue[i] = queue[at(k + 1)]
    BY <1>4, <1>7, <1>8, <2>1
  <2> HIDE DEF at
  <2> QED  BY <1>5, <2>2 DEF Distinct
<1> QED  BY <1>2, <1>7, <1>9

\* Calls are admitted in the order they arrived, for any calls and any limit:
\* neither release nor remove lets a waiter overtake one that keeps waiting.
THEOREM FirstComeFirstServed == Spec => AdmittedInOrder
<1>1. IndInv /\ [Next]_queueVars => [InOrder]_queueVars
  <2> SUFFICES ASSUME IndInv, Next PROVE InOrder
    OBVIOUS
  <2>1. ASSUME NEW c \in Calls, Throttle(c) PROVE InOrder
    <3>1. /\ queue \in Seq(Calls) /\ NotIn(queue, holders)
          /\ c \notin Waiting /\ holders' \in {holders, holders \cup {c}}
      BY <2>1, NoDuplicateWaitSplit DEF IndInv, TypeOK, Throttle, Enqueue
    <3>2. \A j \in 1..Len(queue) : queue[j] \notin holders'
      BY <3>1 DEF NotIn, Waiting
    <3> QED  BY <3>2 DEF InOrder
  <2>2. ASSUME NEW c \in Calls, Release(c) PROVE InOrder
    BY <2>2, ReleaseInOrder
  <2>3. ASSUME NEW e \in Executions, RemoveQueued(e) PROVE InOrder
    BY <2>3, RemoveInOrder
  <2> QED  BY <2>1, <2>2, <2>3 DEF Next
<1> QED  BY <1>1, Inductive, PTL DEF Spec, AdmittedInOrder, InOrder

=============================================================================
