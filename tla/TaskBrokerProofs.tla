---------------------------- MODULE TaskBrokerProofs ----------------------------
(***************************************************************************)
(* Proofs about TaskBroker for any runners, requests, offers, concurrency  *)
(* and mode, each with an invariant of its own:                            *)
(*   - the code of a request is handed to one task at most.  What excludes *)
(*     a second one is the list of pending requests, which a request       *)
(*     enters once and leaves with the acceptance that hands out its code; *)
(*     offers, timers, messages and tasks do not occur in the invariant;   *)
(*   - a runner promises no more than its concurrency: sendOffers counts   *)
(*     open offers and tasks, and everything else only takes from them;    *)
(*   - every variable keeps its type;                                      *)
(*   - settings come to a task that waits for them, or to one that is      *)
(*     gone: the permission to go on travels in one message at a time.     *)
(***************************************************************************)
EXTENDS TaskBroker, FiniteSetTheorems, SequenceTheorems, WellFoundedInduction, TLAPS

-----------------------------------------------------------------------------
(* What splice does to a list, once and in a loop.                         *)

\* Taking one element out of a sequence: the others stay in their order.
LEMMA RemoveAtProperties ==
    ASSUME NEW S, NEW q \in Seq(S), NEW i \in 1..Len(q)
    PROVE  /\ RemoveAt(q, i) \in Seq(S)
           /\ Len(RemoveAt(q, i)) = Len(q) - 1
           /\ \A j \in 1..(Len(q) - 1) :
                  RemoveAt(q, i)[j] = IF j < i THEN q[j] ELSE q[j + 1]
<1> DEFINE a == SubSeq(q, 1, i - 1)
           b == SubSeq(q, i + 1, Len(q))
<1>1. /\ a \in Seq(S) /\ Len(a) = i - 1 /\ \A j \in 1..(i - 1) : a[j] = q[j]
      /\ b \in Seq(S) /\ Len(b) = Len(q) - i /\ \A j \in 1..(Len(q) - i) : b[j] = q[i + j]
  OBVIOUS
<1>2. RemoveAt(q, i) = a \o b
  BY DEF RemoveAt
<1> HIDE DEF a, b
<1>3. Len(q) \in Nat
  OBVIOUS
<1>4. a \o b \in Seq(S) /\ Len(a \o b) = Len(q) - 1
  <2>1. a \in Seq(S) /\ b \in Seq(S)
    BY <1>1
  <2>2. a \o b \in Seq(S) /\ Len(a \o b) = Len(a) + Len(b)
    BY <2>1
  <2> QED BY <1>1, <1>3, <2>2
<1>5. ASSUME NEW j \in 1..(Len(q) - 1) PROVE (a \o b)[j] = IF j < i THEN q[j] ELSE q[j + 1]
  <2>1. CASE j < i
    BY <1>1, <1>3, <2>1
  <2>2. CASE ~(j < i)
    <3>1. j - (i - 1) \in 1..(Len(q) - i) /\ i + (j - (i - 1)) = j + 1
      BY <1>3, <2>2
    <3>2. (a \o b)[j] = b[j - (i - 1)]
      BY <1>1, <1>3, <2>2
    <3> QED BY <1>1, <2>2, <3>1, <3>2
  <2> QED BY <2>1, <2>2
<1> QED BY <1>2, <1>4, <1>5

\* Induction over the naturals, for a set of them.
LEMMA NatSetInduction ==
    ASSUME NEW P, 0 \in P, \A n \in Nat : n \in P => n + 1 \in P
    PROVE  Nat \subseteq P
<1> SUFFICES ASSUME Nat \ P # {} PROVE FALSE
  OBVIOUS
<1>1. PICK m \in Nat \ P : \A n \in Nat \ P : <<n, m>> \notin OpToRel(<, Nat)
  BY NatLessThanWellFounded, WFMin
<1>2. \A n \in Nat \ P : ~(n < m)
  BY <1>1 DEF OpToRel
<1>3. m # 0
  OBVIOUS
<1>4. m - 1 \in Nat /\ m - 1 < m /\ m = (m - 1) + 1
  BY <1>3
<1>5. m - 1 \in P
  BY <1>2, <1>4
<1> QED  BY <1>4, <1>5

\* The recursion of Keep up to position n.
KeepsUpTo(f, s, S, n) ==
    f = [i \in 0..n |-> IF i = 0 THEN <<>>
                       ELSE IF s[i] \in S THEN Append(f[i - 1], s[i]) ELSE f[i - 1]]

LEMMA KeepRecursion ==
    ASSUME NEW s, NEW S, NEW n \in Nat
    PROVE  \E f : KeepsUpTo(f, s, S, n)
<1> DEFINE P == {m \in Nat : \E f : KeepsUpTo(f, s, S, m)}
<1>1. 0 \in P
  <2>1. KeepsUpTo([i \in 0..0 |-> <<>>], s, S, 0)
    BY DEF KeepsUpTo
  <2> QED  BY <2>1
<1>2. ASSUME NEW m \in Nat, m \in P PROVE m + 1 \in P
  <2>1. PICK f : KeepsUpTo(f, s, S, m)
    BY <1>2
  <2> DEFINE last == IF s[m + 1] \in S THEN Append(f[m], s[m + 1]) ELSE f[m]
             g == [i \in 0..(m + 1) |-> IF i = m + 1 THEN last ELSE f[i]]
  <2>2. \A i \in 0..m : g[i] = f[i]
    OBVIOUS
  <2>3. \A i \in 0..m : f[i] = IF i = 0 THEN <<>>
                              ELSE IF s[i] \in S THEN Append(f[i - 1], s[i]) ELSE f[i - 1]
    BY <2>1 DEF KeepsUpTo
  <2>4. g[m + 1] = IF s[m + 1] \in S THEN Append(g[m], s[m + 1]) ELSE g[m]
    BY <2>2
  <2>5. g = [i \in 0..(m + 1) |-> g[i]]
    OBVIOUS
  <2> HIDE DEF g, last
  <2>6. ASSUME NEW i \in 0..(m + 1)
        PROVE  g[i] = IF i = 0 THEN <<>>
                      ELSE IF s[i] \in S THEN Append(g[i - 1], s[i]) ELSE g[i - 1]
    <3>1. CASE i = m + 1
      BY <2>4, <3>1
    <3>2. CASE i \in 0..m /\ i # 0
      <4>1. i - 1 \in 0..m
        BY <3>2
      <4> QED  BY <2>2, <2>3, <3>2, <4>1
    <3>3. CASE i = 0
      BY <2>2, <2>3, <3>3
    <3> QED  BY <3>1, <3>2, <3>3
  <2>7. KeepsUpTo(g, s, S, m + 1)
    BY <2>5, <2>6 DEF KeepsUpTo
  <2> QED  BY <2>7
<1> HIDE DEF P
<1>3. Nat \subseteq P
  BY <1>1, <1>2, NatSetInduction
<1> QED  BY <1>3 DEF P

\* What Keep returns: a list of elements of s that are in S, all of them, and each
\* as often as s has it at most.
LEMMA KeepProperties ==
    ASSUME NEW T, NEW s \in Seq(T), NEW S
    PROVE  /\ Keep(s, S) \in Seq(T)
           /\ \A i \in 1..Len(Keep(s, S)) :
                  Keep(s, S)[i] \in S /\ \E j \in 1..Len(s) : s[j] = Keep(s, S)[i]
           /\ \A j \in 1..Len(s) :
                  s[j] \in S => \E i \in 1..Len(Keep(s, S)) : Keep(s, S)[i] = s[j]
           /\ (\A i, j \in 1..Len(s) : s[i] = s[j] => i = j)
                  => \A i, j \in 1..Len(Keep(s, S)) : Keep(s, S)[i] = Keep(s, S)[j] => i = j
<1>0. Len(s) \in Nat /\ \A j \in 1..Len(s) : s[j] \in T
  BY LenProperties
<1>1. PICK f : KeepsUpTo(f, s, S, Len(s)) /\ Keep(s, S) = f[Len(s)]
  <2>1. \E f : KeepsUpTo(f, s, S, Len(s))
    BY <1>0, KeepRecursion
  <2> QED  BY <2>1 DEF Keep, KeepsUpTo
<1>2. /\ f[0] = <<>>
      /\ \A i \in 1..Len(s) : f[i] = IF s[i] \in S THEN Append(f[i - 1], s[i]) ELSE f[i - 1]
  <2>1. \A i \in 0..Len(s) :
            f[i] = IF i = 0 THEN <<>>
                   ELSE IF s[i] \in S THEN Append(f[i - 1], s[i]) ELSE f[i - 1]
    BY <1>1 DEF KeepsUpTo
  <2>2. 0 \in 0..Len(s) /\ \A i \in 1..Len(s) : i \in 0..Len(s) /\ i # 0
    BY <1>0
  <2> QED  BY <2>1, <2>2
<1> DEFINE Distinct == \A i, j \in 1..Len(s) : s[i] = s[j] => i = j
           Good(k, n) ==
             /\ k \in Seq(T)
             /\ \A i \in 1..Len(k) : k[i] \in S /\ \E j \in 1..n : s[j] = k[i]
             /\ \A j \in 1..n : s[j] \in S => \E i \in 1..Len(k) : k[i] = s[j]
             /\ Distinct => \A i, j \in 1..Len(k) : k[i] = k[j] => i = j
           P == {n \in Nat : n <= Len(s) => Good(f[n], n)}
<1>3. 0 \in P
  <2>1. f[0] \in Seq(T) /\ Len(f[0]) = 0 /\ 1..0 = {}
    BY <1>2
  <2>2. Good(f[0], 0)
    BY <2>1
  <2> QED  BY <2>2
<1>4. ASSUME NEW n \in Nat, n \in P PROVE n + 1 \in P
  <2> HIDE DEF Good
  <2> SUFFICES ASSUME n + 1 <= Len(s) PROVE Good(f[n + 1], n + 1)
    OBVIOUS
  <2> USE DEF Good
  <2> DEFINE k == f[n]
             x == s[n + 1]
  <2>1. n + 1 \in 1..Len(s) /\ x \in T /\ (n + 1) - 1 = n
    BY <1>0
  <2>2. f[n + 1] = IF x \in S THEN Append(k, x) ELSE k
    BY <1>2, <2>1
  <2>3. Good(k, n)
    <3> HIDE DEF Good
    <3>1. n <= Len(s)
      BY <1>0
    <3> QED BY <1>4, <3>1
  <2> HIDE DEF k, x
  <2>4. k \in Seq(T) /\ Len(k) \in Nat
    BY <2>3
  <2>5. CASE x \notin S
    <3>1. f[n + 1] = k
      BY <2>2, <2>5
    <3>2. \A j \in 1..(n + 1) : s[j] \in S => j \in 1..n
      BY <2>5 DEF x
    <3> QED  BY <2>3, <3>1, <3>2
  <2>6. CASE x \in S
    <3> DEFINE l == Append(k, x)
    <3>1. /\ l \in Seq(T) /\ Len(l) = Len(k) + 1 /\ l[Len(k) + 1] = x
          /\ \A i \in 1..Len(k) : l[i] = k[i]
      BY <2>1, <2>4
    <3>2. \A i \in 1..Len(l) : i \in 1..Len(k) \/ i = Len(k) + 1
      BY <2>4, <3>1
    <3>3. 1..n \subseteq 1..(n + 1) /\ n + 1 \in 1..(n + 1)
      OBVIOUS
    <3>4. 1..Len(k) \subseteq 1..Len(l) /\ Len(k) + 1 \in 1..Len(l)
      BY <2>4, <3>1
    <3>5. \A j \in 1..(n + 1) : j \in 1..n \/ j = n + 1
      OBVIOUS
    <3> HIDE DEF l
    <3>6. \A i \in 1..Len(l) : l[i] \in S /\ \E j \in 1..(n + 1) : s[j] = l[i]
      BY <2>3, <2>6, <3>1, <3>2, <3>3 DEF x
    <3>7. \A j \in 1..(n + 1) : s[j] \in S => \E i \in 1..Len(l) : l[i] = s[j]
      <4> SUFFICES ASSUME NEW j \in 1..(n + 1), s[j] \in S PROVE \E i \in 1..Len(l) : l[i] = s[j]
        OBVIOUS
      <4>1. CASE j = n + 1
        BY <3>1, <3>4, <4>1 DEF x
      <4>2. CASE j \in 1..n
        <5>1. PICK i \in 1..Len(k) : k[i] = s[j]
          BY <2>3, <4>2
        <5> QED  BY <3>1, <3>4, <5>1
      <4> QED  BY <3>5, <4>1, <4>2
    <3>8. Distinct => \A i, j \in 1..Len(l) : l[i] = l[j] => i = j
      <4> SUFFICES ASSUME Distinct, NEW i \in 1..Len(l), NEW j \in 1..Len(l), l[i] = l[j]
                   PROVE  i = j
        OBVIOUS
      <4>1. \A m \in 1..Len(k) : k[m] # x
        <5> SUFFICES ASSUME NEW m \in 1..Len(k), k[m] = x PROVE FALSE
          OBVIOUS
        <5>1. PICK p \in 1..n : s[p] = x
          BY <2>3
        <5>2. p \in 1..Len(s) /\ p # n + 1
          BY <1>0
        <5> QED  BY <2>1, <5>1, <5>2 DEF x
      <4>2. CASE i \in 1..Len(k) /\ j \in 1..Len(k)
        BY <2>3, <3>1, <4>2
      <4>3. CASE i = Len(k) + 1 \/ j = Len(k) + 1
        BY <3>1, <3>2, <4>1, <4>3
      <4> QED  BY <3>2, <4>2, <4>3
    <3>9. f[n + 1] = l
      BY <2>2, <2>6 DEF l
    <3> QED  BY <3>1, <3>6, <3>7, <3>8, <3>9
  <2> QED  BY <2>5, <2>6
<1> HIDE DEF P
<1>5. Nat \subseteq P
  BY <1>3, <1>4, NatSetInduction
<1>6. Good(f[Len(s)], Len(s))
  BY <1>0, <1>5 DEF P
<1> QED  BY <1>1, <1>6

-----------------------------------------------------------------------------
(* The code of a request.                                                  *)

Once(s) == \A i, j \in 1..Len(s) : s[i] = s[j] => i = j

\* The lists and functions the argument is about.
Shapes ==
    /\ pending \in Seq(Requests)
    /\ DOMAIN request = Requests /\ DOMAIN given = Requests

\* A request that was not made, or that is pending, has handed out nothing.
Unused(q) ==
    /\ request[q] = "idle" => ~Pending(q)
    /\ request[q] = "idle" \/ Pending(q) => given[q] = {}

Given(q) == \A o, p \in given[q] : o = p

PendingInv ==
    /\ Shapes
    /\ Once(pending)
    /\ \A q \in Requests : Unused(q) /\ Given(q)

\* A step that adds nobody to the list, hands out nothing and begins no request.
LEMMA Quiet ==
    ASSUME PendingInv, pending' = pending, given' = given, DOMAIN request' = Requests,
           \A q \in Requests : request'[q] = "idle" => request[q] = "idle"
    PROVE  PendingInv'
BY DEF PendingInv, Shapes, Unused, Given, Once, Pending

LEMMA AnswerShape ==
    ASSUME Shapes, NEW q, NEW a \in Answers, Answer(q, a)
    PROVE  /\ given' = given /\ DOMAIN request' = Requests
           /\ \A p \in Requests : request'[p] = "idle" => request[p] = "idle"
BY DEF Shapes, Answer, Answers

LEMMA EndTaskShape ==
    ASSUME Shapes, NEW o, NEW a \in Answers, EndTask(o, a)
    PROVE  /\ given' = given /\ DOMAIN request' = Requests
           /\ \A p \in Requests : request'[p] = "idle" => request[p] = "idle"
BY AnswerShape DEF EndTask, requesterVars, Shapes

\* A request that is spliced out is gone from the list, and nobody comes in.
LEMMA SpliceShape ==
    ASSUME PendingInv, NEW q, Splice(q)
    PROVE  /\ pending' \in Seq(Requests) /\ Once(pending')
           /\ q \in Requests /\ Pending(q) /\ ~Pending(q)'
           /\ \A p \in Requests : Pending(p)' => Pending(p)
<1>1. pending \in Seq(Requests) /\ Once(pending) BY DEF PendingInv, Shapes
<1>2. PICK i \in 1..Len(pending) : pending[i] = q /\ pending' = RemoveAt(pending, i)
    BY DEF Splice
<1>3. /\ pending' \in Seq(Requests) /\ Len(pending') = Len(pending) - 1
      /\ \A j \in 1..(Len(pending) - 1) :
             pending'[j] = IF j < i THEN pending[j] ELSE pending[j + 1]
    BY <1>1, <1>2, RemoveAtProperties
<1> DEFINE at(j) == IF j < i THEN j ELSE j + 1
<1>4. \A j \in 1..Len(pending') : at(j) \in 1..Len(pending) /\ at(j) # i /\ pending'[j] = pending[at(j)]
    BY <1>1, <1>3
<1>5. \A j, k \in 1..Len(pending') : at(j) = at(k) => j = k
    BY <1>1, <1>3
<1>6. Once(pending')
    BY <1>1, <1>4, <1>5 DEF Once
<1>9. \A j \in 1..Len(pending') : pending'[j] # q
    BY <1>1, <1>2, <1>4 DEF Once
<1> HIDE DEF at
<1> QED BY <1>1, <1>2, <1>3, <1>4, <1>6, <1>9 DEF Pending

LEMMA RequestedPending ==
    ASSUME PendingInv, NEW q \in Requests, TaskRequested(q)
    PROVE  PendingInv'
<1>1. /\ request[q] = "idle" /\ given' = given /\ DOMAIN request' = Requests
      /\ request'[q] # "idle" /\ \A p \in Requests : p # q => request'[p] = request[p]
    BY DEF TaskRequested, StartTask, PendingInv, Shapes
<1>2. pending \in Seq(Requests) /\ Once(pending) BY DEF PendingInv, Shapes
<1>3. CASE brokerDraining
    BY <1>1, <1>3, Quiet DEF TaskRequested
<1>4. CASE ~brokerDraining
    <2>1. pending' = Append(pending, q)
        BY <1>4 DEF TaskRequested, SettleTasks
    <2>2. /\ pending' \in Seq(Requests) /\ Len(pending') = Len(pending) + 1
          /\ pending'[Len(pending) + 1] = q
          /\ \A i \in 1..Len(pending) : pending'[i] = pending[i]
        BY <1>2, <2>1
    <2>5. ~Pending(q) /\ given[q] = {} BY <1>1 DEF PendingInv, Unused
    <2>6. \A i \in 1..Len(pending) : pending[i] # q BY <2>5 DEF Pending
    <2>7. Once(pending')
        <3> SUFFICES ASSUME NEW i \in 1..Len(pending'), NEW j \in 1..Len(pending'),
                            pending'[i] = pending'[j]
                     PROVE  i = j
            BY DEF Once
        <3>1. Len(pending) \in Nat BY <1>2
        <3>2. i \in 1..Len(pending) \/ i = Len(pending) + 1 BY <2>2, <3>1
        <3>3. j \in 1..Len(pending) \/ j = Len(pending) + 1 BY <2>2, <3>1
        <3> QED BY <1>2, <2>2, <2>6, <3>2, <3>3 DEF Once
    <2>8. \A p \in Requests : p # q /\ Pending(p)' => Pending(p)
        <3>1. Len(pending) \in Nat BY <1>2
        <3> QED BY <2>2, <3>1 DEF Pending
    <2>9. \A p \in Requests : Unused(p)' /\ Given(p)'
        BY <1>1, <2>5, <2>8 DEF PendingInv, Unused, Given
    <2> QED BY <1>1, <2>2, <2>7, <2>9 DEF PendingInv, Shapes
<1> QED BY <1>3, <1>4

LEMMA AcceptedPending ==
    ASSUME PendingInv, NEW r \in Runners, RunnerAccepted(r)
    PROVE  PendingInv'
<1> DEFINE o == Head(toBroker[r]).task
<1>1. CASE UNCHANGED <<pending, requesterVars>>
    BY <1>1, Quiet DEF requesterVars, PendingInv, Shapes
<1>2. ASSUME NEW q \in Requests, Splice(q), TaskReady(q, o)
      PROVE  PendingInv'
    <2>1. /\ pending' \in Seq(Requests) /\ Once(pending')
          /\ Pending(q) /\ ~Pending(q)' /\ \A p \in Requests : Pending(p)' => Pending(p)
        BY <1>2, SpliceShape
    <2>2. /\ DOMAIN request' = Requests /\ DOMAIN given' = Requests
          /\ request'[q] = "running" /\ given'[q] = given[q] \cup {o}
          /\ \A p \in Requests : p # q => request'[p] = request[p] /\ given'[p] = given[p]
        BY <1>2 DEF TaskReady, PendingInv, Shapes
    <2>3. ASSUME NEW p \in Requests, p # q PROVE Unused(p)' /\ Given(p)'
        BY <2>1, <2>2, <2>3 DEF PendingInv, Unused, Given
    <2>4. given[q] = {} BY <1>2, <2>1 DEF PendingInv, Unused
    <2>5. Unused(q)' /\ Given(q)'
        BY <2>1, <2>2, <2>4 DEF Unused, Given
    <2> QED BY <2>1, <2>2, <2>3, <2>5 DEF PendingInv, Shapes
<1>3. Splice(accepting[o]) => accepting[o] \in Requests
    BY DEF Splice, PendingInv, Shapes
<1> QED BY <1>1, <1>2, <1>3 DEF RunnerAccepted

LEMMA ExpiredPending ==
    ASSUME PendingInv, NEW q \in Requests, RequestTimeout(q)
    PROVE  PendingInv'
<1>1. /\ pending' \in Seq(Requests) /\ Once(pending')
      /\ \A p \in Requests : Pending(p)' => Pending(p)
    BY SpliceShape DEF RequestTimeout
<1>2. /\ given' = given /\ DOMAIN request' = Requests
      /\ \A p \in Requests : request'[p] = "idle" => request[p] = "idle"
    BY AnswerShape DEF RequestTimeout, Answers, PendingInv
<1> QED BY <1>1, <1>2 DEF PendingInv, Shapes, Unused, Given

\* All other steps leave the list and what was handed out as they are.
LEMMA OthersPending ==
    ASSUME PendingInv,
           \/ \E q \in Requests : CancelTask(q)
           \/ \E o \in Offers : AcceptTimeout(o) \/ TaskTimeout(o) \/ TaskTimedOut(o) \/ TaskExecuted(o)
           \/ \E r \in Runners :
                 \/ Ignored(r) \/ TaskOffered(r) \/ RunnerRejected(r) \/ TaskEnded(r)
                 \/ OfferAccepted(r) \/ ReceivedSettings(r) \/ TaskCancelled(r) \/ BrokerDrain(r)
                 \/ OfferInterval(r) \/ DeregisterRunner(r) \/ StopRunner(r) \/ RunnerExits(r)
           \/ StartDraining
           \/ UNCHANGED vars
    PROVE  PendingInv'
<1>1. Shapes BY DEF PendingInv
<1>2. CASE UNCHANGED <<pending, requesterVars>>
    BY <1>1, <1>2, Quiet DEF requesterVars, Shapes
<1>3. ASSUME NEW q \in Requests, CancelTask(q) PROVE PendingInv'
    BY <1>1, <1>3, AnswerShape, Quiet DEF CancelTask, Answers
<1>4. ASSUME NEW o \in Offers, TaskTimeout(o) PROVE PendingInv'
    BY <1>1, <1>4, EndTaskShape, Quiet DEF TaskTimeout, Answers
<1>5. ASSUME NEW r \in Runners, TaskEnded(r) PROVE PendingInv'
    <2>1. pending' = pending /\ Head(toBroker[r]).type \in Answers
        BY <1>5 DEF TaskEnded, Receive, Answers
    <2>2. CASE UNCHANGED requesterVars BY <1>2, <2>1, <2>2
    <2>3. CASE EndTask(Head(toBroker[r]).task, Head(toBroker[r]).type)
        BY <1>1, <2>1, <2>3, EndTaskShape, Quiet
    <2> QED BY <1>5, <2>2, <2>3 DEF TaskEnded, requesterVars
<1>6. ASSUME NEW r \in Runners, DeregisterRunner(r) PROVE PendingInv'
    <2>1. /\ pending' = pending /\ given' = given /\ DOMAIN request' = Requests
          /\ \A q \in Requests : request'[q] = "idle" => request[q] = "idle"
        BY <1>6 DEF DeregisterRunner
    <2> QED BY <2>1, Quiet
<1>7. ASSUME NEW r \in Runners, TaskOffered(r) PROVE PendingInv'
    BY <1>2, <1>7 DEF TaskOffered, SettleTasks
<1>8. ASSUME NEW r \in Runners,
             \/ Ignored(r) \/ RunnerRejected(r) \/ OfferAccepted(r) \/ ReceivedSettings(r)
             \/ TaskCancelled(r) \/ BrokerDrain(r) \/ OfferInterval(r) \/ StopRunner(r) \/ RunnerExits(r)
      PROVE  PendingInv'
    BY <1>2, <1>8 DEF Ignored, RunnerRejected, OfferAccepted, ReceivedSettings, TaskCancelled,
           BrokerDrain, OfferInterval, StopRunner, RunnerExits, brokerVars
<1>9. ASSUME NEW o \in Offers, AcceptTimeout(o) \/ TaskTimedOut(o) \/ TaskExecuted(o)
      PROVE  PendingInv'
    BY <1>2, <1>9 DEF AcceptTimeout, TaskTimedOut, TaskExecuted, brokerVars
<1>10. CASE StartDraining \/ UNCHANGED vars
    BY <1>2, <1>10 DEF StartDraining, vars, brokerVars
<1> QED BY <1>3, <1>4, <1>5, <1>6, <1>7, <1>8, <1>9, <1>10

\* The code of a request is handed to one task at most, whatever is rejected,
\* times out, arrives late or disappears.
THEOREM CodeRunsOnce == Spec => []SettingsGivenOnce
<1>1. Init => PendingInv
    BY DEF Init, PendingInv, Shapes, Once, Unused, Given, Pending
<1>2. PendingInv /\ [Next]_vars => PendingInv'
    BY RequestedPending, AcceptedPending, ExpiredPending, OthersPending DEF Next, Deliver
<1>3. PendingInv => SettingsGivenOnce
    <2> SUFFICES ASSUME PendingInv, NEW q \in Requests PROVE Cardinality(given[q]) <= 1
        BY DEF SettingsGivenOnce
    <2>1. CASE given[q] = {} BY <2>1, FS_EmptySet
    <2>2. CASE given[q] # {}
        <3>1. PICK o \in given[q] : TRUE BY <2>2
        <3>2. given[q] = {o} BY <3>1 DEF PendingInv, Given
        <3>3. Cardinality({o}) = 1 BY FS_Singleton
        <3> QED BY <3>2, <3>3
    <2> QED BY <2>1, <2>2
<1> QED BY <1>1, <1>2, <1>3, PTL DEF Spec

-----------------------------------------------------------------------------
(* The concurrency of a runner.                                            *)

\* What a runner has promised: its open offers and its tasks.
Promised(r) == (open \cap Of(r)) \cup Busy(r)

ConcurrencyInv ==
    /\ DOMAIN runningTasks = Offers
    /\ \A r \in Runners : Cardinality(Promised(r)) <= MaxConcurrency

LEMMA PromisedFinite ==
    ASSUME NEW r
    PROVE  /\ IsFiniteSet(Of(r)) /\ Of(r) \subseteq Nat
           /\ Promised(r) \subseteq Of(r) /\ IsFiniteSet(Promised(r))
<1>1. IsFiniteSet(Of(r)) /\ Of(r) \subseteq Nat
    BY FS_Subset, OffersAssumption DEF Of
<1>2. Promised(r) \subseteq Of(r)
    BY DEF Promised, Busy
<1> QED BY <1>1, <1>2, FS_Subset

\* Of a finite set of numbers, each has a place of its own below the size of the set.
LEMMA PlaceProperties ==
    ASSUME NEW S, S \subseteq Nat, IsFiniteSet(S)
    PROVE  /\ \A o \in S : Before(S, o) \in 0..(Cardinality(S) - 1)
           /\ \A o, p \in S : Before(S, o) = Before(S, p) => o = p
<1> DEFINE below(o) == {p \in S : p < o}
<1>0. Cardinality(S) \in Nat
    BY FS_CardinalityType
<1>1. \A o \in S : /\ below(o) \subseteq S /\ o \notin below(o)
                   /\ IsFiniteSet(below(o)) /\ Before(S, o) = Cardinality(below(o))
    <2> TAKE o \in S
    <2>1. below(o) \subseteq S OBVIOUS
    <2>2. o \in Nat OBVIOUS
    <2>3. o \notin below(o) BY <2>2
    <2> QED BY <2>1, <2>3, FS_Subset DEF Before
<1>2. ASSUME NEW o \in S, NEW p \in S, p < o PROVE Before(S, p) < Before(S, o)
    <2>1. below(p) \subseteq below(o) /\ p \in below(o)
        <3>1. o \in Nat /\ p \in Nat OBVIOUS
        <3>2. ASSUME NEW q \in S, q < p PROVE q < o
            <4>1. q \in Nat OBVIOUS
            <4> QED BY <1>2, <3>1, <3>2, <4>1
        <3> QED BY <1>2, <3>2
    <2> HIDE DEF below
    <2>2. Cardinality(below(p)) <= Cardinality(below(o)) /\ Cardinality(below(p)) # Cardinality(below(o))
        BY <1>1, <2>1, FS_Subset
    <2>3. Cardinality(below(p)) \in Nat /\ Cardinality(below(o)) \in Nat
        BY <1>1, FS_CardinalityType
    <2> QED BY <1>1, <2>2, <2>3
<1> HIDE DEF below
<1>3. ASSUME NEW o \in S PROVE Before(S, o) \in 0..(Cardinality(S) - 1)
    <2>1. Cardinality(below(o)) \in Nat BY <1>1, FS_CardinalityType
    <2>2. Cardinality(below(o)) <= Cardinality(S) /\ Cardinality(below(o)) # Cardinality(S)
        BY <1>1, FS_Subset
    <2> QED BY <1>0, <1>1, <2>1, <2>2
<1>4. ASSUME NEW o \in S, NEW p \in S, Before(S, o) = Before(S, p), o # p PROVE FALSE
    <2>1. o \in Nat /\ p \in Nat /\ Before(S, o) \in Int BY <1>0, <1>3
    <2>2. o < p \/ p < o BY <1>4, <2>1
    <2> QED BY <1>2, <1>4, <2>1, <2>2
<1> QED BY <1>3, <1>4

\* Every place below its size is taken.
LEMMA PlacesTaken ==
    ASSUME NEW S, S \subseteq Nat, IsFiniteSet(S), NEW i \in 1..Cardinality(S)
    PROVE  \E o \in S : Before(S, o) = i - 1
<1> DEFINE f == [o \in S |-> Before(S, o)]
           P == 0..(Cardinality(S) - 1)
<1>0. Cardinality(S) \in Nat /\ Cardinality(S) - 1 \in Int
    BY FS_CardinalityType
<1>1. IsFiniteSet(P) /\ Cardinality(P) = Cardinality(S)
    <2>1. \A k \in Int : /\ IsFiniteSet(0..k)
                        /\ Cardinality(0..k) = IF 0 > k THEN 0 ELSE k - 0 + 1
        BY FS_Interval
    <2> QED BY <1>0, <2>1 DEF P
<1>2. f \in Injection(S, P)
    BY PlaceProperties DEF Injection, IsInjective
<1> HIDE DEF f, P
<1>3. f \in Surjection(S, P)
    BY <1>1, <1>2, FS_Injection
<1>4. i - 1 \in P
    BY <1>0 DEF P
<1>5. \E o \in S : f[o] = i - 1
    BY <1>3, <1>4 DEF Surjection
<1> QED BY <1>5 DEF f

\* The members that have fewer than n before them are n at most.
LEMMA LowestBounded ==
    ASSUME NEW S, S \subseteq Nat, IsFiniteSet(S), NEW n \in Nat
    PROVE  LET low == {o \in S : Before(S, o) < n}
           IN IsFiniteSet(low) /\ Cardinality(low) <= n
<1> DEFINE low == {o \in S : Before(S, o) < n}
<1>1. \A o \in S : Before(S, o) \in Nat
    <2> TAKE o \in S
    <2>1. Before(S, o) \in 0..(Cardinality(S) - 1) BY PlaceProperties
    <2>2. Cardinality(S) \in Nat BY FS_CardinalityType
    <2> QED BY <2>1, <2>2
<1>2. low \subseteq S /\ IsFiniteSet(low)
    BY FS_Subset
<1>3. /\ Cardinality(low) \in Nat
      /\ IsFiniteSet(0..(n - 1)) /\ Cardinality(0..(n - 1)) = n
    <2>1. n - 1 \in Int OBVIOUS
    <2>2. IsFiniteSet(0..(n - 1)) /\ Cardinality(0..(n - 1)) = IF 0 > n - 1 THEN 0 ELSE n - 1 - 0 + 1
        BY <2>1, FS_Interval
    <2> QED BY <1>2, <2>2, FS_CardinalityType
<1>4. ~(n < Cardinality(low))
    <2> SUFFICES ASSUME n < Cardinality(low) PROVE FALSE
        OBVIOUS
    <2> DEFINE f == [o \in low |-> Before(S, o)]
    <2>1. f \in [low -> 0..(n - 1)]
        <3> SUFFICES ASSUME NEW o \in low PROVE Before(S, o) \in 0..(n - 1)
            OBVIOUS
        <3>1. Before(S, o) \in Nat /\ Before(S, o) < n BY <1>1
        <3> QED BY <3>1
    <2>2. \A o, p \in low : f[o] = f[p] => o = p
        BY PlaceProperties
    <2> HIDE DEF f, low
    <2>3. \E o, p \in low : o # p /\ f[o] = f[p]
        BY <1>2, <1>3, <2>1, FS_PigeonHole
    <2> QED BY <2>2, <2>3
<1> QED BY <1>2, <1>3, <1>4

\* As many offers as the concurrency leaves free, none when nothing is.
LEMMA FreshBounded ==
    ASSUME NEW r, NEW n \in Int
    PROVE  /\ Fresh(r, n) \subseteq Of(r) /\ IsFiniteSet(Fresh(r, n))
           /\ n > 0 => Cardinality(Fresh(r, n)) <= n
           /\ n <= 0 => Fresh(r, n) = {}
<1> DEFINE S == Of(r) \ used
<1>1. S \subseteq Of(r) /\ S \subseteq Nat /\ IsFiniteSet(S)
    BY PromisedFinite, FS_Subset
<1>2. Fresh(r, n) = {o \in S : Before(S, o) < n}
    BY DEF Fresh
<1> HIDE DEF S
<1>3. Fresh(r, n) \subseteq S /\ IsFiniteSet(Fresh(r, n))
    BY <1>1, <1>2, FS_Subset
<1>4. n > 0 => Cardinality(Fresh(r, n)) <= n
    <2> SUFFICES ASSUME n > 0 PROVE Cardinality(Fresh(r, n)) <= n
        OBVIOUS
    <2>1. n \in Nat OBVIOUS
    <2> QED BY <1>1, <1>2, <2>1, LowestBounded
<1>5. n <= 0 => Fresh(r, n) = {}
    <2> SUFFICES ASSUME n <= 0, NEW o \in Fresh(r, n) PROVE FALSE
        OBVIOUS
    <2>1. Cardinality(S) \in Nat BY <1>1, FS_CardinalityType
    <2>4. o \in S BY <1>3
    <2>5. Before(S, o) \in 0..(Cardinality(S) - 1) BY <1>1, <2>4, PlaceProperties
    <2>2. Before(S, o) \in Nat BY <2>1, <2>5
    <2>3. Before(S, o) < n BY <1>2
    <2> QED BY <2>2, <2>3
<1> QED BY <1>1, <1>3, <1>4, <1>5

\* A step after which no runner has promised anything new.
LEMMA NothingNew ==
    ASSUME ConcurrencyInv, DOMAIN runningTasks' = Offers,
           \A r \in Runners : Promised(r)' \subseteq Promised(r)
    PROVE  ConcurrencyInv'
<1> SUFFICES ASSUME NEW r \in Runners PROVE Cardinality(Promised(r)') <= MaxConcurrency
    BY DEF ConcurrencyInv
<1>1. IsFiniteSet(Promised(r)) /\ Cardinality(Promised(r)) <= MaxConcurrency
    BY PromisedFinite DEF ConcurrencyInv
<1>2. /\ IsFiniteSet(Promised(r)') /\ Cardinality(Promised(r)') <= Cardinality(Promised(r))
    BY <1>1, FS_Subset
<1>3. MaxConcurrency \in Nat /\ Cardinality(Promised(r)) \in Nat /\ Cardinality(Promised(r)') \in Nat
    BY <1>1, <1>2, FS_CardinalityType, OffersAssumption
<1> QED BY <1>1, <1>2, <1>3

\* sendOffers fills up what the offers kept and the tasks left over leave free.
LEMMA SendOffersFills ==
    ASSUME ConcurrencyInv, NEW r, NEW finished, NEW replies, SendOffers(r, finished, replies),
           DOMAIN runningTasks' = Offers,
           \A o \in Offers :
               IF o \in finished THEN runningTasks'[o] = "none"
               ELSE runningTasks'[o] = runningTasks[o]
    PROVE  ConcurrencyInv'
<1>1. PICK stale \in SUBSET (open \cap Of(r)) :
          LET kept == (open \cap Of(r)) \ stale
              free == MaxConcurrency - (Cardinality(kept) + Cardinality(Busy(r) \ finished))
              new == IF conn[r] = "up" THEN Fresh(r, free) ELSE {}
          IN open' = (open \ stale) \cup new
    BY DEF SendOffers
<1> DEFINE kept == (open \cap Of(r)) \ stale
           busy == Busy(r) \ finished
           free == MaxConcurrency - (Cardinality(kept) + Cardinality(busy))
           new == IF conn[r] = "up" THEN Fresh(r, free) ELSE {}
<1>2. open' = (open \ stale) \cup new
    BY <1>1
<1>3. /\ kept \subseteq Promised(r) /\ busy \subseteq Promised(r)
      /\ IsFiniteSet(kept) /\ IsFiniteSet(busy)
      /\ Cardinality(kept) \in Nat /\ Cardinality(busy) \in Nat
    <2>1. kept \subseteq Promised(r) /\ busy \subseteq Promised(r)
        BY DEF Promised
    <2>2. IsFiniteSet(kept) /\ IsFiniteSet(busy)
        BY <2>1, PromisedFinite, FS_Subset
    <2> QED BY <2>1, <2>2, FS_CardinalityType
<1>4. free \in Int
    BY <1>3, OffersAssumption
<1> HIDE DEF free
<1>5. /\ new \subseteq Of(r) /\ IsFiniteSet(new)
      /\ new = {} \/ (free > 0 /\ Cardinality(new) <= free)
    BY <1>4, FreshBounded, FS_EmptySet
<1>6. /\ \A q \in Runners : Busy(q)' = Busy(q) \ finished
      /\ Busy(r)' = busy
    <2>1. \A o \in Offers : runningTasks'[o] # "none" <=> runningTasks[o] # "none" /\ o \notin finished
        OBVIOUS
    <2> QED BY <2>1 DEF Busy, Of
<1> HIDE DEF new
<1>7. ASSUME NEW q \in Runners, q # r PROVE Promised(q)' \subseteq Promised(q)
    <2>1. new \cap Of(q) = {}
        BY <1>5, <1>7 DEF Of
    <2> QED BY <1>2, <1>6, <2>1 DEF Promised, Of
<1>8. Promised(r)' = kept \cup busy \cup new
    BY <1>2, <1>5, <1>6 DEF Promised, Of
<1> HIDE DEF kept, busy
<1>9. CASE new = {}
    <2>1. Promised(r)' \subseteq Promised(r)
        BY <1>3, <1>8, <1>9
    <2> QED BY <1>7, <2>1, NothingNew
<1>10. CASE free > 0 /\ Cardinality(new) <= free
    <2>1. /\ IsFiniteSet(kept \cup busy) /\ Cardinality(kept \cup busy) \in Nat
          /\ Cardinality(kept \cup busy) <= Cardinality(kept) + Cardinality(busy)
        <3>1. /\ IsFiniteSet(kept \cup busy)
              /\ Cardinality(kept \cup busy) = Cardinality(kept) + Cardinality(busy) - Cardinality(kept \cap busy)
            BY <1>3, FS_Union
        <3>2. Cardinality(kept \cap busy) \in Nat
            BY <1>3, FS_Intersection, FS_CardinalityType
        <3> QED BY <1>3, <3>1, <3>2, FS_CardinalityType
    <2>2. Cardinality(Promised(r)') <= Cardinality(kept \cup busy) + Cardinality(new)
        <3>1. Cardinality(Promised(r)')
                 = Cardinality(kept \cup busy) + Cardinality(new) - Cardinality((kept \cup busy) \cap new)
            BY <1>5, <1>8, <2>1, FS_Union
        <3>2. Cardinality((kept \cup busy) \cap new) \in Nat /\ Cardinality(new) \in Nat
            BY <1>5, <2>1, FS_Intersection, FS_CardinalityType
        <3> QED BY <2>1, <3>1, <3>2
    <2>3. Cardinality(Promised(r)') \in Nat /\ Cardinality(new) \in Nat
        BY <1>5, <1>8, <2>1, FS_Union, FS_CardinalityType
    <2>4. Cardinality(Promised(r)') <= MaxConcurrency
        BY <1>3, <1>4, <1>10, <2>1, <2>2, <2>3, OffersAssumption DEF free
    <2>5. ASSUME NEW q \in Runners PROVE Cardinality(Promised(q)') <= MaxConcurrency
        <3>1. CASE q = r BY <2>4, <3>1
        <3>2. CASE q # r
            <4>1. IsFiniteSet(Promised(q)) /\ Cardinality(Promised(q)) <= MaxConcurrency
                BY PromisedFinite DEF ConcurrencyInv
            <4>2. /\ IsFiniteSet(Promised(q)')
                  /\ Cardinality(Promised(q)') <= Cardinality(Promised(q))
                BY <1>7, <3>2, <4>1, FS_Subset
            <4>3. MaxConcurrency \in Nat /\ Cardinality(Promised(q)) \in Nat /\ Cardinality(Promised(q)') \in Nat
                BY <4>1, <4>2, FS_CardinalityType, OffersAssumption
            <4> QED BY <4>1, <4>2, <4>3
        <3> QED BY <3>1, <3>2
    <2> QED BY <2>5 DEF ConcurrencyInv
<1> QED BY <1>5, <1>9, <1>10

LEMMA FinishTaskFills ==
    ASSUME ConcurrencyInv, NEW o, NEW replies, FinishTask(o, replies)
    PROVE  ConcurrencyInv'
<1>1. /\ DOMAIN runningTasks' = Offers
      /\ \A p \in Offers : IF p \in {o} THEN runningTasks'[p] = "none"
                           ELSE runningTasks'[p] = runningTasks[p]
    BY DEF FinishTask, ConcurrencyInv
<1>2. SendOffers(RunnerOf[o], {o}, replies)
    BY DEF FinishTask
<1> QED BY <1>1, <1>2, SendOffersFills

\* A task goes from one status to another and the offers stay.
LEMMA StatusKeeps ==
    ASSUME ConcurrencyInv, open' = open, DOMAIN runningTasks' = Offers,
           \A o \in Offers : runningTasks[o] = "none" => runningTasks'[o] = "none"
    PROVE  ConcurrencyInv'
<1>1. \A r \in Runners : Promised(r)' \subseteq Promised(r)
    BY DEF Promised, Busy, Of
<1> QED BY <1>1, NothingNew

\* The task of an accepted offer takes the place of the offer.
LEMMA AcceptKeeps ==
    ASSUME ConcurrencyInv, NEW r \in Runners, OfferAccepted(r)
    PROVE  ConcurrencyInv'
<1> DEFINE o == Head(toRunner[r]).task
<1>1. CASE runningTasks' = runningTasks
    <2>1. open' = open \/ open' = open \ {o}
        BY <1>1 DEF OfferAccepted
    <2>2. \A q \in Runners : Promised(q)' \subseteq Promised(q)
        BY <1>1, <2>1 DEF Promised, Busy, Of
    <2> QED BY <1>1, <2>2, NothingNew DEF ConcurrencyInv
<1>2. CASE /\ o \in open /\ open' = open \ {o}
           /\ runningTasks' = [runningTasks EXCEPT ![o] = "waitingForSettings"]
    <2> HIDE DEF o
    <2>1. /\ DOMAIN runningTasks' = Offers
          /\ \A p \in Offers : p # o => runningTasks'[p] = runningTasks[p]
        BY <1>2 DEF ConcurrencyInv
    <2>2. \A q \in Runners : Promised(q)' \subseteq Promised(q)
        BY <1>2, <2>1 DEF Promised, Busy, Of
    <2> QED BY <2>1, <2>2, NothingNew
<1> QED BY <1>1, <1>2 DEF OfferAccepted

LEMMA ConcurrencyNext ==
    ASSUME ConcurrencyInv, [Next]_vars
    PROVE  ConcurrencyInv'
<1>0. DOMAIN runningTasks = Offers
    BY DEF ConcurrencyInv
<1>1. CASE UNCHANGED <<open, runningTasks>>
    BY <1>0, <1>1, StatusKeeps
<1>2. ASSUME NEW q \in Requests, TaskRequested(q) \/ RequestTimeout(q) \/ CancelTask(q)
      PROVE  ConcurrencyInv'
    BY <1>1, <1>2 DEF TaskRequested, RequestTimeout, CancelTask, runnerVars
<1>3. ASSUME NEW o \in Offers, AcceptTimeout(o) \/ TaskTimeout(o)
      PROVE  ConcurrencyInv'
    BY <1>1, <1>3 DEF AcceptTimeout, TaskTimeout, runnerVars
<1>4. ASSUME NEW r \in Runners,
             \/ Ignored(r) \/ TaskOffered(r) \/ RunnerAccepted(r) \/ RunnerRejected(r)
             \/ TaskEnded(r) \/ BrokerDrain(r) \/ DeregisterRunner(r)
      PROVE  ConcurrencyInv'
    BY <1>1, <1>4
    DEF Ignored, TaskOffered, RunnerAccepted, RunnerRejected, TaskEnded, BrokerDrain,
        DeregisterRunner, runnerVars
<1>5. CASE StartDraining \/ UNCHANGED vars
    BY <1>1, <1>5 DEF StartDraining, vars, runnerVars
<1>6. ASSUME NEW r \in Runners, OfferAccepted(r) PROVE ConcurrencyInv'
    BY <1>6, AcceptKeeps
<1>7. ASSUME NEW r \in Runners, ReceivedSettings(r) PROVE ConcurrencyInv'
    <2> DEFINE o == Head(toRunner[r]).task
    <2>1. /\ open' = open
          /\ \/ runningTasks' = runningTasks
             \/ /\ runningTasks[o] = "waitingForSettings"
                /\ runningTasks' = [runningTasks EXCEPT ![o] = "running"]
        BY <1>7 DEF ReceivedSettings
    <2> HIDE DEF o
    <2>2. /\ DOMAIN runningTasks' = Offers
          /\ \A p \in Offers : runningTasks[p] = "none" => runningTasks'[p] = "none"
        BY <1>0, <2>1
    <2> QED BY <2>1, <2>2, StatusKeeps
<1>8. ASSUME NEW r \in Runners, TaskCancelled(r) PROVE ConcurrencyInv'
    <2> DEFINE o == Head(toRunner[r]).task
    <2>1. CASE FinishTask(o, <<>>)
        BY <2>1, FinishTaskFills
    <2>2. CASE /\ open' = open
               /\ runningTasks' = [runningTasks EXCEPT ![o] =
                                      IF @ = "running" THEN "aborting:cancelled" ELSE @]
        <3> HIDE DEF o
        <3>1. /\ DOMAIN runningTasks' = Offers
              /\ \A p \in Offers : runningTasks[p] = "none" => runningTasks'[p] = "none"
            BY <1>0, <2>2
        <3> QED BY <2>2, <3>1, StatusKeeps
    <2> QED BY <1>8, <2>1, <2>2 DEF TaskCancelled
<1>9. ASSUME NEW o \in Offers, TaskTimedOut(o) PROVE ConcurrencyInv'
    <2>1. CASE FinishTask(o, <<Msg("error", o)>>)
        BY <2>1, FinishTaskFills
    <2>2. CASE /\ runningTasks[o] = "running" /\ open' = open
               /\ runningTasks' = [runningTasks EXCEPT ![o] = "aborting:timeout"]
        <3>1. /\ DOMAIN runningTasks' = Offers
              /\ \A p \in Offers : runningTasks[p] = "none" => runningTasks'[p] = "none"
            BY <1>0, <2>2
        <3> QED BY <2>2, <3>1, StatusKeeps
    <2> QED BY <1>9, <2>1, <2>2 DEF TaskTimedOut
<1>10. ASSUME NEW o \in Offers, TaskExecuted(o) PROVE ConcurrencyInv'
    BY <1>10, FinishTaskFills DEF TaskExecuted
<1>11. ASSUME NEW r \in Runners, OfferInterval(r) PROVE ConcurrencyInv'
    <2>1. SendOffers(r, {}, <<>>) /\ runningTasks' = runningTasks
        BY <1>11 DEF OfferInterval
    <2>2. /\ DOMAIN runningTasks' = Offers
          /\ \A o \in Offers : IF o \in {} THEN runningTasks'[o] = "none"
                               ELSE runningTasks'[o] = runningTasks[o]
        BY <1>0, <2>1
    <2> QED BY <2>1, <2>2, SendOffersFills
<1>12. ASSUME NEW r \in Runners, StopRunner(r) \/ RunnerExits(r) PROVE ConcurrencyInv'
    <2>1. /\ open' \subseteq open
          /\ DOMAIN runningTasks' = Offers
          /\ \A o \in Offers : runningTasks[o] = "none" => runningTasks'[o] = "none"
        BY <1>0, <1>12 DEF StopRunner, RunnerExits
    <2>2. \A q \in Runners : Promised(q)' \subseteq Promised(q)
        BY <2>1 DEF Promised, Busy, Of
    <2> QED BY <2>1, <2>2, NothingNew
<1> QED
    BY <1>2, <1>3, <1>4, <1>5, <1>6, <1>7, <1>8, <1>9, <1>10, <1>11, <1>12 DEF Next, Deliver

\* No runner promises more than its concurrency, for any number of runners and
\* offers, whatever goes stale, is cancelled, times out or is late.
THEOREM WithinItsConcurrency == Spec => []WithinConcurrency
<1>1. Init => ConcurrencyInv
    <2> SUFFICES ASSUME Init, NEW r \in Runners PROVE Cardinality(Promised(r)) <= MaxConcurrency
        BY DEF Init, ConcurrencyInv
    <2>1. Promised(r) = {} BY DEF Init, Promised, Busy, Of
    <2>2. Cardinality({}) = 0 BY FS_EmptySet
    <2> QED BY <2>1, <2>2, OffersAssumption
<1>2. ConcurrencyInv /\ [Next]_vars => ConcurrencyInv'
    BY ConcurrencyNext
<1>3. ConcurrencyInv => WithinConcurrency
    BY DEF ConcurrencyInv, Promised, WithinConcurrency
<1> QED BY <1>1, <1>2, <1>3, PTL DEF Spec

-----------------------------------------------------------------------------
(* Types: every list, function and message keeps its shape.                *)

BrokerTypes ==
    /\ known \in SUBSET Runners
    /\ pendingOffers \in Seq(Offers) /\ pending \in Seq(Requests)
    /\ accepting \in [Offers -> Requests \cup {None}]
    /\ tasks \in [Offers -> Requests \cup {None}]
    /\ armed \in SUBSET Offers
    /\ brokerDraining \in BOOLEAN

RequesterTypes ==
    /\ request \in [Requests -> {"idle", "requested", "running"} \cup Answers]
    /\ serving \in [Requests -> Offers \cup {None}]
    /\ given \in [Requests -> SUBSET Offers]

Statuses == {"none", "waitingForSettings", "running", "aborting:cancelled", "aborting:timeout"}

RunnerTypes ==
    /\ conn \in [Runners -> {"up", "draining", "down"}]
    /\ open \in SUBSET Offers /\ used \in SUBSET Offers
    /\ runningTasks \in [Offers -> Statuses]

ChannelTypes ==
    /\ toBroker \in [Runners -> Seq(Messages)]
    /\ toRunner \in [Runners -> Seq(Orders)]

Types == BrokerTypes /\ RequesterTypes /\ RunnerTypes /\ ChannelTypes

LEMMA TypesAreTypeOK == TypeOK <=> Types
BY DEF TypeOK, Types, BrokerTypes, RequesterTypes, RunnerTypes, ChannelTypes, Statuses

LEMMA MsgTypes ==
    ASSUME NEW o \in Offers
    PROVE  /\ \A type \in {"offer", "accepted", "rejected", "done", "error"} : Msg(type, o) \in Messages
           /\ \A type \in {"accept", "settings", "cancel"} : Msg(type, o) \in Orders
           /\ Msg("drain", None) \in Orders
BY DEF Msg, Messages, Orders

\* Every pair that is matched is an offer of the list and a request.
LEMMA MatchesTypes ==
    ASSUME NEW os \in Seq(Offers), NEW ps \in Seq(Requests), NEW p \in Matches(os, ps)
    PROVE  p[1] \in Offers /\ p[2] \in Requests /\ p = <<p[1], p[2]>>
<1> DEFINE eligible(t) == Keep(ps, {q \in Requests : TypeOf[q] = t /\ ~InProgress(q)})
           offered(t) == Keep(os, {o \in Offers : TypeOf[RunnerOf[o]] = t})
<1> DEFINE pairs(t) == {<<offered(t)[i], eligible(t)[i]>> : i \in DOMAIN offered(t) \cap DOMAIN eligible(t)}
<1>0. PICK q \in Range(ps) : p \in pairs(TypeOf[q])
    BY DEF Matches
<1> DEFINE t == TypeOf[q]
<1> HIDE DEF t
<1>1. PICK i \in DOMAIN offered(t) \cap DOMAIN eligible(t) : p = <<offered(t)[i], eligible(t)[i]>>
    BY <1>0 DEF t
<1>2. offered(t) \in Seq(Offers) /\ eligible(t) \in Seq(Requests)
    BY KeepProperties
<1> HIDE DEF offered, eligible
<1>3. offered(t)[i] \in Offers /\ eligible(t)[i] \in Requests
    BY <1>1, <1>2
<1> QED BY <1>1, <1>3

LEMMA SettleTasksTypes ==
    ASSUME BrokerTypes, RunnerTypes, ChannelTypes,
           NEW os \in Seq(Offers), NEW ps \in Seq(Requests), SettleTasks(os, ps)
    PROVE  /\ pending' \in Seq(Requests) /\ pendingOffers' \in Seq(Offers)
           /\ accepting' \in [Offers -> Requests \cup {None}]
           /\ toRunner' \in [Runners -> Seq(Orders)]
<1>1. PICK late \in SUBSET Range(pendingOffers) :
        LET fresh == ExpireTasks(os, late)
            m == Matches(fresh, ps)
            matched == {p[1] : p \in m}
            orders(r) == Keep(fresh, matched \cap Of(r))
        IN /\ pending' = ps
           /\ pendingOffers' = Keep(fresh, Offers \ matched)
           /\ accepting' = [o \in Offers |-> IF o \in matched
                                THEN CHOOSE q \in Requests : <<o, q>> \in m ELSE accepting[o]]
           /\ toRunner' = [r \in Runners |-> IF conn[r] = "down" THEN toRunner[r]
                                ELSE toRunner[r] \o [i \in 1..Len(orders(r)) |->
                                                        Msg("accept", orders(r)[i])]]
    BY DEF SettleTasks
<1> DEFINE fresh == ExpireTasks(os, late)
           m == Matches(fresh, ps)
           matched == {p[1] : p \in m}
           orders(r) == Keep(fresh, matched \cap Of(r))
           told(r) == [i \in 1..Len(orders(r)) |-> Msg("accept", orders(r)[i])]
<1>2. /\ pending' = ps
      /\ pendingOffers' = Keep(fresh, Offers \ matched)
      /\ accepting' = [o \in Offers |-> IF o \in matched
                           THEN CHOOSE q \in Requests : <<o, q>> \in m ELSE accepting[o]]
      /\ toRunner' = [r \in Runners |-> IF conn[r] = "down" THEN toRunner[r]
                           ELSE toRunner[r] \o told(r)]
    BY <1>1
<1>3. fresh \in Seq(Offers)
    BY KeepProperties DEF ExpireTasks
<1> HIDE DEF fresh
<1>4. \A p \in m : p[1] \in Offers /\ p[2] \in Requests /\ p = <<p[1], p[2]>>
    BY <1>3, MatchesTypes
<1> HIDE DEF m
<1>5. \A o \in matched : \E q \in Requests : <<o, q>> \in m
    BY <1>4
<1> HIDE DEF matched
<1>6. pendingOffers' \in Seq(Offers) /\ \A r \in Runners : orders(r) \in Seq(Offers)
    BY <1>2, <1>3, KeepProperties
<1> HIDE DEF orders
<1>7. accepting' \in [Offers -> Requests \cup {None}]
    <2>1. \A o \in matched : (CHOOSE q \in Requests : <<o, q>> \in m) \in Requests
        BY <1>5
    <2> QED BY <1>2, <2>1 DEF BrokerTypes
<1>8. \A r \in Runners : told(r) \in Seq(Orders)
    <2> TAKE r \in Runners
    <2>1. Len(orders(r)) \in Nat /\ \A i \in 1..Len(orders(r)) : orders(r)[i] \in Offers
        BY <1>6
    <2>2. \A i \in 1..Len(orders(r)) : Msg("accept", orders(r)[i]) \in Orders
        BY <2>1, MsgTypes
    <2> QED BY <2>1, <2>2
<1> HIDE DEF told
<1>9. toRunner' \in [Runners -> Seq(Orders)]
    <2>1. \A r \in Runners : toRunner[r] \in Seq(Orders) BY DEF ChannelTypes
    <2>2. \A r \in Runners : toRunner[r] \o told(r) \in Seq(Orders) BY <1>8, <2>1
    <2> QED BY <1>2, <2>1, <2>2
<1> QED BY <1>2, <1>6, <1>7, <1>9

LEMMA AnswerTypes ==
    ASSUME RequesterTypes, NEW q, NEW a \in Answers, Answer(q, a)
    PROVE  RequesterTypes'
BY DEF RequesterTypes, Answer

LEMMA EndTaskTypes ==
    ASSUME BrokerTypes, RequesterTypes, NEW o, NEW a \in Answers, EndTask(o, a)
    PROVE  RequesterTypes' /\ tasks' \in [Offers -> Requests \cup {None}] /\ armed' \in SUBSET Offers
<1>1. RequesterTypes'
    BY AnswerTypes DEF EndTask, requesterVars, RequesterTypes
<1> QED BY <1>1 DEF EndTask, BrokerTypes

LEMMA MessageRunnerTypes ==
    ASSUME ChannelTypes, NEW r, NEW m \in Orders, MessageRunner(r, m)
    PROVE  toRunner' \in [Runners -> Seq(Orders)]
<1>1. \A q \in Runners : toRunner[q] \in Seq(Orders) /\ Append(toRunner[q], m) \in Seq(Orders)
    BY DEF ChannelTypes
<1> QED BY <1>1 DEF ChannelTypes, MessageRunner

LEMMA SpliceTypes ==
    ASSUME BrokerTypes, NEW q, Splice(q)
    PROVE  pending' \in Seq(Requests) /\ q \in Requests
<1>1. pending \in Seq(Requests) BY DEF BrokerTypes
<1>2. PICK i \in 1..Len(pending) : pending[i] = q /\ pending' = RemoveAt(pending, i)
    BY DEF Splice
<1> QED BY <1>1, <1>2, RemoveAtProperties

LEMMA ReceiveTypes ==
    ASSUME ChannelTypes, NEW r \in Runners, toBroker[r] # <<>>
    PROVE  /\ Head(toBroker[r]) \in Messages /\ Head(toBroker[r]).task \in Offers
           /\ [toBroker EXCEPT ![r] = Tail(@)] \in [Runners -> Seq(Messages)]
<1>1. toBroker[r] \in Seq(Messages) BY DEF ChannelTypes
<1>2. Head(toBroker[r]) \in Messages /\ Tail(toBroker[r]) \in Seq(Messages) BY <1>1
<1> QED BY <1>2 DEF ChannelTypes, Messages

LEMMA OrderTypes ==
    ASSUME ChannelTypes, NEW r \in Runners, NEW type, Order(r, type)
    PROVE  /\ Head(toRunner[r]) \in Orders
           /\ type # "drain" => Head(toRunner[r]).task \in Offers
           /\ toRunner' \in [Runners -> Seq(Orders)]
<1>1. toRunner[r] \in Seq(Orders) /\ toRunner[r] # <<>> BY DEF ChannelTypes, Order
<1>2. Head(toRunner[r]) \in Orders /\ Tail(toRunner[r]) \in Seq(Orders) BY <1>1
<1> QED BY <1>2 DEF ChannelTypes, Orders, Order

LEMMA OffersOfTypes ==
    ASSUME NEW S, S \subseteq Offers, IsFiniteSet(S)
    PROVE  OffersOf(S) \in Seq(Messages)
<1>1. Cardinality(S) \in Nat /\ S \subseteq Nat
    BY FS_CardinalityType, OffersAssumption
<1>2. \A i \in 1..Cardinality(S) : (CHOOSE o \in S : Before(S, o) = i - 1) \in Offers
    BY <1>1, PlacesTaken
<1>3. \A i \in 1..Cardinality(S) : Msg("offer", CHOOSE o \in S : Before(S, o) = i - 1) \in Messages
    BY <1>2, MsgTypes
<1> QED BY <1>1, <1>3 DEF OffersOf

LEMMA SendOffersTypes ==
    ASSUME RunnerTypes, ChannelTypes, NEW r, NEW finished, NEW replies \in Seq(Messages),
           SendOffers(r, finished, replies)
    PROVE  /\ open' \in SUBSET Offers /\ used' \in SUBSET Offers
           /\ toBroker' \in [Runners -> Seq(Messages)]
<1>1. PICK stale \in SUBSET (open \cap Of(r)) :
        LET kept == (open \cap Of(r)) \ stale
            free == MaxConcurrency - (Cardinality(kept) + Cardinality(Busy(r) \ finished))
            new == IF conn[r] = "up" THEN Fresh(r, free) ELSE {}
        IN /\ open' = (open \ stale) \cup new
           /\ used' = used \cup new
           /\ toBroker' = [toBroker EXCEPT ![r] = @ \o replies \o OffersOf(new)]
    BY DEF SendOffers
<1> DEFINE kept == (open \cap Of(r)) \ stale
           free == MaxConcurrency - (Cardinality(kept) + Cardinality(Busy(r) \ finished))
           new == IF conn[r] = "up" THEN Fresh(r, free) ELSE {}
<1>2. /\ open' = (open \ stale) \cup new
      /\ used' = used \cup new
      /\ toBroker' = [toBroker EXCEPT ![r] = @ \o replies \o OffersOf(new)]
    BY <1>1
<1>3. new \subseteq Offers /\ IsFiniteSet(new)
    <2>1. new \subseteq Offers BY DEF Fresh, Of
    <2> HIDE DEF new
    <2> QED BY <2>1, OffersAssumption, FS_Subset
<1> HIDE DEF new
<1>4. OffersOf(new) \in Seq(Messages)
    BY <1>3, OffersOfTypes
<1>5. toBroker' \in [Runners -> Seq(Messages)]
    <2>1. \A x \in Runners : toBroker[x] \in Seq(Messages) BY DEF ChannelTypes
    <2>2. \A x \in Runners : toBroker[x] \o replies \o OffersOf(new) \in Seq(Messages) BY <1>4, <2>1
    <2> QED BY <1>2, <2>1, <2>2 DEF ChannelTypes
<1> QED BY <1>2, <1>3, <1>5 DEF RunnerTypes

LEMMA FinishTaskTypes ==
    ASSUME RunnerTypes, ChannelTypes, NEW o, NEW replies \in Seq(Messages), FinishTask(o, replies)
    PROVE  /\ open' \in SUBSET Offers /\ used' \in SUBSET Offers
           /\ runningTasks' \in [Offers -> Statuses]
           /\ toBroker' \in [Runners -> Seq(Messages)]
<1>1. runningTasks' \in [Offers -> Statuses]
    BY DEF RunnerTypes, FinishTask, Statuses
<1> QED BY <1>1, SendOffersTypes DEF FinishTask

\* What the broker and the requester do.
LEMMA BrokerKeepsTypes ==
    ASSUME Types,
           \/ \E q \in Requests : TaskRequested(q) \/ RequestTimeout(q) \/ CancelTask(q)
           \/ \E o \in Offers : AcceptTimeout(o) \/ TaskTimeout(o)
           \/ \E r \in Runners : \/ Ignored(r) \/ TaskOffered(r) \/ RunnerAccepted(r)
                                 \/ RunnerRejected(r) \/ TaskEnded(r) \/ DeregisterRunner(r)
           \/ StartDraining
    PROVE  Types'
<1> USE DEF Types
<1>1. ASSUME NEW q \in Requests, TaskRequested(q) PROVE Types'
    <2>1. RequesterTypes'
        BY <1>1 DEF TaskRequested, StartTask, RequesterTypes, Answers
    <2>2. CASE brokerDraining
        BY <1>1, <2>1, <2>2 DEF TaskRequested, BrokerTypes, RunnerTypes, ChannelTypes, runnerVars
    <2>3. CASE ~brokerDraining
        <3>1. SettleTasks(pendingOffers, Append(pending, q)) BY <1>1, <2>3 DEF TaskRequested
        <3>2. Append(pending, q) \in Seq(Requests) /\ pendingOffers \in Seq(Offers) BY DEF BrokerTypes
        <3>3. /\ pending' \in Seq(Requests) /\ pendingOffers' \in Seq(Offers)
              /\ accepting' \in [Offers -> Requests \cup {None}]
              /\ toRunner' \in [Runners -> Seq(Orders)]
            BY <3>1, <3>2, SettleTasksTypes
        <3> QED BY <1>1, <2>1, <3>3 DEF TaskRequested, BrokerTypes, RunnerTypes, ChannelTypes, runnerVars
    <2> QED BY <2>2, <2>3
<1>2. ASSUME NEW q \in Requests, RequestTimeout(q) PROVE Types'
    <2>1. RequesterTypes' BY <1>2, AnswerTypes DEF RequestTimeout, Answers
    <2>2. pending' \in Seq(Requests) BY <1>2, SpliceTypes DEF RequestTimeout
    <2> QED BY <1>2, <2>1, <2>2 DEF RequestTimeout, BrokerTypes, RunnerTypes, ChannelTypes, runnerVars
<1>3. ASSUME NEW q \in Requests, CancelTask(q) PROVE Types'
    <2> DEFINE o == serving[q]
    <2>1. RequesterTypes' BY <1>3, AnswerTypes DEF CancelTask, Answers
    <2>2. o \in Offers BY <1>3 DEF CancelTask, RequesterTypes
    <2>3. PassCancellation(o) BY <1>3 DEF CancelTask
    <2> HIDE DEF o
    <2>4. tasks' \in [Offers -> Requests \cup {None}] BY <2>2, <2>3 DEF PassCancellation, BrokerTypes
    <2>5. toRunner' \in [Runners -> Seq(Orders)]
        <3>1. Msg("cancel", o) \in Orders BY <2>2, MsgTypes
        <3> QED BY <2>3, <3>1, MessageRunnerTypes DEF PassCancellation, ChannelTypes
    <2> QED BY <1>3, <2>1, <2>4, <2>5 DEF CancelTask, BrokerTypes, RunnerTypes, ChannelTypes, runnerVars
<1>4. ASSUME NEW o \in Offers, AcceptTimeout(o) PROVE Types'
    BY <1>4 DEF AcceptTimeout, BrokerTypes, RequesterTypes, RunnerTypes, ChannelTypes, requesterVars, runnerVars
<1>5. ASSUME NEW o \in Offers, TaskTimeout(o) PROVE Types'
    <2>1. /\ RequesterTypes' /\ tasks' \in [Offers -> Requests \cup {None}] /\ armed' \in SUBSET Offers
        BY <1>5, EndTaskTypes DEF TaskTimeout, Answers
    <2>2. toRunner' \in [Runners -> Seq(Orders)]
        <3>1. Msg("cancel", o) \in Orders BY MsgTypes
        <3> QED BY <1>5, <3>1, MessageRunnerTypes DEF TaskTimeout, ChannelTypes
    <2> QED BY <1>5, <2>1, <2>2 DEF TaskTimeout, BrokerTypes, RunnerTypes, ChannelTypes, runnerVars
<1>6. ASSUME NEW r \in Runners, Ignored(r) PROVE Types'
    <2>1. toBroker' \in [Runners -> Seq(Messages)] BY <1>6, ReceiveTypes DEF Ignored
    <2> QED BY <1>6, <2>1 DEF Ignored, BrokerTypes, RequesterTypes, RunnerTypes, ChannelTypes,
                              brokerVars, requesterVars, runnerVars
<1>7. ASSUME NEW r \in Runners, TaskOffered(r) PROVE Types'
    <2> DEFINE o == Head(toBroker[r]).task
    <2>1. o \in Offers /\ toBroker' \in [Runners -> Seq(Messages)]
        BY <1>7, ReceiveTypes DEF TaskOffered, Receive
    <2>2. SettleTasks(Append(pendingOffers, o), pending) BY <1>7 DEF TaskOffered
    <2> HIDE DEF o
    <2>3. Append(pendingOffers, o) \in Seq(Offers) /\ pending \in Seq(Requests) BY <2>1 DEF BrokerTypes
    <2>4. /\ pending' \in Seq(Requests) /\ pendingOffers' \in Seq(Offers)
          /\ accepting' \in [Offers -> Requests \cup {None}]
          /\ toRunner' \in [Runners -> Seq(Orders)]
        BY <2>2, <2>3, SettleTasksTypes
    <2> QED BY <1>7, <2>1, <2>4 DEF TaskOffered, BrokerTypes, RequesterTypes, RunnerTypes, ChannelTypes,
                                    requesterVars, runnerVars
<1>8. ASSUME NEW r \in Runners, RunnerAccepted(r) PROVE Types'
    <2> DEFINE o == Head(toBroker[r]).task
               q == accepting[o]
    <2>1. o \in Offers /\ toBroker' \in [Runners -> Seq(Messages)]
        BY <1>8, ReceiveTypes DEF RunnerAccepted, Receive
    <2>2. RunnerTypes' BY <1>8 DEF RunnerAccepted, RunnerTypes, runnerVars
    <2>3. \/ UNCHANGED <<accepting, tasks>>
          \/ /\ q # None
             /\ accepting' = [accepting EXCEPT ![o] = None] /\ tasks' = [tasks EXCEPT ![o] = q]
        BY <1>8 DEF RunnerAccepted
    <2>4. \/ UNCHANGED <<pending, requesterVars, armed, toRunner>>
          \/ Splice(q) /\ TaskReady(q, o) /\ SendTaskSettings(r, o)
        BY <1>8 DEF RunnerAccepted
    <2>5. UNCHANGED <<known, pendingOffers, brokerDraining>> BY <1>8 DEF RunnerAccepted
    <2> HIDE DEF o, q
    <2>6. q \in Requests \cup {None} BY <2>1 DEF q, BrokerTypes
    <2>7. /\ accepting' \in [Offers -> Requests \cup {None}] /\ tasks' \in [Offers -> Requests \cup {None}]
        BY <2>1, <2>3, <2>6 DEF BrokerTypes
    <2>8. CASE UNCHANGED <<pending, requesterVars, armed, toRunner>>
        BY <2>1, <2>2, <2>5, <2>7, <2>8 DEF BrokerTypes, RequesterTypes, ChannelTypes, requesterVars
    <2>9. CASE Splice(q) /\ TaskReady(q, o) /\ SendTaskSettings(r, o)
        <3>1. pending' \in Seq(Requests) /\ q \in Requests BY <2>9, SpliceTypes
        <3>2. RequesterTypes' BY <2>1, <2>9, <3>1 DEF TaskReady, RequesterTypes
        <3>3. Msg("settings", o) \in Orders BY <2>1, MsgTypes
        <3>4. armed' \in SUBSET Offers /\ toRunner' \in [Runners -> Seq(Orders)]
            BY <2>1, <2>9, <3>3, MessageRunnerTypes DEF SendTaskSettings, BrokerTypes
        <3> QED BY <2>1, <2>2, <2>5, <2>7, <3>1, <3>2, <3>4 DEF BrokerTypes, ChannelTypes
    <2> QED BY <2>4, <2>8, <2>9
<1>9. ASSUME NEW r \in Runners, RunnerRejected(r) PROVE Types'
    <2> DEFINE o == Head(toBroker[r]).task
    <2>1. o \in Offers /\ toBroker' \in [Runners -> Seq(Messages)]
        BY <1>9, ReceiveTypes DEF RunnerRejected, Receive
    <2>2. accepting' = [accepting EXCEPT ![o] = None] BY <1>9 DEF RunnerRejected
    <2> HIDE DEF o
    <2>3. accepting' \in [Offers -> Requests \cup {None}] BY <2>1, <2>2 DEF BrokerTypes
    <2> QED BY <1>9, <2>1, <2>3 DEF RunnerRejected, BrokerTypes, RequesterTypes, RunnerTypes,
                                    ChannelTypes, requesterVars, runnerVars
<1>10. ASSUME NEW r \in Runners, TaskEnded(r) PROVE Types'
    <2> DEFINE o == Head(toBroker[r]).task
               a == Head(toBroker[r]).type
    <2>1. a \in Answers /\ toBroker' \in [Runners -> Seq(Messages)]
        BY <1>10, ReceiveTypes DEF TaskEnded, Receive, Answers
    <2>2. EndTask(o, a) \/ UNCHANGED <<tasks, armed, requesterVars>> BY <1>10 DEF TaskEnded
    <2> HIDE DEF o, a
    <2>3. /\ RequesterTypes' /\ tasks' \in [Offers -> Requests \cup {None}] /\ armed' \in SUBSET Offers
        BY <2>1, <2>2, EndTaskTypes DEF BrokerTypes, RequesterTypes, requesterVars
    <2> QED BY <1>10, <2>1, <2>3 DEF TaskEnded, BrokerTypes, RunnerTypes, ChannelTypes, runnerVars
<1>11. ASSUME NEW r \in Runners, DeregisterRunner(r) PROVE Types'
    <2>1. RequesterTypes' BY <1>11 DEF DeregisterRunner, RequesterTypes, Answers
    <2>2. pendingOffers' \in Seq(Offers) BY <1>11, KeepProperties DEF DeregisterRunner, BrokerTypes
    <2>3. known' \in SUBSET Runners /\ tasks' \in [Offers -> Requests \cup {None}]
        BY <1>11 DEF DeregisterRunner, BrokerTypes
    <2> QED BY <1>11, <2>1, <2>2, <2>3 DEF DeregisterRunner, BrokerTypes, RunnerTypes, ChannelTypes, runnerVars
<1>12. CASE StartDraining
    <2>1. \A r \in Runners : toRunner[r] \in Seq(Orders) /\ Append(toRunner[r], Msg("drain", None)) \in Seq(Orders)
        BY DEF Msg, Orders, ChannelTypes
    <2>2. toRunner' \in [Runners -> Seq(Orders)] BY <1>12, <2>1 DEF StartDraining
    <2> QED BY <1>12, <2>2 DEF StartDraining, BrokerTypes, RequesterTypes, RunnerTypes, ChannelTypes,
                               requesterVars, runnerVars
<1> QED BY <1>1, <1>2, <1>3, <1>4, <1>5, <1>6, <1>7, <1>8, <1>9, <1>10, <1>11, <1>12

\* What the runners do.
LEMMA RunnersKeepTypes ==
    ASSUME Types,
           \/ \E o \in Offers : TaskTimedOut(o) \/ TaskExecuted(o)
           \/ \E r \in Runners : \/ OfferAccepted(r) \/ ReceivedSettings(r) \/ TaskCancelled(r)
                                 \/ BrokerDrain(r) \/ OfferInterval(r) \/ StopRunner(r) \/ RunnerExits(r)
    PROVE  Types'
<1> USE DEF Types
<1>0. ASSUME UNCHANGED <<brokerVars, requesterVars>> PROVE BrokerTypes' /\ RequesterTypes'
    BY <1>0 DEF brokerVars, requesterVars, BrokerTypes, RequesterTypes
<1>1. ASSUME NEW o \in Offers, TaskTimedOut(o) PROVE Types'
    <2>1. <<Msg("error", o)>> \in Seq(Messages) BY MsgTypes
    <2>2. /\ open' \in SUBSET Offers /\ used' \in SUBSET Offers
          /\ runningTasks' \in [Offers -> Statuses]
          /\ toBroker' \in [Runners -> Seq(Messages)]
        BY <1>1, <2>1, FinishTaskTypes DEF TaskTimedOut, RunnerTypes, ChannelTypes, Statuses
    <2> QED BY <1>0, <1>1, <2>2 DEF TaskTimedOut, RunnerTypes, ChannelTypes
<1>2. ASSUME NEW o \in Offers, TaskExecuted(o) PROVE Types'
    <2>1. /\ <<>> \in Seq(Messages)
          /\ \A m \in {"done", "error"} : <<Msg(m, o)>> \in Seq(Messages)
        BY MsgTypes
    <2>2. /\ open' \in SUBSET Offers /\ used' \in SUBSET Offers
          /\ runningTasks' \in [Offers -> Statuses]
          /\ toBroker' \in [Runners -> Seq(Messages)]
        BY <1>2, <2>1, FinishTaskTypes DEF TaskExecuted
    <2> QED BY <1>0, <1>2, <2>2 DEF TaskExecuted, RunnerTypes, ChannelTypes
<1>3. ASSUME NEW r \in Runners, OfferAccepted(r) PROVE Types'
    <2> DEFINE o == Head(toRunner[r]).task
    <2>1. o \in Offers /\ toRunner' \in [Runners -> Seq(Orders)]
        BY <1>3, OrderTypes DEF OfferAccepted
    <2>2. /\ open' \subseteq open
          /\ runningTasks' = runningTasks \/ runningTasks' = [runningTasks EXCEPT ![o] = "waitingForSettings"]
          /\ \E m \in {"accepted", "rejected"} : toBroker' = [toBroker EXCEPT ![r] = Append(@, Msg(m, o))]
        BY <1>3 DEF OfferAccepted
    <2> HIDE DEF o
    <2>3. toBroker' \in [Runners -> Seq(Messages)]
        <3>1. \A m \in {"accepted", "rejected"} : Append(toBroker[r], Msg(m, o)) \in Seq(Messages)
            BY <2>1, MsgTypes DEF ChannelTypes
        <3> QED BY <2>2, <3>1 DEF ChannelTypes
    <2>4. runningTasks' \in [Offers -> Statuses] /\ open' \in SUBSET Offers
        BY <2>2 DEF RunnerTypes, Statuses
    <2> QED BY <1>0, <1>3, <2>1, <2>3, <2>4 DEF OfferAccepted, RunnerTypes, ChannelTypes
<1>4. ASSUME NEW r \in Runners, ReceivedSettings(r) PROVE Types'
    <2>1. toRunner' \in [Runners -> Seq(Orders)] BY <1>4, OrderTypes DEF ReceivedSettings
    <2>2. runningTasks' \in [Offers -> Statuses] BY <1>4 DEF ReceivedSettings, RunnerTypes, Statuses
    <2> QED BY <1>0, <1>4, <2>1, <2>2 DEF ReceivedSettings, RunnerTypes, ChannelTypes
<1>5. ASSUME NEW r \in Runners, TaskCancelled(r) PROVE Types'
    <2> DEFINE o == Head(toRunner[r]).task
    <2>1. toRunner' \in [Runners -> Seq(Orders)] /\ o \in Offers
        BY <1>5, OrderTypes DEF TaskCancelled
    <2>2. \/ FinishTask(o, <<>>)
          \/ /\ runningTasks' = [runningTasks EXCEPT ![o] = IF @ = "running" THEN "aborting:cancelled" ELSE @]
             /\ UNCHANGED <<open, used, toBroker>>
        BY <1>5 DEF TaskCancelled
    <2> HIDE DEF o
    <2>3. /\ open' \in SUBSET Offers /\ used' \in SUBSET Offers
          /\ runningTasks' \in [Offers -> Statuses]
          /\ toBroker' \in [Runners -> Seq(Messages)]
        <3>1. <<>> \in Seq(Messages) OBVIOUS
        <3>2. CASE FinishTask(o, <<>>) BY <3>1, <3>2, FinishTaskTypes
        <3>3. CASE /\ runningTasks' = [runningTasks EXCEPT ![o] = IF @ = "running" THEN "aborting:cancelled" ELSE @]
                   /\ UNCHANGED <<open, used, toBroker>>
            BY <3>3 DEF RunnerTypes, ChannelTypes, Statuses
        <3> QED BY <2>2, <3>2, <3>3
    <2> QED BY <1>0, <1>5, <2>1, <2>3 DEF TaskCancelled, RunnerTypes, ChannelTypes
<1>6. ASSUME NEW r \in Runners, BrokerDrain(r) PROVE Types'
    <2>1. toRunner' \in [Runners -> Seq(Orders)] BY <1>6, OrderTypes DEF BrokerDrain
    <2>2. conn' \in [Runners -> {"up", "draining", "down"}] BY <1>6 DEF BrokerDrain, RunnerTypes
    <2> QED BY <1>0, <1>6, <2>1, <2>2 DEF BrokerDrain, RunnerTypes, ChannelTypes
<1>7. ASSUME NEW r \in Runners, OfferInterval(r) PROVE Types'
    <2>1. <<>> \in Seq(Messages) OBVIOUS
    <2>2. /\ open' \in SUBSET Offers /\ used' \in SUBSET Offers
          /\ toBroker' \in [Runners -> Seq(Messages)]
        BY <1>7, <2>1, SendOffersTypes DEF OfferInterval
    <2> QED BY <1>0, <1>7, <2>2 DEF OfferInterval, RunnerTypes, ChannelTypes
<1>8. ASSUME NEW r \in Runners, StopRunner(r) PROVE Types'
    <2>1. conn' \in [Runners -> {"up", "draining", "down"}] /\ open' \in SUBSET Offers
        BY <1>8 DEF StopRunner, RunnerTypes
    <2> QED BY <1>0, <1>8, <2>1 DEF StopRunner, RunnerTypes, ChannelTypes
<1>9. ASSUME NEW r \in Runners, RunnerExits(r) PROVE Types'
    <2>1. /\ conn' \in [Runners -> {"up", "draining", "down"}] /\ open' \in SUBSET Offers
          /\ runningTasks' \in [Offers -> Statuses]
        BY <1>9 DEF RunnerExits, RunnerTypes, Statuses
    <2>2. toRunner' \in [Runners -> Seq(Orders)] BY <1>9 DEF RunnerExits, ChannelTypes
    <2> QED BY <1>0, <1>9, <2>1, <2>2 DEF RunnerExits, RunnerTypes, ChannelTypes
<1> QED BY <1>1, <1>2, <1>3, <1>4, <1>5, <1>6, <1>7, <1>8, <1>9

LEMMA TypesNext ==
    ASSUME Types, [Next]_vars
    PROVE  Types'
<1>1. CASE UNCHANGED vars
    BY <1>1 DEF vars, brokerVars, requesterVars, runnerVars, Types, BrokerTypes, RequesterTypes,
                RunnerTypes, ChannelTypes
<1> QED BY <1>1, BrokerKeepsTypes, RunnersKeepTypes DEF Next, Deliver

LEMMA TypesInit == Init => Types
<1> SUFFICES ASSUME Init PROVE Types
    OBVIOUS
<1>1. BrokerTypes
    <2>1. pendingOffers \in Seq(Offers) /\ pending \in Seq(Requests) BY DEF Init
    <2>2. known \in SUBSET Runners /\ armed \in SUBSET Offers /\ brokerDraining \in BOOLEAN BY DEF Init
    <2>3. /\ accepting \in [Offers -> Requests \cup {None}]
          /\ tasks \in [Offers -> Requests \cup {None}]
        BY DEF Init
    <2> QED BY <2>1, <2>2, <2>3 DEF BrokerTypes
<1>2. RequesterTypes BY DEF Init, RequesterTypes, Answers
<1>3. RunnerTypes BY DEF Init, RunnerTypes, Statuses
<1>4. ChannelTypes BY DEF Init, ChannelTypes
<1> QED BY <1>1, <1>2, <1>3, <1>4 DEF Types

\* No list, timer, task or message leaves its type, in any order of events.
THEOREM TypesAreKept == Spec => []TypeOK
<1>1. Types => TypeOK BY TypesAreTypeOK
<1> QED BY <1>1, TypesInit, TypesNext, PTL DEF Spec

-----------------------------------------------------------------------------
(* Settings arrive at a task that waits for them, or at one that is gone.  *)
(*                                                                         *)
(* The permission to go on travels: an accepted offer leaves the runner as *)
(* an "accepted" message, which the broker turns into "settings".  There   *)
(* is one such message for an offer at most, on either connection, and as  *)
(* long as it is under way nothing but the end of the task happens to it.  *)

\* The connections f carry at most one message of a type for each task.
OneEach(f, type) ==
    \A r, s \in Runners : \A i \in 1..Len(f[r]), j \in 1..Len(f[s]) :
        f[r][i].type = type /\ f[s][j].type = type /\ f[r][i].task = f[s][j].task => r = s /\ i = j

\* The tasks that the connections f carry a message of a type for.
Carried(f, type) ==
    {o \in Offers : \E r \in Runners : \E i \in 1..Len(f[r]) : f[r][i].type = type /\ f[r][i].task = o}

Waiting(o) == o \in used \ open /\ runningTasks[o] \in {"none", "waitingForSettings"}

SettingsInv ==
    /\ Types
    /\ open \subseteq used
    /\ OneEach(toBroker, "accepted") /\ OneEach(toRunner, "settings")
    /\ Carried(toBroker, "accepted") \cap Carried(toRunner, "settings") = {}
    /\ \A o \in Carried(toBroker, "accepted") \cup Carried(toRunner, "settings") : Waiting(o)

LEMMA JoinProperties ==
    ASSUME NEW M, NEW s \in Seq(M), NEW t \in Seq(M)
    PROVE  /\ s \o t \in Seq(M) /\ Len(s) \in Nat /\ Len(t) \in Nat /\ Len(s \o t) = Len(s) + Len(t)
           /\ \A i \in 1..Len(s) : (s \o t)[i] = s[i]
           /\ \A i \in (Len(s) + 1)..Len(s \o t) : i - Len(s) \in 1..Len(t) /\ (s \o t)[i] = t[i - Len(s)]
OBVIOUS

\* A message is taken off the connection of r, or put on it.
Taken(f, g, r) == g = [f EXCEPT ![r] = Tail(@)]
Put(f, g, r, m) == g = [f EXCEPT ![r] = Append(@, m)]

\* What is taken off a connection is no longer carried, and nothing else changes.
LEMMA TakeOff ==
    ASSUME NEW M, NEW f \in [Runners -> Seq(M)], NEW g, NEW type, NEW r \in Runners, f[r] # <<>>,
           Taken(f, g, r), OneEach(f, type)
    PROVE  /\ OneEach(g, type) /\ Carried(g, type) \subseteq Carried(f, type)
           /\ Head(f[r]).type = type => Head(f[r]).task \notin Carried(g, type)
           /\ Head(f[r]).type = type /\ Head(f[r]).task \in Offers => Head(f[r]).task \in Carried(f, type)
<1> DEFINE at(s, i) == IF s = r THEN i + 1 ELSE i
<1>1. \A s \in Runners : /\ f[s] \in Seq(M) /\ Len(f[s]) \in Nat
                         /\ g[s] = IF s = r THEN Tail(f[s]) ELSE f[s]
    BY DEF Taken
<1>2. Len(f[r]) >= 1 /\ Head(f[r]) = f[r][1] /\ 1 \in 1..Len(f[r])
    BY <1>1
<1>3. \A s \in Runners : \A i \in 1..Len(g[s]) :
          at(s, i) \in 1..Len(f[s]) /\ g[s][i] = f[s][at(s, i)] /\ <<s, at(s, i)>> # <<r, 1>>
    <2> TAKE s \in Runners
    <2> TAKE i \in 1..Len(g[s])
    <2>1. CASE s # r BY <1>1, <2>1
    <2>2. CASE s = r
        <3>1. g[r] = Tail(f[r]) /\ f[r] \in Seq(M) /\ f[r] # <<>> BY <1>1
        <3>2. Len(g[r]) = Len(f[r]) - 1 /\ \A k \in 1..Len(g[r]) : g[r][k] = f[r][k + 1] BY <3>1
        <3>3. i \in 1..Len(g[r]) /\ Len(f[r]) \in Nat BY <1>1, <2>2
        <3>4. i + 1 \in 1..Len(f[r]) /\ g[r][i] = f[r][i + 1] /\ i + 1 # 1 BY <3>2, <3>3
        <3> QED BY <2>2, <3>4
    <2> QED BY <2>1, <2>2
<1>4. \A s \in Runners : \A i, j \in 1..Len(g[s]) : at(s, i) = at(s, j) => i = j
    OBVIOUS
<1> HIDE DEF at
<1>5. OneEach(g, type)
    <2> SUFFICES ASSUME NEW s \in Runners, NEW t \in Runners,
                        NEW i \in 1..Len(g[s]), NEW j \in 1..Len(g[t]),
                        g[s][i].type = type, g[t][j].type = type, g[s][i].task = g[t][j].task
                 PROVE  s = t /\ i = j
        BY DEF OneEach
    <2>1. PICK k \in 1..Len(f[s]) : k = at(s, i) /\ g[s][i] = f[s][k]
        BY <1>3
    <2>2. PICK l \in 1..Len(f[t]) : l = at(t, j) /\ g[t][j] = f[t][l]
        BY <1>3
    <2>3. f[s][k].type = type /\ f[t][l].type = type /\ f[s][k].task = f[t][l].task
        BY <2>1, <2>2
    <2>4. s = t /\ k = l BY <2>3 DEF OneEach
    <2> QED BY <1>4, <2>1, <2>2, <2>4
<1>6. Carried(g, type) \subseteq Carried(f, type)
    BY <1>3 DEF Carried
<1>7. ASSUME Head(f[r]).type = type, Head(f[r]).task \in Carried(g, type) PROVE FALSE
    <2>0. PICK s \in Runners : \E i \in 1..Len(g[s]) : g[s][i].type = type /\ g[s][i].task = Head(f[r]).task
        BY <1>7 DEF Carried
    <2>1. PICK i \in 1..Len(g[s]) : g[s][i].type = type /\ g[s][i].task = Head(f[r]).task
        BY <2>0
    <2>2. PICK k \in 1..Len(f[s]) : k = at(s, i) /\ g[s][i] = f[s][k] /\ <<s, k>> # <<r, 1>>
        BY <1>3
    <2>3. /\ f[s][k].type = type /\ f[r][1].type = type /\ f[s][k].task = f[r][1].task
          /\ 1 \in 1..Len(f[r])
        BY <1>2, <1>7, <2>1, <2>2
    <2>4. s = r /\ k = 1 BY <2>3 DEF OneEach
    <2> QED BY <2>2, <2>4
<1>8. Head(f[r]).type = type /\ Head(f[r]).task \in Offers => Head(f[r]).task \in Carried(f, type)
    BY <1>2 DEF Carried
<1> QED BY <1>5, <1>6, <1>7, <1>8

\* Messages of other types do not matter.
LEMMA PutOthers ==
    ASSUME NEW M, NEW f \in [Runners -> Seq(M)], NEW g \in [Runners -> Seq(M)], NEW type,
           \A r \in Runners : /\ Len(g[r]) >= Len(f[r])
                              /\ \A i \in 1..Len(f[r]) : g[r][i] = f[r][i]
                              /\ \A i \in (Len(f[r]) + 1)..Len(g[r]) : g[r][i].type # type,
           OneEach(f, type)
    PROVE  OneEach(g, type) /\ Carried(g, type) = Carried(f, type)
<1>1. \A r \in Runners : Len(f[r]) \in Nat /\ Len(g[r]) \in Nat
    OBVIOUS
<1>2. \A r \in Runners : \A i \in 1..Len(g[r]) : g[r][i].type = type => i \in 1..Len(f[r]) /\ g[r][i] = f[r][i]
    BY <1>1
<1>3. \A r \in Runners : \A i \in 1..Len(f[r]) : i \in 1..Len(g[r]) /\ g[r][i] = f[r][i]
    BY <1>1
<1>4. OneEach(g, type)
    <2> SUFFICES ASSUME NEW r \in Runners, NEW s \in Runners,
                        NEW i \in 1..Len(g[r]), NEW j \in 1..Len(g[s]),
                        g[r][i].type = type, g[s][j].type = type, g[r][i].task = g[s][j].task
                 PROVE  r = s /\ i = j
        BY DEF OneEach
    <2>1. /\ i \in 1..Len(f[r]) /\ g[r][i] = f[r][i]
          /\ j \in 1..Len(f[s]) /\ g[s][j] = f[s][j]
        BY <1>2
    <2> QED BY <2>1 DEF OneEach
<1>5. Carried(g, type) \subseteq Carried(f, type) BY <1>2 DEF Carried
<1>6. Carried(f, type) \subseteq Carried(g, type) BY <1>3 DEF Carried
<1> QED BY <1>4, <1>5, <1>6

\* One message for a task that had none.
LEMMA PutOne ==
    ASSUME NEW M, NEW f \in [Runners -> Seq(M)], NEW g, NEW type, NEW r \in Runners, NEW m \in M,
           Put(f, g, r, m), OneEach(f, type),
           m.task \in Offers, m.task \notin Carried(f, type)
    PROVE  OneEach(g, type) /\ Carried(g, type) \subseteq Carried(f, type) \cup {m.task}
<1>1. \A s \in Runners : Len(f[s]) \in Nat /\ g[s] = IF s = r THEN Append(f[s], m) ELSE f[s]
    BY DEF Put
<1>2. \A s \in Runners : \A i \in 1..Len(g[s]) :
          \/ i \in 1..Len(f[s]) /\ g[s][i] = f[s][i]
          \/ s = r /\ i = Len(f[r]) + 1 /\ g[s][i] = m
    <2> TAKE s \in Runners
    <2> TAKE i \in 1..Len(g[s])
    <2>1. CASE s # r BY <1>1, <2>1
    <2>2. CASE s = r
        <3>1. f[r] \in Seq(M) /\ g[r] = Append(f[r], m) BY <1>1
        <3>2. /\ Len(g[r]) = Len(f[r]) + 1 /\ g[r][Len(f[r]) + 1] = m
              /\ \A k \in 1..Len(f[r]) : g[r][k] = f[r][k]
            BY <3>1
        <3>3. i \in 1..Len(f[r]) \/ i = Len(f[r]) + 1 BY <1>1, <2>2, <3>2
        <3> QED BY <2>2, <3>2, <3>3
    <2> QED BY <2>1, <2>2
<1>3. \A s \in Runners : \A i \in 1..Len(f[s]) : f[s][i].type = type => f[s][i].task # m.task
    BY DEF Carried
<1>4. OneEach(g, type)
    <2> SUFFICES ASSUME NEW s \in Runners, NEW t \in Runners,
                        NEW i \in 1..Len(g[s]), NEW j \in 1..Len(g[t]),
                        g[s][i].type = type, g[t][j].type = type, g[s][i].task = g[t][j].task
                 PROVE  s = t /\ i = j
        BY DEF OneEach
    <2>1. CASE (i \in 1..Len(f[s]) /\ g[s][i] = f[s][i]) /\ (j \in 1..Len(f[t]) /\ g[t][j] = f[t][j])
        BY <2>1 DEF OneEach
    <2>2. CASE (s = r /\ i = Len(f[r]) + 1) /\ (t = r /\ j = Len(f[r]) + 1)
        BY <2>2
    <2>3. CASE (i \in 1..Len(f[s]) /\ g[s][i] = f[s][i]) /\ g[t][j] = m
        BY <1>3, <2>3
    <2>4. CASE g[s][i] = m /\ (j \in 1..Len(f[t]) /\ g[t][j] = f[t][j])
        BY <1>3, <2>4
    <2> QED BY <1>2, <2>1, <2>2, <2>3, <2>4
<1> QED BY <1>2, <1>4 DEF Carried

\* A step that puts no permission on the way and disturbs no task that waits.
LEMMA NoneLeaves ==
    ASSUME SettingsInv, Types', used \subseteq used', open' \subseteq used', open' \cap used \subseteq open,
           OneEach(toBroker', "accepted"), OneEach(toRunner', "settings"),
           Carried(toBroker', "accepted") \subseteq Carried(toBroker, "accepted"),
           Carried(toRunner', "settings") \subseteq Carried(toRunner, "settings"),
           \A o \in Offers : runningTasks[o] \in {"none", "waitingForSettings"}
                                 => runningTasks'[o] \in {"none", "waitingForSettings"}
    PROVE  SettingsInv'
<1>1. \A o \in Carried(toBroker', "accepted") \cup Carried(toRunner', "settings") : Waiting(o)'
    <2> TAKE o \in Carried(toBroker', "accepted") \cup Carried(toRunner', "settings")
    <2>1. o \in Offers /\ Waiting(o) BY DEF SettingsInv, Carried
    <2> QED BY <2>1 DEF Waiting
<1> QED BY <1>1 DEF SettingsInv

\* The orders that settleTasks sends are no settings.
LEMMA SettleTasksSends ==
    ASSUME Types, NEW os \in Seq(Offers), NEW ps \in Seq(Requests), SettleTasks(os, ps),
           OneEach(toRunner, "settings")
    PROVE  OneEach(toRunner', "settings") /\ Carried(toRunner', "settings") = Carried(toRunner, "settings")
<1>1. PICK late \in SUBSET Range(pendingOffers) :
        LET fresh == ExpireTasks(os, late)
            m == Matches(fresh, ps)
            matched == {p[1] : p \in m}
            orders(r) == Keep(fresh, matched \cap Of(r))
        IN toRunner' = [r \in Runners |-> IF conn[r] = "down" THEN toRunner[r]
                                ELSE toRunner[r] \o [i \in 1..Len(orders(r)) |->
                                                        Msg("accept", orders(r)[i])]]
    BY DEF SettleTasks
<1> DEFINE fresh == ExpireTasks(os, late)
           m == Matches(fresh, ps)
           matched == {p[1] : p \in m}
           orders(r) == Keep(fresh, matched \cap Of(r))
           told(r) == [i \in 1..Len(orders(r)) |-> Msg("accept", orders(r)[i])]
<1>2. toRunner' = [r \in Runners |-> IF conn[r] = "down" THEN toRunner[r] ELSE toRunner[r] \o told(r)]
    BY <1>1
<1>3. \A r \in Runners : orders(r) \in Seq(Offers)
    BY KeepProperties DEF ExpireTasks
<1> HIDE DEF orders
<1>4. ASSUME NEW r \in Runners
      PROVE  told(r) \in Seq(Orders) /\ \A i \in 1..Len(told(r)) : told(r)[i].type # "settings"
    <2>1. Len(orders(r)) \in Nat /\ \A i \in 1..Len(orders(r)) : orders(r)[i] \in Offers
        BY <1>3
    <2>2. \A i \in 1..Len(orders(r)) : Msg("accept", orders(r)[i]) \in Orders
        BY <2>1, MsgTypes
    <2>3. told(r) \in Seq(Orders) /\ Len(told(r)) = Len(orders(r)) BY <2>1, <2>2
    <2> QED BY <2>3 DEF Msg
<1> HIDE DEF told
<1>5. /\ toRunner \in [Runners -> Seq(Orders)] /\ toRunner' \in [Runners -> Seq(Orders)]
    BY SettleTasksTypes DEF Types, ChannelTypes
<1>6. \A r \in Runners :
          /\ Len(toRunner'[r]) >= Len(toRunner[r])
          /\ \A i \in 1..Len(toRunner[r]) : toRunner'[r][i] = toRunner[r][i]
          /\ \A i \in (Len(toRunner[r]) + 1)..Len(toRunner'[r]) : toRunner'[r][i].type # "settings"
    <2> TAKE r \in Runners
    <2>1. toRunner[r] \in Seq(Orders) /\ Len(toRunner[r]) \in Nat BY <1>5
    <2>2. CASE toRunner'[r] = toRunner[r] BY <2>1, <2>2
    <2>3. CASE toRunner'[r] = toRunner[r] \o told(r)
        <3> DEFINE s == toRunner[r]
                   t == told(r)
        <3>1. s \in Seq(Orders) /\ t \in Seq(Orders) BY <1>4, <2>1
        <3> HIDE DEF s, t
        <3>2. /\ Len(s) \in Nat /\ Len(t) \in Nat /\ Len(s \o t) = Len(s) + Len(t)
              /\ \A i \in 1..Len(s) : (s \o t)[i] = s[i]
              /\ \A i \in (Len(s) + 1)..Len(s \o t) : i - Len(s) \in 1..Len(t) /\ (s \o t)[i] = t[i - Len(s)]
            BY <3>1, JoinProperties
        <3>3. \A i \in 1..Len(t) : t[i].type # "settings" BY <1>4 DEF t
        <3>4. toRunner'[r] = s \o t BY <2>3 DEF s, t
        <3> QED BY <3>2, <3>3, <3>4 DEF s
    <2> QED BY <1>2, <2>2, <2>3
<1> QED BY <1>5, <1>6, PutOthers

\* One order that is no settings.
LEMMA MessageRunnerSends ==
    ASSUME ChannelTypes, NEW r, NEW m \in Orders, m.type # "settings", MessageRunner(r, m),
           OneEach(toRunner, "settings")
    PROVE  OneEach(toRunner', "settings") /\ Carried(toRunner', "settings") = Carried(toRunner, "settings")
<1>1. toRunner \in [Runners -> Seq(Orders)] /\ toRunner' \in [Runners -> Seq(Orders)]
    BY MessageRunnerTypes DEF ChannelTypes
<1>2. ASSUME NEW q \in Runners
      PROVE  /\ Len(toRunner'[q]) >= Len(toRunner[q])
             /\ \A i \in 1..Len(toRunner[q]) : toRunner'[q][i] = toRunner[q][i]
             /\ \A i \in (Len(toRunner[q]) + 1)..Len(toRunner'[q]) : toRunner'[q][i].type # "settings"
    <2>1. toRunner[q] \in Seq(Orders) /\ Len(toRunner[q]) \in Nat BY <1>1
    <2>2. toRunner'[q] = toRunner[q] \/ toRunner'[q] = Append(toRunner[q], m)
        BY <1>1 DEF MessageRunner
    <2>3. CASE toRunner'[q] = toRunner[q] BY <2>1, <2>3
    <2>4. CASE toRunner'[q] = Append(toRunner[q], m) BY <2>1, <2>4
    <2> QED BY <2>2, <2>3, <2>4
<1> QED BY <1>1, <1>2, PutOthers

\* What sendOffers sends is offers, after the replies it is given.
LEMMA SendOffersSends ==
    ASSUME SettingsInv, NEW r, NEW finished, NEW replies \in Seq(Messages), SendOffers(r, finished, replies),
           \A i \in 1..Len(replies) : replies[i].type # "accepted"
    PROVE  /\ OneEach(toBroker', "accepted") /\ Carried(toBroker', "accepted") = Carried(toBroker, "accepted")
           /\ used \subseteq used' /\ open' \subseteq used' /\ open' \cap used \subseteq open
<1>1. PICK stale \in SUBSET (open \cap Of(r)) :
        LET kept == (open \cap Of(r)) \ stale
            free == MaxConcurrency - (Cardinality(kept) + Cardinality(Busy(r) \ finished))
            new == IF conn[r] = "up" THEN Fresh(r, free) ELSE {}
        IN /\ open' = (open \ stale) \cup new
           /\ used' = used \cup new
           /\ toBroker' = [toBroker EXCEPT ![r] = @ \o replies \o OffersOf(new)]
    BY DEF SendOffers
<1> DEFINE kept == (open \cap Of(r)) \ stale
           free == MaxConcurrency - (Cardinality(kept) + Cardinality(Busy(r) \ finished))
           new == IF conn[r] = "up" THEN Fresh(r, free) ELSE {}
           t == OffersOf(new)
<1>2. /\ open' = (open \ stale) \cup new
      /\ used' = used \cup new
      /\ toBroker' = [toBroker EXCEPT ![r] = @ \o replies \o t]
    BY <1>1
<1>3. new \subseteq Offers \ used /\ IsFiniteSet(new)
    <2>1. IsFiniteSet(Offers) /\ Fresh(r, free) \subseteq Offers \ used BY OffersAssumption DEF Fresh, Of
    <2> QED BY <2>1, FS_Subset, FS_EmptySet
<1> HIDE DEF new
<1>4. t \in Seq(Messages) /\ \A i \in 1..Len(t) : t[i].type # "accepted"
    <2>1. t \in Seq(Messages) BY <1>3, OffersOfTypes
    <2>2. Cardinality(new) \in Nat BY <1>3, FS_CardinalityType
    <2>3. Len(t) = Cardinality(new) BY <2>1, <2>2 DEF OffersOf
    <2> QED BY <2>1, <2>3 DEF OffersOf, Msg
<1> HIDE DEF t
<1>5. /\ toBroker \in [Runners -> Seq(Messages)] /\ toBroker' \in [Runners -> Seq(Messages)]
    BY SendOffersTypes DEF SettingsInv, Types, ChannelTypes
<1>6. ASSUME NEW q \in Runners
      PROVE  /\ Len(toBroker'[q]) >= Len(toBroker[q])
             /\ \A i \in 1..Len(toBroker[q]) : toBroker'[q][i] = toBroker[q][i]
             /\ \A i \in (Len(toBroker[q]) + 1)..Len(toBroker'[q]) : toBroker'[q][i].type # "accepted"
    <2> DEFINE s == toBroker[q]
    <2>1. s \in Seq(Messages) /\ Len(s) \in Nat BY <1>5
    <2>2. toBroker'[q] = s \/ toBroker'[q] = s \o replies \o t BY <1>2, <1>5
    <2>3. CASE toBroker'[q] = s BY <2>1, <2>3
    <2>4. CASE toBroker'[q] = s \o replies \o t
        <3> HIDE DEF s
        <3> DEFINE a == s \o replies
        <3>1. /\ a \in Seq(Messages) /\ Len(a) = Len(s) + Len(replies) /\ Len(replies) \in Nat
              /\ \A i \in 1..Len(s) : a[i] = s[i]
              /\ \A i \in (Len(s) + 1)..Len(a) : i - Len(s) \in 1..Len(replies) /\ a[i] = replies[i - Len(s)]
            BY <2>1, JoinProperties
        <3> HIDE DEF a
        <3>6. a \in Seq(Messages) /\ t \in Seq(Messages) BY <1>4, <3>1
        <3>2. /\ Len(a \o t) = Len(a) + Len(t) /\ Len(t) \in Nat
              /\ \A i \in 1..Len(a) : (a \o t)[i] = a[i]
              /\ \A i \in (Len(a) + 1)..Len(a \o t) : i - Len(a) \in 1..Len(t) /\ (a \o t)[i] = t[i - Len(a)]
            BY <3>6, JoinProperties
        <3>3. toBroker'[q] = a \o t BY <2>4 DEF a
        <3>4. Len(a \o t) >= Len(s) /\ \A i \in 1..Len(s) : (a \o t)[i] = s[i]
            BY <2>1, <3>1, <3>2
        <3>5. ASSUME NEW i \in (Len(s) + 1)..Len(a \o t) PROVE (a \o t)[i].type # "accepted"
            <4>1. i \in (Len(s) + 1)..Len(a) \/ i \in (Len(a) + 1)..Len(a \o t)
                BY <2>1, <3>1, <3>2
            <4>2. CASE i \in (Len(s) + 1)..Len(a)
                <5>1. i \in 1..Len(a) BY <2>1, <3>1, <4>2
                <5>2. (a \o t)[i] = replies[i - Len(s)] /\ i - Len(s) \in 1..Len(replies)
                    BY <3>1, <3>2, <4>2, <5>1
                <5> QED BY <5>2
            <4>3. CASE i \in (Len(a) + 1)..Len(a \o t) BY <1>4, <3>2, <4>3
            <4> QED BY <4>1, <4>2, <4>3
        <3> QED BY <3>3, <3>4, <3>5 DEF s
    <2> QED BY <2>2, <2>3, <2>4
<1>7. OneEach(toBroker', "accepted") /\ Carried(toBroker', "accepted") = Carried(toBroker, "accepted")
    <2>1. OneEach(toBroker, "accepted") BY DEF SettingsInv
    <2> QED BY <1>5, <1>6, <2>1, PutOthers
<1> QED BY <1>2, <1>3, <1>7 DEF SettingsInv

\* A message of another type is taken off, or a message that permits nothing.
LEMMA ReceiveTakesOff ==
    ASSUME SettingsInv, NEW r \in Runners, toBroker[r] # <<>>, Taken(toBroker, toBroker', r)
    PROVE  /\ OneEach(toBroker', "accepted")
           /\ Carried(toBroker', "accepted") \subseteq Carried(toBroker, "accepted")
           /\ Head(toBroker[r]).task \in Offers
           /\ Head(toBroker[r]).type = "accepted" =>
                  Head(toBroker[r]).task \in Carried(toBroker, "accepted") \ Carried(toBroker', "accepted")
<1>1. toBroker \in [Runners -> Seq(Messages)] /\ OneEach(toBroker, "accepted")
    BY DEF SettingsInv, Types, ChannelTypes
<1>2. Head(toBroker[r]).task \in Offers
    BY ReceiveTypes DEF SettingsInv, Types
<1>4. /\ OneEach(toBroker', "accepted")
      /\ Carried(toBroker', "accepted") \subseteq Carried(toBroker, "accepted")
      /\ Head(toBroker[r]).type = "accepted" => Head(toBroker[r]).task \notin Carried(toBroker', "accepted")
      /\ Head(toBroker[r]).type = "accepted" /\ Head(toBroker[r]).task \in Offers
             => Head(toBroker[r]).task \in Carried(toBroker, "accepted")
    BY <1>1, TakeOff
<1> QED BY <1>2, <1>4

LEMMA OrderTakesOff ==
    ASSUME SettingsInv, NEW r \in Runners, NEW type, Order(r, type)
    PROVE  /\ OneEach(toRunner', "settings")
           /\ Carried(toRunner', "settings") \subseteq Carried(toRunner, "settings")
           /\ type = "settings" =>
                  Head(toRunner[r]).task \in Carried(toRunner, "settings") \ Carried(toRunner', "settings")
<1>1. toRunner \in [Runners -> Seq(Orders)] /\ OneEach(toRunner, "settings")
    BY DEF SettingsInv, Types, ChannelTypes
<1>2. /\ toRunner[r] # <<>> /\ Taken(toRunner, toRunner', r)
      /\ Head(toRunner[r]).type = type
    BY DEF Order, Taken
<1>3. type = "settings" => Head(toRunner[r]).task \in Offers
    BY OrderTypes DEF SettingsInv, Types
<1> QED BY <1>1, <1>2, <1>3, TakeOff

\* The runner accepts: the offer was open, so no permission is under way for it.
LEMMA AcceptPermits ==
    ASSUME SettingsInv, Types', NEW r \in Runners, OfferAccepted(r)
    PROVE  SettingsInv'
<1> DEFINE o == Head(toRunner[r]).task
<1>1. /\ OneEach(toRunner', "settings") /\ Carried(toRunner', "settings") \subseteq Carried(toRunner, "settings")
      /\ o \in Offers
    BY OrderTakesOff, OrderTypes DEF OfferAccepted, SettingsInv, Types
<1>2. toBroker \in [Runners -> Seq(Messages)] /\ OneEach(toBroker, "accepted") /\ open \subseteq used
    BY DEF SettingsInv, Types, ChannelTypes
<1>3. used' = used /\ open' \subseteq open
    BY DEF OfferAccepted
<1>4. \/ runningTasks' = runningTasks /\ toBroker' = [toBroker EXCEPT ![r] = Append(@, Msg("rejected", o))]
      \/ /\ o \in open /\ open' = open \ {o}
         /\ runningTasks' = [runningTasks EXCEPT ![o] = "waitingForSettings"]
         /\ toBroker' = [toBroker EXCEPT ![r] = Append(@, Msg("accepted", o))]
    BY DEF OfferAccepted
<1> HIDE DEF o
<1>5. CASE /\ runningTasks' = runningTasks
           /\ toBroker' = [toBroker EXCEPT ![r] = Append(@, Msg("rejected", o))]
    <2>1. Msg("rejected", o) \in Messages /\ Msg("rejected", o).type # "accepted"
        BY <1>1, MsgTypes DEF Msg
    <2> DEFINE m == Msg("rejected", o)
    <2> HIDE DEF m
    <2>2. toBroker' \in [Runners -> Seq(Messages)] BY DEF Types, ChannelTypes
    <2>3. ASSUME NEW q \in Runners
          PROVE  /\ Len(toBroker'[q]) >= Len(toBroker[q])
                 /\ \A i \in 1..Len(toBroker[q]) : toBroker'[q][i] = toBroker[q][i]
                 /\ \A i \in (Len(toBroker[q]) + 1)..Len(toBroker'[q]) : toBroker'[q][i].type # "accepted"
        <3>1. toBroker[q] \in Seq(Messages) /\ Len(toBroker[q]) \in Nat BY <1>2
        <3>2. toBroker'[q] = toBroker[q] \/ toBroker'[q] = Append(toBroker[q], m)
            BY <1>2, <1>5 DEF m
        <3>3. m.type # "accepted" BY <2>1 DEF m
        <3>4. CASE toBroker'[q] = toBroker[q] BY <3>1, <3>4
        <3>5. CASE toBroker'[q] = Append(toBroker[q], m) BY <3>1, <3>3, <3>5
        <3> QED BY <3>2, <3>4, <3>5
    <2>4. OneEach(toBroker', "accepted") /\ Carried(toBroker', "accepted") = Carried(toBroker, "accepted")
        BY <1>2, <2>2, <2>3, PutOthers
    <2> QED BY <1>1, <1>2, <1>3, <1>5, <2>4, NoneLeaves
<1>6. CASE /\ o \in open /\ open' = open \ {o}
           /\ runningTasks' = [runningTasks EXCEPT ![o] = "waitingForSettings"]
           /\ toBroker' = [toBroker EXCEPT ![r] = Append(@, Msg("accepted", o))]
    <2>1. o \notin Carried(toBroker, "accepted") \cup Carried(toRunner, "settings")
        BY <1>6 DEF SettingsInv, Waiting
    <2>2. Msg("accepted", o) \in Messages /\ Msg("accepted", o).task = o
        BY <1>1, MsgTypes DEF Msg
    <2>3. /\ OneEach(toBroker', "accepted")
          /\ Carried(toBroker', "accepted") \subseteq Carried(toBroker, "accepted") \cup {o}
        <3> DEFINE m == Msg("accepted", o)
        <3>1. m \in Messages /\ m.task = o BY <2>2
        <3>2. Put(toBroker, toBroker', r, m) BY <1>6 DEF Put
        <3> HIDE DEF m
        <3> QED BY <1>1, <1>2, <2>1, <3>1, <3>2, PutOne
    <2>4. runningTasks \in [Offers -> Statuses]
        BY DEF SettingsInv, Types, RunnerTypes
    <2>5. \A p \in Carried(toBroker', "accepted") \cup Carried(toRunner', "settings") : Waiting(p)'
        <3> TAKE p \in Carried(toBroker', "accepted") \cup Carried(toRunner', "settings")
        <3>1. p \in Offers /\ (p = o \/ p \in Carried(toBroker, "accepted") \cup Carried(toRunner, "settings"))
            BY <1>1, <2>3 DEF Carried
        <3>2. CASE p = o BY <1>1, <1>2, <1>3, <1>6, <2>4, <3>2 DEF Waiting
        <3>3. CASE p # o
            <4>1. Waiting(p) BY <3>1, <3>3 DEF SettingsInv
            <4> QED BY <1>3, <1>6, <2>4, <3>1, <3>3, <4>1 DEF Waiting
        <3> QED BY <3>2, <3>3
    <2>6. Carried(toBroker', "accepted") \cap Carried(toRunner', "settings") = {}
        BY <1>1, <2>1, <2>3 DEF SettingsInv
    <2> QED BY <1>1, <1>2, <1>3, <2>3, <2>5, <2>6 DEF SettingsInv
<1> QED BY <1>4, <1>5, <1>6

\* The broker turns an acceptance into settings, which take its place.
LEMMA SettingsPermit ==
    ASSUME SettingsInv, Types', NEW r \in Runners, RunnerAccepted(r)
    PROVE  SettingsInv'
<1> DEFINE o == Head(toBroker[r]).task
<1>1. /\ OneEach(toBroker', "accepted") /\ Carried(toBroker', "accepted") \subseteq Carried(toBroker, "accepted")
      /\ o \in Offers /\ o \in Carried(toBroker, "accepted") \ Carried(toBroker', "accepted")
    BY ReceiveTakesOff DEF RunnerAccepted, Receive, Taken
<1>2. UNCHANGED <<open, used, runningTasks>>
    BY DEF RunnerAccepted, runnerVars
<1>3. toRunner' = toRunner \/ toRunner' = [toRunner EXCEPT ![r] = Append(@, Msg("settings", o))]
    BY DEF RunnerAccepted, SendTaskSettings, MessageRunner
<1> HIDE DEF o
<1>4. toRunner \in [Runners -> Seq(Orders)] /\ OneEach(toRunner, "settings")
    BY DEF SettingsInv, Types, ChannelTypes
<1>5. /\ OneEach(toRunner', "settings")
      /\ Carried(toRunner', "settings") \subseteq Carried(toRunner, "settings") \cup {o}
    <2>1. CASE toRunner' = toRunner BY <1>4, <2>1
    <2>2. CASE toRunner' = [toRunner EXCEPT ![r] = Append(@, Msg("settings", o))]
        <3> DEFINE m == Msg("settings", o)
        <3>1. m \in Orders /\ m.task = o BY <1>1, MsgTypes DEF Msg
        <3>2. Put(toRunner, toRunner', r, m) BY <2>2 DEF Put
        <3>3. o \notin Carried(toRunner, "settings") BY <1>1 DEF SettingsInv
        <3> HIDE DEF m
        <3> QED BY <1>1, <1>4, <3>1, <3>2, <3>3, PutOne
    <2> QED BY <1>3, <2>1, <2>2
<1>6. Carried(toBroker', "accepted") \cap Carried(toRunner', "settings") = {}
    BY <1>1, <1>5 DEF SettingsInv
<1>7. \A p \in Carried(toBroker', "accepted") \cup Carried(toRunner', "settings") : Waiting(p)'
    BY <1>1, <1>2, <1>5 DEF SettingsInv, Waiting
<1> QED BY <1>1, <1>2, <1>5, <1>6, <1>7 DEF SettingsInv

\* The task starts to run when its permission has arrived.
LEMMA SettingsArrive ==
    ASSUME SettingsInv, Types', NEW r \in Runners, ReceivedSettings(r)
    PROVE  SettingsInv'
<1> DEFINE o == Head(toRunner[r]).task
<1>1. /\ OneEach(toRunner', "settings") /\ Carried(toRunner', "settings") \subseteq Carried(toRunner, "settings")
      /\ o \in Carried(toRunner, "settings") \ Carried(toRunner', "settings")
    BY OrderTakesOff DEF ReceivedSettings
<1>2. UNCHANGED <<open, used, toBroker>>
    BY DEF ReceivedSettings
<1>3. runningTasks' = runningTasks \/ runningTasks' = [runningTasks EXCEPT ![o] = "running"]
    BY DEF ReceivedSettings
<1> HIDE DEF o
<1>4. o \notin Carried(toBroker, "accepted")
    BY <1>1 DEF SettingsInv
<1>5. \A p \in Offers \ {o} : Waiting(p) => Waiting(p)'
    BY <1>2, <1>3 DEF Waiting, SettingsInv, Types, RunnerTypes
<1>6. \A p \in Carried(toBroker', "accepted") \cup Carried(toRunner', "settings") : Waiting(p)'
    BY <1>1, <1>2, <1>4, <1>5 DEF SettingsInv, Carried
<1> QED BY <1>1, <1>2, <1>6 DEF SettingsInv

\* The end of a task sends no permission: it is reported, and offers follow.
LEMMA FinishTaskPermits ==
    ASSUME SettingsInv, Types', NEW o, NEW replies \in Seq(Messages), FinishTask(o, replies),
           \A i \in 1..Len(replies) : replies[i].type # "accepted",
           OneEach(toRunner', "settings"), Carried(toRunner', "settings") \subseteq Carried(toRunner, "settings")
    PROVE  SettingsInv'
<1>1. SendOffers(RunnerOf[o], {o}, replies) /\ runningTasks' = [runningTasks EXCEPT ![o] = "none"]
    BY DEF FinishTask
<1>2. /\ OneEach(toBroker', "accepted") /\ Carried(toBroker', "accepted") = Carried(toBroker, "accepted")
      /\ used \subseteq used' /\ open' \subseteq used' /\ open' \cap used \subseteq open
    BY <1>1, SendOffersSends
<1>3. \A p \in Offers : runningTasks[p] \in {"none", "waitingForSettings"}
                            => runningTasks'[p] \in {"none", "waitingForSettings"}
    BY <1>1 DEF SettingsInv, Types, RunnerTypes
<1> QED BY <1>2, <1>3, NoneLeaves

\* A step that leaves the offers and the statuses alone.
LEMMA OffersStay ==
    ASSUME SettingsInv, Types', UNCHANGED runnerVars,
           OneEach(toBroker', "accepted"), OneEach(toRunner', "settings"),
           Carried(toBroker', "accepted") \subseteq Carried(toBroker, "accepted"),
           Carried(toRunner', "settings") \subseteq Carried(toRunner, "settings")
    PROVE  SettingsInv'
<1>1. used' = used /\ open' = open /\ runningTasks' = runningTasks /\ open \subseteq used
    BY DEF runnerVars, SettingsInv
<1> QED BY <1>1, NoneLeaves

LEMMA BrokerPermits ==
    ASSUME SettingsInv, Types',
           \/ \E q \in Requests : TaskRequested(q) \/ RequestTimeout(q) \/ CancelTask(q)
           \/ \E o \in Offers : AcceptTimeout(o) \/ TaskTimeout(o)
           \/ \E r \in Runners : \/ Ignored(r) \/ TaskOffered(r) \/ RunnerRejected(r)
                                 \/ TaskEnded(r) \/ DeregisterRunner(r)
           \/ StartDraining
           \/ UNCHANGED vars
    PROVE  SettingsInv'
<1>0. OneEach(toBroker, "accepted") /\ OneEach(toRunner, "settings") /\ Types
    BY DEF SettingsInv
<1>1. CASE UNCHANGED <<runnerVars, toBroker, toRunner>>
    BY <1>0, <1>1, OffersStay
<1>2. ASSUME NEW q \in Requests, TaskRequested(q) PROVE SettingsInv'
    <2>1. UNCHANGED <<runnerVars, toBroker>> BY <1>2 DEF TaskRequested
    <2>2. CASE brokerDraining
        <3>1. toRunner' = toRunner BY <1>2, <2>2 DEF TaskRequested
        <3> QED BY <1>1, <2>1, <3>1
    <2>3. CASE ~brokerDraining
        <3>1. SettleTasks(pendingOffers, Append(pending, q)) BY <1>2, <2>3 DEF TaskRequested
        <3>2. Append(pending, q) \in Seq(Requests) /\ pendingOffers \in Seq(Offers)
            BY <1>0 DEF Types, BrokerTypes
        <3>3. OneEach(toRunner', "settings") /\ Carried(toRunner', "settings") = Carried(toRunner, "settings")
            BY <1>0, <3>1, <3>2, SettleTasksSends
        <3> QED BY <1>0, <2>1, <3>3, OffersStay
    <2> QED BY <2>2, <2>3
<1>3. ASSUME NEW q \in Requests, CancelTask(q) PROVE SettingsInv'
    <2> DEFINE o == serving[q]
    <2>1. o \in Offers BY <1>0, <1>3 DEF CancelTask, Types, RequesterTypes
    <2>2. MessageRunner(RunnerOf[o], Msg("cancel", o)) \/ toRunner' = toRunner
        BY <1>3 DEF CancelTask, PassCancellation
    <2>3. UNCHANGED <<runnerVars, toBroker>> BY <1>3 DEF CancelTask
    <2> HIDE DEF o
    <2>4. Msg("cancel", o) \in Orders /\ Msg("cancel", o).type # "settings" BY <2>1, MsgTypes DEF Msg
    <2>5. OneEach(toRunner', "settings") /\ Carried(toRunner', "settings") = Carried(toRunner, "settings")
        BY <1>0, <2>2, <2>4, MessageRunnerSends DEF Types
    <2> QED BY <1>0, <2>3, <2>5, OffersStay
<1>4. ASSUME NEW o \in Offers, TaskTimeout(o) PROVE SettingsInv'
    <2>1. Msg("cancel", o) \in Orders /\ Msg("cancel", o).type # "settings" BY MsgTypes DEF Msg
    <2>2. MessageRunner(RunnerOf[o], Msg("cancel", o)) \/ toRunner' = toRunner
        BY <1>4 DEF TaskTimeout
    <2>3. OneEach(toRunner', "settings") /\ Carried(toRunner', "settings") = Carried(toRunner, "settings")
        BY <1>0, <2>1, <2>2, MessageRunnerSends DEF Types
    <2>4. UNCHANGED <<runnerVars, toBroker>> BY <1>4 DEF TaskTimeout
    <2> QED BY <1>0, <2>3, <2>4, OffersStay
<1>5. ASSUME NEW r \in Runners, Ignored(r) \/ RunnerRejected(r) \/ TaskEnded(r) PROVE SettingsInv'
    <2>1. /\ toBroker[r] # <<>> /\ Taken(toBroker, toBroker', r)
          /\ UNCHANGED <<runnerVars, toRunner>>
        BY <1>5 DEF Ignored, RunnerRejected, TaskEnded, Receive, Taken
    <2>2. /\ OneEach(toBroker', "accepted")
          /\ Carried(toBroker', "accepted") \subseteq Carried(toBroker, "accepted")
        BY <2>1, ReceiveTakesOff
    <2> QED BY <1>0, <2>1, <2>2, OffersStay
<1>6. ASSUME NEW r \in Runners, TaskOffered(r) PROVE SettingsInv'
    <2> DEFINE o == Head(toBroker[r]).task
    <2>1. /\ toBroker[r] # <<>> /\ Taken(toBroker, toBroker', r)
          /\ UNCHANGED runnerVars
        BY <1>6 DEF TaskOffered, Receive, Taken
    <2>2. /\ OneEach(toBroker', "accepted")
          /\ Carried(toBroker', "accepted") \subseteq Carried(toBroker, "accepted")
          /\ o \in Offers
        BY <2>1, ReceiveTakesOff
    <2>3. SettleTasks(Append(pendingOffers, o), pending) BY <1>6 DEF TaskOffered
    <2> HIDE DEF o
    <2>4. Append(pendingOffers, o) \in Seq(Offers) /\ pending \in Seq(Requests)
        BY <1>0, <2>2 DEF Types, BrokerTypes
    <2>5. OneEach(toRunner', "settings") /\ Carried(toRunner', "settings") = Carried(toRunner, "settings")
        BY <1>0, <2>3, <2>4, SettleTasksSends
    <2> QED BY <2>1, <2>2, <2>5, OffersStay
<1>7. CASE StartDraining
    <2>1. toRunner \in [Runners -> Seq(Orders)] /\ toRunner' \in [Runners -> Seq(Orders)]
        BY <1>0 DEF Types, ChannelTypes
    <2>2. ASSUME NEW r \in Runners
          PROVE  /\ Len(toRunner'[r]) >= Len(toRunner[r])
                 /\ \A i \in 1..Len(toRunner[r]) : toRunner'[r][i] = toRunner[r][i]
                 /\ \A i \in (Len(toRunner[r]) + 1)..Len(toRunner'[r]) : toRunner'[r][i].type # "settings"
        <3> DEFINE m == Msg("drain", None)
        <3>1. toRunner[r] \in Seq(Orders) /\ Len(toRunner[r]) \in Nat BY <2>1
        <3>2. toRunner'[r] = toRunner[r] \/ toRunner'[r] = Append(toRunner[r], m)
            BY <1>7 DEF StartDraining
        <3>3. m.type # "settings" BY DEF Msg
        <3> HIDE DEF m
        <3>4. CASE toRunner'[r] = toRunner[r] BY <3>1, <3>4
        <3>5. CASE toRunner'[r] = Append(toRunner[r], m) BY <3>1, <3>3, <3>5
        <3> QED BY <3>2, <3>4, <3>5
    <2>3. OneEach(toRunner', "settings") /\ Carried(toRunner', "settings") = Carried(toRunner, "settings")
        BY <1>0, <2>1, <2>2, PutOthers
    <2>4. UNCHANGED <<runnerVars, toBroker>> BY <1>7 DEF StartDraining
    <2> QED BY <1>0, <2>3, <2>4, OffersStay
<1>8. ASSUME \/ \E q \in Requests : RequestTimeout(q)
             \/ \E o \in Offers : AcceptTimeout(o)
             \/ \E r \in Runners : DeregisterRunner(r)
             \/ UNCHANGED vars
      PROVE  SettingsInv'
    BY <1>1, <1>8 DEF RequestTimeout, AcceptTimeout, DeregisterRunner, vars
<1> QED BY <1>2, <1>3, <1>4, <1>5, <1>6, <1>7, <1>8

LEMMA RunnersPermit ==
    ASSUME SettingsInv, Types',
           \/ \E o \in Offers : TaskTimedOut(o) \/ TaskExecuted(o)
           \/ \E r \in Runners : \/ TaskCancelled(r) \/ BrokerDrain(r) \/ OfferInterval(r)
                                 \/ StopRunner(r) \/ RunnerExits(r)
    PROVE  SettingsInv'
<1>0. /\ OneEach(toBroker, "accepted") /\ OneEach(toRunner, "settings") /\ Types /\ open \subseteq used
      /\ runningTasks \in [Offers -> Statuses] /\ toRunner \in [Runners -> Seq(Orders)]
    BY DEF SettingsInv, Types, RunnerTypes, ChannelTypes
<1>1. ASSUME NEW o \in Offers, TaskTimedOut(o) PROVE SettingsInv'
    <2>1. toRunner' = toRunner BY <1>1 DEF TaskTimedOut
    <2>2. CASE FinishTask(o, <<Msg("error", o)>>)
        <3> DEFINE m == Msg("error", o)
        <3>1. m \in Messages /\ m.type # "accepted" BY MsgTypes DEF Msg
        <3> HIDE DEF m
        <3>2. <<m>> \in Seq(Messages) /\ \A i \in 1..Len(<<m>>) : <<m>>[i].type # "accepted" BY <3>1
        <3>3. FinishTask(o, <<m>>) BY <2>2 DEF m
        <3> QED BY <1>0, <2>1, <3>2, <3>3, FinishTaskPermits
    <2>3. CASE /\ runningTasks[o] = "running"
               /\ runningTasks' = [runningTasks EXCEPT ![o] = "aborting:timeout"]
               /\ UNCHANGED <<open, used, toBroker>>
        <3>1. \A p \in Offers : runningTasks[p] \in {"none", "waitingForSettings"}
                                    => runningTasks'[p] \in {"none", "waitingForSettings"}
            BY <1>0, <2>3
        <3> QED BY <1>0, <2>1, <2>3, <3>1, NoneLeaves
    <2> QED BY <1>1, <2>2, <2>3 DEF TaskTimedOut
<1>2. ASSUME NEW o \in Offers, TaskExecuted(o) PROVE SettingsInv'
    <2>1. toRunner' = toRunner BY <1>2 DEF TaskExecuted
    <2>2. ASSUME NEW m, m \in Messages, m.type # "accepted", FinishTask(o, <<m>>) PROVE SettingsInv'
        <3>1. <<m>> \in Seq(Messages) /\ \A i \in 1..Len(<<m>>) : <<m>>[i].type # "accepted" BY <2>2
        <3> QED BY <1>0, <2>1, <2>2, <3>1, FinishTaskPermits
    <2>3. CASE FinishTask(o, <<>>)
        <3>1. <<>> \in Seq(Messages) /\ \A i \in 1..Len(<<>>) : <<>>[i].type # "accepted" OBVIOUS
        <3> QED BY <1>0, <2>1, <2>3, <3>1, FinishTaskPermits
    <2>4. \A type \in {"done", "error"} : Msg(type, o) \in Messages /\ Msg(type, o).type # "accepted"
        BY MsgTypes DEF Msg
    <2>5. FinishTask(o, <<>>) \/ \E type \in {"done", "error"} : FinishTask(o, <<Msg(type, o)>>)
        BY <1>2 DEF TaskExecuted
    <2> QED BY <2>2, <2>3, <2>4, <2>5
<1>3. ASSUME NEW r \in Runners, TaskCancelled(r) PROVE SettingsInv'
    <2> DEFINE o == Head(toRunner[r]).task
    <2>1. OneEach(toRunner', "settings") /\ Carried(toRunner', "settings") \subseteq Carried(toRunner, "settings")
        BY <1>3, OrderTakesOff DEF TaskCancelled
    <2>2. \/ FinishTask(o, <<>>)
          \/ /\ runningTasks' = [runningTasks EXCEPT ![o] = IF @ = "running" THEN "aborting:cancelled" ELSE @]
             /\ UNCHANGED <<open, used, toBroker>>
        BY <1>3 DEF TaskCancelled
    <2> HIDE DEF o
    <2>3. CASE FinishTask(o, <<>>)
        <3>1. <<>> \in Seq(Messages) /\ \A i \in 1..Len(<<>>) : <<>>[i].type # "accepted" OBVIOUS
        <3> QED BY <2>1, <2>3, <3>1, FinishTaskPermits
    <2>4. CASE /\ runningTasks' = [runningTasks EXCEPT ![o] = IF @ = "running" THEN "aborting:cancelled" ELSE @]
               /\ UNCHANGED <<open, used, toBroker>>
        <3>1. \A p \in Offers : runningTasks[p] \in {"none", "waitingForSettings"}
                                    => runningTasks'[p] \in {"none", "waitingForSettings"}
            BY <1>0, <2>4
        <3> QED BY <1>0, <2>1, <2>4, <3>1, NoneLeaves
    <2> QED BY <2>2, <2>3, <2>4
<1>4. ASSUME NEW r \in Runners, BrokerDrain(r) PROVE SettingsInv'
    <2>1. OneEach(toRunner', "settings") /\ Carried(toRunner', "settings") \subseteq Carried(toRunner, "settings")
        BY <1>4, OrderTakesOff DEF BrokerDrain
    <2>2. UNCHANGED <<open, used, runningTasks, toBroker>> BY <1>4 DEF BrokerDrain
    <2> QED BY <1>0, <2>1, <2>2, NoneLeaves
<1>5. ASSUME NEW r \in Runners, OfferInterval(r) PROVE SettingsInv'
    <2>1. SendOffers(r, {}, <<>>) /\ UNCHANGED <<runningTasks, toRunner>> BY <1>5 DEF OfferInterval
    <2>2. <<>> \in Seq(Messages) /\ \A i \in 1..Len(<<>>) : <<>>[i].type # "accepted" OBVIOUS
    <2>3. /\ OneEach(toBroker', "accepted") /\ Carried(toBroker', "accepted") = Carried(toBroker, "accepted")
          /\ used \subseteq used' /\ open' \subseteq used' /\ open' \cap used \subseteq open
        BY <2>1, <2>2, SendOffersSends
    <2> QED BY <1>0, <2>1, <2>3, NoneLeaves
<1>6. ASSUME NEW r \in Runners, StopRunner(r) PROVE SettingsInv'
    <2>1. open' \subseteq open /\ UNCHANGED <<used, runningTasks, toBroker, toRunner>> BY <1>6 DEF StopRunner
    <2> QED BY <1>0, <2>1, NoneLeaves
<1>7. ASSUME NEW r \in Runners, RunnerExits(r) PROVE SettingsInv'
    <2>1. /\ open' \subseteq open /\ UNCHANGED <<used, toBroker>>
          /\ \A p \in Offers : runningTasks[p] \in {"none", "waitingForSettings"}
                                   => runningTasks'[p] \in {"none", "waitingForSettings"}
        BY <1>7 DEF RunnerExits
    <2>2. \A q \in Runners : toRunner'[q] = IF q = r THEN <<>> ELSE toRunner[q]
        BY <1>0, <1>7 DEF RunnerExits
    <2>3. \A q \in Runners : \A i \in 1..Len(toRunner'[q]) : i \in 1..Len(toRunner[q]) /\ toRunner'[q][i] = toRunner[q][i]
        BY <2>2
    <2>4. OneEach(toRunner', "settings")
        <3> SUFFICES ASSUME NEW q \in Runners, NEW s \in Runners,
                            NEW i \in 1..Len(toRunner'[q]), NEW j \in 1..Len(toRunner'[s]),
                            toRunner'[q][i].type = "settings", toRunner'[s][j].type = "settings",
                            toRunner'[q][i].task = toRunner'[s][j].task
                     PROVE  q = s /\ i = j
            BY DEF OneEach
        <3>1. /\ i \in 1..Len(toRunner[q]) /\ toRunner'[q][i] = toRunner[q][i]
              /\ j \in 1..Len(toRunner[s]) /\ toRunner'[s][j] = toRunner[s][j]
            BY <2>3
        <3> QED BY <1>0, <3>1 DEF OneEach
    <2>5. Carried(toRunner', "settings") \subseteq Carried(toRunner, "settings")
        BY <2>3 DEF Carried
    <2> QED BY <1>0, <2>1, <2>4, <2>5, NoneLeaves
<1> QED BY <1>1, <1>2, <1>3, <1>4, <1>5, <1>6, <1>7

LEMMA SettingsNext ==
    ASSUME SettingsInv, [Next]_vars
    PROVE  SettingsInv'
<1>1. Types'
    BY TypesNext DEF SettingsInv
<1> QED BY <1>1, AcceptPermits, SettingsPermit, SettingsArrive, BrokerPermits, RunnersPermit DEF Next, Deliver

LEMMA SettingsInit == Init => SettingsInv
<1> SUFFICES ASSUME Init PROVE SettingsInv
    OBVIOUS
<1>1. Types BY TypesInit
<1>2. \A r \in Runners : Len(toBroker[r]) = 0 /\ Len(toRunner[r]) = 0 BY DEF Init
<1>3. /\ OneEach(toBroker, "accepted") /\ OneEach(toRunner, "settings")
      /\ Carried(toBroker, "accepted") = {} /\ Carried(toRunner, "settings") = {}
    BY <1>2 DEF OneEach, Carried
<1>4. open \subseteq used BY DEF Init
<1> QED BY <1>1, <1>3, <1>4 DEF SettingsInv

\* receivedSettings never meets a task that runs or is being aborted, for any
\* runners and in any order of offers, acceptances, timeouts and cancellations.
THEOREM SettingsComeInTime == Spec => []SettingsExpected
<1>1. SettingsInv => SettingsExpected
    <2> SUFFICES ASSUME SettingsInv, NEW r \in Runners, toRunner[r] # <<>>,
                        Head(toRunner[r]).type = "settings"
                 PROVE  runningTasks[Head(toRunner[r]).task] \in {"none", "waitingForSettings"}
        BY DEF SettingsExpected
    <2>1. toRunner[r] \in Seq(Orders) BY DEF SettingsInv, Types, ChannelTypes
    <2>2. Head(toRunner[r]) \in Orders /\ 1 \in 1..Len(toRunner[r]) /\ toRunner[r][1] = Head(toRunner[r])
        BY <2>1
    <2>3. Head(toRunner[r]).task \in Offers BY <2>2 DEF Orders
    <2>4. Head(toRunner[r]).task \in Carried(toRunner, "settings") BY <2>2, <2>3 DEF Carried
    <2> QED BY <2>4 DEF SettingsInv, Waiting
<1> QED BY <1>1, SettingsInit, SettingsNext, PTL DEF Spec

=============================================================================
