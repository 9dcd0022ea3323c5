------------------------- MODULE WorkflowExecuteProofs -------------------------
(***************************************************************************)
(* Proofs about WorkflowExecute for any set of nodes and any workflows:    *)
(*   - every variable keeps its type, of any workflow;                     *)
(*   - who waits when an execution succeeds requires all its inputs or     *)
(*     comes after one that does.  Of those that wait, one is first: this  *)
(*     needs that no node with several inputs is on a loop;                *)
(*   - the data a node with several inputs is run with belong together,    *)
(*     and no datum is lost, as long as none of its inputs gets a third    *)
(*     datum.  Then the entries of the node are layers: the l-th data of   *)
(*     its inputs, for l = 1 and l = 2, until it is released with what it  *)
(*     has.  It is released when neither the stack nor who waits has a     *)
(*     node before it, so that no more data come: on a loop they might.    *)
(* A third datum can be written over the first (the run nothing_lost), so  *)
(* that the bound is needed and not only a limit of the argument.          *)
(***************************************************************************)
EXTENDS WorkflowExecute, FiniteSetTheorems, WellFoundedInduction, TLAPS

-----------------------------------------------------------------------------
(* The workflow.                                                           *)

Upwards(edges, n) == Parents(edges, n) \cup {n}

Closed(edges, S) == \A e \in edges : e.to \in S => e.from \in S

\* What comes before a node: the least set with it that has what is connected to its members.
LEMMA UpwardsProperties ==
    ASSUME NEW edges, edges \subseteq Edges, NEW n \in Nodes
    PROVE  /\ Parents(edges, n) \subseteq Nodes /\ n \notin Parents(edges, n)
           /\ Closed(edges, Upwards(edges, n))
           /\ \A S \in SUBSET Nodes : n \in S /\ Closed(edges, S) => Upwards(edges, n) \subseteq S
<1> DEFINE C == {S \in SUBSET Nodes : n \in S /\ Closed(edges, S)}
           U == {m \in Nodes : \A S \in C : m \in S}
<1>1. Upwards(edges, n) = U /\ Parents(edges, n) = U \ {n}
  BY DEF Upwards, Parents, Closed
<1>2. Closed(edges, U)
  <2>1. ASSUME NEW e \in edges, e.to \in U PROVE e.from \in U
    <3>1. e.from \in Nodes
      BY DEF Edges
    <3>2. ASSUME NEW S \in C PROVE e.from \in S
      BY <2>1 DEF Closed
    <3> QED BY <3>1, <3>2
  <2> QED BY <2>1 DEF Closed
<1>3. \A S \in C : U \subseteq S
  OBVIOUS
<1> QED BY <1>1, <1>2, <1>3

\* What is before something that is before a node is before the node.
LEMMA UpwardsTransitive ==
    ASSUME NEW edges, edges \subseteq Edges, NEW n \in Nodes, NEW m \in Upwards(edges, n)
    PROVE  Upwards(edges, m) \subseteq Upwards(edges, n)
<1>1. m \in Nodes /\ Upwards(edges, n) \in SUBSET Nodes
  BY UpwardsProperties DEF Upwards
<1> QED BY <1>1, UpwardsProperties

\* Who is before another node is connected to one that is the node or before it.
LEMMA UpwardsConnected ==
    ASSUME NEW edges, edges \subseteq Edges, NEW n \in Nodes, NEW m \in Parents(edges, n)
    PROVE  \E e \in edges : e.from = m /\ e.to \in Upwards(edges, n)
<1> SUFFICES ASSUME \A e \in edges : e.to \in Upwards(edges, n) => e.from # m PROVE FALSE
  OBVIOUS
<1> DEFINE S == Upwards(edges, n) \ {m}
<1>1. S \in SUBSET Nodes /\ n \in S /\ m \in Upwards(edges, n)
  BY UpwardsProperties DEF Upwards
<1>2. Closed(edges, S)
  BY UpwardsProperties DEF Closed
<1>3. Upwards(edges, n) \subseteq S
  BY <1>1, <1>2, UpwardsProperties
<1> QED BY <1>1, <1>3

Rank(S, R, e) == Cardinality({d \in S : <<d, e>> \in R})

\* In a finite set with a strict total order every place is taken by one member.
LEMMA RanksTaken ==
    ASSUME NEW S, IsFiniteSet(S), NEW R,
           \A d \in S : <<d, d>> \notin R,
           \A d, e \in S : d # e => <<d, e>> \in R \/ <<e, d>> \in R,
           \A c, d, e \in S : <<c, d>> \in R /\ <<d, e>> \in R => <<c, e>> \in R,
           NEW k \in 1..Cardinality(S)
    PROVE  \E e \in S : Rank(S, R, e) = k - 1
<1> DEFINE below(e) == {d \in S : <<d, e>> \in R}
           f == [e \in S |-> Rank(S, R, e)]
           P == 0..(Cardinality(S) - 1)
<1>0. Cardinality(S) \in Nat
  BY FS_CardinalityType
<1>1. \A e \in S : /\ below(e) \subseteq S /\ e \notin below(e) /\ IsFiniteSet(below(e))
                   /\ Rank(S, R, e) = Cardinality(below(e))
  BY FS_Subset DEF Rank
<1>2. ASSUME NEW d \in S, NEW e \in S, <<d, e>> \in R PROVE Rank(S, R, d) < Rank(S, R, e)
  <2>1. below(d) \subseteq below(e) /\ d \in below(e)
    BY <1>2
  <2> HIDE DEF below
  <2>2. Cardinality(below(d)) <= Cardinality(below(e)) /\ Cardinality(below(d)) # Cardinality(below(e))
    BY <1>1, <2>1, FS_Subset
  <2>3. Cardinality(below(d)) \in Nat /\ Cardinality(below(e)) \in Nat
    BY <1>1, FS_CardinalityType
  <2> QED BY <1>1, <2>2, <2>3
<1> HIDE DEF below
<1>3. ASSUME NEW e \in S PROVE Rank(S, R, e) \in P
  <2>1. Cardinality(below(e)) \in Nat
    BY <1>1, FS_CardinalityType
  <2>2. Cardinality(below(e)) <= Cardinality(S) /\ Cardinality(below(e)) # Cardinality(S)
    BY <1>1, FS_Subset
  <2> QED BY <1>0, <1>1, <2>1, <2>2
<1>4. ASSUME NEW d \in S, NEW e \in S, Rank(S, R, d) = Rank(S, R, e) PROVE d = e
  <2>1. Rank(S, R, d) \in P
    BY <1>3
  <2>2. ~(Rank(S, R, d) < Rank(S, R, e)) /\ ~(Rank(S, R, e) < Rank(S, R, d))
    BY <1>0, <1>4, <2>1
  <2> QED BY <1>2, <2>2
<1>5. IsFiniteSet(P) /\ Cardinality(P) = Cardinality(S)
  <2>1. \A i \in Int : IsFiniteSet(0..i) /\ Cardinality(0..i) = IF 0 > i THEN 0 ELSE i - 0 + 1
    BY FS_Interval
  <2>2. Cardinality(S) - 1 \in Int
    BY <1>0
  <2> QED BY <1>0, <2>1, <2>2 DEF P
<1>6. f \in Injection(S, P)
  BY <1>3, <1>4 DEF Injection, IsInjective
<1> HIDE DEF f, P
<1>7. f \in Surjection(S, P)
  BY <1>5, <1>6, FS_Injection
<1>8. k - 1 \in P
  BY <1>0 DEF P
<1>9. \E e \in S : f[e] = k - 1
  BY <1>7, <1>8 DEF Surjection
<1> QED BY <1>9 DEF f

\* Edges are few: nodes and inputs are.
LEMMA EdgesFinite == IsFiniteSet(Edges)
<1> DEFINE f == [p \in (Nodes \X Inputs) \X (Nodes \X Inputs) |->
                   [from |-> p[1][1], out |-> p[1][2], to |-> p[2][1], in |-> p[2][2]]]
           P == (Nodes \X Inputs) \X (Nodes \X Inputs)
<1>1. IsFiniteSet(Nodes) /\ IsFiniteSet(Inputs)
  <2>1. \A k \in Int : IsFiniteSet(0..k)
    BY FS_Interval
  <2>2. IsFiniteSet(Inputs)
    <3>1. PICK k \in Int : k = 2
      OBVIOUS
    <3>2. IsFiniteSet(0..k)
      BY <2>1
    <3> QED BY <3>1, <3>2 DEF Inputs
  <2> QED BY <2>2, EngineAssumption
<1>2. IsFiniteSet(Nodes \X Inputs)
  BY <1>1, FS_Product
<1>3. IsFiniteSet(P)
  BY <1>2, FS_Product
<1>4. f \in [P -> Edges]
  BY DEF Edges
<1>5. \A e \in Edges : \E p \in P : f[p] = e
  <2> TAKE e \in Edges
  <2>1. <<<<e.from, e.out>>, <<e.to, e.in>>>> \in P
    BY DEF Edges
  <2>2. f[<<<<e.from, e.out>>, <<e.to, e.in>>>>] = e
    BY <2>1 DEF Edges
  <2> QED BY <2>1, <2>2
<1> HIDE DEF f, P
<1>6. f \in Surjection(P, Edges)
  BY <1>4, <1>5 DEF Surjection
<1> QED BY <1>3, <1>6, FS_Surjection

\* The connections of a node leave that node.
LEMMA ConnectionsLeave ==
    ASSUME NEW edges, edges \subseteq Edges, NEW n \in Nodes
    PROVE  Connections(edges, n) \in Seq({e \in edges : e.from = n})
<1> DEFINE S == {e \in edges : e.from = n}
           R == {p \in S \X S : Before(p[1], p[2])}
<1>1. IsFiniteSet(S) /\ Cardinality(S) \in Nat
  BY EdgesFinite, FS_Subset, FS_CardinalityType
<1>2. \A d, e \in S : <<d, e>> \in R <=> Before(d, e)
  OBVIOUS
<1>3. \A e \in S : /\ e.to \in Nat /\ e.out \in Nat /\ e.in \in Nat /\ e.from = n
                   /\ e = [from |-> e.from, out |-> e.out, to |-> e.to, in |-> e.in]
  <2> TAKE e \in S
  <2>1. e \in Edges /\ e.from = n
    OBVIOUS
  <2>2. /\ e.to \in Nodes /\ e.out \in 0..2 /\ e.in \in 0..2
        /\ e = [from |-> e.from, out |-> e.out, to |-> e.to, in |-> e.in]
    BY <2>1 DEF Edges, Inputs
  <2> QED BY <2>1, <2>2, EngineAssumption
<1>4. \A e \in S : {d \in S : Before(d, e)} = {d \in S : <<d, e>> \in R}
  OBVIOUS
<1> HIDE DEF R, S
<1>5. \A d \in S : <<d, d>> \notin R
  BY <1>2, <1>3 DEF Before
<1>6. \A d, e \in S : d # e => <<d, e>> \in R \/ <<e, d>> \in R
  <2> TAKE d, e \in S
  <2>1. d.to = e.to /\ d.out = e.out /\ d.in = e.in => d = e
    BY <1>3
  <2> QED BY <1>2, <1>3, <2>1 DEF Before
<1>7. \A c, d, e \in S : <<c, d>> \in R /\ <<d, e>> \in R => <<c, e>> \in R
  BY <1>2, <1>3 DEF Before
<1>8. ASSUME NEW k \in 1..Cardinality(S)
      PROVE  \E e \in S : Cardinality({d \in S : Before(d, e)}) + 1 = k
  <2>1. PICK e \in S : Rank(S, R, e) = k - 1
    BY <1>1, <1>5, <1>6, <1>7, RanksTaken
  <2>2. Cardinality({d \in S : Before(d, e)}) = k - 1
    BY <1>4, <2>1 DEF Rank
  <2> QED BY <1>1, <2>2
<1>9. Connections(edges, n) = [k \in 1..Cardinality(S) |->
                                 CHOOSE e \in S : Cardinality({d \in S : Before(d, e)}) + 1 = k]
  BY DEF Connections, S
<1>10. \A k \in 1..Cardinality(S) : (CHOOSE e \in S : Cardinality({d \in S : Before(d, e)}) + 1 = k) \in S
  BY <1>8
<1>11. Connections(edges, n) \in [1..Cardinality(S) -> S]
  BY <1>9, <1>10
<1>12. Connections(edges, n) \in Seq(S)
  BY <1>1, <1>11
<1> QED BY <1>12 DEF S

\* An input that is connected is one of those that are counted.
LEMMA InputsCounted ==
    ASSUME NEW edges, edges \subseteq Edges, NEW n \in Nodes
    PROVE  /\ NumberOfInputs(edges, n) \in 0..3
           /\ \A e \in edges : e.to = n => e.in < NumberOfInputs(edges, n)
<1> DEFINE I == {e.in : e \in {d \in edges : d.to = n}}
<1>1. I \subseteq 0..2
  BY DEF Edges, Inputs
<1>2. NumberOfInputs(edges, n) = IF I = {} THEN 0 ELSE Max(I) + 1
  BY DEF NumberOfInputs
<1>3. \A e \in edges : e.to = n => e.in \in I
  OBVIOUS
<1> HIDE DEF I
<1>4. CASE I = {}
  BY <1>2, <1>3, <1>4
<1>5. CASE I # {}
  <2>1. \E x \in I : \A y \in I : x >= y
    <3>1. CASE 2 \in I
      BY <1>1, <3>1
    <3>2. CASE 2 \notin I /\ 1 \in I
      BY <1>1, <3>2
    <3>3. CASE 2 \notin I /\ 1 \notin I
      <4>1. \A y \in I : y = 0
        BY <1>1, <3>3
      <4> QED BY <1>5, <4>1
    <3> QED BY <3>1, <3>2, <3>3
  <2>2. Max(I) \in I /\ \A y \in I : Max(I) >= y
    BY <2>1 DEF Max
  <2>3. \A y \in I : y \in 0..2
    BY <1>1
  <2> QED BY <1>2, <1>3, <1>5, <2>2, <2>3
<1> QED BY <1>4, <1>5

\* The workflow of an execution is what Init derives from one of the Workflows.
Structured ==
    \E w \in Workflows :
      workflow = [connections |-> [n \in Nodes |-> Connections(w.edges, n)],
                  parents |-> [n \in Nodes |-> Parents(w.edges, n)],
                  inputs |-> [n \in Nodes |-> NumberOfInputs(w.edges, n)],
                  requireAll |-> w.requireAll]

InputsOf(n) == 0 .. workflow.inputs[n] - 1

\* The nodes that wait for several inputs, and what a node and those before it are.
Joins == {n \in Nodes : workflow.inputs[n] > 1}
Above(n) == workflow.parents[n] \cup {n}

\* What is assumed of the workflows where data must not come back: no node with several
\* inputs is on a loop.  Loops of nodes with one input are allowed.
NoJoinOnALoop ==
    \A w \in Workflows : \A e \in w.edges :
      NumberOfInputs(w.edges, e.from) > 1 => e.to \notin Upwards(w.edges, e.from)

\* What a connection of node n is: it leads from it to an input of a node that n is before.
Leaving(n) ==
    {e \in Edges : /\ e.from = n /\ e.in \in InputsOf(e.to) /\ n \in Above(e.to)
                   /\ NoJoinOnALoop /\ n \in Joins => e.to \notin Above(n)}

\* What holds of the workflow of an execution.
LEMMA WorkflowFacts ==
    ASSUME Structured
    PROVE  /\ \A n \in Nodes : /\ workflow.parents[n] \subseteq Nodes /\ n \notin workflow.parents[n]
                               /\ workflow.inputs[n] \in 0..3 /\ InputsOf(n) \subseteq Inputs
                               /\ workflow.connections[n] \in Seq(Leaving(n))
           /\ \A n \in Nodes : \A m \in Above(n) : Above(m) \subseteq Above(n)
           /\ NoJoinOnALoop => \A n \in Joins : \A m \in workflow.parents[n] : n \notin Above(m)
<1>1. PICK w \in Workflows :
        workflow = [connections |-> [n \in Nodes |-> Connections(w.edges, n)],
                    parents |-> [n \in Nodes |-> Parents(w.edges, n)],
                    inputs |-> [n \in Nodes |-> NumberOfInputs(w.edges, n)],
                    requireAll |-> w.requireAll]
  BY DEF Structured
<1>2. w.edges \subseteq Edges
  BY EngineAssumption
<1>3. \A n \in Nodes : /\ workflow.parents[n] = Parents(w.edges, n)
                       /\ workflow.inputs[n] = NumberOfInputs(w.edges, n)
                       /\ workflow.connections[n] = Connections(w.edges, n)
                       /\ Above(n) = Upwards(w.edges, n)
  BY <1>1 DEF Above, Upwards
<1>4. ASSUME NEW n \in Nodes
      PROVE  /\ workflow.parents[n] \subseteq Nodes /\ n \notin workflow.parents[n]
             /\ workflow.inputs[n] \in 0..3 /\ InputsOf(n) \subseteq Inputs
  <2>1. workflow.parents[n] \subseteq Nodes /\ n \notin workflow.parents[n]
    BY <1>2, <1>3, UpwardsProperties
  <2>2. workflow.inputs[n] \in 0..3
    BY <1>2, <1>3, InputsCounted
  <2>3. InputsOf(n) \subseteq Inputs
    BY <2>2 DEF InputsOf, Inputs
  <2> QED BY <2>1, <2>2, <2>3
<1>5. ASSUME NEW n \in Nodes PROVE workflow.connections[n] \in Seq(Leaving(n))
  <2>1. ASSUME NEW e \in w.edges, e.from = n
        PROVE  /\ e \in Edges /\ e.in \in InputsOf(e.to) /\ n \in Above(e.to)
               /\ NoJoinOnALoop /\ n \in Joins => e.to \notin Above(n)
    <3>1. e \in Edges /\ e.to \in Nodes /\ e.in \in Nat
      BY <1>2 DEF Edges, Inputs
    <3>2. e.in < workflow.inputs[e.to] /\ workflow.inputs[e.to] \in 0..3
      BY <1>2, <1>3, <3>1, InputsCounted
    <3>3. e.in \in InputsOf(e.to)
      BY <3>1, <3>2 DEF InputsOf
    <3>4. n \in Above(e.to)
      <4>1. Closed(w.edges, Upwards(w.edges, e.to)) /\ e.to \in Upwards(w.edges, e.to)
        BY <1>2, <3>1, UpwardsProperties DEF Upwards
      <4> QED BY <1>3, <2>1, <3>1, <4>1 DEF Closed
    <3>5. NoJoinOnALoop /\ n \in Joins => e.to \notin Above(n)
      BY <1>3, <2>1 DEF NoJoinOnALoop, Joins
    <3> QED BY <3>1, <3>3, <3>4, <3>5
  <2>2. {e \in w.edges : e.from = n} \subseteq Leaving(n)
    BY <2>1 DEF Leaving
  <2>3. workflow.connections[n] \in Seq({e \in w.edges : e.from = n})
    BY <1>2, <1>3, ConnectionsLeave
  <2> HIDE DEF Leaving
  <2> QED BY <2>2, <2>3
<1>6. ASSUME NEW n \in Nodes, NEW m \in Above(n) PROVE Above(m) \subseteq Above(n)
  <2>1. m \in Nodes
    BY <1>4 DEF Above
  <2> QED BY <1>2, <1>3, <2>1, UpwardsTransitive
<1>7. ASSUME NoJoinOnALoop, NEW n \in Joins, NEW m \in workflow.parents[n], n \in Above(m) PROVE FALSE
  <2>1. n \in Nodes /\ m \in Nodes /\ m # n /\ m \in Above(n)
    BY <1>4 DEF Joins, Above
  <2>2. n \in Parents(w.edges, m)
    BY <1>3, <1>7, <2>1 DEF Above
  <2>3. PICK e \in w.edges : e.from = n /\ e.to \in Upwards(w.edges, m)
    BY <1>2, <2>1, <2>2, UpwardsConnected
  <2>4. e.to \in Upwards(w.edges, n)
    BY <1>3, <1>6, <2>1, <2>3
  <2> QED BY <1>3, <1>7, <2>3, <2>4 DEF NoJoinOnALoop, Joins
<1> QED BY <1>4, <1>5, <1>6, <1>7

-----------------------------------------------------------------------------
(* The keys of waitingExecution.                                           *)

\* Taking one element out of a sequence: the others stay in their order.
LEMMA RemoveAtProperties ==
    ASSUME NEW S, NEW q \in Seq(S), NEW i \in 1..Len(q)
    PROVE  /\ RemoveAt(q, i) \in Seq(S)
           /\ Len(RemoveAt(q, i)) = Len(q) - 1
           /\ \A j \in 1..(Len(q) - 1) :
                  RemoveAt(q, i)[j] = IF j < i THEN q[j] ELSE q[j + 1]
<1> DEFINE a == SubSeq(q, 1, i - 1)
           b == SubSeq(q, i + 1, Len(q))
<1>1. /\ a \in Seq(S) /\ Len(a) = i - 1 /\ \A j \in 1..(i - 1) : a[j] = q[j]
      /\ b \in Seq(S) /\ Len(b) = Len(q) - i /\ \A j \in 1..(Len(q) - i) : b[j] = q[i + j]
  OBVIOUS
<1>2. RemoveAt(q, i) = a \o b
  BY DEF RemoveAt
<1> HIDE DEF a, b
<1>3. Len(q) \in Nat
  OBVIOUS
<1>4. a \o b \in Seq(S) /\ Len(a \o b) = Len(q) - 1
  BY <1>1, <1>3
<1>5. ASSUME NEW j \in 1..(Len(q) - 1) PROVE (a \o b)[j] = IF j < i THEN q[j] ELSE q[j + 1]
  <2>1. CASE j < i
    BY <1>1, <1>3, <2>1
  <2>2. CASE ~(j < i)
    <3>1. j - (i - 1) \in 1..(Len(q) - i) /\ i + (j - (i - 1)) = j + 1
      BY <1>3, <2>2
    <3>2. (a \o b)[j] = b[j - (i - 1)]
      BY <1>1, <1>3, <2>2
    <3> QED BY <1>1, <2>2, <3>1, <3>2
  <2> QED BY <2>1, <2>2
<1> QED BY <1>2, <1>4, <1>5

\* A list of keys: every node once at most.
Keys == {q \in Seq(Nodes) : IsInjective(q)}

\* Removing a key.
LEMMA KeyRemoved ==
    ASSUME NEW q \in Keys, NEW n \in Range(q)
    PROVE  /\ RemoveAt(q, Place(q, n)) \in Keys
           /\ Range(RemoveAt(q, Place(q, n))) = Range(q) \ {n}
<1> DEFINE p == Place(q, n)
           r == RemoveAt(q, p)
           at(j) == IF j < p THEN j ELSE j + 1
<1>1. q \in Seq(Nodes) /\ Len(q) \in Nat /\ DOMAIN q = 1..Len(q)
  BY DEF Keys
<1>2. \A j, k \in 1..Len(q) : q[j] = q[k] => j = k
  BY <1>1 DEF Keys, IsInjective
<1>3. p \in 1..Len(q) /\ q[p] = n
  BY <1>1 DEF Place, Range
<1> HIDE DEF p
<1>0. /\ r \in Seq(Nodes) /\ Len(r) = Len(q) - 1
      /\ \A j \in 1..(Len(q) - 1) : r[j] = IF j < p THEN q[j] ELSE q[j + 1]
  BY <1>1, <1>3, RemoveAtProperties
<1> HIDE DEF r
<1>4. /\ r \in Seq(Nodes) /\ Len(r) = Len(q) - 1 /\ DOMAIN r = 1..(Len(q) - 1)
      /\ \A j \in 1..(Len(q) - 1) : r[j] = IF j < p THEN q[j] ELSE q[j + 1]
  BY <1>0
<1>5. \A j \in 1..(Len(q) - 1) : at(j) \in 1..Len(q) /\ at(j) # p /\ r[j] = q[at(j)]
  BY <1>1, <1>3, <1>4
<1>6. \A j, k \in 1..(Len(q) - 1) : at(j) = at(k) => j = k
  BY <1>1, <1>3
<1>7. \A k \in 1..Len(q) : k # p => \E j \in 1..(Len(q) - 1) : at(j) = k
  <2> TAKE k \in 1..Len(q)
  <2> HAVE k # p
  <2>1. CASE k < p
    BY <1>1, <1>3, <2>1
  <2>2. CASE k > p
    <3>1. k - 1 \in 1..(Len(q) - 1) /\ at(k - 1) = k
      BY <1>1, <1>3, <2>2
    <3> QED BY <3>1
  <2> QED BY <1>1, <1>3, <2>1, <2>2
<1> HIDE DEF at
<1>8. IsInjective(r)
  BY <1>2, <1>4, <1>5, <1>6 DEF IsInjective
<1>9. Range(r) \subseteq Range(q) \ {n}
  <2> SUFFICES ASSUME NEW j \in 1..(Len(q) - 1) PROVE r[j] \in Range(q) /\ r[j] # n
    BY <1>4 DEF Range
  <2>1. r[j] = q[at(j)] /\ at(j) \in DOMAIN q /\ at(j) # p
    BY <1>1, <1>5
  <2> QED BY <1>1, <1>2, <1>3, <2>1 DEF Range
<1>10. Range(q) \ {n} \subseteq Range(r)
  <2> SUFFICES ASSUME NEW k \in 1..Len(q), q[k] # n PROVE q[k] \in Range(r)
    BY <1>1 DEF Range
  <2>1. PICK j \in 1..(Len(q) - 1) : at(j) = k
    BY <1>3, <1>7
  <2> QED BY <1>4, <1>5, <2>1 DEF Range
<1> QED BY <1>4, <1>8, <1>9, <1>10 DEF Keys, p, r

\* Adding one.
LEMMA KeyAdded ==
    ASSUME NEW q \in Keys, NEW n \in Nodes, n \notin Range(q)
    PROVE  Append(q, n) \in Keys /\ Range(Append(q, n)) = Range(q) \cup {n}
<1> DEFINE r == Append(q, n)
<1>1. q \in Seq(Nodes) /\ Len(q) \in Nat /\ DOMAIN q = 1..Len(q)
  BY DEF Keys
<1>2. \A j, k \in 1..Len(q) : q[j] = q[k] => j = k
  BY <1>1 DEF Keys, IsInjective
<1>3. \A j \in 1..Len(q) : q[j] # n
  BY <1>1 DEF Range
<1>4. /\ r \in Seq(Nodes) /\ Len(r) = Len(q) + 1 /\ DOMAIN r = 1..(Len(q) + 1)
      /\ r[Len(q) + 1] = n /\ \A j \in 1..Len(q) : r[j] = q[j]
  BY <1>1
<1>5. 1..(Len(q) + 1) = (1..Len(q)) \cup {Len(q) + 1}
  BY <1>1
<1> HIDE DEF r
<1>6. \A j, k \in DOMAIN r : r[j] = r[k] => j = k
  BY <1>2, <1>3, <1>4, <1>5
<1>7. Range(r) = Range(q) \cup {n}
  BY <1>1, <1>4, <1>5 DEF Range
<1> QED BY <1>4, <1>6, <1>7 DEF Keys, IsInjective, r

\* The least of some numbers.
LEMMA MinProperties ==
    ASSUME NEW S, S \subseteq Nat, S # {}
    PROVE  Min(S) \in S /\ \A x \in S : Min(S) <= x
<1>1. PICK m \in S : \A x \in S : <<x, m>> \notin OpToRel(<, Nat)
  BY NatLessThanWellFounded, WFMin
<1>2. ASSUME NEW x \in S PROVE m <= x
  <2>1. m \in Nat /\ x \in Nat
    OBVIOUS
  <2>2. ~(x < m)
    BY <1>1, <2>1 DEF OpToRel
  <2> QED BY <2>1, <2>2
<1>3. \E m1 \in S : \A x \in S : m1 <= x
  BY <1>2
<1> QED BY <1>3 DEF Min

-----------------------------------------------------------------------------
(* What addNodeToBeExecuted does to the stack, the entries and their order *)

Mains == UNION {[I -> Nat] : I \in SUBSET Inputs}
Items == [node : Nodes, main : Mains, disabled : BOOLEAN]

\* The entries of a node: some, each with a place for every input.
EntriesOf(n) ==
    {W \in UNION {[K -> [InputsOf(n) -> Nat]] : K \in SUBSET Nat} : IsFiniteSet(DOMAIN W)}

Records ==
    [stack : Seq(Items), waiting : [Nodes -> UNION {EntriesOf(n) : n \in Nodes}],
     order : Keys, sent : [Nodes -> [Inputs -> Nat]]]

\* Only nodes with several inputs have entries, and those that do are the keys.
States ==
    {s \in Records :
       /\ \A n \in Nodes : s.waiting[n] \in EntriesOf(n)
       /\ Range(s.order) = {n \in Nodes : s.waiting[n] # NoEntries}
       /\ Range(s.order) \subseteq Joins}

\* What an entry is.
LEMMA EntryTypes ==
    ASSUME NEW n, NEW W \in EntriesOf(n)
    PROVE  /\ DOMAIN W \subseteq Nat /\ IsFiniteSet(DOMAIN W)
           /\ \A k \in DOMAIN W : W[k] \in [InputsOf(n) -> Nat]
<1>1. PICK K \in SUBSET Nat : W \in [K -> [InputsOf(n) -> Nat]] /\ IsFiniteSet(DOMAIN W)
  BY DEF EntriesOf
<1>2. DOMAIN W = K
  BY <1>1
<1> QED BY <1>1, <1>2

\* Not to have any.
LEMMA NoEntriesProperties == \A n : NoEntries \in EntriesOf(n)
<1> TAKE n
<1>1. IsFiniteSet({})
  BY FS_EmptySet
<1>2. NoEntries \in [{} -> [InputsOf(n) -> Nat]] /\ DOMAIN NoEntries = {}
  BY DEF NoEntries
<1>3. {} \in SUBSET Nat
  OBVIOUS
<1> HIDE DEF NoEntries
<1> QED BY <1>1, <1>2, <1>3 DEF EntriesOf

\* Writing the entries of a node: it is a key afterwards if it has any.
LEMMA SetEntriesProperties ==
    ASSUME NEW s \in States, NEW n \in Joins, NEW entries \in EntriesOf(n)
    PROVE  LET r == SetEntries(s, n, entries)
           IN /\ r \in States /\ r.stack = s.stack /\ r.sent = s.sent
              /\ r.waiting = [s.waiting EXCEPT ![n] = entries]
              /\ Range(r.order) = (Range(s.order) \ {n}) \cup (IF entries = NoEntries THEN {} ELSE {n})
<1> DEFINE r == SetEntries(s, n, entries)
           w == [s.waiting EXCEPT ![n] = entries]
           o == IF entries # NoEntries <=> n \in Range(s.order) THEN s.order
                ELSE IF n \in Range(s.order) THEN RemoveAt(s.order, Place(s.order, n))
                ELSE Append(s.order, n)
<1>1. n \in Nodes /\ s.order \in Keys
  BY DEF Joins, States, Records
<1>2. r = [stack |-> s.stack, waiting |-> w, order |-> o, sent |-> s.sent]
  <2>1. r = [s EXCEPT !.waiting = w, !.order = o]
    BY DEF SetEntries
  <2>2. s \in Records
    BY DEF States
  <2> HIDE DEF r, w, o
  <2>3. s = [stack |-> s.stack, waiting |-> s.waiting, order |-> s.order, sent |-> s.sent]
    BY <2>2 DEF Records
  <2> QED BY <2>1, <2>3
<1>3. o \in Keys /\ Range(o) = (Range(s.order) \ {n}) \cup (IF entries = NoEntries THEN {} ELSE {n})
  <2>1. CASE entries # NoEntries <=> n \in Range(s.order)
    BY <1>1, <2>1
  <2>2. CASE entries = NoEntries /\ n \in Range(s.order)
    BY <1>1, <2>2, KeyRemoved
  <2>3. CASE entries # NoEntries /\ n \notin Range(s.order)
    BY <1>1, <2>3, KeyAdded
  <2> QED BY <2>1, <2>2, <2>3
<1>4. /\ w \in [Nodes -> UNION {EntriesOf(m) : m \in Nodes}]
      /\ \A m \in Nodes : w[m] = IF m = n THEN entries ELSE s.waiting[m]
      /\ \A m \in Nodes : w[m] \in EntriesOf(m)
  BY <1>1 DEF States, Records
<1> HIDE DEF r, w, o
<1>5. r \in Records
  BY <1>2, <1>3, <1>4 DEF States, Records
<1>6. Range(o) = {m \in Nodes : w[m] # NoEntries} /\ Range(o) \subseteq Joins
  BY <1>1, <1>3, <1>4 DEF States
<1>7. r \in States /\ r.stack = s.stack /\ r.sent = s.sent /\ r.waiting = w /\ r.order = o
  BY <1>2, <1>4, <1>5, <1>6 DEF States
<1> QED BY <1>3, <1>7 DEF r, w

\* Where a datum goes: to the first entry that misses it, if there is one.
LEMMA EntryIndexProperties ==
    ASSUME NEW n, NEW W \in EntriesOf(n), NEW i
    PROVE  /\ EntryIndex(W, i) \in Nat
           /\ (\E k \in DOMAIN W : W[k][i] = 0)
                => LET k == EntryIndex(W, i)
                   IN k \in DOMAIN W /\ W[k][i] = 0 /\ \A j \in DOMAIN W : W[j][i] = 0 => k <= j
           /\ ~(\E k \in DOMAIN W : W[k][i] = 0) => EntryIndex(W, i) = Cardinality(DOMAIN W)
<1> DEFINE open == {k \in DOMAIN W : W[k][i] = 0}
<1>1. DOMAIN W \subseteq Nat /\ IsFiniteSet(DOMAIN W)
  BY EntryTypes
<1>2. Cardinality(DOMAIN W) \in Nat
  BY <1>1, FS_CardinalityType
<1>3. EntryIndex(W, i) = IF open # {} THEN Min(open) ELSE Cardinality(DOMAIN W)
  BY DEF EntryIndex
<1>4. open \subseteq Nat
  BY <1>1
<1>5. CASE open # {}
  <2>1. EntryIndex(W, i) \in open /\ \A j \in open : EntryIndex(W, i) <= j
    BY <1>3, <1>4, <1>5, MinProperties
  <2> QED BY <1>4, <1>5, <2>1
<1>6. CASE open = {}
  BY <1>2, <1>3, <1>6
<1> QED BY <1>5, <1>6

\* The entry a datum for connection e goes to, before and with it.
Blank(n) == [i \in InputsOf(n) |-> 0]
Into(s, e) == EntryIndex(s.waiting[e.to], e.in)
Misses(s, e) == Into(s, e) \in DOMAIN s.waiting[e.to] /\ s.waiting[e.to][Into(s, e)][e.in] = 0
Entry(s, e) == IF Misses(s, e) THEN s.waiting[e.to][Into(s, e)] ELSE Blank(e.to)
Datum(s, e) == s.sent[e.to][e.in] + 1
Filled(s, e) == [Entry(s, e) EXCEPT ![e.in] = Datum(s, e)]

IsComplete(main) == \A i \in DOMAIN main : main[i] # 0
Put(entries, k, main) == [j \in DOMAIN entries \cup {k} |-> IF j = k THEN main ELSE entries[j]]

\* The datum goes to the stack at once, with an entry that it completes, or into an entry.
Passed(s, r, e) ==
    /\ e.to \notin Joins /\ r.waiting = s.waiting /\ r.order = s.order
    /\ r.stack = <<Item(e.to, Filled(s, e))>> \o s.stack
Completed(s, r, e) ==
    /\ e.to \in Joins /\ IsComplete(Filled(s, e))
    /\ r.stack = <<Item(e.to, Filled(s, e))>> \o s.stack
    /\ r.waiting = [s.waiting EXCEPT ![e.to] = Without(@, Into(s, e))]
Collected(s, r, e) ==
    /\ e.to \in Joins /\ ~IsComplete(Filled(s, e))
    /\ r.stack = s.stack
    /\ r.waiting = [s.waiting EXCEPT ![e.to] = Put(@, Into(s, e), Filled(s, e))]

\* An entry goes, the others stay.
LEMMA WithoutProperties ==
    ASSUME NEW n, NEW W \in EntriesOf(n), NEW k
    PROVE  /\ Without(W, k) \in EntriesOf(n)
           /\ DOMAIN Without(W, k) = DOMAIN W \ {k}
           /\ \A j \in DOMAIN W \ {k} : Without(W, k)[j] = W[j]
<1>1. PICK K \in SUBSET Nat : W \in [K -> [InputsOf(n) -> Nat]] /\ IsFiniteSet(K)
  BY DEF EntriesOf
<1>2. Without(W, k) = [j \in K \ {k} |-> W[j]]
  BY <1>1 DEF Without, Restrict
<1>3. IsFiniteSet(K \ {k})
  BY <1>1, FS_RemoveElement
<1>4. Without(W, k) \in [K \ {k} -> [InputsOf(n) -> Nat]] /\ K \ {k} \in SUBSET Nat
  BY <1>1, <1>2
<1>5. Without(W, k) \in EntriesOf(n)
  BY <1>3, <1>4 DEF EntriesOf
<1> QED BY <1>1, <1>2, <1>5

\* An entry is written, the others stay.
LEMMA PutProperties ==
    ASSUME NEW n, NEW W \in EntriesOf(n), NEW k \in Nat, NEW main \in [InputsOf(n) -> Nat]
    PROVE  /\ Put(W, k, main) \in EntriesOf(n)
           /\ DOMAIN Put(W, k, main) = DOMAIN W \cup {k} /\ Put(W, k, main)[k] = main
           /\ \A j \in DOMAIN W \ {k} : Put(W, k, main)[j] = W[j]
<1>1. PICK K \in SUBSET Nat : W \in [K -> [InputsOf(n) -> Nat]] /\ IsFiniteSet(K)
  BY DEF EntriesOf
<1>2. Put(W, k, main) = [j \in K \cup {k} |-> IF j = k THEN main ELSE W[j]]
  BY <1>1 DEF Put
<1>3. IsFiniteSet(K \cup {k})
  BY <1>1, FS_AddElement
<1>4. Put(W, k, main) \in [K \cup {k} -> [InputsOf(n) -> Nat]] /\ K \cup {k} \in SUBSET Nat
  BY <1>1, <1>2
<1>5. Put(W, k, main) \in EntriesOf(n)
  BY <1>3, <1>4 DEF EntriesOf
<1> QED BY <1>1, <1>2, <1>5

\* A new item on the stack.
LEMMA PushedItem ==
    ASSUME NEW n \in Nodes, InputsOf(n) \subseteq Inputs, NEW main \in [InputsOf(n) -> Nat],
           NEW q \in Seq(Items)
    PROVE  <<Item(n, main)>> \o q \in Seq(Items)
<1>1. main \in Mains
  BY DEF Mains
<1>2. Item(n, main) \in Items
  BY <1>1 DEF Item, Items
<1> QED BY <1>2

\* What addNodeToBeExecuted does, in one of three ways.
LEMMA AddNodeStep ==
    ASSUME Structured, NEW t \in Nodes, NEW e \in Leaving(t), NEW s \in States
    PROVE  LET r == AddNodeToBeExecuted(s, e)
           IN /\ r \in States
              /\ r.sent = [s.sent EXCEPT ![e.to][e.in] = Datum(s, e)]
              /\ Filled(s, e) \in [InputsOf(e.to) -> Nat]
              /\ Passed(s, r, e) \/ Completed(s, r, e) \/ Collected(s, r, e)
<1> DEFINE r == AddNodeToBeExecuted(s, e)
           n == e.to
           W == s.waiting[n]
           main == Filled(s, e)
           k == Into(s, e)
           stack1 == <<Item(n, main)>> \o s.stack
           sent1 == [s.sent EXCEPT ![n][e.in] = Datum(s, e)]
           counted == [s EXCEPT !.sent[n][e.in] = Datum(s, e)]
           pushed == [counted EXCEPT !.stack = stack1]
<1>1. /\ n \in Nodes /\ e.in \in InputsOf(n) /\ InputsOf(n) \subseteq Inputs /\ e.in \in Inputs
      /\ workflow.inputs[n] \in 0..3
  BY WorkflowFacts DEF Leaving, Edges
<1>2. /\ s = [stack |-> s.stack, waiting |-> s.waiting, order |-> s.order, sent |-> s.sent]
      /\ s.sent \in [Nodes -> [Inputs -> Nat]] /\ s.stack \in Seq(Items)
      /\ W \in EntriesOf(n)
  BY <1>1 DEF States, Records
<1>3. Datum(s, e) \in Nat /\ sent1 \in [Nodes -> [Inputs -> Nat]]
  BY <1>1, <1>2 DEF Datum
<1>4. k \in Nat
  BY <1>2, EntryIndexProperties DEF Into
<1>5. main \in [InputsOf(n) -> Nat]
  <2>1. Blank(n) \in [InputsOf(n) -> Nat]
    BY DEF Blank
  <2>2. Misses(s, e) => W[k] \in [InputsOf(n) -> Nat]
    <3>1. Misses(s, e) => k \in DOMAIN W
      BY DEF Misses
    <3> QED BY <1>2, <3>1, EntryTypes
  <2>3. Entry(s, e) \in [InputsOf(n) -> Nat]
    BY <2>1, <2>2 DEF Entry
  <2> QED BY <1>1, <1>3, <2>3 DEF Filled
<1>6. stack1 \in Seq(Items)
  BY <1>1, <1>2, <1>5, PushedItem
<1>7. counted = [s EXCEPT !.sent = sent1]
  BY <1>1, <1>2
<1>8. /\ counted = [stack |-> s.stack, waiting |-> s.waiting, order |-> s.order, sent |-> sent1]
      /\ pushed = [stack |-> stack1, waiting |-> s.waiting, order |-> s.order, sent |-> sent1]
  <2> HIDE DEF stack1, sent1, counted
  <2>1. counted = [stack |-> s.stack, waiting |-> s.waiting, order |-> s.order, sent |-> sent1]
    BY <1>2, <1>7
  <2> QED BY <2>1
<1>9. r = IF workflow.inputs[n] <= 1 THEN pushed
          ELSE IF IsComplete(main) THEN SetEntries(pushed, n, Without(W, k))
          ELSE SetEntries(counted, n, Put(W, k, main))
  <2> DEFINE pushed1 == [counted EXCEPT !.stack = <<Item(n, main)>> \o @]
  <2>1. r = IF workflow.inputs[n] <= 1 THEN pushed1
            ELSE IF IsComplete(main) THEN SetEntries(pushed1, n, Without(W, k))
            ELSE SetEntries(counted, n, Put(W, k, main))
    BY DEF AddNodeToBeExecuted, Filled, Entry, Misses, Into, Blank, Datum, IsComplete, Put, InputsOf
  <2>2. pushed1 = pushed
    <3>1. counted.stack = s.stack
      BY <1>8
    <3> HIDE DEF counted
    <3> QED BY <3>1
  <2> HIDE DEF pushed1, pushed, r, counted, main, W, k
  <2> QED BY <2>1, <2>2
<1> HIDE DEF r, W, main, k, stack1, sent1, counted, pushed
<1>10. counted \in States /\ pushed \in States
  BY <1>2, <1>3, <1>6, <1>8 DEF States, Records
<1>11. Without(W, k) \in EntriesOf(n) /\ Put(W, k, main) \in EntriesOf(n)
  BY <1>2, <1>4, <1>5, WithoutProperties, PutProperties
<1>12. CASE n \notin Joins
  <2>1. r = pushed
    BY <1>1, <1>9, <1>12 DEF Joins
  <2> QED BY <1>5, <1>8, <1>10, <1>12, <2>1 DEF Passed, r, main, stack1, sent1
<1>13. CASE n \in Joins /\ IsComplete(main)
  <2>1. r = SetEntries(pushed, n, Without(W, k))
    BY <1>1, <1>9, <1>13 DEF Joins
  <2>2. /\ r \in States /\ r.stack = stack1 /\ r.sent = sent1
        /\ r.waiting = [s.waiting EXCEPT ![n] = Without(W, k)]
    BY <1>8, <1>10, <1>11, <1>13, <2>1, SetEntriesProperties
  <2> QED BY <1>5, <1>13, <2>2 DEF Completed, r, main, stack1, sent1, W, k
<1>14. CASE n \in Joins /\ ~IsComplete(main)
  <2>1. r = SetEntries(counted, n, Put(W, k, main))
    BY <1>1, <1>9, <1>14 DEF Joins
  <2>2. /\ r \in States /\ r.stack = s.stack /\ r.sent = sent1
        /\ r.waiting = [s.waiting EXCEPT ![n] = Put(W, k, main)]
    BY <1>8, <1>10, <1>11, <1>14, <2>1, SetEntriesProperties
  <2> QED BY <1>5, <1>14, <2>2 DEF Collected, r, main, sent1, W, k
<1> QED BY <1>12, <1>13, <1>14

-----------------------------------------------------------------------------
(* What a turn does.                                                       *)

\* Induction over the naturals, for a set of them.
LEMMA NatSetInduction ==
    ASSUME NEW P, 0 \in P, \A n \in Nat : n \in P => n + 1 \in P
    PROVE  Nat \subseteq P
<1> SUFFICES ASSUME Nat \ P # {} PROVE FALSE
  OBVIOUS
<1>1. Min(Nat \ P) \in Nat \ P /\ \A x \in Nat \ P : Min(Nat \ P) <= x
  BY MinProperties
<1>2. PICK m \in Nat \ P : \A x \in Nat \ P : m <= x
  BY <1>1
<1>3. m - 1 \in Nat /\ m = (m - 1) + 1 /\ ~(m <= m - 1)
  BY <1>2
<1>4. m - 1 \in P
  BY <1>2, <1>3
<1> QED BY <1>2, <1>3, <1>4

\* The bookkeeping, and what of it a node that has run leaves.
Now == [stack |-> stack, waiting |-> waiting, order |-> order, sent |-> sent]
Taken == [stack |-> Tail(stack), waiting |-> waiting, order |-> order, sent |-> sent]

\* The recursion of Deliver up to connection m.
DeliversUpTo(f, edges, outputs, m) ==
    f = [k \in 0..m |-> IF k = 0 THEN Taken
                       ELSE IF edges[k].out \in outputs THEN AddNodeToBeExecuted(f[k - 1], edges[k])
                       ELSE f[k - 1]]

\* There is what it defines.
LEMMA DeliverRecursion ==
    ASSUME NEW edges, NEW outputs, NEW m \in Nat
    PROVE  \E f : DeliversUpTo(f, edges, outputs, m)
<1> DEFINE P == {j \in Nat : \E f : DeliversUpTo(f, edges, outputs, j)}
           Turned(s, k) == IF edges[k].out \in outputs THEN AddNodeToBeExecuted(s, edges[k]) ELSE s
<1>1. 0 \in P
  <2>1. DeliversUpTo([k \in 0..0 |-> Taken], edges, outputs, 0)
    BY DEF DeliversUpTo
  <2> QED BY <2>1
<1>2. ASSUME NEW j \in Nat, j \in P PROVE j + 1 \in P
  <2>1. PICK f : DeliversUpTo(f, edges, outputs, j)
    BY <1>2
  <2> DEFINE g == [k \in 0..(j + 1) |-> IF k = j + 1 THEN Turned(f[j], j + 1) ELSE f[k]]
  <2> HIDE DEF Turned
  <2>2. \A k \in 0..j : g[k] = f[k]
    OBVIOUS
  <2>3. \A k \in 0..j : f[k] = IF k = 0 THEN Taken ELSE Turned(f[k - 1], k)
    BY <2>1 DEF DeliversUpTo, Turned
  <2>4. g[j + 1] = Turned(g[j], j + 1)
    BY <2>2
  <2>5. g = [k \in 0..(j + 1) |-> g[k]]
    OBVIOUS
  <2> HIDE DEF g
  <2>6. ASSUME NEW k \in 0..(j + 1) PROVE g[k] = IF k = 0 THEN Taken ELSE Turned(g[k - 1], k)
    <3>1. CASE k = j + 1
      BY <2>4, <3>1
    <3>2. CASE k \in 0..j /\ k # 0
      <4>1. k - 1 \in 0..j
        BY <3>2
      <4> QED BY <2>2, <2>3, <3>2, <4>1
    <3>3. CASE k = 0
      BY <2>2, <2>3, <3>3
    <3> QED BY <3>1, <3>2, <3>3
  <2>7. DeliversUpTo(g, edges, outputs, j + 1)
    BY <2>5, <2>6 DEF DeliversUpTo, Turned
  <2> QED BY <2>7
<1> HIDE DEF P
<1>3. Nat \subseteq P
  BY <1>1, <1>2, NatSetInduction
<1> QED BY <1>3 DEF P

\* What holds when the node is taken off the stack, and of what addNodeToBeExecuted makes
\* of a state of which it holds, holds when the data of a node are delivered.
LEMMA DeliverKeeps ==
    ASSUME Structured, NEW n \in Nodes, NEW outputs, NEW I, Taken \in I,
           \A s \in I : \A e \in Leaving(n) : AddNodeToBeExecuted(s, e) \in I
    PROVE  Deliver(n, outputs) \in I
<1> DEFINE edges == workflow.connections[n]
<1>1. edges \in Seq(Leaving(n)) /\ Len(edges) \in Nat
  BY WorkflowFacts
<1>2. PICK f : DeliversUpTo(f, edges, outputs, Len(edges)) /\ Deliver(n, outputs) = f[Len(edges)]
  <2>1. \E f : DeliversUpTo(f, edges, outputs, Len(edges))
    BY <1>1, DeliverRecursion
  <2> QED BY <2>1 DEF Deliver, DeliversUpTo, Taken
<1> HIDE DEF edges
<1>3. \A k \in 0..Len(edges) :
        f[k] = IF k = 0 THEN Taken
               ELSE IF edges[k].out \in outputs THEN AddNodeToBeExecuted(f[k - 1], edges[k])
               ELSE f[k - 1]
  BY <1>2 DEF DeliversUpTo
<1>4. \A k \in 1..Len(edges) : edges[k] \in Leaving(n)
  BY <1>1
<1> DEFINE P == {k \in Nat : k <= Len(edges) => f[k] \in I}
<1>5. 0 \in P
  BY <1>1, <1>3
<1>6. ASSUME NEW k \in Nat, k \in P PROVE k + 1 \in P
  <2> SUFFICES ASSUME k + 1 <= Len(edges) PROVE f[k + 1] \in I
    OBVIOUS
  <2>1. f[k] \in I /\ k + 1 \in 0..Len(edges) /\ k + 1 \in 1..Len(edges) /\ (k + 1) - 1 = k /\ k + 1 # 0
    BY <1>1, <1>6
  <2>2. f[k + 1] = IF edges[k + 1].out \in outputs THEN AddNodeToBeExecuted(f[k], edges[k + 1]) ELSE f[k]
    BY <1>3, <2>1
  <2> QED BY <1>4, <2>1, <2>2
<1> HIDE DEF P
<1>7. Nat \subseteq P
  BY <1>5, <1>6, NatSetInduction
<1>8. f[Len(edges)] \in I
  BY <1>1, <1>7 DEF P
<1> QED BY <1>2, <1>8

\* The first node that may run with what it has is put on the empty stack.
PutsOneOnTheStack(s, r) ==
    \E n \in Range(s.order) :
      /\ Releasable(s, n) /\ s.stack = <<>>
      /\ LET first == Min(DOMAIN s.waiting[n])
         IN /\ first \in DOMAIN s.waiting[n]
            /\ r.stack = <<Item(n, s.waiting[n][first])>>
            /\ r.waiting = [s.waiting EXCEPT ![n] = Without(@, first)]
            /\ r.sent = s.sent /\ Range(r.order) \subseteq Range(s.order)

\* A look at who waits releases one or nobody; nobody only when nobody may run.
LEMMA ReleaseStep ==
    ASSUME Structured, NEW s \in States
    PROVE  LET r == Release(s)
           IN /\ r \in States
              /\ \/ r = s /\ (s.stack = <<>> => \A n \in Range(s.order) : ~Releasable(s, n))
                 \/ PutsOneOnTheStack(s, r)
<1> DEFINE ready == {k \in DOMAIN s.order : Releasable(s, s.order[k])}
           n == s.order[Min(ready)]
           first == Min(DOMAIN s.waiting[n])
           stack1 == <<Item(n, s.waiting[n][first])>>
           pushed == [s EXCEPT !.stack = stack1]
<1>0. Release(s) = IF s.stack # <<>> \/ ready = {} THEN s
                   ELSE SetEntries(pushed, n, Without(s.waiting[n], first))
  BY DEF Release
<1>1. /\ s.order \in Seq(Nodes) /\ DOMAIN s.order \subseteq Nat
      /\ s = [stack |-> s.stack, waiting |-> s.waiting, order |-> s.order, sent |-> s.sent]
      /\ s.stack \in Seq(Items)
  BY DEF States, Records, Keys
<1>2. CASE s.stack # <<>>
  BY <1>0, <1>2
<1>3. CASE ready = {}
  BY <1>0, <1>3 DEF Range
<1>4. CASE s.stack = <<>> /\ ready # {}
  <2>1. Min(ready) \in ready
    BY <1>1, <1>4, MinProperties
  <2> HIDE DEF n, first, stack1, pushed
  <2>2. n \in Range(s.order) /\ Releasable(s, n)
    BY <2>1 DEF n, Range
  <2>3. n \in Joins /\ n \in Nodes /\ s.waiting[n] \in EntriesOf(n) /\ s.waiting[n] # NoEntries
    BY <2>2 DEF States, Joins
  <2>6. first \in DOMAIN s.waiting[n] /\ s.waiting[n][first] \in [InputsOf(n) -> Nat]
    <3>1. PICK K \in SUBSET Nat : s.waiting[n] \in [K -> [InputsOf(n) -> Nat]]
      BY <2>3 DEF EntriesOf
    <3>2. K # {}
      BY <2>3, <3>1 DEF NoEntries
    <3> QED BY <3>1, <3>2, MinProperties DEF first
  <2>7. stack1 \in Seq(Items)
    <3>1. InputsOf(n) \subseteq Inputs
      BY <2>3, WorkflowFacts
    <3>2. s.waiting[n][first] \in Mains
      BY <2>6, <3>1 DEF Mains
    <3>3. Item(n, s.waiting[n][first]) \in Items
      BY <2>3, <3>2 DEF Item, Items
    <3> QED BY <3>3 DEF stack1
  <2>8. pushed = [stack |-> stack1, waiting |-> s.waiting, order |-> s.order, sent |-> s.sent]
    BY <1>1 DEF pushed
  <2>9. pushed \in States
    BY <2>7, <2>8 DEF States, Records
  <2>10. Without(s.waiting[n], first) \in EntriesOf(n)
    BY <2>3, WithoutProperties
  <2>11. Release(s) = SetEntries(pushed, n, Without(s.waiting[n], first))
    BY <1>0, <1>4
  <2>12. /\ Release(s) \in States /\ Release(s).stack = stack1 /\ Release(s).sent = s.sent
         /\ Release(s).waiting = [s.waiting EXCEPT ![n] = Without(s.waiting[n], first)]
         /\ Range(Release(s).order) \subseteq Range(s.order)
    BY <2>2, <2>3, <2>8, <2>9, <2>10, <2>11, SetEntriesProperties
  <2> QED BY <1>4, <2>2, <2>6, <2>12 DEF PutsOneOnTheStack, first, stack1
<1> QED BY <1>2, <1>3, <1>4

-----------------------------------------------------------------------------
(* Types.                                                                  *)

\* What the types of the variables and of the workflow are.
TypeInv ==
    /\ Structured /\ Now \in States
    /\ destination \in Nodes \cup {None} /\ filter \subseteq Nodes
    /\ status \in {"running", "waiting", "success", "error", "canceled"}
    /\ used \in [Nodes -> [Inputs -> Nat]] /\ looked \in BOOLEAN /\ waits \in 0..MaxWaits

\* What is on the stack.
LEMMA StackTypes ==
    ASSUME TypeInv
    PROVE  /\ stack \in Seq(Items) /\ Len(stack) \in Nat /\ DOMAIN stack = 1..Len(stack)
           /\ \A k \in DOMAIN stack : /\ stack[k].node \in Nodes /\ stack[k].disabled \in BOOLEAN
                                      /\ DOMAIN stack[k].main \subseteq Inputs
                                      /\ stack[k].main \in [DOMAIN stack[k].main -> Nat]
<1>1. stack \in Seq(Items)
  BY DEF TypeInv, States, Records, Now
<1>2. \A m \in Mains : DOMAIN m \subseteq Inputs /\ m \in [DOMAIN m -> Nat]
  BY DEF Mains
<1>3. \A x \in Items : x.node \in Nodes /\ x.disabled \in BOOLEAN /\ x.main \in Mains
  BY DEF Items
<1> QED BY <1>1, <1>2, <1>3

\* A turn takes the first item and goes on with the rest.
LEMMA TakenTypes ==
    ASSUME TypeInv, Turn
    PROVE  Taken \in States /\ Top \in Items /\ Top.node \in Nodes /\ stack = <<Top>> \o Tail(stack)
<1>1. stack \in Seq(Items) /\ stack # <<>> /\ Len(stack) \in Nat
  BY StackTypes DEF Turn
<1>2. Tail(stack) \in Seq(Items) /\ Top \in Items /\ stack = <<Top>> \o Tail(stack)
  BY <1>1 DEF Top
<1>3. Taken \in Records
  BY <1>2 DEF TypeInv, States, Records, Now, Taken
<1>4. Taken \in States
  BY <1>3 DEF TypeInv, States, Now, Taken
<1>5. Top.node \in Nodes
  BY <1>2 DEF Items
<1> QED BY <1>2, <1>4, <1>5

\* After a node has run, and after who waits was looked at, the bookkeeping is well-typed.
LEMMA RunTypes ==
    ASSUME TypeInv, Turn, NEW outputs
    PROVE  /\ Deliver(Top.node, outputs) \in States
           /\ Release(Deliver(Top.node, outputs)) \in States
<1>1. Structured /\ Top.node \in Nodes /\ Taken \in States
  BY TakenTypes DEF TypeInv
<1>2. \A s \in States : \A e \in Leaving(Top.node) : AddNodeToBeExecuted(s, e) \in States
  BY <1>1, AddNodeStep
<1>3. Deliver(Top.node, outputs) \in States
  BY <1>1, <1>2, DeliverKeeps
<1> QED BY <1>1, <1>3, ReleaseStep

\* What is used is counted.
LEMMA UseTypes ==
    ASSUME TypeInv, Turn, Use
    PROVE  /\ used' \in [Nodes -> [Inputs -> Nat]]
           /\ \A n \in Nodes, i \in Inputs :
                used'[n][i] = used[n][i] + (IF n = Top.node /\ i \in DOMAIN Top.main /\ Top.main[i] # 0
                                            THEN 1 ELSE 0)
<1>1. PICK x : x = Top
  OBVIOUS
<1>2. x.node \in Nodes /\ used \in [Nodes -> [Inputs -> Nat]]
  BY <1>1, TakenTypes DEF TypeInv
<1> DEFINE row == [i \in Inputs |-> used[x.node][i] + IF i \in DOMAIN x.main /\ x.main[i] # 0 THEN 1 ELSE 0]
<1>3. used' = [used EXCEPT ![x.node] = row]
  BY <1>1 DEF Use
<1>4. row \in [Inputs -> Nat]
  BY <1>2
<1>5. \A i \in Inputs : row[i] = used[x.node][i] + IF i \in DOMAIN x.main /\ x.main[i] # 0 THEN 1 ELSE 0
  OBVIOUS
<1> HIDE DEF row
<1>6. used' \in [Nodes -> [Inputs -> Nat]]
  BY <1>2, <1>3, <1>4
<1>7. ASSUME NEW n \in Nodes, NEW i \in Inputs
      PROVE  used'[n][i] = used[n][i] + (IF n = x.node /\ i \in DOMAIN x.main /\ x.main[i] # 0 THEN 1 ELSE 0)
  <2>1. used[n][i] \in Nat
    BY <1>2
  <2>2. CASE n = x.node
    BY <1>2, <1>3, <1>5, <2>2
  <2>3. CASE n # x.node
    BY <1>2, <1>3, <2>1, <2>3
  <2> QED BY <2>2, <2>3
<1> QED BY <1>1, <1>6, <1>7

\* The steps, by what they do to the bookkeeping.
TurnEnds == Turn /\ Use /\ Now' = Taken /\ looked' = FALSE /\ status' = status
NodeRuns ==
    /\ Turn /\ Use /\ looked' = TRUE /\ status' = status
    /\ \E outputs : Now' = Release(Deliver(Top.node, outputs))
Resumes ==
    /\ \E node : stack' = [k \in DOMAIN stack |->
         IF stack[k].node = node THEN [stack[k] EXCEPT !.disabled = TRUE] ELSE stack[k]]
    /\ UNCHANGED <<waiting, order, history, looked>> /\ status' = "running"
StatusChanges ==
    /\ UNCHANGED <<data, history, looked>>
    /\ status' = "success" => status = "success" \/ stack = <<>>

\* Every step is one of them.
LEMMA Steps ==
    ASSUME TypeInv, [Next]_vars
    PROVE  /\ UNCHANGED <<workflow, destination, filter>>
           /\ TurnEnds \/ NodeRuns \/ Resumes \/ StatusChanges
           /\ status' \in {"running", "waiting", "success", "error", "canceled"}
           /\ waits' \in 0..MaxWaits
<1> USE DEF TypeInv
<1>1. CASE Skip \/ ReturnNull \/ Reach
  BY <1>1 DEF Skip, ReturnNull, Reach, Continue, TurnEnds, Now, Taken
<1>2. CASE RunNode
  <2>1. PICK outputs :
          LET s == Release(Deliver(Top.node, outputs))
          IN stack' = s.stack /\ waiting' = s.waiting /\ order' = s.order /\ sent' = s.sent
    BY <1>2 DEF RunNode
  <2>2. Release(Deliver(Top.node, outputs)) \in States
    BY <1>2, RunTypes DEF RunNode
  <2>3. Now' = Release(Deliver(Top.node, outputs))
    BY <2>1, <2>2 DEF States, Records, Now
  <2> QED BY <1>2, <2>3 DEF RunNode, NodeRuns
<1>3. CASE Resume
  BY <1>3 DEF Resume, Resumes, history
<1>4. CASE PutToWait
  BY <1>4, EngineAssumption DEF PutToWait, StatusChanges
<1>5. CASE Fail \/ Cancel \/ Finish
  BY <1>5 DEF Fail, Cancel, Finish, StatusChanges
<1>6. CASE UNCHANGED vars
  BY <1>6 DEF vars, StatusChanges
<1> QED BY <1>1, <1>2, <1>3, <1>4, <1>5, <1>6 DEF Next, Step

\* An execution keeps its workflow.
LEMMA WorkflowStays ==
    ASSUME Structured, workflow' = workflow
    PROVE  /\ Structured' /\ States' = States /\ Joins' = Joins
           /\ \A n : InputsOf(n)' = InputsOf(n) /\ Above(n)' = Above(n) /\ Leaving(n)' = Leaving(n)
<1>1. Structured'
  BY DEF Structured
<1>2. Joins' = Joins
  BY DEF Joins
<1>3. \A n : InputsOf(n)' = InputsOf(n) /\ Above(n)' = Above(n)
  BY DEF InputsOf, Above
<1>4. \A n : Leaving(n)' = Leaving(n)
  BY <1>2, <1>3 DEF Leaving
<1>5. \A n : EntriesOf(n)' = EntriesOf(n)
  BY <1>3 DEF EntriesOf
<1>6. Records' = Records
  BY <1>5 DEF Records
<1>7. States' = States
  BY <1>2, <1>5, <1>6 DEF States
<1> QED BY <1>1, <1>2, <1>3, <1>4, <1>7

\* They hold from the start, and every step keeps them.
LEMMA TypeInvHolds == Spec => []TypeInv
<1>1. Init => TypeInv
  <2> SUFFICES ASSUME Init PROVE TypeInv
    OBVIOUS
  <2>1. Structured
    BY DEF Init, Structured
  <2>2. Nothing \in [Nodes -> [Inputs -> Nat]] /\ 0 \in Inputs /\ Start \in Nodes
    BY EngineAssumption DEF Nothing, Inputs
  <2>3. stack \in Seq(Items)
    <3>1. [i \in {0} |-> 1] \in Mains
      <4>1. {0} \in SUBSET Inputs /\ [i \in {0} |-> 1] \in [{0} -> Nat]
        BY <2>2
      <4> QED BY <4>1 DEF Mains
    <3>2. Item(Start, [i \in {0} |-> 1]) \in Items
      BY <2>2, <3>1 DEF Item, Items
    <3> QED BY <3>2 DEF Init
  <2>4. /\ waiting = [n \in Nodes |-> NoEntries] /\ order = <<>>
        /\ sent \in [Nodes -> [Inputs -> Nat]] /\ used \in [Nodes -> [Inputs -> Nat]]
    BY <2>2 DEF Init
  <2>5. order \in Keys /\ Range(order) = {}
    BY <2>4 DEF Keys, IsInjective, Range
  <2>6. waiting \in [Nodes -> UNION {EntriesOf(n) : n \in Nodes}]
    BY <2>4, NoEntriesProperties
  <2>7. Now \in Records
    BY <2>3, <2>4, <2>5, <2>6 DEF Now, Records
  <2>8. Now \in States
    BY <2>4, <2>5, <2>7, NoEntriesProperties DEF Now, States
  <2>9. destination \in Nodes \cup {None} /\ filter \subseteq Nodes
    BY <2>1, WorkflowFacts DEF Init
  <2>10. waits \in 0..MaxWaits
    BY EngineAssumption DEF Init
  <2> QED BY <2>1, <2>4, <2>8, <2>9, <2>10 DEF Init, TypeInv
<1>2. TypeInv /\ [Next]_vars => TypeInv'
  <2> SUFFICES ASSUME TypeInv, [Next]_vars PROVE TypeInv'
    OBVIOUS
  <2>1. /\ UNCHANGED <<workflow, destination, filter>>
        /\ status' \in {"running", "waiting", "success", "error", "canceled"}
        /\ waits' \in 0..MaxWaits
        /\ Structured' /\ States' = States
    <3>1. UNCHANGED <<workflow, destination, filter>>
      BY Steps
    <3>2. Structured' /\ States' = States
      BY <3>1, WorkflowStays DEF TypeInv
    <3> QED BY <3>1, <3>2, Steps
  <2>2. CASE TurnEnds \/ NodeRuns
    <3>1. Now' \in States /\ looked' \in BOOLEAN
      BY <2>2, TakenTypes, RunTypes DEF TurnEnds, NodeRuns
    <3>2. used' \in [Nodes -> [Inputs -> Nat]]
      BY <2>2, UseTypes DEF TurnEnds, NodeRuns
    <3> QED BY <2>1, <3>1, <3>2 DEF TypeInv
  <2>3. CASE Resumes
    <3>1. stack' \in Seq(Items)
      <4>1. \A x \in Items : [x EXCEPT !.disabled = TRUE] \in Items
        BY DEF Items
      <4>2. stack \in Seq(Items) /\ DOMAIN stack = 1..Len(stack) /\ Len(stack) \in Nat
        BY StackTypes
      <4> QED BY <2>3, <4>1, <4>2 DEF Resumes
    <3>2. Now' \in Records
      BY <2>3, <3>1 DEF Resumes, TypeInv, States, Records, Now, history
    <3>3. Now' \in States
      BY <2>3, <3>2 DEF Resumes, TypeInv, States, Now
    <3> QED BY <2>1, <2>3, <3>3 DEF TypeInv, Resumes, history
  <2>4. CASE StatusChanges
    <3>1. Now' = Now
      BY <2>4 DEF StatusChanges, Now, data, history
    <3> QED BY <2>1, <2>4, <3>1 DEF TypeInv, StatusChanges, history
  <2> QED BY <2>2, <2>3, <2>4, Steps
<1> QED BY <1>1, <1>2, PTL DEF Spec

\* The state of an execution is well-formed: items are of nodes and inputs, and the keys
\* of waitingExecution are the nodes that have entries, each once.
THEOREM TypesAreKept == Spec => []TypeOK
<1>1. TypeInv => TypeOK
  BY StackTypes DEF TypeInv, TypeOK, States, Records, Now, Keys
<1> QED BY <1>1, TypeInvHolds, PTL

-----------------------------------------------------------------------------
(* Nobody is left waiting who could run.                                   *)

\* Of a node that waits and those that wait before it, one has nobody waiting before it.
LEMMA FirstToWait ==
    ASSUME TypeInv, NoJoinOnALoop, NEW n \in Range(order)
    PROVE  \E p \in Range(order) \cap Above(n) : workflow.parents[p] \cap Range(order) = {}
<1> DEFINE X == Range(order) \cap Above(n)
           C == {Cardinality(workflow.parents[p]) : p \in X}
<1>1. Structured /\ Range(order) \subseteq Joins /\ Joins \subseteq Nodes
  BY DEF TypeInv, States, Now, Joins
<1>2. \A p \in Nodes : /\ workflow.parents[p] \subseteq Nodes /\ IsFiniteSet(workflow.parents[p])
                       /\ Cardinality(workflow.parents[p]) \in Nat
  <2> TAKE p \in Nodes
  <2>1. workflow.parents[p] \subseteq Nodes
    BY <1>1, WorkflowFacts
  <2> QED BY <2>1, EngineAssumption, FS_Subset, FS_CardinalityType
<1>3. n \in X /\ X \subseteq Nodes
  BY <1>1 DEF Above
<1>4. PICK p \in X : \A q \in X : Cardinality(workflow.parents[p]) <= Cardinality(workflow.parents[q])
  <2>1. C \subseteq Nat /\ C # {}
    BY <1>2, <1>3
  <2>2. Min(C) \in C /\ \A c \in C : Min(C) <= c
    BY <2>1, MinProperties
  <2> QED BY <2>2
<1>5. ASSUME NEW q \in workflow.parents[p], q \in Range(order) PROVE FALSE
  <2>1. p \in Joins /\ p \in Nodes /\ q \in Nodes /\ p \in Above(n) /\ n \in Nodes
    BY <1>1, <1>3, <1>5
  <2>2. q \in Above(p) /\ Above(p) \subseteq Above(n) /\ Above(q) \subseteq Above(p)
    BY <1>1, <2>1, WorkflowFacts DEF Above
  <2>3. q \in X
    BY <1>5, <2>2
  <2>4. p \notin Above(q) /\ q \notin workflow.parents[q]
    BY <1>1, <2>1, WorkflowFacts
  <2>5. workflow.parents[q] \subseteq workflow.parents[p] /\ workflow.parents[q] # workflow.parents[p]
    BY <1>5, <2>2, <2>4 DEF Above
  <2>6. /\ Cardinality(workflow.parents[q]) <= Cardinality(workflow.parents[p])
        /\ Cardinality(workflow.parents[q]) # Cardinality(workflow.parents[p])
    BY <1>2, <2>1, <2>5, FS_Subset
  <2> QED BY <1>2, <1>4, <2>1, <2>3, <2>6
<1> QED BY <1>4, <1>5

\* Whenever the loop has looked at who waits and still has nothing to do, nobody may run.
ReleasedInv ==
    /\ looked /\ stack = <<>> => \A n \in Range(order) : ~Releasable(Now, n)
    /\ status = "success" => stack = <<>>

\* It is how every turn that looks ends.
LEMMA ReleasedInvHolds == Spec => []ReleasedInv
<1>1. Init => ReleasedInv
  BY DEF Init, ReleasedInv
<1>2. TypeInv /\ ReleasedInv /\ [Next]_vars => ReleasedInv'
  <2> SUFFICES ASSUME TypeInv, ReleasedInv, [Next]_vars PROVE ReleasedInv'
    OBVIOUS
  <2>1. workflow' = workflow
    BY Steps
  <2>2. CASE TurnEnds
    BY <2>2 DEF TurnEnds, Turn, ReleasedInv
  <2>3. CASE NodeRuns
    <3>1. PICK outputs : Now' = Release(Deliver(Top.node, outputs))
      BY <2>3 DEF NodeRuns
    <3> DEFINE s == Deliver(Top.node, outputs)
    <3>2. \/ Now' = s /\ (s.stack = <<>> => \A n \in Range(s.order) : ~Releasable(s, n))
          \/ PutsOneOnTheStack(s, Now')
      BY <2>3, <3>1, RunTypes, ReleaseStep DEF NodeRuns, TypeInv
    <3> HIDE DEF s
    <3>3. status' # "success" /\ looked'
      BY <2>3 DEF NodeRuns, Turn
    <3>4. CASE Now' = s /\ (s.stack = <<>> => \A n \in Range(s.order) : ~Releasable(s, n))
      <4>1. s.stack = stack' /\ s.order = order'
        BY <3>4 DEF Now
      <4>2. \A n : Releasable(Now, n)' = Releasable(s, n)
        BY <2>1, <4>1 DEF Releasable, Now
      <4> QED BY <3>3, <3>4, <4>1, <4>2 DEF ReleasedInv
    <3>5. CASE PutsOneOnTheStack(s, Now')
      <4>1. stack' # <<>>
        BY <3>5 DEF PutsOneOnTheStack, Now
      <4> QED BY <3>3, <4>1 DEF ReleasedInv
    <3> QED BY <3>2, <3>4, <3>5
  <2>4. CASE Resumes
    <3>1. stack' = <<>> => stack = <<>>
      BY <2>4, StackTypes DEF Resumes
    <3>2. \A n : Releasable(Now, n)' = Releasable(Now, n)
      BY <2>1, <2>4 DEF Resumes, Releasable, Now
    <3> QED BY <2>4, <3>1, <3>2 DEF ReleasedInv, Resumes
  <2>5. CASE StatusChanges
    <3>1. \A n : Releasable(Now, n)' = Releasable(Now, n)
      BY <2>1, <2>5 DEF StatusChanges, data, Releasable, Now
    <3> QED BY <2>5, <3>1 DEF ReleasedInv, StatusChanges, data
  <2> QED BY <2>2, <2>3, <2>4, <2>5, Steps
<1> QED BY <1>1, <1>2, TypeInvHolds, PTL DEF Spec

\* When an execution succeeds, who still waits requires all its inputs or comes after one
\* that does and waits: the loop does not end while a node may run with what it has.  Of
\* workflows in which no node with several inputs is on a loop; two on a loop that both
\* wait are each other's reason to wait.
THEOREM NobodyLeftWaiting ==
    ASSUME NoJoinOnALoop
    PROVE  Spec => []Released
<1>1. TypeInv /\ ReleasedInv => Released
  <2> SUFFICES ASSUME TypeInv, ReleasedInv, status = "success", looked, NEW n \in Range(order)
               PROVE  ({n} \cup workflow.parents[n]) \cap workflow.requireAll \cap Range(order) # {}
    BY DEF Released
  <2>1. PICK p \in Range(order) \cap Above(n) : workflow.parents[p] \cap Range(order) = {}
    BY FirstToWait
  <2>2. ~Releasable(Now, p)
    BY DEF ReleasedInv
  <2>3. p \in workflow.requireAll
    BY <2>1, <2>2 DEF Releasable, Now
  <2> QED BY <2>3 DEF Above
<1> QED BY <1>1, TypeInvHolds, ReleasedInvHolds, PTL

-----------------------------------------------------------------------------
(* The entries of a node are layers: the first data of its inputs, and the *)
(* second, as long as no input gets a third.                               *)

IsPaired(main) == \A i, j \in DOMAIN main : main[i] # 0 /\ main[j] # 0 => main[i] = main[j]

\* Of node n, whose inputs were sent these numbers of data: some inputs have an l-th
\* datum, others have not; and an entry with the l-th data there are.
Begun(n, sents, l) ==
    (\E i \in InputsOf(n) : sents[i] >= l) /\ (\E i \in InputsOf(n) : sents[i] < l)
IsLayer(n, sents, l, main) ==
    \A i \in InputsOf(n) : main[i] = IF sents[i] >= l THEN l ELSE 0

\* A layer that has begun has an entry, the first under index 0 and the second under 1,
\* or under 0 when it began after the first was complete.
InLayers(n, sents, W) ==
    /\ DOMAIN W \subseteq {0, 1}
    /\ 0 \in DOMAIN W => \/ Begun(n, sents, 1) /\ IsLayer(n, sents, 1, W[0])
                         \/ /\ ~Begun(n, sents, 1) /\ Begun(n, sents, 2)
                            /\ IsLayer(n, sents, 2, W[0]) /\ 1 \notin DOMAIN W
    /\ 1 \in DOMAIN W => Begun(n, sents, 2) /\ IsLayer(n, sents, 2, W[1])
    /\ Begun(n, sents, 1) => 0 \in DOMAIN W
    /\ Begun(n, sents, 2) => DOMAIN W # {} /\ (Begun(n, sents, 1) => 1 \in DOMAIN W)

\* Data of one layer belong together.
LEMMA LayerPaired ==
    ASSUME NEW n, NEW sents, NEW l, NEW main \in [InputsOf(n) -> Nat], IsLayer(n, sents, l, main)
    PROVE  IsPaired(main)
BY DEF IsLayer, IsPaired

\* So do the data of every entry of a node whose entries are layers.
LEMMA LayersPaired ==
    ASSUME NEW n, NEW sents, NEW W \in EntriesOf(n), InLayers(n, sents, W), NEW k \in DOMAIN W
    PROVE  IsPaired(W[k])
<1>1. W[k] \in [InputsOf(n) -> Nat]
  BY EntryTypes
<1>2. \E l : IsLayer(n, sents, l, W[k])
  BY DEF InLayers
<1> QED BY <1>1, <1>2, LayerPaired

\* One more datum for an input moves one layer.
LEMMA LayerMoves ==
    ASSUME Structured, NEW n \in Joins, NEW sents \in [Inputs -> Nat], NEW i \in InputsOf(n)
    PROVE  LET l == sents[i] + 1
               sents2 == [sents EXCEPT ![i] = l]
           IN /\ \A h \in Nat : h # l =>
                   /\ Begun(n, sents2, h) <=> Begun(n, sents, h)
                   /\ \A main : IsLayer(n, sents2, h, main) <=> IsLayer(n, sents, h, main)
              /\ \A main \in [InputsOf(n) -> Nat] :
                   IsLayer(n, sents, l, main)
                     => /\ IsLayer(n, sents2, l, [main EXCEPT ![i] = l]) /\ main[i] = 0
                        /\ IsComplete([main EXCEPT ![i] = l]) <=> ~Begun(n, sents2, l)
              /\ ~Begun(n, sents, l) => IsLayer(n, sents, l, Blank(n))
              /\ ~Begun(n, sents, l) => Begun(n, sents2, l)
<1> DEFINE l == sents[i] + 1
           sents2 == [sents EXCEPT ![i] = l]
<1>1. InputsOf(n) \subseteq Inputs /\ InputsOf(n) \subseteq Nat /\ l \in Nat /\ l # 0 /\ i \in Inputs
  BY WorkflowFacts DEF Joins, InputsOf
<1>2. \A j \in InputsOf(n) : sents[j] \in Nat /\ sents2[j] = IF j = i THEN l ELSE sents[j]
  BY <1>1
<1>3. \E j \in InputsOf(n) : j # i
  <2>1. 0 \in InputsOf(n) /\ 1 \in InputsOf(n)
    BY WorkflowFacts DEF Joins, InputsOf
  <2> QED BY <2>1
<1>4. sents[i] < l /\ sents[i] \in Nat
  BY <1>2
<1>5. \A h \in Nat : h # l => 
        \A j \in InputsOf(n) : (sents2[j] >= h <=> sents[j] >= h) /\ (sents2[j] < h <=> sents[j] < h)
  BY <1>1, <1>2
<1> HIDE DEF sents2
<1>6. \A h \in Nat : h # l =>
         /\ Begun(n, sents2, h) <=> Begun(n, sents, h)
         /\ \A main : IsLayer(n, sents2, h, main) <=> IsLayer(n, sents, h, main)
  BY <1>5 DEF Begun, IsLayer
<1>7. ASSUME NEW main \in [InputsOf(n) -> Nat], IsLayer(n, sents, l, main)
      PROVE  /\ IsLayer(n, sents2, l, [main EXCEPT ![i] = l]) /\ main[i] = 0
             /\ IsComplete([main EXCEPT ![i] = l]) <=> ~Begun(n, sents2, l)
  <2> DEFINE m2 == [main EXCEPT ![i] = l]
  <2>1. /\ DOMAIN m2 = InputsOf(n)
        /\ \A j \in InputsOf(n) : m2[j] = IF j = i THEN l ELSE main[j]
    OBVIOUS
  <2>2. main[i] = 0
    BY <1>1, <1>2, <1>4, <1>7 DEF IsLayer
  <2> HIDE DEF m2, l
  <2>3. IsLayer(n, sents2, l, m2)
    BY <1>1, <1>2, <1>7, <2>1 DEF IsLayer
  <2>4. IsComplete(m2) <=> \A j \in InputsOf(n) : sents2[j] >= l
    BY <1>1, <2>1, <2>3 DEF IsLayer, IsComplete
  <2>5. Begun(n, sents2, l) <=> \E j \in InputsOf(n) : sents2[j] < l
    <3>1. sents2[i] >= l
      BY <1>1, <1>2
    <3> QED BY <3>1 DEF Begun
  <2>6. (\A j \in InputsOf(n) : sents2[j] >= l) <=> ~(\E j \in InputsOf(n) : sents2[j] < l)
    BY <1>1, <1>2
  <2> QED BY <2>2, <2>3, <2>4, <2>5, <2>6 DEF m2
<1>8. ASSUME ~Begun(n, sents, l) PROVE IsLayer(n, sents, l, Blank(n)) /\ Begun(n, sents2, l)
  <2>1. \A j \in InputsOf(n) : ~(sents[j] >= l)
    BY <1>4, <1>8 DEF Begun
  <2>2. IsLayer(n, sents, l, Blank(n))
    BY <2>1 DEF IsLayer, Blank
  <2>3. PICK j \in InputsOf(n) : j # i
    BY <1>3
  <2>4. sents2[i] >= l /\ sents2[j] < l
    BY <1>1, <1>2, <2>1, <2>3
  <2> QED BY <2>2, <2>4 DEF Begun
<1> QED BY <1>6, <1>7, <1>8 DEF sents2

\* Layers stay layers: the datum goes to the entry of its layer, which is new, extended or,
\* when it is complete, gone.
LEMMA LayersKept ==
    ASSUME Structured, NEW n \in Joins, NEW sents \in [Inputs -> Nat], NEW i \in InputsOf(n),
           sents[i] + 1 <= 2, NEW W \in EntriesOf(n), InLayers(n, sents, W)
    PROVE  LET l == sents[i] + 1
               sents2 == [sents EXCEPT ![i] = l]
               k == EntryIndex(W, i)
               main == [(IF k \in DOMAIN W /\ W[k][i] = 0 THEN W[k] ELSE Blank(n)) EXCEPT ![i] = l]
           IN /\ k \in DOMAIN W => W[k][i] = 0
              /\ IsLayer(n, sents2, l, main)
              /\ IsComplete(main) => InLayers(n, sents2, Without(W, k))
              /\ ~IsComplete(main) => InLayers(n, sents2, Put(W, k, main))
<1> DEFINE l == sents[i] + 1
           sents2 == [sents EXCEPT ![i] = l]
           k == EntryIndex(W, i)
           entry == IF k \in DOMAIN W /\ W[k][i] = 0 THEN W[k] ELSE Blank(n)
           main == [entry EXCEPT ![i] = l]
           B(h) == Begun(n, sents, h)
           C(h) == Begun(n, sents2, h)
<1>1. /\ InputsOf(n) \subseteq Inputs /\ i \in Inputs /\ sents[i] \in Nat /\ l \in {1, 2} /\ sents[i] = l - 1
      /\ \A j \in InputsOf(n) : sents[j] \in Nat
  BY WorkflowFacts DEF Joins
<1>2. /\ \A h \in Nat : h # l => /\ C(h) <=> B(h)
                                 /\ \A m : IsLayer(n, sents2, h, m) <=> IsLayer(n, sents, h, m)
      /\ \A m \in [InputsOf(n) -> Nat] :
           IsLayer(n, sents, l, m)
             => /\ IsLayer(n, sents2, l, [m EXCEPT ![i] = l]) /\ m[i] = 0
                /\ IsComplete([m EXCEPT ![i] = l]) <=> ~C(l)
      /\ ~B(l) => IsLayer(n, sents, l, Blank(n)) /\ C(l)
  BY LayerMoves
<1>3. /\ k \in Nat
      /\ (\E j \in DOMAIN W : W[j][i] = 0)
           => k \in DOMAIN W /\ W[k][i] = 0 /\ \A j \in DOMAIN W : W[j][i] = 0 => k <= j
      /\ ~(\E j \in DOMAIN W : W[j][i] = 0) => k = Cardinality(DOMAIN W)
  BY EntryIndexProperties
<1>4. Cardinality({}) = 0 /\ Cardinality({0}) = 1
  BY FS_EmptySet, FS_Singleton
<1>5. \A j \in DOMAIN W : W[j] \in [InputsOf(n) -> Nat]
  BY EntryTypes
<1>6. Blank(n) \in [InputsOf(n) -> Nat]
  BY DEF Blank
<1> HIDE DEF l, sents2, k, C
<1>7. l = 1 /\ ~B(1) => ~B(2)
  BY <1>1 DEF Begun
<1> HIDE DEF B
<1>8. /\ DOMAIN W \subseteq {0, 1}
      /\ 0 \in DOMAIN W => \/ B(1) /\ IsLayer(n, sents, 1, W[0])
                           \/ ~B(1) /\ B(2) /\ IsLayer(n, sents, 2, W[0]) /\ 1 \notin DOMAIN W
      /\ 1 \in DOMAIN W => B(2) /\ IsLayer(n, sents, 2, W[1])
      /\ B(1) => 0 \in DOMAIN W
      /\ B(2) => DOMAIN W # {} /\ (B(1) => 1 \in DOMAIN W)
  BY DEF InLayers, B
<1>9. \/ l = 1 /\ B(1) /\ k = 0 /\ k \in DOMAIN W /\ IsLayer(n, sents, l, W[k])
      \/ l = 1 /\ ~B(1) /\ ~B(2) /\ k = 0 /\ DOMAIN W = {}
      \/ l = 2 /\ B(1) /\ B(2) /\ k = 1 /\ k \in DOMAIN W /\ IsLayer(n, sents, l, W[k])
      \/ l = 2 /\ ~B(1) /\ B(2) /\ DOMAIN W = {k} /\ IsLayer(n, sents, l, W[k])
      \/ l = 2 /\ B(1) /\ ~B(2) /\ k = 1 /\ DOMAIN W = {0}
      \/ l = 2 /\ ~B(1) /\ ~B(2) /\ k = 0 /\ DOMAIN W = {}
  <2>0. \A j \in DOMAIN W : IsLayer(n, sents, l, W[j]) => W[j][i] = 0
    BY <1>2, <1>5
  <2>1. CASE l = 1 /\ B(1)
    <3>1. 0 \in DOMAIN W /\ IsLayer(n, sents, l, W[0])
      BY <1>8, <2>1
    <3>2. k \in DOMAIN W /\ k <= 0
      BY <1>3, <2>0, <3>1
    <3> QED BY <1>3, <2>1, <3>1, <3>2
  <2>2. CASE l = 1 /\ ~B(1)
    <3>1. ~B(2) /\ DOMAIN W = {}
      BY <1>7, <1>8, <2>2
    <3> QED BY <1>3, <1>4, <2>2, <3>1
  <2>3. CASE l = 2 /\ B(1) /\ B(2)
    <3>1. 0 \in DOMAIN W /\ 1 \in DOMAIN W /\ IsLayer(n, sents, 1, W[0]) /\ IsLayer(n, sents, l, W[1])
      BY <1>8, <2>3
    <3>2. W[0][i] = 1
      BY <1>1, <2>3, <3>1 DEF IsLayer
    <3>3. k \in DOMAIN W /\ W[k][i] = 0
      BY <1>3, <2>0, <3>1
    <3>4. k = 1
      BY <1>8, <3>2, <3>3
    <3> QED BY <2>3, <3>1, <3>4
  <2>4. CASE l = 2 /\ ~B(1) /\ B(2)
    <3>1. PICK j \in DOMAIN W : IsLayer(n, sents, l, W[j]) /\ DOMAIN W = {j}
      BY <1>8, <2>4
    <3>2. k \in DOMAIN W
      BY <1>3, <2>0, <3>1
    <3> QED BY <2>4, <3>1, <3>2
  <2>5. CASE l = 2 /\ B(1) /\ ~B(2)
    <3>1. DOMAIN W = {0} /\ IsLayer(n, sents, 1, W[0])
      BY <1>8, <2>5
    <3>2. W[0][i] = 1
      BY <1>1, <2>5, <3>1 DEF IsLayer
    <3> QED BY <1>3, <1>4, <2>5, <3>1, <3>2
  <2>6. CASE l = 2 /\ ~B(1) /\ ~B(2)
    <3>1. DOMAIN W = {}
      BY <1>8, <2>6
    <3> QED BY <1>3, <1>4, <2>6, <3>1
  <2> QED BY <1>1, <2>1, <2>2, <2>3, <2>4, <2>5, <2>6
<1>10. /\ k \in DOMAIN W => W[k][i] = 0
       /\ entry \in [InputsOf(n) -> Nat] /\ IsLayer(n, sents, l, entry)
  <2>1. k \in DOMAIN W => IsLayer(n, sents, l, W[k])
    BY <1>9
  <2>2. k \notin DOMAIN W => ~B(l)
    BY <1>9
  <2> QED BY <1>2, <1>5, <1>6, <2>1, <2>2
<1> HIDE DEF entry
<1>11. IsLayer(n, sents2, l, main) /\ (IsComplete(main) <=> ~C(l)) /\ main \in [InputsOf(n) -> Nat]
  <2>1. main \in [InputsOf(n) -> Nat]
    BY <1>1, <1>10
  <2> QED BY <1>2, <1>10, <2>1
<1> HIDE DEF main
<1>12. ASSUME NEW V, ~C(l), DOMAIN V = DOMAIN W \ {k}, \A j \in DOMAIN W \ {k} : V[j] = W[j]
       PROVE  InLayers(n, sents2, V)
  <2>1. /\ DOMAIN V \subseteq {0, 1}
        /\ 0 \in DOMAIN V => \/ C(1) /\ IsLayer(n, sents2, 1, V[0])
                             \/ ~C(1) /\ C(2) /\ IsLayer(n, sents2, 2, V[0]) /\ 1 \notin DOMAIN V
        /\ 1 \in DOMAIN V => C(2) /\ IsLayer(n, sents2, 2, V[1])
        /\ C(1) => 0 \in DOMAIN V
        /\ C(2) => DOMAIN V # {} /\ (C(1) => 1 \in DOMAIN V)
    BY <1>2, <1>8, <1>9, <1>12
  <2> QED BY <2>1 DEF InLayers, C
<1>13. ASSUME NEW V, C(l), DOMAIN V = DOMAIN W \cup {k}, V[k] = main, \A j \in DOMAIN W \ {k} : V[j] = W[j]
       PROVE  InLayers(n, sents2, V)
  <2>1. /\ DOMAIN V \subseteq {0, 1}
        /\ 0 \in DOMAIN V => \/ C(1) /\ IsLayer(n, sents2, 1, V[0])
                             \/ ~C(1) /\ C(2) /\ IsLayer(n, sents2, 2, V[0]) /\ 1 \notin DOMAIN V
        /\ 1 \in DOMAIN V => C(2) /\ IsLayer(n, sents2, 2, V[1])
        /\ C(1) => 0 \in DOMAIN V
        /\ C(2) => DOMAIN V # {} /\ (C(1) => 1 \in DOMAIN V)
    BY <1>2, <1>8, <1>9, <1>11, <1>13
  <2> QED BY <2>1 DEF InLayers, C
<1>14. IsComplete(main) => InLayers(n, sents2, Without(W, k))
  BY <1>11, <1>12, WithoutProperties
<1>15. ~IsComplete(main) => InLayers(n, sents2, Put(W, k, main))
  <2>1. /\ DOMAIN Put(W, k, main) = DOMAIN W \cup {k} /\ Put(W, k, main)[k] = main
        /\ \A j \in DOMAIN W \ {k} : Put(W, k, main)[j] = W[j]
    BY <1>3, <1>11, PutProperties
  <2> QED BY <1>11, <1>13, <2>1
<1> QED BY <1>10, <1>11, <1>14, <1>15 DEF main, entry, k, sents2, l

-----------------------------------------------------------------------------
(* The data of a turn belong together.                                     *)

\* The nodes that have items or entries, and: no more data come to node n.
Active(s) == {s.stack[k].node : k \in DOMAIN s.stack} \cup Range(s.order)
NoMore(s, n) == Active(s) \cap workflow.parents[n] = {}

AllPaired(s) ==
    /\ \A k \in DOMAIN s.stack : IsPaired(s.stack[k].main)
    /\ \A n \in Nodes : \A k \in DOMAIN s.waiting[n] : IsPaired(s.waiting[n][k])

\* What is assumed of an execution: no input of a node with several gets a third datum.
UpToTwo(sents) == \A n \in Joins : \A i \in Inputs : sents[n][i] <= 2

\* The entries of a node are layers as long as data may come; once it was run with what it
\* had, no more do.
InStep(s) ==
    /\ \A n \in Joins : InLayers(n, s.sent[n], s.waiting[n]) \/ NoMore(s, n)
    /\ AllPaired(s)
LayersInv == UpToTwo(sent) => InStep(Now)

\* The same while the data of node t are delivered.
InStepFrom(s, t) ==
    /\ \A n \in Joins : \/ InLayers(n, s.sent[n], s.waiting[n])
                        \/ NoMore(s, n) /\ t \notin workflow.parents[n]
    /\ AllPaired(s)

\* A new item on top.
LEMMA PushedProperties ==
    ASSUME NEW q \in Seq(Items), NEW x \in Items
    PROVE  /\ <<x>> \o q \in Seq(Items) /\ Len(<<x>> \o q) = Len(q) + 1 /\ Len(q) \in Nat
           /\ DOMAIN q = 1..Len(q) /\ DOMAIN (<<x>> \o q) = 1..(Len(q) + 1)
           /\ (<<x>> \o q)[1] = x
           /\ \A k \in 1..Len(q) : (<<x>> \o q)[k + 1] = q[k]
           /\ \A k \in 2..(Len(q) + 1) : k - 1 \in 1..Len(q) /\ (<<x>> \o q)[k] = q[k - 1]
<1>1. <<x>> \in Seq(Items) /\ Len(<<x>>) = 1 /\ <<x>>[1] = x /\ Len(q) \in Nat
  OBVIOUS
<1>2. <<x>> \o q \in Seq(Items) /\ Len(<<x>> \o q) = Len(q) + 1
  BY <1>1
<1>3. (<<x>> \o q)[1] = x
  BY <1>1
<1>4. \A k \in 1..Len(q) : (<<x>> \o q)[k + 1] = q[k]
  BY <1>1
<1>5. \A k \in 2..(Len(q) + 1) : k - 1 \in 1..Len(q) /\ (<<x>> \o q)[k] = q[k - 1]
  BY <1>1
<1> QED BY <1>1, <1>2, <1>3, <1>4, <1>5

\* Who is on the stack or waits after a datum was sent: who was, and its receiver.
LEMMA ActiveAfterAdding ==
    ASSUME Structured, NEW t \in Nodes, NEW e \in Leaving(t), NEW s \in States
    PROVE  Active(AddNodeToBeExecuted(s, e)) \subseteq Active(s) \cup {e.to}
<1> DEFINE r == AddNodeToBeExecuted(s, e)
           x == Item(e.to, Filled(s, e))
<1>1. /\ r \in States /\ Filled(s, e) \in [InputsOf(e.to) -> Nat]
      /\ Passed(s, r, e) \/ Completed(s, r, e) \/ Collected(s, r, e)
  BY AddNodeStep
<1>2. s.stack \in Seq(Items) /\ e.to \in Nodes /\ InputsOf(e.to) \subseteq Inputs
  BY WorkflowFacts DEF States, Records, Leaving, Edges
<1>3. x \in Items /\ x.node = e.to
  <2>1. Filled(s, e) \in Mains
    BY <1>1, <1>2 DEF Mains
  <2> QED BY <1>2, <2>1 DEF Item, Items
<1>4. \A n \in Nodes : n # e.to => r.waiting[n] = s.waiting[n]
  BY <1>1, <1>2 DEF Passed, Completed, Collected, States, Records
<1> HIDE DEF r, x
<1>5. Range(r.order) \subseteq Range(s.order) \cup {e.to}
  BY <1>1, <1>4 DEF States
<1>6. r.stack = s.stack \/ r.stack = <<x>> \o s.stack
  BY <1>1 DEF Passed, Completed, Collected, x
<1>7. \A k \in DOMAIN r.stack : r.stack[k].node = e.to \/ \E j \in DOMAIN s.stack : r.stack[k] = s.stack[j]
  <2>1. CASE r.stack = s.stack
    BY <2>1
  <2>2. CASE r.stack = <<x>> \o s.stack
    <3> TAKE k \in DOMAIN r.stack
    <3>1. CASE k = 1
      BY <1>2, <1>3, <2>2, <3>1, PushedProperties
    <3>2. CASE k \in 2..(Len(s.stack) + 1)
      BY <1>2, <1>3, <2>2, <3>2, PushedProperties
    <3>3. k \in 1..(Len(s.stack) + 1) /\ Len(s.stack) \in Nat
      BY <1>2, <1>3, <2>2, PushedProperties
    <3> QED BY <3>1, <3>2, <3>3
  <2> QED BY <1>6, <2>1, <2>2
<1> QED BY <1>5, <1>7 DEF Active, r

\* A node with several inputs gets data only from nodes before it.
LEMMA SenderBefore ==
    ASSUME Structured, NoJoinOnALoop, NEW t \in Nodes, NEW e \in Leaving(t)
    PROVE  /\ e.to \in Joins => t \in workflow.parents[e.to]
           /\ \A m \in Joins : e.to \in workflow.parents[m] => t \in workflow.parents[m]
<1>1. t \in Above(e.to) /\ e.to \in Nodes /\ (t \in Joins => e.to \notin Above(t))
  BY DEF Leaving, Edges
<1>2. \A n \in Nodes : n \in Above(n)
  BY DEF Above
<1>3. \A m \in Joins : m \in Nodes
  BY DEF Joins
<1>4. ASSUME NEW m \in Joins, e.to \in workflow.parents[m] PROVE t \in workflow.parents[m]
  <2>1. Above(e.to) \subseteq Above(m)
    BY <1>3, <1>4, WorkflowFacts DEF Above
  <2>2. t # m
    BY <1>1, <1>4 DEF Above
  <2> QED BY <1>1, <2>1, <2>2 DEF Above
<1>5. e.to \in Joins => t \in workflow.parents[e.to]
  BY <1>1, <1>2 DEF Above
<1> QED BY <1>4, <1>5

\* A datum for a node whose entries are layers: it is overwritten by none, and overwrites none.
LEMMA LayersAfterAdding ==
    ASSUME Structured, NEW t \in Nodes, NEW e \in Leaving(t), NEW s \in States, e.to \in Joins,
           InLayers(e.to, s.sent[e.to], s.waiting[e.to]),
           UpToTwo(AddNodeToBeExecuted(s, e).sent)
    PROVE  LET r == AddNodeToBeExecuted(s, e)
           IN /\ Into(s, e) \in DOMAIN s.waiting[e.to] => s.waiting[e.to][Into(s, e)][e.in] = 0
              /\ InLayers(e.to, r.sent[e.to], r.waiting[e.to])
              /\ IsPaired(Filled(s, e))
<1> DEFINE r == AddNodeToBeExecuted(s, e)
           n == e.to
           W == s.waiting[n]
           sents == s.sent[n]
           sents2 == [sents EXCEPT ![e.in] = sents[e.in] + 1]
           k == EntryIndex(W, e.in)
           main == Filled(s, e)
<1>1. /\ r.sent = [s.sent EXCEPT ![n][e.in] = Datum(s, e)]
      /\ main \in [InputsOf(n) -> Nat]
      /\ Completed(s, r, e) \/ Collected(s, r, e)
  BY AddNodeStep DEF Passed
<1>2. /\ n \in Nodes /\ e.in \in InputsOf(n) /\ e.in \in Inputs
      /\ sents \in [Inputs -> Nat] /\ W \in EntriesOf(n)
      /\ s.sent \in [Nodes -> [Inputs -> Nat]] /\ DOMAIN s.waiting = Nodes
  BY WorkflowFacts DEF Leaving, Edges, States, Records
<1>3. r.sent[n] = sents2
  BY <1>1, <1>2 DEF Datum
<1>4. sents[e.in] + 1 <= 2
  <2>1. r.sent[n][e.in] <= 2
    BY <1>2 DEF UpToTwo
  <2> QED BY <1>2, <1>3, <2>1
<1>5. main = [(IF k \in DOMAIN W /\ W[k][e.in] = 0 THEN W[k] ELSE Blank(n)) EXCEPT ![e.in] = sents[e.in] + 1]
  BY DEF Filled, Entry, Misses, Into, Datum
<1>6. /\ IsComplete(main) => r.waiting[n] = Without(W, k)
      /\ ~IsComplete(main) => r.waiting[n] = Put(W, k, main)
  BY <1>1, <1>2 DEF Completed, Collected, Into
<1>7. InLayers(n, sents, W)
  OBVIOUS
<1> HIDE DEF r, W, sents, main
<1>8. /\ k \in DOMAIN W => W[k][e.in] = 0
      /\ IsLayer(n, sents2, sents[e.in] + 1, main)
      /\ IsComplete(main) => InLayers(n, sents2, Without(W, k))
      /\ ~IsComplete(main) => InLayers(n, sents2, Put(W, k, main))
  BY <1>2, <1>4, <1>5, <1>7, LayersKept
<1>9. IsPaired(main)
  BY <1>1, <1>8, LayerPaired
<1> QED BY <1>3, <1>6, <1>8, <1>9 DEF r, W, main, Into

\* One more datum from node t leaves the entries layers, or nobody waiting for more.
LEMMA InStepAfterAdding ==
    ASSUME Structured, NoJoinOnALoop, NEW t \in Nodes, NEW e \in Leaving(t), NEW s \in States,
           InStepFrom(s, t), UpToTwo(AddNodeToBeExecuted(s, e).sent)
    PROVE  InStepFrom(AddNodeToBeExecuted(s, e), t)
<1> DEFINE r == AddNodeToBeExecuted(s, e)
           n == e.to
           x == Item(n, Filled(s, e))
<1>1. /\ r \in States /\ Filled(s, e) \in [InputsOf(n) -> Nat]
      /\ r.sent = [s.sent EXCEPT ![n][e.in] = Datum(s, e)]
      /\ Passed(s, r, e) \/ Completed(s, r, e) \/ Collected(s, r, e)
  BY AddNodeStep
<1>2. /\ n \in Nodes /\ InputsOf(n) \subseteq Inputs /\ workflow.inputs[n] \in 0..3
      /\ s.stack \in Seq(Items) /\ s.waiting[n] \in EntriesOf(n)
      /\ s.sent \in [Nodes -> [Inputs -> Nat]] /\ DOMAIN s.waiting = Nodes
  BY WorkflowFacts DEF States, Records, Leaving, Edges
<1>3. Active(r) \subseteq Active(s) \cup {n}
  BY ActiveAfterAdding
<1>4. \A m \in Nodes \ {n} : r.sent[m] = s.sent[m] /\ r.waiting[m] = s.waiting[m]
  BY <1>1, <1>2 DEF Passed, Completed, Collected
<1>5. n \in Joins => InLayers(n, s.sent[n], s.waiting[n])
  BY SenderBefore DEF InStepFrom
<1>6. n \in Joins => InLayers(n, r.sent[n], r.waiting[n])
  BY <1>5, LayersAfterAdding
<1>7. IsPaired(Filled(s, e))
  <2>1. CASE n \in Joins
    BY <1>5, <2>1, LayersAfterAdding
  <2>2. CASE n \notin Joins
    <3>1. \A i, j \in InputsOf(n) : i = j
      BY <1>2, <2>2 DEF Joins, InputsOf
    <3> QED BY <1>1, <3>1 DEF IsPaired
  <2> QED BY <2>1, <2>2
<1>8. x \in Items /\ x.main = Filled(s, e)
  <2>1. Filled(s, e) \in Mains
    BY <1>1, <1>2 DEF Mains
  <2> QED BY <1>2, <2>1 DEF Item, Items
<1>9. r.stack = s.stack \/ r.stack = <<x>> \o s.stack
  BY <1>1 DEF Passed, Completed, Collected
<1>10. ASSUME n \notin Joins PROVE r.waiting = s.waiting
  BY <1>1, <1>10 DEF Passed, Completed, Collected
<1> HIDE DEF r, x
<1>11. \A k \in DOMAIN r.stack : IsPaired(r.stack[k].main)
  <2>1. CASE r.stack = s.stack
    BY <2>1 DEF InStepFrom, AllPaired
  <2>2. CASE r.stack = <<x>> \o s.stack
    <3> SUFFICES ASSUME NEW k \in DOMAIN r.stack PROVE IsPaired(r.stack[k].main)
      OBVIOUS
    <3>1. CASE k = 1
      BY <1>2, <1>7, <1>8, <2>2, <3>1, PushedProperties
    <3>2. CASE k \in 2..(Len(s.stack) + 1)
      <4>1. k - 1 \in DOMAIN s.stack /\ r.stack[k] = s.stack[k - 1]
        BY <1>2, <1>8, <2>2, <3>2, PushedProperties
      <4> QED BY <4>1 DEF InStepFrom, AllPaired
    <3>3. k \in 1..(Len(s.stack) + 1) /\ Len(s.stack) \in Nat
      BY <1>2, <1>8, <2>2, PushedProperties
    <3> QED BY <3>1, <3>2, <3>3
  <2> QED BY <1>9, <2>1, <2>2
<1>12. ASSUME NEW m \in Nodes, NEW k \in DOMAIN r.waiting[m] PROVE IsPaired(r.waiting[m][k])
  <2>1. CASE m # n \/ n \notin Joins
    BY <1>4, <1>10, <1>12, <2>1 DEF InStepFrom, AllPaired
  <2>2. CASE m = n /\ n \in Joins
    BY <1>1, <1>6, <1>12, <2>2, LayersPaired DEF States
  <2> QED BY <2>1, <2>2
<1>13. ASSUME NEW m \in Joins
       PROVE  \/ InLayers(m, r.sent[m], r.waiting[m])
              \/ NoMore(r, m) /\ t \notin workflow.parents[m]
  <2>1. CASE m = n
    BY <1>6, <2>1
  <2>2. CASE m # n
    <3>1. m \in Nodes \ {n}
      BY <2>2 DEF Joins
    <3>2. NoMore(s, m) /\ t \notin workflow.parents[m] => NoMore(r, m)
      BY <1>3, SenderBefore DEF NoMore
    <3> QED BY <1>4, <3>1, <3>2 DEF InStepFrom
  <2> QED BY <2>1, <2>2
<1> QED BY <1>11, <1>12, <1>13 DEF InStepFrom, AllPaired, r

\* Numbers of data only grow.
LEMMA SentGrows ==
    ASSUME Structured, NEW t \in Nodes, NEW e \in Leaving(t), NEW s \in States,
           UpToTwo(AddNodeToBeExecuted(s, e).sent)
    PROVE  UpToTwo(s.sent)
<1>1. /\ AddNodeToBeExecuted(s, e).sent = [s.sent EXCEPT ![e.to][e.in] = s.sent[e.to][e.in] + 1]
      /\ s.sent \in [Nodes -> [Inputs -> Nat]] /\ e.to \in Nodes /\ e.in \in Inputs
  BY AddNodeStep DEF Datum, States, Records, Leaving, Edges
<1> SUFFICES ASSUME NEW n \in Joins, NEW i \in Inputs PROVE s.sent[n][i] <= 2
  BY DEF UpToTwo
<1>2. AddNodeToBeExecuted(s, e).sent[n][i] <= 2 /\ n \in Nodes
  BY DEF UpToTwo, Joins
<1>3. /\ s.sent[n][i] \in Nat
      /\ AddNodeToBeExecuted(s, e).sent[n][i] = s.sent[n][i] + (IF n = e.to /\ i = e.in THEN 1 ELSE 0)
  BY <1>1, <1>2
<1> QED BY <1>2, <1>3

\* Releasing a node with what it has keeps the others in step, and no more data come to it.
LEMMA InStepAfterRelease ==
    ASSUME Structured, NEW s \in States, InStep(s)
    PROVE  InStep(Release(s))
<1> DEFINE r == Release(s)
<1>1. r \in States /\ (r = s \/ PutsOneOnTheStack(s, r))
  BY ReleaseStep
<1> SUFFICES InStep(r)
  BY DEF r
<1> HIDE DEF r
<1>2. CASE PutsOneOnTheStack(s, r)
  <2> DEFINE first(n) == Min(DOMAIN s.waiting[n])
  <2>1. PICK p \in Range(s.order) :
          /\ Releasable(s, p) /\ s.stack = <<>>
          /\ first(p) \in DOMAIN s.waiting[p]
          /\ r.stack = <<Item(p, s.waiting[p][first(p)])>>
          /\ r.waiting = [s.waiting EXCEPT ![p] = Without(s.waiting[p], first(p))]
          /\ r.sent = s.sent /\ Range(r.order) \subseteq Range(s.order)
    BY <1>2 DEF PutsOneOnTheStack
  <2> HIDE DEF first
  <2>2. /\ p \in Nodes /\ DOMAIN s.waiting = Nodes /\ s.waiting[p] \in EntriesOf(p)
        /\ p \notin workflow.parents[p]
    BY WorkflowFacts DEF States, Records, Joins
  <2>3. /\ DOMAIN r.stack = {1} /\ r.stack[1].node = p
        /\ r.stack[1].main = s.waiting[p][first(p)]
    BY <2>1 DEF Item
  <2>4. Active(r) \subseteq Range(s.order)
    BY <2>1, <2>3 DEF Active
  <2>5. NoMore(r, p)
    BY <2>1, <2>2, <2>4 DEF NoMore, Releasable, Active
  <2>6. ASSUME NEW m \in Joins PROVE InLayers(m, r.sent[m], r.waiting[m]) \/ NoMore(r, m)
    <3>1. CASE m = p
      BY <2>5, <3>1
    <3>2. CASE m # p
      <4>1. r.waiting[m] = s.waiting[m] /\ r.sent[m] = s.sent[m]
        BY <2>1, <2>2, <3>2 DEF Joins
      <4>2. NoMore(s, m) => NoMore(r, m)
        BY <2>4 DEF NoMore, Active
      <4> QED BY <4>1, <4>2 DEF InStep
    <3> QED BY <3>1, <3>2
  <2>7. \A k \in DOMAIN r.stack : IsPaired(r.stack[k].main)
    BY <2>1, <2>2, <2>3 DEF InStep, AllPaired
  <2>8. ASSUME NEW m \in Nodes, NEW k \in DOMAIN r.waiting[m] PROVE IsPaired(r.waiting[m][k])
    <3>1. CASE m = p
      <4>1. r.waiting[p] = Without(s.waiting[p], first(p)) /\ k \in DOMAIN r.waiting[p]
        BY <2>1, <2>2, <2>8, <3>1
      <4>2. PICK W \in EntriesOf(p) : W = s.waiting[p]
        BY <2>2
      <4>3. /\ DOMAIN Without(W, first(p)) = DOMAIN W \ {first(p)}
            /\ \A j \in DOMAIN W \ {first(p)} : Without(W, first(p))[j] = W[j]
        BY WithoutProperties
      <4>4. k \in DOMAIN W /\ r.waiting[p][k] = W[k]
        BY <4>1, <4>2, <4>3
      <4> QED BY <2>2, <3>1, <4>2, <4>4 DEF InStep, AllPaired
    <3>2. CASE m # p
      BY <2>1, <2>2, <2>8, <3>2 DEF InStep, AllPaired
    <3> QED BY <3>1, <3>2
  <2> QED BY <2>6, <2>7, <2>8 DEF InStep, AllPaired
<1>3. CASE r = s
  BY <1>3
<1> QED BY <1>1, <1>2, <1>3

\* Without the item a turn has taken, data of its node may still come.
LEMMA InStepOnceTaken ==
    ASSUME TypeInv, LayersInv, Turn
    PROVE  UpToTwo(Taken.sent) => InStepFrom(Taken, Top.node)
<1>1. PICK t : t = Top.node
  OBVIOUS
<1>2. Taken \in States /\ stack = <<Top>> \o Tail(stack) /\ Top \in Items
  BY TakenTypes
<1>3. Tail(stack) \in Seq(Items) /\ stack \in Seq(Items)
  BY <1>2, StackTypes DEF States, Records, Taken
<1>4. \A k \in DOMAIN Tail(stack) : k + 1 \in DOMAIN stack /\ stack[k + 1] = Tail(stack)[k]
  BY <1>2, <1>3, PushedProperties
<1>5. 1 \in DOMAIN stack /\ stack[1].node = t
  BY <1>1, <1>2, <1>3, PushedProperties DEF Top
<1>6. Active(Taken) \subseteq Active(Now) /\ t \in Active(Now)
  BY <1>4, <1>5 DEF Active, Taken, Now
<1>7. \A n \in Joins : NoMore(Now, n) => NoMore(Taken, n) /\ t \notin workflow.parents[n]
  BY <1>6 DEF NoMore
<1>8. AllPaired(Now) => AllPaired(Taken)
  BY <1>4 DEF AllPaired, Now, Taken
<1>9. InStep(Now) => InStepFrom(Taken, t)
  BY <1>7, <1>8 DEF InStep, InStepFrom, Now, Taken
<1> QED BY <1>1, <1>9 DEF LayersInv, Taken

\* The layers after a turn in which a node runs.
LEMMA InStepAfterRun ==
    ASSUME TypeInv, NoJoinOnALoop, LayersInv, Turn, NEW outputs
    PROVE  LET s == Deliver(Top.node, outputs)
           IN /\ UpToTwo(s.sent) => InStepFrom(s, Top.node)
              /\ UpToTwo(s.sent) => InStep(Release(s))
<1>1. PICK t : t = Top.node
  OBVIOUS
<1>2. Structured /\ t \in Nodes /\ Taken \in States
  BY <1>1, TakenTypes DEF TypeInv
<1> DEFINE I == {s \in States : UpToTwo(s.sent) => InStepFrom(s, t)}
<1>3. Taken \in I
  BY <1>1, <1>2, InStepOnceTaken
<1>4. ASSUME NEW s \in I, NEW e \in Leaving(t) PROVE AddNodeToBeExecuted(s, e) \in I
  <2>1. s \in States /\ AddNodeToBeExecuted(s, e) \in States
    BY <1>2, AddNodeStep
  <2>2. ASSUME UpToTwo(AddNodeToBeExecuted(s, e).sent) PROVE InStepFrom(AddNodeToBeExecuted(s, e), t)
    <3>1. InStepFrom(s, t)
      BY <1>2, <2>1, <2>2, SentGrows
    <3> QED BY <1>2, <2>1, <2>2, <3>1, InStepAfterAdding
  <2> QED BY <2>1, <2>2
<1> HIDE DEF I
<1>5. Deliver(t, outputs) \in I
  BY <1>2, <1>3, <1>4, DeliverKeeps
<1> DEFINE s == Deliver(t, outputs)
<1>6. s \in States /\ (UpToTwo(s.sent) => InStepFrom(s, t))
  BY <1>5 DEF I
<1> HIDE DEF s
<1>7. UpToTwo(s.sent) => InStep(s)
  BY <1>6 DEF InStepFrom, InStep
<1>8. UpToTwo(s.sent) => InStep(Release(s))
  BY <1>2, <1>6, <1>7, InStepAfterRelease
<1> QED BY <1>1, <1>6, <1>8 DEF s

\* The layers stay: the data of one input never overtake those of another.
LEMMA LayersInvHolds ==
    ASSUME NoJoinOnALoop
    PROVE  Spec => []LayersInv
<1>1. TypeInv /\ Init => LayersInv
  <2> SUFFICES ASSUME TypeInv, Init PROVE InStep(Now)
    BY DEF LayersInv
  <2>1. /\ stack = <<Item(Start, [i \in {0} |-> 1])>> /\ order = <<>>
        /\ waiting = [n \in Nodes |-> NoEntries] /\ sent = [Nothing EXCEPT ![Start][0] = 1]
    BY DEF Init
  <2>2. DOMAIN stack = {1} /\ stack[1].node = Start /\ stack[1].main = [i \in {0} |-> 1]
    BY <2>1 DEF Item
  <2>3. Active(Now) = {Start}
    BY <2>1, <2>2 DEF Active, Now, Range
  <2>4. ASSUME NEW n \in Joins PROVE InLayers(n, sent[n], waiting[n]) \/ NoMore(Now, n)
    <3>1. n \in Nodes /\ n \notin workflow.parents[n] /\ InputsOf(n) \subseteq Inputs
      BY WorkflowFacts DEF TypeInv, Joins
    <3>2. CASE n = Start
      BY <2>3, <3>1, <3>2 DEF NoMore
    <3>3. CASE n # Start
      <4>1. \A i \in InputsOf(n) : sent[n][i] = 0
        BY <2>1, <3>1, <3>3 DEF Nothing
      <4>2. ~Begun(n, sent[n], 1) /\ ~Begun(n, sent[n], 2)
        BY <4>1 DEF Begun
      <4>3. DOMAIN waiting[n] = {}
        BY <2>1, <3>1 DEF NoEntries
      <4> QED BY <4>2, <4>3 DEF InLayers
    <3> QED BY <3>2, <3>3
  <2>5. \A k \in DOMAIN stack : IsPaired(stack[k].main)
    BY <2>2 DEF IsPaired
  <2>6. \A n \in Nodes : DOMAIN waiting[n] = {}
    BY <2>1 DEF NoEntries
  <2> QED BY <2>4, <2>5, <2>6 DEF InStep, AllPaired, Now
<1>2. TypeInv /\ LayersInv /\ [Next]_vars => LayersInv'
  <2> SUFFICES ASSUME TypeInv, LayersInv, [Next]_vars PROVE LayersInv'
    OBVIOUS
  <2>1. /\ Structured /\ workflow' = workflow
    BY Steps DEF TypeInv
  <2>2. PICK s : s = Now'
    OBVIOUS
  <2>3. LayersInv' <=> (UpToTwo(s.sent) => InStep(s))
    <3>1. Joins' = Joins /\ \A n : InputsOf(n)' = InputsOf(n)
      BY <2>1, WorkflowStays
    <3>2. sent' = s.sent
      BY <2>2 DEF Now
    <3>3. UpToTwo(sent)' <=> UpToTwo(s.sent)
      BY <3>1, <3>2 DEF UpToTwo
    <3>4. InStep(Now)' <=> InStep(s)
      BY <2>1, <2>2, <3>1 DEF InStep, InLayers, Begun, IsLayer, NoMore
    <3> QED BY <3>3, <3>4 DEF LayersInv
  <2>4. CASE NodeRuns
    <3>1. PICK outputs : s = Release(Deliver(Top.node, outputs)) /\ Turn
      BY <2>2, <2>4 DEF NodeRuns
    <3>2. PICK d : d = Deliver(Top.node, outputs)
      OBVIOUS
    <3>3. d \in States /\ (UpToTwo(d.sent) => InStep(Release(d)))
      BY <3>1, <3>2, RunTypes, InStepAfterRun
    <3>4. s.sent = d.sent
      BY <2>1, <3>1, <3>2, <3>3, ReleaseStep DEF PutsOneOnTheStack
    <3> QED BY <2>3, <3>1, <3>2, <3>3, <3>4
  <2>5. CASE TurnEnds
    <3>1. Turn /\ s = Taken
      BY <2>2, <2>5 DEF TurnEnds
    <3>2. PICK t : t = Top.node
      OBVIOUS
    <3>3. t \in Nodes /\ Taken \in States
      BY <3>1, <3>2, TakenTypes
    <3>4. UpToTwo(s.sent) => InStep(s)
      BY <3>1, InStepOnceTaken DEF InStepFrom, InStep
    <3> QED BY <2>3, <3>4
  <2>6. CASE Resumes
    <3>1. /\ s.waiting = waiting /\ s.order = order /\ s.sent = sent
          /\ DOMAIN s.stack = DOMAIN stack
          /\ \A k \in DOMAIN stack : s.stack[k].node = stack[k].node /\ s.stack[k].main = stack[k].main
      <4>1. PICK node : stack' = [k \in DOMAIN stack |->
              IF stack[k].node = node THEN [stack[k] EXCEPT !.disabled = TRUE] ELSE stack[k]]
        BY <2>6 DEF Resumes
      <4>2. \A x \in Items : /\ [x EXCEPT !.disabled = TRUE].node = x.node
                             /\ [x EXCEPT !.disabled = TRUE].main = x.main
        BY DEF Items
      <4>3. \A k \in DOMAIN stack : stack[k] \in Items
        BY StackTypes
      <4> QED BY <2>2, <2>6, <4>1, <4>2, <4>3 DEF Resumes, history, Now
    <3>2. Active(s) = Active(Now)
      BY <3>1 DEF Active, Now
    <3>3. AllPaired(Now) => AllPaired(s)
      BY <3>1 DEF AllPaired, Now
    <3>4. InStep(Now) => InStep(s)
      BY <3>1, <3>2, <3>3 DEF InStep, NoMore, Now
    <3> QED BY <2>3, <3>1, <3>4 DEF LayersInv
  <2>7. CASE StatusChanges
    <3>1. s = Now
      BY <2>2, <2>7 DEF StatusChanges, data, history, Now
    <3> QED BY <2>3, <3>1 DEF LayersInv, Now
  <2> QED BY <2>4, <2>5, <2>6, <2>7, Steps
<1> QED BY <1>1, <1>2, TypeInvHolds, PTL DEF Spec

\* The data a node with several inputs is run with belong together, in an execution of a
\* workflow in which no such node is on a loop and none of their inputs gets a third datum.
THEOREM DataBelongTogether ==
    ASSUME NoJoinOnALoop
    PROVE  Spec => [](UpToTwo(sent) => Paired)
<1>1. TypeInv /\ LayersInv => (UpToTwo(sent) => Paired)
  <2> SUFFICES ASSUME TypeInv, LayersInv, UpToTwo(sent) PROVE Paired
    OBVIOUS
  <2>1. AllPaired(Now)
    BY DEF LayersInv, InStep
  <2>2. DOMAIN waiting = Nodes
    BY DEF TypeInv, States, Records, Now
  <2> QED BY <2>1, <2>2 DEF Paired, AllPaired, IsPaired, Now, Range
<1> QED BY <1>1, TypeInvHolds, LayersInvHolds, PTL

-----------------------------------------------------------------------------
(* No datum is lost.                                                       *)

Has(main, i) == i \in DOMAIN main /\ main[i] # 0
OnStack(q, n, i) == {k \in DOMAIN q : q[k].node = n /\ Has(q[k].main, i)}
InEntries(W, i) == {k \in DOMAIN W : Has(W[k], i)}

\* The books balance: what was sent to an input was used, is on the stack or is in an entry.
Balanced(s, u) ==
    \A n \in Nodes, i \in Inputs :
      s.sent[n][i] = u[n][i] + (Cardinality(OnStack(s.stack, n, i)) + Cardinality(InEntries(s.waiting[n], i)))

One(P) == IF P THEN 1 ELSE 0

\* An item on top adds the data it has.
LEMMA StackCount ==
    ASSUME NEW q \in Seq(Items), NEW x \in Items, NEW n, NEW i
    PROVE  /\ Cardinality(OnStack(q, n, i)) \in Nat
           /\ Cardinality(OnStack(<<x>> \o q, n, i))
                = Cardinality(OnStack(q, n, i)) + One(x.node = n /\ Has(x.main, i))
<1> DEFINE r == <<x>> \o q
           S == OnStack(q, n, i)
           R == OnStack(r, n, i)
           T == {k \in 2..(Len(q) + 1) : q[k - 1].node = n /\ Has(q[k - 1].main, i)}
           f == [k \in S |-> k + 1]
<1>1. /\ Len(q) \in Nat /\ DOMAIN q = 1..Len(q) /\ DOMAIN r = 1..(Len(q) + 1) /\ r[1] = x
      /\ \A k \in 2..(Len(q) + 1) : k - 1 \in 1..Len(q) /\ r[k] = q[k - 1]
  BY PushedProperties
<1>2. IsFiniteSet(S)
  <2>1. IsFiniteSet(1..Len(q)) /\ S \subseteq 1..Len(q)
    BY <1>1, FS_Interval DEF OnStack
  <2> QED BY <2>1, FS_Subset
<1>3. f \in Bijection(S, T)
  <2>1. \A k \in S : k \in 1..Len(q) /\ q[k].node = n /\ Has(q[k].main, i)
    BY <1>1 DEF OnStack
  <2>2. \A k \in S : k \in Int /\ k + 1 \in 2..(Len(q) + 1) /\ (k + 1) - 1 = k
    BY <1>1, <2>1
  <2>3. \A k \in S : k + 1 \in T
    BY <2>1, <2>2
  <2>4. \A j \in T : j - 1 \in S /\ j = (j - 1) + 1
    BY <1>1 DEF OnStack
  <2>5. \A j, k \in S : j + 1 = k + 1 => j = k
    BY <2>2
  <2> HIDE DEF S, T
  <2>6. f \in [S -> T] /\ \A j, k \in S : f[j] = f[k] => j = k
    BY <2>3, <2>5
  <2>7. \A j \in T : \E k \in S : f[k] = j
    BY <2>4
  <2> QED BY <2>6, <2>7 DEF Bijection, Injection, Surjection, IsInjective
<1>4. IsFiniteSet(T) /\ Cardinality(T) = Cardinality(S) /\ Cardinality(S) \in Nat
  <2> HIDE DEF S, T, f
  <2>1. IsFiniteSet(T) /\ Cardinality(T) = Cardinality(S)
    BY <1>2, <1>3, FS_Bijection DEF ExistsBijection
  <2> QED BY <1>2, <2>1, FS_CardinalityType
<1>5. 1 \notin T
  BY <1>1
<1>6. /\ x.node = n /\ Has(x.main, i) => R = T \cup {1}
      /\ ~(x.node = n /\ Has(x.main, i)) => R = T
  <2>1. \A k \in 2..(Len(q) + 1) : k \in R <=> k \in T
    BY <1>1 DEF OnStack
  <2>2. 1 \in R <=> x.node = n /\ Has(x.main, i)
    BY <1>1 DEF OnStack
  <2>3. R \subseteq {1} \cup 2..(Len(q) + 1) /\ T \subseteq 2..(Len(q) + 1)
    BY <1>1 DEF OnStack
  <2> HIDE DEF R, T
  <2> QED BY <1>5, <2>1, <2>2, <2>3
<1> HIDE DEF R, S, T
<1>7. CASE x.node = n /\ Has(x.main, i)
  <2>1. Cardinality(R) = Cardinality(T) + 1
    BY <1>4, <1>5, <1>6, <1>7, FS_AddElement
  <2> QED BY <1>4, <1>7, <2>1 DEF One, R, S
<1>8. CASE ~(x.node = n /\ Has(x.main, i))
  <2>1. R = T
    BY <1>6, <1>8
  <2> QED BY <1>4, <1>8, <2>1 DEF One, R, S
<1> QED BY <1>7, <1>8

\* An entry that goes takes its data along; one that is put there has its own.
LEMMA EntriesCount ==
    ASSUME NEW n, NEW W \in EntriesOf(n), NEW k \in Nat, NEW main \in [InputsOf(n) -> Nat], NEW i
    PROVE  /\ Cardinality(InEntries(W, i)) \in Nat
           /\ Cardinality(InEntries(Without(W, k), i))
                = Cardinality(InEntries(W, i)) - One(k \in InEntries(W, i))
           /\ Cardinality(InEntries(Put(W, k, main), i))
                = Cardinality(InEntries(W, i)) - One(k \in InEntries(W, i)) + One(Has(main, i))
<1> DEFINE S == InEntries(W, i)
           R == InEntries(Without(W, k), i)
           T == InEntries(Put(W, k, main), i)
<1>1. IsFiniteSet(S) /\ Cardinality(S) \in Nat
  <2>1. IsFiniteSet(DOMAIN W) /\ S \subseteq DOMAIN W
    BY EntryTypes DEF InEntries
  <2> QED BY <2>1, FS_Subset, FS_CardinalityType
<1>2. R = S \ {k}
  <2>1. PICK V : V = Without(W, k)
    OBVIOUS
  <2>2. DOMAIN V = DOMAIN W \ {k} /\ \A j \in DOMAIN W \ {k} : V[j] = W[j]
    BY <2>1, WithoutProperties
  <2>3. InEntries(V, i) = InEntries(W, i) \ {k}
    BY <2>2 DEF InEntries
  <2> QED BY <2>1, <2>3
<1>3. T = (S \ {k}) \cup (IF Has(main, i) THEN {k} ELSE {})
  <2>1. PICK V : /\ V = Put(W, k, main) /\ V[k] = main
                 /\ DOMAIN V = DOMAIN W \cup {k} /\ \A j \in DOMAIN W \ {k} : V[j] = W[j]
    <3> HIDE DEF R, S, T
    <3>1. DOMAIN Put(W, k, main) = DOMAIN W \cup {k} /\ Put(W, k, main)[k] = main
      BY DEF Put
    <3>2. \A j \in DOMAIN W \ {k} : Put(W, k, main)[j] = W[j]
      BY DEF Put
    <3> QED BY <3>1, <3>2
  <2>3. InEntries(V, i) = (InEntries(W, i) \ {k}) \cup (IF Has(main, i) THEN {k} ELSE {})
    BY <2>1 DEF InEntries
  <2> QED BY <2>1, <2>3
<1> HIDE DEF R, S, T
<1>4. /\ IsFiniteSet(S \ {k}) /\ k \notin S \ {k}
      /\ Cardinality(S \ {k}) = IF k \in S THEN Cardinality(S) - 1 ELSE Cardinality(S)
  BY <1>1, FS_RemoveElement
<1>5. Cardinality(S \ {k}) = Cardinality(S) - One(k \in S)
  BY <1>1, <1>4 DEF One
<1>6. Cardinality(T) = Cardinality(S \ {k}) + One(Has(main, i))
  <2>1. Cardinality(S \ {k}) \in Nat
    BY <1>4, FS_CardinalityType
  <2>2. CASE Has(main, i)
    <3>1. T = (S \ {k}) \cup {k}
      BY <1>3, <2>2
    <3>2. Cardinality(T) = Cardinality(S \ {k}) + 1
      BY <1>4, <3>1, FS_AddElement
    <3> QED BY <2>2, <3>2 DEF One
  <2>3. CASE ~Has(main, i)
    <3>1. T = S \ {k}
      BY <1>3, <2>3
    <3> QED BY <2>1, <2>3, <3>1 DEF One
  <2> QED BY <2>2, <2>3
<1> QED BY <1>1, <1>2, <1>5, <1>6 DEF R, S, T

\* The entry a datum goes to has what it had and the datum, when it overwrites none.
LEMMA FilledHas ==
    ASSUME Structured, NEW t \in Nodes, NEW e \in Leaving(t), NEW s \in States,
           Into(s, e) \in DOMAIN s.waiting[e.to] => s.waiting[e.to][Into(s, e)][e.in] = 0,
           NEW i
    PROVE  One(Has(Filled(s, e), i))
             = One(Into(s, e) \in InEntries(s.waiting[e.to], i)) + One(i = e.in)
<1> DEFINE n == e.to
           W == s.waiting[n]
           k == Into(s, e)
<1>1. n \in Nodes /\ e.in \in InputsOf(n) /\ W \in EntriesOf(n) /\ Datum(s, e) \in Nat /\ Datum(s, e) # 0
  <2>1. n \in Nodes /\ e.in \in InputsOf(n) /\ e.in \in Inputs /\ W \in EntriesOf(n)
    BY DEF Leaving, Edges, States
  <2>2. s.sent[n][e.in] \in Nat
    BY <2>1 DEF States, Records
  <2> QED BY <2>1, <2>2 DEF Datum
<1> HIDE DEF n, W, k
<1>2. Misses(s, e) <=> k \in DOMAIN W
  BY DEF Misses, n, W, k
<1>3. Entry(s, e) = IF k \in DOMAIN W THEN W[k] ELSE Blank(n)
  BY <1>2 DEF Entry, n, W, k
<1>4. Entry(s, e) \in [InputsOf(n) -> Nat] /\ Entry(s, e)[e.in] = 0
  <2>1. k \in DOMAIN W => W[k] \in [InputsOf(n) -> Nat] /\ W[k][e.in] = 0
    BY <1>1, EntryTypes DEF n, W, k
  <2>2. Blank(n) \in [InputsOf(n) -> Nat] /\ Blank(n)[e.in] = 0
    BY <1>1 DEF Blank
  <2> QED BY <1>3, <2>1, <2>2
<1>5. Has(Entry(s, e), i) <=> k \in InEntries(W, i)
  BY <1>3 DEF InEntries, Has, Blank
<1>6. Has(Filled(s, e), i) <=> Has(Entry(s, e), i) \/ i = e.in
  BY <1>1, <1>4 DEF Filled, Has
<1>7. ~Has(Entry(s, e), e.in)
  BY <1>4 DEF Has
<1> QED BY <1>5, <1>6, <1>7 DEF One, n, W, k

\* A datum that is sent goes to the stack or to an entry, and whatever was there stays.
LEMMA BalancedAfterAdding ==
    ASSUME Structured, NoJoinOnALoop, NEW t \in Nodes, NEW e \in Leaving(t), NEW s \in States,
           InStepFrom(s, t), UpToTwo(AddNodeToBeExecuted(s, e).sent),
           NEW u \in [Nodes -> [Inputs -> Nat]], Balanced(s, u)
    PROVE  Balanced(AddNodeToBeExecuted(s, e), u)
<1> DEFINE r == AddNodeToBeExecuted(s, e)
           n == e.to
           x == Item(n, Filled(s, e))
           k == Into(s, e)
           W == s.waiting[n]
<1>1. /\ Filled(s, e) \in [InputsOf(n) -> Nat]
      /\ r.sent = [s.sent EXCEPT ![n][e.in] = Datum(s, e)]
      /\ Passed(s, r, e) \/ Completed(s, r, e) \/ Collected(s, r, e)
  BY AddNodeStep
<1>2. /\ n \in Nodes /\ e.in \in Inputs /\ InputsOf(n) \subseteq Inputs
      /\ s.stack \in Seq(Items) /\ W \in EntriesOf(n)
      /\ s.sent \in [Nodes -> [Inputs -> Nat]] /\ DOMAIN s.waiting = Nodes
  BY WorkflowFacts DEF States, Records, Leaving, Edges
<1>3. k \in DOMAIN W => W[k][e.in] = 0
  <2>1. CASE n \in Joins
    <3>1. InLayers(n, s.sent[n], s.waiting[n])
      BY <2>1, SenderBefore DEF InStepFrom
    <3> QED BY <2>1, <3>1, LayersAfterAdding
  <2>2. CASE n \notin Joins
    <3>1. DOMAIN W = {}
      BY <1>2, <2>2 DEF States, NoEntries
    <3> QED BY <3>1
  <2> QED BY <2>1, <2>2
<1>4. k \in Nat
  BY <1>2, EntryIndexProperties DEF Into
<1>5. x \in Items /\ x.node = n /\ x.main = Filled(s, e)
  <2>1. Filled(s, e) \in Mains
    BY <1>1, <1>2 DEF Mains
  <2> QED BY <1>2, <2>1 DEF Item, Items
<1>6. \A i : One(Has(x.main, i)) = One(k \in InEntries(W, i)) + One(i = e.in)
  BY <1>3, <1>5, FilledHas
<1>7. \/ r.stack = <<x>> \o s.stack /\ r.waiting = [s.waiting EXCEPT ![n] = Without(W, k)]
      \/ r.stack = <<x>> \o s.stack /\ r.waiting = s.waiting /\ W = NoEntries
      \/ r.stack = s.stack /\ r.waiting = [s.waiting EXCEPT ![n] = Put(W, k, x.main)]
  BY <1>1, <1>2, <1>5 DEF Passed, Completed, Collected, States
<1>8. \A m \in Nodes, i \in Inputs :
        r.sent[m][i] = s.sent[m][i] + One(m = n /\ i = e.in) /\ s.sent[m][i] \in Nat
  BY <1>1, <1>2 DEF Datum, One
<1> HIDE DEF r, n, x, k, W
<1> DEFINE On(q, m, i) == Cardinality(OnStack(q, m, i))
           In(V, i) == Cardinality(InEntries(V, i))
<1>9. \A m, i : /\ On(s.stack, m, i) \in Nat
                /\ On(<<x>> \o s.stack, m, i) = On(s.stack, m, i) + One(x.node = m /\ Has(x.main, i))
  BY <1>2, <1>5, StackCount
<1>10. \A i : /\ In(W, i) \in Nat
              /\ In(Without(W, k), i) = In(W, i) - One(k \in InEntries(W, i))
              /\ In(Put(W, k, x.main), i) = In(W, i) - One(k \in InEntries(W, i)) + One(Has(x.main, i))
  <2>1. x.main \in [InputsOf(n) -> Nat] /\ W \in EntriesOf(n) /\ k \in Nat
    BY <1>1, <1>2, <1>4, <1>5 DEF n
  <2> QED BY <2>1, EntriesCount
<1>11. W = NoEntries => \A i : k \notin InEntries(W, i)
  BY DEF InEntries, NoEntries
<1>12. \A m \in Nodes, i \in Inputs :
         s.sent[m][i] = u[m][i] + (On(s.stack, m, i) + In(s.waiting[m], i)) /\ u[m][i] \in Nat
  BY DEF Balanced
<1> HIDE DEF On, In
<1>13. ASSUME NEW m \in Nodes, NEW i \in Inputs
       PROVE  r.sent[m][i] = u[m][i] + (On(r.stack, m, i) + In(r.waiting[m], i))
  <2>1. CASE m # n
    <3>1. One(m = n /\ i = e.in) = 0 /\ One(x.node = m /\ Has(x.main, i)) = 0
      BY <1>5, <2>1 DEF One
    <3>2. r.waiting[m] = s.waiting[m]
      BY <1>2, <1>7, <2>1
    <3>3. On(r.stack, m, i) = On(s.stack, m, i)
      <4>1. On(<<x>> \o s.stack, m, i) = On(s.stack, m, i)
        BY <1>9, <3>1
      <4> QED BY <1>7, <4>1
    <3>4. r.sent[m][i] = s.sent[m][i]
      BY <1>8, <3>1
    <3> QED BY <1>12, <3>2, <3>3, <3>4
  <2>2. CASE m = n
    <3>1. One(m = n /\ i = e.in) = One(i = e.in) /\ One(x.node = m /\ Has(x.main, i)) = One(Has(x.main, i))
      BY <1>5, <2>2 DEF One
    <3>2. One(i = e.in) \in Nat /\ One(k \in InEntries(W, i)) \in Nat /\ W = s.waiting[n]
      BY DEF One, W
    <3>3. On(s.stack, n, i) \in Nat /\ In(W, i) \in Nat
      BY <1>9, <1>10
    <3>4. One(Has(x.main, i)) = One(k \in InEntries(W, i)) + One(i = e.in)
      BY <1>6
    <3>5. On(<<x>> \o s.stack, n, i) = On(s.stack, n, i) + One(Has(x.main, i))
      BY <1>9, <2>2, <3>1
    <3>6. On(r.stack, n, i) + In(r.waiting[n], i) = On(s.stack, n, i) + In(W, i) + One(i = e.in)
      <4>1. CASE r.stack = <<x>> \o s.stack /\ r.waiting = [s.waiting EXCEPT ![n] = Without(W, k)]
        <5>1. r.waiting[n] = Without(W, k)
          BY <1>2, <4>1
        <5>2. In(r.waiting[n], i) = In(W, i) - One(k \in InEntries(W, i))
          BY <1>10, <5>1
        <5> QED BY <3>2, <3>3, <3>4, <3>5, <4>1, <5>2
      <4>2. CASE r.stack = <<x>> \o s.stack /\ r.waiting = s.waiting /\ W = NoEntries
        <5>1. One(k \in InEntries(W, i)) = 0 /\ r.waiting[n] = W
          BY <1>11, <3>2, <4>2 DEF One
        <5> QED BY <3>2, <3>3, <3>4, <3>5, <4>2, <5>1
      <4>3. CASE r.stack = s.stack /\ r.waiting = [s.waiting EXCEPT ![n] = Put(W, k, x.main)]
        <5>1. r.waiting[n] = Put(W, k, x.main)
          BY <1>2, <4>3
        <5>2. In(r.waiting[n], i) = In(W, i) - One(k \in InEntries(W, i)) + One(Has(x.main, i))
          BY <1>10, <5>1
        <5> QED BY <3>2, <3>3, <3>4, <4>3, <5>2
      <4> QED BY <1>7, <4>1, <4>2, <4>3
    <3> QED BY <1>8, <1>12, <2>2, <3>1, <3>2, <3>3, <3>6
  <2> QED BY <2>1, <2>2
<1> QED BY <1>13 DEF Balanced, On, In, r

\* The same of a release: what is taken out of an entry goes to the stack.
LEMMA BalancedAfterRelease ==
    ASSUME Structured, NEW s \in States, NEW u \in [Nodes -> [Inputs -> Nat]], Balanced(s, u)
    PROVE  Balanced(Release(s), u)
<1> DEFINE r == Release(s)
           On(q, m, i) == Cardinality(OnStack(q, m, i))
           In(V, i) == Cardinality(InEntries(V, i))
<1> SUFFICES ASSUME r # s PROVE Balanced(r, u)
  OBVIOUS
<1>1. PutsOneOnTheStack(s, r) /\ r \in States
  BY ReleaseStep
<1> HIDE DEF r
<1> DEFINE first(n) == Min(DOMAIN s.waiting[n])
<1>2. PICK p \in Range(s.order) :
        /\ s.stack = <<>> /\ first(p) \in DOMAIN s.waiting[p]
        /\ r.stack = <<Item(p, s.waiting[p][first(p)])>>
        /\ r.waiting = [s.waiting EXCEPT ![p] = Without(s.waiting[p], first(p))]
        /\ r.sent = s.sent
  BY <1>1 DEF PutsOneOnTheStack
<1>3. PICK k, W, x : k = first(p) /\ W = s.waiting[p] /\ x = Item(p, W[k])
  OBVIOUS
<1> HIDE DEF first
<1>4. /\ p \in Nodes /\ DOMAIN s.waiting = Nodes /\ W \in EntriesOf(p) /\ s.stack \in Seq(Items)
      /\ InputsOf(p) \subseteq Inputs
  BY <1>3, WorkflowFacts DEF States, Records, Joins
<1>5. k \in DOMAIN W /\ k \in Nat /\ W[k] \in [InputsOf(p) -> Nat]
  <2>1. k \in DOMAIN W
    BY <1>2, <1>3
  <2> QED BY <1>4, <2>1, EntryTypes
<1>6. x \in Items /\ x.node = p /\ x.main = W[k]
  <2>1. W[k] \in Mains
    BY <1>4, <1>5 DEF Mains
  <2> QED BY <1>3, <1>4, <2>1 DEF Item, Items
<1>7. \A m, i : /\ On(s.stack, m, i) \in Nat
                /\ On(<<x>> \o s.stack, m, i) = On(s.stack, m, i) + One(x.node = m /\ Has(x.main, i))
  BY <1>4, <1>6, StackCount
<1>8. r.stack = <<x>> \o s.stack
  BY <1>2, <1>3
<1>9. \A i : /\ In(W, i) \in Nat
             /\ In(Without(W, k), i) = In(W, i) - One(k \in InEntries(W, i))
  <2> TAKE i
  <2>1. PICK main \in [InputsOf(p) -> Nat] : main = W[k]
    BY <1>5
  <2> QED BY <1>4, <1>5, EntriesCount
<1>10. \A i : k \in InEntries(W, i) <=> Has(x.main, i)
  BY <1>5, <1>6 DEF InEntries
<1>11. \A m \in Nodes, i \in Inputs :
         s.sent[m][i] = u[m][i] + (On(s.stack, m, i) + In(s.waiting[m], i)) /\ u[m][i] \in Nat
  BY DEF Balanced
<1> HIDE DEF On, In
<1>12. ASSUME NEW m \in Nodes, NEW i \in Inputs
       PROVE  r.sent[m][i] = u[m][i] + (On(r.stack, m, i) + In(r.waiting[m], i))
  <2>1. CASE m # p
    <3>1. One(x.node = m /\ Has(x.main, i)) = 0
      BY <1>6, <2>1 DEF One
    <3>2. r.waiting[m] = s.waiting[m]
      BY <1>2, <1>4, <2>1
    <3>3. On(r.stack, m, i) = On(s.stack, m, i)
      BY <1>7, <1>8, <3>1
    <3> QED BY <1>2, <1>11, <3>2, <3>3
  <2>2. CASE m = p
    <3>1. /\ One(x.node = m /\ Has(x.main, i)) = One(k \in InEntries(W, i))
          /\ One(k \in InEntries(W, i)) \in Nat
      BY <1>6, <1>10, <2>2 DEF One
    <3>2. r.waiting[m] = Without(W, k) /\ s.waiting[m] = W
      BY <1>2, <1>3, <1>4, <2>2
    <3>3. On(r.stack, m, i) = On(s.stack, m, i) + One(k \in InEntries(W, i))
      BY <1>7, <1>8, <3>1
    <3>4. In(r.waiting[m], i) = In(W, i) - One(k \in InEntries(W, i))
      BY <1>9, <3>2
    <3>5. On(s.stack, m, i) \in Nat /\ In(W, i) \in Nat
      BY <1>7, <1>9
    <3> QED BY <1>2, <1>11, <3>1, <3>2, <3>3, <3>4, <3>5
  <2> QED BY <2>1, <2>2
<1> QED BY <1>12 DEF Balanced, On, In

\* The item a turn takes is used.
LEMMA BalancedOnceTaken ==
    ASSUME TypeInv, Turn, Use, Balanced(Now, used)
    PROVE  Balanced(Taken, used') /\ used' \in [Nodes -> [Inputs -> Nat]]
<1>1. PICK x : x = Top
  OBVIOUS
<1>2. PICK u : u = used'
  OBVIOUS
<1>3. Taken \in States /\ x \in Items /\ x.node \in Nodes /\ stack = <<x>> \o Tail(stack)
  BY <1>1, TakenTypes
<1>4. Tail(stack) \in Seq(Items)
  BY <1>3 DEF States, Records, Taken
<1>5. used \in [Nodes -> [Inputs -> Nat]]
  BY DEF TypeInv
<1>7. /\ u \in [Nodes -> [Inputs -> Nat]]
      /\ \A n \in Nodes, i \in Inputs : u[n][i] = used[n][i] + One(x.node = n /\ Has(x.main, i))
  BY <1>1, <1>2, UseTypes DEF One, Has
<1> DEFINE On(q, n, i) == Cardinality(OnStack(q, n, i))
           In(n, i) == Cardinality(InEntries(waiting[n], i))
<1>8. \A n, i : /\ On(Tail(stack), n, i) \in Nat
                /\ On(stack, n, i) = On(Tail(stack), n, i) + One(x.node = n /\ Has(x.main, i))
  <2> TAKE n, i
  <2>1. PICK q \in Seq(Items) : q = Tail(stack)
    BY <1>4
  <2>2. On(q, n, i) \in Nat /\ On(<<x>> \o q, n, i) = On(q, n, i) + One(x.node = n /\ Has(x.main, i))
    BY <1>3, StackCount
  <2>3. stack = <<x>> \o q
    BY <1>3, <2>1
  <2> HIDE DEF On
  <2> QED BY <2>1, <2>2, <2>3
<1>9. \A n \in Nodes, i \in Inputs : sent[n][i] = used[n][i] + (On(stack, n, i) + In(n, i))
  BY DEF Balanced, Now
<1>10. \A n \in Nodes : \A i : In(n, i) \in Nat
  <2> TAKE n \in Nodes
  <2> TAKE i
  <2>1. waiting[n] \in EntriesOf(n)
    BY DEF TypeInv, States, Now
  <2>2. IsFiniteSet(DOMAIN waiting[n]) /\ InEntries(waiting[n], i) \subseteq DOMAIN waiting[n]
    BY <2>1, EntryTypes DEF InEntries
  <2> QED BY <2>2, FS_Subset, FS_CardinalityType
<1> HIDE DEF On, In
<1>11. ASSUME NEW n \in Nodes, NEW i \in Inputs
       PROVE  sent[n][i] = u[n][i] + (On(Tail(stack), n, i) + In(n, i))
  <2>1. used[n][i] \in Nat /\ One(x.node = n /\ Has(x.main, i)) \in Nat
    BY <1>5 DEF One
  <2>2. u[n][i] = used[n][i] + One(x.node = n /\ Has(x.main, i))
    BY <1>7
  <2>3. /\ On(Tail(stack), n, i) \in Nat /\ In(n, i) \in Nat
        /\ On(stack, n, i) = On(Tail(stack), n, i) + One(x.node = n /\ Has(x.main, i))
    BY <1>8, <1>10
  <2> QED BY <1>9, <2>1, <2>2, <2>3
<1>12. Balanced(Taken, u)
  BY <1>11 DEF Balanced, Taken, On, In
<1> QED BY <1>2, <1>7, <1>12

\* Of every datum that was sent is known where it is, as long as none is overwritten.
BalanceInv == UpToTwo(sent) => Balanced(Now, used)

\* Every step keeps the balance.
LEMMA BalanceInvHolds ==
    ASSUME NoJoinOnALoop
    PROVE  Spec => []BalanceInv
<1>1. TypeInv /\ Init => BalanceInv
  <2> SUFFICES ASSUME TypeInv, Init PROVE Balanced(Now, used)
    BY DEF BalanceInv
  <2>1. /\ stack = <<Item(Start, [i \in {0} |-> 1])>>
        /\ waiting = [n \in Nodes |-> NoEntries]
        /\ sent = [Nothing EXCEPT ![Start][0] = 1] /\ used = Nothing
    BY DEF Init
  <2> SUFFICES ASSUME NEW n \in Nodes, NEW i \in Inputs
               PROVE  sent[n][i] = used[n][i] + (Cardinality(OnStack(stack, n, i))
                                                  + Cardinality(InEntries(waiting[n], i)))
    BY DEF Balanced, Now
  <2>2. InEntries(waiting[n], i) = {}
    BY <2>1 DEF InEntries, NoEntries
  <2>3. OnStack(stack, n, i) = IF n = Start /\ i = 0 THEN {1} ELSE {}
    <3>1. DOMAIN stack = {1} /\ stack[1].node = Start /\ stack[1].main = [j \in {0} |-> 1]
      BY <2>1 DEF Item
    <3>2. Has(stack[1].main, i) <=> i = 0
      BY <3>1 DEF Has
    <3> QED BY <3>1, <3>2 DEF OnStack
  <2>4. used[n][i] = 0 /\ sent[n][i] = IF n = Start /\ i = 0 THEN 1 ELSE 0
    BY <2>1 DEF Nothing
  <2>5. Cardinality({}) = 0 /\ Cardinality({1}) = 1
    BY FS_EmptySet, FS_Singleton
  <2> QED BY <2>2, <2>3, <2>4, <2>5
<1>2. TypeInv /\ LayersInv /\ BalanceInv /\ [Next]_vars => BalanceInv'
  <2> SUFFICES ASSUME TypeInv, LayersInv, BalanceInv, [Next]_vars PROVE BalanceInv'
    OBVIOUS
  <2>1. Structured /\ workflow' = workflow
    BY Steps DEF TypeInv
  <2>2. PICK s, u : s = Now' /\ u = used'
    OBVIOUS
  <2>3. BalanceInv' <=> (UpToTwo(s.sent) => Balanced(s, u))
    <3>1. Joins' = Joins
      BY <2>1, WorkflowStays
    <3>2. sent' = s.sent
      BY <2>2 DEF Now
    <3>3. UpToTwo(sent)' <=> UpToTwo(s.sent)
      BY <3>1, <3>2 DEF UpToTwo
    <3>4. Balanced(Now, used)' <=> Balanced(s, u)
      BY <2>2 DEF Balanced
    <3> QED BY <3>3, <3>4 DEF BalanceInv
  <2>4. CASE NodeRuns
    <3>1. PICK outputs : s = Release(Deliver(Top.node, outputs)) /\ Turn /\ Use
      BY <2>2, <2>4 DEF NodeRuns
    <3>2. PICK t : t = Top.node
      OBVIOUS
    <3>3. t \in Nodes /\ Taken \in States
      BY <3>1, <3>2, TakenTypes
    <3>4. UpToTwo(Taken.sent) => InStepFrom(Taken, t) /\ Balanced(Taken, u)
      <4>1. UpToTwo(Taken.sent) => Balanced(Now, used)
        BY DEF BalanceInv, Taken
      <4> QED BY <2>2, <3>1, <3>2, <4>1, InStepOnceTaken, BalancedOnceTaken
    <3>5. u \in [Nodes -> [Inputs -> Nat]]
      BY <2>2, <3>1, UseTypes
    <3> DEFINE I == {d \in States : UpToTwo(d.sent) => InStepFrom(d, t) /\ Balanced(d, u)}
    <3>6. Taken \in I
      BY <3>3, <3>4
    <3>7. ASSUME NEW d \in I, NEW e \in Leaving(t) PROVE AddNodeToBeExecuted(d, e) \in I
      <4>1. d \in States /\ AddNodeToBeExecuted(d, e) \in States
        BY <2>1, <3>3, AddNodeStep
      <4>2. ASSUME UpToTwo(AddNodeToBeExecuted(d, e).sent)
            PROVE  InStepFrom(AddNodeToBeExecuted(d, e), t) /\ Balanced(AddNodeToBeExecuted(d, e), u)
        <5>1. InStepFrom(d, t) /\ Balanced(d, u)
          BY <2>1, <3>3, <4>1, <4>2, SentGrows
        <5>2. InStepFrom(AddNodeToBeExecuted(d, e), t)
          BY <2>1, <3>3, <4>1, <4>2, <5>1, InStepAfterAdding
        <5>3. Balanced(AddNodeToBeExecuted(d, e), u)
          BY <2>1, <3>3, <3>5, <4>1, <4>2, <5>1, BalancedAfterAdding
        <5> QED BY <5>2, <5>3
      <4> QED BY <4>1, <4>2
    <3> HIDE DEF I
    <3>8. Deliver(t, outputs) \in I
      BY <2>1, <3>3, <3>6, <3>7, DeliverKeeps
    <3>9. PICK d \in States : d = Deliver(t, outputs) /\ (UpToTwo(d.sent) => Balanced(d, u))
      BY <3>8 DEF I
    <3>10. s = Release(d) /\ s.sent = d.sent
      BY <2>1, <3>1, <3>2, <3>9, ReleaseStep DEF PutsOneOnTheStack
    <3>11. Balanced(d, u) => Balanced(s, u)
      BY <2>1, <3>5, <3>9, <3>10, BalancedAfterRelease
    <3> QED BY <2>3, <3>9, <3>10, <3>11
  <2>5. CASE TurnEnds
    <3>1. Turn /\ Use /\ s = Taken
      BY <2>2, <2>5 DEF TurnEnds
    <3>2. UpToTwo(s.sent) => Balanced(Now, used)
      BY <3>1 DEF BalanceInv, Taken
    <3> QED BY <2>2, <2>3, <3>1, <3>2, BalancedOnceTaken
  <2>6. CASE Resumes
    <3>1. /\ s.waiting = waiting /\ s.sent = sent /\ u = used
          /\ DOMAIN s.stack = DOMAIN stack
          /\ \A k \in DOMAIN stack : s.stack[k].node = stack[k].node /\ s.stack[k].main = stack[k].main
      <4>1. PICK node : stack' = [k \in DOMAIN stack |->
              IF stack[k].node = node THEN [stack[k] EXCEPT !.disabled = TRUE] ELSE stack[k]]
        BY <2>6 DEF Resumes
      <4>2. \A x \in Items : /\ [x EXCEPT !.disabled = TRUE].node = x.node
                             /\ [x EXCEPT !.disabled = TRUE].main = x.main
        BY DEF Items
      <4>3. \A k \in DOMAIN stack : stack[k] \in Items
        BY StackTypes
      <4> QED BY <2>2, <2>6, <4>1, <4>2, <4>3 DEF Resumes, history, Now
    <3>2. \A n, i : OnStack(s.stack, n, i) = OnStack(stack, n, i)
      BY <3>1 DEF OnStack
    <3>3. Balanced(Now, used) => Balanced(s, u)
      BY <3>1, <3>2 DEF Balanced, Now
    <3> QED BY <2>3, <3>1, <3>3 DEF BalanceInv
  <2>7. CASE StatusChanges
    <3>1. s = Now /\ u = used
      BY <2>2, <2>7 DEF StatusChanges, data, history, Now
    <3> QED BY <2>3, <3>1 DEF BalanceInv, Now
  <2> QED BY <2>4, <2>5, <2>6, <2>7, Steps
<1> QED BY <1>1, <1>2, TypeInvHolds, LayersInvHolds, PTL DEF Spec

\* A datum that was sent to an input of a node is on the stack, waits in an entry, or the
\* node was run with it, in an execution of a workflow in which no node with several inputs
\* is on a loop and none of their inputs gets a third datum.
THEOREM DataAreKept ==
    ASSUME NoJoinOnALoop
    PROVE  Spec => [](UpToTwo(sent) => NothingLost)
<1>1. TypeInv /\ BalanceInv => (UpToTwo(sent) => NothingLost)
  BY DEF BalanceInv, Balanced, NothingLost, Count, OnStack, InEntries, Has, Now
<1> QED BY <1>1, TypeInvHolds, BalanceInvHolds, PTL

=============================================================================
