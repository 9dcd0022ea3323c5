-------------------------- MODULE MCWorkflowExecute --------------------------
EXTENDS WorkflowExecute

\* Nodes by their place on the canvas: start, a, m, b, n; a has two outputs, m and n have
\* two inputs, a and b one.
Edge(from, out, to, in) == [from |-> from, out |-> out, to |-> to, in |-> in]

\* An edge to one of the inputs of a node, or none.
To(from, out, n) == {{}, {Edge(from, out, n, 0)}, {Edge(from, out, n, 1)}}

BothInputs(edges, n) == {0, 1} \subseteq {e.in : e \in {d \in edges : d.to = n}}

Graphs ==
    {({Edge(1, 0, 2, 0)} \cup b \cup c \cup m1 \cup m2 \cup m4 \cup n) :
       b \in {{}, {Edge(1, 0, 4, 0)}}, c \in {{}, {Edge(2, 0, 4, 0)}},
       m1 \in To(1, 0, 3), m2 \in To(2, 1, 3), m4 \in To(4, 0, 3),
       n \in {{}, {Edge(3, 0, 5, 0), Edge(4, 0, 5, 1)}, {Edge(3, 0, 5, 1), Edge(4, 0, 5, 0)}}}

\* How often a node can run, and how many data an input can get.
Runs(edges) ==
    LET runs[n \in 1..5] ==
          IF n = 1 THEN 1
          ELSE LET sum(i) == LET from == {e \in edges : e.to = n /\ e.in = i}
                             IN FoldSet(LAMBDA e, acc : acc + runs[e.from], 0, from)
               IN Max({sum(0), sum(1)})
    IN runs
Deliveries(edges, n, i) ==
    LET runs == Runs(edges)
    IN FoldSet(LAMBDA e, acc : acc + runs[e.from], 0, {e \in edges : e.to = n /\ e.in = i})

\* No input of a node with two gets more than two data.
UpToTwo(edges) == \A n \in {3, 5}, i \in {0, 1} : Deliveries(edges, n, i) <= 2

MCWorkflows ==
    {[edges |-> g, requireAll |-> r] :
       g \in {h \in Graphs : BothInputs(h, 3) /\ UpToTwo(h)}, r \in {{}, {3}}}

\* Four branches from the start: three to one input of a node with two, the one in third
\* place to the other.
FourBranches ==
    {[edges |-> {Edge(1, 0, n, 0) : n \in 2..5}
                \cup {Edge(n, 0, 6, IF n = 4 THEN 1 ELSE 0) : n \in 2..5},
      requireAll |-> {}]}
=============================================================================
