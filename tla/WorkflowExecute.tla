--------------------------- MODULE WorkflowExecute ---------------------------
(***************************************************************************)
(* The execution engine: the loop of processRunExecutionData and the       *)
(* bookkeeping of addNodeToBeExecuted, with execution order v1             *)
(* (packages/core/src/execution-engine/workflow-execute.ts).               *)
(*                                                                         *)
(* A node with one input is put on the stack as soon as it gets data.  A   *)
(* node with several waits in waitingExecution, in entries that collect    *)
(* one datum per input; an entry that is complete goes to the stack, and   *)
(* when the stack runs empty a node that can do without is released with   *)
(* what it has.  Of the data only its place in the order of arrival at an  *)
(* input is kept: 1 for the first, 0 for none.  A node is a number, which  *)
(* is its place on the canvas from the top.                                *)
(***************************************************************************)
EXTENDS Naturals, Sequences, FiniteSets, SequencesExt

CONSTANTS
    Nodes,
    Start,          \* the node an execution starts with
    None,
    Workflows,      \* records: edges, and the nodes that require all inputs
    Waiters,        \* nodes that may put the execution to wait
    MaxWaits        \* bound: how often one does

Inputs == 0..2
Edges == [from : Nodes, out : Inputs, to : Nodes, in : Inputs]

ASSUME EngineAssumption ==
    /\ Nodes \subseteq Nat /\ IsFiniteSet(Nodes) /\ Start \in Nodes /\ None \notin Nodes
    /\ Waiters \subseteq Nodes /\ MaxWaits \in Nat
    /\ \A w \in Workflows : w.edges \subseteq Edges /\ w.requireAll \subseteq Nodes

\* getParentNodes: all nodes before a node, those in every set that has the node and,
\* with a node, what is connected to it.
Parents(edges, n) ==
    LET Closed(S) == n \in S /\ \A e \in edges : e.to \in S => e.from \in S
    IN {m \in Nodes : \A S \in SUBSET Nodes : Closed(S) => m \in S} \ {n}

\* nodesToAdd.sort: the lowest node first, so that the highest ends on top of the stack.
Before(d, e) ==
    \/ d.to > e.to
    \/ d.to = e.to /\ d.out < e.out
    \/ d.to = e.to /\ d.out = e.out /\ d.in < e.in

\* The connections that leave a node, in the order in which their data are passed on.
Connections(edges, n) ==
    LET leaving == {e \in edges : e.from = n}
        Rank(e) == Cardinality({d \in leaving : Before(d, e)}) + 1
    IN [k \in 1..Cardinality(leaving) |-> CHOOSE e \in leaving : Rank(e) = k]

NumberOfInputs(edges, n) ==
    LET connected == {e.in : e \in {d \in edges : d.to = n}}
    IN IF connected = {} THEN 0 ELSE Max(connected) + 1

VARIABLES
    workflow,
    destination,    \* startData.destinationNode
    filter,         \* startData.runNodeFilter
    stack,          \* nodeExecutionStack
    waiting,        \* waitingExecution: per node, its entries by index
    order,          \* the keys of waitingExecution, oldest first
    status,
    sent,           \* history: how many data an input was sent
    used,           \* history: how many of them a node was run with or skipped
    looked,         \* history: the last turn of the loop looked at who waits
    waits

data == <<stack, waiting, order>>
history == <<sent, used>>
vars == <<workflow, destination, filter, data, history, status, looked, waits>>

NoEntries == [i \in {} |-> 0]

TypeOK ==
    /\ destination \in Nodes \cup {None} /\ filter \subseteq Nodes
    /\ \A k \in DOMAIN stack : /\ stack[k].node \in Nodes /\ stack[k].disabled \in BOOLEAN
                               /\ DOMAIN stack[k].main \subseteq Inputs
    /\ DOMAIN waiting = Nodes
    /\ Range(order) = {n \in Nodes : waiting[n] # NoEntries} /\ IsInjective(order)
    /\ status \in {"running", "waiting", "success", "error", "canceled"}
    /\ sent \in [Nodes -> [Inputs -> Nat]] /\ used \in [Nodes -> [Inputs -> Nat]]
    /\ looked \in BOOLEAN /\ waits \in 0..MaxWaits

Item(n, main) == [node |-> n, main |-> main, disabled |-> FALSE]

Nothing == [n \in Nodes |-> [i \in Inputs |-> 0]]

\* run: everything, or what leads to a destination, with or without it.
Init ==
    /\ \E w \in Workflows :
         workflow = [connections |-> [n \in Nodes |-> Connections(w.edges, n)],
                     parents |-> [n \in Nodes |-> Parents(w.edges, n)],
                     inputs |-> [n \in Nodes |-> NumberOfInputs(w.edges, n)],
                     requireAll |-> w.requireAll]
    /\ \/ destination = None /\ filter = Nodes
       \/ /\ destination \in Nodes
          /\ filter \in {workflow.parents[destination], workflow.parents[destination] \cup {destination}}
    /\ stack = <<Item(Start, [i \in {0} |-> 1])>>
    /\ waiting = [n \in Nodes |-> NoEntries] /\ order = <<>>
    /\ sent = [Nothing EXCEPT ![Start][0] = 1] /\ used = Nothing
    /\ status = "running" /\ looked = FALSE /\ waits = 0

-----------------------------------------------------------------------------
(* addNodeToBeExecuted, on the stack, the entries, their order and sent.   *)

\* Bug: a node whose last entry is taken stays among the keys.
SetEntriesOnly(s, n, entries) ==
    [s EXCEPT !.waiting[n] = entries,
              !.order = IF n \in Range(@) THEN @ ELSE Append(@, n)]

Place(keys, n) == CHOOSE k \in DOMAIN keys : keys[k] = n

\* Keys in the order of insertion: a node that has entries again comes last.
SetEntries(s, n, entries) ==
    [s EXCEPT !.waiting[n] = entries,
              !.order = IF entries # NoEntries <=> n \in Range(@) THEN @
                        ELSE IF n \in Range(@) THEN RemoveAt(@, Place(@, n))
                        ELSE Append(@, n)]

\* Bug: the datum goes to the newest entry that misses it.
NewestEntry(entries, input) ==
    LET open == {i \in DOMAIN entries : entries[i][input] = 0}
    IN IF open # {} THEN Max(open) ELSE Cardinality(DOMAIN entries)

\* The index of the entry a datum goes to: the first that misses it, or as many as
\* there are, which is a new index as long as those in use have no gap.
EntryIndex(entries, input) ==
    LET open == {i \in DOMAIN entries : entries[i][input] = 0}
    IN IF open # {} THEN Min(open) ELSE Cardinality(DOMAIN entries)

\* Bug: what else the node collected goes with a complete entry.
WithoutNode(entries, index) == NoEntries

Without(entries, index) == Restrict(entries, DOMAIN entries \ {index})

AddNodeToBeExecuted(s, e) ==
    LET n == e.to
        datum == s.sent[n][e.in] + 1
        entries == s.waiting[n]
        index == EntryIndex(entries, e.in)
        missing == [i \in 0 .. workflow.inputs[n] - 1 |-> 0]
        entry == IF index \in DOMAIN entries /\ entries[index][e.in] = 0
                 THEN entries[index] ELSE missing
        main == [entry EXCEPT ![e.in] = datum]
        counted == [s EXCEPT !.sent[n][e.in] = datum]
        pushed == [counted EXCEPT !.stack = <<Item(n, main)>> \o @]
    IN IF workflow.inputs[n] <= 1 THEN pushed
       ELSE IF \A i \in DOMAIN main : main[i] # 0
       THEN SetEntries(pushed, n, Without(entries, index))
       ELSE SetEntries(counted, n, [i \in DOMAIN entries \cup {index} |->
                                      IF i = index THEN main ELSE entries[i]])

\* A node has run with data for these outputs, which go out over the connections of each.
Deliver(n, outputs) ==
    LET edges == workflow.connections[n]
        after[k \in 0..Len(edges)] ==
          IF k = 0 THEN [stack |-> Tail(stack), waiting |-> waiting, order |-> order, sent |-> sent]
          ELSE IF edges[k].out \in outputs THEN AddNodeToBeExecuted(after[k - 1], edges[k])
          ELSE after[k - 1]
    IN after[Len(edges)]

\* Who may run with what it has: a node that does not require all inputs, none of whose
\* parents waits.
Releasable(s, n) ==
    n \notin workflow.requireAll /\ workflow.parents[n] \cap Range(s.order) = {}

\* When the stack is empty, the first such node is put on it with its oldest entry.
Release(s) ==
    LET ready == {k \in DOMAIN s.order : Releasable(s, s.order[k])}
        n == s.order[Min(ready)]
        first == Min(DOMAIN s.waiting[n])
    IN IF s.stack # <<>> \/ ready = {} THEN s
       ELSE SetEntries([s EXCEPT !.stack = <<Item(n, s.waiting[n][first])>>],
                       n, Without(s.waiting[n], first))

-----------------------------------------------------------------------------
(* Turns of the execution loop.                                            *)

Top == stack[1]
Turn == status = "running" /\ stack # <<>>

Use ==
    used' = [used EXCEPT ![Top.node] = [i \in Inputs |->
               @[i] + IF i \in DOMAIN Top.main /\ Top.main[i] # 0 THEN 1 ELSE 0]]

\* A turn that ends with continue: nobody looks at the nodes that wait.
Continue ==
    /\ Use
    /\ stack' = Tail(stack)
    /\ looked' = FALSE
    /\ UNCHANGED <<workflow, destination, filter, waiting, order, sent, status, waits>>

\* A node outside the filter is skipped.
Skip == Turn /\ Top.node \notin filter /\ Continue

\* A node that returns null ends its branch.
ReturnNull == Turn /\ Top.node \in filter /\ ~Top.disabled /\ Continue

\* The node that is the destination ends its branch as well.
Reach == Turn /\ Top.node \in filter /\ Top.node = destination /\ Continue

\* What a node puts out: anything; a disabled one passes its first input on.
Outputs(item) ==
    IF item.disabled THEN {{i \in {0} : item.main[i] # 0}}
    ELSE SUBSET {e.out : e \in Range(workflow.connections[item.node])}

\* Bug: the stack is empty and nobody looks at the nodes that wait.
RunNodeOnly ==
    /\ Turn /\ Top.node \in filter \ {destination}
    /\ \E s \in {Deliver(Top.node, outputs) : outputs \in Outputs(Top)} :
         stack' = s.stack /\ waiting' = s.waiting /\ order' = s.order /\ sent' = s.sent
    /\ Use
    /\ looked' = TRUE
    /\ UNCHANGED <<workflow, destination, filter, status, waits>>

RunNode ==
    /\ Turn /\ Top.node \in filter \ {destination}
    /\ \E s \in {Release(Deliver(Top.node, outputs)) : outputs \in Outputs(Top)} :
         stack' = s.stack /\ waiting' = s.waiting /\ order' = s.order /\ sent' = s.sent
    /\ Use
    /\ looked' = TRUE
    /\ UNCHANGED <<workflow, destination, filter, status, waits>>

\* waitTill is set: the node stays on the stack, to be resumed.
PutToWait ==
    /\ Turn /\ Top.node \in filter \cap Waiters /\ ~Top.disabled /\ waits < MaxWaits
    /\ waits' = waits + 1
    /\ status' = "waiting"
    /\ UNCHANGED <<workflow, destination, filter, data, history, looked>>

\* handleWaitingState: the node of the first item is disabled; items that were saved
\* together share the node.
Resume ==
    /\ status = "waiting"
    /\ status' = "running"
    /\ stack' = [k \in DOMAIN stack |->
                   IF stack[k].node = Top.node THEN [stack[k] EXCEPT !.disabled = TRUE] ELSE stack[k]]
    /\ UNCHANGED <<workflow, destination, filter, waiting, order, history, looked, waits>>

\* A node that fails and does not continue stays on the stack, for a retry.
Fail ==
    /\ Turn /\ Top.node \in filter /\ ~Top.disabled
    /\ status' = "error"
    /\ UNCHANGED <<workflow, destination, filter, data, history, looked, waits>>

Cancel ==
    /\ status = "running"
    /\ status' = "canceled"
    /\ UNCHANGED <<workflow, destination, filter, data, history, looked, waits>>

\* processSuccessExecution.
Finish ==
    /\ status = "running" /\ stack = <<>>
    /\ status' = "success"
    /\ UNCHANGED <<workflow, destination, filter, data, history, looked, waits>>

Step == Skip \/ ReturnNull \/ Reach \/ RunNode \/ PutToWait \/ Resume \/ Fail \/ Finish

Next == Step \/ Cancel

Spec == Init /\ [][Next]_vars

-----------------------------------------------------------------------------
(* Properties.                                                             *)

Count(n, i) ==
    Cardinality({k \in DOMAIN stack :
                   stack[k].node = n /\ i \in DOMAIN stack[k].main /\ stack[k].main[i] # 0})
      + Cardinality({k \in DOMAIN waiting[n] : i \in DOMAIN waiting[n][k] /\ waiting[n][k][i] # 0})

\* A datum that was sent to an input of a node is on the stack, waits in an entry, or
\* the node was run with it: addNodeToBeExecuted loses none.
NothingLost ==
    \A n \in Nodes, i \in Inputs : sent[n][i] = used[n][i] + Count(n, i)

\* The data a node with several inputs is run with belong together: the k-th datum of
\* one input is combined with the k-th of the others, whatever the order in which the
\* branches deliver.
Paired ==
    \A main \in {stack[k].main : k \in DOMAIN stack} \cup UNION {Range(waiting[n]) : n \in Nodes} :
      \A i, j \in DOMAIN main :
      main[i] # 0 /\ main[j] # 0 => main[i] = main[j]

\* When an execution succeeds, no node is left waiting with data unless it requires
\* all its inputs or comes after one that does; except when the last turn of the loop
\* ended early (a node outside the filter, the destination, or one that returned null).
Released ==
    status = "success" /\ looked =>
      \A n \in Range(order) : ({n} \cup workflow.parents[n]) \cap workflow.requireAll \cap Range(order) # {}

=============================================================================
