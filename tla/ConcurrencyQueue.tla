--------------------------- MODULE ConcurrencyQueue ---------------------------
(***************************************************************************)
(* The in-process queue behind n8n's concurrency limit                     *)
(* (packages/cli/src/concurrency/concurrency-queue.ts).                    *)
(*                                                                         *)
(* A caller of `throttle` takes a unit of `capacity`, which may go         *)
(* negative; a caller that drove it below zero waits on a promise kept in  *)
(* `queue`.  `release` and `remove` give a unit back and resolve the       *)
(* oldest promise.  A call is distinct from the execution it is made for:  *)
(* two resumes of one execution wait under the same execution id, and      *)
(* `remove` looks its entry up by that id.                                 *)
(*                                                                         *)
(* `holders` is the set of calls whose promise has resolved and that have  *)
(* not released yet.  The code does not store it: it is who is past the    *)
(* `await throttle(...)`.                                                  *)
(***************************************************************************)
EXTENDS Integers, FiniteSets, SequencesExt

CONSTANTS
    Calls,          \* the calls of throttle
    Executions,     \* the execution ids they are made for
    ExecutionOf,    \* the execution id of a call
    Limit           \* the configured limit, a positive number

ASSUME CallsAssumption == IsFiniteSet(Calls) /\ ExecutionOf \in [Calls -> Executions]

\* normaliseLimit rejects 0, and a limit of -1 builds no queue at all.
ASSUME LimitAssumption == Limit \in Nat \ {0}

VARIABLES
    capacity,       \* this.capacity
    queue,          \* this.queue, oldest first
    holders         \* calls admitted and not released

queueVars == <<capacity, queue, holders>>

QueueInit ==
    /\ capacity = Limit
    /\ queue = <<>>
    /\ holders = {}

-----------------------------------------------------------------------------
(* The operations of the queue.                                            *)

\* The queue has an entry for execution e.
HasQueued(e) == \E i \in 1..Len(queue) : ExecutionOf[queue[i]] = e

\* Bug: pop() in place of shift(), so the newest waiter goes first.
ResolveNewest(q, h) ==
    /\ queue' = IF q = <<>> THEN q ELSE Front(q)
    /\ holders' = IF q = <<>> THEN h ELSE h \cup {Last(q)}

\* What shift() leaves: the oldest entry of q, if any, is admitted next to h.
ResolveNext(q, h) ==
    /\ queue' = IF q = <<>> THEN q ELSE Tail(q)
    /\ holders' = IF q = <<>> THEN h ELSE h \cup {Head(q)}

Enqueue(c) ==
    /\ capacity' = capacity - 1
    /\ IF capacity' < 0
       THEN queue' = Append(queue, c) /\ UNCHANGED holders
       ELSE holders' = holders \cup {c} /\ UNCHANGED queue

\* Bug: the unit is not given back.
DequeueKeepsCapacity(c) ==
    /\ UNCHANGED capacity
    /\ ResolveNext(queue, holders \ {c})

\* Bug: the unit is given back and nobody is resolved.
DequeueResolvesNobody(c) ==
    /\ capacity' = capacity + 1
    /\ holders' = holders \ {c}
    /\ UNCHANGED queue

Dequeue(c) ==
    /\ capacity' = capacity + 1
    /\ ResolveNext(queue, holders \ {c})

\* Remove the entry at index i, the first one made for execution e.
RemoveEntry(e, i) ==
    /\ ExecutionOf[queue[i]] = e
    /\ \A j \in 1..(i - 1) : ExecutionOf[queue[j]] # e
    /\ capacity' = capacity + 1
    /\ ResolveNext(RemoveAt(queue, i), holders)

RemoveQueued(e) == \E i \in 1..Len(queue) : RemoveEntry(e, i)

-----------------------------------------------------------------------------
(* The queue on its own: callers throttle and release, and a stop or a     *)
(* delete request removes an execution that still waits.                   *)

Waiting == {queue[i] : i \in 1..Len(queue)}

Throttle(c) == c \notin holders \cup Waiting /\ Enqueue(c)

Release(c) == c \in holders /\ Dequeue(c)

Next ==
    \/ \E c \in Calls : Throttle(c) \/ Release(c)
    \/ \E e \in Executions : RemoveQueued(e)

Spec == QueueInit /\ [][Next]_queueVars

\* A run that was admitted ends, so it releases what it holds.
FairSpec == Spec /\ \A c \in Calls : WF_queueVars(Release(c))

-----------------------------------------------------------------------------
(* Properties.                                                             *)

TypeOK ==
    /\ capacity \in Int
    /\ queue \in Seq(Calls)
    /\ holders \in SUBSET Calls

\* No call waits twice, and none waits while it holds a slot: what a queue of
\* promises that each resolve at most once relies on.
NoDuplicateWait ==
    /\ \A i, j \in 1..Len(queue) : queue[i] = queue[j] => i = j
    /\ Waiting \cap holders = {}

\* Every unit of capacity is accounted for by a call that holds it or waits
\* for it: enqueue, dequeue and remove neither lose nor invent capacity.
SlotAccounting == capacity = Limit - Len(queue) - Cardinality(holders)

\* Nobody waits while a slot is free: dequeue and remove always hand a freed
\* unit on to the oldest waiter.
NoIdleSlot == queue # <<>> => Cardinality(holders) >= Limit

\* Calls are admitted in the order they arrived: a waiting call is admitted
\* only by a step that leaves nobody waiting ahead of it.
AdmittedInOrder ==
    [][\A i, j \in 1..Len(queue) :
           i < j /\ queue[j] \in holders' => queue[i] \notin {queue'[k] : k \in 1..Len(queue')}]_queueVars

\* Whoever waits is eventually admitted or removed, as long as those admitted
\* eventually release.
WaitEnds == \A c \in Calls : c \in Waiting ~> c \notin Waiting

=============================================================================
