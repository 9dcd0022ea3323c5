-------------------------- MODULE WorkflowActivation --------------------------
(***************************************************************************)
(* Activating and deactivating one workflow on one or several main         *)
(* processes (packages/cli/src/active-workflow-manager.ts, the activation  *)
(* methods of workflows/workflow.service.ts and n8n-core's                 *)
(* active-workflow-triggers.ts).                                           *)
(*                                                                         *)
(* The database says which version is active; the triggers that listen     *)
(* live in the memory of the leader.  A user's request, the leader's       *)
(* handlers of pub/sub commands, the activation of everything at start-up  *)
(* or takeover, a queue of retries and triggers that fail all change them, *)
(* each over several awaits.  The workflow has one trigger node, which     *)
(* keeps a connection open until its response is closed.                   *)
(***************************************************************************)
EXTENDS Naturals, Sequences, FiniteSets

CONSTANTS
    Mains,
    Versions,
    None,
    Allowed,        \* the races after which the behaviour goes on
    MaxOps,         \* bound: requests of users
    MaxFailures,    \* bound: activations that fail and triggers that break
    MaxChanges,     \* bound: leaders that step down, mains that crash
    MaxRefusals     \* bound: activations the external service refuses

\* What no part of the code guards against, see Happens.
Races == {"overlap", "demoted", "skipped", "midway", "queued", "inherited", "undone", "refused", "interrupted"}

ASSUME ActivationAssumption ==
    /\ {MaxOps, MaxFailures, MaxChanges, MaxRefusals} \subseteq Nat
    /\ Mains # {} /\ None \notin Mains \cup Versions
    /\ Allowed \subseteq Races

VARIABLES
    multiMain,      \* instanceSettings.isMultiMain
    leader,         \* the main whose instanceSettings.isLeader holds
    active,         \* the workflow's activeVersionId in the database
    registered,     \* per main: the version whose trigger its map knows
    orphans,        \* per main: versions with a listening trigger no map knows
    queued,         \* per main: queuedActivations has an entry
    timers,         \* per main: armed retries, and whether the entry holds them
    bulk,           \* per main: addActiveWorkflows is reading the database
    adds,           \* per main: calls of add in flight
    removals,       \* per main: calls of activeWorkflowTriggers.remove in flight
    inbox,          \* per main: pub/sub commands on their way
    op,             \* the user's request in progress
    races,          \* history: what happened that no part guards against
    ops, failures, changes, refusals

memory == <<registered, orphans, queued, timers, adds, removals>>
bounds == <<ops, failures, changes, refusals>>
vars == <<multiMain, leader, active, memory, bulk, inbox, op, races, bounds>>

AddContexts == {"bulk", "handler", "retry", "user"}
RemoveContexts == {"handler", "stepdown", "failure", "user"}
Data == Versions \cup {None}
NoCall == [step |-> "none"]
Calls == [step : {"prepare", "starting"}, data : Data, lead : BOOLEAN, tracked : BOOLEAN]
NoOp == [step |-> "none"]
Ops == [kind : {"activate", "deactivate"}, main : Mains, version : Data,
        step : {"remove", "removing", "write", "add", "adding"}]

TypeOK ==
    /\ multiMain \in BOOLEAN /\ leader \in Mains \cup {None} /\ active \in Data
    /\ registered \in [Mains -> Data]
    /\ orphans \in [Mains -> SUBSET Versions]
    /\ queued \in [Mains -> BOOLEAN]
    /\ timers \in [Mains -> SUBSET [data : Data, held : BOOLEAN]]
    /\ \A m \in Mains : (\E t \in timers[m] : t.held) => queued[m]
    /\ bulk \in [Mains -> BOOLEAN]
    /\ adds \in [Mains -> [AddContexts -> Calls \cup {NoCall}]]
    /\ removals \in [Mains -> [RemoveContexts -> {"no", "asked", "closing"}]]
    /\ inbox \in [Mains -> Seq({"add", "remove"})]
    /\ op \in Ops \cup {NoOp}
    /\ races \subseteq Races
    /\ ops \in 0..MaxOps /\ failures \in 0..MaxFailures
    /\ changes \in 0..MaxChanges /\ refusals \in 0..MaxRefusals

\* Every main activates what is stored as active when it starts (init); only the
\* leader adds triggers.
Init ==
    /\ multiMain \in BOOLEAN
    /\ leader = CHOOSE m \in Mains : TRUE
    /\ active \in Data
    /\ registered = [m \in Mains |-> None] /\ orphans = [m \in Mains |-> {}]
    /\ queued = [m \in Mains |-> FALSE] /\ timers = [m \in Mains |-> {}]
    /\ bulk = [m \in Mains |-> multiMain \/ m = leader]
    /\ adds = [m \in Mains |-> [c \in AddContexts |-> NoCall]]
    /\ removals = [m \in Mains |-> [c \in RemoveContexts |-> "no"]]
    /\ inbox = [m \in Mains |-> <<>>]
    /\ op = NoOp /\ races = {}
    /\ ops = 0 /\ failures = 0 /\ changes = 0 /\ refusals = 0

Up == IF multiMain THEN Mains ELSE {leader}

-----------------------------------------------------------------------------
(* Parts of the operations.                                                *)

\* Bug: the entry is deleted and its timer stays set.
UnqueueKeepsTimer(m) == queued' = [queued EXCEPT ![m] = FALSE] /\ UNCHANGED timers

\* removeQueuedWorkflowActivation: only the timer the entry knows is cleared.
Unqueue(m) ==
    /\ queued' = [queued EXCEPT ![m] = FALSE]
    /\ timers' = [timers EXCEPT ![m] = {t \in @ : ~t.held}]

\* addQueuedWorkflowActivation.
Enqueue(m, data) ==
    /\ queued' = [queued EXCEPT ![m] = TRUE]
    /\ timers' = [timers EXCEPT ![m] = {t \in @ : ~t.held} \cup {[data |-> data, held |-> TRUE]}]

\* Bug: a retry that failed is the last one.
RearmNever(m, data) == UNCHANGED <<queued, timers>>

\* A retry that failed sets its timer again, in whatever entry there is now.
Rearm(m, data) ==
    /\ timers' = [timers EXCEPT ![m] =
         IF queued[m] THEN {[t EXCEPT !.held = FALSE] : t \in @} \cup {[data |-> data, held |-> TRUE]}
                      ELSE @]
    /\ UNCHANGED queued

\* add: the caller's data, and isLeader as it is now.
Call(data, m) == [step |-> "prepare", data |-> data, lead |-> leader = m, tracked |-> TRUE]

SetCall(m, c, call) == adds' = [adds EXCEPT ![m][c] = call]

Holders(m) == {c \in AddContexts : adds[m][c].step = "starting" /\ adds[m][c].tracked}

\* activeWorkflowTriggers.remove: returns at once when nothing is active in memory,
\* else closes the response it finds and waits.
BeginRemove(m, c) ==
    /\ removals' = [removals EXCEPT ![m][c] =
         IF registered[m] # None \/ Holders(m) # {} THEN "closing" ELSE "no"]
    /\ registered' = [registered EXCEPT ![m] = None]

\* Then it drops the state object: whoever still adds to it adds to an object that
\* no map knows, and what was added while it closed is closed by nobody.
EndRemove(m, c) ==
    /\ removals[m][c] = "closing"
    /\ removals' = [removals EXCEPT ![m][c] = "no"]
    /\ orphans' = [orphans EXCEPT ![m] = @ \cup ({registered[m]} \ {None})]
    /\ registered' = [registered EXCEPT ![m] = None]
    /\ adds' = [adds EXCEPT ![m] = [d \in AddContexts |->
         IF d \in Holders(m) THEN [@[d] EXCEPT !.tracked = FALSE] ELSE @[d]]]
    /\ UNCHANGED <<multiMain, leader, active, queued, timers, bulk, inbox, op, bounds>>

Publish(command) == inbox' = [m \in Mains |-> Append(inbox[m], command)]

-----------------------------------------------------------------------------
(* ActiveWorkflowManager.add.                                              *)

\* The preparations are over and addTriggers gets or creates the state object.
AddTriggers(m, c) ==
    /\ adds[m][c].step = "prepare" /\ adds[m][c].lead /\ adds[m][c].data # None
    /\ SetCall(m, c, [adds[m][c] EXCEPT !.step = "starting"])
    /\ UNCHANGED <<multiMain, leader, active, registered, orphans, queued, timers, removals, bulk,
                   inbox, op, bounds>>

Completed(m, c) ==
    \/ adds[m][c].step = "starting"
    \/ adds[m][c].step = "prepare" /\ ~adds[m][c].lead /\ adds[m][c].data # None

\* A trigger that listens is known to the map, unless its object was dropped; a
\* response that was there before is replaced, not closed.
Listen(m, call) ==
    IF ~call.lead THEN UNCHANGED <<registered, orphans>>
    ELSE IF call.tracked
    THEN /\ registered' = [registered EXCEPT ![m] = call.data]
         /\ orphans' = [orphans EXCEPT ![m] = @ \cup ({registered[m]} \ {None})]
    ELSE /\ orphans' = [orphans EXCEPT ![m] = @ \cup {call.data}]
         /\ UNCHANGED registered

AddSucceeds(m, c) ==
    /\ Completed(m, c)
    /\ Listen(m, adds[m][c])
    /\ Unqueue(m)
    /\ SetCall(m, c, NoCall)
    /\ op' = IF c = "user" THEN NoOp ELSE op
    /\ UNCHANGED <<multiMain, leader, active, removals, bulk, inbox, bounds>>

\* add throws: for want of an active version, or because something it calls fails.
Throws(m, c) ==
    /\ adds[m][c].step # "none"
    /\ IF adds[m][c].data = None THEN UNCHANGED failures
       ELSE failures < MaxFailures /\ failures' = failures + 1
    /\ SetCall(m, c, NoCall)
    /\ UNCHANGED <<multiMain, leader, registered, orphans, removals, bulk, inbox, ops, changes,
                   refusals>>

\* activateWorkflow, and the retryFunction of the queue.
BulkFails(m) ==
    Throws(m, "bulk") /\ Enqueue(m, adds[m]["bulk"].data) /\ UNCHANGED <<active, op>>

RetryFails(m) ==
    Throws(m, "retry") /\ Rearm(m, adds[m]["retry"].data) /\ UNCHANGED <<active, op>>

\* handleAddWebhooksAndNonWebhookTriggers: what is in the database now is queued when
\* the isolate could not be had; otherwise the workflow is deactivated.
HandlerFails(m) ==
    /\ Throws(m, "handler")
    /\ \/ /\ adds[m]["handler"].step = "prepare" /\ adds[m]["handler"].data # None
          /\ Enqueue(m, active)
          /\ UNCHANGED active
       \/ active' = None /\ UNCHANGED <<queued, timers>>
    /\ UNCHANGED op

\* _addToActiveWorkflowManager rolls back, which is what a deactivation does.
RollBack == op' = [op EXCEPT !.kind = "deactivate", !.version = None, !.step = "remove"]

UserFails(m) == Throws(m, "user") /\ RollBack /\ UNCHANGED <<active, queued, timers>>

\* activateWorkflow of the manager: an authorization error is not retried.
Refused(m) ==
    /\ refusals < MaxRefusals /\ refusals' = refusals + 1
    /\ adds[m]["bulk"].step # "none"
    /\ SetCall(m, "bulk", NoCall)
    /\ UNCHANGED <<multiMain, leader, active, registered, orphans, queued, timers, removals, bulk,
                   inbox, op, ops, failures, changes>>

-----------------------------------------------------------------------------
(* What makes the manager call add and remove.                             *)

BulkInProgress(m) == bulk[m] \/ adds[m]["bulk"] # NoCall

\* addActiveWorkflows has read the database; a workflow without an active version is skipped.
BulkReads(m) ==
    /\ bulk[m]
    /\ bulk' = [bulk EXCEPT ![m] = FALSE]
    /\ IF active = None THEN UNCHANGED adds ELSE SetCall(m, "bulk", Call(active, m))
    /\ UNCHANGED <<multiMain, leader, active, registered, orphans, queued, timers, removals, inbox,
                   op, bounds>>

TimerFires(m) ==
    /\ adds[m]["retry"] = NoCall
    /\ \E t \in timers[m] :
         /\ timers' = [timers EXCEPT ![m] = @ \ {t}]
         /\ SetCall(m, "retry", Call(t.data, m))
    /\ UNCHANGED <<multiMain, leader, active, registered, orphans, queued, removals, bulk, inbox, op,
                   bounds>>

\* emitError of a trigger: it is removed and queued for another activation.
TriggerBreaks(m) ==
    /\ failures < MaxFailures /\ failures' = failures + 1
    /\ registered[m] # None /\ removals[m]["failure"] = "no"
    /\ BeginRemove(m, "failure")
    /\ Enqueue(m, registered[m])
    /\ UNCHANGED <<multiMain, leader, active, orphans, adds, bulk, inbox, op, ops, changes, refusals>>

\* A pub/sub command arrives: only the leader's handlers act on it.
Receive(m) ==
    /\ inbox[m] # <<>>
    /\ inbox' = [inbox EXCEPT ![m] = Tail(@)]
    /\ \/ leader # m /\ UNCHANGED <<adds, removals>>
       \/ /\ leader = m /\ Head(inbox[m]) = "add" /\ adds[m]["handler"] = NoCall
          /\ SetCall(m, "handler", Call(active, m))
          /\ UNCHANGED removals
       \/ /\ leader = m /\ Head(inbox[m]) = "remove" /\ removals[m]["handler"] = "no"
          /\ removals' = [removals EXCEPT ![m]["handler"] = "asked"]
          /\ UNCHANGED adds
    /\ UNCHANGED <<multiMain, leader, active, registered, orphans, queued, timers, bulk, op, bounds>>

\* handleRemoveNonWebhookTriggers, after its first await: it leaves the queue alone.
HandlerRemoves(m) ==
    /\ removals[m]["handler"] = "asked"
    /\ BeginRemove(m, "handler")
    /\ UNCHANGED <<multiMain, leader, active, orphans, queued, timers, adds, bulk, inbox, op, bounds>>

\* remove of a single main: the queue, then the triggers.
UserRemoves(m) ==
    /\ removals[m]["user"] = "asked"
    /\ Unqueue(m)
    /\ BeginRemove(m, "user")
    /\ UNCHANGED <<multiMain, leader, active, orphans, adds, bulk, inbox, op, bounds>>

\* Bug: a leader that steps down forgets its retries only.
StepDownKeepsTriggers(m) ==
    /\ multiMain /\ leader = m /\ changes < MaxChanges /\ changes' = changes + 1
    /\ removals[m]["stepdown"] = "no"
    /\ leader' = None
    /\ Unqueue(m)
    /\ UNCHANGED <<multiMain, active, registered, removals, orphans, adds, bulk, inbox, op, ops,
                   failures, refusals>>

\* removeAllNonWebhookTriggerWorkflows.
StepDown(m) ==
    /\ multiMain /\ leader = m /\ changes < MaxChanges /\ changes' = changes + 1
    /\ removals[m]["stepdown"] = "no"
    /\ leader' = None
    /\ Unqueue(m)
    /\ BeginRemove(m, "stepdown")
    /\ UNCHANGED <<multiMain, active, orphans, adds, bulk, inbox, op, ops, failures, refusals>>

\* addAllNonWebhookTriggerWorkflows: skipped while an activation is in progress.
TakeOver(m) ==
    /\ multiMain /\ leader = None
    /\ leader' = m
    /\ bulk' = [bulk EXCEPT ![m] = @ \/ ~BulkInProgress(m)]
    /\ UNCHANGED <<multiMain, active, memory, inbox, op, bounds>>

\* The process ends with all it had in memory and starts again, as a follower where
\* there are others.
Crash(m) ==
    /\ m \in Up /\ changes < MaxChanges /\ changes' = changes + 1
    /\ leader' = IF multiMain /\ leader = m THEN None ELSE leader
    /\ registered' = [registered EXCEPT ![m] = None] /\ orphans' = [orphans EXCEPT ![m] = {}]
    /\ queued' = [queued EXCEPT ![m] = FALSE] /\ timers' = [timers EXCEPT ![m] = {}]
    /\ adds' = [adds EXCEPT ![m] = [c \in AddContexts |-> NoCall]]
    /\ removals' = [removals EXCEPT ![m] = [c \in RemoveContexts |-> "no"]]
    /\ inbox' = [inbox EXCEPT ![m] = <<>>]
    /\ bulk' = [bulk EXCEPT ![m] = TRUE]
    /\ op' = IF op # NoOp /\ op.main = m THEN NoOp ELSE op
    /\ UNCHANGED <<multiMain, active, ops, failures, refusals>>

-----------------------------------------------------------------------------
(* WorkflowService: a user activates a version or deactivates the workflow. *)

Request(kind, m, v, step) ==
    /\ op = NoOp /\ ops < MaxOps /\ m \in Up
    /\ ops' = ops + 1
    /\ op' = [kind |-> kind, main |-> m, version |-> v, step |-> step]
    /\ UNCHANGED <<multiMain, leader, active, memory, bulk, inbox, failures, changes, refusals>>

\* activateWorkflow: a version that was active is removed first.
Activate(m, v) == Request("activate", m, v, IF active = None THEN "write" ELSE "remove")

Deactivate(m) == active # None /\ Request("deactivate", m, None, "remove")

\* activeWorkflowManager.remove: one main removes itself, several are told.
OpRemove ==
    /\ op.step = "remove"
    /\ IF multiMain
       THEN Publish("remove") /\ op' = [op EXCEPT !.step = "write"] /\ UNCHANGED removals
       ELSE /\ removals' = [removals EXCEPT ![op.main]["user"] = "asked"]
            /\ op' = [op EXCEPT !.step = "removing"]
            /\ UNCHANGED inbox
    /\ UNCHANGED <<multiMain, leader, active, registered, orphans, queued, timers, adds, bulk, bounds>>

OpRemoved ==
    /\ op.step = "removing" /\ removals[op.main]["user"] = "no"
    /\ op' = [op EXCEPT !.step = "write"]
    /\ UNCHANGED <<multiMain, leader, active, memory, bulk, inbox, bounds>>

OpWrite ==
    /\ op.step = "write"
    /\ active' = op.version
    /\ op' = IF op.kind = "activate" THEN [op EXCEPT !.step = "add"] ELSE NoOp
    /\ UNCHANGED <<multiMain, leader, memory, bulk, inbox, bounds>>

\* activeWorkflowManager.add: one main adds, several are told, and without an active
\* version to announce it throws.
OpAdd ==
    /\ op.step = "add"
    /\ IF multiMain
       THEN /\ IF active = None THEN RollBack /\ UNCHANGED inbox
               ELSE op' = NoOp /\ Publish("add")
            /\ UNCHANGED adds
       ELSE /\ SetCall(op.main, "user", Call(active, op.main))
            /\ op' = [op EXCEPT !.step = "adding"]
            /\ UNCHANGED inbox
    /\ UNCHANGED <<multiMain, leader, active, registered, orphans, queued, timers, removals, bulk,
                   bounds>>

-----------------------------------------------------------------------------

AddsInFlight(m) == {c \in AddContexts : adds[m][c] # NoCall}

\* Two calls that add or remove the trigger of a main are in flight at a time.
Overlap(m) ==
    Cardinality(AddsInFlight(m))
      + Cardinality({c \in RemoveContexts : removals[m][c] # "no"}) > 1

\* A user's request is carried out or announced.
Requested == op # NoOp \/ \E m \in Mains : inbox[m] # <<>>

\* The last command on its way to the leader is to activate.
Announced ==
    \E m \in Mains : leader = m /\ inbox[m] # <<>> /\ inbox[m][Len(inbox[m])] = "add"

LeaderReads == \E m \in Mains : leader = m /\ bulk[m]

\* The code has no guard against these; each is a hazard of its own:
\* - overlap: see above;
\* - demoted: the leader steps down while it activates;
\* - skipped: a main takes over while an activation it began as a follower goes on;
\* - midway: the leader changes, or reads what is active in order to activate it, while
\*   a request is carried out or announced;
\* - queued: a removal is announced to a leader that has a retry in its queue;
\* - inherited: a main takes over with a retry in its queue from its time as a follower;
\* - undone: an activation that fails deactivates the workflow while another one is
\*   announced.
Happens(race) ==
    CASE race = "overlap" -> \E m \in Mains : Overlap(m)'
      [] race = "demoted" -> \E m \in Mains \ {leader'} : leader = m /\ AddsInFlight(m)' # {}
      [] race = "skipped" -> leader' \notin {leader, None} /\ BulkInProgress(leader')
      [] race = "midway"  -> Requested /\ (leader' # leader \/ LeaderReads)
      [] race = "queued"  -> \E m \in Mains : removals[m]["handler"] = "asked" /\ queued[m]
      [] race = "inherited" -> leader' \notin {leader, None} /\ queued[leader']
      [] race = "undone"  -> Announced /\ active # None /\ active' = None
      [] OTHER            -> FALSE

\* Nothing is claimed of what follows a race that is not allowed: the behaviour ends.
Note(also) ==
    /\ races \subseteq Allowed
    /\ races' = races \cup also \cup {r \in Races : Happens(r)}

Work ==
    \/ \E m \in Mains :
         \/ \E c \in AddContexts : AddTriggers(m, c) \/ AddSucceeds(m, c)
         \/ \E c \in RemoveContexts : EndRemove(m, c)
         \/ BulkReads(m) \/ TimerFires(m) \/ Receive(m)
         \/ HandlerRemoves(m) \/ UserRemoves(m)
    \/ OpRemove \/ OpRemoved \/ OpWrite \/ OpAdd

Fail ==
    \E m \in Mains : \/ BulkFails(m) \/ RetryFails(m) \/ HandlerFails(m) \/ UserFails(m)
                     \/ TriggerBreaks(m) \/ StepDown(m)

TakesOver == (\E m \in Mains : TakeOver(m)) /\ Note({})

Use == \E m \in Mains : (\E v \in Versions : Activate(m, v)) \/ Deactivate(m)

Next ==
    \/ Work /\ Note({})
    \/ Fail /\ Note({})
    \/ TakesOver
    \/ Use /\ Note({})
    \/ \E m \in Mains : Refused(m) /\ Note({"refused"})
    \/ \E m \in Mains : Crash(m) /\ Note({r \in {"interrupted"} : op # NoOp /\ op.main = m})

Spec == Init /\ [][Next]_vars

-----------------------------------------------------------------------------
(* Fairness: awaits return, timers fire and commands arrive; leader        *)
(* election finds a leader (LeaderElection, Recovers).                     *)

FairSpec ==
    /\ Spec
    /\ \A m \in Mains :
         /\ \A c \in AddContexts : WF_vars((AddTriggers(m, c) \/ AddSucceeds(m, c)) /\ Note({}))
         /\ \A c \in RemoveContexts : WF_vars(EndRemove(m, c) /\ Note({}))
         /\ WF_vars((HandlerRemoves(m) \/ UserRemoves(m)) /\ Note({}))
         /\ WF_vars(BulkReads(m) /\ Note({}))
         /\ WF_vars(TimerFires(m) /\ Note({}))
         /\ WF_vars(Receive(m) /\ Note({}))
         \* a call that has no version to activate throws
         /\ WF_vars((HandlerFails(m) \/ UserFails(m) \/ RetryFails(m)) /\ UNCHANGED failures /\ Note({}))
    /\ WF_vars((OpRemove \/ OpRemoved \/ OpWrite \/ OpAdd) /\ Note({}))
    /\ WF_vars(TakesOver)

-----------------------------------------------------------------------------
(* Properties.                                                             *)

\* Nothing is under way, and no retry is waiting for its time.
Quiet ==
    /\ op = NoOp
    /\ \A m \in Mains :
         /\ ~bulk[m] /\ inbox[m] = <<>> /\ timers[m] = {}
         /\ \A c \in AddContexts : adds[m][c] = NoCall
         /\ \A c \in RemoveContexts : removals[m][c] = "no"

InStepAt(m) ==
    /\ registered[m] = IF m = leader THEN active ELSE None
    /\ orphans[m] = {}

\* When all is quiet, exactly the leader listens, to the version the database calls
\* active, once, and no queue entry is left; over failed activations, retries, broken
\* triggers, rollbacks, takeovers and crashes, unless one of the races happened that
\* ActiveWorkflowManager does not guard against.
InStep ==
    Quiet /\ races \subseteq Allowed => \A m \in Mains : InStepAt(m) /\ ~queued[m]

\* The retries and the takeover go on until the leader listens to what is active:
\* without a race that is where every run ends.
Settles ==
    <>(~(races \subseteq Allowed)) \/ <>[](leader # None /\ InStepAt(leader))

\* What the comment at removeNonWebhookTriggers says of a deactivated workflow: its
\* triggers stop running.  (Leader and processes stay; see the run.)
StopsRunning ==
    Quiet /\ active = None /\ races \subseteq Allowed => \A m \in Mains : registered[m] = None /\ orphans[m] = {}

=============================================================================
