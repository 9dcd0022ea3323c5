--------------------------- MODULE ActiveExecutions ---------------------------
(***************************************************************************)
(* The life of an execution on one main process in regular mode:           *)
(*   - WorkflowRunner.run and runMainProcess (packages/cli/src/            *)
(*     workflow-runner.ts), which run an attempt,                          *)
(*   - ActiveExecutions (packages/cli/src/active-executions.ts), which     *)
(*     throttles, registers, stops and finalizes it,                       *)
(*   - the concurrency queue (module ConcurrencyQueue),                    *)
(*   - ExecutionService.stop, the lifecycle hook that saves the result,    *)
(*     and the status column of the execution's database row.              *)
(*                                                                         *)
(* An attempt is one call of run.  The first attempt of an execution       *)
(* creates its row; the others resume the execution by id (a wait timer, a *)
(* waiting webhook, the start-up re-run).  Every `await` ends a step, so   *)
(* that stops, timeouts, other attempts and a crash come between.          *)
(***************************************************************************)
EXTENDS Integers, FiniteSets

CONSTANTS
    Executions,     \* execution ids
    Attempts,       \* calls of WorkflowRunner.run
    ExecutionOf,    \* the execution an attempt is for
    Resuming,       \* the attempts made with restartExecutionId
    Limited,        \* the executions whose mode has a production queue
    Waits,          \* the executions with a node that puts them to wait
    Stoppable,      \* the executions a user stops (at most once each)
    Limit,          \* the production concurrency limit
    EvaluationCap,  \* the license puts a cap on evaluation runs
    MaxRestarts,    \* bound: how often the process is restarted
    CanShutDown,    \* whether a graceful shutdown is explored
    None            \* no attempt

ASSUME AttemptsAssumption ==
    /\ IsFiniteSet(Attempts)
    /\ ExecutionOf \in [Attempts -> Executions]
    /\ Resuming \subseteq Attempts
    /\ Limited \subseteq Executions
    /\ Waits \subseteq Executions
    /\ Stoppable \subseteq Executions
    /\ None \notin Attempts

ASSUME SettingsAssumption ==
    /\ Limit \in Nat \ {0}
    /\ MaxRestarts \in Nat
    /\ EvaluationCap \in BOOLEAN
    /\ CanShutDown \in BOOLEAN

VARIABLES
    capacity, queue, holders,   \* the production queue
    enabled,        \* ConcurrencyControlService.isEnabled
    evalResolved,   \* ConcurrencyControlService.evalQueueResolved
    db,             \* the status column of each execution's row
    pc,             \* how far each attempt is
    run,            \* the attempt's WorkflowExecute: attached to the registry,
                    \* cancelled, or an orphan whose end nobody finalizes
    outcome,        \* the status an attempt is about to save
    entry,          \* activeExecutions[id]: the attempt that registered it
    status,         \* the status field of the entry an attempt registered
    settled,        \* attempts whose postExecutePromise is settled
    cancelSaves,    \* attempts whose cancel handler has a save under way
    stop,           \* how far the stop request of an execution is
    phase,          \* "up" or "draining" (shutdown)
    restarts        \* restarts so far

Q == INSTANCE ConcurrencyQueue WITH Calls <- Attempts

vars == <<capacity, queue, holders, enabled, evalResolved, db, pc, run, outcome,
          entry, status, settled, cancelSaves, stop, phase, restarts>>

Stages == {"idle", "created", "reserving", "reserved", "stored", "registered",
           "starting", "executing", "waitset", "saving", "saved",
           "done", "rejected", "lost"}

Statuses == {"absent", "new", "running", "waiting", "success", "error",
             "canceled", "crashed"}

TypeOK ==
    /\ Q!TypeOK
    /\ enabled \in BOOLEAN
    /\ evalResolved \in BOOLEAN
    /\ db \in [Executions -> Statuses]
    /\ pc \in [Attempts -> Stages]
    /\ run \in [Attempts -> {"none", "attached", "orphan", "cancelled"}]
    /\ outcome \in [Attempts -> {"none", "success", "error", "waiting"}]
    /\ entry \in [Executions -> Attempts \cup {None}]
    /\ status \in [Attempts -> {"running", "waiting"}]
    /\ settled \in SUBSET Attempts
    /\ cancelSaves \in SUBSET Attempts
    /\ stop \in [Executions -> {"none", "read", "applied", "done"}]
    /\ phase \in {"up", "draining"}
    /\ restarts \in 0..MaxRestarts

Init ==
    /\ Q!QueueInit
    /\ enabled = TRUE
    /\ evalResolved = FALSE
    /\ db = [e \in Executions |-> "absent"]
    /\ pc = [a \in Attempts |-> "idle"]
    /\ run = [a \in Attempts |-> "none"]
    /\ outcome = [a \in Attempts |-> "none"]
    /\ entry = [e \in Executions |-> None]
    /\ status = [a \in Attempts |-> "running"]
    /\ settled = {}
    /\ cancelSaves = {}
    /\ stop = [e \in Executions |-> "none"]
    /\ phase = "up"
    /\ restarts = 0

queueVars == <<capacity, queue, holders>>
switchVars == <<enabled, evalResolved, phase, restarts>>
registryVars == <<entry, status, settled>>
engineVars == <<run, outcome, cancelSaves>>

Goto(a, stage) == pc' = [pc EXCEPT ![a] = stage]
SetDb(e, s) == db' = [db EXCEPT ![e] = s]

-----------------------------------------------------------------------------
(* ActiveExecutions.add.                                                   *)

\* getQueue: the mode of the execution has a queue.
HasQueue(a) == ExecutionOf[a] \in Limited

\* getExecutionOrFail finds an entry.
Registered(e) == entry[e] # None

\* Bug: the resume path goes on without having reserved capacity.
ReserveOnlyNew(a) ==
    /\ pc[a] = "created"
    /\ IF enabled /\ HasQueue(a) /\ a \notin Resuming
       THEN Q!Enqueue(a) /\ Goto(a, "reserving")
       ELSE UNCHANGED queueVars /\ Goto(a, "reserved")
    /\ UNCHANGED <<switchVars, registryVars, engineVars, db, stop>>

\* ConcurrencyControlService.throttle: a disabled control or a mode without a
\* queue lets the attempt through.
Reserve(a) ==
    /\ pc[a] = "created"
    /\ IF enabled /\ HasQueue(a)
       THEN Q!Enqueue(a) /\ Goto(a, "reserving")
       ELSE UNCHANGED queueVars /\ Goto(a, "reserved")
    /\ UNCHANGED <<switchVars, registryVars, engineVars, db, stop>>

\* Bug: capacity is given back by a reservation that already gave it back.
\* (ConcurrencyCapacityReservation without the reset of acquiredReservation.)
ReleaseTwice(a) ==
    IF enabled /\ HasQueue(a)
    THEN /\ capacity' = capacity + 2
         /\ Q!ResolveNext(queue, holders \ {a})
    ELSE UNCHANGED queueVars

\* ConcurrencyCapacityReservation.release; each caller runs it once.
Release(a) ==
    IF enabled /\ HasQueue(a)
    THEN Q!Dequeue(a)
    ELSE UNCHANGED queueVars

Create(a) ==
    /\ a \notin Resuming
    /\ pc[a] = "idle"
    /\ db[ExecutionOf[a]] = "absent"
    /\ SetDb(ExecutionOf[a], "new")
    /\ Goto(a, "created")
    /\ UNCHANGED <<queueVars, switchVars, registryVars, engineVars, stop>>

\* A timer, a waiting webhook or the start-up re-run found the execution in the
\* database and it had not succeeded.
Resume(a) ==
    /\ a \in Resuming
    /\ pc[a] = "idle"
    /\ db[ExecutionOf[a]] \notin {"absent", "success"}
    /\ Goto(a, "created")
    /\ UNCHANGED <<queueVars, switchVars, registryVars, engineVars, db, stop>>

Admitted(a) == pc[a] = "reserved" \/ (pc[a] = "reserving" /\ a \in holders)

\* A new execution: setRunning writes the status whatever it was.
StoreNew(a) ==
    /\ a \notin Resuming
    /\ Admitted(a)
    /\ SetDb(ExecutionOf[a], "running")
    /\ Goto(a, "stored")
    /\ UNCHANGED <<queueVars, switchVars, registryVars, engineVars, stop>>

\* Bug: the update is made without requireStatus.
ClaimUnconditionally(a) ==
    /\ a \in Resuming
    /\ Admitted(a)
    /\ SetDb(ExecutionOf[a], "running")
    /\ Goto(a, "stored")
    /\ UNCHANGED <<queueVars, switchVars, registryVars, engineVars, stop>>

\* A resumed execution: the update only applies to a row that is waiting;
\* otherwise the reservation is released and the call throws.
Claim(a) ==
    LET e == ExecutionOf[a] IN
    /\ a \in Resuming
    /\ Admitted(a)
    /\ \/ /\ db[e] = "waiting"
          /\ SetDb(e, "running")
          /\ Goto(a, "stored")
          /\ UNCHANGED queueVars
       \/ /\ db[e] # "waiting"
          /\ Release(a)
          /\ Goto(a, "rejected")
          /\ UNCHANGED db
    /\ UNCHANGED <<switchVars, registryVars, engineVars, stop>>

Register(a) ==
    /\ pc[a] = "stored"
    /\ entry' = [entry EXCEPT ![ExecutionOf[a]] = a]
    /\ Goto(a, "registered")
    /\ UNCHANGED <<queueVars, switchVars, engineVars, status, settled, db, stop>>

\* Bug: the settled promise of a finished run leaves its entry behind.
SettleKeepsEntry(b) ==
    IF b \in settled
    THEN UNCHANGED <<queueVars, entry, settled>>
    ELSE /\ settled' = settled \cup {b}
         /\ Release(b)
         /\ UNCHANGED entry

\* Bug: `finally` forgets the reservation.
SettleKeepsSlot(b) ==
    IF b \in settled
    THEN UNCHANGED <<queueVars, entry, settled>>
    ELSE /\ settled' = settled \cup {b}
         /\ entry' = IF status[b] = "waiting" THEN entry
                     ELSE [entry EXCEPT ![ExecutionOf[b]] = None]
         /\ UNCHANGED queueVars

\* Settling the postExecutePromise that attempt b registered.  The first
\* settlement runs `finally`: release, and drop the entry unless it waits.
Settle(b) ==
    IF b \in settled
    THEN UNCHANGED <<queueVars, entry, settled>>
    ELSE /\ settled' = settled \cup {b}
         /\ Release(b)
         /\ entry' = IF status[b] = "waiting" THEN entry
                     ELSE [entry EXCEPT ![ExecutionOf[b]] = None]

-----------------------------------------------------------------------------
(* WorkflowRunner: an attempt after add.                                   *)

\* Bug: the failed run is saved without a status.
FailWithoutStatus(a) ==
    /\ pc[a] = "registered"
    /\ Goto(a, "saving")
    /\ UNCHANGED <<queueVars, switchVars, registryVars, engineVars, db, stop>>

\* The pre-flight check fails: failExecution saves an error and finalizes.
FailExecution(a) ==
    /\ pc[a] = "registered"
    /\ outcome' = [outcome EXCEPT ![a] = "error"]
    /\ Goto(a, "saving")
    /\ UNCHANGED <<queueVars, switchVars, registryVars, run, cancelSaves, db, stop>>

\* attachResponsePromise throws when a stop has removed the entry.
RejectRun(a) ==
    /\ pc[a] = "registered"
    /\ ~Registered(ExecutionOf[a])
    /\ Goto(a, "rejected")
    /\ UNCHANGED <<queueVars, switchVars, registryVars, engineVars, db, stop>>

\* runMainProcess writes `running` again, unconditionally.
SetRunning(a) ==
    /\ pc[a] = "registered"
    /\ SetDb(ExecutionOf[a], "running")
    /\ Goto(a, "starting")
    /\ UNCHANGED <<queueVars, switchVars, registryVars, engineVars, stop>>

\* processRunExecutionData starts the run, then attachWorkflowExecution makes it
\* known to the registry.  Without an entry that call throws: the run goes on,
\* nobody can cancel it and nobody finalizes it.
Attach(a) ==
    /\ pc[a] = "starting"
    /\ run' = [run EXCEPT ![a] = IF Registered(ExecutionOf[a]) THEN "attached" ELSE "orphan"]
    /\ Goto(a, "executing")
    /\ UNCHANGED <<queueVars, switchVars, registryVars, outcome, cancelSaves, db, stop>>

\* The promise of the run rejects (a workflow that is not ready, a hook that
\* throws): processError finalizes first and saves the error after that.
ProcessError(a) ==
    LET e == ExecutionOf[a] IN
    /\ pc[a] = "executing" /\ run[a] = "attached"
    /\ run' = [run EXCEPT ![a] = "orphan"]
    /\ outcome' = [outcome EXCEPT ![a] = "error"]
    /\ IF Registered(e) THEN Settle(entry[e]) ELSE UNCHANGED <<queueVars, entry, settled>>
    /\ Goto(a, "saving")
    /\ UNCHANGED <<switchVars, status, cancelSaves, db, stop>>

\* A node calls putExecutionToWait; setStatus throws without an entry, which
\* fails the node.
PutToWait(a) ==
    LET e == ExecutionOf[a] IN
    /\ e \in Waits
    /\ pc[a] = "executing"
    /\ Registered(e)
    /\ status' = [status EXCEPT ![entry[e]] = "waiting"]
    /\ Goto(a, "waitset")
    /\ UNCHANGED <<queueVars, switchVars, entry, settled, engineVars, db, stop>>

\* The run ends and its after-hook starts: it saves `waiting` if a node asked to
\* wait and nothing failed since.  A cancelled run skips the hook.
Finish(a) ==
    /\ \/ /\ pc[a] = "executing" /\ run[a] # "cancelled"
          /\ \E o \in {"success", "error"} : outcome' = [outcome EXCEPT ![a] = o]
          /\ Goto(a, "saving")
       \/ /\ pc[a] = "waitset" /\ run[a] # "cancelled"
          /\ \E o \in {"waiting", "error"} : outcome' = [outcome EXCEPT ![a] = o]
          /\ Goto(a, "saving")
       \/ /\ pc[a] \in {"executing", "waitset"} /\ run[a] = "cancelled"
          /\ Goto(a, "saved")
          /\ UNCHANGED outcome
    /\ UNCHANGED <<queueVars, switchVars, registryVars, run, cancelSaves, db, stop>>

\* The save of the after-hook, with requireNotCanceled.
Save(a) ==
    LET e == ExecutionOf[a] IN
    /\ pc[a] = "saving"
    /\ IF db[e] = "canceled" THEN UNCHANGED db ELSE SetDb(e, outcome[a])
    /\ Goto(a, "saved")
    /\ UNCHANGED <<queueVars, switchVars, registryVars, engineVars, stop>>

\* The save that the cancel handler of a run started.
SaveCancelled(a) ==
    /\ a \in cancelSaves
    /\ SetDb(ExecutionOf[a], "canceled")
    /\ cancelSaves' = cancelSaves \ {a}
    /\ UNCHANGED <<queueVars, switchVars, registryVars, run, outcome, pc, stop>>

\* finalizeExecution resolves the promise of whichever entry is registered under
\* the execution's id.  Nothing follows the run of an orphan.
Finalize(a) ==
    LET e == ExecutionOf[a] IN
    /\ pc[a] = "saved"
    /\ IF run[a] # "orphan" /\ Registered(e)
       THEN Settle(entry[e])
       ELSE UNCHANGED <<queueVars, entry, settled>>
    /\ Goto(a, "done")
    /\ UNCHANGED <<switchVars, status, engineVars, db, stop>>

-----------------------------------------------------------------------------
(* Stop requests and the execution timeout.                                *)

\* ActiveExecutions.stopExecution for the entry of e: a waiting entry is only
\* dropped, a running one is cancelled and its promise rejected.
StopExecution(e) ==
    LET b == entry[e] IN
    /\ Registered(e)
    /\ IF status[b] = "waiting"
       THEN /\ entry' = [entry EXCEPT ![e] = None]
            /\ UNCHANGED <<queueVars, settled, run, cancelSaves>>
       ELSE /\ Settle(b)
            /\ IF run[b] = "attached" /\ pc[b] # "done"
               THEN /\ run' = [run EXCEPT ![b] = "cancelled"]
                    /\ cancelSaves' = cancelSaves \cup {b}
               ELSE UNCHANGED <<run, cancelSaves>>
    /\ UNCHANGED <<status, outcome>>

SetStop(e, s) == stop' = [stop EXCEPT ![e] = s]

\* assertStoppable.
CanBeStopped(e) == db[e] \in {"new", "waiting", "running"}

\* ExecutionService.stop reads the row and checks that it can be stopped.
StopRead(e) ==
    /\ e \in Stoppable
    /\ stop[e] = "none"
    /\ CanBeStopped(e)
    /\ SetStop(e, "read")
    /\ UNCHANGED <<queueVars, switchVars, registryVars, engineVars, db, pc>>

\* stopInRegularMode: a throttled execution leaves the queue, a registered one
\* is stopped, and any other one is only marked in the database.
StopApply(e) ==
    /\ stop[e] = "read"
    /\ \/ /\ enabled /\ Q!HasQueued(e)
          /\ Q!RemoveQueued(e)
          /\ UNCHANGED <<registryVars, engineVars>>
       \/ /\ ~(enabled /\ Q!HasQueued(e))
          /\ StopExecution(e)
       \/ /\ ~(enabled /\ Q!HasQueued(e))
          /\ ~Registered(e)
          /\ UNCHANGED <<queueVars, registryVars, engineVars>>
    /\ SetStop(e, "applied")
    /\ UNCHANGED <<switchVars, db, pc>>

\* stopBeforeRun or stopDuringRun: both write `canceled` unconditionally.
StopSave(e) ==
    /\ stop[e] = "applied"
    /\ SetDb(e, "canceled")
    /\ SetStop(e, "done")
    /\ UNCHANGED <<queueVars, switchVars, registryVars, engineVars, pc>>

\* The timer runMainProcess arms once the run is attached and clears when it is
\* over.
Timeout(a) ==
    /\ pc[a] \in {"executing", "waitset", "saving", "saved"}
    /\ run[a] \in {"attached", "cancelled"}
    /\ StopExecution(ExecutionOf[a])
    /\ UNCHANGED <<switchVars, db, pc, stop>>

-----------------------------------------------------------------------------
(* Shutdown, restart and the evaluation queue.                             *)

\* ActiveExecutions.shutdown up to its waiting loop, without cancelAll, as the
\* main process calls it.  removeAll comes after disable, so it returns at once.
Shutdown ==
    /\ CanShutDown
    /\ phase = "up"
    /\ phase' = "draining"
    /\ enabled' = FALSE
    /\ entry' = [e \in Executions |->
                    IF Registered(e) /\ status[entry[e]] = "waiting" THEN None ELSE entry[e]]
    /\ UNCHANGED <<queueVars, evalResolved, restarts, status, settled, engineVars, db, pc, stop>>

\* The process ends (a crash, or the end of the shutdown) and starts again:
\* memory is gone, and start-up recovery marks running rows as crashed.
Restart ==
    /\ restarts < MaxRestarts
    /\ restarts' = restarts + 1
    /\ phase' = "up"
    /\ enabled' = TRUE
    /\ evalResolved' = FALSE
    /\ capacity' = Limit
    /\ queue' = <<>>
    /\ holders' = {}
    /\ db' = [e \in Executions |-> IF db[e] = "running" THEN "crashed" ELSE db[e]]
    /\ pc' = [a \in Attempts |-> IF pc[a] \in {"idle", "done", "rejected"} THEN pc[a] ELSE "lost"]
    /\ run' = [a \in Attempts |-> "none"]
    /\ entry' = [e \in Executions |-> None]
    /\ cancelSaves' = {}
    /\ stop' = [e \in Executions |-> IF stop[e] \in {"none", "done"} THEN stop[e] ELSE "none"]
    /\ UNCHANGED <<outcome, status, settled>>

\* ensureEvalQueueResolved, on the first evaluation run that throttles: a cap
\* from the license builds the evaluation queue and turns the control on.
ResolveEvalQueue ==
    /\ ~evalResolved
    /\ EvaluationCap
    /\ evalResolved' = TRUE
    /\ enabled' = TRUE
    /\ UNCHANGED <<queueVars, phase, restarts, registryVars, engineVars, db, pc, stop>>

-----------------------------------------------------------------------------

Step(a) ==
    \/ Create(a) \/ Resume(a) \/ Reserve(a) \/ StoreNew(a) \/ Claim(a) \/ Register(a)
    \/ FailExecution(a) \/ RejectRun(a) \/ SetRunning(a) \/ Attach(a)
    \/ ProcessError(a) \/ PutToWait(a) \/ Finish(a) \/ Save(a) \/ SaveCancelled(a) \/ Finalize(a)

Next ==
    \/ \E a \in Attempts : Step(a) \/ Timeout(a)
    \/ \E e \in Executions : StopRead(e) \/ StopApply(e) \/ StopSave(e)
    \/ Shutdown \/ Restart \/ ResolveEvalQueue

Spec == Init /\ [][Next]_vars

\* The event loop runs every continuation that is due: database calls return and
\* nodes end.  Starting an attempt (Create, Resume) is up to the outside.
Progress(a) ==
    \/ Reserve(a) \/ StoreNew(a) \/ Claim(a) \/ Register(a)
    \/ FailExecution(a) \/ RejectRun(a) \/ SetRunning(a) \/ Attach(a)
    \/ ProcessError(a) \/ PutToWait(a) \/ Finish(a) \/ Save(a) \/ Finalize(a)

FairSpec == Spec /\ \A a \in Attempts : WF_vars(Progress(a))

-----------------------------------------------------------------------------
(* Safety.                                                                 *)

\* The stages in which an attempt owns the execution: it has set the row to
\* `running` and has not saved its result yet.
Owning == {"stored", "registered", "starting", "executing", "waitset", "saving"}

\* An execution is run by one attempt at a time: two resumes, or a resume and
\* the run that is about to wait, never both get past the claim.
SingleRunner ==
    \A a, b \in Attempts :
        pc[a] \in Owning /\ pc[b] \in Owning /\ ExecutionOf[a] = ExecutionOf[b] => a = b

\* The registry keeps no entry for an attempt that is over, unless the execution
\* waits: otherwise the execution would look active forever and block shutdown.
NoZombieEntry ==
    \A e \in Executions :
        Registered(e) /\ pc[entry[e]] \notin Owning \cup {"saved"} => status[entry[e]] = "waiting"

\* The license turned the control on again in a shutdown, which had switched it off.
TurnedOnAgain == phase = "draining" /\ enabled

\* Whoever runs in a limited mode, and whose promise is not settled, holds a slot
\* of the queue: no path through add reaches the run without a reservation, as long as
\* the control is on.  Once it is TurnedOnAgain there are runs that did not reserve.
RunningHoldsSlot ==
    \A a \in Attempts :
        pc[a] \in Owning /\ HasQueue(a) /\ a \notin settled /\ enabled
            => a \in holders \/ TurnedOnAgain

\* An execution that succeeded is never run again nor recorded as anything else,
\* except that a stop which had read it as running still marks it canceled.
SuccessFinal ==
    [][\A e \in Executions : db[e] = "success" => db'[e] \in {"success", "canceled"}]_vars

\* What the registry does to the capacity is what callers of the queue may do:
\* a call throttles once, and releases only what it holds, and only once, unless the
\* control is TurnedOnAgain: runs that did not reserve release then all the same.
QueueDiscipline == [][Q!Next \/ Restart \/ TurnedOnAgain]_queueVars

-----------------------------------------------------------------------------
(* Progress.                                                               *)

\* A stop took the attempt out of the queue; nobody resolves the promise it waits for.
LeftInThrottle(a) ==
    /\ pc[a] = "reserving"
    /\ a \notin holders \cup Q!Waiting
    /\ stop[ExecutionOf[a]] \in {"applied", "done"}

\* The entry of attempt b was dropped while its execution was about to wait: the end of
\* its run found no entry, and its promise, which gives the slot back, never settles.
SlotLost(b) ==
    /\ pc[b] = "done" /\ b \in holders \ settled
    /\ status[b] = "waiting" /\ entry[ExecutionOf[b]] # b

\* Every attempt that got as far as having a row ends, unless the process is shut down,
\* and with it the wait of those behind it in the queue.  The code has two exceptions, and
\* these are the only ones: the execution was stopped while it was in the queue
\* (ConcurrencyQueue.remove drops the promise), or the attempt is in the queue and a slot was
\* lost (stopExecution of a run about to wait).
AttemptEnds ==
    \A a \in Attempts :
        pc[a] = "created" ~> \/ pc[a] \in {"done", "rejected"} \/ phase = "draining"
                             \/ LeftInThrottle(a)
                             \/ a \in Q!Waiting /\ \E b \in Attempts : SlotLost(b)

\* Shutdown waits until no execution is active.  That moment comes, except for executions
\* that went to wait after shutdown had dropped the waiting ones, once, at its beginning:
\* in the end only entries of such executions, whose run is over, are left.
ShutdownEnds ==
    phase = "draining" ~>
        \A e \in Executions :
            Registered(e) => status[entry[e]] = "waiting" /\ entry[e] \in settled

=============================================================================
