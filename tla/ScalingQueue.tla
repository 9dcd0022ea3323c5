----------------------------- MODULE ScalingQueue -----------------------------
(***************************************************************************)
(* Queue mode: a main process enqueues executions as Bull jobs, workers    *)
(* run them, and queue recovery marks what was lost as crashed             *)
(* (packages/cli/src/scaling/scaling.service.ts, job-processor.ts and      *)
(* WorkflowRunner.enqueueExecution).                                       *)
(*                                                                         *)
(* An execution is in three places at once: its row in the database, its   *)
(* job in Redis, and the main's ActiveExecutions.  The processes only meet *)
(* there: a worker or the main can die between any two updates, and a      *)
(* worker can lose the lock of a job it still works on.  Bull is external: *)
(* jobs change state at once, and events that announce it may be late.     *)
(***************************************************************************)
EXTENDS Naturals, FiniteSets

CONSTANTS
    Executions,
    Workers,
    None,
    Concurrency,    \* jobs a worker runs at a time
    Stoppable,      \* executions a user may stop
    MaxLegs,        \* bound: how often an execution is enqueued (1 + its waits)
    MaxExits,       \* bound: workers that shut down or crash
    MaxCrashes,     \* bound: crashes of the main
    MaxStalls,      \* bound: locks that a living worker loses
    MaxFailures     \* bound: jobs that cannot be added

ASSUME ScalingAssumption ==
    /\ Concurrency \in Nat \ {0}
    /\ {MaxLegs, MaxExits, MaxCrashes, MaxStalls, MaxFailures} \subseteq Nat
    /\ Stoppable \subseteq Executions
    /\ None \notin Workers \cup {"success", "error", "waiting"}

VARIABLES
    row,            \* status of an execution in the database
    entry,          \* the main: what it does with an execution
    told,           \* the status it was told the execution ended with
    job,            \* Bull: the state of an execution's job
    lock,           \* Bull: the worker that holds the job's lock
    result,         \* scalingService.jobResults: the last job-finished message
    work,           \* what a worker does with a job it picked up
    up,             \* workers: "up", "stopping", "gone"
    recovery,       \* recoverFromQueue of the leader
    stop,           \* what a user's stop, and the main that let go of the job, still have to do
    stopped,        \* history: a user stopped the execution
    legs, exits, crashes, stalls, failures

main == <<entry, told, result, stop, stopped, legs, failures>>
bull == <<job, lock>>
workers == <<work, up, exits>>
vars == <<row, main, bull, workers, recovery, crashes, stalls>>

InProgress == {"new", "running"}
Outcomes == {"success", "error", "waiting"}
Statuses == {"none", "canceled", "crashed"} \cup InProgress \cup Outcomes
\* A worker that has saved an outcome still has to report it.
Steps == {"idle", "fetch", "start", "setup", "running", "aborted", "refused", "failed"} \cup Outcomes

TypeOK ==
    /\ row \in [Executions -> Statuses]
    /\ entry \in [Executions -> {"none", "added", "dropped", "listening", "saving", "rejected",
                                 "released", "lost"}]
    /\ told \in [Executions -> Statuses]
    /\ job \in [Executions -> {"none", "waiting", "active", "completed", "failed", "removed"}]
    /\ lock \in [Executions -> Workers \cup {None}]
    /\ result \in [Executions -> Outcomes \cup {None}]
    /\ work \in [Workers -> [Executions -> Steps]]
    /\ up \in [Workers -> {"up", "stopping", "gone"}]
    /\ recovery \in [step : {"idle", "jobs", "mark"}, ids : SUBSET Executions]
    /\ stop \in [Executions -> SUBSET {"job", "row", "check", "error", "late"}]
    /\ stopped \in [Executions -> BOOLEAN]
    /\ legs \in [Executions -> 0..MaxLegs]
    /\ exits \in 0..MaxExits /\ crashes \in 0..MaxCrashes
    /\ stalls \in 0..MaxStalls /\ failures \in 0..MaxFailures

Init ==
    /\ row = [e \in Executions |-> "none"]
    /\ entry = [e \in Executions |-> "none"]
    /\ told = [e \in Executions |-> "none"]
    /\ job = [e \in Executions |-> "none"]
    /\ lock = [e \in Executions |-> None]
    /\ result = [e \in Executions |-> None]
    /\ work = [w \in Workers |-> [e \in Executions |-> "idle"]]
    /\ up = [w \in Workers |-> "up"]
    /\ recovery = [step |-> "idle", ids |-> {}]
    /\ stop = [e \in Executions |-> {}]
    /\ stopped = [e \in Executions |-> FALSE]
    /\ legs = [e \in Executions |-> 0]
    /\ exits = 0 /\ crashes = 0 /\ stalls = 0 /\ failures = 0

Put(f, e, v) == [f EXCEPT ![e] = v]

-----------------------------------------------------------------------------
(* The main.                                                               *)

\* ActiveExecutions.add: a new execution gets a row, one that waited is claimed.
Add(e) ==
    /\ entry[e] \in {"none", "released", "lost"} /\ legs[e] < MaxLegs
    /\ \/ row[e] = "none" /\ row' = Put(row, e, "new")
       \/ row[e] = "waiting" /\ row' = Put(row, e, "running")
    /\ entry' = Put(entry, e, "added")
    /\ told' = Put(told, e, "none")
    /\ legs' = Put(legs, e, legs[e] + 1)
    /\ UNCHANGED <<result, stop, stopped, failures, bull, workers, recovery, crashes, stalls>>

\* enqueueExecution: addJob, and a PCancelable that waits for job.finished().  An
\* execution that was stopped before is enqueued all the same.  What a stop has to do
\* about its previous job does not reach this one.
AddJob(e) ==
    /\ entry[e] \in {"added", "dropped"}
    /\ job' = Put(job, e, "waiting")
    /\ entry' = Put(entry, e, IF entry[e] = "added" THEN "listening" ELSE "released")
    /\ stop' = Put(stop, e, stop[e] \ {"job", "late"})
    /\ UNCHANGED <<row, told, result, stopped, legs, failures, lock, workers, recovery, crashes, stalls>>

\* The job cannot be added: processError, which goes on with SaveError.
AddJobFails(e) ==
    /\ entry[e] = "added" /\ failures < MaxFailures
    /\ failures' = failures + 1
    /\ entry' = Put(entry, e, "saving") /\ told' = Put(told, e, "error")
    /\ UNCHANGED <<row, result, stop, stopped, legs, bull, workers, recovery, crashes, stalls>>

\* Bug: the message job-finished is taken for granted.
JobFinishedByMessage(e) ==
    /\ entry[e] = "listening" /\ job[e] = "completed"
    /\ entry' = Put(entry, e, "released")
    /\ told' = Put(told, e, result[e])
    /\ result' = Put(result, e, None)
    /\ UNCHANGED <<row, stop, stopped, legs, failures, bull, workers, recovery, crashes, stalls>>

\* job.finished() resolves: the result is the one in the job-finished message, or
\* what the row says when there is none or full data is needed.
JobFinished(e) ==
    /\ entry[e] = "listening" /\ job[e] = "completed"
    /\ entry' = Put(entry, e, "released")
    /\ \E s \in {row[e]} \cup ({result[e]} \ {None}) : told' = Put(told, e, s)
    /\ result' = Put(result, e, None)
    /\ UNCHANGED <<row, stop, stopped, legs, failures, bull, workers, recovery, crashes, stalls>>

\* job.finished() rejects: processError reads the row.  When it says success the
\* failure is a false positive and nothing else is done; otherwise the execution is
\* finalized, and its row saved later.
JobFailed(e) ==
    /\ entry[e] = "listening" /\ job[e] = "failed"
    /\ IF row[e] = "success"
       THEN entry' = Put(entry, e, "rejected") /\ UNCHANGED told
       ELSE entry' = Put(entry, e, "saving") /\ told' = Put(told, e, "error")
    /\ result' = Put(result, e, None)
    /\ UNCHANGED <<row, stop, stopped, legs, failures, bull, workers, recovery, crashes, stalls>>

\* ... by the hook workflowExecuteAfter of hookFunctionsSaveWorker.
SaveError(e) ==
    /\ entry[e] = "saving"
    /\ row' = Put(row, e, "error")
    /\ entry' = Put(entry, e, "released")
    /\ UNCHANGED <<told, result, stop, stopped, legs, failures, bull, workers, recovery, crashes, stalls>>

\* stopInScalingMode.  On the main that enqueued the execution its promise is
\* rejected and its job canceled; on another main, and when the execution is no
\* longer active, only the row is written.
Stop(e) ==
    /\ e \in Stoppable /\ row[e] \in InProgress \cup {"waiting"} /\ stop[e] \subseteq {"late"}
    /\ stopped' = Put(stopped, e, TRUE)
    /\ \/ /\ entry[e] \in {"added", "listening"}
          /\ entry' = Put(entry, e, IF entry[e] = "added" THEN "dropped" ELSE "released")
          /\ told' = Put(told, e, "canceled")
          /\ stop' = Put(stop, e, IF entry[e] = "added" THEN {"row"} ELSE {"job", "row", "late"})
       \/ stop' = Put(stop, e, stop[e] \cup {"row"}) /\ UNCHANGED <<entry, told>>
    /\ UNCHANGED <<row, result, legs, failures, bull, workers, recovery, crashes, stalls>>

\* stopJob, of the cancel hook: the worker that runs the job is sent abort-job, which it ignores before
\* the run is registered in runningJobs; a job nobody works on is removed.
StopJob(e) ==
    /\ "job" \in stop[e]
    /\ stop' = Put(stop, e, (stop[e] \ {"job"}) \cup {"check"})
    /\ job' = IF job[e] = "waiting" THEN Put(job, e, "removed") ELSE job
    /\ work' = [w \in Workers |-> [work[w] EXCEPT ![e] =
                    IF job[e] = "active" /\ @ = "running" THEN "aborted" ELSE @]]
    /\ UNCHANGED <<row, entry, told, result, stopped, legs, failures, lock, up, exits, recovery, crashes, stalls>>

\* finalizeExecution looks the entry up by id: it can be that of the next job.
Finalize(e, s) ==
    /\ entry' = Put(entry, e, CASE entry[e] = "added" -> "dropped"
                               [] entry[e] \in {"listening", "rejected"} -> "released"
                               [] OTHER -> entry[e])
    /\ told' = IF entry[e] \in {"added", "listening", "rejected"} THEN Put(told, e, s) ELSE told

\* What a main that let go of the job does about it, then: t is still to do.
Late(e, from, t) ==
    stop' = Put(stop, e, (stop[e] \ from) \cup t
                            \cup (IF entry[e] = "listening" /\ entry'[e] = "released" THEN {"late"} ELSE {}))

\* processError, which the cancel hook calls once the job is canceled and the awaited
\* job.finished() when the job fails nevertheless ...
ProcessLateError(e) ==
    /\ \E from \in {"check", "late"} :
        /\ from \in stop[e] /\ (from = "late" => job[e] = "failed")
        /\ IF row[e] = "success" THEN UNCHANGED <<entry, told>> /\ Late(e, {from}, {})
           ELSE Finalize(e, "error") /\ Late(e, {from}, {"error"})
        /\ result' = IF from = "late" THEN Put(result, e, None) ELSE result
    /\ UNCHANGED <<row, stopped, legs, failures, bull, workers, recovery, crashes, stalls>>

\* ... saves the execution as failed, whatever the status is now.
SaveLateError(e) ==
    /\ "error" \in stop[e]
    /\ stop' = Put(stop, e, stop[e] \ {"error"})
    /\ row' = Put(row, e, "error")
    /\ UNCHANGED <<entry, told, result, stopped, legs, failures, bull, workers, recovery, crashes, stalls>>

\* The job that was to be canceled completes.
LateFinished(e) ==
    /\ "late" \in stop[e] /\ job[e] = "completed"
    /\ \E s \in {row[e]} \cup ({result[e]} \ {None}) : Finalize(e, s)
    /\ Late(e, {"late"}, {})
    /\ result' = Put(result, e, None)
    /\ UNCHANGED <<row, stopped, legs, failures, bull, workers, recovery, crashes, stalls>>

\* stopDuringRun.
StopRow(e) ==
    /\ "row" \in stop[e]
    /\ stop' = Put(stop, e, stop[e] \ {"row"})
    /\ row' = Put(row, e, "canceled")
    /\ UNCHANGED <<entry, told, result, stopped, legs, failures, bull, workers, recovery, crashes, stalls>>

\* The main dies and starts again, with nothing in memory.
MainCrash ==
    /\ crashes < MaxCrashes
    /\ crashes' = crashes + 1
    /\ entry' = [e \in Executions |-> IF entry[e] = "none" THEN "none" ELSE "lost"]
    /\ result' = [e \in Executions |-> None]
    /\ stop' = [e \in Executions |-> {}]
    /\ recovery' = [step |-> "idle", ids |-> {}]
    /\ UNCHANGED <<row, told, stopped, legs, failures, bull, workers, stalls>>

-----------------------------------------------------------------------------
(* A worker.                                                               *)

At(w, e, s) == up[w] # "gone" /\ work[w][e] = s
Go(w, e, s) == work' = [work EXCEPT ![w][e] = s]

\* Bull hands a worker that is not paused the next job, and its lock.
Pickup(w, e) ==
    /\ up[w] = "up" /\ job[e] = "waiting" /\ work[w][e] = "idle"
    /\ Cardinality({x \in Executions : work[w][x] # "idle"}) < Concurrency
    /\ job' = Put(job, e, "active") /\ lock' = Put(lock, e, w)
    /\ Go(w, e, "fetch")
    /\ UNCHANGED <<row, main, up, exits, recovery, crashes, stalls>>

\* processJob reads the row: an execution marked as crashed is not run.
Fetch(w, e) ==
    /\ At(w, e, "fetch")
    /\ Go(w, e, IF row[e] = "crashed" THEN "refused" ELSE "start")
    /\ UNCHANGED <<row, main, bull, up, exits, recovery, crashes, stalls>>

\* setRunning, whatever the status is now.
SetRunning(w, e) ==
    /\ At(w, e, "start")
    /\ row' = Put(row, e, "running")
    /\ Go(w, e, "setup")
    /\ UNCHANGED <<main, bull, up, exits, recovery, crashes, stalls>>

\* processJob throws before there is a run: without the data, without the workflow, or
\* when the run does not start.
FailToStart(w, e) ==
    /\ At(w, e, "fetch") \/ At(w, e, "setup")
    /\ Go(w, e, "failed")
    /\ UNCHANGED <<row, main, bull, up, exits, recovery, crashes, stalls>>

\* The run starts and is registered in runningJobs.
Register(w, e) ==
    /\ At(w, e, "setup")
    /\ Go(w, e, "running")
    /\ UNCHANGED <<row, main, bull, up, exits, recovery, crashes, stalls>>

\* The run ends and hookFunctionsSaveWorker saves it, whatever the status is now;
\* then it is taken out of runningJobs.
EndRun(w, e, s) ==
    /\ At(w, e, "running")
    /\ row' = Put(row, e, s)
    /\ Go(w, e, s)
    /\ UNCHANGED <<main, bull, up, exits, recovery, crashes, stalls>>

\* A run ends as canceled, and processJob throws: one that was aborted, which was taken
\* out of runningJobs at once, or one that finds itself past its timeout.
EndCanceled(w, e) ==
    /\ At(w, e, "aborted") \/ At(w, e, "running")
    /\ row' = Put(row, e, "canceled")
    /\ Go(w, e, "failed")
    /\ UNCHANGED <<main, bull, up, exits, recovery, crashes, stalls>>

\* Bull: only the worker that holds the lock of a job can end it.
Move(w, e, s) ==
    IF lock[e] = w THEN job' = Put(job, e, s) /\ lock' = Put(lock, e, None)
    ELSE UNCHANGED bull


\* The message job-finished, which may be lost, and the end of the job.  A job
\* that was refused completes without a message.
EndJob(w, e) ==
    /\ \/ \E s \in Outcomes : /\ At(w, e, s) /\ Move(w, e, "completed")
                              /\ result' \in {result, Put(result, e, s)}
       \/ At(w, e, "refused") /\ Move(w, e, "completed") /\ UNCHANGED result
       \/ At(w, e, "failed") /\ Move(w, e, "failed") /\ UNCHANGED result
    /\ Go(w, e, "idle")
    /\ UNCHANGED <<row, entry, told, stop, stopped, legs, failures, up, exits, recovery, crashes, stalls>>

\* stopWorker: the queue is paused ...
StopWorker(w) ==
    /\ up[w] = "up" /\ exits < MaxExits
    /\ up' = Put(up, w, "stopping") /\ exits' = exits + 1
    /\ UNCHANGED <<row, main, bull, work, recovery, crashes, stalls>>

Gone(w) ==
    /\ up' = Put(up, w, "gone")
    /\ work' = [work EXCEPT ![w] = [e \in Executions |-> "idle"]]
    /\ UNCHANGED <<row, main, bull, recovery, crashes, stalls>>

\* ... and the process exits once no job is in runningJobs.  Jobs in the steps
\* before and after are not waited for.
Exit(w) ==
    /\ up[w] = "stopping" /\ \A e \in Executions : work[w][e] # "running"
    /\ Gone(w) /\ UNCHANGED exits

WorkerCrash(w) ==
    /\ up[w] # "gone" /\ exits < MaxExits
    /\ exits' = exits + 1
    /\ Gone(w)

\* Bug: a stalled job is run again (Bull's default, maxStalledCount 1).
StallAndRetry(e) == job' = Put(job, e, "waiting") /\ lock' = Put(lock, e, None)

\* Bull, with maxStalledCount 0: a job whose lock was not renewed fails.
FailStalled(e) == job' = Put(job, e, "failed") /\ lock' = Put(lock, e, None)

\* The lock was held by a worker that is gone, or by one too busy to renew it.
Stall(e) ==
    /\ job[e] = "active"
    /\ IF up[lock[e]] = "gone" THEN UNCHANGED stalls
       ELSE stalls < MaxStalls /\ stalls' = stalls + 1
    /\ FailStalled(e)
    /\ UNCHANGED <<row, main, workers, recovery, crashes>>

-----------------------------------------------------------------------------
(* Queue recovery on the leader.                                           *)

\* Bug: executions that never started are not looked at.
RecoverReadRunning ==
    /\ recovery.step = "idle"
    /\ LET ids == {e \in Executions : row[e] = "running"} IN
       ids # {} /\ recovery' = [step |-> "jobs", ids |-> ids]
    /\ UNCHANGED <<row, main, bull, workers, crashes, stalls>>

\* recoverFromQueue reads which executions are in progress ...
RecoverRead ==
    /\ recovery.step = "idle"
    /\ LET ids == {e \in Executions : row[e] \in InProgress} IN
       ids # {} /\ recovery' = [step |-> "jobs", ids |-> ids]
    /\ UNCHANGED <<row, main, bull, workers, crashes, stalls>>

\* ... then which jobs there are ...
RecoverJobs ==
    /\ recovery.step = "jobs"
    /\ LET dangling == {e \in recovery.ids : job[e] \notin {"active", "waiting"}} IN
       recovery' = [step |-> IF dangling = {} THEN "idle" ELSE "mark", ids |-> dangling]
    /\ UNCHANGED <<row, main, bull, workers, crashes, stalls>>

\* Bug: the update does not ask for the status.
MarkAllAsCrashed == row' = [e \in Executions |-> IF e \in recovery.ids THEN "crashed" ELSE row[e]]

\* ... and ExecutionRepository.markAsCrashed marks those that are still in progress.
MarkAsCrashed ==
    row' = [e \in Executions |->
                IF e \in recovery.ids /\ row[e] \in InProgress THEN "crashed" ELSE row[e]]

RecoverMark ==
    /\ recovery.step = "mark"
    /\ MarkAsCrashed
    /\ recovery' = [step |-> "idle", ids |-> {}]
    /\ UNCHANGED <<main, bull, workers, crashes, stalls>>

Next ==
    \/ \E e \in Executions :
        \/ Add(e) \/ AddJob(e) \/ AddJobFails(e) \/ JobFinished(e) \/ JobFailed(e) \/ SaveError(e)
        \/ Stop(e) \/ StopJob(e) \/ StopRow(e) \/ Stall(e)
        \/ ProcessLateError(e) \/ SaveLateError(e) \/ LateFinished(e)
    \/ \E w \in Workers, e \in Executions :
        \/ Pickup(w, e) \/ Fetch(w, e) \/ SetRunning(w, e) \/ FailToStart(w, e) \/ Register(w, e)
        \/ (\E s \in Outcomes : EndRun(w, e, s)) \/ EndCanceled(w, e) \/ EndJob(w, e)
    \/ \E w \in Workers : StopWorker(w) \/ Exit(w) \/ WorkerCrash(w)
    \/ MainCrash \/ RecoverRead \/ RecoverJobs \/ RecoverMark

Spec == Init /\ [][Next]_vars

\* Processes that are up do what they have begun, runs end, Bull hands out jobs and
\* finds stalled ones, and the leader's recovery runs again and again.
FairSpec ==
    /\ Spec
    /\ \A e \in Executions :
        /\ WF_vars(AddJob(e)) /\ WF_vars(JobFinished(e) \/ JobFailed(e) \/ SaveError(e))
        /\ WF_vars(StopJob(e)) /\ WF_vars(StopRow(e)) /\ WF_vars(Stall(e))
        /\ WF_vars(\E w \in Workers : Pickup(w, e))
        /\ \A w \in Workers :
            WF_vars(\/ Fetch(w, e) \/ SetRunning(w, e) \/ FailToStart(w, e) \/ Register(w, e)
                    \/ (\E s \in Outcomes : EndRun(w, e, s)) \/ EndCanceled(w, e) \/ EndJob(w, e))
    /\ WF_vars(RecoverRead \/ RecoverJobs \/ RecoverMark)

-----------------------------------------------------------------------------
(* Properties.                                                             *)

\* An execution is never run by two workers at a time, over crashes, shutdowns and
\* lost locks: a stalled job fails and is not handed out again (setupQueue sets
\* maxStalledCount to 0).
OneWorker ==
    \A e \in Executions :
        Cardinality({w \in Workers : work[w][e] \in {"start", "setup", "running", "aborted"}}) <= 1

\* "only genuinely in-progress rows should be crashed" (markAsCrashed): what the
\* main was told of a success, and passed on to whoever waited for it, is what the
\* database keeps: neither recovery nor a late save replaces it.  When a user stopped
\* the execution, the stop or the error that the main saves after it may.
ToldIsKept ==
    \A e \in Executions : told[e] = "success" =>
        row[e] = "success" \/ (stopped[e] /\ row[e] \in {"canceled", "error"})

\* "Mark in-progress executions as crashed if stored in DB as new or running but
\* absent from the queue" (recoverFromQueue): no execution stays in progress for
\* ever, whichever process dies between any two of its steps.
Ends ==
    \A e \in Executions : row[e] \in InProgress ~> row[e] \notin InProgress


=============================================================================
