----------------------------- MODULE WaitTracker -----------------------------
(***************************************************************************)
(* Waiting executions: how an execution that was put to wait is resumed    *)
(* (packages/cli/src/wait-tracker.ts, with waiting-webhooks.ts and         *)
(* workflow-helpers.ts; regular mode, several main processes over one      *)
(* database).                                                              *)
(*                                                                         *)
(* The main that leads polls the database for waits that end soon and sets *)
(* a timer for each.  A timer, a call of a waiting webhook and the end of  *)
(* a sub-workflow each start a resume: it reads the execution, then claims *)
(* it by a conditional update ("only if waiting"), which writes back the   *)
(* data that was read.  Nothing else keeps two resumes apart.              *)
(*                                                                         *)
(* Times are ticks that remain, so that a time that has passed is 0.       *)
(* A timer may fire any number of ticks late, and the leader may poll at    *)
(* any time: the 60 s between two polls only matter to how late a wait     *)
(* ends.                                                                   *)
(***************************************************************************)
EXTENDS Naturals

CONSTANTS
    Mains,
    Executions,
    ParentOf,       \* the execution whose Execute Workflow node started one, or None
    None,
    Timed,          \* executions with a Wait node
    Durations,      \* how long a Wait node may ask for
    Never,          \* WAIT_INDEFINITELY
    NotSet,         \* no timer, no query
    Cleared,        \* the entry of a timer that was cleared
    Horizon,        \* how far a poll looks ahead (70 s)
    MaxAttempts,    \* MAX_PARENT_RESUME_ATTEMPTS
    Webhooked,      \* executions with a waiting webhook
    Stoppable,      \* executions a user may stop
    MaxWaits,       \* bound: how often an execution waits
    MaxTerms,       \* bound: how often some main becomes leader
    MaxResumes,     \* bound: resumes under way at a time
    MaxReportFailures, \* bound: how many calls of one operation of a report fail
    MaxFailures,    \* bound: how many other database calls fail
    MaxCrashes      \* bound: how many mains crash

ASSUME WaitAssumption ==
    /\ {MaxAttempts, MaxWaits} \subseteq Nat \ {0}
    /\ {MaxTerms, MaxResumes, MaxReportFailures, MaxFailures, MaxCrashes} \subseteq Nat
    /\ Durations \subseteq Nat /\ Horizon \in Nat
    /\ {Never, NotSet, Cleared, None} \cap Nat = {} /\ None \notin Mains \cup Executions
    /\ ParentOf \in [Executions -> Executions \cup {None}]
    /\ \A e \in Executions : ParentOf[e] # e
    /\ Timed \cup Webhooked \cup Stoppable \subseteq Executions

VARIABLES
    row,            \* the executions in the database
    run,            \* activeExecutions: the engine that runs an execution
    leads, terms,   \* mains that lead, and how often one came to
    alive,
    polled,         \* the answer to a main's query, on its way
    timer,          \* waitingExecutions of a main
    resume,         \* resumes under way, by slot
    stopping,       \* executions whose stop still has to write the row
    failures, crashes,
    leftover        \* history: executions whose wait began while a timer was still about an
                    \* earlier one

bounds == <<failures, crashes>>
vars == <<row, run, leads, terms, alive, polled, timer, resume, stopping, bounds, leftover>>

\* What is left of a time that was set.
Times == UNION {0..d : d \in Durations \cup {Horizon}}
Slots == 1..MaxResumes
\* The saved data: which wait it was saved at, and whether the node that waits
\* for a sub-workflow has been given the sub-workflow's result.
Data == [wait : 0..MaxWaits, result : BOOLEAN]
Rows == [status : {"new", "running", "waiting", "success", "canceled"},
         till : Times \cup {Never}, data : Data]
Origins == {"start", "timer", "webhook", "child"}
\* hold: a sub-workflow came back waiting, so this execution has to wait too.
Runs == [on : Mains, from : Origins, data : Data, hold : BOOLEAN]
NoRun == [on |-> None]
Resumes == [of : Executions, on : Mains, from : Origins \ {"start"}, data : Data,
            step : {"update", "write", "fetch", "claim"}, tries : 1..MaxAttempts]
Idle == [step |-> "idle"]

TypeOK ==
    /\ row \in [Executions -> Rows]
    /\ run \in [Executions -> Runs \cup {NoRun}]
    /\ leads \subseteq Mains /\ alive \subseteq Mains
    /\ terms \in 0..MaxTerms
    /\ polled \in [Mains -> [Executions -> Times \cup {None}] \cup {NotSet}]
    /\ timer \in [Mains -> [Executions -> Times \cup {NotSet, Cleared}]]
    /\ resume \in [Slots -> Resumes \cup {Idle}]
    /\ stopping \subseteq Executions
    /\ failures \in 0..MaxFailures /\ crashes \in 0..MaxCrashes
    /\ leftover \subseteq Executions

NoData == [wait |-> 0, result |-> FALSE]

\* Executions that no other one starts are running somewhere.
Init ==
    /\ row = [e \in Executions |->
                [status |-> IF ParentOf[e] = None THEN "running" ELSE "new",
                 till |-> Never, data |-> NoData]]
    /\ \E main \in [Executions -> Mains] :
        run = [e \in Executions |->
                IF ParentOf[e] = None
                THEN [on |-> main[e], from |-> "start", data |-> NoData, hold |-> FALSE]
                ELSE NoRun]
    /\ leads = {} /\ alive = Mains
    /\ terms = 0
    /\ polled = [m \in Mains |-> NotSet]
    /\ timer = [m \in Mains |-> [e \in Executions |-> NotSet]]
    /\ resume = [k \in Slots |-> Idle]
    /\ stopping = {}
    /\ failures = 0 /\ crashes = 0 /\ leftover = {}

Running(e) == run[e] # NoRun

\* A query's answer, a timer or the resume of a timer is about a wait of e.
Polled(m, e) == polled[m] # NotSet /\ polled[m][e] # None
IsSet(m, e) == timer[m][e] \notin {NotSet, Cleared}
ByTimer(e) == {k \in Slots : resume[k] # Idle /\ resume[k].of = e /\ resume[k].from = "timer"}
Tracked(e) == ByTimer(e) # {} \/ \E m \in Mains : Polled(m, e) \/ IsSet(m, e)

Alone(e) == \A c \in Executions : ParentOf[c] = e /\ Running(c) => run[c].from # "start"

-----------------------------------------------------------------------------
(* Tracking: what a leader does.                                           *)

\* startTracking (init of a leader, or leader-takeover): poll at once and then
\* at intervals.
StartTracking(m) ==
    /\ m \in alive \ leads /\ terms < MaxTerms
    /\ leads' = leads \cup {m}
    /\ terms' = terms + 1
    /\ UNCHANGED <<row, run, alive, polled, timer, resume, stopping, bounds, leftover>>

\* Some other main leads or will.
Succeeded(m) == \E n \in alive \ {m} : n \in leads \/ terms < MaxTerms

\* stopTracking (leader-stepdown): the timers are cleared, their entries stay, and
\* a query under way goes on.
StopTracking(m) ==
    /\ m \in leads /\ Succeeded(m)
    /\ leads' = leads \ {m}
    /\ timer' = [timer EXCEPT ![m] = [e \in Executions |->
                    IF @[e] = NotSet THEN NotSet ELSE Cleared]]
    /\ UNCHANGED <<row, run, terms, alive, polled, resume, stopping, bounds, leftover>>

\* Bug: the query has no upper limit, and returns executions that wait for ever.
AllWaitingExecutions ==
    [e \in Executions |-> IF row[e].status = "waiting" THEN row[e].till ELSE None]

\* Bug: the query leaves out the executions whose time has passed.
FutureExecutions ==
    [e \in Executions |->
        IF row[e].status = "waiting" /\ row[e].till \in 1..Horizon THEN row[e].till ELSE None]

\* ExecutionRepository.getWaitingExecutions, with the times it returns.
WaitingExecutions ==
    [e \in Executions |->
        IF row[e].status = "waiting" /\ row[e].till \in 0..Horizon THEN row[e].till ELSE None]

\* getWaitingExecutions up to its await.
Poll(m) ==
    /\ m \in leads /\ polled[m] = NotSet
    /\ polled' = [polled EXCEPT ![m] = WaitingExecutions]
    /\ UNCHANGED <<row, run, leads, terms, alive, timer, resume, stopping, bounds, leftover>>

\* Bug: the delay is computed the wrong way round, and is negative.
SetTimersAtOnce(m) ==
    /\ polled[m] # NotSet
    /\ timer' = [timer EXCEPT ![m] = [e \in Executions |->
                    IF polled[m][e] # None /\ @[e] = NotSet THEN 0 ELSE @[e]]]
    /\ polled' = [polled EXCEPT ![m] = NotSet]
    /\ UNCHANGED <<row, run, leads, terms, alive, resume, stopping, bounds, leftover>>

\* ... and after it: a timer for each execution that has no entry.
SetTimers(m) ==
    /\ polled[m] # NotSet
    /\ timer' = [timer EXCEPT ![m] = [e \in Executions |->
                    IF polled[m][e] # None /\ @[e] = NotSet THEN polled[m][e] ELSE @[e]]]
    /\ polled' = [polled EXCEPT ![m] = NotSet]
    /\ UNCHANGED <<row, run, leads, terms, alive, resume, stopping, bounds, leftover>>

Decrease(t) == IF t \in Nat \ {0} THEN t - 1 ELSE t

Tick ==
    /\ row' = [e \in Executions |-> [row[e] EXCEPT !.till = Decrease(@)]]
    /\ polled' = [m \in Mains |-> IF polled[m] = NotSet THEN NotSet
                    ELSE [e \in Executions |-> Decrease(polled[m][e])]]
    /\ timer' = [m \in Mains |-> [e \in Executions |-> Decrease(timer[m][e])]]
    /\ <<row, polled, timer>>' # <<row, polled, timer>>
    /\ UNCHANGED <<run, leads, terms, alive, resume, stopping, bounds, leftover>>

-----------------------------------------------------------------------------
(* Resuming.  startExecution reads ("fetch") and claims; the end of a      *)
(* sub-workflow first updates its parent's data ("update", "write").       *)

Free == {k \in Slots : resume[k] = Idle}

\* A new resume in the first free slot.
Begin(r) ==
    /\ Free # {}
    /\ resume' = [resume EXCEPT ![CHOOSE k \in Free : \A j \in Free : k <= j] = r]

Continue(k, s) == resume' = [resume EXCEPT ![k].step = s]
End(k) == resume' = [resume EXCEPT ![k] = Idle]

\* A timer fires: startExecution up to its first await.
Fire(m, e) ==
    /\ timer[m][e] = 0
    /\ timer' = [timer EXCEPT ![m][e] = NotSet]
    /\ Begin([of |-> e, on |-> m, from |-> "timer", data |-> NoData,
              step |-> "fetch", tries |-> 1])
    /\ UNCHANGED <<row, run, leads, terms, alive, polled, stopping, bounds, leftover>>

\* The execution is read; one that succeeded is an error that is not retried.
Fetch(k) ==
    /\ resume[k].step = "fetch"
    /\ LET e == resume[k].of IN
       IF row[e].status = "success" THEN End(k)
       ELSE resume' = [resume EXCEPT ![k].step = "claim", ![k].data = row[e].data]
    /\ UNCHANGED <<row, run, leads, terms, alive, polled, timer, stopping, bounds, leftover>>

\* WaitingWebhooks.executeWebhook: the execution is read on any main, and the call
\* is refused unless it waits.
Webhook(m, e) ==
    /\ m \in alive /\ e \in Webhooked /\ row[e].status = "waiting"
    /\ Begin([of |-> e, on |-> m, from |-> "webhook", data |-> row[e].data,
              step |-> "claim", tries |-> 1])
    /\ UNCHANGED <<row, run, leads, terms, alive, polled, timer, stopping, bounds, leftover>>

Resumed(k) ==
    LET r == resume[k] IN
    /\ row' = [row EXCEPT ![r.of] = [status |-> "running", till |-> Never, data |-> r.data]]
    /\ run' = [run EXCEPT ![r.of] = [on |-> r.on, from |-> r.from, data |-> r.data, hold |-> FALSE]]

\* Bug: only an execution that has ended is refused.
ClaimUnlessEnded(k) ==
    /\ resume[k].step = "claim"
    /\ IF row[resume[k].of].status \in {"waiting", "running"} THEN Resumed(k) ELSE UNCHANGED <<row, run>>
    /\ End(k)
    /\ leftover' = leftover \ {resume[k].of}
    /\ UNCHANGED <<leads, terms, alive, polled, timer, stopping, bounds>>

\* Bug: only an execution that runs is refused.
ClaimUnlessRunning(k) ==
    /\ resume[k].step = "claim"
    /\ IF row[resume[k].of].status # "running" THEN Resumed(k) ELSE UNCHANGED <<row, run>>
    /\ End(k)
    /\ leftover' = leftover \ {resume[k].of}
    /\ UNCHANGED <<leads, terms, alive, polled, timer, stopping, bounds>>

\* ActiveExecutions.add for an existing execution: it is run if the row could be
\* changed from waiting, with the data that was read; otherwise
\* ExecutionAlreadyResumingError ends the resume.
Claim(k) ==
    /\ resume[k].step = "claim"
    /\ IF row[resume[k].of].status = "waiting" THEN Resumed(k) ELSE UNCHANGED <<row, run>>
    /\ End(k)
    /\ leftover' = leftover \ {resume[k].of}
    /\ UNCHANGED <<leads, terms, alive, polled, timer, stopping, bounds>>

\* updateParentExecutionWithChildResults: a parent that does not wait is left alone.
UpdateRead(k) ==
    /\ resume[k].step = "update"
    /\ LET p == resume[k].of IN
       IF row[p].status # "waiting"
       THEN resume' = [resume EXCEPT ![k].step = "fetch", ![k].tries = 1]
       ELSE resume' = [resume EXCEPT ![k].step = "write",
                                     ![k].data = [row[p].data EXCEPT !.result = TRUE]]
    /\ UNCHANGED <<row, run, leads, terms, alive, polled, timer, stopping, bounds, leftover>>

\* ... its data, as read and with the result, are written whatever its status is now.
UpdateWrite(k) ==
    /\ resume[k].step = "write"
    /\ row' = [row EXCEPT ![resume[k].of].data = resume[k].data]
    /\ resume' = [resume EXCEPT ![k].step = "fetch", ![k].tries = 1]
    /\ UNCHANGED <<run, leads, terms, alive, polled, timer, stopping, bounds, leftover>>

\* Bug: a parent's resume is given up at the first failure.
GiveUp(k) == End(k)

\* withRetry: the operation of a sub-workflow's report starts over, up to
\* MaxAttempts times; the resumes of timers and webhooks are not retried.
Retry(k) ==
    IF resume[k].from # "child" \/ resume[k].tries = MaxAttempts THEN End(k)
    ELSE resume' = [resume EXCEPT ![k].tries = @ + 1,
                        ![k].step = IF @ \in {"update", "write"} THEN "update" ELSE "fetch"]

\* A call of the database fails, without effect: one of a sub-workflow's report, of
\* another resume, or a poll.
Fail ==
    /\ \/ \E k \in Slots \ Free :
            /\ IF resume[k].from = "child"
               THEN resume[k].tries <= MaxReportFailures /\ UNCHANGED failures
               ELSE failures < MaxFailures /\ failures' = failures + 1
            /\ Retry(k) /\ UNCHANGED polled
       \/ \E m \in Mains : /\ polled[m] # NotSet /\ failures < MaxFailures
                           /\ failures' = failures + 1
                           /\ polled' = [polled EXCEPT ![m] = NotSet]
                           /\ UNCHANGED resume
    /\ UNCHANGED <<row, run, leads, terms, alive, timer, stopping, crashes, leftover>>

-----------------------------------------------------------------------------
(* The engine.                                                             *)

\* executeWorkflow: the Execute Workflow node starts a sub-workflow in place, one
\* item after the other.
StartChild(c) ==
    LET p == ParentOf[c] IN
    /\ row[c].status = "new" /\ p # None
    /\ Running(p) /\ Alone(p)
    /\ row' = [row EXCEPT ![c].status = "running"]
    /\ run' = [run EXCEPT ![c] = [on |-> run[p].on, from |-> "start", data |-> NoData, hold |-> FALSE]]
    /\ UNCHANGED <<leads, terms, alive, polled, timer, resume, stopping, bounds, leftover>>

\* hookFunctionsSave: a run never overwrites the status canceled.
Save(e, new) == row' = [row EXCEPT ![e] = IF @.status = "canceled" THEN @ ELSE new]

\* The run ends at a node that waits: a Wait node, for a time or for its webhook,
\* or an Execute Workflow node whose sub-workflow waits.  The parent of a
\* sub-workflow that ran in place is told.
PutToWait(e) ==
    /\ Running(e) /\ Alone(e) /\ run[e].data.wait < MaxWaits
    /\ \E t \in IF run[e].hold THEN {Never}
                ELSE {t \in Durations : e \in Timed} \cup {t \in {Never} : e \in Webhooked} :
        Save(e, [status |-> "waiting", till |-> t,
                 data |-> [wait |-> run[e].data.wait + 1, result |-> FALSE]])
    /\ LET p == ParentOf[e] IN
       run' = IF run[e].from = "start" /\ p # None /\ run[p] # NoRun
              THEN [run EXCEPT ![e] = NoRun, ![p].hold = TRUE]
              ELSE [run EXCEPT ![e] = NoRun]
    /\ leftover' = IF Tracked(e) THEN leftover \cup {e} ELSE leftover \ {e}
    /\ UNCHANGED <<leads, terms, alive, polled, timer, resume, stopping, bounds>>

\* The run ends.  A sub-workflow that was resumed reports to its parent:
\* resumeParentExecution, once the run has been saved.
Finish(e) ==
    /\ Running(e) /\ Alone(e) /\ ~run[e].hold
    /\ Save(e, [status |-> "success", till |-> Never, data |-> run[e].data])
    /\ run' = [run EXCEPT ![e] = NoRun]
    /\ IF run[e].from # "start" /\ ParentOf[e] # None
       THEN Begin([of |-> ParentOf[e], on |-> run[e].on, from |-> "child", data |-> NoData,
                   step |-> "update", tries |-> 1])
       ELSE UNCHANGED resume
    /\ UNCHANGED <<leads, terms, alive, polled, timer, stopping, bounds, leftover>>

-----------------------------------------------------------------------------
(* Stopping, and crashes.                                                  *)

\* stopInRegularMode on main m: a run of this main is canceled, and nobody is told
\* its result; a timer of this main is cleared.
Stop(m, e) ==
    /\ m \in alive /\ e \in Stoppable \ stopping
    /\ row[e].status \in {"waiting", "running"} /\ Alone(e)
    /\ run' = IF Running(e) /\ run[e].on = m THEN [run EXCEPT ![e] = NoRun] ELSE run
    /\ timer' = [timer EXCEPT ![m][e] = NotSet]
    /\ stopping' = stopping \cup {e}
    /\ UNCHANGED <<row, leads, terms, alive, polled, resume, bounds, leftover>>

\* stopDuringRun writes the row, whatever it has become.
StopWrite(e) ==
    /\ e \in stopping
    /\ row' = [row EXCEPT ![e].status = "canceled", ![e].till = Never]
    /\ stopping' = stopping \ {e}
    /\ UNCHANGED <<run, leads, terms, alive, polled, timer, resume, bounds, leftover>>

\* A main dies with its runs, its timers and the resumes under way in it.
Crash(m) ==
    /\ crashes < MaxCrashes /\ m \in alive /\ Succeeded(m)
    /\ crashes' = crashes + 1
    /\ alive' = alive \ {m} /\ leads' = leads \ {m}
    /\ run' = [e \in Executions |-> IF run[e].on = m THEN NoRun ELSE run[e]]
    /\ polled' = [polled EXCEPT ![m] = NotSet]
    /\ timer' = [timer EXCEPT ![m] = [e \in Executions |-> NotSet]]
    /\ resume' = [k \in Slots |-> IF resume[k] # Idle /\ resume[k].on = m THEN Idle ELSE resume[k]]
    /\ UNCHANGED <<row, terms, stopping, failures, leftover>>

Next ==
    \/ \E m \in Mains : StartTracking(m) \/ StopTracking(m) \/ Poll(m) \/ SetTimers(m) \/ Crash(m)
    \/ \E m \in Mains, e \in Executions : Fire(m, e) \/ Webhook(m, e) \/ Stop(m, e)
    \/ \E k \in Slots : Fetch(k) \/ Claim(k) \/ UpdateRead(k) \/ UpdateWrite(k)
    \/ \E e \in Executions : StartChild(e) \/ PutToWait(e) \/ Finish(e) \/ StopWrite(e)
    \/ Fail \/ Tick

Spec == Init /\ [][Next]_vars

\* Mains take over, time passes, timers fire and calls return.  Nobody has to call
\* a webhook, to stop an execution or to end a run.  (Other executions are never
\* given a timer.)
Fairness ==
    /\ WF_vars(Tick)
    /\ \A m \in Mains : WF_vars(StartTracking(m)) /\ WF_vars(Poll(m) \/ SetTimers(m))
    /\ \A m \in Mains, e \in Timed : WF_vars(Fire(m, e))
    /\ \A k \in Slots : WF_vars(Fetch(k) \/ Claim(k) \/ UpdateRead(k) \/ UpdateWrite(k))

FairSpec == Spec /\ Fairness

-----------------------------------------------------------------------------
(* Properties.                                                             *)

\* "Only one child will successfully resume the parent due to the atomic status
\* check in ActiveExecutions.add()" (updateParentExecutionWithChildResults): over
\* timers of two mains, webhooks and sub-workflows, an execution that an engine
\* runs is never given to a second one.
OneRunAtATime ==
    [][\A e \in Executions :
        Running(e) /\ Running(e)' => run'[e].on = run[e].on /\ run'[e].from = run[e].from]_vars

\* "Add timers for each waiting execution that they get started at the correct
\* time" (WaitTracker.getWaitingExecutions): a timer never resumes an execution
\* before the time it waits for, unless a timer, an answer or a timer's resume of an
\* earlier wait was around when this wait began.  The code does not tell waits apart: the
\* timer of a wait that a webhook ended resumes the next one, whatever its time is.
NotBeforeTime ==
    [][\A e \in Executions \ leftover :
        row[e].status = "waiting" /\ Running(e)' /\ run'[e].from = "timer" => row[e].till = 0]_vars

\* A stopped execution stays stopped: no timer, webhook, sub-workflow or run that
\* was under way when the stop was written brings it back.
StoppedStays ==
    [][\A e \in Executions : row[e].status = "canceled" => row'[e].status = "canceled"]_vars

\* The leader has the entry of a cleared timer for e, and skips it in its polls.
Skipped(e) == \E m \in leads : timer[m][e] = Cleared

\* A wait for a time ends, over changes of the leader, crashes of the leader and
\* failing queries: a resume that failed is picked up by a later poll.  It need not if
\* from some point on a main leads that led before, since stopTracking left entries there.
WaitEnds ==
    \A e \in Timed :
        \/ row[e].status = "waiting" /\ row[e].till # Never ~> row[e].status # "waiting"
        \/ <>[]Skipped(e)

\* "so a transient failure recovers and the parent resumes" (resumeParentExecution):
\* once a sub-workflow's result is on its way into the data of a waiting parent,
\* the parent is resumed, unless the main that does so crashes.
ReportResumes ==
    \A p \in {ParentOf[c] : c \in Executions} \ {None} :
        (\E k \in Slots : resume[k] # Idle /\ resume[k].of = p /\ resume[k].step = "write")
            ~> (row[p].status # "waiting" \/ crashes > 0)

\* "on child execution completion, resume parent execution" (startExecution): a
\* parent does not wait for a sub-workflow that has ended.  Violated: the
\* sub-workflow can be resumed and end before its parent has saved that it waits;
\* updateParentExecutionWithChildResults and add then both find a parent that does
\* not wait, and give up without an error.
ParentResumes ==
    \A c \in Executions :
        ParentOf[c] # None =>
            (row[c].status = "success" ~> row[ParentOf[c]].status # "waiting")

=============================================================================
