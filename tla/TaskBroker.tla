------------------------------ MODULE TaskBroker ------------------------------
(***************************************************************************)
(* Task runners: code nodes ask the broker for a runner, runners offer to  *)
(* take tasks, and the broker matches the two.                             *)
(*   - the broker: packages/cli/src/task-runners/task-broker/,             *)
(*   - the requester in the same process: .../task-managers/,              *)
(*   - the runner, a process of its own behind a WebSocket:                *)
(*     packages/@n8n/task-runner/src/task-runner.ts.                       *)
(*                                                                         *)
(* An offer is accepted by the broker at most once and each acceptance     *)
(* makes one task, so a task goes by the number of its offer.  The two     *)
(* directions of a runner's connection are sequences of messages.  Calls   *)
(* between broker and requester are made in the same process and settle    *)
(* before the next event, so they belong to the step that makes them.      *)
(***************************************************************************)
EXTENDS Integers, FiniteSets, SequencesExt, Filtering

CONSTANTS
    Runners, Requests,
    Offers,             \* the numbers of the offers ever sent
    RunnerOf,           \* the runner that sends an offer
    TypeOf,             \* the task type of a runner and of a request
    MaxConcurrency,     \* tasks a runner takes at a time
    Mode,               \* "internal" or "external"
    None

ASSUME OffersAssumption ==
    /\ Offers \subseteq Nat /\ IsFiniteSet(Offers) /\ None \notin Offers \cup Requests
    /\ RunnerOf \in [Offers -> Runners]
    /\ MaxConcurrency \in Nat \ {0}
    /\ Mode \in {"internal", "external"}

VARIABLES
    known,          \* broker: knownRunners
    pendingOffers,  \* broker: pendingTaskOffers
    pending,        \* broker: pendingTaskRequests
    accepting,      \* broker: the request an unanswered acceptOffer is for
    tasks,          \* broker: the request a stored task is for
    armed,          \* broker: tasks whose timeout is set
    brokerDraining, \* broker: isDraining
    request,        \* requester: how far each request is
    serving,        \* requester: the task it was told is ready
    given,          \* history: the tasks that got the settings of a request
    conn,           \* runner: "up", "draining" or "down"
    open,           \* runner: openOffers
    used,           \* runner: offers sent so far
    runningTasks,   \* runner: the status of each running task
    toBroker, toRunner

brokerVars == <<known, pendingOffers, pending, accepting, tasks, armed, brokerDraining>>
requesterVars == <<request, serving, given>>
runnerVars == <<conn, open, used, runningTasks>>
vars == <<brokerVars, requesterVars, runnerVars, toBroker, toRunner>>

Msg(type, o) == [type |-> type, task |-> o]
Of(r) == {o \in Offers : RunnerOf[o] = r}
Answers == {"done", "error", "cancelled", "expired"}
Messages == [type : {"offer", "accepted", "rejected", "done", "error"}, task : Offers]
Orders == [type : {"accept", "settings", "cancel"}, task : Offers] \cup {[type |-> "drain", task |-> None]}

TypeOK ==
    /\ known \in SUBSET Runners
    /\ pendingOffers \in Seq(Offers) /\ pending \in Seq(Requests)
    /\ accepting \in [Offers -> Requests \cup {None}]
    /\ tasks \in [Offers -> Requests \cup {None}]
    /\ armed \in SUBSET Offers
    /\ brokerDraining \in BOOLEAN
    /\ request \in [Requests -> {"idle", "requested", "running"} \cup Answers]
    /\ serving \in [Requests -> Offers \cup {None}]
    /\ given \in [Requests -> SUBSET Offers]
    /\ conn \in [Runners -> {"up", "draining", "down"}]
    /\ open \in SUBSET Offers /\ used \in SUBSET Offers
    /\ runningTasks \in [Offers -> {"none", "waitingForSettings", "running",
                                    "aborting:cancelled", "aborting:timeout"}]
    /\ toBroker \in [Runners -> Seq(Messages)]
    /\ toRunner \in [Runners -> Seq(Orders)]

\* The runners have connected and registered.
Init ==
    /\ known = Runners
    /\ pendingOffers = <<>> /\ pending = <<>>
    /\ accepting = [o \in Offers |-> None]
    /\ tasks = [o \in Offers |-> None]
    /\ armed = {}
    /\ brokerDraining = FALSE
    /\ request = [q \in Requests |-> "idle"]
    /\ serving = [q \in Requests |-> None]
    /\ given = [q \in Requests |-> {}]
    /\ conn = [r \in Runners |-> "up"]
    /\ open = {} /\ used = {}
    /\ runningTasks = [o \in Offers |-> "none"]
    /\ toBroker = [r \in Runners |-> <<>>]
    /\ toRunner = [r \in Runners |-> <<>>]

\* A message to a runner the broker does not know, or whose connection is gone,
\* is dropped.
MessageRunner(r, m) ==
    toRunner' = IF r \in known /\ conn[r] # "down"
                THEN [toRunner EXCEPT ![r] = Append(@, m)] ELSE toRunner

\* A request that leaves the running state frees the requester's entry.
Answer(q, a) ==
    /\ request' = [request EXCEPT ![q] = a]
    /\ serving' = [serving EXCEPT ![q] = None]
    /\ UNCHANGED given

-----------------------------------------------------------------------------
(* The broker matches offers and requests.                                 *)

InProgress(q) == \E o \in Offers : accepting[o] = q

\* settleTasks gives the oldest offers of a type to the oldest requests of that
\* type that have no acceptance in progress.
Matches(os, ps) ==
    LET eligible(t) == Keep(ps, {q \in Requests : TypeOf[q] = t /\ ~InProgress(q)})
        offered(t) == Keep(os, {o \in Offers : TypeOf[RunnerOf[o]] = t})
        pairs(t) == {<<offered(t)[i], eligible(t)[i]>> :
                        i \in DOMAIN offered(t) \cap DOMAIN eligible(t)}
    IN UNION {pairs(TypeOf[q]) : q \in Range(ps)}

\* expireTasks, for offers whose time is up.
ExpireTasks(os, late) == Keep(os, Offers \ late)

\* settleTasks: late offers are dropped, then every match starts acceptOffer: the offer leaves the list and its runner is told the task's id.
SettleTasks(os, ps) ==
    \E late \in SUBSET Range(pendingOffers) :
        LET fresh == ExpireTasks(os, late)
            m == Matches(fresh, ps)
            matched == {p[1] : p \in m}
            orders(r) == Keep(fresh, matched \cap Of(r))
        IN /\ pending' = ps
           /\ pendingOffers' = Keep(fresh, Offers \ matched)
           /\ accepting' = [o \in Offers |-> IF o \in matched
                                THEN CHOOSE q \in Requests : <<o, q>> \in m ELSE accepting[o]]
           /\ toRunner' = [r \in Runners |-> IF conn[r] = "down" THEN toRunner[r]
                                ELSE toRunner[r] \o [i \in 1..Len(orders(r)) |->
                                                        Msg("accept", orders(r)[i])]]

\* startTask at the requester, until it waits for the answer to its request.
StartTask(q) ==
    /\ request[q] = "idle"
    /\ request' = [request EXCEPT ![q] = IF brokerDraining THEN "expired" ELSE "requested"]
    /\ UNCHANGED <<serving, given>>

\* A node starts a task.  A draining broker expires the request at once.
TaskRequested(q) ==
    /\ StartTask(q)
    /\ IF brokerDraining
       THEN UNCHANGED <<pending, pendingOffers, accepting, toRunner>>
       ELSE SettleTasks(pendingOffers, Append(pending, q))
    /\ UNCHANGED <<known, tasks, armed, brokerDraining, runnerVars, toBroker>>

Pending(q) == \E i \in 1..Len(pending) : pending[i] = q

\* findIndex and splice: the entry of q leaves the list of pending requests.
Splice(q) ==
    \E i \in 1..Len(pending) : pending[i] = q /\ pending' = RemoveAt(pending, i)

\* handleRequestTimeout: the timer runs as long as the request is pending, also
\* while a runner is being asked.
RequestTimeout(q) ==
    /\ Splice(q)
    /\ Answer(q, "expired")
    /\ UNCHANGED <<known, pendingOffers, accepting, tasks, armed, brokerDraining,
                   runnerVars, toBroker, toRunner>>

\* Two seconds without an answer: the request may be matched again by a later
\* offer or request; a late answer of the runner finds a settled promise.
AcceptTimeout(o) ==
    /\ accepting[o] # None
    /\ accepting' = [accepting EXCEPT ![o] = None]
    /\ UNCHANGED <<known, pendingOffers, pending, tasks, armed, brokerDraining,
                   requesterVars, runnerVars, toBroker, toRunner>>

-----------------------------------------------------------------------------
(* The broker receives what a runner sent.                                 *)

Receive(r, type) ==
    /\ toBroker[r] # <<>>
    /\ Head(toBroker[r]).type = type
    /\ toBroker' = [toBroker EXCEPT ![r] = Tail(@)]

\* onRunnerMessage drops what comes from a runner it does not know.
Ignored(r) ==
    /\ r \notin known
    /\ toBroker[r] # <<>>
    /\ toBroker' = [toBroker EXCEPT ![r] = Tail(@)]
    /\ UNCHANGED <<brokerVars, requesterVars, runnerVars, toRunner>>

TaskOffered(r) ==
    LET o == Head(toBroker[r]).task IN
    /\ r \in known
    /\ Receive(r, "offer")
    /\ SettleTasks(Append(pendingOffers, o), pending)
    /\ UNCHANGED <<known, tasks, armed, brokerDraining, requesterVars, runnerVars>>

\* taskReady at the requester: startTask goes on and answers with the settings.
TaskReady(q, o) ==
    /\ request' = [request EXCEPT ![q] = "running"]
    /\ serving' = [serving EXCEPT ![q] = o]
    /\ given' = [given EXCEPT ![q] = @ \cup {o}]

SendTaskSettings(r, o) ==
    /\ armed' = armed \cup {o}
    /\ MessageRunner(r, Msg("settings", o))

\* Bug: an accepted request stays in the list of pending ones.
AcceptKeepsPending(r) ==
    LET o == Head(toBroker[r]).task
        q == accepting[o] IN
    /\ r \in known
    /\ Receive(r, "accepted")
    /\ IF Pending(q)
       THEN /\ accepting' = [accepting EXCEPT ![o] = None]
            /\ tasks' = [tasks EXCEPT ![o] = q]
            /\ TaskReady(q, o) /\ SendTaskSettings(r, o)
       ELSE UNCHANGED <<accepting, tasks, requesterVars, armed, toRunner>>
    /\ UNCHANGED <<known, pendingOffers, pending, brokerDraining, runnerVars>>

\* The second half of acceptOffer.  The task is stored first; if the request is
\* still pending, the requester is told, sends the settings, the timeout is set
\* and the settings go to the runner.
RunnerAccepted(r) ==
    LET o == Head(toBroker[r]).task
        q == accepting[o] IN
    /\ r \in known
    /\ Receive(r, "accepted")
    /\ \/ /\ q = None
          /\ UNCHANGED <<accepting, tasks, pending, armed, requesterVars, toRunner>>
       \/ /\ q # None
          /\ accepting' = [accepting EXCEPT ![o] = None]
          /\ tasks' = [tasks EXCEPT ![o] = q]
          /\ IF Pending(q)
             THEN /\ Splice(q)
                  /\ TaskReady(q, o) /\ SendTaskSettings(r, o)
             ELSE UNCHANGED <<pending, requesterVars, armed, toRunner>>
    /\ UNCHANGED <<known, pendingOffers, brokerDraining, runnerVars>>

\* A rejection; a deferral (the launcher's answer while it starts a runner) has
\* the same effect, since the request timer it sets anew may fire at any time.
RunnerRejected(r) ==
    LET o == Head(toBroker[r]).task IN
    /\ r \in known
    /\ Receive(r, "rejected")
    /\ accepting' = [accepting EXCEPT ![o] = None]
    /\ UNCHANGED <<known, pendingOffers, pending, tasks, armed, brokerDraining,
                   requesterVars, runnerVars, toRunner>>

\* Bug: the task is dropped and the requester is not told.
ForgetTask(o, a) ==
    /\ tasks' = [tasks EXCEPT ![o] = None]
    /\ armed' = armed \ {o}
    /\ UNCHANGED requesterVars

\* Bug: the requester is told a result it has no case for.
EndTaskUnmapped(o, a) ==
    /\ tasks' = [tasks EXCEPT ![o] = None]
    /\ armed' = armed \ {o}
    /\ IF \E q \in Requests : serving[q] = o
       THEN Answer(tasks[o], "taskended")
       ELSE UNCHANGED requesterVars

\* Tell the requester how task o ended, clear the timeout and drop the task.
EndTask(o, a) ==
    /\ tasks' = [tasks EXCEPT ![o] = None]
    /\ armed' = armed \ {o}
    /\ IF \E q \in Requests : serving[q] = o
       THEN Answer(tasks[o], a)
       ELSE UNCHANGED requesterVars

\* taskDoneHandler and taskErrorHandler.
TaskEnded(r) ==
    LET o == Head(toBroker[r]).task IN
    /\ r \in known
    /\ Receive(r, "done") \/ Receive(r, "error")
    /\ IF tasks[o] # None
       THEN EndTask(o, Head(toBroker[r]).type)
       ELSE UNCHANGED <<tasks, armed, requesterVars>>
    /\ UNCHANGED <<known, pendingOffers, pending, accepting, brokerDraining, runnerVars, toRunner>>

\* handleTaskTimeout: only an external runner is told; an internal one is
\* restarted by whoever listens to the event.
TaskTimeout(o) ==
    /\ o \in armed
    /\ tasks[o] # None
    /\ IF Mode = "external" THEN MessageRunner(RunnerOf[o], Msg("cancel", o)) ELSE UNCHANGED toRunner
    /\ EndTask(o, "error")
    /\ UNCHANGED <<known, pendingOffers, pending, accepting, brokerDraining, runnerVars, toBroker>>

\* The broker's cancelTask.
PassCancellation(o) ==
    IF tasks[o] # None
    THEN /\ tasks' = [tasks EXCEPT ![o] = None]
         /\ MessageRunner(RunnerOf[o], Msg("cancel", o))
    ELSE UNCHANGED <<tasks, toRunner>>

\* The execution is cancelled: the requester gives up and the broker passes the
\* cancellation on.  The timeout stays set and finds no task.
CancelTask(q) ==
    LET o == serving[q] IN
    /\ o # None
    /\ Answer(q, "cancelled")
    /\ PassCancellation(o)
    /\ UNCHANGED <<known, pendingOffers, pending, accepting, armed, brokerDraining,
                   runnerVars, toBroker>>

\* Bug: the tasks of a runner that is gone are left to themselves.
DeregisterKeepsTasks(r) ==
    /\ r \in known
    /\ known' = known \ {r}
    /\ pendingOffers' = Keep(pendingOffers, Offers \ Of(r))
    /\ UNCHANGED <<tasks, pending, accepting, armed, brokerDraining, requesterVars, runnerVars, toBroker, toRunner>>

\* deregisterRunner, after a closed connection or a failed heartbeat: its offers
\* go and its tasks fail.  An acceptance in progress is left to its timeout.
DeregisterRunner(r) ==
    LET failed == {o \in Of(r) : tasks[o] # None}
        told == {q \in Requests : serving[q] \in failed} IN
    /\ r \in known
    /\ known' = known \ {r}
    /\ pendingOffers' = Keep(pendingOffers, Offers \ Of(r))
    /\ tasks' = [o \in Offers |-> IF o \in failed THEN None ELSE tasks[o]]
    /\ request' = [q \in Requests |-> IF q \in told THEN "error" ELSE request[q]]
    /\ serving' = [q \in Requests |-> IF q \in told THEN None ELSE serving[q]]
    /\ UNCHANGED <<pending, accepting, armed, brokerDraining, given, runnerVars, toBroker, toRunner>>

\* drainActiveTasks: new requests are refused and every runner is told.
StartDraining ==
    /\ ~brokerDraining
    /\ brokerDraining' = TRUE
    /\ toRunner' = [r \in Runners |-> IF r \in known /\ conn[r] # "down"
                        THEN Append(toRunner[r], Msg("drain", None)) ELSE toRunner[r]]
    /\ UNCHANGED <<known, pendingOffers, pending, accepting, tasks, armed,
                   requesterVars, runnerVars, toBroker>>

-----------------------------------------------------------------------------
(* The runner.                                                             *)

Busy(r) == {o \in Of(r) : runningTasks[o] # "none"}

\* How many of S come before o.
Before(S, o) == Cardinality({p \in S : p < o})

\* The n lowest offers of r that have not been sent.
Fresh(r, n) == {o \in Of(r) \ used : Before(Of(r) \ used, o) < n}

\* One message for each new offer, the lowest first.
OffersOf(new) ==
    [i \in 1..Cardinality(new) |-> Msg("offer", CHOOSE o \in new : Before(new, o) = i - 1)]

\* Bug: only open offers count against the limit.
SendOffersIgnoringTasks(r, finished, replies) ==
    \E stale \in SUBSET (open \cap Of(r)) :
        LET kept == (open \cap Of(r)) \ stale
            new == IF conn[r] = "up" THEN Fresh(r, MaxConcurrency - Cardinality(kept)) ELSE {}
        IN /\ open' = (open \ stale) \cup new
           /\ used' = used \cup new
           /\ toBroker' = [toBroker EXCEPT ![r] = @ \o replies \o OffersOf(new)]

\* sendOffers, after the replies of a task that finishes: drop stale offers and
\* offer what is left of the concurrency, unless draining.
SendOffers(r, finished, replies) ==
    \E stale \in SUBSET (open \cap Of(r)) :
        LET kept == (open \cap Of(r)) \ stale
            free == MaxConcurrency - (Cardinality(kept) + Cardinality(Busy(r) \ finished))
            new == IF conn[r] = "up" THEN Fresh(r, free) ELSE {}
        IN /\ open' = (open \ stale) \cup new
           /\ used' = used \cup new
           /\ toBroker' = [toBroker EXCEPT ![r] = @ \o replies \o OffersOf(new)]

\* finishTask.
FinishTask(o, replies) ==
    /\ runningTasks' = [runningTasks EXCEPT ![o] = "none"]
    /\ SendOffers(RunnerOf[o], {o}, replies)

\* The interval that sends offers; it is cleared when the runner drains.
OfferInterval(r) ==
    /\ conn[r] = "up"
    /\ SendOffers(r, {}, <<>>)
    /\ UNCHANGED <<brokerVars, requesterVars, conn, runningTasks, toRunner>>

\* Take the next order off the connection.
Order(r, type) ==
    /\ conn[r] # "down"
    /\ toRunner[r] # <<>>
    /\ Head(toRunner[r]).type = type
    /\ toRunner' = [toRunner EXCEPT ![r] = Tail(@)]

OfferAccepted(r) ==
    LET o == Head(toRunner[r]).task
        reply(m) == toBroker' = [toBroker EXCEPT ![r] = Append(@, Msg(m, o))] IN
    /\ Order(r, "accept")
    /\ \/ /\ conn[r] = "draining"
          /\ reply("rejected")
          /\ UNCHANGED <<open, runningTasks>>
       \/ /\ conn[r] = "up"
          /\ Cardinality(Busy(r)) >= MaxConcurrency \/ o \notin open
          /\ open' = open \ {o}
          /\ reply("rejected")
          /\ UNCHANGED runningTasks
       \/ /\ conn[r] = "up"
          /\ Cardinality(Busy(r)) < MaxConcurrency /\ o \in open
          /\ open' = open \ {o}
          /\ runningTasks' = [runningTasks EXCEPT ![o] = "waitingForSettings"]
          /\ reply("accepted")
    /\ UNCHANGED <<brokerVars, requesterVars, conn, used>>

\* Settings for a task that is gone are ignored.  In any other status than
\* waitingForSettings the code fails an assertion; here such an order would block.
ReceivedSettings(r) ==
    LET o == Head(toRunner[r]).task IN
    /\ Order(r, "settings")
    /\ \/ /\ runningTasks[o] = "none"
          /\ UNCHANGED runningTasks
       \/ /\ runningTasks[o] = "waitingForSettings"
          /\ runningTasks' = [runningTasks EXCEPT ![o] = "running"]
    /\ UNCHANGED <<brokerVars, requesterVars, conn, open, used, toBroker>>

\* A task that runs is aborted; one that still waits for its settings would be
\* finished, but the broker cancels only what it has sent settings for.
TaskCancelled(r) ==
    LET o == Head(toRunner[r]).task IN
    /\ Order(r, "cancel")
    /\ IF runningTasks[o] = "waitingForSettings"
       THEN FinishTask(o, <<>>)
       ELSE /\ runningTasks' = [runningTasks EXCEPT ![o] = IF @ = "running" THEN "aborting:cancelled" ELSE @]
            /\ UNCHANGED <<open, used, toBroker>>
    /\ UNCHANGED <<brokerVars, requesterVars, conn>>

\* onBrokerDrain.
BrokerDrain(r) ==
    /\ Order(r, "drain")
    /\ conn' = [conn EXCEPT ![r] = "draining"]
    /\ UNCHANGED <<brokerVars, requesterVars, open, used, runningTasks, toBroker>>

\* Bug: a task that waits for its settings is marked and not finished.
TimeoutKeepsWaiting(o) ==
    /\ runningTasks[o] \in {"waitingForSettings", "running"}
    /\ runningTasks' = [runningTasks EXCEPT ![o] = "aborting:timeout"]
    /\ UNCHANGED <<brokerVars, requesterVars, conn, open, used, toBroker, toRunner>>

\* The timer of TaskState.
TaskTimedOut(o) ==
    /\ \/ /\ runningTasks[o] = "waitingForSettings"
          /\ FinishTask(o, <<Msg("error", o)>>)
       \/ /\ runningTasks[o] = "running"
          /\ runningTasks' = [runningTasks EXCEPT ![o] = "aborting:timeout"]
          /\ UNCHANGED <<open, used, toBroker>>
    /\ UNCHANGED <<brokerVars, requesterVars, conn, toRunner>>

\* executeTask resolves or rejects; a cancelled task reports nothing.
TaskExecuted(o) ==
    /\ \/ /\ runningTasks[o] \in {"running", "aborting:timeout"}
          /\ \E m \in {"done", "error"} : FinishTask(o, <<Msg(m, o)>>)
       \/ /\ runningTasks[o] = "aborting:cancelled"
          /\ FinishTask(o, <<>>)
    /\ UNCHANGED <<brokerVars, requesterVars, conn, toRunner>>

\* stop commits to draining after its grace period.
StopRunner(r) ==
    /\ conn[r] = "up"
    /\ conn' = [conn EXCEPT ![r] = "draining"]
    /\ open' = open \ Of(r)
    /\ UNCHANGED <<brokerVars, requesterVars, used, runningTasks, toBroker, toRunner>>

\* The runner process ends: it was stopped, it lost its connection or it died.
\* What it sent may still arrive.
RunnerExits(r) ==
    /\ conn[r] # "down"
    /\ conn' = [conn EXCEPT ![r] = "down"]
    /\ open' = open \ Of(r)
    /\ runningTasks' = [o \in Offers |-> IF RunnerOf[o] = r THEN "none" ELSE runningTasks[o]]
    /\ toRunner' = [toRunner EXCEPT ![r] = <<>>]
    /\ UNCHANGED <<brokerVars, requesterVars, used, toBroker>>

-----------------------------------------------------------------------------

Deliver(r) ==
    \/ Ignored(r) \/ TaskOffered(r) \/ RunnerAccepted(r) \/ RunnerRejected(r) \/ TaskEnded(r)
    \/ OfferAccepted(r) \/ ReceivedSettings(r) \/ TaskCancelled(r) \/ BrokerDrain(r)

Next ==
    \/ \E q \in Requests : TaskRequested(q) \/ RequestTimeout(q) \/ CancelTask(q)
    \/ \E o \in Offers : AcceptTimeout(o) \/ TaskTimeout(o)
                            \/ TaskTimedOut(o) \/ TaskExecuted(o)
    \/ \E r \in Runners : Deliver(r) \/ OfferInterval(r) \/ DeregisterRunner(r)
                             \/ StopRunner(r) \/ RunnerExits(r)
    \/ StartDraining

Spec == Init /\ [][Next]_vars

\* Timers fire, the connections of live processes deliver, an aborted or running
\* task comes to an end, and a closed connection is noticed.
FairSpec ==
    /\ Spec
    /\ \A q \in Requests : WF_vars(RequestTimeout(q))
    /\ \A o \in Offers : WF_vars(TaskTimeout(o)) /\ WF_vars(TaskTimedOut(o)) /\ WF_vars(TaskExecuted(o))
    /\ \A r \in Runners : WF_vars(Deliver(r)) /\ WF_vars(conn[r] = "down" /\ DeregisterRunner(r))

-----------------------------------------------------------------------------
(* Properties.                                                             *)

\* A runner never promises more than its concurrency: open offers and running
\* tasks together stay within it, whatever goes stale, is cancelled or is late.
WithinConcurrency ==
    \A r \in Runners : Cardinality((open \cap Of(r)) \cup Busy(r)) <= MaxConcurrency

\* The code of a request is handed to at most one task, over rejections, accept
\* timeouts, late acceptances and runners that disappear.
SettingsGivenOnce == \A q \in Requests : Cardinality(given[q]) <= 1

\* receivedSettings: "These states should never happen".  Settings reach a task
\* that waits for them or one that is gone, never one that runs or aborts.
SettingsExpected ==
    \A r \in Runners :
        toRunner[r] # <<>> /\ Head(toRunner[r]).type = "settings"
            => runningTasks[Head(toRunner[r]).task] \in {"none", "waitingForSettings"}

\* Whoever asks for a task gets an answer: the request expires, or the task
\* ends, fails, times out or is cancelled.
RequestAnswered == \A q \in Requests : request[q] = "requested" ~> request[q] \in Answers

\* No stored task stays for good, not even one whose request expired while its
\* runner was being asked: the drain of the broker waits for these.
TaskEnds == \A o \in Offers : tasks[o] # None ~> tasks[o] = None

=============================================================================
