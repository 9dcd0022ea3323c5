--------------------------- MODULE WaitTrackerProofs ---------------------------
(***************************************************************************)
(* Proofs about WaitTracker for any mains, executions and resumes under    *)
(* way at a time: an execution is run by one engine (RunsOnce), a stop is  *)
(* final (StopIsFinal), and every variable keeps its type (TypesAreKept).  *)
(* The first two rest on the status column alone; timers, polls,           *)
(* leadership and the data a resume read play no part.                     *)
(* That no timer resumes an execution early (NotResumedEarly) rests on     *)
(* them: whatever a timer's resume, a timer or an answer is ahead of, it   *)
(* is not ahead of the wait it is about.                                   *)
(***************************************************************************)
EXTENDS WaitTracker, TLAPS

\* The variables the argument is about.
ClaimTypes ==
    /\ row \in [Executions -> Rows]
    /\ run \in [Executions -> Runs \cup {NoRun}]
    /\ resume \in [Slots -> Resumes \cup {Idle}]

\* Whoever runs an execution finds it running, or canceled by a stop.
RunningRow == \A e \in Executions : Running(e) => row[e].status \in {"running", "canceled"}

ClaimInv == ClaimTypes /\ RunningRow

\* Times that remain are natural numbers; what is left of one is one as well.
LEMMA TimesRemain ==
    /\ Times \subseteq Nat
    /\ 0..Horizon \subseteq Times /\ Durations \subseteq Times
    /\ \A t \in Times : Decrease(t) \in Times
<1>1. \A d \in Durations \cup {Horizon} : d \in Nat
  BY WaitAssumption
<1>2. Times \subseteq Nat /\ 0..Horizon \subseteq Times /\ Durations \subseteq Times
  BY <1>1 DEF Times
<1>3. ASSUME NEW t \in Times  PROVE Decrease(t) \in Times
  <2>1. PICK d \in Durations \cup {Horizon} : t \in 0..d
    BY DEF Times
  <2>2. d \in Nat /\ t \in Nat
    BY <1>1, <2>1
  <2>3. Decrease(t) \in 0..d
    BY <2>1, <2>2 DEF Decrease
  <2> QED  BY <2>3 DEF Times
<1> QED  BY <1>2, <1>3

\* Never and the other marks are no times, and do not decrease.
LEMMA MarksStay ==
    \A t \in {Never, NotSet, Cleared, None} : t \notin Times /\ Decrease(t) = t
BY WaitAssumption, TimesRemain DEF Decrease

\* The data an execution starts with, and the first attempt.
LEMMA FirstOnes == NoData \in Data /\ 1 \in 1..MaxAttempts
BY WaitAssumption DEF NoData, Data

\* No record of a run is NoRun, and no resume is Idle.
LEMMA RunsAreRuns ==
    /\ NoRun \notin Runs
    /\ Idle \notin Resumes
    /\ \A r \in Resumes : r.step # "idle"
<1>1. NoRun \notin Runs
  BY WaitAssumption DEF NoRun, Runs
<1>2. Idle \notin Resumes /\ \A r \in Resumes : r.step # "idle"
  BY DEF Idle, Resumes
<1> QED  BY <1>1, <1>2

\* A step that writes no row, run or resume.
LEMMA OtherPreserves ==
    ASSUME ClaimInv, UNCHANGED <<row, run, resume>>
    PROVE  ClaimInv'
BY DEF ClaimInv, ClaimTypes, RunningRow, Running

\* A step that changes the resumes under way, and writes no row or run.
LEMMA ResumePreserves ==
    ASSUME ClaimInv, UNCHANGED <<row, run>>, resume' \in [Slots -> Resumes \cup {Idle}]
    PROVE  ClaimInv'
BY DEF ClaimInv, ClaimTypes, RunningRow, Running

\* Begin starts a resume in a free slot and leaves the others alone.
LEMMA BeginTypes ==
    ASSUME ClaimInv, NEW r \in Resumes, Begin(r)
    PROVE  resume' \in [Slots -> Resumes \cup {Idle}]
BY DEF ClaimInv, ClaimTypes, Begin

\* A resume that is not idle is a record of Resumes.
LEMMA Underway ==
    ASSUME ClaimInv, NEW k \in Slots, resume[k].step # "idle"
    PROVE  resume[k] \in Resumes
BY DEF ClaimInv, ClaimTypes, Idle

LEMMA RunUnderway ==
    ASSUME ClaimInv, NEW e \in Executions, Running(e)
    PROVE  run[e] \in Runs
BY DEF ClaimInv, ClaimTypes, Running

\* A timer, or a call of a webhook, begins a resume.
LEMMA FirePreserves ==
    ASSUME ClaimInv, NEW m \in Mains, NEW e \in Executions, Fire(m, e)
    PROVE  ClaimInv'
<1>1. [of |-> e, on |-> m, from |-> "timer", data |-> NoData, step |-> "fetch", tries |-> 1]
          \in Resumes
  BY FirstOnes DEF Resumes, Origins
<1> QED  BY <1>1, BeginTypes, ResumePreserves DEF Fire

LEMMA WebhookPreserves ==
    ASSUME ClaimInv, NEW m \in Mains, NEW e \in Executions, Webhook(m, e)
    PROVE  ClaimInv'
<1>1. row[e].data \in Data
  BY DEF ClaimInv, ClaimTypes, Rows
<1>2. [of |-> e, on |-> m, from |-> "webhook", data |-> row[e].data, step |-> "claim", tries |-> 1]
          \in Resumes
  BY <1>1, FirstOnes DEF Resumes, Origins
<1> QED  BY <1>2, BeginTypes, ResumePreserves DEF Webhook

LEMMA FetchPreserves ==
    ASSUME ClaimInv, NEW k \in Slots, Fetch(k)
    PROVE  ClaimInv'
<1>1. resume[k] \in Resumes
  BY Underway DEF Fetch
<1>2. row[resume[k].of].data \in Data
  BY <1>1 DEF ClaimInv, ClaimTypes, Rows, Resumes
<1>3. [resume[k] EXCEPT !.step = "claim", !.data = row[resume[k].of].data] \in Resumes
  BY <1>1, <1>2 DEF Resumes
<1>4. resume' \in [Slots -> Resumes \cup {Idle}]
  BY <1>1, <1>3 DEF Fetch, End, ClaimInv, ClaimTypes
<1> QED  BY <1>4, ResumePreserves DEF Fetch

LEMMA UpdateReadPreserves ==
    ASSUME ClaimInv, NEW k \in Slots, UpdateRead(k)
    PROVE  ClaimInv'
<1>1. resume[k] \in Resumes
  BY Underway DEF UpdateRead
<1>2. [row[resume[k].of].data EXCEPT !.result = TRUE] \in Data
  BY <1>1 DEF ClaimInv, ClaimTypes, Rows, Resumes, Data
<1>3. /\ [resume[k] EXCEPT !.step = "fetch", !.tries = 1] \in Resumes
      /\ [resume[k] EXCEPT !.step = "write",
                          !.data = [row[resume[k].of].data EXCEPT !.result = TRUE]] \in Resumes
  BY <1>1, <1>2, FirstOnes DEF Resumes
<1>4. resume' \in [Slots -> Resumes \cup {Idle}]
  BY <1>3 DEF UpdateRead, ClaimInv, ClaimTypes
<1> QED  BY <1>4, ResumePreserves DEF UpdateRead

\* A database call fails: the resume starts over or is given up.
LEMMA FailPreserves ==
    ASSUME ClaimInv, Fail
    PROVE  ClaimInv'
<1>1. resume' \in [Slots -> Resumes \cup {Idle}]
  <2>1. CASE \E k \in Slots \ Free : Retry(k)
    <3>1. PICK k \in Slots \ Free : Retry(k)
      BY <2>1
    <3>2. resume[k] \in Resumes
      BY <3>1 DEF ClaimInv, ClaimTypes, Free
    <3> DEFINE s == IF resume[k].step \in {"update", "write"} THEN "update" ELSE "fetch"
    <3>3. s \in {"update", "fetch"}
      OBVIOUS
    <3>4. \/ resume' = [resume EXCEPT ![k] = Idle]
          \/ /\ resume[k].tries # MaxAttempts
             /\ resume' = [resume EXCEPT ![k].tries = @ + 1, ![k].step = s]
      BY <3>1 DEF Retry, End
    <3> HIDE DEF s
    <3>5. ASSUME resume[k].tries # MaxAttempts
          PROVE  [[resume[k] EXCEPT !.tries = resume[k].tries + 1] EXCEPT !.step = s] \in Resumes
      <4>1. resume[k].tries + 1 \in 1..MaxAttempts
        BY <3>2, <3>5, WaitAssumption DEF Resumes
      <4> QED  BY <3>2, <3>3, <4>1 DEF Resumes
    <3> QED  BY <3>4, <3>5 DEF ClaimInv, ClaimTypes
  <2>2. CASE UNCHANGED resume
    BY <2>2 DEF ClaimInv, ClaimTypes
  <2> QED  BY <2>1, <2>2 DEF Fail
<1> QED  BY <1>1, ResumePreserves DEF Fail

\* Time passes.
LEMMA TickPreserves ==
    ASSUME ClaimInv, Tick
    PROVE  ClaimInv'
<1>1. \A e \in Executions : row[e] \in Rows
  BY DEF ClaimInv, ClaimTypes
<1>2. \A t \in Times \cup {Never} : Decrease(t) \in Times \cup {Never}
  BY TimesRemain, MarksStay
<1>3. \A e \in Executions : [row[e] EXCEPT !.till = Decrease(@)] \in Rows
  BY <1>1, <1>2 DEF Rows
<1>4. \A e \in Executions : row'[e].status = row[e].status
  BY <1>1 DEF Tick, Rows
<1>5. row' \in [Executions -> Rows]
  BY <1>3 DEF Tick
<1> QED  BY <1>4, <1>5 DEF Tick, ClaimInv, ClaimTypes, RunningRow, Running

\* A claim that finds the row waiting: nobody runs the execution.
LEMMA ClaimPreserves ==
    ASSUME ClaimInv, NEW k \in Slots, Claim(k)
    PROVE  ClaimInv'
<1>1. resume[k] \in Resumes
  BY Underway DEF Claim
<1>2. resume' \in [Slots -> Resumes \cup {Idle}]
  BY DEF Claim, End, ClaimInv, ClaimTypes
<1>3. CASE UNCHANGED <<row, run>>
  BY <1>2, <1>3, ResumePreserves
<1>4. CASE Resumed(k)
  <2> DEFINE r == resume[k]
  <2>1. /\ r.of \in Executions
        /\ [status |-> "running", till |-> Never, data |-> r.data] \in Rows
        /\ [on |-> r.on, from |-> r.from, data |-> r.data, hold |-> FALSE] \in Runs
    BY <1>1 DEF Resumes, Rows, Runs
  <2>2. ClaimTypes'
    BY <1>2, <1>4, <2>1 DEF Resumed, ClaimInv, ClaimTypes
  <2>3. RunningRow'
    BY <1>4, <2>1 DEF Resumed, ClaimInv, ClaimTypes, RunningRow, Running
  <2> QED  BY <2>2, <2>3 DEF ClaimInv
<1> QED  BY <1>3, <1>4 DEF Claim

\* Only the data of the row change, whatever its status is now.
LEMMA UpdateWritePreserves ==
    ASSUME ClaimInv, NEW k \in Slots, UpdateWrite(k)
    PROVE  ClaimInv'
<1>1. resume[k] \in Resumes
  BY Underway DEF UpdateWrite
<1>2. resume' \in [Slots -> Resumes \cup {Idle}]
  <2>1. [resume[k] EXCEPT !.step = "fetch", !.tries = 1] \in Resumes
    BY <1>1, FirstOnes DEF Resumes
  <2> QED  BY <2>1 DEF UpdateWrite, ClaimInv, ClaimTypes
<1>3. resume[k].of \in Executions /\ resume[k].data \in Data
  BY <1>1 DEF Resumes
<1>4. /\ row' \in [Executions -> Rows]
      /\ \A e \in Executions : row'[e].status = row[e].status
  BY <1>3 DEF UpdateWrite, ClaimInv, ClaimTypes, Rows
<1> QED  BY <1>2, <1>4 DEF UpdateWrite, ClaimInv, ClaimTypes, RunningRow, Running

\* A sub-workflow whose row is new does not run yet.
LEMMA StartChildPreserves ==
    ASSUME ClaimInv, NEW c \in Executions, StartChild(c)
    PROVE  ClaimInv'
<1> DEFINE p == ParentOf[c]
<1>1. p \in Executions /\ run[p] \in Runs
  BY WaitAssumption, RunUnderway DEF StartChild
<1>2. [on |-> run[p].on, from |-> "start", data |-> NoData, hold |-> FALSE] \in Runs
  BY <1>1, FirstOnes DEF Runs, Origins
<1>3. /\ row' \in [Executions -> Rows]
      /\ \A e \in Executions \ {c} : row'[e] = row[e]
      /\ row'[c].status = "running"
  BY DEF StartChild, ClaimInv, ClaimTypes, Rows
<1>4. /\ run' \in [Executions -> Runs \cup {NoRun}]
      /\ \A e \in Executions \ {c} : run'[e] = run[e]
  BY <1>2 DEF StartChild, ClaimInv, ClaimTypes
<1> QED  BY <1>3, <1>4 DEF StartChild, ClaimInv, ClaimTypes, RunningRow, Running

\* A run ends: its row is saved unless it is canceled, and other rows and runs stay,
\* except that a parent may have to wait as well.
LEMMA SavePreserves ==
    ASSUME ClaimInv, NEW e \in Executions, NEW new \in Rows, Save(e, new),
           run' \in [Executions -> Runs \cup {NoRun}],
           run'[e] = NoRun,
           \A x \in Executions : run[x] = NoRun => run'[x] = NoRun,
           resume' \in [Slots -> Resumes \cup {Idle}]
    PROVE  ClaimInv'
<1>1. /\ row' \in [Executions -> Rows]
      /\ \A x \in Executions \ {e} : row'[x] = row[x]
  BY DEF Save, ClaimInv, ClaimTypes
<1> QED  BY <1>1 DEF ClaimInv, ClaimTypes, RunningRow, Running

LEMMA PutToWaitPreserves ==
    ASSUME ClaimInv, NEW e \in Executions, PutToWait(e)
    PROVE  ClaimInv'
<1> DEFINE p == ParentOf[e]
<1>1. run[e] \in Runs
  BY RunUnderway DEF PutToWait
<1>2. \E new \in Rows : Save(e, new)
  <2>1. PICK t \in IF run[e].hold THEN {Never}
                  ELSE {t \in Durations : e \in Timed} \cup {t \in {Never} : e \in Webhooked} :
            Save(e, [status |-> "waiting", till |-> t,
                     data |-> [wait |-> run[e].data.wait + 1, result |-> FALSE]])
    BY DEF PutToWait
  <2>2. t \in Times \cup {Never}
    BY <2>1, TimesRemain
  <2>3. run[e].data.wait + 1 \in 0..MaxWaits
    BY <1>1, WaitAssumption DEF PutToWait, Runs, Data
  <2>4. [status |-> "waiting", till |-> t,
         data |-> [wait |-> run[e].data.wait + 1, result |-> FALSE]] \in Rows
    BY <2>2, <2>3 DEF Rows, Data
  <2> QED  BY <2>1, <2>4
<1>3. /\ run' \in [Executions -> Runs \cup {NoRun}]
      /\ run'[e] = NoRun
      /\ \A x \in Executions : run[x] = NoRun => run'[x] = NoRun
  <2>1. CASE p # None /\ run[p] # NoRun /\ run' = [run EXCEPT ![e] = NoRun, ![p].hold = TRUE]
    <3>1. p \in Executions /\ p # e
      BY <2>1, WaitAssumption
    <3>2. run[p] \in Runs
      BY <2>1, <3>1 DEF ClaimInv, ClaimTypes
    <3>3. [run[p] EXCEPT !.hold = TRUE] \in Runs
      BY <3>2 DEF Runs
    <3>4. run' = [run EXCEPT ![e] = NoRun, ![p] = [run[p] EXCEPT !.hold = TRUE]]
      BY <2>1, <3>1 DEF ClaimInv, ClaimTypes
    <3> QED  BY <2>1, <3>1, <3>3, <3>4 DEF ClaimInv, ClaimTypes
  <2>2. CASE run' = [run EXCEPT ![e] = NoRun]
    BY <2>2 DEF ClaimInv, ClaimTypes
  <2> QED  BY <2>1, <2>2 DEF PutToWait
<1>4. resume' \in [Slots -> Resumes \cup {Idle}]
  BY DEF PutToWait, ClaimInv, ClaimTypes
<1> QED  BY <1>2, <1>3, <1>4, SavePreserves

LEMMA FinishPreserves ==
    ASSUME ClaimInv, NEW e \in Executions, Finish(e)
    PROVE  ClaimInv'
<1>1. run[e] \in Runs
  BY RunUnderway DEF Finish
<1>2. [status |-> "success", till |-> Never, data |-> run[e].data] \in Rows
  BY <1>1 DEF Rows, Runs
<1>3. resume' \in [Slots -> Resumes \cup {Idle}]
  <2>1. CASE ParentOf[e] # None
    <3>1. ParentOf[e] \in Executions
      BY <2>1, WaitAssumption
    <3>2. [of |-> ParentOf[e], on |-> run[e].on, from |-> "child", data |-> NoData,
           step |-> "update", tries |-> 1] \in Resumes
      BY <1>1, <3>1, FirstOnes DEF Resumes, Runs, Origins
    <3> QED  BY <3>2, BeginTypes DEF Finish, ClaimInv, ClaimTypes
  <2>2. CASE ParentOf[e] = None
    BY <2>2 DEF Finish, ClaimInv, ClaimTypes
  <2> QED  BY <2>1, <2>2
<1>4. /\ run' \in [Executions -> Runs \cup {NoRun}]
      /\ run'[e] = NoRun
      /\ \A x \in Executions : run[x] = NoRun => run'[x] = NoRun
  BY DEF Finish, ClaimInv, ClaimTypes
<1> QED  BY <1>2, <1>3, <1>4, SavePreserves DEF Finish

\* A stop cancels the run of its own main ...
LEMMA StopPreserves ==
    ASSUME ClaimInv, NEW m \in Mains, NEW e \in Executions, Stop(m, e)
    PROVE  ClaimInv'
<1>1. /\ run' \in [Executions -> Runs \cup {NoRun}]
      /\ \A x \in Executions : run[x] = NoRun => run'[x] = NoRun
  BY DEF Stop, ClaimInv, ClaimTypes
<1> QED  BY <1>1 DEF Stop, ClaimInv, ClaimTypes, RunningRow, Running

\* ... and writes canceled, which a run on another main does not mind.
LEMMA StopWritePreserves ==
    ASSUME ClaimInv, NEW e \in Executions, StopWrite(e)
    PROVE  ClaimInv'
<1>1. /\ row' \in [Executions -> Rows]
      /\ \A x \in Executions \ {e} : row'[x] = row[x]
      /\ row'[e].status = "canceled"
  BY DEF StopWrite, ClaimInv, ClaimTypes, Rows
<1> QED  BY <1>1 DEF StopWrite, ClaimInv, ClaimTypes, RunningRow, Running

\* A main dies with its runs and its resumes.
LEMMA CrashPreserves ==
    ASSUME ClaimInv, NEW m \in Mains, Crash(m)
    PROVE  ClaimInv'
<1>1. /\ run' \in [Executions -> Runs \cup {NoRun}]
      /\ \A x \in Executions : run[x] = NoRun => run'[x] = NoRun
  BY DEF Crash, ClaimInv, ClaimTypes
<1>2. resume' \in [Slots -> Resumes \cup {Idle}]
  BY DEF Crash, ClaimInv, ClaimTypes
<1> QED  BY <1>1, <1>2 DEF Crash, ClaimInv, ClaimTypes, RunningRow, Running

-----------------------------------------------------------------------------
(* The invariant, and what follows from it.                                *)

LEMMA InitClaimInv == Init => ClaimInv
<1> SUFFICES ASSUME Init PROVE ClaimInv
  OBVIOUS
<1>1. NoData \in Data
  BY FirstOnes
<1>2. row \in [Executions -> Rows]
  BY <1>1 DEF Init, Rows
<1>3. PICK main \in [Executions -> Mains] :
        run = [e \in Executions |->
                IF ParentOf[e] = None
                THEN [on |-> main[e], from |-> "start", data |-> NoData, hold |-> FALSE]
                ELSE NoRun]
  BY DEF Init
<1>4. \A e \in Executions :
        [on |-> main[e], from |-> "start", data |-> NoData, hold |-> FALSE] \in Runs
  BY <1>1 DEF Runs, Origins
<1>5. run \in [Executions -> Runs \cup {NoRun}]
  BY <1>3, <1>4
<1>6. resume \in [Slots -> Resumes \cup {Idle}]
  BY DEF Init
<1>7. RunningRow
  BY <1>3 DEF Init, RunningRow, Running
<1> QED  BY <1>2, <1>5, <1>6, <1>7 DEF ClaimInv, ClaimTypes

LEMMA NextPreserves == ClaimInv /\ [Next]_vars => ClaimInv'
<1> SUFFICES ASSUME ClaimInv, [Next]_vars PROVE ClaimInv'
  OBVIOUS
<1>1. CASE \E m \in Mains : StartTracking(m) \/ StopTracking(m) \/ Poll(m) \/ SetTimers(m)
  BY <1>1, OtherPreserves DEF StartTracking, StopTracking, Poll, SetTimers
<1>2. CASE \E m \in Mains : Crash(m)
  BY <1>2, CrashPreserves
<1>3. CASE \E m \in Mains, e \in Executions : Fire(m, e) \/ Webhook(m, e) \/ Stop(m, e)
  BY <1>3, FirePreserves, WebhookPreserves, StopPreserves
<1>4. CASE \E k \in Slots : Fetch(k) \/ Claim(k) \/ UpdateRead(k) \/ UpdateWrite(k)
  BY <1>4, FetchPreserves, ClaimPreserves, UpdateReadPreserves, UpdateWritePreserves
<1>5. CASE \E e \in Executions : StartChild(e) \/ PutToWait(e) \/ Finish(e) \/ StopWrite(e)
  BY <1>5, StartChildPreserves, PutToWaitPreserves, FinishPreserves, StopWritePreserves
<1>6. CASE Fail
  BY <1>6, FailPreserves
<1>7. CASE Tick
  BY <1>7, TickPreserves
<1>8. CASE UNCHANGED vars
  BY <1>8, OtherPreserves DEF vars
<1> QED  BY <1>1, <1>2, <1>3, <1>4, <1>5, <1>6, <1>7, <1>8 DEF Next

\* The two halves of the argument together.
THEOREM ClaimInvariant == Spec => []ClaimInv
BY InitClaimInv, NextPreserves, PTL DEF Spec

-----------------------------------------------------------------------------
(* Types: the variables that the argument above leaves out.                *)

OtherTypes ==
    /\ leads \subseteq Mains /\ alive \subseteq Mains
    /\ terms \in 0..MaxTerms
    /\ polled \in [Mains -> [Executions -> Times \cup {None}] \cup {NotSet}]
    /\ timer \in [Mains -> [Executions -> Times \cup {NotSet, Cleared}]]
    /\ stopping \subseteq Executions
    /\ failures \in 0..MaxFailures /\ crashes \in 0..MaxCrashes
    /\ leftover \subseteq Executions

\* A query answers with times that are left, and a timer is set to one of them.
LEMMA PollTypes ==
    ASSUME OtherTypes, NEW m \in Mains, Poll(m)
    PROVE  OtherTypes'
<1>1. WaitingExecutions \in [Executions -> Times \cup {None}]
  BY TimesRemain DEF WaitingExecutions
<1> QED  BY <1>1 DEF Poll, OtherTypes, bounds

LEMMA SetTimersTypes ==
    ASSUME OtherTypes, NEW m \in Mains, SetTimers(m)
    PROVE  OtherTypes'
<1>1. polled[m] \in [Executions -> Times \cup {None}]
  BY DEF SetTimers, OtherTypes
<1>2. timer[m] \in [Executions -> Times \cup {NotSet, Cleared}]
  BY DEF OtherTypes
<1>3. [e \in Executions |-> IF polled[m][e] # None /\ timer[m][e] = NotSet
                              THEN polled[m][e] ELSE timer[m][e]]
          \in [Executions -> Times \cup {NotSet, Cleared}]
  BY <1>1, <1>2
<1>4. timer' = [timer EXCEPT ![m] =
                  [e \in Executions |-> IF polled[m][e] # None /\ timer[m][e] = NotSet
                                        THEN polled[m][e] ELSE timer[m][e]]]
  BY DEF SetTimers, OtherTypes
<1>5. timer' \in [Mains -> [Executions -> Times \cup {NotSet, Cleared}]]
  BY <1>3, <1>4 DEF OtherTypes
<1>6. polled' \in [Mains -> [Executions -> Times \cup {None}] \cup {NotSet}]
  BY DEF SetTimers, OtherTypes
<1> QED  BY <1>5, <1>6 DEF SetTimers, OtherTypes, bounds

LEMMA StopTrackingTypes ==
    ASSUME OtherTypes, NEW m \in Mains, StopTracking(m)
    PROVE  OtherTypes'
<1>1. timer' \in [Mains -> [Executions -> Times \cup {NotSet, Cleared}]]
  BY DEF StopTracking, OtherTypes
<1> QED  BY <1>1 DEF StopTracking, OtherTypes, bounds

\* Every time that is left decreases to one, and the marks stay.
LEMMA TickTypes ==
    ASSUME OtherTypes, Tick
    PROVE  OtherTypes'
<1>1. ASSUME NEW m \in Mains
      PROVE  (IF polled[m] = NotSet THEN NotSet ELSE [e \in Executions |-> Decrease(polled[m][e])])
                 \in [Executions -> Times \cup {None}] \cup {NotSet}
  <2>1. CASE polled[m] = NotSet
    BY <2>1
  <2>2. CASE polled[m] # NotSet
    <3>1. polled[m] \in [Executions -> Times \cup {None}]
      BY <2>2 DEF OtherTypes
    <3>2. \A e \in Executions : Decrease(polled[m][e]) \in Times \cup {None}
      BY <3>1, TimesRemain, MarksStay
    <3> QED  BY <2>2, <3>2
  <2> QED  BY <2>1, <2>2
<1>2. ASSUME NEW m \in Mains, NEW e \in Executions
      PROVE  Decrease(timer[m][e]) \in Times \cup {NotSet, Cleared}
  <2>1. timer[m][e] \in Times \cup {NotSet, Cleared}
    BY DEF OtherTypes
  <2> QED  BY <2>1, TimesRemain, MarksStay
<1>3. polled' \in [Mains -> [Executions -> Times \cup {None}] \cup {NotSet}]
  BY <1>1 DEF Tick
<1>4. timer' \in [Mains -> [Executions -> Times \cup {NotSet, Cleared}]]
  BY <1>2 DEF Tick
<1> QED  BY <1>3, <1>4 DEF Tick, OtherTypes, bounds

LEMMA FireTypes ==
    ASSUME OtherTypes, NEW m \in Mains, NEW e \in Executions, Fire(m, e)
    PROVE  OtherTypes'
<1>1. timer' \in [Mains -> [Executions -> Times \cup {NotSet, Cleared}]]
  BY DEF Fire, OtherTypes
<1> QED  BY <1>1 DEF Fire, OtherTypes, bounds

LEMMA StopTypes ==
    ASSUME OtherTypes, NEW m \in Mains, NEW e \in Executions, Stop(m, e)
    PROVE  OtherTypes'
<1>1. timer' \in [Mains -> [Executions -> Times \cup {NotSet, Cleared}]]
  BY DEF Stop, OtherTypes
<1> QED  BY <1>1, WaitAssumption DEF Stop, OtherTypes, bounds

\* A failing call is counted, and may be a query.
LEMMA FailTypes ==
    ASSUME OtherTypes, Fail
    PROVE  OtherTypes'
<1>1. failures' \in 0..MaxFailures
  BY WaitAssumption DEF Fail, OtherTypes
<1>2. polled' \in [Mains -> [Executions -> Times \cup {None}] \cup {NotSet}]
  BY DEF Fail, OtherTypes
<1> QED  BY <1>1, <1>2 DEF Fail, OtherTypes

LEMMA CrashTypes ==
    ASSUME OtherTypes, NEW m \in Mains, Crash(m)
    PROVE  OtherTypes'
<1>1. crashes' \in 0..MaxCrashes
  BY WaitAssumption DEF Crash, OtherTypes
<1>2. polled' \in [Mains -> [Executions -> Times \cup {None}] \cup {NotSet}]
  BY DEF Crash, OtherTypes
<1>3. timer' \in [Mains -> [Executions -> Times \cup {NotSet, Cleared}]]
  BY DEF Crash, OtherTypes
<1> QED  BY <1>1, <1>2, <1>3 DEF Crash, OtherTypes

LEMMA StartTrackingTypes ==
    ASSUME OtherTypes, NEW m \in Mains, StartTracking(m)
    PROVE  OtherTypes'
<1>1. terms' \in 0..MaxTerms
  BY WaitAssumption DEF StartTracking, OtherTypes
<1> QED  BY <1>1 DEF StartTracking, OtherTypes, bounds

LEMMA NextKeepsTypes == OtherTypes /\ [Next]_vars => OtherTypes'
<1> SUFFICES ASSUME OtherTypes, [Next]_vars PROVE OtherTypes'
  OBVIOUS
<1>1. CASE \E m \in Mains : StartTracking(m) \/ StopTracking(m) \/ Poll(m) \/ SetTimers(m) \/ Crash(m)
  BY <1>1, StartTrackingTypes, StopTrackingTypes, PollTypes, SetTimersTypes, CrashTypes
<1>2. CASE \E m \in Mains, e \in Executions : Fire(m, e) \/ Stop(m, e)
  BY <1>2, FireTypes, StopTypes
<1>3. CASE \/ \E m \in Mains, e \in Executions : Webhook(m, e)
           \/ \E k \in Slots : Fetch(k) \/ Claim(k) \/ UpdateRead(k) \/ UpdateWrite(k)
           \/ \E e \in Executions : StartChild(e) \/ PutToWait(e) \/ Finish(e)
           \/ UNCHANGED vars
  BY <1>3 DEF Webhook, Fetch, Claim, UpdateRead, UpdateWrite, StartChild, PutToWait, Finish,
              OtherTypes, vars, bounds
<1>4. CASE \E e \in Executions : StopWrite(e)
  BY <1>4 DEF StopWrite, OtherTypes, bounds
<1>5. CASE Fail
  BY <1>5, FailTypes
<1>6. CASE Tick
  BY <1>6, TickTypes
<1> QED  BY <1>1, <1>2, <1>3, <1>4, <1>5, <1>6 DEF Next

\* Every time that is left is one that a wait or a poll set, whatever ticks pass
\* between a query, its answer and a timer; a report is tried at most MaxAttempts
\* times, and no execution waits more often than it may.
THEOREM TypesAreKept == Spec => []TypeOK
<1>1. Init => OtherTypes
  BY WaitAssumption DEF Init, OtherTypes
<1>2. ClaimInv /\ OtherTypes => TypeOK
  BY DEF ClaimInv, ClaimTypes, OtherTypes, TypeOK
<1> QED  BY <1>1, <1>2, NextKeepsTypes, ClaimInvariant, PTL DEF Spec

-----------------------------------------------------------------------------
(* What the invariant says of the steps.                                   *)

\* An execution that an engine runs is never given to another one: a claim finds the
\* row waiting, a sub-workflow starts when its row is new, and nobody who runs an
\* execution has such a row.  ActiveExecutions.add relies on the conditional update
\* alone, whatever timers, webhooks and sub-workflows of any main try.
THEOREM RunsOnce == Spec => OneRunAtATime
<1> DEFINE Kept == \A e \in Executions :
        Running(e) /\ Running(e)' => run'[e].on = run[e].on /\ run'[e].from = run[e].from
<1>1. ClaimInv /\ [Next]_vars => [Kept]_vars
  <2> SUFFICES ASSUME ClaimInv, Next, NEW e \in Executions, Running(e), Running(e)'
               PROVE  run'[e].on = run[e].on /\ run'[e].from = run[e].from
    OBVIOUS
  <2>1. run[e] \in Runs /\ row[e].status \in {"running", "canceled"}
    BY RunUnderway DEF ClaimInv, RunningRow
  <2>2. CASE UNCHANGED run
    BY <2>2
  <2>3. CASE \E k \in Slots : Claim(k)
    <3>1. PICK k \in Slots : Claim(k)
      BY <2>3
    <3>2. resume[k].of # e \/ UNCHANGED run
      BY <2>1, <3>1 DEF Claim
    <3> QED  BY <2>2, <3>1, <3>2 DEF Claim, Resumed, ClaimInv, ClaimTypes
  <2>4. CASE \E c \in Executions : StartChild(c)
    <3>1. PICK c \in Executions : StartChild(c)
      BY <2>4
    <3>2. c # e
      BY <2>1, <3>1 DEF StartChild
    <3> QED  BY <3>1, <3>2 DEF StartChild, ClaimInv, ClaimTypes
  <2>5. CASE \E x \in Executions : PutToWait(x)
    <3>1. PICK x \in Executions : PutToWait(x)
      BY <2>5
    <3>2. CASE run' = [run EXCEPT ![x] = NoRun, ![ParentOf[x]].hold = TRUE]
      BY <2>1, <3>2 DEF ClaimInv, ClaimTypes, Running, Runs, NoRun
    <3>3. CASE run' = [run EXCEPT ![x] = NoRun]
      BY <3>3 DEF ClaimInv, ClaimTypes, Running
    <3> QED  BY <3>1, <3>2, <3>3 DEF PutToWait
  <2>6. CASE \E x \in Executions : Finish(x)
    BY <2>6 DEF Finish, ClaimInv, ClaimTypes, Running
  <2>7. CASE \E m \in Mains, x \in Executions : Stop(m, x)
    BY <2>7 DEF Stop, ClaimInv, ClaimTypes, Running
  <2>8. CASE \E m \in Mains : Crash(m)
    BY <2>8 DEF Crash, ClaimInv, ClaimTypes, Running
  <2> QED  BY <2>2, <2>3, <2>4, <2>5, <2>6, <2>7, <2>8
           DEF Next, StartTracking, StopTracking, Poll, SetTimers, Fire, Webhook, Fetch,
               UpdateRead, UpdateWrite, StopWrite, Fail, Tick
<1> QED  BY <1>1, ClaimInvariant, PTL DEF Spec, OneRunAtATime

\* Once a stop has written canceled, no claim, save or report of a sub-workflow
\* replaces it.
THEOREM StopIsFinal == Spec => StoppedStays
<1> DEFINE Kept == \A e \in Executions : row[e].status = "canceled" => row'[e].status = "canceled"
<1>1. ClaimInv /\ [Next]_vars => [Kept]_vars
  <2> SUFFICES ASSUME ClaimInv, Next, NEW e \in Executions, row[e].status = "canceled"
               PROVE  row'[e].status = "canceled"
    OBVIOUS
  <2>1. row[e] \in Rows
    BY DEF ClaimInv, ClaimTypes
  <2>2. CASE UNCHANGED row
    BY <2>2
  <2>3. CASE Tick
    BY <2>1, <2>3 DEF Tick, Rows
  <2>4. CASE \E k \in Slots : Claim(k)
    BY <2>4 DEF Claim, Resumed, ClaimInv, ClaimTypes
  <2>5. CASE \E k \in Slots : UpdateWrite(k)
    BY <2>1, <2>5 DEF UpdateWrite, ClaimInv, ClaimTypes, Rows
  <2>6. CASE \E c \in Executions : StartChild(c)
    BY <2>1, <2>6 DEF StartChild, ClaimInv, ClaimTypes, Rows
  <2>7. CASE \E x \in Executions : PutToWait(x)
    BY <2>7 DEF PutToWait, Save, ClaimInv, ClaimTypes
  <2>8. CASE \E x \in Executions : Finish(x)
    BY <2>8 DEF Finish, Save, ClaimInv, ClaimTypes
  <2>9. CASE \E x \in Executions : StopWrite(x)
    BY <2>1, <2>9 DEF StopWrite, ClaimInv, ClaimTypes, Rows
  <2> QED  BY <2>2, <2>3, <2>4, <2>5, <2>6, <2>7, <2>8, <2>9
           DEF Next, StartTracking, StopTracking, Poll, SetTimers, Fire, Webhook, Stop, Fetch,
               UpdateRead, Fail, Crash
<1> QED  BY <1>1, ClaimInvariant, PTL DEF Spec, StoppedStays

-----------------------------------------------------------------------------
(* No timer resumes an execution early.                                    *)

\* While e waits, no answer, timer or timer's resume is ahead of the time it waits for.
NobodyEarly(e) ==
    row[e].status = "waiting" =>
      /\ \A m \in Mains : /\ Polled(m, e) => row[e].till \in 0..polled[m][e]
                          /\ IsSet(m, e) => row[e].till \in 0..timer[m][e]
      /\ ByTimer(e) # {} => row[e].till = 0

EarlyInv == \A e \in Executions \ leftover : NobodyEarly(e)

Typed == ClaimInv /\ OtherTypes

\* A resume in a slot is still the same one, or begins: a timer's when a timer has run out.
GoesOn(k) ==
    resume[k] # Idle /\ resume'[k].of = resume[k].of /\ resume'[k].from = resume[k].from
Begins(k) == resume'[k].from # "timer" \/ \E m \in Mains : timer[m][resume'[k].of] = 0

\* What the variables are, for a main, an execution and a slot.
LEMMA TypesOfEach ==
    ASSUME Typed
    PROVE  /\ \A e \in Executions : row[e] \in Rows
           /\ \A e \in Executions : Running(e) => run[e] \in Runs
           /\ \A k \in Slots : resume[k] # Idle => resume[k] \in Resumes
           /\ \A k \in Slots : resume[k].step # "idle" => resume[k] # Idle
           /\ \A m \in Mains, e \in Executions : Polled(m, e) => polled[m][e] \in Times
           /\ \A m \in Mains, e \in Executions : IsSet(m, e) <=> timer[m][e] \in Times
<1>1. \A m \in Mains, e \in Executions : Polled(m, e) => polled[m][e] \in Times
  BY DEF Typed, OtherTypes, Polled
<1>2. \A m \in Mains, e \in Executions : IsSet(m, e) <=> timer[m][e] \in Times
  BY MarksStay DEF Typed, OtherTypes, IsSet
<1> QED BY <1>1, <1>2 DEF Typed, ClaimInv, ClaimTypes, Running, Idle

\* A step that lets nobody begin to wait and no time pass: an answer is new only with
\* the time of the row, a timer with that of an answer, a resume with a timer that ran out.
LEMMA NobodyWaitsAnew ==
    ASSUME Typed, Typed', EarlyInv,
           \A e \in Executions : row'[e].status = "waiting" /\ e \notin leftover' =>
             row[e].status = "waiting" /\ row'[e].till = row[e].till /\ e \notin leftover,
           \A m \in Mains, e \in Executions : Polled(m, e)' =>
             \/ Polled(m, e) /\ polled'[m][e] = polled[m][e]
             \/ row[e].till \in 0..Horizon /\ polled'[m][e] = row[e].till,
           \A m \in Mains, e \in Executions : IsSet(m, e)' =>
             \/ IsSet(m, e) /\ timer'[m][e] = timer[m][e]
             \/ Polled(m, e) /\ timer'[m][e] = polled[m][e],
           \A k \in Slots : resume'[k] = Idle \/ resume'[k] = resume[k] \/ GoesOn(k) \/ Begins(k)
    PROVE  EarlyInv'
<1> USE DEF Typed
<1>1. \A t \in 0..Horizon : t \in 0..t
  <2>1. \A t \in 0..Horizon : t \in Nat
    BY WaitAssumption
  <2>2. \A t \in Nat : t \in 0..t
    OBVIOUS
  <2> QED BY <2>1, <2>2
<1> SUFFICES ASSUME NEW e \in Executions, e \notin leftover', row'[e].status = "waiting"
             PROVE  /\ \A m \in Mains : /\ Polled(m, e)' => row'[e].till \in 0..polled'[m][e]
                                        /\ IsSet(m, e)' => row'[e].till \in 0..timer'[m][e]
                    /\ ByTimer(e)' # {} => row'[e].till = 0
  BY DEF EarlyInv, NobodyEarly
<1>2. row[e].status = "waiting" /\ row'[e].till = row[e].till /\ e \notin leftover
  OBVIOUS
<1>3. /\ \A m \in Mains : /\ Polled(m, e) => row[e].till \in 0..polled[m][e]
                          /\ IsSet(m, e) => row[e].till \in 0..timer[m][e]
      /\ ByTimer(e) # {} => row[e].till = 0
  BY <1>2 DEF EarlyInv, NobodyEarly
<1>4. ASSUME NEW k \in Slots, resume'[k] # Idle, resume'[k].of = e, resume'[k].from = "timer"
      PROVE  row[e].till = 0
  <2>1. CASE resume'[k] = resume[k] \/ GoesOn(k)
    BY <2>1, <1>3, <1>4 DEF GoesOn, ByTimer
  <2>2. CASE Begins(k)
    <3>1. PICK m \in Mains : timer[m][e] = 0
      BY <2>2, <1>4 DEF Begins
    <3>2. IsSet(m, e)
      BY <3>1, WaitAssumption DEF IsSet
    <3> QED BY <3>1, <3>2, <1>3
  <2> QED BY <2>1, <2>2, <1>4
<1> QED BY <1>1, <1>2, <1>3, <1>4 DEF ByTimer

\* The leader polls, sets timers and steps down.
LEMMA TrackingIsInTime ==
    ASSUME Typed, Typed', EarlyInv, NEW m \in Mains,
           StartTracking(m) \/ StopTracking(m) \/ Poll(m) \/ SetTimers(m) \/ Crash(m)
    PROVE  EarlyInv'
<1>1. UNCHANGED <<row, leftover>>
  BY DEF StartTracking, StopTracking, Poll, SetTimers, Crash
<1>2. \A k \in Slots : resume'[k] = Idle \/ resume'[k] = resume[k]
  BY DEF StartTracking, StopTracking, Poll, SetTimers, Crash
<1>3. ASSUME NEW n \in Mains, NEW e \in Executions, Polled(n, e)'
      PROVE  \/ Polled(n, e) /\ polled'[n][e] = polled[n][e]
             \/ row[e].till \in 0..Horizon /\ polled'[n][e] = row[e].till
  <2>1. CASE Poll(m)
    <3>1. polled' = [polled EXCEPT ![m] = WaitingExecutions]
      BY <2>1 DEF Poll
    <3> QED BY <1>3, <3>1 DEF Typed, OtherTypes, Polled, WaitingExecutions
  <2>2. CASE polled' = [polled EXCEPT ![m] = NotSet] \/ UNCHANGED polled
    BY <1>3, <2>2 DEF Typed, OtherTypes, Polled
  <2> QED BY <2>1, <2>2 DEF StartTracking, StopTracking, SetTimers, Crash
<1>4. ASSUME NEW n \in Mains, NEW e \in Executions, IsSet(n, e)'
      PROVE  \/ IsSet(n, e) /\ timer'[n][e] = timer[n][e]
             \/ Polled(n, e) /\ timer'[n][e] = polled[n][e]
  <2>1. CASE SetTimers(m)
    BY <1>4, <2>1 DEF SetTimers, Typed, OtherTypes, Polled, IsSet
  <2>2. CASE StopTracking(m)
    BY <1>4, <2>2 DEF StopTracking, Typed, OtherTypes, IsSet
  <2>3. CASE Crash(m)
    BY <1>4, <2>3 DEF Crash, Typed, OtherTypes, IsSet
  <2>4. CASE UNCHANGED timer
    BY <1>4, <2>4 DEF IsSet
  <2> QED BY <2>1, <2>2, <2>3, <2>4 DEF StartTracking, Poll
<1> QED BY <1>1, <1>2, <1>3, <1>4, NobodyWaitsAnew

\* A resume begins, goes on or fails; a query fails; a stop begins.
LEMMA ResumingIsInTime ==
    ASSUME Typed, Typed', EarlyInv,
           \/ \E m \in Mains, e \in Executions : Fire(m, e) \/ Webhook(m, e) \/ Stop(m, e)
           \/ \E k \in Slots : Fetch(k) \/ UpdateRead(k)
           \/ Fail
    PROVE  EarlyInv'
<1>1. UNCHANGED <<row, leftover>>
  BY DEF Fire, Webhook, Stop, Fetch, UpdateRead, Fail
<1>2. \A m \in Mains, e \in Executions : Polled(m, e)' => Polled(m, e) /\ polled'[m][e] = polled[m][e]
  BY DEF Fire, Webhook, Stop, Fetch, UpdateRead, Fail, Typed, OtherTypes, Polled
<1>3. \A m \in Mains, e \in Executions : IsSet(m, e)' => IsSet(m, e) /\ timer'[m][e] = timer[m][e]
  <2>1. ASSUME NEW n \in Mains, NEW x \in Executions, Fire(n, x) \/ Stop(n, x),
               NEW m \in Mains, NEW e \in Executions, IsSet(m, e)'
        PROVE  IsSet(m, e) /\ timer'[m][e] = timer[m][e]
    <3>1. timer' = [timer EXCEPT ![n] = [timer[n] EXCEPT ![x] = NotSet]]
      BY <2>1 DEF Fire, Stop
    <3> QED BY <2>1, <3>1 DEF Typed, OtherTypes, IsSet
  <2>2. UNCHANGED timer \/ \E n \in Mains, x \in Executions : Fire(n, x) \/ Stop(n, x)
    BY DEF Webhook, Fetch, UpdateRead, Fail
  <2> QED BY <2>1, <2>2 DEF IsSet
<1>4. ASSUME NEW k \in Slots
      PROVE  resume'[k] = Idle \/ resume'[k] = resume[k] \/ GoesOn(k) \/ Begins(k)
  <2>1. CASE \E m \in Mains, e \in Executions : Fire(m, e)
    BY <2>1 DEF Fire, Begin, Begins, Typed, ClaimInv, ClaimTypes
  <2>2. CASE \E m \in Mains, e \in Executions : Webhook(m, e)
    BY <2>2 DEF Webhook, Begin, Begins, Typed, ClaimInv, ClaimTypes
  <2>3. CASE \E j \in Slots : Fetch(j) \/ UpdateRead(j)
    <3>1. PICK j \in Slots : Fetch(j) \/ UpdateRead(j)
      BY <2>3
    <3>2. resume[j] # Idle /\ resume[j] \in Resumes
      BY <3>1, TypesOfEach DEF Fetch, UpdateRead
    <3> QED BY <3>1, <3>2 DEF Fetch, UpdateRead, End, GoesOn, Resumes, Typed, ClaimInv, ClaimTypes
  <2>4. CASE Fail /\ ~UNCHANGED resume
    <3>1. PICK j \in Slots \ Free : Retry(j)
      BY <2>4 DEF Fail
    <3>2. resume[j] # Idle /\ resume[j] \in Resumes
      BY <3>1, TypesOfEach DEF Free
    <3> DEFINE s == IF resume[j].step \in {"update", "write"} THEN "update" ELSE "fetch"
    <3>3. \/ resume' = [resume EXCEPT ![j] = Idle]
          \/ resume' = [resume EXCEPT ![j].tries = @ + 1, ![j].step = s]
      BY <3>1 DEF Retry, End
    <3> HIDE DEF s
    <3>4. CASE resume' = [resume EXCEPT ![j] = Idle]
      BY <3>4 DEF Typed, ClaimInv, ClaimTypes
    <3>5. CASE resume' = [resume EXCEPT ![j].tries = @ + 1, ![j].step = s]
      BY <3>2, <3>5 DEF GoesOn, Resumes, Typed, ClaimInv, ClaimTypes
    <3> QED BY <3>3, <3>4, <3>5
  <2>5. CASE UNCHANGED resume
    BY <2>5
  <2> QED BY <2>1, <2>2, <2>3, <2>4, <2>5 DEF Stop
<1> QED BY <1>1, <1>2, <1>3, <1>4, NobodyWaitsAnew


\* The steps that write a row let nobody begin to wait.
LEMMA WritesAreInTime ==
    ASSUME Typed, Typed', EarlyInv,
           \/ \E k \in Slots : Claim(k) \/ UpdateWrite(k)
           \/ \E e \in Executions : StartChild(e) \/ Finish(e) \/ StopWrite(e)
    PROVE  EarlyInv'
<1> DEFINE Rest == /\ \A e \in Executions : row'[e].status = "waiting" /\ e \notin leftover' =>
                        row[e].status = "waiting" /\ row'[e].till = row[e].till /\ e \notin leftover
                   /\ \A k \in Slots : resume'[k] = Idle \/ resume'[k] = resume[k]
                                         \/ GoesOn(k) \/ Begins(k)
<1>1. ASSUME NEW k \in Slots, Claim(k) PROVE Rest
  <2>1. resume[k] # Idle /\ resume[k] \in Resumes
    BY <1>1, TypesOfEach DEF Claim
  <2>2. \A j \in Slots : resume'[j] = Idle \/ resume'[j] = resume[j]
    BY <1>1 DEF Claim, End, Typed, ClaimInv, ClaimTypes
  <2>3. /\ \A e \in Executions \ {resume[k].of} : row'[e] = row[e]
        /\ row'[resume[k].of].status # "waiting"
    BY <1>1, <2>1 DEF Claim, Resumed, Resumes, Typed, ClaimInv, ClaimTypes
  <2>4. leftover' = leftover \ {resume[k].of}
    BY <1>1 DEF Claim
  <2> QED BY <2>2, <2>3, <2>4
<1>2. ASSUME NEW k \in Slots, UpdateWrite(k) PROVE Rest
  <2>1. resume[k] # Idle /\ resume[k] \in Resumes
    BY <1>2, TypesOfEach DEF UpdateWrite
  <2>2. /\ UNCHANGED leftover
        /\ \A e \in Executions : row'[e].status = row[e].status /\ row'[e].till = row[e].till
    BY <1>2, <2>1, TypesOfEach DEF UpdateWrite, Rows, Typed, ClaimInv, ClaimTypes
  <2>3. \A j \in Slots : resume'[j] = resume[j] \/ GoesOn(j)
    BY <1>2, <2>1 DEF UpdateWrite, GoesOn, Resumes, Typed, ClaimInv, ClaimTypes
  <2> QED BY <2>2, <2>3
<1>3. ASSUME NEW c \in Executions, StartChild(c) PROVE Rest
  <2>1. /\ UNCHANGED <<resume, leftover>>
        /\ row'[c].status = "running"
        /\ \A e \in Executions \ {c} : row'[e] = row[e]
    BY <1>3, TypesOfEach DEF StartChild, Rows, Typed, ClaimInv, ClaimTypes
  <2> QED BY <2>1
<1>4. ASSUME NEW x \in Executions, Finish(x) PROVE Rest
  <2>1. /\ UNCHANGED leftover
        /\ row'[x] = row[x] \/ row'[x].status = "success"
        /\ \A e \in Executions \ {x} : row'[e] = row[e]
    BY <1>4 DEF Finish, Save, Typed, ClaimInv, ClaimTypes
  <2>2. \A j \in Slots : resume'[j] = resume[j] \/ Begins(j)
    <3> DEFINE r == [of |-> ParentOf[x], on |-> run[x].on, from |-> "child", data |-> NoData,
                     step |-> "update", tries |-> 1]
    <3>1. UNCHANGED resume \/ Begin(r)
      BY <1>4 DEF Finish
    <3>2. r.from = "child"
      OBVIOUS
    <3> HIDE DEF r
    <3>3. \A j \in Slots : resume'[j] = resume[j] \/ resume'[j] = r
      BY <3>1 DEF Begin, Typed, ClaimInv, ClaimTypes
    <3> QED BY <3>2, <3>3 DEF Begins
  <2> QED BY <2>1, <2>2
<1>5. ASSUME NEW x \in Executions, StopWrite(x) PROVE Rest
  <2>1. /\ UNCHANGED <<resume, leftover>>
        /\ row' = [row EXCEPT ![x] = [[row[x] EXCEPT !.status = "canceled"] EXCEPT !.till = Never]]
    BY <1>5, TypesOfEach DEF StopWrite, Typed, ClaimInv, ClaimTypes
  <2>2. /\ row'[x].status = "canceled"
        /\ \A e \in Executions \ {x} : row'[e] = row[e]
    BY <2>1, TypesOfEach DEF Rows, Typed, ClaimInv, ClaimTypes
  <2> QED BY <2>1, <2>2
<1>6. UNCHANGED <<polled, timer>>
  BY DEF Claim, UpdateWrite, StartChild, Finish, StopWrite
<1>7. /\ \A m \in Mains, e \in Executions : Polled(m, e)' => Polled(m, e) /\ polled'[m][e] = polled[m][e]
      /\ \A m \in Mains, e \in Executions : IsSet(m, e)' => IsSet(m, e) /\ timer'[m][e] = timer[m][e]
  BY <1>6 DEF Polled, IsSet
<1>8. Rest
  BY <1>1, <1>2, <1>3, <1>4, <1>5
<1> QED BY <1>7, <1>8, NobodyWaitsAnew

\* Time passes for the row, the answers and the timers alike.
LEMMA TickIsInTime ==
    ASSUME Typed, Typed', EarlyInv, Tick
    PROVE  EarlyInv'
<1>1. \A e \in Executions : row'[e].status = row[e].status /\ row'[e].till = Decrease(row[e].till)
  BY TypesOfEach DEF Tick, Rows, Typed
<1>2. UNCHANGED <<resume, leftover>>
  BY DEF Tick
<1>3. ASSUME NEW m \in Mains, NEW e \in Executions, Polled(m, e)'
      PROVE  Polled(m, e) /\ polled'[m][e] = Decrease(polled[m][e])
  <2>1. polled[m] # NotSet /\ polled'[m][e] = Decrease(polled[m][e])
    BY <1>3 DEF Tick, Polled
  <2> QED BY <1>3, <2>1, MarksStay DEF Polled
<1>4. ASSUME NEW m \in Mains, NEW e \in Executions, IsSet(m, e)'
      PROVE  IsSet(m, e) /\ timer'[m][e] = Decrease(timer[m][e])
  <2>1. timer'[m][e] = Decrease(timer[m][e])
    BY DEF Tick
  <2> QED BY <1>4, <2>1, MarksStay DEF IsSet
<1>5. \A t \in Times : \A d \in 0..t : d \in Nat /\ Decrease(d) \in 0..Decrease(t)
  BY TimesRemain DEF Decrease
<1> SUFFICES ASSUME NEW e \in Executions, e \notin leftover, row[e].status = "waiting"
             PROVE  /\ \A m \in Mains : /\ Polled(m, e)' => row'[e].till \in 0..polled'[m][e]
                                        /\ IsSet(m, e)' => row'[e].till \in 0..timer'[m][e]
                    /\ ByTimer(e)' # {} => row'[e].till = 0
  BY <1>1, <1>2 DEF EarlyInv, NobodyEarly
<1>6. ASSUME NEW m \in Mains, Polled(m, e)' PROVE row'[e].till \in 0..polled'[m][e]
  BY <1>1, <1>3, <1>5, <1>6, TypesOfEach DEF EarlyInv, NobodyEarly
<1>7. ASSUME NEW m \in Mains, IsSet(m, e)' PROVE row'[e].till \in 0..timer'[m][e]
  BY <1>1, <1>4, <1>5, <1>7, TypesOfEach DEF EarlyInv, NobodyEarly
<1>8. ASSUME ByTimer(e)' # {} PROVE row'[e].till = 0
  BY <1>1, <1>2, <1>8 DEF EarlyInv, NobodyEarly, ByTimer, Decrease
<1> QED BY <1>6, <1>7, <1>8

\* Either no timer is about an execution that begins to wait, or it is left out from then on.
LEMMA PutToWaitIsInTime ==
    ASSUME Typed, Typed', EarlyInv, NEW x \in Executions, PutToWait(x)
    PROVE  EarlyInv'
<1>1. /\ UNCHANGED <<polled, timer, resume>>
      /\ leftover' = IF Tracked(x) THEN leftover \cup {x} ELSE leftover \ {x}
  BY DEF PutToWait
<1>2. \A e \in Executions \ {x} : row'[e] = row[e]
  BY DEF PutToWait, Save, Typed, ClaimInv, ClaimTypes
<1>3. \A e \in Executions :
        /\ ByTimer(e)' = ByTimer(e)
        /\ \A m \in Mains : (Polled(m, e)' <=> Polled(m, e)) /\ (IsSet(m, e)' <=> IsSet(m, e))
  BY <1>1 DEF ByTimer, Polled, IsSet
<1> SUFFICES ASSUME NEW e \in Executions, e \notin leftover' PROVE NobodyEarly(e)'
  BY DEF EarlyInv
<1>4. CASE e = x
  <2>1. ~Tracked(x)
    BY <1>1, <1>4
  <2> QED BY <1>3, <1>4, <2>1 DEF Tracked, NobodyEarly
<1>5. CASE e # x
  <2>1. e \notin leftover
    BY <1>1, <1>5
  <2> QED BY <1>1, <1>2, <1>3, <1>5, <2>1 DEF EarlyInv, NobodyEarly
<1> QED BY <1>4, <1>5

\* At first nobody waits.
LEMMA EarlyInvHolds == Spec => [](Typed /\ EarlyInv)
<1>1. Init => OtherTypes
  BY WaitAssumption DEF Init, OtherTypes
<1>2. Init => EarlyInv
  BY DEF Init, EarlyInv, NobodyEarly
<1>3. Typed /\ Typed' /\ EarlyInv /\ [Next]_vars => EarlyInv'
  <2> SUFFICES ASSUME Typed, Typed', EarlyInv, [Next]_vars PROVE EarlyInv'
    OBVIOUS
  <2>1. CASE \E m \in Mains : StartTracking(m) \/ StopTracking(m) \/ Poll(m) \/ SetTimers(m) \/ Crash(m)
    BY <2>1, TrackingIsInTime
  <2>2. CASE \/ \E m \in Mains, e \in Executions : Fire(m, e) \/ Webhook(m, e) \/ Stop(m, e)
             \/ \E k \in Slots : Fetch(k) \/ UpdateRead(k)
             \/ Fail
    BY <2>2, ResumingIsInTime
  <2>3. CASE \/ \E k \in Slots : Claim(k) \/ UpdateWrite(k)
             \/ \E e \in Executions : StartChild(e) \/ Finish(e) \/ StopWrite(e)
    BY <2>3, WritesAreInTime
  <2>4. CASE Tick
    BY <2>4, TickIsInTime
  <2>5. CASE \E e \in Executions : PutToWait(e)
    BY <2>5, PutToWaitIsInTime
  <2>6. CASE UNCHANGED vars
    BY <2>6 DEF vars, EarlyInv, NobodyEarly, ByTimer, Polled, IsSet
  <2> QED BY <2>1, <2>2, <2>3, <2>4, <2>5, <2>6 DEF Next
<1>4. ClaimInv /\ OtherTypes <=> Typed
  BY DEF Typed
<1>5. (ClaimInv /\ OtherTypes)' <=> Typed'
  BY DEF Typed
<1> QED BY <1>1, <1>2, <1>3, <1>4, <1>5, ClaimInvariant, NextKeepsTypes, PTL DEF Spec

\* A timer never resumes an execution early, whatever leaders come and go, answers and
\* timers are late and resumes are under way, and however often the execution waits, except
\* in a wait that began while a timer was still about an earlier one.
THEOREM NotResumedEarly == Spec => NotBeforeTime
<1> DEFINE InTime == \A e \in Executions \ leftover :
        row[e].status = "waiting" /\ Running(e)' /\ run'[e].from = "timer" => row[e].till = 0
<1>1. Typed /\ EarlyInv /\ [Next]_vars => [InTime]_vars
  <2> SUFFICES ASSUME Typed, EarlyInv, Next, NEW e \in Executions \ leftover,
                      row[e].status = "waiting", Running(e)', run'[e].from = "timer"
               PROVE  row[e].till = 0
    OBVIOUS
  <2>1. ~Running(e)
    BY DEF Typed, ClaimInv, RunningRow
  <2>2. CASE UNCHANGED run
    BY <2>1, <2>2 DEF Running
  <2>3. CASE \E k \in Slots : Claim(k)
    <3>1. PICK k \in Slots : Claim(k)
      BY <2>3
    <3>2. resume[k] # Idle /\ resume[k] \in Resumes
      BY <3>1, TypesOfEach DEF Claim
    <3>3. Resumed(k) /\ resume[k].of = e
      BY <2>1, <3>1, <3>2 DEF Claim, Resumed, Running, Resumes, Typed, ClaimInv, ClaimTypes
    <3>4. resume[k].from = "timer"
      BY <3>2, <3>3 DEF Resumed, Typed, ClaimInv, ClaimTypes
    <3> QED BY <3>2, <3>3, <3>4 DEF EarlyInv, NobodyEarly, ByTimer
  <2>4. CASE \E c \in Executions : StartChild(c)
    BY <2>1, <2>4 DEF StartChild, Running, Typed, ClaimInv, ClaimTypes
  <2>5. CASE \E x \in Executions : PutToWait(x) \/ Finish(x)
    BY <2>1, <2>5 DEF PutToWait, Finish, Running, Typed, ClaimInv, ClaimTypes
  <2>6. CASE \E m \in Mains, x \in Executions : Stop(m, x)
    BY <2>1, <2>6 DEF Stop, Running, Typed, ClaimInv, ClaimTypes
  <2>7. CASE \E m \in Mains : Crash(m)
    BY <2>1, <2>7 DEF Crash, Running
  <2> QED BY <2>2, <2>3, <2>4, <2>5, <2>6, <2>7
          DEF Next, StartTracking, StopTracking, Poll, SetTimers, Fire, Webhook, Fetch,
              UpdateRead, UpdateWrite, StopWrite, Fail, Tick
<1> QED BY <1>1, EarlyInvHolds, PTL DEF Spec, NotBeforeTime

=============================================================================
