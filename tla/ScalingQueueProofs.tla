--------------------------- MODULE ScalingQueueProofs ---------------------------
(***************************************************************************)
(* Proofs about ScalingQueue for any executions, workers, crashes, stops   *)
(* and lost locks: an execution is run by one worker at a time, and what   *)
(* the main was told of a success is kept.                                 *)
(*                                                                         *)
(* What is at stake is the right to run an execution, which the main holds *)
(* once add has claimed the row, then its job while it waits, then the     *)
(* worker that picked it up.  There is one such token per execution, and   *)
(* only a row that nobody has begun, or that waits, lets add make one.     *)
(***************************************************************************)
EXTENDS ScalingQueue, FiniteSetTheorems, TLAPS

\* The steps of a worker that runs the execution or will.
Active == {"fetch", "start", "setup", "running", "aborted"}

Claimed(e) == entry[e] \in {"added", "dropped"}
Works(w, e) == work[w][e] \in Active

\* Nobody has the right to run e.
NoToken(e) ==
    /\ ~Claimed(e)
    /\ job[e] # "waiting"
    /\ \A w \in Workers : ~Works(w, e)

OneToken(e) ==
    /\ Claimed(e) => job[e] # "waiting" /\ \A w \in Workers : ~Works(w, e)
    /\ job[e] = "waiting" => \A w \in Workers : ~Works(w, e)
    /\ \A v, w \in Workers : Works(v, e) /\ Works(w, e) => v = w

\* A success of e is recorded somewhere.
Success(e) ==
    \/ "success" \in {row[e], result[e], told[e]}
    \/ \E w \in Workers : work[w][e] = "success"

\* Nobody may run an execution that has no row, waits, or has succeeded.
Settled(e) ==
    /\ row[e] \in {"none", "waiting"} => NoToken(e)
    /\ Success(e) => NoToken(e) /\ row[e] \notin {"none", "waiting"}

\* A success in the row, or what replaced it after a stop.
RowKept(e) == row[e] = "success" \/ (stopped[e] /\ row[e] \in {"canceled", "error"})

\* While the main waits for the job, and after it heard of a success, nothing
\* but a stop replaces the success in the row.
Kept(e) ==
    /\ stop[e] # {} => stopped[e]
    /\ Success(e) /\ entry[e] \in {"listening", "rejected"} => RowKept(e)
    /\ told[e] = "success" => entry[e] \in {"released", "lost"} /\ RowKept(e)

Inv(e) == OneToken(e) /\ Settled(e) /\ Kept(e)

QueueInv == TypeOK /\ \A e \in Executions : Inv(e)

-----------------------------------------------------------------------------
(* Types.                                                                  *)

LEMMA InitTypeOK == Init => TypeOK
BY ScalingAssumption DEF Init, TypeOK, Statuses, Steps

LEMMA MainTypes ==
    ASSUME TypeOK, NEW e \in Executions,
           \/ Add(e) \/ AddJob(e) \/ AddJobFails(e) \/ JobFinished(e) \/ JobFailed(e) \/ SaveError(e)
           \/ Stop(e) \/ StopJob(e) \/ StopRow(e) \/ Stall(e)
           \/ ProcessLateError(e) \/ SaveLateError(e) \/ LateFinished(e)
    PROVE  TypeOK'
<1> USE ScalingAssumption DEF TypeOK, Put, bull, workers
<1>1. CASE Add(e)
  BY <1>1 DEF Add, Statuses, InProgress
<1>2. CASE AddJob(e)
  BY <1>2 DEF AddJob
<1>3. CASE AddJobFails(e)
  BY <1>3 DEF AddJobFails, Statuses, Outcomes
<1>4. CASE JobFinished(e)
  BY <1>4 DEF JobFinished, Statuses
<1>5. CASE JobFailed(e)
  <2>1. told' \in [Executions -> Statuses]
    <3>1. told \in [Executions -> Statuses]
      OBVIOUS
    <3>2. "error" \in Statuses
      BY DEF Statuses, Outcomes
    <3>3. told' = told \/ told' = Put(told, e, "error")
      BY <1>5 DEF JobFailed
    <3> QED  BY <3>1, <3>2, <3>3
  <2>2. result' \in [Executions -> Outcomes \cup {None}]
    BY <1>5 DEF JobFailed
  <2> QED  BY <1>5, <2>1, <2>2 DEF JobFailed
<1>6. CASE SaveError(e)
  BY <1>6 DEF SaveError, Statuses, Outcomes
<1>7. CASE Stop(e)
  <2>1. told' \in [Executions -> Statuses]
    <3>1. told \in [Executions -> Statuses]
      OBVIOUS
    <3>2. "canceled" \in Statuses
      BY DEF Statuses
    <3>3. told' = told \/ told' = Put(told, e, "canceled")
      BY <1>7 DEF Stop
    <3> QED  BY <3>1, <3>2, <3>3
  <2>2. entry' = entry \/ entry' = Put(entry, e, "dropped") \/ entry' = Put(entry, e, "released")
    BY <1>7 DEF Stop
  <2>3. \/ stop' = Put(stop, e, {"row"}) \/ stop' = Put(stop, e, {"job", "row", "late"})
        \/ stop' = Put(stop, e, stop[e] \cup {"row"})
    BY <1>7 DEF Stop
  <2>4. stop' \in [Executions -> SUBSET {"job", "row", "check", "error", "late"}]
    BY <2>3
  <2> QED  BY <1>7, <2>1, <2>2, <2>4 DEF Stop
<1>8. CASE StopJob(e)
  <2>1. work' \in [Workers -> [Executions -> Steps]]
    BY <1>8 DEF StopJob, Steps
  <2> QED  BY <1>8, <2>1 DEF StopJob
<1>9. CASE StopRow(e)
  BY <1>9 DEF StopRow, Statuses
<1>10. CASE Stall(e)
  BY <1>10 DEF Stall, FailStalled, main
<1>11. CASE ProcessLateError(e) \/ LateFinished(e)
  <2>1. UNCHANGED <<entry, told>> \/ \E s \in Statuses : Finalize(e, s)
    <3>1. "error" \in Statuses /\ Outcomes \subseteq Statuses
      BY DEF Statuses, Outcomes
    <3>2. {row[e]} \cup ({result[e]} \ {None}) \subseteq Statuses
      BY <3>1
    <3> QED  BY <1>11, <3>1, <3>2 DEF ProcessLateError, LateFinished
  <2>2. /\ entry' \in [Executions -> {"none", "added", "dropped", "listening", "saving",
                                      "rejected", "released", "lost"}]
        /\ told' \in [Executions -> Statuses]
    <3>1. CASE UNCHANGED <<entry, told>>
      BY <3>1
    <3>2. ASSUME NEW s \in Statuses, Finalize(e, s)
          PROVE  /\ entry' = entry \/ entry' = Put(entry, e, "dropped")
                                  \/ entry' = Put(entry, e, "released")
                 /\ told' = told \/ told' = Put(told, e, s)
      <4>1. entry' = Put(entry, e, entry[e]) \/ entry' = Put(entry, e, "dropped")
                                            \/ entry' = Put(entry, e, "released")
        BY <3>2 DEF Finalize
      <4>2. Put(entry, e, entry[e]) = entry
        OBVIOUS
      <4> QED  BY <3>2, <4>1, <4>2 DEF Finalize
    <3> QED  BY <2>1, <3>1, <3>2
  <2>3. \E from \in {{"check"}, {"late"}}, t \in {{}, {"error"}} : Late(e, from, t)
    BY <1>11 DEF ProcessLateError, LateFinished
  <2>4. stop' \in [Executions -> SUBSET {"job", "row", "check", "error", "late"}]
    BY <2>3 DEF Late
  <2>5. result' = result \/ result' = Put(result, e, None)
    BY <1>11 DEF ProcessLateError, LateFinished
  <2>6. UNCHANGED <<row, stopped, legs, failures, job, lock, work, up, exits, recovery, crashes, stalls>>
    BY <1>11 DEF ProcessLateError, LateFinished
  <2> QED  BY <2>2, <2>4, <2>5, <2>6
<1>12. CASE SaveLateError(e)
  BY <1>12 DEF SaveLateError, Statuses, Outcomes
<1> QED  BY <1>1, <1>2, <1>3, <1>4, <1>5, <1>6, <1>7, <1>8, <1>9, <1>10, <1>11, <1>12

LEMMA WorkerTypes ==
    ASSUME TypeOK, NEW w \in Workers, NEW e \in Executions,
           \/ Pickup(w, e) \/ Fetch(w, e) \/ SetRunning(w, e) \/ FailToStart(w, e) \/ Register(w, e)
           \/ (\E s \in Outcomes : EndRun(w, e, s)) \/ EndCanceled(w, e) \/ EndJob(w, e)
    PROVE  TypeOK'
<1> USE DEF TypeOK, Put, Go, main, bull
<1>1. CASE Pickup(w, e)
  BY <1>1 DEF Pickup, Steps
<1>2. CASE Fetch(w, e)
  BY <1>2 DEF Fetch, Steps
<1>3. CASE SetRunning(w, e)
  BY <1>3 DEF SetRunning, Steps, Statuses, InProgress
<1>4. CASE FailToStart(w, e) \/ Register(w, e)
  <2>1. \E s \in {"failed", "running"} : work' = [work EXCEPT ![w][e] = s]
    BY <1>4 DEF FailToStart, Register
  <2>2. work' \in [Workers -> [Executions -> Steps]]
    BY <2>1 DEF Steps
  <2> QED  BY <1>4, <2>2 DEF FailToStart, Register
<1>5. CASE \E s \in Outcomes : EndRun(w, e, s)
  BY <1>5 DEF EndRun, Steps, Statuses
<1>6. CASE EndCanceled(w, e)
  BY <1>6 DEF EndCanceled, Steps, Statuses
<1>7. CASE EndJob(w, e)
  <2>1. work' \in [Workers -> [Executions -> Steps]]
    BY <1>7 DEF EndJob, Steps
  <2>2. result' \in [Executions -> Outcomes \cup {None}]
    BY <1>7 DEF EndJob
  <2>3. /\ job' \in [Executions -> {"none", "waiting", "active", "completed", "failed", "removed"}]
        /\ lock' \in [Executions -> Workers \cup {None}]
    <3>1. Move(w, e, "completed") \/ Move(w, e, "failed")
      BY <1>7 DEF EndJob
    <3> QED  BY <3>1 DEF Move
  <2> QED  BY <1>7, <2>1, <2>2, <2>3 DEF EndJob
<1> QED  BY <1>1, <1>2, <1>3, <1>4, <1>5, <1>6, <1>7

LEMMA ProcessTypes ==
    ASSUME TypeOK,
           \/ \E w \in Workers : StopWorker(w) \/ Exit(w) \/ WorkerCrash(w)
           \/ MainCrash \/ RecoverRead \/ RecoverJobs \/ RecoverMark
    PROVE  TypeOK'
<1> USE ScalingAssumption DEF TypeOK, Put, main, bull, workers
<1>1. CASE \E w \in Workers : StopWorker(w)
  BY <1>1 DEF StopWorker
<1>2. CASE \E w \in Workers : Exit(w) \/ WorkerCrash(w)
  <2>1. PICK w \in Workers : Gone(w) /\ exits' \in 0..MaxExits
    BY <1>2 DEF Exit, WorkerCrash
  <2>2. /\ work' \in [Workers -> [Executions -> Steps]]
        /\ up' \in [Workers -> {"up", "stopping", "gone"}]
    BY <2>1 DEF Gone, Steps
  <2> QED  BY <2>1, <2>2 DEF Gone
<1>3. CASE MainCrash
  BY <1>3 DEF MainCrash
<1>4. CASE RecoverRead
  BY <1>4 DEF RecoverRead
<1>5. CASE RecoverJobs
  BY <1>5 DEF RecoverJobs
<1>6. CASE RecoverMark
  BY <1>6 DEF RecoverMark, MarkAsCrashed, Statuses
<1> QED  BY <1>1, <1>2, <1>3, <1>4, <1>5, <1>6

LEMMA NextTypes == TypeOK /\ [Next]_vars => TypeOK'
<1> SUFFICES ASSUME TypeOK, [Next]_vars PROVE TypeOK'
  OBVIOUS
<1>1. CASE Next
  BY <1>1, MainTypes, WorkerTypes, ProcessTypes DEF Next
<1>2. CASE UNCHANGED vars
  BY <1>2 DEF vars, main, bull, workers, TypeOK
<1> QED  BY <1>1, <1>2

\* Rows, jobs, workers and the main keep their types.
THEOREM TypeCorrect == Spec => []TypeOK
BY InitTypeOK, NextTypes, PTL DEF Spec

-----------------------------------------------------------------------------
(* The token of one execution.                                             *)

\* Nothing that concerns d changes.
Untouched(d) ==
    /\ row'[d] = row[d] /\ entry'[d] = entry[d] /\ told'[d] = told[d]
    /\ job'[d] = job[d] /\ result'[d] = result[d]
    /\ stop'[d] = stop[d] /\ stopped'[d] = stopped[d]
    /\ \A w \in Workers : work'[w][d] = work[w][d]

USE DEF Claimed, Works, NoToken, Success, RowKept

LEMMA UntouchedInv ==
    ASSUME NEW d, Inv(d), Untouched(d)
    PROVE  Inv(d)'
BY DEF Inv, OneToken, Settled, Kept, Untouched

\* A step of the main or of Bull about e touches no other execution.
LEMMA MainTouches ==
    ASSUME TypeOK, NEW e \in Executions, NEW d \in Executions \ {e},
           \/ Add(e) \/ AddJob(e) \/ AddJobFails(e) \/ JobFinished(e) \/ JobFailed(e) \/ SaveError(e)
           \/ Stop(e) \/ StopJob(e) \/ StopRow(e) \/ Stall(e)
           \/ ProcessLateError(e) \/ SaveLateError(e) \/ LateFinished(e)
    PROVE  Untouched(d)
<1> USE DEF TypeOK, Put, Untouched, bull, workers
<1>1. CASE Add(e) \/ AddJob(e) \/ AddJobFails(e)
  BY <1>1 DEF Add, AddJob, AddJobFails
<1>2. CASE JobFinished(e) \/ JobFailed(e) \/ SaveError(e)
  BY <1>2 DEF JobFinished, JobFailed, SaveError
<1>3. CASE Stop(e) \/ StopRow(e) \/ Stall(e)
  BY <1>3 DEF Stop, StopRow, Stall, FailStalled, main
<1>4. CASE StopJob(e)
  BY <1>4 DEF StopJob
<1>5. CASE ProcessLateError(e) \/ SaveLateError(e) \/ LateFinished(e)
  BY <1>5 DEF ProcessLateError, SaveLateError, LateFinished, Finalize, Late
<1> QED  BY <1>1, <1>2, <1>3, <1>4, <1>5

\* Neither does a step of a worker about e, which leaves other workers alone.
LEMMA WorkerTouches ==
    ASSUME TypeOK, NEW w \in Workers, NEW e \in Executions,
           \/ Pickup(w, e) \/ Fetch(w, e) \/ SetRunning(w, e) \/ FailToStart(w, e) \/ Register(w, e)
           \/ (\E s \in Outcomes : EndRun(w, e, s)) \/ EndCanceled(w, e) \/ EndJob(w, e)
    PROVE  /\ \A d \in Executions \ {e} : Untouched(d)
           /\ \A v \in Workers \ {w} : work'[v][e] = work[v][e]
<1>1. \E s \in Steps : Go(w, e, s)
  BY DEF Pickup, Fetch, SetRunning, FailToStart, Register, EndRun, EndCanceled, EndJob, Steps
<1>2. /\ \A v \in Workers, d \in Executions \ {e} : work'[v][d] = work[v][d]
      /\ \A v \in Workers \ {w} : work'[v][e] = work[v][e]
  BY <1>1 DEF Go, TypeOK
<1>3. \A d \in Executions \ {e} :
        /\ row'[d] = row[d] /\ entry'[d] = entry[d] /\ told'[d] = told[d]
        /\ job'[d] = job[d] /\ result'[d] = result[d]
        /\ stop'[d] = stop[d] /\ stopped'[d] = stopped[d]
  <2> USE DEF TypeOK, Put, main, bull
  <2>1. CASE Pickup(w, e) \/ Fetch(w, e) \/ SetRunning(w, e) \/ FailToStart(w, e) \/ Register(w, e)
    BY <2>1 DEF Pickup, Fetch, SetRunning, FailToStart, Register
  <2>2. CASE (\E s \in Outcomes : EndRun(w, e, s)) \/ EndCanceled(w, e)
    BY <2>2 DEF EndRun, EndCanceled
  <2>3. CASE EndJob(w, e)
    BY <2>3 DEF EndJob, Move
  <2> QED  BY <2>1, <2>2, <2>3
<1> QED  BY <1>2, <1>3 DEF Untouched

\* The main: only Add makes a token, of a row nobody has one for; AddJob passes it on.
LEMMA MainInv ==
    ASSUME TypeOK, NEW e \in Executions, Inv(e),
           \/ Add(e) \/ AddJob(e) \/ AddJobFails(e) \/ JobFinished(e) \/ JobFailed(e) \/ SaveError(e)
           \/ Stop(e) \/ StopJob(e) \/ StopRow(e) \/ Stall(e)
           \/ ProcessLateError(e) \/ SaveLateError(e) \/ LateFinished(e)
    PROVE  Inv(e)'
<1> USE DEF TypeOK, Put, Inv, OneToken, Settled, Kept, bull, workers
<1>1. CASE Add(e)
  BY <1>1 DEF Add
<1>2. CASE AddJob(e)
  BY <1>2 DEF AddJob
<1>3. CASE AddJobFails(e)
  BY <1>3 DEF AddJobFails
<1>4. CASE JobFinished(e)
  <2>1. /\ entry[e] = "listening" /\ entry'[e] = "released"
        /\ told'[e] \in {row[e], result[e]} /\ result'[e] # "success"
        /\ row' = row /\ job' = job /\ work' = work /\ stop' = stop /\ stopped' = stopped
    BY <1>4, ScalingAssumption DEF JobFinished
  <2> QED  BY <2>1
<1>5. CASE JobFailed(e)
  <2>1. /\ entry[e] = "listening" /\ entry'[e] \in {"rejected", "saving"}
        /\ entry'[e] = "rejected" => row[e] = "success"
        /\ told'[e] \in {told[e], "error"} /\ result'[e] # "success"
        /\ row' = row /\ job' = job /\ work' = work /\ stop' = stop /\ stopped' = stopped
    BY <1>5, ScalingAssumption DEF JobFailed
  <2> QED  BY <2>1
<1>6. CASE SaveError(e)
  BY <1>6 DEF SaveError
<1>7. CASE Stop(e)
  BY <1>7 DEF Stop
<1>8. CASE StopJob(e)
  <2>1. \A w \in Workers : \/ work'[w][e] = work[w][e]
                            \/ (work[w][e] = "running" /\ work'[w][e] = "aborted")
    BY <1>8 DEF StopJob
  <2>2. job'[e] = job[e] \/ (job[e] = "waiting" /\ job'[e] = "removed")
    BY <1>8 DEF StopJob
  <2>3. UNCHANGED <<row, entry, told, result, stopped>> /\ stop[e] # {}
    BY <1>8 DEF StopJob
  <2>4. \A w \in Workers :
          (Works(w, e)' <=> Works(w, e)) /\ (work'[w][e] = "success" <=> work[w][e] = "success")
    BY <2>1 DEF Active
  <2> QED  BY <2>2, <2>3, <2>4
<1>9. CASE StopRow(e)
  BY <1>9 DEF StopRow
<1>10. CASE Stall(e)
  BY <1>10 DEF Stall, FailStalled, main
<1>11. CASE ProcessLateError(e) \/ LateFinished(e)
  <2>1. stop[e] # {} /\ UNCHANGED <<row, job, work, stopped>>
    BY <1>11 DEF ProcessLateError, LateFinished
  <2>2. result'[e] = result[e] \/ result'[e] # "success"
    BY <1>11, ScalingAssumption DEF ProcessLateError, LateFinished
  <2>3. \/ entry'[e] = entry[e]
        \/ entry[e] = "added" /\ entry'[e] = "dropped"
        \/ entry[e] \in {"listening", "rejected"} /\ entry'[e] = "released"
    BY <1>11 DEF ProcessLateError, LateFinished, Finalize
  <2>4. \/ told'[e] = told[e]
        \/ /\ entry[e] \in {"added", "listening", "rejected"}
           /\ told'[e] \in {"error", row[e], result[e]}
    BY <1>11 DEF ProcessLateError, LateFinished, Finalize
  <2>5. Success(e)' => Success(e)
    BY <2>1, <2>2, <2>4
  <2>6. OneToken(e)' /\ Settled(e)'
    BY <2>1, <2>3, <2>5
  <2>7. Success(e)' /\ entry'[e] \in {"listening", "rejected"} => RowKept(e)'
    BY <2>1, <2>3, <2>5
  <2>8. told'[e] = "success" => entry'[e] \in {"released", "lost"} /\ RowKept(e)'
    <3>1. CASE told'[e] = told[e]
      BY <2>1, <2>3, <3>1
    <3>2. ASSUME told'[e] = "success", told'[e] # told[e]
          PROVE  entry'[e] \in {"released", "lost"} /\ RowKept(e)'
      <4>1. Success(e) /\ entry[e] \in {"added", "listening", "rejected"}
        BY <2>4, <3>2
      <4>2. entry[e] \in {"listening", "rejected"} /\ RowKept(e)
        BY <4>1
      <4>3. entry'[e] = "released"
        BY <1>11, <4>2 , <3>2 DEF ProcessLateError, LateFinished, Finalize
      <4> QED  BY <2>1, <4>2, <4>3
    <3> QED  BY <3>1, <3>2
  <2>9. Kept(e)'
    BY <2>1, <2>7, <2>8
  <2> QED  BY <2>6, <2>9
<1>12. CASE SaveLateError(e)
  BY <1>12 DEF SaveLateError
<1> QED  BY <1>1, <1>2, <1>3, <1>4, <1>5, <1>6, <1>7, <1>8, <1>9, <1>10, <1>11, <1>12

\* A worker: Pickup takes the token of the job, the end of a run gives it back.
LEMMA WorkerInv ==
    ASSUME TypeOK, NEW w \in Workers, NEW e \in Executions, Inv(e),
           \A v \in Workers \ {w} : work'[v][e] = work[v][e],
           \/ Pickup(w, e) \/ Fetch(w, e) \/ SetRunning(w, e) \/ FailToStart(w, e) \/ Register(w, e)
           \/ (\E s \in Outcomes : EndRun(w, e, s)) \/ EndCanceled(w, e) \/ EndJob(w, e)
    PROVE  Inv(e)'
<1> USE DEF TypeOK, Put, Go, At, Active, Inv, OneToken, Settled, Kept, main, bull
<1>1. CASE Pickup(w, e)
  BY <1>1 DEF Pickup
<1>2. CASE Fetch(w, e)
  BY <1>2 DEF Fetch
<1>3. CASE SetRunning(w, e)
  BY <1>3 DEF SetRunning
<1>4. CASE FailToStart(w, e) \/ Register(w, e)
  <2>1. \E s \in {"failed", "running"} : work' = [work EXCEPT ![w][e] = s]
    BY <1>4 DEF FailToStart, Register
  <2>2. Works(w, e) /\ work'[w][e] # "success"
    BY <1>4, <2>1 DEF FailToStart, Register
  <2>3. UNCHANGED <<row, entry, told, job, result, stop, stopped>>
    BY <1>4 DEF FailToStart, Register
  <2> QED  BY <2>2, <2>3
<1>5. CASE \E s \in Outcomes : EndRun(w, e, s)
  BY <1>5 DEF EndRun, Outcomes
<1>6. CASE EndCanceled(w, e)
  BY <1>6 DEF EndCanceled
<1>7. CASE EndJob(w, e)
  <2>1. /\ work[w][e] \in Outcomes \cup {"refused", "failed"} /\ work'[w][e] = "idle"
        /\ result'[e] \in {result[e]} \cup {work[w][e]}
        /\ job'[e] \in {job[e], "completed", "failed"}
        /\ UNCHANGED <<row, entry, told, stop, stopped>>
    BY <1>7 DEF EndJob, Move
  <2>2. Success(e)' => Success(e)
    BY <2>1
  <2>3. \A v \in Workers : Works(v, e)' => Works(v, e)
    BY <2>1
  <2>4. OneToken(e)'
    BY <2>1, <2>3
  <2>5. Settled(e)'
    BY <2>1, <2>2, <2>3 DEF NoToken
  <2>6. Kept(e)'
    BY <2>1, <2>2
  <2> QED  BY <2>4, <2>5, <2>6
<1> QED  BY <1>1, <1>2, <1>3, <1>4, <1>5, <1>6, <1>7

\* The end of a process, and recovery, which only changes a row in progress.
LEMMA ProcessInv ==
    ASSUME TypeOK, NEW e \in Executions, Inv(e),
           \/ \E w \in Workers : StopWorker(w) \/ Exit(w) \/ WorkerCrash(w)
           \/ MainCrash \/ RecoverRead \/ RecoverJobs \/ RecoverMark
    PROVE  Inv(e)'
<1> USE DEF TypeOK, Inv, OneToken, Settled, Kept, main, bull, workers
<1>1. CASE \E w \in Workers : StopWorker(w)
  BY <1>1 DEF StopWorker
<1>2. CASE \E w \in Workers : Exit(w) \/ WorkerCrash(w)
  <2>1. PICK w \in Workers : Gone(w)
    BY <1>2 DEF Exit, WorkerCrash
  <2>2. \A v \in Workers : work'[v][e] \in {work[v][e], "idle"}
    BY <2>1 DEF Gone
  <2>3. UNCHANGED <<row, entry, told, job, result, stop, stopped>>
    BY <2>1 DEF Gone
  <2> QED  BY <2>2, <2>3 DEF Active
<1>3. CASE MainCrash
  <2>1. /\ entry'[e] \in {"none", "lost"} /\ (entry'[e] = "none" => entry[e] = "none")
        /\ result'[e] # "success" /\ stop'[e] = {} /\ UNCHANGED <<row, told, job, work, stopped>>
    BY <1>3, ScalingAssumption DEF MainCrash
  <2> QED  BY <2>1
<1>4. CASE RecoverRead \/ RecoverJobs
  BY <1>4 DEF RecoverRead, RecoverJobs
<1>5. CASE RecoverMark
  <2>1. /\ row'[e] = row[e] \/ (row[e] \in InProgress /\ row'[e] = "crashed")
        /\ UNCHANGED <<entry, told, job, result, work, stop, stopped>>
    BY <1>5 DEF RecoverMark, MarkAsCrashed
  <2> QED  BY <2>1 DEF InProgress
<1> QED  BY <1>1, <1>2, <1>3, <1>4, <1>5

-----------------------------------------------------------------------------
(* The invariant, and what follows from it.                                *)

LEMMA InitQueueInv == Init => QueueInv
BY InitTypeOK, ScalingAssumption DEF Init, QueueInv, Inv, OneToken, Settled, Kept, Active

LEMMA NextQueueInv == QueueInv /\ [Next]_vars => QueueInv'
<1> SUFFICES ASSUME QueueInv, [Next]_vars, NEW d \in Executions PROVE Inv(d)'
  BY NextTypes DEF QueueInv
<1> TypeOK /\ Inv(d)
  BY DEF QueueInv
<1>1. CASE \E e \in Executions :
        \/ Add(e) \/ AddJob(e) \/ AddJobFails(e) \/ JobFinished(e) \/ JobFailed(e) \/ SaveError(e)
        \/ Stop(e) \/ StopJob(e) \/ StopRow(e) \/ Stall(e)
        \/ ProcessLateError(e) \/ SaveLateError(e) \/ LateFinished(e)
  BY <1>1, MainTouches, MainInv, UntouchedInv
<1>2. CASE \E w \in Workers, e \in Executions :
        \/ Pickup(w, e) \/ Fetch(w, e) \/ SetRunning(w, e) \/ FailToStart(w, e) \/ Register(w, e)
        \/ (\E s \in Outcomes : EndRun(w, e, s)) \/ EndCanceled(w, e) \/ EndJob(w, e)
  BY <1>2, WorkerTouches, WorkerInv, UntouchedInv
<1>3. CASE \/ \E w \in Workers : StopWorker(w) \/ Exit(w) \/ WorkerCrash(w)
           \/ MainCrash \/ RecoverRead \/ RecoverJobs \/ RecoverMark
  BY <1>3, ProcessInv
<1>4. CASE UNCHANGED vars
  BY <1>4, UntouchedInv DEF vars, main, bull, workers, Untouched
<1> QED  BY <1>1, <1>2, <1>3, <1>4 DEF Next

\* Tokens and successes together: the invariant of the queue.
THEOREM QueueInvariant == Spec => []QueueInv
BY InitQueueInv, NextQueueInv, PTL DEF Spec

\* An execution is never run by two workers at a time, whatever processes die and
\* whatever locks are lost: a stalled job fails, so nobody gets its token.
THEOREM OneWorkerAtATime == Spec => []OneWorker
<1>1. QueueInv => OneWorker
  <2> SUFFICES ASSUME QueueInv, NEW e \in Executions
               PROVE  Cardinality({w \in Workers :
                          work[w][e] \in {"start", "setup", "running", "aborted"}}) <= 1
    BY DEF OneWorker
  <2> DEFINE S == {w \in Workers : work[w][e] \in {"start", "setup", "running", "aborted"}}
  <2>1. \A v, w \in S : v = w
    BY DEF QueueInv, Inv, OneToken, Active
  <2>2. S = {} \/ (\E w \in S : S = {w})
    BY <2>1
  <2> HIDE DEF S
  <2>3. Cardinality(S) \in {0, 1}
    BY <2>2, FS_EmptySet, FS_Singleton
  <2> QED  BY <2>3 DEF S
<1> QED  BY <1>1, QueueInvariant, PTL

\* What the main was told of a success stays in the database, unless a user stops
\* the execution: no recovery, late save or late message replaces it.
THEOREM SuccessIsKept == Spec => []ToldIsKept
<1>1. QueueInv => ToldIsKept
  BY DEF QueueInv, Inv, Kept, ToldIsKept
<1> QED  BY <1>1, QueueInvariant, PTL

=============================================================================
