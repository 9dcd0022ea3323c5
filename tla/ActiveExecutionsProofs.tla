------------------------ MODULE ActiveExecutionsProofs ------------------------
(***************************************************************************)
(* Proofs about ActiveExecutions for any executions, attempts and limits   *)
(* and any number of restarts, in three independent parts:                 *)
(*   - the rows: an execution is run by one attempt at a time, and success *)
(*     is final.  Both rest on what the status column says while an        *)
(*     attempt is under way, and on nothing the queue, the registry or the *)
(*     engine do;                                                          *)
(*   - the registry: no entry outlives the run it stands for;              *)
(*   - the queue: whoever runs holds a slot, and every step on the queue   *)
(*     is one a caller of the queue may make, so that what is proved of    *)
(*     ConcurrencyQueue holds here, when no license cap turns the control  *)
(*     on again after a shutdown.                                          *)
(* The types of all variables follow from the three.                       *)
(***************************************************************************)
EXTENDS ActiveExecutions, SequencesExt, TLAPS

-----------------------------------------------------------------------------
(* The rows.                                                               *)

\* The stages of add before the row is claimed.
Entering == {"created", "reserving", "reserved"}

\* The variables the argument is about.
StageTypes ==
    /\ pc \in [Attempts -> Stages]
    /\ db \in [Executions -> Statuses]
    /\ outcome \in [Attempts -> {"none", "success", "error", "waiting"}]
    /\ \A a \in Attempts : pc[a] = "saving" => outcome[a] # "none"

\* Whoever owns an execution finds it running, or canceled by a stop.
OwnedRow ==
    \A a \in Attempts : pc[a] \in Owning => db[ExecutionOf[a]] \in {"running", "canceled"}

\* A new execution that is not admitted yet is new, or canceled by a stop, and
\* nobody owns it.
EnteringRow ==
    \A a \in Attempts \ Resuming :
        pc[a] \in Entering =>
            /\ db[ExecutionOf[a]] \in {"new", "canceled"}
            /\ \A b \in Attempts : pc[b] \in Owning => ExecutionOf[b] # ExecutionOf[a]

\* The row of an execution is created by one attempt.
CreatedOnce ==
    \A a \in Attempts \ Resuming :
        pc[a] # "idle" =>
            /\ db[ExecutionOf[a]] # "absent"
            /\ \A b \in Attempts \ Resuming :
                   pc[b] # "idle" /\ ExecutionOf[b] = ExecutionOf[a] => b = a

RunInv == StageTypes /\ SingleRunner /\ OwnedRow /\ EnteringRow /\ CreatedOnce

\* An attempt goes on to another stage and writes no status: the invariant holds
\* unless it enters add or takes ownership on the way.
LEMMA MovePreserves ==
    ASSUME RunInv, NEW a \in Attempts, NEW s \in Stages,
           pc' = [pc EXCEPT ![a] = s], db' = db,
           s \in Owning => pc[a] \in Owning,
           s \in Entering => a \in Resuming \/ pc[a] \in Entering,
           pc[a] = "idle" => a \in Resuming,
           outcome' \in [Attempts -> {"none", "success", "error", "waiting"}],
           \A b \in Attempts \ {a} : outcome'[b] = outcome[b],
           s = "saving" => outcome'[a] # "none"
    PROVE  RunInv'
<1>1. /\ \A b \in Attempts : pc'[b] = IF b = a THEN s ELSE pc[b]
      /\ pc' \in [Attempts -> Stages]
  BY DEF RunInv, StageTypes
<1>2. \A b \in Attempts : pc'[b] \in Owning => pc[b] \in Owning
  BY <1>1
<1>3. StageTypes'
  BY <1>1 DEF RunInv, StageTypes
<1>4. SingleRunner'
  BY <1>2 DEF RunInv, SingleRunner
<1>5. OwnedRow'
  BY <1>2 DEF RunInv, OwnedRow
<1>6. EnteringRow'
  <2>1. \A b \in Attempts \ Resuming : pc'[b] \in Entering => pc[b] \in Entering
    BY <1>1
  <2> QED  BY <1>2, <2>1 DEF RunInv, EnteringRow
<1>7. CreatedOnce'
  <2>1. \A b \in Attempts \ Resuming : pc'[b] # "idle" => pc[b] # "idle"
    BY <1>1
  <2> QED  BY <2>1 DEF RunInv, CreatedOnce
<1> QED  BY <1>3, <1>4, <1>5, <1>6, <1>7 DEF RunInv

\* A step that touches neither stages, rows nor outcomes.
LEMMA OtherPreserves ==
    ASSUME RunInv, UNCHANGED <<pc, db, outcome>>
    PROVE  RunInv'
BY DEF RunInv, StageTypes, SingleRunner, OwnedRow, EnteringRow, CreatedOnce

\* The cancel handler and a stop write canceled, whoever owns the execution.
LEMMA CancelPreserves ==
    ASSUME RunInv, NEW e \in Executions, SetDb(e, "canceled"), UNCHANGED <<pc, outcome>>
    PROVE  RunInv'
<1>1. /\ \A d \in Executions : db'[d] = IF d = e THEN "canceled" ELSE db[d]
      /\ db' \in [Executions -> Statuses]
  BY DEF RunInv, StageTypes, SetDb, Statuses
<1>2. \A a \in Attempts : ExecutionOf[a] \in Executions
  BY AttemptsAssumption
<1>3. StageTypes'
  BY <1>1 DEF RunInv, StageTypes
<1>4. SingleRunner'
  BY DEF RunInv, SingleRunner
<1>5. OwnedRow'
  BY <1>1, <1>2 DEF RunInv, OwnedRow
<1>6. EnteringRow'
  BY <1>1, <1>2 DEF RunInv, EnteringRow
<1>7. CreatedOnce'
  BY <1>1, <1>2 DEF RunInv, CreatedOnce
<1> QED  BY <1>3, <1>4, <1>5, <1>6, <1>7 DEF RunInv

\* The creation of the row: it was absent, so nobody owns the execution and no
\* other attempt created it.
LEMMA CreatePreserves ==
    ASSUME RunInv, NEW a \in Attempts, Create(a)
    PROVE  RunInv'
<1> DEFINE e == ExecutionOf[a]
<1>1. /\ a \notin Resuming /\ pc[a] = "idle" /\ db[e] = "absent" /\ e \in Executions
      /\ \A b \in Attempts : ExecutionOf[b] \in Executions
      /\ UNCHANGED outcome
  BY AttemptsAssumption DEF Create, engineVars
<1>2. /\ \A b \in Attempts : pc'[b] = IF b = a THEN "created" ELSE pc[b]
      /\ pc' \in [Attempts -> Stages]
      /\ \A d \in Executions : db'[d] = IF d = e THEN "new" ELSE db[d]
      /\ db' \in [Executions -> Statuses]
  BY <1>1 DEF Create, Goto, SetDb, RunInv, StageTypes, Stages, Statuses
<1>3. /\ \A b \in Attempts : pc[b] \in Owning => ExecutionOf[b] # e
      /\ \A b \in Attempts \ Resuming : ExecutionOf[b] = e => pc[b] = "idle"
  BY <1>1 DEF RunInv, OwnedRow, CreatedOnce
<1> HIDE DEF e
<1>4. \A b \in Attempts : pc'[b] \in Owning => pc[b] \in Owning
  BY <1>2 DEF Owning
<1>5. StageTypes'
  BY <1>1, <1>2 DEF RunInv, StageTypes
<1>6. SingleRunner'
  BY <1>4 DEF RunInv, SingleRunner
<1>7. OwnedRow'
  BY <1>1, <1>2, <1>3, <1>4 DEF RunInv, OwnedRow
<1>8. EnteringRow'
  <2> SUFFICES ASSUME NEW b \in Attempts \ Resuming, pc'[b] \in Entering
               PROVE  /\ db'[ExecutionOf[b]] \in {"new", "canceled"}
                      /\ \A c \in Attempts : pc'[c] \in Owning => ExecutionOf[c] # ExecutionOf[b]
    BY DEF EnteringRow
  <2>1. CASE b = a
    BY <1>1, <1>2, <1>3, <1>4, <2>1 DEF e
  <2>2. CASE b # a
    BY <1>1, <1>2, <1>4, <2>2 DEF RunInv, EnteringRow
  <2> QED  BY <2>1, <2>2
<1>9. CreatedOnce'
  <2> SUFFICES ASSUME NEW b \in Attempts \ Resuming, pc'[b] # "idle"
               PROVE  /\ db'[ExecutionOf[b]] # "absent"
                      /\ \A c \in Attempts \ Resuming :
                             pc'[c] # "idle" /\ ExecutionOf[c] = ExecutionOf[b] => c = b
    BY DEF CreatedOnce
  <2>1. CASE b = a
    BY <1>1, <1>2, <1>3, <2>1 DEF e
  <2>2. CASE b # a
    BY <1>1, <1>2, <1>3, <2>2 DEF RunInv, CreatedOnce, e
  <2> QED  BY <2>1, <2>2
<1> QED  BY <1>5, <1>6, <1>7, <1>8, <1>9 DEF RunInv

\* Taking ownership of an execution nobody owns: the row is set to running.
LEMMA OwnPreserves ==
    ASSUME RunInv, NEW a \in Attempts,
           pc[a] # "idle",
           \A b \in Attempts : pc[b] \in Owning => ExecutionOf[b] # ExecutionOf[a],
           \A b \in Attempts \ Resuming :
               pc[b] \in Entering /\ ExecutionOf[b] = ExecutionOf[a] => b = a,
           SetDb(ExecutionOf[a], "running"), Goto(a, "stored"), UNCHANGED outcome
    PROVE  RunInv'
<1> DEFINE e == ExecutionOf[a]
<1>1. e \in Executions /\ \A b \in Attempts : ExecutionOf[b] \in Executions
  BY AttemptsAssumption
<1>2. /\ \A b \in Attempts : pc'[b] = IF b = a THEN "stored" ELSE pc[b]
      /\ pc' \in [Attempts -> Stages]
      /\ \A d \in Executions : db'[d] = IF d = e THEN "running" ELSE db[d]
      /\ db' \in [Executions -> Statuses]
  BY <1>1 DEF Goto, SetDb, RunInv, StageTypes, Stages, Statuses
<1>3. \A b \in Attempts : pc'[b] \in Owning => b = a \/ (pc[b] \in Owning /\ ExecutionOf[b] # e)
  BY <1>2
<1>4. \A b \in Attempts \ Resuming :
          pc'[b] \in Entering => pc[b] \in Entering /\ ExecutionOf[b] # e
  BY <1>2 DEF Entering
<1>5. StageTypes'
  BY <1>2 DEF RunInv, StageTypes
<1>6. SingleRunner'
  BY <1>3 DEF RunInv, SingleRunner
<1>7. OwnedRow'
  BY <1>1, <1>2, <1>3 DEF RunInv, OwnedRow
<1>8. EnteringRow'
  BY <1>1, <1>2, <1>3, <1>4 DEF RunInv, EnteringRow
<1>9. CreatedOnce'
  <2>1. \A b \in Attempts : pc'[b] # "idle" => pc[b] # "idle"
    BY <1>2
  <2> QED  BY <1>1, <1>2, <2>1 DEF RunInv, CreatedOnce
<1> QED  BY <1>5, <1>6, <1>7, <1>8, <1>9 DEF RunInv

\* The claim of a new execution.
LEMMA StoreNewPreserves ==
    ASSUME RunInv, NEW a \in Attempts, StoreNew(a)
    PROVE  RunInv'
<1>1. a \notin Resuming /\ pc[a] \in Entering
  BY DEF StoreNew, Admitted, Entering
<1>2. \A b \in Attempts : pc[b] \in Owning => ExecutionOf[b] # ExecutionOf[a]
  BY <1>1 DEF RunInv, EnteringRow
<1>3. \A b \in Attempts \ Resuming :
          pc[b] \in Entering /\ ExecutionOf[b] = ExecutionOf[a] => b = a
  BY <1>1 DEF RunInv, CreatedOnce, Entering
<1> QED  BY <1>1, <1>2, <1>3, OwnPreserves DEF StoreNew, Entering, engineVars

\* The claim of a waiting execution: its row says that nobody owns it and that it
\* is not new.
LEMMA ClaimPreserves ==
    ASSUME RunInv, NEW a \in Attempts, Claim(a)
    PROVE  RunInv'
<1>1. a \in Resuming /\ pc[a] \in Entering /\ UNCHANGED outcome
  BY DEF Claim, Admitted, Entering, engineVars
<1>2. CASE db[ExecutionOf[a]] = "waiting"
  <2>1. SetDb(ExecutionOf[a], "running") /\ Goto(a, "stored")
    BY <1>2 DEF Claim
  <2>2. \A b \in Attempts : pc[b] \in Owning => ExecutionOf[b] # ExecutionOf[a]
    BY <1>2 DEF RunInv, OwnedRow
  <2>3. \A b \in Attempts \ Resuming : pc[b] \in Entering => ExecutionOf[b] # ExecutionOf[a]
    BY <1>2 DEF RunInv, EnteringRow
  <2> QED  BY <1>1, <2>1, <2>2, <2>3, OwnPreserves DEF Entering
<1>3. CASE db[ExecutionOf[a]] # "waiting"
  <2>1. Goto(a, "rejected") /\ db' = db
    BY <1>3 DEF Claim
  <2> QED
    BY <1>1, <2>1, MovePreserves DEF Goto, Stages, Owning, Entering, RunInv, StageTypes
<1> QED  BY <1>2, <1>3

\* runMainProcess writes running again; it owns the execution.
LEMMA SetRunningPreserves ==
    ASSUME RunInv, NEW a \in Attempts, SetRunning(a)
    PROVE  RunInv'
<1> DEFINE e == ExecutionOf[a]
<1>1. /\ e \in Executions /\ \A b \in Attempts : ExecutionOf[b] \in Executions
      /\ pc[a] = "registered" /\ UNCHANGED outcome
  BY AttemptsAssumption DEF SetRunning, engineVars
<1>2. /\ \A b \in Attempts : pc'[b] = IF b = a THEN "starting" ELSE pc[b]
      /\ pc' \in [Attempts -> Stages]
      /\ \A d \in Executions : db'[d] = IF d = e THEN "running" ELSE db[d]
      /\ db' \in [Executions -> Statuses]
  BY <1>1 DEF SetRunning, Goto, SetDb, RunInv, StageTypes, Stages, Statuses
<1>3. \A b \in Attempts : pc'[b] \in Owning => pc[b] \in Owning
  BY <1>1, <1>2 DEF Owning
<1>4. \A b \in Attempts \ Resuming :
          pc'[b] \in Entering => pc[b] \in Entering /\ ExecutionOf[b] # e
  BY <1>1, <1>2 DEF Entering, Owning, RunInv, EnteringRow
<1>5. StageTypes'
  BY <1>1, <1>2 DEF RunInv, StageTypes
<1>6. SingleRunner'
  BY <1>3 DEF RunInv, SingleRunner
<1>7. OwnedRow'
  BY <1>1, <1>2, <1>3 DEF RunInv, OwnedRow
<1>8. EnteringRow'
  BY <1>1, <1>2, <1>3, <1>4 DEF RunInv, EnteringRow
<1>9. CreatedOnce'
  <2>1. \A b \in Attempts : pc'[b] # "idle" => pc[b] # "idle"
    BY <1>1, <1>2
  <2> QED  BY <1>1, <1>2, <2>1 DEF RunInv, CreatedOnce
<1> QED  BY <1>5, <1>6, <1>7, <1>8, <1>9 DEF RunInv

\* The save of a result gives the execution up; nobody else owned it or was about
\* to enter it.
LEMMA SavePreserves ==
    ASSUME RunInv, NEW a \in Attempts, Save(a)
    PROVE  RunInv'
<1> DEFINE e == ExecutionOf[a]
<1>1. /\ e \in Executions /\ \A b \in Attempts : ExecutionOf[b] \in Executions
      /\ pc[a] = "saving" /\ UNCHANGED outcome
  BY AttemptsAssumption DEF Save, engineVars
<1>2. \A b \in Attempts : pc'[b] = IF b = a THEN "saved" ELSE pc[b]
  BY DEF Save, Goto, RunInv, StageTypes
<1>3. pc' \in [Attempts -> Stages]
  BY DEF Save, Goto, RunInv, StageTypes, Stages
<1>4. outcome[a] \in {"success", "error", "waiting"}
  BY <1>1 DEF RunInv, StageTypes
<1>5. /\ db' \in [Executions -> Statuses]
      /\ db'[e] # "absent"
      /\ \A d \in Executions \ {e} : db'[d] = db[d]
  BY <1>1, <1>4 DEF Save, SetDb, RunInv, StageTypes, Statuses
<1>6. \A b \in Attempts :
          pc'[b] \in Owning => pc[b] \in Owning /\ ExecutionOf[b] # e
  BY <1>1, <1>2 DEF Owning, RunInv, SingleRunner
<1>7. \A b \in Attempts \ Resuming :
          pc'[b] \in Entering => pc[b] \in Entering /\ ExecutionOf[b] # e
  BY <1>1, <1>2 DEF Entering, Owning, RunInv, EnteringRow
<1>8. StageTypes'
  BY <1>1, <1>2, <1>3, <1>5 DEF RunInv, StageTypes
<1>9. SingleRunner'
  BY <1>6 DEF RunInv, SingleRunner
<1>10. OwnedRow'
  BY <1>1, <1>5, <1>6 DEF RunInv, OwnedRow
<1>11. EnteringRow'
  BY <1>1, <1>5, <1>6, <1>7 DEF RunInv, EnteringRow
<1>12. CreatedOnce'
  <2>1. \A b \in Attempts : pc'[b] # "idle" => pc[b] # "idle"
    BY <1>1, <1>2
  <2> QED  BY <1>1, <1>5, <2>1 DEF RunInv, CreatedOnce
<1> QED  BY <1>8, <1>9, <1>10, <1>11, <1>12 DEF RunInv

\* A restart ends every attempt and owns nothing.
LEMMA RestartPreserves ==
    ASSUME RunInv, Restart
    PROVE  RunInv'
<1>1. /\ pc' \in [Attempts -> Stages]
      /\ \A a \in Attempts : pc'[a] \notin Owning \cup Entering \cup {"saving"}
      /\ \A a \in Attempts : pc'[a] # "idle" => pc[a] # "idle"
  BY DEF Restart, RunInv, StageTypes, Stages, Owning, Entering
<1>2. /\ db' \in [Executions -> Statuses]
      /\ \A e \in Executions : db[e] # "absent" => db'[e] # "absent"
  BY DEF Restart, RunInv, StageTypes, Statuses
<1>3. StageTypes'
  BY <1>1, <1>2 DEF Restart, RunInv, StageTypes
<1>4. SingleRunner' /\ OwnedRow' /\ EnteringRow'
  BY <1>1 DEF SingleRunner, OwnedRow, EnteringRow
<1>5. CreatedOnce'
  BY <1>1, <1>2, AttemptsAssumption DEF RunInv, CreatedOnce
<1> QED  BY <1>3, <1>4, <1>5 DEF RunInv

-----------------------------------------------------------------------------

\* The steps of an attempt preserve the invariant.
LEMMA StepPreserves ==
    ASSUME RunInv, NEW a \in Attempts, Step(a)
    PROVE  RunInv'
<1> USE DEF engineVars
<1>0. /\ pc \in [Attempts -> Stages]
      /\ outcome \in [Attempts -> {"none", "success", "error", "waiting"}]
  BY DEF RunInv, StageTypes
<1>1. CASE Create(a)
  BY <1>1, CreatePreserves
<1>2. CASE Resume(a)
  BY <1>0, <1>2, MovePreserves DEF Resume, Goto, Stages, Owning, Entering
<1>3. CASE Reserve(a)
  <2>1. /\ pc[a] = "created" /\ db' = db /\ outcome' = outcome
        /\ Goto(a, "reserving") \/ Goto(a, "reserved")
    BY <1>3 DEF Reserve
  <2> QED  BY <1>0, <2>1, MovePreserves DEF Goto, Stages, Owning, Entering
<1>4. CASE StoreNew(a)
  BY <1>4, StoreNewPreserves
<1>5. CASE Claim(a)
  BY <1>5, ClaimPreserves
<1>6. CASE Register(a)
  BY <1>0, <1>6, MovePreserves DEF Register, Goto, Stages, Owning, Entering
<1>7. CASE FailExecution(a)
  BY <1>0, <1>7, MovePreserves DEF FailExecution, Goto, Stages, Owning, Entering
<1>8. CASE RejectRun(a)
  BY <1>0, <1>8, MovePreserves DEF RejectRun, Goto, Stages, Owning, Entering
<1>9. CASE SetRunning(a)
  BY <1>9, SetRunningPreserves
<1>10. CASE Attach(a)
  BY <1>0, <1>10, MovePreserves DEF Attach, Goto, Stages, Owning, Entering
<1>11. CASE ProcessError(a)
  <2>1. /\ pc[a] = "executing" /\ db' = db /\ Goto(a, "saving")
        /\ outcome' = [outcome EXCEPT ![a] = "error"]
    BY <1>11 DEF ProcessError
  <2> QED  BY <1>0, <2>1, MovePreserves DEF Goto, Stages, Owning, Entering
<1>12. CASE PutToWait(a)
  <2>1. pc[a] = "executing" /\ db' = db /\ outcome' = outcome /\ Goto(a, "waitset")
    BY <1>12 DEF PutToWait
  <2> QED  BY <1>0, <2>1, MovePreserves DEF Goto, Stages, Owning, Entering
<1>13. CASE Finish(a)
  <2>1. pc[a] \in {"executing", "waitset"} /\ db' = db
    BY <1>13 DEF Finish
  <2>2. \/ /\ Goto(a, "saved") /\ outcome' = outcome
        \/ /\ Goto(a, "saving")
           /\ \E o \in {"success", "error", "waiting"} : outcome' = [outcome EXCEPT ![a] = o]
    BY <1>13 DEF Finish
  <2>3. CASE Goto(a, "saved") /\ outcome' = outcome
    BY <1>0, <2>1, <2>3, MovePreserves DEF Goto, Stages, Owning, Entering
  <2>4. ASSUME NEW o \in {"success", "error", "waiting"},
               Goto(a, "saving"), outcome' = [outcome EXCEPT ![a] = o]
        PROVE  RunInv'
    BY <1>0, <2>1, <2>4, MovePreserves DEF Goto, Stages, Owning, Entering
  <2> QED  BY <2>2, <2>3, <2>4
<1>14. CASE Save(a)
  BY <1>14, SavePreserves
<1>15. CASE SaveCancelled(a)
  BY <1>15, CancelPreserves, AttemptsAssumption DEF SaveCancelled
<1>16. CASE Finalize(a)
  <2>1. pc[a] = "saved" /\ db' = db /\ outcome' = outcome /\ Goto(a, "done")
    BY <1>16 DEF Finalize
  <2> QED  BY <1>0, <2>1, MovePreserves DEF Goto, Stages, Owning, Entering
<1> QED
  BY <1>1, <1>2, <1>3, <1>4, <1>5, <1>6, <1>7, <1>8, <1>9, <1>10, <1>11, <1>12,
     <1>13, <1>14, <1>15, <1>16 DEF Step

\* Every step, stuttering included, preserves the invariant.
LEMMA RunNextPreserves == RunInv /\ [Next]_vars => RunInv'
<1> SUFFICES ASSUME RunInv, [Next]_vars PROVE RunInv'
  OBVIOUS
<1>1. ASSUME NEW a \in Attempts, Step(a) PROVE RunInv'
  BY <1>1, StepPreserves
<1>2. ASSUME NEW a \in Attempts, Timeout(a) PROVE RunInv'
  BY <1>2, OtherPreserves DEF Timeout, StopExecution
<1>3. ASSUME NEW e \in Executions, StopRead(e) PROVE RunInv'
  BY <1>3, OtherPreserves DEF StopRead, engineVars
<1>4. ASSUME NEW e \in Executions, StopApply(e) PROVE RunInv'
  <2>1. UNCHANGED <<pc, db, outcome>>
    BY <1>4 DEF StopApply, StopExecution, engineVars
  <2> QED  BY <2>1, OtherPreserves
<1>5. ASSUME NEW e \in Executions, StopSave(e) PROVE RunInv'
  BY <1>5, CancelPreserves DEF StopSave, engineVars
<1>6. CASE Shutdown
  BY <1>6, OtherPreserves DEF Shutdown, engineVars
<1>7. CASE Restart
  BY <1>7, RestartPreserves
<1>8. CASE ResolveEvalQueue
  BY <1>8, OtherPreserves DEF ResolveEvalQueue, engineVars
<1>9. CASE UNCHANGED vars
  BY <1>9, OtherPreserves DEF vars
<1> QED  BY <1>1, <1>2, <1>3, <1>4, <1>5, <1>6, <1>7, <1>8, <1>9 DEF Next

\* The invariant holds before the first call of run.
LEMMA RunInitEstablishes == Init => RunInv
BY AttemptsAssumption
   DEF Init, RunInv, StageTypes, Stages, Statuses, SingleRunner, OwnedRow, EnteringRow,
       CreatedOnce, Owning, Entering

\* The invariant of stages and rows holds in every behaviour.
THEOREM RunInvariant == Spec => []RunInv
BY RunInitEstablishes, RunNextPreserves, PTL DEF Spec

\* An execution is run by one attempt at a time, for any number of executions,
\* resumes, stops and restarts: the conditional update of add is enough.
THEOREM OneRunnerAtATime == Spec => []SingleRunner
BY RunInvariant, PTL DEF RunInv

-----------------------------------------------------------------------------

KeepsSuccess ==
    \A e \in Executions : db[e] = "success" => db'[e] \in {"success", "canceled"}

\* A step of an attempt writes the row of its own execution, and only while that
\* says absent, new, waiting, running or canceled; the cancel handler may write
\* canceled at any time.
LEMMA StepKeepsSuccess ==
    ASSUME RunInv, NEW a \in Attempts, Step(a)
    PROVE  KeepsSuccess
<1> DEFINE e == ExecutionOf[a]
<1>0. db \in [Executions -> Statuses] /\ e \in Executions
  BY AttemptsAssumption DEF RunInv, StageTypes
<1>1. CASE db' = db
  BY <1>1 DEF KeepsSuccess
<1>2. ASSUME NEW s, SetDb(e, s), db[e] # "success" \/ s = "canceled"
      PROVE  KeepsSuccess
  BY <1>0, <1>2 DEF SetDb, KeepsSuccess
<1>3. CASE Create(a)
  BY <1>2, <1>3 DEF Create
<1>4. CASE StoreNew(a)
  <2>1. db[e] \in {"new", "canceled"}
    BY <1>4 DEF StoreNew, Admitted, Entering, RunInv, EnteringRow
  <2> QED  BY <1>2, <1>4, <2>1 DEF StoreNew
<1>5. CASE Claim(a)
  <2>1. db' = db \/ (db[e] = "waiting" /\ SetDb(e, "running"))
    BY <1>5 DEF Claim
  <2> QED  BY <1>1, <1>2, <2>1
<1>6. CASE SetRunning(a)
  <2>1. db[e] \in {"running", "canceled"}
    BY <1>6 DEF SetRunning, Owning, RunInv, OwnedRow
  <2> QED  BY <1>2, <1>6, <2>1 DEF SetRunning
<1>7. CASE Save(a)
  <2>1. db[e] \in {"running", "canceled"}
    BY <1>7 DEF Save, Owning, RunInv, OwnedRow
  <2>2. db' = db \/ SetDb(e, outcome[a])
    BY <1>7 DEF Save
  <2> QED  BY <1>1, <1>2, <2>1, <2>2
<1>8. CASE SaveCancelled(a)
  BY <1>2, <1>8 DEF SaveCancelled
<1>9. CASE \/ Resume(a) \/ Reserve(a) \/ Register(a) \/ FailExecution(a) \/ RejectRun(a)
           \/ Attach(a) \/ ProcessError(a) \/ PutToWait(a) \/ Finish(a) \/ Finalize(a)
  <2>1. db' = db
    BY <1>9
    DEF Resume, Reserve, Register, FailExecution, RejectRun, Attach, ProcessError,
        PutToWait, Finish, Finalize
  <2> QED  BY <1>1, <2>1
<1> QED  BY <1>3, <1>4, <1>5, <1>6, <1>7, <1>8, <1>9 DEF Step

\* An execution that succeeded is never run again nor recorded as anything but
\* canceled, for any number of resumes, stops and restarts.
THEOREM SuccessIsFinal == Spec => SuccessFinal
<1>1. RunInv /\ [Next]_vars => [KeepsSuccess]_vars
  <2> SUFFICES ASSUME RunInv, Next PROVE KeepsSuccess
    OBVIOUS
  <2>0. db \in [Executions -> Statuses]
    BY DEF RunInv, StageTypes
  <2>1. ASSUME NEW a \in Attempts, Step(a) PROVE KeepsSuccess
    BY <2>1, StepKeepsSuccess
  <2>2. CASE db' = db
    BY <2>2 DEF KeepsSuccess
  <2>3. ASSUME NEW e \in Executions, StopSave(e) PROVE KeepsSuccess
    BY <2>0, <2>3 DEF StopSave, SetDb, KeepsSuccess
  <2>4. CASE Restart
    BY <2>0, <2>4 DEF Restart, KeepsSuccess
  <2>5. ASSUME NEW a \in Attempts, Timeout(a) PROVE db' = db
    BY <2>5 DEF Timeout
  <2>6. ASSUME NEW e \in Executions, StopRead(e) \/ StopApply(e) PROVE db' = db
    BY <2>6 DEF StopRead, StopApply
  <2>7. CASE Shutdown \/ ResolveEvalQueue
    BY <2>2, <2>7 DEF Shutdown, ResolveEvalQueue
  <2> QED  BY <2>1, <2>2, <2>3, <2>4, <2>5, <2>6, <2>7 DEF Next
<1> QED  BY <1>1, RunInvariant, PTL DEF Spec, SuccessFinal, KeepsSuccess

-----------------------------------------------------------------------------
(* The registry.                                                           *)

\* The stages before an attempt registers itself.
Unregistered == {"idle", "created", "reserving", "reserved", "stored"}

RegistryTypes ==
    /\ pc \in [Attempts -> Stages]
    /\ run \in [Attempts -> {"none", "attached", "orphan", "cancelled"}]
    /\ entry \in [Executions -> Attempts \cup {None}]
    /\ status \in [Attempts -> {"running", "waiting"}]

\* Nothing has settled the promise of an attempt that is not registered yet, and
\* no run of it was left behind.
UnregisteredClean ==
    \A a \in Attempts : pc[a] \in Unregistered => a \notin settled /\ run[a] # "orphan"

\* An entry is the one of an attempt for its execution.  Unless it waits, the
\* attempt is not over, its promise is not settled, and its own end finalizes it.
LiveEntry(e) ==
    entry[e] # None =>
        /\ ExecutionOf[entry[e]] = e
        /\ pc[entry[e]] \notin Unregistered
        /\ \/ status[entry[e]] = "waiting"
           \/ /\ pc[entry[e]] \in Owning \cup {"saved"}
              /\ entry[e] \notin settled
              /\ run[entry[e]] # "orphan"

LiveEntries == \A e \in Executions : LiveEntry(e)

EntryInv == RegistryTypes /\ UnregisteredClean /\ LiveEntries

\* An attempt goes on to another stage and the registry stays as it is: the
\* invariant holds if it keeps its run, or has no entry that relies on it.
LEMMA MoveKeepsEntries ==
    ASSUME EntryInv, NEW a \in Attempts, NEW s \in Stages,
           pc' = [pc EXCEPT ![a] = s], UNCHANGED <<entry, settled>>,
           pc[a] \notin Unregistered => s \notin Unregistered,
           run' \in [Attempts -> {"none", "attached", "orphan", "cancelled"}],
           \A b \in Attempts \ {a} : run'[b] = run[b],
           s \in Unregistered => run'[a] = run[a],
           status' \in [Attempts -> {"running", "waiting"}],
           \A b \in Attempts : status[b] = "waiting" => status'[b] = "waiting",
           \/ entry[ExecutionOf[a]] # a
           \/ status[a] = "waiting"
           \/ s \in Owning \cup {"saved"} /\ (run'[a] = "orphan" => run[a] = "orphan")
    PROVE  EntryInv'
<1>1. /\ \A b \in Attempts : pc'[b] = IF b = a THEN s ELSE pc[b]
      /\ pc' \in [Attempts -> Stages]
  BY DEF EntryInv, RegistryTypes
<1>2. RegistryTypes'
  BY <1>1 DEF EntryInv, RegistryTypes
<1>3. UnregisteredClean'
  BY <1>1 DEF EntryInv, UnregisteredClean
<1>4. ASSUME NEW e \in Executions, entry[e] # None
      PROVE  LiveEntry(e)'
  <2> DEFINE b == entry[e]
  <2>1. b \in Attempts /\ LiveEntry(e)
    BY <1>4 DEF EntryInv, RegistryTypes, LiveEntries
  <2>2. CASE b # a
    BY <1>1, <2>1, <2>2 DEF LiveEntry
  <2>3. CASE b = a
    BY <1>1, <2>1, <2>3 DEF LiveEntry
  <2> QED  BY <2>2, <2>3
<1>5. LiveEntries'
  BY <1>4 DEF LiveEntries, LiveEntry
<1> QED  BY <1>2, <1>3, <1>5 DEF EntryInv

\* What is left of the registry when entries are dropped.
LEMMA DropKeepsEntries ==
    ASSUME EntryInv, UNCHANGED <<pc, status, settled>>,
           entry' \in [Executions -> Attempts \cup {None}],
           \A e \in Executions : entry'[e] # None => entry'[e] = entry[e],
           run' \in [Attempts -> {"none", "attached", "orphan", "cancelled"}],
           \A a \in Attempts : run'[a] = "orphan" => run[a] = "orphan"
    PROVE  EntryInv'
<1>1. RegistryTypes' /\ UnregisteredClean'
  BY DEF EntryInv, RegistryTypes, UnregisteredClean
<1>2. ASSUME NEW e \in Executions, entry'[e] # None PROVE LiveEntry(e)'
  <2>1. entry'[e] = entry[e] /\ entry[e] \in Attempts /\ LiveEntry(e)
    BY <1>2 DEF EntryInv, RegistryTypes, LiveEntries
  <2> QED  BY <2>1 DEF LiveEntry
<1> QED  BY <1>1, <1>2 DEF EntryInv, LiveEntries, LiveEntry

\* After the promise of the entry of e is settled, that entry is gone unless it
\* waits, so it no longer matters what becomes of the attempt.
LEMMA SettleDrops ==
    ASSUME EntryInv, NEW e \in Executions, Registered(e), Settle(entry[e])
    PROVE  /\ entry' \in [Executions -> Attempts \cup {None}]
           /\ \A d \in Executions \ {e} : entry'[d] = entry[d]
           /\ entry'[e] # None => entry'[e] = entry[e] /\ status[entry[e]] = "waiting"
           /\ settled' = settled \cup {entry[e]}
<1> DEFINE b == entry[e]
<1>1. b \in Attempts /\ LiveEntry(e) /\ b # None
  BY AttemptsAssumption DEF Registered, EntryInv, RegistryTypes, LiveEntries
<1>2. CASE b \in settled
  <2>1. UNCHANGED <<entry, settled>>
    BY <1>2 DEF Settle
  <2>2. status[b] = "waiting"
    BY <1>1, <1>2 DEF LiveEntry
  <2> QED  BY <1>2, <2>1, <2>2 DEF EntryInv, RegistryTypes
<1>3. CASE b \notin settled
  <2>1. /\ settled' = settled \cup {b}
        /\ entry' = IF status[b] = "waiting" THEN entry ELSE [entry EXCEPT ![ExecutionOf[b]] = None]
    BY <1>3 DEF Settle
  <2>2. ExecutionOf[b] = e
    BY <1>1 DEF LiveEntry
  <2> QED  BY <1>1, <2>1, <2>2 DEF EntryInv, RegistryTypes
<1> QED  BY <1>2, <1>3

\* An attempt settles the promise of whoever is registered for its execution, and
\* then may end: the entry that is left, if any, waits.
LEMMA SettleKeepsEntries ==
    ASSUME EntryInv, NEW e \in Executions, Registered(e), Settle(entry[e]),
           UNCHANGED status,
           pc' \in [Attempts -> Stages],
           run' \in [Attempts -> {"none", "attached", "orphan", "cancelled"}],
           \A a \in Attempts :
               \/ pc'[a] = pc[a] /\ (run'[a] = "orphan" => run[a] = "orphan")
               \/ ExecutionOf[a] = e /\ pc[a] \notin Unregistered /\ pc'[a] \notin Unregistered
    PROVE  EntryInv'
<1>1. /\ entry[e] \in Attempts /\ LiveEntry(e)
      /\ entry' \in [Executions -> Attempts \cup {None}]
      /\ \A d \in Executions \ {e} : entry'[d] = entry[d]
      /\ entry'[e] # None => entry'[e] = entry[e] /\ status[entry[e]] = "waiting"
      /\ settled' = settled \cup {entry[e]}
  BY SettleDrops DEF Registered, EntryInv, RegistryTypes, LiveEntries
<1>2. ExecutionOf[entry[e]] = e /\ pc[entry[e]] \notin Unregistered
  BY <1>1 DEF LiveEntry, Registered
<1>3. RegistryTypes'
  BY <1>1 DEF EntryInv, RegistryTypes
<1>4. UnregisteredClean'
  BY <1>1, <1>2 DEF EntryInv, UnregisteredClean
<1>5. LiveEntry(e)'
  BY <1>1, <1>2 DEF LiveEntry
<1>6. ASSUME NEW d \in Executions \ {e}, entry[d] # None PROVE LiveEntry(d)'
  <2>1. entry'[d] = entry[d] /\ entry[d] \in Attempts /\ LiveEntry(d)
    BY <1>1, <1>6 DEF EntryInv, RegistryTypes, LiveEntries
  <2>2. ExecutionOf[entry[d]] # e
    BY <1>6, <2>1 DEF LiveEntry
  <2> QED  BY <1>1, <1>2, <2>1, <2>2 DEF LiveEntry
<1>7. LiveEntries'
  BY <1>1, <1>5, <1>6 DEF LiveEntries, LiveEntry
<1> QED  BY <1>3, <1>4, <1>7 DEF EntryInv

\* The attempt that registers itself has nothing behind it.
LEMMA RegisterKeepsEntries ==
    ASSUME EntryInv, NEW a \in Attempts, Register(a)
    PROVE  EntryInv'
<1> DEFINE e == ExecutionOf[a]
<1>1. /\ pc[a] = "stored" /\ e \in Executions
      /\ UNCHANGED <<run, status, settled>>
  BY AttemptsAssumption DEF Register, engineVars
<1>2. /\ \A b \in Attempts : pc'[b] = IF b = a THEN "registered" ELSE pc[b]
      /\ pc' \in [Attempts -> Stages]
      /\ entry' \in [Executions -> Attempts \cup {None}]
      /\ \A d \in Executions : entry'[d] = IF d = e THEN a ELSE entry[d]
  BY <1>1 DEF Register, Goto, Stages, EntryInv, RegistryTypes
<1>3. a \notin settled /\ run[a] # "orphan"
  BY <1>1 DEF EntryInv, UnregisteredClean, Unregistered
<1>4. RegistryTypes' /\ UnregisteredClean'
  BY <1>1, <1>2 DEF EntryInv, RegistryTypes, UnregisteredClean, Unregistered
<1>5. LiveEntry(e)'
  BY <1>1, <1>2, <1>3 DEF LiveEntry, Unregistered, Owning
<1>6. ASSUME NEW d \in Executions \ {e}, entry[d] # None PROVE LiveEntry(d)'
  <2>1. entry'[d] = entry[d] /\ entry[d] \in Attempts /\ LiveEntry(d)
    BY <1>2, <1>6 DEF EntryInv, RegistryTypes, LiveEntries
  <2>2. entry[d] # a
    BY <1>6, <2>1 DEF LiveEntry
  <2> QED  BY <1>1, <1>2, <2>1, <2>2 DEF LiveEntry
<1>7. LiveEntries'
  BY <1>2, <1>5, <1>6 DEF LiveEntries, LiveEntry
<1> QED  BY <1>4, <1>7 DEF EntryInv

\* A stop or a timeout drops the entry or settles its promise.
LEMMA StopKeepsEntries ==
    ASSUME EntryInv, NEW e \in Executions, StopExecution(e), UNCHANGED pc
    PROVE  EntryInv'
<1>1. Registered(e) /\ UNCHANGED status /\ entry[e] \in Attempts
  BY DEF StopExecution, Registered, EntryInv, RegistryTypes
<1>2. CASE status[entry[e]] = "waiting"
  BY <1>1, <1>2, DropKeepsEntries DEF StopExecution, EntryInv, RegistryTypes
<1>3. CASE status[entry[e]] # "waiting"
  <2>1. /\ Settle(entry[e])
        /\ run' = run \/ run' = [run EXCEPT ![entry[e]] = "cancelled"]
    BY <1>3 DEF StopExecution
  <2>2. /\ run' \in [Attempts -> {"none", "attached", "orphan", "cancelled"}]
        /\ \A a \in Attempts : run'[a] = "orphan" => run[a] = "orphan"
        /\ pc' \in [Attempts -> Stages]
    BY <1>1, <2>1 DEF EntryInv, RegistryTypes
  <2> QED  BY <1>1, <2>1, <2>2, SettleKeepsEntries
<1> QED  BY <1>2, <1>3

\* The steps of an attempt.
LEMMA StepKeepsEntries ==
    ASSUME EntryInv, NEW a \in Attempts, Step(a)
    PROVE  EntryInv'
<1> DEFINE e == ExecutionOf[a]
<1> USE DEF registryVars, engineVars, Goto
<1>0. /\ e \in Executions /\ LiveEntry(e)
      /\ pc \in [Attempts -> Stages]
      /\ run \in [Attempts -> {"none", "attached", "orphan", "cancelled"}]
      /\ entry[e] \in Attempts \cup {None} /\ None \notin Attempts
      /\ status \in [Attempts -> {"running", "waiting"}]
  BY AttemptsAssumption DEF EntryInv, RegistryTypes, LiveEntries
<1>1. CASE Create(a) \/ Resume(a) \/ Reserve(a) \/ StoreNew(a) \/ Claim(a)
  <2>1. /\ pc[a] \in Unregistered \ {"stored"}
        /\ UNCHANGED <<entry, status, settled, run>>
        /\ \E s \in {"created", "reserving", "reserved", "stored", "rejected"} :
               pc' = [pc EXCEPT ![a] = s]
    BY <1>1 DEF Create, Resume, Reserve, StoreNew, Claim, Admitted, Unregistered
  <2>2. entry[e] # a
    BY <1>0, <2>1 DEF LiveEntry
  <2>3. PICK s \in {"created", "reserving", "reserved", "stored", "rejected"} :
            pc' = [pc EXCEPT ![a] = s]
    BY <2>1
  <2> QED  BY <1>0, <2>1, <2>2, <2>3, MoveKeepsEntries DEF Stages
<1>2. CASE Register(a)
  BY <1>2, RegisterKeepsEntries
<1>3. CASE FailExecution(a) \/ SetRunning(a) \/ Finish(a) \/ Save(a)
  <2>1. /\ pc[a] \notin Unregistered
        /\ UNCHANGED <<entry, status, settled, run>>
        /\ \E s \in {"starting", "saving", "saved"} : pc' = [pc EXCEPT ![a] = s]
    BY <1>3 DEF FailExecution, SetRunning, Finish, Save, Unregistered
  <2>2. PICK s \in {"starting", "saving", "saved"} : pc' = [pc EXCEPT ![a] = s]
    BY <2>1
  <2> QED  BY <1>0, <2>1, <2>2, MoveKeepsEntries DEF Stages, Owning, Unregistered
<1>4. CASE RejectRun(a)
  <2>1. /\ pc[a] \notin Unregistered /\ entry[e] # a
        /\ UNCHANGED <<entry, status, settled, run>>
        /\ pc' = [pc EXCEPT ![a] = "rejected"]
    BY <1>0, <1>4 DEF RejectRun, Registered, Unregistered
  <2> QED  BY <1>0, <2>1, MoveKeepsEntries DEF Stages, Unregistered
<1>5. CASE Attach(a)
  <2>1. /\ pc[a] \notin Unregistered
        /\ UNCHANGED <<entry, status, settled>>
        /\ pc' = [pc EXCEPT ![a] = "executing"]
        /\ run' = [run EXCEPT ![a] = IF Registered(e) THEN "attached" ELSE "orphan"]
    BY <1>5 DEF Attach, Unregistered
  <2>2. run'[a] = "orphan" => entry[e] # a
    BY <1>0, <2>1 DEF Registered
  <2>3. /\ run' \in [Attempts -> {"none", "attached", "orphan", "cancelled"}]
        /\ \A b \in Attempts \ {a} : run'[b] = run[b]
    BY <1>0, <2>1
  <2> QED  BY <1>0, <2>1, <2>2, <2>3, MoveKeepsEntries DEF Stages, Owning, Unregistered
<1>6. CASE ProcessError(a)
  <2>1. /\ pc[a] = "executing" /\ UNCHANGED status
        /\ pc' = [pc EXCEPT ![a] = "saving"] /\ run' = [run EXCEPT ![a] = "orphan"]
        /\ IF Registered(e) THEN Settle(entry[e]) ELSE UNCHANGED <<entry, settled>>
    BY <1>6 DEF ProcessError
  <2>2. /\ pc' \in [Attempts -> Stages]
        /\ run' \in [Attempts -> {"none", "attached", "orphan", "cancelled"}]
        /\ \A b \in Attempts \ {a} : pc'[b] = pc[b] /\ run'[b] = run[b]
        /\ pc[a] \notin Unregistered /\ pc'[a] \notin Unregistered
    BY <1>0, <2>1 DEF Stages, Unregistered
  <2>3. CASE Registered(e)
    BY <1>0, <2>1, <2>2, <2>3, SettleKeepsEntries
  <2>4. CASE ~Registered(e)
    <3>1. entry[e] # a /\ UNCHANGED <<entry, settled>>
      BY <1>0, <2>1, <2>4 DEF Registered
    <3> QED  BY <1>0, <2>1, <2>2, <3>1, MoveKeepsEntries DEF Stages, Unregistered
  <2> QED  BY <2>3, <2>4
<1>7. CASE PutToWait(a)
  <2>1. /\ pc[a] \notin Unregistered /\ entry[e] \in Attempts
        /\ UNCHANGED <<entry, settled, run>>
        /\ pc' = [pc EXCEPT ![a] = "waitset"]
        /\ status' = [status EXCEPT ![entry[e]] = "waiting"]
    BY <1>0, <1>7 DEF PutToWait, Registered, Unregistered
  <2>2. /\ status' \in [Attempts -> {"running", "waiting"}]
        /\ \A b \in Attempts : status[b] = "waiting" => status'[b] = "waiting"
    BY <1>0, <2>1
  <2> QED  BY <1>0, <2>1, <2>2, MoveKeepsEntries DEF Stages, Owning, Unregistered
<1>8. CASE SaveCancelled(a)
  BY <1>0, <1>8, DropKeepsEntries DEF SaveCancelled, EntryInv, RegistryTypes
<1>9. CASE Finalize(a)
  <2>1. /\ pc[a] = "saved" /\ UNCHANGED <<status, run>>
        /\ pc' = [pc EXCEPT ![a] = "done"]
        /\ IF run[a] # "orphan" /\ Registered(e)
           THEN Settle(entry[e]) ELSE UNCHANGED <<entry, settled>>
    BY <1>9 DEF Finalize
  <2>2. /\ pc' \in [Attempts -> Stages]
        /\ \A b \in Attempts \ {a} : pc'[b] = pc[b]
        /\ pc[a] \notin Unregistered /\ pc'[a] \notin Unregistered
    BY <1>0, <2>1 DEF Stages, Unregistered
  <2>3. CASE run[a] # "orphan" /\ Registered(e)
    BY <1>0, <2>1, <2>2, <2>3, SettleKeepsEntries
  <2>4. CASE ~(run[a] # "orphan" /\ Registered(e))
    <3>1. UNCHANGED <<entry, settled>>
      BY <2>1, <2>4
    <3>2. entry[e] # a \/ status[a] = "waiting"
      BY <1>0, <2>4 DEF LiveEntry, Registered
    <3> QED  BY <1>0, <2>1, <2>2, <3>1, <3>2, MoveKeepsEntries DEF Stages, Unregistered
  <2> QED  BY <2>3, <2>4
<1> QED  BY <1>1, <1>2, <1>3, <1>4, <1>5, <1>6, <1>7, <1>8, <1>9 DEF Step

\* Every step keeps the registry as the invariant says.
LEMMA NextKeepsEntries ==
    ASSUME EntryInv, [Next]_vars
    PROVE  EntryInv'
<1>1. ASSUME NEW a \in Attempts, Step(a) PROVE EntryInv'
  BY <1>1, StepKeepsEntries
<1>2. ASSUME NEW a \in Attempts, Timeout(a) PROVE EntryInv'
  BY <1>2, StopKeepsEntries, AttemptsAssumption DEF Timeout
<1>3. CASE UNCHANGED <<registryVars, engineVars, pc>>
  BY <1>3
  DEF registryVars, engineVars, EntryInv, RegistryTypes, UnregisteredClean, LiveEntries, LiveEntry
<1>4. ASSUME NEW e \in Executions, StopRead(e) \/ StopApply(e) \/ StopSave(e) PROVE EntryInv'
  BY <1>3, <1>4, StopKeepsEntries DEF StopRead, StopApply, StopSave
<1>5. CASE Shutdown
  <2>1. /\ UNCHANGED <<pc, status, settled, run>>
        /\ entry' \in [Executions -> Attempts \cup {None}]
        /\ \A e \in Executions : entry'[e] # None => entry'[e] = entry[e]
    BY <1>5 DEF Shutdown, engineVars, EntryInv, RegistryTypes
  <2> QED  BY <2>1, DropKeepsEntries DEF EntryInv, RegistryTypes
<1>6. CASE Restart
  <2>1. /\ pc' \in [Attempts -> Stages] /\ UNCHANGED <<status, settled>>
        /\ run' = [a \in Attempts |-> "none"] /\ entry' = [e \in Executions |-> None]
        /\ \A a \in Attempts : pc'[a] \in Unregistered => pc'[a] = pc[a]
    BY <1>6 DEF Restart, EntryInv, RegistryTypes, Stages, Unregistered
  <2>2. RegistryTypes'
    BY <2>1 DEF EntryInv, RegistryTypes
  <2>3. UnregisteredClean'
    BY <2>1 DEF EntryInv, UnregisteredClean
  <2> QED  BY <2>1, <2>2, <2>3 DEF EntryInv, LiveEntries, LiveEntry
<1>7. CASE ResolveEvalQueue \/ UNCHANGED vars
  BY <1>3, <1>7 DEF ResolveEvalQueue, vars, registryVars, engineVars
<1> QED  BY <1>1, <1>2, <1>4, <1>5, <1>6, <1>7 DEF Next

\* The registry starts empty.
LEMMA EntryInitEstablishes == Init => EntryInv
BY AttemptsAssumption
   DEF Init, EntryInv, RegistryTypes, Stages, UnregisteredClean, LiveEntries, LiveEntry

\* The registry keeps no entry of an attempt that is over, unless it waits,
\* however stops, timeouts, errors, other attempts and restarts come together.
THEOREM NoEntryOutlivesItsRun == Spec => []NoZombieEntry
<1>1. Init => EntryInv
  BY EntryInitEstablishes
<1>2. EntryInv /\ [Next]_vars => EntryInv'
  BY NextKeepsEntries
<1>3. EntryInv => NoZombieEntry
  BY DEF EntryInv, LiveEntries, LiveEntry, NoZombieEntry, Registered
<1> QED  BY <1>1, <1>2, <1>3, PTL DEF Spec

-----------------------------------------------------------------------------
(* The slots of the queue.                                                 *)

\* The stages before throttle was called, and those before the row is claimed.
Unthrottled == {"idle", "created"}
Unclaimed == Unthrottled \cup {"reserving", "reserved"}

\* Those who hold a slot or wait for one.
Slots == holders \cup Q!Waiting

SlotTypes ==
    /\ queue \in Seq(Attempts) /\ holders \subseteq Attempts
    /\ pc \in [Attempts -> Stages]
    /\ entry \in [Executions -> Attempts \cup {None}]
    /\ settled \subseteq Attempts

\* Nobody has a slot before the call of throttle.
FreshAttempts == \A a \in Attempts : pc[a] \in Unthrottled => a \notin Slots

\* The slots of the attempts in limited modes: no stage of a run is reached
\* without one.
RunsHold ==
    enabled => \A a \in Attempts : HasQueue(a) =>
        /\ pc[a] # "reserved"
        /\ pc[a] \in Owning /\ a \notin settled => a \in holders

\* A registered attempt has claimed its row, and holds its slot until its promise
\* is settled, even when it is over.
EntriesHold ==
    \A e \in Executions : entry[e] \in Attempts =>
        /\ pc[entry[e]] \notin Unclaimed \cup {"stored"}
        /\ enabled /\ HasQueue(entry[e]) /\ entry[e] \notin settled => entry[e] \in holders

SlotInv == SlotTypes /\ FreshAttempts /\ RunsHold /\ EntriesHold

-----------------------------------------------------------------------------
(* The operations of the queue.                                            *)

\* What resolveNext leaves: nobody comes in, and those who hold a slot keep it.
LEMMA ResolveNextKeeps ==
    ASSUME NEW q \in Seq(Attempts), NEW h \in SUBSET Attempts, Q!ResolveNext(q, h)
    PROVE  /\ queue' \in Seq(Attempts) /\ holders' \subseteq Attempts
           /\ h \subseteq holders'
           /\ \A a \in Slots' : a \in h \/ \E i \in 1..Len(q) : q[i] = a
<1>1. CASE q = <<>>
    <2>1. queue' = <<>> /\ holders' = h BY <1>1 DEF Q!ResolveNext
    <2>2. Q!Waiting' = {} BY <2>1 DEF Q!Waiting
    <2> QED BY <2>1, <2>2 DEF Slots
<1>2. CASE q # <<>>
    <2>1. /\ queue' = Tail(q) /\ holders' = h \cup {Head(q)}
          /\ Len(q) \in Nat /\ Len(q) > 0 /\ Head(q) = q[1] /\ q[1] \in Attempts
          /\ Tail(q) \in Seq(Attempts) /\ Len(Tail(q)) = Len(q) - 1
          /\ \A i \in 1..(Len(q) - 1) : Tail(q)[i] = q[i + 1]
        BY <1>2 DEF Q!ResolveNext
    <2>2. \A a \in Q!Waiting' : \E i \in 1..Len(q) : q[i] = a
        <3> SUFFICES ASSUME NEW j \in 1..Len(queue') PROVE \E i \in 1..Len(q) : q[i] = queue'[j]
            BY DEF Q!Waiting
        <3>1. j + 1 \in 1..Len(q) /\ queue'[j] = q[j + 1] BY <2>1
        <3> QED BY <3>1
    <2>3. 1 \in 1..Len(q) BY <2>1
    <2> QED BY <2>1, <2>2, <2>3 DEF Slots
<1> QED BY <1>1, <1>2

LEMMA DequeueKeeps ==
    ASSUME SlotTypes, NEW b, Q!Dequeue(b)
    PROVE  /\ queue' \in Seq(Attempts) /\ holders' \subseteq Attempts
           /\ holders \ {b} \subseteq holders'
           /\ Slots' \subseteq Slots
<1> DEFINE h == holders \ {b}
<1>1. queue \in Seq(Attempts) /\ h \in SUBSET Attempts /\ Q!ResolveNext(queue, h)
    BY DEF SlotTypes, Q!Dequeue
<1>2. \A a \in h : a \in holders
    OBVIOUS
<1> HIDE DEF h
<1>3. /\ queue' \in Seq(Attempts) /\ holders' \subseteq Attempts /\ h \subseteq holders'
      /\ \A a \in Slots' : a \in h \/ \E i \in 1..Len(queue) : queue[i] = a
    BY <1>1, ResolveNextKeeps
<1>4. \A a \in Slots' : a \in holders \/ a \in Q!Waiting
    BY <1>2, <1>3 DEF Q!Waiting
<1> QED BY <1>3, <1>4 DEF Slots, h

\* Taking one element out of a sequence: the others stay in their order.
LEMMA RemoveAtProperties ==
    ASSUME NEW S, NEW q \in Seq(S), NEW i \in 1..Len(q)
    PROVE  /\ RemoveAt(q, i) \in Seq(S)
           /\ Len(RemoveAt(q, i)) = Len(q) - 1
           /\ \A j \in 1..(Len(q) - 1) :
                  RemoveAt(q, i)[j] = IF j < i THEN q[j] ELSE q[j + 1]
<1> DEFINE a == SubSeq(q, 1, i - 1)
           b == SubSeq(q, i + 1, Len(q))
<1>1. /\ a \in Seq(S) /\ Len(a) = i - 1 /\ \A j \in 1..(i - 1) : a[j] = q[j]
      /\ b \in Seq(S) /\ Len(b) = Len(q) - i /\ \A j \in 1..(Len(q) - i) : b[j] = q[i + j]
  OBVIOUS
<1>2. RemoveAt(q, i) = a \o b
  BY DEF RemoveAt
<1> HIDE DEF a, b
<1>3. Len(q) \in Nat
  OBVIOUS
<1>4. a \o b \in Seq(S) /\ Len(a \o b) = Len(q) - 1
  <2>1. a \in Seq(S) /\ b \in Seq(S)
    BY <1>1
  <2>2. a \o b \in Seq(S) /\ Len(a \o b) = Len(a) + Len(b)
    BY <2>1
  <2> QED BY <1>1, <1>3, <2>2
<1>5. ASSUME NEW j \in 1..(Len(q) - 1) PROVE (a \o b)[j] = IF j < i THEN q[j] ELSE q[j + 1]
  <2>1. CASE j < i
    BY <1>1, <1>3, <2>1
  <2>2. CASE ~(j < i)
    <3>1. j - (i - 1) \in 1..(Len(q) - i) /\ i + (j - (i - 1)) = j + 1
      BY <1>3, <2>2
    <3>2. (a \o b)[j] = b[j - (i - 1)]
      BY <1>1, <1>3, <2>2
    <3> QED BY <1>1, <2>2, <3>1, <3>2
  <2> QED BY <2>1, <2>2
<1> QED BY <1>2, <1>4, <1>5

LEMMA RemoveKeeps ==
    ASSUME SlotTypes, NEW e \in Executions, Q!RemoveQueued(e)
    PROVE  /\ queue' \in Seq(Attempts) /\ holders' \subseteq Attempts
           /\ holders \subseteq holders'
           /\ Slots' \subseteq Slots
<1>1. PICK i \in 1..Len(queue) : Q!ResolveNext(RemoveAt(queue, i), holders)
    BY DEF Q!RemoveQueued, Q!RemoveEntry, RemoveAt, Q!RemoveAt
<1> DEFINE q == RemoveAt(queue, i)
<1>2. queue \in Seq(Attempts) /\ Len(queue) \in Nat /\ holders \in SUBSET Attempts
    BY DEF SlotTypes
<1>3. /\ q \in Seq(Attempts) /\ Len(q) = Len(queue) - 1
      /\ \A j \in 1..(Len(queue) - 1) : q[j] = IF j < i THEN queue[j] ELSE queue[j + 1]
    BY <1>2, RemoveAtProperties
<1>4. Q!ResolveNext(q, holders)
    BY <1>1
<1> HIDE DEF q
<1>5. \A j \in 1..Len(q) : q[j] \in Q!Waiting
    BY <1>2, <1>3 DEF Q!Waiting
<1>6. /\ queue' \in Seq(Attempts) /\ holders' \subseteq Attempts /\ holders \subseteq holders'
      /\ \A a \in Slots' : a \in holders \/ \E j \in 1..Len(q) : q[j] = a
    BY <1>2, <1>3, <1>4, ResolveNextKeeps
<1> QED BY <1>5, <1>6 DEF Slots

LEMMA EnqueueKeeps ==
    ASSUME SlotTypes, NEW a \in Attempts, Q!Enqueue(a)
    PROVE  /\ queue' \in Seq(Attempts) /\ holders' \subseteq Attempts
           /\ holders \subseteq holders'
           /\ Slots' \subseteq Slots \cup {a}
<1>1. CASE queue' = Append(queue, a) /\ UNCHANGED holders
    <2>1. /\ queue' \in Seq(Attempts) /\ Len(queue) \in Nat /\ Len(queue') = Len(queue) + 1
          /\ \A i \in 1..Len(queue) : queue'[i] = queue[i]
          /\ queue'[Len(queue) + 1] = a
        BY <1>1 DEF SlotTypes
    <2>2. \A b \in Q!Waiting' : b \in Q!Waiting \/ b = a
        BY <2>1 DEF Q!Waiting
    <2> QED BY <1>1, <2>1, <2>2 DEF SlotTypes, Slots
<1>2. CASE holders' = holders \cup {a} /\ UNCHANGED queue
    BY <1>2 DEF SlotTypes, Slots, Q!Waiting
<1> QED BY <1>1, <1>2 DEF Q!Enqueue

-----------------------------------------------------------------------------
(* The invariant.                                                          *)

\* What every step but a restart respects: slots are taken by throttle and given
\* up by a settled promise or a rejected claim.
LEMMA Respects ==
    ASSUME SlotInv, SlotTypes', enabled' => enabled,
           \A a \in Attempts : pc'[a] \in Unthrottled => pc[a] \in Unthrottled,
           \A a \in Attempts : a \in Slots' /\ pc'[a] \in Unthrottled => a \in Slots,
           \A a \in Attempts : pc'[a] = "reserved" /\ HasQueue(a) /\ enabled => pc[a] = "reserved",
           \A a \in Attempts : pc'[a] \in Owning =>
               pc[a] \in Owning \/ (enabled /\ HasQueue(a) => a \in holders'),
           \A a \in Attempts : pc'[a] \in Unclaimed \cup {"stored"} => pc[a] \in Unclaimed \cup {"stored"},
           settled \subseteq settled',
           \A a \in holders :
               a \in holders' \/ a \in settled' \/ (pc[a] \in Unclaimed /\ pc'[a] \notin Owning),
           \A e \in Executions : entry'[e] \in Attempts =>
               entry'[e] = entry[e]
                   \/ (pc[entry'[e]] \in Owning /\ pc'[entry'[e]] \notin Unclaimed \cup {"stored"})
    PROVE  SlotInv'
<1>1. FreshAttempts' BY DEF SlotInv, FreshAttempts
<1>2. RunsHold'
    <2> SUFFICES ASSUME enabled', NEW a \in Attempts, HasQueue(a)
                 PROVE  /\ pc'[a] # "reserved"
                        /\ pc'[a] \in Owning /\ a \notin settled' => a \in holders'
        BY DEF RunsHold, HasQueue
    <2>1. pc'[a] # "reserved" BY DEF SlotInv, RunsHold
    <2>2. ASSUME pc'[a] \in Owning, a \notin settled' PROVE a \in holders'
        BY <2>2 DEF SlotInv, RunsHold
    <2> QED BY <2>1, <2>2
<1>3. EntriesHold'
    <2> SUFFICES ASSUME NEW e \in Executions, NEW b \in Attempts, entry'[e] = b
                 PROVE  /\ pc'[b] \notin Unclaimed \cup {"stored"}
                        /\ enabled' /\ HasQueue(b) /\ b \notin settled' => b \in holders'
        BY DEF EntriesHold, HasQueue
    <2>1. CASE b = entry[e]
        BY <2>1 DEF SlotInv, EntriesHold
    <2>2. CASE pc[b] \in Owning /\ pc'[b] \notin Unclaimed \cup {"stored"}
        BY <2>2 DEF SlotInv, RunsHold, Owning, Unclaimed, Unthrottled
    <2> QED BY <2>1, <2>2
<1> QED BY <1>1, <1>2, <1>3 DEF SlotInv

\* The step is one of a caller of the queue, or does not touch it.
Disciplined == [Q!Next]_queueVars

\* An attempt goes on with the queue as it is.
LEMMA MoveRespects ==
    ASSUME SlotInv, NEW a \in Attempts, NEW s \in Stages,
           pc' = [pc EXCEPT ![a] = s], UNCHANGED <<queueVars, entry, settled, enabled>>,
           s # "idle", s # "reserved", s = "created" => pc[a] \in Unthrottled,
           s \in Owning => pc[a] \in Owning \/ (enabled /\ HasQueue(a) => a \in holders),
           s \in Unclaimed \cup {"stored"} => pc[a] \in Unclaimed
    PROVE  SlotInv' /\ Disciplined
<1>1. \A b \in Attempts : pc'[b] = IF b = a THEN s ELSE pc[b]
    BY DEF SlotInv, SlotTypes
<1>2. SlotTypes' /\ Slots' = Slots /\ holders' = holders
    BY DEF SlotInv, SlotTypes, queueVars, Slots, Q!Waiting
<1>3. SlotInv'
    BY <1>1, <1>2, Respects DEF Unthrottled, Unclaimed, Owning
<1> QED BY <1>3 DEF Disciplined

-----------------------------------------------------------------------------
(* The steps.                                                              *)

\* throttle: the attempt had no slot, so that it may enqueue.
LEMMA ReserveRespects ==
    ASSUME SlotInv, NEW a \in Attempts, Reserve(a)
    PROVE  SlotInv' /\ Disciplined
<1>1. /\ pc[a] = "created" /\ a \notin Slots /\ UNCHANGED <<entry, settled, enabled>>
    BY DEF Reserve, SlotInv, FreshAttempts, Unthrottled, registryVars, switchVars
<1>2. CASE enabled /\ HasQueue(a)
    <2>1. Q!Enqueue(a) /\ pc' = [pc EXCEPT ![a] = "reserving"]
        BY <1>2 DEF Reserve, Goto
    <2>2. \A b \in Attempts : pc'[b] = IF b = a THEN "reserving" ELSE pc[b]
        BY <2>1 DEF SlotInv, SlotTypes
    <2>3. /\ queue' \in Seq(Attempts) /\ holders' \subseteq Attempts
          /\ holders \subseteq holders' /\ Slots' \subseteq Slots \cup {a}
        BY <2>1, EnqueueKeeps DEF SlotInv
    <2>4. SlotTypes'
        BY <1>1, <2>1, <2>3 DEF SlotInv, SlotTypes, Stages
    <2>5. SlotInv'
        BY <1>1, <2>2, <2>3, <2>4, Respects DEF Unthrottled, Unclaimed, Owning
    <2>6. Q!Throttle(a)
        BY <1>1, <2>1 DEF Q!Throttle, Slots
    <2> QED BY <2>5, <2>6 DEF Disciplined, Q!Next
<1>3. CASE ~(enabled /\ HasQueue(a))
    <2>1. UNCHANGED queueVars /\ pc' = [pc EXCEPT ![a] = "reserved"]
        BY <1>3 DEF Reserve, Goto
    <2>2. \A b \in Attempts : pc'[b] = IF b = a THEN "reserved" ELSE pc[b]
        BY <2>1 DEF SlotInv, SlotTypes
    <2>3. SlotTypes' /\ Slots' = Slots /\ holders' = holders
        BY <1>1, <2>1 DEF SlotInv, SlotTypes, Stages, queueVars, Slots, Q!Waiting
    <2>4. SlotInv'
        BY <1>1, <1>3, <2>2, <2>3, Respects DEF Unthrottled, Unclaimed, Owning
    <2> QED BY <2>1, <2>4 DEF Disciplined
<1> QED BY <1>2, <1>3

\* An admitted attempt in a limited mode holds a slot.
LEMMA AdmittedHolds ==
    ASSUME SlotInv, NEW a \in Attempts, Admitted(a), enabled, HasQueue(a)
    PROVE  a \in holders
BY DEF Admitted, SlotInv, RunsHold

\* A claim that fails gives back the slot it was admitted with.
LEMMA ClaimRespects ==
    ASSUME SlotInv, NEW a \in Attempts, Claim(a)
    PROVE  SlotInv' /\ Disciplined
<1>1. /\ pc[a] \in {"reserving", "reserved"} /\ UNCHANGED <<entry, settled, enabled>>
      /\ enabled /\ HasQueue(a) => a \in holders
    BY AdmittedHolds DEF Claim, Admitted, registryVars, switchVars
<1>2. CASE db[ExecutionOf[a]] = "waiting"
    <2>1. UNCHANGED queueVars /\ pc' = [pc EXCEPT ![a] = "stored"]
        BY <1>2 DEF Claim, Goto
    <2>2. holders' = holders
        BY <2>1 DEF queueVars
    <2> QED BY <1>1, <2>1, <2>2, MoveRespects DEF Stages, Unclaimed
<1>3. CASE db[ExecutionOf[a]] # "waiting"
    <2>1. Release(a) /\ pc' = [pc EXCEPT ![a] = "rejected"]
        BY <1>3 DEF Claim, Goto
    <2>2. CASE ~(enabled /\ HasQueue(a))
        <3>1. UNCHANGED queueVars
            BY <2>1, <2>2 DEF Release
        <3> QED BY <1>1, <2>1, <3>1, MoveRespects DEF Stages, Owning, Unclaimed, Unthrottled
    <2>3. CASE enabled /\ HasQueue(a)
        <3>1. a \in holders /\ Q!Dequeue(a)
            BY <1>1, <2>1, <2>3 DEF Release
        <3>2. /\ queue' \in Seq(Attempts) /\ holders' \subseteq Attempts
              /\ holders \ {a} \subseteq holders' /\ Slots' \subseteq Slots
            BY <3>1, DequeueKeeps DEF SlotInv
        <3>3. \A b \in Attempts : pc'[b] = IF b = a THEN "rejected" ELSE pc[b]
            BY <2>1 DEF SlotInv, SlotTypes
        <3>4. SlotTypes'
            BY <1>1, <2>1, <3>2 DEF SlotInv, SlotTypes, Stages
        <3>5. \A b \in holders : b \in holders' \/ (pc[b] \in Unclaimed /\ pc'[b] \notin Owning)
            BY <1>1, <3>2, <3>3 DEF SlotInv, SlotTypes, Unclaimed, Owning
        <3>6. SlotInv'
            BY <1>1, <3>2, <3>3, <3>4, <3>5, Respects DEF Unthrottled, Unclaimed, Owning
        <3> QED BY <3>1, <3>6 DEF Disciplined, Q!Next, Q!Release
    <2> QED BY <2>2, <2>3
<1> QED BY <1>2, <1>3

\* The entry of an execution is made when its row has been claimed.
LEMMA RegisterRespects ==
    ASSUME SlotInv, NEW a \in Attempts, Register(a)
    PROVE  SlotInv' /\ Disciplined
<1>1. /\ pc[a] = "stored" /\ UNCHANGED queueVars /\ UNCHANGED <<settled, enabled>>
      /\ entry' = [entry EXCEPT ![ExecutionOf[a]] = a]
      /\ pc' = [pc EXCEPT ![a] = "registered"]
    BY DEF Register, Goto, switchVars
<1>2. \A b \in Attempts : pc'[b] = IF b = a THEN "registered" ELSE pc[b]
    BY <1>1 DEF SlotInv, SlotTypes
<1>3. \A e \in Executions : entry'[e] = a \/ entry'[e] = entry[e]
    BY <1>1 DEF SlotInv, SlotTypes
<1>4. SlotTypes' /\ Slots' = Slots /\ holders' = holders
    BY <1>1 DEF SlotInv, SlotTypes, Stages, queueVars, Slots, Q!Waiting
<1>5. SlotInv'
    BY <1>1, <1>2, <1>3, <1>4, Respects DEF Unthrottled, Unclaimed, Owning
<1> QED BY <1>1, <1>5 DEF Disciplined

\* Settling the promise of a registered attempt gives back a slot that it holds.
LEMMA SettleKeeps ==
    ASSUME SlotInv, NEW e \in Executions, Registered(e), Settle(entry[e])
    PROVE  /\ queue' \in Seq(Attempts) /\ holders' \subseteq Attempts /\ settled' \subseteq Attempts
           /\ entry' \in [Executions -> Attempts \cup {None}]
           /\ Slots' \subseteq Slots
           /\ settled \subseteq settled'
           /\ \A a \in holders : a \in holders' \/ a \in settled'
           /\ \A d \in Executions : entry'[d] \in Attempts => entry'[d] = entry[d]
           /\ Disciplined
<1> DEFINE b == entry[e]
<1>1. b \in Attempts /\ SlotTypes
    BY DEF Registered, SlotInv, SlotTypes
<1>2. enabled /\ HasQueue(b) /\ b \notin settled => b \in holders
    BY <1>1 DEF SlotInv, EntriesHold
<1>3. Settle(b)
    OBVIOUS
<1> HIDE DEF b
<1>4. CASE b \in settled
    <2>1. UNCHANGED queueVars /\ UNCHANGED <<entry, settled>>
        BY <1>3, <1>4 DEF Settle
    <2> QED BY <1>1, <2>1 DEF SlotTypes, queueVars, Slots, Q!Waiting, Disciplined
<1>5. CASE b \notin settled
    <2>1. /\ settled' = settled \cup {b} /\ Release(b)
          /\ entry' = entry \/ entry' = [entry EXCEPT ![ExecutionOf[b]] = None]
        BY <1>3, <1>5 DEF Settle
    <2>2. /\ settled' \subseteq Attempts /\ settled \subseteq settled' /\ b \in settled'
          /\ entry' \in [Executions -> Attempts \cup {None}]
          /\ \A d \in Executions : entry'[d] \in Attempts => entry'[d] = entry[d]
        BY <1>1, <2>1, AttemptsAssumption DEF SlotTypes
    <2>3. CASE enabled /\ HasQueue(b)
        <3>1. b \in holders /\ Q!Dequeue(b)
            BY <1>2, <1>5, <2>1, <2>3 DEF Release
        <3>2. /\ queue' \in Seq(Attempts) /\ holders' \subseteq Attempts
              /\ holders \ {b} \subseteq holders' /\ Slots' \subseteq Slots
            BY <1>1, <3>1, DequeueKeeps
        <3>3. Disciplined
            BY <1>1, <3>1 DEF Disciplined, Q!Next, Q!Release
        <3> QED BY <2>2, <3>2, <3>3
    <2>4. CASE ~(enabled /\ HasQueue(b))
        <3>1. UNCHANGED queueVars
            BY <2>1, <2>4 DEF Release
        <3> QED BY <1>1, <2>2, <3>1 DEF SlotTypes, queueVars, Slots, Q!Waiting, Disciplined
    <2> QED BY <2>3, <2>4
<1> QED BY <1>4, <1>5

\* A step that settles the promise of an entry, or drops entries, while no attempt
\* goes further than from a run to its end.
LEMMA RegistryRespects ==
    ASSUME SlotInv, NEW e \in Executions, enabled' => enabled,
           \/ Registered(e) /\ Settle(entry[e])
           \/ /\ UNCHANGED queueVars /\ UNCHANGED settled
              /\ entry' \in [Executions -> Attempts \cup {None}]
              /\ \A d \in Executions : entry'[d] \in Attempts => entry'[d] = entry[d],
           pc' \in [Attempts -> Stages],
           \A a \in Attempts :
               \/ pc'[a] = pc[a]
               \/ pc[a] = "executing" /\ pc'[a] = "saving"
               \/ pc[a] = "saved" /\ pc'[a] = "done"
    PROVE  SlotInv' /\ Disciplined
<1>1. /\ queue' \in Seq(Attempts) /\ holders' \subseteq Attempts /\ settled' \subseteq Attempts
      /\ entry' \in [Executions -> Attempts \cup {None}]
      /\ Slots' \subseteq Slots
      /\ settled \subseteq settled'
      /\ \A a \in holders : a \in holders' \/ a \in settled'
      /\ \A d \in Executions : entry'[d] \in Attempts => entry'[d] = entry[d]
      /\ Disciplined
    <2>1. CASE Registered(e) /\ Settle(entry[e])
        BY <2>1, SettleKeeps
    <2>2. CASE /\ UNCHANGED queueVars /\ UNCHANGED settled
               /\ entry' \in [Executions -> Attempts \cup {None}]
               /\ \A d \in Executions : entry'[d] \in Attempts => entry'[d] = entry[d]
        BY <2>2 DEF SlotInv, SlotTypes, queueVars, Slots, Q!Waiting, Disciplined
    <2> QED BY <2>1, <2>2
<1>2. SlotTypes'
    BY <1>1 DEF SlotTypes
<1>3. SlotInv'
    BY <1>1, <1>2, Respects DEF Unthrottled, Unclaimed, Owning
<1> QED BY <1>1, <1>3

\* A stop or a timeout settles the promise of the entry or drops it.
LEMMA StopExecutionRespects ==
    ASSUME SlotInv, NEW e \in Executions, StopExecution(e), UNCHANGED <<pc, enabled>>
    PROVE  SlotInv' /\ Disciplined
<1>1. pc' \in [Attempts -> Stages] /\ \A a \in Attempts : pc'[a] = pc[a]
    BY DEF SlotInv, SlotTypes
<1>2. \/ Registered(e) /\ Settle(entry[e])
      \/ /\ UNCHANGED queueVars /\ UNCHANGED settled
         /\ entry' = [entry EXCEPT ![e] = None]
    BY DEF StopExecution
<1>3. \/ Registered(e) /\ Settle(entry[e])
      \/ /\ UNCHANGED queueVars /\ UNCHANGED settled
         /\ entry' \in [Executions -> Attempts \cup {None}]
         /\ \A d \in Executions : entry'[d] \in Attempts => entry'[d] = entry[d]
    BY <1>2, AttemptsAssumption DEF SlotInv, SlotTypes
<1> QED BY <1>1, <1>3, RegistryRespects

\* A stop that finds its execution in the queue takes it out.
LEMMA StopApplyRespects ==
    ASSUME SlotInv, NEW e \in Executions, StopApply(e)
    PROVE  SlotInv' /\ Disciplined
<1>1. UNCHANGED <<pc, enabled>>
    BY DEF StopApply, switchVars
<1>2. CASE Q!RemoveQueued(e) /\ UNCHANGED registryVars
    <2>1. /\ queue' \in Seq(Attempts) /\ holders' \subseteq Attempts
          /\ holders \subseteq holders' /\ Slots' \subseteq Slots
        BY <1>2, RemoveKeeps DEF SlotInv
    <2>2. SlotTypes'
        BY <1>1, <1>2, <2>1 DEF SlotInv, SlotTypes, registryVars
    <2>3. SlotInv'
        BY <1>1, <1>2, <2>1, <2>2, Respects DEF registryVars
    <2> QED BY <1>2, <2>3 DEF Disciplined, Q!Next
<1>3. CASE StopExecution(e)
    BY <1>1, <1>3, StopExecutionRespects
<1>4. CASE UNCHANGED queueVars /\ UNCHANGED registryVars
    <2>1. SlotInv'
        BY <1>1, <1>4
        DEF SlotInv, SlotTypes, FreshAttempts, RunsHold, EntriesHold, HasQueue,
            queueVars, registryVars, Slots, Q!Waiting
    <2> QED BY <1>4, <2>1 DEF Disciplined
<1> QED BY <1>2, <1>3, <1>4 DEF StopApply

\* The steps of an attempt.
LEMMA StepRespects ==
    ASSUME SlotInv, NEW a \in Attempts, Step(a)
    PROVE  SlotInv' /\ Disciplined
<1>0. /\ ExecutionOf[a] \in Executions /\ pc \in [Attempts -> Stages]
      /\ pc[a] \in Owning /\ enabled /\ HasQueue(a) => a \in holders \/ a \in settled
    BY AttemptsAssumption DEF SlotInv, SlotTypes, RunsHold
<1>1. CASE Create(a) \/ Resume(a)
    <2>1. /\ pc[a] = "idle" /\ pc' = [pc EXCEPT ![a] = "created"]
          /\ UNCHANGED <<queueVars, entry, settled, enabled>>
        BY <1>1 DEF Create, Resume, Goto, registryVars, switchVars
    <2> QED BY <2>1, MoveRespects DEF Stages, Owning, Unclaimed, Unthrottled
<1>2. CASE Reserve(a)
    BY <1>2, ReserveRespects
<1>3. CASE StoreNew(a)
    <2>1. /\ pc[a] \in {"reserving", "reserved"} /\ pc' = [pc EXCEPT ![a] = "stored"]
          /\ UNCHANGED <<queueVars, entry, settled, enabled>>
        BY <1>3 DEF StoreNew, Admitted, Goto, registryVars, switchVars
    <2>2. (enabled /\ HasQueue(a) => a \in holders) /\ holders' = holders
        BY <1>3, <2>1, AdmittedHolds DEF StoreNew, queueVars
    <2> QED BY <2>1, <2>2, MoveRespects DEF Stages, Owning, Unclaimed, Unthrottled
<1>4. CASE Claim(a)
    BY <1>4, ClaimRespects
<1>5. CASE Register(a)
    BY <1>5, RegisterRespects
<1>6. CASE \/ FailExecution(a) \/ RejectRun(a) \/ SetRunning(a) \/ Attach(a)
           \/ PutToWait(a) \/ Finish(a) \/ Save(a)
    <2>1. /\ UNCHANGED <<queueVars, entry, settled, enabled>>
          /\ \/ /\ pc[a] \in Owning
                /\ \/ Goto(a, "saving") \/ Goto(a, "starting") \/ Goto(a, "executing")
                   \/ Goto(a, "waitset")
             \/ Goto(a, "rejected") \/ Goto(a, "saved")
        BY <1>6
        DEF FailExecution, RejectRun, SetRunning, Attach, PutToWait, Finish, Save,
            registryVars, switchVars, Owning
    <2>2. ASSUME NEW s \in {"saving", "starting", "executing", "waitset"},
                 pc[a] \in Owning, Goto(a, s)
          PROVE  SlotInv' /\ Disciplined
        BY <2>1, <2>2, MoveRespects DEF Goto, Stages, Unclaimed, Unthrottled
    <2>3. ASSUME NEW s \in {"rejected", "saved"}, Goto(a, s)
          PROVE  SlotInv' /\ Disciplined
        BY <2>1, <2>3, MoveRespects DEF Goto, Stages, Unclaimed, Unthrottled, Owning
    <2> QED BY <2>1, <2>2, <2>3
<1>7. CASE ProcessError(a) \/ Finalize(a)
    <2>1. /\ \/ pc[a] = "executing" /\ pc' = [pc EXCEPT ![a] = "saving"]
             \/ pc[a] = "saved" /\ pc' = [pc EXCEPT ![a] = "done"]
          /\ enabled' = enabled
          /\ \/ Registered(ExecutionOf[a]) /\ Settle(entry[ExecutionOf[a]])
             \/ UNCHANGED queueVars /\ UNCHANGED <<entry, settled>>
        BY <1>7 DEF ProcessError, Finalize, Goto, switchVars
    <2>2. pc' \in [Attempts -> Stages]
        BY <1>0, <2>1 DEF Stages
    <2>3. \A b \in Attempts :
              \/ pc'[b] = pc[b]
              \/ pc[b] = "executing" /\ pc'[b] = "saving"
              \/ pc[b] = "saved" /\ pc'[b] = "done"
        BY <1>0, <2>1
    <2>4. \/ Registered(ExecutionOf[a]) /\ Settle(entry[ExecutionOf[a]])
          \/ /\ UNCHANGED queueVars /\ UNCHANGED settled
             /\ entry' \in [Executions -> Attempts \cup {None}]
             /\ \A d \in Executions : entry'[d] \in Attempts => entry'[d] = entry[d]
        BY <2>1 DEF SlotInv, SlotTypes
    <2> QED BY <1>0, <2>1, <2>2, <2>3, <2>4, RegistryRespects
<1>8. CASE SaveCancelled(a)
    <2>1. /\ UNCHANGED queueVars /\ UNCHANGED <<entry, settled, enabled, pc>>
        BY <1>8 DEF SaveCancelled, registryVars, switchVars
    <2>2. SlotInv'
        BY <2>1
        DEF SlotInv, SlotTypes, FreshAttempts, RunsHold, EntriesHold, HasQueue,
            queueVars, Slots, Q!Waiting
    <2> QED BY <2>1, <2>2 DEF Disciplined
<1> QED BY <1>1, <1>2, <1>3, <1>4, <1>5, <1>6, <1>7, <1>8 DEF Step

\* A restart leaves nobody who runs, waits or is registered.
LEMMA RestartRespects ==
    ASSUME SlotTypes, Restart
    PROVE  SlotInv'
<1>1. /\ queue' = <<>> /\ holders' = {} /\ settled' = settled
      /\ \A e \in Executions : entry'[e] = None
      /\ entry' \in [Executions -> Attempts \cup {None}]
      /\ pc' \in [Attempts -> Stages]
      /\ \A a \in Attempts : pc'[a] \in {"idle", "done", "rejected", "lost"}
    BY DEF Restart, SlotTypes, Stages
<1>2. Slots' = {}
    BY <1>1 DEF Slots, Q!Waiting
<1> QED
    BY <1>1, <1>2, AttemptsAssumption
    DEF SlotInv, SlotTypes, FreshAttempts, RunsHold, EntriesHold, Owning

\* Only a shutdown switches the control off.
ControlOn == phase = "up" => enabled

\* Every step respects the invariant and, but for a restart, the queue; the exception
\* is the one that turns the control on again.
LEMMA NextRespects ==
    ASSUME SlotInv, ControlOn, phase \in {"up", "draining"}, [Next]_vars
    PROVE  (SlotInv' \/ TurnedOnAgain') /\ (Disciplined \/ Restart)
<1>1. ASSUME NEW a \in Attempts, Step(a) PROVE SlotInv' /\ Disciplined
    BY <1>1, StepRespects
<1>2. ASSUME NEW a \in Attempts, Timeout(a) PROVE SlotInv' /\ Disciplined
    BY <1>2, StopExecutionRespects, AttemptsAssumption DEF Timeout, switchVars
<1>3. ASSUME NEW e \in Executions, StopApply(e) PROVE SlotInv' /\ Disciplined
    BY <1>3, StopApplyRespects
<1>4. CASE \/ \E e \in Executions : StopRead(e) \/ StopSave(e)
           \/ UNCHANGED vars
    <2>1. UNCHANGED queueVars /\ UNCHANGED <<entry, settled, enabled, pc>>
        BY <1>4 DEF StopRead, StopSave, vars, queueVars, registryVars, switchVars
    <2>2. SlotInv'
        BY <2>1
        DEF SlotInv, SlotTypes, FreshAttempts, RunsHold, EntriesHold, HasQueue,
            queueVars, Slots, Q!Waiting
    <2> QED BY <2>1, <2>2 DEF Disciplined
<1>5. CASE Shutdown
    <2>1. /\ UNCHANGED queueVars /\ UNCHANGED <<settled, pc>> /\ enabled' = FALSE
          /\ entry' \in [Executions -> Attempts \cup {None}]
          /\ \A d \in Executions : entry'[d] \in Attempts => entry'[d] = entry[d]
        BY <1>5, AttemptsAssumption DEF Shutdown, SlotInv, SlotTypes
    <2>2. SlotTypes'
        BY <2>1 DEF SlotInv, SlotTypes, queueVars
    <2>3. SlotInv'
        BY <2>1, <2>2
        DEF SlotInv, FreshAttempts, RunsHold, EntriesHold, queueVars, Slots, Q!Waiting
    <2> QED BY <2>1, <2>3 DEF Disciplined
<1>6. CASE Restart
    BY <1>6, RestartRespects DEF SlotInv
<1>7. CASE ResolveEvalQueue
    <2>1. UNCHANGED queueVars /\ UNCHANGED <<phase, entry, settled, pc>> /\ enabled' = TRUE
        BY <1>7 DEF ResolveEvalQueue, registryVars
    <2>2. CASE phase # "draining"
        <3>1. enabled' = enabled
            BY <2>1, <2>2 DEF ControlOn
        <3>2. SlotInv'
            BY <2>1, <3>1
            DEF SlotInv, SlotTypes, FreshAttempts, RunsHold, EntriesHold, HasQueue,
                queueVars, Slots, Q!Waiting
        <3> QED BY <2>1, <3>2 DEF Disciplined
    <2> QED BY <2>1, <2>2 DEF TurnedOnAgain, Disciplined
<1> QED BY <1>1, <1>2, <1>3, <1>4, <1>5, <1>6, <1>7 DEF Next

\* Before the first call of run nobody has a slot.
LEMMA SlotInit == Init => SlotInv
<1> SUFFICES ASSUME Init PROVE SlotInv
    OBVIOUS
<1>1. queue = <<>> /\ holders = {} /\ settled = {} /\ Slots = {}
    BY DEF Init, Q!QueueInit, Slots, Q!Waiting
<1> QED
    BY <1>1, AttemptsAssumption
    DEF Init, SlotInv, SlotTypes, Stages, FreshAttempts, RunsHold, EntriesHold, Owning

-----------------------------------------------------------------------------
(* The types.                                                              *)

\* The variables whose types neither RunInv nor EntryInv says.
OtherTypes ==
    /\ Q!TypeOK
    /\ enabled \in BOOLEAN /\ evalResolved \in BOOLEAN
    /\ settled \subseteq Attempts /\ cancelSaves \subseteq Attempts
    /\ stop \in [Executions -> {"none", "read", "applied", "done"}]
    /\ phase \in {"up", "draining"}
    /\ restarts \in 0..MaxRestarts

LEMMA QueueTypes ==
    ASSUME SlotTypes, capacity \in Int, NEW a \in Attempts, NEW e \in Executions,
           \/ UNCHANGED queueVars
           \/ Q!Enqueue(a) \/ Q!Dequeue(a) \/ Q!RemoveQueued(e)
    PROVE  Q!TypeOK'
<1>1. capacity' \in Int
    BY DEF queueVars, Q!Enqueue, Q!Dequeue, Q!RemoveQueued, Q!RemoveEntry
<1>2. queue' \in Seq(Attempts) /\ holders' \subseteq Attempts
    <2>1. CASE UNCHANGED queueVars BY <2>1 DEF queueVars, SlotTypes
    <2>2. CASE Q!Enqueue(a) BY <2>2, EnqueueKeeps
    <2>3. CASE Q!Dequeue(a) BY <2>3, DequeueKeeps
    <2>4. CASE Q!RemoveQueued(e) BY <2>4, RemoveKeeps
    <2> QED BY <2>1, <2>2, <2>3, <2>4
<1> QED BY <1>1, <1>2 DEF Q!TypeOK

\* What a settled promise does to the queue and to the set of settled promises.
LEMMA SettleTypes ==
    ASSUME EntryInv, OtherTypes, NEW e \in Executions, Registered(e), Settle(entry[e])
    PROVE  Q!TypeOK' /\ settled' \subseteq Attempts
<1>1. entry[e] \in Attempts /\ SlotTypes /\ capacity \in Int
    BY DEF Registered, EntryInv, RegistryTypes, OtherTypes, SlotTypes, Q!TypeOK
<1>2. UNCHANGED queueVars \/ Q!Dequeue(entry[e])
    BY DEF Settle, Release
<1>3. Q!TypeOK'
    BY <1>1, <1>2, QueueTypes
<1>4. settled' \subseteq Attempts
    BY <1>1 DEF Settle, OtherTypes
<1> QED BY <1>3, <1>4

LEMMA StopExecutionTypes ==
    ASSUME EntryInv, OtherTypes, NEW e \in Executions, StopExecution(e)
    PROVE  Q!TypeOK' /\ settled' \subseteq Attempts /\ cancelSaves' \subseteq Attempts
<1>1. entry[e] \in Attempts
    BY DEF StopExecution, Registered, EntryInv, RegistryTypes
<1>2. cancelSaves' \subseteq Attempts
    BY <1>1 DEF StopExecution, OtherTypes
<1>3. CASE Settle(entry[e])
    BY <1>2, <1>3, SettleTypes DEF StopExecution
<1>4. CASE UNCHANGED queueVars /\ UNCHANGED settled
    BY <1>2, <1>4 DEF queueVars, OtherTypes, Q!TypeOK
<1> QED BY <1>3, <1>4 DEF StopExecution

LEMMA NextTypes ==
    ASSUME EntryInv, OtherTypes, [Next]_vars
    PROVE  OtherTypes'
<1>0. /\ SlotTypes /\ capacity \in Int
      /\ \A a \in Attempts : ExecutionOf[a] \in Executions
    BY AttemptsAssumption DEF EntryInv, RegistryTypes, OtherTypes, SlotTypes, Q!TypeOK
<1>1. ASSUME UNCHANGED switchVars, UNCHANGED stop,
             Q!TypeOK', settled' \subseteq Attempts, cancelSaves' \subseteq Attempts
      PROVE  OtherTypes'
    BY <1>1 DEF OtherTypes, switchVars
<1>2. ASSUME NEW a \in Attempts, Step(a) PROVE OtherTypes'
    <2>1. UNCHANGED switchVars /\ UNCHANGED stop
        BY <1>2
        DEF Step, Create, Resume, Reserve, StoreNew, Claim, Register, FailExecution, RejectRun,
            SetRunning, Attach, ProcessError, PutToWait, Finish, Save, SaveCancelled, Finalize
    <2>2. CASE ProcessError(a) \/ Finalize(a)
        <3>1. /\ cancelSaves' = cancelSaves
              /\ \/ Registered(ExecutionOf[a]) /\ Settle(entry[ExecutionOf[a]])
                 \/ UNCHANGED queueVars /\ UNCHANGED settled
            BY <2>2 DEF ProcessError, Finalize, engineVars
        <3>2. Q!TypeOK' /\ settled' \subseteq Attempts
            BY <1>0, <3>1, SettleTypes DEF OtherTypes, queueVars, Q!TypeOK
        <3> QED BY <1>1, <2>1, <3>1, <3>2 DEF OtherTypes
    <2>3. CASE Reserve(a) \/ Claim(a)
        <3>1. /\ UNCHANGED <<settled, cancelSaves>>
              /\ UNCHANGED queueVars \/ Q!Enqueue(a) \/ Q!Dequeue(a)
            BY <2>3 DEF Reserve, Claim, Release, registryVars, engineVars
        <3>2. Q!TypeOK'
            BY <1>0, <3>1, QueueTypes
        <3> QED BY <1>1, <2>1, <3>1, <3>2 DEF OtherTypes
    <2>4. CASE SaveCancelled(a)
        <3>1. UNCHANGED queueVars /\ UNCHANGED settled /\ cancelSaves' \subseteq cancelSaves
            BY <2>4 DEF SaveCancelled, registryVars
        <3> QED BY <1>1, <2>1, <3>1 DEF OtherTypes, queueVars, Q!TypeOK
    <2>5. CASE \/ Create(a) \/ Resume(a) \/ StoreNew(a) \/ Register(a) \/ FailExecution(a)
               \/ RejectRun(a) \/ SetRunning(a) \/ Attach(a) \/ PutToWait(a) \/ Finish(a) \/ Save(a)
        <3>1. UNCHANGED queueVars /\ UNCHANGED <<settled, cancelSaves>>
            BY <2>5
            DEF Create, Resume, StoreNew, Register, FailExecution, RejectRun, SetRunning, Attach,
                PutToWait, Finish, Save, registryVars, engineVars
        <3> QED BY <1>1, <2>1, <3>1 DEF OtherTypes, queueVars, Q!TypeOK
    <2> QED BY <1>2, <2>2, <2>3, <2>4, <2>5 DEF Step
<1>3. ASSUME NEW a \in Attempts, Timeout(a) PROVE OtherTypes'
    <2>1. StopExecution(ExecutionOf[a]) /\ UNCHANGED switchVars /\ UNCHANGED stop
        BY <1>3 DEF Timeout
    <2>2. Q!TypeOK' /\ settled' \subseteq Attempts /\ cancelSaves' \subseteq Attempts
        BY <1>0, <2>1, StopExecutionTypes
    <2> QED BY <1>1, <2>1, <2>2
<1>4. ASSUME NEW e \in Executions, StopRead(e) \/ StopApply(e) \/ StopSave(e) PROVE OtherTypes'
    <2>1. /\ UNCHANGED switchVars
          /\ \E s \in {"read", "applied", "done"} : stop' = [stop EXCEPT ![e] = s]
        BY <1>4 DEF StopRead, StopApply, StopSave, SetStop
    <2>2. stop' \in [Executions -> {"none", "read", "applied", "done"}]
        BY <2>1 DEF OtherTypes
    <2>3. Q!TypeOK' /\ settled' \subseteq Attempts /\ cancelSaves' \subseteq Attempts
        <3>1. CASE StopExecution(e)
            BY <3>1, StopExecutionTypes
        <3>2. CASE Q!RemoveQueued(e) /\ UNCHANGED <<settled, cancelSaves>>
            <4>1. Q!TypeOK'
                <5>1. queue' \in Seq(Attempts) /\ holders' \subseteq Attempts
                    BY <1>0, <3>2, RemoveKeeps
                <5>2. capacity' \in Int
                    BY <1>0, <3>2 DEF Q!RemoveQueued, Q!RemoveEntry
                <5> QED BY <5>1, <5>2 DEF Q!TypeOK
            <4> QED BY <3>2, <4>1 DEF OtherTypes
        <3>3. CASE UNCHANGED queueVars /\ UNCHANGED <<settled, cancelSaves>>
            BY <3>3 DEF OtherTypes, queueVars, Q!TypeOK
        <3> QED
            BY <1>4, <3>1, <3>2, <3>3 DEF StopRead, StopApply, StopSave, registryVars, engineVars
    <2> QED BY <2>1, <2>2, <2>3 DEF OtherTypes, switchVars
<1>5. CASE Shutdown \/ ResolveEvalQueue \/ UNCHANGED vars
    <2>1. /\ UNCHANGED queueVars /\ UNCHANGED <<settled, cancelSaves, stop, restarts>>
          /\ enabled' = enabled \/ enabled' \in BOOLEAN
          /\ evalResolved' = evalResolved \/ evalResolved' \in BOOLEAN
          /\ phase' = phase \/ phase' \in {"up", "draining"}
        BY <1>5 DEF Shutdown, ResolveEvalQueue, vars, queueVars, registryVars, engineVars
    <2>2. Q!TypeOK'
        BY <2>1 DEF OtherTypes, queueVars, Q!TypeOK
    <2> QED BY <2>1, <2>2 DEF OtherTypes
<1>6. CASE Restart
    <2>1. Q!TypeOK'
        BY <1>6, SettingsAssumption DEF Restart, Q!TypeOK
    <2>2. restarts' \in 0..MaxRestarts
        BY <1>6, SettingsAssumption DEF Restart, OtherTypes
    <2>3. stop' \in [Executions -> {"none", "read", "applied", "done"}]
        BY <1>6 DEF Restart, OtherTypes
    <2> QED BY <1>6, <2>1, <2>2, <2>3 DEF Restart, OtherTypes
<1> QED BY <1>2, <1>3, <1>4, <1>5, <1>6 DEF Next

\* Every variable has its type in every state, for any limits and restarts; the
\* capacity may be any integer, also while a license cap is in force.
THEOREM TypesAreKept == Spec => []TypeOK
<1>1. Init => EntryInv
    BY EntryInitEstablishes
<1>2. Init => OtherTypes
    <2> SUFFICES ASSUME Init PROVE OtherTypes
        OBVIOUS
    <2>1. Q!TypeOK
        BY SettingsAssumption DEF Init, Q!QueueInit, Q!TypeOK
    <2>2. restarts \in 0..MaxRestarts
        BY SettingsAssumption DEF Init
    <2> QED BY <2>1, <2>2 DEF Init, OtherTypes
<1>3. EntryInv /\ [Next]_vars => EntryInv'
    BY NextKeepsEntries
<1>4. EntryInv /\ OtherTypes /\ [Next]_vars => OtherTypes'
    BY NextTypes
<1>5. RunInv /\ EntryInv /\ OtherTypes => TypeOK
    BY DEF RunInv, StageTypes, EntryInv, RegistryTypes, OtherTypes, TypeOK
<1> QED BY <1>1, <1>2, <1>3, <1>4, <1>5, RunInvariant, PTL DEF Spec

-----------------------------------------------------------------------------
(* The slots, with the exception of RunningHoldsSlot.                      *)

\* SlotInv holds until the control is turned on again, and from the next restart.
SlotsInv == ControlOn /\ (TurnedOnAgain \/ SlotInv)

\* Who switches the control.
LEMMA SwitchSteps ==
    ASSUME [Next]_vars
    PROVE  \/ UNCHANGED <<enabled, phase>>
           \/ Shutdown \/ Restart \/ ResolveEvalQueue
<1>1. ASSUME NEW a \in Attempts, Step(a) \/ Timeout(a) PROVE UNCHANGED <<enabled, phase>>
    BY <1>1
    DEF Step, Create, Resume, Reserve, StoreNew, Claim, Register, FailExecution, RejectRun,
        SetRunning, Attach, ProcessError, PutToWait, Finish, Save, SaveCancelled, Finalize,
        Timeout, switchVars
<1>2. ASSUME NEW e \in Executions, StopRead(e) \/ StopApply(e) \/ StopSave(e)
      PROVE  UNCHANGED <<enabled, phase>>
    BY <1>2 DEF StopRead, StopApply, StopSave, switchVars
<1> QED BY <1>1, <1>2 DEF Next, vars

LEMMA SlotsStep ==
    ASSUME TypeOK, SlotsInv, [Next]_vars
    PROVE  SlotsInv' /\ [Q!Next \/ Restart \/ TurnedOnAgain]_queueVars
<1>1. SlotTypes /\ phase \in {"up", "draining"}
    BY DEF TypeOK, Q!TypeOK, SlotTypes
<1>2. ControlOn'
    BY SwitchSteps DEF SlotsInv, ControlOn, Shutdown, Restart, ResolveEvalQueue
<1>3. CASE SlotInv
    BY <1>1, <1>2, <1>3, NextRespects DEF SlotsInv, Disciplined
<1>4. CASE TurnedOnAgain
    <2>1. CASE Restart
        BY <1>1, <1>2, <1>4, <2>1, RestartRespects DEF SlotsInv
    <2>2. CASE ~Restart
        BY <1>2, <1>4, <2>2, SwitchSteps DEF SlotsInv, TurnedOnAgain, Shutdown, ResolveEvalQueue
    <2> QED BY <2>1, <2>2
<1> QED BY <1>3, <1>4 DEF SlotsInv

\* Whoever runs in a limited mode holds a slot until its promise is settled, on
\* every path through add and whatever is stopped, times out or restarts, unless the
\* control was turned on again in a shutdown.
THEOREM RunsWithSlot == Spec => []RunningHoldsSlot
<1>1. Init => SlotsInv
    BY SlotInit DEF SlotsInv, ControlOn, Init
<1>2. TypeOK /\ SlotsInv /\ [Next]_vars => SlotsInv'
    BY SlotsStep
<1>3. SlotsInv => RunningHoldsSlot
    BY DEF SlotsInv, SlotInv, RunsHold, RunningHoldsSlot
<1> QED BY <1>1, <1>2, <1>3, TypesAreKept, PTL DEF Spec

\* The registry is a caller of the queue as ConcurrencyQueue assumes them: it
\* throttles a call once and releases only what the call holds, between restarts and
\* with the same exception.
THEOREM QueueIsUsedWell == Spec => QueueDiscipline
<1>1. Init => SlotsInv
    BY SlotInit DEF SlotsInv, ControlOn, Init
<1>2. TypeOK /\ SlotsInv /\ [Next]_vars => SlotsInv' /\ [Q!Next \/ Restart \/ TurnedOnAgain]_queueVars
    BY SlotsStep
<1> QED BY <1>1, <1>2, TypesAreKept, PTL DEF Spec, QueueDiscipline

=============================================================================
