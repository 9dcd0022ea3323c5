---------------------- MODULE WorkflowActivationProofs ----------------------
(***************************************************************************)
(* Theorems of WorkflowActivation: types, and that the leader alone, once, *)
(* listens to what is active whenever all is quiet, as long as none of the *)
(* nine races has happened.                                                *)
(*                                                                         *)
(* The second one says nothing of what is under way; its invariant         *)
(* NoRaceInv does.  No race leaves one call at a time on a main (OneCall), *)
(* which knows its queue entry by its timer or its retry (QueueInv) and    *)
(* finds no trigger on the map it adds to (AddsInv, MapInv).  The commands *)
(* on their way to the leader alternate, so that each finds it as it was   *)
(* left by the one before: whoever reads the last of them, or the leader's *)
(* memory when there is none, knows whether the leader will listen         *)
(* (WillListen), and what the request in progress may do (LeaderInv).      *)
(***************************************************************************)
EXTENDS WorkflowActivation, FiniteSetTheorems, TLAPS

\* A retry's timer.
Timers == [data : Data, held : BOOLEAN]

CallTypes ==
    /\ registered \in [Mains -> Data] /\ orphans \in [Mains -> SUBSET Versions]
    /\ adds \in [Mains -> [AddContexts -> Calls \cup {NoCall}]]
    /\ removals \in [Mains -> [RemoveContexts -> {"no", "asked", "closing"}]]

QueueTypes ==
    /\ queued \in [Mains -> BOOLEAN] /\ timers \in [Mains -> SUBSET Timers]
    /\ \A m \in Mains : \A t \in timers[m] : t.held => queued[m]

OtherTypes ==
    /\ multiMain \in BOOLEAN /\ leader \in Mains \cup {None} /\ active \in Data
    /\ bulk \in [Mains -> BOOLEAN]
    /\ inbox \in [Mains -> Seq({"add", "remove"})]
    /\ op \in Ops \cup {NoOp}
    /\ ops \in 0..MaxOps /\ failures \in 0..MaxFailures
    /\ changes \in 0..MaxChanges /\ refusals \in 0..MaxRefusals

\* A call of add that starts triggers has a version, and a user's call belongs to the
\* request in progress.
CallInv ==
    \A m \in Mains :
        /\ \A c \in AddContexts : adds[m][c].step = "starting" => adds[m][c].data # None
        /\ adds[m]["user"] # NoCall => op # NoOp /\ op.main = m /\ op.step = "adding"

RaceTypes == races \subseteq Races

TypeInv == CallTypes /\ QueueTypes /\ OtherTypes /\ CallInv

LEMMA Contexts ==
    /\ \A c \in {"bulk", "handler", "retry", "user"} : c \in AddContexts
    /\ \A c \in {"handler", "stepdown", "failure", "user"} : c \in RemoveContexts
    /\ NoCall \notin Calls /\ NoOp \notin Ops /\ NoCall.step = "none"
    /\ \A call \in Calls : call.step # "none"
BY DEF AddContexts, RemoveContexts, NoCall, Calls, NoOp, Ops

-----------------------------------------------------------------------------
(* Parts of the operations.                                                *)

LEMMA EnqueueTypes ==
    ASSUME TypeInv, NEW m \in Mains, NEW data \in Data, Enqueue(m, data)
    PROVE  QueueTypes'
<1> DEFINE new == [data |-> data, held |-> TRUE]
<1>1. new \in Timers
  BY DEF Timers
<1>2. timers' = [timers EXCEPT ![m] = {t \in timers[m] : ~t.held} \cup {new}]
  BY DEF Enqueue, TypeInv, QueueTypes
<1> HIDE DEF new
<1>3. timers' \in [Mains -> SUBSET Timers]
  BY <1>1, <1>2 DEF TypeInv, QueueTypes
<1>4. \A n \in Mains : \A t \in timers'[n] : t.held => queued'[n]
  BY <1>2 DEF TypeInv, QueueTypes, Enqueue
<1> QED  BY <1>3, <1>4 DEF Enqueue, TypeInv, QueueTypes

LEMMA UnqueueTypes ==
    ASSUME TypeInv, NEW m \in Mains, Unqueue(m)
    PROVE  QueueTypes'
<1>1. timers' = [timers EXCEPT ![m] = {t \in timers[m] : ~t.held}]
  BY DEF Unqueue, TypeInv, QueueTypes
<1>2. timers' \in [Mains -> SUBSET Timers]
  BY <1>1 DEF TypeInv, QueueTypes
<1>3. \A n \in Mains : \A t \in timers'[n] : t.held => queued'[n]
  BY <1>1 DEF TypeInv, QueueTypes, Unqueue
<1> QED  BY <1>2, <1>3 DEF Unqueue, TypeInv, QueueTypes

LEMMA RearmTypes ==
    ASSUME TypeInv, NEW m \in Mains, NEW data \in Data, Rearm(m, data)
    PROVE  QueueTypes'
<1>1. CASE ~queued[m]
  <2>1. timers' = timers
    BY <1>1 DEF Rearm, TypeInv, QueueTypes
  <2> QED  BY <2>1 DEF Rearm, TypeInv, QueueTypes
<1>2. CASE queued[m]
  <2> DEFINE new == [data |-> data, held |-> TRUE]
             old == {[t EXCEPT !.held = FALSE] : t \in timers[m]}
  <2>1. new \in Timers
    BY DEF Timers
  <2>2. \A t \in timers[m] : t \in Timers
    BY DEF TypeInv, QueueTypes
  <2>3. old \subseteq Timers
    BY <2>2 DEF Timers
  <2>4. timers' = [timers EXCEPT ![m] = old \cup {new}]
    BY <1>2 DEF Rearm, TypeInv, QueueTypes
  <2> HIDE DEF new, old
  <2>5. timers' \in [Mains -> SUBSET Timers]
    BY <2>1, <2>3, <2>4 DEF TypeInv, QueueTypes
  <2>6. \A n \in Mains : \A t \in timers'[n] : t.held => queued'[n]
    BY <1>2, <2>4 DEF TypeInv, QueueTypes, Rearm
  <2> QED  BY <2>5, <2>6 DEF Rearm, TypeInv, QueueTypes
<1> QED  BY <1>1, <1>2

LEMMA BeginRemoveTypes ==
    ASSUME TypeInv, NEW m \in Mains, NEW c \in RemoveContexts, BeginRemove(m, c)
    PROVE  /\ removals' \in [Mains -> [RemoveContexts -> {"no", "asked", "closing"}]]
           /\ registered' \in [Mains -> Data]
BY DEF TypeInv, CallTypes, BeginRemove, Data

\* A call of add begins, goes on or ends; the others stay.
LEMMA SetCallTypes ==
    ASSUME TypeInv, NEW m \in Mains, NEW c \in AddContexts, NEW call \in Calls \cup {NoCall},
           SetCall(m, c, call)
    PROVE  /\ adds' \in [Mains -> [AddContexts -> Calls \cup {NoCall}]]
           /\ \A n \in Mains, d \in AddContexts : n # m \/ d # c => adds'[n][d] = adds[n][d]
           /\ adds'[m][c] = call
BY DEF TypeInv, CallTypes, SetCall

LEMMA OtherMainsCalls ==
    ASSUME TypeInv, NEW m \in Mains, NEW c, NEW call, SetCall(m, c, call)
    PROVE  \A n \in Mains \ {m} : adds'[n] = adds[n]
BY DEF TypeInv, CallTypes, SetCall

LEMMA Underway ==
    ASSUME TypeInv, NEW m \in Mains, NEW c \in AddContexts, adds[m][c].step # "none"
    PROVE  adds[m][c] \in Calls
BY DEF TypeInv, CallTypes, NoCall

LEMMA CallTypesOf ==
    ASSUME TypeInv, NEW m \in Mains, NEW data \in Data
    PROVE  /\ Call(data, m) \in Calls /\ Call(data, m).step = "prepare"
           /\ Call(data, m).data = data /\ Call(data, m).tracked
           /\ Call(data, m).lead = (leader = m)
BY DEF Call, Calls

-----------------------------------------------------------------------------
(* Types.                                                                  *)

LEMMA AddTriggersTypes ==
    ASSUME TypeInv, NEW m \in Mains, NEW c \in AddContexts, AddTriggers(m, c)
    PROVE  TypeInv'
<1>1. adds[m][c] \in Calls
  BY Underway DEF AddTriggers
<1> DEFINE call == [adds[m][c] EXCEPT !.step = "starting"]
<1>2. call \in Calls /\ call.step = "starting" /\ call.data = adds[m][c].data
  BY <1>1 DEF Calls
<1>3. SetCall(m, c, call)
  BY DEF AddTriggers
<1> HIDE DEF call
<1>4. CallTypes'
  BY <1>2, <1>3, SetCallTypes DEF AddTriggers, TypeInv, CallTypes
<1>5. CallInv'
  BY <1>2, <1>3, Contexts, SetCallTypes DEF AddTriggers, TypeInv, CallInv
<1> QED  BY <1>4, <1>5 DEF AddTriggers, TypeInv, QueueTypes, OtherTypes, bounds

LEMMA AddSucceedsTypes ==
    ASSUME TypeInv, NEW m \in Mains, NEW c \in AddContexts, AddSucceeds(m, c)
    PROVE  TypeInv'
<1>1. adds[m][c] \in Calls
  BY Underway DEF AddSucceeds, Completed
<1>2. adds[m][c].data \in Versions \/ ~adds[m][c].lead
  BY <1>1 DEF AddSucceeds, Completed, TypeInv, CallInv, Calls, Data
<1>3. registered' \in [Mains -> Data] /\ orphans' \in [Mains -> SUBSET Versions]
  <2>1. CASE UNCHANGED <<registered, orphans>>
    BY <2>1 DEF TypeInv, CallTypes
  <2>2. CASE ~UNCHANGED <<registered, orphans>>
    <3>1. adds[m][c].data \in Versions
      BY <1>2, <2>2 DEF AddSucceeds, Listen
    <3>2. registered[m] \in Data /\ {registered[m]} \ {None} \subseteq Versions
      BY DEF TypeInv, CallTypes, Data
    <3>3. registered' \in [Mains -> Data]
      BY <2>2, <3>1 DEF AddSucceeds, Listen, TypeInv, CallTypes, Data
    <3>4. orphans' \in [Mains -> SUBSET Versions]
      BY <2>2, <3>1, <3>2 DEF AddSucceeds, Listen, TypeInv, CallTypes
    <3> QED  BY <3>3, <3>4
  <2> QED  BY <2>1, <2>2
<1>4. CallTypes'
  BY <1>3, SetCallTypes DEF AddSucceeds, TypeInv, CallTypes
<1>5. CallInv'
  <2>1. ASSUME NEW n \in Mains, NEW d \in AddContexts, adds'[n][d].step = "starting"
        PROVE  adds'[n][d].data # None
    BY <2>1, SetCallTypes, Contexts DEF AddSucceeds, TypeInv, CallInv
  <2>2. ASSUME NEW n \in Mains, adds'[n]["user"] # NoCall
        PROVE  op' # NoOp /\ op'.main = n /\ op'.step = "adding"
    <3>1. adds'[m][c] = NoCall /\ adds[m][c] # NoCall
      BY <1>1, SetCallTypes, Contexts DEF AddSucceeds
    <3>2. adds'[n]["user"] = adds[n]["user"] /\ (c = "user" => n # m)
      BY <2>2, <3>1, SetCallTypes, Contexts DEF AddSucceeds
    <3>3. op # NoOp /\ op.main = n /\ op.step = "adding"
      BY <2>2, <3>2 DEF TypeInv, CallInv
    <3>4. c # "user"
      BY <3>1, <3>2, <3>3 DEF TypeInv, CallInv
    <3> QED  BY <3>3, <3>4 DEF AddSucceeds
  <2> QED  BY <2>1, <2>2 DEF CallInv
<1>6. QueueTypes'
  BY UnqueueTypes DEF AddSucceeds
<1>7. OtherTypes'
  BY DEF AddSucceeds, TypeInv, OtherTypes, bounds
<1> QED  BY <1>4, <1>5, <1>6, <1>7 DEF TypeInv

\* add throws: the call ends, and its caller decides what becomes of the queue, of
\* the row and of the request.
LEMMA ThrowsTypes ==
    ASSUME TypeInv, NEW m \in Mains, NEW c \in AddContexts, Throws(m, c),
           QueueTypes', active' \in Data,
           IF c = "user" THEN op' \in Ops ELSE op' = op
    PROVE  TypeInv'
<1>1. adds[m][c] \in Calls
  BY Underway DEF Throws
<1>2. CallTypes'
  BY SetCallTypes DEF Throws, TypeInv, CallTypes
<1>3. ASSUME NEW n \in Mains, NEW d \in AddContexts, adds'[n][d].step = "starting"
      PROVE  adds'[n][d].data # None
  BY <1>3, SetCallTypes, Contexts DEF Throws, TypeInv, CallInv
<1>4. ASSUME NEW n \in Mains, adds'[n]["user"] # NoCall
      PROVE  op' # NoOp /\ op'.main = n /\ op'.step = "adding"
  <2>1. adds'[m][c] = NoCall /\ adds[m][c] # NoCall
    BY <1>1, SetCallTypes, Contexts DEF Throws
  <2>2. adds'[n]["user"] = adds[n]["user"] /\ (c = "user" => n # m)
    BY <1>4, <2>1, SetCallTypes, Contexts DEF Throws
  <2>3. op # NoOp /\ op.main = n /\ op.step = "adding"
    BY <1>4, <2>2 DEF TypeInv, CallInv
  <2>4. c # "user"
    BY <2>1, <2>2, <2>3 DEF TypeInv, CallInv
  <2> QED  BY <2>3, <2>4
<1>5. failures' \in 0..MaxFailures
  BY ActivationAssumption DEF Throws, TypeInv, OtherTypes
<1>6. op' \in Ops \cup {NoOp}
  BY DEF TypeInv, OtherTypes
<1>7. OtherTypes'
  BY <1>5, <1>6 DEF Throws, TypeInv, OtherTypes
<1>8. CallInv'
  BY <1>3, <1>4 DEF CallInv
<1> QED  BY <1>2, <1>7, <1>8 DEF TypeInv

LEMMA DataOf ==
    ASSUME TypeInv, NEW m \in Mains, NEW c \in AddContexts, adds[m][c].step # "none"
    PROVE  adds[m][c].data \in Data
BY Underway DEF Calls

LEMMA FailsTypes ==
    ASSUME TypeInv, NEW m \in Mains,
           BulkFails(m) \/ RetryFails(m) \/ HandlerFails(m) \/ UserFails(m)
    PROVE  TypeInv'
<1>1. active \in Data /\ None \in Data
  BY DEF TypeInv, OtherTypes, Data
<1>2. CASE BulkFails(m)
  <2>1. QueueTypes'
    BY <1>2, Contexts, DataOf, EnqueueTypes DEF BulkFails, Throws
  <2> QED  BY <1>1, <1>2, <2>1, Contexts, ThrowsTypes DEF BulkFails
<1>3. CASE RetryFails(m)
  <2>1. QueueTypes'
    BY <1>3, Contexts, DataOf, RearmTypes DEF RetryFails, Throws
  <2> QED  BY <1>1, <1>3, <2>1, Contexts, ThrowsTypes DEF RetryFails
<1>4. CASE HandlerFails(m)
  <2>1. QueueTypes' /\ active' \in Data
    BY <1>1, <1>4, EnqueueTypes DEF HandlerFails, TypeInv, QueueTypes
  <2> QED  BY <1>4, <2>1, Contexts, ThrowsTypes DEF HandlerFails
<1>5. CASE UserFails(m)
  <2>1. op \in Ops
    BY <1>5, Contexts DEF UserFails, Throws, TypeInv, CallInv, OtherTypes
  <2>2. op' \in Ops
    BY <1>5, <2>1 DEF UserFails, RollBack, Ops, Data
  <2>3. QueueTypes'
    BY <1>5 DEF UserFails, TypeInv, QueueTypes
  <2> QED  BY <1>1, <1>5, <2>2, <2>3, Contexts, ThrowsTypes DEF UserFails
<1> QED  BY <1>2, <1>3, <1>4, <1>5

\* A call of add begins.
LEMMA BeginsTypes ==
    ASSUME TypeInv, NEW m \in Mains, NEW c \in AddContexts, NEW data \in Data,
           SetCall(m, c, Call(data, m)),
           UNCHANGED <<registered, orphans, removals>>, QueueTypes', OtherTypes',
           IF c = "user" THEN op' # NoOp /\ op'.main = m /\ op'.step = "adding" /\ op.step # "adding"
           ELSE op' = op
    PROVE  TypeInv'
<1>1. Call(data, m) \in Calls /\ Call(data, m).step = "prepare"
  BY CallTypesOf
<1>2. CallTypes'
  BY <1>1, SetCallTypes DEF TypeInv, CallTypes
<1>3. ASSUME NEW n \in Mains, NEW d \in AddContexts, adds'[n][d].step = "starting"
      PROVE  adds'[n][d].data # None
  BY <1>1, <1>3, SetCallTypes, Contexts DEF TypeInv, CallInv
<1>4. ASSUME NEW n \in Mains, adds'[n]["user"] # NoCall
      PROVE  op' # NoOp /\ op'.main = n /\ op'.step = "adding"
  <2>1. n # m \/ c # "user" => adds'[n]["user"] = adds[n]["user"]
    BY <1>1, SetCallTypes, Contexts
  <2> QED  BY <1>4, <2>1 DEF TypeInv, CallInv
<1> QED  BY <1>2, <1>3, <1>4 DEF TypeInv, CallInv

LEMMA BulkReadsTypes ==
    ASSUME TypeInv, NEW m \in Mains, BulkReads(m)
    PROVE  TypeInv'
<1>1. QueueTypes' /\ OtherTypes'
  BY DEF BulkReads, TypeInv, QueueTypes, OtherTypes, bounds
<1>2. CASE UNCHANGED adds
  BY <1>1, <1>2 DEF BulkReads, TypeInv, CallTypes, CallInv
<1>3. CASE SetCall(m, "bulk", Call(active, m))
  BY <1>1, <1>3, Contexts, BeginsTypes DEF BulkReads, TypeInv, OtherTypes
<1> QED  BY <1>2, <1>3 DEF BulkReads

LEMMA TimerFiresTypes ==
    ASSUME TypeInv, NEW m \in Mains, TimerFires(m)
    PROVE  TypeInv'
<1>1. PICK t \in timers[m] :
        /\ timers' = [timers EXCEPT ![m] = @ \ {t}]
        /\ SetCall(m, "retry", Call(t.data, m))
  BY DEF TimerFires
<1>2. t \in Timers /\ t.data \in Data
  BY DEF TypeInv, QueueTypes, Timers
<1>3. QueueTypes' /\ OtherTypes'
  BY <1>1 DEF TimerFires, TypeInv, QueueTypes, OtherTypes, bounds
<1> QED  BY <1>1, <1>2, <1>3, Contexts, BeginsTypes DEF TimerFires

LEMMA ReceiveTypes ==
    ASSUME TypeInv, NEW m \in Mains, Receive(m)
    PROVE  TypeInv'
<1>1. QueueTypes'
  BY DEF Receive, TypeInv, QueueTypes
<1>2. inbox' \in [Mains -> Seq({"add", "remove"})]
  BY DEF Receive, TypeInv, OtherTypes
<1>3. OtherTypes'
  BY <1>2 DEF Receive, TypeInv, OtherTypes, bounds
<1>4. CASE UNCHANGED adds
  <2>1. removals' \in [Mains -> [RemoveContexts -> {"no", "asked", "closing"}]]
    BY <1>4, Contexts DEF Receive, TypeInv, CallTypes
  <2> QED  BY <1>1, <1>3, <1>4, <2>1 DEF Receive, TypeInv, CallTypes, CallInv
<1>5. CASE SetCall(m, "handler", Call(active, m)) /\ UNCHANGED removals
  BY <1>1, <1>3, <1>5, Contexts, BeginsTypes DEF Receive, TypeInv, OtherTypes
<1> QED  BY <1>4, <1>5 DEF Receive

\* Steps that begin or end a removal and no call of add.
LEMMA RemovesTypes ==
    ASSUME TypeInv, NEW m \in Mains, NEW c \in RemoveContexts, BeginRemove(m, c),
           QueueTypes', OtherTypes', UNCHANGED <<orphans, adds, op>>
    PROVE  TypeInv'
BY BeginRemoveTypes DEF TypeInv, CallTypes, CallInv

LEMMA BreaksOrRemovesTypes ==
    ASSUME TypeInv, NEW m \in Mains,
           TriggerBreaks(m) \/ HandlerRemoves(m) \/ UserRemoves(m) \/ StepDown(m)
    PROVE  TypeInv'
<1>1. CASE TriggerBreaks(m)
  <2>1. OtherTypes'
    BY <1>1, ActivationAssumption DEF TriggerBreaks, TypeInv, OtherTypes
  <2>2. registered[m] \in Data
    BY DEF TypeInv, CallTypes
  <2> QED  BY <1>1, <2>1, <2>2, Contexts, EnqueueTypes, RemovesTypes DEF TriggerBreaks
<1>2. CASE HandlerRemoves(m)
  <2>1. QueueTypes' /\ OtherTypes'
    BY <1>2 DEF HandlerRemoves, TypeInv, QueueTypes, OtherTypes, bounds
  <2> QED  BY <1>2, <2>1, Contexts, RemovesTypes DEF HandlerRemoves
<1>3. CASE UserRemoves(m)
  <2>1. OtherTypes'
    BY <1>3 DEF UserRemoves, TypeInv, OtherTypes, bounds
  <2> QED  BY <1>3, <2>1, Contexts, UnqueueTypes, RemovesTypes DEF UserRemoves
<1>4. CASE StepDown(m)
  <2>1. OtherTypes'
    BY <1>4, ActivationAssumption DEF StepDown, TypeInv, OtherTypes
  <2> QED  BY <1>4, <2>1, Contexts, UnqueueTypes, RemovesTypes DEF StepDown
<1> QED  BY <1>1, <1>2, <1>3, <1>4

LEMMA EndRemoveTypes ==
    ASSUME TypeInv, NEW m \in Mains, NEW c \in RemoveContexts, EndRemove(m, c)
    PROVE  TypeInv'
<1>1. \A n \in Mains : adds[n] \in [AddContexts -> Calls \cup {NoCall}]
  BY DEF TypeInv, CallTypes
<1>2. ASSUME NEW d \in Holders(m)
      PROVE  /\ [adds[m][d] EXCEPT !.tracked = FALSE] \in Calls
             /\ [adds[m][d] EXCEPT !.tracked = FALSE].data = adds[m][d].data
             /\ adds[m][d] # NoCall
  <2>1. d \in AddContexts /\ adds[m][d].step = "starting"
    BY DEF Holders
  <2>2. adds[m][d] \in Calls
    BY <2>1, Underway
  <2> QED  BY <2>2, Contexts DEF Calls
<1> DEFINE dropped == [d \in AddContexts |->
             IF d \in Holders(m) THEN [adds[m][d] EXCEPT !.tracked = FALSE] ELSE adds[m][d]]
<1>3. dropped \in [AddContexts -> Calls \cup {NoCall}]
  BY <1>1, <1>2
<1>4. adds' = [adds EXCEPT ![m] = dropped]
  BY DEF EndRemove, TypeInv, CallTypes
<1>5. ASSUME NEW d \in AddContexts
      PROVE  /\ dropped[d].step = "starting" => dropped[d].data # None
             /\ dropped[d] # NoCall => adds[m][d] # NoCall
  <2>1. CASE d \in Holders(m)
    <3>1. dropped[d] = [adds[m][d] EXCEPT !.tracked = FALSE]
      BY <2>1
    <3>2. adds[m][d].step = "starting" => adds[m][d].data # None
      BY DEF TypeInv, CallInv
    <3>3. dropped[d].data = adds[m][d].data /\ adds[m][d] # NoCall
      BY <1>2, <2>1, <3>1
    <3>4. adds[m][d].step = "starting"
      BY <2>1 DEF Holders
    <3> QED  BY <3>2, <3>3, <3>4
  <2>2. CASE d \notin Holders(m)
    <3>1. dropped[d] = adds[m][d]
      BY <2>2
    <3> QED  BY <3>1 DEF TypeInv, CallInv
  <2> QED  BY <2>1, <2>2
<1> HIDE DEF dropped
<1>6. adds' \in [Mains -> [AddContexts -> Calls \cup {NoCall}]]
  BY <1>3, <1>4 DEF TypeInv, CallTypes
<1>7. CallInv'
  BY <1>4, <1>5, Contexts DEF EndRemove, TypeInv, CallTypes, CallInv
<1>8. removals' \in [Mains -> [RemoveContexts -> {"no", "asked", "closing"}]]
  BY DEF EndRemove, TypeInv, CallTypes
<1>9. registered' \in [Mains -> Data] /\ orphans' \in [Mains -> SUBSET Versions]
  <2>1. registered[m] \in Data /\ {registered[m]} \ {None} \subseteq Versions
    BY DEF TypeInv, CallTypes, Data
  <2>2. registered' \in [Mains -> Data]
    BY DEF EndRemove, TypeInv, CallTypes, Data
  <2> QED  BY <2>1, <2>2 DEF EndRemove, TypeInv, CallTypes
<1>10. QueueTypes' /\ OtherTypes'
  BY DEF EndRemove, TypeInv, QueueTypes, OtherTypes, bounds
<1> QED  BY <1>6, <1>7, <1>8, <1>9, <1>10 DEF TypeInv, CallTypes

LEMMA TakeOverTypes ==
    ASSUME TypeInv, NEW m \in Mains, TakeOver(m)
    PROVE  TypeInv'
<1>1. OtherTypes'
  BY DEF TakeOver, BulkInProgress, TypeInv, OtherTypes, bounds
<1> QED  BY <1>1 DEF TakeOver, memory, TypeInv, CallTypes, QueueTypes, CallInv

LEMMA CrashTypes ==
    ASSUME TypeInv, NEW m \in Mains, Crash(m)
    PROVE  TypeInv'
<1>1. /\ registered' \in [Mains -> Data] /\ orphans' \in [Mains -> SUBSET Versions]
      /\ queued' \in [Mains -> BOOLEAN]
  BY DEF Crash, TypeInv, CallTypes, QueueTypes, Data
<1>2. timers' \in [Mains -> SUBSET Timers] /\ \A n \in Mains : \A t \in timers'[n] : t.held => queued'[n]
  BY DEF Crash, TypeInv, QueueTypes
<1>3. /\ adds' \in [Mains -> [AddContexts -> Calls \cup {NoCall}]]
      /\ removals' \in [Mains -> [RemoveContexts -> {"no", "asked", "closing"}]]
  BY DEF Crash, TypeInv, CallTypes
<1>4. changes' \in 0..MaxChanges
  BY ActivationAssumption DEF Crash, TypeInv, OtherTypes
<1>5. inbox' \in [Mains -> Seq({"add", "remove"})]
  BY DEF Crash, TypeInv, OtherTypes
<1>6. OtherTypes'
  BY <1>4, <1>5 DEF Crash, TypeInv, OtherTypes
<1>7. CallInv'
  BY Contexts DEF Crash, TypeInv, CallTypes, CallInv
<1> QED  BY <1>1, <1>2, <1>3, <1>6, <1>7 DEF TypeInv, CallTypes, QueueTypes

LEMMA RefusedTypes ==
    ASSUME TypeInv, NEW m \in Mains, Refused(m)
    PROVE  TypeInv'
<1>1. CallTypes' /\ CallInv'
  BY Contexts, SetCallTypes DEF Refused, TypeInv, CallTypes, CallInv
<1>2. OtherTypes'
  BY ActivationAssumption DEF Refused, TypeInv, OtherTypes
<1> QED  BY <1>1, <1>2 DEF Refused, TypeInv, QueueTypes

\* Requests of users: none of their steps but the last has a call of add in flight.
LEMMA RequestTypes ==
    ASSUME TypeInv, NEW m \in Mains, (\E v \in Versions : Activate(m, v)) \/ Deactivate(m)
    PROVE  TypeInv'
<1>1. PICK kind \in {"activate", "deactivate"}, v \in Data :
        \E step \in {"remove", "write"} : Request(kind, m, v, step)
  BY DEF Activate, Deactivate, Data
<1>2. PICK step \in {"remove", "write"} : Request(kind, m, v, step)
  BY <1>1
<1>3. op' \in Ops
  BY <1>2 DEF Request, Ops
<1>4. OtherTypes'
  BY <1>2, <1>3, ActivationAssumption DEF Request, TypeInv, OtherTypes
<1>5. CallInv'
  BY <1>2 DEF Request, memory, TypeInv, CallInv
<1> QED  BY <1>2, <1>4, <1>5 DEF Request, memory, TypeInv, CallTypes, QueueTypes

LEMMA OpTypes ==
    ASSUME TypeInv, OpRemove \/ OpRemoved \/ OpWrite \/ OpAdd
    PROVE  TypeInv'
<1>1. op.step # "none" => op \in Ops
  BY DEF TypeInv, OtherTypes, NoOp
<1>2. op \in Ops
  BY <1>1 DEF OpRemove, OpRemoved, OpWrite, OpAdd
<1>3. \A m \in Mains : op.step # "adding" => adds[m]["user"] = NoCall
  BY DEF TypeInv, CallInv
<1>4. \A command \in {"add", "remove"} : Publish(command) => inbox' \in [Mains -> Seq({"add", "remove"})]
  BY DEF Publish, TypeInv, OtherTypes
<1>5. CASE OpRemove
  <2>1. op' \in Ops /\ OtherTypes'
    BY <1>2, <1>4, <1>5 DEF OpRemove, TypeInv, OtherTypes, Ops, bounds
  <2>2. removals' \in [Mains -> [RemoveContexts -> {"no", "asked", "closing"}]]
    <3>1. CASE UNCHANGED removals
      BY <3>1 DEF TypeInv, CallTypes
    <3>2. CASE removals' = [removals EXCEPT ![op.main]["user"] = "asked"]
      BY <1>2, <3>2, Contexts DEF TypeInv, CallTypes, Ops
    <3> QED  BY <1>5, <3>1, <3>2 DEF OpRemove
  <2>3. CallInv'
    BY <1>3, <1>5 DEF OpRemove, TypeInv, CallInv
  <2> QED  BY <1>5, <2>1, <2>2, <2>3 DEF OpRemove, TypeInv, CallTypes, QueueTypes
<1>6. CASE OpRemoved
  <2>1. op' \in Ops /\ OtherTypes'
    BY <1>2, <1>6 DEF OpRemoved, TypeInv, OtherTypes, Ops, bounds
  <2>2. CallInv'
    BY <1>3, <1>6 DEF OpRemoved, memory, TypeInv, CallInv
  <2> QED  BY <1>6, <2>1, <2>2 DEF OpRemoved, memory, TypeInv, CallTypes, QueueTypes
<1>7. CASE OpWrite
  <2>1. op' \in Ops \cup {NoOp} /\ OtherTypes'
    BY <1>2, <1>7 DEF OpWrite, TypeInv, OtherTypes, Ops, bounds
  <2>2. CallInv'
    BY <1>3, <1>7 DEF OpWrite, memory, TypeInv, CallInv
  <2> QED  BY <1>7, <2>1, <2>2 DEF OpWrite, memory, TypeInv, CallTypes, QueueTypes
<1>8. CASE OpAdd
  <2>1. op' \in Ops \cup {NoOp}
    BY <1>2, <1>8 DEF OpAdd, RollBack, Ops, Data
  <2>2. OtherTypes'
    BY <1>4, <1>8, <2>1 DEF OpAdd, TypeInv, OtherTypes, bounds
  <2>3. QueueTypes'
    BY <1>8 DEF OpAdd, TypeInv, QueueTypes
  <2>4. CASE UNCHANGED adds
    <3>1. CallInv'
      BY <1>3, <1>8, <2>4 DEF OpAdd, TypeInv, CallInv
    <3> QED  BY <1>8, <2>2, <2>3, <2>4, <3>1 DEF OpAdd, TypeInv, CallTypes
  <2>5. CASE SetCall(op.main, "user", Call(active, op.main)) /\ op' = [op EXCEPT !.step = "adding"]
    <3>1. op.main \in Mains /\ op' # NoOp /\ op'.main = op.main /\ op'.step = "adding"
      BY <1>2, <2>5, Contexts DEF Ops, NoOp
    <3>2. active \in Data /\ op.step # "adding"
      BY <1>8 DEF OpAdd, TypeInv, OtherTypes
    <3> QED  BY <1>8, <2>2, <2>3, <2>5, <3>1, <3>2, Contexts, BeginsTypes DEF OpAdd
  <2> QED  BY <1>8, <2>4, <2>5 DEF OpAdd
<1> QED  BY <1>5, <1>6, <1>7, <1>8

LEMMA WorkTypes ==
    ASSUME TypeInv, Work
    PROVE  TypeInv'
BY AddTriggersTypes, AddSucceedsTypes, EndRemoveTypes, BulkReadsTypes, TimerFiresTypes,
   ReceiveTypes, BreaksOrRemovesTypes, OpTypes DEF Work

LEMMA NextKeepsTypes == TypeInv /\ RaceTypes /\ [Next]_vars => TypeInv' /\ RaceTypes'
<1> SUFFICES ASSUME TypeInv, RaceTypes, [Next]_vars
             PROVE  TypeInv' /\ RaceTypes'
  OBVIOUS
<1>1. \A also : also \subseteq Races /\ Note(also) => RaceTypes'
  BY DEF Note, RaceTypes
<1>2. "refused" \in Races /\ "interrupted" \in Races
  BY DEF Races
<1>3. CASE Work /\ Note({})
  BY <1>1, <1>3, WorkTypes
<1>4. CASE Fail /\ Note({})
  BY <1>1, <1>4, FailsTypes, BreaksOrRemovesTypes DEF Fail
<1>5. CASE TakesOver
  BY <1>1, <1>5, TakeOverTypes DEF TakesOver
<1>6. CASE Use /\ Note({})
  BY <1>1, <1>6, RequestTypes DEF Use
<1>7. CASE \E m \in Mains : Refused(m) /\ Note({"refused"})
  BY <1>1, <1>2, <1>7, RefusedTypes
<1>8. CASE \E m \in Mains : Crash(m) /\ Note({r \in {"interrupted"} : op # NoOp /\ op.main = m})
  <2>1. \A m \in Mains : {r \in {"interrupted"} : op # NoOp /\ op.main = m} \subseteq Races
    BY <1>2
  <2> QED  BY <1>1, <1>8, <2>1, CrashTypes
<1>9. CASE UNCHANGED vars
  BY <1>9 DEF vars, RaceTypes, memory, bounds, TypeInv, CallTypes, QueueTypes, OtherTypes, CallInv
<1> QED  BY <1>3, <1>4, <1>5, <1>6, <1>7, <1>8, <1>9 DEF Next

LEMMA InitTypes == Init => TypeInv /\ RaceTypes
<1> SUFFICES ASSUME Init PROVE TypeInv /\ RaceTypes
  OBVIOUS
<1>1. leader \in Mains
  BY ActivationAssumption DEF Init
<1>2. None \in Data
  BY DEF Data
<1>3. OtherTypes
  BY <1>1, <1>2, ActivationAssumption DEF Init, OtherTypes
<1>4. CallTypes
  BY <1>2 DEF Init, CallTypes
<1>5. QueueTypes
  BY DEF Init, QueueTypes
<1>6. CallInv
  BY Contexts DEF Init, CallInv
<1> QED  BY <1>3, <1>4, <1>5, <1>6 DEF Init, TypeInv, RaceTypes

\* Map, queue, timers, calls, commands and the request keep their types, for any mains,
\* versions and bounds, whatever races happen: a call that starts triggers has a version,
\* and only the request in progress has a call of its own.
THEOREM TypesAreKept == Spec => []TypeOK
<1>1. TypeInv /\ RaceTypes => TypeOK
  BY DEF TypeInv, CallTypes, QueueTypes, OtherTypes, TypeOK, Timers, RaceTypes
<1> QED  BY <1>1, InitTypes, NextKeepsTypes, PTL DEF Spec
-----------------------------------------------------------------------------
(* What holds as long as no race has happened.                             *)

\* At most one call that adds or removes is in flight on a main.
OneCall(m) ==
    /\ \A c, d \in AddContexts : adds[m][c] # NoCall /\ adds[m][d] # NoCall => c = d
    /\ \A c, d \in RemoveContexts : removals[m][c] # "no" /\ removals[m][d] # "no" => c = d
    /\ \A c \in AddContexts, d \in RemoveContexts : adds[m][c] = NoCall \/ removals[m][d] = "no"

\* What a step that is no race does not do.
Calm ==
    /\ \A m \in Mains : OneCall(m)'
    /\ \A m \in Mains : leader = m /\ leader' # m => \A c \in AddContexts : adds'[m][c] = NoCall
    /\ \A m \in Mains : leader # m /\ leader' = m => ~BulkInProgress(m) /\ ~queued[m]
    /\ Requested => leader' = leader /\ ~LeaderReads
    /\ \A m \in Mains : removals[m]["handler"] = "asked" => ~queued[m]
    /\ Announced /\ active # None => active' # None

\* Sets with at most one element between them.
LEMMA Few ==
    ASSUME NEW S, NEW T, IsFiniteSet(S), IsFiniteSet(T), ~(Cardinality(S) + Cardinality(T) > 1)
    PROVE  /\ \A x, y \in S : x = y
           /\ \A x, y \in T : x = y
           /\ S = {} \/ T = {}
<1>1. Cardinality(S) \in Nat /\ Cardinality(T) \in Nat
  BY FS_CardinalityType
<1>2. ASSUME NEW U, IsFiniteSet(U), Cardinality(U) <= 1, NEW x \in U, NEW y \in U
      PROVE  x = y
  <2>1. Cardinality(U) = 1
    BY <1>2, FS_CardinalityType, FS_EmptySet
  <2>2. PICK z : U = {z}
    BY <1>2, <2>1, FS_Singleton
  <2> QED  BY <2>2
<1>3. Cardinality(S) <= 1 /\ Cardinality(T) <= 1 /\ (Cardinality(S) = 0 \/ Cardinality(T) = 0)
  BY <1>1
<1>4. S = {} \/ T = {}
  BY <1>3, FS_EmptySet
<1> QED  BY <1>2, <1>3, <1>4

LEMMA NoOverlap == ASSUME NEW m \in Mains, ~Overlap(m) PROVE OneCall(m)
<1> DEFINE S == AddsInFlight(m)
           T == {c \in RemoveContexts : removals[m][c] # "no"}
<1>1. IsFiniteSet(AddContexts) /\ IsFiniteSet(RemoveContexts)
  <2>1. AddContexts = ({"bulk"} \cup {"handler"}) \cup ({"retry"} \cup {"user"})
    BY DEF AddContexts
  <2>2. RemoveContexts = ({"handler"} \cup {"stepdown"}) \cup ({"failure"} \cup {"user"})
    BY DEF RemoveContexts
  <2> QED  BY <2>1, <2>2, FS_Singleton, FS_Union
<1>2. IsFiniteSet(S) /\ IsFiniteSet(T)
  BY <1>1, FS_Subset DEF AddsInFlight
<1>3. ~(Cardinality(S) + Cardinality(T) > 1)
  BY DEF Overlap
<1> HIDE DEF S, T
<1>4. /\ \A x, y \in S : x = y
      /\ \A x, y \in T : x = y
      /\ S = {} \/ T = {}
  BY <1>2, <1>3, Few
<1> QED  BY <1>4 DEF S, T, OneCall, AddsInFlight

\* The same of the next state.
LEMMA NoOverlapNext == (\A m \in Mains : ~Overlap(m) => OneCall(m))'
<1>1. \A m \in Mains : ~Overlap(m) => OneCall(m)
  BY NoOverlap
<1> QED  BY <1>1, PTL

\* A step after which no race has happened.
LEMMA NoRaceIsCalm ==
    ASSUME NEW also, Note(also), races' = {}
    PROVE  races = {} /\ also = {} /\ Calm
<1>1. races = {} /\ also = {} /\ \A r \in Races : ~Happens(r)
  BY DEF Note
<1>2. \A m \in Mains : OneCall(m)'
  <2>1. ~Happens("overlap")
    BY <1>1 DEF Races
  <2>2. \A m \in Mains : ~Overlap(m)'
    BY <2>1 DEF Happens
  <2> QED  BY <2>2, NoOverlapNext
<1>3. \A m \in Mains : leader = m /\ leader' # m => \A c \in AddContexts : adds'[m][c] = NoCall
  BY <1>1 DEF Races, Happens, AddsInFlight
<1>4. \A m \in Mains : leader # m /\ leader' = m => ~BulkInProgress(m) /\ ~queued[m]
  BY <1>1, ActivationAssumption DEF Races, Happens
<1>5. Requested => leader' = leader /\ ~LeaderReads
  BY <1>1 DEF Races, Happens
<1>6. \A m \in Mains : removals[m]["handler"] = "asked" => ~queued[m]
  BY <1>1 DEF Races, Happens
<1>7. Announced /\ active # None => active' # None
  BY <1>1 DEF Races, Happens
<1> QED  BY <1>1, <1>2, <1>3, <1>4, <1>5, <1>6, <1>7 DEF Calm

\* Calls of add: made by the leader exactly if they start triggers, and on an empty map.
AddInv(m, c) ==
    adds[m][c] # NoCall =>
        /\ registered[m] = None /\ ~bulk[m]
        /\ (adds[m][c].lead <=> leader = m) /\ adds[m][c].tracked
        /\ adds[m][c].step = "starting" => leader = m
        /\ c \in {"handler", "user"} => leader = m /\ ~queued[m]
        /\ c = "user" => ~multiMain
        /\ c = "handler" => multiMain
        /\ c = "retry" => queued[m]

AddsInv(m) == \A c \in AddContexts : AddInv(m, c)

RemovalsInv(m) ==
    \A c \in RemoveContexts :
        /\ removals[m][c] = "asked" => c \in {"handler", "user"}
        /\ removals[m][c] = "closing" => registered[m] = None
        /\ removals[m][c] = "closing" /\ c \in {"handler", "user"} => ~queued[m]
        /\ removals[m][c] # "no" /\ c = "user" => ~multiMain /\ leader = m /\ op.step = "removing"
        /\ removals[m][c] # "no" /\ c = "handler" => multiMain

\* An entry in the queue has its one timer, or the retry is in flight.
QueueInv(m) ==
    /\ \A t \in timers[m] : t.held /\ queued[m]
    /\ \A t, u \in timers[m] : t = u
    /\ queued[m] => (timers[m] # {} <=> adds[m]["retry"] = NoCall)

\* Only the leader's map knows a trigger, and none is lost.
MapInv(m) ==
    /\ orphans[m] = {}
    /\ leader # m => registered[m] = None
    /\ bulk[m] \/ queued[m] => registered[m] = None
    /\ bulk[m] => ~queued[m]

Main(m) == AddsInv(m) /\ RemovalsInv(m) /\ QueueInv(m) /\ MapInv(m)

OpInv ==
    /\ op.step \in {"removing", "adding"} => ~multiMain
    /\ op # NoOp => (op.kind = "activate" <=> op.version # None)
    /\ ~multiMain =>
        /\ leader # None /\ \A m \in Mains : inbox[m] = <<>>
        /\ op # NoOp => op.main = leader
        /\ op.step = "add" => active # None

\* The leader has or will have a trigger, as far as the commands go that it has received.
Holds(m) ==
    \/ bulk[m] /\ active # None
    \/ /\ removals[m]["handler"] = "no" /\ removals[m]["user"] = "no"
       /\ registered[m] # None \/ queued[m] \/ \E c \in AddContexts : adds[m][c] # NoCall

\* ... and after the commands on their way.
WillListen(m) == IF inbox[m] = <<>> THEN Holds(m) ELSE inbox[m][Len(inbox[m])] = "add"

\* What it has is the active version.
Current(m) ==
    /\ registered[m] \in {None, active}
    /\ \A c \in AddContexts : adds[m][c] # NoCall => adds[m][c].data = active
    /\ \A t \in timers[m] : t.data = active

\* Between two commands to activate there is one to remove.
Alternates(s) == \A k \in 1 .. Len(s) - 1 : s[k] = "add" => s[k + 1] = "remove"

\* The leader and the request in progress: it is told to activate only when it has no
\* trigger.
LeaderInv(m) ==
    /\ WillListen(m) => active # None /\ op.step \in {"none", "remove", "adding"}
    /\ op = NoOp /\ active # None => WillListen(m)
    /\ Alternates(inbox[m])
    /\ inbox[m] # <<>> /\ Holds(m) => inbox[m][1] = "remove"
    /\ inbox[m] = <<>> /\ Holds(m) => Current(m)

NoRaceInv ==
    /\ OpInv
    /\ \A m \in Mains : OneCall(m) /\ Main(m)
    /\ \A m \in Mains : leader = m => LeaderInv(m)

\* A step that leaves the memory of a main alone.
Same(m) ==
    /\ registered'[m] = registered[m] /\ orphans'[m] = orphans[m]
    /\ queued'[m] = queued[m] /\ timers'[m] = timers[m] /\ bulk'[m] = bulk[m]
    /\ adds'[m] = adds[m] /\ removals'[m] = removals[m]

LEMMA SameMain ==
    ASSUME NEW m \in Mains, Main(m), Same(m), leader' = m <=> leader = m, multiMain' = multiMain,
           removals[m]["user"] # "no" => op'.step = op.step
    PROVE  Main(m)'
BY Contexts DEF Main, AddsInv, AddInv, RemovalsInv, QueueInv, MapInv, Same

LEMMA SameLeader ==
    ASSUME NEW m \in Mains, LeaderInv(m), Same(m), inbox'[m] = inbox[m],
           UNCHANGED <<active, op>>
    PROVE  LeaderInv(m)'
BY DEF LeaderInv, WillListen, Holds, Current, Same

\* A step that concerns the memory of one main only: the row and the request change only
\* if that main leads.
LEMMA OneMain ==
    ASSUME NoRaceInv, Calm, NEW m \in Mains,
           \A n \in Mains \ {m} : Same(n) /\ inbox'[n] = inbox[n],
           UNCHANGED <<multiMain, leader>>,
           UNCHANGED <<active, op>> \/ leader = m,
           \A n \in Mains \ {m} : removals[n]["user"] # "no" => op'.step = op.step,
           OpInv', Main(m)', leader = m => LeaderInv(m)'
    PROVE  NoRaceInv'
<1>1. \A n \in Mains : OneCall(n)'
  BY DEF Calm
<1>2. \A n \in Mains : Main(n)'
  <2>1. ASSUME NEW n \in Mains \ {m} PROVE Main(n)'
    BY SameMain DEF NoRaceInv
  <2> QED  BY <2>1
<1>3. \A n \in Mains : leader' = n => LeaderInv(n)'
  <2>1. ASSUME NEW n \in Mains \ {m}, leader' = n PROVE LeaderInv(n)'
    BY <2>1, SameLeader DEF NoRaceInv
  <2> QED  BY <2>1
<1> QED  BY <1>1, <1>2, <1>3 DEF NoRaceInv

\* ... and leaves the row, the request and the commands alone.
LEMMA MemoryOnly ==
    ASSUME NoRaceInv, Calm, NEW m \in Mains,
           \A n \in Mains \ {m} : Same(n),
           UNCHANGED <<multiMain, leader, active, inbox, op>>,
           Main(m)', leader = m => LeaderInv(m)'
    PROVE  NoRaceInv'
<1>1. OpInv'
  BY DEF NoRaceInv, OpInv
<1> QED  BY <1>1, OneMain

LEMMA AddTriggersKeeps ==
    ASSUME TypeInv, NoRaceInv, Calm, NEW m \in Mains, NEW c \in AddContexts, AddTriggers(m, c)
    PROVE  NoRaceInv'
<1> DEFINE call == [adds[m][c] EXCEPT !.step = "starting"]
<1>1. adds[m][c] \in Calls /\ adds[m][c] # NoCall
  BY Underway, Contexts DEF AddTriggers
<1>2. /\ call \in Calls /\ call # NoCall /\ call.data = adds[m][c].data
      /\ call.lead = adds[m][c].lead /\ call.tracked = adds[m][c].tracked
  BY <1>1, Contexts DEF Calls
<1>3. /\ adds'[m][c] = call
      /\ \A n \in Mains, d \in AddContexts : n # m \/ d # c => adds'[n][d] = adds[n][d]
      /\ \A n \in Mains \ {m} : adds'[n] = adds[n]
  BY <1>2, SetCallTypes, OtherMainsCalls DEF AddTriggers
<1> HIDE DEF call
<1>4. Main(m)'
  <2>1. AddsInv(m)'
    <3>1. ASSUME NEW d \in AddContexts, d # c PROVE AddInv(m, d)'
      BY <1>3, <3>1 DEF AddTriggers, NoRaceInv, Main, AddsInv, AddInv
    <3>2. leader = m
      BY <1>1 DEF AddTriggers, NoRaceInv, Main, AddsInv, AddInv
    <3>3. AddInv(m, c)'
      BY <1>1, <1>2, <1>3, <3>2 DEF AddTriggers, NoRaceInv, Main, AddsInv, AddInv
    <3> QED  BY <3>1, <3>3 DEF AddsInv
  <2>2. RemovalsInv(m)' /\ MapInv(m)'
    BY DEF AddTriggers, NoRaceInv, Main, RemovalsInv, MapInv
  <2>3. QueueInv(m)'
    BY <1>1, <1>2, <1>3, Contexts DEF AddTriggers, NoRaceInv, Main, QueueInv
  <2> QED  BY <2>1, <2>2, <2>3 DEF Main
<1>5. leader = m => LeaderInv(m)'
  <2>1. Holds(m)' <=> Holds(m)
    BY <1>1, <1>2, <1>3 DEF AddTriggers, Holds
  <2>2. Current(m) => Current(m)'
    BY <1>1, <1>2, <1>3 DEF AddTriggers, Current
  <2> QED  BY <2>1, <2>2 DEF AddTriggers, NoRaceInv, LeaderInv, WillListen
<1>6. \A n \in Mains \ {m} : Same(n)
  BY <1>3 DEF AddTriggers, Same
<1> QED  BY <1>4, <1>5, <1>6, MemoryOnly DEF AddTriggers

\* The one call of a main ends ...
LEMMA CallEnds ==
    ASSUME TypeInv, NoRaceInv, NEW m \in Mains, NEW c \in AddContexts, adds[m][c].step # "none",
           SetCall(m, c, NoCall)
    PROVE  /\ adds[m][c] \in Calls /\ adds[m][c] # NoCall
           /\ \A d \in AddContexts : adds'[m][d] = NoCall
           /\ \A n \in Mains \ {m} : adds'[n] = adds[n]
           /\ \A d \in RemoveContexts : removals[m][d] = "no"
<1>1. adds[m][c] \in Calls /\ adds[m][c] # NoCall
  BY Underway, Contexts
<1>2. \A d \in AddContexts \ {c} : adds[m][d] = NoCall
  BY <1>1 DEF NoRaceInv, OneCall
<1>3. \A d \in RemoveContexts : removals[m][d] = "no"
  BY <1>1 DEF NoRaceInv, OneCall
<1> QED  BY <1>1, <1>2, <1>3, SetCallTypes, OtherMainsCalls

\* ... or begins, as the only one.
LEMMA CallBegins ==
    ASSUME TypeInv, Calm, NEW m \in Mains, NEW c \in AddContexts, NEW data \in Data,
           SetCall(m, c, Call(data, m))
    PROVE  /\ Call(data, m) # NoCall
           /\ adds'[m][c] = Call(data, m)
           /\ \A d \in AddContexts \ {c} : adds[m][d] = NoCall /\ adds'[m][d] = NoCall
           /\ \A n \in Mains \ {m} : adds'[n] = adds[n]
           /\ \A d \in RemoveContexts : removals'[m][d] = "no"
<1>1. Call(data, m) \in Calls /\ Call(data, m) # NoCall
  BY CallTypesOf, Contexts
<1>2. /\ adds'[m][c] = Call(data, m)
      /\ \A d \in AddContexts \ {c} : adds'[m][d] = adds[m][d]
      /\ \A n \in Mains \ {m} : adds'[n] = adds[n]
  BY <1>1, SetCallTypes, OtherMainsCalls
<1>3. \A d \in AddContexts \ {c} : adds'[m][d] = NoCall
  BY <1>1, <1>2 DEF Calm, OneCall
<1>4. \A d \in RemoveContexts : removals'[m][d] = "no"
  BY <1>1, <1>2 DEF Calm, OneCall
<1> QED  BY <1>1, <1>2, <1>3, <1>4

LEMMA Unqueued ==
    ASSUME TypeInv, NoRaceInv, NEW m \in Mains, Unqueue(m)
    PROVE  /\ ~queued'[m] /\ timers'[m] = {}
           /\ \A n \in Mains \ {m} : queued'[n] = queued[n] /\ timers'[n] = timers[n]
<1>1. \A t \in timers[m] : t.held
  BY DEF NoRaceInv, Main, QueueInv
<1> QED  BY <1>1 DEF Unqueue, TypeInv, QueueTypes

LEMMA Enqueued ==
    ASSUME TypeInv, NoRaceInv, NEW m \in Mains, NEW data, Enqueue(m, data)
    PROVE  /\ queued'[m] /\ timers'[m] = {[data |-> data, held |-> TRUE]}
           /\ \A n \in Mains \ {m} : queued'[n] = queued[n] /\ timers'[n] = timers[n]
<1>1. {t \in timers[m] : ~t.held} = {}
  BY DEF NoRaceInv, Main, QueueInv
<1> QED  BY <1>1 DEF Enqueue, TypeInv, QueueTypes

LEMMA Rearmed ==
    ASSUME TypeInv, NEW m \in Mains, queued[m], timers[m] = {}, NEW data, Rearm(m, data)
    PROVE  /\ queued' = queued /\ timers'[m] = {[data |-> data, held |-> TRUE]}
           /\ \A n \in Mains \ {m} : timers'[n] = timers[n]
BY DEF Rearm, TypeInv, QueueTypes

\* A removal begins: what it finds on the map is taken off it.
LEMMA RemovalBegins ==
    ASSUME TypeInv, NEW m \in Mains, NEW c \in RemoveContexts, BeginRemove(m, c)
    PROVE  /\ registered'[m] = None
           /\ removals'[m][c] \in {"no", "closing"}
           /\ registered[m] # None => removals'[m][c] = "closing"
           /\ \A d \in RemoveContexts \ {c} : removals'[m][d] = removals[m][d]
           /\ \A n \in Mains \ {m} : registered'[n] = registered[n] /\ removals'[n] = removals[n]
BY DEF BeginRemove, TypeInv, CallTypes

\* An entry of the queue with its timer, and nothing else in memory.
LEMMA QueuedMain ==
    ASSUME TypeInv, NoRaceInv, NEW m \in Mains, NEW data,
           registered'[m] = None, orphans'[m] = orphans[m], ~bulk'[m],
           \A c \in AddContexts : adds'[m][c] = NoCall,
           queued'[m], timers'[m] = {[data |-> data, held |-> TRUE]},
           RemovalsInv(m)'
    PROVE  Main(m)'
<1>1. AddsInv(m)'
  BY DEF AddsInv, AddInv
<1>2. QueueInv(m)'
  BY Contexts DEF QueueInv
<1>3. MapInv(m)'
  BY DEF NoRaceInv, Main, MapInv
<1> QED  BY <1>1, <1>2, <1>3 DEF Main

\* A retry or start-up that succeeds without a trigger, or a trigger that listens.
LEMMA AddSucceedsKeeps ==
    ASSUME TypeInv, NoRaceInv, Calm, NEW m \in Mains, NEW c \in AddContexts, AddSucceeds(m, c)
    PROVE  NoRaceInv'
<1> DEFINE call == adds[m][c]
<1>1. /\ call \in Calls /\ call # NoCall
      /\ \A d \in AddContexts : adds'[m][d] = NoCall
      /\ \A n \in Mains \ {m} : adds'[n] = adds[n]
      /\ \A d \in RemoveContexts : removals[m][d] = "no"
  <2>1. call.step # "none"
    BY DEF AddSucceeds, Completed
  <2> QED  BY <2>1, CallEnds DEF AddSucceeds
<1>2. /\ ~queued'[m] /\ timers'[m] = {}
      /\ \A n \in Mains \ {m} : queued'[n] = queued[n] /\ timers'[n] = timers[n]
  BY Unqueued DEF AddSucceeds
<1>3. /\ registered[m] = None /\ orphans[m] = {} /\ ~bulk[m] /\ call.tracked
      /\ call.lead <=> leader = m
      /\ call.lead => call.data # None
      /\ c = "user" => leader = m /\ ~multiMain
  BY <1>1 DEF NoRaceInv, Main, AddsInv, AddInv, MapInv, AddSucceeds, Completed, TypeInv, CallInv
<1>4. /\ registered'[m] = IF leader = m THEN call.data ELSE None
      /\ orphans'[m] = {}
      /\ \A n \in Mains \ {m} : registered'[n] = registered[n] /\ orphans'[n] = orphans[n]
  BY <1>3 DEF AddSucceeds, Listen, TypeInv, CallTypes
<1>5. op' = IF c = "user" THEN NoOp ELSE op
  BY DEF AddSucceeds
<1> HIDE DEF call
<1>6. Main(m)'
  <2>1. AddsInv(m)' /\ RemovalsInv(m)'
    BY <1>1 DEF AddsInv, AddInv, RemovalsInv, AddSucceeds
  <2>2. QueueInv(m)' /\ MapInv(m)'
    BY <1>2, <1>3, <1>4 DEF QueueInv, MapInv, AddSucceeds
  <2> QED  BY <2>1, <2>2 DEF Main
<1>7. ASSUME leader = m PROVE LeaderInv(m)'
  <2>1. Holds(m) /\ Holds(m)'
    BY <1>1, <1>3, <1>4, <1>7, Contexts DEF Holds, AddSucceeds, call
  <2>2. WillListen(m) <=> WillListen(m)'
    BY <2>1 DEF WillListen, AddSucceeds
  <2>3. c = "user" => WillListen(m)'
    BY <1>3, <2>1 DEF NoRaceInv, OpInv, WillListen, AddSucceeds
  <2>4. Current(m) => Current(m)'
    BY <1>1, <1>2, <1>4, <1>7 DEF Current, AddSucceeds, call
  <2>5. NoOp.step = "none"
    BY DEF NoOp
  <2> QED  BY <1>5, <1>7, <2>1, <2>2, <2>3, <2>4, <2>5 DEF NoRaceInv, LeaderInv, AddSucceeds
<1>8. OpInv'
  BY <1>5 DEF NoRaceInv, OpInv, AddSucceeds, NoOp
<1>9. \A n \in Mains \ {m} : Same(n) /\ inbox'[n] = inbox[n]
  BY <1>1, <1>2, <1>4 DEF Same, AddSucceeds
<1>10. \A n \in Mains \ {m} : removals[n]["user"] # "no" => op'.step = op.step
  BY <1>3, <1>5, Contexts DEF NoRaceInv, Main, RemovalsInv
<1> QED  BY <1>3, <1>5, <1>6, <1>7, <1>8, <1>9, <1>10, OneMain DEF AddSucceeds

\* The leader, or a follower, activates what it has read.
LEMMA BulkReadsKeeps ==
    ASSUME TypeInv, NoRaceInv, Calm, NEW m \in Mains, BulkReads(m)
    PROVE  NoRaceInv'
<1>1. /\ registered[m] = None /\ ~queued[m] /\ \A c \in AddContexts : adds[m][c] = NoCall
      /\ bulk' = [bulk EXCEPT ![m] = FALSE] /\ bulk[m] /\ ~bulk'[m]
      /\ \A n \in Mains \ {m} : bulk'[n] = bulk[n]
  BY DEF BulkReads, NoRaceInv, Main, MapInv, AddsInv, AddInv, TypeInv, OtherTypes
<1>2. CASE active = None
  <2>1. Main(m)'
    BY <1>1, <1>2 DEF BulkReads, NoRaceInv, Main, AddsInv, AddInv, RemovalsInv, QueueInv, MapInv
  <2>2. Holds(m)' => Holds(m)
    BY <1>1, <1>2 DEF BulkReads, Holds
  <2>3. leader = m => LeaderInv(m)'
    BY <1>2, <2>2 DEF BulkReads, NoRaceInv, LeaderInv, WillListen, Current
  <2>4. \A n \in Mains \ {m} : Same(n)
    BY <1>1, <1>2 DEF BulkReads, Same
  <2> QED  BY <1>2, <2>1, <2>3, <2>4, MemoryOnly DEF BulkReads
<1>3. CASE active # None
  <2> DEFINE call == Call(active, m)
  <2>1. /\ call # NoCall
        /\ adds'[m]["bulk"] = call
        /\ \A d \in AddContexts \ {"bulk"} : adds'[m][d] = NoCall
        /\ \A n \in Mains \ {m} : adds'[n] = adds[n]
        /\ \A d \in RemoveContexts : removals'[m][d] = "no"
    BY <1>3, Contexts, CallBegins DEF BulkReads, TypeInv, OtherTypes
  <2>2. /\ call.step = "prepare" /\ call.data = active /\ call.tracked
        /\ call.lead <=> leader = m
    BY CallTypesOf DEF TypeInv, OtherTypes
  <2> HIDE DEF call
  <2>3. AddsInv(m)'
    BY <1>1, <2>1, <2>2 DEF BulkReads, AddsInv, AddInv
  <2>4. RemovalsInv(m)' /\ QueueInv(m)' /\ MapInv(m)'
    BY <1>1, <2>1, Contexts DEF BulkReads, NoRaceInv, Main, RemovalsInv, QueueInv, MapInv
  <2>5. Main(m)'
    BY <2>3, <2>4 DEF Main
  <2>6. Holds(m) /\ Holds(m)'
    BY <1>1, <1>3, <2>1, Contexts DEF BulkReads, Holds
  <2>7. Current(m)'
    BY <1>1, <2>1, <2>2 DEF BulkReads, Current, NoRaceInv, Main, QueueInv
  <2>8. leader = m => LeaderInv(m)'
    BY <2>6, <2>7 DEF BulkReads, NoRaceInv, LeaderInv, WillListen
  <2>9. \A n \in Mains \ {m} : Same(n)
    BY <1>1, <2>1 DEF BulkReads, Same
  <2> QED  BY <2>5, <2>8, <2>9, MemoryOnly DEF BulkReads
<1> QED  BY <1>2, <1>3

\* A retry starts when its timer fires.
LEMMA TimerFiresKeeps ==
    ASSUME TypeInv, NoRaceInv, Calm, NEW m \in Mains, TimerFires(m)
    PROVE  NoRaceInv'
<1>1. PICK t \in timers[m] :
        /\ timers' = [timers EXCEPT ![m] = @ \ {t}]
        /\ SetCall(m, "retry", Call(t.data, m))
  BY DEF TimerFires
<1>2. t.data \in Data
  BY DEF TypeInv, QueueTypes, Timers
<1> DEFINE call == Call(t.data, m)
<1>3. /\ call # NoCall
      /\ adds'[m]["retry"] = call
      /\ \A d \in AddContexts \ {"retry"} : adds[m][d] = NoCall /\ adds'[m][d] = NoCall
      /\ \A n \in Mains \ {m} : adds'[n] = adds[n]
      /\ \A d \in RemoveContexts : removals'[m][d] = "no"
  BY <1>1, <1>2, Contexts, CallBegins
<1>4. /\ call.step = "prepare" /\ call.data = t.data /\ call.tracked
      /\ call.lead <=> leader = m
  BY <1>2, CallTypesOf
<1> HIDE DEF call
<1>5. queued[m] /\ timers'[m] = {} /\ ~bulk[m]
  BY <1>1 DEF NoRaceInv, Main, QueueInv, MapInv, TypeInv, QueueTypes
<1>6. Main(m)'
  <2>1. registered[m] = None
    BY <1>5 DEF NoRaceInv, Main, MapInv
  <2>2. AddsInv(m)'
    BY <1>3, <1>4, <1>5, <2>1 DEF TimerFires, AddsInv, AddInv
  <2>3. RemovalsInv(m)' /\ MapInv(m)'
    BY <1>3 DEF TimerFires, NoRaceInv, Main, RemovalsInv, MapInv
  <2>4. QueueInv(m)'
    BY <1>3, <1>5, Contexts DEF TimerFires, QueueInv
  <2> QED  BY <2>2, <2>3, <2>4 DEF Main
<1>7. leader = m => LeaderInv(m)'
  <2>1. Holds(m) /\ Holds(m)'
    BY <1>3, <1>5, Contexts DEF TimerFires, Holds
  <2>2. Current(m) => Current(m)'
    BY <1>3, <1>4, <1>5 DEF TimerFires, Current
  <2> QED  BY <2>1, <2>2 DEF TimerFires, NoRaceInv, LeaderInv, WillListen
<1>8. \A n \in Mains \ {m} : Same(n)
  BY <1>1, <1>3 DEF TimerFires, Same, TypeInv, QueueTypes
<1> QED  BY <1>6, <1>7, <1>8, MemoryOnly DEF TimerFires

\* A trigger breaks: it is taken off the map, and queued with the version it had.
LEMMA TriggerBreaksKeeps ==
    ASSUME TypeInv, NoRaceInv, Calm, NEW m \in Mains, TriggerBreaks(m)
    PROVE  NoRaceInv'
<1>1. /\ registered[m] # None /\ ~bulk[m] /\ ~queued[m]
      /\ \A c \in AddContexts : adds[m][c] = NoCall
      /\ leader = m
  BY DEF TriggerBreaks, NoRaceInv, Main, MapInv, AddsInv, AddInv
<1>2. /\ registered'[m] = None /\ removals'[m]["failure"] = "closing"
      /\ \A n \in Mains \ {m} : registered'[n] = registered[n] /\ removals'[n] = removals[n]
      /\ \A c \in RemoveContexts \ {"failure"} : removals'[m][c] = removals[m][c]
  BY <1>1, Contexts, RemovalBegins DEF TriggerBreaks
<1>3. \A c \in RemoveContexts \ {"failure"} : removals'[m][c] = "no" /\ removals[m][c] = "no"
  BY <1>2, Contexts DEF Calm, OneCall
<1>4. /\ queued'[m] /\ timers'[m] = {[data |-> registered[m], held |-> TRUE]}
      /\ \A n \in Mains \ {m} : queued'[n] = queued[n] /\ timers'[n] = timers[n]
  BY Enqueued DEF TriggerBreaks
<1>5. Main(m)'
  <2>1. RemovalsInv(m)'
    BY <1>2, <1>3, Contexts DEF RemovalsInv
  <2> QED  BY <1>1, <1>2, <1>4, <2>1, QueuedMain DEF TriggerBreaks
<1>6. LeaderInv(m)'
  <2>1. Holds(m) /\ Holds(m)'
    BY <1>1, <1>3, <1>4, Contexts DEF TriggerBreaks, Holds
  <2>2. Current(m) => Current(m)'
    BY <1>1, <1>2, <1>4 DEF TriggerBreaks, Current
  <2> QED  BY <1>1, <2>1, <2>2 DEF TriggerBreaks, NoRaceInv, LeaderInv, WillListen
<1>7. \A n \in Mains \ {m} : Same(n)
  BY <1>2, <1>4 DEF TriggerBreaks, Same
<1> QED  BY <1>5, <1>6, <1>7, MemoryOnly DEF TriggerBreaks

\* The handler's removal begins: the leader has had no retry in its queue.
LEMMA HandlerRemovesKeeps ==
    ASSUME TypeInv, NoRaceInv, Calm, NEW m \in Mains, HandlerRemoves(m)
    PROVE  NoRaceInv'
<1>1. /\ ~queued[m] /\ \A c \in AddContexts : adds[m][c] = NoCall
      /\ removals[m]["handler"] = "asked" /\ multiMain
  BY Contexts DEF HandlerRemoves, Calm, NoRaceInv, OneCall, Main, RemovalsInv
<1>2. /\ registered'[m] = None /\ removals'[m]["handler"] \in {"no", "closing"}
      /\ \A n \in Mains \ {m} : registered'[n] = registered[n] /\ removals'[n] = removals[n]
      /\ \A c \in RemoveContexts \ {"handler"} : removals'[m][c] = removals[m][c]
  BY Contexts, RemovalBegins DEF HandlerRemoves
<1>3. \A c \in RemoveContexts \ {"handler"} : removals[m][c] = "no"
  BY <1>1, Contexts DEF NoRaceInv, OneCall
<1>4. Main(m)'
  <2>1. AddsInv(m)' /\ QueueInv(m)' /\ MapInv(m)'
    BY <1>1, <1>2 DEF HandlerRemoves, NoRaceInv, Main, AddsInv, AddInv, QueueInv, MapInv
  <2>2. RemovalsInv(m)'
    BY <1>1, <1>2, <1>3, Contexts DEF HandlerRemoves, RemovalsInv
  <2> QED  BY <2>1, <2>2 DEF Main
<1>5. leader = m => LeaderInv(m)'
  <2>1. Holds(m)' <=> Holds(m)
    BY <1>1, <1>2 DEF HandlerRemoves, Holds
  <2>2. Current(m) => Current(m)'
    BY <1>2 DEF HandlerRemoves, Current
  <2> QED  BY <2>1, <2>2 DEF HandlerRemoves, NoRaceInv, LeaderInv, WillListen
<1>6. \A n \in Mains \ {m} : Same(n)
  BY <1>2 DEF HandlerRemoves, Same
<1> QED  BY <1>4, <1>5, <1>6, MemoryOnly DEF HandlerRemoves

\* The removal a user asked of a single main begins, and forgets the queue as well.
LEMMA UserRemovesKeeps ==
    ASSUME TypeInv, NoRaceInv, Calm, NEW m \in Mains, UserRemoves(m)
    PROVE  NoRaceInv'
<1>1. /\ \A c \in AddContexts : adds[m][c] = NoCall
      /\ ~multiMain /\ leader = m /\ op.step = "removing"
  BY Contexts DEF UserRemoves, NoRaceInv, OneCall, Main, RemovalsInv
<1>2. /\ registered'[m] = None /\ removals'[m]["user"] \in {"no", "closing"}
      /\ \A n \in Mains \ {m} : registered'[n] = registered[n] /\ removals'[n] = removals[n]
      /\ \A c \in RemoveContexts \ {"user"} : removals'[m][c] = removals[m][c]
  BY Contexts, RemovalBegins DEF UserRemoves
<1>3. \A c \in RemoveContexts \ {"user"} : removals[m][c] = "no"
  BY Contexts DEF UserRemoves, NoRaceInv, OneCall
<1>4. /\ ~queued'[m] /\ timers'[m] = {}
      /\ \A n \in Mains \ {m} : queued'[n] = queued[n] /\ timers'[n] = timers[n]
  BY Unqueued DEF UserRemoves
<1>5. Main(m)'
  <2>1. AddsInv(m)' /\ QueueInv(m)' /\ MapInv(m)'
    BY <1>1, <1>2, <1>4 DEF UserRemoves, NoRaceInv, Main, AddsInv, AddInv, QueueInv, MapInv
  <2>2. RemovalsInv(m)'
    BY <1>1, <1>2, <1>3, <1>4, Contexts DEF UserRemoves, RemovalsInv
  <2> QED  BY <2>1, <2>2 DEF Main
<1>6. LeaderInv(m)'
  <2>1. Holds(m)' => Holds(m)
    BY <1>1, <1>2, <1>4 DEF UserRemoves, Holds
  <2>2. inbox[m] = <<>> /\ op # NoOp
    BY <1>1 DEF NoRaceInv, OpInv, NoOp
  <2> QED  BY <1>1, <2>1, <2>2 DEF UserRemoves, NoRaceInv, LeaderInv, WillListen
<1>7. \A n \in Mains \ {m} : Same(n)
  BY <1>2, <1>4 DEF UserRemoves, Same
<1> QED  BY <1>5, <1>6, <1>7, MemoryOnly DEF UserRemoves

\* A removal ends: nobody adds to the state object it drops.
LEMMA EndRemoveKeeps ==
    ASSUME TypeInv, NoRaceInv, Calm, NEW m \in Mains, NEW c \in RemoveContexts, EndRemove(m, c)
    PROVE  NoRaceInv'
<1>1. /\ \A d \in AddContexts : adds[m][d] = NoCall
      /\ \A d \in RemoveContexts \ {c} : removals[m][d] = "no"
      /\ registered[m] = None
      /\ c \in {"handler", "user"} => ~queued[m]
  BY DEF EndRemove, NoRaceInv, OneCall, Main, RemovalsInv
<1>2. Holders(m) = {}
  BY <1>1, Contexts DEF Holders
<1>3. adds' = adds
  BY <1>2 DEF EndRemove, TypeInv, CallTypes
<1>4. /\ registered' = registered /\ orphans' = orphans
      /\ removals' = [removals EXCEPT ![m][c] = "no"]
  BY <1>1 DEF EndRemove, TypeInv, CallTypes
<1>5. /\ \A d \in RemoveContexts : removals'[m][d] = "no"
      /\ \A n \in Mains \ {m} : removals'[n] = removals[n]
  BY <1>1, <1>4 DEF TypeInv, CallTypes
<1>6. Main(m)'
  <2>1. AddsInv(m)'
    BY <1>1, <1>3 DEF AddsInv, AddInv
  <2>2. RemovalsInv(m)'
    BY <1>5 DEF RemovalsInv
  <2>3. QueueInv(m)'
    BY <1>3 DEF EndRemove, NoRaceInv, Main, QueueInv
  <2>4. MapInv(m)'
    BY <1>4 DEF EndRemove, NoRaceInv, Main, MapInv
  <2> QED  BY <2>1, <2>2, <2>3, <2>4 DEF Main
<1>7. leader = m => LeaderInv(m)'
  <2>1. Holds(m)' <=> Holds(m)
    BY <1>1, <1>3, <1>4, <1>5, Contexts DEF EndRemove, Holds
  <2>2. Current(m) => Current(m)'
    BY <1>3, <1>4 DEF EndRemove, Current
  <2> QED  BY <2>1, <2>2 DEF EndRemove, NoRaceInv, LeaderInv, WillListen
<1>8. \A n \in Mains \ {m} : Same(n)
  BY <1>3, <1>4, <1>5 DEF EndRemove, Same
<1> QED  BY <1>3, <1>6, <1>7, <1>8, MemoryOnly DEF EndRemove

\* An activation at start-up or takeover fails, and is queued.
LEMMA BulkFailsKeeps ==
    ASSUME TypeInv, NoRaceInv, Calm, NEW m \in Mains, BulkFails(m)
    PROVE  NoRaceInv'
<1> DEFINE call == adds[m]["bulk"]
<1>1. /\ call # NoCall
      /\ \A d \in AddContexts : adds'[m][d] = NoCall
      /\ \A n \in Mains \ {m} : adds'[n] = adds[n]
      /\ \A d \in RemoveContexts : removals[m][d] = "no"
  BY Contexts, CallEnds DEF BulkFails, Throws
<1>2. registered[m] = None /\ ~bulk[m]
  BY <1>1, Contexts DEF NoRaceInv, Main, AddsInv, AddInv
<1>3. /\ queued'[m] /\ timers'[m] = {[data |-> call.data, held |-> TRUE]}
      /\ \A n \in Mains \ {m} : queued'[n] = queued[n] /\ timers'[n] = timers[n]
  BY Enqueued DEF BulkFails
<1>4. Main(m)'
  <2>1. RemovalsInv(m)'
    BY <1>1 DEF BulkFails, Throws, RemovalsInv
  <2> QED  BY <1>1, <1>2, <1>3, <2>1, QueuedMain DEF BulkFails, Throws
<1>5. leader = m => LeaderInv(m)'
  <2>1. Holds(m) /\ Holds(m)'
    BY <1>1, <1>3, Contexts DEF BulkFails, Throws, Holds
  <2>2. Current(m) => Current(m)'
    BY <1>1, <1>2, <1>3, Contexts DEF BulkFails, Throws, Current
  <2> QED  BY <2>1, <2>2 DEF BulkFails, Throws, NoRaceInv, LeaderInv, WillListen
<1>6. \A n \in Mains \ {m} : Same(n)
  BY <1>1, <1>3 DEF BulkFails, Throws, Same
<1> QED  BY <1>4, <1>5, <1>6, MemoryOnly DEF BulkFails, Throws

\* A retry fails, and sets its timer again.
LEMMA RetryFailsKeeps ==
    ASSUME TypeInv, NoRaceInv, Calm, NEW m \in Mains, RetryFails(m)
    PROVE  NoRaceInv'
<1> DEFINE call == adds[m]["retry"]
<1>1. /\ call # NoCall
      /\ \A d \in AddContexts : adds'[m][d] = NoCall
      /\ \A n \in Mains \ {m} : adds'[n] = adds[n]
      /\ \A d \in RemoveContexts : removals[m][d] = "no"
  BY Contexts, CallEnds DEF RetryFails, Throws
<1>2. registered[m] = None /\ ~bulk[m] /\ queued[m] /\ timers[m] = {}
  BY <1>1, Contexts DEF NoRaceInv, Main, AddsInv, AddInv, QueueInv
<1>3. /\ queued' = queued /\ timers'[m] = {[data |-> call.data, held |-> TRUE]}
      /\ \A n \in Mains \ {m} : timers'[n] = timers[n]
  BY <1>2, Rearmed DEF RetryFails
<1>4. Main(m)'
  <2>1. RemovalsInv(m)'
    BY <1>1 DEF RetryFails, Throws, RemovalsInv
  <2> QED  BY <1>1, <1>2, <1>3, <2>1, QueuedMain DEF RetryFails, Throws
<1>5. leader = m => LeaderInv(m)'
  <2>1. Holds(m) /\ Holds(m)'
    BY <1>1, <1>2, <1>3, Contexts DEF RetryFails, Throws, Holds
  <2>2. Current(m) => Current(m)'
    BY <1>1, <1>2, <1>3, Contexts DEF RetryFails, Throws, Current
  <2> QED  BY <2>1, <2>2 DEF RetryFails, Throws, NoRaceInv, LeaderInv, WillListen
<1>6. \A n \in Mains \ {m} : Same(n)
  BY <1>1, <1>3 DEF RetryFails, Throws, Same
<1> QED  BY <1>4, <1>5, <1>6, MemoryOnly DEF RetryFails, Throws

\* An activation that was announced fails: it is queued, or the workflow is deactivated.
LEMMA HandlerFailsKeeps ==
    ASSUME TypeInv, NoRaceInv, Calm, NEW m \in Mains, HandlerFails(m)
    PROVE  NoRaceInv'
<1> DEFINE call == adds[m]["handler"]
<1>1. /\ call # NoCall
      /\ \A d \in AddContexts : adds'[m][d] = NoCall
      /\ \A n \in Mains \ {m} : adds'[n] = adds[n]
      /\ \A d \in RemoveContexts : removals[m][d] = "no"
  BY Contexts, CallEnds DEF HandlerFails, Throws
<1>2. registered[m] = None /\ ~bulk[m] /\ ~queued[m] /\ leader = m /\ multiMain
  BY <1>1, Contexts DEF NoRaceInv, Main, AddsInv, AddInv
<1>3. RemovalsInv(m)'
  BY <1>1 DEF HandlerFails, Throws, RemovalsInv
<1>4. Holds(m)
  BY <1>1, Contexts DEF Holds
<1>5. OpInv'
  BY <1>2 DEF HandlerFails, Throws, NoRaceInv, OpInv
<1>6. CASE Enqueue(m, active) /\ UNCHANGED active
  <2>1. /\ queued'[m] /\ timers'[m] = {[data |-> active, held |-> TRUE]}
        /\ \A n \in Mains \ {m} : queued'[n] = queued[n] /\ timers'[n] = timers[n]
    BY <1>6, Enqueued
  <2>2. Main(m)'
    BY <1>1, <1>2, <1>3, <2>1, QueuedMain DEF HandlerFails, Throws
  <2>3. Holds(m)'
    BY <1>1, <2>1, Contexts DEF HandlerFails, Throws, Holds
  <2>4. Current(m)'
    BY <1>1, <1>2, <1>6, <2>1 DEF HandlerFails, Throws, Current
  <2>5. LeaderInv(m)'
    BY <1>2, <1>4, <1>6, <2>3, <2>4 DEF HandlerFails, Throws, NoRaceInv, LeaderInv, WillListen
  <2>6. \A n \in Mains \ {m} : Same(n)
    BY <1>1, <2>1 DEF HandlerFails, Throws, Same
  <2> QED  BY <1>5, <1>6, <2>2, <2>5, <2>6, MemoryOnly DEF HandlerFails, Throws
<1>7. CASE active' = None /\ UNCHANGED <<queued, timers>>
  <2>1. Main(m)'
    <3>1. AddsInv(m)'
      BY <1>1 DEF AddsInv, AddInv
    <3>2. QueueInv(m)' /\ MapInv(m)'
      BY <1>2, <1>7 DEF HandlerFails, Throws, NoRaceInv, Main, QueueInv, MapInv
    <3> QED  BY <1>3, <3>1, <3>2 DEF Main
  <2>2. ~Holds(m)'
    BY <1>1, <1>2, <1>7 DEF HandlerFails, Throws, Holds
  <2>3. ~WillListen(m)'
    <3>1. inbox[m] # <<>> /\ inbox[m][Len(inbox[m])] = "add" => active = None
      BY <1>2, <1>7 DEF Calm, Announced
    <3>2. inbox[m] # <<>> /\ active = None => inbox[m][Len(inbox[m])] # "add"
      BY <1>2 DEF NoRaceInv, LeaderInv, WillListen
    <3> QED  BY <2>2, <3>1, <3>2 DEF HandlerFails, Throws, WillListen
  <2>4. LeaderInv(m)'
    <3>1. Alternates(inbox'[m]) /\ inbox' = inbox
      BY <1>2 DEF HandlerFails, Throws, NoRaceInv, LeaderInv
    <3> QED  BY <1>7, <2>2, <2>3, <3>1 DEF LeaderInv, Alternates
  <2>5. \A n \in Mains \ {m} : Same(n) /\ inbox'[n] = inbox[n]
    BY <1>1, <1>7 DEF HandlerFails, Throws, Same
  <2> QED  BY <1>2, <1>5, <2>1, <2>4, <2>5, OneMain DEF HandlerFails, Throws
<1> QED  BY <1>6, <1>7 DEF HandlerFails

\* An activation of a single main fails: the request goes on as a deactivation.
LEMMA UserFailsKeeps ==
    ASSUME TypeInv, NoRaceInv, Calm, NEW m \in Mains, UserFails(m)
    PROVE  NoRaceInv'
<1> DEFINE call == adds[m]["user"]
<1>1. /\ call # NoCall
      /\ \A d \in AddContexts : adds'[m][d] = NoCall
      /\ \A n \in Mains \ {m} : adds'[n] = adds[n]
      /\ \A d \in RemoveContexts : removals[m][d] = "no"
  BY Contexts, CallEnds DEF UserFails, Throws
<1>2. registered[m] = None /\ ~bulk[m] /\ ~queued[m] /\ leader = m /\ ~multiMain
  BY <1>1, Contexts DEF NoRaceInv, Main, AddsInv, AddInv
<1>3. op \in Ops /\ op # NoOp
  BY <1>1, Contexts DEF TypeInv, CallInv, OtherTypes
<1>4. /\ op' # NoOp /\ op'.kind = "deactivate" /\ op'.main = op.main /\ op'.step = "remove"
      /\ op'.version = None
  BY <1>3 DEF UserFails, RollBack, Ops, NoOp
<1>5. Main(m)'
  <2>1. AddsInv(m)' /\ RemovalsInv(m)'
    BY <1>1 DEF UserFails, Throws, AddsInv, AddInv, RemovalsInv
  <2>2. QueueInv(m)' /\ MapInv(m)'
    BY <1>2 DEF UserFails, Throws, NoRaceInv, Main, QueueInv, MapInv
  <2> QED  BY <2>1, <2>2 DEF Main
<1>6. LeaderInv(m)'
  <2>1. ~Holds(m)'
    BY <1>1, <1>2 DEF UserFails, Throws, Holds
  <2>2. inbox'[m] = <<>>
    BY <1>2 DEF UserFails, Throws, NoRaceInv, OpInv
  <2>3. Alternates(<<>>)
    BY DEF Alternates
  <2> QED  BY <1>2, <1>4, <2>1, <2>2, <2>3 DEF NoRaceInv, LeaderInv, WillListen
<1>7. OpInv'
  BY <1>2, <1>3, <1>4 DEF UserFails, Throws, NoRaceInv, OpInv
<1>8. \A n \in Mains \ {m} : Same(n) /\ inbox'[n] = inbox[n]
  BY <1>1 DEF UserFails, Throws, Same
<1>9. \A n \in Mains \ {m} : removals[n]["user"] = "no"
  BY <1>2, Contexts DEF NoRaceInv, Main, RemovalsInv
<1> QED  BY <1>2, <1>5, <1>6, <1>7, <1>8, <1>9, OneMain DEF UserFails, Throws

\* What is left of the commands when the first has arrived ...
LEMMA TailAlternates ==
    ASSUME NEW s \in Seq({"add", "remove"}), s # <<>>, Alternates(s)
    PROVE  /\ Tail(s) \in Seq({"add", "remove"}) /\ Alternates(Tail(s))
           /\ Head(s) = s[1]
           /\ Tail(s) # <<>> => /\ Tail(s)[Len(Tail(s))] = s[Len(s)]
                                /\ Tail(s)[1] = s[2] /\ (s[1] = "add" => s[2] = "remove")
           /\ Tail(s) = <<>> => s[Len(s)] = s[1]
<1>1. /\ Tail(s) \in Seq({"add", "remove"}) /\ Len(Tail(s)) = Len(s) - 1 /\ Len(s) \in Nat \ {0}
      /\ \A k \in 1 .. Len(s) - 1 : Tail(s)[k] = s[k + 1]
  OBVIOUS
<1>2. Alternates(Tail(s))
  <2> SUFFICES ASSUME NEW k \in 1 .. Len(Tail(s)) - 1, Tail(s)[k] = "add"
               PROVE  Tail(s)[k + 1] = "remove"
    BY DEF Alternates
  <2>1. k + 1 \in 1 .. Len(s) - 1 /\ k \in 1 .. Len(s) - 1
    BY <1>1
  <2> QED  BY <1>1, <2>1 DEF Alternates
<1>3. CASE Tail(s) = <<>>
  <2>1. Len(s) = 1
    BY <1>1, <1>3
  <2> QED  BY <1>1, <1>2, <1>3, <2>1
<1>4. CASE Tail(s) # <<>>
  <2>1. Len(s) - 1 \in 1 .. Len(s) - 1 /\ 1 \in 1 .. Len(s) - 1
    BY <1>1, <1>4
  <2>2. s[1] = "add" => s[2] = "remove"
    BY <2>1 DEF Alternates
  <2> QED  BY <1>1, <1>2, <1>4, <2>1, <2>2
<1> QED  BY <1>3, <1>4

\* ... and what they are when another one is announced.
LEMMA AppendAlternates ==
    ASSUME NEW s \in Seq({"add", "remove"}), NEW x \in {"add", "remove"}, Alternates(s),
           x = "add" => s = <<>> \/ s[Len(s)] # "add"
    PROVE  LET t == Append(s, x)
           IN  /\ t # <<>> /\ t[Len(t)] = x /\ Alternates(t)
               /\ s # <<>> => t[1] = s[1]
               /\ s = <<>> => t[1] = x
<1> DEFINE t == Append(s, x)
<1>1. /\ t \in Seq({"add", "remove"}) /\ Len(t) = Len(s) + 1 /\ Len(s) \in Nat
      /\ t[Len(s) + 1] = x /\ \A k \in 1 .. Len(s) : t[k] = s[k] /\ s[k] \in {"add", "remove"}
  OBVIOUS
<1> HIDE DEF t
<1>2. Alternates(t)
  <2> SUFFICES ASSUME NEW k \in 1 .. Len(t) - 1, t[k] = "add" PROVE t[k + 1] = "remove"
    BY DEF Alternates
  <2>1. CASE k = Len(s)
    BY <1>1, <2>1
  <2>2. CASE k # Len(s)
    <3>1. k \in 1 .. Len(s) - 1 /\ k + 1 \in 1 .. Len(s)
      BY <1>1, <2>2
    <3> QED  BY <1>1, <3>1 DEF Alternates
  <2> QED  BY <2>1, <2>2
<1>3. t # <<>>
  BY <1>1
<1>4. s # <<>> => t[1] = s[1]
  BY <1>1
<1>5. s = <<>> => t[1] = x
  BY <1>1
<1> QED  BY <1>1, <1>2, <1>3, <1>4, <1>5 DEF t

\* A command arrives.
LEMMA ReceiveKeeps ==
    ASSUME TypeInv, NoRaceInv, Calm, NEW m \in Mains, Receive(m)
    PROVE  NoRaceInv'
<1>1. /\ inbox[m] # <<>> /\ inbox'[m] = Tail(inbox[m])
      /\ \A n \in Mains \ {m} : inbox'[n] = inbox[n]
      /\ inbox[m] \in Seq({"add", "remove"})
  BY DEF Receive, TypeInv, OtherTypes
<1>2. multiMain
  BY <1>1 DEF NoRaceInv, OpInv
<1>3. OpInv'
  BY <1>2 DEF Receive, NoRaceInv, OpInv
<1>4. CASE leader # m /\ UNCHANGED <<adds, removals>>
  <2>1. \A n \in Mains : Same(n)
    BY <1>4 DEF Receive, Same
  <2>2. Main(m)'
    BY <2>1, SameMain DEF Receive, NoRaceInv
  <2> QED  BY <1>1, <1>3, <1>4, <2>1, <2>2, OneMain DEF Receive
<1>5. ASSUME leader = m
      PROVE  /\ ~bulk[m]
             /\ Alternates(inbox'[m]) /\ Head(inbox[m]) = inbox[m][1]
             /\ inbox'[m] # <<>> => /\ inbox'[m][Len(inbox'[m])] = inbox[m][Len(inbox[m])]
                                    /\ inbox'[m][1] = inbox[m][2]
                                    /\ (inbox[m][1] = "add" => inbox[m][2] = "remove")
             /\ inbox'[m] = <<>> => inbox[m][Len(inbox[m])] = inbox[m][1]
  <2>1. ~bulk[m]
    BY <1>1, <1>5 DEF Calm, Requested, LeaderReads
  <2>2. Alternates(inbox[m])
    BY <1>5 DEF NoRaceInv, LeaderInv
  <2> QED  BY <1>1, <2>1, <2>2, TailAlternates
<1>6. CASE /\ leader = m /\ Head(inbox[m]) = "add"
           /\ SetCall(m, "handler", Call(active, m)) /\ UNCHANGED removals
  <2> DEFINE call == Call(active, m)
  <2>1. /\ call # NoCall
        /\ adds'[m]["handler"] = call
        /\ \A d \in AddContexts \ {"handler"} : adds[m][d] = NoCall /\ adds'[m][d] = NoCall
        /\ \A n \in Mains \ {m} : adds'[n] = adds[n]
        /\ \A d \in RemoveContexts : removals'[m][d] = "no" /\ removals[m][d] = "no"
    BY <1>6, Contexts, CallBegins DEF TypeInv, OtherTypes
  <2>2. /\ call.step = "prepare" /\ call.data = active /\ call.tracked /\ call.lead
    BY <1>6, CallTypesOf DEF TypeInv, OtherTypes
  <2> HIDE DEF call
  <2>3. ~Holds(m)
    BY <1>1, <1>5, <1>6 DEF NoRaceInv, LeaderInv
  <2>4. registered[m] = None /\ ~queued[m] /\ timers[m] = {}
    BY <2>1, <2>3, Contexts DEF Holds, NoRaceInv, Main, QueueInv
  <2>5. Main(m)'
    <3>1. AddsInv(m)'
      BY <1>2, <1>5, <1>6, <2>1, <2>2, <2>4 DEF Receive, AddsInv, AddInv
    <3>2. RemovalsInv(m)' /\ QueueInv(m)' /\ MapInv(m)'
      BY <1>6, <2>1, <2>4 DEF Receive, NoRaceInv, Main, RemovalsInv, QueueInv, MapInv
    <3> QED  BY <3>1, <3>2 DEF Main
  <2>6. Holds(m)'
    BY <2>1, Contexts DEF Holds
  <2>7. Current(m)'
    BY <2>1, <2>2, <2>4 DEF Receive, Current
  <2>8. WillListen(m) <=> WillListen(m)'
    BY <1>1, <1>5, <1>6, <2>6 DEF WillListen
  <2>9. LeaderInv(m)'
    BY <1>5, <1>6, <2>6, <2>7, <2>8 DEF Receive, NoRaceInv, LeaderInv
  <2>10. \A n \in Mains \ {m} : Same(n)
    BY <1>6, <2>1 DEF Receive, Same
  <2> QED  BY <1>1, <1>3, <1>6, <2>5, <2>9, <2>10, OneMain DEF Receive
<1>7. CASE /\ leader = m /\ Head(inbox[m]) = "remove"
           /\ removals' = [removals EXCEPT ![m]["handler"] = "asked"] /\ UNCHANGED adds
  <2>1. /\ removals'[m]["handler"] = "asked"
        /\ \A d \in RemoveContexts \ {"handler"} : removals'[m][d] = removals[m][d]
        /\ \A n \in Mains \ {m} : removals'[n] = removals[n]
    BY <1>7, Contexts DEF TypeInv, CallTypes
  <2>2. Main(m)'
    <3>1. RemovalsInv(m)'
      BY <1>2, <2>1 DEF Receive, NoRaceInv, Main, RemovalsInv
    <3>2. AddsInv(m)' /\ QueueInv(m)' /\ MapInv(m)'
      BY <1>7 DEF Receive, NoRaceInv, Main, AddsInv, AddInv, QueueInv, MapInv
    <3> QED  BY <3>1, <3>2 DEF Main
  <2>3. ~Holds(m)'
    BY <1>5, <1>7, <2>1 DEF Receive, Holds
  <2>4. WillListen(m)' <=> WillListen(m)
    BY <1>1, <1>5, <1>7, <2>3 DEF WillListen
  <2>5. LeaderInv(m)'
    BY <1>5, <1>7, <2>3, <2>4 DEF Receive, NoRaceInv, LeaderInv
  <2>6. \A n \in Mains \ {m} : Same(n)
    BY <1>7, <2>1 DEF Receive, Same
  <2> QED  BY <1>1, <1>3, <1>7, <2>2, <2>5, <2>6, OneMain DEF Receive
<1> QED  BY <1>4, <1>6, <1>7 DEF Receive

-----------------------------------------------------------------------------
(* The leader changes.                                                     *)

\* A leader steps down that activates nothing: it forgets its triggers and its retry.
LEMMA StepDownKeeps ==
    ASSUME TypeInv, NoRaceInv, Calm, NEW m \in Mains, StepDown(m)
    PROVE  NoRaceInv'
<1>1. leader = m /\ leader' = None /\ None \notin Mains /\ multiMain
  BY ActivationAssumption DEF StepDown
<1>2. \A c \in AddContexts : adds[m][c] = NoCall
  BY <1>1 DEF StepDown, Calm
<1>3. /\ registered'[m] = None /\ removals'[m]["stepdown"] \in {"no", "closing"}
      /\ \A n \in Mains \ {m} : registered'[n] = registered[n] /\ removals'[n] = removals[n]
      /\ \A c \in RemoveContexts \ {"stepdown"} : removals'[m][c] = removals[m][c]
  BY Contexts, RemovalBegins DEF StepDown
<1>4. /\ ~queued'[m] /\ timers'[m] = {}
      /\ \A n \in Mains \ {m} : queued'[n] = queued[n] /\ timers'[n] = timers[n]
  BY Unqueued DEF StepDown
<1>5. Main(m)'
  <2>1. AddsInv(m)' /\ QueueInv(m)' /\ MapInv(m)'
    BY <1>1, <1>2, <1>3, <1>4 DEF StepDown, NoRaceInv, Main, AddsInv, AddInv, QueueInv, MapInv
  <2>2. RemovalsInv(m)'
    <3>1. ASSUME NEW c \in RemoveContexts \ {"stepdown"}
          PROVE  /\ removals'[m][c] = "asked" => c \in {"handler", "user"}
                 /\ removals'[m][c] # "no" /\ c = "handler" => multiMain'
                 /\ removals'[m][c] # "no" => c # "user"
      BY <1>1, <1>3 DEF StepDown, NoRaceInv, Main, RemovalsInv
    <3> QED  BY <1>1, <1>3, <1>4, <3>1 DEF RemovalsInv
  <2> QED  BY <2>1, <2>2 DEF Main
<1>6. \A n \in Mains \ {m} : Main(n)'
  <2> SUFFICES ASSUME NEW n \in Mains \ {m} PROVE Main(n)'
    OBVIOUS
  <2>1. Same(n) /\ leader # n /\ leader' # n
    BY <1>1, <1>3, <1>4 DEF StepDown, Same
  <2> QED  BY <2>1, SameMain DEF StepDown, NoRaceInv
<1>7. OpInv'
  BY <1>1 DEF StepDown, NoRaceInv, OpInv
<1>8. \A n \in Mains : OneCall(n)' /\ leader' # n
  BY <1>1 DEF Calm
<1> QED  BY <1>5, <1>6, <1>7, <1>8 DEF NoRaceInv

\* The new leader reads what is active: nothing is requested or announced, and it has
\* neither a trigger nor a retry.
LEMMA TakeOverKeeps ==
    ASSUME TypeInv, NoRaceInv, Calm, NEW m \in Mains, TakeOver(m)
    PROVE  NoRaceInv'
<1>1. leader = None /\ leader' = m /\ None \notin Mains /\ leader # m /\ multiMain
  BY ActivationAssumption DEF TakeOver
<1>2. ~BulkInProgress(m) /\ ~queued[m]
  BY <1>1 DEF Calm
<1>3. op = NoOp /\ \A n \in Mains : inbox[n] = <<>>
  BY <1>1 DEF Calm, Requested
<1>4. registered[m] = None /\ \A c \in AddContexts : adds[m][c] = NoCall
  <2>1. registered[m] = None
    BY <1>1 DEF NoRaceInv, Main, MapInv
  <2>2. /\ adds[m]["bulk"] = NoCall /\ adds[m]["retry"] = NoCall
        /\ adds[m]["handler"] = NoCall /\ adds[m]["user"] = NoCall
    BY <1>1, <1>2, Contexts DEF BulkInProgress, NoRaceInv, Main, AddsInv, AddInv
  <2> QED  BY <2>1, <2>2 DEF AddContexts
<1>5. bulk'[m] /\ \A n \in Mains \ {m} : bulk'[n] = bulk[n]
  BY <1>2 DEF TakeOver, TypeInv, OtherTypes
<1>6. Main(m)'
  <2>1. AddsInv(m)' /\ QueueInv(m)' /\ MapInv(m)'
    BY <1>2, <1>4 DEF TakeOver, memory, NoRaceInv, Main, AddsInv, AddInv, QueueInv, MapInv
  <2>2. RemovalsInv(m)'
    BY <1>1 DEF TakeOver, memory, NoRaceInv, Main, RemovalsInv
  <2> QED  BY <2>1, <2>2 DEF Main
<1>7. \A n \in Mains \ {m} : Main(n)'
  <2> SUFFICES ASSUME NEW n \in Mains \ {m} PROVE Main(n)'
    OBVIOUS
  <2>1. Same(n) /\ leader # n /\ leader' # n
    BY <1>1, <1>5 DEF TakeOver, memory, Same
  <2> QED  BY <2>1, SameMain DEF TakeOver, NoRaceInv
<1>8. LeaderInv(m)'
  <2>1. Holds(m)' <=> active # None
    BY <1>2, <1>4, <1>5 DEF TakeOver, memory, Holds
  <2>2. Current(m)'
    BY <1>2, <1>4 DEF TakeOver, memory, Current, NoRaceInv, Main, QueueInv
  <2>3. Alternates(<<>>) /\ NoOp.step = "none"
    BY DEF Alternates, NoOp
  <2> QED  BY <1>3, <2>1, <2>2, <2>3 DEF TakeOver, LeaderInv, WillListen
<1>9. OpInv'
  BY <1>1 DEF TakeOver, NoRaceInv, OpInv
<1>10. \A n \in Mains : OneCall(n)' /\ (leader' = n => n = m)
  BY <1>1 DEF Calm
<1> QED  BY <1>6, <1>7, <1>8, <1>9, <1>10 DEF NoRaceInv

\* A main crashes that carries out no request: what it had in memory is gone.
LEMMA CrashKeeps ==
    ASSUME TypeInv, NoRaceInv, Calm, NEW m \in Mains, Crash(m), ~(op # NoOp /\ op.main = m)
    PROVE  NoRaceInv'
<1>1. /\ registered'[m] = None /\ orphans'[m] = {} /\ ~queued'[m] /\ timers'[m] = {} /\ bulk'[m]
      /\ \A c \in AddContexts : adds'[m][c] = NoCall
      /\ \A c \in RemoveContexts : removals'[m][c] = "no"
      /\ inbox'[m] = <<>>
  BY DEF Crash, TypeInv, CallTypes, QueueTypes, OtherTypes
<1>2. \A n \in Mains \ {m} : Same(n) /\ inbox'[n] = inbox[n]
  BY DEF Crash, Same, TypeInv, CallTypes, QueueTypes, OtherTypes
<1>3. op' = op /\ None \notin Mains
  BY ActivationAssumption DEF Crash
<1>4. Main(m)'
  BY <1>1 DEF Main, AddsInv, AddInv, RemovalsInv, QueueInv, MapInv
<1>5. \A n \in Mains \ {m} : Main(n)'
  <2> SUFFICES ASSUME NEW n \in Mains \ {m} PROVE Main(n)'
    OBVIOUS
  <2>1. leader' = n <=> leader = n
    BY <1>3 DEF Crash
  <2> QED  BY <1>2, <1>3, <2>1, SameMain DEF Crash, NoRaceInv
<1>6. OpInv'
  BY <1>1, <1>2, <1>3 DEF Crash, NoRaceInv, OpInv
<1>7. ASSUME NEW n \in Mains, leader' = n PROVE LeaderInv(n)'
  <2>1. leader = n
    BY <1>3, <1>7 DEF Crash
  <2>2. CASE n # m
    BY <1>2, <1>3, <2>1, <2>2, SameLeader DEF Crash, NoRaceInv
  <2>3. CASE n = m
    <3>1. ~multiMain /\ op = NoOp
      BY <1>3, <1>7, <2>1, <2>3 DEF Crash, NoRaceInv, OpInv
    <3>2. Holds(m)' <=> active # None
      BY <1>1 DEF Crash, Holds
    <3>3. Current(m)'
      BY <1>1 DEF Current
    <3>4. Alternates(<<>>) /\ NoOp.step = "none"
      BY DEF Alternates, NoOp
    <3> QED  BY <1>1, <1>3, <2>3, <3>1, <3>2, <3>3, <3>4 DEF Crash, LeaderInv, WillListen
  <2> QED  BY <2>2, <2>3
<1>8. \A n \in Mains : OneCall(n)'
  BY DEF Calm
<1> QED  BY <1>4, <1>5, <1>6, <1>7, <1>8 DEF NoRaceInv

-----------------------------------------------------------------------------
(* Requests of users.                                                      *)

\* A step of the request in progress that leaves the memory of every main alone.
LEMMA RequestOnly ==
    ASSUME NoRaceInv, Calm, \A n \in Mains : Same(n), UNCHANGED <<multiMain, leader>>,
           \A n \in Mains : removals[n]["user"] # "no" => op'.step = op.step,
           OpInv', \A n \in Mains : leader = n => LeaderInv(n)'
    PROVE  NoRaceInv'
<1>1. \A n \in Mains : OneCall(n)'
  BY DEF Calm
<1>2. \A n \in Mains : Main(n)'
  BY SameMain DEF NoRaceInv
<1> QED  BY <1>1, <1>2 DEF NoRaceInv

\* Only the removal a request waits for is one that a user asked for.
LEMMA RemovedByRequest ==
    ASSUME NoRaceInv, NEW n \in Mains, removals[n]["user"] # "no"
    PROVE  op.step = "removing" /\ leader = n /\ ~multiMain
BY Contexts DEF NoRaceInv, Main, RemovalsInv

\* A request begins: one that needs no removal finds nothing active.
LEMMA RequestKeeps ==
    ASSUME TypeInv, NoRaceInv, Calm, NEW m \in Mains,
           (\E v \in Versions : Activate(m, v)) \/ Deactivate(m)
    PROVE  NoRaceInv'
<1>1. PICK kind \in {"activate", "deactivate"}, v \in Data :
        /\ kind = "activate" <=> v # None
        /\ \E step \in {"remove", "write"} :
             Request(kind, m, v, step) /\ (step = "write" => active = None)
  BY ActivationAssumption DEF Activate, Deactivate, Data
<1>2. PICK step \in {"remove", "write"} :
        Request(kind, m, v, step) /\ (step = "write" => active = None)
  BY <1>1
<1>3. op = NoOp /\ op.step = "none"
  BY <1>2 DEF Request, NoOp
<1>4. /\ op' # NoOp /\ op'.step = step /\ op'.main = m /\ op'.kind = kind /\ op'.version = v
  BY <1>2 DEF Request, NoOp
<1>5. ~multiMain => leader # None /\ m = leader
  BY <1>2 DEF Request, Up, NoRaceInv, OpInv
<1>6. OpInv'
  BY <1>1, <1>2, <1>4, <1>5 DEF Request, NoRaceInv, OpInv
<1>7. \A n \in Mains : Same(n) /\ removals[n]["user"] = "no"
  BY <1>2, <1>3, RemovedByRequest DEF Request, memory, Same
<1>8. ASSUME NEW n \in Mains, leader = n PROVE LeaderInv(n)'
  <2>1. LeaderInv(n)
    BY <1>8 DEF NoRaceInv
  <2>2. (WillListen(n)' <=> WillListen(n)) /\ (Holds(n)' <=> Holds(n)) /\ (Current(n)' <=> Current(n))
    BY <1>2 DEF Request, memory, WillListen, Holds, Current
  <2> QED  BY <1>2, <1>4, <2>1, <2>2 DEF Request, LeaderInv
<1> QED  BY <1>2, <1>6, <1>7, <1>8, RequestOnly DEF Request

\* The removal is announced, or asked of the one main there is.
LEMMA OpRemoveKeeps == ASSUME TypeInv, NoRaceInv, Calm, OpRemove PROVE NoRaceInv'
<1>1. op \in Ops /\ op # NoOp /\ op.step = "remove"
  BY DEF OpRemove, TypeInv, OtherTypes, NoOp
<1>2. \A n \in Mains : removals[n]["user"] = "no"
  BY <1>1, RemovedByRequest
<1>3. CASE multiMain
  <2>1. /\ Publish("remove") /\ UNCHANGED removals
        /\ op' # NoOp /\ op'.step = "write" /\ op'.kind = op.kind /\ op'.version = op.version
    BY <1>1, <1>3 DEF OpRemove, Ops, NoOp
  <2>2. OpInv'
    BY <1>1, <1>3, <2>1 DEF OpRemove, NoRaceInv, OpInv
  <2>3. \A n \in Mains : Same(n)
    BY <2>1 DEF OpRemove, Same
  <2>4. ASSUME NEW n \in Mains, leader = n PROVE LeaderInv(n)'
    <3>1. LeaderInv(n) /\ inbox[n] \in Seq({"add", "remove"})
      BY <2>4 DEF NoRaceInv, TypeInv, OtherTypes
    <3>2. inbox'[n] = Append(inbox[n], "remove")
      BY <2>1 DEF Publish
    <3>3. /\ inbox'[n] # <<>> /\ inbox'[n][Len(inbox'[n])] = "remove" /\ Alternates(inbox'[n])
          /\ inbox[n] # <<>> => inbox'[n][1] = inbox[n][1]
          /\ inbox[n] = <<>> => inbox'[n][1] = "remove"
      BY <3>1, <3>2, AppendAlternates DEF LeaderInv
    <3>4. Holds(n)' <=> Holds(n)
      BY <2>1 DEF OpRemove, Holds
    <3>5. ~WillListen(n)'
      BY <3>3 DEF WillListen
    <3> QED  BY <2>1, <3>1, <3>3, <3>4, <3>5 DEF LeaderInv
  <2> QED  BY <1>2, <2>2, <2>3, <2>4, RequestOnly DEF OpRemove
<1>4. CASE ~multiMain
  <2>1. PICK m \in Mains : m = op.main /\ leader = m /\ inbox[m] = <<>>
    BY <1>1, <1>4 DEF NoRaceInv, OpInv, Ops
  <2>2. /\ removals' = [removals EXCEPT ![m]["user"] = "asked"] /\ UNCHANGED inbox
        /\ op' # NoOp /\ op'.step = "removing" /\ op'.kind = op.kind /\ op'.version = op.version
        /\ op'.main = m
    BY <1>1, <1>4, <2>1 DEF OpRemove, Ops, NoOp
  <2>3. /\ removals'[m]["user"] = "asked"
        /\ \A d \in RemoveContexts \ {"user"} : removals'[m][d] = removals[m][d]
        /\ \A n \in Mains \ {m} : removals'[n] = removals[n]
    BY <2>1, <2>2, Contexts DEF TypeInv, CallTypes
  <2>4. Main(m)'
    <3>1. RemovalsInv(m)'
      BY <1>4, <2>1, <2>2, <2>3 DEF OpRemove, NoRaceInv, Main, RemovalsInv
    <3>2. AddsInv(m)' /\ QueueInv(m)' /\ MapInv(m)'
      BY <2>1 DEF OpRemove, NoRaceInv, Main, AddsInv, AddInv, QueueInv, MapInv
    <3> QED  BY <3>1, <3>2 DEF Main
  <2>5. LeaderInv(m)'
    <3>1. ~bulk[m]
      BY <1>1, <2>1 DEF Calm, Requested, LeaderReads
    <3>2. ~Holds(m)'
      BY <2>3, <3>1 DEF OpRemove, Holds
    <3>3. Alternates(<<>>)
      BY DEF Alternates
    <3> QED  BY <2>1, <2>2, <3>2, <3>3 DEF LeaderInv, WillListen
  <2>6. OpInv'
    BY <1>1, <1>4, <2>1, <2>2 DEF OpRemove, NoRaceInv, OpInv
  <2>7. \A n \in Mains \ {m} : Same(n) /\ inbox'[n] = inbox[n]
    BY <2>2, <2>3 DEF OpRemove, Same
  <2> QED  BY <1>2, <2>1, <2>4, <2>5, <2>6, <2>7, OneMain DEF OpRemove
<1> QED  BY <1>3, <1>4

\* The one main there is has removed its trigger.
LEMMA OpRemovedKeeps == ASSUME TypeInv, NoRaceInv, Calm, OpRemoved PROVE NoRaceInv'
<1>1. op \in Ops /\ op # NoOp /\ op.step = "removing" /\ removals[op.main]["user"] = "no"
  BY DEF OpRemoved, TypeInv, OtherTypes, NoOp
<1>2. ~multiMain /\ leader = op.main
  BY <1>1 DEF NoRaceInv, OpInv
<1>3. /\ op' # NoOp /\ op'.step = "write" /\ op'.kind = op.kind /\ op'.version = op.version
      /\ op'.main = op.main
  BY <1>1 DEF OpRemoved, Ops, NoOp
<1>4. \A n \in Mains : Same(n) /\ removals[n]["user"] = "no"
  BY <1>1, <1>2, RemovedByRequest DEF OpRemoved, memory, Same
<1>5. OpInv'
  BY <1>1, <1>3 DEF OpRemoved, NoRaceInv, OpInv
<1>6. ASSUME NEW n \in Mains, leader = n PROVE LeaderInv(n)'
  <2>1. LeaderInv(n)
    BY <1>6 DEF NoRaceInv
  <2>2. (WillListen(n)' <=> WillListen(n)) /\ (Holds(n)' <=> Holds(n)) /\ (Current(n)' <=> Current(n))
    BY DEF OpRemoved, memory, WillListen, Holds, Current
  <2> QED  BY <1>1, <1>3, <2>1, <2>2 DEF OpRemoved, LeaderInv
<1> QED  BY <1>4, <1>5, <1>6, RequestOnly DEF OpRemoved

\* The row is written while the leader has no trigger and reads nothing.
LEMMA OpWriteKeeps == ASSUME TypeInv, NoRaceInv, Calm, OpWrite PROVE NoRaceInv'
<1>1. op \in Ops /\ op # NoOp /\ op.step = "write"
  BY DEF OpWrite, TypeInv, OtherTypes, NoOp
<1>2. \A n \in Mains : Same(n) /\ removals[n]["user"] = "no"
  BY <1>1, RemovedByRequest DEF OpWrite, memory, Same
<1>3. \/ /\ op' # NoOp /\ op'.step = "add" /\ op'.kind = op.kind /\ op'.version = op.version
         /\ op'.main = op.main /\ op.kind = "activate"
      \/ op' = NoOp /\ op'.step = "none" /\ op.kind = "deactivate"
  BY <1>1 DEF OpWrite, Ops, NoOp
<1>4. op' = NoOp <=> active' = None
  BY <1>1, <1>3 DEF OpWrite, NoRaceInv, OpInv
<1>5. OpInv'
  BY <1>1, <1>3, <1>4 DEF OpWrite, NoRaceInv, OpInv
<1>6. ASSUME NEW n \in Mains, leader = n PROVE LeaderInv(n)'
  <2>1. LeaderInv(n) /\ ~WillListen(n)
    BY <1>1, <1>6 DEF NoRaceInv, LeaderInv
  <2>2. ~bulk[n]
    BY <1>1, <1>6 DEF Calm, Requested, LeaderReads
  <2>3. Holds(n)' <=> Holds(n)
    BY <2>2 DEF OpWrite, memory, Holds
  <2>4. WillListen(n)' <=> WillListen(n)
    BY <2>3 DEF OpWrite, WillListen
  <2>5. ~(inbox[n] = <<>> /\ Holds(n))
    BY <2>1 DEF WillListen
  <2> QED  BY <1>4, <2>1, <2>3, <2>4, <2>5 DEF OpWrite, LeaderInv
<1> QED  BY <1>2, <1>5, <1>6, RequestOnly DEF OpWrite

\* The activation is announced, or the one main there is begins it.
LEMMA OpAddKeeps == ASSUME TypeInv, NoRaceInv, Calm, OpAdd PROVE NoRaceInv'
<1>1. op \in Ops /\ op # NoOp /\ op.step = "add"
  BY DEF OpAdd, TypeInv, OtherTypes, NoOp
<1>2. \A n \in Mains : removals[n]["user"] = "no"
  BY <1>1, RemovedByRequest
<1>3. ASSUME NEW n \in Mains, leader = n
      PROVE  LeaderInv(n) /\ ~WillListen(n) /\ ~(inbox[n] = <<>> /\ Holds(n))
  BY <1>1, <1>3 DEF NoRaceInv, LeaderInv, WillListen
<1>4. CASE multiMain /\ active = None
  <2>1. /\ UNCHANGED <<adds, inbox>> /\ op' # NoOp /\ op'.step = "remove"
        /\ op'.kind = "deactivate" /\ op'.version = None
    BY <1>1, <1>4 DEF OpAdd, RollBack, Ops, NoOp
  <2>2. OpInv'
    BY <1>4, <2>1 DEF OpAdd, NoRaceInv, OpInv
  <2>3. \A n \in Mains : Same(n)
    BY <2>1 DEF OpAdd, Same
  <2>4. ASSUME NEW n \in Mains, leader = n PROVE LeaderInv(n)'
    <3>1. (Holds(n)' <=> Holds(n)) /\ (WillListen(n)' <=> WillListen(n))
      BY <2>1 DEF OpAdd, Holds, WillListen
    <3> QED  BY <1>3, <2>1, <2>4, <3>1 DEF OpAdd, LeaderInv
  <2> QED  BY <1>2, <2>2, <2>3, <2>4, RequestOnly DEF OpAdd
<1>5. CASE multiMain /\ active # None
  <2>1. UNCHANGED adds /\ Publish("add") /\ op' = NoOp /\ op'.step = "none"
    BY <1>5 DEF OpAdd, NoOp
  <2>2. OpInv'
    BY <1>5, <2>1 DEF OpAdd, NoRaceInv, OpInv
  <2>3. \A n \in Mains : Same(n)
    BY <2>1 DEF OpAdd, Same
  <2>4. ASSUME NEW n \in Mains, leader = n PROVE LeaderInv(n)'
    <3>1. LeaderInv(n) /\ ~WillListen(n) /\ inbox[n] \in Seq({"add", "remove"})
      BY <1>3, <2>4 DEF TypeInv, OtherTypes
    <3>2. inbox'[n] = Append(inbox[n], "add")
      BY <2>1 DEF Publish
    <3>3. inbox[n] = <<>> \/ inbox[n][Len(inbox[n])] # "add"
      BY <3>1 DEF WillListen
    <3>4. /\ inbox'[n] # <<>> /\ inbox'[n][Len(inbox'[n])] = "add" /\ Alternates(inbox'[n])
          /\ inbox[n] # <<>> => inbox'[n][1] = inbox[n][1]
      BY <3>1, <3>2, <3>3, AppendAlternates DEF LeaderInv
    <3>5. Holds(n)' <=> Holds(n)
      BY <2>1 DEF OpAdd, Holds
    <3>6. WillListen(n)'
      BY <3>4 DEF WillListen
    <3>7. Holds(n)' => inbox'[n][1] = "remove"
      BY <1>3, <2>4, <3>1, <3>4, <3>5 DEF LeaderInv
    <3> QED  BY <1>5, <2>1, <3>4, <3>6, <3>7 DEF OpAdd, LeaderInv
  <2> QED  BY <1>2, <2>2, <2>3, <2>4, RequestOnly DEF OpAdd
<1>6. CASE ~multiMain
  <2>1. PICK m \in Mains : m = op.main /\ leader = m /\ inbox[m] = <<>> /\ active # None
    BY <1>1, <1>6 DEF NoRaceInv, OpInv, Ops
  <2> DEFINE call == Call(active, m)
  <2>2. /\ SetCall(m, "user", call) /\ UNCHANGED inbox
        /\ op' # NoOp /\ op'.step = "adding" /\ op'.kind = op.kind /\ op'.version = op.version
        /\ op'.main = m
    BY <1>1, <1>6, <2>1 DEF OpAdd, Ops, NoOp
  <2>3. active \in Data
    BY DEF TypeInv, OtherTypes
  <2>4. /\ call # NoCall
        /\ adds'[m]["user"] = call
        /\ \A d \in AddContexts \ {"user"} : adds'[m][d] = NoCall
        /\ \A n \in Mains \ {m} : adds'[n] = adds[n]
        /\ \A d \in RemoveContexts : removals'[m][d] = "no"
    BY <2>1, <2>2, <2>3, Contexts, CallBegins
  <2>5. call.step = "prepare" /\ call.data = active /\ call.tracked /\ call.lead
    BY <2>1, <2>3, CallTypesOf
  <2> HIDE DEF call
  <2>6. ~bulk[m]
    BY <1>1, <2>1 DEF Calm, Requested, LeaderReads
  <2>7. /\ registered[m] = None /\ ~queued[m] /\ timers[m] = {}
        /\ \A d \in RemoveContexts : removals[m][d] = "no"
    <3>1. \A d \in RemoveContexts : removals[m][d] = "no"
      BY <2>4 DEF OpAdd
    <3>2. ~Holds(m)
      BY <1>3, <2>1
    <3> QED  BY <2>1, <3>1, <3>2, Contexts DEF Holds, NoRaceInv, Main, QueueInv
  <2>8. Main(m)'
    <3>1. AddsInv(m)'
      BY <1>6, <2>1, <2>4, <2>5, <2>6, <2>7 DEF OpAdd, AddsInv, AddInv
    <3>2. RemovalsInv(m)' /\ QueueInv(m)'
      BY <2>4, <2>7 DEF OpAdd, RemovalsInv, QueueInv
    <3>3. MapInv(m)'
      BY <2>1 DEF OpAdd, NoRaceInv, Main, MapInv
    <3> QED  BY <3>1, <3>2, <3>3 DEF Main
  <2>9. LeaderInv(m)'
    <3>1. Holds(m)'
      BY <2>4, Contexts DEF Holds
    <3>2. Current(m)'
      BY <2>4, <2>5, <2>7 DEF OpAdd, Current
    <3>3. Alternates(<<>>)
      BY DEF Alternates
    <3> QED  BY <2>1, <2>2, <3>1, <3>2, <3>3 DEF OpAdd, LeaderInv, WillListen
  <2>10. OpInv'
    BY <1>1, <1>6, <2>1, <2>2 DEF OpAdd, NoRaceInv, OpInv
  <2>11. \A n \in Mains \ {m} : Same(n) /\ inbox'[n] = inbox[n]
    BY <2>2, <2>4 DEF OpAdd, Same
  <2> QED  BY <1>2, <2>1, <2>8, <2>9, <2>10, <2>11, OneMain DEF OpAdd
<1> QED  BY <1>4, <1>5, <1>6

-----------------------------------------------------------------------------
(* In step.                                                                *)

LEMMA WorkKeeps == ASSUME TypeInv, NoRaceInv, Calm, Work PROVE NoRaceInv'
BY AddTriggersKeeps, AddSucceedsKeeps, EndRemoveKeeps, BulkReadsKeeps, TimerFiresKeeps,
   ReceiveKeeps, HandlerRemovesKeeps, UserRemovesKeeps, OpRemoveKeeps, OpRemovedKeeps,
   OpWriteKeeps, OpAddKeeps DEF Work

LEMMA FailKeeps == ASSUME TypeInv, NoRaceInv, Calm, Fail PROVE NoRaceInv'
BY BulkFailsKeeps, RetryFailsKeeps, HandlerFailsKeeps, UserFailsKeeps, TriggerBreaksKeeps,
   StepDownKeeps DEF Fail

\* What happens after the first race is left open.
UntilRace == races = {} => NoRaceInv

LEMMA InitUntilRace == Init => UntilRace
<1> SUFFICES ASSUME Init PROVE NoRaceInv
  BY DEF UntilRace
<1>1. leader \in Mains /\ leader # None /\ bulk[leader]
  BY ActivationAssumption DEF Init
<1>2. \A m \in Mains :
        /\ registered[m] = None /\ orphans[m] = {} /\ ~queued[m] /\ timers[m] = {}
        /\ \A c \in AddContexts : adds[m][c] = NoCall
        /\ \A c \in RemoveContexts : removals[m][c] = "no"
        /\ inbox[m] = <<>>
  BY DEF Init
<1>3. OpInv
  BY <1>1, <1>2 DEF Init, OpInv, NoOp
<1>4. \A m \in Mains : OneCall(m) /\ Main(m)
  BY <1>2 DEF OneCall, Main, AddsInv, AddInv, RemovalsInv, QueueInv, MapInv
<1>5. LeaderInv(leader)
  <2>1. Alternates(<<>>) /\ NoOp.step = "none" /\ op = NoOp
    BY DEF Init, Alternates, NoOp
  <2>2. Current(leader)
    BY <1>1, <1>2 DEF Current
  <2>3. Holds(leader) <=> active # None
    BY <1>1, <1>2 DEF Holds
  <2> QED  BY <1>1, <1>2, <2>1, <2>2, <2>3 DEF LeaderInv, WillListen
<1> QED  BY <1>3, <1>4, <1>5 DEF NoRaceInv

LEMMA NextUntilRace == TypeInv /\ UntilRace /\ [Next]_vars => UntilRace'
<1> SUFFICES ASSUME TypeInv, UntilRace, [Next]_vars, races' = {} PROVE NoRaceInv'
  BY DEF UntilRace
<1>1. ASSUME NEW also, Note(also) PROVE NoRaceInv /\ Calm /\ also = {}
  BY <1>1, NoRaceIsCalm DEF UntilRace
<1>2. CASE Work /\ Note({})
  BY <1>1, <1>2, WorkKeeps
<1>3. CASE Fail /\ Note({})
  BY <1>1, <1>3, FailKeeps
<1>4. CASE TakesOver
  BY <1>1, <1>4, TakeOverKeeps DEF TakesOver
<1>5. CASE Use /\ Note({})
  BY <1>1, <1>5, RequestKeeps DEF Use
<1>6. ASSUME NEW m \in Mains, Refused(m), Note({"refused"}) PROVE FALSE
  BY <1>1, <1>6
<1>7. ASSUME NEW m \in Mains, Crash(m), Note({r \in {"interrupted"} : op # NoOp /\ op.main = m})
      PROVE  NoRaceInv'
  <2>1. {r \in {"interrupted"} : op # NoOp /\ op.main = m} = {}
    BY <1>1, <1>7
  <2>2. ~(op # NoOp /\ op.main = m)
    BY <2>1
  <2> QED  BY <1>1, <1>7, <2>2, CrashKeeps
<1>8. CASE UNCHANGED vars
  BY <1>8 DEF UntilRace, vars, memory, bounds, NoRaceInv, OpInv, OneCall, Main, AddsInv, AddInv,
     RemovalsInv, QueueInv, MapInv, LeaderInv, WillListen, Holds, Current
<1> QED  BY <1>2, <1>3, <1>4, <1>5, <1>6, <1>7, <1>8 DEF Next

\* When all is quiet, what the leader will listen to is what it listens to.
LEMMA QuietInStep ==
    ASSUME NoRaceInv, Quiet, NEW m \in Mains
    PROVE  InStepAt(m) /\ ~queued[m]
<1>1. /\ op = NoOp /\ ~bulk[m] /\ inbox[m] = <<>> /\ timers[m] = {}
      /\ \A c \in AddContexts : adds[m][c] = NoCall
      /\ \A c \in RemoveContexts : removals[m][c] = "no"
  BY DEF Quiet
<1>2. ~queued[m] /\ orphans[m] = {} /\ (leader # m => registered[m] = None)
  BY <1>1, Contexts DEF NoRaceInv, Main, QueueInv, MapInv
<1>3. CASE leader = m
  <2>1. LeaderInv(m)
    BY <1>3 DEF NoRaceInv
  <2>2. Holds(m) <=> registered[m] # None
    BY <1>1, <1>2, Contexts DEF Holds
  <2>3. registered[m] # None <=> active # None
    BY <1>1, <2>1, <2>2 DEF LeaderInv, WillListen
  <2>4. registered[m] # None => registered[m] = active
    BY <1>1, <2>1, <2>2 DEF LeaderInv, Current
  <2> QED  BY <1>2, <1>3, <2>3, <2>4 DEF InStepAt
<1> QED  BY <1>2, <1>3 DEF InStepAt

\* Whatever races a behaviour may go on after: as long as none has happened, exactly the
\* leader listens, to what is active, once, whenever all is quiet.
THEOREM InStepUntilRace ==
    Spec => [](races = {} /\ Quiet => \A m \in Mains : InStepAt(m) /\ ~queued[m])
<1>1. UntilRace => (races = {} /\ Quiet => \A m \in Mains : InStepAt(m) /\ ~queued[m])
  BY QuietInStep DEF UntilRace
<1> QED  BY <1>1, InitTypes, NextKeepsTypes, InitUntilRace, NextUntilRace, PTL DEF Spec

\* InStep, when no race is allowed.
THEOREM StaysInStep == ASSUME Allowed = {} PROVE Spec => []InStep
<1>1. (races = {} /\ Quiet => \A m \in Mains : InStepAt(m) /\ ~queued[m]) => InStep
  BY DEF InStep
<1> QED  BY <1>1, InStepUntilRace, PTL
=============================================================================
