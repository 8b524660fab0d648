---------------------------- MODULE WorkerProofs ----------------------------
(***************************************************************************)
(* Theorems about the workers, for every number of steps, workers, tasks   *)
(* and retries and every environment the constants allow: first what holds *)
(* whatever the leases do, then, from OwnInv on, what timely leases        *)
(* add.                                                                    *)
(***************************************************************************)
EXTENDS Correctness, RunLogProofs

(* A task inside the workflow is at one of its steps. *)
KeyInRange == \A t \in Tasks : pc[t] \in WorkflowPC => key[t] \in Keys

(* Every event the runtime writes is an event of the vocabulary. *)
LEMMA EventTypes ==
  /\ \A y \in EventType : RunEvent(y) \in Event
  /\ \A y \in EventType, k \in Keys \cup {NoKey} : StepEvent(y, k) \in Event
  /\ \A k \in Keys \cup {NoKey}, v \in Results : CompletedEvent(k, v) \in Event
  <1>1. \A y \in EventType : RunEvent(y) \in Event
    BY DEF RunEvent, Event
  <1>2. \A y \in EventType, k \in Keys \cup {NoKey} : StepEvent(y, k) \in Event
    BY DEF StepEvent, Event
  <1>3. \A k \in Keys \cup {NoKey}, v \in Results : CompletedEvent(k, v) \in Event
    BY DEF CompletedEvent, Event, EventType
  <1> QED
    BY <1>1, <1>2, <1>3

(* A task belongs to a worker. *)
LEMMA TaskWorker == \A t \in Tasks : WorkerOf(t) \in Workers
  BY DEF Tasks, WorkerOf

(* append_event keeps the log a log. *)
LEMMA AppendTyped ==
  ASSUME TypeOK, NEW e \in Event, AppendEvent(e)
  PROVE  log' \in Seq(Event)
  BY DEF TypeOK, StoreTypeOK, AppendEvent

(* The workflow's next step is one of its steps. *)
LEMMA AdvanceTyped ==
  ASSUME TypeOK, NEW t \in Tasks, Advance(t)
  PROVE  pc' \in [Tasks -> PC] /\ key' \in [Tasks -> Keys \cup {NoKey}]
  <1>1. pc' \in [Tasks -> PC]
    BY DEF TypeOK, Advance, Goto, PC, WorkflowPC, EnginePC
  <1>2. CASE key[t] < NumSteps
    <2>1. key[t] + 1 \in Keys
      BY <1>2, NumStepsAssumption DEF TypeOK, Keys, NoKey
    <2> QED
      BY <1>1, <1>2, <2>1 DEF TypeOK, Advance
  <1> QED
    BY <1>1, <1>2 DEF TypeOK, Advance

(* A task that goes to a label of the program is at a label of it. *)
LEMMA GotoTyped ==
  ASSUME TypeOK, NEW t \in Tasks, NEW l \in PC, Goto(t, l)
  PROVE  pc' \in [Tasks -> PC]
  BY DEF TypeOK, Goto

(* Tasks that end leave well-typed locals behind. *)
LEMMA LeaveTyped ==
  ASSUME TypeOK, NEW S, NEW l \in {"idle", "dead"}, Leave(S, l)
  PROVE  /\ pc' \in [Tasks -> PC]
         /\ key' \in [Tasks -> Keys \cup {NoKey}]
         /\ memo' \in [Tasks -> Memo]
         /\ unresolved' \in [Tasks -> SUBSET Keys]
         /\ tries' \in [Tasks -> Nat]
         /\ spent' \in [Tasks -> Usage]
         /\ beat' \in [Tasks -> {"fine", "failed"}]
  <1>1. NoMemo \in Memo /\ NoUsage \in Usage /\ l \in PC
    BY DEF NoMemo, Memo, NoUsage, Usage, PC
  <1> QED
    BY <1>1 DEF TypeOK, Leave
(* Writing StepCompleted keeps the log and the task's replay state typed. *)
LEMMA CompleteTyped ==
  ASSUME TypeOK, NEW t \in Tasks, NEW v \in Results, Complete(t, v), key[t] \in Keys
  PROVE  /\ log' \in Seq(Event)
         /\ memo' \in [Tasks -> Memo]
         /\ unresolved' \in [Tasks -> SUBSET Keys]
  <1>1. log' \in Seq(Event)
    BY EventTypes, AppendTyped DEF Complete
  <1>2. memo' \in [Tasks -> Memo]
    BY DEF Complete, TypeOK, Memo
  <1>3. unresolved' \in [Tasks -> SUBSET Keys]
    BY DEF Complete, TypeOK
  <1> QED
    BY <1>1, <1>2, <1>3

(* The counters stay counters. *)
LEMMA UsageTyped ==
  \A u \in Usage : AddToolCall(u) \in Usage /\ AddModelUsage(u) \in Usage
  BY DEF Usage, AddToolCall, AddModelUsage

(* Counting a call keeps the counters counters. *)
LEMMA CountTyped ==
  ASSUME TypeOK, NEW t \in Tasks, CountToolCall(t)
  PROVE  spent' \in [Tasks -> Usage]
  BY UsageTyped DEF TypeOK, CountToolCall

(* An effect is counted for the step that has it. *)
LEMMA SideEffectTyped ==
  ASSUME TypeOK, NEW k \in Keys, RecordSideEffect(k)
  PROVE  landed' \in [Keys -> Nat]
  <1>1. landed \in [Keys -> Nat]
    BY DEF TypeOK, StoreTypeOK
  <1> QED
    BY <1>1 DEF RecordSideEffect

(* The steps of a RunContext keep the types. *)
LEMMA ContextStepTyped ==
  ASSUME TypeOK, NEW t \in Tasks, KeyInRange, ContextStep(t), UNCHANGED <<wall, workerVars>>
  PROVE  TypeOK'
  <1> USE GotoTyped DEF TypeOK, StoreTypeOK, storeVars, runVars, queueVars, stepVars, workerVars
  <1>0. WorkflowPC \subseteq PC /\ EnginePC \subseteq PC
    BY DEF PC
  <1>1. CASE StepReplayed(t)
    BY <1>1, <1>0, AdvanceTyped DEF StepReplayed, WorkflowPC, EnginePC
  <1>2. CASE LeaseGuardPasses(t)
    BY <1>2, <1>0 DEF LeaseGuardPasses, WorkflowPC, EnginePC
  <1>3. CASE WorkflowRaises(t)
    BY <1>3, <1>0 DEF WorkflowRaises, WorkflowPC, EnginePC
  <1>4. CASE CancelObserved(t)
    BY <1>4, <1>0 DEF CancelObserved, WorkflowPC, EnginePC
  <1>5. CASE BudgetBreached(t)
    BY <1>5, <1>0 DEF BudgetBreached, WorkflowPC, EnginePC
  <1>6. CASE GuardsPass(t)
    BY <1>6, <1>0 DEF GuardsPass, Unverified, WorkflowPC, EnginePC
  <1>7. CASE VerifyFinds(t)
    BY <1>7, <1>0 DEF VerifyFinds, WorkflowPC, EnginePC
  <1>8. CASE VerifyFindsNothing(t)
    BY <1>8, <1>0 DEF VerifyFindsNothing, Unverified, WorkflowPC, EnginePC
  <1>9. CASE VerifyRaises(t)
    BY <1>9, <1>0 DEF VerifyRaises, WorkflowPC, EnginePC
  <1>10. CASE WriteRecovered(t)
    <2>1. PICK v \in Results : Complete(t, v)
      BY <1>10 DEF WriteRecovered
    <2>2. key[t] \in Keys
      BY <1>10 DEF WriteRecovered, KeyInRange, WorkflowPC
    <2> QED
      BY <1>0, <1>10, <2>1, <2>2, CompleteTyped, AdvanceTyped DEF WriteRecovered, WorkflowPC
  <1>11. CASE WriteStepStarted(t)
    BY <1>11, <1>0, EventTypes, AppendTyped DEF WriteStepStarted, BeginTries, WorkflowPC, EnginePC, EventType
  <1>12. CASE WriteCrashRetry(t)
    BY <1>12, <1>0, EventTypes, AppendTyped DEF WriteCrashRetry, BeginTries, WorkflowPC, EnginePC, EventType
  <1>13. CASE InvokeLands(t)
    <2>1. key[t] \in Keys
      BY <1>13 DEF InvokeLands, KeyInRange, WorkflowPC
    <2>2. landed' \in [Keys -> Nat] /\ spent' \in [Tasks -> Usage]
      BY <1>13, <2>1, SideEffectTyped, CountTyped DEF InvokeLands
    <2> QED
      BY <1>0, <1>13, <2>2 DEF InvokeLands, WorkflowPC
  <1>14. CASE InvokeRaises(t)
    <2>1. spent' \in [Tasks -> Usage]
      BY <1>14, CountTyped DEF InvokeRaises
    <2> QED
      BY <1>0, <1>14, <2>1 DEF InvokeRaises, AfterError, WorkflowPC
  <1>15. CASE ReturnRaises(t)
    BY <1>15, <1>0 DEF ReturnRaises, AfterError, WorkflowPC, EnginePC
  <1>16. CASE ReturnUnserialisable(t)
    BY <1>16, <1>0 DEF ReturnUnserialisable, WorkflowPC, EnginePC
  <1>17. CASE WriteStepCompleted(t)
    <2>1. PICK v \in Results : Complete(t, v)
      BY <1>17 DEF WriteStepCompleted
    <2>2. key[t] \in Keys
      BY <1>17 DEF WriteStepCompleted, KeyInRange, WorkflowPC
    <2> QED
      BY <1>0, <1>17, <2>1, <2>2, CompleteTyped DEF WriteStepCompleted, WorkflowPC
  <1>18. CASE WriteStepRetried(t)
    BY <1>18, <1>0, EventTypes, AppendTyped DEF WriteStepRetried, WorkflowPC, EnginePC, EventType
  <1>19. CASE WriteStepFailed(t)
    BY <1>19, <1>0, EventTypes, AppendTyped DEF WriteStepFailed, WorkflowPC, EnginePC, EventType
  <1>20. CASE SaveStepUsage(t)
    <2>1. spent[t] \in Usage /\ usage' = spent[t]
      BY <1>20 DEF SaveStepUsage, SaveUsage
    <2>2. spent' \in [Tasks -> Usage]
      <3>1. spent' \in {spent, [spent EXCEPT ![t] = AddModelUsage(spent[t])]}
        BY <1>20 DEF SaveStepUsage
      <3>2. AddModelUsage(spent[t]) \in Usage
        BY <2>1, UsageTyped
      <3> QED
        BY <3>1, <3>2
    <2>3. pc' \in [Tasks -> PC] /\ key' \in [Tasks -> Keys \cup {NoKey}]
      BY <1>0, <1>20, AdvanceTyped DEF SaveStepUsage, WorkflowPC
    <2> QED
      BY <1>20, <2>1, <2>2, <2>3 DEF SaveStepUsage
  <1>21. CASE WriteToolInvoked(t)
    BY <1>21, <1>0, AdvanceTyped, EventTypes, AppendTyped DEF WriteToolInvoked, WorkflowPC, EnginePC, EventType
  <1>22. CASE SaveModelUsage(t)
    BY <1>22, <1>0 DEF SaveModelUsage, SaveUsage, WorkflowPC, EnginePC
  <1>23. CASE WriteModelCalled(t)
    BY <1>23, <1>0, AdvanceTyped, EventTypes, AppendTyped DEF WriteModelCalled, WorkflowPC, EnginePC, EventType
  <1> QED
    BY <1>1, <1>2, <1>3, <1>4, <1>5, <1>6, <1>7, <1>8, <1>9, <1>10, <1>11, <1>12, <1>13, <1>14, <1>15, <1>16, <1>17, <1>18, <1>19, <1>20, <1>21, <1>22, <1>23 DEF ContextStep

(* The steps of the engine keep the types. *)
LEMMA EngineStepTyped ==
  ASSUME TypeOK, NEW t \in Tasks, EngineStep(t), UNCHANGED <<wall, workerVars>>
  PROVE  TypeOK'
  <1> USE GotoTyped DEF TypeOK, StoreTypeOK, storeVars, runVars, queueVars, stepVars, workerVars
  <1>0. WorkflowPC \subseteq PC /\ EnginePC \subseteq PC /\ {"release", "dequeue"} \subseteq PC
    BY DEF PC
  <1>1. CASE GetRun(t)
    BY <1>1, <1>0 DEF GetRun, EnginePC
  <1>2. CASE BumpAttempt(t)
    BY <1>2, <1>0 DEF BumpAttempt, EnginePC
  <1>3. CASE WriteRunResumed(t)
    BY <1>3, <1>0, EventTypes, AppendTyped DEF WriteRunResumed, EventType, EnginePC
  <1>4. CASE SetRunning(t)
    BY <1>4, <1>0 DEF SetRunning, SetStatus, RunStatus, EnginePC
  <1>5. CASE RereadRun(t)
    BY <1>5, <1>0 DEF RereadRun, EnginePC
  <1>6. CASE LoadEvents(t)
    <2>1. [k \in Keys |-> Recorded(log, k)] \in Memo
      BY RecordedType DEF Memo
    <2>2. Unresolved(log) \in SUBSET Keys /\ 1 \in Keys
      BY NumStepsAssumption DEF Unresolved, Keys
    <2> QED
      BY <1>0, <1>6, <2>1, <2>2 DEF LoadEvents, WorkflowPC, EnginePC
  <1>7. CASE WriteRunCompleted(t)
    BY <1>7, <1>0, EventTypes, AppendTyped DEF WriteRunCompleted, WriteVerdict, EventType, EnginePC
  <1>8. CASE SaveFinalUsage(t)
    BY <1>8, <1>0 DEF SaveFinalUsage, StoreUsage, SaveUsage, EnginePC
  <1>9. CASE SetCompleted(t)
    BY <1>9, <1>0 DEF SetCompleted, StoreStatus, SetStatus, RunStatus, EnginePC
  <1>10. CASE SetCompletedRaises(t)
    BY <1>10, <1>0 DEF SetCompletedRaises, EnginePC
  <1>11. CASE WriteRunCancelled(t)
    BY <1>11, <1>0, EventTypes, AppendTyped DEF WriteRunCancelled, WriteVerdict, EventType, EnginePC
  <1>12. CASE SetCancelled(t)
    BY <1>12, <1>0 DEF SetCancelled, StoreStatus, SetStatus, RunStatus, EnginePC
  <1>13. CASE WriteNeedsReview(t)
    BY <1>13, <1>0, EventTypes, AppendTyped DEF WriteNeedsReview, WriteVerdict, EventType, EnginePC
  <1>14. CASE SetNeedsReview(t)
    BY <1>14, <1>0 DEF SetNeedsReview, StoreStatus, SetStatus, RunStatus, EnginePC
  <1>15. CASE WriteBudgetExceeded(t)
    BY <1>15, <1>0, EventTypes, AppendTyped DEF WriteBudgetExceeded, WriteVerdict, EventType, EnginePC
  <1>16. CASE WriteRunFailed(t)
    BY <1>16, <1>0, EventTypes, AppendTyped DEF WriteRunFailed, WriteVerdict, EventType, EnginePC
  <1>17. CASE SaveFailedUsage(t)
    BY <1>17, <1>0 DEF SaveFailedUsage, StoreUsage, SaveUsage, EnginePC
  <1>18. CASE SetFailed(t)
    BY <1>18, <1>0 DEF SetFailed, StoreStatus, SetStatus, RunStatus, EnginePC
  <1> QED
    BY <1>1, <1>2, <1>3, <1>4, <1>5, <1>6, <1>7, <1>8, <1>9, <1>10, <1>11, <1>12, <1>13, <1>14, <1>15, <1>16, <1>17, <1>18 DEF EngineStep

(* What else happens keeps the types. *)
LEMMA WorkerStepTyped ==
  ASSUME TypeOK,
         \/ \E t \in Tasks : \/ Claim(t) \/ LeaseLost(t) \/ Dequeue(t)
                             \/ DequeueSkipped(t) \/ Release(t)
                             \/ StoreFault(t) \/ HeartbeatFails(t)
         \/ \E w \in Workers : Crash(w) \/ RequestShutdown(w)
         \/ LeaseLapses \/ DeadlinePasses \/ CancelRun
  PROVE  TypeOK'
  <1> USE GotoTyped, LeaveTyped
      DEF TypeOK, StoreTypeOK, storeVars, runVars, queueVars, stepVars, taskVars, workerVars
  <1>0. EnginePC \subseteq PC /\ {"release", "dequeue"} \subseteq PC
    BY DEF PC
  <1>1. ASSUME NEW t \in Tasks, Claim(t) PROVE TypeOK'
    BY <1>0, <1>1, TaskWorker DEF Claim, ClaimRow, EnginePC, QueueState
  <1>2. ASSUME NEW t \in Tasks, LeaseLost(t) PROVE TypeOK'
    BY <1>2 DEF LeaseLost
  <1>3. ASSUME NEW t \in Tasks, Dequeue(t) PROVE TypeOK'
    BY <1>3 DEF Dequeue, DequeueRow, QueueState
  <1>4. ASSUME NEW t \in Tasks, DequeueSkipped(t) PROVE TypeOK'
    BY <1>4 DEF DequeueSkipped
  <1>5. ASSUME NEW t \in Tasks, Release(t) PROVE TypeOK'
    BY <1>5 DEF Release, ReleaseRow, QueueState
  <1>6. ASSUME NEW t \in Tasks, StoreFault(t) PROVE TypeOK'
    BY <1>0, <1>6 DEF StoreFault, EnginePC
  <1>7. ASSUME NEW t \in Tasks, HeartbeatFails(t) PROVE TypeOK'
    BY <1>7 DEF HeartbeatFails
  <1>8. ASSUME NEW w \in Workers, Crash(w) PROVE TypeOK'
    BY <1>8 DEF Crash
  <1>9. ASSUME NEW w \in Workers, RequestShutdown(w) PROVE TypeOK'
    BY <1>9 DEF RequestShutdown
  <1>10. CASE LeaseLapses
    BY <1>10 DEF LeaseLapses, QueueState
  <1>11. CASE DeadlinePasses
    BY <1>11 DEF DeadlinePasses
  <1>12. CASE CancelRun
    BY <1>12, EventTypes, AppendTyped DEF CancelRun, RequestCancel, EventType
  <1> QED
    BY <1>1, <1>2, <1>3, <1>4, <1>5, <1>6, <1>7, <1>8, <1>9, <1>10, <1>11, <1>12
-----------------------------------------------------------------------------
(***************************************************************************)
(* NoSilentDrop is not inductive: a completed step or run is honest only   *)
(* because of what the task that wrote it had in memory.  The parts below  *)
(* tie the memory of every task to the log and the log to the effects.     *)
(***************************************************************************)

(* A task replays nothing that is not in the log. *)
MemoLogged == \A t \in Tasks : \A k \in Keys : memo[t][k] # {} => Completed(k)

(* A completed step had its effect. *)
CompletedLanded == \A k \in Keys : Completed(k) => landed[k] > 0

(* A task reaches a step after it has the results of all the steps before. *)
PrefixDone ==
  \A t \in Tasks : pc[t] \in WorkflowPC =>
    \A j \in Keys : j < key[t] => memo[t][j] # {}

(* A task that is about to write StepCompleted writes it for an effect. *)
EffectFirst ==
  \A t \in Tasks : pc[t] \in {"landed", "recovered"} => landed[key[t]] > 0

(* After StepCompleted the task holds the result of the step. *)
StepDone ==
  \A t \in Tasks :
    pc[t] \in {"save_usage", "tool_invoked", "save_model_usage", "model_called"}
      => memo[t][key[t]] # {}

(* A task whose workflow has returned holds the results of all steps. *)
AllDone ==
  \A t \in Tasks : pc[t] \in {"run_completed", "final_usage", "set_completed"}
    => \A k \in Keys : memo[t][k] # {}

(* The status says COMPLETED only over a complete log. *)
CompletedIsComplete == status = "COMPLETED" => \A k \in Keys : Completed(k)

(* The inductive invariant of the records and of COMPLETED. *)
DropInv ==
  /\ TypeOK
  /\ KeyInRange /\ MemoLogged /\ CompletedLanded /\ PrefixDone
  /\ EffectFirst /\ StepDone /\ AllDone /\ CompletedIsComplete

(* An event that completes no step leaves every step as it was. *)
LEMMA QuietAppend ==
  ASSUME TypeOK, NEW e \in Event, e.type # "StepCompleted", AppendEvent(e)
  PROVE  \A k \in Keys : Recorded(log', k) = Recorded(log, k)
  <1>1. log \in Seq(Event) /\ log' = Append(log, e)
    BY DEF TypeOK, StoreTypeOK, AppendEvent
  <1> QED
    BY <1>1, RecordedAppendOther

(* The events of steps and runs other than StepCompleted complete no step. *)
LEMMA QuietEvents ==
  ASSUME NEW y \in EventType \ {"StepCompleted"}, NEW k \in Keys \cup {NoKey}
  PROVE  /\ RunEvent(y) \in Event /\ RunEvent(y).type # "StepCompleted"
         /\ StepEvent(y, k) \in Event /\ StepEvent(y, k).type # "StepCompleted"
  BY EventTypes DEF RunEvent, StepEvent

(* StepCompleted completes its step and no other one. *)
LEMMA CompleteRecords ==
  ASSUME TypeOK, NEW t \in Tasks, NEW v \in Results, Complete(t, v), key[t] \in Keys
  PROVE  /\ Recorded(log', key[t]) = {v}
         /\ \A k \in Keys \ {key[t]} : Recorded(log', k) = Recorded(log, k)
         /\ memo'[t][key[t]] = {v}
         /\ \A k \in Keys \ {key[t]} : memo'[t][k] = memo[t][k]
         /\ \A u \in Tasks \ {t} : memo'[u] = memo[u]
  <1> DEFINE e == CompletedEvent(key[t], v)
  <1>1. /\ e \in Event /\ e.type = "StepCompleted"
        /\ e.key = key[t] /\ e.val = {v}
    BY EventTypes DEF CompletedEvent
  <1>2. log \in Seq(Event) /\ log' = Append(log, e)
    BY DEF TypeOK, StoreTypeOK, Complete, AppendEvent
  <1> HIDE DEF e
  <1>3. Recorded(log', key[t]) = {v}
    BY <1>1, <1>2, RecordedAppendCompleted
  <1>4. \A k \in Keys \ {key[t]} : Recorded(log', k) = Recorded(log, k)
    BY <1>1, <1>2, RecordedAppendOther
  <1> QED
    BY <1>3, <1>4 DEF Complete, TypeOK, Memo

(* Past a step whose result it holds, a task has the results of all the    *)
(* steps before the next one, or of all steps when that was the last one.  *)
LEMMA Advances ==
  ASSUME TypeOK, NEW t \in Tasks, Advance(t), key[t] \in Keys
  PROVE  /\ \A u \in Tasks \ {t} : pc'[u] = pc[u] /\ key'[u] = key[u]
         /\ \/ /\ pc'[t] = "step"
               /\ key'[t] \in Keys
               /\ \A j \in Keys : j < key'[t] => j < key[t] \/ j = key[t]
            \/ /\ pc'[t] = "run_completed"
               /\ \A j \in Keys : j < key[t] \/ j = key[t]
  <1>1. key[t] \in Nat /\ key[t] <= NumSteps /\ \A j \in Keys : j \in Nat /\ j <= NumSteps
    BY NumStepsAssumption DEF Keys
  <1>2. CASE key[t] < NumSteps
    <2>1. key[t] + 1 \in Keys
      BY <1>1, <1>2, NumStepsAssumption DEF Keys
    <2>2. /\ pc' = [pc EXCEPT ![t] = "step"]
          /\ key' = [key EXCEPT ![t] = key[t] + 1]
      BY <1>2 DEF Advance, Goto
    <2> QED
      BY <1>1, <2>1, <2>2 DEF TypeOK
  <1>3. CASE ~(key[t] < NumSteps)
    <2>1. \A j \in Keys : j < key[t] \/ j = key[t]
      BY <1>1, <1>3, NumStepsAssumption
    <2> QED
      BY <1>3, <2>1 DEF TypeOK, Advance, Goto
  <1> QED
    BY <1>2, <1>3

(* What a step of one task must respect for the invariant to survive it. *)
LEMMA TaskKeeps ==
  ASSUME DropInv, TypeOK', NEW t \in Tasks,
         \A u \in Tasks \ {t} : pc'[u] = pc[u] /\ key'[u] = key[u] /\ memo'[u] = memo[u],
         \A k \in Keys : Recorded(log, k) # {} => Recorded(log', k) # {},
         \A k \in Keys : landed[k] > 0 => landed'[k] > 0,
         \A k \in Keys : Recorded(log', k) # {} => landed'[k] > 0,
         \A k \in Keys : memo'[t][k] # {} => Recorded(log', k) # {},
         pc'[t] \in WorkflowPC =>
           key'[t] \in Keys /\ \A j \in Keys : j < key'[t] => memo'[t][j] # {},
         pc'[t] \in {"landed", "recovered"} => landed'[key'[t]] > 0,
         pc'[t] \in {"save_usage", "tool_invoked", "save_model_usage", "model_called"}
           => memo'[t][key'[t]] # {},
         pc'[t] \in {"run_completed", "final_usage", "set_completed"}
           => \A k \in Keys : memo'[t][k] # {},
         status' # status /\ status' = "COMPLETED" => \A k \in Keys : memo[t][k] # {}
  PROVE  DropInv'
  <1> USE DEF DropInv
  <1>1. KeyInRange' /\ PrefixDone'
    BY DEF KeyInRange, PrefixDone
  <1>2. MemoLogged'
    BY DEF MemoLogged, Completed
  <1>3. CompletedLanded'
    BY DEF Completed, CompletedLanded
  <1>4. EffectFirst'
    <2> SUFFICES ASSUME NEW u \in Tasks \ {t}, pc[u] \in {"landed", "recovered"}
                 PROVE  landed'[key[u]] > 0
      BY DEF EffectFirst
    <2> QED
      BY DEF EffectFirst, KeyInRange, WorkflowPC
  <1>5. StepDone'
    BY DEF StepDone
  <1>6. AllDone'
    BY DEF AllDone
  <1>7. CompletedIsComplete'
    BY DEF CompletedIsComplete, MemoLogged, Completed
  <1> QED
    BY <1>1, <1>2, <1>3, <1>4, <1>5, <1>6, <1>7

(* A task that only moves on, and may log that, completes nothing. *)
LEMMA MoveKeeps ==
  ASSUME DropInv, TypeOK', NEW t \in Tasks, NEW l, Goto(t, l),
         UNCHANGED <<key, memo, landed>>,
         \A k \in Keys : Recorded(log', k) = Recorded(log, k),
         l \in WorkflowPC => pc[t] \in WorkflowPC,
         l \in {"landed", "recovered"} => landed[key[t]] > 0,
         l \in {"save_usage", "tool_invoked", "save_model_usage", "model_called"}
           => memo[t][key[t]] # {},
         l \in {"run_completed", "final_usage", "set_completed"}
           => \A k \in Keys : memo[t][k] # {},
         status' # status /\ status' = "COMPLETED" => \A k \in Keys : memo[t][k] # {}
  PROVE  DropInv'
  <1>1. pc'[t] = l /\ \A u \in Tasks \ {t} : pc'[u] = pc[u]
    BY DEF DropInv, TypeOK, Goto
  <1>2. \A k \in Keys : Recorded(log', k) # {} => landed'[k] > 0
    BY DEF DropInv, CompletedLanded, Completed
  <1>3. \A k \in Keys : memo'[t][k] # {} => Recorded(log', k) # {}
    BY DEF DropInv, MemoLogged, Completed
  <1>4. pc'[t] \in WorkflowPC =>
          key'[t] \in Keys /\ \A j \in Keys : j < key'[t] => memo'[t][j] # {}
    BY <1>1 DEF DropInv, KeyInRange, PrefixDone
  <1> QED
    BY <1>1, <1>2, <1>3, <1>4, TaskKeeps

(* A task that goes past a step whose result it holds. *)
LEMMA AdvanceKeeps ==
  ASSUME DropInv, TypeOK', NEW t \in Tasks, Advance(t), pc[t] \in WorkflowPC,
         memo'[t][key[t]] # {},
         \A k \in Keys \ {key[t]} : memo'[t][k] = memo[t][k],
         \A u \in Tasks \ {t} : memo'[u] = memo[u],
         Recorded(log', key[t]) # {}, landed[key[t]] > 0,
         \A k \in Keys \ {key[t]} : Recorded(log', k) = Recorded(log, k),
         UNCHANGED <<landed, status>>
  PROVE  DropInv'
  <1>1. key[t] \in Keys /\ \A j \in Keys : j < key[t] => memo[t][j] # {}
    BY DEF DropInv, KeyInRange, PrefixDone
  <1>2. \A j \in Keys : j < key[t] \/ j = key[t] => memo'[t][j] # {}
    BY <1>1
  <1>3. /\ \A k \in Keys : Recorded(log, k) # {} => Recorded(log', k) # {}
        /\ \A k \in Keys : Recorded(log', k) # {} => landed'[k] > 0
    BY DEF DropInv, CompletedLanded, Completed
  <1>4. \A k \in Keys : memo'[t][k] # {} => Recorded(log', k) # {}
    BY DEF DropInv, MemoLogged, Completed
  <1>5. \A u \in Tasks \ {t} : pc'[u] = pc[u] /\ key'[u] = key[u]
    BY <1>1, Advances DEF DropInv
  <1>6. \/ /\ pc'[t] = "step" /\ key'[t] \in Keys
           /\ \A j \in Keys : j < key'[t] => memo'[t][j] # {}
        \/ pc'[t] = "run_completed" /\ \A j \in Keys : memo'[t][j] # {}
    BY <1>1, <1>2, Advances DEF DropInv
  <1>7. CASE pc'[t] = "step" /\ key'[t] \in Keys
               /\ \A j \in Keys : j < key'[t] => memo'[t][j] # {}
    BY <1>3, <1>4, <1>5, <1>7, TaskKeeps
  <1>8. CASE pc'[t] = "run_completed" /\ \A j \in Keys : memo'[t][j] # {}
    BY <1>3, <1>4, <1>5, <1>8, TaskKeeps DEF WorkflowPC
  <1> QED
    BY <1>6, <1>7, <1>8

(* The steps of a RunContext keep the invariant. *)
LEMMA ContextStepKeeps ==
  ASSUME DropInv, NEW t \in Tasks, ContextStep(t), UNCHANGED <<wall, workerVars>>
  PROVE  DropInv'
  <1>0. /\ TypeOK /\ TypeOK' /\ KeyInRange
        /\ pc[t] \in WorkflowPC =>
             key[t] \in Keys /\ \A j \in Keys : j < key[t] => memo[t][j] # {}
        /\ \A k \in Keys : memo[t][k] # {} => Recorded(log, k) # {}
        /\ \A k \in Keys : Recorded(log, k) # {} => landed[k] > 0
        /\ pc[t] \in {"landed", "recovered"} => landed[key[t]] > 0
        /\ pc[t] \in {"save_usage", "tool_invoked", "save_model_usage", "model_called"}
             => memo[t][key[t]] # {}
    BY ContextStepTyped DEF DropInv, KeyInRange, PrefixDone, MemoLogged, CompletedLanded,
                            Completed, EffectFirst, StepDone
  <1> USE <1>0
  <1>1. CASE StepReplayed(t)
    BY <1>1, AdvanceKeeps DEF StepReplayed, WorkflowPC, storeVars, runVars, queueVars, stepVars
  <1>2. CASE LeaseGuardPasses(t)
    BY <1>2, MoveKeeps DEF LeaseGuardPasses, WorkflowPC, storeVars, runVars, queueVars, stepVars
  <1>3. CASE WorkflowRaises(t)
    BY <1>3, MoveKeeps DEF WorkflowRaises, WorkflowPC, storeVars, runVars, queueVars, stepVars
  <1>4. CASE CancelObserved(t)
    BY <1>4, MoveKeeps DEF CancelObserved, WorkflowPC, storeVars, runVars, queueVars, stepVars
  <1>5. CASE BudgetBreached(t)
    BY <1>5, MoveKeeps DEF BudgetBreached, WorkflowPC, storeVars, runVars, queueVars, stepVars
  <1>6. CASE GuardsPass(t)
    BY <1>6, MoveKeeps DEF GuardsPass, Unverified, WorkflowPC, storeVars, runVars, queueVars, stepVars
  <1>7. CASE VerifyFinds(t)
    BY <1>7, MoveKeeps DEF VerifyFinds, WorkflowPC, storeVars, runVars, queueVars, stepVars
  <1>8. CASE VerifyFindsNothing(t)
    BY <1>8, MoveKeeps DEF VerifyFindsNothing, Unverified, WorkflowPC, storeVars, runVars, queueVars, stepVars
  <1>9. CASE VerifyRaises(t)
    BY <1>9, MoveKeeps DEF VerifyRaises, WorkflowPC, storeVars, runVars, queueVars, stepVars
  <1>10. CASE WriteRecovered(t)
    <2>1. PICK v \in Results : Complete(t, v)
      BY <1>10 DEF WriteRecovered
    <2>2. key[t] \in Keys
      BY <1>10 DEF WriteRecovered, WorkflowPC
    <2> QED
      BY <1>10, <2>1, <2>2, CompleteRecords, AdvanceKeeps DEF WriteRecovered, WorkflowPC, storeVars, runVars, queueVars, stepVars
  <1>11. CASE WriteStepStarted(t)
    <2>1. \A k \in Keys : Recorded(log', k) = Recorded(log, k)
      BY <1>11, QuietAppend, QuietEvents DEF WriteStepStarted, BeginTries, EventType, TypeOK
    <2> QED
      BY <1>11, <2>1, MoveKeeps DEF WriteStepStarted, BeginTries, WorkflowPC, storeVars, runVars, queueVars, stepVars
  <1>12. CASE WriteCrashRetry(t)
    <2>1. \A k \in Keys : Recorded(log', k) = Recorded(log, k)
      BY <1>12, QuietAppend, QuietEvents DEF WriteCrashRetry, BeginTries, EventType, TypeOK
    <2> QED
      BY <1>12, <2>1, MoveKeeps DEF WriteCrashRetry, BeginTries, WorkflowPC, storeVars, runVars, queueVars, stepVars
  <1>13. CASE InvokeLands(t)
    <2>1. key[t] \in Keys
      BY <1>13 DEF InvokeLands, WorkflowPC
    <2>2. landed'[key[t]] > 0 /\ \A k \in Keys : landed[k] > 0 => landed'[k] > 0
      BY <1>13, <2>1 DEF InvokeLands, RecordSideEffect, TypeOK, StoreTypeOK
    <2>3. pc'[t] = "landed" /\ \A u \in Tasks \ {t} : pc'[u] = pc[u]
      BY <1>13 DEF InvokeLands, Goto, TypeOK
    <2>4. pc[t] \in WorkflowPC /\ UNCHANGED <<log, key, memo, status>>
      BY <1>13 DEF InvokeLands, WorkflowPC, storeVars, runVars, queueVars, stepVars
    <2> QED
      BY <2>1, <2>2, <2>3, <2>4, TaskKeeps
  <1>14. CASE InvokeRaises(t)
    BY <1>14, MoveKeeps DEF InvokeRaises, AfterError, WorkflowPC, storeVars, runVars, queueVars, stepVars
  <1>15. CASE ReturnRaises(t)
    BY <1>15, MoveKeeps DEF ReturnRaises, AfterError, WorkflowPC, storeVars, runVars, queueVars, stepVars
  <1>16. CASE ReturnUnserialisable(t)
    BY <1>16, MoveKeeps DEF ReturnUnserialisable, WorkflowPC, storeVars, runVars, queueVars, stepVars
  <1>17. CASE WriteStepCompleted(t)
    <2>1. PICK v \in Results : Complete(t, v)
      BY <1>17 DEF WriteStepCompleted
    <2>2. key[t] \in Keys
      BY <1>17 DEF WriteStepCompleted, WorkflowPC
    <2>3. pc'[t] = "save_usage" /\ \A u \in Tasks \ {t} : pc'[u] = pc[u]
      BY <1>17 DEF WriteStepCompleted, Goto, TypeOK
    <2>4. pc[t] \in WorkflowPC /\ landed[key[t]] > 0 /\ UNCHANGED <<landed, key, status>>
      BY <1>17 DEF WriteStepCompleted, WorkflowPC, storeVars, runVars, queueVars, stepVars
    <2>5. /\ Recorded(log', key[t]) # {} /\ memo'[t][key[t]] # {}
          /\ \A k \in Keys \ {key[t]} : Recorded(log', k) = Recorded(log, k)
          /\ \A k \in Keys \ {key[t]} : memo'[t][k] = memo[t][k]
          /\ \A u \in Tasks \ {t} : memo'[u] = memo[u]
      BY <2>1, <2>2, CompleteRecords
    <2>6. \A j \in Keys : j < key'[t] => memo'[t][j] # {}
      BY <2>4, <2>5
    <2>7. \A k \in Keys : Recorded(log', k) # {} => landed'[k] > 0
      BY <2>4, <2>5
    <2> QED
      BY <2>2, <2>3, <2>4, <2>5, <2>6, <2>7, TaskKeeps
  <1>18. CASE WriteStepRetried(t)
    <2>1. \A k \in Keys : Recorded(log', k) = Recorded(log, k)
      BY <1>18, QuietAppend, QuietEvents DEF WriteStepRetried, EventType, TypeOK
    <2> QED
      BY <1>18, <2>1, MoveKeeps DEF WriteStepRetried, WorkflowPC, storeVars, runVars, queueVars, stepVars
  <1>19. CASE WriteStepFailed(t)
    <2>1. \A k \in Keys : Recorded(log', k) = Recorded(log, k)
      BY <1>19, QuietAppend, QuietEvents DEF WriteStepFailed, EventType, TypeOK
    <2> QED
      BY <1>19, <2>1, MoveKeeps DEF WriteStepFailed, WorkflowPC, storeVars, runVars, queueVars, stepVars
  <1>20. CASE SaveStepUsage(t)
    <2>1. /\ pc[t] \in WorkflowPC /\ memo[t][key[t]] # {}
          /\ UNCHANGED <<log, landed, memo, status>>
      BY <1>20 DEF SaveStepUsage, WorkflowPC
    <2>2. CASE Advance(t)
      BY <2>1, <2>2, AdvanceKeeps
    <2>3. CASE UNCHANGED key /\ Goto(t, "tool_invoked")
      BY <2>1, <2>3, MoveKeeps
    <2>4. CASE UNCHANGED key /\ Goto(t, "save_model_usage")
      BY <2>1, <2>4, MoveKeeps
    <2> QED
      BY <1>20, <2>2, <2>3, <2>4 DEF SaveStepUsage
  <1>21. CASE WriteToolInvoked(t)
    <2>1. \A k \in Keys : Recorded(log', k) = Recorded(log, k)
      BY <1>21, QuietAppend, QuietEvents DEF WriteToolInvoked, EventType, TypeOK
    <2> QED
      BY <1>21, <2>1, AdvanceKeeps DEF WriteToolInvoked, WorkflowPC, storeVars, runVars, queueVars, stepVars
  <1>22. CASE SaveModelUsage(t)
    BY <1>22, MoveKeeps DEF SaveModelUsage, WorkflowPC, storeVars, runVars, queueVars, stepVars
  <1>23. CASE WriteModelCalled(t)
    <2>1. \A k \in Keys : Recorded(log', k) = Recorded(log, k)
      BY <1>23, QuietAppend, QuietEvents DEF WriteModelCalled, EventType, TypeOK
    <2> QED
      BY <1>23, <2>1, AdvanceKeeps DEF WriteModelCalled, WorkflowPC, storeVars, runVars, queueVars, stepVars
  <1> QED
    BY <1>1, <1>2, <1>3, <1>4, <1>5, <1>6, <1>7, <1>8, <1>9, <1>10, <1>11, <1>12, <1>13, <1>14, <1>15, <1>16, <1>17, <1>18, <1>19, <1>20, <1>21, <1>22, <1>23 DEF ContextStep

(* The steps of the engine keep the invariant. *)
LEMMA EngineStepKeeps ==
  ASSUME DropInv, NEW t \in Tasks, EngineStep(t), UNCHANGED <<wall, workerVars>>
  PROVE  DropInv'
  <1>0. /\ TypeOK /\ TypeOK'
        /\ pc[t] \in {"run_completed", "final_usage", "set_completed"}
             => \A k \in Keys : memo[t][k] # {}
    BY EngineStepTyped DEF DropInv, AllDone
  <1> USE <1>0
  <1>1. CASE GetRun(t)
    BY <1>1, MoveKeeps DEF GetRun, WorkflowPC, storeVars, runVars, queueVars, stepVars
  <1>2. CASE BumpAttempt(t)
    BY <1>2, MoveKeeps DEF BumpAttempt, WorkflowPC, storeVars, runVars, queueVars, stepVars
  <1>3. CASE WriteRunResumed(t)
    <2>1. \A k \in Keys : Recorded(log', k) = Recorded(log, k)
      BY <1>3, QuietAppend, QuietEvents DEF WriteRunResumed, EventType, TypeOK
    <2> QED
      BY <1>3, <2>1, MoveKeeps DEF WriteRunResumed, WorkflowPC, storeVars, runVars, queueVars, stepVars
  <1>4. CASE SetRunning(t)
    BY <1>4, MoveKeeps DEF SetRunning, SetStatus, WorkflowPC, storeVars, runVars, queueVars, stepVars
  <1>5. CASE RereadRun(t)
    BY <1>5, MoveKeeps DEF RereadRun, WorkflowPC, storeVars, runVars, queueVars, stepVars
  <1>6. CASE LoadEvents(t)
    <2>1. /\ memo'[t] = [k \in Keys |-> Recorded(log, k)]
          /\ \A u \in Tasks \ {t} : memo'[u] = memo[u]
          /\ key'[t] = 1 /\ 1 \in Keys /\ \A j \in Keys : ~(j < 1)
      BY <1>6, NumStepsAssumption DEF LoadEvents, TypeOK, Keys
    <2>2. /\ pc'[t] \in {"step", "run_failed"} /\ \A u \in Tasks \ {t} : pc'[u] = pc[u]
          /\ \A u \in Tasks \ {t} : key'[u] = key[u]
          /\ UNCHANGED <<log, landed, status>>
      BY <1>6 DEF LoadEvents, Goto, TypeOK, storeVars, runVars, queueVars, stepVars
    <2>3. \A k \in Keys : Recorded(log, k) # {} => landed[k] > 0
      BY DEF DropInv, CompletedLanded, Completed
    <2> QED
      BY <2>1, <2>2, <2>3, TaskKeeps
  <1>7. CASE WriteRunCompleted(t)
    <2>1. \A k \in Keys : Recorded(log', k) = Recorded(log, k)
      BY <1>7, QuietAppend, QuietEvents DEF WriteRunCompleted, WriteVerdict, EventType, TypeOK
    <2> QED
      BY <1>7, <2>1, MoveKeeps DEF WriteRunCompleted, WriteVerdict, WorkflowPC, storeVars, runVars, queueVars, stepVars
  <1>8. CASE SaveFinalUsage(t)
    BY <1>8, MoveKeeps DEF SaveFinalUsage, StoreUsage, SaveUsage, WorkflowPC, storeVars, runVars, queueVars, stepVars
  <1>9. CASE SetCompleted(t)
    BY <1>9, MoveKeeps DEF SetCompleted, StoreStatus, SetStatus, WorkflowPC, storeVars, runVars, queueVars, stepVars
  <1>10. CASE SetCompletedRaises(t)
    BY <1>10, MoveKeeps DEF SetCompletedRaises, WorkflowPC, storeVars, runVars, queueVars, stepVars
  <1>11. CASE WriteRunCancelled(t)
    <2>1. \A k \in Keys : Recorded(log', k) = Recorded(log, k)
      BY <1>11, QuietAppend, QuietEvents DEF WriteRunCancelled, WriteVerdict, EventType, TypeOK
    <2> QED
      BY <1>11, <2>1, MoveKeeps DEF WriteRunCancelled, WriteVerdict, WorkflowPC, storeVars, runVars, queueVars, stepVars
  <1>12. CASE SetCancelled(t)
    BY <1>12, MoveKeeps DEF SetCancelled, StoreStatus, SetStatus, WorkflowPC, storeVars, runVars, queueVars, stepVars
  <1>13. CASE WriteNeedsReview(t)
    <2>1. \A k \in Keys : Recorded(log', k) = Recorded(log, k)
      BY <1>13, QuietAppend, QuietEvents DEF WriteNeedsReview, WriteVerdict, EventType, TypeOK
    <2> QED
      BY <1>13, <2>1, MoveKeeps DEF WriteNeedsReview, WriteVerdict, WorkflowPC, storeVars, runVars, queueVars, stepVars
  <1>14. CASE SetNeedsReview(t)
    BY <1>14, MoveKeeps DEF SetNeedsReview, StoreStatus, SetStatus, WorkflowPC, storeVars, runVars, queueVars, stepVars
  <1>15. CASE WriteBudgetExceeded(t)
    <2>1. \A k \in Keys : Recorded(log', k) = Recorded(log, k)
      BY <1>15, QuietAppend, QuietEvents DEF WriteBudgetExceeded, WriteVerdict, EventType, TypeOK
    <2> QED
      BY <1>15, <2>1, MoveKeeps DEF WriteBudgetExceeded, WriteVerdict, WorkflowPC, storeVars, runVars, queueVars, stepVars
  <1>16. CASE WriteRunFailed(t)
    <2>1. \A k \in Keys : Recorded(log', k) = Recorded(log, k)
      BY <1>16, QuietAppend, QuietEvents DEF WriteRunFailed, WriteVerdict, EventType, TypeOK
    <2> QED
      BY <1>16, <2>1, MoveKeeps DEF WriteRunFailed, WriteVerdict, WorkflowPC, storeVars, runVars, queueVars, stepVars
  <1>17. CASE SaveFailedUsage(t)
    BY <1>17, MoveKeeps DEF SaveFailedUsage, StoreUsage, SaveUsage, WorkflowPC, storeVars, runVars, queueVars, stepVars
  <1>18. CASE SetFailed(t)
    BY <1>18, MoveKeeps DEF SetFailed, StoreStatus, SetStatus, WorkflowPC, storeVars, runVars, queueVars, stepVars
  <1> QED
    BY <1>1, <1>2, <1>3, <1>4, <1>5, <1>6, <1>7, <1>8, <1>9, <1>10, <1>11, <1>12, <1>13, <1>14, <1>15, <1>16, <1>17, <1>18 DEF EngineStep
(* Tasks that end take nothing out of the log. *)
LEMMA LeaveKeeps ==
  ASSUME DropInv, TypeOK', NEW S, NEW l \in {"idle", "dead"}, Leave(S, l),
         UNCHANGED <<log, landed, status>>
  PROVE  DropInv'
  <1>1. \A u \in Tasks : \/ pc'[u] = l /\ \A k \in Keys : memo'[u][k] = {}
                         \/ pc'[u] = pc[u] /\ key'[u] = key[u] /\ memo'[u] = memo[u]
    BY DEF Leave, NoMemo, TypeOK, DropInv
  <1> QED
    BY <1>1 DEF DropInv, KeyInRange, MemoLogged, CompletedLanded, PrefixDone, EffectFirst,
                StepDone, AllDone, CompletedIsComplete, Completed, WorkflowPC

(* What happens beside the tasks leaves the invariant alone. *)
LEMMA StillKeeps ==
  ASSUME DropInv, TypeOK', UNCHANGED <<pc, key, memo, landed, status>>,
         \A k \in Keys : Recorded(log', k) = Recorded(log, k)
  PROVE  DropInv'
  BY DEF DropInv, KeyInRange, MemoLogged, CompletedLanded, PrefixDone, EffectFirst,
         StepDone, AllDone, CompletedIsComplete, Completed

(* Workers, the clock and the API keep the invariant. *)
LEMMA WorkerStepKeeps ==
  ASSUME DropInv,
         \/ \E t \in Tasks : \/ Claim(t) \/ LeaseLost(t) \/ Dequeue(t)
                             \/ DequeueSkipped(t) \/ Release(t)
                             \/ StoreFault(t) \/ HeartbeatFails(t)
         \/ \E w \in Workers : Crash(w) \/ RequestShutdown(w)
         \/ LeaseLapses \/ DeadlinePasses \/ CancelRun
  PROVE  DropInv'
  <1>0. TypeOK /\ TypeOK'
    BY WorkerStepTyped DEF DropInv
  <1> USE <1>0 DEF storeVars, runVars, queueVars, stepVars, taskVars
  <1>1. ASSUME NEW t \in Tasks, Claim(t) PROVE DropInv'
    BY <1>1, MoveKeeps DEF Claim, WorkflowPC
  <1>2. ASSUME NEW t \in Tasks, LeaseLost(t) PROVE DropInv'
    BY <1>2, LeaveKeeps DEF LeaseLost
  <1>3. ASSUME NEW t \in Tasks, Dequeue(t) PROVE DropInv'
    BY <1>3, LeaveKeeps DEF Dequeue
  <1>4. ASSUME NEW t \in Tasks, DequeueSkipped(t) PROVE DropInv'
    BY <1>4, LeaveKeeps DEF DequeueSkipped
  <1>5. ASSUME NEW t \in Tasks, Release(t) PROVE DropInv'
    BY <1>5, LeaveKeeps DEF Release
  <1>6. ASSUME NEW t \in Tasks, StoreFault(t) PROVE DropInv'
    <2>1. CASE Leave({t}, "idle")
      BY <1>6, <2>1, LeaveKeeps DEF StoreFault
    <2>2. CASE UNCHANGED stepVars /\ (Goto(t, "run_failed") \/ Goto(t, "release"))
      BY <1>6, <2>2, MoveKeeps DEF StoreFault, WorkflowPC
    <2> QED
      BY <1>6, <2>1, <2>2 DEF StoreFault
  <1>7. ASSUME NEW t \in Tasks, HeartbeatFails(t) PROVE DropInv'
    BY <1>7, StillKeeps DEF HeartbeatFails
  <1>8. ASSUME NEW w \in Workers, Crash(w) PROVE DropInv'
    BY <1>8, LeaveKeeps DEF Crash
  <1>9. ASSUME NEW w \in Workers, RequestShutdown(w) PROVE DropInv'
    BY <1>9, StillKeeps DEF RequestShutdown
  <1>10. CASE LeaseLapses
    BY <1>10, StillKeeps DEF LeaseLapses
  <1>11. CASE DeadlinePasses
    BY <1>11, StillKeeps DEF DeadlinePasses
  <1>12. CASE CancelRun
    <2>1. \A k \in Keys : Recorded(log', k) = Recorded(log, k)
      BY <1>12, QuietAppend, QuietEvents DEF CancelRun, RequestCancel, EventType
    <2> QED
      BY <1>12, <2>1, StillKeeps DEF CancelRun, RequestCancel
  <1> QED
    BY <1>1, <1>2, <1>3, <1>4, <1>5, <1>6, <1>7, <1>8, <1>9, <1>10, <1>11, <1>12

(* A submitted run satisfies the invariant. *)
LEMMA DropInvInit == Init => DropInv
  <1> SUFFICES ASSUME Init PROVE DropInv
    OBVIOUS
  <1> USE DEF Init, SubmitRun
  <1>1. log \in Seq(Event)
    <2>1. RunEvent("RunStarted") \in Event
      BY EventTypes DEF EventType
    <2> QED
      BY <2>1
  <1>2. TypeOK
    BY <1>1 DEF TypeOK, StoreTypeOK, RunStatus, QueueState, NoUsage, Usage, NoMemo, Memo,
                PC, NoKey
  <1>3. \A k \in Keys : Recorded(log, k) = {}
    BY DEF Recorded, At, RunEvent
  <1> QED
    BY <1>2, <1>3 DEF DropInv, KeyInRange, MemoLogged, CompletedLanded, PrefixDone,
       EffectFirst, StepDone, AllDone, CompletedIsComplete, Completed, WorkflowPC, NoMemo

(* Every step of the system keeps the invariant. *)
LEMMA DropInvStep == DropInv /\ [Next]_vars => DropInv'
  <1> SUFFICES ASSUME DropInv, [Next]_vars PROVE DropInv'
    OBVIOUS
  <1>1. ASSUME NEW t \in Tasks, ContextStep(t), UNCHANGED <<wall, workerVars>>
        PROVE  DropInv'
    BY <1>1, ContextStepKeeps
  <1>2. ASSUME NEW t \in Tasks, EngineStep(t), UNCHANGED <<wall, workerVars>>
        PROVE  DropInv'
    BY <1>2, EngineStepKeeps
  <1>3. CASE UNCHANGED vars
    <2>1. TypeOK'
      BY <1>3 DEF DropInv, TypeOK, StoreTypeOK, vars, workerVars, storeVars, runVars, queueVars, stepVars, taskVars
    <2> QED
      BY <1>3, <2>1, StillKeeps DEF vars, storeVars, runVars, queueVars, stepVars, taskVars
  <1> QED
    BY <1>1, <1>2, <1>3, WorkerStepKeeps DEF Next, TaskStep

(* The state of the store, of every task and of every worker keeps its     *)
(* shape, whatever happens to leases, heartbeats, store calls and workers. *)
THEOREM TypeCorrect == Spec => []TypeOK
  <1>1. DropInv => TypeOK
    BY DEF DropInv
  <1> QED
    BY <1>1, DropInvInit, DropInvStep, PTL DEF Spec

(* For any workflow and any number of workers, with leases that lapse at   *)
(* any time: a step is recorded as completed only when its effect happened *)
(* and a run as COMPLETED only when all its steps are recorded.            *)
THEOREM NothingDroppedSilently == Spec => []NoSilentDrop
  <1>1. DropInv => NoSilentDrop
    BY DEF DropInv, NoSilentDrop, CompletedLanded, CompletedIsComplete
  <1> QED
    BY <1>1, DropInvInit, DropInvStep, PTL DEF Spec

-----------------------------------------------------------------------------
(***************************************************************************)
(* EffectsAccounted is not inductive: a body that is about to run has been *)
(* announced and has not had its effect.  Counting the tasks that are      *)
(* there, which zombies make more than one, gives the invariant.           *)
(***************************************************************************)

(* What the log announces of step k, and the tasks about to run its body. *)
Announced(k) == At(log, "StepStarted", k) \cup At(log, "StepRetried", k)
Pending(k) == {t \in Tasks : pc[t] = "invoke" /\ key[t] = k}

(* Every effect, and every body that is about to run, has been announced. *)
TriesAnnounced ==
  \A k \in Keys : /\ IsFiniteSet(Pending(k))
                  /\ landed[k] + Cardinality(Pending(k)) <= Cardinality(Announced(k))

(* The log stays as it is or grows by an event. *)
LogGrows == log' = log \/ \E e \in Event : log' = Append(log, e)

(* What a log announces is finite and is never withdrawn. *)
LEMMA AnnouncedGrows ==
  ASSUME TypeOK, LogGrows, NEW k \in Keys
  PROVE  /\ IsFiniteSet(Announced(k)) /\ Cardinality(Announced(k)) \in Nat
         /\ IsFiniteSet(Announced(k)') /\ Cardinality(Announced(k)') \in Nat
         /\ Cardinality(Announced(k)) <= Cardinality(Announced(k)')
  <1>1. CASE log' = log
    <2>1. log \in Seq(Event)
      BY DEF TypeOK, StoreTypeOK
    <2>2. IsFiniteSet(Announced(k)) /\ Announced(k)' = Announced(k)
      BY <1>1, <2>1, AtFinite, FS_Union DEF Announced
    <2> QED
      BY <2>2, FS_CardinalityType
  <1>2. CASE \E e \in Event : log' = Append(log, e)
    <2>1. PICK e \in Event : log' = Append(log, e)
      BY <1>2
    <2>2. log \in Seq(Event) /\ log' \in Seq(Event)
      BY <2>1 DEF TypeOK, StoreTypeOK
    <2>3. IsFiniteSet(Announced(k)) /\ IsFiniteSet(Announced(k)')
      BY <2>2, AtFinite, FS_Union DEF Announced
    <2>4. \A y : At(log, y, k) \subseteq At(log', y, k)
      BY <2>1, <2>2, AtAppend
    <2>5. Announced(k) \subseteq Announced(k)'
      BY <2>4 DEF Announced
    <2> QED
      BY <2>3, <2>5, FS_Subset, FS_CardinalityType
  <1> QED
    BY <1>1, <1>2 DEF LogGrows

(* A step after which no other body is about to run. *)
LEMMA QuietKeepsTries ==
  ASSUME TypeOK, TriesAnnounced, LogGrows, UNCHANGED landed,
         \A u \in Tasks : pc'[u] = "invoke" => pc[u] = "invoke" /\ key'[u] = key[u]
  PROVE  TriesAnnounced'
  <1> SUFFICES ASSUME NEW k \in Keys
               PROVE  /\ IsFiniteSet(Pending(k)')
                      /\ landed'[k] + Cardinality(Pending(k)') <= Cardinality(Announced(k)')
    BY DEF TriesAnnounced
  <1>1. Pending(k)' \subseteq Pending(k) /\ IsFiniteSet(Pending(k))
    BY DEF Pending, TriesAnnounced
  <1>2. /\ IsFiniteSet(Pending(k)')
        /\ Cardinality(Pending(k)') <= Cardinality(Pending(k))
        /\ Cardinality(Pending(k)) \in Nat /\ Cardinality(Pending(k)') \in Nat
    BY <1>1, FS_Subset, FS_CardinalityType
  <1>3. landed'[k] = landed[k] /\ landed[k] \in Nat
    BY DEF TypeOK, StoreTypeOK
  <1>4. landed[k] + Cardinality(Pending(k)) <= Cardinality(Announced(k))
    BY DEF TriesAnnounced
  <1> QED
    BY <1>2, <1>3, <1>4, AnnouncedGrows

(* A task announces its body and goes to run it. *)
LEMMA AnnounceKeepsTries ==
  ASSUME TypeOK, TriesAnnounced, NEW t \in Tasks, pc[t] # "invoke", key[t] \in Keys,
         NEW y \in {"StepStarted", "StepRetried"}, AppendEvent(StepEvent(y, key[t])),
         Goto(t, "invoke"), UNCHANGED <<key, landed>>
  PROVE  TriesAnnounced'
  <1> DEFINE e == StepEvent(y, key[t])
             n == Len(log) + 1
  <1>1. /\ log \in Seq(Event) /\ log' = Append(log, e) /\ e \in Event
        /\ e.type = y /\ e.key = key[t]
    BY EventTypes DEF TypeOK, StoreTypeOK, AppendEvent, EventType, StepEvent
  <1>2. LogGrows
    BY <1>1 DEF LogGrows
  <1> HIDE DEF e
  <1> SUFFICES ASSUME NEW k \in Keys
               PROVE  /\ IsFiniteSet(Pending(k)')
                      /\ landed'[k] + Cardinality(Pending(k)') <= Cardinality(Announced(k)')
    BY DEF TriesAnnounced
  <1>3. /\ IsFiniteSet(Pending(k)) /\ Cardinality(Pending(k)) \in Nat
        /\ landed[k] + Cardinality(Pending(k)) <= Cardinality(Announced(k))
        /\ landed'[k] = landed[k] /\ landed[k] \in Nat
    BY FS_CardinalityType DEF TriesAnnounced, TypeOK, StoreTypeOK
  <1>4. pc'[t] = "invoke" /\ \A u \in Tasks \ {t} : pc'[u] = pc[u]
    BY DEF TypeOK, Goto
  <1>5. CASE k = key[t]
    <2>1. Pending(k)' = Pending(k) \cup {t} /\ t \notin Pending(k)
      BY <1>4, <1>5 DEF Pending
    <2>2. IsFiniteSet(Pending(k)') /\ Cardinality(Pending(k)') = Cardinality(Pending(k)) + 1
      BY <1>3, <2>1, FS_AddElement
    <2>3. Announced(k)' = Announced(k) \cup {n}
      BY <1>1, <1>5, AtAppend DEF Announced
    <2>4. n \notin Announced(k)
      BY <1>1, AtRange DEF Announced
    <2>5. Cardinality(Announced(k)') = Cardinality(Announced(k)) + 1
      BY <1>2, <2>3, <2>4, AnnouncedGrows, FS_AddElement
    <2> QED
      BY <1>3, <1>2, <2>2, <2>5, AnnouncedGrows
  <1>6. CASE k # key[t]
    <2>1. Pending(k)' = Pending(k)
      BY <1>4, <1>6 DEF Pending
    <2> QED
      BY <1>2, <1>3, <2>1, AnnouncedGrows
  <1> QED
    BY <1>5, <1>6

(* A body that has run is no longer about to run. *)
LEMMA LandKeepsTries ==
  ASSUME TypeOK, TriesAnnounced, NEW t \in Tasks, key[t] \in Keys, InvokeLands(t)
  PROVE  TriesAnnounced'
  <1> SUFFICES ASSUME NEW k \in Keys
               PROVE  /\ IsFiniteSet(Pending(k)')
                      /\ landed'[k] + Cardinality(Pending(k)') <= Cardinality(Announced(k)')
    BY DEF TriesAnnounced
  <1>1. /\ pc[t] = "invoke" /\ pc'[t] = "landed" /\ \A u \in Tasks \ {t} : pc'[u] = pc[u]
        /\ UNCHANGED <<log, key>>
    BY DEF InvokeLands, TypeOK, Goto
  <1>2. /\ IsFiniteSet(Pending(k)) /\ Cardinality(Pending(k)) \in Nat
        /\ landed[k] + Cardinality(Pending(k)) <= Cardinality(Announced(k))
        /\ landed[k] \in Nat
    BY FS_CardinalityType DEF TriesAnnounced, TypeOK, StoreTypeOK
  <1>3. Announced(k)' = Announced(k) /\ Cardinality(Announced(k)) \in Nat
    BY <1>1, AnnouncedGrows DEF Announced, LogGrows
  <1>4. CASE k = key[t]
    <2>1. landed'[k] \in Nat /\ landed'[k] <= landed[k] + 1
      BY <1>4 DEF InvokeLands, RecordSideEffect, TypeOK, StoreTypeOK
    <2>2. Pending(k)' = Pending(k) \ {t} /\ t \in Pending(k)
      BY <1>1, <1>4 DEF Pending
    <2>3. IsFiniteSet(Pending(k)') /\ Cardinality(Pending(k)') = Cardinality(Pending(k)) - 1
      BY <1>2, <2>2, FS_RemoveElement
    <2> QED
      BY <1>2, <1>3, <2>1, <2>3
  <1>5. CASE k # key[t]
    <2>1. landed'[k] = landed[k]
      BY <1>5 DEF InvokeLands, RecordSideEffect, TypeOK, StoreTypeOK
    <2>2. Pending(k)' = Pending(k)
      BY <1>1, <1>5 DEF Pending
    <2> QED
      BY <1>2, <1>3, <2>1, <2>2
  <1> QED
    BY <1>4, <1>5

(* A step of a RunContext adds at most one event to the log. *)
LEMMA ContextLog ==
  ASSUME TypeOK, KeyInRange, NEW t \in Tasks, ContextStep(t)
  PROVE  LogGrows
  <1> USE DEF LogGrows, storeVars
  <1>1. pc[t] \in WorkflowPC => key[t] \in Keys
    BY DEF KeyInRange
  <1>2. CASE StepReplayed(t) \/ LeaseGuardPasses(t) \/ WorkflowRaises(t)
    BY <1>2 DEF StepReplayed, LeaseGuardPasses, WorkflowRaises
  <1>3. CASE \/ CancelObserved(t) \/ BudgetBreached(t) \/ GuardsPass(t)
             \/ VerifyFinds(t) \/ VerifyFindsNothing(t) \/ VerifyRaises(t)
    BY <1>3 DEF CancelObserved, BudgetBreached, GuardsPass, VerifyFinds, VerifyFindsNothing,
                VerifyRaises
  <1>4. CASE WriteRecovered(t) \/ WriteStepCompleted(t)
    <2>1. key[t] \in Keys
      BY <1>1, <1>4 DEF WriteRecovered, WriteStepCompleted, WorkflowPC
    <2>2. PICK v \in Results : log' = Append(log, CompletedEvent(key[t], v))
      BY <1>4 DEF WriteRecovered, WriteStepCompleted, Complete, AppendEvent
    <2> QED
      BY <2>1, <2>2, EventTypes
  <1>5. CASE WriteStepStarted(t) \/ WriteCrashRetry(t)
    BY <1>1, <1>5, EventTypes
    DEF WriteStepStarted, WriteCrashRetry, BeginTries, AppendEvent, WorkflowPC, EventType
  <1>6. CASE InvokeLands(t) \/ InvokeRaises(t) \/ ReturnRaises(t) \/ ReturnUnserialisable(t)
    BY <1>6 DEF InvokeLands, InvokeRaises, ReturnRaises, ReturnUnserialisable
  <1>7. CASE WriteStepRetried(t) \/ WriteStepFailed(t)
    BY <1>1, <1>7, EventTypes
    DEF WriteStepRetried, WriteStepFailed, AppendEvent, WorkflowPC, EventType
  <1>8. CASE SaveStepUsage(t) \/ SaveModelUsage(t)
    BY <1>8 DEF SaveStepUsage, SaveModelUsage
  <1>9. CASE WriteToolInvoked(t) \/ WriteModelCalled(t)
    BY <1>1, <1>9, EventTypes
    DEF WriteToolInvoked, WriteModelCalled, AppendEvent, WorkflowPC, EventType
  <1> QED
    BY <1>2, <1>3, <1>4, <1>5, <1>6, <1>7, <1>8, <1>9 DEF ContextStep

(* A step of the engine adds at most one event to the log. *)
LEMMA EngineLog ==
  ASSUME TypeOK, NEW t \in Tasks, EngineStep(t)
  PROVE  LogGrows
  <1> USE DEF LogGrows, storeVars
  <1>1. CASE \/ GetRun(t) \/ BumpAttempt(t) \/ SetRunning(t) \/ RereadRun(t)
             \/ LoadEvents(t) \/ SetCompletedRaises(t)
    BY <1>1 DEF GetRun, BumpAttempt, SetRunning, RereadRun, LoadEvents, SetCompletedRaises
  <1>2. CASE WriteRunResumed(t)
    BY <1>2, EventTypes DEF WriteRunResumed, AppendEvent, EventType
  <1>3. CASE \/ SaveFinalUsage(t) \/ SaveFailedUsage(t) \/ SetCompleted(t)
             \/ SetCancelled(t) \/ SetNeedsReview(t) \/ SetFailed(t)
    BY <1>3 DEF SaveFinalUsage, SaveFailedUsage, StoreUsage, SetCompleted, SetCancelled,
                SetNeedsReview, SetFailed, StoreStatus
  <1>4. CASE WriteRunCompleted(t) \/ WriteRunCancelled(t)
    BY <1>4, EventTypes DEF WriteRunCompleted, WriteRunCancelled, WriteVerdict, AppendEvent,
                            EventType
  <1>5. CASE WriteNeedsReview(t)
    BY <1>5, EventTypes DEF WriteNeedsReview, WriteVerdict, AppendEvent, EventType, TypeOK
  <1>6. CASE WriteBudgetExceeded(t) \/ WriteRunFailed(t)
    BY <1>6, EventTypes DEF WriteBudgetExceeded, WriteRunFailed, WriteVerdict, AppendEvent,
                            EventType
  <1> QED
    BY <1>1, <1>2, <1>3, <1>4, <1>5, <1>6 DEF EngineStep

(* Workers, the clock and the API add at most one event to the log, cause  *)
(* no effect and end, but never begin, the run of a body.                  *)
LEMMA WorkerLog ==
  ASSUME TypeOK,
         \/ \E t \in Tasks : \/ Claim(t) \/ LeaseLost(t) \/ Dequeue(t)
                             \/ DequeueSkipped(t) \/ Release(t)
                             \/ StoreFault(t) \/ HeartbeatFails(t)
         \/ \E w \in Workers : Crash(w) \/ RequestShutdown(w)
         \/ LeaseLapses \/ DeadlinePasses \/ CancelRun
  PROVE  /\ LogGrows /\ UNCHANGED <<landed, usage, status, attempt>>
         /\ \/ log' = log /\ cancels' = cancels
            \/ /\ AppendEvent(RunEvent("CancelRequested")) /\ cancels' = cancels + 1
               /\ status \notin Terminal /\ UNCHANGED pc
         /\ faults' \in {faults, faults + 1}
         /\ \A u \in Tasks :
              \/ pc'[u] \in {"idle", "dead"} /\ spent'[u] = NoUsage
              \/ /\ pc'[u] \in {pc[u], "get_run", "run_failed", "release"}
                 /\ key'[u] = key[u] /\ memo'[u] = memo[u]
                 /\ unresolved'[u] = unresolved[u]
                 /\ tries'[u] = tries[u] /\ spent'[u] = spent[u]
                 /\ pc'[u] = "run_failed" =>
                      \/ pc[u] = "run_failed"
                      \/ pc[u] \in WorkflowPC \cup {"run_completed"} /\ faults' = faults + 1
  <1> USE DEF TypeOK, LogGrows, storeVars, runVars, queueVars, stepVars, taskVars, workerVars, Goto
  <1>1. CASE \E t \in Tasks : Claim(t)
    BY <1>1 DEF Claim
  <1>2. CASE \E t \in Tasks : LeaseLost(t) \/ Dequeue(t) \/ DequeueSkipped(t) \/ Release(t)
    BY <1>2 DEF LeaseLost, Dequeue, DequeueSkipped, Release, Leave
  <1>3. CASE \E t \in Tasks : StoreFault(t)
    BY <1>3 DEF StoreFault, Leave
  <1>4. CASE \E t \in Tasks : HeartbeatFails(t)
    BY <1>4 DEF HeartbeatFails
  <1>5. CASE \E w \in Workers : Crash(w)
    BY <1>5 DEF Crash, Leave
  <1>6. CASE (\E w \in Workers : RequestShutdown(w)) \/ LeaseLapses \/ DeadlinePasses
    BY <1>6 DEF RequestShutdown, LeaseLapses, DeadlinePasses
  <1>7. CASE CancelRun
    BY <1>7, EventTypes DEF CancelRun, RequestCancel, AppendEvent, EventType
  <1> QED
    BY <1>1, <1>2, <1>3, <1>4, <1>5, <1>6, <1>7

(* A step of a RunContext announces the bodies it is about to run. *)
LEMMA ContextKeepsTries ==
  ASSUME TypeOK, KeyInRange, TriesAnnounced, NEW t \in Tasks, ContextStep(t)
  PROVE  TriesAnnounced'
  <1>1. pc[t] \in WorkflowPC => key[t] \in Keys
    BY DEF KeyInRange
  <1>2. CASE WriteStepStarted(t) \/ WriteCrashRetry(t) \/ WriteStepRetried(t)
    <2>1. key[t] \in Keys /\ pc[t] # "invoke"
      BY <1>1, <1>2 DEF WriteStepStarted, WriteCrashRetry, WriteStepRetried, WorkflowPC
    <2>2. \E y \in {"StepStarted", "StepRetried"} : AppendEvent(StepEvent(y, key[t]))
      BY <1>2 DEF WriteStepStarted, WriteCrashRetry, WriteStepRetried, BeginTries
    <2>3. Goto(t, "invoke") /\ UNCHANGED <<key, landed>>
      BY <1>2 DEF WriteStepStarted, WriteCrashRetry, WriteStepRetried, BeginTries
    <2> QED
      BY <2>1, <2>2, <2>3, AnnounceKeepsTries
  <1>3. CASE InvokeLands(t)
    BY <1>1, <1>3, LandKeepsTries DEF InvokeLands, WorkflowPC
  <1>4. ASSUME UNCHANGED landed, pc'[t] # "invoke", \A u \in Tasks \ {t} : pc'[u] = pc[u],
               \A u \in Tasks \ {t} : key'[u] = key[u]
        PROVE  TriesAnnounced'
    BY <1>4, QuietKeepsTries, ContextLog
  <1> USE DEF TypeOK, Goto, storeVars, stepVars
  <1>5. CASE StepReplayed(t) \/ WriteRecovered(t) \/ WriteToolInvoked(t) \/ WriteModelCalled(t)
    BY <1>4, <1>5 DEF StepReplayed, WriteRecovered, WriteToolInvoked, WriteModelCalled, Advance
  <1>6. CASE LeaseGuardPasses(t) \/ WorkflowRaises(t) \/ CancelObserved(t) \/ BudgetBreached(t)
    BY <1>4, <1>6 DEF LeaseGuardPasses, WorkflowRaises, CancelObserved, BudgetBreached
  <1>7. CASE GuardsPass(t) \/ VerifyFinds(t) \/ VerifyFindsNothing(t) \/ VerifyRaises(t)
    BY <1>4, <1>7 DEF GuardsPass, VerifyFinds, VerifyFindsNothing, VerifyRaises, Unverified
  <1>8. CASE InvokeRaises(t) \/ ReturnRaises(t) \/ ReturnUnserialisable(t)
    BY <1>4, <1>8 DEF InvokeRaises, ReturnRaises, ReturnUnserialisable, AfterError
  <1>9. CASE WriteStepCompleted(t) \/ WriteStepFailed(t) \/ SaveModelUsage(t)
    BY <1>4, <1>9 DEF WriteStepCompleted, WriteStepFailed, SaveModelUsage
  <1>10. CASE SaveStepUsage(t)
    BY <1>4, <1>10 DEF SaveStepUsage, Advance
  <1> QED
    BY <1>2, <1>3, <1>5, <1>6, <1>7, <1>8, <1>9, <1>10 DEF ContextStep

(* A step of the engine runs no body. *)
LEMMA EngineKeepsTries ==
  ASSUME TypeOK, TriesAnnounced, NEW t \in Tasks, EngineStep(t)
  PROVE  TriesAnnounced'
  <1>1. ASSUME UNCHANGED landed, pc'[t] # "invoke", \A u \in Tasks \ {t} : pc'[u] = pc[u],
               \A u \in Tasks \ {t} : key'[u] = key[u]
        PROVE  TriesAnnounced'
    BY <1>1, QuietKeepsTries, EngineLog
  <1> USE DEF TypeOK, Goto, storeVars, stepVars
  <1>2. CASE \/ GetRun(t) \/ BumpAttempt(t) \/ WriteRunResumed(t) \/ SetRunning(t)
             \/ RereadRun(t) \/ LoadEvents(t) \/ SetCompletedRaises(t)
    BY <1>1, <1>2 DEF GetRun, BumpAttempt, WriteRunResumed, SetRunning, RereadRun, LoadEvents,
                      SetCompletedRaises
  <1>3. CASE \/ SaveFinalUsage(t) \/ SaveFailedUsage(t) \/ SetCompleted(t)
             \/ SetCancelled(t) \/ SetNeedsReview(t) \/ SetFailed(t)
    BY <1>1, <1>3 DEF SaveFinalUsage, SaveFailedUsage, StoreUsage, SetCompleted, SetCancelled,
                      SetNeedsReview, SetFailed, StoreStatus
  <1>4. CASE \/ WriteRunCompleted(t) \/ WriteRunCancelled(t) \/ WriteNeedsReview(t)
             \/ WriteBudgetExceeded(t) \/ WriteRunFailed(t)
    BY <1>1, <1>4 DEF WriteRunCompleted, WriteRunCancelled, WriteNeedsReview,
                      WriteBudgetExceeded, WriteRunFailed, WriteVerdict
  <1> QED
    BY <1>2, <1>3, <1>4 DEF EngineStep

(* Every step of the system keeps the announcements ahead of the effects. *)
LEMMA TriesStep ==
  ASSUME TypeOK, KeyInRange, TriesAnnounced, [Next]_vars
  PROVE  TriesAnnounced'
  <1>1. ASSUME NEW t \in Tasks, ContextStep(t) \/ EngineStep(t) PROVE TriesAnnounced'
    BY <1>1, ContextKeepsTries, EngineKeepsTries
  <1>2. CASE \/ \E t \in Tasks : \/ Claim(t) \/ LeaseLost(t) \/ Dequeue(t)
                                 \/ DequeueSkipped(t) \/ Release(t)
                                 \/ StoreFault(t) \/ HeartbeatFails(t)
             \/ \E w \in Workers : Crash(w) \/ RequestShutdown(w)
             \/ LeaseLapses \/ DeadlinePasses \/ CancelRun
    <2>1. /\ LogGrows /\ UNCHANGED landed
          /\ \A u \in Tasks : pc'[u] = "invoke" => pc[u] = "invoke" /\ key'[u] = key[u]
      BY <1>2, WorkerLog
    <2> QED
      BY <2>1, QuietKeepsTries
  <1>3. CASE UNCHANGED vars
    <2>1. LogGrows /\ UNCHANGED <<landed, pc, key>>
      BY <1>3 DEF vars, storeVars, taskVars, stepVars, LogGrows
    <2> QED
      BY <2>1, QuietKeepsTries
  <1> QED
    BY <1>1, <1>2, <1>3 DEF Next, TaskStep

(* For any workflow, any number of workers and leases that lapse at any    *)
(* time: no body takes effect more often than the log announces it.        *)
THEOREM EveryEffectAnnounced == Spec => []EffectsAccounted
  <1>1. Init => TriesAnnounced
    <2> SUFFICES ASSUME Init, NEW k \in Keys
                 PROVE  /\ IsFiniteSet(Pending(k))
                        /\ landed[k] + Cardinality(Pending(k)) <= Cardinality(Announced(k))
      BY DEF TriesAnnounced
    <2>1. Pending(k) = {} /\ landed[k] = 0
      BY DEF Init, SubmitRun, Pending
    <2>2. TypeOK /\ (TypeOK => IsFiniteSet(Announced(k)))
      <3>1. TypeOK
        BY DropInvInit DEF DropInv
      <3>2. log \in Seq(Event)
        BY <3>1 DEF TypeOK, StoreTypeOK
      <3> QED
        BY <3>1, <3>2, AtFinite, FS_Union DEF Announced
    <2> QED
      BY <2>1, <2>2, FS_EmptySet, FS_CardinalityType
  <1>2. (DropInv /\ TriesAnnounced) /\ [Next]_vars => (DropInv /\ TriesAnnounced)'
    BY DropInvStep, TriesStep DEF DropInv
  <1>3. DropInv /\ TriesAnnounced => EffectsAccounted
    <2> SUFFICES ASSUME DropInv, TriesAnnounced, NEW k \in Keys
                 PROVE  landed[k] <= Cardinality(Announced(k))
      BY DEF EffectsAccounted, Announced
    <2>1. /\ Cardinality(Pending(k)) \in Nat /\ landed[k] \in Nat
          /\ landed[k] + Cardinality(Pending(k)) <= Cardinality(Announced(k))
      BY FS_CardinalityType DEF TriesAnnounced, DropInv, TypeOK, StoreTypeOK
    <2>2. Cardinality(Announced(k)) \in Nat
      <3>1. log \in Seq(Event)
        BY DEF DropInv, TypeOK, StoreTypeOK
      <3>2. IsFiniteSet(Announced(k))
        BY <3>1, AtFinite, FS_Union DEF Announced
      <3> QED
        BY <3>2, FS_CardinalityType
    <2> QED
      BY <2>1, <2>2
  <1> QED
    BY <1>1, <1>2, <1>3, DropInvInit, PTL DEF Spec

-----------------------------------------------------------------------------
(***************************************************************************)
(* A terminal status repeats a verdict: a task that is about to write the  *)
(* status has logged it, and nothing takes an event out of the log.        *)
(***************************************************************************)

(* The log holds an event of type y. *)
Written(y) == \E i \in DOMAIN log : log[i].type = y

(* A task on its way to a terminal status has written that verdict. *)
VerdictFirst ==
  \A t \in Tasks :
    /\ pc[t] \in {"final_usage", "set_completed"} => Written("RunCompleted")
    /\ pc[t] \in {"failed_usage", "set_failed"} => Written("RunFailed")
    /\ pc[t] = "set_cancelled" => Written("RunCancelled")
    /\ pc[t] = "set_review" => Written("RunNeedsReview")

(* The inductive invariant of the verdict. *)
VerdictInv == VerdictFirst /\ VerdictLogged

(* What VerdictLogged says of the row. *)
LEMMA VerdictOnRow == VerdictLogged <=> (status \in Terminal => Written(VerdictOf(status)))
  BY DEF VerdictLogged, Verdicts, Written

(* What is written stays written. *)
LEMMA WrittenStays ==
  ASSUME TypeOK, LogGrows, NEW y, Written(y)
  PROVE  Written(y)'
  <1>1. CASE log' = log
    BY <1>1 DEF Written
  <1>2. ASSUME NEW e \in Event, log' = Append(log, e) PROVE Written(y)'
    <2>1. PICK i \in DOMAIN log : log[i].type = y
      BY DEF Written
    <2>2. i \in DOMAIN log' /\ log'[i] = log[i]
      BY <1>2, <2>1, AppendGrows DEF TypeOK, StoreTypeOK
    <2> QED
      BY <2>1, <2>2 DEF Written
  <1> QED
    BY <1>1, <1>2 DEF LogGrows

(* An appended event is written. *)
LEMMA AppendWritten ==
  ASSUME TypeOK, NEW e \in Event, AppendEvent(e)
  PROVE  LogGrows /\ Written(e.type)'
  <1>1. log' = Append(log, e) /\ log \in Seq(Event)
    BY DEF TypeOK, StoreTypeOK, AppendEvent
  <1>2. Len(log) + 1 \in DOMAIN log' /\ log'[Len(log) + 1] = e
    BY <1>1, AppendGrows
  <1> QED
    BY <1>1, <1>2 DEF LogGrows, Written

(* A step of a RunContext moves its task within the attempt and touches    *)
(* neither the status nor the queue row.                                   *)
LEMMA ContextFrame ==
  ASSUME TypeOK, NEW t \in Tasks, ContextStep(t)
  PROVE  /\ UNCHANGED <<status, queue, owner>>
         /\ pc[t] \in WorkflowPC \cup {"run_completed"}
         /\ pc'[t] \in WorkflowPC \cup {"run_completed", "run_cancelled", "budget_exceeded",
                                        "run_failed", "needs_review"}
         /\ \A u \in Tasks \ {t} : pc'[u] = pc[u]
  <1> USE DEF TypeOK, Goto, WorkflowPC, EnginePC, storeVars, runVars, queueVars, stepVars
  <1>1. CASE StepReplayed(t) \/ WriteToolInvoked(t) \/ WriteModelCalled(t)
    BY <1>1 DEF StepReplayed, WriteToolInvoked, WriteModelCalled, Advance
  <1>2. CASE LeaseGuardPasses(t) \/ WorkflowRaises(t) \/ CancelObserved(t) \/ BudgetBreached(t)
    BY <1>2 DEF LeaseGuardPasses, WorkflowRaises, CancelObserved, BudgetBreached
  <1>3. CASE GuardsPass(t) \/ VerifyFinds(t) \/ VerifyFindsNothing(t) \/ VerifyRaises(t)
    BY <1>3 DEF GuardsPass, VerifyFinds, VerifyFindsNothing, VerifyRaises, Unverified
  <1>4. CASE WriteRecovered(t)
    BY <1>4 DEF WriteRecovered, Advance
  <1>5. CASE WriteStepStarted(t) \/ WriteCrashRetry(t)
    BY <1>5 DEF WriteStepStarted, WriteCrashRetry, BeginTries
  <1>6. CASE InvokeLands(t) \/ InvokeRaises(t) \/ ReturnRaises(t) \/ ReturnUnserialisable(t)
    BY <1>6 DEF InvokeLands, InvokeRaises, ReturnRaises, ReturnUnserialisable, AfterError
  <1>7. CASE WriteStepCompleted(t) \/ WriteStepRetried(t) \/ WriteStepFailed(t)
    BY <1>7 DEF WriteStepCompleted, WriteStepRetried, WriteStepFailed
  <1>8. CASE SaveStepUsage(t) \/ SaveModelUsage(t)
    BY <1>8 DEF SaveStepUsage, SaveModelUsage, Advance
  <1> QED
    BY <1>1, <1>2, <1>3, <1>4, <1>5, <1>6, <1>7, <1>8 DEF ContextStep

(* Tasks that stay where they are, or go where no verdict is needed. *)
LEMMA QuietKeepsVerdict ==
  ASSUME TypeOK, VerdictInv, LogGrows, status' = status \/ status' \notin Terminal,
         \A u \in Tasks :
           \/ pc'[u] = pc[u]
           \/ pc'[u] \notin {"final_usage", "set_completed", "failed_usage", "set_failed",
                            "set_cancelled", "set_review"}
  PROVE  VerdictInv'
  <1>1. VerdictFirst'
    BY WrittenStays DEF VerdictInv, VerdictFirst
  <1>2. VerdictLogged'
    <2>1. status \in Terminal => Written(VerdictOf(status))
      BY VerdictOnRow DEF VerdictInv
    <2>2. (status \in Terminal => Written(VerdictOf(status)))'
      BY <2>1, WrittenStays
    <2> QED
      BY <2>2 DEF VerdictLogged, Verdicts, Written
  <1> QED
    BY <1>1, <1>2 DEF VerdictInv

(* A task moves on towards the status whose verdict it has written. *)
LEMMA MoveKeepsVerdict ==
  ASSUME TypeOK, VerdictInv, LogGrows, UNCHANGED status, NEW t \in Tasks, NEW l, Goto(t, l),
         l \in {"final_usage", "set_completed"} => Written("RunCompleted")',
         l \in {"failed_usage", "set_failed"} => Written("RunFailed")',
         l = "set_cancelled" => Written("RunCancelled")',
         l = "set_review" => Written("RunNeedsReview")'
  PROVE  VerdictInv'
  <1>1. pc'[t] = l /\ \A u \in Tasks \ {t} : pc'[u] = pc[u]
    BY DEF TypeOK, Goto
  <1>2. VerdictFirst'
    BY <1>1, WrittenStays DEF VerdictInv, VerdictFirst
  <1>3. VerdictLogged'
    <2>1. status \in Terminal => Written(VerdictOf(status))
      BY VerdictOnRow DEF VerdictInv
    <2>2. (status \in Terminal => Written(VerdictOf(status)))'
      BY <2>1, WrittenStays
    <2> QED
      BY <2>2 DEF VerdictLogged, Verdicts, Written
  <1> QED
    BY <1>2, <1>3 DEF VerdictInv

(* A task puts the verdict it has written on the row. *)
LEMMA StatusKeepsVerdict ==
  ASSUME TypeOK, VerdictInv, NEW t \in Tasks, NEW s \in Terminal, SetStatus(s),
         Goto(t, "dequeue"), UNCHANGED log, Written(VerdictOf(s))
  PROVE  VerdictInv'
  <1>1. pc'[t] = "dequeue" /\ \A u \in Tasks \ {t} : pc'[u] = pc[u]
    BY DEF TypeOK, Goto
  <1>2. VerdictFirst'
    BY <1>1 DEF VerdictInv, VerdictFirst, Written
  <1>3. VerdictLogged'
    BY DEF VerdictLogged, Verdicts, Written, SetStatus
  <1> QED
    BY <1>2, <1>3 DEF VerdictInv

(* The engine logs its verdict before it writes the status. *)
LEMMA EngineKeepsVerdict ==
  ASSUME TypeOK, VerdictInv, NEW t \in Tasks, EngineStep(t)
  PROVE  VerdictInv'
  <1>0. LogGrows
    BY EngineLog
  <1> USE DEF storeVars, runVars, queueVars, stepVars
  <1>1. CASE \/ GetRun(t) \/ BumpAttempt(t) \/ WriteRunResumed(t) \/ SetRunning(t)
             \/ RereadRun(t) \/ LoadEvents(t) \/ SetCompletedRaises(t)
    <2>1. /\ status' = status \/ status' \notin Terminal
          /\ \A u \in Tasks :
               \/ pc'[u] = pc[u]
               \/ pc'[u] \in {"dequeue", "bump_attempt", "run_resumed", "set_running", "reread",
                             "load_events", "step", "run_failed", "release"}
      BY <1>1 DEF GetRun, BumpAttempt, WriteRunResumed, SetRunning, RereadRun, LoadEvents,
                  SetCompletedRaises, SetStatus, Terminal, Goto, TypeOK
    <2> QED
      BY <1>0, <2>1, QuietKeepsVerdict
  <1>2. CASE WriteRunCompleted(t)
    <2>1. AppendEvent(RunEvent("RunCompleted")) /\ Goto(t, "final_usage") /\ UNCHANGED status
      BY <1>2 DEF WriteRunCompleted, WriteVerdict
    <2>2. Written("RunCompleted")'
      BY <2>1, EventTypes, AppendWritten DEF EventType, RunEvent
    <2> QED
      BY <1>0, <2>1, <2>2, MoveKeepsVerdict
  <1>3. CASE WriteRunCancelled(t)
    <2>1. AppendEvent(RunEvent("RunCancelled")) /\ Goto(t, "set_cancelled") /\ UNCHANGED status
      BY <1>3 DEF WriteRunCancelled, WriteVerdict
    <2>2. Written("RunCancelled")'
      BY <2>1, EventTypes, AppendWritten DEF EventType, RunEvent
    <2> QED
      BY <1>0, <2>1, <2>2, MoveKeepsVerdict
  <1>4. CASE WriteNeedsReview(t)
    <2>1. /\ AppendEvent(StepEvent("RunNeedsReview", key[t]))
          /\ Goto(t, "set_review") /\ UNCHANGED status /\ key[t] \in Keys \cup {NoKey}
      BY <1>4 DEF WriteNeedsReview, WriteVerdict, TypeOK
    <2>2. Written("RunNeedsReview")'
      BY <2>1, EventTypes, AppendWritten DEF EventType, StepEvent
    <2> QED
      BY <1>0, <2>1, <2>2, MoveKeepsVerdict
  <1>5. CASE WriteBudgetExceeded(t)
    BY <1>0, <1>5, MoveKeepsVerdict DEF WriteBudgetExceeded, WriteVerdict
  <1>6. CASE WriteRunFailed(t)
    <2>1. AppendEvent(RunEvent("RunFailed")) /\ Goto(t, "failed_usage") /\ UNCHANGED status
      BY <1>6 DEF WriteRunFailed, WriteVerdict
    <2>2. Written("RunFailed")'
      BY <2>1, EventTypes, AppendWritten DEF EventType, RunEvent
    <2> QED
      BY <1>0, <2>1, <2>2, MoveKeepsVerdict
  <1>7. CASE SaveFinalUsage(t)
    <2>1. Written("RunCompleted")'
      BY <1>0, <1>7, WrittenStays
      DEF SaveFinalUsage, StoreUsage, VerdictInv, VerdictFirst
    <2> QED
      BY <1>0, <1>7, <2>1, MoveKeepsVerdict DEF SaveFinalUsage, StoreUsage
  <1>8. CASE SaveFailedUsage(t)
    <2>1. Written("RunFailed")'
      BY <1>0, <1>8, WrittenStays
      DEF SaveFailedUsage, StoreUsage, VerdictInv, VerdictFirst
    <2> QED
      BY <1>0, <1>8, <2>1, MoveKeepsVerdict DEF SaveFailedUsage, StoreUsage
  <1>9. CASE SetCompleted(t)
    <2>1. Written(VerdictOf("COMPLETED"))
      BY <1>9 DEF SetCompleted, StoreStatus, VerdictInv, VerdictFirst, VerdictOf
    <2> QED
      BY <1>9, <2>1, StatusKeepsVerdict DEF SetCompleted, StoreStatus, Terminal
  <1>10. CASE SetCancelled(t)
    <2>1. Written(VerdictOf("CANCELLED"))
      BY <1>10 DEF SetCancelled, StoreStatus, VerdictInv, VerdictFirst, VerdictOf
    <2> QED
      BY <1>10, <2>1, StatusKeepsVerdict DEF SetCancelled, StoreStatus, Terminal
  <1>11. CASE SetNeedsReview(t)
    <2>1. Written(VerdictOf("NEEDS_REVIEW"))
      BY <1>11 DEF SetNeedsReview, StoreStatus, VerdictInv, VerdictFirst, VerdictOf
    <2> QED
      BY <1>11, <2>1, StatusKeepsVerdict DEF SetNeedsReview, StoreStatus, Terminal
  <1>12. CASE SetFailed(t)
    <2>1. Written(VerdictOf("FAILED"))
      BY <1>12 DEF SetFailed, StoreStatus, VerdictInv, VerdictFirst, VerdictOf
    <2> QED
      BY <1>12, <2>1, StatusKeepsVerdict DEF SetFailed, StoreStatus, Terminal
  <1> QED
    BY <1>1, <1>2, <1>3, <1>4, <1>5, <1>6, <1>7, <1>8, <1>9, <1>10, <1>11, <1>12 DEF EngineStep

(* Every step of the system keeps the verdicts ahead of the statuses. *)
LEMMA VerdictStep ==
  ASSUME TypeOK, KeyInRange, VerdictInv, [Next]_vars
  PROVE  VerdictInv'
  <1>1. ASSUME NEW t \in Tasks, ContextStep(t) PROVE VerdictInv'
    <2>1. /\ LogGrows /\ UNCHANGED status
          /\ pc'[t] \notin {"final_usage", "set_completed", "failed_usage", "set_failed",
                           "set_cancelled", "set_review"}
          /\ \A u \in Tasks \ {t} : pc'[u] = pc[u]
      BY <1>1, ContextLog, ContextFrame DEF WorkflowPC
    <2> QED
      BY <2>1, QuietKeepsVerdict
  <1>2. CASE \/ \E t \in Tasks : \/ Claim(t) \/ LeaseLost(t) \/ Dequeue(t)
                                 \/ DequeueSkipped(t) \/ Release(t)
                                 \/ StoreFault(t) \/ HeartbeatFails(t)
             \/ \E w \in Workers : Crash(w) \/ RequestShutdown(w)
             \/ LeaseLapses \/ DeadlinePasses \/ CancelRun
    <2>1. /\ LogGrows /\ UNCHANGED status
          /\ \A u \in Tasks : pc'[u] \in {pc[u], "get_run", "run_failed", "release", "idle", "dead"}
      BY <1>2, WorkerLog
    <2> QED
      BY <2>1, QuietKeepsVerdict
  <1>3. CASE UNCHANGED vars
    <2>1. LogGrows /\ UNCHANGED <<status, pc>>
      BY <1>3 DEF vars, storeVars, runVars, taskVars, LogGrows
    <2> QED
      BY <2>1, QuietKeepsVerdict
  <1> QED
    BY <1>1, <1>2, <1>3, EngineKeepsVerdict DEF Next, TaskStep

(* For any workflow, any number of workers and leases that lapse at any    *)
(* time: a terminal status on the row repeats a verdict that is in the     *)
(* log.                                                                    *)
THEOREM NoStatusWithoutVerdict == Spec => []VerdictLogged
  <1>1. Init => VerdictInv
    BY DEF Init, SubmitRun, VerdictInv, VerdictFirst, VerdictLogged, Terminal
  <1>2. (DropInv /\ VerdictInv) /\ [Next]_vars => (DropInv /\ VerdictInv)'
    BY DropInvStep, VerdictStep DEF DropInv
  <1>3. VerdictInv => VerdictLogged
    BY DEF VerdictInv
  <1> QED
    BY <1>1, <1>2, <1>3, DropInvInit, PTL DEF Spec

-----------------------------------------------------------------------------
(***************************************************************************)
(* budget.check() only runs at a step boundary, on the counters of the     *)
(* task.  What a task may still spend before its next boundary is bounded  *)
(* by the tries its retry loop has left, and the persisted counters are    *)
(* always those of some task.                                              *)
(***************************************************************************)

(* Counters within the ceilings, up to the tries of one step. *)
UnderCeiling(u) ==
  /\ \A m \in MaxToolCalls : u.tool_calls < m + StepMaxAttempts
  /\ \A m \in MaxModelCalls : u.model_calls <= m

(* Between the boundary of a step and the first usage saved for it. *)
BoundaryPassed ==
  {"step_started", "verify", "recovered", "crash_retry", "invoke", "landed",
   "step_retried", "step_failed", "save_usage"}

(* What the task at label l with counters u and n tries has left to spend. *)
Headroom(l, u, n) ==
  /\ UnderCeiling(u)
  /\ l \in BoundaryPassed => \A m \in MaxModelCalls : u.model_calls < m
  /\ l \in {"step_started", "verify", "crash_retry"} =>
       \A m \in MaxToolCalls : u.tool_calls < m
  /\ l = "invoke" => \A m \in MaxToolCalls : u.tool_calls + 1 < m + n
  /\ l \in {"landed", "step_retried", "step_failed"} =>
       \A m \in MaxToolCalls : u.tool_calls < m + n
  /\ l \in {"invoke", "landed", "step_failed"} => n \in 1 .. StepMaxAttempts
  /\ l = "step_retried" => n + 1 \in 1 .. StepMaxAttempts

(* The inductive invariant of the ceilings. *)
SpendInv ==
  UnderCeiling(usage) /\ \A t \in Tasks : Headroom(pc[t], spent[t], tries[t])

(* At a label outside a step only the ceilings themselves matter. *)
LEMMA OutsideStep ==
  ASSUME NEW l, NEW u, NEW n, UnderCeiling(u), l \notin BoundaryPassed
  PROVE  Headroom(l, u, n)
  BY DEF Headroom, BoundaryPassed

(* A fresh attempt has spent nothing. *)
LEMMA NothingSpent == UnderCeiling(NoUsage)
  BY BudgetAssumption, ContextAssumption DEF UnderCeiling, NoUsage

(* What a step of one task must respect for the ceilings to hold after it. *)
LEMMA TaskKeepsSpend ==
  ASSUME SpendInv, NEW t \in Tasks,
         \A u \in Tasks \ {t} :
           pc'[u] = pc[u] /\ spent'[u] = spent[u] /\ tries'[u] = tries[u],
         Headroom(pc'[t], spent'[t], tries'[t]),
         usage' = usage \/ usage' = spent[t]
  PROVE  SpendInv'
  <1>1. UnderCeiling(usage')
    BY DEF SpendInv, Headroom
  <1>2. \A u \in Tasks : Headroom(pc'[u], spent'[u], tries'[u])
    BY DEF SpendInv
  <1> QED
    BY <1>1, <1>2 DEF SpendInv, UnderCeiling

(* A budget that is not exceeded has room for one more call of each kind. *)
LEMMA GuardLeavesRoom ==
  ASSUME NEW u \in Usage, ~Exceeded(u, wall = "over")
  PROVE  /\ \A m \in MaxToolCalls : u.tool_calls < m
         /\ \A m \in MaxModelCalls : u.model_calls < m
  BY BudgetAssumption DEF Exceeded, Usage

(* Counting a tool call takes at most one. *)
LEMMA CountSpends ==
  ASSUME TypeOK, NEW t \in Tasks, CountToolCall(t)
  PROVE  /\ spent'[t].tool_calls \in Nat
         /\ spent'[t].tool_calls <= spent[t].tool_calls + 1
         /\ spent'[t].model_calls = spent[t].model_calls
         /\ \A u \in Tasks \ {t} : spent'[u] = spent[u]
  <1>1. spent[t] \in Usage /\ spent \in [Tasks -> Usage]
    BY DEF TypeOK
  <1>2. \A u \in Usage : /\ AddToolCall(u).tool_calls = u.tool_calls + 1
                         /\ AddToolCall(u).model_calls = u.model_calls
                         /\ u.tool_calls \in Nat
    BY DEF Usage, AddToolCall
  <1>3. spent'[t] = spent[t] \/ spent'[t] = AddToolCall(spent[t])
    BY <1>1 DEF CountToolCall
  <1>4. \A u \in Tasks \ {t} : spent'[u] = spent[u]
    BY <1>1 DEF CountToolCall
  <1> QED
    BY <1>1, <1>2, <1>3, <1>4

(* The retry loop of a step spends within what its boundary left. *)
LEMMA ContextKeepsSpend ==
  ASSUME TypeOK, SpendInv, NEW t \in Tasks, ContextStep(t)
  PROVE  SpendInv'
  <1>0. /\ Headroom(pc[t], spent[t], tries[t]) /\ UnderCeiling(spent[t])
        /\ spent[t] \in Usage /\ tries[t] \in Nat
        /\ spent[t].tool_calls \in Nat /\ spent[t].model_calls \in Nat
        /\ StepMaxAttempts \in Nat \ {0}
        /\ MaxToolCalls \subseteq Nat /\ MaxModelCalls \subseteq Nat
    BY ContextAssumption, BudgetAssumption DEF SpendInv, TypeOK, Headroom, Usage
  <1>1. ASSUME NEW l, Goto(t, l), Headroom(l, spent[t], tries[t]),
               UNCHANGED <<spent, tries>>, usage' = usage \/ usage' = spent[t]
        PROVE  SpendInv'
    <2>1. pc'[t] = l /\ \A u \in Tasks \ {t} : pc'[u] = pc[u]
      BY <1>1 DEF TypeOK, Goto
    <2> QED
      BY <1>1, <2>1, TaskKeepsSpend
  <1>2. ASSUME Advance(t), UNCHANGED <<spent, tries>>, usage' = usage \/ usage' = spent[t]
        PROVE  SpendInv'
    <2>1. PICK l \in {"step", "run_completed"} : Goto(t, l)
      BY <1>2 DEF Advance
    <2>2. Headroom(l, spent[t], tries[t])
      BY <1>0, OutsideStep DEF BoundaryPassed
    <2> QED
      BY <1>1, <1>2, <2>1, <2>2
  <1> USE DEF storeVars, runVars, stepVars
  <1>3. CASE \/ StepReplayed(t) \/ WriteRecovered(t)
             \/ WriteToolInvoked(t) \/ WriteModelCalled(t)
    BY <1>2, <1>3 DEF StepReplayed, WriteRecovered, WriteToolInvoked, WriteModelCalled
  <1>4. CASE \/ LeaseGuardPasses(t) \/ WorkflowRaises(t) \/ CancelObserved(t) \/ BudgetBreached(t)
             \/ VerifyRaises(t) \/ ReturnUnserialisable(t) \/ WriteStepFailed(t)
             \/ SaveModelUsage(t)
    <2>1. PICK l \in {"cancel_check", "run_failed", "run_cancelled", "budget_exceeded",
                     "model_called"} : Goto(t, l)
      BY <1>4 DEF LeaseGuardPasses, WorkflowRaises, CancelObserved, BudgetBreached, VerifyRaises,
                  ReturnUnserialisable, WriteStepFailed, SaveModelUsage
    <2>2. UNCHANGED <<spent, tries>> /\ (usage' = usage \/ usage' = spent[t])
      BY <1>4 DEF LeaseGuardPasses, WorkflowRaises, CancelObserved, BudgetBreached, VerifyRaises,
                  ReturnUnserialisable, WriteStepFailed, SaveModelUsage, SaveUsage
    <2>3. Headroom(l, spent[t], tries[t])
      BY <1>0, OutsideStep DEF BoundaryPassed
    <2> QED
      BY <1>1, <2>1, <2>2, <2>3
  <1>5. CASE GuardsPass(t)
    <2>1. PICK l \in {"step_started", "verify", "needs_review", "crash_retry"} : Goto(t, l)
      BY <1>5 DEF GuardsPass, Unverified
    <2>2. UNCHANGED <<spent, tries, usage>> /\ ~Exceeded(spent[t], wall = "over")
      BY <1>5 DEF GuardsPass
    <2>3. Headroom(l, spent[t], tries[t])
      BY <1>0, <2>2, GuardLeavesRoom DEF Headroom
    <2> QED
      BY <1>1, <2>1, <2>2, <2>3
  <1>6. CASE VerifyFinds(t) \/ VerifyFindsNothing(t)
    <2>1. PICK l \in {"recovered", "needs_review", "crash_retry"} : Goto(t, l)
      BY <1>6 DEF VerifyFinds, VerifyFindsNothing, Unverified
    <2>2. UNCHANGED <<spent, tries, usage>> /\ pc[t] = "verify"
      BY <1>6 DEF VerifyFinds, VerifyFindsNothing
    <2>3. Headroom(l, spent[t], tries[t])
      BY <1>0, <2>2 DEF Headroom, BoundaryPassed
    <2> QED
      BY <1>1, <2>1, <2>2, <2>3
  <1>7. CASE WriteStepStarted(t) \/ WriteCrashRetry(t)
    <2>1. /\ pc[t] \in {"step_started", "crash_retry"}
          /\ pc'[t] = "invoke" /\ \A u \in Tasks \ {t} : pc'[u] = pc[u]
          /\ tries'[t] = 1 /\ \A u \in Tasks \ {t} : tries'[u] = tries[u]
          /\ UNCHANGED <<spent, usage>>
      BY <1>7 DEF WriteStepStarted, WriteCrashRetry, BeginTries, Goto, TypeOK
    <2>2. Headroom("invoke", spent[t], 1)
      BY <1>0, <2>1 DEF Headroom, BoundaryPassed
    <2> QED
      BY <2>1, <2>2, TaskKeepsSpend
  <1>8. CASE InvokeLands(t) \/ InvokeRaises(t)
    <2>1. /\ pc[t] = "invoke" /\ CountToolCall(t) /\ UNCHANGED <<tries, usage>>
          /\ \A u \in Tasks \ {t} : pc'[u] = pc[u]
          /\ \/ pc'[t] \in {"landed", "step_failed"}
             \/ pc'[t] = "step_retried" /\ tries[t] < StepMaxAttempts
      BY <1>8 DEF InvokeLands, InvokeRaises, AfterError, Goto, TypeOK
    <2>2. /\ tries[t] \in 1 .. StepMaxAttempts
          /\ \A m \in MaxToolCalls : spent[t].tool_calls + 1 < m + tries[t]
          /\ \A m \in MaxModelCalls : spent[t].model_calls < m
      BY <1>0, <2>1 DEF Headroom, BoundaryPassed
    <2>3. /\ \A m \in MaxToolCalls : spent'[t].tool_calls < m + tries[t]
          /\ \A m \in MaxModelCalls : spent'[t].model_calls < m
          /\ spent'[t].tool_calls \in Nat /\ spent'[t].model_calls \in Nat
          /\ \A u \in Tasks \ {t} : spent'[u] = spent[u]
      <3> DEFINE x == spent[t].tool_calls
                 y == spent'[t].tool_calls
      <3>1. /\ y \in Nat /\ y <= x + 1 /\ spent'[t].model_calls = spent[t].model_calls
            /\ \A u \in Tasks \ {t} : spent'[u] = spent[u]
        BY <2>1, CountSpends
      <3>2. x \in Nat /\ \A m \in MaxToolCalls : m \in Nat /\ x + 1 < m + tries[t]
        BY <1>0, <2>2
      <3> HIDE DEF x, y
      <3>3. \A m \in MaxToolCalls : y < m + tries[t]
        BY <1>0, <3>1, <3>2
      <3> QED
        BY <1>0, <2>2, <3>1, <3>3 DEF y
    <2>4. UnderCeiling(spent'[t])
      <3> DEFINE y == spent'[t].tool_calls
                 z == spent'[t].model_calls
      <3>1. /\ \A m \in MaxToolCalls : m \in Nat /\ y < m + tries[t]
            /\ \A m \in MaxModelCalls : m \in Nat /\ z < m
            /\ y \in Nat /\ z \in Nat
        BY <1>0, <2>3
      <3> HIDE DEF y, z
      <3>2. /\ \A m \in MaxToolCalls : y < m + StepMaxAttempts
            /\ \A m \in MaxModelCalls : z <= m
        BY <1>0, <2>2, <3>1
      <3> QED
        BY <3>2 DEF y, z, UnderCeiling
    <2>5. Headroom(pc'[t], spent'[t], tries'[t])
      BY <1>0, <2>1, <2>2, <2>3, <2>4 DEF Headroom
    <2> QED
      BY <2>1, <2>3, <2>5, TaskKeepsSpend
  <1>9. CASE ReturnRaises(t)
    <2>1. /\ pc[t] = "landed" /\ Goto(t, AfterError(t)) /\ UNCHANGED <<spent, tries, usage>>
      BY <1>9 DEF ReturnRaises
    <2>2. /\ \A m \in MaxModelCalls : spent[t].model_calls < m
          /\ \A m \in MaxToolCalls : spent[t].tool_calls < m + tries[t]
          /\ tries[t] \in 1 .. StepMaxAttempts
      BY <1>0, <2>1 DEF Headroom, BoundaryPassed
    <2>3. tries[t] < StepMaxAttempts => tries[t] + 1 \in 1 .. StepMaxAttempts
      BY <1>0
    <2>4. Headroom(AfterError(t), spent[t], tries[t])
      <3>1. CASE AfterError(t) = "step_retried" /\ tries[t] < StepMaxAttempts
        BY <1>0, <2>2, <2>3, <3>1 DEF Headroom
      <3>2. CASE AfterError(t) = "step_failed"
        BY <1>0, <2>2, <3>2 DEF Headroom
      <3> QED
        BY <3>1, <3>2 DEF AfterError
    <2> QED
      BY <1>1, <2>1, <2>4
  <1>10. CASE WriteStepCompleted(t)
    <2>1. /\ pc[t] = "landed" /\ Goto(t, "save_usage") /\ UNCHANGED <<spent, tries, usage>>
      BY <1>10 DEF WriteStepCompleted
    <2>2. Headroom("save_usage", spent[t], tries[t])
      BY <1>0, <2>1 DEF Headroom, BoundaryPassed
    <2> QED
      BY <1>1, <2>1, <2>2
  <1>11. CASE WriteStepRetried(t)
    <2>1. /\ pc[t] = "step_retried"
          /\ pc'[t] = "invoke" /\ \A u \in Tasks \ {t} : pc'[u] = pc[u]
          /\ tries'[t] = tries[t] + 1 /\ \A u \in Tasks \ {t} : tries'[u] = tries[u]
          /\ UNCHANGED <<spent, usage>>
      BY <1>11 DEF WriteStepRetried, Goto, TypeOK
    <2>2. Headroom("invoke", spent[t], tries[t] + 1)
      BY <1>0, <2>1 DEF Headroom, BoundaryPassed
    <2> QED
      BY <2>1, <2>2, TaskKeepsSpend
  <1>12. CASE SaveStepUsage(t)
    <2>1. pc[t] = "save_usage" /\ usage' = spent[t] /\ UNCHANGED tries
      BY <1>12 DEF SaveStepUsage, SaveUsage
    <2>2. CASE Advance(t) /\ UNCHANGED spent
      BY <1>2, <2>1, <2>2
    <2>3. CASE Goto(t, "tool_invoked") /\ UNCHANGED spent
      <3>1. Headroom("tool_invoked", spent[t], tries[t])
        BY <1>0, OutsideStep DEF BoundaryPassed
      <3> QED
        BY <1>1, <2>1, <2>3, <3>1
    <2>4. CASE /\ Goto(t, "save_model_usage")
               /\ spent' = [spent EXCEPT ![t] = AddModelUsage(spent[t])]
      <3>1. /\ pc'[t] = "save_model_usage" /\ \A u \in Tasks \ {t} : pc'[u] = pc[u]
            /\ spent'[t] = AddModelUsage(spent[t])
            /\ \A u \in Tasks \ {t} : spent'[u] = spent[u]
        BY <2>4 DEF Goto, TypeOK
      <3>2. /\ spent'[t].tool_calls = spent[t].tool_calls
            /\ spent'[t].model_calls = spent[t].model_calls + 1
        BY <1>0, <3>1 DEF AddModelUsage, Usage
      <3>3. \A m \in MaxModelCalls : spent[t].model_calls < m
        BY <1>0, <2>1 DEF Headroom, BoundaryPassed
      <3>4. UnderCeiling(spent'[t])
        <4> DEFINE x == spent[t].model_calls
        <4>1. x \in Nat /\ \A m \in MaxModelCalls : m \in Nat /\ x < m
          BY <1>0, <3>3
        <4> HIDE DEF x
        <4>2. \A m \in MaxModelCalls : x + 1 <= m
          BY <4>1
        <4>3. \A m \in MaxToolCalls : spent[t].tool_calls < m + StepMaxAttempts
          BY <1>0 DEF UnderCeiling
        <4> QED
          BY <3>2, <4>2, <4>3 DEF UnderCeiling, x
      <3>5. Headroom(pc'[t], spent'[t], tries'[t])
        BY <3>1, <3>4, OutsideStep DEF BoundaryPassed
      <3> QED
        BY <2>1, <3>1, <3>5, TaskKeepsSpend
    <2> QED
      BY <1>12, <2>2, <2>3, <2>4 DEF SaveStepUsage
  <1> QED
    BY <1>3, <1>4, <1>5, <1>6, <1>7, <1>8, <1>9, <1>10, <1>11, <1>12 DEF ContextStep

(* The engine saves what a task has spent and loads what one had saved. *)
LEMMA EngineKeepsSpend ==
  ASSUME TypeOK, SpendInv, NEW t \in Tasks, EngineStep(t)
  PROVE  SpendInv'
  <1>1. UnderCeiling(spent[t]) /\ UnderCeiling(usage)
    BY DEF SpendInv, Headroom
  <1>2. /\ pc'[t] \notin BoundaryPassed
        /\ spent'[t] = spent[t] \/ spent'[t] = usage
        /\ usage' = usage \/ usage' = spent[t]
        /\ \A u \in Tasks \ {t} :
             pc'[u] = pc[u] /\ spent'[u] = spent[u] /\ tries'[u] = tries[u]
    <2> USE DEF storeVars, runVars, stepVars, Goto, TypeOK, BoundaryPassed
    <2>1. CASE \/ GetRun(t) \/ BumpAttempt(t) \/ WriteRunResumed(t) \/ SetRunning(t)
               \/ LoadEvents(t) \/ SetCompletedRaises(t)
      BY <2>1 DEF GetRun, BumpAttempt, WriteRunResumed, SetRunning, LoadEvents,
                  SetCompletedRaises
    <2>2. CASE RereadRun(t)
      BY <2>2 DEF RereadRun
    <2>3. CASE \/ SaveFinalUsage(t) \/ SaveFailedUsage(t) \/ SetCompleted(t)
               \/ SetCancelled(t) \/ SetNeedsReview(t) \/ SetFailed(t)
      BY <2>3 DEF SaveFinalUsage, SaveFailedUsage, StoreUsage, SaveUsage, SetCompleted,
                  SetCancelled, SetNeedsReview, SetFailed, StoreStatus
    <2>4. CASE \/ WriteRunCompleted(t) \/ WriteRunCancelled(t) \/ WriteNeedsReview(t)
               \/ WriteBudgetExceeded(t) \/ WriteRunFailed(t)
      BY <2>4 DEF WriteRunCompleted, WriteRunCancelled, WriteNeedsReview,
                  WriteBudgetExceeded, WriteRunFailed, WriteVerdict
    <2> QED
      BY <2>1, <2>2, <2>3, <2>4 DEF EngineStep
  <1>3. Headroom(pc'[t], spent'[t], tries'[t])
    BY <1>1, <1>2, OutsideStep
  <1> QED
    BY <1>2, <1>3, TaskKeepsSpend

(* Every step of the system keeps the counters under the ceilings. *)
LEMMA SpendStep ==
  ASSUME TypeOK, SpendInv, [Next]_vars
  PROVE  SpendInv'
  <1>1. CASE \/ \E t \in Tasks : \/ Claim(t) \/ LeaseLost(t) \/ Dequeue(t)
                                 \/ DequeueSkipped(t) \/ Release(t)
                                 \/ StoreFault(t) \/ HeartbeatFails(t)
             \/ \E w \in Workers : Crash(w) \/ RequestShutdown(w)
             \/ LeaseLapses \/ DeadlinePasses \/ CancelRun
    <2> SUFFICES ASSUME NEW u \in Tasks PROVE Headroom(pc'[u], spent'[u], tries'[u])
      BY <1>1, WorkerLog DEF SpendInv, UnderCeiling
    <2>1. CASE pc'[u] \in {"idle", "dead"} /\ spent'[u] = NoUsage
      BY <2>1, NothingSpent, OutsideStep DEF BoundaryPassed
    <2>2. CASE pc'[u] = pc[u] /\ tries'[u] = tries[u] /\ spent'[u] = spent[u]
      BY <2>2 DEF SpendInv
    <2>3. CASE pc'[u] \in {"get_run", "run_failed", "release"} /\ spent'[u] = spent[u]
      <3>1. UnderCeiling(spent'[u])
        BY <2>3 DEF SpendInv, Headroom
      <3> QED
        BY <2>3, <3>1, OutsideStep DEF BoundaryPassed
    <2> QED
      BY <1>1, <2>1, <2>2, <2>3, WorkerLog
  <1>2. CASE UNCHANGED vars
    BY <1>2 DEF vars, storeVars, runVars, taskVars, stepVars, SpendInv, UnderCeiling
  <1> QED
    BY <1>1, <1>2, ContextKeepsSpend, EngineKeepsSpend DEF Next, TaskStep

(* For any ceilings and retries, any number of workers and leases that     *)
(* lapse at any time: the persisted counters pass a ceiling on tool calls  *)
(* by less than one step's retries, and one on model calls not at all.     *)
THEOREM CeilingsHold == Spec => []SpendWithinCeiling
  <1>1. Init => SpendInv
    BY NothingSpent, OutsideStep DEF Init, SubmitRun, SpendInv, BoundaryPassed
  <1>2. (DropInv /\ SpendInv) /\ [Next]_vars => (DropInv /\ SpendInv)'
    BY DropInvStep, SpendStep DEF DropInv
  <1>3. SpendInv => SpendWithinCeiling
    BY DEF SpendInv, UnderCeiling, SpendWithinCeiling
  <1> QED
    BY <1>1, <1>2, <1>3, DropInvInit, PTL DEF Spec

-----------------------------------------------------------------------------
(***************************************************************************)
(* A task starts from the counters of an earlier attempt and replays the   *)
(* steps they count.  It bills no more model calls than it holds results   *)
(* of model steps, and it holds no result that is not in the log.          *)
(***************************************************************************)

(* The model steps in the log, and those whose result the task holds. *)
Billable == {k \in Models : Completed(k)}
Held(t) == {k \in Models : memo[t][k] # {}}

(* Where the result of the task's step is still open. *)
OpenPC ==
  {"cancel_check", "step_started", "verify", "recovered", "crash_retry", "invoke",
   "landed", "step_retried", "step_failed"}

(* The bill of one task. *)
BillOf(t) ==
  /\ pc[t] \in OpenPC => memo[t][key[t]] = {}
  /\ spent[t].model_calls <= Cardinality(Billable)
  /\ pc[t] \in WorkflowPC => spent[t].model_calls <= Cardinality(Held(t))
  /\ pc[t] = "save_usage" /\ key[t] \in Models => spent[t].model_calls < Cardinality(Held(t))

(* The inductive invariant of the bill. *)
BillInv == BilledAtMostOnce /\ \A t \in Tasks : BillOf(t)

(* Sets of model steps can be counted. *)
LEMMA CountModels ==
  /\ \A S \in SUBSET Models : IsFiniteSet(S) /\ Cardinality(S) \in Nat
  /\ \A S, T \in SUBSET Models : S \subseteq T => Cardinality(S) <= Cardinality(T)
  <1>1. IsFiniteSet(Keys)
    BY NumStepsAssumption, FS_Interval DEF Keys
  <1>2. \A S \in SUBSET Models : IsFiniteSet(S)
    BY <1>1, ContextAssumption, FS_Subset
  <1> QED
    BY <1>2, FS_Subset, FS_CardinalityType

(* The log never loses a completed step. *)
LEMMA BillableGrows ==
  ASSUME \A k \in Keys : Recorded(log, k) # {} => Recorded(log', k) # {}
  PROVE  Cardinality(Billable) <= Cardinality(Billable')
  <1>1. Billable \subseteq Billable' /\ Billable' \subseteq Models
    BY ContextAssumption DEF Billable, Completed
  <1> QED
    BY <1>1, CountModels

(* A task holds results that are in the log. *)
LEMMA HeldIsBillable ==
  ASSUME MemoLogged, NEW t \in Tasks
  PROVE  Cardinality(Held(t)) <= Cardinality(Billable)
  <1>1. Held(t) \subseteq Billable /\ Billable \subseteq Models
    BY ContextAssumption DEF Held, Billable, MemoLogged
  <1> QED
    BY <1>1, CountModels

(* What a step of one task must respect for the bills to stay right. *)
LEMMA TaskKeepsBill ==
  ASSUME TypeOK, BillInv, NEW t \in Tasks,
         \A u \in Tasks \ {t} : /\ pc'[u] = pc[u] /\ key'[u] = key[u]
                                /\ memo'[u] = memo[u] /\ spent'[u] = spent[u],
         \A k \in Keys : Recorded(log, k) # {} => Recorded(log', k) # {},
         BillOf(t)', usage' = usage \/ usage' = spent[t]
  PROVE  BillInv'
  <1>1. /\ Cardinality(Billable) \in Nat /\ Cardinality(Billable') \in Nat
        /\ Cardinality(Billable) <= Cardinality(Billable')
    BY BillableGrows, CountModels DEF Billable
  <1>2. BilledAtMostOnce'
    <2>1. usage'.model_calls \in Nat /\ usage'.model_calls <= Cardinality(Billable)
      <3>1. usage \in Usage /\ spent[t] \in Usage
        BY DEF TypeOK, StoreTypeOK
      <3> QED
        BY <3>1 DEF BillInv, BillOf, BilledAtMostOnce, Billable, Usage
    <2>2. usage'.model_calls <= Cardinality(Billable')
      BY <1>1, <2>1
    <2> QED
      BY <2>2 DEF BilledAtMostOnce, Billable
  <1>3. ASSUME NEW u \in Tasks \ {t} PROVE BillOf(u)'
    <2>1. BillOf(u) /\ Held(u)' = Held(u) /\ spent[u] \in Usage
      BY DEF BillInv, Held, TypeOK
    <2>2. spent'[u].model_calls \in Nat /\ spent'[u].model_calls <= Cardinality(Billable)
      BY <2>1 DEF BillOf, Usage
    <2>3. spent'[u].model_calls <= Cardinality(Billable')
      BY <1>1, <2>2
    <2> QED
      BY <2>1, <2>3 DEF BillOf
  <1> QED
    BY <1>2, <1>3 DEF BillInv

(* A task that moves on with the results and the bill it had. *)
LEMMA MoveKeepsBill ==
  ASSUME TypeOK, BillInv, NEW t \in Tasks, NEW l, Goto(t, l),
         UNCHANGED <<key, memo>>, \A u \in Tasks \ {t} : spent'[u] = spent[u],
         spent'[t].model_calls = spent[t].model_calls,
         \A k \in Keys : Recorded(log', k) = Recorded(log, k),
         l \in OpenPC => memo[t][key[t]] = {},
         l \in WorkflowPC => pc[t] \in WorkflowPC,
         l # "save_usage", usage' = usage \/ usage' = spent[t]
  PROVE  BillInv'
  <1>1. pc'[t] = l /\ \A u \in Tasks \ {t} : pc'[u] = pc[u]
    BY DEF TypeOK, Goto
  <1>2. Held(t)' = Held(t) /\ Billable' = Billable
    BY ContextAssumption DEF Held, Billable, Completed
  <1>3. BillOf(t)'
    BY <1>1, <1>2 DEF BillInv, BillOf
  <1> QED
    BY <1>1, <1>3, TaskKeepsBill

(* A task that goes on to its next step with the bill it had. *)
LEMMA AdvanceKeepsBill ==
  ASSUME TypeOK, BillInv, NEW t \in Tasks, key[t] \in Keys, Advance(t), pc[t] \in WorkflowPC,
         UNCHANGED spent, \A u \in Tasks \ {t} : memo'[u] = memo[u],
         \A k \in Keys : memo[t][k] # {} => memo'[t][k] # {},
         \A k \in Keys : Recorded(log, k) # {} => Recorded(log', k) # {},
         usage' = usage \/ usage' = spent[t]
  PROVE  BillInv'
  <1>1. /\ pc'[t] \in {"step", "run_completed"}
        /\ \A u \in Tasks \ {t} : pc'[u] = pc[u] /\ key'[u] = key[u]
    BY Advances
  <1>2. Held(t) \subseteq Held(t)' /\ Held(t)' \subseteq Models
    BY ContextAssumption DEF Held
  <1>3. /\ Cardinality(Held(t)) <= Cardinality(Held(t)')
        /\ Cardinality(Billable) <= Cardinality(Billable')
        /\ Cardinality(Held(t)) \in Nat /\ Cardinality(Held(t)') \in Nat
        /\ Cardinality(Billable) \in Nat /\ Cardinality(Billable') \in Nat
    BY <1>2, CountModels, BillableGrows DEF Held, Billable
  <1>4. /\ spent[t].model_calls <= Cardinality(Held(t))
        /\ spent[t].model_calls <= Cardinality(Billable)
        /\ spent[t].model_calls \in Nat
    BY DEF BillInv, BillOf, TypeOK, Usage
  <1>5. /\ spent[t].model_calls <= Cardinality(Held(t)')
        /\ spent[t].model_calls <= Cardinality(Billable')
    BY <1>3, <1>4
  <1>6. BillOf(t)'
    BY <1>1, <1>5 DEF BillOf, OpenPC
  <1> QED
    BY <1>1, <1>6, TaskKeepsBill

(* A model call is billed once its result is held. *)
LEMMA ContextKeepsBill ==
  ASSUME TypeOK, KeyInRange, MemoLogged, BillInv, NEW t \in Tasks, ContextStep(t)
  PROVE  BillInv'
  <1>0. /\ pc[t] \in WorkflowPC => key[t] \in Keys
        /\ pc[t] \in OpenPC => memo[t][key[t]] = {}
    BY DEF KeyInRange, BillInv, BillOf
  <1>1. ASSUME NEW y \in EventType \ {"StepCompleted"}, NEW k \in Keys \cup {NoKey},
               AppendEvent(StepEvent(y, k))
        PROVE  \A j \in Keys : Recorded(log', j) = Recorded(log, j)
    BY <1>1, QuietAppend, QuietEvents
  <1> USE DEF storeVars, runVars, queueVars, stepVars
  <1>2. CASE StepReplayed(t)
    BY <1>0, <1>2, AdvanceKeepsBill DEF StepReplayed, WorkflowPC
  <1>3. CASE LeaseGuardPasses(t)
    BY <1>3, MoveKeepsBill DEF LeaseGuardPasses, WorkflowPC
  <1>4. CASE WorkflowRaises(t) \/ CancelObserved(t) \/ BudgetBreached(t)
    <2>1. PICK l \in {"run_failed", "run_cancelled", "budget_exceeded"} : Goto(t, l)
      BY <1>4 DEF WorkflowRaises, CancelObserved, BudgetBreached
    <2> QED
      BY <1>4, <2>1, MoveKeepsBill
      DEF WorkflowRaises, CancelObserved, BudgetBreached, WorkflowPC, OpenPC
  <1>5. CASE GuardsPass(t)
    <2>1. PICK l \in {"step_started", "verify", "needs_review", "crash_retry"} : Goto(t, l)
      BY <1>5 DEF GuardsPass, Unverified
    <2> QED
      BY <1>0, <1>5, <2>1, MoveKeepsBill DEF GuardsPass, WorkflowPC, OpenPC
  <1>6. CASE VerifyFinds(t) \/ VerifyFindsNothing(t) \/ VerifyRaises(t)
    <2>1. PICK l \in {"recovered", "needs_review", "crash_retry", "run_failed"} : Goto(t, l)
      BY <1>6 DEF VerifyFinds, VerifyFindsNothing, VerifyRaises, Unverified
    <2> QED
      BY <1>0, <1>6, <2>1, MoveKeepsBill
      DEF VerifyFinds, VerifyFindsNothing, VerifyRaises, WorkflowPC, OpenPC
  <1>7. CASE WriteRecovered(t)
    <2>1. PICK v \in Results : Complete(t, v)
      BY <1>7 DEF WriteRecovered
    <2>2. key[t] \in Keys /\ pc[t] \in WorkflowPC
      BY <1>0, <1>7 DEF WriteRecovered, WorkflowPC
    <2>3. /\ \A u \in Tasks \ {t} : memo'[u] = memo[u]
          /\ \A k \in Keys : memo[t][k] # {} => memo'[t][k] # {}
          /\ \A k \in Keys : Recorded(log, k) # {} => Recorded(log', k) # {}
      BY <2>1, <2>2, CompleteRecords
    <2> QED
      BY <1>7, <2>2, <2>3, AdvanceKeepsBill DEF WriteRecovered
  <1>8. CASE WriteStepStarted(t) \/ WriteCrashRetry(t) \/ WriteStepRetried(t)
    <2>1. \A j \in Keys : Recorded(log', j) = Recorded(log, j)
      BY <1>1, <1>8 DEF WriteStepStarted, WriteCrashRetry, WriteStepRetried, BeginTries,
                        EventType, TypeOK
    <2>2. /\ Goto(t, "invoke") /\ UNCHANGED <<key, memo, spent, usage>>
          /\ pc[t] \in OpenPC /\ pc[t] \in WorkflowPC
      BY <1>8 DEF WriteStepStarted, WriteCrashRetry, WriteStepRetried, BeginTries, OpenPC,
                  WorkflowPC
    <2> QED
      BY <1>0, <2>1, <2>2, MoveKeepsBill
  <1>9. CASE InvokeLands(t) \/ InvokeRaises(t)
    <2>1. PICK l \in {"landed", "step_retried", "step_failed"} : Goto(t, l)
      BY <1>9 DEF InvokeLands, InvokeRaises, AfterError
    <2>2. /\ UNCHANGED <<key, memo, log, usage>> /\ CountToolCall(t)
          /\ pc[t] \in OpenPC /\ pc[t] \in WorkflowPC
      BY <1>9 DEF InvokeLands, InvokeRaises, OpenPC, WorkflowPC
    <2> QED
      BY <1>0, <2>1, <2>2, CountSpends, MoveKeepsBill
  <1>10. CASE ReturnRaises(t) \/ ReturnUnserialisable(t)
    <2>1. PICK l \in {"step_retried", "step_failed", "run_failed"} : Goto(t, l)
      BY <1>10 DEF ReturnRaises, ReturnUnserialisable, AfterError
    <2> QED
      BY <1>0, <1>10, <2>1, MoveKeepsBill
      DEF ReturnRaises, ReturnUnserialisable, WorkflowPC, OpenPC
  <1>11. CASE WriteStepCompleted(t)
    <2>1. PICK v \in Results : Complete(t, v)
      BY <1>11 DEF WriteStepCompleted
    <2>2. /\ key[t] \in Keys /\ memo[t][key[t]] = {} /\ pc[t] \in WorkflowPC
          /\ UNCHANGED <<key, spent, usage>>
          /\ pc'[t] = "save_usage" /\ \A u \in Tasks \ {t} : pc'[u] = pc[u]
      BY <1>0, <1>11 DEF WriteStepCompleted, WorkflowPC, OpenPC, Goto, TypeOK
    <2>3. /\ memo'[t][key[t]] # {}
          /\ \A k \in Keys \ {key[t]} : memo'[t][k] = memo[t][k]
          /\ \A u \in Tasks \ {t} : memo'[u] = memo[u]
          /\ \A k \in Keys : Recorded(log, k) # {} => Recorded(log', k) # {}
      BY <2>1, <2>2, CompleteRecords
    <2>4. /\ Held(t) \subseteq Held(t)' /\ Held(t)' \subseteq Models
          /\ key[t] \in Models => Held(t)' = Held(t) \cup {key[t]} /\ key[t] \notin Held(t)
      BY <2>2, <2>3, ContextAssumption DEF Held
    <2>5. /\ Cardinality(Held(t)) <= Cardinality(Held(t)')
          /\ key[t] \in Models => Cardinality(Held(t)') = Cardinality(Held(t)) + 1
          /\ Cardinality(Held(t)) \in Nat /\ Cardinality(Held(t)') \in Nat
      <3>1. IsFiniteSet(Held(t)) /\ Held(t) \subseteq Models
        BY CountModels DEF Held
      <3> QED
        BY <2>4, <3>1, CountModels, FS_AddElement
    <2>6. /\ Cardinality(Billable) <= Cardinality(Billable')
          /\ Cardinality(Billable) \in Nat /\ Cardinality(Billable') \in Nat
      BY <2>3, CountModels, BillableGrows DEF Billable
    <2>7. /\ spent[t].model_calls <= Cardinality(Held(t))
          /\ spent[t].model_calls <= Cardinality(Billable)
          /\ spent[t].model_calls \in Nat
      BY <2>2 DEF BillInv, BillOf, TypeOK, Usage
    <2>8. /\ spent[t].model_calls <= Cardinality(Held(t)')
          /\ spent[t].model_calls <= Cardinality(Billable')
          /\ key[t] \in Models => spent[t].model_calls < Cardinality(Held(t)')
      BY <2>5, <2>6, <2>7
    <2>9. BillOf(t)'
      BY <2>2, <2>8 DEF BillOf, OpenPC
    <2> QED
      BY <2>2, <2>3, <2>9, TaskKeepsBill
  <1>12. CASE WriteStepFailed(t)
    <2>1. \A j \in Keys : Recorded(log', j) = Recorded(log, j)
      BY <1>1, <1>12 DEF WriteStepFailed, EventType, TypeOK
    <2> QED
      BY <1>12, <2>1, MoveKeepsBill DEF WriteStepFailed, WorkflowPC, OpenPC
  <1>13. CASE SaveStepUsage(t)
    <2>1. /\ pc[t] = "save_usage" /\ key[t] \in Keys /\ pc[t] \in WorkflowPC
          /\ usage' = spent[t] /\ UNCHANGED <<memo, log>>
      BY <1>0, <1>13 DEF SaveStepUsage, SaveUsage, WorkflowPC
    <2>2. CASE Advance(t) /\ UNCHANGED spent
      BY <2>1, <2>2, AdvanceKeepsBill
    <2>3. CASE Goto(t, "tool_invoked") /\ UNCHANGED <<key, spent>>
      BY <2>1, <2>3, MoveKeepsBill DEF OpenPC
    <2>4. CASE /\ key[t] \in Models /\ Goto(t, "save_model_usage") /\ UNCHANGED key
               /\ spent' = [spent EXCEPT ![t] = AddModelUsage(spent[t])]
      <3>1. /\ pc'[t] = "save_model_usage" /\ \A u \in Tasks \ {t} : pc'[u] = pc[u]
            /\ spent'[t] = AddModelUsage(spent[t])
            /\ \A u \in Tasks \ {t} : spent'[u] = spent[u]
        BY <2>4 DEF Goto, TypeOK
      <3>2. /\ spent[t].model_calls \in Nat
            /\ spent'[t].model_calls = spent[t].model_calls + 1
            /\ spent[t].model_calls < Cardinality(Held(t))
        BY <2>1, <2>4, <3>1 DEF AddModelUsage, Usage, TypeOK, BillInv, BillOf
      <3>3. /\ Cardinality(Held(t)) <= Cardinality(Billable)
            /\ Cardinality(Held(t)) \in Nat /\ Cardinality(Billable) \in Nat
        BY HeldIsBillable, CountModels DEF Held, Billable
      <3>4. /\ spent'[t].model_calls <= Cardinality(Held(t))
            /\ spent'[t].model_calls <= Cardinality(Billable)
        BY <3>2, <3>3
      <3>5. Held(t)' = Held(t) /\ Billable' = Billable
        BY <2>1 DEF Held, Billable, Completed
      <3>6. BillOf(t)'
        BY <3>1, <3>4, <3>5 DEF BillOf, OpenPC
      <3> QED
        BY <2>1, <2>4, <3>1, <3>6, TaskKeepsBill
    <2> QED
      BY <1>13, <2>2, <2>3, <2>4 DEF SaveStepUsage
  <1>14. CASE WriteToolInvoked(t) \/ WriteModelCalled(t)
    <2>1. \A j \in Keys : Recorded(log', j) = Recorded(log, j)
      BY <1>1, <1>14 DEF WriteToolInvoked, WriteModelCalled, EventType, TypeOK
    <2>2. key[t] \in Keys /\ pc[t] \in WorkflowPC
      BY <1>0, <1>14 DEF WriteToolInvoked, WriteModelCalled, WorkflowPC
    <2> QED
      BY <1>14, <2>1, <2>2, AdvanceKeepsBill DEF WriteToolInvoked, WriteModelCalled
  <1>15. CASE SaveModelUsage(t)
    BY <1>15, MoveKeepsBill DEF SaveModelUsage, SaveUsage, WorkflowPC, OpenPC
  <1> QED
    BY <1>2, <1>3, <1>4, <1>5, <1>6, <1>7, <1>8, <1>9, <1>10, <1>11, <1>12, <1>13, <1>14, <1>15
    DEF ContextStep

(* An attempt begins with the counters and the results that are stored. *)
LEMMA EngineKeepsBill ==
  ASSUME TypeOK, MemoLogged, BillInv, NEW t \in Tasks, EngineStep(t)
  PROVE  BillInv'
  <1>0. ASSUME NEW y \in EventType \ {"StepCompleted"}, NEW k \in Keys \cup {NoKey},
               AppendEvent(RunEvent(y)) \/ AppendEvent(StepEvent(y, k))
        PROVE  \A j \in Keys : Recorded(log', j) = Recorded(log, j)
    BY <1>0, QuietAppend, QuietEvents
  <1> USE DEF storeVars, runVars, queueVars, stepVars
  <1>1. CASE GetRun(t) \/ BumpAttempt(t) \/ SetRunning(t) \/ SetCompletedRaises(t)
    <2>1. PICK l \in {"dequeue", "bump_attempt", "run_resumed", "set_running", "reread",
                     "release"} : Goto(t, l)
      BY <1>1 DEF GetRun, BumpAttempt, SetRunning, SetCompletedRaises
    <2> QED
      BY <1>1, <2>1, MoveKeepsBill
      DEF GetRun, BumpAttempt, SetRunning, SetCompletedRaises, WorkflowPC, OpenPC
  <1>2. CASE WriteRunResumed(t)
    <2>1. \A j \in Keys : Recorded(log', j) = Recorded(log, j)
      BY <1>0, <1>2 DEF WriteRunResumed, EventType
    <2> QED
      BY <1>2, <2>1, MoveKeepsBill DEF WriteRunResumed, WorkflowPC, OpenPC
  <1>3. CASE RereadRun(t)
    <2>1. /\ pc'[t] = "load_events" /\ \A u \in Tasks \ {t} : pc'[u] = pc[u]
          /\ spent'[t] = usage /\ \A u \in Tasks \ {t} : spent'[u] = spent[u]
          /\ UNCHANGED <<key, memo, log, usage>>
      BY <1>3 DEF RereadRun, Goto, TypeOK
    <2>2. Billable' = Billable /\ usage.model_calls <= Cardinality(Billable)
      BY <2>1 DEF Billable, Completed, BillInv, BilledAtMostOnce
    <2>3. BillOf(t)'
      BY <2>1, <2>2 DEF BillOf, WorkflowPC, OpenPC
    <2> QED
      BY <2>1, <2>3, TaskKeepsBill
  <1>4. CASE LoadEvents(t)
    <2>1. /\ pc'[t] \in {"step", "run_failed"} /\ \A u \in Tasks \ {t} : pc'[u] = pc[u]
          /\ memo'[t] = [k \in Keys |-> Recorded(log, k)]
          /\ \A u \in Tasks \ {t} : memo'[u] = memo[u] /\ key'[u] = key[u]
          /\ UNCHANGED <<spent, log, usage>>
      BY <1>4 DEF LoadEvents, Goto, TypeOK
    <2>2. Held(t)' = Billable' /\ Billable' = Billable
      BY <2>1, ContextAssumption DEF Held, Billable, Completed
    <2>3. BillOf(t)'
      BY <2>1, <2>2 DEF BillOf, BillInv, OpenPC
    <2> QED
      BY <2>1, <2>3, TaskKeepsBill
  <1>5. CASE SaveFinalUsage(t) \/ SaveFailedUsage(t)
    <2>1. PICK l \in {"set_completed", "set_failed"} : Goto(t, l)
      BY <1>5 DEF SaveFinalUsage, SaveFailedUsage, StoreUsage
    <2> QED
      BY <1>5, <2>1, MoveKeepsBill
      DEF SaveFinalUsage, SaveFailedUsage, StoreUsage, SaveUsage, WorkflowPC, OpenPC
  <1>6. CASE SetCompleted(t) \/ SetCancelled(t) \/ SetNeedsReview(t) \/ SetFailed(t)
    BY <1>6, MoveKeepsBill
    DEF SetCompleted, SetCancelled, SetNeedsReview, SetFailed, StoreStatus, WorkflowPC, OpenPC
  <1>7. CASE \/ WriteRunCompleted(t) \/ WriteRunCancelled(t) \/ WriteNeedsReview(t)
             \/ WriteBudgetExceeded(t) \/ WriteRunFailed(t)
    <2>1. \A j \in Keys : Recorded(log', j) = Recorded(log, j)
      BY <1>0, <1>7 DEF WriteRunCompleted, WriteRunCancelled, WriteNeedsReview,
                        WriteBudgetExceeded, WriteRunFailed, WriteVerdict, EventType, TypeOK
    <2>2. PICK l \in {"final_usage", "set_cancelled", "set_review", "run_failed",
                     "failed_usage"} : Goto(t, l)
      BY <1>7 DEF WriteRunCompleted, WriteRunCancelled, WriteNeedsReview, WriteBudgetExceeded,
                  WriteRunFailed, WriteVerdict
    <2> QED
      BY <1>7, <2>1, <2>2, MoveKeepsBill
      DEF WriteRunCompleted, WriteRunCancelled, WriteNeedsReview, WriteBudgetExceeded,
          WriteRunFailed, WriteVerdict, WorkflowPC, OpenPC
  <1> QED
    BY <1>1, <1>2, <1>3, <1>4, <1>5, <1>6, <1>7 DEF EngineStep

(* Every step of the system keeps the bills right. *)
LEMMA BillStep ==
  ASSUME DropInv, BillInv, [Next]_vars
  PROVE  BillInv'
  <1>0. TypeOK /\ KeyInRange /\ MemoLogged
    BY DEF DropInv
  <1>1. CASE \/ \E t \in Tasks : \/ Claim(t) \/ LeaseLost(t) \/ Dequeue(t)
                                 \/ DequeueSkipped(t) \/ Release(t)
                                 \/ StoreFault(t) \/ HeartbeatFails(t)
             \/ \E w \in Workers : Crash(w) \/ RequestShutdown(w)
             \/ LeaseLapses \/ DeadlinePasses \/ CancelRun
    <2>1. UNCHANGED usage /\ \A k \in Keys : Recorded(log', k) = Recorded(log, k)
      <3>1. CASE CancelRun
        BY <1>0, <3>1, QuietAppend, QuietEvents
        DEF CancelRun, RequestCancel, EventType
      <3>2. CASE UNCHANGED storeVars \/ UNCHANGED <<runVars, log>>
        BY <3>2 DEF storeVars, runVars
      <3> QED
        BY <1>1, <3>1, <3>2
        DEF Claim, LeaseLost, Dequeue, DequeueSkipped, Release, StoreFault, HeartbeatFails,
            Crash, RequestShutdown, LeaseLapses, DeadlinePasses
    <2>2. Billable' = Billable
      BY <2>1, ContextAssumption DEF Billable, Completed
    <2>3. ASSUME NEW u \in Tasks PROVE BillOf(u)'
      <3>1. CASE pc'[u] \in {"idle", "dead"} /\ spent'[u] = NoUsage
        <4>1. 0 <= Cardinality(Billable)
          BY CountModels DEF Billable
        <4> QED
          BY <2>2, <3>1, <4>1 DEF BillOf, NoUsage, WorkflowPC, OpenPC
      <3>2. CASE /\ pc'[u] \in {pc[u], "get_run", "run_failed", "release"}
                 /\ key'[u] = key[u] /\ memo'[u] = memo[u] /\ spent'[u] = spent[u]
        <4>1. Held(u)' = Held(u) /\ BillOf(u)
          BY <3>2 DEF Held, BillInv
        <4> QED
          BY <2>2, <3>2, <4>1 DEF BillOf, WorkflowPC, OpenPC
      <3> QED
        BY <1>0, <1>1, <3>1, <3>2, WorkerLog
    <2> QED
      BY <2>1, <2>2, <2>3 DEF BillInv, BilledAtMostOnce, Billable
  <1>2. CASE UNCHANGED vars
    BY <1>2 DEF vars, storeVars, runVars, taskVars, stepVars, BillInv, BilledAtMostOnce, BillOf,
                Billable, Held, Completed
  <1> QED
    BY <1>0, <1>1, <1>2, ContextKeepsBill, EngineKeepsBill DEF Next, TaskStep

(* Nothing has been billed of a submitted run. *)
LEMMA BillInvInit == Init => BillInv
  <1> SUFFICES ASSUME Init PROVE BillInv
    OBVIOUS
  <1>1. 0 <= Cardinality(Billable)
    BY CountModels DEF Billable
  <1>2. usage.model_calls = 0 /\ \A t \in Tasks : spent[t].model_calls = 0 /\ pc[t] = "idle"
    BY DEF Init, SubmitRun, NoUsage
  <1> QED
    BY <1>1, <1>2 DEF BillInv, BilledAtMostOnce, BillOf, Billable, WorkflowPC, OpenPC

(* For any workflow, any number of workers and leases that lapse at any    *)
(* time: the persisted usage counts no more model calls than the log has   *)
(* completed model steps, however often the run was resumed.               *)
THEOREM NothingBilledTwice == Spec => []BilledAtMostOnce
  <1>1. (DropInv /\ BillInv) /\ [Next]_vars => (DropInv /\ BillInv)'
    BY DropInvStep, BillStep
  <1>2. BillInv => BilledAtMostOnce
    BY DEF BillInv
  <1> QED
    BY <1>1, <1>2, BillInvInit, DropInvInit, PTL DEF Spec

-----------------------------------------------------------------------------
(***************************************************************************)
(* What timely leases buy: one owner, final statuses, no lost run.         *)
(*                                                                         *)
(* set_status and dequeue look at nothing before they write, so neither    *)
(* TerminalIsFinal nor NotStranded follows from what the store does.  They *)
(* follow from mutual exclusion: the only task that works on the run has   *)
(* itself read a status that was not terminal, or is past its last write.  *)
(***************************************************************************)

(* A task deletes the queue row only after the run has a terminal status. *)
VerdictBeforeDequeue ==
  \A t \in Tasks : pc[t] = "dequeue" => status \in Terminal

(* Once the status is terminal, no task is inside an attempt. *)
SettledRun ==
  status \in Terminal =>
    \A t \in Tasks : Active(t) => pc[t] \in {"get_run", "dequeue", "release"}

(* The inductive invariant of ownership. *)
OwnInv ==
  TypeOK /\ SingleOwner /\ NotStranded /\ VerdictBeforeDequeue /\ SettledRun

(* A step of the engine leaves the queue row alone.  It goes to dequeue    *)
(* with a terminal status, and it changes the status only in an attempt    *)
(* that got past its first read of the run.                                *)
LEMMA EngineFrame ==
  ASSUME TypeOK, NEW t \in Tasks, EngineStep(t)
  PROVE  /\ UNCHANGED <<queue, owner>>
         /\ pc[t] \in EnginePC
         /\ pc'[t] \in (WorkflowPC \cup EnginePC \cup {"dequeue", "release"}) \ {"get_run"}
         /\ \A u \in Tasks \ {t} : pc'[u] = pc[u]
         /\ pc'[t] = "dequeue" => status' \in Terminal
         /\ status' \in Terminal => pc'[t] = "dequeue" \/ status' = status
         /\ pc[t] = "get_run" =>
              status' = status /\ (status \in Terminal => pc'[t] = "dequeue")
  <1> USE DEF TypeOK, Goto, WorkflowPC, EnginePC, storeVars, runVars, queueVars, stepVars
  <1>1. CASE GetRun(t)
    BY <1>1 DEF GetRun
  <1>2. CASE BumpAttempt(t) \/ WriteRunResumed(t) \/ RereadRun(t) \/ LoadEvents(t)
    BY <1>2 DEF BumpAttempt, WriteRunResumed, RereadRun, LoadEvents
  <1>3. CASE SetRunning(t)
    BY <1>3 DEF SetRunning, SetStatus, Terminal
  <1>4. CASE \/ WriteRunCompleted(t) \/ WriteRunCancelled(t) \/ WriteNeedsReview(t)
             \/ WriteBudgetExceeded(t) \/ WriteRunFailed(t)
    BY <1>4 DEF WriteRunCompleted, WriteRunCancelled, WriteNeedsReview, WriteBudgetExceeded,
                WriteRunFailed, WriteVerdict
  <1>5. CASE SaveFinalUsage(t) \/ SaveFailedUsage(t) \/ SetCompletedRaises(t)
    BY <1>5 DEF SaveFinalUsage, SaveFailedUsage, SetCompletedRaises, StoreUsage
  <1>6. CASE SetCompleted(t) \/ SetCancelled(t) \/ SetNeedsReview(t) \/ SetFailed(t)
    BY <1>6 DEF SetCompleted, SetCancelled, SetNeedsReview, SetFailed, StoreStatus,
                SetStatus, Terminal
  <1> QED
    BY <1>1, <1>2, <1>3, <1>4, <1>5, <1>6 DEF EngineStep

(* A step inside an attempt, seen from the lease. *)
LEMMA AttemptStepOwned ==
  ASSUME OwnInv, TypeOK', NEW t \in Tasks, ContextStep(t) \/ EngineStep(t)
  PROVE  OwnInv' /\ (status \in Terminal => status' = status)
  <1> USE DEF OwnInv
  <1>1. /\ UNCHANGED <<queue, owner>>
        /\ pc[t] \in WorkflowPC \cup EnginePC
        /\ pc'[t] \notin {"idle", "dead", "get_run"}
        /\ \A u \in Tasks \ {t} : pc'[u] = pc[u]
        /\ pc'[t] = "dequeue" => status' \in Terminal
        /\ status' \in Terminal => pc'[t] = "dequeue" \/ status' = status
        /\ pc[t] = "get_run" =>
             status' = status /\ (status \in Terminal => pc'[t] = "dequeue")
    <2>1. CASE ContextStep(t)
      BY <2>1, ContextFrame DEF WorkflowPC, EnginePC
    <2>2. CASE EngineStep(t)
      BY <2>2, EngineFrame DEF WorkflowPC, EnginePC
    <2> QED
      BY <2>1, <2>2
  <1>2. Active(t) /\ HoldsLease(WorkerOf(t)) /\ \A u \in Tasks \ {t} : ~Active(u)
    BY <1>1 DEF Active, SingleOwner, WorkflowPC, EnginePC
  <1>3. status \in Terminal => pc[t] = "get_run"
    BY <1>1, <1>2 DEF SettledRun, WorkflowPC, EnginePC
  <1>4. SingleOwner'
    BY <1>1, <1>2 DEF SingleOwner, Active, HoldsLease
  <1>5. NotStranded'
    BY <1>1, <1>2 DEF NotStranded, HoldsLease
  <1>6. VerdictBeforeDequeue'
    BY <1>1, <1>2 DEF VerdictBeforeDequeue, Active
  <1>7. SettledRun'
    BY <1>1, <1>2, <1>3 DEF SettledRun, Active
  <1> QED
    BY <1>1, <1>3, <1>4, <1>5, <1>6, <1>7

(* What a task leaves behind when it ends without a word to the queue. *)
LEMMA LeaveOwned ==
  ASSUME OwnInv, TypeOK', NEW S, NEW l \in {"idle", "dead"}, Leave(S, l),
         UNCHANGED <<status, queue, owner>>
  PROVE  OwnInv'
  <1>1. \A u \in Tasks : pc'[u] = l \/ pc'[u] = pc[u]
    BY DEF Leave
  <1>2. SingleOwner'
    BY <1>1 DEF OwnInv, SingleOwner, Active, HoldsLease
  <1>3. NotStranded' /\ VerdictBeforeDequeue' /\ SettledRun'
    BY <1>1 DEF OwnInv, NotStranded, VerdictBeforeDequeue, SettledRun, Active
  <1> QED
    BY <1>2, <1>3 DEF OwnInv

(* The last word of the only active task: it frees or deletes the row. *)
LEMMA HandBackOwned ==
  ASSUME OwnInv, TypeOK', NEW t \in Tasks, Active(t), Leave({t}, "idle"),
         UNCHANGED status, queue' # "absent" \/ status \in Terminal
  PROVE  OwnInv'
  <1>1. \A u \in Tasks : ~Active(u)'
    BY DEF OwnInv, SingleOwner, Active, Leave
  <1> QED
    BY <1>1 DEF OwnInv, SingleOwner, NotStranded, VerdictBeforeDequeue, SettledRun, Active

(* Workers, the clock and the API, as long as leases are renewed in time. *)
LEMMA WorkerStepOwned ==
  ASSUME Timely, OwnInv,
         \/ \E t \in Tasks : \/ Claim(t) \/ LeaseLost(t) \/ Dequeue(t)
                             \/ DequeueSkipped(t) \/ Release(t)
                             \/ StoreFault(t) \/ HeartbeatFails(t)
         \/ \E w \in Workers : Crash(w) \/ RequestShutdown(w)
         \/ LeaseLapses \/ DeadlinePasses \/ CancelRun
  PROVE  OwnInv' /\ UNCHANGED status
  <1>0. TypeOK /\ TypeOK'
    BY WorkerStepTyped DEF OwnInv
  <1> USE <1>0 DEF storeVars, runVars, queueVars, stepVars, taskVars
  <1>1. ASSUME NEW t \in Tasks, Claim(t) PROVE OwnInv' /\ UNCHANGED status
    <2>1. /\ queue \in {"free", "lapsed"} /\ UNCHANGED status
          /\ queue' = "held" /\ owner' = WorkerOf(t)
          /\ pc'[t] = "get_run" /\ \A u \in Tasks \ {t} : pc'[u] = pc[u]
      BY <1>1 DEF Claim, ClaimRow, Claimable, Goto, TypeOK
    <2>2. \A u \in Tasks : ~Active(u)
      BY <2>1 DEF OwnInv, SingleOwner, HoldsLease
    <2>3. SingleOwner'
      BY <2>1, <2>2 DEF SingleOwner, HoldsLease, Active
    <2>4. NotStranded' /\ VerdictBeforeDequeue' /\ SettledRun'
      BY <2>1, <2>2 DEF OwnInv, NotStranded, VerdictBeforeDequeue, SettledRun, Active
    <2> QED
      BY <2>1, <2>3, <2>4 DEF OwnInv
  <1>2. ASSUME NEW t \in Tasks, LeaseLost(t) PROVE OwnInv' /\ UNCHANGED status
    BY <1>2, LeaveOwned DEF LeaseLost
  <1>3. ASSUME NEW t \in Tasks, Dequeue(t) PROVE OwnInv' /\ UNCHANGED status
    <2>1. Active(t) /\ status \in Terminal /\ UNCHANGED status /\ Leave({t}, "idle")
      BY <1>3 DEF Dequeue, Active, OwnInv, VerdictBeforeDequeue
    <2> QED
      BY <2>1, HandBackOwned
  <1>4. ASSUME NEW t \in Tasks, DequeueSkipped(t) PROVE OwnInv' /\ UNCHANGED status
    BY <1>4, LeaveOwned DEF DequeueSkipped
  <1>5. ASSUME NEW t \in Tasks, Release(t) PROVE OwnInv' /\ UNCHANGED status
    <2>1. Active(t) /\ UNCHANGED status /\ Leave({t}, "idle")
      BY <1>5 DEF Release, Active
    <2>2. queue = "held"
      BY <2>1 DEF OwnInv, SingleOwner, HoldsLease
    <2>3. queue' # "absent"
      BY <1>5, <2>2 DEF Release, ReleaseRow
    <2> QED
      BY <2>1, <2>3, HandBackOwned
  <1>6. ASSUME NEW t \in Tasks, StoreFault(t) PROVE OwnInv' /\ UNCHANGED status
    <2>1. UNCHANGED <<status, queue, owner>>
      BY <1>6 DEF StoreFault
    <2>2. CASE Leave({t}, "idle")
      BY <2>1, <2>2, LeaveOwned
    <2>3. CASE \/ pc[t] \in WorkflowPC \cup {"run_completed"} /\ Goto(t, "run_failed")
               \/ pc[t] \in EnginePC \cup {"dequeue"} /\ Goto(t, "release")
      <3>1. /\ Active(t) /\ pc'[t] \in {"run_failed", "release"}
            /\ \A u \in Tasks \ {t} : pc'[u] = pc[u]
        BY <2>3 DEF Active, Goto, TypeOK, WorkflowPC, EnginePC
      <3>2. pc[t] \in WorkflowPC \cup {"run_completed"} => status \notin Terminal
        BY <3>1 DEF OwnInv, SettledRun, WorkflowPC
      <3>3. status \in Terminal => pc'[t] = "release"
        BY <2>3, <3>2 DEF Goto, TypeOK
      <3>4. SingleOwner' /\ NotStranded' /\ VerdictBeforeDequeue'
        BY <2>1, <3>1 DEF OwnInv, SingleOwner, NotStranded, VerdictBeforeDequeue, Active,
                          HoldsLease
      <3>5. SettledRun'
        BY <2>1, <3>1, <3>3 DEF OwnInv, SettledRun, Active
      <3> QED
        BY <2>1, <3>4, <3>5 DEF OwnInv
    <2> QED
      BY <1>6, <2>2, <2>3 DEF StoreFault
  <1>7. ASSUME NEW t \in Tasks, HeartbeatFails(t) PROVE OwnInv' /\ UNCHANGED status
    BY <1>7 DEF HeartbeatFails, OwnInv, SingleOwner, NotStranded, VerdictBeforeDequeue,
                SettledRun, Active, HoldsLease
  <1>8. ASSUME NEW w \in Workers, Crash(w) PROVE OwnInv' /\ UNCHANGED status
    BY <1>8, LeaveOwned DEF Crash
  <1>9. ASSUME UNCHANGED <<status, queue, owner, pc>> PROVE OwnInv' /\ UNCHANGED status
    BY <1>9 DEF OwnInv, SingleOwner, NotStranded, VerdictBeforeDequeue, SettledRun, Active,
                HoldsLease
  <1>10. CASE LeaseLapses
    <2>1. \A u \in Tasks : ~Active(u)
      BY <1>10 DEF LeaseLapses, OwnInv, SingleOwner, HoldsLease
    <2> QED
      BY <1>10, <2>1 DEF LeaseLapses, OwnInv, SingleOwner, NotStranded,
                         VerdictBeforeDequeue, SettledRun, Active
  <1>11. CASE DeadlinePasses \/ CancelRun \/ \E w \in Workers : RequestShutdown(w)
    BY <1>9, <1>11 DEF DeadlinePasses, CancelRun, RequestCancel, RequestShutdown
  <1> QED
    BY <1>1, <1>2, <1>3, <1>4, <1>5, <1>6, <1>7, <1>8, <1>10, <1>11

(* Every step keeps ownership, and a terminal status survives it. *)
LEMMA OwnInvStep ==
  ASSUME Timely, OwnInv, KeyInRange, [Next]_vars
  PROVE  OwnInv' /\ (status \in Terminal => status' = status)
  <1>1. ASSUME NEW t \in Tasks, ContextStep(t), UNCHANGED <<wall, workerVars>>
        PROVE  OwnInv' /\ (status \in Terminal => status' = status)
    BY <1>1, AttemptStepOwned, ContextStepTyped DEF OwnInv
  <1>2. ASSUME NEW t \in Tasks, EngineStep(t), UNCHANGED <<wall, workerVars>>
        PROVE  OwnInv' /\ (status \in Terminal => status' = status)
    BY <1>2, AttemptStepOwned, EngineStepTyped DEF OwnInv
  <1>3. CASE UNCHANGED vars
    BY <1>3 DEF OwnInv, TypeOK, StoreTypeOK, SingleOwner, NotStranded, VerdictBeforeDequeue,
                SettledRun, Active, HoldsLease, vars, storeVars, runVars, queueVars,
                stepVars, taskVars, workerVars
  <1> QED
    BY <1>1, <1>2, <1>3, WorkerStepOwned DEF Next, TaskStep

(* The submitted run, before any worker has seen it, is in good order. *)
LEMMA OwnInvInit == Init => OwnInv
  <1> SUFFICES ASSUME Init PROVE OwnInv
    OBVIOUS
  <1>1. TypeOK
    BY DropInvInit DEF DropInv
  <1>2. \A t \in Tasks : ~Active(t)
    BY DEF Init, Active
  <1> QED
    BY <1>1, <1>2 DEF OwnInv, SingleOwner, NotStranded, VerdictBeforeDequeue, SettledRun,
                      Init, SubmitRun, Terminal, Active

(* Ownership is an invariant of the timely system. *)
LEMMA Ownership == ASSUME Timely PROVE Spec => [](OwnInv /\ DropInv)
  <1>1. Init => OwnInv /\ DropInv
    BY OwnInvInit, DropInvInit
  <1>2. (OwnInv /\ DropInv) /\ [Next]_vars => (OwnInv /\ DropInv)'
    BY OwnInvStep, DropInvStep DEF DropInv
  <1> QED
    BY <1>1, <1>2, PTL DEF Spec

(* With timely leases, for any number of workers and tasks, at most        *)
(* one task works on the run and its worker holds the lease.               *)
THEOREM OneOwner == ASSUME Timely PROVE Spec => []SingleOwner
  <1>1. OwnInv => SingleOwner
    BY DEF OwnInv
  <1> QED
    BY <1>1, Ownership, PTL

(* With timely leases a run that is not finished can still be claimed      *)
(* or is being worked on: its queue row exists.                            *)
THEOREM NoRunStranded == ASSUME Timely PROVE Spec => []NotStranded
  <1>1. OwnInv => NotStranded
    BY DEF OwnInv
  <1> QED
    BY <1>1, Ownership, PTL

(* With timely leases the unconditional set_status never overwrites a      *)
(* terminal status.                                                        *)
THEOREM StatusFinal == ASSUME Timely PROVE Spec => TerminalIsFinal
  <1>1. (OwnInv /\ DropInv) /\ [Next]_vars => [(status \in Terminal) => (status' = status)]_vars
    BY OwnInvStep DEF DropInv
  <1> QED
    BY <1>1, Ownership, PTL DEF Spec, TerminalIsFinal

-----------------------------------------------------------------------------
(***************************************************************************)
(* Once there is one owner, what an attempt read when it began stays true: *)
(* nobody else writes outcomes, so its memo is the log's and its           *)
(* unresolved steps are the log's, up to the step it is at.                *)
(***************************************************************************)

(* Where the task has done nothing about its step yet. *)
BeforeBody == {"step", "cancel_check", "step_started", "verify", "recovered", "crash_retry"}

(* A step that only a person can settle. *)
ReviewDue(k) ==
  /\ k \in AtMostOnce \cap Unresolved(log)
  /\ k \in Verifiable => landed[k] = 0

(* What the task knows of the log, and what brought it where it is. *)
Current(t) ==
  /\ pc[t] \in WorkflowPC =>
       /\ \A k \in Keys : memo[t][k] = Recorded(log, k)
       /\ \A k \in Keys : k > key[t] => (k \in unresolved[t] <=> k \in Unresolved(log))
  /\ pc[t] \in BeforeBody => (key[t] \in unresolved[t] <=> key[t] \in Unresolved(log))
  /\ pc[t] \in {"verify", "recovered", "crash_retry"} => key[t] \in unresolved[t]
  /\ pc[t] \in {"verify", "recovered"} => key[t] \in Verifiable
  /\ pc[t] = "step_started" => key[t] \notin unresolved[t]
  /\ pc[t] = "crash_retry" => key[t] \notin AtMostOnce
  /\ pc[t] \in {"invoke", "landed", "step_retried", "step_failed"} =>
       key[t] \in Unresolved(log)
  /\ pc[t] \in {"needs_review", "set_review"} => ReviewDue(key[t])

AllCurrent == \A t \in Tasks : Current(t)

(* While one task works, the others do not. *)
LEMMA OthersIdle ==
  ASSUME SingleOwner, NEW t \in Tasks, pc[t] \notin {"idle", "dead"}
  PROVE  \A u \in Tasks \ {t} : pc[u] \in {"idle", "dead"}
  BY DEF SingleOwner, Active

(* The events that neither start a step nor settle one. *)
Settling == {"StepStarted", "StepCompleted", "StepFailed"}

(* Such an event changes nothing of what an attempt reads out of the log. *)
LEMMA UnsettlingAppend ==
  ASSUME TypeOK, NEW e \in Event, e.type \notin Settling, AppendEvent(e)
  PROVE  /\ Unresolved(log') = Unresolved(log)
         /\ \A k \in Keys : Recorded(log', k) = Recorded(log, k)
  <1>1. log \in Seq(Event) /\ log' = Append(log, e)
    BY DEF TypeOK, StoreTypeOK, AppendEvent
  <1>2. \A k \in Keys : Recorded(log', k) = Recorded(log, k)
    BY QuietAppend DEF Settling
  <1>3. Unresolved(log') = {k \in Keys : k \in Unresolved(log)}
    BY <1>1, UnresolvedAppend DEF Settling
  <1> QED
    BY <1>2, <1>3 DEF Unresolved

(* The events of runs and steps outside Settling. *)
LEMMA UnsettlingEvents ==
  ASSUME NEW y \in EventType \ Settling, NEW k \in Keys \cup {NoKey}
  PROVE  /\ RunEvent(y) \in Event /\ RunEvent(y).type \notin Settling
         /\ StepEvent(y, k) \in Event /\ StepEvent(y, k).type \notin Settling
  BY EventTypes DEF RunEvent, StepEvent

(* A task that is the only one to work, seen by the others. *)
LEMMA OneIsCurrent ==
  ASSUME NEW t \in Tasks, Current(t)',
         \A u \in Tasks \ {t} : pc'[u] \in {"idle", "dead"}
  PROVE  AllCurrent'
  <1>1. ASSUME NEW u \in Tasks \ {t} PROVE Current(u)'
    BY <1>1 DEF Current, WorkflowPC, BeforeBody
  <1> QED
    BY <1>1 DEF AllCurrent

(* A task that moves on and tells nobody anything new about steps. *)
LEMMA MoveKeepsCurrent ==
  ASSUME TypeOK, AllCurrent, NEW t \in Tasks, NEW l, Goto(t, l),
         \A u \in Tasks \ {t} : pc[u] \in {"idle", "dead"},
         UNCHANGED <<key, memo, unresolved>>,
         Unresolved(log') = Unresolved(log),
         \A k \in Keys : Recorded(log', k) = Recorded(log, k),
         l \in WorkflowPC => pc[t] \in WorkflowPC,
         l \in BeforeBody => pc[t] \in BeforeBody,
         l \in {"verify", "recovered", "crash_retry"} => key[t] \in unresolved[t],
         l \in {"verify", "recovered"} => key[t] \in Verifiable,
         l = "step_started" => key[t] \notin unresolved[t],
         l = "crash_retry" => key[t] \notin AtMostOnce,
         l \in {"invoke", "landed", "step_retried", "step_failed"} =>
           key[t] \in Unresolved(log),
         l \in {"needs_review", "set_review"} => ReviewDue(key[t])',
         key[t] \in Keys \/ l \notin WorkflowPC
  PROVE  AllCurrent'
  <1>1. pc'[t] = l /\ \A u \in Tasks \ {t} : pc'[u] = pc[u]
    BY DEF TypeOK, Goto
  <1>2. Current(t)
    BY DEF AllCurrent
  <1>3. Current(t)'
    BY <1>1, <1>2 DEF Current
  <1> QED
    BY <1>1, <1>3, OneIsCurrent

(* A task that leaves its step behind for the next one. *)
LEMMA AdvanceKeepsCurrent ==
  ASSUME TypeOK, NEW t \in Tasks, key[t] \in Keys, Advance(t),
         \A u \in Tasks \ {t} : pc[u] \in {"idle", "dead"},
         \A k \in Keys : memo'[t][k] = Recorded(log', k),
         \A k \in Keys : k > key[t] => (k \in unresolved'[t] <=> k \in Unresolved(log'))
  PROVE  AllCurrent'
  <1>1. \A u \in Tasks \ {t} : pc'[u] = pc[u]
    BY Advances
  <1>2. \/ pc'[t] = "step" /\ key'[t] \in Keys /\ key'[t] = key[t] + 1
        \/ pc'[t] = "run_completed"
    BY Advances DEF Advance, Goto, TypeOK
  <1>3. CASE pc'[t] = "step" /\ key'[t] \in Keys /\ key'[t] = key[t] + 1
    <2>1. /\ key[t] \in Nat /\ key'[t] > key[t]
          /\ \A k \in Keys : k > key'[t] => k > key[t]
      BY <1>3, NumStepsAssumption DEF Keys
    <2>2. Current(t)'
      BY <1>3, <2>1 DEF Current
    <2> QED
      BY <1>1, <2>2, OneIsCurrent
  <1>4. CASE pc'[t] = "run_completed"
    <2>1. Current(t)'
      BY <1>4 DEF Current, WorkflowPC, BeforeBody
    <2> QED
      BY <1>1, <2>1, OneIsCurrent
  <1> QED
    BY <1>2, <1>3, <1>4

(* StepCompleted settles its step, in the log and for the task. *)
LEMMA CompleteSettles ==
  ASSUME TypeOK, NEW t \in Tasks, NEW v \in Results, Complete(t, v), key[t] \in Keys,
         \A k \in Keys : memo[t][k] = Recorded(log, k),
         \A k \in Keys : k > key[t] => (k \in unresolved[t] <=> k \in Unresolved(log))
  PROVE  /\ \A k \in Keys : memo'[t][k] = Recorded(log', k)
         /\ \A k \in Keys : k > key[t] => (k \in unresolved'[t] <=> k \in Unresolved(log'))
  <1>1. \A k \in Keys : memo'[t][k] = Recorded(log', k)
    <2>1. /\ Recorded(log', key[t]) = {v} /\ memo'[t][key[t]] = {v}
          /\ \A k \in Keys \ {key[t]} : Recorded(log', k) = Recorded(log, k)
          /\ \A k \in Keys \ {key[t]} : memo'[t][k] = memo[t][k]
      BY CompleteRecords
    <2> QED
      BY <2>1
  <1> DEFINE e == CompletedEvent(key[t], v)
  <1>2. /\ e \in Event /\ e.type = "StepCompleted" /\ e.key = key[t]
        /\ log \in Seq(Event) /\ log' = Append(log, e)
    BY EventTypes DEF CompletedEvent, Complete, AppendEvent, TypeOK, StoreTypeOK
  <1> HIDE DEF e
  <1>3. \A k \in Keys \ {key[t]} : k \in Unresolved(log') <=> k \in Unresolved(log)
    BY <1>2, UnresolvedAppend
  <1>4. \A k \in Keys \ {key[t]} : k \in unresolved'[t] <=> k \in unresolved[t]
    BY DEF Complete, TypeOK
  <1>5. \A k \in Keys : k > key[t] => k # key[t]
    BY NumStepsAssumption DEF Keys
  <1> QED
    BY <1>1, <1>3, <1>4, <1>5

(* What the only attempt does keeps what it knows current. *)
LEMMA ContextKeepsCurrent ==
  ASSUME TypeOK, KeyInRange, SingleOwner, AllCurrent, NEW t \in Tasks, ContextStep(t)
  PROVE  AllCurrent'
  <1>0. /\ pc[t] \in WorkflowPC => key[t] \in Keys
        /\ \A u \in Tasks \ {t} : pc[u] \in {"idle", "dead"}
        /\ Current(t)
    <2>1. pc[t] \notin {"idle", "dead"}
      BY ContextFrame DEF WorkflowPC
    <2> QED
      BY <2>1, OthersIdle DEF KeyInRange, AllCurrent
  <1>1. pc[t] \in WorkflowPC =>
          /\ \A k \in Keys : memo[t][k] = Recorded(log, k)
          /\ \A k \in Keys : k > key[t] => (k \in unresolved[t] <=> k \in Unresolved(log))
    BY <1>0 DEF Current
  <1> USE DEF storeVars, runVars, queueVars, stepVars
  <1>2. CASE StepReplayed(t)
    BY <1>0, <1>1, <1>2, AdvanceKeepsCurrent DEF StepReplayed, WorkflowPC
  <1>3. CASE LeaseGuardPasses(t)
    BY <1>0, <1>3, MoveKeepsCurrent DEF LeaseGuardPasses, WorkflowPC, BeforeBody
  <1>4. CASE \/ WorkflowRaises(t) \/ CancelObserved(t) \/ BudgetBreached(t)
             \/ VerifyRaises(t) \/ ReturnUnserialisable(t)
    <2>1. PICK l \in {"run_failed", "run_cancelled", "budget_exceeded"} : Goto(t, l)
      BY <1>4 DEF WorkflowRaises, CancelObserved, BudgetBreached, VerifyRaises,
                  ReturnUnserialisable
    <2>2. UNCHANGED <<key, memo, unresolved, log>>
      BY <1>4 DEF WorkflowRaises, CancelObserved, BudgetBreached, VerifyRaises,
                  ReturnUnserialisable
    <2> QED
      BY <1>0, <2>1, <2>2, MoveKeepsCurrent DEF WorkflowPC, BeforeBody
  <1>5. CASE GuardsPass(t)
    <2>1. /\ pc[t] = "cancel_check" /\ key[t] \in Keys
          /\ UNCHANGED <<key, memo, unresolved, log, landed>>
          /\ key[t] \in unresolved[t] <=> key[t] \in Unresolved(log)
      BY <1>0, <1>5 DEF GuardsPass, WorkflowPC, BeforeBody, Current
    <2>2. CASE key[t] \notin unresolved[t] /\ Goto(t, "step_started")
      BY <1>0, <2>1, <2>2, MoveKeepsCurrent DEF WorkflowPC, BeforeBody
    <2>3. CASE key[t] \in unresolved[t] \cap Verifiable /\ Goto(t, "verify")
      BY <1>0, <2>1, <2>3, MoveKeepsCurrent DEF WorkflowPC, BeforeBody
    <2>4. CASE /\ key[t] \in unresolved[t] \ Verifiable /\ key[t] \in AtMostOnce
               /\ Goto(t, "needs_review")
      <3>1. ReviewDue(key[t])'
        BY <2>1, <2>4 DEF ReviewDue
      <3> QED
        BY <1>0, <2>1, <2>4, <3>1, MoveKeepsCurrent DEF WorkflowPC, BeforeBody
    <2>5. CASE /\ key[t] \in unresolved[t] \ Verifiable /\ key[t] \notin AtMostOnce
               /\ Goto(t, "crash_retry")
      BY <1>0, <2>1, <2>5, MoveKeepsCurrent DEF WorkflowPC, BeforeBody
    <2> QED
      BY <1>5, <2>2, <2>3, <2>4, <2>5 DEF GuardsPass, Unverified
  <1>6. CASE VerifyFinds(t) \/ VerifyFindsNothing(t)
    <2>1. /\ pc[t] = "verify" /\ key[t] \in Keys
          /\ UNCHANGED <<key, memo, unresolved, log, landed>>
          /\ key[t] \in unresolved[t] /\ key[t] \in Unresolved(log) /\ key[t] \in Verifiable
      BY <1>0, <1>6 DEF VerifyFinds, VerifyFindsNothing, WorkflowPC, BeforeBody, Current
    <2>2. CASE Goto(t, "recovered")
      BY <1>0, <2>1, <2>2, MoveKeepsCurrent DEF WorkflowPC, BeforeBody
    <2>3. CASE landed[key[t]] = 0 /\ key[t] \in AtMostOnce /\ Goto(t, "needs_review")
      <3>1. ReviewDue(key[t])'
        BY <2>1, <2>3 DEF ReviewDue
      <3> QED
        BY <1>0, <2>1, <2>3, <3>1, MoveKeepsCurrent DEF WorkflowPC, BeforeBody
    <2>4. CASE key[t] \notin AtMostOnce /\ Goto(t, "crash_retry")
      BY <1>0, <2>1, <2>4, MoveKeepsCurrent DEF WorkflowPC, BeforeBody
    <2> QED
      BY <1>6, <2>2, <2>3, <2>4 DEF VerifyFinds, VerifyFindsNothing, Unverified
  <1>7. CASE WriteRecovered(t)
    <2>1. PICK v \in Results : Complete(t, v)
      BY <1>7 DEF WriteRecovered
    <2>2. key[t] \in Keys /\ pc[t] \in WorkflowPC /\ Advance(t)
      BY <1>0, <1>7 DEF WriteRecovered, WorkflowPC
    <2> QED
      BY <1>0, <1>1, <2>1, <2>2, CompleteSettles, AdvanceKeepsCurrent
  <1>8. CASE WriteStepStarted(t)
    <2> DEFINE e == StepEvent("StepStarted", key[t])
    <2>1. /\ key[t] \in Keys /\ pc[t] \in WorkflowPC
          /\ e \in Event /\ e.type = "StepStarted" /\ e.key = key[t]
          /\ log \in Seq(Event) /\ log' = Append(log, e)
          /\ UNCHANGED <<key, memo, unresolved>>
          /\ pc'[t] = "invoke" /\ \A u \in Tasks \ {t} : pc'[u] = pc[u]
      BY <1>0, <1>8, EventTypes
      DEF WriteStepStarted, BeginTries, AppendEvent, StepEvent, EventType, WorkflowPC, TypeOK,
          StoreTypeOK, Goto
    <2> HIDE DEF e
    <2>2. /\ key[t] \in Unresolved(log')
          /\ \A k \in Keys \ {key[t]} : k \in Unresolved(log') <=> k \in Unresolved(log)
      BY <2>1, UnresolvedAppend
    <2>3. \A k \in Keys : Recorded(log', k) = Recorded(log, k)
      BY <2>1, RecordedAppendOther
    <2>4. \A k \in Keys : k > key[t] => k # key[t]
      BY <2>1, NumStepsAssumption DEF Keys
    <2>5. Current(t)'
      BY <1>1, <2>1, <2>2, <2>3, <2>4 DEF Current, BeforeBody
    <2> QED
      BY <1>0, <2>1, <2>5, OneIsCurrent
  <1>9. CASE WriteCrashRetry(t) \/ WriteStepRetried(t)
    <2>1. /\ key[t] \in Keys /\ pc[t] \in WorkflowPC /\ Goto(t, "invoke")
          /\ AppendEvent(StepEvent("StepRetried", key[t]))
          /\ UNCHANGED <<key, memo, unresolved>>
          /\ key[t] \in Unresolved(log)
      BY <1>0, <1>9 DEF WriteCrashRetry, WriteStepRetried, BeginTries, WorkflowPC, BeforeBody,
                        Current
    <2>2. /\ Unresolved(log') = Unresolved(log)
          /\ \A k \in Keys : Recorded(log', k) = Recorded(log, k)
      BY <2>1, UnsettlingAppend, UnsettlingEvents DEF EventType, Settling
    <2> QED
      BY <1>0, <2>1, <2>2, MoveKeepsCurrent DEF BeforeBody
  <1>10. CASE InvokeLands(t) \/ InvokeRaises(t) \/ ReturnRaises(t)
    <2>1. PICK l \in {"landed", "step_retried", "step_failed"} : Goto(t, l)
      BY <1>10 DEF InvokeLands, InvokeRaises, ReturnRaises, AfterError
    <2>2. /\ key[t] \in Keys /\ pc[t] \in WorkflowPC
          /\ UNCHANGED <<key, memo, unresolved, log>>
          /\ key[t] \in Unresolved(log)
      BY <1>0, <1>10 DEF InvokeLands, InvokeRaises, ReturnRaises, WorkflowPC, Current
    <2> QED
      BY <1>0, <2>1, <2>2, MoveKeepsCurrent DEF BeforeBody
  <1>11. CASE WriteStepCompleted(t)
    <2>1. PICK v \in Results : Complete(t, v)
      BY <1>11 DEF WriteStepCompleted
    <2>2. /\ key[t] \in Keys /\ pc[t] \in WorkflowPC /\ UNCHANGED key
          /\ pc'[t] = "save_usage" /\ \A u \in Tasks \ {t} : pc'[u] = pc[u]
      BY <1>0, <1>11 DEF WriteStepCompleted, WorkflowPC, Goto, TypeOK
    <2>3. /\ \A k \in Keys : memo'[t][k] = Recorded(log', k)
          /\ \A k \in Keys : k > key[t] => (k \in unresolved'[t] <=> k \in Unresolved(log'))
      BY <1>1, <2>1, <2>2, CompleteSettles
    <2>4. Current(t)'
      BY <2>2, <2>3 DEF Current, BeforeBody
    <2> QED
      BY <1>0, <2>2, <2>4, OneIsCurrent
  <1>12. CASE WriteStepFailed(t)
    <2>1. pc'[t] = "run_failed" /\ \A u \in Tasks \ {t} : pc'[u] = pc[u]
      BY <1>12 DEF WriteStepFailed, Goto, TypeOK
    <2>2. Current(t)'
      BY <2>1 DEF Current, WorkflowPC, BeforeBody
    <2> QED
      BY <1>0, <2>1, <2>2, OneIsCurrent
  <1>13. CASE SaveStepUsage(t)
    <2>1. /\ key[t] \in Keys /\ pc[t] \in WorkflowPC /\ UNCHANGED <<memo, unresolved, log>>
      BY <1>0, <1>13 DEF SaveStepUsage, WorkflowPC
    <2>2. CASE Advance(t)
      BY <1>0, <1>1, <2>1, <2>2, AdvanceKeepsCurrent
    <2>3. CASE UNCHANGED key /\ Goto(t, "tool_invoked")
      BY <1>0, <2>1, <2>3, MoveKeepsCurrent DEF BeforeBody
    <2>4. CASE UNCHANGED key /\ Goto(t, "save_model_usage")
      BY <1>0, <2>1, <2>4, MoveKeepsCurrent DEF BeforeBody
    <2> QED
      BY <1>13, <2>2, <2>3, <2>4 DEF SaveStepUsage
  <1>14. CASE WriteToolInvoked(t) \/ WriteModelCalled(t)
    <2>1. /\ key[t] \in Keys /\ pc[t] \in WorkflowPC /\ Advance(t)
          /\ UNCHANGED <<memo, unresolved>>
      BY <1>0, <1>14 DEF WriteToolInvoked, WriteModelCalled, WorkflowPC
    <2>2. /\ Unresolved(log') = Unresolved(log)
          /\ \A k \in Keys : Recorded(log', k) = Recorded(log, k)
      BY <1>14, <2>1, UnsettlingAppend, UnsettlingEvents
      DEF WriteToolInvoked, WriteModelCalled, EventType, Settling
    <2> QED
      BY <1>0, <1>1, <2>1, <2>2, AdvanceKeepsCurrent
  <1>15. CASE SaveModelUsage(t)
    BY <1>0, <1>15, MoveKeepsCurrent DEF SaveModelUsage, WorkflowPC, BeforeBody
  <1> QED
    BY <1>2, <1>3, <1>4, <1>5, <1>6, <1>7, <1>8, <1>9, <1>10, <1>11, <1>12, <1>13, <1>14, <1>15
    DEF ContextStep

(* The engine reads the log into an attempt and then only logs verdicts. *)
LEMMA EngineKeepsCurrent ==
  ASSUME TypeOK, SingleOwner, AllCurrent, NEW t \in Tasks, EngineStep(t)
  PROVE  AllCurrent'
  <1>0. /\ \A u \in Tasks \ {t} : pc[u] \in {"idle", "dead"} /\ pc'[u] = pc[u]
        /\ Current(t)
    <2>1. pc[t] \notin {"idle", "dead"} /\ \A u \in Tasks \ {t} : pc'[u] = pc[u]
      BY EngineFrame DEF EnginePC
    <2> QED
      BY <2>1, OthersIdle DEF AllCurrent
  <1> USE DEF storeVars, runVars, queueVars, stepVars
  <1>1. CASE LoadEvents(t)
    <2>1. /\ pc'[t] \in {"step", "run_failed"}
          /\ memo'[t] = [k \in Keys |-> Recorded(log, k)]
          /\ unresolved'[t] = Unresolved(log) /\ UNCHANGED log
      BY <1>1 DEF LoadEvents, Goto, TypeOK
    <2>2. Current(t)'
      BY <2>1 DEF Current, WorkflowPC, BeforeBody
    <2> QED
      BY <1>0, <2>2, OneIsCurrent
  <1>2. CASE WriteNeedsReview(t)
    <2>1. /\ pc[t] = "needs_review" /\ Goto(t, "set_review")
          /\ key[t] \in Keys \cup {NoKey}
          /\ AppendEvent(StepEvent("RunNeedsReview", key[t]))
          /\ UNCHANGED <<key, memo, unresolved, landed>>
      BY <1>2 DEF WriteNeedsReview, WriteVerdict, TypeOK
    <2>2. /\ Unresolved(log') = Unresolved(log)
          /\ \A k \in Keys : Recorded(log', k) = Recorded(log, k)
      BY <2>1, UnsettlingAppend, UnsettlingEvents DEF EventType, Settling
    <2>3. ReviewDue(key[t])'
      BY <1>0, <2>1, <2>2 DEF Current, ReviewDue
    <2> QED
      BY <1>0, <2>1, <2>2, <2>3, MoveKeepsCurrent DEF WorkflowPC, BeforeBody
  <1>3. CASE \/ GetRun(t) \/ BumpAttempt(t) \/ WriteRunResumed(t) \/ SetRunning(t)
             \/ RereadRun(t) \/ SetCompletedRaises(t)
             \/ SaveFinalUsage(t) \/ SaveFailedUsage(t) \/ SetCompleted(t)
             \/ SetCancelled(t) \/ SetNeedsReview(t) \/ SetFailed(t)
             \/ WriteRunCompleted(t) \/ WriteRunCancelled(t)
             \/ WriteBudgetExceeded(t) \/ WriteRunFailed(t)
    <2>1. pc'[t] \notin WorkflowPC \cup {"needs_review", "set_review"}
      BY <1>3 DEF GetRun, BumpAttempt, WriteRunResumed, SetRunning, RereadRun,
                  SetCompletedRaises, SaveFinalUsage, SaveFailedUsage, StoreUsage, SetCompleted,
                  SetCancelled, SetNeedsReview, SetFailed, StoreStatus, WriteRunCompleted,
                  WriteRunCancelled, WriteBudgetExceeded, WriteRunFailed, WriteVerdict,
                  Goto, TypeOK, WorkflowPC
    <2>2. Current(t)'
      BY <2>1 DEF Current, WorkflowPC, BeforeBody
    <2> QED
      BY <1>0, <2>2, OneIsCurrent
  <1> QED
    BY <1>1, <1>2, <1>3 DEF EngineStep

(* Workers, the clock and the API tell an attempt nothing new. *)
LEMMA CurrentStep ==
  ASSUME TypeOK, KeyInRange, SingleOwner, AllCurrent, [Next]_vars
  PROVE  AllCurrent'
  <1>1. CASE \/ \E t \in Tasks : \/ Claim(t) \/ LeaseLost(t) \/ Dequeue(t)
                                 \/ DequeueSkipped(t) \/ Release(t)
                                 \/ StoreFault(t) \/ HeartbeatFails(t)
             \/ \E w \in Workers : Crash(w) \/ RequestShutdown(w)
             \/ LeaseLapses \/ DeadlinePasses \/ CancelRun
    <2> SUFFICES ASSUME NEW u \in Tasks PROVE Current(u)'
      BY DEF AllCurrent
    <2>1. /\ Unresolved(log') = Unresolved(log) /\ landed' = landed
          /\ \A k \in Keys : Recorded(log', k) = Recorded(log, k)
      <3>1. UNCHANGED landed /\ (log' = log \/ AppendEvent(RunEvent("CancelRequested")))
        BY <1>1, WorkerLog
      <3> QED
        BY <3>1, UnsettlingAppend, UnsettlingEvents DEF EventType, Settling
    <2>2. CASE pc'[u] \in {"idle", "dead", "get_run", "run_failed", "release"}
      BY <2>2 DEF Current, WorkflowPC, BeforeBody
    <2>3. CASE /\ pc'[u] = pc[u] /\ key'[u] = key[u] /\ memo'[u] = memo[u]
               /\ unresolved'[u] = unresolved[u]
      <3>1. Current(u)
        BY DEF AllCurrent
      <3> QED
        BY <2>1, <2>3, <3>1 DEF Current, ReviewDue
    <2> QED
      BY <1>1, <2>2, <2>3, WorkerLog
  <1>2. CASE UNCHANGED vars
    BY <1>2 DEF vars, storeVars, taskVars, stepVars, AllCurrent, Current, ReviewDue
  <1> QED
    BY <1>1, <1>2, ContextKeepsCurrent, EngineKeepsCurrent DEF Next, TaskStep

(* Ownership, the books and what the attempt knows, together. *)
AttemptInv == OwnInv /\ DropInv /\ BillInv /\ AllCurrent

(* It holds before anybody has claimed the run. *)
LEMMA AttemptInvInit == Init => AttemptInv
  <1> SUFFICES ASSUME Init PROVE AttemptInv
    OBVIOUS
  <1>1. AllCurrent
    BY DEF Init, AllCurrent, Current, WorkflowPC, BeforeBody
  <1> QED
    BY <1>1, OwnInvInit, DropInvInit, BillInvInit DEF AttemptInv

(* With timely leases every step keeps it. *)
LEMMA AttemptInvStep ==
  ASSUME Timely, AttemptInv, [Next]_vars
  PROVE  AttemptInv'
  <1>1. TypeOK /\ KeyInRange /\ SingleOwner
    BY DEF AttemptInv, OwnInv, DropInv
  <1> QED
    BY <1>1, OwnInvStep, DropInvStep, BillStep, CurrentStep DEF AttemptInv

(* Which events a task writes inside the workflow, and where it is then. *)
WorkflowEvent(t, e) ==
  /\ e.type \in {"StepStarted", "StepCompleted", "StepRetried", "StepFailed", "ToolInvoked",
                "ModelCalled"}
  /\ e.key = key[t] /\ key[t] \in Keys
  /\ e.type = "StepStarted" => pc[t] = "step_started" /\ pc'[t] = "invoke"
  /\ e.type = "StepCompleted" => pc[t] \in {"landed", "recovered"} /\ e.val # {}
  /\ e.type = "StepRetried" => pc[t] \in {"crash_retry", "step_retried"}
  /\ e.type = "StepFailed" => pc[t] = "step_failed"

(* A RunContext writes about the step it is at, and no verdict. *)
LEMMA ContextWrites ==
  ASSUME TypeOK, KeyInRange, NEW t \in Tasks, ContextStep(t)
  PROVE  \/ log' = log
         \/ \E e \in Event : AppendEvent(e) /\ WorkflowEvent(t, e)
  <1> USE DEF storeVars
  <1>1. pc[t] \in WorkflowPC => key[t] \in Keys
    BY DEF KeyInRange
  <1>2. ASSUME NEW y \in EventType \ {"StepCompleted"}, AppendEvent(StepEvent(y, key[t])),
               y \in {"StepStarted", "StepRetried", "StepFailed", "ToolInvoked", "ModelCalled"},
               y = "StepStarted" => pc[t] = "step_started" /\ pc'[t] = "invoke",
               y = "StepRetried" => pc[t] \in {"crash_retry", "step_retried"},
               y = "StepFailed" => pc[t] = "step_failed", key[t] \in Keys
        PROVE  \E e \in Event : AppendEvent(e) /\ WorkflowEvent(t, e)
    <2>1. /\ StepEvent(y, key[t]) \in Event
          /\ StepEvent(y, key[t]).type = y /\ StepEvent(y, key[t]).key = key[t]
      BY <1>2, EventTypes DEF StepEvent
    <2> QED
      BY <1>2, <2>1 DEF WorkflowEvent
  <1>3. CASE StepReplayed(t) \/ LeaseGuardPasses(t) \/ WorkflowRaises(t)
    BY <1>3 DEF StepReplayed, LeaseGuardPasses, WorkflowRaises
  <1>4. CASE \/ CancelObserved(t) \/ BudgetBreached(t) \/ GuardsPass(t)
             \/ VerifyFinds(t) \/ VerifyFindsNothing(t) \/ VerifyRaises(t)
    BY <1>4 DEF CancelObserved, BudgetBreached, GuardsPass, VerifyFinds, VerifyFindsNothing,
                VerifyRaises
  <1>5. CASE WriteRecovered(t) \/ WriteStepCompleted(t)
    <2>1. key[t] \in Keys /\ pc[t] \in {"landed", "recovered"}
      BY <1>1, <1>5 DEF WriteRecovered, WriteStepCompleted, WorkflowPC
    <2>2. PICK v \in Results : AppendEvent(CompletedEvent(key[t], v))
      BY <1>5 DEF WriteRecovered, WriteStepCompleted, Complete
    <2> DEFINE e == CompletedEvent(key[t], v)
    <2>3. e \in Event /\ e.type = "StepCompleted" /\ e.key = key[t] /\ e.val # {}
      BY <2>1, EventTypes DEF CompletedEvent
    <2> HIDE DEF e
    <2>4. WorkflowEvent(t, e)
      BY <2>1, <2>3 DEF WorkflowEvent
    <2> QED
      BY <2>2, <2>3, <2>4 DEF e
  <1>6. CASE WriteStepStarted(t)
    <2>1. pc[t] = "step_started" /\ pc'[t] = "invoke" /\ key[t] \in Keys
      BY <1>1, <1>6 DEF WriteStepStarted, BeginTries, WorkflowPC, Goto, TypeOK
    <2> QED
      BY <1>2, <1>6, <2>1 DEF WriteStepStarted, BeginTries, EventType
  <1>7. CASE WriteCrashRetry(t)
    BY <1>1, <1>2, <1>7 DEF WriteCrashRetry, BeginTries, WorkflowPC, EventType
  <1>8. CASE InvokeLands(t) \/ InvokeRaises(t) \/ ReturnRaises(t) \/ ReturnUnserialisable(t)
    BY <1>8 DEF InvokeLands, InvokeRaises, ReturnRaises, ReturnUnserialisable
  <1>9. CASE WriteStepRetried(t)
    BY <1>1, <1>2, <1>9 DEF WriteStepRetried, WorkflowPC, EventType
  <1>10. CASE WriteStepFailed(t)
    BY <1>1, <1>2, <1>10 DEF WriteStepFailed, WorkflowPC, EventType
  <1>11. CASE SaveStepUsage(t) \/ SaveModelUsage(t)
    BY <1>11 DEF SaveStepUsage, SaveModelUsage
  <1>12. CASE WriteToolInvoked(t)
    BY <1>1, <1>2, <1>12 DEF WriteToolInvoked, WorkflowPC, EventType
  <1>13. CASE WriteModelCalled(t)
    BY <1>1, <1>2, <1>13 DEF WriteModelCalled, WorkflowPC, EventType
  <1> QED
    BY <1>3, <1>4, <1>5, <1>6, <1>7, <1>8, <1>9, <1>10, <1>11, <1>12, <1>13 DEF ContextStep

(* Which events the engine writes, and where the task goes with each. *)
EngineEvent(t, e) ==
  /\ e.type \in {"RunResumed", "RunCompleted", "RunCancelled", "RunNeedsReview",
                "BudgetExceeded", "RunFailed"}
  /\ e.type = "RunCompleted" => pc'[t] = "final_usage"
  /\ e.type = "RunCancelled" => pc'[t] = "set_cancelled"
  /\ e.type = "RunNeedsReview" => pc'[t] = "set_review"
  /\ e.type = "RunFailed" => pc'[t] = "failed_usage"

(* The engine writes nothing about the outcome of steps. *)
LEMMA EngineWrites ==
  ASSUME TypeOK, NEW t \in Tasks, EngineStep(t)
  PROVE  \/ log' = log
         \/ \E e \in Event : AppendEvent(e) /\ EngineEvent(t, e)
  <1> USE DEF storeVars
  <1>1. ASSUME NEW y \in EventType, AppendEvent(RunEvent(y)),
               y \in {"RunResumed", "RunCompleted", "RunCancelled", "BudgetExceeded", "RunFailed"},
               y = "RunCompleted" => pc'[t] = "final_usage",
               y = "RunCancelled" => pc'[t] = "set_cancelled",
               y = "RunFailed" => pc'[t] = "failed_usage"
        PROVE  \E e \in Event : AppendEvent(e) /\ EngineEvent(t, e)
    <2>1. RunEvent(y) \in Event /\ RunEvent(y).type = y
      BY <1>1, EventTypes DEF RunEvent
    <2> QED
      BY <1>1, <2>1 DEF EngineEvent
  <1>2. CASE \/ GetRun(t) \/ BumpAttempt(t) \/ SetRunning(t) \/ RereadRun(t)
             \/ LoadEvents(t) \/ SetCompletedRaises(t)
    BY <1>2 DEF GetRun, BumpAttempt, SetRunning, RereadRun, LoadEvents, SetCompletedRaises
  <1>3. CASE \/ SaveFinalUsage(t) \/ SaveFailedUsage(t) \/ SetCompleted(t)
             \/ SetCancelled(t) \/ SetNeedsReview(t) \/ SetFailed(t)
    BY <1>3 DEF SaveFinalUsage, SaveFailedUsage, StoreUsage, SetCompleted, SetCancelled,
                SetNeedsReview, SetFailed, StoreStatus
  <1>4. CASE WriteRunResumed(t) \/ WriteBudgetExceeded(t)
    BY <1>1, <1>4 DEF WriteRunResumed, WriteBudgetExceeded, WriteVerdict, EventType
  <1>5. CASE WriteRunCompleted(t) \/ WriteRunCancelled(t) \/ WriteRunFailed(t)
    BY <1>1, <1>5 DEF WriteRunCompleted, WriteRunCancelled, WriteRunFailed, WriteVerdict,
                      EventType, Goto, TypeOK
  <1>6. CASE WriteNeedsReview(t)
    <2> DEFINE e == StepEvent("RunNeedsReview", key[t])
    <2>1. /\ e \in Event /\ e.type = "RunNeedsReview" /\ AppendEvent(e)
          /\ pc'[t] = "set_review"
      BY <1>6, EventTypes
      DEF WriteNeedsReview, WriteVerdict, TypeOK, StepEvent, EventType, Goto
    <2> QED
      BY <2>1 DEF EngineEvent
  <1> QED
    BY <1>2, <1>3, <1>4, <1>5, <1>6 DEF EngineStep

(* Everything that is ever written to the log of a submitted run. *)
LEMMA NextWrites ==
  ASSUME TypeOK, KeyInRange, [Next]_vars
  PROVE  \/ log' = log
         \/ \E e \in Event :
              /\ AppendEvent(e)
              /\ \/ e = RunEvent("CancelRequested")
                 \/ \E t \in Tasks : ContextStep(t) /\ WorkflowEvent(t, e)
                 \/ \E t \in Tasks : EngineStep(t) /\ EngineEvent(t, e)
  <1>1. CASE \E t \in Tasks : ContextStep(t)
    BY <1>1, ContextWrites
  <1>2. CASE \E t \in Tasks : EngineStep(t)
    BY <1>2, EngineWrites
  <1>3. CASE \/ \E t \in Tasks : \/ Claim(t) \/ LeaseLost(t) \/ Dequeue(t)
                                 \/ DequeueSkipped(t) \/ Release(t)
                                 \/ StoreFault(t) \/ HeartbeatFails(t)
             \/ \E w \in Workers : Crash(w) \/ RequestShutdown(w)
             \/ LeaseLapses \/ DeadlinePasses \/ CancelRun
    <2>1. RunEvent("CancelRequested") \in Event
      BY EventTypes DEF EventType
    <2>2. log' = log \/ AppendEvent(RunEvent("CancelRequested"))
      BY <1>3, WorkerLog
    <2> QED
      BY <2>1, <2>2
  <1>4. CASE UNCHANGED vars
    BY <1>4 DEF vars, storeVars
  <1> QED
    BY <1>1, <1>2, <1>3, <1>4 DEF Next, TaskStep

-----------------------------------------------------------------------------
(***************************************************************************)
(* One outcome for each step.                                              *)
(***************************************************************************)

(* A step that has an outcome has a result to replay, and one outcome. *)
OutcomeInv ==
  \A k \in Keys : /\ At(log, "StepCompleted", k) # {} => Completed(k)
                  /\ Cardinality(At(log, "StepCompleted", k)) <= 1

(* Only a task that found no result in the log writes one. *)
LEMMA OutcomeStep ==
  ASSUME AttemptInv, OutcomeInv, [Next]_vars
  PROVE  OutcomeInv'
  <1>0. TypeOK /\ KeyInRange /\ log \in Seq(Event)
    BY DEF AttemptInv, OwnInv, DropInv, TypeOK, StoreTypeOK
  <1>1. CASE log' = log
    BY <1>1 DEF OutcomeInv, Completed
  <1>2. ASSUME NEW e \in Event, AppendEvent(e), e.type # "StepCompleted"
        PROVE  OutcomeInv'
    <2>1. ASSUME NEW k \in Keys
          PROVE  /\ At(log', "StepCompleted", k) = At(log, "StepCompleted", k)
                 /\ Recorded(log', k) = Recorded(log, k)
      <3>1. At(log', "StepCompleted", k) = At(log, "StepCompleted", k)
        BY <1>0, <1>2, AtAppendOther DEF AppendEvent
      <3> QED
        BY <1>0, <1>2, <3>1, QuietAppend
    <2> QED
      BY <2>1 DEF OutcomeInv, Completed
  <1>3. ASSUME NEW e \in Event, AppendEvent(e), NEW t \in Tasks, WorkflowEvent(t, e),
               e.type = "StepCompleted"
        PROVE  OutcomeInv'
    <2>1. /\ key[t] \in Keys /\ e.key = key[t] /\ pc[t] \in {"landed", "recovered"}
          /\ e.val # {} /\ log' = Append(log, e)
      BY <1>3 DEF WorkflowEvent, AppendEvent
    <2>2. memo[t][key[t]] = {}
      BY <2>1 DEF AttemptInv, BillInv, BillOf, OpenPC
    <2>3. Recorded(log, key[t]) = {}
      BY <2>1, <2>2 DEF AttemptInv, AllCurrent, Current, WorkflowPC
    <2>4. At(log, "StepCompleted", key[t]) = {}
      BY <2>1, <2>3 DEF OutcomeInv, Completed
    <2>5. At(log', "StepCompleted", key[t]) = {Len(log) + 1}
      BY <1>0, <1>3, <2>1, <2>4, AtAppend
    <2>6. Recorded(log', key[t]) = e.val
      BY <1>0, <1>3, <2>1, RecordedAppendCompleted
    <2>7. ASSUME NEW k \in Keys \ {key[t]}
          PROVE  /\ At(log', "StepCompleted", k) = At(log, "StepCompleted", k)
                 /\ Recorded(log', k) = Recorded(log, k)
      BY <1>0, <2>1, <2>7, AtAppendOther, RecordedAppendOther
    <2>8. Cardinality(At(log', "StepCompleted", key[t])) = 1
      BY <2>5, FS_Singleton
    <2> QED
      BY <2>1, <2>6, <2>7, <2>8 DEF OutcomeInv, Completed
  <1> QED
    BY <1>0, <1>1, <1>2, <1>3, NextWrites DEF RunEvent, EngineEvent

(* OneOutcomePerStep (RunContext._execute_step): with timely leases a      *)
(* step is completed once over all attempts, so every later attempt        *)
(* replays the result of the one that completed it.                        *)
THEOREM StepsHaveOneOutcome == ASSUME Timely PROVE Spec => []OneOutcomePerStep
  <1>1. Init => AttemptInv /\ OutcomeInv
    <2> SUFFICES ASSUME Init PROVE AttemptInv /\ OutcomeInv
      OBVIOUS
    <2>1. \A k \in Keys : At(log, "StepCompleted", k) = {}
      BY DEF Init, SubmitRun, At, RunEvent
    <2> QED
      BY <2>1, AttemptInvInit, FS_EmptySet DEF OutcomeInv
  <1>2. AttemptInv /\ OutcomeInv /\ [Next]_vars => (AttemptInv /\ OutcomeInv)'
    BY AttemptInvStep, OutcomeStep
  <1>3. OutcomeInv => OneOutcomePerStep
    BY DEF OutcomeInv, OneOutcomePerStep
  <1> QED
    BY <1>1, <1>2, <1>3, PTL DEF Spec

-----------------------------------------------------------------------------
(***************************************************************************)
(* Once the run is settled nothing about it changes any more.              *)
(***************************************************************************)

(* No task is in an attempt and the API takes no more cancel requests. *)
LEMMA SettledStays ==
  ASSUME AttemptInv, status \in Terminal, [Next]_vars
  PROVE  UNCHANGED <<log, landed, status, usage, attempt>>
  <1>1. /\ TypeOK
        /\ \A t \in Tasks : pc[t] \in {"idle", "dead", "get_run", "dequeue", "release"}
    BY DEF AttemptInv, OwnInv, SettledRun, Active
  <1>2. ASSUME NEW t \in Tasks, ContextStep(t) PROVE FALSE
    BY <1>1, <1>2, ContextFrame DEF WorkflowPC
  <1>3. ASSUME NEW t \in Tasks, EngineStep(t)
        PROVE  UNCHANGED <<log, landed, status, usage, attempt>>
    <2>1. pc[t] = "get_run"
      BY <1>1, <1>3, EngineFrame DEF EnginePC
    <2>2. GetRun(t)
      BY <1>3, <2>1 DEF EngineStep, BumpAttempt, WriteRunResumed, SetRunning, RereadRun, LoadEvents,
                        WriteRunCompleted, WriteRunCancelled, WriteNeedsReview,
                        WriteBudgetExceeded, WriteRunFailed, WriteVerdict, SaveFinalUsage,
                        SaveFailedUsage, StoreUsage, SetCompleted, SetCompletedRaises,
                        SetCancelled, SetNeedsReview, SetFailed, StoreStatus
    <2> QED
      BY <2>2 DEF GetRun, storeVars, runVars
  <1>4. CASE \/ \E t \in Tasks : \/ Claim(t) \/ LeaseLost(t) \/ Dequeue(t)
                                 \/ DequeueSkipped(t) \/ Release(t)
                                 \/ StoreFault(t) \/ HeartbeatFails(t)
             \/ \E w \in Workers : Crash(w) \/ RequestShutdown(w)
             \/ LeaseLapses \/ DeadlinePasses \/ CancelRun
    BY <1>1, <1>4, WorkerLog
  <1>5. CASE UNCHANGED vars
    BY <1>5 DEF vars, storeVars, runVars
  <1> QED
    BY <1>2, <1>3, <1>4, <1>5 DEF Next, TaskStep

(* The row turns terminal where a task puts a status on it. *)
LEMMA StatusTurns ==
  ASSUME TypeOK, status \notin Terminal, status' \in Terminal, [Next]_vars
  PROVE  \E t \in Tasks :
           /\ \/ pc[t] = "set_completed" /\ status' = "COMPLETED"
              \/ pc[t] = "set_cancelled" /\ status' = "CANCELLED"
              \/ pc[t] = "set_review" /\ status' = "NEEDS_REVIEW"
              \/ pc[t] = "set_failed" /\ status' = "FAILED"
           /\ UNCHANGED <<log, landed, usage, attempt, faults>>
  <1>1. ASSUME NEW t \in Tasks, ContextStep(t) PROVE FALSE
    BY <1>1, ContextFrame
  <1>2. ASSUME NEW t \in Tasks, EngineStep(t), UNCHANGED workerVars
        PROVE  \/ SetCompleted(t) \/ SetCancelled(t) \/ SetNeedsReview(t) \/ SetFailed(t)
    BY <1>2 DEF EngineStep, GetRun, BumpAttempt, WriteRunResumed, SetRunning, RereadRun, LoadEvents,
                WriteRunCompleted, WriteRunCancelled, WriteNeedsReview, WriteBudgetExceeded,
                WriteRunFailed, WriteVerdict, SaveFinalUsage, SaveFailedUsage, StoreUsage,
                SetCompletedRaises, SetStatus, Terminal, storeVars, runVars
  <1>3. ~(\/ \E t \in Tasks : \/ Claim(t) \/ LeaseLost(t) \/ Dequeue(t)
                              \/ DequeueSkipped(t) \/ Release(t)
                              \/ StoreFault(t) \/ HeartbeatFails(t)
          \/ \E w \in Workers : Crash(w) \/ RequestShutdown(w)
          \/ LeaseLapses \/ DeadlinePasses \/ CancelRun)
    BY WorkerLog
  <1>4. ~UNCHANGED vars
    BY DEF vars, storeVars, runVars
  <1>5. PICK t \in Tasks : EngineStep(t) /\ UNCHANGED workerVars
    BY <1>1, <1>3, <1>4 DEF Next, TaskStep
  <1> QED
    BY <1>2, <1>5 DEF SetCompleted, SetCancelled, SetNeedsReview, SetFailed, StoreStatus, SetStatus,
                      workerVars

(* ReviewIsHonest (Engine.execute on AmbiguousStepError): with timely      *)
(* leases a run is parked only while a step declared AT_MOST_ONCE          *)
(* started, is unsettled in the log, and cannot be shown to have landed.   *)
THEOREM ParkedForAReason == ASSUME Timely PROVE Spec => []ReviewIsHonest
  <1>1. Init => AttemptInv /\ ReviewIsHonest
    BY AttemptInvInit DEF Init, SubmitRun, ReviewIsHonest
  <1>2. ASSUME AttemptInv, ReviewIsHonest, [Next]_vars PROVE ReviewIsHonest'
    <2>1. CASE status \in Terminal
      BY <1>2, <2>1, SettledStays DEF ReviewIsHonest
    <2>2. CASE status \notin Terminal /\ status' = "NEEDS_REVIEW"
      <3>1. PICK t \in Tasks : pc[t] = "set_review" /\ UNCHANGED <<log, landed>>
        BY <1>2, <2>2, StatusTurns DEF AttemptInv, OwnInv, Terminal
      <3>2. ReviewDue(key[t])
        BY <1>2, <3>1 DEF AttemptInv, AllCurrent, Current
      <3> QED
        BY <3>1, <3>2 DEF ReviewDue, ReviewIsHonest
    <2> QED
      BY <2>1, <2>2 DEF ReviewIsHonest, Terminal
  <1>3. AttemptInv /\ ReviewIsHonest /\ [Next]_vars => (AttemptInv /\ ReviewIsHonest)'
    BY <1>2, AttemptInvStep
  <1> QED
    BY <1>1, <1>3, PTL DEF Spec

-----------------------------------------------------------------------------
(***************************************************************************)
(* Repeated effects of AT_MOST_ONCE steps.                                 *)
(***************************************************************************)

(* The tries of step k that the log shows to have failed. *)
Shown(k) == At(log, "StepRetried", k) \cup At(log, "StepFailed", k)

(* An effect beyond the ones the log shows as failed belongs to the try    *)
(* that is under way or of unknown outcome, or it is the recorded one; so  *)
(* that a body about to run again is one whose last try is shown.          *)
RepeatInv ==
  \A k \in AtMostOnce :
    /\ landed[k] <= 1 + Cardinality(Shown(k))
    /\ k \notin Unresolved(log) /\ ~Completed(k) => landed[k] <= Cardinality(Shown(k))
    /\ \A t \in Tasks : pc[t] = "invoke" /\ key[t] = k => landed[k] <= Cardinality(Shown(k))

(* What the log shows of failed tries is finite and never withdrawn. *)
LEMMA ShownGrows ==
  ASSUME TypeOK, LogGrows, NEW k \in Keys
  PROVE  /\ Cardinality(Shown(k)) \in Nat /\ Cardinality(Shown(k)') \in Nat
         /\ Cardinality(Shown(k)) <= Cardinality(Shown(k)')
  <1>1. log \in Seq(Event) /\ IsFiniteSet(Shown(k))
    BY AtFinite, FS_Union DEF TypeOK, StoreTypeOK, Shown
  <1>2. CASE log' = log
    BY <1>1, <1>2, FS_CardinalityType DEF Shown
  <1>3. ASSUME NEW e \in Event, log' = Append(log, e)
        PROVE  /\ IsFiniteSet(Shown(k)') /\ Shown(k) \subseteq Shown(k)'
    <2>1. log' \in Seq(Event)
      BY <1>1, <1>3, AppendGrows
    <2>2. IsFiniteSet(Shown(k)')
      BY <2>1, AtFinite, FS_Union DEF Shown
    <2>3. Shown(k) \subseteq Shown(k)'
      BY <1>1, <1>3, AtAppend DEF Shown
    <2> QED
      BY <2>2, <2>3
  <1>4. CASE \E e \in Event : log' = Append(log, e)
    <2>1. IsFiniteSet(Shown(k)') /\ Shown(k) \subseteq Shown(k)'
      BY <1>3, <1>4
    <2> QED
      BY <1>1, <2>1, FS_CardinalityType, FS_Subset
  <1> QED
    BY <1>2, <1>4 DEF LogGrows

(* A failed try is shown by one more event. *)
LEMMA ShownOnce ==
  ASSUME TypeOK, NEW e \in Event, AppendEvent(e), e.key \in Keys,
         e.type \in {"StepRetried", "StepFailed"}
  PROVE  /\ Cardinality(Shown(e.key)) \in Nat
         /\ Cardinality(Shown(e.key)') = Cardinality(Shown(e.key)) + 1
  <1>1. log \in Seq(Event) /\ IsFiniteSet(Shown(e.key)) /\ log' = Append(log, e)
    BY AtFinite, FS_Union DEF TypeOK, StoreTypeOK, Shown, AppendEvent
  <1>2. Shown(e.key)' = Shown(e.key) \cup {Len(log) + 1}
    <2>1. /\ At(log', "StepRetried", e.key) = At(log, "StepRetried", e.key) \cup
               (IF e.type = "StepRetried" /\ e.key = e.key THEN {Len(log) + 1} ELSE {})
          /\ At(log', "StepFailed", e.key) = At(log, "StepFailed", e.key) \cup
               (IF e.type = "StepFailed" /\ e.key = e.key THEN {Len(log) + 1} ELSE {})
      BY <1>1, AtAppend
    <2>2. CASE e.type = "StepRetried"
      BY <2>1, <2>2 DEF Shown
    <2>3. CASE e.type = "StepFailed"
      BY <2>1, <2>3 DEF Shown
    <2> QED
      BY <2>2, <2>3
  <1>3. Len(log) + 1 \notin Shown(e.key)
    BY <1>1, AtRange DEF Shown
  <1> QED
    BY <1>1, <1>2, <1>3, FS_AddElement, FS_CardinalityType

(* Only a StepFailed settles a step that has no result. *)
LEMMA FailureSettles ==
  ASSUME TypeOK, NEW e \in Event, AppendEvent(e), NEW k \in Keys,
         e.type = "StepCompleted" => e.val # {},
         ~(e.type = "StepFailed" /\ e.key = k),
         k \notin Unresolved(log'), Recorded(log', k) = {}
  PROVE  k \notin Unresolved(log) /\ Recorded(log, k) = {}
  <1>1. log \in Seq(Event) /\ log' = Append(log, e)
    BY DEF TypeOK, StoreTypeOK, AppendEvent
  <1>2. ~(e.type = "StepCompleted" /\ e.key = k)
    BY <1>1, RecordedAppendCompleted
  <1>3. Recorded(log', k) = Recorded(log, k)
    BY <1>1, <1>2, RecordedAppendOther
  <1>4. k \notin Unresolved(log)
    BY <1>1, <1>2, UnresolvedAppend
  <1> QED
    BY <1>3, <1>4

(* A step that neither runs a body nor fails a try. *)
LEMMA QuietKeepsRepeats ==
  ASSUME TypeOK, RepeatInv, LogGrows, UNCHANGED landed,
         \A u \in Tasks, k \in AtMostOnce : pc'[u] = "invoke" /\ key'[u] = k =>
           landed[k] <= Cardinality(Shown(k)'),
         \A k \in AtMostOnce : k \notin Unresolved(log') /\ Recorded(log', k) = {} =>
           landed[k] <= Cardinality(Shown(k)')
  PROVE  RepeatInv'
  <1> SUFFICES ASSUME NEW k \in AtMostOnce
               PROVE  landed[k] <= 1 + Cardinality(Shown(k)')
    BY DEF RepeatInv, Completed
  <1>1. k \in Keys /\ landed[k] \in Nat
    BY ContextAssumption DEF TypeOK, StoreTypeOK
  <1>2. /\ Cardinality(Shown(k)) \in Nat /\ Cardinality(Shown(k)') \in Nat
        /\ Cardinality(Shown(k)) <= Cardinality(Shown(k)')
    BY <1>1, ShownGrows
  <1>3. landed[k] <= 1 + Cardinality(Shown(k))
    BY DEF RepeatInv
  <1> QED
    BY <1>1, <1>2, <1>3

(* What the only attempt does to a step that must not be repeated. *)
LEMMA RepeatStep ==
  ASSUME AttemptInv, RepeatInv, [Next]_vars
  PROVE  RepeatInv'
  <1>0. /\ TypeOK /\ KeyInRange /\ SingleOwner /\ AllCurrent /\ BillInv
        /\ AtMostOnce \subseteq Keys
    BY ContextAssumption DEF AttemptInv, OwnInv, DropInv
  <1>1. ASSUME LogGrows, UNCHANGED landed,
               \A u \in Tasks : pc'[u] = "invoke" => pc[u] = "invoke" /\ key'[u] = key[u],
               \A k \in Keys : k \notin Unresolved(log') /\ Recorded(log', k) = {} =>
                 k \notin Unresolved(log) /\ Recorded(log, k) = {}
        PROVE  RepeatInv'
    <2>1. \A k \in AtMostOnce : /\ landed[k] \in Nat
                                /\ Cardinality(Shown(k)) \in Nat /\ Cardinality(Shown(k)') \in Nat
                                /\ Cardinality(Shown(k)) <= Cardinality(Shown(k)')
      BY <1>0, <1>1, ShownGrows DEF TypeOK, StoreTypeOK
    <2>2. \A u \in Tasks, k \in AtMostOnce : pc'[u] = "invoke" /\ key'[u] = k =>
            landed[k] <= Cardinality(Shown(k)')
      BY <1>1, <2>1 DEF RepeatInv
    <2>3. \A k \in AtMostOnce : k \notin Unresolved(log') /\ Recorded(log', k) = {} =>
            landed[k] <= Cardinality(Shown(k)')
      BY <1>0, <1>1, <2>1 DEF RepeatInv, Completed
    <2> QED
      BY <1>0, <1>1, <2>2, <2>3, QuietKeepsRepeats
  <1>2. ASSUME NEW e \in Event, AppendEvent(e), e.type # "StepFailed",
               e.type = "StepCompleted" => e.val # {}, UNCHANGED landed,
               \A u \in Tasks : pc'[u] = "invoke" => pc[u] = "invoke" /\ key'[u] = key[u]
        PROVE  RepeatInv'
    BY <1>0, <1>1, <1>2, FailureSettles DEF LogGrows, AppendEvent
  <1>3. ASSUME NEW t \in Tasks, ContextStep(t) PROVE RepeatInv'
    <2>0. /\ pc[t] \in WorkflowPC => key[t] \in Keys
          /\ \A u \in Tasks \ {t} : pc[u] \in {"idle", "dead"} /\ pc'[u] = pc[u]
          /\ Current(t) /\ BillOf(t)
      <3>1. pc[t] \notin {"idle", "dead"} /\ \A u \in Tasks \ {t} : pc'[u] = pc[u]
        BY <1>0, <1>3, ContextFrame DEF WorkflowPC
      <3> QED
        BY <1>0, <3>1, OthersIdle DEF KeyInRange, AllCurrent, BillInv
    <2> USE DEF storeVars, runVars, queueVars, stepVars
    <2>1. CASE WriteStepStarted(t)
      <3> DEFINE e == StepEvent("StepStarted", key[t])
      <3>1. /\ pc[t] = "step_started" /\ key[t] \in Keys /\ AppendEvent(e)
            /\ UNCHANGED <<landed, key>>
        BY <2>0, <2>1 DEF WriteStepStarted, BeginTries, WorkflowPC
      <3>2. e \in Event /\ e.type = "StepStarted" /\ LogGrows
        BY <3>1, EventTypes DEF StepEvent, EventType, LogGrows, AppendEvent
      <3>3. key[t] \notin Unresolved(log) /\ Recorded(log, key[t]) = {}
        BY <2>0, <3>1 DEF Current, BeforeBody, WorkflowPC, BillOf, OpenPC
      <3>4. \A k \in AtMostOnce : /\ landed[k] \in Nat
                                  /\ Cardinality(Shown(k)) \in Nat
                                  /\ Cardinality(Shown(k)') \in Nat
                                  /\ Cardinality(Shown(k)) <= Cardinality(Shown(k)')
        BY <1>0, <3>2, ShownGrows DEF TypeOK, StoreTypeOK
      <3> HIDE DEF e
      <3>5. \A u \in Tasks, k \in AtMostOnce : pc'[u] = "invoke" /\ key'[u] = k =>
              landed[k] <= Cardinality(Shown(k)')
        <4>1. \A u \in Tasks : pc'[u] = "invoke" => u = t
          BY <2>0
        <4>2. key[t] \in AtMostOnce => landed[key[t]] <= Cardinality(Shown(key[t]))
          BY <3>3 DEF RepeatInv, Completed
        <4> QED
          BY <3>1, <3>4, <4>1, <4>2
      <3>6. \A k \in AtMostOnce : k \notin Unresolved(log') /\ Recorded(log', k) = {} =>
              landed[k] <= Cardinality(Shown(k)')
        <4>1. \A k \in AtMostOnce : k \notin Unresolved(log') /\ Recorded(log', k) = {} =>
                k \notin Unresolved(log) /\ Recorded(log, k) = {}
          BY <1>0, <3>1, <3>2, FailureSettles
        <4> QED
          BY <3>4, <4>1 DEF RepeatInv, Completed
      <3> QED
        BY <1>0, <3>1, <3>2, <3>5, <3>6, QuietKeepsRepeats
    <2>2. CASE WriteCrashRetry(t) \/ WriteStepRetried(t)
      <3> DEFINE e == StepEvent("StepRetried", key[t])
      <3>1. /\ key[t] \in Keys /\ AppendEvent(e) /\ UNCHANGED <<landed, key>>
        BY <2>0, <2>2 DEF WriteCrashRetry, WriteStepRetried, BeginTries, WorkflowPC
      <3>2. e \in Event /\ e.type = "StepRetried" /\ e.key = key[t] /\ LogGrows
        BY <3>1, EventTypes DEF StepEvent, EventType, LogGrows, AppendEvent
      <3>3. \A k \in AtMostOnce : /\ landed[k] \in Nat
                                  /\ Cardinality(Shown(k)) \in Nat
                                  /\ Cardinality(Shown(k)') \in Nat
                                  /\ Cardinality(Shown(k)) <= Cardinality(Shown(k)')
        BY <1>0, <3>2, ShownGrows DEF TypeOK, StoreTypeOK
      <3> HIDE DEF e
      <3>4. \A u \in Tasks, k \in AtMostOnce : pc'[u] = "invoke" /\ key'[u] = k =>
              landed[k] <= Cardinality(Shown(k)')
        <4>1. \A u \in Tasks : pc'[u] = "invoke" => u = t
          BY <2>0
        <4>2. Cardinality(Shown(key[t])') = Cardinality(Shown(key[t])) + 1
          BY <1>0, <3>1, <3>2, ShownOnce
        <4>3. key[t] \in AtMostOnce => landed[key[t]] <= 1 + Cardinality(Shown(key[t]))
          BY DEF RepeatInv
        <4> QED
          BY <3>1, <3>3, <4>1, <4>2, <4>3
      <3>5. \A k \in AtMostOnce : k \notin Unresolved(log') /\ Recorded(log', k) = {} =>
              landed[k] <= Cardinality(Shown(k)')
        <4>1. \A k \in AtMostOnce : k \notin Unresolved(log') /\ Recorded(log', k) = {} =>
                k \notin Unresolved(log) /\ Recorded(log, k) = {}
          BY <1>0, <3>1, <3>2, FailureSettles
        <4> QED
          BY <3>3, <4>1 DEF RepeatInv, Completed
      <3> QED
        BY <1>0, <3>1, <3>2, <3>4, <3>5, QuietKeepsRepeats
    <2>3. CASE WriteStepFailed(t)
      <3> DEFINE e == StepEvent("StepFailed", key[t])
      <3>1. /\ key[t] \in Keys /\ AppendEvent(e) /\ UNCHANGED <<landed, key>>
            /\ pc'[t] = "run_failed"
        BY <1>0, <2>0, <2>3 DEF WriteStepFailed, WorkflowPC, Goto, TypeOK
      <3>2. e \in Event /\ e.type = "StepFailed" /\ e.key = key[t] /\ LogGrows
        BY <3>1, EventTypes DEF StepEvent, EventType, LogGrows, AppendEvent
      <3>3. \A k \in AtMostOnce : /\ landed[k] \in Nat
                                  /\ Cardinality(Shown(k)) \in Nat
                                  /\ Cardinality(Shown(k)') \in Nat
                                  /\ Cardinality(Shown(k)) <= Cardinality(Shown(k)')
        BY <1>0, <3>2, ShownGrows DEF TypeOK, StoreTypeOK
      <3> HIDE DEF e
      <3>4. \A u \in Tasks : pc'[u] # "invoke"
        BY <2>0, <3>1
      <3>5. ASSUME NEW k \in AtMostOnce, k \notin Unresolved(log'), Recorded(log', k) = {}
            PROVE  landed[k] <= Cardinality(Shown(k)')
        <4>1. CASE k = key[t]
          <5>1. Cardinality(Shown(k)') = Cardinality(Shown(k)) + 1
            BY <1>0, <3>1, <3>2, <4>1, ShownOnce
          <5> QED
            BY <3>3, <5>1 DEF RepeatInv
        <4>2. CASE k # key[t]
          <5>1. k \notin Unresolved(log) /\ Recorded(log, k) = {}
            BY <1>0, <3>1, <3>2, <3>5, <4>2, FailureSettles
          <5> QED
            BY <3>3, <5>1 DEF RepeatInv, Completed
        <4> QED
          BY <4>1, <4>2
      <3> QED
        BY <1>0, <3>1, <3>2, <3>4, <3>5, QuietKeepsRepeats
    <2>4. CASE InvokeLands(t)
      <3>1. /\ key[t] \in Keys /\ pc[t] = "invoke" /\ pc'[t] = "landed" /\ UNCHANGED <<log, key>>
            /\ key[t] \in Unresolved(log)
        BY <1>0, <2>0, <2>4 DEF InvokeLands, WorkflowPC, Goto, TypeOK, Current
      <3>2. /\ \A k \in Keys \ {key[t]} : landed'[k] = landed[k]
            /\ landed'[key[t]] = IF key[t] \in Dedup THEN 1 ELSE landed[key[t]] + 1
        BY <1>0, <2>4, <3>1 DEF InvokeLands, RecordSideEffect, TypeOK, StoreTypeOK
      <3>3. \A k \in AtMostOnce : /\ landed[k] \in Nat /\ Cardinality(Shown(k)) \in Nat
                                  /\ Shown(k)' = Shown(k)
        BY <1>0, <3>1, ShownGrows DEF TypeOK, StoreTypeOK, LogGrows, Shown
      <3>4. \A u \in Tasks : pc'[u] # "invoke"
        BY <2>0, <3>1
      <3>5. key[t] \in AtMostOnce => landed[key[t]] <= Cardinality(Shown(key[t]))
        BY <3>1 DEF RepeatInv
      <3>6. \A k \in AtMostOnce : landed'[k] <= 1 + Cardinality(Shown(k))
        BY <1>0, <3>2, <3>3, <3>5 DEF RepeatInv
      <3>7. ASSUME NEW k \in AtMostOnce, k \notin Unresolved(log), ~Completed(k)
            PROVE  landed'[k] <= Cardinality(Shown(k))
        BY <1>0, <3>1, <3>2, <3>7 DEF RepeatInv
      <3> QED
        BY <3>1, <3>3, <3>4, <3>6, <3>7 DEF RepeatInv, Completed
    <2>5. CASE ~(\/ WriteStepStarted(t) \/ WriteCrashRetry(t) \/ WriteStepRetried(t)
                 \/ WriteStepFailed(t) \/ InvokeLands(t))
      <3>1. /\ UNCHANGED landed /\ pc'[t] # "invoke" /\ pc[t] # "step_failed"
        BY <1>0, <1>3, <2>0, <2>5, Advances
        DEF ContextStep, StepReplayed, LeaseGuardPasses, WorkflowRaises, CancelObserved,
            BudgetBreached, GuardsPass, Unverified, VerifyFinds, VerifyFindsNothing, VerifyRaises,
            WriteRecovered, InvokeRaises, AfterError, ReturnRaises, ReturnUnserialisable,
            WriteStepCompleted, SaveStepUsage, WriteToolInvoked, SaveModelUsage, WriteModelCalled,
            Goto, TypeOK, WorkflowPC
      <3>2. \A u \in Tasks : pc'[u] # "invoke"
        BY <2>0, <3>1
      <3>3. CASE log' = log
        BY <1>1, <3>1, <3>2, <3>3 DEF LogGrows
      <3>4. CASE \E e \in Event : AppendEvent(e) /\ WorkflowEvent(t, e)
        BY <1>2, <3>1, <3>2, <3>4 DEF WorkflowEvent
      <3> QED
        BY <1>0, <1>3, <3>3, <3>4, ContextWrites
    <2> QED
      BY <2>1, <2>2, <2>3, <2>4, <2>5
  <1>4. ASSUME NEW t \in Tasks, EngineStep(t) PROVE RepeatInv'
    <2>1. /\ UNCHANGED landed /\ pc'[t] # "invoke"
          /\ \A u \in Tasks \ {t} : pc[u] \in {"idle", "dead"} /\ pc'[u] = pc[u]
      <3>1. pc[t] \notin {"idle", "dead"} /\ \A u \in Tasks \ {t} : pc'[u] = pc[u]
        BY <1>0, <1>4, EngineFrame DEF EnginePC
      <3>2. UNCHANGED landed /\ pc'[t] # "invoke"
        BY <1>0, <1>4
        DEF EngineStep, GetRun, BumpAttempt, WriteRunResumed, SetRunning, RereadRun, LoadEvents,
            WriteRunCompleted, WriteRunCancelled, WriteNeedsReview, WriteBudgetExceeded,
            WriteRunFailed, WriteVerdict, SaveFinalUsage, SaveFailedUsage, StoreUsage,
            SetCompleted, SetCompletedRaises, SetCancelled, SetNeedsReview, SetFailed, StoreStatus,
            storeVars, Goto, TypeOK
      <3> QED
        BY <1>0, <3>1, <3>2, OthersIdle
    <2>2. \A u \in Tasks : pc'[u] # "invoke"
      BY <2>1
    <2>3. CASE log' = log
      BY <1>1, <2>1, <2>2, <2>3 DEF LogGrows
    <2>4. CASE \E e \in Event : AppendEvent(e) /\ EngineEvent(t, e)
      BY <1>2, <2>1, <2>2, <2>4 DEF EngineEvent
    <2> QED
      BY <1>0, <1>4, <2>3, <2>4, EngineWrites
  <1>5. CASE \/ \E t \in Tasks : \/ Claim(t) \/ LeaseLost(t) \/ Dequeue(t)
                                 \/ DequeueSkipped(t) \/ Release(t)
                                 \/ StoreFault(t) \/ HeartbeatFails(t)
             \/ \E w \in Workers : Crash(w) \/ RequestShutdown(w)
             \/ LeaseLapses \/ DeadlinePasses \/ CancelRun
    <2>1. /\ UNCHANGED landed
          /\ \A u \in Tasks : pc'[u] = "invoke" => pc[u] = "invoke" /\ key'[u] = key[u]
          /\ log' = log \/ AppendEvent(RunEvent("CancelRequested"))
      BY <1>0, <1>5, WorkerLog
    <2>2. /\ RunEvent("CancelRequested") \in Event
          /\ RunEvent("CancelRequested").type = "CancelRequested"
      BY EventTypes DEF EventType, RunEvent
    <2> QED
      BY <1>1, <1>2, <2>1, <2>2 DEF LogGrows
  <1>6. CASE UNCHANGED vars
    BY <1>6 DEF vars, storeVars, taskVars, stepVars, RepeatInv, Shown, Completed
  <1> QED
    BY <1>3, <1>4, <1>5, <1>6 DEF Next, TaskStep

(* It holds of a run that was just submitted. *)
LEMMA RepeatInit == Init => RepeatInv
  <1> SUFFICES ASSUME Init, NEW k \in AtMostOnce
               PROVE  landed[k] = 0 /\ Cardinality(Shown(k)) = 0
    BY DEF RepeatInv
  <1>1. k \in Keys /\ landed[k] = 0
    BY ContextAssumption DEF Init, SubmitRun
  <1>2. Shown(k) = {}
    BY DEF Init, SubmitRun, Shown, At, RunEvent
  <1> QED
    BY <1>1, <1>2, FS_EmptySet

(* RepeatsAreShown (the retry loop of RunContext._execute_step): with      *)
(* timely leases the effect of an AT_MOST_ONCE step happens once more      *)
(* only after a try that the log shows to have failed.                     *)
THEOREM EveryRepeatShown == ASSUME Timely PROVE Spec => []RepeatsAreShown
  <1>1. Init => AttemptInv /\ RepeatInv
    BY AttemptInvInit, RepeatInit
  <1>2. AttemptInv /\ RepeatInv /\ [Next]_vars => (AttemptInv /\ RepeatInv)'
    BY AttemptInvStep, RepeatStep
  <1>3. RepeatInv => RepeatsAreShown
    BY DEF RepeatInv, RepeatsAreShown, Shown
  <1> QED
    BY <1>1, <1>2, <1>3, PTL DEF Spec

-----------------------------------------------------------------------------
(***************************************************************************)
(* Steps whose bodies do not raise.                                        *)
(***************************************************************************)

(* Without exceptions of its own no try of an AT_MOST_ONCE step is shown   *)
(* as failed: crashes alone never send such a step round again.            *)
CalmInv ==
  /\ \A t \in Tasks : pc[t] \in {"step_retried", "step_failed"} => key[t] \in Raising
  /\ \A k \in AtMostOnce \ Raising : Shown(k) = {}

(* A StepRetried of such a step is then written only where a crash was,    *)
(* and there not for a step declared AT_MOST_ONCE.                         *)
LEMMA CalmStep ==
  ASSUME AttemptInv, CalmInv, [Next]_vars
  PROVE  CalmInv'
  <1>0. /\ TypeOK /\ KeyInRange /\ AllCurrent /\ SingleOwner /\ AtMostOnce \subseteq Keys
        /\ log \in Seq(Event)
    BY ContextAssumption DEF AttemptInv, OwnInv, DropInv, TypeOK, StoreTypeOK
  <1> DEFINE Erring(u) == pc[u] \in {"step_retried", "step_failed"}
  <1>1. ASSUME NEW t \in Tasks, Erring(t)' PROVE key'[t] \in Raising
    <2>1. ASSUME NEW u \in Tasks, ContextStep(u) PROVE key'[t] \in Raising
      <3>1. pc[u] \in WorkflowPC => key[u] \in Keys
        BY <1>0 DEF KeyInRange
      <3>2. Erring(u)' => key[u] \in Raising /\ key'[u] = key[u]
        BY <1>0, <2>1, <3>1, Advances
        DEF CalmInv, ContextStep, StepReplayed, LeaseGuardPasses, WorkflowRaises, CancelObserved,
            BudgetBreached, GuardsPass, Unverified, VerifyFinds, VerifyFindsNothing, VerifyRaises,
            WriteRecovered, WriteStepStarted, WriteCrashRetry, BeginTries, InvokeLands,
            InvokeRaises, ReturnRaises, ReturnUnserialisable, WriteStepCompleted,
            WriteStepRetried, WriteStepFailed, SaveStepUsage, WriteToolInvoked, SaveModelUsage,
            WriteModelCalled, Goto, TypeOK, WorkflowPC, stepVars
      <3>3. t = u
        <4>1. pc[u] \notin {"idle", "dead"}
          BY <1>0, <2>1, ContextFrame DEF WorkflowPC
        <4>2. \A v \in Tasks \ {u} : pc'[v] \in {"idle", "dead"}
          BY <1>0, <2>1, <4>1, ContextFrame, OthersIdle
        <4> QED
          BY <1>1, <4>2
      <3> QED
        BY <1>1, <3>2, <3>3
    <2>2. ASSUME NEW u \in Tasks, EngineStep(u) PROVE FALSE
      <3>1. ~Erring(u)'
        BY <1>0, <2>2
        DEF EngineStep, GetRun, BumpAttempt, WriteRunResumed, SetRunning, RereadRun, LoadEvents,
            WriteRunCompleted, WriteRunCancelled, WriteNeedsReview, WriteBudgetExceeded,
            WriteRunFailed, WriteVerdict, SaveFinalUsage, SaveFailedUsage, StoreUsage,
            SetCompleted, SetCompletedRaises, SetCancelled, SetNeedsReview, SetFailed, StoreStatus,
            Goto, TypeOK
      <3>2. pc[u] \notin {"idle", "dead"}
        BY <1>0, <2>2, EngineFrame DEF EnginePC
      <3>3. \A v \in Tasks \ {u} : pc'[v] \in {"idle", "dead"}
        BY <1>0, <2>2, <3>2, EngineFrame, OthersIdle
      <3> QED
        BY <1>1, <3>1, <3>3
    <2>3. CASE \/ \E u \in Tasks : \/ Claim(u) \/ LeaseLost(u) \/ Dequeue(u)
                                   \/ DequeueSkipped(u) \/ Release(u)
                                   \/ StoreFault(u) \/ HeartbeatFails(u)
               \/ \E w \in Workers : Crash(w) \/ RequestShutdown(w)
               \/ LeaseLapses \/ DeadlinePasses \/ CancelRun
      BY <1>0, <1>1, <2>3, WorkerLog DEF CalmInv
    <2>4. CASE UNCHANGED vars
      BY <1>1, <2>4 DEF vars, taskVars, stepVars, CalmInv
    <2> QED
      BY <2>1, <2>2, <2>3, <2>4 DEF Next, TaskStep
  <1>2. ASSUME NEW k \in AtMostOnce \ Raising PROVE Shown(k)' = {}
    <2>1. CASE log' = log
      BY <2>1 DEF CalmInv, Shown
    <2>2. ASSUME NEW e \in Event, AppendEvent(e),
                 ~(e.type \in {"StepRetried", "StepFailed"} /\ e.key = k)
          PROVE  Shown(k)' = {}
      <3>1. /\ At(log', "StepRetried", k) = At(log, "StepRetried", k)
            /\ At(log', "StepFailed", k) = At(log, "StepFailed", k)
        BY <1>0, <2>2, AtAppendOther DEF AppendEvent
      <3> QED
        BY <3>1 DEF CalmInv, Shown
    <2>3. ASSUME NEW e \in Event, NEW t \in Tasks, WorkflowEvent(t, e)
          PROVE  ~(e.type \in {"StepRetried", "StepFailed"} /\ e.key = k)
      BY <1>0, <2>3 DEF WorkflowEvent, CalmInv, AllCurrent, Current
    <2> QED
      BY <1>0, <2>1, <2>2, <2>3, NextWrites DEF RunEvent, EngineEvent
  <1> QED
    BY <1>1, <1>2 DEF CalmInv

(* AtMostOnceEffect (RunContext._resolve_crash_window): where no lease     *)
(* ends under a task at work, an AT_MOST_ONCE effect whose own body does   *)
(* not raise happens at most once over any number of crashes, faults and   *)
(* redeliveries, whatever the bodies of the other steps do.                *)
THEOREM AtMostOnceKept == ASSUME Timely PROVE Spec => []AtMostOnceEffect
  <1>1. Init => AttemptInv /\ RepeatInv /\ CalmInv
    <2> SUFFICES ASSUME Init PROVE CalmInv
      BY AttemptInvInit, RepeatInit
    <2> QED
      BY DEF Init, SubmitRun, CalmInv, Shown, At, RunEvent
  <1>2. AttemptInv /\ RepeatInv /\ CalmInv /\ [Next]_vars => (AttemptInv /\ RepeatInv /\ CalmInv)'
    BY AttemptInvStep, RepeatStep, CalmStep
  <1>3. AttemptInv /\ RepeatInv /\ CalmInv => AtMostOnceEffect
    <2> SUFFICES ASSUME RepeatInv, CalmInv, NEW k \in AtMostOnce \ Raising
                 PROVE  landed[k] <= 1
      BY DEF AtMostOnceEffect
    <2>1. landed[k] <= 1 + Cardinality(Shown(k)) /\ Cardinality(Shown(k)) = 0
      BY FS_EmptySet DEF RepeatInv, CalmInv
    <2> QED
      BY <2>1
  <1> QED
    BY <1>1, <1>2, <1>3, PTL DEF Spec

-----------------------------------------------------------------------------
(***************************************************************************)
(* Cancelling.                                                             *)
(***************************************************************************)

(* The cancel requests in the log, and the steps started after one. *)
Requests == At(log, "CancelRequested", NoKey)
StartedAfter(c) == {i \in DOMAIN log : i > c /\ log[i].type = "StepStarted"}

(* The flag and the log agree, and a task that has passed the boundary     *)
(* without seeing the flag is about to write the only StepStarted there is *)
(* going to be after the request.                                          *)
CancelInv ==
  /\ cancels = 0 => Requests = {}
  /\ (\E t \in Tasks : pc[t] = "step_started") => \A c \in Requests : StartedAfter(c) = {}
  /\ CancelStopsNewSteps

(* What one more event adds to the steps after an earlier request. *)
LEMMA StartedAfterAppend ==
  ASSUME log \in Seq(Event), NEW e \in Event, AppendEvent(e), NEW c \in DOMAIN log
  PROVE  StartedAfter(c)' = StartedAfter(c) \cup
           (IF e.type = "StepStarted" THEN {Len(log) + 1} ELSE {})
  <1>1. /\ DOMAIN log' = DOMAIN log \cup {Len(log) + 1}
        /\ \A i \in DOMAIN log : log'[i] = log[i] /\ i \in Nat /\ i < Len(log) + 1
        /\ log'[Len(log) + 1] = e /\ Len(log) + 1 > c
    BY AppendGrows DEF AppendEvent
  <1> QED
    BY <1>1 DEF StartedAfter

(* A boundary that reads the flag after the request starts nothing. *)
LEMMA CancelStep ==
  ASSUME AttemptInv, CancelInv, [Next]_vars
  PROVE  CancelInv'
  <1>0. /\ TypeOK /\ KeyInRange /\ SingleOwner /\ log \in Seq(Event) /\ cancels \in Nat
        /\ Requests \subseteq DOMAIN log
    BY AtRange DEF AttemptInv, OwnInv, DropInv, TypeOK, StoreTypeOK, Requests
  <1>1. CancelStopsNewSteps <=> \A c \in Requests : Cardinality(StartedAfter(c)) <= 1
    BY DEF CancelStopsNewSteps, Requests, StartedAfter
  <1>2. CancelStopsNewSteps' <=> \A c \in Requests' : Cardinality(StartedAfter(c)') <= 1
    BY DEF CancelStopsNewSteps, Requests, StartedAfter
  <1>3. ASSUME NEW e \in Event, AppendEvent(e),
               e.type \notin {"CancelRequested", "StepStarted"}
        PROVE  Requests' = Requests /\ \A c \in Requests : StartedAfter(c)' = StartedAfter(c)
    <2>1. Requests' = Requests
      BY <1>0, <1>3, AtAppendOther DEF AppendEvent, Requests
    <2>2. \A c \in Requests : StartedAfter(c)' = StartedAfter(c)
      BY <1>0, <1>3, StartedAfterAppend
    <2> QED
      BY <2>1, <2>2
  <1>4. ASSUME UNCHANGED cancels, Requests' = Requests,
               \A c \in Requests : StartedAfter(c)' = StartedAfter(c),
               \A t \in Tasks : pc'[t] = "step_started" => pc[t] = "step_started" \/ cancels = 0
        PROVE  CancelInv'
    BY <1>1, <1>2, <1>4 DEF CancelInv
  <1>5. ASSUME NEW t \in Tasks, ContextStep(t) PROVE CancelInv'
    <2>1. /\ \A u \in Tasks \ {t} : pc[u] \in {"idle", "dead"} /\ pc'[u] = pc[u]
          /\ pc[t] \in WorkflowPC => key[t] \in Keys
      <3>1. pc[t] \notin {"idle", "dead"} /\ \A u \in Tasks \ {t} : pc'[u] = pc[u]
        BY <1>0, <1>5, ContextFrame DEF WorkflowPC
      <3> QED
        BY <1>0, <3>1, OthersIdle DEF KeyInRange
    <2>2. UNCHANGED cancels /\ (pc'[t] = "step_started" => cancels = 0)
      BY <1>0, <1>5, <2>1, Advances
      DEF ContextStep, StepReplayed, LeaseGuardPasses, WorkflowRaises, CancelObserved,
          BudgetBreached, GuardsPass, Unverified, VerifyFinds, VerifyFindsNothing, VerifyRaises,
          WriteRecovered, WriteStepStarted, WriteCrashRetry, BeginTries, InvokeLands, InvokeRaises,
          AfterError, ReturnRaises, ReturnUnserialisable, WriteStepCompleted, WriteStepRetried,
          WriteStepFailed, SaveStepUsage, WriteToolInvoked, SaveModelUsage, WriteModelCalled,
          Goto, TypeOK, WorkflowPC, storeVars, runVars
    <2>3. CASE log' = log
      BY <1>4, <2>1, <2>2, <2>3 DEF Requests, StartedAfter
    <2>4. ASSUME NEW e \in Event, AppendEvent(e), WorkflowEvent(t, e), e.type # "StepStarted"
          PROVE  CancelInv'
      BY <1>3, <1>4, <2>1, <2>2, <2>4 DEF WorkflowEvent
    <2>5. ASSUME NEW e \in Event, AppendEvent(e), WorkflowEvent(t, e), e.type = "StepStarted"
          PROVE  CancelInv'
      <3>1. pc[t] = "step_started" /\ pc'[t] = "invoke"
        BY <2>5 DEF WorkflowEvent
      <3>2. \A u \in Tasks : pc'[u] # "step_started"
        BY <2>1, <3>1
      <3>3. Requests' = Requests
        BY <1>0, <2>5, AtAppendOther DEF AppendEvent, Requests
      <3>4. \A c \in Requests : StartedAfter(c)' = {Len(log) + 1}
        BY <1>0, <2>5, <3>1, StartedAfterAppend DEF CancelInv
      <3>5. \A c \in Requests' : Cardinality(StartedAfter(c)') <= 1
        <4>1. Cardinality({Len(log) + 1}) = 1
          BY FS_Singleton
        <4> QED
          BY <3>3, <3>4, <4>1
      <3> QED
        BY <1>2, <2>2, <3>2, <3>3, <3>5 DEF CancelInv
    <2> QED
      BY <1>0, <1>5, <2>3, <2>4, <2>5, ContextWrites
  <1>6. ASSUME NEW t \in Tasks, EngineStep(t) PROVE CancelInv'
    <2>1. UNCHANGED cancels /\ pc'[t] # "step_started"
      BY <1>0, <1>6
      DEF EngineStep, GetRun, BumpAttempt, WriteRunResumed, SetRunning, RereadRun, LoadEvents,
          WriteRunCompleted, WriteRunCancelled, WriteNeedsReview, WriteBudgetExceeded,
          WriteRunFailed, WriteVerdict, SaveFinalUsage, SaveFailedUsage, StoreUsage,
          SetCompleted, SetCompletedRaises, SetCancelled, SetNeedsReview, SetFailed, StoreStatus,
          storeVars, runVars, Goto, TypeOK
    <2>2. \A u \in Tasks : pc'[u] = "step_started" => pc[u] = "step_started"
      BY <1>0, <1>6, <2>1, EngineFrame
    <2>3. CASE log' = log
      BY <1>4, <2>1, <2>2, <2>3 DEF Requests, StartedAfter
    <2>4. CASE \E e \in Event : AppendEvent(e) /\ EngineEvent(t, e)
      BY <1>3, <1>4, <2>1, <2>2, <2>4 DEF EngineEvent
    <2> QED
      BY <1>0, <1>6, <2>3, <2>4, EngineWrites
  <1>7. CASE \/ \E t \in Tasks : \/ Claim(t) \/ LeaseLost(t) \/ Dequeue(t)
                                 \/ DequeueSkipped(t) \/ Release(t)
                                 \/ StoreFault(t) \/ HeartbeatFails(t)
             \/ \E w \in Workers : Crash(w) \/ RequestShutdown(w)
             \/ LeaseLapses \/ DeadlinePasses \/ CancelRun
    <2>1. \A u \in Tasks : pc'[u] = "step_started" => pc[u] = "step_started"
      BY <1>0, <1>7, WorkerLog
    <2>2. CASE log' = log /\ cancels' = cancels
      BY <1>4, <2>1, <2>2 DEF Requests, StartedAfter
    <2>3. CASE AppendEvent(RunEvent("CancelRequested")) /\ cancels' = cancels + 1
      <3> DEFINE e == RunEvent("CancelRequested")
                 n == Len(log) + 1
      <3>1. /\ e \in Event /\ e.type = "CancelRequested" /\ e.key = NoKey
            /\ AppendEvent(e)
        BY <2>3, EventTypes DEF RunEvent, EventType
      <3> HIDE DEF e
      <3>2. Requests' = Requests \cup {n}
        BY <1>0, <3>1, AtAppend DEF AppendEvent, Requests
      <3>3. \A c \in Requests : StartedAfter(c)' = StartedAfter(c)
        BY <1>0, <3>1, StartedAfterAppend
      <3>4. ASSUME NEW c \in {n} PROVE StartedAfter(c)' = {}
        <4>1. /\ DOMAIN log' = DOMAIN log \cup {n} /\ n \in Nat
              /\ \A i \in DOMAIN log : i \in Nat /\ i < n
          BY <1>0, <3>1, AppendGrows DEF AppendEvent
        <4> HIDE DEF n
        <4>2. \A i \in DOMAIN log' : ~(i > c)
          BY <4>1
        <4> QED
          BY <4>2 DEF StartedAfter
      <3> HIDE DEF n
      <3>5. Cardinality({}) = 0
        BY FS_EmptySet
      <3>6. \A c \in Requests' : Cardinality(StartedAfter(c)') <= 1
        BY <1>1, <3>2, <3>3, <3>4, <3>5 DEF CancelInv
      <3>7. cancels' # 0
        BY <1>0, <2>3
      <3>8. (\E u \in Tasks : pc'[u] = "step_started") =>
              \A c \in Requests' : StartedAfter(c)' = {}
        BY <2>1, <3>2, <3>3, <3>4 DEF CancelInv
      <3> QED
        BY <1>2, <3>6, <3>7, <3>8 DEF CancelInv
    <2> QED
      BY <1>0, <1>7, <2>2, <2>3, WorkerLog
  <1>8. CASE UNCHANGED vars
    BY <1>4, <1>8 DEF vars, storeVars, runVars, taskVars, Requests, StartedAfter
  <1> QED
    BY <1>5, <1>6, <1>7, <1>8 DEF Next, TaskStep

(* CancelStopsNewSteps (RunContext._checkpoint_guards): with timely        *)
(* leases at most one StepStarted follows a cancel request, over all       *)
(* the attempts that come after it.                                        *)
THEOREM CancelHolds == ASSUME Timely PROVE Spec => []CancelStopsNewSteps
  <1>1. Init => AttemptInv /\ CancelInv
    <2> SUFFICES ASSUME Init PROVE Requests = {} /\ \A t \in Tasks : pc[t] # "step_started"
      BY AttemptInvInit DEF CancelInv, CancelStopsNewSteps, Requests
    <2> QED
      BY DEF Init, SubmitRun, Requests, At, RunEvent
  <1>2. AttemptInv /\ CancelInv /\ [Next]_vars => (AttemptInv /\ CancelInv)'
    BY AttemptInvStep, CancelStep
  <1>3. CancelInv => CancelStopsNewSteps
    BY DEF CancelInv
  <1> QED
    BY <1>1, <1>2, <1>3, PTL DEF Spec

-----------------------------------------------------------------------------
(***************************************************************************)
(* The verdict on the row and the last one in the log.                     *)
(***************************************************************************)

(* The events that end a run. *)
VerdictTypes == {"RunCompleted", "RunFailed", "RunCancelled", "RunNeedsReview"}

(* The last verdict in the log is of type y. *)
Latest(y) == \E i \in Verdicts : log[i].type = y /\ \A j \in Verdicts : j <= i

(* Between the verdict and the status a task writes, nobody else's verdict *)
(* gets in.                                                                *)
LatestOf(t) ==
  /\ pc[t] \in {"final_usage", "set_completed"} => Latest("RunCompleted")
  /\ pc[t] \in {"failed_usage", "set_failed"} => Latest("RunFailed")
  /\ pc[t] = "set_cancelled" => Latest("RunCancelled")
  /\ pc[t] = "set_review" => Latest("RunNeedsReview")

(* The inductive invariant of the verdict. *)
LatestInv == VerdictIsLatest /\ \A t \in Tasks : LatestOf(t)

(* The verdicts are the events that end an attempt for good. *)
LEMMA VerdictEvents == Verdicts = {i \in DOMAIN log : log[i].type \in VerdictTypes}
  BY DEF Verdicts, VerdictOf, VerdictTypes, Terminal

(* An appended verdict is the latest, and any other event is none. *)
LEMMA LatestAppend ==
  ASSUME TypeOK, NEW e \in Event, AppendEvent(e)
  PROVE  /\ e.type \in VerdictTypes => Latest(e.type)'
         /\ e.type \notin VerdictTypes => \A y : Latest(y) => Latest(y)'
  <1> DEFINE n == Len(log) + 1
  <1>1. /\ DOMAIN log' = DOMAIN log \cup {n} /\ n \in Nat
        /\ \A i \in DOMAIN log : log'[i] = log[i] /\ i \in Nat /\ i < n
        /\ log'[n] = e
    BY AppendGrows DEF TypeOK, StoreTypeOK, AppendEvent
  <1> HIDE DEF n
  <1>2. Verdicts' = {i \in DOMAIN log' : log'[i].type \in VerdictTypes}
    BY DEF Verdicts, VerdictOf, VerdictTypes, Terminal
  <1>3. CASE e.type \in VerdictTypes
    <2>1. n \in Verdicts' /\ \A j \in Verdicts' : j <= n
      BY <1>1, <1>2, <1>3
    <2> QED
      BY <1>1, <1>3, <2>1 DEF Latest
  <1>4. CASE e.type \notin VerdictTypes
    <2>1. Verdicts' = Verdicts
      BY <1>1, <1>2, <1>4, VerdictEvents
    <2>2. Verdicts \subseteq DOMAIN log
      BY VerdictEvents
    <2> QED
      BY <1>1, <1>4, <2>1, <2>2 DEF Latest
  <1> QED
    BY <1>3, <1>4

(* A status is put on the row by the task that logged the latest verdict. *)
LEMMA LatestStep ==
  ASSUME AttemptInv, LatestInv, [Next]_vars
  PROVE  LatestInv'
  <1>0. TypeOK /\ SingleOwner
    BY DEF AttemptInv, OwnInv
  <1>1. VerdictIsLatest'
    <2>1. CASE status \in Terminal
      BY <2>1, SettledStays DEF LatestInv, VerdictIsLatest, Verdicts
    <2>2. CASE status \notin Terminal /\ status' \in Terminal
      <3>1. Latest(VerdictOf(status')) /\ UNCHANGED log
        BY <1>0, <2>2, StatusTurns DEF LatestInv, LatestOf, VerdictOf
      <3> QED
        BY <3>1 DEF Latest, VerdictIsLatest, Verdicts
    <2> QED
      BY <2>1, <2>2 DEF VerdictIsLatest
  <1> SUFFICES ASSUME NEW t \in Tasks PROVE LatestOf(t)'
    BY <1>1 DEF LatestInv
  <1>2. LatestOf(t)
    BY DEF LatestInv
  <1>3. ASSUME NEW u \in Tasks, ContextStep(u) PROVE LatestOf(t)'
    <2>1. pc[u] \notin {"idle", "dead"} /\ \A v \in Tasks \ {u} : pc'[v] = pc[v]
      BY <1>0, <1>3, ContextFrame DEF WorkflowPC
    <2>2. CASE t = u
      BY <1>0, <1>3, <2>2, ContextFrame DEF LatestOf, WorkflowPC
    <2>3. CASE t # u
      BY <1>0, <2>1, <2>3, OthersIdle DEF LatestOf
    <2> QED
      BY <2>2, <2>3
  <1>4. ASSUME NEW u \in Tasks, EngineStep(u) PROVE LatestOf(t)'
    <2>1. pc[u] \notin {"idle", "dead"} /\ \A v \in Tasks \ {u} : pc'[v] = pc[v]
      BY <1>0, <1>4, EngineFrame DEF EnginePC
    <2>2. CASE t # u
      BY <1>0, <2>1, <2>2, OthersIdle DEF LatestOf
    <2>3. CASE t = u /\ log' = log
      <3>1. /\ pc'[u] = "set_completed" => pc[u] = "final_usage"
            /\ pc'[u] = "set_failed" => pc[u] = "failed_usage"
            /\ pc'[u] \notin {"final_usage", "failed_usage", "set_cancelled", "set_review"}
        BY <1>0, <1>4, <2>3
        DEF EngineStep, GetRun, BumpAttempt, WriteRunResumed, SetRunning, RereadRun, LoadEvents,
            WriteRunCompleted, WriteRunCancelled, WriteNeedsReview, WriteBudgetExceeded,
            WriteRunFailed, WriteVerdict, SaveFinalUsage, SaveFailedUsage, StoreUsage,
            SetCompleted, SetCompletedRaises, SetCancelled, SetNeedsReview, SetFailed, StoreStatus,
            Goto, TypeOK, StoreTypeOK, AppendEvent
      <3> QED
        BY <1>2, <2>3, <3>1 DEF LatestOf, Latest, Verdicts
    <2>4. ASSUME NEW e \in Event, AppendEvent(e), EngineEvent(u, e), t = u
          PROVE  LatestOf(t)'
      <3>1. e.type \in VerdictTypes => Latest(e.type)'
        BY <1>0, <2>4, LatestAppend
      <3>2. e.type \notin VerdictTypes => pc'[u] \in {"set_running", "run_failed"}
        BY <1>0, <1>4, <2>4
        DEF EngineStep, GetRun, BumpAttempt, WriteRunResumed, SetRunning, RereadRun, LoadEvents,
            WriteRunCompleted, WriteRunCancelled, WriteNeedsReview, WriteBudgetExceeded,
            WriteRunFailed, WriteVerdict, SaveFinalUsage, SaveFailedUsage, StoreUsage,
            SetCompleted, SetCompletedRaises, SetCancelled, SetNeedsReview, SetFailed, StoreStatus,
            Goto, TypeOK, StoreTypeOK, AppendEvent, EngineEvent, VerdictTypes, RunEvent, StepEvent,
            storeVars
      <3> QED
        BY <2>4, <3>1, <3>2 DEF EngineEvent, LatestOf, VerdictTypes
    <2> QED
      BY <1>0, <1>4, <2>2, <2>3, <2>4, EngineWrites
  <1>5. CASE \/ \E u \in Tasks : \/ Claim(u) \/ LeaseLost(u) \/ Dequeue(u)
                                 \/ DequeueSkipped(u) \/ Release(u)
                                 \/ StoreFault(u) \/ HeartbeatFails(u)
             \/ \E w \in Workers : Crash(w) \/ RequestShutdown(w)
             \/ LeaseLapses \/ DeadlinePasses \/ CancelRun
    <2>1. /\ log' = log \/ AppendEvent(RunEvent("CancelRequested"))
          /\ pc'[t] \in {pc[t], "idle", "dead", "get_run", "run_failed", "release"}
      BY <1>0, <1>5, WorkerLog
    <2>2. \A y : Latest(y) => Latest(y)'
      <3>1. CASE log' = log
        BY <3>1 DEF Latest, Verdicts
      <3>2. CASE AppendEvent(RunEvent("CancelRequested"))
        <4>1. /\ RunEvent("CancelRequested") \in Event
              /\ RunEvent("CancelRequested").type \notin VerdictTypes
          BY EventTypes DEF EventType, RunEvent, VerdictTypes
        <4> QED
          BY <1>0, <3>2, <4>1, LatestAppend
      <3> QED
        BY <2>1, <3>1, <3>2
    <2> QED
      BY <1>2, <2>1, <2>2 DEF LatestOf
  <1>6. CASE UNCHANGED vars
    BY <1>2, <1>6 DEF vars, storeVars, taskVars, LatestOf, Latest, Verdicts
  <1> QED
    BY <1>3, <1>4, <1>5, <1>6 DEF Next, TaskStep

(* VerdictIsLatest (the end of Engine.execute): with timely leases the     *)
(* terminal status on the row repeats the last verdict in the log,         *)
(* although verdict and status are two statements and an attempt may stop  *)
(* between them.                                                           *)
THEOREM RowRepeatsLastVerdict == ASSUME Timely PROVE Spec => []VerdictIsLatest
  <1>1. Init => AttemptInv /\ LatestInv
    <2> SUFFICES ASSUME Init PROVE LatestInv
      BY AttemptInvInit
    <2> QED
      BY DEF Init, SubmitRun, LatestInv, LatestOf, VerdictIsLatest, Terminal
  <1>2. AttemptInv /\ LatestInv /\ [Next]_vars => (AttemptInv /\ LatestInv)'
    BY AttemptInvStep, LatestStep
  <1>3. LatestInv => VerdictIsLatest
    BY DEF LatestInv
  <1> QED
    BY <1>1, <1>2, <1>3, PTL DEF Spec

-----------------------------------------------------------------------------
(***************************************************************************)
(* Usage that is lost.                                                     *)
(***************************************************************************)

(* Where a task has read the counters of the row and not failed since. *)
Reading ==
  WorkflowPC \cup {"load_events", "run_completed", "final_usage", "set_completed",
                   "run_cancelled", "set_cancelled", "needs_review", "set_review",
                   "budget_exceeded"}

(* How many model calls the log holds, as against the counters of the row  *)
(* and of the task; the attempt that is running may have one call open.    *)
LossOf(t) ==
  /\ pc[t] \in {"run_resumed", "set_running", "reread"} =>
       Cardinality(Billable) < usage.model_calls + attempt
  /\ pc[t] \in Reading \ {"save_model_usage"} => spent[t].model_calls = usage.model_calls
  /\ pc[t] = "save_model_usage" => spent[t].model_calls = usage.model_calls + 1
  /\ pc[t] \in Reading =>
       IF pc[t] = "save_usage" /\ key[t] \in Models
       THEN Cardinality(Billable) <= spent[t].model_calls + attempt
       ELSE Cardinality(Billable) < spent[t].model_calls + attempt
  /\ pc[t] \in {"run_failed", "failed_usage"} =>
       /\ Cardinality(Billable) < spent[t].model_calls + attempt + faults
       /\ usage.model_calls <= spent[t].model_calls
  /\ pc[t] = "set_failed" => Cardinality(Billable) < usage.model_calls + attempt + faults

(* The inductive invariant of lost usage. *)
LossInv ==
  /\ Cardinality(Billable) <= usage.model_calls + attempt
  /\ UsageLossBounded
  /\ \A t \in Tasks : LossOf(t)

(* The numbers that LossInv compares are natural. *)
LEMMA LossNumbers ==
  ASSUME TypeOK
  PROVE  /\ Cardinality(Billable) \in Nat /\ usage.model_calls \in Nat
         /\ attempt \in Nat /\ faults \in Nat
         /\ \A t \in Tasks : spent[t].model_calls \in Nat
  <1>1. Billable \in SUBSET Models
    BY DEF Billable
  <1> QED
    BY <1>1, CountModels DEF TypeOK, StoreTypeOK, Usage

(* The model calls in the log stay the same when no model step gets its    *)
(* result.                                                                 *)
LEMMA BillableSame ==
  ASSUME \A k \in Models : Recorded(log', k) = {} <=> Recorded(log, k) = {}
  PROVE  Billable' = Billable
  BY DEF Billable, Completed

(* While one task works, nobody else can lose anything. *)
LEMMA OneLoses ==
  ASSUME NEW t \in Tasks, LossOf(t)',
         \A u \in Tasks \ {t} : pc'[u] \in {"idle", "dead"}
  PROVE  \A u \in Tasks : LossOf(u)'
  BY DEF LossOf, Reading, WorkflowPC

(* A completed model step is open until its usage is saved. *)
LEMMA ContextKeepsLoss ==
  ASSUME AttemptInv, LossInv, NEW t \in Tasks, ContextStep(t), UNCHANGED workerVars
  PROVE  /\ Cardinality(Billable') <= usage'.model_calls + attempt'
         /\ \A u \in Tasks : LossOf(u)'
  <1>0. /\ TypeOK /\ KeyInRange /\ SingleOwner /\ faults' = faults
        /\ pc[t] \in WorkflowPC => key[t] \in Keys
        /\ LossOf(t) /\ Current(t)
        /\ Cardinality(Billable) <= usage.model_calls + attempt
    BY DEF AttemptInv, OwnInv, DropInv, KeyInRange, LossInv, AllCurrent, workerVars
  <1>1. /\ Cardinality(Billable) \in Nat /\ usage.model_calls \in Nat
        /\ attempt \in Nat /\ faults \in Nat /\ spent[t].model_calls \in Nat
    BY <1>0, LossNumbers
  <1>2. /\ \A u \in Tasks \ {t} : pc'[u] \in {"idle", "dead"}
        /\ pc[t] \in WorkflowPC \cup {"run_completed"}
    <2>1. /\ pc[t] \notin {"idle", "dead"} /\ \A u \in Tasks \ {t} : pc'[u] = pc[u]
          /\ pc[t] \in WorkflowPC \cup {"run_completed"}
      BY <1>0, ContextFrame DEF WorkflowPC
    <2> QED
      BY <1>0, <2>1, OthersIdle
  <1> SUFFICES Cardinality(Billable') <= usage'.model_calls + attempt' /\ LossOf(t)'
    BY <1>2, OneLoses
  <1> USE DEF storeVars, runVars, queueVars, stepVars
  <1>3. ASSUME UNCHANGED <<usage, attempt>>, Billable' = Billable,
               pc[t] \notin {"save_usage", "save_model_usage"},
               pc'[t] \in (WorkflowPC \ {"save_usage", "save_model_usage"}) \cup
                 {"run_completed", "run_cancelled", "budget_exceeded", "run_failed",
                  "needs_review"},
               spent'[t].model_calls = spent[t].model_calls
        PROVE  Cardinality(Billable') <= usage'.model_calls + attempt' /\ LossOf(t)'
    <2>1. /\ spent[t].model_calls = usage.model_calls
          /\ Cardinality(Billable) < spent[t].model_calls + attempt
      BY <1>0, <1>2, <1>3 DEF LossOf, Reading
    <2> QED
      BY <1>0, <1>1, <1>3, <2>1 DEF LossOf, Reading, WorkflowPC
  <1>4. ASSUME NEW l, pc'[t] = l, l \in {"run_completed", "run_cancelled", "budget_exceeded",
                 "run_failed", "needs_review"} \cup (WorkflowPC \ {"save_usage", "save_model_usage"}),
               UNCHANGED <<usage, attempt, log>>,
               pc[t] \notin {"save_usage", "save_model_usage"},
               spent'[t].model_calls = spent[t].model_calls
        PROVE  Cardinality(Billable') <= usage'.model_calls + attempt' /\ LossOf(t)'
    BY <1>3, <1>4, BillableSame
  <1>5. ASSUME Advance(t), UNCHANGED spent, pc[t] \in WorkflowPC
        PROVE  pc'[t] \in {"step", "run_completed"} /\ spent'[t] = spent[t]
    BY <1>0, <1>5, Advances
  <1>6. CASE StepReplayed(t)
    BY <1>4, <1>5, <1>6 DEF StepReplayed, WorkflowPC
  <1>7. CASE \/ LeaseGuardPasses(t) \/ WorkflowRaises(t) \/ CancelObserved(t)
             \/ BudgetBreached(t) \/ GuardsPass(t) \/ VerifyFinds(t) \/ VerifyFindsNothing(t)
             \/ VerifyRaises(t) \/ ReturnRaises(t) \/ ReturnUnserialisable(t)
    BY <1>0, <1>4, <1>7
    DEF LeaseGuardPasses, WorkflowRaises, CancelObserved, BudgetBreached, GuardsPass, VerifyFinds,
        VerifyFindsNothing, VerifyRaises, ReturnRaises, ReturnUnserialisable, Unverified,
        AfterError, Goto, TypeOK, WorkflowPC
  <1>8. CASE InvokeLands(t) \/ InvokeRaises(t)
    <2>1. spent'[t].model_calls = spent[t].model_calls
      BY <1>0, <1>8, CountSpends DEF InvokeLands, InvokeRaises
    <2> QED
      BY <1>0, <1>4, <1>8, <2>1
      DEF InvokeLands, InvokeRaises, AfterError, Goto, TypeOK, WorkflowPC
  <1>9. CASE WriteStepStarted(t) \/ WriteCrashRetry(t) \/ WriteStepRetried(t) \/ WriteStepFailed(t)
    <2>1. \A k \in Keys : Recorded(log', k) = Recorded(log, k)
      <3>1. key[t] \in Keys
        BY <1>0, <1>9 DEF WriteStepStarted, WriteCrashRetry, WriteStepRetried, WriteStepFailed,
                          WorkflowPC
      <3>2. PICK y \in {"StepStarted", "StepRetried", "StepFailed"} :
              AppendEvent(StepEvent(y, key[t]))
        BY <1>9 DEF WriteStepStarted, WriteCrashRetry, WriteStepRetried, WriteStepFailed,
                    BeginTries
      <3> QED
        BY <1>0, <3>1, <3>2, QuietAppend, QuietEvents DEF EventType
    <2>2. Billable' = Billable
      BY <2>1, BillableSame, ContextAssumption
    <2> QED
      BY <1>0, <1>3, <1>9, <2>2
      DEF WriteStepStarted, WriteCrashRetry, WriteStepRetried, WriteStepFailed, BeginTries,
          Goto, TypeOK, WorkflowPC
  <1>10. CASE WriteRecovered(t)
    <2>1. /\ key[t] \in Keys /\ key[t] \notin Models /\ pc[t] = "recovered"
          /\ UNCHANGED <<usage, attempt, spent>> /\ Advance(t)
      BY <1>0, <1>10, ContextAssumption DEF WriteRecovered, WorkflowPC, Current
    <2>2. \A k \in Keys \ {key[t]} : Recorded(log', k) = Recorded(log, k)
      BY <1>0, <1>10, <2>1, CompleteRecords DEF WriteRecovered
    <2>3. Billable' = Billable
      BY <2>1, <2>2, BillableSame, ContextAssumption
    <2>4. pc'[t] \in {"step", "run_completed"}
      BY <1>5, <2>1 DEF WorkflowPC
    <2> QED
      BY <1>3, <2>1, <2>3, <2>4 DEF WorkflowPC
  <1>11. CASE WriteStepCompleted(t)
    <2>1. /\ key[t] \in Keys /\ pc[t] = "landed" /\ pc'[t] = "save_usage"
          /\ UNCHANGED <<usage, attempt, spent, key>>
      BY <1>0, <1>11 DEF WriteStepCompleted, WorkflowPC, Goto, TypeOK
    <2>2. /\ Recorded(log', key[t]) # {}
          /\ \A k \in Keys \ {key[t]} : Recorded(log', k) = Recorded(log, k)
      BY <1>0, <1>11, <2>1, CompleteRecords DEF WriteStepCompleted
    <2>3. /\ spent[t].model_calls = usage.model_calls
          /\ Cardinality(Billable) < spent[t].model_calls + attempt
      BY <1>0, <2>1 DEF LossOf, Reading, WorkflowPC
    <2>4. CASE key[t] \in Models
      <3>1. Billable' = Billable \cup {key[t]}
        BY <2>2, <2>4, ContextAssumption DEF Billable, Completed
      <3>2. IsFiniteSet(Billable)
        BY CountModels DEF Billable
      <3>3. Cardinality(Billable') \in {Cardinality(Billable), Cardinality(Billable) + 1}
        BY <3>1, <3>2, FS_AddElement
      <3>4. Cardinality(Billable') <= spent[t].model_calls + attempt
        BY <1>1, <2>3, <3>3
      <3> QED
        BY <2>1, <2>3, <2>4, <3>4 DEF LossOf, Reading, WorkflowPC
    <2>5. CASE key[t] \notin Models
      <3>1. Billable' = Billable
        BY <2>2, <2>5, BillableSame, ContextAssumption
      <3> QED
        BY <1>1, <2>1, <2>3, <2>5, <3>1 DEF LossOf, Reading, WorkflowPC
    <2> QED
      BY <2>4, <2>5
  <1>12. CASE SaveStepUsage(t)
    <2>1. /\ key[t] \in Keys /\ pc[t] = "save_usage" /\ usage' = spent[t]
          /\ UNCHANGED <<attempt, log>>
      BY <1>0, <1>12 DEF SaveStepUsage, SaveUsage, WorkflowPC
    <2>2. Billable' = Billable
      BY <2>1, BillableSame
    <2>3. CASE key[t] \in Models
      <3>1. /\ pc'[t] = "save_model_usage" /\ key'[t] = key[t]
            /\ spent'[t].model_calls = spent[t].model_calls + 1
        BY <1>0, <1>12, <2>3, ContextAssumption
        DEF SaveStepUsage, Goto, TypeOK, AddModelUsage, Usage
      <3>2. Cardinality(Billable) <= spent[t].model_calls + attempt
        BY <2>1, <2>3, <1>0 DEF LossOf, Reading, WorkflowPC
      <3> QED
        BY <1>1, <2>1, <2>2, <3>1, <3>2 DEF LossOf, Reading, WorkflowPC
    <2>4. CASE key[t] \notin Models
      <3>1. /\ pc'[t] \in {"tool_invoked", "step", "run_completed"} /\ spent'[t] = spent[t]
        BY <1>0, <1>5, <1>12, <2>1, <2>4 DEF SaveStepUsage, Goto, TypeOK, WorkflowPC
      <3>2. Cardinality(Billable) < spent[t].model_calls + attempt
        BY <2>1, <2>4, <1>0 DEF LossOf, Reading, WorkflowPC
      <3> QED
        BY <1>1, <2>1, <2>2, <3>1, <3>2 DEF LossOf, Reading, WorkflowPC
    <2> QED
      BY <2>3, <2>4
  <1>13. CASE SaveModelUsage(t)
    <2>1. /\ pc[t] = "save_model_usage" /\ pc'[t] = "model_called" /\ usage' = spent[t]
          /\ UNCHANGED <<attempt, log, spent>>
      BY <1>0, <1>13 DEF SaveModelUsage, SaveUsage, Goto, TypeOK
    <2>2. Billable' = Billable
      BY <2>1, BillableSame
    <2>3. Cardinality(Billable) < spent[t].model_calls + attempt
      BY <2>1, <1>0 DEF LossOf, Reading, WorkflowPC
    <2> QED
      BY <1>1, <2>1, <2>2, <2>3 DEF LossOf, Reading, WorkflowPC
  <1>14. CASE WriteToolInvoked(t) \/ WriteModelCalled(t)
    <2>1. /\ key[t] \in Keys /\ pc[t] \in {"tool_invoked", "model_called"} /\ Advance(t)
          /\ UNCHANGED <<usage, attempt, spent>>
      BY <1>0, <1>14 DEF WriteToolInvoked, WriteModelCalled, WorkflowPC
    <2>2. \A k \in Keys : Recorded(log', k) = Recorded(log, k)
      BY <1>0, <1>14, <2>1, QuietAppend, QuietEvents
      DEF WriteToolInvoked, WriteModelCalled, EventType
    <2>3. Billable' = Billable
      BY <2>2, BillableSame, ContextAssumption
    <2>4. pc'[t] \in {"step", "run_completed"}
      BY <1>5, <2>1 DEF WorkflowPC
    <2> QED
      BY <1>3, <2>1, <2>3, <2>4 DEF WorkflowPC
  <1> QED
    BY <1>6, <1>7, <1>8, <1>9, <1>10, <1>11, <1>12, <1>13, <1>14 DEF ContextStep

(* The engine counts the attempt before it reads the counters. *)
LEMMA EngineKeepsLoss ==
  ASSUME AttemptInv, LossInv, NEW t \in Tasks, EngineStep(t), UNCHANGED workerVars
  PROVE  /\ Cardinality(Billable') <= usage'.model_calls + attempt'
         /\ \A u \in Tasks : LossOf(u)'
  <1>0. /\ TypeOK /\ SingleOwner /\ faults' = faults /\ LossOf(t)
        /\ Cardinality(Billable) <= usage.model_calls + attempt
    BY DEF AttemptInv, OwnInv, LossInv, workerVars
  <1>1. /\ Cardinality(Billable) \in Nat /\ usage.model_calls \in Nat
        /\ attempt \in Nat /\ faults \in Nat /\ spent[t].model_calls \in Nat
    BY <1>0, LossNumbers
  <1>2. /\ \A u \in Tasks \ {t} : pc'[u] \in {"idle", "dead"}
    <2>1. /\ pc[t] \notin {"idle", "dead"} /\ \A u \in Tasks \ {t} : pc'[u] = pc[u]
      BY <1>0, EngineFrame DEF EnginePC
    <2> QED
      BY <1>0, <2>1, OthersIdle
  <1> SUFFICES Cardinality(Billable') <= usage'.model_calls + attempt' /\ LossOf(t)'
    BY <1>2, OneLoses
  <1>3. Billable' = Billable
    <2>1. CASE log' = log
      BY <2>1, BillableSame
    <2>2. CASE \E e \in Event : AppendEvent(e) /\ EngineEvent(t, e)
      <3>1. \A k \in Keys : Recorded(log', k) = Recorded(log, k)
        BY <1>0, <2>2, QuietAppend DEF EngineEvent
      <3> QED
        BY <3>1, BillableSame, ContextAssumption
    <2> QED
      BY <1>0, <2>1, <2>2, EngineWrites
  <1> USE DEF storeVars, runVars, queueVars, stepVars
  <1>4. CASE \/ GetRun(t) \/ SetCompletedRaises(t) \/ SetCompleted(t) \/ SetCancelled(t)
             \/ SetNeedsReview(t) \/ SetFailed(t)
    <2>1. pc'[t] \in {"bump_attempt", "dequeue", "release"} /\ UNCHANGED <<usage, attempt>>
      BY <1>0, <1>4 DEF GetRun, SetCompletedRaises, SetCompleted, SetCancelled, SetNeedsReview,
                        SetFailed, StoreStatus, Goto, TypeOK
    <2> QED
      BY <1>0, <1>3, <2>1 DEF LossOf, Reading, WorkflowPC
  <1>5. CASE BumpAttempt(t)
    <2>1. /\ pc'[t] \in {"run_resumed", "set_running"} /\ UNCHANGED usage
          /\ attempt' = attempt + 1
      BY <1>0, <1>5 DEF BumpAttempt, Goto, TypeOK
    <2> QED
      BY <1>0, <1>1, <1>3, <2>1 DEF LossOf, Reading, WorkflowPC
  <1>6. CASE WriteRunResumed(t) \/ SetRunning(t)
    <2>1. /\ pc[t] \in {"run_resumed", "set_running"} /\ pc'[t] \in {"set_running", "reread"}
          /\ UNCHANGED <<usage, attempt>>
      BY <1>0, <1>6 DEF WriteRunResumed, SetRunning, Goto, TypeOK
    <2> QED
      BY <1>0, <1>3, <2>1 DEF LossOf, Reading, WorkflowPC
  <1>7. CASE RereadRun(t)
    <2>1. /\ pc[t] = "reread" /\ pc'[t] = "load_events" /\ spent'[t] = usage
          /\ UNCHANGED <<usage, attempt>>
      BY <1>0, <1>7 DEF RereadRun, Goto, TypeOK
    <2> QED
      BY <1>0, <1>3, <2>1 DEF LossOf, Reading, WorkflowPC
  <1>8. CASE LoadEvents(t)
    <2>1. /\ pc[t] = "load_events" /\ pc'[t] \in {"step", "run_failed"}
          /\ UNCHANGED <<usage, attempt, spent>>
      BY <1>0, <1>8 DEF LoadEvents, Goto, TypeOK
    <2> QED
      BY <1>0, <1>1, <1>3, <2>1 DEF LossOf, Reading, WorkflowPC
  <1>9. CASE WriteRunCompleted(t) \/ WriteRunCancelled(t) \/ WriteNeedsReview(t)
    <2>1. /\ pc[t] \in {"run_completed", "run_cancelled", "needs_review"}
          /\ pc'[t] \in {"final_usage", "set_cancelled", "set_review"}
          /\ UNCHANGED <<usage, attempt, spent>>
      BY <1>0, <1>9 DEF WriteRunCompleted, WriteRunCancelled, WriteNeedsReview, WriteVerdict,
                        Goto, TypeOK
    <2> QED
      BY <1>0, <1>3, <2>1 DEF LossOf, Reading, WorkflowPC
  <1>10. CASE WriteBudgetExceeded(t) \/ WriteRunFailed(t)
    <2>1. /\ pc[t] \in {"budget_exceeded", "run_failed"}
          /\ pc'[t] \in {"run_failed", "failed_usage"}
          /\ UNCHANGED <<usage, attempt, spent>>
      BY <1>0, <1>10 DEF WriteBudgetExceeded, WriteRunFailed, WriteVerdict, Goto, TypeOK
    <2> QED
      BY <1>0, <1>1, <1>3, <2>1 DEF LossOf, Reading, WorkflowPC
  <1>11. CASE SaveFinalUsage(t) \/ SaveFailedUsage(t)
    <2>1. /\ \/ pc[t] = "final_usage" /\ pc'[t] = "set_completed"
             \/ pc[t] = "failed_usage" /\ pc'[t] = "set_failed"
          /\ usage' = spent[t] /\ UNCHANGED <<attempt, spent>>
      BY <1>0, <1>11 DEF SaveFinalUsage, SaveFailedUsage, StoreUsage, SaveUsage, Goto, TypeOK
    <2> QED
      BY <1>0, <1>1, <1>3, <2>1 DEF LossOf, Reading, WorkflowPC
  <1> QED
    BY <1>4, <1>5, <1>6, <1>7, <1>8, <1>9, <1>10, <1>11 DEF EngineStep

(* An attempt that stops leaves at most its one open call unbilled. *)
LEMMA LossStep ==
  ASSUME AttemptInv, LossInv, [Next]_vars
  PROVE  LossInv'
  <1>0. TypeOK
    BY DEF AttemptInv, OwnInv
  <1>1. /\ Cardinality(Billable) \in Nat /\ usage.model_calls \in Nat
        /\ attempt \in Nat /\ faults \in Nat
        /\ \A t \in Tasks : spent[t].model_calls \in Nat
    BY <1>0, LossNumbers
  <1>2. faults' \in {faults, faults + 1}
    BY <1>0, WorkerLog DEF Next, TaskStep, workerVars, vars
  <1>3. UsageLossBounded'
    <2>1. CASE status \in Terminal
      <3>1. UNCHANGED <<log, status, usage, attempt>>
        BY <2>1, SettledStays
      <3>2. Billable' = Billable
        BY <3>1, BillableSame
      <3>3. Cardinality(Billable) < usage.model_calls + attempt + faults
        BY <2>1 DEF LossInv, UsageLossBounded, Billable
      <3>4. Cardinality(Billable') < usage'.model_calls + attempt' + faults'
        BY <1>1, <1>2, <3>1, <3>2, <3>3
      <3> QED
        BY <3>4 DEF UsageLossBounded, Billable
    <2>2. CASE status \notin Terminal /\ status' \in Terminal
      <3>1. PICK t \in Tasks :
              /\ pc[t] \in {"set_completed", "set_cancelled", "set_review", "set_failed"}
              /\ UNCHANGED <<log, usage, attempt, faults>>
        BY <1>0, <2>2, StatusTurns
      <3>2. Billable' = Billable
        BY <3>1, BillableSame
      <3>3. LossOf(t)
        BY DEF LossInv
      <3>4. Cardinality(Billable) < usage.model_calls + attempt + faults
        BY <1>1, <3>1, <3>3 DEF LossOf, Reading
      <3>5. Cardinality(Billable') < usage'.model_calls + attempt' + faults'
        BY <3>1, <3>2, <3>4
      <3> QED
        BY <3>5 DEF UsageLossBounded, Billable
    <2> QED
      BY <2>1, <2>2 DEF UsageLossBounded
  <1> SUFFICES /\ Cardinality(Billable') <= usage'.model_calls + attempt'
               /\ \A u \in Tasks : LossOf(u)'
    BY <1>3 DEF LossInv
  <1>4. CASE \/ \E t \in Tasks : \/ Claim(t) \/ LeaseLost(t) \/ Dequeue(t)
                                 \/ DequeueSkipped(t) \/ Release(t)
                                 \/ StoreFault(t) \/ HeartbeatFails(t)
             \/ \E w \in Workers : Crash(w) \/ RequestShutdown(w)
             \/ LeaseLapses \/ DeadlinePasses \/ CancelRun
    <2>1. /\ UNCHANGED <<usage, attempt>>
          /\ log' = log \/ AppendEvent(RunEvent("CancelRequested"))
      BY <1>0, <1>4, WorkerLog
    <2>2. Billable' = Billable
      <3>1. \A k \in Keys : Recorded(log', k) = Recorded(log, k)
        BY <1>0, <2>1, QuietAppend, QuietEvents DEF EventType
      <3> QED
        BY <3>1, BillableSame, ContextAssumption
    <2>3. ASSUME NEW u \in Tasks PROVE LossOf(u)'
      <3>1. LossOf(u)
        BY DEF LossInv
      <3>2. CASE pc'[u] \in {"idle", "dead", "get_run", "release"}
        BY <3>2 DEF LossOf, Reading, WorkflowPC
      <3>3. CASE pc'[u] = pc[u] /\ key'[u] = key[u] /\ spent'[u] = spent[u]
        BY <1>1, <1>2, <2>1, <2>2, <3>1, <3>3 DEF LossOf
      <3>4. CASE /\ pc'[u] = "run_failed" /\ pc[u] \in WorkflowPC \cup {"run_completed"}
                 /\ faults' = faults + 1 /\ spent'[u] = spent[u]
        <4>1. /\ Cardinality(Billable) <= spent[u].model_calls + attempt
              /\ usage.model_calls <= spent[u].model_calls
          BY <1>1, <3>1, <3>4 DEF LossOf, Reading
        <4> QED
          BY <1>1, <2>1, <2>2, <3>4, <4>1 DEF LossOf, Reading, WorkflowPC
      <3> QED
        BY <1>0, <1>4, <3>2, <3>3, <3>4, WorkerLog
    <2> QED
      BY <2>1, <2>2, <2>3 DEF LossInv
  <1>5. CASE UNCHANGED vars
    BY <1>5 DEF vars, storeVars, runVars, taskVars, stepVars, workerVars, LossInv, LossOf,
                Billable, Completed
  <1>6. ASSUME NEW t \in Tasks, ContextStep(t) \/ EngineStep(t), UNCHANGED workerVars
        PROVE  /\ Cardinality(Billable') <= usage'.model_calls + attempt'
               /\ \A u \in Tasks : LossOf(u)'
    BY <1>6, ContextKeepsLoss, EngineKeepsLoss
  <1> QED
    BY <1>4, <1>5, <1>6 DEF Next, TaskStep

(* UsageLossBounded (RunContext.model and save_usage): with timely         *)
(* leases each attempt but the last, and each raising store call,          *)
(* costs a finished run at most one unbilled model call.                   *)
THEOREM LittleUsageLost == ASSUME Timely PROVE Spec => []UsageLossBounded
  <1>1. Init => AttemptInv /\ LossInv
    <2> SUFFICES ASSUME Init PROVE LossInv
      BY AttemptInvInit
    <2>1. /\ usage.model_calls = 0 /\ attempt = 0 /\ status = "PENDING"
          /\ \A t \in Tasks : pc[t] = "idle"
      BY DEF Init, SubmitRun, NoUsage
    <2>2. Billable = {}
      BY DEF Init, SubmitRun, Billable, Completed, Recorded, At, RunEvent
    <2>3. Cardinality(Billable) = 0
      BY <2>2, FS_EmptySet
    <2> QED
      BY <2>1, <2>3 DEF LossInv, LossOf, Reading, WorkflowPC, UsageLossBounded, Terminal
  <1>2. AttemptInv /\ LossInv /\ [Next]_vars => (AttemptInv /\ LossInv)'
    BY AttemptInvStep, LossStep
  <1>3. LossInv => UsageLossBounded
    BY DEF LossInv
  <1> QED
    BY <1>1, <1>2, <1>3, PTL DEF Spec
=============================================================================
