----------------------------- MODULE RunContext -----------------------------
(***************************************************************************)
(* The durable-step protocol an attempt follows for every step of its      *)
(* workflow (src/anchor/context.py).  An attempt is a task of a worker;    *)
(* pc[t] names the await the task is at, and each action is what happens   *)
(* from one await to the next.  Between two awaits other tasks, the lease, *)
(* the API and crashes may intervene.                                      *)
(***************************************************************************)
EXTENDS PostgresStore, FiniteSets

CONSTANTS
  WorkerConcurrency, \* runs a worker process works on at a time
  StepMaxAttempts,   \* in-attempt tries of a step (settings.step_max_attempts)
  AtMostOnce,        \* steps declared AT_MOST_ONCE; the others AT_LEAST_ONCE
  Verifiable,        \* steps that have a verifier
  Tools, Models,     \* steps made by call_tool and by model; the others by step
  WallLimited,       \* the run declares max_wall_seconds
  Raising            \* steps whose body and verifier may raise, as may the
                     \* workflow's own code before them and after the last

ASSUME ContextAssumption ==
  /\ WorkerConcurrency \in Nat \ {0} /\ StepMaxAttempts \in Nat \ {0}
  /\ AtMostOnce \subseteq Keys /\ Verifiable \subseteq Keys
  /\ Tools \subseteq Keys /\ Models \subseteq Keys \ Tools
  /\ Models \cap (AtMostOnce \cup Verifiable) = {}  \* model() declares neither
  /\ WallLimited \in BOOLEAN /\ Raising \subseteq Keys

VARIABLES
  pc,          \* where each task is
  key,         \* the step it is at
  memo,        \* _completed: the results it replays, {} when there is none
  unresolved,  \* _unresolved: steps that started and have no outcome
  tries,       \* attempt, the counter of the in-attempt retry loop
  spent,       \* budget.usage
  wall         \* has max_wall_seconds gone by since the run was created?

Tasks == Workers \X (1 .. WorkerConcurrency)
WorkerOf(t) == t[1]

stepVars == <<key, memo, unresolved, tries, spent>>
taskVars == <<pc, stepVars>>

WorkflowPC ==  \* inside the try that wraps workflow_fn
  {"step", "cancel_check", "step_started", "verify", "recovered",
   "crash_retry", "invoke", "landed", "step_retried", "step_failed",
   "save_usage", "tool_invoked", "save_model_usage", "model_called"}

NoMemo == [k \in Keys |-> {}]
Memo == [Keys -> SUBSET Results]

Goto(t, l) == pc' = [pc EXCEPT ![t] = l]

(* Mutant: one step too many. *)
OverrunningAdvance(t) ==
  IF key[t] <= NumSteps
  THEN key' = [key EXCEPT ![t] = @ + 1] /\ Goto(t, "step")
  ELSE Goto(t, "run_completed") /\ UNCHANGED key

(* The workflow reaches its next step, or returns after the last one. *)
Advance(t) ==
  IF key[t] < NumSteps
  THEN key' = [key EXCEPT ![t] = @ + 1] /\ Goto(t, "step")
  ELSE Goto(t, "run_completed") /\ UNCHANGED key

-----------------------------------------------------------------------------
(* Reaching a step: the memo, then the three checks of _checkpoint_guards. *)

(* Mutant: a replayed model step is billed like an executed one. *)
BillingStepReplayed(t) ==
  /\ pc[t] = "step"
  /\ memo[t][key[t]] # {}
  /\ Advance(t)
  /\ spent' = [spent EXCEPT ![t] = IF key[t] \in Models THEN AddModelUsage(@) ELSE @]
  /\ UNCHANGED <<storeVars, memo, unresolved, tries>>

StepReplayed(t) ==
  /\ pc[t] = "step"
  /\ memo[t][key[t]] # {}
  /\ Advance(t)
  /\ UNCHANGED <<storeVars, memo, unresolved, tries, spent>>

LeaseGuardPasses(t) ==
  /\ pc[t] = "step"
  /\ memo[t][key[t]] = {}
  /\ HoldsLease(WorkerOf(t))
  /\ Goto(t, "cancel_check")
  /\ UNCHANGED <<storeVars, stepVars>>

CancelObserved(t) ==
  /\ pc[t] = "cancel_check"
  /\ cancels > 0
  /\ Goto(t, "run_cancelled")
  /\ UNCHANGED <<storeVars, stepVars>>

BudgetBreached(t) ==
  /\ pc[t] = "cancel_check"
  /\ cancels = 0
  /\ Exceeded(spent[t], wall = "over")
  /\ Goto(t, "budget_exceeded")
  /\ UNCHANGED <<storeVars, stepVars>>

(* Mutant: the declared idempotency class is ignored. *)
CarelessUnverified(k) == "crash_retry"

(* What is left for a started step of unknown outcome without a verdict. *)
Unverified(k) == IF k \in AtMostOnce THEN "needs_review" ELSE "crash_retry"

(* Mutant: the cancel flag may be missed. *)
UncancellableGuardsPass(t) ==
  /\ pc[t] = "cancel_check"
  /\ ~Exceeded(spent[t], wall = "over")
  /\ Goto(t, CASE key[t] \notin unresolved[t] -> "step_started"
               [] key[t] \in unresolved[t] \cap Verifiable -> "verify"
               [] OTHER -> Unverified(key[t]))
  /\ UNCHANGED <<storeVars, stepVars>>

(* Mutant: the verifier is not asked. *)
UnverifyingGuardsPass(t) ==
  /\ pc[t] = "cancel_check"
  /\ cancels = 0
  /\ ~Exceeded(spent[t], wall = "over")
  /\ Goto(t, IF key[t] \notin unresolved[t] THEN "step_started" ELSE Unverified(key[t]))
  /\ UNCHANGED <<storeVars, stepVars>>

GuardsPass(t) ==
  /\ pc[t] = "cancel_check"
  /\ cancels = 0
  /\ ~Exceeded(spent[t], wall = "over")
  /\ Goto(t, CASE key[t] \notin unresolved[t] -> "step_started"
               [] key[t] \in unresolved[t] \cap Verifiable -> "verify"
               [] OTHER -> Unverified(key[t]))
  /\ UNCHANGED <<storeVars, stepVars>>

(* The workflow's own code raises, before a step or after the last one. *)
WorkflowRaises(t) ==
  /\ key[t] \in Raising
  /\ pc[t] \in {"step", "run_completed"}
  /\ Goto(t, "run_failed")
  /\ UNCHANGED <<storeVars, stepVars>>

-----------------------------------------------------------------------------
(* _resolve_crash_window. *)

VerifyFinds(t) ==
  /\ pc[t] = "verify"
  /\ landed[key[t]] > 0
  /\ Goto(t, "recovered")
  /\ UNCHANGED <<storeVars, stepVars>>

(* Mutant: the verifier's None is taken for an outcome. *)
CredulousVerifyFindsNothing(t) ==
  /\ pc[t] = "verify"
  /\ landed[key[t]] = 0
  /\ Goto(t, "recovered")
  /\ UNCHANGED <<storeVars, stepVars>>

VerifyFindsNothing(t) ==
  /\ pc[t] = "verify"
  /\ landed[key[t]] = 0
  /\ Goto(t, Unverified(key[t]))
  /\ UNCHANGED <<storeVars, stepVars>>

VerifyRaises(t) ==
  /\ key[t] \in Raising
  /\ pc[t] = "verify"
  /\ Goto(t, "run_failed")
  /\ UNCHANGED <<storeVars, stepVars>>

(* StepCompleted is written and the task's own replay state follows it. *)
Complete(t, v) ==
  /\ AppendEvent(CompletedEvent(key[t], v))
  /\ memo' = [memo EXCEPT ![t][key[t]] = {v}]
  /\ unresolved' = [unresolved EXCEPT ![t] = @ \ {key[t]}]

WriteRecovered(t) ==
  /\ pc[t] = "recovered"
  /\ \E v \in Results : Complete(t, v)
  /\ Advance(t)
  /\ UNCHANGED <<runVars, queueVars, landed, tries, spent>>

(* Mutant: the body runs before anything is written. *)
SilentBeginTries(t, type) ==
  /\ tries' = [tries EXCEPT ![t] = 1]
  /\ Goto(t, "invoke")
  /\ UNCHANGED <<storeVars, key, memo, unresolved, spent>>

(* The body will run next, as the first try of this attempt. *)
BeginTries(t, type) ==
  /\ AppendEvent(StepEvent(type, key[t]))
  /\ tries' = [tries EXCEPT ![t] = 1]
  /\ Goto(t, "invoke")
  /\ UNCHANGED <<runVars, queueVars, landed, key, memo, unresolved, spent>>

WriteStepStarted(t) == pc[t] = "step_started" /\ BeginTries(t, "StepStarted")

WriteCrashRetry(t) == pc[t] = "crash_retry" /\ BeginTries(t, "StepRetried")

-----------------------------------------------------------------------------
(* Running the body. *)

(* invoke() of call_tool counts the call before it makes it. *)
CountToolCall(t) ==
  spent' = [spent EXCEPT ![t] = IF key[t] \in Tools THEN AddToolCall(@) ELSE @]

InvokeLands(t) ==
  /\ pc[t] = "invoke"
  /\ RecordSideEffect(key[t])
  /\ CountToolCall(t)
  /\ Goto(t, "landed")
  /\ UNCHANGED <<runVars, log, queueVars, key, memo, unresolved, tries>>

AfterError(t) == IF tries[t] < StepMaxAttempts THEN "step_retried" ELSE "step_failed"

InvokeRaises(t) ==
  /\ key[t] \in Raising
  /\ pc[t] = "invoke"
  /\ CountToolCall(t)
  /\ Goto(t, AfterError(t))
  /\ UNCHANGED <<storeVars, key, memo, unresolved, tries>>

(* The effect happened and the call still fails, as a lost response does. *)
ReturnRaises(t) ==
  /\ key[t] \in Raising
  /\ pc[t] = "landed"
  /\ Goto(t, AfterError(t))
  /\ UNCHANGED <<storeVars, stepVars>>

(* _ensure_json: a result that is not JSON raises outside the retry loop. *)
ReturnUnserialisable(t) ==
  /\ key[t] \in Raising
  /\ pc[t] = "landed"
  /\ Goto(t, "run_failed")
  /\ UNCHANGED <<storeVars, stepVars>>

WriteStepCompleted(t) ==
  /\ pc[t] = "landed"
  /\ \E v \in Results : Complete(t, v)
  /\ Goto(t, "save_usage")
  /\ UNCHANGED <<runVars, queueVars, landed, key, tries, spent>>

(* Mutant: the body is tried again without a word. *)
SilentWriteStepRetried(t) ==
  /\ pc[t] = "step_retried"
  /\ tries' = [tries EXCEPT ![t] = @ + 1]
  /\ Goto(t, "invoke")
  /\ UNCHANGED <<storeVars, key, memo, unresolved, spent>>

WriteStepRetried(t) ==
  /\ pc[t] = "step_retried"
  /\ AppendEvent(StepEvent("StepRetried", key[t]))
  /\ tries' = [tries EXCEPT ![t] = @ + 1]
  /\ Goto(t, "invoke")
  /\ UNCHANGED <<runVars, queueVars, landed, key, memo, unresolved, spent>>

WriteStepFailed(t) ==
  /\ pc[t] = "step_failed"
  /\ AppendEvent(StepEvent("StepFailed", key[t]))
  /\ Goto(t, "run_failed")
  /\ UNCHANGED <<runVars, queueVars, landed, stepVars>>

-----------------------------------------------------------------------------
(* After an executed step: its usage, and the event of its kind. *)

SaveStepUsage(t) ==
  /\ pc[t] = "save_usage"
  /\ SaveUsage(spent[t])
  /\ \/ key[t] \in Tools /\ Goto(t, "tool_invoked") /\ UNCHANGED <<key, spent>>
     \/ /\ key[t] \in Models
        /\ spent' = [spent EXCEPT ![t] = AddModelUsage(@)]
        /\ Goto(t, "save_model_usage")
        /\ UNCHANGED key
     \/ key[t] \notin Tools \cup Models /\ Advance(t) /\ UNCHANGED spent
  /\ UNCHANGED <<status, attempt, cancels, log, queueVars, landed,
                 memo, unresolved, tries>>

WriteToolInvoked(t) ==
  /\ pc[t] = "tool_invoked"
  /\ AppendEvent(StepEvent("ToolInvoked", key[t]))
  /\ Advance(t)
  /\ UNCHANGED <<runVars, queueVars, landed, memo, unresolved, tries, spent>>

SaveModelUsage(t) ==
  /\ pc[t] = "save_model_usage"
  /\ SaveUsage(spent[t])
  /\ Goto(t, "model_called")
  /\ UNCHANGED <<status, attempt, cancels, log, queueVars, landed, stepVars>>

WriteModelCalled(t) ==
  /\ pc[t] = "model_called"
  /\ AppendEvent(StepEvent("ModelCalled", key[t]))
  /\ Advance(t)
  /\ UNCHANGED <<runVars, queueVars, landed, memo, unresolved, tries, spent>>

ContextStep(t) ==
  \/ StepReplayed(t) \/ LeaseGuardPasses(t) \/ WorkflowRaises(t)
  \/ CancelObserved(t) \/ BudgetBreached(t) \/ GuardsPass(t)
  \/ VerifyFinds(t) \/ VerifyFindsNothing(t) \/ VerifyRaises(t)
  \/ WriteRecovered(t) \/ WriteStepStarted(t) \/ WriteCrashRetry(t)
  \/ InvokeLands(t) \/ InvokeRaises(t)
  \/ ReturnRaises(t) \/ ReturnUnserialisable(t) \/ WriteStepCompleted(t)
  \/ WriteStepRetried(t) \/ WriteStepFailed(t)
  \/ SaveStepUsage(t) \/ WriteToolInvoked(t)
  \/ SaveModelUsage(t) \/ WriteModelCalled(t)
=============================================================================
