------------------------------- MODULE Engine -------------------------------
(***************************************************************************)
(* One attempt of the run from the first read of its row to its terminal   *)
(* status (Engine.execute and Engine._fail in src/anchor/engine.py).       *)
(***************************************************************************)
EXTENDS RunContext

CONSTANTS
  Knows,         \* the workers that have the workflow in their registry
  ReturnKinds    \* what the workflow may return: "json", "opaque" or either

ASSUME EngineAssumption ==
  /\ Knows \subseteq Workers
  /\ ReturnKinds \subseteq {"json", "opaque"}

EnginePC ==  \* outside that try: a raising store call leaves execute()
  {"get_run", "bump_attempt", "run_resumed", "set_running", "reread",
   "load_events", "run_completed", "final_usage", "set_completed",
   "run_cancelled", "set_cancelled", "budget_exceeded", "run_failed",
   "failed_usage", "set_failed", "needs_review", "set_review"}

-----------------------------------------------------------------------------
(* Entering the attempt. *)

(* Mutant: a duplicate delivery of a finished run is worked again. *)
RepeatingGetRun(t) ==
  /\ pc[t] = "get_run"
  /\ Goto(t, "bump_attempt")
  /\ UNCHANGED <<storeVars, stepVars>>

GetRun(t) ==
  /\ pc[t] = "get_run"
  /\ Goto(t, IF status \in Terminal THEN "dequeue" ELSE "bump_attempt")
  /\ UNCHANGED <<storeVars, stepVars>>

BumpAttempt(t) ==
  /\ pc[t] = "bump_attempt"
  /\ attempt' = attempt + 1
  /\ Goto(t, IF attempt' > 1 THEN "run_resumed" ELSE "set_running")
  /\ UNCHANGED <<status, cancels, usage, log, queueVars, landed, stepVars>>

WriteRunResumed(t) ==
  /\ pc[t] = "run_resumed"
  /\ AppendEvent(RunEvent("RunResumed"))
  /\ Goto(t, "set_running")
  /\ UNCHANGED <<runVars, queueVars, landed, stepVars>>

SetRunning(t) ==
  /\ pc[t] = "set_running"
  /\ SetStatus("RUNNING")
  /\ Goto(t, "reread")
  /\ UNCHANGED <<attempt, cancels, usage, log, queueVars, landed, stepVars>>

RereadRun(t) ==
  /\ pc[t] = "reread"
  /\ spent' = [spent EXCEPT ![t] = usage]
  /\ Goto(t, "load_events")
  /\ UNCHANGED <<storeVars, key, memo, unresolved, tries>>

(* Mutant: the attempt starts without its memo. *)
ForgetfulLoadEvents(t) ==
  /\ pc[t] = "load_events"
  /\ unresolved' = [unresolved EXCEPT ![t] = Unresolved(log)]
  /\ key' = [key EXCEPT ![t] = 1]
  /\ Goto(t, IF WorkerOf(t) \in Knows THEN "step" ELSE "run_failed")
  /\ UNCHANGED <<storeVars, memo, tries, spent>>

(* load_events and the RunContext built from it; then the workflow begins. *)
LoadEvents(t) ==
  /\ pc[t] = "load_events"
  /\ memo' = [memo EXCEPT ![t] = [k \in Keys |-> Recorded(log, k)]]
  /\ unresolved' = [unresolved EXCEPT ![t] = Unresolved(log)]
  /\ key' = [key EXCEPT ![t] = 1]
  /\ Goto(t, IF WorkerOf(t) \in Knows THEN "step" ELSE "run_failed")
  /\ UNCHANGED <<storeVars, tries, spent>>

-----------------------------------------------------------------------------
(* Leaving it: the verdict is logged first and put on the run's row last. *)

WriteVerdict(t, at, event, next) ==
  /\ pc[t] = at
  /\ AppendEvent(event)
  /\ Goto(t, next)
  /\ UNCHANGED <<runVars, queueVars, landed, stepVars>>

StoreUsage(t, at, next) ==
  /\ pc[t] = at
  /\ SaveUsage(spent[t])
  /\ Goto(t, next)
  /\ UNCHANGED <<status, attempt, cancels, log, queueVars, landed, stepVars>>

StoreStatus(t, at, s) ==
  /\ pc[t] = at
  /\ SetStatus(s)
  /\ Goto(t, "dequeue")
  /\ UNCHANGED <<attempt, cancels, usage, log, queueVars, landed, stepVars>>

WriteRunCompleted(t) ==
  WriteVerdict(t, "run_completed", RunEvent("RunCompleted"), "final_usage")
SaveFinalUsage(t) == StoreUsage(t, "final_usage", "set_completed")
SetCompleted(t) ==
  "json" \in ReturnKinds /\ StoreStatus(t, "set_completed", "COMPLETED")

(* The jsonb codec refuses the workflow's result: execute() raises. *)
SetCompletedRaises(t) ==
  /\ "opaque" \in ReturnKinds
  /\ pc[t] = "set_completed"
  /\ Goto(t, "release")
  /\ UNCHANGED <<storeVars, stepVars>>

(* Mutant: the cancellation is not logged. *)
SilentWriteRunCancelled(t) ==
  /\ pc[t] = "run_cancelled"
  /\ Goto(t, "set_cancelled")
  /\ UNCHANGED <<storeVars, stepVars>>

WriteRunCancelled(t) ==
  WriteVerdict(t, "run_cancelled", RunEvent("RunCancelled"), "set_cancelled")
SetCancelled(t) == StoreStatus(t, "set_cancelled", "CANCELLED")

WriteNeedsReview(t) ==
  WriteVerdict(t, "needs_review", StepEvent("RunNeedsReview", key[t]), "set_review")
SetNeedsReview(t) == StoreStatus(t, "set_review", "NEEDS_REVIEW")

WriteBudgetExceeded(t) ==
  WriteVerdict(t, "budget_exceeded", RunEvent("BudgetExceeded"), "run_failed")

(* Mutant: the failure is not logged. *)
SilentWriteRunFailed(t) ==
  /\ pc[t] = "run_failed"
  /\ Goto(t, "failed_usage")
  /\ UNCHANGED <<storeVars, stepVars>>

WriteRunFailed(t) ==
  WriteVerdict(t, "run_failed", RunEvent("RunFailed"), "failed_usage")
SaveFailedUsage(t) == StoreUsage(t, "failed_usage", "set_failed")
SetFailed(t) == StoreStatus(t, "set_failed", "FAILED")

EngineStep(t) ==
  \/ GetRun(t) \/ BumpAttempt(t) \/ WriteRunResumed(t)
  \/ SetRunning(t) \/ RereadRun(t) \/ LoadEvents(t)
  \/ WriteRunCompleted(t) \/ SaveFinalUsage(t)
  \/ SetCompleted(t) \/ SetCompletedRaises(t)
  \/ WriteRunCancelled(t) \/ SetCancelled(t)
  \/ WriteNeedsReview(t) \/ SetNeedsReview(t)
  \/ WriteBudgetExceeded(t)
  \/ WriteRunFailed(t) \/ SaveFailedUsage(t) \/ SetFailed(t)
=============================================================================
