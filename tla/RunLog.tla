------------------------------- MODULE RunLog -------------------------------
(***************************************************************************)
(* The event log of one run: its vocabulary (src/anchor/events.py) and     *)
(* what an attempt reads out of it (RunContext._build_replay_state).       *)
(*                                                                         *)
(* A workflow is deterministic between steps, so the step keys it reaches  *)
(* ("refund#1", "model#2", ...) are always the same ones in the same       *)
(* order: they are the numbers 1 .. NumSteps.  The idempotency token of a  *)
(* step is a function of the run and of its key, so the key stands for it. *)
(***************************************************************************)
EXTENDS Naturals, Sequences

CONSTANTS
  NumSteps,   \* how many steps the workflow takes
  Results     \* the results a step can return

ASSUME NumStepsAssumption == NumSteps \in Nat \ {0}

Keys == 1 .. NumSteps
NoKey == 0

EventType ==
  {"RunStarted", "RunResumed", "StepStarted", "StepCompleted", "StepRetried",
   "StepFailed", "ModelCalled", "ToolInvoked", "BudgetExceeded",
   "CancelRequested", "RunCompleted", "RunFailed", "RunCancelled",
   "RunNeedsReview"}

(***************************************************************************)
(* An optional value is a set with at most one element: the result of a    *)
(* StepCompleted event is {v}, every other event carries {}.               *)
(***************************************************************************)
Event == [type: EventType, key: Keys \cup {NoKey}, val: SUBSET Results]

RunEvent(type) == [type |-> type, key |-> NoKey, val |-> {}]
StepEvent(type, k) == [type |-> type, key |-> k, val |-> {}]
CompletedEvent(k, v) == [type |-> "StepCompleted", key |-> k, val |-> {v}]

At(events, type, k) ==
  {i \in DOMAIN events : events[i].type = type /\ events[i].key = k}

(***************************************************************************)
(* _completed: a later StepCompleted of the same key replaces an earlier   *)
(* one, so the value is the one the last such event carries.               *)
(***************************************************************************)
Recorded(events, k) ==
  UNION {events[i].val : i \in {j \in At(events, "StepCompleted", k) :
                                  \A l \in At(events, "StepCompleted", k) : l <= j}}

(***************************************************************************)
(* _unresolved: a StepStarted that no StepCompleted or StepFailed follows. *)
(***************************************************************************)
Unresolved(events) ==
  {k \in Keys : \E i \in At(events, "StepStarted", k) :
                  \A j \in At(events, "StepCompleted", k)
                           \cup At(events, "StepFailed", k) : j < i}
=============================================================================
