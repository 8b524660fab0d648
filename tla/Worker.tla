------------------------------- MODULE Worker -------------------------------
(***************************************************************************)
(* Workers that compete for one submitted run, and everything that may     *)
(* happen to them (src/anchor/worker.py): leases that lapse, heartbeats    *)
(* that fail, store calls that raise, SIGKILL, SIGTERM, a cancel request.  *)
(***************************************************************************)
EXTENDS Engine

CONSTANTS
  Timely,         \* no lease ends under a task at work: it is renewed in time
  MaxDeliveries,  \* bound: how often the run is claimed
  MaxFaults,      \* bound: store calls that raise
  MaxCancels      \* bound: cancel requests

ASSUME WorkerAssumption ==
  /\ Timely \in BOOLEAN
  /\ MaxDeliveries \in Nat /\ MaxFaults \in Nat /\ MaxCancels \in Nat

VARIABLES
  up,      \* the state of each worker process
  beat,    \* has the heartbeat of the task ended with an exception?
  faults   \* store calls that have raised so far

workerVars == <<up, beat, faults>>
vars == <<storeVars, taskVars, wall, workerVars>>

PC == WorkflowPC \cup EnginePC \cup {"idle", "release", "dequeue", "dead"}
Active(t) == pc[t] \notin {"idle", "dead"}

TypeOK ==
  /\ StoreTypeOK
  /\ pc \in [Tasks -> PC]
  /\ key \in [Tasks -> Keys \cup {NoKey}]
  /\ memo \in [Tasks -> Memo]
  /\ unresolved \in [Tasks -> SUBSET Keys]
  /\ tries \in [Tasks -> Nat]
  /\ spent \in [Tasks -> Usage]
  /\ wall \in {"within", "over"}
  /\ up \in [Workers -> {"up", "draining", "down"}]
  /\ beat \in [Tasks -> {"fine", "failed"}]
  /\ faults \in Nat

(* The run has been submitted and every worker has started its loop. *)
Init ==
  /\ SubmitRun
  /\ pc = [t \in Tasks |-> "idle"]
  /\ key = [t \in Tasks |-> NoKey]
  /\ memo = [t \in Tasks |-> NoMemo]
  /\ unresolved = [t \in Tasks |-> {}]
  /\ tries = [t \in Tasks |-> 0]
  /\ spent = [t \in Tasks |-> NoUsage]
  /\ wall = "within"
  /\ up = [w \in Workers |-> "up"]
  /\ beat = [t \in Tasks |-> "fine"]
  /\ faults = 0

-----------------------------------------------------------------------------
(* _process. *)

(* run_forever claims with a free slot and starts _process on the run. *)
Claim(t) ==
  /\ up[WorkerOf(t)] = "up"
  /\ pc[t] = "idle"
  /\ deliveries < MaxDeliveries
  /\ ClaimRow(WorkerOf(t))
  /\ Goto(t, "get_run")
  /\ UNCHANGED <<runVars, log, landed, stepVars, wall, workerVars>>

(* The tasks in S end, and what they kept in memory is gone. *)
Leave(S, l) ==
  /\ pc' = [t \in Tasks |-> IF t \in S THEN l ELSE pc[t]]
  /\ key' = [t \in Tasks |-> IF t \in S THEN NoKey ELSE key[t]]
  /\ memo' = [t \in Tasks |-> IF t \in S THEN NoMemo ELSE memo[t]]
  /\ unresolved' = [t \in Tasks |-> IF t \in S THEN {} ELSE unresolved[t]]
  /\ tries' = [t \in Tasks |-> IF t \in S THEN 0 ELSE tries[t]]
  /\ spent' = [t \in Tasks |-> IF t \in S THEN NoUsage ELSE spent[t]]
  /\ beat' = [t \in Tasks |-> IF t \in S THEN "fine" ELSE beat[t]]

(* A step boundary finds the lease gone: the row is left as it is. *)
LeaseLost(t) ==
  /\ pc[t] = "step"
  /\ memo[t][key[t]] = {}
  /\ ~HoldsLease(WorkerOf(t))
  /\ Leave({t}, "idle")
  /\ UNCHANGED <<storeVars, wall, up, faults>>

Dequeue(t) ==
  /\ pc[t] = "dequeue"
  /\ beat[t] = "fine"
  /\ DequeueRow
  /\ Leave({t}, "idle")
  /\ UNCHANGED <<runVars, log, landed, wall, up, faults>>

(* Awaiting the cancelled heartbeat re-raises what had ended it. *)
DequeueSkipped(t) ==
  /\ pc[t] = "dequeue"
  /\ beat[t] = "failed"
  /\ Leave({t}, "idle")
  /\ UNCHANGED <<storeVars, wall, up, faults>>

Release(t) ==
  /\ pc[t] = "release"
  /\ ReleaseRow(WorkerOf(t))
  /\ Leave({t}, "idle")
  /\ UNCHANGED <<runVars, log, landed, wall, up, faults>>

TaskStep(t) ==
  \/ (ContextStep(t) \/ EngineStep(t)) /\ UNCHANGED <<wall, workerVars>>
  \/ LeaseLost(t) \/ Dequeue(t) \/ DequeueSkipped(t) \/ Release(t)

-----------------------------------------------------------------------------
(* What happens to workers. *)

(* A store call raises: the one the task is at, or the one it is back from, *)
(* which then has had its effect.  In the workflow that fails the run, in   *)
(* the rest of execute() it makes _process give the run back, after that it *)
(* is lost.  A verifier and a replayed step make no store call; tries tells *)
(* whether this attempt has executed a step, whose last call may raise when *)
(* the workflow is about to return.                                         *)
StoreFault(t) ==
  /\ faults < MaxFaults
  /\ faults' = faults + 1
  /\ \/ /\ pc[t] \in (WorkflowPC \ {"verify"}) \cup {"run_completed"}
        /\ pc[t] = "step" => memo[t][key[t]] = {}
        /\ pc[t] = "run_completed" => tries[t] > 0
        /\ Goto(t, "run_failed")
        /\ UNCHANGED <<stepVars, beat>>
     \/ /\ pc[t] \in EnginePC \cup {"dequeue"}
        /\ Goto(t, "release")
        /\ UNCHANGED <<stepVars, beat>>
     \/ pc[t] \in {"release", "dequeue"} /\ Leave({t}, "idle")
  /\ UNCHANGED <<storeVars, wall, up>>

(* _heartbeat has no handler: one raising call ends it and nobody notices. *)
(* Boundaries renew the lease as well; where leases are Timely they do.    *)
HeartbeatFails(t) ==
  /\ faults < MaxFaults
  /\ Active(t) /\ beat[t] = "fine"
  /\ beat' = [beat EXCEPT ![t] = "failed"]
  /\ faults' = faults + 1
  /\ UNCHANGED <<storeVars, taskVars, wall, up>>

(* The fleet keeps one worker; a replacement has a worker id of its own. *)
Spared(w) == \E v \in Workers \ {w} : up[v] = "up"

Crash(w) ==
  /\ up[w] # "down"
  /\ Spared(w)
  /\ up' = [up EXCEPT ![w] = "down"]
  /\ Leave({t \in Tasks : WorkerOf(t) = w}, "dead")
  /\ UNCHANGED <<storeVars, wall, faults>>

(* SIGTERM, or an exception out of claim(): no more claims, then _drain. *)
RequestShutdown(w) ==
  /\ up[w] = "up"
  /\ Spared(w)
  /\ up' = [up EXCEPT ![w] = "draining"]
  /\ UNCHANGED <<storeVars, taskVars, wall, beat, faults>>

-----------------------------------------------------------------------------
(* The clock and the API. *)

LeaseLapses ==
  /\ queue = "held"
  /\ Timely => \A t \in Tasks : WorkerOf(t) = owner => ~Active(t)
  /\ queue' = "lapsed"
  /\ UNCHANGED <<runVars, log, owner, deliveries, landed, taskVars, wall, workerVars>>

DeadlinePasses ==
  /\ WallLimited
  /\ wall = "within"
  /\ wall' = "over"
  /\ UNCHANGED <<storeVars, taskVars, workerVars>>

CancelRun ==
  /\ cancels < MaxCancels
  /\ RequestCancel
  /\ UNCHANGED <<taskVars, wall, workerVars>>

Next ==
  \/ \E t \in Tasks : Claim(t) \/ TaskStep(t) \/ StoreFault(t) \/ HeartbeatFails(t)
  \/ \E w \in Workers : Crash(w) \/ RequestShutdown(w)
  \/ LeaseLapses \/ DeadlinePasses \/ CancelRun

Spec == Init /\ [][Next]_vars

(* Workers that are up keep polling and working, and time goes by. *)
FairSpec ==
  /\ Spec
  /\ \A t \in Tasks : WF_vars(Claim(t)) /\ WF_vars(TaskStep(t))
  /\ WF_vars(LeaseLapses)
=============================================================================
