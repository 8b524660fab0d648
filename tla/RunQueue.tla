------------------------------ MODULE RunQueue ------------------------------
(***************************************************************************)
(* The run_queue table with its clock (src/anchor/store/postgres.py) and   *)
(* the loops of the workers that poll it (src/anchor/worker.py), for       *)
(* several runs.  Worker takes it as given that a heartbeat is in time;    *)
(* here that follows from the settings.                                    *)
(*                                                                         *)
(* Times are kept relative to now(), in whole seconds.  An event loop runs *)
(* a coroutine at most MaxDelay seconds after it has become ready.         *)
(***************************************************************************)
EXTENDS Integers, Sequences, FiniteSets

CONSTANTS
  Runs, Workers, NoWorker,
  Poison,             \* runs whose execution raises out of execute(), always
  WorkerConcurrency,  \* settings.worker_concurrency
  LeaseSeconds, HeartbeatSeconds, PollInterval,
  MaxDelay

ASSUME QueueAssumption ==
  /\ NoWorker \notin Workers
  /\ Poison \subseteq Runs
  /\ WorkerConcurrency \in Nat \ {0}
  /\ HeartbeatSeconds \in Nat \ {0} /\ PollInterval \in Nat /\ MaxDelay \in Nat
  /\ LeaseSeconds \in Nat
  /\ LeaseSeconds > HeartbeatSeconds + 2 * MaxDelay  \* comfortably below the lease

VARIABLES
  order,      \* the runs that have a row, by visible_at
  hidden,     \* visible_at - now(), 0 once it has passed
  lock,       \* locked_until - now(): {} when NULL, {-1} once it has passed
  worker,     \* worker_id of the row
  stage,      \* what each task of a worker is doing
  job,        \* the run a task works on: {} or {r}
  timer,      \* seconds until the task's heartbeat, or its dequeue, is due
  beating,    \* the tasks whose _heartbeat is running
  up,         \* the state of each worker process
  finished,   \* the runs with a terminal status
  orphaned    \* seconds since the worker that holds the row died

rowVars == <<order, hidden, lock, worker>>
loopVars == <<stage, job, timer, beating>>
queueVars == <<rowVars, loopVars, up, finished, orphaned>>

Tasks == Workers \X (1 .. WorkerConcurrency)
WorkerOf(t) == t[1]
InQueue(r) == \E i \in DOMAIN order : order[i] = r
Without(r) == SelectSeq(order, LAMBDA x : x # r)
Working(t) == stage[t] \in {"execute", "release", "dequeue"}

QueueInit ==
  /\ order \in [1 .. Cardinality(Runs) -> Runs]
  /\ \A r \in Runs : InQueue(r)
  /\ hidden = [r \in Runs |-> 0]
  /\ lock = [r \in Runs |-> {}]
  /\ worker = [r \in Runs |-> NoWorker]
  /\ stage = [t \in Tasks |-> "idle"]
  /\ job = [t \in Tasks |-> {}]
  /\ timer = [t \in Tasks |-> 0]
  /\ beating = {}
  /\ up = [w \in Workers |-> "up"]
  /\ finished = {}
  /\ orphaned = [r \in Runs |-> 0]

-----------------------------------------------------------------------------
(* The statements on run_queue. *)

(* Mutant: the claim does not look at locked_until. *)
UnlockedClaimable(r) == InQueue(r) /\ hidden[r] = 0

Claimable(r) == InQueue(r) /\ hidden[r] = 0 /\ lock[r] \in {{}, {-1}}

(* The oldest claimable row: ORDER BY visible_at LIMIT 1. *)
Oldest(r) ==
  \E i \in DOMAIN order : /\ order[i] = r
                          /\ Claimable(r)
                          /\ \A j \in 1 .. (i - 1) : ~Claimable(order[j])

(* What heartbeat(r, w) answers; TRUE extends the lease. *)
Owns(w, r) == worker[r] = w /\ \E d \in lock[r] : d > 0

(* Mutant: the lease is prolonged instead of renewed. *)
ProlongingRenewed(w, r) ==
  IF Owns(w, r) THEN [lock EXCEPT ![r] = {d + LeaseSeconds : d \in @}] ELSE lock

Renewed(w, r) == IF Owns(w, r) THEN [lock EXCEPT ![r] = {LeaseSeconds}] ELSE lock

(* Mutant: visible_at stays what it was. *)
HastyReleaseRow(w, r) ==
  IF worker[r] = w
  THEN /\ lock' = [lock EXCEPT ![r] = {}]
       /\ worker' = [worker EXCEPT ![r] = NoWorker]
       /\ UNCHANGED <<hidden, order>>
  ELSE UNCHANGED rowVars

(* visible_at is now() + delay, later than that of every other row. *)
ReleaseRow(w, r) ==
  IF worker[r] = w
  THEN /\ lock' = [lock EXCEPT ![r] = {}]
       /\ worker' = [worker EXCEPT ![r] = NoWorker]
       /\ hidden' = [hidden EXCEPT ![r] = PollInterval]
       /\ order' = Append(Without(r), r)
  ELSE UNCHANGED rowVars

DequeueRow(r) ==
  /\ order' = Without(r)
  /\ hidden' = [hidden EXCEPT ![r] = 0]
  /\ lock' = [lock EXCEPT ![r] = {}]
  /\ worker' = [worker EXCEPT ![r] = NoWorker]

-----------------------------------------------------------------------------
(* run_forever and _process. *)

(* A free slot takes the oldest run.  One that has been finished before is *)
(* found so at once and only has to be dequeued.                           *)
Claim(t, r) ==
  /\ up[WorkerOf(t)] = "up"
  /\ stage[t] = "idle"
  /\ Oldest(r)
  /\ lock' = [lock EXCEPT ![r] = {LeaseSeconds}]
  /\ worker' = [worker EXCEPT ![r] = WorkerOf(t)]
  /\ job' = [job EXCEPT ![t] = {r}]
  /\ \/ r \notin finished /\ stage' = [stage EXCEPT ![t] = "execute"]
        /\ timer' = [timer EXCEPT ![t] = HeartbeatSeconds]
        /\ beating' = beating \cup {t}
     \/ r \in finished /\ stage' = [stage EXCEPT ![t] = "dequeue"]
        /\ timer' = [timer EXCEPT ![t] = MaxDelay]
        /\ beating' = beating \ {t}
  /\ orphaned' = [orphaned EXCEPT ![r] = 0]
  /\ UNCHANGED <<order, hidden, up, finished>>

(* _heartbeat: sleep, renew, and again, until a renewal is rejected, or    *)
(* execute() has ended and, if that raised, the run has been released.     *)
Heartbeat(t, r) ==
  /\ t \in beating
  /\ timer[t] <= 0
  /\ lock' = Renewed(WorkerOf(t), r)
  /\ beating' = IF Owns(WorkerOf(t), r) THEN beating ELSE beating \ {t}
  /\ timer' = [timer EXCEPT ![t] = HeartbeatSeconds]
  /\ UNCHANGED <<order, hidden, worker, stage, job, up, finished, orphaned>>

(* _owns: a step boundary renews the lease too, or ends the attempt. *)
Boundary(t, r) ==
  /\ stage[t] = "execute"
  /\ lock' = Renewed(WorkerOf(t), r)
  /\ stage' = [stage EXCEPT ![t] = IF Owns(WorkerOf(t), r) THEN @ ELSE "idle"]
  /\ job' = [job EXCEPT ![t] = IF Owns(WorkerOf(t), r) THEN @ ELSE {}]
  /\ beating' = IF Owns(WorkerOf(t), r) THEN beating ELSE beating \ {t}
  /\ UNCHANGED <<order, hidden, worker, timer, up, finished, orphaned>>

(* execute() has stored a verdict; the heartbeat is cancelled. *)
Conclude(t, r) ==
  /\ stage[t] = "execute" /\ r \notin Poison
  /\ finished' = finished \cup {r}
  /\ stage' = [stage EXCEPT ![t] = "dequeue"]
  /\ timer' = [timer EXCEPT ![t] = MaxDelay]
  /\ beating' = beating \ {t}
  /\ UNCHANGED <<rowVars, job, up, orphaned>>

ExecuteRaises(t, r) ==
  /\ stage[t] = "execute" /\ r \in Poison
  /\ stage' = [stage EXCEPT ![t] = "release"]
  /\ UNCHANGED <<rowVars, job, timer, beating, up, finished, orphaned>>

Idle(t) ==
  /\ stage' = [stage EXCEPT ![t] = "idle"]
  /\ job' = [job EXCEPT ![t] = {}]
  /\ timer' = [timer EXCEPT ![t] = 0]
  /\ beating' = beating \ {t}
  /\ UNCHANGED <<up, finished, orphaned>>

Release(t, r) == stage[t] = "release" /\ ReleaseRow(WorkerOf(t), r) /\ Idle(t)

Dequeue(t, r) == stage[t] = "dequeue" /\ DequeueRow(r) /\ Idle(t)

TaskStep(t) ==
  \E r \in job[t] :
    \/ Heartbeat(t, r) \/ Boundary(t, r) \/ Conclude(t, r) \/ ExecuteRaises(t, r)
    \/ Release(t, r) \/ Dequeue(t, r)

-----------------------------------------------------------------------------
(* Processes and the clock. *)

Spared(w) == \E v \in Workers \ {w} : up[v] = "up"

Crash(w) ==
  /\ up[w] # "down" /\ Spared(w)
  /\ up' = [up EXCEPT ![w] = "down"]
  /\ stage' = [t \in Tasks |-> IF WorkerOf(t) = w THEN "dead" ELSE stage[t]]
  /\ job' = [t \in Tasks |-> IF WorkerOf(t) = w THEN {} ELSE job[t]]
  /\ timer' = [t \in Tasks |-> IF WorkerOf(t) = w THEN 0 ELSE timer[t]]
  /\ beating' = {t \in beating : WorkerOf(t) # w}
  /\ UNCHANGED <<rowVars, finished, orphaned>>

(* SIGTERM: no more claims; run_forever ends when its tasks have. *)
RequestShutdown(w) ==
  /\ up[w] = "up" /\ Spared(w)
  /\ up' = [up EXCEPT ![w] = "draining"]
  /\ UNCHANGED <<rowVars, loopVars, finished, orphaned>>

HeldByDead(r) == \E w \in Workers : worker[r] = w /\ up[w] = "down"

(* One second goes by, unless something has been ready for too long. *)
Tick ==
  /\ \A t \in Tasks :
       /\ t \in beating => timer[t] > -MaxDelay
       /\ stage[t] = "dequeue" => timer[t] > 0
  /\ hidden' = [r \in Runs |-> IF hidden[r] > 0 THEN hidden[r] - 1 ELSE 0]
  /\ lock' = [r \in Runs |-> {IF d >= 0 THEN d - 1 ELSE d : d \in lock[r]}]
  /\ timer' = [t \in Tasks |-> IF t \in beating \/ stage[t] = "dequeue"
                                 THEN timer[t] - 1 ELSE 0]
  /\ orphaned' = [r \in Runs |-> IF HeldByDead(r) /\ ~Claimable(r)
                                 THEN orphaned[r] + 1 ELSE orphaned[r]]
  /\ UNCHANGED <<order, worker, stage, job, beating, up, finished>>

QueueNext ==
  \/ \E t \in Tasks : TaskStep(t) \/ \E r \in Runs : Claim(t, r)
  \/ \E w \in Workers : Crash(w) \/ RequestShutdown(w)
  \/ Tick

QueueSpec == QueueInit /\ [][QueueNext]_queueVars

(* The event loop runs what is ready, workers poll, and time goes by.      *)
(* Every execution ends, though nobody knows after how many boundaries.    *)
FairQueueSpec ==
  /\ QueueSpec
  /\ \A t \in Tasks :
       /\ WF_queueVars(\E r \in Runs : Claim(t, r))
       /\ WF_queueVars(\E r \in job[t] : Conclude(t, r) \/ ExecuteRaises(t, r))
       /\ WF_queueVars(\E r \in job[t] : Release(t, r) \/ Dequeue(t, r))
       /\ WF_queueVars(\E r \in job[t] : Heartbeat(t, r))
  /\ WF_queueVars(Tick)

-----------------------------------------------------------------------------
Promised == INSTANCE Lease WITH
  Holders <- Tasks,
  holder <- [r \in Runs |-> {t \in Tasks : job[t] = {r}}]

(* Given those settings the queue implements the lease: from its claim to  *)
(* its release or dequeue a task is alone with its run, also among the     *)
(* tasks of its own worker, whose heartbeats the table cannot tell apart,  *)
(* and however late an event loop runs them.                               *)
KeepsLease == Promised!LeaseSpec

(* Recovery is bounded by the lease: the time a run has waited since its   *)
(* worker died and the time left on its lock are never more than a lease,  *)
(* whenever it last renewed it.                                            *)
RecoveryBounded ==
  \A r \in Runs : HeldByDead(r) =>
    \A d \in lock[r] : d >= 0 => orphaned[r] + d <= LeaseSeconds

(* A run that raises each time and is given back each time does not keep   *)
(* the workers from the others: visible_at sends it to the end of the      *)
(* queue.                                                                  *)
NoStarvation == \A r \in Runs \ Poison : <>[](r \in finished /\ ~InQueue(r))
=============================================================================
