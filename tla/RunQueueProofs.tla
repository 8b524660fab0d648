--------------------------- MODULE RunQueueProofs ---------------------------
(***************************************************************************)
(* The queue implements the lease and recovery is bounded by it, for any   *)
(* number of runs, workers and tasks and for all settings that leave the   *)
(* heartbeat room within the lease.                                        *)
(***************************************************************************)
EXTENDS RunQueue, TLAPS

(* What the columns and the worker's fields hold. *)
QueueTypes ==
  /\ lock \in [Runs -> SUBSET Int]
  /\ worker \in [Runs -> Workers \cup {NoWorker}]
  /\ stage \in [Tasks -> {"idle", "execute", "release", "dequeue", "dead"}]
  /\ job \in [Tasks -> SUBSET Runs]
  /\ timer \in [Tasks -> Int]
  /\ up \in [Workers -> {"up", "draining", "down"}]
  /\ orphaned \in [Runs -> Nat]

(* The lease of a row outlives what its task does next by more than the    *)
(* event loop can be late: while a heartbeat is running its expiry stays   *)
(* behind the next renewal, and after the last one there is time for the   *)
(* dequeue.                                                                *)
InTime(t, d) ==
  \/ /\ stage[t] \in {"execute", "release"} /\ t \in beating
     /\ timer[t] >= -MaxDelay /\ timer[t] <= HeartbeatSeconds
     /\ d >= timer[t] + (LeaseSeconds - HeartbeatSeconds)
  \/ stage[t] = "dequeue" /\ t \notin beating /\ timer[t] >= 0 /\ d > timer[t]

(* A task that works on r has the row, on a lease that is still running. *)
Holds(t, r) ==
  /\ worker[r] = WorkerOf(t)
  /\ up[WorkerOf(t)] # "down"
  /\ \E d \in lock[r] : lock[r] = {d} /\ InTime(t, d)

(* Every task at work holds the row of its job. *)
TasksHold ==
  \A t \in Tasks :
    /\ Working(t) => \E r \in Runs : job[t] = {r} /\ Holds(t, r)
    /\ ~Working(t) => job[t] = {}

(* No two tasks work on one run. *)
Alone == \A t, u \in Tasks, r \in Runs : job[t] = {r} /\ job[u] = {r} => t = u

(* No lock is longer than a lease, and a row whose worker lives has waited *)
(* for nobody.                                                             *)
Waiting ==
  \A r \in Runs :
    /\ \A d \in lock[r] : d <= LeaseSeconds
    /\ worker[r] \in Workers /\ up[worker[r]] # "down" => orphaned[r] = 0

(* The inductive invariant. *)
QueueInv == QueueTypes /\ TasksHold /\ Alone /\ Waiting /\ RecoveryBounded

(* A task that has a job works on it alone, and holds its row. *)
LEMMA JobFacts ==
  ASSUME QueueInv, NEW t \in Tasks, NEW r \in job[t]
  PROVE  /\ r \in Runs /\ WorkerOf(t) \in Workers
         /\ Working(t)
         /\ job[t] = {r}
         /\ Holds(t, r)
         /\ \A u \in Tasks \ {t} : job[u] # {r}
  <1> USE DEF QueueInv, QueueTypes
  <1>1. WorkerOf(t) \in Workers
    BY DEF Tasks, WorkerOf
  <1>2. r \in Runs
    OBVIOUS
  <1>3. Working(t)
    BY DEF TasksHold
  <1>4. PICK x \in Runs : job[t] = {x} /\ Holds(t, x)
    BY <1>3 DEF TasksHold
  <1>5. x = r
    BY <1>4
  <1> QED
    BY <1>1, <1>2, <1>3, <1>4, <1>5 DEF Alone

(* A lease in use has at least a second left: its row can be renewed by    *)
(* its worker and claimed by nobody.                                       *)
LEMMA LeaseRuns ==
  ASSUME QueueInv, NEW t \in Tasks, NEW r \in job[t]
  PROVE  Owns(WorkerOf(t), r) /\ ~Claimable(r)
  <1> USE DEF QueueInv, QueueTypes
  <1>1. Holds(t, r) /\ r \in Runs
    BY JobFacts
  <1>2. PICK d \in lock[r] : lock[r] = {d} /\ InTime(t, d)
    BY <1>1 DEF Holds
  <1>3. d \in Int /\ timer[t] \in Int
    BY <1>1
  <1>4. d > 0
    BY <1>2, <1>3, QueueAssumption DEF InTime
  <1>5. lock[r] # {} /\ lock[r] # {-1}
    BY <1>2, <1>3, <1>4
  <1> QED
    BY <1>1, <1>2, <1>4, <1>5 DEF Owns, Claimable, Holds

(* A step of one task, on its own run, leaves the other tasks what they    *)
(* have.                                                                   *)
LEMMA OwnStep ==
  ASSUME QueueInv, QueueTypes', up' = up,
         NEW t \in Tasks, NEW r \in Runs,
         \A u \in Tasks \ {t} : /\ stage'[u] = stage[u] /\ job'[u] = job[u]
                                /\ timer'[u] = timer[u] /\ job[u] # {r}
                                /\ (u \in beating' <=> u \in beating),
         \A x \in Runs \ {r} : /\ lock'[x] = lock[x] /\ worker'[x] = worker[x]
                               /\ orphaned'[x] = orphaned[x],
         \/ Working(t)' /\ job'[t] = {r} /\ Holds(t, r)'
         \/ ~Working(t)' /\ job'[t] = {},
         \A d \in lock'[r] : d <= LeaseSeconds,
         worker'[r] \in Workers => up[worker'[r]] # "down" /\ orphaned'[r] = 0
  PROVE  QueueInv'
  <1> USE DEF QueueInv
  <1>1. ASSUME NEW u \in Tasks
        PROVE  /\ Working(u)' => \E x \in Runs : job'[u] = {x} /\ Holds(u, x)'
               /\ ~Working(u)' => job'[u] = {}
    <2>1. CASE u = t
      BY <2>1
    <2>2. CASE u # t
      <3>1. Working(u)' <=> Working(u)
        BY <2>2 DEF Working
      <3>2. ASSUME Working(u)
            PROVE  \E x \in Runs : job'[u] = {x} /\ Holds(u, x)'
        <4>1. PICK x \in Runs : job[u] = {x} /\ Holds(u, x)
          BY <3>2 DEF TasksHold
        <4>2. x # r
          BY <2>2, <4>1
        <4>3. Holds(u, x)'
          BY <2>2, <4>1, <4>2 DEF Holds, InTime
        <4> QED
          BY <2>2, <4>1, <4>3
      <3> QED
        BY <2>2, <3>1, <3>2 DEF TasksHold
    <2> QED
      BY <2>1, <2>2
  <1>2. TasksHold'
    BY <1>1 DEF TasksHold
  <1>3. Alone'
    <2> SUFFICES ASSUME NEW a \in Tasks, NEW b \in Tasks, NEW x \in Runs,
                        job'[a] = {x}, job'[b] = {x}
                 PROVE  a = b
      BY DEF Alone
    <2>1. CASE a = t \/ b = t
      BY <2>1
    <2>2. CASE a # t /\ b # t
      BY <2>2 DEF Alone
    <2> QED
      BY <2>1, <2>2
  <1>4. Waiting'
    BY DEF Waiting
  <1>5. RecoveryBounded'
    <2> SUFFICES ASSUME NEW x \in Runs, HeldByDead(x)', NEW d \in lock'[x], d >= 0
                 PROVE  orphaned'[x] + d <= LeaseSeconds
      BY DEF RecoveryBounded
    <2>1. x # r
      BY DEF HeldByDead
    <2>2. HeldByDead(x)
      BY <2>1 DEF HeldByDead
    <2> QED
      BY <2>1, <2>2 DEF RecoveryBounded
  <1> QED
    BY <1>2, <1>3, <1>4, <1>5


-----------------------------------------------------------------------------
(* The queue starts in the invariant. *)
LEMMA QueueStart == QueueInit => QueueInv
  <1> SUFFICES ASSUME QueueInit PROVE QueueInv
    OBVIOUS
  <1> USE DEF QueueInit
  <1>1. QueueTypes
    BY DEF QueueTypes
  <1>2. TasksHold /\ Alone
    BY DEF TasksHold, Alone, Working
  <1>3. Waiting /\ RecoveryBounded
    BY DEF Waiting, RecoveryBounded
  <1> QED
    BY <1>1, <1>2, <1>3 DEF QueueInv

(* A claim takes a row that no task has, on a fresh lease. *)
LEMMA ClaimKeeps ==
  ASSUME QueueInv, NEW t \in Tasks, NEW r \in Runs, Claim(t, r)
  PROVE  QueueInv'
  <1> USE QueueAssumption DEF QueueInv, QueueTypes
  <1>1. WorkerOf(t) \in Workers
    BY DEF Tasks, WorkerOf
  <1>2. Claimable(r)
    BY DEF Claim, Oldest
  <1>3. \A u \in Tasks : job[u] # {r}
    BY <1>2, LeaseRuns
  <1>4. QueueTypes'
    BY <1>1 DEF Claim
  <1>5. Working(t)' /\ job'[t] = {r}
    BY DEF Claim, Working
  <1>6. Holds(t, r)'
    <2>1. lock'[r] = {LeaseSeconds} /\ LeaseSeconds \in lock'[r]
      BY DEF Claim
    <2>2. InTime(t, LeaseSeconds)'
      <3>1. CASE r \notin finished
        BY <3>1 DEF Claim, InTime
      <3>2. CASE r \in finished
        BY <3>2 DEF Claim, InTime
      <3> QED
        BY <3>1, <3>2
    <2>3. worker'[r] = WorkerOf(t) /\ up'[WorkerOf(t)] # "down"
      BY DEF Claim
    <2> QED
      BY <2>1, <2>2, <2>3 DEF Holds
  <1>7. \A u \in Tasks \ {t} : /\ stage'[u] = stage[u] /\ job'[u] = job[u]
                               /\ timer'[u] = timer[u] /\ job[u] # {r}
                               /\ (u \in beating' <=> u \in beating)
    BY <1>3 DEF Claim
  <1>8. \A x \in Runs \ {r} : /\ lock'[x] = lock[x] /\ worker'[x] = worker[x]
                              /\ orphaned'[x] = orphaned[x]
    BY DEF Claim
  <1>9. /\ up' = up /\ \A d \in lock'[r] : d <= LeaseSeconds
        /\ worker'[r] \in Workers => up[worker'[r]] # "down" /\ orphaned'[r] = 0
    BY DEF Claim
  <1> QED
    BY <1>4, <1>5, <1>6, <1>7, <1>8, <1>9, OwnStep

(* A renewal, by the heartbeat or at a step boundary: the task still owns  *)
(* its row and the lease runs from now.                                    *)
LEMMA RenewalKeeps ==
  ASSUME QueueInv, NEW t \in Tasks, NEW r \in job[t],
         Heartbeat(t, r) \/ Boundary(t, r)
  PROVE  QueueInv' /\ job' = job /\ finished' = finished
  <1> USE QueueAssumption DEF QueueInv, QueueTypes
  <1>1. Owns(WorkerOf(t), r)
    BY LeaseRuns
  <1>2. /\ r \in Runs /\ Working(t) /\ job[t] = {r} /\ Holds(t, r)
        /\ WorkerOf(t) \in Workers /\ \A u \in Tasks \ {t} : job[u] # {r}
    BY JobFacts
  <1>3. lock' = [lock EXCEPT ![r] = {LeaseSeconds}]
    BY <1>1 DEF Heartbeat, Boundary, Renewed
  <1>4. /\ stage' = stage /\ job' = job /\ worker' = worker /\ up' = up
        /\ orphaned' = orphaned /\ finished' = finished /\ beating' = beating
    BY <1>1 DEF Heartbeat, Boundary
  <1>5. /\ timer' \in [Tasks -> Int]
        /\ \A u \in Tasks \ {t} : timer'[u] = timer[u]
        /\ timer'[t] \in {timer[t], HeartbeatSeconds}
        /\ stage[t] \in {"execute", "release"} /\ t \in beating
    <2>1. stage[t] \in {"execute", "release"} <=> t \in beating
      BY <1>2 DEF Holds, InTime
    <2> QED
      BY <2>1 DEF Heartbeat, Boundary
  <1>6. Holds(t, r)'
    <2>1. InTime(t, LeaseSeconds)'
      <3>1. PICK d \in lock[r] : InTime(t, d)
        BY <1>2 DEF Holds
      <3>2. timer[t] >= -MaxDelay /\ timer[t] <= HeartbeatSeconds
        BY <1>5, <3>1 DEF InTime
      <3>3. timer'[t] >= -MaxDelay /\ timer'[t] <= HeartbeatSeconds
        BY <1>5, <3>2
      <3>4. LeaseSeconds >= timer'[t] + (LeaseSeconds - HeartbeatSeconds)
        BY <1>5, <3>3
      <3> QED
        BY <1>4, <1>5, <3>3, <3>4 DEF InTime
    <2>2. lock'[r] = {LeaseSeconds}
      BY <1>2, <1>3
    <2> QED
      BY <1>2, <1>4, <2>1, <2>2 DEF Holds
  <1>7. QueueTypes'
    BY <1>3, <1>4, <1>5
  <1>8. \A u \in Tasks \ {t} : /\ stage'[u] = stage[u] /\ job'[u] = job[u]
                               /\ timer'[u] = timer[u] /\ job[u] # {r}
                               /\ (u \in beating' <=> u \in beating)
    BY <1>2, <1>4, <1>5
  <1>9. \A x \in Runs \ {r} : /\ lock'[x] = lock[x] /\ worker'[x] = worker[x]
                              /\ orphaned'[x] = orphaned[x]
    BY <1>3, <1>4
  <1>10. /\ \A d \in lock'[r] : d <= LeaseSeconds
         /\ worker'[r] \in Workers => up[worker'[r]] # "down" /\ orphaned'[r] = 0
    BY <1>2, <1>3, <1>4 DEF Waiting, Holds
  <1>11. Working(t)' /\ job'[t] = {r}
    BY <1>2, <1>4 DEF Working
  <1> QED
    BY <1>2, <1>4, <1>6, <1>7, <1>8, <1>9, <1>10, <1>11, OwnStep

(* execute() ends, with a verdict or an exception: what is left of the     *)
(* lease is enough for what follows.                                       *)
LEMMA EndKeeps ==
  ASSUME QueueInv, NEW t \in Tasks, NEW r \in job[t],
         Conclude(t, r) \/ ExecuteRaises(t, r)
  PROVE  QueueInv'
  <1> USE QueueAssumption DEF QueueInv, QueueTypes
  <1>1. /\ r \in Runs /\ Working(t) /\ job[t] = {r} /\ Holds(t, r)
        /\ WorkerOf(t) \in Workers /\ \A u \in Tasks \ {t} : job[u] # {r}
    BY JobFacts
  <1>2. /\ lock' = lock /\ worker' = worker /\ job' = job /\ up' = up
        /\ orphaned' = orphaned
    BY DEF Conclude, ExecuteRaises, rowVars
  <1>3. /\ stage' \in [Tasks -> {"idle", "execute", "release", "dequeue", "dead"}]
        /\ timer' \in [Tasks -> Int]
        /\ \A u \in Tasks \ {t} : /\ stage'[u] = stage[u] /\ timer'[u] = timer[u]
                                  /\ (u \in beating' <=> u \in beating)
    BY DEF Conclude, ExecuteRaises
  <1>4. PICK d \in lock[r] : lock[r] = {d} /\ InTime(t, d)
    BY <1>1 DEF Holds
  <1>5. InTime(t, d)'
    <2>1. /\ timer[t] >= -MaxDelay /\ timer[t] <= HeartbeatSeconds
          /\ d >= timer[t] + (LeaseSeconds - HeartbeatSeconds)
      BY <1>4 DEF InTime, Conclude, ExecuteRaises
    <2>2. CASE Conclude(t, r)
      <3>1. d > MaxDelay
        BY <1>1, <2>1
      <3> QED
        BY <2>2, <3>1 DEF InTime, Conclude
    <2>3. CASE ExecuteRaises(t, r)
      BY <1>4, <2>1, <2>3 DEF InTime, ExecuteRaises
    <2> QED
      BY <2>2, <2>3
  <1>6. Holds(t, r)'
    BY <1>1, <1>2, <1>4, <1>5 DEF Holds
  <1>7. Working(t)' /\ job'[t] = {r}
    BY <1>1, <1>2 DEF Working, Conclude, ExecuteRaises
  <1>8. QueueTypes'
    BY <1>2, <1>3
  <1>9. /\ \A e \in lock'[r] : e <= LeaseSeconds
        /\ worker'[r] \in Workers => up[worker'[r]] # "down" /\ orphaned'[r] = 0
    BY <1>1, <1>2 DEF Waiting, Holds
  <1>10. \A x \in Runs \ {r} : /\ lock'[x] = lock[x] /\ worker'[x] = worker[x]
                               /\ orphaned'[x] = orphaned[x]
    BY <1>2
  <1>11. \A u \in Tasks \ {t} : /\ stage'[u] = stage[u] /\ job'[u] = job[u]
                                /\ timer'[u] = timer[u] /\ job[u] # {r}
                                /\ (u \in beating' <=> u \in beating)
    BY <1>1, <1>2, <1>3
  <1> QED
    BY <1>1, <1>2, <1>6, <1>7, <1>8, <1>9, <1>10, <1>11, OwnStep

(* A task gives its row back, or deletes it: it touches no other row. *)
LEMMA GiveBackKeeps ==
  ASSUME QueueInv, NEW t \in Tasks, NEW r \in job[t],
         Release(t, r) \/ Dequeue(t, r)
  PROVE  QueueInv'
  <1> USE QueueAssumption DEF QueueInv, QueueTypes
  <1>1. /\ r \in Runs /\ Holds(t, r) /\ \A u \in Tasks \ {t} : job[u] # {r}
    BY JobFacts
  <1>2. /\ lock' = [lock EXCEPT ![r] = {}]
        /\ worker' = [worker EXCEPT ![r] = NoWorker]
    BY <1>1 DEF Release, Dequeue, ReleaseRow, DequeueRow, Holds
  <1>3. /\ stage' = [stage EXCEPT ![t] = "idle"]
        /\ job' = [job EXCEPT ![t] = {}]
        /\ timer' = [timer EXCEPT ![t] = 0] /\ beating' = beating \ {t}
        /\ up' = up /\ orphaned' = orphaned
    BY DEF Release, Dequeue, Idle
  <1>4. QueueTypes'
    BY <1>2, <1>3
  <1>5. ~Working(t)' /\ job'[t] = {}
    BY <1>3 DEF Working
  <1>6. /\ \A e \in lock'[r] : e <= LeaseSeconds
        /\ worker'[r] \in Workers => up[worker'[r]] # "down" /\ orphaned'[r] = 0
    BY <1>1, <1>2
  <1>7. \A x \in Runs \ {r} : /\ lock'[x] = lock[x] /\ worker'[x] = worker[x]
                              /\ orphaned'[x] = orphaned[x]
    BY <1>2, <1>3
  <1>8. \A u \in Tasks \ {t} : /\ stage'[u] = stage[u] /\ job'[u] = job[u]
                               /\ timer'[u] = timer[u] /\ job[u] # {r}
                               /\ (u \in beating' <=> u \in beating)
    BY <1>1, <1>3
  <1> QED
    BY <1>1, <1>3, <1>4, <1>5, <1>6, <1>7, <1>8, OwnStep


(* A crash takes the tasks of one worker; their rows begin to wait, from   *)
(* nothing and for a lease at most.                                        *)
LEMMA CrashKeeps ==
  ASSUME QueueInv, NEW w \in Workers, Crash(w)
  PROVE  QueueInv'
  <1> USE QueueAssumption DEF QueueInv, QueueTypes
  <1>1. lock' = lock /\ worker' = worker /\ orphaned' = orphaned
    BY DEF Crash, rowVars
  <1>2. QueueTypes'
    BY <1>1 DEF Crash
  <1>3. \A v \in Workers : v # w => up'[v] = up[v]
    BY DEF Crash
  <1>4. ASSUME NEW u \in Tasks
        PROVE  /\ Working(u)' => \E x \in Runs : job'[u] = {x} /\ Holds(u, x)'
               /\ ~Working(u)' => job'[u] = {}
    <2>1. WorkerOf(u) \in Workers
      BY DEF Tasks, WorkerOf
    <2>2. CASE WorkerOf(u) = w
      BY <2>2 DEF Crash, Working
    <2>3. CASE WorkerOf(u) # w
      <3>1. /\ stage'[u] = stage[u] /\ job'[u] = job[u] /\ timer'[u] = timer[u]
            /\ u \in beating <=> u \in beating'
        BY <2>3 DEF Crash
      <3>2. \A x \in Runs : Holds(u, x) => Holds(u, x)'
        BY <1>1, <1>3, <2>1, <2>3, <3>1 DEF Holds, InTime
      <3> QED
        BY <3>1, <3>2 DEF TasksHold, Working
    <2> QED
      BY <2>2, <2>3
  <1>5. TasksHold'
    BY <1>4 DEF TasksHold
  <1>6. Alone'
    <2>1. \A u \in Tasks, x \in Runs : job'[u] = {x} => job[u] = {x}
      BY DEF Crash
    <2> QED
      BY <2>1 DEF Alone
  <1>7. Waiting'
    <2>1. \A x \in Runs : worker[x] \in Workers /\ up'[worker[x]] # "down"
                            => up[worker[x]] # "down"
      BY <1>3 DEF Crash
    <2> QED
      BY <1>1, <2>1 DEF Waiting
  <1>8. RecoveryBounded'
    <2> SUFFICES ASSUME NEW x \in Runs, HeldByDead(x)', NEW d \in lock[x], d >= 0
                 PROVE  orphaned[x] + d <= LeaseSeconds
      BY <1>1 DEF RecoveryBounded
    <2>1. CASE HeldByDead(x)
      BY <2>1 DEF RecoveryBounded
    <2>2. CASE ~HeldByDead(x)
      <3>1. worker[x] \in Workers /\ up[worker[x]] # "down"
        BY <1>1, <2>2 DEF HeldByDead
      <3> QED
        BY <3>1 DEF Waiting
    <2> QED
      BY <2>1, <2>2
  <1> QED
    BY <1>2, <1>5, <1>6, <1>7, <1>8

(* SIGTERM takes nothing from a task that is working. *)
LEMMA ShutdownKeeps ==
  ASSUME QueueInv, NEW w \in Workers, RequestShutdown(w)
  PROVE  QueueInv'
  <1> USE DEF QueueInv, QueueTypes
  <1>1. /\ lock' = lock /\ worker' = worker /\ orphaned' = orphaned
        /\ stage' = stage /\ job' = job /\ timer' = timer /\ beating' = beating
    BY DEF RequestShutdown, rowVars, loopVars
  <1>2. up' \in [Workers -> {"up", "draining", "down"}]
    BY DEF RequestShutdown
  <1>3. \A v \in Workers : up'[v] = "down" <=> up[v] = "down"
    BY DEF RequestShutdown
  <1>4. ASSUME NEW u \in Tasks, NEW x \in Runs, Holds(u, x)
        PROVE  Holds(u, x)'
    <2>1. WorkerOf(u) \in Workers
      BY DEF Tasks, WorkerOf
    <2> QED
      BY <1>1, <1>3, <1>4, <2>1 DEF Holds, InTime
  <1>5. TasksHold'
    BY <1>1, <1>4 DEF TasksHold, Working
  <1>6. Alone'
    BY <1>1 DEF Alone
  <1>7. Waiting'
    BY <1>1, <1>3 DEF Waiting
  <1>8. RecoveryBounded'
    BY <1>1, <1>3 DEF RecoveryBounded, HeldByDead
  <1> QED
    BY <1>1, <1>2, <1>5, <1>6, <1>7, <1>8

(* A second goes by for timers and leases alike; a timer that cannot wait  *)
(* longer has stopped the clock before its lease runs out.                 *)
LEMMA TickKeeps ==
  ASSUME QueueInv, Tick
  PROVE  QueueInv'
  <1> USE QueueAssumption DEF QueueInv, QueueTypes
  <1> DEFINE Later(d) == IF d >= 0 THEN d - 1 ELSE d
  <1>1. /\ worker' = worker /\ stage' = stage /\ job' = job /\ up' = up
        /\ beating' = beating
    BY DEF Tick
  <1>2. \A x \in Runs : lock'[x] = {Later(d) : d \in lock[x]}
    BY DEF Tick
  <1>3. \A d \in Int : Later(d) \in Int /\ Later(d) <= d /\ (Later(d) >= 0 => Later(d) = d - 1)
    OBVIOUS
  <1>4. lock' \in [Runs -> SUBSET Int]
    <2>1. \A x \in Runs : {Later(d) : d \in lock[x]} \in SUBSET Int
      BY <1>3
    <2> QED
      BY <2>1 DEF Tick
  <1>5. timer' \in [Tasks -> Int] /\ orphaned' \in [Runs -> Nat]
    BY DEF Tick
  <1>6. QueueTypes'
    BY <1>1, <1>4, <1>5
  <1>7. ASSUME NEW u \in Tasks, NEW x \in Runs, Holds(u, x)
        PROVE  Holds(u, x)'
    <2>1. PICK d \in lock[x] : lock[x] = {d} /\ InTime(u, d)
      BY <1>7 DEF Holds
    <2>2. d \in Int /\ timer[u] \in Int
      OBVIOUS
    <2>3. /\ stage[u] \in {"execute", "release"} => timer[u] > -MaxDelay
          /\ stage[u] = "dequeue" => timer[u] > 0
      BY <2>1 DEF Tick, InTime
    <2>4. timer'[u] = timer[u] - 1
      BY <2>1 DEF Tick, InTime
    <2>5. d > 0
      BY <2>1, <2>2 DEF InTime
    <2>6. InTime(u, d - 1)'
      BY <1>1, <2>1, <2>2, <2>3, <2>4 DEF InTime
    <2>7. lock'[x] = {d - 1}
      BY <1>2, <2>1, <2>2, <2>5
    <2> QED
      BY <1>1, <1>7, <2>6, <2>7 DEF Holds
  <1>8. TasksHold'
    BY <1>1, <1>7 DEF TasksHold, Working
  <1>9. Alone'
    BY <1>1 DEF Alone
  <1>10. Waiting'
    <2> SUFFICES ASSUME NEW x \in Runs
                 PROVE  /\ \A e \in lock'[x] : e <= LeaseSeconds
                        /\ worker[x] \in Workers /\ up[worker[x]] # "down"
                             => orphaned'[x] = 0
      BY <1>1 DEF Waiting
    <2>1. ASSUME NEW e \in lock'[x] PROVE e <= LeaseSeconds
      <3>1. PICK d \in lock[x] : e = Later(d)
        BY <1>2
      <3>2. d \in Int /\ d <= LeaseSeconds
        BY DEF Waiting
      <3> QED
        BY <1>3, <3>1, <3>2
    <2>2. ASSUME worker[x] \in Workers, up[worker[x]] # "down"
          PROVE  orphaned'[x] = 0
      <3>1. ~HeldByDead(x)
        BY <2>2 DEF HeldByDead
      <3> QED
        BY <2>2, <3>1 DEF Tick, Waiting
    <2> QED
      BY <2>1, <2>2
  <1>11. RecoveryBounded'
    <2> SUFFICES ASSUME NEW x \in Runs, HeldByDead(x)', NEW e \in lock'[x], e >= 0
                 PROVE  orphaned'[x] + e <= LeaseSeconds
      BY DEF RecoveryBounded
    <2>1. HeldByDead(x)
      BY <1>1 DEF HeldByDead
    <2>2. PICK d \in lock[x] : e = Later(d)
      BY <1>2
    <2>3. d \in Int /\ e = d - 1 /\ d >= 0
      BY <1>3, <2>2
    <2>4. orphaned[x] + d <= LeaseSeconds
      BY <2>1, <2>3 DEF RecoveryBounded
    <2>5. orphaned[x] \in Nat /\ orphaned'[x] \in {orphaned[x], orphaned[x] + 1}
      BY DEF Tick
    <2> QED
      BY <2>3, <2>4, <2>5
  <1> QED
    BY <1>6, <1>8, <1>9, <1>10, <1>11

(* Every step of the queue keeps the invariant. *)
LEMMA QueueStep == QueueInv /\ [QueueNext]_queueVars => QueueInv'
  <1> SUFFICES ASSUME QueueInv, [QueueNext]_queueVars PROVE QueueInv'
    OBVIOUS
  <1>1. ASSUME NEW t \in Tasks, TaskStep(t) PROVE QueueInv'
    BY <1>1, RenewalKeeps, EndKeeps, GiveBackKeeps DEF TaskStep
  <1>2. ASSUME NEW t \in Tasks, NEW r \in Runs, Claim(t, r) PROVE QueueInv'
    BY <1>2, ClaimKeeps
  <1>3. ASSUME NEW w \in Workers, Crash(w) \/ RequestShutdown(w) PROVE QueueInv'
    BY <1>3, CrashKeeps, ShutdownKeeps
  <1>4. CASE Tick
    BY <1>4, TickKeeps
  <1>5. CASE UNCHANGED queueVars
    <2> USE <1>5 DEF queueVars, rowVars, loopVars, QueueInv
    <2>1. QueueTypes' /\ Alone' /\ Waiting' /\ RecoveryBounded'
      BY DEF QueueTypes, Alone, Waiting, RecoveryBounded, HeldByDead
    <2>2. \A u \in Tasks, x \in Runs : Holds(u, x) => Holds(u, x)'
      BY DEF Holds, InTime
    <2>3. TasksHold'
      BY <2>2 DEF TasksHold, Working
    <2> QED
      BY <2>1, <2>3
  <1> QED
    BY <1>1, <1>2, <1>3, <1>4, <1>5 DEF QueueNext

(* Every reachable state of the queue satisfies the invariant. *)
LEMMA QueueInvariant == QueueSpec => []QueueInv
  BY QueueStart, QueueStep, PTL DEF QueueSpec

(* Recovery is bounded by the lease: whenever and however often its worker *)
(* renewed it, the time a run has waited since that worker died and the    *)
(* time left on its lock are together no more than lease_seconds.          *)
THEOREM RecoveryIsBounded == QueueSpec => []RecoveryBounded
  <1>1. QueueInv => RecoveryBounded
    BY DEF QueueInv
  <1> QED
    BY <1>1, QueueInvariant, PTL

-----------------------------------------------------------------------------
(* Nobody holds a run at the start. *)
LEMMA LeaseStart == QueueInit => Promised!LeaseInit
  BY DEF QueueInit, Promised!LeaseInit

(* Each step of the queue is a step of the lease, or none. *)
LEMMA LeaseStep ==
  ASSUME QueueInv, [QueueNext]_queueVars
  PROVE  [Promised!LeaseNext]_(Promised!leaseVars)
  <1> DEFINE Held(x) == {u \in Tasks : job[u] = {x}}
             HeldNext(x) == {u \in Tasks : job'[u] = {x}}
  <1> USE DEF QueueInv, QueueTypes
  <1>1. ASSUME job' = job, finished' = finished
        PROVE  UNCHANGED Promised!leaseVars
    BY <1>1 DEF Promised!leaseVars
  <1>2. ASSUME NEW t \in Tasks, NEW r \in Runs, Claim(t, r)
        PROVE  Promised!Acquire(r, t)
    <2>1. \A u \in Tasks : job[u] # {r}
      BY <1>2, LeaseRuns DEF Claim, Oldest
    <2>2. job[t] = {}
      BY <1>2 DEF TasksHold, Working, Claim
    <2>3. \A x \in Runs : HeldNext(x) = IF x = r THEN {t} ELSE Held(x)
      <3>1. job'[t] = {r} /\ \A u \in Tasks \ {t} : job'[u] = job[u]
        BY <1>2 DEF Claim
      <3>2. HeldNext(r) = {t}
        BY <2>1, <3>1
      <3>3. \A x \in Runs \ {r} : HeldNext(x) = Held(x)
        BY <2>2, <3>1
      <3> QED
        BY <3>2, <3>3
    <2>4. Held(r) = {}
      BY <2>1
    <2> HIDE DEF Held, HeldNext
    <2>5. [x \in Runs |-> HeldNext(x)] = [[x \in Runs |-> Held(x)] EXCEPT ![r] = {t}]
      BY <2>3
    <2>6. [x \in Runs |-> Held(x)][r] = {}
      BY <2>4
    <2>7. finished' = finished
      BY <1>2 DEF Claim
    <2> QED
      BY <2>5, <2>6, <2>7 DEF Promised!Acquire, Held, HeldNext
  <1>3. ASSUME NEW t \in Tasks, NEW r \in job[t], Conclude(t, r)
        PROVE  Promised!Finish(r) /\ r \in Runs
    <2>1. job[t] = {r} /\ r \in Runs
      BY JobFacts
    <2>2. t \in Held(r)
      BY <2>1
    <2> QED
      BY <1>3, <2>1, <2>2 DEF Promised!Finish, Conclude
  <1>4. ASSUME NEW H \in SUBSET Tasks, finished' = finished,
               job' = [u \in Tasks |-> IF u \in H THEN {} ELSE job[u]]
        PROVE  Promised!GiveUp(H)
    <2>1. \A x \in Runs : HeldNext(x) = Held(x) \ H
      BY <1>4
    <2> QED
      BY <1>4, <2>1 DEF Promised!GiveUp
  <1>5. ASSUME NEW t \in Tasks, NEW r \in job[t], Release(t, r) \/ Dequeue(t, r)
        PROVE  Promised!LeaseNext
    <2>1. job' = [u \in Tasks |-> IF u \in {t} THEN {} ELSE job[u]]
      BY <1>5 DEF Release, Dequeue, Idle
    <2>2. finished' = finished
      BY <1>5 DEF Release, Dequeue, Idle
    <2>3. Promised!GiveUp({t}) /\ {t} \in SUBSET Tasks
      BY <1>4, <2>1, <2>2
    <2> QED
      BY <2>3 DEF Promised!LeaseNext
  <1>6. ASSUME NEW w \in Workers, Crash(w)
        PROVE  Promised!LeaseNext
    <2> DEFINE H == {u \in Tasks : WorkerOf(u) = w}
    <2>1. job' = [u \in Tasks |-> IF u \in H THEN {} ELSE job[u]]
      BY <1>6 DEF Crash
    <2>2. finished' = finished /\ H \in SUBSET Tasks
      BY <1>6 DEF Crash
    <2> HIDE DEF H
    <2>3. Promised!GiveUp(H)
      BY <1>4, <2>1, <2>2
    <2> QED
      BY <2>2, <2>3 DEF Promised!LeaseNext
  <1>7. ASSUME NEW t \in Tasks, NEW r \in job[t],
               Heartbeat(t, r) \/ Boundary(t, r) \/ ExecuteRaises(t, r)
        PROVE  job' = job /\ finished' = finished
    BY <1>7, RenewalKeeps DEF ExecuteRaises
  <1>8. CASE \E t \in Tasks : TaskStep(t)
    BY <1>1, <1>3, <1>5, <1>7, <1>8 DEF TaskStep, Promised!LeaseNext
  <1>9. CASE \E t \in Tasks, r \in Runs : Claim(t, r)
    BY <1>2, <1>9 DEF Promised!LeaseNext
  <1>10. CASE \E w \in Workers : Crash(w)
    BY <1>6, <1>10
  <1>11. CASE (\E w \in Workers : RequestShutdown(w)) \/ Tick \/ UNCHANGED queueVars
    BY <1>1, <1>11 DEF RequestShutdown, Tick, queueVars, loopVars
  <1> QED
    BY <1>8, <1>9, <1>10, <1>11 DEF QueueNext

(* The queue implements the lease the Store protocol promises: a task is   *)
(* alone with its run from claim to release or dequeue, also among the     *)
(* tasks of one worker, which the table cannot tell apart, for every       *)
(* lease_seconds that exceeds heartbeat_seconds by twice the time an event *)
(* loop may be late.                                                       *)
THEOREM QueueKeepsLease == QueueSpec => KeepsLease
  <1>1. QueueInv /\ [QueueNext]_queueVars => [Promised!LeaseNext]_(Promised!leaseVars)
    BY LeaseStep
  <1> QED
    BY <1>1, LeaseStart, QueueInvariant, PTL DEF QueueSpec, KeepsLease, Promised!LeaseSpec
=============================================================================
