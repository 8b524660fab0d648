# A verification project for Anchor

Anchor is a durable execution runtime for LLM agents: a run is a Python workflow whose steps are
recorded in an append-only log, and a worker that takes over a run replays the log before it goes
on. This directory models the runtime in TLA+, checks the model with TLC and proves the central
properties with TLAPS. Source paths below are relative to the repository; `PROJECT.json` maps every
definition to the lines it models.

## 1. The system

| Component (source) | State it keeps | Operations | What makes it correct |
|---|---|---|---|
| Event log (`events.py`, table `events`) | the events of a run by `seq` | append, load | one order, one outcome per step |
| Postgres store (`store/postgres.py`, `schema/001_init.sql`) | the `runs` row, the `run_queue` row with its lease, `side_effects` | submit, get, set_status, bump_attempt, save_usage, request_cancel, append, load, claim, heartbeat, release, dequeue | each operation is one statement or transaction; an unfinished run stays claimable |
| Budget (`budget.py`, `models.py`) | ceilings and counters of a run | check, add_tool_call, add_model_usage | ceilings hold over all attempts together |
| Run context (`context.py`) | replay memo, crash windows, usage of one attempt | step, call_tool, model, gather | a step is recorded only if it happened, and not repeated when that is unsafe |
| Engine (`engine.py`) | none of its own | execute, _fail | each exception has its verdict; verdict logged before it is shown |
| Worker (`worker.py`) | in-flight tasks, shutdown flag, heartbeat per task | claim loop, _process, heartbeat, drain | one worker per run; every run ends |
| API (`api.py`) | none | submit, read, cancel | submission is idempotent; a cancel is honoured |
| DynamoDB/SQS store (`store/dynamo.py`) | items and messages instead of rows | the same protocol, several calls per operation | the same promises as Postgres |
| Example agent (`examples/refund_agent.py`) | messages and transcript of one attempt | ask the model, call tools | a resumed loop reaches the steps it recorded |
| Registry, providers, config, CLI, scripts | declarations, environment | - | - |

How they interact. Workers poll `claim`; a claim starts a task that runs `Engine.execute`, with a
heartbeat task beside it. The engine loads the log into a `RunContext` and calls the workflow, which
calls back into the context for every step. All of them share one database and nothing else: the
lease, the cancel flag, the usage and the log are read at one await and relied on at the next.
The API writes the cancel flag concurrently.

What is hard: a lease that lapses under a working task; a crash at any await, in particular between
an effect and its record, between a record and its bookkeeping, and between a verdict and the
status; store calls that raise half-way through an attempt; duplicate deliveries; retries of bodies
whose outcome is unknown; counters reloaded by every attempt; branches of a fan-out that outlive the
attempt that started them; and, in the DynamoDB backend, several service calls with stale reads in
between where Postgres has one statement. The list with lines is under
`hazards` in `PROJECT.json`.

## 2. Modules

| Module | Models | Main definitions |
|---|---|---|
| `RunLog` | the log's vocabulary and what an attempt reads out of it | `Recorded`, `Unresolved` |
| `ReplayLoop` | `_build_replay_state` as the loop it is | `ReadEvent`, `LoopIsClosedForm` |
| `Budget` | `BudgetTracker`, `Usage` | `Exceeded`, `AddToolCall`, `AddModelUsage` |
| `PostgresStore` | one run in the database, each operation one atomic change | `SubmitRun`, `ClaimRow`, `HoldsLease`, `ReleaseRow`, `DequeueRow`, `SetStatus`, `AppendEvent`, `RequestCancel`, `RecordSideEffect` |
| `RunContext` | the durable-step protocol, one action from one await to the next | `ContextStep` and its 23 actions |
| `Engine` | `execute` and `_fail` around it | `EngineStep` and its 18 actions |
| `Worker` | the composed system: workers, heartbeats, crashes, faults, drain, clock, cancel | `Spec`, `FairSpec` |
| `Correctness` | the properties | |
| `MCWorker` | symmetry for TLC | |
| `Submission` | what the store protocol promises of `submit_run` | `SubmissionSpec` |
| `DynamoSubmission` | `submit_run` of `store/dynamo.py`, one action per service call | `DynamoSpec`, `Promise` |
| `MCSubmission` | the requests and keys of the TLC instance | |
| `Lease` | what the store protocol promises of claim, heartbeat, release and dequeue together | `LeaseSpec` |
| `RunQueue` | the `run_queue` table of several runs with its clock, and the worker loops that poll it | `QueueSpec`, `FairQueueSpec` |
| `DynamoStore` | one run's items and message, what each service call reads or writes | `NextSeq`, `Loadable`, `ReceiveMessage` |
| `DynamoRun` | workers, a submission and a cancel on that backend, one action per call | `DynamoRunSpec`, `FairDynamoRunSpec` |
| `Gather`, `MCGather` | `RunContext.gather`: branch tasks, the attempt that awaits them, its verdict | `GatherSpec` |
| `AgentLoop`, `MCAgent` | the loop of `refund_agent` over attempts, with `_next_key` | `AgentSpec` |
| `RunLogProofs` | lemmas about the closed forms of the log | `RecordedAppendOther`, `UnresolvedAppend` |
| `ReplayLoopProofs`, `DynamoSubmissionProofs`, `RunQueueProofs`, `DynamoRunProofs`, `GatherProofs`, `AgentLoopProofs` | theorems of the module they are named for | |
| `WorkerProofs` | theorems of `Worker`: with leases that lapse at any time, then under `Timely` | |

`RunContext` extends `PostgresStore`, `Engine` extends `RunContext`, `Worker` extends `Engine`.
`DynamoSubmission` implements `Submission` with `runs <- meta, enqueued <- sent`. `RunQueue` and
`DynamoRun` both implement `Lease`: the holder of a run is the task, or the worker, that works on it,
not whoever the table or an item names. `DynamoRun` and `Gather` take the log and its closed forms
from `RunLog`.

How the modules support each other. `Worker` assumes `Timely`; `RunQueue` derives it from the
settings. `Worker` numbers the steps `1 .. NumSteps`; `AgentLoop` shows that the keys of a loop whose
model decides what happens next are as stable as that. `Worker` models one attempt in full on
Postgres. `DynamoRun` has the calls such an attempt makes on the other store, for steps that are safe to
repeat and bodies that return: ToolInvoked, ModelCalled, BudgetExceeded and RunNeedsReview are not
appended there, and `save_usage` is a call that is accepted or refused, without its counters.

State. `pc[t]` is the await a task `t = <<worker, slot>>` is at, named for the statement that comes
next; `key`, `memo`, `unresolved`, `tries` and `spent` are the locals of its `RunContext`
(`_ordinals`, `_completed`, `_unresolved`, `attempt`, `budget.usage`). `queue` and `owner` are the
`run_queue` row: `free` is `locked_until IS NULL`, `held` and `lapsed` compare it with `now()`,
`absent` is a deleted row. `landed[k]` counts how often the effect of step `k` has happened
downstream; it is what the properties about effects are about and nothing in the runtime reads it
except through a verifier.

Abstractions.
- The workflow is deterministic between steps, as the runtime demands of it, so its step keys are
  `1 .. NumSteps`. A workflow that catches the exception of a failed step and goes on is not
  modelled; one that raises (before a step or after the last one) is.
- A step's class, verifier and kind (`step`, `call_tool`, `model`) are constants. A verifier answers
  from `landed`. A body is two moments: its effect, and its return, between which anything may
  happen. A request that is still in the network when its worker dies and takes effect later is not
  modelled. The per-call override of `max_attempts` is the constant `StepMaxAttempts`.
- Every operation on the store is keyed by the run, so `Worker` has one run. The runs of one worker
  share its slots, its id and the order of the queue; that is `RunQueue`.
- Tokens are a function of the number of model calls; the cost ceiling is the token ceiling again.
- Which steps may raise is the constant `Raising`: the body and the verifier of such a step, the
  workflow's own code before it, and after the last.
- The clock is `LeaseLapses` and `DeadlinePasses`. `Timely` says that no lease ends under a task at
  work: heartbeats, or where one has died the boundaries, renew it in time, and the last statements of
  an attempt reach the store within it. Without `Timely` a lease may lapse at any moment. The `visible_at` delay of a released run, which only postpones the next claim, is
  in `RunQueue`.
- `StoreFault` is a store call that raises, before it took effect or after it committed: the fault at
  a statement stands for the first kind there and for the second kind of the statement before. So the
  append of an announcement may be in the log and the attempt fail before the body, the last
  `save_usage` of a workflow may fail a run whose steps are all recorded, and a terminal status may be
  set and the run released. Two cases are left out: a `claim` that commits and then raises (its row is
  held by nobody until the lease lapses, as after a crash), and the StepCompleted of a recovered last
  step that does so in an attempt which executed nothing itself.
- In `DynamoSubmission` a request stands for the run it would create. A second request under a key
  is a client's retry or a concurrent submission; both may read a moment behind (`get_item` is
  eventually consistent). `append_event` is one action there and three in `DynamoRun`. A store opened
  without a queue URL sends no message at all; it is left out.
- `RunQueue` keeps times relative to `now()` in whole seconds. An execution is a number of boundaries,
  unknown beforehand, and then a verdict, or an exception for a run in `Poison`. A coroutine runs at
  most `MaxDelay` seconds after it has become ready: the heartbeat that far past its sleep, `dequeue`
  that far after the heartbeat was cancelled. `QueueAssumption` asks that the lease be longer than a
  heartbeat interval and two such delays; the defaults are 30 and 5 seconds.
- `UsageAnswers` says whether `save_usage` of the DynamoDB store is accepted. The service refuses it as
  it is written (see `dynamo_usage`), a mock may not, and a repaired expression would be accepted:
  `dynamo_run` has both answers, call by call.
- In `DynamoStore` reads are eventually consistent. A query of events may miss step events until a
  lease has lapsed over them, which is tens of seconds (30 by default) against the second or so
  that consistency takes; a query or
  a read of LEASE# items may miss any of them, at the price of one fault of `MaxFaults`; a cancel flag
  may be missed once set. A receipt handle that is not the message's last one may work or not, as SQS
  documents. The two requests beside the workers (the submission that still appends RunStarted, and a
  cancel) take turns, one in each behaviour, for size.
- In `Gather` the keys are the branches. A body raises before its effect or not at all, or returns what
  `_ensure_json` refuses; leases do not lapse under a live attempt and store calls do not raise.
- A heartbeat of `RunQueue` that is rejected ends, as the code's does (`beating`); `QueueInv` shows that
  no task at work ever gets that answer.
- In `AgentLoop` a step is one action, the end of the loop another, and the status of the run a third
  (`Conclude`): a crash before it makes the next attempt replay the final answer. And what a tool is asked is the conversation before it; the
  model may ask for nothing, for several tools, for the same one twice, or for one it made up.
- `get_run` returning nothing is left out of `Engine`: no operation deletes a run.

## 3. Runs

Passing runs (two workers unless noted, symmetric in their names where no liveness is checked):

| Run | Environment | Shows |
|---|---|---|
| `ownership` | timely; crash, drain, one store fault, bodies that raise and are tried twice, one cancel, a result the store refuses; 3 deliveries | `SingleOwner`, `NotStranded`, `OneOutcomePerStep`, `CancelStopsNewSteps`, `VerdictIsLatest`, `RepeatsAreShown`, `TerminalIsFinal` |
| `budget` | timely; ceilings on tool calls, model calls, tokens and time; retries; a crash and one store fault; a third worker that does not know the workflow | `SpendWithinCeiling`, `UsageLossBounded` |
| `stale` | leases lapse at any moment, so two workers work on the run at once; a store call raises or a heartbeat dies | `TypeOK`, `NoSilentDrop`, `BilledAtMostOnce`, `EffectsAccounted`, `VerdictLogged` |
| `finish` | timely, `FairSpec`, 4 deliveries; a step that raises and is tried twice, a verifiable and an unverifiable AT_MOST_ONCE step; crash, drain, cancel, a fault of a call or a heartbeat | `AtMostOnceEffect`, `ReviewIsHonest`, `Finishes` |
| `replay_loop` | every log of three events over two steps and two results | `LoopTypeOK`, `LoopIsClosedForm` |
| `run_queue` | `FairQueueSpec`; two runs, one of which always raises; two workers with two slots each; lease 4, heartbeat 1, poll 1, delay 1; crash and drain of one worker | `RecoveryBounded`, `KeepsLease` (refinement), `NoStarvation` |
| `dynamo_submit` | five requests under two keys, each of which may die before any call | `DeliveredIsComplete`, `LostOnlyByDeath`, `KeepsPromise` (refinement) |
| `dynamo_run` | `FairDynamoRunSpec`; one step, two workers, 2 deliveries, `save_usage` accepted or refused, one request beside the workers, one fault (a raising or swallowed call, or a missed lease item), a crash, a page of 4 events | `OneOutcome`, `KeepsLease` (refinement), `NothingOverwritten`, `DynamoKeepsOn` |
| `gather` | two branches with two results, or a refused one, and two tries each, AT_LEAST_ONCE or AT_MOST_ONCE; two workers, one crash, 2 deliveries | `ResultsLineUp`, `BranchAtMostOnce`, `NothingUnrecorded` |
| `agent_loop` | two tools and an invented one, six possible answers, two outputs, 3 turns, 3 attempts | `KeysStable`, `TranscriptIsLog` |

What the newer ones say. `KeepsLease` of `run_queue` is about a table that cannot tell two tasks of
one worker apart: with `2 * MaxDelay` between heartbeat and lease they still never meet. `OneOutcome`
holds only while no attempt has loaded a log longer than a page and the run has not been released.
Without the second exemption TLC finds a step that is completed twice in two deliveries, without the
first in three. `DynamoKeepsOn` does not say that the run ends, because with a refused `save_usage` it
does not: it ends and leaves the queue, or it is there to be delivered again after as many deliveries as
the bound allows. It is never lost. `RepeatsAreShown`,
`UsageLossBounded` and `LostOnlyByDeath` say how far the code falls short of the promises listed
below, and no further. `RepeatsAreShown` meets both ways of repeating: the retry loop of one attempt,
and a failed step that the next delivery executes afresh. `SpendWithinCeiling` is about the ceilings on
calls; those on tokens, cost and time decide when the model stops but are not bounded by it.
`NothingUnrecorded` exempts a worker that has gone down (a branch that outlives its attempt is not
waited for by the drain) and a branch whose result was refused after its effect.

Violated on purpose, what a document of the repository says and the code does not do:

| Run | Property | Divergence |
|---|---|---|
| `stale_dequeue` | `NotAbandoned` | `set_status` is not a compare-and-set: a stale worker, whose lease lapsed under it, revives a finished run that has left the queue |
| `dynamo_usage` | `VerdictIsStored` | `save_usage` names the reserved word `usage` without an alias, the service refuses it, and no run that executes a step ever gets a terminal status |

`VerdictIsStored` needs no crash, fault or race: the worker executes the step, `save_usage` raises, the
engine writes RunFailed, `_fail` saves the usage again, that raises out of `execute`, and the worker
releases the run with its verdict in the log and RUNNING on its row. The README's picture of an attempt
(`README.md:123`) ends with a terminal status. With `UsageAnswers = {TRUE}` the property holds (with
a fault it does not apply).

Other divergences between documents and code that the modelling met; each is what the bounded
property in parentheses is about.

- `README.md:197` and `schema/001_init.sql:25` call the `(run_id, seq)` key a tripwire on which a
  second writer "fails loudly". The seq is allocated by the insert itself (`store/postgres.py:411`),
  so both writers succeed and a step can get two outcomes once a lease has lapsed under its worker
  (`stale` checks what remains true then).
- `models.py:38` says of AT_MOST_ONCE "not safe to re-run", and `tests/test_idempotency.py:89` that
  "the runtime must not re-send on an unknown outcome". The retry loop (`context.py:263`) repeats any
  body that raised, whatever its class (`RepeatsAreShown`).
- `models.py:74` and `budget.py:4` say usage is persisted at every step boundary. The usage of a model
  call is added after StepCompleted (`context.py:191`), and a crash in between loses it
  (`UsageLossBounded`).
- `store/__init__.py:37` says `submit_run` inserts a run and enqueues it. On DynamoDB a request that
  dies after `store/dynamo.py:283` leaves a run that retries are answered with and nobody will execute
  (`LostOnlyByDeath`).
- `store/dynamo.py:46-59` and the table at `README.md:371` describe a conditional update of COUNTER
  that gives gapless numbers, and a conditional status update. The counter is an unconditional
  increment two calls before the event is put, so a crash leaves a gap, and two appends may mirror
  their numbers in the wrong order; `set_status` has no condition. (`NothingOverwritten` and
  `KeepsLease` hold regardless.)

Bounds. `MaxDeliveries`, `MaxFaults` and `MaxCancels` are in the guards of `Claim`, `StoreFault`,
`HeartbeatFails` and `CancelRun`, and of `Receive`, `Sees`, `CallRaises` in `DynamoRun`; `MaxAttempts`
is in the guard of `Resume`. Two workers are enough for every race over one row; three
deliveries give an attempt that crashes, one that recovers and crashes or hits a fault, and one that
finishes; two steps separate "this step" from "an earlier one", three let each class of step occur.
Steps are tried twice where a retry matters (`ownership`, `budget`, `finish`), once in `stale`, which is
about two workers and has no raising bodies. In `finish` four deliveries cover a crash, a release after a fault, a duplicate delivery after a
lost dequeue and the delivery that ends the run, so the bound never stops it.
In `dynamo_run` two deliveries are one that
crashes, hits a fault, is released or leaves its message behind, and one that follows it: `DynamoKeepsOn`
therefore says of the second that it ends the run or that the message comes back. A page of four is
shorter than the log of most second attempts, so both sides of the page's end occur. In `run_queue` the lease is the shortest the
assumption allows for a heartbeat and a delay of one second, so a late heartbeat meets the last
second of the lease; one poisoned run and one other are what starvation needs, and two slots what a
worker needs to claim its own run. In `gather` two branches are one that fails and one that outlives
it. The runs set `CHECK_DEADLOCK FALSE`, because a run that has left the queue is the end of the
story, except `run_queue`, whose clock never stops.

Fairness. `FairSpec` has weak fairness of each task's own steps and of each idle worker's claim,
since the event loop schedules every ready task and `run_forever` polls for ever, and of
`LeaseLapses`, since time goes by. Nothing is assumed about crashes, faults, cancels or shutdowns,
except (`Spared`) that one worker stays up. `finish` excludes a workflow result that the JSONB codec
refuses: that run is delivered again for ever, which `hazards` records.

`FairQueueSpec` has, for each task, weak fairness of its claim, of the end of its execution, of its
release or dequeue and of its heartbeat, and of `Tick`: the event loop runs what is ready, every
execution ends, though nobody knows after how many boundaries, and time goes by. `FairDynamoRunSpec`
has weak fairness of each worker's receive, of its next call, and of the visibility timeout. The two
requests beside the workers have none: stopping anywhere is how they die.

## 4. Proofs

Every theorem holds for all values of the constants (any number of workers, slots, steps, branches,
retries, deliveries and faults) that satisfy the named `ASSUME`s of the modules. `Timely` is a further
assumption where it is named; it is what `RunQueue` derives from the settings, and `stale_dequeue`
shows that it cannot be dropped. Each proof has the same shape: an inductive invariant, then one lemma
for each action or group of actions. What an appended event does to `Recorded`, `Unresolved` and `At` is said once, in `RunLogProofs`.

`ReplayLoopProofs`
- `LoopCorrect`, `LoopTypeCorrect`: `_build_replay_state` computes `Recorded` and `Unresolved`. The
  invariant is the statement itself.

`WorkerProofs`, first part: what holds without any assumption on leases, so also with several stale
workers.
- `TypeCorrect`: the type invariant of the composed system.
- `NothingDroppedSilently`: `NoSilentDrop` alone is not inductive, because an attempt writes
  StepCompleted for an effect, and RunCompleted for a whole workflow, that it saw earlier. `DropInv`
  adds that every memo entry comes from a StepCompleted in the log (`MemoLogged`), that the steps
  before the one an attempt is at are recorded (`PrefixDone`, `StepDone`, `AllDone`), and that an
  attempt about to record a step is past its effect (`EffectFirst`). Other workers only ever add to the
  log and to `landed`, which keeps all of it.
- `EveryEffectAnnounced`: the effects of a step and the tasks about to run its body together are no
  more than its announcements (`TriesAnnounced`). Counting the tasks is what makes it inductive: two
  stale workers may both be between announcement and effect.
- `NoStatusWithoutVerdict`: a task on its way to a terminal status has written that verdict
  (`VerdictFirst`), and nothing takes an event out of the log.
- `CeilingsHold`: the counters of every task are within the ceilings, less the tries that its retry
  loop may still add (`Headroom`). The persisted counters are always those of some task.
- `NothingBilledTwice`: the bill of a task is at most the model results it holds (`BillOf`), and those
  are recorded, by `DropInv`.

`WorkerProofs`, second part: under `Timely`.
- `OneOwner`, `NoRunStranded`, `StatusFinal`: `OwnInv` adds that a task that is about to dequeue has
  stored a terminal status (`VerdictBeforeDequeue`) and that on a finished run a task can only be at
  its first read, its dequeue or its release (`SettledRun`); the second is what makes the
  unconditional `set_status` harmless for the one owner.
- `StepsHaveOneOutcome`, `ParkedForAReason`: with one owner, an attempt's memo and crash windows are
  those of the log as it is now, not as it was when it was loaded (`Current`).
- `EveryRepeatShown`: an effect beyond those the log shows as failed belongs to the try under way or
  of unknown outcome, or is the recorded one (`RepeatInv`). `AtMostOnceKept` is about the steps outside
  `Raising`, as `AtMostOnceEffect` is: no try of such a step is ever shown as failed (`CalmInv`),
  whatever the others do.
- `CancelHolds`: after a request the one StepStarted still to come is that of a task past its boundary
  (`CancelInv`).
- `RowRepeatsLastVerdict`: between the verdict an attempt writes and its status, nobody else's verdict
  gets in (`LatestOf`).
- `LittleUsageLost`: the model steps in the log against the counters of the row and of the task, with
  the one call that may be open (`LossInv`). The proof corrected the property: a store fault in the
  window of the last attempt loses one call more, so `UsageLossBounded` counts faults, and the `budget`
  run has one.

`RunQueueProofs`
- `QueueKeepsLease`: `RunQueue` implements `Lease` for all settings that satisfy `QueueAssumption`.
  `QueueInv` says of a task at work that the row is its worker's and that the lock outlives what the
  task does next: it stays `LeaseSeconds - HeartbeatSeconds` behind the next renewal while a heartbeat
  runs, and beyond the dequeue after the last one (`InTime`). Hence no claim meets it, not even one of
  its own worker.
- `RecoveryIsBounded`: from the same invariant, with the bound of a lock by a lease (`Waiting`).

`DynamoSubmissionProofs`
- `SubmissionKept`, `DeliveriesComplete`: the DynamoDB submission implements `Submission`, for any
  requests and keys. `SubmitInv` adds to the types and `DeliveredIsComplete` that a request past its
  conditional put is the one its key names (`KeyHeld`), which is why two runs of one key cannot
  exist, and which items a request has written at each position (`WrittenSoFar`).
- `OnlyDeathLoses`: an answer names a run that has its META item, and the request that wrote it is on
  its way, has sent its message or has died (`MadeAndSent`).

`DynamoRunProofs`
- `EventsArePermanent`, for workers beside a submission and a cancel: the numbers of the events and those taken and not yet used are all different
  and none is beyond the counter (`NumbersApart`).
- `DynamoKeepsLease`: `DynamoRun` implements `Lease`. One worker is active and then the message is not
  visible; between its read of the run and its verdict the run is not finished (`OneAtWork`).
- `OutcomesStaySingle`: with both, whoever loads the log finds it settled, and whoever has loaded it
  knows all the outcomes there are (`KnowsOutcomes`). That a page holds the whole log when the number
  of events is within its limit is `RankFacts`, a counting argument.

`GatherProofs`
- `ResultsInOrder`, `BranchesAtMostOnce`, `EveryEffectRecorded`. What makes them hold is that the
  branches which run belong to one attempt: the one at work, or the one whose failure the run has ended
  with (`OneFan`). So an attempt that forks finds no branch running, and its memo is what the log holds
  (`InStepWithLog`); an AT_MOST_ONCE effect has left an outcome or a crash window in the log
  (`EffectsMarked`); and where nobody died an effect is recorded, about to be, or of a branch whose
  result was refused (`EffectsRecorded`).

`AgentLoopProofs`
- `KeysMeanOneStep`, `TranscriptTellsLog`. The log records one course of the loop: there is a sequence
  of positions, from the beginning to the frontier, such that entry `i` was made at the `i`-th position
  and its result leads to the next one; and the attempt is at one of these positions (`OnCourse`,
  `Course`). The final answer is the last entry of a course, so an attempt that replays it is on it too. Ordinals only grow along a course, so a key occurs once on it (`OneEntry`), which is why a
  replayed step returns what was recorded at the very position the attempt is at, and a step that is
  not recorded is at the frontier. The course is claimed to exist rather than computed from the log,
  so that no recursion over the log is needed; TLC does not check `OnCourse`, only what follows from it.

Only model-checked: `Finishes`, `NoStarvation` and `DynamoKeepsOn`. Liveness under fairness is out of
the prover's reach. Every other property of a passing run is a theorem.

## 5. Not modelled

- The two commits that then raise named under Abstractions (of `claim`, and of a recovered last step); a
  request still in the network when its worker dies.
- Standard SQS queues may deliver a message to two workers at once. Nothing in `store/dynamo.py` guards
  against that except the deletion of the other's lease item, so the properties of `dynamo_run` are
  claimed for deliveries that respect the visibility timeout.
- A run released, or lapsed, while branches of its gather still run. A branch past its guards cannot be
  stopped, and one of the same worker passes them too, so an AT_MOST_ONCE effect can double; `hazards`
  records it.
- The duplicate submission of the Postgres store is one transaction on a unique key and has no step to
  interleave; an instance of `Worker` starts from its result. The side-effect items of DynamoDB are a
  conditional put and a read, as in Postgres.
- The provider adapters, the reading of environment variables, CLI, scripts, metrics, statistics,
  `run_once` and the read-only queries hold no protocol state of their own.

## 6. Plan

Done: the core, the queue with its clock, the second backend, fan-out and the agent loop, and a theorem
for every safety property. Left, in this order:

1. A run released while branches of its gather still run, with the weaker property that holds then.
2. The two commits that then raise of section 5, with the proofs of `Worker` extended to them.
3. A worker of `DynamoRun` that is paused beyond the visibility timeout, in the middle of `claim`.
