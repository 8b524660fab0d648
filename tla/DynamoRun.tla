----------------------------- MODULE DynamoRun -----------------------------
(***************************************************************************)
(* Workers that execute a run in the DynamoDB/SQS backend, while the       *)
(* request that submitted it and one that cancels it append to the same    *)
(* log.  Every service call is an action: the calls of one process block   *)
(* its event loop and those of others come in between.                     *)
(*                                                                         *)
(* Of an attempt, which Engine and RunContext model, this has the calls it *)
(* makes on the store, for steps made by step() that are safe to repeat,   *)
(* bodies that return and a run without ceilings.  So ToolInvoked,         *)
(* ModelCalled, BudgetExceeded and RunNeedsReview are not appended, and    *)
(* save_usage is a call that is accepted or refused.  Heartbeats are in    *)
(* time: the message of a worker that is alive and at work stays invisible.*)
(***************************************************************************)
EXTENDS DynamoStore

CONSTANTS
  Submitter, Canceller,
  MaxRequests, MaxDeliveries, MaxFaults   \* bounds

ASSUME DynamoRunAssumption ==
  /\ Submitter \notin Workers /\ Canceller \notin Workers /\ Submitter # Canceller
  /\ MaxRequests \in Nat /\ MaxDeliveries \in Nat /\ MaxFaults \in Nat

Procs == Workers \cup {Submitter, Canceller}

VARIABLES
  pc,         \* the call each process makes next
  adding,     \* the event it is appending, with the number taken for it
  ctx,        \* the RunContext of each worker's attempt
  found,      \* the receipt handle and the LEASE# items a worker has read
  faults,     \* calls that raised and reads that missed a lease item
  partial     \* the run was released, or a log longer than a page was loaded

NoEvent == [event |-> RunEvent("RunStarted"), number |-> 0]
NoContext == [key |-> NoKey, memo |-> {}, unresolved |-> {}]
Nothing == [handle |-> 0, items |-> {}]

procVars == <<pc, adding, ctx, found, faults, partial>>
dynamoRunVars == <<metaVars, logVars, sqsVars, lease, procVars>>

Active(w) == pc[w] \notin {"idle", "down"}

(* The requests that append beside the workers: submit_run has sent the    *)
(* message and has its event still to append, and a cancel comes.          *)
DynamoRunInit ==
  /\ \E requests \in SUBSET {Submitter, Canceller} :
       /\ Cardinality(requests) <= MaxRequests
       /\ pc = [p \in Procs |-> CASE p \in Workers -> "idle"
                                  [] p \in requests \ {Canceller} -> "take_seq"
                                  [] p \in requests \ {Submitter} -> "set_flag"
                                  [] OTHER -> "down"]
       /\ DynamoStoreInit(IF Submitter \in requests THEN <<>> ELSE <<RunEvent("RunStarted")>>)
  /\ adding = [p \in Procs |-> NoEvent]
  /\ ctx = [w \in Workers |-> NoContext]
  /\ found = [w \in Workers |-> Nothing]
  /\ faults = 0 /\ partial = FALSE

Here(p, here) == pc[p] = here
Go(p, there) == pc' = [pc EXCEPT ![p] = there]

BeginAppend(p, e) ==
  Go(p, "take_seq") /\ adding' = [adding EXCEPT ![p] = [NoEvent EXCEPT !.event = e]]

(* The task ends, or the whole process, and its locals with it. *)
Leave(w, there) ==
  /\ Go(w, there)
  /\ adding' = [adding EXCEPT ![w] = NoEvent]
  /\ ctx' = [ctx EXCEPT ![w] = NoContext]
  /\ found' = [found EXCEPT ![w] = Nothing]

(* A query or get_item sees the LEASE# items there are, or misses some. *)
Sees(S, present) ==
  \/ S = present /\ UNCHANGED faults
  \/ /\ S \in SUBSET present \ {present}
     /\ faults < MaxFaults /\ faults' = faults + 1

-----------------------------------------------------------------------------
(* append_event, by whoever *)

TakeSeq(p) ==
  /\ Here(p, "take_seq")
  /\ counter' = counter + 1
  /\ adding' = [adding EXCEPT ![p].number = NextSeq]
  /\ Go(p, "mirror_seq")
  /\ UNCHANGED <<metaVars, events, fresh, sqsVars, lease, ctx, found, faults, partial>>

MirrorSeq(p) ==
  /\ Here(p, "mirror_seq")
  /\ event_seq' = adding[p].number
  /\ Go(p, "put_event")
  /\ UNCHANGED <<status, attempt, cancel_requested, logVars, sqsVars, lease,
                 adding, ctx, found, faults, partial>>

(* What follows the event, wherever it was appended. *)
After(type) ==
  CASE type = "RunResumed" -> "set_running"
    [] type \in {"StepStarted", "StepRetried"} -> "invoke"
    [] type = "StepCompleted" -> "save_usage"
    [] type = "RunCompleted" -> "completed_usage"
    [] type = "RunFailed" -> "failed_usage"
    [] type = "RunCancelled" -> "set_cancelled"
    [] OTHER -> "down"  \* the request is answered

PutAppended(p) ==
  /\ Here(p, "put_event")
  /\ PutEvent(adding[p].number, adding[p].event)
  /\ Go(p, After(adding[p].event.type))
  /\ adding' = [adding EXCEPT ![p] = NoEvent]
  /\ ctx' = [w \in Workers |->
               IF w = p /\ adding[p].event.type = "StepCompleted"
               THEN [ctx[w] EXCEPT !.memo = @ \cup {ctx[w].key}] ELSE ctx[w]]
  /\ UNCHANGED <<metaVars, counter, sqsVars, lease, found, faults, partial>>

AppendEvent(p) == TakeSeq(p) \/ MirrorSeq(p) \/ PutAppended(p)

(* request_cancel: the flag on its condition, then the event. *)
RequestCancel ==
  /\ Here(Canceller, "set_flag")
  /\ \/ ~Finished /\ cancel_requested' = TRUE
        /\ BeginAppend(Canceller, RunEvent("CancelRequested"))
     \/ Finished /\ Go(Canceller, "down") /\ UNCHANGED <<cancel_requested, adding>>
  /\ UNCHANGED <<event_seq, status, attempt, logVars, sqsVars, lease, ctx, found,
                 faults, partial>>

-----------------------------------------------------------------------------
(* claim *)

Receive(w) ==
  /\ Here(w, "idle") /\ receipt < MaxDeliveries
  /\ ReceiveMessage
  /\ found' = [found EXCEPT ![w].handle = receipt']
  /\ Go(w, "query_leases")
  /\ UNCHANGED <<metaVars, logVars, lease, adding, ctx, faults, partial>>

QueryLeases(w) ==
  /\ Here(w, "query_leases")
  /\ \E S \in SUBSET LeaseItems :
       Sees(S, LeaseItems) /\ found' = [found EXCEPT ![w].items = S]
  /\ Go(w, "purge_leases")
  /\ UNCHANGED <<metaVars, logVars, sqsVars, lease, adding, ctx, partial>>

PurgeLease(w) ==
  /\ Here(w, "purge_leases")
  /\ \E v \in found[w].items : /\ lease' = [lease EXCEPT ![v] = 0]
                              /\ found' = [found EXCEPT ![w].items = @ \ {v}]
  /\ UNCHANGED <<metaVars, logVars, sqsVars, pc, adding, ctx, faults, partial>>

(* The attempt_count it increments next is read by nobody. *)
PutLease(w) ==
  /\ Here(w, "purge_leases") /\ found[w].items = {}
  /\ lease' = [lease EXCEPT ![w] = found[w].handle]
  /\ Go(w, "get_run")
  /\ UNCHANGED <<metaVars, logVars, sqsVars, adding, ctx, found, faults, partial>>

ClaimStep(w) == QueryLeases(w) \/ PurgeLease(w) \/ PutLease(w)

-----------------------------------------------------------------------------
(* The attempt *)

GetRun(w) ==
  /\ Here(w, "get_run")
  /\ Go(w, IF Finished THEN "query_lease" ELSE "bump_attempt")
  /\ UNCHANGED <<metaVars, logVars, sqsVars, lease, adding, ctx, found, faults, partial>>

BumpAttempt(w) ==
  /\ Here(w, "bump_attempt")
  /\ attempt' = attempt + 1
  /\ \/ attempt' > 1 /\ BeginAppend(w, RunEvent("RunResumed"))
     \/ attempt' = 1 /\ Go(w, "set_running") /\ UNCHANGED adding
  /\ UNCHANGED <<event_seq, status, cancel_requested, logVars, sqsVars, lease, ctx,
                 found, faults, partial>>

SetRunning(w) ==
  /\ Here(w, "set_running")
  /\ status' = "RUNNING"
  /\ Go(w, "load_events")
  /\ UNCHANGED <<event_seq, attempt, cancel_requested, logVars, sqsVars, lease,
                 adding, ctx, found, faults, partial>>

LoadEvents(w) ==
  /\ Here(w, "load_events")
  /\ \E seen \in Loadable :
       ctx' = [ctx EXCEPT ![w].memo = {k \in Keys : Recorded(seen, k) # {}},
                          ![w].unresolved = Unresolved(seen)]
  /\ partial' = (partial \/ Cardinality(DOMAIN events) > PageSize)
  /\ Go(w, "boundary")
  /\ UNCHANGED <<metaVars, logVars, sqsVars, lease, adding, found, faults>>

(* The first step that is not replayed; none at the end of the workflow. *)
ToDo(w) == {k \in Keys \ ctx[w].memo : \A j \in Keys \ ctx[w].memo : k <= j}

(* What heartbeat and release get: the worker's item is found, and SQS     *)
(* accepts its handle, or not.                                             *)
Answered(w, answer) ==
  \E item \in SUBSET ({w} \cap LeaseItems) :
    /\ Sees(item, {w} \cap LeaseItems)
    /\ answer \in IF item = {} THEN {FALSE} ELSE ChangesVisibility(lease[w])

Boundary(w) ==
  /\ Here(w, "boundary")
  /\ \/ /\ Answered(w, TRUE) /\ Go(w, "check_cancel")
        /\ \E k \in ToDo(w) : ctx' = [ctx EXCEPT ![w].key = k]
        /\ UNCHANGED <<adding, found>>
     \/ ToDo(w) # {} /\ Answered(w, FALSE) /\ Leave(w, "idle")
  /\ UNCHANGED <<metaVars, logVars, sqsVars, lease, partial>>

(* A cancel that has just been requested may be missed. *)
CheckCancel(w) ==
  /\ Here(w, "check_cancel")
  /\ LET k == ctx[w].key
         type == IF k \in ctx[w].unresolved THEN "StepRetried" ELSE "StepStarted"
     IN \/ cancel_requested /\ BeginAppend(w, RunEvent("RunCancelled"))
        \/ BeginAppend(w, StepEvent(type, k))
  /\ UNCHANGED <<metaVars, logVars, sqsVars, lease, ctx, found, faults, partial>>

Invoke(w) ==
  /\ Here(w, "invoke")
  /\ \E v \in Results : BeginAppend(w, CompletedEvent(ctx[w].key, v))
  /\ UNCHANGED <<metaVars, logVars, sqsVars, lease, ctx, found, faults, partial>>

EndWorkflow(w) ==
  /\ Here(w, "boundary") /\ ToDo(w) = {}
  /\ BeginAppend(w, RunEvent("RunCompleted"))
  /\ UNCHANGED <<metaVars, logVars, sqsVars, lease, ctx, found, faults, partial>>

SetTerminal(w) ==
  /\ \/ Here(w, "set_completed") /\ status' = "COMPLETED"
     \/ Here(w, "set_cancelled") /\ status' = "CANCELLED"
     \/ Here(w, "set_failed") /\ status' = "FAILED"
  /\ Go(w, "query_lease")
  /\ UNCHANGED <<event_seq, attempt, cancel_requested, logVars, sqsVars, lease,
                 adding, ctx, found, faults, partial>>

(* save_usage, after an executed step and before two of the verdicts'      *)
(* statuses.                                                               *)
SaveUsage(w) ==
  /\ TRUE \in UsageAnswers
  /\ \/ Here(w, "save_usage") /\ Go(w, "boundary")
     \/ Here(w, "completed_usage") /\ Go(w, "set_completed")
     \/ Here(w, "failed_usage") /\ Go(w, "set_failed")
  /\ UNCHANGED <<metaVars, logVars, sqsVars, lease, adding, ctx, found, faults, partial>>

(* What an exception out of a call does in execute(): in the workflow it   *)
(* fails the run, elsewhere the run is released.                           *)
InWorkflow(w) ==
  \/ pc[w] = "boundary" /\ ToDo(w) # {}
  \/ pc[w] \in {"check_cancel", "save_usage"}
  \/ /\ pc[w] \in {"take_seq", "mirror_seq", "put_event"}
     /\ adding[w].event.type \in {"StepStarted", "StepRetried", "StepCompleted"}

ExecuteRaises(w) ==
  \/ InWorkflow(w) /\ BeginAppend(w, RunEvent("RunFailed"))
  \/ /\ ~InWorkflow(w)
     /\ pc[w] \in {"get_run", "bump_attempt", "set_running", "load_events",
                   "take_seq", "mirror_seq", "put_event", "completed_usage",
                   "failed_usage", "set_completed", "set_cancelled", "set_failed"}
     /\ Go(w, "release") /\ UNCHANGED adding

SaveUsageRefused(w) ==
  /\ FALSE \in UsageAnswers
  /\ pc[w] \in {"save_usage", "completed_usage", "failed_usage"}
  /\ ExecuteRaises(w)
  /\ UNCHANGED <<metaVars, logVars, sqsVars, lease, ctx, found, faults, partial>>

AttemptStep(w) ==
  \/ GetRun(w) \/ BumpAttempt(w) \/ SetRunning(w) \/ LoadEvents(w) \/ Boundary(w)
  \/ CheckCancel(w) \/ Invoke(w) \/ EndWorkflow(w)
  \/ SaveUsage(w) \/ SaveUsageRefused(w) \/ SetTerminal(w)

-----------------------------------------------------------------------------
(* dequeue and release *)

(* Any lease item of the run, whoever's: Limit=1. *)
QueryLease(w) ==
  /\ Here(w, "query_lease")
  /\ \E S \in SUBSET LeaseItems :
       /\ Sees(S, LeaseItems)
       /\ \/ S = {} /\ Leave(w, "idle")
          \/ /\ \E v \in S : found' = [found EXCEPT ![w] = [handle |-> lease[v],
                                                         items |-> {v}]]
             /\ Go(w, "delete_message") /\ UNCHANGED <<adding, ctx>>
  /\ UNCHANGED <<metaVars, logVars, sqsVars, lease, partial>>

(* A ClientError is swallowed; heartbeat and release swallow theirs too,   *)
(* with the effect of a lease item that was missed.                        *)
DeleteRunMessage(w) ==
  /\ Here(w, "delete_message")
  /\ \/ DeleteMessage(found[w].handle) /\ UNCHANGED faults
     \/ faults < MaxFaults /\ faults' = faults + 1 /\ UNCHANGED message
  /\ Go(w, "delete_lease")
  /\ UNCHANGED <<metaVars, logVars, receipt, lease, adding, ctx, found, partial>>

DeleteLease(w) ==
  /\ Here(w, "delete_lease")
  /\ lease' = [v \in Workers |-> IF v \in found[w].items THEN 0 ELSE lease[v]]
  /\ Leave(w, "idle")
  /\ UNCHANGED <<metaVars, logVars, sqsVars, faults, partial>>

(* int(delay_seconds) is 0 for the usual poll interval: the message is     *)
(* visible again at once.                                                  *)
Release(w) ==
  /\ Here(w, "release")
  /\ \E answer \in BOOLEAN :
       Answered(w, answer) /\ message' = IF answer THEN "visible" ELSE message
  /\ partial' = TRUE
  /\ Leave(w, "idle")
  /\ UNCHANGED <<metaVars, logVars, receipt, lease>>

QueueStep(w) == QueryLease(w) \/ DeleteRunMessage(w) \/ DeleteLease(w) \/ Release(w)

-----------------------------------------------------------------------------
(* Faults *)

Spared(w) == \E v \in Workers \ {w} : pc[v] # "down"

(* A call raises: out of dequeue and release that ends the task, and out   *)
(* of claim the worker's loop.                                             *)
CallRaises(w) ==
  /\ faults < MaxFaults /\ faults' = faults + 1
  /\ \/ ExecuteRaises(w) /\ UNCHANGED <<ctx, found>>
     \/ /\ pc[w] \in {"query_lease", "delete_message", "delete_lease", "release"}
        /\ Leave(w, "idle")
     \/ pc[w] \in {"idle", "query_leases", "purge_leases"} /\ Spared(w) /\ Leave(w, "down")
  /\ UNCHANGED <<metaVars, logVars, sqsVars, lease, partial>>

Crash(w) ==
  /\ pc[w] # "down" /\ Spared(w)
  /\ Leave(w, "down")
  /\ UNCHANGED <<metaVars, logVars, sqsVars, lease, faults, partial>>

(* The visibility timeout of a message that nobody extends runs out, and   *)
(* what its last holder wrote has long settled.                            *)
VisibilityLapses ==
  /\ message = "inflight"
  /\ \A w \in Workers : ~Active(w)
  /\ message' = "visible"
  /\ fresh' = {}
  /\ UNCHANGED <<metaVars, counter, events, receipt, lease, procVars>>

WorkerStep(w) == AppendEvent(w) \/ ClaimStep(w) \/ AttemptStep(w) \/ QueueStep(w)

DynamoRunNext ==
  \/ \E w \in Workers : Receive(w) \/ WorkerStep(w)
  \/ AppendEvent(Submitter) \/ RequestCancel \/ AppendEvent(Canceller)
  \/ \E w \in Workers : CallRaises(w) \/ Crash(w)
  \/ VisibilityLapses

DynamoRunSpec == DynamoRunInit /\ [][DynamoRunNext]_dynamoRunVars

(* Workers poll and go on with what they do, and time goes by.  The two    *)
(* requests may stop anywhere: that is how they die, or a call of theirs   *)
(* raises.                                                                 *)
FairDynamoRunSpec ==
  /\ DynamoRunSpec
  /\ \A w \in Workers : WF_dynamoRunVars(Receive(w)) /\ WF_dynamoRunVars(WorkerStep(w))
  /\ WF_dynamoRunVars(VisibilityLapses)

-----------------------------------------------------------------------------
Promised == INSTANCE Lease WITH
  Runs <- {"run"},
  Holders <- Workers,
  holder <- [r \in {"run"} |-> {w \in Workers : Active(w)}],
  finished <- {r \in {"run"} : Finished}

(* The visibility timeout and the LEASE# items together keep the protocol's *)
(* lease: one worker at a time, a terminal status that stays although      *)
(* set_status has no condition, whichever stale lease items a claim leaves *)
(* behind and whichever of them dequeue uses.                              *)
KeepsLease == Promised!LeaseSpec

(* append_event never overwrites an event, although the number is taken    *)
(* two calls before the item is put and the requests there are (up to      *)
(* MaxRequests) append beside a worker.                                    *)
NothingOverwritten ==
  [][\A s \in DOMAIN events : s \in DOMAIN events' /\ events'[s] = events[s]]_dynamoRunVars

(* As long as the logs that were loaded fit in a page and no worker has    *)
(* released the run, an attempt starts from all that earlier ones have     *)
(* recorded: no step is completed twice.                                   *)
OneOutcome ==
  ~partial =>
    \A s, u \in DOMAIN events :
      /\ events[s].type = "StepCompleted" /\ events[u].type = "StepCompleted"
      /\ events[s].key = events[u].key
      => s = u

(* The run is never lost: in the end it is finished and its message       *)
(* deleted, or the message comes back after every delivery there is,       *)
(* through deaths, raising and refused calls, stale reads and stale        *)
(* receipt handles, as long as one worker is up.                           *)
DynamoKeepsOn ==
  \/ <>[](Finished /\ message = "deleted")
  \/ <>(receipt = MaxDeliveries /\ message = "visible")

(* An attempt runs the workflow and brings the run to a terminal status:   *)
(* a worker that nothing happens to, and that has written a verdict, has   *)
(* set the status when it is through with the run.                         *)
VerdictIsStored ==
  /\ faults = 0 /\ \A w \in Workers : pc[w] = "idle"
  /\ \E s \in DOMAIN events : events[s].type \in {"RunCompleted", "RunFailed"}
  => Finished
=============================================================================
