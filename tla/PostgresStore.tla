--------------------------- MODULE PostgresStore ---------------------------
(***************************************************************************)
(* One run as the Postgres backend keeps it (src/anchor/store/postgres.py, *)
(* schema/001_init.sql).  Every operation is one statement or one          *)
(* transaction, so each is one atomic change here; what happens between    *)
(* two operations is up to the callers' interleaving.                      *)
(*                                                                         *)
(* Every operation is keyed by run_id, so runs do not touch each other's   *)
(* rows and one run is enough.                                             *)
(***************************************************************************)
EXTENDS RunLog, Budget

CONSTANTS
  Workers,     \* worker ids; a restarted process is a new worker id
  NoWorker,    \* worker_id IS NULL
  Dedup        \* the steps whose downstream system dedupes on our token

ASSUME WorkersAssumption == NoWorker \notin Workers
ASSUME DedupAssumption == Dedup \subseteq Keys

VARIABLES
  status,      \* runs.status
  attempt,     \* runs.attempt
  cancels,     \* accepted cancel requests; cancel_requested is cancels > 0
  usage,       \* runs.usage
  log,         \* the rows of events in order of seq; event_seq is Len(log)
  queue,       \* the run_queue row and its lease, see QueueState
  owner,       \* run_queue.worker_id
  deliveries,  \* run_queue.attempts
  landed       \* how often each step's effect has happened downstream

runVars == <<status, attempt, cancels, usage>>
queueVars == <<queue, owner, deliveries>>
storeVars == <<runVars, log, queueVars, landed>>

RunStatus ==
  {"PENDING", "RUNNING", "COMPLETED", "FAILED", "CANCELLED", "NEEDS_REVIEW"}
Terminal == {"COMPLETED", "FAILED", "CANCELLED", "NEEDS_REVIEW"}

(***************************************************************************)
(* free:   locked_until IS NULL      held: locked_until > now()            *)
(* lapsed: locked_until < now()      absent: the row has been deleted      *)
(***************************************************************************)
QueueState == {"absent", "free", "held", "lapsed"}

StoreTypeOK ==
  /\ status \in RunStatus
  /\ attempt \in Nat
  /\ cancels \in Nat
  /\ usage \in Usage
  /\ log \in Seq(Event)
  /\ queue \in QueueState
  /\ owner \in Workers \cup {NoWorker}
  /\ deliveries \in Nat
  /\ landed \in [Keys -> Nat]

(* submit_run: the run, its queue row and RunStarted, in one transaction. *)
SubmitRun ==
  /\ status = "PENDING"
  /\ attempt = 0
  /\ cancels = 0
  /\ usage = NoUsage
  /\ log = <<RunEvent("RunStarted")>>
  /\ queue = "free"
  /\ owner = NoWorker
  /\ deliveries = 0
  /\ landed = [k \in Keys |-> 0]

AppendEvent(e) == log' = Append(log, e)

(* set_status: an UPDATE keyed by run_id alone, whatever the status was. *)
SetStatus(s) == status' = s

SaveUsage(u) == usage' = u

RequestCancel ==
  /\ status \notin Terminal
  /\ cancels' = cancels + 1
  /\ AppendEvent(RunEvent("CancelRequested"))
  /\ UNCHANGED <<status, attempt, usage, queueVars, landed>>

(* Mutant: claim() does not take over expired leases. *)
FreeOnlyClaimable == queue = "free"

Claimable == queue \in {"free", "lapsed"}

(* Mutant: claim() does not look at locked_until. *)
GreedyClaimRow(w) ==
  /\ queue # "absent"
  /\ queue' = "held"
  /\ owner' = w
  /\ deliveries' = deliveries + 1

ClaimRow(w) ==
  /\ Claimable
  /\ queue' = "held"
  /\ owner' = w
  /\ deliveries' = deliveries + 1

(* heartbeat(w) extends the lease and answers TRUE exactly in these states. *)
HoldsLease(w) == queue = "held" /\ owner = w

(* Mutant: release() gives the row up by deleting it. *)
DroppingReleaseRow(w) ==
  /\ \/ owner = w /\ queue' = "absent" /\ owner' = NoWorker
     \/ owner # w /\ UNCHANGED <<queue, owner>>
  /\ UNCHANGED deliveries

ReleaseRow(w) ==
  /\ \/ owner = w /\ queue' = "free" /\ owner' = NoWorker
     \/ owner # w /\ UNCHANGED <<queue, owner>>
  /\ UNCHANGED deliveries

DequeueRow ==
  /\ queue' = "absent"
  /\ owner' = NoWorker
  /\ UNCHANGED deliveries

(* The effect of step k happens downstream; a token seen before is dropped. *)
RecordSideEffect(k) ==
  landed' = [landed EXCEPT ![k] = IF k \in Dedup THEN 1 ELSE @ + 1]
=============================================================================
