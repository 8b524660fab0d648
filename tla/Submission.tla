----------------------------- MODULE Submission -----------------------------
(***************************************************************************)
(* What the Store protocol promises of submit_run                          *)
(* (src/anchor/store/__init__.py): however often and however concurrently  *)
(* a client submits under one idempotency key, there is one run for it,    *)
(* and every answer names that run.                                        *)
(*                                                                         *)
(* A request makes up the id of the run it would create, so the request    *)
(* itself stands for that run.  Requests under one key are the retries of  *)
(* a client that saw no answer.                                            *)
(***************************************************************************)
CONSTANTS
  Requests,   \* calls of submit_run
  IdemKeys,   \* idempotency keys
  KeyOf       \* the key each request carries

VARIABLES
  runs,       \* the runs that exist
  enqueued,   \* the runs that have been put in the queue
  answer      \* the run each request was answered with: {} before, {r} after

submissionVars == <<runs, enqueued, answer>>

SameKey(q, r) == KeyOf[q] = KeyOf[r]

SubmissionInit ==
  /\ runs = {}
  /\ enqueued = {}
  /\ answer = [r \in Requests |-> {}]

(* A run is inserted under a key that has none. *)
Register(r) ==
  /\ \A q \in runs : ~SameKey(q, r)
  /\ runs' = runs \cup {r}
  /\ UNCHANGED <<enqueued, answer>>

Enqueue(r) ==
  /\ r \in runs
  /\ enqueued' = enqueued \cup {r}
  /\ UNCHANGED <<runs, answer>>

(* created is TRUE in the answer to the request that made the run. *)
Answer(r) ==
  /\ answer[r] = {}
  /\ \E q \in runs : /\ SameKey(q, r)
                     /\ q = r => r \in enqueued
                     /\ answer' = [answer EXCEPT ![r] = {q}]
  /\ UNCHANGED <<runs, enqueued>>

SubmissionNext == \E r \in Requests : Register(r) \/ Enqueue(r) \/ Answer(r)

SubmissionSpec == SubmissionInit /\ [][SubmissionNext]_submissionVars
=============================================================================
