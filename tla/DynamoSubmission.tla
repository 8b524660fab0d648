-------------------------- MODULE DynamoSubmission --------------------------
(***************************************************************************)
(* submit_run of the DynamoDB/SQS backend (src/anchor/store/dynamo.py).    *)
(* Where Postgres has one transaction, it makes a call per item, so that   *)
(* other requests and the death of the process come in between.            *)
(***************************************************************************)
CONSTANTS Requests, IdemKeys, KeyOf

ASSUME RequestsAssumption == KeyOf \in [Requests -> IdemKeys]

VARIABLES
  at,         \* the call each request makes next
  keyItem,    \* the IDEM# item of each key: {} or the run id it holds
  meta,       \* the runs that have their META item
  counter,    \* the runs that have their COUNTER item
  sent,       \* the runs that have been sent to SQS
  started,    \* the runs that have their RunStarted event
  answer      \* the run each request was answered with

items == <<keyItem, meta, counter, sent, started>>
dynamoVars == <<at, items, answer>>

Position ==
  {"put_key", "get_key", "put_meta", "put_counter", "send", "run_started",
   "done", "dead"}

DynamoTypeOK ==
  /\ at \in [Requests -> Position]
  /\ keyItem \in [IdemKeys -> SUBSET Requests]
  /\ meta \subseteq Requests /\ counter \subseteq Requests
  /\ sent \subseteq Requests /\ started \subseteq Requests
  /\ answer \in [Requests -> SUBSET Requests]

DynamoInit ==
  /\ at = [r \in Requests |-> "put_key"]
  /\ keyItem = [k \in IdemKeys |-> {}]
  /\ meta = {} /\ counter = {} /\ sent = {} /\ started = {}
  /\ answer = [r \in Requests |-> {}]

Move(r, from, to) == at[r] = from /\ at' = [at EXCEPT ![r] = to]

(* Mutant: the key is put without its condition. *)
OverwritingPutKey(r) ==
  /\ Move(r, "put_key", "put_meta")
  /\ keyItem' = [keyItem EXCEPT ![KeyOf[r]] = {r}]
  /\ UNCHANGED <<meta, counter, sent, started, answer>>

(* The conditional put: the first request under a key reserves it. *)
PutKey(r) ==
  /\ keyItem[KeyOf[r]] = {}
  /\ Move(r, "put_key", "put_meta")
  /\ keyItem' = [keyItem EXCEPT ![KeyOf[r]] = {r}]
  /\ UNCHANGED <<meta, counter, sent, started, answer>>

KeyTaken(r) ==
  /\ keyItem[KeyOf[r]] # {}
  /\ Move(r, "put_key", "get_key")
  /\ UNCHANGED <<items, answer>>

(* The original run, if get_item finds the items: it reads with eventual   *)
(* consistency and may miss what has just been written.                    *)
ReturnExisting(r) ==
  /\ Move(r, "get_key", "done")
  /\ \E seen \in SUBSET (keyItem[KeyOf[r]] \cap meta) :
       answer' = [answer EXCEPT ![r] = seen]
  /\ UNCHANGED items

PutMeta(r) ==
  /\ Move(r, "put_meta", "put_counter")
  /\ meta' = meta \cup {r}
  /\ UNCHANGED <<keyItem, counter, sent, started, answer>>

(* Mutant: the message is sent first. *)
LatePutCounter(r) ==
  /\ Move(r, "put_counter", "run_started")
  /\ sent' = sent \cup {r}
  /\ UNCHANGED <<keyItem, meta, counter, started, answer>>

PutCounter(r) ==
  /\ Move(r, "put_counter", "send")
  /\ counter' = counter \cup {r}
  /\ UNCHANGED <<keyItem, meta, sent, started, answer>>

(* Mutant: nothing is sent. *)
SilentSendMessage(r) ==
  /\ Move(r, "send", "run_started")
  /\ UNCHANGED <<items, answer>>

SendMessage(r) ==
  /\ Move(r, "send", "run_started")
  /\ sent' = sent \cup {r}
  /\ UNCHANGED <<keyItem, meta, counter, started, answer>>

(* append_event makes three writes, the event's own being the last: a      *)
(* request that dies between them leaves the run without the event.        *)
AppendRunStarted(r) == started' = started \cup {r}

WriteRunStarted(r) ==
  /\ Move(r, "run_started", "done")
  /\ AppendRunStarted(r)
  /\ answer' = [answer EXCEPT ![r] = {r}]
  /\ UNCHANGED <<keyItem, meta, counter, sent>>

(* A call raises or the process dies: what has been written stays. *)
Abort(r) ==
  /\ at[r] \notin {"done", "dead"}
  /\ at' = [at EXCEPT ![r] = "dead"]
  /\ UNCHANGED <<items, answer>>

DynamoNext ==
  \E r \in Requests :
    \/ PutKey(r) \/ KeyTaken(r) \/ ReturnExisting(r) \/ PutMeta(r)
    \/ PutCounter(r) \/ SendMessage(r) \/ WriteRunStarted(r) \/ Abort(r)

DynamoSpec == DynamoInit /\ [][DynamoNext]_dynamoVars

-----------------------------------------------------------------------------
Promise == INSTANCE Submission WITH runs <- meta, enqueued <- sent

(* submit_run of this backend keeps the protocol's promise about runs and  *)
(* answers: one run per key, every answer names it, and created = True is  *)
(* only answered for a run that is in the queue, whatever interleaving of  *)
(* requests and whichever of them die half-way.                            *)
KeepsPromise == Promise!SubmissionSpec

(* A worker that receives the message finds the run and the counter that   *)
(* its first append_event increments, as the order of the puts ensures.    *)
DeliveredIsComplete == sent \subseteq meta \cap counter

(* A run that a client was told of is in the queue when every request has  *)
(* ended, unless the request that made it has died: nothing but a death    *)
(* between its puts and its message leaves a run that nobody will execute. *)
LostOnlyByDeath ==
  (\A r \in Requests : at[r] \in {"done", "dead"}) =>
    \A r \in Requests : answer[r] \subseteq sent \cup {q \in Requests : at[q] = "dead"}
=============================================================================
