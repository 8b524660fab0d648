----------------------- MODULE DynamoSubmissionProofs -----------------------
(***************************************************************************)
(* submit_run of the DynamoDB backend implements Submission, for any       *)
(* number of requests and keys.                                            *)
(***************************************************************************)
EXTENDS DynamoSubmission, TLAPS

(* The calls of a request that won its key. *)
Creating == {"put_meta", "put_counter", "send", "run_started"}

(* A key is held by one request under it, for good; a request that creates *)
(* a run, and every run there is, holds its key.                           *)
KeyHeld ==
  /\ \A k \in IdemKeys : \A q, r \in keyItem[k] : q = r /\ KeyOf[r] = k
  /\ \A r \in Requests : at[r] \in Creating => r \in keyItem[KeyOf[r]]
  /\ \A r \in meta : r \in keyItem[KeyOf[r]]

(* What a request has written by the time it makes its next call. *)
WrittenSoFar ==
  \A r \in Requests :
    /\ at[r] \in {"put_key", "get_key"} => r \notin keyItem[KeyOf[r]]
    /\ at[r] = "put_meta" => r \notin meta
    /\ at[r] \in {"put_counter", "send", "run_started"} => r \in meta
    /\ at[r] \in {"send", "run_started"} => r \in counter
    /\ at[r] = "run_started" => r \in sent
    /\ at[r] # "done" => answer[r] = {}

(* The inductive invariant. *)
SubmitInv == DynamoTypeOK /\ KeyHeld /\ WrittenSoFar /\ DeliveredIsComplete

(* Before the first request nothing is written. *)
LEMMA SubmitInvInit == DynamoInit => SubmitInv
  BY RequestsAssumption
  DEF DynamoInit, SubmitInv, DynamoTypeOK, KeyHeld, WrittenSoFar, DeliveredIsComplete,
      Position, Creating

(* Every call of every request keeps the invariant. *)
LEMMA SubmitInvNext == SubmitInv /\ [DynamoNext]_dynamoVars => SubmitInv'
  <1> SUFFICES ASSUME SubmitInv, [DynamoNext]_dynamoVars PROVE SubmitInv'
    OBVIOUS
  <1> USE RequestsAssumption
  <1> USE DEF SubmitInv, DynamoTypeOK, KeyHeld, WrittenSoFar, DeliveredIsComplete,
              Position, Creating, Move, items
  <1>1. CASE UNCHANGED dynamoVars
    BY <1>1 DEF dynamoVars
  <1>2. ASSUME NEW r \in Requests, PutKey(r) PROVE SubmitInv'
    BY <1>2 DEF PutKey
  <1>3. ASSUME NEW r \in Requests, KeyTaken(r) PROVE SubmitInv'
    BY <1>3 DEF KeyTaken
  <1>4. ASSUME NEW r \in Requests, ReturnExisting(r) PROVE SubmitInv'
    BY <1>4 DEF ReturnExisting
  <1>5. ASSUME NEW r \in Requests, PutMeta(r) PROVE SubmitInv'
    BY <1>5 DEF PutMeta
  <1>6. ASSUME NEW r \in Requests, PutCounter(r) PROVE SubmitInv'
    BY <1>6 DEF PutCounter
  <1>7. ASSUME NEW r \in Requests, SendMessage(r) PROVE SubmitInv'
    BY <1>7 DEF SendMessage
  <1>8. ASSUME NEW r \in Requests, WriteRunStarted(r) PROVE SubmitInv'
    BY <1>8 DEF WriteRunStarted, AppendRunStarted
  <1>9. ASSUME NEW r \in Requests, Abort(r) PROVE SubmitInv'
    BY <1>9 DEF Abort
  <1> QED
    BY <1>1, <1>2, <1>3, <1>4, <1>5, <1>6, <1>7, <1>8, <1>9 DEF DynamoNext

(* Every call is a step of the promise, or none. *)
LEMMA SubmitStep ==
  SubmitInv /\ [DynamoNext]_dynamoVars
    => [Promise!SubmissionNext]_(Promise!submissionVars)
  <1> SUFFICES ASSUME SubmitInv, [DynamoNext]_dynamoVars
               PROVE  [Promise!SubmissionNext]_(Promise!submissionVars)
    OBVIOUS
  <1> USE RequestsAssumption
  <1> USE DEF Move, items, Promise!submissionVars
  <1>1. CASE UNCHANGED dynamoVars
    BY <1>1 DEF dynamoVars
  <1>2. ASSUME NEW r \in Requests,
               PutKey(r) \/ KeyTaken(r) \/ PutCounter(r) \/ Abort(r)
        PROVE  UNCHANGED Promise!submissionVars
    BY <1>2 DEF PutKey, KeyTaken, PutCounter, Abort
  <1>3. ASSUME NEW r \in Requests, PutMeta(r) PROVE Promise!Register(r)
    BY <1>3 DEF PutMeta, Promise!Register, Promise!SameKey, SubmitInv, DynamoTypeOK,
                KeyHeld, WrittenSoFar, Creating
  <1>4. ASSUME NEW r \in Requests, SendMessage(r) PROVE Promise!Enqueue(r)
    BY <1>4 DEF SendMessage, Promise!Enqueue, SubmitInv, WrittenSoFar
  <1>5. ASSUME NEW r \in Requests, WriteRunStarted(r) PROVE Promise!Answer(r)
    BY <1>5 DEF WriteRunStarted, AppendRunStarted, Promise!Answer,
                Promise!SameKey, SubmitInv, DynamoTypeOK, WrittenSoFar
  <1>6. ASSUME NEW r \in Requests, ReturnExisting(r)
        PROVE  Promise!Answer(r) \/ UNCHANGED Promise!submissionVars
    <2>1. PICK seen \in SUBSET (keyItem[KeyOf[r]] \cap meta) :
            answer' = [answer EXCEPT ![r] = seen]
      BY <1>6 DEF ReturnExisting
    <2>2. UNCHANGED <<meta, sent>> /\ at[r] = "get_key"
      BY <1>6 DEF ReturnExisting
    <2>3. answer[r] = {} /\ r \notin seen
      BY <2>1, <2>2 DEF SubmitInv, WrittenSoFar
    <2>4. CASE seen = {}
      BY <2>1, <2>2, <2>3, <2>4 DEF SubmitInv, DynamoTypeOK
    <2>5. ASSUME NEW q \in seen PROVE Promise!Answer(r)
      <3>1. seen = {q} /\ KeyOf[q] = KeyOf[r]
        BY <2>1, <2>5 DEF SubmitInv, DynamoTypeOK, KeyHeld
      <3> QED
        BY <2>1, <2>2, <2>3, <3>1 DEF Promise!Answer, Promise!SameKey
    <2> QED
      BY <2>4, <2>5
  <1> QED
    BY <1>1, <1>2, <1>3, <1>4, <1>5, <1>6 DEF DynamoNext, Promise!SubmissionNext

(* DynamoDBStore.submit_run keeps the promise of the Store protocol about  *)
(* runs and answers: one run per idempotency key and every answer names    *)
(* it, for any interleaving and any death of requests.                     *)
THEOREM SubmissionKept == DynamoSpec => KeepsPromise
  <1>1. DynamoInit => Promise!SubmissionInit
    BY DEF DynamoInit, Promise!SubmissionInit
  <1> QED
    BY <1>1, SubmitInvInit, SubmitInvNext, SubmitStep, PTL
    DEF DynamoSpec, KeepsPromise, Promise!SubmissionSpec

(* A message in the queue names a run whose items a worker will find. *)
THEOREM DeliveriesComplete == DynamoSpec => []DeliveredIsComplete
  <1>1. SubmitInv => DeliveredIsComplete
    BY DEF SubmitInv
  <1> QED
    BY <1>1, SubmitInvInit, SubmitInvNext, PTL DEF DynamoSpec

(* The answers name runs that exist, and a request that made a run has     *)
(* sent it by the time it is done.                                         *)
MadeAndSent ==
  /\ \A r \in Requests : answer[r] \subseteq meta
  /\ \A q \in meta : at[q] \in {"put_counter", "send", "run_started", "done", "dead"}
  /\ \A q \in meta : at[q] = "done" => q \in sent

(* LostOnlyByDeath: when all requests have ended, a run that some client   *)
(* was told of and that is not in the queue was made by one that has died. *)
THEOREM OnlyDeathLoses == DynamoSpec => []LostOnlyByDeath
  <1>1. DynamoInit => MadeAndSent
    BY DEF DynamoInit, MadeAndSent
  <1>2. ASSUME SubmitInv, MadeAndSent, [DynamoNext]_dynamoVars PROVE MadeAndSent'
    <2> USE <1>2, RequestsAssumption
    <2> USE DEF SubmitInv, DynamoTypeOK, KeyHeld, WrittenSoFar, Creating, MadeAndSent, Move, items
    <2>1. CASE UNCHANGED dynamoVars
      BY <2>1 DEF dynamoVars
    <2>2. ASSUME NEW r \in Requests, PutKey(r) \/ KeyTaken(r) \/ Abort(r) PROVE MadeAndSent'
      BY <2>2 DEF PutKey, KeyTaken, Abort
    <2>3. ASSUME NEW r \in Requests, ReturnExisting(r) PROVE MadeAndSent'
      BY <2>3 DEF ReturnExisting
    <2>4. ASSUME NEW r \in Requests, PutMeta(r) \/ PutCounter(r) PROVE MadeAndSent'
      BY <2>4 DEF PutMeta, PutCounter
    <2>5. ASSUME NEW r \in Requests, SendMessage(r) \/ WriteRunStarted(r) PROVE MadeAndSent'
      BY <2>5 DEF SendMessage, WriteRunStarted, AppendRunStarted
    <2> QED
      BY <2>1, <2>2, <2>3, <2>4, <2>5 DEF DynamoNext
  <1>3. SubmitInv /\ MadeAndSent => LostOnlyByDeath
    BY DEF SubmitInv, DynamoTypeOK, MadeAndSent, LostOnlyByDeath
  <1>4. SubmitInv /\ MadeAndSent /\ [DynamoNext]_dynamoVars => (SubmitInv /\ MadeAndSent)'
    BY <1>2, SubmitInvNext
  <1> QED
    BY <1>1, <1>3, <1>4, SubmitInvInit, PTL DEF DynamoSpec
=============================================================================
