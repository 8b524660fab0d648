---------------------------- MODULE DynamoStore ----------------------------
(***************************************************************************)
(* One run in the DynamoDB/SQS backend (src/anchor/store/dynamo.py): its   *)
(* META, COUNTER, EVENT# and LEASE# items and its SQS message.  Where      *)
(* PostgresStore has one statement this backend makes several calls; each  *)
(* definition below is what one call reads or writes.                      *)
(*                                                                         *)
(* Reads are eventually consistent.  By the time a lease has lapsed they   *)
(* see all that its holder wrote; before, a query may miss the newest      *)
(* events.  A standard queue may also deliver a message twice at once;     *)
(* that is left out.                                                       *)
(*                                                                         *)
(* save_usage says SET usage = :u.  USAGE is one of DynamoDB's reserved    *)
(* words, and the service refuses an expression with such a name that has  *)
(* no alias, which status, result and error have: its answer is FALSE.     *)
(* With TRUE the modules say what the backend does once the name is        *)
(* aliased, and with both what holds of either.  The counters it writes    *)
(* are the subject of RunContext and Budget and not kept here.             *)
(***************************************************************************)
EXTENDS RunLog, FiniteSets

CONSTANTS
  Workers,
  PageSize,      \* the events that fit in one page of a query
  UsageAnswers   \* what save_usage may meet with: TRUE, the write is accepted

ASSUME StoreAssumption == PageSize \in Nat /\ UsageAnswers \subseteq BOOLEAN

VARIABLES
  counter,    \* COUNTER.seq
  event_seq,  \* META.event_seq
  status, attempt, cancel_requested,   \* META
  events,     \* the EVENT# items by seq
  fresh,      \* the step events a query may still miss
  message,    \* the SQS message: "visible", "inflight" or "deleted"
  receipt,    \* how often it was received: the number of its last handle
  lease       \* receipt_handle of each LEASE# item, 0 when there is none

metaVars == <<event_seq, status, attempt, cancel_requested>>
logVars == <<counter, events, fresh>>
sqsVars == <<message, receipt>>

DynamoStatus == {"PENDING", "RUNNING", "COMPLETED", "FAILED", "CANCELLED"}
Finished == status \in {"COMPLETED", "FAILED", "CANCELLED"}

(* What submit_run has put when it has sent the message, before and after *)
(* it appends its event.                                                   *)
DynamoStoreInit(appended) ==
  /\ counter = Len(appended) /\ event_seq = Len(appended)
  /\ status = "PENDING" /\ attempt = 0 /\ cancel_requested = FALSE
  /\ events = appended /\ fresh = {}
  /\ message = "visible" /\ receipt = 0
  /\ lease = [w \in Workers |-> 0]

-----------------------------------------------------------------------------
(* append_event and load_events *)

(* Mutant: the number is taken from the copy on the run's row. *)
MirroredSeq == event_seq + 1

(* SET seq = seq + :one, RETURN UPDATED_NEW *)
NextSeq == counter + 1

PutEvent(s, e) ==
  /\ events' = [x \in DOMAIN events \cup {s} |-> IF x = s THEN e ELSE events[x]]
  /\ fresh' = IF e.key = NoKey THEN fresh ELSE fresh \cup {s}

Rank(s, S) == Cardinality({x \in S : x <= s})

(* Mutant: only the events the run's row knows of are read. *)
MirroredFirstPage(S) == {s \in S : s <= event_seq}

(* LastEvaluatedKey is not followed. *)
FirstPage(S) == {s \in S : Rank(s, S) <= PageSize}

InOrder(S) == [i \in 1 .. Cardinality(S) |->
                 events[CHOOSE s \in S : Rank(s, S) = i]]

(* What load_events may return. *)
Loadable == {InOrder(FirstPage(DOMAIN events \ missed)) : missed \in SUBSET fresh}

-----------------------------------------------------------------------------
(* SQS.  Of a handle that is not the message's last one the service says   *)
(* only that using it may have no effect.                                  *)

(* Mutant: int() of a lease below a second, without the max. *)
ZeroReceiveMessage ==
  /\ message = "visible"
  /\ receipt' = receipt + 1
  /\ UNCHANGED message

(* Mutant: the message is acknowledged as it is received. *)
AckingReceiveMessage ==
  /\ message = "visible"
  /\ message' = "deleted"
  /\ receipt' = receipt + 1

(* VisibilityTimeout=max(1, int(lease_seconds)) *)
ReceiveMessage ==
  /\ message = "visible"
  /\ message' = "inflight"
  /\ receipt' = receipt + 1

(* change_message_visibility raises unless the message is in flight. *)
ChangesVisibility(handle) ==
  IF message # "inflight" THEN {FALSE}
  ELSE IF handle = receipt THEN {TRUE} ELSE BOOLEAN

DeleteMessage(handle) ==
  \/ message' = "deleted"
  \/ handle # receipt /\ UNCHANGED message

LeaseItems == {w \in Workers : lease[w] # 0}
=============================================================================
