-------------------------- MODULE DynamoRunProofs --------------------------
(***************************************************************************)
(* What the DynamoDB/SQS backend keeps for any number of workers, steps,   *)
(* deliveries and faults.                                                  *)
(***************************************************************************)
EXTENDS DynamoRun, RunLogProofs

(* Where a process can be. *)
Stages ==
  {"idle", "down", "query_leases", "purge_leases", "get_run", "bump_attempt",
   "set_running", "load_events", "boundary", "check_cancel", "invoke",
   "save_usage", "take_seq", "mirror_seq", "put_event", "set_flag",
   "completed_usage", "failed_usage", "set_completed", "set_cancelled",
   "set_failed", "query_lease", "delete_message", "delete_lease", "release"}

(* A result comes with every StepCompleted; no step with RunResumed. *)
Complete(e) ==
  /\ e \in Event
  /\ e.type = "StepCompleted" => e.val # {}
  /\ e.type = "RunResumed" => e.key = NoKey

(* What the variables hold. *)
DynamoTypes ==
  /\ counter \in Nat
  /\ pc \in [Procs -> Stages]
  /\ adding \in [Procs -> [event: Event, number: Nat]]
  /\ ctx \in [Workers -> [key: Keys \cup {NoKey}, memo: SUBSET (Keys \cup {NoKey}),
                          unresolved: SUBSET Keys]]
  /\ \A p \in Procs : Complete(adding[p].event)
  /\ \A s \in DOMAIN events : Complete(events[s])

(* A process that has taken a number has not put its event yet. *)
Stamped(p) == pc[p] \in {"mirror_seq", "put_event"}

(* Numbers come from the counter: those of the events and those that are   *)
(* still to be used are all different.                                     *)
NumbersApart ==
  /\ DOMAIN events \subseteq 1 .. counter
  /\ \A p \in Procs : Stamped(p) =>
       adding[p].number \in (1 .. counter) \ DOMAIN events
  /\ \A p, q \in Procs : Stamped(p) /\ Stamped(q) /\ p # q =>
       adding[p].number # adding[q].number

(* A worker between get_run and its verdict. *)
Open(w) ==
  pc[w] \in {"bump_attempt", "take_seq", "mirror_seq", "put_event", "set_running",
             "load_events", "boundary", "check_cancel", "invoke", "save_usage",
             "completed_usage", "failed_usage",
             "set_completed", "set_cancelled", "set_failed"}

(* One worker is at work, on a message that is not visible, and between    *)
(* get_run and its verdict the run is not finished.                        *)
OneAtWork ==
  /\ \A v, w \in Workers : Active(v) /\ Active(w) => v = w
  /\ \A w \in Workers : Active(w) => message # "visible"
  /\ \A w \in Workers : Open(w) => ~Finished

(* A process in the course of an append of one of these types. *)
Appends(p, types) ==
  /\ pc[p] \in {"take_seq", "mirror_seq", "put_event"}
  /\ adding[p].event.type \in types

(* A worker that has not loaded the log yet. *)
Loading(w) ==
  \/ pc[w] \in {"query_leases", "purge_leases", "get_run", "bump_attempt",
                "set_running", "load_events"}
  \/ Appends(w, {"RunResumed"})

(* A worker inside a step. *)
InStep(w) ==
  \/ pc[w] \in {"check_cancel", "invoke"}
  \/ Appends(w, {"StepStarted", "StepRetried", "StepCompleted"})

(* A worker between two steps. *)
Between(w) == pc[w] \in {"boundary", "save_usage"}

(* The requests that append beside the workers append no step events. *)
ClientsAside ==
  \A p \in Procs \ Workers : adding[p].event.key = NoKey
                             /\ adding[p].event.type # "StepCompleted"

(* Whoever loads the log finds it settled; whoever has loaded it knows all *)
(* the outcomes there are, and is in a step that has none.                 *)
KnowsOutcomes ==
  ~partial =>
    /\ \A s \in DOMAIN events :
         events[s].type = "StepCompleted" => events[s].key \in Keys
    /\ message = "visible" => fresh = {}
    /\ \A w \in Workers :
         /\ Loading(w) => fresh = {}
         /\ InStep(w) \/ Between(w) =>
              \A s \in DOMAIN events :
                events[s].type = "StepCompleted" => events[s].key \in ctx[w].memo
         /\ InStep(w) => ctx[w].key \in Keys \ ctx[w].memo
         /\ Appends(w, {"StepCompleted"}) => adding[w].event.key = ctx[w].key

(* The inductive invariant. *)
DynamoInv ==
  DynamoTypes /\ NumbersApart /\ OneAtWork /\ ClientsAside /\ KnowsOutcomes /\ OneOutcome

-----------------------------------------------------------------------------
(* Clients are no workers, and workers and clients are processes. *)
LEMMA ProcFacts ==
  /\ Workers \subseteq Procs
  /\ Submitter \in Procs \ Workers /\ Canceller \in Procs \ Workers
  BY DynamoRunAssumption DEF Procs

(* The events that processes append are complete ones. *)
LEMMA EventFacts ==
  /\ \A y \in EventType \ {"StepCompleted"} :
       Complete(RunEvent(y)) /\ RunEvent(y).type = y /\ RunEvent(y).key = NoKey
  /\ \A y \in EventType \ {"StepCompleted", "RunResumed"}, k \in Keys \cup {NoKey} :
       Complete(StepEvent(y, k)) /\ StepEvent(y, k).type = y
  /\ \A k \in Keys \cup {NoKey}, v \in Results :
       /\ Complete(CompletedEvent(k, v))
       /\ CompletedEvent(k, v).type = "StepCompleted" /\ CompletedEvent(k, v).key = k
  <1>1. \A y \in EventType \ {"StepCompleted"} :
          Complete(RunEvent(y)) /\ RunEvent(y).type = y /\ RunEvent(y).key = NoKey
    BY DEF Complete, RunEvent, Event
  <1>2. \A y \in EventType \ {"StepCompleted", "RunResumed"}, k \in Keys \cup {NoKey} :
          Complete(StepEvent(y, k)) /\ StepEvent(y, k).type = y
    BY DEF Complete, StepEvent, Event
  <1>3. \A k \in Keys \cup {NoKey}, v \in Results :
          /\ Complete(CompletedEvent(k, v))
          /\ CompletedEvent(k, v).type = "StepCompleted" /\ CompletedEvent(k, v).key = k
    BY DEF Complete, CompletedEvent, Event, EventType
  <1> QED
    BY <1>1, <1>2, <1>3

(* The first state. *)
LEMMA DynamoStart == DynamoRunInit => DynamoInv
  <1> SUFFICES ASSUME DynamoRunInit PROVE DynamoInv
    OBVIOUS
  <1>1. PICK requests \in SUBSET {Submitter, Canceller} :
          /\ pc = [p \in Procs |-> CASE p \in Workers -> "idle"
                                     [] p \in requests \ {Canceller} -> "take_seq"
                                     [] p \in requests \ {Submitter} -> "set_flag"
                                     [] OTHER -> "down"]
          /\ DynamoStoreInit(IF Submitter \in requests THEN <<>>
                                                       ELSE <<RunEvent("RunStarted")>>)
    BY DEF DynamoRunInit
  <1>2. /\ adding = [p \in Procs |-> NoEvent]
        /\ ctx = [w \in Workers |-> NoContext] /\ partial = FALSE
    BY DEF DynamoRunInit
  <1>3. /\ Complete(RunEvent("RunStarted"))
        /\ RunEvent("RunStarted").type = "RunStarted"
        /\ RunEvent("RunStarted").key = NoKey
    BY EventFacts DEF EventType
  <1>4. /\ counter \in Nat /\ DOMAIN events \subseteq 1 .. counter
        /\ \A s \in DOMAIN events : events[s] = RunEvent("RunStarted")
        /\ fresh = {} /\ status = "PENDING"
    <2>1. CASE Submitter \in requests
      BY <1>1, <2>1 DEF DynamoStoreInit
    <2>2. CASE Submitter \notin requests
      BY <1>1, <2>2 DEF DynamoStoreInit
    <2> QED
      BY <2>1, <2>2
  <1>5. pc \in [Procs -> Stages] /\ \A p \in Procs : ~Stamped(p)
    BY <1>1 DEF Stages, Stamped
  <1>6. \A w \in Workers : pc[w] = "idle"
    BY <1>1, ProcFacts
  <1>7. /\ NoEvent \in [event: Event, number: Nat]
        /\ NoEvent.event = RunEvent("RunStarted")
        /\ NoContext \in [key: Keys \cup {NoKey}, memo: SUBSET (Keys \cup {NoKey}),
                          unresolved: SUBSET Keys]
    BY <1>3 DEF NoEvent, NoContext, Complete
  <1>8. DynamoTypes
    BY <1>2, <1>3, <1>4, <1>5, <1>7 DEF DynamoTypes
  <1>9. NumbersApart /\ ClientsAside
    BY <1>2, <1>3, <1>4, <1>5, <1>7 DEF NumbersApart, ClientsAside
  <1>10. OneAtWork
    BY <1>6 DEF OneAtWork, Active, Open
  <1>11. KnowsOutcomes /\ OneOutcome
    BY <1>3, <1>4, <1>6 DEF KnowsOutcomes, OneOutcome, Loading, InStep, Between, Appends
  <1> QED
    BY <1>8, <1>9, <1>10, <1>11 DEF DynamoInv

(* A step of a worker that writes no event: what has to be seen to, for    *)
(* the invariant to stay.                                                  *)
LEMMA WorkerMoves ==
  ASSUME DynamoInv, DynamoTypes', NEW w \in Workers,
         counter' = counter, events' = events, fresh' = fresh,
         \A p \in Procs \ {w} : pc'[p] = pc[p] /\ adding'[p] = adding[p],
         \A v \in Workers \ {w} : ctx'[v] = ctx[v],
         ~Stamped(w)',
         Active(w)' => Active(w),
         message' = "visible" => message = "visible" \/ (Active(w) /\ ~Active(w)'),
         (Finished' <=> Finished) \/ Active(w),
         Open(w)' => ~Finished',
         ~partial' =>
           /\ ~partial
           /\ message' = "visible" => message = "visible"
           /\ Loading(w)' => Loading(w)
           /\ InStep(w)' \/ Between(w)' =>
                \A s \in DOMAIN events :
                  events[s].type = "StepCompleted" => events[s].key \in ctx'[w].memo
           /\ InStep(w)' => ctx'[w].key \in Keys \ ctx'[w].memo
           /\ Appends(w, {"StepCompleted"})' => adding'[w].event.key = ctx'[w].key
  PROVE  DynamoInv'
  <1> USE DEF DynamoInv
  <1>1. NumbersApart'
    <2>1. \A p \in Procs : Stamped(p)' => Stamped(p) /\ adding'[p] = adding[p]
      BY DEF Stamped
    <2> QED
      BY <2>1 DEF NumbersApart
  <1>2. OneAtWork'
    <2>1. \A v \in Workers \ {w} : /\ Active(v)' <=> Active(v)
                                   /\ Open(v)' <=> Open(v)
      BY ProcFacts DEF Active, Open
    <2>2. \A v \in Workers : Active(v)' => Active(v)
      BY <2>1
    <2>3. \A v \in Workers : Active(v)' => message' # "visible"
      BY <2>1, <2>2 DEF OneAtWork
    <2>4. \A v \in Workers : Open(v) => Active(v)
      BY DEF Open, Active
    <2>5. \A v \in Workers : Open(v)' => ~Finished'
      BY <2>1, <2>4 DEF OneAtWork
    <2> QED
      BY <2>2, <2>3, <2>5 DEF OneAtWork
  <1>3. ClientsAside'
    BY DEF ClientsAside
  <1>4. OneOutcome'
    BY DEF OneOutcome
  <1>5. KnowsOutcomes'
    <2> SUFFICES ASSUME ~partial' PROVE KnowsOutcomes'
      BY DEF KnowsOutcomes
    <2>1. \A v \in Workers \ {w} :
            /\ Loading(v)' <=> Loading(v)
            /\ InStep(v)' <=> InStep(v)
            /\ pc'[v] = pc[v] /\ adding'[v] = adding[v]
            /\ Appends(v, {"StepCompleted"})' <=> Appends(v, {"StepCompleted"})
      BY ProcFacts DEF Loading, InStep, Between, Appends
    <2>2. \A v \in Workers \ {w} :
            /\ Loading(v)' => fresh' = {}
            /\ InStep(v)' \/ Between(v)' =>
                 \A s \in DOMAIN events' :
                   events'[s].type = "StepCompleted" => events'[s].key \in ctx'[v].memo
            /\ InStep(v)' => ctx'[v].key \in Keys \ ctx'[v].memo
            /\ Appends(v, {"StepCompleted"})' => adding'[v].event.key = ctx'[v].key
      BY <2>1 DEF KnowsOutcomes, Between
    <2>3. Loading(w)' => fresh' = {}
      BY DEF KnowsOutcomes
    <2>4. message' = "visible" => fresh' = {}
      BY DEF KnowsOutcomes
    <2>5. \A s \in DOMAIN events' :
            events'[s].type = "StepCompleted" => events'[s].key \in Keys
      BY DEF KnowsOutcomes
    <2> QED
      BY <2>2, <2>3, <2>4, <2>5 DEF KnowsOutcomes
  <1> QED
    BY <1>1, <1>2, <1>3, <1>4, <1>5


-----------------------------------------------------------------------------
(* A task ends, or its process. *)
LEMMA LeaveKeeps ==
  ASSUME DynamoInv, NEW w \in Workers, NEW there \in {"idle", "down"}, Leave(w, there),
         UNCHANGED <<logVars, status>>,
         message' = "visible" => message = "visible" \/ Active(w),
         ~partial' => ~partial /\ message' = message
  PROVE  DynamoInv'
  <1> USE DEF DynamoInv
  <1>1. w \in Procs
    BY ProcFacts
  <1>2. pc' \in [Procs -> Stages] /\ pc'[w] = there
    BY <1>1 DEF Leave, Go, DynamoTypes, Stages
  <1>3. /\ NoEvent \in [event: Event, number: Nat] /\ Complete(NoEvent.event)
        /\ NoContext \in [key: Keys \cup {NoKey}, memo: SUBSET (Keys \cup {NoKey}),
                          unresolved: SUBSET Keys]
    <2>1. Complete(RunEvent("RunStarted"))
      BY EventFacts DEF EventType
    <2> QED
      BY <2>1 DEF NoEvent, NoContext, Complete
  <1>4. DynamoTypes'
    BY <1>1, <1>2, <1>3 DEF DynamoTypes, Leave, logVars
  <1>5. /\ \A p \in Procs \ {w} : pc'[p] = pc[p] /\ adding'[p] = adding[p]
        /\ \A v \in Workers \ {w} : ctx'[v] = ctx[v]
    BY DEF Leave, Go, DynamoTypes
  <1>6. ~Stamped(w)' /\ ~Active(w)' /\ ~Open(w)' /\ ~Loading(w)' /\ ~InStep(w)'
    BY <1>2 DEF Stamped, Active, Open, Loading, InStep, Between, Appends
  <1>7. ~Appends(w, {"StepCompleted"})' /\ ~Between(w)'
    BY <1>2 DEF Appends, Between
  <1>8. /\ counter' = counter /\ events' = events /\ fresh' = fresh
        /\ Finished' <=> Finished
    BY DEF logVars, Finished
  <1> QED
    BY <1>4, <1>5, <1>6, <1>7, <1>8, WorkerMoves

(* An attempt begins to append an event. *)
LEMMA BeginKeeps ==
  ASSUME DynamoInv, NEW w \in Workers, NEW e, Complete(e), BeginAppend(w, e), Open(w),
         e.type = "RunResumed" => Loading(w),
         e.type \in {"StepStarted", "StepRetried", "StepCompleted"} => InStep(w),
         e.type = "StepCompleted" => e.key = ctx[w].key,
         UNCHANGED <<logVars, status, ctx, message, partial>>
  PROVE  DynamoInv'
  <1> USE DEF DynamoInv
  <1>1. w \in Procs
    BY ProcFacts
  <1>2. /\ pc' \in [Procs -> Stages] /\ pc'[w] = "take_seq"
        /\ \A p \in Procs \ {w} : pc'[p] = pc[p]
    BY <1>1 DEF BeginAppend, Go, DynamoTypes, Stages
  <1>3. /\ adding' \in [Procs -> [event: Event, number: Nat]]
        /\ adding'[w].event = e
        /\ \A p \in Procs \ {w} : adding'[p] = adding[p]
    <2>1. /\ [NoEvent EXCEPT !.event = e] \in [event: Event, number: Nat]
          /\ [NoEvent EXCEPT !.event = e].event = e
      BY DEF NoEvent, Complete
    <2> QED
      BY <1>1, <2>1 DEF BeginAppend, DynamoTypes
  <1>4. DynamoTypes'
    BY <1>2, <1>3 DEF DynamoTypes, logVars
  <1>5. ~Stamped(w)' /\ ~Between(w)' /\ Active(w)
    BY <1>2 DEF Stamped, Active, Open, Between
  <1>6. ~Finished'
    BY DEF OneAtWork, Finished
  <1>7. /\ Loading(w)' => Loading(w)
        /\ InStep(w)' => InStep(w)
        /\ Appends(w, {"StepCompleted"})' => adding'[w].event.key = ctx'[w].key
    BY <1>2, <1>3 DEF Loading, InStep, Between, Appends
  <1>8. counter' = counter /\ events' = events /\ fresh' = fresh
    BY DEF logVars
  <1>9. ~partial' =>
          /\ InStep(w)' => \A s \in DOMAIN events :
               events[s].type = "StepCompleted" => events[s].key \in ctx'[w].memo
          /\ InStep(w)' => ctx'[w].key \in Keys \ ctx'[w].memo
    BY <1>7 DEF KnowsOutcomes
  <1>10. /\ \A v \in Workers \ {w} : ctx'[v] = ctx[v]
         /\ message' = message /\ (~partial' => ~partial)
    OBVIOUS
  <1> HIDE DEF DynamoInv
  <1> QED
    BY <1>2, <1>3, <1>4, <1>5, <1>6, <1>7, <1>8, <1>9, <1>10, WorkerMoves

(* A worker goes on to another call and keeps its locals. *)
LEMMA GoKeeps ==
  ASSUME DynamoInv, NEW w \in Workers, Active(w),
         NEW there \in {"purge_leases", "get_run", "bump_attempt", "set_running",
                        "load_events", "query_lease", "delete_message",
                        "delete_lease", "release"},
         pc' = [pc EXCEPT ![w] = there],
         UNCHANGED <<logVars, adding, ctx, partial>>,
         message' = "visible" => message = "visible",
         there \in {"bump_attempt", "set_running", "load_events"} => ~Finished',
         there \in {"purge_leases", "get_run", "bump_attempt", "set_running",
                    "load_events"} => Loading(w)
  PROVE  DynamoInv'
  <1> USE DEF DynamoInv
  <1>1. w \in Procs
    BY ProcFacts
  <1>2. /\ pc' \in [Procs -> Stages] /\ pc'[w] = there
        /\ \A p \in Procs \ {w} : pc'[p] = pc[p]
    BY <1>1 DEF DynamoTypes, Stages
  <1>3. DynamoTypes'
    BY <1>2 DEF DynamoTypes, logVars
  <1>4. ~Stamped(w)' /\ ~InStep(w)' /\ ~Between(w)'
    BY <1>2 DEF Stamped, InStep, Between, Appends
  <1>5. ~Appends(w, {"StepCompleted"})'
    BY <1>2 DEF Appends
  <1>6. Open(w)' => ~Finished'
    BY <1>2 DEF Open
  <1>7. Loading(w)' => Loading(w)
    BY <1>2 DEF Loading, Appends
  <1>8. counter' = counter /\ events' = events /\ fresh' = fresh
    BY DEF logVars
  <1>9. /\ \A p \in Procs \ {w} : adding'[p] = adding[p]
        /\ \A v \in Workers \ {w} : ctx'[v] = ctx[v]
        /\ ~partial' => ~partial
    OBVIOUS
  <1> HIDE DEF DynamoInv
  <1>10. ~partial' =>
           /\ ~partial
           /\ message' = "visible" => message = "visible"
           /\ Loading(w)' => Loading(w)
           /\ InStep(w)' \/ Between(w)' =>
                \A s \in DOMAIN events :
                  events[s].type = "StepCompleted" => events[s].key \in ctx'[w].memo
           /\ InStep(w)' => ctx'[w].key \in Keys \ ctx'[w].memo
           /\ Appends(w, {"StepCompleted"})' => adding'[w].event.key = ctx'[w].key
    BY <1>4, <1>5, <1>7, <1>9
  <1>11. \A p \in Procs \ {w} : pc'[p] = pc[p] /\ adding'[p] = adding[p]
    BY <1>2, <1>9
  <1> QED
    BY <1>3, <1>4, <1>6, <1>8, <1>9, <1>10, <1>11, WorkerMoves

(* The calls of a claim. *)
LEMMA ClaimKeeps ==
  ASSUME DynamoInv, NEW w \in Workers, ClaimStep(w)
  PROVE  DynamoInv'
  <1>1. pc[w] \in {"query_leases", "purge_leases"}
    BY DEF ClaimStep, QueryLeases, PurgeLease, PutLease, Here
  <1>2. Active(w) /\ Loading(w)
    BY <1>1 DEF Active, Loading
  <1>3. pc \in [Procs -> Stages] /\ w \in Procs
    BY ProcFacts DEF DynamoInv, DynamoTypes
  <1>4. /\ UNCHANGED <<logVars, adding, ctx, partial>> /\ message' = message
    BY DEF ClaimStep, QueryLeases, PurgeLease, PutLease, sqsVars
  <1>5. \/ pc' = [pc EXCEPT ![w] = "purge_leases"]
        \/ pc' = [pc EXCEPT ![w] = "get_run"]
    BY <1>3 DEF ClaimStep, QueryLeases, PurgeLease, PutLease, Go, Here
  <1> QED
    BY <1>2, <1>4, <1>5, GoKeeps

(* The calls of an attempt that touch the run's row. *)
LEMMA RowKeeps ==
  ASSUME DynamoInv, NEW w \in Workers, GetRun(w) \/ SetRunning(w) \/ SetTerminal(w)
  PROVE  DynamoInv'
  <1>1. CASE GetRun(w)
    <2>1. Active(w) /\ Loading(w)
      BY <1>1 DEF GetRun, Here, Active, Loading
    <2>2. UNCHANGED <<logVars, adding, ctx, partial, status, message>>
      BY <1>1 DEF GetRun, metaVars, sqsVars
    <2>3. CASE Finished
      <3>1. pc' = [pc EXCEPT ![w] = "query_lease"]
        BY <1>1, <2>3 DEF GetRun, Go
      <3> QED
        BY <2>1, <2>2, <3>1, GoKeeps
    <2>4. CASE ~Finished
      <3>1. pc' = [pc EXCEPT ![w] = "bump_attempt"] /\ ~Finished'
        BY <1>1, <2>2, <2>4 DEF GetRun, Go, Finished
      <3> QED
        BY <2>1, <2>2, <3>1, GoKeeps
    <2> QED
      BY <2>3, <2>4
  <1>2. CASE SetRunning(w)
    <2>1. Active(w) /\ Loading(w)
      BY <1>2 DEF SetRunning, Here, Active, Loading
    <2>2. /\ UNCHANGED <<logVars, adding, ctx, partial, message>> /\ ~Finished'
          /\ pc' = [pc EXCEPT ![w] = "load_events"]
      BY <1>2 DEF SetRunning, Go, sqsVars, Finished
    <2> QED
      BY <2>1, <2>2, GoKeeps
  <1>3. CASE SetTerminal(w)
    <2>1. Active(w)
      BY <1>3 DEF SetTerminal, Here, Active
    <2>2. /\ UNCHANGED <<logVars, adding, ctx, partial, message>>
          /\ pc' = [pc EXCEPT ![w] = "query_lease"]
      BY <1>3 DEF SetTerminal, Go, sqsVars
    <2> QED
      BY <2>1, <2>2, GoKeeps
  <1> QED
    BY <1>1, <1>2, <1>3

(* A new attempt: RunResumed, if it is not the first. *)
LEMMA BumpKeeps ==
  ASSUME DynamoInv, NEW w \in Workers, BumpAttempt(w)
  PROVE  DynamoInv'
  <1>1. Active(w) /\ Loading(w) /\ Open(w)
    BY DEF BumpAttempt, Here, Active, Loading, Open
  <1>2. UNCHANGED <<logVars, ctx, partial, status, message>>
    BY DEF BumpAttempt, sqsVars
  <1>3. ~Finished'
    BY <1>1, <1>2 DEF DynamoInv, OneAtWork, Finished
  <1>4. CASE BeginAppend(w, RunEvent("RunResumed"))
    <2>1. Complete(RunEvent("RunResumed")) /\ RunEvent("RunResumed").type = "RunResumed"
      BY EventFacts DEF EventType
    <2> QED
      BY <1>1, <1>2, <1>4, <2>1, BeginKeeps
  <1>5. CASE Go(w, "set_running") /\ UNCHANGED adding
    BY <1>1, <1>2, <1>3, <1>5, GoKeeps DEF Go
  <1> QED
    BY <1>4, <1>5 DEF BumpAttempt


-----------------------------------------------------------------------------
(* The ranks of the elements of a finite set of numbers are 1, 2, ..., its *)
(* cardinality, each of them once.                                         *)
LEMMA RankFacts ==
  ASSUME NEW S \in SUBSET Nat, IsFiniteSet(S)
  PROVE  /\ \A s \in S : Rank(s, S) \in 1 .. Cardinality(S)
         /\ \A s, u \in S : Rank(s, S) = Rank(u, S) => s = u
         /\ \A i \in 1 .. Cardinality(S) : \E s \in S : Rank(s, S) = i
  <1> DEFINE Below(s) == {x \in S : x <= s}
             f == [s \in S |-> Rank(s, S)]
             n == Cardinality(S)
  <1>1. n \in Nat
    BY FS_CardinalityType
  <1>2. ASSUME NEW s \in S
        PROVE  /\ IsFiniteSet(Below(s)) /\ Rank(s, S) = Cardinality(Below(s))
               /\ Rank(s, S) \in 1 .. n
    <2>1. Below(s) \in SUBSET S /\ s \in Below(s)
      OBVIOUS
    <2>2. IsFiniteSet(Below(s)) /\ Cardinality(Below(s)) <= n
      BY <2>1, FS_Subset
    <2>3. Cardinality(Below(s)) \in Nat
      BY <2>2, FS_CardinalityType
    <2>4. Cardinality(Below(s)) # 0
      BY <2>1, <2>2, FS_EmptySet
    <2> QED
      BY <1>1, <2>2, <2>3, <2>4 DEF Rank
  <1>3. ASSUME NEW s \in S, NEW u \in S, s < u PROVE Rank(s, S) # Rank(u, S)
    <2>1. Below(s) \in SUBSET Below(u)
      <3>1. \A x \in S : x <= s => x <= u
        BY <1>3
      <3> QED
        BY <3>1
    <2>2. Below(s) # Below(u)
      <3>1. u <= u /\ ~(u <= s)
        BY <1>3
      <3>2. u \in Below(u) /\ u \notin Below(s)
        BY <3>1
      <3> QED
        BY <3>2
    <2>3. Cardinality(Below(u)) # Cardinality(Below(s))
      BY <1>2, <2>1, <2>2, FS_Subset
    <2> QED
      BY <1>2, <2>3
  <1>4. \A s, u \in S : Rank(s, S) = Rank(u, S) => s = u
    <2> SUFFICES ASSUME NEW s \in S, NEW u \in S, s # u PROVE Rank(s, S) # Rank(u, S)
      OBVIOUS
    <2>1. s < u \/ u < s
      OBVIOUS
    <2> QED
      BY <1>3, <2>1
  <1>5. f \in Injection(S, 1 .. n)
    BY <1>2, <1>4 DEF Injection, IsInjective
  <1>6. IsFiniteSet(1 .. n) /\ Cardinality(1 .. n) = n
    BY <1>1, FS_Interval
  <1>7. f \in Surjection(S, 1 .. n)
    BY <1>5, <1>6, FS_Injection
  <1>8. \A i \in 1 .. n : \E s \in S : f[s] = i
    BY <1>7 DEF Surjection
  <1> QED
    BY <1>2, <1>4, <1>8

(* A query for a log that fits in a page, when no event is fresh, returns  *)
(* every outcome there is.                                                 *)
LEMMA AllRead ==
  ASSUME DynamoInv, ~partial, fresh = {}, Cardinality(DOMAIN events) <= PageSize,
         NEW seen \in Loadable,
         NEW s \in DOMAIN events, events[s].type = "StepCompleted"
  PROVE  Recorded(seen, events[s].key) # {}
  <1> DEFINE D == DOMAIN events
             k == events[s].key
             n == Cardinality(D)
  <1>1. D \in SUBSET Nat /\ IsFiniteSet(D) /\ n \in Nat
    <2>1. D \subseteq 1 .. counter /\ counter \in Nat
      BY DEF DynamoInv, NumbersApart, DynamoTypes
    <2>2. IsFiniteSet(1 .. counter)
      <3>1. 1 \in Int /\ counter \in Int
        BY <2>1
      <3> QED
        BY <3>1, FS_Interval
    <2>3. IsFiniteSet(D)
      BY <2>1, <2>2, FS_Subset
    <2> QED
      BY <2>1, <2>3, FS_CardinalityType
  <1> HIDE DEF D
  <1>2. /\ \A x \in D : Rank(x, D) \in 1 .. n
        /\ \A x, y \in D : Rank(x, D) = Rank(y, D) => x = y
        /\ \A i \in 1 .. n : \E x \in D : Rank(x, D) = i
    BY <1>1, RankFacts
  <1>3. FirstPage(D) = D
    <2>1. \A x \in D : Rank(x, D) <= PageSize
      BY <1>1, <1>2, StoreAssumption DEF D
    <2> QED
      BY <2>1 DEF FirstPage
  <1>4. seen = InOrder(D)
    <2>1. PICK missed \in SUBSET fresh : seen = InOrder(FirstPage(DOMAIN events \ missed))
      BY DEF Loadable
    <2>2. DOMAIN events \ missed = D
      BY DEF D
    <2> QED
      BY <1>3, <2>1, <2>2
  <1> DEFINE From(i) == CHOOSE x \in D : Rank(x, D) = i
  <1>5. \A i \in 1 .. n : From(i) \in D /\ Rank(From(i), D) = i
    BY <1>2
  <1>6. DOMAIN seen = 1 .. n /\ \A i \in 1 .. n : seen[i] = events[From(i)]
    BY <1>4 DEF InOrder
  <1> HIDE DEF From
  <1> DEFINE j == Rank(s, D)
  <1>7. s \in D /\ j \in 1 .. n /\ From(j) = s
    BY <1>2, <1>5 DEF D
  <1>8. j \in At(seen, "StepCompleted", k)
    BY <1>6, <1>7 DEF At
  <1>9. \A i \in At(seen, "StepCompleted", k) : i = j
    <2> SUFFICES ASSUME NEW i \in At(seen, "StepCompleted", k) PROVE i = j
      OBVIOUS
    <2>1. i \in 1 .. n /\ events[From(i)].type = "StepCompleted" /\ events[From(i)].key = k
      BY <1>6 DEF At
    <2>2. From(i) = s
      BY <1>5, <2>1 DEF D, DynamoInv, OneOutcome
    <2> QED
      BY <1>5, <2>1, <2>2
  <1>10. seen[j].val \subseteq Recorded(seen, k)
    <2>1. j <= j
      BY <1>1, <1>7
    <2> QED
      BY <1>8, <1>9, <2>1 DEF Recorded
  <1>11. seen[j] = events[s] /\ events[s].val # {}
    BY <1>6, <1>7 DEF DynamoInv, DynamoTypes, Complete
  <1> QED
    BY <1>10, <1>11

(* load_events: an attempt knows every outcome, unless its log was cut. *)
LEMMA LoadKeeps ==
  ASSUME DynamoInv, NEW w \in Workers, LoadEvents(w)
  PROVE  DynamoInv'
  <1> USE DEF DynamoInv
  <1>1. w \in Procs /\ Active(w) /\ Loading(w) /\ Open(w)
    BY ProcFacts DEF LoadEvents, Here, Active, Loading, Open
  <1>2. PICK seen \in Loadable :
          ctx' = [ctx EXCEPT ![w].memo = {k \in Keys : Recorded(seen, k) # {}},
                             ![w].unresolved = Unresolved(seen)]
    BY DEF LoadEvents
  <1>3. Unresolved(seen) \in SUBSET Keys
    BY DEF Unresolved
  <1> DEFINE Memo == {k \in Keys : Recorded(seen, k) # {}}
  <1>4. Memo \in SUBSET Keys
    OBVIOUS
  <1>5. /\ ctx' \in [Workers -> [key: Keys \cup {NoKey}, memo: SUBSET (Keys \cup {NoKey}),
                                 unresolved: SUBSET Keys]]
        /\ ctx'[w].memo = Memo
        /\ \A v \in Workers \ {w} : ctx'[v] = ctx[v]
    <2> HIDE DEF Memo
    <2>1. ctx' = [ctx EXCEPT ![w].memo = Memo, ![w].unresolved = Unresolved(seen)]
      BY <1>2 DEF Memo
    <2> QED
      BY <1>3, <1>4, <2>1 DEF DynamoTypes
  <1>6. /\ pc' \in [Procs -> Stages] /\ pc'[w] = "boundary"
        /\ \A p \in Procs \ {w} : pc'[p] = pc[p]
    BY <1>1 DEF LoadEvents, Go, DynamoTypes, Stages
  <1>7. /\ counter' = counter /\ events' = events /\ fresh' = fresh
        /\ adding' = adding /\ message' = message /\ status' = status
        /\ partial' = (partial \/ Cardinality(DOMAIN events) > PageSize)
    BY DEF LoadEvents, logVars, metaVars, sqsVars
  <1>8. DynamoTypes'
    BY <1>5, <1>6, <1>7 DEF DynamoTypes
  <1>9. ~Finished' /\ ~Stamped(w)' /\ ~Loading(w)' /\ ~InStep(w)'
    BY <1>1, <1>6, <1>7 DEF OneAtWork, Finished, Stamped, Loading, InStep, Between, Appends
  <1>10. ~Appends(w, {"StepCompleted"})'
    BY <1>6 DEF Appends
  <1>11. ASSUME ~partial', NEW s \in DOMAIN events, events[s].type = "StepCompleted"
         PROVE  events[s].key \in ctx'[w].memo
    <2>1. ~partial /\ ~(Cardinality(DOMAIN events) > PageSize)
      BY <1>7, <1>11
    <2>2. Cardinality(DOMAIN events) \in Nat
      <3>1. DOMAIN events \subseteq 1 .. counter /\ counter \in Nat
        BY DEF NumbersApart, DynamoTypes
      <3>2. IsFiniteSet(1 .. counter)
        BY <3>1, FS_Interval
      <3> QED
        BY <3>1, <3>2, FS_Subset, FS_CardinalityType
    <2>3. Cardinality(DOMAIN events) <= PageSize
      BY <2>1, <2>2, StoreAssumption
    <2>4. fresh = {} /\ events[s].key \in Keys
      BY <1>1, <1>11, <2>1 DEF KnowsOutcomes
    <2>5. Recorded(seen, events[s].key) # {}
      BY <1>11, <2>1, <2>3, <2>4, AllRead
    <2> QED
      BY <1>5, <2>4, <2>5
  <1>12. ~partial' => ~partial
    BY <1>7
  <1> HIDE DEF DynamoInv
  <1> QED
    BY <1>1, <1>5, <1>6, <1>7, <1>8, <1>9, <1>10, <1>11, <1>12, WorkerMoves


-----------------------------------------------------------------------------
(* The guards of a step: the first one without an outcome is begun. *)
LEMMA BoundaryKeeps ==
  ASSUME DynamoInv, NEW w \in Workers, Boundary(w)
  PROVE  DynamoInv'
  <1>1. w \in Procs /\ Active(w) /\ Open(w) /\ pc[w] = "boundary"
    BY ProcFacts DEF Boundary, Here, Active, Open
  <1>2. UNCHANGED <<logVars, status, message, partial>>
    BY DEF Boundary, metaVars, sqsVars
  <1>3. CASE Leave(w, "idle")
    BY <1>2, <1>3, LeaveKeeps
  <1>4. ASSUME Go(w, "check_cancel"), UNCHANGED adding,
               NEW k \in ToDo(w), ctx' = [ctx EXCEPT ![w].key = k]
        PROVE  DynamoInv'
    <2> USE DEF DynamoInv
    <2>1. k \in Keys \ ctx[w].memo
      BY DEF ToDo
    <2>2. /\ pc' \in [Procs -> Stages] /\ pc'[w] = "check_cancel"
          /\ \A p \in Procs \ {w} : pc'[p] = pc[p] /\ adding'[p] = adding[p]
      BY <1>1, <1>4 DEF Go, DynamoTypes, Stages
    <2>3. /\ ctx' \in [Workers -> [key: Keys \cup {NoKey}, memo: SUBSET (Keys \cup {NoKey}),
                                   unresolved: SUBSET Keys]]
          /\ ctx'[w].memo = ctx[w].memo /\ ctx'[w].key = k
          /\ \A v \in Workers \ {w} : ctx'[v] = ctx[v]
      BY <1>4, <2>1 DEF DynamoTypes
    <2>4. counter' = counter /\ events' = events /\ fresh' = fresh
      BY <1>2 DEF logVars
    <2>5. DynamoTypes'
      BY <1>4, <2>2, <2>3, <2>4 DEF DynamoTypes
    <2>6. ~Finished' /\ ~Stamped(w)' /\ ~Loading(w)'
      BY <1>1, <1>2, <2>2 DEF OneAtWork, Finished, Stamped, Loading, Appends
    <2>7. ~Appends(w, {"StepCompleted"})'
      BY <2>2 DEF Appends
    <2>8. ~partial' => ~partial /\ \A s \in DOMAIN events :
            events[s].type = "StepCompleted" => events[s].key \in ctx'[w].memo
      BY <1>1, <1>2, <2>3 DEF KnowsOutcomes, Between
    <2>9. message' = message
      BY <1>2
    <2> HIDE DEF DynamoInv
    <2> QED
      BY <1>1, <2>1, <2>2, <2>3, <2>4, <2>5, <2>6, <2>7, <2>8, <2>9, WorkerMoves
  <1> QED
    BY <1>3, <1>4 DEF Boundary

(* The events an attempt appends between its guards and its verdict. *)
LEMMA WorkflowKeeps ==
  ASSUME DynamoInv, NEW w \in Workers, CheckCancel(w) \/ Invoke(w) \/ EndWorkflow(w)
  PROVE  DynamoInv'
  <1>1. UNCHANGED <<logVars, status, ctx, message, partial>>
    BY DEF CheckCancel, Invoke, EndWorkflow, metaVars, sqsVars
  <1>2. Open(w)
    BY DEF CheckCancel, Invoke, EndWorkflow, Here, Open
  <1>3. ctx[w].key \in Keys \cup {NoKey}
    BY DEF DynamoInv, DynamoTypes
  <1>4. CASE EndWorkflow(w)
    <2>1. Complete(RunEvent("RunCompleted")) /\ RunEvent("RunCompleted").type = "RunCompleted"
      BY EventFacts DEF EventType
    <2>2. BeginAppend(w, RunEvent("RunCompleted"))
      BY <1>4 DEF EndWorkflow
    <2> QED
      BY <1>1, <1>2, <2>1, <2>2, BeginKeeps
  <1>5. CASE Invoke(w)
    <2>1. PICK v \in Results : BeginAppend(w, CompletedEvent(ctx[w].key, v))
      BY <1>5 DEF Invoke
    <2>2. InStep(w)
      BY <1>5 DEF Invoke, Here, InStep, Between
    <2>3. /\ Complete(CompletedEvent(ctx[w].key, v))
          /\ CompletedEvent(ctx[w].key, v).type = "StepCompleted"
          /\ CompletedEvent(ctx[w].key, v).key = ctx[w].key
      BY <1>3, EventFacts
    <2> QED
      BY <1>1, <1>2, <2>1, <2>2, <2>3, BeginKeeps
  <1>6. CASE CheckCancel(w)
    <2>1. InStep(w)
      BY <1>6 DEF CheckCancel, Here, InStep, Between
    <2>2. CASE BeginAppend(w, RunEvent("RunCancelled"))
      <3>1. Complete(RunEvent("RunCancelled")) /\ RunEvent("RunCancelled").type = "RunCancelled"
        BY EventFacts DEF EventType
      <3> QED
        BY <1>1, <1>2, <2>2, <3>1, BeginKeeps
    <2>3. ASSUME NEW y \in {"StepRetried", "StepStarted"},
                 BeginAppend(w, StepEvent(y, ctx[w].key))
          PROVE  DynamoInv'
      <3>1. Complete(StepEvent(y, ctx[w].key)) /\ StepEvent(y, ctx[w].key).type = y
        BY <1>3, EventFacts DEF EventType
      <3> QED
        BY <1>1, <1>2, <2>1, <2>3, <3>1, BeginKeeps
    <2>4. \/ BeginAppend(w, RunEvent("RunCancelled"))
          \/ BeginAppend(w, StepEvent("StepRetried", ctx[w].key))
          \/ BeginAppend(w, StepEvent("StepStarted", ctx[w].key))
      BY <1>6 DEF CheckCancel
    <2> QED
      BY <2>2, <2>3, <2>4
  <1> QED
    BY <1>4, <1>5, <1>6

(* dequeue and release. *)
LEMMA QueueKeeps ==
  ASSUME DynamoInv, NEW w \in Workers, QueueStep(w)
  PROVE  DynamoInv'
  <1>1. Active(w)
    BY DEF QueueStep, QueryLease, DeleteRunMessage, DeleteLease, Release, Here, Active
  <1>2. CASE QueryLease(w)
    <2>1. UNCHANGED <<logVars, status, message, partial>>
      BY <1>2 DEF QueryLease, metaVars, sqsVars
    <2>2. CASE Leave(w, "idle")
      BY <2>1, <2>2, LeaveKeeps
    <2>3. CASE Go(w, "delete_message") /\ UNCHANGED <<adding, ctx>>
      BY <1>1, <2>1, <2>3, GoKeeps DEF Go
    <2> QED
      BY <1>2, <2>2, <2>3 DEF QueryLease
  <1>3. CASE DeleteRunMessage(w)
    <2>1. UNCHANGED <<logVars, adding, ctx, partial>>
      BY <1>3 DEF DeleteRunMessage
    <2>2. message' = "visible" => message = "visible"
      BY <1>3 DEF DeleteRunMessage, DeleteMessage
    <2>3. pc' = [pc EXCEPT ![w] = "delete_lease"]
      BY <1>3 DEF DeleteRunMessage, Go
    <2> QED
      BY <1>1, <2>1, <2>2, <2>3, GoKeeps
  <1>4. CASE DeleteLease(w)
    <2>1. UNCHANGED <<logVars, status, message, partial>> /\ Leave(w, "idle")
      BY <1>4 DEF DeleteLease, metaVars, sqsVars
    <2> QED
      BY <2>1, LeaveKeeps
  <1>5. CASE Release(w)
    <2>1. UNCHANGED <<logVars, status>> /\ Leave(w, "idle") /\ partial'
      BY <1>5 DEF Release, metaVars
    <2> QED
      BY <1>1, <2>1, LeaveKeeps
  <1> QED
    BY <1>2, <1>3, <1>4, <1>5 DEF QueueStep

(* save_usage is accepted. *)
LEMMA UsageKeeps ==
  ASSUME DynamoInv, NEW w \in Workers, SaveUsage(w)
  PROVE  DynamoInv'
  <1>1. /\ counter' = counter /\ events' = events /\ fresh' = fresh
        /\ adding' = adding /\ ctx' = ctx /\ partial' = partial /\ message' = message
        /\ Finished' <=> Finished
    BY DEF SaveUsage, metaVars, logVars, sqsVars, Finished
  <1>2. PICK there \in {"boundary", "set_completed", "set_failed"} :
          pc' = [pc EXCEPT ![w] = there] /\ (there = "boundary" => Between(w))
    BY DEF SaveUsage, Here, Go, Between
  <1>3. Active(w) /\ Open(w)
    BY DEF SaveUsage, Here, Active, Open
  <1>4. w \in Procs /\ pc \in [Procs -> Stages]
    BY ProcFacts DEF DynamoInv, DynamoTypes
  <1>5. /\ pc' \in [Procs -> Stages] /\ pc'[w] = there
        /\ \A p \in Procs \ {w} : pc'[p] = pc[p]
    BY <1>2, <1>4 DEF Stages
  <1>6. DynamoTypes'
    BY <1>1, <1>5 DEF DynamoInv, DynamoTypes
  <1>7. ~Stamped(w)' /\ ~InStep(w)' /\ ~Loading(w)' /\ ~Appends(w, {"StepCompleted"})'
    BY <1>5 DEF Stamped, InStep, Loading, Appends
  <1>8. ~Finished'
    BY <1>1, <1>3 DEF DynamoInv, OneAtWork
  <1>9. ~partial' => ~partial /\ (Between(w)' => \A s \in DOMAIN events :
          events[s].type = "StepCompleted" => events[s].key \in ctx'[w].memo)
    BY <1>1, <1>2, <1>5 DEF DynamoInv, KnowsOutcomes, Between
  <1> QED
    BY <1>1, <1>3, <1>5, <1>6, <1>7, <1>8, <1>9, WorkerMoves

(* A call of execute() raises, with or without an effect. *)
LEMMA RaiseKeeps ==
  ASSUME DynamoInv, NEW w \in Workers, ExecuteRaises(w),
         UNCHANGED <<logVars, status, message, partial, ctx>>
  PROVE  DynamoInv'
  <1>1. CASE InWorkflow(w) /\ BeginAppend(w, RunEvent("RunFailed"))
    <2>1. Complete(RunEvent("RunFailed")) /\ RunEvent("RunFailed").type = "RunFailed"
      BY EventFacts DEF EventType
    <2>2. Open(w)
      BY <1>1 DEF InWorkflow, Open
    <2> QED
      BY <1>1, <2>1, <2>2, BeginKeeps
  <1>2. CASE Go(w, "release") /\ UNCHANGED adding
    <2>1. Active(w)
      BY DEF ExecuteRaises, InWorkflow, Active
    <2> QED
      BY <1>2, <2>1, GoKeeps DEF Go
  <1> QED
    BY <1>1, <1>2 DEF ExecuteRaises

(* save_usage is refused, a call raises, or a process dies. *)
LEMMA FaultKeeps ==
  ASSUME DynamoInv, NEW w \in Workers, SaveUsageRefused(w) \/ CallRaises(w) \/ Crash(w)
  PROVE  DynamoInv'
  <1>1. UNCHANGED <<logVars, status, message, partial>>
    BY DEF SaveUsageRefused, CallRaises, Crash, metaVars, sqsVars
  <1>2. CASE Leave(w, "idle") \/ Leave(w, "down")
    BY <1>1, <1>2, LeaveKeeps
  <1>3. CASE ExecuteRaises(w) /\ UNCHANGED ctx
    BY <1>1, <1>3, RaiseKeeps
  <1> QED
    BY <1>2, <1>3 DEF SaveUsageRefused, CallRaises, Crash


-----------------------------------------------------------------------------
(* A message is received when no worker is at work, and what the last one  *)
(* wrote has settled.                                                      *)
LEMMA ReceiveKeeps ==
  ASSUME DynamoInv, NEW w \in Workers, Receive(w)
  PROVE  DynamoInv'
  <1> USE DEF DynamoInv
  <1>1. w \in Procs /\ message = "visible" /\ message' = "inflight"
    BY ProcFacts DEF Receive, ReceiveMessage
  <1>2. \A v \in Workers : ~Active(v)
    BY <1>1 DEF OneAtWork
  <1>3. /\ pc' \in [Procs -> Stages] /\ pc'[w] = "query_leases"
        /\ \A p \in Procs \ {w} : pc'[p] = pc[p]
    BY <1>1 DEF Receive, Go, DynamoTypes, Stages
  <1>4. /\ counter' = counter /\ events' = events /\ fresh' = fresh
        /\ adding' = adding /\ ctx' = ctx /\ partial' = partial
    BY DEF Receive, logVars
  <1>5. DynamoTypes'
    BY <1>3, <1>4 DEF DynamoTypes
  <1>6. NumbersApart'
    <2>1. \A p \in Procs : Stamped(p)' => Stamped(p)
      BY <1>3 DEF Stamped
    <2> QED
      BY <1>4, <2>1 DEF NumbersApart
  <1>7. \A v \in Workers : Active(v)' => v = w
    BY <1>2, <1>3, ProcFacts DEF Active
  <1>8. \A v \in Workers : ~Open(v)' /\ ~InStep(v)' /\ ~Between(v)'
    <2>1. ~Open(w)' /\ ~InStep(w)' /\ ~Between(w)'
      BY <1>3 DEF Open, InStep, Between, Appends
    <2>2. \A v \in Workers \ {w} : ~Open(v)' /\ ~InStep(v)' /\ ~Between(v)'
      BY <1>7 DEF Active, Open, InStep, Between, Appends
    <2> QED
      BY <2>1, <2>2
  <1>9. OneAtWork'
    BY <1>1, <1>7, <1>8 DEF OneAtWork
  <1>10. ClientsAside' /\ OneOutcome'
    BY <1>4 DEF ClientsAside, OneOutcome
  <1>11. KnowsOutcomes'
    <2>1. \A v \in Workers : ~Appends(v, {"StepCompleted"})'
      BY <1>8 DEF InStep, Between, Appends
    <2>2. ~partial => fresh = {}
      BY <1>1 DEF KnowsOutcomes
    <2> QED
      BY <1>4, <1>8, <2>1, <2>2 DEF KnowsOutcomes
  <1> QED
    BY <1>5, <1>6, <1>9, <1>10, <1>11

(* A process takes a number nobody has, and has it until its event is put. *)
LEMMA NumberKeeps ==
  ASSUME DynamoInv, NEW p \in Procs, TakeSeq(p) \/ MirrorSeq(p)
  PROVE  DynamoInv'
  <1> USE DEF DynamoInv
  <1>1. /\ events' = events /\ fresh' = fresh /\ message' = message
        /\ ctx' = ctx /\ partial' = partial /\ status' = status
    BY DEF TakeSeq, MirrorSeq, metaVars, logVars, sqsVars
  <1>2. /\ pc' \in [Procs -> Stages]
        /\ pc[p] \in {"take_seq", "mirror_seq"} /\ pc'[p] \in {"mirror_seq", "put_event"}
        /\ \A q \in Procs \ {p} : pc'[q] = pc[q]
    BY DEF TakeSeq, MirrorSeq, Here, Go, DynamoTypes, Stages
  <1>3. /\ counter' \in Nat /\ adding' \in [Procs -> [event: Event, number: Nat]]
        /\ \A q \in Procs : adding'[q].event = adding[q].event
        /\ \A q \in Procs \ {p} : adding'[q] = adding[q]
    BY DEF TakeSeq, MirrorSeq, DynamoTypes, logVars, NextSeq
  <1>4. DynamoTypes'
    BY <1>1, <1>2, <1>3 DEF DynamoTypes
  <1>5. NumbersApart'
    <2>1. \A q \in Procs \ {p} : (Stamped(q)' <=> Stamped(q)) /\ adding'[q] = adding[q]
      BY <1>2, <1>3 DEF Stamped
    <2>2. CASE TakeSeq(p)
      <3>1. counter' = counter + 1 /\ adding'[p].number = counter + 1 /\ counter \in Nat
        BY <2>2 DEF TakeSeq, NextSeq, DynamoTypes
      <3>2. DOMAIN events \subseteq 1 .. counter
        BY DEF NumbersApart
      <3>3. \A q \in Procs \ {p} : Stamped(q)' =>
              /\ adding'[q].number \in (1 .. counter') \ DOMAIN events
              /\ adding'[q].number # counter + 1
        BY <2>1, <3>1 DEF NumbersApart
      <3>4. \A q, o \in Procs \ {p} : Stamped(q)' /\ Stamped(o)' /\ q # o =>
              adding'[q].number # adding'[o].number
        BY <2>1 DEF NumbersApart
      <3>5. counter + 1 \in (1 .. counter') \ DOMAIN events
        BY <3>1, <3>2
      <3>6. DOMAIN events \subseteq 1 .. counter'
        BY <3>1, <3>2
      <3> QED
        BY <1>1, <3>1, <3>3, <3>4, <3>5, <3>6 DEF NumbersApart
    <2>3. CASE MirrorSeq(p)
      <3>1. adding' = adding /\ counter' = counter /\ Stamped(p)
        BY <2>3 DEF MirrorSeq, logVars, Here, Stamped
      <3> QED
        BY <1>1, <2>1, <3>1 DEF NumbersApart
    <2> QED
      BY <2>2, <2>3
  <1>6. \A v \in Workers : (Active(v)' <=> Active(v)) /\ (Open(v)' <=> Open(v))
    BY <1>2, ProcFacts DEF Active, Open
  <1>7. OneAtWork'
    BY <1>1, <1>6 DEF OneAtWork, Finished
  <1>8. ClientsAside' /\ OneOutcome'
    BY <1>1, <1>3 DEF ClientsAside, OneOutcome
  <1>9. \A v \in Workers : /\ Loading(v)' <=> Loading(v)
                           /\ InStep(v)' <=> InStep(v)
                           /\ Between(v)' <=> Between(v)
    BY <1>2, <1>3, ProcFacts DEF Loading, InStep, Between, Appends
  <1>10. \A v \in Workers : Appends(v, {"StepCompleted"})' <=> Appends(v, {"StepCompleted"})
    BY <1>2, <1>3, ProcFacts DEF Appends
  <1>11. KnowsOutcomes'
    BY <1>1, <1>3, <1>9, <1>10, ProcFacts DEF KnowsOutcomes
  <1> QED
    BY <1>4, <1>5, <1>7, <1>8, <1>11

(* Where an attempt goes from each of its events. *)
LEMMA AfterFacts ==
  ASSUME NEW y \in EventType
  PROVE  /\ After(y) \in {"set_running", "invoke", "save_usage", "completed_usage",
                          "failed_usage", "set_cancelled", "down"}
         /\ After(y) = "set_running" => y = "RunResumed"
         /\ After(y) = "invoke" => y \in {"StepStarted", "StepRetried"}
         /\ After(y) = "save_usage" => y = "StepCompleted"
  <1>1. CASE y = "RunResumed"
    BY <1>1 DEF After
  <1>2. CASE y \in {"StepStarted", "StepRetried"}
    BY <1>2 DEF After
  <1>3. CASE y = "StepCompleted"
    BY <1>3 DEF After
  <1>4. CASE y \notin {"RunResumed", "StepStarted", "StepRetried", "StepCompleted"}
    BY <1>4 DEF After
  <1> QED
    BY <1>1, <1>2, <1>3, <1>4


(* The event is put under its number: no other event has it.  A step that  *)
(* is completed here had no outcome before.                                *)
LEMMA PutKeeps ==
  ASSUME DynamoInv, NEW p \in Procs, PutAppended(p)
  PROVE  /\ DynamoInv'
         /\ adding[p].number \notin DOMAIN events
  <1> USE DEF DynamoInv
  <1> DEFINE n == adding[p].number
             e == adding[p].event
             D == DOMAIN events
  <1>1. n \in (1 .. counter) \ D /\ counter \in Nat /\ D \subseteq 1 .. counter
    BY DEF PutAppended, Here, NumbersApart, Stamped, DynamoTypes
  <1>2. Complete(e) /\ e \in Event /\ e.type \in EventType
    BY DEF DynamoTypes, Complete, Event
  <1>3. /\ DOMAIN events' = D \cup {n} /\ events'[n] = e
        /\ \A s \in D : events'[s] = events[s]
        /\ fresh' = IF e.key = NoKey THEN fresh ELSE fresh \cup {n}
    <2>1. events' = [x \in D \cup {n} |-> IF x = n THEN e ELSE events[x]]
      BY DEF PutAppended, PutEvent
    <2> QED
      BY <1>1, <2>1 DEF PutAppended, PutEvent
  <1>4. /\ message' = message /\ status' = status /\ counter' = counter
        /\ partial' = partial
    BY DEF PutAppended, metaVars, sqsVars
  <1>5. /\ pc' \in [Procs -> Stages] /\ pc[p] = "put_event" /\ pc'[p] = After(e.type)
        /\ \A q \in Procs \ {p} : pc'[q] = pc[q]
    BY <1>2, AfterFacts DEF PutAppended, Here, Go, DynamoTypes, Stages
  <1>6. /\ adding' \in [Procs -> [event: Event, number: Nat]]
        /\ \A q \in Procs \ {p} : adding'[q] = adding[q]
        /\ adding'[p].event = RunEvent("RunStarted")
        /\ Complete(RunEvent("RunStarted"))
        /\ RunEvent("RunStarted").type = "RunStarted"
        /\ RunEvent("RunStarted").key = NoKey
    <2>1. /\ Complete(RunEvent("RunStarted"))
          /\ RunEvent("RunStarted").type = "RunStarted"
          /\ RunEvent("RunStarted").key = NoKey
      BY EventFacts DEF EventType
    <2>2. NoEvent \in [event: Event, number: Nat] /\ NoEvent.event = RunEvent("RunStarted")
      BY <2>1 DEF NoEvent, Complete
    <2> QED
      BY <2>1, <2>2 DEF PutAppended, DynamoTypes
  <1>7. /\ ctx' \in [Workers -> [key: Keys \cup {NoKey}, memo: SUBSET (Keys \cup {NoKey}),
                                 unresolved: SUBSET Keys]]
        /\ \A v \in Workers : v # p => ctx'[v] = ctx[v]
        /\ p \in Workers => ctx'[p].key = ctx[p].key
        /\ p \in Workers /\ e.type # "StepCompleted" => ctx'[p].memo = ctx[p].memo
        /\ p \in Workers /\ e.type = "StepCompleted" =>
             ctx'[p].memo = ctx[p].memo \cup {ctx[p].key}
    <2> DEFINE More(v) == IF v = p /\ e.type = "StepCompleted"
                          THEN [ctx[v] EXCEPT !.memo = @ \cup {ctx[v].key}] ELSE ctx[v]
    <2>1. ctx' = [v \in Workers |-> More(v)]
      BY DEF PutAppended
    <2>2. ASSUME NEW v \in Workers
          PROVE  /\ More(v) \in [key: Keys \cup {NoKey}, memo: SUBSET (Keys \cup {NoKey}),
                                 unresolved: SUBSET Keys]
                 /\ More(v).key = ctx[v].key
                 /\ More(v).memo = IF v = p /\ e.type = "StepCompleted"
                                   THEN ctx[v].memo \cup {ctx[v].key} ELSE ctx[v].memo
                 /\ v # p => More(v) = ctx[v]
      BY DEF DynamoTypes
    <2> HIDE DEF More
    <2> QED
      BY <2>1, <2>2
  <1> HIDE DEF n, e, D
  <1>8. DynamoTypes'
    <2>1. \A s \in DOMAIN events' : Complete(events'[s])
      BY <1>2, <1>3 DEF DynamoTypes, D
    <2>2. \A q \in Procs : Complete(adding'[q].event)
      BY <1>6 DEF DynamoTypes
    <2> QED
      BY <1>4, <1>5, <1>6, <1>7, <2>1, <2>2 DEF DynamoTypes
  <1>9. NumbersApart'
    <2>1. ~Stamped(p)'
      BY <1>2, <1>5, AfterFacts DEF Stamped
    <2>2. \A q \in Procs \ {p} : (Stamped(q)' <=> Stamped(q)) /\ adding'[q] = adding[q]
      BY <1>5, <1>6 DEF Stamped
    <2>3. Stamped(p)
      BY <1>5 DEF Stamped
    <2>4. \A q \in Procs \ {p} : Stamped(q) => adding[q].number # n
      BY <2>3 DEF NumbersApart, n
    <2>5. \A q \in Procs : Stamped(q)' => adding'[q].number \in (1 .. counter') \ DOMAIN events'
      BY <1>3, <1>4, <2>1, <2>2, <2>4 DEF NumbersApart, D
    <2>6. DOMAIN events' \subseteq 1 .. counter'
      BY <1>1, <1>3, <1>4
    <2> QED
      BY <2>1, <2>2, <2>5, <2>6 DEF NumbersApart
  <1>10. \A v \in Workers : (Active(v)' => Active(v)) /\ (Open(v)' => Open(v))
    <2>1. \A v \in Workers \ {p} : (Active(v)' <=> Active(v)) /\ (Open(v)' <=> Open(v))
      BY <1>5, ProcFacts DEF Active, Open
    <2>2. p \in Workers => Active(p) /\ Open(p)
      BY <1>5 DEF Active, Open
    <2> QED
      BY <2>1, <2>2
  <1>11. OneAtWork'
    BY <1>4, <1>10 DEF OneAtWork, Finished
  <1>12. ClientsAside'
    BY <1>6 DEF ClientsAside
  <1>13. p \notin Workers => e.key = NoKey /\ e.type # "StepCompleted"
    BY DEF ClientsAside, e
  <1>14. \A v \in Workers : p \in Workers /\ Active(v) => v = p
    BY <1>5 DEF Active, OneAtWork
  <1>15. ASSUME ~partial, e.type = "StepCompleted"
         PROVE  /\ p \in Workers /\ e.key = ctx[p].key /\ e.key \in Keys \ ctx[p].memo
                /\ \A s \in D : events[s].type = "StepCompleted" => events[s].key \in ctx[p].memo
    <2>1. p \in Workers
      BY <1>13, <1>15
    <2>2. Appends(p, {"StepCompleted"}) /\ InStep(p)
      BY <1>5, <1>15 DEF Appends, InStep, Between, e
    <2> QED
      BY <1>15, <2>1, <2>2 DEF KnowsOutcomes, e, D
  <1>16. OneOutcome'
    <2> SUFFICES ASSUME ~partial, NEW s \in DOMAIN events', NEW u \in DOMAIN events',
                        events'[s].type = "StepCompleted", events'[u].type = "StepCompleted",
                        events'[s].key = events'[u].key
                 PROVE  s = u
      BY <1>4 DEF OneOutcome
    <2>1. CASE s \in D /\ u \in D
      BY <1>3, <2>1 DEF OneOutcome, D
    <2>2. CASE s = n \/ u = n
      BY <1>3, <1>15, <2>2
    <2> QED
      BY <1>3, <2>1, <2>2
  <1>17. KnowsOutcomes'
    <2> SUFFICES ASSUME ~partial PROVE KnowsOutcomes'
      BY <1>4 DEF KnowsOutcomes
    <2>1. \A s \in DOMAIN events' : events'[s].type = "StepCompleted" => events'[s].key \in Keys
      BY <1>3, <1>15 DEF KnowsOutcomes, D
    <2>2. p \notin Workers => fresh' = fresh
      BY <1>3, <1>13
    <2>3. message' = "visible" => fresh' = {}
      <3>1. message = "visible" => p \notin Workers
        BY <1>5 DEF OneAtWork, Active
      <3> QED
        BY <1>4, <2>2, <3>1 DEF KnowsOutcomes
    <2>4. ASSUME NEW v \in Workers, v # p
          PROVE  /\ Loading(v)' => fresh' = {}
                 /\ InStep(v)' \/ Between(v)' =>
                      \A s \in DOMAIN events' :
                        events'[s].type = "StepCompleted" => events'[s].key \in ctx'[v].memo
                 /\ InStep(v)' => ctx'[v].key \in Keys \ ctx'[v].memo
                 /\ Appends(v, {"StepCompleted"})' => adding'[v].event.key = ctx'[v].key
      <3>1. pc'[v] = pc[v] /\ adding'[v] = adding[v] /\ ctx'[v] = ctx[v]
        BY <1>5, <1>6, <1>7, <2>4, ProcFacts
      <3>2. /\ Loading(v)' <=> Loading(v)
            /\ InStep(v)' <=> InStep(v)
        BY <3>1 DEF Loading, InStep, Between, Appends
      <3>3. Appends(v, {"StepCompleted"})' <=> Appends(v, {"StepCompleted"})
        BY <3>1 DEF Appends
      <3>4. CASE ~Active(v)
        <4>1. ~Loading(v) /\ ~InStep(v) /\ ~Between(v)
          BY <3>4 DEF Active, Loading, InStep, Between, Appends
        <4>2. ~Appends(v, {"StepCompleted"})
          BY <3>4 DEF Active, Appends
        <4> QED
          BY <3>1, <3>2, <3>3, <4>1, <4>2 DEF Between
      <3>5. CASE Active(v)
        <4>1. fresh' = fresh /\ e.type # "StepCompleted"
          BY <1>13, <1>14, <2>2, <2>4, <3>5
        <4>2. \A s \in DOMAIN events' : events'[s].type = "StepCompleted" =>
                s \in D /\ events'[s] = events[s]
          BY <1>3, <4>1
        <4> QED
          BY <3>1, <3>2, <3>3, <4>1, <4>2 DEF KnowsOutcomes, Between, D
      <3> QED
        BY <3>4, <3>5
    <2>5. ASSUME p \in Workers
          PROVE  /\ Loading(p)' => fresh' = {}
                 /\ InStep(p)' \/ Between(p)' =>
                      \A s \in DOMAIN events' :
                        events'[s].type = "StepCompleted" => events'[s].key \in ctx'[p].memo
                 /\ InStep(p)' => ctx'[p].key \in Keys \ ctx'[p].memo
                 /\ ~Appends(p, {"StepCompleted"})'
      <3>1. ~Appends(p, {"StepCompleted"})'
        BY <1>2, <1>5, AfterFacts DEF Appends
      <3>2. ASSUME Loading(p)' PROVE fresh' = {}
        <4>1. e.type = "RunResumed"
          BY <1>2, <1>5, <3>2, AfterFacts DEF Loading, Appends
        <4>2. Loading(p) /\ e.key = NoKey
          BY <1>2, <1>5, <4>1 DEF Loading, Appends, Complete, e
        <4> QED
          BY <1>3, <2>5, <4>2 DEF KnowsOutcomes
      <3>3. ASSUME InStep(p)'
            PROVE  /\ ctx'[p].key \in Keys \ ctx'[p].memo
                   /\ \A s \in DOMAIN events' :
                        events'[s].type = "StepCompleted" => events'[s].key \in ctx'[p].memo
        <4>1. e.type \in {"StepStarted", "StepRetried"}
          BY <1>2, <1>5, <3>3, AfterFacts DEF InStep, Between, Appends
        <4>2. InStep(p)
          BY <1>5, <4>1 DEF InStep, Between, Appends, e
        <4>3. ctx'[p].key = ctx[p].key /\ ctx'[p].memo = ctx[p].memo
          BY <1>7, <2>5, <4>1
        <4>4. \A s \in DOMAIN events' : events'[s].type = "StepCompleted" =>
                s \in D /\ events'[s] = events[s]
          BY <1>3, <4>1
        <4> QED
          BY <2>5, <4>2, <4>3, <4>4 DEF KnowsOutcomes, D
      <3>4. ASSUME Between(p)', NEW s \in DOMAIN events',
                   events'[s].type = "StepCompleted"
            PROVE  events'[s].key \in ctx'[p].memo
        <4>1. e.type = "StepCompleted"
          BY <1>2, <1>5, <3>4, AfterFacts DEF Between
        <4>2. ctx'[p].memo = ctx[p].memo \cup {e.key}
          BY <1>7, <1>15, <2>5, <4>1
        <4> QED
          BY <1>3, <1>15, <3>4, <4>1, <4>2
      <3> QED
        BY <3>1, <3>2, <3>3, <3>4
    <2> QED
      BY <2>1, <2>3, <2>4, <2>5 DEF KnowsOutcomes
  <1> QED
    BY <1>1, <1>8, <1>9, <1>11, <1>12, <1>16, <1>17 DEF n, D

(* A request touches no worker. *)
LEMMA CancelKeeps ==
  ASSUME DynamoInv, RequestCancel
  PROVE  DynamoInv'
  <1> USE DEF DynamoInv
  <1>1. Canceller \in Procs \ Workers
    BY ProcFacts
  <1>2. /\ counter' = counter /\ events' = events /\ fresh' = fresh /\ status' = status
        /\ ctx' = ctx /\ partial' = partial /\ message' = message
    BY DEF RequestCancel, logVars, sqsVars
  <1>3. /\ pc' \in [Procs -> Stages] /\ pc'[Canceller] \in {"take_seq", "down"}
        /\ \A p \in Procs \ {Canceller} : pc'[p] = pc[p]
    BY <1>1 DEF RequestCancel, BeginAppend, Go, DynamoTypes, Stages
  <1>4. /\ Complete(RunEvent("CancelRequested"))
        /\ RunEvent("CancelRequested").type = "CancelRequested"
        /\ RunEvent("CancelRequested").key = NoKey
    BY EventFacts DEF EventType
  <1>5. /\ adding' \in [Procs -> [event: Event, number: Nat]]
        /\ \A p \in Procs \ {Canceller} : adding'[p] = adding[p]
        /\ Complete(adding'[Canceller].event)
        /\ adding'[Canceller].event.key = NoKey
        /\ adding'[Canceller].event.type # "StepCompleted"
    <2> DEFINE e == RunEvent("CancelRequested")
    <2> HIDE DEF e
    <2>1. /\ [NoEvent EXCEPT !.event = e] \in [event: Event, number: Nat]
          /\ [NoEvent EXCEPT !.event = e].event = e
      BY <1>4 DEF NoEvent, Complete, e
    <2>2. CASE BeginAppend(Canceller, e)
      BY <1>1, <1>4, <2>1, <2>2 DEF BeginAppend, DynamoTypes, e
    <2>3. CASE adding' = adding
      BY <1>1, <2>3 DEF DynamoTypes, ClientsAside
    <2> QED
      BY <2>2, <2>3 DEF RequestCancel, e
  <1>6. \A v \in Workers : pc'[v] = pc[v] /\ adding'[v] = adding[v]
    BY <1>1, <1>3, <1>5, ProcFacts
  <1>7. DynamoTypes'
    BY <1>2, <1>3, <1>5 DEF DynamoTypes
  <1>8. NumbersApart'
    <2>1. \A p \in Procs : Stamped(p)' => Stamped(p) /\ adding'[p] = adding[p]
      BY <1>3, <1>5 DEF Stamped
    <2> QED
      BY <1>2, <2>1 DEF NumbersApart
  <1>9. OneAtWork'
    BY <1>2, <1>6 DEF OneAtWork, Active, Open, Finished
  <1>10. ClientsAside' /\ OneOutcome'
    BY <1>1, <1>2, <1>5 DEF ClientsAside, OneOutcome
  <1>11. KnowsOutcomes'
    BY <1>2, <1>6 DEF KnowsOutcomes, Loading, InStep, Between, Appends
  <1> QED
    BY <1>7, <1>8, <1>9, <1>10, <1>11

(* The visibility timeout runs out, when nobody is at work. *)
LEMMA LapseKeeps ==
  ASSUME DynamoInv, VisibilityLapses
  PROVE  DynamoInv'
  <1> USE DEF DynamoInv
  <1>1. /\ counter' = counter /\ events' = events /\ status' = status
        /\ ctx' = ctx /\ partial' = partial /\ pc' = pc /\ adding' = adding
        /\ fresh' = {} /\ \A w \in Workers : ~Active(w)
    BY DEF VisibilityLapses, metaVars, procVars
  <1>2. DynamoTypes' /\ ClientsAside' /\ OneOutcome'
    BY <1>1 DEF DynamoTypes, ClientsAside, OneOutcome
  <1>3. NumbersApart'
    BY <1>1 DEF NumbersApart, Stamped
  <1>4. OneAtWork'
    BY <1>1 DEF OneAtWork, Active, Open, Finished
  <1>5. KnowsOutcomes'
    BY <1>1 DEF KnowsOutcomes, Loading, InStep, Between, Appends
  <1> QED
    BY <1>2, <1>3, <1>4, <1>5

(* Every step keeps the invariant. *)
LEMMA DynamoStep == DynamoInv /\ [DynamoRunNext]_dynamoRunVars => DynamoInv'
  <1> SUFFICES ASSUME DynamoInv, [DynamoRunNext]_dynamoRunVars PROVE DynamoInv'
    OBVIOUS
  <1>1. ASSUME NEW p \in Procs, AppendEvent(p) PROVE DynamoInv'
    BY <1>1, NumberKeeps, PutKeeps DEF AppendEvent
  <1>2. ASSUME NEW w \in Workers, AttemptStep(w) PROVE DynamoInv'
    BY <1>2, RowKeeps, BumpKeeps, LoadKeeps, BoundaryKeeps, WorkflowKeeps,
       UsageKeeps, FaultKeeps DEF AttemptStep
  <1>3. ASSUME NEW w \in Workers, Receive(w) \/ WorkerStep(w) PROVE DynamoInv'
    BY <1>1, <1>2, <1>3, ReceiveKeeps, ClaimKeeps, QueueKeeps, ProcFacts DEF WorkerStep
  <1>4. ASSUME NEW w \in Workers, CallRaises(w) \/ Crash(w) PROVE DynamoInv'
    BY <1>4, FaultKeeps
  <1>5. CASE UNCHANGED dynamoRunVars
    <2>1. /\ counter' = counter /\ events' = events /\ status' = status /\ fresh' = fresh
          /\ ctx' = ctx /\ partial' = partial /\ pc' = pc /\ adding' = adding
          /\ message' = message
      BY <1>5 DEF dynamoRunVars, metaVars, logVars, sqsVars, procVars
    <2>2. (DynamoTypes /\ NumbersApart /\ ClientsAside /\ OneOutcome)'
      BY <2>1 DEF DynamoInv, DynamoTypes, NumbersApart, ClientsAside, OneOutcome, Stamped
    <2>3. OneAtWork'
      BY <2>1 DEF DynamoInv, OneAtWork, Active, Open, Finished
    <2>4. KnowsOutcomes'
      BY <2>1 DEF DynamoInv, KnowsOutcomes, Loading, InStep, Between, Appends
    <2> QED
      BY <2>2, <2>3, <2>4 DEF DynamoInv
  <1> QED
    BY <1>1, <1>3, <1>4, <1>5, CancelKeeps, LapseKeeps, ProcFacts DEF DynamoRunNext

(* Every reachable state satisfies the invariant. *)
LEMMA DynamoInvariant == DynamoRunSpec => []DynamoInv
  BY DynamoStart, DynamoStep, PTL DEF DynamoRunSpec


(* As long as no log was cut to a page and no run released, an attempt     *)
(* starts from all that earlier ones recorded and no step is completed     *)
(* twice, whatever crashes, raising calls and stale reads of lease items   *)
(* there are.                                                              *)
THEOREM OutcomesStaySingle == DynamoRunSpec => []OneOutcome
  <1>1. DynamoInv => OneOutcome
    BY DEF DynamoInv
  <1> QED
    BY <1>1, DynamoInvariant, PTL

-----------------------------------------------------------------------------
(* Only put_item of append_event writes an event. *)
LEMMA LogFrame ==
  ASSUME [DynamoRunNext]_dynamoRunVars
  PROVE  events' = events \/ \E p \in Procs : PutAppended(p)
  <1>1. ASSUME NEW p \in Procs, AppendEvent(p)
        PROVE  events' = events \/ PutAppended(p)
    BY <1>1 DEF AppendEvent, TakeSeq, MirrorSeq, logVars
  <1>2. ASSUME NEW w \in Workers, AttemptStep(w) PROVE events' = events
    BY <1>2 DEF AttemptStep, GetRun, BumpAttempt, SetRunning, LoadEvents, Boundary,
       CheckCancel, Invoke, EndWorkflow, SaveUsage, SaveUsageRefused, SetTerminal, logVars
  <1>3. ASSUME NEW w \in Workers, ClaimStep(w) \/ QueueStep(w) PROVE events' = events
    BY <1>3 DEF ClaimStep, QueryLeases, PurgeLease, PutLease, QueueStep, QueryLease,
       DeleteRunMessage, DeleteLease, Release, logVars
  <1>4. ASSUME NEW w \in Workers, Receive(w) \/ CallRaises(w) \/ Crash(w)
        PROVE  events' = events
    BY <1>4 DEF Receive, CallRaises, Crash, logVars
  <1>5. CASE RequestCancel \/ VisibilityLapses \/ UNCHANGED dynamoRunVars
    BY <1>5 DEF RequestCancel, VisibilityLapses, dynamoRunVars, logVars
  <1> QED
    BY <1>1, <1>2, <1>3, <1>4, <1>5, ProcFacts DEF DynamoRunNext, WorkerStep

(* append_event never overwrites an event, although the number is taken    *)
(* two calls before the item is put and the submission, a cancel and a     *)
(* worker may append at once.                                              *)
THEOREM EventsArePermanent == DynamoRunSpec => NothingOverwritten
  <1>1. ASSUME DynamoInv, [DynamoRunNext]_dynamoRunVars
        PROVE  \A s \in DOMAIN events : s \in DOMAIN events' /\ events'[s] = events[s]
    <2>1. CASE events' = events
      BY <2>1
    <2>2. ASSUME NEW p \in Procs, PutAppended(p)
          PROVE  \A s \in DOMAIN events : s \in DOMAIN events' /\ events'[s] = events[s]
      <3>1. adding[p].number \notin DOMAIN events
        BY <1>1, <2>2, PutKeeps
      <3> QED
        BY <2>2, <3>1 DEF PutAppended, PutEvent
    <2> QED
      BY <1>1, <2>1, <2>2, LogFrame
  <1>2. DynamoInv /\ [DynamoRunNext]_dynamoRunVars =>
          [\A s \in DOMAIN events : s \in DOMAIN events' /\ events'[s] = events[s]]_dynamoRunVars
    BY <1>1
  <1> QED
    BY <1>2, DynamoInvariant, PTL DEF DynamoRunSpec, NothingOverwritten

-----------------------------------------------------------------------------
(* Nobody has the run at the start. *)
LEMMA LeaseStart == DynamoRunInit => Promised!LeaseInit
  <1> SUFFICES ASSUME DynamoRunInit PROVE Promised!LeaseInit
    OBVIOUS
  <1>1. \A w \in Workers : ~Active(w)
    BY ProcFacts DEF DynamoRunInit, Active
  <1>2. ~Finished
    BY DEF DynamoRunInit, DynamoStoreInit, Finished
  <1> QED
    BY <1>1, <1>2 DEF Promised!LeaseInit

(* A step that leaves the workers at work and the verdict alone. *)
LEMMA NothingHappens ==
  ASSUME \A v \in Workers : Active(v)' <=> Active(v), Finished' <=> Finished
  PROVE  UNCHANGED Promised!leaseVars
  BY DEF Promised!leaseVars

(* A step after which a worker has given the run up. *)
LEMMA WorkerGivesUp ==
  ASSUME NEW w \in Workers, ~Active(w)',
         \A v \in Workers \ {w} : Active(v)' <=> Active(v), Finished' <=> Finished
  PROVE  Promised!LeaseNext
  <1>1. {v \in Workers : Active(v)'} = {v \in Workers : Active(v)} \ {w}
    OBVIOUS
  <1>2. {r \in {"run"} : Finished'} = {r \in {"run"} : Finished}
    OBVIOUS
  <1>3. Promised!GiveUp({w})
    BY <1>1, <1>2 DEF Promised!GiveUp
  <1>4. {w} \in SUBSET Workers
    OBVIOUS
  <1> QED
    BY <1>3, <1>4 DEF Promised!LeaseNext

(* A worker's step moves that worker only: it is a step of the lease if    *)
(* the worker stays at work or leaves, and the verdict stays.              *)
LEMMA WorkerGoes ==
  ASSUME DynamoInv, NEW w \in Workers, Active(w)' => Active(w),
         \A v \in Workers \ {w} : pc'[v] = pc[v], Finished' <=> Finished
  PROVE  [Promised!LeaseNext]_(Promised!leaseVars)
  <1>1. \A v \in Workers \ {w} : Active(v)' <=> Active(v)
    BY DEF Active
  <1>2. CASE Active(w)'
    <2>1. \A v \in Workers : Active(v)' <=> Active(v)
      BY <1>1, <1>2
    <2> QED
      BY <2>1, NothingHappens
  <1>3. CASE ~Active(w)'
    BY <1>1, <1>3, WorkerGivesUp
  <1> QED
    BY <1>2, <1>3

(* Each step of the backend is a step of the lease, or none. *)
LEMMA LeaseStep ==
  ASSUME DynamoInv, [DynamoRunNext]_dynamoRunVars
  PROVE  [Promised!LeaseNext]_(Promised!leaseVars)
  <1> USE ProcFacts
  <1>1. pc \in [Procs -> Stages]
    BY DEF DynamoInv, DynamoTypes
  <1>2. ASSUME NEW w \in Workers, Receive(w) PROVE Promised!LeaseNext
    <2>1. \A v \in Workers : ~Active(v)
      BY <1>2 DEF Receive, ReceiveMessage, DynamoInv, OneAtWork
    <2>2. pc'[w] = "query_leases" /\ \A v \in Workers \ {w} : pc'[v] = pc[v]
      BY <1>1, <1>2 DEF Receive, Go
    <2>3. {v \in Workers : Active(v)'} = {w} /\ {v \in Workers : Active(v)} = {}
      BY <2>1, <2>2 DEF Active
    <2>4. {r \in {"run"} : Finished'} = {r \in {"run"} : Finished}
      BY <1>2 DEF Receive, metaVars, Finished
    <2>5. Promised!Acquire("run", w)
      BY <2>3, <2>4 DEF Promised!Acquire
    <2> QED
      BY <2>5 DEF Promised!LeaseNext
  <1>3. ASSUME NEW w \in Workers, SetTerminal(w) PROVE Promised!LeaseNext
    <2>1. Active(w) /\ pc'[w] = "query_lease" /\ \A v \in Workers \ {w} : pc'[v] = pc[v]
      BY <1>1, <1>3 DEF SetTerminal, Here, Go, Active
    <2>2. \A v \in Workers : Active(v)' <=> Active(v)
      BY <2>1 DEF Active
    <2>3. Finished'
      BY <1>3 DEF SetTerminal, Finished
    <2>4. {r \in {"run"} : Finished'} = {r \in {"run"} : Finished} \cup {"run"}
      BY <2>3
    <2>5. {v \in Workers : Active(v)'} = {v \in Workers : Active(v)}
      BY <2>2
    <2>6. {v \in Workers : Active(v)} # {}
      BY <2>1
    <2>7. Promised!Finish("run")
      BY <2>4, <2>5, <2>6 DEF Promised!Finish
    <2> QED
      BY <2>7 DEF Promised!LeaseNext
  <1>4. ASSUME NEW w \in Workers, SetRunning(w)
        PROVE  [Promised!LeaseNext]_(Promised!leaseVars)
    <2>1. Active(w) /\ Open(w)
      BY <1>4 DEF SetRunning, Here, Active, Open
    <2>2. ~Finished /\ ~Finished'
      BY <1>4, <2>1 DEF SetRunning, Finished, DynamoInv, OneAtWork
    <2>3. \A v \in Workers \ {w} : pc'[v] = pc[v]
      BY <1>1, <1>4 DEF SetRunning, Go
    <2> QED
      BY <2>1, <2>2, <2>3, WorkerGoes
  <1>5. ASSUME NEW w \in Workers,
               ClaimStep(w) \/ QueueStep(w) \/ CallRaises(w) \/ Crash(w)
               \/ SaveUsage(w) \/ SaveUsageRefused(w)
               \/ GetRun(w) \/ BumpAttempt(w) \/ LoadEvents(w) \/ Boundary(w)
               \/ CheckCancel(w) \/ Invoke(w) \/ EndWorkflow(w) \/ AppendEvent(w)
        PROVE  [Promised!LeaseNext]_(Promised!leaseVars)
    <2>1. status' = status
      <3>1. CASE ClaimStep(w) \/ QueueStep(w)
        BY <3>1 DEF ClaimStep, QueryLeases, PurgeLease, PutLease, QueueStep, QueryLease,
           DeleteRunMessage, DeleteLease, Release, metaVars
      <3>2. CASE CallRaises(w) \/ Crash(w) \/ AppendEvent(w)
        BY <3>2 DEF CallRaises, Crash, AppendEvent, TakeSeq, MirrorSeq, PutAppended, metaVars
      <3> QED
        BY <1>5, <3>1, <3>2 DEF GetRun, BumpAttempt, LoadEvents, Boundary, CheckCancel,
           Invoke, EndWorkflow, SaveUsage, SaveUsageRefused, metaVars
    <2>2. Finished' <=> Finished
      BY <2>1 DEF Finished
    <2>3. \A v \in Workers \ {w} : pc'[v] = pc[v]
      <3>1. CASE ClaimStep(w) \/ QueueStep(w)
        BY <1>1, <3>1 DEF ClaimStep, QueryLeases, PurgeLease, PutLease, QueueStep,
           QueryLease, DeleteRunMessage, DeleteLease, Release, Go, Leave
      <3>2. CASE SaveUsageRefused(w) \/ CallRaises(w) \/ Crash(w) \/ AppendEvent(w)
        BY <1>1, <3>2 DEF SaveUsageRefused, ExecuteRaises, CallRaises, Crash, AppendEvent,
           TakeSeq, MirrorSeq, PutAppended, Go, Leave, BeginAppend
      <3> QED
        BY <1>1, <1>5, <3>1, <3>2 DEF GetRun, BumpAttempt, LoadEvents, Boundary,
           CheckCancel, Invoke, EndWorkflow, SaveUsage, Go, Leave, BeginAppend
    <2>4. Active(w)' => Active(w)
      <3>1. CASE ClaimStep(w) \/ QueueStep(w)
        BY <3>1 DEF ClaimStep, QueryLeases, PurgeLease, PutLease, QueueStep, QueryLease,
           DeleteRunMessage, DeleteLease, Release, Here, Active
      <3>2. CASE AppendEvent(w)
        BY <3>2 DEF AppendEvent, TakeSeq, MirrorSeq, PutAppended, Here, Active
      <3>3. CASE SaveUsageRefused(w) \/ CallRaises(w) \/ Crash(w)
        BY <1>1, <3>3 DEF SaveUsageRefused, ExecuteRaises, CallRaises, Crash, InWorkflow,
           Leave, Go, Active
      <3> QED
        BY <1>5, <3>1, <3>2, <3>3 DEF GetRun, BumpAttempt, LoadEvents, Boundary,
           CheckCancel, Invoke, EndWorkflow, SaveUsage, Here, Active
    <2> QED
      BY <2>2, <2>3, <2>4, WorkerGoes
  <1>6. ASSUME NEW p \in Procs \ Workers, AppendEvent(p) \/ (p = Canceller /\ RequestCancel)
        PROVE  UNCHANGED Promised!leaseVars
    <2>1. \A v \in Workers : pc'[v] = pc[v]
      BY <1>1, <1>6 DEF AppendEvent, TakeSeq, MirrorSeq, PutAppended, RequestCancel,
         BeginAppend, Go
    <2>2. status' = status
      BY <1>6 DEF AppendEvent, TakeSeq, MirrorSeq, PutAppended, RequestCancel, metaVars
    <2>3. (\A v \in Workers : Active(v)' <=> Active(v)) /\ (Finished' <=> Finished)
      BY <2>1, <2>2 DEF Active, Finished
    <2> QED
      BY <2>3, NothingHappens
  <1>7. ASSUME VisibilityLapses \/ UNCHANGED dynamoRunVars
        PROVE  UNCHANGED Promised!leaseVars
    <2>1. pc' = pc /\ status' = status
      BY <1>7 DEF VisibilityLapses, dynamoRunVars, procVars, metaVars
    <2>2. (\A v \in Workers : Active(v)' <=> Active(v)) /\ (Finished' <=> Finished)
      BY <2>1 DEF Active, Finished
    <2> QED
      BY <2>2, NothingHappens
  <1>8. ASSUME NEW w \in Workers, WorkerStep(w)
        PROVE  [Promised!LeaseNext]_(Promised!leaseVars)
    BY <1>3, <1>4, <1>5, <1>8 DEF WorkerStep, AttemptStep
  <1> QED
    BY <1>2, <1>5, <1>6, <1>7, <1>8 DEF DynamoRunNext

(* The visibility timeout and the LEASE# items together keep the lease the *)
(* Store protocol promises: one worker at a time, and a terminal status    *)
(* that stays although set_status has no condition.                        *)
THEOREM DynamoKeepsLease == DynamoRunSpec => KeepsLease
  <1>1. DynamoInv /\ [DynamoRunNext]_dynamoRunVars
          => [Promised!LeaseNext]_(Promised!leaseVars)
    BY LeaseStep
  <1> QED
    BY <1>1, LeaseStart, DynamoInvariant, PTL
       DEF DynamoRunSpec, KeepsLease, Promised!LeaseSpec
=============================================================================
