-------------------------- MODULE ReplayLoopProofs --------------------------
(***************************************************************************)
(* The loop of _build_replay_state computes Recorded and Unresolved, for   *)
(* logs of any length over any steps and results.                          *)
(***************************************************************************)
EXTENDS ReplayLoop, RunLogProofs

(* Every event that is written is an event. *)
LEMMA WrittenEventType == WrittenEvent \subseteq Event
  <1>1. \A y \in Quiet : RunEvent(y) \in Event
    BY DEF RunEvent, Event, Quiet
  <1>2. \A y \in Quiet, k \in Keys : StepEvent(y, k) \in Event
    BY DEF StepEvent, Event, Quiet
  <1>3. \A k \in Keys, v \in Results : CompletedEvent(k, v) \in Event
    BY DEF CompletedEvent, Event, EventType
  <1> QED
    BY <1>1, <1>2, <1>3 DEF WrittenEvent

(* The inductive invariant. *)
LoopInv == LoopTypeOK /\ LoopIsClosedForm

(* The loop starts with what an empty log holds. *)
LEMMA LoopStart == LoopInit => LoopInv
  <1> SUFFICES ASSUME LoopInit PROVE LoopInv
    OBVIOUS
  <1>1. LoopTypeOK
    BY DEF LoopInit, LoopTypeOK
  <1>2. \A y, k : At(<< >>, y, k) = {}
    BY DEF At
  <1>3. LoopIsClosedForm
    BY <1>2 DEF LoopInit, LoopIsClosedForm, Recorded, Unresolved
  <1> QED
    BY <1>1, <1>3 DEF LoopInv

(* One turn of the loop keeps the two dictionaries in step with the log. *)
LEMMA LoopTurn ==
  ASSUME LoopInv, NEW e \in Event, ReadEvent(e)
  PROVE  LoopInv'
  <1> USE DEF LoopInv, LoopTypeOK, LoopIsClosedForm
  <1>1. LoopTypeOK'
    <2>1. e.val \in SUBSET Results
      BY DEF Event
    <2> QED
      BY <2>1 DEF ReadEvent
  <1>2. ASSUME NEW k \in Keys
        PROVE  completed'[k] = Recorded(events', k)
    <2>1. CASE e.type = "StepCompleted" /\ e.key = k
      BY <2>1, RecordedAppendCompleted DEF ReadEvent
    <2>2. CASE ~(e.type = "StepCompleted" /\ e.key = k)
      <3>1. Recorded(events', k) = Recorded(events, k)
        BY <2>2, RecordedAppendOther DEF ReadEvent
      <3>2. completed'[k] = completed[k]
        BY <2>2 DEF ReadEvent
      <3> QED
        BY <3>1, <3>2
    <2> QED
      BY <2>1, <2>2
  <1>3. pending' = Unresolved(events')
    <2>1. Unresolved(events') =
            {k \in Keys : \/ e.type = "StepStarted" /\ e.key = k
                          \/ /\ k \in pending
                             /\ ~(e.type \in {"StepCompleted", "StepFailed"} /\ e.key = k)}
      BY UnresolvedAppend DEF ReadEvent
    <2> QED
      BY <2>1 DEF ReadEvent
  <1> QED
    BY <1>1, <1>2, <1>3

(* The invariant of the loop, for every log. *)
LEMMA LoopInvariant == LoopSpec => []LoopInv
  <1>1. LoopInv /\ [LoopNext]_loopVars => LoopInv'
    <2> SUFFICES ASSUME LoopInv, [LoopNext]_loopVars PROVE LoopInv'
      OBVIOUS
    <2>1. CASE LoopNext
      BY <2>1, LoopTurn, WrittenEventType DEF LoopNext
    <2>2. CASE UNCHANGED loopVars
      BY <2>2 DEF loopVars, LoopInv, LoopTypeOK, LoopIsClosedForm
    <2> QED
      BY <2>1, <2>2
  <1> QED
    BY <1>1, LoopStart, PTL DEF LoopSpec

(* The dictionaries hold results and keys of steps, whatever the log. *)
THEOREM LoopTypeCorrect == LoopSpec => []LoopTypeOK
  <1>1. LoopInv => LoopTypeOK
    BY DEF LoopInv
  <1> QED
    BY <1>1, LoopInvariant, PTL

(* The dictionaries _build_replay_state returns are, for every log, the    *)
(* last result of every step and the steps whose last start has no outcome.*)
THEOREM LoopCorrect == LoopSpec => []LoopIsClosedForm
  <1>1. LoopInv => LoopIsClosedForm
    BY DEF LoopInv
  <1> QED
    BY <1>1, LoopInvariant, PTL
=============================================================================
