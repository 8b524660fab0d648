----------------------------- MODULE ReplayLoop -----------------------------
(***************************************************************************)
(* _build_replay_state (src/anchor/context.py) as the loop it is: it reads *)
(* a run's log one event at a time and keeps two dictionaries.  The rest   *)
(* of the project uses what the loop computes, Recorded and Unresolved of  *)
(* RunLog; this module checks that it computes that, for any log, in       *)
(* particular for logs that two workers have interleaved.                  *)
(***************************************************************************)
EXTENDS RunLog

CONSTANT MaxEvents   \* bound: events read

ASSUME MaxEventsAssumption == MaxEvents \in Nat

VARIABLES
  events,      \* the events read so far
  completed,   \* _completed, {} where there is no entry
  pending      \* the keys of _unresolved

loopVars == <<events, completed, pending>>

(* The events that are written: only StepCompleted carries a result. *)
Quiet == EventType \ {"StepCompleted"}
WrittenEvent ==
  {RunEvent(y) : y \in Quiet}
    \cup {StepEvent(y, k) : y \in Quiet, k \in Keys}
    \cup {CompletedEvent(k, v) : k \in Keys, v \in Results}

LoopTypeOK ==
  /\ events \in Seq(Event)
  /\ completed \in [Keys -> SUBSET Results]
  /\ pending \in SUBSET Keys

LoopInit ==
  /\ events = << >>
  /\ completed = [k \in Keys |-> {}]
  /\ pending = {}

(* Mutant: events without a step key are not passed over. *)
KeylessReadEvent(e) ==
  /\ events' = Append(events, e)
  /\ pending' = IF e.type = "StepCompleted" THEN pending \ {e.key}
                                            ELSE pending \cup {e.key}
  /\ UNCHANGED completed

(* Mutant: StepFailed does not close the crash window. *)
StickyReadEvent(e) ==
  /\ events' = Append(events, e)
  /\ completed' = IF e.key \in Keys /\ e.type = "StepCompleted"
                  THEN [completed EXCEPT ![e.key] = e.val]
                  ELSE completed
  /\ pending' = CASE e.key \in Keys /\ e.type = "StepStarted" -> pending \cup {e.key}
                  [] e.key \in Keys /\ e.type = "StepCompleted" -> pending \ {e.key}
                  [] OTHER -> pending

(* One turn of the loop; an event without a step key is passed over. *)
ReadEvent(e) ==
  /\ events' = Append(events, e)
  /\ completed' = IF e.key \in Keys /\ e.type = "StepCompleted"
                  THEN [completed EXCEPT ![e.key] = e.val]
                  ELSE completed
  /\ pending' = CASE e.key \in Keys /\ e.type = "StepStarted" -> pending \cup {e.key}
                  [] e.key \in Keys /\ e.type \in {"StepCompleted", "StepFailed"}
                       -> pending \ {e.key}
                  [] OTHER -> pending

LoopNext ==
  /\ Len(events) < MaxEvents
  /\ \E e \in WrittenEvent : ReadEvent(e)

LoopSpec == LoopInit /\ [][LoopNext]_loopVars

(* The loop computes the memo and the crash windows that the attempts of   *)
(* the other modules read out of the log: the last result of every step,   *)
(* and the steps that were started after their last outcome.               *)
LoopIsClosedForm ==
  /\ \A k \in Keys : completed[k] = Recorded(events, k)
  /\ pending = Unresolved(events)
=============================================================================
