---------------------------- MODULE Correctness ----------------------------
(***************************************************************************)
(* What the runtime promises about a run.  The first part holds whatever   *)
(* happens to leases; the second part needs leases that are renewed in     *)
(* time (Timely); the third states what the documents promise and          *)
(* the code does not keep.                                                 *)
(***************************************************************************)
EXTENDS Worker

Completed(k) == Recorded(log, k) # {}

(***************************************************************************)
(* In every environment                                                    *)
(***************************************************************************)

(* No work is lost silently: a StepCompleted event is only ever written    *)
(* for an effect that happened downstream, and set_status(COMPLETED) is    *)
(* only reached when every step of the workflow is in the log, whichever   *)
(* attempts and workers executed, replayed or recovered the steps.         *)
NoSilentDrop ==
  /\ \A k \in Keys : Completed(k) => landed[k] > 0
  /\ status = "COMPLETED" => \A k \in Keys : Completed(k)

(* Every effect is accounted for: a body never takes effect more often     *)
(* than StepStarted and StepRetried events announced it, so that an        *)
(* operator who reads the log of a crashed run sees every attempt.         *)
EffectsAccounted ==
  \A k \in Keys :
    landed[k] <= Cardinality(At(log, "StepStarted", k) \cup At(log, "StepRetried", k))

(* The persisted counters pass a ceiling by no more than the retries of    *)
(* the one step that was running when it was reached, over all attempts:   *)
(* budget.check() runs at boundaries, and a restart reloads the counters.  *)
SpendWithinCeiling ==
  /\ \A m \in MaxToolCalls : usage.tool_calls < m + StepMaxAttempts
  /\ \A m \in MaxModelCalls : usage.model_calls <= m

(* Replayed steps are not billed again: runs.usage counts no more model    *)
(* calls than there are completed model steps in the log, although every   *)
(* attempt starts from the usage an earlier one left.                      *)
BilledAtMostOnce ==
  usage.model_calls <= Cardinality({k \in Models : Completed(k)})

VerdictOf(s) ==
  CASE s = "COMPLETED" -> "RunCompleted"
    [] s = "FAILED" -> "RunFailed"
    [] s = "CANCELLED" -> "RunCancelled"
    [] s = "NEEDS_REVIEW" -> "RunNeedsReview"

Verdicts == {i \in DOMAIN log : \E s \in Terminal : log[i].type = VerdictOf(s)}

(* The terminal status on the run's row is never news: the log holds the   *)
(* verdict it repeats, whichever worker wrote the row last.                *)
VerdictLogged ==
  status \in Terminal => \E i \in Verdicts : log[i].type = VerdictOf(status)

(***************************************************************************)
(* With timely leases                                                      *)
(***************************************************************************)

(* Mutual exclusion: at most one task of all workers works on the run, and *)
(* its worker holds the lease, through claims, releases, crashes, faults   *)
(* and duplicate deliveries.                                               *)
SingleOwner ==
  \A t \in Tasks : Active(t) =>
    /\ HoldsLease(WorkerOf(t))
    /\ \A u \in Tasks \ {t} : ~Active(u)

(* A terminal status is final although set_status does not look at the     *)
(* status it overwrites.                                                   *)
TerminalIsFinal == [][(status \in Terminal) => (status' = status)]_vars

(* A run that is not finished has a queue row, so that a worker can find   *)
(* it: dequeue() only follows a terminal status.                           *)
NotStranded == status \notin Terminal => queue # "absent"

(* A step has one outcome: the result that one attempt wrote is the one    *)
(* that every later attempt replays.                                       *)
OneOutcomePerStep ==
  \A k \in Keys : Cardinality(At(log, "StepCompleted", k)) <= 1

(* An AT_MOST_ONCE effect happens at most once, over crashes, faults and   *)
(* redeliveries, if its own body does not raise, whatever the others do    *)
(* (and without any help from a downstream system that dedupes).           *)
AtMostOnceEffect == \A k \in AtMostOnce \ Raising : landed[k] <= 1

(* Without that restriction on bodies, an AT_MOST_ONCE effect is repeated  *)
(* only after a try that the log shows to have failed: the retry loop runs *)
(* a body that raised again whatever its class, a crash never does.        *)
RepeatsAreShown ==
  \A k \in AtMostOnce :
    landed[k] <= 1 + Cardinality(At(log, "StepRetried", k) \cup At(log, "StepFailed", k))

(* A crash between StepCompleted and save_usage loses the usage of a model *)
(* call for good, and no more than that: a finished run has billed every   *)
(* model call in its log but at most one of each attempt before the last,  *)
(* and one of the last if a store call raised in that window.              *)
UsageLossBounded ==
  status \in Terminal =>
    Cardinality({k \in Models : Completed(k)}) < usage.model_calls + attempt + faults

(* A run is parked for review for a reason: a step declared AT_MOST_ONCE   *)
(* is unresolved in the log, and a verifier, if there is one, cannot tell  *)
(* that it landed.                                                         *)
ReviewIsHonest ==
  status = "NEEDS_REVIEW" =>
    \E k \in AtMostOnce \cap Unresolved(log) : k \in Verifiable => landed[k] = 0

(* After a cancel request the run starts no step but the one whose         *)
(* boundary had already read the flag.                                     *)
CancelStopsNewSteps ==
  \A c \in At(log, "CancelRequested", NoKey) :
    Cardinality({i \in DOMAIN log : i > c /\ log[i].type = "StepStarted"}) <= 1

(* The row repeats the last verdict in the log, not an older one.          *)
VerdictIsLatest ==
  status \in Terminal =>
    \E i \in Verdicts : /\ log[i].type = VerdictOf(status)
                        /\ \A j \in Verdicts : j <= i

(* Every run is driven to a terminal status and leaves the queue, through  *)
(* a crash, a drain and a store fault, as long as one worker is up.        *)
Finishes == <>[](status \in Terminal /\ queue = "absent")

(***************************************************************************)
(* What the documents promise and the code does not keep                   *)
(***************************************************************************)

(* A run that is not finished is in the queue or in somebody's hands: a    *)
(* stale worker, which stops at its next boundary, leaves it to the new    *)
(* owner.                                                                  *)
NotAbandoned == NotStranded \/ \E t \in Tasks : Active(t)
=============================================================================
