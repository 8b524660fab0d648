------------------------------- MODULE Gather -------------------------------
(***************************************************************************)
(* RunContext.gather (src/anchor/context.py): a workflow that fans out     *)
(* into branches, each a durable step of its own, and returns the list of  *)
(* their results.  asyncio.gather hands on the first exception of a branch *)
(* and lets the others run: the attempt goes on to its verdict while its   *)
(* siblings still write to the log, until they end or the process dies.    *)
(*                                                                         *)
(* The keys of the module RunLog are the branches, numbered in list order. *)
(* Leases do not lapse under a live attempt and store calls do not raise.  *)
(* Bodies raise before they have had an effect or not at all.  Cancels and *)
(* budgets, two more exceptions of a boundary, are left to RunContext, and *)
(* so are RunResumed and the usage that an attempt saves.                  *)
(***************************************************************************)
EXTENDS RunLog, FiniteSets

CONSTANTS
  Workers, NoWorker,
  StepMaxAttempts,
  MaxDeliveries

ASSUME GatherAssumption ==
  /\ NoWorker \notin Workers
  /\ StepMaxAttempts \in Nat \ {0} /\ MaxDeliveries \in Nat

VARIABLES
  log, status, result,  \* the run
  queue, owner,         \* its queue row
  landed,     \* how often each branch has had its effect
  main,       \* where each attempt is
  who,        \* the worker of each attempt
  error,      \* the first exception of its branches
  memo,       \* its _completed
  unresolved, \* its _unresolved
  branch,     \* where each branch task of each attempt is
  tries,      \* the tries it has made
  down,       \* the workers that have died
  atMostOnce  \* whether gather is called with idempotency=AT_MOST_ONCE

runVars == <<log, status, result>>
queueVars == <<queue, owner>>
mainVars == <<main, who, error>>
branchVars == <<memo, unresolved, branch, tries>>
envVars == <<down, atMostOnce>>
gatherVars == <<runVars, queueVars, landed, mainVars, branchVars, envVars>>

Attempts == 1 .. MaxDeliveries
Terminal == {"COMPLETED", "FAILED", "NEEDS_REVIEW"}
Ended == {"none", "done", "raised", "refused", "dead"}

GatherInit ==
  /\ log = <<RunEvent("RunStarted")>> /\ status = "PENDING"
  /\ result = <<>>
  /\ queue = "free" /\ owner = NoWorker
  /\ landed = [k \in Keys |-> 0]
  /\ main = [a \in Attempts |-> "none"]
  /\ who = [a \in Attempts |-> NoWorker]
  /\ error = [a \in Attempts |-> {}]
  /\ memo = [a \in Attempts |-> [k \in Keys |-> {}]]
  /\ unresolved = [a \in Attempts |-> {}]
  /\ branch = [a \in Attempts |-> [k \in Keys |-> "none"]]
  /\ tries = [a \in Attempts |-> [k \in Keys |-> 0]]
  /\ down = {} /\ atMostOnce \in BOOLEAN

Working(a) == main[a] \notin {"none", "over"}
Busy(w) == \E a \in Attempts : who[a] = w /\ Working(a)
Holds(w) == queue = "held" /\ owner = w

GoMain(a, there) == main' = [main EXCEPT ![a] = there]
GoBranch(a, k, there) == branch' = [branch EXCEPT ![a][k] = there]

-----------------------------------------------------------------------------
(* A branch: _step_with_key *)

(* Its exception reaches gather, which passes on the first one. *)
Raise(a, k, e, there) ==
  /\ GoBranch(a, k, there)
  /\ error' = [error EXCEPT ![a] = IF @ = {} THEN {e} ELSE @]

(* Mutant: a crash window is not looked for. *)
CarelessBoundary(a, k) ==
  /\ branch[a][k] = "boundary"
  /\ Holds(who[a])
  /\ GoBranch(a, k, "start") /\ UNCHANGED error
  /\ UNCHANGED <<runVars, queueVars, landed, main, who, memo, unresolved, tries, envVars>>

(* The guards, and what to do about a crash window. *)
Boundary(a, k) ==
  /\ branch[a][k] = "boundary"
  /\ \/ ~Holds(who[a]) /\ Raise(a, k, "LeaseLost", "raised")
     \/ /\ Holds(who[a])
        /\ \/ k \notin unresolved[a] /\ GoBranch(a, k, "start") /\ UNCHANGED error
           \/ k \in unresolved[a] /\ ~atMostOnce /\ GoBranch(a, k, "restart") /\ UNCHANGED error
           \/ /\ k \in unresolved[a] /\ atMostOnce
              /\ Raise(a, k, "AmbiguousStepError", "raised")
  /\ UNCHANGED <<runVars, queueVars, landed, main, who, memo, unresolved, tries, envVars>>

(* An event of the branch, and where it goes from there. *)
Write(a, k, here, e, there) ==
  /\ branch[a][k] = here
  /\ log' = Append(log, e)
  /\ GoBranch(a, k, there)
  /\ UNCHANGED <<status, result, queueVars, landed, mainVars, memo, unresolved,
                 tries, envVars>>

InvokeLands(a, k) ==
  /\ branch[a][k] = "invoke"
  /\ landed' = [landed EXCEPT ![k] = @ + 1]
  /\ GoBranch(a, k, "return")
  /\ UNCHANGED <<runVars, queueVars, mainVars, memo, unresolved, tries, envVars>>

InvokeRaises(a, k) ==
  /\ branch[a][k] = "invoke"
  /\ tries' = [tries EXCEPT ![a][k] = @ + 1]
  /\ GoBranch(a, k, IF tries'[a][k] < StepMaxAttempts THEN "retry" ELSE "fail")
  /\ UNCHANGED <<runVars, queueVars, landed, mainVars, memo, unresolved, envVars>>

WriteStepCompleted(a, k) ==
  /\ branch[a][k] = "return"
  /\ \E v \in Results : /\ log' = Append(log, CompletedEvent(k, v))
                        /\ memo' = [memo EXCEPT ![a][k] = {v}]
  /\ GoBranch(a, k, "done")
  /\ UNCHANGED <<status, result, queueVars, landed, mainVars, unresolved, tries,
                 envVars>>

(* _ensure_json: a result that cannot be stored is refused after the       *)
(* effect, so nothing is recorded.                                         *)
RefuseResult(a, k) ==
  /\ branch[a][k] = "return"
  /\ Raise(a, k, "TypeError", "refused")
  /\ UNCHANGED <<runVars, queueVars, landed, main, who, memo, unresolved, tries, envVars>>

WriteStepFailed(a, k) ==
  /\ branch[a][k] = "fail"
  /\ log' = Append(log, StepEvent("StepFailed", k))
  /\ Raise(a, k, "StepFailedError", "raised")
  /\ UNCHANGED <<status, result, queueVars, landed, main, who, memo, unresolved,
                 tries, envVars>>

BranchStep(a, k) ==
  \/ Boundary(a, k) \/ InvokeLands(a, k) \/ InvokeRaises(a, k)
  \/ Write(a, k, "start", StepEvent("StepStarted", k), "invoke")
  \/ Write(a, k, "restart", StepEvent("StepRetried", k), "invoke")
  \/ Write(a, k, "retry", StepEvent("StepRetried", k), "invoke")
  \/ WriteStepCompleted(a, k) \/ RefuseResult(a, k) \/ WriteStepFailed(a, k)

-----------------------------------------------------------------------------
(* The attempt *)

Claim(w, a) ==
  /\ w \notin down /\ ~Busy(w) /\ queue = "free"
  /\ main[a] = "none" /\ \A b \in 1 .. (a - 1) : main[b] # "none"
  /\ queue' = "held" /\ owner' = w
  /\ who' = [who EXCEPT ![a] = w]
  /\ GoMain(a, IF status \in Terminal THEN "dequeue" ELSE "load")
  /\ UNCHANGED <<runVars, landed, error, branchVars, envVars>>

(* The log is replayed, and gather starts a task for every branch. *)
Fork(a) ==
  /\ main[a] = "load"
  /\ status' = "RUNNING"
  /\ memo' = [memo EXCEPT ![a] = [k \in Keys |-> Recorded(log, k)]]
  /\ unresolved' = [unresolved EXCEPT ![a] = Unresolved(log)]
  /\ branch' = [branch EXCEPT ![a] =
                  [k \in Keys |-> IF Recorded(log, k) = {} THEN "boundary" ELSE "done"]]
  /\ GoMain(a, "gather")
  /\ UNCHANGED <<log, result, queueVars, landed, who, error, tries, envVars>>

(* Mutant: the results in the order in which the branches finished. *)
HastyGathered(a) ==
  LET finished == SelectSeq(log, LAMBDA e : e.type = "StepCompleted")
  IN [k \in Keys |-> finished[k].val]

(* The results, in list order. *)
Gathered(a) == [k \in Keys |-> memo[a][k]]

Join(a) ==
  /\ main[a] = "gather"
  /\ \A k \in Keys : branch[a][k] = "done"
  /\ GoMain(a, "verdict")
  /\ UNCHANGED <<runVars, queueVars, landed, who, error, branchVars, envVars>>

(* Mutant: the siblings of the branch that raised are cancelled. *)
CancellingUnwind(a) ==
  /\ main[a] = "gather" /\ error[a] # {}
  /\ GoMain(a, IF error[a] = {"LeaseLost"} THEN "over" ELSE "verdict")
  /\ branch' = [branch EXCEPT ![a] =
                  [k \in Keys |-> IF @[k] \in Ended THEN @[k] ELSE "dead"]]
  /\ UNCHANGED <<runVars, queueVars, landed, who, error, memo, unresolved, tries, envVars>>

(* gather raises what the first branch raised and leaves the others alone. *)
Unwind(a) ==
  /\ main[a] = "gather" /\ error[a] # {}
  /\ GoMain(a, IF error[a] = {"LeaseLost"} THEN "over" ELSE "verdict")
  /\ UNCHANGED <<runVars, queueVars, landed, who, error, branchVars, envVars>>

Verdict(a) ==
  CASE error[a] = {} -> <<"RunCompleted", "COMPLETED">>
    [] error[a] \in {{"StepFailedError"}, {"TypeError"}} -> <<"RunFailed", "FAILED">>
    [] error[a] = {"AmbiguousStepError"} -> <<"RunNeedsReview", "NEEDS_REVIEW">>

WriteVerdict(a) ==
  /\ main[a] = "verdict"
  /\ log' = Append(log, RunEvent(Verdict(a)[1]))
  /\ GoMain(a, "set_status")
  /\ UNCHANGED <<status, result, queueVars, landed, who, error, branchVars,
                 envVars>>

SetStatus(a) ==
  /\ main[a] = "set_status"
  /\ status' = Verdict(a)[2]
  /\ result' = IF status' = "COMPLETED" THEN Gathered(a) ELSE result
  /\ GoMain(a, "dequeue")
  /\ UNCHANGED <<log, queueVars, landed, who, error, branchVars, envVars>>

Dequeue(a) ==
  /\ main[a] = "dequeue"
  /\ queue' = "absent" /\ owner' = NoWorker
  /\ GoMain(a, "over")
  /\ UNCHANGED <<runVars, landed, who, error, branchVars, envVars>>

AttemptStep(a) ==
  Fork(a) \/ Join(a) \/ Unwind(a) \/ WriteVerdict(a) \/ SetStatus(a) \/ Dequeue(a)

-----------------------------------------------------------------------------
(* The environment *)

(* SIGKILL, or the end of asyncio.run, which cancels what is left. *)
Crash(w) ==
  /\ w \notin down /\ down \cup {w} # Workers
  /\ down' = down \cup {w}
  /\ main' = [a \in Attempts |-> IF who[a] = w THEN "over" ELSE main[a]]
  /\ branch' = [a \in Attempts |-> [k \in Keys |->
                 IF who[a] = w /\ branch[a][k] \notin Ended THEN "dead" ELSE branch[a][k]]]
  /\ UNCHANGED <<runVars, queueVars, landed, who, error, memo, unresolved, tries, atMostOnce>>

LeaseLapses ==
  /\ queue = "held" /\ ~Busy(owner)
  /\ queue' = "free" /\ owner' = NoWorker
  /\ UNCHANGED <<runVars, landed, mainVars, branchVars, envVars>>

GatherNext ==
  \/ \E a \in Attempts : \/ \E w \in Workers : Claim(w, a)
                         \/ AttemptStep(a)
                         \/ \E k \in Keys : BranchStep(a, k)
  \/ \E w \in Workers : Crash(w)
  \/ LeaseLapses

GatherSpec == GatherInit /\ [][GatherNext]_gatherVars

-----------------------------------------------------------------------------
AllEnded == \A a \in Attempts, k \in Keys : branch[a][k] \in Ended

(* A completed fan-out returned, in list order, what the log holds for     *)
(* each branch, whichever attempts executed or replayed the branches and   *)
(* in whichever order they finished.                                       *)
ResultsLineUp ==
  status = "COMPLETED" =>
    \A k \in Keys : result[k] = Recorded(log, k) /\ result[k] # {}

(* The effect of an AT_MOST_ONCE branch happens at most once, although the *)
(* branches that outlive a failed sibling go on through the verdict, and a *)
(* crash may leave any of them, before or after it, to the next delivery.  *)
BranchAtMostOnce ==
  atMostOnce => \A k \in Keys : landed[k] <= 1

(* An attempt of this branch returned what cannot be stored. *)
Refused(k) == \E a \in Attempts : branch[a][k] = "refused"

(* Unless its process dies, or its result is refused, a branch that        *)
(* outlives the failed one still records its effect, even after the        *)
(* verdict of the run.                                                     *)
NothingUnrecorded ==
  AllEnded /\ down = {} =>
    \A k \in Keys : landed[k] > 0 /\ ~Refused(k) => Recorded(log, k) # {}
=============================================================================
