---------------------------- MODULE GatherProofs ----------------------------
(***************************************************************************)
(* What a fan-out keeps for any number of branches, workers, deliveries    *)
(* and tries, although the branches that outlive a failed sibling go on    *)
(* writing through the verdict and beyond.                                 *)
(***************************************************************************)
EXTENDS Gather, RunLogProofs

(* Where an attempt and a branch can be, and what a branch can raise. *)
MainStages == {"none", "load", "gather", "verdict", "set_status", "dequeue", "over"}
BranchStages ==
  {"none", "boundary", "start", "restart", "retry", "invoke", "return", "fail",
   "done", "raised", "refused", "dead"}
Errors == {"LeaseLost", "AmbiguousStepError", "StepFailedError", "TypeError"}

(* What the variables hold. *)
GatherTypes ==
  /\ log \in Seq(Event)
  /\ landed \in [Keys -> Nat]
  /\ main \in [Attempts -> MainStages]
  /\ who \in [Attempts -> Workers \cup {NoWorker}]
  /\ error \in [Attempts -> {{}} \cup {{x} : x \in Errors}]
  /\ memo \in [Attempts -> [Keys -> SUBSET Results]]
  /\ unresolved \in [Attempts -> SUBSET Keys]
  /\ branch \in [Attempts -> [Keys -> BranchStages]]

(* An attempt before its status is set, and one that has forked. *)
Engaged(a) == main[a] \in {"load", "gather", "verdict", "set_status"}
Forked(a) == main[a] \in {"gather", "verdict", "set_status"}

(* A branch whose task is still running. *)
Live(a, k) == branch[a][k] \notin Ended

(* The queue gives the run to one attempt at a time, and to none that      *)
(* would execute it once it has a verdict.                                 *)
OneAttempt ==
  /\ \A a, b \in Attempts : Working(a) /\ Working(b) => a = b
  /\ \A a \in Attempts : Working(a) => Holds(who[a]) /\ error[a] # {"LeaseLost"}
  /\ \A a \in Attempts : Engaged(a) => status \notin Terminal

(* Only one attempt has branches that run: the one that is at work, or the *)
(* one whose failure the run has ended with.                               *)
OneFan ==
  /\ \A a, b \in Attempts, j, k \in Keys : Live(a, j) /\ Live(b, k) => a = b
  /\ \A a \in Attempts, k \in Keys :
       Live(a, k) => Forked(a) \/ status \in {"FAILED", "NEEDS_REVIEW"}
  /\ \A a \in Attempts : main[a] \in {"none", "load"} =>
       error[a] = {} /\ \A k \in Keys : branch[a][k] = "none"

(* An attempt at work knows what the log holds, and completes only when    *)
(* all its branches have.                                                  *)
InStepWithLog ==
  \A a \in Attempts :
    /\ Forked(a) => \A k \in Keys :
         /\ memo[a][k] = Recorded(log, k)
         /\ branch[a][k] = "done" => memo[a][k] # {}
    /\ main[a] \in {"verdict", "set_status"} /\ error[a] = {} =>
         \A k \in Keys : branch[a][k] = "done"

(* An AT_MOST_ONCE effect leaves its mark: an outcome or a crash window.   *)
(* A branch that may still have its effect has not had it.                 *)
EffectsMarked ==
  atMostOnce => \A k \in Keys :
    /\ landed[k] <= 1
    /\ landed[k] > 0 => Recorded(log, k) # {} \/ k \in Unresolved(log)
    /\ \A a \in Attempts :
         /\ branch[a][k] \in {"start", "invoke", "retry", "fail"} => landed[k] = 0
         /\ branch[a][k] = "boundary" /\ k \notin unresolved[a] => landed[k] = 0
         /\ branch[a][k] \in {"invoke", "return", "retry", "fail"} => k \in Unresolved(log)
         /\ branch[a][k] # "restart"

(* Where nobody died an effect is recorded or about to be, unless its      *)
(* result was refused.                                                     *)
EffectsRecorded ==
  down = {} => \A k \in Keys :
    landed[k] > 0 => Recorded(log, k) # {}
                     \/ \E a \in Attempts : branch[a][k] \in {"return", "refused"}

(* The inductive invariant. *)
GatherInv ==
  /\ GatherTypes /\ OneAttempt /\ OneFan /\ InStepWithLog /\ ResultsLineUp
  /\ EffectsMarked /\ EffectsRecorded

-----------------------------------------------------------------------------
(* While an attempt has a live branch, no other is between fork and        *)
(* verdict, no other has a live branch, and the run has not completed.     *)
LEMMA LiveFacts ==
  ASSUME GatherInv, NEW a \in Attempts, NEW k \in Keys, Live(a, k)
  PROVE  /\ \A b \in Attempts : Engaged(b) => b = a
         /\ \A b \in Attempts, j \in Keys : Live(b, j) => b = a
         /\ status # "COMPLETED"
         /\ main[a] \notin {"none", "load"}
  <1> USE DEF GatherInv
  <1>1. \A b \in Attempts, j \in Keys : Live(b, j) => b = a
    BY DEF OneFan
  <1>2. Forked(a) \/ status \in {"FAILED", "NEEDS_REVIEW"}
    BY DEF OneFan
  <1>3. \A b \in Attempts : (Forked(b) => Engaged(b)) /\ (Engaged(b) => Working(b))
    BY DEF Forked, Engaged, Working
  <1>4. \A b \in Attempts : Engaged(b) => status \notin Terminal
    BY DEF OneAttempt
  <1>5. status # "COMPLETED"
    BY <1>2, <1>3, <1>4 DEF Terminal
  <1>6. \A b \in Attempts : Engaged(b) => b = a
    BY <1>2, <1>3, <1>4 DEF OneAttempt, Terminal
  <1>7. main[a] \notin {"none", "load"}
    BY DEF OneFan, Live, Ended
  <1> QED
    BY <1>1, <1>5, <1>6, <1>7

(* A step of one branch: what has to be seen to for its own key. *)
LEMMA BranchMoves ==
  ASSUME GatherInv, GatherTypes', NEW a \in Attempts, NEW k \in Keys, Live(a, k),
         UNCHANGED <<status, result, queueVars, main, who, unresolved, envVars>>,
         \A b \in Attempts, j \in Keys : b # a \/ j # k => branch'[b][j] = branch[b][j],
         \A b \in Attempts \ {a} : error'[b] = error[b],
         error'[a] = {} => error[a] = {},
         Working(a) => error'[a] # {"LeaseLost"},
         \A b \in Attempts, j \in Keys : b # a \/ j # k => memo'[b][j] = memo[b][j],
         \A j \in Keys \ {k} : /\ landed'[j] = landed[j]
                               /\ Recorded(log', j) = Recorded(log, j)
                               /\ j \in Unresolved(log') <=> j \in Unresolved(log),
         Forked(a) => /\ memo'[a][k] = Recorded(log', k)
                      /\ branch'[a][k] = "done" => memo'[a][k] # {},
         atMostOnce =>
           /\ landed'[k] <= 1
           /\ landed'[k] > 0 => Recorded(log', k) # {} \/ k \in Unresolved(log')
           /\ branch'[a][k] \in {"start", "invoke", "retry", "fail"} => landed'[k] = 0
           /\ branch'[a][k] # "boundary"
           /\ branch'[a][k] \in {"invoke", "return", "retry", "fail"} => k \in Unresolved(log')
           /\ branch'[a][k] # "restart",
         (landed[k] > 0 => Recorded(log, k) # {} \/ branch[a][k] = "return")
           => (landed'[k] > 0
                 => Recorded(log', k) # {} \/ branch'[a][k] \in {"return", "refused"})
  PROVE  GatherInv'
  <1> USE DEF GatherInv
  <1>1. /\ status' = status /\ result' = result /\ queue' = queue /\ owner' = owner
        /\ main' = main /\ who' = who /\ unresolved' = unresolved /\ down' = down
        /\ atMostOnce' = atMostOnce
    BY DEF queueVars, envVars
  <1>2. \A b \in Attempts : /\ Working(b)' <=> Working(b)
                            /\ Engaged(b)' <=> Engaged(b)
                            /\ Forked(b)' <=> Forked(b)
                            /\ Holds(who[b])' <=> Holds(who[b])
    BY <1>1 DEF Working, Engaged, Forked, Holds
  <1>3. \A b \in Attempts, j \in Keys : Live(b, j)' => Live(b, j)
    BY DEF Live
  <1>4. /\ \A b \in Attempts : Engaged(b) => b = a
        /\ \A b \in Attempts, j \in Keys : Live(b, j) => b = a
        /\ status # "COMPLETED"
        /\ main[a] \notin {"none", "load"}
    BY LiveFacts
  <1>5. OneAttempt'
    <2>1. \A b \in Attempts : Working(b) => /\ queue = "held" /\ owner = who[b]
                                            /\ error'[b] # {"LeaseLost"}
      BY DEF OneAttempt, Holds
    <2>2. \A b \in Attempts : Engaged(b)' => status' \notin Terminal
      BY <1>1, <1>2 DEF OneAttempt
    <2>3. \A b, c \in Attempts : Working(b)' /\ Working(c)' => b = c
      BY <1>2 DEF OneAttempt
    <2> QED
      BY <1>1, <1>2, <2>1, <2>2, <2>3 DEF OneAttempt, Holds
  <1>6. OneFan'
    <2>1. \A b \in Attempts : main[b] \in {"none", "load"} =>
            error'[b] = {} /\ \A j \in Keys : branch'[b][j] = "none"
      BY <1>4 DEF OneFan
    <2> QED
      BY <1>1, <1>2, <1>3, <2>1 DEF OneFan
  <1>7. InStepWithLog'
    <2>1. \A b \in Attempts : (Forked(b) => Engaged(b)) /\
            (main[b] \in {"verdict", "set_status"} => Engaged(b))
      BY DEF Forked, Engaged
    <2>2. Forked(a) => \A j \in Keys : /\ memo'[a][j] = Recorded(log', j)
                                       /\ branch'[a][j] = "done" => memo'[a][j] # {}
      <3> SUFFICES ASSUME Forked(a), NEW j \in Keys, j # k
                   PROVE  /\ memo'[a][j] = Recorded(log', j)
                          /\ branch'[a][j] = "done" => memo'[a][j] # {}
        OBVIOUS
      <3> QED
        BY DEF InStepWithLog
    <2>3. ~(main[a] \in {"verdict", "set_status"} /\ error'[a] = {})
      BY DEF InStepWithLog, Live, Ended
    <2> QED
      BY <1>1, <1>2, <1>4, <2>1, <2>2, <2>3 DEF InStepWithLog
  <1>8. ResultsLineUp'
    BY <1>1, <1>4 DEF ResultsLineUp
  <1>9. EffectsMarked'
    <2> SUFFICES ASSUME atMostOnce PROVE EffectsMarked'
      BY <1>1 DEF EffectsMarked
    <2>1. ASSUME NEW j \in Keys, j # k
          PROVE  /\ landed'[j] <= 1
                 /\ landed'[j] > 0 => Recorded(log', j) # {} \/ j \in Unresolved(log')
                 /\ \A b \in Attempts :
                      /\ branch'[b][j] \in {"start", "invoke", "retry", "fail"} => landed'[j] = 0
                      /\ branch'[b][j] = "boundary" /\ j \notin unresolved'[b] => landed'[j] = 0
                      /\ branch'[b][j] \in {"invoke", "return", "retry", "fail"}
                           => j \in Unresolved(log')
                      /\ branch'[b][j] # "restart"
      <3>1. /\ landed'[j] = landed[j] /\ Recorded(log', j) = Recorded(log, j)
            /\ j \in Unresolved(log') <=> j \in Unresolved(log)
        BY <2>1
      <3>2. \A b \in Attempts : branch'[b][j] = branch[b][j]
        BY <2>1
      <3> QED
        BY <1>1, <3>1, <3>2 DEF EffectsMarked
    <2>2. ASSUME NEW b \in Attempts, b # a
          PROVE  branch'[b][k] \in Ended
      BY <1>4, <2>2 DEF Live
    <2>3. ASSUME NEW b \in Attempts
          PROVE  /\ branch'[b][k] \in {"start", "invoke", "retry", "fail"} => landed'[k] = 0
                 /\ branch'[b][k] # "boundary"
                 /\ branch'[b][k] \in {"invoke", "return", "retry", "fail"}
                      => k \in Unresolved(log')
                 /\ branch'[b][k] # "restart"
      BY <2>2 DEF Ended
    <2> QED
      BY <1>1, <2>1, <2>3 DEF EffectsMarked
  <1>10. EffectsRecorded'
    <2> SUFFICES ASSUME down = {}, NEW j \in Keys, landed'[j] > 0
                 PROVE  Recorded(log', j) # {}
                        \/ \E b \in Attempts : branch'[b][j] \in {"return", "refused"}
      BY <1>1 DEF EffectsRecorded
    <2>1. CASE j = k
      <3>1. CASE \E b \in Attempts : branch[b][k] = "refused"
        BY <2>1, <3>1 DEF Live, Ended
      <3>2. CASE \A b \in Attempts : branch[b][k] # "refused"
        <4>1. landed[k] > 0 => Recorded(log, k) # {} \/ branch[a][k] = "return"
          <5>1. \A b \in Attempts : branch[b][k] = "return" => b = a
            BY <1>4 DEF Live, Ended
          <5> QED
            BY <3>2, <5>1 DEF EffectsRecorded
        <4> QED
          BY <2>1, <4>1
      <3> QED
        BY <3>1, <3>2
    <2>2. CASE j # k
      BY <2>2 DEF EffectsRecorded
    <2> QED
      BY <2>1, <2>2
  <1> QED
    BY <1>5, <1>6, <1>7, <1>8, <1>9, <1>10


(* What the invariant says of a live branch. *)
LEMMA BranchFacts ==
  ASSUME GatherInv, NEW a \in Attempts, NEW k \in Keys, Live(a, k)
  PROVE  /\ log \in Seq(Event) /\ landed[k] \in Nat
         /\ Forked(a) => memo[a][k] = Recorded(log, k)
         /\ atMostOnce =>
              /\ landed[k] <= 1
              /\ landed[k] > 0 => Recorded(log, k) # {} \/ k \in Unresolved(log)
              /\ branch[a][k] \in {"start", "invoke", "retry", "fail"} => landed[k] = 0
              /\ branch[a][k] = "boundary" /\ k \notin unresolved[a] => landed[k] = 0
              /\ branch[a][k] \in {"invoke", "return", "retry", "fail"} => k \in Unresolved(log)
              /\ branch[a][k] # "restart"
  <1> USE DEF GatherInv
  <1>1. log \in Seq(Event) /\ landed[k] \in Nat
    BY DEF GatherTypes
  <1>2. Forked(a) => memo[a][k] = Recorded(log, k)
    BY DEF InStepWithLog
  <1> QED
    BY <1>1, <1>2 DEF EffectsMarked

(* A branch goes elsewhere, and to nowhere else. *)
LEMMA GoFacts ==
  ASSUME GatherTypes, NEW a \in Attempts, NEW k \in Keys,
         NEW there \in BranchStages, GoBranch(a, k, there)
  PROVE  /\ branch' \in [Attempts -> [Keys -> BranchStages]] /\ branch'[a][k] = there
         /\ \A b \in Attempts, j \in Keys : b # a \/ j # k => branch'[b][j] = branch[b][j]
  BY DEF GatherTypes, GoBranch

(* The first exception of an attempt stays its first. *)
LEMMA RaiseFacts ==
  ASSUME GatherTypes, NEW a \in Attempts, NEW k \in Keys, NEW x \in Errors,
         NEW there \in {"raised", "refused"}, Raise(a, k, x, there)
  PROVE  /\ GoBranch(a, k, there)
         /\ error' \in [Attempts -> {{}} \cup {{y} : y \in Errors}]
         /\ \A b \in Attempts \ {a} : error'[b] = error[b]
         /\ error'[a] # {}
         /\ error'[a] = {"LeaseLost"} => x = "LeaseLost" \/ error[a] = {"LeaseLost"}
  <1>1. error' = [error EXCEPT ![a] = IF error[a] = {} THEN {x} ELSE error[a]]
    BY DEF Raise
  <1>2. {x} \in {{y} : y \in Errors} /\ {x} # {}
    OBVIOUS
  <1>3. /\ error' \in [Attempts -> {{}} \cup {{y} : y \in Errors}]
        /\ \A b \in Attempts \ {a} : error'[b] = error[b]
        /\ error'[a] = IF error[a] = {} THEN {x} ELSE error[a]
    BY <1>1, <1>2 DEF GatherTypes
  <1>4. {x} = {"LeaseLost"} => x = "LeaseLost"
    OBVIOUS
  <1> QED
    BY <1>2, <1>3, <1>4 DEF Raise

(* The guards of a branch: under AT_MOST_ONCE one that may have had its    *)
(* effect goes no further.                                                 *)
LEMMA BoundaryKeeps ==
  ASSUME GatherInv, NEW a \in Attempts, NEW k \in Keys, Boundary(a, k)
  PROVE  GatherInv'
  <1>1. branch[a][k] = "boundary" /\ Live(a, k)
    BY DEF Boundary, Live, Ended
  <1>2. GatherTypes
    BY DEF GatherInv
  <1>3. /\ log' = log /\ landed' = landed /\ memo' = memo
        /\ UNCHANGED <<status, result, queueVars, main, who, unresolved, envVars>>
    BY DEF Boundary, runVars
  <1>4. Working(a) => Holds(who[a]) /\ error[a] # {"LeaseLost"}
    BY DEF GatherInv, OneAttempt
  <1>5. PICK there \in {"start", "restart", "raised"} :
          /\ GoBranch(a, k, there)
          /\ there = "start" => k \notin unresolved[a]
          /\ there = "restart" => ~atMostOnce
          /\ error' \in [Attempts -> {{}} \cup {{y} : y \in Errors}]
          /\ \A b \in Attempts \ {a} : error'[b] = error[b]
          /\ error'[a] = {} => error[a] = {}
          /\ Working(a) => error'[a] # {"LeaseLost"}
    <2>1. CASE ~Holds(who[a]) /\ Raise(a, k, "LeaseLost", "raised")
      BY <1>2, <1>4, <2>1, RaiseFacts DEF Errors
    <2>2. CASE Raise(a, k, "AmbiguousStepError", "raised")
      BY <1>2, <1>4, <2>2, RaiseFacts DEF Errors
    <2>3. CASE GoBranch(a, k, "start") /\ k \notin unresolved[a] /\ error' = error
      BY <1>2, <1>4, <2>3 DEF GatherTypes
    <2>4. CASE GoBranch(a, k, "restart") /\ ~atMostOnce /\ error' = error
      BY <1>2, <1>4, <2>4 DEF GatherTypes
    <2> QED
      BY <2>1, <2>2, <2>3, <2>4 DEF Boundary
  <1>6. /\ branch' \in [Attempts -> [Keys -> BranchStages]] /\ branch'[a][k] = there
        /\ \A b \in Attempts, j \in Keys : b # a \/ j # k => branch'[b][j] = branch[b][j]
    BY <1>2, <1>5, GoFacts DEF BranchStages
  <1>7. GatherTypes'
    BY <1>2, <1>3, <1>5, <1>6 DEF GatherTypes, queueVars
  <1>8. /\ Forked(a) => memo[a][k] = Recorded(log, k)
        /\ atMostOnce =>
             /\ landed[k] <= 1
             /\ landed[k] > 0 => Recorded(log, k) # {} \/ k \in Unresolved(log)
             /\ k \notin unresolved[a] => landed[k] = 0
    BY <1>1, BranchFacts
  <1> QED
    BY <1>1, <1>3, <1>5, <1>6, <1>7, <1>8, BranchMoves

(* The body of a branch. *)
LEMMA InvokeKeeps ==
  ASSUME GatherInv, NEW a \in Attempts, NEW k \in Keys, InvokeLands(a, k) \/ InvokeRaises(a, k)
  PROVE  GatherInv'
  <1>1. branch[a][k] = "invoke" /\ Live(a, k)
    BY DEF InvokeLands, InvokeRaises, Live, Ended
  <1>2. GatherTypes
    BY DEF GatherInv
  <1>3. /\ log' = log /\ memo' = memo /\ error' = error
        /\ UNCHANGED <<status, result, queueVars, main, who, unresolved, envVars>>
    BY DEF InvokeLands, InvokeRaises, runVars, mainVars
  <1>4. PICK there \in {"return", "retry", "fail"} :
          /\ GoBranch(a, k, there)
          /\ landed' \in [Keys -> Nat] /\ \A j \in Keys \ {k} : landed'[j] = landed[j]
          /\ there = "return" => landed'[k] = landed[k] + 1
          /\ there # "return" => landed'[k] = landed[k]
    <2>1. CASE InvokeLands(a, k)
      BY <1>2, <2>1 DEF InvokeLands, GatherTypes
    <2>2. CASE InvokeRaises(a, k)
      <3>1. landed' = landed /\ (GoBranch(a, k, "retry") \/ GoBranch(a, k, "fail"))
        BY <2>2 DEF InvokeRaises
      <3> QED
        BY <1>2, <3>1 DEF GatherTypes
    <2> QED
      BY <2>1, <2>2
  <1>5. /\ branch' \in [Attempts -> [Keys -> BranchStages]] /\ branch'[a][k] = there
        /\ \A b \in Attempts, j \in Keys : b # a \/ j # k => branch'[b][j] = branch[b][j]
    BY <1>2, <1>4, GoFacts DEF BranchStages
  <1>6. GatherTypes'
    BY <1>2, <1>3, <1>4, <1>5 DEF GatherTypes
  <1>7. /\ landed[k] \in Nat
        /\ Forked(a) => memo[a][k] = Recorded(log, k)
        /\ atMostOnce => landed[k] = 0 /\ k \in Unresolved(log)
    BY <1>1, BranchFacts
  <1>8. Working(a) => error[a] # {"LeaseLost"}
    BY DEF GatherInv, OneAttempt
  <1> QED
    BY <1>1, <1>3, <1>4, <1>5, <1>6, <1>7, <1>8, BranchMoves

(* StepStarted and StepRetried. *)
LEMMA StartKeeps ==
  ASSUME GatherInv, NEW a \in Attempts, NEW k \in Keys,
         \/ Write(a, k, "start", StepEvent("StepStarted", k), "invoke")
         \/ Write(a, k, "restart", StepEvent("StepRetried", k), "invoke")
         \/ Write(a, k, "retry", StepEvent("StepRetried", k), "invoke")
  PROVE  GatherInv'
  <1>1. PICK here \in {"start", "restart", "retry"}, y \in {"StepStarted", "StepRetried"} :
          /\ Write(a, k, here, StepEvent(y, k), "invoke")
          /\ here = "start" => y = "StepStarted"
    OBVIOUS
  <1> DEFINE e == StepEvent(y, k)
  <1>2. branch[a][k] = here /\ Live(a, k)
    BY <1>1 DEF Write, Live, Ended
  <1>3. GatherTypes /\ log \in Seq(Event)
    BY DEF GatherInv, GatherTypes
  <1>4. /\ log' = Append(log, e) /\ GoBranch(a, k, "invoke")
        /\ landed' = landed /\ memo' = memo /\ error' = error
        /\ UNCHANGED <<status, result, queueVars, main, who, unresolved, envVars>>
    BY <1>1 DEF Write, mainVars
  <1>5. e \in Event /\ e.type = y /\ e.key = k
    BY DEF StepEvent, Event, EventType
  <1> HIDE DEF e
  <1>6. log' \in Seq(Event)
    BY <1>3, <1>4, <1>5, AppendGrows
  <1>7. \A j \in Keys : Recorded(log', j) = Recorded(log, j)
    BY <1>3, <1>4, <1>5, RecordedAppendOther
  <1>8. \A j \in Keys : j \in Unresolved(log') <=>
          (y = "StepStarted" /\ k = j) \/ j \in Unresolved(log)
    BY <1>3, <1>4, <1>5, UnresolvedAppend
  <1>9. /\ branch' \in [Attempts -> [Keys -> BranchStages]] /\ branch'[a][k] = "invoke"
        /\ \A b \in Attempts, j \in Keys : b # a \/ j # k => branch'[b][j] = branch[b][j]
    BY <1>3, <1>4, GoFacts DEF BranchStages
  <1>10. GatherTypes'
    BY <1>3, <1>4, <1>6, <1>9 DEF GatherTypes
  <1>11. /\ landed[k] \in Nat
         /\ Forked(a) => memo[a][k] = Recorded(log, k)
         /\ atMostOnce => /\ landed[k] = 0 /\ here # "restart"
                          /\ here = "retry" => k \in Unresolved(log)
    BY <1>2, BranchFacts
  <1>12. atMostOnce => k \in Unresolved(log')
    BY <1>1, <1>8, <1>11
  <1>13. Working(a) => error[a] # {"LeaseLost"}
    BY DEF GatherInv, OneAttempt
  <1> QED
    BY <1>2, <1>4, <1>7, <1>8, <1>9, <1>10, <1>11, <1>12, <1>13, BranchMoves

(* StepCompleted. *)
LEMMA CompleteKeeps ==
  ASSUME GatherInv, NEW a \in Attempts, NEW k \in Keys, WriteStepCompleted(a, k)
  PROVE  GatherInv'
  <1>1. PICK v \in Results : /\ log' = Append(log, CompletedEvent(k, v))
                             /\ memo' = [memo EXCEPT ![a][k] = {v}]
    BY DEF WriteStepCompleted
  <1> DEFINE e == CompletedEvent(k, v)
  <1>2. branch[a][k] = "return" /\ Live(a, k) /\ GoBranch(a, k, "done")
    BY DEF WriteStepCompleted, Live, Ended
  <1>3. GatherTypes /\ log \in Seq(Event)
    BY DEF GatherInv, GatherTypes
  <1>4. /\ landed' = landed /\ error' = error
        /\ UNCHANGED <<status, result, queueVars, main, who, unresolved, envVars>>
    BY DEF WriteStepCompleted, mainVars
  <1>5. e \in Event /\ e.type = "StepCompleted" /\ e.key = k /\ e.val = {v}
    BY DEF CompletedEvent, Event, EventType
  <1>6. log' = Append(log, e)
    BY <1>1
  <1> HIDE DEF e
  <1>7. log' \in Seq(Event)
    BY <1>3, <1>5, <1>6, AppendGrows
  <1>8. Recorded(log', k) = {v}
    BY <1>3, <1>5, <1>6, RecordedAppendCompleted
  <1>9. \A j \in Keys \ {k} : Recorded(log', j) = Recorded(log, j)
    BY <1>3, <1>5, <1>6, RecordedAppendOther
  <1>10. \A j \in Keys \ {k} : j \in Unresolved(log') <=> j \in Unresolved(log)
    BY <1>3, <1>5, <1>6, UnresolvedAppend
  <1>11. /\ branch' \in [Attempts -> [Keys -> BranchStages]] /\ branch'[a][k] = "done"
         /\ \A b \in Attempts, j \in Keys : b # a \/ j # k => branch'[b][j] = branch[b][j]
    BY <1>2, <1>3, GoFacts DEF BranchStages
  <1>12. /\ memo' \in [Attempts -> [Keys -> SUBSET Results]] /\ memo'[a][k] = {v}
         /\ \A b \in Attempts, j \in Keys : b # a \/ j # k => memo'[b][j] = memo[b][j]
    BY <1>1, <1>3 DEF GatherTypes
  <1>13. GatherTypes'
    BY <1>3, <1>4, <1>7, <1>11, <1>12 DEF GatherTypes
  <1>14. atMostOnce => landed[k] <= 1
    BY <1>2, BranchFacts
  <1>15. Working(a) => error[a] # {"LeaseLost"}
    BY DEF GatherInv, OneAttempt
  <1>16. Recorded(log', k) # {} /\ memo'[a][k] = Recorded(log', k)
    BY <1>8, <1>12
  <1> QED
    BY <1>2, <1>4, <1>9, <1>10, <1>11, <1>12, <1>13, <1>14, <1>15, <1>16, BranchMoves

(* StepFailed: a branch that fails has had no effect. *)
LEMMA FailKeeps ==
  ASSUME GatherInv, NEW a \in Attempts, NEW k \in Keys, WriteStepFailed(a, k)
  PROVE  GatherInv'
  <1> DEFINE e == StepEvent("StepFailed", k)
  <1>1. /\ branch[a][k] = "fail" /\ Live(a, k) /\ Raise(a, k, "StepFailedError", "raised")
        /\ log' = Append(log, e)
    BY DEF WriteStepFailed, Live, Ended
  <1>2. GatherTypes /\ log \in Seq(Event)
    BY DEF GatherInv, GatherTypes
  <1>3. /\ landed' = landed /\ memo' = memo
        /\ UNCHANGED <<status, result, queueVars, main, who, unresolved, envVars>>
    BY DEF WriteStepFailed
  <1>4. e \in Event /\ e.type = "StepFailed" /\ e.key = k
    BY DEF StepEvent, Event, EventType
  <1> HIDE DEF e
  <1>5. log' \in Seq(Event)
    BY <1>1, <1>2, <1>4, AppendGrows
  <1>6. \A j \in Keys : Recorded(log', j) = Recorded(log, j)
    BY <1>1, <1>2, <1>4, RecordedAppendOther
  <1>7. \A j \in Keys \ {k} : j \in Unresolved(log') <=> j \in Unresolved(log)
    BY <1>1, <1>2, <1>4, UnresolvedAppend
  <1>8. /\ GoBranch(a, k, "raised")
        /\ error' \in [Attempts -> {{}} \cup {{y} : y \in Errors}]
        /\ \A b \in Attempts \ {a} : error'[b] = error[b]
        /\ error'[a] # {}
        /\ error'[a] = {"LeaseLost"} => error[a] = {"LeaseLost"}
    BY <1>1, <1>2, RaiseFacts DEF Errors
  <1>9. /\ branch' \in [Attempts -> [Keys -> BranchStages]] /\ branch'[a][k] = "raised"
        /\ \A b \in Attempts, j \in Keys : b # a \/ j # k => branch'[b][j] = branch[b][j]
    BY <1>2, <1>8, GoFacts DEF BranchStages
  <1>10. GatherTypes'
    BY <1>2, <1>3, <1>5, <1>8, <1>9 DEF GatherTypes
  <1>11. /\ landed[k] \in Nat
         /\ Forked(a) => memo[a][k] = Recorded(log, k)
         /\ atMostOnce => landed[k] = 0
    BY <1>1, BranchFacts
  <1>12. Working(a) => error'[a] # {"LeaseLost"}
    BY <1>8 DEF GatherInv, OneAttempt
  <1> QED
    BY <1>1, <1>3, <1>6, <1>7, <1>8, <1>9, <1>10, <1>11, <1>12, BranchMoves

(* A result that cannot be stored: the effect stays a crash window. *)
LEMMA RefuseKeeps ==
  ASSUME GatherInv, NEW a \in Attempts, NEW k \in Keys, RefuseResult(a, k)
  PROVE  GatherInv'
  <1>1. branch[a][k] = "return" /\ Live(a, k) /\ Raise(a, k, "TypeError", "refused")
    BY DEF RefuseResult, Live, Ended
  <1>2. GatherTypes
    BY DEF GatherInv
  <1>3. /\ log' = log /\ landed' = landed /\ memo' = memo
        /\ UNCHANGED <<status, result, queueVars, main, who, unresolved, envVars>>
    BY DEF RefuseResult, runVars
  <1>4. /\ GoBranch(a, k, "refused")
        /\ error' \in [Attempts -> {{}} \cup {{y} : y \in Errors}]
        /\ \A b \in Attempts \ {a} : error'[b] = error[b]
        /\ error'[a] # {}
        /\ error'[a] = {"LeaseLost"} => error[a] = {"LeaseLost"}
    BY <1>1, <1>2, RaiseFacts DEF Errors
  <1>5. /\ branch' \in [Attempts -> [Keys -> BranchStages]] /\ branch'[a][k] = "refused"
        /\ \A b \in Attempts, j \in Keys : b # a \/ j # k => branch'[b][j] = branch[b][j]
    BY <1>2, <1>4, GoFacts DEF BranchStages
  <1>6. GatherTypes'
    BY <1>2, <1>3, <1>4, <1>5 DEF GatherTypes
  <1>7. /\ Forked(a) => memo[a][k] = Recorded(log, k)
        /\ atMostOnce => landed[k] <= 1 /\ k \in Unresolved(log)
    BY <1>1, BranchFacts
  <1>8. Working(a) => error'[a] # {"LeaseLost"}
    BY <1>4 DEF GatherInv, OneAttempt
  <1> QED
    BY <1>1, <1>3, <1>4, <1>5, <1>6, <1>7, <1>8, BranchMoves

-----------------------------------------------------------------------------
(* What a step that touches no branch and no effect leaves as it is. *)
LEMMA EffectsFrame ==
  ASSUME GatherInv, UNCHANGED <<landed, unresolved, branch, envVars>>,
         \A j \in Keys : /\ Recorded(log', j) = Recorded(log, j)
                         /\ j \in Unresolved(log') <=> j \in Unresolved(log)
  PROVE  EffectsMarked' /\ EffectsRecorded'
  <1>1. /\ landed' = landed /\ unresolved' = unresolved /\ branch' = branch
        /\ down' = down /\ atMostOnce' = atMostOnce
    BY DEF envVars
  <1>2. EffectsMarked /\ EffectsRecorded
    BY DEF GatherInv
  <1> QED
    BY <1>1, <1>2 DEF EffectsMarked, EffectsRecorded

(* The attempt at work is the only one, and when it has not yet set the    *)
(* status, every live branch is its own.                                   *)
LEMMA WorkingFacts ==
  ASSUME GatherInv, NEW a \in Attempts, Working(a)
  PROVE  /\ \A b \in Attempts : Working(b) => b = a
         /\ Holds(who[a]) /\ error[a] # {"LeaseLost"}
         /\ \A b \in Attempts : (Forked(b) => Engaged(b)) /\ (Engaged(b) => Working(b))
         /\ Engaged(a) => /\ status \notin Terminal
                          /\ \A b \in Attempts, k \in Keys : Live(b, k) => b = a /\ Forked(a)
  <1>1. /\ \A b \in Attempts : Working(b) => b = a
        /\ Holds(who[a]) /\ error[a] # {"LeaseLost"}
        /\ Engaged(a) => status \notin Terminal
    BY DEF GatherInv, OneAttempt
  <1>2. \A b \in Attempts : (Forked(b) => Engaged(b)) /\ (Engaged(b) => Working(b))
    BY DEF Forked, Engaged, Working
  <1>3. \A b \in Attempts, k \in Keys :
          Live(b, k) => Forked(b) \/ status \in {"FAILED", "NEEDS_REVIEW"}
    BY DEF GatherInv, OneFan
  <1>4. Engaged(a) => \A b \in Attempts, k \in Keys : Live(b, k) => b = a /\ Forked(a)
    BY <1>1, <1>2, <1>3 DEF Terminal
  <1> QED
    BY <1>1, <1>2, <1>4

(* Where an attempt goes, and that the others stay. *)
LEMMA MainFacts ==
  ASSUME GatherTypes, NEW a \in Attempts, NEW there \in MainStages, GoMain(a, there)
  PROVE  /\ main' \in [Attempts -> MainStages] /\ main'[a] = there
         /\ \A b \in Attempts \ {a} : main'[b] = main[b]
  BY DEF GatherTypes, GoMain

(* The attempt goes on to its verdict, and from there to its status. *)
LEMMA OnwardKeeps ==
  ASSUME GatherInv, NEW a \in Attempts, NEW there \in {"verdict", "set_status"},
         GatherTypes', Forked(a), GoMain(a, there),
         UNCHANGED <<status, result, queueVars, landed, who, error, branchVars, envVars>>,
         error[a] = {} => \A k \in Keys : branch[a][k] = "done",
         \A j \in Keys : /\ Recorded(log', j) = Recorded(log, j)
                         /\ j \in Unresolved(log') <=> j \in Unresolved(log)
  PROVE  GatherInv'
  <1> USE DEF GatherInv
  <1>1. /\ status' = status /\ result' = result /\ queue' = queue /\ owner' = owner
        /\ who' = who /\ error' = error /\ landed' = landed
        /\ memo' = memo /\ unresolved' = unresolved /\ branch' = branch
    BY DEF queueVars, branchVars
  <1>2. main'[a] = there /\ \A b \in Attempts \ {a} : main'[b] = main[b]
    BY MainFacts DEF MainStages
  <1>3. \A b \in Attempts : /\ Working(b)' <=> Working(b)
                            /\ Engaged(b)' <=> Engaged(b)
                            /\ Forked(b)' <=> Forked(b)
                            /\ Holds(who[b])' <=> Holds(who[b])
    BY <1>1, <1>2 DEF Working, Engaged, Forked, Holds
  <1>4. \A b \in Attempts, j \in Keys : Live(b, j)' <=> Live(b, j)
    BY <1>1 DEF Live
  <1>5. OneAttempt'
    <2>1. \A b \in Attempts : Working(b)' => Holds(who[b])' /\ error'[b] # {"LeaseLost"}
      BY <1>1, <1>3 DEF OneAttempt
    <2> QED
      BY <1>1, <1>3, <2>1 DEF OneAttempt, Holds
  <1>6. OneFan'
    <2>1. \A b \in Attempts : main'[b] \in {"none", "load"} =>
            error'[b] = {} /\ \A k \in Keys : branch'[b][k] = "none"
      BY <1>1, <1>2 DEF OneFan
    <2> QED
      BY <1>1, <1>3, <1>4, <2>1 DEF OneFan
  <1>7. InStepWithLog'
    BY <1>1, <1>2, <1>3 DEF InStepWithLog
  <1>8. ResultsLineUp'
    BY <1>1 DEF ResultsLineUp
  <1>9. EffectsMarked' /\ EffectsRecorded'
    BY <1>1, EffectsFrame
  <1> QED
    BY <1>5, <1>6, <1>7, <1>8, <1>9

(* gather returns, or raises what the first branch raised. *)
LEMMA JoinKeeps ==
  ASSUME GatherInv, NEW a \in Attempts, Join(a) \/ Unwind(a)
  PROVE  GatherInv'
  <1>1. main[a] = "gather" /\ Forked(a) /\ Working(a)
    BY DEF Join, Unwind, Forked, Working
  <1>2. error[a] # {"LeaseLost"}
    BY <1>1, WorkingFacts
  <1>3. GoMain(a, "verdict")
    BY <1>2 DEF Join, Unwind
  <1>4. /\ log' = log
        /\ UNCHANGED <<status, result, queueVars, landed, who, error, branchVars, envVars>>
    BY DEF Join, Unwind, runVars
  <1>5. error[a] = {} => \A k \in Keys : branch[a][k] = "done"
    BY DEF Join, Unwind
  <1>6. GatherTypes
    BY DEF GatherInv
  <1>7. GatherTypes'
    <2>1. main' \in [Attempts -> MainStages]
      BY <1>3, <1>6, MainFacts DEF MainStages
    <2> QED
      BY <1>4, <1>6, <2>1 DEF GatherTypes, branchVars
  <1> QED
    BY <1>1, <1>3, <1>4, <1>5, <1>7, OnwardKeeps

(* What the verdict of an attempt at work can be. *)
LEMMA VerdictFacts ==
  ASSUME GatherInv, NEW a \in Attempts, Working(a)
  PROVE  /\ Verdict(a)[1] \in EventType \ {"StepStarted", "StepCompleted", "StepFailed"}
         /\ Verdict(a)[2] \in Terminal
         /\ Verdict(a)[2] = "COMPLETED" <=> error[a] = {}
  <1>1. error[a] # {"LeaseLost"}
    BY WorkingFacts
  <1>2. \/ error[a] = {} \/ error[a] = {"StepFailedError"} \/ error[a] = {"TypeError"}
        \/ error[a] = {"AmbiguousStepError"}
    <2>1. error[a] \in {{}} \cup {{x} : x \in Errors}
      BY DEF GatherInv, GatherTypes
    <2>2. error[a] = {} \/ \E x \in Errors : error[a] = {x}
      BY <2>1
    <2> QED
      BY <1>1, <2>2 DEF Errors
  <1>3. /\ {"StepFailedError"} # {} /\ {"AmbiguousStepError"} # {} /\ {"TypeError"} # {}
        /\ {"AmbiguousStepError"} \notin {{"StepFailedError"}, {"TypeError"}}
    OBVIOUS
  <1>4. CASE error[a] = {}
    BY <1>3, <1>4 DEF Verdict, EventType, Terminal
  <1>5. CASE error[a] \in {{"StepFailedError"}, {"TypeError"}}
    BY <1>3, <1>5 DEF Verdict, EventType, Terminal
  <1>6. CASE error[a] = {"AmbiguousStepError"}
    BY <1>3, <1>6 DEF Verdict, EventType, Terminal
  <1> QED
    BY <1>2, <1>4, <1>5, <1>6

(* The verdict is an event of the run, of no branch. *)
LEMMA WriteVerdictKeeps ==
  ASSUME GatherInv, NEW a \in Attempts, WriteVerdict(a)
  PROVE  GatherInv'
  <1> DEFINE e == RunEvent(Verdict(a)[1])
  <1>1. main[a] = "verdict" /\ Forked(a) /\ Working(a)
    BY DEF WriteVerdict, Forked, Working
  <1>2. e \in Event /\ e.type \notin {"StepStarted", "StepCompleted", "StepFailed"}
    BY <1>1, VerdictFacts DEF RunEvent, Event
  <1>3. log' = Append(log, e)
    BY DEF WriteVerdict
  <1> HIDE DEF e
  <1>4. GatherTypes /\ log \in Seq(Event)
    BY DEF GatherInv, GatherTypes
  <1>5. log' \in Seq(Event)
    BY <1>2, <1>3, <1>4, AppendGrows
  <1>6. \A j \in Keys : Recorded(log', j) = Recorded(log, j)
    BY <1>2, <1>3, <1>4, RecordedAppendOther
  <1>7. \A j \in Keys : j \in Unresolved(log') <=> j \in Unresolved(log)
    BY <1>2, <1>3, <1>4, UnresolvedAppend
  <1>8. /\ GoMain(a, "set_status")
        /\ UNCHANGED <<status, result, queueVars, landed, who, error, branchVars, envVars>>
    BY DEF WriteVerdict
  <1>9. GatherTypes'
    <2>1. main' \in [Attempts -> MainStages]
      BY <1>4, <1>8, MainFacts DEF MainStages
    <2> QED
      BY <1>4, <1>5, <1>8, <2>1 DEF GatherTypes, branchVars
  <1>10. error[a] = {} => \A k \in Keys : branch[a][k] = "done"
    BY <1>1 DEF GatherInv, InStepWithLog
  <1> QED
    BY <1>1, <1>6, <1>7, <1>8, <1>9, <1>10, OnwardKeeps

(* The status: COMPLETED only with every branch done, so that a branch     *)
(* still running belongs to a run that has failed or awaits review.        *)
LEMMA SetStatusKeeps ==
  ASSUME GatherInv, NEW a \in Attempts, SetStatus(a)
  PROVE  GatherInv'
  <1>1. main[a] = "set_status" /\ Forked(a) /\ Engaged(a) /\ Working(a)
    BY DEF SetStatus, Forked, Engaged, Working
  <1>2. /\ \A b \in Attempts : Working(b) => b = a
        /\ Holds(who[a]) /\ error[a] # {"LeaseLost"}
        /\ \A b \in Attempts : (Forked(b) => Engaged(b)) /\ (Engaged(b) => Working(b))
        /\ \A b \in Attempts, k \in Keys : Live(b, k) => b = a
    BY <1>1, WorkingFacts
  <1>3. /\ status' = Verdict(a)[2] /\ GoMain(a, "dequeue")
        /\ result' = IF status' = "COMPLETED" THEN Gathered(a) ELSE result
        /\ log' = log /\ queue' = queue /\ owner' = owner /\ landed' = landed
        /\ who' = who /\ error' = error /\ memo' = memo /\ unresolved' = unresolved
        /\ branch' = branch /\ UNCHANGED envVars
    BY DEF SetStatus, queueVars, branchVars
  <1>4. status' \in Terminal /\ (status' = "COMPLETED" <=> error[a] = {})
    BY <1>1, <1>3, VerdictFacts
  <1>5. GatherTypes
    BY DEF GatherInv
  <1>6. /\ main' \in [Attempts -> MainStages] /\ main'[a] = "dequeue"
        /\ \A b \in Attempts \ {a} : main'[b] = main[b]
    BY <1>3, <1>5, MainFacts DEF MainStages
  <1>7. GatherTypes'
    BY <1>3, <1>5, <1>6 DEF GatherTypes
  <1>8. \A b \in Attempts : /\ Working(b)' <=> Working(b)
                            /\ ~Engaged(b)' /\ ~Forked(b)'
                            /\ Holds(who[b])' <=> Holds(who[b])
    BY <1>1, <1>2, <1>3, <1>6 DEF Working, Engaged, Forked, Holds, Live
  <1>9. \A b \in Attempts, k \in Keys : Live(b, k)' <=> Live(b, k)
    BY <1>3 DEF Live
  <1>10. error[a] = {} => \A k \in Keys : branch[a][k] = "done"
    BY <1>1 DEF GatherInv, InStepWithLog
  <1>11. OneAttempt'
    <2>1. \A b \in Attempts : Working(b)' => Holds(who[b])' /\ error'[b] # {"LeaseLost"}
      BY <1>2, <1>3, <1>8
    <2> QED
      BY <1>2, <1>3, <1>8, <2>1 DEF OneAttempt, Holds
  <1>12. OneFan'
    <2>1. ASSUME NEW b \in Attempts, NEW k \in Keys, Live(b, k)
          PROVE  status' \in {"FAILED", "NEEDS_REVIEW"}
      <3>1. branch[a][k] # "done"
        BY <1>2, <2>1 DEF Live, Ended
      <3> QED
        BY <1>4, <1>10, <3>1 DEF Terminal
    <2>2. \A b \in Attempts : main'[b] \in {"none", "load"} =>
            error'[b] = {} /\ \A k \in Keys : branch'[b][k] = "none"
      BY <1>3, <1>6 DEF GatherInv, OneFan
    <2> QED
      BY <1>2, <1>9, <2>1, <2>2 DEF OneFan
  <1>13. InStepWithLog'
    BY <1>8 DEF InStepWithLog, Forked
  <1>14. ResultsLineUp'
    <2> SUFFICES ASSUME status' = "COMPLETED", NEW k \in Keys
                 PROVE  result'[k] = Recorded(log', k) /\ result'[k] # {}
      BY DEF ResultsLineUp
    <2>1. result'[k] = memo[a][k]
      BY <1>3 DEF Gathered
    <2>2. branch[a][k] = "done"
      BY <1>4, <1>10
    <2> QED
      BY <1>1, <1>3, <2>1, <2>2 DEF GatherInv, InStepWithLog
  <1>15. EffectsMarked' /\ EffectsRecorded'
    BY <1>3, EffectsFrame
  <1> QED
    BY <1>7, <1>11, <1>12, <1>13, <1>14, <1>15 DEF GatherInv

(* The run leaves the queue. *)
LEMMA DequeueKeeps ==
  ASSUME GatherInv, NEW a \in Attempts, Dequeue(a)
  PROVE  GatherInv'
  <1>1. main[a] = "dequeue" /\ ~Forked(a) /\ Working(a)
    BY DEF Dequeue, Forked, Working
  <1>2. /\ \A b \in Attempts : Working(b) => b = a
        /\ \A b \in Attempts : (Forked(b) => Engaged(b)) /\ (Engaged(b) => Working(b))
    BY <1>1, WorkingFacts
  <1>3. /\ GoMain(a, "over")
        /\ log' = log /\ status' = status /\ result' = result /\ landed' = landed
        /\ who' = who /\ error' = error /\ memo' = memo /\ unresolved' = unresolved
        /\ branch' = branch /\ UNCHANGED envVars
    BY DEF Dequeue, runVars, branchVars
  <1>4. GatherTypes
    BY DEF GatherInv
  <1>5. /\ main' \in [Attempts -> MainStages] /\ main'[a] = "over"
        /\ \A b \in Attempts \ {a} : main'[b] = main[b]
    BY <1>3, <1>4, MainFacts DEF MainStages
  <1>6. GatherTypes'
    BY <1>3, <1>4, <1>5 DEF GatherTypes
  <1>7. \A b \in Attempts : ~Working(b)' /\ ~Engaged(b)' /\ ~Forked(b)' /\ ~Forked(b)
    BY <1>1, <1>2, <1>5 DEF Working, Engaged, Forked
  <1>8. \A b \in Attempts, k \in Keys : Live(b, k)' <=> Live(b, k)
    BY <1>3 DEF Live
  <1>9. OneAttempt'
    BY <1>7 DEF OneAttempt, Working
  <1>10. OneFan'
    <2>1. \A b \in Attempts : main'[b] \in {"none", "load"} =>
            error'[b] = {} /\ \A k \in Keys : branch'[b][k] = "none"
      BY <1>3, <1>5 DEF GatherInv, OneFan
    <2> QED
      BY <1>3, <1>7, <1>8, <2>1 DEF GatherInv, OneFan
  <1>11. InStepWithLog'
    BY <1>7 DEF InStepWithLog, Forked
  <1>12. ResultsLineUp'
    BY <1>3 DEF GatherInv, ResultsLineUp
  <1>13. EffectsMarked' /\ EffectsRecorded'
    BY <1>3, EffectsFrame
  <1> QED
    BY <1>6, <1>9, <1>10, <1>11, <1>12, <1>13 DEF GatherInv

(* The fork: no branch runs yet, so what the attempt reads out of the log  *)
(* is what every earlier attempt has left there.                           *)
LEMMA ForkKeeps ==
  ASSUME GatherInv, NEW a \in Attempts, Fork(a)
  PROVE  GatherInv'
  <1>1. main[a] = "load" /\ ~Forked(a) /\ Engaged(a) /\ Working(a)
    BY DEF Fork, Forked, Engaged, Working
  <1>2. /\ \A b \in Attempts : Working(b) => b = a
        /\ Holds(who[a]) /\ error[a] # {"LeaseLost"}
        /\ \A b \in Attempts : (Forked(b) => Engaged(b)) /\ (Engaged(b) => Working(b))
        /\ \A b \in Attempts, k \in Keys : ~Live(b, k)
    BY <1>1, WorkingFacts
  <1>3. /\ status' = "RUNNING" /\ GoMain(a, "gather")
        /\ log' = log /\ result' = result /\ queue' = queue /\ owner' = owner
        /\ landed' = landed /\ who' = who /\ error' = error
        /\ down' = down /\ atMostOnce' = atMostOnce
    BY DEF Fork, queueVars, envVars
  <1>4. GatherTypes /\ log \in Seq(Event)
    BY DEF GatherInv, GatherTypes
  <1>5. /\ main' \in [Attempts -> MainStages] /\ main'[a] = "gather"
        /\ \A b \in Attempts \ {a} : main'[b] = main[b]
    BY <1>3, <1>4, MainFacts DEF MainStages
  <1>6. /\ memo' \in [Attempts -> [Keys -> SUBSET Results]]
        /\ \A k \in Keys : memo'[a][k] = Recorded(log, k)
        /\ \A b \in Attempts \ {a} : memo'[b] = memo[b]
    <2>1. [k \in Keys |-> Recorded(log, k)] \in [Keys -> SUBSET Results]
      BY <1>4, RecordedType
    <2>2. memo' = [memo EXCEPT ![a] = [k \in Keys |-> Recorded(log, k)]]
      BY DEF Fork
    <2> QED
      BY <1>4, <2>1, <2>2 DEF GatherTypes
  <1>7. /\ unresolved' \in [Attempts -> SUBSET Keys]
        /\ unresolved'[a] = Unresolved(log)
        /\ \A b \in Attempts \ {a} : unresolved'[b] = unresolved[b]
    <2>1. Unresolved(log) \subseteq Keys
      BY DEF Unresolved
    <2>2. unresolved' = [unresolved EXCEPT ![a] = Unresolved(log)]
      BY DEF Fork
    <2> QED
      BY <1>4, <2>1, <2>2 DEF GatherTypes
  <1>8. /\ branch' \in [Attempts -> [Keys -> BranchStages]]
        /\ \A k \in Keys : branch'[a][k] = IF Recorded(log, k) = {} THEN "boundary" ELSE "done"
        /\ \A b \in Attempts \ {a} : branch'[b] = branch[b]
    <2> DEFINE fan == [k \in Keys |-> IF Recorded(log, k) = {} THEN "boundary" ELSE "done"]
    <2>1. fan \in [Keys -> BranchStages]
      BY DEF BranchStages
    <2>2. branch' = [branch EXCEPT ![a] = fan]
      BY DEF Fork
    <2>3. \A k \in Keys : fan[k] = IF Recorded(log, k) = {} THEN "boundary" ELSE "done"
      OBVIOUS
    <2> HIDE DEF fan
    <2>4. branch'[a] = fan /\ branch' \in [Attempts -> [Keys -> BranchStages]]
          /\ \A b \in Attempts \ {a} : branch'[b] = branch[b]
      BY <1>4, <2>1, <2>2 DEF GatherTypes
    <2> QED
      BY <2>3, <2>4
  <1>9. GatherTypes'
    BY <1>3, <1>4, <1>5, <1>6, <1>7, <1>8 DEF GatherTypes
  <1>10. \A b \in Attempts : /\ Working(b)' <=> Working(b)
                             /\ Forked(b)' => b = a
                             /\ Holds(who[b])' <=> Holds(who[b])
    BY <1>1, <1>2, <1>3, <1>5 DEF Working, Forked, Holds
  <1>11. \A b \in Attempts, k \in Keys : Live(b, k)' => b = a
    BY <1>2, <1>8 DEF Live
  <1>12. OneAttempt'
    <2>1. \A b \in Attempts : Working(b)' => Holds(who[b])' /\ error'[b] # {"LeaseLost"}
      BY <1>2, <1>3, <1>10
    <2>2. \A b, c \in Attempts : Working(b)' /\ Working(c)' => b = c
      BY <1>2, <1>10
    <2> QED
      BY <1>3, <2>1, <2>2 DEF OneAttempt, Terminal, Holds
  <1>13. OneFan'
    <2>1. Forked(a)'
      BY <1>5 DEF Forked
    <2>2. \A b \in Attempts : main'[b] \in {"none", "load"} =>
            error'[b] = {} /\ \A k \in Keys : branch'[b][k] = "none"
      BY <1>3, <1>5, <1>8 DEF GatherInv, OneFan
    <2> QED
      BY <1>11, <2>1, <2>2 DEF OneFan
  <1>14. InStepWithLog'
    <2>1. \A b \in Attempts : main'[b] \notin {"verdict", "set_status"}
      BY <1>5, <1>10 DEF Forked
    <2>2. \A k \in Keys : /\ memo'[a][k] = Recorded(log', k)
                          /\ branch'[a][k] = "done" => memo'[a][k] # {}
      BY <1>3, <1>6, <1>8
    <2> QED
      BY <1>10, <2>1, <2>2 DEF InStepWithLog
  <1>15. ResultsLineUp'
    BY <1>3 DEF ResultsLineUp
  <1>16. EffectsMarked'
    <2> SUFFICES ASSUME atMostOnce, NEW k \in Keys
                 PROVE  /\ landed[k] <= 1
                        /\ landed[k] > 0 => Recorded(log, k) # {} \/ k \in Unresolved(log)
                        /\ \A b \in Attempts :
                             /\ branch'[b][k] \in {"boundary"} \cup Ended
                             /\ branch'[b][k] = "boundary" /\ k \notin unresolved'[b] => landed[k] = 0
      BY <1>3 DEF EffectsMarked, Ended
    <2>1. /\ landed[k] <= 1 /\ landed[k] \in Nat
          /\ landed[k] > 0 => Recorded(log, k) # {} \/ k \in Unresolved(log)
      BY <1>4 DEF GatherInv, EffectsMarked, GatherTypes
    <2>2. ASSUME NEW b \in Attempts, b # a PROVE branch'[b][k] \in Ended
      BY <1>2, <1>8, <2>2 DEF Live
    <2>3. branch'[a][k] = "boundary" /\ k \notin unresolved'[a] => landed[k] = 0
      BY <1>7, <1>8, <2>1
    <2>4. branch'[a][k] \in {"boundary", "done"}
      BY <1>8
    <2> QED
      BY <2>1, <2>2, <2>3, <2>4 DEF Ended
  <1>17. EffectsRecorded'
    <2>1. \A b \in Attempts, k \in Keys : branch[b][k] # "return"
      BY <1>2 DEF Live, Ended
    <2>2. \A b \in Attempts, k \in Keys : branch[b][k] = "refused" => branch'[b][k] = "refused"
      BY <1>8 DEF Fork, GatherInv, OneFan
    <2> QED
      BY <1>3, <2>1, <2>2 DEF GatherInv, EffectsRecorded
  <1> QED
    BY <1>9, <1>12, <1>13, <1>14, <1>15, <1>16, <1>17 DEF GatherInv

(* A delivery: the queue has been free, so nobody is at work. *)
LEMMA ClaimKeeps ==
  ASSUME GatherInv, NEW a \in Attempts, NEW w \in Workers, Claim(w, a)
  PROVE  GatherInv'
  <1>1. /\ queue = "free" /\ main[a] = "none" /\ queue' = "held" /\ owner' = w
        /\ who' = [who EXCEPT ![a] = w]
        /\ log' = log /\ status' = status /\ result' = result /\ landed' = landed
        /\ error' = error /\ memo' = memo /\ unresolved' = unresolved
        /\ branch' = branch /\ UNCHANGED envVars
    BY DEF Claim, runVars, branchVars
  <1>2. PICK there \in {"load", "dequeue"} :
          GoMain(a, there) /\ (there = "load" => status \notin Terminal)
    BY DEF Claim
  <1>3. GatherTypes
    BY DEF GatherInv
  <1>4. /\ main' \in [Attempts -> MainStages] /\ main'[a] = there
        /\ \A b \in Attempts \ {a} : main'[b] = main[b]
    BY <1>2, <1>3, MainFacts DEF MainStages
  <1>5. who' \in [Attempts -> Workers \cup {NoWorker}] /\ who'[a] = w
    BY <1>1, <1>3 DEF GatherTypes
  <1>6. GatherTypes'
    BY <1>1, <1>3, <1>4, <1>5 DEF GatherTypes
  <1>7. \A b \in Attempts : ~Working(b)
    BY <1>1 DEF GatherInv, OneAttempt, Holds
  <1>8. \A b \in Attempts : ~Forked(b) /\ ~Forked(b)' /\ (Working(b)' => b = a) /\ (Engaged(b)' => b = a)
    BY <1>1, <1>4, <1>7 DEF Forked, Working, Engaged
  <1>9. error[a] = {} /\ \A k \in Keys : branch[a][k] = "none"
    BY <1>1 DEF GatherInv, OneFan
  <1>10. \A b \in Attempts, k \in Keys : Live(b, k)' <=> Live(b, k)
    BY <1>1 DEF Live
  <1>11. OneAttempt'
    <2>1. {} # {"LeaseLost"}
      OBVIOUS
    <2>2. Engaged(a)' => status' \notin Terminal
      BY <1>1, <1>2, <1>4 DEF Engaged
    <2>3. queue' = "held" /\ owner' = who'[a] /\ error'[a] # {"LeaseLost"}
      BY <1>1, <1>5, <1>9, <2>1
    <2> QED
      BY <1>8, <2>2, <2>3 DEF OneAttempt, Holds
  <1>12. OneFan'
    <2>1. \A b \in Attempts : main'[b] \in {"none", "load"} =>
            error'[b] = {} /\ \A k \in Keys : branch'[b][k] = "none"
      BY <1>1, <1>4, <1>9 DEF GatherInv, OneFan
    <2> QED
      BY <1>1, <1>8, <1>10, <2>1 DEF GatherInv, OneFan
  <1>13. InStepWithLog'
    BY <1>8 DEF InStepWithLog, Forked
  <1>14. ResultsLineUp'
    BY <1>1 DEF GatherInv, ResultsLineUp
  <1>15. EffectsMarked' /\ EffectsRecorded'
    BY <1>1, EffectsFrame
  <1> QED
    BY <1>6, <1>11, <1>12, <1>13, <1>14, <1>15 DEF GatherInv

(* The lease of a worker that is not at work on the run runs out. *)
LEMMA LapseKeeps ==
  ASSUME GatherInv, LeaseLapses
  PROVE  GatherInv'
  <1>1. /\ ~Busy(owner) /\ UNCHANGED <<log, status, result, landed, main, who, error>>
        /\ UNCHANGED <<memo, unresolved, branch, envVars>>
    BY DEF LeaseLapses, runVars, mainVars, branchVars
  <1>2. GatherTypes'
    BY <1>1 DEF GatherInv, GatherTypes
  <1>3. \A b \in Attempts : ~Working(b)
    BY <1>1 DEF GatherInv, OneAttempt, Holds, Busy
  <1>4. \A b \in Attempts : /\ ~Working(b)' /\ ~Engaged(b)' /\ ~Forked(b)'
                            /\ (Forked(b)' <=> Forked(b))
    BY <1>1, <1>3 DEF Working, Engaged, Forked
  <1>5. \A b \in Attempts, k \in Keys : Live(b, k)' <=> Live(b, k)
    BY <1>1 DEF Live
  <1>6. OneAttempt'
    BY <1>4 DEF OneAttempt, Working
  <1>7. OneFan'
    BY <1>1, <1>4, <1>5 DEF GatherInv, OneFan
  <1>8. InStepWithLog'
    BY <1>4 DEF InStepWithLog, Forked
  <1>9. ResultsLineUp'
    BY <1>1 DEF GatherInv, ResultsLineUp
  <1>10. EffectsMarked' /\ EffectsRecorded'
    BY <1>1, EffectsFrame
  <1> QED
    BY <1>2, <1>6, <1>7, <1>8, <1>9, <1>10 DEF GatherInv

(* A worker dies with its attempt and all its branches. *)
LEMMA CrashKeeps ==
  ASSUME GatherInv, NEW w \in Workers, Crash(w)
  PROVE  GatherInv'
  <1>1. /\ log' = log /\ status' = status /\ result' = result /\ landed' = landed
        /\ queue' = queue /\ owner' = owner /\ who' = who /\ error' = error
        /\ memo' = memo /\ unresolved' = unresolved /\ atMostOnce' = atMostOnce
        /\ w \in down'
    BY DEF Crash, runVars, queueVars
  <1>2. GatherTypes
    BY DEF GatherInv
  <1>3. /\ main' \in [Attempts -> MainStages]
        /\ \A b \in Attempts : main'[b] = IF who[b] = w THEN "over" ELSE main[b]
    BY <1>2 DEF Crash, GatherTypes, MainStages
  <1>4. /\ branch' \in [Attempts -> [Keys -> BranchStages]]
        /\ \A b \in Attempts, k \in Keys :
             branch'[b][k] = IF who[b] = w /\ branch[b][k] \notin Ended THEN "dead" ELSE branch[b][k]
    BY <1>2 DEF Crash, GatherTypes, BranchStages
  <1>5. GatherTypes'
    BY <1>1, <1>2, <1>3, <1>4 DEF GatherTypes
  <1>6. \A b \in Attempts : main'[b] # "over" =>
          main'[b] = main[b] /\ \A k \in Keys : branch'[b][k] = branch[b][k]
    BY <1>3, <1>4
  <1>7. \A b \in Attempts : /\ Working(b)' => Working(b) /\ main'[b] # "over"
                            /\ Engaged(b)' => Engaged(b) /\ main'[b] # "over"
                            /\ Forked(b)' => Forked(b) /\ main'[b] # "over"
                            /\ Holds(who[b])' <=> Holds(who[b])
    BY <1>1, <1>6 DEF Working, Engaged, Forked, Holds
  <1>8. \A b \in Attempts, k \in Keys : Live(b, k)' => Live(b, k) /\ (Forked(b) => Forked(b)')
    <2> SUFFICES ASSUME NEW b \in Attempts, NEW k \in Keys, Live(b, k)'
                 PROVE  Live(b, k) /\ (Forked(b) => Forked(b)')
      OBVIOUS
    <2>1. branch'[b][k] \notin Ended /\ "dead" \in Ended
      BY DEF Live, Ended
    <2>2. who[b] # w /\ branch[b][k] \notin Ended
      BY <1>4, <2>1
    <2> QED
      BY <1>3, <2>2 DEF Live, Forked
  <1>9. OneAttempt'
    <2>1. \A b \in Attempts : Working(b)' => Holds(who[b])' /\ error'[b] # {"LeaseLost"}
      BY <1>1, <1>7 DEF GatherInv, OneAttempt
    <2>2. \A b, c \in Attempts : Working(b)' /\ Working(c)' => b = c
      BY <1>7 DEF GatherInv, OneAttempt
    <2>3. \A b \in Attempts : Engaged(b)' => status' \notin Terminal
      BY <1>1, <1>7 DEF GatherInv, OneAttempt
    <2> QED
      BY <1>1, <2>1, <2>2, <2>3 DEF OneAttempt, Holds
  <1>10. OneFan'
    <2>1. \A b \in Attempts : main'[b] \in {"none", "load"} =>
            error'[b] = {} /\ \A k \in Keys : branch'[b][k] = "none"
      BY <1>1, <1>6 DEF GatherInv, OneFan
    <2> QED
      BY <1>1, <1>8, <2>1 DEF GatherInv, OneFan
  <1>11. InStepWithLog'
    BY <1>1, <1>6, <1>7 DEF GatherInv, InStepWithLog
  <1>12. ResultsLineUp'
    BY <1>1 DEF GatherInv, ResultsLineUp
  <1>13. EffectsMarked'
    <2>1. \A b \in Attempts, k \in Keys : branch'[b][k] = branch[b][k] \/ branch'[b][k] = "dead"
      BY <1>4
    <2> QED
      BY <1>1, <2>1 DEF GatherInv, EffectsMarked
  <1>14. EffectsRecorded'
    BY <1>1 DEF EffectsRecorded
  <1> QED
    BY <1>5, <1>9, <1>10, <1>11, <1>12, <1>13, <1>14 DEF GatherInv

-----------------------------------------------------------------------------
(* A submitted run has no branch and no effect. *)
LEMMA GatherStarts == GatherInit => GatherInv
  <1> SUFFICES ASSUME GatherInit PROVE GatherInv
    OBVIOUS
  <1> USE DEF GatherInit
  <1>1. log \in Seq(Event)
    <2>1. RunEvent("RunStarted") \in Event
      BY DEF RunEvent, Event, EventType
    <2> QED
      BY <2>1
  <1>2. GatherTypes
    BY <1>1 DEF GatherTypes, MainStages, BranchStages
  <1>3. \A a \in Attempts : ~Working(a) /\ ~Forked(a) /\ ~Engaged(a)
    BY DEF Working, Forked, Engaged
  <1>4. \A a \in Attempts, k \in Keys : ~Live(a, k)
    BY DEF Live, Ended
  <1>5. OneAttempt /\ OneFan /\ InStepWithLog
    BY <1>3, <1>4 DEF OneAttempt, OneFan, InStepWithLog, Forked
  <1>6. ResultsLineUp
    BY DEF ResultsLineUp
  <1>7. EffectsMarked /\ EffectsRecorded
    <2>1. \A k \in Keys : landed[k] = 0 /\ \A a \in Attempts : branch[a][k] = "none"
      OBVIOUS
    <2> QED
      BY <2>1 DEF EffectsMarked, EffectsRecorded
  <1> QED
    BY <1>2, <1>5, <1>6, <1>7 DEF GatherInv

(* Every step keeps the invariant. *)
LEMMA GatherStep == GatherInv /\ [GatherNext]_gatherVars => GatherInv'
  <1> SUFFICES ASSUME GatherInv, [GatherNext]_gatherVars PROVE GatherInv'
    OBVIOUS
  <1>1. ASSUME NEW a \in Attempts, NEW w \in Workers, Claim(w, a) PROVE GatherInv'
    BY <1>1, ClaimKeeps
  <1>2. ASSUME NEW a \in Attempts, AttemptStep(a) PROVE GatherInv'
    BY <1>2, ForkKeeps, JoinKeeps, WriteVerdictKeeps, SetStatusKeeps, DequeueKeeps
       DEF AttemptStep
  <1>3. ASSUME NEW a \in Attempts, NEW k \in Keys, BranchStep(a, k) PROVE GatherInv'
    BY <1>3, BoundaryKeeps, InvokeKeeps, StartKeeps, CompleteKeeps, RefuseKeeps, FailKeeps
       DEF BranchStep
  <1>4. ASSUME NEW w \in Workers, Crash(w) PROVE GatherInv'
    BY <1>4, CrashKeeps
  <1>5. CASE LeaseLapses
    BY <1>5, LapseKeeps
  <1>6. CASE UNCHANGED gatherVars
    <2>1. /\ UNCHANGED <<log, status, result, queue, owner, landed, main, who, error>>
          /\ UNCHANGED <<memo, unresolved, branch, down, atMostOnce>>
      BY <1>6 DEF gatherVars, runVars, queueVars, mainVars, branchVars, envVars
    <2> QED
      <3>1. GatherTypes' /\ OneAttempt' /\ OneFan'
        BY <2>1 DEF GatherInv, GatherTypes, OneAttempt, OneFan, Working, Engaged, Forked,
                    Live, Holds
      <3>2. InStepWithLog' /\ ResultsLineUp'
        BY <2>1 DEF GatherInv, InStepWithLog, ResultsLineUp, Forked
      <3>3. EffectsMarked' /\ EffectsRecorded'
        BY <2>1, EffectsFrame DEF envVars
      <3> QED
        BY <3>1, <3>2, <3>3 DEF GatherInv
  <1> QED
    BY <1>1, <1>2, <1>3, <1>4, <1>5, <1>6 DEF GatherNext

(* The invariant of a fan-out. *)
LEMMA GatherInvariant == GatherSpec => []GatherInv
  BY GatherStarts, GatherStep, PTL DEF GatherSpec

(* For any number of branches: a completed gather returned, in list order, *)
(* what the log holds for each of them.                                    *)
THEOREM ResultsInOrder == GatherSpec => []ResultsLineUp
  <1>1. GatherInv => ResultsLineUp
    BY DEF GatherInv
  <1> QED
    BY <1>1, GatherInvariant, PTL

(* For any number of branches, tries and deliveries: no AT_MOST_ONCE       *)
(* branch has its effect twice, not even one that outlives the verdict.    *)
THEOREM BranchesAtMostOnce == GatherSpec => []BranchAtMostOnce
  <1>1. GatherInv => BranchAtMostOnce
    BY DEF GatherInv, EffectsMarked, BranchAtMostOnce
  <1> QED
    BY <1>1, GatherInvariant, PTL

(* While no process has died, a fan-out whose branches have all ended has  *)
(* recorded every effect it had.                                           *)
THEOREM EveryEffectRecorded == GatherSpec => []NothingUnrecorded
  <1>1. GatherInv => NothingUnrecorded
    <2> SUFFICES ASSUME GatherInv, AllEnded, down = {}, NEW k \in Keys, landed[k] > 0,
                        ~Refused(k)
                 PROVE  Recorded(log, k) # {}
      BY DEF NothingUnrecorded
    <2>1. \A a \in Attempts : branch[a][k] \notin {"return", "refused"}
      BY DEF AllEnded, Ended, Refused
    <2> QED
      BY <2>1 DEF GatherInv, EffectsRecorded
  <1> QED
    BY <1>1, GatherInvariant, PTL
=============================================================================
