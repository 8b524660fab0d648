---------------------------- MODULE RunLogProofs ----------------------------
(***************************************************************************)
(* What appending one event to a log does to what is read out of it.       *)
(***************************************************************************)
EXTENDS RunLog, FiniteSetTheorems, TLAPS

(* The positions of the events of one type and key are positions of the log. *)
LEMMA AtRange ==
  ASSUME NEW s \in Seq(Event), NEW y, NEW k
  PROVE  At(s, y, k) \subseteq 1 .. Len(s)
  BY DEF At

(* An appended event is the last one and leaves the others where they are. *)
LEMMA AtAppend ==
  ASSUME NEW s \in Seq(Event), NEW e \in Event, NEW y, NEW k
  PROVE  At(Append(s, e), y, k) =
           At(s, y, k) \cup (IF e.type = y /\ e.key = k THEN {Len(s) + 1} ELSE {})
  <1> DEFINE a == Append(s, e)
  <1>1. /\ DOMAIN s = 1 .. Len(s)
        /\ DOMAIN a = 1 .. (Len(s) + 1)
        /\ \A i \in 1 .. Len(s) : a[i] = s[i]
        /\ a[Len(s) + 1] = e
        /\ Len(s) \in Nat
    OBVIOUS
  <1>2. 1 .. (Len(s) + 1) = (1 .. Len(s)) \cup {Len(s) + 1}
    BY <1>1
  <1> HIDE DEF a
  <1>3. At(a, y, k) = At(s, y, k) \cup (IF e.type = y /\ e.key = k THEN {Len(s) + 1} ELSE {})
    BY <1>1, <1>2 DEF At
  <1> QED
    BY <1>3 DEF a

(* An event of another type or key is not among them. *)
LEMMA AtAppendOther ==
  ASSUME NEW s \in Seq(Event), NEW e \in Event, NEW y, NEW k, ~(e.type = y /\ e.key = k)
  PROVE  At(Append(s, e), y, k) = At(s, y, k)
  <1>1. At(Append(s, e), y, k) =
          At(s, y, k) \cup (IF e.type = y /\ e.key = k THEN {Len(s) + 1} ELSE {})
    BY AtAppend
  <1> QED
    BY <1>1

(* A log holds finitely many events of one type and key. *)
LEMMA AtFinite ==
  ASSUME NEW s \in Seq(Event), NEW y, NEW k
  PROVE  IsFiniteSet(At(s, y, k)) /\ Cardinality(At(s, y, k)) \in Nat
  <1>1. IsFiniteSet(1 .. Len(s))
    BY FS_Interval
  <1>2. IsFiniteSet(At(s, y, k))
    BY <1>1, AtRange, FS_Subset
  <1> QED
    BY <1>2, FS_CardinalityType

(* An appended event takes none of the events before it away. *)
LEMMA AppendGrows ==
  ASSUME NEW s \in Seq(Event), NEW e \in Event
  PROVE  /\ Append(s, e) \in Seq(Event)
         /\ DOMAIN s \subseteq DOMAIN Append(s, e)
         /\ DOMAIN Append(s, e) = DOMAIN s \cup {Len(s) + 1}
         /\ \A i \in DOMAIN s : i \in Nat /\ i < Len(s) + 1
         /\ \A i \in DOMAIN s : Append(s, e)[i] = s[i]
         /\ Append(s, e)[Len(s) + 1] = e
         /\ Len(s) + 1 \in DOMAIN Append(s, e) /\ Len(s) + 1 \notin DOMAIN s
  OBVIOUS

(* The result a StepCompleted event carries replaces the one before it. *)
LEMMA RecordedAppendCompleted ==
  ASSUME NEW s \in Seq(Event), NEW e \in Event, e.type = "StepCompleted"
  PROVE  Recorded(Append(s, e), e.key) = e.val
  <1> DEFINE a == Append(s, e)
             n == Len(s) + 1
             S == At(a, "StepCompleted", e.key)
  <1>1. S = At(s, "StepCompleted", e.key) \cup {n}
    BY AtAppend
  <1>2. n \in Nat /\ n - 1 \in Nat /\ At(s, "StepCompleted", e.key) \subseteq 1 .. (n - 1)
    BY AtRange
  <1>3. {j \in S : \A l \in S : l <= j} = {n}
    <2> HIDE DEF S, n
    <2>1. \A l \in S : l \in Nat /\ l <= n
      BY <1>1, <1>2
    <2>2. n \in S
      BY <1>1
    <2>3. \A j \in S : n <= j => j = n
      BY <1>2, <2>1
    <2> QED
      BY <2>1, <2>2, <2>3
  <1>4. a[n] = e
    OBVIOUS
  <1>5. Recorded(a, e.key) = UNION {a[i].val : i \in {n}}
    BY <1>3 DEF Recorded
  <1> QED
    BY <1>4, <1>5

(* Any other event leaves the recorded result of a step alone. *)
LEMMA RecordedAppendOther ==
  ASSUME NEW s \in Seq(Event), NEW e \in Event, NEW k,
         ~(e.type = "StepCompleted" /\ e.key = k)
  PROVE  Recorded(Append(s, e), k) = Recorded(s, k)
  <1> DEFINE a == Append(s, e)
             L == {j \in At(s, "StepCompleted", k) :
                     \A l \in At(s, "StepCompleted", k) : l <= j}
  <1>1. At(a, "StepCompleted", k) = At(s, "StepCompleted", k)
    <2>1. At(a, "StepCompleted", k) = At(s, "StepCompleted", k) \cup
            (IF e.type = "StepCompleted" /\ e.key = k THEN {Len(s) + 1} ELSE {})
      BY AtAppend
    <2> QED
      BY <2>1
  <1>2. \A i \in L : a[i] = s[i]
    BY AtRange
  <1>3. {a[i].val : i \in L} = {s[i].val : i \in L}
    BY <1>2
  <1>4. Recorded(a, k) = UNION {a[i].val : i \in L}
    BY <1>1 DEF Recorded
  <1>5. Recorded(s, k) = UNION {s[i].val : i \in L}
    BY DEF Recorded
  <1> QED
    BY <1>3, <1>4, <1>5

(* What is recorded for a step is a set of results. *)
LEMMA RecordedType ==
  ASSUME NEW s \in Seq(Event), NEW k
  PROVE  Recorded(s, k) \subseteq Results
  <1>1. \A i \in 1 .. Len(s) : s[i] \in Event
    OBVIOUS
  <1>2. \A e \in Event : e.val \in SUBSET Results
    BY DEF Event
  <1>3. \A i \in At(s, "StepCompleted", k) : s[i].val \in SUBSET Results
    BY <1>1, <1>2, AtRange
  <1> QED
    BY <1>3 DEF Recorded

(* A step is unresolved after one more event exactly when the event starts *)
(* it, or it was unresolved and the event does not settle it.              *)
LEMMA UnresolvedAppend ==
  ASSUME NEW s \in Seq(Event), NEW e \in Event
  PROVE  Unresolved(Append(s, e)) =
           {k \in Keys : \/ e.type = "StepStarted" /\ e.key = k
                         \/ /\ k \in Unresolved(s)
                            /\ ~(e.type \in {"StepCompleted", "StepFailed"} /\ e.key = k)}
  <1> DEFINE a == Append(s, e)
             n == Len(s) + 1
             Starts(l, k) == At(l, "StepStarted", k)
             Ends(l, k) == At(l, "StepCompleted", k) \cup At(l, "StepFailed", k)
             Opened(l, k) == \E i \in Starts(l, k) : \A j \in Ends(l, k) : j < i
  <1> SUFFICES ASSUME NEW k \in Keys
               PROVE  Opened(a, k) <=>
                        \/ e.type = "StepStarted" /\ e.key = k
                        \/ /\ Opened(s, k)
                           /\ ~(e.type \in {"StepCompleted", "StepFailed"} /\ e.key = k)
    BY DEF Unresolved
  <1>1. /\ n \in Nat
        /\ \A i \in Starts(s, k) \cup Ends(s, k) : i \in Nat /\ i < n
    BY AtRange
  <1>2. Starts(a, k) = Starts(s, k) \cup
          (IF e.type = "StepStarted" /\ e.key = k THEN {n} ELSE {})
    BY AtAppend
  <1>3. Ends(a, k) = Ends(s, k) \cup
          (IF e.type \in {"StepCompleted", "StepFailed"} /\ e.key = k THEN {n} ELSE {})
    BY AtAppend
  <1> HIDE DEF Starts, Ends, n, a
  <1>4. CASE e.type = "StepStarted" /\ e.key = k
    BY <1>1, <1>2, <1>3, <1>4
  <1>5. CASE e.type \in {"StepCompleted", "StepFailed"} /\ e.key = k
    <2>1. Starts(a, k) = Starts(s, k) /\ n \in Ends(a, k)
      BY <1>2, <1>3, <1>5
    <2>2. \A i \in Starts(s, k) : ~(n < i)
      BY <1>1
    <2> QED
      BY <1>5, <2>1, <2>2
  <1>6. CASE ~(e.type \in {"StepStarted", "StepCompleted", "StepFailed"} /\ e.key = k)
    BY <1>1, <1>2, <1>3, <1>6
  <1> QED
    BY <1>4, <1>5, <1>6
=============================================================================
