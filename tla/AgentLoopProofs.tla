-------------------------- MODULE AgentLoopProofs --------------------------
(***************************************************************************)
(* A key means one step, for any tools, any answers of a model, any number *)
(* of turns and attempts.                                                  *)
(***************************************************************************)
EXTENDS AgentLoop, SequenceTheorems, FiniteSetTheorems, TLAPS

(* What decides how the loop goes on. *)
Position(l, o, m, c, u, n, w) ==
  [at |-> l, ordinals |-> o, messages |-> m, calls |-> c, outputs |-> u, turns |-> n,
   transcript |-> w]

(* Where every attempt begins. *)
Start == Position("model", [n \in Names |-> 0], <<>>, <<>>, <<>>, 0, <<>>)

(* Where the attempt is, the end of a turn without calls left behind it. *)
Now ==
  IF at = "tools" /\ calls = <<>>
  THEN Position("model", ordinals, Append(messages, outputs), <<>>, <<>>, turns + 1, transcript)
  ELSE Position(at, ordinals, messages, calls, outputs, turns, transcript)

(* The step that is taken at s: its name, its key, the question behind it. *)
NameAt(s) == IF s.at = "model" THEN "model" ELSE Head(s.calls)
KeyAt(s) == <<NameAt(s), s.ordinals[NameAt(s)] + 1>>
AskedAt(s) == <<s.messages, s.outputs>>

(* The model is asked within the limit of turns, and only tools are called. *)
MayStep(s) ==
  /\ s.at = "model" => s.turns < MAX_TURNS
  /\ s.at # "model" => s.at = "tools" /\ Head(s.calls) \in Tools

(* Where the loop is once the step at s has returned r: an answer that     *)
(* wants nothing ends it.                                                  *)
After(s, r) ==
  LET o == [s.ordinals EXCEPT ![NameAt(s)] = @ + 1]
      w == Append(s.transcript, <<NameAt(s), r>>)
  IN IF s.at = "model" /\ r = <<>>
     THEN Position("returned", o, s.messages, s.calls, s.outputs, s.turns, s.transcript)
     ELSE IF s.at = "model"
     THEN Position("tools", o, Append(s.messages, r), r, s.outputs, s.turns, s.transcript)
     ELSE IF Tail(s.calls) = <<>>
     THEN Position("model", o, Append(s.messages, Append(s.outputs, r)), <<>>, <<>>,
                   s.turns + 1, w)
     ELSE Position("tools", o, s.messages, Tail(s.calls), Append(s.outputs, r), s.turns, w)

(* w is the transcript of the first n entries of the log l. *)
Tells(l, w, n) ==
  /\ \E T : w \in Seq(T)
  /\ Len(w) = Cardinality(ToolSteps(l, n))
  /\ \A i \in ToolSteps(l, n) :
       w[Cardinality(ToolSteps(l, i))] = <<l[i].key[1], l[i].result>>

(* One past the last entry of the log. *)
Frontier == Len(recorded) + 1

(* h is the course of the loop that the log records: entry i was made at   *)
(* h[i], and the ordinals and the transcript only grow along it.           *)
Course(h) ==
  /\ h[1] = Start
  /\ \A i \in 1 .. Frontier : h[i].ordinals \in [Names -> Nat]
  /\ \A i \in 1 .. Len(recorded) :
       /\ MayStep(h[i])
       /\ recorded[i].key = KeyAt(h[i]) /\ recorded[i].asked = AskedAt(h[i])
       /\ h[i + 1] = After(h[i], recorded[i].result)
  /\ \A i, j \in 1 .. Frontier : i <= j =>
       \A n \in Names : h[i].ordinals[n] <= h[j].ordinals[n]
  /\ \A i \in 1 .. Frontier : Tells(recorded, h[i].transcript, i - 1)

(* The log records one course, and the attempt is somewhere on it until it *)
(* ends.                                                                   *)
OnCourse ==
  /\ \E S : recorded \in Seq(S)
  /\ \E h : /\ Course(h)
            /\ at \in {"model", "tools"} => \E p \in 1 .. Frontier : h[p] = Now
  /\ TranscriptIsLog

-----------------------------------------------------------------------------
(* A step that may be taken has a name that has an ordinal. *)
LEMMA StepName ==
  ASSUME NEW s, MayStep(s)
  PROVE  NameAt(s) \in Names /\ (s.at = "model" <=> NameAt(s) = "model")
  BY AgentAssumption DEF MayStep, NameAt, Names

(* A longer log. *)
LEMMA LogAppend ==
  ASSUME NEW S, NEW s \in Seq(S), NEW e
  PROVE  /\ Append(s, e) \in Seq(S \cup {e})
         /\ Len(Append(s, e)) = Len(s) + 1 /\ Len(s) \in Nat
         /\ \A i \in 1 .. Len(s) : Append(s, e)[i] = s[i]
         /\ Append(s, e)[Len(s) + 1] = e
  <1>1. s \in Seq(S \cup {e})
    BY SeqDef
  <1> QED
    BY <1>1

(* The tool steps can be counted, and those up to one of them are some and *)
(* no more than all.                                                       *)
LEMMA CountSteps ==
  ASSUME NEW l, NEW n \in Nat
  PROVE  /\ IsFiniteSet(ToolSteps(l, n)) /\ Cardinality(ToolSteps(l, n)) \in Nat
         /\ \A i \in ToolSteps(l, n) :
              Cardinality(ToolSteps(l, i)) \in 1 .. Cardinality(ToolSteps(l, n))
  <1>1. ASSUME NEW m \in Nat
        PROVE  IsFiniteSet(ToolSteps(l, m)) /\ Cardinality(ToolSteps(l, m)) \in Nat
    <2>1. IsFiniteSet(1 .. m) /\ ToolSteps(l, m) \subseteq 1 .. m
      BY FS_Interval DEF ToolSteps
    <2> QED
      BY <2>1, FS_Subset, FS_CardinalityType
  <1>2. ASSUME NEW i \in ToolSteps(l, n)
        PROVE  Cardinality(ToolSteps(l, i)) \in 1 .. Cardinality(ToolSteps(l, n))
    <2>1. i \in Nat /\ i \in ToolSteps(l, i) /\ ToolSteps(l, i) \subseteq ToolSteps(l, n)
      BY DEF ToolSteps
    <2>2. /\ Cardinality(ToolSteps(l, i)) \in Nat /\ Cardinality(ToolSteps(l, n)) \in Nat
          /\ IsFiniteSet(ToolSteps(l, i)) /\ IsFiniteSet(ToolSteps(l, n))
      BY <1>1, <2>1
    <2>3. Cardinality(ToolSteps(l, i)) # 0
      BY <2>1, <2>2, FS_EmptySet
    <2>4. Cardinality(ToolSteps(l, i)) <= Cardinality(ToolSteps(l, n))
      BY <2>1, <2>2, FS_Subset
    <2> QED
      BY <2>2, <2>3, <2>4
  <1> QED
    BY <1>1, <1>2

(* A transcript tells of the same entries in a longer log. *)
LEMMA TellsStill ==
  ASSUME NEW l, NEW m, NEW w, NEW n \in Nat, Tells(l, w, n), \A i \in 1 .. n : m[i] = l[i]
  PROVE  Tells(m, w, n)
  <1>1. ToolSteps(m, n) = ToolSteps(l, n)
    BY DEF ToolSteps
  <1>2. ASSUME NEW i \in ToolSteps(l, n)
        PROVE  ToolSteps(m, i) = ToolSteps(l, i) /\ m[i] = l[i]
    BY DEF ToolSteps
  <1> QED
    BY <1>1, <1>2 DEF Tells

(* One more entry: the transcript grows with a tool step only. *)
LEMMA TellsMore ==
  ASSUME NEW l, NEW w, NEW n \in Nat, Tells(l, w, n)
  PROVE  /\ l[n + 1].key[1] = "model" => Tells(l, w, n + 1)
         /\ l[n + 1].key[1] # "model" =>
              Tells(l, Append(w, <<l[n + 1].key[1], l[n + 1].result>>), n + 1)
  <1> DEFINE c(i) == Cardinality(ToolSteps(l, i))
             entry == <<l[n + 1].key[1], l[n + 1].result>>
             v == Append(w, entry)
  <1>1. CASE l[n + 1].key[1] = "model"
    <2>1. ToolSteps(l, n + 1) = ToolSteps(l, n)
      BY <1>1 DEF ToolSteps
    <2> QED
      BY <1>1, <2>1 DEF Tells
  <1>2. CASE l[n + 1].key[1] # "model"
    <2>1. ToolSteps(l, n + 1) = ToolSteps(l, n) \cup {n + 1} /\ n + 1 \notin ToolSteps(l, n)
      BY <1>2 DEF ToolSteps
    <2>2. c(n + 1) = c(n) + 1 /\ c(n) \in Nat
      BY <2>1, CountSteps, FS_AddElement
    <2>3. \A i \in ToolSteps(l, n) : c(i) \in 1 .. c(n)
      BY CountSteps
    <2>4. Len(w) = c(n) /\ \A i \in ToolSteps(l, n) : w[c(i)] = <<l[i].key[1], l[i].result>>
      BY DEF Tells
    <2>5. PICK T : w \in Seq(T)
      BY DEF Tells
    <2>6. /\ v \in Seq(T \cup {entry}) /\ Len(v) = Len(w) + 1
          /\ \A i \in 1 .. Len(w) : v[i] = w[i]
          /\ v[Len(w) + 1] = entry
      BY <2>5, LogAppend
    <2> HIDE DEF c, v
    <2>7. \A i \in ToolSteps(l, n + 1) : v[c(i)] = <<l[i].key[1], l[i].result>>
      <3>1. ASSUME NEW i \in ToolSteps(l, n) PROVE v[c(i)] = <<l[i].key[1], l[i].result>>
        BY <2>3, <2>4, <2>6
      <3>2. v[c(n + 1)] = <<l[n + 1].key[1], l[n + 1].result>>
        BY <2>2, <2>4, <2>6
      <3> QED
        BY <2>1, <3>1, <3>2
    <2>8. Len(v) = c(n + 1)
      BY <2>2, <2>4, <2>6
    <2> QED
      BY <1>2, <2>6, <2>7, <2>8 DEF Tells, c, v
  <1> QED
    BY <1>1, <1>2

(* On the course no other entry has the key of the step at h[p]. *)
LEMMA OneEntry ==
  ASSUME NEW S, recorded \in Seq(S), NEW h, Course(h), NEW p \in 1 .. Frontier,
         NameAt(h[p]) \in Names
  PROVE  Entries(KeyAt(h[p])) = {p} \cap (1 .. Len(recorded))
  <1> DEFINE L == Len(recorded)
             o(i) == h[i].ordinals
             nm == NameAt(h[p])
  <1>1. L \in Nat /\ DOMAIN recorded = 1 .. L
    OBVIOUS
  <1>2. \A i \in 1 .. (L + 1) : \A n \in Names : o(i)[n] \in Nat
    BY DEF Course, Frontier
  <1>3. \A i \in 1 .. L : /\ NameAt(h[i]) \in Names
                          /\ recorded[i].key = <<NameAt(h[i]), o(i)[NameAt(h[i])] + 1>>
                          /\ o(i + 1)[NameAt(h[i])] = o(i)[NameAt(h[i])] + 1
    <2> SUFFICES ASSUME NEW i \in 1 .. L
                 PROVE  /\ NameAt(h[i]) \in Names
                        /\ recorded[i].key = <<NameAt(h[i]), o(i)[NameAt(h[i])] + 1>>
                        /\ o(i + 1)[NameAt(h[i])] = o(i)[NameAt(h[i])] + 1
      OBVIOUS
    <2>1. MayStep(h[i]) /\ recorded[i].key = KeyAt(h[i])
          /\ h[i + 1] = After(h[i], recorded[i].result) /\ h[i].ordinals \in [Names -> Nat]
      BY <1>1 DEF Course, Frontier
    <2>2. o(i + 1) = [h[i].ordinals EXCEPT ![NameAt(h[i])] = @ + 1]
      BY <2>1 DEF After, Position
    <2> QED
      BY <2>1, <2>2, StepName DEF KeyAt
  <1>4. \A i, j \in 1 .. (L + 1) : i <= j => \A n \in Names : o(i)[n] <= o(j)[n]
    BY DEF Course, Frontier
  <1>5. ASSUME NEW i \in 1 .. L, i # p, recorded[i].key = KeyAt(h[p])
        PROVE  FALSE
    <2>1. NameAt(h[i]) = nm /\ o(i)[nm] + 1 = o(p)[nm] + 1
      BY <1>3, <1>5 DEF KeyAt
    <2>2. o(i + 1)[nm] = o(i)[nm] + 1 /\ o(i)[nm] \in Nat /\ o(p)[nm] \in Nat
      BY <1>1, <1>2, <1>3, <2>1 DEF Frontier
    <2>3. CASE i < p
      <3>1. i + 1 \in 1 .. (L + 1) /\ i + 1 <= p /\ p \in 1 .. (L + 1)
        BY <1>1, <2>3 DEF Frontier
      <3>2. o(i + 1)[nm] <= o(p)[nm]
        BY <1>4, <3>1
      <3> QED
        BY <2>1, <2>2, <3>2
    <2>4. CASE p < i
      <3>1. p \in 1 .. L /\ p + 1 \in 1 .. (L + 1) /\ i \in 1 .. (L + 1) /\ p + 1 <= i
        BY <1>1, <2>4 DEF Frontier
      <3>2. o(p + 1)[nm] <= o(i)[nm] /\ o(p + 1)[nm] = o(p)[nm] + 1
        BY <1>3, <1>4, <3>1
      <3> QED
        BY <2>1, <2>2, <3>2
    <2> QED
      BY <1>1, <1>5, <2>3, <2>4 DEF Frontier
  <1>6. p \in 1 .. L => recorded[p].key = KeyAt(h[p])
    BY DEF Course
  <1> QED
    BY <1>1, <1>5, <1>6 DEF Entries

(* A step taken on the course leads one further along it, replayed or not. *)
LEMMA StepOnCourse ==
  ASSUME NEW S, recorded \in Seq(S), NEW h, Course(h), NEW p \in 1 .. Frontier,
         NEW name \in Names, NameAt(h[p]) = name, MayStep(h[p]), ordinals = h[p].ordinals,
         Asked = AskedAt(h[p]),
         NEW possible, NEW result \in ResultsOf(NextKey(name), possible), Step(name, result)
  PROVE  /\ \E T : recorded' \in Seq(T)
         /\ \E g : Course(g)' /\ \E q \in 1 .. Frontier' : g[q] = After(h[p], result)
  <1> DEFINE L == Len(recorded)
             k == NextKey(name)
  <1>1. L \in Nat /\ p \in 1 .. (L + 1) /\ DOMAIN recorded = 1 .. L
    BY DEF Frontier
  <1>2. k = KeyAt(h[p])
    BY DEF NextKey, KeyAt
  <1>3. Entries(k) = {p} \cap (1 .. L)
    BY <1>2, OneEntry
  <1>4. /\ \A i \in 1 .. (L + 1) : h[i].ordinals \in [Names -> Nat]
        /\ \A i, j \in 1 .. (L + 1) : i <= j =>
             \A n \in Names : h[i].ordinals[n] <= h[j].ordinals[n]
    BY DEF Course, Frontier
  <1>5. CASE p <= L
    <2>1. Entries(k) = {p}
      BY <1>1, <1>3, <1>5
    <2>2. recorded' = recorded /\ result = recorded[p].result
      BY <2>1 DEF Step, ResultsOf
    <2>3. Course(h)' /\ Frontier' = L + 1
      BY <2>2 DEF Course, Frontier
    <2>4. h[p + 1] = After(h[p], result) /\ p + 1 \in 1 .. (L + 1)
      BY <1>1, <1>5, <2>2 DEF Course
    <2> QED
      BY <2>2, <2>3, <2>4
  <1>6. CASE p = L + 1
    <2> DEFINE e == [key |-> k, result |-> result, asked |-> Asked]
    <2>1. Entries(k) = {}
      BY <1>1, <1>3, <1>6
    <2>2. recorded' = Append(recorded, e)
      BY <2>1 DEF Step
    <2>3. e.key = k /\ e.result = result /\ e.asked = Asked
      OBVIOUS
    <2>4. PICK g : /\ \A i \in 1 .. (L + 1) : g[i] = h[i]
                   /\ g[L + 2] = After(h[p], result)
      <3> DEFINE f == [i \in 1 .. (L + 2) |-> IF i = L + 2 THEN After(h[p], result) ELSE h[i]]
      <3>1. /\ \A i \in 1 .. (L + 1) : f[i] = h[i]
            /\ f[L + 2] = After(h[p], result)
        BY <1>1
      <3> HIDE DEF f
      <3> QED
        BY <3>1
    <2> HIDE DEF e
    <2>5. /\ recorded' \in Seq(S \cup {e}) /\ Len(recorded') = L + 1
          /\ \A i \in 1 .. L : recorded'[i] = recorded[i]
          /\ recorded'[L + 1] = e
      BY <2>2, LogAppend
    <2>6. Frontier' = L + 2
      BY <1>1, <2>5 DEF Frontier
    <2>7. h[p].ordinals \in [Names -> Nat]
      BY DEF Course
    <2>8. /\ g[L + 2].ordinals \in [Names -> Nat]
          /\ \A n \in Names : h[p].ordinals[n] <= g[L + 2].ordinals[n]
      <3>1. g[L + 2].ordinals = [h[p].ordinals EXCEPT ![name] = @ + 1]
        BY <2>4 DEF After, Position
      <3> QED
        BY <2>7, <3>1
    <2>9. Course(g)'
      <3>1. g[1] = Start
        BY <1>1, <2>4 DEF Course
      <3>2. \A i \in 1 .. (L + 2) : g[i].ordinals \in [Names -> Nat]
        <4> SUFFICES ASSUME NEW i \in 1 .. (L + 2) PROVE g[i].ordinals \in [Names -> Nat]
          OBVIOUS
        <4>1. CASE i \in 1 .. (L + 1)
          <5>1. g[i] = h[i]
            BY <2>4, <4>1
          <5>2. h[i].ordinals \in [Names -> Nat]
            BY <1>4, <4>1
          <5> QED
            BY <5>1, <5>2
        <4>2. CASE i = L + 2
          BY <2>8, <4>2
        <4> QED
          BY <1>1, <4>1, <4>2
      <3>3. ASSUME NEW i \in 1 .. (L + 1)
            PROVE  /\ MayStep(g[i])
                   /\ recorded'[i].key = KeyAt(g[i]) /\ recorded'[i].asked = AskedAt(g[i])
                   /\ g[i + 1] = After(g[i], recorded'[i].result)
        <4>1. CASE i \in 1 .. L
          <5>1. g[i] = h[i] /\ g[i + 1] = h[i + 1] /\ recorded'[i] = recorded[i]
            BY <1>1, <2>4, <2>5, <4>1
          <5> QED
            BY <4>1, <5>1 DEF Course
        <4>2. CASE i = L + 1
          <5>1. g[i] = h[p] /\ g[i + 1] = After(h[p], result) /\ recorded'[i] = e
            BY <1>1, <1>6, <2>4, <2>5, <4>2
          <5> QED
            BY <1>2, <2>3, <5>1
        <4> QED
          BY <1>1, <4>1, <4>2
      <3>4. ASSUME NEW i \in 1 .. (L + 2), NEW j \in 1 .. (L + 2), i <= j, NEW n \in Names
            PROVE  g[i].ordinals[n] <= g[j].ordinals[n]
        <4>1. CASE j \in 1 .. (L + 1)
          <5>1. i \in 1 .. (L + 1)
            BY <1>1, <3>4, <4>1
          <5>2. g[i] = h[i] /\ g[j] = h[j]
            BY <2>4, <4>1, <5>1
          <5>3. h[i].ordinals[n] <= h[j].ordinals[n]
            BY <1>4, <3>4, <4>1, <5>1
          <5> QED
            BY <5>2, <5>3
        <4>2. CASE i \in 1 .. (L + 1) /\ j = L + 2
          <5>1. h[i].ordinals[n] <= h[p].ordinals[n]
            BY <1>1, <1>4, <1>6, <4>2
          <5>2. g[i] = h[i]
            BY <2>4, <4>2
          <5>3. h[i].ordinals \in [Names -> Nat]
            BY <1>4, <4>2
          <5>4. h[p].ordinals[n] <= g[j].ordinals[n] /\ g[j].ordinals \in [Names -> Nat]
            BY <2>8, <4>2
          <5>5. /\ h[i].ordinals[n] \in Nat /\ h[p].ordinals[n] \in Nat
                /\ g[j].ordinals[n] \in Nat
            BY <2>7, <5>3, <5>4
          <5> QED
            BY <5>1, <5>2, <5>4, <5>5
        <4>3. CASE i = L + 2 /\ j = L + 2
          BY <2>8, <4>3
        <4> QED
          BY <1>1, <3>4, <4>1, <4>2, <4>3
      <3>5. ASSUME NEW i \in 1 .. (L + 2)
            PROVE  Tells(recorded', g[i].transcript, i - 1)
        <4>1. ASSUME NEW j \in 1 .. (L + 1)
              PROVE  Tells(recorded', h[j].transcript, j - 1)
          <5>1. Tells(recorded, h[j].transcript, j - 1)
            BY DEF Course, Frontier
          <5>2. j - 1 \in Nat /\ \A x \in 1 .. (j - 1) : recorded'[x] = recorded[x]
            BY <1>1, <2>5
          <5> QED
            BY <5>1, <5>2, TellsStill
        <4>2. CASE i \in 1 .. (L + 1)
          BY <2>4, <4>1, <4>2
        <4>3. CASE i = L + 2
          <5>1. Tells(recorded', h[p].transcript, L)
            <6>1. L + 1 \in 1 .. (L + 1) /\ (L + 1) - 1 = L
              BY <1>1
            <6> QED
              BY <1>6, <4>1, <6>1
          <5>2. recorded'[L + 1].key[1] = name /\ recorded'[L + 1].result = result
            BY <2>3, <2>5 DEF NextKey
          <5>3. /\ name = "model" => g[L + 2].transcript = h[p].transcript
                /\ name # "model" => g[L + 2].transcript = Append(h[p].transcript, <<name, result>>)
            <6>1. h[p].at = "model" <=> name = "model"
              BY StepName
            <6>2. h[p].at = "model" => After(h[p], result).transcript = h[p].transcript
              <7>1. CASE result = <<>>
                BY <7>1 DEF After, Position
              <7>2. CASE result # <<>>
                BY <7>2 DEF After, Position
              <7> QED
                BY <7>1, <7>2
            <6>3. h[p].at # "model" => After(h[p], result).transcript =
                                         Append(h[p].transcript, <<name, result>>)
              <7>1. CASE Tail(h[p].calls) = <<>>
                BY <7>1 DEF After, Position
              <7>2. CASE Tail(h[p].calls) # <<>>
                BY <7>2 DEF After, Position
              <7> QED
                BY <7>1, <7>2
            <6> QED
              BY <2>4, <6>1, <6>2, <6>3
          <5>4. Tells(recorded', g[L + 2].transcript, L + 1)
            BY <1>1, <5>1, <5>2, <5>3, TellsMore
          <5>5. i - 1 = L + 1
            BY <1>1, <4>3
          <5> QED
            BY <4>3, <5>4, <5>5
        <4> QED
          BY <1>1, <4>2, <4>3
      <3> QED
        BY <1>1, <2>5, <2>6, <3>1, <3>2, <3>3, <3>4, <3>5 DEF Course
    <2>10. L + 2 \in 1 .. Frontier'
      BY <1>1, <2>6
    <2> QED
      BY <2>4, <2>5, <2>9, <2>10
  <1> QED
    BY <1>1, <1>5, <1>6

-----------------------------------------------------------------------------
(* The first attempt begins with an empty log. *)
LEMMA CourseStarts == AgentInit => OnCourse
  <1> SUFFICES ASSUME AgentInit PROVE OnCourse
    OBVIOUS
  <1> DEFINE h == [i \in {1} |-> Start]
  <1>1. recorded \in Seq({}) /\ Len(recorded) = 0 /\ Frontier = 1
    BY DEF AgentInit, Frontier
  <1>2. h[1] = Start /\ Start.ordinals \in [Names -> Nat] /\ Start.transcript = <<>>
    BY DEF Start, Position
  <1> HIDE DEF h
  <1>3. Course(h)
    <2>1. \A i \in 1 .. Frontier : i = 1
      BY <1>1
    <2>2. \A i \in 1 .. Len(recorded) : FALSE
      BY <1>1
    <2>3. Tells(recorded, <<>>, 0)
      <3>1. ToolSteps(recorded, 0) = {}
        BY DEF ToolSteps
      <3>2. <<>> \in Seq({}) /\ Len(<<>>) = 0
        OBVIOUS
      <3> QED
        BY <3>1, <3>2, FS_EmptySet DEF Tells
    <2>4. \A i \in 1 .. Frontier : Tells(recorded, h[i].transcript, i - 1)
      <3>1. 1 - 1 = 0
        OBVIOUS
      <3> QED
        BY <1>2, <2>1, <2>3, <3>1
    <2>5. \A i \in 1 .. Frontier : h[i].ordinals \in [Names -> Nat]
      BY <1>2, <2>1
    <2>6. \A i, j \in 1 .. Frontier : i <= j =>
            \A n \in Names : h[i].ordinals[n] <= h[j].ordinals[n]
      BY <1>2, <2>1
    <2> QED
      BY <1>2, <2>2, <2>4, <2>5, <2>6 DEF Course
  <1>4. Now = Start
    BY DEF AgentInit, Now, Start
  <1>5. 1 \in 1 .. Frontier /\ h[1] = Now
    BY <1>1, <1>2, <1>4
  <1> QED
    BY <1>1, <1>3, <1>5 DEF OnCourse, TranscriptIsLog, AgentInit

(* Every step of the loop stays on course. *)
LEMMA CourseKept == OnCourse /\ [AgentNext]_agentVars => OnCourse'
  <1> SUFFICES ASSUME OnCourse, [AgentNext]_agentVars PROVE OnCourse'
    OBVIOUS
  <1>1. PICK S : recorded \in Seq(S)
    BY DEF OnCourse
  <1>2. PICK h : /\ Course(h)
                 /\ at \in {"model", "tools"} => \E p \in 1 .. Frontier : h[p] = Now
    BY DEF OnCourse
  <1>3. CASE AskModel
    <2>1. at = "model"
      BY <1>3 DEF AskModel
    <2>2. PICK p \in 1 .. Frontier : h[p] = Now
      BY <1>2, <2>1
    <2>3. h[p] = Position("model", ordinals, messages, calls, outputs, turns, transcript)
      BY <1>3, <2>2 DEF AskModel, Now
    <2>4. /\ h[p].at = "model" /\ h[p].ordinals = ordinals /\ h[p].messages = messages
          /\ h[p].outputs = outputs /\ h[p].turns = turns /\ h[p].transcript = transcript
      BY <2>3 DEF Position
    <2>5. /\ NameAt(h[p]) = "model" /\ "model" \in Names /\ MayStep(h[p])
          /\ Asked = AskedAt(h[p])
      BY <1>3, <2>4 DEF AskModel, NameAt, Names, MayStep, Asked, AskedAt
    <2>6. PICK wants \in ResultsOf(NextKey("model"), Answers) :
            /\ Step("model", wants)
            /\ \/ wants = <<>> /\ at' = "returned" /\ UNCHANGED <<messages, calls>>
               \/ /\ wants # <<>> /\ at' = "tools"
                  /\ messages' = Append(messages, wants) /\ calls' = wants
      BY <1>3 DEF AskModel
    <2>7. outputs' = outputs /\ turns' = turns /\ transcript' = transcript
      BY <1>3 DEF AskModel
    <2>8. /\ \E T : recorded' \in Seq(T)
          /\ \E g : Course(g)' /\ \E q \in 1 .. Frontier' : g[q] = After(h[p], wants)
      BY <1>1, <1>2, <2>4, <2>5, <2>6, StepOnCourse
    <2>9. CASE wants # <<>>
      <3>1. /\ at' = "tools" /\ messages' = Append(messages, wants) /\ calls' = wants
            /\ ordinals' = [ordinals EXCEPT !["model"] = @ + 1]
        BY <2>6, <2>9 DEF Step
      <3>2. Now' = Position("tools", ordinals', messages', calls', outputs', turns', transcript')
        BY <2>9, <3>1 DEF Now
      <3>3. After(h[p], wants) =
              Position("tools", [ordinals EXCEPT !["model"] = @ + 1],
                       Append(messages, wants), wants, outputs, turns, transcript)
        BY <2>4, <2>5, <2>9 DEF After
      <3>4. Now' = After(h[p], wants)
        BY <2>7, <3>1, <3>2, <3>3
      <3> QED
        BY <2>8, <3>1, <3>4 DEF OnCourse, TranscriptIsLog
    <2>10. CASE wants = <<>>
      <3>1. PICK g : Course(g)' /\ \E q \in 1 .. Frontier' : g[q] = After(h[p], wants)
        BY <2>8
      <3>2. PICK q \in 1 .. Frontier' : g[q] = After(h[p], wants)
        BY <3>1
      <3>3. g[q].at = "returned" /\ g[q].transcript = transcript
        BY <2>4, <2>10, <3>2 DEF After, Position
      <3>4. PICK L \in Nat : L = Len(recorded')
        BY <2>8
      <3>5. q = L + 1
        <4> SUFFICES ASSUME q \in 1 .. L PROVE FALSE
          BY <3>4 DEF Frontier
        <4>1. MayStep(g[q])
          BY <3>1, <3>4 DEF Course
        <4> QED
          BY <3>3, <4>1 DEF MayStep
      <3>6. Tells(recorded', transcript', L)
        <4>1. (L + 1) - 1 = L
          BY <3>4
        <4> QED
          BY <2>7, <3>1, <3>3, <3>4, <3>5, <4>1 DEF Course, Frontier
      <3>7. TranscriptIsLog'
        BY <3>4, <3>6 DEF TranscriptIsLog, Tells
      <3>8. at' = "returned"
        BY <2>6, <2>10
      <3> QED
        BY <2>8, <3>1, <3>7, <3>8 DEF OnCourse
    <2> QED
      BY <2>9, <2>10
  <1>4. CASE CallTool
    <2>1. at = "tools"
      BY <1>4 DEF CallTool
    <2>2. PICK p \in 1 .. Frontier : h[p] = Now
      BY <1>2, <2>1
    <2>3. h[p] = Position("tools", ordinals, messages, calls, outputs, turns, transcript)
      BY <1>4, <2>2 DEF CallTool, Now
    <2>4. PICK tool \in Tools : tool = Head(calls)
      BY <1>4 DEF CallTool
    <2>5. /\ h[p].at = "tools" /\ h[p].ordinals = ordinals /\ h[p].messages = messages
          /\ h[p].outputs = outputs /\ h[p].calls = calls /\ h[p].turns = turns
          /\ h[p].transcript = transcript
      BY <2>3 DEF Position
    <2>6. /\ NameAt(h[p]) = tool /\ tool \in Names /\ MayStep(h[p])
          /\ Asked = AskedAt(h[p])
      BY <2>4, <2>5 DEF NameAt, Names, MayStep, Asked, AskedAt
    <2>7. PICK output \in ResultsOf(NextKey(tool), Outputs) :
            /\ Step(tool, output) /\ outputs' = Append(outputs, output)
            /\ transcript' = Append(transcript, <<tool, output>>)
      BY <1>4, <2>4 DEF CallTool
    <2>8. /\ \E T : recorded' \in Seq(T)
          /\ \E g : Course(g)' /\ \E q \in 1 .. Frontier' : g[q] = After(h[p], output)
      BY <1>1, <1>2, <2>5, <2>6, <2>7, StepOnCourse
    <2>9. /\ at' = "tools" /\ messages' = messages /\ calls' = Tail(calls) /\ turns' = turns
          /\ ordinals' = [ordinals EXCEPT ![tool] = @ + 1]
      BY <1>4, <2>7 DEF CallTool, Step
    <2>10. After(h[p], output) =
             IF Tail(calls) = <<>>
             THEN Position("model", [ordinals EXCEPT ![tool] = @ + 1],
                           Append(messages, Append(outputs, output)), <<>>, <<>>, turns + 1,
                           Append(transcript, <<tool, output>>))
             ELSE Position("tools", [ordinals EXCEPT ![tool] = @ + 1], messages,
                           Tail(calls), Append(outputs, output), turns,
                           Append(transcript, <<tool, output>>))
      BY <2>5, <2>6 DEF After
    <2>11. Now' = After(h[p], output)
      BY <2>7, <2>9, <2>10 DEF Now
    <2> QED
      BY <2>8, <2>9, <2>11 DEF OnCourse, TranscriptIsLog
  <1>5. CASE ModelFails \/ ToolFails \/ Conclude
    <2>1. /\ recorded' = recorded /\ transcript' = transcript
          /\ at' \in {"raised", "failed", "completed"}
          /\ at' = "completed" => at = "returned"
      BY <1>5 DEF ModelFails, ToolFails, Conclude
    <2>2. Course(h)'
      BY <1>2, <2>1 DEF Course, Frontier
    <2> QED
      BY <1>1, <2>1, <2>2 DEF OnCourse, TranscriptIsLog
  <1>6. CASE TurnLimit
    <2>1. /\ at = "model" /\ turns = MAX_TURNS /\ at' = "returned"
          /\ recorded' = recorded /\ transcript' = transcript
      BY <1>6 DEF TurnLimit
    <2>2. Course(h)'
      BY <1>2, <2>1 DEF Course, Frontier
    <2>3. PICK p \in 1 .. Frontier : h[p] = Now
      BY <1>2, <2>1
    <2>4. h[p].at = "model" /\ h[p].turns = turns /\ h[p].transcript = transcript
      BY <2>1, <2>3 DEF Now, Position
    <2>5. PICK L \in Nat : L = Len(recorded)
      BY <1>1
    <2>6. p = L + 1
      <3> SUFFICES ASSUME p \in 1 .. L PROVE FALSE
        BY <2>5 DEF Frontier
      <3>1. MayStep(h[p])
        BY <1>2, <2>5 DEF Course
      <3> QED
        BY <2>1, <2>4, <3>1, AgentAssumption DEF MayStep
    <2>7. Tells(recorded, transcript, L)
      <3>1. (L + 1) - 1 = L
        BY <2>5
      <3> QED
        BY <1>2, <2>4, <2>5, <2>6, <3>1 DEF Course, Frontier
    <2> QED
      BY <1>1, <2>1, <2>2, <2>5, <2>7 DEF OnCourse, TranscriptIsLog, Tells
  <1>7. ASSUME recorded' = recorded, Now' = Now, at \in {"model", "tools"},
               at' \notin {"returned", "completed"}
        PROVE  OnCourse'
    BY <1>1, <1>2, <1>7 DEF OnCourse, Course, Frontier, TranscriptIsLog
  <1>8. CASE EndTurn
    <2>1. /\ at = "tools" /\ at' = "model" /\ recorded' = recorded
          /\ calls = <<>> /\ calls' = <<>> /\ messages' = Append(messages, outputs)
          /\ outputs' = <<>> /\ ordinals' = ordinals /\ turns' = turns + 1
          /\ transcript' = transcript
      BY <1>8 DEF EndTurn
    <2>2. Now' = Now
      BY <2>1 DEF Now
    <2> QED
      BY <1>7, <2>1, <2>2
  <1>9. CASE Resume
    <2>1. recorded' = recorded /\ Now' = Start /\ at' = "model"
      BY <1>9 DEF Resume, Begin, Now, Start
    <2>2. Course(h)' /\ h[1] = Start
      BY <1>2, <2>1 DEF Course, Frontier
    <2>3. 1 \in 1 .. Frontier'
      BY <1>1, <2>1 DEF Frontier
    <2> QED
      BY <1>1, <2>1, <2>2, <2>3 DEF OnCourse, TranscriptIsLog
  <1>10. CASE UNCHANGED agentVars
    BY <1>10 DEF agentVars, OnCourse, Course, Frontier, Now, TranscriptIsLog
  <1> QED
    BY <1>3, <1>4, <1>5, <1>6, <1>8, <1>9, <1>10 DEF AgentNext

(* The invariant of the agent loop. *)
LEMMA AlwaysOnCourse == AgentSpec => []OnCourse
  BY CourseStarts, CourseKept, PTL DEF AgentSpec

(* For any tools, answers, outputs, turns and attempts: a recorded result  *)
(* is replayed only as the answer to the question it was recorded for.     *)
THEOREM KeysMeanOneStep == AgentSpec => []KeysStable
  <1>1. OnCourse => KeysStable
    <2> SUFFICES ASSUME OnCourse,
                        NEW name \in Names, NEW i \in Entries(NextKey(name)),
                        \/ at = "model" /\ name = "model"
                        \/ at = "tools" /\ calls # <<>> /\ name = Head(calls)
                 PROVE  recorded[i].asked = Asked
      BY DEF KeysStable, Names
    <2>1. PICK S : recorded \in Seq(S)
      BY DEF OnCourse
    <2>2. PICK h : Course(h) /\ \E p \in 1 .. Frontier : h[p] = Now
      BY DEF OnCourse
    <2>3. PICK p \in 1 .. Frontier : h[p] = Now
      BY <2>2
    <2>4. h[p] = Position(at, ordinals, messages, calls, outputs, turns, transcript)
      BY <2>3 DEF Now
    <2>5. NameAt(h[p]) = name /\ KeyAt(h[p]) = NextKey(name) /\ AskedAt(h[p]) = Asked
      BY <2>4 DEF Position, NameAt, KeyAt, NextKey, AskedAt, Asked
    <2>6. i = p /\ i \in 1 .. Len(recorded)
      BY <2>1, <2>2, <2>5, OneEntry
    <2> QED
      BY <2>2, <2>5, <2>6 DEF Course
  <1> QED
    BY <1>1, AlwaysOnCourse, PTL

(* For any tools, answers, outputs, turns and attempts: the transcript of  *)
(* an agent that returns lists the tool steps of the log, in its order.  *)
THEOREM TranscriptTellsLog == AgentSpec => []TranscriptIsLog
  <1>1. OnCourse => TranscriptIsLog
    BY DEF OnCourse
  <1> QED
    BY <1>1, AlwaysOnCourse, PTL
=============================================================================
