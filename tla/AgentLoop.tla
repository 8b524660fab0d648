----------------------------- MODULE AgentLoop -----------------------------
(***************************************************************************)
(* The agent of the repository (src/anchor/examples/refund_agent.py): ask  *)
(* the model, call the tools it wants, ask again.  What the model wants is *)
(* not determined by the program, so the keys of the steps, a name and an  *)
(* ordinal given out by RunContext._next_key as the loop reaches them,     *)
(* must mean the same step in every attempt.  The other modules number the *)
(* steps 1 .. NumSteps; that they may is what is checked here.             *)
(*                                                                         *)
(* A step is one action: it is replayed, or it runs and is recorded.  A    *)
(* worker may die between any two, in the midst of one, before it is       *)
(* recorded, and after the last, before the run has its status.  Attempts  *)
(* follow one another, as RunQueue shows.                                  *)
(***************************************************************************)
EXTENDS Naturals, Sequences, FiniteSets

CONSTANTS
  Tools,       \* the tools in the registry
  Answers,     \* what a model may want: sequences of tool names, <<>> for none
  Outputs,     \* what a tool may return
  MAX_TURNS,
  MaxAttempts

ASSUME AgentAssumption ==
  /\ "model" \notin Tools
  /\ Answers \subseteq Seq(STRING)
  /\ MAX_TURNS \in Nat /\ MaxAttempts \in Nat

VARIABLES
  recorded,    \* the StepCompleted events: the key, the result, what was asked
  attempts,    \* how many attempts have begun
  at,          \* where the attempt is, or how it ended
  ordinals,    \* its _ordinals
  messages,    \* the conversation it has had: the model's answers and the outputs
  calls,       \* the tool calls it still has to make in this turn
  outputs,     \* what those it has made returned
  turns,
  transcript

agentVars == <<recorded, attempts, at, ordinals, messages, calls, outputs, turns, transcript>>

Names == Tools \cup {"model"}

(* Where refund_agent begins, whatever was there before. *)
Begin ==
  /\ at' = "model"
  /\ ordinals' = [n \in Names |-> 0]
  /\ messages' = <<>> /\ calls' = <<>> /\ outputs' = <<>>
  /\ turns' = 0 /\ transcript' = <<>>

AgentInit ==
  /\ recorded = <<>> /\ attempts = 1 /\ at = "model"
  /\ ordinals = [n \in Names |-> 0]
  /\ messages = <<>> /\ calls = <<>> /\ outputs = <<>>
  /\ turns = 0 /\ transcript = <<>>

-----------------------------------------------------------------------------
(* Mutant: the ordinal counts what is recorded. *)
RecordedKey(name) == <<name, Len(recorded) + 1>>

(* _next_key *)
NextKey(name) == <<name, ordinals[name] + 1>>

Entries(k) == {i \in DOMAIN recorded : recorded[i].key = k}

(* Mutant: the model is asked again. *)
FreshResults(k, possible) ==
  IF k[1] = "model" THEN possible
  ELSE IF Entries(k) # {} THEN {recorded[i].result : i \in Entries(k)} ELSE possible

(* What step k may return: what is recorded, or whatever its body does. *)
ResultsOf(k, possible) ==
  IF Entries(k) # {} THEN {recorded[i].result : i \in Entries(k)} ELSE possible

(* The question behind a step: the conversation so far, and the calls made *)
(* since.                                                                  *)
Asked == <<messages, outputs>>

(* _step_with_key: replayed, or executed and recorded. *)
Step(name, result) ==
  LET k == NextKey(name)
  IN /\ ordinals' = [ordinals EXCEPT ![name] = @ + 1]
     /\ recorded' = IF Entries(k) # {} THEN recorded
                    ELSE Append(recorded, [key |-> k, result |-> result, asked |-> Asked])

-----------------------------------------------------------------------------
AskModel ==
  /\ at = "model" /\ turns < MAX_TURNS
  /\ \E wants \in ResultsOf(NextKey("model"), Answers) :
       /\ Step("model", wants)
       /\ \/ wants = <<>> /\ at' = "returned" /\ UNCHANGED <<messages, calls>>
          \/ /\ wants # <<>> /\ at' = "tools"
             /\ messages' = Append(messages, wants) /\ calls' = wants
  /\ UNCHANGED <<attempts, outputs, turns, transcript>>

CallTool ==
  /\ at = "tools" /\ calls # <<>> /\ Head(calls) \in Tools
  /\ \E output \in ResultsOf(NextKey(Head(calls)), Outputs) :
       /\ Step(Head(calls), output)
       /\ outputs' = Append(outputs, output)
       /\ transcript' = Append(transcript, <<Head(calls), output>>)
  /\ calls' = Tail(calls)
  /\ UNCHANGED <<attempts, at, messages, turns>>

(* The provider keeps raising: the step fails. *)
ModelFails ==
  /\ at = "model" /\ turns < MAX_TURNS
  /\ Entries(NextKey("model")) = {}
  /\ at' = "raised"
  /\ UNCHANGED <<recorded, attempts, ordinals, messages, calls, outputs, turns, transcript>>

(* The registry does not know the tool, or its step fails. *)
ToolFails ==
  /\ at = "tools" /\ calls # <<>>
  /\ Head(calls) \in Tools => Entries(NextKey(Head(calls))) = {}
  /\ at' = "raised"
  /\ UNCHANGED <<recorded, attempts, ordinals, messages, calls, outputs, turns, transcript>>

EndTurn ==
  /\ at = "tools" /\ calls = <<>>
  /\ messages' = Append(messages, outputs)
  /\ outputs' = <<>>
  /\ turns' = turns + 1
  /\ at' = "model"
  /\ UNCHANGED <<recorded, attempts, ordinals, calls, transcript>>

TurnLimit ==
  /\ at = "model" /\ turns = MAX_TURNS
  /\ at' = "returned"
  /\ UNCHANGED <<recorded, attempts, ordinals, messages, calls, outputs, turns, transcript>>

(* The engine stores what became of the run; only then is it over. *)
Conclude ==
  /\ \/ at = "returned" /\ at' = "completed"
     \/ at = "raised" /\ at' = "failed"
  /\ UNCHANGED <<recorded, attempts, ordinals, messages, calls, outputs, turns, transcript>>

(* The worker dies; another one starts the workflow afresh with the log. *)
Resume ==
  /\ at \in {"model", "tools", "returned", "raised"} /\ attempts < MaxAttempts
  /\ attempts' = attempts + 1
  /\ Begin
  /\ UNCHANGED recorded

AgentNext ==
  \/ AskModel \/ ModelFails \/ CallTool \/ ToolFails \/ EndTurn \/ TurnLimit
  \/ Conclude \/ Resume

AgentSpec == AgentInit /\ [][AgentNext]_agentVars

-----------------------------------------------------------------------------
(* A key means one step: when an attempt reaches a step whose key is       *)
(* recorded, the conversation is the one in which it was recorded, so that *)
(* a replayed result is the answer to the question that is being asked.    *)
KeysStable ==
  /\ at = "model" => \A i \in Entries(NextKey("model")) : recorded[i].asked = Asked
  /\ at = "tools" /\ calls # <<>> /\ Head(calls) \in Tools =>
       \A i \in Entries(NextKey(Head(calls))) : recorded[i].asked = Asked

(* The tool steps among the first n entries of a log. *)
ToolSteps(entries, n) == {i \in 1 .. n : entries[i].key[1] # "model"}

(* The agent's transcript is what happened: when it returns, also in the   *)
(* attempt that replays a final answer recorded before a crash, it lists   *)
(* the tool steps of the log, of all attempts, in the order in which they  *)
(* were recorded, and nothing else was done.                               *)
TranscriptIsLog ==
  at \in {"returned", "completed"} =>
    /\ Len(transcript) = Cardinality(ToolSteps(recorded, Len(recorded)))
    /\ \A i \in ToolSteps(recorded, Len(recorded)) :
         transcript[Cardinality(ToolSteps(recorded, i))] =
           <<recorded[i].key[1], recorded[i].result>>
=============================================================================
