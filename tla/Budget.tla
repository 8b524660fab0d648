------------------------------- MODULE Budget -------------------------------
(***************************************************************************)
(* The ceilings of a run and the counters they bound (src/anchor/budget.py *)
(* and the Budget and Usage types of src/anchor/models.py).  A ceiling is  *)
(* optional: {} when the run declares none, {n} otherwise.                 *)
(*                                                                         *)
(* Every model call is taken to use TokensPerCall tokens, so the token     *)
(* count is a function of the number of calls.  max_cost_usd is checked by *)
(* the same comparison as max_tokens on a counter that grows with it, and  *)
(* is not kept apart.                                                      *)
(***************************************************************************)
EXTENDS Naturals

CONSTANTS MaxToolCalls, MaxModelCalls, MaxTokens, TokensPerCall

ASSUME BudgetAssumption ==
  /\ MaxToolCalls \subseteq Nat /\ MaxModelCalls \subseteq Nat
  /\ MaxTokens \subseteq Nat /\ TokensPerCall \in Nat

Usage == [tool_calls: Nat, model_calls: Nat]
NoUsage == [tool_calls |-> 0, model_calls |-> 0]

TotalTokens(u) == u.model_calls * TokensPerCall

AddToolCall(u) == [u EXCEPT !.tool_calls = @ + 1]

(* Mutant: a model call counts as a tool call. *)
MiscountedModelUsage(u) == [u EXCEPT !.tool_calls = @ + 1]

AddModelUsage(u) == [u EXCEPT !.model_calls = @ + 1]

(* Mutant: the ceilings on calls are compared with > instead of >=. *)
LaxExceeded(u, overtime) ==
  \/ overtime
  \/ \E m \in MaxTokens : TotalTokens(u) > m
  \/ \E m \in MaxToolCalls : u.tool_calls > m
  \/ \E m \in MaxModelCalls : u.model_calls > m

(***************************************************************************)
(* check(): the counters that count calls stop the run when they reach the *)
(* ceiling, the token counter when it has passed it.  overtime says that   *)
(* more than max_wall_seconds have gone by since the run was created.      *)
(***************************************************************************)
Exceeded(u, overtime) ==
  \/ overtime
  \/ \E m \in MaxTokens : TotalTokens(u) > m
  \/ \E m \in MaxToolCalls : u.tool_calls >= m
  \/ \E m \in MaxModelCalls : u.model_calls >= m
=============================================================================
