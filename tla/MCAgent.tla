------------------------------ MODULE MCAgent ------------------------------
(* Two tools, one of which may be wanted twice in a turn, and a tool that  *)
(* the model invents.                                                      *)
EXTENDS AgentLoop

Wanted == {<<>>, <<"refund">>, <<"notify">>, <<"refund", "refund">>,
           <<"notify", "refund">>, <<"invented">>}
=============================================================================
