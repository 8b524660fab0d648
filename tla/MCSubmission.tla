---------------------------- MODULE MCSubmission ----------------------------
(***************************************************************************)
(* Two clients: one submits three times under its key, the other twice.    *)
(***************************************************************************)
EXTENDS DynamoSubmission

MCRequests == {"a1", "a2", "a3", "b1", "b2"}
MCIdemKeys == {"a", "b"}
MCKeyOf == [r \in MCRequests |-> IF r \in {"a1", "a2", "a3"} THEN "a" ELSE "b"]
=============================================================================
