------------------------------- MODULE Lease -------------------------------
(***************************************************************************)
(* What the Store protocol promises of claim, heartbeat, release and       *)
(* dequeue together (src/anchor/store/__init__.py, capability 3: a queue   *)
(* with an atomic claim and a time-based lease): at any time at most one   *)
(* holder works on a run, only a holder finishes it, and what is finished  *)
(* stays finished.                                                         *)
(***************************************************************************)
CONSTANTS
  Runs,
  Holders     \* whoever may work on a run

VARIABLES
  holder,     \* the holders of each run: {} or one of them
  finished    \* the runs that have a terminal status

leaseVars == <<holder, finished>>

LeaseInit ==
  /\ holder = [r \in Runs |-> {}]
  /\ finished = {}

(* A finished run may be delivered once more; its holder finds nothing to do. *)
Acquire(r, h) ==
  /\ holder[r] = {}
  /\ holder' = [holder EXCEPT ![r] = {h}]
  /\ UNCHANGED finished

Finish(r) ==
  /\ holder[r] # {}
  /\ finished' = finished \cup {r}
  /\ UNCHANGED holder

(* Holders give up what they hold, or die. *)
GiveUp(H) ==
  /\ holder' = [r \in Runs |-> holder[r] \ H]
  /\ UNCHANGED finished

LeaseNext ==
  \/ \E r \in Runs, h \in Holders : Acquire(r, h)
  \/ \E r \in Runs : Finish(r)
  \/ \E H \in SUBSET Holders : GiveUp(H)

LeaseSpec == LeaseInit /\ [][LeaseNext]_leaseVars
=============================================================================
