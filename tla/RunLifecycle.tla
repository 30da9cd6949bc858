---------------------------- MODULE RunLifecycle ----------------------------
(***************************************************************************)
(* The abstract promise of the run service: each run is created PENDING    *)
(* and from then on moves only along the transition table, so a terminal   *)
(* run is never changed again.  One step may move several runs: the stale  *)
(* scan commits all the runs it fails together.                            *)
(***************************************************************************)
EXTENDS RunStatus

CONSTANT Runs
VARIABLE status

Init == status = [r \in Runs |-> "NONE"]

Moves(old, new) ==
  \/ old = "NONE" /\ new = "PENDING"
  \/ old # "NONE" /\ CanTransition(old, new)

Next ==
  /\ status' \in [Runs -> Statuses \cup {"NONE"}]
  /\ \A r \in Runs : status'[r] # status[r] => Moves(status[r], status'[r])

Spec == Init /\ [][Next]_status

=============================================================================
