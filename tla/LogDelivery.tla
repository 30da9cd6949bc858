----------------------------- MODULE LogDelivery -----------------------------
(***************************************************************************)
(* What a follower of a run's event log is promised: it gets every event   *)
(* of the log, once, in the order of the sequence numbers, whatever happens *)
(* to the connections in between.                                          *)
(***************************************************************************)
EXTENDS Naturals, Sequences

CONSTANT MaxEvents

VARIABLES
  published,  \* sequence numbers of the committed events
  delivered   \* the numbers the follower got, in order of arrival

vars == <<published, delivered>>

Arrived == {delivered[i] : i \in DOMAIN delivered}

Init == published = {} /\ delivered = <<>>

\* The log grows at its end.
Publish ==
  /\ \E numbers \in SUBSET (1 .. MaxEvents) :
       /\ \A n \in numbers, p \in published : p < n
       /\ published' = published \cup numbers
  /\ UNCHANGED delivered

Deliver ==
  /\ \E n \in published :
       /\ \A a \in Arrived : a < n
       /\ \A p \in published : p < n => p \in Arrived
       /\ delivered' = Append(delivered, n)
  /\ UNCHANGED published

Next == Publish \/ Deliver

Spec == Init /\ [][Next]_vars

=============================================================================
