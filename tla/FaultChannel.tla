---------------------------- MODULE FaultChannel ----------------------------
(***************************************************************************)
(* What FaultServiceClient promises: a channel that holds Capacity faults, *)
(* delivers each of them at least once, the oldest first, and gives up     *)
(* only the oldest, only when a newer one needs its place.  The newest     *)
(* fault may be delivered ahead of those that wait.                        *)
(***************************************************************************)
EXTENDS Naturals, Sequences

CONSTANT Capacity

VARIABLES
  pending,     \* faults not known to be delivered, oldest first
  delivered    \* what the other side has received so far

Init == pending = <<>> /\ delivered = <<>>

\* A fault is handed over; there is room for one more than waits.
Accept ==
  /\ Len(pending) <= Capacity
  /\ Len(pending') = Len(pending) + 1
  /\ SubSeq(pending', 1, Len(pending)) = pending
  /\ UNCHANGED delivered

DeliverOldest ==
  /\ pending # <<>>
  /\ delivered' = Append(delivered, Head(pending))
  /\ pending' = Tail(pending)

DeliverNewest ==
  /\ pending # <<>>
  /\ delivered' = Append(delivered, pending[Len(pending)])
  /\ pending' = SubSeq(pending, 1, Len(pending) - 1)

\* A delivery that is not confirmed: the fault stays.
Unconfirmed ==
  /\ pending # <<>>
  /\ \E f \in {Head(pending), pending[Len(pending)]} : delivered' = Append(delivered, f)
  /\ \/ UNCHANGED pending
     \/ Len(pending) > Capacity /\ pending' = Tail(pending)

GiveUpOldest ==
  /\ Len(pending) > Capacity
  /\ pending' = Tail(pending)
  /\ UNCHANGED delivered

Next == Accept \/ DeliverOldest \/ DeliverNewest \/ Unconfirmed \/ GiveUpOldest

Spec == Init /\ [][Next]_<<pending, delivered>>
=============================================================================
