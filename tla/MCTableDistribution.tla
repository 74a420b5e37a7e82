------------------------ MODULE MCTableDistribution ------------------------
(* Small instances of TableDistribution for TLC. *)
EXTENDS TableDistribution

CONSTANTS n1, n2, w1, w2, a, b

\* The second task list of w1 does not fit on n1.
TightNode == {<<n1, t>> : t \in {u \in Table : w1 \in Workloads /\ u[w1] = b}}

\* Nothing is infeasible.
EverythingFits == {}
=============================================================================
