---------------------------- MODULE MCFaultReport ----------------------------
(* Small instances of FaultReport for TLC. *)
EXTENDS FaultReport

CONSTANTS t1, t2, w1

OneWorkload == [t \in Tasks |-> w1]

\* Both tasks may miss once.
BothLimited == {[t \in Tasks |-> 1]}

\* The second task has no limit, or is left out.
SomeLimited == BothLimited \cup {[t \in {t1} |-> 1]}
=============================================================================
