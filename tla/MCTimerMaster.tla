--------------------------- MODULE MCTimerMaster ---------------------------
(* Small instances of TimerMaster for TLC. *)
EXTENDS TimerMaster

CONSTANTS c1, c2, w1, w2

\* Two CPUs and two workloads; the epoch is one tick away.
TwoCpus == [slots |-> <<[cpu |-> c1, offset |-> 0, workload |-> w1],
                        [cpu |-> c2, offset |-> 1, workload |-> w2],
                        [cpu |-> c1, offset |-> 2, workload |-> w2]>>,
            hp |-> 3, epoch |-> 1]

\* One slot only, and an epoch that has passed.
OneSlot == [slots |-> <<[cpu |-> c1, offset |-> 1, workload |-> w1]>>, hp |-> 2, epoch |-> 0 - 1]

\* No epoch.
Unsynced == [slots |-> <<[cpu |-> c2, offset |-> 0, workload |-> w1]>>, hp |-> 2, epoch |-> NoEpoch]

SomeTables == {TwoCpus, OneSlot, Unsynced}
=============================================================================
