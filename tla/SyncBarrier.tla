---------------------------- MODULE SyncBarrier ----------------------------
(***************************************************************************)
(* The start barrier of the Rust orchestrator (timpani_rust/timpani-o):    *)
(* every active node of the workload calls SyncTimer and is answered, when *)
(* the last one has called, with one absolute start time.                  *)
(*                                                                         *)
(* WorkloadStore is one tokio mutex; each workload has its own watch       *)
(* channel.  A SyncTimer handler registers and subscribes under the lock,  *)
(* then polls the channel without it; between two polls any other handler, *)
(* a new workload or its own timer may come first.                         *)
(***************************************************************************)
EXTENDS Naturals, FiniteSets

CONSTANTS
  Nodes,
  MaxWorkloads,   \* bound: workloads accepted by AddSchedInfo
  MaxCalls,       \* bound: SyncTimer calls of a node
  Timeouts,       \* may sync_timeout pass while a handler waits?
  Drops           \* may a caller go away while its handler waits?

ASSUME ConstantsAssumption ==
  /\ MaxWorkloads \in Nat
  /\ MaxCalls \in Nat
  /\ Timeouts \in BOOLEAN
  /\ Drops \in BOOLEAN

WorkloadIds == 1..MaxWorkloads
Calls == Nodes \X (1..MaxCalls)

VARIABLES
  workload,       \* the workload in the store, 0: none yet
  active_nodes,   \* of every workload so far
  synced_nodes,   \* of the workload in the store
  barrier,        \* BarrierStatus in the watch channel of every workload
  call,           \* every SyncTimer call: where its handler is, its answer
  clock           \* history: start times handed out so far

vars == <<workload, active_nodes, synced_nodes, barrier, call, clock>>

Status(kind, start) == [kind |-> kind, start |-> start]
Waiting == Status("Waiting", 0)
Cancelled == Status("Cancelled", 0)
TimedOut == Status("TimedOut", 0)
Released(start) == Status("Released", start)

\* at: "idle"        not made yet
\*     "registered"  Phase 1 done, the channel not looked at yet
\*     "parked"      in select!: saw Waiting
\*     "expired"     its timer won, it waits for the store's lock
\*     "done"        answered, or its caller is gone
\* workload: the workload the handler registered with; answer: what it returned
NoCall == [at |-> "idle", workload |-> 0, answer |-> Waiting]
Pending == {"registered", "parked", "expired"}

Init ==
  /\ workload = 0
  /\ active_nodes = [w \in WorkloadIds |-> {}]
  /\ synced_nodes = {}
  /\ barrier = [w \in WorkloadIds |-> Waiting]
  /\ call = [c \in Calls |-> NoCall]
  /\ clock = 0

\* Handlers holding a receiver of the channel of workload w.
Receivers(w) == {c \in Calls : call[c].workload = w /\ call[c].at \in Pending}

\* watch::Sender::send stores nothing when nobody holds a receiver.
Send(w, status) ==
  IF Receivers(w) = {} THEN barrier ELSE [barrier EXCEPT ![w] = status]

\* Seeded fault: the handlers of the replaced workload are not told.
AddSchedInfoSilent(nodes) ==
  /\ workload < MaxWorkloads
  /\ workload' = workload + 1
  /\ active_nodes' = [active_nodes EXCEPT ![workload + 1] = nodes]
  /\ synced_nodes' = {}
  /\ UNCHANGED <<barrier, call, clock>>

\* add_sched_info, from the lock on: cancel the barrier that is replaced, store
\* the new workload.  (An infeasible workload returns before the lock.)
AddSchedInfo(nodes) ==
  /\ workload < MaxWorkloads
  /\ barrier' = IF workload = 0 THEN barrier ELSE Send(workload, Cancelled)
  /\ workload' = workload + 1
  /\ active_nodes' = [active_nodes EXCEPT ![workload + 1] = nodes]
  /\ synced_nodes' = {}
  /\ UNCHANGED <<call, clock>>

\* The next call of a node: a node waits for an answer before it calls again.
NextCall(c) ==
  /\ call[c].at = "idle"
  /\ \A i \in 1..(c[2] - 1) : call[<<c[1], i>>].at = "done"

\* Seeded fault: the barrier fires when all but one node have called.
SyncTimerEarly(c) ==
  /\ NextCall(c)
  /\ workload # 0
  /\ c[1] \in active_nodes[workload]
  /\ call' = [call EXCEPT ![c] = [at |-> "registered", workload |-> workload,
                                  answer |-> Waiting]]
  /\ synced_nodes' = synced_nodes \cup {c[1]}
  /\ IF Cardinality(active_nodes[workload] \ synced_nodes') <= 1
     THEN /\ clock' = clock + 1
          /\ barrier' = [barrier EXCEPT ![workload] = Released(clock')]
     ELSE UNCHANGED <<clock, barrier>>
  /\ UNCHANGED <<workload, active_nodes>>

\* Seeded fault: the start time is computed once, not when a barrier fires.
SyncTimerFixedTime(c) ==
  /\ NextCall(c)
  /\ workload # 0
  /\ c[1] \in active_nodes[workload]
  /\ call' = [call EXCEPT ![c] = [at |-> "registered", workload |-> workload,
                                  answer |-> Waiting]]
  /\ synced_nodes' = synced_nodes \cup {c[1]}
  /\ barrier' = IF active_nodes[workload] \subseteq synced_nodes'
                THEN [barrier EXCEPT ![workload] = Released(1)]
                ELSE barrier
  /\ UNCHANGED <<workload, active_nodes, clock>>

\* sync_timer, Phase 1, under the store's lock: subscribe, register, and fire
\* the barrier when every active node is registered.  (A node the workload has
\* no task for is turned away before anything changes.)
SyncTimer(c) ==
  /\ NextCall(c)
  /\ workload # 0
  /\ c[1] \in active_nodes[workload]
  /\ call' = [call EXCEPT ![c] = [at |-> "registered", workload |-> workload,
                                  answer |-> Waiting]]
  /\ synced_nodes' = synced_nodes \cup {c[1]}
  /\ IF active_nodes[workload] \subseteq synced_nodes'
     THEN /\ clock' = clock + 1
          /\ barrier' = [barrier EXCEPT ![workload] = Released(clock')]
     ELSE UNCHANGED <<clock, barrier>>
  /\ UNCHANGED <<workload, active_nodes>>

\* Seeded fault: every handler computes the start time when it wakes up.
ObserveOwnClock(c) ==
  /\ call[c].at \in {"registered", "parked"}
  /\ LET status == barrier[call[c].workload]
     IN \/ /\ status.kind = "Released"
           /\ clock' = clock + 1
           /\ call' = [call EXCEPT ![c].at = "done", ![c].answer = Released(clock')]
        \/ /\ status.kind \in {"Cancelled", "TimedOut"}
           /\ call' = [call EXCEPT ![c].at = "done", ![c].answer = status]
           /\ UNCHANGED clock
        \/ /\ status = Waiting
           /\ call[c].at = "registered"
           /\ call' = [call EXCEPT ![c].at = "parked"]
           /\ UNCHANGED clock
  /\ UNCHANGED <<workload, active_nodes, synced_nodes, barrier>>

\* Phase 2: borrow_and_update.  Any status but Waiting is the answer; Waiting
\* parks the handler, and changed() wakes it for the next status.
Observe(c) ==
  /\ LET status == barrier[call[c].workload]
     IN \/ /\ call[c].at \in {"registered", "parked"}
           /\ status # Waiting
           /\ call' = [call EXCEPT ![c].at = "done", ![c].answer = status]
        \/ /\ call[c].at = "registered"
           /\ status = Waiting
           /\ call' = [call EXCEPT ![c].at = "parked"]
  /\ UNCHANGED <<workload, active_nodes, synced_nodes, barrier, clock>>

\* select!: the timer branch may be taken even if a new status is there, since
\* branches that are ready are chosen at random.
Expire(c) ==
  /\ Timeouts
  /\ call[c].at = "parked"
  /\ call' = [call EXCEPT ![c].at = "expired"]
  /\ UNCHANGED <<workload, active_nodes, synced_nodes, barrier, clock>>

\* ...then it locks the store and sends TimedOut to whatever workload is there.
BroadcastTimedOut(c) ==
  /\ call[c].at = "expired"
  /\ barrier' = Send(workload, TimedOut)
  /\ call' = [call EXCEPT ![c].at = "done", ![c].answer = TimedOut]
  /\ UNCHANGED <<workload, active_nodes, synced_nodes, clock>>

\* The caller goes away: tonic drops the handler at an await.
Drop(c) ==
  /\ Drops
  /\ call[c].at \in Pending
  /\ call' = [call EXCEPT ![c].at = "done"]
  /\ UNCHANGED <<workload, active_nodes, synced_nodes, barrier, clock>>

Next ==
  \/ \E nodes \in (SUBSET Nodes) \ {{}} : AddSchedInfo(nodes)
  \/ \E c \in Calls : \/ SyncTimer(c)
                      \/ Observe(c)
                      \/ Expire(c)
                      \/ BroadcastTimedOut(c)
                      \/ Drop(c)

Spec == Init /\ [][Next]_vars

\* The runtime polls a handler whose channel is ready, and grants it the lock.
\* Nothing is assumed of the callers, and no timer is relied upon.
Fairness ==
  \A c \in Calls : WF_vars(Observe(c)) /\ WF_vars(BroadcastTimedOut(c))

FairSpec == Spec /\ Fairness

-----------------------------------------------------------------------------
Statuses ==
  [kind : {"Waiting", "Cancelled", "TimedOut", "Released"}, start : Nat]

TypeOK ==
  /\ workload \in 0..MaxWorkloads
  /\ active_nodes \in [WorkloadIds -> SUBSET Nodes]
  /\ synced_nodes \subseteq IF workload = 0 THEN {} ELSE active_nodes[workload]
  /\ barrier \in [WorkloadIds -> Statuses]
  /\ call \in [Calls -> [at : Pending \cup {"idle", "done"},
                         workload : 0..MaxWorkloads,
                         answer : Statuses]]
  /\ clock \in Nat

Registered(n, w) == \E i \in 1..MaxCalls : call[<<n, i>>].workload = w

\* A call is answered with a start time only if every active node of the
\* workload it registered with has called SyncTimer for that same workload,
\* whatever was replaced, timed out or dropped meanwhile.
StartNeedsAllNodes ==
  \A c \in Calls : call[c].answer.kind = "Released" =>
    \A n \in active_nodes[call[c].workload] : Registered(n, call[c].workload)

\* A start time is handed out for one workload only: a call that waited across
\* a replacement never starts with the next workload's time.
OneWorkloadPerStart ==
  \A c, d \in Calls :
    /\ call[c].answer.kind = "Released"
    /\ call[c].answer = call[d].answer
    => call[c].workload = call[d].workload

\* A handler that still waits when its barrier is complete, or when its
\* workload is replaced, is answered without the help of its timer: it cannot
\* park after the change and sleep through it, since it subscribed under the
\* lock under which the change was sent.
AnsweredWhenDecided ==
  \A c \in Calls :
    /\ call[c].at \in Pending
    /\ \/ call[c].workload < workload
       \/ active_nodes[workload] \subseteq synced_nodes
    ~> call[c].at = "done"

\* Some node has called SyncTimer twice for workload w.
CalledTwice(w) ==
  \E n \in Nodes : \E i, j \in 1..MaxCalls :
    i # j /\ call[<<n, i>>].workload = w /\ call[<<n, j>>].workload = w

\* The calls of a workload that are answered with a start time are answered with
\* the same one, however late each handler looks and whatever times out in
\* between, as long as no node calls twice: a repeated call makes sync_timer
\* fire a complete barrier again.
SameStart ==
  \A c, d \in Calls :
    /\ call[c].answer.kind = "Released"
    /\ call[d].answer.kind = "Released"
    /\ call[c].workload = call[d].workload
    /\ call[c].answer # call[d].answer
    => CalledTwice(call[c].workload)
=============================================================================
