------------------------- MODULE SyncBarrier_proofs -------------------------
(* Proofs about SyncBarrier, for every value of its constants. *)
EXTENDS SyncBarrier, TLAPS

\* The barrier statuses are well typed; only Released carries a start time.
LEMMA StatusTypes ==
  /\ Waiting \in Statuses /\ Cancelled \in Statuses /\ TimedOut \in Statuses
  /\ \A t \in Nat : /\ Released(t) \in Statuses
                    /\ Released(t).kind = "Released" /\ Released(t).start = t
  /\ "Released" \notin {Waiting.kind, Cancelled.kind, TimedOut.kind}
  /\ Waiting.start = 0 /\ Cancelled.start = 0 /\ TimedOut.start = 0
BY DEF Waiting, Cancelled, TimedOut, Released, Status, Statuses

\* A send reaches one channel or none.
LEMMA SendResult ==
  ASSUME TypeOK, NEW w \in Nat, NEW status \in Statuses
  PROVE  /\ Send(w, status) \in [WorkloadIds -> Statuses]
         /\ \A v \in WorkloadIds : \/ Send(w, status)[v] = barrier[v]
                                   \/ v = w /\ Send(w, status)[v] = status
BY Zenon DEF Send, TypeOK

\* A call belongs to a workload of the past or to the current one once it is
\* made, and to none before.
CallInv ==
  \A c \in Calls :
    /\ call[c].at = "idle" => call[c].workload = 0 /\ call[c].answer = Waiting
    /\ call[c].at # "idle" => call[c].workload \in 1..workload

CallRecords == [at : Pending \cup {"idle", "done"}, workload : 0..MaxWorkloads,
                answer : Statuses]

\* Every step keeps the types and the bookkeeping of the calls.
LEMMA TypeStep == TypeOK /\ CallInv /\ [Next]_vars => TypeOK' /\ CallInv'
<1> SUFFICES ASSUME TypeOK, CallInv, [Next]_vars PROVE TypeOK' /\ CallInv'
  OBVIOUS
<1> USE ConstantsAssumption
<1>0. /\ workload \in Nat
      /\ call \in [Calls -> CallRecords]
      /\ \A c \in Calls : call[c].at # "idle" => call[c].workload \in WorkloadIds
  BY DEF TypeOK, CallInv, WorkloadIds, CallRecords
<1>1. ASSUME NEW nodes \in (SUBSET Nodes) \ {{}}, AddSchedInfo(nodes)
      PROVE  TypeOK' /\ CallInv'
  <2>1. barrier' \in [WorkloadIds -> Statuses]
    BY <1>0, <1>1, SendResult, StatusTypes DEF AddSchedInfo, TypeOK
  <2>2. workload' \in 0..MaxWorkloads
    BY <1>1 DEF AddSchedInfo, TypeOK
  <2>3. active_nodes' \in [WorkloadIds -> SUBSET Nodes]
    BY <1>1, Zenon DEF AddSchedInfo, TypeOK
  <2>4. CallInv'
    BY <1>0, <1>1 DEF AddSchedInfo, CallInv, TypeOK
  <2> QED
    BY <1>1, <2>1, <2>2, <2>3, <2>4 DEF AddSchedInfo, TypeOK
<1>2. ASSUME NEW c \in Calls, SyncTimer(c)
      PROVE  TypeOK' /\ CallInv'
  <2>1. workload \in WorkloadIds /\ UNCHANGED <<workload, active_nodes>>
    BY <1>2 DEF SyncTimer, TypeOK, WorkloadIds
  <2>2. clock' \in Nat /\ barrier' \in [WorkloadIds -> Statuses]
    BY <1>2, <2>1, StatusTypes DEF SyncTimer, TypeOK
  <2>3. synced_nodes' \subseteq active_nodes'[workload']
    BY <1>2 DEF SyncTimer, TypeOK
  <2>4. call' \in [Calls -> CallRecords]
    BY <1>0, <1>2, <2>1, StatusTypes DEF SyncTimer, Pending, CallRecords, WorkloadIds
  <2>5. CallInv'
    BY <1>0, <1>2, <2>1 DEF SyncTimer, CallInv, WorkloadIds, CallRecords
  <2> QED
    BY <1>2, <2>1, <2>2, <2>3, <2>4, <2>5 DEF TypeOK, CallRecords, WorkloadIds
<1>3. ASSUME NEW c \in Calls, Observe(c)
      PROVE  TypeOK' /\ CallInv'
  <2>1. barrier[call[c].workload] \in Statuses
    BY <1>0, <1>3 DEF Observe, TypeOK
  <2>2. call' \in [Calls -> CallRecords]
    BY <1>0, <1>3, <2>1 DEF Observe, Pending, CallRecords
  <2>3. CallInv'
    BY <1>0, <1>3 DEF Observe, CallInv, CallRecords
  <2> QED
    BY <1>3, <2>2, <2>3 DEF Observe, TypeOK, CallRecords
<1>4. ASSUME NEW c \in Calls, Expire(c) \/ Drop(c)
      PROVE  TypeOK' /\ CallInv'
  <2>1. call' \in [Calls -> CallRecords]
    BY <1>0, <1>4 DEF Expire, Drop, Pending, CallRecords
  <2>2. CallInv'
    BY <1>0, <1>4 DEF Expire, Drop, CallInv, CallRecords, Pending
  <2> QED
    BY <1>4, <2>1, <2>2 DEF Expire, Drop, TypeOK, CallRecords
<1>5. ASSUME NEW c \in Calls, BroadcastTimedOut(c)
      PROVE  TypeOK' /\ CallInv'
  <2>1. barrier' \in [WorkloadIds -> Statuses]
    BY <1>0, <1>5, SendResult, StatusTypes DEF BroadcastTimedOut
  <2>2. call' \in [Calls -> CallRecords]
    <3>1. TimedOut \in Statuses
      BY StatusTypes
    <3> QED
      BY <1>0, <1>5, <3>1, Zenon DEF BroadcastTimedOut, Pending, CallRecords
  <2>3. CallInv'
    BY <1>0, <1>5 DEF BroadcastTimedOut, CallInv, CallRecords
  <2> QED
    BY <1>5, <2>1, <2>2, <2>3 DEF BroadcastTimedOut, TypeOK, CallRecords
<1>6. CASE UNCHANGED vars
  BY <1>6 DEF vars, TypeOK, CallInv
<1> QED
  BY <1>1, <1>2, <1>3, <1>4, <1>5, <1>6 DEF Next

\* Every behaviour keeps the types and the bookkeeping of the calls.
LEMMA Typing == Spec => [](TypeOK /\ CallInv)
<1>1. Init => TypeOK /\ CallInv
  BY StatusTypes, ConstantsAssumption
  DEF Init, TypeOK, CallInv, NoCall, Pending
<1> QED
  BY <1>1, TypeStep, PTL DEF Spec

(* The store, the channels and the handlers keep their types; only active  *)
(* nodes of the workload in the store are ever registered.                  *)
THEOREM BarrierTyping == Spec => []TypeOK
BY Typing, PTL

-----------------------------------------------------------------------------
\* Whoever counts as synced has a call of the current workload, a released
\* barrier has all of them, and a channel is untouched before its workload
\* comes.
BarrierInv ==
  /\ \A w \in WorkloadIds : w > workload => barrier[w] = Waiting
  /\ \A n \in synced_nodes : Registered(n, workload)
  /\ \A w \in WorkloadIds : barrier[w].kind = "Released" =>
       \A n \in active_nodes[w] : Registered(n, w)
  /\ StartNeedsAllNodes

\* No start time is newer than the clock, and each belongs to one workload,
\* in the channels and in the answers.
StartInv ==
  /\ \A w \in WorkloadIds : barrier[w].start <= clock
  /\ \A c \in Calls : call[c].answer.start <= clock
  /\ \A v, w \in WorkloadIds :
       barrier[v].kind = "Released" /\ barrier[v] = barrier[w] => v = w
  /\ \A c \in Calls, w \in WorkloadIds :
       call[c].answer.kind = "Released" /\ call[c].answer = barrier[w]
         => call[c].workload = w
  /\ OneWorkloadPerStart

\* A call stays with its workload.
LEMMA WorkloadStays ==
  ASSUME TypeOK, CallInv, [Next]_vars, NEW c \in Calls, call[c].workload # 0
  PROVE  call'[c].workload = call[c].workload
<1>1. call[c].at # "idle" /\ call \in [Calls -> CallRecords]
  BY DEF CallInv, TypeOK, CallRecords
<1>2. ASSUME NEW d \in Calls, SyncTimer(d)
      PROVE  call'[c].workload = call[c].workload
  BY <1>1, <1>2 DEF SyncTimer, NextCall
<1>3. ASSUME NEW d \in Calls,
             Observe(d) \/ Expire(d) \/ BroadcastTimedOut(d) \/ Drop(d)
      PROVE  call'[c].workload = call[c].workload
  BY <1>1, <1>3 DEF Observe, Expire, BroadcastTimedOut, Drop, CallRecords
<1> QED
  BY <1>2, <1>3 DEF Next, AddSchedInfo, vars

\* So a node stays registered, and a second call stays a second call.
LEMMA RegisteredStays ==
  ASSUME TypeOK, CallInv, [Next]_vars
  PROVE  \A n \in Nodes, w \in Nat \ {0} : Registered(n, w) => Registered(n, w)'
BY WorkloadStays DEF Registered, Calls

\* The same for a second call of a node.
LEMMA CalledTwiceStays ==
  ASSUME TypeOK, CallInv, [Next]_vars, NEW w \in Nat \ {0}, CalledTwice(w)
  PROVE  CalledTwice(w)'
<1>1. PICK n \in Nodes, i \in 1..MaxCalls, j \in 1..MaxCalls :
        i # j /\ call[<<n, i>>].workload = w /\ call[<<n, j>>].workload = w
  BY DEF CalledTwice
<1>2. <<n, i>> \in Calls /\ <<n, j>> \in Calls
  BY DEF Calls
<1>3. call'[<<n, i>>].workload = w /\ call'[<<n, j>>].workload = w
  BY <1>1, <1>2, WorkloadStays
<1> QED
  BY <1>1, <1>3 DEF CalledTwice

\* Every step keeps BarrierInv: SyncTimer is the one that fires a barrier, and
\* it does so only when synced_nodes holds every active node.
LEMMA BarrierStep ==
  TypeOK /\ CallInv /\ BarrierInv /\ [Next]_vars => BarrierInv'
<1> SUFFICES ASSUME TypeOK, CallInv, BarrierInv, [Next]_vars PROVE BarrierInv'
  OBVIOUS
<1> USE ConstantsAssumption
<1>0. /\ workload \in Nat /\ WorkloadIds \subseteq Nat \ {0}
      /\ call \in [Calls -> CallRecords]
      /\ \A c \in Calls : call[c].at # "idle" => call[c].workload \in WorkloadIds
      /\ \A c \in Calls : call[c].answer.kind = "Released" => call[c].workload \in WorkloadIds
      /\ \A w \in WorkloadIds : active_nodes[w] \subseteq Nodes
      /\ synced_nodes \subseteq Nodes
  BY StatusTypes DEF TypeOK, CallInv, WorkloadIds, CallRecords
<1>1. ASSUME NEW nodes \in (SUBSET Nodes) \ {{}}, AddSchedInfo(nodes)
      PROVE  BarrierInv'
  <2>1. ASSUME NEW w \in WorkloadIds
        PROVE  \/ barrier'[w] = barrier[w]
               \/ w = workload /\ barrier'[w] = Cancelled
    BY <1>0, <1>1, SendResult, StatusTypes DEF AddSchedInfo
  <2>2. /\ workload' = workload + 1 /\ synced_nodes' = {} /\ call' = call
        /\ \A w \in WorkloadIds : w # workload + 1 => active_nodes'[w] = active_nodes[w]
    BY <1>1 DEF AddSchedInfo, TypeOK
  <2>3. ASSUME NEW w \in WorkloadIds, w > workload'
        PROVE  barrier'[w] = Waiting
    <3>1. w > workload /\ w # workload
      BY <1>0, <2>2, <2>3
    <3> QED
      BY <2>1, <3>1 DEF BarrierInv
  <2>4. ASSUME NEW w \in WorkloadIds, barrier'[w].kind = "Released"
        PROVE  \A n \in active_nodes'[w] : Registered(n, w)'
    <3>1. barrier[w].kind = "Released" /\ w # workload + 1
      BY <1>0, <2>1, <2>4, StatusTypes DEF BarrierInv
    <3> QED
      BY <2>2, <3>1 DEF BarrierInv, Registered
  <2>5. StartNeedsAllNodes'
    <3>1. \A c \in Calls : call[c].answer.kind = "Released" =>
            call[c].workload \in WorkloadIds /\ call[c].workload # workload + 1
      BY <1>0 DEF CallInv, CallRecords
    <3>2. ASSUME NEW c \in Calls, call'[c].answer.kind = "Released",
                 NEW n \in active_nodes'[call'[c].workload]
          PROVE  Registered(n, call[c].workload)'
      <4>1. /\ call[c].answer.kind = "Released" /\ call'[c] = call[c]
            /\ n \in active_nodes[call[c].workload]
        BY <2>2, <3>1, <3>2
      <4>2. Registered(n, call[c].workload)
        BY <4>1 DEF BarrierInv, StartNeedsAllNodes
      <4> QED
        BY <2>2, <4>2 DEF Registered
    <3> QED
      BY <3>2 DEF StartNeedsAllNodes
  <2> QED
    BY <2>2, <2>3, <2>4, <2>5 DEF BarrierInv
<1>2. ASSUME NEW c \in Calls, SyncTimer(c)
      PROVE  BarrierInv'
  <2>1. /\ workload \in WorkloadIds /\ UNCHANGED <<workload, active_nodes>>
        /\ synced_nodes' = synced_nodes \cup {c[1]}
        /\ c[1] \in active_nodes[workload] /\ active_nodes[workload] \subseteq Nodes
    BY <1>0, <1>2 DEF SyncTimer, TypeOK, WorkloadIds
  <2>2. Registered(c[1], workload)'
    <3>1. PICK n \in Nodes, i \in 1..MaxCalls : c = <<n, i>>
      BY DEF Calls
    <3>2. call'[c].workload = workload
      BY <1>0, <1>2 DEF SyncTimer
    <3> QED
      BY <2>1, <3>1, <3>2 DEF Registered
  <2>3. \A n \in synced_nodes' : Registered(n, workload)'
    BY <1>0, <2>1, <2>2, RegisteredStays DEF BarrierInv
  <2>4. ASSUME NEW w \in WorkloadIds
        PROVE  \/ barrier'[w] = barrier[w]
               \/ w = workload /\ active_nodes[workload] \subseteq synced_nodes'
    BY <1>2 DEF SyncTimer, TypeOK
  <2>5. ASSUME NEW w \in WorkloadIds, w > workload'
        PROVE  barrier'[w] = Waiting
    <3>1. w > workload /\ w # workload
      BY <1>0, <2>1, <2>5
    <3> QED
      BY <2>4, <3>1 DEF BarrierInv
  <2>6. ASSUME NEW w \in WorkloadIds, barrier'[w].kind = "Released",
               NEW n \in active_nodes[w]
        PROVE  Registered(n, w)'
    BY <1>0, <2>1, <2>3, <2>4, <2>6, RegisteredStays DEF BarrierInv
  <2>7. StartNeedsAllNodes'
    <3>1. ASSUME NEW d \in Calls, call'[d].answer.kind = "Released"
          PROVE  call'[d] = call[d]
      BY <1>0, <1>2, <3>1, StatusTypes DEF SyncTimer
    <3> QED
      BY <1>0, <2>1, <3>1, RegisteredStays, Zenon DEF BarrierInv, StartNeedsAllNodes
  <2> QED
    BY <2>1, <2>3, <2>5, <2>6, <2>7 DEF BarrierInv
<1>3. ASSUME NEW c \in Calls,
             Observe(c) \/ Expire(c) \/ BroadcastTimedOut(c) \/ Drop(c)
      PROVE  BarrierInv'
  <2>1. UNCHANGED <<workload, active_nodes, synced_nodes>>
    BY <1>3 DEF Observe, Expire, BroadcastTimedOut, Drop
  <2>2. ASSUME NEW w \in WorkloadIds
        PROVE  \/ barrier'[w] = barrier[w]
               \/ w = workload /\ barrier'[w] = TimedOut
    <3>1. TimedOut \in Statuses
      BY StatusTypes
    <3>2. CASE BroadcastTimedOut(c)
      <4>1. barrier' = Send(workload, TimedOut)
        BY <3>2 DEF BroadcastTimedOut
      <4>2. \/ Send(workload, TimedOut)[w] = barrier[w]
            \/ w = workload /\ Send(workload, TimedOut)[w] = TimedOut
        BY <1>0, <3>1, SendResult
      <4> QED
        BY <4>1, <4>2
    <3> QED
      BY <1>3, <3>2 DEF Observe, Expire, Drop
  <2>3. ASSUME NEW d \in Calls, call'[d].answer.kind = "Released"
        PROVE  /\ call[d].workload \in WorkloadIds
               /\ call'[d].workload = call[d].workload
               /\ \A n \in active_nodes[call[d].workload] : Registered(n, call[d].workload)
    <3>1. \/ call'[d].answer = call[d].answer
          \/ call[d].at # "idle" /\ call'[d].answer = barrier[call[d].workload]
      BY <1>0, <1>3, <2>3, StatusTypes
      DEF Observe, Expire, BroadcastTimedOut, Drop, CallRecords
    <3>2. call'[d].workload = call[d].workload
      BY <1>0, <1>3 DEF Observe, Expire, BroadcastTimedOut, Drop, CallRecords
    <3> QED
      BY <1>0, <2>3, <3>1, <3>2, Zenon DEF BarrierInv, StartNeedsAllNodes
  <2>4. StartNeedsAllNodes'
    BY <1>0, <2>1, <2>3, RegisteredStays, Zenon DEF StartNeedsAllNodes
  <2>5. ASSUME NEW n \in synced_nodes
        PROVE  Registered(n, workload)'
    <3>1. workload \in Nat \ {0} /\ n \in Nodes
      BY <1>0 DEF TypeOK
    <3>2. Registered(n, workload)
      BY DEF BarrierInv
    <3>3. \E i \in 1..MaxCalls : call'[<<n, i>>].workload = workload
      BY <3>1, <3>2, RegisteredStays DEF Registered
    <3> QED
      BY <2>1, <3>3 DEF Registered
  <2>6. \A w \in WorkloadIds : w > workload => barrier'[w] = Waiting
    BY <1>0, <2>2 DEF BarrierInv
  <2>7. ASSUME NEW w \in WorkloadIds, barrier'[w].kind = "Released"
        PROVE  \A n \in active_nodes[w] : Registered(n, w)'
    BY <1>0, <2>2, <2>7, StatusTypes, RegisteredStays DEF BarrierInv
  <2> QED
    BY <2>1, <2>4, <2>5, <2>6, <2>7 DEF BarrierInv
<1>4. CASE UNCHANGED vars
  BY <1>4 DEF vars, BarrierInv, StartNeedsAllNodes, Registered
<1> QED
  BY <1>1, <1>2, <1>3, <1>4 DEF Next

(* No SyncTimer call is answered with a start time before every active node *)
(* of its workload has called, for any number of nodes, calls and           *)
(* replacements.                                                            *)
THEOREM BarrierSound == Spec => []StartNeedsAllNodes
<1>1. Init => BarrierInv
  BY StatusTypes DEF Init, BarrierInv, StartNeedsAllNodes, NoCall
<1>2. BarrierInv => StartNeedsAllNodes
  BY DEF BarrierInv
<1> QED
  BY <1>1, <1>2, BarrierStep, Typing, PTL DEF Spec

-----------------------------------------------------------------------------
\* Every step keeps StartInv: a start time that is new is larger than every one
\* that is in a channel or in an answer.
LEMMA StartStep ==
  TypeOK /\ CallInv /\ StartInv /\ [Next]_vars => StartInv'
<1> SUFFICES ASSUME TypeOK, CallInv, StartInv, [Next]_vars PROVE StartInv'
  OBVIOUS
<1> USE ConstantsAssumption
<1>0. /\ workload \in Nat /\ clock \in Nat
      /\ call \in [Calls -> CallRecords]
      /\ \A c \in Calls : call[c].at # "idle" => call[c].workload \in WorkloadIds
      /\ barrier \in [WorkloadIds -> Statuses]
      /\ \A w \in WorkloadIds : barrier[w].start \in Nat
      /\ \A c \in Calls : call[c].answer.start \in Nat
  BY DEF TypeOK, CallInv, WorkloadIds, CallRecords, Statuses
<1>1. ASSUME /\ clock' = clock
             /\ \A c \in Calls : call'[c].workload = call[c].workload
             /\ \A c \in Calls : \/ call'[c].answer = call[c].answer
                                 \/ /\ call'[c].answer.kind # "Released"
                                    /\ call'[c].answer.start = 0
                                 \/ /\ call[c].workload \in WorkloadIds
                                    /\ call'[c].answer = barrier[call[c].workload]
             /\ \A w \in WorkloadIds : \/ barrier'[w] = barrier[w]
                                       \/ /\ barrier'[w].kind # "Released"
                                          /\ barrier'[w].start = 0
      PROVE  StartInv'
  <2>1. /\ \A w \in WorkloadIds : barrier'[w].start <= clock
        /\ \A c \in Calls : call'[c].answer.start <= clock
    BY <1>0, <1>1 DEF StartInv
  <2>2. \A v, w \in WorkloadIds :
          barrier'[v].kind = "Released" /\ barrier'[v] = barrier'[w] => v = w
    BY <1>1 DEF StartInv
  <2>3. \A c \in Calls, w \in WorkloadIds :
          call'[c].answer.kind = "Released" /\ call'[c].answer = barrier'[w]
            => call[c].workload = w
    BY <1>1 DEF StartInv
  <2>4. \A c, d \in Calls :
          call'[c].answer.kind = "Released" /\ call'[c].answer = call'[d].answer
            => call[c].workload = call[d].workload
    BY <1>1 DEF StartInv, OneWorkloadPerStart
  <2> QED
    BY <1>1, <2>1, <2>2, <2>3, <2>4 DEF StartInv, OneWorkloadPerStart
<1>2. ASSUME NEW nodes \in (SUBSET Nodes) \ {{}}, AddSchedInfo(nodes)
      PROVE  StartInv'
  <2>1. Cancelled \in Statuses /\ Cancelled.kind # "Released" /\ Cancelled.start = 0
    BY StatusTypes
  <2>2. ASSUME NEW w \in WorkloadIds
        PROVE  barrier'[w] = barrier[w] \/ barrier'[w] = Cancelled
    <3>1. Send(workload, Cancelled)[w] \in {barrier[w], Cancelled}
      BY <1>0, <2>1, SendResult
    <3> QED
      BY <1>2, <3>1 DEF AddSchedInfo
  <2>3. call' = call /\ clock' = clock
    BY <1>2 DEF AddSchedInfo
  <2> QED
    BY <1>1, <2>1, <2>2, <2>3
<1>3. ASSUME NEW c \in Calls, BroadcastTimedOut(c)
      PROVE  StartInv'
  <2>1. TimedOut \in Statuses /\ TimedOut.kind # "Released" /\ TimedOut.start = 0
    BY StatusTypes
  <2>2. ASSUME NEW w \in WorkloadIds
        PROVE  barrier'[w] = barrier[w] \/ barrier'[w] = TimedOut
    <3>a. workload \in Nat /\ TimedOut \in Statuses
      BY <1>0, <2>1
    <3>1. Send(workload, TimedOut)[w] \in {barrier[w], TimedOut}
      BY <3>a, SendResult
    <3> QED
      BY <1>3, <3>1 DEF BroadcastTimedOut
  <2>3. ASSUME NEW d \in Calls
        PROVE  /\ call'[d].workload = call[d].workload
               /\ call'[d].answer \in {call[d].answer, TimedOut}
    BY <1>0, <1>3 DEF BroadcastTimedOut, CallRecords
  <2>4. clock' = clock
    BY <1>3 DEF BroadcastTimedOut
  <2> QED
    BY <1>1, <2>1, <2>2, <2>3, <2>4
<1>4. ASSUME NEW c \in Calls, Observe(c) \/ Expire(c) \/ Drop(c)
      PROVE  StartInv'
  <2>1. ASSUME NEW d \in Calls
        PROVE  /\ call'[d].workload = call[d].workload
               /\ \/ call'[d].answer = call[d].answer
                  \/ /\ call[d].workload \in WorkloadIds
                     /\ call'[d].answer = barrier[call[d].workload]
    BY <1>0, <1>4 DEF Observe, Expire, Drop, CallRecords
  <2>2. barrier' = barrier /\ clock' = clock
    BY <1>4 DEF Observe, Expire, Drop
  <2> QED
    BY <1>1, <2>1, <2>2
<1>5. ASSUME NEW c \in Calls, SyncTimer(c)
      PROVE  StartInv'
  <2>1. /\ Waiting.kind # "Released" /\ Waiting.start = 0
        /\ Released(clock + 1).start = clock + 1
    BY <1>0, StatusTypes
  <2>2. ASSUME NEW d \in Calls
        PROVE  \/ d # c /\ call'[d] = call[d]
               \/ d = c /\ call'[d].answer = Waiting
    BY <1>0, <1>5 DEF SyncTimer
  <2>3. CASE clock' = clock /\ barrier' = barrier
    <3>1. /\ \A w \in WorkloadIds : barrier'[w].start <= clock'
          /\ \A d \in Calls : call'[d].answer.start <= clock'
      BY <1>0, <2>1, <2>2, <2>3 DEF StartInv
    <3>2. /\ \A d \in Calls, w \in WorkloadIds :
               call'[d].answer.kind = "Released" /\ call'[d].answer = barrier'[w]
                 => call'[d].workload = w
          /\ OneWorkloadPerStart'
      BY <2>1, <2>2, <2>3 DEF StartInv, OneWorkloadPerStart
    <3> QED
      BY <2>3, <3>1, <3>2 DEF StartInv
  <2>4. CASE /\ clock' = clock + 1
             /\ barrier' = [barrier EXCEPT ![workload] = Released(clock + 1)]
    <3>1. ASSUME NEW w \in WorkloadIds
          PROVE  \/ w # workload /\ barrier'[w] = barrier[w] /\ barrier[w].start <= clock
                 \/ w = workload /\ barrier'[w].start = clock + 1
      BY <1>0, <2>1, <2>4 DEF StartInv
    <3>2. ASSUME NEW d \in Calls
          PROVE  call'[d].answer.start <= clock
      BY <1>0, <2>1, <2>2 DEF StartInv
    <3>3. \A v, w \in WorkloadIds :
            barrier'[v].kind = "Released" /\ barrier'[v] = barrier'[w] => v = w
      BY <1>0, <3>1 DEF StartInv
    <3>4. ASSUME NEW d \in Calls, NEW w \in WorkloadIds,
                 call'[d].answer.kind = "Released", call'[d].answer = barrier'[w]
          PROVE  call'[d].workload = w
      <4>1. barrier'[w].start <= clock
        BY <3>2, <3>4
      <4>2. barrier'[w] = barrier[w]
        BY <1>0, <3>1, <4>1
      <4>3. call'[d] = call[d]
        BY <2>1, <2>2, <3>4
      <4> QED
        BY <3>4, <4>2, <4>3 DEF StartInv
    <3>5. OneWorkloadPerStart'
      BY <2>1, <2>2 DEF StartInv, OneWorkloadPerStart
    <3>6. /\ \A w \in WorkloadIds : barrier'[w].start <= clock'
          /\ \A d \in Calls : call'[d].answer.start <= clock'
      BY <1>0, <2>1, <2>2, <2>4, <3>1 DEF StartInv
    <3> QED
      BY <3>3, <3>4, <3>5, <3>6 DEF StartInv
  <2> QED
    BY <1>5, <2>3, <2>4 DEF SyncTimer
<1>6. CASE UNCHANGED vars
  BY <1>6 DEF vars, StartInv, OneWorkloadPerStart
<1> QED
  BY <1>2, <1>3, <1>4, <1>5, <1>6 DEF Next

(* A start time belongs to one workload: no call is answered with the time  *)
(* of another workload than the one it registered with.                     *)
THEOREM StartsNotShared == Spec => []OneWorkloadPerStart
<1>1. Init => StartInv
  BY StatusTypes DEF Init, StartInv, OneWorkloadPerStart, NoCall
<1>2. StartInv => OneWorkloadPerStart
  BY DEF StartInv
<1> QED
  BY <1>1, <1>2, StartStep, Typing, PTL DEF Spec

-----------------------------------------------------------------------------
\* As long as no node has called twice, the answers of a workload and its
\* channel, where they are start times, are one start time.
SameInv ==
  /\ \A c \in Calls, w \in WorkloadIds :
       /\ call[c].workload = w
       /\ call[c].answer.kind = "Released" /\ barrier[w].kind = "Released"
       /\ ~CalledTwice(w)
       => call[c].answer = barrier[w]
  /\ SameStart

\* Every step keeps SameInv.  A barrier that fires while no node has called
\* twice fires for the first time: the caller was not registered before, so
\* nobody can have been released.
LEMMA SameStep ==
  TypeOK /\ CallInv /\ BarrierInv /\ SameInv /\ [Next]_vars => SameInv'
<1> SUFFICES ASSUME TypeOK, CallInv, BarrierInv, SameInv, [Next]_vars PROVE SameInv'
  OBVIOUS
<1> USE ConstantsAssumption
<1>0. /\ workload \in Nat /\ WorkloadIds \subseteq Nat \ {0}
      /\ call \in [Calls -> CallRecords]
      /\ \A c \in Calls : call[c].at # "idle" => call[c].workload \in WorkloadIds
      /\ \A c \in Calls : call[c].answer.kind = "Released" => call[c].workload \in WorkloadIds
  BY StatusTypes DEF TypeOK, CallInv, WorkloadIds, CallRecords
<1>1. ASSUME NEW w \in WorkloadIds, ~CalledTwice(w)' PROVE ~CalledTwice(w)
  BY <1>0, <1>1, CalledTwiceStays
\* All steps but the firing of a barrier.
<1>2. ASSUME /\ \A c \in Calls : call[c].workload # 0 => call'[c].workload = call[c].workload
             /\ \A c \in Calls : \/ call'[c].answer = call[c].answer
                                 \/ call'[c].answer.kind # "Released"
                                 \/ /\ call[c].workload \in WorkloadIds
                                    /\ call'[c].answer = barrier[call[c].workload]
             /\ \A w \in WorkloadIds : \/ barrier'[w] = barrier[w]
                                       \/ barrier'[w].kind # "Released"
      PROVE  SameInv'
  <2>1. ASSUME NEW c \in Calls, call'[c].answer.kind = "Released"
        PROVE  /\ call[c].workload \in WorkloadIds /\ call'[c].workload = call[c].workload
               /\ \/ call'[c].answer = call[c].answer
                  \/ call'[c].answer = barrier[call[c].workload]
    BY <1>0, <1>2, <2>1
  <2>2. ASSUME NEW c \in Calls, NEW w \in WorkloadIds, call'[c].workload = w,
               call'[c].answer.kind = "Released", barrier'[w].kind = "Released",
               ~CalledTwice(w)'
        PROVE  call'[c].answer = barrier'[w]
    BY <1>1, <1>2, <2>1, <2>2 DEF SameInv
  <2>3. ASSUME NEW c \in Calls, NEW d \in Calls,
               call'[c].answer.kind = "Released", call'[d].answer.kind = "Released",
               call'[c].workload = call'[d].workload, ~CalledTwice(call[c].workload)'
        PROVE  call'[c].answer = call'[d].answer
    <3>1. ~CalledTwice(call[c].workload) /\ call[c].workload = call[d].workload
      BY <1>1, <2>1, <2>3
    <3>2. /\ call[c].answer.kind = "Released" /\ barrier[call[c].workload].kind = "Released"
            => call[c].answer = barrier[call[c].workload]
          /\ call[d].answer.kind = "Released" /\ barrier[call[c].workload].kind = "Released"
            => call[d].answer = barrier[call[c].workload]
          /\ call[c].answer.kind = "Released" /\ call[d].answer.kind = "Released"
            => call[c].answer = call[d].answer
      BY <2>1, <2>3, <3>1 DEF SameInv, SameStart
    <3> QED
      BY <2>1, <2>3, <3>1, <3>2
  <2> QED
    BY <2>1, <2>2, <2>3 DEF SameInv, SameStart
<1>3. ASSUME NEW nodes \in (SUBSET Nodes) \ {{}}, AddSchedInfo(nodes)
      PROVE  SameInv'
  <2>1. Cancelled \in Statuses /\ Cancelled.kind # "Released"
    BY StatusTypes
  <2>2. ASSUME NEW w \in WorkloadIds
        PROVE  barrier'[w] = barrier[w] \/ barrier'[w] = Cancelled
    <3>1. Send(workload, Cancelled)[w] \in {barrier[w], Cancelled}
      BY <1>0, <2>1, SendResult
    <3> QED
      BY <1>3, <3>1 DEF AddSchedInfo
  <2>3. call' = call
    BY <1>3 DEF AddSchedInfo
  <2> QED
    BY <1>2, <2>1, <2>2, <2>3
<1>4. ASSUME NEW c \in Calls, BroadcastTimedOut(c)
      PROVE  SameInv'
  <2>1. TimedOut \in Statuses /\ TimedOut.kind # "Released"
    BY StatusTypes
  <2>2. ASSUME NEW w \in WorkloadIds
        PROVE  barrier'[w] = barrier[w] \/ barrier'[w] = TimedOut
    <3>a. workload \in Nat /\ TimedOut \in Statuses
      BY <1>0, <2>1
    <3>1. Send(workload, TimedOut)[w] \in {barrier[w], TimedOut}
      BY <3>a, SendResult
    <3> QED
      BY <1>4, <3>1 DEF BroadcastTimedOut
  <2>3. ASSUME NEW d \in Calls
        PROVE  /\ call'[d].workload = call[d].workload
               /\ call'[d].answer \in {call[d].answer, TimedOut}
    BY <1>0, <1>4 DEF BroadcastTimedOut, CallRecords
  <2> QED
    BY <1>2, <2>1, <2>2, <2>3
<1>5. ASSUME NEW c \in Calls, Observe(c) \/ Expire(c) \/ Drop(c)
      PROVE  SameInv'
  <2>1. ASSUME NEW d \in Calls
        PROVE  /\ call'[d].workload = call[d].workload
               /\ \/ call'[d].answer = call[d].answer
                  \/ /\ call[d].workload \in WorkloadIds
                     /\ call'[d].answer = barrier[call[d].workload]
    BY <1>0, <1>5 DEF Observe, Expire, Drop, CallRecords
  <2>2. barrier' = barrier
    BY <1>5 DEF Observe, Expire, Drop
  <2> QED
    BY <1>2, <2>1, <2>2
<1>6. ASSUME NEW c \in Calls, SyncTimer(c)
      PROVE  SameInv'
  <2>1. ASSUME NEW d \in Calls
        PROVE  \/ call'[d] = call[d]
               \/ /\ d = c /\ call[d].at = "idle"
                  /\ call'[d].answer = Waiting /\ call'[d].workload = workload
    BY <1>0, <1>6 DEF SyncTimer, NextCall
  <2>2. /\ workload \in WorkloadIds /\ c[1] \in active_nodes[workload]
        /\ Waiting.kind # "Released"
    BY StatusTypes, <1>6 DEF SyncTimer, TypeOK, WorkloadIds
  <2>3. CASE barrier' = barrier
    <3>1. ASSUME NEW d \in Calls, call[d].workload # 0
          PROVE  call'[d].workload = call[d].workload
      BY <3>1, WorkloadStays
    <3> QED
      BY <1>2, <2>1, <2>2, <2>3, <3>1
  <2>4. CASE barrier' = [barrier EXCEPT ![workload] = Released(clock + 1)]
    <3>1. Registered(c[1], workload) => CalledTwice(workload)'
      <4>1. SUFFICES ASSUME Registered(c[1], workload) PROVE CalledTwice(workload)'
        OBVIOUS
      <4>2. PICK n \in Nodes, j \in 1..MaxCalls : c = <<n, j>>
        BY DEF Calls
      <4>3. PICK i \in 1..MaxCalls : call[<<n, i>>].workload = workload
        BY <4>1, <4>2 DEF Registered
      <4>4. <<n, i>> \in Calls /\ call[<<n, i>>].workload # 0
        BY <1>0, <2>2, <4>3 DEF Calls
      <4>5. i # j
        BY <1>6, <4>2, <4>4 DEF SyncTimer, NextCall, CallInv
      <4>6. call'[<<n, i>>].workload = workload /\ call'[<<n, j>>].workload = workload
        <5>1. call'[c].workload = workload
          BY <1>0, <1>6 DEF SyncTimer
        <5>2. call'[<<n, i>>].workload = call[<<n, i>>].workload
          BY <4>4, WorkloadStays
        <5> QED
          BY <4>2, <4>3, <5>1, <5>2
      <4>7. workload' = workload
        BY <1>6 DEF SyncTimer
      <4> QED
        BY <4>5, <4>6, <4>7 DEF CalledTwice
    <3>2. ASSUME ~CalledTwice(workload)'
          PROVE  \A d \in Calls : call[d].workload = workload => call[d].answer.kind # "Released"
      BY <2>2, <3>1, <3>2 DEF BarrierInv, StartNeedsAllNodes
    <3>3. ASSUME ~CalledTwice(workload)'
          PROVE  \A d \in Calls : call'[d].workload = workload => call'[d].answer.kind # "Released"
      BY <2>1, <2>2, <3>2, <3>3
    <3>4. ASSUME NEW d \in Calls, call'[d].answer.kind = "Released"
          PROVE  /\ call'[d] = call[d] /\ call[d].workload \in WorkloadIds
                 /\ ~CalledTwice(workload)' => call[d].workload # workload
      BY <1>0, <2>1, <2>2, <3>3, <3>4
    <3>5. ASSUME NEW w \in WorkloadIds, w # workload PROVE barrier'[w] = barrier[w]
      BY <2>4, <3>5 DEF TypeOK
    <3>6. ASSUME NEW d \in Calls, NEW w \in WorkloadIds, call'[d].workload = w,
                 call'[d].answer.kind = "Released", barrier'[w].kind = "Released",
                 ~CalledTwice(w)'
          PROVE  call'[d].answer = barrier'[w]
      <4>1. call'[d] = call[d] /\ ~CalledTwice(w)
        BY <1>1, <3>4, <3>6
      <4>2. w # workload
        <5>1. SUFFICES ASSUME w = workload PROVE FALSE
          OBVIOUS
        <5>2. ~CalledTwice(workload)'
          BY <1>6, <3>6, <5>1 DEF SyncTimer
        <5> QED
          BY <3>4, <3>6, <4>1, <5>1, <5>2
      <4> QED
        BY <3>5, <3>6, <4>1, <4>2 DEF SameInv
    <3>7. ASSUME NEW d \in Calls, NEW e \in Calls,
                 call'[d].answer.kind = "Released", call'[e].answer.kind = "Released",
                 call'[d].workload = call'[e].workload, ~CalledTwice(call[d].workload)'
          PROVE  call'[d].answer = call'[e].answer
      <4>1. /\ call'[d] = call[d] /\ call'[e] = call[e]
            /\ call[d].workload \in WorkloadIds /\ ~CalledTwice(call[d].workload)
        BY <1>1, <3>4, <3>7
      <4> QED
        BY <3>7, <4>1 DEF SameInv, SameStart
    <3> QED
      BY <3>4, <3>6, <3>7 DEF SameInv, SameStart
  <2> QED
    BY <1>6, <2>3, <2>4 DEF SyncTimer
<1>7. CASE UNCHANGED vars
  <2>1. call' = call /\ barrier' = barrier
    BY <1>7 DEF vars
  <2> QED
    BY <1>2, <2>1
<1> QED
  BY <1>3, <1>4, <1>5, <1>6, <1>7 DEF Next

(* All calls of a workload that are given a start time are given the same   *)
(* one unless some node of it called twice, for any number of nodes, calls  *)
(* and replacements.                                                        *)
THEOREM StartsAgree == Spec => []SameStart
<1>1. Init => BarrierInv /\ SameInv
  BY StatusTypes DEF Init, BarrierInv, StartNeedsAllNodes, SameInv, SameStart, NoCall
<1>2. SameInv => SameStart
  BY DEF SameInv
<1> QED
  BY <1>1, <1>2, BarrierStep, SameStep, Typing, PTL DEF Spec
=============================================================================
