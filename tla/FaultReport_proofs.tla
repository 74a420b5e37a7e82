------------------------- MODULE FaultReport_proofs -------------------------
(* Proofs about FaultReport, for every value of its constants. *)
EXTENDS FaultReport, FiniteSetTheorems, TLAPS

Events == [task : Tasks, type : Types]
MadeReports == [workload : {Workload[t] : t \in Tasks}, type : Types, cycle : Nat]

\* An RPC keeps the types of what Pullpiri has.
LEMMA RpcTypes ==
  ASSUME TypeOK, NEW report \in Nat, NEW ok \in BOOLEAN, SendFaultRpc(report, ok)
  PROVE  /\ pullpiri_up' \in BOOLEAN
         /\ received' \in Seq(Nat)
         /\ replies_lost' \in 0..MaxBreaks
<1> USE ConstantsAssumption
<1>1. received' = Append(received, report) \/ received' = received
  BY DEF SendFaultRpc, pullpiriVars
<1>2. received \in Seq(Nat) /\ pullpiri_up \in BOOLEAN /\ replies_lost \in 0..MaxBreaks
  BY DEF TypeOK
<1>3. received' \in Seq(Nat)
  BY <1>1, <1>2
<1>4. pullpiri_up' \in BOOLEAN
  BY <1>2, Zenon DEF SendFaultRpc, pullpiriVars
<1>5. replies_lost' \in 0..MaxBreaks
  BY <1>2 DEF SendFaultRpc, pullpiriVars
<1> QED
  BY <1>3, <1>4, <1>5

\* A fault that is queued leaves the queue within its bound.
LEMMA EnqueueTypes ==
  ASSUME TypeOK, NEW report \in Nat
  PROVE  /\ EnqueueRetryLocked(report) \in Seq(Nat)
         /\ Len(EnqueueRetryLocked(report)) <= kMaxRetryQueue
<1> USE ConstantsAssumption
<1>1. retry_queue \in Seq(Nat) /\ Len(retry_queue) <= kMaxRetryQueue
  BY DEF TypeOK
<1>2. CASE Len(retry_queue) >= kMaxRetryQueue
  <2>1. retry_queue # <<>> /\ Tail(retry_queue) \in Seq(Nat)
        /\ Len(Tail(retry_queue)) = Len(retry_queue) - 1
    BY <1>1, <1>2
  <2> QED
    BY <1>1, <1>2, <2>1 DEF EnqueueRetryLocked
<1>3. CASE ~(Len(retry_queue) >= kMaxRetryQueue)
  BY <1>1, <1>3 DEF EnqueueRetryLocked
<1> QED
  BY <1>2, <1>3

\* Every step keeps the types.
LEMMA TypeStep == TypeOK /\ [Next]_vars => TypeOK'
<1> SUFFICES ASSUME TypeOK, [Next]_vars PROVE TypeOK'
  OBVIOUS
<1> USE ConstantsAssumption
<1>1. ASSUME NEW t \in Tasks, NEW type \in Types, Fault(t, type)
      PROVE  TypeOK'
  <2>1. fault_ringbuf' \in Seq(Events)
    BY <1>1 DEF Fault, TypeOK, Events
  <2>2. faults' \in 0..MaxFaults
    BY <1>1 DEF Fault, TypeOK
  <2> QED
    BY <1>1, <2>1, <2>2
    DEF Fault, TypeOK, Events, monitorVars, tableVars, streamVars, clientVars, pullpiriVars
<1>2. CASE RingBufCallback
  <2> DEFINE event == Head(fault_ringbuf)
             t == event.task
             miss == event.type = "DMISS"
  <2>1. event \in Events /\ fault_ringbuf' \in Seq(Events)
    <3>1. fault_ringbuf \in Seq(Events)
      BY DEF TypeOK, Events
    <3>2. fault_ringbuf # <<>> /\ fault_ringbuf' = Tail(fault_ringbuf)
      BY <1>2 DEF RingBufCallback
    <3> QED
      BY <3>1, <3>2
  <2>2. t \in Tasks /\ Workload[t] \in {Workload[u] : u \in Tasks} /\ Report(event) \in MadeReports
    <3>1. t \in Tasks /\ event.type \in Types /\ cycle \in Nat
      BY <2>1 DEF Events, TypeOK
    <3>2. Workload[t] \in {Workload[u] : u \in Tasks}
      BY <3>1
    <3> QED
      BY <3>1, <3>2 DEF Report, MadeReports
  <2>3. task_dmiss_counts[t] + 1 \in Nat
    BY <2>2 DEF TypeOK
  <2>4. task_dmiss_counts' \in [Tasks -> Nat]
    BY <1>2, <2>2, <2>3, SMTT(30) DEF RingBufCallback, TypeOK
  <2>5. workload_reported' \subseteq {Workload[u] : u \in Tasks}
    BY <1>2, <2>2 DEF RingBufCallback, TypeOK
  <2>6. made' \in {made, Append(made, Report(event))}
    BY <1>2 DEF RingBufCallback
  <2>7. made' \in Seq(MadeReports)
    <3>1. made \in Seq(MadeReports)
      BY DEF TypeOK, MadeReports
    <3> QED
      BY <2>2, <2>6, <3>1
  <2>8. should_report' \in Nat
    <3>1. should_report' = Len(made') \/ should_report' = NoReport
      BY <1>2 DEF RingBufCallback
    <3> QED
      BY <2>7, <3>1 DEF NoReport
  <2> QED
    BY <1>2, <2>1, <2>4, <2>5, <2>7, <2>8
    DEF RingBufCallback, TypeOK, Events, MadeReports, tableVars, streamVars, clientVars, pullpiriVars
<1>3. CASE SendFault
  <2>1. wire' \in Seq(Nat)
    BY <1>3 DEF SendFault, TypeOK
  <2> QED
    BY <1>3, <2>1 DEF SendFault, TypeOK, NoReport, kernelVars, tableVars, clientVars, pullpiriVars
<1>4. ASSUME NEW new \in Tables, TableReceived(new)
      PROVE  TypeOK'
  BY <1>4 DEF TableReceived, TypeOK, monitorVars, streamVars, clientVars, pullpiriVars
<1>5. CASE ClearState
  BY <1>5 DEF ClearState, TypeOK, NoLimits, kernelVars, streamVars, clientVars, pullpiriVars
<1>6. CASE UpdateCurrentLimits
  <2>1. \A u \in DOMAIN table : u \in Tasks => table[u] \in Nat
    BY DEF TypeOK
  <2>2. task_current_limits' \in [Tasks -> Nat]
    BY <1>6, <2>1 DEF UpdateCurrentLimits
  <2> QED
    BY <1>6, <2>2 DEF UpdateCurrentLimits, TypeOK, kernelVars, streamVars, clientVars, pullpiriVars
<1>7. ASSUME NEW found \in SUBSET Tasks, RegisterTasks(found)
      PROVE  TypeOK'
  BY <1>7 DEF RegisterTasks, TypeOK, monitorVars, streamVars, clientVars, pullpiriVars
<1>8. ASSUME NEW w, RecoveryStop(w)
      PROVE  TypeOK'
  BY <1>8 DEF RecoveryStop, TypeOK, monitorVars, tableVars, streamVars, clientVars, pullpiriVars
<1>9. CASE Break
  <2>1. wire' \in Seq(Nat) /\ breaks' \in 0..MaxBreaks
    BY <1>9 DEF Break, TypeOK
  <2> QED
    BY <1>9, <2>1 DEF Break, TypeOK, kernelVars, monitorVars, tableVars, clientVars, pullpiriVars
<1>10. CASE Reconnect
  BY <1>10 DEF Reconnect, TypeOK, kernelVars, monitorVars, tableVars, clientVars, pullpiriVars
<1>11. CASE HandleFaultInfo
  <2>1. Head(wire) \in Nat /\ wire' \in Seq(Nat)
    <3>1. wire \in Seq(Nat)
      BY DEF TypeOK
    <3>2. wire # <<>> /\ wire' = Tail(wire)
      BY <1>11 DEF HandleFaultInfo
    <3> QED
      BY <3>1, <3>2
  <2> QED
    BY <1>11, <2>1 DEF HandleFaultInfo, TypeOK, kernelVars, monitorVars, tableVars, pullpiriVars
<1>12. CASE FlushRetryQueueLocked
  <2>1. retry_queue # <<>> => /\ Head(retry_queue) \in Nat
                              /\ Tail(retry_queue) \in Seq(Nat)
                              /\ Len(Tail(retry_queue)) <= kMaxRetryQueue
    BY DEF TypeOK
  <2>2. retry_queue' \in Seq(Nat) /\ Len(retry_queue') <= kMaxRetryQueue
    BY <1>12, <2>1 DEF FlushRetryQueueLocked, TypeOK
  <2>3. notify' \in [at : {"idle", "flush", "send"}, report : Nat]
    BY <1>12, SMTT(30) DEF FlushRetryQueueLocked, TypeOK
  <2>4. pullpiri_up' \in BOOLEAN /\ received' \in Seq(Nat) /\ replies_lost' \in 0..MaxBreaks
    <3>1. CASE UNCHANGED pullpiriVars
      BY <3>1 DEF TypeOK, pullpiriVars
    <3>2. CASE \E ok \in BOOLEAN : retry_queue # <<>> /\ SendFaultRpc(Head(retry_queue), ok)
      BY <2>1, <3>2, RpcTypes
    <3> QED
      BY <1>12, <3>1, <3>2 DEF FlushRetryQueueLocked
  <2> QED
    BY <1>12, <2>2, <2>3, <2>4
    DEF FlushRetryQueueLocked, TypeOK, kernelVars, monitorVars, tableVars, streamVars
<1>13. CASE NotifyFault
  <2>1. notify.report \in Nat
    BY DEF TypeOK
  <2>2. PICK ok \in BOOLEAN :
          /\ SendFaultRpc(notify.report, ok)
          /\ retry_queue' = IF ok THEN retry_queue ELSE EnqueueRetryLocked(notify.report)
    BY <1>13 DEF NotifyFault
  <2>3. retry_queue' \in Seq(Nat) /\ Len(retry_queue') <= kMaxRetryQueue
    BY <2>1, <2>2, EnqueueTypes DEF TypeOK
  <2>4. pullpiri_up' \in BOOLEAN /\ received' \in Seq(Nat) /\ replies_lost' \in 0..MaxBreaks
    BY <2>1, <2>2, RpcTypes
  <2>5. notify' \in [at : {"idle", "flush", "send"}, report : Nat]
    BY <1>13 DEF NotifyFault, NoCall, NoReport
  <2> QED
    BY <1>13, <2>3, <2>4, <2>5
    DEF NotifyFault, TypeOK, kernelVars, monitorVars, tableVars, streamVars
<1>14. CASE PullpiriDown \/ PullpiriUp
  BY <1>14 DEF PullpiriDown, PullpiriUp, TypeOK, kernelVars, monitorVars, tableVars, streamVars, clientVars
<1>15. CASE UNCHANGED vars
  BY <1>15 DEF vars, TypeOK, kernelVars, monitorVars, tableVars, streamVars, clientVars, pullpiriVars
<1> QED
  BY <1>1, <1>2, <1>3, <1>4, <1>5, <1>6, <1>7, <1>8, <1>9, <1>10, <1>11, <1>12, <1>13, <1>14, <1>15
  DEF Next

(* Monitor, stream, client and Pullpiri keep their types; in particular the *)
(* retry queue never holds more than kMaxRetryQueue faults.                 *)
THEOREM FaultTyping == Spec => []TypeOK
<1>1. Init => TypeOK
  BY ConstantsAssumption DEF Init, TypeOK, NoLimits, NoReport, NoCall
<1> QED
  BY <1>1, TypeStep, PTL DEF Spec

-----------------------------------------------------------------------------
\* Reports carry the number of a cycle that has begun, and a workload whose
\* misses were reported in this cycle is marked.
ReportInv ==
  /\ \A i \in Reports : made[i].cycle <= cycle
  /\ \A i \in Reports : made[i].type = "DMISS" /\ made[i].cycle = cycle
                          => made[i].workload \in workload_reported
  /\ OneReportPerCycle

\* Every step keeps ReportInv: RingBufCallback makes a report of misses only for
\* a workload without the mark, and sets it in the same critical section;
\* ClearState takes the marks back and begins a new cycle.
LEMMA ReportStep == TypeOK /\ ReportInv /\ [Next]_vars => ReportInv'
<1> SUFFICES ASSUME TypeOK, ReportInv, [Next]_vars PROVE ReportInv'
  OBVIOUS
<1>0. made \in Seq(MadeReports) /\ cycle \in Nat /\ \A i \in Reports : made[i] \in MadeReports
  <2>1. made \in Seq(MadeReports) /\ cycle \in Nat
    BY DEF TypeOK, MadeReports
  <2> QED
    BY <2>1 DEF Reports
<1>1. CASE RingBufCallback
  <2> DEFINE event == Head(fault_ringbuf)
             w == Workload[event.task]
  <2>1. CASE made' = made
    <3>1. workload_reported \subseteq workload_reported' /\ cycle' = cycle
      BY <1>1 DEF RingBufCallback
    <3> QED
      BY <2>1, <3>1 DEF ReportInv, OneReportPerCycle, Reports
  <2>2. CASE made' # made
    <3>1. /\ made' = Append(made, Report(event)) /\ cycle' = cycle
          /\ event.type = "DMISS" => /\ w \notin workload_reported
                                     /\ w \in workload_reported'
          /\ workload_reported \subseteq workload_reported'
      BY <1>1, <2>2 DEF RingBufCallback
    <3>2. Report(event).workload = w /\ Report(event).type = event.type
          /\ Report(event).cycle = cycle
      BY DEF Report
    <3>3. ASSUME NEW i \in Reports'
          PROVE  \/ i \in Reports /\ made'[i] = made[i]
                 \/ i = Len(made) + 1 /\ made'[i] = Report(event)
      <4>1. Report(event) \in {Report(event)} \cup MadeReports /\ Len(made) \in Nat
        BY <1>0
      <4>2. /\ Len(made') = Len(made) + 1 /\ made'[Len(made) + 1] = Report(event)
            /\ \A k \in 1..Len(made) : made'[k] = made[k]
        BY <1>0, <3>1
      <4> QED
        BY <4>1, <4>2 DEF Reports
    <3>4. ASSUME NEW i \in Reports' PROVE made'[i].cycle <= cycle'
      <4>1. CASE i \in Reports /\ made'[i] = made[i]
        BY <3>1, <4>1 DEF ReportInv
      <4>2. CASE made'[i] = Report(event)
        <5>1. made'[i].cycle = cycle /\ cycle' = cycle
          BY <3>1, <3>2, <4>2, Zenon
        <5> QED
          BY <1>0, <5>1
      <4> QED
        BY <3>3, <4>1, <4>2
    <3>5. \A i \in Reports' : made'[i].type = "DMISS" /\ made'[i].cycle = cycle'
                                => made'[i].workload \in workload_reported'
      BY <3>1, <3>2, <3>3 DEF ReportInv
    <3>6. ASSUME NEW i \in Reports', NEW j \in Reports',
                 made'[i].type = "DMISS", made'[j].type = "DMISS",
                 made'[i].workload = made'[j].workload, made'[i].cycle = made'[j].cycle
          PROVE  i = j
      BY <3>1, <3>2, <3>3, <3>6, ZenonT(60) DEF ReportInv, OneReportPerCycle
    <3> QED
      BY <3>4, <3>5, <3>6 DEF ReportInv, OneReportPerCycle
  <2> QED
    BY <2>1, <2>2
<1>2. CASE ClearState
  <2>1. made' = made /\ cycle' = cycle + 1
    BY <1>2 DEF ClearState
  <2>2. \A i \in Reports : made[i].cycle \in Nat
    BY <1>0 DEF MadeReports
  <2>3. \A i \in Reports : made[i].cycle <= cycle' /\ made[i].cycle # cycle'
    BY <1>0, <2>1, <2>2 DEF ReportInv
  <2> QED
    BY <2>1, <2>3 DEF ReportInv, OneReportPerCycle, Reports
<1>3. CASE UNCHANGED <<made, cycle, workload_reported>>
  BY <1>3 DEF ReportInv, OneReportPerCycle, Reports
<1> QED
  BY <1>1, <1>2, <1>3
  DEF Next, Fault, SendFault, TableReceived, UpdateCurrentLimits, RegisterTasks, RecoveryStop, Break,
      Reconnect, HandleFaultInfo, FlushRetryQueueLocked, NotifyFault, PullpiriDown, PullpiriUp,
      vars, monitorVars

(* Between two resets of the monitor the misses of a workload are reported  *)
(* once, for any tasks, limits and tables.                                  *)
THEOREM ReportedOnce == Spec => []OneReportPerCycle
<1>1. Init => ReportInv
  BY DEF Init, ReportInv, OneReportPerCycle, Reports
<1>2. ReportInv => OneReportPerCycle
  BY DEF ReportInv
<1> QED
  BY <1>1, <1>2, ReportStep, FaultTyping, PTL DEF Spec

-----------------------------------------------------------------------------
\* What happens at the two ends of a sequence with one more element behind it.
LEMMA AppendEnds ==
  ASSUME NEW S, NEW s \in Seq(S), NEW x \in S
  PROVE  /\ Append(s, x) \in Seq(S) /\ Append(s, x) # <<>>
         /\ Len(Append(s, x)) = Len(s) + 1
         /\ Append(s, x)[Len(s) + 1] = x
         /\ SubSeq(Append(s, x), 1, Len(s)) = s
         /\ s # <<>> => /\ Head(Append(s, x)) = Head(s)
                        /\ Tail(Append(s, x)) = Append(Tail(s), x)
OBVIOUS

\* Every step is a step of the channel or changes neither what is pending nor
\* what was delivered.
LEMMA ChannelStep == TypeOK /\ TypeOK' /\ [Next]_vars => [Channel!Next]_<<Pending, received>>
<1> SUFFICES ASSUME TypeOK, [Next]_vars PROVE [Channel!Next]_<<Pending, received>>
  OBVIOUS
<1> USE ConstantsAssumption
<1>0. /\ retry_queue \in Seq(Nat) /\ notify.report \in Nat /\ received \in Seq(Nat)
      /\ Len(retry_queue) \in Nat /\ Len(retry_queue) <= kMaxRetryQueue
  BY DEF TypeOK
<1>1. CASE HandleFaultInfo
  <2>1. Pending = retry_queue /\ Pending' = Append(retry_queue, Head(wire)) /\ received' = received
    BY <1>1 DEF HandleFaultInfo, Pending, pullpiriVars
  <2>2. Head(wire) \in Nat
    BY <1>1 DEF HandleFaultInfo, TypeOK
  <2>3. Channel!Accept
    BY <1>0, <2>1, <2>2, AppendEnds DEF Channel!Accept
  <2> QED
    BY <2>3 DEF Channel!Next
<1>2. CASE FlushRetryQueueLocked
  <2>1. Pending = Append(retry_queue, notify.report)
    BY <1>2 DEF FlushRetryQueueLocked, Pending
  <2>2. Pending' = Append(retry_queue', notify.report)
    BY <1>2 DEF FlushRetryQueueLocked, Pending, TypeOK
  <2>3. CASE UNCHANGED <<retry_queue, received>>
    BY <2>1, <2>2, <2>3
  <2>4. CASE retry_queue # <<>> /\ \E ok \in BOOLEAN :
               /\ received' = Append(received, Head(retry_queue))
               /\ retry_queue' = IF ok THEN Tail(retry_queue) ELSE retry_queue
    <3>1. Head(Pending) = Head(retry_queue) /\ Tail(Pending) = Append(Tail(retry_queue), notify.report)
          /\ Pending # <<>>
      <4>1. retry_queue # <<>>
        BY <2>4
      <4> QED
        BY <1>0, <2>1, <4>1, AppendEnds, SMTT(30)
    <3>2. CASE retry_queue' = Tail(retry_queue)
      BY <2>2, <2>4, <3>1, <3>2 DEF Channel!Next, Channel!DeliverOldest
    <3>3. CASE retry_queue' = retry_queue
      BY <2>1, <2>2, <2>4, <3>1, <3>3 DEF Channel!Next, Channel!Unconfirmed
    <3> QED
      BY <2>4, <3>2, <3>3
  <2> QED
    BY <1>2, <2>3, <2>4 DEF FlushRetryQueueLocked, SendFaultRpc, pullpiriVars
<1>3. CASE NotifyFault
  <2>1. Pending = Append(retry_queue, notify.report) /\ Pending' = retry_queue'
    BY <1>3 DEF NotifyFault, Pending, NoCall
  <2>2. /\ Pending # <<>> /\ Len(Pending) = Len(retry_queue) + 1
        /\ Pending[Len(Pending)] = notify.report
        /\ SubSeq(Pending, 1, Len(Pending) - 1) = retry_queue
    BY <1>0, <2>1, AppendEnds, SMTT(30)
  <2>3. CASE /\ received' = Append(received, notify.report)
             /\ retry_queue' = retry_queue
    BY <2>1, <2>2, <2>3 DEF Channel!Next, Channel!DeliverNewest
  <2>4. CASE retry_queue' = EnqueueRetryLocked(notify.report)
    <3>1. \/ Pending' = Pending
          \/ Len(Pending) > kMaxRetryQueue /\ Pending' = Tail(Pending)
      <4>1. CASE Len(retry_queue) >= kMaxRetryQueue
        <5>1. retry_queue # <<>>
          BY <1>0, <4>1
        <5>2. Tail(Pending) = Append(Tail(retry_queue), notify.report)
          BY <1>0, <2>1, <5>1, AppendEnds
        <5>3. Pending' = Append(Tail(retry_queue), notify.report)
          BY <2>1, <2>4, <4>1 DEF EnqueueRetryLocked
        <5>4. Len(Pending) > kMaxRetryQueue
          BY <1>0, <2>2, <4>1
        <5> QED
          BY <5>2, <5>3, <5>4
      <4>2. CASE ~(Len(retry_queue) >= kMaxRetryQueue)
        BY <2>1, <2>4, <4>2 DEF EnqueueRetryLocked
      <4> QED
        BY <4>1, <4>2
    <3>2. received' = received \/ received' = Append(received, notify.report)
      BY <1>3 DEF NotifyFault, SendFaultRpc, pullpiriVars
    <3> QED
      BY <2>2, <3>1, <3>2 DEF Channel!Next, Channel!Unconfirmed, Channel!GiveUpOldest
  <2> QED
    BY <1>3, <2>3, <2>4 DEF NotifyFault, SendFaultRpc
<1>4. CASE UNCHANGED <<clientVars, received>>
  BY <1>4 DEF clientVars, Pending
<1> QED
  BY <1>1, <1>2, <1>3, <1>4
  DEF Next, Fault, RingBufCallback, SendFault, TableReceived, ClearState, UpdateCurrentLimits,
      RegisterTasks, RecoveryStop, Break, Reconnect, PullpiriDown, PullpiriUp, vars, pullpiriVars

(* FaultServiceClient implements FaultChannel, for any bound of the queue   *)
(* and whatever becomes of the RPCs.                                        *)
THEOREM ClientRefinesChannel == Spec => ClientIsChannel
<1>1. Init => Channel!Init
  BY DEF Init, Channel!Init, Pending, NoCall
<1> QED
  BY <1>1, ChannelStep, FaultTyping, PTL DEF Spec, ClientIsChannel, Channel!Spec
-----------------------------------------------------------------------------
Increasing(s) == \A i, j \in 1..Len(s) : i < j => s[i] < s[j]

\* The reports the orchestrator was handed and has not forgotten.
Known == Range(received) \cup Range(Pending)

\* Reports are numbered as they are made, and every stage passes them on in
\* that order: what is behind is newer than what is ahead.
OrderInv ==
  /\ should_report <= Len(made)
  /\ \A k \in Known \cup Range(wire) : k <= Len(made) /\ (should_report # NoReport => k < should_report)
  /\ \A k \in Known, n \in Range(wire) : k < n
  /\ Increasing(wire)
  /\ Increasing(Pending)

\* A fault that is still pending although Pullpiri has it stands for a lost
\* reply that has not led to a repetition yet.
RepeatInv ==
  Len(received) + Cardinality(Range(Pending) \cap Range(received))
    <= Cardinality(Range(received)) + replies_lost

\* Taking the first element of an increasing sequence takes it out of the range.
LEMMA TailOfIncreasing ==
  ASSUME NEW s \in Seq(Nat), s # <<>>, Increasing(s)
  PROVE  /\ Head(s) \in Range(s)
         /\ Tail(s) \in Seq(Nat) /\ Increasing(Tail(s))
         /\ Range(Tail(s)) = Range(s) \ {Head(s)}
<1>1. /\ Len(s) \in Nat \ {0} /\ DOMAIN s = 1..Len(s) /\ Head(s) = s[1]
      /\ Tail(s) \in Seq(Nat) /\ Len(Tail(s)) = Len(s) - 1
      /\ DOMAIN Tail(s) = 1..(Len(s) - 1)
      /\ \A i \in 1..(Len(s) - 1) : Tail(s)[i] = s[i + 1]
      /\ \A i \in 1..Len(s) : s[i] \in Nat
  OBVIOUS
<1>2. Head(s) \in Range(s)
  BY <1>1 DEF Range
<1>3. Increasing(Tail(s))
  BY <1>1 DEF Increasing
<1>4. ASSUME NEW k \in Range(Tail(s)) PROVE k \in Range(s) /\ k # Head(s)
  <2>1. PICK i \in 1..(Len(s) - 1) : k = s[i + 1]
    BY <1>1, <1>4 DEF Range
  <2>2. i + 1 \in 1..Len(s) /\ 1 \in 1..Len(s) /\ 1 < i + 1
    BY <1>1, <2>1
  <2>3. s[1] < s[i + 1]
    BY <2>2 DEF Increasing
  <2> QED
    BY <1>1, <2>1, <2>2, <2>3 DEF Range
<1>5. ASSUME NEW k \in Range(s), k # Head(s) PROVE k \in Range(Tail(s))
  <2>1. PICK i \in 1..Len(s) : k = s[i]
    BY <1>1 DEF Range
  <2>2. i # 1
    BY <1>1, <1>5, <2>1
  <2>3. i - 1 \in 1..(Len(s) - 1) /\ (i - 1) + 1 = i
    BY <1>1, <2>1, <2>2
  <2>4. Tail(s)[i - 1] = k
    BY <1>1, <2>1, <2>3
  <2> QED
    BY <1>1, <2>3, <2>4, Zenon DEF Range
<1> QED
  BY <1>1, <1>2, <1>3, <1>4, <1>5

\* An increasing sequence grows at the end by what is newer than all of it.
LEMMA AppendToIncreasing ==
  ASSUME NEW s \in Seq(Nat), NEW x \in Nat
  PROVE  /\ Range(Append(s, x)) = Range(s) \cup {x}
         /\ Increasing(Append(s, x)) <=> Increasing(s) /\ \A k \in Range(s) : k < x
<1> DEFINE a == Append(s, x)
<1>1. /\ Len(s) \in Nat /\ DOMAIN s = 1..Len(s)
      /\ Len(a) = Len(s) + 1 /\ DOMAIN a = 1..(Len(s) + 1)
      /\ a[Len(s) + 1] = x
      /\ \A i \in 1..Len(s) : a[i] = s[i] /\ s[i] \in Nat
  OBVIOUS
<1> HIDE DEF a
<1>2. Range(a) = Range(s) \cup {x}
  <2>1. \A i \in 1..(Len(s) + 1) : i \in 1..Len(s) \/ i = Len(s) + 1
    BY <1>1
  <2>2. Len(s) + 1 \in 1..(Len(s) + 1) /\ \A i \in 1..Len(s) : i \in 1..(Len(s) + 1)
    BY <1>1
  <2> QED
    BY <1>1, <2>1, <2>2 DEF Range
<1>3. ASSUME Increasing(a) PROVE Increasing(s) /\ \A k \in Range(s) : k < x
  <2>1. Increasing(s)
    BY <1>1, <1>3 DEF Increasing
  <2>2. ASSUME NEW i \in 1..Len(s) PROVE s[i] < x
    BY <1>1, <1>3 DEF Increasing
  <2> QED
    BY <1>1, <2>1, <2>2 DEF Range
<1>4. ASSUME Increasing(s), \A k \in Range(s) : k < x PROVE Increasing(a)
  <2>1. \A i \in 1..Len(s) : s[i] < x
    BY <1>1, <1>4 DEF Range
  <2>2. SUFFICES ASSUME NEW i \in 1..Len(a), NEW j \in 1..Len(a), i < j PROVE a[i] < a[j]
    BY DEF Increasing
  <2>3. i \in 1..Len(s)
    BY <1>1, <2>2
  <2>4. CASE j = Len(s) + 1
    BY <1>1, <2>1, <2>3, <2>4
  <2>5. CASE j \in 1..Len(s)
    BY <1>1, <1>4, <2>2, <2>3, <2>5 DEF Increasing
  <2> QED
    BY <1>1, <2>4, <2>5
<1> QED
  BY <1>2, <1>3, <1>4 DEF a

\* What the client may do with the faults it has: drop some, or deliver one and
\* forget it, or deliver one and lose the reply.
Handles ==
  \/ /\ received' = received
     /\ Range(Pending') \subseteq Range(Pending)
     /\ replies_lost' = replies_lost
  \/ \E x \in Range(Pending) :
       /\ received' = Append(received, x)
       /\ \/ Range(Pending') = Range(Pending) \ {x} /\ replies_lost' = replies_lost
          \/ Range(Pending') \subseteq Range(Pending) /\ replies_lost' = replies_lost + 1

\* Both critical steps of the client do that, and keep what is pending in order.
LEMMA ClientHandles ==
  ASSUME TypeOK, OrderInv, FlushRetryQueueLocked \/ NotifyFault
  PROVE  Handles /\ Increasing(Pending')
<1> USE ConstantsAssumption
<1> DEFINE r == notify.report
<1>1. /\ retry_queue \in Seq(Nat) /\ r \in Nat /\ Len(retry_queue) \in Nat
      /\ Increasing(Pending)
  BY DEF TypeOK, OrderInv
<1>2. Pending = Append(retry_queue, r)
  BY DEF FlushRetryQueueLocked, NotifyFault, Pending
<1>3. /\ Pending \in Seq(Nat) /\ Pending # <<>>
      /\ Range(Pending) = Range(retry_queue) \cup {r}
      /\ Increasing(retry_queue) /\ \A k \in Range(retry_queue) : k < r
  BY <1>1, <1>2, AppendEnds, AppendToIncreasing
<1>4. /\ Increasing(Tail(Pending)) /\ Head(Pending) \in Range(Pending)
      /\ Range(Tail(Pending)) = Range(Pending) \ {Head(Pending)}
  BY <1>1, <1>3, TailOfIncreasing
<1>5. CASE FlushRetryQueueLocked
  <2>1. Pending' = Append(retry_queue', r)
    BY <1>5, Zenon DEF FlushRetryQueueLocked, Pending, TypeOK
  <2>2. CASE UNCHANGED <<retry_queue, pullpiriVars>>
    BY <1>1, <1>2, <2>1, <2>2 DEF Handles, pullpiriVars
  <2>3. ASSUME retry_queue # <<>>, NEW ok \in BOOLEAN, SendFaultRpc(Head(retry_queue), ok),
               retry_queue' = IF ok THEN Tail(retry_queue) ELSE retry_queue
        PROVE  Handles /\ Increasing(Pending')
    <3>1. Head(Pending) = Head(retry_queue) /\ Tail(Pending) = Append(Tail(retry_queue), r)
      BY <1>1, <1>2, <2>3, AppendEnds, SMTT(30)
    <3>2. CASE ok
      <4>1. Pending' = Tail(Pending)
        BY <2>1, <2>3, <3>1, <3>2
      <4>2. received' = Append(received, Head(Pending)) /\ replies_lost' = replies_lost
        BY <2>3, <3>1, <3>2 DEF SendFaultRpc
      <4> QED
        BY <1>4, <4>1, <4>2 DEF Handles
    <3>3. CASE ~ok
      <4>1. Pending' = Pending
        BY <1>2, <2>1, <2>3, <3>3
      <4>2. \/ received' = received /\ replies_lost' = replies_lost
            \/ received' = Append(received, Head(Pending)) /\ replies_lost' = replies_lost + 1
        BY <2>3, <3>1, <3>3 DEF SendFaultRpc, pullpiriVars
      <4> QED
        BY <1>1, <1>4, <4>1, <4>2 DEF Handles
    <3> QED
      BY <3>2, <3>3
  <2> QED
    BY <1>5, <2>2, <2>3 DEF FlushRetryQueueLocked
<1>6. CASE NotifyFault
  <2>1. Pending' = retry_queue'
    BY <1>6 DEF NotifyFault, Pending, NoCall
  <2>2. PICK ok \in BOOLEAN :
          /\ SendFaultRpc(r, ok)
          /\ retry_queue' = IF ok THEN retry_queue ELSE EnqueueRetryLocked(r)
    BY <1>6 DEF NotifyFault
  <2>3. CASE ok
    <3>1. received' = Append(received, r) /\ replies_lost' = replies_lost
      BY <2>2, <2>3 DEF SendFaultRpc
    <3>2. r \notin Range(retry_queue)
      BY <1>1, <1>3
    <3>3. Range(Pending') = Range(Pending) \ {r} /\ r \in Range(Pending)
      BY <1>3, <2>1, <2>2, <2>3, <3>2
    <3> QED
      BY <1>3, <2>1, <2>2, <2>3, <3>1, <3>3 DEF Handles
  <2>4. CASE ~ok
    <3>1. Pending' = Pending \/ Pending' = Tail(Pending)
      <4>1. CASE Len(retry_queue) >= kMaxRetryQueue
        <5>1. retry_queue # <<>>
          BY <1>1, <4>1
        <5>2. Tail(Pending) = Append(Tail(retry_queue), r)
          BY <1>1, <1>2, <5>1, AppendEnds
        <5> QED
          BY <2>1, <2>2, <2>4, <4>1, <5>2 DEF EnqueueRetryLocked
      <4>2. CASE ~(Len(retry_queue) >= kMaxRetryQueue)
        BY <1>2, <2>1, <2>2, <2>4, <4>2 DEF EnqueueRetryLocked
      <4> QED
        BY <4>1, <4>2
    <3>2. Range(Pending') \subseteq Range(Pending) /\ Increasing(Pending')
      BY <1>1, <1>4, <3>1, Zenon
    <3>3. \/ received' = received /\ replies_lost' = replies_lost
          \/ received' = Append(received, r) /\ replies_lost' = replies_lost + 1
      BY <2>2, <2>4 DEF SendFaultRpc, pullpiriVars
    <3>4. r \in Range(Pending)
      BY <1>3
    <3> QED
      BY <3>2, <3>3, <3>4 DEF Handles
  <2> QED
    BY <2>3, <2>4
<1> QED
  BY <1>5, <1>6

\* The report numbers that matter are naturals.
LEMMA KnownTypes ==
  ASSUME TypeOK
  PROVE  /\ Pending \in Seq(Nat) /\ Range(Pending) \subseteq Nat
         /\ Range(received) \subseteq Nat
         /\ Range(wire) \subseteq Nat
<1>1. retry_queue \in Seq(Nat) /\ notify.report \in Nat /\ received \in Seq(Nat) /\ wire \in Seq(Nat)
  BY DEF TypeOK
<1>2. Pending \in Seq(Nat)
  BY <1>1 DEF Pending
<1>3. \A s \in Seq(Nat) : Range(s) \subseteq Nat
  BY DEF Range
<1> QED
  BY <1>1, <1>2, <1>3

\* Every step keeps the reports in the order in which they were made.
LEMMA OrderStep == TypeOK /\ TypeOK' /\ OrderInv /\ [Next]_vars => OrderInv'
<1> SUFFICES ASSUME TypeOK, TypeOK', OrderInv, [Next]_vars PROVE OrderInv'
  OBVIOUS
<1>0. /\ Pending \in Seq(Nat) /\ received \in Seq(Nat) /\ wire \in Seq(Nat)
      /\ Known \subseteq Nat /\ Range(wire) \subseteq Nat
      /\ Len(made) \in Nat /\ should_report \in Nat
  <2>1. Pending \in Seq(Nat) /\ Known \subseteq Nat /\ Range(wire) \subseteq Nat
    BY KnownTypes, Zenon DEF Known
  <2>2. /\ received \in Seq(Nat) /\ wire \in Seq(Nat)
        /\ Len(made) \in Nat /\ should_report \in Nat
    BY DEF TypeOK
  <2> QED
    BY <2>1, <2>2, Zenon
<1>1. CASE RingBufCallback
  <2>1. UNCHANGED <<Known, wire, Pending>> /\ should_report = NoReport
    BY <1>1 DEF RingBufCallback, Known, Pending, clientVars, streamVars, pullpiriVars
  <2>2. \/ Len(made') = Len(made) /\ should_report' = NoReport
        \/ Len(made') = Len(made) + 1 /\ should_report' = Len(made) + 1
    <3>1. \/ made' = made /\ should_report' = NoReport
          \/ \E x : made' = Append(made, x) /\ should_report' = Len(made')
      BY <1>1, Zenon DEF RingBufCallback
    <3>2. \A x : Len(Append(made, x)) = Len(made) + 1
      BY DEF TypeOK
    <3> QED
      BY <3>1, <3>2
  <2>3. should_report' <= Len(made')
    BY <1>0, <2>2 DEF NoReport
  <2>4. \A k \in Known \cup Range(wire) :
          k <= Len(made') /\ (should_report' # NoReport => k < should_report')
    BY <1>0, <2>2 DEF OrderInv, NoReport
  <2> QED
    BY <2>1, <2>3, <2>4 DEF OrderInv
<1>2. CASE SendFault
  <2>1. UNCHANGED <<Known, made, Pending>> /\ should_report # NoReport /\ should_report' = NoReport
    BY <1>2 DEF SendFault, Known, Pending, clientVars, pullpiriVars
  <2>2. wire' = wire \/ wire' = Append(wire, should_report)
    BY <1>2 DEF SendFault
  <2>3. Range(wire') \subseteq Range(wire) \cup {should_report} /\ Increasing(wire')
    <3>1. Increasing(wire) /\ \A k \in Range(wire) : k < should_report
      BY <2>1, Zenon DEF OrderInv
    <3>2. /\ Range(Append(wire, should_report)) = Range(wire) \cup {should_report}
          /\ Increasing(Append(wire, should_report))
      BY <1>0, <3>1, AppendToIncreasing, Zenon
    <3> QED
      BY <2>2, <3>1, <3>2, Zenon
  <2>4. \A k \in Known \cup Range(wire') : k <= Len(made)
    BY <1>0, <2>3 DEF OrderInv
  <2>5. \A k \in Known, n \in Range(wire') : k < n
    BY <2>1, <2>3 DEF OrderInv
  <2>6. should_report' <= Len(made')
    BY <1>0, <2>1 DEF NoReport
  <2> QED
    BY <2>1, <2>3, <2>4, <2>5, <2>6 DEF OrderInv
<1>3. CASE Break
  <2>1. UNCHANGED <<Known, made, Pending, should_report>> /\ wire' = <<>>
    BY <1>3 DEF Break, Known, Pending, clientVars, pullpiriVars, monitorVars
  <2>2. Range(wire') = {} /\ Increasing(wire')
    BY <2>1 DEF Range, Increasing
  <2> QED
    BY <2>1, <2>2 DEF OrderInv
<1>4. CASE HandleFaultInfo
  <2>1. /\ wire # <<>> /\ wire' = Tail(wire) /\ UNCHANGED <<made, should_report, received>>
        /\ Pending = retry_queue /\ Pending' = Append(retry_queue, Head(wire))
    BY <1>4 DEF HandleFaultInfo, Pending, monitorVars, pullpiriVars
  <2>2. /\ Head(wire) \in Range(wire) /\ Increasing(wire')
        /\ Range(wire') = Range(wire) \ {Head(wire)}
    BY <1>0, <2>1, TailOfIncreasing DEF OrderInv
  <2>3. Head(wire) \in Nat /\ \A k \in Known : k < Head(wire)
    BY <1>0, <2>2 DEF OrderInv
  <2>4. Range(Pending') = Range(Pending) \cup {Head(wire)} /\ Increasing(Pending')
    <3>1. Pending' = Append(Pending, Head(wire))
      BY <2>1
    <3>2. Increasing(Pending) /\ \A k \in Range(Pending) : k < Head(wire)
      BY <2>3 DEF OrderInv, Known
    <3> QED
      BY <1>0, <2>3, <3>1, <3>2, AppendToIncreasing
  <2>5. Known' = Known \cup {Head(wire)}
    BY <2>1, <2>4 DEF Known
  <2>6. \A n \in Range(wire') : Head(wire) < n
    <3>1. Head(wire) = wire[1] /\ DOMAIN wire = 1..Len(wire) /\ 1 \in 1..Len(wire)
      BY <1>0, <2>1
    <3>2. ASSUME NEW n \in Range(wire), n # Head(wire) PROVE Head(wire) < n
      <4>1. PICK i \in 1..Len(wire) : n = wire[i]
        BY <3>1, <3>2 DEF Range
      <4>2. 1 < i
        BY <3>1, <3>2, <4>1
      <4> QED
        BY <3>1, <4>1, <4>2 DEF OrderInv, Increasing
    <3> QED
      BY <2>2, <3>2
  <2>7. \A k \in Known', n \in Range(wire') : k < n
    BY <2>2, <2>5, <2>6 DEF OrderInv
  <2>8. Known' \cup Range(wire') \subseteq Known \cup Range(wire)
    BY <2>2, <2>5
  <2> QED
    BY <2>1, <2>2, <2>4, <2>7, <2>8 DEF OrderInv
<1>5. CASE FlushRetryQueueLocked \/ NotifyFault
  <2>1. UNCHANGED <<made, should_report, wire>>
    BY <1>5 DEF FlushRetryQueueLocked, NotifyFault, monitorVars, streamVars
  <2>2. Handles /\ Increasing(Pending')
    BY <1>5, ClientHandles
  <2>3. \A x \in Range(Pending) : Range(Append(received, x)) = Range(received) \cup {x}
    BY <1>0, KnownTypes, AppendToIncreasing
  <2>4. Known' \subseteq Known
    BY <2>2, <2>3, ZenonT(60) DEF Handles, Known
  <2> QED
    BY <2>1, <2>2, <2>4 DEF OrderInv
<1>6. CASE UNCHANGED <<made, should_report, wire, notify, retry_queue, received>>
  BY <1>6 DEF OrderInv, Known, Pending
<1> QED
  BY <1>1, <1>2, <1>3, <1>4, <1>5, <1>6, Zenon
  DEF Next, Fault, TableReceived, ClearState, UpdateCurrentLimits, RegisterTasks, RecoveryStop,
      Reconnect, PullpiriDown, PullpiriUp, vars, kernelVars, monitorVars, streamVars, clientVars,
      pullpiriVars

\* Every step keeps the account of repetitions and lost replies.
LEMMA RepeatStep == TypeOK /\ TypeOK' /\ OrderInv /\ RepeatInv /\ [Next]_vars => RepeatInv'
<1> SUFFICES ASSUME TypeOK, TypeOK', OrderInv, RepeatInv, [Next]_vars PROVE RepeatInv'
  OBVIOUS
<1> DEFINE P == Range(Pending)
           R == Range(received)
           Q == Range(Pending')
<1>0. /\ Pending \in Seq(Nat) /\ P \subseteq Nat /\ received \in Seq(Nat) /\ R \subseteq Nat
      /\ Len(received) \in Nat /\ replies_lost \in Nat
  <2>1. Pending \in Seq(Nat) /\ P \subseteq Nat /\ R \subseteq Nat
    BY KnownTypes, ZenonT(60)
  <2>2. received \in Seq(Nat) /\ Len(received) \in Nat /\ replies_lost \in Nat
    BY ConstantsAssumption DEF TypeOK
  <2> QED
    BY <2>1, <2>2, Zenon
<1>1. IsFiniteSet(R) /\ Cardinality(R) \in Nat
  <2>1. \A k \in R : k <= Len(made)
    BY DEF OrderInv, Known
  <2>2. Len(made) \in Nat
    BY DEF TypeOK
  <2> QED
    BY <1>0, <2>1, <2>2, FS_BoundedSetOfNaturals, FS_CardinalityType, Zenon
<1>2. \A A, B : A \subseteq R /\ B \subseteq A =>
         /\ IsFiniteSet(A) /\ Cardinality(A) \in Nat /\ Cardinality(B) \in Nat
         /\ Cardinality(B) <= Cardinality(A)
  <2> SUFFICES ASSUME NEW A, NEW B, A \subseteq R, B \subseteq A
               PROVE  /\ IsFiniteSet(A) /\ Cardinality(A) \in Nat /\ Cardinality(B) \in Nat
                      /\ Cardinality(B) <= Cardinality(A)
    OBVIOUS
  <2>1. IsFiniteSet(A)
    BY <1>1, FS_Subset
  <2>2. IsFiniteSet(B) /\ Cardinality(B) <= Cardinality(A)
    BY <2>1, FS_Subset
  <2> QED
    BY <2>1, <2>2, FS_CardinalityType
<1>3. Len(received) + Cardinality(P \cap R) <= Cardinality(R) + replies_lost
  BY DEF RepeatInv
<1>4. CASE HandleFaultInfo
  <2>1. /\ wire # <<>> /\ UNCHANGED <<received, replies_lost>>
        /\ Pending' = Append(Pending, Head(wire))
    BY <1>4 DEF HandleFaultInfo, Pending, pullpiriVars
  <2>2. Head(wire) \in Nat /\ Head(wire) \in Range(wire)
    BY <2>1, TailOfIncreasing, KnownTypes, Zenon DEF OrderInv, TypeOK
  <2>3. Head(wire) \notin R
    <3>1. \A k \in R : k < Head(wire)
      BY <2>2 DEF OrderInv, Known
    <3> QED
      BY <2>2, <3>1
  <2>4. Q = P \cup {Head(wire)}
    BY <1>0, <2>1, <2>2, AppendToIncreasing
  <2>5. Q \cap R = P \cap R
    BY <2>3, <2>4
  <2> QED
    BY <1>3, <2>1, <2>5, Zenon DEF RepeatInv
<1>5. CASE FlushRetryQueueLocked \/ NotifyFault
  <2>1. CASE received' = received /\ Q \subseteq P /\ replies_lost' = replies_lost
    <3>1. Cardinality(Q \cap R) <= Cardinality(P \cap R) /\ Cardinality(Q \cap R) \in Nat
          /\ Cardinality(P \cap R) \in Nat
      BY <1>2, <2>1
    <3>2. Len(received) + Cardinality(Q \cap R) <= Cardinality(R) + replies_lost
      BY <1>0, <1>1, <1>3, <3>1
    <3> QED
      BY <2>1, <3>2 DEF RepeatInv
  <2>2. ASSUME NEW x \in P, received' = Append(received, x), Q \subseteq P,
               \/ Q = P \ {x} /\ replies_lost' = replies_lost
               \/ replies_lost' = replies_lost + 1
        PROVE  RepeatInv'
    <3>1. Len(received') = Len(received) + 1 /\ Range(received') = R \cup {x}
      BY <1>0, <2>2, AppendToIncreasing
    <3>2. SUFFICES Len(received) + 1 + Cardinality(Q \cap (R \cup {x}))
                     <= Cardinality(R \cup {x}) + replies_lost'
      BY <3>1 DEF RepeatInv
    <3> HIDE DEF P, Q, R
    <3>3. Cardinality(P \cap R) \in Nat /\ Cardinality(Q \cap R) \in Nat
          /\ Cardinality(Q \cap R) <= Cardinality(P \cap R) /\ IsFiniteSet(P \cap R)
          /\ IsFiniteSet(Q \cap R)
      BY <1>2, <2>2
    <3>4. CASE x \in R
      <4>1. /\ Cardinality(R \cup {x}) = Cardinality(R)
            /\ Cardinality(Q \cap (R \cup {x})) = Cardinality(Q \cap R)
        <5>1. R \cup {x} = R
          BY <3>4
        <5> QED
          BY <5>1, Zenon
      <4>2. CASE Q = P \ {x} /\ replies_lost' = replies_lost
        <5>1. Q \cap R = (P \cap R) \ {x} /\ x \in P \cap R
          BY <2>2, <3>4, <4>2
        <5>2. Cardinality(Q \cap R) = Cardinality(P \cap R) - 1
          BY <3>3, <5>1, FS_RemoveElement, Zenon
        <5> QED
          BY <1>0, <1>1, <1>3, <3>3, <4>1, <4>2, <5>2
      <4>3. CASE replies_lost' = replies_lost + 1
        BY <1>0, <1>1, <1>3, <3>3, <4>1, <4>3
      <4> QED
        BY <2>2, <4>2, <4>3
    <3>5. CASE x \notin R
      <4>1. Cardinality(R \cup {x}) = Cardinality(R) + 1
        BY <1>1, <3>5, FS_AddElement, Zenon
      <4>2. CASE Q = P \ {x} /\ replies_lost' = replies_lost
        <5>1. Q \cap (R \cup {x}) = P \cap R
          BY <3>5, <4>2
        <5>2. Cardinality(Q \cap (R \cup {x})) = Cardinality(P \cap R)
          BY <5>1, Zenon
        <5> QED
          BY <1>0, <1>1, <1>3, <3>3, <4>1, <4>2, <5>2
      <4>3. CASE replies_lost' = replies_lost + 1
        <5>1. \/ Q \cap (R \cup {x}) = Q \cap R
              \/ Q \cap (R \cup {x}) = (Q \cap R) \cup {x}
          OBVIOUS
        <5>2. Cardinality((Q \cap R) \cup {x}) = Cardinality(Q \cap R) + 1
          BY <3>3, <3>5, FS_AddElement, Zenon
        <5>3. /\ Cardinality(Q \cap (R \cup {x})) \in Nat
              /\ Cardinality(Q \cap (R \cup {x})) <= Cardinality(P \cap R) + 1
          BY <3>3, <5>1, <5>2
        <5> QED
          BY <1>0, <1>1, <1>3, <3>3, <4>1, <4>3, <5>3, SMTT(30)
      <4> QED
        BY <2>2, <4>2, <4>3
    <3> QED
      BY <3>4, <3>5
  <2>3. Handles
    BY <1>5, ClientHandles
  <2> QED
    BY <2>1, <2>2, <2>3 DEF Handles
<1>6. CASE UNCHANGED <<notify, retry_queue, received, replies_lost>>
  BY <1>6 DEF RepeatInv, Pending
<1> QED
  BY <1>4, <1>5, <1>6, Zenon
  DEF Next, Fault, RingBufCallback, SendFault, TableReceived, ClearState, UpdateCurrentLimits,
      RegisterTasks, RecoveryStop, Break, Reconnect, PullpiriDown, PullpiriUp, vars, clientVars,
      pullpiriVars

(* Pullpiri gets a fault a second time only when the reply to an earlier    *)
(* RPC was lost: for any tasks, tables and length of the retry queue, the   *)
(* repetitions are never more than the lost replies.                        *)
THEOREM RepeatsAccountedFor == Spec => []RepeatsNeedLostReplies
<1>1. Init => OrderInv /\ RepeatInv
  <2>1. ASSUME Init PROVE Range(received) = {} /\ Range(Pending) = {} /\ Range(wire) = {}
                          /\ Len(received) = 0
    BY <2>1 DEF Init, Pending, NoCall, Range
  <2>2. ASSUME Init PROVE OrderInv
    <3>1. Increasing(wire) /\ Increasing(Pending)
      BY <2>2 DEF Init, Pending, NoCall, Increasing
    <3>2. should_report <= Len(made)
      BY <2>2 DEF Init, NoReport
    <3> QED
      BY <2>1, <2>2, <3>1, <3>2 DEF OrderInv, Known
  <2>3. ASSUME Init PROVE RepeatInv
    <3>1. Cardinality({}) = 0 /\ {} \cap {} = {}
      BY FS_EmptySet
    <3>2. replies_lost = 0
      BY <2>3 DEF Init
    <3>3. /\ Len(received) = 0 /\ Cardinality(Range(received)) = 0
          /\ Cardinality(Range(Pending) \cap Range(received)) = 0
      BY <2>1, <2>3, <3>1, Zenon
    <3> QED
      BY <3>2, <3>3 DEF RepeatInv
  <2> QED
    BY <2>2, <2>3
<1>2. TypeOK /\ OrderInv /\ RepeatInv => RepeatsNeedLostReplies
  <2> SUFFICES ASSUME TypeOK, OrderInv, RepeatInv PROVE RepeatsNeedLostReplies
    OBVIOUS
  <2> DEFINE R == Range(received)
  <2>1. R \subseteq Nat /\ Len(made) \in Nat /\ \A k \in R : k <= Len(made)
    BY KnownTypes DEF OrderInv, Known, TypeOK
  <2>2. IsFiniteSet(R)
    BY <2>1, FS_BoundedSetOfNaturals, Zenon
  <2>3. Cardinality(Range(Pending) \cap R) \in Nat /\ Cardinality(R) \in Nat
    BY <2>2, FS_Subset, FS_CardinalityType
  <2>4. Len(received) \in Nat /\ replies_lost \in Nat
    BY ConstantsAssumption DEF TypeOK
  <2> QED
    BY <2>3, <2>4 DEF RepeatInv, RepeatsNeedLostReplies
<1> QED
  BY <1>1, <1>2, OrderStep, RepeatStep, FaultTyping, PTL DEF Spec
=============================================================================
