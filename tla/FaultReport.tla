---------------------------- MODULE FaultReport ----------------------------
(***************************************************************************)
(* How a deadline miss on a node becomes a fault Pullpiri knows of.        *)
(*                                                                         *)
(*   BPF scheduler       puts a FaultEvent into fault_ringbuf              *)
(*   FaultMonitor        its poll thread counts misses against the limits  *)
(*                       of the table and decides what is reported         *)
(*   table callback      on the stream thread: resets the monitor, sets    *)
(*                       the limits of the new table, registers its tasks  *)
(*   NodeClient          send_fault() on the node's stream                 *)
(*   FaultServiceClient  in the orchestrator: NotifyFault RPCs to Pullpiri *)
(*                       and the queue of those that failed                *)
(*                                                                         *)
(* The names, hashes and times a fault carries are left out.               *)
(***************************************************************************)
EXTENDS Naturals, Sequences, FiniteSets, Functions

CONSTANTS
  Tasks,
  Workload,         \* workload of every task
  Tables,           \* the tables the node may be sent: limit of every task in it
  kMaxRetryQueue,
  MaxFaults,        \* bound: events in the ring buffer, ever
  MaxTables,        \* bound: tables the node is sent
  MaxBreaks         \* bound: breaks of the stream, and replies of Pullpiri that are lost

Types == {"DMISS", "BUDGET_EXCEED"}

ASSUME ConstantsAssumption ==
  /\ \A table \in Tables : DOMAIN table \subseteq Tasks /\ \A t \in DOMAIN table : table[t] \in Nat
  /\ kMaxRetryQueue \in Nat \ {0}
  /\ MaxFaults \in Nat
  /\ MaxTables \in Nat
  /\ MaxBreaks \in Nat

VARIABLES
  \* --- the kernel
  registered,            \* tasks with meta data: the ones that can fault
  fault_ringbuf,         \* events not read yet, oldest first
  faults,                \* history: number of events so far
  \* --- FaultMonitor, under dmiss_mutex_
  task_dmiss_counts, task_current_limits, workload_reported,
  cycle,                 \* history: number of clear_state() calls
  should_report,         \* poll thread: the event it is about to send, if any
  made,                  \* history: every report made so far
  \* --- the table callback
  table_pc, table, tables,
  \* --- the stream of the node
  connected, wire, breaks,
  \* --- FaultServiceClient, under mutex_
  notify,                \* the NotifyFault call that holds the mutex
  retry_queue,
  \* --- Pullpiri
  pullpiri_up,           \* it can be reached and accepts what it gets
  received,              \* history: what NotifyFault RPCs brought, in order
  replies_lost           \* history: RPCs received whose reply was no success

kernelVars == <<registered, fault_ringbuf, faults>>
monitorVars == <<task_dmiss_counts, task_current_limits, workload_reported,
                 cycle, should_report, made>>
tableVars == <<table_pc, table, tables>>
streamVars == <<connected, wire, breaks>>
clientVars == <<notify, retry_queue>>
pullpiriVars == <<pullpiri_up, received, replies_lost>>
vars == <<kernelVars, monitorVars, tableVars, streamVars, clientVars, pullpiriVars>>

NoLimits == [t \in Tasks |-> 0]
NoReport == 0
NoCall == [at |-> "idle", report |-> NoReport]

Init ==
  /\ registered = {}
  /\ fault_ringbuf = <<>>
  /\ faults = 0
  /\ task_dmiss_counts = [t \in Tasks |-> 0]
  /\ task_current_limits = NoLimits
  /\ workload_reported = {}
  /\ cycle = 0
  /\ should_report = NoReport
  /\ made = <<>>
  /\ table_pc = "idle"
  /\ table = <<>>
  /\ tables = 0
  /\ connected = TRUE
  /\ wire = <<>>
  /\ breaks = 0
  /\ notify = NoCall
  /\ retry_queue = <<>>
  /\ pullpiri_up = TRUE
  /\ received = <<>>
  /\ replies_lost = 0

-----------------------------------------------------------------------------
(* The kernel: stopping() submits an event *)

Fault(t, type) ==
  /\ faults < MaxFaults
  /\ t \in registered
  /\ faults' = faults + 1
  /\ fault_ringbuf' = Append(fault_ringbuf, [task |-> t, type |-> type])
  /\ UNCHANGED <<registered, monitorVars, tableVars, streamVars, clientVars, pullpiriVars>>

-----------------------------------------------------------------------------
(* FaultMonitor::ring_buf_callback, on the poll thread *)

Report(event) ==
  [workload |-> Workload[event.task], type |-> event.type, cycle |-> cycle]

\* Seeded fault: the guard against a second report is not set.
RingBufCallbackRepeats ==
  /\ should_report = NoReport
  /\ fault_ringbuf # <<>>
  /\ fault_ringbuf' = Tail(fault_ringbuf)
  /\ LET event == Head(fault_ringbuf)
         t == event.task
         count == task_dmiss_counts[t] + 1
         over == event.type = "DMISS" => count > task_current_limits[t] /\ task_current_limits[t] > 0
     IN /\ task_dmiss_counts' = IF event.type = "DMISS" THEN [task_dmiss_counts EXCEPT ![t] = count]
                                                        ELSE task_dmiss_counts
        /\ made' = IF over THEN Append(made, Report(event)) ELSE made
        /\ should_report' = IF over THEN Len(made') ELSE NoReport
  /\ UNCHANGED <<registered, faults, task_current_limits, workload_reported, cycle,
                 tableVars, streamVars, clientVars, pullpiriVars>>

\* The decision, in one critical section; what it decides to report is sent
\* after the lock is released.
RingBufCallback ==
  /\ should_report = NoReport
  /\ fault_ringbuf # <<>>
  /\ fault_ringbuf' = Tail(fault_ringbuf)
  /\ LET event == Head(fault_ringbuf)
         t == event.task
         w == Workload[t]
         miss == event.type = "DMISS"
         count == task_dmiss_counts[t] + 1
         over == task_current_limits[t] > 0 /\ count > task_current_limits[t]
         report == miss => over /\ w \notin workload_reported
     IN /\ task_dmiss_counts' = IF miss THEN [task_dmiss_counts EXCEPT ![t] = count]
                                        ELSE task_dmiss_counts
        /\ workload_reported' = IF miss /\ over THEN workload_reported \cup {w}
                                                ELSE workload_reported
        /\ made' = IF report THEN Append(made, Report(event)) ELSE made
        /\ should_report' = IF report THEN Len(made') ELSE NoReport
  /\ UNCHANGED <<registered, faults, task_current_limits, cycle,
                 tableVars, streamVars, clientVars, pullpiriVars>>

\* The fault callback: send_fault() drops the fault unless the stream is up.
SendFault ==
  /\ should_report # NoReport
  /\ wire' = IF connected THEN Append(wire, should_report) ELSE wire
  /\ should_report' = NoReport
  /\ UNCHANGED <<kernelVars, task_dmiss_counts, task_current_limits, workload_reported, cycle,
                 made, tableVars, connected, breaks, clientVars, pullpiriVars>>

-----------------------------------------------------------------------------
(* The table callback, on the stream thread *)

\* Tasks of workloads that are not in the new table are taken out of the
\* scheduler; the others stay, and may fault at any time.
TableReceived(new) ==
  /\ table_pc = "idle"
  /\ connected
  /\ tables < MaxTables
  /\ tables' = tables + 1
  /\ table' = new
  /\ table_pc' = "clear"
  /\ registered' = {t \in registered : \E u \in DOMAIN new : Workload[u] = Workload[t]}
  /\ UNCHANGED <<fault_ringbuf, faults, monitorVars, streamVars, clientVars, pullpiriVars>>

ClearState ==
  /\ table_pc = "clear"
  /\ table_pc' = "limits"
  /\ task_dmiss_counts' = [t \in Tasks |-> 0]
  /\ task_current_limits' = NoLimits
  /\ workload_reported' = {}
  /\ cycle' = cycle + 1
  /\ UNCHANGED <<kernelVars, should_report, made, table, tables, streamVars, clientVars,
                 pullpiriVars>>

UpdateCurrentLimits ==
  /\ table_pc = "limits"
  /\ table_pc' = "register"
  /\ task_current_limits' = [t \in Tasks |-> IF t \in DOMAIN table THEN table[t] ELSE 0]
  /\ UNCHANGED <<kernelVars, task_dmiss_counts, workload_reported, cycle, should_report, made,
                 table, tables, streamVars, clientVars, pullpiriVars>>

\* The tasks whose process is found are handed to the scheduler.
RegisterTasks(found) ==
  /\ table_pc = "register"
  /\ found \subseteq DOMAIN table
  /\ table_pc' = "idle"
  /\ table' = <<>>
  /\ registered' = registered \cup found
  /\ UNCHANGED <<fault_ringbuf, faults, monitorVars, tables, streamVars, clientVars, pullpiriVars>>

\* The recovery callback: a STOP takes a workload out of the scheduler and
\* leaves the monitor alone.
RecoveryStop(w) ==
  /\ table_pc = "idle"
  /\ connected
  /\ \E t \in registered : Workload[t] = w
  /\ registered' = {t \in registered : Workload[t] # w}
  /\ UNCHANGED <<fault_ringbuf, faults, monitorVars, tableVars, streamVars, clientVars,
                 pullpiriVars>>

-----------------------------------------------------------------------------
(* The stream of the node *)

\* The stream breaks; events under way are lost.
Break ==
  /\ connected
  /\ breaks < MaxBreaks
  /\ breaks' = breaks + 1
  /\ connected' = FALSE
  /\ wire' = <<>>
  /\ UNCHANGED <<kernelVars, monitorVars, tableVars, clientVars, pullpiriVars>>

Reconnect ==
  /\ ~connected
  /\ connected' = TRUE
  /\ UNCHANGED <<kernelVars, monitorVars, tableVars, wire, breaks, clientVars, pullpiriVars>>

-----------------------------------------------------------------------------
(* FaultServiceClient: NotifyFault holds mutex_ from beginning to end, also *)
(* over its RPCs                                                            *)

\* One RPC: it succeeds, does not reach Pullpiri, or reaches Pullpiri and comes
\* back as a failure.
SendFaultRpc(report, ok) ==
  \/ /\ ok
     /\ pullpiri_up
     /\ received' = Append(received, report)
     /\ UNCHANGED <<pullpiri_up, replies_lost>>
  \/ /\ ~ok
     /\ ~pullpiri_up
     /\ UNCHANGED pullpiriVars
  \/ /\ ~ok
     /\ pullpiri_up
     /\ replies_lost < MaxBreaks
     /\ received' = Append(received, report)
     /\ pullpiri_up' = FALSE
     /\ replies_lost' = replies_lost + 1

EnqueueRetryLocked(report) ==
  Append(IF Len(retry_queue) >= kMaxRetryQueue THEN Tail(retry_queue) ELSE retry_queue, report)

\* The stream handler reads the event and calls NotifyFault.
HandleFaultInfo ==
  /\ wire # <<>>
  /\ notify.at = "idle"
  /\ notify' = [at |-> "flush", report |-> Head(wire)]
  /\ wire' = Tail(wire)
  /\ UNCHANGED <<kernelVars, monitorVars, tableVars, connected, breaks, retry_queue, pullpiriVars>>

\* Seeded fault: the flush gives up after one fault.
FlushRetryQueueLockedOnce ==
  /\ notify.at = "flush"
  /\ \/ /\ retry_queue = <<>>
        /\ UNCHANGED <<retry_queue, pullpiriVars>>
     \/ /\ retry_queue # <<>>
        /\ \E ok \in BOOLEAN :
             /\ SendFaultRpc(Head(retry_queue), ok)
             /\ retry_queue' = IF ok THEN Tail(retry_queue) ELSE retry_queue
  /\ notify' = [notify EXCEPT !.at = "send"]
  /\ UNCHANGED <<kernelVars, monitorVars, tableVars, streamVars>>

\* Seeded fault: a fault stays queued although it was sent.
FlushRetryQueueLockedKeeps ==
  /\ notify.at = "flush"
  /\ \/ /\ retry_queue = <<>>
        /\ UNCHANGED pullpiriVars
     \/ /\ retry_queue # <<>>
        /\ \E ok \in BOOLEAN : SendFaultRpc(Head(retry_queue), ok)
  /\ notify' = [notify EXCEPT !.at = "send"]
  /\ UNCHANGED <<kernelVars, monitorVars, tableVars, streamVars, retry_queue>>

\* Seeded fault: the flush takes the newest of the queued faults first.
FlushRetryQueueLockedLifo ==
  /\ notify.at = "flush"
  /\ \/ /\ retry_queue = <<>>
        /\ notify' = [notify EXCEPT !.at = "send"]
        /\ UNCHANGED <<retry_queue, pullpiriVars>>
     \/ /\ retry_queue # <<>>
        /\ \E ok \in BOOLEAN :
             /\ SendFaultRpc(retry_queue[Len(retry_queue)], ok)
             /\ retry_queue' = IF ok THEN SubSeq(retry_queue, 1, Len(retry_queue) - 1) ELSE retry_queue
             /\ notify' = IF ok THEN notify ELSE [notify EXCEPT !.at = "send"]
  /\ UNCHANGED <<kernelVars, monitorVars, tableVars, streamVars>>

\* One turn of the flush: the oldest fault first, and it stays in the queue
\* until it is sent.
FlushRetryQueueLocked ==
  /\ notify.at = "flush"
  /\ \/ /\ retry_queue = <<>>
        /\ notify' = [notify EXCEPT !.at = "send"]
        /\ UNCHANGED <<retry_queue, pullpiriVars>>
     \/ /\ retry_queue # <<>>
        /\ \E ok \in BOOLEAN :
             /\ SendFaultRpc(Head(retry_queue), ok)
             /\ retry_queue' = IF ok THEN Tail(retry_queue) ELSE retry_queue
             /\ notify' = IF ok THEN notify ELSE [notify EXCEPT !.at = "send"]
  /\ UNCHANGED <<kernelVars, monitorVars, tableVars, streamVars>>

\* The new fault is tried whatever became of the flush.
NotifyFault ==
  /\ notify.at = "send"
  /\ \E ok \in BOOLEAN :
       /\ SendFaultRpc(notify.report, ok)
       /\ retry_queue' = IF ok THEN retry_queue ELSE EnqueueRetryLocked(notify.report)
  /\ notify' = NoCall
  /\ UNCHANGED <<kernelVars, monitorVars, tableVars, streamVars>>

\* Pullpiri goes away, or is there again.
PullpiriDown ==
  /\ pullpiri_up
  /\ pullpiri_up' = FALSE
  /\ UNCHANGED <<kernelVars, monitorVars, tableVars, streamVars, clientVars, received, replies_lost>>

PullpiriUp ==
  /\ ~pullpiri_up
  /\ pullpiri_up' = TRUE
  /\ UNCHANGED <<kernelVars, monitorVars, tableVars, streamVars, clientVars, received, replies_lost>>

-----------------------------------------------------------------------------
Next ==
  \/ \E t \in Tasks, type \in Types : Fault(t, type)
  \/ RingBufCallback \/ SendFault
  \/ \E new \in Tables : TableReceived(new)
  \/ ClearState \/ UpdateCurrentLimits
  \/ \E found \in SUBSET Tasks : RegisterTasks(found)
  \/ \E w \in {Workload[t] : t \in Tasks} : RecoveryStop(w)
  \/ Break \/ Reconnect
  \/ HandleFaultInfo \/ FlushRetryQueueLocked \/ NotifyFault
  \/ PullpiriDown \/ PullpiriUp

Spec == Init /\ [][Next]_vars

\* The poll thread runs, the stream handler runs, and an RPC returns.  Nothing
\* is assumed of the tasks, the tables, the stream or Pullpiri.
Fairness ==
  /\ WF_vars(RingBufCallback)
  /\ WF_vars(SendFault)
  /\ WF_vars(HandleFaultInfo)
  /\ WF_vars(FlushRetryQueueLocked)
  /\ WF_vars(NotifyFault)

FairSpec == Spec /\ Fairness

-----------------------------------------------------------------------------
Reports == 1..Len(made)

TypeOK ==
  /\ registered \subseteq Tasks
  /\ fault_ringbuf \in Seq([task : Tasks, type : Types])
  /\ faults \in 0..MaxFaults
  /\ task_dmiss_counts \in [Tasks -> Nat]
  /\ task_current_limits \in [Tasks -> Nat]
  /\ workload_reported \subseteq {Workload[t] : t \in Tasks}
  /\ cycle \in Nat
  /\ made \in Seq([workload : {Workload[t] : t \in Tasks}, type : Types, cycle : Nat])
  /\ should_report \in Nat
  /\ table_pc \in {"idle", "clear", "limits", "register"}
  /\ table \in Tables \cup {<<>>}
  /\ tables \in 0..MaxTables
  /\ connected \in BOOLEAN
  /\ wire \in Seq(Nat)
  /\ breaks \in 0..MaxBreaks
  /\ notify \in [at : {"idle", "flush", "send"}, report : Nat]
  /\ retry_queue \in Seq(Nat)
  /\ Len(retry_queue) <= kMaxRetryQueue
  /\ pullpiri_up \in BOOLEAN
  /\ received \in Seq(Nat)
  /\ replies_lost \in 0..MaxBreaks

\* A workload's misses are reported once between two resets of the monitor,
\* however many of its tasks are over their limits and however the reset falls
\* between the decision and the sending.
OneReportPerCycle ==
  \A i, j \in Reports :
    /\ made[i].type = "DMISS" /\ made[j].type = "DMISS"
    /\ made[i].workload = made[j].workload
    /\ made[i].cycle = made[j].cycle
    => i = j

\* Pullpiri gets a fault twice only when the reply to the first RPC was lost.
RepeatsNeedLostReplies ==
  Len(received) <= Cardinality(Range(received)) + replies_lost

\* A fault that comes in while Pullpiri can be reached takes the whole queue
\* with it: no queued fault stays behind.
FlushedByNextFault ==
  notify.at = "flush" ~> retry_queue = <<>> \/ ~pullpiri_up

-----------------------------------------------------------------------------
(* What the orchestrator promises for the faults it is handed *)

\* The fault being notified stands behind the queue.
Pending == IF notify.at = "idle" THEN retry_queue ELSE Append(retry_queue, notify.report)

Channel == INSTANCE FaultChannel
  WITH pending <- Pending, delivered <- received, Capacity <- kMaxRetryQueue

\* FaultServiceClient is a bounded at-least-once channel: whatever fails in
\* whichever RPC, faults are delivered oldest first except that a new one may go
\* ahead of the queue, and only the oldest is given up, for want of room.
ClientIsChannel == Channel!Spec
=============================================================================
