------------------------ MODULE NodeExecutor_proofs ------------------------
(* Proofs about NodeExecutor, for every value of its constants. *)
EXTENDS NodeExecutor, TLAPS

(* The entries of the table that have been visited. *)
Visited == {i \in 1..Len(table) : next = 0 \/ i < next}

(* A pid belongs to one task for good, and the pids a workload is credited  *)
(* with are those of its tasks.                                             *)
PidInv ==
  /\ \A t, u \in Tasks : proc[t] # NoPid /\ proc[t] = proc[u] => t = u
  /\ \A t \in Tasks : proc[t] # NoPid => proc[t] <= started
  /\ \A m \in task_meta : m.pid <= started /\ \A t \in Tasks : proc[t] = m.pid => t = m.task
  /\ \A w \in Workloads : \A p \in workload_to_pids[w] :
       /\ p <= started
       /\ \A m \in task_meta : m.pid = p => Workload[m.task] = w
       /\ \A t \in Tasks : proc[t] = p => Workload[t] = w

(* The keys a workload is credited with are older than the next one, and    *)
(* lead to entries of its tasks unless an update failed.                    *)
KeyInv ==
  /\ \A w \in Workloads : \A k \in workload_to_slots[w] : k[2] < slot_idx
  /\ \A w \in Workloads : \A t \in workload_to_cbs_keys[w] : Workload[t] = w
  /\ apply_success => \A w \in Workloads : \A s \in tt_table :
                        s.key \in workload_to_slots[w] => Workload[s.task] = w

(* A visited entry is complete as long as nothing failed. *)
Complete(t) ==
  LET w == Workload[t]
  IN  /\ \E m \in task_meta : /\ m.task = t /\ m.pid \in workload_to_pids[w]
                              /\ m.pid \in sched_ext \cup refused
      /\ w \in workload_to_hash
      /\ t \in TtTasks =>
           /\ next = 0 => t \in slot_table
           /\ \E s \in tt_table : s.task = t /\ s.key \in workload_to_slots[w]
      /\ t \in CbsTasks => t \in cbs_map \cap workload_to_cbs_keys[w]

CompleteInv ==
  /\ next # 0 => stopped = {}
  /\ apply_success => \A i \in Visited :
       LET t == table[i].task
       IN  /\ Workload[t] \in workload_hash_to_id
           /\ Workload[t] \notin stopped => Complete(t)

(* What a table left, if no table failed so far, is credited to a workload  *)
(* of the table, so that the next table or a STOP finds it.                 *)
Current(t) == Workload[t] \notin stopped /\ \E i \in Visited : table[i].task = t

CreditInv ==
  /\ next = 0 /\ clean => apply_success
  /\ clean /\ apply_success =>
       /\ \A s \in tt_table : Current(s.task) /\ s.key \in workload_to_slots[Workload[s.task]]
       /\ \A t \in cbs_map : Current(t) /\ t \in workload_to_cbs_keys[Workload[t]]
       /\ next = 0 => \A t \in slot_table : Current(t) /\ Workload[t] \in workload_to_hash

(* The process of a visited task that lives and has meta data is credited   *)
(* to a workload that can be resolved, whatever failed before: TT tasks are *)
(* tracked even if an update of theirs fails, CBS tasks only if none does.  *)
TrackInv ==
  /\ \A w \in Workloads : workload_to_pids[w] # {} => w \in workload_hash_to_id
  /\ \A m \in task_meta :
       /\ \E i \in Visited : table[i].task = m.task
       /\ proc[m.task] = m.pid
       /\ m.task \in TtTasks \/ apply_success
       => Current(m.task) /\ m.pid \in workload_to_pids[Workload[m.task]]

(* What the visit of an entry does at most, and what it does if it counts   *)
(* as a success.                                                            *)
Meta(t) == [pid |-> proc[t], task |-> t]
SlotKey == <<Entry.cpu, slot_idx>>
SlotOf(t) == [key |-> SlotKey, task |-> t]
Credit(f, w, x) == [f EXCEPT ![w] = @ \cup {x}]

Tracked(t, w) ==
  /\ workload_to_pids' = Credit(workload_to_pids, w, proc[t])
  /\ workload_to_hash' = workload_to_hash \cup {w}
  /\ workload_hash_to_id' = workload_hash_to_id \cup {w}

Visit(t, w) ==
  /\ next \in 1..Len(table) /\ next' = next + 1
  /\ UNCHANGED <<table, stopped, proc, started, received, clean, slot_table>>
  /\ \/ task_meta' = task_meta /\ ~apply_success'
     \/ /\ proc[t] # NoPid /\ task_meta' = WithMeta(Meta(t))
        /\ proc[t] \in sched_ext' \cup refused'
  /\ sched_ext \subseteq sched_ext' /\ refused \subseteq refused'
  /\ proc[t] = NoPid => UNCHANGED <<sched_ext, refused>>
  /\ sched_ext' \subseteq sched_ext \cup {proc[t]} /\ refused' \subseteq refused \cup {proc[t]}
  /\ \/ ~apply_success' /\ UNCHANGED <<workload_to_pids, workload_to_hash, workload_hash_to_id>>
     \/ proc[t] # NoPid /\ Tracked(t, w)
  /\ apply_success' \in BOOLEAN /\ (apply_success' => apply_success)

VisitTt(t, w) ==
  /\ t \in TtTasks
  /\ proc[t] # NoPid => Tracked(t, w)
  /\ slot_idx' = slot_idx + 1
  /\ UNCHANGED <<cbs_map, workload_to_cbs_keys>>
  /\ \/ tt_table' = tt_table /\ ~apply_success'
     \/ tt_table' = WithSlot(SlotOf(t))
  /\ \/ workload_to_slots' = workload_to_slots /\ ~apply_success'
     \/ workload_to_slots' = Credit(workload_to_slots, w, SlotKey)

VisitCbs(t, w) ==
  /\ t \in CbsTasks
  /\ UNCHANGED <<tt_table, workload_to_slots, slot_idx>>
  /\ \/ UNCHANGED <<cbs_map, workload_to_cbs_keys>> /\ ~apply_success'
     \/ /\ cbs_map' = cbs_map \cup {t}
        /\ workload_to_cbs_keys' = Credit(workload_to_cbs_keys, w, t)

(* The entries of a table have a task and a CPU. *)
LEMMA SeqElement ==
  ASSUME NEW E, NEW s \in Seq(E), NEW i \in 1..Len(s)
  PROVE  s[i] \in E
OBVIOUS

LEMMA SeqLength ==
  ASSUME NEW E, NEW s \in Seq(E)
  PROVE  Len(s) \in Nat
OBVIOUS

LEMMA EntryType ==
  ASSUME TypeOK, Applying
  PROVE  Entry.task \in Tasks /\ Entry.cpu \in Cpus /\ Workload[Entry.task] \in Workloads
<1>1. table \in Seq([task : Tasks, cpu : Cpus]) /\ next \in 1..Len(table)
  BY DEF TypeOK, Applying
<1>2. Entry \in [task : Tasks, cpu : Cpus]
  BY <1>1, SeqElement, Zenon DEF Entry
<1> QED
  BY <1>2 DEF Workloads

LEMMA VisitEffect ==
  ASSUME TypeOK, ApplyTt \/ ApplyCbs
  PROVE  LET t == Entry.task
             w == Workload[t]
         IN  Visit(t, w) /\ (VisitTt(t, w) \/ VisitCbs(t, w))
<1> DEFINE t == Entry.task
           w == Workload[t]
<1>0. apply_success \in BOOLEAN
  BY DEF TypeOK
<1>1. CASE ApplyTt
  <2>1. /\ next \in 1..Len(table) /\ next' = next + 1 /\ t \in TtTasks
        /\ slot_idx' = slot_idx + 1
        /\ UNCHANGED <<table, stopped, proc, started, received, clean, slot_table, cbs_map,
                       workload_to_cbs_keys>>
    BY <1>1 DEF ApplyTt, Applying
  <2>2. ASSUME NEW meta_ok \in BOOLEAN, NEW ext_ok \in BOOLEAN, NEW slot_ok \in BOOLEAN,
               ApplyTtFound(meta_ok, ext_ok, slot_ok)
        PROVE  Visit(t, w) /\ VisitTt(t, w)
    <3>1. proc[t] # NoPid /\ Tracked(t, w)
      BY <2>2 DEF ApplyTtFound, Found, Track, Tracked, Credit
    <3>2. apply_success' \in BOOLEAN /\ (apply_success' => apply_success /\ meta_ok /\ slot_ok)
      BY <1>0, <2>2 DEF ApplyTtFound
    <3>3. task_meta' = IF meta_ok THEN WithMeta(Meta(t)) ELSE task_meta
      BY <2>2 DEF ApplyTtFound, Meta
    <3>4. tt_table' = IF slot_ok THEN WithSlot(SlotOf(t)) ELSE tt_table
      BY <2>2 DEF ApplyTtFound, InstallSlot, SlotOf, SlotKey
    <3>5. workload_to_slots' = Credit(workload_to_slots, w, SlotKey)
      BY <2>2 DEF ApplyTtFound, Credit, SlotKey
    <3>6. /\ sched_ext \subseteq sched_ext' /\ refused \subseteq refused'
          /\ sched_ext' \subseteq sched_ext \cup {proc[t]} /\ refused' \subseteq refused \cup {proc[t]}
          /\ meta_ok => proc[t] \in sched_ext' \cup refused'
      BY <2>2 DEF ApplyTtFound, apply_sched_ext
    <3> HIDE DEF t, w
    <3> QED
      BY <2>1, <3>1, <3>2, <3>3, <3>4, <3>5, <3>6 DEF Visit, VisitTt
  <2>3. ASSUME NEW slot_ok \in BOOLEAN, ApplyTtMissing(slot_ok)
        PROVE  Visit(t, w) /\ VisitTt(t, w)
    <3>1. apply_success' = FALSE
          /\ UNCHANGED <<task_meta, workload_to_pids, workload_to_slots, workload_to_hash,
                         workload_hash_to_id>>
          /\ UNCHANGED <<sched_ext, refused>> /\ proc[t] = NoPid
      BY <2>3 DEF ApplyTtMissing, policy, Found
    <3>2. tt_table' = IF slot_ok THEN WithSlot(SlotOf(t)) ELSE tt_table
      BY <2>3 DEF ApplyTtMissing, InstallSlot, SlotOf, SlotKey
    <3> QED
      BY <2>1, <3>1, <3>2 DEF Visit, VisitTt
  <2> QED
    BY <1>1, <2>2, <2>3 DEF ApplyTt
<1>2. CASE ApplyCbs
  <2>1. /\ next \in 1..Len(table) /\ next' = next + 1 /\ t \in CbsTasks
        /\ UNCHANGED <<table, stopped, proc, started, received, clean, slot_table, tt_table,
                       workload_to_slots, slot_idx>>
    BY <1>2 DEF ApplyCbs, Applying
  <2>2. ASSUME NEW meta_ok \in BOOLEAN, NEW ext_ok \in BOOLEAN, NEW cbs_ok \in BOOLEAN,
               ApplyCbsFound(meta_ok, ext_ok, cbs_ok)
        PROVE  Visit(t, w) /\ VisitCbs(t, w)
    <3>1. apply_success' \in BOOLEAN /\ (apply_success' => apply_success /\ meta_ok /\ cbs_ok)
      BY <1>0, <2>2 DEF ApplyCbsFound
    <3>2. proc[t] # NoPid /\ task_meta' = IF meta_ok THEN WithMeta(Meta(t)) ELSE task_meta
      BY <2>2 DEF ApplyCbsFound, Meta, Found
    <3>a. /\ sched_ext \subseteq sched_ext' /\ refused \subseteq refused'
          /\ sched_ext' \subseteq sched_ext \cup {proc[t]} /\ refused' \subseteq refused \cup {proc[t]}
          /\ meta_ok => proc[t] \in sched_ext' \cup refused'
      BY <2>2 DEF ApplyCbsFound, apply_sched_ext
    <3>3. CASE meta_ok /\ cbs_ok
      <4>1. /\ Tracked(t, w) /\ cbs_map' = cbs_map \cup {t}
            /\ workload_to_cbs_keys' = Credit(workload_to_cbs_keys, w, t)
        BY <2>2, <3>3 DEF ApplyCbsFound, Track, Tracked, Credit
      <4> QED
        BY <2>1, <3>1, <3>2, <3>a, <3>3, <4>1 DEF Visit, VisitCbs
    <3>4. CASE ~(meta_ok /\ cbs_ok)
      <4>1. UNCHANGED <<cbs_map, workload_to_pids, workload_to_cbs_keys, workload_to_hash,
                        workload_hash_to_id>>
        BY <2>2, <3>4 DEF ApplyCbsFound
      <4> QED
        BY <2>1, <3>1, <3>2, <3>a, <3>4, <4>1 DEF Visit, VisitCbs
    <3> QED
      BY <3>3, <3>4
  <2>3. CASE ApplyCbsMissing
    BY <2>1, <2>3 DEF ApplyCbsMissing, policy, Found, Visit, VisitCbs
  <2> QED
    BY <1>2, <2>2, <2>3 DEF ApplyCbs
<1> QED
  BY <1>1, <1>2

(* Every step keeps the types. *)
LEMMA TypeStep ==
  ASSUME TypeOK, [Next]_vars
  PROVE  TypeOK'
<1> DEFINE Env == /\ proc \in [Tasks -> Pids \cup {NoPid}]
                  /\ started \in 0..MaxPids /\ received \in 0..MaxTables
           Bpf == /\ task_meta \subseteq [pid : Pids, task : Tasks]
                  /\ tt_table \subseteq [key : Cpus \X Nat, task : TtTasks]
                  /\ cbs_map \subseteq CbsTasks /\ slot_table \subseteq TtTasks
                  /\ sched_ext \subseteq Pids /\ refused \subseteq Pids
           Maps == /\ workload_to_pids \in [Workloads -> SUBSET Pids]
                   /\ workload_to_slots \in [Workloads -> SUBSET (Cpus \X Nat)]
                   /\ workload_to_cbs_keys \in [Workloads -> SUBSET CbsTasks]
                   /\ workload_to_hash \subseteq workload_hash_to_id
           Control == /\ table \in Seq([task : Tasks, cpu : Cpus])
                      /\ next \in 0..(Len(table) + 1) /\ slot_idx \in Nat
                      /\ apply_success \in BOOLEAN /\ clean \in BOOLEAN
                      /\ stopped \subseteq Workloads
           Good == Env /\ Bpf /\ Maps /\ Control
<1>0. Good
  BY DEF TypeOK
<1>a. SUFFICES Good'
  BY DEF TypeOK
<1>b. MaxPids \in Nat /\ MaxTables \in Nat /\ Len(table) \in Nat /\ NoPid \notin Pids
  BY <1>0, ExecutorAssumption
<1>1. ASSUME NEW t \in Tasks, Start(t)
      PROVE  Good'
  <2>1. Env'
    BY <1>0, <1>1, <1>b DEF Start, Pids
  <2> QED
    BY <1>0, <1>1, <2>1 DEF Start, bpf, maps, policy
<1>2. ASSUME NEW t \in Tasks, Exit(t)
      PROVE  Good'
  BY <1>0, <1>2 DEF Exit, bpf, maps, policy
<1>3. ASSUME NEW tbl \in Tables, ReceiveTable(tbl)
      PROVE  Good'
  <2>1. Env' /\ Bpf'
    BY <1>0, <1>3, <1>b DEF ReceiveTable, policy
  <2>2. Maps'
    BY <1>3 DEF ReceiveTable, Nothing
  <2>3. tbl \in Seq([task : Tasks, cpu : Cpus])
    BY ExecutorAssumption, Zenon
  <2>4. Len(tbl) \in Nat
    BY <2>3, SeqLength
  <2>5. Control'
    BY <1>0, <1>3, <2>3, <2>4 DEF ReceiveTable
  <2> QED
    BY <2>1, <2>2, <2>5
<1>4. CASE ApplyTt \/ ApplyCbs
  <2> DEFINE t == Entry.task
             w == Workload[t]
  <2>0. Visit(t, w) /\ (VisitTt(t, w) \/ VisitCbs(t, w))
    BY <1>4, VisitEffect
  <2>1. t \in Tasks /\ Entry.cpu \in Cpus /\ w \in Workloads
    BY <1>4, EntryType DEF ApplyTt, ApplyCbs
  <2> HIDE DEF t, w
  <2>2. Env' /\ slot_table' \subseteq TtTasks
    BY <1>0, <2>0 DEF Visit
  <2>2a. sched_ext' \subseteq Pids /\ refused' \subseteq Pids
    <3>1. proc[t] \in Pids \cup {NoPid}
      BY <1>0, <2>1
    <3> QED
      BY <1>0, <2>0, <3>1 DEF Visit
  <2>3. task_meta' \subseteq [pid : Pids, task : Tasks]
    <3>1. proc[t] # NoPid => Meta(t) \in [pid : Pids, task : Tasks]
      BY <1>0, <2>1 DEF Meta
    <3> QED
      BY <1>0, <2>0, <3>1 DEF Visit, WithMeta
  <2>4. SlotKey \in Cpus \X Nat /\ (t \in TtTasks => SlotOf(t) \in [key : Cpus \X Nat, task : TtTasks])
    BY <1>0, <2>1 DEF SlotKey, SlotOf
  <2>5. tt_table' \subseteq [key : Cpus \X Nat, task : TtTasks]
    BY <1>0, <2>0, <2>4 DEF VisitTt, VisitCbs, WithSlot
  <2>6. cbs_map' \subseteq CbsTasks
    BY <1>0, <2>0 DEF VisitTt, VisitCbs
  <2>7. /\ workload_to_pids' \in [Workloads -> SUBSET Pids]
        /\ workload_to_hash' \subseteq workload_hash_to_id'
    BY <1>0, <2>0, <2>1 DEF Visit, Tracked, Credit
  <2>8. workload_to_slots' \in [Workloads -> SUBSET (Cpus \X Nat)]
    BY <1>0, <2>0, <2>1, <2>4 DEF VisitTt, VisitCbs, Credit
  <2>9. workload_to_cbs_keys' \in [Workloads -> SUBSET CbsTasks]
    BY <1>0, <2>0, <2>1 DEF VisitTt, VisitCbs, Credit
  <2>10. slot_idx' \in Nat
    BY <1>0, <2>0 DEF VisitTt, VisitCbs
  <2>11. Control'
    BY <1>0, <1>b, <2>0, <2>10 DEF Visit
  <2> QED
    BY <2>2, <2>2a, <2>3, <2>5, <2>6, <2>7, <2>8, <2>9, <2>11
<1>5. CASE Finish
  <2>1. Bpf' /\ Env' /\ Maps'
    BY <1>0, <1>5 DEF Finish, Slots, bpf, maps, policy
  <2>2. Control'
    BY <1>0, <1>5, <1>b DEF Finish
  <2> QED
    BY <2>1, <2>2
<1>6. ASSUME NEW w \in Workloads, NEW by_hash \in BOOLEAN, Stop(w, by_hash)
      PROVE  Good'
  <2>1. Env' /\ Control'
    BY <1>0, <1>6 DEF Stop
  <2>2. Bpf'
    BY <1>0, <1>6 DEF Stop, policy
  <2>3. Maps'
    BY <1>0, <1>6 DEF Stop
  <2> QED
    BY <2>1, <2>2, <2>3
<1>7. CASE UNCHANGED vars
  BY <1>0, <1>7 DEF vars, bpf, maps, policy
<1> QED
  BY <1>1, <1>2, <1>3, <1>4, <1>5, <1>6, <1>7, Zenon DEF Next

(* What STOP takes away: everything credited to the workload, if the        *)
(* workload is resolved, and nothing otherwise.                             *)
StopOf(w, S) ==
  /\ S = {w} \/ (S = {} /\ w \notin workload_hash_to_id)
  /\ task_meta' = {m \in task_meta : \A v \in S : m.pid \notin workload_to_pids[v]}
  /\ tt_table' = {s \in tt_table : \A v \in S : s.key \notin workload_to_slots[v]}
  /\ slot_table' = {t \in slot_table : Workload[t] \notin S \cap workload_to_hash}
  /\ cbs_map' = {t \in cbs_map : \A v \in S : t \notin workload_to_cbs_keys[v]}
  /\ \A v \in Workloads :
       /\ workload_to_pids'[v] = IF v \in S THEN {} ELSE workload_to_pids[v]
       /\ workload_to_slots'[v] = IF v \in S THEN {} ELSE workload_to_slots[v]
       /\ workload_to_cbs_keys'[v] = IF v \in S THEN {} ELSE workload_to_cbs_keys[v]
  /\ workload_to_hash' = workload_to_hash \ S
  /\ stopped' = stopped \cup {w}
  /\ next = 0
  /\ UNCHANGED <<proc, started, workload_hash_to_id, table, next, slot_idx,
                 apply_success, clean, sched_ext, refused>>

LEMMA StopEffect ==
  ASSUME TypeOK, NEW w \in Workloads, NEW by_hash \in BOOLEAN, Stop(w, by_hash)
  PROVE  \E S \in SUBSET Workloads : StopOf(w, S)
<1> DEFINE S == IF Resolved(w, by_hash) THEN {w} ELSE {}
<1>1. S \in SUBSET Workloads /\ (S = {w} \/ (S = {} /\ w \notin workload_hash_to_id))
  BY DEF Resolved
<1>2. /\ task_meta' = {m \in task_meta : \A v \in S : m.pid \notin workload_to_pids[v]}
      /\ tt_table' = {s \in tt_table : \A v \in S : s.key \notin workload_to_slots[v]}
      /\ slot_table' = {t \in slot_table : Workload[t] \notin S \cap workload_to_hash}
      /\ cbs_map' = {t \in cbs_map : \A v \in S : t \notin workload_to_cbs_keys[v]}
      /\ workload_to_hash' = workload_to_hash \ S
      /\ stopped' = stopped \cup {w}
      /\ next = 0
      /\ UNCHANGED <<proc, started, workload_hash_to_id, table, next, slot_idx,
                     apply_success, clean, sched_ext, refused>>
  BY DEF Stop, policy
<1>3. ASSUME NEW v \in Workloads
      PROVE  /\ workload_to_pids'[v] = IF v \in S THEN {} ELSE workload_to_pids[v]
             /\ workload_to_slots'[v] = IF v \in S THEN {} ELSE workload_to_slots[v]
             /\ workload_to_cbs_keys'[v] = IF v \in S THEN {} ELSE workload_to_cbs_keys[v]
  BY DEF Stop
<1> HIDE DEF S
<1>4. StopOf(w, S)
  BY <1>1, <1>2, <1>3 DEF StopOf
<1> QED
  BY <1>1, <1>4

(* Every step keeps pids apart. *)
LEMMA PidStep ==
  ASSUME TypeOK, PidInv, [Next]_vars
  PROVE  PidInv'
<1>0. /\ proc \in [Tasks -> Pids \cup {NoPid}] /\ started \in Nat
      /\ task_meta \subseteq [pid : Pids, task : Tasks] /\ Pids \subseteq Nat /\ NoPid \notin Pids
      /\ workload_to_pids \in [Workloads -> SUBSET Pids]
  BY ExecutorAssumption DEF TypeOK, Pids
<1>1. ASSUME NEW t \in Tasks, Start(t)
      PROVE  PidInv'
  <2>1. /\ proc' = [proc EXCEPT ![t] = started + 1] /\ started' = started + 1
        /\ proc[t] = NoPid /\ started + 1 \in Pids
        /\ UNCHANGED <<task_meta, workload_to_pids>>
    <3>1. started < MaxPids /\ MaxPids \in Nat
      BY <1>1, ExecutorAssumption DEF Start
    <3>2. started + 1 \in Pids
      BY <1>0, <3>1 DEF Pids
    <3> QED
      BY <1>1, <3>2 DEF Start, Found, bpf, maps
  <2>2. \A u \in Tasks : proc'[u] = IF u = t THEN started + 1 ELSE proc[u]
    BY <1>0, <2>1
  <2>3. /\ \A u \in Tasks : proc[u] # NoPid => proc[u] \in Nat /\ proc[u] <= started
        /\ \A m \in task_meta : m.pid \in Nat /\ m.pid <= started
        /\ \A w \in Workloads : \A p \in workload_to_pids[w] : p \in Nat /\ p <= started
    <3>1. \A u \in Tasks : proc[u] # NoPid => proc[u] \in Nat /\ proc[u] <= started
      <4>1. \A u \in Tasks : proc[u] # NoPid => proc[u] \in Pids
        BY <1>0
      <4>2. \A u \in Tasks : proc[u] # NoPid => proc[u] <= started
        BY DEF PidInv
      <4> QED
        BY <1>0, <4>1, <4>2, Zenon
    <3>2. \A m \in task_meta : m.pid \in Nat /\ m.pid <= started
      <4>1. \A m \in task_meta : m.pid \in Pids
        BY <1>0
      <4>2. \A m \in task_meta : m.pid <= started
        BY DEF PidInv
      <4> QED
        BY <1>0, <4>1, <4>2, Zenon
    <3>3. \A w \in Workloads : \A p \in workload_to_pids[w] : p \in Nat /\ p <= started
      BY <1>0 DEF PidInv
    <3> QED
      BY <3>1, <3>2, <3>3
  <2>4. \A u, v \in Tasks : proc'[u] # NoPid /\ proc'[u] = proc'[v] => u = v
    BY <1>0, <2>2, <2>3 DEF PidInv
  <2>5. \A u \in Tasks : proc'[u] # NoPid => proc'[u] <= started'
    BY <1>0, <2>1, <2>2, <2>3
  <2>6. \A m \in task_meta : m.pid <= started' /\ \A u \in Tasks : proc'[u] = m.pid => u = m.task
    BY <1>0, <2>1, <2>2, <2>3 DEF PidInv
  <2>7. ASSUME NEW w \in Workloads, NEW p \in workload_to_pids[w]
        PROVE  /\ p <= started'
               /\ \A m \in task_meta : m.pid = p => Workload[m.task] = w
               /\ \A u \in Tasks : proc'[u] = p => Workload[u] = w
    BY <1>0, <2>1, <2>2, <2>3 DEF PidInv
  <2> QED
    BY <2>1, <2>4, <2>5, <2>6, <2>7 DEF PidInv
<1>2. ASSUME NEW t \in Tasks, Exit(t)
      PROVE  PidInv'
  <2>1. UNCHANGED <<started, task_meta, workload_to_pids>>
    BY <1>2 DEF Exit, bpf, maps
  <2>2. \A u \in Tasks : proc'[u] = IF u = t THEN NoPid ELSE proc[u]
    BY <1>0, <1>2 DEF Exit
  <2>3. \A m \in task_meta : m.pid # NoPid
    BY <1>0
  <2>4. \A w \in Workloads : \A p \in workload_to_pids[w] : p # NoPid
    BY <1>0
  <2> QED
    BY <2>1, <2>2, <2>3, <2>4 DEF PidInv
<1>3. ASSUME task_meta' \subseteq task_meta,
             \A w \in Workloads : workload_to_pids'[w] \subseteq workload_to_pids[w],
             UNCHANGED <<proc, started>>
      PROVE  PidInv'
  BY <1>3 DEF PidInv
<1>4. ASSUME NEW tbl \in Tables, ReceiveTable(tbl)
      PROVE  PidInv'
  BY <1>3, <1>4 DEF ReceiveTable, Nothing
<1>5. CASE ApplyTt \/ ApplyCbs
  <2> DEFINE t == Entry.task
             w == Workload[t]
  <2>0. Visit(t, w) /\ t \in Tasks /\ w \in Workloads
    BY <1>5, VisitEffect, EntryType DEF ApplyTt, ApplyCbs
  <2>w. w = Workload[t]
    OBVIOUS
  <2> HIDE DEF t, w
  <2>1. /\ UNCHANGED <<proc, started>>
        /\ \A m \in task_meta' : m \in task_meta \/ (proc[t] # NoPid /\ m = Meta(t))
        /\ \A v \in Workloads : \A p \in workload_to_pids'[v] :
             p \in workload_to_pids[v] \/ (proc[t] # NoPid /\ v = w /\ p = proc[t])
    BY <1>0, <2>0 DEF Visit, WithMeta, Tracked, Credit
  <2>2. Meta(t).pid = proc[t] /\ Meta(t).task = t
    BY DEF Meta
  <2>3. ASSUME NEW m \in task_meta'
        PROVE  /\ m.pid <= started
               /\ \A u \in Tasks : proc[u] = m.pid => u = m.task
               /\ \A v \in Workloads : m.pid \in workload_to_pids[v] => Workload[m.task] = v
               /\ proc[t] # NoPid /\ m.pid = proc[t] => m.task = t
    <3>1. CASE m \in task_meta
      BY <2>0, <3>1 DEF PidInv
    <3>2. CASE proc[t] # NoPid /\ m = Meta(t)
      BY <2>0, <2>2, <3>2 DEF PidInv
    <3> QED
      BY <2>1, <2>3, <3>1, <3>2
  <2>4. ASSUME NEW v \in Workloads, NEW p \in workload_to_pids'[v]
        PROVE  /\ p <= started
               /\ \A m \in task_meta' : m.pid = p => Workload[m.task] = v
               /\ \A u \in Tasks : proc[u] = p => Workload[u] = v
    <3>1. CASE p \in workload_to_pids[v]
      BY <2>3, <3>1 DEF PidInv
    <3>2. CASE proc[t] # NoPid /\ v = w /\ p = proc[t]
      BY <2>0, <2>w, <2>3, <3>2 DEF PidInv
    <3> QED
      BY <2>1, <2>4, <3>1, <3>2
  <2> QED
    BY <2>1, <2>3, <2>4 DEF PidInv
<1>6. CASE Finish
  BY <1>3, <1>6 DEF Finish, bpf, maps
<1>7. ASSUME NEW w \in Workloads, NEW by_hash \in BOOLEAN, Stop(w, by_hash)
      PROVE  PidInv'
  BY <1>3, <1>7, StopEffect DEF StopOf
<1>8. CASE UNCHANGED vars
  BY <1>3, <1>8 DEF vars, bpf, maps
<1> QED
  BY <1>1, <1>2, <1>4, <1>5, <1>6, <1>7, <1>8 DEF Next

(* Every step keeps the keys of workloads apart. *)
LEMMA KeyStep ==
  ASSUME TypeOK, KeyInv, [Next]_vars
  PROVE  KeyInv'
<1>0. /\ slot_idx \in Nat
      /\ workload_to_slots \in [Workloads -> SUBSET (Cpus \X Nat)]
      /\ workload_to_cbs_keys \in [Workloads -> SUBSET CbsTasks]
      /\ tt_table \subseteq [key : Cpus \X Nat, task : TtTasks]
  BY DEF TypeOK
<1>1. ASSUME tt_table' \subseteq tt_table, UNCHANGED <<slot_idx, apply_success>>,
             \A w \in Workloads : /\ workload_to_slots'[w] \subseteq workload_to_slots[w]
                                  /\ workload_to_cbs_keys'[w] \subseteq workload_to_cbs_keys[w]
      PROVE  KeyInv'
  BY <1>1 DEF KeyInv
<1>2. ASSUME NEW t \in Tasks, Start(t) \/ Exit(t)
      PROVE  KeyInv'
  BY <1>1, <1>2 DEF Start, Exit, bpf, maps
<1>3. ASSUME NEW tbl \in Tables, ReceiveTable(tbl)
      PROVE  KeyInv'
  BY <1>3 DEF ReceiveTable, KeyInv, Nothing
<1>4. CASE ApplyTt \/ ApplyCbs
  <2> DEFINE t == Entry.task
             w == Workload[t]
  <2>0. /\ Visit(t, w) /\ (VisitTt(t, w) \/ VisitCbs(t, w))
        /\ t \in Tasks /\ w \in Workloads /\ Entry.cpu \in Cpus
    BY <1>4, VisitEffect, EntryType DEF ApplyTt, ApplyCbs
  <2>w. w = Workload[t]
    OBVIOUS
  <2> HIDE DEF t, w
  <2>1. CASE VisitTt(t, w)
    <3>1. /\ slot_idx' = slot_idx + 1 /\ UNCHANGED workload_to_cbs_keys
          /\ \A v \in Workloads : \A k \in workload_to_slots'[v] :
               k \in workload_to_slots[v] \/ (v = w /\ k = SlotKey)
      BY <1>0, <2>0, <2>1 DEF VisitTt, Credit
    <3>2. SlotKey[2] = slot_idx /\ SlotOf(t).key = SlotKey /\ SlotOf(t).task = t
      BY DEF SlotKey, SlotOf
    <3>3. ASSUME NEW v \in Workloads, NEW k \in workload_to_slots[v]
          PROVE  k[2] \in Nat /\ k[2] < slot_idx /\ k # SlotKey
      <4>1. k \in Cpus \X Nat /\ k[2] < slot_idx
        BY <1>0 DEF KeyInv
      <4>2. k[2] \in Nat
        BY <4>1
      <4> QED
        BY <1>0, <3>2, <4>1, <4>2
    <3>4. ASSUME NEW v \in Workloads, NEW k \in workload_to_slots'[v]
          PROVE  k[2] < slot_idx'
      BY <1>0, <3>1, <3>2, <3>3, <3>4
    <3>5. ASSUME apply_success', NEW v \in Workloads, NEW s \in tt_table', s.key \in workload_to_slots'[v]
          PROVE  Workload[s.task] = v
      <4>1. apply_success /\ tt_table' = WithSlot(SlotOf(t))
        BY <2>0, <2>1, <3>5 DEF Visit, VisitTt
      <4>2. CASE s = SlotOf(t)
        <5>1. s.key \notin workload_to_slots[v]
          BY <3>2, <3>3, <4>2
        <5> QED
          BY <2>w, <3>1, <3>2, <3>5, <4>2, <5>1
      <4>3. CASE s \in tt_table /\ s.key # SlotKey
        <5>1. s.key \in workload_to_slots[v]
          BY <3>1, <3>5, <4>3
        <5> QED
          BY <4>1, <4>3, <5>1 DEF KeyInv
      <4> QED
        BY <3>2, <3>5, <4>1, <4>2, <4>3 DEF WithSlot
    <3> QED
      BY <3>1, <3>4, <3>5 DEF KeyInv
  <2>2. CASE VisitCbs(t, w)
    <3>1. /\ UNCHANGED <<tt_table, workload_to_slots, slot_idx>>
          /\ \A v \in Workloads : \A u \in workload_to_cbs_keys'[v] :
               u \in workload_to_cbs_keys[v] \/ (v = w /\ u = t)
          /\ apply_success' => apply_success
      BY <1>0, <2>0, <2>2 DEF Visit, VisitCbs, Credit
    <3> QED
      BY <2>w, <3>1 DEF KeyInv
  <2> QED
    BY <2>0, <2>1, <2>2
<1>5. CASE Finish
  BY <1>1, <1>5 DEF Finish, bpf, maps
<1>6. ASSUME NEW w \in Workloads, NEW by_hash \in BOOLEAN, Stop(w, by_hash)
      PROVE  KeyInv'
  BY <1>1, <1>6, StopEffect DEF StopOf
<1>7. CASE UNCHANGED vars
  BY <1>1, <1>7 DEF vars, bpf, maps
<1> QED
  BY <1>2, <1>3, <1>4, <1>5, <1>6, <1>7 DEF Next

(* Every step keeps the visited entries complete. *)
LEMMA CompleteStep ==
  ASSUME TypeOK, PidInv, KeyInv, CompleteInv, [Next]_vars
  PROVE  CompleteInv'
<1>0. /\ table \in Seq([task : Tasks, cpu : Cpus]) /\ Len(table) \in Nat
      /\ next \in 0..(Len(table) + 1) /\ slot_idx \in Nat
      /\ workload_to_pids \in [Workloads -> SUBSET Pids]
      /\ workload_to_slots \in [Workloads -> SUBSET (Cpus \X Nat)]
      /\ workload_to_cbs_keys \in [Workloads -> SUBSET CbsTasks]
  BY SeqLength DEF TypeOK
<1>1. ASSUME NEW i \in 1..Len(table)
      PROVE  table[i].task \in Tasks /\ Workload[table[i].task] \in Workloads
  <2>1. table[i] \in [task : Tasks, cpu : Cpus]
    BY <1>0, SeqElement, Zenon
  <2> QED
    BY <2>1 DEF Workloads
<1>2. ASSUME NEW t \in Tasks, Start(t) \/ Exit(t)
      PROVE  CompleteInv'
  <2>1. UNCHANGED <<bpf, maps, policy, slot_table, table, next, apply_success, stopped>>
    BY <1>2 DEF Start, Exit
  <2> QED
    BY <2>1, Zenon DEF bpf, maps, policy, CompleteInv, Complete, Visited
<1>3. ASSUME NEW tbl \in Tables, ReceiveTable(tbl)
      PROVE  CompleteInv'
  <2>1. stopped' = {} /\ next' = 1
    BY <1>3 DEF ReceiveTable
  <2>2. Visited' = {}
    BY <2>1 DEF Visited
  <2> QED
    BY <2>1, <2>2 DEF CompleteInv
<1>4. CASE ApplyTt \/ ApplyCbs
  <2> DEFINE t == Entry.task
             w == Workload[t]
  <2>0. /\ Visit(t, w) /\ (VisitTt(t, w) \/ VisitCbs(t, w))
        /\ t \in Tasks /\ w \in Workloads /\ Entry.cpu \in Cpus /\ t = table[next].task
    BY <1>4, VisitEffect, EntryType, Zenon DEF ApplyTt, ApplyCbs, Entry
  <2>w. w = Workload[t]
    OBVIOUS
  <2> HIDE DEF t, w
  <2>1. next' # 0 /\ next # 0 /\ stopped = {} /\ stopped' = {} /\ table' = table
    <3>1. next \in 1..Len(table) /\ next' = next + 1 /\ stopped' = stopped /\ table' = table
      BY <2>0 DEF Visit
    <3>2. next # 0 /\ next' # 0
      BY <1>0, <3>1
    <3> QED
      BY <3>1, <3>2 DEF CompleteInv
  <2> SUFFICES ASSUME apply_success', NEW i \in Visited'
               PROVE  /\ Workload[table[i].task] \in workload_hash_to_id'
                      /\ Complete(table[i].task)'
    BY <2>1 DEF CompleteInv
  <2> DEFINE u == table[i].task
             v == Workload[u]
  <2>2. i \in 1..Len(table) /\ (i \in Visited \/ i = next)
    BY <1>0, <2>0, <2>1 DEF Visited, Visit
  <2>3. u \in Tasks /\ v \in Workloads
    BY <1>1, <2>2
  <2>v. v = Workload[u]
    OBVIOUS
  <2>4. /\ apply_success /\ proc[t] # NoPid /\ task_meta' = WithMeta(Meta(t)) /\ Tracked(t, w)
        /\ Meta(t).pid = proc[t] /\ Meta(t).task = t
        /\ proc[t] \in sched_ext' \cup refused'
        /\ sched_ext \subseteq sched_ext' /\ refused \subseteq refused'
    BY <2>0 DEF Visit, Meta
  <2>5. i \in Visited => Complete(u) /\ v \in workload_hash_to_id
    BY <2>1, <2>4 DEF CompleteInv
  <2>6. i = next => u = t /\ v = w
    BY <2>0, <2>w
  <2> HIDE DEF u, v
  <2>7. v \in workload_hash_to_id' /\ v \in workload_to_hash'
    BY <2>2, <2>4, <2>5, <2>6, <2>v DEF Tracked, Complete
  <2>8. \E m \in task_meta' : /\ m.task = u /\ m.pid \in workload_to_pids'[v]
                              /\ m.pid \in sched_ext' \cup refused'
    <3>1. /\ \A x \in Workloads : workload_to_pids[x] \subseteq workload_to_pids'[x]
          /\ proc[t] \in workload_to_pids'[w]
      BY <1>0, <2>0, <2>4 DEF Tracked, Credit
    <3>2. Meta(t) \in task_meta'
      BY <2>4 DEF WithMeta
    <3>3. CASE u = t
      BY <2>4, <2>v, <2>w, <3>1, <3>2, <3>3
    <3>4. CASE u # t
      <4>1. PICK m \in task_meta : /\ m.task = u /\ m.pid \in workload_to_pids[v]
                                   /\ m.pid \in sched_ext \cup refused
        BY <2>2, <2>5, <2>6, <2>v, <3>4 DEF Complete
      <4>2. m.pid # proc[t]
        BY <2>0, <3>4, <4>1 DEF PidInv
      <4>3. m \in task_meta'
        BY <2>4, <4>1, <4>2 DEF WithMeta
      <4> QED
        BY <2>3, <2>4, <3>1, <4>1, <4>3
    <3> QED
      BY <3>3, <3>4
  <2>9. u \in TtTasks => \E s \in tt_table' : s.task = u /\ s.key \in workload_to_slots'[v]
    <3> SUFFICES ASSUME u \in TtTasks
                 PROVE  \E s \in tt_table' : s.task = u /\ s.key \in workload_to_slots'[v]
      OBVIOUS
    <3>1. CASE VisitTt(t, w)
      <4>1. tt_table' = WithSlot(SlotOf(t)) /\ workload_to_slots' = Credit(workload_to_slots, w, SlotKey)
        BY <3>1 DEF VisitTt
      <4>2. SlotOf(t).key = SlotKey /\ SlotOf(t).task = t /\ SlotKey[2] = slot_idx
        BY DEF SlotOf, SlotKey
      <4>3. /\ \A x \in Workloads : workload_to_slots[x] \subseteq workload_to_slots'[x]
            /\ SlotKey \in workload_to_slots'[w]
        BY <1>0, <2>0, <4>1 DEF Credit
      <4>4. CASE i = next
        BY <2>6, <4>1, <4>2, <4>3, <4>4 DEF WithSlot
      <4>5. CASE i \in Visited
        <5>1. PICK s \in tt_table : s.task = u /\ s.key \in workload_to_slots[v]
          BY <2>5, <2>v, <4>5 DEF Complete
        <5>2. s.key[2] < slot_idx /\ s.key \in Cpus \X Nat
          BY <1>0, <2>3, <5>1 DEF KeyInv
        <5>3. s.key # SlotKey
          BY <1>0, <4>2, <5>2
        <5> QED
          BY <2>3, <4>1, <4>2, <4>3, <5>1, <5>3 DEF WithSlot
      <4> QED
        BY <2>2, <4>4, <4>5
    <3>2. CASE VisitCbs(t, w)
      <4>1. i \in Visited
        BY <2>2, <2>6, <3>2, ExecutorAssumption DEF VisitCbs
      <4> QED
        BY <2>5, <2>v, <3>2, <4>1 DEF VisitCbs, Complete
    <3> QED
      BY <2>0, <3>1, <3>2
  <2>10. u \in CbsTasks => u \in cbs_map' \cap workload_to_cbs_keys'[v]
    <3> SUFFICES ASSUME u \in CbsTasks
                 PROVE  u \in cbs_map' \cap workload_to_cbs_keys'[v]
      OBVIOUS
    <3>1. CASE VisitCbs(t, w)
      <4>1. cbs_map' = cbs_map \cup {t} /\ workload_to_cbs_keys' = Credit(workload_to_cbs_keys, w, t)
        BY <3>1 DEF VisitCbs
      <4>2. /\ \A x \in Workloads : workload_to_cbs_keys[x] \subseteq workload_to_cbs_keys'[x]
            /\ t \in workload_to_cbs_keys'[w]
        BY <1>0, <2>0, <4>1 DEF Credit
      <4>3. CASE i = next
        BY <2>6, <4>1, <4>2, <4>3
      <4>4. CASE i \in Visited
        BY <2>3, <2>5, <2>v, <4>1, <4>2, <4>4 DEF Complete
      <4> QED
        BY <2>2, <4>3, <4>4
    <3>2. CASE VisitTt(t, w)
      <4>1. i \in Visited
        BY <2>2, <2>6, <3>2, ExecutorAssumption DEF VisitTt
      <4> QED
        BY <2>5, <2>v, <3>2, <4>1 DEF VisitTt, Complete
    <3> QED
      BY <2>0, <3>1, <3>2
  <2>11. Complete(u)'
    <3>1. u' = u /\ v' = v
      BY <2>1 DEF u, v
    <3> QED
      BY <2>1, <2>7, <2>8, <2>9, <2>10, <2>v, <3>1 DEF Complete
  <2> QED
    BY <2>1, <2>7, <2>11, <2>v DEF u
<1>5. CASE Finish
  <2>1. /\ next = Len(table) + 1 /\ next' = 0 /\ slot_table' = Slots(table)
        /\ UNCHANGED <<bpf, maps, table, apply_success, stopped, sched_ext, refused>>
    BY <1>5 DEF Finish, policy
  <2>2. Visited' = Visited /\ \A i \in Visited : i \in 1..Len(table)
    BY <1>0, <2>1 DEF Visited
  <2>3. ASSUME NEW i \in Visited, Complete(table[i].task)
        PROVE  Complete(table[i].task)'
    <3>1. table[i].task \in TtTasks => table[i].task \in slot_table'
      BY <2>1, <2>2 DEF Slots
    <3> QED
      BY <2>1, <2>3, <3>1 DEF Complete, bpf, maps
  <2> QED
    BY <2>1, <2>2, <2>3 DEF CompleteInv, maps
<1>6. ASSUME NEW w \in Workloads, NEW by_hash \in BOOLEAN, Stop(w, by_hash)
      PROVE  CompleteInv'
  <2>0. PICK S \in SUBSET Workloads : StopOf(w, S)
    BY <1>6, StopEffect
  <2>1. S \subseteq Workloads
    BY <2>0
  <2>2. Visited' = Visited /\ \A i \in Visited : i \in 1..Len(table)
    BY <2>0 DEF Visited, StopOf
  <2>3. ASSUME apply_success, NEW i \in Visited, Workload[table[i].task] \notin stopped',
               Complete(table[i].task)
        PROVE  Complete(table[i].task)'
    <3> DEFINE t == table[i].task
               v == Workload[t]
    <3>1. t \in Tasks /\ v \in Workloads /\ v # w /\ v \notin S /\ t' = t /\ v' = v
      BY <1>1, <2>0, <2>2, <2>3, ZenonT(60) DEF StopOf
    <3>2. \E m \in task_meta' : /\ m.task = t /\ m.pid \in workload_to_pids'[v]
                                /\ m.pid \in sched_ext \cup refused
      <4>1. PICK m \in task_meta : /\ m.task = t /\ m.pid \in workload_to_pids[v]
                                   /\ m.pid \in sched_ext \cup refused
        BY <2>3 DEF Complete
      <4>2. \A x \in S : m.pid \notin workload_to_pids[x]
        <5>1. \A x \in Workloads : m.pid \in workload_to_pids[x] => Workload[m.task] = x
          BY <4>1 DEF PidInv
        <5> QED
          BY <2>1, <3>1, <4>1, <5>1
      <4> QED
        BY <2>0, <3>1, <4>1, <4>2 DEF StopOf
    <3>3. t \in TtTasks => \E s \in tt_table' : s.task = t /\ s.key \in workload_to_slots'[v]
      <4> SUFFICES ASSUME t \in TtTasks
                   PROVE  \E s \in tt_table' : s.task = t /\ s.key \in workload_to_slots'[v]
        OBVIOUS
      <4>1. PICK s \in tt_table : s.task = t /\ s.key \in workload_to_slots[v]
        BY <2>3 DEF Complete
      <4>2. \A x \in S : s.key \notin workload_to_slots[x]
        <5>1. \A x \in Workloads : s.key \in workload_to_slots[x] => Workload[s.task] = x
          BY <2>3, <4>1 DEF KeyInv
        <5> QED
          BY <2>1, <3>1, <4>1, <5>1
      <4> QED
        BY <2>0, <3>1, <4>1, <4>2 DEF StopOf
    <3>4. t \in CbsTasks => t \in cbs_map' \cap workload_to_cbs_keys'[v]
      <4>1. \A x \in S : t \notin workload_to_cbs_keys[x]
        BY <2>1, <3>1 DEF KeyInv
      <4> QED
        BY <2>0, <2>3, <3>1, <4>1, Zenon DEF Complete, StopOf
    <3>5. /\ v \in workload_to_hash'
          /\ t \in TtTasks => t \in slot_table'
      BY <2>0, <2>3, <3>1, Zenon DEF Complete, StopOf
    <3> HIDE DEF t, v
    <3>6. v = Workload[t] /\ t = table[i].task
      BY DEF t, v
    <3> QED
      BY <2>0, <3>1, <3>2, <3>3, <3>4, <3>5, <3>6, Zenon DEF Complete, StopOf
  <2> QED
    BY <2>0, <2>2, <2>3 DEF CompleteInv, StopOf
<1>7. CASE UNCHANGED vars
  BY <1>7, Zenon DEF vars, bpf, maps, policy, CompleteInv, Complete, Visited
<1> QED
  BY <1>2, <1>3, <1>4, <1>5, <1>6, <1>7 DEF Next

(* Every step keeps what is installed credited to the current table. *)
LEMMA CreditStep ==
  ASSUME TypeOK, PidInv, KeyInv, CompleteInv, CreditInv, [Next]_vars
  PROVE  CreditInv'
<1>0. /\ table \in Seq([task : Tasks, cpu : Cpus]) /\ Len(table) \in Nat
      /\ next \in 0..(Len(table) + 1)
      /\ workload_to_pids \in [Workloads -> SUBSET Pids]
      /\ workload_to_slots \in [Workloads -> SUBSET (Cpus \X Nat)]
      /\ workload_to_cbs_keys \in [Workloads -> SUBSET CbsTasks]
      /\ cbs_map \subseteq CbsTasks /\ slot_table \subseteq TtTasks
      /\ task_meta \subseteq [pid : Pids, task : Tasks]
      /\ tt_table \subseteq [key : Cpus \X Nat, task : TtTasks]
  BY SeqLength DEF TypeOK
<1>1. \A t \in Tasks : Workload[t] \in Workloads
  BY DEF Workloads
<1>2. /\ \A m \in task_meta : m.task \in Tasks /\ m.pid \in Pids
      /\ \A s \in tt_table : s.task \in Tasks
      /\ \A t \in cbs_map \cup slot_table : t \in Tasks
  BY <1>0 DEF Tasks
<1>3. ASSUME NEW t \in Tasks, Start(t) \/ Exit(t)
      PROVE  CreditInv'
  <2>1. UNCHANGED <<bpf, maps, slot_table, table, next, apply_success, clean, stopped>>
    BY <1>3 DEF Start, Exit
  <2> QED
    BY <2>1 DEF CreditInv, Current, Visited, bpf, maps
<1>4. ASSUME NEW tbl \in Tables, ReceiveTable(tbl)
      PROVE  CreditInv'
  <2>1. /\ next' = 1 /\ next' # 0 /\ next = 0 /\ clean' = clean
        /\ tt_table' = {s \in tt_table : s.key \notin Union(workload_to_slots)}
        /\ cbs_map' = cbs_map \ Union(workload_to_cbs_keys)
    BY <1>4 DEF ReceiveTable
  <2>2. Visited' = {}
    BY <2>1 DEF Visited
  <2>3. clean => tt_table' = {} /\ cbs_map' = {}
    <3> SUFFICES ASSUME clean PROVE tt_table' = {} /\ cbs_map' = {}
      OBVIOUS
    <3>1. apply_success
      BY <2>1 DEF CreditInv
    <3>2. \A s \in tt_table : s.key \in Union(workload_to_slots)
      BY <1>1, <1>2, <3>1 DEF CreditInv, Union
    <3>3. \A t \in cbs_map : t \in Union(workload_to_cbs_keys)
      BY <1>1, <1>2, <3>1 DEF CreditInv, Union
    <3> QED
      BY <2>1, <3>2, <3>3
  <2> QED
    BY <2>1, <2>2, <2>3, Zenon DEF CreditInv
<1>5. ASSUME NEW t \in Tasks, NEW w \in Workloads, w = Workload[t], t = table[next].task,
             Visit(t, w), VisitTt(t, w) \/ VisitCbs(t, w)
      PROVE  CreditInv'
  <2>0. /\ Visit(t, w) /\ (VisitTt(t, w) \/ VisitCbs(t, w))
        /\ t \in Tasks /\ w \in Workloads /\ t = table[next].task
    BY <1>5
  <2>w. w = Workload[t]
    BY <1>5
  <2>1. /\ next' = next + 1 /\ next' # 0 /\ next # 0 /\ next \in 1..Len(table)
        /\ stopped = {} /\ UNCHANGED <<stopped, table, clean, proc>>
        /\ apply_success' => apply_success
    <3>1. /\ next \in 1..Len(table) /\ next' = next + 1
          /\ UNCHANGED <<stopped, table, clean, proc>>
          /\ apply_success' => apply_success
      BY <2>0 DEF Visit
    <3>2. next # 0 /\ next' # 0
      BY <1>0, <3>1
    <3> QED
      BY <3>1, <3>2 DEF CompleteInv
  <2>2. Visited' = Visited \cup {next}
    BY <1>0, <2>1 DEF Visited
  <2>3. /\ \A u : Current(u) => Current(u)'
        /\ Current(t)'
    BY <2>0, <2>1, <2>2, SMTT(30) DEF Current
  <2> SUFFICES ASSUME clean, apply_success'
               PROVE  /\ \A s \in tt_table' : Current(s.task)' /\ s.key \in workload_to_slots'[Workload[s.task]]
                      /\ \A u \in cbs_map' : Current(u)' /\ u \in workload_to_cbs_keys'[Workload[u]]
    BY <2>1, SMTT(30) DEF CreditInv
  <2>4. clean /\ apply_success
    BY <2>1
  <2>5. /\ \A s \in tt_table : Current(s.task) /\ s.key \in workload_to_slots[Workload[s.task]]
        /\ \A u \in cbs_map : Current(u) /\ u \in workload_to_cbs_keys[Workload[u]]
    BY <2>4, ZenonT(60) DEF CreditInv
  <2>6. /\ \A s \in tt_table' : Current(s.task)' /\ s.key \in workload_to_slots'[Workload[s.task]]
        /\ \A u \in cbs_map' : Current(u)' /\ u \in workload_to_cbs_keys'[Workload[u]]
    <3>1. CASE VisitTt(t, w)
      <4>1. /\ tt_table' = WithSlot(SlotOf(t)) /\ workload_to_slots' = Credit(workload_to_slots, w, SlotKey)
            /\ UNCHANGED <<cbs_map, workload_to_cbs_keys>>
            /\ SlotOf(t).key = SlotKey /\ SlotOf(t).task = t
        BY <3>1, SMTT(30) DEF VisitTt, SlotOf
      <4>2. /\ \A x \in Workloads : workload_to_slots[x] \subseteq workload_to_slots'[x]
            /\ SlotKey \in workload_to_slots'[w]
        BY <1>0, <2>0, <4>1 DEF Credit
      <4>3. ASSUME NEW s \in tt_table'
            PROVE  Current(s.task)' /\ s.key \in workload_to_slots'[Workload[s.task]]
        <5>1. CASE s = SlotOf(t)
          BY <2>3, <2>w, <4>1, <4>2, <5>1
        <5>2. CASE s \in tt_table
          BY <1>1, <1>2, <2>3, <2>5, <4>2, <5>2
        <5> QED
          BY <4>1, <4>3, <5>1, <5>2, ZenonT(60) DEF WithSlot
      <4>4. ASSUME NEW u \in cbs_map'
            PROVE  Current(u)' /\ u \in workload_to_cbs_keys'[Workload[u]]
        BY <2>3, <2>5, <4>1, <4>4
      <4> QED
        BY <4>3, <4>4
    <3>2. CASE VisitCbs(t, w)
      <4>1. /\ cbs_map' = cbs_map \cup {t} /\ workload_to_cbs_keys' = Credit(workload_to_cbs_keys, w, t)
            /\ UNCHANGED <<tt_table, workload_to_slots>>
        BY <3>2 DEF VisitCbs
      <4>2. /\ \A x \in Workloads : workload_to_cbs_keys[x] \subseteq workload_to_cbs_keys'[x]
            /\ t \in workload_to_cbs_keys'[w]
        BY <1>0, <2>0, <4>1 DEF Credit
      <4>3. ASSUME NEW s \in tt_table'
            PROVE  Current(s.task)' /\ s.key \in workload_to_slots'[Workload[s.task]]
        BY <2>3, <2>5, <4>1, <4>3
      <4>4. ASSUME NEW u \in cbs_map'
            PROVE  Current(u)' /\ u \in workload_to_cbs_keys'[Workload[u]]
        <5>1. CASE u = t
          BY <2>3, <2>w, <4>2, <5>1
        <5>2. CASE u \in cbs_map
          BY <1>1, <1>2, <2>3, <2>5, <4>2, <5>2
        <5> QED
          BY <4>1, <4>4, <5>1, <5>2
      <4> QED
        BY <4>3, <4>4
    <3> QED
      BY <2>0, <3>1, <3>2
  <2> QED
    BY <2>6
<1>5a. CASE ApplyTt \/ ApplyCbs
  <2>1. /\ Entry.task \in Tasks /\ Workload[Entry.task] \in Workloads
        /\ Entry.task = table[next].task
    BY <1>5a, EntryType DEF ApplyTt, ApplyCbs, Entry
  <2>2. /\ Visit(Entry.task, Workload[Entry.task])
        /\ \/ VisitTt(Entry.task, Workload[Entry.task])
           \/ VisitCbs(Entry.task, Workload[Entry.task])
    BY <1>5a, VisitEffect
  <2> QED
    BY <1>5, <2>1, <2>2
<1>6. CASE Finish
  <2>1. /\ next = Len(table) + 1 /\ next' = 0 /\ slot_table' = Slots(table)
        /\ UNCHANGED <<proc, bpf, maps, table, apply_success, stopped>>
        /\ clean' = (clean /\ apply_success) /\ next # 0
    BY <1>0, <1>6 DEF Finish
  <2>2. Visited' = Visited /\ Visited = 1..Len(table)
    BY <1>0, <2>1 DEF Visited
  <2>3. \A u : Current(u)' <=> Current(u)
    BY <2>1, <2>2 DEF Current
  <2>4. ASSUME apply_success, NEW t \in slot_table'
        PROVE  Current(t)' /\ Workload[t] \in workload_to_hash'
    <3>1. PICK i \in 1..Len(table) : table[i].task = t
      BY <2>1, <2>4 DEF Slots
    <3>2. stopped = {} /\ Complete(t)
      BY <2>1, <2>2, <2>4, <3>1, Zenon DEF CompleteInv
    <3> QED
      BY <2>1, <2>2, <2>3, <3>1, <3>2, Zenon DEF Current, Complete, maps
  <2> QED
    BY <2>1, <2>2, <2>3, <2>4, Zenon DEF CreditInv, bpf, maps
<1>7. ASSUME NEW w \in Workloads, NEW by_hash \in BOOLEAN, Stop(w, by_hash)
      PROVE  CreditInv'
  <2>0. PICK S \in SUBSET Workloads : StopOf(w, S)
    BY <1>7, StopEffect
  <2>1. /\ Visited' = Visited /\ next = 0 /\ stopped' = stopped \cup {w}
        /\ UNCHANGED <<next, apply_success, clean, table, proc>>
        /\ S = {w} \/ (S = {} /\ w \notin workload_hash_to_id)
        /\ workload_to_hash' = workload_to_hash \ S
    BY <2>0 DEF Visited, StopOf
  <2>2. /\ task_meta' = {m \in task_meta : \A v \in S : m.pid \notin workload_to_pids[v]}
        /\ tt_table' = {s \in tt_table : \A v \in S : s.key \notin workload_to_slots[v]}
        /\ slot_table' = {t \in slot_table : Workload[t] \notin S \cap workload_to_hash}
        /\ cbs_map' = {t \in cbs_map : \A v \in S : t \notin workload_to_cbs_keys[v]}
        /\ \A v \in Workloads : v # w => /\ workload_to_pids'[v] = workload_to_pids[v]
                                         /\ workload_to_slots'[v] = workload_to_slots[v]
                                         /\ workload_to_cbs_keys'[v] = workload_to_cbs_keys[v]
    BY <2>0, SMTT(30) DEF StopOf
  <2> SUFFICES ASSUME clean, apply_success
               PROVE  /\ \A s \in tt_table' : Current(s.task)' /\ s.key \in workload_to_slots'[Workload[s.task]]
                      /\ \A u \in cbs_map' : Current(u)' /\ u \in workload_to_cbs_keys'[Workload[u]]
                      /\ \A u \in slot_table' : Current(u)' /\ Workload[u] \in workload_to_hash'
    BY <2>1 DEF CreditInv
  <2>3. ASSUME NEW t \in Tasks, Current(t), Workload[t] # w
        PROVE  Current(t)'
    BY <2>1, <2>3 DEF Current
  <2>4. ASSUME NEW t \in Tasks, Current(t), Workload[t] = w
        PROVE  S = {w}
    BY <2>1, <2>4, SMTT(30) DEF Current, CompleteInv
  <2>5. ASSUME NEW s \in tt_table'
        PROVE  Current(s.task)' /\ s.key \in workload_to_slots'[Workload[s.task]]
    <3>1. s \in tt_table /\ Current(s.task) /\ s.key \in workload_to_slots[Workload[s.task]]
      BY <2>2, <2>5, ZenonT(60) DEF CreditInv
    <3>2. Workload[s.task] # w
      BY <1>2, <2>2, <2>4, <2>5, <3>1, SMTT(30)
    <3> QED
      BY <1>1, <1>2, <2>2, <2>3, <3>1, <3>2
  <2>6. ASSUME NEW u \in cbs_map'
        PROVE  Current(u)' /\ u \in workload_to_cbs_keys'[Workload[u]]
    <3>1. u \in cbs_map /\ Current(u) /\ u \in workload_to_cbs_keys[Workload[u]]
      BY <2>2, <2>6, Zenon DEF CreditInv
    <3>2. Workload[u] # w
      BY <1>2, <2>2, <2>4, <2>6, <3>1
    <3> QED
      BY <1>1, <1>2, <2>2, <2>3, <3>1, <3>2
  <2>7. ASSUME NEW u \in slot_table'
        PROVE  Current(u)' /\ Workload[u] \in workload_to_hash'
    <3>0. next = 0
      BY <2>1, Zenon
    <3>00. u \in slot_table
      BY <2>2, <2>7, Zenon
    <3>1. u \in slot_table /\ Current(u) /\ Workload[u] \in workload_to_hash
      BY <3>0, <3>00, Zenon DEF CreditInv
    <3>2. Workload[u] # w
      BY <1>2, <2>2, <2>4, <2>7, <3>1
    <3> QED
      BY <1>1, <1>2, <2>1, <2>3, <3>1, <3>2, SMTT(30)
  <2> QED
    BY <2>5, <2>6, <2>7
<1>8. CASE UNCHANGED vars
  BY <1>8, ZenonT(60) DEF vars, bpf, maps, CreditInv, Current, Visited
<1> QED
  BY <1>3, <1>4, <1>5a, <1>6, <1>7, <1>8 DEF Next

(* Every step keeps live processes of visited tasks credited. *)
LEMMA TrackStep ==
  ASSUME TypeOK, PidInv, CompleteInv, TrackInv, [Next]_vars
  PROVE  TrackInv'
<1>0. /\ table \in Seq([task : Tasks, cpu : Cpus]) /\ Len(table) \in Nat
      /\ next \in 0..(Len(table) + 1)
      /\ workload_to_pids \in [Workloads -> SUBSET Pids]
      /\ task_meta \subseteq [pid : Pids, task : Tasks]
  BY SeqLength DEF TypeOK
<1>1. \A t \in Tasks : Workload[t] \in Workloads
  BY DEF Workloads
<1>2. \A m \in task_meta : m.task \in Tasks /\ m.pid \in Pids
  BY <1>0
<1>3. ASSUME NEW t \in Tasks, Start(t) \/ Exit(t)
      PROVE  TrackInv'
  <2>1. UNCHANGED <<bpf, maps, table, next, apply_success, stopped>>
    BY <1>3 DEF Start, Exit
  <2>2. ASSUME NEW m \in task_meta, proc'[m.task] = m.pid
        PROVE  proc[m.task] = m.pid
    <3>1. /\ \A u \in Tasks : u # t => proc'[u] = proc[u]
          /\ proc'[t] \in {started + 1, NoPid}
      BY <1>3 DEF Start, Exit, TypeOK
    <3>2. m.pid # started + 1 /\ m.pid # NoPid
      <4>1. m.pid \in Nat /\ m.pid <= started /\ started \in Nat
        BY <1>2, ExecutorAssumption, SMTT(30) DEF PidInv, TypeOK, Pids
      <4>2. m.pid # NoPid
        BY <1>2, ExecutorAssumption
      <4> QED
        BY <4>1, <4>2
    <3> QED
      BY <1>2, <2>2, <3>1, <3>2
  <2> QED
    BY <2>1, <2>2 DEF TrackInv, Current, Visited, bpf, maps
<1>4. ASSUME NEW tbl \in Tables, ReceiveTable(tbl)
      PROVE  TrackInv'
  <2>1. next' = 1 /\ workload_to_pids' = Nothing
    BY <1>4 DEF ReceiveTable
  <2>2. Visited' = {}
    BY <2>1 DEF Visited
  <2> QED
    BY <2>1, <2>2 DEF TrackInv, Nothing
<1>5. ASSUME NEW t \in Tasks, NEW w \in Workloads, w = Workload[t], t = table[next].task,
             Visit(t, w), VisitTt(t, w) \/ VisitCbs(t, w)
      PROVE  TrackInv'
  <2>1. /\ next' = next + 1 /\ next' # 0 /\ next # 0 /\ next \in 1..Len(table)
        /\ stopped = {} /\ UNCHANGED <<stopped, table, proc>>
        /\ apply_success' => apply_success
    <3>1. /\ next \in 1..Len(table) /\ next' = next + 1
          /\ UNCHANGED <<stopped, table, proc>>
          /\ apply_success' => apply_success
      BY <1>5 DEF Visit
    <3>2. next # 0 /\ next' # 0
      BY <1>0, <3>1
    <3> QED
      BY <3>1, <3>2 DEF CompleteInv
  <2>2. Visited' = Visited \cup {next}
    BY <1>0, <2>1 DEF Visited
  <2>3. /\ \A u : Current(u) => Current(u)'
        /\ Current(t)'
    BY <1>5, <2>1, <2>2, SMTT(30) DEF Current
  <2>4. /\ \A x \in Workloads : workload_to_pids[x] \subseteq workload_to_pids'[x]
        /\ \A x \in Workloads : workload_to_pids'[x] # {} => x \in workload_hash_to_id'
    <3>1. CASE UNCHANGED <<workload_to_pids, workload_hash_to_id>>
      BY <3>1 DEF TrackInv
    <3>2. CASE Tracked(t, w)
      BY <1>0, <3>2 DEF TrackInv, Tracked, Credit
    <3> QED
      BY <1>5, <3>1, <3>2 DEF Visit
  <2>5. (t \in TtTasks \/ apply_success') /\ proc[t] # NoPid => proc[t] \in workload_to_pids'[w]
    <3>1. (t \in TtTasks \/ apply_success') /\ proc[t] # NoPid => Tracked(t, w)
      BY <1>5, ExecutorAssumption DEF Visit, VisitTt, VisitCbs
    <3>2. Tracked(t, w) => proc[t] \in workload_to_pids'[w]
      BY <1>0 DEF Tracked, Credit
    <3> QED
      BY <3>1, <3>2
  <2>6. ASSUME NEW m \in task_meta', \E i \in Visited' : table[i].task = m.task,
               proc[m.task] = m.pid, m.task \in TtTasks \/ apply_success'
        PROVE  Current(m.task)' /\ m.pid \in workload_to_pids'[Workload[m.task]]
    <3>1. m \in task_meta \/ (m = Meta(t) /\ proc[t] # NoPid)
      BY <1>5, <2>6 DEF Visit, WithMeta
    <3>2. CASE m.task = t
      <4>1. m.pid # NoPid
        BY <1>2, <2>6, <3>1, <3>2, ExecutorAssumption DEF Meta
      <4> QED
        BY <1>5, <2>3, <2>5, <2>6, <3>2, <4>1
    <3>3. CASE m.task # t
      <4>1. m \in task_meta
        BY <3>1, <3>3 DEF Meta
      <4>2. \E i \in Visited : table[i].task = m.task
        BY <1>5, <2>2, <2>6, <3>3
      <4>3. Current(m.task) /\ m.pid \in workload_to_pids[Workload[m.task]]
        BY <2>1, <2>6, <4>1, <4>2 DEF TrackInv
      <4> QED
        BY <1>1, <1>2, <2>3, <2>4, <4>1, <4>3
    <3> QED
      BY <3>2, <3>3
  <2> QED
    BY <2>1, <2>4, <2>6 DEF TrackInv
<1>5a. CASE ApplyTt \/ ApplyCbs
  <2>1. /\ Entry.task \in Tasks /\ Workload[Entry.task] \in Workloads
        /\ Entry.task = table[next].task
    BY <1>5a, EntryType DEF ApplyTt, ApplyCbs, Entry
  <2>2. /\ Visit(Entry.task, Workload[Entry.task])
        /\ \/ VisitTt(Entry.task, Workload[Entry.task])
           \/ VisitCbs(Entry.task, Workload[Entry.task])
    BY <1>5a, VisitEffect
  <2> QED
    BY <1>5, <2>1, <2>2
<1>6. CASE Finish
  <2>1. /\ next = Len(table) + 1 /\ next' = 0 /\ next # 0
        /\ UNCHANGED <<proc, bpf, maps, table, apply_success, stopped>>
    BY <1>0, <1>6 DEF Finish
  <2>2. Visited' = Visited
    BY <1>0, <2>1 DEF Visited
  <2> QED
    BY <2>1, <2>2 DEF TrackInv, Current, bpf, maps
<1>7. ASSUME NEW w \in Workloads, NEW by_hash \in BOOLEAN, Stop(w, by_hash)
      PROVE  TrackInv'
  <2>0. PICK S \in SUBSET Workloads : StopOf(w, S)
    BY <1>7, StopEffect
  <2>1. /\ Visited' = Visited /\ stopped' = stopped \cup {w}
        /\ UNCHANGED <<apply_success, table, proc, workload_hash_to_id>>
        /\ S = {w} \/ (S = {} /\ w \notin workload_hash_to_id)
        /\ task_meta' = {m \in task_meta : \A v \in S : m.pid \notin workload_to_pids[v]}
    BY <2>0 DEF Visited, StopOf
  <2>2. \A v \in Workloads : /\ workload_to_pids'[v] \subseteq workload_to_pids[v]
                             /\ v # w => workload_to_pids'[v] = workload_to_pids[v]
    BY <2>0 DEF StopOf
  <2>3. ASSUME NEW m \in task_meta', \E i \in Visited : table[i].task = m.task,
               proc[m.task] = m.pid, m.task \in TtTasks \/ apply_success
        PROVE  Current(m.task)' /\ m.pid \in workload_to_pids'[Workload[m.task]]
    <3>1. m \in task_meta /\ Current(m.task) /\ m.pid \in workload_to_pids[Workload[m.task]]
      BY <2>1, <2>3 DEF TrackInv
    <3>2. Workload[m.task] \in Workloads
      BY <1>1, <1>2, <3>1
    <3>3. Workload[m.task] # w
      <4>1. workload_to_pids[w] # {} => S = {w}
        BY <2>1 DEF TrackInv
      <4> QED
        BY <2>1, <2>3, <3>1, <4>1
    <3>4. m.pid \in workload_to_pids'[Workload[m.task]]
      BY <2>2, <3>1, <3>2, <3>3
    <3>5. Current(m.task)'
      BY <2>1, <3>1, <3>3 DEF Current
    <3> QED
      BY <3>4, <3>5
  <2>4. \A v \in Workloads : workload_to_pids'[v] # {} => v \in workload_hash_to_id'
    BY <2>1, <2>2 DEF TrackInv
  <2> QED
    BY <2>1, <2>3, <2>4, Zenon DEF TrackInv
<1>8. CASE UNCHANGED vars
  BY <1>8, ZenonT(60) DEF vars, bpf, maps, TrackInv, Current, Visited
<1> QED
  BY <1>3, <1>4, <1>5a, <1>6, <1>7, <1>8 DEF Next

(* The invariant holds throughout. *)
LEMMA Executor == Spec => [](TypeOK /\ PidInv /\ KeyInv /\ CompleteInv /\ CreditInv /\ TrackInv)
<1>1. Init => TypeOK
  BY ExecutorAssumption DEF Init, TypeOK, Nothing
<1>2. Init => PidInv /\ KeyInv /\ CompleteInv /\ CreditInv /\ TrackInv
  <2>1. Init => PidInv
    BY DEF Init, PidInv, Nothing
  <2>2. Init => KeyInv
    BY DEF Init, KeyInv, Nothing
  <2>3. Init => Visited = {}
    BY DEF Init, Visited
  <2>4. Init => CompleteInv /\ CreditInv
    BY <2>3 DEF Init, CompleteInv, CreditInv
  <2>5. Init => TrackInv
    BY <2>3 DEF Init, TrackInv, Nothing
  <2> QED
    BY <2>1, <2>2, <2>4, <2>5
<1>3. TypeOK /\ PidInv /\ KeyInv /\ CompleteInv /\ CreditInv /\ TrackInv
      /\ [Next]_vars
        => (TypeOK /\ PidInv /\ KeyInv /\ CompleteInv /\ CreditInv /\ TrackInv)'
  BY TypeStep, PidStep, KeyStep, CompleteStep, CreditStep, TrackStep
<1> QED
  BY <1>1, <1>2, <1>3, PTL DEF Spec

(* A table that is answered with success is in the maps, the Timer Master   *)
(* and the daemon's memory completely, whatever processes and workloads     *)
(* there are; its processes are under SCHED_EXT unless sched_setattr        *)
(* failed, which the answer does not tell.                                  *)
THEOREM SuccessMeansInstalled == Spec => []SuccessIsComplete
<1>1. CompleteInv => SuccessIsComplete
  BY SMTT(30) DEF CompleteInv, SuccessIsComplete, Complete, Visited, Live
<1> QED
  BY <1>1, Executor, PTL

(* As long as every table was answered with success, nothing of earlier     *)
(* tables or of stopped workloads stays installed.                          *)
THEOREM NothingLeftOver == Spec => []OnlyCurrentTable
<1>1. CreditInv => OnlyCurrentTable
  BY DEF CreditInv, OnlyCurrentTable, Current, Visited, Live
<1> QED
  BY <1>1, Executor, PTL

(* A STOP reaches every live process of the workload whose task the current *)
(* table names, whatever failed before, except those of CBS tasks in a      *)
(* table that was answered with an error.                                   *)
THEOREM StopReaches == Spec => []StopEvicts
<1>1. TypeOK /\ TrackInv => StopEvicts
  <2> SUFFICES ASSUME TypeOK, TrackInv, next = 0, NEW m \in task_meta,
                      Workload[m.task] \in stopped, \E i \in 1..Len(table) : table[i].task = m.task,
                      proc[m.task] = m.pid
               PROVE  m.task \in CbsTasks /\ ~apply_success
    BY DEF StopEvicts
  <2>1. ~(m.task \in TtTasks \/ apply_success)
    BY DEF TrackInv, Current, Visited
  <2>2. m.task \in Tasks
    BY DEF TypeOK
  <2> QED
    BY <2>1, <2>2 DEF Tasks
<1> QED
  BY <1>1, Executor, PTL
=============================================================================
