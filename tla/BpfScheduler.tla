---------------------------- MODULE BpfScheduler ----------------------------
(***************************************************************************)
(* The sched_ext scheduler of a Timpani node (timpani.bpf.c): the          *)
(* callbacks the kernel makes (select_cpu, enqueue, dispatch, running,     *)
(* stopping), the maps they share with the daemon (task_meta_map, cbs_map, *)
(* tt_runnable_count_map, tt_active_until_map) and the daemon's writes to  *)
(* those maps, which may come at any moment.  The callbacks are operators  *)
(* on a record st of maps and dispatch queues, so that the kernel's        *)
(* Schedule, which calls several of them under the run-queue lock of a     *)
(* CPU, is one step.                                                       *)
(*                                                                         *)
(* The kernel (external): a CPU takes the task at the head of its local    *)
(* queue, else one of the global queue, else it calls dispatch.  A task    *)
(* whose slice is over is stopped and enqueued again, unless the CPU finds *)
(* nothing else to run: timpani_ops does not set SCX_OPS_ENQ_LAST, so the  *)
(* task is then kept with a fresh default slice and no callback is made.   *)
(* An idle CPU schedules only when it is asked to.                         *)
(*                                                                         *)
(* Time is counted in ticks.  replenish_at_ns is kept as the distance      *)
(* "due" from now, and exec_start_ns as the time executed since, -1 for    *)
(* "not running" (0 in the code).  us_until_next_tt is any number of       *)
(* ticks.  The faults that stopping emits are the input of FaultReport.    *)
(*                                                                         *)
(* tt_runnable_count_map is a plain array: "+= 1" and "-= 1" are a read    *)
(* and a write without atomicity.  The counter of a CPU is changed on that *)
(* CPU, with one exception: a task that runs elsewhere when the daemon has *)
(* moved it is enqueued, and counted, by the CPU it leaves.  Such a mark   *)
(* may collide with a change by the CPU itself, and a task that wakes is   *)
(* enqueued under the lock of the CPU that select_cpu has named.           *)
(***************************************************************************)
EXTENDS Integers, Sequences, FiniteSets, Functions

CONSTANTS
  TtTasks,          \* tasks of type SCHED_TYPE_TT
  CbsTasks,         \* tasks of type SCHED_TYPE_CBS
  Cpus,
  Isolated,         \* isolated_cpu_mask
  Budget, Period,   \* budget_us and period_us of a CBS task, in ticks
  SCX_SLICE_DFL,    \* the default slice, in ticks
  PROMOTE_BUDGET,   \* entries of DSQ_THROTTLED one dispatch looks at
  MaxWrites,        \* bound on the daemon's map writes
  None

Tasks == TtTasks \cup CbsTasks
Shared == {"CBS", "THROTTLED", "GLOBAL"}

ASSUME BpfAssumption ==
  /\ TtTasks \cap CbsTasks = {} /\ IsFiniteSet(TtTasks)
  /\ Cpus \cap Shared = {}
  /\ Isolated \subseteq Cpus
  /\ Budget \in Nat \ {0} /\ Period \in Nat /\ Period >= Budget
  /\ SCX_SLICE_DFL \in Nat \ {0}
  /\ PROMOTE_BUDGET \in Nat \ {0}
  /\ MaxWrites \in Nat
  /\ None \notin Tasks \cup Cpus

VARIABLES
  st,       \* maps and queues: task_meta, cbs_map, tt_runnable_count,
            \* tt_active_until (TRUE = TT_ACTIVE_RUNNING), dsq; the slice left
            \* on each CPU, the CPUs asked to schedule (resched, kicked), and
            \* whether a mark has ever collided (collided, a history)
  curr,     \* the task each CPU runs, None when it is idle
  writes,   \* map writes of the daemon so far
  used,     \* history: ticks a CBS task ran since its budget was last filled
  kept,     \* history: CBS tasks the kernel kept past their slice since then
  hit       \* history: tasks whose entries were written while they were runnable

vars == <<st, curr, writes, used, kept, hit>>

NoMeta == [assigned_cpu |-> None, tt_runnable |-> FALSE]
NoCbs == [remaining |-> -1, exec |-> -1, due |-> 0]

MetaOn(c) == [assigned_cpu |-> c, tt_runnable |-> FALSE]
FullCbs == [remaining |-> Budget, exec |-> -1, due |-> Period]

HasMeta(s, t) == s.task_meta[t] # NoMeta
HasCbs(s, t) == s.cbs_map[t] # NoCbs

-----------------------------------------------------------------------------
(* Helpers of the BPF program. *)

(* replenish_at_ns += (elapsed / period + 1) * period, as a distance. *)
NextDue(due) == Period - ((-due) % Period)

cbs_lazy_replenish(s, t) ==
  LET b == s.cbs_map[t]
  IN  IF b.due > 0 THEN s
      ELSE [s EXCEPT !.cbs_map[t] =
              [remaining |-> Budget, exec |-> b.exec, due |-> NextDue(b.due)]]

TtActiveOffByOne(s, c) == s.tt_runnable_count[c] > 1

tt_active_on_cpu(s, c) == s.tt_runnable_count[c] > 0 \/ s.tt_active_until[c]

(* What a mark adds to the counter and leaves in tt_active_until: alone it  *)
(* counts one task.                                                         *)
Alone == [count |-> 1, active |-> TRUE]

(* The task is enqueued by CPU c and counted on another. *)
Foreign(s, t, c) ==
  t \in TtTasks /\ s.task_meta[t].assigned_cpu \in Isolated \ {c}

(* Against one change that the CPU counted on has just made: the mark or    *)
(* that decrement is lost, and either write to tt_active_until is the last. *)
Marks(s, t, c) ==
  IF Foreign(s, t, c) THEN [count : 0..2, active : BOOLEAN] ELSE {Alone}

mark_tt_runnable(s, t, c, m) ==
  [s EXCEPT !.tt_runnable_count[c] =
              IF s.task_meta[t].tt_runnable THEN @ ELSE @ + m.count,
            !.task_meta[t].tt_runnable = TRUE,
            !.tt_active_until[c] = m.active,
            !.collided = @ \/ m # Alone]

MarkNotRunnableKeepsFlag(s, t, c) ==
  [s EXCEPT !.tt_runnable_count[c] = IF @ > 0 THEN @ - 1 ELSE @]

MarkNotRunnableStaysActive(s, t, c) ==
  IF ~s.task_meta[t].tt_runnable THEN s
  ELSE [s EXCEPT !.tt_runnable_count[c] = IF @ > 0 THEN @ - 1 ELSE @,
                 !.task_meta[t].tt_runnable = FALSE]

mark_tt_not_runnable(s, t, c) ==
  IF ~s.task_meta[t].tt_runnable THEN s
  ELSE LET n == s.tt_runnable_count[c]
           left == IF n > 0 THEN n - 1 ELSE n
       IN  [s EXCEPT !.tt_runnable_count[c] = left,
                     !.task_meta[t].tt_runnable = FALSE,
                     !.tt_active_until[c] = IF left = 0 THEN FALSE ELSE @]

(* scx_bpf_dispatch: the task goes to a queue, with the default slice. *)
Insert(s, t, q) == [s EXCEPT !.dsq[q] = Append(@, t)]

(* SCX_DSQ_LOCAL_ON with SCX_ENQ_PREEMPT puts the task at the head of the   *)
(* CPU's own queue, and SCX_KICK_PREEMPT ends the slice of what it runs.    *)
InsertPreempt(s, t, c) ==
  [s EXCEPT !.dsq[c] = <<t>> \o @, !.kicked = @ \cup {c}]

(* SCX_KICK_IDLE, and a wake-up that finds its CPU idle. *)
KickIdle(s, C) ==
  [s EXCEPT !.resched = @ \cup {c \in C \cap Cpus : curr[c] = None}]

(* Queue q without task t. *)
Without(q, t) ==
  LET upto[n \in 0..Len(q)] == IF n = 0 THEN <<>>
                               ELSE IF q[n] = t THEN upto[n - 1]
                               ELSE Append(upto[n - 1], q[n])
  IN  upto[Len(q)]

Move(s, t, from, to) ==
  [s EXCEPT !.dsq[from] = Without(@, t), !.dsq[to] = Append(s.dsq[to], t)]

PromoteNoReplenish(s, t, c) ==
  IF ~HasMeta(s, t) \/ ~HasCbs(s, t) \/ s.cbs_map[t].remaining = 0 THEN s
  ELSE KickIdle(Move(s, t, "THROTTLED", "CBS"), {s.task_meta[t].assigned_cpu} \ {c})

(* One entry of DSQ_THROTTLED: skipped when the daemon took its entries away. *)
PromoteOne(s, t, c) ==
  IF ~HasMeta(s, t) \/ ~HasCbs(s, t) THEN s
  ELSE LET r == cbs_lazy_replenish(s, t)
       IN  IF r.cbs_map[t].remaining = 0 THEN r
           ELSE KickIdle(Move(r, t, "THROTTLED", "CBS"),
                         {r.task_meta[t].assigned_cpu} \ {c})

promote_throttled_if_replenished(s, c) ==
  LET q == s.dsq["THROTTLED"]
      n == IF Len(q) < PROMOTE_BUDGET THEN Len(q) ELSE PROMOTE_BUDGET
      upto[i \in 0..n] == IF i = 0 THEN s ELSE PromoteOne(upto[i - 1], q[i], c)
  IN  upto[n]

-----------------------------------------------------------------------------
(* The callbacks. *)

(* The assigned CPU when it is isolated, else where the task ran before. *)
select_cpu(s, t) ==
  IF s.task_meta[t].assigned_cpu \in Isolated
  THEN {s.task_meta[t].assigned_cpu}
  ELSE Cpus

enqueue_tt(s, t, m) ==
  LET c == s.task_meta[t].assigned_cpu
  IN  IF c \in Isolated THEN InsertPreempt(mark_tt_runnable(s, t, c, m), t, c)
      ELSE Insert(s, t, "GLOBAL")

enqueue_cbs(s, t) ==
  IF ~HasCbs(s, t) THEN Insert(s, t, "GLOBAL")
  ELSE LET r == cbs_lazy_replenish(s, t)
       IN  Insert(r, t, IF r.cbs_map[t].remaining = 0 THEN "THROTTLED" ELSE "CBS")

enqueue(s, t, m) ==
  IF ~HasMeta(s, t) THEN Insert(s, t, "GLOBAL")
  ELSE IF t \in TtTasks THEN enqueue_tt(s, t, m) ELSE enqueue_cbs(s, t)

dispatch(s, c) ==
  IF tt_active_on_cpu(s, c) THEN s
  ELSE LET r == promote_throttled_if_replenished(s, c)
       IN  IF r.dsq["CBS"] = <<>> THEN r
           ELSE Move(r, Head(r.dsq["CBS"]), "CBS", c)

RunningFullSlice(s, t, c, until_tt) ==
  IF t \in TtTasks \/ ~HasMeta(s, t) \/ ~HasCbs(s, t) THEN s
  ELSE [cbs_lazy_replenish(s, t) EXCEPT !.cbs_map[t].exec = 0,
          !.slice[c] = IF until_tt < Budget THEN until_tt ELSE Budget]

(* Never 0 as long as TT slots lie ahead, and without a bound otherwise; a  *)
(* distance beyond the budget is as good as the budget.                     *)
us_until_next_tt == 1..Budget

(* The slice is what remains, cut at the next TT start and at least a unit. *)
running(s, t, c, until_tt) ==
  IF t \in TtTasks \/ ~HasMeta(s, t) \/ ~HasCbs(s, t) THEN s
  ELSE LET r == cbs_lazy_replenish(s, t)
           left == r.cbs_map[t].remaining
           effective == IF until_tt < left THEN until_tt ELSE left
       IN  [r EXCEPT !.cbs_map[t].exec = 0,
                     !.slice[c] = IF effective = 0 THEN 1 ELSE effective]

(* With no budget left a replenishment that is already due is passed over. *)
stopping_cbs(s, t) ==
  LET b == s.cbs_map[t]
      left == IF b.exec >= b.remaining THEN 0 ELSE b.remaining - b.exec
  IN  IF b.exec < 0 THEN s
      ELSE [s EXCEPT !.cbs_map[t] =
              [remaining |-> left, exec |-> -1,
               due |-> IF left = 0 /\ b.due <= 0 THEN NextDue(b.due) ELSE b.due]]

stopping(s, t, c, runnable) ==
  IF ~HasMeta(s, t) THEN s
  ELSE IF t \in CbsTasks THEN IF HasCbs(s, t) THEN stopping_cbs(s, t) ELSE s
  ELSE IF runnable THEN s ELSE mark_tt_not_runnable(s, t, c)

-----------------------------------------------------------------------------
(* The kernel. *)

Idle == [c \in Cpus |-> None]

Init ==
  /\ \E home \in [Tasks -> Cpus] :
       st = [task_meta |-> [t \in Tasks |-> MetaOn(home[t])],
             cbs_map |-> [t \in CbsTasks |-> FullCbs],
             tt_runnable_count |-> [c \in Cpus |-> 0],
             tt_active_until |-> [c \in Cpus |-> FALSE],
             dsq |-> [q \in Shared \cup Cpus |-> <<>>],
             slice |-> [c \in Cpus |-> 0],
             resched |-> {}, kicked |-> {}, collided |-> FALSE]
  /\ curr = Idle
  /\ writes = 0
  /\ used = [t \in CbsTasks |-> 0]
  /\ kept = {}
  /\ hit = {}

Queued(t) == \E q \in Shared \cup Cpus : t \in Range(st.dsq[q])
OnCpu(t) == \E c \in Cpus : curr[c] = t
Runnable(t) == Queued(t) \/ OnCpu(t)

(* A step that fills a task's budget starts its account anew. *)
Account ==
  LET b == st.cbs_map
      Filled(t) == \/ b[t].remaining < st'.cbs_map[t].remaining
                   \/ b[t].due < st'.cbs_map[t].due /\ st'.cbs_map[t].remaining > 0
  IN  /\ used' = [t \in CbsTasks |-> IF Filled(t) THEN 0 ELSE used[t]]
      /\ kept' = {t \in kept : ~Filled(t)}

(* What the CPU can run: its local queue, the global queue, then dispatch. *)
Balance(s, c) ==
  IF s.dsq[c] # <<>> THEN s
  ELSE IF s.dsq["GLOBAL"] # <<>> THEN Move(s, Head(s.dsq["GLOBAL"]), "GLOBAL", c)
  ELSE dispatch(s, c)

Start(s, t, c, until_tt) ==
  running([s EXCEPT !.dsq[c] = Without(@, t), !.slice[c] = SCX_SLICE_DFL],
          t, c, until_tt)

Answered(c) == [st EXCEPT !.resched = @ \ {c}, !.kicked = @ \ {c}]

(* An idle CPU that is asked to schedule looks for a task. *)
Pick(s, c) ==
  \E b \in {Balance(s, c)} :
    \/ /\ b.dsq[c] = <<>>
       /\ st' = [b EXCEPT !.slice[c] = 0]
       /\ curr' = [curr EXCEPT ![c] = None]
    \/ /\ b.dsq[c] # <<>>
       /\ \E until_tt \in us_until_next_tt : st' = Start(b, Head(b.dsq[c]), c, until_tt)
       /\ curr' = [curr EXCEPT ![c] = Head(b.dsq[c])]

Schedule(c) ==
  /\ curr[c] = None
  /\ c \in st.resched \cup st.kicked
  /\ Pick(Answered(c), c)
  /\ Account
  /\ UNCHANGED <<writes, hit>>

(* The slice of the task on the CPU is over, or the CPU is kicked: another  *)
(* task takes over and the old one is enqueued; with none it is kept.       *)
Keep(b, c) ==
  /\ b.dsq[c] = <<>>
  /\ st' = [b EXCEPT !.slice[c] = SCX_SLICE_DFL]
  /\ kept' = kept \cup ({curr[c]} \cap CbsTasks)
  /\ UNCHANGED <<curr, used>>

Switch(b, c) ==
  /\ b.dsq[c] # <<>>
  /\ \E m \in Marks(b, curr[c], c), until_tt \in us_until_next_tt :
       st' = Start(enqueue(stopping(b, curr[c], c, TRUE), curr[c], m),
                   Head(b.dsq[c]), c, until_tt)
  /\ curr' = [curr EXCEPT ![c] = Head(b.dsq[c])]
  /\ Account

Expire(c) ==
  /\ curr[c] # None
  /\ st.slice[c] = 0 \/ c \in st.kicked
  /\ \E b \in {Balance(Answered(c), c)} : Keep(b, c) \/ Switch(b, c)
  /\ UNCHANGED <<writes, hit>>

(* The task on the CPU waits for its next period or event. *)
Block(c) ==
  /\ curr[c] # None
  /\ Pick(stopping(Answered(c), curr[c], c, FALSE), c)
  /\ Account
  /\ UNCHANGED <<writes, hit>>

Wake(t) ==
  /\ ~Runnable(t)
  /\ \E c \in select_cpu(st, t) : st' = KickIdle(enqueue(st, t, Alone), {c})
  /\ Account
  /\ UNCHANGED <<curr, writes, hit>>

(* Something else makes an idle CPU schedule. *)
Interrupt(c) ==
  /\ curr[c] = None
  /\ c \notin st.resched
  /\ st' = [st EXCEPT !.resched = @ \cup {c}]
  /\ UNCHANGED <<curr, writes, used, kept, hit>>

(* Time passes once no CPU has anything to decide. *)
Settled ==
  /\ st.resched = {} /\ st.kicked = {}
  /\ \A c \in Cpus : curr[c] # None => st.slice[c] > 0

Tick ==
  LET Later(b) == IF b.due > 0 THEN b.due - 1
                  ELSE IF b.due - 1 <= -Period THEN 0 ELSE b.due - 1
      Longer(b) == IF b.exec \in 0..Budget THEN b.exec + 1 ELSE b.exec
      Accounted(t) == OnCpu(t) /\ st.cbs_map[t].exec >= 0
  IN  /\ Settled
      /\ st' = [st EXCEPT
           !.slice = [c \in Cpus |-> IF curr[c] = None THEN 0 ELSE st.slice[c] - 1],
           !.cbs_map = [t \in CbsTasks |->
              IF ~HasCbs(st, t) THEN NoCbs
              ELSE [remaining |-> st.cbs_map[t].remaining,
                    exec |-> Longer(st.cbs_map[t]), due |-> Later(st.cbs_map[t])]]]
      /\ used' = [t \in CbsTasks |->
           IF Accounted(t) /\ used[t] <= Budget THEN used[t] + 1 ELSE used[t]]
      /\ UNCHANGED <<curr, writes, kept, hit>>

-----------------------------------------------------------------------------
(* The daemon's map writes (main.cpp, the table and recovery callbacks). *)

Write(t) ==
  /\ writes < MaxWrites
  /\ writes' = writes + 1
  /\ hit' = IF Runnable(t) THEN hit \cup {t} ELSE hit
  /\ Account
  /\ UNCHANGED curr

update_task_meta(t, c) == st' = [st EXCEPT !.task_meta[t] = MetaOn(c)] /\ Write(t)

delete_task_meta(t) ==
  HasMeta(st, t) /\ st' = [st EXCEPT !.task_meta[t] = NoMeta] /\ Write(t)

update_cbs_state(t) == st' = [st EXCEPT !.cbs_map[t] = FullCbs] /\ Write(t)

delete_cbs_state(t) ==
  HasCbs(st, t) /\ st' = [st EXCEPT !.cbs_map[t] = NoCbs] /\ Write(t)

Daemon ==
  \/ \E t \in Tasks, c \in Cpus : update_task_meta(t, c)
  \/ \E t \in Tasks : delete_task_meta(t)
  \/ \E t \in CbsTasks : update_cbs_state(t)
  \/ \E t \in CbsTasks : delete_cbs_state(t)

Next ==
  \/ \E c \in Cpus : Schedule(c) \/ Expire(c) \/ Block(c) \/ Interrupt(c)
  \/ \E t \in Tasks : Wake(t)
  \/ Tick
  \/ Daemon

Spec == Init /\ [][Next]_vars

(* Time passes, whatever happens meanwhile; a CPU that has to schedule does, *)
(* and every TT task goes on waking (the Timer Master's slots) and finishing *)
(* its work.  For the steps of a CPU weak fairness is written with the guard *)
(* that enables them.                                                        *)
MustSchedule(c) ==
  IF curr[c] = None THEN c \in st.resched \cup st.kicked
  ELSE st.slice[c] = 0 \/ c \in st.kicked

TtBlock(c) == curr[c] \in TtTasks /\ Block(c)

FairSpec ==
  /\ Spec
  /\ []<><<Tick>>_vars
  /\ \A c \in Cpus :
       /\ []<>~MustSchedule(c) \/ []<><<Schedule(c) \/ Expire(c)>>_vars
       /\ []<>(curr[c] \notin TtTasks) \/ []<><<TtBlock(c)>>_vars
  /\ \A t \in TtTasks : WF_vars(Wake(t))

-----------------------------------------------------------------------------
(* Properties. *)

Flagged(c) == {t \in TtTasks : st.task_meta[t] = [assigned_cpu |-> c, tt_runnable |-> TRUE]}

(* mark_tt_runnable, mark_tt_not_runnable: whatever the daemon writes and   *)
(* wherever a task is moved to, the counter of a CPU is never lower than    *)
(* the number of TT tasks flagged runnable on it, so dispatch never takes   *)
(* the CPU for free while one of them waits -- until two CPUs have changed  *)
(* one counter at the same time, which the code does not exclude.           *)
NoUndercount ==
  ~st.collided =>
    \A c \in Cpus : /\ st.tt_runnable_count[c] >= Cardinality(Flagged(c))
                    /\ Flagged(c) # {} => st.tt_active_until[c]

(* mark_tt_runnable, mark_tt_not_runnable: unless the daemon wrote the      *)
(* entry of a TT task while it was runnable, a CPU counts as TT-active only *)
(* while some TT task really is runnable there: every mark is taken back.   *)
GapIsFree ==
  hit \cap TtTasks = {} =>
    \A c \in Cpus : tt_active_on_cpu(st, c) =>
      \E t \in TtTasks : curr[c] = t \/ t \in Range(st.dsq[c])

(* enqueue: "kick that CPU with preemption so TT always wins over running   *)
(* CBS work".  A CPU that runs a CBS task while a TT task is runnable there *)
(* has a preemption pending, even when the counter is wrong; and as long as *)
(* no mark has collided, a TT task that is still runnable when its slice is *)
(* over loses the CPU to no task of the CBS queues.                         *)
TtWins ==
  [][\A c \in Cpus :
       /\ curr'[c] \in CbsTasks /\ Flagged(c)' # {} => c \in st'.kicked
       /\ /\ ~st.collided
          /\ curr[c] \in Flagged(c) /\ curr'[c] # curr[c] /\ curr[c] \in Flagged(c)'
          => curr'[c] \notin Range(st.dsq["CBS"]) \cup Range(st.dsq["THROTTLED"])]_vars

(* running, stopping: between two replenishments a task executes no longer  *)
(* than its budget, except when the kernel keeps it on a CPU that has       *)
(* nothing else to run, or the daemon wrote its entry while it was runnable. *)
BudgetRespected ==
  \A t \in CbsTasks \ (kept \cup hit) : used[t] <= Budget

(* No task was evicted, and no entry written while its task was runnable. *)
Undisturbed ==
  /\ hit = {}
  /\ \A t \in Tasks : HasMeta(st, t)
  /\ \A t \in CbsTasks : HasCbs(st, t)

(* dispatch, promote_throttled_if_replenished: as long as the daemon evicts *)
(* no task and writes no entry of a runnable one, a CBS task that waits,    *)
(* throttled or not, gets a CPU, unless from some moment on TT tasks leave  *)
(* no gap on one of the CPUs (an idle CPU is not woken in its place).       *)
CbsServed ==
  \A t \in CbsTasks :
    (Queued(t) /\ Undisturbed) ~>
      (OnCpu(t) \/ ~Undisturbed \/ \E c \in Cpus : []tt_active_on_cpu(st, c))
=============================================================================
