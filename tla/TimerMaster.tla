---------------------------- MODULE TimerMaster ----------------------------
(***************************************************************************)
(* The life of the timer threads of a node: start(), stop() and the        *)
(* destructor called by main(), set_schedule_table() and remove_workload() *)
(* called by the callbacks of the stream thread, one thread for every CPU  *)
(* of the table, and the two mutexes between them.                         *)
(*                                                                         *)
(* Time is counted in ticks and kept as differences: a thread knows how    *)
(* long it is until its target, `since` is the time since the epoch of the *)
(* table, taken modulo the hyperperiod once it has passed, and the starts  *)
(* published for the BPF scheduler are counted from now.  What             *)
(* set_schedule_table() publishes in shared memory is in module TtSched.   *)
(***************************************************************************)
EXTENDS Integers, Sequences, Functions

CONSTANTS
  Cpus,
  Tables,            \* [slots |-> sequence of [cpu, offset, workload] sorted by offset,
                     \*  hp |-> hyperperiod, epoch |-> epoch minus the current time, or NoEpoch]
  NoEpoch,           \* epoch_ns of a table without one is 0
  NoCpu,             \* stands for the CPU of the idle thread
  NoStart,           \* next_tt_start_map holds 0 for a CPU before the first write
  MaxVersions,       \* bound: changes of slot_table_
  MaxLate            \* bound: ticks a timer thread may be late

Slots == UNION {Range(t.slots) : t \in Tables}

\* By offset, as set_schedule_table() sorts them; a slot lies within the
\* hyperperiod.
Ordered(slots, hp) ==
  \A i, j \in 1..Len(slots) :
    /\ i < j => slots[i].offset <= slots[j].offset
    /\ hp > 0 => slots[i].offset <= hp

ASSUME ConstantsAssumption ==
  /\ MaxVersions \in Nat
  /\ MaxLate \in Nat
  /\ NoCpu \notin Cpus /\ NoStart \notin Int
  /\ \A t \in Tables :
       /\ t.hp \in Nat
       /\ t.epoch \in Int \cup {NoEpoch}
       /\ t.slots \in Seq(Slots) /\ Ordered(t.slots, t.hp)
  /\ \A s \in Slots : s.cpu \in Cpus /\ s.offset \in Nat

Callers == {"main", "stream"}

VARIABLES
  pc,                     \* of the main thread and of the stream thread
  running, table_pending,
  slot_table, hyperperiod, epoch, since,
  version,                \* history: number of changes of slot_table_
  lifecycle_mutex, schedule_mutex,
  cpu_threads,            \* the threads not joined yet, by version of their table and CPU
  next_tt_start           \* next_tt_start_map, counted from now

lockVars == <<lifecycle_mutex, schedule_mutex>>
tableVars == <<slot_table, hyperperiod, epoch, since, version>>
vars == <<pc, running, table_pending, tableVars, lockVars, cpu_threads, next_tt_start>>

Free == "free"
NoThreads == [k \in {} |-> 0]

Init ==
  /\ pc = [main |-> "start", stream |-> "closed"]
  /\ running = FALSE
  /\ table_pending = FALSE
  /\ slot_table = <<>>
  /\ hyperperiod = 0
  /\ epoch = NoEpoch
  /\ since = 0
  /\ version = 0
  /\ lifecycle_mutex = Free
  /\ schedule_mutex = Free
  /\ cpu_threads = NoThreads
  /\ next_tt_start = [c \in Cpus |-> NoStart]

Goto(c, there) == pc' = [pc EXCEPT ![c] = there]

-----------------------------------------------------------------------------
(* start() and stop() *)

\* stop() is entered, by itself or at the beginning of start().
StopBegin(c) ==
  /\ pc[c] \in {"start", "stop", "dtor"}
  /\ lifecycle_mutex = Free
  /\ lifecycle_mutex' = c
  /\ running' = FALSE
  /\ Goto(c, CASE pc[c] = "start" -> "start_join" [] pc[c] = "stop" -> "stop_join"
               [] pc[c] = "dtor" -> "dtor_join")
  /\ UNCHANGED <<table_pending, tableVars, schedule_mutex, cpu_threads, next_tt_start>>

Joinable == \A k \in DOMAIN cpu_threads : cpu_threads[k].pc = "done"

\* Seeded fault: the threads are let go, not joined.
StopJoinDetach(c) ==
  /\ pc[c] \in {"start_join", "stop_join", "dtor_join"}
  /\ cpu_threads' = cpu_threads
  /\ \/ /\ pc[c] = "start_join"
        /\ running' = TRUE
        /\ table_pending' = FALSE
        /\ Goto(c, "partition")
        /\ UNCHANGED lifecycle_mutex
     \/ /\ pc[c] # "start_join"
        /\ lifecycle_mutex' = Free
        /\ Goto(c, IF pc[c] = "stop_join" THEN "disconnect" ELSE "gone")
        /\ UNCHANGED <<running, table_pending>>
  /\ UNCHANGED <<tableVars, schedule_mutex, next_tt_start>>

\* The threads are joined; start() goes on, stop() releases the mutex.
StopJoin(c) ==
  /\ pc[c] \in {"start_join", "stop_join", "dtor_join"}
  /\ Joinable
  /\ cpu_threads' = NoThreads
  /\ \/ /\ pc[c] = "start_join"
        /\ running' = TRUE
        /\ table_pending' = FALSE
        /\ Goto(c, "partition")
        /\ UNCHANGED lifecycle_mutex
     \/ /\ pc[c] # "start_join"
        /\ lifecycle_mutex' = Free
        /\ Goto(c, IF pc[c] = "stop_join" THEN "disconnect" ELSE "gone")
        /\ UNCHANGED <<running, table_pending>>
  /\ UNCHANGED <<tableVars, schedule_mutex, next_tt_start>>

\* The elements of s that are in P, in their order.
Kept(s, P) ==
  LET upto[n \in 0..Len(s)] == IF n = 0 THEN <<>>
                               ELSE IF s[n] \in P THEN Append(upto[n - 1], s[n])
                               ELSE upto[n - 1]
  IN upto[Len(s)]

SlotsOf(cpu) == Kept(slot_table, {s \in Range(slot_table) : s.cpu = cpu})

\* `late` is by how much the thread was late when it last published the start of
\* its next slot.
Unpublished == 0 - 1

Thread(slots) == [pc |-> "loop", slots |-> slots, hp |-> hyperperiod, next |-> 1, left |-> 0,
                  late |-> Unpublished]

\* One thread for every CPU with slots, or one that polls when there is none.
StartPartition(c) ==
  /\ pc[c] = "partition"
  /\ schedule_mutex = Free
  /\ LET used == {slot_table[i].cpu : i \in 1..Len(slot_table)}
         spawned == IF used = {} THEN {NoCpu} ELSE used
         new == {<<version, cpu>> : cpu \in spawned}
     IN cpu_threads' = [k \in DOMAIN cpu_threads \cup new |->
                          IF k \in new THEN Thread(SlotsOf(k[2])) ELSE cpu_threads[k]]
  /\ lifecycle_mutex' = Free
  /\ Goto(c, IF c = "main" THEN "connect" ELSE "idle")
  /\ UNCHANGED <<running, table_pending, tableVars, schedule_mutex, next_tt_start>>

-----------------------------------------------------------------------------
(* main() *)

Connect ==
  /\ pc["main"] = "connect"
  /\ pc' = [main |-> "up", stream |-> "idle"]
  /\ UNCHANGED <<running, table_pending, tableVars, lockVars, cpu_threads, next_tt_start>>

\* g_shutdown is seen: timer_master.stop() is called.
ShutdownSignal ==
  /\ pc["main"] = "up"
  /\ Goto("main", "stop")
  /\ UNCHANGED <<running, table_pending, tableVars, lockVars, cpu_threads, next_tt_start>>

\* Seeded fault: the destructor takes it that the threads are stopped.
DisconnectExits ==
  /\ pc["main"] = "disconnect"
  /\ pc["stream"] = "idle"
  /\ pc' = [main |-> "gone", stream |-> "closed"]
  /\ UNCHANGED <<running, table_pending, tableVars, lockVars, cpu_threads, next_tt_start>>

\* disconnect() waits for the stream thread, callbacks included; the destructor
\* of TimerMaster comes after it.
Disconnect ==
  /\ pc["main"] = "disconnect"
  /\ pc["stream"] = "idle"
  /\ pc' = [main |-> "dtor", stream |-> "closed"]
  /\ UNCHANGED <<running, table_pending, tableVars, lockVars, cpu_threads, next_tt_start>>

-----------------------------------------------------------------------------
(* The callbacks, on the stream thread *)

\* set_schedule_table() takes the mutex and changes the table ...
SetScheduleTable(t) ==
  /\ pc["stream"] = "idle"
  /\ version < MaxVersions
  /\ schedule_mutex = Free
  /\ schedule_mutex' = "stream"
  /\ slot_table' = t.slots
  /\ hyperperiod' = t.hp
  /\ epoch' = t.epoch
  /\ since' = IF t.epoch = NoEpoch THEN 0 ELSE 0 - t.epoch
  /\ version' = version + 1
  /\ table_pending' = TRUE
  /\ Goto("stream", "restart")
  /\ UNCHANGED <<running, lifecycle_mutex, cpu_threads, next_tt_start>>

\* ... and so does remove_workload() when the workload has a slot.
RemoveWorkload(w) ==
  /\ pc["stream"] = "idle"
  /\ version < MaxVersions
  /\ schedule_mutex = Free
  /\ \E i \in 1..Len(slot_table) : slot_table[i].workload = w
  /\ schedule_mutex' = "stream"
  /\ slot_table' = Kept(slot_table, {s \in Range(slot_table) : s.workload # w})
  /\ version' = version + 1
  /\ table_pending' = TRUE
  /\ Goto("stream", "restart")
  /\ UNCHANGED <<running, hyperperiod, epoch, since, lifecycle_mutex, cpu_threads,
                 next_tt_start>>

\* Seeded fault: start() is called with the mutex held.
RestartLocked ==
  /\ pc["stream"] = "restart"
  /\ schedule_mutex' = IF running THEN schedule_mutex ELSE Free
  /\ Goto("stream", IF running THEN "start" ELSE "idle")
  /\ UNCHANGED <<running, table_pending, tableVars, lifecycle_mutex, cpu_threads,
                 next_tt_start>>

\* The mutex is released, and start() called if the timers are running.
Restart ==
  /\ pc["stream"] = "restart"
  /\ schedule_mutex' = Free
  /\ Goto("stream", IF running THEN "start" ELSE "idle")
  /\ UNCHANGED <<running, table_pending, tableVars, lifecycle_mutex, cpu_threads,
                 next_tt_start>>

-----------------------------------------------------------------------------
(* cpu_thread_loop, in thread k *)

Become(k, from, new) ==
  /\ cpu_threads[k].pc = from
  /\ cpu_threads' = [cpu_threads EXCEPT ![k] = new]
  /\ UNCHANGED <<pc, running, table_pending, tableVars, lifecycle_mutex>>

Continue == running /\ ~table_pending

\* Seeded fault: catch-up goes back to the cycle that has begun.
CatchUpCurrent(hp) ==
  IF epoch = NoEpoch THEN 0 ELSE IF since <= 0 THEN 0 - since ELSE 0

\* Time until the first cycle: now without an epoch, the epoch when it is still
\* to come, otherwise the next whole number of hyperperiods after it.
CatchUp(hp) ==
  IF epoch = NoEpoch THEN 0 ELSE IF since <= 0 THEN 0 - since ELSE hp - (since % hp)

Offset(th, i) == th.slots[i].offset

\* The outer loop: a thread without slots polls, any other finds its first cycle.
ThreadLoop(k) ==
  LET th == cpu_threads[k]
  IN /\ Become(k, "loop",
          IF ~Continue THEN [th EXCEPT !.pc = "done"]
          ELSE IF th.slots = <<>> \/ th.hp = 0 THEN [th EXCEPT !.pc = "poll"]
          ELSE [th EXCEPT !.pc = "check", !.next = 1, !.late = Unpublished,
                          !.left = CatchUp(th.hp) + Offset(th, 1)])
     /\ UNCHANGED <<schedule_mutex, next_tt_start>>

ThreadPoll(k) ==
  /\ ~Continue
  /\ Become(k, "poll", [cpu_threads[k] EXCEPT !.pc = "done"])
  /\ UNCHANGED <<schedule_mutex, next_tt_start>>

\* The inner loop: the flags are looked at before the thread sleeps ...
ThreadCheck(k) ==
  LET th == cpu_threads[k]
  IN /\ Become(k, "check", IF Continue THEN [th EXCEPT !.pc = "sleep"]
                                       ELSE [th EXCEPT !.pc = "loop", !.left = 0, !.late = Unpublished])
     /\ UNCHANGED <<schedule_mutex, next_tt_start>>

\* Seeded fault: the wrap to the next hyperperiod is forgotten.
ComputeNextNoWrap(th) ==
  LET next_idx == (th.next % Len(th.slots)) + 1
  IN Offset(th, next_idx)

\* compute_next_tt_start_for_cpu, counted from the start of the cycle
ComputeNextTtStart(th) ==
  LET next_idx == (th.next % Len(th.slots)) + 1
  IN (IF next_idx <= th.next THEN th.hp ELSE 0) + Offset(th, next_idx)

\* ... and not again after it: the slot becomes the current one and the start
\* of the next slot is published, as far from now as it is from the target, when
\* it lies after the target.
ThreadFire(k) ==
  LET th == cpu_threads[k]
      next_delta == ComputeNextTtStart(th) - Offset(th, th.next)
  IN /\ th.left <= 0
     /\ Become(k, "sleep", [th EXCEPT !.pc = "wake",
                                     !.late = IF next_delta > 0 THEN 0 - th.left ELSE @])
     /\ next_tt_start' = [next_tt_start EXCEPT ![k[2]] = IF next_delta > 0 THEN next_delta ELSE @]
     /\ UNCHANGED schedule_mutex

\* wake_task() holds schedule_mutex_.
ThreadWake(k) ==
  /\ schedule_mutex = Free
  /\ schedule_mutex' = "timer"
  /\ Become(k, "wake", [cpu_threads[k] EXCEPT !.pc = "waking"])
  /\ UNCHANGED next_tt_start

\* The next slot, or the first one of the next hyperperiod.
ThreadAdvance(k) ==
  LET th == cpu_threads[k]
      wrap == th.next = Len(th.slots)
      next == IF wrap THEN 1 ELSE th.next + 1
  IN /\ schedule_mutex' = Free
     /\ Become(k, "waking",
          [th EXCEPT !.pc = "check", !.next = next,
                     !.left = th.left + Offset(th, next) - Offset(th, th.next)
                                + (IF wrap THEN th.hp ELSE 0)])
     /\ UNCHANGED next_tt_start

Timed(th) == th.pc \in {"check", "sleep", "wake", "waking"}

\* A tick of the clock, while no thread is later than it may be.  A published
\* start is not followed further into the past than that.
Tick ==
  /\ pc["main"] # "gone"
  /\ \A k \in DOMAIN cpu_threads : Timed(cpu_threads[k]) => cpu_threads[k].left > 0 - MaxLate
  /\ cpu_threads' = [k \in DOMAIN cpu_threads |->
                       IF Timed(cpu_threads[k]) THEN [cpu_threads[k] EXCEPT !.left = @ - 1]
                                                ELSE cpu_threads[k]]
  /\ next_tt_start' = [c \in Cpus |->
                         IF next_tt_start[c] \in {NoStart, 0 - MaxLate} THEN next_tt_start[c]
                         ELSE next_tt_start[c] - 1]
  /\ since' = IF hyperperiod = 0 \/ epoch = NoEpoch THEN since
              ELSE IF since = hyperperiod THEN 1 ELSE since + 1
  /\ UNCHANGED <<pc, running, table_pending, slot_table, hyperperiod, epoch, version, lockVars>>

-----------------------------------------------------------------------------
ThreadStep(k) ==
  \/ ThreadLoop(k) \/ ThreadPoll(k) \/ ThreadCheck(k)
  \/ ThreadFire(k) \/ ThreadWake(k) \/ ThreadAdvance(k)

CallerStep(c) == StopBegin(c) \/ StopJoin(c) \/ StartPartition(c)

Next ==
  \/ \E c \in Callers : CallerStep(c)
  \/ Connect \/ ShutdownSignal \/ Disconnect
  \/ \E t \in Tables : SetScheduleTable(t)
  \/ \E w \in {slot_table[i].workload : i \in 1..Len(slot_table)} : RemoveWorkload(w)
  \/ Restart
  \/ \E k \in DOMAIN cpu_threads : ThreadStep(k)
  \/ Tick

Spec == Init /\ [][Next]_vars

\* The clock goes on, some timer thread that can run does, and main() and the
\* stream thread go on with what they have begun.
Fairness ==
  /\ WF_vars(Tick)
  /\ WF_vars(\E k \in DOMAIN cpu_threads : ThreadStep(k))
  /\ WF_vars(CallerStep("main") \/ Connect \/ Disconnect)
  /\ WF_vars(CallerStep("stream") \/ Restart)

FairSpec == Spec /\ Fairness

-----------------------------------------------------------------------------
Live == {k \in DOMAIN cpu_threads : cpu_threads[k].pc # "done"}

\* Each caller is at a step of its code, and the locks are held by those that
\* take them.
TypeOK ==
  /\ DOMAIN pc = Callers
  /\ pc["main"] \in {"start", "start_join", "partition", "connect", "up", "stop", "stop_join",
                     "disconnect", "dtor", "dtor_join", "gone"}
  /\ pc["stream"] \in {"closed", "idle", "restart", "start", "start_join", "partition"}
  /\ running \in BOOLEAN /\ table_pending \in BOOLEAN
  /\ version \in Nat
  /\ lifecycle_mutex \in Callers \cup {Free}
  /\ schedule_mutex \in {"stream", "timer", Free}

\* Timer threads of two tables never run side by side, since the old ones are
\* joined before the new ones are made; and once the callback that changed the
\* table has returned, the timers that run are those of the new table.
OneTableAtATime ==
  \A k \in Live : /\ \A j \in Live : j[1] = k[1]
                  /\ pc["stream"] = "idle" /\ running => k[1] = version

\* No timer thread is left when the shared memory is unmapped, although a
\* callback that read running_ before stop() may have started them again.
JoinedAtExit == pc["main"] = "gone" => Live = {}

\* Every target of a thread is a whole number of hyperperiods, and the offset
\* of its slot, after the epoch of its table, for as long as it runs.
InPhase ==
  epoch # NoEpoch =>
    \A k \in Live :
      LET th == cpu_threads[k]
      IN k[1] = version /\ Timed(th) => (since + th.left - Offset(th, th.next)) % th.hp = 0

\* What next_tt_start_map says of a CPU, once the thread of the CPU has written
\* it: the start of the slot that the thread sleeps for, later by exactly what the
\* thread was late when it wrote.  The published start is thus never too early;
\* it is late after a late wake-up, but lateness does not add up over slots,
\* hyperperiods and changes of the table.
NextStartWithinLateness ==
  \A k \in Live :
    LET th == cpu_threads[k]
    IN th.pc \in {"check", "sleep"} /\ th.late # Unpublished =>
         th.late \in 0..MaxLate /\ next_tt_start[k[2]] = th.left + th.late

\* A callback returns, and timpani-n exits when it is told to: neither the two
\* mutexes nor the join of sleeping threads can hold either for ever.
NobodyStuck ==
  /\ pc["stream"] # "idle" ~> pc["stream"] \in {"idle", "closed"}
  /\ pc["main"] = "stop" ~> pc["main"] = "gone"
=============================================================================
