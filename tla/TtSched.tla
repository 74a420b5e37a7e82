------------------------------ MODULE TtSched ------------------------------
(***************************************************************************)
(* The shared memory /timpani_ttsched by which the TimerMaster of a node   *)
(* wakes the tasks of the schedule table, and the wait loop of libttsched  *)
(* in the process of every task.  A step is one load, store or futex call  *)
(* on the shared memory; what TimerMaster does under schedule_mutex_ is    *)
(* one sequence of such steps.  A task has a comm name, which is copied    *)
(* (strncpy) and compared (strncmp) character by character, in any order,  *)
(* with no lock between the two.  Memory is sequentially consistent.       *)
(***************************************************************************)
EXTENDS Naturals, Sequences, FiniteSets, Functions

CONSTANTS
  Tasks,
  Name,               \* the comm name of a task, padded with NUL
  NameLen,            \* its length (15 in the code)
  NUL,
  Apps,               \* the tasks whose process runs
  Tables,             \* schedule tables: the tasks of the slots, by offset
  TIMPANI_MAX_TASKS,
  CounterMod,         \* counters are counted modulo this (2^32 in the code)
  MaxUpdates,         \* bound: tables set
  MaxObjects,         \* bound: shared memory objects made
  MaxStarts,          \* bound: starts of timpani-n
  None

Positions == 1..NameLen
Chars == {Name[t][p] : t \in Tasks, p \in Positions} \cup {NUL}

\* The characters that strncmp with the name of t looks at.
Compared(t) == {p \in Positions : \A q \in Positions : q < p => Name[t][q] # NUL}

Matches(name, t) == \A p \in Compared(t) : name[p] = Name[t][p]

ASSUME ConstantsAssumption ==
  /\ NameLen \in Nat \ {0}
  /\ \A t \in Tasks : /\ Name[t] \in [Positions -> Chars] /\ Name[t][1] # NUL
                      /\ \A u \in Tasks : Matches(Name[u], t) => u = t
  /\ Apps \subseteq Tasks
  /\ Tables \subseteq Seq(Tasks)
  /\ TIMPANI_MAX_TASKS \in Nat \ {0}
  /\ CounterMod \in Nat \ {0, 1}
  /\ MaxUpdates \in Nat /\ MaxObjects \in Nat /\ MaxStarts \in Nat
  /\ None \notin Nat

Slots == 0..TIMPANI_MAX_TASKS - 1
Objects == 1..MaxObjects

VARIABLES
  \* --- shared memory objects, and the one that has the name
  shm, objects, linked,
  \* --- TimerMaster, by the holder of schedule_mutex_
  tm_pc, tm_idx,
  table,                 \* entries of slot_table_ not mapped yet
  task_hash_to_shm_idx,
  starts, updates,
  \* --- libttsched, in every process
  app,
  \* --- history
  homes,                 \* slots a task ever had
  reset,                 \* processes whose slot was handed out anew after they read its
                         \* counter, which has not gone past what they read since then
  missed                 \* processes whose slot fired after they read its counter, and was
                         \* not handed out anew since then

tmVars == <<tm_pc, tm_idx, table, task_hash_to_shm_idx, starts, updates>>
shmVars == <<shm, objects, linked>>
history == <<homes, reset, missed>>
vars == <<shmVars, tmVars, app, history>>

NewShm == [magic |-> FALSE, n_tasks |-> 0, generation |-> 0,
           name |-> [i \in Slots |-> [p \in Positions |-> NUL]], counter |-> [i \in Slots |-> 0]]

NoMapping == [t \in {} |-> 0]

Init ==
  /\ shm = [o \in Objects |-> NewShm]
  /\ objects = 0
  /\ linked = None
  /\ tm_pc = "down"
  /\ tm_idx = 0
  /\ table = <<>>
  /\ task_hash_to_shm_idx = NoMapping
  /\ starts = 0
  /\ updates = 0
  /\ app = [t \in Apps |-> [pc |-> "call", g_shm |-> None, g_task_idx |-> None,
                            g_shm_generation |-> 0, current |-> 0, i |-> 0, n |-> 0,
                            eq |-> {}, ret |-> "check"]]
  /\ homes = [t \in Tasks |-> {}]
  /\ reset = {}
  /\ missed = {}

-----------------------------------------------------------------------------
(* TimerMaster *)

Bump(i) == (shm[linked].counter[i] + 1) % CounterMod

\* No process stays between the load of a counter and FUTEX_WAIT for as long
\* as the counter takes to wrap around.  A counter that was set to zero in
\* between comes back to the value that was read without wrapping.
NoWrap(i) ==
  \A t \in Apps \ reset : app[t].pc = "wait" /\ app[t].g_shm = linked /\ app[t].g_task_idx = i
                            => app[t].current # Bump(i)

\* Process t waits on slot i, or is about to, for the counter to change from what
\* it is.
OwnerWaits(t, i) ==
  /\ app[t].pc \in {"wait", "asleep"}
  /\ app[t].g_shm = linked
  /\ app[t].g_task_idx = i
  /\ app[t].current = shm[linked].counter[i]

Waiters(i) ==
  {t \in Apps : app[t].pc = "asleep" /\ app[t].g_shm = linked /\ app[t].g_task_idx = i}

\* FUTEX_WAKE of the processes S
FutexWake(S) == [t \in Apps |-> IF t \in S THEN [app[t] EXCEPT !.pc = "woken"] ELSE app[t]]

\* The constructor opens the object that has the name, or makes one.
TimerMaster ==
  /\ tm_pc = "down"
  /\ starts < MaxStarts
  /\ starts' = starts + 1
  /\ IF linked = None THEN objects < MaxObjects /\ objects' = objects + 1 /\ linked' = objects'
                      ELSE UNCHANGED <<objects, linked>>
  /\ shm' = [shm EXCEPT ![linked'].magic = FALSE]
  /\ tm_pc' = "ctor_n_tasks"
  /\ UNCHANGED <<tm_idx, table, task_hash_to_shm_idx, updates, app, history>>

TimerMasterNTasks ==
  /\ tm_pc = "ctor_n_tasks"
  /\ shm' = [shm EXCEPT ![linked].n_tasks = 0]
  /\ tm_pc' = "ctor_generation"
  /\ UNCHANGED <<objects, linked, tm_idx, table, task_hash_to_shm_idx, starts, updates, app, history>>

TimerMasterGeneration ==
  /\ tm_pc = "ctor_generation"
  /\ shm' = [shm EXCEPT ![linked].generation = 1]
  /\ tm_pc' = "idle"
  /\ UNCHANGED <<objects, linked, tm_idx, table, task_hash_to_shm_idx, starts, updates, app, history>>

\* set_schedule_table: magic is cleared, every process is woken ...
SetScheduleTable(slots) ==
  /\ tm_pc = "idle"
  /\ updates < MaxUpdates
  /\ updates' = updates + 1
  /\ table' = slots
  /\ shm' = [shm EXCEPT ![linked].magic = FALSE]
  /\ tm_pc' = "bump"
  /\ tm_idx' = 0
  /\ UNCHANGED <<objects, linked, task_hash_to_shm_idx, starts, app, history>>

WakeAllBump ==
  /\ tm_pc = "bump"
  /\ NoWrap(tm_idx)
  /\ shm' = [shm EXCEPT ![linked].counter[tm_idx] = Bump(tm_idx)]
  /\ reset' = {t \in reset : ~OwnerWaits(t, tm_idx)}
  /\ tm_pc' = "wake"
  /\ UNCHANGED <<objects, linked, tm_idx, table, task_hash_to_shm_idx, starts, updates, app, homes,
                 missed>>

WakeAllWake ==
  /\ tm_pc = "wake"
  /\ app' = FutexWake(Waiters(tm_idx))
  /\ IF tm_idx + 1 < TIMPANI_MAX_TASKS THEN tm_idx' = tm_idx + 1 /\ tm_pc' = "bump"
                                       ELSE tm_idx' = 0 /\ tm_pc' = "keep"
  /\ UNCHANGED <<shmVars, table, task_hash_to_shm_idx, starts, updates, history>>

\* ... the tasks that stay keep their slots ...
KeepMapping ==
  /\ tm_pc = "keep"
  /\ task_hash_to_shm_idx' =
       Restrict(task_hash_to_shm_idx, DOMAIN task_hash_to_shm_idx \cap Range(table))
  /\ tm_pc' = "alloc"
  /\ UNCHANGED <<shmVars, tm_idx, table, starts, updates, app, history>>

Used == {task_hash_to_shm_idx[t] : t \in DOMAIN task_hash_to_shm_idx}

\* Seeded fault: any slot that is not in use will do.
AnyFree(i) == i \in Slots \ Used

LowestFree(i) == i \in Slots \ Used /\ \A j \in Slots \ Used : i <= j

\* ... and the new ones get the lowest slots that are free, their names written
\* over what is there ...
AllocateSlot ==
  /\ tm_pc = "alloc"
  /\ table # <<>>
  /\ LET t == Head(table)
     IN \/ /\ t \in DOMAIN task_hash_to_shm_idx
           /\ table' = Tail(table)
           /\ UNCHANGED <<tm_pc, tm_idx, task_hash_to_shm_idx, homes>>
        \/ /\ t \notin DOMAIN task_hash_to_shm_idx
           /\ \E i \in Slots :
                /\ LowestFree(i)
                /\ task_hash_to_shm_idx' =
                     [u \in DOMAIN task_hash_to_shm_idx \cup {t} |->
                        IF u = t THEN i ELSE task_hash_to_shm_idx[u]]
                /\ tm_idx' = i
                /\ homes' = [homes EXCEPT ![t] = @ \cup {i}]
           /\ table' = Tail(table)
           /\ tm_pc' = "name"
        \/ /\ t \notin DOMAIN task_hash_to_shm_idx
           /\ Slots \subseteq Used
           /\ table' = <<>>
           /\ UNCHANGED <<tm_pc, tm_idx, task_hash_to_shm_idx, homes>>
  /\ UNCHANGED <<shmVars, starts, updates, app, reset, missed>>

\* The task whose name is being written
Named(t) == t \in DOMAIN task_hash_to_shm_idx /\ task_hash_to_shm_idx[t] = tm_idx

WriteName ==
  /\ tm_pc = "name"
  /\ \E t \in Tasks, p \in Positions :
       /\ Named(t)
       /\ shm[linked].name[tm_idx][p] # Name[t][p]
       /\ shm' = [shm EXCEPT ![linked].name[tm_idx][p] = Name[t][p]]
  /\ UNCHANGED <<objects, linked, tmVars, app, history>>

\* ... and their counters set to zero.
ResetCounter ==
  /\ tm_pc = "name"
  /\ \A t \in Tasks : Named(t) => shm[linked].name[tm_idx] = Name[t]
  /\ shm' = [shm EXCEPT ![linked].counter[tm_idx] = 0]
  /\ tm_pc' = "alloc"
  /\ tm_idx' = 0
  /\ LET S == {t \in Apps : /\ app[t].pc \in {"wait", "asleep"}
                           /\ app[t].g_shm = linked
                           /\ app[t].g_task_idx = tm_idx}
     IN reset' = reset \cup S /\ missed' = missed \ S
  /\ UNCHANGED <<objects, linked, table, task_hash_to_shm_idx, starts, updates, app, homes>>

\* Publication: the number of slots, the generation, then magic.
PublishNTasks ==
  /\ tm_pc = "alloc"
  /\ table = <<>>
  /\ \E n \in 0..TIMPANI_MAX_TASKS :
       /\ \A i \in Used : i < n
       /\ n > 0 => n - 1 \in Used
       /\ shm' = [shm EXCEPT ![linked].n_tasks = n]
  /\ tm_pc' = "generation"
  /\ UNCHANGED <<objects, linked, tm_idx, table, task_hash_to_shm_idx, starts, updates, app, history>>

PublishGeneration ==
  /\ tm_pc = "generation"
  /\ shm' = [shm EXCEPT ![linked].generation = @ + 1]
  /\ tm_pc' = "magic"
  /\ UNCHANGED <<objects, linked, tm_idx, table, task_hash_to_shm_idx, starts, updates, app, history>>

PublishMagic ==
  /\ tm_pc = "magic"
  /\ shm' = [shm EXCEPT ![linked].magic = TRUE]
  /\ tm_pc' = "idle"
  /\ UNCHANGED <<objects, linked, tm_idx, table, task_hash_to_shm_idx, starts, updates, app, history>>

\* Seeded fault: the counter is not advanced.
WakeTaskNoBump(t) ==
  /\ tm_pc = "idle"
  /\ t \in DOMAIN task_hash_to_shm_idx
  /\ tm_idx' = task_hash_to_shm_idx[t]
  /\ missed' = missed \cup {u \in Apps \cap {t} : OwnerWaits(u, tm_idx')}
  /\ tm_pc' = "fire"
  /\ UNCHANGED <<shmVars, table, task_hash_to_shm_idx, starts, updates, app, homes, reset>>

\* wake_task: a timer thread advances the counter of a task ...
WakeTask(t) ==
  /\ tm_pc = "idle"
  /\ t \in DOMAIN task_hash_to_shm_idx
  /\ LET i == task_hash_to_shm_idx[t]
     IN /\ NoWrap(i)
        /\ shm' = [shm EXCEPT ![linked].counter[i] = Bump(i)]
        /\ missed' = missed \cup {u \in Apps \cap {t} : OwnerWaits(u, i)}
        /\ reset' = {u \in reset : ~OwnerWaits(u, i)}
        /\ tm_idx' = i
  /\ tm_pc' = "fire"
  /\ UNCHANGED <<objects, linked, table, task_hash_to_shm_idx, starts, updates, app, homes>>

\* ... and wakes one process that waits on it.
WakeTaskWake ==
  /\ tm_pc = "fire"
  /\ \/ \E t \in Waiters(tm_idx) : app' = FutexWake({t})
     \/ Waiters(tm_idx) = {} /\ UNCHANGED app
  /\ missed' = missed \ Waiters(tm_idx)
  /\ tm_pc' = "idle"
  /\ tm_idx' = 0
  /\ UNCHANGED <<shmVars, table, task_hash_to_shm_idx, starts, updates, homes, reset>>

\* The destructor clears magic, wakes the waiting processes slot by slot and
\* gives up the name.
Shutdown ==
  /\ tm_pc = "idle"
  /\ shm' = [shm EXCEPT ![linked].magic = FALSE]
  /\ tm_pc' = "dtor"
  /\ UNCHANGED <<objects, linked, tm_idx, table, task_hash_to_shm_idx, starts, updates, app, history>>

Forget ==
  /\ task_hash_to_shm_idx' = NoMapping
  /\ tm_pc' = "down"
  /\ tm_idx' = 0
  /\ table' = <<>>

ShutdownWake ==
  /\ tm_pc = "dtor"
  /\ \/ /\ tm_idx < shm[linked].n_tasks
        /\ app' = FutexWake(Waiters(tm_idx))
        /\ tm_idx' = tm_idx + 1
        /\ UNCHANGED <<linked, tm_pc, table, task_hash_to_shm_idx>>
     \/ /\ tm_idx >= shm[linked].n_tasks
        /\ linked' = None
        /\ Forget
        /\ UNCHANGED app
  /\ UNCHANGED <<shm, objects, starts, updates, history>>

\* timpani-n is killed: the object keeps its name and contents.  A fire cut
\* short is none.
Crash ==
  /\ tm_pc # "down"
  /\ Forget
  /\ missed' = IF tm_pc = "fire" THEN {} ELSE missed
  /\ UNCHANGED <<shmVars, starts, updates, app, homes, reset>>

-----------------------------------------------------------------------------
(* libttsched in the process of task t *)

Step(t, from, new) ==
  /\ app[t].pc = from
  /\ app' = [app EXCEPT ![t] = new]
  /\ UNCHANGED <<shmVars, tmVars, homes>>

\* ttsched_wait_next_period: a process with a mapping looks at magic, and gives
\* the mapping up when it is not set.
WaitNextPeriod(t) ==
  LET a == app[t]
  IN /\ a.pc \in {"call", "check"}
     /\ a.g_shm # None
     /\ Step(t, a.pc, IF shm[a.g_shm].magic
                      THEN [a EXCEPT !.pc = "compare", !.ret = "read"]
                      ELSE [a EXCEPT !.pc = "open", !.ret = "recheck",
                                     !.g_shm = None, !.g_task_idx = None])
     /\ UNCHANGED <<reset, missed>>

\* ttsched_init maps the object that has the name, looks the task up and then
\* notes the generation.
TtschedInit(t) ==
  LET a == app[t]
  IN /\ a.pc \in {"call", "open"}
     /\ a.g_shm = None
     /\ Step(t, a.pc, IF linked = None THEN [a EXCEPT !.pc = "call"]
                      ELSE [a EXCEPT !.pc = "find", !.g_shm = linked,
                                     !.ret = IF a.pc = "call" THEN "check" ELSE a.ret])
     /\ UNCHANGED <<reset, missed>>

InitGeneration(t) ==
  LET a == app[t]
  IN /\ Step(t, "generation", [a EXCEPT !.pc = a.ret,
                                        !.g_shm_generation = shm[a.g_shm].generation])
     /\ UNCHANGED <<reset, missed>>

RecheckMagic(t) ==
  LET a == app[t]
  IN /\ Step(t, "recheck", [a EXCEPT !.ret = "read",
                                     !.pc = IF shm[a.g_shm].magic THEN "compare" ELSE "call"])
     /\ UNCHANGED <<reset, missed>>

\* find_task_slot: magic, n_tasks, then the names one after the other, each by its
\* characters; a.eq are those that were equal.
\* Its result goes to ttsched_init, or to the wait when a.ret is "read".
Found(a, idx) ==
  [a EXCEPT !.g_task_idx = idx, !.i = 0, !.n = 0, !.eq = {},
            !.pc = IF a.ret # "read" THEN "generation" ELSE IF idx = None THEN "call" ELSE "read"]

FindMagic(t) ==
  LET a == app[t]
  IN /\ Step(t, "find", IF shm[a.g_shm].magic THEN [a EXCEPT !.pc = "n_tasks"] ELSE Found(a, None))
     /\ UNCHANGED <<reset, missed>>

FindNTasks(t) ==
  LET a == app[t]
  IN /\ Step(t, "n_tasks", [a EXCEPT !.pc = "scan", !.i = 0, !.n = shm[a.g_shm].n_tasks,
                                     !.eq = {}])
     /\ UNCHANGED <<reset, missed>>

\* Seeded fault: strncmp stops one character short.
EqualPrefix(t, eq) == Compared(t) \ {NameLen} \subseteq eq

Equal(t, eq) == eq = Compared(t)

FindName(t) ==
  LET a == app[t]
  IN /\ \/ a.i >= a.n /\ Step(t, "scan", Found(a, None))
        \/ /\ a.i < a.n
           /\ \E p \in Compared(t) \ a.eq :
                Step(t, "scan",
                  IF shm[a.g_shm].name[a.i][p] # Name[t][p] THEN [a EXCEPT !.i = a.i + 1, !.eq = {}]
                  ELSE IF Equal(t, a.eq \cup {p}) THEN Found(a, a.i)
                  ELSE [a EXCEPT !.eq = @ \cup {p}])
     /\ UNCHANGED <<reset, missed>>

\* Seeded fault: the lookup is not tried again.
CompareGenerationOnce(t) ==
  LET a == app[t]
  IN /\ Step(t, "compare", [a EXCEPT !.pc =
               IF a.g_task_idx = None THEN "call"
               ELSE IF shm[a.g_shm].generation # a.g_shm_generation THEN "load" ELSE "read"])
     /\ UNCHANGED <<reset, missed>>

\* A new generation makes the task look for its slot again.
CompareGeneration(t) ==
  LET a == app[t]
  IN /\ Step(t, "compare", [a EXCEPT !.pc =
               IF shm[a.g_shm].generation # a.g_shm_generation THEN "load"
               ELSE IF a.g_task_idx = None THEN "find" ELSE "read"])
     /\ UNCHANGED <<reset, missed>>

LoadGeneration(t) ==
  LET a == app[t]
  IN /\ Step(t, "load", [a EXCEPT !.g_shm_generation = shm[a.g_shm].generation,
                                  !.g_task_idx = None, !.pc = "find"])
     /\ UNCHANGED <<reset, missed>>

ReadCounter(t) ==
  LET a == app[t]
  IN /\ Step(t, "read", [a EXCEPT !.pc = "wait", !.current = shm[a.g_shm].counter[a.g_task_idx]])
     /\ UNCHANGED <<reset, missed>>

\* FUTEX_WAIT sleeps unless the counter has changed.
FutexWait(t) ==
  LET a == app[t]
  IN /\ Step(t, "wait", [a EXCEPT !.pc =
               IF shm[a.g_shm].counter[a.g_task_idx] = a.current THEN "asleep" ELSE "woken"])
     /\ UNCHANGED <<reset, missed>>

\* A signal: the loop goes back to FUTEX_WAIT.
Interrupt(t) ==
  LET a == app[t]
  IN /\ Step(t, "asleep", [a EXCEPT !.pc = "wait"])
     /\ UNCHANGED <<reset, missed>>

\* Woken: without magic the mapping is given up, otherwise the task runs.
CheckShutdown(t) ==
  LET a == app[t]
  IN /\ Step(t, "woken", IF shm[a.g_shm].magic
                         THEN [a EXCEPT !.pc = "run", !.current = 0]
                         ELSE [a EXCEPT !.pc = "call", !.current = 0,
                                        !.g_shm = None, !.g_task_idx = None])
     /\ reset' = reset \ {t}
     /\ missed' = missed \ {t}

RunWorkload(t) == Step(t, "run", [app[t] EXCEPT !.pc = "call"]) /\ UNCHANGED <<reset, missed>>

AppStep(t) ==
  \/ WaitNextPeriod(t) \/ TtschedInit(t) \/ InitGeneration(t) \/ RecheckMagic(t)
  \/ FindMagic(t) \/ FindNTasks(t) \/ FindName(t) \/ CompareGeneration(t) \/ LoadGeneration(t)
  \/ ReadCounter(t) \/ FutexWait(t) \/ CheckShutdown(t) \/ RunWorkload(t)

UpdateStep ==
  \/ TimerMasterNTasks \/ TimerMasterGeneration
  \/ WakeAllBump \/ WakeAllWake \/ KeepMapping \/ AllocateSlot \/ WriteName \/ ResetCounter
  \/ PublishNTasks \/ PublishGeneration \/ PublishMagic
  \/ WakeTaskWake \/ ShutdownWake

Next ==
  \/ TimerMaster \/ UpdateStep \/ Shutdown \/ Crash
  \/ \E slots \in Tables : SetScheduleTable(slots)
  \/ \E t \in Tasks : WakeTask(t)
  \/ \E t \in Apps : AppStep(t) \/ Interrupt(t)

Spec == Init /\ [][Next]_vars

\* A process and the holder of schedule_mutex_ run on; every task of the table
\* is woken in every hyperperiod.
Fairness ==
  /\ WF_vars(UpdateStep)
  /\ \A t \in Apps : SF_vars(WakeTask(t))
  /\ \A t \in Apps : WF_vars(AppStep(t))

FairSpec == Spec /\ Fairness

-----------------------------------------------------------------------------
ShmType ==
  [magic : BOOLEAN, n_tasks : 0..TIMPANI_MAX_TASKS, generation : Nat,
   name : [Slots -> [Positions -> Chars]], counter : [Slots -> 0..(CounterMod - 1)]]

AppType ==
  [pc : {"call", "check", "open", "find", "n_tasks", "scan", "generation", "recheck", "compare",
         "load", "read", "wait", "asleep", "woken", "run"},
   g_shm : Objects \cup {None}, g_task_idx : Slots \cup {None}, g_shm_generation : Nat,
   current : Nat, i : Nat, n : 0..TIMPANI_MAX_TASKS, eq : SUBSET Positions,
   ret : {"check", "recheck", "read"}]

\* What a process has at hand at each point of its loop.
AppOK(a) ==
  /\ a \in AppType
  /\ a.pc \notin {"call", "open"} => a.g_shm # None
  /\ a.pc \in {"read", "wait", "asleep"} => a.g_task_idx # None
  /\ a.pc = "generation" => a.ret # "read"

TypeOK ==
  /\ shm \in [Objects -> ShmType]
  /\ objects \in 0..MaxObjects
  /\ linked \in Objects \cup {None}
  /\ tm_pc # "down" => linked # None
  /\ tm_idx \in Nat
  /\ tm_pc \in {"bump", "wake", "name", "fire"} => tm_idx \in Slots
  /\ table \in Seq(Tasks)
  /\ DOMAIN task_hash_to_shm_idx \subseteq Tasks
  /\ \A t \in DOMAIN task_hash_to_shm_idx : task_hash_to_shm_idx[t] \in Slots
  /\ app \in [Apps -> AppType]
  /\ \A t \in Apps : AppOK(app[t])
  /\ homes \in [Tasks -> SUBSET Slots]
  /\ reset \subseteq Apps /\ missed \subseteq Apps

\* The slot a lookup finds in a published table is the slot the timer wakes:
\* names left over from earlier tables never hide it.
LookupFindsOwnSlot ==
  linked # None /\ shm[linked].magic /\ tm_pc = "idle" =>
    \A t \in DOMAIN task_hash_to_shm_idx :
      LET i == task_hash_to_shm_idx[t]
      IN /\ i < shm[linked].n_tasks
         /\ Matches(shm[linked].name[i], t)
         /\ \A j \in Slots : j < i => ~Matches(shm[linked].name[j], t)

\* The name of t has, somewhere, a character that no other name has there.
Distinct(t) ==
  \E p \in Compared(t) : Name[t][p] # NUL /\ \A u \in Tasks \ {t} : Name[u][p] # Name[t][p]

\* A process whose name is distinct in one of its characters uses a slot of its
\* own task only: whatever tables, crashes and restarts fall between its loads,
\* and whatever halves of names it compares, it does not wait on a slot that was
\* never its task's.  (Without such a character, a name half written over another
\* can be taken for that of a third task.)
SlotWasOwn ==
  \A t \in Apps : Distinct(t) /\ app[t].g_task_idx # None => app[t].g_task_idx \in homes[t]

\* A process is not asleep once the wake of its slot is over, unless another one
\* that waits on the same counter was woken in its place: no fire is lost
\* between the load of the counter and FUTEX_WAIT, unless the slot was handed
\* out anew in between: then the fires are lost that take the counter from zero
\* to the value that was read, and no others.
NoLostFire ==
  \A t \in missed : app[t].pc = "asleep" => tm_pc = "fire"

\* A task that has had one slot only, and is in the table for good, is woken
\* again and again, in spite of table updates and of crashes of timpani-n, as
\* long as it is not shut down.
Served ==
  \A t \in Apps :
    /\ [](Cardinality(homes[t]) <= 1 /\ tm_pc # "dtor")
    /\ <>[](t \in DOMAIN task_hash_to_shm_idx)
    => []<>(app[t].pc = "run")
=============================================================================
