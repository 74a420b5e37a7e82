--------------------------- MODULE TtSched_proofs ---------------------------
(* Proofs about TtSched, for every value of its constants. *)
EXTENDS TtSched, TLAPS

\* Character c at position p is one that slot i may bear: none, or that of a task
\* which had the slot.
Borne(i, p, c) == c = NUL \/ \E u \in Tasks : i \in homes[u] /\ Name[u][p] = c

\* So are all the characters in the objects, ...
NamedHome ==
  \A o \in Objects, i \in Slots, p \in Positions : Borne(i, p, shm[o].name[i][p])

\* ... and those that a process has found equal to its own.
ScanInv ==
  \A t \in Apps : \A p \in app[t].eq : app[t].i \in Slots /\ Borne(app[t].i, p, Name[t][p])

\* A task had the slots it was given.
MapHome == \A t \in DOMAIN task_hash_to_shm_idx : task_hash_to_shm_idx[t] \in homes[t]

HomeInv == NamedHome /\ ScanInv /\ MapHome /\ SlotWasOwn

\* The mapping of tasks to slots: a slot has one task, whose name it bears and
\* which no lower slot bears, but for the slot whose name is being written; a
\* mapping that is published is below n_tasks.
MappingInv ==
  LET map == task_hash_to_shm_idx
      Written(i) == tm_pc = "name" /\ i = tm_idx
  IN /\ tm_pc \in {"down", "ctor_n_tasks", "ctor_generation"} => DOMAIN map = {}
     /\ tm_pc = "name" => \E t \in DOMAIN map : map[t] = tm_idx
     /\ \A t, u \in DOMAIN map : map[t] = map[u] => t = u
     /\ \A t \in DOMAIN map :
          /\ ~Written(map[t]) => shm[linked].name[map[t]] = Name[t]
          /\ \A j \in Slots : j < map[t] /\ ~Written(j) => ~Matches(shm[linked].name[j], t)
     /\ tm_pc \in {"generation", "magic", "idle", "fire", "dtor"} =>
          \A t \in DOMAIN map : map[t] < shm[linked].n_tasks

\* A process whose slot fired after it read the counter: as long as it has not
\* woken up, the counter differs from what it read; it is asleep only until the
\* wake that goes with the fire.
FireInv ==
  \A t \in missed :
    LET a == app[t]
    IN /\ a.pc \in {"wait", "asleep", "woken"}
       /\ a.pc \in {"wait", "asleep"} => shm[a.g_shm].counter[a.g_task_idx] # a.current
       /\ a.pc = "asleep" => tm_pc = "fire" /\ a.g_shm = linked /\ a.g_task_idx = tm_idx

\* Its slot was not handed out anew since then.
Apart == missed \cap reset = {}

\* The constants that bound indices are numbers.
LEMMA Bounds ==
  /\ TIMPANI_MAX_TASKS \in Nat /\ TIMPANI_MAX_TASKS > 0
  /\ CounterMod \in Nat /\ CounterMod > 1
  /\ MaxObjects \in Nat /\ None \notin Nat
  /\ Slots \subseteq Nat /\ Objects \subseteq Nat /\ 0 \in Slots
BY ConstantsAssumption DEF Slots, Objects

\* The result of a lookup leaves the bookkeeping of a process in order.
LEMMA FoundOK ==
  ASSUME NEW a \in AppType, a.g_shm # None, NEW idx \in Slots \cup {None}
  PROVE  AppOK(Found(a, idx)) /\ Found(a, idx).g_task_idx = idx /\ Found(a, idx).eq = {}
<1> DEFINE pc == IF a.ret # "read" THEN "generation" ELSE IF idx = None THEN "call" ELSE "read"
           new == [a EXCEPT !.g_task_idx = idx, !.i = 0, !.n = 0, !.eq = {}, !.pc = pc]
<1>1. /\ new.pc = pc /\ new.g_task_idx = idx /\ new.g_shm = a.g_shm /\ new.ret = a.ret
      /\ new.eq = {}
      /\ pc \in {"generation", "call", "read"}
  BY DEF AppType
<1>2. new \in AppType
  <2>1. 0 \in Nat /\ 0 \in 0..TIMPANI_MAX_TASKS
    BY Bounds
  <2> HIDE DEF pc
  <2> QED
    BY <1>1, <2>1, Zenon DEF AppType
<1>3. Found(a, idx) = new
  BY DEF Found
<1> QED
  BY <1>1, <1>2, <1>3 DEF AppOK

\* A step that looks at no name.
Blind(a, new) ==
  /\ new.g_task_idx \in {None, a.g_task_idx}
  /\ new.eq = {} \/ (new.eq = a.eq /\ new.i = a.i)

\* A step that finds one more character of the name of t equal, maybe the last.
Looks(t, a, new) ==
  \E p \in Positions, o \in Objects :
    /\ a.i \in Slots /\ shm[o].name[a.i][p] = Name[t][p]
    /\ \/ new.g_task_idx = a.g_task_idx /\ new.i = a.i /\ new.eq = a.eq \cup {p}
       \/ new.g_task_idx = a.i /\ new.eq = {} /\ a.eq \cup {p} = Compared(t)

\* A step of a process changes that process only, keeps its bookkeeping, and
\* gives it an index only if it has found the name of its task there.
LEMMA ProcessStep ==
  ASSUME TypeOK, NEW t \in Apps, AppStep(t) \/ Interrupt(t)
  PROVE  /\ UNCHANGED <<shmVars, tmVars, homes>>
         /\ app' = [app EXCEPT ![t] = app'[t]]
         /\ AppOK(app'[t])
         /\ Blind(app[t], app'[t]) \/ Looks(t, app[t], app'[t])
<1> DEFINE a == app[t]
           Goal == /\ UNCHANGED <<shmVars, tmVars, homes>>
                   /\ app' = [app EXCEPT ![t] = app'[t]]
                   /\ AppOK(app'[t])
                   /\ Blind(app[t], app'[t]) \/ Looks(t, app[t], app'[t])
<1>0. /\ AppOK(a) /\ a \in AppType /\ app \in [Apps -> AppType]
      /\ a.g_shm # None => a.g_shm \in Objects /\ shm[a.g_shm] \in ShmType
      /\ linked \in Objects \cup {None}
  BY DEF TypeOK, AppType
<1>1. ASSUME NEW new \in AppType, NEW from, Step(t, from, new), AppOK(new),
             Blind(a, new) \/ Looks(t, a, new)
      PROVE  Goal
  BY <1>0, <1>1 DEF Step
<1>2. CASE WaitNextPeriod(t)
  <2> DEFINE new == IF shm[a.g_shm].magic
                    THEN [a EXCEPT !.pc = "compare", !.ret = "read"]
                    ELSE [a EXCEPT !.pc = "open", !.ret = "recheck",
                                   !.g_shm = None, !.g_task_idx = None]
  <2>1. new \in AppType /\ AppOK(new)
    BY <1>0, <1>2, Zenon DEF WaitNextPeriod, AppOK, AppType
  <2>2. Blind(a, new)
    BY <1>0, <1>2 DEF WaitNextPeriod, AppOK, AppType, Blind
  <2> QED
    BY <1>1, <1>2, <2>1, <2>2 DEF WaitNextPeriod
<1>3. CASE TtschedInit(t)
  <2> DEFINE new == IF linked = None THEN [a EXCEPT !.pc = "call"]
                    ELSE [a EXCEPT !.pc = "find", !.g_shm = linked,
                                   !.ret = IF a.pc = "call" THEN "check" ELSE a.ret]
  <2>1. new \in AppType /\ AppOK(new)
    <3>1. CASE linked = None
      BY <1>0, <1>3, <3>1 DEF TtschedInit, Step, AppOK, AppType
    <3>2. CASE linked # None
      <4> DEFINE ret == IF a.pc = "call" THEN "check" ELSE a.ret
      <4>1. ret \in {"check", "recheck", "read"}
        BY <1>0 DEF AppType
      <4>2. linked \in Objects \cup {None}
        BY <1>0
      <4>3. new = [a EXCEPT !.pc = "find", !.g_shm = linked, !.ret = ret]
        BY <3>2
      <4> HIDE DEF ret, new
      <4>4. new \in AppType /\ new.pc = "find" /\ new.g_shm = linked
        BY <1>0, <4>1, <4>2, <4>3, Zenon DEF AppType
      <4> QED
        BY <3>2, <4>4 DEF AppOK
    <3> QED
      BY <3>1, <3>2
  <2>2. Blind(a, new)
    BY <1>0, <1>3 DEF TtschedInit, Step, AppOK, AppType, Blind
  <2> QED
    BY <1>1, <1>3, <2>1, <2>2 DEF TtschedInit
<1>4. CASE InitGeneration(t)
  <2> DEFINE new == [a EXCEPT !.pc = a.ret, !.g_shm_generation = shm[a.g_shm].generation]
  <2>1. new \in AppType /\ AppOK(new)
    BY <1>0, <1>4, Bounds, Zenon DEF InitGeneration, Step, AppOK, AppType, ShmType
  <2>2. Blind(a, new)
    BY <1>0, <1>4 DEF InitGeneration, Step, AppOK, AppType, Blind
  <2> QED
    BY <1>1, <1>4, <2>1, <2>2 DEF InitGeneration
<1>5. CASE RecheckMagic(t)
  <2> DEFINE new == [a EXCEPT !.ret = "read", !.pc = IF shm[a.g_shm].magic THEN "compare" ELSE "call"]
  <2>1. new \in AppType /\ AppOK(new)
    BY <1>0, <1>5, Bounds, Zenon DEF RecheckMagic, Step, AppOK, AppType, ShmType
  <2>2. Blind(a, new)
    BY <1>0, <1>5 DEF RecheckMagic, Step, AppOK, AppType, Blind
  <2> QED
    BY <1>1, <1>5, <2>1, <2>2 DEF RecheckMagic
<1>6. CASE FindMagic(t)
  <2> DEFINE new == IF shm[a.g_shm].magic THEN [a EXCEPT !.pc = "n_tasks"] ELSE Found(a, None)
  <2>1. new \in AppType /\ AppOK(new)
    <3>1. AppOK(Found(a, None))
      BY <1>0, <1>6, FoundOK DEF FindMagic, Step, AppOK
    <3>2. AppOK([a EXCEPT !.pc = "n_tasks"])
      BY <1>0, <1>6 DEF FindMagic, Step, AppOK, AppType
    <3> QED
      BY <3>1, <3>2 DEF AppOK
  <2>2. Blind(a, new)
    BY <1>0, <1>6 DEF FindMagic, Step, AppOK, AppType, Found, Blind
  <2> QED
    BY <1>1, <1>6, <2>1, <2>2 DEF FindMagic
<1>7. CASE FindNTasks(t)
  <2> DEFINE v == shm[a.g_shm].n_tasks
             new == [a EXCEPT !.pc = "scan", !.i = 0, !.n = v, !.eq = {}]
  <2>1. new \in AppType /\ AppOK(new)
    <3>1. v \in 0..TIMPANI_MAX_TASKS /\ 0 \in Nat
      BY <1>0, <1>7 DEF FindNTasks, Step, AppOK, ShmType
    <3>2. a.pc = "n_tasks"
      BY <1>7 DEF FindNTasks, Step
    <3> HIDE DEF v
    <3>3. new \in AppType
      BY <1>0, <3>1, ZenonT(60) DEF AppType
    <3>4. new.pc \notin {"read", "wait", "asleep", "generation"} /\ new.g_shm = a.g_shm
      BY <1>0 DEF AppType
    <3> QED
      BY <1>0, <3>2, <3>3, <3>4 DEF AppOK
  <2>2. Blind(a, new)
    BY <1>0, <1>7 DEF FindNTasks, Step, AppOK, AppType, Blind
  <2> QED
    BY <1>1, <1>7, <2>1, <2>2 DEF FindNTasks
<1>8. CASE FindName(t)
  <2>0. a.pc = "scan" /\ a.g_shm \in Objects /\ a.g_shm # None /\ a.i \in Nat /\ a.n \in 0..TIMPANI_MAX_TASKS
    BY <1>0, <1>8, Zenon DEF FindName, Step, AppOK, AppType
  <2>1. CASE a.i >= a.n
    <3>1. AppOK(Found(a, None)) /\ Found(a, None).g_task_idx = None /\ Found(a, None).eq = {}
      BY <1>0, <2>0, FoundOK
    <3>0. ~(a.i < a.n)
      BY <2>0, <2>1, Bounds
    <3>2. Step(t, "scan", Found(a, None))
      BY <1>8, <3>0, Zenon DEF FindName
    <3> QED
      BY <1>1, <3>1, <3>2 DEF AppOK, Blind
  <2>2. CASE a.i < a.n
    <3>0. a.i \in Slots
      BY <2>0, <2>2, Bounds DEF Slots
    <3> DEFINE next == [a EXCEPT !.i = a.i + 1, !.eq = {}]
               more(p) == [a EXCEPT !.eq = @ \cup {p}]
    <3>1. PICK p \in Compared(t) \ a.eq :
            Step(t, "scan", IF shm[a.g_shm].name[a.i][p] # Name[t][p] THEN next
                            ELSE IF Equal(t, a.eq \cup {p}) THEN Found(a, a.i) ELSE more(p))
      <4>1. ~(a.i >= a.n)
        BY <2>0, <2>2, Bounds
      <4> QED
        BY <1>8, <4>1, Zenon DEF FindName
    <3>2. CASE shm[a.g_shm].name[a.i][p] # Name[t][p]
      <4> DEFINE v == a.i + 1
      <4>1. v \in Nat
        BY <2>0
      <4>2. next = [a EXCEPT !.i = v, !.eq = {}]
        OBVIOUS
      <4> HIDE DEF v, next
      <4>3. /\ next \in AppType /\ next.pc = a.pc /\ next.g_shm = a.g_shm
            /\ next.g_task_idx = a.g_task_idx /\ next.eq = {}
        BY <1>0, <4>1, <4>2, Zenon DEF AppType
      <4>4. AppOK(next) /\ Blind(a, next)
        BY <2>0, <4>3 DEF AppOK, Blind
      <4>5. Step(t, "scan", next)
        BY <3>1, <3>2
      <4> QED
        BY <1>1, <4>3, <4>4, <4>5
    <3>3. CASE shm[a.g_shm].name[a.i][p] = Name[t][p] /\ Equal(t, a.eq \cup {p})
      <4>1. AppOK(Found(a, a.i)) /\ Found(a, a.i).g_task_idx = a.i /\ Found(a, a.i).eq = {}
        BY <1>0, <2>0, <3>0, FoundOK
      <4>2. Step(t, "scan", Found(a, a.i))
        BY <3>1, <3>3
      <4>3. p \in Positions /\ a.eq \cup {p} = Compared(t)
        BY <3>3 DEF Compared, Equal
      <4> DEFINE new == Found(a, a.i)
      <4>4. new.g_task_idx = a.i /\ new.eq = {}
        BY <4>1, Zenon
      <4> HIDE DEF new
      <4>5. Looks(t, a, new)
        BY <2>0, <3>0, <3>3, <4>3, <4>4, Zenon DEF Looks
      <4> QED
        BY <1>1, <4>1, <4>2, <4>5 DEF AppOK, new
    <3>4. CASE shm[a.g_shm].name[a.i][p] = Name[t][p] /\ ~Equal(t, a.eq \cup {p})
      <4> DEFINE e == a.eq \cup {p}
                 new == [a EXCEPT !.eq = e]
      <4>1. p \in Positions /\ e \in SUBSET Positions
        BY <1>0 DEF Compared, AppType
      <4>2. Step(t, "scan", new)
        BY <1>0, <3>1, <3>4 DEF AppType
      <4>3. e = a.eq \cup {p}
        OBVIOUS
      <4> HIDE DEF e
      <4>4. /\ new \in AppType /\ new.pc = a.pc /\ new.g_shm = a.g_shm
            /\ new.g_task_idx = a.g_task_idx /\ new.i = a.i /\ new.eq = e
        BY <1>0, <4>1 DEF AppType
      <4> HIDE DEF new
      <4>5. AppOK(new)
        BY <2>0, <4>4 DEF AppOK
      <4>6. Looks(t, a, new)
        BY <2>0, <3>0, <3>4, <4>1, <4>3, <4>4, Zenon DEF Looks
      <4> QED
        BY <1>1, <4>2, <4>4, <4>5, <4>6
    <3> QED
      BY <3>2, <3>3, <3>4
  <2> QED
    BY <2>0, <2>1, <2>2
<1>9. CASE CompareGeneration(t)
  <2> DEFINE new == [a EXCEPT !.pc = IF shm[a.g_shm].generation # a.g_shm_generation THEN "load"
                                     ELSE IF a.g_task_idx = None THEN "find" ELSE "read"]
  <2>1. new \in AppType /\ AppOK(new)
    BY <1>0, <1>9, Bounds DEF CompareGeneration, Step, AppOK, AppType, ShmType
  <2>2. Blind(a, new)
    BY <1>0, <1>9 DEF CompareGeneration, Step, AppOK, AppType, Blind
  <2> QED
    BY <1>1, <1>9, <2>1, <2>2 DEF CompareGeneration
<1>10. CASE LoadGeneration(t)
  <2> DEFINE v == shm[a.g_shm].generation
             new == [a EXCEPT !.g_shm_generation = v, !.g_task_idx = None, !.pc = "find"]
  <2>1. new \in AppType /\ AppOK(new)
    <3>1. v \in Nat
      BY <1>0, <1>10 DEF LoadGeneration, Step, AppOK, ShmType
    <3>2. a.pc = "load"
      BY <1>10 DEF LoadGeneration, Step
    <3> HIDE DEF v
    <3>3. new \in AppType
      BY <1>0, <3>1, ZenonT(60) DEF AppType
    <3>4. new.pc \notin {"read", "wait", "asleep", "generation"} /\ new.g_shm = a.g_shm
      BY <1>0 DEF AppType
    <3> QED
      BY <1>0, <3>2, <3>3, <3>4 DEF AppOK
  <2>2. Blind(a, new)
    BY <1>0, <1>10 DEF LoadGeneration, Step, AppOK, AppType, Blind
  <2> QED
    BY <1>1, <1>10, <2>1, <2>2 DEF LoadGeneration
<1>11. CASE ReadCounter(t)
  <2> DEFINE new == [a EXCEPT !.pc = "wait", !.current = shm[a.g_shm].counter[a.g_task_idx]]
  <2>1. new \in AppType /\ AppOK(new)
    <3>1. shm[a.g_shm].counter[a.g_task_idx] \in Nat
      BY <1>0, <1>11, Bounds DEF ReadCounter, Step, AppOK, AppType, ShmType
    <3> QED
      BY <1>0, <1>11, <3>1, Zenon DEF ReadCounter, Step, AppOK, AppType
  <2>2. Blind(a, new)
    BY <1>0, <1>11 DEF ReadCounter, Step, AppOK, AppType, Blind
  <2> QED
    BY <1>1, <1>11, <2>1, <2>2 DEF ReadCounter
<1>12. CASE FutexWait(t)
  <2> DEFINE new == [a EXCEPT !.pc = IF shm[a.g_shm].counter[a.g_task_idx] = a.current
                                     THEN "asleep" ELSE "woken"]
  <2>1. new \in AppType /\ AppOK(new)
    BY <1>0, <1>12, Bounds, Zenon DEF FutexWait, Step, AppOK, AppType, ShmType
  <2>2. Blind(a, new)
    BY <1>0, <1>12 DEF FutexWait, Step, AppOK, AppType, Blind
  <2> QED
    BY <1>1, <1>12, <2>1, <2>2 DEF FutexWait
<1>13. CASE CheckShutdown(t)
  <2> DEFINE new == IF shm[a.g_shm].magic
                    THEN [a EXCEPT !.pc = "run", !.current = 0]
                    ELSE [a EXCEPT !.pc = "call", !.current = 0, !.g_shm = None, !.g_task_idx = None]
  <2>1. new \in AppType /\ AppOK(new)
    BY <1>0, <1>13, Bounds, Zenon DEF CheckShutdown, Step, AppOK, AppType, ShmType
  <2>2. Blind(a, new)
    BY <1>0, <1>13 DEF CheckShutdown, Step, AppOK, AppType, Blind
  <2> QED
    BY <1>1, <1>13, <2>1, <2>2 DEF CheckShutdown
<1>14. CASE RunWorkload(t)
  <2> DEFINE new == [a EXCEPT !.pc = "call"]
  <2>1. new \in AppType /\ AppOK(new)
    BY <1>0, <1>14, Bounds DEF RunWorkload, Step, AppOK, AppType, ShmType
  <2>2. Blind(a, new)
    BY <1>0, <1>14 DEF RunWorkload, Step, AppOK, AppType, Blind
  <2> QED
    BY <1>1, <1>14, <2>1, <2>2 DEF RunWorkload
<1>15. CASE Interrupt(t)
  <2> DEFINE new == [a EXCEPT !.pc = "wait"]
  <2>1. new \in AppType /\ AppOK(new)
    BY <1>0, <1>15, Bounds DEF Interrupt, Step, AppOK, AppType, ShmType
  <2>2. Blind(a, new)
    BY <1>0, <1>15 DEF Interrupt, Step, AppOK, AppType, Blind
  <2> QED
    BY <1>1, <1>15, <2>1, <2>2 DEF Interrupt
<1> QED
  BY <1>2, <1>3, <1>4, <1>5, <1>6, <1>7, <1>8, <1>9, <1>10, <1>11, <1>12, <1>13, <1>14, <1>15 DEF AppStep

\* A counter that is advanced stays a counter and changes its value.
LEMMA BumpChanges ==
  ASSUME NEW c \in 0..(CounterMod - 1)
  PROVE  (c + 1) % CounterMod \in 0..(CounterMod - 1) /\ (c + 1) % CounterMod # c
<1>1. CASE c + 1 = CounterMod
  <2>1. (c + 1) % CounterMod = 0
    BY <1>1, Bounds
  <2> QED
    BY <1>1, <2>1, Bounds
<1>2. CASE c + 1 < CounterMod
  <2>1. (c + 1) % CounterMod = c + 1
    BY <1>2, Bounds
  <2> QED
    BY <1>2, <2>1, Bounds
<1> QED
  BY <1>1, <1>2, Bounds

\* What a process has looked up stays as it is.
Still(a, new) == new.g_task_idx = a.g_task_idx /\ new.i = a.i /\ new.eq = a.eq

\* FUTEX_WAKE turns sleepers into woken processes and leaves the others alone.
LEMMA Woken ==
  ASSUME TypeOK, NEW S \in SUBSET Apps, \A t \in S : app[t].pc = "asleep",
         app' = FutexWake(S)
  PROVE  /\ app' \in [Apps -> AppType]
         /\ \A t \in Apps : AppOK(app'[t]) /\ Still(app[t], app'[t])
         /\ \A t \in Apps : app'[t] = app[t] \/ (t \in S /\ app'[t].pc = "woken")
         /\ \A t \in S : app'[t].pc = "woken"
<1>1. ASSUME NEW t \in Apps
      PROVE  /\ t \in S => app'[t] = [app[t] EXCEPT !.pc = "woken"]
             /\ t \notin S => app'[t] = app[t]
  BY DEF FutexWake
<1>2. ASSUME NEW t \in Apps
      PROVE  AppOK(app[t]) /\ app[t] \in AppType
  BY DEF TypeOK, AppOK
<1>3. ASSUME NEW t \in S
      PROVE  /\ AppOK([app[t] EXCEPT !.pc = "woken"])
             /\ Still(app[t], [app[t] EXCEPT !.pc = "woken"])
             /\ [app[t] EXCEPT !.pc = "woken"].pc = "woken"
  <2>1. app[t].pc = "asleep" /\ t \in Apps
    OBVIOUS
  <2> QED
    BY <1>2, <2>1 DEF AppOK, AppType, Still
<1>4. ASSUME NEW t \in Apps
      PROVE  AppOK(app'[t]) /\ Still(app[t], app'[t])
  <2>1. CASE t \in S
    BY <1>1, <1>3, <2>1, Zenon
  <2>2. CASE t \notin S
    BY <1>1, <1>2, <2>2, Zenon DEF Still
  <2> QED
    BY <2>1, <2>2
<1>5. app' \in [Apps -> AppType]
  <2>1. app' = [t \in Apps |-> app'[t]]
    BY DEF FutexWake
  <2>2. \A t \in Apps : app'[t] \in AppType
    BY <1>4 DEF AppOK
  <2> QED
    BY <2>1, <2>2
<1>6. ASSUME NEW t \in Apps
      PROVE  /\ app'[t] = app[t] \/ (t \in S /\ app'[t].pc = "woken")
             /\ t \in S => app'[t].pc = "woken"
  BY <1>1, <1>3, Zenon
<1> QED
  BY <1>4, <1>5, <1>6


\* A store to one field of an object leaves the objects well formed.
LEMMA ShmUpdate ==
  ASSUME TypeOK, NEW o \in Objects
  PROVE  /\ \A b \in BOOLEAN : [shm EXCEPT ![o].magic = b] \in [Objects -> ShmType]
         /\ \A n \in 0..TIMPANI_MAX_TASKS : [shm EXCEPT ![o].n_tasks = n] \in [Objects -> ShmType]
         /\ \A g \in Nat : [shm EXCEPT ![o].generation = g] \in [Objects -> ShmType]
         /\ \A i \in Slots, c \in 0..(CounterMod - 1) :
              [shm EXCEPT ![o].counter[i] = c] \in [Objects -> ShmType]
         /\ \A i \in Slots, p \in Positions, c \in Chars :
              [shm EXCEPT ![o].name[i][p] = c] \in [Objects -> ShmType]
<1>1. shm \in [Objects -> ShmType]
  BY DEF TypeOK
<1>2. ASSUME NEW b \in BOOLEAN
      PROVE  [shm EXCEPT ![o].magic = b] \in [Objects -> ShmType]
  BY <1>1 DEF ShmType
<1>3. ASSUME NEW n \in 0..TIMPANI_MAX_TASKS
      PROVE  [shm EXCEPT ![o].n_tasks = n] \in [Objects -> ShmType]
  BY <1>1 DEF ShmType
<1>4. ASSUME NEW g \in Nat
      PROVE  [shm EXCEPT ![o].generation = g] \in [Objects -> ShmType]
  BY <1>1 DEF ShmType
<1>5. ASSUME NEW i \in Slots, NEW c \in 0..(CounterMod - 1)
      PROVE  [shm EXCEPT ![o].counter[i] = c] \in [Objects -> ShmType]
  BY <1>1, Zenon DEF ShmType
<1>6. ASSUME NEW i \in Slots, NEW p \in Positions, NEW c \in Chars
      PROVE  [shm EXCEPT ![o].name[i][p] = c] \in [Objects -> ShmType]
  BY <1>1, Zenon DEF ShmType
<1> QED
  BY <1>2, <1>3, <1>4, <1>5, <1>6, Zenon


\* Every step keeps the types, and what each process and the timer have at hand.
LEMMA TypeStep ==
  ASSUME TypeOK, [Next]_vars
  PROVE  TypeOK'
<1> DEFINE Timer == /\ linked \in Objects \cup {None}
                    /\ tm_pc # "down" => linked # None
                    /\ tm_idx \in Nat
                    /\ tm_pc \in {"bump", "wake", "name", "fire"} => tm_idx \in Slots
           Map == /\ DOMAIN task_hash_to_shm_idx \subseteq Tasks
                  /\ \A t \in DOMAIN task_hash_to_shm_idx : task_hash_to_shm_idx[t] \in Slots
           Procs == app \in [Apps -> AppType] /\ \A t \in Apps : AppOK(app[t])
           Hist == homes \in [Tasks -> SUBSET Slots] /\ reset \subseteq Apps /\ missed \subseteq Apps
           Good == /\ shm \in [Objects -> ShmType] /\ objects \in 0..MaxObjects /\ Timer
                   /\ table \in Seq(Tasks) /\ Map /\ Procs /\ Hist
<1>0. Good
  BY DEF TypeOK
<1>a. SUFFICES Good'
  BY DEF TypeOK
<1>b. tm_pc # "down" => linked \in Objects
  BY <1>0
<1>c. ASSUME UNCHANGED <<table, task_hash_to_shm_idx, app, history>>
      PROVE  table' \in Seq(Tasks) /\ Map' /\ Procs' /\ Hist'
  BY <1>0, <1>c DEF history
<1>d. ASSUME UNCHANGED <<objects, linked, tm_idx>>, tm_pc # "down",
             tm_pc' \notin {"bump", "wake", "name", "fire"} \/ tm_idx \in Slots
      PROVE  objects' \in 0..MaxObjects /\ Timer'
  BY <1>0, <1>d
<1>1. CASE TimerMaster
  <2>1. linked' \in Objects /\ objects' \in 0..MaxObjects
    BY <1>0, <1>1, Bounds DEF TimerMaster, Objects
  <2>2. shm' \in [Objects -> ShmType]
    BY <1>1, <2>1, ShmUpdate, Zenon DEF TimerMaster
  <2> QED
    BY <1>0, <1>1, <1>c, <2>1, <2>2, Bounds DEF TimerMaster
<1>2. CASE TimerMasterNTasks
  <2>1. shm' \in [Objects -> ShmType]
    BY <1>2, <1>b, Bounds, ShmUpdate DEF TimerMasterNTasks
  <2> QED
    BY <1>2, <1>c, <1>d, <2>1 DEF TimerMasterNTasks
<1>3. CASE TimerMasterGeneration
  <2>1. shm' \in [Objects -> ShmType]
    BY <1>3, <1>b, Bounds, ShmUpdate DEF TimerMasterGeneration
  <2> QED
    BY <1>3, <1>c, <1>d, <2>1 DEF TimerMasterGeneration
<1>4. ASSUME NEW slots \in Tables, SetScheduleTable(slots)
      PROVE  Good'
  <2>1. shm' \in [Objects -> ShmType]
    BY <1>4, <1>b, ShmUpdate, Zenon DEF SetScheduleTable
  <2>2. table' \in Seq(Tasks)
    BY <1>4, ConstantsAssumption DEF SetScheduleTable
  <2>3. Timer' /\ objects' \in 0..MaxObjects
    BY <1>0, <1>4, Bounds DEF SetScheduleTable
  <2>4. Map' /\ Procs' /\ Hist'
    BY <1>0, <1>4 DEF SetScheduleTable, history
  <2> QED
    BY <2>1, <2>2, <2>3, <2>4
<1>5. CASE WakeAllBump
  <2>1. linked \in Objects /\ tm_idx \in Slots
    BY <1>0, <1>5 DEF WakeAllBump
  <2>2. shm[linked].counter[tm_idx] \in 0..(CounterMod - 1)
    BY <1>0, <2>1 DEF ShmType
  <2>3. Bump(tm_idx) \in 0..(CounterMod - 1)
    BY <2>2, BumpChanges DEF Bump
  <2>4. shm' \in [Objects -> ShmType]
    BY <1>5, <2>1, <2>3, ShmUpdate DEF WakeAllBump
  <2>5. Hist'
    BY <1>0, <1>5 DEF WakeAllBump
  <2>6. table' \in Seq(Tasks) /\ Map' /\ Procs'
    BY <1>0, <1>5 DEF WakeAllBump
  <2> QED
    BY <1>5, <1>d, <2>1, <2>4, <2>5, <2>6 DEF WakeAllBump
<1>6. CASE WakeAllWake
  <2>1. Procs'
    BY <1>6, Woken DEF WakeAllWake, Waiters
  <2>2. Timer' /\ objects' \in 0..MaxObjects /\ shm' \in [Objects -> ShmType]
    BY <1>0, <1>6, Bounds DEF WakeAllWake, shmVars, Slots
  <2> QED
    BY <1>0, <1>6, <2>1, <2>2 DEF WakeAllWake, history
<1>7. CASE KeepMapping
  <2>1. Map'
    BY <1>0, <1>7 DEF KeepMapping, Restrict
  <2> QED
    BY <1>0, <1>7, <2>1, Zenon DEF KeepMapping, shmVars, history
<1>8. CASE AllocateSlot
  <2> DEFINE t == Head(table)
  <2>1. t \in Tasks /\ Tail(table) \in Seq(Tasks) /\ <<>> \in Seq(Tasks)
    BY <1>0, <1>8 DEF AllocateSlot
  <2>0. shm' \in [Objects -> ShmType]
    BY <1>0, <1>8 DEF AllocateSlot, shmVars
  <2>2. CASE UNCHANGED <<tm_pc, tm_idx, task_hash_to_shm_idx, homes>>
    BY <1>0, <1>8, <2>1, <2>2, Zenon DEF AllocateSlot, shmVars
  <2>3. ASSUME NEW i \in Slots,
               task_hash_to_shm_idx' =
                  [u \in DOMAIN task_hash_to_shm_idx \cup {t} |->
                     IF u = t THEN i ELSE task_hash_to_shm_idx[u]],
               tm_idx' = i,
               homes' = [homes EXCEPT ![t] = @ \cup {i}],
               table' = Tail(table),
               tm_pc' = "name"
        PROVE  Good'
    <3>2. Map'
      BY <1>0, <2>1, <2>3
    <3>3. Hist'
      BY <1>0, <1>8, <2>1, <2>3 DEF AllocateSlot
    <3>4. Timer' /\ objects' \in 0..MaxObjects
      BY <1>0, <1>8, <2>3, Bounds DEF AllocateSlot, shmVars
    <3>5. Procs' /\ table' \in Seq(Tasks)
      BY <1>0, <1>8, <2>1, <2>3 DEF AllocateSlot
    <3> QED
      BY <2>0, <3>2, <3>3, <3>4, <3>5
  <2> QED
    BY <1>8, <2>2, <2>3, Zenon DEF AllocateSlot
<1>8a. CASE WriteName
  <2>1. linked \in Objects /\ tm_idx \in Slots
    BY <1>0, <1>8a DEF WriteName
  <2>2. PICK t \in Tasks, p \in Positions : shm' = [shm EXCEPT ![linked].name[tm_idx][p] = Name[t][p]]
    BY <1>8a, Zenon DEF WriteName
  <2>3. Name[t][p] \in Chars
    BY ConstantsAssumption DEF Chars
  <2>4. shm' \in [Objects -> ShmType]
    BY <2>1, <2>2, <2>3, ShmUpdate, Zenon
  <2> QED
    BY <1>8a, <1>c, <1>d, <2>1, <2>4 DEF WriteName, tmVars
<1>9. CASE ResetCounter
  <2>1. linked \in Objects /\ tm_idx \in Slots /\ 0 \in 0..(CounterMod - 1)
    BY <1>0, <1>9, Bounds DEF ResetCounter
  <2>2. shm' \in [Objects -> ShmType]
    BY <1>9, <2>1, ShmUpdate, Zenon DEF ResetCounter
  <2>3. Hist' /\ Procs'
    BY <1>0, <1>9 DEF ResetCounter
  <2> QED
    BY <1>0, <1>9, <2>2, <2>3 DEF ResetCounter
<1>10. CASE PublishNTasks
  <2>1. shm' \in [Objects -> ShmType]
    BY <1>10, <1>b, ShmUpdate DEF PublishNTasks
  <2> QED
    BY <1>10, <1>c, <1>d, <2>1 DEF PublishNTasks
<1>11. CASE PublishGeneration
  <2>1. linked \in Objects /\ shm[linked].generation + 1 \in Nat
    BY <1>0, <1>11 DEF PublishGeneration, ShmType
  <2>2. shm' \in [Objects -> ShmType]
    BY <1>11, <2>1, ShmUpdate DEF PublishGeneration
  <2> QED
    BY <1>11, <1>c, <1>d, <2>2 DEF PublishGeneration
<1>12. CASE PublishMagic
  <2>1. shm' \in [Objects -> ShmType]
    BY <1>12, <1>b, ShmUpdate, Zenon DEF PublishMagic
  <2> QED
    BY <1>12, <1>c, <1>d, <2>1 DEF PublishMagic
<1>13. ASSUME NEW t \in Tasks, WakeTask(t)
       PROVE  Good'
  <2> DEFINE i == task_hash_to_shm_idx[t]
  <2>1. linked \in Objects /\ i \in Slots
    BY <1>0, <1>13 DEF WakeTask
  <2>2. shm[linked].counter[i] \in 0..(CounterMod - 1)
    BY <1>0, <2>1 DEF ShmType
  <2>3. Bump(i) \in 0..(CounterMod - 1)
    BY <2>2, BumpChanges DEF Bump
  <2>4. shm' \in [Objects -> ShmType]
    BY <1>13, <2>1, <2>3, ShmUpdate DEF WakeTask
  <2>5. Timer' /\ objects' \in 0..MaxObjects
    BY <1>0, <1>13, <2>1, Bounds DEF WakeTask
  <2>6. Map' /\ Procs' /\ Hist' /\ table' \in Seq(Tasks)
    BY <1>0, <1>13 DEF WakeTask
  <2> QED
    BY <2>4, <2>5, <2>6
<1>14. CASE WakeTaskWake
  <2>1. Procs'
    <3>1. CASE UNCHANGED app
      BY <1>0, <3>1
    <3>2. ASSUME NEW t \in Waiters(tm_idx), app' = FutexWake({t})
          PROVE  Procs'
      <4>1. {t} \in SUBSET Apps /\ \A u \in {t} : app[u].pc = "asleep"
        BY <3>2 DEF Waiters
      <4> QED
        BY <3>2, <4>1, Woken
    <3> QED
      BY <1>14, <3>1, <3>2, Zenon DEF WakeTaskWake
  <2>2. Timer' /\ Hist'
    BY <1>0, <1>14 DEF WakeTaskWake, shmVars
  <2> QED
    BY <1>0, <1>14, <2>1, <2>2 DEF WakeTaskWake, shmVars
<1>15. CASE Shutdown
  <2>1. shm' \in [Objects -> ShmType]
    BY <1>15, <1>b, ShmUpdate, Zenon DEF Shutdown
  <2> QED
    BY <1>15, <1>c, <1>d, <2>1 DEF Shutdown
<1>16. CASE ShutdownWake
  <2>1. CASE UNCHANGED <<linked, tm_pc, table, task_hash_to_shm_idx>>
             /\ app' = FutexWake(Waiters(tm_idx)) /\ tm_idx' = tm_idx + 1
    <3>1. Procs'
      BY <2>1, Woken DEF Waiters
    <3> QED
      BY <1>0, <1>16, <2>1, <3>1 DEF ShutdownWake, history
  <2>2. CASE linked' = None /\ Forget /\ UNCHANGED app
    BY <1>0, <1>16, <2>2 DEF ShutdownWake, Forget, NoMapping, history
  <2> QED
    BY <1>16, <2>1, <2>2 DEF ShutdownWake
<1>17. CASE Crash
  BY <1>0, <1>17 DEF Crash, Forget, NoMapping, shmVars
<1>18. ASSUME NEW t \in Apps, AppStep(t) \/ Interrupt(t)
       PROVE  Good'
  <2>1. /\ UNCHANGED <<shmVars, tmVars, homes>>
        /\ app' = [app EXCEPT ![t] = app'[t]]
        /\ AppOK(app'[t])
    BY <1>18, ProcessStep
  <2>2. Procs'
    BY <1>0, <2>1 DEF AppOK
  <2>3. reset' \subseteq reset /\ missed' \subseteq missed
    BY <1>18, Zenon DEF AppStep, WaitNextPeriod, TtschedInit, InitGeneration, RecheckMagic, FindMagic,
                 FindNTasks, FindName, CompareGeneration, LoadGeneration, ReadCounter, FutexWait,
                 CheckShutdown, RunWorkload, Interrupt
  <2> QED
    BY <1>0, <2>1, <2>2, <2>3 DEF shmVars, tmVars
<1>19. CASE UNCHANGED vars
  BY <1>0, <1>19 DEF vars, shmVars, tmVars, history
<1> QED
  BY <1>1, <1>2, <1>3, <1>4, <1>5, <1>6, <1>7, <1>8, <1>8a, <1>9, <1>10, <1>11, <1>12, <1>13,
     <1>14, <1>15, <1>16, <1>17, <1>18, <1>19, Zenon DEF Next, UpdateStep

\* In the initial state the types are right.
LEMMA TypeInit == Init => TypeOK
<1> SUFFICES ASSUME Init PROVE TypeOK
  OBVIOUS
<1>1. NewShm \in ShmType
  <2> DEFINE name == [i \in Slots |-> [p \in Positions |-> NUL]]
             counter == [i \in Slots |-> 0]
  <2>1. name \in [Slots -> [Positions -> Chars]]
    <3>1. NUL \in Chars
      BY DEF Chars
    <3>2. [p \in Positions |-> NUL] \in [Positions -> Chars]
      BY <3>1
    <3> QED
      BY <3>2
  <2>2. counter \in [Slots -> 0..(CounterMod - 1)]
    BY Bounds
  <2>3. NewShm = [magic |-> FALSE, n_tasks |-> 0, generation |-> 0, name |-> name, counter |-> counter]
    BY DEF NewShm
  <2> HIDE DEF name, counter
  <2> QED
    BY <2>1, <2>2, <2>3, Bounds DEF ShmType
<1>2. shm \in [Objects -> ShmType]
  BY <1>1 DEF Init
<1>3. \A t \in Apps : AppOK(app[t])
  BY Bounds DEF Init, AppOK, AppType
<1>4. app \in [Apps -> AppType]
  BY <1>3, Zenon DEF Init, AppOK
<1>5. <<>> \in Seq(Tasks)
  OBVIOUS
<1>6. /\ objects \in 0..MaxObjects /\ linked \in Objects \cup {None} /\ tm_idx \in Nat
      /\ tm_pc = "down"
  BY Bounds DEF Init
<1>7. table \in Seq(Tasks) /\ DOMAIN task_hash_to_shm_idx = {}
  BY <1>5 DEF Init, NoMapping
<1>8. homes \in [Tasks -> SUBSET Slots] /\ reset = {} /\ missed = {}
  BY DEF Init
<1> QED
  BY <1>2, <1>3, <1>4, <1>6, <1>7, <1>8 DEF TypeOK

\* What a store to one field of an object leaves alone.
LEMMA StoreField ==
  ASSUME TypeOK, NEW o \in Objects, NEW b,
         \/ shm' = [shm EXCEPT ![o].magic = b]
         \/ shm' = [shm EXCEPT ![o].generation = b]
         \/ shm' = [shm EXCEPT ![o].n_tasks = b]
  PROVE  /\ \A p \in Objects : shm'[p].name = shm[p].name /\ shm'[p].counter = shm[p].counter
         /\ \/ shm'[o].n_tasks = shm[o].n_tasks
            \/ shm' = [shm EXCEPT ![o].n_tasks = b] /\ shm'[o].n_tasks = b
<1>1. shm \in [Objects -> ShmType] /\ \A p \in Objects : shm[p] \in ShmType
  BY DEF TypeOK
<1>2. CASE shm' = [shm EXCEPT ![o].magic = b]
  BY <1>1, <1>2 DEF ShmType
<1>3. CASE shm' = [shm EXCEPT ![o].generation = b]
  BY <1>1, <1>3 DEF ShmType
<1>4. CASE shm' = [shm EXCEPT ![o].n_tasks = b]
  BY <1>1, <1>4 DEF ShmType
<1> QED
  BY <1>2, <1>3, <1>4

LEMMA StoreCounter ==
  ASSUME TypeOK, NEW o \in Objects, NEW b, NEW i \in Slots,
         shm' = [shm EXCEPT ![o].counter[i] = b]
  PROVE  /\ shm'[o].counter[i] = b
         /\ \A p \in Objects : shm'[p].name = shm[p].name /\ shm'[p].n_tasks = shm[p].n_tasks
         /\ \A p \in Objects, j \in Slots :
              (p = o /\ j = i) \/ shm'[p].counter[j] = shm[p].counter[j]
<1>1. shm \in [Objects -> ShmType] /\ \A p \in Objects : shm[p] \in ShmType
  BY DEF TypeOK
<1>2. shm'[o].counter[i] = b
  BY <1>1 DEF ShmType
<1>3. ASSUME NEW p \in Objects
      PROVE  shm'[p].name = shm[p].name /\ shm'[p].n_tasks = shm[p].n_tasks
  BY <1>1 DEF ShmType
<1>4. ASSUME NEW p \in Objects, NEW j \in Slots
      PROVE  (p = o /\ j = i) \/ shm'[p].counter[j] = shm[p].counter[j]
  BY <1>1 DEF ShmType
<1> QED
  BY <1>2, <1>3, <1>4

LEMMA StoreName ==
  ASSUME TypeOK, NEW o \in Objects, NEW c, NEW i \in Slots, NEW p \in Positions,
         shm' = [shm EXCEPT ![o].name[i][p] = c]
  PROVE  /\ \A x \in Objects : shm'[x].counter = shm[x].counter /\ shm'[x].n_tasks = shm[x].n_tasks
         /\ \A x \in Objects, j \in Slots :
              (x = o /\ j = i) \/ shm'[x].name[j] = shm[x].name[j]
         /\ \A q \in Positions \ {p} : shm'[o].name[i][q] = shm[o].name[i][q]
<1>1. shm \in [Objects -> ShmType] /\ \A x \in Objects : shm[x] \in ShmType
  BY DEF TypeOK
<1>2. ASSUME NEW q \in Positions \ {p}
      PROVE  shm'[o].name[i][q] = shm[o].name[i][q]
  BY <1>1 DEF ShmType
<1>3. ASSUME NEW x \in Objects
      PROVE  shm'[x].counter = shm[x].counter /\ shm'[x].n_tasks = shm[x].n_tasks
  BY <1>1 DEF ShmType
<1>4. ASSUME NEW x \in Objects, NEW j \in Slots
      PROVE  (x = o /\ j = i) \/ shm'[x].name[j] = shm[x].name[j]
  BY <1>1 DEF ShmType
<1> QED
  BY <1>2, <1>3, <1>4

\* The shared memory, the timer and the processes stay well formed.
THEOREM TtTyping == Spec => []TypeOK
<1> QED
  BY TypeInit, TypeStep, PTL DEF Spec

\* Names and homes go together through every step.
LEMMA HomeStep ==
  ASSUME TypeOK, HomeInv, [Next]_vars
  PROVE  HomeInv'
<1> DEFINE map == task_hash_to_shm_idx
           Keeps == DOMAIN map' \subseteq DOMAIN map /\ \A t \in DOMAIN map' : map'[t] = map[t]
<1>0. /\ shm \in [Objects -> ShmType] /\ homes \in [Tasks -> SUBSET Slots]
      /\ tm_pc # "down" => linked \in Objects
      /\ DOMAIN map \subseteq Tasks
      /\ Apps \subseteq Tasks
      /\ NamedHome /\ ScanInv /\ MapHome /\ SlotWasOwn
  BY ConstantsAssumption DEF TypeOK, HomeInv
<1>1. ASSUME \A o \in Objects : shm'[o].name = shm[o].name, homes' = homes
      PROVE  NamedHome'
  BY <1>0, <1>1 DEF NamedHome, Borne
<1>2. ASSUME \A t \in Apps : Still(app[t], app'[t]), homes' = homes
      PROVE  SlotWasOwn' /\ ScanInv'
  <2>1. SlotWasOwn'
    BY <1>0, <1>2 DEF SlotWasOwn, Still, Distinct, Compared
  <2>2. ScanInv'
    BY <1>0, <1>2 DEF ScanInv, Still, Borne
  <2> QED
    BY <2>1, <2>2
<1>3. ASSUME NEW o \in Objects, NEW b, \/ shm' = [shm EXCEPT ![o].magic = b]
                                       \/ shm' = [shm EXCEPT ![o].n_tasks = b]
                                       \/ shm' = [shm EXCEPT ![o].generation = b]
      PROVE  \A q \in Objects : shm'[q].name = shm[q].name
  BY <1>3, StoreField
<1>4. ASSUME NEW o \in Objects, NEW i \in Slots, NEW b, shm' = [shm EXCEPT ![o].counter[i] = b]
      PROVE  \A q \in Objects : shm'[q].name = shm[q].name
  BY <1>4, StoreCounter
<1>a. ASSUME Keeps, homes' = homes
      PROVE  MapHome'
  BY <1>0, <1>a DEF MapHome
<1>b. ASSUME UNCHANGED <<app, homes>>
      PROVE  SlotWasOwn' /\ ScanInv'
  BY <1>2, <1>b DEF Still
<1>5. CASE TimerMaster
  <2>1. linked' \in Objects
    BY <1>5, Bounds DEF TimerMaster, TypeOK, Objects
  <2>2. UNCHANGED <<app, homes, task_hash_to_shm_idx>>
    BY <1>5 DEF TimerMaster, history
  <2>3. \A q \in Objects : shm'[q].name = shm[q].name
    BY <1>3, <1>5, <2>1 DEF TimerMaster
  <2> QED
    BY <1>1, <1>a, <1>b, <2>2, <2>3 DEF HomeInv
<1>6. CASE TimerMasterNTasks \/ TimerMasterGeneration \/ PublishNTasks \/ PublishGeneration
           \/ PublishMagic \/ Shutdown \/ \E slots \in Tables : SetScheduleTable(slots)
  <2>1. UNCHANGED <<app, homes, task_hash_to_shm_idx>> /\ linked \in Objects
    BY <1>0, <1>6 DEF TimerMasterNTasks, TimerMasterGeneration, PublishNTasks, PublishGeneration,
                      PublishMagic, Shutdown, SetScheduleTable, history
  <2>2. \E b : \/ shm' = [shm EXCEPT ![linked].magic = b]
               \/ shm' = [shm EXCEPT ![linked].n_tasks = b]
               \/ shm' = [shm EXCEPT ![linked].generation = b]
    BY <1>6, Zenon DEF TimerMasterNTasks, TimerMasterGeneration, PublishNTasks, PublishGeneration,
                PublishMagic, Shutdown, SetScheduleTable
  <2>3. \A q \in Objects : shm'[q].name = shm[q].name
    BY <1>3, <2>1, <2>2
  <2> QED
    BY <1>1, <1>a, <1>b, <2>1, <2>3 DEF HomeInv
<1>7. CASE WakeAllBump \/ ResetCounter \/ \E t \in Tasks : WakeTask(t)
  <2>1. UNCHANGED <<app, homes, task_hash_to_shm_idx>> /\ linked \in Objects
    BY <1>0, <1>7 DEF WakeAllBump, ResetCounter, WakeTask
  <2>2. \E i \in Slots : \E b : shm' = [shm EXCEPT ![linked].counter[i] = b]
    BY <1>7, Zenon DEF WakeAllBump, ResetCounter, WakeTask, TypeOK
  <2>3. \A q \in Objects : shm'[q].name = shm[q].name
    BY <1>4, <2>1, <2>2
  <2> QED
    BY <1>1, <1>a, <1>b, <2>1, <2>3 DEF HomeInv
<1>8. CASE WakeAllWake \/ WakeTaskWake \/ ShutdownWake \/ Crash \/ KeepMapping
  <2>1. shm' = shm /\ homes' = homes
    BY <1>8 DEF WakeAllWake, WakeTaskWake, ShutdownWake, Crash, KeepMapping, history, shmVars
  <2>2. \/ UNCHANGED app
        \/ \E S \in SUBSET Apps : (\A t \in S : app[t].pc = "asleep") /\ app' = FutexWake(S)
    <3>1. /\ Waiters(tm_idx) \in SUBSET Apps
          /\ \A t \in Waiters(tm_idx) : /\ app[t].pc = "asleep"
                                        /\ {t} \in SUBSET Apps
      BY DEF Waiters
    <3> QED
      BY <1>8, <3>1, Zenon DEF WakeAllWake, WakeTaskWake, ShutdownWake, Crash, KeepMapping
  <2>3. \A t \in Apps : Still(app[t], app'[t])
    <3>1. CASE UNCHANGED app
      BY <3>1 DEF Still
    <3> QED
      BY <2>2, <3>1, Woken
  <2>4. Keeps
    BY <1>8 DEF WakeAllWake, WakeTaskWake, ShutdownWake, Crash, KeepMapping, Forget, NoMapping, Restrict
  <2> QED
    BY <1>1, <1>2, <1>a, <2>1, <2>3, <2>4 DEF HomeInv
<1>9. CASE AllocateSlot
  <2> DEFINE t == Head(table)
  <2>1. t \in Tasks /\ shm' = shm /\ app' = app
    <3>1. table \in Seq(Tasks)
      BY DEF TypeOK
    <3> QED
      BY <1>9, <3>1 DEF AllocateSlot, shmVars
  <2>2. CASE UNCHANGED <<task_hash_to_shm_idx, homes>>
    BY <1>1, <1>a, <1>b, <2>1, <2>2 DEF HomeInv
  <2>3. ASSUME NEW i \in Slots,
               map' = [u \in DOMAIN map \cup {t} |-> IF u = t THEN i ELSE map[u]],
               homes' = [homes EXCEPT ![t] = @ \cup {i}]
        PROVE  HomeInv'
    <3>1. \A u \in Tasks : homes[u] \subseteq homes'[u]
      BY <1>0, <2>1, <2>3
    <3>2. i \in homes'[t]
      BY <1>0, <2>1, <2>3
    <3>3. \A j, q, c : Borne(j, q, c) => Borne(j, q, c)'
      BY <3>1 DEF Borne
    <3>4. NamedHome'
      BY <1>0, <2>1, <3>3 DEF NamedHome
    <3>5. ScanInv'
      BY <1>0, <2>1, <3>3 DEF ScanInv
    <3>6. MapHome'
      <4> SUFFICES ASSUME NEW u \in DOMAIN map'
                   PROVE  map'[u] \in homes'[u]
        BY DEF MapHome
      <4>1. CASE u = t
        BY <2>3, <3>2, <4>1
      <4>2. CASE u # t
        <5>1. u \in DOMAIN map /\ map'[u] = map[u]
          BY <2>3, <4>2
        <5> QED
          BY <1>0, <3>1, <5>1 DEF MapHome
      <4> QED
        BY <4>1, <4>2
    <3>7. SlotWasOwn'
      BY <1>0, <2>1, <3>1 DEF SlotWasOwn, Distinct, Compared
    <3> QED
      BY <3>4, <3>5, <3>6, <3>7 DEF HomeInv
  <2> QED
    BY <1>9, <2>2, <2>3, Zenon DEF AllocateSlot
<1>9a. CASE WriteName
  <2>1. PICK t \in Tasks, p \in Positions :
               Named(t) /\ shm' = [shm EXCEPT ![linked].name[tm_idx][p] = Name[t][p]]
    BY <1>9a, Zenon DEF WriteName
  <2>2. linked \in Objects /\ tm_idx \in Slots /\ UNCHANGED <<app, homes, task_hash_to_shm_idx>>
    BY <1>0, <1>9a DEF WriteName, TypeOK, tmVars, history
  <2>3. Borne(tm_idx, p, Name[t][p])
    BY <1>0, <2>1 DEF Borne, Named, MapHome
  <2>4. NamedHome'
    <3> SUFFICES ASSUME NEW o \in Objects, NEW i \in Slots, NEW q \in Positions
                 PROVE  Borne(i, q, shm'[o].name[i][q])
      BY <2>2 DEF NamedHome, Borne
    <3>1. CASE o = linked /\ i = tm_idx
      <4>1. CASE q = p
        <5>1. shm'[linked].name[tm_idx][p] = Name[t][p]
          <6> DEFINE c == Name[t][p]
          <6>1. /\ linked \in Objects /\ tm_idx \in Slots /\ p \in Positions
                /\ shm' = [shm EXCEPT ![linked].name[tm_idx][p] = c]
            BY <2>1, <2>2
          <6> HIDE DEF c
          <6>2. shm \in [Objects -> ShmType] /\ shm[linked] \in ShmType
            BY <6>1 DEF TypeOK
          <6>3. shm'[linked].name[tm_idx][p] = c
            BY <6>1, <6>2 DEF ShmType
          <6> QED
            BY <6>3 DEF c
        <5> QED
          BY <2>3, <3>1, <4>1, <5>1
      <4>2. CASE q # p
        <5>1. shm'[linked].name[tm_idx][q] = shm[linked].name[tm_idx][q]
          BY <2>1, <2>2, <4>2, StoreName
        <5> QED
          BY <1>0, <3>1, <5>1 DEF NamedHome
      <4> QED
        BY <4>1, <4>2
    <3>2. CASE ~(o = linked /\ i = tm_idx)
      <4>1. shm'[o].name[i] = shm[o].name[i]
        BY <2>1, <2>2, <3>2, StoreName
      <4> QED
        BY <1>0, <4>1 DEF NamedHome
    <3> QED
      BY <3>1, <3>2
  <2> QED
    BY <1>a, <1>b, <2>2, <2>4 DEF HomeInv
<1>10. ASSUME NEW t \in Apps, AppStep(t) \/ Interrupt(t)
       PROVE  HomeInv'
  <2>1. /\ UNCHANGED <<shmVars, homes, task_hash_to_shm_idx>>
        /\ app' = [app EXCEPT ![t] = app'[t]]
        /\ app'[t] \in AppType
        /\ Blind(app[t], app'[t]) \/ Looks(t, app[t], app'[t])
    BY <1>10, ProcessStep DEF AppOK, tmVars
  <2>2. NamedHome' /\ MapHome'
    BY <1>1, <1>a, <2>1 DEF shmVars
  <2>3. \A u \in Apps : u # t => app'[u] = app[u]
    BY <2>1 DEF TypeOK
  <2>4. \A q \in app[t].eq : app[t].i \in Slots /\ Borne(app[t].i, q, Name[t][q])
    BY <1>0 DEF ScanInv
  <2>5. \A j, q, c : Borne(j, q, c) <=> Borne(j, q, c)'
    BY <2>1 DEF Borne
  <2>6. CASE Blind(app[t], app'[t])
    <3>1. Distinct(t) /\ app'[t].g_task_idx # None => app'[t].g_task_idx \in homes[t]
      BY <1>0, <2>6 DEF Blind, SlotWasOwn
    <3>2. \A q \in app'[t].eq : app'[t].i \in Slots /\ Borne(app'[t].i, q, Name[t][q])
      BY <2>4, <2>6 DEF Blind
    <3>3. SlotWasOwn'
      BY <1>0, <2>1, <2>3, <3>1 DEF SlotWasOwn, Distinct, Compared
    <3>4. ScanInv'
      BY <1>0, <2>3, <2>5, <3>2 DEF ScanInv
    <3> QED
      BY <2>2, <3>3, <3>4 DEF HomeInv
  <2>7. CASE Looks(t, app[t], app'[t])
    <3>1. PICK p \in Positions, o \in Objects :
            /\ app[t].i \in Slots /\ shm[o].name[app[t].i][p] = Name[t][p]
            /\ \/ /\ app'[t].g_task_idx = app[t].g_task_idx /\ app'[t].i = app[t].i
                  /\ app'[t].eq = app[t].eq \cup {p}
               \/ /\ app'[t].g_task_idx = app[t].i /\ app'[t].eq = {}
                  /\ app[t].eq \cup {p} = Compared(t)
      BY <2>7 DEF Looks
    <3>2. Borne(app[t].i, p, Name[t][p])
      BY <1>0, <3>1 DEF NamedHome
    <3>3. \A q \in app[t].eq \cup {p} : Borne(app[t].i, q, Name[t][q])
      BY <2>4, <3>2
    <3>4. \A q \in app'[t].eq : app'[t].i \in Slots /\ Borne(app'[t].i, q, Name[t][q])
      BY <3>1, <3>3
    <3>5. ASSUME Distinct(t), app[t].eq \cup {p} = Compared(t)
          PROVE  app[t].i \in homes[t]
      <4>1. PICK q \in Compared(t) : /\ Name[t][q] # NUL
                                     /\ \A u \in Tasks \ {t} : Name[u][q] # Name[t][q]
        BY <3>5 DEF Distinct
      <4>2. PICK u \in Tasks : app[t].i \in homes[u] /\ Name[u][q] = Name[t][q]
        BY <3>3, <3>5, <4>1 DEF Borne
      <4> QED
        BY <4>1, <4>2
    <3>6. Distinct(t) /\ app'[t].g_task_idx # None => app'[t].g_task_idx \in homes[t]
      BY <1>0, <3>1, <3>5 DEF SlotWasOwn
    <3>7. SlotWasOwn'
      BY <1>0, <2>1, <2>3, <3>6 DEF SlotWasOwn, Distinct, Compared
    <3>8. ScanInv'
      BY <1>0, <2>3, <2>5, <3>4 DEF ScanInv
    <3> QED
      BY <2>2, <3>7, <3>8 DEF HomeInv
  <2> QED
    BY <2>1, <2>6, <2>7
<1>11. CASE UNCHANGED vars
  BY <1>1, <1>a, <1>b, <1>11 DEF vars, shmVars, tmVars, history, HomeInv
<1> QED
  BY <1>5, <1>6, <1>7, <1>8, <1>9, <1>9a, <1>10, <1>11 DEF Next, UpdateStep

\* Whatever tables, crashes and restarts of timpani-n fall between the loads of
\* a process, and whatever halves of names it compares, it waits only on slots of
\* its own task, if its name has a character of its own.
THEOREM OwnSlots == Spec => []SlotWasOwn
<1>1. Init => HomeInv
  BY DEF Init, HomeInv, NamedHome, ScanInv, MapHome, SlotWasOwn, Borne, NewShm, NoMapping
<1>2. TypeOK /\ HomeInv /\ [Next]_vars => (TypeOK /\ HomeInv)'
  BY TypeStep, HomeStep, SMTT(30)
<1>3. HomeInv => SlotWasOwn
  BY DEF HomeInv
<1> QED
  BY <1>1, <1>2, <1>3, TypeInit, PTL DEF Spec

\* The mapping of tasks to slots stays in step with the names in the object.
LEMMA MappingStep ==
  ASSUME TypeOK, MappingInv, [Next]_vars
  PROVE  MappingInv'
<1> DEFINE map == task_hash_to_shm_idx
           Early == {"down", "ctor_n_tasks", "ctor_generation"}
           Settled == {"generation", "magic", "idle", "fire", "dtor"}
           Written(i) == tm_pc = "name" /\ i = tm_idx
           Names == /\ tm_pc = "name" => \E t \in DOMAIN map : map[t] = tm_idx
                    /\ \A t \in DOMAIN map :
                         /\ ~Written(map[t]) => shm[linked].name[map[t]] = Name[t]
                         /\ \A j \in Slots : j < map[t] /\ ~Written(j) =>
                              ~Matches(shm[linked].name[j], t)
           Below == \A t \in DOMAIN map : map[t] < shm[linked].n_tasks
           OneEach == \A t, u \in DOMAIN map : map[t] = map[u] => t = u
<1>0. /\ tm_pc # "down" => linked \in Objects
      /\ \A t \in DOMAIN map : map[t] \in Slots
      /\ tm_pc \in Early => DOMAIN map = {}
      /\ OneEach /\ Names
      /\ tm_pc \in Settled => Below
      /\ DOMAIN map \subseteq Tasks
  BY DEF TypeOK, MappingInv
<1>a. SUFFICES /\ tm_pc' \in Early => DOMAIN map' = {}
               /\ OneEach' /\ Names'
               /\ tm_pc' \in Settled => Below'
  BY DEF MappingInv
<1>b. ASSUME map' = map, linked' = linked, linked \in Objects, shm'[linked].name = shm[linked].name,
             tm_pc # "name", tm_pc' # "name"
      PROVE  OneEach' /\ Names'
  BY <1>0, <1>b DEF Matches, Compared
<1>c. ASSUME map' = map, linked' = linked, shm'[linked].n_tasks = shm[linked].n_tasks, Below
      PROVE  Below'
  BY <1>c
<1>d. ASSUME DOMAIN map' = {}, tm_pc' # "name"
      PROVE  OneEach' /\ Names' /\ Below'
  BY <1>d
<1>1. CASE TimerMaster
  BY <1>0, <1>1, <1>d DEF TimerMaster
<1>2. CASE TimerMasterNTasks \/ TimerMasterGeneration
  BY <1>0, <1>2, <1>d DEF TimerMasterNTasks, TimerMasterGeneration
<1>3. CASE Shutdown \/ PublishGeneration \/ PublishMagic \/ \E slots \in Tables : SetScheduleTable(slots)
  <2>1. /\ linked' = linked /\ linked \in Objects /\ map' = map /\ Below /\ tm_pc' \notin Early
        /\ tm_pc # "name" /\ tm_pc' # "name"
        /\ \E b : \/ shm' = [shm EXCEPT ![linked].magic = b]
                  \/ shm' = [shm EXCEPT ![linked].generation = b]
    BY <1>0, <1>3 DEF Shutdown, PublishGeneration, PublishMagic, SetScheduleTable
  <2>2. shm'[linked].name = shm[linked].name
    BY <2>1, StoreField
  <2>3. shm'[linked].n_tasks = shm[linked].n_tasks
    BY <2>1 DEF TypeOK, ShmType
  <2> QED
    BY <1>b, <1>c, <2>1, <2>2, <2>3
<1>4. CASE WakeAllBump
  <2>1. /\ linked' = linked /\ linked \in Objects /\ map' = map /\ tm_idx \in Slots
        /\ tm_pc' \notin Early \cup Settled /\ tm_pc # "name" /\ tm_pc' # "name"
        /\ \E b : shm' = [shm EXCEPT ![linked].counter[tm_idx] = b]
    BY <1>0, <1>4, Zenon DEF WakeAllBump, TypeOK
  <2>2. shm'[linked].name = shm[linked].name
    BY <2>1, StoreCounter
  <2> QED
    BY <1>b, <2>1, <2>2
<1>4a. CASE ResetCounter
  <2>1. /\ linked' = linked /\ linked \in Objects /\ map' = map /\ tm_idx \in Slots
        /\ tm_pc = "name" /\ tm_pc' = "alloc"
        /\ \A t \in Tasks : Named(t) => shm[linked].name[tm_idx] = Name[t]
        /\ \E b : shm' = [shm EXCEPT ![linked].counter[tm_idx] = b]
    BY <1>0, <1>4a, Zenon DEF ResetCounter, TypeOK
  <2>2. shm'[linked].name = shm[linked].name
    BY <2>1, StoreCounter
  <2>3. PICK w \in DOMAIN map : map[w] = tm_idx
    BY <1>0, <2>1
  <2>4. w \in Tasks /\ shm[linked].name[tm_idx] = Name[w]
    BY <1>0, <2>1, <2>3 DEF Named
  <2>5. ASSUME NEW t \in DOMAIN map
        PROVE  /\ shm[linked].name[map[t]] = Name[t]
               /\ \A j \in Slots : j < map[t] => ~Matches(shm[linked].name[j], t)
    <3>1. shm[linked].name[map[t]] = Name[t]
      BY <1>0, <2>3, <2>4
    <3>2. ASSUME NEW j \in Slots, j < map[t]
          PROVE  ~Matches(shm[linked].name[j], t)
      <4>1. CASE j = tm_idx
        <5>1. w # t /\ t \in Tasks
          BY <1>0, <2>3, <3>2, <4>1, Bounds DEF Slots
        <5> QED
          BY <2>4, <4>1, <5>1, ConstantsAssumption
      <4>2. CASE j # tm_idx
        BY <1>0, <3>2, <4>2
      <4> QED
        BY <4>1, <4>2
    <3> QED
      BY <3>1, <3>2
  <2>6. OneEach'
    BY <1>0, <2>1
  <2>7. Names'
    BY <2>1, <2>2, <2>5 DEF Matches, Compared
  <2> QED
    BY <2>1, <2>6, <2>7
<1>4b. CASE WriteName
  <2>1. PICK t \in Tasks, p \in Positions :
               shm' = [shm EXCEPT ![linked].name[tm_idx][p] = Name[t][p]]
    BY <1>4b, Zenon DEF WriteName
  <2>2. /\ linked \in Objects /\ tm_idx \in Slots /\ linked' = linked /\ map' = map
        /\ tm_pc = "name" /\ tm_pc' = "name" /\ tm_idx' = tm_idx
    BY <1>0, <1>4b DEF WriteName, TypeOK, tmVars
  <2>3. \A j \in Slots : j = tm_idx \/ shm'[linked].name[j] = shm[linked].name[j]
    BY <2>1, <2>2, StoreName
  <2>4. OneEach'
    BY <1>0, <2>2
  <2>5. Names'
    BY <1>0, <2>2, <2>3 DEF Matches, Compared
  <2> QED
    BY <2>2, <2>4, <2>5
<1>5. ASSUME NEW t \in Tasks, WakeTask(t)
      PROVE  /\ tm_pc' \in Early => DOMAIN map' = {}
             /\ OneEach' /\ Names'
             /\ tm_pc' \in Settled => Below'
  <2>1. /\ linked' = linked /\ linked \in Objects /\ map' = map /\ map[t] \in Slots
        /\ tm_pc' \notin Early /\ Below /\ tm_pc # "name" /\ tm_pc' # "name"
        /\ \E b : shm' = [shm EXCEPT ![linked].counter[map[t]] = b]
    BY <1>0, <1>5, Zenon DEF WakeTask, TypeOK
  <2>2. shm'[linked].name = shm[linked].name /\ shm'[linked].n_tasks = shm[linked].n_tasks
    BY <2>1, StoreCounter
  <2> QED
    BY <1>b, <1>c, <2>1, <2>2
<1>6. CASE WakeAllWake \/ WakeTaskWake
  BY <1>0, <1>6, <1>b, <1>c DEF WakeAllWake, WakeTaskWake, shmVars
<1>7. CASE KeepMapping
  <2>1. /\ linked' = linked /\ shm' = shm /\ DOMAIN map' \subseteq DOMAIN map
        /\ \A t \in DOMAIN map' : map'[t] = map[t]
        /\ tm_pc' \notin Early \cup Settled /\ tm_pc # "name" /\ tm_pc' # "name"
    BY <1>7 DEF KeepMapping, Restrict, shmVars
  <2> QED
    BY <1>0, <2>1 DEF Matches, Compared
<1>8. CASE AllocateSlot
  <2> DEFINE t == Head(table)
  <2>0. /\ linked' = linked /\ linked \in Objects /\ shm' = shm
        /\ tm_pc' \notin Early \cup Settled /\ tm_pc # "name" /\ t \in Tasks
    <3>1. table \in Seq(Tasks)
      BY DEF TypeOK
    <3> QED
      BY <1>0, <1>8, <3>1 DEF AllocateSlot, shmVars
  <2>1. CASE UNCHANGED <<tm_pc, task_hash_to_shm_idx>>
    BY <1>b, <2>0, <2>1
  <2>2. ASSUME t \notin DOMAIN map,
               NEW i \in Slots, LowestFree(i),
               map' = [u \in DOMAIN map \cup {t} |-> IF u = t THEN i ELSE map[u]],
               tm_idx' = i, tm_pc' = "name"
        PROVE  OneEach' /\ Names'
    <3>1. /\ DOMAIN map' = DOMAIN map \cup {t}
          /\ map'[t] = i
          /\ \A u \in DOMAIN map : map'[u] = map[u]
      BY <2>2
    <3>3. \A u \in DOMAIN map : map[u] # i /\ u # t
      BY <2>2 DEF LowestFree, Used
    <3>4. OneEach'
      <4> SUFFICES ASSUME NEW u \in DOMAIN map', NEW v \in DOMAIN map', map'[u] = map'[v]
                   PROVE  u = v
        OBVIOUS
      <4>1. CASE u = t \/ v = t
        BY <3>1, <3>3, <4>1
      <4>2. CASE u \in DOMAIN map /\ v \in DOMAIN map
        BY <1>0, <3>1, <4>2
      <4> QED
        BY <3>1, <4>1, <4>2
    <3>5. \A j \in Slots : j < i => \E u \in DOMAIN map : map[u] = j
      <4>1. \A j \in Slots : j \notin Used => i <= j
        BY <2>2 DEF LowestFree
      <4> QED
        BY <4>1, Bounds DEF Used
    <3>6. ASSUME NEW j \in Slots, j < i
          PROVE  ~Matches(shm[linked].name[j], t)
      <4>1. PICK u \in DOMAIN map : map[u] = j
        BY <3>5, <3>6
      <4>2. shm[linked].name[j] = Name[u] /\ u \in Tasks /\ u # t
        BY <1>0, <2>0, <3>3, <4>1
      <4> QED
        BY <2>0, <4>2, ConstantsAssumption
    <3>7. ASSUME NEW u \in DOMAIN map
          PROVE  /\ shm[linked].name[map[u]] = Name[u]
                 /\ \A j \in Slots : j < map[u] => ~Matches(shm[linked].name[j], u)
      BY <1>0, <2>0
    <3>8. Names'
      <4>1. \E u \in DOMAIN map' : map'[u] = tm_idx'
        BY <2>2, <3>1
      <4>2. ASSUME NEW u \in DOMAIN map'
            PROVE  /\ ~Written(map[u])' => (shm[linked].name[map[u]] = Name[u])'
                   /\ \A j \in Slots : j < map'[u] /\ ~Written(j)' =>
                        ~Matches(shm'[linked'].name[j], u)
        <5> HIDE DEF t
        <5>1. CASE u = t
          BY <2>0, <2>2, <3>1, <3>6, <5>1 DEF Matches, Compared
        <5>2. CASE u \in DOMAIN map
          BY <2>0, <3>1, <3>7, <5>2 DEF Matches, Compared
        <5> QED
          BY <3>1, <5>1, <5>2
      <4> QED
        BY <4>1, <4>2 DEF Matches, Compared
    <3> QED
      BY <3>4, <3>8
  <2> QED
    BY <1>8, <2>0, <2>1, <2>2, Zenon DEF AllocateSlot
<1>9. CASE PublishNTasks
  <2>1. PICK n \in 0..TIMPANI_MAX_TASKS : /\ \A i \in Used : i < n
                                          /\ shm' = [shm EXCEPT ![linked].n_tasks = n]
    BY <1>9, Zenon DEF PublishNTasks
  <2>2. linked' = linked /\ linked \in Objects /\ map' = map /\ tm_pc' \notin Early
        /\ tm_pc # "name" /\ tm_pc' # "name"
    BY <1>0, <1>9 DEF PublishNTasks
  <2>3. shm'[linked].name = shm[linked].name
    BY <2>1, <2>2, StoreField
  <2>4. shm'[linked].n_tasks = n
    BY <2>1, <2>2 DEF TypeOK, ShmType
  <2>5. Below'
    BY <2>1, <2>2, <2>4 DEF Used
  <2> QED
    BY <1>b, <2>2, <2>3, <2>5
<1>10. CASE ShutdownWake
  <2>1. CASE UNCHANGED <<linked, tm_pc, task_hash_to_shm_idx>>
    BY <1>0, <1>10, <1>b, <1>c, <2>1 DEF ShutdownWake
  <2>2. CASE Forget
    BY <1>d, <2>2 DEF Forget, NoMapping
  <2> QED
    BY <1>10, <2>1, <2>2 DEF ShutdownWake
<1>11. CASE Crash
  BY <1>11, <1>d DEF Crash, Forget, NoMapping
<1>12. CASE (\E t \in Apps : AppStep(t) \/ Interrupt(t)) \/ UNCHANGED vars
  <2>1. UNCHANGED <<shm, linked, tm_pc, tm_idx, task_hash_to_shm_idx>>
    BY <1>12, ProcessStep DEF vars, shmVars, tmVars
  <2> QED
    BY <1>0, <2>1 DEF Matches, Compared
<1> QED
  BY <1>1, <1>2, <1>3, <1>4, <1>4a, <1>4b, <1>5, <1>6, <1>7, <1>8, <1>9, <1>10, <1>11, <1>12,
     ZenonT(60)
     DEF Next, UpdateStep

\* In a published table the lookup of libttsched ends at the slot the timer
\* wakes: no name left over from an earlier table is met before it.
THEOREM LookupIsRight == Spec => []LookupFindsOwnSlot
<1>1. Init => MappingInv
  <2> SUFFICES ASSUME Init PROVE MappingInv
    OBVIOUS
  <2>1. DOMAIN task_hash_to_shm_idx = {} /\ tm_pc = "down"
    BY DEF Init, NoMapping
  <2> QED
    BY <2>1 DEF MappingInv
<1>2. TypeOK /\ MappingInv /\ [Next]_vars => (TypeOK /\ MappingInv)'
  BY TypeStep, MappingStep
<1>3. MappingInv => LookupFindsOwnSlot
  BY DEF MappingInv, LookupFindsOwnSlot, Matches, Compared
<1> QED
  BY <1>1, <1>2, <1>3, TypeInit, PTL DEF Spec

\* A process whose slot is handed out anew has missed no fire since then.
LEMMA ApartStep ==
  ASSUME Apart, [Next]_vars
  PROVE  Apart'
<1>1. ASSUME missed' \subseteq missed, reset' \subseteq reset
      PROVE  Apart'
  BY <1>1 DEF Apart
<1>2. ASSUME NEW t \in Tasks, WakeTask(t)
      PROVE  Apart'
  BY <1>2 DEF WakeTask, Apart
<1>3. CASE ResetCounter
  BY <1>3 DEF ResetCounter, Apart
<1>4. CASE WakeAllBump \/ WakeTaskWake \/ Crash
  BY <1>1, <1>4 DEF WakeAllBump, WakeTaskWake, Crash
<1>5. CASE \/ TimerMaster \/ TimerMasterNTasks \/ TimerMasterGeneration \/ WakeAllWake \/ KeepMapping
           \/ AllocateSlot \/ WriteName \/ PublishNTasks \/ PublishGeneration \/ PublishMagic
           \/ ShutdownWake \/ Shutdown \/ \E slots \in Tables : SetScheduleTable(slots)
  BY <1>1, <1>5 DEF TimerMaster, TimerMasterNTasks, TimerMasterGeneration, WakeAllWake, KeepMapping,
                    AllocateSlot, WriteName, PublishNTasks, PublishGeneration, PublishMagic,
                    ShutdownWake, Shutdown, SetScheduleTable, history
<1>6. ASSUME NEW t \in Apps, AppStep(t) \/ Interrupt(t)
      PROVE  Apart'
  <2>1. \/ UNCHANGED <<missed, reset>>
        \/ missed' = missed \ {t} /\ reset' = reset \ {t}
    BY <1>6, Zenon DEF AppStep, WaitNextPeriod, TtschedInit, InitGeneration, RecheckMagic, FindMagic,
                FindNTasks, FindName, CompareGeneration, LoadGeneration, ReadCounter, FutexWait,
                CheckShutdown, RunWorkload, Interrupt
  <2> QED
    BY <1>1, <2>1
<1>7. CASE UNCHANGED vars
  BY <1>1, <1>7 DEF vars, history
<1> QED
  BY <1>2, <1>3, <1>4, <1>5, <1>6, <1>7 DEF Next, UpdateStep

\* A process whose slot fired is not asleep when the wake is over.
LEMMA FireStep ==
  ASSUME TypeOK, Apart, FireInv, [Next]_vars
  PROVE  FireInv'
<1> DEFINE Differs(a) == shm[a.g_shm].counter[a.g_task_idx] # a.current
           Ok(a) == /\ a.pc \in {"wait", "asleep", "woken"}
                    /\ a.pc \in {"wait", "asleep"} => Differs(a)
                    /\ a.pc = "asleep" => /\ tm_pc = "fire" /\ a.g_shm = linked
                                          /\ a.g_task_idx = tm_idx
<1>0. /\ tm_pc # "down" => linked \in Objects
      /\ tm_pc \in {"bump", "wake", "name", "fire"} => tm_idx \in Slots
      /\ missed \subseteq Apps /\ reset \subseteq Apps
      /\ \A t \in missed : Ok(app[t]) /\ t \notin reset
      /\ \A t \in Apps : app[t].pc \in {"wait", "asleep"} =>
           app[t].g_shm \in Objects /\ app[t].g_task_idx \in Slots
  <2>1. /\ tm_pc # "down" => linked \in Objects
        /\ tm_pc \in {"bump", "wake", "name", "fire"} => tm_idx \in Slots
        /\ missed \subseteq Apps /\ reset \subseteq Apps
    BY Zenon DEF TypeOK
  <2>2. \A t \in missed : Ok(app[t])
    BY Zenon DEF FireInv
  <2>3. \A t \in missed : t \notin reset
    BY Zenon DEF Apart
  <2>4. \A t \in Apps : AppOK(app[t])
    BY Zenon DEF TypeOK
  <2>5. ASSUME NEW t \in Apps, app[t].pc \in {"wait", "asleep"}
        PROVE  app[t].g_shm \in Objects /\ app[t].g_task_idx \in Slots
    <3>1. app[t] \in AppType
      BY Zenon DEF TypeOK
    <3>2. app[t].g_shm \in Objects \cup {None} /\ app[t].g_task_idx \in Slots \cup {None}
      BY <3>1, Zenon DEF AppType
    <3>3. app[t].g_shm # None /\ app[t].g_task_idx # None
      BY <2>4, <2>5 DEF AppOK
    <3> QED
      BY <3>2, <3>3, Zenon
  <2> HIDE DEF Ok
  <2> QED
    BY <2>1, <2>2, <2>3, <2>5, Zenon
<1>a. ASSUME UNCHANGED <<app, missed, reset>>, tm_pc # "fire",
             \A o \in Objects : shm'[o].counter = shm[o].counter
      PROVE  FireInv'
  <2> SUFFICES ASSUME NEW t \in missed'
               PROVE  Ok(app[t])'
    BY DEF FireInv
  <2>1. t \in missed /\ app'[t] = app[t] /\ t \in Apps
    BY <1>0, <1>a
  <2>2. Ok(app[t]) /\ app[t].pc # "asleep"
    BY <1>0, <1>a, <2>1
  <2> QED
    BY <1>0, <1>a, <2>1, <2>2
<1>1. CASE TimerMaster
  <2>1. linked' \in Objects
    BY <1>1, Bounds DEF TimerMaster, TypeOK, Objects
  <2>2. \A o \in Objects : shm'[o].counter = shm[o].counter
    BY <1>1, <2>1, StoreField DEF TimerMaster
  <2> QED
    BY <1>1, <1>a, <2>2 DEF TimerMaster, history
<1>2. CASE TimerMasterNTasks \/ TimerMasterGeneration \/ PublishNTasks \/ PublishGeneration
           \/ PublishMagic \/ Shutdown \/ \E slots \in Tables : SetScheduleTable(slots)
  <2>1. UNCHANGED <<app, missed, reset>> /\ linked \in Objects /\ tm_pc # "fire"
    BY <1>0, <1>2 DEF TimerMasterNTasks, TimerMasterGeneration, PublishNTasks, PublishGeneration,
                      PublishMagic, Shutdown, SetScheduleTable, history
  <2>2. \E b : \/ shm' = [shm EXCEPT ![linked].magic = b]
               \/ shm' = [shm EXCEPT ![linked].n_tasks = b]
               \/ shm' = [shm EXCEPT ![linked].generation = b]
    BY <1>2, Zenon DEF TimerMasterNTasks, TimerMasterGeneration, PublishNTasks, PublishGeneration,
                PublishMagic, Shutdown, SetScheduleTable
  <2>3. \A o \in Objects : shm'[o].counter = shm[o].counter
    BY <2>1, <2>2, StoreField
  <2> QED
    BY <1>a, <2>1, <2>3
<1>3. CASE AllocateSlot
  <2>1. UNCHANGED <<app, missed, reset>> /\ linked \in Objects /\ tm_pc # "fire"
    BY <1>0, <1>3 DEF AllocateSlot
  <2>2. shm' = shm
    BY <1>3 DEF AllocateSlot, shmVars
  <2> QED
    BY <1>a, <2>1, <2>2
<1>3a. CASE WriteName
  <2>1. UNCHANGED <<app, missed, reset>> /\ linked \in Objects /\ tm_idx \in Slots /\ tm_pc # "fire"
    BY <1>0, <1>3a DEF WriteName, history
  <2>2. \E p \in Positions : \E b : shm' = [shm EXCEPT ![linked].name[tm_idx][p] = b]
    BY <1>3a, Zenon DEF WriteName
  <2>3. \A o \in Objects : shm'[o].counter = shm[o].counter
    BY <2>1, <2>2, StoreName
  <2> QED
    BY <1>a, <2>1, <2>3
<1>4. CASE KeepMapping
  BY <1>4, <1>a DEF KeepMapping, shmVars, history
<1>5. ASSUME NEW S \in SUBSET Apps, \A t \in S : app[t].pc = "asleep", app' = FutexWake(S),
             tm_pc # "fire", UNCHANGED <<shm, missed, reset>>
      PROVE  FireInv'
  <2> SUFFICES ASSUME NEW t \in missed'
               PROVE  Ok(app[t])'
    BY DEF FireInv
  <2>1. t \in missed /\ t \in Apps
    BY <1>0, <1>5
  <2>2. Ok(app[t]) /\ app[t].pc # "asleep"
    BY <1>0, <1>5, <2>1
  <2>3. app'[t] = app[t]
    BY <1>5, <2>1, <2>2 DEF FutexWake
  <2> QED
    BY <1>5, <2>2, <2>3
<1>6. CASE WakeAllWake
  <2>1. Waiters(tm_idx) \in SUBSET Apps /\ \A t \in Waiters(tm_idx) : app[t].pc = "asleep"
    BY DEF Waiters
  <2> QED
    BY <1>5, <1>6, <2>1 DEF WakeAllWake, shmVars, history
<1>7. CASE ShutdownWake
  <2>1. Waiters(tm_idx) \in SUBSET Apps /\ \A t \in Waiters(tm_idx) : app[t].pc = "asleep"
    BY DEF Waiters
  <2>2. CASE app' = FutexWake(Waiters(tm_idx))
    BY <1>5, <1>7, <2>1, <2>2 DEF ShutdownWake, history
  <2>3. CASE UNCHANGED app
    BY <1>a, <1>7, <2>3 DEF ShutdownWake, history
  <2> QED
    BY <1>7, <2>2, <2>3 DEF ShutdownWake
<1>8. CASE WakeTaskWake
  <2> SUFFICES ASSUME NEW t \in missed'
               PROVE  Ok(app[t])'
    BY DEF FireInv
  <2>1. t \in missed /\ t \in Apps /\ t \notin Waiters(tm_idx) /\ shm' = shm
    BY <1>0, <1>8 DEF WakeTaskWake, shmVars
  <2>2. Ok(app[t]) /\ app[t].pc # "asleep"
    BY <1>0, <2>1 DEF Waiters
  <2>3. app'[t] = app[t]
    BY <1>8, <2>1 DEF WakeTaskWake, FutexWake
  <2> QED
    BY <2>1, <2>2, <2>3
<1>9. CASE Crash
  <2>1. CASE tm_pc = "fire"
    BY <1>9, <2>1 DEF Crash, FireInv
  <2>2. CASE tm_pc # "fire"
    BY <1>9, <1>a, <2>2 DEF Crash, shmVars
  <2> QED
    BY <2>1, <2>2
<1>10. ASSUME NEW i \in Slots, linked \in Objects, NoWrap(i),
              shm' = [shm EXCEPT ![linked].counter[i] = Bump(i)],
              NEW t \in Apps \ reset, app[t].pc = "wait", Differs(app[t]), app'[t] = app[t]
       PROVE  Differs(app[t])'
  <2>1. app[t].g_shm \in Objects /\ app[t].g_task_idx \in Slots
    BY <1>0, <1>10
  <2>2. CASE app[t].g_shm = linked /\ app[t].g_task_idx = i
    <3>1. shm'[linked].counter[i] = Bump(i)
      <4>1. shm \in [Objects -> ShmType] /\ shm[linked] \in ShmType
        BY <1>10 DEF TypeOK
      <4>2. i \in Slots /\ linked \in Objects /\ shm' = [shm EXCEPT ![linked].counter[i] = Bump(i)]
        BY <1>10
      <4> QED
        BY <4>1, <4>2 DEF ShmType
    <3> QED
      BY <1>10, <2>2, <3>1 DEF NoWrap
  <2>3. CASE ~(app[t].g_shm = linked /\ app[t].g_task_idx = i)
    <3>1. shm'[app[t].g_shm].counter[app[t].g_task_idx] = shm[app[t].g_shm].counter[app[t].g_task_idx]
      BY <1>10, <2>1, <2>3, StoreCounter
    <3> QED
      BY <1>10, <3>1
  <2> QED
    BY <2>2, <2>3
<1>11. CASE WakeAllBump
  <2> SUFFICES ASSUME NEW t \in missed'
               PROVE  Ok(app[t])'
    BY DEF FireInv
  <2>1. /\ t \in missed /\ t \in Apps \ reset /\ app'[t] = app[t]
        /\ linked \in Objects /\ tm_idx \in Slots /\ tm_pc # "fire"
    BY <1>0, <1>11 DEF WakeAllBump
  <2>2. Ok(app[t]) /\ app[t].pc # "asleep"
    BY <1>0, <2>1
  <2>3. app[t].pc = "wait" => Differs(app[t])'
    BY <1>10, <1>11, <2>1, <2>2, Zenon DEF WakeAllBump
  <2> QED
    BY <2>1, <2>2, <2>3
<1>12. ASSUME NEW t \in Tasks, WakeTask(t)
       PROVE  FireInv'
  <2> DEFINE i == task_hash_to_shm_idx[t]
  <2>0. /\ linked \in Objects /\ i \in Slots /\ tm_pc = "idle"
        /\ NoWrap(i) /\ shm' = [shm EXCEPT ![linked].counter[i] = Bump(i)]
        /\ missed' = missed \cup {v \in Apps \cap {t} : OwnerWaits(v, i)}
        /\ tm_pc' = "fire" /\ tm_idx' = i
        /\ UNCHANGED <<app, linked>>
    BY <1>0, <1>12 DEF WakeTask, TypeOK
  <2> HIDE DEF i
  <2> SUFFICES ASSUME NEW u \in missed'
               PROVE  Ok(app[u])'
    BY DEF FireInv
  <2>1. CASE u \in missed
    <3>1. u \in Apps \ reset /\ Ok(app[u]) /\ app[u].pc # "asleep" /\ app'[u] = app[u]
      BY <1>0, <2>0, <2>1, SMTT(30)
    <3>2. app[u].pc = "wait" => Differs(app[u])'
      BY <1>10, <2>0, <3>1, Zenon
    <3> QED
      BY <3>1, <3>2
  <2>2. CASE u \in Apps /\ OwnerWaits(u, i)
    <3>1. shm[linked].counter[i] \in 0..(CounterMod - 1)
      BY <2>0 DEF TypeOK, ShmType
    <3>2. Bump(i) # shm[linked].counter[i]
      BY <3>1, BumpChanges DEF Bump
    <3>3. shm'[linked].counter[i] = Bump(i)
      <4>1. shm \in [Objects -> ShmType] /\ shm[linked] \in ShmType
        BY <2>0 DEF TypeOK
      <4>2. i \in Slots /\ linked \in Objects /\ shm' = [shm EXCEPT ![linked].counter[i] = Bump(i)]
        BY <2>0
      <4> QED
        BY <4>1, <4>2 DEF ShmType
    <3> QED
      BY <2>0, <2>2, <3>2, <3>3 DEF OwnerWaits
  <2> QED
    BY <2>0, <2>1, <2>2
<1>13. CASE ResetCounter
  <2> SUFFICES ASSUME NEW t \in missed'
               PROVE  Ok(app[t])'
    BY DEF FireInv
  <2>1. /\ t \in missed /\ t \in Apps /\ app'[t] = app[t]
        /\ linked \in Objects /\ tm_idx \in Slots /\ tm_pc # "fire"
        /\ ~(app[t].pc \in {"wait", "asleep"} /\ app[t].g_shm = linked /\ app[t].g_task_idx = tm_idx)
    BY <1>0, <1>13 DEF ResetCounter
  <2>2. Ok(app[t]) /\ app[t].pc # "asleep"
    BY <1>0, <2>1
  <2>3. app[t].pc = "wait" => Differs(app[t])'
    <3> SUFFICES ASSUME app[t].pc = "wait" PROVE Differs(app[t])'
      OBVIOUS
    <3>1. app[t].g_shm \in Objects /\ app[t].g_task_idx \in Slots
      BY <1>0, <2>1
    <3>2. shm'[app[t].g_shm].counter[app[t].g_task_idx] = shm[app[t].g_shm].counter[app[t].g_task_idx]
      BY <1>13, <2>1, <3>1, StoreCounter DEF ResetCounter
    <3> QED
      BY <2>1, <2>2, <3>2
  <2> QED
    BY <2>1, <2>2, <2>3
<1>14. ASSUME NEW t \in Apps, AppStep(t) \/ Interrupt(t)
       PROVE  FireInv'
  <2>0. UNCHANGED <<shm, linked, tm_pc, tm_idx>> /\ app' = [app EXCEPT ![t] = app'[t]]
    BY <1>14, ProcessStep DEF shmVars, tmVars
  <2>1. \/ UNCHANGED <<missed, reset>>
        \/ missed' = missed \ {t} /\ reset' = reset \ {t}
    BY <1>14, Zenon DEF AppStep, WaitNextPeriod, TtschedInit, InitGeneration, RecheckMagic, FindMagic,
                 FindNTasks, FindName, CompareGeneration, LoadGeneration, ReadCounter, FutexWait,
                 CheckShutdown, RunWorkload, Interrupt
  <2> SUFFICES ASSUME NEW u \in missed'
               PROVE  Ok(app[u])'
    BY DEF FireInv
  <2>2. CASE u # t
    <3>1. u \in missed /\ u \in Apps
      BY <1>0, <2>1, <2>2
    <3>2. app'[u] = app[u]
      BY <2>0, <2>2, <3>1 DEF TypeOK
    <3> QED
      BY <1>0, <2>0, <3>1, <3>2
  <2>3. CASE u = t
    <3>1. UNCHANGED <<missed, reset>> /\ t \in missed
      BY <2>1, <2>3, SMTT(30)
    <3>2. Ok(app[t]) /\ app \in [Apps -> AppType] /\ app[t] \in AppType
      BY <1>0, <3>1 DEF TypeOK
    <3>3. \/ FutexWait(t) \/ Interrupt(t)
          \/ missed' = missed \ {t}
      BY <1>14, <3>2, Zenon DEF AppStep, WaitNextPeriod, TtschedInit, InitGeneration, RecheckMagic,
                 FindMagic, FindNTasks, FindName, CompareGeneration, LoadGeneration, ReadCounter,
                 CheckShutdown, RunWorkload, Step
    <3>4. CASE FutexWait(t)
      <4>1. app'[t] = [app[t] EXCEPT !.pc = "woken"]
        BY <3>2, <3>4 DEF FutexWait, Step
      <4>2. app'[t].pc = "woken"
        BY <3>2, <4>1 DEF AppType
      <4> QED
        BY <2>3, <4>2
    <3>5. CASE Interrupt(t)
      <4>1. app'[t] = [app[t] EXCEPT !.pc = "wait"] /\ app[t].pc = "asleep"
        BY <3>2, <3>5 DEF Interrupt, Step
      <4>2. /\ app'[t].pc = "wait" /\ app'[t].g_shm = app[t].g_shm
            /\ app'[t].g_task_idx = app[t].g_task_idx /\ app'[t].current = app[t].current
        BY <3>2, <4>1 DEF AppType
      <4> QED
        BY <2>0, <2>3, <3>2, <4>1, <4>2
    <3> QED
      BY <3>1, <3>3, <3>4, <3>5
  <2> QED
    BY <2>2, <2>3
<1>15. CASE UNCHANGED vars
  BY <1>15 DEF vars, shmVars, tmVars, history, FireInv
<1> QED
  BY <1>1, <1>2, <1>3, <1>3a, <1>4, <1>6, <1>7, <1>8, <1>9, <1>11, <1>12, <1>13, <1>14, <1>15
     DEF Next, UpdateStep

\* A fire that falls between the load of the counter and FUTEX_WAIT is not lost.
THEOREM FireIsNotLost == Spec => []NoLostFire
<1>1. Init => Apart /\ FireInv
  BY DEF Init, Apart, FireInv
<1>2. TypeOK /\ Apart /\ FireInv /\ [Next]_vars => (TypeOK /\ Apart /\ FireInv)'
  BY TypeStep, ApartStep, FireStep
<1>3. FireInv => NoLostFire
  BY DEF FireInv, NoLostFire
<1> QED
  BY <1>1, <1>2, <1>3, TypeInit, PTL DEF Spec
=============================================================================
