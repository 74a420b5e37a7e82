------------------------- MODULE TimerMaster_proofs -------------------------
(* Proofs about TimerMaster, for every value of its constants. *)
EXTENDS TimerMaster, WellFoundedInduction, TLAPS

\* start(), stop() and the destructor hold lifecycle_mutex_ from their entry on.
Inside == {"start_join", "stop_join", "dtor_join", "partition"}

\* One caller at a time is inside; it makes threads only when the old ones are
\* gone; they are those of the current table whenever the stream thread is
\* between callbacks and the timers run; and the stream thread is there only
\* between the start of the timers and their destruction.
LifeInv ==
  /\ \A c \in Callers : pc[c] \in Inside => lifecycle_mutex = c
  /\ \A c \in Callers : pc[c] = "partition" => DOMAIN cpu_threads = {}
  /\ \A j, k \in DOMAIN cpu_threads : j[1] = k[1]
  /\ pc["stream"] = "idle" /\ running => \A k \in DOMAIN cpu_threads : k[1] = version
  /\ pc["main"] \in {"start", "start_join", "partition", "connect"} =>
       pc["stream"] = "closed" /\ version = 0 /\ \A k \in DOMAIN cpu_threads : k[1] = version
  /\ pc["main"] \in {"dtor", "dtor_join", "gone"} => pc["stream"] = "closed"
  /\ pc["main"] = "gone" => DOMAIN cpu_threads = {}

\* What a step of a timer thread, or of the clock, leaves alone.
LEMMA ThreadFrame ==
  ASSUME Tick \/ \E k \in DOMAIN cpu_threads : ThreadStep(k)
  PROVE  /\ UNCHANGED <<pc, running, table_pending, version, lifecycle_mutex>>
         /\ schedule_mutex' \in {schedule_mutex, "timer", Free}
         /\ DOMAIN cpu_threads' = DOMAIN cpu_threads
<1>1. CASE Tick
  BY <1>1 DEF Tick, lockVars
<1>2. ASSUME NEW k \in DOMAIN cpu_threads, ThreadStep(k)
      PROVE  /\ UNCHANGED <<pc, running, table_pending, version, lifecycle_mutex>>
             /\ schedule_mutex' \in {schedule_mutex, "timer", Free}
             /\ DOMAIN cpu_threads' = DOMAIN cpu_threads
  <2>1. ASSUME NEW from, NEW new, Become(k, from, new)
        PROVE  /\ UNCHANGED <<pc, running, table_pending, version, lifecycle_mutex>>
               /\ DOMAIN cpu_threads' = DOMAIN cpu_threads
    BY <2>1, SMTT(30) DEF Become, tableVars
  <2>2. (\E from, new : Become(k, from, new)) /\ schedule_mutex' \in {schedule_mutex, "timer", Free}
    BY <1>2 DEF ThreadStep, ThreadLoop, ThreadPoll, ThreadCheck, ThreadFire, ThreadWake, ThreadAdvance
  <2> QED
    BY <2>1, <2>2
<1> QED
  BY <1>1, <1>2

\* A caller that goes somewhere leaves the other one where it is.
LEMMA GotoMoves ==
  ASSUME TypeOK, NEW c \in Callers, NEW there, Goto(c, there)
  PROVE  /\ DOMAIN pc' = Callers /\ pc'[c] = there
         /\ \A d \in Callers : d # c => pc'[d] = pc[d]
BY DEF Goto, TypeOK

\* Every step keeps the types.
LEMMA TypeStep ==
  ASSUME TypeOK, LifeInv, [Next]_vars
  PROVE  TypeOK'
<1> USE DEF Callers
<1>1. ASSUME NEW c \in Callers, StopBegin(c)
      PROVE  TypeOK'
  <2>1. PICK there \in {"start_join", "stop_join", "dtor_join"} :
          /\ Goto(c, there)
          /\ c = "stream" => there = "start_join"
    BY <1>1 DEF StopBegin, TypeOK
  <2> QED
    BY <1>1, <2>1, GotoMoves, Zenon DEF StopBegin, TypeOK, tableVars
<1>2. ASSUME NEW c \in Callers, StopJoin(c)
      PROVE  TypeOK'
  <2>1. PICK there \in {"partition", "disconnect", "gone"} :
          /\ Goto(c, there)
          /\ c = "stream" => there = "partition"
    BY <1>2 DEF StopJoin, TypeOK
  <2> QED
    BY <1>2, <2>1, GotoMoves, Zenon DEF StopJoin, TypeOK, tableVars
<1>3. ASSUME NEW c \in Callers, StartPartition(c)
      PROVE  TypeOK'
  <2>1. PICK there \in {"connect", "idle"} :
          /\ Goto(c, there)
          /\ c = "stream" => there = "idle"
          /\ c = "main" => there = "connect"
    BY <1>3 DEF StartPartition
  <2> QED
    BY <1>3, <2>1, GotoMoves DEF StartPartition, TypeOK, tableVars
<1>4. CASE Connect \/ Disconnect
  BY <1>4 DEF Connect, Disconnect, TypeOK, tableVars, lockVars
<1>5. CASE ShutdownSignal
  BY <1>5, GotoMoves DEF ShutdownSignal, TypeOK, tableVars, lockVars
<1>6. ASSUME NEW t \in Tables, SetScheduleTable(t)
      PROVE  TypeOK'
  BY <1>6, GotoMoves DEF SetScheduleTable, TypeOK
<1>7. ASSUME NEW w, RemoveWorkload(w)
      PROVE  TypeOK'
  BY <1>7, GotoMoves DEF RemoveWorkload, TypeOK
<1>8. CASE Restart
  <2>1. PICK there \in {"start", "idle"} : Goto("stream", there)
    BY <1>8 DEF Restart
  <2> QED
    BY <1>8, <2>1, GotoMoves DEF Restart, TypeOK, tableVars
<1>9. CASE Tick \/ \E k \in DOMAIN cpu_threads : ThreadStep(k)
  BY <1>9, ThreadFrame DEF TypeOK
<1>10. CASE UNCHANGED vars
  BY <1>10 DEF vars, tableVars, lockVars, TypeOK
<1> QED
  BY <1>1, <1>2, <1>3, <1>4, <1>5, <1>6, <1>7, <1>8, <1>9, <1>10 DEF Next, CallerStep

\* Every step keeps the threads of one table together.
LEMMA LifeStep ==
  ASSUME TypeOK, LifeInv, [Next]_vars
  PROVE  LifeInv'
<1> USE DEF Callers
<1>1. ASSUME NEW c \in Callers, StopBegin(c)
      PROVE  LifeInv'
  <2>1. PICK there \in {"start_join", "stop_join", "dtor_join"} :
          /\ Goto(c, there)
          /\ there = "start_join" => pc[c] = "start"
          /\ there = "stop_join" => pc[c] = "stop"
          /\ there = "dtor_join" => pc[c] = "dtor"
    BY <1>1 DEF StopBegin
  <2>2. /\ pc'[c] = there /\ \A d \in Callers : d # c => pc'[d] = pc[d]
        /\ \A d \in Callers : d # c => pc[d] \notin Inside
        /\ lifecycle_mutex' = c /\ running' = FALSE
        /\ UNCHANGED <<version, cpu_threads>>
    BY <1>1, <2>1, GotoMoves DEF StopBegin, LifeInv, tableVars, Free
  <2> QED
    BY <2>1, <2>2 DEF LifeInv, TypeOK, Inside
<1>2. ASSUME NEW c \in Callers, StopJoin(c)
      PROVE  LifeInv'
  <2>1. /\ pc[c] \in {"start_join", "stop_join", "dtor_join"}
        /\ DOMAIN cpu_threads' = {}
        /\ version' = version
        /\ \A d \in Callers : d # c => pc'[d] = pc[d] /\ pc[d] \notin Inside
    <3>1. \E there : Goto(c, there)
      BY <1>2 DEF StopJoin
    <3>2. \A d \in Callers : d # c => pc'[d] = pc[d]
      BY <3>1, GotoMoves
    <3> QED
      BY <1>2, <3>2 DEF StopJoin, LifeInv, Inside, NoThreads, tableVars
  <2>2. CASE pc[c] = "start_join" /\ pc'[c] = "partition" /\ UNCHANGED lifecycle_mutex
    BY <2>1, <2>2 DEF LifeInv, TypeOK, Inside
  <2>3. CASE pc[c] = "stop_join" /\ pc'[c] = "disconnect"
    BY <2>1, <2>3 DEF LifeInv, TypeOK, Inside
  <2>4. CASE pc[c] = "dtor_join" /\ pc'[c] = "gone"
    BY <2>1, <2>4 DEF LifeInv, TypeOK, Inside
  <2> QED
    BY <1>2, <2>1, <2>2, <2>3, <2>4, GotoMoves DEF StopJoin
<1>3. ASSUME NEW c \in Callers, StartPartition(c)
      PROVE  LifeInv'
  <2>1. /\ pc[c] = "partition" /\ DOMAIN cpu_threads = {}
        /\ version' = version
        /\ pc'[c] = IF c = "main" THEN "connect" ELSE "idle"
        /\ \A d \in Callers : d # c => pc'[d] = pc[d] /\ pc[d] \notin Inside
    BY <1>3, GotoMoves DEF StartPartition, LifeInv, Inside, tableVars
  <2>2. \A k \in DOMAIN cpu_threads' : k[1] = version
    <3> DEFINE used == {slot_table[i].cpu : i \in 1..Len(slot_table)}
               spawned == IF used = {} THEN {NoCpu} ELSE used
               new == {<<version, cpu>> : cpu \in spawned}
    <3>1. DOMAIN cpu_threads' = DOMAIN cpu_threads \cup new
      BY <1>3, Zenon DEF StartPartition
    <3> HIDE DEF spawned
    <3> QED
      BY <2>1, <3>1
  <2> QED
    BY <2>1, <2>2 DEF LifeInv, TypeOK, Inside
<1>4. CASE Connect
  BY <1>4 DEF Connect, LifeInv, TypeOK, Inside, tableVars, lockVars
<1>5. CASE Disconnect
  BY <1>5 DEF Disconnect, LifeInv, TypeOK, Inside, tableVars, lockVars
<1>6. CASE ShutdownSignal
  <2>1. pc'["main"] = "stop" /\ pc'["stream"] = pc["stream"]
    BY <1>6, GotoMoves DEF ShutdownSignal
  <2> QED
    BY <1>6, <2>1 DEF ShutdownSignal, LifeInv, Inside, tableVars, lockVars
<1>7. ASSUME pc["stream"] = "idle", Goto("stream", "restart"),
             UNCHANGED <<running, lifecycle_mutex, cpu_threads>>
      PROVE  LifeInv'
  <2>1. pc'["stream"] = "restart" /\ pc'["main"] = pc["main"]
    BY <1>7, GotoMoves
  <2> QED
    BY <1>7, <2>1 DEF LifeInv, Inside
<1>8. ASSUME NEW t \in Tables, SetScheduleTable(t)
      PROVE  LifeInv'
  BY <1>7, <1>8 DEF SetScheduleTable
<1>9. ASSUME NEW w, RemoveWorkload(w)
      PROVE  LifeInv'
  BY <1>7, <1>9 DEF RemoveWorkload
<1>10. CASE Restart
  <2>1. /\ pc'["stream"] = IF running THEN "start" ELSE "idle"
        /\ pc'["main"] = pc["main"]
    BY <1>10, GotoMoves DEF Restart
  <2> QED
    BY <1>10, <2>1 DEF Restart, LifeInv, Inside, tableVars
<1>11. CASE Tick \/ \E k \in DOMAIN cpu_threads : ThreadStep(k)
  BY <1>11, ThreadFrame DEF LifeInv
<1>12. CASE UNCHANGED vars
  BY <1>12 DEF vars, tableVars, lockVars, LifeInv
<1> QED
  BY <1>1, <1>2, <1>3, <1>4, <1>5, <1>6, <1>8, <1>9, <1>10, <1>11, <1>12 DEF Next, CallerStep

\* The invariant holds throughout.
LEMMA Life == Spec => [](TypeOK /\ LifeInv)
<1>1. Init => TypeOK /\ LifeInv
  <2> SUFFICES ASSUME Init PROVE TypeOK /\ LifeInv
    OBVIOUS
  <2>1. DOMAIN pc = Callers /\ pc["main"] = "start" /\ pc["stream"] = "closed"
    BY DEF Init, Callers
  <2>2. DOMAIN cpu_threads = {}
    BY DEF Init, NoThreads
  <2>3. TypeOK
    BY <2>1 DEF Init, TypeOK, Callers, Free
  <2>4. LifeInv
    BY <2>1, <2>2 DEF Init, LifeInv, Callers, Inside
  <2> QED
    BY <2>3, <2>4
<1>2. TypeOK /\ LifeInv /\ [Next]_vars => (TypeOK /\ LifeInv)'
  BY TypeStep, LifeStep
<1> QED
  BY <1>1, <1>2, PTL DEF Spec

\* Threads of two tables never run side by side, and between callbacks the
\* threads that run are those of the table last set.
THEOREM OneTable == Spec => []OneTableAtATime
<1>1. LifeInv => OneTableAtATime
  BY DEF LifeInv, OneTableAtATime, Live
<1> QED
  BY <1>1, Life, PTL

\* No timer thread outlives the shared memory it writes to.
THEOREM NoneLeft == Spec => []JoinedAtExit
<1>1. LifeInv => JoinedAtExit
  BY DEF LifeInv, JoinedAtExit, Live
<1> QED
  BY <1>1, Life, PTL

-----------------------------------------------------------------------------
(* Induction and recursion on the naturals *)

\* A set of naturals that is not empty has a least element.
LEMMA LeastNat ==
  ASSUME NEW T, T \subseteq Nat, T # {}
  PROVE  \E n \in T : \A m \in T : n <= m
<1>1. PICK n \in T : \A m \in T : ~(<<m, n>> \in OpToRel(<, Nat))
  BY NatLessThanWellFounded, WFMin, Zenon
<1>2. ASSUME NEW m \in T PROVE n <= m
  <2>1. m \in Nat /\ n \in Nat
    OBVIOUS
  <2>2. m < n => <<m, n>> \in OpToRel(<, Nat)
    BY <2>1 DEF OpToRel
  <2>3. ~(m < n)
    BY <1>1, <2>2
  <2> QED
    BY <2>1, <2>3
<1> QED
  BY <1>2

\* Induction, with the property as a set.
LEMMA Induction ==
  ASSUME NEW T, 0 \in T, \A n \in Nat : n \in T => n + 1 \in T
  PROVE  \A n \in Nat : n \in T
<1> SUFFICES ASSUME Nat \ T # {} PROVE FALSE
  OBVIOUS
<1>1. PICK n \in Nat \ T : \A m \in Nat \ T : n <= m
  BY LeastNat, Zenon
<1>2. n # 0 /\ n - 1 \in Nat /\ n - 1 \notin Nat \ T
  BY <1>1
<1> QED
  BY <1>2

StepOf(A, N, F) == F \in [A \X (1..N) -> A]
Solves(g, A, N, b, F) ==
  g \in [0..N -> A] /\ g[0] = b /\ \A n \in 1..N : g[n] = F[<<g[n - 1], n>>]

\* A value for 0 and a step define a function on 0..N.
LEMMA Recursion ==
  ASSUME NEW A, NEW N \in Nat, NEW b \in A, NEW F, StepOf(A, N, F)
  PROVE  \E g : Solves(g, A, N, b, F)
<1> DEFINE Upto(m, g) == /\ g \in [0..m -> A] /\ g[0] = b
                         /\ \A n \in 1..m : g[n] = F[<<g[n - 1], n>>]
           T == {m \in Nat : m <= N => \E g : Upto(m, g)}
<1>1. 0 \in T
  <2>1. Upto(0, [n \in 0..0 |-> b])
    OBVIOUS
  <2> QED
    BY <2>1
<1>2. ASSUME NEW m \in Nat, m \in T PROVE m + 1 \in T
  <2> SUFFICES ASSUME m + 1 <= N PROVE \E g : Upto(m + 1, g)
    OBVIOUS
  <2>1. PICK g : Upto(m, g)
    BY <1>2
  <2> DEFINE h == [n \in 0..(m + 1) |-> IF n = m + 1 THEN F[<<g[m], m + 1>>] ELSE g[n]]
  <2>2. g[m] \in A /\ F[<<g[m], m + 1>>] \in A
    BY <2>1 DEF StepOf
  <2>3. h \in [0..(m + 1) -> A] /\ h[0] = b
    BY <2>1, <2>2
  <2>4. ASSUME NEW n \in 1..(m + 1) PROVE h[n] = F[<<h[n - 1], n>>]
    <3>1. CASE n = m + 1
      <4>1. h[m + 1] = F[<<g[m], m + 1>>] /\ h[m] = g[m] /\ n - 1 = m
        BY <3>1
      <4> QED
        BY <3>1, <4>1
    <3>2. CASE n \in 1..m
      BY <2>1, <3>2
    <3> QED
      BY <3>1, <3>2
  <2> HIDE DEF h
  <2>5. Upto(m + 1, h)
    BY <2>3, <2>4
  <2> QED
    BY <2>5
<1> HIDE DEF T
<1>3. N \in T
  BY <1>1, <1>2, Induction
<1> QED
  BY <1>3 DEF T, Solves

\* The equation that defines Kept has a solution.
LEMMA KeptDef ==
  ASSUME NEW S, NEW s \in Seq(S), NEW P
  PROVE  \E g :
           /\ g[0] = <<>>
           /\ \A n \in 1..Len(s) : g[n] = IF s[n] \in P THEN Append(g[n - 1], s[n]) ELSE g[n - 1]
           /\ Kept(s, P) = g[Len(s)]
<1> DEFINE A == Seq(S)
           N == Len(s)
           b == <<>>
           Step(a, n) == IF s[n] \in P THEN Append(a, s[n]) ELSE a
           F == [x \in A \X (1..N) |-> Step(x[1], x[2])]
           Eq(g) == g = [n \in 0..N |-> IF n = 0 THEN b ELSE Step(g[n - 1], n)]
<1>1. N \in Nat /\ b \in A /\ \A n \in 1..N : s[n] \in S
  OBVIOUS
<1>2. F \in [A \X (1..N) -> A]
  BY <1>1
<1>a. \A a \in A, n \in 1..N : F[<<a, n>>] = Step(a, n)
  <2> HIDE DEF Step, A, N
  <2> QED OBVIOUS
<1>b. \A f : Eq(f) =>
        /\ f[0] = b
        /\ \A n \in 1..N : f[n] = Step(f[n - 1], n)
  <2> HIDE DEF Step, A, b
  <2> QED BY <1>1
<1>c. \A f \in [0..N -> A] : f[0] = b /\ (\A n \in 1..N : f[n] = Step(f[n - 1], n)) => Eq(f)
  <2> HIDE DEF Step, A, b, N
  <2> QED BY <1>1
<1> HIDE DEF A, N, b, F
<1>3. PICK g : Solves(g, A, N, b, F)
  <2>1. N \in Nat /\ b \in A /\ StepOf(A, N, F)
    BY <1>1, <1>2 DEF StepOf
  <2> QED
    BY <2>1, Recursion, Zenon
<1> HIDE DEF Step
<1>4. ASSUME NEW n \in 1..N PROVE g[n] = Step(g[n - 1], n)
  <2>1. n - 1 \in 0..N /\ g[n - 1] \in A
    BY <1>1, <1>3 DEF Solves
  <2> QED
    BY <1>3, <2>1, <1>a DEF Solves
<1> HIDE DEF Eq
<1>5. Eq(g)
  BY <1>1, <1>3, <1>4, <1>c DEF Solves
<1> DEFINE u == CHOOSE f : Eq(f)
<1>6. Eq(u)
  <2>1. \E f : Eq(f)
    BY <1>5
  <2> QED
    BY <2>1, Zenon
<1>7. Kept(s, P) = u[N]
  BY DEF Kept, Eq, Step, N, b
<1>8. u[0] = b /\ \A n \in 1..N : u[n] = Step(u[n - 1], n)
  <2> HIDE DEF u
  <2> QED BY <1>b, <1>6
<1> HIDE DEF u
<1> QED
  BY <1>7, <1>8 DEF N, b, Step

\* Kept(s, P) takes elements of s that are in P, in the order they have in s.
LEMMA KeptSub ==
  ASSUME NEW S, NEW s \in Seq(S), NEW P
  PROVE  /\ Kept(s, P) \in Seq(S)
         /\ \A i \in 1..Len(Kept(s, P)) : Kept(s, P)[i] \in P
         /\ \E at \in [1..Len(Kept(s, P)) -> 1..Len(s)] :
              /\ \A i \in 1..Len(Kept(s, P)) : Kept(s, P)[i] = s[at[i]]
              /\ \A i, j \in 1..Len(Kept(s, P)) : i < j => at[i] < at[j]
<1>1. PICK g :
           /\ g[0] = <<>>
           /\ \A n \in 1..Len(s) : g[n] = IF s[n] \in P THEN Append(g[n - 1], s[n]) ELSE g[n - 1]
           /\ Kept(s, P) = g[Len(s)]
  BY KeptDef
<1> DEFINE N == Len(s)
           Sub(q, n, at) == /\ at \in [1..Len(q) -> 1..n]
                            /\ \A i \in 1..Len(q) : q[i] \in P /\ q[i] = s[at[i]]
                            /\ \A i, j \in 1..Len(q) : i < j => at[i] < at[j]
           T == {n \in Nat : n <= N => g[n] \in Seq(S) /\ \E at : Sub(g[n], n, at)}
<1>2. 0 \in T
  <2>1. Sub(<<>>, 0, [i \in 1..0 |-> 1])
    OBVIOUS
  <2>2. g[0] \in Seq(S) /\ Sub(g[0], 0, [i \in 1..0 |-> 1])
    BY <1>1, <2>1
  <2> HIDE DEF Sub
  <2> QED
    BY <2>2
<1>3. ASSUME NEW n \in Nat, n \in T PROVE n + 1 \in T
  <2> SUFFICES ASSUME n + 1 <= N
               PROVE  g[n + 1] \in Seq(S) /\ \E at : Sub(g[n + 1], n + 1, at)
    OBVIOUS
  <2>0. N \in Nat /\ n <= N /\ n + 1 \in 1..N /\ s[n + 1] \in S
    OBVIOUS
  <2> DEFINE q == g[n]
             x == s[n + 1]
  <2>1. q \in Seq(S)
    BY <1>3, <2>0
  <2>2. PICK at : Sub(q, n, at)
    BY <1>3, <2>0
  <2>3. g[n + 1] = IF x \in P THEN Append(q, x) ELSE q
    <3>1. (n + 1) - 1 = n
      OBVIOUS
    <3> QED
      BY <1>1, <2>0, <3>1
  <2> HIDE DEF q
  <2>4. CASE x \notin P
    <3>1. Sub(q, n + 1, at)
      BY <2>2, <2>1
    <3> QED
      BY <2>1, <2>3, <2>4, <3>1
  <2>5. CASE x \in P
    <3> DEFINE a == [i \in 1..(Len(q) + 1) |-> IF i = Len(q) + 1 THEN n + 1 ELSE at[i]]
               r == Append(q, x)
    <3>0. Len(q) \in Nat /\ r \in Seq(S) /\ Len(r) = Len(q) + 1
      BY <2>0, <2>1
    <3>1. a \in [1..Len(r) -> 1..(n + 1)]
      BY <2>2, <3>0
    <3>2. ASSUME NEW i \in 1..Len(r) PROVE r[i] \in P /\ r[i] = s[a[i]]
      <4>1. CASE i = Len(q) + 1
        <5>1. a[i] = n + 1 /\ r[i] = x
          BY <3>0, <2>0, <2>1, <4>1
        <5> QED BY <5>1, <2>5
      <4>2. CASE i \in 1..Len(q)
        <5>1. a[i] = at[i] /\ r[i] = q[i]
          BY <3>0, <2>0, <2>1, <4>2
        <5> QED BY <5>1, <4>2, <2>2
      <4> QED
        BY <3>0, <4>1, <4>2
    <3>3. ASSUME NEW i \in 1..Len(r), NEW j \in 1..Len(r), i < j PROVE a[i] < a[j]
      <4>1. i \in 1..Len(q) /\ a[i] = at[i] /\ at[i] \in 1..n
        BY <3>0, <3>3, <2>2
      <4>2. CASE j = Len(q) + 1
        BY <3>0, <4>1, <4>2
      <4>3. CASE j \in 1..Len(q)
        BY <3>0, <4>1, <4>3, <3>3, <2>2
      <4> QED
        BY <3>0, <4>2, <4>3
    <3> HIDE DEF a, r
    <3>4. Sub(r, n + 1, a)
      BY <3>1, <3>2, <3>3
    <3> QED
      BY <2>3, <2>5, <3>0, <3>4 DEF r
  <2> QED
    BY <2>4, <2>5
<1>4. N \in T
  <2> HIDE DEF T
  <2>1. N \in Nat
    OBVIOUS
  <2> QED
    BY <1>2, <1>3, <2>1, Induction
<1>5. g[N] \in Seq(S) /\ \E at : Sub(g[N], N, at)
  BY <1>4
<1> QED
  BY <1>1, <1>5

-----------------------------------------------------------------------------
(* The targets of the threads *)

Threads == [pc : {"loop", "poll", "check", "sleep", "wake", "waking", "done"},
            slots : Seq(Slots), hp : Nat, next : Nat, left : Int, late : Int]

Gap(th) == ComputeNextTtStart(th) - Offset(th, th.next)

\* Thread th, of table k[1], has the slots of its table in their order; while it
\* is in its inner loop it is at one of them; a thread of the current table has
\* its hyperperiod and is in phase with its epoch.
ThreadInv(k, th) ==
  /\ k[1] \in Nat /\ k[1] <= version
  /\ th \in Threads
  /\ Ordered(th.slots, th.hp)
  /\ Timed(th) => th.hp > 0 /\ th.next \in 1..Len(th.slots)
  /\ k[1] = version => th.hp = hyperperiod
  /\ k[1] = version /\ epoch # NoEpoch /\ Timed(th) =>
       (since + th.left - Offset(th, th.next)) % th.hp = 0

TableInv ==
  /\ slot_table \in Seq(Slots)
  /\ hyperperiod \in Nat
  /\ Ordered(slot_table, hyperperiod)
  /\ since \in Int

PhaseInv == TableInv /\ \A k \in DOMAIN cpu_threads : ThreadInv(k, cpu_threads[k])

\* A whole number of hyperperiods more or less is in phase again.
LEMMA PhaseShift ==
  ASSUME NEW h \in Nat, h > 0, NEW x \in Int, x % h = 0
  PROVE  (x + h) % h = 0 /\ (x - h) % h = 0
<1>1. \A y, q \in Int : y = q * h => y % h = 0
  OBVIOUS
<1>2. PICK q \in Int : x = q * h
  <2>1. x = (x \div h) * h /\ x \div h \in Int
    OBVIOUS
  <2> QED
    BY <2>1
<1>3. x + h = (q + 1) * h /\ x - h = (q - 1) * h /\ q + 1 \in Int /\ q - 1 \in Int
  BY <1>2
<1> QED
  BY <1>1, <1>3

\* CatchUp() of an epoch that has passed leads to a whole number of hyperperiods.
LEMMA NextCycle ==
  ASSUME NEW h \in Nat, h > 0, NEW x \in Int
  PROVE  x % h \in Int /\ (x + (h - (x % h))) % h = 0
<1>1. \A y, q \in Int : y = q * h => y % h = 0
  OBVIOUS
<1>2. x = (x \div h) * h + (x % h) /\ x \div h \in Int /\ x % h \in Int
  OBVIOUS
<1>3. PICK q \in Int, r \in Int : q = x \div h /\ r = x % h /\ x = q * h + r
  BY <1>2
<1>4. x + (h - r) = (q + 1) * h /\ q + 1 \in Int /\ x + (h - r) \in Int
  BY <1>3
<1> QED
  BY <1>1, <1>3, <1>4

\* The slot after slot n is n + 1, or the first one.
LEMMA NextIndex ==
  ASSUME NEW l \in Nat, NEW n \in 1..l
  PROVE  (n % l) + 1 = IF n = l THEN 1 ELSE n + 1
OBVIOUS

\* From a slot of an ordered table to the next one: the published start is
\* never before the slot, and it is where ThreadAdvance goes.
LEMMA GapIsTheWay ==
  ASSUME NEW th \in Threads, Ordered(th.slots, th.hp), th.hp > 0, th.next \in 1..Len(th.slots),
         ConstantsAssumption
  PROVE  LET wrap == th.next = Len(th.slots)
             next == IF wrap THEN 1 ELSE th.next + 1
         IN /\ next \in 1..Len(th.slots)
            /\ Offset(th, next) \in Int /\ Offset(th, th.next) \in Int
            /\ Gap(th) = Offset(th, next) - Offset(th, th.next) + (IF wrap THEN th.hp ELSE 0)
            /\ Gap(th) \in Int /\ Gap(th) >= 0
<1> DEFINE l == Len(th.slots)
           n == th.next
           next == IF n = l THEN 1 ELSE n + 1
<1>1. l \in Nat /\ n \in 1..l /\ next \in 1..l /\ th.hp \in Nat
  BY DEF Threads
<1>2. \A i \in 1..l : Offset(th, i) \in Nat /\ Offset(th, i) <= th.hp
  <2> SUFFICES ASSUME NEW i \in 1..l PROVE Offset(th, i) \in Nat /\ Offset(th, i) <= th.hp
    OBVIOUS
  <2>1. th.slots[i] \in Slots
    BY DEF Threads
  <2>2. th.slots[i].offset \in Nat
    BY <2>1 DEF ConstantsAssumption
  <2> QED
    BY <2>2 DEF Ordered, Offset
<1>3. n # l => Offset(th, n) <= Offset(th, n + 1)
  BY <1>1 DEF Ordered, Offset
<1>4. ComputeNextTtStart(th) = (IF next <= n THEN th.hp ELSE 0) + Offset(th, next)
  BY <1>1, NextIndex DEF ComputeNextTtStart
<1>5. next <= n <=> n = l
  BY <1>1
<1>6. Gap(th) = Offset(th, next) - Offset(th, n) + (IF n = l THEN th.hp ELSE 0)
  BY <1>1, <1>2, <1>4, <1>5 DEF Gap
<1>7. Gap(th) >= 0 /\ Gap(th) \in Int
  <2> HIDE DEF l
  <2>1. Offset(th, next) \in Nat /\ Offset(th, n) \in Nat /\ Offset(th, n) <= th.hp
    BY <1>1, <1>2
  <2>2. CASE n = l
    BY <2>1, <2>2, <1>6, <1>1
  <2>3. CASE n # l
    BY <2>1, <2>3, <1>6, <1>3
  <2> QED
    BY <2>2, <2>3
<1> QED
  BY <1>1, <1>2, <1>6, <1>7

\* A subsequence of an ordered table is an ordered table.
LEMMA KeptOrdered ==
  ASSUME NEW s \in Seq(Slots), NEW hp, Ordered(s, hp), NEW P, ConstantsAssumption
  PROVE  Kept(s, P) \in Seq(Slots) /\ Ordered(Kept(s, P), hp)
<1> DEFINE q == Kept(s, P)
<1>1. q \in Seq(Slots)
  BY KeptSub
<1>2. PICK at \in [1..Len(q) -> 1..Len(s)] :
        /\ \A i \in 1..Len(q) : q[i] = s[at[i]]
        /\ \A i, j \in 1..Len(q) : i < j => at[i] < at[j]
  BY KeptSub
<1> HIDE DEF q
<1>3. ASSUME NEW i \in 1..Len(q), NEW j \in 1..Len(q)
      PROVE  /\ i < j => q[i].offset <= q[j].offset
             /\ hp > 0 => q[i].offset <= hp
  <2>1. at[i] \in 1..Len(s) /\ at[j] \in 1..Len(s)
    BY <1>2
  <2>2. i < j => at[i] < at[j]
    BY <1>2
  <2> QED
    BY <1>2, <2>1, <2>2 DEF Ordered
<1>4. Ordered(q, hp)
  BY <1>3 DEF Ordered
<1> QED
  BY <1>1, <1>4 DEF q

\* A thread that becomes something in phase keeps the invariant.
LEMMA BecomeKeeps ==
  ASSUME PhaseInv, NEW k \in DOMAIN cpu_threads, NEW from, NEW new, Become(k, from, new),
         ThreadInv(k, new)
  PROVE  PhaseInv'
<1>1. UNCHANGED tableVars /\ cpu_threads' = [cpu_threads EXCEPT ![k] = new]
  BY DEF Become
<1>2. TableInv'
  BY <1>1 DEF PhaseInv, TableInv, tableVars
<1>3. ASSUME NEW j \in DOMAIN cpu_threads'
      PROVE  ThreadInv(j, cpu_threads[j])' 
  <2>1. j \in DOMAIN cpu_threads /\ cpu_threads'[j] = IF j = k THEN new ELSE cpu_threads[j]
    BY <1>1, <1>3
  <2>2. ThreadInv(j, cpu_threads'[j])
    BY <2>1 DEF PhaseInv
  <2> QED
    BY <1>1, <2>2 DEF ThreadInv, tableVars
<1> QED
  BY <1>2, <1>3 DEF PhaseInv

\* Every step of a timer thread keeps the targets in phase.
LEMMA ThreadKeepsPhase ==
  ASSUME PhaseInv, NEW k \in DOMAIN cpu_threads, ThreadStep(k), ConstantsAssumption
  PROVE  PhaseInv'
<1> DEFINE th == cpu_threads[k]
<1>1. ThreadInv(k, th) /\ th \in Threads /\ since \in Int
  BY DEF PhaseInv, TableInv, ThreadInv
<1>2. ASSUME NEW i \in 1..Len(th.slots)
      PROVE  Offset(th, i) \in Nat
  <2>1. th.slots[i] \in Slots
    BY <1>1 DEF Threads
  <2> QED
    BY <2>1 DEF ConstantsAssumption, Offset
<1>3. CASE ThreadLoop(k)
  <2>1. CASE ~Continue
    <3> DEFINE new == [th EXCEPT !.pc = "done"]
    <3>1. ThreadInv(k, new)
      BY <1>1 DEF ThreadInv, Threads, Timed
    <3> QED
      BY <1>3, <2>1, <3>1, BecomeKeeps DEF ThreadLoop
  <2>2. CASE Continue /\ (th.slots = <<>> \/ th.hp = 0)
    <3> DEFINE new == [th EXCEPT !.pc = "poll"]
    <3>1. ThreadInv(k, new)
      BY <1>1 DEF ThreadInv, Threads, Timed
    <3> QED
      BY <1>3, <2>2, <3>1, BecomeKeeps DEF ThreadLoop
  <2>3. CASE Continue /\ th.slots # <<>> /\ th.hp # 0
    <3>1. th.hp \in Nat /\ th.hp > 0 /\ 1 \in 1..Len(th.slots)
      BY <1>1, <2>3 DEF Threads
    <3>2. /\ CatchUp(th.hp) \in Int
          /\ epoch # NoEpoch => (since + CatchUp(th.hp)) % th.hp = 0
      <4>1. 0 % th.hp = 0
        BY <3>1
      <4>2. CASE since <= 0
        <5>1. since + (0 - since) = 0
          BY <1>1
        <5> QED
          BY <4>1, <4>2, <5>1, <1>1 DEF CatchUp
      <4>3. CASE ~(since <= 0)
        <5>1. since % th.hp \in Int /\ (since + (th.hp - (since % th.hp))) % th.hp = 0
          BY <1>1, <3>1, NextCycle
        <5>2. CatchUp(th.hp) = IF epoch = NoEpoch THEN 0 ELSE th.hp - (since % th.hp)
          BY <4>3 DEF CatchUp
        <5> QED
          BY <3>1, <5>1, <5>2
      <4> QED
        BY <4>2, <4>3
    <3>3. Offset(th, 1) \in Nat
      BY <1>2, <3>1
    <3> DEFINE zero == Unpublished
               first == 1
               left == CatchUp(th.hp) + Offset(th, 1)
    <3>4. /\ left \in Int /\ zero \in Int /\ first \in Nat
          /\ since + left - Offset(th, 1) = since + CatchUp(th.hp)
      BY <1>1, <3>2, <3>3 DEF Unpublished
    <3> HIDE DEF left, zero, first
    <3> DEFINE new == [th EXCEPT !.pc = "check", !.next = first, !.late = zero,
                                 !.left = left]
    <3>5. /\ new \in Threads /\ new.slots = th.slots /\ new.hp = th.hp /\ new.pc = "check"
          /\ new.next = first /\ new.left = left
      BY <1>1, <3>4, Zenon DEF Threads
    <3> HIDE DEF new
    <3>6. Offset(new, new.next) = Offset(th, 1)
      BY <3>5 DEF Offset, first
    <3>7. ThreadInv(k, new)
      BY <1>1, <3>1, <3>2, <3>4, <3>5, <3>6 DEF ThreadInv, Timed, first
    <3> QED
      BY <1>3, <2>3, <3>7, BecomeKeeps DEF ThreadLoop, new, left, zero, first
  <2> QED
    BY <2>1, <2>2, <2>3
<1>4. CASE ThreadPoll(k)
  <2> DEFINE new == [th EXCEPT !.pc = "done"]
  <2>1. ThreadInv(k, new)
    BY <1>1 DEF ThreadInv, Threads, Timed
  <2> QED
    BY <1>4, <2>1, BecomeKeeps DEF ThreadPoll
<1>5. CASE ThreadCheck(k)
  <2>1. CASE Continue
    <3> DEFINE new == [th EXCEPT !.pc = "sleep"]
    <3>1. ThreadInv(k, new)
      <4>1. Timed(th)
        BY <1>5 DEF ThreadCheck, Become, Timed
      <4> QED
        BY <1>1, <4>1 DEF ThreadInv, Threads, Timed, Offset
    <3> QED
      BY <1>5, <2>1, <3>1, BecomeKeeps DEF ThreadCheck
  <2>2. CASE ~Continue
    <3> DEFINE zero == 0
               none == Unpublished
               new == [th EXCEPT !.pc = "loop", !.left = zero, !.late = none]
    <3>1. new \in Threads /\ new.slots = th.slots /\ new.hp = th.hp /\ new.pc = "loop"
      <4>1. zero \in Int /\ none \in Int
        BY DEF Unpublished
      <4> HIDE DEF zero, none
      <4> QED
        BY <1>1, <4>1, Zenon DEF Threads
    <3>2. ThreadInv(k, new)
      <4> HIDE DEF new
      <4> QED
        BY <1>1, <3>1 DEF ThreadInv, Timed
    <3> QED
      BY <1>5, <2>2, <3>2, BecomeKeeps DEF ThreadCheck
  <2> QED
    BY <2>1, <2>2
<1>6. CASE ThreadFire(k)
  <2> DEFINE l == IF ComputeNextTtStart(th) - Offset(th, th.next) > 0 THEN 0 - th.left ELSE th.late
             new == [th EXCEPT !.pc = "wake", !.late = l]
  <2>1. Timed(th)
    BY <1>6 DEF ThreadFire, Become, Timed
  <2>2. l \in Int
    BY <1>1 DEF Threads
  <2> HIDE DEF l
  <2>3. /\ new \in Threads /\ new.slots = th.slots /\ new.hp = th.hp /\ new.pc = "wake"
        /\ new.next = th.next /\ new.left = th.left
    BY <1>1, <2>2, Zenon DEF Threads
  <2>4. Become(k, "sleep", new)
    BY <1>6, <1>1 DEF ThreadFire, l, Threads
  <2> HIDE DEF new
  <2>5. Offset(new, new.next) = Offset(th, th.next)
    BY <2>3 DEF Offset
  <2>6. ThreadInv(k, new)
    BY <1>1, <2>1, <2>3, <2>5 DEF ThreadInv, Timed
  <2> QED
    BY <2>4, <2>6, BecomeKeeps
<1>7. CASE ThreadWake(k)
  <2> DEFINE new == [th EXCEPT !.pc = "waking"]
  <2>1. th.pc = "wake"
    BY <1>7 DEF ThreadWake, Become
  <2>2. /\ new \in Threads /\ new.slots = th.slots /\ new.hp = th.hp /\ new.pc = "waking"
        /\ new.next = th.next /\ new.left = th.left
    BY <1>1 DEF Threads
  <2> HIDE DEF new
  <2>3. Offset(new, new.next) = Offset(th, th.next)
    BY <2>2 DEF Offset
  <2>4. ThreadInv(k, new)
    BY <1>1, <2>1, <2>2, <2>3 DEF ThreadInv, Timed
  <2> QED
    BY <1>7, <2>4, BecomeKeeps DEF ThreadWake, new
<1>8. CASE ThreadAdvance(k)
  <2> DEFINE wrap == th.next = Len(th.slots)
             next == IF wrap THEN 1 ELSE th.next + 1
             left == th.left + Offset(th, next) - Offset(th, th.next)
                       + (IF wrap THEN th.hp ELSE 0)
             new == [th EXCEPT !.pc = "check", !.next = next, !.left = left]
  <2>1. Timed(th)
    BY <1>8 DEF ThreadAdvance, Become, Timed
  <2>2. th.hp \in Nat /\ th.hp > 0 /\ th.left \in Int /\ th.next \in 1..Len(th.slots)
    BY <1>1, <2>1 DEF ThreadInv, Threads
  <2>3. next \in 1..Len(th.slots) /\ Offset(th, next) \in Int /\ Offset(th, th.next) \in Int
    BY <1>1, <1>2, <2>2 DEF Threads
  <2>4. left \in Int /\ next \in Nat
    BY <2>2, <2>3
  <2>5. since + left - Offset(th, next)
          = (since + th.left - Offset(th, th.next)) + (IF wrap THEN th.hp ELSE 0)
    BY <1>1, <2>2, <2>3
  <2>6. k[1] = version /\ epoch # NoEpoch => (since + left - Offset(th, next)) % th.hp = 0
    <3> HIDE DEF left, next
    <3> SUFFICES ASSUME k[1] = version, epoch # NoEpoch
                 PROVE  (since + left - Offset(th, next)) % th.hp = 0
      OBVIOUS
    <3>1. (since + th.left - Offset(th, th.next)) % th.hp = 0
      BY <1>1, <2>1 DEF ThreadInv
    <3>2. since + th.left - Offset(th, th.next) \in Int
      BY <1>1, <2>2, <2>3
    <3>3. (since + th.left - Offset(th, th.next) + th.hp) % th.hp = 0
      BY <2>2, <3>1, <3>2, PhaseShift
    <3> QED
      BY <2>5, <3>1, <3>2, <3>3
  <2> HIDE DEF left, next
  <2>7. /\ new \in Threads /\ new.slots = th.slots /\ new.hp = th.hp /\ new.pc = "check"
        /\ new.next = next /\ new.left = left
    BY <1>1, <2>4, Zenon DEF Threads
  <2> HIDE DEF new
  <2>8. Offset(new, new.next) = Offset(th, next)
    BY <2>7 DEF Offset
  <2>9. ThreadInv(k, new)
    BY <1>1, <2>2, <2>3, <2>6, <2>7, <2>8 DEF ThreadInv, Timed
  <2> QED
    BY <1>8, <2>9, BecomeKeeps DEF ThreadAdvance, new, left, next
<1> QED
  BY <1>3, <1>4, <1>5, <1>6, <1>7, <1>8 DEF ThreadStep

\* A tick of the clock takes a thread nearer to its target and the current time
\* further from the epoch.
LEMMA TickKeepsPhase ==
  ASSUME PhaseInv, Tick, ConstantsAssumption
  PROVE  PhaseInv'
<1>1. /\ UNCHANGED <<slot_table, hyperperiod, epoch, version>>
      /\ DOMAIN cpu_threads' = DOMAIN cpu_threads
  BY DEF Tick
<1>2. since' = IF hyperperiod = 0 \/ epoch = NoEpoch THEN since
               ELSE IF since = hyperperiod THEN 1 ELSE since + 1
  BY DEF Tick
<1>3. TableInv'
  BY <1>1, <1>2 DEF PhaseInv, TableInv
<1>4. ASSUME NEW k \in DOMAIN cpu_threads
      PROVE  ThreadInv(k, cpu_threads[k])'
  <2> DEFINE th == cpu_threads[k]
             new == cpu_threads'[k]
  <2>1. ThreadInv(k, th) /\ th \in Threads /\ since \in Int /\ hyperperiod \in Nat
    BY DEF PhaseInv, TableInv, ThreadInv
  <2>2. new = IF Timed(th) THEN [th EXCEPT !.left = @ - 1] ELSE th
    BY DEF Tick
  <2>3. CASE ~Timed(th)
    BY <1>1, <2>1, <2>2, <2>3 DEF ThreadInv
  <2>4. CASE Timed(th)
    <3>1. /\ new \in Threads /\ new.slots = th.slots /\ new.hp = th.hp /\ new.pc = th.pc
          /\ new.next = th.next /\ new.left = th.left - 1
      <4>1. th.left - 1 \in Int
        BY <2>1 DEF Threads
      <4> QED
        BY <2>1, <2>2, <2>4, <4>1 DEF Threads
    <3>2. th.hp > 0 /\ th.hp \in Nat /\ th.next \in 1..Len(th.slots) /\ th.left \in Int
      BY <2>1, <2>4 DEF ThreadInv, Threads
    <3>3. Offset(th, th.next) \in Nat
      <4>1. th.slots[th.next] \in Slots
        BY <2>1, <3>2 DEF Threads
      <4> QED
        BY <4>1 DEF ConstantsAssumption, Offset
    <3> HIDE DEF new
    <3>4. Offset(new, new.next) = Offset(th, th.next) /\ Timed(new)
      BY <2>4, <3>1 DEF Offset, Timed
    <3> DEFINE x == since + th.left - Offset(th, th.next)
               y == since' + new.left - Offset(th, th.next)
    <3>5. ASSUME k[1] = version, epoch # NoEpoch
          PROVE  y % th.hp = 0
      <4>1. th.hp = hyperperiod /\ x % th.hp = 0 /\ x \in Int
        BY <2>1, <2>4, <3>2, <3>3, <3>5 DEF ThreadInv
      <4>2. CASE since = hyperperiod
        <5>1. y = x - th.hp
          BY <1>2, <2>1, <3>1, <3>2, <3>3, <3>5, <4>1, <4>2
        <5> HIDE DEF x, y
        <5> QED
          BY <3>2, <4>1, <5>1, PhaseShift
      <4>3. CASE since # hyperperiod
        <5>1. y = x
          BY <1>2, <2>1, <3>1, <3>2, <3>3, <3>5, <4>1, <4>3
        <5> HIDE DEF x, y
        <5> QED
          BY <4>1, <5>1
      <4> QED
        BY <4>2, <4>3
    <3>6. /\ k[1] \in Nat /\ k[1] <= version'
          /\ Ordered(new.slots, new.hp)
          /\ k[1] = version' => new.hp = hyperperiod'
      BY <1>1, <2>1, <3>1, <3>4 DEF ThreadInv
    <3>7. new.hp > 0 /\ new.next \in 1..Len(new.slots)
      BY <3>1, <3>2
    <3>8. k[1] = version' /\ epoch' # NoEpoch =>
            (since' + new.left - Offset(new, new.next)) % new.hp = 0
      BY <1>1, <3>1, <3>4, <3>5
    <3> QED
      BY <3>1, <3>6, <3>7, <3>8 DEF ThreadInv, new
  <2> QED
    BY <2>3, <2>4
<1> QED
  BY <1>1, <1>3, <1>4 DEF PhaseInv

\* A new table leaves no thread that counts as one of its own.
LEMMA NewTable ==
  ASSUME TypeOK, PhaseInv, version' = version + 1, UNCHANGED cpu_threads, TableInv'
  PROVE  PhaseInv'
<1>1. ASSUME NEW k \in DOMAIN cpu_threads
      PROVE  ThreadInv(k, cpu_threads[k])'
  <2>1. ThreadInv(k, cpu_threads[k])
    BY DEF PhaseInv
  <2>2. k[1] \in Nat /\ k[1] <= version' /\ k[1] # version'
    BY <2>1 DEF ThreadInv, TypeOK
  <2> QED
    BY <2>1, <2>2 DEF ThreadInv
<1> QED
  BY <1>1 DEF PhaseInv

\* Every step keeps the targets in phase.
LEMMA PhaseStep ==
  ASSUME TypeOK, PhaseInv, [Next]_vars
  PROVE  PhaseInv'
<1> USE ConstantsAssumption
<1>1. ASSUME UNCHANGED <<tableVars, cpu_threads>>
      PROVE  PhaseInv'
  BY <1>1 DEF tableVars, PhaseInv, TableInv, ThreadInv
<1>2. ASSUME NEW c \in Callers, StopBegin(c)
      PROVE  PhaseInv'
  BY <1>1, <1>2 DEF StopBegin
<1>3. ASSUME NEW c \in Callers, StopJoin(c)
      PROVE  PhaseInv'
  <2>1. UNCHANGED tableVars /\ DOMAIN cpu_threads' = {}
    BY <1>3 DEF StopJoin, NoThreads
  <2> QED
    BY <2>1 DEF tableVars, PhaseInv, TableInv
<1>4. ASSUME NEW c \in Callers, StartPartition(c)
      PROVE  PhaseInv'
  <2> DEFINE used == {slot_table[i].cpu : i \in 1..Len(slot_table)}
             spawned == IF used = {} THEN {NoCpu} ELSE used
             new == {<<version, cpu>> : cpu \in spawned}
  <2>1. /\ UNCHANGED tableVars
        /\ cpu_threads' = [k \in DOMAIN cpu_threads \cup new |->
                             IF k \in new THEN Thread(SlotsOf(k[2])) ELSE cpu_threads[k]]
    BY <1>4 DEF StartPartition
  <2>2. \A k \in new : k[1] = version
    OBVIOUS
  <2> HIDE DEF new
  <2>3. ASSUME NEW k \in DOMAIN cpu_threads'
        PROVE  ThreadInv(k, cpu_threads'[k])
    <3>1. CASE k \in new
      <4>1. cpu_threads'[k] = Thread(SlotsOf(k[2]))
        BY <2>1, <3>1
      <4>2. SlotsOf(k[2]) \in Seq(Slots) /\ Ordered(SlotsOf(k[2]), hyperperiod)
        BY KeptOrdered DEF SlotsOf, PhaseInv, TableInv
      <4> DEFINE th == Thread(SlotsOf(k[2]))
      <4>3. /\ th \in Threads /\ th.pc = "loop" /\ th.hp = hyperperiod
            /\ th.slots = SlotsOf(k[2])
        <5> DEFINE q == SlotsOf(k[2])
                   zero == 0
                   none == Unpublished
                   first == 1
        <5>1. zero \in Int /\ none \in Int /\ first \in Nat /\ q \in Seq(Slots) /\ hyperperiod \in Nat
          BY <4>2 DEF PhaseInv, TableInv, Unpublished
        <5>2. th = [pc |-> "loop", slots |-> q, hp |-> hyperperiod, next |-> first,
                    left |-> zero, late |-> none]
          BY DEF Thread
        <5> HIDE DEF q, zero, none, first, th
        <5> QED
          BY <5>1, <5>2 DEF Threads, q
      <4> HIDE DEF th
      <4> QED
        BY <2>2, <3>1, <4>1, <4>2, <4>3 DEF ThreadInv, Timed, TypeOK, th
    <3>2. CASE k \notin new
      BY <2>1, <3>2 DEF PhaseInv
    <3> QED
      BY <3>1, <3>2
  <2> QED
    BY <2>1, <2>3, Zenon DEF tableVars, PhaseInv, TableInv, ThreadInv
<1>5. CASE Connect \/ ShutdownSignal \/ Disconnect \/ Restart
  BY <1>1, <1>5 DEF Connect, ShutdownSignal, Disconnect, Restart
<1>6. ASSUME NEW t \in Tables, SetScheduleTable(t)
      PROVE  PhaseInv'
  <2>1. t.hp \in Nat /\ t.epoch \in Int \cup {NoEpoch}
        /\ t.slots \in Seq(Slots) /\ Ordered(t.slots, t.hp)
    BY DEF ConstantsAssumption
  <2>2. TableInv'
    BY <1>6, <2>1 DEF SetScheduleTable, TableInv
  <2> QED
    BY <1>6, <2>2, NewTable DEF SetScheduleTable
<1>7. ASSUME NEW w, RemoveWorkload(w)
      PROVE  PhaseInv'
  <2>1. TableInv'
    BY <1>7, KeptOrdered DEF RemoveWorkload, PhaseInv, TableInv
  <2> QED
    BY <1>7, <2>1, NewTable DEF RemoveWorkload
<1>8. ASSUME NEW k \in DOMAIN cpu_threads, ThreadStep(k)
      PROVE  PhaseInv'
  BY <1>8, ThreadKeepsPhase
<1>9. CASE Tick
  BY <1>9, TickKeepsPhase
<1>10. CASE UNCHANGED vars
  BY <1>1, <1>10 DEF vars
<1> QED
  BY <1>2, <1>3, <1>4, <1>5, <1>6, <1>7, <1>8, <1>9, <1>10 DEF Next, CallerStep

\* The invariant of the targets holds throughout.
LEMMA Phases == Spec => [](TypeOK /\ PhaseInv)
<1>1. Init => PhaseInv
  <2> SUFFICES ASSUME Init PROVE PhaseInv
    OBVIOUS
  <2>1. DOMAIN cpu_threads = {}
    BY DEF Init, NoThreads
  <2>2. TableInv
    BY DEF Init, TableInv, Ordered
  <2> QED
    BY <2>1, <2>2 DEF PhaseInv
<1>2. TypeOK /\ PhaseInv /\ [Next]_vars => PhaseInv'
  BY PhaseStep
<1> QED
  BY <1>1, <1>2, Life, PTL DEF Spec

\* Whatever the table, and however late its threads are, each target of a thread
\* is a whole number of hyperperiods and the offset of its slot after the epoch:
\* lateness and restarts do not make the targets drift.
THEOREM TargetsInPhase == Spec => []InPhase
<1>1. PhaseInv => InPhase
  BY DEF PhaseInv, ThreadInv, InPhase, Live
<1> QED
  BY <1>1, Phases, PTL

-----------------------------------------------------------------------------
(* The published starts *)

\* A thread is no later than it may be, and n, the start that is published for
\* its CPU, is its target, or its next one once it has published, with the
\* lateness it had then.
StartOK(th, n) ==
  Timed(th) =>
    /\ th.left >= 0 - MaxLate
    /\ th.late # Unpublished =>
         /\ th.late \in 0..MaxLate
         /\ n = th.left + th.late + (IF th.pc \in {"wake", "waking"} THEN Gap(th) ELSE 0)

StartInv ==
  /\ next_tt_start \in [Cpus -> Int \cup {NoStart}]
  /\ \A k \in DOMAIN cpu_threads :
       /\ k = <<k[1], k[2]>>
       /\ cpu_threads[k].slots # <<>> => k[2] \in Cpus
       /\ StartOK(cpu_threads[k], next_tt_start[k[2]])

\* A thread writes the start of its own CPU only, and no other thread that runs
\* has this CPU, since all are of one table.
LEMMA StartBecome ==
  ASSUME LifeInv, PhaseInv, StartInv, NEW k \in DOMAIN cpu_threads, NEW from, NEW new,
         Become(k, from, new), new.slots = cpu_threads[k].slots,
         next_tt_start' \in [Cpus -> Int \cup {NoStart}],
         \A c \in Cpus : c # k[2] => next_tt_start'[c] = next_tt_start[c],
         StartOK(new, next_tt_start'[k[2]])
  PROVE  StartInv'
<1>1. cpu_threads' = [cpu_threads EXCEPT ![k] = new]
  BY DEF Become
<1>2. ASSUME NEW j \in DOMAIN cpu_threads'
      PROVE  /\ j = <<j[1], j[2]>>
             /\ cpu_threads'[j].slots # <<>> => j[2] \in Cpus
             /\ StartOK(cpu_threads'[j], next_tt_start'[j[2]])
  <2>1. j \in DOMAIN cpu_threads /\ cpu_threads'[j] = IF j = k THEN new ELSE cpu_threads[j]
    BY <1>1, <1>2
  <2>2. CASE j = k
    BY <2>1, <2>2 DEF StartInv
  <2>3. CASE j # k
    <3> DEFINE th == cpu_threads[j]
    <3>1. StartOK(th, next_tt_start[j[2]]) /\ cpu_threads'[j] = th
          /\ j = <<j[1], j[2]>> /\ k = <<k[1], k[2]>> /\ j[1] = k[1]
          /\ (th.slots # <<>> => j[2] \in Cpus)
      BY <2>1, <2>3 DEF StartInv, LifeInv
    <3>2. j[2] # k[2]
      BY <2>3, <3>1
    <3>3. Timed(th) => th.slots # <<>>
      <4>1. ThreadInv(j, th)
        BY <2>1 DEF PhaseInv
      <4>2. Timed(th) => th.next \in 1..Len(th.slots)
        BY <4>1 DEF ThreadInv
      <4> QED
        BY <4>2
    <3>4. Timed(th) => next_tt_start'[j[2]] = next_tt_start[j[2]]
      BY <3>1, <3>2, <3>3
    <3> HIDE DEF th
    <3>5. StartOK(th, next_tt_start'[j[2]])
      BY <3>1, <3>4 DEF StartOK
    <3> QED
      BY <3>1, <3>5 DEF th
  <2> QED
    BY <2>2, <2>3
<1> QED
  BY <1>2 DEF StartInv

\* The first target of a thread is not in the past.
LEMMA CatchUpAhead ==
  ASSUME NEW h \in Nat, h > 0, since \in Int
  PROVE  CatchUp(h) \in Nat
<1>1. since % h \in 0..(h - 1)
  OBVIOUS
<1> QED
  BY <1>1 DEF CatchUp

\* Every step of a timer thread keeps the published starts.
LEMMA ThreadKeepsStart ==
  ASSUME LifeInv, PhaseInv, StartInv, NEW k \in DOMAIN cpu_threads, ThreadStep(k),
         ConstantsAssumption
  PROVE  StartInv'
<1> DEFINE th == cpu_threads[k]
           n == next_tt_start[k[2]]
<1>1. /\ ThreadInv(k, th) /\ th \in Threads /\ since \in Int
      /\ th.left \in Int /\ th.late \in Int /\ th.hp \in Nat
      /\ StartOK(th, n) /\ MaxLate \in Nat
      /\ next_tt_start \in [Cpus -> Int \cup {NoStart}]
  BY DEF PhaseInv, TableInv, ThreadInv, Threads, StartInv, ConstantsAssumption
<1>2. ASSUME NEW from, NEW new, Become(k, from, new), new.slots = th.slots, StartOK(new, n),
             UNCHANGED next_tt_start
      PROVE  StartInv'
  BY <1>1, <1>2, StartBecome
<1>3. CASE ThreadLoop(k)
  <2>0. UNCHANGED next_tt_start
    BY <1>3 DEF ThreadLoop
  <2>1. CASE ~Continue
    <3> DEFINE new == [th EXCEPT !.pc = "done"]
    <3>1. new.slots = th.slots /\ StartOK(new, n)
      BY <1>1 DEF StartOK, Threads, Timed
    <3>2. Become(k, "loop", new)
      BY <1>3, <2>1 DEF ThreadLoop
    <3> QED
      BY <1>2, <2>0, <3>1, <3>2, Zenon
  <2>2. CASE Continue /\ (th.slots = <<>> \/ th.hp = 0)
    <3> DEFINE new == [th EXCEPT !.pc = "poll"]
    <3>1. new.slots = th.slots /\ StartOK(new, n)
      BY <1>1 DEF StartOK, Threads, Timed
    <3>2. Become(k, "loop", new)
      BY <1>3, <2>2 DEF ThreadLoop
    <3> QED
      BY <1>2, <2>0, <3>1, <3>2, Zenon
  <2>3. CASE Continue /\ th.slots # <<>> /\ th.hp # 0
    <3> DEFINE none == Unpublished
               first == 1
               left == CatchUp(th.hp) + Offset(th, 1)
               new == [th EXCEPT !.pc = "check", !.next = first, !.late = none, !.left = left]
    <3>1. CatchUp(th.hp) \in Nat
      BY <1>1, <2>3, CatchUpAhead
    <3>2. Offset(th, 1) \in Nat
      <4>1. th.slots \in Seq(Slots) /\ 1 \in 1..Len(th.slots)
        BY <1>1, <2>3 DEF Threads
      <4>2. th.slots[1] \in Slots
        BY <4>1
      <4> QED
        BY <4>2 DEF ConstantsAssumption, Offset
    <3>3. left \in Int /\ left >= 0 - MaxLate /\ none = Unpublished
      BY <1>1, <3>1, <3>2
    <3>4. Become(k, "loop", new)
      BY <1>3, <2>3 DEF ThreadLoop
    <3> HIDE DEF left, none, first
    <3>5. new.slots = th.slots /\ new.late = none /\ new.left = left
      BY <1>1 DEF Threads
    <3> HIDE DEF new
    <3>6. StartOK(new, n)
      BY <3>3, <3>5 DEF StartOK
    <3> QED
      BY <1>2, <2>0, <3>4, <3>5, <3>6
  <2> QED
    BY <2>1, <2>2, <2>3
<1>4. CASE ThreadPoll(k)
  <2> DEFINE new == [th EXCEPT !.pc = "done"]
  <2>1. new.slots = th.slots /\ StartOK(new, n)
    BY <1>1 DEF StartOK, Threads, Timed
  <2>2. Become(k, "poll", new) /\ UNCHANGED next_tt_start
    BY <1>4 DEF ThreadPoll
  <2> QED
    BY <1>2, <2>1, <2>2, Zenon
<1>5. CASE ThreadCheck(k)
  <2>0. UNCHANGED next_tt_start /\ th.pc = "check"
    BY <1>5 DEF ThreadCheck, Become
  <2>1. CASE Continue
    <3> DEFINE new == [th EXCEPT !.pc = "sleep"]
    <3>1. /\ new.slots = th.slots /\ new.pc = "sleep" /\ new.left = th.left
          /\ new.late = th.late
      BY <1>1 DEF Threads
    <3>2. Become(k, "check", new)
      BY <1>5, <2>1 DEF ThreadCheck
    <3> HIDE DEF new
    <3>3. StartOK(new, n)
      BY <1>1, <2>0, <3>1 DEF StartOK, Timed
    <3> QED
      BY <1>2, <2>0, <3>1, <3>2, <3>3
  <2>2. CASE ~Continue
    <3> DEFINE zero == 0
               none == Unpublished
               new == [th EXCEPT !.pc = "loop", !.left = zero, !.late = none]
    <3>1. Become(k, "check", new)
      BY <1>5, <2>2 DEF ThreadCheck
    <3> HIDE DEF zero, none
    <3>2. new.slots = th.slots /\ new.pc = "loop"
      BY <1>1 DEF Threads
    <3> HIDE DEF new
    <3>3. StartOK(new, n)
      BY <3>2 DEF StartOK, Timed
    <3> QED
      BY <1>2, <2>0, <3>1, <3>2, <3>3
  <2> QED
    BY <2>1, <2>2
<1>6. CASE ThreadFire(k)
  <2> DEFINE delta == ComputeNextTtStart(th) - Offset(th, th.next)
             l == IF delta > 0 THEN 0 - th.left ELSE th.late
             v == IF delta > 0 THEN delta ELSE n
             new == [th EXCEPT !.pc = "wake", !.late = l]
  <2>1. th.pc = "sleep" /\ Timed(th) /\ th.left <= 0
    BY <1>6 DEF ThreadFire, Become, Timed
  <2>2. /\ th.hp > 0 /\ th.next \in 1..Len(th.slots) /\ Ordered(th.slots, th.hp)
        /\ k[2] \in Cpus
    <3>1. th.hp > 0 /\ th.next \in 1..Len(th.slots) /\ Ordered(th.slots, th.hp)
      BY <1>1, <2>1 DEF ThreadInv
    <3>2. th.slots # <<>>
      BY <3>1
    <3> QED
      BY <3>1, <3>2 DEF StartInv
  <2>3. delta = Gap(th) /\ delta \in Int /\ delta >= 0
    <3>1. Gap(th) \in Int /\ Gap(th) >= 0
      BY <1>1, <2>2, GapIsTheWay
    <3> QED
      BY <3>1 DEF Gap
  <2>4. Become(k, "sleep", new)
    BY <1>6 DEF ThreadFire
  <2>5. next_tt_start' = [next_tt_start EXCEPT ![k[2]] = v]
    BY <1>6 DEF ThreadFire
  <2>6. th.left >= 0 - MaxLate
        /\ (th.late # Unpublished => th.late \in 0..MaxLate /\ n = th.left + th.late)
    <3>1. 0 \in Int /\ th.pc \notin {"wake", "waking"}
      BY <2>1
    <3> QED
      BY <1>1, <2>1, <3>1 DEF StartOK
  <2>7. /\ l # Unpublished => l \in 0..MaxLate /\ v = th.left + l + delta
        /\ v \in Int \cup {NoStart}
    <3> HIDE DEF delta
    <3>1. CASE delta > 0
      BY <1>1, <2>1, <2>3, <2>6, <3>1
    <3>2. CASE ~(delta > 0)
      <4>1. delta = 0 /\ l = th.late /\ v = n /\ n \in Int \cup {NoStart}
        BY <1>1, <2>2, <2>3, <3>2
      <4> QED
        BY <1>1, <2>6, <4>1
    <3> QED
      BY <3>1, <3>2
  <2> HIDE DEF delta, l, v
  <2>8. /\ next_tt_start' \in [Cpus -> Int \cup {NoStart}] /\ next_tt_start'[k[2]] = v
        /\ \A c \in Cpus : c # k[2] => next_tt_start'[c] = next_tt_start[c]
    BY <1>1, <2>2, <2>5, <2>7
  <2>9. /\ new.slots = th.slots /\ new.hp = th.hp /\ new.pc = "wake"
        /\ new.next = th.next /\ new.left = th.left /\ new.late = l
    BY <1>1 DEF Threads
  <2> HIDE DEF new
  <2>10. Gap(new) = delta
    BY <2>3, <2>9 DEF Gap, ComputeNextTtStart, Offset
  <2>11. StartOK(new, v)
    BY <2>6, <2>7, <2>9, <2>10 DEF StartOK
  <2> QED
    BY <2>4, <2>8, <2>9, <2>11, StartBecome
<1>7. CASE ThreadWake(k)
  <2> DEFINE new == [th EXCEPT !.pc = "waking"]
  <2>1. th.pc = "wake" /\ Become(k, "wake", new) /\ UNCHANGED next_tt_start
    BY <1>7 DEF ThreadWake, Become
  <2>2. /\ new.slots = th.slots /\ new.hp = th.hp /\ new.pc = "waking"
        /\ new.next = th.next /\ new.left = th.left /\ new.late = th.late
    BY <1>1 DEF Threads
  <2> HIDE DEF new
  <2>3. Gap(new) = Gap(th)
    BY <2>2 DEF Gap, ComputeNextTtStart, Offset
  <2>4. StartOK(new, n)
    BY <1>1, <2>1, <2>2, <2>3 DEF StartOK, Timed
  <2> QED
    BY <1>2, <2>1, <2>2, <2>4
<1>8. CASE ThreadAdvance(k)
  <2> DEFINE wrap == th.next = Len(th.slots)
             next == IF wrap THEN 1 ELSE th.next + 1
             left == th.left + Offset(th, next) - Offset(th, th.next)
                       + (IF wrap THEN th.hp ELSE 0)
             new == [th EXCEPT !.pc = "check", !.next = next, !.left = left]
  <2>1. th.pc = "waking" /\ Become(k, "waking", new) /\ UNCHANGED next_tt_start
    BY <1>8 DEF ThreadAdvance, Become
  <2>2. th.hp > 0 /\ th.next \in 1..Len(th.slots) /\ Ordered(th.slots, th.hp)
    BY <1>1, <2>1 DEF ThreadInv, Timed
  <2>3. /\ Gap(th) = Offset(th, next) - Offset(th, th.next) + (IF wrap THEN th.hp ELSE 0)
        /\ Offset(th, next) \in Int /\ Offset(th, th.next) \in Int
        /\ Gap(th) \in Int /\ Gap(th) >= 0
    BY <1>1, <2>2, GapIsTheWay
  <2>4. left = th.left + Gap(th)
    BY <1>1, <2>3
  <2> HIDE DEF left, next
  <2>5. new.slots = th.slots /\ new.pc = "check" /\ new.left = left /\ new.late = th.late
    BY <1>1 DEF Threads
  <2> HIDE DEF new
  <2>6. th.left >= 0 - MaxLate
        /\ (th.late # Unpublished => th.late \in 0..MaxLate /\ n = th.left + th.late + Gap(th))
    BY <1>1, <2>1 DEF StartOK, Timed
  <2>7. left >= 0 - MaxLate
    BY <1>1, <2>3, <2>4, <2>6
  <2>8. th.late # Unpublished => n = left + th.late + 0
    BY <1>1, <2>3, <2>4, <2>6
  <2>9. StartOK(new, n)
    BY <2>5, <2>6, <2>7, <2>8 DEF StartOK
  <2> QED
    BY <1>2, <2>1, <2>5, <2>9
<1> QED
  BY <1>3, <1>4, <1>5, <1>6, <1>7, <1>8 DEF ThreadStep

\* The clock takes the published starts nearer as it does the targets.
LEMMA TickKeepsStart ==
  ASSUME PhaseInv, StartInv, Tick, ConstantsAssumption
  PROVE  StartInv'
<1>0. MaxLate \in Nat /\ NoStart \notin Int
  BY DEF ConstantsAssumption
<1>1. /\ DOMAIN cpu_threads' = DOMAIN cpu_threads
      /\ next_tt_start' = [c \in Cpus |->
                             IF next_tt_start[c] \in {NoStart, 0 - MaxLate} THEN next_tt_start[c]
                             ELSE next_tt_start[c] - 1]
      /\ next_tt_start \in [Cpus -> Int \cup {NoStart}]
  BY DEF Tick, StartInv
<1>2. next_tt_start' \in [Cpus -> Int \cup {NoStart}]
  <2>1. ASSUME NEW c \in Cpus
        PROVE  next_tt_start'[c] \in Int \cup {NoStart}
    <3>1. next_tt_start[c] \in Int \cup {NoStart}
      BY <1>1
    <3>2. next_tt_start'[c] = IF next_tt_start[c] \in {NoStart, 0 - MaxLate} THEN next_tt_start[c]
                              ELSE next_tt_start[c] - 1
      BY <1>1
    <3> QED
      BY <3>1, <3>2
  <2> QED
    BY <1>1, <2>1
<1>3. ASSUME NEW k \in DOMAIN cpu_threads
      PROVE  /\ k = <<k[1], k[2]>>
             /\ cpu_threads'[k].slots # <<>> => k[2] \in Cpus
             /\ StartOK(cpu_threads'[k], next_tt_start'[k[2]])
  <2> DEFINE th == cpu_threads[k]
             new == cpu_threads'[k]
             n == next_tt_start[k[2]]
  <2>1. /\ ThreadInv(k, th) /\ th \in Threads /\ StartOK(th, n) /\ k = <<k[1], k[2]>>
        /\ (th.slots # <<>> => k[2] \in Cpus)
        /\ th.left \in Int
    BY DEF PhaseInv, ThreadInv, StartInv, Threads
  <2>2. new = IF Timed(th) THEN [th EXCEPT !.left = th.left - 1] ELSE th
    BY <2>1 DEF Tick, Threads
  <2>3. CASE ~Timed(th)
    BY <2>1, <2>2, <2>3 DEF StartOK
  <2>4. CASE Timed(th)
    <3> DEFINE left == th.left - 1
    <3>1. left \in Int /\ left >= 0 - MaxLate
      <4>1. th.left > 0 - MaxLate
        BY <2>4 DEF Tick
      <4> QED
        BY <1>0, <2>1, <4>1
    <3>2. left = th.left - 1
      OBVIOUS
    <3> HIDE DEF left
    <3>3. /\ new.slots = th.slots /\ new.hp = th.hp /\ new.pc = th.pc
          /\ new.next = th.next /\ new.left = left /\ new.late = th.late
      BY <2>1, <2>2, <2>4, <3>2 DEF Threads
    <3>4. th.hp > 0 /\ th.next \in 1..Len(th.slots) /\ Ordered(th.slots, th.hp)
      BY <2>1, <2>4 DEF ThreadInv
    <3>5. k[2] \in Cpus
      <4>1. th.slots # <<>>
        BY <3>4
      <4> QED
        BY <2>1, <4>1
    <3> HIDE DEF new
    <3> DEFINE gap == IF th.pc \in {"wake", "waking"} THEN Gap(th) ELSE 0
    <3>6. gap \in Int /\ gap >= 0
      BY <2>1, <3>4, GapIsTheWay
    <3>7. Gap(new) = Gap(th)
      BY <3>3 DEF Gap, ComputeNextTtStart, Offset
    <3>8. th.late # Unpublished => th.late \in 0..MaxLate /\ n = th.left + th.late + gap
      BY <2>1, <2>4 DEF StartOK
    <3>9. next_tt_start'[k[2]] = IF n \in {NoStart, 0 - MaxLate} THEN n ELSE n - 1
      BY <1>1, <3>5
    <3>10. gap = IF new.pc \in {"wake", "waking"} THEN Gap(new) ELSE 0
      BY <3>3, <3>7
    <3> HIDE DEF gap
    <3>11. th.late # Unpublished => next_tt_start'[k[2]] = left + th.late + gap
      <4> SUFFICES ASSUME th.late # Unpublished
                   PROVE  next_tt_start'[k[2]] = left + th.late + gap
        OBVIOUS
      <4>1. th.late \in Int /\ th.late >= 0 /\ n = th.left + th.late + gap
        BY <1>0, <3>8
      <4>2. n \in Int /\ n > 0 - MaxLate
        BY <1>0, <2>1, <3>1, <3>2, <3>6, <4>1
      <4>3. n # NoStart /\ n # 0 - MaxLate
        BY <1>0, <4>2
      <4>4. next_tt_start'[k[2]] = n - 1
        BY <3>9, <4>3
      <4> QED
        BY <2>1, <3>2, <3>6, <4>1, <4>4
    <3>12. StartOK(new, next_tt_start'[k[2]])
      BY <3>1, <3>3, <3>8, <3>10, <3>11 DEF StartOK
    <3> QED
      BY <2>1, <3>5, <3>12 DEF new
  <2> QED
    BY <2>3, <2>4
<1> QED
  BY <1>1, <1>2, <1>3 DEF StartInv

\* Every step keeps the published starts.
LEMMA StartStep ==
  ASSUME TypeOK, LifeInv, PhaseInv, StartInv, [Next]_vars
  PROVE  StartInv'
<1> USE ConstantsAssumption
<1>1. ASSUME UNCHANGED <<cpu_threads, next_tt_start>>
      PROVE  StartInv'
  BY <1>1 DEF StartInv
<1>2. ASSUME NEW c \in Callers, StopBegin(c)
      PROVE  StartInv'
  BY <1>1, <1>2 DEF StopBegin
<1>3. ASSUME NEW c \in Callers, StopJoin(c)
      PROVE  StartInv'
  <2>1. UNCHANGED next_tt_start /\ DOMAIN cpu_threads' = {}
    BY <1>3 DEF StopJoin, NoThreads
  <2> QED
    BY <2>1 DEF StartInv
<1>4. ASSUME NEW c \in Callers, StartPartition(c)
      PROVE  StartInv'
  <2> DEFINE used == {slot_table[i].cpu : i \in 1..Len(slot_table)}
             spawned == IF used = {} THEN {NoCpu} ELSE used
             new == {<<version, cpu>> : cpu \in spawned}
  <2>1. /\ UNCHANGED next_tt_start
        /\ cpu_threads' = [k \in DOMAIN cpu_threads \cup new |->
                             IF k \in new THEN Thread(SlotsOf(k[2])) ELSE cpu_threads[k]]
    BY <1>4 DEF StartPartition
  <2>2. \A k \in new : k = <<k[1], k[2]>>
    OBVIOUS
  <2> HIDE DEF new
  <2>3. ASSUME NEW k \in DOMAIN cpu_threads'
        PROVE  /\ k = <<k[1], k[2]>>
               /\ cpu_threads'[k].slots # <<>> => k[2] \in Cpus
               /\ StartOK(cpu_threads'[k], next_tt_start[k[2]])
    <3>1. CASE k \in new
      <4> DEFINE q == SlotsOf(k[2])
                 zero == 0
                 none == Unpublished
                 first == 1
                 th == [pc |-> "loop", slots |-> q, hp |-> hyperperiod, next |-> first,
                        left |-> zero, late |-> none]
      <4>1. cpu_threads'[k] = th
        BY <2>1, <3>1 DEF Thread
      <4>2. q # <<>> => k[2] \in Cpus
        <5> DEFINE P == {s \in Range(slot_table) : s.cpu = k[2]}
        <5>1. slot_table \in Seq(Slots) /\ q = Kept(slot_table, P)
          BY DEF PhaseInv, TableInv, SlotsOf
        <5> HIDE DEF q
        <5>2. q \in Seq(Slots) /\ \A i \in 1..Len(q) : q[i] \in P
          <6> HIDE DEF P
          <6> QED
            BY <5>1, KeptSub
        <5>3. q # <<>> => q[1] \in P /\ q[1] \in Slots
          BY <5>2
        <5> QED
          BY <5>3 DEF ConstantsAssumption
      <4> HIDE DEF q, zero, none, first
      <4>3. th.pc = "loop" /\ th.slots = q
        OBVIOUS
      <4> HIDE DEF th
      <4>4. StartOK(th, next_tt_start[k[2]])
        BY <4>3 DEF StartOK, Timed
      <4> QED
        BY <2>2, <3>1, <4>1, <4>2, <4>3, <4>4
    <3>2. CASE k \notin new
      BY <2>1, <3>2 DEF StartInv
    <3> QED
      BY <3>1, <3>2
  <2> QED
    BY <2>1, <2>3, Zenon DEF StartInv
<1>5. CASE Connect \/ ShutdownSignal \/ Disconnect \/ Restart
  BY <1>1, <1>5 DEF Connect, ShutdownSignal, Disconnect, Restart
<1>6. ASSUME NEW t \in Tables, SetScheduleTable(t)
      PROVE  StartInv'
  BY <1>1, <1>6 DEF SetScheduleTable
<1>7. ASSUME NEW w, RemoveWorkload(w)
      PROVE  StartInv'
  BY <1>1, <1>7 DEF RemoveWorkload
<1>8. ASSUME NEW k \in DOMAIN cpu_threads, ThreadStep(k)
      PROVE  StartInv'
  BY <1>8, ThreadKeepsStart
<1>9. CASE Tick
  BY <1>9, TickKeepsStart
<1>10. CASE UNCHANGED vars
  BY <1>1, <1>10 DEF vars
<1> QED
  BY <1>2, <1>3, <1>4, <1>5, <1>6, <1>7, <1>8, <1>9, <1>10 DEF Next, CallerStep

\* The start that next_tt_start_map holds for a CPU, once its thread has written
\* it, is the next target of the thread and the lateness of that one wake-up:
\* never before the target, and no later than a thread may be, however many
\* slots, hyperperiods and tables have gone by.
THEOREM PublishedStart == Spec => []NextStartWithinLateness
<1>1. Init => StartInv
  <2> SUFFICES ASSUME Init PROVE StartInv
    OBVIOUS
  <2>1. DOMAIN cpu_threads = {}
    BY DEF Init, NoThreads
  <2> QED
    BY <2>1 DEF Init, StartInv
<1>2. TypeOK /\ LifeInv /\ PhaseInv /\ StartInv /\ [Next]_vars => StartInv'
  BY StartStep
<1>3. PhaseInv /\ StartInv => NextStartWithinLateness
  <2> SUFFICES ASSUME PhaseInv, StartInv, NEW k \in Live,
                      cpu_threads[k].pc \in {"check", "sleep"}, cpu_threads[k].late # Unpublished
               PROVE  /\ cpu_threads[k].late \in 0..MaxLate
                      /\ next_tt_start[k[2]] = cpu_threads[k].left + cpu_threads[k].late
    BY DEF NextStartWithinLateness
  <2> DEFINE th == cpu_threads[k]
  <2>1. th \in Threads /\ StartOK(th, next_tt_start[k[2]])
    BY DEF Live, PhaseInv, StartInv, ThreadInv
  <2>2. th.left \in Int /\ th.late \in Int /\ Timed(th) /\ th.pc \notin {"wake", "waking"}
    BY <2>1 DEF Threads, Timed
  <2>3. th.late \in 0..MaxLate /\ next_tt_start[k[2]] = th.left + th.late + 0
    BY <2>1, <2>2 DEF StartOK
  <2> QED
    BY <2>2, <2>3
<1> QED
  BY <1>1, <1>2, <1>3, Life, Phases, PTL DEF Spec
=============================================================================
