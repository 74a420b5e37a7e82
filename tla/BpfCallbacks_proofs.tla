------------------------ MODULE BpfCallbacks_proofs ------------------------
(* Proofs about BpfScheduler, for every value of its constants: the invariant,
   and what each callback and each kernel helper of the model makes of it. The
   steps and the theorems are in BpfScheduler_proofs. *)
EXTENDS BpfScheduler, FiniteSetTheorems, WellFoundedInduction, TLAPS

-----------------------------------------------------------------------------
(* The invariant *)

Queues == Shared \cup Cpus
Elems(q) == {q[i] : i \in 1..Len(q)}
In(s, q) == Elems(s.dsq[q])

Metas == [assigned_cpu : Cpus \cup {None}, tt_runnable : BOOLEAN]
Budgets == {NoCbs} \cup [remaining : 0..Budget, exec : -1..(Budget + 1), due : Int]

States == [task_meta : [Tasks -> Metas], cbs_map : [CbsTasks -> Budgets],
           tt_runnable_count : [Cpus -> Nat], tt_active_until : [Cpus -> BOOLEAN],
           dsq : [Queues -> Seq(Tasks)], slice : [Cpus -> Int],
           resched : SUBSET Cpus, kicked : SUBSET Cpus, collided : BOOLEAN]

Running == [Cpus -> Tasks \cup {None}]

\* With on[c] the task on each CPU c: a task is in one queue or on one CPU at
\* most, and in the queues of CBS tasks there is no other.
OnePlace(s, on) ==
  /\ \A p, q \in Queues : p # q => In(s, p) \cap In(s, q) = {}
  /\ \A c \in Cpus, q \in Queues : on[c] \notin In(s, q)
  /\ \A c, d \in Cpus : c # d /\ on[c] # None => on[c] # on[d]
  /\ In(s, "CBS") \subseteq CbsTasks /\ In(s, "THROTTLED") \subseteq CbsTasks

Marked(s, t) == s.task_meta[t].tt_runnable = TRUE
Home(s, t) == s.task_meta[t].assigned_cpu
MarkedOn(s, c) == {t \in TtTasks : Marked(s, t) /\ Home(s, t) = c}

\* As long as no mark has collided a CPU counts at least the tasks that are
\* flagged on it; unless the daemon interfered none has, and it counts no others.
Counted(s, c) ==
  LET n == s.tt_runnable_count[c]
  IN  /\ s.collided = FALSE =>
           /\ n >= Cardinality(MarkedOn(s, c))
           /\ MarkedOn(s, c) # {} => s.tt_active_until[c] = TRUE
      /\ hit \cap TtTasks = {} =>
           /\ s.collided = FALSE
           /\ n = Cardinality(MarkedOn(s, c))
           /\ s.tt_active_until[c] = TRUE => MarkedOn(s, c) # {}

Off(on, t) == \A c \in Cpus : on[c] # t

\* Task t is neither queued nor on a CPU.
Nowhere(s, on, t) == Off(on, t) /\ \A q \in Queues : t \notin In(s, q)

\* The task is flagged, unless the scheduler leaves it to the global queue.
Told(s, t) == Marked(s, t) \/ Home(s, t) \notin Isolated

\* Unless the daemon interfered, a TT task that runs or waits is flagged.
Noticed(s, on, X) ==
  hit \cap TtTasks = {} => \A t \in TtTasks \ X : Nowhere(s, on, t) \/ Told(s, t)

\* A TT task that is flagged runnable is on its CPU or in the queue of it, the
\* tasks X excepted, and that CPU is isolated.
MarksKept(s, on, X) ==
  /\ \A t \in TtTasks : Marked(s, t) => Home(s, t) \in Isolated
  /\ \A t \in TtTasks \ X : Marked(s, t) => on[Home(s, t)] = t \/ t \in In(s, Home(s, t))
  /\ \A c \in Cpus : Counted(s, c)
  /\ Noticed(s, on, X)

\* The account of task t that Account makes up when the maps have come to s.
Filled(s, t) ==
  \/ st.cbs_map[t].remaining < s.cbs_map[t].remaining
  \/ st.cbs_map[t].due < s.cbs_map[t].due /\ s.cbs_map[t].remaining > 0
UsedIn(s, t) == IF Filled(s, t) THEN 0 ELSE used[t]
KeptIn(s, t) == t \in kept /\ ~Filled(s, t)

Waits(s, t) == \E q \in Queues \ {"THROTTLED"} : t \in In(s, q)

\* A task the daemon did not interfere with: its clock runs on a CPU only; it
\* never waits for a CPU without budget; what it used and what is left never
\* exceed the budget, and its slice ends with what is left.
Sound(s, on, t, u, k) ==
  LET b == s.cbs_map[t]
  IN  /\ Off(on, t) => b.exec = -1
      /\ b.exec >= 0 => HasMeta(s, t) /\ HasCbs(s, t)
      /\ HasMeta(s, t) /\ HasCbs(s, t) /\ Waits(s, t) => b.remaining > 0
      /\ ~k => /\ u <= Budget
               /\ b.exec < 0 => u + b.remaining <= Budget
               /\ b.exec >= 0 => /\ u - b.exec + b.remaining <= Budget
                                 /\ \A c \in Cpus : on[c] = t =>
                                      s.slice[c] >= 0 /\ b.exec + s.slice[c] <= b.remaining

BudgetKept(s, on) ==
  /\ \A t \in CbsTasks \ hit : Sound(s, on, t, UsedIn(s, t), KeptIn(s, t))
  /\ \A t \in CbsTasks : s.cbs_map[t].due <= 0 => st.cbs_map[t].due <= 0

\* In the middle of a step, with the tasks X in the hands of the kernel.
Good(s, on, X) ==
  /\ s \in States /\ on \in Running
  /\ st \in States /\ used \in [CbsTasks -> Nat]
  /\ OnePlace(s, on)
  /\ MarksKept(s, on, X)
  /\ BudgetKept(s, on)

\* What waits in the queue of a CPU are TT tasks, and a CPU that runs a CBS task
\* while a TT task is flagged there is kicked.
TtFirst(s, on, c) ==
  /\ In(s, c) \subseteq TtTasks
  /\ on[c] \in CbsTasks /\ MarkedOn(s, c) # {} => c \in s.kicked

Inv ==
  /\ Good(st, curr, {})
  /\ \A c \in Cpus : TtFirst(st, curr, c)

\* A set of naturals that is not empty has a least element.
LEMMA LeastNat ==
  ASSUME NEW T, T \subseteq Nat, T # {}
  PROVE  \E n \in T : \A m \in T : n <= m
<1>1. PICK n \in T : \A m \in T : ~(<<m, n>> \in OpToRel(<, Nat))
  BY NatLessThanWellFounded, WFMin, Zenon
<1>2. ASSUME NEW m \in T PROVE n <= m
  <2>1. m \in Nat /\ n \in Nat
    OBVIOUS
  <2>2. ~(m < n)
    BY <1>1, Zenon DEF OpToRel
  <2> QED
    BY <2>2
<1> QED
  BY <1>2, Zenon

\* Induction, with the property as a set.
LEMMA Induction ==
  ASSUME NEW T, 0 \in T, \A n \in Nat : n \in T => n + 1 \in T
  PROVE  \A n \in Nat : n \in T
<1> SUFFICES ASSUME Nat \ T # {} PROVE FALSE
  OBVIOUS
<1>1. PICK n \in Nat \ T : \A m \in Nat \ T : n <= m
  BY LeastNat, Zenon
<1> QED
  BY <1>1

StepOf(A, N, F) == F \in [A \X (1..N) -> A]
Solves(g, A, N, b, F) ==
  g \in [0..N -> A] /\ g[0] = b /\ \A n \in 1..N : g[n] = F[<<g[n - 1], n>>]

\* A value for 0 and a step define a function on 0..N.
LEMMA Recursion ==
  ASSUME NEW A, NEW N \in Nat, NEW b \in A, NEW F, StepOf(A, N, F)
  PROVE  \E g : Solves(g, A, N, b, F)
<1> DEFINE Upto(m, g) == /\ g \in [0..m -> A] /\ g[0] = b
                         /\ \A n \in 1..m : g[n] = F[<<g[n - 1], n>>]
           T == {m \in Nat : m <= N => \E g : Upto(m, g)}
<1>1. 0 \in T
  <2>1. Upto(0, [n \in 0..0 |-> b])
    OBVIOUS
  <2> QED
    BY <2>1, Zenon
<1>2. ASSUME NEW m \in Nat, m \in T PROVE m + 1 \in T
  <2> SUFFICES ASSUME m + 1 <= N PROVE \E g : Upto(m + 1, g)
    OBVIOUS
  <2>1. PICK g : Upto(m, g)
    BY <1>2
  <2> DEFINE h == [n \in 0..(m + 1) |-> IF n = m + 1 THEN F[<<g[m], m + 1>>] ELSE g[n]]
  <2>2. h \in [0..(m + 1) -> A] /\ h[0] = b
    BY <2>1 DEF StepOf
  <2>3. ASSUME NEW n \in 1..(m + 1) PROVE h[n] = F[<<h[n - 1], n>>]
    <3>1. CASE n = m + 1
      <4>1. h[m + 1] = F[<<g[m], m + 1>>] /\ h[m] = g[m] /\ n - 1 = m
        BY <3>1
      <4> QED
        BY <4>1
    <3>2. CASE n \in 1..m
      BY <2>1, <3>2
    <3> QED
      BY <3>1, <3>2
  <2> HIDE DEF h
  <2> QED
    BY <2>2, <2>3, Zenon
<1> HIDE DEF T
<1>3. N \in T
  BY <1>1, <1>2, Induction, Zenon
<1> QED
  BY <1>3 DEF T, Solves

-----------------------------------------------------------------------------
(* Queues *)

\* The equation that defines Without has a solution.
LEMMA WithoutDef ==
  ASSUME NEW S, NEW q \in Seq(S), NEW t
  PROVE  \E g :
           /\ g[0] = <<>>
           /\ \A n \in 1..Len(q) : g[n] = IF q[n] = t THEN g[n - 1] ELSE Append(g[n - 1], q[n])
           /\ Without(q, t) = g[Len(q)]
<1> DEFINE A == Seq(S)
           N == Len(q)
           b == <<>>
           Step(a, n) == IF q[n] = t THEN a ELSE Append(a, q[n])
           F == [x \in A \X (1..N) |-> Step(x[1], x[2])]
           Eq(g) == g = [n \in 0..N |-> IF n = 0 THEN b ELSE Step(g[n - 1], n)]
<1>1. N \in Nat /\ b \in A /\ \A n \in 1..N : q[n] \in S
  OBVIOUS
<1>2. F \in [A \X (1..N) -> A]
  OBVIOUS
<1>3. \A a \in A, n \in 1..N : F[<<a, n>>] = Step(a, n)
  <2> HIDE DEF Step, A, N
  <2> QED
    OBVIOUS
<1>4. \A f : Eq(f) => f[0] = b /\ \A n \in 1..N : f[n] = Step(f[n - 1], n)
  <2> HIDE DEF Step, A, b
  <2> QED
    BY <1>1
<1>5. \A f \in [0..N -> A] : f[0] = b /\ (\A n \in 1..N : f[n] = Step(f[n - 1], n)) => Eq(f)
  <2> HIDE DEF Step, A, b, N
  <2> QED
    OBVIOUS
<1> HIDE DEF A, N, b, F
<1>6. PICK g : Solves(g, A, N, b, F)
  BY <1>1, <1>2, Recursion, Zenon DEF StepOf
<1> HIDE DEF Step
<1>7. ASSUME NEW n \in 1..N PROVE g[n] = Step(g[n - 1], n)
  BY <1>1, <1>3, <1>6 DEF Solves
<1> HIDE DEF Eq
<1> DEFINE u == CHOOSE f : Eq(f)
<1>8. Eq(u)
  BY <1>1, <1>6, <1>7 DEF Solves
<1>9. Without(q, t) = u[N]
  BY Zenon DEF Without, Eq, Step, N, b
<1> HIDE DEF u
<1> QED
  BY <1>4, <1>8, <1>9, Zenon DEF N, b, Step

\* Without takes one task out, and leaves the others.
LEMMA WithoutElems ==
  ASSUME NEW S, NEW q \in Seq(S), NEW t
  PROVE  Without(q, t) \in Seq(S) /\ Elems(Without(q, t)) = Elems(q) \ {t}
<1>1. PICK g :
        /\ g[0] = <<>>
        /\ \A n \in 1..Len(q) : g[n] = IF q[n] = t THEN g[n - 1] ELSE Append(g[n - 1], q[n])
        /\ Without(q, t) = g[Len(q)]
  BY WithoutDef, Zenon
<1> DEFINE N == Len(q)
           First(n) == {q[i] : i \in 1..n}
           T == {n \in Nat : n <= N => g[n] \in Seq(S) /\ Elems(g[n]) = First(n) \ {t}}
<1>2. 0 \in T
  <2>1. First(0) = {} /\ Elems(<<>>) = {} /\ <<>> \in Seq(S)
    BY DEF Elems
  <2> HIDE DEF First
  <2> QED
    BY <1>1, <2>1, Zenon
<1>3. ASSUME NEW n \in Nat, n \in T PROVE n + 1 \in T
  <2> SUFFICES ASSUME n + 1 <= N
               PROVE  g[n + 1] \in Seq(S) /\ Elems(g[n + 1]) = First(n + 1) \ {t}
    OBVIOUS
  <2>1. g[n + 1] = IF q[n + 1] = t THEN g[n] ELSE Append(g[n], q[n + 1])
    BY <1>1
  <2>2. First(n + 1) = First(n) \cup {q[n + 1]}
    OBVIOUS
  <2>3. \A e \in S : Elems(Append(g[n], e)) = Elems(g[n]) \cup {e}
    BY DEF Elems
  <2> HIDE DEF First
  <2> QED
    BY <1>3, <2>1, <2>2, <2>3
<1>4. N \in T
  <2> HIDE DEF T
  <2> QED
    BY <1>2, <1>3, Induction
<1>5. g[N] \in Seq(S) /\ Elems(g[N]) = First(N) \ {t}
  BY <1>4
<1> QED
  BY <1>1, <1>5, Zenon DEF Elems

\* The task at the head of a queue is in it.
LEMMA Headed ==
  ASSUME NEW S, NEW q \in Seq(S), q # <<>>
  PROVE  Head(q) \in Elems(q)
BY DEF Elems

\* A task that joins a queue at its tail is one more in it.
LEMMA Appended ==
  ASSUME NEW S, NEW q \in Seq(S), NEW t \in S
  PROVE  Append(q, t) \in Seq(S) /\ Elems(Append(q, t)) = Elems(q) \cup {t}
BY DEF Elems

\* A task that joins a queue at its head is one more in it.
LEMMA Prepended ==
  ASSUME NEW S, NEW q \in Seq(S), NEW t \in S
  PROVE  <<t>> \o q \in Seq(S) /\ Elems(<<t>> \o q) = Elems(q) \cup {t}
<1>1. Elems(<<t>> \o q) = Elems(q) \cup {t}
  <2>1. /\ Len(<<t>> \o q) = Len(q) + 1 /\ (<<t>> \o q)[1] = t
        /\ \A i \in 1..Len(q) : (<<t>> \o q)[i + 1] = q[i]
    OBVIOUS
  <2> DEFINE r == <<t>> \o q
  <2>2. ASSUME NEW e \in Elems(r) PROVE e \in Elems(q) \cup {t}
    <3>1. PICK i \in 1..Len(r) : e = r[i]
      BY Zenon DEF Elems
    <3>2. CASE i = 1
      BY <3>1, <3>2
    <3>3. CASE i \in 2..(Len(q) + 1)
      BY DEF Elems
    <3> QED
      BY <3>2, <3>3
  <2>3. ASSUME NEW e \in Elems(q) \cup {t} PROVE e \in Elems(r)
    <3>1. CASE e = t
      BY <3>1 DEF Elems
    <3>2. CASE e \in Elems(q)
      <4>1. PICK i \in 1..Len(q) : e = q[i]
        BY <3>2, Zenon DEF Elems
      <4>2. i + 1 \in 1..Len(r) /\ e = r[i + 1]
        BY <4>1
      <4> HIDE DEF r
      <4> QED
        BY <4>2, Zenon DEF Elems
    <3> QED
      BY <3>1, <3>2, Zenon
  <2> QED
    BY <2>2, <2>3, Zenon
<1> QED
  BY <1>1

-----------------------------------------------------------------------------
(* What each operation of the BPF program changes *)

\* All but the maps of the named fields are the same in r as in s.
SameMeta(s, r) == r.task_meta = s.task_meta /\ r.tt_runnable_count = s.tt_runnable_count
                  /\ r.tt_active_until = s.tt_active_until /\ r.collided = s.collided
SameCbs(s, r) == r.cbs_map = s.cbs_map
SameQueues(s, r) == r.dsq = s.dsq
SameSlice(s, r) == r.slice = s.slice
SameKicked(s, r) == r.kicked = s.kicked

\* A new due time is in the future.
LEMMA NextDueAhead ==
  ASSUME NEW due \in Int, BpfAssumption
  PROVE  NextDue(due) \in Int /\ NextDue(due) > 0
<1> QED
  BY DEF NextDue

\* The entries of a task.
LEMMA EntryType ==
  ASSUME NEW s \in States, NEW t \in CbsTasks, BpfAssumption
  PROVE  /\ s.cbs_map[t] \in Budgets
         /\ s.cbs_map[t].remaining \in -1..Budget
         /\ s.cbs_map[t].exec \in -1..(Budget + 1)
         /\ s.cbs_map[t].due \in Int
         /\ HasCbs(s, t) <=> s.cbs_map[t].remaining >= 0
         /\ HasCbs(s, t) => s.cbs_map[t] \in
              [remaining : 0..Budget, exec : -1..(Budget + 1), due : Int]
<1>1. CASE s.cbs_map[t] = NoCbs
  BY <1>1 DEF NoCbs, HasCbs, States
<1>2. CASE s.cbs_map[t] \in [remaining : 0..Budget, exec : -1..(Budget + 1), due : Int]
  BY <1>2 DEF NoCbs, HasCbs, States
<1> QED
  BY <1>1, <1>2, Zenon DEF Budgets, States

\* cbs_lazy_replenish fills the budget when that is due.
LEMMA ReplenishFields ==
  ASSUME NEW s \in States, NEW t \in CbsTasks, HasCbs(s, t), BpfAssumption
  PROVE  LET r == cbs_lazy_replenish(s, t)
         IN  /\ r \in States
             /\ SameMeta(s, r) /\ SameQueues(s, r) /\ SameSlice(s, r) /\ SameKicked(s, r)
             /\ \A u \in CbsTasks : u # t => r.cbs_map[u] = s.cbs_map[u]
             /\ HasCbs(r, t)
             /\ r.cbs_map[t].exec = s.cbs_map[t].exec
             /\ \/ r.cbs_map[t] = s.cbs_map[t]
                \/ /\ s.cbs_map[t].due <= 0 /\ r.cbs_map[t].due > 0
                   /\ r.cbs_map[t].remaining = Budget
<1> DEFINE r == cbs_lazy_replenish(s, t)
           b == s.cbs_map[t]
<1>1. b \in [remaining : 0..Budget, exec : -1..(Budget + 1), due : Int] /\ Budget \in Nat
  BY EntryType, Zenon DEF BpfAssumption
<1>2. CASE b.due > 0
  BY <1>2, Zenon DEF cbs_lazy_replenish, SameMeta, SameQueues, SameSlice, SameKicked
<1>3. CASE ~(b.due > 0)
  <2> DEFINE n == [remaining |-> Budget, exec |-> b.exec, due |-> NextDue(b.due)]
  <2>1. r = [s EXCEPT !.cbs_map = [s.cbs_map EXCEPT ![t] = n]]
    BY <1>3, Zenon DEF cbs_lazy_replenish, States
  <2>2. n \in Budgets /\ n.remaining = Budget /\ n.exec = b.exec /\ n.due > 0
    BY <1>1, NextDueAhead DEF Budgets
  <2> HIDE DEF n, r
  <2>3. /\ r \in States /\ SameMeta(s, r) /\ SameQueues(s, r) /\ SameSlice(s, r)
        /\ SameKicked(s, r)
        /\ r.cbs_map = [s.cbs_map EXCEPT ![t] = n]
    BY <2>1, <2>2, Zenon DEF States, SameMeta, SameQueues, SameSlice, SameKicked
  <2>4. HasCbs(r, t)
    <3>1. HasCbs(r, t) <=> r.cbs_map[t].remaining >= 0
      BY <2>3, EntryType, Zenon
    <3> QED
      BY <2>2, <2>3, <3>1 DEF States
  <2> QED
    BY <1>1, <1>3, <2>2, <2>3, <2>4 DEF r
<1> QED
  BY <1>2, <1>3, Zenon

\* Only queue q differs: it now holds the tasks E.
QueueNow(s, r, q, E) ==
  In(r, q) = E /\ \A p \in Queues : p # q => In(r, p) = In(s, p)

WithQueue(s, q, new) == [s EXCEPT !.dsq[q] = new]

\* A queue replaced by another.
LEMMA SetQueue ==
  ASSUME NEW s \in States, NEW q \in Queues, NEW new \in Seq(Tasks)
  PROVE  LET r == WithQueue(s, q, new)
         IN  /\ r \in States
             /\ SameMeta(s, r) /\ SameCbs(s, r) /\ SameSlice(s, r) /\ SameKicked(s, r)
             /\ QueueNow(s, r, q, Elems(new))
             /\ r.dsq[q] = new /\ \A p \in Queues : p # q => r.dsq[p] = s.dsq[p]
<1> DEFINE r == WithQueue(s, q, new)
           d == [s.dsq EXCEPT ![q] = new]
<1> HIDE DEF d, r
<1> QED
  BY Zenon DEF QueueNow, In, States, SameMeta, SameCbs, SameSlice, SameKicked, WithQueue

\* Insert puts a task into a queue.
LEMMA InsertFields ==
  ASSUME NEW s \in States, NEW t \in Tasks, NEW q \in Queues
  PROVE  LET r == Insert(s, t, q)
         IN  /\ r \in States
             /\ SameMeta(s, r) /\ SameCbs(s, r) /\ SameSlice(s, r) /\ SameKicked(s, r)
             /\ QueueNow(s, r, q, In(s, q) \cup {t})
<1> DEFINE new == Append(s.dsq[q], t)
<1>1. new \in Seq(Tasks) /\ Elems(new) = In(s, q) \cup {t}
  BY Appended DEF In, States
<1> DEFINE r == WithQueue(s, q, new)
<1>2. Insert(s, t, q) = r
  BY Zenon DEF Insert, WithQueue, States
<1>3. /\ r \in States
      /\ SameMeta(s, r) /\ SameCbs(s, r) /\ SameSlice(s, r) /\ SameKicked(s, r)
      /\ QueueNow(s, r, q, In(s, q) \cup {t})
  <2> HIDE DEF new
  <2>1. /\ r \in States
        /\ SameMeta(s, r) /\ SameCbs(s, r) /\ SameSlice(s, r) /\ SameKicked(s, r)
        /\ QueueNow(s, r, q, Elems(new))
    BY <1>1, SetQueue, Zenon
  <2> QED
    BY <1>1, <2>1, Zenon
<1> HIDE DEF r
<1> QED
  BY <1>2, <1>3, Zenon

\* InsertPreempt puts it into the queue of a CPU, and kicks the CPU.
LEMMA InsertPreemptFields ==
  ASSUME NEW s \in States, NEW t \in Tasks, NEW c \in Cpus
  PROVE  LET r == InsertPreempt(s, t, c)
         IN  /\ r \in States
             /\ SameMeta(s, r) /\ SameCbs(s, r) /\ SameSlice(s, r)
             /\ QueueNow(s, r, c, In(s, c) \cup {t})
             /\ r.kicked = s.kicked \cup {c}
<1> DEFINE new == <<t>> \o s.dsq[c]
           x == WithQueue(s, c, new)
           k == s.kicked \cup {c}
           r == InsertPreempt(s, t, c)
<1>1. s.dsq[c] \in Seq(Tasks) /\ c \in Queues /\ k \in SUBSET Cpus
  BY Zenon DEF States, Queues
<1>2. new \in Seq(Tasks) /\ Elems(new) = In(s, c) \cup {t}
  BY <1>1, Prepended DEF In
<1>3. /\ x \in States
      /\ SameMeta(s, x) /\ SameCbs(s, x) /\ SameSlice(s, x) /\ SameKicked(s, x)
      /\ QueueNow(s, x, c, In(s, c) \cup {t})
  <2> HIDE DEF new
  <2>1. /\ x \in States
        /\ SameMeta(s, x) /\ SameCbs(s, x) /\ SameSlice(s, x) /\ SameKicked(s, x)
        /\ QueueNow(s, x, c, Elems(new))
    BY <1>1, <1>2, SetQueue, Zenon
  <2> QED
    BY <1>2, <2>1, Zenon
<1>4. r = [x EXCEPT !.kicked = k]
  BY Zenon DEF InsertPreempt, WithQueue, States
<1> HIDE DEF x, k, r
<1> QED
  BY <1>1, <1>3, <1>4, Zenon DEF SameMeta, SameCbs, SameSlice, QueueNow, In, k, r, States

\* KickIdle only asks idle CPUs to schedule.
LEMMA KickIdleFields ==
  ASSUME NEW s \in States, NEW C
  PROVE  LET r == KickIdle(s, C)
         IN  /\ r \in States
             /\ SameMeta(s, r) /\ SameCbs(s, r) /\ SameSlice(s, r) /\ SameKicked(s, r)
             /\ SameQueues(s, r)
<1> DEFINE n == s.resched \cup {c \in C \cap Cpus : curr[c] = None}
           r == KickIdle(s, C)
<1> HIDE DEF n, r
<1> QED
  BY Zenon DEF States, SameMeta, SameCbs, SameSlice, SameKicked, SameQueues, KickIdle

\* Move takes a task from one queue to another.
LEMMA MoveFields ==
  ASSUME NEW s \in States, NEW t \in Tasks, NEW from \in Queues, NEW to \in Queues, from # to
  PROVE  LET r == Move(s, t, from, to)
         IN  /\ r \in States
             /\ SameMeta(s, r) /\ SameCbs(s, r) /\ SameSlice(s, r) /\ SameKicked(s, r)
             /\ In(r, from) = In(s, from) \ {t} /\ In(r, to) = In(s, to) \cup {t}
             /\ \A p \in Queues : p # from /\ p # to => In(r, p) = In(s, p)
             /\ r.dsq[to] = Append(s.dsq[to], t)
<1> DEFINE a == Without(s.dsq[from], t)
           b == Append(s.dsq[to], t)
           x == WithQueue(s, from, a)
           y == WithQueue(x, to, b)
<1>1. a \in Seq(Tasks) /\ Elems(a) = In(s, from) \ {t}
  BY WithoutElems, Zenon DEF In, States
<1>2. b \in Seq(Tasks) /\ Elems(b) = In(s, to) \cup {t}
  BY Appended DEF In, States
<1> HIDE DEF a, b
<1>3. /\ x \in States
      /\ SameMeta(s, x) /\ SameCbs(s, x) /\ SameSlice(s, x) /\ SameKicked(s, x)
      /\ QueueNow(s, x, from, Elems(a))
  BY <1>1, SetQueue, Zenon
<1>4. /\ y \in States
      /\ SameMeta(x, y) /\ SameCbs(x, y) /\ SameSlice(x, y) /\ SameKicked(x, y)
      /\ QueueNow(x, y, to, Elems(b)) /\ y.dsq[to] = b
  <2>1. x \in States
    BY <1>3, Zenon
  <2> HIDE DEF x
  <2>2. /\ y \in States
        /\ SameMeta(x, y) /\ SameCbs(x, y) /\ SameSlice(x, y) /\ SameKicked(x, y)
        /\ QueueNow(x, y, to, Elems(b))
    BY <1>2, <2>1, SetQueue, Zenon
  <2> QED
    BY <1>2, <2>1, <2>2, SetQueue
<1>5. Move(s, t, from, to) = y
  BY Zenon DEF Move, WithQueue, States, a, b
<1> HIDE DEF x, y
<1> QED
  BY <1>1, <1>2, <1>3, <1>4, <1>5, Zenon DEF SameMeta, SameCbs, SameSlice, SameKicked, QueueNow, b

\* Counter n and flag a of CPU c are set, and the mark m of task t.
MarksNow(s, r, t, c, m, n, a) ==
  /\ r.task_meta[t].tt_runnable = m
  /\ r.task_meta[t].assigned_cpu = s.task_meta[t].assigned_cpu
  /\ \A u \in Tasks : u # t => r.task_meta[u] = s.task_meta[u]
  /\ r.tt_runnable_count[c] = n /\ r.tt_active_until[c] = a
  /\ \A d \in Cpus : d # c => /\ r.tt_runnable_count[d] = s.tt_runnable_count[d]
                              /\ r.tt_active_until[d] = s.tt_active_until[d]

WithMarks(s, t, c, m, n, a) ==
  [s EXCEPT !.tt_runnable_count[c] = n, !.task_meta[t].tt_runnable = m, !.tt_active_until[c] = a]

\* What the two functions that mark write.
LEMMA SetMarks ==
  ASSUME NEW s \in States, NEW t \in Tasks, NEW c \in Cpus,
         NEW m \in BOOLEAN, NEW n \in Nat, NEW a \in BOOLEAN
  PROVE  LET r == WithMarks(s, t, c, m, n, a)
         IN  /\ r \in States
             /\ SameCbs(s, r) /\ SameSlice(s, r) /\ SameKicked(s, r) /\ SameQueues(s, r)
             /\ MarksNow(s, r, t, c, m, n, a) /\ r.collided = s.collided
<1> DEFINE r == WithMarks(s, t, c, m, n, a)
           e == [assigned_cpu |-> s.task_meta[t].assigned_cpu, tt_runnable |-> m]
           x == [s.task_meta EXCEPT ![t] = e]
           y == [s.tt_runnable_count EXCEPT ![c] = n]
           z == [s.tt_active_until EXCEPT ![c] = a]
<1>1. s.task_meta[t] \in Metas
  BY Zenon DEF States
<1>2. e \in Metas /\ e.tt_runnable = m /\ e.assigned_cpu = s.task_meta[t].assigned_cpu
  BY <1>1, Zenon DEF Metas
<1>3. e = [s.task_meta[t] EXCEPT !.tt_runnable = m]
  BY <1>1 DEF Metas
<1>4. r = [s EXCEPT !.tt_runnable_count = y, !.task_meta = x, !.tt_active_until = z]
  BY <1>3, Zenon DEF WithMarks, States
<1> HIDE DEF e
<1>5. /\ x \in [Tasks -> Metas] /\ x[t] = e
      /\ \A u \in Tasks : u # t => x[u] = s.task_meta[u]
  BY <1>2, Zenon DEF States
<1>6. /\ y \in [Cpus -> Nat] /\ y[c] = n
      /\ \A d \in Cpus : d # c => y[d] = s.tt_runnable_count[d]
  BY Zenon DEF States
<1>7. /\ z \in [Cpus -> BOOLEAN] /\ z[c] = a
      /\ \A d \in Cpus : d # c => z[d] = s.tt_active_until[d]
  BY Zenon DEF States
<1> HIDE DEF x, y, z, r
<1>8. /\ r \in States
      /\ SameCbs(s, r) /\ SameSlice(s, r) /\ SameKicked(s, r) /\ SameQueues(s, r)
      /\ r.task_meta = x /\ r.tt_runnable_count = y /\ r.tt_active_until = z
      /\ r.collided = s.collided
  BY <1>4, <1>5, <1>6, <1>7, Zenon DEF States, SameCbs, SameSlice, SameKicked, SameQueues
<1> QED
  BY <1>2, <1>5, <1>6, <1>7, <1>8, Zenon DEF r, MarksNow

WithCollided(s, b) == [s EXCEPT !.collided = b]

\* The history of collisions is read by no callback.
LEMMA SetCollided ==
  ASSUME NEW s \in States, NEW b \in BOOLEAN
  PROVE  LET r == WithCollided(s, b)
         IN  /\ r \in States
             /\ SameCbs(s, r) /\ SameSlice(s, r) /\ SameKicked(s, r) /\ SameQueues(s, r)
             /\ r.task_meta = s.task_meta /\ r.tt_runnable_count = s.tt_runnable_count
             /\ r.tt_active_until = s.tt_active_until /\ r.collided = b
<1> DEFINE r == WithCollided(s, b)
<1> HIDE DEF r
<1> QED
  BY Zenon DEF States, SameCbs, SameSlice, SameKicked, SameQueues, WithCollided

Collisions == [count : Nat, active : BOOLEAN]

\* mark_tt_runnable counts a task once, or what a collision makes of that.
LEMMA MarkFields ==
  ASSUME NEW s \in States, NEW t \in Tasks, NEW c \in Cpus, NEW m \in Collisions
  PROVE  LET r == mark_tt_runnable(s, t, c, m)
             n == s.tt_runnable_count[c]
         IN  /\ r \in States
             /\ SameCbs(s, r) /\ SameSlice(s, r) /\ SameKicked(s, r) /\ SameQueues(s, r)
             /\ MarksNow(s, r, t, c, TRUE, IF Marked(s, t) THEN n ELSE n + m.count, m.active)
             /\ r.collided = FALSE <=> s.collided = FALSE /\ m = Alone
<1> DEFINE n == IF Marked(s, t) THEN s.tt_runnable_count[c] ELSE s.tt_runnable_count[c] + m.count
           a == m.active
           b == s.collided \/ m # Alone
<1>1. /\ n \in Nat /\ s.task_meta[t].tt_runnable \in BOOLEAN /\ a \in BOOLEAN
      /\ s.collided \in BOOLEAN
  BY DEF States, Metas, Collisions
<1>2. b \in BOOLEAN /\ (b = FALSE <=> s.collided = FALSE /\ m = Alone)
  BY <1>1, Zenon
<1> HIDE DEF n, a, b
<1> DEFINE q == WithMarks(s, t, c, TRUE, n, a)
           r == WithCollided(q, b)
<1>3. /\ q \in States
      /\ SameCbs(s, q) /\ SameSlice(s, q) /\ SameKicked(s, q) /\ SameQueues(s, q)
      /\ MarksNow(s, q, t, c, TRUE, n, a)
  BY <1>1, SetMarks, Zenon
<1>4. mark_tt_runnable(s, t, c, m) = r
  BY Zenon DEF mark_tt_runnable, WithMarks, WithCollided, n, a, b, Marked
<1> HIDE DEF q
<1>5. /\ r \in States
      /\ SameCbs(q, r) /\ SameSlice(q, r) /\ SameKicked(q, r) /\ SameQueues(q, r)
      /\ r.task_meta = q.task_meta /\ r.tt_runnable_count = q.tt_runnable_count
      /\ r.tt_active_until = q.tt_active_until /\ r.collided = b
  BY <1>2, <1>3, SetCollided, Zenon
<1> HIDE DEF r
<1>6. /\ SameCbs(s, r) /\ SameSlice(s, r) /\ SameKicked(s, r) /\ SameQueues(s, r)
      /\ MarksNow(s, r, t, c, TRUE, n, a)
  BY <1>3, <1>5, Zenon DEF SameCbs, SameSlice, SameKicked, SameQueues, MarksNow
<1> QED
  BY <1>2, <1>4, <1>5, <1>6, Zenon DEF n, a

\* mark_tt_not_runnable takes the mark of a task back.
LEMMA UnmarkFields ==
  ASSUME NEW s \in States, NEW t \in Tasks, NEW c \in Cpus
  PROVE  LET r == mark_tt_not_runnable(s, t, c)
             n == s.tt_runnable_count[c]
             left == IF n > 0 THEN n - 1 ELSE n
         IN  /\ ~Marked(s, t) => r = s
             /\ Marked(s, t) =>
                  /\ r \in States
                  /\ SameCbs(s, r) /\ SameSlice(s, r) /\ SameKicked(s, r) /\ SameQueues(s, r)
                  /\ MarksNow(s, r, t, c, FALSE, left,
                              IF left = 0 THEN FALSE ELSE s.tt_active_until[c])
                  /\ r.collided = s.collided
<1> DEFINE n == s.tt_runnable_count[c]
           left == IF n > 0 THEN n - 1 ELSE n
           a == IF left = 0 THEN FALSE ELSE s.tt_active_until[c]
           x == mark_tt_not_runnable(s, t, c)
<1>1. /\ left \in Nat /\ a \in BOOLEAN
      /\ s.task_meta[t].tt_runnable \in BOOLEAN
  <2>1. s.tt_active_until[c] \in BOOLEAN /\ n \in Nat /\ s.task_meta[t].tt_runnable \in BOOLEAN
    BY Zenon DEF States, Metas
  <2>2. left \in Nat
    BY <2>1
  <2>3. CASE left = 0
    BY <2>1, <2>2, Zenon
  <2>4. CASE left # 0
    BY <2>1, <2>4
  <2> QED
    BY <2>3, <2>4, Zenon
<1>2. CASE ~Marked(s, t)
  BY <1>2, Zenon DEF Marked, mark_tt_not_runnable
<1>3. CASE Marked(s, t)
  <2> HIDE DEF left, a
  <2> DEFINE r == WithMarks(s, t, c, FALSE, left, a)
  <2>1. /\ r \in States
        /\ SameCbs(s, r) /\ SameSlice(s, r) /\ SameKicked(s, r) /\ SameQueues(s, r)
        /\ MarksNow(s, r, t, c, FALSE, left, a)
    BY <1>1, SetMarks, Zenon
  <2>2. r.collided = s.collided
    BY Zenon DEF WithMarks, States
  <2>3. x = r
    BY <1>3, Zenon DEF left, a, mark_tt_not_runnable, WithMarks, Marked
  <2> HIDE DEF r, x
  <2> QED
    BY <1>3, <2>1, <2>2, <2>3, Zenon DEF x, left, a
<1> QED
  BY <1>2, <1>3, Zenon

WithBudget(s, t, b) == [s EXCEPT !.cbs_map[t] = b]

\* A budget entry replaced by another.
LEMMA SetBudget ==
  ASSUME NEW s \in States, NEW t \in CbsTasks, NEW b \in Budgets
  PROVE  LET r == WithBudget(s, t, b)
         IN  /\ r \in States
             /\ SameMeta(s, r) /\ SameQueues(s, r) /\ SameSlice(s, r) /\ SameKicked(s, r)
             /\ r.cbs_map[t] = b /\ \A u \in CbsTasks : u # t => r.cbs_map[u] = s.cbs_map[u]
<1> DEFINE r == WithBudget(s, t, b)
           m == [s.cbs_map EXCEPT ![t] = b]
<1> HIDE DEF m, r
<1> QED
  BY Zenon DEF States, SameMeta, SameQueues, SameSlice, SameKicked, WithBudget

WithSlice(s, c, n) == [s EXCEPT !.slice[c] = n]

\* A slice replaced by another.
LEMMA SetSlice ==
  ASSUME NEW s \in States, NEW c \in Cpus, NEW n \in Int
  PROVE  LET r == WithSlice(s, c, n)
         IN  /\ r \in States
             /\ SameMeta(s, r) /\ SameCbs(s, r) /\ SameQueues(s, r) /\ SameKicked(s, r)
             /\ r.slice[c] = n /\ \A d \in Cpus : d # c => r.slice[d] = s.slice[d]
<1> DEFINE r == WithSlice(s, c, n)
           m == [s.slice EXCEPT ![c] = n]
<1> HIDE DEF m, r
<1> QED
  BY Zenon DEF States, SameMeta, SameQueues, SameCbs, SameKicked, WithSlice

\* r is s with the clock of t started on c: the budget is the one of e, the
\* slice ends with what is left of it, and nothing else has changed.
ClockStarted(s, r, t, c, e) ==
  /\ r \in States
  /\ SameMeta(s, r) /\ SameQueues(s, r) /\ SameKicked(s, r)
  /\ \A u \in CbsTasks : u # t => r.cbs_map[u] = s.cbs_map[u]
  /\ \A d \in Cpus : d # c => r.slice[d] = s.slice[d]
  /\ HasCbs(r, t)
  /\ r.cbs_map[t].exec = 0
  /\ r.cbs_map[t].remaining = e.cbs_map[t].remaining
  /\ r.cbs_map[t].due = e.cbs_map[t].due
  /\ e.cbs_map[t].remaining > 0 => r.slice[c] \in 1..(r.cbs_map[t].remaining)

\* running starts the clock of a CBS task and gives it a slice that ends with
\* what is left of its budget, if there is any.
LEMMA RunningFields ==
  ASSUME NEW s \in States, NEW t \in CbsTasks, HasMeta(s, t), HasCbs(s, t), NEW c \in Cpus,
         NEW until_tt \in us_until_next_tt, BpfAssumption
  PROVE  ClockStarted(s, running(s, t, c, until_tt), t, c, cbs_lazy_replenish(s, t))
<1> DEFINE e == cbs_lazy_replenish(s, t)
           r == running(s, t, c, until_tt)
           left == e.cbs_map[t].remaining
           effective == IF until_tt < left THEN until_tt ELSE left
           n == IF effective = 0 THEN 1 ELSE effective
           b == [remaining |-> left, exec |-> 0, due |-> e.cbs_map[t].due]
           x == WithBudget(e, t, b)
<1>1. /\ e \in States /\ HasCbs(e, t)
      /\ SameMeta(s, e) /\ SameQueues(s, e) /\ SameSlice(s, e) /\ SameKicked(s, e)
      /\ \A u \in CbsTasks : u # t => e.cbs_map[u] = s.cbs_map[u]
  BY ReplenishFields, Zenon
<1> HIDE DEF e
<1>2. /\ Budget \in Nat /\ left \in 0..Budget /\ e.cbs_map[t].due \in Int
      /\ e.cbs_map[t] \in [remaining : 0..Budget, exec : -1..(Budget + 1), due : Int]
      /\ until_tt \in Nat /\ until_tt > 0 /\ t \notin TtTasks
  BY <1>1, EntryType DEF BpfAssumption, us_until_next_tt
<1>3. b \in Budgets /\ b.exec = 0 /\ b.remaining = left /\ b.due = e.cbs_map[t].due
  <2> DEFINE z == 0
  <2> HIDE DEF z, left
  <2> QED
    BY <1>2 DEF Budgets
<1>4. n \in Int /\ (left > 0 => n \in 1..left)
  BY <1>2
<1>5. r = WithSlice(x, c, n)
  <2>1. r = [e EXCEPT !.cbs_map[t].exec = 0, !.slice[c] = n]
    BY Zenon DEF running, e
  <2>2. b = [e.cbs_map[t] EXCEPT !.exec = 0]
    BY <1>2
  <2> HIDE DEF b, n
  <2> QED
    BY <2>1, <2>2, Zenon DEF WithSlice, WithBudget
<1> HIDE DEF b, n
<1>6. /\ x \in States
      /\ SameMeta(e, x) /\ SameQueues(e, x) /\ SameSlice(e, x) /\ SameKicked(e, x)
      /\ x.cbs_map[t] = b /\ \A u \in CbsTasks : u # t => x.cbs_map[u] = e.cbs_map[u]
  BY <1>1, <1>3, SetBudget
<1> HIDE DEF x
<1> DEFINE y == WithSlice(x, c, n)
<1>7. /\ y \in States
      /\ SameMeta(x, y) /\ SameCbs(x, y) /\ SameQueues(x, y) /\ SameKicked(x, y)
      /\ y.slice[c] = n /\ \A d \in Cpus : d # c => y.slice[d] = x.slice[d]
  BY <1>4, <1>6, SetSlice
<1> HIDE DEF y
<1>8. HasCbs(y, t)
  BY <1>2, <1>3, <1>6, <1>7, EntryType DEF SameCbs
<1> HIDE DEF r
<1> QED
  <2>1. ClockStarted(s, r, t, c, e)
    BY <1>1, <1>3, <1>4, <1>5, <1>6, <1>7, <1>8 DEF ClockStarted, y, SameMeta, SameQueues,
       SameKicked, SameCbs, SameSlice
  <2> QED
    BY <2>1, Zenon DEF r, e

\* stopping_cbs stops the clock and takes what was used from the budget; a
\* budget that is used up is not filled on the way.
LEMMA StoppingFields ==
  ASSUME NEW s \in States, NEW t \in CbsTasks, HasCbs(s, t), s.cbs_map[t].exec >= 0,
         BpfAssumption
  PROVE  LET r == stopping_cbs(s, t)
             b == s.cbs_map[t]
         IN  /\ r \in States
             /\ SameMeta(s, r) /\ SameQueues(s, r) /\ SameSlice(s, r) /\ SameKicked(s, r)
             /\ \A u \in CbsTasks : u # t => r.cbs_map[u] = s.cbs_map[u]
             /\ HasCbs(r, t)
             /\ r.cbs_map[t].exec = -1
             /\ r.cbs_map[t].remaining = IF b.exec >= b.remaining THEN 0 ELSE b.remaining - b.exec
             /\ \/ r.cbs_map[t].due = b.due
                \/ r.cbs_map[t].remaining = 0 /\ r.cbs_map[t].due > 0
<1> DEFINE b == s.cbs_map[t]
           left == IF b.exec >= b.remaining THEN 0 ELSE b.remaining - b.exec
           due == IF left = 0 /\ b.due <= 0 THEN NextDue(b.due) ELSE b.due
           m == -1
           n == [remaining |-> left, exec |-> m, due |-> due]
           r == WithBudget(s, t, n)
<1>1. /\ left \in 0..Budget /\ due \in Int /\ (due = b.due \/ (left = 0 /\ due > 0))
      /\ m \in -1..(Budget + 1)
  BY NextDueAhead, EntryType
<1>2. stopping_cbs(s, t) = r
  BY EntryType DEF stopping_cbs, WithBudget
<1>3. n \in Budgets /\ n.remaining = left /\ n.exec = m /\ n.due = due
  <2> HIDE DEF left, due, m
  <2> QED
    BY <1>1, Zenon DEF Budgets
<1> HIDE DEF n
<1>4. /\ r \in States
      /\ SameMeta(s, r) /\ SameQueues(s, r) /\ SameSlice(s, r) /\ SameKicked(s, r)
      /\ r.cbs_map[t] = n /\ \A u \in CbsTasks : u # t => r.cbs_map[u] = s.cbs_map[u]
  BY <1>3, SetBudget
<1> HIDE DEF r
<1>5. HasCbs(r, t)
  BY <1>3, <1>4, EntryType
<1> QED
  BY <1>1, <1>2, <1>3, <1>4, <1>5, Zenon

\* A CPU that answers a kick changes nothing else.
LEMMA AnsweredFields ==
  ASSUME st \in States, NEW c \in Cpus
  PROVE  LET r == Answered(c)
         IN  /\ r \in States
             /\ SameMeta(st, r) /\ SameCbs(st, r) /\ SameQueues(st, r) /\ SameSlice(st, r)
             /\ r.kicked = st.kicked \ {c}
<1> DEFINE k == st.kicked \ {c}
           n == st.resched \ {c}
           r == Answered(c)
<1> HIDE DEF k, n, r
<1> QED
  BY Zenon DEF States, SameMeta, SameCbs, SameQueues, SameSlice, Answered

-----------------------------------------------------------------------------
(* What the operations keep *)

\* A task whose entries, places and slice stay as they are stays sound.
LEMMA SoundFrame ==
  ASSUME NEW s, NEW r, NEW on, NEW on2, NEW u \in CbsTasks,
         r.cbs_map[u] = s.cbs_map[u], r.task_meta[u] = s.task_meta[u],
         \A c \in Cpus : on2[c] = u <=> on[c] = u,
         \A c \in Cpus : on[c] = u => r.slice[c] = s.slice[c],
         Waits(r, u) => Waits(s, u),
         Sound(s, on, u, UsedIn(s, u), KeptIn(s, u))
  PROVE  Sound(r, on2, u, UsedIn(r, u), KeptIn(r, u))
<1> QED
  BY Zenon DEF Sound, HasMeta, HasCbs, Off, UsedIn, KeptIn, Filled

\* In a good state every task the daemon left alone is sound.
LEMMA GoodSound ==
  ASSUME NEW s, NEW on, NEW X, Good(s, on, X), NEW u \in CbsTasks \ hit
  PROVE  Sound(s, on, u, UsedIn(s, u), KeptIn(s, u))
BY Zenon DEF Good, BudgetKept

\* An entry that is as it was keeps its account.
LEMMA Unfilled ==
  ASSUME NEW s, st \in States, NEW t \in CbsTasks, s.cbs_map[t] = st.cbs_map[t], BpfAssumption
  PROVE  ~Filled(s, t) /\ UsedIn(s, t) = used[t] /\ (KeptIn(s, t) <=> t \in kept)
<1>1. ~Filled(s, t)
  BY EntryType DEF Filled
<1> QED
  BY <1>1, Zenon DEF UsedIn, KeptIn

\* Marks that stay are kept as long as no flagged task leaves its CPU.
LEMMA MarksFrame ==
  ASSUME NEW s, NEW r, NEW on, NEW on2, NEW X, NEW Y,
         SameMeta(s, r), MarksKept(s, on, X), BpfAssumption,
         \A t \in TtTasks \ Y, c \in Cpus :
           /\ t \notin X /\ (on[c] = t \/ t \in In(s, c)) => on2[c] = t \/ t \in In(r, c)
           /\ t \in X /\ Marked(s, t) /\ Home(s, t) = c => on2[c] = t \/ t \in In(r, c),
         \A t \in TtTasks \ Y :
           t \in X \/ Nowhere(s, on, t) => Nowhere(r, on2, t) \/ Told(s, t)
  PROVE  MarksKept(r, on2, Y) /\ \A c : MarkedOn(r, c) = MarkedOn(s, c)
<1>1. ASSUME NEW t \in TtTasks, Marked(r, t)
      PROVE  /\ Home(r, t) \in Isolated
             /\ t \notin Y => on2[Home(r, t)] = t \/ t \in In(r, Home(r, t))
  BY <1>1, Zenon DEF MarksKept, SameMeta, Marked, Home
<1>2. \A c : MarkedOn(r, c) = MarkedOn(s, c)
  BY Zenon DEF SameMeta, MarkedOn, Marked, Home
<1>3. \A c \in Cpus : Counted(r, c)
  BY <1>2, Zenon DEF MarksKept, Counted, SameMeta
<1>4. Noticed(r, on2, Y)
  BY Zenon DEF MarksKept, Noticed, Told, SameMeta, Marked, Home
<1> QED
  BY <1>1, <1>2, <1>3, <1>4, Zenon DEF MarksKept

\* Marks and places that stay are kept.
LEMMA SameFrame ==
  ASSUME NEW s, NEW r, NEW on, NEW X, MarksKept(s, on, X), BpfAssumption,
         SameMeta(s, r), SameQueues(s, r)
  PROVE  MarksKept(r, on, X)
<1>1. \A q : In(r, q) = In(s, q)
  BY Zenon DEF SameQueues, In
<1>2. \A t : Nowhere(r, on, t) <=> Nowhere(s, on, t)
  BY <1>1, Zenon DEF Nowhere
<1> QED
  BY <1>1, <1>2, MarksFrame, Zenon

\* What the kernel does between the callbacks keeps everything.
LEMMA GoodFrame ==
  ASSUME NEW s, NEW r \in States, NEW on, NEW X, Good(s, on, X), BpfAssumption,
         SameMeta(s, r), SameCbs(s, r), SameQueues(s, r), SameSlice(s, r)
  PROVE  Good(r, on, X)
<1>1. ASSUME NEW u \in CbsTasks \ hit PROVE Sound(r, on, u, UsedIn(r, u), KeptIn(r, u))
  BY SoundFrame, Zenon DEF SameMeta, SameCbs, SameSlice, Waits, Good, BudgetKept, SameQueues, In
<1>2. MarksKept(r, on, X)
  BY SameFrame, Zenon DEF Good
<1> QED
  BY <1>1, <1>2, Zenon DEF Good, BudgetKept, SameCbs, OnePlace, SameQueues, In

\* A task that was nowhere is put into a queue.
LEMMA InsertGood ==
  ASSUME NEW s, NEW r \in States, NEW on, NEW t \in Tasks, NEW q \in Queues,
         NEW X, Good(s, on, X), Nowhere(s, on, t), BpfAssumption,
         SameMeta(s, r), SameCbs(s, r), SameSlice(s, r),
         QueueNow(s, r, q, In(s, q) \cup {t}),
         q \in {"CBS", "THROTTLED"} => t \in CbsTasks,
         X \subseteq {t}, t \in X /\ t \in TtTasks /\ Marked(s, t) => q = Home(s, t),
         t \in TtTasks => Told(s, t),
         t \in CbsTasks \ hit /\ HasMeta(s, t) /\ HasCbs(s, t) /\ q # "THROTTLED" =>
           s.cbs_map[t].remaining > 0
  PROVE  Good(r, on, {})
<1>1. OnePlace(r, on)
  BY DEF Good, OnePlace, Nowhere, Off, Queues, Shared, QueueNow
<1>2. MarksKept(r, on, {})
  <2>1. ASSUME NEW u \in TtTasks, u \in X \/ Nowhere(s, on, u)
        PROVE  Nowhere(r, on, u) \/ Told(s, u)
    <3>1. CASE u # t
      BY <2>1, <3>1, Zenon DEF Nowhere, QueueNow
    <3> QED
      BY <3>1, Zenon
  <2>2. ASSUME NEW u \in TtTasks, NEW c \in Cpus
        PROVE  /\ u \notin X /\ (on[c] = u \/ u \in In(s, c)) => on[c] = u \/ u \in In(r, c)
               /\ u \in X /\ Marked(s, u) /\ Home(s, u) = c => on[c] = u \/ u \in In(r, c)
    BY DEF Queues, QueueNow
  <2> QED
    BY <2>1, <2>2, MarksFrame, Zenon DEF Good
<1>3. ASSUME NEW u \in CbsTasks \ hit PROVE Sound(r, on, u, UsedIn(r, u), KeptIn(r, u))
  <2>1. CASE u # t \/ q = "THROTTLED"
    BY <2>1, SoundFrame, Zenon DEF Waits, SameMeta, SameCbs, SameSlice, Good, BudgetKept, QueueNow
  <2>2. CASE u = t /\ q # "THROTTLED"
    BY <2>2, Zenon DEF Sound, HasMeta, HasCbs, UsedIn, KeptIn, Filled, SameMeta, SameCbs,
       SameSlice, Good, BudgetKept
  <2> QED
    BY <2>1, <2>2, Zenon
<1> QED
  BY <1>1, <1>2, <1>3, Zenon DEF Good, BudgetKept, SameCbs

\* A budget is filled while its task is on no CPU, and the account starts anew.
LEMMA ReplenishGood ==
  ASSUME NEW s, NEW on, NEW X, Good(s, on, X), NEW t \in CbsTasks, HasCbs(s, t), Off(on, t),
         BpfAssumption
  PROVE  Good(cbs_lazy_replenish(s, t), on, X)
<1> DEFINE r == cbs_lazy_replenish(s, t)
<1>1. /\ r \in States
      /\ SameMeta(s, r) /\ SameQueues(s, r) /\ SameSlice(s, r) /\ SameKicked(s, r)
      /\ \A u \in CbsTasks : u # t => r.cbs_map[u] = s.cbs_map[u]
      /\ HasCbs(r, t)
      /\ r.cbs_map[t].exec = s.cbs_map[t].exec
      /\ \/ r.cbs_map[t] = s.cbs_map[t]
         \/ /\ s.cbs_map[t].due <= 0 /\ r.cbs_map[t].due > 0
            /\ r.cbs_map[t].remaining = Budget
  BY ReplenishFields, Zenon DEF Good
<1> HIDE DEF r
<1>2. ASSUME NEW u \in CbsTasks \ hit, r.cbs_map[u] = s.cbs_map[u]
      PROVE  Sound(r, on, u, UsedIn(r, u), KeptIn(r, u))
  <2>1. Sound(s, on, u, UsedIn(s, u), KeptIn(s, u))
    BY <1>2, GoodSound, Zenon
  <2> QED
    BY <1>1, <1>2, <2>1, SoundFrame, Zenon DEF SameMeta, SameSlice, Waits, SameQueues, In
<1>3. ASSUME t \notin hit, s.cbs_map[t].due <= 0, r.cbs_map[t].due > 0,
             r.cbs_map[t].remaining = Budget
      PROVE  Sound(r, on, t, UsedIn(r, t), KeptIn(r, t))
  <2>1. Filled(r, t)
    BY <1>1, <1>3, EntryType DEF Filled, Good, BudgetKept
  <2> QED
    BY <1>1, <1>3, <2>1 DEF Sound, UsedIn, Good, BudgetKept
<1>4. BudgetKept(r, on)
  <2>1. ASSUME NEW u \in CbsTasks \ hit PROVE Sound(r, on, u, UsedIn(r, u), KeptIn(r, u))
    BY <1>1, <1>2, <1>3, Zenon
  <2>2. ASSUME NEW u \in CbsTasks, r.cbs_map[u].due <= 0 PROVE st.cbs_map[u].due <= 0
    BY <1>1, <2>2, Zenon DEF Good, BudgetKept
  <2> QED
    BY <2>1, <2>2, Zenon DEF BudgetKept
<1>5. MarksKept(r, on, X)
  BY <1>1, SameFrame, Zenon DEF Good
<1> QED
  BY <1>1, <1>4, <1>5, Zenon DEF Good, r, OnePlace, SameQueues, In

\* A CBS task that was nowhere is enqueued: into CBS only with a budget.
LEMMA EnqueueCbsGood ==
  ASSUME NEW s, NEW on, Good(s, on, {}), NEW t \in CbsTasks, Nowhere(s, on, t), NEW m,
         BpfAssumption
  PROVE  /\ Good(enqueue(s, t, m), on, {})
         /\ SameMeta(s, enqueue(s, t, m)) /\ SameKicked(s, enqueue(s, t, m))
         /\ \A c \in Cpus : In(enqueue(s, t, m), c) = In(s, c)
<1>1. t \in Tasks /\ t \notin TtTasks /\ s \in States
  BY Zenon DEF Tasks, BpfAssumption, Good
<1>2. /\ "CBS" \in Queues /\ "THROTTLED" \in Queues /\ "GLOBAL" \in Queues
      /\ "CBS" # "THROTTLED" /\ "GLOBAL" # "THROTTLED" /\ "GLOBAL" # "CBS"
      /\ \A c \in Cpus : c \in Queues /\ c # "CBS" /\ c # "THROTTLED" /\ c # "GLOBAL"
  BY Zenon DEF Queues, Shared, BpfAssumption
<1>3. CASE ~HasMeta(s, t) \/ ~HasCbs(s, t)
  <2> DEFINE r == Insert(s, t, "GLOBAL")
  <2>1. enqueue(s, t, m) = r
    BY <1>3, Zenon DEF enqueue, enqueue_cbs
  <2>2. /\ r \in States
        /\ SameMeta(s, r) /\ SameCbs(s, r) /\ SameSlice(s, r) /\ SameKicked(s, r)
        /\ QueueNow(s, r, "GLOBAL", In(s, "GLOBAL") \cup {t})
    BY <1>1, <1>2, InsertFields, Zenon
  <2> HIDE DEF r
  <2> QED
    BY <1>1, <1>2, <1>3, <2>1, <2>2, InsertGood DEF QueueNow
<1>4. CASE HasMeta(s, t) /\ HasCbs(s, t)
  <2> DEFINE e == cbs_lazy_replenish(s, t)
             q == IF e.cbs_map[t].remaining = 0 THEN "THROTTLED" ELSE "CBS"
             r == Insert(e, t, q)
  <2>1. enqueue(s, t, m) = r
    BY <1>4, Zenon DEF enqueue, enqueue_cbs
  <2>2. Good(e, on, {})
    BY <1>4, ReplenishGood, Zenon DEF Nowhere
  <2>3. e \in States /\ SameMeta(s, e) /\ SameQueues(s, e) /\ SameKicked(s, e) /\ HasCbs(e, t)
    BY <1>1, <1>4, ReplenishFields, Zenon
  <2> HIDE DEF e
  <2>4. q \in Queues /\ q \in {"CBS", "THROTTLED"}
        /\ (q # "THROTTLED" => e.cbs_map[t].remaining > 0)
    BY <1>2, <2>3, EntryType
  <2> HIDE DEF q
  <2>5. /\ r \in States
        /\ SameMeta(e, r) /\ SameCbs(e, r) /\ SameSlice(e, r) /\ SameKicked(e, r)
        /\ QueueNow(e, r, q, In(e, q) \cup {t})
    BY <1>1, <2>3, <2>4, InsertFields, Zenon
  <2> HIDE DEF r
  <2>6. Good(r, on, {})
    BY <1>1, <2>2, <2>3, <2>4, <2>5, InsertGood, Zenon DEF Nowhere, SameQueues, In
  <2> QED
    BY <1>2, <2>1, <2>3, <2>4, <2>5, <2>6, Zenon DEF SameMeta, SameKicked, QueueNow, SameQueues,
       In
<1> QED
  BY <1>3, <1>4, Zenon

\* A TT task is flagged on an isolated CPU and counted there.
LEMMA MarkGood ==
  ASSUME NEW s, NEW on, NEW t \in TtTasks, NEW c \in Isolated, Good(s, on, {t}),
         NEW m \in Collisions, hit \cap TtTasks = {} => m = Alone,
         Home(s, t) = c, BpfAssumption
  PROVE  Good(mark_tt_runnable(s, t, c, m), on, {t})
<1> DEFINE r == mark_tt_runnable(s, t, c, m)
           n == s.tt_runnable_count[c]
<1>1. t \in Tasks /\ c \in Cpus /\ s \in States /\ IsFiniteSet(TtTasks) /\ t \notin CbsTasks
  BY Zenon DEF Good, Tasks, BpfAssumption
<1>2. /\ r \in States
      /\ SameCbs(s, r) /\ SameSlice(s, r) /\ SameKicked(s, r) /\ SameQueues(s, r)
      /\ MarksNow(s, r, t, c, TRUE, IF Marked(s, t) THEN n ELSE n + m.count, m.active)
      /\ r.collided = FALSE <=> s.collided = FALSE /\ m = Alone
  BY <1>1, MarkFields, Zenon
<1> HIDE DEF r
<1>3. \A q : In(r, q) = In(s, q)
  BY <1>2, Zenon DEF SameQueues, In
<1>4. ASSUME NEW d \in Cpus PROVE Counted(r, d)
  <2>1. CASE d # c
    <3>1. MarkedOn(r, d) = MarkedOn(s, d)
      BY <1>2, <2>1 DEF MarkedOn, MarksNow, Marked, Home, Tasks
    <3> QED
      BY <1>2, <2>1, <3>1, Zenon DEF Counted, MarksNow, Good, MarksKept
  <2>2. CASE d = c
    <3>1. MarkedOn(r, c) = MarkedOn(s, c) \cup {t}
      BY <1>2 DEF MarkedOn, MarksNow, Marked, Home, Tasks
    <3>2. IsFiniteSet(MarkedOn(s, c)) /\ (t \in MarkedOn(s, c) <=> Marked(s, t))
      BY FS_Subset, Zenon DEF MarkedOn
    <3>3. /\ Cardinality(MarkedOn(s, c)) \in Nat
          /\ Cardinality(MarkedOn(r, c)) = IF Marked(s, t) THEN Cardinality(MarkedOn(s, c))
                                           ELSE Cardinality(MarkedOn(s, c)) + 1
      BY <3>1, <3>2, FS_AddElement, FS_CardinalityType
    <3> QED
      <4>1. Counted(s, c) /\ n \in Nat
        BY <1>1, Zenon DEF Good, MarksKept, States
      <4>2. m = Alone => m.count = 1 /\ m.active = TRUE
        BY DEF Alone
      <4>3. r.tt_runnable_count[c] = (IF Marked(s, t) THEN n ELSE n + m.count)
            /\ r.tt_active_until[c] = m.active /\ t \in MarkedOn(r, c)
        BY <1>2, <3>1, Zenon DEF MarksNow
      <4>4. r.collided = FALSE =>
              /\ r.tt_runnable_count[c] >= Cardinality(MarkedOn(r, c))
              /\ MarkedOn(r, c) # {} => r.tt_active_until[c] = TRUE
        BY <1>2, <3>3, <4>1, <4>2, <4>3 DEF Counted
      <4>5. hit \cap TtTasks = {} =>
              /\ r.collided = FALSE
              /\ r.tt_runnable_count[c] = Cardinality(MarkedOn(r, c))
        BY <1>2, <3>3, <4>1, <4>2, <4>3 DEF Counted
      <4> QED
        BY <2>2, <4>3, <4>4, <4>5, Zenon DEF Counted
  <2> QED
    BY <2>1, <2>2, Zenon
<1>5. ASSUME NEW u \in CbsTasks \ hit PROVE Sound(r, on, u, UsedIn(r, u), KeptIn(r, u))
  BY <1>2, <1>3, SoundFrame DEF SameCbs, SameSlice, MarksNow, Tasks, Waits, Good, BudgetKept
<1> QED
  <2>1. BudgetKept(r, on)
    BY <1>2, <1>5, Zenon DEF Good, BudgetKept, SameCbs
  <2>2. MarksKept(s, on, {t})
    BY Zenon DEF Good
  <2>3. Noticed(r, on, {t})
    <3>1. ASSUME NEW u \in TtTasks \ {t} PROVE Told(r, u) <=> Told(s, u)
      BY <1>2, Zenon DEF Told, MarksNow, Marked, Home, Tasks
    <3>2. \A u : Nowhere(r, on, u) <=> Nowhere(s, on, u)
      BY <1>3, Zenon DEF Nowhere
    <3> QED
      BY <2>2, <3>1, <3>2, Zenon DEF MarksKept, Noticed
  <2>4. MarksKept(r, on, {t})
    BY <1>1, <1>2, <1>3, <1>4, <2>2, <2>3 DEF MarksKept, MarksNow, Marked, Home, Tasks
  <2> QED
    BY <1>2, <1>3, <2>1, <2>4, Zenon DEF Good, r, OnePlace

\* A TT task that was nowhere is enqueued: on its CPU, which is kicked, or, when
\* that is not isolated or the daemon evicted it, with the other tasks.
LEMMA EnqueueTtGood ==
  ASSUME NEW s, NEW on, NEW t \in TtTasks, Good(s, on, {t}), Nowhere(s, on, t),
         NEW m \in Collisions, hit \cap TtTasks = {} => m = Alone, BpfAssumption
  PROVE  LET r == enqueue(s, t, m)
         IN  /\ Good(r, on, {})
             /\ \A d \in Cpus : In(r, d) \subseteq In(s, d) \cup {t}
             /\ \A d \in Cpus : In(s, d) \subseteq In(r, d)
             /\ s.kicked \subseteq r.kicked
             /\ \A d \in Cpus : d \in r.kicked \/ MarkedOn(r, d) = MarkedOn(s, d)
             /\ Marked(r, t) => Home(r, t) \in r.kicked
             /\ \A u \in Tasks : u # t => r.task_meta[u] = s.task_meta[u]
<1> DEFINE r == enqueue(s, t, m)
           c == Home(s, t)
<1>1. /\ t \in Tasks /\ s \in States /\ Isolated \subseteq Cpus
      /\ t \notin CbsTasks /\ None \notin Cpus
      /\ Cpus \subseteq Queues /\ "GLOBAL" \in Queues /\ "GLOBAL" \notin Cpus
  BY Zenon DEF Good, Tasks, BpfAssumption, Queues, Shared
<1>2. Marked(s, t) => c \in Isolated
  BY Zenon DEF Good, MarksKept
<1>3. CASE c \notin Isolated
  <2> DEFINE g == Insert(s, t, "GLOBAL")
  <2>1. r = g
    BY <1>3, Zenon DEF enqueue, enqueue_tt, Home
  <2>2. /\ g \in States
        /\ SameMeta(s, g) /\ SameCbs(s, g) /\ SameSlice(s, g) /\ SameKicked(s, g)
        /\ QueueNow(s, g, "GLOBAL", In(s, "GLOBAL") \cup {t})
    BY <1>1, InsertFields, Zenon
  <2> HIDE DEF g
  <2>3. Good(g, on, {})
    BY <1>1, <1>2, <1>3, <2>2, InsertGood, Zenon DEF Told
  <2> QED
    BY <1>1, <1>2, <1>3, <2>1, <2>2, <2>3, Zenon DEF Marked, MarkedOn, Home, SameMeta, SameKicked,
       QueueNow
<1>4. CASE c \in Isolated
  <2> DEFINE k == mark_tt_runnable(s, t, c, m)
             g == InsertPreempt(k, t, c)
             n == s.tt_runnable_count[c]
  <2>1. r = g
    BY <1>4 DEF enqueue, enqueue_tt, Home, HasMeta, NoMeta
  <2>2. Good(k, on, {t})
    BY <1>4, MarkGood, Zenon
  <2>3. /\ k \in States
        /\ SameCbs(s, k) /\ SameSlice(s, k) /\ SameKicked(s, k) /\ SameQueues(s, k)
        /\ MarksNow(s, k, t, c, TRUE, IF Marked(s, t) THEN n ELSE n + m.count, m.active)
    BY <1>1, <1>4, MarkFields, Zenon
  <2> HIDE DEF k
  <2>4. /\ g \in States
        /\ SameMeta(k, g) /\ SameCbs(k, g) /\ SameSlice(k, g)
        /\ QueueNow(k, g, c, In(k, c) \cup {t})
        /\ g.kicked = k.kicked \cup {c}
    BY <1>1, <1>4, <2>3, InsertPreemptFields, Zenon
  <2> HIDE DEF g
  <2>5. Home(k, t) = c /\ Marked(k, t)
    BY <2>3, Zenon DEF MarksNow, Home, Marked
  <2>6. Home(g, t) = c /\ \A u \in Tasks : u # t => g.task_meta[u] = s.task_meta[u]
    BY <2>3, <2>4, <2>5 DEF Home, SameMeta, MarksNow
  <2>7. ASSUME NEW d \in Cpus, d # c PROVE MarkedOn(g, d) = MarkedOn(s, d)
    BY <2>6, <2>7, Zenon DEF MarkedOn, Marked, Home, Tasks
  <2>8. Good(g, on, {})
    <3>1. Nowhere(k, on, t) /\ c \in Queues /\ c \notin {"CBS", "THROTTLED"} /\ {t} \subseteq {t}
      BY <1>1, <1>4, <2>3, Zenon DEF Nowhere, SameQueues, In, BpfAssumption, Shared
    <3> QED
      BY <1>1, <2>2, <2>4, <2>5, <3>1, InsertGood, Zenon DEF Told
  <2>9. \A d \in Cpus : In(g, d) \subseteq In(s, d) \cup {t} /\ In(s, d) \subseteq In(g, d)
    BY <1>1, <2>3, <2>4, Zenon DEF QueueNow, SameQueues, In
  <2>10. g.kicked = s.kicked \cup {c}
    BY <2>3, <2>4, Zenon DEF SameKicked
  <2> QED
    BY <2>1, <2>6, <2>7, <2>8, <2>9, <2>10, Zenon
<1> QED
  BY <1>3, <1>4, Zenon

\* What a queue holds are tasks.
LEMMA InType ==
  ASSUME NEW s \in States, NEW q \in Queues, BpfAssumption
  PROVE  /\ s.dsq[q] \in Seq(Tasks) /\ In(s, q) \subseteq Tasks /\ None \notin In(s, q)
         /\ s.dsq[q] = <<>> <=> In(s, q) = {}
         /\ s.dsq[q] # <<>> => Head(s.dsq[q]) \in In(s, q)
<1>1. s.dsq[q] \in Seq(Tasks) /\ None \notin Tasks
  BY Zenon DEF States, BpfAssumption
<1>2. In(s, q) \subseteq Tasks
  BY <1>1 DEF In, Elems
<1>3. s.dsq[q] = <<>> <=> In(s, q) = {}
  <2>1. s.dsq[q] # <<>> => s.dsq[q][1] \in In(s, q)
    BY DEF In, Elems
  <2>2. s.dsq[q] = <<>> => In(s, q) = {}
    BY DEF In, Elems
  <2> QED
    BY <2>1, <2>2, Zenon
<1>4. ASSUME s.dsq[q] # <<>> PROVE Head(s.dsq[q]) \in In(s, q)
  BY <1>1, <1>4, Headed, Zenon DEF In
<1> QED
  BY <1>1, <1>2, <1>3, <1>4, Zenon

\* The CPUs with c given to task t, or to none.
Now(on, c, t) == [on EXCEPT ![c] = t]

\* Giving c a task changes what runs on c and on no other CPU.
LEMMA NowOn ==
  ASSUME NEW on \in Running, NEW c \in Cpus, NEW t \in Tasks \cup {None}
  PROVE  /\ Now(on, c, t) \in Running
         /\ Now(on, c, t)[c] = t
         /\ \A d \in Cpus : d # c => Now(on, c, t)[d] = on[d]
BY Zenon DEF Running, Now

\* A task that left its CPU is nowhere.
LEMMA Released ==
  ASSUME NEW s, NEW on, Good(s, on, {}), NEW c \in Cpus, NEW t \in Tasks, on[c] = t,
         BpfAssumption
  PROVE  OnePlace(s, Now(on, c, None)) /\ Nowhere(s, Now(on, c, None), t)
<1> DEFINE o == Now(on, c, None)
<1>1. o[c] = None /\ \A d \in Cpus : d # c => o[d] = on[d]
  BY NowOn DEF Good
<1> HIDE DEF o
<1> QED
  BY <1>1, InType DEF o, OnePlace, Nowhere, Off, Good

\* stopping: a CBS task leaves its CPU, its clock is stopped and what it used
\* is taken from its budget.
LEMMA StopCbsGood ==
  ASSUME NEW s, NEW on, Good(s, on, {}), NEW c \in Cpus, NEW t \in CbsTasks, on[c] = t,
         s.cbs_map[t] = st.cbs_map[t], NEW w, BpfAssumption
  PROVE  LET r == stopping(s, t, c, w)
             o == Now(on, c, None)
         IN  /\ Good(r, o, {}) /\ Nowhere(r, o, t)
             /\ SameMeta(s, r) /\ SameQueues(s, r) /\ SameKicked(s, r) /\ SameSlice(s, r)
<1> DEFINE r == stopping(s, t, c, w)
           o == Now(on, c, None)
           b == s.cbs_map[t]
<1>1. /\ t \in Tasks /\ t \notin TtTasks /\ s \in States /\ on \in Running /\ st \in States
      /\ None \notin Tasks /\ used \in [CbsTasks -> Nat] /\ Budget \in Nat
  BY Zenon DEF Good, BpfAssumption, Tasks
<1>2. o \in Running /\ o[c] = None /\ \A d \in Cpus : d # c => o[d] = on[d]
  BY <1>1, NowOn
<1> HIDE DEF o
<1>3. /\ r \in States
      /\ SameMeta(s, r) /\ SameQueues(s, r) /\ SameSlice(s, r) /\ SameKicked(s, r)
      /\ \A u \in CbsTasks : u # t => r.cbs_map[u] = s.cbs_map[u]
      /\ \/ r.cbs_map[t] = b /\ (~HasMeta(s, t) \/ ~HasCbs(s, t) \/ b.exec < 0)
         \/ /\ b.exec >= 0 /\ HasCbs(s, t)
            /\ r.cbs_map[t].exec = -1
            /\ r.cbs_map[t].remaining = IF b.exec >= b.remaining THEN 0 ELSE b.remaining - b.exec
            /\ \/ r.cbs_map[t].due = b.due
               \/ r.cbs_map[t].remaining = 0 /\ r.cbs_map[t].due > 0
  <2>1. b.exec \in Int
    BY <1>1, EntryType
  <2>2. CASE ~HasMeta(s, t) \/ ~HasCbs(s, t)
    BY <1>1, <2>2, Zenon DEF SameMeta, SameQueues, SameSlice, SameKicked, stopping
  <2>3. CASE HasMeta(s, t) /\ HasCbs(s, t) /\ b.exec < 0
    BY <1>1, <2>3, Zenon DEF SameMeta, SameQueues, SameSlice, SameKicked, stopping, stopping_cbs
  <2>4. CASE HasMeta(s, t) /\ HasCbs(s, t) /\ b.exec >= 0
    <3> DEFINE y == stopping_cbs(s, t)
    <3>1. r = y
      BY <2>4, Zenon DEF stopping
    <3>2. /\ y \in States
          /\ SameMeta(s, y) /\ SameQueues(s, y) /\ SameSlice(s, y) /\ SameKicked(s, y)
          /\ \A u \in CbsTasks : u # t => y.cbs_map[u] = s.cbs_map[u]
          /\ y.cbs_map[t].exec = -1
          /\ y.cbs_map[t].remaining = IF b.exec >= b.remaining THEN 0 ELSE b.remaining - b.exec
          /\ \/ y.cbs_map[t].due = b.due
             \/ y.cbs_map[t].remaining = 0 /\ y.cbs_map[t].due > 0
      BY <1>1, <2>4, StoppingFields
    <3> HIDE DEF r, y, b
    <3> QED
      BY <2>4, <3>1, <3>2, Zenon
  <2> HIDE DEF r, b
  <2> QED
    BY <2>1, <2>2, <2>3, <2>4
<1> HIDE DEF r
<1>4. \A q : In(r, q) = In(s, q)
  BY <1>3, Zenon DEF SameQueues, In
<1>5. MarksKept(r, o, {})
  <2>1. ASSUME NEW u \in TtTasks, NEW d \in Cpus, on[d] = u \/ u \in In(s, d)
        PROVE  o[d] = u \/ u \in In(r, d)
    BY <1>2, <1>4, <2>1, Zenon
  <2>2. ASSUME NEW u \in TtTasks, Nowhere(s, on, u) PROVE Nowhere(r, o, u)
    <3>1. u # None
      BY <1>1, Zenon DEF Tasks
    <3>2. Off(o, u)
      BY <1>2, <2>2, <3>1, Zenon DEF Nowhere, Off
    <3> QED
      BY <1>4, <2>2, <3>2, Zenon DEF Nowhere
  <2> QED
    BY <1>3, <2>1, <2>2, MarksFrame, Zenon DEF Good
<1>6. ASSUME NEW u \in CbsTasks \ hit, u # t
      PROVE  Sound(r, o, u, UsedIn(r, u), KeptIn(r, u))
  <2>1. Sound(s, on, u, UsedIn(s, u), KeptIn(s, u))
    BY <1>6, GoodSound, Zenon
  <2> QED
    BY <1>2, <1>3, <1>4, <1>6, <2>1, SoundFrame DEF SameMeta, SameSlice, Tasks, Waits
<1>7. ASSUME t \notin hit
      PROVE  Sound(r, o, t, UsedIn(r, t), KeptIn(r, t))
  <2>1. /\ b.exec \in -1..(Budget + 1) /\ b.remaining \in -1..Budget /\ b.due \in Int
        /\ HasCbs(s, t) => b.remaining >= 0
    BY <1>1, EntryType, Zenon
  <2>2. /\ UsedIn(r, t) = used[t] /\ (KeptIn(r, t) <=> t \in kept)
        /\ UsedIn(s, t) = used[t] /\ (KeptIn(s, t) <=> t \in kept) /\ used[t] \in Nat
    <3>1. ~Filled(r, t)
      BY <1>3, <2>1 DEF Filled
    <3> QED
      BY <1>1, <3>1, Unfilled, Zenon DEF UsedIn, KeptIn
  <2>3. Sound(s, on, t, UsedIn(s, t), KeptIn(s, t))
    BY <1>7, GoodSound, Zenon
  <2>4. r.cbs_map[t].exec = -1
    <3>1. CASE r.cbs_map[t] = b
      BY <1>3, <2>1, <2>3, <3>1 DEF Sound
    <3> QED
      BY <1>3, <3>1, Zenon
  <2>5. ASSUME t \notin kept
        PROVE  used[t] <= Budget /\ used[t] + r.cbs_map[t].remaining <= Budget
    <3>1. CASE r.cbs_map[t] = b
      BY <2>2, <2>3, <2>4, <2>5, <3>1 DEF Sound
    <3>2. CASE /\ b.exec >= 0
               /\ r.cbs_map[t].remaining = IF b.exec >= b.remaining THEN 0 ELSE b.remaining - b.exec
      BY <2>1, <2>2, <2>3, <2>5, <3>2 DEF Sound
    <3> QED
      BY <1>3, <3>1, <3>2, Zenon
  <2>6. ~Waits(r, t)
    BY <1>1, <1>4, Released, Zenon DEF Waits, Nowhere, o
  <2> QED
    BY <2>2, <2>4, <2>5, <2>6 DEF Sound
<1>8. BudgetKept(r, o)
  <2>1. ASSUME NEW u \in CbsTasks, r.cbs_map[u].due <= 0 PROVE st.cbs_map[u].due <= 0
    <3>1. s.cbs_map[u].due <= 0 => st.cbs_map[u].due <= 0
      BY Zenon DEF Good, BudgetKept
    <3>2. r.cbs_map[u].due = s.cbs_map[u].due \/ r.cbs_map[u].due > 0
      BY <1>3, Zenon
    <3>3. r.cbs_map[u].due \in Int
      BY <1>3, EntryType, Zenon
    <3> QED
      BY <2>1, <3>1, <3>2, <3>3
  <2> QED
    BY <1>6, <1>7, <2>1, Zenon DEF BudgetKept
<1> QED
  <2>1. OnePlace(s, o) /\ Nowhere(s, o, t)
    BY <1>1, Released, Zenon DEF o
  <2>2. OnePlace(r, o) /\ Nowhere(r, o, t)
    BY <1>4, <2>1, Zenon DEF OnePlace, Nowhere
  <2> QED
    BY <1>1, <1>2, <1>3, <1>5, <1>8, <2>2, Zenon DEF Good, r, o

\* A TT task that leaves its CPU for good is no longer flagged nor counted there.
LEMMA UnmarkCounted ==
  ASSUME NEW s \in States, NEW t \in TtTasks, NEW c \in Cpus, Marked(s, t), Home(s, t) = c,
         \A d \in Cpus : Counted(s, d), BpfAssumption
  PROVE  \A d \in Cpus : Counted(mark_tt_not_runnable(s, t, c), d)
<1> DEFINE r == mark_tt_not_runnable(s, t, c)
           n == s.tt_runnable_count[c]
           left == IF n > 0 THEN n - 1 ELSE n
<1>1. t \in Tasks /\ IsFiniteSet(TtTasks) /\ n \in Nat
  BY Zenon DEF Tasks, BpfAssumption, States
<1>2. /\ MarksNow(s, r, t, c, FALSE, left, IF left = 0 THEN FALSE ELSE s.tt_active_until[c])
      /\ r.collided = s.collided
  BY <1>1, UnmarkFields, Zenon
<1> HIDE DEF r
<1>3. /\ ~Marked(r, t)
      /\ \A u \in TtTasks : u # t => (Marked(r, u) <=> Marked(s, u)) /\ Home(r, u) = Home(s, u)
  BY <1>2, Zenon DEF MarksNow, Marked, Home, Tasks
<1>4. ASSUME NEW d \in Cpus, d # c PROVE Counted(r, d)
  <2>1. MarkedOn(r, d) = MarkedOn(s, d)
    BY <1>3, <1>4, Zenon DEF MarkedOn
  <2> QED
    BY <1>2, <1>4, <2>1, Zenon DEF Counted, MarksNow
<1>5. CASE s.collided # FALSE
  BY <1>2, <1>4, <1>5, Zenon DEF Counted, r
<1>6. ASSUME s.collided = FALSE PROVE Counted(r, c)
  <2> DEFINE M == MarkedOn(s, c)
             R == MarkedOn(r, c)
  <2>1. R = M \ {t} /\ t \in M
    BY <1>3, Zenon DEF MarkedOn
  <2>2. IsFiniteSet(M) /\ IsFiniteSet(R)
    BY FS_Subset, Zenon DEF MarkedOn
  <2>3. Cardinality(M) \in Nat /\ Cardinality(R) = Cardinality(M) - 1 /\ Cardinality(R) \in Nat
    BY <2>1, <2>2, FS_RemoveElement, FS_CardinalityType
  <2>4. /\ n >= Cardinality(M)
        /\ s.tt_active_until[c] = TRUE
        /\ hit \cap TtTasks = {} => n = Cardinality(M)
    BY <1>6, <2>1, Zenon DEF Counted
  <2> HIDE DEF M, R
  <2>5. left = n - 1
    BY <1>1, <2>3, <2>4
  <2> HIDE DEF left
  <2> QED
    BY <1>1, <1>2, <1>6, <2>2, <2>3, <2>4, <2>5, FS_EmptySet DEF Counted, R, MarksNow
<1> QED
  BY <1>4, <1>5, <1>6, Zenon DEF r

\* stopping: a TT task leaves its CPU; one that stays runnable stays flagged, as
\* the kernel is about to enqueue it.
LEMMA StopTtGood ==
  ASSUME NEW s, NEW on, Good(s, on, {}), NEW c \in Cpus, NEW t \in TtTasks, on[c] = t,
         NEW w \in BOOLEAN, BpfAssumption
  PROVE  LET r == stopping(s, t, c, w)
             o == Now(on, c, None)
         IN  /\ Good(r, o, IF w THEN {t} ELSE {}) /\ Nowhere(r, o, t)
             /\ SameCbs(s, r) /\ SameQueues(s, r) /\ SameKicked(s, r) /\ SameSlice(s, r)
             /\ \A d \in Cpus : MarkedOn(r, d) \subseteq MarkedOn(s, d)
             /\ w => SameMeta(s, r)
             /\ ~w => ~Marked(r, t)
<1> DEFINE r == stopping(s, t, c, w)
           o == Now(on, c, None)
           X == IF w THEN {t} ELSE {}
<1>1. /\ t \in Tasks /\ t \notin CbsTasks /\ s \in States /\ on \in Running
      /\ None \notin Tasks /\ MarksKept(s, on, {}) /\ Isolated \subseteq Cpus
  BY Zenon DEF Good, BpfAssumption, Tasks
<1>2. o \in Running /\ o[c] = None /\ \A d \in Cpus : d # c => o[d] = on[d]
  BY <1>1, NowOn
<1>3. OnePlace(s, o) /\ Nowhere(s, o, t)
  BY <1>1, Released, Zenon
<1> HIDE DEF o
<1>4. Marked(s, t) => Home(s, t) = c
  BY <1>1, Zenon DEF Good, OnePlace, MarksKept, Queues
<1>5. ASSUME NEW u \in TtTasks, u # t, Nowhere(s, on, u) PROVE Nowhere(s, o, u)
  <2>1. u # None
    BY <1>1, Zenon DEF Tasks
  <2> QED
    BY <1>2, <1>5, <2>1, Zenon DEF Nowhere, Off
<1>6. CASE w \/ ~Marked(s, t)
  <2>1. ASSUME NEW u \in CbsTasks \ hit PROVE Sound(s, o, u, UsedIn(s, u), KeptIn(s, u))
    <3>1. Sound(s, on, u, UsedIn(s, u), KeptIn(s, u))
      BY Zenon DEF Good, BudgetKept
    <3> QED
      BY <1>2, <3>1, SoundFrame DEF Tasks
  <2>2. r = s
    BY <1>6, Zenon DEF stopping, mark_tt_not_runnable, Marked
  <2>3. Noticed(s, o, X)
    BY <1>1, <1>3, <1>5, Zenon DEF MarksKept, Noticed
  <2>4. MarksKept(s, o, X)
    BY <1>1, <1>2, <1>6, <2>3, Zenon DEF MarksKept
  <2> HIDE DEF r
  <2> QED
    BY <1>1, <1>2, <1>3, <1>6, <2>1, <2>2, <2>4, Zenon DEF SameMeta, SameCbs, SameQueues,
       SameKicked, SameSlice, o, r, Good, BudgetKept
<1>7. CASE ~w /\ Marked(s, t)
  <2> DEFINE n == s.tt_runnable_count[c]
             left == IF n > 0 THEN n - 1 ELSE n
  <2>1. r = mark_tt_not_runnable(s, t, c)
    BY <1>7 DEF stopping, HasMeta, NoMeta, Marked
  <2>2. /\ r \in States
        /\ SameCbs(s, r) /\ SameSlice(s, r) /\ SameKicked(s, r) /\ SameQueues(s, r)
        /\ MarksNow(s, r, t, c, FALSE, left, IF left = 0 THEN FALSE ELSE s.tt_active_until[c])
    <3> DEFINE y == mark_tt_not_runnable(s, t, c)
    <3>1. /\ y \in States
          /\ SameCbs(s, y) /\ SameSlice(s, y) /\ SameKicked(s, y) /\ SameQueues(s, y)
          /\ MarksNow(s, y, t, c, FALSE, left, IF left = 0 THEN FALSE ELSE s.tt_active_until[c])
      BY <1>1, <1>7, UnmarkFields, Zenon
    <3> HIDE DEF y, r, left
    <3> QED
      BY <2>1, <3>1, Zenon DEF y
  <2>3. \A d \in Cpus : Counted(r, d)
    BY <1>1, <1>4, <1>7, <2>1, UnmarkCounted DEF MarksKept
  <2> HIDE DEF r
  <2>4. OnePlace(r, o) /\ Nowhere(r, o, t)
    BY <1>3, <2>2, Zenon DEF OnePlace, Nowhere, SameQueues, In
  <2>5. ASSUME NEW u \in CbsTasks \ hit PROVE Sound(r, o, u, UsedIn(r, u), KeptIn(r, u))
    BY <1>2, <2>2, SoundFrame DEF SameCbs, SameSlice, MarksNow, Tasks, Waits, Good,
       BudgetKept, SameQueues, In
  <2>6. /\ ~Marked(r, t)
        /\ \A u \in TtTasks : u # t => (Marked(r, u) <=> Marked(s, u)) /\ Home(r, u) = Home(s, u)
    BY <2>2, Zenon DEF MarksNow, Marked, Home, Tasks
  <2>7. \A d \in Cpus : MarkedOn(r, d) \subseteq MarkedOn(s, d)
    BY <2>6, Zenon DEF MarkedOn
  <2>8. MarksKept(r, o, {})
    <3>1. \A q : In(r, q) = In(s, q)
      BY <2>2, Zenon DEF SameQueues, In
    <3>2. Noticed(r, o, {})
      BY <1>1, <1>5, <2>4, <2>6, <3>1, Zenon DEF MarksKept, Noticed, Nowhere, Told
    <3> QED
      BY <1>1, <1>2, <2>3, <2>6, <3>1, <3>2 DEF MarksKept
  <2>9. BudgetKept(r, o)
    BY <2>2, <2>5, Zenon DEF Good, BudgetKept, SameCbs
  <2> QED
    BY <1>2, <1>7, <2>2, <2>4, <2>6, <2>7, <2>8, <2>9, Zenon DEF r, o, Good
<1> QED
  BY <1>6, <1>7, Zenon

\* The kernel moves a task from a queue of all CPUs to another queue.
LEMMA MoveGood ==
  ASSUME NEW s, NEW on, Good(s, on, {}), NEW r \in States, BpfAssumption,
         NEW from \in {"CBS", "THROTTLED", "GLOBAL"}, NEW to \in Queues \ {"THROTTLED"}, from # to,
         NEW t \in In(s, from) \cup In(s, to),
         to = "CBS" => t \in CbsTasks,
         t \in CbsTasks \ hit /\ HasMeta(s, t) /\ HasCbs(s, t) => s.cbs_map[t].remaining > 0,
         SameMeta(s, r), SameCbs(s, r), SameSlice(s, r),
         In(r, from) = In(s, from) \ {t}, In(r, to) = In(s, to) \cup {t},
         \A p \in Queues : p # from /\ p # to => In(r, p) = In(s, p)
  PROVE  Good(r, on, {})
<1>1. /\ from \in Queues /\ from \notin Cpus /\ OnePlace(s, on)
      /\ \A c \in Cpus : c \in Queues
  BY Zenon DEF Good, Queues, Shared, BpfAssumption
<1>2. OnePlace(r, on)
  BY <1>1 DEF OnePlace, Queues, Shared
<1>3. MarksKept(r, on, {})
  <2>1. ASSUME NEW u \in TtTasks, NEW c \in Cpus, on[c] = u \/ u \in In(s, c)
        PROVE  on[c] = u \/ u \in In(r, c)
    BY <1>1, <2>1, Zenon
  <2>2. ASSUME NEW u, Nowhere(s, on, u) PROVE Nowhere(r, on, u)
    BY <1>1, <2>2, Zenon DEF Nowhere
  <2> QED
    BY <2>1, <2>2, MarksFrame, Zenon DEF Good
<1>4. ASSUME NEW u \in CbsTasks \ hit PROVE Sound(r, on, u, UsedIn(r, u), KeptIn(r, u))
  <2>1. CASE u # t
    BY <2>1, SoundFrame DEF Waits, SameCbs, SameMeta, SameSlice, Good, BudgetKept
  <2>2. CASE u = t
    BY <2>2, Zenon DEF Sound, HasMeta, HasCbs, UsedIn, KeptIn, Filled, SameCbs, SameMeta,
       SameSlice, Good, BudgetKept
  <2> QED
    BY <2>1, <2>2, Zenon
<1> QED
  BY <1>2, <1>3, <1>4, Zenon DEF Good, BudgetKept, SameCbs

\* What a look at the throttled tasks may change.
Promoted(s, r, on) ==
  /\ Good(r, on, {})
  /\ SameMeta(s, r) /\ SameSlice(s, r) /\ SameKicked(s, r)
  /\ \A p \in Queues \ {"CBS", "THROTTLED"} : In(r, p) = In(s, p)
  /\ In(s, "CBS") \subseteq In(r, "CBS")
  /\ In(s, "CBS") \cup In(s, "THROTTLED") \subseteq In(r, "CBS") \cup In(r, "THROTTLED")
  /\ In(r, "CBS") = {} => \A u \in CbsTasks : r.cbs_map[u] = s.cbs_map[u]
  /\ In(r, "CBS") \cup In(r, "THROTTLED") \subseteq In(s, "CBS") \cup In(s, "THROTTLED")
  /\ \A u \in CbsTasks \ (In(s, "CBS") \cup In(s, "THROTTLED")) : r.cbs_map[u] = s.cbs_map[u]

\* Promoting one task of the throttled queue keeps the invariant: a task whose
\* budget is still empty stays, the others move to the CBS queue and are filled.
LEMMA PromoteOneGood ==
  ASSUME NEW s, NEW on, Good(s, on, {}), NEW t \in In(s, "THROTTLED") \cup In(s, "CBS"), NEW c,
         BpfAssumption
  PROVE  Promoted(s, PromoteOne(s, t, c), on)
<1> DEFINE e == cbs_lazy_replenish(s, t)
           m == Move(e, t, "THROTTLED", "CBS")
           C == {e.task_meta[t].assigned_cpu} \ {c}
           k == KickIdle(m, C)
<1>1. /\ s \in States /\ OnePlace(s, on) /\ t \in CbsTasks /\ t \in Tasks /\ Off(on, t)
      /\ "CBS" \in Queues /\ "THROTTLED" \in Queues /\ "CBS" # "THROTTLED"
  BY Zenon DEF Good, OnePlace, Tasks, Off, Queues, Shared
<1>2. CASE ~HasMeta(s, t) \/ ~HasCbs(s, t)
  BY <1>2, Zenon DEF Promoted, SameMeta, SameSlice, SameKicked, PromoteOne
<1>3. CASE HasMeta(s, t) /\ HasCbs(s, t)
  <2>1. PromoteOne(s, t, c) = IF e.cbs_map[t].remaining = 0 THEN e ELSE k
    BY <1>3, Zenon DEF PromoteOne
  <2>2. Good(e, on, {})
    BY <1>1, <1>3, ReplenishGood, Zenon
  <2>3. /\ e \in States /\ HasCbs(e, t)
        /\ SameMeta(s, e) /\ SameQueues(s, e) /\ SameSlice(s, e) /\ SameKicked(s, e)
        /\ \A u \in CbsTasks : u # t => e.cbs_map[u] = s.cbs_map[u]
    BY <1>1, <1>3, ReplenishFields, Zenon
  <2> HIDE DEF e
  <2>4. CASE e.cbs_map[t].remaining = 0
    <3>1. \A q : In(e, q) = In(s, q)
      BY <2>3, Zenon DEF SameQueues, In
    <3>2. e.cbs_map[t] = s.cbs_map[t]
      <4>1. e.cbs_map[t] = s.cbs_map[t] \/ e.cbs_map[t].remaining = Budget
        BY <1>1, <1>3, ReplenishFields, Zenon DEF e
      <4>2. Budget # 0
        BY BpfAssumption DEF BpfAssumption
      <4> QED
        BY <2>4, <4>1, <4>2, Zenon
    <3> QED
      BY <1>1, <2>1, <2>2, <2>3, <2>4, <3>1, <3>2, Zenon DEF Promoted
  <2>5. CASE e.cbs_map[t].remaining # 0
    <3>1. /\ m \in States
          /\ SameMeta(e, m) /\ SameCbs(e, m) /\ SameSlice(e, m) /\ SameKicked(e, m)
          /\ In(m, "THROTTLED") = In(e, "THROTTLED") \ {t} /\ In(m, "CBS") = In(e, "CBS") \cup {t}
          /\ \A p \in Queues : p # "THROTTLED" /\ p # "CBS" => In(m, p) = In(e, p)
      BY <1>1, <2>3, MoveFields
    <3> HIDE DEF m
    <3>2. Good(m, on, {})
      <4>1. t \in In(e, "THROTTLED") \cup In(e, "CBS") /\ "CBS" \in Queues \ {"THROTTLED"}
        BY <1>1, <2>3, Zenon DEF SameQueues, In
      <4>2. e.cbs_map[t].remaining > 0
        BY <1>1, <2>3, <2>5, EntryType
      <4> QED
        BY <1>1, <2>2, <3>1, <4>1, <4>2, MoveGood, Zenon
    <3>3. /\ k \in States
          /\ SameMeta(m, k) /\ SameCbs(m, k) /\ SameSlice(m, k) /\ SameKicked(m, k)
          /\ SameQueues(m, k)
      BY <3>1, KickIdleFields, Zenon
    <3> HIDE DEF k
    <3> QED
      <4>1. Good(k, on, {})
        BY <3>2, <3>3, GoodFrame, Zenon
      <4>2. /\ SameMeta(s, k) /\ SameSlice(s, k) /\ SameKicked(s, k)
            /\ \A u \in CbsTasks : u # t => k.cbs_map[u] = s.cbs_map[u]
        BY <2>3, <3>1, <3>3, Zenon DEF SameMeta, SameSlice, SameKicked, SameCbs
      <4>3. /\ In(k, "THROTTLED") = In(s, "THROTTLED") \ {t} /\ In(k, "CBS") = In(s, "CBS") \cup {t}
            /\ \A p \in Queues : p # "THROTTLED" /\ p # "CBS" => In(k, p) = In(s, p)
        BY <2>3, <3>1, <3>3, Zenon DEF SameQueues, In
      <4> QED
        BY <2>1, <2>5, <4>1, <4>2, <4>3 DEF Promoted
  <2> QED
    BY <2>4, <2>5, Zenon
<1> QED
  BY <1>2, <1>3, Zenon

\* promote_throttled_if_replenished looks at one throttled task after the other.
LEMMA PromoteGood ==
  ASSUME NEW s, NEW on, Good(s, on, {}), NEW c, BpfAssumption
  PROVE  Promoted(s, promote_throttled_if_replenished(s, c), on)
<1> DEFINE q == s.dsq["THROTTLED"]
           N == IF Len(q) < PROMOTE_BUDGET THEN Len(q) ELSE PROMOTE_BUDGET
           A == {r \in States : Promoted(s, r, on)}
           Step(a, i) == PromoteOne(a, q[i], c)
           F == [x \in A \X (1..N) |-> Step(x[1], x[2])]
           Eq(g) == g = [i \in 0..N |-> IF i = 0 THEN s ELSE Step(g[i - 1], i)]
<1>1. N \in Nat /\ \A i \in 1..N : q[i] \in In(s, "THROTTLED")
  BY DEF In, Elems
<1>2. s \in A
  BY Zenon DEF Promoted, SameMeta, SameSlice, SameKicked, Good
<1>3. ASSUME NEW a \in A, NEW i \in 1..N PROVE Step(a, i) \in A
  <2> DEFINE r == PromoteOne(a, q[i], c)
  <2>1. Promoted(s, a, on) /\ Good(a, on, {})
    BY Zenon DEF Promoted
  <2> HIDE DEF q
  <2>2. Promoted(a, r, on)
    BY <1>1, PromoteOneGood, Zenon DEF Promoted
  <2> HIDE DEF r
  <2>3. Promoted(s, r, on)
    <3>1. /\ In(s, "CBS") \cup In(s, "THROTTLED") \subseteq In(r, "CBS") \cup In(r, "THROTTLED")
          /\ In(r, "CBS") \cup In(r, "THROTTLED") \subseteq In(s, "CBS") \cup In(s, "THROTTLED")
          /\ In(a, "CBS") \cup In(a, "THROTTLED") \subseteq In(s, "CBS") \cup In(s, "THROTTLED")
      BY <2>2, Zenon DEF Promoted
    <3>2. ASSUME In(r, "CBS") = {}, NEW u \in CbsTasks PROVE r.cbs_map[u] = s.cbs_map[u]
      BY <2>2, <3>2, Zenon DEF Promoted
    <3> QED
      BY <2>2, Zenon DEF Promoted, SameMeta, SameSlice, SameKicked
  <2> QED
    BY <2>3, Zenon DEF r, Promoted, Good
<1>4. F \in [A \X (1..N) -> A]
  <2> HIDE DEF A, N, Step
  <2> QED
    BY <1>3, Zenon
<1>5. \A a \in A, n \in 1..N : F[<<a, n>>] = Step(a, n)
  <2> HIDE DEF Step, A, N
  <2> QED
    OBVIOUS
<1>6. \A f : Eq(f) => f[0] = s /\ \A n \in 1..N : f[n] = Step(f[n - 1], n)
  <2> HIDE DEF Step, A, N
  <2> QED
    BY <1>1
<1>7. \A f \in [0..N -> A] : f[0] = s /\ (\A n \in 1..N : f[n] = Step(f[n - 1], n)) => Eq(f)
  <2> HIDE DEF Step, A, N
  <2> QED
    OBVIOUS
<1> HIDE DEF A, N, F
<1>8. PICK g : Solves(g, A, N, s, F)
  BY <1>1, <1>2, <1>4, Recursion, Zenon DEF StepOf
<1> HIDE DEF Step
<1>9. ASSUME NEW n \in 1..N PROVE g[n] = Step(g[n - 1], n)
  <2>1. n - 1 \in 0..N /\ g[n - 1] \in A
    BY <1>1, <1>8 DEF Solves
  <2> QED
    BY <1>5, <1>8, <2>1, Zenon DEF Solves
<1> HIDE DEF Eq
<1> DEFINE u == CHOOSE f : Eq(f)
<1>10. Eq(u)
  BY <1>1, <1>7, <1>8, <1>9, Zenon DEF Solves
<1>11. promote_throttled_if_replenished(s, c) = u[N]
  BY Zenon DEF promote_throttled_if_replenished, Eq, Step, N
<1> HIDE DEF u
<1> DEFINE T == {n \in Nat : n <= N => u[n] \in A}
<1>12. 0 \in T
  BY <1>2, <1>6, <1>10, Zenon
<1>13. ASSUME NEW n \in Nat, n \in T PROVE n + 1 \in T
  <2> SUFFICES ASSUME n + 1 <= N PROVE u[n + 1] \in A
    OBVIOUS
  <2> QED
    BY <1>1, <1>3, <1>6, <1>10, <1>13
<1> HIDE DEF T
<1>14. N \in T
  BY <1>1, <1>12, <1>13, Induction, Zenon
<1> QED
  BY <1>11, <1>14 DEF A, T

\* Balance: a CPU looks for a task in its own queue, in the global one and then
\* in the queues of CBS tasks, in these only when no TT task is active on it.
LEMMA BalanceGood ==
  ASSUME NEW s, NEW on, Good(s, on, {}), NEW c \in Cpus, BpfAssumption
  PROVE  LET b == Balance(s, c)
         IN  /\ Good(b, on, {})
             /\ SameMeta(s, b) /\ SameSlice(s, b) /\ SameKicked(s, b)
             /\ \A d \in Cpus : d # c => In(b, d) = In(s, d)
             /\ \A t \in CbsTasks : (\E d \in Cpus : on[d] = t) => b.cbs_map[t] = s.cbs_map[t]
             /\ s.dsq[c] # <<>> => b = s
             /\ b.dsq[c] # <<>> => In(b, c) \ {Head(b.dsq[c])} \subseteq In(s, c)
             /\ b.dsq[c] = <<>> => \A t \in CbsTasks : b.cbs_map[t] = s.cbs_map[t]
             /\ tt_active_on_cpu(s, c) => In(b, c) \subseteq In(s, c) \cup In(s, "GLOBAL")
<1> DEFINE b == Balance(s, c)
           Same == SameMeta(s, b) /\ SameSlice(s, b) /\ SameKicked(s, b)
<1>1. /\ s \in States /\ OnePlace(s, on)
      /\ c \in Queues /\ c \notin Shared
      /\ Cpus \subseteq Queues /\ \A d \in Cpus : d \notin Shared
      /\ "GLOBAL" \in Queues /\ "CBS" \in Queues /\ "THROTTLED" \in Queues
      /\ "GLOBAL" \in Shared /\ "CBS" \in Shared /\ "THROTTLED" \in Shared
  BY Zenon DEF Good, Queues, Shared, BpfAssumption
<1>2. ASSUME b = s
      PROVE  /\ Good(b, on, {}) /\ Same
             /\ b.dsq[c] # <<>> => In(b, c) \ {Head(b.dsq[c])} \subseteq In(s, c)
  BY <1>2, Zenon DEF SameMeta, SameSlice, SameKicked
<1>3. CASE s.dsq[c] # <<>> \/ (s.dsq["GLOBAL"] = <<>> /\ tt_active_on_cpu(s, c))
  <2>1. b = s
    BY <1>3, Zenon DEF Balance, dispatch
  <2> QED
    BY <1>2, <2>1, Zenon
  \* A task x moves from the head of queue q to the empty queue of c.
<1>4. ASSUME NEW e, Promoted(s, e, on), NEW q \in {"GLOBAL", "CBS"}, e.dsq[q] # <<>>,
             s.dsq[c] = <<>>, q = "CBS" => ~tt_active_on_cpu(s, c),
             b = Move(e, Head(e.dsq[q]), q, c),
             q = "GLOBAL" => e = s
      PROVE  /\ Good(b, on, {}) /\ Same
             /\ \A d \in Cpus : d # c => In(b, d) = In(s, d)
             /\ \A t \in CbsTasks : (\E d \in Cpus : on[d] = t) => b.cbs_map[t] = s.cbs_map[t]
             /\ b.dsq[c] # <<>> => In(b, c) \ {Head(b.dsq[c])} \subseteq In(s, c)
             /\ b.dsq[c] # <<>>
             /\ tt_active_on_cpu(s, c) => In(b, c) \subseteq In(s, c) \cup In(s, "GLOBAL")
  <2> DEFINE x == Head(e.dsq[q])
  <2>1. /\ e \in States /\ Good(e, on, {}) /\ q \in Queues /\ q # c /\ q \notin Cpus
        /\ SameMeta(s, e) /\ SameSlice(s, e) /\ SameKicked(s, e)
        /\ \A d \in Cpus : In(e, d) = In(s, d)
        /\ \A u \in CbsTasks \ (In(s, "CBS") \cup In(s, "THROTTLED")) : e.cbs_map[u] = s.cbs_map[u]
    BY <1>1, <1>4, Zenon DEF Promoted, Good, Shared
  <2>2. x \in In(e, q) /\ In(e, q) \subseteq Tasks /\ In(e, c) = {} /\ e.dsq[c] = <<>>
    BY <1>1, <1>4, <2>1, InType, Zenon
  <2> HIDE DEF x
  <2>3. /\ b \in States
        /\ SameMeta(e, b) /\ SameCbs(e, b) /\ SameSlice(e, b) /\ SameKicked(e, b)
        /\ In(b, q) = In(e, q) \ {x} /\ In(b, c) = In(e, c) \cup {x}
        /\ \A p \in Queues : p # q /\ p # c => In(b, p) = In(e, p)
        /\ b.dsq[c] = Append(e.dsq[c], x)
    <3> DEFINE y == Move(e, x, q, c)
    <3>1. b = y
      BY <1>4, Zenon DEF x
    <3>2. /\ y \in States
          /\ SameMeta(e, y) /\ SameCbs(e, y) /\ SameSlice(e, y) /\ SameKicked(e, y)
          /\ In(y, q) = In(e, q) \ {x} /\ In(y, c) = In(e, c) \cup {x}
          /\ \A p \in Queues : p # q /\ p # c => In(y, p) = In(e, p)
          /\ y.dsq[c] = Append(e.dsq[c], x)
      <4>1. x \in Tasks /\ q \in Queues /\ c \in Queues /\ q # c /\ e \in States
        BY <1>1, <2>1, <2>2, Zenon
      <4> QED
        BY <4>1, MoveFields
    <3> HIDE DEF y, b
    <3> QED
      BY <3>1, <3>2, Zenon
  <2> HIDE DEF b
  <2>4. x \in CbsTasks \ hit /\ HasMeta(e, x) /\ HasCbs(e, x) => e.cbs_map[x].remaining > 0
    <3>1. Waits(e, x)
      BY <2>1, <2>2, Zenon DEF Waits
    <3> QED
      BY <2>1, <3>1, Zenon DEF Good, BudgetKept, Sound
  <2>5. Good(b, on, {})
    <3>1. /\ q \in {"CBS", "THROTTLED", "GLOBAL"} /\ c \in Queues \ {"THROTTLED"}
          /\ x \in In(e, q) \cup In(e, c) /\ (c = "CBS" => x \in CbsTasks)
      BY <1>1, <2>1, <2>2, Zenon DEF Shared, BpfAssumption
    <3> QED
      BY <2>1, <2>3, <2>4, <3>1, MoveGood
  <2>6. tt_active_on_cpu(s, c) => In(b, c) \subseteq In(s, c) \cup In(s, "GLOBAL")
    BY <1>4, <2>2, <2>3, Zenon
  <2> QED
    BY <1>1, <2>1, <2>2, <2>3, <2>5, <2>6 DEF SameCbs, SameMeta, SameSlice, SameKicked,
       OnePlace
<1>5. CASE s.dsq[c] = <<>> /\ s.dsq["GLOBAL"] # <<>>
  <2> HIDE DEF b
  <2> QED
    BY <1>4, <1>5, Zenon DEF b, Promoted, SameMeta, SameSlice, SameKicked, Balance
<1>6. CASE s.dsq[c] = <<>> /\ s.dsq["GLOBAL"] = <<>> /\ ~tt_active_on_cpu(s, c)
  <2> DEFINE e == promote_throttled_if_replenished(s, c)
  <2>1. b = IF e.dsq["CBS"] = <<>> THEN e ELSE Move(e, Head(e.dsq["CBS"]), "CBS", c)
    BY <1>6, Zenon DEF Balance, dispatch
  <2>2. Promoted(s, e, on)
    BY PromoteGood, Zenon
  <2> HIDE DEF e
  <2>3. CASE e.dsq["CBS"] = <<>>
    <3> HIDE DEF b
    <3> QED
      BY <1>1, <1>6, <2>1, <2>2, <2>3, InType, Zenon DEF Promoted, b, Good, Shared
  <2>4. CASE e.dsq["CBS"] # <<>>
    <3> HIDE DEF b
    <3> QED
      BY <1>4, <1>6, <2>1, <2>2, <2>4, Zenon DEF b
  <2> QED
    BY <2>3, <2>4, Zenon
<1> QED
  BY <1>3, <1>5, <1>6, Zenon

\* The budget that is filled depends on the map of budgets only.
LEMMA ReplenishAlike ==
  ASSUME NEW s \in States, NEW x \in States, SameCbs(s, x), NEW t \in CbsTasks
  PROVE  SameCbs(cbs_lazy_replenish(s, t), cbs_lazy_replenish(x, t))
<1> DEFINE b == s.cbs_map[t]
           n == [remaining |-> Budget, exec |-> b.exec, due |-> NextDue(b.due)]
           m == [s.cbs_map EXCEPT ![t] = n]
<1>1. CASE b.due > 0
  BY DEF cbs_lazy_replenish, SameCbs
<1>2. CASE ~(b.due > 0)
  <2> HIDE DEF m
  <2> QED
    BY DEF SameCbs, cbs_lazy_replenish
<1> QED
  BY <1>1, <1>2, Zenon

\* What Start changes before the callback.
Taken(s, t, c) == WithSlice(WithQueue(s, c, Without(s.dsq[c], t)), c, SCX_SLICE_DFL)

\* It takes t from the queue of c and sets the slice of c, nothing else.
LEMMA TakenFields ==
  ASSUME NEW s \in States, NEW t \in Tasks, NEW c \in Cpus, BpfAssumption
  PROVE  LET x == Taken(s, t, c)
         IN  /\ x \in States
             /\ SameMeta(s, x) /\ SameCbs(s, x) /\ SameKicked(s, x)
             /\ QueueNow(s, x, c, In(s, c) \ {t})
             /\ \A d \in Cpus : d # c => x.slice[d] = s.slice[d]
<1> DEFINE a == Without(s.dsq[c], t)
           y == WithQueue(s, c, a)
           x == WithSlice(y, c, SCX_SLICE_DFL)
<1>1. s.dsq[c] \in Seq(Tasks) /\ c \in Queues /\ SCX_SLICE_DFL \in Int
  BY DEF States, Queues, BpfAssumption
<1>2. a \in Seq(Tasks) /\ Elems(a) = In(s, c) \ {t}
  BY <1>1, WithoutElems, Zenon DEF In
<1> HIDE DEF a
<1>3. /\ y \in States
      /\ SameMeta(s, y) /\ SameCbs(s, y) /\ SameSlice(s, y) /\ SameKicked(s, y)
      /\ QueueNow(s, y, c, Elems(a))
  BY <1>1, <1>2, SetQueue, Zenon
<1> HIDE DEF y
<1>4. /\ x \in States
      /\ SameMeta(y, x) /\ SameCbs(y, x) /\ SameQueues(y, x) /\ SameKicked(y, x)
      /\ \A d \in Cpus : d # c => x.slice[d] = y.slice[d]
  BY <1>3, SetSlice
<1> HIDE DEF x
<1> QED
  BY <1>2, <1>3, <1>4, Zenon DEF x, y, a, Taken, QueueNow, SameQueues, In, SameMeta, SameCbs,
     SameKicked, SameSlice

\* Start runs it from there.
LEMMA StartTaken ==
  ASSUME NEW s \in States, NEW t, NEW c, NEW w
  PROVE  Start(s, t, c, w) = running(Taken(s, t, c), t, c, w)
<1> QED
  BY Zenon DEF Start, Taken, WithSlice, WithQueue

\* Start: a CPU without a task runs one of its queue.
LEMMA StartGood ==
  ASSUME NEW s, NEW on, Good(s, on, {}), NEW c \in Cpus, on[c] = None, NEW t \in In(s, c),
         NEW w \in us_until_next_tt, BpfAssumption
  PROVE  LET r == Start(s, t, c, w)
         IN  /\ Good(r, Now(on, c, t), {})
             /\ SameMeta(s, r) /\ SameKicked(s, r)
             /\ QueueNow(s, r, c, In(s, c) \ {t})
<1> DEFINE x == Taken(s, t, c)
           r == Start(s, t, c, w)
           o == Now(on, c, t)
<1>1. /\ s \in States /\ on \in Running /\ OnePlace(s, on) /\ c \in Queues
      /\ Cpus \subseteq Queues /\ None \notin Tasks /\ Budget \in Nat
      /\ st \in States /\ used \in [CbsTasks -> Nat]
      /\ CbsTasks \subseteq Tasks
  BY Zenon DEF Good, Queues, BpfAssumption, Tasks
<1>2. t \in Tasks /\ Off(on, t)
  <2>1. t \in Tasks
    BY <1>1, InType, Zenon
  <2> QED
    BY <1>1, <2>1, Zenon DEF OnePlace, Off
<1>3. o \in Running /\ o[c] = t /\ \A d \in Cpus : d # c => o[d] = on[d]
  BY <1>1, <1>2, NowOn
<1> HIDE DEF o
<1>4. /\ x \in States
      /\ SameMeta(s, x) /\ SameCbs(s, x) /\ SameKicked(s, x)
      /\ QueueNow(s, x, c, In(s, c) \ {t})
      /\ \A d \in Cpus : d # c => x.slice[d] = s.slice[d]
  <2>1. s \in States /\ t \in Tasks
    BY <1>1, <1>2, Zenon
  <2> QED
    BY <2>1, TakenFields, Zenon
<1>5. r = running(x, t, c, w)
  BY <1>1, StartTaken
<1> HIDE DEF x, r
<1> DEFINE e == cbs_lazy_replenish(s, t)
           Clocked == /\ t \in CbsTasks /\ HasMeta(s, t) /\ HasCbs(s, t)
                      /\ HasCbs(r, t)
                      /\ r.cbs_map[t].exec = 0
                      /\ r.cbs_map[t].remaining = e.cbs_map[t].remaining
                      /\ r.cbs_map[t].due = e.cbs_map[t].due
                      /\ e.cbs_map[t].remaining > 0 => r.slice[c] \in 1..(r.cbs_map[t].remaining)
           Unclocked == /\ t \in TtTasks \/ ~HasMeta(s, t) \/ ~HasCbs(s, t)
                        /\ r.cbs_map = s.cbs_map
           Others == /\ r \in States
                     /\ SameMeta(s, r) /\ SameKicked(s, r)
                     /\ QueueNow(s, r, c, In(s, c) \ {t})
                     /\ \A u \in CbsTasks : u # t => r.cbs_map[u] = s.cbs_map[u]
                     /\ \A d \in Cpus : d # c => r.slice[d] = s.slice[d]
<1>6. Others /\ (Clocked \/ Unclocked)
  <2>1. CASE t \in TtTasks \/ ~HasMeta(s, t) \/ ~HasCbs(s, t)
    <3> HIDE DEF e
    <3> QED
      BY <1>4, <1>5, <2>1, Zenon DEF SameCbs, running, SameMeta, HasMeta, HasCbs
  <2>2. CASE t \notin TtTasks /\ HasMeta(s, t) /\ HasCbs(s, t)
    <3> DEFINE f == cbs_lazy_replenish(x, t)
    <3>1. ClockStarted(x, r, t, c, f)
      <4>1. t \in CbsTasks /\ HasMeta(x, t) /\ HasCbs(x, t)
        BY <1>2, <1>4, <2>2, Zenon DEF Tasks, SameMeta, SameCbs, HasMeta, HasCbs
      <4>2. ClockStarted(x, running(x, t, c, w), t, c, f)
        BY <1>4, <4>1, RunningFields, Zenon
      <4> HIDE DEF f
      <4> QED
        BY <1>5, <4>2, Zenon
    <3>2. f.cbs_map = e.cbs_map
      BY <1>1, <1>2, <1>4, <2>2, ReplenishAlike DEF SameCbs, Tasks
    <3> HIDE DEF f, e
    <3> QED
      <4>1. /\ SameMeta(s, r) /\ SameKicked(s, r) /\ QueueNow(s, r, c, In(s, c) \ {t})
        BY <1>4, <3>1, Zenon DEF ClockStarted, QueueNow, SameQueues, In, SameMeta, SameKicked
      <4> QED
        BY <1>2, <1>4, <2>2, <3>1, <3>2, <4>1, Zenon DEF ClockStarted, SameCbs, Tasks
  <2> QED
    BY <2>1, <2>2, Zenon
<1>7. OnePlace(r, o)
  BY <1>1, <1>3, <1>6 DEF OnePlace, Queues, Shared, QueueNow
<1>8. MarksKept(r, o, {})
  <2>1. ASSUME NEW u \in TtTasks, NEW d \in Cpus, on[d] = u \/ u \in In(s, d)
        PROVE  o[d] = u \/ u \in In(r, d)
    BY <1>1, <1>3, <1>6, <2>1, Zenon DEF QueueNow, Tasks
  <2>2. ASSUME NEW u \in TtTasks, Nowhere(s, on, u) PROVE Nowhere(r, o, u)
    <3>1. u # t
      BY <1>1, <2>2, Zenon DEF Nowhere
    <3>2. Off(o, u)
      BY <1>3, <2>2, <3>1, Zenon DEF Nowhere, Off
    <3> QED
      BY <1>6, <2>2, <3>2, Zenon DEF Nowhere, QueueNow
  <2> QED
    BY <1>6, <2>1, <2>2, MarksFrame, Zenon DEF Good
<1>9. ASSUME NEW u \in CbsTasks \ hit, u # t
      PROVE  Sound(r, o, u, UsedIn(r, u), KeptIn(r, u))
  <2>1. Waits(r, u) => Waits(s, u)
    BY <1>6, Zenon DEF QueueNow, Waits
  <2>2. \A d \in Cpus : o[d] = u <=> on[d] = u
    BY <1>1, <1>3, <1>9, Zenon
  <2>3. /\ r.cbs_map[u] = s.cbs_map[u] /\ r.task_meta[u] = s.task_meta[u]
        /\ \A d \in Cpus : on[d] = u => r.slice[d] = s.slice[d]
    BY <1>1, <1>6, <1>9, Zenon DEF SameMeta
  <2>4. Sound(s, on, u, UsedIn(s, u), KeptIn(s, u))
    BY <1>9, GoodSound, Zenon
  <2> QED
    BY <2>1, <2>2, <2>3, <2>4, SoundFrame
<1>10. ASSUME t \in CbsTasks \ hit, Unclocked
       PROVE  Sound(r, o, t, UsedIn(r, t), KeptIn(r, t))
  <2>1. Sound(s, on, t, UsedIn(s, t), KeptIn(s, t))
    BY <1>10, Zenon DEF Good, BudgetKept
  <2> QED
    BY <1>2, <1>6, <1>10, <2>1, Zenon DEF Sound, UsedIn, KeptIn, Filled, SameMeta, HasMeta, HasCbs
<1>11. ASSUME t \in CbsTasks \ hit, Clocked
       PROVE  Sound(r, o, t, UsedIn(r, t), KeptIn(r, t))
  <2>1. Good(e, on, {})
    BY <1>2, <1>11, ReplenishGood, Zenon
  <2>2. e \in States /\ HasCbs(e, t) /\ SameMeta(s, e) /\ SameQueues(s, e)
    BY <1>1, <1>11, ReplenishFields, Zenon
  <2> HIDE DEF e
  <2>3. Waits(e, t) /\ HasMeta(e, t)
    BY <1>1, <1>11, <2>2, Zenon DEF Waits, SameQueues, SameMeta, In, HasMeta, Shared
  <2>4. HasMeta(r, t) /\ HasCbs(r, t)
    BY <1>6, <1>11, Zenon DEF SameMeta, HasMeta
  <2>5. ASSUME ~KeptIn(r, t)
         PROVE  /\ UsedIn(r, t) <= Budget
                /\ UsedIn(r, t) - 0 + r.cbs_map[t].remaining <= Budget
                /\ r.slice[c] >= 0 /\ 0 + r.slice[c] <= r.cbs_map[t].remaining
    <3>1. Sound(e, on, t, UsedIn(e, t), KeptIn(e, t))
      BY <1>11, <2>1, GoodSound, Zenon
    <3>2. UsedIn(e, t) = UsedIn(r, t) /\ (KeptIn(e, t) <=> KeptIn(r, t))
      BY <1>11, Zenon DEF UsedIn, KeptIn, Filled
    <3>3. UsedIn(e, t) \in Nat
      BY <1>1, <1>11, Zenon DEF UsedIn
    <3>4. e.cbs_map[t].remaining \in -1..Budget
      BY <1>11, <2>2, EntryType, Zenon
    <3>5. e.cbs_map[t].exec = -1 /\ e.cbs_map[t].remaining > 0
      BY <1>2, <2>2, <2>3, <3>1, Zenon DEF Sound
    <3>6. UsedIn(e, t) <= Budget /\ UsedIn(e, t) + e.cbs_map[t].remaining <= Budget
      BY <2>5, <3>1, <3>2, <3>5 DEF Sound
    <3> QED
      BY <1>1, <1>11, <3>2, <3>3, <3>4, <3>5, <3>6
  <2>6. r.cbs_map[t].exec = 0 /\ r.cbs_map[t].remaining > 0 /\ o[c] = t
    BY <1>3, <1>11, <2>1, <2>2, <2>3, Zenon DEF Sound, Good, BudgetKept
  <2> HIDE DEF Clocked
  <2> QED
    BY <1>2, <1>3, <2>4, <2>5, <2>6 DEF Sound, Off
<1>12. BudgetKept(r, o)
  <2>1. ASSUME NEW u \in CbsTasks, r.cbs_map[u].due <= 0 PROVE st.cbs_map[u].due <= 0
    <3>1. CASE r.cbs_map[u].due = s.cbs_map[u].due
      BY <2>1, <3>1, Zenon DEF Good, BudgetKept
    <3>2. CASE u = t /\ Clocked
      <4>1. e.cbs_map[t].due \in Int /\ (e.cbs_map[t] = s.cbs_map[t] \/ e.cbs_map[t].due > 0)
        BY <1>1, <3>2, ReplenishFields, EntryType, Zenon
      <4> HIDE DEF e
      <4> QED
        BY <2>1, <3>1, <3>2, <4>1
    <3> HIDE DEF Clocked
    <3> QED
      BY <1>6, <3>1, <3>2, Zenon
  <2>2. ASSUME NEW u \in CbsTasks \ hit PROVE Sound(r, o, u, UsedIn(r, u), KeptIn(r, u))
    <3> HIDE DEF Clocked, Unclocked
    <3> QED
      BY <1>6, <1>9, <1>10, <1>11, Zenon
  <2> QED
    BY <2>1, <2>2, Zenon DEF BudgetKept
<1> QED
  BY <1>3, <1>6, <1>7, <1>8, <1>12, Zenon DEF Good, r, o

=============================================================================
