------------------------ MODULE BpfScheduler_proofs ------------------------
(* Proofs about BpfScheduler, for every value of its constants: what every step of
   the scheduler keeps, and the theorems. *)
EXTENDS BpfCallbacks_proofs

\* A slice is set on a CPU that runs no CBS task.
LEMMA SliceGood ==
  ASSUME NEW s, NEW on, Good(s, on, {}), NEW r \in States, NEW c \in Cpus, on[c] \notin CbsTasks,
         SameMeta(s, r), SameCbs(s, r), SameQueues(s, r),
         \A d \in Cpus : d # c => r.slice[d] = s.slice[d], BpfAssumption
  PROVE  Good(r, on, {})
<1>1. ASSUME NEW u \in CbsTasks \ hit PROVE Sound(r, on, u, UsedIn(r, u), KeptIn(r, u))
  BY SoundFrame DEF SameCbs, SameMeta, Waits, Good, BudgetKept, SameQueues, In
<1>2. MarksKept(r, on, {})
  BY SameFrame, Zenon DEF Good
<1> QED
  BY <1>1, <1>2, Zenon DEF Good, BudgetKept, SameCbs, OnePlace, SameQueues, In

\* The tasks of a queue, as the model writes them.
LEMMA InRange ==
  ASSUME NEW s \in States, NEW q \in Queues
  PROVE  Range(s.dsq[q]) = In(s, q)
BY DEF In, Elems, Range, States

\* enqueue, whatever the type of the task.
LEMMA EnqueueGood ==
  ASSUME NEW s, NEW on, NEW t \in Tasks, NEW X, X = {t} \cap TtTasks, Good(s, on, X),
         Nowhere(s, on, t), NEW m \in Collisions, hit \cap TtTasks = {} => m = Alone,
         BpfAssumption
  PROVE  LET r == enqueue(s, t, m)
         IN  /\ Good(r, on, {})
             /\ \A d \in Cpus : In(r, d) \subseteq In(s, d) \cup X
             /\ \A d \in Cpus : In(s, d) \subseteq In(r, d)
             /\ s.kicked \subseteq r.kicked
             /\ \A d \in Cpus : d \in r.kicked \/ MarkedOn(r, d) = MarkedOn(s, d)
             /\ t \in TtTasks /\ Marked(r, t) => Home(r, t) \in r.kicked
             /\ \A u \in Tasks : u # t => r.task_meta[u] = s.task_meta[u]
<1> DEFINE r == enqueue(s, t, m)
<1>1. CASE t \in TtTasks
  <2> HIDE DEF r
  <2> QED
    BY <1>1, EnqueueTtGood
<1>2. CASE t \in CbsTasks /\ t \notin TtTasks
  <2>1. X = {} /\ Good(s, on, {})
    BY <1>2, Zenon
  <2>2. /\ Good(r, on, {}) /\ SameMeta(s, r) /\ SameKicked(s, r)
        /\ \A c \in Cpus : In(r, c) = In(s, c)
    BY <1>2, <2>1, EnqueueCbsGood
  <2> HIDE DEF r
  <2> QED
    BY <1>2, <2>2, Zenon DEF SameMeta, SameKicked, MarkedOn, Marked, Home, r
<1> QED
  BY <1>1, <1>2, Zenon DEF Tasks

\* A task that stays runnable is taken from its CPU and enqueued again.
Put(s, t, c, m) == enqueue(stopping(s, t, c, TRUE), t, m)

\* A mark by another CPU, the only one that may collide, is the daemon's doing.
LEMMA MarksAlone ==
  ASSUME NEW s, NEW on, Good(s, on, {}), NEW c \in Cpus, NEW t \in Tasks, on[c] = t,
         NEW m \in Marks(s, t, c), BpfAssumption
  PROVE  m \in Collisions /\ (hit \cap TtTasks = {} => m = Alone)
<1>1. Alone \in Collisions
  BY DEF Alone, Collisions
<1>2. [count : 0..2, active : BOOLEAN] \subseteq Collisions
  BY DEF Collisions
<1>3. CASE ~Foreign(s, t, c)
  BY <1>1, <1>3, Zenon DEF Marks
<1>4. CASE Foreign(s, t, c)
  <2>1. m \in Collisions
    BY <1>2, <1>4, Zenon DEF Marks
  <2>2. /\ t \in TtTasks /\ Home(s, t) \in Isolated /\ Home(s, t) # c
        /\ Isolated \subseteq Cpus /\ Cpus \subseteq Queues
    BY <1>4, Zenon DEF Foreign, Home, BpfAssumption, Queues
  <2>3. ~Nowhere(s, on, t)
    BY Zenon DEF Nowhere, Off
  <2>4. ~Marked(s, t)
    <3>1. ASSUME Marked(s, t) PROVE on[Home(s, t)] = t \/ t \in In(s, Home(s, t))
      BY <2>2, <3>1, Zenon DEF Good, MarksKept
    <3>2. t # None /\ OnePlace(s, on)
      BY Zenon DEF BpfAssumption, Good
    <3> QED
      BY <2>2, <3>1, <3>2, Zenon DEF OnePlace
  <2>5. ~(hit \cap TtTasks = {})
    BY <2>2, <2>3, <2>4, Zenon DEF Good, MarksKept, Noticed, Told
  <2> QED
    BY <2>1, <2>5, Zenon
<1> QED
  BY <1>3, <1>4, Zenon

\* stopping and enqueue in a row keep the invariant, and a CBS task does not end
\* in the queue of a CPU.
LEMMA PutGood ==
  ASSUME NEW s, NEW on, Good(s, on, {}), NEW c \in Cpus, NEW t \in Tasks, on[c] = t,
         t \in CbsTasks => s.cbs_map[t] = st.cbs_map[t], NEW m \in Marks(s, t, c),
         BpfAssumption
  PROVE  LET r == Put(s, t, c, m)
         IN  /\ Good(r, Now(on, c, None), {})
             /\ \A d \in Cpus : In(r, d) \subseteq In(s, d) \cup TtTasks
             /\ In(r, c) \subseteq In(s, c) \cup {t}
             /\ \A d \in Cpus : In(s, d) \subseteq In(r, d)
             /\ s.kicked \subseteq r.kicked
             /\ \A d \in Cpus : d \in r.kicked \/ MarkedOn(r, d) = MarkedOn(s, d)
             /\ t \in TtTasks /\ Marked(r, t) => Home(r, t) \in r.kicked
             /\ \A u \in Tasks : u # t => r.task_meta[u] = s.task_meta[u]
<1>0. m \in Collisions /\ (hit \cap TtTasks = {} => m = Alone)
  BY MarksAlone
<1> DEFINE w == TRUE
           p == stopping(s, t, c, w)
           o == Now(on, c, None)
           X == {t} \cap TtTasks
           r == enqueue(p, t, m)
<1>1. /\ Good(p, o, X) /\ Nowhere(p, o, t)
      /\ SameMeta(s, p) /\ SameQueues(s, p) /\ SameKicked(s, p)
  <2>1. CASE t \in TtTasks
    <3>1. /\ Good(p, o, IF w THEN {t} ELSE {}) /\ Nowhere(p, o, t)
          /\ SameQueues(s, p) /\ SameKicked(s, p) /\ (w => SameMeta(s, p))
      BY <2>1, StopTtGood, Zenon
    <3> QED
      BY <2>1, <3>1, Zenon
  <2>2. CASE t \in CbsTasks /\ t \notin TtTasks
    <3>1. X = {}
      BY <2>2, Zenon
    <3> HIDE DEF w, X
    <3> QED
      BY <2>2, <3>1, StopCbsGood, Zenon
  <2> QED
    BY <2>1, <2>2, Zenon DEF Tasks
<1>2. X = {t} \cap TtTasks
  OBVIOUS
<1> HIDE DEF p, o, X
<1>3. /\ Good(r, o, {})
      /\ \A d \in Cpus : In(r, d) \subseteq In(p, d) \cup X
      /\ \A d \in Cpus : In(p, d) \subseteq In(r, d)
      /\ p.kicked \subseteq r.kicked
      /\ \A d \in Cpus : d \in r.kicked \/ MarkedOn(r, d) = MarkedOn(p, d)
      /\ t \in TtTasks /\ Marked(r, t) => Home(r, t) \in r.kicked
      /\ \A u \in Tasks : u # t => r.task_meta[u] = p.task_meta[u]
  BY <1>0, <1>1, <1>2, EnqueueGood
<1> HIDE DEF r
<1>4. /\ \A q : In(p, q) = In(s, q)
      /\ \A d : MarkedOn(p, d) = MarkedOn(s, d)
      /\ p.kicked = s.kicked /\ p.task_meta = s.task_meta
  BY <1>1, Zenon DEF SameQueues, SameMeta, SameKicked, In, MarkedOn, Marked, Home
<1> QED
  BY <1>2, <1>3, <1>4, Zenon DEF r, p, o, Put

-----------------------------------------------------------------------------
(* The steps *)

\* What holds of the state a step leads to, counted from the state before it,
\* holds of it counted from itself.
LEMMA Rebase ==
  ASSUME Good(st', curr', {}), hit' = hit,
         \A t \in CbsTasks : used'[t] = UsedIn(st', t) /\ (t \in kept' <=> KeptIn(st', t)),
         used' \in [CbsTasks -> Nat], BpfAssumption
  PROVE  Good(st, curr, {})'
<1>1. /\ st' \in States /\ curr' \in Running /\ OnePlace(st', curr') /\ MarksKept(st', curr', {})
      /\ BudgetKept(st', curr')
  BY Zenon DEF Good
<1>2. ASSUME NEW t \in CbsTasks
      PROVE  /\ ~Filled(st, t)' /\ UsedIn(st, t)' = UsedIn(st', t)
             /\ KeptIn(st, t)' <=> KeptIn(st', t)
  BY <1>1, EntryType DEF UsedIn, KeptIn, Filled
<1>3. ASSUME NEW t \in CbsTasks \ hit' PROVE Sound(st, curr, t, UsedIn(st, t), KeptIn(st, t))'
  BY <1>1, <1>2, Zenon DEF Sound, BudgetKept
<1> QED
  BY <1>3, Zenon DEF Good, BudgetKept, MarksKept, Counted, Noticed

\* Account keeps the history the invariant speaks of.
LEMMA Accounts ==
  ASSUME Account, used \in [CbsTasks -> Nat]
  PROVE  /\ \A t \in CbsTasks : used'[t] = UsedIn(st', t) /\ (t \in kept' <=> KeptIn(st', t))
         /\ used' \in [CbsTasks -> Nat]
<1> QED
  BY Zenon DEF Account, UsedIn, KeptIn, Filled

\* Pick: a CPU that runs nothing looks for a task in maps and queues s.
LEMMA PickKeeps ==
  ASSUME NEW s, NEW c \in Cpus, Good(s, Now(curr, c, None), {}), curr \in Running, BpfAssumption,
         In(s, c) \subseteq TtTasks, \A d \in Cpus \ {c} : TtFirst(s, curr, d),
         Pick(s, c), Account, hit' = hit
  PROVE  Inv' /\ (\A t \in TtTasks : st'.task_meta[t] = s.task_meta[t])
         /\ \A d \in Cpus : d # c => curr'[d] = curr[d]
<1> DEFINE b == Balance(s, c)
           on == Now(curr, c, None)
<1>1. on \in Running /\ on[c] = None /\ \A d \in Cpus : d # c => on[d] = curr[d]
  BY NowOn
<1>2. /\ Good(b, on, {})
      /\ SameMeta(s, b) /\ SameSlice(s, b) /\ SameKicked(s, b)
      /\ \A d \in Cpus : d # c => In(b, d) = In(s, d)
      /\ s.dsq[c] # <<>> => b = s
      /\ b.dsq[c] # <<>> => In(b, c) \ {Head(b.dsq[c])} \subseteq In(s, c)
  BY BalanceGood, Zenon
<1>3. \/ b.dsq[c] = <<>> /\ st' = [b EXCEPT !.slice[c] = 0] /\ curr' = on
      \/ /\ b.dsq[c] # <<>>
         /\ \E w \in us_until_next_tt : st' = Start(b, Head(b.dsq[c]), c, w)
         /\ curr' = [curr EXCEPT ![c] = Head(b.dsq[c])]
  BY Zenon DEF Pick, Now
<1> HIDE DEF b, on
<1>4. /\ b \in States /\ s \in States /\ c \in Queues /\ Cpus \subseteq Queues
      /\ used \in [CbsTasks -> Nat] /\ None \notin Tasks /\ TtTasks \subseteq Tasks
      /\ CbsTasks \subseteq Tasks /\ TtTasks \cap CbsTasks = {}
  BY <1>2, Zenon DEF Good, Queues, BpfAssumption, Tasks
<1>5. ASSUME Good(st', curr', {}), SameMeta(b, st'), SameKicked(b, st'),
             \A d \in Cpus : d # c => In(st', d) = In(b, d) /\ curr'[d] = curr[d],
             TtFirst(st', curr', c)
      PROVE  Inv' /\ (\A t \in TtTasks : st'.task_meta[t] = s.task_meta[t])
             /\ \A d \in Cpus : d # c => curr'[d] = curr[d]
  <2>1. ASSUME NEW d \in Cpus PROVE TtFirst(st', curr', d)
    <3>1. CASE d = c
      BY <1>5, <3>1, Zenon
    <3>2. CASE d # c
      BY <1>2, <1>5 DEF TtFirst, MarkedOn, Marked, Home, SameMeta, SameKicked
    <3> QED
      BY <3>1, <3>2, Zenon
  <2>2. ASSUME NEW d \in Cpus PROVE TtFirst(st, curr, d)'
    BY <2>1, Zenon DEF TtFirst, In, Elems, MarkedOn, Marked, Home
  <2> QED
    BY <1>2, <1>4, <1>5, <2>2, Accounts, Rebase, Zenon DEF Inv, SameMeta
<1>6. CASE b.dsq[c] = <<>> /\ st' = [b EXCEPT !.slice[c] = 0] /\ curr' = on
  <2> DEFINE zero == 0
             r == WithSlice(b, c, zero)
  <2>1. st' = r
    BY <1>6, Zenon DEF WithSlice
  <2>2. zero \in Int
    OBVIOUS
  <2> HIDE DEF zero
  <2>3. /\ r \in States
        /\ SameMeta(b, r) /\ SameCbs(b, r) /\ SameQueues(b, r) /\ SameKicked(b, r)
        /\ \A d \in Cpus : d # c => r.slice[d] = b.slice[d]
    BY <1>4, <2>2, SetSlice
  <2> HIDE DEF r
  <2>4. \A q : In(r, q) = In(b, q)
    BY <2>3, Zenon DEF SameQueues, In
  <2>5. TtFirst(r, on, c)
    BY <1>1, <1>4, <1>6, <2>4, InType, Zenon DEF TtFirst
  <2> QED
    <3>1. Good(r, on, {})
      BY <1>1, <1>2, <1>4, <2>3, SliceGood, Zenon
    <3> QED
      BY <1>1, <1>5, <1>6, <2>1, <2>3, <2>4, <2>5, <3>1, Zenon
<1>7. CASE /\ b.dsq[c] # <<>>
           /\ \E w \in us_until_next_tt : st' = Start(b, Head(b.dsq[c]), c, w)
           /\ curr' = [curr EXCEPT ![c] = Head(b.dsq[c])]
  <2> DEFINE t == Head(b.dsq[c])
  <2>1. PICK w \in us_until_next_tt : st' = Start(b, t, c, w)
    BY <1>7, Zenon
  <2>2. t \in In(b, c) /\ t \in Tasks
    BY <1>4, <1>7, InType, Zenon
  <2>3. In(b, c) \ {t} \subseteq In(s, c)
    BY <1>2, <1>7, Zenon
  <2>4. curr' = [curr EXCEPT ![c] = t]
    BY <1>7, Zenon
  <2> HIDE DEF t
  <2>5. /\ Good(st', Now(on, c, t), {})
        /\ SameMeta(b, st') /\ SameKicked(b, st')
        /\ QueueNow(b, st', c, In(b, c) \ {t})
    BY <1>1, <1>2, <2>1, <2>2, StartGood, Zenon
  <2>6. curr'[c] = t /\ \A d \in Cpus : d # c => curr'[d] = curr[d]
    BY <2>4, Zenon DEF Running
  <2>7. TtFirst(st', curr', c)
    <3>1. ASSUME t \in CbsTasks PROVE MarkedOn(st', c) = {}
      <4>1. In(s, c) = {}
        BY <1>2, <1>4, <2>2, <3>1, InType, Zenon
      <4>2. MarkedOn(s, c) = {}
        <5>1. ASSUME NEW u \in TtTasks, Marked(s, u), Home(s, u) = c PROVE FALSE
          BY <1>1, <1>4, <4>1, <5>1, Zenon DEF Good, MarksKept, on
        <5> QED
          BY <5>1, Zenon DEF MarkedOn
      <4> QED
        BY <1>2, <2>5, <4>2, Zenon DEF SameMeta, MarkedOn, Marked, Home
    <3> QED
      BY <2>3, <2>5, <2>6, <3>1, Zenon DEF TtFirst, QueueNow
  <2> QED
    BY <2>2, <2>5 DEF Now, on, Running
<1> QED
  BY <1>3, <1>6, <1>7, Zenon

\* A CPU answers the request to schedule.
LEMMA AnsweredKeeps ==
  ASSUME Inv, NEW c \in Cpus, BpfAssumption
  PROVE  LET s == Answered(c)
         IN  /\ Good(s, curr, {})
             /\ SameMeta(st, s) /\ SameCbs(st, s) /\ SameQueues(st, s) /\ SameSlice(st, s)
             /\ In(s, c) \subseteq TtTasks
             /\ \A d \in Cpus \ {c} : TtFirst(s, curr, d)
<1> DEFINE s == Answered(c)
<1> HIDE DEF s
<1> QED
  BY GoodFrame, AnsweredFields DEF TtFirst, SameQueues, SameMeta, In, MarkedOn, Marked, Home, Inv,
     Good

\* Schedule keeps the invariant: dispatch fills the queue of an idle CPU if it is
\* empty, and the first task of the queue starts.
LEMMA ScheduleStep ==
  ASSUME Inv, NEW c \in Cpus, Schedule(c), BpfAssumption
  PROVE  Inv' /\ \A d \in Cpus : d # c => curr'[d] = curr[d]
<1> DEFINE s == Answered(c)
<1>1. /\ Good(s, curr, {}) /\ In(s, c) \subseteq TtTasks
      /\ \A d \in Cpus \ {c} : TtFirst(s, curr, d)
  BY AnsweredKeeps, Zenon
<1>2. curr \in Running /\ curr[c] = None /\ Pick(s, c) /\ Account /\ hit' = hit
  BY <1>1, Zenon DEF Good, Schedule
<1> HIDE DEF s
<1> QED
  BY <1>1, <1>2, PickKeeps DEF Now, Running

\* A task that blocks is no longer flagged.
LEMMA BlockStep ==
  ASSUME Inv, NEW c \in Cpus, Block(c), BpfAssumption
  PROVE  /\ Inv'
         /\ curr[c] \in TtTasks => ~Marked(st', curr[c])
         /\ \A d \in Cpus : d # c => curr'[d] = curr[d]
<1> DEFINE a == Answered(c)
           t == curr[c]
           w == FALSE
           s == stopping(a, t, c, w)
           on == Now(curr, c, None)
<1>1. /\ Good(a, curr, {})
      /\ SameMeta(st, a) /\ SameCbs(st, a) /\ SameQueues(st, a)
      /\ In(a, c) \subseteq TtTasks
      /\ \A d \in Cpus \ {c} : TtFirst(a, curr, d)
  BY AnsweredKeeps, Zenon
<1>2. curr \in Running /\ t \in Tasks /\ Pick(s, c) /\ Account /\ hit' = hit
  BY <1>1, Zenon DEF Good, Running, Block
<1> HIDE DEF a
<1>3. w \in BOOLEAN /\ ~w
  OBVIOUS
<1> HIDE DEF t, w
<1>4. /\ Good(s, on, {})
      /\ SameQueues(a, s) /\ SameKicked(a, s)
      /\ \A d \in Cpus : MarkedOn(s, d) \subseteq MarkedOn(a, d)
      /\ t \in TtTasks => ~Marked(s, t)
  <2>1. CASE t \in TtTasks
    <3>1. /\ Good(s, on, IF w THEN {t} ELSE {})
          /\ SameQueues(a, s) /\ SameKicked(a, s)
          /\ \A d \in Cpus : MarkedOn(s, d) \subseteq MarkedOn(a, d)
          /\ ~w => ~Marked(s, t)
      BY <1>1, <1>3, <2>1, StopTtGood, Zenon DEF t
    <3> HIDE DEF s, on
    <3> QED
      BY <1>3, <3>1, Zenon
  <2>2. CASE t \in CbsTasks /\ t \notin TtTasks
    <3>1. Good(s, on, {}) /\ SameMeta(a, s) /\ SameQueues(a, s) /\ SameKicked(a, s)
      BY <1>1, <2>2, StopCbsGood, Zenon DEF t, SameCbs
    <3> HIDE DEF s, on
    <3> QED
      BY <2>2, <3>1, Zenon DEF SameMeta, MarkedOn, Marked, Home
  <2> QED
    BY <1>2, <2>1, <2>2, Zenon DEF Tasks
<1> HIDE DEF s
<1> QED
  BY <1>1, <1>2, <1>4, PickKeeps DEF t, Marked, TtFirst, SameQueues, SameKicked, In

\* A TT task that keeps its flag loses the CPU to no task of the CBS queues.
LEMMA SwitchStep ==
  ASSUME Inv, NEW c \in Cpus, curr[c] # None, Switch(Balance(Answered(c), c), c), hit' = hit,
         BpfAssumption
  PROVE  /\ Inv'
         /\ curr[c] \in MarkedOn(st, c) /\ st.collided = FALSE =>
              curr'[c] \notin In(st, "CBS") \cup In(st, "THROTTLED")
         /\ \A d \in Cpus : d # c => curr'[d] = curr[d]
<1> DEFINE a == Answered(c)
           b == Balance(a, c)
           t == curr[c]
           on == Now(curr, c, None)
           h == Head(b.dsq[c])
<1>1. /\ Good(a, curr, {})
      /\ SameMeta(st, a) /\ SameCbs(st, a) /\ SameQueues(st, a)
      /\ In(a, c) \subseteq TtTasks
      /\ \A d \in Cpus \ {c} : TtFirst(a, curr, d)
  BY AnsweredKeeps, Zenon
<1>2. /\ b.dsq[c] # <<>> /\ Account
      /\ \E m \in Marks(b, t, c), w \in us_until_next_tt : st' = Start(Put(b, t, c, m), h, c, w)
      /\ curr' = [curr EXCEPT ![c] = h]
  BY Zenon DEF Switch, Put
<1>3. curr \in Running /\ t \in Tasks /\ used \in [CbsTasks -> Nat] /\ st \in States
  BY <1>1, Zenon DEF Good, Running
<1> HIDE DEF a
<1>4. /\ Good(b, curr, {})
      /\ SameMeta(a, b) /\ SameKicked(a, b)
      /\ \A d \in Cpus : d # c => In(b, d) = In(a, d)
      /\ \A u \in CbsTasks : (\E d \in Cpus : curr[d] = u) => b.cbs_map[u] = a.cbs_map[u]
      /\ a.dsq[c] # <<>> => b = a
      /\ b.dsq[c] # <<>> => In(b, c) \ {Head(b.dsq[c])} \subseteq In(a, c)
      /\ tt_active_on_cpu(a, c) => In(b, c) \subseteq In(a, c) \cup In(a, "GLOBAL")
  BY <1>1, BalanceGood
<1> HIDE DEF b
<1>pick. PICK m \in Marks(b, t, c) : \E w \in us_until_next_tt : st' = Start(Put(b, t, c, m), h, c, w)
  BY <1>2, Zenon
<1> DEFINE put == Put(b, t, c, m)
<1>5. /\ Good(put, on, {})
      /\ \A d \in Cpus : In(put, d) \subseteq In(b, d) \cup TtTasks
      /\ In(put, c) \subseteq In(b, c) \cup {t}
      /\ \A d \in Cpus : In(b, d) \subseteq In(put, d)
      /\ b.kicked \subseteq put.kicked
      /\ \A d \in Cpus : d \in put.kicked \/ MarkedOn(put, d) = MarkedOn(b, d)
      /\ t \in TtTasks /\ Marked(put, t) => Home(put, t) \in put.kicked
      /\ \A u \in Tasks : u # t => put.task_meta[u] = b.task_meta[u]
  <2>1. curr[c] = t
    OBVIOUS
  <2> HIDE DEF t
  <2> QED
    <3>1. t \in CbsTasks => b.cbs_map[t] = st.cbs_map[t]
      BY <1>1, <1>4, <2>1, Zenon DEF SameCbs
    <3> QED
      BY <1>3, <1>4, <2>1, <3>1, PutGood
<1> HIDE DEF put
<1>6. /\ a \in States /\ b \in States /\ c \in Queues /\ Cpus \subseteq Queues
      /\ None \notin Tasks /\ TtTasks \subseteq Tasks /\ CbsTasks \subseteq Tasks
      /\ TtTasks \cap CbsTasks = {}
  BY <1>1, <1>4, Zenon DEF Good, Queues, BpfAssumption, Tasks
<1>7. h \in In(b, c) /\ h \in In(put, c) /\ h \in Tasks /\ In(b, c) \ {h} \subseteq In(a, c)
  <2>1. h \in In(b, c) /\ h \in Tasks
    BY <1>2, <1>6, InType, Zenon
  <2> QED
    BY <1>2, <1>4, <1>5, <2>1, Zenon
<1>8. on[c] = None /\ \A d \in Cpus : d # c => on[d] = curr[d]
  BY <1>3, NowOn
<1> HIDE DEF h, on
<1>9. PICK w \in us_until_next_tt : st' = Start(put, h, c, w)
  BY <1>pick, Zenon DEF put
<1>10. /\ Good(st', Now(on, c, h), {})
       /\ SameMeta(put, st') /\ SameKicked(put, st')
       /\ QueueNow(put, st', c, In(put, c) \ {h})
  BY <1>5, <1>7, <1>8, <1>9, StartGood, Zenon
<1>11. /\ curr' = Now(on, c, h) /\ curr'[c] = h
       /\ \A d \in Cpus : d # c => curr'[d] = curr[d]
  BY <1>2, <1>3, <1>7, Zenon DEF Now, on, Running
<1>12. /\ \A d : MarkedOn(st', d) = MarkedOn(put, d) /\ MarkedOn(b, d) = MarkedOn(a, d)
       /\ st'.kicked = put.kicked /\ b.kicked = a.kicked
       /\ In(st', c) = In(put, c) \ {h}
       /\ \A d \in Cpus : d # c => In(st', d) = In(put, d)
  BY <1>4, <1>6, <1>10, Zenon DEF SameMeta, SameKicked, QueueNow, MarkedOn, Marked, Home
<1>13. ASSUME NEW d \in Cpus, d # c PROVE TtFirst(st', curr', d)
  <2>1. ASSUME curr'[d] \in CbsTasks, MarkedOn(st', d) # {} PROVE d \in st'.kicked
    <3>1. CASE d \in put.kicked
      BY <1>12, <3>1, Zenon
    <3>2. CASE MarkedOn(put, d) = MarkedOn(b, d)
      BY <1>1, <1>5, <1>11, <1>12, <1>13, <2>1, Zenon DEF TtFirst
    <3> QED
      BY <1>5, <3>1, <3>2, Zenon
  <2> QED
    BY <1>1, <1>4, <1>5, <1>12, <1>13, <2>1, Zenon DEF TtFirst
<1>14. TtFirst(st', curr', c)
  <2>1. In(st', c) \subseteq TtTasks
    BY <1>1, <1>5, <1>7, <1>12, Zenon
  <2>2. ASSUME h \in CbsTasks, NEW u \in MarkedOn(st', c) PROVE c \in st'.kicked
    <3>1. u \in TtTasks /\ Marked(put, u) /\ Home(put, u) = c
      BY <1>12 DEF MarkedOn
    <3>2. CASE u = t
      BY <1>5, <1>12, <3>1, <3>2, Zenon
    <3>3. CASE u # t
      <4>1. u \in In(b, c)
        BY <1>4, <1>5, <1>6, <3>1, <3>3, Zenon DEF Good, MarksKept, Marked, Home
      <4>2. a.dsq[c] # <<>>
        BY <1>6, <1>7, <2>2, <3>1, <4>1, InType, Zenon
      <4> QED
        BY <1>1, <1>4, <1>6, <1>7, <2>2, <4>2, Zenon
    <3> QED
      BY <3>2, <3>3, Zenon
  <2> QED
    BY <1>11, <2>1, <2>2, Zenon DEF TtFirst
<1>15. ASSUME NEW d \in Cpus PROVE TtFirst(st, curr, d)'
  <2>1. TtFirst(st', curr', d)
    BY <1>13, <1>14, Zenon
  <2> QED
    BY <2>1, Zenon DEF TtFirst, In, Elems, MarkedOn, Marked, Home
<1>16. ASSUME t \in MarkedOn(st, c), st.collided = FALSE PROVE h \notin In(st, "CBS") \cup In(st, "THROTTLED")
  <2>1. h \in In(a, c) \cup In(a, "GLOBAL")
    BY <1>1, <1>4, <1>7, <1>16, Zenon DEF tt_active_on_cpu, SameMeta, Inv, Good, MarksKept,
       Counted
  <2> QED
    BY <1>1, <2>1, Zenon DEF OnePlace, Good, Queues, Shared, SameQueues, In
<1> QED
  BY <1>2, <1>3, <1>10, <1>11, <1>15, <1>16, Accounts, Rebase, Zenon DEF Inv

\* The kernel keeps a task on a CPU that has nothing else to run.
LEMMA KeepStep ==
  ASSUME Inv, NEW c \in Cpus, curr[c] # None, Keep(Balance(Answered(c), c), c), hit' = hit,
         BpfAssumption
  PROVE  Inv' /\ curr' = curr
<1> DEFINE a == Answered(c)
           b == Balance(a, c)
           r == WithSlice(b, c, SCX_SLICE_DFL)
<1>1. /\ Good(a, curr, {})
      /\ SameMeta(st, a) /\ SameCbs(st, a) /\ SameQueues(st, a)
      /\ In(a, c) \subseteq TtTasks
      /\ \A d \in Cpus \ {c} : TtFirst(a, curr, d)
  BY AnsweredKeeps, Zenon
<1>2. /\ b.dsq[c] = <<>> /\ st' = r /\ kept' = kept \cup ({curr[c]} \cap CbsTasks)
      /\ curr' = curr /\ used' = used
  BY Zenon DEF Keep, WithSlice
<1> HIDE DEF a
<1>3. /\ Good(b, curr, {})
      /\ SameMeta(a, b) /\ SameKicked(a, b)
      /\ \A d \in Cpus : d # c => In(b, d) = In(a, d)
      /\ a.dsq[c] # <<>> => b = a
      /\ b.dsq[c] = <<>> => \A u \in CbsTasks : b.cbs_map[u] = a.cbs_map[u]
  BY <1>1, BalanceGood, Zenon
<1> HIDE DEF b
<1>4. /\ r \in States
      /\ SameMeta(b, r) /\ SameCbs(b, r) /\ SameQueues(b, r) /\ SameKicked(b, r)
      /\ \A d \in Cpus : d # c => r.slice[d] = b.slice[d]
  BY <1>3, SetSlice DEF Good
<1> HIDE DEF r
<1>5. \A q : In(r, q) = In(b, q)
  BY <1>4, Zenon DEF SameQueues, In
<1>6. OnePlace(r, curr) /\ MarksKept(r, curr, {})
  BY <1>3, <1>4, <1>5, SameFrame, Zenon DEF Good, OnePlace
<1>7. OnePlace(st, curr)' /\ MarksKept(st, curr, {})'
  <2>1. OnePlace(st', curr') /\ MarksKept(st', curr', {})
    BY <1>2, <1>6, Zenon
  <2> QED
    BY <1>2, <2>1, Zenon DEF MarksKept, Counted, Noticed
<1>8. ASSUME NEW u \in CbsTasks \ hit' PROVE Sound(st, curr, u, UsedIn(st, u), KeptIn(st, u))'
  <2>1. r.cbs_map[u] = st.cbs_map[u] /\ b.cbs_map[u] = st.cbs_map[u]
    BY <1>1, <1>2, <1>3, <1>4, Zenon DEF SameCbs
  <2>2. ~Filled(b, u) /\ ~Filled(st, u)'
    <3>1. ~Filled(b, u)
      BY <1>1, <2>1, Unfilled, Zenon DEF Good
    <3>2. st'.cbs_map[u].remaining \in -1..Budget /\ st'.cbs_map[u].due \in Int
      BY <1>2, <1>4, EntryType, Zenon
    <3> QED
      BY <3>1, <3>2 DEF Filled
  <2>3. Sound(b, curr, u, used[u], u \in kept)
    BY <1>3, <2>2 DEF UsedIn, KeptIn, Good, BudgetKept
  <2>4. Sound(r, curr, u, used[u], u \in kept \/ curr[c] = u)
    BY <1>4, <1>5, <2>1, <2>3, Zenon DEF Sound, SameMeta, Waits, HasMeta, HasCbs
  <2> QED
    BY <1>2, <2>2, <2>4, Zenon DEF UsedIn, KeptIn
<1>9. Good(st, curr, {})'
  BY <1>1, <1>2, <1>4, <1>7, <1>8, Zenon DEF Good, BudgetKept
<1>10. ASSUME NEW d \in Cpus PROVE TtFirst(r, curr, d)
  <2>1. MarkedOn(r, d) = MarkedOn(a, d) /\ r.kicked = a.kicked
    BY <1>3, <1>4 DEF SameMeta, SameKicked, MarkedOn, Marked, Home
  <2>2. CASE d # c
    BY <1>1, <1>3, <1>5, <2>1, <2>2, Zenon DEF TtFirst
  <2>3. CASE d = c
    <3>1. ASSUME curr[c] \in CbsTasks, NEW u \in MarkedOn(a, c) PROVE FALSE
      <4>1. In(b, c) = {} /\ In(a, c) = {}
        BY <1>1, <1>2, <1>3, InType, Zenon DEF Good, Queues
      <4> QED
        BY <1>1, <3>1, <4>1 DEF Good, MarksKept, MarkedOn, BpfAssumption
    <3> QED
      BY <1>2, <1>3, <1>5, <2>1, <2>3, <3>1, InType, Zenon DEF TtFirst, Good, Queues
  <2> QED
    BY <2>2, <2>3, Zenon
<1>11. ASSUME NEW d \in Cpus PROVE TtFirst(st, curr, d)'
  BY <1>2, <1>10, Zenon DEF TtFirst, In, Elems, MarkedOn, Marked, Home
<1> QED
  BY <1>2, <1>9, <1>11, Zenon DEF Inv

\* A task that is not runnable is neither queued nor on a CPU.
LEMMA NotRunnable ==
  ASSUME st \in States, NEW t
  PROVE  ~Runnable(t) <=> Nowhere(st, curr, t)
<1>1. ASSUME NEW q \in Queues PROVE t \in Range(st.dsq[q]) <=> t \in In(st, q)
  BY DEF Range, In, Elems, States
<1> QED
  BY <1>1, Zenon DEF Runnable, Queued, OnCpu, Nowhere, Off, Queues

\* Wake keeps the invariant: the task was nowhere, and enqueue puts it in one queue.
LEMMA WakeStep ==
  ASSUME Inv, NEW t \in Tasks, Wake(t), BpfAssumption
  PROVE  Inv' /\ curr' = curr
<1> DEFINE e == enqueue(st, t, Alone)
           X == {t} \cap TtTasks
<1>1. /\ Good(st, curr, {}) /\ st \in States /\ used \in [CbsTasks -> Nat]
      /\ \A d \in Cpus : TtFirst(st, curr, d)
  BY Zenon DEF Inv, Good
<1>2. PICK c : st' = KickIdle(e, {c})
  BY Zenon DEF Wake
<1>3. Good(st, curr, X)
  BY <1>1, Zenon DEF Good, MarksKept, Noticed
<1>4. X = {t} \cap TtTasks
  OBVIOUS
<1> HIDE DEF X
<1>alone. Alone \in Collisions
  BY DEF Alone, Collisions
<1>5. /\ Good(e, curr, {})
      /\ \A d \in Cpus : In(e, d) \subseteq In(st, d) \cup X
      /\ st.kicked \subseteq e.kicked
      /\ \A d \in Cpus : d \in e.kicked \/ MarkedOn(e, d) = MarkedOn(st, d)
  BY <1>1, <1>3, <1>4, <1>alone, EnqueueGood, NotRunnable, Zenon DEF Wake
<1> HIDE DEF e
<1> DEFINE r == KickIdle(e, {c})
<1>6. /\ r \in States
      /\ SameMeta(e, r) /\ SameCbs(e, r) /\ SameSlice(e, r) /\ SameKicked(e, r)
      /\ SameQueues(e, r)
  BY <1>5, KickIdleFields, Zenon DEF Good
<1>7. st' = r
  BY <1>2, Zenon
<1> HIDE DEF r
<1>8. ASSUME NEW d \in Cpus PROVE TtFirst(r, curr, d)
  BY <1>1, <1>4, <1>5, <1>6 DEF TtFirst, SameQueues, SameMeta, SameKicked, In, MarkedOn, Marked,
     Home
<1>9. ASSUME NEW d \in Cpus PROVE TtFirst(st, curr, d)'
  <2>1. TtFirst(st', curr', d)
    BY <1>7, <1>8, Zenon DEF Wake
  <2> QED
    BY <2>1, Zenon DEF TtFirst, In, Elems, MarkedOn, Marked, Home
<1> QED
  BY <1>1, <1>5, <1>6, <1>7, <1>9, Accounts, Rebase, GoodFrame, Zenon DEF Inv, Wake

\* A step that changes neither the maps nor the queues.
LEMMA QuietStep ==
  ASSUME Inv, BpfAssumption, st' \in States, curr' = curr, used' = used, kept' = kept, hit' = hit,
         SameMeta(st, st'), SameCbs(st, st'), SameQueues(st, st'), SameSlice(st, st'),
         SameKicked(st, st')
  PROVE  Inv'
<1>1. ASSUME NEW d \in Cpus PROVE TtFirst(st, curr, d)'
  BY Zenon DEF TtFirst, In, MarkedOn, Marked, Home, SameQueues, SameMeta, SameKicked, Inv
<1> QED
  BY <1>1, Rebase, EntryType, GoodFrame DEF Inv, UsedIn, KeptIn, Filled, SameCbs, Good

\* Interrupt only asks the CPU to schedule.
LEMMA InterruptStep ==
  ASSUME Inv, NEW c \in Cpus, Interrupt(c), BpfAssumption
  PROVE  Inv' /\ curr' = curr
<1> DEFINE n == st.resched \cup {c}
<1> HIDE DEF n
<1> QED
  BY QuietStep, Zenon DEF States, SameMeta, SameCbs, SameQueues, SameSlice, SameKicked, Interrupt,
     Inv, Good

\* A step that changes nothing keeps the invariant.
LEMMA StutterStep ==
  ASSUME Inv, UNCHANGED vars, BpfAssumption
  PROVE  Inv' /\ curr' = curr
<1> QED
  BY QuietStep, Zenon DEF SameMeta, SameCbs, SameQueues, SameSlice, SameKicked, vars, Inv, Good

\* What a tick makes of the entry b of a CBS task.
Later(b) == IF b.due > 0 THEN b.due - 1
            ELSE IF b.due - 1 <= -Period THEN 0 ELSE b.due - 1
Longer(b) == IF b.exec \in 0..Budget THEN b.exec + 1 ELSE b.exec
Ticked(b) == [remaining |-> b.remaining, exec |-> Longer(b), due |-> Later(b)]
SlicesThen == [c \in Cpus |-> IF curr[c] = None THEN 0 ELSE st.slice[c] - 1]
EntriesThen == [t \in CbsTasks |-> IF ~HasCbs(st, t) THEN NoCbs ELSE Ticked(st.cbs_map[t])]

\* Tick moves every running clock and slice by one, and leaves what is left of
\* every budget.
LEMMA TickFields ==
  ASSUME st \in States, curr \in Running, Tick, BpfAssumption
  PROVE  /\ st' \in States
         /\ SameMeta(st, st') /\ SameQueues(st, st') /\ SameKicked(st, st')
         /\ \A c \in Cpus : curr[c] # None => st'.slice[c] = st.slice[c] - 1
         /\ \A t \in CbsTasks :
              /\ HasCbs(st', t) <=> HasCbs(st, t)
              /\ st'.cbs_map[t].remaining = st.cbs_map[t].remaining
              /\ st'.cbs_map[t].exec = Longer(st.cbs_map[t])
<1>1. Period \in Nat /\ Budget \in Nat
  BY Zenon DEF BpfAssumption
<1>2. /\ SlicesThen \in [Cpus -> Int]
      /\ \A c \in Cpus : curr[c] # None => SlicesThen[c] = st.slice[c] - 1
  BY DEF SlicesThen, States
<1>3. ASSUME NEW t \in CbsTasks
      PROVE  /\ EntriesThen[t] \in Budgets
             /\ EntriesThen[t] # NoCbs <=> HasCbs(st, t)
             /\ EntriesThen[t].remaining = st.cbs_map[t].remaining
             /\ EntriesThen[t].exec = Longer(st.cbs_map[t])
  <2> DEFINE b == st.cbs_map[t]
             e == EntriesThen[t]
  <2>1. CASE ~HasCbs(st, t)
    BY <2>1 DEF Budgets, Longer, NoCbs, EntriesThen, HasCbs
  <2>2. CASE HasCbs(st, t)
    <3>1. b.remaining \in 0..Budget /\ b.exec \in -1..(Budget + 1) /\ b.due \in Int
      BY <2>2, EntryType, Zenon
    <3>2. e = Ticked(b)
      BY <2>2, Zenon DEF EntriesThen
    <3> HIDE DEF e, b
    <3>3. e # NoCbs
      BY <3>1, <3>2 DEF NoCbs, Ticked
    <3> QED
      <4>1. Longer(b) \in -1..(Budget + 1) /\ Later(b) \in Int
        BY <1>1, <3>1 DEF Later, Longer
      <4> QED
        BY <2>2, <3>1, <3>2, <3>3, <4>1 DEF Budgets, e, b, Ticked
  <2> QED
    BY <2>1, <2>2, Zenon
<1>4. EntriesThen \in [CbsTasks -> Budgets]
  BY <1>3, Zenon DEF EntriesThen
<1> QED
  BY <1>2, <1>3, Zenon DEF HasCbs, States, SameMeta, SameQueues, SameKicked, Tick, SlicesThen,
     EntriesThen, Ticked, Later, Longer

\* Time passes: a task that runs uses its slice and its budget alike.
LEMMA TickStep ==
  ASSUME Inv, Tick, BpfAssumption
  PROVE  Inv' /\ curr' = curr
<1>1. /\ Good(st, curr, {}) /\ st \in States /\ used \in [CbsTasks -> Nat] /\ curr \in Running
      /\ \A d \in Cpus : TtFirst(st, curr, d)
      /\ Budget \in Nat /\ None \notin CbsTasks
  BY Zenon DEF Inv, Good, BpfAssumption, Tasks
<1>2. /\ st' \in States
      /\ SameMeta(st, st') /\ SameQueues(st, st') /\ SameKicked(st, st')
      /\ \A c \in Cpus : curr[c] # None => st'.slice[c] = st.slice[c] - 1
      /\ \A t \in CbsTasks :
           /\ HasCbs(st', t) <=> HasCbs(st, t)
           /\ st'.cbs_map[t].remaining = st.cbs_map[t].remaining
           /\ st'.cbs_map[t].exec = Longer(st.cbs_map[t])
  BY <1>1, TickFields, Zenon
<1>3. /\ curr' = curr /\ kept' = kept /\ hit' = hit
      /\ \A c \in Cpus : curr[c] # None => st.slice[c] > 0
      /\ used' = [t \in CbsTasks |-> IF OnCpu(t) /\ st.cbs_map[t].exec >= 0 /\ used[t] <= Budget
                                     THEN used[t] + 1 ELSE used[t]]
  BY Zenon DEF Tick, Settled
<1>4. (\A q : In(st', q) = In(st, q)) /\ \A d : MarkedOn(st', d) = MarkedOn(st, d)
  BY <1>2, Zenon DEF SameQueues, SameMeta, In, MarkedOn, Marked, Home
<1>5. OnePlace(st', curr') /\ MarksKept(st', curr', {})
  BY <1>1, <1>2, <1>3, <1>4, SameFrame, Zenon DEF Good, OnePlace
<1>6. OnePlace(st, curr)' /\ MarksKept(st, curr, {})'
  BY <1>3, <1>5, Zenon DEF MarksKept, Counted, Noticed
<1>7. ASSUME NEW t \in CbsTasks \ hit' PROVE Sound(st', curr, t, used'[t], t \in kept)
  <2> DEFINE b == st.cbs_map[t]
             n == st'.cbs_map[t]
             u == used[t]
  <2>1. /\ b.exec \in -1..(Budget + 1) /\ b.remaining \in -1..Budget
        /\ n.remaining = b.remaining /\ n.exec = Longer(b) /\ u \in Nat
    BY <1>1, <1>2, EntryType, Zenon
  <2>2. Sound(st, curr, t, u, t \in kept)
    <3>1. UsedIn(st, t) = u /\ (KeptIn(st, t) <=> t \in kept)
      BY <1>1, Unfilled, Zenon
    <3>2. Sound(st, curr, t, UsedIn(st, t), KeptIn(st, t))
      BY <1>1, <1>3, GoodSound, Zenon
    <3> QED
      BY <3>1, <3>2 DEF Sound
  <2>3. /\ (Waits(st', t) <=> Waits(st, t)) /\ (HasMeta(st', t) <=> HasMeta(st, t))
        /\ (HasCbs(st', t) <=> HasCbs(st, t))
    BY <1>2, <1>4, Zenon DEF SameMeta, Waits, HasMeta
  <2>4. used'[t] = IF OnCpu(t) /\ b.exec >= 0 /\ u <= Budget THEN u + 1 ELSE u
    BY <1>3, Zenon
  <2>5. CASE b.exec < 0
    <3>1. n.exec = b.exec /\ ~(n.exec >= 0) /\ used'[t] = u
      BY <2>1, <2>4, <2>5 DEF Longer
    <3> QED
      BY <2>1, <2>2, <2>3, <2>5, <3>1, Zenon DEF Sound
  <2>6. CASE b.exec >= 0
    <3>1. PICK c \in Cpus : curr[c] = t
      BY <2>2, <2>6 DEF Sound, Off
    <3>2. ASSUME t \notin kept
          PROVE  /\ used'[t] <= Budget
                 /\ used'[t] - n.exec + n.remaining <= Budget
                 /\ \A d \in Cpus : curr[d] = t =>
                      st'.slice[d] >= 0 /\ n.exec + st'.slice[d] <= n.remaining
      <4>1. /\ u <= Budget /\ u - b.exec + b.remaining <= Budget
            /\ \A d \in Cpus : curr[d] = t =>
                 st.slice[d] >= 0 /\ b.exec + st.slice[d] <= b.remaining
        BY <2>2, <2>6, <3>2, Zenon DEF Sound
      <4>2. \A d \in Cpus : curr[d] = t =>
              st.slice[d] \in Int /\ st.slice[d] > 0 /\ st'.slice[d] = st.slice[d] - 1
        BY <1>1, <1>2, <1>3, Zenon DEF States
      <4> HIDE DEF b, n, u
      <4> QED
        BY <2>1, <2>4, <4>1, <4>2 DEF Longer, OnCpu
    <3> QED
      <4>1. n.exec >= 0 /\ ~(n.exec < 0)
        BY <2>1, <2>6 DEF Longer
      <4> QED
        BY <2>1, <2>2, <2>3, <2>6, <3>1, <3>2, <4>1, Zenon DEF Sound, Off
  <2> QED
    BY <2>1, <2>5, <2>6
<1>8. ASSUME NEW t \in CbsTasks \ hit' PROVE Sound(st, curr, t, UsedIn(st, t), KeptIn(st, t))'
  <2>1. st'.cbs_map[t].due \in Int /\ st'.cbs_map[t].remaining \in -1..Budget
    BY <1>2, EntryType, Zenon
  <2>2. ~Filled(st, t)'
    BY <1>1, <2>1 DEF Filled
  <2> QED
    BY <1>3, <1>7, <2>2 DEF UsedIn, KeptIn
<1>9. Good(st, curr, {})'
  BY <1>1, <1>2, <1>3, <1>6, <1>8 DEF Good, BudgetKept
<1>10. ASSUME NEW d \in Cpus PROVE TtFirst(st, curr, d)'
  <2>1. TtFirst(st', curr', d)
    BY <1>1, <1>2, <1>3, <1>4, Zenon DEF TtFirst, SameKicked
  <2> QED
    BY <2>1, Zenon DEF TtFirst, In, Elems, MarkedOn, Marked, Home
<1> QED
  BY <1>3, <1>9, <1>10, Zenon DEF Inv

\* The daemon writes entries of task t: what is left to show.
LEMMA WriteStep ==
  ASSUME Inv, NEW t \in Tasks, Write(t), st' \in States, BpfAssumption,
         SameQueues(st, st'), SameSlice(st, st'), SameKicked(st, st'),
         \A u \in Tasks : u # t => st'.task_meta[u] = st.task_meta[u],
         \A u \in CbsTasks : u # t => st'.cbs_map[u] = st.cbs_map[u],
         st'.tt_runnable_count = st.tt_runnable_count,
         st'.tt_active_until = st.tt_active_until, st'.collided = st.collided,
         Marked(st', t) => st'.task_meta[t] = st.task_meta[t],
         t \in CbsTasks \ hit /\ Nowhere(st, curr, t) =>
           Sound(st', curr, t, UsedIn(st', t), KeptIn(st', t))
  PROVE  Inv' /\ curr' = curr
<1>1. /\ Good(st, curr, {}) /\ st \in States /\ used \in [CbsTasks -> Nat] /\ curr \in Running
      /\ \A d \in Cpus : TtFirst(st, curr, d)
      /\ OnePlace(st, curr) /\ MarksKept(st, curr, {})
  BY Zenon DEF Inv, Good
<1>2. /\ curr' = curr /\ hit \subseteq hit'
      /\ t \in hit' \/ (Nowhere(st, curr, t) /\ hit' = hit)
      /\ Account
  BY <1>1, NotRunnable, Zenon DEF Write
<1>3. \A q : In(st', q) = In(st, q)
  BY Zenon DEF SameQueues, In
<1>4. OnePlace(st', curr')
  BY <1>1, <1>2, <1>3, Zenon DEF OnePlace
<1>5. ASSUME NEW u \in TtTasks, Marked(st', u)
      PROVE  Marked(st, u) /\ Home(st', u) = Home(st, u)
  BY <1>5, Zenon DEF Marked, Home, Tasks
<1>6. \A d : MarkedOn(st', d) \subseteq MarkedOn(st, d)
  BY <1>5, Zenon DEF MarkedOn
<1>7. ASSUME hit' \cap TtTasks = {}, NEW d PROVE MarkedOn(st', d) = MarkedOn(st, d)
  <2>1. ASSUME NEW u \in TtTasks, Marked(st, u) PROVE st'.task_meta[u] = st.task_meta[u]
    <3>1. CASE u # t
      BY <3>1, Zenon DEF Tasks
    <3>2. CASE u = t
      BY <1>1, <1>2, <1>7, <2>1, <3>2, Zenon DEF Nowhere, Off, Queues, MarksKept
    <3> QED
      BY <3>1, <3>2, Zenon
  <2> QED
    <3>1. ASSUME NEW u \in MarkedOn(st, d) PROVE u \in MarkedOn(st', d)
      BY <2>1, Zenon DEF MarkedOn, Marked, Home
    <3> QED
      BY <1>6, <3>1, Zenon
<1>8. ASSUME NEW d \in Cpus
       PROVE  LET n == st'.tt_runnable_count[d]
              IN  /\ st'.collided = FALSE =>
                       /\ n >= Cardinality(MarkedOn(st', d))
                       /\ MarkedOn(st', d) # {} => st'.tt_active_until[d] = TRUE
                  /\ hit' \cap TtTasks = {} =>
                       /\ st'.collided = FALSE
                       /\ n = Cardinality(MarkedOn(st', d))
                       /\ st'.tt_active_until[d] = TRUE => MarkedOn(st', d) # {}
  <2> DEFINE n == st.tt_runnable_count[d]
             M == MarkedOn(st, d)
             R == MarkedOn(st', d)
  <2>1. /\ st.collided = FALSE => n >= Cardinality(M) /\ (M # {} => st.tt_active_until[d] = TRUE)
        /\ hit \cap TtTasks = {} =>
             st.collided = FALSE /\ n = Cardinality(M) /\ (st.tt_active_until[d] = TRUE => M # {})
    BY <1>1, Zenon DEF MarksKept, Counted
  <2>2. R \subseteq M /\ IsFiniteSet(M)
    BY <1>6, FS_Subset, Zenon DEF MarkedOn
  <2>3. Cardinality(R) <= Cardinality(M) /\ Cardinality(R) \in Nat /\ Cardinality(M) \in Nat
    BY <2>2, FS_Subset, FS_CardinalityType, Zenon
  <2>4. hit' \cap TtTasks = {} => R = M /\ hit \cap TtTasks = {}
    BY <1>2, <1>7, Zenon
  <2>5. n \in Nat
    BY <1>1, Zenon DEF States
  <2> HIDE DEF n, M, R
  <2>6. st'.collided = FALSE => n >= Cardinality(R) /\ (R # {} => st.tt_active_until[d] = TRUE)
    BY <2>1, <2>2, <2>3, <2>5
  <2>7. ASSUME hit' \cap TtTasks = {}
        PROVE  st'.collided = FALSE /\ n = Cardinality(R) /\ (st.tt_active_until[d] = TRUE => R # {})
    <3>1. R = M /\ hit \cap TtTasks = {}
      BY <2>4, <2>7, Zenon
    <3>2. st.collided = FALSE /\ n = Cardinality(M) /\ (st.tt_active_until[d] = TRUE => M # {})
      BY <2>1, <3>1, Zenon
    <3>3. n = Cardinality(R)
      BY <3>1, <3>2, Zenon
    <3>4. st.tt_active_until[d] = TRUE => R # {}
      BY <3>1, <3>2, Zenon
    <3> QED
      BY <3>2, <3>3, <3>4, Zenon
  <2>8. st'.tt_runnable_count[d] = n /\ st'.tt_active_until[d] = st.tt_active_until[d]
    BY Zenon DEF n
  <2> QED
    BY <2>6, <2>7, <2>8 DEF R
<1>9. MarksKept(st, curr, {})'
  <2>1. ASSUME NEW u \in TtTasks, Marked(st', u)
        PROVE  /\ Home(st', u) \in Isolated
               /\ curr'[Home(st', u)] = u \/ u \in In(st', Home(st', u))
    BY <1>1, <1>2, <1>3, <1>5, <2>1, Zenon DEF MarksKept
  <2>2. ASSUME hit' \cap TtTasks = {}, NEW u \in TtTasks
        PROVE  Nowhere(st', curr', u) \/ Told(st', u)
    <3>1. Nowhere(st', curr', u) <=> Nowhere(st, curr, u)
      BY <1>2, <1>3, Zenon DEF Nowhere
    <3>2. CASE u = t
      BY <1>2, <2>2, <3>1, <3>2, Zenon
    <3>3. CASE u # t
      <4>1. Told(st', u) <=> Told(st, u)
        BY <3>3, Zenon DEF Told, Marked, Home, Tasks
      <4>2. hit \cap TtTasks = {}
        BY <1>2, <2>2, Zenon
      <4> QED
        BY <1>1, <3>1, <4>1, <4>2, Zenon DEF MarksKept, Noticed
    <3> QED
      BY <3>2, <3>3, Zenon
  <2>3. Noticed(st, curr, {})'
    BY <2>2, Zenon DEF Noticed, Nowhere, Off, Told, Marked, Home, In, Elems
  <2> QED
    BY <1>8, <2>1, <2>3, Zenon DEF MarksKept, Counted
<1>10. ASSUME NEW u \in CbsTasks \ hit' PROVE Sound(st', curr, u, UsedIn(st', u), KeptIn(st', u))
  <2>1. CASE u = t
    BY <1>2, <2>1, Zenon
  <2>2. CASE u # t
    <3>1. Sound(st, curr, u, UsedIn(st, u), KeptIn(st, u))
      BY <1>1, <1>2, GoodSound, Zenon
    <3> QED
      BY <1>3, <2>2, <3>1, SoundFrame DEF Waits, Tasks, SameSlice
  <2> QED
    BY <2>1, <2>2, Zenon
<1>11. ASSUME NEW u \in CbsTasks \ hit' PROVE Sound(st, curr, u, UsedIn(st, u), KeptIn(st, u))'
  <2>1. ~Filled(st, u)'
    BY EntryType DEF Filled
  <2> QED
    BY <1>1, <1>2, <1>10, <2>1, Accounts, Zenon DEF UsedIn, KeptIn
<1>12. Good(st, curr, {})'
  BY <1>1, <1>2, <1>4, <1>9, <1>11, Accounts, Zenon DEF Good, BudgetKept
<1>13. ASSUME NEW d \in Cpus PROVE TtFirst(st, curr, d)'
  <2>1. TtFirst(st', curr', d)
    BY <1>1, <1>2, <1>3, <1>6, Zenon DEF TtFirst, SameKicked
  <2> QED
    BY <2>1, Zenon DEF TtFirst, In, Elems, MarkedOn, Marked, Home
<1> QED
  BY <1>2, <1>12, <1>13, Zenon DEF Inv

WithMeta(s, t, m) == [s EXCEPT !.task_meta[t] = m]

\* The daemon writes or deletes the entry of a task in task_meta_map.
LEMMA MetaStep ==
  ASSUME Inv, NEW t \in Tasks, NEW m \in Metas, m.tt_runnable = FALSE, st' = WithMeta(st, t, m),
         Write(t), BpfAssumption
  PROVE  Inv' /\ curr' = curr
<1> DEFINE f == [st.task_meta EXCEPT ![t] = m]
<1>1. Good(st, curr, {}) /\ st \in States /\ used \in [CbsTasks -> Nat]
  BY Zenon DEF Inv, Good
<1>2. f \in [Tasks -> Metas] /\ f[t] = m /\ \A u \in Tasks : u # t => f[u] = st.task_meta[u]
  BY <1>1, Zenon DEF States
<1>3. st' = [st EXCEPT !.task_meta = f]
  BY Zenon DEF WithMeta
<1> HIDE DEF f
<1>4. /\ st' \in States /\ st'.task_meta = f
      /\ SameQueues(st, st') /\ SameSlice(st, st') /\ SameKicked(st, st') /\ SameCbs(st, st')
      /\ st'.tt_runnable_count = st.tt_runnable_count
      /\ st'.tt_active_until = st.tt_active_until /\ st'.collided = st.collided
  BY <1>1, <1>2, <1>3, Zenon DEF States, SameQueues, SameSlice, SameKicked, SameCbs
<1>5. ~Marked(st', t)
  BY <1>2, <1>4, Zenon DEF Marked
<1>6. ASSUME t \in CbsTasks \ hit, Nowhere(st, curr, t)
      PROVE  Sound(st', curr, t, UsedIn(st', t), KeptIn(st', t))
  <2>1. Sound(st, curr, t, UsedIn(st, t), KeptIn(st, t))
    BY <1>1, <1>6, GoodSound, Zenon
  <2>2. st'.cbs_map[t] = st.cbs_map[t] /\ ~Waits(st', t)
    BY <1>4, <1>6, Zenon DEF Nowhere, Waits, SameQueues, In, SameCbs
  <2>3. UsedIn(st', t) = UsedIn(st, t) /\ (KeptIn(st', t) <=> KeptIn(st, t))
    BY <2>2, Zenon DEF UsedIn, KeptIn, Filled
  <2> QED
    BY <1>6, <2>1, <2>2, <2>3 DEF Sound, Nowhere
<1> QED
  BY <1>2, <1>4, <1>5, <1>6, WriteStep, Zenon DEF SameCbs

\* The daemon writes or deletes the entry of a task in cbs_map.
LEMMA CbsStep ==
  ASSUME Inv, NEW t \in CbsTasks, NEW n \in {FullCbs, NoCbs}, st' = WithBudget(st, t, n),
         Write(t), BpfAssumption
  PROVE  Inv' /\ curr' = curr
<1>1. /\ Good(st, curr, {}) /\ st \in States /\ used \in [CbsTasks -> Nat]
      /\ Budget \in Nat /\ Budget > 0 /\ Period \in Nat /\ Period > 0
      /\ t \in Tasks /\ t \notin TtTasks
  BY DEF Inv, Good, BpfAssumption, Tasks
<1>2. n \in Budgets /\ n.exec = -1 /\ n.remaining \in Int /\ n.due \in Int
      /\ (n.remaining = -1 \/ (n.remaining = Budget /\ n.due = Period))
  <2> DEFINE m == -1
  <2> HIDE DEF m
  <2> QED
    BY DEF Budgets, FullCbs, NoCbs
<1>3. /\ st' \in States
      /\ SameMeta(st, st') /\ SameQueues(st, st') /\ SameSlice(st, st') /\ SameKicked(st, st')
      /\ st'.cbs_map[t] = n /\ \A u \in CbsTasks : u # t => st'.cbs_map[u] = st.cbs_map[u]
  BY <1>1, <1>2, SetBudget
<1>4. ASSUME t \notin hit, Nowhere(st, curr, t)
      PROVE  Sound(st', curr, t, UsedIn(st', t), KeptIn(st', t))
  <2> DEFINE b == st.cbs_map[t]
  <2>1. /\ Sound(st, curr, t, UsedIn(st, t), KeptIn(st, t))
        /\ UsedIn(st, t) = used[t] /\ (KeptIn(st, t) <=> t \in kept)
    BY <1>1, <1>4, GoodSound, Unfilled, Zenon
  <2>2. ASSUME ~KeptIn(st', t)
        PROVE  UsedIn(st', t) <= Budget /\ UsedIn(st', t) + n.remaining <= Budget
    <3>1. CASE Filled(st', t)
      BY <1>2, <3>1 DEF UsedIn
    <3>2. CASE ~Filled(st', t)
      <4>1. used[t] <= Budget /\ used[t] + b.remaining <= Budget
        BY <1>4, <2>1, <2>2, <3>2 DEF Sound, KeptIn, Nowhere
      <4>2. b.remaining \in -1..Budget /\ used[t] \in Nat
        BY <1>1, EntryType, Zenon
      <4> HIDE DEF b
      <4> QED
        BY <1>1, <1>2, <1>3, <3>2, <4>1, <4>2 DEF UsedIn, Filled, b
    <3> QED
      BY <3>1, <3>2, Zenon
  <2> QED
    BY <1>2, <1>3, <1>4, <2>2 DEF Sound, Nowhere, Waits, SameQueues, In
<1> QED
  BY <1>1, <1>3, <1>4, WriteStep, Zenon DEF SameMeta

\* The writes of the daemon to task_meta_map and cbs_map keep the invariant: a
\* task that was runnable when its entry was written is in hit.
LEMMA DaemonStep ==
  ASSUME Inv, Daemon, BpfAssumption
  PROVE  Inv' /\ curr' = curr
<1>1. ASSUME NEW t \in Tasks, NEW c \in Cpus, update_task_meta(t, c) PROVE Inv' /\ curr' = curr
  <2> DEFINE m == MetaOn(c)
  <2>1. m \in Metas /\ m.tt_runnable = FALSE
    BY Zenon DEF MetaOn, Metas
  <2>2. st' = WithMeta(st, t, m) /\ Write(t)
    BY <1>1, Zenon DEF update_task_meta, WithMeta
  <2> HIDE DEF m
  <2> QED
    BY <2>1, <2>2, MetaStep, Zenon
<1>2. ASSUME NEW t \in Tasks, delete_task_meta(t) PROVE Inv' /\ curr' = curr
  <2>1. NoMeta \in Metas /\ NoMeta.tt_runnable = FALSE
    BY Zenon DEF NoMeta, Metas
  <2> QED
    BY <1>2, <2>1, MetaStep, Zenon DEF delete_task_meta, WithMeta
<1>3. ASSUME NEW t \in CbsTasks, update_cbs_state(t) PROVE Inv' /\ curr' = curr
  <2>1. st' = WithBudget(st, t, FullCbs) /\ Write(t)
    BY <1>3, Zenon DEF update_cbs_state, WithBudget
  <2> QED
    BY <2>1, CbsStep, Zenon
<1>4. ASSUME NEW t \in CbsTasks, delete_cbs_state(t) PROVE Inv' /\ curr' = curr
  <2>1. st' = WithBudget(st, t, NoCbs) /\ Write(t)
    BY <1>4, Zenon DEF delete_cbs_state, WithBudget
  <2> QED
    BY <2>1, CbsStep, Zenon
<1> QED
  BY <1>1, <1>2, <1>3, <1>4, Zenon DEF Daemon

\* The maps as the daemon first fills them satisfy the invariant.
LEMMA Initially ==
  ASSUME Init, BpfAssumption
  PROVE  Inv
<1>1. PICK home \in [Tasks -> Cpus] :
         st = [task_meta |-> [t \in Tasks |-> MetaOn(home[t])],
               cbs_map |-> [t \in CbsTasks |-> FullCbs],
               tt_runnable_count |-> [c \in Cpus |-> 0],
               tt_active_until |-> [c \in Cpus |-> FALSE],
               dsq |-> [q \in Shared \cup Cpus |-> <<>>],
               slice |-> [c \in Cpus |-> 0],
               resched |-> {}, kicked |-> {}, collided |-> FALSE]
  BY Zenon DEF Init
<1>2. /\ Budget \in Nat /\ Budget > 0 /\ Period \in Nat /\ None \notin Tasks
      /\ CbsTasks \subseteq Tasks /\ TtTasks \subseteq Tasks
  BY DEF BpfAssumption, Tasks
<1>3. FullCbs \in Budgets /\ FullCbs.exec = -1 /\ FullCbs.remaining = Budget
  <2> DEFINE m == -1
  <2> HIDE DEF m
  <2> QED
    BY DEF Budgets, FullCbs
<1> DEFINE meta == [t \in Tasks |-> MetaOn(home[t])]
           cbs == [t \in CbsTasks |-> FullCbs]
           count == [c \in Cpus |-> 0]
           active == [c \in Cpus |-> FALSE]
           queues == [q \in Shared \cup Cpus |-> <<>>]
<1>4. /\ meta \in [Tasks -> Metas] /\ cbs \in [CbsTasks -> Budgets] /\ count \in [Cpus -> Nat]
      /\ active \in [Cpus -> BOOLEAN] /\ queues \in [Queues -> Seq(Tasks)]
      /\ count \in [Cpus -> Int]
      /\ \A t \in Tasks : meta[t].tt_runnable = FALSE
      /\ \A t \in CbsTasks : cbs[t] = FullCbs
      /\ \A c \in Cpus : count[c] = 0 /\ active[c] = FALSE
      /\ \A q \in Queues : queues[q] = <<>>
  BY <1>3 DEF Queues, MetaOn, Metas
<1> HIDE DEF meta, cbs, count, active, queues
<1>5. /\ st \in States /\ st.task_meta = meta /\ st.cbs_map = cbs /\ st.tt_runnable_count = count
      /\ st.tt_active_until = active /\ st.dsq = queues /\ st.collided = FALSE
  BY <1>1, <1>4, Zenon DEF States, meta, queues
<1>6. \A t \in TtTasks : ~Marked(st, t)
  BY <1>2, <1>4, <1>5, Zenon DEF Marked
<1>7. MarksKept(st, curr, {})
  <2>1. ASSUME NEW c \in Cpus PROVE Counted(st, c)
    <3>1. Cardinality(MarkedOn(st, c)) = 0
      BY <1>6, FS_EmptySet, Zenon DEF MarkedOn
    <3> QED
      BY <1>4, <1>5, <1>6, <3>1 DEF Counted, MarkedOn
  <2>2. \A t \in TtTasks : Nowhere(st, curr, t)
    BY <1>2, <1>4, <1>5 DEF Nowhere, Off, In, Elems, Init, Idle
  <2> QED
    BY <1>6, <2>1, <2>2, Zenon DEF MarksKept, Noticed
<1>8. BudgetKept(st, curr)
  <2>1. ASSUME NEW t \in CbsTasks PROVE Sound(st, curr, t, UsedIn(st, t), KeptIn(st, t))
    BY <1>3 DEF Sound, UsedIn, Init
  <2> QED
    BY <2>1, Zenon DEF BudgetKept
<1> QED
  BY <1>2, <1>5, <1>7, <1>8 DEF Inv, Good, TtFirst, Queues, In, Elems, Init, Idle, Running,
     OnePlace, Shared

-----------------------------------------------------------------------------
(* The theorems *)

\* Every step keeps the invariant.
LEMMA Step ==
  ASSUME Inv, [Next]_vars, BpfAssumption
  PROVE  Inv'
<1>1. ASSUME NEW c \in Cpus, Expire(c) PROVE Inv'
  BY <1>1, KeepStep, SwitchStep, Zenon DEF Expire
<1> QED
  BY <1>1, ScheduleStep, BlockStep, InterruptStep, WakeStep, TickStep, DaemonStep, StutterStep,
     Zenon DEF Next

\* The inductive invariant: a task is in one place; a flagged TT task is counted
\* and runs or waits on its CPU; a CBS task never uses more than its budget, and
\* its slice ends with it; a CPU that runs a CBS task is kicked for a TT task.
THEOREM Invariant == Spec => []Inv
<1>1. Init => Inv
  BY Initially, BpfAssumption, Zenon
<1>2. Inv /\ [Next]_vars => Inv'
  BY Step, BpfAssumption, Zenon
<1> QED
  BY <1>1, <1>2, PTL DEF Spec

\* The tasks the properties call flagged are the ones the invariant counts.
LEMMA FlaggedOn ==
  ASSUME st \in States, NEW c \in Cpus
  PROVE  Flagged(c) = MarkedOn(st, c)
<1>1. ASSUME NEW t \in TtTasks
      PROVE  st.task_meta[t] = [assigned_cpu |-> c, tt_runnable |-> TRUE]
             <=> Marked(st, t) /\ Home(st, t) = c
  <2> DEFINE yes == TRUE
  <2>1. st.task_meta[t] = [assigned_cpu |-> c, tt_runnable |-> yes]
        <=> st.task_meta[t].tt_runnable = yes /\ st.task_meta[t].assigned_cpu = c
    <3> HIDE DEF yes
    <3> QED
      BY DEF States, Tasks, Metas
  <2> QED
    BY <2>1, Zenon DEF Marked, Home
<1> QED
  BY <1>1, Zenon DEF Flagged, MarkedOn

\* mark_tt_runnable, mark_tt_not_runnable: dispatch never takes a CPU for free
\* while a TT task is flagged runnable on it, whatever the daemon writes, as long
\* as no two CPUs have changed one counter at the same time.
THEOREM NeverUndercounts == Spec => []NoUndercount
<1>1. Inv => NoUndercount
  <2> SUFFICES ASSUME Inv, ~st.collided, NEW c \in Cpus
               PROVE  /\ st.tt_runnable_count[c] >= Cardinality(Flagged(c))
                      /\ Flagged(c) # {} => st.tt_active_until[c]
    BY Zenon DEF NoUndercount
  <2>1. st \in States /\ Counted(st, c)
    BY Zenon DEF Inv, Good, MarksKept
  <2>2. st.collided = FALSE
    BY <2>1, Zenon DEF States
  <2> QED
    BY <2>1, <2>2, FlaggedOn, Zenon DEF Counted
<1> QED
  BY <1>1, Invariant, PTL

\* Every mark is taken back: without interference of the daemon a CPU counts as
\* TT-active only while a TT task runs or waits on it.
THEOREM GapsAreFree == Spec => []GapIsFree
<1>1. Inv => GapIsFree
  <2> SUFFICES ASSUME Inv, hit \cap TtTasks = {}, NEW c \in Cpus, tt_active_on_cpu(st, c)
               PROVE  \E t \in TtTasks : curr[c] = t \/ t \in Range(st.dsq[c])
    BY Zenon DEF GapIsFree
  <2>1. st \in States /\ Counted(st, c) /\ MarksKept(st, curr, {}) /\ c \in Queues
    BY Zenon DEF Inv, Good, MarksKept, Queues
  <2>2. MarkedOn(st, c) # {}
    <3>1. CASE st.tt_active_until[c] = TRUE
      BY <2>1, <3>1, Zenon DEF Counted
    <3>2. CASE st.tt_runnable_count[c] > 0
      BY <2>1, <3>2, FS_EmptySet DEF Counted
    <3> QED
      BY <3>1, <3>2, Zenon DEF tt_active_on_cpu
  <2>3. PICK t \in TtTasks : Marked(st, t) /\ Home(st, t) = c
    BY <2>2, Zenon DEF MarkedOn
  <2>4. In(st, c) = Range(st.dsq[c])
    BY <2>1, InRange, Zenon
  <2> QED
    BY <2>1, <2>3, <2>4, Zenon DEF MarksKept
<1> QED
  BY <1>1, Invariant, PTL

\* running, stopping: between two replenishments a CBS task executes no longer
\* than its budget, unless the kernel kept it or the daemon interfered.
THEOREM BudgetsRespected == Spec => []BudgetRespected
<1>1. Inv => BudgetRespected
  <2> SUFFICES ASSUME Inv, NEW t \in CbsTasks \ (kept \cup hit) PROVE used[t] <= Budget
    BY Zenon DEF BudgetRespected
  <2> QED
    <3>1. Good(st, curr, {}) /\ st \in States /\ t \in CbsTasks \ hit
      BY Zenon DEF Inv, Good
    <3>2. UsedIn(st, t) = used[t] /\ ~KeptIn(st, t)
      BY <3>1, Unfilled, BpfAssumption, Zenon
    <3>3. Sound(st, curr, t, UsedIn(st, t), KeptIn(st, t))
      BY <3>1, GoodSound, Zenon
    <3> QED
      BY <3>2, <3>3 DEF Sound
<1> QED
  BY <1>1, Invariant, PTL

\* enqueue, dispatch: "TT always wins over running CBS work".
THEOREM TtAlwaysWins == Spec => TtWins
<1> DEFINE A == \A c \in Cpus :
       /\ curr'[c] \in CbsTasks /\ Flagged(c)' # {} => c \in st'.kicked
       /\ /\ ~st.collided
          /\ curr[c] \in Flagged(c) /\ curr'[c] # curr[c] /\ curr[c] \in Flagged(c)'
          => curr'[c] \notin Range(st.dsq["CBS"]) \cup Range(st.dsq["THROTTLED"])
<1>1. Inv /\ Inv' /\ [Next]_vars => A
  <2> SUFFICES ASSUME Inv, Inv', [Next]_vars, NEW c \in Cpus
               PROVE  /\ curr'[c] \in CbsTasks /\ Flagged(c)' # {} => c \in st'.kicked
                      /\ /\ ~st.collided
                         /\ curr[c] \in Flagged(c) /\ curr'[c] # curr[c] /\ curr[c] \in Flagged(c)'
                         => curr'[c] \notin Range(st.dsq["CBS"]) \cup Range(st.dsq["THROTTLED"])
    OBVIOUS
  <2>1. /\ st \in States /\ st' \in States /\ TtFirst(st', curr', c)
        /\ None \notin TtTasks /\ "CBS" \in Queues /\ "THROTTLED" \in Queues
    BY BpfAssumption, Zenon DEF Inv, Good, Tasks, Queues, Shared
  <2>2. Flagged(c) = MarkedOn(st, c) /\ Flagged(c)' = MarkedOn(st', c)
    <3>1. Flagged(c)' = MarkedOn(st', c)
      <4> DEFINE yes == TRUE
      <4>1. ASSUME NEW t \in TtTasks
            PROVE  st'.task_meta[t] = [assigned_cpu |-> c, tt_runnable |-> yes]
                   <=> st'.task_meta[t].tt_runnable = yes /\ st'.task_meta[t].assigned_cpu = c
        <5> HIDE DEF yes
        <5> QED
          BY <2>1 DEF States, Tasks, Metas
      <4> QED
        BY <4>1, Zenon DEF Flagged, MarkedOn, Marked, Home
    <3> QED
      BY <2>1, <3>1, FlaggedOn, Zenon
  <2>3. \A q \in Queues : Range(st.dsq[q]) = In(st, q)
    BY <2>1, InRange, Zenon
  <2>4. ASSUME ~st.collided, curr[c] \in MarkedOn(st, c), curr'[c] # curr[c], curr[c] \in MarkedOn(st', c)
        PROVE  curr'[c] \notin In(st, "CBS") \cup In(st, "THROTTLED")
    <3>0. st.collided = FALSE
      BY <2>1, <2>4, Zenon DEF States
    <3>1. ASSUME NEW d \in Cpus, Schedule(d) PROVE FALSE
      BY <2>1, <2>4, <3>1, ScheduleStep, BpfAssumption, Zenon DEF Schedule, MarkedOn
    <3>2. ASSUME NEW d \in Cpus, Block(d) PROVE FALSE
      BY <2>4, <3>2, BlockStep, BpfAssumption, Zenon DEF MarkedOn
    <3>3. ASSUME NEW d \in Cpus, Expire(d)
          PROVE  curr'[c] \notin In(st, "CBS") \cup In(st, "THROTTLED")
      BY <2>4, <3>0, <3>3, KeepStep, SwitchStep, BpfAssumption, Zenon DEF Expire
    <3>4. ASSUME curr' = curr PROVE FALSE
      BY <2>4, <3>4, Zenon
    <3> QED
      BY <3>1, <3>2, <3>3, <3>4, InterruptStep, WakeStep, TickStep, DaemonStep, StutterStep,
         BpfAssumption, Zenon DEF Next
  <2> QED
    BY <2>1, <2>2, <2>3, <2>4, Zenon DEF TtFirst
<1> QED
  BY <1>1, Invariant, PTL DEF Spec, TtWins

=============================================================================
