--------------------------- MODULE MCRustScheduler ---------------------------
EXTENDS RustScheduler, TLC

Task(target, pinned, runtime, period) ==
  [named |-> TRUE, target |-> target, pinned |-> pinned, memory |-> 0,
   runtime |-> runtime, period |-> period]

\* Node 1 has one CPU, node 2 two; node 9 is not configured.
CpusOf == 1 :> {3} @@ 2 :> {2, 3}
MemoryOf == 1 :> 4 @@ 2 :> 8

\* Utilizations 1/2, 3/8, 1/4 and 1/5, a task without a period, one that is
\* too large for any node and one too large for node 1.
SomeTasks ==
  {Task(1, None, 2, 4), Task(2, 2, 3, 8), Task(2, None, 1, 4), Task(None, None, 1, 5),
   Task(9, 3, 3, 8), Task(1, 2, 1, 3), Task(2, None, 0, 0), Task(2, None, 1, 1),
   [Task(1, None, 2, 4) EXCEPT !.memory = 6], [Task(2, None, 1, 4) EXCEPT !.named = FALSE]}
=============================================================================
