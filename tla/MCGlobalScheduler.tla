-------------------------- MODULE MCGlobalScheduler --------------------------
EXTENDS GlobalScheduler

Tt(w, p, c, d) == [workload |-> w, mechanism |-> "TT", period |-> p, wcet |-> c, deadline |-> d]
Cbs(w, p, c) == [workload |-> w, mechanism |-> "CBS", period |-> p, wcet |-> c, deadline |-> p]

\* Harmonic periods 2, 4, 8 and a stranger 3; tight, implicit and long
\* deadlines; a task without a period; CBS tasks of 1/4, 3/8 and 1/2.
SomeTasks ==
  {Tt(1, 4, 1, 4), Tt(1, 8, 3, 8), Tt(2, 8, 2, 3), Tt(2, 3, 1, 3), Tt(3, 4, 2, 2),
   Tt(3, 2, 1, 6), Tt(3, 0, 1, 0), Cbs(4, 4, 1), Cbs(4, 8, 3), Cbs(5, 2, 1)}
=============================================================================
