--------------------------- MODULE MCNodeExecutor ---------------------------
(* Two workloads: a with a TT and a CBS task, b with a TT task; tables that  *)
(* drop a workload, drop a task of one that stays, or move a slot.           *)
EXTENDS NodeExecutor, TLC

CONSTANTS a, b, atask, aserver, btask, c1, c2

SomeWorkload == atask :> a @@ aserver :> a @@ btask :> b
On(t, c) == [task |-> t, cpu |-> c]
SomeTables ==
  {<<On(atask, c1), On(aserver, c1), On(btask, c1)>>, <<On(btask, c1), On(atask, c2)>>,
   <<On(aserver, c1)>>}
=============================================================================
