------------------------------ MODULE MCTtSched ------------------------------
(* Small instances of TtSched for TLC. *)
EXTENDS TtSched, TLC

CONSTANTS t1, t2, ch1, ch2, ch3

\* Names that begin alike.
SomeNames == (t1 :> <<ch1, ch2>>) @@ (t2 :> <<ch1, ch3>>)

\* The task that runs alone, behind another, and not at all.
SomeTables == {<<t2, t1>>, <<t1>>, <<t2>>}
=============================================================================
