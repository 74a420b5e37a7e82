--------------------------- MODULE MCBpfScheduler ---------------------------
(* BpfScheduler on small instances; the bounds are in the configurations. *)
EXTENDS BpfScheduler
=============================================================================
