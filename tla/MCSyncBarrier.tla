--------------------------- MODULE MCSyncBarrier ---------------------------
(* Small instances of SyncBarrier for TLC. *)
EXTENDS SyncBarrier

CONSTANTS n1, n2
=============================================================================
