------------------------------ MODULE MCSched ------------------------------
(* Small instances of the scheduler for TLC. *)
EXTENDS KmtSched

MCSpawnPrio == {1, 2}
MCHighPrio == {2}
=============================================================================
