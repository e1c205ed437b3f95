------------------------------ MODULE MCMutex ------------------------------
(* Small instances of the mutexes for TLC. *)
EXTENDS KmtMutex

MCPrio == {1, 2}
=============================================================================
