------------------------------- MODULE MCRpc -------------------------------
(* A small instance of the calls between threads for TLC. *)
EXTENDS KmtRpc

\* syscore has the highest priority; its callers share it or stay below.
MCPrio == {1, 2}

\* Two requests whose answers differ.
MCAsked == {"echo", "unknown"}
=============================================================================
