-------------------------- MODULE MCClientRuntime --------------------------
(* TLC instance of ClientRuntime. *)
EXTENDS ClientRuntime

CONSTANTS r1, m1
=============================================================================
