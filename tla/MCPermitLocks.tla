--------------------------- MODULE MCPermitLocks ---------------------------
(***************************************************************************)
(* Instances of PermitLocks for TLC: the worker alone, and the worker with *)
(* one transaction of each of two other sessions.                          *)
(***************************************************************************)
EXTENDS PermitLocks

CONSTANTS a, b

Nobody == {}
TwoSessions == {a, b}
=============================================================================
