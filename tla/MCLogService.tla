---------------------------- MODULE MCLogService ----------------------------
(* A small instance of LogService for TLC. *)
EXTENDS LogService, TLC

CONSTANTS r1, e1, e2

\* Two events at once.
Two == r1 :> {e1, e2}
=============================================================================
