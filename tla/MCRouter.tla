------------------------------ MODULE MCRouter ------------------------------
(* The instances of Router for TLC. *)
EXTENDS Router
=============================================================================
