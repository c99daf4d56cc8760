------------------------------- MODULE MCCcmd -------------------------------
(* A small instance of Ccmd for TLC. *)
EXTENDS Ccmd
=============================================================================
