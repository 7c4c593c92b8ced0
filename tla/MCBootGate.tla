----------------------------- MODULE MCBootGate -----------------------------
(* A gate with fewer requests at a time than names, for TLC. *)
EXTENDS BootGate
=============================================================================
