---------------------------- MODULE MCSupervisor ----------------------------
(* A small supervisor for TLC: the sets are given in the .cfg file.         *)
EXTENDS Supervisor, TLC
=============================================================================
