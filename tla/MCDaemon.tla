------------------------------- MODULE MCDaemon -------------------------------
(* A small control plane for TLC: the sets are given in the .cfg files.     *)
EXTENDS Daemon, TLC

DaemonSymmetry == Permutations(Handlers)
=============================================================================
