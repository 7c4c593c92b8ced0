------------------------------- MODULE MCProxy -------------------------------
(* A small proxy for TLC: the sets are given in the .cfg files. *)
EXTENDS Proxy, TLC

ProxySymmetry ==
  Permutations(Pids) \cup Permutations(Ports) \cup Permutations(Reqs)
=============================================================================
