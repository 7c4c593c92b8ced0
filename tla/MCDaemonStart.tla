---------------------------- MODULE MCDaemonStart ----------------------------
(* A few processes around one home directory: the sets are in the .cfg.     *)
EXTENDS DaemonStart, TLC
=============================================================================
