---------------------------- MODULE MCLogPipeline ----------------------------
(* Two runs of one app, for TLC. *)
EXTENDS LogPipeline
=============================================================================
