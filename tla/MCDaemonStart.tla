---------------------------- MODULE MCDaemonStart ----------------------------
(* An instance of DaemonStart for TLC. *)
EXTENDS DaemonStart
=============================================================================
