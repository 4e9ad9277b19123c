---------------------------- MODULE MCMcpService ----------------------------
(* Two lines of every kind, the daemon's run, one worker in each pool, one daemon thread. *)
EXTENDS McpService
=============================================================================
