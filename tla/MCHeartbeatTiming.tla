-------------------------- MODULE MCHeartbeatTiming --------------------------
(* Instances of HeartbeatTiming for TLC. *)
EXTENDS HeartbeatTiming

CONSTANTS w1, w2
=============================================================================
