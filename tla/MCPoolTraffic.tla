---------------------------- MODULE MCPoolTraffic ----------------------------
(* Instances of PoolTraffic for TLC. *)
EXTENDS PoolTraffic, TLC

CONSTANTS c1, c2, c3, beat, warm, r1, r2, r3, r4

(* Request threads and connection records are interchangeable. *)
Interchangeable == Permutations(Clients) \cup Permutations(Records)
=============================================================================
