----------------------------- MODULE MCJsonPaths -----------------------------
(* Instances of JsonPaths for TLC. *)
EXTENDS JsonPaths

CONSTANTS plain, percent, index

UpToTwo == UNION {[1..n -> Names \cup Indexes] : n \in 1..2}
=============================================================================
