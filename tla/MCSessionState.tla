--------------------------- MODULE MCSessionState ---------------------------
(* Instances of SessionState for TLC. *)
EXTENDS SessionState

CONSTANTS w1, w2, s1, utc, local
=============================================================================
