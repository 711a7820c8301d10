--------------------------- MODULE MCIntrospection ---------------------------
(* Instances of Introspection for TLC. *)
EXTENDS Introspection

CONSTANTS a, sys, c1, c2
=============================================================================
