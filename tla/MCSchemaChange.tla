--------------------------- MODULE MCSchemaChange ---------------------------
(* Instances of SchemaChange for TLC. *)
EXTENDS SchemaChange

CONSTANTS r1, r2
=============================================================================
