--------------------------- MODULE MCTestDatabases ---------------------------
(* Instances of TestDatabases for TLC. *)
EXTENDS TestDatabases

CONSTANTS main, c1, c2

TwoWorkers == <<main, c1, c2>>
=============================================================================
