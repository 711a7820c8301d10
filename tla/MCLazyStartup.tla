--------------------------- MODULE MCLazyStartup ---------------------------
(* Instances of LazyStartup for TLC. *)
EXTENDS LazyStartup, TLC

CONSTANTS p1, p2, t1, t2, db, other, nodb

(* Threads of a process are interchangeable, and so are its children. *)
Interchangeable == Permutations(Threads)
=============================================================================
