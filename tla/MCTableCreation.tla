--------------------------- MODULE MCTableCreation ---------------------------
(* Instances of TableCreation, and with it of KeyAssignment, for TLC. *)
EXTENDS TableCreation, TLC

CONSTANTS w1, w2, s1, local, o1, o2, o3

(* Objects are interchangeable. *)
Interchangeable == Permutations(Objects)

(* Once the table is there, sessions do not change and nothing reads them. *)
WhatMatters ==
    IF creator = "nobody" THEN <<creator, sessions>>
    ELSE <<creator, prepared, rows>>

(* The bounds of the instance: one caller chooses a key, sequences are     *)
(* reset once after rows were numbered, and the table is created by a      *)
(* wrapper that was prepared.                                              *)
OneChosenKey == \A o, p \in explicit' : o = p
OneReset == retired \in {{}, retired'}
PreparedCreator == creator' # "unready"

BoundedSpec ==
    CreationInit
    /\ [][CreationNext /\ OneChosenKey /\ OneReset /\ PreparedCreator]_<<vars, sessions, creator>>
=============================================================================
