------------------------------ MODULE JsonPaths ------------------------------
(***************************************************************************)
(* The paths by which lookups on a JSONField (lookups.py) reach into a     *)
(* VARIANT column: a path is a sequence of pieces, each with the separator *)
(* that stands before it.  snowflake-connector-python interpolates         *)
(* parameters with Python's % operator, also when there are none           *)
(* (interpolate_empty_sequences in base.py), so that a percent sign in a   *)
(* key has to be doubled in the statement.                                 *)
(***************************************************************************)
EXTENDS Naturals, Sequences

CONSTANTS Names,    \* keys that int() refuses
          Indexes,  \* keys that it accepts
          Percents, \* names that contain a percent sign
          Paths     \* the key transforms of the lookups, from the column on

VARIABLE sql  \* the paths in the last statement

Init == sql = {}
-----------------------------------------------------------------------------
(* A percent sign of k is written as n of them. *)
Signs(k, n) == IF k \in Percents THEN n ELSE 0

Piece(separator, k, n) == [sep |-> separator, key |-> k, signs |-> Signs(k, n)]

(* compile_json_path: the first separator must be a colon, otherwise a     *)
(* period; integers index an array.                                        *)
CompileJsonPath(transforms) ==
    [i \in 1..Len(transforms) |->
        LET k == transforms[i]
        IN  IF k \in Indexes THEN Piece("[", k, 0)
            ELSE Piece(IF i = 1 THEN ":" ELSE ".", k, 2)]

(* key_transform and key_text_transform: TO_JSON(column path) and          *)
(* column path::VARCHAR. *)
KeyTransform ==
    \E transforms \in Paths : sql' = {CompileJsonPath(transforms)}

(* HasKeyLookup.compile_json_path_final_key: never an array index. *)
FinalKey(k) == Piece(".", k, 1)

(* If this is the only key, the separator must be a colon. *)
KeyPath(transforms) ==
    LET n == Len(transforms)
        front == CompileJsonPath(SubSeq(transforms, 1, n - 1))
        final == FinalKey(transforms[n])
    IN  Append(front, IF n = 1 THEN [final EXCEPT !.sep = ":"] ELSE final)

(* What the % operator makes of a text in which signs are doubled. *)
Interpolated(path) ==
    [i \in DOMAIN path |-> [path[i] EXCEPT !.signs = @ \div 2]]

(* has_key_lookup: one statement for has_key; has_keys and has_any_keys    *)
(* put each path into a template that already has the left-hand side.      *)
HasKeyLookup ==
    \E left \in Paths \cup {<<>>} :
        LET lhs == CompileJsonPath(left)
        IN  \/ \E right \in Paths : sql' = {lhs \o KeyPath(right)}
            \/ \E several \in SUBSET Paths \ {{}} :
                   sql' = {Interpolated(lhs) \o KeyPath(right) : right \in several}

Next == KeyTransform \/ HasKeyLookup

Spec == Init /\ [][Next]_sql
-----------------------------------------------------------------------------
(* Every path begins with a colon or an index, wherever it was put         *)
(* together from: the left-hand side, the keys before the last one, or the *)
(* last one alone.                                                         *)
PathsBeginAtTheColumn ==
    \A path \in sql : path # <<>> /\ path[1].sep \in {":", "["}

(* Percent signs are doubled when the statement is given to the cursor     *)
(* (lookups.py:20 "Escape percent literals since                           *)
(* snowflake-connector-python uses interpolation to bind parameters").     *)
PercentsAreEscaped ==
    \A path \in sql : \A i \in DOMAIN path : path[i].signs # 1
=============================================================================
