---------------------------- MODULE KeyAssignment ----------------------------
(***************************************************************************)
(* How a new object comes to its primary key: SQLInsertCompiler.as_sql     *)
(* (compiler.py) makes the INSERT, the sequence of the column numbers the  *)
(* row, and because Snowflake returns nothing, last_insert_id              *)
(* (operations.py) then asks for the greatest key in the table.  Threads   *)
(* that save, delete and flush come in between.  Whether numbers ascend is *)
(* decided when the table is created, by a parameter that                  *)
(* init_connection_state (base.py) sets for every session; how a table     *)
(* comes to be created in such a session is the matter of TableCreation.   *)
(***************************************************************************)
EXTENDS Naturals

CONSTANTS Objects,  \* model instances, each saved once by a thread of its own
          Keys,     \* primary keys
          None      \* no key

ASSUME ConstantsOK == Keys \subseteq Nat /\ None \notin Keys

VARIABLES prepared,  \* the table was created in a session that was prepared
          given,     \* numbers the sequence has given since it was created or reset
          pc,        \* pc[o]: how far the call that saves o has come
          pk,        \* pk[o]: the attribute pk of o
          key,       \* key[o]: the key of the row inserted for o
          present,   \* objects whose row is in the table
          open,      \* objects whose row belongs to an open transaction
          (* what the properties need to know of the past *)
          explicit,  \* objects that were saved with a key chosen by the caller
          overlap,   \* overlap[o]: rows inserted between o's two statements
          gone,      \* objects whose row was deleted between the two
          retired,   \* objects inserted before sequences were last reset
          outlived   \* those of them whose row was in an open transaction then

past == <<explicit, overlap, gone, retired, outlived>>
vars == <<prepared, given, pc, pk, key, present, open, past>>

Init ==
    /\ prepared \in BOOLEAN
    /\ given = {}
    /\ pc = [o \in Objects |-> "new"]
    /\ pk = [o \in Objects |-> None]
    /\ key = [o \in Objects |-> None]
    /\ present = {} /\ open = {}
    /\ explicit = {} /\ gone = {} /\ retired = {} /\ outlived = {}
    /\ overlap = [o \in Objects |-> {}]

Goto(o, step) == pc' = [pc EXCEPT ![o] = step]
-----------------------------------------------------------------------------
(* The table and its sequence                                               *)

(* The kind of sequence that AUTOINCREMENT gets: a prepared session has    *)
(* NOORDER_SEQUENCE_AS_DEFAULT=False, Snowflake's default is True.         *)
SequenceOrder(isPrepared) == IF isPrepared THEN "order" ELSE "noorder"

(* An ordered sequence ascends, perhaps with gaps; the other kind promises *)
(* only that its numbers differ.                                           *)
NextKeys == IF SequenceOrder(prepared) = "order"
            THEN {k \in Keys : \A j \in given : j < k}
            ELSE Keys \ given

(* Others are between their two statements when the rows of B come. *)
Overlapped(B) ==
    overlap' = [o \in Objects |-> IF pc[o] = "reading" THEN overlap[o] \cup (B \ {o})
                                  ELSE overlap[o]]

(* The key of o is nobody's concern any more. *)
Settled(o) == overlap' = [overlap EXCEPT ![o] = {}]

(* One statement inserts a row for each object of B. *)
InsertRows(B) ==
    /\ \E f \in [B -> NextKeys] :
          /\ \A o, p \in B : f[o] = f[p] => o = p
          /\ key' = [o \in Objects |-> IF o \in B THEN f[o] ELSE key[o]]
          /\ given' = given \cup {f[o] : o \in B}
    /\ present' = present \cup B
    /\ Overlapped(B)
    /\ UNCHANGED <<pk, explicit, gone, retired, outlived>>
-----------------------------------------------------------------------------
(* INSERT                                                                   *)

(* has_bulk_insert is Django's default, True; can_return_columns_from_     *)
(* insert is False, so only last_insert_id answers for returning_fields.   *)
CanBulk(returning) == ~returning

(* The rows of each statement of as_sql: all in one, or one statement per  *)
(* object.                                                                 *)
AsSql(objs, returning) == IF CanBulk(returning) THEN {objs} ELSE {{o} : o \in objs}

(* Model.save(), by itself or in a transaction; it wants the key returned. *)
Save(o) ==
    /\ pc[o] = "new"
    /\ \E B \in AsSql({o}, TRUE) :
          /\ InsertRows(B)
          /\ open' \in {open, open \cup B}
    /\ Goto(o, "reading")

(* Model.save() of an object that has a pk: Django's UPDATE finds no row,  *)
(* and the key is in the INSERT.                                           *)
SaveExplicit(o, k) ==
    /\ pc[o] = "new"
    /\ \A p \in present : key[p] # k
    /\ key' = [key EXCEPT ![o] = k]
    /\ pk' = [pk EXCEPT ![o] = k]
    /\ present' = present \cup {o}
    /\ explicit' = explicit \cup {o}
    /\ Overlapped({o})
    /\ open' \in {open, open \cup {o}}
    /\ Goto(o, "reading")
    /\ UNCHANGED <<given, gone, retired, outlived>>

(* bulk_create() in its transaction: it wants nothing returned, and the    *)
(* objects stay without a key.                                             *)
BulkCreate(objs) ==
    /\ objs # {} /\ \A o \in objs : pc[o] = "new"
    /\ \E B \in AsSql(objs, FALSE) :
          /\ InsertRows(B)
          /\ open' = open \cup B
          /\ pc' = [o \in Objects |-> IF o \in B THEN "bulk" ELSE pc[o]]

(* The INSERT raises; its row may be there nevertheless. *)
InsertRaises(o) ==
    /\ pc[o] = "new"
    /\ \/ InsertRows({o}) /\ UNCHANGED open
       \/ UNCHANGED <<given, pk, key, present, open, past>>
    /\ Goto(o, "raised")
-----------------------------------------------------------------------------
(* SELECT MAX(pk)                                                           *)

(* Committed rows, and those of one's own transaction. *)
Visible(o) == (present \ open) \cup (present \cap {o})

(* A query that takes some row for the last one. *)
SomeKey(S) == IF S = {} THEN {None} ELSE S

(* last_insert_id: MAX of no rows is NULL. *)
LastInsertId(S) == IF S = {} THEN {None} ELSE {k \in S : \A j \in S : j <= k}

ReadKey(o) ==
    /\ pc[o] = "reading"
    /\ \E k \in LastInsertId({key[p] : p \in Visible(o)}) : pk' = [pk EXCEPT ![o] = k]
    /\ Goto(o, "saved")
    /\ UNCHANGED <<given, key, present, open, past>>

(* A rollback that takes the row away and forgets that this ends it. *)
UndoneStillOpen(o) ==
    /\ present' = IF o \in open THEN present \ {o} ELSE present
    /\ UNCHANGED open

(* A row that was inserted in a transaction goes with it. *)
Undone(o) ==
    /\ present' = IF o \in open THEN present \ {o} ELSE present
    /\ open' = open \ {o}

(* The query raises: in a transaction the row is rolled back, otherwise it *)
(* stays without an object that knows it.                                  *)
ReadRaises(o) ==
    /\ pc[o] = "reading"
    /\ Undone(o)
    /\ Settled(o)
    /\ Goto(o, "raised")
    /\ UNCHANGED <<given, pk, key, explicit, gone, retired, outlived>>
-----------------------------------------------------------------------------
(* Later life of the rows                                                   *)

Commit(o) ==
    /\ o \in open /\ pc[o] # "reading"
    /\ open' = open \ {o}
    /\ UNCHANGED <<given, pc, pk, key, present, past>>

Rollback(o) ==
    /\ o \in open /\ pc[o] # "reading"
    /\ Undone(o)
    /\ Settled(o)
    /\ Goto(o, "raised")
    /\ UNCHANGED <<given, pk, key, explicit, gone, retired, outlived>>

(* Rows D leave the table while others may be between their statements. *)
Remove(D) ==
    /\ present' = present \ D
    /\ gone' = gone \cup {o \in D : pc[o] = "reading"}

(* Model.delete(): all visible rows that have the object's pk. *)
Delete(o) ==
    /\ pc[o] = "saved" /\ pk[o] # None /\ o \notin open
    /\ Remove({p \in Visible(o) : key[p] = pk[o]})
    /\ Settled(o)
    /\ Goto(o, "deleted")
    /\ UNCHANGED <<given, pk, key, open, explicit, retired, outlived>>

(* A flush that takes the fastest statement in any case. *)
AlwaysTruncate(reset) == "TRUNCATE"

(* sql_flush: DELETE to preserve sequences. *)
SqlFlush(reset) == IF reset THEN "TRUNCATE" ELSE "DELETE"

(* The flush command, or the end of a TransactionTestCase.  Transactions   *)
(* that are open elsewhere keep their rows, and their rows' numbers.       *)
Flush(reset) ==
    /\ Remove(present \ open)
    /\ given' = IF SqlFlush(reset) = "TRUNCATE" THEN {} ELSE given
    /\ retired' = IF reset THEN {o \in Objects : key[o] # None} ELSE retired
    /\ outlived' = IF reset THEN outlived \cup open ELSE outlived
    /\ UNCHANGED <<pc, pk, key, open, explicit, overlap>>
-----------------------------------------------------------------------------
Step ==
    \/ \E o \in Objects :
          \/ Save(o) \/ InsertRaises(o) \/ ReadKey(o) \/ ReadRaises(o)
          \/ Commit(o) \/ Rollback(o) \/ Delete(o)
          \/ \E k \in Keys : SaveExplicit(o, k)
    \/ \E objs \in SUBSET Objects : BulkCreate(objs)
    \/ \E reset \in BOOLEAN : Flush(reset)

(* A table keeps the kind of sequence it was created with. *)
Next == Step /\ UNCHANGED prepared

Spec == Init /\ [][Next]_vars
-----------------------------------------------------------------------------
(* An object has a row exactly when an INSERT for it took effect. *)
TypeOK ==
    /\ prepared \in BOOLEAN /\ given \subseteq Keys
    /\ pc \in [Objects -> {"new", "reading", "saved", "bulk", "raised", "deleted"}]
    /\ pk \in [Objects -> Keys \cup {None}]
    /\ key \in [Objects -> Keys \cup {None}]
    /\ open \subseteq present /\ present \subseteq {o \in Objects : key[o] # None}
    /\ \A o \in Objects : pc[o] \in {"reading", "saved", "bulk"} => key[o] # None
    /\ explicit \subseteq Objects /\ gone \subseteq Objects
    /\ retired \subseteq Objects /\ outlived \subseteq Objects
    /\ overlap \in [Objects -> SUBSET Objects]

(* An object that was given the key of another row was overtaken, between  *)
(* its own INSERT and SELECT MAX, by the INSERT of that row or by the      *)
(* deletion of its own; or the row is one whose number does not come from  *)
(* the sequence as it is now: its key was chosen by a caller, which        *)
(* README.md warns of, or its transaction was open while sequences were    *)
(* reset.                                                                  *)
WrongKeyHasReason ==
    \A o \in Objects \ (explicit \cup gone) :
        (pc[o] = "saved" /\ pk[o] # key[o]) =>
            \E p \in overlap[o] \cup explicit \cup outlived : pk[o] = key[p]

(* With an ordered sequence, the race that last_insert_id concedes         *)
(* (operations.py:137 "subject to race conditions") and such rows are the  *)
(* only way to a wrong key.  Rows that were open in a transaction at that  *)
(* time, rolled back, deleted or flushed do no harm otherwise.             *)
WrongKeyOnlyByOverlap == prepared => WrongKeyHasReason

(* An object that nobody overtook names its own row and never, not even    *)
(* when its row was flushed long ago, the row of another object            *)
(* (operations.py:184 "DELETE to preserve sequences"), unless sequences    *)
(* were reset since or the greatest key it read is of a row that was not   *)
(* numbered by the present sequence: what it updates or deletes is its own.*)
ObjectsNameTheirRow ==
    prepared =>
        \A o \in Objects \ (gone \cup retired \cup explicit) :
            (/\ pc[o] = "saved" /\ overlap[o] = {}
             /\ \A q \in explicit \cup outlived : key[q] # pk[o]) =>
                \A p \in present : key[p] = pk[o] => p = o
=============================================================================
