---------------------------- MODULE SchemaChange ----------------------------
(***************************************************************************)
(* Two migrations of one column, executed by DatabaseSchemaEditor          *)
(* (schema.py): the first adds the column to a table that has rows, the    *)
(* second alters it.  Snowflake has no transaction around DDL, so every    *)
(* statement takes effect by itself: application processes insert rows     *)
(* between any two of them, a statement may raise, and `migrate` is run    *)
(* again after an exception.  A migration is recorded when its operation   *)
(* returned.                                                               *)
(***************************************************************************)
EXTENDS Naturals, Sequences

CONSTANTS Rows,       \* rows the table may get
          MaxFaults   \* statements that raise for a reason of their own

ASSUME ConstantsOK == MaxFaults \in Nat

(* What the operations look at in a model field: a many-to-many field and  *)
(* a GenericForeignKey have no column; an AutoField numbers its rows.      *)
Fields == [kind : {"plain", "auto", "m2m", "virtual"},
           null : BOOLEAN, default : BOOLEAN, type : {"narrow", "wide"}]

HasColumn(f) == f.kind \in {"plain", "auto"}

(* The fields Django's system checks accept. *)
IsField(f) ==
    /\ f.kind = "auto" => ~f.null /\ ~f.default
    /\ ~HasColumn(f) => f.null /\ ~f.default /\ f.type = "narrow"

VARIABLES field,    \* field[i]: the field as migration i leaves it in the model
          column,   \* the column in the database, or NoColumn
          through,  \* the table of a many-to-many field exists
          value,    \* value[r]: what row r has in the column; "none" if there is
                    \* no such row
          first,    \* rows that were in the table when migration 1 began
          done,     \* number of migrations that are recorded
          begun,    \* a run of migration done + 1 has begun
          todo,     \* statements that remain of the running operation
          running,  \* `migrate` is in an operation
          faults    \* statements that raised for a reason of their own

vars == <<field, column, through, value, first, done, begun, todo, running, faults>>

NoColumn == [there |-> FALSE, null |-> TRUE, auto |-> FALSE, type |-> "narrow"]

Present == {r \in Rows : value[r] # "none"}

Init ==
    /\ field \in [1..2 -> {f \in Fields : IsField(f)}]
    /\ HasColumn(field[2]) /\ (field[1].type = "wide" => field[2].type = "wide")
    /\ column = NoColumn
    /\ through = FALSE
    /\ \E R \in SUBSET Rows :
          value = [r \in Rows |-> IF r \in R THEN "null" ELSE "none"]
    /\ first = {}
    /\ done = 0 /\ begun = FALSE /\ running = FALSE /\ todo = <<>>
    /\ faults = 0
-----------------------------------------------------------------------------
(* The statements of an operation, in their order                           *)

When(cond, statement) == IF cond THEN <<statement>> ELSE <<>>

(* A definition that has NOT NULL from the start. *)
ColumnNotNull(f) == [there |-> TRUE, null |-> f.null, auto |-> f.kind = "auto",
                     type |-> f.type]

(* column_sql(..., exclude_not_null=True), and the suffix AUTOINCREMENT. *)
ColumnSql(f) == [there |-> TRUE, null |-> TRUE, auto |-> f.kind = "auto",
                 type |-> f.type]

(* Default values only for columns that are going to be NOT NULL. *)
FillsIfNotNull(f) == f.default /\ ~f.null

(* `effective_default is not None` *)
Fills(f) == f.default

(* add_field: ADD COLUMN, UPDATE, ALTER COLUMN SET NOT NULL. *)
AddField(f) ==
    CASE f.kind = "m2m" -> <<"create through">>
      [] f.kind = "virtual" -> <<>>
      [] OTHER -> <<"add column">>
                  \o When(Fills(f), "fill")
                  \o When(~f.null, "set not null")

(* skip_default_on_alter *)
SkipDefaultOnAlter(g) == TRUE

(* BaseDatabaseSchemaEditor._alter_field, which is Django's. *)
BaseAlterField(f, g) ==
    When(f.type # g.type, "set type")
    \o When(~SkipDefaultOnAlter(g) /\ f.null /\ ~g.null /\ g.default, "set default")
    \o When(f.null /\ ~g.null /\ g.default, "fill nulls")
    \o When(f.null # g.null, IF g.null THEN "drop not null" ELSE "set not null")

(* An alteration to an AutoField that is let through, and one that is      *)
(* refused even if the old field was an AutoField.                         *)
NoRaise(f, g) == <<>>

(* NotSupportedError, raised when the statements before it have been done. *)
RaiseIfToAuto(f, g) == When(f.kind # "auto" /\ g.kind = "auto", "raise")

(* _alter_field *)
AlterField(f, g) ==
    BaseAlterField(f, g) \o RaiseIfToAuto(f, g)
    \o When(f.kind = "auto" /\ g.kind # "auto", "drop default")
-----------------------------------------------------------------------------
(* manage.py migrate                                                        *)

(* Migration 2 alters the column of migration 1, or adds one if that had   *)
(* none.                                                                   *)
Operation ==
    IF done = 0 \/ ~HasColumn(field[1]) THEN AddField(field[done + 1])
    ELSE AlterField(field[1], field[2])

Begin ==
    /\ ~running /\ done < 2
    /\ running' = TRUE
    /\ begun' = TRUE
    /\ todo' = Operation
    /\ first' = IF begun \/ done > 0 THEN first ELSE Present
    /\ UNCHANGED <<field, column, through, value, done, faults>>

(* The operation returned: the migration is recorded. *)
Record ==
    /\ running /\ todo = <<>>
    /\ running' = FALSE
    /\ done' = done + 1
    /\ begun' = FALSE
    /\ UNCHANGED <<field, column, through, value, first, todo, faults>>

(* An exception ends `migrate`; nothing is rolled back. *)
Abort ==
    /\ running' = FALSE
    /\ todo' = <<>>
    /\ UNCHANGED <<field, done, begun, first>>

(* What Snowflake refuses. *)
Refused(statement) ==
    \/ statement = "create through" /\ through
    \/ statement = "add column" /\ column.there
    \/ /\ statement = "add column" /\ Present # {}
       /\ ColumnSql(field[done + 1]).auto \/ ~ColumnSql(field[done + 1]).null
    \/ statement = "set not null" /\ \E r \in Rows : value[r] = "null"
    \/ statement \in {"set default", "raise"}

(* What a statement does to the column, the through table and the rows. *)
Effect(statement) ==
    /\ column' =
          CASE statement = "add column" -> ColumnSql(field[done + 1])
            [] statement = "set type" -> [column EXCEPT !.type = field[2].type]
            [] statement = "set not null" -> [column EXCEPT !.null = FALSE]
            [] statement = "drop not null" -> [column EXCEPT !.null = TRUE]
            [] statement = "drop default" -> [column EXCEPT !.auto = FALSE]
            [] OTHER -> column
    /\ through' = (through \/ statement = "create through")
    /\ value' = [r \in Rows |->
                    IF \/ statement = "fill" /\ value[r] # "none"
                       \/ statement = "fill nulls" /\ value[r] = "null"
                    THEN "default" ELSE value[r]]

(* DatabaseSchemaEditor.execute *)
Execute ==
    /\ todo # <<>>
    /\ ~Refused(Head(todo))
    /\ Effect(Head(todo))
    /\ todo' = Tail(todo)
    /\ UNCHANGED <<field, first, done, begun, running, faults>>

(* NotSupportedError, or an error of Snowflake. *)
Raise ==
    /\ todo # <<>>
    /\ Refused(Head(todo))
    /\ Abort
    /\ UNCHANGED <<column, through, value, faults>>

(* The connection fails, before or after the statement took effect. *)
Fault ==
    /\ todo # <<>> /\ ~Refused(Head(todo))
    /\ faults < MaxFaults
    /\ faults' = faults + 1
    /\ Effect(Head(todo)) \/ UNCHANGED <<column, through, value>>
    /\ Abort
-----------------------------------------------------------------------------
(* The application inserts a row: a process that does not know the column  *)
(* leaves it out; one whose model has it, deployed after the migration was *)
(* recorded, gives a value.                                                *)
Insert(r) ==
    /\ value[r] = "none"
    /\ \/ /\ column.null \/ column.auto
          /\ value' = [value EXCEPT ![r] = IF column.auto THEN "number" ELSE "null"]
       \/ /\ done > 0 /\ column.there
          /\ value' = [value EXCEPT ![r] = "given"]
    /\ UNCHANGED <<field, column, through, first, done, begun, todo, running, faults>>

Finished == done = 2 /\ UNCHANGED vars

Migrate == Begin \/ Execute \/ Raise \/ Record

Next == Migrate \/ Fault \/ (\E r \in Rows : Insert(r)) \/ Finished

Spec == Init /\ [][Next]_vars

(* `migrate` is run again until it succeeds. *)
FairSpec == Spec /\ WF_vars(Migrate)
-----------------------------------------------------------------------------
(* A migration that is recorded has been done: the column (or the table of *)
(* the many-to-many field) is what the model says, also after statements   *)
(* raised, in whatever place, and migrate was run again.  In particular no *)
(* column without AUTOINCREMENT is recorded as an AutoField.               *)
RecordedIsDone ==
    (done > 0 /\ ~begun) =>
        LET f == field[done]
        IN  /\ f.kind = "m2m" => through
            /\ HasColumn(f) => column = [ColumnSql(f) EXCEPT !.null = f.null]

(* The rows that were in the table have the default of the field, whether  *)
(* or not the column is NOT NULL (schema.py:61 "Set default values on      *)
(* existing rows").                                                        *)
ExistingRowsFilled ==
    (done = 1 /\ field[1].default) => \A r \in first : value[r] # "null"

(* A field that has a default, or may be null, can be added to a table     *)
(* with rows (schema.py:74 "otherwise a database default would be          *)
(* required"): if no statement fails and no row comes in between, the      *)
(* migration gets recorded.                                                *)
AddSucceeds ==
    LET f == field[1]
        addable == first = {} \/ (f.kind # "auto" /\ (f.null \/ f.default))
        disturbed == faults > 0 \/ Present # first
    IN  (done = 0 /\ begun) ~> (done > 0 \/ ~addable \/ disturbed)

=============================================================================
