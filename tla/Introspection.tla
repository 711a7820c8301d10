---------------------------- MODULE Introspection ----------------------------
(***************************************************************************)
(* DatabaseIntrospection.get_constraints (introspection.py): what three    *)
(* SHOW statements say of a table is collected into one dictionary, keyed  *)
(* by the name identifier_converter makes of a constraint's name.          *)
(* Snowflake returns the rows in any order, and another session may change *)
(* the table between the statements.  The names of the dictionary come     *)
(* back to the database through DatabaseOperations.quote_name, when the    *)
(* schema editor drops a constraint.                                       *)
(* get_table_description and get_field_type find the Django field of a     *)
(* column; they are checked against DatabaseWrapper.data_types (base.py).  *)
(***************************************************************************)
EXTENDS Naturals, Sequences, FiniteSets, Functions

CONSTANTS Words,        \* spellings of names a developer gave
          SystemWords,  \* spellings of names like SYS_CONSTRAINT_e8775210-...
          Columns,      \* columns of the table, with upper-case names
          MaxChanges    \* changes of the table while it is read

ASSUME ConstantsOK ==
    Words \cap SystemWords = {} /\ IsFiniteSet(Columns) /\ MaxChanges \in Nat

(* A name as Snowflake has it: a quoted name may have small letters, which *)
(* those the server generates always have.                                 *)
Names == [word : Words, case : {"upper", "mixed"}]
            \cup [word : SystemWords, case : {"mixed"}]

(* A constraint of the table.  The columns are in the order of their keys; *)
(* none occurs twice.                                                      *)
Constraints ==
    [name : Names, kind : {"foreign", "primary", "unique"},
     columns : UNION {Injection(1..n, Columns) : n \in 1..Cardinality(Columns)}]

(* The sets of constraints a table can have. *)
IsTable(T) ==
    \A k, l \in T : k # l =>
        k.name # l.name /\ ~(k.kind = "primary" /\ l.kind = "primary")

VARIABLES table,     \* the constraints of the table now
          always,    \* constraints it had all the time
          ever,      \* constraints it had at some time
          changes,   \* number of changes made by another session
          step,      \* the statement whose rows are read, or how it ended
          unread,    \* rows of that statement still to be read
          dict,      \* the local variable `constraints`
          orders,    \* the local variable `unique_column_orders`
          described  \* the column described, with the field found for it

vars == <<table, always, ever, changes, step, unread, dict, orders, described>>
-----------------------------------------------------------------------------
(* A converter without the special case for generated names. *)
AllLowered(n) == [word |-> n.word, case |-> "lower", quoted |-> FALSE]

(* identifier_converter: generated names are quoted, others lower-cased. *)
IdentifierConverter(n) ==
    IF n.word \in SystemWords
    THEN [word |-> n.word, case |-> n.case, quoted |-> TRUE]
    ELSE [word |-> n.word, case |-> "lower", quoted |-> FALSE]

(* quote_name: a quoted name is left alone, another one upper-cased. *)
QuoteName(m) ==
    [word |-> m.word, case |-> IF m.quoted THEN m.case ELSE "upper"]

(* The rows of a SHOW statement: one for every column of a constraint. *)
RowsOf(kind) ==
    UNION {{[key |-> k, seq |-> i] : i \in DOMAIN k.columns} :
              k \in {l \in table : l.kind = kind}}

Entry(kind, columns) == [kind |-> kind, columns |-> columns]

With(d, key, entry) ==
    [n \in DOMAIN d \cup {key} |-> IF n = key THEN entry ELSE d[n]]

Empty == [n \in {} |-> 0]

Init ==
    /\ \E k, l \in Constraints : table \in {{}, {k, l}}
    /\ IsTable(table)
    /\ always = table /\ ever = table /\ changes = 0
    /\ step = "start" /\ unread = {}
    /\ dict = Empty /\ orders = Empty
    /\ described = <<>>

(* cursor.execute of the next SHOW statement *)
Show(from, kind) ==
    /\ step = from /\ unread = {}
    /\ step' = kind
    /\ unread' = RowsOf(kind)
    /\ UNCHANGED <<table, always, ever, changes, dict, orders, described>>

(* A foreign or primary key: an entry of that name is replaced. *)
KeyRow(row) ==
    /\ row \in unread
    /\ step \in {"foreign", "primary"}
    /\ unread' = unread \ {row}
    /\ dict' = With(dict, IdentifierConverter(row.key.name),
                    Entry(step, <<row.key.columns[row.seq]>>))
    /\ UNCHANGED <<table, always, ever, changes, step, orders, described>>

(* Orders that are noted for the later rows of a constraint only. *)
NotFirst(key, row) == orders

(* The list that is begun for a constraint with its first row. *)
FirstOrder(key, row) ==
    With(orders, key, <<[seq |-> row.seq, column |-> row.key.columns[row.seq]]>>)

(* A unique constraint: a name that is there already stands for another    *)
(* column of it.                                                           *)
UniqueRow(row) ==
    LET key == IdentifierConverter(row.key.name)
        column == row.key.columns[row.seq]
    IN  /\ row \in unread
        /\ step = "unique"
        /\ unread' = unread \ {row}
        /\ IF key \notin DOMAIN dict
           THEN /\ dict' = With(dict, key, Entry("unique", <<column>>))
                /\ orders' = FirstOrder(key, row)
                /\ UNCHANGED step
           ELSE /\ dict' = [dict EXCEPT ![key].columns = Append(@, column)]
                /\ IF key \in DOMAIN orders
                   THEN /\ orders' = [orders EXCEPT
                              ![key] = Append(@, [seq |-> row.seq, column |-> column])]
                        /\ UNCHANGED step
                   ELSE step' = "KeyError" /\ UNCHANGED orders
        /\ UNCHANGED <<table, always, ever, changes, described>>

(* The columns in the order in which their rows came. *)
AsRead(list) == [i \in DOMAIN list |-> list[i].column]

(* The orders in which the elements of a list can be put. *)
Reordered(list) ==
    {[i \in DOMAIN list |-> list[p[i]]] : p \in Bijection(DOMAIN list, DOMAIN list)}

(* `[col for _, col in sorted(orders)]` *)
Sorted(list) ==
    AsRead(CHOOSE l \in Reordered(list) :
              \A i, j \in DOMAIN l : i < j => l[i].seq <= l[j].seq)

Order ==
    /\ step = "unique" /\ unread = {}
    /\ dict' = [n \in DOMAIN dict |->
                   IF n \in DOMAIN orders
                   THEN [dict[n] EXCEPT !.columns = Sorted(orders[n])]
                   ELSE dict[n]]
    /\ step' = "done"
    /\ UNCHANGED <<table, always, ever, changes, unread, orders, described>>

(* Another session adds or drops a constraint. *)
TableChanges ==
    /\ changes < MaxChanges
    /\ step \in {"foreign", "primary"}
    /\ \E k \in Constraints :
          /\ table' = IF k \in table THEN table \ {k} ELSE table \cup {k}
          /\ IsTable(table')
    /\ changes' = changes + 1
    /\ always' = always \cap table'
    /\ ever' = ever \cup table'
    /\ UNCHANGED <<step, unread, dict, orders, described>>
-----------------------------------------------------------------------------
(* Columns and fields                                                       *)

(* What DESCRIBE TABLE shows of a column: the name of its data type, the    *)
(* numbers in the parentheses after it, and IDENTITY in its default.        *)
Column(name, numbers) == [name |-> name, numbers |-> numbers, identity |-> FALSE]
Identity(column) == [column EXCEPT !.identity = TRUE]

(* VARCHAR without a size. *)
DefaultSize == 16777216

(* data_types_reverse, for the types that only one field has ... *)
PlainFields ==
    [BINARY |-> "BinaryField", BOOLEAN |-> "BooleanField", DATE |-> "DateField",
     FLOAT |-> "FloatField", TIME |-> "TimeField",
     TIMESTAMP_LTZ |-> "DateTimeField", VARIANT |-> "JSONField"]

(* ... and data_types with data_types_suffix; numbers are those of the      *)
(* field: max_length, or max_digits and decimal_places.  Fields that share  *)
(* the data type of another one are left out.                               *)
DataType(field, numbers) ==
    CASE field = "SmallIntegerField" -> Column("NUMBER", <<5, 0>>)
      [] field = "IntegerField" -> Column("NUMBER", <<10, 0>>)
      [] field = "BigIntegerField" -> Column("NUMBER", <<38, 0>>)
      [] field = "SmallAutoField" -> Identity(Column("NUMBER", <<5, 0>>))
      [] field = "AutoField" -> Identity(Column("NUMBER", <<10, 0>>))
      [] field = "BigAutoField" -> Identity(Column("NUMBER", <<38, 0>>))
      [] field = "DecimalField" -> Column("NUMBER", numbers)
      [] field = "CharField" -> Column("VARCHAR", numbers)
      [] field = "TextField" -> Column("VARCHAR", <<DefaultSize>>)
      [] OTHER -> Column(CHOOSE n \in DOMAIN PlainFields : PlainFields[n] = field, <<>>)

(* The columns that fields have in the database. *)
ColumnsOfFields ==
    {DataType(f, <<>>) : f \in Range(PlainFields) \cup
        {"SmallIntegerField", "IntegerField", "BigIntegerField", "SmallAutoField",
         "AutoField", "BigAutoField", "TextField"}}
    \cup {DataType("DecimalField", <<p, s>>) : p \in {5, 10, 12}, s \in {0, 2, 5}}
    \cup {DataType("CharField", <<n>>) : n \in {1, 32, DefaultSize}}

(* A width that stands for a field whatever the scale is. *)
AnyScale(c) == c.name = "NUMBER"

(* `description.scale != 0` does not apply. *)
IsInteger(c) == c.name = "NUMBER" /\ c.numbers[2] = 0

(* get_field_type *)
FieldType(c) ==
    LET auto(field, autofield) == IF c.identity THEN autofield ELSE field
    IN  CASE c = Column("VARCHAR", <<DefaultSize>>) -> "TextField"
          [] c.name = "VARCHAR" /\ c.numbers # <<DefaultSize>> -> "CharField"
          [] c.name = "NUMBER" /\ ~IsInteger(c) -> "DecimalField"
          [] IsInteger(c) -> CASE c.numbers[1] = 5 -> auto("SmallIntegerField", "SmallAutoField")
                               [] c.numbers[1] = 10 -> auto("IntegerField", "AutoField")
                               [] OTHER -> auto("BigIntegerField", "BigAutoField")
          [] OTHER -> PlainFields[c.name]

(* get_table_description, then get_field_type for a column. *)
Describe ==
    /\ step = "start"
    /\ \E c \in ColumnsOfFields : described' = <<c, FieldType(c)>>
    /\ step' = "described"
    /\ UNCHANGED <<table, always, ever, changes, unread, dict, orders>>

GetConstraints ==
    \/ Show("start", "foreign") \/ Show("foreign", "primary") \/ Show("primary", "unique")
    \/ \E row \in unread : KeyRow(row) \/ UniqueRow(row)
    \/ Order

(* The method has returned or raised. *)
Returned == step \in {"done", "KeyError", "described"} /\ UNCHANGED vars

Next == GetConstraints \/ TableChanges \/ Describe \/ Returned

Spec == Init /\ [][Next]_vars
-----------------------------------------------------------------------------
(* No other constraint the table had has a name that is converted alike.   *)
Alone(k) == \A l \in ever \ {k} :
    IdentifierConverter(l.name) # IdentifierConverter(k.name)

(* A constraint that was there all the time is in the result as it is,     *)
(* whatever the order of the rows and whatever else was added or dropped   *)
(* meanwhile: a unique constraint with its columns in their order, a key   *)
(* of one column with that column.                                         *)
StableConstraintsAreFound ==
    step = "done" =>
        \A k \in always :
            (Alone(k) /\ (k.kind = "unique" \/ Len(k.columns) = 1)) =>
                LET n == IdentifierConverter(k.name)
                IN  n \in DOMAIN dict /\ dict[n] = Entry(k.kind, k.columns)

(* "If the constraint name is already present, this is a multi-column      *)
(* unique constraint" (introspection.py:96): it raises KeyError only if    *)
(* the name stood for a key, by another spelling or before a change.       *)
RaisesOnlyForTwoNames ==
    step = "KeyError" =>
        \E k, l \in ever : /\ k # l /\ k.kind # "unique" /\ l.kind = "unique"
                           /\ IdentifierConverter(k.name) = IdentifierConverter(l.name)

(* quote_name() reverses identifier_converter() (introspection.py:208) for *)
(* names in capitals and for generated names: the schema editor can drop   *)
(* the constraints it found.                                               *)
FoundNamesCanBeDropped ==
    step = "done" =>
        \A k \in always :
            (k.name.case = "upper" \/ k.name.word \in SystemWords) =>
                \E n \in DOMAIN dict : QuoteName(n) = k.name

(* inspectdb finds a field whose column is the column described, with one  *)
(* exception: a DecimalField without decimal places becomes an integer.    *)
FieldsHaveTheirColumn ==
    described # <<>> =>
        LET c == described[1]
        IN  \/ DataType(described[2], c.numbers) = c
            \/ c.name = "NUMBER" /\ c.numbers[2] = 0 /\ c.numbers[1] \notin {5, 10, 38}
=============================================================================
