------------------------- MODULE SchemaChange_proofs -------------------------
(***************************************************************************)
(* Proofs about SchemaChange for any rows and any number of faults.        *)
(***************************************************************************)
EXTENDS SchemaChange, SequenceTheorems, TLAPS

AlterStatements == {"set type", "fill nulls", "set not null", "drop not null",
                    "raise", "drop default"}

Statements == {"create through", "add column", "fill"} \cup AlterStatements

ColumnTypes == [there : BOOLEAN, null : BOOLEAN, auto : BOOLEAN,
                type : {"narrow", "wide"}]

Types ==
    /\ field \in [1..2 -> {f \in Fields : IsField(f)}] /\ HasColumn(field[2])
    /\ column \in ColumnTypes /\ through \in BOOLEAN
    /\ value \in [Rows -> {"none", "null", "default", "number", "given"}]
    /\ done \in 0..2 /\ begun \in BOOLEAN /\ running \in BOOLEAN
    /\ running => begun
    /\ begun => done < 2
    /\ todo \in Seq(Statements)
    /\ ~running => todo = <<>>

(* Statements in s, whatever their order. *)
StatementsOf(s) == {s[i] : i \in 1..Len(s)}

Left == StatementsOf(todo)

(* The running migration, or the next one, adds a column. *)
Adds == done < 2 /\ (done = 0 \/ ~HasColumn(field[1]))

(* The running migration, or the next one, alters the column. *)
Alters == done = 1 /\ HasColumn(field[1])

(* ADD COLUMN is first.  After it the column is that of the field, except  *)
(* that SET NOT NULL may be left.                                          *)
ColumnIsAdded(g) ==
    /\ column.there /\ column.type = g.type /\ column.auto = (g.kind = "auto")
    /\ Left \subseteq (IF g.null THEN {"fill"} ELSE {"fill", "set not null"})
    /\ column.null = g.null \/ "set not null" \in Left

AddProgress ==
    (running /\ Adds) =>
        LET g == field[done + 1]
        IN  /\ g.kind = "m2m" => through \/ "create through" \in Left
            /\ HasColumn(g) => todo = AddField(g) \/ ColumnIsAdded(g)

(* An alteration that was interrupted left a column between the old and    *)
(* the new field.                                                          *)
ColumnIsBetween(f, g) ==
    /\ column.there
    /\ column.type \in {f.type, g.type}
    /\ column.null \in {f.null, g.null}
    /\ column.auto \in {f.kind = "auto", g.kind = "auto"}

(* What differs from the new field has a statement left that changes it.   *)
ChangesAreLeft(g) ==
    /\ Left \subseteq AlterStatements
    /\ "set type" \in Left \/ column.type = g.type
    /\ "set not null" \in Left => ~g.null
    /\ "drop not null" \in Left => g.null
    /\ \/ "set not null" \in Left \/ "drop not null" \in Left
       \/ column.null = g.null
    /\ "drop default" \in Left => g.kind # "auto"
    /\ \/ "drop default" \in Left \/ "raise" \in Left
       \/ column.auto = (g.kind = "auto")

AlterProgress ==
    Alters =>
        /\ ColumnIsBetween(field[1], field[2])
        /\ running => ChangesAreLeft(field[2])

(* The rows that were there stay there, and the UPDATE is left until they  *)
(* are filled.                                                             *)
FillProgress ==
    /\ first \subseteq Present
    /\ (running /\ done = 0 /\ field[1].default) =>
          \/ todo = AddField(field[1])
          \/ "fill" \in Left
          \/ \A r \in first : value[r] # "null"

IInv == /\ Types /\ RecordedIsDone /\ AddProgress /\ AlterProgress
        /\ FillProgress /\ ExistingRowsFilled
-----------------------------------------------------------------------------
(* Sequences of statements                                                  *)

LEMMA WhenStatements ==
    ASSUME NEW c \in BOOLEAN, NEW x \in Statements
    PROVE  /\ When(c, x) \in Seq(Statements)
           /\ StatementsOf(When(c, x)) = IF c THEN {x} ELSE {}
<1> HIDE DEF Statements
<1>1. CASE c
  <2>1. When(c, x) = <<x>>
    BY <1>1 DEF When
  <2>2. <<x>> \in Seq(Statements) /\ StatementsOf(<<x>>) = {x}
    BY DEF StatementsOf
  <2> QED BY <1>1, <2>1, <2>2
<1>2. CASE ~c
  <2>1. When(c, x) = <<>>
    BY <1>2 DEF When
  <2>2. <<>> \in Seq(Statements) /\ StatementsOf(<<>>) = {}
    BY DEF StatementsOf
  <2> QED BY <1>2, <2>1, <2>2
<1> QED BY <1>1, <1>2

LEMMA ConcatStatements ==
    ASSUME NEW s \in Seq(Statements), NEW t \in Seq(Statements)
    PROVE  /\ s \o t \in Seq(Statements)
           /\ StatementsOf(s \o t) = StatementsOf(s) \cup StatementsOf(t)
<1> DEFINE r == s \o t
           m == Len(s)
           n == Len(t)
<1>1. /\ r \in Seq(Statements) /\ Len(r) = m + n /\ m \in Nat /\ n \in Nat
      /\ \A i \in 1..(m + n) : r[i] = IF i <= m THEN s[i] ELSE t[i - m]
  BY ConcatProperties
<1> HIDE DEF r, Statements
<1>2. ASSUME NEW x \in StatementsOf(r)
      PROVE  x \in StatementsOf(s) \cup StatementsOf(t)
  <2>1. PICK i \in 1..(m + n) : x = r[i]
    BY <1>1 DEF StatementsOf
  <2>2. CASE i <= m
    BY <1>1, <2>1, <2>2 DEF StatementsOf
  <2>3. CASE i > m
    <3>1. i - m \in 1..n /\ x = t[i - m]
      BY <1>1, <2>1, <2>3
    <3> QED BY <3>1 DEF StatementsOf
  <2> QED BY <1>1, <2>2, <2>3
<1>3. ASSUME NEW x \in StatementsOf(s)
      PROVE  x \in StatementsOf(r)
  <2>1. PICK i \in 1..m : x = s[i]
    BY DEF StatementsOf
  <2>2. i \in 1..(m + n) /\ r[i] = s[i]
    BY <1>1
  <2> QED BY <1>1, <2>1, <2>2 DEF StatementsOf
<1>4. ASSUME NEW x \in StatementsOf(t)
      PROVE  x \in StatementsOf(r)
  <2>1. PICK i \in 1..n : x = t[i]
    BY DEF StatementsOf
  <2>2. i + m \in 1..(m + n) /\ ~(i + m <= m) /\ (i + m) - m = i
    BY <1>1
  <2>3. r[i + m] = t[i]
    BY <1>1, <2>2
  <2> QED BY <1>1, <2>1, <2>2, <2>3 DEF StatementsOf
<1> QED BY <1>1, <1>2, <1>3, <1>4 DEF r

(* A statement that leaves the sequence with its head was that head. *)
LEMMA TailStatements ==
    ASSUME NEW s \in Seq(Statements), s # <<>>
    PROVE  /\ Head(s) \in StatementsOf(s)
           /\ Tail(s) \in Seq(Statements)
           /\ StatementsOf(Tail(s)) \subseteq StatementsOf(s)
           /\ StatementsOf(s) = {Head(s)} \cup StatementsOf(Tail(s))
<1> DEFINE r == Tail(s)
           n == Len(s)
<1>1. /\ n \in Nat /\ n > 0 /\ Head(s) = s[1]
      /\ r \in Seq(Statements) /\ Len(r) = n - 1
      /\ \A i \in 1..n - 1 : r[i] = s[i + 1]
  <2>1. n \in Nat \ {0}
    BY EmptySeq
  <2>2. r \in Seq(Statements) /\ Len(r) = n - 1
        /\ \A i \in 1..Len(r) : r[i] = s[i + 1]
    BY HeadTailProperties
  <2> QED BY <2>1, <2>2
<1> HIDE DEF r, n, Statements
<1>2. Head(s) \in StatementsOf(s)
  BY <1>1 DEF StatementsOf, n
<1>3. ASSUME NEW x \in StatementsOf(r)
      PROVE  x \in StatementsOf(s)
  <2>1. PICK i \in 1..n - 1 : x = r[i]
    BY <1>1 DEF StatementsOf
  <2>2. i + 1 \in 1..n /\ x = s[i + 1]
    BY <1>1, <2>1
  <2> QED BY <2>2 DEF StatementsOf, n
<1>4. ASSUME NEW x \in StatementsOf(s), x # Head(s)
      PROVE  x \in StatementsOf(r)
  <2>1. PICK i \in 1..n : x = s[i]
    BY DEF StatementsOf, n
  <2>2. i - 1 \in 1..n - 1 /\ x = r[i - 1]
    BY <1>1, <1>4, <2>1
  <2> QED BY <1>1, <2>2 DEF StatementsOf
<1> QED BY <1>1, <1>2, <1>3, <1>4 DEF r

LEMMA FirstStatement ==
    ASSUME NEW x \in Statements, NEW t \in Seq(Statements)
    PROVE  /\ <<x>> \o t \in Seq(Statements) /\ <<x>> \o t # <<>>
           /\ Head(<<x>> \o t) = x /\ Tail(<<x>> \o t) = t
<1> DEFINE s == <<x>> \o t
<1> HIDE DEF Statements
<1>1. <<x>> \in Seq(Statements) /\ Len(<<x>>) = 1 /\ <<x>>[1] = x
  OBVIOUS
<1>2. /\ s \in Seq(Statements) /\ Len(s) = 1 + Len(t) /\ Len(t) \in Nat
      /\ \A i \in 1..(1 + Len(t)) : s[i] = IF i <= 1 THEN <<x>>[i] ELSE t[i - 1]
  BY <1>1, ConcatProperties
<1> HIDE DEF s
<1>3. s # <<>> /\ Head(s) = x
  BY <1>1, <1>2
<1>4. /\ Tail(s) \in Seq(Statements) /\ Len(Tail(s)) = Len(t)
      /\ \A i \in 1..Len(t) : Tail(s)[i] = t[i]
  BY <1>2, <1>3, HeadTailProperties
<1>5. Tail(s) = t
  BY <1>4, SeqEqual
<1> QED BY <1>2, <1>3, <1>5 DEF s

(* add_field begins with ADD COLUMN; what follows depends on the field. *)
LEMMA AddFieldStatements ==
    ASSUME NEW g \in Fields, IsField(g)
    PROVE  /\ AddField(g) \in Seq(Statements)
           /\ g.kind = "m2m" => AddField(g) = <<"create through">>
           /\ g.kind = "virtual" => AddField(g) = <<>>
           /\ HasColumn(g) =>
                 /\ AddField(g) # <<>> /\ Head(AddField(g)) = "add column"
                 /\ StatementsOf(Tail(AddField(g))) =
                       (IF g.default THEN {"fill"} ELSE {})
                       \cup (IF g.null THEN {} ELSE {"set not null"})
<1> DEFINE fill == When(Fills(g), "fill")
           strict == When(~g.null, "set not null")
<1>0. /\ g.kind \in {"plain", "auto", "m2m", "virtual"}
      /\ g.null \in BOOLEAN /\ g.default \in BOOLEAN
  BY DEF Fields
<1>1. CASE g.kind = "m2m"
  <2>1. AddField(g) = <<"create through">>
    BY <1>1 DEF AddField
  <2>2. <<"create through">> \in Seq(Statements)
    BY DEF Statements
  <2> QED BY <1>1, <2>1, <2>2 DEF HasColumn
<1>2. CASE g.kind = "virtual"
  <2>1. AddField(g) = <<>>
    BY <1>2 DEF AddField
  <2> QED BY <1>2, <2>1, EmptySeq DEF HasColumn
<1>3. CASE HasColumn(g)
  <2>1. /\ fill \in Seq(Statements) /\ strict \in Seq(Statements)
        /\ StatementsOf(fill) = IF g.default THEN {"fill"} ELSE {}
        /\ StatementsOf(strict) = IF g.null THEN {} ELSE {"set not null"}
    <3>1. "fill" \in Statements /\ "set not null" \in Statements /\ Fills(g) \in BOOLEAN
      BY <1>0 DEF Statements, AlterStatements, Fills
    <3> HIDE DEF Statements
    <3> QED BY <1>0, <3>1, WhenStatements DEF Fills
  <2>2. /\ "add column" \in Statements /\ <<"add column">> \in Seq(Statements)
    BY DEF Statements
  <2>3. AddField(g) = <<"add column">> \o fill \o strict
    BY <1>3 DEF AddField, HasColumn
  <2> HIDE DEF fill, strict, Statements
  <2>4. AddField(g) = <<"add column">> \o (fill \o strict)
    <3> DEFINE add == <<"add column">>
    <3>1. AddField(g) = (add \o fill) \o strict
      BY <2>3
    <3>2. add \in Seq(Statements) /\ fill \in Seq(Statements) /\ strict \in Seq(Statements)
      BY <2>1, <2>2
    <3> HIDE DEF add
    <3>3. (add \o fill) \o strict = add \o (fill \o strict)
      BY <3>2, ConcatAssociative
    <3> QED BY <3>1, <3>3 DEF add
  <2>5. /\ fill \o strict \in Seq(Statements)
        /\ StatementsOf(fill \o strict) = StatementsOf(fill) \cup StatementsOf(strict)
    BY <2>1, ConcatStatements
  <2>6. /\ AddField(g) \in Seq(Statements) /\ AddField(g) # <<>>
        /\ Head(AddField(g)) = "add column" /\ Tail(AddField(g)) = fill \o strict
    BY <2>2, <2>4, <2>5, FirstStatement
  <2>7. g.kind # "m2m" /\ g.kind # "virtual"
    BY <1>3 DEF HasColumn
  <2> QED BY <1>3, <2>1, <2>5, <2>6, <2>7
<1> QED BY <1>0, <1>1, <1>2, <1>3 DEF HasColumn

(* For whatever differs between two fields _alter_field has a statement, or raises. *)
LEMMA AlterFieldStatements ==
    ASSUME NEW f \in Fields, NEW g \in Fields
    PROVE  /\ AlterField(f, g) \in Seq(Statements)
           /\ StatementsOf(AlterField(f, g)) =
                 (IF f.type # g.type THEN {"set type"} ELSE {})
                 \cup (IF f.null /\ ~g.null /\ g.default THEN {"fill nulls"} ELSE {})
                 \cup (IF f.null # g.null
                       THEN {IF g.null THEN "drop not null" ELSE "set not null"} ELSE {})
                 \cup (IF f.kind # "auto" /\ g.kind = "auto" THEN {"raise"} ELSE {})
                 \cup (IF f.kind = "auto" /\ g.kind # "auto" THEN {"drop default"} ELSE {})
<1> DEFINE s1 == When(f.type # g.type, "set type")
           s2 == When(f.null /\ ~g.null /\ g.default, "fill nulls")
           n == IF g.null THEN "drop not null" ELSE "set not null"
           s3 == When(f.null # g.null, n)
           s4 == When(f.kind # "auto" /\ g.kind = "auto", "raise")
           s5 == When(f.kind = "auto" /\ g.kind # "auto", "drop default")
<1>1. /\ {"set type", "fill nulls", n, "raise", "drop default"} \subseteq Statements
      /\ f.null \in BOOLEAN /\ g.null \in BOOLEAN /\ g.default \in BOOLEAN
  BY DEF Statements, AlterStatements, Fields
<1>2. AlterField(f, g) = s1 \o s2 \o s3 \o s4 \o s5
  <2>1. When(~SkipDefaultOnAlter(g) /\ f.null /\ ~g.null /\ g.default, "set default") = <<>>
    BY DEF SkipDefaultOnAlter, When
  <2>2. s1 \o <<>> = s1
    BY DEF When
  <2> HIDE DEF s1, s2, s3, s4, s5
  <2>3. AlterField(f, g) = s1 \o <<>> \o s2 \o s3 \o s4 \o s5
    BY <2>1 DEF AlterField, BaseAlterField, RaiseIfToAuto, s1, s2, s3, s4, s5
  <2> QED BY <2>2, <2>3
<1> HIDE DEF Statements, n
<1>3. /\ s1 \in Seq(Statements) /\ s2 \in Seq(Statements) /\ s3 \in Seq(Statements)
      /\ s4 \in Seq(Statements) /\ s5 \in Seq(Statements)
      /\ StatementsOf(s1) = IF f.type # g.type THEN {"set type"} ELSE {}
      /\ StatementsOf(s2) =
            IF f.null /\ ~g.null /\ g.default THEN {"fill nulls"} ELSE {}
      /\ StatementsOf(s3) = IF f.null # g.null THEN {n} ELSE {}
      /\ StatementsOf(s4) =
            IF f.kind # "auto" /\ g.kind = "auto" THEN {"raise"} ELSE {}
      /\ StatementsOf(s5) =
            IF f.kind = "auto" /\ g.kind # "auto" THEN {"drop default"} ELSE {}
  BY <1>1, WhenStatements
<1> HIDE DEF s1, s2, s3, s4, s5
<1>4. /\ s1 \o s2 \in Seq(Statements)
      /\ StatementsOf(s1 \o s2) = StatementsOf(s1) \cup StatementsOf(s2)
  BY <1>3, ConcatStatements
<1>5. /\ s1 \o s2 \o s3 \in Seq(Statements)
      /\ StatementsOf(s1 \o s2 \o s3) = StatementsOf(s1 \o s2) \cup StatementsOf(s3)
  BY <1>3, <1>4, ConcatStatements
<1>6. /\ s1 \o s2 \o s3 \o s4 \in Seq(Statements)
      /\ StatementsOf(s1 \o s2 \o s3 \o s4) =
            StatementsOf(s1 \o s2 \o s3) \cup StatementsOf(s4)
  BY <1>3, <1>5, ConcatStatements
<1>7. /\ s1 \o s2 \o s3 \o s4 \o s5 \in Seq(Statements)
      /\ StatementsOf(s1 \o s2 \o s3 \o s4 \o s5) =
            StatementsOf(s1 \o s2 \o s3 \o s4) \cup StatementsOf(s5)
  BY <1>3, <1>6, ConcatStatements
<1>8. AlterField(f, g) \in Seq(Statements)
  BY <1>2, <1>7
<1>9. StatementsOf(AlterField(f, g)) =
          StatementsOf(s1) \cup StatementsOf(s2) \cup StatementsOf(s3)
          \cup StatementsOf(s4) \cup StatementsOf(s5)
  BY <1>2, <1>4, <1>5, <1>6, <1>7
<1> QED BY <1>3, <1>8, <1>9 DEF n
-----------------------------------------------------------------------------
(* Types                                                                    *)

LEMMA FieldTypes ==
    ASSUME Types
    PROVE  \A i \in {1, 2} :
              /\ field[i] \in Fields /\ IsField(field[i])
              /\ field[i].null \in BOOLEAN /\ field[i].default \in BOOLEAN
              /\ field[i].kind \in {"plain", "auto", "m2m", "virtual"}
              /\ field[i].type \in {"narrow", "wide"}
  BY DEF Types, Fields

LEMMA OperationType ==
    ASSUME Types, done < 2
    PROVE  /\ Operation \in Seq(Statements)
           /\ Adds => Operation = AddField(field[done + 1])
           /\ Alters => Operation = AlterField(field[1], field[2])
<1>1. done + 1 \in {1, 2}
  BY DEF Types
<1>2. AddField(field[done + 1]) \in Seq(Statements)
  BY <1>1, FieldTypes, AddFieldStatements
<1>3. AlterField(field[1], field[2]) \in Seq(Statements)
  BY FieldTypes, AlterFieldStatements
<1> QED BY <1>2, <1>3 DEF Operation, Adds, Alters

(* While there are statements left, an operation is running. *)
LEMMA StatementsRun ==
    ASSUME Types, todo # <<>>
    PROVE  /\ running /\ begun /\ done \in {0, 1} /\ done + 1 \in {1, 2}
           /\ Head(todo) \in Left /\ Tail(todo) \in Seq(Statements)
           /\ Left = {Head(todo)} \cup StatementsOf(Tail(todo))
  BY TailStatements DEF Types, Left

LEMMA EffectTypes ==
    ASSUME Types, NEW s, done \in {0, 1}, Effect(s)
    PROVE  /\ column' \in ColumnTypes /\ through' \in BOOLEAN
           /\ value' \in [Rows -> {"none", "null", "default", "number", "given"}]
           /\ \A r \in Rows :
                 /\ value'[r] = "none" <=> value[r] = "none"
                 /\ value'[r] = "null" => value[r] = "null"
<1>1. ColumnSql(field[done + 1]) \in ColumnTypes
  <2>1. done + 1 \in {1, 2}
    OBVIOUS
  <2> QED BY <2>1, FieldTypes DEF ColumnSql, ColumnTypes
<1>2. column' \in ColumnTypes
  <2>1. field[2].type \in {"narrow", "wide"} /\ column \in ColumnTypes
    BY FieldTypes DEF Types
  <2> QED BY <1>1, <2>1 DEF Effect, ColumnTypes
<1> QED BY <1>2 DEF Effect, Types

LEMMA TypesNext ==
    ASSUME Types, [Next]_vars
    PROVE  Types'
<1>1. CASE Begin
  BY <1>1, OperationType DEF Begin, Types
<1>2. CASE Execute
  BY <1>2, StatementsRun, EffectTypes DEF Execute, Types
<1>3. CASE Raise
  BY <1>3, EmptySeq DEF Raise, Abort, Types
<1>4. CASE Record
  <2>1. done \in {0, 1} /\ done' \in 0..2 /\ begun' = FALSE /\ running' = FALSE
    BY <1>4 DEF Record, Types
  <2> QED BY <1>4, <2>1 DEF Record, Types
<1>5. CASE Fault
  <2>1. /\ column' \in ColumnTypes /\ through' \in BOOLEAN
        /\ value' \in [Rows -> {"none", "null", "default", "number", "given"}]
    BY <1>5, StatementsRun, EffectTypes DEF Fault, Types
  <2> QED BY <1>5, <2>1, EmptySeq DEF Fault, Abort, Types
<1>6. ASSUME NEW r \in Rows, Insert(r)
      PROVE  Types'
  BY <1>6 DEF Insert, Types
<1>7. CASE UNCHANGED vars
  BY <1>7 DEF vars, Types
<1> QED BY <1>1, <1>2, <1>3, <1>4, <1>5, <1>6, <1>7 DEF Next, Migrate, Finished
-----------------------------------------------------------------------------
(* What the statements have done                                            *)

LEMMA NothingLeft == StatementsOf(<<>>) = {}
  BY DEF StatementsOf

LEMMA ColumnIsField ==
    ASSUME NEW c \in ColumnTypes, NEW g, g.null \in BOOLEAN,
           c.there, c.type = g.type, c.auto = (g.kind = "auto"), c.null = g.null
    PROVE  c = [ColumnSql(g) EXCEPT !.null = g.null]
<1> DEFINE e == [ColumnSql(g) EXCEPT !.null = g.null]
<1>1. ColumnSql(g) \in ColumnTypes
  BY DEF ColumnSql, ColumnTypes
<1>2. /\ ColumnSql(g).there = TRUE /\ ColumnSql(g).type = g.type
      /\ ColumnSql(g).auto = (g.kind = "auto")
  BY DEF ColumnSql
<1>3. e \in ColumnTypes
  BY <1>1 DEF ColumnTypes
<1>4. /\ e.there = ColumnSql(g).there /\ e.type = ColumnSql(g).type
      /\ e.auto = ColumnSql(g).auto /\ e.null = g.null
  BY <1>1 DEF ColumnTypes
<1> HIDE DEF e
<1>5. c.there = TRUE
  BY DEF ColumnTypes
<1>6. c.there = e.there /\ c.type = e.type /\ c.auto = e.auto /\ c.null = e.null
  BY <1>2, <1>4, <1>5
<1>7. c = e
  BY <1>3, <1>6 DEF ColumnTypes
<1> QED BY <1>7 DEF e

LEMMA RecordedNext ==
    ASSUME Types, RecordedIsDone, AddProgress, AlterProgress, [Next]_vars
    PROVE  RecordedIsDone'
<1>1. CASE Begin
  BY <1>1 DEF Begin, RecordedIsDone
<1>2. CASE todo # <<>> /\ (Execute \/ Raise \/ Fault)
  <2>1. begun /\ begun' = begun
    BY <1>2, StatementsRun DEF Execute, Raise, Fault, Abort
  <2> QED BY <2>1 DEF RecordedIsDone
<1>3. CASE Record
  <2> DEFINE g == field[done + 1]
  <2>1. /\ running /\ begun /\ done \in {0, 1} /\ Left = {}
        /\ field' = field /\ column' = column /\ through' = through
        /\ done' = done + 1 /\ done + 1 \in {1, 2}
    BY <1>3, NothingLeft DEF Record, Types, Left
  <2>2. CASE Adds
    <3>1. g.kind = "m2m" => through
      BY <2>1, <2>2 DEF AddProgress
    <3>2. ASSUME HasColumn(g)
          PROVE  column = [ColumnSql(g) EXCEPT !.null = g.null]
      <4>1. todo # AddField(g)
        BY <1>3, <2>1, <3>2, FieldTypes, AddFieldStatements DEF Record
      <4>2. /\ column.there /\ column.type = g.type
            /\ column.auto = (g.kind = "auto") /\ column.null = g.null
        BY <2>1, <2>2, <3>2, <4>1, FieldTypes DEF AddProgress, ColumnIsAdded
      <4> QED BY <2>1, <4>2, FieldTypes, ColumnIsField DEF Types
    <3> QED BY <2>1, <3>1, <3>2 DEF RecordedIsDone
  <2>3. CASE ~Adds
    <3>1. done = 1 /\ Alters /\ g.kind # "m2m"
      BY <2>1, <2>3 DEF Adds, Alters, Types, HasColumn
    <3>2. /\ column.there /\ column.type = g.type
          /\ column.auto = (g.kind = "auto") /\ column.null = g.null
      BY <2>1, <3>1 DEF AlterProgress, ColumnIsBetween, ChangesAreLeft
    <3>3. column = [ColumnSql(g) EXCEPT !.null = g.null]
      BY <2>1, <3>2, FieldTypes, ColumnIsField DEF Types
    <3> QED BY <2>1, <3>1, <3>3 DEF RecordedIsDone
  <2> QED BY <2>2, <2>3
<1>4. ASSUME NEW r \in Rows, Insert(r)
      PROVE  RecordedIsDone'
  BY <1>4 DEF Insert, RecordedIsDone
<1>5. CASE UNCHANGED vars
  BY <1>5 DEF vars, RecordedIsDone
<1> QED BY <1>1, <1>2, <1>3, <1>4, <1>5
        DEF Next, Migrate, Finished, Execute, Raise, Fault

LEMMA AddNext ==
    ASSUME Types, AddProgress, [Next]_vars
    PROVE  AddProgress'
<1>1. CASE Begin
  <2> DEFINE g == field[done + 1]
  <2> SUFFICES ASSUME Adds
               PROVE  /\ g.kind = "m2m" => through' \/ "create through" \in Left'
                      /\ HasColumn(g) => todo' = AddField(g)
    BY <1>1 DEF Begin, AddProgress, Adds
  <2>1. done < 2 /\ done + 1 \in {1, 2} /\ todo' = Operation
    BY <1>1 DEF Begin, Types
  <2>2. todo' = AddField(g)
    BY <2>1, OperationType
  <2>3. g.kind = "m2m" => todo' = <<"create through">>
    BY <2>1, <2>2, FieldTypes, AddFieldStatements
  <2>4. "create through" \in StatementsOf(<<"create through">>)
    <3>1. /\ 1 \in 1..Len(<<"create through">>)
          /\ <<"create through">>[1] = "create through"
      OBVIOUS
    <3> QED BY <3>1, Zenon DEF StatementsOf
  <2> QED BY <2>2, <2>3, <2>4 DEF Left
<1>2. CASE Execute
  <2> DEFINE g == field[done + 1]
             h == Head(todo)
  <2>1. /\ running /\ done + 1 \in {1, 2} /\ field' = field /\ done' = done
        /\ Left = {h} \cup Left' /\ todo' = Tail(todo) /\ Effect(h)
    BY <1>2, StatementsRun DEF Execute, Left
  <2> SUFFICES ASSUME Adds
               PROVE  /\ g.kind = "m2m" => through' \/ "create through" \in Left'
                      /\ HasColumn(g) => ColumnIsAdded(g)'
    BY <2>1 DEF AddProgress, Adds, ColumnIsAdded
  <2>2. ASSUME g.kind = "m2m"
        PROVE  through' \/ "create through" \in Left'
    BY <2>1, <2>2 DEF AddProgress, Effect
  <2>3. ASSUME HasColumn(g), todo = AddField(g)
        PROVE  ColumnIsAdded(g)'
    <3>1. h = "add column"
          /\ Left' = (IF g.default THEN {"fill"} ELSE {})
                     \cup (IF g.null THEN {} ELSE {"set not null"})
      BY <2>1, <2>3, FieldTypes, AddFieldStatements DEF Left
    <3>2. column' = ColumnSql(g)
      BY <2>1, <3>1 DEF Effect
    <3>3. g.null \in BOOLEAN
      BY <2>1, FieldTypes
    <3>4. /\ column'.there /\ column'.type = g.type
          /\ column'.auto = (g.kind = "auto") /\ column'.null
      BY <3>2 DEF ColumnSql
    <3>5. Left' \subseteq (IF g.null THEN {"fill"} ELSE {"fill", "set not null"})
          /\ (~g.null => "set not null" \in Left')
      BY <3>1, <3>3
    <3> QED BY <2>1, <3>2, <3>3, <3>4, <3>5 DEF ColumnIsAdded, ColumnSql
  <2>4. ASSUME HasColumn(g), ColumnIsAdded(g)
        PROVE  ColumnIsAdded(g)'
    <3>1. h \in {"fill", "set not null"} /\ Left' \subseteq Left
      BY <2>1, <2>4 DEF ColumnIsAdded
    <3>2. CASE h = "fill"
      BY <2>1, <2>4, <3>1, <3>2 DEF ColumnIsAdded, Effect
    <3>3. CASE h = "set not null"
      <4>1. ~g.null /\ column.there /\ column.type = g.type
            /\ column.auto = (g.kind = "auto")
        BY <2>1, <2>4, <3>3 DEF ColumnIsAdded
      <4>2. column' = [column EXCEPT !.null = FALSE]
        BY <2>1, <3>3 DEF Effect
      <4>3. /\ column'.there /\ column'.type = g.type
            /\ column'.auto = (g.kind = "auto") /\ ~column'.null
        BY <4>1, <4>2 DEF Types, ColumnTypes
      <4>4. column'.null = g.null
        BY <2>1, <4>1, <4>2, FieldTypes DEF Types, ColumnTypes
      <4> QED BY <2>1, <2>4, <3>1, <4>3, <4>4 DEF ColumnIsAdded
    <3> QED BY <3>1, <3>2, <3>3
  <2> QED BY <2>1, <2>2, <2>3, <2>4 DEF AddProgress
<1>3. CASE Raise \/ Fault \/ Record
  BY <1>3 DEF Raise, Fault, Abort, Record, AddProgress
<1>4. ASSUME NEW r \in Rows, Insert(r)
      PROVE  AddProgress'
  BY <1>4 DEF Insert, AddProgress, Adds, ColumnIsAdded, Left
<1>5. CASE UNCHANGED vars
  BY <1>5 DEF vars, AddProgress, Adds, ColumnIsAdded, Left
<1> QED BY <1>1, <1>2, <1>3, <1>4, <1>5 DEF Next, Migrate, Finished

LEMMA AlterNext ==
    ASSUME Types, RecordedIsDone, RecordedIsDone', AlterProgress, [Next]_vars
    PROVE  AlterProgress'
<1> DEFINE f == field[1]
           g == field[2]
           h == Head(todo)
<1>1. CASE Begin
  <2> SUFFICES ASSUME Alters
               PROVE  ColumnIsBetween(f, g)' /\ ChangesAreLeft(g)'
    BY <1>1 DEF Begin, AlterProgress, Alters
  <2>1. Left' = StatementsOf(AlterField(f, g))
    <3>1. done < 2 /\ todo' = Operation
      BY <1>1 DEF Begin, Types
    <3> QED BY <3>1, OperationType DEF Left
  <2>2. ColumnIsBetween(f, g)
    BY DEF AlterProgress
  <2>3. ColumnIsBetween(f, g)'
    BY <1>1, <2>2 DEF Begin, ColumnIsBetween
  <2>4. /\ Left' \subseteq AlterStatements
        /\ "set type" \notin Left' => f.type = g.type
        /\ "set not null" \in Left' => ~g.null
        /\ "drop not null" \in Left' => g.null
        /\ "set not null" \in Left' \/ "drop not null" \in Left' \/ f.null = g.null
        /\ "drop default" \in Left' => g.kind # "auto"
        /\ \/ "drop default" \in Left' \/ "raise" \in Left'
           \/ (f.kind = "auto") = (g.kind = "auto")
    <3>1. /\ f \in Fields /\ g \in Fields
          /\ f.null \in BOOLEAN /\ g.null \in BOOLEAN
      BY FieldTypes
    <3>2. Left' =
             (IF f.type # g.type THEN {"set type"} ELSE {})
             \cup (IF f.null /\ ~g.null /\ g.default THEN {"fill nulls"} ELSE {})
             \cup (IF f.null # g.null
                   THEN {IF g.null THEN "drop not null" ELSE "set not null"} ELSE {})
             \cup (IF f.kind # "auto" /\ g.kind = "auto" THEN {"raise"} ELSE {})
             \cup (IF f.kind = "auto" /\ g.kind # "auto" THEN {"drop default"} ELSE {})
      BY <2>1, <3>1, AlterFieldStatements
    <3> HIDE DEF f, g
    <3>3. /\ Left' \subseteq AlterStatements
          /\ "set type" \notin Left' => f.type = g.type
          /\ "set not null" \in Left' => ~g.null
          /\ "drop not null" \in Left' => g.null
          /\ "drop default" \in Left' => g.kind # "auto"
      BY <3>2 DEF AlterStatements
    <3>4. "set not null" \in Left' \/ "drop not null" \in Left' \/ f.null = g.null
      BY <3>1, <3>2
    <3>5. \/ "drop default" \in Left' \/ "raise" \in Left'
          \/ (f.kind = "auto") = (g.kind = "auto")
      BY <3>2
    <3> QED BY <3>3, <3>4, <3>5
  <2>5. field' = field /\ column' = column
    BY <1>1 DEF Begin
  <2>6. column.type \in {f.type, g.type} /\ column.null \in {f.null, g.null}
    BY <2>2 DEF ColumnIsBetween
  <2>7. column.auto \in {f.kind = "auto", g.kind = "auto"}
    BY <2>2 DEF ColumnIsBetween
  <2>8. "set type" \in Left' \/ column.type = g.type
    BY <2>4, <2>6
  <2>9. "set not null" \in Left' \/ "drop not null" \in Left' \/ column.null = g.null
    BY <2>4, <2>6
  <2>10. \/ "drop default" \in Left' \/ "raise" \in Left'
         \/ column.auto = (g.kind = "auto")
    BY <2>4, <2>7
  <2> QED BY <2>3, <2>4, <2>5, <2>8, <2>9, <2>10 DEF ChangesAreLeft
<1>2. CASE todo # <<>> /\ (Execute \/ Fault)
  <2> SUFFICES ASSUME Alters
               PROVE  /\ ColumnIsBetween(f, g)'
                      /\ running' => ChangesAreLeft(g)'
    BY <1>2 DEF Execute, Fault, Abort, AlterProgress, Alters
  <2>1. /\ field' = field /\ h \in Left
        /\ ColumnIsBetween(f, g) /\ ChangesAreLeft(g)
    BY <1>2, StatementsRun DEF Execute, Fault, Abort, AlterProgress
  <2>2. /\ ~Refused(h)
        /\ (Effect(h) \/ column' = column)
        /\ running' => Effect(h) /\ Left = {h} \cup Left'
    BY <1>2, StatementsRun DEF Execute, Fault, Abort, Left
  <2>3. /\ h \in AlterStatements \ {"raise"}
        /\ h = "set not null" => ~g.null
        /\ h = "drop not null" => g.null
        /\ h = "drop default" => g.kind # "auto"
    BY <2>1, <2>2 DEF ChangesAreLeft, Refused
  <2>4. f.null \in BOOLEAN /\ g.null \in BOOLEAN
    BY FieldTypes
  <2>5. ASSUME Effect(h)
        PROVE  /\ column'.there = column.there
               /\ column'.type = IF h = "set type" THEN g.type ELSE column.type
               /\ column'.null = IF h \in {"set not null", "drop not null"}
                                 THEN g.null ELSE column.null
               /\ column'.auto = IF h = "drop default"
                                 THEN g.kind = "auto" ELSE column.auto
    <3>1. CASE h = "set type"
      BY <2>5, <3>1 DEF Effect, Types, ColumnTypes
    <3>2. CASE h = "set not null"
      BY <2>3, <2>4, <2>5, <3>2 DEF Effect, Types, ColumnTypes
    <3>3. CASE h = "drop not null"
      BY <2>3, <2>4, <2>5, <3>3 DEF Effect, Types, ColumnTypes
    <3>4. CASE h = "drop default"
      BY <2>3, <2>5, <3>4 DEF Effect, Types, ColumnTypes
    <3>5. CASE h = "fill nulls"
      BY <2>5, <3>5 DEF Effect
    <3> QED BY <2>3, <3>1, <3>2, <3>3, <3>4, <3>5 DEF AlterStatements
  <2> HIDE DEF h
  <2>6. ColumnIsBetween(f, g)'
    BY <2>1, <2>2, <2>5 DEF ColumnIsBetween
  <2>7. ASSUME running'
        PROVE  ChangesAreLeft(g)'
    <3>1. Effect(h) /\ Left = {h} \cup Left'
      BY <2>2, <2>7
    <3> QED BY <2>1, <2>3, <2>5, <3>1 DEF ChangesAreLeft
  <2> QED BY <2>6, <2>7
<1>3. CASE Raise
  BY <1>3 DEF Raise, Abort, AlterProgress, Alters, ColumnIsBetween
<1>4. CASE Record
  <2> SUFFICES ASSUME Alters'
               PROVE  ColumnIsBetween(f, g)'
    BY <1>4 DEF Record, AlterProgress
  <2>1. /\ done' = 1 /\ ~begun' /\ HasColumn(f) /\ field' = field /\ f' = f
    BY <1>4 DEF Record, Alters
  <2>2. column' = [ColumnSql(f) EXCEPT !.null = f.null]
    BY <2>1 DEF RecordedIsDone
  <2>3. /\ column'.there /\ column'.type = f.type /\ column'.null = f.null
        /\ column'.auto = (f.kind = "auto")
    BY <2>2 DEF ColumnSql
  <2> QED BY <2>1, <2>3 DEF ColumnIsBetween
<1>5. ASSUME NEW r \in Rows, Insert(r)
      PROVE  AlterProgress'
  BY <1>5 DEF Insert, AlterProgress, Alters, ColumnIsBetween, ChangesAreLeft, Left
<1>6. CASE UNCHANGED vars
  BY <1>6 DEF vars, AlterProgress, Alters, ColumnIsBetween, ChangesAreLeft, Left
<1> QED BY <1>1, <1>2, <1>3, <1>4, <1>5, <1>6
        DEF Next, Migrate, Finished, Execute, Fault

(* No step removes a row, and none of a migration makes a value NULL. *)
LEMMA RowsStay ==
    ASSUME Types, [Next]_vars
    PROVE  /\ \A r \in Rows : value[r] # "none" => value'[r] # "none"
           /\ \A r \in Rows :
                 (value[r] # "none" /\ value'[r] = "null") => value[r] = "null"
<1>1. CASE todo # <<>> /\ (Execute \/ Fault)
  <2>1. value' = value \/ Effect(Head(todo))
    BY <1>1 DEF Execute, Fault
  <2> QED BY <1>1, <2>1, StatementsRun, EffectTypes
<1>2. CASE Begin \/ Raise \/ Record \/ UNCHANGED vars
  BY <1>2 DEF Begin, Raise, Record, vars
<1>3. ASSUME NEW r \in Rows, Insert(r)
      PROVE  \A q \in Rows : value[q] # "none" => value'[q] = value[q]
  BY <1>3 DEF Insert, Types
<1> QED BY <1>1, <1>2, <1>3 DEF Next, Migrate, Finished, Execute, Fault

(* A field with a default has a column. *)
LEMMA DefaultHasColumn ==
    ASSUME Types
    PROVE  field[1].default => HasColumn(field[1])
  BY FieldTypes DEF IsField, HasColumn

LEMMA FillNext ==
    ASSUME Types, FillProgress, [Next]_vars
    PROVE  FillProgress'
<1>0. ASSUME first' = first
      PROVE  first' \subseteq Present'
  BY <1>0, RowsStay DEF FillProgress, Present
<1>1. CASE Begin
  <2>1. first' \subseteq Present'
    BY <1>1 DEF Begin, FillProgress, Present
  <2>2. done = 0 => todo' = AddField(field[1])
    BY <1>1, OperationType DEF Begin, Adds
  <2> QED BY <1>1, <2>1, <2>2 DEF Begin, FillProgress
<1>2. CASE Execute
  <2> DEFINE h == Head(todo)
  <2>1. /\ running /\ field' = field /\ done' = done /\ first' = first
        /\ Left = {h} \cup Left' /\ todo' = Tail(todo) /\ Effect(h)
    BY <1>2, StatementsRun DEF Execute, Left
  <2> SUFFICES ASSUME done = 0, field[1].default
               PROVE  "fill" \in Left' \/ \A r \in first : value'[r] # "null"
    BY <1>0, <2>1 DEF FillProgress
  <2>2. CASE todo = AddField(field[1])
    <3>1. "fill" \in Left'
      BY <2>1, <2>2, FieldTypes, DefaultHasColumn, AddFieldStatements DEF Left
    <3> QED BY <3>1
  <2>3. CASE h = "fill"
    BY <2>1, <2>3 DEF Effect, FillProgress, Present
  <2>4. CASE "fill" \in Left /\ h # "fill"
    BY <2>1, <2>4
  <2>5. CASE \A r \in first : value[r] # "null"
    <3>1. first \subseteq Present
      BY DEF FillProgress
    <3> QED BY <2>5, <3>1, RowsStay DEF Present
  <2> QED BY <2>1, <2>2, <2>3, <2>4, <2>5 DEF FillProgress
<1>3. CASE Raise \/ Fault \/ Record
  BY <1>0, <1>3 DEF Raise, Fault, Abort, Record, FillProgress
<1>4. ASSUME NEW r \in Rows, Insert(r)
      PROVE  FillProgress'
  <2>1. /\ UNCHANGED <<field, first, done, todo, running>>
        /\ \A q \in first : value'[q] = "null" => value[q] = "null"
    BY <1>4, RowsStay DEF Insert, FillProgress, Present
  <2> QED BY <1>0, <2>1 DEF FillProgress, Left
<1>5. CASE UNCHANGED vars
  BY <1>5 DEF vars, FillProgress, Left, Present
<1> QED BY <1>1, <1>2, <1>3, <1>4, <1>5 DEF Next, Migrate, Finished

LEMMA FilledNext ==
    ASSUME Types, FillProgress, ExistingRowsFilled, [Next]_vars
    PROVE  ExistingRowsFilled'
<1> SUFFICES ASSUME done' = 1, field'[1].default
             PROVE  \A r \in first' : value'[r] # "null"
  BY DEF ExistingRowsFilled
<1>1. first \subseteq Present
  BY DEF FillProgress
<1>2. field' = field
  BY DEF Next, Migrate, Begin, Execute, Raise, Record, Fault, Abort, Insert, Finished, vars
<1>3. \A r \in first : value[r] # "null"
  <2>1. CASE Record /\ done = 0
    <3>1. running /\ todo = <<>> /\ Left = {}
      BY <2>1, NothingLeft DEF Record, Left
    <3>2. todo # AddField(field[1])
      BY <1>2, <3>1, FieldTypes, DefaultHasColumn, AddFieldStatements
    <3> QED BY <1>2, <2>1, <3>1, <3>2 DEF FillProgress
  <2>2. CASE Record /\ done # 0
    BY <2>2 DEF Record, Types
  <2>3. CASE ~Record
    <3>1. done = 1
      BY <2>3 DEF Next, Migrate, Begin, Execute, Raise, Fault, Abort, Insert,
                  Finished, vars
    <3> QED BY <1>2, <3>1 DEF ExistingRowsFilled
  <2> QED BY <2>1, <2>2, <2>3
<1>4. first' = first
  <2>1. CASE Begin
    BY <2>1 DEF Begin, Types
  <2>2. CASE ~Begin
    BY <2>2 DEF Next, Migrate, Execute, Raise, Record, Fault, Abort, Insert,
                Finished, vars
  <2> QED BY <2>1, <2>2
<1> QED BY <1>1, <1>3, <1>4, RowsStay DEF Present
-----------------------------------------------------------------------------
LEMMA InitInv == Init => IInv
<1> SUFFICES ASSUME Init PROVE IInv
  OBVIOUS
<1>1. value \in [Rows -> {"none", "null", "default", "number", "given"}]
  BY DEF Init
<1>2. column \in ColumnTypes
  BY DEF Init, NoColumn, ColumnTypes
<1>3. /\ done = 0 /\ ~begun /\ ~running /\ first = {}
      /\ begun \in BOOLEAN /\ running \in BOOLEAN /\ through \in BOOLEAN
      /\ todo = <<>> /\ todo \in Seq(Statements)
  BY EmptySeq DEF Init
<1>4. field \in [1..2 -> {f \in Fields : IsField(f)}] /\ HasColumn(field[2])
  BY DEF Init
<1>5. Types
  BY <1>1, <1>2, <1>3, <1>4 DEF Types
<1>6. RecordedIsDone /\ AddProgress /\ AlterProgress
  <2>1. ~(done > 0) /\ ~Alters
    BY <1>3 DEF Alters
  <2> QED BY <1>3, <2>1 DEF RecordedIsDone, AddProgress, AlterProgress
<1>7. FillProgress /\ ExistingRowsFilled
  BY <1>3 DEF FillProgress, ExistingRowsFilled
<1> QED BY <1>5, <1>6, <1>7 DEF IInv

LEMMA Invariant == Spec => []IInv
<1>1. ASSUME IInv, [Next]_vars
      PROVE  IInv'
  <2>1. Types'
    BY <1>1, TypesNext DEF IInv
  <2>2. RecordedIsDone'
    BY <1>1, RecordedNext DEF IInv
  <2>3. AddProgress'
    BY <1>1, AddNext DEF IInv
  <2>4. AlterProgress'
    BY <1>1, <2>2, AlterNext DEF IInv
  <2>5. FillProgress' /\ ExistingRowsFilled'
    BY <1>1, FillNext, FilledNext DEF IInv
  <2> QED BY <2>1, <2>2, <2>3, <2>4, <2>5 DEF IInv
<1> QED BY <1>1, InitInv, PTL DEF Spec

(* For any rows and any number of faults: however often and wherever       *)
(* `migrate` was interrupted, a recorded migration left the column that    *)
(* the model says (add_field and _alter_field in schema.py).               *)
THEOREM RecordedMigrationsAreDone == Spec => []RecordedIsDone
<1>1. IInv => RecordedIsDone
  BY DEF IInv
<1> QED BY <1>1, Invariant, PTL

(* The rows that were there when a field with a default was added have a   *)
(* value once that is recorded (schema.py:61).                             *)
THEOREM AddedFieldsAreFilled == Spec => []ExistingRowsFilled
<1>1. IInv => ExistingRowsFilled
  BY DEF IInv
<1> QED BY <1>1, Invariant, PTL
=============================================================================
