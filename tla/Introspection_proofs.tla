------------------------- MODULE Introspection_proofs -------------------------
(***************************************************************************)
(* Proofs about Introspection, for any names and columns, whatever the     *)
(* order of the rows and however often another session changes the table.  *)
(***************************************************************************)
EXTENDS Introspection, SequenceTheorems, FiniteSetTheorems, TLAPS

KeyKinds == {"foreign", "primary"}

Converted(k) == IdentifierConverter(k.name)

Row(k, i) == [key |-> k, seq |-> i]

RowsOfKey(k) == {Row(k, i) : i \in DOMAIN k.columns}

(* What unique_column_orders has for the i-th column of k. *)
Place(k, i) == [seq |-> i, column |-> k.columns[i]]

(* Statements that were executed. *)
Shown ==
    CASE step \in {"start", "described"} -> {}
      [] step = "foreign" -> {"foreign"}
      [] step = "primary" -> KeyKinds
      [] OTHER -> KeyKinds \cup {"unique"}

(* Rows are of constraints the table has had, of the kind of the statement. *)
Reading ==
    /\ step \in {"start", "foreign", "primary", "unique", "done", "KeyError",
                 "described"}
    /\ table \subseteq Constraints /\ ever \subseteq Constraints
    /\ always \subseteq table /\ table \subseteq ever
    /\ \A row \in unread :
          /\ row.key \in ever /\ row \in RowsOfKey(row.key)
          /\ row.key.kind = IF step = "KeyError" THEN "unique" ELSE step
    /\ step \in {"start", "done", "described"} => unread = {}

(* A name with no list of its own stands for a foreign or a primary key,   *)
(* one with a list for a unique constraint.                                *)
NamesHaveConstraints ==
    /\ \A n \in DOMAIN dict \ DOMAIN orders :
          \E k \in ever : k.kind \in KeyKinds /\ Converted(k) = n
    /\ \A n \in DOMAIN orders :
          /\ n \in DOMAIN dict
          /\ \E k \in ever : k.kind = "unique" /\ Converted(k) = n
    /\ step \in {"start", "foreign", "primary", "described"} => orders = Empty
    /\ step \in {"start", "described"} => dict = Empty

(* A constraint whose statement was executed is in the result, unless all  *)
(* of its rows are still to be read.                                       *)
NamesAreRead ==
    \A k \in always : k.kind \in Shown =>
        Converted(k) \in DOMAIN dict \/ RowsOfKey(k) \subseteq unread

(* A key of one column has its row unread or is in the result as it is. *)
KeysAreRead ==
    \A k \in always :
        (Alone(k) /\ Len(k.columns) = 1 /\ k.kind \in Shown \cap KeyKinds) =>
            \/ Row(k, 1) \in unread
            \/ /\ Converted(k) \in DOMAIN dict
               /\ dict[Converted(k)] = Entry(k.kind, k.columns)

(* The list has the rows I of k, in some order. *)
HasRows(k, list, I) ==
    /\ list \in Seq({Place(k, i) : i \in DOMAIN k.columns}) \ {<<>>}
    /\ \A x, y \in DOMAIN list : list[x].seq = list[y].seq => x = y
    /\ I = {list[x].seq : x \in DOMAIN list}

(* Rows I of k have been read. *)
ReadInOrder(k, I) ==
    /\ Converted(k) \in DOMAIN dict \cap DOMAIN orders
    /\ dict[Converted(k)] = Entry("unique", dict[Converted(k)].columns)
    /\ HasRows(k, orders[Converted(k)], I)

(* The list of a unique constraint has exactly the rows that were read. *)
UniquesAreRead ==
    step = "unique" =>
        \A k \in always :
            (Alone(k) /\ k.kind = "unique") =>
                LET I == {i \in DOMAIN k.columns : Row(k, i) \notin unread}
                IN  \/ I = {} /\ Converted(k) \notin DOMAIN dict
                    \/ ReadInOrder(k, I)

IInv == /\ Reading /\ NamesHaveConstraints /\ NamesAreRead /\ KeysAreRead
        /\ UniquesAreRead /\ StableConstraintsAreFound /\ RaisesOnlyForTwoNames
        /\ FieldsHaveTheirColumn
-----------------------------------------------------------------------------
(* Operators                                                                *)

LEMMA WithFacts ==
    ASSUME NEW d, NEW key, NEW entry
    PROVE  /\ DOMAIN With(d, key, entry) = DOMAIN d \cup {key}
           /\ With(d, key, entry)[key] = entry
           /\ \A n \in DOMAIN d \ {key} : With(d, key, entry)[n] = d[n]
  BY DEF With

LEMMA WithKey ==
    ASSUME NEW d, NEW key, NEW entry, NEW e, e = With(d, key, entry)
    PROVE  key \in DOMAIN e /\ e[key] = entry
  BY DEF With

LEMMA WithOthers ==
    ASSUME NEW d, NEW key, NEW entry, NEW e, e = With(d, key, entry), NEW n, n # key
    PROVE  /\ n \in DOMAIN e <=> n \in DOMAIN d
           /\ n \in DOMAIN d => e[n] = d[n]
  BY DEF With

LEMMA EntryFacts ==
    ASSUME NEW kind, NEW cs, NEW ds
    PROVE  /\ Entry(kind, cs).kind = kind /\ Entry(kind, cs).columns = cs
           /\ [Entry(kind, cs) EXCEPT !.columns = ds] = Entry(kind, ds)
  BY DEF Entry

LEMMA RowFacts ==
    ASSUME NEW k, NEW i
    PROVE  /\ Row(k, i).key = k /\ Row(k, i).seq = i
           /\ i \in DOMAIN k.columns => Row(k, i) \in RowsOfKey(k)
           /\ \A l, j : Row(l, j) = Row(k, i) => l = k /\ j = i
  BY DEF Row, RowsOfKey

LEMMA ConstraintFacts ==
    ASSUME NEW k \in Constraints
    PROVE  /\ k.name \in Names /\ k.kind \in KeyKinds \cup {"unique"}
           /\ k.columns \in Seq(Columns) /\ Len(k.columns) > 0
           /\ DOMAIN k.columns = 1..Len(k.columns) /\ 1 \in DOMAIN k.columns
<1>1. k.name \in Names /\ k.kind \in {"foreign", "primary", "unique"}
  BY DEF Constraints
<1>2. k.columns \in UNION {Injection(1..n, Columns) : n \in 1..Cardinality(Columns)}
  BY DEF Constraints
<1>3. PICK n \in 1..Cardinality(Columns) : k.columns \in Injection(1..n, Columns)
  BY <1>2
<1>4. Cardinality(Columns) \in Nat
  BY ConstantsOK, FS_CardinalityType
<1>5. n \in Nat /\ n > 0 /\ k.columns \in [1..n -> Columns]
  BY <1>3, <1>4 DEF Injection
<1>6. k.columns \in Seq(Columns) /\ Len(k.columns) = n /\ DOMAIN k.columns = 1..n
  BY <1>5
<1> QED BY <1>1, <1>5, <1>6 DEF KeyKinds

(* A constraint of one column. *)
LEMMA OneColumn ==
    ASSUME NEW k \in Constraints, Len(k.columns) = 1
    PROVE  DOMAIN k.columns = {1} /\ k.columns = <<k.columns[1]>>
<1>1. k.columns \in Seq(Columns) /\ DOMAIN k.columns = 1..1 /\ k.columns[1] \in Columns
  BY ConstraintFacts
<1>2. 1..1 = {1}
  OBVIOUS
<1> DEFINE c == k.columns[1]
<1>3. <<c>> \in Seq(Columns) /\ Len(<<c>>) = 1 /\ <<c>>[1] = c
  BY <1>1
<1> HIDE DEF c
<1>4. k.columns = <<c>>
  BY <1>1, <1>3, SeqEqual DEF c
<1> QED BY <1>1, <1>2, <1>4 DEF c

LEMMA RowsOfKind ==
    ASSUME NEW kind, NEW row
    PROVE  row \in RowsOf(kind) <=> \E k \in table : k.kind = kind /\ row \in RowsOfKey(k)
  BY DEF RowsOf, RowsOfKey, Row

(* quote_name() reverses identifier_converter(). *)
LEMMA QuotedIsConverted ==
    ASSUME NEW n \in Names, n.case = "upper" \/ n.word \in SystemWords
    PROVE  QuoteName(IdentifierConverter(n)) = n
<1>1. \/ n \in [word : Words, case : {"upper", "mixed"}]
      \/ n \in [word : SystemWords, case : {"mixed"}]
  BY DEF Names
<1>2. n = [word |-> n.word, case |-> n.case]
  BY <1>1
<1>3. n.word \notin SystemWords => n.case = "upper"
  OBVIOUS
<1> QED BY <1>2, <1>3 DEF QuoteName, IdentifierConverter

(* The column of a row, and what unique_column_orders gets for it. *)
ColumnOf(row) == row.key.columns[row.seq]
Placed(row) == [seq |-> row.seq, column |-> ColumnOf(row)]

(* The first row of a name begins two lists, a later one appends to both. *)
LEMMA UniqueRowEffect ==
    ASSUME NEW row, UniqueRow(row)
    PROVE  LET n == Converted(row.key)
           IN  /\ row \in unread /\ unread' = unread \ {row} /\ step = "unique"
               /\ UNCHANGED <<table, always, ever, changes, described>>
               /\ n \notin DOMAIN dict =>
                     /\ dict' = With(dict, n, Entry("unique", <<ColumnOf(row)>>))
                     /\ orders' = With(orders, n, <<Placed(row)>>)
                     /\ step' = step
               /\ n \in DOMAIN dict =>
                     dict' = [dict EXCEPT ![n].columns = Append(@, ColumnOf(row))]
               /\ n \in DOMAIN dict \cap DOMAIN orders =>
                     /\ orders' = [orders EXCEPT ![n] = Append(@, Placed(row))]
                     /\ step' = step
               /\ n \in DOMAIN dict \ DOMAIN orders =>
                     step' = "KeyError" /\ orders' = orders
  BY DEF UniqueRow, FirstOrder, Converted, ColumnOf, Placed

(* What is alone now was alone before. *)
LEMMA AloneBefore ==
    ASSUME ever \subseteq ever', NEW k, Alone(k)'
    PROVE  Alone(k)
  BY DEF Alone
-----------------------------------------------------------------------------
(* sorted()                                                                 *)

(* A list that grows strictly from 1 to m at most in m steps is 1, 2, .. m: *)
(* before its i-th number there is room for i - 1 others, and after it for  *)
(* m - i.                                                                   *)
LEMMA GrowsByOne ==
    ASSUME NEW m \in Nat, NEW q \in [1..m -> 1..m],
           \A i, j \in 1..m : i < j => q[i] < q[j],
           NEW i \in 1..m
    PROVE  q[i] = i
<1>1. i \in Int /\ m \in Int /\ q[i] \in 1..m
  OBVIOUS
<1>2. i <= q[i]
  <2> DEFINE f == [x \in 1..i |-> q[x]]
  <2>1. \A x \in 1..i : x \in 1..m /\ q[x] \in 1..q[i]
    <3> TAKE x \in 1..i
    <3>1. x \in 1..m /\ (x = i \/ x < i)
      BY <1>1
    <3> QED BY <1>1, <3>1
  <2>2. \A x, y \in 1..i : q[x] = q[y] => x = y
    <3> TAKE x, y \in 1..i
    <3>1. x \in 1..m /\ y \in 1..m /\ (x = y \/ x < y \/ y < x)
      BY <1>1
    <3> QED BY <3>1
  <2>3. f \in Injection(1..i, 1..q[i])
    BY <2>1, <2>2 DEF Injection, IsInjective
  <2> HIDE DEF f
  <2>4. IsFiniteSet(1..q[i]) /\ Cardinality(1..q[i]) = q[i] /\ Cardinality(1..i) = i
    BY <1>1, FS_Interval
  <2>5. Cardinality(1..i) <= Cardinality(1..q[i])
    BY <2>3, <2>4, FS_Injection
  <2> QED BY <2>4, <2>5
<1>3. q[i] <= i
  <2> DEFINE f == [x \in i..m |-> q[x]]
  <2>1. \A x \in i..m : x \in 1..m /\ q[x] \in q[i]..m
    <3> TAKE x \in i..m
    <3>1. x \in 1..m /\ (x = i \/ i < x)
      BY <1>1
    <3> QED BY <1>1, <3>1
  <2>2. \A x, y \in i..m : q[x] = q[y] => x = y
    <3> TAKE x, y \in i..m
    <3>1. x \in 1..m /\ y \in 1..m /\ (x = y \/ x < y \/ y < x)
      BY <1>1
    <3> QED BY <3>1
  <2>3. f \in Injection(i..m, q[i]..m)
    BY <2>1, <2>2 DEF Injection, IsInjective
  <2> HIDE DEF f
  <2>4. /\ IsFiniteSet(q[i]..m) /\ Cardinality(q[i]..m) = m - q[i] + 1
        /\ Cardinality(i..m) = m - i + 1
    BY <1>1, FS_Interval
  <2>5. Cardinality(i..m) <= Cardinality(q[i]..m)
    BY <2>3, <2>4, FS_Injection
  <2> QED BY <1>1, <2>4, <2>5
<1> QED BY <1>1, <1>2, <1>3

(* What is in order among the reorderings of all rows of a constraint: the  *)
(* i-th element is the i-th row.                                            *)
LEMMA OrderedRows ==
    ASSUME NEW k \in Constraints, NEW list, HasRows(k, list, DOMAIN k.columns)
    PROVE  /\ DOMAIN list = DOMAIN k.columns
           /\ \E l \in Reordered(list) :
                 \A i, j \in DOMAIN l : i < j => l[i].seq <= l[j].seq
           /\ \A l \in Reordered(list) :
                 (\A i, j \in DOMAIN l : i < j => l[i].seq <= l[j].seq) =>
                    /\ DOMAIN l = DOMAIN k.columns
                    /\ \A i \in DOMAIN l : l[i] = Place(k, i)
<1> DEFINE m == Len(k.columns)
           p == [x \in DOMAIN list |-> list[x].seq]
<1>1. m \in Nat /\ DOMAIN k.columns = 1..m
  BY ConstraintFacts
<1> HIDE DEF m
<1>2. Len(list) \in Nat /\ DOMAIN list = 1..Len(list)
  BY DEF HasRows
<1>3. \A x \in DOMAIN list : list[x].seq \in 1..m /\ list[x] = Place(k, list[x].seq)
  <2> TAKE x \in DOMAIN list
  <2>1. list[x] \in {Place(k, i) : i \in DOMAIN k.columns}
    BY <1>2 DEF HasRows
  <2>2. PICK i \in 1..m : list[x] = Place(k, i)
    BY <1>1, <2>1
  <2> QED BY <2>2 DEF Place
<1>4. p \in [1..Len(list) -> 1..m] /\ IsInjective(p)
  BY <1>2, <1>3 DEF HasRows, IsInjective
<1>5. \A i \in 1..m : \E x \in 1..Len(list) : p[x] = i
  BY <1>1, <1>2 DEF HasRows
<1>6. p \in Bijection(1..Len(list), 1..m)
  BY <1>4, <1>5 DEF Bijection, Injection, Surjection
<1>7. \A x \in DOMAIN list : list[x] = Place(k, p[x])
  BY <1>3
<1> HIDE DEF p
<1>8. Len(list) = m
  <2>1. /\ IsFiniteSet(1..Len(list)) /\ Cardinality(1..Len(list)) = Len(list)
        /\ Cardinality(1..m) = m
    <3> DEFINE n == Len(list)
    <3>1. n \in Nat
      BY <1>2
    <3> HIDE DEF n
    <3>2. IsFiniteSet(1..n) /\ Cardinality(1..n) = n
      BY <3>1, FS_Interval
    <3>3. Cardinality(1..m) = m
      BY <1>1, FS_Interval
    <3> QED BY <3>2, <3>3 DEF n
  <2>2. Cardinality(1..m) = Cardinality(1..Len(list))
    BY <1>6, <2>1, FS_Bijection DEF ExistsBijection
  <2> QED BY <2>1, <2>2
<1> DEFINE D == 1..m
           Ordered(l) == \A i, j \in DOMAIN l : i < j => l[i].seq <= l[j].seq
<1>9. DOMAIN list = D /\ p \in [D -> D] /\ IsInjective(p)
  BY <1>2, <1>4, <1>8
<1>10. \E l \in Reordered(list) : Ordered(l)
  <2> DEFINE r == [i \in D |-> CHOOSE x \in D : p[x] = i]
             l == [i \in D |-> list[r[i]]]
  <2>1. \A i \in D : r[i] \in D /\ p[r[i]] = i
    BY <1>5, <1>8
  <2>2. r \in [D -> D]
    BY <2>1
  <2> HIDE DEF r
  <2>3. \A i, j \in D : r[i] = r[j] => i = j
    <3> TAKE i, j \in D
    <3> QED BY <2>1
  <2>4. \A x \in D : r[p[x]] = x
    <3> TAKE x \in D
    <3>1. p[x] \in D /\ p[r[p[x]]] = p[x] /\ r[p[x]] \in D
      BY <1>9, <2>1
    <3> QED BY <1>9, <3>1 DEF IsInjective
  <2>5. r \in Bijection(D, D)
    BY <1>9, <2>2, <2>3, <2>4 DEF Bijection, Injection, Surjection, IsInjective
  <2>6. l \in Reordered(list)
    BY <1>9, <2>5 DEF Reordered
  <2>7. \A i \in D : l[i].seq = i
    BY <1>7, <1>9, <2>1, <2>2 DEF Place
  <2>8. DOMAIN l = D
    OBVIOUS
  <2> HIDE DEF l
  <2>9. Ordered(l)
    BY <1>1, <2>7, <2>8
  <2> QED BY <2>6, <2>9
<1>11. ASSUME NEW l \in Reordered(list), Ordered(l)
       PROVE  DOMAIN l = D /\ \A i \in D : l[i] = Place(k, i)
  <2>1. PICK r \in Bijection(D, D) : l = [i \in D |-> list[r[i]]]
    BY <1>9 DEF Reordered
  <2>2. r \in [D -> D] /\ IsInjective(r)
    BY <2>1 DEF Bijection, Injection
  <2> DEFINE q == [i \in D |-> p[r[i]]]
  <2>3. DOMAIN l = D /\ \A i \in D : l[i] = Place(k, q[i]) /\ l[i].seq = q[i]
    BY <1>7, <1>9, <2>1, <2>2 DEF Place
  <2>4. q \in [D -> D] /\ \A i, j \in D : q[i] = q[j] => i = j
    BY <1>9, <2>2 DEF IsInjective
  <2> HIDE DEF q
  <2>5. \A i, j \in D : i < j => q[i] < q[j]
    <3> TAKE i, j \in D
    <3>1. i < j => q[i] <= q[j]
      BY <1>11, <2>3
    <3>2. i \in Int /\ j \in Int /\ q[i] \in Int /\ q[j] \in Int
      BY <1>1, <2>4
    <3> QED BY <2>4, <3>1, <3>2
  <2>6. \A i \in D : q[i] = i
    BY <1>1, <2>4, <2>5, GrowsByOne
  <2> QED BY <2>3, <2>6
<1> QED BY <1>1, <1>9, <1>10, <1>11

(* sorted() puts the columns of a constraint in their order, whatever the   *)
(* order of its rows was.                                                   *)
LEMMA SortedInOrder ==
    ASSUME NEW k \in Constraints, NEW list, HasRows(k, list, DOMAIN k.columns)
    PROVE  Sorted(list) = k.columns
<1> DEFINE Ordered(m) == \A i, j \in DOMAIN m : i < j => m[i].seq <= m[j].seq
           l == CHOOSE m \in Reordered(list) : Ordered(m)
<1>1. l \in Reordered(list) /\ Ordered(l)
  BY OrderedRows
<1>2. Sorted(list) = AsRead(l)
  BY DEF Sorted
<1> HIDE DEF l
<1>3. DOMAIN l = DOMAIN k.columns /\ \A i \in DOMAIN l : l[i] = Place(k, i)
  BY <1>1, OrderedRows
<1>4. AsRead(l) = [i \in DOMAIN k.columns |-> k.columns[i]]
  <2>1. \A i \in DOMAIN l : l[i].column = k.columns[i]
    <3>1. \A i : Place(k, i).column = k.columns[i]
      BY DEF Place
    <3> QED BY <1>3, <3>1
  <2>2. AsRead(l) = [i \in DOMAIN l |-> k.columns[i]]
    BY <2>1 DEF AsRead
  <2> QED BY <1>3, <2>2
<1>5. k.columns = [i \in DOMAIN k.columns |-> k.columns[i]]
  BY ConstraintFacts
<1> QED BY <1>2, <1>4, <1>5
-----------------------------------------------------------------------------
(* Rows and names                                                           *)

LEMMA ReadingNext ==
    ASSUME Reading, [Next]_vars
    PROVE  Reading'
<1>1. ASSUME NEW from \in {"start", "foreign", "primary"},
             NEW kind \in {"foreign", "primary", "unique"}, Show(from, kind)
      PROVE  Reading'
  <2>1. ASSUME NEW row \in unread'
        PROVE  /\ row.key \in ever' /\ row \in RowsOfKey(row.key)
               /\ row.key.kind = kind
    <3>1. PICK k \in table : k.kind = kind /\ row \in RowsOfKey(k)
      BY <1>1, RowsOfKind DEF Show
    <3>2. row.key = k
      BY <3>1 DEF RowsOfKey, Row
    <3> QED BY <1>1, <3>1, <3>2 DEF Show, Reading
  <2> QED BY <1>1, <2>1 DEF Show, Reading
<1>2. ASSUME NEW row \in unread, KeyRow(row)
      PROVE  Reading'
  BY <1>2 DEF KeyRow, Reading
<1>3. ASSUME NEW row \in unread, UniqueRow(row)
      PROVE  Reading'
  BY <1>3 DEF UniqueRow, Reading
<1>4. CASE Order
  BY <1>4 DEF Order, Reading
<1>5. CASE TableChanges
  <2>1. PICK k \in Constraints :
           table' = IF k \in table THEN table \ {k} ELSE table \cup {k}
    BY <1>5 DEF TableChanges
  <2>2. table' \subseteq Constraints
    BY <2>1 DEF Reading
  <2> QED BY <1>5, <2>2 DEF TableChanges, Reading
<1>6. CASE Describe
  BY <1>6 DEF Describe, Reading
<1>7. CASE UNCHANGED vars
  BY <1>7 DEF vars, Reading
<1> QED BY <1>1, <1>2, <1>3, <1>4, <1>5, <1>6, <1>7 DEF Next, GetConstraints, Returned

(* The table is only ever remembered to have had more, and to have kept less. *)
LEMMA MemoryGrows ==
    ASSUME [Next]_vars
    PROVE  ever \subseteq ever' /\ always' \subseteq always
  BY DEF Next, GetConstraints, Show, KeyRow, UniqueRow, Order, TableChanges, Describe,
         Returned, vars

LEMMA NamesNext ==
    ASSUME Reading, NamesHaveConstraints, [Next]_vars
    PROVE  NamesHaveConstraints'
<1>1. ASSUME NEW from \in {"start", "foreign", "primary"},
             NEW kind \in {"foreign", "primary", "unique"}, Show(from, kind)
      PROVE  NamesHaveConstraints'
  BY <1>1 DEF Show, NamesHaveConstraints
<1>2. ASSUME NEW row \in unread, KeyRow(row)
      PROVE  NamesHaveConstraints'
  <2> DEFINE n == Converted(row.key)
  <2>1. row.key \in ever /\ row.key.kind \in KeyKinds
    BY <1>2 DEF KeyRow, Reading, KeyKinds
  <2>2. /\ DOMAIN dict' = DOMAIN dict \cup {n} /\ orders' = orders /\ ever' = ever
        /\ step' = step /\ step \in KeyKinds
    BY <1>2, WithFacts DEF KeyRow, KeyKinds, Converted
  <2> QED BY <2>1, <2>2 DEF NamesHaveConstraints, KeyKinds
<1>3. ASSUME NEW row \in unread, UniqueRow(row)
      PROVE  NamesHaveConstraints'
  <2> DEFINE n == Converted(row.key)
  <2>1. row.key \in ever /\ row.key.kind = "unique" /\ step = "unique"
    BY <1>3 DEF UniqueRow, Reading
  <2>2. ever' = ever /\ step' \in {"unique", "KeyError"}
    BY <1>3 DEF UniqueRow
  <2>3. CASE n \notin DOMAIN dict
    <3>1. /\ DOMAIN dict' = DOMAIN dict \cup {n}
          /\ DOMAIN orders' = DOMAIN orders \cup {n}
      <4>1. /\ dict' = With(dict, n, Entry("unique", <<ColumnOf(row)>>))
            /\ orders' = With(orders, n, <<Placed(row)>>)
        BY <1>3, <2>3, UniqueRowEffect
      <4> QED BY <4>1, WithFacts, Zenon
    <3> QED BY <2>1, <2>2, <3>1 DEF NamesHaveConstraints
  <2>4. CASE n \in DOMAIN dict
    <3>1. DOMAIN dict' = DOMAIN dict /\ DOMAIN orders' = DOMAIN orders
      BY <1>3, <2>4, UniqueRowEffect
    <3> QED BY <2>1, <2>2, <3>1 DEF NamesHaveConstraints
  <2> QED BY <2>3, <2>4
<1>4. CASE Order
  <2>1. DOMAIN dict' = DOMAIN dict
    BY <1>4 DEF Order
  <2> QED BY <1>4, <2>1 DEF Order, NamesHaveConstraints
<1>5. CASE TableChanges
  <2>1. ever \subseteq ever'
    BY MemoryGrows
  <2> QED BY <1>5, <2>1 DEF TableChanges, NamesHaveConstraints
<1>6. CASE Describe
  BY <1>6 DEF Describe, NamesHaveConstraints
<1>7. CASE UNCHANGED vars
  BY <1>7 DEF vars, NamesHaveConstraints
<1> QED BY <1>1, <1>2, <1>3, <1>4, <1>5, <1>6, <1>7 DEF Next, GetConstraints, Returned

(* Names stay in the result, and the name of a row that was read is there. *)
LEMMA ResultGrows ==
    ASSUME [Next]_vars
    PROVE  /\ DOMAIN dict \subseteq DOMAIN dict'
           /\ \A row \in unread \ unread' : Converted(row.key) \in DOMAIN dict'
<1>1. ASSUME NEW row \in unread, KeyRow(row)
      PROVE  /\ DOMAIN dict' = DOMAIN dict \cup {Converted(row.key)}
             /\ unread' = unread \ {row}
  BY <1>1, WithFacts DEF KeyRow, Converted
<1>2. ASSUME NEW row \in unread, UniqueRow(row)
      PROVE  /\ DOMAIN dict \subseteq DOMAIN dict'
             /\ Converted(row.key) \in DOMAIN dict' /\ unread' = unread \ {row}
  <2> DEFINE n == Converted(row.key)
  <2>1. CASE n \notin DOMAIN dict
    <3>1. /\ dict' = With(dict, n, Entry("unique", <<ColumnOf(row)>>))
          /\ unread' = unread \ {row}
      BY <1>2, <2>1, UniqueRowEffect
    <3>2. DOMAIN dict' = DOMAIN dict \cup {n}
      BY <3>1, WithFacts, Zenon
    <3> QED BY <3>1, <3>2
  <2>2. CASE n \in DOMAIN dict
    BY <1>2, <2>2, UniqueRowEffect
  <2> QED BY <2>1, <2>2
<1>3. ASSUME NEW from, NEW kind, Show(from, kind)
      PROVE  dict' = dict /\ unread = {}
  BY <1>3 DEF Show
<1>4. CASE Order
  BY <1>4 DEF Order
<1>5. CASE TableChanges \/ Describe \/ UNCHANGED vars
  BY <1>5 DEF TableChanges, Describe, vars
<1> QED BY <1>1, <1>2, <1>3, <1>4, <1>5 DEF Next, GetConstraints, Returned

LEMMA NamesReadNext ==
    ASSUME Reading, NamesAreRead, [Next]_vars
    PROVE  NamesAreRead'
<1> SUFFICES ASSUME NEW k \in always', k.kind \in Shown'
             PROVE  Converted(k) \in DOMAIN dict' \/ RowsOfKey(k) \subseteq unread'
  BY DEF NamesAreRead
<1>0. k \in always /\ k \in table /\ k \in Constraints
  BY MemoryGrows DEF Reading
<1>1. CASE k.kind \notin Shown
  <2>1. \E from \in {"start", "foreign", "primary"} : Show(from, k.kind)
    BY <1>1 DEF Next, GetConstraints, Show, KeyRow, UniqueRow, Order, TableChanges,
                Describe, Returned, vars, Shown, KeyKinds
  <2>2. unread' = RowsOf(k.kind)
    BY <2>1 DEF Show
  <2> QED BY <1>0, <2>2, RowsOfKind
<1>2. CASE k.kind \in Shown /\ Converted(k) \in DOMAIN dict
  BY <1>2, ResultGrows
<1>3. CASE k.kind \in Shown /\ RowsOfKey(k) \subseteq unread
  <2>1. Row(k, 1) \in RowsOfKey(k) /\ Row(k, 1) \in unread
    BY <1>0, <1>3, ConstraintFacts, RowFacts
  <2>2. CASE RowsOfKey(k) \subseteq unread'
    BY <2>2
  <2>3. CASE ~(RowsOfKey(k) \subseteq unread')
    <3>1. PICK row \in RowsOfKey(k) : row \in unread \ unread'
      BY <1>3, <2>3
    <3>2. row.key = k
      BY <3>1 DEF RowsOfKey, Row
    <3> QED BY <3>1, <3>2, ResultGrows
  <2> QED BY <2>2, <2>3
<1> QED BY <1>0, <1>1, <1>2, <1>3 DEF NamesAreRead
-----------------------------------------------------------------------------
(* What is found                                                            *)

(* A row of another constraint is filed under another name. *)
LEMMA OtherRows ==
    ASSUME Reading, NEW k \in always, Alone(k), NEW row \in unread, row.key # k
    PROVE  Converted(row.key) # Converted(k)
  BY DEF Reading, Alone, Converted

(* The name of a key that is alone has no list of columns, and that of a   *)
(* unique constraint no key.                                               *)
LEMMA NamesOfOneKind ==
    ASSUME Reading, NamesHaveConstraints, NEW k \in always, Alone(k)
    PROVE  /\ k.kind # "unique" => Converted(k) \notin DOMAIN orders
           /\ k.kind = "unique" => Converted(k) \notin DOMAIN dict \ DOMAIN orders
  BY DEF Reading, NamesHaveConstraints, Alone, Converted, KeyKinds

LEMMA KeysReadNext ==
    ASSUME Reading, NamesHaveConstraints, KeysAreRead, [Next]_vars
    PROVE  KeysAreRead'
<1> SUFFICES ASSUME NEW k \in always', Alone(k)', Len(k.columns) = 1,
                    k.kind \in Shown', k.kind \in KeyKinds
             PROVE  \/ Row(k, 1) \in unread'
                    \/ /\ Converted(k) \in DOMAIN dict'
                       /\ dict'[Converted(k)] = Entry(k.kind, k.columns)
  BY DEF KeysAreRead
<1> DEFINE n == Converted(k)
<1>0. /\ k \in always /\ k \in table /\ k \in Constraints /\ Alone(k)
      /\ k.kind # "unique" /\ RowsOfKey(k) = {Row(k, 1)}
      /\ k.columns = <<k.columns[1]>>
  <2>1. k \in always /\ k \in table /\ k \in Constraints /\ Alone(k)
    BY MemoryGrows, AloneBefore DEF Reading
  <2>2. DOMAIN k.columns = {1} /\ k.columns = <<k.columns[1]>>
    BY <2>1, OneColumn
  <2> QED BY <2>1, <2>2 DEF RowsOfKey, KeyKinds
<1>1. CASE k.kind \notin Shown
  <2>1. \E from \in {"start", "foreign", "primary"} : Show(from, k.kind)
    BY <1>1 DEF Next, GetConstraints, Show, KeyRow, UniqueRow, Order, TableChanges,
                Describe, Returned, vars, Shown, KeyKinds
  <2>2. unread' = RowsOf(k.kind)
    BY <2>1 DEF Show
  <2> QED BY <1>0, <2>2, RowsOfKind
<1>2. CASE k.kind \in Shown
  <2>0. \/ Row(k, 1) \in unread
        \/ n \in DOMAIN dict /\ dict[n] = Entry(k.kind, k.columns)
    BY <1>0, <1>2 DEF KeysAreRead
  <2>1. ASSUME NEW from, NEW kind, Show(from, kind)
        PROVE  n \in DOMAIN dict' /\ dict'[n] = Entry(k.kind, k.columns)
    BY <2>0, <2>1 DEF Show
  <2>2. ASSUME NEW row \in unread, KeyRow(row)
        PROVE  \/ Row(k, 1) \in unread'
               \/ n \in DOMAIN dict' /\ dict'[n] = Entry(k.kind, k.columns)
    <3> DEFINE entry == Entry(step, <<row.key.columns[row.seq]>>)
    <3>1. /\ dict' = With(dict, Converted(row.key), entry)
          /\ unread' = unread \ {row} /\ step # "KeyError"
      BY <2>2 DEF KeyRow, Converted
    <3>2. CASE row.key = k
      <4>1. row = Row(k, 1) /\ step = k.kind
        BY <1>0, <3>1, <3>2 DEF Reading
      <4>2. entry = Entry(k.kind, k.columns)
        BY <1>0, <4>1, RowFacts
      <4> HIDE DEF entry
      <4>3. dict' = With(dict, n, Entry(k.kind, k.columns))
        BY <3>1, <3>2, <4>2
      <4> QED BY <4>3, WithKey
    <3>3. CASE row.key # k
      <4>1. Converted(row.key) # n /\ row # Row(k, 1)
        BY <1>0, <3>3, OtherRows, RowFacts
      <4> HIDE DEF entry
      <4>2. n \in DOMAIN dict => n \in DOMAIN dict' /\ dict'[n] = dict[n]
        BY <3>1, <4>1, WithOthers
      <4> QED BY <2>0, <3>1, <4>1, <4>2
    <3> QED BY <3>2, <3>3
  <2>3. ASSUME NEW row \in unread, UniqueRow(row)
        PROVE  \/ Row(k, 1) \in unread'
               \/ n \in DOMAIN dict' /\ dict'[n] = Entry(k.kind, k.columns)
    <3> DEFINE m == Converted(row.key)
    <3>1. unread' = unread \ {row} /\ row.key # k
      BY <1>0, <2>3, UniqueRowEffect DEF Reading
    <3>2. m # n /\ row # Row(k, 1)
      BY <1>0, <3>1, OtherRows, RowFacts
    <3>3. n \in DOMAIN dict => n \in DOMAIN dict' /\ dict'[n] = dict[n]
      <4>1. CASE m \notin DOMAIN dict
        <5>1. dict' = With(dict, m, Entry("unique", <<ColumnOf(row)>>))
          BY <2>3, <4>1, UniqueRowEffect
        <5> QED BY <3>2, <5>1, WithOthers
      <4>2. CASE m \in DOMAIN dict
        <5>1. dict' = [dict EXCEPT ![m].columns = Append(@, ColumnOf(row))]
          BY <2>3, <4>2, UniqueRowEffect
        <5> QED BY <3>2, <5>1
      <4> QED BY <4>1, <4>2
    <3> QED BY <2>0, <3>1, <3>2, <3>3
  <2>4. CASE Order
    BY <1>0, <2>0, <2>4, NamesOfOneKind DEF Order
  <2>5. CASE TableChanges \/ Describe \/ UNCHANGED vars
    BY <2>0, <2>5 DEF TableChanges, Describe, vars
  <2> QED BY <2>1, <2>2, <2>3, <2>4, <2>5 DEF Next, GetConstraints, Returned
<1> QED BY <1>1, <1>2

(* The rows of k that were read, and what a step makes of them. *)
ReadOf(k) == {i \in DOMAIN k.columns : Row(k, i) \notin unread}

Listed(k) ==
    \/ ReadOf(k) = {} /\ Converted(k) \notin DOMAIN dict
    \/ ReadInOrder(k, ReadOf(k))

(* A row is appended to the rows that were read. *)
LEMMA RowAppended ==
    ASSUME NEW k \in Constraints, NEW i \in DOMAIN k.columns, NEW list, NEW I,
           HasRows(k, list, I), i \notin I
    PROVE  HasRows(k, Append(list, Place(k, i)), I \cup {i})
<1> DEFINE P == {Place(k, j) : j \in DOMAIN k.columns}
           more == Append(list, Place(k, i))
           m == Len(list)
<1>1. list \in Seq(P) /\ m \in Nat /\ DOMAIN list = 1..m /\ Place(k, i) \in P
  BY DEF HasRows
<1>2. Place(k, i).seq = i
  BY DEF Place
<1>3. /\ more \in Seq(P) /\ more # <<>> /\ Len(more) = m + 1
      /\ \A x \in 1..m : more[x] = list[x]
      /\ more[m + 1] = Place(k, i)
  BY <1>1, AppendProperties
<1>4. DOMAIN more = 1..(m + 1)
  BY <1>3
<1> HIDE DEF P, more, m
<1>5. 1..(m + 1) = 1..m \cup {m + 1}
  BY <1>1
<1>6. \A x \in 1..m : list[x].seq \in I
  BY <1>1 DEF HasRows
<1>7. ASSUME NEW x \in 1..(m + 1), NEW y \in 1..(m + 1), more[x].seq = more[y].seq
      PROVE  x = y
  <2>1. CASE x \in 1..m /\ y \in 1..m
    BY <1>1, <1>3, <1>7, <2>1 DEF HasRows
  <2>2. CASE x = m + 1 /\ y \in 1..m
    BY <1>2, <1>3, <1>6, <1>7, <2>2
  <2>3. CASE x \in 1..m /\ y = m + 1
    BY <1>2, <1>3, <1>6, <1>7, <2>3
  <2>4. CASE x = m + 1 /\ y = m + 1
    BY <2>4
  <2> QED BY <1>5, <2>1, <2>2, <2>3, <2>4
<1>8. {more[x].seq : x \in 1..(m + 1)} = {list[x].seq : x \in 1..m} \cup {i}
  BY <1>2, <1>3, <1>5
<1>9. I = {list[x].seq : x \in 1..m}
  BY <1>1 DEF HasRows
<1> QED BY <1>3, <1>4, <1>7, <1>8, <1>9 DEF HasRows, P, more

(* The first row of a constraint. *)
LEMMA FirstRowListed ==
    ASSUME NEW k \in Constraints, NEW i \in DOMAIN k.columns, Row(k, i) \in unread,
           UniqueRow(Row(k, i)), ReadOf(k) = {}, Converted(k) \notin DOMAIN dict
    PROVE  Listed(k)'
<1> DEFINE n == Converted(k)
<1>1. Row(k, i).key = k /\ Row(k, i).seq = i /\ Placed(Row(k, i)) = Place(k, i)
  BY RowFacts DEF Placed, ColumnOf, Place
<1>2. /\ dict' = With(dict, n, Entry("unique", <<ColumnOf(Row(k, i))>>))
      /\ orders' = With(orders, n, <<Placed(Row(k, i))>>)
      /\ unread' = unread \ {Row(k, i)}
  BY <1>1, UniqueRowEffect
<1>3. n \in DOMAIN dict' /\ dict'[n] = Entry("unique", <<ColumnOf(Row(k, i))>>)
  BY <1>2, WithKey
<1>4. n \in DOMAIN orders' /\ orders'[n] = <<Place(k, i)>>
  BY <1>1, <1>2, WithKey
<1>5. ReadOf(k)' = {i}
  BY <1>2, RowFacts DEF ReadOf
<1>6. dict'[n] = Entry("unique", dict'[n].columns)
  BY <1>3, EntryFacts
<1>7. HasRows(k, <<Place(k, i)>>, {i})
  <2> DEFINE list == <<Place(k, i)>>
  <2>1. /\ list \in Seq({Place(k, j) : j \in DOMAIN k.columns}) /\ list # <<>>
        /\ DOMAIN list = {1} /\ list[1] = Place(k, i)
    BY 1..1 = {1}
  <2>2. Place(k, i).seq = i
    BY DEF Place
  <2> HIDE DEF list
  <2>3. HasRows(k, list, {i})
    BY <2>1, <2>2 DEF HasRows
  <2> QED BY <2>3 DEF list
<1>8. ReadInOrder(k, ReadOf(k))'
  BY <1>3, <1>4, <1>5, <1>6, <1>7 DEF ReadInOrder, Converted
<1> QED BY <1>8 DEF Listed

(* A later row. *)
LEMMA LaterRowListed ==
    ASSUME NEW k \in Constraints, NEW i \in DOMAIN k.columns, Row(k, i) \in unread,
           UniqueRow(Row(k, i)), ReadInOrder(k, ReadOf(k))
    PROVE  Listed(k)'
<1> DEFINE n == Converted(k)
<1>1. Row(k, i).key = k /\ Placed(Row(k, i)) = Place(k, i)
  BY RowFacts DEF Placed, ColumnOf, Place
<1>2. n \in DOMAIN dict /\ n \in DOMAIN orders /\ dict[n] = Entry("unique", dict[n].columns)
  BY DEF ReadInOrder
<1>3. /\ dict' = [dict EXCEPT ![n].columns = Append(@, ColumnOf(Row(k, i)))]
      /\ orders' = [orders EXCEPT ![n] = Append(@, Placed(Row(k, i)))]
      /\ unread' = unread \ {Row(k, i)}
  BY <1>1, <1>2, UniqueRowEffect
<1>4. ReadOf(k)' = ReadOf(k) \cup {i} /\ i \notin ReadOf(k)
  BY <1>3, RowFacts DEF ReadOf
<1>5. orders'[n] = Append(orders[n], Place(k, i))
  BY <1>1, <1>2, <1>3
<1>6. HasRows(k, orders[n], ReadOf(k))
  BY DEF ReadInOrder
<1>7. HasRows(k, orders'[n], ReadOf(k)')
  <2> HIDE DEF n
  <2> DEFINE I == ReadOf(k)
             list == orders[n]
  <2>1. HasRows(k, list, I) /\ i \notin I
    BY <1>4, <1>6
  <2> HIDE DEF I, list
  <2>2. HasRows(k, Append(list, Place(k, i)), I \cup {i})
    BY <2>1, RowAppended
  <2> QED BY <1>4, <1>5, <2>2 DEF I, list
<1>8. n \in DOMAIN dict' /\ n \in DOMAIN orders'
  BY <1>2, <1>3
<1>9. dict'[n] = Entry("unique", dict'[n].columns)
  <2> DEFINE cs == dict[n].columns
             ds == Append(cs, ColumnOf(Row(k, i)))
  <2>1. dict'[n] = [dict[n] EXCEPT !.columns = ds]
    BY <1>2, <1>3
  <2>2. dict[n] = Entry("unique", cs)
    BY <1>2
  <2> HIDE DEF cs, ds
  <2>3. dict'[n] = Entry("unique", ds)
    BY <2>1, <2>2, EntryFacts
  <2> QED BY <2>3, EntryFacts
<1>10. ReadInOrder(k, ReadOf(k))'
  BY <1>7, <1>8, <1>9 DEF ReadInOrder, Converted, HasRows, Place
<1> QED BY <1>10 DEF Listed

(* The row of another constraint. *)
LEMMA OtherRowListed ==
    ASSUME NEW k \in Constraints, NEW row \in unread, UniqueRow(row), row.key # k,
           Converted(row.key) # Converted(k), Listed(k)
    PROVE  Listed(k)'
<1> DEFINE n == Converted(k)
           m == Converted(row.key)
<1>1. ReadOf(k)' = ReadOf(k)
  <2>1. unread' = unread \ {row} /\ \A i : row # Row(k, i)
    BY UniqueRowEffect, RowFacts
  <2> QED BY <2>1 DEF ReadOf
<1>2. /\ n \in DOMAIN dict' <=> n \in DOMAIN dict
      /\ n \in DOMAIN dict => dict'[n] = dict[n]
  <2>1. CASE m \notin DOMAIN dict
    <3>1. dict' = With(dict, m, Entry("unique", <<ColumnOf(row)>>))
      BY <2>1, UniqueRowEffect
    <3> QED BY <3>1, WithOthers
  <2>2. CASE m \in DOMAIN dict
    <3>1. dict' = [dict EXCEPT ![m].columns = Append(@, ColumnOf(row))]
      BY <2>2, UniqueRowEffect
    <3> QED BY <3>1
  <2> QED BY <2>1, <2>2
<1>3. /\ n \in DOMAIN orders => n \in DOMAIN orders'
      /\ n \in DOMAIN orders => orders'[n] = orders[n]
  <2>1. CASE m \notin DOMAIN dict
    <3>1. orders' = With(orders, m, <<Placed(row)>>)
      BY <2>1, UniqueRowEffect
    <3> QED BY <3>1, WithOthers
  <2>2. CASE m \in DOMAIN dict /\ m \in DOMAIN orders
    <3>1. orders' = [orders EXCEPT ![m] = Append(@, Placed(row))]
      BY <2>2, UniqueRowEffect
    <3> QED BY <3>1
  <2>3. CASE m \in DOMAIN dict /\ m \notin DOMAIN orders
    BY <2>3, UniqueRowEffect
  <2> QED BY <2>1, <2>2, <2>3
<1>4. CASE ReadOf(k) = {} /\ n \notin DOMAIN dict
  BY <1>1, <1>2, <1>4 DEF Listed, Converted
<1>5. CASE ReadInOrder(k, ReadOf(k))
  BY <1>1, <1>2, <1>3, <1>5 DEF Listed, ReadInOrder, Converted
<1> QED BY <1>4, <1>5 DEF Listed

LEMMA UniquesNext ==
    ASSUME Reading, NamesHaveConstraints, UniquesAreRead, [Next]_vars
    PROVE  UniquesAreRead'
<1> SUFFICES ASSUME step' = "unique", NEW k \in always', Alone(k)', k.kind = "unique"
             PROVE  Listed(k)'
  BY DEF UniquesAreRead, Listed, ReadOf
<1>0. k \in always /\ k \in table /\ k \in Constraints /\ Alone(k)
  BY MemoryGrows, AloneBefore DEF Reading
<1>1. CASE Show("primary", "unique")
  <2>1. RowsOfKey(k) \subseteq unread' /\ dict' = dict /\ DOMAIN orders = {}
    BY <1>0, <1>1, RowsOfKind DEF Show, NamesHaveConstraints, Empty
  <2>2. ReadOf(k)' = {}
    BY <2>1, RowFacts DEF ReadOf
  <2>3. Converted(k) \notin DOMAIN dict'
    BY <1>0, <2>1, NamesOfOneKind
  <2> QED BY <2>2, <2>3 DEF Listed, Converted
<1>2. ASSUME step = "unique" PROVE Listed(k)
  BY <1>0, <1>2 DEF UniquesAreRead, Listed, ReadOf
<1>3. ASSUME NEW row \in unread, UniqueRow(row)
      PROVE  Listed(k)'
  <2>1. Listed(k) /\ row \in RowsOfKey(row.key)
    BY <1>2, <1>3, UniqueRowEffect DEF Reading
  <2>2. CASE row.key = k
    <3>1. PICK i \in DOMAIN k.columns : row = Row(k, i)
      BY <2>1, <2>2 DEF RowsOfKey
    <3> QED BY <1>0, <1>3, <2>1, <3>1, FirstRowListed, LaterRowListed DEF Listed
  <2>3. CASE row.key # k
    <3>1. Converted(row.key) # Converted(k)
      BY <1>0, <2>3, OtherRows
    <3> QED BY <1>0, <1>3, <2>1, <2>3, <3>1, OtherRowListed
  <2> QED BY <2>2, <2>3
<1>4. CASE UNCHANGED vars
  BY <1>2, <1>4 DEF vars, Listed, ReadOf, ReadInOrder, Converted
<1> QED BY <1>1, <1>3, <1>4
        DEF Next, GetConstraints, Show, KeyRow, Order, TableChanges, Describe, Returned

LEMMA StableNext ==
    ASSUME Reading, NamesHaveConstraints, KeysAreRead, UniquesAreRead,
           StableConstraintsAreFound, [Next]_vars
    PROVE  StableConstraintsAreFound'
<1> SUFFICES ASSUME step' = "done", NEW k \in always', Alone(k)',
                    k.kind = "unique" \/ Len(k.columns) = 1
             PROVE  /\ Converted(k) \in DOMAIN dict'
                    /\ dict'[Converted(k)] = Entry(k.kind, k.columns)
  BY DEF StableConstraintsAreFound, Converted
<1> DEFINE n == Converted(k)
<1>0. k \in always /\ k \in Constraints /\ Alone(k)
  BY MemoryGrows, AloneBefore DEF Reading
<1>1. CASE Order
  <2>1. /\ step = "unique" /\ unread = {} /\ DOMAIN dict' = DOMAIN dict
        /\ dict' = [m \in DOMAIN dict |->
                      IF m \in DOMAIN orders
                      THEN [dict[m] EXCEPT !.columns = Sorted(orders[m])]
                      ELSE dict[m]]
    BY <1>1 DEF Order
  <2>2. CASE k.kind = "unique"
    <3>1. ReadOf(k) = DOMAIN k.columns /\ ReadOf(k) # {}
      BY <1>0, <2>1, ConstraintFacts DEF ReadOf
    <3>2. ReadInOrder(k, DOMAIN k.columns)
      BY <1>0, <2>1, <2>2, <3>1 DEF UniquesAreRead, ReadOf
    <3>3. /\ n \in DOMAIN dict /\ n \in DOMAIN orders
          /\ dict[n] = Entry("unique", dict[n].columns)
      BY <3>2 DEF ReadInOrder
    <3>4. Sorted(orders[n]) = k.columns
      BY <1>0, <3>2, SortedInOrder DEF ReadInOrder
    <3>5. dict'[n] = [dict[n] EXCEPT !.columns = k.columns]
      BY <2>1, <3>3, <3>4
    <3>6. dict'[n] = Entry("unique", k.columns)
      <4> DEFINE cs == dict[n].columns
      <4>1. dict[n] = Entry("unique", cs)
        BY <3>3
      <4> HIDE DEF cs
      <4> QED BY <3>5, <4>1, EntryFacts
    <3> QED BY <2>1, <2>2, <3>3, <3>6
  <2>3. CASE k.kind # "unique"
    <3>1. k.kind \in KeyKinds /\ k.kind \in Shown
      BY <1>0, <2>1, <2>3, ConstraintFacts DEF Shown
    <3>2. n \in DOMAIN dict /\ dict[n] = Entry(k.kind, k.columns)
      BY <1>0, <2>1, <2>3, <3>1 DEF KeysAreRead
    <3>3. n \notin DOMAIN orders
      BY <1>0, <2>3, NamesOfOneKind
    <3> QED BY <2>1, <3>2, <3>3
  <2> QED BY <2>2, <2>3
<1>2. CASE UNCHANGED vars
  BY <1>0, <1>2 DEF vars, StableConstraintsAreFound, Converted
<1> QED BY <1>1, <1>2
        DEF Next, GetConstraints, Show, KeyRow, UniqueRow, TableChanges, Describe, Returned

LEMMA RaisesNext ==
    ASSUME Reading, NamesHaveConstraints, RaisesOnlyForTwoNames, [Next]_vars
    PROVE  RaisesOnlyForTwoNames'
<1> SUFFICES ASSUME step' = "KeyError"
             PROVE  \E k, l \in ever' :
                       /\ k # l /\ k.kind # "unique" /\ l.kind = "unique"
                       /\ IdentifierConverter(k.name) = IdentifierConverter(l.name)
  BY DEF RaisesOnlyForTwoNames
<1>1. ASSUME NEW row \in unread, UniqueRow(row)
      PROVE  \E k, l \in ever' :
                /\ k # l /\ k.kind # "unique" /\ l.kind = "unique"
                /\ IdentifierConverter(k.name) = IdentifierConverter(l.name)
  <2>1. /\ step = "unique" /\ ever' = ever
        /\ Converted(row.key) \in DOMAIN dict \ DOMAIN orders
    BY <1>1, UniqueRowEffect
  <2>2. PICK k \in ever : k.kind \in KeyKinds /\ Converted(k) = Converted(row.key)
    BY <2>1 DEF NamesHaveConstraints
  <2>3. row.key \in ever /\ row.key.kind = "unique"
    BY <2>1 DEF Reading
  <2> QED BY <2>1, <2>2, <2>3 DEF Converted, KeyKinds
<1>2. CASE UNCHANGED vars
  BY <1>2 DEF vars, RaisesOnlyForTwoNames
<1> QED BY <1>1, <1>2
        DEF Next, GetConstraints, Show, KeyRow, Order, TableChanges, Describe, Returned
-----------------------------------------------------------------------------
(* Fields                                                                   *)

(* The column c has the field that is found for it, or the exception.      *)
Fits(c) ==
    \/ DataType(FieldType(c), c.numbers) = c
    \/ c.name = "NUMBER" /\ c.numbers[2] = 0 /\ c.numbers[1] \notin {5, 10, 38}

(* Columns of different types differ. *)
LEMMA OtherColumn ==
    ASSUME NEW c, NEW name, NEW numbers, c.name # name
    PROVE  c # Column(name, numbers)
<1>1. Column(name, numbers).name = name
  BY DEF Column
<1> QED BY <1>1

PlainNames == {"BINARY", "BOOLEAN", "DATE", "FLOAT", "TIME", "TIMESTAMP_LTZ", "VARIANT"}

LEMMA PlainFieldsFacts ==
    /\ DOMAIN PlainFields = PlainNames
    /\ \A n, m \in PlainNames : PlainFields[n] = PlainFields[m] => n = m
    /\ \A n \in PlainNames :
          PlainFields[n] \notin
             {"SmallIntegerField", "IntegerField", "BigIntegerField", "SmallAutoField",
              "AutoField", "BigAutoField", "DecimalField", "CharField", "TextField"}
  BY DEF PlainFields, PlainNames

(* A data type that one field has. *)
LEMMA PlainFits ==
    ASSUME NEW f \in Range(PlainFields)
    PROVE  Fits(DataType(f, <<>>))
<1>1. PICK n \in PlainNames : f = PlainFields[n]
  BY PlainFieldsFacts DEF Range
<1>2. (CHOOSE m \in DOMAIN PlainFields : PlainFields[m] = f) = n
  BY <1>1, PlainFieldsFacts
<1>3. DataType(f, <<>>) = Column(n, <<>>)
  BY <1>1, <1>2, PlainFieldsFacts DEF DataType
<1> DEFINE c == Column(n, <<>>)
<1>4. c.name = n /\ c.numbers = <<>> /\ n \notin {"VARCHAR", "NUMBER"}
  BY DEF Column, PlainNames
<1>5. c # Column("VARCHAR", <<DefaultSize>>)
  BY <1>4, OtherColumn, Zenon
<1> HIDE DEF c
<1>6. FieldType(c) = f
  BY <1>1, <1>4, <1>5 DEF FieldType, IsInteger
<1> QED BY <1>3, <1>4, <1>6 DEF Fits, c

(* Numbers, whatever their digits are. *)
LEMMA NumberFits ==
    ASSUME NEW p \in Nat, NEW s \in Nat
    PROVE  Fits(Column("NUMBER", <<p, s>>))
<1> DEFINE c == Column("NUMBER", <<p, s>>)
<1>1. /\ c.name = "NUMBER" /\ c.numbers = <<p, s>> /\ c.identity = FALSE
  BY DEF Column
<1>0. c # Column("VARCHAR", <<DefaultSize>>)
  BY <1>1, OtherColumn
<1>2. c.numbers[1] = p /\ c.numbers[2] = s
  BY <1>1
<1> HIDE DEF c
<1>3. CASE s # 0
  <2>1. FieldType(c) = "DecimalField"
    BY <1>0, <1>1, <1>2, <1>3 DEF FieldType, IsInteger
  <2> QED BY <1>1, <2>1 DEF Fits, DataType, c
<1>4. CASE s = 0 /\ p = 5
  <2>1. FieldType(c) = "SmallIntegerField"
    BY <1>0, <1>1, <1>2, <1>4 DEF FieldType, IsInteger
  <2> QED BY <1>4, <2>1 DEF Fits, DataType, c
<1>5. CASE s = 0 /\ p = 10
  <2>1. FieldType(c) = "IntegerField"
    BY <1>0, <1>1, <1>2, <1>5 DEF FieldType, IsInteger
  <2> QED BY <1>5, <2>1 DEF Fits, DataType, c
<1>6. CASE s = 0 /\ p = 38
  <2>1. FieldType(c) = "BigIntegerField"
    BY <1>0, <1>1, <1>2, <1>6 DEF FieldType, IsInteger
  <2> QED BY <1>6, <2>1 DEF Fits, DataType, c
<1>7. CASE s = 0 /\ p \notin {5, 10, 38}
  BY <1>0, <1>1, <1>2, <1>7 DEF Fits, c
<1> QED BY <1>3, <1>4, <1>5, <1>6, <1>7

LEMMA AutoFits ==
    ASSUME NEW p \in {5, 10, 38}
    PROVE  Fits(Identity(Column("NUMBER", <<p, 0>>)))
<1> DEFINE c == Identity(Column("NUMBER", <<p, 0>>))
<1>1. /\ c.name = "NUMBER" /\ c.numbers = <<p, 0>> /\ c.identity = TRUE
  BY DEF Column, Identity
<1>0. c # Column("VARCHAR", <<DefaultSize>>)
  BY <1>1, OtherColumn
<1>2. c.numbers[1] = p /\ c.numbers[2] = 0
  BY <1>1
<1> HIDE DEF c
<1>3. CASE p = 5
  <2>1. FieldType(c) = "SmallAutoField"
    BY <1>0, <1>1, <1>2, <1>3 DEF FieldType, IsInteger
  <2> QED BY <1>3, <2>1 DEF Fits, DataType, c
<1>4. CASE p = 10
  <2>1. FieldType(c) = "AutoField"
    BY <1>0, <1>1, <1>2, <1>4 DEF FieldType, IsInteger
  <2> QED BY <1>4, <2>1 DEF Fits, DataType, c
<1>5. CASE p = 38
  <2>1. FieldType(c) = "BigAutoField"
    BY <1>0, <1>1, <1>2, <1>5 DEF FieldType, IsInteger
  <2> QED BY <1>5, <2>1 DEF Fits, DataType, c
<1> QED BY <1>3, <1>4, <1>5

(* Texts, whatever their size is. *)
LEMMA TextFits ==
    ASSUME NEW n \in Nat
    PROVE  Fits(Column("VARCHAR", <<n>>))
<1> DEFINE c == Column("VARCHAR", <<n>>)
<1>1. c.name = "VARCHAR" /\ c.numbers = <<n>>
  BY DEF Column
<1>2. CASE n = DefaultSize
  <2>1. FieldType(c) = "TextField"
    BY <1>1, <1>2 DEF FieldType, IsInteger
  <2> QED BY <1>2, <2>1 DEF Fits, DataType
<1>3. CASE n # DefaultSize
  <2>1. <<n>> # <<DefaultSize>>
    BY <1>3
  <2>2. c # Column("VARCHAR", <<DefaultSize>>)
    BY <2>1 DEF Column
  <2> HIDE DEF c
  <2>3. FieldType(c) = "CharField"
    BY <1>1, <2>1, <2>2 DEF FieldType, IsInteger
  <2> QED BY <1>1, <2>3 DEF Fits, DataType, c
<1> QED BY <1>2, <1>3

LEMMA ColumnsFit ==
    ASSUME NEW c \in ColumnsOfFields
    PROVE  Fits(c)
<1>1. CASE \E f \in Range(PlainFields) : c = DataType(f, <<>>)
  BY <1>1, PlainFits
<1>2. CASE c \in {DataType(f, <<>>) :
                     f \in {"SmallIntegerField", "IntegerField", "BigIntegerField"}}
  <2>1. \E p \in {5, 10, 38} : c = Column("NUMBER", <<p, 0>>)
    BY <1>2 DEF DataType
  <2> QED BY <2>1, NumberFits
<1>3. CASE c \in {DataType(f, <<>>) :
                     f \in {"SmallAutoField", "AutoField", "BigAutoField"}}
  <2>1. \E p \in {5, 10, 38} : c = Identity(Column("NUMBER", <<p, 0>>))
    BY <1>3 DEF DataType
  <2> QED BY <2>1, AutoFits
<1>4. CASE c = DataType("TextField", <<>>)
  <2>1. c = Column("VARCHAR", <<DefaultSize>>) /\ DefaultSize \in Nat
    BY <1>4 DEF DataType, DefaultSize
  <2> QED BY <2>1, TextFits
<1>5. CASE \E p \in {5, 10, 12}, s \in {0, 2, 5} : c = DataType("DecimalField", <<p, s>>)
  <2>1. PICK p \in {5, 10, 12}, s \in {0, 2, 5} : c = DataType("DecimalField", <<p, s>>)
    BY <1>5
  <2>2. c = Column("NUMBER", <<p, s>>)
    BY <2>1 DEF DataType
  <2> QED BY <2>2, NumberFits
<1>6. CASE \E n \in {1, 32, DefaultSize} : c = DataType("CharField", <<n>>)
  <2>1. PICK n \in {1, 32, DefaultSize} : c = DataType("CharField", <<n>>)
    BY <1>6
  <2>2. c = Column("VARCHAR", <<n>>) /\ n \in Nat
    BY <2>1 DEF DataType, DefaultSize
  <2> QED BY <2>2, TextFits
<1> QED BY <1>1, <1>2, <1>3, <1>4, <1>5, <1>6 DEF ColumnsOfFields

LEMMA FieldsNext ==
    ASSUME FieldsHaveTheirColumn, [Next]_vars
    PROVE  FieldsHaveTheirColumn'
<1>1. CASE Describe
  <2>1. PICK c \in ColumnsOfFields : described' = <<c, FieldType(c)>>
    BY <1>1 DEF Describe
  <2>2. described'[1] = c /\ described'[2] = FieldType(c)
    BY <2>1
  <2>3. Fits(c)
    BY ColumnsFit
  <2> QED BY <2>2, <2>3 DEF FieldsHaveTheirColumn, Fits
<1>2. CASE described' = described
  BY <1>2 DEF FieldsHaveTheirColumn
<1> QED BY <1>1, <1>2 DEF Next, GetConstraints, Show, KeyRow, UniqueRow, Order,
                          TableChanges, Returned, vars
-----------------------------------------------------------------------------
LEMMA InitInv == Init => IInv
<1> SUFFICES ASSUME Init PROVE IInv
  OBVIOUS
<1>1. Reading
  <2>1. table \subseteq Constraints
    BY DEF Init
  <2> QED BY <2>1 DEF Init, Reading
<1>2. step = "start" /\ unread = {} /\ dict = Empty /\ orders = Empty /\ described = <<>>
  BY DEF Init
<1>3. NamesHaveConstraints
  <2>1. DOMAIN dict = {} /\ DOMAIN orders = {}
    BY <1>2 DEF Empty
  <2> QED BY <1>2, <2>1 DEF NamesHaveConstraints
<1>4. NamesAreRead /\ KeysAreRead
  BY <1>2 DEF NamesAreRead, KeysAreRead, Shown
<1>5. UniquesAreRead /\ StableConstraintsAreFound /\ RaisesOnlyForTwoNames
  BY <1>2 DEF UniquesAreRead, StableConstraintsAreFound, RaisesOnlyForTwoNames
<1>6. FieldsHaveTheirColumn
  BY <1>2 DEF FieldsHaveTheirColumn
<1> QED BY <1>1, <1>3, <1>4, <1>5, <1>6 DEF IInv

THEOREM Invariant == Spec => []IInv
<1>1. IInv /\ [Next]_vars => IInv'
  BY ReadingNext, NamesNext, NamesReadNext, KeysReadNext, UniquesNext, StableNext,
     RaisesNext, FieldsNext DEF IInv
<1> QED BY InitInv, <1>1, PTL DEF Spec

(* Whatever the order of the rows and whatever other sessions change in the *)
(* table between the three statements of get_constraints: a constraint that *)
(* was there all the time, under a name no other one was converted to, is   *)
(* in the result with its columns in their order.                           *)
THEOREM ConstraintsAreFound == Spec => []StableConstraintsAreFound
<1>1. IInv => StableConstraintsAreFound
  BY DEF IInv
<1> QED BY <1>1, Invariant, PTL

(* get_constraints raises KeyError only when the name of a unique           *)
(* constraint was converted like that of a key the table has had.           *)
THEOREM OnlySharedNamesRaise == Spec => []RaisesOnlyForTwoNames
<1>1. IInv => RaisesOnlyForTwoNames
  BY DEF IInv
<1> QED BY <1>1, Invariant, PTL

(* quote_name makes of a name of the result the name that the constraint    *)
(* has in the database, for names in capitals and for generated ones.       *)
THEOREM ConstraintsCanBeDropped == Spec => []FoundNamesCanBeDropped
<1>1. ASSUME IInv, step = "done", NEW k \in always,
             k.name.case = "upper" \/ k.name.word \in SystemWords
      PROVE  \E n \in DOMAIN dict : QuoteName(n) = k.name
  <2>1. k \in Constraints /\ unread = {}
    BY <1>1 DEF IInv, Reading
  <2>2. k.name \in Names /\ k.kind \in Shown /\ RowsOfKey(k) # {}
    BY <1>1, <2>1, ConstraintFacts, RowFacts DEF Shown
  <2>3. Converted(k) \in DOMAIN dict
    BY <1>1, <2>1, <2>2 DEF IInv, NamesAreRead
  <2> QED BY <1>1, <2>2, <2>3, QuotedIsConverted DEF Converted
<1>2. IInv => FoundNamesCanBeDropped
  BY <1>1 DEF FoundNamesCanBeDropped
<1> QED BY <1>2, Invariant, PTL

(* The field that get_field_type finds for a column has that column in      *)
(* data_types, unless the column is of a DecimalField without decimal       *)
(* places.  NumberFits and TextFits say it of every number of digits and of *)
(* every size.                                                              *)
THEOREM DescribedFieldsFit == Spec => []FieldsHaveTheirColumn
<1>1. IInv => FieldsHaveTheirColumn
  BY DEF IInv
<1> QED BY <1>1, Invariant, PTL
===============================================================================
