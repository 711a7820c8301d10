---------------------------- MODULE Compiler_proofs ----------------------------
(***************************************************************************)
(* Proofs about the statements that Django has compiled: the inserts of    *)
(* compiler.py (KeyAssignment) for any set of objects and any keys, and    *)
(* the JSON lookups of lookups.py (JsonPaths) for any keys and any length  *)
(* of the paths.  The inductive invariant of KeyAssignment says which rows *)
(* an object that has not read its key yet may find beside its own.        *)
(***************************************************************************)
EXTENDS KeyAssignment, SequenceTheorems, TLAPS

(* An object that was not inserted yet is not known to anybody. *)
NewIsUnknown ==
    \A o \in Objects : pc[o] = "new" =>
        /\ key[o] = None /\ o \notin explicit /\ o \notin retired
        /\ \A q \in Objects : o \notin overlap[q]

(* Keys that the sequence still remembers. *)
Numbered == Objects \ (explicit \cup retired)

KeysAreGiven == \A o \in Numbered : key[o] # None => key[o] \in given

KeysDiffer ==
    \A o, p \in Numbered : key[o] # None /\ key[o] = key[p] => o = p

(* The rows from before the last reset are those that were in a transaction. *)
RetiredOutlived ==
    /\ outlived \subseteq retired /\ present \cap retired \subseteq outlived
    /\ \A o \in retired : key[o] # None

(* Who is about to read its key has a row, and every other row came after  *)
(* it or has a smaller key, unless its number is not one of the sequence.  *)
IsGreatest ==
    prepared =>
        \A o \in Objects \ (explicit \cup gone) : pc[o] = "reading" =>
            /\ o \in present
            /\ \A q \in present \ (explicit \cup outlived) :
                  q = o \/ q \in overlap[o] \/ key[q] < key[o]

IInv ==
    /\ TypeOK /\ NewIsUnknown /\ KeysAreGiven /\ KeysDiffer /\ RetiredOutlived
    /\ IsGreatest /\ WrongKeyOnlyByOverlap
-----------------------------------------------------------------------------
(* A number of the sequence is a new one, and in a table made by a         *)
(* prepared session it is the greatest so far.                             *)
LEMMA NextKeyIsNew ==
    ASSUME given \subseteq Keys, NEW k \in NextKeys
    PROVE  /\ k \in Keys /\ k \in Nat /\ k # None /\ k \notin given
           /\ prepared => \A j \in given : j < k
  BY ConstantsOK DEF NextKeys, SequenceOrder

(* The rows of one INSERT, whether its objects are saved or created in     *)
(* bulk, or it raises afterwards, keep the invariant.                      *)
LEMMA InsertKeeps ==
    ASSUME IInv, UNCHANGED prepared, NEW B \in SUBSET Objects,
           \A o \in B : pc[o] = "new",
           InsertRows(B),
           open' \in {open, open \cup B},
           pc' \in [Objects -> {"new", "reading", "saved", "bulk", "raised", "deleted"}],
           \A o \in Objects \ B : pc'[o] = pc[o],
           \A o \in B : pc'[o] \in {"reading", "bulk", "raised"},
           \A o, p \in B : pc'[o] = "reading" => o = p
    PROVE  IInv'
<1>1. PICK f \in [B -> NextKeys] :
         /\ \A o, p \in B : f[o] = f[p] => o = p
         /\ key' = [o \in Objects |-> IF o \in B THEN f[o] ELSE key[o]]
         /\ given' = given \cup {f[o] : o \in B}
  BY DEF InsertRows
<1>2. /\ present' = present \cup B
      /\ overlap' = [o \in Objects |-> IF pc[o] = "reading" THEN overlap[o] \cup (B \ {o})
                                       ELSE overlap[o]]
      /\ pk' = pk /\ explicit' = explicit /\ gone' = gone
      /\ retired' = retired /\ outlived' = outlived
  BY DEF InsertRows, Overlapped
<1>3. ASSUME NEW o \in B
      PROVE  /\ f[o] \in Keys /\ f[o] \in Nat /\ f[o] # None /\ f[o] \notin given
             /\ prepared => \A j \in given : j < f[o]
             /\ key'[o] = f[o] /\ f[o] \in given'
  <2>1. f[o] \in NextKeys /\ o \in Objects
    BY <1>1
  <2>2. given \subseteq Keys
    BY DEF IInv, TypeOK
  <2> QED BY <1>1, <2>1, <2>2, NextKeyIsNew
<1>4. \A o \in Objects \ B : key'[o] = key[o]
  BY <1>1
<1>5. \A j \in given : j \in given'
  BY <1>1
<1>6. \A o \in B : key[o] = None /\ o \notin explicit /\ o \notin retired /\ o \notin present
  BY DEF IInv, NewIsUnknown, TypeOK
<1>7. TypeOK'
  <2>1. given' \subseteq Keys /\ key' \in [Objects -> Keys \cup {None}]
    <3>1. \A o \in B : f[o] \in Keys
      BY <1>3
    <3>2. given \subseteq Keys /\ key \in [Objects -> Keys \cup {None}]
      BY DEF IInv, TypeOK
    <3>3. given' \subseteq Keys
      BY <1>1, <3>1, <3>2
    <3>4. key' \in [Objects -> Keys \cup {None}]
      BY <1>1, <3>1, <3>2
    <3> QED BY <3>3, <3>4
  <2>2. open' \subseteq present' /\ present' \subseteq {o \in Objects : key'[o] # None}
    BY <1>2, <1>3, <1>4 DEF IInv, TypeOK
  <2>3. overlap' \in [Objects -> SUBSET Objects]
    BY <1>2 DEF IInv, TypeOK
  <2>4. \A o \in Objects : pc'[o] \in {"reading", "saved", "bulk"} => key'[o] # None
    BY <1>3, <1>4 DEF IInv, TypeOK
  <2> QED BY <1>2, <2>1, <2>2, <2>3, <2>4 DEF IInv, TypeOK
<1>8. NewIsUnknown'
  BY <1>2, <1>4 DEF IInv, NewIsUnknown, TypeOK
<1>9. KeysAreGiven'
  BY <1>2, <1>3, <1>4, <1>5 DEF IInv, KeysAreGiven, Numbered
<1>10. KeysDiffer'
  <2> SUFFICES ASSUME NEW o \in Numbered, NEW p \in Numbered,
                      key'[o] # None, key'[o] = key'[p]
               PROVE  o = p
    BY <1>2 DEF KeysDiffer, Numbered
  <2>1. CASE o \in B /\ p \in B
    BY <1>1, <1>3, <2>1
  <2>2. CASE o \notin B /\ p \notin B
    BY <1>4, <2>2 DEF IInv, KeysDiffer, Numbered
  <2>3. CASE o \in B /\ p \notin B
    BY <1>3, <1>4, <2>3 DEF IInv, KeysAreGiven, Numbered
  <2>4. CASE o \notin B /\ p \in B
    BY <1>3, <1>4, <2>4 DEF IInv, KeysAreGiven, Numbered
  <2> QED BY <2>1, <2>2, <2>3, <2>4
<1>11. RetiredOutlived'
  <2>1. \A o \in retired : o \in Objects \ B /\ key'[o] = key[o]
    BY <1>4, <1>6 DEF IInv, TypeOK
  <2> QED BY <1>2, <1>4, <1>6, <2>1 DEF IInv, RetiredOutlived, TypeOK
<1>12. IsGreatest'
  <2> SUFFICES ASSUME prepared, NEW o \in Objects \ (explicit \cup gone),
                      pc'[o] = "reading"
               PROVE  /\ o \in present'
                      /\ \A q \in present' \ (explicit \cup outlived) :
                            q = o \/ q \in overlap'[o] \/ key'[q] < key'[o]
    BY <1>2 DEF IsGreatest
  <2>1. CASE o \in B
    <3>1. \A q \in present \ (explicit \cup outlived) : key[q] \in given /\ q \notin B
      BY <1>6 DEF IInv, TypeOK, KeysAreGiven, RetiredOutlived, Numbered
    <3>2. \A q \in present \ (explicit \cup outlived) : key'[q] < key'[o]
      BY <1>3, <1>4, <2>1, <3>1 DEF IInv, TypeOK
    <3>3. \A q \in B : q = o
      BY <2>1
    <3> QED BY <1>2, <2>1, <3>2, <3>3
  <2>2. CASE o \notin B
    <3>1. pc[o] = "reading"
      BY <2>2
    <3>2. overlap'[o] = overlap[o] \cup B
      BY <1>2, <2>2, <3>1
    <3>3. /\ o \in present
          /\ \A q \in present \ (explicit \cup outlived) :
                q = o \/ q \in overlap[o] \/ key[q] < key[o]
      BY <3>1 DEF IInv, IsGreatest
    <3> QED BY <1>2, <1>4, <2>2, <3>2, <3>3 DEF IInv, TypeOK
  <2> QED BY <2>1, <2>2
<1>13. WrongKeyOnlyByOverlap'
  <2> SUFFICES ASSUME prepared, NEW o \in Objects \ (explicit \cup gone),
                      pc'[o] = "saved", pk[o] # key'[o]
               PROVE  \E p \in overlap'[o] \cup explicit \cup outlived : pk[o] = key'[p]
    BY <1>2 DEF WrongKeyOnlyByOverlap, WrongKeyHasReason
  <2>1. o \notin B /\ pc[o] = "saved" /\ key'[o] = key[o] /\ overlap'[o] = overlap[o]
    BY <1>2, <1>4
  <2>2. PICK p \in overlap[o] \cup explicit \cup outlived : pk[o] = key[p]
    BY <2>1 DEF IInv, WrongKeyOnlyByOverlap, WrongKeyHasReason
  <2>3. p \in Objects /\ p \notin B
    BY <1>6, <2>2 DEF IInv, TypeOK, NewIsUnknown, RetiredOutlived
  <2> QED BY <1>4, <2>1, <2>2, <2>3
<1> QED BY <1>7, <1>8, <1>9, <1>10, <1>11, <1>12, <1>13 DEF IInv
-----------------------------------------------------------------------------
LEMMA InitInv == Init => IInv
  BY ConstantsOK DEF Init, IInv, TypeOK, NewIsUnknown, KeysAreGiven, KeysDiffer,
     Numbered, RetiredOutlived, IsGreatest, WrongKeyOnlyByOverlap, WrongKeyHasReason

(* The actions that insert rows numbered by the sequence. *)
LEMMA SaveKeeps ==
    ASSUME IInv, UNCHANGED prepared, NEW o \in Objects, Save(o) PROVE IInv'
<1>1. PICK B \in AsSql({o}, TRUE) : InsertRows(B) /\ open' \in {open, open \cup B}
  BY DEF Save
<1>2. B = {o}
  BY DEF AsSql, CanBulk
<1>3. /\ pc' \in [Objects -> {"new", "reading", "saved", "bulk", "raised", "deleted"}]
      /\ \A q \in Objects \ B : pc'[q] = pc[q]
      /\ pc[o] = "new" /\ pc'[o] = "reading"
  BY <1>2 DEF Save, Goto, IInv, TypeOK
<1> QED BY <1>1, <1>2, <1>3, InsertKeeps

LEMMA BulkCreateKeeps ==
    ASSUME IInv, UNCHANGED prepared, NEW objs \in SUBSET Objects, BulkCreate(objs)
    PROVE  IInv'
<1>1. PICK B \in AsSql(objs, FALSE) :
         /\ InsertRows(B) /\ open' = open \cup B
         /\ pc' = [q \in Objects |-> IF q \in B THEN "bulk" ELSE pc[q]]
  BY DEF BulkCreate
<1>2. B = objs
  BY DEF AsSql, CanBulk
<1>3. /\ pc' \in [Objects -> {"new", "reading", "saved", "bulk", "raised", "deleted"}]
      /\ \A q \in Objects \ B : pc'[q] = pc[q]
      /\ \A q \in B : pc[q] = "new" /\ pc'[q] = "bulk"
  BY <1>1, <1>2 DEF BulkCreate, IInv, TypeOK
<1> QED BY <1>1, <1>2, <1>3, InsertKeeps

LEMMA InsertRaisesKeeps ==
    ASSUME IInv, UNCHANGED prepared, NEW o \in Objects, InsertRaises(o) PROVE IInv'
<1>1. /\ pc' \in [Objects -> {"new", "reading", "saved", "bulk", "raised", "deleted"}]
      /\ \A q \in Objects \ {o} : pc'[q] = pc[q]
      /\ pc[o] = "new" /\ pc'[o] = "raised"
  BY DEF InsertRaises, Goto, IInv, TypeOK
<1>2. CASE InsertRows({o}) /\ UNCHANGED open
  BY <1>1, <1>2, InsertKeeps
<1>3. CASE UNCHANGED <<given, pk, key, present, open, past>>
  <2>1. TypeOK'
    BY <1>1, <1>3 DEF IInv, TypeOK, past
  <2>2. NewIsUnknown' /\ KeysAreGiven' /\ KeysDiffer' /\ RetiredOutlived'
    BY <1>1, <1>3 DEF IInv, NewIsUnknown, KeysAreGiven, KeysDiffer, Numbered,
       RetiredOutlived, past
  <2>3. IsGreatest'
    BY <1>1, <1>3 DEF IInv, IsGreatest, past
  <2>4. WrongKeyOnlyByOverlap'
    BY <1>1, <1>3 DEF IInv, WrongKeyOnlyByOverlap, WrongKeyHasReason, past
  <2> QED BY <2>1, <2>2, <2>3, <2>4 DEF IInv
<1> QED BY <1>2, <1>3 DEF InsertRaises

(* A key of the caller's choice makes the object an exception to all that  *)
(* is said about keys; others are overtaken by it.                         *)
LEMMA SaveExplicitKeeps ==
    ASSUME IInv, UNCHANGED prepared, NEW o \in Objects, NEW k \in Keys,
           SaveExplicit(o, k)
    PROVE  IInv'
<1> USE DEF IInv
<1>1. /\ pc[o] = "new" /\ pc' = [pc EXCEPT ![o] = "reading"]
      /\ key' = [key EXCEPT ![o] = k] /\ pk' = [pk EXCEPT ![o] = k]
      /\ present' = present \cup {o} /\ explicit' = explicit \cup {o}
      /\ overlap' = [q \in Objects |-> IF pc[q] = "reading" THEN overlap[q] \cup ({o} \ {q})
                                       ELSE overlap[q]]
      /\ open' \in {open, open \cup {o}}
      /\ given' = given /\ gone' = gone /\ retired' = retired /\ outlived' = outlived
  BY DEF SaveExplicit, Goto, Overlapped
<1>2. TypeOK'
  BY <1>1, ConstantsOK DEF TypeOK
<1>3. NewIsUnknown'
  BY <1>1 DEF NewIsUnknown, TypeOK
<1>4. KeysAreGiven' /\ KeysDiffer'
  BY <1>1 DEF KeysAreGiven, KeysDiffer, Numbered, TypeOK
<1>5. RetiredOutlived'
  BY <1>1 DEF RetiredOutlived, NewIsUnknown
<1>6. IsGreatest'
  <2> SUFFICES ASSUME prepared, NEW q \in Objects \ (explicit' \cup gone),
                      pc'[q] = "reading"
               PROVE  /\ q \in present'
                      /\ \A r \in present' \ (explicit' \cup outlived) :
                            r = q \/ r \in overlap'[q] \/ key'[r] < key'[q]
    BY <1>1 DEF IsGreatest
  <2>1. q # o /\ pc[q] = "reading" /\ q \notin explicit
    BY <1>1 DEF TypeOK
  <2>2. /\ q \in present
        /\ \A r \in present \ (explicit \cup outlived) :
              r = q \/ r \in overlap[q] \/ key[r] < key[q]
    BY <2>1 DEF IsGreatest
  <2> QED BY <1>1, <2>1, <2>2 DEF TypeOK
<1>7. WrongKeyOnlyByOverlap'
  <2> SUFFICES ASSUME prepared, NEW q \in Objects \ (explicit' \cup gone),
                      pc'[q] = "saved", pk'[q] # key'[q]
               PROVE  \E p \in overlap'[q] \cup explicit' \cup outlived : pk'[q] = key'[p]
    BY <1>1 DEF WrongKeyOnlyByOverlap, WrongKeyHasReason
  <2>1. q # o /\ pc[q] = "saved" /\ pk'[q] = pk[q] /\ key'[q] = key[q]
        /\ overlap'[q] = overlap[q]
    BY <1>1 DEF TypeOK
  <2>2. PICK p \in overlap[q] \cup explicit \cup outlived : pk[q] = key[p]
    BY <1>1, <2>1 DEF WrongKeyOnlyByOverlap, WrongKeyHasReason
  <2>3. p \in Objects /\ p # o
    BY <1>1, <2>2 DEF TypeOK, NewIsUnknown, RetiredOutlived
  <2> QED BY <1>1, <2>1, <2>2, <2>3 DEF TypeOK
<1> QED BY <1>2, <1>3, <1>4, <1>5, <1>6, <1>7
-----------------------------------------------------------------------------
(* MAX(pk) is the key of a row that can be seen, and no smaller than one's *)
(* own: if it is not one's own, the row is one of those IsGreatest excepts. *)
LEMMA ReadKeyKeeps ==
    ASSUME IInv, UNCHANGED prepared, NEW o \in Objects, ReadKey(o) PROVE IInv'
<1> USE DEF IInv
<1> DEFINE S == {key[p] : p \in Visible(o)}
<1>1. PICK k \in LastInsertId(S) : pk' = [pk EXCEPT ![o] = k]
  BY DEF ReadKey
<1>2. /\ pc[o] = "reading" /\ pc' = [pc EXCEPT ![o] = "saved"]
      /\ given' = given /\ key' = key /\ present' = present /\ open' = open
      /\ explicit' = explicit /\ overlap' = overlap /\ gone' = gone
      /\ retired' = retired /\ outlived' = outlived
  BY DEF ReadKey, Goto, past
<1>3. Visible(o) \subseteq present /\ (o \in present => o \in Visible(o))
  BY DEF Visible
<1>4. \A p \in present : p \in Objects /\ key[p] \in Keys /\ key[p] \in Nat
  BY ConstantsOK DEF TypeOK
<1>5. S \subseteq Keys /\ k \in Keys \cup {None}
  BY <1>3, <1>4 DEF LastInsertId
<1>6. TypeOK'
  BY <1>1, <1>2, <1>5 DEF TypeOK
<1>7. NewIsUnknown' /\ KeysAreGiven' /\ KeysDiffer' /\ RetiredOutlived'
  BY <1>2 DEF NewIsUnknown, KeysAreGiven, KeysDiffer, Numbered, RetiredOutlived, TypeOK
<1>8. IsGreatest'
  BY <1>2 DEF IsGreatest, TypeOK
<1>9. WrongKeyOnlyByOverlap'
  <2> SUFFICES ASSUME prepared, NEW q \in Objects \ (explicit \cup gone),
                      pc'[q] = "saved", pk'[q] # key[q]
               PROVE  \E p \in overlap[q] \cup explicit \cup outlived : pk'[q] = key[p]
    BY <1>2 DEF WrongKeyOnlyByOverlap, WrongKeyHasReason
  <2>1. CASE q # o
    BY <1>1, <1>2, <2>1 DEF WrongKeyOnlyByOverlap, WrongKeyHasReason, TypeOK
  <2>2. CASE q = o
    <3>1. pk'[o] = k
      BY <1>1 DEF TypeOK
    <3>2. /\ o \in present
          /\ \A p \in present \ (explicit \cup outlived) :
                p = o \/ p \in overlap[o] \/ key[p] < key[o]
      BY <1>2, <2>2 DEF IsGreatest
    <3>3. key[o] \in S
      BY <1>3, <3>2
    <3>4. k \in S /\ \A j \in S : j <= k
      BY <3>3 DEF LastInsertId
    <3>5. PICK p \in Visible(o) : k = key[p]
      BY <3>4
    <3>6. p \in present /\ key[p] \in Nat /\ key[o] \in Nat /\ key[o] <= key[p]
      BY <1>3, <1>4, <3>2, <3>3, <3>4, <3>5
    <3> QED BY <2>2, <3>1, <3>2, <3>5, <3>6
  <2> QED BY <2>1, <2>2
<1> QED BY <1>6, <1>7, <1>8, <1>9

(* The actions that only take rows away, or settle what becomes of them.   *)
LEMMA RemovalKeeps ==
    ASSUME IInv, UNCHANGED prepared, TypeOK',
           key' = key, pk' = pk, given' = given, explicit' = explicit,
           retired' = retired, outlived' = outlived,
           present' \subseteq present,
           gone \subseteq gone', gone' \subseteq Objects,
           \A o \in Objects : overlap'[o] \subseteq overlap[o],
           \A o \in Objects :
              \/ pc'[o] = pc[o] /\ overlap'[o] = overlap[o]
              \/ pc'[o] \in {"raised", "deleted"},
           \A o \in Objects :
              pc'[o] = "reading" /\ o \in present \ present' => o \in gone'
    PROVE  IInv'
<1> USE DEF IInv
<1>1. NewIsUnknown'
  BY DEF NewIsUnknown
<1>2. KeysAreGiven' /\ KeysDiffer' /\ RetiredOutlived'
  BY DEF KeysAreGiven, KeysDiffer, Numbered, RetiredOutlived
<1>3. IsGreatest'
  BY DEF IsGreatest
<1>4. WrongKeyOnlyByOverlap'
  BY DEF WrongKeyOnlyByOverlap, WrongKeyHasReason
<1> QED BY <1>1, <1>2, <1>3, <1>4

LEMMA UndoneType ==
    ASSUME TypeOK, NEW o \in Objects, Undone(o)
    PROVE  /\ open' \subseteq present' /\ present' \subseteq present
           /\ \A p \in present \ present' : p = o
  BY DEF Undone, TypeOK

LEMMA ReadRaisesKeeps ==
    ASSUME IInv, UNCHANGED prepared, NEW o \in Objects, ReadRaises(o) PROVE IInv'
<1>1. /\ pc' = [pc EXCEPT ![o] = "raised"]
      /\ overlap' = [overlap EXCEPT ![o] = {}]
      /\ key' = key /\ pk' = pk /\ given' = given /\ explicit' = explicit
      /\ gone' = gone /\ retired' = retired /\ outlived' = outlived
  BY DEF ReadRaises, Goto, Settled
<1>2. /\ open' \subseteq present' /\ present' \subseteq present
      /\ \A p \in present \ present' : p = o
  BY UndoneType DEF ReadRaises, IInv
<1>3. TypeOK'
  BY <1>1, <1>2 DEF IInv, TypeOK
<1> QED BY <1>1, <1>2, <1>3, RemovalKeeps DEF IInv, TypeOK

LEMMA RollbackKeeps ==
    ASSUME IInv, UNCHANGED prepared, NEW o \in Objects, Rollback(o) PROVE IInv'
<1>1. /\ pc[o] # "reading" /\ pc' = [pc EXCEPT ![o] = "raised"]
      /\ key' = key /\ pk' = pk /\ given' = given /\ explicit' = explicit
      /\ overlap' = [overlap EXCEPT ![o] = {}] /\ gone' = gone 
      /\ retired' = retired /\ outlived' = outlived
  BY DEF Rollback, Goto, Settled
<1>2. /\ open' \subseteq present' /\ present' \subseteq present
      /\ \A p \in present \ present' : p = o
  BY UndoneType DEF Rollback, IInv
<1>3. TypeOK'
  BY <1>1, <1>2 DEF IInv, TypeOK
<1> QED BY <1>1, <1>2, <1>3, RemovalKeeps DEF IInv, TypeOK

LEMMA CommitKeeps ==
    ASSUME IInv, UNCHANGED prepared, NEW o \in Objects, Commit(o) PROVE IInv'
<1>1. /\ pc' = pc /\ key' = key /\ pk' = pk /\ given' = given /\ present' = present
      /\ explicit' = explicit /\ overlap' = overlap /\ gone' = gone
      /\ retired' = retired /\ outlived' = outlived /\ open' = open \ {o}
  BY DEF Commit, past
<1>2. TypeOK'
  BY <1>1 DEF IInv, TypeOK
<1> QED BY <1>1, <1>2, RemovalKeeps DEF IInv, TypeOK

LEMMA DeleteKeeps ==
    ASSUME IInv, UNCHANGED prepared, NEW o \in Objects, Delete(o) PROVE IInv'
<1> DEFINE D == {p \in Visible(o) : key[p] = pk[o]}
<1>1. /\ pc[o] = "saved" /\ pc' = [pc EXCEPT ![o] = "deleted"]
      /\ present' = present \ D
      /\ gone' = gone \cup {p \in D : pc[p] = "reading"}
      /\ overlap' = [overlap EXCEPT ![o] = {}]
      /\ key' = key /\ pk' = pk /\ given' = given /\ explicit' = explicit
      /\ retired' = retired /\ outlived' = outlived /\ open' = open
  BY DEF Delete, Remove, Settled, Goto
<1>2. D \subseteq Objects /\ \A p \in D : p \notin open
  BY DEF Visible, Delete, IInv, TypeOK
<1> HIDE DEF D
<1>3. TypeOK'
  BY <1>1, <1>2 DEF IInv, TypeOK
<1> QED BY <1>1, <1>2, <1>3, RemovalKeeps DEF IInv, TypeOK

(* A flush leaves only rows of open transactions.  If it truncates, the    *)
(* sequence begins again and the objects that exist are retired; DELETE    *)
(* leaves the sequence alone.                                              *)
LEMMA FlushKeeps ==
    ASSUME IInv, UNCHANGED prepared, NEW reset \in BOOLEAN, Flush(reset) PROVE IInv'
<1>1. /\ present' = present \cap open
      /\ gone' = gone \cup {p \in present \ open : pc[p] = "reading"}
      /\ pc' = pc /\ key' = key /\ pk' = pk /\ open' = open
      /\ explicit' = explicit /\ overlap' = overlap
  BY DEF Flush, Remove, IInv, TypeOK
<1>2. CASE reset
  <2>1. /\ given' = {} /\ retired' = {o \in Objects : key[o] # None}
        /\ outlived' = outlived \cup open
    BY <1>2 DEF Flush, SqlFlush
  <2>2. outlived' \subseteq retired'
    BY <2>1 DEF IInv, TypeOK, RetiredOutlived, NewIsUnknown
  <2>3. TypeOK'
    BY <1>1, <2>1, <2>2 DEF IInv, TypeOK
  <2>4. NewIsUnknown' /\ KeysAreGiven' /\ KeysDiffer'
    BY <1>1, <2>1 DEF IInv, NewIsUnknown, KeysAreGiven, KeysDiffer, Numbered
  <2>5. RetiredOutlived'
    BY <1>1, <2>1, <2>2 DEF RetiredOutlived
  <2>6. IsGreatest'
    BY <1>1, <2>1 DEF IInv, TypeOK, IsGreatest
  <2>7. WrongKeyOnlyByOverlap'
    BY <1>1, <2>1 DEF IInv, WrongKeyOnlyByOverlap, WrongKeyHasReason
  <2> QED BY <2>3, <2>4, <2>5, <2>6, <2>7 DEF IInv
<1>3. CASE ~reset
  <2>1. given' = given /\ retired' = retired /\ outlived' = outlived
    BY <1>3 DEF Flush, SqlFlush
  <2>2. TypeOK'
    BY <1>1, <2>1 DEF IInv, TypeOK
  <2>3. /\ gone \subseteq gone' /\ gone' \subseteq Objects /\ present' \subseteq present
        /\ \A o \in Objects :
              pc'[o] = "reading" /\ o \in present \ present' => o \in gone'
    BY <1>1 DEF IInv, TypeOK
  <2> QED BY <1>1, <2>1, <2>2, <2>3, RemovalKeeps
<1> QED BY <1>2, <1>3
-----------------------------------------------------------------------------
LEMMA StepInv == ASSUME IInv, Step, UNCHANGED prepared PROVE IInv'
<1>1. CASE \E o \in Objects : \/ Save(o) \/ InsertRaises(o) \/ ReadKey(o) \/ ReadRaises(o)
                              \/ Commit(o) \/ Rollback(o) \/ Delete(o)
                              \/ \E k \in Keys : SaveExplicit(o, k)
  BY <1>1, SaveKeeps, InsertRaisesKeeps, ReadKeyKeeps, ReadRaisesKeeps, CommitKeeps,
     RollbackKeeps, DeleteKeeps, SaveExplicitKeeps
<1>2. CASE \E objs \in SUBSET Objects : BulkCreate(objs)
  BY <1>2, BulkCreateKeeps
<1>3. CASE \E reset \in BOOLEAN : Flush(reset)
  BY <1>3, FlushKeeps
<1> QED BY <1>1, <1>2, <1>3 DEF Step

LEMMA NextInv == IInv /\ [Next]_vars => IInv'
<1> SUFFICES ASSUME IInv, [Next]_vars PROVE IInv'
  OBVIOUS
<1>1. CASE Next
  BY <1>1, StepInv DEF Next
<1>2. CASE UNCHANGED vars
  <2>1. TypeOK' /\ \A o \in Objects : pc'[o] = pc[o] /\ overlap'[o] = overlap[o]
    BY <1>2 DEF IInv, TypeOK, vars, past
  <2> QED BY <1>2, <2>1, RemovalKeeps DEF IInv, TypeOK, vars, past
<1> QED BY <1>1, <1>2

LEMMA Invariant == Spec => []IInv
  BY InitInv, NextInv, PTL DEF Spec

(* Types, and: an object that was saved or is about to read its key had    *)
(* its row inserted.                                                       *)
THEOREM KeysAreTyped == Spec => []TypeOK
<1>1. IInv => TypeOK
  BY DEF IInv
<1> QED BY <1>1, Invariant, PTL

(* Any number of threads, any keys: only the race that last_insert_id      *)
(* concedes (operations.py:137), keys that callers choose, or transactions *)
(* that outlive a reset of the sequence can give an object the key of      *)
(* another row.                                                            *)
THEOREM OnlyTheRaceIsWrong == Spec => []WrongKeyOnlyByOverlap
<1>1. IInv => WrongKeyOnlyByOverlap
  BY DEF IInv
<1> QED BY <1>1, Invariant, PTL

(* An object whose INSERT and SELECT MAX nobody came between names no row  *)
(* but its own, as long as its sequence is not reset (operations.py:184)   *)
(* and the key it read is one of the sequence.                             *)
THEOREM UndisturbedObjectsNameTheirRow == Spec => []ObjectsNameTheirRow
<1>1. IInv => ObjectsNameTheirRow
  <2> SUFFICES ASSUME IInv, prepared,
                      NEW o \in Objects \ (gone \cup retired \cup explicit),
                      pc[o] = "saved", overlap[o] = {},
                      \A q \in explicit \cup outlived : key[q] # pk[o],
                      NEW p \in present, key[p] = pk[o]
               PROVE  p = o
    BY DEF ObjectsNameTheirRow
  <2>1. pk[o] = key[o]
    BY DEF IInv, WrongKeyOnlyByOverlap, WrongKeyHasReason
  <2>2. p \in Numbered /\ o \in Numbered /\ key[p] # None
    BY DEF IInv, TypeOK, RetiredOutlived, Numbered
  <2> QED BY <2>1, <2>2 DEF IInv, KeysDiffer
<1> QED BY <1>1, Invariant, PTL
-----------------------------------------------------------------------------
(* JSON lookups                                                             *)

CONSTANTS Names, Indexes, Percents, Paths

VARIABLE sql

Json == INSTANCE JsonPaths

PathKeys == Names \cup Indexes

(* Pieces of a path. *)
Pieces == [sep : {":", ".", "["}, key : PathKeys, signs : Nat]

Begins(path) == Len(path) > 0 /\ path[1].sep \in {":", "["}

(* What the lookups compile are paths. *)
LEMMA PieceType ==
    ASSUME NEW s \in {":", ".", "["}, NEW k \in PathKeys, NEW n \in Nat
    PROVE  Json!Piece(s, k, n) \in Pieces /\ Json!Piece(s, k, n).sep = s
  BY DEF Json!Piece, Pieces, Json!Signs

(* compile_json_path keeps the number of keys, and begins with a colon or  *)
(* an index unless there is nothing to compile.                            *)
LEMMA CompiledBegins ==
    ASSUME NEW ts \in Seq(PathKeys)
    PROVE  /\ Json!CompileJsonPath(ts) \in Seq(Pieces)
           /\ Len(Json!CompileJsonPath(ts)) = Len(ts)
           /\ Len(ts) > 0 => Begins(Json!CompileJsonPath(ts))
<1> DEFINE P(i) == IF ts[i] \in Indexes THEN Json!Piece("[", ts[i], 0)
                   ELSE Json!Piece(IF i = 1 THEN ":" ELSE ".", ts[i], 2)
<1>1. Len(ts) \in Nat /\ \A i \in 1..Len(ts) : ts[i] \in PathKeys
  OBVIOUS
<1>2. \A i \in 1..Len(ts) : P(i) \in Pieces
  <2> TAKE i \in 1..Len(ts)
  <2> QED BY <1>1, PieceType
<1>3. Json!CompileJsonPath(ts) = [i \in 1..Len(ts) |-> P(i)]
  BY DEF Json!CompileJsonPath
<1> HIDE DEF P
<1>4. /\ Json!CompileJsonPath(ts) \in Seq(Pieces)
      /\ Len(Json!CompileJsonPath(ts)) = Len(ts)
  BY <1>1, <1>2, <1>3
<1>5. ASSUME Len(ts) > 0 PROVE Begins(Json!CompileJsonPath(ts))
  <2>1. 1 \in 1..Len(ts) /\ ts[1] \in PathKeys
    BY <1>1, <1>5
  <2>2. Json!CompileJsonPath(ts)[1] = P(1)
    BY <1>3, <2>1
  <2>3. P(1).sep \in {":", "["}
    BY <2>1, PieceType DEF P
  <2> QED BY <1>4, <1>5, <2>2, <2>3 DEF Begins
<1> QED BY <1>4, <1>5

(* The path of has_key for one key or several, by itself, is a path that   *)
(* begins so too: a single key gets the colon.                             *)
LEMMA KeyPathBegins ==
    ASSUME NEW ts \in Seq(PathKeys), ts # <<>>
    PROVE  Json!KeyPath(ts) \in Seq(Pieces) /\ Begins(Json!KeyPath(ts))
<1> DEFINE n == Len(ts)
           front == Json!CompileJsonPath(SubSeq(ts, 1, n - 1))
           final == Json!FinalKey(ts[n])
           last == IF n = 1 THEN [final EXCEPT !.sep = ":"] ELSE final
<1>1. n \in Nat /\ n > 0 /\ \A i \in 1..n : ts[i] \in PathKeys
  OBVIOUS
<1> HIDE DEF n
<1>2. SubSeq(ts, 1, n - 1) \in Seq(PathKeys) /\ Len(SubSeq(ts, 1, n - 1)) = n - 1
  <2>1. 1 \in Int /\ n - 1 \in Int /\ \A i \in 1..n - 1 : ts[i] \in PathKeys
    BY <1>1
  <2>2. /\ SubSeq(ts, 1, n - 1) \in Seq(PathKeys)
        /\ Len(SubSeq(ts, 1, n - 1)) = IF 1 <= n - 1 THEN n - 1 - 1 + 1 ELSE 0
    BY <2>1, SubSeqProperties
  <2> QED BY <1>1, <2>2
<1>3. /\ front \in Seq(Pieces) /\ Len(front) = n - 1
      /\ n > 1 => Begins(front)
  <2> DEFINE sub == SubSeq(ts, 1, n - 1)
  <2>1. sub \in Seq(PathKeys) /\ Len(sub) = n - 1
    BY <1>2
  <2> HIDE DEF sub
  <2>2. /\ Json!CompileJsonPath(sub) \in Seq(Pieces)
        /\ Len(Json!CompileJsonPath(sub)) = n - 1
        /\ n - 1 > 0 => Begins(Json!CompileJsonPath(sub))
    BY <2>1, CompiledBegins
  <2> QED BY <1>1, <2>2 DEF sub
<1>4. final \in Pieces
  BY <1>1, PieceType DEF Json!FinalKey
<1>5. last \in Pieces /\ (n = 1 => last.sep = ":")
  BY <1>4 DEF Pieces
<1>6. Json!KeyPath(ts) = Append(front, last)
  BY DEF Json!KeyPath, n
<1> HIDE DEF front, final, last
<1>7. Json!KeyPath(ts) \in Seq(Pieces) /\ Len(Json!KeyPath(ts)) = n
  BY <1>1, <1>3, <1>5, <1>6
<1>8. CASE n = 1
  <2>1. Json!KeyPath(ts)[1] = last
    BY <1>3, <1>5, <1>6, <1>8
  <2> QED BY <1>5, <1>7, <1>8, <2>1 DEF Begins
<1>9. CASE n > 1
  <2>1. Append(front, last)[1] = front[1]
    BY <1>1, <1>3, <1>9
  <2>2. Json!KeyPath(ts)[1] = front[1]
    BY <1>6, <2>1
  <2> QED BY <1>3, <1>7, <1>9, <2>2 DEF Begins
<1> QED BY <1>1, <1>7, <1>8, <1>9

(* Interpolation leaves the separators as they are. *)
LEMMA InterpolatedBegins ==
    ASSUME NEW path \in Seq(Pieces)
    PROVE  /\ Json!Interpolated(path) \in Seq(Pieces)
           /\ Begins(path) => Begins(Json!Interpolated(path))
           /\ Len(Json!Interpolated(path)) = Len(path)
<1>1. Len(path) \in Nat /\ DOMAIN path = 1..Len(path)
  OBVIOUS
<1>2. \A i \in DOMAIN path :
          /\ [path[i] EXCEPT !.signs = @ \div 2] \in Pieces
          /\ [path[i] EXCEPT !.signs = @ \div 2].sep = path[i].sep
  <2> TAKE i \in DOMAIN path
  <2>1. path[i] \in Pieces
    OBVIOUS
  <2>2. path[i].signs \in Nat /\ path[i].signs \div 2 \in Nat
    BY <2>1 DEF Pieces
  <2> QED BY <2>1, <2>2 DEF Pieces
<1>3. Json!Interpolated(path) = [i \in 1..Len(path) |-> [path[i] EXCEPT !.signs = @ \div 2]]
  BY <1>1 DEF Json!Interpolated
<1>4. Json!Interpolated(path) \in Seq(Pieces) /\ Len(Json!Interpolated(path)) = Len(path)
  BY <1>1, <1>2, <1>3
<1>5. Begins(path) => Begins(Json!Interpolated(path))
  BY <1>1, <1>2, <1>3, <1>4 DEF Begins
<1> QED BY <1>4, <1>5

(* The right-hand side goes on where the left-hand side ends, if there is one. *)
LEMMA JoinedBegins ==
    ASSUME NEW p \in Seq(Pieces), NEW q \in Seq(Pieces),
           p = <<>> \/ Begins(p), Begins(q)
    PROVE  p \o q # <<>> /\ (p \o q)[1].sep \in {":", "["}
<1>1. CASE p = <<>>
  BY <1>1 DEF Begins
<1>2. CASE Begins(p)
  <2>1. Len(p \o q) > 0 /\ (p \o q)[1] = p[1]
    BY <1>2 DEF Begins
  <2> QED BY <1>2, <2>1 DEF Begins
<1> QED BY <1>1, <1>2

(* Whatever the keys are and however many: no lookup makes a path that     *)
(* begins with a period, on neither side of a has_key (lookups.py:13 "The  *)
(* first separator must be a colon, otherwise a period").                  *)
THEOREM LookupsBeginAtTheColumn ==
    ASSUME Paths \subseteq Seq(PathKeys) \ {<<>>}
    PROVE  Json!Spec => []Json!PathsBeginAtTheColumn
<1>1. Json!Init => Json!PathsBeginAtTheColumn
  BY DEF Json!Init, Json!PathsBeginAtTheColumn
<1>2. Json!PathsBeginAtTheColumn /\ [Json!Next]_sql => Json!PathsBeginAtTheColumn'
  <2> SUFFICES ASSUME Json!PathsBeginAtTheColumn, [Json!Next]_sql
               PROVE  Json!PathsBeginAtTheColumn'
    OBVIOUS
  <2>1. CASE Json!KeyTransform
    <3>1. PICK ts \in Paths : sql' = {Json!CompileJsonPath(ts)}
      BY <2>1 DEF Json!KeyTransform
    <3>2. ts \in Seq(PathKeys) /\ Len(ts) > 0
      OBVIOUS
    <3>3. Json!CompileJsonPath(ts) # <<>> /\ Begins(Json!CompileJsonPath(ts))
      BY <3>2, CompiledBegins
    <3> QED BY <3>1, <3>3 DEF Json!PathsBeginAtTheColumn, Begins
  <2>2. CASE Json!HasKeyLookup
    <3>1. PICK left \in Paths \cup {<<>>} :
             \/ \E right \in Paths : sql' = {Json!CompileJsonPath(left) \o Json!KeyPath(right)}
             \/ \E several \in SUBSET Paths \ {{}} :
                   sql' = {Json!Interpolated(Json!CompileJsonPath(left)) \o Json!KeyPath(right) :
                              right \in several}
      BY <2>2 DEF Json!HasKeyLookup
    <3> DEFINE lhs == Json!CompileJsonPath(left)
               put == Json!Interpolated(lhs)
    <3>2. left \in Seq(PathKeys)
      <4>1. <<>> \in Seq(PathKeys)
        OBVIOUS
      <4> HIDE DEF PathKeys
      <4> QED BY <4>1
    <3>3. lhs \in Seq(Pieces) /\ (lhs = <<>> \/ Begins(lhs))
      BY <3>2, CompiledBegins
    <3>4. put \in Seq(Pieces) /\ (put = <<>> \/ Begins(put))
      BY <3>3, InterpolatedBegins
    <3>5. ASSUME NEW right \in Paths
          PROVE  Json!KeyPath(right) \in Seq(Pieces) /\ Begins(Json!KeyPath(right))
      BY KeyPathBegins
    <3>6. \A path \in sql' : \E right \in Paths :
             path = lhs \o Json!KeyPath(right) \/ path = put \o Json!KeyPath(right)
      BY <3>1
    <3> HIDE DEF lhs, put
    <3>7. ASSUME NEW right \in Paths, NEW p \in {lhs, put}
          PROVE  p \o Json!KeyPath(right) # <<>> /\ (p \o Json!KeyPath(right))[1].sep \in {":", "["}
      BY <3>3, <3>4, <3>5, JoinedBegins
    <3> QED BY <3>6, <3>7 DEF Json!PathsBeginAtTheColumn
  <2>3. CASE UNCHANGED sql
    BY <2>3 DEF Json!PathsBeginAtTheColumn
  <2> QED BY <2>1, <2>2, <2>3 DEF Json!Next
<1> QED BY <1>1, <1>2, PTL DEF Json!Spec
===============================================================================
