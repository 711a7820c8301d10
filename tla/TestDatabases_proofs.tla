------------------------- MODULE TestDatabases_proofs -------------------------
(***************************************************************************)
(* Proofs about TestDatabases, for any number of workers, versions of the  *)
(* code and failing statements.                                            *)
(***************************************************************************)
EXTENDS TestDatabases, TLAPS

All == ToSet(Names)
Clones == 2..Len(Names)

Steps == {"idle", "exists", "create", "schema", "drop", "migrate", "testing", "destroy"}

(* A run makes or tests its databases. *)
Running == step \notin {"idle", "destroy"}

(* A schema is in a database that is there. *)
Database ==
    {d \in [there : BOOLEAN, schema : BOOLEAN, version : Nat, half : BOOLEAN] :
        d.schema => d.there}

TypeInv ==
    /\ dbs \in [All -> Database]
    /\ code \in Nat /\ keepdb \in BOOLEAN /\ step \in Steps
    /\ at \in 1..Len(Names)
    /\ current \in All \cup {None}
    /\ found \subseteq All

(* The session is in the database in which the schema is made; a database  *)
(* that was to be kept is created only if it is not there, and dropped     *)
(* only if something failed.                                               *)
TargetInv ==
    /\ step = "schema" => current = Target /\ dbs[Target].there
    /\ keepdb /\ step = "create" => ~dbs[Target].there
    /\ keepdb /\ step = "drop" /\ Target \in found => Target \in troubled
    /\ step = "exists" => keepdb
    /\ step = "destroy" => ~keepdb
    /\ ~keepdb /\ step = "schema" => Target \notin found
    /\ step = "migrate" => at = 1

(* Clones are made of a test database that is not half migrated. *)
HalfInv == \A i \in Clones : ~dbs[Names[i]].half

(* The test database is ready before the first clone is made; what the run *)
(* found is there; every clone the run made has the newest migrations; and *)
(* the clones are ready one after the other.                               *)
CloneInv == Running =>
    /\ at > 1 \/ step = "testing" =>
          /\ dbs[Main].there /\ dbs[Main].schema
          /\ dbs[Main].version = code /\ ~dbs[Main].half
    /\ \A n \in found : dbs[n].there
    /\ \A i \in Clones : dbs[Names[i]].there =>
          Names[i] \in found \/ dbs[Names[i]].version = code
    /\ \A i \in Clones : (i < at \/ step = "testing") =>
          /\ dbs[Names[i]].there /\ dbs[Names[i]].schema
          /\ ~keepdb => Names[i] \notin found

RunInv == TypeInv /\ TargetInv /\ CloneInv

IInv == RunInv /\ HalfInv
-----------------------------------------------------------------------------
LEMMA NamesFacts ==
    /\ Len(Names) \in Nat \ {0}
    /\ \A i \in 1..Len(Names) : Names[i] \in All
    /\ \A n \in All : \E i \in 1..Len(Names) : n = Names[i]
    /\ \A i, j \in 1..Len(Names) : Names[i] = Names[j] => i = j
    /\ None \notin All
<1>1. Names \in Seq(All) /\ Names # <<>> BY ConstantsOK DEF All
<1>2. DOMAIN Names = 1..Len(Names) /\ Len(Names) \in Nat /\ Len(Names) # 0
  BY <1>1
<1> QED BY <1>1, <1>2, ConstantsOK DEF All, ToSet, IsInjective

LEMMA InitInv == Init => IInv
<1> SUFFICES ASSUME Init PROVE IInv OBVIOUS
<1>1. TypeInv
  <2>1. Absent \in Database BY DEF Absent, Database
  <2>2. dbs \in [All -> Database] BY <2>1 DEF Init, All
  <2>3. at \in 1..Len(Names) BY NamesFacts DEF Init
  <2> QED BY <2>2, <2>3 DEF Init, TypeInv, Steps
<1>2. TargetInv /\ CloneInv BY DEF Init, TargetInv, CloneInv, Running
<1>3. HalfInv BY NamesFacts DEF Init, HalfInv, Clones, Absent, All
<1> QED BY <1>1, <1>2, <1>3 DEF IInv, RunInv

(* A database on which migrations ran is the same but for those. *)
WholeAt(d, v) == [d EXCEPT !.version = v, !.half = FALSE]
HalfAt(d, v) == [d EXCEPT !.version = v, !.half = TRUE]

LEMMA Migrated ==
    ASSUME NEW d \in Database, NEW v \in Nat
    PROVE  /\ WholeAt(d, v) \in Database /\ HalfAt(d, v) \in Database
           /\ WholeAt(d, v).there = d.there /\ HalfAt(d, v).there = d.there
           /\ WholeAt(d, v).schema = d.schema
           /\ WholeAt(d, v).version = v /\ ~WholeAt(d, v).half
BY DEF Database, WholeAt, HalfAt

(* What the statements make of the databases. *)
LEMMA Statements ==
    ASSUME IInv
    PROVE  /\ Absent \in Database /\ Target \in All /\ Main \in All
           /\ [dbs EXCEPT ![Target] = Absent] \in [All -> Database]
           /\ Creatable => Created \in [All -> Database]
           /\ step = "schema" => WithSchema \in [All -> Database]
           /\ \A d \in MigratedPartly :
                 /\ d \in [All -> Database]
                 /\ \A n \in All \ {Main} : d[n] = dbs[n]
                 /\ d[Main].there = dbs[Main].there
<1>1. /\ dbs \in [All -> Database] /\ \A n \in All : dbs[n] \in Database
      /\ Target \in All /\ Main \in All
  BY NamesFacts DEF IInv, RunInv, TypeInv, Target, Main
<1>2. Absent \in Database /\ Empty \in Database
  BY DEF Absent, Empty, Database
<1>3. ASSUME step = "schema" PROVE WithSchema \in [All -> Database]
  <2>1. current = Target /\ dbs[Target].there BY <1>3 DEF IInv, RunInv, TargetInv
  <2>2. [dbs[Target] EXCEPT !.schema = TRUE] \in Database
    BY <1>1, <2>1 DEF Database
  <2> QED BY <1>1, <2>1, <2>2 DEF WithSchema
<1>4. ASSUME NEW d \in MigratedPartly
      PROVE  /\ d \in [All -> Database]
             /\ \A n \in All \ {Main} : d[n] = dbs[n]
             /\ d[Main].there = dbs[Main].there
  <2>1. dbs[Main] \in Database /\ code \in Nat
    BY <1>1 DEF IInv, RunInv, TypeInv
  <2>2. PICK e \in StoppedIn(dbs[Main]) : d = [dbs EXCEPT ![Main] = e]
    BY DEF MigratedPartly
  <2>3. e \in Database /\ e.there = dbs[Main].there
    <3>1. CASE e = dbs[Main]
      BY <2>1, <3>1
    <3>2. CASE e # dbs[Main]
      <4>1. PICK v \in dbs[Main].version + 1 .. code \cup dbs[Main].version .. code - 1 :
               e = WholeAt(dbs[Main], v) \/ e = HalfAt(dbs[Main], v)
        BY <2>2, <3>2, Zenon DEF StoppedIn, WholeAt, HalfAt
      <4>2. dbs[Main].version \in Nat
        BY <2>1 DEF Database
      <4>3. v \in Nat
        BY <2>1, <4>1, <4>2
      <4>4. /\ WholeAt(dbs[Main], v) \in Database /\ HalfAt(dbs[Main], v) \in Database
            /\ WholeAt(dbs[Main], v).there = dbs[Main].there
            /\ HalfAt(dbs[Main], v).there = dbs[Main].there
        BY <2>1, <4>3, Migrated
      <4> QED BY <4>1, <4>4
    <3> QED BY <3>1, <3>2
  <2> QED BY <1>1, <2>2, <2>3
<1> QED BY <1>1, <1>2, <1>3, <1>4 DEF Created

(* Where an exception leads to. *)
LEMMA AfterException ==
    ASSUME IInv, Failed
    PROVE  /\ step' \in {"idle", "drop", "migrate"}
           /\ UNCHANGED <<at, current, retried>>
           /\ step' = "migrate" => at = 1 /\ keepdb
           /\ step' = "drop" => ~(at = 1 /\ keepdb)
BY DEF IInv, RunInv, Failed, Advance, Quit

LEMMA DatabaseExistsKeeps == IInv /\ DatabaseExists => RunInv'
<1> SUFFICES ASSUME IInv, DatabaseExists PROVE RunInv' OBVIOUS
<1> USE NamesFacts DEF DatabaseExists, Entered
<1>1. TypeInv' BY Statements DEF IInv, RunInv, TypeInv, Steps
<1>2. TargetInv' BY DEF IInv, RunInv, TypeInv, TargetInv, Target
<1>3. CloneInv' BY DEF IInv, RunInv, TypeInv, TargetInv, CloneInv, Running, Main
<1> QED BY <1>1, <1>2, <1>3 DEF IInv, RunInv

LEMMA CreateDatabaseKeeps == IInv /\ CreateDatabase => RunInv'
<1> SUFFICES ASSUME IInv, CreateDatabase PROVE RunInv' OBVIOUS
<1> USE NamesFacts DEF CreateDatabase
<1>1. TypeInv' BY Statements DEF IInv, RunInv, TypeInv, Steps
<1> USE DEF Creatable, Created, Empty, Absent
<1>2. TargetInv' BY DEF IInv, RunInv, TypeInv, TargetInv, CloneInv, Running, Target, Main
<1>3. CloneInv'
  BY DEF IInv, RunInv, TypeInv, TargetInv, CloneInv, Running, Target, Main, Clones
<1> QED BY <1>1, <1>2, <1>3 DEF IInv, RunInv

LEMMA CreateSchemaKeeps == IInv /\ CreateSchema => RunInv'
<1> SUFFICES ASSUME IInv, CreateSchema PROVE RunInv' OBVIOUS
<1> USE NamesFacts DEF CreateSchema, Advance, Enter, FirstStep
<1>1. TypeInv' BY Statements DEF IInv, RunInv, TypeInv, Steps
<1>2. TargetInv' BY DEF IInv, RunInv, TypeInv, TargetInv, Target
<1>3. /\ dbs' = [dbs EXCEPT ![Target].schema = TRUE] /\ Target \in All
      /\ dbs \in [All -> Database] /\ dbs[Target].there
      /\ ~keepdb => Target \notin found
  <2>1. step = "schema" /\ dbs' = WithSchema BY DEF CreateSchema
  <2>2. current = Target /\ dbs[Target].there /\ (~keepdb => Target \notin found)
    BY <2>1 DEF IInv, RunInv, TargetInv
  <2> QED BY <2>1, <2>2, Statements DEF IInv, RunInv, TypeInv, WithSchema
<1>4. \A n \in All : /\ dbs'[n].there = dbs[n].there
                     /\ dbs'[n].version = dbs[n].version
                     /\ dbs'[n].half = dbs[n].half
                     /\ dbs[n].schema \/ n = Target => dbs'[n].schema
  <2>1. \A n \in All : n # Target => dbs'[n] = dbs[n] BY <1>3
  <2>2. dbs'[Target] = [dbs[Target] EXCEPT !.schema = TRUE] BY <1>3
  <2>3. dbs[Target] \in Database BY <1>3
  <2> QED BY <2>1, <2>2, <2>3 DEF Database
<1>5. CloneInv'
  <2>1. CASE at = 1
    BY <1>4, <2>1 DEF IInv, RunInv, TypeInv, CloneInv, Running, Main, Clones
  <2>2. CASE at > 1
    <3>1. /\ dbs[Main].there /\ dbs[Main].schema /\ dbs[Main].version = code
          /\ ~dbs[Main].half
          /\ \A n \in found : dbs[n].there
          /\ \A i \in Clones : dbs[Names[i]].there =>
                Names[i] \in found \/ dbs[Names[i]].version = code
          /\ \A i \in Clones : i < at =>
                /\ dbs[Names[i]].there /\ dbs[Names[i]].schema
                /\ ~keepdb => Names[i] \notin found
      BY <2>2 DEF CloneInv, IInv, RunInv, Running
    <3>2. \A i \in Clones : i <= at =>
             /\ dbs'[Names[i]].there /\ dbs'[Names[i]].schema
             /\ ~keepdb => Names[i] \notin found
      <4> SUFFICES ASSUME NEW i \in Clones, i <= at
                   PROVE  /\ dbs'[Names[i]].there /\ dbs'[Names[i]].schema
                          /\ ~keepdb => Names[i] \notin found
        OBVIOUS
      <4>1. at \in Nat /\ i \in Nat /\ Names[i] \in All
        BY DEF IInv, RunInv, TypeInv, Clones
      <4>2. CASE i = at BY <1>3, <1>4, <4>1, <4>2 DEF Target
      <4>3. CASE i < at BY <1>4, <3>1, <4>1, <4>3
      <4> QED BY <4>1, <4>2, <4>3
    <3>3. \A i \in Clones : dbs'[Names[i]].there =>
             Names[i] \in found \/ dbs'[Names[i]].version = code
      BY <1>4, <3>1 DEF Clones
    <3>4. /\ dbs'[Main].there /\ dbs'[Main].schema /\ dbs'[Main].version = code
          /\ ~dbs'[Main].half
          /\ \A n \in found : dbs'[n].there
      BY <1>4, <3>1, Statements DEF IInv, RunInv, TypeInv
    <3> QED
      BY <2>2, <3>2, <3>3, <3>4 DEF CloneInv, Running, Clones, IInv, RunInv, TypeInv, Main
  <2> QED BY <2>1, <2>2 DEF IInv, RunInv, TypeInv
<1> QED BY <1>1, <1>2, <1>5 DEF IInv, RunInv

LEMMA DropKeeps == IInv /\ Drop => RunInv'
<1> SUFFICES ASSUME IInv, Drop PROVE RunInv' OBVIOUS
<1> USE NamesFacts DEF Drop, Quit, FirstStep
<1>1. TypeInv' BY Statements DEF IInv, RunInv, TypeInv, Steps
<1> USE DEF Absent
<1>2. TargetInv' BY DEF IInv, RunInv, TypeInv, TargetInv, CloneInv, Running, Target, Main
<1>3. CloneInv'
  BY DEF IInv, RunInv, TypeInv, TargetInv, CloneInv, Running, Target, Main, Clones
<1> QED BY <1>1, <1>2, <1>3 DEF IInv, RunInv

LEMMA RefusedKeeps == IInv /\ Refused => RunInv'
<1> SUFFICES ASSUME IInv, Refused PROVE RunInv' OBVIOUS
<1> USE NamesFacts, AfterException DEF Refused
<1>1. TypeInv' BY DEF IInv, RunInv, TypeInv, Steps
<1>2. TargetInv'
  BY Statements
  DEF IInv, RunInv, TypeInv, TargetInv, CloneInv, Running, Target, Main, Creatable
<1>3. CloneInv'
  BY DEF IInv, RunInv, TypeInv, TargetInv, CloneInv, Running, Target, Main, Clones
<1> QED BY <1>1, <1>2, <1>3 DEF IInv, RunInv

LEMMA FaultKeeps == IInv /\ Fault => RunInv'
<1> SUFFICES ASSUME IInv, Fault PROVE RunInv' OBVIOUS
<1> USE NamesFacts, AfterException
<1>0. /\ troubled' = troubled \cup {Target} /\ UNCHANGED <<code, keepdb, found, cut>>
      /\ Running
  BY DEF Fault, Running
<1>1. CASE step \in {"exists", "create", "schema"} /\ Failed /\ UNCHANGED dbs
  <2>1. TypeInv' BY <1>0, <1>1 DEF IInv, RunInv, TypeInv, Steps
  <2>2. TargetInv' BY <1>0, <1>1 DEF IInv, RunInv, TypeInv, TargetInv, Target
  <2>3. CloneInv' BY <1>0, <1>1 DEF IInv, RunInv, TypeInv, CloneInv, Running, Main, Clones
  <2> QED BY <2>1, <2>2, <2>3 DEF IInv, RunInv
<1>2. CASE step = "create" /\ Creatable /\ Failed /\ dbs' = Created
  <2>1. TypeInv' BY <1>0, <1>2, Statements DEF IInv, RunInv, TypeInv, Steps
  <2>2. TargetInv' BY <1>0, <1>2 DEF IInv, RunInv, TypeInv, TargetInv, Target
  <2>3. CloneInv'
    BY <1>0, <1>2, SMTT(60)
    DEF IInv, RunInv, TypeInv, CloneInv, Running, Target, Main, Clones, Creatable, Created,
        Empty, Absent
  <2> QED BY <2>1, <2>2, <2>3 DEF IInv, RunInv
<1>3. CASE step = "schema" /\ current # None /\ Failed /\ dbs' = WithSchema
  <2>1. TypeInv' BY <1>0, <1>3, Statements DEF IInv, RunInv, TypeInv, Steps
  <2>2. TargetInv' BY <1>0, <1>3 DEF IInv, RunInv, TypeInv, TargetInv, Target
  <2>3. CloneInv'
    BY <1>0, <1>3, Statements, SMTT(60)
    DEF IInv, RunInv, TypeInv, TargetInv, CloneInv, Running, Target, Main, Clones,
        WithSchema, Database
  <2> QED BY <2>1, <2>2, <2>3 DEF IInv, RunInv
<1>4. CASE \/ /\ step = "drop" /\ Quit
              /\ dbs' \in {dbs, [dbs EXCEPT ![Target] = Absent]}
           \/ step = "migrate" /\ Quit /\ dbs' \in MigratedPartly
  <2>1. TypeInv' BY <1>0, <1>4, Statements DEF IInv, RunInv, TypeInv, Steps, Quit
  <2>2. TargetInv' BY <1>0, <1>4 DEF IInv, RunInv, TypeInv, TargetInv, Target, Quit
  <2>3. CloneInv' BY <1>4 DEF CloneInv, Running, Quit
  <2> QED BY <2>1, <2>2, <2>3 DEF IInv, RunInv
<1> QED BY <1>1, <1>2, <1>3, <1>4 DEF Fault

(* Django's runner. *)
LEMMA BeginRunKeeps ==
    ASSUME IInv, NEW keep \in BOOLEAN, BeginRun(keep) PROVE RunInv'
<1> USE NamesFacts DEF BeginRun, FirstStep, Existing
<1>1. TypeInv' BY DEF IInv, RunInv, TypeInv, Steps, All
<1>2. TargetInv' BY DEF TargetInv
<1>3. CloneInv' BY DEF CloneInv, Clones, All
<1> QED BY <1>1, <1>2, <1>3 DEF IInv, RunInv

LEMMA MigrateKeeps == IInv /\ Migrate => RunInv'
<1> SUFFICES ASSUME IInv, Migrate PROVE RunInv' OBVIOUS
<1> USE NamesFacts DEF Migrate, Enter, FirstStep
<1>1. at = 1 BY DEF IInv, RunInv, TargetInv
<1>2. /\ dbs' = [dbs EXCEPT ![Main] = MigratedFully]
      /\ Main \in All
      /\ dbs \in [All -> Database] /\ dbs[Main].there /\ dbs[Main].schema
  BY Statements DEF IInv, RunInv, TypeInv, Database
<1>3. dbs[Main] \in Database /\ code \in Nat
  BY <1>2 DEF IInv, RunInv, TypeInv
<1>4. /\ dbs'[Main] = MigratedFully
      /\ \A n \in All \ {Main} : dbs'[n] = dbs[n]
  BY <1>2
<1>5. /\ dbs'[Main].there = dbs[Main].there /\ dbs'[Main].schema = dbs[Main].schema
      /\ dbs'[Main].version = code /\ ~dbs'[Main].half /\ dbs'[Main] \in Database
  <2>1. dbs'[Main] = WholeAt(dbs[Main], code)
    BY <1>4 DEF MigratedFully, WholeAt
  <2>2. /\ WholeAt(dbs[Main], code) \in Database
        /\ WholeAt(dbs[Main], code).there = dbs[Main].there
        /\ WholeAt(dbs[Main], code).schema = dbs[Main].schema
        /\ WholeAt(dbs[Main], code).version = code /\ ~WholeAt(dbs[Main], code).half
    BY <1>3, Migrated
  <2> QED BY <2>1, <2>2
<1>6. TypeInv'
  <2>1. dbs' \in [All -> Database] BY <1>2, <1>4, <1>5
  <2> QED BY <2>1 DEF IInv, RunInv, TypeInv, Steps
<1>7. TargetInv' BY <1>1 DEF IInv, RunInv, TypeInv, TargetInv
<1>8. CloneInv'
  <2>1. /\ \A n \in found : dbs[n].there
        /\ \A i \in Clones : dbs[Names[i]].there =>
              Names[i] \in found \/ dbs[Names[i]].version = code
    BY DEF IInv, RunInv, CloneInv, Running
  <2>2. \A i \in Clones : Names[i] \in All \ {Main}
    BY DEF Clones, Main
  <2>3. /\ \A n \in found : dbs'[n].there
        /\ \A i \in Clones : dbs'[Names[i]].there =>
              Names[i] \in found \/ dbs'[Names[i]].version = code
    BY <1>2, <1>4, <1>5, <2>1, <2>2 DEF IInv, RunInv, TypeInv
  <2>4. /\ dbs'[Main].there /\ dbs'[Main].schema
        /\ dbs'[Main].version = code /\ ~dbs'[Main].half
    BY <1>2, <1>5
  <2>5. /\ UNCHANGED <<code, keepdb, found>>
        /\ \A i \in Clones : ~(i < at' \/ step' = "testing")
    BY <1>1 DEF Clones
  <2> QED BY <2>3, <2>4, <2>5 DEF CloneInv, Running, Main, Clones
<1> QED BY <1>6, <1>7, <1>8 DEF RunInv

LEMMA MigrateRefusedKeeps == IInv /\ MigrateRefused => RunInv'
BY DEF MigrateRefused, Quit, IInv, RunInv, TypeInv, TargetInv, CloneInv, Running, Steps

LEMMA RunEnds ==
    ASSUME IInv, \/ TestsEnd \/ Destroy \/ Interrupt \/ NewCode
    PROVE  RunInv'
<1> USE NamesFacts DEF Quit
<1>1. TypeInv'
  BY Statements DEF IInv, RunInv, TypeInv, Steps, TestsEnd, Destroy, Interrupt, NewCode
<1>2. TargetInv'
  BY DEF IInv, RunInv, TypeInv, TargetInv, TestsEnd, Destroy, Interrupt, NewCode
<1>3. CloneInv' BY DEF CloneInv, Running, TestsEnd, Destroy, Interrupt, NewCode
<1> QED BY <1>1, <1>2, <1>3 DEF IInv, RunInv

(* Clones stay as they are, or are made of a whole database. *)
LEMMA HalfNext ==
    ASSUME IInv, [Next]_vars
    PROVE  HalfInv'
<1> SUFFICES ASSUME NEW i \in Clones PROVE ~dbs'[Names[i]].half
  BY DEF HalfInv
<1>1. /\ ~dbs[Names[i]].half /\ Names[i] \in All /\ Names[i] # Main
      /\ dbs \in [All -> Database] /\ Target \in All
  BY NamesFacts, Statements DEF IInv, RunInv, TypeInv, HalfInv, Clones, Main
<1>2. CASE \/ UNCHANGED dbs \/ dbs' = [dbs EXCEPT ![Target] = Absent]
           \/ dbs' \in MigratedPartly
           \/ dbs' = [dbs EXCEPT ![Main] = MigratedFully]
  BY <1>1, <1>2, Statements DEF Absent
<1>3. CASE dbs' = WithSchema
  BY <1>1, <1>3 DEF WithSchema, Database
<1>4. CASE step = "create" /\ Creatable /\ dbs' = Created
  <2>1. at > 1 => ~dbs[Main].half
    BY <1>4 DEF IInv, RunInv, CloneInv, Running
  <2> QED BY <1>1, <1>4, <2>1, NamesFacts DEF Created, Empty, Absent, IInv, RunInv, TypeInv
<1>5. CASE RunStep
  BY <1>2, <1>3, <1>4, <1>5 DEF RunStep, DatabaseExists, CreateDatabase, CreateSchema,
     Refused, Drop, Migrate, MigrateRefused
<1>6. CASE Fault
  BY <1>2, <1>3, <1>4, <1>6 DEF Fault
<1>7. CASE Interrupt
  BY <1>2, <1>7 DEF Interrupt
<1>8. CASE TestsEnd \/ Destroy \/ NewCode \/ UNCHANGED vars
           \/ \E keep \in BOOLEAN : BeginRun(keep)
  BY <1>2, <1>8 DEF TestsEnd, Destroy, BeginRun, NewCode, vars
<1> QED BY <1>5, <1>6, <1>7, <1>8 DEF Next

LEMMA NextInv == IInv /\ [Next]_vars => IInv'
<1>0. IInv /\ [Next]_vars => HalfInv'
  BY HalfNext
<1>1. ASSUME IInv, UNCHANGED vars PROVE RunInv'
  BY <1>1 DEF vars, IInv, RunInv, TypeInv, TargetInv, CloneInv, Running, Target, Main
<1> QED
  BY <1>1, DatabaseExistsKeeps, CreateDatabaseKeeps, CreateSchemaKeeps, DropKeeps,
     RefusedKeeps, FaultKeeps, BeginRunKeeps, MigrateKeeps, MigrateRefusedKeeps, RunEnds,
     <1>0
  DEF Next, RunStep, IInv

LEMMA Invariant == Spec => []IInv
BY InitInv, NextInv, PTL DEF Spec
-----------------------------------------------------------------------------
(* SchemaIsMadeInside in every reachable state: each way to CREATE SCHEMA  *)
(* goes through USE DATABASE or CREATE DATABASE of the same database, also *)
(* the second time, after a DROP took the session out of it.               *)
THEOREM SchemasAreMadeInside == Spec => []SchemaIsMadeInside
<1>1. IInv => SchemaIsMadeInside BY DEF IInv, RunInv, TargetInv, SchemaIsMadeInside
<1> QED BY <1>1, Invariant, PTL

(* TestsRunOnNewest in every reachable state: the test database is         *)
(* migrated before the first clone is made of it, and _clone_test_db goes  *)
(* on to the next clone only when this one was made or kept.               *)
THEOREM TestedDatabasesAreNewest == Spec => []TestsRunOnNewest
<1>1. IInv => TestsRunOnNewest
  <2> SUFFICES ASSUME IInv, step = "testing", NEW n \in All
               PROVE  /\ dbs[n].there /\ dbs[n].schema /\ ~dbs[n].half
                      /\ dbs[n].version = code \/ (keepdb /\ n \in found \ {Main})
    BY DEF TestsRunOnNewest, All
  <2>0. CloneInv /\ Running BY DEF IInv, RunInv, Running
  <2>1. PICK i \in 1..Len(Names) : n = Names[i] BY NamesFacts
  <2>2. CASE i = 1 BY <2>0, <2>1, <2>2 DEF CloneInv, Main
  <2>3. CASE i # 1
    <3>1. i \in Clones /\ n # Main BY <2>1, <2>3, NamesFacts DEF Clones, Main
    <3> QED BY <2>0, <2>1, <3>1 DEF CloneInv, IInv, HalfInv
  <2> QED BY <2>2, <2>3
<1> QED BY <1>1, Invariant, PTL

(* KeptDatabasesSurvive for every step: with --keepdb the way to DROP      *)
(* DATABASE leads past _database_exists, and a database that answers there *)
(* is refused neither a CREATE nor a schema.                               *)
THEOREM KeptDatabasesAreKept == Spec => KeptDatabasesSurvive
<1> DEFINE Kept == \A n \in found :
               (step # "idle" /\ keepdb /\ dbs[n].there /\ ~dbs'[n].there)
                   => n \in troubled
<1>1. IInv /\ [Next]_vars => [Kept]_vars
  <2> SUFFICES ASSUME IInv, Next, NEW n \in found, step # "idle", keepdb,
                      dbs[n].there, ~dbs'[n].there
               PROVE  n \in troubled
    OBVIOUS
  <2>0. /\ dbs \in [All -> Database] /\ n \in All /\ Target \in All /\ Main \in All
    BY Statements DEF IInv, RunInv, TypeInv
  <2>1. CASE Drop \/ (step = "drop" /\ dbs' \in {dbs, [dbs EXCEPT ![Target] = Absent]})
    <3>1. step = "drop" /\ n = Target BY <2>0, <2>1 DEF Drop
    <3> QED BY <3>1 DEF IInv, RunInv, TargetInv
  <2>2. CASE UNCHANGED dbs BY <2>2
  <2>3. CASE Creatable /\ dbs' = Created
    BY <2>0, <2>3 DEF Creatable, Created, Empty, Absent
  <2>4. CASE step = "schema" /\ dbs' = WithSchema
    BY <2>0, <2>4 DEF WithSchema, Database
  <2>5. CASE Migrate
    <3>1. dbs[Main] \in Database /\ code \in Nat
      BY <2>0 DEF IInv, RunInv, TypeInv
    <3>2. MigratedFully.there = dbs[Main].there
      BY <3>1, Migrated DEF MigratedFully, WholeAt
    <3> QED BY <2>0, <2>5, <3>2 DEF Migrate
  <2>7. CASE dbs' \in MigratedPartly
    BY <2>0, <2>7, Statements
  <2>6. CASE Destroy BY <2>6 DEF Destroy, IInv, RunInv, TargetInv
  <2> QED
    BY <2>1, <2>2, <2>3, <2>4, <2>5, <2>6, <2>7 DEF Next, RunStep, Fault, DatabaseExists,
       CreateDatabase, CreateSchema, Refused, MigrateRefused, TestsEnd, Interrupt,
       BeginRun, NewCode
<1> QED BY <1>1, Invariant, PTL DEF Spec, KeptDatabasesSurvive
=============================================================================
