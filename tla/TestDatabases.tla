---------------------------- MODULE TestDatabases ----------------------------
(***************************************************************************)
(* The databases of a parallel test run: DatabaseCreation (creation.py)    *)
(* makes the test database and clones it for every worker.  One run        *)
(* follows another, with or without --keepdb; each finds what the one      *)
(* before has left, which may have been interrupted anywhere.  A statement *)
(* may raise before or after it took effect.  `migrate`, the order of      *)
(* things and the end of a run are Django's.                               *)
(***************************************************************************)
EXTENDS Naturals, Sequences, SequencesExt

CONSTANTS Names,      \* the test database, then its clones, as a sequence
          MaxCode,    \* versions of the project's migrations
          MaxFaults,  \* statements that raise for a reason of their own
          None        \* no database

ASSUME ConstantsOK ==
    /\ Names \in Seq(ToSet(Names)) /\ Names # <<>>
    /\ IsInjective(Names) /\ None \notin ToSet(Names)
    /\ MaxCode \in Nat \ {0} /\ MaxFaults \in Nat

VARIABLES dbs,      \* dbs[n]: the database n: is it there, has it its schema, the
                    \* newest migration recorded in it, is the next one half done
          code,     \* the newest migration of the project
          keepdb,   \* this run was started with --keepdb
          step,     \* what the run does next, "idle" if there is no run
          at,       \* the place in Names of the database it does that to
          current,  \* the database the session is in
          retried,  \* the database was dropped and is created once more
          faults,   \* statements that raised for a reason of their own
          (* what the properties need to know of the past *)
          found,    \* databases that the run found there and has not dropped
          troubled, \* databases on which a statement of the run raised so
          cut       \* the run was interrupted

vars == <<dbs, code, keepdb, step, at, current, retried, faults, found, troubled, cut>>

Absent == [there |-> FALSE, schema |-> FALSE, version |-> 0, half |-> FALSE]

(* A new database has no schema of that name and no tables. *)
Empty == [Absent EXCEPT !.there = TRUE]

Main == Names[1]
Target == Names[at]
Existing == {n \in ToSet(Names) : dbs[n].there}

Init ==
    /\ dbs = [n \in ToSet(Names) |-> Absent]
    /\ code = 1 /\ keepdb = FALSE
    /\ step = "idle" /\ at = 1 /\ current = None /\ retried = FALSE
    /\ faults = 0 /\ found = {} /\ troubled = {} /\ cut = FALSE
-----------------------------------------------------------------------------
(* _execute_create_test_db                                                  *)

(* A test for the database whether or not it is to be kept, and none.      *)
AskAlways(keep) == "exists"
NeverAsk(keep) == "create"

(* `not keepdb or not self._database_exists(...)` *)
FirstStep(keep) == IF keep THEN "exists" ELSE "create"

(* Every _create_test_db and _clone_test_db has a session from             *)
(* _nodb_cursor, which is in no database.                                  *)
Enter(i) ==
    /\ at' = i
    /\ step' = FirstStep(keepdb)
    /\ current' = None
    /\ retried' = FALSE

(* Django migrates the test database when it is there; a clone is ready.   *)
Advance ==
    IF at = 1 THEN step' = "migrate" /\ UNCHANGED <<at, current, retried>>
    ELSE IF at < Len(Names) THEN Enter(at + 1)
    ELSE step' = "testing" /\ UNCHANGED <<at, current, retried>>

(* A test that does not enter the database it finds. *)
Unentered(n) == current

(* _database_exists asks by USE DATABASE: the session is in it afterwards. *)
Entered(n) == n

(* A schema only for a database that was created. *)
ExistsIsEnough ==
    /\ step = "exists"
    /\ IF dbs[Target].there THEN Advance
       ELSE step' = "create" /\ UNCHANGED <<at, current, retried>>
    /\ UNCHANGED <<dbs, code, keepdb, faults, found, troubled, cut>>

DatabaseExists ==
    /\ step = "exists"
    /\ IF dbs[Target].there
       THEN step' = "schema" /\ current' = Entered(Target)
       ELSE step' = "create" /\ UNCHANGED current
    /\ UNCHANGED <<dbs, code, keepdb, at, retried, faults, found, troubled, cut>>

(* CREATE DATABASE, which fails if the name is taken, for the test         *)
(* database, or with the suffix CLONE.                                     *)
Creatable == ~dbs[Target].there /\ (at = 1 \/ dbs[Main].there)

Created == [dbs EXCEPT ![Target] = IF at = 1 THEN Empty ELSE dbs[Main]]

CreateDatabase ==
    /\ step = "create" /\ Creatable
    /\ dbs' = Created
    /\ current' = Target
    /\ step' = "schema"
    /\ UNCHANGED <<code, keepdb, at, retried, faults, found, troubled, cut>>

WithSchema == [dbs EXCEPT ![current].schema = TRUE]

(* CREATE SCHEMA IF NOT EXISTS, in the database the session is in. *)
CreateSchema ==
    /\ step = "schema" /\ current # None
    /\ dbs' = WithSchema
    /\ Advance
    /\ UNCHANGED <<code, keepdb, faults, found, troubled, cut>>
-----------------------------------------------------------------------------
(* What becomes of an exception                                             *)

Quit == step' = "idle" /\ UNCHANGED <<at, current, retried>>

(* _create_test_db of Django trusts a kept database, and asks before it    *)
(* drops another; the except clause of _clone_test_db drops in any case.   *)
(* A second exception is sys.exit(2).                                      *)
Failed ==
    IF at = 1 /\ keepdb THEN Advance
    ELSE IF retried THEN Quit
    ELSE step' = "drop" /\ UNCHANGED <<at, current, retried>>

(* DROP DATABASE fails if there is none. *)
Drop ==
    /\ step = "drop"
    /\ IF dbs[Target].there
       THEN /\ dbs' = [dbs EXCEPT ![Target] = Absent]
            /\ current' = IF current = Target THEN None ELSE current
            /\ step' = FirstStep(keepdb)
            /\ retried' = TRUE
            /\ found' = found \ {Target}
            /\ UNCHANGED at
       ELSE Quit /\ UNCHANGED <<dbs, found>>
    /\ UNCHANGED <<code, keepdb, faults, troubled, cut>>

(* Snowflake refuses the statement. *)
Refused ==
    /\ \/ step = "create" /\ ~Creatable
       \/ step = "schema" /\ current = None
    /\ Failed
    /\ UNCHANGED <<dbs, code, keepdb, faults, found, troubled, cut>>

(* `migrate` stopped somewhere: Snowflake has no transaction around DDL    *)
(* (features.py supports_transactions), so a migration may be half done;   *)
(* one that was half done before is so until it is recorded.               *)
StoppedIn(d) ==
    {d} \cup
    (IF d.schema
     THEN {[d EXCEPT !.version = v, !.half = FALSE] : v \in d.version + 1 .. code}
          \cup {[d EXCEPT !.version = v, !.half = TRUE] : v \in d.version .. code - 1}
     ELSE {})

MigratedPartly == {[dbs EXCEPT ![Main] = d] : d \in StoppedIn(dbs[Main])}

MigratedFully == [dbs[Main] EXCEPT !.version = code, !.half = FALSE]

(* The connection fails, before or after the statement took effect.  (The  *)
(* text of such an error is never "Object does not exist ...".)            *)
Fault ==
    /\ faults < MaxFaults
    /\ faults' = faults + 1
    /\ troubled' = troubled \cup {Target}
    /\ \/ step \in {"exists", "create", "schema"} /\ Failed /\ UNCHANGED dbs
       \/ step = "create" /\ Creatable /\ Failed /\ dbs' = Created
       \/ step = "schema" /\ current # None /\ Failed /\ dbs' = WithSchema
       \/ step = "drop" /\ Quit /\ dbs' \in {dbs, [dbs EXCEPT ![Target] = Absent]}
       \/ step = "migrate" /\ Quit /\ dbs' \in MigratedPartly
    /\ UNCHANGED <<code, keepdb, found, cut>>
-----------------------------------------------------------------------------
(* Django's test runner                                                     *)

BeginRun(keep) ==
    /\ step = "idle"
    /\ keepdb' = keep
    /\ step' = FirstStep(keep)
    /\ at' = 1 /\ current' = None /\ retried' = FALSE
    /\ found' = Existing /\ troubled' = {} /\ cut' = FALSE
    /\ UNCHANGED <<dbs, code, faults>>

(* create_test_db calls migrate, on a connection of its own. *)
Migrate ==
    /\ step = "migrate"
    /\ dbs[Main].schema
    /\ dbs' = [dbs EXCEPT ![Main] = MigratedFully]
    /\ IF Len(Names) > 1 THEN Enter(2)
       ELSE step' = "testing" /\ UNCHANGED <<at, current, retried>>
    /\ UNCHANGED <<code, keepdb, faults, found, troubled, cut>>

(* Without a schema there is nothing to create a table in, and what is     *)
(* half done may be refused the second time.                               *)
MigrateRefused ==
    /\ step = "migrate"
    /\ ~dbs[Main].schema \/ dbs[Main].half
    /\ Quit
    /\ UNCHANGED <<dbs, code, keepdb, faults, found, troubled, cut>>

(* teardown_databases: clones first, unless they are kept. *)
TestsEnd ==
    /\ step = "testing"
    /\ step' = IF keepdb THEN "idle" ELSE "destroy"
    /\ at' = Len(Names)
    /\ UNCHANGED <<dbs, code, keepdb, current, retried, faults, found, troubled, cut>>

Destroy ==
    /\ step = "destroy"
    /\ dbs' = [dbs EXCEPT ![Target] = Absent]
    /\ IF at = 1 THEN step' = "idle" /\ UNCHANGED at
       ELSE at' = at - 1 /\ UNCHANGED step
    /\ UNCHANGED <<code, keepdb, current, retried, faults, found, troubled, cut>>

(* The run is killed, or its user declines that a database is dropped. *)
Interrupt ==
    /\ step # "idle"
    /\ Quit
    /\ dbs' \in IF step = "migrate" THEN MigratedPartly ELSE {dbs}
    /\ cut' = TRUE
    /\ UNCHANGED <<code, keepdb, faults, found, troubled>>

(* A migration is added to the project. *)
NewCode ==
    /\ step = "idle" /\ code < MaxCode
    /\ code' = code + 1
    /\ UNCHANGED <<dbs, keepdb, step, at, current, retried, faults, found, troubled, cut>>

RunStep ==
    \/ DatabaseExists \/ CreateDatabase \/ CreateSchema \/ Refused \/ Drop
    \/ Migrate \/ MigrateRefused

Next ==
    \/ RunStep \/ Fault \/ TestsEnd \/ Destroy \/ Interrupt
    \/ \E keep \in BOOLEAN : BeginRun(keep)
    \/ NewCode

Spec == Init /\ [][Next]_vars

(* Statements of a run that goes on return or raise. *)
FairSpec == Spec /\ WF_vars(RunStep)
-----------------------------------------------------------------------------
(* The schema is made in the database that was asked for, by whichever of  *)
(* the ways through _execute_create_test_db: the session gets into it only *)
(* as a side effect of USE DATABASE or CREATE DATABASE, and a DROP leaves  *)
(* it in none.                                                             *)
SchemaIsMadeInside == step = "schema" => current = Target

(* Tests run on the newest migrations, none of them half done, in the test *)
(* database and in every clone, whatever earlier runs left; only a clone   *)
(* that --keepdb found and kept may be older.                              *)
TestsRunOnNewest ==
    step = "testing" =>
        \A n \in ToSet(Names) :
            /\ dbs[n].there /\ dbs[n].schema /\ ~dbs[n].half
            /\ dbs[n].version = code \/ (keepdb /\ n \in found \ {Main})

(* With --keepdb a database that was there survives, although any          *)
(* exception makes _clone_test_db drop it: only when a statement about it  *)
(* failed for a reason of its own does that happen (creation.py:20 "if     *)
(* keepdb=True and the database doesn't exist").                           *)
KeptDatabasesSurvive ==
    [][\A n \in found :
          (step # "idle" /\ keepdb /\ dbs[n].there /\ ~dbs'[n].there)
              => n \in troubled]_vars

Undisturbed == ~cut /\ troubled = {}

(* --keepdb has migrate go on in a database that may not let it. *)
KeepsHalfDone == keepdb /\ dbs[Main].half

(* Whatever a run left, databases without a schema or half migrated ones,  *)
(* the next run gets to its tests unless it is interrupted or a statement  *)
(* of it fails; with --keepdb, unless the test database it keeps is half   *)
(* migrated, which only a run without --keepdb is sure to repair.          *)
RunsRecover ==
    (/\ step \in {"exists", "create", "schema", "drop", "migrate"}
     /\ Undisturbed /\ ~KeepsHalfDone)
        ~> (step = "testing" \/ ~Undisturbed)
=============================================================================
