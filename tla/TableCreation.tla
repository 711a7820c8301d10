---------------------------- MODULE TableCreation ----------------------------
(***************************************************************************)
(* Where an ordered sequence comes from: a table is created by a wrapper   *)
(* of SessionState, in whatever state its session is then, and objects are *)
(* saved to it as in KeyAssignment.  Snowflake fixes the kind of sequence  *)
(* an AUTOINCREMENT column gets when the column is created, so the table   *)
(* takes NOORDER_SEQUENCE_AS_DEFAULT from the session.  Django does not    *)
(* ask whether the preparation of a session ended: a wrapper whose         *)
(* connect() raised keeps its connection and may create tables on it.      *)
(***************************************************************************)
EXTENDS KeyAssignment

CONSTANTS Wrappers, Sessions, Zones, Default, Autocommit  \* as in SessionState

VARIABLES conn, at, zone, auto, errors, connecting, ready, live, noorder, tz,
          marked, cached, doubtful,                       \* as in SessionState
          creator   \* "nobody" created the table yet; one whose connect() got
                    \* past init_connection_state's first part, or another

Session == INSTANCE SessionState WITH pc <- at

sessions == <<conn, at, zone, auto, errors, connecting, ready, live, noorder, tz,
              marked, cached, doubtful>>
rows == <<given, pc, pk, key, present, open, past>>

CreationInit ==
    /\ Session!Init
    /\ Init /\ prepared = FALSE
    /\ creator = "nobody"

(* Preparation of sessions, before there is a table.  What becomes of them *)
(* later does not concern the table any more.                              *)
UseSessions ==
    /\ creator = "nobody"
    /\ Session!Next
    /\ UNCHANGED <<prepared, rows, creator>>

(* DatabaseSchemaEditor.create_model, on the connection of w. *)
CreateTable(w) ==
    /\ creator = "nobody"
    /\ at[w] = "none" /\ conn[w] # None /\ live[conn[w]]
    /\ prepared' = ~noorder[conn[w]]
    /\ creator' = IF "session" \in ready[w] THEN "ready" ELSE "unready"
    /\ UNCHANGED <<sessions, rows>>

UseTable ==
    /\ creator # "nobody"
    /\ Next
    /\ UNCHANGED <<sessions, creator>>

CreationNext == UseSessions \/ (\E w \in Wrappers : CreateTable(w)) \/ UseTable
-----------------------------------------------------------------------------
(* A table that was created by a wrapper whose connect() got through its   *)
(* preparation numbers its rows so that a wrong key has a reason           *)
(* (KeyAssignment), whichever wrapper had the session before, what failed  *)
(* while it did, and whichever mark on the raw connection let the wrapper  *)
(* skip ALTER SESSION (base.py:302).                                       *)
PreparedTablesAreSafe == creator = "ready" => WrongKeyHasReason
=============================================================================
