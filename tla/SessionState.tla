---------------------------- MODULE SessionState ----------------------------
(***************************************************************************)
(* How a DatabaseWrapper prepares the Snowflake session it is given, and   *)
(* what it remembers on the raw connection so that the next wrapper need   *)
(* not prepare the session again: init_connection_state, ensure_timezone,  *)
(* _raw_connection, _set_autocommit and is_usable (base.py).  They are     *)
(* called from Django's connect(), from its setting_changed receiver for   *)
(* TIME_ZONE, and from close_if_unusable_or_obsolete() at the end of a     *)
(* request.  A session goes back to the pool with its parameters and with  *)
(* the marks on its raw connection, and any wrapper may be given it next.  *)
(* Every statement may fail: without effect, or after it took effect (the  *)
(* answer is lost), and with or without the end of the session.            *)
(***************************************************************************)
CONSTANTS Wrappers,    \* the DatabaseWrappers of one alias, one per thread
          Sessions,    \* raw connections open at the same time
          Zones,       \* time zones
          Default,     \* TIMEZONE of the Snowflake account
          Autocommit,  \* AUTOCOMMIT in settings.DATABASES
          None         \* no session, no time zone, a mark that is not there

ASSUME ConstantsOK ==
    /\ Default \in Zones /\ Autocommit \in BOOLEAN
    /\ None \notin Zones /\ None \notin Sessions

VARIABLES conn,     \* conn[w]: the session of w's connection, or None
          pc,       \* pc[w]: the statement w executes next, or "none"
          zone,     \* zone[w]: timezone_name, None when it is empty
          auto,     \* auto[w]: the attribute autocommit of w
          errors,   \* errors[w]: the attribute errors_occurred of w
          connecting, \* the wrappers that are inside connect()
          ready,    \* ready[w]: the parts of the preparation of its connection
                    \* that ended without an exception
          live,     \* live[s]: the server still knows session s
          noorder,  \* noorder[s]: its NOORDER_SEQUENCE_AS_DEFAULT
          tz,       \* tz[s]: its TIMEZONE
          marked,   \* marked[s]: raw._django_session_initialized
          cached,   \* cached[s]: raw._django_timezone
          doubtful  \* sessions that had the mark of one time zone when the
                    \* change to another raised, but had reached the server

sessionVars == <<live, noorder, tz, marked, cached, doubtful>>
vars == <<conn, pc, zone, auto, errors, connecting, ready, sessionVars>>

Init ==
    /\ conn = [w \in Wrappers |-> None]
    /\ pc = [w \in Wrappers |-> "none"]
    /\ \E z \in Zones \cup {None} : zone = [w \in Wrappers |-> z]
    /\ auto = [w \in Wrappers |-> FALSE]
    /\ errors = [w \in Wrappers |-> FALSE]
    /\ connecting = {}
    /\ ready = [w \in Wrappers |-> {}]
    /\ live = [s \in Sessions |-> FALSE]
    /\ noorder = [s \in Sessions |-> TRUE]
    /\ tz = [s \in Sessions |-> Default]
    /\ marked = [s \in Sessions |-> FALSE]
    /\ cached = [s \in Sessions |-> None]
    /\ doubtful = {}

Idle == {s \in Sessions : \A w \in Wrappers : conn[w] # s}

(* A raw connection that was just opened has no attributes of this code. *)
Unmarked(s) ==
    /\ marked' = [marked EXCEPT ![s] = FALSE]
    /\ cached' = [cached EXCEPT ![s] = None]

(* create_connection: a new session with the parameters of the account. *)
Opened(s) ==
    /\ live' = [live EXCEPT ![s] = TRUE]
    /\ noorder' = [noorder EXCEPT ![s] = TRUE]
    /\ tz' = [tz EXCEPT ![s] = Default]
    /\ doubtful' = doubtful \ {s}
    /\ Unmarked(s)

Goto(w, step) == pc' = [pc EXCEPT ![w] = step]

(* A part of the preparation came to its end. *)
Ready(w, part) == ready' = [ready EXCEPT ![w] = @ \cup {part}]
-----------------------------------------------------------------------------
(* connect(): autocommit, session parameter, time zone                      *)

(* get_new_connection returned: a new session, or an idle one of the pool, *)
(* which may be dead by now.                                               *)
Connect(w) ==
    /\ conn[w] = None /\ pc[w] = "none"
    /\ \E s \in Idle :
          /\ conn' = [conn EXCEPT ![w] = s]
          /\ Opened(s) \/ UNCHANGED sessionVars
    /\ errors' = [errors EXCEPT ![w] = FALSE]
    /\ ready' = [ready EXCEPT ![w] = {}]
    /\ connecting' = connecting \cup {w}
    /\ Goto(w, "autocommit")
    /\ UNCHANGED <<zone, auto>>

(* _raw_connection: marks are read and set on the connection of the driver. *)
Raw(w) == conn[w]

(* A cache trusted whatever name it holds, and no test for an empty name.  *)
AnyHit(s, z) == z = None \/ cached[s] # None
HitOnlyIfNamed(s, z) == z # None /\ cached[s] = z

(* `not timezone_name`, or the cached name is the wanted one. *)
CacheHit(s, z) == z = None \/ cached[s] = z

(* Where ensure_timezone begins: at its query unless it returns at once. *)
EnsureTimezone(s, z) == IF CacheHit(s, z) THEN "return" ELSE "show"

(* The next statement of w reaches a session that is alive. *)
Executes(w, step) == pc[w] = step /\ live[conn[w]]

SetAutocommit(w) ==
    /\ Executes(w, "autocommit")
    /\ auto' = [auto EXCEPT ![w] = Autocommit]
    /\ IF marked[Raw(w)]
       THEN Ready(w, "session") /\ Goto(w, EnsureTimezone(Raw(w), zone[w]))
       ELSE Goto(w, "noorder") /\ UNCHANGED ready
    /\ UNCHANGED <<conn, zone, errors, connecting, sessionVars>>

(* ALTER SESSION SET NOORDER_SEQUENCE_AS_DEFAULT=False, then the mark. *)
InitSession(w) ==
    /\ Executes(w, "noorder")
    /\ noorder' = [noorder EXCEPT ![conn[w]] = FALSE]
    /\ marked' = [marked EXCEPT ![Raw(w)] = TRUE]
    /\ Ready(w, "session")
    /\ Goto(w, EnsureTimezone(Raw(w), zone[w]))
    /\ UNCHANGED <<conn, zone, auto, errors, connecting, live, tz, cached, doubtful>>

(* SHOW PARAMETERS LIKE 'TIMEZONE' *)
ShowTimezone(w) ==
    /\ Executes(w, "show")
    /\ IF tz[conn[w]] = zone[w]
       THEN cached' = [cached EXCEPT ![Raw(w)] = zone[w]] /\ Goto(w, "return")
       ELSE Goto(w, "alter") /\ UNCHANGED cached
    /\ UNCHANGED <<conn, zone, auto, errors, connecting, ready, live, noorder, tz, marked,
                   doubtful>>

(* ALTER SESSION SET TIMEZONE; in connect(), init_connection_state commits *)
(* it if the connection is not in autocommit mode.                         *)
AlterTimezone(w) ==
    /\ Executes(w, "alter")
    /\ tz' = [tz EXCEPT ![conn[w]] = zone[w]]
    /\ doubtful' = doubtful \ {conn[w]}
    /\ cached' = [cached EXCEPT ![Raw(w)] = zone[w]]
    /\ Goto(w, IF w \in connecting /\ ~auto[w] THEN "commit" ELSE "return")
    /\ UNCHANGED <<conn, zone, auto, errors, connecting, ready, live, noorder, marked>>

Commit(w) ==
    /\ Executes(w, "commit")
    /\ Goto(w, "return")
    /\ UNCHANGED <<conn, zone, auto, errors, connecting, ready, sessionVars>>

Return(w) ==
    /\ pc[w] = "return"
    /\ Ready(w, "zone")
    /\ connecting' = connecting \ {w}
    /\ Goto(w, "none")
    /\ UNCHANGED <<conn, zone, auto, errors, sessionVars>>

(* A mark that is set before its statement is known to have worked. *)
MarkedEarly(w) ==
    marked' = [marked EXCEPT ![Raw(w)] = @ \/ pc[w] = "noorder"]

(* The exception leaves the function before a mark is set. *)
MarksUntouched(w) == UNCHANGED marked

(* Django calls connect() inside wrap_database_errors; the receiver of     *)
(* setting_changed calls ensure_timezone outside of it, and its cursor is  *)
(* that of the driver.                                                     *)
ErrorIsNoted(w) == w \in connecting

(* A statement raises; its effect may have reached the session.  The       *)
(* wrapper keeps the connection.                                           *)
StatementFails(w) ==
    /\ pc[w] \notin {"none", "return"}
    /\ errors' = [errors EXCEPT ![w] = @ \/ ErrorIsNoted(w)]
    /\ connecting' = connecting \ {w}
    /\ Goto(w, "none")
    /\ \/ UNCHANGED live
       \/ live' = [live EXCEPT ![conn[w]] = FALSE]
    /\ \/ UNCHANGED <<noorder, tz, doubtful>>
       \/ /\ Executes(w, "noorder")
          /\ noorder' = [noorder EXCEPT ![conn[w]] = FALSE]
          /\ UNCHANGED <<tz, doubtful>>
       \/ /\ Executes(w, "alter")
          /\ tz' = [tz EXCEPT ![conn[w]] = zone[w]]
          /\ doubtful' = IF cached[Raw(w)] # None THEN doubtful \cup {conn[w]}
                         ELSE doubtful
          /\ UNCHANGED noorder
    /\ MarksUntouched(w)
    /\ UNCHANGED <<conn, zone, auto, ready, cached>>
-----------------------------------------------------------------------------
(* Later life of a connection                                               *)

(* The setting TIME_ZONE changes: Django's receiver of setting_changed     *)
(* forgets the old name and calls ensure_timezone, which returns at once   *)
(* if there is no connection.                                              *)
TimeZoneChanged(w, z) ==
    /\ pc[w] = "none"
    /\ z # zone[w]
    /\ zone' = [zone EXCEPT ![w] = z]
    /\ ready' = [ready EXCEPT ![w] = @ \ {"zone"}]
    /\ IF conn[w] # None THEN Goto(w, EnsureTimezone(Raw(w), z)) ELSE UNCHANGED pc
    /\ UNCHANGED <<conn, auto, errors, connecting, sessionVars>>

(* A query raises something else than DataError or IntegrityError. *)
QueryFails(w) ==
    /\ pc[w] = "none" /\ conn[w] # None
    /\ errors' = [errors EXCEPT ![w] = TRUE]
    /\ UNCHANGED <<conn, pc, zone, auto, connecting, ready, sessionVars>>

(* An is_usable() that does not ask the server. *)
UsableUnasked(s) == {TRUE}

(* is_usable: SELECT current_version(), which may also fail on a session   *)
(* that is alive; Database.Error means FALSE.                              *)
IsUsable(s) == {FALSE, live[s]}

(* close_if_unusable_or_obsolete() at the ends of a request. *)
RequestEnds(w) ==
    /\ pc[w] = "none" /\ conn[w] # None
    /\ \/ /\ auto[w] = Autocommit
          /\ errors[w] => TRUE \in IsUsable(conn[w])
          /\ errors' = [errors EXCEPT ![w] = FALSE]
          /\ UNCHANGED <<conn, ready>>
       \/ \* a changed autocommit, an unusable connection, CONN_MAX_AGE
          /\ conn' = [conn EXCEPT ![w] = None]
          /\ ready' = [ready EXCEPT ![w] = {}]
          /\ UNCHANGED errors
    /\ UNCHANGED <<pc, zone, auto, connecting, sessionVars>>

(* The server forgets a session. *)
SessionDies(s) ==
    /\ live[s]
    /\ live' = [live EXCEPT ![s] = FALSE]
    /\ UNCHANGED <<conn, pc, zone, auto, errors, connecting, ready, noorder, tz, marked,
                   cached, doubtful>>
-----------------------------------------------------------------------------
Step(w) ==
    \/ SetAutocommit(w) \/ InitSession(w)
    \/ ShowTimezone(w) \/ AlterTimezone(w) \/ Commit(w) \/ Return(w)
    \/ StatementFails(w)

Next ==
    \/ \E w \in Wrappers :
          \/ Connect(w) \/ Step(w)
          \/ \E z \in Zones \cup {None} : TimeZoneChanged(w, z)
          \/ QueryFails(w) \/ RequestEnds(w)
    \/ \E s \in Sessions : SessionDies(s)

Spec == Init /\ [][Next]_vars

(* Statements return or raise, and requests end again and again. *)
FairSpec == Spec /\ \A w \in Wrappers : WF_vars(Step(w)) /\ SF_vars(RequestEnds(w))
-----------------------------------------------------------------------------
(* Only a wrapper with a connection is preparing one. *)
TypeOK ==
    /\ conn \in [Wrappers -> Sessions \cup {None}]
    /\ pc \in [Wrappers -> {"none", "autocommit", "noorder", "show", "alter",
                            "commit", "return"}]
    /\ \A w \in Wrappers : pc[w] # "none" => conn[w] # None
    /\ zone \in [Wrappers -> Zones \cup {None}]
    /\ auto \in [Wrappers -> BOOLEAN]
    /\ errors \in [Wrappers -> BOOLEAN]
    /\ connecting \subseteq {w \in Wrappers : pc[w] # "none"}
    /\ ready \in [Wrappers -> SUBSET {"session", "zone"}]
    /\ live \in [Sessions -> BOOLEAN]
    /\ noorder \in [Sessions -> BOOLEAN]
    /\ tz \in [Sessions -> Zones]
    /\ marked \in [Sessions -> BOOLEAN]
    /\ cached \in [Sessions -> Zones \cup {None}]
    /\ doubtful \subseteq Sessions

(* What a raw connection says about its session is so, whichever wrapper   *)
(* wrote it and whatever failed in between: a round trip that is skipped   *)
(* because of a mark would have changed nothing.  The one exception is a   *)
(* session on which the answer to a change of its zone was lost.           *)
MarksTellTheTruth == \A s \in Sessions :
    /\ marked[s] => ~noorder[s]
    /\ (cached[s] # None /\ s \notin doubtful) => cached[s] = tz[s]

(* A wrapper whose connect() came to its end uses a session that generates *)
(* ordered sequences, on which last_insert_id relies, and that has the     *)
(* time zone the wrapper has now (with the same exception).                *)
PreparedIsConfigured == \A w \in Wrappers :
    /\ "session" \in ready[w] => ~noorder[conn[w]]
    /\ ("zone" \in ready[w] /\ zone[w] # None /\ conn[w] \notin doubtful)
          => tz[conn[w]] = zone[w]

(* A wrapper does not keep a dead session once errors_occurred says that   *)
(* something failed on it, in connect() or in a query, however often       *)
(* is_usable finds that it is alive before it dies.  (A failure inside the *)
(* receiver of setting_changed is not noted: there the next query is what  *)
(* finds the session dead.)                                                *)
DeadSessionIsReplaced == \A w \in Wrappers :
    (errors[w] /\ conn[w] # None /\ ~live[conn[w]]) ~> conn[w] = None
=============================================================================
