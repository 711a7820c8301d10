----------------------------- MODULE PoolTraffic -----------------------------
(***************************************************************************)
(* Everything that checks connections out of one QueuePool at the same     *)
(* time: request threads (DatabaseWrapper.get_new_connection and the       *)
(* close() of Django), the heartbeat (HeartbeatManager._ping) and the      *)
(* one-shot warm-up (ConnectionPool.warm_pool), with the ping dialect      *)
(* _SnowflakePingDialect that base.py gives the pool.  The QueuePool is    *)
(* SQLAlchemy's: its part is modelled from what this code relies on.       *)
(* Sessions die, connects fail and the process exits at any time.          *)
(***************************************************************************)
EXTENDS Naturals, FiniteSets

CONSTANTS Clients,        \* request threads
          Heartbeat,      \* the heartbeat thread of the alias
          Warmer,         \* the warm-up thread of the alias
          Records,        \* the connection records the pool may hold at once:
                          \* pool_size + max_overflow of them
          PoolSize,       \* POOL_SIZE
          PrePing,        \* PRE_PING
          None            \* absence of a record

Users == Clients \cup {Heartbeat, Warmer}

MaxOverflow == Cardinality(Records) - PoolSize

ASSUME ConstantsOK ==
    /\ IsFiniteSet(Records) /\ PoolSize \in 1..Cardinality(Records)
    /\ PrePing \in BOOLEAN
    /\ Heartbeat \notin Clients /\ Warmer \notin Clients /\ Heartbeat # Warmer
    /\ None \notin Records
    /\ Users \cap {"absent", "queue"} = {}

VARIABLES place,    \* place[r]: "absent", in the "queue", or the user that has it
          session,  \* session[r]: "none", "live" or "dead"
          stale,    \* records whose session is older than a failed pre-ping
          suspect,  \* records whose present session failed a heartbeat ping
          lost,     \* records whose last session a failure or its age took
          step,     \* step[u]: where u is
          got,      \* got[u]: the record u is checking out, or uses
          warmed,   \* the warm-up loop ran to its end
          exit      \* the stop event is set

vars == <<place, session, stale, suspect, lost, step, got, warmed, exit>>

Held(u) == {r \in Records : place[r] = u}
Queue == Held("queue")
Absent == Held("absent")

Init ==
    /\ place = [r \in Records |-> "absent"]
    /\ session = [r \in Records |-> "none"]
    /\ stale = {} /\ suspect = {} /\ lost = {}
    /\ step = [u \in Users |-> IF u = Warmer THEN "warming" ELSE "away"]
    /\ got = [u \in Users |-> None]
    /\ warmed = FALSE
    /\ exit = FALSE

Goto(u, s) == step' = [step EXCEPT ![u] = s]

(* A closed session whose marks stay on the record. *)
DropKeepingMarks(r) ==
    /\ session' = [session EXCEPT ![r] = "none"]
    /\ UNCHANGED <<stale, suspect>>

Lose(r) == lost' = lost \cup {r}

(* The session of record r is closed; another one is a new session. *)
Drop(r) ==
    /\ session' = [session EXCEPT ![r] = "none"]
    /\ stale' = stale \ {r}
    /\ suspect' = suspect \ {r}

(* QueuePool._do_return_conn: a record that finds the queue full is closed. *)
Enqueue(r) ==
    place' = [place EXCEPT ![r] = IF Cardinality(Queue) < PoolSize
                                  THEN "queue" ELSE "absent"]

(* fairy.invalidate(): the session is closed, the record goes back. *)
Invalidate(r) == Drop(r) /\ Lose(r) /\ Enqueue(r)

(* fairy.close(): the rollback of the pool's reset fails on a dead session, *)
(* which is then invalidated; an overflow record takes its session along.   *)
CloseFairy(r) ==
    /\ Enqueue(r)
    /\ IF session[r] # "live" \/ Cardinality(Queue) >= PoolSize
       THEN Drop(r)
       ELSE UNCHANGED <<session, stale, suspect>>
    /\ UNCHANGED lost
-----------------------------------------------------------------------------
(* pool.connect()                                                           *)

(* A record from the queue, or a new one while the overflow allows: a new  *)
(* record has lost nothing yet.                                            *)
Take(u) ==
    /\ step[u] = "connecting"
    /\ \E r \in IF Queue # {} THEN Queue ELSE Absent :
          /\ place' = [place EXCEPT ![r] = u]
          /\ got' = [got EXCEPT ![u] = r]
    /\ Goto(u, IF Queue # {} THEN "preparing" ELSE "creating")
    /\ lost' = lost \ Absent
    /\ UNCHANGED <<session, stale, suspect, warmed, exit>>

(* A warm-up that tries again after an exception. *)
FailedRetrying(u) == Goto(u, IF u = Warmer THEN "warming" ELSE "away")

(* What a caller of pool.connect() does with an exception: request threads *)
(* raise, the heartbeat logs, the warm-up goes to its `finally`.           *)
Failed(u) == Goto(u, IF u = Warmer THEN "releasing" ELSE "away")

(* QueuePool raises TimeoutError to a caller that waited for too long. *)
TimeOut(u) ==
    /\ step[u] = "connecting"
    /\ Queue = {} /\ Absent = {}
    /\ Failed(u)
    /\ UNCHANGED <<place, session, stale, suspect, lost, got, warmed, exit>>

HandOver(u) ==
    /\ Goto(u, IF u = Warmer THEN "warming" ELSE "using")
    /\ got' = IF u = Warmer THEN [got EXCEPT ![u] = None] ELSE got

(* _SnowflakePingDialect._do_ping_w_event: SELECT 1, any exception is False; *)
(* it may raise on a session that lives on.                                  *)
DoPing(s) == {FALSE, s = "live"}

(* A session that is neither stale nor due for POOL_RECYCLE; it is pinged  *)
(* first if the pool was created with pre_ping.                            *)
CheckOut(u) ==
    /\ step[u] = "preparing"
    /\ session[got[u]] # "none" /\ got[u] \notin stale
    /\ PrePing => TRUE \in DoPing(session[got[u]])
    /\ HandOver(u)
    /\ UNCHANGED <<place, session, stale, suspect, lost, warmed, exit>>

(* A failed pre-ping: this session is closed, the others are stale by their *)
(* time stamp and are replaced when they are checked out.                   *)
PrePingFails(u) ==
    /\ step[u] = "preparing"
    /\ PrePing
    /\ session[got[u]] # "none" /\ got[u] \notin stale
    /\ FALSE \in DoPing(session[got[u]])
    /\ session' = [session EXCEPT ![got[u]] = "none"]
    /\ stale' = {r \in Records : session[r] # "none"} \ {got[u]}
    /\ suspect' = suspect \ {got[u]}
    /\ Lose(got[u])
    /\ UNCHANGED <<place, step, got, warmed, exit>>

(* A stale session, or one older than POOL_RECYCLE seconds. *)
Recycle(u) ==
    /\ step[u] = "preparing"
    /\ session[got[u]] # "none"
    /\ Drop(got[u]) /\ Lose(got[u])
    /\ UNCHANGED <<place, step, got, warmed, exit>>

(* create_connection called by the pool. *)
Open(u) ==
    /\ step[u] \in {"preparing", "creating"}
    /\ session[got[u]] = "none"
    /\ session' = [session EXCEPT ![got[u]] = "live"]
    /\ lost' = lost \ {got[u]}
    /\ HandOver(u)
    /\ UNCHANGED <<place, stale, suspect, warmed, exit>>

(* create_connection raises: a record from the queue goes back to it, the  *)
(* place of a new one is given up.                                         *)
OpenFails(u) ==
    /\ step[u] \in {"preparing", "creating"}
    /\ session[got[u]] = "none"
    /\ IF step[u] = "preparing"
       THEN Enqueue(got[u])
       ELSE place' = [place EXCEPT ![got[u]] = "absent"]
    /\ got' = [got EXCEPT ![u] = None]
    /\ Failed(u)
    /\ UNCHANGED <<session, stale, suspect, lost, warmed, exit>>

Connecting(u) ==
    \/ Take(u) \/ TimeOut(u)
    \/ CheckOut(u) \/ PrePingFails(u) \/ Recycle(u) \/ Open(u) \/ OpenFails(u)
-----------------------------------------------------------------------------
(* Request threads                                                          *)

Connect(c) ==
    /\ ~exit
    /\ step[c] = "away"
    /\ Goto(c, "connecting")
    /\ UNCHANGED <<place, session, stale, suspect, lost, got, warmed, exit>>

(* DatabaseWrapper.close() at the end of a request or by CONN_MAX_AGE. *)
Close(c) ==
    /\ step[c] = "using"
    /\ CloseFairy(got[c])
    /\ got' = [got EXCEPT ![c] = None]
    /\ Goto(c, "away")
    /\ UNCHANGED <<warmed, exit>>
-----------------------------------------------------------------------------
(* HeartbeatManager._ping                                                   *)

BeginPing ==
    /\ ~exit
    /\ step[Heartbeat] = "away"
    /\ Goto(Heartbeat, "connecting")
    /\ UNCHANGED <<place, session, stale, suspect, lost, got, warmed, exit>>

PingSucceeds ==
    /\ step[Heartbeat] = "using"
    /\ session[got[Heartbeat]] = "live"
    /\ CloseFairy(got[Heartbeat])
    /\ got' = [got EXCEPT ![Heartbeat] = None]
    /\ Goto(Heartbeat, "away")
    /\ UNCHANGED <<warmed, exit>>

(* An exception that ends the thread, or is handled by _ping. *)
ThreadDies == "done"
ExceptClause == "failed"

(* cursor() or execute() raises, on a dead session and maybe on a live one. *)
PingFails ==
    /\ step[Heartbeat] = "using"
    /\ suspect' = suspect \cup {got[Heartbeat]}
    /\ Goto(Heartbeat, ExceptClause)
    /\ UNCHANGED <<place, session, stale, lost, got, warmed, exit>>

(* A handler that closes the connection like that of a good ping. *)
DiscardByClose(r) == CloseFairy(r)

(* `conn.invalidate()` *)
Discard(r) == Invalidate(r)

DiscardFailed ==
    /\ step[Heartbeat] = "failed"
    /\ Discard(got[Heartbeat])
    /\ got' = [got EXCEPT ![Heartbeat] = None]
    /\ Goto(Heartbeat, "away")
    /\ UNCHANGED <<warmed, exit>>
-----------------------------------------------------------------------------
(* ConnectionPool.warm_pool                                                 *)

(* A loop that ends one connection short, or goes on for one more. *)
OneShort == PoolSize - 1
OneMore == PoolSize + 1

(* `num_connections`, which _warm reads from POOL_SIZE. *)
NumConnections == PoolSize

(* The loop over range(num_connections): every connection is kept until    *)
(* all of them are there, or one fails, or the process exits.              *)
WarmNext ==
    /\ step[Warmer] = "warming"
    /\ IF Cardinality(Held(Warmer)) = NumConnections
       THEN warmed' = TRUE /\ Goto(Warmer, "releasing")
       ELSE /\ Goto(Warmer, IF exit THEN "releasing" ELSE "connecting")
            /\ UNCHANGED warmed
    /\ UNCHANGED <<place, session, stale, suspect, lost, got, exit>>

(* The `finally` block: connections go back, after shutdown() invalidated. *)
Release ==
    /\ step[Warmer] = "releasing"
    /\ \E r \in Held(Warmer) : IF exit THEN Invalidate(r) ELSE CloseFairy(r)
    /\ UNCHANGED <<step, got, warmed, exit>>

(* A `finally` block that leaves one connection behind. *)
OneLeft == Cardinality(Held(Warmer)) < 2

(* `for conn in connections` has come to its end. *)
AllReleased == Held(Warmer) = {}

WarmDone ==
    /\ step[Warmer] = "releasing"
    /\ AllReleased
    /\ Goto(Warmer, "done")
    /\ UNCHANGED <<place, session, stale, suspect, lost, got, warmed, exit>>
-----------------------------------------------------------------------------
(* The world around: sessions are lost, the process exits.                  *)

SessionDies(r) ==
    /\ session[r] = "live"
    /\ session' = [session EXCEPT ![r] = "dead"]
    /\ Lose(r)
    /\ UNCHANGED <<place, stale, suspect, step, got, warmed, exit>>

(* HeartbeatManager.shutdown, from atexit, when request threads are joined. *)
Shutdown ==
    /\ ~exit
    /\ \A c \in Clients : step[c] = "away"
    /\ exit' = TRUE
    /\ UNCHANGED <<place, session, stale, suspect, lost, step, got, warmed>>

(* The process ends; its daemon threads die wherever they are. *)
Terminated == exit /\ UNCHANGED vars

PingStep == PingSucceeds \/ PingFails \/ DiscardFailed
WarmStep == WarmNext \/ Release \/ WarmDone

Next ==
    \/ \E u \in Users : Connecting(u)
    \/ \E c \in Clients : Connect(c) \/ Close(c)
    \/ BeginPing \/ PingStep
    \/ WarmStep
    \/ \E r \in Records : SessionDies(r)
    \/ Shutdown
    \/ Terminated

Spec == Init /\ [][Next]_vars

(* Threads run, a blocked connect() times out; requests need not end. *)
FairSpec ==
    /\ Spec
    /\ WF_vars(Connecting(Warmer)) /\ WF_vars(WarmStep)
    /\ WF_vars(Connecting(Heartbeat)) /\ WF_vars(PingStep)
-----------------------------------------------------------------------------
TypeOK ==
    /\ place \in [Records -> Users \cup {"absent", "queue"}]
    /\ session \in [Records -> {"none", "live", "dead"}]
    /\ stale \subseteq Records /\ suspect \subseteq Records /\ lost \subseteq Records
    /\ step \in [Users -> {"away", "connecting", "preparing", "creating", "using",
                           "failed", "warming", "releasing", "done"}]
    /\ got \in [Users -> Records \cup {None}]
    /\ warmed \in BOOLEAN /\ exit \in BOOLEAN
    /\ \A r \in stale \cup suspect : session[r] # "none"

(* Every record that is out is one its user still has in hand: whatever    *)
(* fails or times out, no exit of _ping, warm_pool or connect() loses one. *)
NothingLeaks ==
    /\ \A u \in Users \ {Warmer} : Held(u) = {got[u]} \ {None}
    /\ step[Warmer] = "done" => Held(Warmer) = {}
    /\ \A u \in Users : step[u] = "away" => Held(u) = {}
    /\ Cardinality(Queue) <= PoolSize

(* A connection whose heartbeat ping failed is nobody else's: it is closed *)
(* before its record is in the queue (test_heartbeat.py "dead connection   *)
(* should be invalidated").                                                *)
FailedPingIsNotReused == \A r \in suspect :
    place[r] = Heartbeat /\ step[Heartbeat] = "failed"

(* Because warm_pool keeps all its connections until the last one is open, *)
(* a warm-up that ran to its end leaves POOL_SIZE open connections, and    *)
(* traffic alone never closes one of them: what is missing are sessions    *)
(* that a failure, POOL_RECYCLE or the exit took, whose records stay in    *)
(* the pool and get a new session when they are checked out.               *)
WarmedPoolIsFull ==
    warmed => Cardinality({r \in Records \ Absent :
                              session[r] = "live" \/ r \in lost}) >= PoolSize

(* The warm-up never takes the overflow away: a request times out only     *)
(* when requests and the heartbeat hold as many connections between them.  *)
OverflowIsForRequests ==
    [][\A c \in Clients :
          TimeOut(c) => Cardinality(UNION {Held(u) : u \in Users \ {Warmer}}) >= MaxOverflow
      ]_vars

(* The warm-up ends and gives back what it holds, also when it waits for   *)
(* connections that requests never return.                                 *)
WarmUpEnds == <>(step[Warmer] = "done")

(* The heartbeat always gets back to its loop. *)
HeartbeatReturns == step[Heartbeat] # "away" ~> step[Heartbeat] = "away"
=============================================================================
