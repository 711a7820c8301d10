----------------------------- MODULE LazyStartup -----------------------------
(***************************************************************************)
(* How a process of a Django site comes to its Snowflake pool and its      *)
(* warehouse heartbeat: DatabaseWrapper.get_new_connection (base.py), the  *)
(* ConnectionPool container and its after-fork hook (pool.py), and the     *)
(* start, fork reset and shutdown of HeartbeatManager (heartbeat.py).      *)
(* Request threads interleave between any two steps; a step is the code    *)
(* between two accesses to shared memory that another thread could         *)
(* observe.  A forked process starts with a copy of its parent's memory    *)
(* and with one thread, the one that called fork().                        *)
(***************************************************************************)
CONSTANTS Procs,             \* operating-system processes
          Root,              \* the process that exists at the beginning
          Threads,           \* request threads of a process
          Aliases,           \* aliases of settings.DATABASES
          NoDbAlias,         \* django's NO_DB_ALIAS ("__no_db__")
          PoolEnabled,       \* aliases whose POOL setting has IS_ENABLED
          TestsOrMigrations, \* is_running_tests() or is_running_migrations()
          HeartbeatEnabled,  \* the setting SNOWFLAKE_HEARTBEAT_ENABLED
          ForkHook,          \* fork() runs the hooks of os.register_at_fork
          StartMayFail,      \* Thread.start() may raise RuntimeError
          None               \* absence of a value

VARIABLES status,   \* status[p]: "unborn", "running" or "exited"
          mem,      \* mem[p]: the module-level objects in the memory of p
          beats,    \* beats[p]: the live heartbeat threads of p
          warmups,  \* warmups[p]: the warm-up threads p has started
          pc,       \* pc[p][t]: where thread t of p is in get_new_connection
          target,   \* target[p][t]: the alias t is connecting to
          chosen,   \* chosen[p][t]: the pool t has read from the container
          conn      \* conn[p][t][a]: DatabaseWrapper.connection of t for a

vars == <<status, mem, beats, warmups, pc, target, chosen, conn>>

PoolIds == [proc : Procs, by : Threads]

(* A connection: the process that opened it, and its pool unless direct. *)
Links == [opener : Procs, pool : PoolIds \cup {None}]

(* A background thread: its alias, its stop event (named by the process    *)
(* that created the event) and the request thread that started it.         *)
Workers == [alias : Aliases, stop : Procs, by : Threads]

Holders == Threads \cup {"free", "background", "orphan"}

Memory == [pools    : [Aliases -> PoolIds \cup {None}],  \* POOL_CONTAINER
           poolLock : Holders,                           \* POOL_CONTAINER.lock
           threads  : SUBSET Aliases,                    \* keys of _threads
           hbLock   : Threads \cup {"free", "orphan"},   \* HEARTBEAT._lock
           pid      : Procs,                             \* HEARTBEAT._pid
           stop     : Procs,                             \* HEARTBEAT._stop
           stopSet  : BOOLEAN,                           \* _stop.is_set()
           atexit   : BOOLEAN]                           \* _atexit_registered

Steps == {"idle", "direct", "has", "set", "ensure", "start", "spawn",
          "warm", "get", "connect"}

ASSUME ConstantsOK ==
    /\ Root \in Procs
    /\ PoolEnabled \subseteq Aliases
    /\ TestsOrMigrations \in BOOLEAN /\ HeartbeatEnabled \in BOOLEAN
    /\ ForkHook \in BOOLEAN /\ StartMayFail \in BOOLEAN
    /\ None \notin Aliases /\ None \notin PoolIds /\ None \notin Links
    /\ Threads \cap {"free", "background", "orphan"} = {}
-----------------------------------------------------------------------------
Nothing == [a \in Aliases |-> None]

NoConns == [t \in Threads |-> Nothing]

FreshMemory(p) ==
    [pools |-> Nothing, poolLock |-> "free", threads |-> {},
     hbLock |-> "free", pid |-> p, stop |-> p, stopSet |-> FALSE,
     atexit |-> FALSE]

Init ==
    /\ status = [p \in Procs |-> IF p = Root THEN "running" ELSE "unborn"]
    /\ mem = [p \in Procs |-> FreshMemory(p)]
    /\ beats = [p \in Procs |-> {}]
    /\ warmups = [p \in Procs |-> {}]
    /\ pc = [p \in Procs |-> [t \in Threads |-> "idle"]]
    /\ target = [p \in Procs |-> [t \in Threads |-> None]]
    /\ chosen = [p \in Procs |-> [t \in Threads |-> None]]
    /\ conn = [p \in Procs |-> NoConns]

Goto(p, t, step) == pc' = [pc EXCEPT ![p][t] = step]

(* A return that leaves the locals of the call behind. *)
LeaveKeepingTarget(p, t) ==
    /\ Goto(p, t, "idle")
    /\ chosen' = [chosen EXCEPT ![p][t] = None]
    /\ UNCHANGED target

(* get_new_connection returns or raises: the thread forgets its locals. *)
Leave(p, t) ==
    /\ Goto(p, t, "idle")
    /\ target' = [target EXCEPT ![p][t] = None]
    /\ chosen' = [chosen EXCEPT ![p][t] = None]

HoldsPoolLock(p, t, step) == pc[p][t] = step /\ mem[p].poolLock = t

HoldsHbLock(p, t, step) == pc[p][t] = step /\ mem[p].hbLock = t
-----------------------------------------------------------------------------
(* DatabaseWrapper.get_new_connection                                       *)

ShouldUsePool(a) ==
    /\ a # NoDbAlias
    /\ ~TestsOrMigrations
    /\ a \in PoolEnabled

(* Django's ensure_connection calls get_new_connection when the wrapper of *)
(* the thread has no connection.                                           *)
GetNewConnection(p, t, a) ==
    /\ status[p] = "running"
    /\ pc[p][t] = "idle"
    /\ conn[p][t][a] = None
    /\ target' = [target EXCEPT ![p][t] = a]
    /\ Goto(p, t, IF ShouldUsePool(a) THEN "has" ELSE "direct")
    /\ UNCHANGED <<status, mem, beats, warmups, chosen, conn>>

(* create_connection without a pool, or the exception Database.connect raises. *)
CreateConnection(p, t) ==
    /\ pc[p][t] = "direct"
    /\ \/ conn' = [conn EXCEPT ![p][t][target[p][t]] =
                      [opener |-> p, pool |-> None]]
       \/ UNCHANGED conn
    /\ Leave(p, t)
    /\ UNCHANGED <<status, mem, beats, warmups>>

(* `with self.lock` in has, set and get of ConnectionPool. *)
AcquirePoolLock(p, t) ==
    /\ pc[p][t] \in {"has", "set", "get"}
    /\ mem[p].poolLock = "free"
    /\ mem' = [mem EXCEPT ![p].poolLock = t]
    /\ UNCHANGED <<status, beats, warmups, pc, target, chosen, conn>>

(* A has() that answers the wrong way round. *)
AbsentFrom(pools, a) == pools[a] = None

(* `pool_name in self` *)
Contains(pools, a) == pools[a] # None

(* ConnectionPool.has, and the construction of a QueuePool when it says no. *)
Has(p, t) ==
    /\ HoldsPoolLock(p, t, "has")
    /\ mem' = [mem EXCEPT ![p].poolLock = "free"]
    /\ Goto(p, t, IF Contains(mem[p].pools, target[p][t]) THEN "ensure" ELSE "set")
    /\ UNCHANGED <<status, beats, warmups, target, chosen, conn>>

(* A set that trusts the earlier has() and registers the new pool anyway. *)
SetUnchecked(pools, a, pool) == [pools EXCEPT ![a] = pool]

(* ConnectionPool.set: the first pool registered for an alias stays. *)
Registered(pools, a, pool) ==
    IF pools[a] # None THEN pools ELSE [pools EXCEPT ![a] = pool]

Set(p, t) ==
    /\ HoldsPoolLock(p, t, "set")
    /\ mem' = [mem EXCEPT
                 ![p].pools = Registered(@, target[p][t], [proc |-> p, by |-> t]),
                 ![p].poolLock = "free"]
    /\ Goto(p, t, "ensure")
    /\ UNCHANGED <<status, beats, warmups, target, chosen, conn>>

(* ConnectionPool.get: the pool, or ValueError if there is none. *)
Get(p, t) ==
    /\ HoldsPoolLock(p, t, "get")
    /\ mem' = [mem EXCEPT ![p].poolLock = "free"]
    /\ IF mem[p].pools[target[p][t]] = None
       THEN Leave(p, t)
       ELSE /\ chosen' = [chosen EXCEPT ![p][t] = mem[p].pools[target[p][t]]]
            /\ Goto(p, t, "connect")
            /\ UNCHANGED target
    /\ UNCHANGED <<status, beats, warmups, conn>>

(* pool.connect(): a connection opened now or idle in the pool, which holds *)
(* those of its own process; or the exception of a failed connect.          *)
Connect(p, t) ==
    /\ pc[p][t] = "connect"
    /\ \/ \E o \in {p, chosen[p][t].proc} :
             conn' = [conn EXCEPT ![p][t][target[p][t]] =
                         [opener |-> o, pool |-> chosen[p][t]]]
       \/ UNCHANGED conn
    /\ Leave(p, t)
    /\ UNCHANGED <<status, mem, beats, warmups>>

(* Django closes the connection of the wrapper (end of request, CONN_MAX_AGE). *)
Close(p, t, a) ==
    /\ status[p] = "running"
    /\ pc[p][t] = "idle"
    /\ conn[p][t][a] # None
    /\ conn' = [conn EXCEPT ![p][t][a] = None]
    /\ UNCHANGED <<status, mem, beats, warmups, pc, target, chosen>>
-----------------------------------------------------------------------------
(* HeartbeatManager.ensure_started                                          *)

(* `self._pid == os.getpid() and alias in self._threads` *)
Started(m, p, a) == m.pid = p /\ a \in m.threads

(* The tests made before taking the lock. *)
EnsureStarted(p, t) ==
    /\ pc[p][t] = "ensure"
    /\ Goto(p, t, IF ~HeartbeatEnabled \/ Started(mem[p], p, target[p][t])
                  THEN "get" ELSE "start")
    /\ UNCHANGED <<status, mem, beats, warmups, target, chosen, conn>>

AcquireHbLock(p, t) ==
    /\ pc[p][t] = "start"
    /\ mem[p].hbLock = "free"
    /\ mem' = [mem EXCEPT ![p].hbLock = t]
    /\ UNCHANGED <<status, beats, warmups, pc, target, chosen, conn>>

(* Under the lock: state inherited from another process is dropped. *)
PidReset(m, p) ==
    IF m.pid = p THEN m
    ELSE [m EXCEPT !.threads = {}, !.stop = p, !.stopSet = FALSE, !.pid = p]

(* No second look at _threads under the lock. *)
NeverRegistered(m, a) == FALSE

(* `alias in self._threads` *)
IsRegistered(m, a) == a \in m.threads

(* Another thread registered the heartbeat before this one had the lock. *)
AlreadyStarted(p, t) ==
    /\ HoldsHbLock(p, t, "start")
    /\ IsRegistered(PidReset(mem[p], p), target[p][t])
    /\ mem' = [mem EXCEPT ![p] = [PidReset(@, p) EXCEPT !.hbLock = "free"]]
    /\ Goto(p, t, "get")
    /\ UNCHANGED <<status, beats, warmups, target, chosen, conn>>

(* A registration without atexit.register. *)
WithThreadOnly(m, a) == [m EXCEPT !.threads = @ \cup {a}]

(* _threads[alias] = thread and, once, atexit.register(self.shutdown). *)
WithThread(m, a) == [m EXCEPT !.threads = @ \cup {a}, !.atexit = TRUE]

Register(p, t) ==
    /\ HoldsHbLock(p, t, "start")
    /\ ~IsRegistered(PidReset(mem[p], p), target[p][t])
    /\ mem' = [mem EXCEPT ![p] = WithThread(PidReset(@, p), target[p][t])]
    /\ Goto(p, t, "spawn")
    /\ UNCHANGED <<status, beats, warmups, target, chosen, conn>>

Worker(p, t) == [alias |-> target[p][t], stop |-> mem[p].stop, by |-> t]

(* The end of `with self._lock`, also by an exception. *)
ReleaseHbLock(p) == mem' = [mem EXCEPT ![p].hbLock = "free"]

(* thread.start() of the heartbeat; leaving `with` releases the lock. *)
SpawnHeartbeat(p, t) ==
    /\ HoldsHbLock(p, t, "spawn")
    /\ beats' = [beats EXCEPT ![p] = @ \cup {Worker(p, t)}]
    /\ ReleaseHbLock(p)
    /\ Goto(p, t, "warm")
    /\ UNCHANGED <<status, warmups, target, chosen, conn>>

(* thread.start() raises: the entry in _threads stays, the caller's        *)
(* get_new_connection logs and raises.                                     *)
SpawnHeartbeatFails(p, t) ==
    /\ StartMayFail
    /\ HoldsHbLock(p, t, "spawn")
    /\ ReleaseHbLock(p)
    /\ Leave(p, t)
    /\ UNCHANGED <<status, beats, warmups, conn>>

(* The one-shot warm-up thread, started after the lock is released. *)
SpawnWarmUp(p, t) ==
    /\ pc[p][t] = "warm"
    /\ warmups' = [warmups EXCEPT ![p] = @ \cup {Worker(p, t)}]
    /\ Goto(p, t, "get")
    /\ UNCHANGED <<status, mem, beats, target, chosen, conn>>

SpawnWarmUpFails(p, t) ==
    /\ StartMayFail
    /\ pc[p][t] = "warm"
    /\ Leave(p, t)
    /\ UNCHANGED <<status, mem, beats, warmups, conn>>
-----------------------------------------------------------------------------
(* Background threads, fork and exit                                        *)

(* A heartbeat (get) or a warm-up (has, get) is inside the container lock. *)
BackgroundAcquire(p) ==
    /\ status[p] = "running"
    /\ beats[p] \cup warmups[p] # {}
    /\ mem[p].poolLock = "free"
    /\ mem' = [mem EXCEPT ![p].poolLock = "background"]
    /\ UNCHANGED <<status, beats, warmups, pc, target, chosen, conn>>

BackgroundRelease(p) ==
    /\ status[p] = "running"
    /\ mem[p].poolLock = "background"
    /\ mem' = [mem EXCEPT ![p].poolLock = "free"]
    /\ UNCHANGED <<status, beats, warmups, pc, target, chosen, conn>>

(* A hook that keeps the handles of threads that did not survive fork(). *)
ResetKeepingThreads(m, p) ==
    [m EXCEPT !.hbLock = "free", !.stop = p, !.stopSet = FALSE, !.pid = p]

(* HeartbeatManager.reset_after_fork *)
ResetAfterFork(m, p) ==
    [m EXCEPT !.hbLock = "free", !.threads = {}, !.stop = p,
              !.stopSet = FALSE, !.pid = p]

(* A hook that resets the lock of the container but not its contents. *)
HookKeepingPools(m, p) ==
    ResetAfterFork([m EXCEPT !.poolLock = "free"], p)

(* A hook that leaves the lock of the container as it was at the fork. *)
HookKeepingLock(m, p) == ResetAfterFork([m EXCEPT !.pools = Nothing], p)

(* pool._after_fork_in_child *)
AfterForkInChild(m, p) ==
    ResetAfterFork([m EXCEPT !.poolLock = "free", !.pools = Nothing], p)

(* A lock that was held at the fork is held in the child by no thread. *)
Copied(m) ==
    LET held(l) == IF l = "free" THEN "free" ELSE "orphan"
    IN  [m EXCEPT !.poolLock = held(@), !.hbLock = held(@)]

(* Thread t of p, in user code, forks c.  The connections of t's wrappers  *)
(* are thread-local objects and are copied with the rest of the memory.    *)
Fork(p, t, c) ==
    /\ status[p] = "running" /\ status[c] = "unborn"
    /\ pc[p][t] = "idle"
    /\ status' = [status EXCEPT ![c] = "running"]
    /\ mem' = [mem EXCEPT ![c] = IF ForkHook
                                 THEN AfterForkInChild(Copied(mem[p]), c)
                                 ELSE Copied(mem[p])]
    /\ conn' = [conn EXCEPT ![c] = [NoConns EXCEPT ![t] = conn[p][t]]]
    /\ UNCHANGED <<beats, warmups, pc, target, chosen>>

(* Interpreter exit: request threads are joined, then the atexit callbacks *)
(* run, HeartbeatManager.shutdown among them if it was registered.         *)
Exit(p) ==
    /\ status[p] = "running"
    /\ \A t \in Threads : pc[p][t] = "idle"
    /\ status' = [status EXCEPT ![p] = "exited"]
    /\ mem' = [mem EXCEPT ![p].stopSet = mem[p].atexit]
    /\ UNCHANGED <<beats, warmups, pc, target, chosen, conn>>
-----------------------------------------------------------------------------
(* The steps of thread t of p inside get_new_connection. *)
ThreadStep(p, t) ==
    \/ CreateConnection(p, t)
    \/ AcquirePoolLock(p, t) \/ Has(p, t) \/ Set(p, t) \/ Get(p, t)
    \/ Connect(p, t)
    \/ EnsureStarted(p, t) \/ AcquireHbLock(p, t)
    \/ AlreadyStarted(p, t) \/ Register(p, t)
    \/ SpawnHeartbeat(p, t) \/ SpawnHeartbeatFails(p, t)
    \/ SpawnWarmUp(p, t) \/ SpawnWarmUpFails(p, t)

(* Every process has exited: the only state in which nothing can happen. *)
Terminated ==
    /\ \A p \in Procs : status[p] # "running"
    /\ UNCHANGED vars

Next ==
    \/ \E p \in Procs :
          \/ BackgroundAcquire(p) \/ BackgroundRelease(p)
          \/ Exit(p)
          \/ \E t \in Threads :
                \/ ThreadStep(p, t)
                \/ \E a \in Aliases : GetNewConnection(p, t, a) \/ Close(p, t, a)
                \/ \E c \in Procs : Fork(p, t, c)
    \/ Terminated

Spec == Init /\ [][Next]_vars

(* The operating system runs every runnable thread; nobody has to open or  *)
(* close connections, fork or exit.                                        *)
Fairness == \A p \in Procs :
    /\ WF_vars(BackgroundRelease(p))
    /\ \A t \in Threads : WF_vars(ThreadStep(p, t))

FairSpec == Spec /\ Fairness
-----------------------------------------------------------------------------
(* The shared objects of every process ... *)
SharedOK ==
    /\ status \in [Procs -> {"unborn", "running", "exited"}]
    /\ mem \in [Procs -> Memory]
    /\ beats \in [Procs -> SUBSET Workers]
    /\ warmups \in [Procs -> SUBSET Workers]
    /\ conn \in [Procs -> [Threads -> [Aliases -> Links \cup {None}]]]

(* ... and the locals of every thread, which it has only inside of         *)
(* get_new_connection.                                                     *)
LocalsOK ==
    /\ pc \in [Procs -> [Threads -> Steps]]
    /\ target \in [Procs -> [Threads -> Aliases \cup {None}]]
    /\ chosen \in [Procs -> [Threads -> PoolIds \cup {None}]]
    /\ \A p \in Procs, t \in Threads :
          /\ target[p][t] = None <=> pc[p][t] = "idle"
          /\ chosen[p][t] = None <=> pc[p][t] # "connect"

TypeOK == SharedOK /\ LocalsOK

(* The double-checked start in ensure_started gives each process at most   *)
(* one heartbeat thread and one warm-up per alias, whatever threads race   *)
(* through it and however often the process was forked.                    *)
AtMostOneHeartbeat == \A p \in Procs :
    /\ \A b1, b2 \in beats[p] : b1.alias = b2.alias => b1 = b2
    /\ \A w1, w2 \in warmups[p] : w1.alias = w2.alias => w1 = w2

(* has() and set() take the lock separately, so two threads may both build *)
(* a QueuePool; still every pooled connection a thread opened comes from   *)
(* the one pool the container holds, else POOL_SIZE and MAX_OVERFLOW would *)
(* bound nothing.                                                          *)
ConnectionsShareThePool == \A p \in Procs, t \in Threads, a \in Aliases :
    LET link == conn[p][t][a]
    IN  (link # None /\ link.opener = p /\ link.pool # None)
            => link.pool = mem[p].pools[a]

(* A thread can have a pooled connection only in a process whose heartbeat *)
(* for the alias runs, or is being started by a thread inside the lock:    *)
(* README "runs as a daemon thread per worker process, started lazily on   *)
(* the first Snowflake connection".                                        *)
ConnectionHasHeartbeat == \A p \in Procs, t \in Threads, a \in Aliases :
    LET link == conn[p][t][a]
    IN  (HeartbeatEnabled /\ link # None /\ link.opener = p /\ link.pool # None)
            => \/ \E b \in beats[p] : b.alias = a
               \/ \E u \in Threads : HoldsHbLock(p, u, "spawn") /\ target[p][u] = a

(* The pool is in the container whenever a thread calls get(), and before  *)
(* the heartbeat or warm-up of its alias can look for it: the ValueError   *)
(* branches of ConnectionPool.get and HeartbeatManager._run are not taken. *)
LookupsSucceed == \A p \in Procs :
    /\ \A t \in Threads : pc[p][t] = "get" => mem[p].pools[target[p][t]] # None
    /\ \A b \in beats[p] \cup warmups[p] : mem[p].pools[b.alias] # None

(* After shutdown() every background thread of the process waits on an     *)
(* event that is set: no reset gave the manager an event its threads do    *)
(* not share, and the process that never registered has no such threads.   *)
ExitStopsBackground == \A p \in Procs :
    status[p] = "exited" =>
        \A b \in beats[p] \cup warmups[p] : b.stop = mem[p].stop /\ mem[p].stopSet

(* With the fork hook, a connection obtained in a process was opened there *)
(* (pool.py: "each worker lazily builds its own connections").             *)
NewConnectionsAreOwn ==
    [][\A p \in Procs, t \in Threads, a \in Aliases :
          (status[p] = "running" /\ conn[p][t][a] = None /\ conn'[p][t][a] # None)
              => conn'[p][t][a].opener = p]_vars

(* A lock that is held while the process runs, also one that was held when *)
(* the process was forked, is released unless the process exits first.     *)
HeldLocksAreReleased == \A p \in Procs :
    /\ (mem[p].poolLock # "free")
          ~> (mem[p].poolLock = "free" \/ status[p] = "exited")
    /\ (mem[p].hbLock # "free")
          ~> (mem[p].hbLock = "free" \/ status[p] = "exited")

(* What the process promises its threads: a pool and a heartbeat of its    *)
(* own, each created once.                                                 *)
Services == INSTANCE ProcessServices WITH
    born <- {p \in Procs : status[p] # "unborn"},
    pool <- [p \in Procs |-> mem[p].pools],
    beating <- [p \in Procs |-> {b.alias : b \in beats[p]}]

ImplementsServices == Services!Spec
=============================================================================
