--------------------------- MODULE ProcessServices ---------------------------
(***************************************************************************)
(* What the lazy, per-process startup of django_snowflake promises, seen   *)
(* from outside: every process builds its own pool for an alias, at most   *)
(* once and never replaces it, starts the heartbeat of the alias only      *)
(* after the pool is there, and a forked process starts with neither.      *)
(* LazyStartup is the detailed specification that implements this one.     *)
(***************************************************************************)
CONSTANTS Procs,     \* the operating-system processes
          Root,      \* the process that exists from the beginning
          Threads,   \* names of the request threads of a process
          Aliases,   \* the aliases of settings.DATABASES
          None       \* absence of a pool

VARIABLES born,      \* the processes that have been started
          pool,      \* pool[p][a]: the pool process p uses for alias a
          beating    \* beating[p]: the aliases whose heartbeat runs in p

vars == <<born, pool, beating>>

(* A pool is named by the process and the thread that built it. *)
PoolIds == [proc : Procs, by : Threads]

Init ==
    /\ born = {Root}
    /\ pool = [p \in Procs |-> [a \in Aliases |-> None]]
    /\ beating = [p \in Procs |-> {}]

OpenPool(p, a) ==
    /\ p \in born
    /\ pool[p][a] = None
    /\ \E t \in Threads :
          pool' = [pool EXCEPT ![p][a] = [proc |-> p, by |-> t]]
    /\ UNCHANGED <<born, beating>>

StartBeating(p, a) ==
    /\ p \in born
    /\ pool[p][a] # None
    /\ a \notin beating[p]
    /\ beating' = [beating EXCEPT ![p] = @ \cup {a}]
    /\ UNCHANGED <<born, pool>>

(* The new process inherits neither pool nor heartbeat. *)
StartProcess(p) ==
    /\ p \notin born
    /\ born' = born \cup {p}
    /\ UNCHANGED <<pool, beating>>

Next == \E p \in Procs :
    \/ StartProcess(p)
    \/ \E a \in Aliases : OpenPool(p, a) \/ StartBeating(p, a)

Spec == Init /\ [][Next]_vars
=============================================================================
