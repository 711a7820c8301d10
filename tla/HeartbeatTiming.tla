--------------------------- MODULE HeartbeatTiming ---------------------------
(***************************************************************************)
(* The heartbeat loop of one database alias in every worker process, and   *)
(* the warehouse all of them share: HeartbeatManager.record_query, _run    *)
(* and _ping (heartbeat.py), called from TimingCursorWrapper (cursor.py).  *)
(* Time advances in Ticks.  Instead of a growing clock every time stamp is *)
(* kept as its age, which stops growing where the code no longer tells     *)
(* ages apart, so the state space is finite without a bound on the run.    *)
(***************************************************************************)
EXTENDS Integers

CONSTANTS Workers,      \* worker processes
          Interval,     \* max(1, SNOWFLAKE_HEARTBEAT_INTERVAL)
          Idle,         \* SNOWFLAKE_HEARTBEAT_IDLE_THRESHOLD
          AutoSuspend,  \* AUTO_SUSPEND of the warehouse
          MaxPing,      \* longest time _ping takes: waiting for a pooled
                        \* connection, opening it, the statement itself
          MaxFailures   \* pings of a worker that fail one after the other

ASSUME ConstantsOK ==
    /\ Interval \in Nat \ {0} /\ Idle \in Nat /\ AutoSuspend \in Nat \ {0}
    /\ MaxPing \in Nat /\ MaxFailures \in Nat

VARIABLES thread,    \* thread[w]: "none", "waiting" in stop.wait, or "pinging"
          timer,     \* timer[w]: time left to wait, or spent in the ping
          age,       \* age[w]: age of _last_real_query, at most Idle
          recent,    \* recent[w]: time since a real query began in w, at most
                     \* Idle, whatever the code has recorded of it
          fails,     \* fails[w]: pings failed since the last good one
          running,   \* the workers that have a real query executing
          served,    \* the workers whose statements reached the warehouse
                     \* since they last had no recent query
          unused,    \* time since the warehouse executed a statement
          quiet      \* time since a real query began or ended anywhere

vars == <<thread, timer, age, recent, fails, running, served, unused, quiet>>

(* After this long without a real query nothing can still come. *)
Settled == Idle + MaxPing + AutoSuspend

Older(n, cap) == IF n < cap THEN n + 1 ELSE n

Init ==
    /\ thread = [w \in Workers |-> "none"]
    /\ timer = [w \in Workers |-> 0]
    /\ age = [w \in Workers |-> Idle]
    /\ recent = [w \in Workers |-> Idle]
    /\ fails = [w \in Workers |-> 0]
    /\ running = {}
    /\ served = {}
    /\ unused = AutoSuspend
    /\ quiet = Settled

Suspended == unused = AutoSuspend

(* A loop that pings whether or not there was traffic. *)
NeverIdle(w) == FALSE

(* An alias is idle in a worker when no query was recorded for Idle. *)
IsIdle(w) == age[w] >= Idle
-----------------------------------------------------------------------------
(* A cursor that forgets to record the query. *)
NotRecorded(w) == age

(* HeartbeatManager.record_query *)
Recorded(w) == [age EXCEPT ![w] = 0]

(* ensure_started: _last_real_query.setdefault(alias, now), or the stamp a *)
(* forked process has from its parent v; then the thread enters its loop.  *)
Start(w) ==
    /\ thread[w] = "none"
    /\ \/ age' = [age EXCEPT ![w] = 0] /\ quiet' = 0
       \/ /\ \E v \in Workers :
                thread[v] # "none" /\ age' = [age EXCEPT ![w] = age[v]]
          /\ UNCHANGED quiet
    /\ thread' = [thread EXCEPT ![w] = "waiting"]
    /\ timer' = [timer EXCEPT ![w] = Interval]
    /\ fails' = [fails EXCEPT ![w] = 0]
    /\ UNCHANGED <<recent, running, served, unused>>

(* The process ends: shutdown() sets the event, daemon threads die. *)
Stop(w) ==
    /\ thread[w] # "none"
    /\ w \notin running
    /\ thread' = [thread EXCEPT ![w] = "none"]
    /\ timer' = [timer EXCEPT ![w] = 0]
    /\ fails' = [fails EXCEPT ![w] = 0]
    /\ recent' = [recent EXCEPT ![w] = Idle]
    /\ served' = served \ {w}
    /\ UNCHANGED <<age, running, unused, quiet>>

(* TimingCursorWrapper.execute and executemany record the query, then send *)
(* it to the warehouse, which resumes if it was suspended.                 *)
BeginQuery(w) ==
    /\ thread[w] # "none"
    /\ w \notin running
    /\ age' = Recorded(w)
    /\ recent' = [recent EXCEPT ![w] = 0]
    /\ running' = running \cup {w}
    /\ served' = IF Idle > 0 THEN served \cup {w} ELSE served
    /\ unused' = 0
    /\ quiet' = 0
    /\ UNCHANGED <<thread, timer, fails>>

(* The query returns or fails at the warehouse. *)
EndQuery(w) ==
    /\ w \in running
    /\ running' = running \ {w}
    /\ quiet' = 0
    /\ UNCHANGED <<thread, timer, age, recent, fails, served, unused>>

(* The query is recorded, then the connection turns out to be dead. *)
QueryNotSent(w) ==
    /\ thread[w] # "none"
    /\ w \notin running
    /\ age' = Recorded(w)
    /\ recent' = [recent EXCEPT ![w] = 0]
    /\ quiet' = 0
    /\ UNCHANGED <<thread, timer, fails, running, served, unused>>
-----------------------------------------------------------------------------
(* One round of _run: stop.wait(interval) has timed out.                    *)

(* Idle: `continue`, back to waiting. *)
Skip(w) ==
    /\ thread[w] = "waiting" /\ timer[w] = 0
    /\ IsIdle(w)
    /\ timer' = [timer EXCEPT ![w] = Interval]
    /\ UNCHANGED <<thread, age, recent, fails, running, served, unused, quiet>>

Ping(w) ==
    /\ thread[w] = "waiting" /\ timer[w] = 0
    /\ ~IsIdle(w)
    /\ thread' = [thread EXCEPT ![w] = "pinging"]
    /\ UNCHANGED <<timer, age, recent, fails, running, served, unused, quiet>>

(* The statement reached the warehouse; the loop waits a whole interval. *)
PingSucceeds(w) ==
    /\ thread[w] = "pinging"
    /\ thread' = [thread EXCEPT ![w] = "waiting"]
    /\ timer' = [timer EXCEPT ![w] = Interval]
    /\ fails' = [fails EXCEPT ![w] = 0]
    /\ served' = IF recent[w] >= Idle THEN served ELSE served \cup {w}
    /\ unused' = 0
    /\ UNCHANGED <<age, recent, running, quiet>>

(* An exception that ends the thread. *)
ThreadDies == "dead"

(* `except Exception`: the loop goes on. *)
LoopGoesOn == "waiting"

(* Any exception is logged and swallowed in _ping. *)
PingFails(w) ==
    /\ thread[w] = "pinging"
    /\ fails[w] < MaxFailures
    /\ thread' = [thread EXCEPT ![w] = LoopGoesOn]
    /\ timer' = [timer EXCEPT ![w] = Interval]
    /\ fails' = [fails EXCEPT ![w] = @ + 1]
    /\ UNCHANGED <<age, recent, running, served, unused, quiet>>

(* Time passes, as long as no thread has something to do at once. *)
Tick ==
    /\ \A w \in Workers :
          /\ thread[w] = "waiting" => timer[w] > 0
          /\ thread[w] = "pinging" => timer[w] < MaxPing
    /\ timer' = [w \in Workers |->
                    CASE thread[w] = "waiting" -> timer[w] - 1
                      [] thread[w] = "pinging" -> timer[w] + 1
                      [] OTHER -> timer[w]]
    /\ age' = [w \in Workers |-> Older(age[w], Idle)]
    /\ recent' = [w \in Workers |-> Older(recent[w], Idle)]
    /\ served' = {w \in served : recent[w] + 1 < Idle}
    /\ unused' = IF running # {} THEN 0 ELSE Older(unused, AutoSuspend)
    /\ quiet' = IF running # {} THEN 0 ELSE Older(quiet, Settled)
    /\ UNCHANGED <<thread, fails, running>>

LoopStep(w) ==
    Skip(w) \/ Ping(w) \/ PingSucceeds(w) \/ PingFails(w)

Next ==
    \/ Tick
    \/ \E w \in Workers :
          \/ Start(w) \/ Stop(w)
          \/ BeginQuery(w) \/ EndQuery(w) \/ QueryNotSent(w)
          \/ LoopStep(w)

Spec == Init /\ [][Next]_vars

(* Time passes and heartbeat threads run; nobody has to send queries. *)
FairSpec == Spec /\ WF_vars(Tick) /\ \A w \in Workers : WF_vars(LoopStep(w))
-----------------------------------------------------------------------------
TypeOK ==
    /\ thread \in [Workers -> {"none", "waiting", "pinging"}]
    /\ timer \in [Workers -> Nat]
    /\ \A w \in Workers :
          timer[w] <= (IF thread[w] = "pinging" THEN MaxPing ELSE Interval)
    /\ age \in [Workers -> 0..Idle]
    /\ recent \in [Workers -> 0..Idle]
    /\ fails \in [Workers -> 0..MaxFailures]
    /\ running \subseteq Workers
    /\ served \subseteq Workers
    /\ unused \in 0..AutoSuspend
    /\ quiet \in 0..Settled

(* The interval that keeps the warehouse up: also the time the pings take, *)
(* and the pings that fail, have to fit into AUTO_SUSPEND.                 *)
IntervalFits == (MaxFailures + 1) * (Interval + MaxPing) < AutoSuspend

(* While one worker has had a real query within the threshold the          *)
(* warehouse does not suspend, for whatever worker the next query arrives  *)
(* (heartbeat.py: "a single worker pinging keeps it warm for every         *)
(* worker's queries").                                                     *)
ActiveWarehouseStaysWarm ==
    IntervalFits /\ served # {} => ~Suspended

(* The heartbeat never costs an idle site anything: when no real query ran *)
(* anywhere for the threshold, the last ping and AUTO_SUSPEND, the         *)
(* warehouse is suspended.                                                 *)
QuietWarehouseSuspends == quiet = Settled => Suspended

(* A new real query resumes the heartbeat, also of a thread that has been  *)
(* skipping, or whose pings failed.                                        *)
QueryResumesHeartbeat ==
    Interval < Idle =>
        \A w \in Workers :
            (thread[w] # "none" /\ age[w] = 0)
                ~> (thread[w] \in {"pinging", "none"})
=============================================================================
