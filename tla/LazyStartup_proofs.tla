------------------------- MODULE LazyStartup_proofs -------------------------
(***************************************************************************)
(* Proofs about LazyStartup, for any number of processes, threads and      *)
(* aliases.  The first part is about pools and the start of heartbeats.    *)
(* The second follows the life of a heartbeat thread: the event it waits   *)
(* on until the process exits, and the connections it runs for.  Both hold *)
(* with and without the fork hook.  The third shows that LazyStartup       *)
(* implements ProcessServices where fork() runs the hook of pool.py.       *)
(***************************************************************************)
EXTENDS LazyStartup, TLAPS

(* Inside get_new_connection a thread has a target, and a pool to connect  *)
(* to when it is about to do so.                                           *)
LEMMA TargetIsAlias ==
    ASSUME TypeOK, NEW p \in Procs, NEW t \in Threads, pc[p][t] # "idle"
    PROVE  target[p][t] \in Aliases
BY DEF TypeOK, LocalsOK

LEMMA ChosenIsPool ==
    ASSUME TypeOK, NEW p \in Procs, NEW t \in Threads, pc[p][t] = "connect"
    PROVE  chosen[p][t] \in PoolIds
BY DEF TypeOK, LocalsOK

(* The locals of a thread that goes to another place in the function ... *)
LEMMA GotoKeepsLocals ==
    ASSUME TypeOK, NEW p \in Procs, NEW t \in Threads,
           NEW step \in Steps \ {"idle", "connect"},
           pc[p][t] \notin {"idle", "connect"},
           Goto(p, t, step), UNCHANGED <<target, chosen>>
    PROVE  LocalsOK'
BY DEF TypeOK, LocalsOK, Goto

(* ... or leaves it. *)
LEMMA LeaveKeepsLocals ==
    ASSUME TypeOK, NEW p \in Procs, NEW t \in Threads, Leave(p, t)
    PROVE  LocalsOK'
BY DEF TypeOK, LocalsOK, Leave, Goto, Steps

(* The connections after one of them was opened or closed. *)
LEMMA ConnUpdate ==
    ASSUME TypeOK, NEW p \in Procs, NEW t \in Threads, NEW a \in Aliases,
           NEW link \in Links \cup {None}
    PROVE  [conn EXCEPT ![p][t][a] = link]
              \in [Procs -> [Threads -> [Aliases -> Links \cup {None}]]]
<1>0. conn \in [Procs -> [Threads -> [Aliases -> Links \cup {None}]]]
  BY DEF TypeOK, SharedOK
<1>1. [conn[p][t] EXCEPT ![a] = link] \in [Aliases -> Links \cup {None}]
  BY <1>0
<1>2. [conn[p] EXCEPT ![t][a] = link] \in [Threads -> [Aliases -> Links \cup {None}]]
  BY <1>0, <1>1
<1> QED BY <1>0, <1>2

(* The memory of one process changes. *)
LEMMA MemUpdate ==
    ASSUME TypeOK, NEW p \in Procs, NEW m \in Memory
    PROVE  [mem EXCEPT ![p] = m] \in [Procs -> Memory]
BY DEF TypeOK, SharedOK

(* What the steps do to the memory of a process. *)
LEMMA PidResetKeepsMemory ==
    ASSUME NEW m \in Memory, NEW p \in Procs
    PROVE  /\ PidReset(m, p) \in Memory
           /\ [PidReset(m, p) EXCEPT !.hbLock = "free"] \in Memory
<1>1. PidReset(m, p) \in Memory BY DEF PidReset, Memory
<1>2. \A n \in Memory : [n EXCEPT !.hbLock = "free"] \in Memory BY DEF Memory
<1> QED BY <1>1, <1>2

LEMMA WithThreadKeepsMemory ==
    ASSUME NEW m \in Memory, NEW a \in Aliases
    PROVE  WithThread(m, a) \in Memory
BY DEF WithThread, Memory

LEMMA ForkKeepsMemory ==
    ASSUME NEW m \in Memory, NEW p \in Procs
    PROVE  Copied(m) \in Memory /\ AfterForkInChild(Copied(m), p) \in Memory
<1>1. Copied(m) \in Memory BY DEF Copied, Memory, Holders
<1>2. \A n \in Memory : AfterForkInChild(n, p) \in Memory
  BY DEF AfterForkInChild, ResetAfterFork, Nothing, Memory, Holders
<1> QED BY <1>1, <1>2

LEMMA SetKeepsMemory ==
    ASSUME NEW m \in Memory, NEW p \in Procs, NEW a \in Aliases, NEW t \in Threads
    PROVE  [m EXCEPT !.pools = Registered(@, a, [proc |-> p, by |-> t]),
                     !.poolLock = "free"] \in Memory
BY DEF Registered, Memory, Holders, PoolIds

LEMMA InitType == Init => TypeOK
<1> SUFFICES ASSUME Init PROVE TypeOK OBVIOUS
<1>1. \A p \in Procs : FreshMemory(p) \in Memory
  BY DEF FreshMemory, Memory, Nothing, Holders
<1> QED
  BY <1>1, ConstantsOK DEF Init, TypeOK, SharedOK, LocalsOK, NoConns, Nothing, Steps

(* Every step keeps the types: one step of the proof per action. *)
LEMMA NextType == TypeOK /\ [Next]_vars => TypeOK'
<1> SUFFICES ASSUME TypeOK, [Next]_vars PROVE TypeOK' OBVIOUS
<1> USE DEF TypeOK
<1>0. \A p \in Procs : mem[p] \in Memory BY DEF SharedOK
<1>1. ASSUME NEW p \in Procs, NEW t \in Threads, NEW a \in Aliases,
             GetNewConnection(p, t, a)
      PROVE  TypeOK'
  <2>1. SharedOK' BY <1>1 DEF GetNewConnection, SharedOK
  <2>2. LocalsOK' BY <1>1, ConstantsOK DEF GetNewConnection, LocalsOK, Goto, Steps
  <2> QED BY <2>1, <2>2
<1>2. ASSUME NEW p \in Procs, NEW t \in Threads, CreateConnection(p, t)
      PROVE  TypeOK'
  <2>1. [opener |-> p, pool |-> None] \in Links BY DEF Links
  <2>2. target[p][t] \in Aliases BY <1>2, TargetIsAlias DEF CreateConnection
  <2>3. conn' \in [Procs -> [Threads -> [Aliases -> Links \cup {None}]]]
    <3>1. CASE UNCHANGED conn BY <3>1 DEF SharedOK
    <3>2. CASE conn' = [conn EXCEPT ![p][t][target[p][t]] = [opener |-> p, pool |-> None]]
      BY <2>1, <2>2, <3>2, ConnUpdate
    <3> QED BY <1>2, <3>1, <3>2 DEF CreateConnection
  <2> QED BY <1>2, <2>3, LeaveKeepsLocals DEF CreateConnection, SharedOK
<1>3. ASSUME NEW p \in Procs, NEW t \in Threads, AcquirePoolLock(p, t)
      PROVE  TypeOK'
  <2>1. [mem[p] EXCEPT !.poolLock = t] \in Memory BY <1>0 DEF Memory, Holders
  <2>2. mem' \in [Procs -> Memory] BY <1>3, <2>1, MemUpdate DEF AcquirePoolLock
  <2> QED BY <1>3, <2>2 DEF AcquirePoolLock, SharedOK, LocalsOK
<1>4. ASSUME NEW p \in Procs, NEW t \in Threads, Has(p, t)
      PROVE  TypeOK'
  <2>1. [mem[p] EXCEPT !.poolLock = "free"] \in Memory BY <1>0 DEF Memory, Holders
  <2>2. mem' \in [Procs -> Memory] BY <1>4, <2>1, MemUpdate DEF Has
  <2>3. LocalsOK' BY <1>4, GotoKeepsLocals DEF Has, HoldsPoolLock, Steps
  <2> QED BY <1>4, <2>2, <2>3 DEF Has, SharedOK
<1>5. ASSUME NEW p \in Procs, NEW t \in Threads, Set(p, t)
      PROVE  TypeOK'
  <2>1. target[p][t] \in Aliases BY <1>5, TargetIsAlias DEF Set, HoldsPoolLock
  <2>2. mem' \in [Procs -> Memory]
    BY <1>0, <1>5, <2>1, SetKeepsMemory, MemUpdate DEF Set
  <2>3. LocalsOK' BY <1>5, GotoKeepsLocals DEF Set, HoldsPoolLock, Steps
  <2> QED BY <1>5, <2>2, <2>3 DEF Set, SharedOK
<1>6. ASSUME NEW p \in Procs, NEW t \in Threads, Get(p, t)
      PROVE  TypeOK'
  <2>1. [mem[p] EXCEPT !.poolLock = "free"] \in Memory BY <1>0 DEF Memory, Holders
  <2>2. mem' \in [Procs -> Memory] BY <1>6, <2>1, MemUpdate DEF Get
  <2>3. LocalsOK'
    <3>1. CASE mem[p].pools[target[p][t]] = None
      BY <1>6, <3>1, LeaveKeepsLocals DEF Get
    <3>2. CASE mem[p].pools[target[p][t]] # None
      <4>1. target[p][t] \in Aliases BY <1>6, TargetIsAlias DEF Get, HoldsPoolLock
      <4>2. mem[p].pools[target[p][t]] \in PoolIds BY <1>0, <3>2, <4>1 DEF Memory
      <4>3. /\ chosen' = [chosen EXCEPT ![p][t] = mem[p].pools[target[p][t]]]
            /\ pc' = [pc EXCEPT ![p][t] = "connect"]
            /\ UNCHANGED target
            /\ pc[p][t] = "get"
        BY <1>6, <3>2 DEF Get, HoldsPoolLock, Goto
      <4> QED BY <4>2, <4>3, ConstantsOK DEF LocalsOK, Steps
    <3> QED BY <3>1, <3>2
  <2> QED BY <1>6, <2>2, <2>3 DEF Get, SharedOK
<1>7. ASSUME NEW p \in Procs, NEW t \in Threads, Connect(p, t)
      PROVE  TypeOK'
  <2>1. chosen[p][t] \in PoolIds BY <1>7, ChosenIsPool DEF Connect
  <2>2. \A o \in {p, chosen[p][t].proc} : [opener |-> o, pool |-> chosen[p][t]] \in Links
    BY <2>1 DEF Links, PoolIds
  <2>3. target[p][t] \in Aliases BY <1>7, TargetIsAlias DEF Connect
  <2>4. conn' \in [Procs -> [Threads -> [Aliases -> Links \cup {None}]]]
    <3>1. CASE UNCHANGED conn BY <3>1 DEF SharedOK
    <3>2. ASSUME NEW o \in {p, chosen[p][t].proc},
                 conn' = [conn EXCEPT ![p][t][target[p][t]] =
                             [opener |-> o, pool |-> chosen[p][t]]]
          PROVE  conn' \in [Procs -> [Threads -> [Aliases -> Links \cup {None}]]]
      BY <2>2, <2>3, <3>2, ConnUpdate
    <3> QED BY <1>7, <3>1, <3>2 DEF Connect
  <2> QED BY <1>7, <2>4, LeaveKeepsLocals DEF Connect, SharedOK
<1>8. ASSUME NEW p \in Procs, NEW t \in Threads, NEW a \in Aliases, Close(p, t, a)
      PROVE  TypeOK'
  <2>1. SharedOK' BY <1>8, ConnUpdate DEF Close, SharedOK
  <2> QED BY <1>8, <2>1 DEF Close, LocalsOK
<1>9. ASSUME NEW p \in Procs, NEW t \in Threads, EnsureStarted(p, t)
      PROVE  TypeOK'
  <2>1. LocalsOK' BY <1>9, GotoKeepsLocals DEF EnsureStarted, Steps
  <2> QED BY <1>9, <2>1 DEF EnsureStarted, SharedOK
<1>10. ASSUME NEW p \in Procs, NEW t \in Threads, AcquireHbLock(p, t)
       PROVE  TypeOK'
  <2>1. [mem[p] EXCEPT !.hbLock = t] \in Memory BY <1>0 DEF Memory
  <2>2. mem' \in [Procs -> Memory] BY <1>10, <2>1, MemUpdate DEF AcquireHbLock
  <2> QED BY <1>10, <2>2 DEF AcquireHbLock, SharedOK, LocalsOK
<1>11. ASSUME NEW p \in Procs, NEW t \in Threads, AlreadyStarted(p, t)
       PROVE  TypeOK'
  <2>1. [PidReset(mem[p], p) EXCEPT !.hbLock = "free"] \in Memory
    BY <1>0, PidResetKeepsMemory
  <2>2. mem' \in [Procs -> Memory] BY <1>11, <2>1, MemUpdate DEF AlreadyStarted
  <2>3. LocalsOK' BY <1>11, GotoKeepsLocals DEF AlreadyStarted, HoldsHbLock, Steps
  <2> QED BY <1>11, <2>2, <2>3 DEF AlreadyStarted, SharedOK
<1>12. ASSUME NEW p \in Procs, NEW t \in Threads, Register(p, t)
       PROVE  TypeOK'
  <2>1. target[p][t] \in Aliases BY <1>12, TargetIsAlias DEF Register, HoldsHbLock
  <2>2. WithThread(PidReset(mem[p], p), target[p][t]) \in Memory
    BY <1>0, <2>1, PidResetKeepsMemory, WithThreadKeepsMemory
  <2>3. mem' \in [Procs -> Memory] BY <1>12, <2>2, MemUpdate DEF Register
  <2>4. LocalsOK' BY <1>12, GotoKeepsLocals DEF Register, HoldsHbLock, Steps
  <2> QED BY <1>12, <2>3, <2>4 DEF Register, SharedOK
<1>13. ASSUME NEW p \in Procs, NEW t \in Threads,
              HoldsHbLock(p, t, "spawn") \/ pc[p][t] = "warm"
       PROVE  Worker(p, t) \in Workers
  <2>1. target[p][t] \in Aliases BY <1>13, TargetIsAlias DEF HoldsHbLock
  <2> QED BY <1>0, <2>1 DEF Worker, Workers, Memory
<1>14. ASSUME NEW p \in Procs, ReleaseHbLock(p)
       PROVE  mem' \in [Procs -> Memory]
  <2>1. [mem[p] EXCEPT !.hbLock = "free"] \in Memory BY <1>0 DEF Memory
  <2> QED BY <1>14, <2>1, MemUpdate DEF ReleaseHbLock
<1>15. ASSUME NEW p \in Procs, NEW t \in Threads, SpawnHeartbeat(p, t)
       PROVE  TypeOK'
  <2>1. LocalsOK' BY <1>15, GotoKeepsLocals DEF SpawnHeartbeat, HoldsHbLock, Steps
  <2> QED BY <1>13, <1>14, <1>15, <2>1 DEF SpawnHeartbeat, SharedOK
<1>16. ASSUME NEW p \in Procs, NEW t \in Threads, SpawnHeartbeatFails(p, t)
       PROVE  TypeOK'
  <2>1. LocalsOK' BY <1>16, LeaveKeepsLocals DEF SpawnHeartbeatFails
  <2> QED BY <1>14, <1>16, <2>1 DEF SpawnHeartbeatFails, SharedOK
<1>17. ASSUME NEW p \in Procs, NEW t \in Threads, SpawnWarmUp(p, t)
       PROVE  TypeOK'
  <2>1. LocalsOK' BY <1>17, GotoKeepsLocals DEF SpawnWarmUp, Steps
  <2> QED BY <1>13, <1>17, <2>1 DEF SpawnWarmUp, SharedOK
<1>18. ASSUME NEW p \in Procs, NEW t \in Threads, SpawnWarmUpFails(p, t)
       PROVE  TypeOK'
  <2>1. LocalsOK' BY <1>18, LeaveKeepsLocals DEF SpawnWarmUpFails
  <2> QED BY <1>18, <2>1 DEF SpawnWarmUpFails, SharedOK
<1>19. ASSUME NEW p \in Procs, BackgroundAcquire(p) \/ BackgroundRelease(p)
       PROVE  TypeOK'
  <2>1. \A h \in {"free", "background"} : [mem[p] EXCEPT !.poolLock = h] \in Memory
    BY <1>0 DEF Memory, Holders
  <2>2. mem' \in [Procs -> Memory]
    BY <1>19, <2>1, MemUpdate DEF BackgroundAcquire, BackgroundRelease
  <2> QED BY <1>19, <2>2 DEF BackgroundAcquire, BackgroundRelease, SharedOK, LocalsOK
<1>20. ASSUME NEW p \in Procs, NEW t \in Threads, NEW c \in Procs, Fork(p, t, c)
       PROVE  TypeOK'
  <2>1. Copied(mem[p]) \in Memory /\ AfterForkInChild(Copied(mem[p]), c) \in Memory
    BY <1>0, ForkKeepsMemory
  <2>3. mem' \in [Procs -> Memory] BY <1>20, <2>1, MemUpdate DEF Fork
  <2>4. [NoConns EXCEPT ![t] = conn[p][t]] \in [Threads -> [Aliases -> Links \cup {None}]]
    BY DEF NoConns, Nothing, SharedOK
  <2> QED BY <1>20, <2>3, <2>4 DEF Fork, SharedOK, LocalsOK
<1>21. ASSUME NEW p \in Procs, Exit(p)
       PROVE  TypeOK'
  <2>1. [mem[p] EXCEPT !.stopSet = mem[p].atexit] \in Memory BY <1>0 DEF Memory
  <2>2. mem' \in [Procs -> Memory] BY <1>21, <2>1, MemUpdate DEF Exit
  <2> QED BY <1>21, <2>2 DEF Exit, SharedOK, LocalsOK
<1>22. CASE UNCHANGED vars BY <1>22 DEF vars, SharedOK, LocalsOK
<1> QED
  BY <1>1, <1>2, <1>3, <1>4, <1>5, <1>6, <1>7, <1>8, <1>9, <1>10, <1>11, <1>12,
     <1>15, <1>16, <1>17, <1>18, <1>19, <1>20, <1>21, <1>22
  DEF Next, ThreadStep, Terminated

(* Types hold in every reachable state. *)
THEOREM TypeCorrect == Spec => []TypeOK
<1> QED BY InitType, NextType, PTL DEF Spec
-----------------------------------------------------------------------------
(* Only running processes have threads inside get_new_connection, and one  *)
(* that was never forked has no background threads either.                 *)
Alive ==
    /\ \A p \in Procs, t \in Threads : pc[p][t] # "idle" => status[p] = "running"
    /\ \A p \in Procs : status[p] = "unborn" => beats[p] = {} /\ warmups[p] = {}

Starting == {"spawn", "warm"}

(* The alias of every background thread, and of every thread about to      *)
(* start one, is registered by the process itself ...                      *)
Registration == \A p \in Procs :
    /\ \A b \in beats[p] \cup warmups[p] :
          mem[p].pid = p /\ b.alias \in mem[p].threads
    /\ \A t \in Threads : pc[p][t] \in Starting =>
          mem[p].pid = p /\ target[p][t] \in mem[p].threads

(* ... and belongs to the one thread that registered it until that has     *)
(* started both.                                                           *)
Ownership == \A p \in Procs, t \in Threads :
    /\ pc[p][t] = "spawn" => \A b \in beats[p] : b.alias # target[p][t]
    /\ pc[p][t] \in Starting =>
          /\ \A w \in warmups[p] : w.alias # target[p][t]
          /\ \A u \in Threads \ {t} :
                pc[p][u] \in Starting => target[p][u] # target[p][t]

HeartbeatInv == Alive /\ Registration /\ Ownership /\ AtMostOneHeartbeat

LEMMA InitHeartbeat == Init => HeartbeatInv
BY ConstantsOK DEF Init, HeartbeatInv, Alive, Registration, Ownership,
   AtMostOneHeartbeat, Starting

(* A step of a thread is a step inside get_new_connection; it stays in its *)
(* process.                                                                *)
LEMMA ThreadStepIsLocal ==
    ASSUME TypeOK, NEW p \in Procs, NEW t \in Threads, ThreadStep(p, t)
    PROVE  /\ pc[p][t] # "idle"
           /\ status' = status
           /\ \A q \in Procs, u \in Threads :
                 (q # p \/ u # t) => pc'[q][u] = pc[q][u] /\ target'[q][u] = target[q][u]
                                     /\ chosen'[q][u] = chosen[q][u]
           /\ \A q \in Procs \ {p} :
                 /\ mem'[q] = mem[q] /\ conn'[q] = conn[q]
                 /\ beats'[q] = beats[q] /\ warmups'[q] = warmups[q]
<1> USE DEF TypeOK, SharedOK, LocalsOK, Goto
<1>1. CASE CreateConnection(p, t)
  BY <1>1 DEF CreateConnection, Leave
<1>2. CASE AcquirePoolLock(p, t)
  BY <1>2 DEF AcquirePoolLock
<1>3. CASE Has(p, t)
  BY <1>3 DEF Has, HoldsPoolLock
<1>4. CASE Set(p, t)
  BY <1>4 DEF Set, HoldsPoolLock
<1>5. CASE Get(p, t)
  BY <1>5 DEF Get, HoldsPoolLock, Leave
<1>6. CASE Connect(p, t)
  BY <1>6 DEF Connect, Leave
<1>7. CASE EnsureStarted(p, t)
  BY <1>7 DEF EnsureStarted
<1>8. CASE AcquireHbLock(p, t)
  BY <1>8 DEF AcquireHbLock
<1>9. CASE AlreadyStarted(p, t)
  BY <1>9 DEF AlreadyStarted, HoldsHbLock
<1>10. CASE Register(p, t)
  BY <1>10 DEF Register, HoldsHbLock
<1>11. CASE SpawnHeartbeat(p, t)
  BY <1>11 DEF SpawnHeartbeat, HoldsHbLock, ReleaseHbLock
<1>12. CASE SpawnHeartbeatFails(p, t)
  BY <1>12 DEF SpawnHeartbeatFails, HoldsHbLock, ReleaseHbLock, Leave
<1>13. CASE SpawnWarmUp(p, t)
  BY <1>13 DEF SpawnWarmUp
<1>14. CASE SpawnWarmUpFails(p, t)
  BY <1>14 DEF SpawnWarmUpFails, Leave
<1> QED
  BY <1>1, <1>2, <1>3, <1>4, <1>5, <1>6, <1>7, <1>8, <1>9, <1>10, <1>11, <1>12,
     <1>13, <1>14 DEF ThreadStep

LEMMA NextAlive == TypeOK /\ Alive /\ [Next]_vars => Alive'
<1> SUFFICES ASSUME TypeOK, Alive, [Next]_vars PROVE Alive' OBVIOUS
<1>1. ASSUME NEW p \in Procs, NEW t \in Threads, ThreadStep(p, t)
      PROVE  Alive'
  <2>1. /\ pc[p][t] # "idle" /\ status' = status
        /\ \A q \in Procs, u \in Threads : (q # p \/ u # t) => pc'[q][u] = pc[q][u]
        /\ \A q \in Procs \ {p} : beats'[q] = beats[q] /\ warmups'[q] = warmups[q]
    BY <1>1, ThreadStepIsLocal
  <2>2. status'[p] = "running" BY <2>1 DEF Alive
  <2> QED BY <2>1, <2>2 DEF Alive
<1> USE DEF TypeOK, SharedOK, LocalsOK, Alive
<1>2. ASSUME NEW p \in Procs, NEW t \in Threads, NEW a \in Aliases,
             GetNewConnection(p, t, a) \/ Close(p, t, a)
      PROVE  Alive'
  <2>1. CASE GetNewConnection(p, t, a) BY <2>1 DEF GetNewConnection, Goto
  <2>2. CASE Close(p, t, a) BY <2>2 DEF Close
  <2> QED BY <1>2, <2>1, <2>2
<1>3. ASSUME NEW p \in Procs, BackgroundAcquire(p) \/ BackgroundRelease(p)
      PROVE  Alive'
  BY <1>3 DEF BackgroundAcquire, BackgroundRelease
<1>4. ASSUME NEW p \in Procs, NEW t \in Threads, NEW c \in Procs, Fork(p, t, c)
      PROVE  Alive'
  BY <1>4 DEF Fork
<1>5. ASSUME NEW p \in Procs, Exit(p)
      PROVE  Alive'
  BY <1>5 DEF Exit
<1>6. CASE UNCHANGED vars BY <1>6 DEF vars
<1> QED BY <1>1, <1>2, <1>3, <1>4, <1>5, <1>6 DEF Next, Terminated

(* A step that registers nothing, starts nothing and brings no thread to   *)
(* the places from which background threads are started.                   *)
Quiet ==
    /\ UNCHANGED <<beats, warmups>>
    /\ \A q \in Procs : mem'[q].pid = mem[q].pid /\ mem'[q].threads = mem[q].threads
    /\ \A q \in Procs, u \in Threads :
          pc'[q][u] \in Starting => pc'[q][u] = pc[q][u] /\ target'[q][u] = target[q][u]

LEMMA QuietKeeps ==
    ASSUME HeartbeatInv, Quiet
    PROVE  Registration' /\ Ownership' /\ AtMostOneHeartbeat'
<1>1. Registration' BY DEF HeartbeatInv, Quiet, Registration
<1>2. Ownership'
  <2> SUFFICES ASSUME NEW p \in Procs, NEW t \in Threads, pc'[p][t] \in Starting
               PROVE  /\ pc'[p][t] = "spawn" =>
                            \A b \in beats'[p] : b.alias # target'[p][t]
                      /\ \A w \in warmups'[p] : w.alias # target'[p][t]
                      /\ \A u \in Threads \ {t} :
                            pc'[p][u] \in Starting => target'[p][u] # target'[p][t]
    BY DEF Ownership, Starting
  <2>1. pc'[p][t] = pc[p][t] /\ target'[p][t] = target[p][t] BY DEF Quiet
  <2> QED BY <2>1 DEF HeartbeatInv, Quiet, Ownership
<1>3. AtMostOneHeartbeat' BY DEF HeartbeatInv, Quiet, AtMostOneHeartbeat
<1> QED BY <1>1, <1>2, <1>3

(* Most steps are quiet. *)
LEMMA QuietProcessSteps ==
    ASSUME TypeOK, NEW p \in Procs,
           BackgroundAcquire(p) \/ BackgroundRelease(p) \/ Exit(p)
    PROVE  Quiet
<1> USE DEF TypeOK, SharedOK, Quiet
<1>0. \A q \in Procs : mem[q] \in Memory OBVIOUS
<1>1. CASE BackgroundAcquire(p) BY <1>0, <1>1 DEF BackgroundAcquire, Memory
<1>2. CASE BackgroundRelease(p) BY <1>0, <1>2 DEF BackgroundRelease, Memory
<1>3. CASE Exit(p) BY <1>0, <1>3 DEF Exit, Memory
<1> QED BY <1>1, <1>2, <1>3

LEMMA QuietSteps ==
    ASSUME TypeOK, NEW p \in Procs, NEW t \in Threads, NEW a \in Aliases,
           \/ GetNewConnection(p, t, a) \/ Close(p, t, a)
           \/ CreateConnection(p, t) \/ AcquirePoolLock(p, t)
           \/ Has(p, t) \/ Set(p, t) \/ Get(p, t) \/ Connect(p, t)
           \/ EnsureStarted(p, t) \/ AcquireHbLock(p, t) \/ AlreadyStarted(p, t)
           \/ SpawnHeartbeatFails(p, t) \/ SpawnWarmUpFails(p, t)
    PROVE  Quiet
<1> USE DEF TypeOK, SharedOK, LocalsOK, Quiet, Starting, Goto
<1>0. \A q \in Procs : mem[q] \in Memory OBVIOUS
<1>1. CASE GetNewConnection(p, t, a) BY <1>1 DEF GetNewConnection
<1>2. CASE Close(p, t, a) BY <1>2 DEF Close
<1>3. CASE CreateConnection(p, t) BY <1>3 DEF CreateConnection, Leave
<1>4. CASE AcquirePoolLock(p, t) BY <1>0, <1>4 DEF AcquirePoolLock, Memory
<1>5. CASE Has(p, t) BY <1>0, <1>5 DEF Has, Memory
<1>6. CASE Set(p, t) BY <1>0, <1>6 DEF Set, Memory
<1>7. CASE Get(p, t)
  <2>1. /\ UNCHANGED <<beats, warmups>>
        /\ mem' = [mem EXCEPT ![p].poolLock = "free"]
    BY <1>7 DEF Get
  <2>2. \A q \in Procs : mem'[q].pid = mem[q].pid /\ mem'[q].threads = mem[q].threads
    BY <1>0, <2>1 DEF Memory
  <2>3. UNCHANGED target \/ target' = [target EXCEPT ![p][t] = None]
    BY <1>7 DEF Get, Leave
  <2>4. pc' = [pc EXCEPT ![p][t] = "idle"] \/ pc' = [pc EXCEPT ![p][t] = "connect"]
    BY <1>7 DEF Get, Leave
  <2>5. \A q \in Procs, u \in Threads :
           pc'[q][u] \in Starting => (q # p \/ u # t) /\ pc'[q][u] = pc[q][u]
    BY <2>4
  <2>6. \A q \in Procs, u \in Threads :
           (q # p \/ u # t) => target'[q][u] = target[q][u]
    BY <2>3
  <2> QED BY <2>1, <2>2, <2>5, <2>6
<1>8. CASE Connect(p, t) BY <1>8 DEF Connect, Leave
<1>9. CASE EnsureStarted(p, t) BY <1>9 DEF EnsureStarted
<1>10. CASE AcquireHbLock(p, t) BY <1>0, <1>10 DEF AcquireHbLock, Memory
<1>11. CASE AlreadyStarted(p, t)
  <2>1. mem[p].pid = p BY <1>11 DEF AlreadyStarted, IsRegistered, PidReset
  <2>2. PidReset(mem[p], p) = mem[p] BY <2>1 DEF PidReset
  <2> QED BY <1>0, <1>11, <2>2 DEF AlreadyStarted, Memory
<1>12. CASE SpawnHeartbeatFails(p, t)
  BY <1>0, <1>12 DEF SpawnHeartbeatFails, ReleaseHbLock, Leave, Memory
<1>13. CASE SpawnWarmUpFails(p, t) BY <1>13 DEF SpawnWarmUpFails, Leave
<1> QED
  BY <1>1, <1>2, <1>3, <1>4, <1>5, <1>6, <1>7, <1>8, <1>9, <1>10, <1>11, <1>12,
     <1>13

LEMMA RegisterKeeps ==
    ASSUME TypeOK, HeartbeatInv, NEW p \in Procs, NEW t \in Threads, Register(p, t)
    PROVE  Registration' /\ Ownership' /\ AtMostOneHeartbeat'
<1> DEFINE a == target[p][t]
<1>1. /\ a \in Aliases
      /\ pc[p][t] = "start"
      /\ a \notin PidReset(mem[p], p).threads
      /\ mem' = [mem EXCEPT ![p] = WithThread(PidReset(@, p), a)]
      /\ pc' = [pc EXCEPT ![p][t] = "spawn"]
      /\ UNCHANGED <<beats, warmups, target>>
  BY TargetIsAlias DEF Register, HoldsHbLock, IsRegistered, Goto
<1>2. /\ mem'[p].pid = p
      /\ mem'[p].threads = PidReset(mem[p], p).threads \cup {a}
      /\ \A q \in Procs \ {p} : mem'[q] = mem[q]
  <2>1. mem[p] \in Memory /\ mem'[p] = WithThread(PidReset(mem[p], p), a)
    BY <1>1 DEF TypeOK, SharedOK
  <2>2. PidReset(mem[p], p) \in Memory /\ PidReset(mem[p], p).pid = p
    BY <2>1, PidResetKeepsMemory DEF PidReset, Memory
  <2> QED BY <1>1, <2>1, <2>2 DEF WithThread, Memory, TypeOK, SharedOK
<1>3. /\ mem[p].pid = p => PidReset(mem[p], p).threads = mem[p].threads
      /\ mem[p].pid # p => beats[p] = {} /\ warmups[p] = {}
                           /\ \A u \in Threads : pc[p][u] \notin Starting
  <2>1. beats[p] \in SUBSET Workers /\ warmups[p] \in SUBSET Workers
    BY DEF TypeOK, SharedOK
  <2> QED BY <2>1 DEF PidReset, HeartbeatInv, Registration
<1>4. /\ pc'[p][t] = "spawn"
      /\ \A q \in Procs, u \in Threads : (q # p \/ u # t) => pc'[q][u] = pc[q][u]
  BY <1>1 DEF TypeOK, LocalsOK
<1>5. Registration' BY <1>1, <1>2, <1>3, <1>4 DEF HeartbeatInv, Registration
<1>6. /\ \A b \in beats[p] \cup warmups[p] : b.alias # a
      /\ \A u \in Threads \ {t} : pc[p][u] \in Starting => target[p][u] # a
  BY <1>1, <1>3 DEF HeartbeatInv, Registration
<1>7. Ownership' BY <1>1, <1>4, <1>6 DEF HeartbeatInv, Ownership, Starting
<1>8. AtMostOneHeartbeat' BY <1>1 DEF HeartbeatInv, AtMostOneHeartbeat
<1> QED BY <1>5, <1>7, <1>8

(* The two steps that start a background thread. *)
LEMMA SpawnKeeps ==
    ASSUME TypeOK, HeartbeatInv, NEW p \in Procs, NEW t \in Threads,
           SpawnHeartbeat(p, t) \/ SpawnWarmUp(p, t)
    PROVE  Registration' /\ Ownership' /\ AtMostOneHeartbeat'
<1> DEFINE a == target[p][t]
<1> DEFINE b == Worker(p, t)
<1>1. /\ pc[p][t] \in Starting /\ b.alias = a
      /\ UNCHANGED target
      /\ \A q \in Procs : mem'[q].pid = mem[q].pid /\ mem'[q].threads = mem[q].threads
      /\ \A q \in Procs, u \in Threads : (q # p \/ u # t) => pc'[q][u] = pc[q][u]
      /\ \A q \in Procs \ {p} : beats'[q] = beats[q] /\ warmups'[q] = warmups[q]
  <2>0. \A q \in Procs : mem[q] \in Memory BY DEF TypeOK, SharedOK
  <2>1. CASE SpawnHeartbeat(p, t)
    BY <2>0, <2>1 DEF SpawnHeartbeat, HoldsHbLock, ReleaseHbLock, Worker, Starting,
                      Goto, TypeOK, SharedOK, LocalsOK, Memory
  <2>2. CASE SpawnWarmUp(p, t)
    BY <2>2 DEF SpawnWarmUp, Worker, Starting, Goto, TypeOK, SharedOK, LocalsOK
  <2> QED BY <2>1, <2>2
<1>2. \/ /\ pc[p][t] = "spawn" /\ pc'[p][t] = "warm"
         /\ beats'[p] = beats[p] \cup {b} /\ warmups'[p] = warmups[p]
      \/ /\ pc[p][t] = "warm" /\ pc'[p][t] = "get"
         /\ beats'[p] = beats[p] /\ warmups'[p] = warmups[p] \cup {b}
  <2>1. CASE SpawnHeartbeat(p, t)
    BY <2>1 DEF SpawnHeartbeat, HoldsHbLock, Goto, TypeOK, SharedOK, LocalsOK
  <2>2. CASE SpawnWarmUp(p, t)
    BY <2>2 DEF SpawnWarmUp, Goto, TypeOK, SharedOK, LocalsOK
  <2> QED BY <2>1, <2>2
<1>3. mem[p].pid = p /\ a \in mem[p].threads
  BY <1>1 DEF HeartbeatInv, Registration
<1>4. /\ pc[p][t] = "spawn" => \A c \in beats[p] : c.alias # a
      /\ \A w \in warmups[p] : w.alias # a
      /\ \A u \in Threads \ {t} : pc[p][u] \in Starting => target[p][u] # a
  BY <1>1 DEF HeartbeatInv, Ownership
<1>5. Registration' BY <1>1, <1>2, <1>3 DEF HeartbeatInv, Registration, Starting
<1>6. Ownership' BY <1>1, <1>2, <1>4 DEF HeartbeatInv, Ownership, Starting
<1>7. AtMostOneHeartbeat' BY <1>1, <1>2, <1>4 DEF HeartbeatInv, AtMostOneHeartbeat
<1> QED BY <1>5, <1>6, <1>7

(* The child has its memory from the parent, but no threads that start     *)
(* anything and no background threads.                                     *)
LEMMA ForkKeeps ==
    ASSUME TypeOK, HeartbeatInv, NEW p \in Procs, NEW t \in Threads, NEW c \in Procs,
           Fork(p, t, c)
    PROVE  Registration' /\ Ownership' /\ AtMostOneHeartbeat'
<1>1. /\ beats[c] = {} /\ warmups[c] = {}
      /\ \A u \in Threads : pc[c][u] \notin Starting
  BY DEF Fork, HeartbeatInv, Alive, Starting
<1>2. /\ UNCHANGED <<beats, warmups, pc, target>>
      /\ \A q \in Procs \ {c} : mem'[q] = mem[q]
  BY DEF Fork, TypeOK, SharedOK
<1>3. Registration' BY <1>1, <1>2 DEF HeartbeatInv, Registration
<1>4. Ownership' BY <1>2 DEF HeartbeatInv, Ownership
<1>5. AtMostOneHeartbeat' BY <1>2 DEF HeartbeatInv, AtMostOneHeartbeat
<1> QED BY <1>3, <1>4, <1>5

LEMMA NextHeartbeat == TypeOK /\ HeartbeatInv /\ [Next]_vars => HeartbeatInv'
<1> SUFFICES ASSUME TypeOK, HeartbeatInv, [Next]_vars PROVE HeartbeatInv' OBVIOUS
<1>1. Alive' BY NextAlive DEF HeartbeatInv
<1>2. ASSUME NEW p \in Procs, NEW t \in Threads, ThreadStep(p, t)
      PROVE  Registration' /\ Ownership' /\ AtMostOneHeartbeat'
  <2>1. CASE Register(p, t) BY <2>1, RegisterKeeps
  <2>2. CASE SpawnHeartbeat(p, t) \/ SpawnWarmUp(p, t) BY <2>2, SpawnKeeps
  <2>3. CASE ~Register(p, t) /\ ~SpawnHeartbeat(p, t) /\ ~SpawnWarmUp(p, t)
    <3>1. pc[p][t] # "idle" BY <1>2, ThreadStepIsLocal
    <3>2. target[p][t] \in Aliases BY <3>1, TargetIsAlias
    <3>3. Quiet BY <1>2, <2>3, <3>2, QuietSteps DEF ThreadStep
    <3> QED BY <3>3, QuietKeeps
  <2> QED BY <2>1, <2>2, <2>3
<1>3. ASSUME NEW p \in Procs, NEW t \in Threads, NEW a \in Aliases,
             GetNewConnection(p, t, a) \/ Close(p, t, a)
      PROVE  Registration' /\ Ownership' /\ AtMostOneHeartbeat'
  <2>1. Quiet BY <1>3, QuietSteps
  <2> QED BY <2>1, QuietKeeps
<1>4. ASSUME NEW p \in Procs, BackgroundAcquire(p) \/ BackgroundRelease(p) \/ Exit(p)
      PROVE  Registration' /\ Ownership' /\ AtMostOneHeartbeat'
  <2>1. Quiet BY <1>4, QuietProcessSteps
  <2> QED BY <2>1, QuietKeeps
<1>5. ASSUME NEW p \in Procs, NEW t \in Threads, NEW c \in Procs, Fork(p, t, c)
      PROVE  Registration' /\ Ownership' /\ AtMostOneHeartbeat'
  BY <1>5, ForkKeeps
<1>6. ASSUME UNCHANGED vars
      PROVE  Registration' /\ Ownership' /\ AtMostOneHeartbeat'
  <2>1. Quiet BY <1>6 DEF vars, Quiet
  <2> QED BY <2>1, QuietKeeps
<1>7. Registration' /\ Ownership' /\ AtMostOneHeartbeat'
  BY <1>2, <1>3, <1>4, <1>5, <1>6 DEF Next, Terminated
<1> QED BY <1>1, <1>7 DEF HeartbeatInv

(* AtMostOneHeartbeat in every reachable state, however many threads and   *)
(* processes there are and whether or not fork() runs the hook: the second *)
(* test of _threads under the lock is enough, because a process trusts its *)
(* _threads only under its own pid.                                        *)
THEOREM OneHeartbeatPerAlias == Spec => []AtMostOneHeartbeat
<1>1. HeartbeatInv => AtMostOneHeartbeat BY DEF HeartbeatInv
<1> QED
  BY <1>1, TypeCorrect, InitHeartbeat, NextHeartbeat, PTL DEF Spec

(* The pool a thread uses is in the container from the moment has() or     *)
(* set() told so, and processes name as their owners those that exist.     *)
Looking == {"ensure", "start", "spawn", "warm", "get"}

Pooled == \A p \in Procs, t \in Threads :
    /\ pc[p][t] \in Looking => mem[p].pools[target[p][t]] # None
    /\ pc[p][t] = "connect" => chosen[p][t] = mem[p].pools[target[p][t]]

Owners == \A p \in Procs :
    /\ \A a \in Aliases : mem[p].pools[a] # None =>
          status[mem[p].pools[a].proc] # "unborn"
    /\ \A t \in Threads, a \in Aliases : conn[p][t][a] # None =>
          status[conn[p][t][a].opener] # "unborn"

PoolInv == Pooled /\ Owners /\ LookupsSucceed /\ ConnectionsShareThePool

LEMMA InitPool == Init => PoolInv
<1> SUFFICES ASSUME Init PROVE PoolInv OBVIOUS
<1>1. \A p \in Procs, a \in Aliases : mem[p].pools[a] = None
  BY DEF Init, FreshMemory, Nothing
<1>2. \A p \in Procs, t \in Threads, a \in Aliases : conn[p][t][a] = None
  BY DEF Init, NoConns, Nothing
<1> QED
  BY <1>1, <1>2 DEF Init, PoolInv, Pooled, Owners, LookupsSucceed,
     ConnectionsShareThePool, Looking

(* A thread takes no pool out of the container: it may add one of its own. *)
LEMMA PoolsGrow ==
    ASSUME TypeOK, NEW p \in Procs, NEW t \in Threads, ThreadStep(p, t),
           NEW a \in Aliases
    PROVE  \/ mem'[p].pools[a] = mem[p].pools[a]
           \/ mem[p].pools[a] = None /\ mem'[p].pools[a] = [proc |-> p, by |-> t]
<1>0. mem \in [Procs -> Memory] /\ mem[p] \in Memory BY DEF TypeOK, SharedOK
<1>1. CASE CreateConnection(p, t) BY <1>1 DEF CreateConnection
<1>2. CASE AcquirePoolLock(p, t) BY <1>0, <1>2 DEF AcquirePoolLock, Memory
<1>3. CASE Has(p, t) BY <1>0, <1>3 DEF Has, Memory
<1>4. CASE Set(p, t)
  <2>1. mem'[p].pools = Registered(mem[p].pools, target[p][t], [proc |-> p, by |-> t])
    BY <1>0, <1>4 DEF Set, Memory
  <2> QED BY <1>0, <2>1 DEF Registered, Memory
<1>5. CASE Get(p, t) BY <1>0, <1>5 DEF Get, Memory
<1>6. CASE Connect(p, t) BY <1>6 DEF Connect
<1>7. CASE EnsureStarted(p, t) BY <1>7 DEF EnsureStarted
<1>8. CASE AcquireHbLock(p, t) BY <1>0, <1>8 DEF AcquireHbLock, Memory
<1>9. CASE AlreadyStarted(p, t)
  <2>1. mem'[p] = [PidReset(mem[p], p) EXCEPT !.hbLock = "free"]
    BY <1>0, <1>9 DEF AlreadyStarted
  <2> QED BY <1>0, <2>1 DEF PidReset, Memory
<1>10. CASE Register(p, t)
  <2>1. mem'[p] = WithThread(PidReset(mem[p], p), target[p][t])
    BY <1>0, <1>10 DEF Register
  <2> QED BY <1>0, <2>1 DEF WithThread, PidReset, Memory
<1>11. CASE SpawnHeartbeat(p, t)
  BY <1>0, <1>11 DEF SpawnHeartbeat, ReleaseHbLock, Memory
<1>12. CASE SpawnHeartbeatFails(p, t)
  BY <1>0, <1>12 DEF SpawnHeartbeatFails, ReleaseHbLock, Memory
<1>13. CASE SpawnWarmUp(p, t) BY <1>13 DEF SpawnWarmUp
<1>14. CASE SpawnWarmUpFails(p, t) BY <1>14 DEF SpawnWarmUpFails
<1> QED
  BY <1>1, <1>2, <1>3, <1>4, <1>5, <1>6, <1>7, <1>8, <1>9, <1>10, <1>11, <1>12,
     <1>13, <1>14 DEF ThreadStep

(* The thread that takes the step ... *)
LEMMA StepIsPooled ==
    ASSUME TypeOK, Pooled, NEW p \in Procs, NEW t \in Threads, ThreadStep(p, t)
    PROVE  /\ pc'[p][t] \in Looking => mem'[p].pools[target'[p][t]] # None
           /\ pc'[p][t] = "connect" => chosen'[p][t] = mem'[p].pools[target'[p][t]]
<1> USE DEF Goto, Looking
<1>0. /\ mem \in [Procs -> Memory] /\ mem[p] \in Memory
      /\ pc \in [Procs -> [Threads -> Steps]]
      /\ target \in [Procs -> [Threads -> Aliases \cup {None}]]
      /\ chosen \in [Procs -> [Threads -> PoolIds \cup {None}]]
  BY DEF TypeOK, SharedOK, LocalsOK
<1>a. target[p][t] \in Aliases BY ThreadStepIsLocal, TargetIsAlias
<1>1. CASE CreateConnection(p, t) \/ Connect(p, t) \/ SpawnHeartbeatFails(p, t)
           \/ SpawnWarmUpFails(p, t)
  <2>1. pc'[p][t] = "idle"
    BY <1>0, <1>1 DEF CreateConnection, Connect, SpawnHeartbeatFails,
                      SpawnWarmUpFails, Leave
  <2> QED BY <2>1
<1>2. CASE AcquirePoolLock(p, t) \/ AcquireHbLock(p, t)
  <2>1. mem'[p].pools = mem[p].pools /\ UNCHANGED <<pc, target, chosen>>
    BY <1>0, <1>2 DEF AcquirePoolLock, AcquireHbLock, Memory
  <2> QED BY <2>1 DEF Pooled
<1>3. CASE Has(p, t)
  <2>1. mem'[p].pools = mem[p].pools /\ UNCHANGED target
    BY <1>0, <1>3 DEF Has, Memory
  <2>2. pc'[p][t] = IF mem[p].pools[target[p][t]] # None THEN "ensure" ELSE "set"
    BY <1>0, <1>3 DEF Has, Contains
  <2> QED BY <2>1, <2>2
<1>4. CASE Set(p, t)
  <2>1. /\ mem'[p].pools = Registered(mem[p].pools, target[p][t], [proc |-> p, by |-> t])
        /\ pc'[p][t] = "ensure" /\ UNCHANGED target
    BY <1>0, <1>4 DEF Set, Memory
  <2>2. [proc |-> p, by |-> t] # None BY ConstantsOK DEF PoolIds
  <2> QED BY <1>0, <1>a, <2>1, <2>2 DEF Registered, Memory
<1>5. CASE Get(p, t)
  <2>1. mem'[p].pools = mem[p].pools BY <1>0, <1>5 DEF Get, Memory
  <2>2. CASE mem[p].pools[target[p][t]] = None
    BY <1>0, <1>5, <2>2 DEF Get, Leave
  <2>3. CASE mem[p].pools[target[p][t]] # None
    BY <1>0, <1>5, <2>1, <2>3 DEF Get
  <2> QED BY <2>2, <2>3
<1>6. CASE EnsureStarted(p, t) \/ SpawnWarmUp(p, t)
  <2>1. pc[p][t] \in Looking /\ pc'[p][t] # "connect" /\ UNCHANGED <<mem, target>>
    BY <1>0, <1>6 DEF EnsureStarted, SpawnWarmUp
  <2> QED BY <2>1 DEF Pooled
<1>7. CASE AlreadyStarted(p, t) \/ Register(p, t) \/ SpawnHeartbeat(p, t)
  <2>1. pc[p][t] \in Looking /\ pc'[p][t] # "connect" /\ UNCHANGED target
    BY <1>0, <1>7 DEF AlreadyStarted, Register, SpawnHeartbeat, HoldsHbLock
  <2>2. mem[p].pools[target[p][t]] # None BY <2>1 DEF Pooled
  <2>3. mem'[p].pools[target[p][t]] # None BY <1>a, <2>2, PoolsGrow
  <2> QED BY <2>1, <2>3
<1> QED
  BY <1>1, <1>2, <1>3, <1>4, <1>5, <1>6, <1>7 DEF ThreadStep

(* ... opens a connection with the pool it has read from the container, or *)
(* without a pool.                                                         *)
LEMMA StepConnects ==
    ASSUME TypeOK, Pooled, NEW p \in Procs, NEW t \in Threads, ThreadStep(p, t),
           NEW u \in Threads, NEW a \in Aliases
    PROVE  \/ conn'[p][u][a] = conn[p][u][a]
           \/ conn'[p][u][a] = [opener |-> p, pool |-> None]
           \/ /\ mem[p].pools[a] # None
              /\ \E o \in {p, mem[p].pools[a].proc} :
                    conn'[p][u][a] = [opener |-> o, pool |-> mem[p].pools[a]]
<1>0. /\ conn \in [Procs -> [Threads -> [Aliases -> Links \cup {None}]]]
      /\ target[p][t] \in Aliases
  BY ThreadStepIsLocal, TargetIsAlias DEF TypeOK, SharedOK
<1>1. CASE CreateConnection(p, t) BY <1>0, <1>1 DEF CreateConnection
<1>2. CASE Connect(p, t)
  <2>1. pc[p][t] = "connect" BY <1>2 DEF Connect
  <2>2. chosen[p][t] = mem[p].pools[target[p][t]] /\ chosen[p][t] # None
    BY <2>1 DEF Pooled, TypeOK, LocalsOK
  <2>3. CASE UNCHANGED conn BY <2>3
  <2>4. ASSUME NEW o \in {p, chosen[p][t].proc},
               conn' = [conn EXCEPT ![p][t][target[p][t]] =
                           [opener |-> o, pool |-> chosen[p][t]]]
        PROVE  \/ conn'[p][u][a] = conn[p][u][a]
               \/ /\ mem[p].pools[a] # None
                  /\ \E i \in {p, mem[p].pools[a].proc} :
                        conn'[p][u][a] = [opener |-> i, pool |-> mem[p].pools[a]]
    <3>1. CASE u = t /\ a = target[p][t]
      <4>1. conn'[p][u][a] = [opener |-> o, pool |-> chosen[p][t]]
        BY <1>0, <2>4, <3>1
      <4> QED BY <2>2, <3>1, <4>1
    <3>2. CASE ~(u = t /\ a = target[p][t]) BY <1>0, <2>4, <3>2
    <3> QED BY <3>1, <3>2
  <2> QED BY <1>2, <2>3, <2>4 DEF Connect
<1>3. CASE ~CreateConnection(p, t) /\ ~Connect(p, t)
  BY <1>3 DEF ThreadStep, AcquirePoolLock, Has, Set, Get, EnsureStarted,
     AcquireHbLock, AlreadyStarted, Register, SpawnHeartbeat, SpawnHeartbeatFails,
     SpawnWarmUp, SpawnWarmUpFails
<1> QED BY <1>1, <1>2, <1>3

(* ... and starts background threads for the alias it is connecting to.    *)
LEMMA StepStarts ==
    ASSUME TypeOK, NEW p \in Procs, NEW t \in Threads, ThreadStep(p, t),
           NEW b \in beats'[p] \cup warmups'[p]
    PROVE  \/ b \in beats[p] \cup warmups[p]
           \/ b.alias = target[p][t] /\ pc[p][t] \in Looking
<1>0. beats \in [Procs -> SUBSET Workers] /\ warmups \in [Procs -> SUBSET Workers]
  BY DEF TypeOK, SharedOK
<1>1. CASE SpawnHeartbeat(p, t)
  BY <1>0, <1>1 DEF SpawnHeartbeat, HoldsHbLock, Worker, Looking
<1>2. CASE SpawnWarmUp(p, t)
  BY <1>0, <1>2 DEF SpawnWarmUp, Worker, Looking
<1>3. CASE ~SpawnHeartbeat(p, t) /\ ~SpawnWarmUp(p, t)
  BY <1>3 DEF ThreadStep, CreateConnection, Connect, AcquirePoolLock, Has, Set, Get,
     EnsureStarted, AcquireHbLock, AlreadyStarted, Register, SpawnHeartbeatFails,
     SpawnWarmUpFails
<1> QED BY <1>1, <1>2, <1>3

LEMMA ThreadKeepsPool ==
    ASSUME TypeOK, Alive, PoolInv, NEW p \in Procs, NEW t \in Threads,
           ThreadStep(p, t)
    PROVE  PoolInv'
<1>1. /\ pc[p][t] # "idle" /\ status' = status /\ status[p] = "running"
      /\ \A q \in Procs, u \in Threads :
            (q # p \/ u # t) => pc'[q][u] = pc[q][u] /\ target'[q][u] = target[q][u]
                                /\ chosen'[q][u] = chosen[q][u]
      /\ \A q \in Procs \ {p} :
            /\ mem'[q] = mem[q] /\ conn'[q] = conn[q]
            /\ beats'[q] = beats[q] /\ warmups'[q] = warmups[q]
  BY ThreadStepIsLocal DEF Alive
<1>2. \A a \in Aliases :
         \/ mem'[p].pools[a] = mem[p].pools[a]
         \/ mem[p].pools[a] = None /\ mem'[p].pools[a] = [proc |-> p, by |-> t]
  BY PoolsGrow
<1>3. Pooled'
  <2> SUFFICES ASSUME NEW q \in Procs, NEW u \in Threads
               PROVE  /\ pc'[q][u] \in Looking => mem'[q].pools[target'[q][u]] # None
                      /\ pc'[q][u] = "connect" =>
                            chosen'[q][u] = mem'[q].pools[target'[q][u]]
    BY DEF Pooled
  <2>1. CASE q = p /\ u = t BY <2>1, StepIsPooled DEF PoolInv
  <2>2. CASE q = p /\ u # t
    <3>1. /\ pc'[q][u] = pc[q][u] /\ target'[q][u] = target[q][u]
          /\ chosen'[q][u] = chosen[q][u]
      BY <1>1, <2>2
    <3>2. pc[q][u] \in Looking \cup {"connect"} => target[q][u] \in Aliases
      BY TargetIsAlias DEF Looking
    <3>3. pc[q][u] = "connect" => chosen[q][u] # None BY DEF TypeOK, LocalsOK
    <3> QED BY <1>2, <2>2, <3>1, <3>2, <3>3 DEF PoolInv, Pooled
  <2>3. CASE q # p BY <1>1, <2>3 DEF PoolInv, Pooled
  <2> QED BY <2>1, <2>2, <2>3
<1>4. \A q \in Procs, u \in Threads, a \in Aliases :
         \/ conn'[q][u][a] = conn[q][u][a]
         \/ q = p /\ conn'[p][u][a] = [opener |-> p, pool |-> None]
         \/ /\ q = p /\ mem[p].pools[a] # None
            /\ \E o \in {p, mem[p].pools[a].proc} :
                  conn'[p][u][a] = [opener |-> o, pool |-> mem[p].pools[a]]
  BY <1>1, StepConnects DEF PoolInv
<1>5. Owners'
  <2>1. ASSUME NEW q \in Procs, NEW a \in Aliases, mem'[q].pools[a] # None
        PROVE  status[mem'[q].pools[a].proc] # "unborn"
    BY <1>1, <1>2, <2>1 DEF PoolInv, Owners
  <2>2. ASSUME NEW q \in Procs, NEW u \in Threads, NEW a \in Aliases,
               conn'[q][u][a] # None
        PROVE  status[conn'[q][u][a].opener] # "unborn"
    <3>1. mem[p].pools[a] # None => status[mem[p].pools[a].proc] # "unborn"
      BY DEF PoolInv, Owners
    <3>2. CASE conn'[q][u][a] = conn[q][u][a] BY <2>2, <3>2 DEF PoolInv, Owners
    <3>3. ASSUME q = p, conn'[q][u][a] = [opener |-> p, pool |-> None]
          PROVE  status[conn'[q][u][a].opener] # "unborn"
      BY <1>1, <3>3
    <3>4. ASSUME mem[p].pools[a] # None, NEW o \in {p, mem[p].pools[a].proc},
                 conn'[q][u][a] = [opener |-> o, pool |-> mem[p].pools[a]]
          PROVE  status[conn'[q][u][a].opener] # "unborn"
      BY <1>1, <3>1, <3>4
    <3> QED BY <1>4, <3>2, <3>3, <3>4
  <2> QED BY <1>1, <2>1, <2>2 DEF Owners
<1>6. LookupsSucceed'
  <2>1. \A q \in Procs, u \in Threads : pc'[q][u] = "get" =>
           mem'[q].pools[target'[q][u]] # None
    BY <1>3 DEF Pooled, Looking
  <2>2. ASSUME NEW q \in Procs, NEW b \in beats'[q] \cup warmups'[q]
        PROVE  mem'[q].pools[b.alias] # None
    <3>1. CASE q # p BY <1>1, <2>2, <3>1 DEF PoolInv, LookupsSucceed
    <3>2. CASE q = p
      <4>1. target[p][t] \in Aliases BY <1>1, TargetIsAlias
      <4>2. b.alias \in Aliases /\ mem[p].pools[b.alias] # None
        <5>1. CASE b \in beats[p] \cup warmups[p]
          BY <5>1 DEF PoolInv, LookupsSucceed, TypeOK, SharedOK, Workers
        <5>2. CASE b.alias = target[p][t] /\ pc[p][t] \in Looking
          BY <4>1, <5>2 DEF PoolInv, Pooled
        <5> QED BY <2>2, <3>2, <5>1, <5>2, StepStarts
      <4> QED BY <1>2, <3>2, <4>2
    <3> QED BY <3>1, <3>2
  <2> QED BY <2>1, <2>2 DEF LookupsSucceed
<1>7. ConnectionsShareThePool'
  <2> SUFFICES ASSUME NEW q \in Procs, NEW u \in Threads, NEW a \in Aliases,
                      conn'[q][u][a] # None, conn'[q][u][a].opener = q,
                      conn'[q][u][a].pool # None
               PROVE  conn'[q][u][a].pool = mem'[q].pools[a]
    BY DEF ConnectionsShareThePool
  <2>1. conn'[q][u][a].pool = mem[q].pools[a]
    <3>1. CASE conn'[q][u][a] = conn[q][u][a]
      BY <3>1 DEF PoolInv, ConnectionsShareThePool
    <3>2. ASSUME q = p, conn'[q][u][a] = [opener |-> p, pool |-> None]
          PROVE  FALSE
      BY <3>2
    <3>3. ASSUME q = p, NEW o \in {p, mem[p].pools[a].proc},
                 conn'[q][u][a] = [opener |-> o, pool |-> mem[p].pools[a]]
          PROVE  conn'[q][u][a].pool = mem[q].pools[a]
      BY <3>3
    <3> QED BY <1>4, <3>1, <3>2, <3>3
  <2>2. mem'[q].pools[a] = mem[q].pools[a] BY <1>1, <1>2, <2>1
  <2> QED BY <2>1, <2>2
<1> QED BY <1>3, <1>5, <1>6, <1>7 DEF PoolInv

(* The steps that leave the containers, the background threads and the     *)
(* threads inside get_new_connection alone.                                *)
LEMMA OutsideKeepsPool ==
    ASSUME TypeOK, PoolInv,
           \A q \in Procs : mem'[q].pools = mem[q].pools,
           \A q \in Procs : status[q] # "unborn" => status'[q] # "unborn",
           UNCHANGED <<beats, warmups, chosen>>,
           \A q \in Procs, u \in Threads :
              pc'[q][u] \in Looking \cup {"connect"} =>
                 pc'[q][u] = pc[q][u] /\ target'[q][u] = target[q][u],
           \A q \in Procs, u \in Threads, a \in Aliases :
              conn'[q][u][a] \in {conn[q][u][a], None}
    PROVE  PoolInv'
<1>1. Pooled' BY DEF PoolInv, Pooled
<1>2. Owners'
  <2>1. mem \in [Procs -> Memory] /\ conn \in [Procs -> [Threads -> [Aliases -> Links \cup {None}]]]
    BY DEF TypeOK, SharedOK
  <2>2. ASSUME NEW q \in Procs, NEW a \in Aliases, mem'[q].pools[a] # None
        PROVE  status'[mem'[q].pools[a].proc] # "unborn"
    <3>1. mem'[q].pools[a] = mem[q].pools[a] OBVIOUS
    <3>2. mem[q].pools \in [Aliases -> PoolIds \cup {None}] BY <2>1 DEF Memory
    <3>3. mem[q].pools[a].proc \in Procs BY <2>2, <3>1, <3>2 DEF PoolIds
    <3> QED BY <2>2, <3>1, <3>3 DEF PoolInv, Owners
  <2>3. ASSUME NEW q \in Procs, NEW u \in Threads, NEW a \in Aliases,
               conn'[q][u][a] # None
        PROVE  status'[conn'[q][u][a].opener] # "unborn"
    <3>1. conn'[q][u][a] = conn[q][u][a] BY <2>3
    <3>2. conn[q][u][a] \in Links BY <2>1, <2>3, <3>1
    <3> QED BY <2>3, <3>1, <3>2 DEF PoolInv, Owners, Links
  <2> QED BY <2>2, <2>3 DEF Owners
<1>3. LookupsSucceed'
  <2>1. \A q \in Procs, u \in Threads : pc'[q][u] = "get" =>
           mem'[q].pools[target'[q][u]] # None
    BY <1>1 DEF Pooled, Looking
  <2> QED BY <2>1 DEF PoolInv, LookupsSucceed
<1>4. ConnectionsShareThePool'
  <2> SUFFICES ASSUME NEW q \in Procs, NEW u \in Threads, NEW a \in Aliases,
                      conn'[q][u][a] # None, conn'[q][u][a].opener = q,
                      conn'[q][u][a].pool # None
               PROVE  conn'[q][u][a].pool = mem'[q].pools[a]
    BY DEF ConnectionsShareThePool
  <2> QED BY DEF PoolInv, ConnectionsShareThePool
<1> QED BY <1>1, <1>2, <1>3, <1>4 DEF PoolInv

(* The child has no thread inside get_new_connection and no background     *)
(* threads; what it has inherited was opened by processes that exist.      *)
LEMMA ForkKeepsPool ==
    ASSUME TypeOK, Alive, PoolInv, NEW p \in Procs, NEW t \in Threads,
           NEW c \in Procs, Fork(p, t, c)
    PROVE  PoolInv'
<1>0. /\ mem \in [Procs -> Memory] /\ mem[p] \in Memory
      /\ conn \in [Procs -> [Threads -> [Aliases -> Links \cup {None}]]]
      /\ status \in [Procs -> {"unborn", "running", "exited"}]
  BY DEF TypeOK, SharedOK
<1>1. /\ status[c] = "unborn" /\ beats[c] = {} /\ warmups[c] = {}
      /\ \A u \in Threads : pc[c][u] = "idle"
      /\ UNCHANGED <<beats, warmups, pc, target, chosen>>
      /\ \A q \in Procs \ {c} : mem'[q] = mem[q] /\ conn'[q] = conn[q]
      /\ \A q \in Procs : status[q] # "unborn" => status'[q] # "unborn"
  BY <1>0 DEF Fork, Alive
<1>2. \A a \in Aliases : mem'[c].pools[a] \in {None, mem[p].pools[a]}
  <2>1. Copied(mem[p]).pools = mem[p].pools BY <1>0 DEF Copied, Memory
  <2>2. AfterForkInChild(Copied(mem[p]), c).pools = Nothing
    BY <1>0 DEF AfterForkInChild, ResetAfterFork, Copied, Memory
  <2> QED BY <1>0, <2>1, <2>2 DEF Fork, Nothing
<1>3. \A u \in Threads, a \in Aliases : conn'[c][u][a] \in {None, conn[p][t][a]}
  BY <1>0 DEF Fork, NoConns, Nothing
<1>4. \A q \in Procs, a \in Aliases :
         mem[q].pools[a] # None =>
            /\ mem[q].pools[a].proc \in Procs
            /\ status'[mem[q].pools[a].proc] # "unborn"
  <2> SUFFICES ASSUME NEW q \in Procs, NEW a \in Aliases, mem[q].pools[a] # None
               PROVE  /\ mem[q].pools[a].proc \in Procs
                      /\ status'[mem[q].pools[a].proc] # "unborn"
    OBVIOUS
  <2>1. mem[q].pools \in [Aliases -> PoolIds \cup {None}] BY <1>0 DEF Memory
  <2>2. mem[q].pools[a].proc \in Procs BY <2>1 DEF PoolIds
  <2> QED BY <1>1, <2>2 DEF PoolInv, Owners
<1>5. \A q \in Procs, u \in Threads, a \in Aliases :
         conn[q][u][a] # None =>
            /\ conn[q][u][a].opener \in Procs \ {c}
            /\ status'[conn[q][u][a].opener] # "unborn"
  <2> SUFFICES ASSUME NEW q \in Procs, NEW u \in Threads, NEW a \in Aliases,
                      conn[q][u][a] # None
               PROVE  /\ conn[q][u][a].opener \in Procs \ {c}
                      /\ status'[conn[q][u][a].opener] # "unborn"
    OBVIOUS
  <2>1. conn[q][u][a] \in Links BY <1>0
  <2>2. conn[q][u][a].opener \in Procs BY <2>1 DEF Links
  <2> QED BY <1>1, <2>2 DEF PoolInv, Owners
<1>6. Pooled' BY <1>1 DEF PoolInv, Pooled, Looking
<1>7. Owners'
  <2>1. ASSUME NEW q \in Procs, NEW a \in Aliases, mem'[q].pools[a] # None
        PROVE  status'[mem'[q].pools[a].proc] # "unborn"
    BY <1>1, <1>2, <1>4, <2>1
  <2>2. ASSUME NEW q \in Procs, NEW u \in Threads, NEW a \in Aliases,
               conn'[q][u][a] # None
        PROVE  status'[conn'[q][u][a].opener] # "unborn"
    BY <1>1, <1>3, <1>5, <2>2
  <2> QED BY <2>1, <2>2 DEF Owners
<1>8. LookupsSucceed' BY <1>1 DEF PoolInv, LookupsSucceed
<1>9. ConnectionsShareThePool'
  <2> SUFFICES ASSUME NEW q \in Procs, NEW u \in Threads, NEW a \in Aliases,
                      conn'[q][u][a] # None, conn'[q][u][a].opener = q,
                      conn'[q][u][a].pool # None
               PROVE  conn'[q][u][a].pool = mem'[q].pools[a]
    BY DEF ConnectionsShareThePool
  <2>1. q # c BY <1>3, <1>5
  <2> QED BY <1>1, <2>1 DEF PoolInv, ConnectionsShareThePool
<1> QED BY <1>6, <1>7, <1>8, <1>9 DEF PoolInv

LEMMA NextPool == TypeOK /\ Alive /\ PoolInv /\ [Next]_vars => PoolInv'
<1> SUFFICES ASSUME TypeOK, Alive, PoolInv, [Next]_vars PROVE PoolInv' OBVIOUS
<1>0. /\ mem \in [Procs -> Memory]
      /\ conn \in [Procs -> [Threads -> [Aliases -> Links \cup {None}]]]
      /\ status \in [Procs -> {"unborn", "running", "exited"}]
      /\ pc \in [Procs -> [Threads -> Steps]]
      /\ target \in [Procs -> [Threads -> Aliases \cup {None}]]
  BY DEF TypeOK, SharedOK, LocalsOK
<1>1. ASSUME NEW p \in Procs, NEW t \in Threads, ThreadStep(p, t)
      PROVE  PoolInv'
  BY <1>1, ThreadKeepsPool
<1>2. ASSUME NEW p \in Procs, NEW t \in Threads, NEW a \in Aliases,
             GetNewConnection(p, t, a)
      PROVE  PoolInv'
  <2>1. /\ UNCHANGED <<status, mem, beats, warmups, chosen, conn>>
        /\ pc' = [pc EXCEPT ![p][t] = IF ShouldUsePool(a) THEN "has" ELSE "direct"]
        /\ target' = [target EXCEPT ![p][t] = a]
    BY <1>2 DEF GetNewConnection, Goto
  <2>2. \A q \in Procs, u \in Threads :
           pc'[q][u] \in Looking \cup {"connect"} =>
              pc'[q][u] = pc[q][u] /\ target'[q][u] = target[q][u]
    BY <1>0, <2>1 DEF Looking
  <2> QED BY <2>1, <2>2, OutsideKeepsPool
<1>3. ASSUME NEW p \in Procs, NEW t \in Threads, NEW a \in Aliases, Close(p, t, a)
      PROVE  PoolInv'
  <2>1. /\ UNCHANGED <<status, mem, beats, warmups, pc, target, chosen>>
        /\ \A q \in Procs, u \in Threads, b \in Aliases :
              conn'[q][u][b] \in {conn[q][u][b], None}
    BY <1>0, <1>3 DEF Close
  <2> QED BY <2>1, OutsideKeepsPool
<1>4. ASSUME NEW p \in Procs,
             BackgroundAcquire(p) \/ BackgroundRelease(p) \/ Exit(p)
      PROVE  PoolInv'
  <2>1. /\ UNCHANGED <<beats, warmups, pc, target, chosen, conn>>
        /\ \A q \in Procs : status[q] # "unborn" => status'[q] # "unborn"
    BY <1>0, <1>4 DEF BackgroundAcquire, BackgroundRelease, Exit
  <2>2. \A q \in Procs : mem[q] \in Memory BY <1>0
  <2>3. \A q \in Procs : mem'[q].pools = mem[q].pools
    <3>1. CASE BackgroundAcquire(p) BY <1>0, <2>2, <3>1 DEF BackgroundAcquire, Memory
    <3>2. CASE BackgroundRelease(p) BY <1>0, <2>2, <3>2 DEF BackgroundRelease, Memory
    <3>3. CASE Exit(p) BY <1>0, <2>2, <3>3 DEF Exit, Memory
    <3> QED BY <1>4, <3>1, <3>2, <3>3
  <2> QED BY <2>1, <2>3, OutsideKeepsPool
<1>5. ASSUME NEW p \in Procs, NEW t \in Threads, NEW c \in Procs, Fork(p, t, c)
      PROVE  PoolInv'
  BY <1>5, ForkKeepsPool
<1>6. ASSUME UNCHANGED vars PROVE PoolInv'
  BY <1>6, OutsideKeepsPool DEF vars
<1> QED BY <1>1, <1>2, <1>3, <1>4, <1>5, <1>6 DEF Next, Terminated

LEMMA PoolInvariant == Spec => [](TypeOK /\ Alive /\ PoolInv)
<1>1. Init => TypeOK /\ Alive /\ PoolInv
  BY InitType, InitHeartbeat, InitPool DEF HeartbeatInv
<1>2. TypeOK /\ Alive /\ PoolInv /\ [Next]_vars => (TypeOK /\ Alive /\ PoolInv)'
  BY NextType, NextAlive, NextPool
<1> QED BY <1>1, <1>2, PTL DEF Spec

(* LookupsSucceed in every reachable state: no thread, no heartbeat and no *)
(* warm-up meets the ValueError of ConnectionPool.get, with or without the *)
(* fork hook, because nothing is started for an alias before its pool is   *)
(* in the container and only a fork takes pools out, of an empty process.  *)
THEOREM PoolsAreFound == Spec => []LookupsSucceed
<1>1. TypeOK /\ Alive /\ PoolInv => LookupsSucceed BY DEF PoolInv
<1> QED BY <1>1, PoolInvariant, PTL

(* ConnectionsShareThePool in every reachable state: the unlocked gap      *)
(* between has() and set() lets two threads build a pool, but connections  *)
(* are taken only from the one that set() kept.                            *)
THEOREM OnePoolPerAlias == Spec => []ConnectionsShareThePool
<1>1. TypeOK /\ Alive /\ PoolInv => ConnectionsShareThePool BY DEF PoolInv
<1> QED BY <1>1, PoolInvariant, PTL
-----------------------------------------------------------------------------
(* The life of a heartbeat thread                                           *)

(* The manager's event is the one of the process in _pid; background       *)
(* threads wait on the event of their own process, which has registered    *)
(* shutdown() before it started them; and at exit shutdown() has run.      *)
StopInv == \A p \in Procs :
    /\ mem[p].stop = mem[p].pid
    /\ \A b \in beats[p] \cup warmups[p] : b.stop = p
    /\ (beats[p] \cup warmups[p] # {} \/ \E t \in Threads : pc[p][t] \in Starting)
          => mem[p].atexit
    /\ status[p] = "exited" => mem[p].stopSet = mem[p].atexit

(* An alias is registered by the process itself, and its heartbeat runs or *)
(* is about to be started by the thread that has the lock.                 *)
Enrolled(p, a) == mem[p].pid = p /\ a \in mem[p].threads

(* Enrolled(p, a) after a step, for an alias that is itself the one after it. *)
EnrolledNext(p, a) == mem'[p].pid = p /\ a \in mem'[p].threads

Beating(p, a) ==
    \/ \E b \in beats[p] : b.alias = a
    \/ \E u \in Threads : HoldsHbLock(p, u, "spawn") /\ target[p][u] = a

(* No process has the pid of one that does not exist yet. *)
PidsExist == \A p \in Procs :
    status[p] # "unborn" => status[mem[p].pid] # "unborn"

EnrolledBeat == ~StartMayFail =>
    \A p \in Procs, a \in Aliases : Enrolled(p, a) => Beating(p, a)

(* Threads get to pool.connect(), and have pooled connections of their     *)
(* process, only for aliases that are registered.                          *)
UsersEnrolled == HeartbeatEnabled =>
    \A p \in Procs, t \in Threads :
        /\ pc[p][t] \in {"warm", "get", "connect"} => Enrolled(p, target[p][t])
        /\ \A a \in Aliases :
              LET link == conn[p][t][a]
              IN  (link # None /\ link.opener = p /\ link.pool # None)
                      => Enrolled(p, a)

BeatInv == PidsExist /\ EnrolledBeat /\ UsersEnrolled
-----------------------------------------------------------------------------
(* What the steps do to the fields of the manager                           *)

SameManager(m, n) ==
    /\ n.pid = m.pid /\ n.threads = m.threads /\ n.stop = m.stop
    /\ n.stopSet = m.stopSet /\ n.atexit = m.atexit

LEMMA RegisterEffect ==
    ASSUME TypeOK, NEW p \in Procs, NEW t \in Threads, Register(p, t)
    PROVE  /\ pc[p][t] = "start" /\ mem[p].hbLock = t /\ pc'[p][t] = "spawn"
           /\ UNCHANGED <<beats, warmups, target, conn>>
           /\ mem'[p].pid = p /\ mem'[p].hbLock = t /\ mem'[p].atexit
           /\ mem'[p].stop = (IF mem[p].pid = p THEN mem[p].stop ELSE p)
           /\ mem'[p].threads = (IF mem[p].pid = p THEN mem[p].threads ELSE {})
                                   \cup {target[p][t]}
<1>1. mem \in [Procs -> Memory] /\ mem[p] \in Memory
  BY DEF TypeOK, SharedOK
<1>2. mem'[p] = WithThread(PidReset(mem[p], p), target[p][t])
  BY <1>1 DEF Register
<1>3. /\ pc[p][t] = "start" /\ mem[p].hbLock = t /\ pc'[p][t] = "spawn"
      /\ UNCHANGED <<beats, warmups, target, conn>>
  BY DEF Register, HoldsHbLock, Goto, TypeOK, LocalsOK
<1> QED BY <1>1, <1>2, <1>3 DEF WithThread, PidReset, Memory

(* Register is the only step of a thread that touches the manager beside   *)
(* its lock, and the only one by which a thread comes to start others.     *)
LEMMA OtherSteps ==
    ASSUME TypeOK, NEW p \in Procs, NEW t \in Threads, ThreadStep(p, t),
           ~Register(p, t)
    PROVE  /\ SameManager(mem[p], mem'[p])
           /\ pc'[p][t] \in Starting => pc[p][t] \in Starting
           /\ beats[p] \subseteq beats'[p]
           /\ \A b \in (beats'[p] \cup warmups'[p]) \ (beats[p] \cup warmups[p]) :
                 pc[p][t] \in Starting /\ b = Worker(p, t)
<1> USE DEF Goto, Starting, SameManager
<1>0. /\ mem \in [Procs -> Memory] /\ mem[p] \in Memory
      /\ pc \in [Procs -> [Threads -> Steps]]
      /\ beats \in [Procs -> SUBSET Workers] /\ warmups \in [Procs -> SUBSET Workers]
  BY DEF TypeOK, SharedOK, LocalsOK
<1>1. CASE CreateConnection(p, t) BY <1>0, <1>1 DEF CreateConnection, Leave
<1>2. CASE AcquirePoolLock(p, t) BY <1>0, <1>2 DEF AcquirePoolLock, Memory
<1>3. CASE Has(p, t) BY <1>0, <1>3 DEF Has, Memory
<1>4. CASE Set(p, t) BY <1>0, <1>4 DEF Set, Memory
<1>5. CASE Get(p, t)
  <2>1. UNCHANGED <<beats, warmups>> /\ SameManager(mem[p], mem'[p])
    BY <1>0, <1>5 DEF Get, Memory
  <2>2. pc'[p][t] \in {"idle", "connect"}
    BY <1>0, <1>5 DEF Get, Leave
  <2> QED BY <2>1, <2>2
<1>6. CASE Connect(p, t) BY <1>0, <1>6 DEF Connect, Leave
<1>7. CASE EnsureStarted(p, t) BY <1>0, <1>7 DEF EnsureStarted
<1>8. CASE AcquireHbLock(p, t) BY <1>0, <1>8 DEF AcquireHbLock, Memory
<1>9. CASE AlreadyStarted(p, t)
  <2>1. PidReset(mem[p], p) = mem[p] BY <1>9 DEF AlreadyStarted, IsRegistered, PidReset
  <2>2. mem'[p] = [mem[p] EXCEPT !.hbLock = "free"]
    BY <1>0, <1>9, <2>1 DEF AlreadyStarted
  <2> QED BY <1>0, <1>9, <2>2 DEF AlreadyStarted, Memory
<1>10. CASE SpawnHeartbeat(p, t)
  <2>1. /\ mem' = [mem EXCEPT ![p].hbLock = "free"] /\ pc[p][t] = "spawn"
        /\ beats' = [beats EXCEPT ![p] = @ \cup {Worker(p, t)}]
        /\ UNCHANGED warmups
    BY <1>10 DEF SpawnHeartbeat, ReleaseHbLock, HoldsHbLock
  <2> QED BY <1>0, <2>1 DEF Memory
<1>11. CASE SpawnHeartbeatFails(p, t)
  BY <1>0, <1>11 DEF SpawnHeartbeatFails, ReleaseHbLock, Leave, Memory
<1>12. CASE SpawnWarmUp(p, t) BY <1>0, <1>12 DEF SpawnWarmUp
<1>13. CASE SpawnWarmUpFails(p, t) BY <1>0, <1>13 DEF SpawnWarmUpFails, Leave
<1> QED
  BY <1>1, <1>2, <1>3, <1>4, <1>5, <1>6, <1>7, <1>8, <1>9, <1>10, <1>11, <1>12,
     <1>13 DEF ThreadStep

(* Outside of get_new_connection a thread leaves the manager alone. *)
LEMMA OutsideSteps ==
    ASSUME TypeOK, NEW p \in Procs, NEW t \in Threads, NEW a \in Aliases,
           GetNewConnection(p, t, a) \/ Close(p, t, a)
    PROVE  /\ UNCHANGED <<status, beats, warmups>>
           /\ \A q \in Procs : SameManager(mem[q], mem'[q])
                               /\ mem'[q].hbLock = mem[q].hbLock
           /\ \A q \in Procs, u \in Threads :
                 \/ pc'[q][u] \in {"has", "direct"} /\ pc[q][u] = "idle"
                 \/ pc'[q][u] = pc[q][u] /\ target'[q][u] = target[q][u]
           /\ \A q \in Procs, u \in Threads, b \in Aliases :
                 conn'[q][u][b] \in {conn[q][u][b], None}
<1> USE DEF SameManager
<1>0. /\ mem \in [Procs -> Memory] /\ \A q \in Procs : mem[q] \in Memory
      /\ pc \in [Procs -> [Threads -> Steps]]
      /\ target \in [Procs -> [Threads -> Aliases \cup {None}]]
      /\ conn \in [Procs -> [Threads -> [Aliases -> Links \cup {None}]]]
  BY DEF TypeOK, SharedOK, LocalsOK
<1>1. CASE GetNewConnection(p, t, a) BY <1>0, <1>1 DEF GetNewConnection, Goto
<1>2. CASE Close(p, t, a) BY <1>0, <1>2 DEF Close
<1> QED BY <1>1, <1>2

(* The background threads touch the container's lock only. *)
LEMMA BackgroundSteps ==
    ASSUME TypeOK, NEW p \in Procs, BackgroundAcquire(p) \/ BackgroundRelease(p)
    PROVE  /\ UNCHANGED <<status, beats, warmups, pc, target, conn>>
           /\ \A q \in Procs : SameManager(mem[q], mem'[q])
                               /\ mem'[q].hbLock = mem[q].hbLock
<1> USE DEF SameManager
<1>0. mem \in [Procs -> Memory] /\ \A q \in Procs : mem[q] \in Memory
  BY DEF TypeOK, SharedOK
<1>1. CASE BackgroundAcquire(p) BY <1>0, <1>1 DEF BackgroundAcquire, Memory
<1>2. CASE BackgroundRelease(p) BY <1>0, <1>2 DEF BackgroundRelease, Memory
<1> QED BY <1>1, <1>2

LEMMA ExitEffect ==
    ASSUME TypeOK, NEW p \in Procs, Exit(p)
    PROVE  /\ UNCHANGED <<beats, warmups, pc, target, conn>>
           /\ status' = [status EXCEPT ![p] = "exited"] /\ status[p] = "running"
           /\ \A q \in Procs \ {p} : mem'[q] = mem[q]
           /\ mem'[p].pid = mem[p].pid /\ mem'[p].threads = mem[p].threads
           /\ mem'[p].stop = mem[p].stop /\ mem'[p].atexit = mem[p].atexit
           /\ mem'[p].stopSet = mem[p].atexit /\ mem'[p].hbLock = mem[p].hbLock
<1>0. mem \in [Procs -> Memory] /\ mem[p] \in Memory
  BY DEF TypeOK, SharedOK
<1> QED BY <1>0 DEF Exit, Memory

(* The child is born with the manager of its parent, or with a fresh one.  *)
LEMMA ForkEffect ==
    ASSUME TypeOK, NEW p \in Procs, NEW t \in Threads, NEW c \in Procs, Fork(p, t, c)
    PROVE  /\ UNCHANGED <<beats, warmups, pc, target>>
           /\ status[p] = "running" /\ status[c] = "unborn"
           /\ status' = [status EXCEPT ![c] = "running"]
           /\ \A q \in Procs \ {c} : mem'[q] = mem[q] /\ conn'[q] = conn[q]
           /\ \A u \in Threads, a \in Aliases : conn'[c][u][a] \in {None, conn[p][t][a]}
           /\ \/ mem'[c].pid = c /\ mem'[c].stop = c /\ mem'[c].threads = {}
              \/ mem'[c].pid = mem[p].pid /\ mem'[c].stop = mem[p].stop
<1>0. /\ mem \in [Procs -> Memory] /\ mem[p] \in Memory
      /\ conn \in [Procs -> [Threads -> [Aliases -> Links \cup {None}]]]
  BY DEF TypeOK, SharedOK
<1>1. /\ Copied(mem[p]).pid = mem[p].pid /\ Copied(mem[p]).stop = mem[p].stop
      /\ Copied(mem[p]) \in Memory
  <2>1. Copied(mem[p]) \in Memory
    BY <1>0, ForkKeepsMemory
  <2>2. Copied(mem[p]).pid = mem[p].pid /\ Copied(mem[p]).stop = mem[p].stop
    BY <1>0 DEF Copied, Memory
  <2> QED BY <2>1, <2>2
<1>2. \A m \in Memory : LET n == AfterForkInChild(m, c)
                        IN  n.pid = c /\ n.stop = c /\ n.threads = {}
  BY DEF AfterForkInChild, ResetAfterFork, Memory
<1>3. mem'[c] = IF ForkHook THEN AfterForkInChild(Copied(mem[p]), c) ELSE Copied(mem[p])
  BY <1>0 DEF Fork
<1>4. \A u \in Threads, a \in Aliases : conn'[c][u][a] \in {None, conn[p][t][a]}
  BY <1>0 DEF Fork, NoConns, Nothing
<1>5. /\ UNCHANGED <<beats, warmups, pc, target>>
      /\ status[p] = "running" /\ status[c] = "unborn"
      /\ status' = [status EXCEPT ![c] = "running"]
      /\ \A q \in Procs \ {c} : mem'[q] = mem[q] /\ conn'[q] = conn[q]
  BY <1>0 DEF Fork
<1> QED BY <1>1, <1>2, <1>3, <1>4, <1>5
-----------------------------------------------------------------------------
(* The stop event                                                           *)

LEMMA InitStop == Init => StopInv
<1> SUFFICES ASSUME Init, NEW p \in Procs
             PROVE  /\ mem[p].stop = mem[p].pid
                    /\ beats[p] = {} /\ warmups[p] = {} /\ status[p] # "exited"
                    /\ \A t \in Threads : pc[p][t] \notin Starting
  BY DEF StopInv
<1> QED BY DEF Init, FreshMemory, Starting

LEMMA NextStop == TypeOK /\ HeartbeatInv /\ StopInv /\ [Next]_vars => StopInv'
<1> SUFFICES ASSUME TypeOK, HeartbeatInv, StopInv, [Next]_vars PROVE StopInv' OBVIOUS
<1>0. status \in [Procs -> {"unborn", "running", "exited"}]
  BY DEF TypeOK, SharedOK
<1>1. ASSUME NEW p \in Procs, NEW t \in Threads, ThreadStep(p, t)
      PROVE  StopInv'
  <2>1. /\ status' = status /\ status[p] = "running"
        /\ \A u \in Threads \ {t} : pc'[p][u] = pc[p][u]
        /\ \A q \in Procs \ {p} :
              /\ mem'[q] = mem[q] /\ beats'[q] = beats[q] /\ warmups'[q] = warmups[q]
              /\ \A u \in Threads : pc'[q][u] = pc[q][u]
    BY <1>1, ThreadStepIsLocal DEF HeartbeatInv, Alive
  <2>2. CASE Register(p, t)
    BY <2>1, <2>2, RegisterEffect DEF StopInv
  <2>3. CASE ~Register(p, t)
    <3>1. /\ SameManager(mem[p], mem'[p])
          /\ pc'[p][t] \in Starting => pc[p][t] \in Starting
          /\ \A b \in (beats'[p] \cup warmups'[p]) \ (beats[p] \cup warmups[p]) :
                pc[p][t] \in Starting /\ b = Worker(p, t)
      BY <1>1, <2>3, OtherSteps
    <3>2. pc[p][t] \in Starting => Worker(p, t).stop = p
      BY DEF Worker, StopInv, HeartbeatInv, Registration
    <3> QED BY <2>1, <3>1, <3>2 DEF StopInv, SameManager
  <2> QED BY <2>2, <2>3
<1>2. ASSUME NEW p \in Procs, NEW t \in Threads, NEW a \in Aliases,
             GetNewConnection(p, t, a) \/ Close(p, t, a)
      PROVE  StopInv'
  <2>1. /\ UNCHANGED <<status, beats, warmups>>
        /\ \A q \in Procs : SameManager(mem[q], mem'[q])
        /\ \A q \in Procs, u \in Threads :
              pc'[q][u] \in {"has", "direct"} \/ pc'[q][u] = pc[q][u]
    BY <1>2, OutsideSteps
  <2> QED BY <2>1 DEF StopInv, SameManager, Starting
<1>3. ASSUME NEW p \in Procs, BackgroundAcquire(p) \/ BackgroundRelease(p)
      PROVE  StopInv'
  <2>1. /\ UNCHANGED <<status, beats, warmups, pc>>
        /\ \A q \in Procs : SameManager(mem[q], mem'[q])
    BY <1>3, BackgroundSteps
  <2> QED BY <2>1 DEF StopInv, SameManager
<1>4. ASSUME NEW p \in Procs, Exit(p) PROVE StopInv'
  BY <1>0, <1>4, ExitEffect DEF StopInv
<1>5. ASSUME NEW p \in Procs, NEW t \in Threads, NEW c \in Procs, Fork(p, t, c)
      PROVE  StopInv'
  <2>1. /\ beats[c] = {} /\ warmups[c] = {}
        /\ \A u \in Threads : pc[c][u] \notin Starting
    BY <1>5, ForkEffect DEF HeartbeatInv, Alive, Starting
  <2> QED BY <1>0, <1>5, <2>1, ForkEffect DEF StopInv
<1>6. CASE UNCHANGED vars BY <1>6 DEF vars, StopInv
<1> QED BY <1>1, <1>2, <1>3, <1>4, <1>5, <1>6 DEF Next, Terminated

(* ExitStopsBackground in every reachable state, with and without the fork *)
(* hook, and also when Thread.start() may raise: no background thread of   *)
(* an exited process waits on an event that shutdown() did not set.        *)
THEOREM ShutdownStopsAll == Spec => []ExitStopsBackground
<1>1. Init => TypeOK /\ HeartbeatInv /\ StopInv
  BY InitType, InitHeartbeat, InitStop
<1>2. TypeOK /\ HeartbeatInv /\ StopInv /\ [Next]_vars
         => (TypeOK /\ HeartbeatInv /\ StopInv)'
  BY NextType, NextHeartbeat, NextStop
<1>3. TypeOK /\ HeartbeatInv /\ StopInv => ExitStopsBackground
  <2> SUFFICES ASSUME HeartbeatInv, StopInv, NEW p \in Procs, status[p] = "exited",
                      NEW b \in beats[p] \cup warmups[p]
               PROVE  b.stop = mem[p].stop /\ mem[p].stopSet
    BY DEF ExitStopsBackground
  <2>1. mem[p].pid = p BY DEF HeartbeatInv, Registration
  <2> QED BY <2>1 DEF StopInv
<1> QED BY <1>1, <1>2, <1>3, PTL DEF Spec
-----------------------------------------------------------------------------
(* The heartbeat of every connection                                        *)

LEMMA InitBeat == Init => BeatInv
<1> SUFFICES ASSUME Init PROVE BeatInv OBVIOUS
<1>1. \A p \in Procs : mem[p].pid = p /\ mem[p].threads = {}
  BY DEF Init, FreshMemory
<1>2. \A p \in Procs, t \in Threads :
         pc[p][t] = "idle" /\ \A a \in Aliases : conn[p][t][a] = None
  BY DEF Init, NoConns, Nothing
<1> QED BY <1>1, <1>2 DEF BeatInv, PidsExist, EnrolledBeat, UsersEnrolled, Enrolled

(* A process never takes a registration of its own back. *)
LEMMA EnrolledStays ==
    ASSUME TypeOK, NEW p \in Procs, NEW t \in Threads, ThreadStep(p, t),
           NEW a, Enrolled(p, a)
    PROVE  Enrolled(p, a)'
<1>1. CASE Register(p, t) BY <1>1, RegisterEffect DEF Enrolled
<1>2. CASE ~Register(p, t) BY <1>2, OtherSteps DEF Enrolled, SameManager
<1> QED BY <1>1, <1>2

(* A thread that is starting a heartbeat under the lock keeps the lock. *)
LEMMA LockStays ==
    ASSUME TypeOK, NEW p \in Procs, NEW t \in Threads, ThreadStep(p, t),
           NEW u \in Threads \ {t}, mem[p].hbLock = u
    PROVE  mem'[p].hbLock = u
<1>0. mem \in [Procs -> Memory] /\ mem[p] \in Memory /\ u # "free"
  BY ConstantsOK DEF TypeOK, SharedOK
<1>1. CASE AcquireHbLock(p, t) BY <1>0, <1>1 DEF AcquireHbLock
<1>2. CASE AlreadyStarted(p, t) \/ Register(p, t) \/ SpawnHeartbeat(p, t)
           \/ SpawnHeartbeatFails(p, t)
  BY <1>2 DEF AlreadyStarted, Register, SpawnHeartbeat, SpawnHeartbeatFails, HoldsHbLock
<1>3. CASE AcquirePoolLock(p, t) BY <1>0, <1>3 DEF AcquirePoolLock, Memory
<1>4. CASE Has(p, t) BY <1>0, <1>4 DEF Has, Memory
<1>5. CASE Set(p, t) BY <1>0, <1>5 DEF Set, Memory
<1>6. CASE Get(p, t) BY <1>0, <1>6 DEF Get, Memory
<1>7. CASE UNCHANGED mem BY <1>7
<1> QED
  BY <1>1, <1>2, <1>3, <1>4, <1>5, <1>6, <1>7 DEF ThreadStep, CreateConnection,
     Connect, EnsureStarted, SpawnWarmUp, SpawnWarmUpFails

(* Every registration leads to a heartbeat if threads can be started.      *)
LEMMA StepBeats ==
    ASSUME TypeOK, HeartbeatInv, EnrolledBeat, ~StartMayFail,
           NEW p \in Procs, NEW t \in Threads, ThreadStep(p, t),
           NEW a \in Aliases, Enrolled(p, a)'
    PROVE  Beating(p, a)'
<1>0. \A u \in Threads \ {t} : pc'[p][u] = pc[p][u] /\ target'[p][u] = target[p][u]
  BY ThreadStepIsLocal
<1>1. CASE Register(p, t)
  <2>1. CASE a = target[p][t]
    BY <1>1, <2>1, RegisterEffect DEF Beating, HoldsHbLock
  <2>2. CASE a # target[p][t]
    <3>1. Enrolled(p, a) BY <1>1, <2>2, RegisterEffect DEF Enrolled
    <3>2. Beating(p, a) BY <3>1 DEF EnrolledBeat
    <3>3. \A u \in Threads : ~HoldsHbLock(p, u, "spawn")
      BY <1>1, RegisterEffect DEF HoldsHbLock
    <3> QED BY <1>1, <3>2, <3>3, RegisterEffect DEF Beating
  <2> QED BY <2>1, <2>2
<1>2. CASE ~Register(p, t)
  <2>1. SameManager(mem[p], mem'[p]) /\ beats[p] \subseteq beats'[p]
    BY <1>2, OtherSteps
  <2>2. Enrolled(p, a) BY <2>1 DEF Enrolled, SameManager
  <2>3. Beating(p, a) BY <2>2 DEF EnrolledBeat
  <2>4. CASE \E b \in beats[p] : b.alias = a
    BY <2>1, <2>4 DEF Beating
  <2>5. ASSUME NEW u \in Threads, HoldsHbLock(p, u, "spawn"), target[p][u] = a
        PROVE  Beating(p, a)'
    <3>1. CASE u # t
      BY <1>0, <2>5, <3>1, LockStays DEF Beating, HoldsHbLock
    <3>2. CASE u = t /\ SpawnHeartbeat(p, t)
      <4>1. Worker(p, t) \in beats'[p] /\ Worker(p, t).alias = a
        BY <2>5, <3>2 DEF SpawnHeartbeat, Worker, TypeOK, SharedOK
      <4> QED BY <4>1 DEF Beating
    <3>3. CASE u = t /\ ~SpawnHeartbeat(p, t)
      <4>1. pc[p][t] = "spawn" BY <2>5, <3>3 DEF HoldsHbLock
      <4> QED
        BY <1>2, <3>3, <4>1 DEF ThreadStep, CreateConnection, AcquirePoolLock, Has,
           Set, Get, Connect, EnsureStarted, AcquireHbLock, AlreadyStarted,
           SpawnHeartbeatFails, SpawnWarmUp, SpawnWarmUpFails, HoldsHbLock, HoldsPoolLock
    <3> QED BY <3>1, <3>2, <3>3
  <2> QED BY <2>3, <2>4, <2>5 DEF Beating
<1> QED BY <1>1, <1>2

(* A thread comes to pool.connect() past the test of _threads ... *)
LEMMA StepEnrolls ==
    ASSUME TypeOK, HeartbeatInv, UsersEnrolled, HeartbeatEnabled,
           NEW p \in Procs, NEW t \in Threads, ThreadStep(p, t),
           pc'[p][t] \in {"warm", "get", "connect"}
    PROVE  EnrolledNext(p, target'[p][t])
<1> USE DEF Goto
<1>0. /\ mem \in [Procs -> Memory] /\ mem[p] \in Memory
      /\ pc \in [Procs -> [Threads -> Steps]]
  BY DEF TypeOK, SharedOK, LocalsOK
<1>1. Enrolled(p, target[p][t]) /\ UNCHANGED target
  <2>1. CASE SpawnHeartbeat(p, t)
    BY <2>1 DEF SpawnHeartbeat, HoldsHbLock, Starting, HeartbeatInv, Registration,
       Enrolled
  <2>2. CASE SpawnWarmUp(p, t)
    BY <2>2 DEF SpawnWarmUp, UsersEnrolled
  <2>3. CASE EnsureStarted(p, t)
    BY <1>0, <2>3 DEF EnsureStarted, Started, Enrolled
  <2>4. CASE AlreadyStarted(p, t)
    <3>1. target[p][t] \in PidReset(mem[p], p).threads /\ UNCHANGED target
      BY <2>4 DEF AlreadyStarted, IsRegistered
    <3>2. mem[p].pid = p
      BY <1>0, <3>1 DEF PidReset, Memory
    <3> QED BY <3>1, <3>2 DEF PidReset, Enrolled
  <2>5. CASE Get(p, t)
    <3>1. pc[p][t] = "get" BY <2>5 DEF Get, HoldsPoolLock
    <3>2. UNCHANGED target BY <1>0, <2>5 DEF Get, Leave
    <3> QED BY <3>1, <3>2 DEF UsersEnrolled
  <2>6. CASE AcquirePoolLock(p, t) \/ AcquireHbLock(p, t)
    BY <2>6 DEF AcquirePoolLock, AcquireHbLock, UsersEnrolled
  <2>7. CASE \/ CreateConnection(p, t) \/ Has(p, t) \/ Set(p, t) \/ Connect(p, t)
             \/ Register(p, t) \/ SpawnHeartbeatFails(p, t) \/ SpawnWarmUpFails(p, t)
    BY <1>0, <2>7 DEF CreateConnection, Has, Set, Connect, Register,
       SpawnHeartbeatFails, SpawnWarmUpFails, Leave
  <2> QED BY <2>1, <2>2, <2>3, <2>4, <2>5, <2>6, <2>7 DEF ThreadStep
<1> QED BY <1>1, EnrolledStays DEF Enrolled, EnrolledNext

(* ... and connects to the pool of that alias.                             *)
LEMMA StepLinks ==
    ASSUME TypeOK, NEW p \in Procs, NEW t \in Threads, ThreadStep(p, t),
           NEW u \in Threads, NEW a \in Aliases, conn'[p][u][a] # conn[p][u][a]
    PROVE  \/ conn'[p][u][a].pool = None
           \/ pc[p][t] = "connect" /\ a = target[p][t]
<1>0. conn \in [Procs -> [Threads -> [Aliases -> Links \cup {None}]]]
  BY DEF TypeOK, SharedOK
<1>1. CASE CreateConnection(p, t)
  BY <1>0, <1>1 DEF CreateConnection
<1>2. CASE Connect(p, t)
  BY <1>0, <1>2 DEF Connect
<1>3. CASE UNCHANGED conn BY <1>3
<1> QED
  BY <1>1, <1>2, <1>3 DEF ThreadStep, AcquirePoolLock, Has, Set, Get, EnsureStarted,
     AcquireHbLock, AlreadyStarted, Register, SpawnHeartbeat, SpawnHeartbeatFails,
     SpawnWarmUp, SpawnWarmUpFails

LEMMA ThreadKeepsBeat ==
    ASSUME TypeOK, HeartbeatInv, BeatInv, NEW p \in Procs, NEW t \in Threads,
           ThreadStep(p, t)
    PROVE  BeatInv'
<1>1. /\ status' = status /\ status[p] = "running"
      /\ \A q \in Procs, u \in Threads :
            (q # p \/ u # t) => pc'[q][u] = pc[q][u] /\ target'[q][u] = target[q][u]
      /\ \A q \in Procs \ {p} :
            mem'[q] = mem[q] /\ beats'[q] = beats[q] /\ conn'[q] = conn[q]
  BY ThreadStepIsLocal DEF HeartbeatInv, Alive
<1>2. mem'[p].pid \in {p, mem[p].pid}
  <2>1. CASE Register(p, t) BY <2>1, RegisterEffect
  <2>2. CASE ~Register(p, t) BY <2>2, OtherSteps DEF SameManager
  <2> QED BY <2>1, <2>2
<1>3. PidsExist' BY <1>1, <1>2 DEF BeatInv, PidsExist
<1>4. EnrolledBeat'
  <2> SUFFICES ASSUME ~StartMayFail, NEW q \in Procs, NEW a \in Aliases, Enrolled(q, a)'
               PROVE  Beating(q, a)'
    BY DEF EnrolledBeat
  <2>1. CASE q = p BY <2>1, StepBeats DEF BeatInv
  <2>2. CASE q # p
    BY <1>1, <2>2 DEF BeatInv, EnrolledBeat, Enrolled, Beating, HoldsHbLock
  <2> QED BY <2>1, <2>2
<1>5. UsersEnrolled'
  <2> SUFFICES ASSUME HeartbeatEnabled, NEW q \in Procs, NEW u \in Threads
               PROVE  /\ pc'[q][u] \in {"warm", "get", "connect"}
                            => EnrolledNext(q, target'[q][u])
                      /\ \A a \in Aliases :
                            (/\ conn'[q][u][a] # None /\ conn'[q][u][a].opener = q
                             /\ conn'[q][u][a].pool # None) => Enrolled(q, a)'
    BY DEF UsersEnrolled, Enrolled, EnrolledNext
  <2>1. CASE q # p BY <1>1, <2>1 DEF BeatInv, UsersEnrolled, Enrolled, EnrolledNext
  <2>2. CASE q = p
    <3>1. pc'[p][u] \in {"warm", "get", "connect"} => EnrolledNext(p, target'[p][u])
      <4>1. CASE u = t BY <4>1, StepEnrolls DEF BeatInv
      <4>2. CASE u # t
        <5>1. /\ pc'[p][u] = pc[p][u] /\ target'[p][u] = target[p][u]
          BY <1>1, <4>2
        <5>2. pc[p][u] \in {"warm", "get", "connect"} => Enrolled(p, target[p][u])
          BY DEF BeatInv, UsersEnrolled
        <5> QED BY <5>1, <5>2, EnrolledStays DEF Enrolled, EnrolledNext
      <4> QED BY <4>1, <4>2
    <3>2. ASSUME NEW a \in Aliases,
                 conn'[p][u][a] # None, conn'[p][u][a].opener = p,
                 conn'[p][u][a].pool # None
          PROVE  Enrolled(p, a)'
      <4>1. Enrolled(p, a)
        <5>1. CASE conn'[p][u][a] = conn[p][u][a]
          BY <3>2, <5>1 DEF BeatInv, UsersEnrolled
        <5>2. CASE conn'[p][u][a] # conn[p][u][a]
          BY <3>2, <5>2, StepLinks DEF BeatInv, UsersEnrolled
        <5> QED BY <5>1, <5>2
      <4> QED BY <4>1, EnrolledStays
    <3> QED BY <2>2, <3>1, <3>2
  <2> QED BY <2>1, <2>2
<1> QED BY <1>3, <1>4, <1>5 DEF BeatInv

(* Steps that change neither managers nor heartbeats, start no call and    *)
(* open no connection.                                                     *)
LEMMA OthersKeepBeat ==
    ASSUME BeatInv, beats' = beats,
           \A q \in Procs : status[q] # "unborn" <=> status'[q] # "unborn",
           \A q \in Procs : /\ mem'[q].pid = mem[q].pid
                            /\ mem'[q].threads = mem[q].threads
                            /\ mem'[q].hbLock = mem[q].hbLock,
           \A q \in Procs : mem[q].pid \in Procs,
           \A q \in Procs, u \in Threads :
              \/ pc'[q][u] \in {"has", "direct"} /\ pc[q][u] = "idle"
              \/ pc'[q][u] = pc[q][u] /\ target'[q][u] = target[q][u],
           \A q \in Procs, u \in Threads, b \in Aliases :
              conn'[q][u][b] \in {conn[q][u][b], None}
    PROVE  BeatInv'
<1>1. PidsExist' BY DEF BeatInv, PidsExist
<1>2. EnrolledBeat'
  <2>1. \A q \in Procs, a \in Aliases : Beating(q, a) => Beating(q, a)'
    BY DEF Beating, HoldsHbLock
  <2>2. \A q \in Procs, a \in Aliases : Enrolled(q, a)' => Enrolled(q, a)
    BY DEF Enrolled
  <2> QED BY <2>1, <2>2 DEF BeatInv, EnrolledBeat
<1>3. UsersEnrolled'
  <2> SUFFICES ASSUME HeartbeatEnabled, NEW q \in Procs, NEW u \in Threads
               PROVE  /\ pc'[q][u] \in {"warm", "get", "connect"}
                            => EnrolledNext(q, target'[q][u])
                      /\ \A a \in Aliases :
                            (/\ conn'[q][u][a] # None /\ conn'[q][u][a].opener = q
                             /\ conn'[q][u][a].pool # None) => Enrolled(q, a)'
    BY DEF UsersEnrolled, Enrolled, EnrolledNext
  <2> QED BY DEF BeatInv, UsersEnrolled, Enrolled, EnrolledNext
<1> QED BY <1>1, <1>2, <1>3 DEF BeatInv

(* The child has registered nothing, and no connection it can call its own. *)
LEMMA ForkKeepsBeat ==
    ASSUME TypeOK, HeartbeatInv, Owners, BeatInv,
           NEW p \in Procs, NEW t \in Threads, NEW c \in Procs, Fork(p, t, c)
    PROVE  BeatInv'
<1>1. /\ UNCHANGED <<beats, warmups, pc, target>>
      /\ status[p] = "running" /\ status[c] = "unborn"
      /\ status' = [status EXCEPT ![c] = "running"]
      /\ \A q \in Procs \ {c} : mem'[q] = mem[q] /\ conn'[q] = conn[q]
      /\ \A u \in Threads, a \in Aliases : conn'[c][u][a] \in {None, conn[p][t][a]}
      /\ \/ mem'[c].pid = c /\ mem'[c].threads = {}
         \/ mem'[c].pid = mem[p].pid
  BY ForkEffect
<1>2. /\ status \in [Procs -> {"unborn", "running", "exited"}]
      /\ \A q \in Procs : mem[q].pid \in Procs
  BY DEF TypeOK, SharedOK, Memory
<1>3. status[mem[p].pid] # "unborn" /\ mem[p].pid # c
  BY <1>1 DEF BeatInv, PidsExist
<1>4. PidsExist' BY <1>1, <1>2, <1>3 DEF BeatInv, PidsExist
<1>5. \A a \in Aliases : ~Enrolled(c, a)' BY <1>1, <1>3 DEF Enrolled
<1>6. EnrolledBeat'
  BY <1>1, <1>5 DEF BeatInv, EnrolledBeat, Enrolled, Beating, HoldsHbLock
<1>7. \A u \in Threads : pc'[c][u] = "idle"
  BY <1>1 DEF HeartbeatInv, Alive
<1>8. \A u \in Threads, a \in Aliases :
         conn'[c][u][a] # None => conn'[c][u][a].opener # c
  BY <1>1 DEF Owners
<1>9. UsersEnrolled' BY <1>1, <1>7, <1>8 DEF BeatInv, UsersEnrolled, Enrolled
<1> QED BY <1>4, <1>6, <1>9 DEF BeatInv

LEMMA NextBeat ==
    TypeOK /\ HeartbeatInv /\ PoolInv /\ BeatInv /\ [Next]_vars => BeatInv'
<1> SUFFICES ASSUME TypeOK, HeartbeatInv, PoolInv, BeatInv, [Next]_vars PROVE BeatInv'
  OBVIOUS
<1>0. /\ status \in [Procs -> {"unborn", "running", "exited"}]
      /\ \A q \in Procs : mem[q].pid \in Procs
  BY DEF TypeOK, SharedOK, Memory
<1>1. ASSUME NEW p \in Procs, NEW t \in Threads, ThreadStep(p, t) PROVE BeatInv'
  BY <1>1, ThreadKeepsBeat
<1>2. ASSUME NEW p \in Procs, NEW t \in Threads, NEW a \in Aliases,
             GetNewConnection(p, t, a) \/ Close(p, t, a)
      PROVE  BeatInv'
  BY <1>0, <1>2, OutsideSteps, OthersKeepBeat DEF SameManager
<1>3. ASSUME NEW p \in Procs, BackgroundAcquire(p) \/ BackgroundRelease(p)
      PROVE  BeatInv'
  BY <1>0, <1>3, BackgroundSteps, OthersKeepBeat DEF SameManager
<1>4. ASSUME NEW p \in Procs, Exit(p) PROVE BeatInv'
  BY <1>0, <1>4, ExitEffect, OthersKeepBeat
<1>5. ASSUME NEW p \in Procs, NEW t \in Threads, NEW c \in Procs, Fork(p, t, c)
      PROVE  BeatInv'
  BY <1>5, ForkKeepsBeat DEF PoolInv
<1>6. CASE UNCHANGED vars BY <1>0, <1>6, OthersKeepBeat DEF vars
<1> QED BY <1>1, <1>2, <1>3, <1>4, <1>5, <1>6 DEF Next, Terminated

(* ConnectionHasHeartbeat in every reachable state, with and without the   *)
(* fork hook, if threads can always be started: a connection means a       *)
(* registration under the pid of the process, and a registration means a   *)
(* heartbeat or a thread inside the lock that is starting it.              *)
THEOREM EveryConnectionHasItsHeartbeat ==
    ASSUME ~StartMayFail
    PROVE  Spec => []ConnectionHasHeartbeat
<1>1. Init => TypeOK /\ HeartbeatInv /\ PoolInv /\ BeatInv
  BY InitType, InitHeartbeat, InitPool, InitBeat
<1>2. TypeOK /\ HeartbeatInv /\ PoolInv /\ BeatInv /\ [Next]_vars
         => (TypeOK /\ HeartbeatInv /\ PoolInv /\ BeatInv)'
  <2>1. HeartbeatInv => Alive BY DEF HeartbeatInv
  <2> QED BY <2>1, NextType, NextHeartbeat, NextPool, NextBeat
<1>3. BeatInv => ConnectionHasHeartbeat
  BY DEF BeatInv, EnrolledBeat, UsersEnrolled, Beating, ConnectionHasHeartbeat
<1> QED BY <1>1, <1>2, <1>3, PTL DEF Spec
-----------------------------------------------------------------------------
(* LazyStartup implements ProcessServices                                   *)

(* A process has no pools before it exists, and later those it built.      *)
OwnInv == \A p \in Procs :
    /\ status[p] = "unborn" => mem[p].pools = Nothing
    /\ \A a \in Aliases : mem[p].pools[a] # None => mem[p].pools[a].proc = p

ServiceInv == TypeOK /\ HeartbeatInv /\ PoolInv /\ OwnInv
-----------------------------------------------------------------------------
(* What the steps do to the services                                        *)

(* Only Set registers a pool and only SpawnHeartbeat starts a heartbeat.   *)
LEMMA ServicesKept ==
    ASSUME TypeOK, NEW p \in Procs, NEW t \in Threads, ThreadStep(p, t)
    PROVE  /\ ~Set(p, t) => mem'[p].pools = mem[p].pools
           /\ ~SpawnHeartbeat(p, t) => beats' = beats
<1>0. mem \in [Procs -> Memory] /\ mem[p] \in Memory BY DEF TypeOK, SharedOK
<1>1. CASE CreateConnection(p, t) BY <1>1 DEF CreateConnection
<1>2. CASE AcquirePoolLock(p, t) BY <1>0, <1>2 DEF AcquirePoolLock, Memory
<1>3. CASE Has(p, t) BY <1>0, <1>3 DEF Has, Memory
<1>4. CASE Set(p, t) BY <1>4 DEF Set
<1>5. CASE Get(p, t) BY <1>0, <1>5 DEF Get, Memory
<1>6. CASE Connect(p, t) BY <1>6 DEF Connect
<1>7. CASE EnsureStarted(p, t) BY <1>7 DEF EnsureStarted
<1>8. CASE AcquireHbLock(p, t) BY <1>0, <1>8 DEF AcquireHbLock, Memory
<1>9. CASE AlreadyStarted(p, t)
  <2>1. mem'[p] = [PidReset(mem[p], p) EXCEPT !.hbLock = "free"] /\ beats' = beats
    BY <1>0, <1>9 DEF AlreadyStarted
  <2> QED BY <1>0, <2>1 DEF PidReset, Memory
<1>10. CASE Register(p, t)
  <2>1. mem'[p] = WithThread(PidReset(mem[p], p), target[p][t]) /\ beats' = beats
    BY <1>0, <1>10 DEF Register
  <2> QED BY <1>0, <2>1 DEF WithThread, PidReset, Memory
<1>11. CASE SpawnHeartbeat(p, t)
  BY <1>0, <1>11 DEF SpawnHeartbeat, ReleaseHbLock, Memory
<1>12. CASE SpawnHeartbeatFails(p, t)
  BY <1>0, <1>12 DEF SpawnHeartbeatFails, ReleaseHbLock, Memory
<1>13. CASE SpawnWarmUp(p, t) BY <1>13 DEF SpawnWarmUp
<1>14. CASE SpawnWarmUpFails(p, t) BY <1>14 DEF SpawnWarmUpFails
<1> QED
  BY <1>1, <1>2, <1>3, <1>4, <1>5, <1>6, <1>7, <1>8, <1>9, <1>10, <1>11, <1>12,
     <1>13, <1>14 DEF ThreadStep

(* Everything else outside of fork() leaves pools and heartbeats as they   *)
(* are, and no process comes to be.                                        *)
OutsideOf(p, t) ==
    \/ \E a \in Aliases : GetNewConnection(p, t, a) \/ Close(p, t, a)
    \/ BackgroundAcquire(p) \/ BackgroundRelease(p) \/ Exit(p)

LEMMA OutsideKeepsServices ==
    ASSUME TypeOK, NEW p \in Procs, NEW t, OutsideOf(p, t)
    PROVE  /\ \A q \in Procs : mem'[q].pools = mem[q].pools
           /\ \A q \in Procs : status'[q] = "unborn" <=> status[q] = "unborn"
           /\ beats' = beats
<1>0. /\ mem \in [Procs -> Memory] /\ \A q \in Procs : mem[q] \in Memory
      /\ status \in [Procs -> {"unborn", "running", "exited"}]
  BY DEF TypeOK, SharedOK
<1>1. CASE \E a \in Aliases : GetNewConnection(p, t, a) \/ Close(p, t, a)
  BY <1>1 DEF GetNewConnection, Close
<1>2. CASE BackgroundAcquire(p) BY <1>0, <1>2 DEF BackgroundAcquire, Memory
<1>3. CASE BackgroundRelease(p) BY <1>0, <1>3 DEF BackgroundRelease, Memory
<1>4. CASE Exit(p) BY <1>0, <1>4 DEF Exit, Memory
<1> QED BY <1>1, <1>2, <1>3, <1>4 DEF OutsideOf

(* With the hook a child is born without pools. *)
LEMMA ForkStartsFresh ==
    ASSUME TypeOK, ForkHook,
           NEW p \in Procs, NEW t \in Threads, NEW c \in Procs, Fork(p, t, c)
    PROVE  mem'[c].pools = Nothing
<1>0. mem \in [Procs -> Memory] /\ mem[p] \in Memory BY DEF TypeOK, SharedOK
<1>1. mem'[c] = AfterForkInChild(Copied(mem[p]), c) BY <1>0 DEF Fork
<1>2. Copied(mem[p]) \in Memory BY <1>0, ForkKeepsMemory
<1>3. \A m \in Memory : AfterForkInChild(m, c).pools = Nothing
  BY DEF AfterForkInChild, ResetAfterFork, Memory
<1> QED BY <1>1, <1>2, <1>3
-----------------------------------------------------------------------------
(* The invariant                                                            *)

LEMMA InitOwn == Init => OwnInv
<1> SUFFICES ASSUME Init PROVE OwnInv OBVIOUS
<1>1. \A p \in Procs : mem[p].pools = Nothing BY DEF Init, FreshMemory
<1>2. \A a \in Aliases : Nothing[a] = None BY DEF Nothing
<1> QED BY <1>1, <1>2 DEF OwnInv

LEMMA NextOwn == ForkHook /\ TypeOK /\ Alive /\ OwnInv /\ [Next]_vars => OwnInv'
<1> SUFFICES ASSUME ForkHook, TypeOK, Alive, OwnInv, [Next]_vars PROVE OwnInv'
  OBVIOUS
<1>1. ASSUME NEW p \in Procs, NEW t \in Threads, ThreadStep(p, t) PROVE OwnInv'
  <2>1. /\ status' = status /\ status[p] = "running"
        /\ \A q \in Procs \ {p} : mem'[q] = mem[q]
    BY <1>1, ThreadStepIsLocal DEF Alive
  <2>2. \A a \in Aliases :
           \/ mem'[p].pools[a] = mem[p].pools[a]
           \/ mem'[p].pools[a] = [proc |-> p, by |-> t]
    BY <1>1, PoolsGrow
  <2> QED BY <2>1, <2>2 DEF OwnInv
<1>2. ASSUME NEW p \in Procs, NEW t, OutsideOf(p, t) PROVE OwnInv'
  BY <1>2, OutsideKeepsServices DEF OwnInv
<1>3. ASSUME NEW p \in Procs, NEW t \in Threads, NEW c \in Procs, Fork(p, t, c)
      PROVE  OwnInv'
  <2>1. /\ status' = [status EXCEPT ![c] = "running"]
        /\ \A q \in Procs \ {c} : mem'[q] = mem[q]
    BY <1>3, ForkEffect
  <2>2. mem'[c].pools = Nothing BY <1>3, ForkStartsFresh
  <2> QED BY <2>1, <2>2 DEF OwnInv, Nothing, TypeOK, SharedOK
<1>4. CASE UNCHANGED vars BY <1>4 DEF vars, OwnInv
<1> QED BY <1>1, <1>2, <1>3, <1>4 DEF Next, Terminated, OutsideOf

LEMMA ServiceInvariant == ASSUME ForkHook PROVE Spec => []ServiceInv
<1>1. Init => ServiceInv
  BY InitType, InitHeartbeat, InitPool, InitOwn DEF ServiceInv
<1>2. ServiceInv /\ [Next]_vars => ServiceInv'
  <2>1. HeartbeatInv => Alive BY DEF HeartbeatInv
  <2> QED BY <2>1, NextType, NextHeartbeat, NextPool, NextOwn DEF ServiceInv
<1> QED BY <1>1, <1>2, PTL DEF Spec
-----------------------------------------------------------------------------
(* NewConnectionsAreOwn for every step: with the fork hook, the pool a     *)
(* connection comes from was built by the process that asks for it, so     *)
(* that the socket is its own ("each worker lazily builds its own          *)
(* connections", pool.py).                                                 *)
THEOREM ConnectionsAreOwn ==
    ASSUME ForkHook PROVE Spec => NewConnectionsAreOwn
<1> DEFINE Own == \A p \in Procs, t \in Threads, a \in Aliases :
               (status[p] = "running" /\ conn[p][t][a] = None /\ conn'[p][t][a] # None)
                   => conn'[p][t][a].opener = p
<1>1. ServiceInv /\ [Next]_vars => [Own]_vars
  <2> SUFFICES ASSUME ServiceInv, Next PROVE Own OBVIOUS
  <2>0. conn \in [Procs -> [Threads -> [Aliases -> Links \cup {None}]]]
    BY DEF ServiceInv, TypeOK, SharedOK
  <2>1. ASSUME NEW p \in Procs, NEW t \in Threads, ThreadStep(p, t) PROVE Own
    <3>1. \A q \in Procs \ {p} : conn'[q] = conn[q]
      BY <2>1, ThreadStepIsLocal DEF ServiceInv
    <3>2. ASSUME NEW u \in Threads, NEW a \in Aliases,
                 conn[p][u][a] = None, conn'[p][u][a] # None
          PROVE  conn'[p][u][a].opener = p
      <4>1. \/ conn'[p][u][a] = [opener |-> p, pool |-> None]
            \/ /\ mem[p].pools[a] # None
               /\ \E o \in {p, mem[p].pools[a].proc} :
                     conn'[p][u][a] = [opener |-> o, pool |-> mem[p].pools[a]]
        BY <2>1, <3>2, StepConnects DEF ServiceInv, PoolInv
      <4>2. mem[p].pools[a] # None => mem[p].pools[a].proc = p
        BY DEF ServiceInv, OwnInv
      <4> QED BY <4>1, <4>2
    <3> QED BY <3>1, <3>2
  <2>2. ASSUME NEW p \in Procs, NEW t \in Threads, NEW a \in Aliases,
               GetNewConnection(p, t, a) \/ Close(p, t, a)
        PROVE  Own
    BY <2>2, OutsideSteps DEF ServiceInv
  <2>3. ASSUME NEW p \in Procs,
               BackgroundAcquire(p) \/ BackgroundRelease(p) \/ Exit(p)
        PROVE  Own
    BY <2>3 DEF BackgroundAcquire, BackgroundRelease, Exit
  <2>4. ASSUME NEW p \in Procs, NEW t \in Threads, NEW c \in Procs, Fork(p, t, c)
        PROVE  Own
    BY <2>4, ForkEffect DEF ServiceInv
  <2>5. CASE Terminated BY <2>5 DEF Terminated, vars
  <2> QED BY <2>1, <2>2, <2>3, <2>4, <2>5 DEF Next
<1> QED BY <1>1, ServiceInvariant, PTL DEF Spec, NewConnectionsAreOwn
-----------------------------------------------------------------------------
(* The refinement                                                           *)

LEMMA InitServices == Init => Services!Init
<1> SUFFICES ASSUME Init PROVE Services!Init OBVIOUS
<1>1. {p \in Procs : status[p] # "unborn"} = {Root} BY ConstantsOK DEF Init
<1>2. [p \in Procs |-> mem[p].pools] = [p \in Procs |-> [a \in Aliases |-> None]]
  BY DEF Init, FreshMemory, Nothing
<1>3. [p \in Procs |-> {b.alias : b \in beats[p]}] = [p \in Procs |-> {}]
  BY DEF Init
<1> QED BY <1>1, <1>2, <1>3 DEF Services!Init

LEMMA StutterServices ==
    ASSUME \A q \in Procs : mem'[q].pools = mem[q].pools,
           \A q \in Procs : status'[q] = "unborn" <=> status[q] = "unborn",
           beats' = beats
    PROVE  UNCHANGED Services!vars
BY DEF Services!vars

(* Set opens the pool of the alias, or finds one there. *)
LEMMA SetOpensPool ==
    ASSUME ServiceInv, NEW p \in Procs, NEW t \in Threads, ThreadStep(p, t), Set(p, t)
    PROVE  [Services!Next]_(Services!vars)
<1>0. mem \in [Procs -> Memory] /\ mem[p] \in Memory
  BY DEF ServiceInv, TypeOK, SharedOK
<1>a. PICK a \in Aliases : a = target[p][t]
  BY ThreadStepIsLocal, TargetIsAlias DEF ServiceInv
<1>1. /\ status' = status /\ beats' = beats /\ status[p] = "running"
      /\ \A q \in Procs \ {p} : mem'[q] = mem[q]
  BY ThreadStepIsLocal DEF Set, ServiceInv, HeartbeatInv, Alive
<1>2. mem'[p].pools = Registered(mem[p].pools, a, [proc |-> p, by |-> t])
  BY <1>0, <1>a DEF Set, Memory
<1>3. CASE mem[p].pools[a] # None
  <2>1. \A q \in Procs : mem'[q].pools = mem[q].pools
    BY <1>1, <1>2, <1>3 DEF Registered
  <2>2. \A q \in Procs : status'[q] = "unborn" <=> status[q] = "unborn"
    BY <1>1
  <2>3. UNCHANGED Services!vars BY <1>1, <2>1, <2>2, StutterServices
  <2> QED BY <2>3
<1>4. CASE mem[p].pools[a] = None
  <2>1. mem'[p].pools = [mem[p].pools EXCEPT ![a] = [proc |-> p, by |-> t]]
    BY <1>2, <1>4 DEF Registered
  <2>2. [q \in Procs |-> mem'[q].pools]
           = [[q \in Procs |-> mem[q].pools]
                 EXCEPT ![p][a] = [proc |-> p, by |-> t]]
    BY <1>1, <2>1
  <2>3. Services!OpenPool(p, a)
    BY <1>1, <1>4, <2>2 DEF Services!OpenPool
  <2> QED BY <2>3 DEF Services!Next
<1> QED BY <1>3, <1>4

(* SpawnHeartbeat starts the first heartbeat of the alias, whose pool is   *)
(* in the container.                                                       *)
LEMMA SpawnStartsBeating ==
    ASSUME ServiceInv, NEW p \in Procs, NEW t \in Threads, ThreadStep(p, t),
           SpawnHeartbeat(p, t)
    PROVE  [Services!Next]_(Services!vars)
<1>0. /\ mem \in [Procs -> Memory] /\ beats \in [Procs -> SUBSET Workers]
  BY DEF ServiceInv, TypeOK, SharedOK
<1>a. PICK a \in Aliases : a = target[p][t]
  BY ThreadStepIsLocal, TargetIsAlias DEF ServiceInv
<1>1. /\ status' = status /\ status[p] = "running" /\ pc[p][t] = "spawn"
      /\ beats' = [beats EXCEPT ![p] = @ \cup {Worker(p, t)}]
      /\ \A q \in Procs \ {p} : mem'[q] = mem[q]
  BY ThreadStepIsLocal
  DEF SpawnHeartbeat, HoldsHbLock, ServiceInv, HeartbeatInv, Alive
<1>2. \A q \in Procs : mem'[q].pools = mem[q].pools
  <2>1. ~Set(p, t) BY <1>1 DEF Set, HoldsPoolLock
  <2> QED BY <1>1, <2>1, ServicesKept DEF ServiceInv
<1>3. mem[p].pools[a] # None
  BY <1>a, <1>1 DEF ServiceInv, PoolInv, Pooled, Looking
<1>4. a \notin {b.alias : b \in beats[p]}
  BY <1>a, <1>1 DEF ServiceInv, HeartbeatInv, Ownership
<1>5. {b.alias : b \in beats'[p]} = {b.alias : b \in beats[p]} \cup {a}
  <2>1. beats'[p] = beats[p] \cup {Worker(p, t)} BY <1>0, <1>1
  <2>2. Worker(p, t).alias = a BY <1>a DEF Worker
  <2> QED BY <2>1, <2>2
<1>6. [q \in Procs |-> {b.alias : b \in beats'[q]}]
         = [[q \in Procs |-> {b.alias : b \in beats[q]}]
               EXCEPT ![p] = @ \cup {a}]
  BY <1>0, <1>1, <1>5
<1>7. Services!StartBeating(p, a)
  BY <1>1, <1>2, <1>3, <1>4, <1>6 DEF Services!StartBeating
<1> QED BY <1>7 DEF Services!Next

(* fork() starts a process with neither. *)
LEMMA ForkStartsProcess ==
    ASSUME ServiceInv, ForkHook,
           NEW p \in Procs, NEW t \in Threads, NEW c \in Procs, Fork(p, t, c)
    PROVE  [Services!Next]_(Services!vars)
<1>1. /\ beats' = beats /\ status[c] = "unborn"
      /\ status' = [status EXCEPT ![c] = "running"]
      /\ \A q \in Procs \ {c} : mem'[q] = mem[q]
  BY ForkEffect DEF ServiceInv
<1>2. mem'[c].pools = mem[c].pools
  BY <1>1, ForkStartsFresh DEF ServiceInv, OwnInv
<1>3. status \in [Procs -> {"unborn", "running", "exited"}]
  BY DEF ServiceInv, TypeOK, SharedOK
<1>4. {q \in Procs : status'[q] # "unborn"}
         = {q \in Procs : status[q] # "unborn"} \cup {c}
  BY <1>1, <1>3
<1>5. Services!StartProcess(c)
  BY <1>1, <1>2, <1>4 DEF Services!StartProcess
<1> QED BY <1>5 DEF Services!Next

LEMMA NextServices ==
    ASSUME ForkHook
    PROVE  ServiceInv /\ [Next]_vars => [Services!Next]_(Services!vars)
<1> SUFFICES ASSUME ServiceInv, [Next]_vars PROVE [Services!Next]_(Services!vars)
  OBVIOUS
<1>1. ASSUME NEW p \in Procs, NEW t \in Threads, ThreadStep(p, t)
      PROVE  [Services!Next]_(Services!vars)
  <2>1. CASE Set(p, t) BY <1>1, <2>1, SetOpensPool
  <2>2. CASE SpawnHeartbeat(p, t) BY <1>1, <2>2, SpawnStartsBeating
  <2>3. CASE ~Set(p, t) /\ ~SpawnHeartbeat(p, t)
    <3>1. /\ status' = status /\ beats' = beats
          /\ \A q \in Procs : mem'[q].pools = mem[q].pools
      BY <1>1, <2>3, ThreadStepIsLocal, ServicesKept DEF ServiceInv
    <3> QED BY <3>1, StutterServices
  <2> QED BY <2>1, <2>2, <2>3
<1>2. ASSUME NEW p \in Procs, NEW t, OutsideOf(p, t)
      PROVE  [Services!Next]_(Services!vars)
  BY <1>2, OutsideKeepsServices, StutterServices DEF ServiceInv
<1>3. ASSUME NEW p \in Procs, NEW t \in Threads, NEW c \in Procs, Fork(p, t, c)
      PROVE  [Services!Next]_(Services!vars)
  BY <1>3, ForkStartsProcess
<1>4. CASE UNCHANGED vars BY <1>4, StutterServices DEF vars
<1> QED BY <1>1, <1>2, <1>3, <1>4 DEF Next, Terminated, OutsideOf

(* ImplementsServices: with the fork hook every behaviour of the startup,  *)
(* seen through its pools and heartbeats, is one of ProcessServices.       *)
THEOREM StartupImplementsServices ==
    ASSUME ForkHook PROVE Spec => ImplementsServices
<1>1. Init => Services!Init BY InitServices
<1>2. ServiceInv /\ [Next]_vars => [Services!Next]_(Services!vars)
  BY NextServices
<1> QED
  BY <1>1, <1>2, ServiceInvariant, PTL DEF Spec, ImplementsServices, Services!Spec
-----------------------------------------------------------------------------
(* Locks                                                                    *)

PoolSections == {"has", "set", "get"}
HbSections == {"start", "spawn"}

(* Whoever holds a lock of a process is a background thread or a thread at  *)
(* a step that needs no other lock; the two are never held together.        *)
HoldersCanGoOn == \A p \in Procs :
    /\ mem[p].poolLock # "orphan" /\ mem[p].hbLock # "orphan"
    /\ status[p] = "unborn" => mem[p].poolLock = "free" /\ mem[p].hbLock = "free"
    /\ \A t \in Threads :
          /\ mem[p].poolLock = t => pc[p][t] \in PoolSections
          /\ mem[p].hbLock = t => pc[p][t] \in HbSections

(* A step of a thread takes a lock in the section of it, keeps it there, or *)
(* gives it back.                                                           *)
LEMMA LockSteps ==
    ASSUME TypeOK, NEW p \in Procs, NEW t \in Threads, ThreadStep(p, t),
           mem[p].poolLock = t => pc[p][t] \in PoolSections,
           mem[p].hbLock = t => pc[p][t] \in HbSections
    PROVE  /\ mem'[p].poolLock \in {"free", mem[p].poolLock, t}
           /\ mem'[p].poolLock = t => pc'[p][t] \in PoolSections
           /\ mem'[p].hbLock \in {"free", mem[p].hbLock, t}
           /\ mem'[p].hbLock = t => pc'[p][t] \in HbSections
<1>0. mem \in [Procs -> Memory] /\ mem[p] \in Memory
  BY DEF TypeOK, SharedOK
<1>1. pc \in [Procs -> [Threads -> Steps]] /\ t # "free"
  BY ConstantsOK DEF TypeOK, LocalsOK
<1> USE <1>0, <1>1 DEF PoolSections, HbSections, Goto
<1>2. CASE CreateConnection(p, t)
  BY <1>2 DEF CreateConnection, Leave
<1>3. CASE AcquirePoolLock(p, t)
  BY <1>3 DEF AcquirePoolLock, Memory
<1>4. CASE Has(p, t)
  BY <1>4 DEF Has, HoldsPoolLock, Memory
<1>5. CASE Set(p, t)
  BY <1>5 DEF Set, HoldsPoolLock, Memory
<1>6. CASE Get(p, t)
  BY <1>6 DEF Get, HoldsPoolLock, Leave, Memory
<1>7. CASE Connect(p, t)
  BY <1>7 DEF Connect, Leave
<1>8. CASE EnsureStarted(p, t)
  BY <1>8 DEF EnsureStarted
<1>9. CASE AcquireHbLock(p, t)
  BY <1>9 DEF AcquireHbLock, Memory
<1>10. CASE AlreadyStarted(p, t)
  <2>1. mem'[p] = [PidReset(mem[p], p) EXCEPT !.hbLock = "free"] /\ pc[p][t] = "start"
    BY <1>10 DEF AlreadyStarted, HoldsHbLock
  <2>2. mem'[p].hbLock = "free" /\ mem'[p].poolLock = mem[p].poolLock
    BY <2>1 DEF PidReset, Memory
  <2> QED BY <2>1, <2>2
<1>11. CASE Register(p, t)
  <2>1. /\ mem'[p] = WithThread(PidReset(mem[p], p), target[p][t])
        /\ pc[p][t] = "start" /\ mem[p].hbLock = t /\ pc'[p][t] = "spawn"
    BY <1>11 DEF Register, HoldsHbLock
  <2>2. mem'[p].hbLock = t /\ mem'[p].poolLock = mem[p].poolLock
    BY <2>1 DEF PidReset, WithThread, Memory
  <2> QED BY <2>1, <2>2
<1>12. CASE SpawnHeartbeat(p, t)
  BY <1>12 DEF SpawnHeartbeat, HoldsHbLock, ReleaseHbLock, Memory
<1>13. CASE SpawnHeartbeatFails(p, t)
  BY <1>13 DEF SpawnHeartbeatFails, HoldsHbLock, ReleaseHbLock, Leave, Memory
<1>14. CASE SpawnWarmUp(p, t)
  BY <1>14 DEF SpawnWarmUp
<1>15. CASE SpawnWarmUpFails(p, t)
  BY <1>15 DEF SpawnWarmUpFails, Leave
<1> QED
  BY <1>2, <1>3, <1>4, <1>5, <1>6, <1>7, <1>8, <1>9, <1>10, <1>11, <1>12, <1>13,
     <1>14, <1>15 DEF ThreadStep

(* With the hook a child is born with free locks, whoever held them in the  *)
(* parent.                                                                  *)
LEMMA ForkFreesLocks ==
    ASSUME TypeOK, ForkHook,
           NEW p \in Procs, NEW t \in Threads, NEW c \in Procs, Fork(p, t, c)
    PROVE  mem'[c].poolLock = "free" /\ mem'[c].hbLock = "free"
<1>0. mem \in [Procs -> Memory] /\ mem[p] \in Memory BY DEF TypeOK, SharedOK
<1>1. mem'[c] = AfterForkInChild(Copied(mem[p]), c) BY <1>0 DEF Fork
<1>2. Copied(mem[p]) \in Memory BY <1>0, ForkKeepsMemory
<1>3. \A m \in Memory : /\ AfterForkInChild(m, c).poolLock = "free"
                        /\ AfterForkInChild(m, c).hbLock = "free"
  BY DEF AfterForkInChild, ResetAfterFork, Memory
<1> QED BY <1>1, <1>2, <1>3

LEMMA NextHolders ==
    ForkHook /\ TypeOK /\ Alive /\ HoldersCanGoOn /\ [Next]_vars => HoldersCanGoOn'
<1> SUFFICES ASSUME ForkHook, TypeOK, Alive, HoldersCanGoOn, [Next]_vars
             PROVE  HoldersCanGoOn'
  OBVIOUS
<1>0. mem \in [Procs -> Memory] /\ \A p \in Procs : mem[p] \in Memory
  BY DEF TypeOK, SharedOK
<1>1. ASSUME NEW p \in Procs, NEW t \in Threads, ThreadStep(p, t)
      PROVE  HoldersCanGoOn'
  <2>1. /\ pc[p][t] # "idle" /\ status' = status
        /\ \A q \in Procs, u \in Threads : (q # p \/ u # t) => pc'[q][u] = pc[q][u]
        /\ \A q \in Procs \ {p} : mem'[q] = mem[q]
    BY <1>1, ThreadStepIsLocal
  <2>2. /\ mem'[p].poolLock \in {"free", mem[p].poolLock, t}
        /\ mem'[p].poolLock = t => pc'[p][t] \in PoolSections
        /\ mem'[p].hbLock \in {"free", mem[p].hbLock, t}
        /\ mem'[p].hbLock = t => pc'[p][t] \in HbSections
    BY <1>1, LockSteps DEF HoldersCanGoOn
  <2>3. status[p] = "running" /\ t # "orphan" /\ \A u \in Threads : u # "free"
    BY <2>1, ConstantsOK DEF Alive
  <2> QED BY <2>1, <2>2, <2>3 DEF HoldersCanGoOn
<1>2. ASSUME NEW p \in Procs, NEW t \in Threads, NEW a \in Aliases,
             GetNewConnection(p, t, a)
      PROVE  HoldersCanGoOn'
  <2>1. /\ mem' = mem /\ status' = status /\ pc[p][t] = "idle"
        /\ \A q \in Procs, u \in Threads : (q # p \/ u # t) => pc'[q][u] = pc[q][u]
    BY <1>2 DEF GetNewConnection, Goto, TypeOK, LocalsOK
  <2>2. mem[p].poolLock # t /\ mem[p].hbLock # t
    BY <2>1 DEF HoldersCanGoOn, PoolSections, HbSections
  <2> QED BY <2>1, <2>2 DEF HoldersCanGoOn
<1>3. ASSUME NEW p \in Procs, NEW t \in Threads, NEW a \in Aliases, Close(p, t, a)
      PROVE  HoldersCanGoOn'
  BY <1>3 DEF Close, HoldersCanGoOn
<1>4. ASSUME NEW p \in Procs, BackgroundAcquire(p) \/ BackgroundRelease(p) \/ Exit(p)
      PROVE  HoldersCanGoOn'
  <2>1. /\ pc' = pc /\ status[p] = "running"
        /\ \A q \in Procs \ {p} : mem'[q] = mem[q] /\ status'[q] = status[q]
    BY <1>4 DEF BackgroundAcquire, BackgroundRelease, Exit, TypeOK, SharedOK
  <2>2. /\ mem'[p].poolLock \in {"free", "background", mem[p].poolLock}
        /\ mem'[p].hbLock = mem[p].hbLock
    BY <1>0, <1>4 DEF BackgroundAcquire, BackgroundRelease, Exit, Memory
  <2>3. status'[p] # "unborn"
    BY <1>4, <2>1 DEF BackgroundAcquire, BackgroundRelease, Exit, TypeOK, SharedOK
  <2>4. \A u \in Threads : u \notin {"free", "background"}
    BY ConstantsOK
  <2> QED BY <2>1, <2>2, <2>3, <2>4 DEF HoldersCanGoOn
<1>5. ASSUME NEW p \in Procs, NEW t \in Threads, NEW c \in Procs, Fork(p, t, c)
      PROVE  HoldersCanGoOn'
  <2>1. /\ status' = [status EXCEPT ![c] = "running"] /\ pc' = pc
        /\ \A q \in Procs \ {c} : mem'[q] = mem[q]
    BY <1>5, ForkEffect DEF Fork
  <2>2. mem'[c].poolLock = "free" /\ mem'[c].hbLock = "free"
    BY <1>5, ForkFreesLocks
  <2>3. \A u \in Threads : u # "free"
    BY ConstantsOK
  <2>4. \A q \in Procs \ {c} : status'[q] = status[q]
    BY <2>1 DEF TypeOK, SharedOK
  <2> QED BY <2>1, <2>2, <2>3, <2>4, <1>5 DEF HoldersCanGoOn
<1>6. CASE UNCHANGED vars
  BY <1>6 DEF vars, HoldersCanGoOn
<1> QED BY <1>1, <1>2, <1>3, <1>4, <1>5, <1>6 DEF Next, Terminated

(* With the fork hook no lock is ever held by a thread that did not survive *)
(* a fork() (pool.py:98); a thread that holds one runs in the process, and  *)
(* it does not wait for the other.  HeldLocksAreReleased rests on this,     *)
(* however many processes and threads there are.                            *)
THEOREM LocksAreNeverOrphaned ==
    ASSUME ForkHook PROVE Spec => [](Alive /\ HoldersCanGoOn)
<1>1. Init => HoldersCanGoOn
  <2> SUFFICES ASSUME Init PROVE HoldersCanGoOn
    OBVIOUS
  <2>1. \A p \in Procs : mem[p].poolLock = "free" /\ mem[p].hbLock = "free"
    BY DEF Init, FreshMemory
  <2>2. \A u \in Threads : u # "free"
    BY ConstantsOK
  <2> QED BY <2>1, <2>2 DEF HoldersCanGoOn
<1>2. HeartbeatInv => Alive
  BY DEF HeartbeatInv
<1>3. TypeOK /\ Alive /\ HoldersCanGoOn /\ [Next]_vars
         => (TypeOK /\ Alive /\ HoldersCanGoOn)'
  BY NextType, NextAlive, NextHolders
<1> QED BY InitType, InitHeartbeat, <1>1, <1>2, <1>3, PTL DEF Spec
=============================================================================
