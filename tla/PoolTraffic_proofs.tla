-------------------------- MODULE PoolTraffic_proofs --------------------------
(***************************************************************************)
(* Proofs about PoolTraffic for any number of request threads, any         *)
(* POOL_SIZE and MAX_OVERFLOW, with and without PRE_PING.                  *)
(***************************************************************************)
EXTENDS PoolTraffic, FiniteSetTheorems, TLAPS

(* The places of the program in which a user can be. *)
StepsOf(u) ==
    {"connecting", "preparing", "creating"} \cup
        IF u = Warmer THEN {"warming", "releasing", "done"}
        ELSE IF u = Heartbeat THEN {"away", "using", "failed"}
        ELSE {"away", "using"}

(* A record is out exactly when its user has it in hand, with a session if *)
(* it is used; only the warm-up has others besides the one it checks out.  *)
Hands ==
    /\ \A u \in Users : step[u] \in StepsOf(u)
    /\ \A u \in Users :
          IF step[u] \in {"preparing", "creating", "using", "failed"}
          THEN got[u] \in Records /\ place[got[u]] = u
          ELSE got[u] = None
    /\ \A r \in Records : place[r] \in Users \ {Warmer} => got[place[r]] = r
    /\ \A u \in Users : step[u] \in {"using", "failed"} => session[got[u]] # "none"
    /\ step[Warmer] = "done" => \A r \in Records : place[r] # Warmer

QueueFits == Cardinality(Queue) <= PoolSize

(* The warm-up asks for one more only if it has less than it wants. *)
WarmUpFits ==
    /\ Cardinality(Held(Warmer)) <= PoolSize
    /\ step[Warmer] = "connecting" => Cardinality(Held(Warmer)) < PoolSize

(* New records, which are given up when their connect fails. *)
Creating == {r \in Records : \E u \in Users : step[u] = "creating" /\ got[u] = r}
Kept == Records \ (Absent \cup Creating)

(* After the warm-up those that are not given up so easily fill the pool. *)
KeptIsFull == warmed => Cardinality(Kept) >= PoolSize

(* A kept record is open, or has lost its session and not given it up. *)
OpenOrLost == {r \in Records : session[r] = "live" \/ r \in lost}
KeptIsOpen == Kept \subseteq OpenOrLost

IInv == /\ TypeOK /\ Hands /\ QueueFits /\ WarmUpFits /\ FailedPingIsNotReused
        /\ KeptIsFull /\ KeptIsOpen
-----------------------------------------------------------------------------
LEMMA UsersDiffer ==
    /\ Heartbeat \in Users /\ Warmer \in Users /\ Heartbeat # Warmer
    /\ Users = Clients \cup {Heartbeat, Warmer}
    /\ \A c \in Clients : c \in Users /\ c # Heartbeat /\ c # Warmer
    /\ "absent" \notin Users /\ "queue" \notin Users /\ None \notin Records
  BY ConstantsOK DEF Users

(* The actions of a user that are not part of pool.connect().              *)
Other ==
    \/ \E c \in Clients : Connect(c) \/ Close(c)
    \/ BeginPing \/ PingSucceeds \/ PingFails \/ DiscardFailed
    \/ WarmNext \/ Release \/ WarmDone
    \/ \E r \in Records : SessionDies(r)
    \/ Shutdown \/ UNCHANGED vars

LEMMA NextCases == [Next]_vars => Other \/ \E u \in Users : Connecting(u)
  BY DEF Next, Other, PingStep, WarmStep, Terminated

(* A record that is given back goes to the queue or is absent. *)
LEMMA EnqueueMoves ==
    ASSUME NEW r, Enqueue(r)
    PROVE  \/ place' = [place EXCEPT ![r] = "queue"] /\ Cardinality(Queue) < PoolSize
           \/ place' = [place EXCEPT ![r] = "absent"] /\ ~(Cardinality(Queue) < PoolSize)
  BY DEF Enqueue

(* What closing a connection may do to its session and the marks on it. *)
SessionKept == UNCHANGED <<session, stale, suspect>>

LEMMA CloseKeepsOrDrops ==
    ASSUME NEW r, CloseFairy(r)
    PROVE  Enqueue(r) /\ UNCHANGED lost /\ (Drop(r) \/ SessionKept)
  BY DEF CloseFairy, SessionKept

LEMMA GivenBack ==
    ASSUME TypeOK, NEW r \in Records, Enqueue(r), Drop(r) \/ SessionKept
    PROVE  /\ place' \in [Records -> Users \cup {"absent", "queue"}]
           /\ place'[r] \notin Users
           /\ \A q \in Records \ {r} :
                 place'[q] = place[q] /\ session'[q] = session[q]
           /\ session' \in [Records -> {"none", "live", "dead"}]
           /\ stale' \subseteq Records /\ suspect' \subseteq suspect
           /\ suspect' \subseteq Records
           /\ \A q \in stale' \cup suspect' : session'[q] # "none"
  BY UsersDiffer, EnqueueMoves DEF TypeOK, Drop, SessionKept
-----------------------------------------------------------------------------
(* Types and hands                                                          *)

LEMMA HandsConnecting ==
    ASSUME TypeOK, Hands, NEW u \in Users, Connecting(u)
    PROVE  TypeOK' /\ Hands'
<1> USE UsersDiffer DEF TypeOK, Hands, StepsOf
<1>1. CASE Take(u)
  BY <1>1 DEF Take, Goto, Held, Queue, Absent
<1>2. CASE TimeOut(u)
  BY <1>2 DEF TimeOut, Failed, Goto
<1>3. CASE CheckOut(u)
  BY <1>3 DEF CheckOut, HandOver, Goto
<1>4. CASE PrePingFails(u)
  BY <1>4 DEF PrePingFails, Lose
<1>5. CASE Recycle(u)
  BY <1>5 DEF Recycle, Drop, Lose
<1>6. CASE Open(u)
  BY <1>6 DEF Open, HandOver, Goto
<1>7. CASE OpenFails(u)
  BY <1>7 DEF OpenFails, Enqueue, Failed, Goto
<1> QED BY <1>1, <1>2, <1>3, <1>4, <1>5, <1>6, <1>7 DEF Connecting

LEMMA HandsOther ==
    ASSUME TypeOK, Hands, Other
    PROVE  TypeOK' /\ Hands'
<1> USE UsersDiffer DEF TypeOK, Hands, StepsOf
<1>1. ASSUME NEW c \in Clients, Connect(c)
      PROVE  TypeOK' /\ Hands'
  BY <1>1 DEF Connect, Goto
<1>2. ASSUME NEW c \in Clients, Close(c)
      PROVE  TypeOK' /\ Hands'
  <2>1. got[c] \in Records
    BY <1>2 DEF Close
  <2> QED BY <1>2, <2>1, CloseKeepsOrDrops, GivenBack DEF Close, Goto
<1>3. CASE BeginPing
  BY <1>3 DEF BeginPing, Goto
<1>4. CASE PingSucceeds
  <2>1. got[Heartbeat] \in Records
    BY <1>4 DEF PingSucceeds
  <2> QED BY <1>4, <2>1, CloseKeepsOrDrops, GivenBack DEF PingSucceeds, Goto
<1>5. CASE PingFails
  BY <1>5 DEF PingFails, ExceptClause, Goto
<1>6. CASE DiscardFailed
  <2>1. got[Heartbeat] \in Records
    BY <1>6 DEF DiscardFailed
  <2> QED BY <1>6, <2>1, GivenBack DEF DiscardFailed, Discard, Invalidate, Lose, Goto
<1>7. CASE WarmNext
  <2>1. \E s \in {"releasing", "connecting"} : step' = [step EXCEPT ![Warmer] = s]
    BY <1>7 DEF WarmNext, Goto
  <2>2. warmed' \in BOOLEAN /\ step[Warmer] = "warming"
    BY <1>7 DEF WarmNext
  <2>3. UNCHANGED <<place, session, stale, suspect, lost, got, exit>>
    BY <1>7 DEF WarmNext
  <2> QED BY <2>1, <2>2, <2>3
<1>8. CASE Release
  <2>1. PICK r \in Held(Warmer) :
           Enqueue(r) /\ (Drop(r) \/ SessionKept) /\ lost' \in {lost, lost \cup {r}}
    BY <1>8, CloseKeepsOrDrops DEF Release, Invalidate, Lose
  <2> QED BY <1>8, <2>1, GivenBack DEF Release, Held
<1>9. CASE WarmDone
  BY <1>9 DEF WarmDone, AllReleased, Held, Goto
<1>10. ASSUME NEW r \in Records, SessionDies(r)
       PROVE  TypeOK' /\ Hands'
  BY <1>10 DEF SessionDies, Lose
<1>11. CASE Shutdown
  BY <1>11 DEF Shutdown
<1>12. CASE UNCHANGED vars
  BY <1>12 DEF vars
<1> QED BY <1>1, <1>2, <1>3, <1>4, <1>5, <1>6, <1>7, <1>8, <1>9, <1>10, <1>11,
           <1>12 DEF Other
-----------------------------------------------------------------------------
(* Failed pings                                                             *)

LEMMA FailedPingConnecting ==
    ASSUME TypeOK, Hands, FailedPingIsNotReused, NEW u \in Users, Connecting(u)
    PROVE  FailedPingIsNotReused'
<1> USE UsersDiffer DEF TypeOK, Hands, FailedPingIsNotReused
<1>1. CASE Take(u)
  BY <1>1 DEF Take, Goto, Held, Queue, Absent
<1>2. CASE TimeOut(u)
  BY <1>2 DEF TimeOut, Failed, Goto
<1>3. CASE CheckOut(u)
  BY <1>3 DEF CheckOut, HandOver, Goto
<1>4. CASE PrePingFails(u)
  BY <1>4 DEF PrePingFails
<1>5. CASE Recycle(u)
  BY <1>5 DEF Recycle, Drop
<1>6. CASE Open(u)
  BY <1>6 DEF Open, HandOver, Goto
<1>7. CASE OpenFails(u)
  BY <1>7 DEF OpenFails, Enqueue, Failed, Goto
<1> QED BY <1>1, <1>2, <1>3, <1>4, <1>5, <1>6, <1>7 DEF Connecting

LEMMA FailedPingOther ==
    ASSUME TypeOK, Hands, FailedPingIsNotReused, Other
    PROVE  FailedPingIsNotReused'
<1> USE UsersDiffer DEF TypeOK, Hands, FailedPingIsNotReused
<1>1. ASSUME NEW c \in Clients, Connect(c)
      PROVE  FailedPingIsNotReused'
  BY <1>1 DEF Connect, Goto
<1>2. ASSUME NEW c \in Clients, Close(c)
      PROVE  FailedPingIsNotReused'
  <2>1. got[c] \in Records /\ got[c] \notin suspect
    BY <1>2 DEF Close
  <2> QED BY <1>2, <2>1, CloseKeepsOrDrops, GivenBack DEF Close, Goto
<1>3. CASE BeginPing
  BY <1>3 DEF BeginPing, Goto
<1>4. CASE PingSucceeds
  <2>1. got[Heartbeat] \in Records /\ got[Heartbeat] \notin suspect
    BY <1>4 DEF PingSucceeds
  <2> QED BY <1>4, <2>1, CloseKeepsOrDrops, GivenBack DEF PingSucceeds, Goto
<1>5. CASE PingFails
  BY <1>5 DEF PingFails, ExceptClause, Goto
<1>6. CASE DiscardFailed
  BY <1>6 DEF DiscardFailed, Discard, Invalidate, Drop
<1>7. CASE WarmNext
  <2>1. step'[Heartbeat] = step[Heartbeat]
    BY <1>7 DEF WarmNext, Goto
  <2> QED BY <1>7, <2>1 DEF WarmNext
<1>8. CASE Release
  <2>1. PICK r \in Held(Warmer) : Enqueue(r) /\ (Drop(r) \/ SessionKept)
    BY <1>8, CloseKeepsOrDrops DEF Release, Invalidate, Lose
  <2>2. r \in Records /\ r \notin suspect
    BY <2>1 DEF Held
  <2> QED BY <1>8, <2>1, <2>2, GivenBack DEF Release
<1>9. CASE WarmDone
  BY <1>9 DEF WarmDone, Goto
<1>10. ASSUME NEW r \in Records, SessionDies(r)
       PROVE  FailedPingIsNotReused'
  BY <1>10 DEF SessionDies
<1>11. CASE Shutdown
  BY <1>11 DEF Shutdown
<1>12. CASE UNCHANGED vars
  BY <1>12 DEF vars
<1> QED BY <1>1, <1>2, <1>3, <1>4, <1>5, <1>6, <1>7, <1>8, <1>9, <1>10, <1>11,
           <1>12 DEF Other
-----------------------------------------------------------------------------
(* Counting records                                                         *)

LEMMA RecordsAreCounted ==
    ASSUME NEW S \in SUBSET Records
    PROVE  /\ Cardinality(S) \in Nat
           /\ \A T \in SUBSET S :
                 Cardinality(T) \in Nat /\ Cardinality(T) <= Cardinality(S)
           /\ \A r \in Records : Cardinality(S \cup {r}) <= Cardinality(S) + 1
<1>1. IsFiniteSet(S)
  BY ConstantsOK, FS_Subset
<1>2. Cardinality(S) \in Nat
  BY <1>1, FS_CardinalityType
<1>3. ASSUME NEW T \in SUBSET S
      PROVE  Cardinality(T) \in Nat /\ Cardinality(T) <= Cardinality(S)
  BY <1>1, FS_Subset, FS_CardinalityType
<1>4. ASSUME NEW r \in Records
      PROVE  Cardinality(S \cup {r}) <= Cardinality(S) + 1
  <2>1. Cardinality(S \cup {r}) = IF r \in S THEN Cardinality(S) ELSE Cardinality(S) + 1
    BY <1>1, FS_AddElement
  <2> QED BY <1>2, <2>1
<1> QED BY <1>2, <1>3, <1>4

LEMMA PoolSizeIsNat == PoolSize \in Nat
<1>1. Cardinality(Records) \in Nat
  BY RecordsAreCounted
<1> QED BY <1>1, ConstantsOK

(* How records move: none does, one is taken, one is given back. *)
Taken(u, r) ==
    /\ step[u] = "connecting"
    /\ place' = [place EXCEPT ![r] = u]
    /\ got' = [got EXCEPT ![u] = r]
    /\ \/ r \in Queue /\ step' = [step EXCEPT ![u] = "preparing"]
       \/ r \in Absent /\ step' = [step EXCEPT ![u] = "creating"]

Returned(r) ==
    /\ place[r] \in Users
    /\ \/ place' = [place EXCEPT ![r] = "queue"] /\ Cardinality(Queue) < PoolSize
       \/ /\ place' = [place EXCEPT ![r] = "absent"]
          /\ Cardinality(Queue) >= PoolSize \/ r \in Creating

(* Nobody creates a record who did not do so before. *)
NoNewCreation ==
    \A u \in Users : step'[u] = "creating" => step[u] = "creating" /\ got'[u] = got[u]

LEMMA Moves ==
    ASSUME TypeOK, Hands, [Next]_vars
    PROVE  \/ \E u \in Users, r \in Records : Taken(u, r) /\ UNCHANGED warmed
           \/ /\ NoNewCreation
              /\ UNCHANGED place \/ \E r \in Records : Returned(r) /\ UNCHANGED warmed
<1> USE UsersDiffer DEF TypeOK, Hands, NoNewCreation
<1>1. ASSUME NEW u \in Users, Take(u)
      PROVE  \E r \in Records : Taken(u, r) /\ UNCHANGED warmed
  BY <1>1 DEF Take, Taken, Goto, Queue, Absent, Held
<1>2. ASSUME NEW r \in Records, Enqueue(r), place[r] \in Users
      PROVE  Returned(r)
  BY <1>2, EnqueueMoves, PoolSizeIsNat, RecordsAreCounted DEF Returned, Queue, Held
<1>3. ASSUME NEW u \in Users, OpenFails(u)
      PROVE  NoNewCreation /\ Returned(got[u]) /\ UNCHANGED warmed
  <2>1. NoNewCreation /\ place[got[u]] = u /\ UNCHANGED warmed
    BY <1>3 DEF OpenFails, Failed, Goto
  <2>2. CASE step[u] = "preparing"
    <3>1. Enqueue(got[u]) /\ got[u] \in Records
      BY <1>3, <2>2 DEF OpenFails
    <3> QED BY <1>2, <2>1, <3>1
  <2>3. CASE step[u] = "creating"
    BY <1>3, <2>1, <2>3 DEF OpenFails, Returned, Creating
  <2> QED BY <1>3, <2>2, <2>3 DEF OpenFails
<1>4. ASSUME NEW u \in Users, Connecting(u), ~Take(u), ~OpenFails(u)
      PROVE  NoNewCreation /\ UNCHANGED place
  <2>1. CASE TimeOut(u) \/ PrePingFails(u) \/ Recycle(u)
    BY <2>1 DEF TimeOut, PrePingFails, Recycle, Failed, Goto
  <2>2. CASE CheckOut(u)
    BY <2>2 DEF CheckOut, HandOver, Goto
  <2>3. CASE Open(u)
    BY <2>3 DEF Open, HandOver, Goto
  <2> QED BY <1>4, <2>1, <2>2, <2>3 DEF Connecting
<1>5. ASSUME NEW c \in Clients, Connect(c) \/ Close(c)
      PROVE  /\ NoNewCreation
             /\ UNCHANGED place \/ \E r \in Records : Returned(r) /\ UNCHANGED warmed
  BY <1>2, <1>5, CloseKeepsOrDrops DEF Connect, Close, Goto
<1>6. CASE PingSucceeds \/ DiscardFailed
  <2>1. got[Heartbeat] \in Records /\ place[got[Heartbeat]] = Heartbeat
    BY <1>6 DEF PingSucceeds, DiscardFailed
  <2>2. Enqueue(got[Heartbeat]) /\ UNCHANGED warmed
    BY <1>6, CloseKeepsOrDrops DEF PingSucceeds, DiscardFailed, Discard, Invalidate
  <2>3. NoNewCreation
    BY <1>6 DEF PingSucceeds, DiscardFailed, Goto
  <2> QED BY <1>2, <2>1, <2>2, <2>3
<1>7. CASE Release
  <2>1. PICK r \in Held(Warmer) : Enqueue(r)
    BY <1>7, CloseKeepsOrDrops DEF Release, Invalidate
  <2> QED BY <1>2, <1>7, <2>1 DEF Release, Held
<1>8. CASE WarmNext
  BY <1>8 DEF WarmNext, Goto
<1>9. CASE \/ BeginPing \/ PingFails \/ WarmDone \/ Shutdown \/ UNCHANGED vars
           \/ \E r \in Records : SessionDies(r)
  BY <1>9 DEF BeginPing, PingFails, ExceptClause, WarmDone, Shutdown, SessionDies, vars, Goto
<1>10. CASE \E u \in Users : Connecting(u)
  <2>1. PICK u \in Users : Connecting(u)
    BY <1>10
  <2>2. CASE OpenFails(u)
    <3>1. got[u] \in Records
      BY <2>2 DEF OpenFails
    <3> QED BY <1>3, <2>2, <3>1
  <2> QED BY <1>1, <1>4, <2>1, <2>2
<1>11. CASE Other
  BY <1>5, <1>6, <1>7, <1>8, <1>9, <1>11 DEF Other
<1> QED BY <1>10, <1>11, NextCases

LEMMA QueueFitsNext ==
    ASSUME TypeOK, Hands, QueueFits, [Next]_vars
    PROVE  QueueFits'
<1>1. CASE Queue' \subseteq Queue
  BY <1>1, RecordsAreCounted, PoolSizeIsNat DEF QueueFits, Queue, Held
<1>2. CASE \E r \in Records : Queue' = Queue \cup {r} /\ Cardinality(Queue) < PoolSize
  BY <1>2, RecordsAreCounted, PoolSizeIsNat DEF QueueFits, Queue, Held
<1>3. ASSUME NEW u \in Users, NEW r \in Records, Taken(u, r)
      PROVE  Queue' \subseteq Queue
  BY <1>3, UsersDiffer DEF Taken, Queue, Held, TypeOK
<1>4. CASE UNCHANGED place
  BY <1>1, <1>4 DEF Queue, Held
<1>5. ASSUME NEW r \in Records, Returned(r)
      PROVE  \/ Queue' \subseteq Queue
             \/ Queue' = Queue \cup {r} /\ Cardinality(Queue) < PoolSize
  BY <1>5, UsersDiffer DEF Returned, Queue, Held, TypeOK
<1> QED BY <1>1, <1>2, <1>3, <1>4, <1>5, Moves

(* The loop of the warm-up goes on or ends with the connections it has. *)
LEMMA WarmUpCounts ==
    ASSUME TypeOK, [Next]_vars
    PROVE  /\ step'[Warmer] = "connecting" =>
                 \/ step[Warmer] = "connecting"
                 \/ Cardinality(Held(Warmer)) # PoolSize /\ UNCHANGED place
           /\ warmed' # warmed =>
                 /\ step[Warmer] = "warming"
                 /\ Cardinality(Held(Warmer)) = PoolSize
                 /\ UNCHANGED place
<1> USE UsersDiffer DEF TypeOK
<1>1. CASE WarmNext
  BY <1>1 DEF WarmNext, NumConnections, Goto
<1>2. ASSUME NEW u \in Users, Connecting(u)
      PROVE  UNCHANGED warmed /\ (step'[Warmer] = "connecting" => step[Warmer] = "connecting")
  BY <1>2 DEF Connecting, Take, TimeOut, CheckOut, PrePingFails, Recycle, Open, OpenFails,
              HandOver, Failed, Goto
<1>3. CASE Other /\ ~WarmNext
  BY <1>3 DEF Other, Connect, Close, BeginPing, PingSucceeds, PingFails, DiscardFailed,
              Release, WarmDone, SessionDies, Shutdown, ExceptClause, Goto, vars
<1> QED BY <1>1, <1>2, <1>3, NextCases

LEMMA WarmUpFitsNext ==
    ASSUME TypeOK, Hands, WarmUpFits, [Next]_vars
    PROVE  WarmUpFits'
<1> DEFINE n == Cardinality(Held(Warmer))
<1>1. n \in Nat /\ PoolSize \in Nat /\ n <= PoolSize
  BY RecordsAreCounted, PoolSizeIsNat DEF Held, WarmUpFits
<1>2. CASE Held(Warmer)' \subseteq Held(Warmer)
  <2>1. Cardinality(Held(Warmer)') \in Nat /\ Cardinality(Held(Warmer)') <= n
    BY <1>2, RecordsAreCounted DEF Held
  <2>2. step'[Warmer] = "connecting" => n < PoolSize
    BY <1>1, WarmUpCounts DEF WarmUpFits
  <2> QED BY <1>1, <2>1, <2>2 DEF WarmUpFits
<1>3. ASSUME NEW u \in Users, NEW r \in Records, Taken(u, r)
      PROVE  WarmUpFits'
  <2>1. CASE u = Warmer
    <3>1. Held(Warmer)' = Held(Warmer) \cup {r} /\ step'[Warmer] # "connecting"
      BY <1>3, <2>1, UsersDiffer DEF Taken, Held, TypeOK
    <3>2. Cardinality(Held(Warmer)') <= n + 1 /\ Cardinality(Held(Warmer)') \in Nat
      BY <3>1, RecordsAreCounted DEF Held
    <3>3. n < PoolSize
      BY <1>3, <2>1 DEF Taken, WarmUpFits
    <3> QED BY <1>1, <3>1, <3>2, <3>3 DEF WarmUpFits
  <2>2. CASE u # Warmer
    <3>1. Held(Warmer)' \subseteq Held(Warmer)
      BY <1>3, <2>2, UsersDiffer DEF Taken, Held, Queue, Absent, TypeOK
    <3> QED BY <1>2, <3>1
  <2> QED BY <2>1, <2>2
<1>4. CASE UNCHANGED place
  BY <1>2, <1>4 DEF Held
<1>5. ASSUME NEW r \in Records, Returned(r)
      PROVE  Held(Warmer)' \subseteq Held(Warmer)
  BY <1>5, UsersDiffer DEF Returned, Held, TypeOK
<1> QED BY <1>2, <1>3, <1>4, <1>5, Moves

LEMMA KeptIsFullNext ==
    ASSUME TypeOK, Hands, QueueFits, KeptIsFull, [Next]_vars
    PROVE  KeptIsFull'
<1> USE UsersDiffer DEF TypeOK, Hands
<1>1. ASSUME NEW S \in SUBSET Records, Cardinality(S) >= PoolSize, S \subseteq Kept'
      PROVE  KeptIsFull'
  <2>1. Kept' \subseteq Records
    BY DEF Kept
  <2>2. /\ Cardinality(S) \in Nat /\ Cardinality(Kept') \in Nat
        /\ Cardinality(S) <= Cardinality(Kept')
    BY <1>1, <2>1, RecordsAreCounted
  <2> QED BY <1>1, <2>2, PoolSizeIsNat DEF KeptIsFull
<1>2. CASE warmed' # warmed
  <2>1. Cardinality(Held(Warmer)) = PoolSize /\ UNCHANGED place /\ step[Warmer] = "warming"
    BY <1>2, WarmUpCounts
  <2>2. NoNewCreation
    BY <1>2, Moves DEF Taken
  <2>3. Held(Warmer) \subseteq Kept'
    BY <2>1, <2>2 DEF Held, Kept, Absent, Creating, NoNewCreation
  <2> QED BY <1>1, <2>1, <2>3, PoolSizeIsNat DEF Held
<1>3. CASE warmed /\ Kept \subseteq Kept'
  BY <1>1, <1>3 DEF Kept, KeptIsFull
<1>4. ASSUME NEW u \in Users, NEW r \in Records, Taken(u, r)
      PROVE  Kept \subseteq Kept'
  BY <1>4 DEF Taken, Kept, Queue, Absent, Held, Creating
<1>5. CASE ~warmed /\ ~warmed'
  BY <1>5 DEF KeptIsFull
<1>6. ASSUME NoNewCreation, UNCHANGED place
      PROVE  KeptIsFull'
  <2>1. Creating' \subseteq Creating /\ Absent' = Absent
    BY <1>6 DEF NoNewCreation, Absent, Held, Creating
  <2>2. Kept \subseteq Kept'
    BY <2>1 DEF Kept
  <2>3. CASE warmed
    BY <1>3, <2>2, <2>3
  <2> QED BY <1>2, <1>5, <2>3
<1>7. ASSUME NoNewCreation, NEW r \in Records, Returned(r), warmed
      PROVE  KeptIsFull'
  <2>1. CASE place' = [place EXCEPT ![r] = "queue"] \/ r \in Creating
    <3>1. Kept \subseteq Kept'
      BY <1>7, <2>1 DEF Returned, NoNewCreation, Kept, Absent, Held, Creating
    <3> QED BY <1>3, <1>7, <3>1
  <2>2. CASE place' = [place EXCEPT ![r] = "absent"] /\ Cardinality(Queue) >= PoolSize
    <3>1. Queue \subseteq Kept'
      BY <1>7, <2>2 DEF Returned, NoNewCreation, Kept, Queue, Absent, Held, Creating
    <3> QED BY <1>1, <2>2, <3>1 DEF Queue, Held
  <2> QED BY <1>7, <2>1, <2>2 DEF Returned
<1> QED BY <1>2, <1>3, <1>4, <1>6, <1>7, <1>5, Moves
(* A session of a kept record ends only by what makes the record a lost one *)
LEMMA KeptIsOpenNext ==
    ASSUME TypeOK, Hands, KeptIsOpen, [Next]_vars
    PROVE  KeptIsOpen'
<1> USE UsersDiffer DEF TypeOK, Hands
<1>1. SUFFICES ASSUME NEW r \in Records, r \in Kept'
               PROVE  session'[r] = "live" \/ r \in lost'
  BY DEF KeptIsOpen, Kept, OpenOrLost
<1>2. place'[r] # "absent" /\ ~\E w \in Users : step'[w] = "creating" /\ got'[w] = r
  BY <1>1 DEF Kept, Absent, Held, Creating
<1>3. \/ session[r] = "live" \/ r \in lost
      \/ place[r] = "absent"
      \/ \E w \in Users : step[w] = "creating" /\ got[w] = r
  BY DEF KeptIsOpen, OpenOrLost, Kept, Absent, Held, Creating
<1>4. ASSUME NEW u \in Users, Connecting(u)
      PROVE  session'[r] = "live" \/ r \in lost'
  <2>1. CASE Take(u)
    BY <1>2, <1>3, <2>1 DEF Take, Goto, Held, Queue, Absent
  <2>2. CASE TimeOut(u)
    BY <1>2, <1>3, <2>2 DEF TimeOut, Failed, Goto
  <2>3. CASE CheckOut(u)
    BY <1>2, <1>3, <2>3 DEF CheckOut, HandOver, Goto
  <2>4. CASE PrePingFails(u)
    BY <1>2, <1>3, <2>4 DEF PrePingFails, Lose
  <2>5. CASE Recycle(u)
    BY <1>2, <1>3, <2>5 DEF Recycle, Drop, Lose
  <2>6. CASE Open(u)
    BY <1>2, <1>3, <2>6 DEF Open, HandOver, Goto
  <2>7. CASE OpenFails(u)
    BY <1>2, <1>3, <2>7 DEF OpenFails, Enqueue, Failed, Goto
  <2> QED BY <1>4, <2>1, <2>2, <2>3, <2>4, <2>5, <2>6, <2>7 DEF Connecting
<1>5. ASSUME NEW q \in Records, CloseFairy(q),
             \A w \in Users : step'[w] = "creating" <=> step[w] = "creating",
             \A w \in Users : step[w] = "creating" => got'[w] = got[w],
             place[q] # "absent"
      PROVE  session'[r] = "live" \/ r \in lost'
  <2>1. UNCHANGED lost /\ Enqueue(q) /\ (Drop(q) \/ SessionKept)
    BY <1>5, CloseKeepsOrDrops
  <2>2. session[r] = "live" \/ r \in lost \/ (r # q /\ place'[r] = "absent")
    BY <1>2, <1>3, <1>5, <2>1, EnqueueMoves
  <2>3. CASE r = q /\ session[r] = "live"
    <3>1. place' = [place EXCEPT ![q] = "queue"] /\ Cardinality(Queue) < PoolSize
      BY <1>2, <2>1, <2>3, EnqueueMoves
    <3>2. ~(Cardinality(Queue) >= PoolSize)
      BY <3>1, PoolSizeIsNat, RecordsAreCounted DEF Queue, Held
    <3> QED BY <1>5, <2>3, <3>2 DEF CloseFairy
  <2> QED BY <1>2, <2>1, <2>2, <2>3 DEF Drop, SessionKept
<1>6. ASSUME NEW c \in Clients, Connect(c) \/ Close(c)
      PROVE  session'[r] = "live" \/ r \in lost'
  <2>1. CASE Connect(c)
    BY <1>2, <1>3, <2>1 DEF Connect, Goto
  <2>2. CASE Close(c)
    BY <1>5, <2>2 DEF Close, Goto
  <2> QED BY <1>6, <2>1, <2>2
<1>7. CASE BeginPing \/ PingFails
  BY <1>2, <1>3, <1>7 DEF BeginPing, PingFails, ExceptClause, Goto
<1>8. CASE PingSucceeds
  BY <1>5, <1>8 DEF PingSucceeds, Goto
<1>9. CASE DiscardFailed
  BY <1>2, <1>3, <1>9 DEF DiscardFailed, Discard, Invalidate, Drop, Lose, Enqueue, Goto
<1>10. CASE WarmNext
  <2>1. UNCHANGED <<place, session, lost, got>>
    BY <1>10 DEF WarmNext
  <2>2. \A w \in Users : step[w] = "creating" => step'[w] = "creating"
    BY <1>10 DEF WarmNext, Goto
  <2> QED BY <1>2, <1>3, <2>1, <2>2
<1>11. CASE Release
  <2>1. PICK q \in Held(Warmer) : IF exit THEN Invalidate(q) ELSE CloseFairy(q)
    BY <1>11 DEF Release
  <2>2. UNCHANGED <<step, got>> /\ q \in Records /\ place[q] = Warmer
    BY <1>11, <2>1 DEF Release, Held
  <2>3. CASE exit
    BY <1>2, <1>3, <2>1, <2>2, <2>3, EnqueueMoves DEF Invalidate, Drop, Lose
  <2>4. CASE ~exit
    BY <1>5, <2>1, <2>2, <2>4
  <2> QED BY <2>3, <2>4
<1>12. CASE WarmDone \/ Shutdown \/ UNCHANGED vars
  BY <1>2, <1>3, <1>12 DEF WarmDone, Shutdown, vars, Goto
<1>13. ASSUME NEW q \in Records, SessionDies(q)
       PROVE  session'[r] = "live" \/ r \in lost'
  BY <1>2, <1>3, <1>13 DEF SessionDies, Lose
<1>14. CASE Other
  BY <1>6, <1>7, <1>8, <1>9, <1>10, <1>11, <1>12, <1>13, <1>14 DEF Other
<1> QED BY <1>4, <1>14, NextCases
-----------------------------------------------------------------------------
LEMMA InitInv == Init => IInv
<1> SUFFICES ASSUME Init PROVE IInv
  OBVIOUS
<1> USE UsersDiffer DEF Init
<1>1. TypeOK /\ Hands /\ FailedPingIsNotReused /\ KeptIsFull
  BY DEF TypeOK, Hands, StepsOf, FailedPingIsNotReused, KeptIsFull
<1>2. Queue = {} /\ Held(Warmer) = {} /\ step[Warmer] # "connecting"
  BY DEF Queue, Held
<1>3. QueueFits /\ WarmUpFits
  BY <1>2, FS_EmptySet, PoolSizeIsNat DEF QueueFits, WarmUpFits
<1>4. KeptIsOpen
  BY DEF KeptIsOpen, Kept, Absent, Held
<1> QED BY <1>1, <1>3, <1>4 DEF IInv

LEMMA NextInv == IInv /\ [Next]_vars => IInv'
<1> SUFFICES ASSUME IInv, [Next]_vars PROVE IInv'
  OBVIOUS
<1> USE DEF IInv
<1>1. TypeOK' /\ Hands' /\ FailedPingIsNotReused'
  BY NextCases, HandsConnecting, HandsOther, FailedPingConnecting, FailedPingOther
<1>2. QueueFits' /\ WarmUpFits' /\ KeptIsFull' /\ KeptIsOpen'
  BY QueueFitsNext, WarmUpFitsNext, KeptIsFullNext, KeptIsOpenNext
<1> QED BY <1>1, <1>2

LEMMA Invariant == Spec => []IInv
  BY InitInv, NextInv, PTL DEF Spec

(* Types, and: no mark outlives the session it was put on. *)
THEOREM TrafficIsTyped == Spec => []TypeOK
<1>1. IInv => TypeOK
  BY DEF IInv
<1> QED BY <1>1, Invariant, PTL

(* Every exit of connect(), _ping and warm_pool gives back what it took,   *)
(* whatever failed (pool.py:65, heartbeat.py:160).                         *)
THEOREM NoConnectionLeaks == Spec => []NothingLeaks
<1>1. IInv => NothingLeaks
  <2> SUFFICES ASSUME IInv PROVE NothingLeaks
    OBVIOUS
  <2> USE UsersDiffer DEF IInv, Hands, TypeOK, Held
  <2>1. \A u \in Users \ {Warmer} : Held(u) = {got[u]} \ {None}
    OBVIOUS
  <2>2. step[Warmer] = "done" => Held(Warmer) = {}
    OBVIOUS
  <2>3. \A u \in Users : step[u] = "away" => Held(u) = {}
    <3>1. step[Warmer] # "away"
      BY DEF StepsOf
    <3> QED BY <2>1, <3>1
  <2> QED BY <2>1, <2>2, <2>3 DEF NothingLeaks, QueueFits
<1> QED BY <1>1, Invariant, PTL

(* A connection whose ping failed is closed before anybody else can get it *)
(* (heartbeat.py:162 `conn.invalidate()`).                                 *)
THEOREM FailedPingsAreNotReused == Spec => []FailedPingIsNotReused
<1>1. IInv => FailedPingIsNotReused
  BY DEF IInv
<1> QED BY <1>1, Invariant, PTL

(* POOL_SIZE connections are open after a warm-up (pool.py:50), but for    *)
(* those that a failure, POOL_RECYCLE or the exit took and whose records   *)
(* still have their place in the pool.                                     *)
THEOREM WarmedPoolsStayFull == Spec => []WarmedPoolIsFull
<1>1. IInv => WarmedPoolIsFull
  <2> DEFINE Full == {r \in Records \ Absent : session[r] = "live" \/ r \in lost}
  <2> SUFFICES ASSUME IInv, warmed
               PROVE  Cardinality(Full) >= PoolSize
    BY DEF WarmedPoolIsFull
  <2>1. Cardinality(Kept) >= PoolSize
    BY DEF IInv, KeptIsFull
  <2>2. Kept \in SUBSET Full /\ Full \in SUBSET Records
    BY DEF IInv, KeptIsOpen, Kept, OpenOrLost
  <2> HIDE DEF Full
  <2>3. /\ Cardinality(Kept) \in Nat /\ Cardinality(Full) \in Nat
        /\ Cardinality(Kept) <= Cardinality(Full)
    BY <2>2, RecordsAreCounted
  <2> QED BY <2>1, <2>3, PoolSizeIsNat
<1> QED BY <1>1, Invariant, PTL

(* A request times out only when requests and the heartbeat hold the whole *)
(* overflow: warm_pool takes POOL_SIZE connections at most (pool.py:50).   *)
THEOREM OverflowIsLeftToRequests == Spec => OverflowIsForRequests
<1> DEFINE Others == UNION {Held(u) : u \in Users \ {Warmer}}
<1>1. IInv /\ [Next]_vars =>
          [\A c \in Clients : TimeOut(c) => Cardinality(Others) >= MaxOverflow]_vars
  <2> SUFFICES ASSUME IInv, NEW c \in Clients, TimeOut(c)
               PROVE  Cardinality(Others) >= MaxOverflow
    OBVIOUS
  <2>1. Held(Warmer) \in SUBSET Records /\ Others \in SUBSET Records
    BY DEF Held
  <2>2. Records \ Held(Warmer) \subseteq Others
    <3> SUFFICES ASSUME NEW r \in Records, r \notin Held(Warmer)
                 PROVE  r \in Others
      OBVIOUS
    <3>1. place[r] \in Users \ {Warmer}
      BY DEF IInv, TypeOK, TimeOut, Queue, Absent, Held
    <3>2. r \in Held(place[r])
      BY DEF Held
    <3> QED BY <3>1, <3>2
  <2>3. Cardinality(Records \ Held(Warmer))
            = Cardinality(Records) - Cardinality(Held(Warmer))
    <3>1. Cardinality(Records \ Held(Warmer))
              = Cardinality(Records) - Cardinality(Records \cap Held(Warmer))
      BY ConstantsOK, FS_Difference
    <3>2. Records \cap Held(Warmer) = Held(Warmer)
      BY <2>1
    <3> QED BY <3>1, <3>2
  <2>4. Cardinality(Held(Warmer)) <= PoolSize
    BY DEF IInv, WarmUpFits
  <2>5. /\ Cardinality(Records) \in Nat /\ Cardinality(Held(Warmer)) \in Nat
        /\ Cardinality(Others) \in Nat
        /\ Cardinality(Records \ Held(Warmer)) <= Cardinality(Others)
    BY <2>1, <2>2, RecordsAreCounted
  <2> HIDE DEF Others
  <2> QED BY <2>3, <2>4, <2>5, PoolSizeIsNat DEF MaxOverflow
<1> QED BY <1>1, Invariant, PTL DEF Spec, OverflowIsForRequests
===============================================================================
