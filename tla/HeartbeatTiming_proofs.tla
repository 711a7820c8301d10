------------------------ MODULE HeartbeatTiming_proofs ------------------------
(***************************************************************************)
(* Proofs about HeartbeatTiming for any number of workers, any interval,   *)
(* threshold and AUTO_SUSPEND, and pings of any length.                    *)
(***************************************************************************)
EXTENDS HeartbeatTiming, TLAPS

(* A round of the loop: the wait and the ping. *)
Round == Interval + MaxPing

Rounds(n) == n * Round

(* Time since w's last statement can have reached the warehouse. *)
Silence(w) ==
    Rounds(fails[w])
        + CASE thread[w] = "waiting" -> Interval - timer[w]
            [] thread[w] = "pinging" -> Interval + timer[w]
            [] OTHER -> 0

(* What was recorded is not older than the query; a worker that is gone    *)
(* has no recent query.                                                    *)
Remembered == \A w \in Workers :
    /\ age[w] <= recent[w]
    /\ thread[w] = "none" => recent[w] = Idle /\ w \notin running

(* A worker that is served has a recent query, and the warehouse is unused *)
(* no longer than the worker can have been silent.                         *)
ServedIsHeard == \A w \in served :
    /\ thread[w] # "none" /\ recent[w] < Idle
    /\ unused <= Silence(w)

(* When no query begins or ends, no loop takes its alias for active after  *)
(* Idle, a ping that was begun ends MaxPing later, and nothing but pings   *)
(* uses the warehouse.                                                     *)
QuietAges ==
    /\ running # {} => quiet = 0
    /\ \A w \in Workers : thread[w] # "none" => age[w] >= quiet \/ age[w] = Idle
    /\ \A w \in Workers : thread[w] = "pinging" => quiet < Idle + timer[w]
    /\ quiet <= unused + Idle + MaxPing

IInv == TypeOK /\ Remembered /\ ServedIsHeard /\ QuietAges
-----------------------------------------------------------------------------
LEMMA RoundFacts ==
    /\ Round \in Nat /\ Rounds(0) = 0
    /\ \A n \in Nat : Rounds(n) \in Nat /\ Rounds(n + 1) = Rounds(n) + Round
<1>1. Round \in Nat
  BY ConstantsOK DEF Round
<1>2. \A n \in Nat : Rounds(n) \in Nat /\ Rounds(n + 1) = Rounds(n) + Round
  BY <1>1 DEF Rounds
<1> QED BY <1>1, <1>2 DEF Rounds

LEMMA RoundsGrow ==
    ASSUME NEW m \in Nat, NEW n \in 0..m
    PROVE  Rounds(n) <= Rounds(m)
<1>1. Round \in Nat
  BY ConstantsOK DEF Round
<1>2. m - n \in Nat /\ (m - n) * Round \in Nat
  BY <1>1
<1>3. m * Round = n * Round + (m - n) * Round
  BY <1>1
<1> QED BY <1>1, <1>2, <1>3 DEF Rounds

LEMMA OlderType ==
    ASSUME NEW cap \in Nat, NEW n \in 0..cap
    PROVE  /\ Older(n, cap) \in 0..cap
           /\ Older(n, cap) = n + 1 \/ (n = cap /\ Older(n, cap) = cap)
  BY DEF Older
-----------------------------------------------------------------------------
(* Types                                                                    *)

LEMMA TypeNext ==
    ASSUME TypeOK, [Next]_vars
    PROVE  TypeOK'
<1> USE ConstantsOK DEF TypeOK
<1>0. Settled \in Nat
  BY DEF Settled
<1>1. CASE Tick
  <2>1. /\ age' \in [Workers -> 0..Idle] /\ recent' \in [Workers -> 0..Idle]
        /\ unused' \in 0..AutoSuspend /\ quiet' \in 0..Settled
    BY <1>0, <1>1, OlderType DEF Tick
  <2>2. /\ timer' \in [Workers -> Nat]
        /\ \A w \in Workers :
              timer'[w] <= (IF thread[w] = "pinging" THEN MaxPing ELSE Interval)
    BY <1>1 DEF Tick
  <2>3. served' \subseteq Workers /\ UNCHANGED <<thread, fails, running>>
    BY <1>1 DEF Tick
  <2> QED BY <2>1, <2>2, <2>3
<1>2. ASSUME NEW w \in Workers, Start(w)
      PROVE  TypeOK'
  BY <1>0, <1>2 DEF Start
<1>3. ASSUME NEW w \in Workers, Stop(w)
      PROVE  TypeOK'
  BY <1>3 DEF Stop
<1>4. ASSUME NEW w \in Workers, BeginQuery(w) \/ EndQuery(w) \/ QueryNotSent(w)
      PROVE  TypeOK'
  BY <1>0, <1>4 DEF BeginQuery, EndQuery, QueryNotSent, Recorded
<1>5. ASSUME NEW w \in Workers, LoopStep(w)
      PROVE  TypeOK'
  BY <1>5 DEF LoopStep, Skip, Ping, PingSucceeds, PingFails, LoopGoesOn
<1>6. CASE UNCHANGED vars
  BY <1>6 DEF vars
<1> QED BY <1>1, <1>2, <1>3, <1>4, <1>5, <1>6 DEF Next

LEMMA RememberedNext ==
    ASSUME TypeOK, Remembered, [Next]_vars
    PROVE  Remembered'
<1> USE ConstantsOK DEF TypeOK, Remembered
<1>1. CASE Tick
  BY <1>1, OlderType DEF Tick, Older
<1>2. ASSUME NEW w \in Workers, Start(w)
      PROVE  Remembered'
  BY <1>2 DEF Start
<1>3. ASSUME NEW w \in Workers, Stop(w)
      PROVE  Remembered'
  BY <1>3 DEF Stop
<1>4. ASSUME NEW w \in Workers, BeginQuery(w) \/ EndQuery(w) \/ QueryNotSent(w)
      PROVE  Remembered'
  BY <1>4 DEF BeginQuery, EndQuery, QueryNotSent, Recorded
<1>5. ASSUME NEW w \in Workers, LoopStep(w)
      PROVE  Remembered'
  BY <1>5 DEF LoopStep, Skip, Ping, PingSucceeds, PingFails, LoopGoesOn
<1>6. CASE UNCHANGED vars
  BY <1>6 DEF vars
<1> QED BY <1>1, <1>2, <1>3, <1>4, <1>5, <1>6 DEF Next
-----------------------------------------------------------------------------
(* Traffic keeps the warehouse warm                                         *)

LEMMA SilenceType ==
    ASSUME TypeOK, NEW w \in Workers
    PROVE  Silence(w) \in Nat /\ Silence(w) <= Rounds(fails[w]) + Round
<1> USE ConstantsOK, RoundFacts DEF TypeOK, Silence
<1>1. CASE thread[w] = "waiting"
  BY <1>1 DEF Round
<1>2. CASE thread[w] = "pinging"
  BY <1>2 DEF Round
<1>3. CASE thread[w] = "none"
  BY <1>3
<1> QED BY <1>1, <1>2, <1>3

(* The same after a step. *)
LEMMA SilenceNextType ==
    ASSUME TypeOK', NEW w \in Workers
    PROVE  Silence(w)' \in Nat
<1> USE ConstantsOK, RoundFacts DEF TypeOK, Silence
<1>0. Rounds(fails'[w]) \in Nat
  OBVIOUS
<1>1. CASE thread'[w] = "waiting"
  BY <1>0, <1>1
<1>2. CASE thread'[w] = "pinging"
  BY <1>0, <1>2
<1>3. CASE thread'[w] = "none"
  BY <1>0, <1>3
<1> QED BY <1>1, <1>2, <1>3

LEMMA ServedNext ==
    ASSUME TypeOK, TypeOK', Remembered, ServedIsHeard, [Next]_vars
    PROVE  ServedIsHeard'
<1> USE ConstantsOK DEF TypeOK, ServedIsHeard
<1>1. CASE Tick
  <2> SUFFICES ASSUME NEW w \in served'
               PROVE  /\ thread'[w] # "none" /\ recent'[w] < Idle
                      /\ unused' <= Silence(w)'
    OBVIOUS
  <2>1. w \in served /\ recent[w] + 1 < Idle /\ recent'[w] = recent[w] + 1
    BY <1>1 DEF Tick, Older
  <2>2. thread' = thread /\ fails' = fails /\ unused' <= unused + 1
    BY <1>1 DEF Tick, Older
  <2>3. Silence(w)' = Silence(w) + 1
    BY <1>1, <2>1, <2>2, RoundFacts DEF Tick, Silence
  <2> QED BY <2>1, <2>2, <2>3, SilenceType
<1>2. ASSUME NEW w \in Workers, Start(w)
      PROVE  ServedIsHeard'
  BY <1>2 DEF Start, Silence
<1>3. ASSUME NEW w \in Workers, Stop(w)
      PROVE  ServedIsHeard'
  BY <1>3 DEF Stop, Silence
<1>4. ASSUME NEW w \in Workers, BeginQuery(w)
      PROVE  ServedIsHeard'
  <2> SUFFICES ASSUME NEW v \in served'
               PROVE  /\ thread'[v] # "none" /\ recent'[v] < Idle
                      /\ unused' <= Silence(v)'
    OBVIOUS
  <2>1. Silence(v)' \in Nat
    BY SilenceNextType
  <2> QED BY <1>4, <2>1 DEF BeginQuery
<1>5. ASSUME NEW w \in Workers, EndQuery(w) \/ QueryNotSent(w)
      PROVE  ServedIsHeard'
  BY <1>5 DEF EndQuery, QueryNotSent, Silence
<1>6. ASSUME NEW w \in Workers, Skip(w)
      PROVE  ServedIsHeard'
  <2>1. w \notin served
    BY <1>6 DEF Skip, IsIdle, Remembered
  <2> QED BY <1>6, <2>1 DEF Skip, Silence
<1>7. ASSUME NEW w \in Workers, Ping(w)
      PROVE  ServedIsHeard'
  BY <1>7 DEF Ping, Silence
<1>8. ASSUME NEW w \in Workers, PingSucceeds(w)
      PROVE  ServedIsHeard'
  <2> SUFFICES ASSUME NEW v \in served'
               PROVE  /\ thread'[v] # "none" /\ recent'[v] < Idle
                      /\ unused' <= Silence(v)'
    OBVIOUS
  <2>1. Silence(v)' \in Nat
    BY SilenceNextType
  <2> QED BY <1>8, <2>1 DEF PingSucceeds
<1>9. ASSUME NEW w \in Workers, PingFails(w)
      PROVE  ServedIsHeard'
  <2>1. ASSUME NEW v \in served, v # w
        PROVE  Silence(v)' = Silence(v)
    BY <1>9, <2>1 DEF PingFails, Silence
  <2>2. Silence(w) <= Silence(w)'
    BY <1>9, RoundFacts DEF PingFails, LoopGoesOn, Silence, Round
  <2> SUFFICES ASSUME NEW v \in served'
               PROVE  /\ thread'[v] # "none" /\ recent'[v] < Idle
                      /\ unused' <= Silence(v)'
    OBVIOUS
  <2>3. v \in served /\ thread'[v] # "none" /\ recent' = recent /\ unused' = unused
    BY <1>9 DEF PingFails, LoopGoesOn
  <2>4. Silence(v) <= Silence(v)'
    BY <2>1, <2>2, <2>3, SilenceType
  <2>5. unused <= Silence(v) /\ Silence(v) \in Nat /\ Silence(v)' \in Nat
    BY <2>3, SilenceType, SilenceNextType
  <2> QED BY <2>3, <2>4, <2>5
<1>10. CASE UNCHANGED vars
  BY <1>10 DEF vars, Silence
<1> QED BY <1>1, <1>2, <1>3, <1>4, <1>5, <1>6, <1>7, <1>8, <1>9, <1>10
        DEF Next, LoopStep
-----------------------------------------------------------------------------
(* Silence lets it suspend                                                  *)

LEMMA QuietNext ==
    ASSUME TypeOK, TypeOK', Remembered, QuietAges, [Next]_vars
    PROVE  QuietAges'
<1> USE ConstantsOK DEF TypeOK, QuietAges
<1>0. Settled \in Nat /\ Idle <= Settled
  BY DEF Settled
<1>1. CASE Tick
  <2>1. CASE running # {}
    BY <1>1, <2>1 DEF Tick, Older
  <2>2. CASE running = {}
    BY <1>0, <1>1, <2>2 DEF Tick, Older, Settled
  <2> QED BY <2>1, <2>2
<1>2. ASSUME NEW w \in Workers, Start(w)
      PROVE  QuietAges'
  BY <1>2 DEF Start
<1>3. ASSUME NEW w \in Workers, Stop(w)
      PROVE  QuietAges'
  BY <1>3 DEF Stop
<1>4. ASSUME NEW w \in Workers, BeginQuery(w)
      PROVE  QuietAges'
  BY <1>0, <1>4 DEF BeginQuery
<1>5. ASSUME NEW w \in Workers, EndQuery(w)
      PROVE  QuietAges'
  BY <1>0, <1>5 DEF EndQuery
<1>6. ASSUME NEW w \in Workers, QueryNotSent(w)
      PROVE  QuietAges'
  BY <1>0, <1>6 DEF QueryNotSent
<1>7. ASSUME NEW w \in Workers, Skip(w)
      PROVE  QuietAges'
  BY <1>7 DEF Skip
<1>8. ASSUME NEW w \in Workers, Ping(w)
      PROVE  QuietAges'
  BY <1>8 DEF Ping, IsIdle
<1>9. ASSUME NEW w \in Workers, PingSucceeds(w)
      PROVE  QuietAges'
  <2>1. timer[w] <= MaxPing /\ quiet < Idle + timer[w]
    BY <1>9 DEF PingSucceeds
  <2>2. quiet' <= unused' + Idle + MaxPing
    BY <1>0, <1>9, <2>1 DEF PingSucceeds
  <2> QED BY <1>9, <2>2 DEF PingSucceeds
<1>10. ASSUME NEW w \in Workers, PingFails(w)
      PROVE  QuietAges'
  BY <1>10 DEF PingFails, LoopGoesOn
<1>11. CASE UNCHANGED vars
  BY <1>11 DEF vars
<1> QED BY <1>1, <1>2, <1>3, <1>4, <1>5, <1>6, <1>7, <1>8, <1>9, <1>10, <1>11
        DEF Next, LoopStep
-----------------------------------------------------------------------------
LEMMA InitInv == Init => IInv
  BY ConstantsOK DEF Init, IInv, TypeOK, Remembered, ServedIsHeard, QuietAges, Settled

LEMMA Invariant == Spec => []IInv
<1>1. IInv /\ [Next]_vars => IInv'
  BY TypeNext, RememberedNext, ServedNext, QuietNext DEF IInv
<1> QED BY <1>1, InitInv, PTL DEF Spec

(* Timers, ages and counters stay in their ranges. *)
THEOREM TimersAreTyped == Spec => []TypeOK
<1>1. IInv => TypeOK
  BY DEF IInv
<1> QED BY <1>1, Invariant, PTL

(* If every round, with the pings that may fail, fits into AUTO_SUSPEND,   *)
(* the warehouse stays up for as long as a query was real and recent in    *)
(* any of the workers (heartbeat.py:12 and the comment above it).          *)
THEOREM TrafficKeepsItWarm == Spec => []ActiveWarehouseStaysWarm
<1>1. IInv => ActiveWarehouseStaysWarm
  <2> SUFFICES ASSUME IInv, IntervalFits, NEW w \in served
               PROVE  unused # AutoSuspend
    BY DEF ActiveWarehouseStaysWarm, Suspended
  <2> USE ConstantsOK DEF IInv, TypeOK
  <2>1. unused <= Rounds(fails[w]) + Round
    BY SilenceType, RoundFacts DEF ServedIsHeard
  <2>2. Rounds(fails[w]) <= Rounds(MaxFailures)
    BY RoundsGrow
  <2>3. Rounds(MaxFailures) + Round < AutoSuspend
    BY RoundFacts DEF IntervalFits, Rounds, Round
  <2> QED BY <2>1, <2>2, <2>3, RoundFacts
<1> QED BY <1>1, Invariant, PTL

(* However many workers there are, and with the stamps that forked ones    *)
(* inherit: without real queries the warehouse is suspended at the latest  *)
(* after the threshold, one ping and AUTO_SUSPEND.                         *)
THEOREM QuietSitesCostNothing == Spec => []QuietWarehouseSuspends
<1>1. IInv => QuietWarehouseSuspends
  BY ConstantsOK DEF IInv, TypeOK, QuietAges, QuietWarehouseSuspends, Suspended, Settled
<1> QED BY <1>1, Invariant, PTL
===============================================================================
