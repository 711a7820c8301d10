------------------------- MODULE SessionState_proofs -------------------------
(***************************************************************************)
(* Proofs about SessionState, for any number of wrappers, sessions and     *)
(* time zones, and any number of statements that fail.                     *)
(***************************************************************************)
EXTENDS SessionState, TLAPS

(* The pool gives a session to one wrapper at a time. *)
Exclusive == \A w, v \in Wrappers : conn[w] = conn[v] /\ conn[w] # None => w = v

(* A part of the preparation that ended has left its mark, which nobody    *)
(* takes away while the wrapper has the session; so has one that is about  *)
(* to end.                                                                 *)
ReadyIsMarked == \A w \in Wrappers :
    /\ conn[w] = None => ready[w] = {}
    /\ "session" \in ready[w] => marked[conn[w]]
    /\ "zone" \in ready[w] => pc[w] = "none"
    /\ "zone" \in ready[w] \/ pc[w] \in {"commit", "return"} =>
          CacheHit(conn[w], zone[w])
    /\ pc[w] \in {"show", "alter"} => zone[w] # None

IInv == TypeOK /\ Exclusive /\ ReadyIsMarked /\ MarksTellTheTruth
-----------------------------------------------------------------------------
LEMMA InitInv == Init => IInv
BY ConstantsOK DEF Init, IInv, TypeOK, Exclusive, ReadyIsMarked, MarksTellTheTruth,
   CacheHit

(* A statement of w concerns the session of w only. *)
LEMMA ConnectKeeps ==
    ASSUME IInv, NEW w \in Wrappers, Connect(w) PROVE IInv'
<1>1. PICK s \in Idle : /\ conn' = [conn EXCEPT ![w] = s]
                        /\ Opened(s) \/ UNCHANGED sessionVars
  BY DEF Connect
<1>2. s \in Sessions /\ s # None /\ \A v \in Wrappers : conn[v] # s
  BY <1>1, ConstantsOK DEF Idle
<1> USE DEF Connect, Goto, Opened, Unmarked, sessionVars
<1>3. TypeOK'
  <2>1. /\ conn' \in [Wrappers -> Sessions \cup {None}]
        /\ pc' = [pc EXCEPT ![w] = "autocommit"]
        /\ connecting' = connecting \cup {w}
        /\ \A v \in Wrappers : pc'[v] # "none" => conn'[v] # None
    BY <1>1, <1>2 DEF IInv, TypeOK
  <2>2. /\ live' \in [Sessions -> BOOLEAN] /\ noorder' \in [Sessions -> BOOLEAN]
        /\ tz' \in [Sessions -> Zones] /\ marked' \in [Sessions -> BOOLEAN]
        /\ cached' \in [Sessions -> Zones \cup {None}] /\ doubtful' \subseteq Sessions
    <3>1. CASE Opened(s) BY <1>2, <3>1, ConstantsOK DEF IInv, TypeOK
    <3>2. CASE UNCHANGED sessionVars BY <3>2 DEF IInv, TypeOK
    <3> QED BY <1>1, <3>1, <3>2
  <2>3. /\ errors' \in [Wrappers -> BOOLEAN] /\ UNCHANGED <<zone, auto>>
        /\ ready' \in [Wrappers -> SUBSET {"session", "zone"}]
    BY DEF IInv, TypeOK
  <2> QED BY <2>1, <2>2, <2>3 DEF IInv, TypeOK
<1>4. Exclusive' BY <1>1, <1>2 DEF IInv, TypeOK, Exclusive
<1>5. ReadyIsMarked'
  BY <1>1, <1>2 DEF IInv, TypeOK, ReadyIsMarked, CacheHit
<1>6. MarksTellTheTruth'
  BY <1>1, <1>2 DEF IInv, TypeOK, MarksTellTheTruth
<1> QED BY <1>3, <1>4, <1>5, <1>6 DEF IInv

LEMMA StepKeeps ==
    ASSUME IInv, NEW w \in Wrappers, Step(w) PROVE IInv'
<1> USE DEF Goto, Ready, Executes, Raw, EnsureTimezone, CacheHit
<1>0. conn[w] \in Sessions /\ conn[w] # None
  BY ConstantsOK DEF IInv, TypeOK, Step, SetAutocommit, InitSession, ShowTimezone,
     AlterTimezone, Commit, Return, StatementFails
<1>a. \A v \in Wrappers \ {w} : conn[v] # conn[w] BY <1>0 DEF IInv, Exclusive
<1>1. CASE SetAutocommit(w)
  <2> USE DEF SetAutocommit, sessionVars
  <2>1. TypeOK' BY <1>0, <1>1, ConstantsOK DEF IInv, TypeOK
  <2>2. Exclusive' BY <1>1 DEF IInv, Exclusive
  <2>3. ReadyIsMarked' BY <1>0, <1>a, <1>1 DEF IInv, TypeOK, ReadyIsMarked
  <2>4. MarksTellTheTruth' BY <1>1 DEF IInv, MarksTellTheTruth
  <2> QED BY <2>1, <2>2, <2>3, <2>4 DEF IInv
<1>2. CASE InitSession(w)
  <2> USE DEF InitSession
  <2>1. TypeOK' BY <1>0, <1>2, ConstantsOK DEF IInv, TypeOK
  <2>2. Exclusive' BY <1>2 DEF IInv, Exclusive
  <2>3. ReadyIsMarked' BY <1>0, <1>a, <1>2 DEF IInv, TypeOK, ReadyIsMarked
  <2>4. MarksTellTheTruth' BY <1>0, <1>2 DEF IInv, TypeOK, MarksTellTheTruth
  <2> QED BY <2>1, <2>2, <2>3, <2>4 DEF IInv
<1>3. CASE ShowTimezone(w)
  <2> USE DEF ShowTimezone
  <2>1. TypeOK' BY <1>0, <1>3, ConstantsOK DEF IInv, TypeOK
  <2>2. Exclusive' BY <1>3 DEF IInv, Exclusive
  <2>3. ReadyIsMarked' BY <1>0, <1>a, <1>3 DEF IInv, TypeOK, ReadyIsMarked
  <2>4. MarksTellTheTruth' BY <1>0, <1>3 DEF IInv, TypeOK, MarksTellTheTruth
  <2> QED BY <2>1, <2>2, <2>3, <2>4 DEF IInv
<1>4. CASE AlterTimezone(w)
  <2> USE DEF AlterTimezone
  <2>1. TypeOK' BY <1>0, <1>4, ConstantsOK DEF IInv, TypeOK, ReadyIsMarked
  <2>2. Exclusive' BY <1>4 DEF IInv, Exclusive
  <2>3. ReadyIsMarked' BY <1>0, <1>a, <1>4 DEF IInv, TypeOK, ReadyIsMarked
  <2>4. MarksTellTheTruth' BY <1>0, <1>4 DEF IInv, TypeOK, MarksTellTheTruth
  <2> QED BY <2>1, <2>2, <2>3, <2>4 DEF IInv
<1>5. CASE Commit(w) \/ Return(w)
  <2> USE DEF Commit, Return, sessionVars
  <2>1. TypeOK' BY <1>0, <1>5, ConstantsOK DEF IInv, TypeOK
  <2>2. Exclusive' BY <1>5 DEF IInv, Exclusive
  <2>3. ReadyIsMarked' BY <1>0, <1>a, <1>5 DEF IInv, TypeOK, ReadyIsMarked
  <2>4. MarksTellTheTruth' BY <1>5 DEF IInv, MarksTellTheTruth
  <2> QED BY <2>1, <2>2, <2>3, <2>4 DEF IInv
<1>6. CASE StatementFails(w)
  <2> USE DEF StatementFails, MarksUntouched
  <2>1. TypeOK'
    <3>1. /\ errors' \in [Wrappers -> BOOLEAN] /\ live' \in [Sessions -> BOOLEAN]
          /\ connecting' = connecting \ {w} /\ pc' = [pc EXCEPT ![w] = "none"]
      BY <1>0, <1>6 DEF IInv, TypeOK
    <3>2. /\ noorder' \in [Sessions -> BOOLEAN] /\ tz' \in [Sessions -> Zones]
          /\ doubtful' \subseteq Sessions
      <4>0. /\ noorder \in [Sessions -> BOOLEAN] /\ tz \in [Sessions -> Zones]
            /\ doubtful \subseteq Sessions
            /\ pc[w] = "alter" => zone[w] \in Zones
        BY DEF IInv, TypeOK, ReadyIsMarked
      <4>1. CASE UNCHANGED <<noorder, tz, doubtful>> BY <4>0, <4>1
      <4>2. CASE /\ noorder' = [noorder EXCEPT ![conn[w]] = FALSE]
                 /\ UNCHANGED <<tz, doubtful>>
        BY <4>0, <4>2
      <4>3. CASE /\ pc[w] = "alter" /\ tz' = [tz EXCEPT ![conn[w]] = zone[w]]
                 /\ doubtful' \in {doubtful, doubtful \cup {conn[w]}}
                 /\ UNCHANGED noorder
        BY <1>0, <4>0, <4>3
      <4> QED BY <1>6, <4>1, <4>2, <4>3
    <3> QED BY <1>6, <3>1, <3>2 DEF IInv, TypeOK
  <2>2. Exclusive' BY <1>6 DEF IInv, Exclusive
  <2>3. ReadyIsMarked' BY <1>0, <1>a, <1>6 DEF IInv, TypeOK, ReadyIsMarked
  <2>4. MarksTellTheTruth' BY <1>0, <1>6 DEF IInv, TypeOK, MarksTellTheTruth
  <2> QED BY <2>1, <2>2, <2>3, <2>4 DEF IInv
<1> QED BY <1>1, <1>2, <1>3, <1>4, <1>5, <1>6 DEF Step

LEMMA LaterKeeps ==
    ASSUME IInv, NEW w \in Wrappers,
           \/ \E z \in Zones \cup {None} : TimeZoneChanged(w, z)
           \/ QueryFails(w) \/ RequestEnds(w)
    PROVE  IInv'
<1> USE DEF Goto, Raw, EnsureTimezone, CacheHit, sessionVars
<1>1. ASSUME NEW z \in Zones \cup {None}, TimeZoneChanged(w, z) PROVE IInv'
  <2> USE DEF TimeZoneChanged
  <2>1. TypeOK' BY <1>1, ConstantsOK DEF IInv, TypeOK
  <2>2. Exclusive' BY <1>1 DEF IInv, Exclusive
  <2>3. ReadyIsMarked' BY <1>1 DEF IInv, TypeOK, ReadyIsMarked
  <2>4. MarksTellTheTruth' BY <1>1 DEF IInv, MarksTellTheTruth
  <2> QED BY <2>1, <2>2, <2>3, <2>4 DEF IInv
<1>2. CASE QueryFails(w) \/ RequestEnds(w)
  <2> USE DEF QueryFails, RequestEnds
  <2>1. TypeOK' BY <1>2, ConstantsOK DEF IInv, TypeOK
  <2>2. Exclusive' BY <1>2 DEF IInv, TypeOK, Exclusive
  <2>3. ReadyIsMarked'
    <3>1. /\ UNCHANGED <<pc, zone, marked, cached>>
          /\ \A v \in Wrappers \ {w} : conn'[v] = conn[v] /\ ready'[v] = ready[v]
          /\ pc[w] = "none"
          /\ \/ conn'[w] = conn[w] /\ ready'[w] = ready[w]
             \/ conn'[w] = None /\ ready'[w] = {}
      BY <1>2 DEF IInv, TypeOK
    <3> QED BY <3>1 DEF IInv, ReadyIsMarked
  <2>4. MarksTellTheTruth' BY <1>2 DEF IInv, MarksTellTheTruth
  <2> QED BY <2>1, <2>2, <2>3, <2>4 DEF IInv
<1> QED BY <1>1, <1>2

LEMMA NextInv == IInv /\ [Next]_vars => IInv'
<1> SUFFICES ASSUME IInv, [Next]_vars PROVE IInv' OBVIOUS
<1>1. ASSUME NEW s \in Sessions, SessionDies(s) PROVE IInv'
  BY <1>1 DEF SessionDies, IInv, TypeOK, Exclusive, ReadyIsMarked, MarksTellTheTruth,
     CacheHit
<1>2. CASE UNCHANGED vars
  BY <1>2 DEF vars, sessionVars, IInv, TypeOK, Exclusive, ReadyIsMarked,
     MarksTellTheTruth, CacheHit
<1> QED BY <1>1, <1>2, ConnectKeeps, StepKeeps, LaterKeeps DEF Next

LEMMA Invariant == Spec => []IInv
BY InitInv, NextInv, PTL DEF Spec
-----------------------------------------------------------------------------
(* TypeOK in every reachable state. *)
THEOREM SessionsAreTyped == Spec => []TypeOK
<1>1. IInv => TypeOK BY DEF IInv
<1> QED BY <1>1, Invariant, PTL

(* MarksTellTheTruth in every reachable state: marks are written after the *)
(* statement, by the one wrapper that has the session.                     *)
THEOREM MarksAreTrue == Spec => []MarksTellTheTruth
<1>1. IInv => MarksTellTheTruth BY DEF IInv
<1> QED BY <1>1, Invariant, PTL

(* PreparedIsConfigured in every reachable state: what the preparation     *)
(* skipped because of a mark another wrapper had left was not needed.      *)
THEOREM PreparedSessionsAreConfigured == Spec => []PreparedIsConfigured
<1>1. IInv => PreparedIsConfigured
  <2> SUFFICES ASSUME IInv, NEW w \in Wrappers
               PROVE  /\ "session" \in ready[w] => ~noorder[conn[w]]
                      /\ ("zone" \in ready[w] /\ zone[w] # None /\ conn[w] \notin doubtful)
                            => tz[conn[w]] = zone[w]
    BY DEF PreparedIsConfigured
  <2>1. ready[w] # {} => conn[w] \in Sessions
    BY DEF IInv, TypeOK, ReadyIsMarked
  <2> QED BY <2>1 DEF IInv, ReadyIsMarked, MarksTellTheTruth, CacheHit
<1> QED BY <1>1, Invariant, PTL
=============================================================================
