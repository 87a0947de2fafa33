---------------------------- MODULE ClientProofs ----------------------------
(* Proofs about the client: ClientUdp, for any number of associations and    *)
(* callers, and Heartbeat, for all settings and delays that it assumes.      *)
EXTENDS ClientUdp, Heartbeat, FiniteSetTheorems, TLAPS

USE DEF NoConn, AssocSteps, CallerSteps, AnswerSteps, answerVars

LEMMA NoConnIsNone == NoConn \notin ConnIds
  BY MaxConnsAssumption DEF ConnIds

\* A task of an association leaves the connection, its lock and the callers that
\* connect alone.
LEMMA AssocStepIndInv ==
  ASSUME IndInv, TypeOK', UNCHANGED <<conn, CONNECTION, lock>>,
         UNCHANGED caller \/ \E r \in Callers : /\ caller[r] # "connecting"
                                                /\ caller' = [caller EXCEPT ![r] = "waiting"]
  PROVE  LockIsHeld' /\ ConnectingHasLock' /\ ReplacesClosed' /\ OneConnection'
<1>1. \A r \in Callers : (caller'[r] = "connecting") <=> (caller[r] = "connecting")
  BY DEF IndInv, TypeOK
<1>2. LockIsHeld' /\ ConnectingHasLock'
  BY <1>1 DEF IndInv, TypeOK, LockIsHeld, ConnectingHasLock
<1>3. ReplacesClosed' /\ OneConnection'
  BY DEF IndInv, ReplacesClosed, Usable, OneConnection
<1>. QED BY <1>2, <1>3

LEMMA InitIndInv == Init => IndInv
<1>. SUFFICES ASSUME Init PROVE IndInv
  OBVIOUS
<1>1. next_assoc_id \in AssocIds /\ id \in [Assocs -> AssocIds]
  BY U16Assumption DEF Init, AssocIds
<1>2. TypeOK
  BY <1>1 DEF Init, TypeOK
<1>3. PacketsHaveOrigin /\ LiveAreIdle /\ LockIsHeld /\ ConnectingHasLock /\ ReplacesClosed
      /\ OneConnection
  BY DEF Init, Callers, PacketsHaveOrigin, LiveAreIdle, LockIsHeld, ConnectingHasLock,
         ReplacesClosed, OneConnection
<1>. QED BY <1>2, <1>3 DEF IndInv

\* Two facts on which the types of the packets' steps rest: an ID belongs to AssocIds,
\* and a packet whose task runs has an association and, when it uses it, a connection.
LEMMA LateInType ==
  ASSUME TypeOK, NEW a \in Assocs, NEW ss PROVE LateIn(ss, a) \subseteq AssocIds
  BY DEF TypeOK, LateIn

\* Types are preserved by every step. The IDs of an association that starts come
\* from a counter that wraps.
LEMMA NextTypeOK == TypeOK /\ PacketsHaveOrigin /\ [Next]_vars => TypeOK'
<1>. SUFFICES ASSUME TypeOK, PacketsHaveOrigin, [Next]_vars PROVE TypeOK'
  OBVIOUS
<1>0. Assocs \subseteq Callers /\ Packets \subseteq Callers
  BY DEF Callers
<1>1. ASSUME NEW a \in Assocs, Accept(a) \/ Refuse(a) PROVE TypeOK'
  <2>1. FetchAdd(next_assoc_id) \in AssocIds
    BY U16Assumption, Z3 DEF TypeOK, AssocIds, FetchAdd
  <2>2. clashed' \subseteq Assocs
    BY <1>1 DEF Accept, Refuse, TypeOK
  <2>. QED BY <1>1, <2>1, <2>2 DEF Accept, Refuse, TypeOK
<1>2. ASSUME NEW a \in Assocs, Insert(a) PROVE TypeOK'
  BY <1>2 DEF Insert, TypeOK
<1>3. ASSUME NEW a \in Assocs, NEW p \in Packets, Forward(a, p) PROVE TypeOK'
  BY <1>0, <1>3 DEF Forward, assocVars, TypeOK
<1>4. ASSUME NEW a \in Assocs, StopAssociating(a) PROVE TypeOK'
  BY <1>4 DEF StopAssociating, TypeOK
<1>5. ASSUME NEW a \in Assocs, RemoveSession(a) PROVE TypeOK'
  <2>1. late' \subseteq AssocIds
    BY <1>5, LateInType DEF RemoveSession, TypeOK
  <2>. QED BY <1>0, <1>5, <2>1 DEF RemoveSession, TypeOK
<1>6. ASSUME NEW r \in Callers, Acquire(r) PROVE TypeOK'
  BY <1>6 DEF Acquire, assocVars, TypeOK
<1>7. ASSUME NEW r \in Callers, NEW k \in ConnIds, Connect(r, k) PROVE TypeOK'
  BY <1>7 DEF Connect, assocVars, TypeOK
<1>8. ASSUME NEW r \in Callers, Cancel(r) PROVE TypeOK'
  <2>1. late' \subseteq AssocIds
    BY <1>8, LateInType DEF Cancel, TypeOK
  <2>. QED BY <1>8, <2>1 DEF Cancel, assocVars, TypeOK
<1>9. ASSUME NEW p \in Packets, SendPacket(p) PROVE TypeOK'
  <2>1. of[p] \in Assocs /\ got[p] \in ConnIds
    BY <1>9 DEF SendPacket, PacketsHaveOrigin
  <2>2. late' \subseteq AssocIds
    BY <1>9, <2>1, LateInType DEF SendPacket, TypeOK
  <2>3. sessions' \subseteq ConnIds \X AssocIds
    BY <1>9, <2>1 DEF SendPacket, WithSession, Closed, TypeOK
  <2>4. conn' \in [ConnIds -> {"unused", "open", "closed"}]
    BY <1>9 DEF SendPacket, Closed, TypeOK
  <2>. QED BY <1>0, <1>9, <2>2, <2>3, <2>4 DEF SendPacket, assocVars, TypeOK
<1>10. ASSUME NEW a \in Assocs, Dissociate(a) PROVE TypeOK'
  <2>1. late' \subseteq AssocIds
    BY <1>10, LateInType DEF Dissociate, TypeOK
  <2>. QED BY <1>0, <1>10, <2>1 DEF Dissociate, assocVars, TypeOK
<1>10a. ASSUME NEW a \in Assocs, WriteDissociate(a) PROVE TypeOK'
  BY <1>0, <1>10a DEF WriteDissociate, assocVars, TypeOK
<1>11. ASSUME NEW p \in Packets, AcceptAnswer(p) PROVE TypeOK'
  BY <1>11 DEF AcceptAnswer, assocVars, TypeOK
<1>12. ASSUME NEW p \in Packets, HandlePacket(p) PROVE TypeOK'
  <2>1. of[p] \in Assocs /\ got[p] \in ConnIds
    BY <1>12 DEF HandlePacket, PacketsHaveOrigin
  <2>2. late' \subseteq AssocIds
    BY <1>12, <2>1, LateInType DEF HandlePacket, TypeOK
  <2>3. sessions' \subseteq ConnIds \X AssocIds
    BY <1>12, <2>1 DEF HandlePacket, WithSession, TypeOK
  <2>. QED BY <1>12, <2>2, <2>3 DEF HandlePacket, assocVars, TypeOK
<1>13. ASSUME NEW k \in ConnIds, CloseConn(k) PROVE TypeOK'
  BY <1>13 DEF CloseConn, Closed, assocVars, TypeOK
<1>14. CASE UNCHANGED vars
  BY <1>14 DEF vars, assocVars, TypeOK
<1>. QED BY <1>1, <1>2, <1>3, <1>4, <1>5, <1>6, <1>7, <1>8, <1>9, <1>10, <1>10a, <1>11, <1>12, <1>13, <1>14
         DEF Next

\* A packet's task knows its association, and its connection once get_conn gave one.
LEMMA NextOrigin ==
  TypeOK /\ PacketsHaveOrigin /\ [Next]_vars => PacketsHaveOrigin'
<1>. SUFFICES ASSUME TypeOK, PacketsHaveOrigin, [Next]_vars, NEW q \in Packets
              PROVE  (/\ caller[q] # "idle" => of[q] \in Assocs
                      /\ caller[q] = "using" => got[q] \in ConnIds
                      /\ answer[q] # "none" => caller[q] = "done" /\ got[q] \in ConnIds)'
  BY DEF PacketsHaveOrigin
<1>0. q \in Callers /\ q \notin Assocs /\ Assocs \subseteq Callers /\ Packets \subseteq Callers
  BY CallersAssumption DEF Callers
<1>. USE DEF PacketsHaveOrigin
<1>1. ASSUME NEW a \in Assocs, Accept(a) \/ Refuse(a) \/ Insert(a) \/ StopAssociating(a)
      PROVE  UNCHANGED <<caller, of, got, answer>>
  BY <1>1 DEF Accept, Refuse, Insert, StopAssociating
<1>2. CASE UNCHANGED <<caller, of, got, answer>>
  BY <1>2
<1>3. ASSUME NEW a \in Assocs, NEW p \in Packets, Forward(a, p)
      PROVE  (caller[q] # "idle" => of[q] \in Assocs)' /\ (caller[q] = "using" => got[q] \in ConnIds)'
             /\ (answer[q] # "none" => caller[q] = "done" /\ got[q] \in ConnIds)'
  BY <1>0, <1>3 DEF Forward, TypeOK
<1>4. ASSUME NEW a \in Assocs, RemoveSession(a) \/ Dissociate(a) \/ WriteDissociate(a)
      PROVE  caller'[q] = caller[q] /\ got'[q] = got[q] /\ UNCHANGED <<of, answer>>
  BY <1>0, <1>4 DEF RemoveSession, Dissociate, WriteDissociate, TypeOK
<1>5. ASSUME NEW r \in Callers, Acquire(r)
      PROVE  (caller[q] # "idle" => of[q] \in Assocs)' /\ (caller[q] = "using" => got[q] \in ConnIds)'
             /\ (answer[q] # "none" => caller[q] = "done" /\ got[q] \in ConnIds)'
  BY <1>0, <1>5 DEF Acquire, Usable, TypeOK
<1>6. ASSUME NEW r \in Callers, NEW k \in ConnIds, Connect(r, k)
      PROVE  (caller[q] # "idle" => of[q] \in Assocs)' /\ (caller[q] = "using" => got[q] \in ConnIds)'
             /\ (answer[q] # "none" => caller[q] = "done" /\ got[q] \in ConnIds)'
  BY <1>0, <1>6 DEF Connect, TypeOK
<1>7. ASSUME NEW r \in Callers, Cancel(r)
      PROVE  (caller[q] # "idle" => of[q] \in Assocs)' /\ (caller[q] = "using" => got[q] \in ConnIds)'
             /\ (answer[q] # "none" => caller[q] = "done" /\ got[q] \in ConnIds)'
  BY <1>0, <1>7 DEF Cancel, TypeOK
<1>8. ASSUME NEW p \in Packets, SendPacket(p)
      PROVE  (caller[q] # "idle" => of[q] \in Assocs)' /\ (caller[q] = "using" => got[q] \in ConnIds)'
             /\ (answer[q] # "none" => caller[q] = "done" /\ got[q] \in ConnIds)'
  BY <1>0, <1>8 DEF SendPacket, TypeOK
<1>9. ASSUME NEW p \in Packets, AcceptAnswer(p) \/ HandlePacket(p)
      PROVE  (caller[q] # "idle" => of[q] \in Assocs)' /\ (caller[q] = "using" => got[q] \in ConnIds)'
             /\ (answer[q] # "none" => caller[q] = "done" /\ got[q] \in ConnIds)'
  BY <1>0, <1>9 DEF AcceptAnswer, HandlePacket, TypeOK
<1>10. ASSUME NEW k \in ConnIds, CloseConn(k) PROVE UNCHANGED <<caller, of, got, answer>>
  BY <1>10 DEF CloseConn
<1>11. CASE UNCHANGED vars
  BY <1>11 DEF vars
<1>. QED BY <1>1, <1>2, <1>3, <1>4, <1>5, <1>6, <1>7, <1>8, <1>9, <1>10, <1>11 DEF Next

\* The invariant is preserved by every step.
LEMMA NextIndInv == IndInv /\ [Next]_vars => IndInv'
<1>. SUFFICES ASSUME IndInv, [Next]_vars PROVE IndInv'
  OBVIOUS
<1>0. TypeOK /\ TypeOK'
  BY NextTypeOK DEF IndInv
<1>o. PacketsHaveOrigin'
  BY <1>0, NextOrigin DEF IndInv
<1>1. ASSUME NEW a \in Assocs, Accept(a) \/ Refuse(a) \/ Insert(a) \/ StopAssociating(a) PROVE IndInv'
  <2>1. LiveAreIdle'
    BY <1>0, <1>1 DEF Accept, Refuse, Insert, StopAssociating, IndInv, TypeOK, LiveAreIdle, Live
  <2>2. UNCHANGED <<conn, CONNECTION, lock, caller>>
    BY <1>1 DEF Accept, Refuse, Insert, StopAssociating
  <2>. QED BY <1>0, <1>o, <2>1, <2>2, AssocStepIndInv DEF IndInv
<1>2. ASSUME NEW a \in Assocs, NEW p \in Packets, Forward(a, p) PROVE IndInv'
  <2>1. p \in Callers /\ caller[p] # "connecting" /\ p \notin Assocs
    BY <1>2, CallersAssumption DEF Forward, Callers
  <2>2. caller' = [caller EXCEPT ![p] = "waiting"] /\ UNCHANGED <<conn, CONNECTION, lock, assoc>>
    BY <1>2 DEF Forward, assocVars
  <2>3. LiveAreIdle'
    BY <1>0, <2>1, <2>2 DEF IndInv, TypeOK, LiveAreIdle, Live, Callers
  <2>4. LockIsHeld' /\ ConnectingHasLock' /\ ReplacesClosed' /\ OneConnection'
    BY <1>0, <2>1, <2>2, AssocStepIndInv
  <2>. QED BY <1>0, <1>o, <2>3, <2>4 DEF IndInv
<1>3. ASSUME NEW a \in Assocs, RemoveSession(a) PROVE IndInv'
  <2>1. a \in Callers /\ caller[a] # "connecting"
    BY <1>3 DEF RemoveSession, IndInv, LiveAreIdle, Live, Callers
  <2>2. /\ UNCHANGED caller \/ caller' = [caller EXCEPT ![a] = "waiting"]
        /\ UNCHANGED <<conn, CONNECTION, lock>>
    BY <1>3 DEF RemoveSession
  <2>3. LiveAreIdle'
    <3>1. assoc'[a] \in {"gone", "panicked"} /\ \A b \in Assocs \ {a} : assoc'[b] = assoc[b]
      BY <1>0, <1>3 DEF RemoveSession, TypeOK
    <3>2. \A b \in Assocs \ {a} : caller'[b] = caller[b]
      BY <1>0, <2>2 DEF TypeOK, Callers
    <3>. QED BY <3>1, <3>2 DEF IndInv, LiveAreIdle, Live
  <2>4. LockIsHeld' /\ ConnectingHasLock' /\ ReplacesClosed' /\ OneConnection'
    BY <1>0, <2>1, <2>2, AssocStepIndInv
  <2>. QED BY <1>0, <1>o, <2>3, <2>4 DEF IndInv
<1>4. ASSUME NEW r \in Callers, caller[r] # "idle", UNCHANGED assoc,
             \A u \in Callers \ {r} : caller'[u] = caller[u]
      PROVE  LiveAreIdle'
  BY <1>4 DEF IndInv, LiveAreIdle, Live, Callers
<1>5. ASSUME NEW r \in Callers, Acquire(r) PROVE IndInv'
  <2>0. LiveAreIdle'
    BY <1>0, <1>4, <1>5 DEF Acquire, assocVars, TypeOK
  <2>1. CASE Usable
    BY <1>0, <1>o, <1>5, <2>0, <2>1 DEF Acquire, IndInv, TypeOK, LockIsHeld, ConnectingHasLock,
                            ReplacesClosed, Usable, OneConnection
  <2>2. CASE ~Usable
    <3>1. \A u \in Callers : u # Nobody
      BY CallersAssumption DEF Callers
    <3>. QED BY <1>0, <1>o, <1>5, <2>0, <2>2, <3>1 DEF Acquire, IndInv, TypeOK, LockIsHeld, ConnectingHasLock,
                            ReplacesClosed, Usable, OneConnection
  <2>. QED BY <2>1, <2>2
<1>6. ASSUME NEW r \in Callers, NEW k \in ConnIds, Connect(r, k) PROVE IndInv'
  <2>0. LiveAreIdle'
    BY <1>0, <1>4, <1>6 DEF Connect, assocVars, TypeOK
  <2>1. lock = r /\ ~Usable /\ r # Nobody
    BY <1>6, CallersAssumption DEF Connect, IndInv, ConnectingHasLock, ReplacesClosed, Callers
  <2>2. \A j \in ConnIds : conn[j] # "open"
    BY <2>1, NoConnIsNone DEF IndInv, OneConnection, Usable
  <2>3. OneConnection'
    BY <1>0, <1>6, <2>2 DEF Connect, TypeOK, OneConnection
  <2>4. \A u \in Callers : caller'[u] # "connecting"
    BY <1>0, <1>6, <2>1 DEF Connect, IndInv, TypeOK, ConnectingHasLock
  <2>5. lock' = Nobody
    BY <1>6 DEF Connect
  <2>. QED BY <1>0, <1>o, <2>0, <2>3, <2>4, <2>5 DEF IndInv, LockIsHeld, ConnectingHasLock, ReplacesClosed
<1>7. ASSUME NEW r \in Callers, Cancel(r) PROVE IndInv'
  <2>1. LiveAreIdle'
    BY <1>0, <1>4, <1>7 DEF Cancel, assocVars, TypeOK
  <2>. QED BY <1>0, <1>o, <1>7, <2>1 DEF Cancel, IndInv, TypeOK, LockIsHeld, ConnectingHasLock,
                                   ReplacesClosed, Usable, OneConnection
<1>8. ASSUME NEW r \in Callers, SendPacket(r) \/ Dissociate(r) \/ WriteDissociate(r) PROVE IndInv'
  <2>0. /\ caller[r] \in {"using", "dissociating"}
        /\ \/ caller' = [caller EXCEPT ![r] = "done"]
           \/ caller' = [caller EXCEPT ![r] = "dissociating"]
    BY <1>8 DEF SendPacket, Dissociate, WriteDissociate
  <2>1. UNCHANGED <<assoc, CONNECTION, lock>>
    BY <1>8 DEF SendPacket, Dissociate, WriteDissociate, assocVars
  <2>2. \A k \in ConnIds : conn'[k] = "open" => conn[k] = "open"
    BY <1>0, <1>8 DEF SendPacket, Dissociate, WriteDissociate, Closed, TypeOK
  <2>3. OneConnection' /\ ReplacesClosed'
    BY <1>0, <2>1, <2>2, NoConnIsNone DEF IndInv, TypeOK, OneConnection, ReplacesClosed, Usable
  <2>4. LockIsHeld' /\ ConnectingHasLock'
    BY <1>0, <2>0, <2>1 DEF IndInv, TypeOK, LockIsHeld, ConnectingHasLock
  <2>5. LiveAreIdle'
    BY <1>0, <1>4, <2>0, <2>1 DEF TypeOK
  <2>. QED BY <1>0, <1>o, <2>3, <2>4, <2>5 DEF IndInv
<1>a. ASSUME NEW p \in Packets, AcceptAnswer(p) \/ HandlePacket(p) PROVE IndInv'
  <2>1. UNCHANGED <<assoc, conn, CONNECTION, lock, caller>>
    BY <1>a DEF AcceptAnswer, HandlePacket, assocVars
  <2>2. LiveAreIdle'
    BY <2>1 DEF IndInv, LiveAreIdle, Live
  <2>. QED BY <1>0, <1>o, <2>1, <2>2, AssocStepIndInv DEF IndInv
<1>9. ASSUME NEW k \in ConnIds, CloseConn(k) PROVE IndInv'
  BY <1>0, <1>o, <1>9
  DEF CloseConn, Closed, assocVars, IndInv, TypeOK, LiveAreIdle, Live, LockIsHeld,
      ConnectingHasLock, ReplacesClosed, Usable, OneConnection
<1>10. CASE UNCHANGED vars
  BY <1>0, <1>o, <1>10
  DEF vars, assocVars, IndInv, LiveAreIdle, Live, LockIsHeld, ConnectingHasLock,
      ReplacesClosed, Usable, OneConnection
<1>. QED BY <1>1, <1>2, <1>3, <1>5, <1>6, <1>7, <1>8, <1>a, <1>9, <1>10 DEF Next, Callers

\* The invariant holds in every state: get_conn replaces the connection under its
\* lock, and only a closed one.
THEOREM Inductive == Spec => []IndInv
  BY InitIndInv, NextIndInv, PTL DEF Spec

\* The state of the associations and of get_conn's callers keeps its types.
THEOREM TypeCorrect == Spec => []TypeOK
<1>1. IndInv => TypeOK
  BY DEF IndInv
<1>. QED BY <1>1, Inductive, PTL

\* The connection in CONNECTION is the only open one.
THEOREM OnlyOneConnection == Spec => []OneConnection
<1>1. IndInv => OneConnection
  BY DEF IndInv
<1>. QED BY <1>1, Inductive, PTL

\* The timeout of get_conn never leaves CONNECTION locked behind it.
THEOREM LockHasHolder == Spec => []LockIsHeld
<1>1. IndInv => LockIsHeld
  BY DEF IndInv
<1>. QED BY <1>1, Inductive, PTL

-----------------------------------------------------------------------------
(* The associations' table *)

LEMMA InitSessionInv == Init => SessionInv
<1>. SUFFICES ASSUME Init PROVE SessionInv
  OBVIOUS
<1>1. \A p \in Packets : of[p] \notin Assocs
  BY CallersAssumption DEF Init
<1>. QED BY <1>1 DEF Init, SessionInv, TwinsClash, Live, SessionIsOwn, NoDeadSession,
                      OriginsStarted, AnswersHavePeer

\* A step that leaves the associations, their table and their sockets alone, and makes
\* no answer's task panic.
LEMMA SessionInvFrame ==
  ASSUME SessionInv, UNCHANGED <<assocVars, peers, of>>,
         \A p \in Packets : answer'[p] = "panicked" => answer[p] = "panicked"
  PROVE  SessionInv'
<1>1. TwinsClash' /\ SessionIsOwn'
  BY DEF assocVars, SessionInv, TwinsClash, SessionIsOwn, Live
<1>2. NoDeadSession' /\ AnswersHavePeer'
  BY DEF assocVars, SessionInv, NoDeadSession, AnswersHavePeer, Live
<1>3. OriginsStarted'
  BY DEF assocVars, SessionInv, OriginsStarted, Live
<1>. QED BY <1>1, <1>2, <1>3 DEF SessionInv

\* The parts about those that asked: they do not start again.
LEMMA StartedStay ==
  ASSUME IndInv, SessionInv, UNCHANGED <<of, answer>>, clashed \subseteq clashed',
         \A b \in Assocs : assoc[b] \notin {"new", "accepted"} =>
                            /\ assoc'[b] \notin {"new", "accepted"}
                            /\ Live(b)' => Live(b) /\ (b \in peers => b \in peers')
  PROVE  OriginsStarted' /\ AnswersHavePeer'
<1>1. OriginsStarted'
  BY DEF SessionInv, OriginsStarted, Live
<1>2. \A p \in Packets : answer[p] = "panicked" => of[p] \in Assocs
  BY DEF IndInv, PacketsHaveOrigin
<1>3. AnswersHavePeer'
  BY <1>2 DEF SessionInv, OriginsStarted, AnswersHavePeer, Live
<1>. QED BY <1>1, <1>3

LEMMA NextSessionInv == IndInv /\ SessionInv /\ [Next]_vars => SessionInv'
<1>. SUFFICES ASSUME IndInv, SessionInv, [Next]_vars PROVE SessionInv'
  OBVIOUS
<1>0. TypeOK
  BY DEF IndInv
<1>1. ASSUME NEW a \in Assocs, Accept(a) PROVE SessionInv'
  <2>1. /\ assoc[a] = "new" /\ assoc' = [assoc EXCEPT ![a] = "accepted"]
        /\ id' = [id EXCEPT ![a] = next_assoc_id] /\ UNCHANGED <<UDP_SESSIONS, of, answer, peers>>
    BY <1>1 DEF Accept
  <2>2. \A b \in Assocs \ {a} : assoc'[b] = assoc[b] /\ id'[b] = id[b]
    BY <1>0, <2>1 DEF TypeOK
  <2>3. assoc'[a] = "accepted" /\ id'[a] = next_assoc_id
    BY <1>0, <2>1 DEF TypeOK
  <2>4. clashed \subseteq clashed'
    BY <1>1 DEF Accept
  <2>5. TwinsClash'
    <3>1. ASSUME NEW b \in Assocs \ {a}, Live(b), id[b] = next_assoc_id
          PROVE  b \in clashed' /\ a \in clashed'
      BY <1>1, <3>1 DEF Accept
    <3>. QED BY <2>2, <2>3, <2>4, <3>1 DEF SessionInv, TwinsClash, Live
  <2>6. SessionIsOwn'
    BY <2>1, <2>2, <2>3, <2>4 DEF SessionInv, SessionIsOwn
  <2>7. NoDeadSession'
    BY <1>0, <2>1, <2>2 DEF SessionInv, NoDeadSession, TypeOK
  <2>8. OriginsStarted' /\ AnswersHavePeer'
    BY <2>1, <2>2, <2>3, <2>4, StartedStay DEF Live
  <2>. QED BY <2>5, <2>6, <2>7, <2>8 DEF SessionInv
<1>2. ASSUME NEW a \in Assocs, Refuse(a) PROVE SessionInv'
  <2>1. /\ assoc[a] = "new" /\ assoc' = [assoc EXCEPT ![a] = "failed"]
        /\ id' = [id EXCEPT ![a] = next_assoc_id] /\ UNCHANGED <<UDP_SESSIONS, of, answer, peers, clashed>>
    BY <1>2 DEF Refuse
  <2>2. \A b \in Assocs \ {a} : assoc'[b] = assoc[b] /\ id'[b] = id[b]
    BY <1>0, <2>1 DEF TypeOK
  <2>3. assoc'[a] = "failed"
    BY <1>0, <2>1 DEF TypeOK
  <2>4. TwinsClash' /\ SessionIsOwn'
    BY <2>1, <2>2, <2>3 DEF SessionInv, TwinsClash, Live, SessionIsOwn
  <2>5. NoDeadSession'
    BY <1>0, <2>1, <2>2 DEF SessionInv, NoDeadSession, TypeOK
  <2>6. OriginsStarted' /\ AnswersHavePeer'
    BY <2>1, <2>2, <2>3, StartedStay DEF Live
  <2>. QED BY <2>4, <2>5, <2>6 DEF SessionInv
<1>3. ASSUME NEW a \in Assocs, Insert(a) PROVE SessionInv'
  <2>1. assoc[a] = "accepted" /\ UNCHANGED <<id, of, answer, peers, clashed>>
    BY <1>3 DEF Insert
  <2>2. \A b \in Assocs \ {a} : assoc'[b] = assoc[b]
    BY <1>0, <1>3 DEF Insert, TypeOK
  <2>3. \/ /\ assoc'[a] = "open"
           /\ UDP_SESSIONS' = [UDP_SESSIONS EXCEPT ![id[a]] = {a}]
        \/ assoc'[a] = "failed" /\ UNCHANGED UDP_SESSIONS
    BY <1>0, <1>3 DEF Insert, TypeOK
  <2>4. TwinsClash'
    BY <2>1, <2>2, <2>3 DEF SessionInv, TwinsClash, Live
  <2>5. SessionIsOwn'
    <3>1. ASSUME NEW b \in Assocs \ {a}, b \notin clashed, assoc[b] \in {"open", "closing"}
          PROVE  id[b] # id[a]
      BY <2>1, <3>1 DEF SessionInv, TwinsClash, Live
    <3>2. id[a] \in AssocIds /\ \A b \in Assocs : id[b] \in AssocIds
      BY <1>0 DEF TypeOK
    <3>3. \A i \in AssocIds : i # id[a] => UDP_SESSIONS'[i] = UDP_SESSIONS[i]
      BY <1>0, <2>3 DEF TypeOK
    <3>4. assoc'[a] = "open" => UDP_SESSIONS'[id[a]] = {a}
      BY <1>0, <2>3, <3>2 DEF TypeOK
    <3>. QED BY <2>1, <2>2, <2>3, <3>1, <3>2, <3>3, <3>4 DEF SessionInv, SessionIsOwn
  <2>6. NoDeadSession'
    BY <1>0, <2>1, <2>2, <2>3 DEF SessionInv, NoDeadSession, TypeOK
  <2>7. OriginsStarted' /\ AnswersHavePeer'
    BY <2>1, <2>2, <2>3, StartedStay DEF Live
  <2>. QED BY <2>4, <2>5, <2>6, <2>7 DEF SessionInv
<1>4. ASSUME NEW a \in Assocs, StopAssociating(a) PROVE SessionInv'
  <2>1. assoc[a] = "open" /\ UNCHANGED <<id, of, answer, peers, clashed, UDP_SESSIONS>>
    BY <1>4 DEF StopAssociating
  <2>2. assoc'[a] = "closing" /\ \A b \in Assocs \ {a} : assoc'[b] = assoc[b]
    BY <1>0, <1>4 DEF StopAssociating, TypeOK
  <2>3. TwinsClash' /\ SessionIsOwn'
    BY <2>1, <2>2 DEF SessionInv, TwinsClash, Live, SessionIsOwn
  <2>4. NoDeadSession'
    BY <1>0, <2>1, <2>2 DEF SessionInv, NoDeadSession, TypeOK
  <2>5. OriginsStarted' /\ AnswersHavePeer'
    BY <2>1, <2>2, StartedStay DEF Live
  <2>. QED BY <2>3, <2>4, <2>5 DEF SessionInv
<1>5. ASSUME NEW a \in Assocs, RemoveSession(a) PROVE SessionInv'
  <2>1. /\ assoc[a] = "closing" /\ UNCHANGED <<id, of, answer, clashed>> /\ peers' = peers \ {a}
        /\ UDP_SESSIONS' = [UDP_SESSIONS EXCEPT ![id[a]] = {}]
    BY <1>5 DEF RemoveSession
  <2>2. /\ assoc'[a] = IF UDP_SESSIONS[id[a]] # {} THEN "gone" ELSE "panicked"
        /\ \A b \in Assocs \ {a} : assoc'[b] = assoc[b]
    BY <1>0, <1>5 DEF RemoveSession, TypeOK
  <2>3. TwinsClash'
    BY <2>1, <2>2 DEF SessionInv, TwinsClash, Live
  <2>4. SessionIsOwn'
    <3>1. ASSUME NEW b \in Assocs \ {a}, b \notin clashed, assoc[b] \in {"open", "closing"}
          PROVE  id[b] # id[a]
      BY <2>1, <3>1 DEF SessionInv, TwinsClash, Live
    <3>2. \A b \in Assocs : id[b] \in AssocIds
      BY <1>0 DEF TypeOK
    <3>3. \A i \in AssocIds : i # id[a] => UDP_SESSIONS'[i] = UDP_SESSIONS[i]
      BY <1>0, <2>1 DEF TypeOK
    <3>4. a \notin clashed => assoc'[a] = "gone"
      BY <2>1, <2>2 DEF SessionInv, SessionIsOwn
    <3>. QED BY <2>1, <2>2, <3>1, <3>2, <3>3, <3>4 DEF SessionInv, SessionIsOwn
  <2>5. NoDeadSession'
    BY <1>0, <2>1, <2>2 DEF SessionInv, NoDeadSession, TypeOK
  <2>6. OriginsStarted' /\ AnswersHavePeer'
    BY <2>1, <2>2, StartedStay DEF Live
  <2>. QED BY <2>3, <2>4, <2>5, <2>6 DEF SessionInv
<1>6. ASSUME NEW a \in Assocs, NEW p \in Packets, Forward(a, p) PROVE SessionInv'
  <2>1. /\ UNCHANGED <<assocVars, answer>> /\ assoc[a] = "open" /\ caller[p] = "idle"
        /\ of' = [of EXCEPT ![p] = a] /\ peers' = peers \cup {a}
    BY <1>6 DEF Forward
  <2>2. TwinsClash' /\ SessionIsOwn' /\ NoDeadSession'
    BY <2>1 DEF assocVars, SessionInv, TwinsClash, Live, SessionIsOwn, NoDeadSession
  <2>3. \A q \in Packets : of'[q] = IF q = p THEN a ELSE of[q]
    BY <1>0, <2>1 DEF TypeOK
  <2>4. OriginsStarted'
    BY <2>1, <2>3 DEF assocVars, SessionInv, OriginsStarted, Live
  <2>5. answer[p] # "panicked"
    BY <2>1 DEF IndInv, PacketsHaveOrigin
  <2>6. AnswersHavePeer'
    BY <2>1, <2>3, <2>5 DEF assocVars, SessionInv, AnswersHavePeer, Live
  <2>. QED BY <2>2, <2>4, <2>6 DEF SessionInv
<1>7. ASSUME NEW p \in Packets, HandlePacket(p) PROVE SessionInv'
  <2>1. UNCHANGED <<assocVars, of, peers>>
    BY <1>7 DEF HandlePacket
  <2>2. TwinsClash' /\ SessionIsOwn' /\ NoDeadSession' /\ OriginsStarted'
    BY <2>1 DEF assocVars, SessionInv, TwinsClash, Live, SessionIsOwn, NoDeadSession, OriginsStarted
  <2>3. of[p] \in Assocs
    BY <1>7 DEF HandlePacket, IndInv, PacketsHaveOrigin
  <2>4. ASSUME Live(of[p]), of[p] \notin clashed PROVE UDP_SESSIONS[id[of[p]]] \subseteq peers
    <3>0. assoc[of[p]] \notin {"new", "accepted"} /\ of[p] \in peers
      BY <2>3, <2>4, Zenon DEF SessionInv, OriginsStarted
    <3>1. assoc[of[p]] \in {"open", "closing"} /\ of[p] \in peers
      BY <2>4, <3>0 DEF Live
    <3>2. UDP_SESSIONS[id[of[p]]] = {of[p]}
      BY <2>3, <2>4, <3>1 DEF SessionInv, SessionIsOwn
    <3>. QED BY <3>1, <3>2
  <2>5. \A q \in Packets : answer'[q] = "panicked" =>
          answer[q] = "panicked" \/ (q = p /\ ~(UDP_SESSIONS[id[of[p]]] \subseteq peers))
    BY <1>0, <1>7 DEF HandlePacket, TypeOK
  <2>6. AnswersHavePeer'
    BY <2>1, <2>4, <2>5 DEF assocVars, SessionInv, AnswersHavePeer, Live
  <2>. QED BY <2>2, <2>6 DEF SessionInv
<1>8. ASSUME NEW r \in Callers, \/ Acquire(r)
                                \/ \E k \in ConnIds : Connect(r, k)
                                \/ Cancel(r)
                                \/ SendPacket(r) \/ Dissociate(r) \/ WriteDissociate(r)
      PROVE  SessionInv'
  <2>1. UNCHANGED <<assocVars, peers, of, answer>>
    BY <1>8 DEF Acquire, Connect, Cancel, SendPacket, Dissociate, WriteDissociate
  <2>. QED BY <2>1, SessionInvFrame
<1>8a. ASSUME NEW p \in Packets, AcceptAnswer(p) PROVE SessionInv'
  <2>1. UNCHANGED <<assocVars, peers, of>>
    BY <1>8a DEF AcceptAnswer
  <2>2. \A q \in Packets : answer'[q] = "panicked" => answer[q] = "panicked"
    BY <1>0, <1>8a DEF AcceptAnswer, TypeOK
  <2>. QED BY <2>1, <2>2, SessionInvFrame
<1>9. ASSUME NEW k \in ConnIds, CloseConn(k) PROVE SessionInv'
  <2>1. UNCHANGED <<assocVars, peers, of, answer>>
    BY <1>9 DEF CloseConn
  <2>. QED BY <2>1, SessionInvFrame
<1>10. CASE UNCHANGED vars
  <2>1. UNCHANGED <<assocVars, peers, of, answer>>
    BY <1>10 DEF vars
  <2>. QED BY <2>1, SessionInvFrame
<1>. QED BY <1>1, <1>2, <1>3, <1>4, <1>5, <1>6, <1>7, <1>8, <1>8a, <1>9, <1>10 DEF Next, Callers

\* The table of associations is right in every state, however IDs wrap.
THEOREM SessionsInductive == Spec => []SessionInv
  BY InitSessionInv, NextSessionInv, Inductive, PTL DEF Spec

\* An association whose ID no other live one had has the ID's entry while it
\* relays, and its unwrap at the end does not panic.
THEOREM OwnSession == Spec => []SessionIsOwn
<1>1. SessionInv => SessionIsOwn
  BY DEF SessionInv
<1>. QED BY <1>1, SessionsInductive, PTL

\* UDP_SESSIONS keeps no association that has ended.
THEOREM TableHasLiveOnly == Spec => []NoDeadSession
<1>1. SessionInv => NoDeadSession
  BY DEF SessionInv
<1>. QED BY <1>1, SessionsInductive, PTL

\* The answer to an association that lives, and shares its ID with no other live
\* one, does not panic at its socket's peer.
THEOREM AnswersFindPeer == Spec => []AnswersHavePeer
<1>1. SessionInv => AnswersHavePeer
  BY DEF SessionInv
<1>. QED BY <1>1, SessionsInductive, PTL

-----------------------------------------------------------------------------
(* The sessions of the connection's model *)

\* The association that keeps an ID's sessions from being late.
Keeper(a, i) == id[a] = i /\ assoc[a] \in {"open", "closing", "gone"} /\ ~Over(a)

\* A step that adds no session leaves those of late IDs and of keepers that stay.
LEMMA ActiveFrame ==
  ASSUME TypeOK, ActiveInv, sessions' \subseteq sessions, late \subseteq late',
         \A s \in sessions' : \A a \in Assocs : Keeper(a, s[2]) => s[2] \in late' \/ Keeper(a, s[2])'
  PROVE  SessionsAreActive'
<1>. SUFFICES ASSUME NEW s \in sessions', s[2] \notin late' PROVE \E a \in Assocs : Keeper(a, s[2])'
  BY DEF SessionsAreActive, Keeper
<1>1. PICK a \in Assocs : Keeper(a, s[2])
  BY DEF ActiveInv, SessionsAreActive, Keeper
<1>. QED BY <1>1

\* History: LateIn notes the ID of an association that has sessions at its end.
LEMMA LateInNotes ==
  ASSUME NEW a \in Assocs, NEW ss
  PROVE  /\ late \subseteq LateIn(ss, a)
         /\ \A s \in ss : s[2] = id[a] => s[2] \in LateIn(ss, a)
  BY DEF LateIn

\* A packet that is sent, or an answer that is handled, makes a session for its
\* association, or for nobody if that has ended.
LEMMA SessionIsMade ==
  ASSUME IndInv, ActiveInv, NEW p \in Packets, of[p] \in Assocs, got[p] \in ConnIds,
         UNCHANGED <<assocVars, conn, of>>,
         \A a \in Assocs : caller'[a] = caller[a],
         sessions' = WithSession(p),
         late' = IF Over(of[p]) THEN LateIn(sessions', of[p]) ELSE late
  PROVE  ActiveInv'
<1>a. PICK a \in Assocs : a = of[p]
  OBVIOUS
<1>0. TypeOK
  BY DEF IndInv
<1>1. sessions' \subseteq sessions \cup {<<got[p], id[a]>>}
  BY <1>a DEF WithSession
<1>2. SessionsOnOpen'
  BY DEF WithSession, ActiveInv, SessionsOnOpen
<1>3. OriginsRelay'
  BY DEF assocVars, ActiveInv, OriginsRelay
<1>4. \A b \in Assocs : \A i : Keeper(b, i)' <=> Keeper(b, i)
  BY DEF assocVars, Keeper, Over
<1>5. late \subseteq late'
  BY <1>a, LateInNotes
<1>6. ASSUME NEW s \in sessions', s[2] \notin late' PROVE \E b \in Assocs : Keeper(b, s[2])'
  <2>1. CASE s \in sessions
    BY <1>4, <1>5, <1>6, <2>1 DEF ActiveInv, SessionsAreActive, Keeper
  <2>2. CASE s = <<got[p], id[a]>>
    <3>1. s[2] = id[a]
      BY <2>2
    <3>2. ~Over(a)
      BY <1>a, <1>6, <3>1, LateInNotes
    <3>3. assoc[a] \in {"open", "closing", "gone"}
      BY <1>a, <3>2 DEF ActiveInv, OriginsRelay, Over
    <3>. QED BY <1>4, <3>1, <3>2, <3>3 DEF Keeper
  <2>. QED BY <1>1, <2>1, <2>2
<1>7. SessionsAreActive'
  BY <1>6 DEF SessionsAreActive, Keeper
<1>. QED BY <1>2, <1>3, <1>7 DEF ActiveInv

LEMMA NextActive == IndInv /\ ActiveInv /\ [Next]_vars => ActiveInv'
<1>. SUFFICES ASSUME IndInv, ActiveInv, [Next]_vars PROVE ActiveInv'
  OBVIOUS
<1>0. TypeOK /\ Assocs \subseteq Callers /\ Packets \subseteq Callers /\ Assocs \cap Packets = {}
  BY CallersAssumption DEF IndInv, Callers
<1>1. ASSUME NEW a \in Assocs, Accept(a) \/ Refuse(a) \/ Insert(a) \/ StopAssociating(a) PROVE ActiveInv'
  <2>1. UNCHANGED <<conn, caller, sessions, late, of>>
    BY <1>1 DEF Accept, Refuse, Insert, StopAssociating
  <2>2. /\ assoc[a] \in {"new", "accepted"} \/ assoc'[a] = "closing"
        /\ assoc[a] = "open" => id'[a] = id[a]
        /\ \A b \in Assocs \ {a} : assoc'[b] = assoc[b] /\ id'[b] = id[b]
    BY <1>0, <1>1 DEF Accept, Refuse, Insert, StopAssociating, TypeOK
  <2>2a. assoc[a] \in {"new", "accepted", "open"}
    BY <1>1 DEF Accept, Refuse, Insert, StopAssociating
  <2>3. \A b \in Assocs : \A i : Keeper(b, i) => Keeper(b, i)'
    BY <2>1, <2>2, <2>2a DEF Keeper, Over
  <2>4. SessionsAreActive'
    BY <1>0, <2>1, <2>3, ActiveFrame
  <2>5. OriginsRelay'
    BY <2>1, <2>2, <2>2a DEF ActiveInv, OriginsRelay
  <2>. QED BY <2>1, <2>4, <2>5 DEF ActiveInv, SessionsOnOpen
<1>2. ASSUME NEW a \in Assocs, NEW p \in Packets, Forward(a, p) PROVE ActiveInv'
  <2>1. UNCHANGED <<assoc, id, conn, sessions, late>> /\ \A b \in Assocs : caller'[b] = caller[b]
    BY <1>0, <1>2 DEF Forward, assocVars, TypeOK
  <2>2. \A b \in Assocs : \A i : Keeper(b, i) => Keeper(b, i)'
    BY <2>1 DEF Keeper, Over
  <2>3. SessionsAreActive'
    BY <1>0, <2>1, <2>2, ActiveFrame
  <2>4. OriginsRelay'
    BY <1>0, <1>2, <2>1 DEF Forward, ActiveInv, OriginsRelay, TypeOK
  <2>. QED BY <2>1, <2>3, <2>4 DEF ActiveInv, SessionsOnOpen
<1>3. ASSUME NEW a \in Assocs, RemoveSession(a) PROVE ActiveInv'
  <2>1. UNCHANGED <<id, conn, sessions, of>> /\ assoc[a] = "closing"
    BY <1>3 DEF RemoveSession
  <2>2. \A b \in Assocs \ {a} : assoc'[b] = assoc[b] /\ caller'[b] = caller[b]
    BY <1>0, <1>3 DEF RemoveSession, TypeOK
  <2>3. \/ assoc'[a] = "gone" /\ caller'[a] = "waiting" /\ late' = late
        \/ assoc'[a] = "panicked" /\ late' = LateIn(sessions, a)
    BY <1>0, <1>3 DEF RemoveSession, TypeOK
  <2>4. late \subseteq late'
    BY <2>3, LateInNotes
  <2>5. ASSUME NEW s \in sessions, NEW b \in Assocs, Keeper(b, s[2])
        PROVE  s[2] \in late' \/ Keeper(b, s[2])'
    <3>1. CASE b # a
      BY <2>1, <2>2, <2>5, <3>1 DEF Keeper, Over
    <3>2. CASE b = a
      BY <2>1, <2>3, <2>5, <3>2, LateInNotes DEF Keeper, Over
    <3>. QED BY <3>1, <3>2
  <2>6. SessionsAreActive'
    BY <1>0, <2>1, <2>4, <2>5, ActiveFrame
  <2>7. OriginsRelay'
    BY <2>1, <2>2, <2>3 DEF ActiveInv, OriginsRelay
  <2>. QED BY <2>1, <2>6, <2>7 DEF ActiveInv, SessionsOnOpen
<1>4. ASSUME NEW r \in Callers, Acquire(r) \/ \E k \in ConnIds : Connect(r, k) PROVE ActiveInv'
  <2>1. UNCHANGED <<assoc, id, sessions, late, of>>
    BY <1>4 DEF Acquire, Connect, assocVars
  <2>2. \A b \in Assocs : caller'[b] \in {"dissociating", "done"} => caller'[b] = caller[b]
    BY <1>0, <1>4 DEF Acquire, Connect, TypeOK
  <2>3. \A j \in ConnIds : conn[j] = "open" => conn'[j] = "open"
    BY <1>0, <1>4 DEF Acquire, Connect, TypeOK
  <2>4. \A b \in Assocs : \A i : Keeper(b, i) => Keeper(b, i)'
    BY <2>1, <2>2 DEF Keeper, Over
  <2>5. SessionsAreActive'
    BY <1>0, <2>1, <2>4, ActiveFrame
  <2>6. SessionsOnOpen'
    BY <1>0, <2>1, <2>3 DEF ActiveInv, SessionsOnOpen, TypeOK
  <2>. QED BY <2>1, <2>5, <2>6 DEF ActiveInv, OriginsRelay
<1>5. ASSUME NEW r \in Callers, Cancel(r) PROVE ActiveInv'
  <2>1. UNCHANGED <<assoc, id, conn, sessions, of>> /\ \A b \in Assocs \ {r} : caller'[b] = caller[b]
    BY <1>0, <1>5 DEF Cancel, assocVars, TypeOK
  <2>2. late' = IF r \in Assocs THEN LateIn(sessions, r) ELSE late
    BY <1>5 DEF Cancel
  <2>3. late \subseteq late'
    BY <2>2, LateInNotes
  <2>4. ASSUME NEW s \in sessions, NEW b \in Assocs, Keeper(b, s[2])
        PROVE  s[2] \in late' \/ Keeper(b, s[2])'
    <3>1. CASE b # r
      BY <2>1, <2>4, <3>1 DEF Keeper, Over
    <3>2. CASE b = r
      BY <2>2, <2>4, <3>2, LateInNotes DEF Keeper
    <3>. QED BY <3>1, <3>2
  <2>5. SessionsAreActive'
    BY <1>0, <2>1, <2>3, <2>4, ActiveFrame
  <2>. QED BY <2>1, <2>5 DEF ActiveInv, SessionsOnOpen, OriginsRelay
<1>6. ASSUME UNCHANGED <<assoc, id, of, late>>, NEW k \in ConnIds, Closed(k),
             \A b \in Assocs : caller'[b] = caller[b]
      PROVE  ActiveInv'
  <2>1. \A b \in Assocs : \A i : Keeper(b, i) => Keeper(b, i)'
    BY <1>6 DEF Keeper, Over
  <2>2. SessionsAreActive'
    BY <1>0, <1>6, <2>1, ActiveFrame DEF Closed
  <2>3. SessionsOnOpen'
    BY <1>0, <1>6 DEF Closed, ActiveInv, SessionsOnOpen, TypeOK
  <2>. QED BY <1>6, <2>2, <2>3 DEF ActiveInv, OriginsRelay
<1>7. ASSUME NEW p \in Packets, SendPacket(p) PROVE ActiveInv'
  <2>1. of[p] \in Assocs /\ got[p] \in ConnIds
    BY <1>7 DEF SendPacket, IndInv, PacketsHaveOrigin
  <2>2. UNCHANGED <<assocVars, of>> /\ \A b \in Assocs : caller'[b] = caller[b]
    BY <1>0, <1>7 DEF SendPacket, TypeOK
  <2>3. \/ /\ sessions' = WithSession(p)
           /\ late' = IF Over(of[p]) THEN LateIn(sessions', of[p]) ELSE late
           /\ UNCHANGED conn
        \/ Closed(got[p]) /\ UNCHANGED late
    BY <1>7 DEF SendPacket
  <2>4. UNCHANGED <<assoc, id>>
    BY <2>2 DEF assocVars
  <2>. QED BY <1>6, <2>1, <2>2, <2>3, <2>4, SessionIsMade
<1>8. ASSUME NEW p \in Packets, HandlePacket(p) PROVE ActiveInv'
  <2>1. of[p] \in Assocs /\ got[p] \in ConnIds
    BY <1>8 DEF HandlePacket, IndInv, PacketsHaveOrigin
  <2>. QED BY <1>8, <2>1, SessionIsMade DEF HandlePacket
<1>9. ASSUME NEW a \in Assocs, Dissociate(a) PROVE ActiveInv'
  <2>1. UNCHANGED <<assoc, id, conn, of>> /\ \A b \in Assocs \ {a} : caller'[b] = caller[b]
    BY <1>0, <1>9 DEF Dissociate, assocVars, TypeOK
  <2>2. /\ sessions' = sessions \ {<<got[a], id[a]>>}
        /\ late' = IF got[a] = CONNECTION THEN late ELSE LateIn(sessions, a)
    BY <1>9 DEF Dissociate
  <2>3. late \subseteq late'
    BY <2>2, LateInNotes
  <2>4. ASSUME NEW s \in sessions', NEW b \in Assocs, Keeper(b, s[2])
        PROVE  s[2] \in late' \/ Keeper(b, s[2])'
    <3>1. CASE b # a
      BY <2>1, <2>4, <3>1 DEF Keeper, Over
    <3>2. CASE b = a
      <4>1. s \in sessions /\ s[2] = id[a] /\ s # <<got[a], id[a]>>
        BY <2>2, <2>4, <3>2 DEF Keeper
      <4>2. s = <<s[1], s[2]>> /\ s[1] \in ConnIds
        BY <1>0, <4>1 DEF TypeOK
      <4>3. s[1] = CONNECTION
        BY <4>1, <4>2 DEF ActiveInv, SessionsOnOpen, IndInv, OneConnection
      <4>4. got[a] # CONNECTION
        BY <4>1, <4>2, <4>3
      <4>. QED BY <2>2, <4>1, <4>4, LateInNotes
    <3>. QED BY <3>1, <3>2
  <2>5. SessionsAreActive'
    BY <1>0, <2>2, <2>3, <2>4, ActiveFrame
  <2>. QED BY <2>1, <2>2, <2>5 DEF ActiveInv, SessionsOnOpen, OriginsRelay
<1>9a. ASSUME NEW a \in Assocs, WriteDissociate(a) PROVE ActiveInv'
  <2>1. UNCHANGED <<assoc, id, conn, of, sessions, late>>
    BY <1>9a DEF WriteDissociate, assocVars
  <2>2. \A b \in Assocs : caller'[b] = caller[b] \/ (b = a /\ caller[b] = "dissociating")
    BY <1>0, <1>9a DEF WriteDissociate, TypeOK
  <2>3. SessionsAreActive'
    BY <1>0, <2>1, <2>2, ActiveFrame DEF Keeper, Over
  <2>. QED BY <2>1, <2>3 DEF ActiveInv, SessionsOnOpen, OriginsRelay
<1>10. ASSUME NEW k \in ConnIds, CloseConn(k) PROVE ActiveInv'
  BY <1>6, <1>10 DEF CloseConn, assocVars
<1>11. ASSUME (\E p \in Packets : AcceptAnswer(p)) \/ UNCHANGED vars PROVE ActiveInv'
  <2>1. UNCHANGED <<assoc, id, conn, sessions, late, of, caller>>
    BY <1>11 DEF AcceptAnswer, vars, assocVars
  <2>. QED BY <2>1 DEF ActiveInv, SessionsOnOpen, OriginsRelay, SessionsAreActive, Over
<1>. QED BY <1>1, <1>2, <1>3, <1>4, <1>5, <1>7, <1>8, <1>9, <1>9a, <1>10, <1>11 DEF Next

\* The sessions that keep a connection's heartbeats going belong to associations that
\* have not ended, but for the IDs noted in late: Dissociate finds all the others.
THEOREM SessionsAreOfActive == Spec => []SessionsAreActive
<1>1. Init => ActiveInv
  <2>. SUFFICES ASSUME Init PROVE ActiveInv
    OBVIOUS
  <2>1. \A p \in Packets : of[p] \notin Assocs
    BY CallersAssumption DEF Init
  <2>. QED BY <2>1 DEF Init, ActiveInv, SessionsOnOpen, OriginsRelay, SessionsAreActive
<1>2. ActiveInv => SessionsAreActive
  BY DEF ActiveInv
<1>. QED BY <1>1, <1>2, NextActive, Inductive, PTL DEF Spec
-----------------------------------------------------------------------------
(* Heartbeats: types, the loop and what acknowledgements show *)

\* The bounds as the arithmetic of the proofs needs them.
LEMMA Ticks ==
  /\ HeartbeatTicks \in Nat /\ HeartbeatTicks >= 1
  /\ MaxIdle \in Nat /\ MaxDelay \in Nat /\ MaxLost \in Nat
  /\ MaxDelay < HeartbeatTicks
  /\ BeatBound \in Nat /\ BeatBound < MaxIdle
<1>1. (MaxLost + 1) * HeartbeatTicks \in Nat
  BY TicksAssumption
<1>. QED BY <1>1, TicksAssumption DEF BeatBound

\* What lost packets explain: a heartbeat for each, and one more.
LEMMA SpentIsBounded ==
  ASSUME lost \in 0 .. MaxLost
  PROVE  Spent \in Nat /\ Spent >= HeartbeatTicks /\ Spent + 2 * MaxDelay <= BeatBound
<1>. DEFINE m == MaxLost - lost
<1>1. m \in Nat /\ lost \in Nat /\ (lost + 1) + m = MaxLost + 1
  BY TicksAssumption
<1>2. /\ (MaxLost + 1) * HeartbeatTicks = (lost + 1) * HeartbeatTicks + m * HeartbeatTicks
      /\ (lost + 1) * HeartbeatTicks = lost * HeartbeatTicks + HeartbeatTicks
      /\ m * HeartbeatTicks \in Nat /\ lost * HeartbeatTicks \in Nat
  BY <1>1, TicksAssumption
<1>. QED BY <1>1, <1>2, TicksAssumption DEF Spent, BeatBound

LEMMA SpentSteps ==
  ASSUME lost \in 0 .. MaxLost
  PROVE  /\ lost' = lost + 1 => Spent' = Spent + HeartbeatTicks
         /\ lost' = lost => Spent' = Spent
         /\ lost' = 0 => Spent' = HeartbeatTicks
<1>1. lost \in Nat /\ HeartbeatTicks \in Nat
  BY TicksAssumption
<1>. QED BY <1>1 DEF Spent

LEMMA InitHeartbeat == HeartbeatInit => HeartbeatInv
  BY Ticks DEF HeartbeatInit, HeartbeatInv, HeartbeatTypeOK, LoopRuns, AckIsFresh, Ends

\* The type invariant, step by step.
LEMMA SendTypes ==
  ASSUME HeartbeatTypeOK, NEW e \in Ends, Send(e)
  PROVE  /\ idle' \in [Ends -> 0 .. MaxIdle]
         /\ quiet' \in [Ends -> BOOLEAN]
         /\ net' \subseteq [to: Ends, asks: BOOLEAN, age: 0 .. MaxDelay]
         /\ net \subseteq net'
         /\ \A d \in Ends : idle'[d] <= idle[d]
<1>1. Other(e) \in Ends
  BY DEF Other, Ends
<1>2. [to |-> Other(e), asks |-> TRUE, age |-> 0] \in [to: Ends, asks: BOOLEAN, age: 0 .. MaxDelay]
  BY <1>1, Ticks
<1>3. \A d \in Ends : idle[d] \in Nat /\ idle[d] <= MaxIdle
  BY Ticks DEF HeartbeatTypeOK
<1>4. idle' = [idle EXCEPT ![e] = IF quiet[e] THEN 0 ELSE idle[e]]
  BY DEF Send
<1>5. idle' \in [Ends -> 0 .. MaxIdle] /\ \A d \in Ends : idle'[d] <= idle[d]
  BY <1>3, <1>4, Ticks DEF HeartbeatTypeOK
<1>6. quiet' \in [Ends -> BOOLEAN]
  BY DEF Send, HeartbeatTypeOK
<1>. QED BY <1>2, <1>5, <1>6 DEF Send, HeartbeatTypeOK

LEMMA NextHeartbeatTypes == HeartbeatTypeOK /\ [HeartbeatNext]_heartbeatVars => HeartbeatTypeOK'
<1>. SUFFICES ASSUME HeartbeatTypeOK, [HeartbeatNext]_heartbeatVars PROVE HeartbeatTypeOK'
  OBVIOUS
<1>0. "client" \in Ends
  BY DEF Ends
<1>1. ASSUME NEW t \in Connects \cup Associations, StartTask(t) \/ EndTask(t) PROVE HeartbeatTypeOK'
  BY <1>0, <1>1, Ticks DEF StartTask, EndTask, HeartbeatTypeOK
<1>2. ASSUME NEW e \in Ends, Relay(e) \/ StopSending(e) \/ IdleTimeout(e) PROVE HeartbeatTypeOK'
  BY <1>2, SendTypes DEF Relay, StopSending, IdleTimeout, HeartbeatTypeOK
<1>3. ASSUME NEW p \in net, Arrive(p) PROVE HeartbeatTypeOK'
  <2>1. p.to \in Ends /\ Other(p.to) \in Ends
    BY DEF HeartbeatTypeOK, Other, Ends
  <2>2. [to |-> Other(p.to), asks |-> FALSE, age |-> 0] \in [to: Ends, asks: BOOLEAN, age: 0 .. MaxDelay]
    BY <2>1, Ticks
  <2>3. net' \subseteq [to: Ends, asks: BOOLEAN, age: 0 .. MaxDelay]
    BY <1>3, <2>2 DEF Arrive, HeartbeatTypeOK
  <2>4. sending' \subseteq Ends
    BY <1>3 DEF Arrive, HeartbeatTypeOK, Ends
  <2>. QED BY <1>3, <2>1, <2>3, <2>4, Ticks DEF Arrive, HeartbeatTypeOK
<1>4. ASSUME NEW p \in net, Lose(p) PROVE HeartbeatTypeOK'
  BY <1>4, Ticks DEF Lose, HeartbeatTypeOK
<1>5. CASE Beat
  <2>1. beat' \in 0 .. HeartbeatTicks
    BY <1>5, Ticks DEF Beat, HeartbeatTypeOK
  <2>. QED BY <1>0, <1>5, <2>1, SendTypes DEF Beat, HeartbeatTypeOK
<1>6. CASE Tick
  <2>1. ASSUME NEW p \in net PROVE Older(p) \in [to: Ends, asks: BOOLEAN, age: 0 .. MaxDelay]
    <3>1. p.age \in 0 .. MaxDelay /\ p.age < MaxDelay
      BY <1>6 DEF Tick, HeartbeatTypeOK
    <3>. QED BY <3>1, Ticks DEF HeartbeatTypeOK, Older
  <2>2. idle' \in [Ends -> 0 .. MaxIdle]
    BY <1>6, Ticks DEF Tick, HeartbeatTypeOK
  <2>3. beat' \in 0 .. HeartbeatTicks /\ busy' \in 0 .. BeatBound + 1
    BY <1>6, Ticks DEF Tick, HeartbeatTypeOK
  <2>4. net' \subseteq [to: Ends, asks: BOOLEAN, age: 0 .. MaxDelay]
    BY <1>6, <2>1 DEF Tick
  <2>. QED BY <1>6, <2>2, <2>3, <2>4 DEF Tick, HeartbeatTypeOK
<1>7. CASE UNCHANGED heartbeatVars
  BY <1>7 DEF heartbeatVars, HeartbeatTypeOK
<1>. QED BY <1>1, <1>2, <1>3, <1>4, <1>5, <1>6, <1>7 DEF HeartbeatNext

\* The simple parts of the invariant.
LEMMA NextLoop == HeartbeatTypeOK /\ LoopRuns /\ [HeartbeatNext]_heartbeatVars => LoopRuns'
  BY DEF HeartbeatTypeOK, LoopRuns, HeartbeatNext, heartbeatVars, StartTask, EndTask, Relay, StopSending, IdleTimeout,
         Arrive, Lose, Beat, Tick

LEMMA NextAck ==
  HeartbeatTypeOK /\ AckIsFresh /\ [HeartbeatNext]_heartbeatVars => AckIsFresh'
<1>. SUFFICES ASSUME HeartbeatTypeOK, AckIsFresh, [HeartbeatNext]_heartbeatVars PROVE AckIsFresh'
  OBVIOUS
<1>0. "client" \in Ends /\ "server" \in Ends
  BY DEF Ends
<1>1. ASSUME NEW e \in Ends, Send(e) PROVE AckIsFresh'
  <2>1. idle'["server"] <= idle["server"]
    BY <1>0, <1>1, SendTypes
  <2>2. idle["server"] \in Nat /\ idle'["server"] \in Nat
    BY <1>0, <1>1, SendTypes, Ticks DEF HeartbeatTypeOK
  <2>3. \A p \in net' : p.to = "client" /\ ~p.asks => p \in net
    BY <1>1 DEF Send
  <2>4. \A p \in net : p.age \in Nat
    BY Ticks DEF HeartbeatTypeOK
  <2>. QED BY <2>1, <2>2, <2>3, <2>4 DEF AckIsFresh
<1>2. CASE UNCHANGED <<idle, net>>
  BY <1>2 DEF AckIsFresh
<1>3. ASSUME NEW p \in net, Arrive(p) PROVE AckIsFresh'
  <2>1. \A q \in net' : q \in net \/ (q = [to |-> Other(p.to), asks |-> FALSE, age |-> 0])
    BY <1>3 DEF Arrive
  <2>2. CASE p.to = "server"
    <3>1. idle'["server"] = 0
      BY <1>0, <1>3, <2>2 DEF Arrive, HeartbeatTypeOK
    <3>2. \A q \in net : 0 <= q.age
      BY Ticks DEF HeartbeatTypeOK
    <3>. QED BY <2>1, <3>1, <3>2 DEF AckIsFresh
  <2>3. CASE p.to = "client"
    <3>1. idle'["server"] = idle["server"]
      BY <1>0, <1>3, <2>3 DEF Arrive, HeartbeatTypeOK
    <3>. QED BY <2>1, <2>3, <3>1 DEF AckIsFresh, Other
  <2>. QED BY <2>2, <2>3 DEF HeartbeatTypeOK, Ends
<1>4. ASSUME NEW p \in net, Lose(p) PROVE AckIsFresh'
  BY <1>4 DEF Lose, AckIsFresh
<1>5. CASE Tick
  <2>1. idle'["server"] <= idle["server"] + 1 /\ idle["server"] \in Nat /\ idle'["server"] \in Nat
    BY <1>0, <1>5, Ticks DEF Tick, HeartbeatTypeOK
  <2>2. ASSUME NEW p \in net', p.to = "client", ~p.asks PROVE idle'["server"] <= p.age
    <3>1. PICK q \in net : p = Older(q)
      BY <1>5 DEF Tick
    <3>2. q \in [to: Ends, asks: BOOLEAN, age: 0 .. MaxDelay]
      BY DEF HeartbeatTypeOK
    <3>3. p.to = q.to /\ p.asks = q.asks /\ p.age = q.age + 1 /\ q.age \in Nat
      BY <3>1, <3>2, Ticks DEF Older
    <3>. QED BY <2>1, <2>2, <3>3 DEF AckIsFresh
  <2>. QED BY <2>2 DEF AckIsFresh
<1>. QED BY <1>0, <1>1, <1>2, <1>3, <1>4, <1>5 DEF HeartbeatNext, heartbeatVars, StartTask, EndTask, Relay,
            StopSending, IdleTimeout, Beat
-----------------------------------------------------------------------------
(* Silence *)

LEMMA Numbers ==
  ASSUME HeartbeatTypeOK
  PROVE  /\ beat \in Nat /\ beat <= HeartbeatTicks
         /\ \A p \in net : p.age \in Nat /\ p.age <= MaxDelay
         /\ \A e \in Ends : idle[e] \in Nat /\ Silence(e) \in Nat
         /\ busy \in Nat /\ lost \in 0 .. MaxLost
  BY Ticks DEF HeartbeatTypeOK, Silence

\* A step after which no more silence has to be explained, and nothing is lost.
LEMMA MoreUnderWay ==
  ASSUME HeartbeatTypeOK, ServerHears, ClientHears,
         net \subseteq net', beat' = beat, Spent' = Spent,
         \A e \in Ends : Silence(e)' \in Nat /\ Silence(e)' <= Silence(e)
  PROVE  ServerHears' /\ ClientHears'
<1>1. Spent \in Nat
  BY Numbers, SpentIsBounded
<1>2. ServerHears'
  <2>. DEFINE n == Silence("server")
  <2>1. n \in Nat /\ n' \in Nat /\ n' <= n
    BY Numbers DEF Ends
  <2>2. CASE BeatDue(n, Spent + MaxDelay)
    BY <1>1, <2>1, <2>2, Numbers, Ticks DEF ServerHears, BeatDue
  <2>3. CASE BeatSent(n, Spent + MaxDelay)
    <3>1. PICK p \in net : IsBeat(p) /\ n <= Spent + MaxDelay + p.age
      BY <2>3 DEF BeatSent
    <3>2. IsBeat(p)' /\ n' <= Spent + MaxDelay + p.age
      BY <1>1, <2>1, <3>1, Numbers, Ticks DEF IsBeat
    <3>. QED BY <3>1, <3>2 DEF ServerHears, BeatSent
  <2>. QED BY <2>2, <2>3 DEF ServerHears
<1>3. ClientHears'
  <2>. DEFINE n == Silence("client")  w == Spent + HeartbeatTicks
  <2>1. n \in Nat /\ n' \in Nat /\ n' <= n /\ w \in Nat /\ w' = w
    BY <1>1, Numbers, Ticks DEF Ends
  <2>2. ASSUME NEW v \in Nat, BeatDue(n, v) PROVE n' + beat' <= v
    BY <2>1, <2>2, Numbers DEF BeatDue
  <2>3. ASSUME NEW v \in Nat, BeatSent(n, v) PROVE \E p \in net' : IsBeat(p)' /\ n' <= v + p.age
    <3>1. PICK p \in net : IsBeat(p) /\ n <= v + p.age
      BY <2>3 DEF BeatSent
    <3>. QED BY <2>1, <3>1, Numbers DEF IsBeat
  <2>4. ASSUME NEW p \in net, NEW v \in Nat, NEW k \in {1, 2}, Answer(p, n, v, k)
        PROVE  p \in net' /\ IsAck(p) /\ n' <= v + MaxDelay + p.age
               /\ k * HeartbeatTicks <= p.age + MaxDelay + beat'
    BY <2>1, <2>4, Numbers, Ticks DEF Answer
  <2>. HIDE DEF n, w
  <2>5. CASE BeatDue(n, Spent)
    BY <1>1, <2>2, <2>5 DEF ClientHears, BeatDue, n
  <2>6. CASE BeatSent(n, Spent)
    BY <1>1, <2>3, <2>6 DEF ClientHears, BeatSent, n
  <2>7. CASE \E p \in net : Answer(p, n, Spent, 1) /\ BeatDue(n, w)
    <3>1. PICK p \in net : Answer(p, n, Spent, 1) /\ BeatDue(n, w)
      BY <2>7
    <3>2. Answer(p, n, Spent, 1)' /\ p \in net' /\ BeatDue(n, w)'
      BY <1>1, <2>1, <2>2, <2>4, <3>1 DEF Answer, BeatDue, IsAck
    <3>. QED BY <3>2 DEF ClientHears, n, w
  <2>8. CASE \E p \in net : Answer(p, n, Spent, 2) /\ BeatSent(n, w)
    <3>1. PICK p \in net : Answer(p, n, Spent, 2) /\ BeatSent(n, w)
      BY <2>8
    <3>2. Answer(p, n, Spent, 2)' /\ p \in net' /\ BeatSent(n, w)'
      BY <1>1, <2>1, <2>3, <2>4, <3>1 DEF Answer, BeatSent, IsAck
    <3>. QED BY <3>2 DEF ClientHears, n, w
  <2>9. CASE \E p, q \in net : /\ p # q
                              /\ Answer(p, n, Spent, 2)
                              /\ Answer(q, n, w, 1)
                              /\ BeatDue(n, w + HeartbeatTicks)
    <3>1. PICK p \in net, q \in net : /\ p # q
                                      /\ Answer(p, n, Spent, 2)
                                      /\ Answer(q, n, w, 1)
                                      /\ BeatDue(n, w + HeartbeatTicks)
      BY <2>9
    <3>2. Answer(p, n, Spent, 2)' /\ p \in net' /\ Answer(q, n, w, 1)' /\ q \in net'
      BY <1>1, <2>1, <2>4, <3>1 DEF Answer, IsAck
    <3>3. BeatDue(n, w + HeartbeatTicks)'
      BY <2>1, <2>2, <3>1, Ticks DEF BeatDue
    <3>. QED BY <3>1, <3>2, <3>3 DEF ClientHears, n, w
  <2>. QED BY <2>5, <2>6, <2>7, <2>8, <2>9 DEF ClientHears, n, w
<1>. QED BY <1>2, <1>3

\* Without tasks the counters are zero, and only then.
LEMMA TasksAreCounted == HeartbeatTypeOK => (Ongoing <=> tasks # {})
<1>. SUFFICES ASSUME HeartbeatTypeOK PROVE Ongoing <=> tasks # {}
  OBVIOUS
<1>. DEFINE C == tasks \cap Connects  A == tasks \cap Associations
<1>1. tasks = C \cup A
  BY DEF HeartbeatTypeOK
<1>2. IsFiniteSet(C) /\ IsFiniteSet(A)
  <2>1. C \subseteq Connects \cup Associations /\ A \subseteq Connects \cup Associations
    OBVIOUS
  <2>. QED BY <2>1, TaskAssumption, FS_Subset
<1>3. Cardinality(C) \in Nat /\ Cardinality(A) \in Nat
  BY <1>2, FS_CardinalityType
<1>4. (Cardinality(C) = 0 <=> C = {}) /\ (Cardinality(A) = 0 <=> A = {})
  BY <1>2, FS_EmptySet
<1>. QED BY <1>1, <1>3, <1>4 DEF Ongoing, TaskConnectCount, TaskAssociateCount

\* A packet of the client that may count as a heartbeat.
NewBeat == [to |-> "server", asks |-> TRUE, age |-> 0]

LEMMA NewBeatCounts ==
  ASSUME NewBeat \in net', beat' = HeartbeatTicks, NEW n \in Nat, NEW w \in Nat, n <= w
  PROVE  IsBeat(NewBeat)' /\ n <= w + NewBeat.age /\ \E p \in net' : IsBeat(p)' /\ n <= w + p.age
<1>1. IsBeat(NewBeat)' /\ n <= w + NewBeat.age
  BY Ticks DEF NewBeat, IsBeat
<1>. QED BY <1>1

\* The first task: the next heartbeat is due in time, whatever the last one skipped.
LEMMA StartIsHeard ==
  ASSUME HeartbeatTypeOK, LoopRuns, HeartbeatTypeOK', tasks = {},
         NEW t \in Connects \cup Associations, StartTask(t)
  PROVE  ServerHears' /\ ClientHears'
<1>1. beat' = beat /\ lost' = lost /\ busy' = 0
  BY DEF StartTask, LoopRuns
<1>2. Spent' = Spent /\ Spent \in Nat /\ Spent >= HeartbeatTicks
  BY <1>1, Numbers, SpentSteps, SpentIsBounded
<1>3. \A e \in Ends : Silence(e)' = 0
  BY <1>1, Ticks DEF Silence, HeartbeatTypeOK
<1>4. "client" \in Ends /\ "server" \in Ends
  BY DEF Ends
<1>. QED BY <1>1, <1>2, <1>3, <1>4, Numbers, Ticks DEF ServerHears, ClientHears, BeatDue

\* A heartbeat is sent: the one before has arrived or is lost.
LEMMA BeatIsHeard ==
  ASSUME HeartbeatTypeOK, HeartbeatTypeOK', ServerHears, ClientHears, tasks # {}, "client" \in alive, Beat
  PROVE  ServerHears' /\ ClientHears'
<1>0. Send("client")
  BY TasksAreCounted DEF Beat
<1>1. /\ NewBeat \in net' /\ beat = 0 /\ beat' = HeartbeatTicks /\ lost' = lost /\ busy' = busy
      /\ net \subseteq net'
  BY <1>0 DEF Beat, Send, Other, NewBeat
<1>2. Spent' = Spent /\ Spent \in Nat
  BY <1>1, Numbers, SpentSteps, SpentIsBounded
<1>3. "client" \in Ends /\ "server" \in Ends
  BY DEF Ends
<1>4. \A e \in Ends : idle'[e] <= idle[e] /\ idle'[e] \in Nat
  BY <1>0, <1>3, SendTypes, Ticks
<1>5. \A e \in Ends : Silence(e)' \in Nat /\ Silence(e)' <= Silence(e) /\ Silence(e) \in Nat
  BY <1>1, <1>4, Numbers DEF Silence
<1>6. \A p \in net : ~IsBeat(p)
  BY <1>1, Numbers, Ticks DEF IsBeat
<1>7. ServerHears'
  <2>1. Silence("server") <= Spent + MaxDelay
    BY <1>1, <1>2, <1>3, <1>5, <1>6, Ticks DEF ServerHears, BeatDue, BeatSent
  <2>2. Silence("server")' <= Spent + MaxDelay /\ Spent + MaxDelay \in Nat
    BY <1>2, <1>3, <1>5, <2>1, Ticks
  <2>. QED BY <1>1, <1>2, <1>3, <1>5, <2>2, NewBeatCounts DEF ServerHears, BeatSent
<1>8. ClientHears'
  <2>. DEFINE n == Silence("client")  w == Spent + HeartbeatTicks
  <2>1. n \in Nat /\ n' \in Nat /\ n' <= n /\ w \in Nat /\ w' = w
    BY <1>2, <1>3, <1>5, Ticks
  <2>2. ~BeatSent(n, Spent) /\ ~BeatSent(n, w)
    BY <1>6 DEF BeatSent
  <2>3. \A p \in net : ~Answer(p, n, Spent, 2)
    BY <1>1, Numbers, Ticks DEF Answer
  <2>4. CASE BeatDue(n, Spent)
    <3>1. n' <= Spent
      BY <1>1, <1>2, <2>1, <2>4 DEF BeatDue
    <3>. QED BY <1>1, <1>2, <2>1, <3>1, NewBeatCounts DEF ClientHears, BeatSent
  <2>5. CASE \E p \in net : Answer(p, n, Spent, 1) /\ BeatDue(n, w)
    <3>1. PICK p \in net : Answer(p, n, Spent, 1) /\ BeatDue(n, w)
      BY <2>5
    <3>2. n' <= w
      BY <1>1, <2>1, <3>1 DEF BeatDue
    <3>3. BeatSent(n, w)'
      BY <1>1, <2>1, <3>2, NewBeatCounts DEF BeatSent
    <3>4. Answer(p, n, Spent, 2)' /\ p \in net'
      BY <1>1, <1>2, <2>1, <3>1, Numbers, Ticks DEF Answer, IsAck
    <3>. QED BY <3>3, <3>4 DEF ClientHears
  <2>. QED BY <2>2, <2>3, <2>4, <2>5 DEF ClientHears
<1>. QED BY <1>7, <1>8

\* A packet that arrives at the client restarts its timer, and an acknowledgement
\* shows how recently the server has heard of it.
LEMMA ClientArrival ==
  ASSUME HeartbeatTypeOK, HeartbeatTypeOK', AckIsFresh, ServerHears,
         NEW p \in net, Arrive(p), p.to = "client"
  PROVE  ServerHears' /\ ClientHears'
<1>0. "client" \in Ends /\ "server" \in Ends
  BY DEF Ends
<1>1. /\ idle'["client"] = 0 /\ idle'["server"] = idle["server"] /\ beat' = beat /\ busy' = busy
      /\ \A q \in net : q # p => q \in net'
  BY <1>0 DEF Arrive, HeartbeatTypeOK
<1>2. Silence("client")' = 0 /\ Silence("server")' = Silence("server") /\ Silence("server") \in Nat
  BY <1>0, <1>1, Numbers DEF Silence
<1>3. Spent' \in Nat /\ Spent' >= HeartbeatTicks /\ Spent \in Nat
  <2>1. lost' = 0 \/ lost' = lost
    BY DEF Arrive
  <2>. QED BY <2>1, Numbers, SpentSteps, SpentIsBounded, Ticks
<1>4. ClientHears'
  BY <1>1, <1>2, <1>3, Numbers, Ticks DEF ClientHears, BeatDue
<1>5. CASE p.asks
  <2>1. Spent' = Spent
    BY <1>5, Numbers, SpentSteps DEF Arrive
  <2>2. CASE BeatDue(Silence("server"), Spent + MaxDelay)
    BY <1>1, <1>2, <1>4, <2>1, <2>2 DEF ServerHears, BeatDue
  <2>3. CASE BeatSent(Silence("server"), Spent + MaxDelay)
    <3>1. PICK q \in net : IsBeat(q) /\ Silence("server") <= Spent + MaxDelay + q.age
      BY <2>3 DEF BeatSent
    <3>2. q \in net' /\ IsBeat(q)'
      BY <1>1, <3>1 DEF IsBeat
    <3>. QED BY <1>2, <1>4, <2>1, <3>1, <3>2 DEF ServerHears, BeatSent
  <2>. QED BY <1>4, <2>2, <2>3 DEF ServerHears
<1>6. CASE ~p.asks
  <2>1. idle["server"] <= p.age /\ p.age <= MaxDelay /\ p.age \in Nat
    BY <1>6, Numbers DEF AckIsFresh
  <2>2. Silence("server") <= MaxDelay
    BY <1>0, <2>1, Numbers, Ticks DEF Silence
  <2>. QED BY <1>1, <1>2, <1>3, <1>4, <2>2, Numbers, Ticks DEF ServerHears, BeatDue
<1>. QED BY <1>5, <1>6

\* A packet that arrives at the server restarts its timer, and a heartbeat is answered.
LEMMA ServerArrival ==
  ASSUME HeartbeatTypeOK, HeartbeatTypeOK', ClientHears,
         NEW p \in net, Arrive(p), p.to = "server"
  PROVE  ServerHears' /\ ClientHears'
<1>0. "client" \in Ends /\ "server" \in Ends
  BY DEF Ends
<1>. DEFINE a == [to |-> "client", asks |-> FALSE, age |-> 0]
            n == Silence("client")
            w == Spent + HeartbeatTicks
<1>1. /\ idle'["server"] = 0 /\ idle'["client"] = idle["client"]
      /\ beat' = beat /\ busy' = busy /\ lost' = lost
      /\ \A q \in net : q # p => q \in net'
      /\ p.asks => a \in net'
  BY <1>0 DEF Arrive, HeartbeatTypeOK, Other
<1>2. Silence("server")' = 0 /\ n' = n /\ n \in Nat
  BY <1>0, <1>1, Numbers DEF Silence
<1>3. Spent' = Spent /\ Spent \in Nat /\ Spent >= HeartbeatTicks /\ w \in Nat
  BY <1>1, Numbers, SpentSteps, SpentIsBounded, Ticks
<1>4. ServerHears'
  BY <1>1, <1>2, <1>3, Numbers, Ticks DEF ServerHears, BeatDue
<1>5. \A v, k : \A q \in net : Answer(q, n, v, k) => q \in net'
  BY <1>1 DEF Answer, IsAck
<1>6. ASSUME NEW v \in Nat, BeatSent(n, v), v' = v
      PROVE  \/ BeatSent(n, v)'
             \/ /\ a \in net' /\ IsAck(a) /\ n <= v + MaxDelay + a.age
                /\ HeartbeatTicks <= a.age + MaxDelay + beat
                /\ n + beat <= v + HeartbeatTicks
  <2>1. PICK q \in net : IsBeat(q) /\ n <= v + q.age
    BY <1>6 DEF BeatSent
  <2>2. CASE q # p
    BY <1>1, <1>2, <1>6, <2>1, <2>2 DEF BeatSent, IsBeat
  <2>3. CASE q = p
    BY <1>1, <1>2, <2>1, <2>3, Numbers, Ticks DEF IsBeat, IsAck
  <2>. QED BY <2>2, <2>3
<1>7. ASSUME NEW q \in net, NEW k \in {1, 2}, Answer(q, n, Spent, k) PROVE Answer(q, n, Spent, k)'
  BY <1>1, <1>2, <1>3, <1>7 DEF Answer, IsAck
<1>8. ClientHears'
  <2>1. CASE BeatDue(n, Spent)
    BY <1>1, <1>2, <1>3, <2>1 DEF ClientHears, BeatDue
  <2>2. CASE BeatSent(n, Spent)
    <3>1. CASE BeatSent(n, Spent)'
      BY <3>1 DEF ClientHears
    <3>2. CASE /\ a \in net' /\ IsAck(a) /\ n <= Spent + MaxDelay + a.age
               /\ HeartbeatTicks <= a.age + MaxDelay + beat
               /\ n + beat <= Spent + HeartbeatTicks
      <4>1. Answer(a, n, Spent, 1)' /\ BeatDue(n, w)' /\ a \in net'
        BY <1>1, <1>2, <1>3, <3>2, Ticks DEF Answer, BeatDue, IsAck
      <4>. QED BY <4>1 DEF ClientHears
    <3>. QED BY <1>3, <1>6, <2>2, <3>1, <3>2
  <2>3. CASE \E q \in net : Answer(q, n, Spent, 1) /\ BeatDue(n, w)
    <3>1. PICK q \in net : Answer(q, n, Spent, 1) /\ BeatDue(n, w)
      BY <2>3
    <3>2. Answer(q, n, Spent, 1)' /\ BeatDue(n, w)' /\ q \in net'
      BY <1>1, <1>2, <1>3, <1>5, <1>7, <3>1 DEF BeatDue
    <3>. QED BY <3>2 DEF ClientHears
  <2>4. CASE \E q \in net : Answer(q, n, Spent, 2) /\ BeatSent(n, w)
    <3>1. PICK q \in net : Answer(q, n, Spent, 2) /\ BeatSent(n, w)
      BY <2>4
    <3>2. Answer(q, n, Spent, 2)' /\ q \in net'
      BY <1>5, <1>7, <3>1
    <3>3. CASE BeatSent(n, w)'
      BY <3>2, <3>3 DEF ClientHears
    <3>4. CASE /\ a \in net' /\ IsAck(a) /\ n <= w + MaxDelay + a.age
               /\ HeartbeatTicks <= a.age + MaxDelay + beat
               /\ n + beat <= w + HeartbeatTicks
      <4>1. Answer(a, n, w, 1)' /\ BeatDue(n, w + HeartbeatTicks)' /\ a \in net'
        BY <1>1, <1>2, <1>3, <3>4, Ticks DEF Answer, BeatDue, IsAck
      <4>2. a # q
        BY <3>1, Numbers, Ticks DEF Answer
      <4>. QED BY <3>2, <4>1, <4>2 DEF ClientHears
    <3>. QED BY <1>3, <1>6, <3>1, <3>3, <3>4
  <2>5. CASE \E q, r \in net : /\ q # r
                              /\ Answer(q, n, Spent, 2)
                              /\ Answer(r, n, w, 1)
                              /\ BeatDue(n, w + HeartbeatTicks)
    <3>1. PICK q \in net, r \in net : /\ q # r
                                      /\ Answer(q, n, Spent, 2)
                                      /\ Answer(r, n, w, 1)
                                      /\ BeatDue(n, w + HeartbeatTicks)
      BY <2>5
    <3>2. Answer(q, n, Spent, 2)' /\ q \in net' /\ r \in net'
      BY <1>5, <1>7, <3>1
    <3>3. Answer(r, n, w, 1)' /\ BeatDue(n, w + HeartbeatTicks)'
      BY <1>1, <1>2, <1>3, <3>1 DEF Answer, BeatDue, IsAck
    <3>. QED BY <3>1, <3>2, <3>3 DEF ClientHears
  <2>. QED BY <2>1, <2>2, <2>3, <2>4, <2>5 DEF ClientHears
<1>. QED BY <1>4, <1>8

\* A packet is lost: the loss explains one heartbeat more.
LEMMA LossIsExplained ==
  ASSUME HeartbeatTypeOK, HeartbeatTypeOK', ServerHears, ClientHears, alive = Ends,
         NEW p \in net, Lose(p)
  PROVE  ServerHears' /\ ClientHears'
<1>0. "client" \in Ends /\ "server" \in Ends /\ p.to \in alive
  BY DEF Ends, HeartbeatTypeOK
<1>1. /\ idle' = idle /\ beat' = beat /\ busy' = busy /\ lost' = lost + 1
      /\ \A q \in net : q # p => q \in net'
  BY <1>0 DEF Lose
<1>2. Spent' = Spent + HeartbeatTicks /\ Spent \in Nat
  BY <1>1, Numbers, SpentSteps, SpentIsBounded
<1>3. \A e \in Ends : Silence(e)' = Silence(e) /\ Silence(e) \in Nat
  BY <1>1, Numbers DEF Silence
<1>4. ASSUME NEW n \in Nat, NEW w \in Nat, BeatSent(n, w)
      PROVE  BeatDue(n, w + HeartbeatTicks) \/ \E q \in net' : IsBeat(q)' /\ n <= w + q.age
  <2>1. PICK q \in net : IsBeat(q) /\ n <= w + q.age
    BY <1>4 DEF BeatSent
  <2>2. CASE q # p
    BY <1>1, <2>1, <2>2 DEF IsBeat
  <2>3. CASE q = p
    BY <2>1, Numbers, Ticks DEF BeatDue, IsBeat
  <2>. QED BY <2>2, <2>3
<1>5. ServerHears'
  <2>. DEFINE n == Silence("server")  w == Spent + MaxDelay
  <2>1. n \in Nat /\ n' = n /\ w \in Nat /\ w' = w + HeartbeatTicks
    BY <1>0, <1>2, <1>3, Ticks
  <2>2. CASE BeatDue(n, w) \/ BeatDue(n, w + HeartbeatTicks)
    BY <1>1, <2>1, <2>2, Numbers, Ticks DEF ServerHears, BeatDue
  <2>3. CASE \E q \in net' : IsBeat(q)' /\ n <= w + q.age
    <3>1. PICK q \in net' : IsBeat(q)' /\ n <= w + q.age
      BY <2>3
    <3>2. q.age \in Nat
      BY Ticks DEF HeartbeatTypeOK
    <3>3. n' <= w' + q.age
      BY <2>1, <3>1, <3>2, Ticks
    <3>. QED BY <3>1, <3>3 DEF ServerHears, BeatSent
  <2>. QED BY <1>4, <2>1, <2>2, <2>3 DEF ServerHears
<1>6. ClientHears'
  <2>. DEFINE n == Silence("client")  w == Spent + HeartbeatTicks
  <2>1. n \in Nat /\ n' = n /\ w \in Nat /\ Spent' = w /\ w' = w + HeartbeatTicks
    BY <1>0, <1>2, <1>3, Ticks
  <2>. HIDE DEF n, w
  <2>2. CASE BeatDue(n, Spent) \/ BeatDue(n, w)
    <3>1. BeatDue(n, Spent)'
      BY <1>1, <1>2, <2>1, <2>2, Numbers, Ticks DEF BeatDue, w
    <3>. QED BY <3>1 DEF ClientHears, n
  <2>3. ASSUME NEW v \in Nat, v <= w, \E q \in net' : IsBeat(q)' /\ n <= v + q.age
        PROVE  ClientHears'
    <3>1. PICK q \in net' : IsBeat(q)' /\ n <= v + q.age
      BY <2>3
    <3>2. q.age \in Nat
      BY Ticks DEF HeartbeatTypeOK
    <3>3. n' <= Spent' + q.age
      BY <2>1, <2>3, <3>1, <3>2
    <3>. QED BY <3>1, <3>3 DEF ClientHears, BeatSent, n
  <2>4. ASSUME NEW q \in net, q # p, NEW v \in Nat, v <= w, NEW k \in {1, 2}, Answer(q, n, v, k),
               BeatDue(n, w + HeartbeatTicks)
        PROVE  ClientHears'
    <3>1. Answer(q, n, Spent, 1)' /\ q \in net'
      BY <1>1, <2>1, <2>4, Numbers, Ticks DEF Answer, IsAck
    <3>2. BeatDue(n, w)'
      BY <1>1, <2>1, <2>4 DEF BeatDue
    <3>. QED BY <3>1, <3>2 DEF ClientHears, n, w
  <2>5. Spent <= w
    BY <1>2, Ticks DEF w
  <2>6. CASE BeatSent(n, Spent)
    BY <1>2, <1>4, <2>1, <2>2, <2>3, <2>5, <2>6 DEF w
  <2>7. CASE \E q \in net : Answer(q, n, Spent, 1) /\ BeatDue(n, w)
    BY <2>2, <2>7
  <2>8. CASE \E q \in net : Answer(q, n, Spent, 2) /\ BeatSent(n, w)
    <3>1. PICK q \in net : Answer(q, n, Spent, 2) /\ BeatSent(n, w)
      BY <2>8
    <3>2. CASE \E r \in net' : IsBeat(r)' /\ n <= w + r.age
      BY <2>1, <2>3, <3>2
    <3>3. CASE BeatDue(n, w + HeartbeatTicks) /\ q # p
      BY <1>2, <2>4, <2>5, <3>1, <3>3
    <3>4. CASE q = p
      <4>1. PICK r \in net : IsBeat(r) /\ n <= w + r.age
        BY <3>1 DEF BeatSent
      <4>2. r # p
        BY <3>1, <3>4, <4>1 DEF Answer, IsAck, IsBeat
      <4>3. r \in net' /\ IsBeat(r)'
        BY <1>1, <4>1, <4>2 DEF IsBeat
      <4>. QED BY <3>2, <4>1, <4>3
    <3>. QED BY <1>4, <2>1, <3>1, <3>2, <3>3, <3>4
  <2>9. CASE \E q, r \in net : /\ q # r
                              /\ Answer(q, n, Spent, 2)
                              /\ Answer(r, n, w, 1)
                              /\ BeatDue(n, w + HeartbeatTicks)
    BY <1>2, <2>1, <2>4, <2>5, <2>9
  <2>. QED BY <2>2, <2>6, <2>7, <2>8, <2>9 DEF ClientHears, n, w
<1>. QED BY <1>5, <1>6

\* A tick makes the silence, and all that is under way, older by one.
LEMMA TickIsExplained ==
  ASSUME HeartbeatTypeOK, HeartbeatTypeOK', LoopRuns, ServerHears, ClientHears, alive = Ends, Tick
  PROVE  ServerHears' /\ ClientHears'
<1>0. "client" \in Ends /\ "server" \in Ends
  BY DEF Ends
<1>1. beat' = beat - 1 /\ lost' = lost /\ \A p \in net : Older(p) \in net'
  BY <1>0 DEF Tick, LoopRuns
<1>2. Spent' = Spent /\ Spent \in Nat
  BY <1>1, Numbers, SpentSteps, SpentIsBounded
<1>3. \A e \in Ends : Silence(e)' \in Nat /\ Silence(e)' <= Silence(e) + 1 /\ Silence(e) \in Nat
  <2>1. busy' \in Nat /\ busy' <= busy + 1 /\ \A e \in Ends : idle'[e] = idle[e] + 1
    BY Numbers DEF Tick, HeartbeatTypeOK
  <2>2. ASSUME NEW e \in Ends PROVE Silence(e)' \in Nat /\ Silence(e)' <= Silence(e) + 1
    <3>1. idle[e] \in Nat /\ idle'[e] = idle[e] + 1 /\ busy \in Nat
      BY <2>1, Numbers
    <3>2. Silence(e)' = IF idle[e] + 1 <= busy' THEN idle[e] + 1 ELSE busy'
      BY <3>1 DEF Silence
    <3>3. busy' \in Nat /\ busy' <= busy + 1
      BY <2>1
    <3>4. Silence(e) = IF idle[e] <= busy THEN idle[e] ELSE busy
      BY DEF Silence
    <3>5. \A i, b, c \in Nat : c <= b + 1 =>
            LET m == IF i + 1 <= c THEN i + 1 ELSE c
                n == IF i <= b THEN i ELSE b
            IN  m \in Nat /\ m <= n + 1
      OBVIOUS
    <3>6. LET m == IF idle[e] + 1 <= busy' THEN idle[e] + 1 ELSE busy'
              n == IF idle[e] <= busy THEN idle[e] ELSE busy
          IN  m \in Nat /\ m <= n + 1
      BY <3>1, <3>3, <3>5, Zenon
    <3>7. Silence(e)' \in Nat /\ Silence(e)' <= Silence(e) + 1
      BY <3>2, <3>4, <3>6, Zenon
    <3>. QED BY <3>7
  <2>. QED BY <2>2, Numbers
<1>4. \A p \in net : /\ Older(p).to = p.to /\ Older(p).asks = p.asks /\ Older(p).age = p.age + 1
                     /\ p.age \in Nat
  BY Numbers DEF Older
<1>5. \A p \in net : IsBeat(p) => IsBeat(Older(p))'
  BY <1>1, <1>4, Numbers, Ticks DEF IsBeat
<1>6. \A p \in net : IsAck(p) => IsAck(Older(p))
  BY <1>4 DEF IsAck
<1>7. ServerHears'
  <2>. DEFINE n == Silence("server")  w == Spent + MaxDelay
  <2>1. n \in Nat /\ n' \in Nat /\ n' <= n + 1 /\ w \in Nat /\ w' = w
    BY <1>0, <1>2, <1>3, Ticks
  <2>. HIDE DEF n, w
  <2>2. CASE BeatDue(n, w)
    <3>1. BeatDue(n, w)'
      BY <1>1, <2>1, <2>2, Numbers DEF BeatDue
    <3>. QED BY <3>1 DEF ServerHears, n, w
  <2>3. CASE BeatSent(n, w)
    <3>1. PICK p \in net : IsBeat(p) /\ n <= w + p.age
      BY <2>3 DEF BeatSent
    <3>2. n' <= w' + Older(p).age
      BY <1>4, <2>1, <3>1
    <3>3. BeatSent(n, w)'
      BY <1>1, <1>5, <3>1, <3>2 DEF BeatSent
    <3>. QED BY <3>3 DEF ServerHears, n, w
  <2>. QED BY <2>2, <2>3 DEF ServerHears, n, w
<1>8. ClientHears'
  <2>. DEFINE n == Silence("client")  w == Spent + HeartbeatTicks
  <2>1. n \in Nat /\ n' \in Nat /\ n' <= n + 1 /\ w \in Nat /\ w' = w
    BY <1>0, <1>2, <1>3, Ticks
  <2>. HIDE DEF n, w
  <2>2. ASSUME NEW v \in Nat, BeatDue(n, v) PROVE n' + beat' <= v
    BY <1>1, <2>1, <2>2, Numbers DEF BeatDue
  <2>3. ASSUME NEW v \in Nat, BeatSent(n, v) PROVE \E p \in net' : IsBeat(p)' /\ n' <= v + p.age
    <3>1. PICK p \in net : IsBeat(p) /\ n <= v + p.age
      BY <2>3 DEF BeatSent
    <3>2. n' <= v + Older(p).age
      BY <1>4, <2>1, <2>3, <3>1
    <3>. QED BY <1>1, <1>5, <3>1, <3>2
  <2>4. ASSUME NEW p \in net, NEW v \in Nat, NEW k \in {1, 2}, Answer(p, n, v, k)
        PROVE  /\ Older(p) \in net' /\ IsAck(Older(p)) /\ n' <= v + MaxDelay + Older(p).age
               /\ k * HeartbeatTicks <= Older(p).age + MaxDelay + beat'
    BY <1>1, <1>4, <1>6, <2>1, <2>4, Numbers, Ticks DEF Answer
  <2>5. CASE BeatDue(n, Spent)
    BY <1>2, <2>2, <2>5 DEF ClientHears, BeatDue, n
  <2>6. CASE BeatSent(n, Spent)
    BY <1>2, <2>3, <2>6 DEF ClientHears, BeatSent, n
  <2>7. CASE \E p \in net : Answer(p, n, Spent, 1) /\ BeatDue(n, w)
    <3>1. PICK p \in net : Answer(p, n, Spent, 1) /\ BeatDue(n, w)
      BY <2>7
    <3>2. Answer(Older(p), n, Spent, 1)' /\ Older(p) \in net' /\ BeatDue(n, w)'
      BY <1>2, <2>1, <2>2, <2>4, <3>1 DEF Answer, BeatDue, IsAck
    <3>. QED BY <3>2 DEF ClientHears, n, w
  <2>8. CASE \E p \in net : Answer(p, n, Spent, 2) /\ BeatSent(n, w)
    <3>1. PICK p \in net : Answer(p, n, Spent, 2) /\ BeatSent(n, w)
      BY <2>8
    <3>2. Answer(Older(p), n, Spent, 2)' /\ Older(p) \in net' /\ BeatSent(n, w)'
      BY <1>2, <2>1, <2>3, <2>4, <3>1 DEF Answer, BeatSent, IsAck
    <3>. QED BY <3>2 DEF ClientHears, n, w
  <2>9. CASE \E p, q \in net : /\ p # q
                              /\ Answer(p, n, Spent, 2)
                              /\ Answer(q, n, w, 1)
                              /\ BeatDue(n, w + HeartbeatTicks)
    <3>1. PICK p \in net, q \in net : /\ p # q
                                      /\ Answer(p, n, Spent, 2)
                                      /\ Answer(q, n, w, 1)
                                      /\ BeatDue(n, w + HeartbeatTicks)
      BY <2>9
    <3>2. /\ Answer(Older(p), n, Spent, 2)' /\ Older(p) \in net'
          /\ Answer(Older(q), n, w, 1)' /\ Older(q) \in net'
      BY <1>2, <2>1, <2>4, <3>1 DEF Answer, IsAck
    <3>3. BeatDue(n, w + HeartbeatTicks)'
      BY <2>1, <2>2, <3>1, Ticks DEF BeatDue
    <3>4. Older(p) # Older(q)
      <4>1. ASSUME Older(p) = Older(q) PROVE p = q
        <5>1. p.to = q.to /\ p.asks = q.asks /\ p.age = q.age
          BY <1>4, <4>1
        <5>2. /\ p \in [to: Ends, asks: BOOLEAN, age: 0 .. MaxDelay]
              /\ q \in [to: Ends, asks: BOOLEAN, age: 0 .. MaxDelay]
          BY DEF HeartbeatTypeOK
        <5>. QED BY <5>1, <5>2
      <4>. QED BY <3>1, <4>1
    <3>. QED BY <3>2, <3>3, <3>4 DEF ClientHears, n, w
  <2>. QED BY <2>5, <2>6, <2>7, <2>8, <2>9 DEF ClientHears, n, w
<1>. QED BY <1>7, <1>8

LEMMA NextHears ==
  ASSUME HeartbeatInv, HeartbeatTypeOK', [HeartbeatNext]_heartbeatVars, (alive = Ends /\ tasks # {})'
  PROVE  ServerHears' /\ ClientHears'
<1>. USE DEF HeartbeatInv
<1>0. alive = Ends /\ "client" \in Ends /\ "server" \in Ends
  BY DEF HeartbeatNext, heartbeatVars, StartTask, EndTask, Relay, StopSending, IdleTimeout, Arrive, Lose, Beat, Tick,
         HeartbeatTypeOK, Ends
<1>1. \A e \in Ends : Silence(e) \in Nat /\ idle[e] \in Nat
  BY Numbers
<1>2. ASSUME NEW e \in Ends, Send(e), tasks # {}, UNCHANGED <<beat, lost, busy>>
      PROVE  ServerHears' /\ ClientHears'
  <2>1. Spent' = Spent
    BY <1>2, Numbers, SpentSteps
  <2>2. net \subseteq net' /\ \A d \in Ends : idle'[d] <= idle[d] /\ idle'[d] \in Nat
    BY <1>2, SendTypes, Ticks
  <2>3. ASSUME NEW d \in Ends PROVE Silence(d)' \in Nat /\ Silence(d)' <= Silence(d)
    <3>1. idle'[d] <= idle[d] /\ idle'[d] \in Nat /\ idle[d] \in Nat /\ busy \in Nat /\ busy' = busy
      BY <1>1, <1>2, <2>2, Numbers
    <3>. QED BY <3>1 DEF Silence
  <2>. QED BY <1>0, <1>2, <2>1, <2>2, <2>3, MoreUnderWay
<1>2a. ASSUME tasks # {}, UNCHANGED <<idle, net, beat, lost, busy>>
       PROVE  ServerHears' /\ ClientHears'
  <2>1. Spent' = Spent /\ \A e \in Ends : Silence(e)' = Silence(e)
    BY <1>2a DEF Spent, Silence
  <2>2. \A e \in Ends : Silence(e)' \in Nat /\ Silence(e)' <= Silence(e)
    BY <1>1, <2>1
  <2>. QED BY <1>0, <1>2a, <2>1, <2>2, MoreUnderWay
<1>3. ASSUME NEW t \in Connects \cup Associations, StartTask(t) PROVE ServerHears' /\ ClientHears'
  BY <1>2a, <1>3, StartIsHeard DEF StartTask
<1>4. ASSUME NEW t \in Connects \cup Associations, EndTask(t) PROVE ServerHears' /\ ClientHears'
  BY <1>2a, <1>4 DEF EndTask
<1>5. ASSUME NEW e \in Ends, Relay(e) \/ StopSending(e) PROVE ServerHears' /\ ClientHears'
  BY <1>2, <1>2a, <1>5 DEF Relay, StopSending
<1>6. ASSUME NEW e \in Ends, IdleTimeout(e) PROVE ServerHears' /\ ClientHears'
  BY <1>0, <1>6 DEF IdleTimeout
<1>7. ASSUME NEW p \in net, Arrive(p) PROVE ServerHears' /\ ClientHears'
  <2>1. p.to = "client" \/ p.to = "server"
    BY DEF HeartbeatTypeOK, Ends
  <2>2. tasks # {}
    BY <1>7 DEF Arrive
  <2>. QED BY <1>0, <1>7, <2>1, <2>2, ClientArrival, ServerArrival
<1>8. ASSUME NEW p \in net, Lose(p) PROVE ServerHears' /\ ClientHears'
  <2>1. tasks # {}
    BY <1>8 DEF Lose
  <2>. QED BY <1>0, <1>8, <2>1, LossIsExplained
<1>9. CASE Beat
  <2>1. tasks # {}
    BY <1>9 DEF Beat
  <2>. QED BY <1>0, <1>9, <2>1, BeatIsHeard
<1>10. CASE Tick
  <2>1. tasks # {}
    BY <1>10 DEF Tick
  <2>. QED BY <1>0, <1>10, <2>1, TickIsExplained
<1>11. CASE UNCHANGED heartbeatVars
  BY <1>2a, <1>11 DEF heartbeatVars
<1>. QED BY <1>3, <1>4, <1>5, <1>6, <1>7, <1>8, <1>9, <1>10, <1>11 DEF HeartbeatNext

\* The inductive invariant: at every moment of a connection with tasks, the silence of
\* an end is explained by the packets lost, or what will end it is on its way.
THEOREM HeartbeatInductive == HeartbeatSpec => []HeartbeatInv
<1>1. HeartbeatInv /\ [HeartbeatNext]_heartbeatVars => HeartbeatInv'
  <2>. SUFFICES ASSUME HeartbeatInv, [HeartbeatNext]_heartbeatVars PROVE HeartbeatInv'
    OBVIOUS
  <2>1. HeartbeatTypeOK' /\ LoopRuns' /\ AckIsFresh'
    BY NextHeartbeatTypes, NextLoop, NextAck DEF HeartbeatInv
  <2>. QED BY <2>1, NextHears DEF HeartbeatInv
<1>. QED BY <1>1, InitHeartbeat, PTL DEF HeartbeatSpec

\* Timers, counters and packets keep their types: no idle timer runs past
\* max_idle_time, and no packet is older than the network allows.
THEOREM HeartbeatTypeCorrect == HeartbeatSpec => []HeartbeatTypeOK
<1>1. HeartbeatInv => HeartbeatTypeOK
  BY DEF HeartbeatInv
<1>. QED BY <1>1, HeartbeatInductive, PTL

\* A connection on which the client's loop has had tasks for more than BeatBound ticks is not
\* given up by either end: no idle timer is about to fire.
THEOREM BusyConnectionIsKept == HeartbeatSpec => []BusyIsKept
<1>1. HeartbeatInv => BusyIsKept
  <2>. SUFFICES ASSUME HeartbeatInv, alive = Ends, busy > BeatBound, NEW e \in Ends
                PROVE  idle[e] < MaxIdle
    BY DEF BusyIsKept
  <2>0. HeartbeatTypeOK
    BY DEF HeartbeatInv
  <2>1. tasks # {}
    <3>1. busy # 0
      BY Ticks
    <3>. QED BY <3>1 DEF HeartbeatInv, LoopRuns
  <2>2. ServerHears /\ ClientHears
    BY <2>1 DEF HeartbeatInv
  <2>3. Spent \in Nat /\ Spent + 2 * MaxDelay <= BeatBound
    BY <2>0, Numbers, SpentIsBounded
  <2>4. \A d \in Ends : Silence(d) \in Nat
    BY <2>0, Numbers
  <2>5. Silence("server") <= Spent + 2 * MaxDelay
    BY <2>0, <2>2, <2>3, <2>4, Numbers, Ticks DEF ServerHears, BeatDue, BeatSent, Ends
  <2>6. Silence("client") <= Spent + 2 * MaxDelay
    BY <2>0, <2>2, <2>3, <2>4, Numbers, Ticks DEF ClientHears, BeatDue, BeatSent, Answer, Ends
  <2>7. Silence(e) <= BeatBound
    BY <2>3, <2>4, <2>5, <2>6, Ticks DEF Ends
  <2>8. idle[e] <= BeatBound
    BY <2>0, <2>7, Numbers, Ticks DEF Silence
  <2>. QED BY <2>0, <2>8, Numbers, Ticks
<1>. QED BY <1>1, HeartbeatInductive, PTL
=============================================================================
