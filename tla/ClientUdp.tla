------------------------------ MODULE ClientUdp ------------------------------
(***************************************************************************)
(* UDP associations of tuic-client and the connection they share: the      *)
(* SOCKS5 server gives each association an ID and an entry in              *)
(* UDP_SESSIONS; each packet it receives is forwarded by a task of its     *)
(* own, and its end sends a Dissociate. All of these ask get_conn for the  *)
(* connection, which is made, or made again, under CONNECTION's lock and   *)
(* within a timeout that may cancel the caller at any await. The answer    *)
(* to a packet finds its association by ID: in the connection's model when *)
(* it is accepted, and in UDP_SESSIONS once it is assembled.               *)
(***************************************************************************)
EXTENDS Integers, FiniteSets

CONSTANTS
  Assocs,        \* bound: the SOCKS5 associations
  U16Space,      \* number of associate IDs: 2^16
  Packets,       \* bound: packets of the SOCKS5 clients, one forward task each
  MaxConns,      \* bound: connections made
  Nobody         \* no holder of the lock

ASSUME U16Assumption == U16Space \in Nat \ {0}
ASSUME CallersAssumption == Assocs \cap Packets = {} /\ Nobody \notin Assocs \cup Packets
ASSUME MaxConnsAssumption == MaxConns \in Nat

AssocIds == 0 .. U16Space - 1
ConnIds == 1 .. MaxConns
NoConn == 0

\* Callers of get_conn: the task that forwards a packet, and an association's own
\* for its Dissociate. (handle_connect is one more, as a packet is.)
Callers == Assocs \cup Packets

\* "accepted" until the reply, "open" while it relays, "closing" once its control
\* connection is closed, "gone" after the table's entry is removed.
AssocSteps == {"new", "accepted", "open", "closing", "gone", "failed", "panicked"}
\* "waiting" for the lock, "connecting" under it, "using" the connection, and an
\* association "dissociating" until its Dissociate is written.
CallerSteps == {"idle", "waiting", "connecting", "using", "dissociating", "done"}
\* The answer to a packet: none yet, accepted by the model, handled or dropped, or
\* its task panicked.
AnswerSteps == {"none", "accepted", "handled", "panicked"}

VARIABLES
  next_assoc_id,   \* the SOCKS5 server's counter
  assoc,           \* step of each association's task
  id,              \* its associate ID
  UDP_SESSIONS,    \* the association whose session each ID has; a set of at most one
  conn,            \* QUIC connections: "unused", "open", "closed"
  CONNECTION,      \* the connection in the cell
  lock,            \* who has the cell's permit or its write lock
  caller,          \* step of each caller of get_conn
  got,             \* what get_conn gave it
  of,              \* the association that each packet is from
  sessions,        \* <<connection, ID>>: the sessions in the models of open connections
  answer,          \* step of the answer to each packet
  clashed,         \* associations whose ID another live one had
  peers,           \* associations whose UDP socket is connected to its SOCKS5 client
  late             \* IDs with a session made, or not removed, at their association's end

assocVars == <<next_assoc_id, assoc, id, UDP_SESSIONS, clashed>>
answerVars == <<of, sessions, answer, peers, late>>
vars == <<assocVars, conn, CONNECTION, lock, caller, got, answerVars>>

Init ==
  /\ next_assoc_id = 0
  /\ assoc = [a \in Assocs |-> "new"]
  /\ id = [a \in Assocs |-> 0]
  /\ UDP_SESSIONS = [i \in AssocIds |-> {}]
  /\ conn = [k \in ConnIds |-> "unused"]
  /\ CONNECTION = NoConn
  /\ lock = Nobody
  /\ caller = [r \in Callers |-> "idle"]
  /\ got = [r \in Callers |-> NoConn]
  /\ of = [p \in Packets |-> Nobody]
  /\ sessions = {}
  /\ answer = [p \in Packets |-> "none"]
  /\ clashed = {}
  /\ peers = {}
  /\ late = {}

-----------------------------------------------------------------------------
(* Associations *)

Live(a) == assoc[a] \in {"accepted", "open", "closing"}

\* History: association a has ended and ss are the sessions.
LateIn(ss, a) == IF \E s \in ss : s[2] = id[a] THEN late \cup {id[a]} ELSE late

\* fetch_add of an AtomicU16 wraps.
FetchAdd(n) == (n + 1) % U16Space

\* Server::start: fetch_add gives the ID, handle_associate makes the socket.
Accept(a) ==
  LET twins == {b \in Assocs : Live(b) /\ id[b] = next_assoc_id} IN
  /\ assoc[a] = "new"
  /\ assoc' = [assoc EXCEPT ![a] = "accepted"]
  /\ id' = [id EXCEPT ![a] = next_assoc_id]
  /\ next_assoc_id' = FetchAdd(next_assoc_id)
  /\ clashed' = IF twins = {} THEN clashed ELSE clashed \cup twins \cup {a}
  /\ UNCHANGED <<UDP_SESSIONS, conn, CONNECTION, lock, caller, got, answerVars>>

\* UdpSession::new fails, and the association is refused: its ID is used up.
Refuse(a) ==
  /\ assoc[a] = "new"
  /\ assoc' = [assoc EXCEPT ![a] = "failed"]
  /\ id' = [id EXCEPT ![a] = next_assoc_id]
  /\ next_assoc_id' = FetchAdd(next_assoc_id)
  /\ UNCHANGED <<UDP_SESSIONS, conn, CONNECTION, lock, caller, got, clashed, answerVars>>

\* The reply is sent and the session is inserted, over any other; or the reply
\* fails and the task returns.
Insert(a) ==
  /\ assoc[a] = "accepted"
  /\ \/ /\ assoc' = [assoc EXCEPT ![a] = "open"]
        /\ UDP_SESSIONS' = [UDP_SESSIONS EXCEPT ![id[a]] = {a}]
     \/ /\ assoc' = [assoc EXCEPT ![a] = "failed"]
        /\ UNCHANGED UDP_SESSIONS
  /\ UNCHANGED <<next_assoc_id, id, conn, CONNECTION, lock, caller, got, clashed, answerVars>>

\* Faulty: recv leaves the socket unconnected.
ForwardUnconnected(a, p) ==
  /\ assoc[a] = "open"
  /\ caller[p] = "idle"
  /\ caller' = [caller EXCEPT ![p] = "waiting"]
  /\ of' = [of EXCEPT ![p] = a]
  /\ UNCHANGED <<assocVars, conn, CONNECTION, lock, got, sessions, answer, peers, late>>

\* UdpSession::recv gives a packet of the SOCKS5 client, to which the first connects
\* the socket: spawn its forward task. (A packet that recv refuses is not forwarded; a
\* SOCKS5 fragment may have connected the socket before, for the packets that follow.)
Forward(a, p) ==
  /\ assoc[a] = "open"
  /\ caller[p] = "idle"
  /\ peers' = peers \cup {a}
  /\ caller' = [caller EXCEPT ![p] = "waiting"]
  /\ of' = [of EXCEPT ![p] = a]
  /\ UNCHANGED <<assocVars, conn, CONNECTION, lock, got, sessions, answer, late>>

\* wait_until_closed returns; forward tasks go on.
StopAssociating(a) ==
  /\ assoc[a] = "open"
  /\ assoc' = [assoc EXCEPT ![a] = "closing"]
  /\ UNCHANGED <<next_assoc_id, id, UDP_SESSIONS, conn, CONNECTION, lock, caller, got, clashed, answerVars>>

\* Faulty: the Dissociate goes out, the entry stays.
RemoveSessionNot(a) ==
  /\ assoc[a] = "closing"
  /\ assoc' = [assoc EXCEPT ![a] = "gone"]
  /\ caller' = [caller EXCEPT ![a] = "waiting"]
  /\ UNCHANGED <<next_assoc_id, id, UDP_SESSIONS, conn, CONNECTION, lock, got, clashed, answerVars>>

\* Faulty: the whole table is cleared.
RemoveSessions(a) ==
  /\ assoc[a] = "closing"
  /\ assoc' = [assoc EXCEPT ![a] = "gone"]
  /\ UDP_SESSIONS' = [i \in AssocIds |-> {}]
  /\ caller' = [caller EXCEPT ![a] = "waiting"]
  /\ UNCHANGED <<next_assoc_id, id, conn, CONNECTION, lock, got, clashed, answerVars>>

\* Faulty: the server is not told.
RemoveSessionSilently(a) ==
  /\ assoc[a] = "closing"
  /\ assoc' = [assoc EXCEPT ![a] = "gone"]
  /\ UDP_SESSIONS' = [UDP_SESSIONS EXCEPT ![id[a]] = {}]
  /\ UNCHANGED <<next_assoc_id, id, conn, CONNECTION, lock, caller, got, clashed, answerVars>>

\* Remove the ID's entry and unwrap it, then ask for the connection to dissociate. No
\* answer finds the association's socket from here on.
RemoveSession(a) ==
  LET found == UDP_SESSIONS[id[a]] # {} IN
  /\ assoc[a] = "closing"
  /\ assoc' = [assoc EXCEPT ![a] = IF found THEN "gone" ELSE "panicked"]
  /\ UDP_SESSIONS' = [UDP_SESSIONS EXCEPT ![id[a]] = {}]
  /\ caller' = IF found THEN [caller EXCEPT ![a] = "waiting"] ELSE caller
  /\ peers' = peers \ {a}
  /\ late' = IF found THEN late ELSE LateIn(sessions, a)
  /\ UNCHANGED <<next_assoc_id, id, conn, CONNECTION, lock, got, clashed, of, sessions,
                 answer>>

-----------------------------------------------------------------------------
(* get_conn *)

Usable == CONNECTION # NoConn /\ conn[CONNECTION] = "open"

\* Faulty: the lock is let go before connecting.
AcquireBriefly(r) ==
  /\ caller[r] = "waiting"
  /\ lock = Nobody
  /\ IF Usable
       THEN /\ caller' = [caller EXCEPT ![r] = "using"]
            /\ got' = [got EXCEPT ![r] = CONNECTION]
       ELSE /\ caller' = [caller EXCEPT ![r] = "connecting"]
            /\ UNCHANGED got
  /\ UNCHANGED <<assocVars, conn, CONNECTION, lock, answerVars>>

\* The cell's permit (no connection yet) or its write lock. An open connection
\* is cloned and the lock dropped; a closed one is replaced under the lock.
Acquire(r) ==
  /\ caller[r] = "waiting"
  /\ lock = Nobody
  /\ IF Usable
       THEN /\ caller' = [caller EXCEPT ![r] = "using"]
            /\ got' = [got EXCEPT ![r] = CONNECTION]
            /\ UNCHANGED lock
       ELSE /\ caller' = [caller EXCEPT ![r] = "connecting"]
            /\ lock' = r
            /\ UNCHANGED got
  /\ UNCHANGED <<assocVars, conn, CONNECTION, answerVars>>

NextUnused(k) == conn[k] = "unused" /\ \A j \in 1 .. k - 1 : conn[j] # "unused"

\* Endpoint::connect succeeds. The one that initialised the cell has its write
\* lock still to wait for; the one that had the write lock returns.
Connect(r, k) ==
  /\ caller[r] = "connecting"
  /\ NextUnused(k)
  /\ conn' = [conn EXCEPT ![k] = "open"]
  /\ CONNECTION' = k
  /\ lock' = Nobody
  /\ IF CONNECTION = NoConn
       THEN /\ caller' = [caller EXCEPT ![r] = "waiting"]
            /\ UNCHANGED got
       ELSE /\ caller' = [caller EXCEPT ![r] = "using"]
            /\ got' = [got EXCEPT ![r] = k]
  /\ UNCHANGED <<assocVars, answerVars>>

\* No address of the server answers, or the timeout cancels get_conn: the lock
\* and the handshake are dropped. There is no Dissociate then.
Cancel(r) ==
  /\ caller[r] \in {"waiting", "connecting"}
  /\ caller' = [caller EXCEPT ![r] = "done"]
  /\ lock' = IF lock = r THEN Nobody ELSE lock
  /\ late' = IF r \in Assocs THEN LateIn(sessions, r) ELSE late
  /\ UNCHANGED <<assocVars, conn, CONNECTION, got, of, sessions, answer, peers>>

-----------------------------------------------------------------------------
(* Packets and answers *)

Over(a) == caller[a] \in {"dissociating", "done"} \/ assoc[a] = "panicked"

\* The session of p's association, made if the connection's model has none. (The
\* model of a closed connection is of no use to anyone, and is left out.)
WithSession(p) ==
  IF conn[got[p]] = "open" THEN sessions \cup {<<got[p], id[of[p]]>>} ELSE sessions

\* The connection is closed, with its model.
Closed(k) ==
  /\ conn' = [conn EXCEPT ![k] = "closed"]
  /\ sessions' = {s \in sessions : s[1] # k}

\* packet on the connection get_conn gave, which may be closed by now (an error,
\* logged): send_packet makes the session; or JLS refused the connection, and it
\* is closed here.
SendPacket(p) ==
  /\ caller[p] = "using"
  /\ caller' = [caller EXCEPT ![p] = "done"]
  /\ \/ /\ sessions' = WithSession(p)
        /\ late' = IF Over(of[p]) THEN LateIn(sessions', of[p]) ELSE late
        /\ UNCHANGED conn
     \/ /\ Closed(got[p])
        /\ UNCHANGED late
  /\ UNCHANGED <<assocVars, CONNECTION, lock, got, of, answer, peers>>

\* Faulty: the model's session stays.
DissociateServerOnly(a) ==
  /\ caller[a] = "using"
  /\ caller' = [caller EXCEPT ![a] = "dissociating"]
  /\ UNCHANGED <<assocVars, conn, CONNECTION, lock, got, answerVars>>

\* dissociate on the connection get_conn gave, which another may have replaced:
\* send_dissociate removes the session, and open_uni is awaited.
Dissociate(a) ==
  /\ caller[a] = "using"
  /\ caller' = [caller EXCEPT ![a] = "dissociating"]
  /\ sessions' = sessions \ {<<got[a], id[a]>>}
  /\ late' = IF got[a] = CONNECTION THEN late ELSE LateIn(sessions, a)
  /\ UNCHANGED <<assocVars, conn, CONNECTION, lock, got, of, answer, peers>>

\* The stream is opened and the command written, or the connection is closed.
WriteDissociate(a) ==
  /\ caller[a] = "dissociating"
  /\ caller' = [caller EXCEPT ![a] = "done"]
  /\ got' = [got EXCEPT ![a] = NoConn]
  /\ UNCHANGED <<assocVars, conn, CONNECTION, lock, answerVars>>

\* No timeout limits that wait: on an open connection it is for the server to let
\* the client open and write one more stream.
AwaitsStream(a) == caller[a] = "dissociating" /\ got[a] # NoConn /\ conn[got[a]] = "open"

\* The answer of the server arrives: recv_packet takes it if the model has the
\* session. (The server answers in the client's relay mode, so the source is right.)
AcceptAnswer(p) ==
  /\ answer[p] = "none"
  /\ caller[p] = "done"
  /\ got[p] # NoConn
  /\ conn[got[p]] = "open"
  /\ answer' = [answer EXCEPT ![p] = IF <<got[p], id[of[p]]>> \in sessions
                                     THEN "accepted" ELSE "handled"]
  /\ UNCHANGED <<assocVars, conn, CONNECTION, lock, caller, got, of, sessions, peers, late>>

\* handle_packet: accept() assembles it, which makes the model's session again if
\* it has gone; then the SOCKS5 session that has the ID now sends it. That session
\* unwraps the peer of its socket: the task panics if there is none.
HandlePacket(p) ==
  /\ answer[p] = "accepted"
  /\ answer' = [answer EXCEPT ![p] = IF UDP_SESSIONS[id[of[p]]] \subseteq peers
                                     THEN "handled" ELSE "panicked"]
  /\ sessions' = WithSession(p)
  /\ late' = IF Over(of[p]) THEN LateIn(sessions', of[p]) ELSE late
  /\ UNCHANGED <<assocVars, conn, CONNECTION, lock, caller, got, of, peers>>

\* The server or quinn closes a connection.
CloseConn(k) ==
  /\ conn[k] = "open"
  /\ Closed(k)
  /\ UNCHANGED <<assocVars, CONNECTION, lock, caller, got, of, answer, peers, late>>

Next ==
  \/ \E a \in Assocs : \/ Accept(a)
                       \/ Refuse(a)
                       \/ Insert(a)
                       \/ \E p \in Packets : Forward(a, p)
                       \/ StopAssociating(a)
                       \/ RemoveSession(a)
  \/ \E r \in Callers : \/ Acquire(r)
                        \/ \E k \in ConnIds : Connect(r, k)
                        \/ Cancel(r)
  \/ \E p \in Packets : \/ SendPacket(p)
                        \/ AcceptAnswer(p)
                        \/ HandlePacket(p)
  \/ \E a \in Assocs : Dissociate(a) \/ WriteDissociate(a)
  \/ \E k \in ConnIds : CloseConn(k)

Spec == Init /\ [][Next]_vars

\* tokio polls a task that can go on and gives its locks in turn. The timeout
\* fires only on a caller that is still waiting or connecting. Nothing is assumed
\* of the server: a wait for its stream credit ends only with the connection.
Fairness ==
  /\ \A a \in Assocs : /\ WF_vars(RemoveSession(a))
                        /\ WF_vars(Dissociate(a))
                        /\ WF_vars(~AwaitsStream(a) /\ WriteDissociate(a))
  /\ \A r \in Callers : WF_vars(Cancel(r))
FairSpec == Spec /\ Fairness

-----------------------------------------------------------------------------
(* Properties *)

\* Types of the state.
TypeOK ==
  /\ next_assoc_id \in AssocIds
  /\ assoc \in [Assocs -> AssocSteps]
  /\ id \in [Assocs -> AssocIds]
  /\ UDP_SESSIONS \in [AssocIds -> SUBSET Assocs]
  /\ conn \in [ConnIds -> {"unused", "open", "closed"}]
  /\ CONNECTION \in ConnIds \cup {NoConn}
  /\ lock \in Callers \cup {Nobody}
  /\ caller \in [Callers -> CallerSteps]
  /\ got \in [Callers -> ConnIds \cup {NoConn}]
  /\ clashed \subseteq Assocs
  /\ of \in [Packets -> Assocs \cup {Nobody}]
  /\ sessions \subseteq ConnIds \X AssocIds
  /\ answer \in [Packets -> AnswerSteps]
  /\ peers \subseteq Assocs
  /\ late \subseteq AssocIds

\* However many callers race and are cancelled, the connection in the cell is
\* the only open one: none is left behind that no caller can find.
OneConnection ==
  \A k \in ConnIds : conn[k] = "open" => k = CONNECTION

\* No caller can be shut out: the lock belongs to one that is connecting.
LockIsHeld ==
  lock # Nobody => caller[lock] = "connecting"

\* The inductive invariant: the caller that connects has the lock, the connection
\* it is about to replace stays closed until it has, and a packet that is sent or
\* answered has an association and a connection.
ConnectingHasLock ==
  \A r \in Callers : caller[r] = "connecting" => lock = r
ReplacesClosed ==
  lock # Nobody => ~Usable
LiveAreIdle ==
  \A a \in Assocs : assoc[a] = "new" \/ Live(a) => caller[a] = "idle"
PacketsHaveOrigin ==
  \A p \in Packets :
    /\ caller[p] # "idle" => of[p] \in Assocs
    /\ caller[p] = "using" => got[p] \in ConnIds
    /\ answer[p] # "none" => caller[p] = "done" /\ got[p] \in ConnIds
IndInv ==
  /\ TypeOK
  /\ PacketsHaveOrigin
  /\ LiveAreIdle
  /\ LockIsHeld
  /\ ConnectingHasLock
  /\ ReplacesClosed
  /\ OneConnection

\* While no other live association has its ID, an association that relays has
\* the ID's entry, and the unwrap at its end finds it: IDs may wrap, as long as
\* the first association has ended.
SessionIsOwn ==
  \A a \in Assocs \ clashed :
    /\ assoc[a] \in {"open", "closing"} => UDP_SESSIONS[id[a]] = {a}
    /\ assoc[a] # "panicked"

\* UDP_SESSIONS keeps no association that has ended: an answer that comes late
\* is dropped, not sent on a dead session.
NoDeadSession ==
  \A i \in AssocIds : \A a \in UDP_SESSIONS[i] : assoc[a] \in {"open", "closing"} /\ id[a] = i

\* The task of an answer does not panic at the unwrap of its receiver's peer while
\* the association that asked lives and no other live one has its ID: the receiver
\* has sent before. Only the answer to one that has ended may meet an association
\* with the same ID that has not sent yet.
AnswersHavePeer ==
  \A p \in Packets : answer[p] = "panicked" => ~Live(of[p]) \/ of[p] \in clashed

\* The inductive invariant behind SessionIsOwn, NoDeadSession and AnswersHavePeer: two
\* live associations with one ID are both in clashed, and those that asked have been
\* inserted and have a peer.
TwinsClash ==
  \A a, b \in Assocs : a # b /\ Live(a) /\ Live(b) /\ id[a] = id[b] => a \in clashed
OriginsStarted ==
  \A p \in Packets : of[p] \in Assocs => /\ assoc[of[p]] \notin {"new", "accepted"}
                                         /\ Live(of[p]) => of[p] \in peers
SessionInv ==
  /\ TwinsClash
  /\ SessionIsOwn
  /\ NoDeadSession
  /\ OriginsStarted
  /\ AnswersHavePeer

\* The sessions that an open connection counts, and that keep its heartbeats going,
\* are those of associations that have not ended. Exempt are only the IDs of a
\* packet or an answer that came after the end, and of a Dissociate that was not
\* sent (a timeout, a clash of IDs), or was sent on a connection that had been
\* replaced.
SessionsAreActive ==
  \A s \in sessions :
    \/ s[2] \in late
    \/ \E a \in Assocs : /\ id[a] = s[2]
                         /\ assoc[a] \in {"open", "closing", "gone"} /\ ~Over(a)

\* The inductive invariant behind it: a closed connection has no sessions, and only
\* an association that relays, or did, has packets.
SessionsOnOpen == \A s \in sessions : conn[s[1]] = "open"
OriginsRelay ==
  \A p \in Packets : of[p] \in Assocs => assoc[of[p]] \in {"open", "closing", "gone", "panicked"}
ActiveInv == SessionsOnOpen /\ OriginsRelay /\ SessionsAreActive

\* An association whose control connection has closed says so to the server, or
\* fails to within get_conn's timeout, or has panicked on a clash of IDs. Only for
\* the server to let it open a stream does it wait longer, and no longer than the
\* connection is open.
AssociationsEnd ==
  \A a \in Assocs :
    assoc[a] = "closing" \/ (caller[a] = "dissociating" /\ ~AwaitsStream(a))
      ~> assoc[a] = "panicked" \/ caller[a] = "done" \/ AwaitsStream(a)
=============================================================================
