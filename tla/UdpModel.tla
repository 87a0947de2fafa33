------------------------------ MODULE UdpModel ------------------------------
(***************************************************************************)
(* The UDP half of tuic::model::Connection, at both ends of one TUIC       *)
(* connection: UDP sessions keyed by associate ID, the PKT_ID counter of a *)
(* session, the fragments of a packet, their reassembly buffers and the    *)
(* collection of buffers that stay incomplete.                             *)
(*                                                                         *)
(* Fragments travel in QUIC datagrams (native mode) or in one stream each  *)
(* (quic mode): in both they overtake each other, and they may be lost (a  *)
(* datagram, or a stream whose task fails); QUIC never duplicates one.     *)
(* Every packet sent gets a number that only the model knows (its index in *)
(* sent), so that the properties can tell which packet a fragment is of.   *)
(***************************************************************************)
EXTENDS Integers, Sequences, FiniteSets

CONSTANTS
  AssocIds,        \* associate IDs in use on the connection
  PktIdSpace,      \* number of PKT_IDs: 2^16 in the code
  MaxFrags,        \* bound: most fragments of a packet (at most 255 in the code)
  GcLifetime,      \* age at which an incomplete buffer is garbage
  MaxClientSent,   \* bound: packets the client sends
  MaxServerSent,   \* bound: packets the server sends
  MaxDissociates   \* bound: Dissociates the client sends

ASSUME PktIdSpaceAssumption == PktIdSpace \in Nat \ {0}
ASSUME MaxFragsAssumption == MaxFrags \in Nat \ {0}
ASSUME GcLifetimeAssumption == GcLifetime \in Nat
ASSUME MaxSentAssumption == MaxClientSent \in Nat /\ MaxServerSent \in Nat
ASSUME MaxDissociatesAssumption == MaxDissociates \in Nat

Sides == {"client", "server"}
Peer(side) == IF side = "client" THEN "server" ELSE "client"
PktIds == 0 .. PktIdSpace - 1
FragIds == 0 .. MaxFrags - 1
Uids == Nat \ {0}

\* One side's entry of UdpSessions.sessions, and one of UdpSession.pkt_buf.
SessionKeys == Sides \X AssocIds
BufferKeys == Sides \X AssocIds \X PktIds

NoFrag == 0
NoBuffer == [total |-> 0]

\* A Packet header with its payload; addr says whether it carries an address.
Fragments == [dst: Sides, assoc_id: AssocIds, pkt_id: PktIds, frag_total: 1 .. MaxFrags,
              frag_id: FragIds, addr: BOOLEAN, uid: Uids]
\* Faulty: pkt_buf is not told apart by PKT_ID.
KeyWithoutPktId(m) == <<m.dst, m.assoc_id, 0>>
Key(m) == <<m.dst, m.assoc_id, m.pkt_id>>

\* PacketBuffer: data is a slot's payload, told apart by the packet it is of.
Buffers == [total: 1 .. MaxFrags, received: Nat,
            data: [FragIds -> Uids \cup {NoFrag}], age: 0 .. GcLifetime]

\* Packets as the histories below record them, before fragmentation and after.
SentPackets == [key: BufferKeys, total: 1 .. MaxFrags]
Assembled == [key: BufferKeys, total: 1 .. MaxFrags, data: [FragIds -> Uids \cup {NoFrag}]]

VARIABLES
  sessions,      \* keys of UdpSessions.sessions, per side
  next_pkt_id,   \* UdpSession.next_pkt_id
  pkt_buf,       \* UdpSession.pkt_buf
  network,       \* fragments sent and not yet accepted
  accepted,      \* fragments whose Packet<Rx> waits to be assembled
  dissociating,  \* number of Dissociate commands in flight to the server, per ID
  dissociates,   \* number of Dissociates that the client has sent
  sent,          \* history: the packets sent, in order
  delivered,     \* history: the packets assembled, in order
  reused         \* history: buffer keys allocated while an earlier use was alive

vars == <<sessions, next_pkt_id, pkt_buf, network, accepted, dissociating,
          dissociates, sent, delivered, reused>>

-----------------------------------------------------------------------------
(* State of UdpSessions and PacketBuffer *)

NewBuffer(total) ==
  [total |-> total, received |-> 0, data |-> [f \in FragIds |-> NoFrag], age |-> 0]

\* The buffer that entry(pkt_id).or_insert_with finds or makes for fragment m.
BufferFor(m) ==
  IF pkt_buf[Key(m)] = NoBuffer THEN NewBuffer(m.frag_total) ELSE pkt_buf[Key(m)]

\* Faulty: a packet counts as complete one fragment early.
InsertResultEarly(b, m) ==
  IF b.received + 2 >= b.total THEN "Assemblable" ELSE "Incomplete"

\* PacketBuffer::insert's outcome. The slots were sized by the first fragment's
\* frag_total, the checks use this one's: slot frag_id may not exist.
InsertResult(b, m) ==
  IF m.frag_id >= m.frag_total THEN "InvalidFragmentId"
  ELSE IF (m.frag_id = 0) # m.addr THEN "InvalidAddress"
  ELSE IF m.frag_id >= b.total THEN "IndexOutOfBounds"
  ELSE IF b.data[m.frag_id] # NoFrag THEN "DuplicatedFragment"
  ELSE IF b.received + 1 = b.total THEN "Assemblable"
  ELSE "Incomplete"

Store(b, m) ==
  [total |-> b.total, received |-> b.received + 1,
   data |-> [b.data EXCEPT ![m.frag_id] = m.uid], age |-> b.age]

\* UdpSession::send_packet's fetch_add on an AtomicU16.
FetchAdd(id) == (id + 1) % PktIdSpace

\* Faulty: every fragment carries the address.
FragmentWithAddress(key, n, f, uid) ==
  [dst |-> key[1], assoc_id |-> key[2], pkt_id |-> key[3], frag_total |-> n,
   frag_id |-> f, addr |-> TRUE, uid |-> uid]

\* What Fragments::next makes of fragment f of n: only the first has the address.
Fragment(key, n, f, uid) ==
  [dst |-> key[1], assoc_id |-> key[2], pkt_id |-> key[3], frag_total |-> n,
   frag_id |-> f, addr |-> (f = 0), uid |-> uid]

\* A piece of an earlier packet that a new packet with key k could meet.
Alive(k) ==
  \/ pkt_buf[k] # NoBuffer
  \/ \E m \in network \cup accepted : Key(m) = k

SentBy(side) == {u \in 1 .. Len(sent) : sent[u].key[1] = Peer(side)}
MaySend(side) ==
  Cardinality(SentBy(side)) < IF side = "client" THEN MaxClientSent ELSE MaxServerSent

Init ==
  /\ sessions = {}
  /\ next_pkt_id = [k \in SessionKeys |-> 0]
  /\ pkt_buf = [k \in BufferKeys |-> NoBuffer]
  /\ network = {}
  /\ accepted = {}
  /\ dissociating = [a \in AssocIds |-> 0]
  /\ dissociates = 0
  /\ sent = <<>>
  /\ delivered = <<>>
  /\ reused = {}

-----------------------------------------------------------------------------
(* Actions *)

\* send_packet, then packet_native or packet_quic for every fragment. The
\* server relays only what came in on a socket that some packet of the client
\* opened. A fragment that is never sent is one that the network loses.
SendPacket(side, a, n) ==
  LET id == next_pkt_id[<<side, a>>]
      key == <<Peer(side), a, id>>
      uid == Len(sent) + 1
  IN  /\ MaySend(side)
      /\ side = "server" => \E i \in 1 .. Len(delivered) : delivered[i].key[1] = "server"
                                                        /\ delivered[i].key[2] = a
      /\ sessions' = sessions \cup {<<side, a>>}
      /\ next_pkt_id' = [next_pkt_id EXCEPT ![<<side, a>>] = FetchAdd(id)]
      /\ network' = network \cup {Fragment(key, n, f, uid) : f \in 0 .. n - 1}
      /\ sent' = Append(sent, [key |-> key, total |-> n])
      /\ reused' = IF Alive(key) THEN reused \cup {key} ELSE reused
      /\ UNCHANGED <<pkt_buf, accepted, dissociating, dissociates, delivered>>

\* accept_datagram or accept_uni_stream: the server makes the session that is
\* missing (recv_packet_unrestricted), the client drops the fragment
\* (recv_packet gives None, the caller InvalidUdpSession).
RecvPacket(m) ==
  /\ m \in network
  /\ network' = network \ {m}
  /\ IF m.dst = "client" /\ <<m.dst, m.assoc_id>> \notin sessions
       THEN UNCHANGED <<sessions, accepted>>
       ELSE /\ sessions' = sessions \cup {<<m.dst, m.assoc_id>>}
            /\ accepted' = accepted \cup {m}
  /\ UNCHANGED <<next_pkt_id, pkt_buf, dissociating, dissociates, sent, delivered, reused>>

\* Packet::accept, which ends in Packet<Rx>::assemble: UdpSessions::insert makes
\* the session if it has gone, UdpSession::insert the buffer, which an error leaves.
Assemble(m) ==
  LET b == BufferFor(m)
      res == InsertResult(b, m)
  IN  /\ m \in accepted
      /\ accepted' = accepted \ {m}
      /\ sessions' = sessions \cup {<<m.dst, m.assoc_id>>}
      /\ pkt_buf' = [pkt_buf EXCEPT ![Key(m)] =
                       CASE res = "Assemblable" -> NoBuffer
                         [] res = "Incomplete" -> Store(b, m)
                         [] OTHER -> b]
      /\ delivered' = IF res = "Assemblable"
                        THEN Append(delivered, [key |-> Key(m), total |-> b.total,
                                                data |-> Store(b, m).data])
                        ELSE delivered
      /\ UNCHANGED <<next_pkt_id, network, dissociating, dissociates, sent, reused>>

\* What HashMap::remove(&assoc_id) does to side's model: the session goes with
\* its buffers, and the next session with this ID counts from 0 again.
RemoveSession(side, a) ==
  /\ sessions' = sessions \ {<<side, a>>}
  /\ next_pkt_id' = [next_pkt_id EXCEPT ![<<side, a>>] = 0]
  /\ pkt_buf' = [k \in BufferKeys |->
                   IF k[1] = side /\ k[2] = a THEN NoBuffer ELSE pkt_buf[k]]

\* Connection::dissociate of the client: an association with this ID has ended.
SendDissociate(a) ==
  /\ dissociates < MaxDissociates
  /\ RemoveSession("client", a)
  /\ dissociating' = [dissociating EXCEPT ![a] = @ + 1]
  /\ dissociates' = dissociates + 1
  /\ UNCHANGED <<network, accepted, sent, delivered, reused>>

\* accept_uni_stream of the server reads a Dissociate.
RecvDissociate(a) ==
  /\ dissociating[a] > 0
  /\ RemoveSession("server", a)
  /\ dissociating' = [dissociating EXCEPT ![a] = @ - 1]
  /\ UNCHANGED <<network, accepted, dissociates, sent, delivered, reused>>

\* Faulty: retains the old buffers and drops the young.
CollectYoung(side) ==
  /\ pkt_buf' = [k \in BufferKeys |->
                   IF k[1] = side /\ pkt_buf[k] # NoBuffer /\ pkt_buf[k].age < GcLifetime
                   THEN NoBuffer ELSE pkt_buf[k]]
  /\ UNCHANGED <<sessions, next_pkt_id, network, accepted, dissociating,
                 dissociates, sent, delivered, reused>>

\* collect_garbage on one side: retain the buffers younger than the lifetime.
CollectGarbage(side) ==
  /\ pkt_buf' = [k \in BufferKeys |->
                   IF /\ k[1] = side
                      /\ pkt_buf[k] # NoBuffer
                      /\ pkt_buf[k].age >= GcLifetime
                   THEN NoBuffer ELSE pkt_buf[k]]
  /\ UNCHANGED <<sessions, next_pkt_id, network, accepted, dissociating,
                 dissociates, sent, delivered, reused>>

\* The clock behind c_time.elapsed().
Elapse ==
  /\ pkt_buf' = [k \in BufferKeys |->
                   IF pkt_buf[k] # NoBuffer /\ pkt_buf[k].age < GcLifetime
                   THEN [pkt_buf[k] EXCEPT !.age = pkt_buf[k].age + 1] ELSE pkt_buf[k]]
  /\ UNCHANGED <<sessions, next_pkt_id, network, accepted, dissociating,
                 dissociates, sent, delivered, reused>>

\* A datagram is lost, or the task of a fragment's stream fails.
Lose(m) ==
  /\ m \in network
  /\ network' = network \ {m}
  /\ UNCHANGED <<sessions, next_pkt_id, pkt_buf, accepted, dissociating,
                 dissociates, sent, delivered, reused>>

Next ==
  \/ \E side \in Sides, a \in AssocIds, n \in 1 .. MaxFrags : SendPacket(side, a, n)
  \/ \E m \in network : RecvPacket(m)
  \/ \E m \in accepted : Assemble(m)
  \/ \E a \in AssocIds : SendDissociate(a)
  \/ \E a \in AssocIds : RecvDissociate(a)
  \/ \E side \in Sides : CollectGarbage(side)
  \/ Elapse
  \/ \E m \in network : Lose(m)

Spec == Init /\ [][Next]_vars

\* Both programs run collect_garbage on a timer for as long as the connection
\* lives, and time passes. Nothing is assumed of the peer or of the network.
Fairness == WF_vars(Elapse) /\ \A side \in Sides : WF_vars(CollectGarbage(side))
FairSpec == Spec /\ Fairness

-----------------------------------------------------------------------------
(* Properties *)

\* Types of the state: sessions and buffers are where HashMap entries can be.
TypeOK ==
  /\ sessions \subseteq SessionKeys
  /\ next_pkt_id \in [SessionKeys -> PktIds]
  /\ pkt_buf \in [BufferKeys -> Buffers \cup {NoBuffer}]
  /\ network \subseteq Fragments
  /\ accepted \subseteq Fragments
  /\ dissociating \in [AssocIds -> Nat]
  /\ dissociates \in Nat
  /\ sent \in Seq(SentPackets)
  /\ delivered \in Seq(Assembled)
  /\ reused \subseteq BufferKeys

\* Packet d is packet u of sent: every slot holds the fragment of u with that number.
Whole(d, u) ==
  /\ sent[u] = [key |-> d.key, total |-> d.total]
  /\ \A f \in FragIds : d.data[f] = IF f < d.total THEN u ELSE NoFrag

\* Assemblable::assemble unwraps every slot: whatever mix of fragments filled a
\* buffer, an assembled packet has each of its slots filled.
AssembledIsComplete ==
  \A i \in 1 .. Len(delivered) :
    \A f \in 0 .. delivered[i].total - 1 : delivered[i].data[f] # NoFrag

\* What is assembled is one packet that the peer sent, with its own address
\* (fragment 0's), unless its PKT_ID was given to a new packet while pieces of
\* an older one were in flight or in a buffer.
NoMixing ==
  \A i \in 1 .. Len(delivered) :
    delivered[i].key \notin reused => \E u \in 1 .. Len(sent) : Whole(delivered[i], u)

\* Under the same condition no fragment that is accepted is turned away: its
\* slot exists (no index out of bounds) and is free (no DuplicatedFragment).
FragmentsFit ==
  \A m \in accepted :
    Key(m) \notin reused => InsertResult(BufferFor(m), m) \in {"Assemblable", "Incomplete"}

\* The inductive invariant behind NoMixing and FragmentsFit, in parts.

Live == network \cup accepted

\* A fragment under way is a fragment of a packet sent, and in one place only.
FragmentsAreSent ==
  /\ network \cap accepted = {}
  /\ \A m \in Live : /\ m.uid \in 1 .. Len(sent)
                     /\ sent[m.uid] = [key |-> Key(m), total |-> m.frag_total]
                     /\ m.frag_id < m.frag_total
                     /\ m.addr = (m.frag_id = 0)

Filled(data) == {f \in FragIds : data[f] # NoFrag}

\* frag_received counts the filled slots, all of them inside the Vec, and a
\* buffer that is kept lacks a fragment.
BuffersAreIncomplete ==
  \A k \in BufferKeys : pkt_buf[k] # NoBuffer =>
    /\ \A f \in Filled(pkt_buf[k].data) : f < pkt_buf[k].total
    /\ pkt_buf[k].received = Cardinality(Filled(pkt_buf[k].data))
    /\ pkt_buf[k].received < pkt_buf[k].total

\* All that is alive under key k is of packet u.
Owns(u, k) ==
  /\ \A m \in Live : Key(m) = k => m.uid = u
  /\ pkt_buf[k] # NoBuffer =>
       /\ u \in 1 .. Len(sent)
       /\ sent[u] = [key |-> k, total |-> pkt_buf[k].total]
       /\ \A f \in FragIds : pkt_buf[k].data[f] \in {NoFrag, u}

\* Outside reused, a key belongs to one packet and no fragment of it is in two places.
KeysAreOwned ==
  \A k \in BufferKeys \ reused :
    /\ \E u \in 1 .. Len(sent) + 1 : Owns(u, k)
    /\ \A m \in Live : Key(m) = k /\ pkt_buf[k] # NoBuffer => pkt_buf[k].data[m.frag_id] = NoFrag

IndInv ==
  /\ TypeOK
  /\ FragmentsAreSent
  /\ BuffersAreIncomplete
  /\ KeysAreOwned
  /\ AssembledIsComplete
  /\ NoMixing

\* An incomplete buffer does not stay: it is completed, goes with its session or
\* is collected ("Removes fragments that can not be reassembled").
IncompleteIsCollected ==
  \A k \in BufferKeys : pkt_buf[k] # NoBuffer ~> pkt_buf[k] = NoBuffer

\* UdpModel implements PacketDelivery: packets arrive whole and at most once.
Arrived(d) ==
  IF \E u \in 1 .. Len(sent) : Whole(d, u)
  THEN CHOOSE u \in 1 .. Len(sent) : Whole(d, u) ELSE 0
Arrivals == [i \in 1 .. Len(delivered) |-> Arrived(delivered[i])]
Delivery == INSTANCE PacketDelivery WITH arrived <- Arrivals, ambiguous <- reused
ImplementsDelivery == Delivery!DeliverySpec

\* The inductive invariant behind it: the first fragment of a packet is in one place
\* at most, on its way, in one buffer or in one packet assembled.
FirstInBuffer(k) == IF pkt_buf[k] = NoBuffer THEN NoFrag ELSE pkt_buf[k].data[0]
FirstUnderWay ==
  \A m \in Live : m.frag_id = 0 =>
    /\ \A k \in BufferKeys : FirstInBuffer(k) # m.uid
    /\ \A i \in 1 .. Len(delivered) : delivered[i].data[0] # m.uid
FirstBuffered ==
  \A k \in BufferKeys : FirstInBuffer(k) # NoFrag =>
    /\ FirstInBuffer(k) \in 1 .. Len(sent)
    /\ \A j \in BufferKeys : j # k => FirstInBuffer(j) # FirstInBuffer(k)
    /\ \A i \in 1 .. Len(delivered) : delivered[i].data[0] # FirstInBuffer(k)
FirstAssembled ==
  \A i \in 1 .. Len(delivered) :
    /\ delivered[i].data[0] \in 1 .. Len(sent)
    /\ \A j \in 1 .. Len(delivered) : j # i => delivered[j].data[0] # delivered[i].data[0]
FirstIsOnce == FirstUnderWay /\ FirstBuffered /\ FirstAssembled
=============================================================================
