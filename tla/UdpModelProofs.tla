--------------------------- MODULE UdpModelProofs ---------------------------
(* Proofs about UdpModel, for every value of its constants. *)
EXTENDS UdpModel, FiniteSetTheorems, SequenceTheorems, TLAPS

\* The absent buffer is none of the buffers.
LEMMA NoBufferIsNone == NoBuffer \notin Buffers
  BY MaxFragsAssumption DEF NoBuffer, Buffers

LEMMA InitTypeOK == Init => TypeOK
  BY PktIdSpaceAssumption DEF Init, TypeOK, PktIds, SessionKeys, BufferKeys

\* A fragment that SendPacket puts on the network.
LEMMA SentFragmentType ==
  ASSUME NEW key \in BufferKeys, NEW n \in 1 .. MaxFrags, NEW f \in 0 .. n - 1, NEW u \in Uids
  PROVE  /\ Fragment(key, n, f, u) \in Fragments
         /\ Key(Fragment(key, n, f, u)) = key
  BY MaxFragsAssumption DEF Fragment, Key, Fragments, FragIds, BufferKeys

\* PacketBuffer::new and PacketBuffer::insert give buffers.
LEMMA BufferTypes ==
  ASSUME TypeOK, NEW m \in accepted
  PROVE  /\ m \in Fragments
         /\ Key(m) \in BufferKeys
         /\ <<m.dst, m.assoc_id>> \in SessionKeys
         /\ BufferFor(m) \in Buffers
         /\ Store(BufferFor(m), m) \in Buffers
<1>1. /\ m \in Fragments
      /\ Key(m) \in BufferKeys
      /\ <<m.dst, m.assoc_id>> \in SessionKeys
      /\ m.uid \in Uids
      /\ m.frag_id \in FragIds
      /\ m.frag_total \in 1 .. MaxFrags
  BY DEF TypeOK, Fragments, Key, BufferKeys, SessionKeys
<1>2. NewBuffer(m.frag_total) \in Buffers
  BY <1>1, GcLifetimeAssumption, MaxFragsAssumption DEF NewBuffer, Buffers
<1>3. BufferFor(m) \in Buffers
  BY <1>1, <1>2 DEF BufferFor, TypeOK
<1>4. Store(BufferFor(m), m) \in Buffers
  BY <1>1, <1>3 DEF Store, Buffers
<1>. QED BY <1>1, <1>3, <1>4

\* Types are preserved by every step.
LEMMA NextTypeOK == TypeOK /\ [Next]_vars => TypeOK'
<1>. SUFFICES ASSUME TypeOK, [Next]_vars PROVE TypeOK'
  OBVIOUS
<1>1. CASE UNCHANGED vars
  BY <1>1 DEF TypeOK, vars
<1>2. ASSUME NEW side \in Sides, NEW a \in AssocIds, NEW n \in 1 .. MaxFrags, SendPacket(side, a, n)
      PROVE  TypeOK'
  <2>1. <<side, a>> \in SessionKeys /\ next_pkt_id[<<side, a>>] \in PktIds
    BY DEF TypeOK, SessionKeys
  <2>2. <<Peer(side), a, next_pkt_id[<<side, a>>]>> \in BufferKeys
    BY <2>1 DEF BufferKeys, Peer, Sides
  <2>. DEFINE key == <<Peer(side), a, next_pkt_id[<<side, a>>]>>
  <2>3. FetchAdd(next_pkt_id[<<side, a>>]) \in PktIds
    BY <2>1, PktIdSpaceAssumption DEF PktIds, FetchAdd
  <2>4. Len(sent) + 1 \in Uids
    BY DEF TypeOK, Uids
  <2>5. \A f \in 0 .. n - 1 : Fragment(key, n, f, Len(sent) + 1) \in Fragments
    BY <2>2, <2>4, SentFragmentType
  <2>6. network' = network \cup {Fragment(key, n, f, Len(sent) + 1) : f \in 0 .. n - 1}
    BY <1>2 DEF SendPacket
  <2>7. network' \subseteq Fragments
    BY <2>5, <2>6 DEF TypeOK
  <2>8. sent' \in Seq(SentPackets)
    BY <1>2, <2>2 DEF SendPacket, TypeOK, SentPackets
  <2>9. next_pkt_id' \in [SessionKeys -> PktIds]
    BY <1>2, <2>3 DEF SendPacket, TypeOK
  <2>10. reused' \subseteq BufferKeys /\ sessions' \subseteq SessionKeys
    BY <1>2, <2>1, <2>2 DEF SendPacket, TypeOK
  <2>11. UNCHANGED <<pkt_buf, accepted, dissociating, dissociates, delivered>>
    BY <1>2 DEF SendPacket
  <2>. QED BY <2>7, <2>8, <2>9, <2>10, <2>11 DEF TypeOK
<1>3. ASSUME NEW m \in network, RecvPacket(m) PROVE TypeOK'
  <2>1. m \in Fragments /\ <<m.dst, m.assoc_id>> \in SessionKeys
    BY DEF TypeOK, Fragments, SessionKeys
  <2>. QED BY <1>3, <2>1 DEF RecvPacket, TypeOK
<1>4. ASSUME NEW m \in accepted, Assemble(m) PROVE TypeOK'
  <2>. DEFINE b == BufferFor(m)
              d == [key |-> Key(m), total |-> b.total, data |-> Store(b, m).data]
  <2>1. /\ Key(m) \in BufferKeys
        /\ <<m.dst, m.assoc_id>> \in SessionKeys
        /\ b \in Buffers
        /\ Store(b, m) \in Buffers
    BY BufferTypes
  <2>2. pkt_buf' \in [BufferKeys -> Buffers \cup {NoBuffer}]
    BY <1>4, <2>1 DEF Assemble, TypeOK
  <2>3. d \in Assembled
    BY <2>1 DEF Buffers, Assembled
  <2>4. delivered' \in Seq(Assembled)
    <3>1. delivered' \in {delivered, Append(delivered, d)}
      BY <1>4 DEF Assemble
    <3>2. delivered \in Seq(Assembled)
      BY DEF TypeOK
    <3>. QED BY <2>3, <3>1, <3>2
  <2>5. /\ sessions' \subseteq SessionKeys
        /\ accepted' \subseteq Fragments
    BY <1>4, <2>1 DEF Assemble, TypeOK
  <2>. QED BY <1>4, <2>2, <2>4, <2>5 DEF Assemble, TypeOK
<1>5. ASSUME NEW side \in Sides, NEW a \in AssocIds, RemoveSession(side, a)
      PROVE  /\ sessions' \subseteq SessionKeys
             /\ next_pkt_id' \in [SessionKeys -> PktIds]
             /\ pkt_buf' \in [BufferKeys -> Buffers \cup {NoBuffer}]
  BY <1>5, PktIdSpaceAssumption DEF RemoveSession, TypeOK, SessionKeys, PktIds
<1>6. ASSUME NEW a \in AssocIds, SendDissociate(a) PROVE TypeOK'
  <2>1. "client" \in Sides
    BY DEF Sides
  <2>. QED BY <1>5, <1>6, <2>1 DEF SendDissociate, TypeOK
<1>7. ASSUME NEW a \in AssocIds, RecvDissociate(a) PROVE TypeOK'
  <2>1. "server" \in Sides
    BY DEF Sides
  <2>. QED BY <1>5, <1>7, <2>1 DEF RecvDissociate, TypeOK
<1>8. ASSUME NEW side \in Sides, CollectGarbage(side) PROVE TypeOK'
  BY <1>8 DEF CollectGarbage, TypeOK
<1>9. CASE Elapse
  <2>1. ASSUME NEW b \in Buffers, b.age < GcLifetime
        PROVE  [b EXCEPT !.age = b.age + 1] \in Buffers
    BY <2>1, GcLifetimeAssumption DEF Buffers
  <2>. QED BY <1>9, <2>1 DEF Elapse, TypeOK
<1>10. ASSUME NEW m \in network, Lose(m) PROVE TypeOK'
  BY <1>10 DEF Lose, TypeOK
<1>. QED BY <1>1, <1>2, <1>3, <1>4, <1>6, <1>7, <1>8, <1>9, <1>10 DEF Next

\* Every reachable state of the two models has the types of TypeOK.
THEOREM TypeCorrect == Spec => []TypeOK
  BY InitTypeOK, NextTypeOK, PTL DEF Spec

-----------------------------------------------------------------------------
(* The inductive invariant *)

\* A step that sends and assembles nothing: fragments under way only get fewer,
\* and a buffer is what it was, but for its age, or gone.
Shrinks ==
  /\ network' \cup accepted' \subseteq Live
  /\ network' \cap accepted' = {}
  /\ \A k \in BufferKeys : pkt_buf'[k] # NoBuffer =>
       /\ pkt_buf[k] # NoBuffer
       /\ pkt_buf'[k].total = pkt_buf[k].total
       /\ pkt_buf'[k].received = pkt_buf[k].received
       /\ pkt_buf'[k].data = pkt_buf[k].data
  /\ UNCHANGED <<sent, delivered, reused>>

\* Such steps keep the invariant: it says nothing that more pieces are needed for.
LEMMA ShrinksPreserves ==
  ASSUME IndInv, TypeOK', Shrinks
  PROVE  IndInv'
<1>1. FragmentsAreSent'
  BY DEF IndInv, Shrinks, FragmentsAreSent, Live, Key
<1>2. BuffersAreIncomplete'
  BY DEF IndInv, Shrinks, BuffersAreIncomplete, Filled
<1>3. KeysAreOwned'
  <2>. SUFFICES ASSUME NEW k \in BufferKeys, k \notin reused'
                PROVE  /\ \E u \in 1 .. Len(sent') + 1 : Owns(u, k)'
                       /\ \A m \in Live' : Key(m) = k /\ pkt_buf'[k] # NoBuffer
                                            => pkt_buf'[k].data[m.frag_id] = NoFrag
    BY DEF KeysAreOwned, Key
  <2>1. PICK u \in 1 .. Len(sent) + 1 : Owns(u, k)
    BY DEF IndInv, Shrinks, KeysAreOwned
  <2>2. Owns(u, k)'
    <3>1. \A m \in Live' : Key(m) = k => m.uid = u
      BY <2>1 DEF Shrinks, Owns, Live
    <3>2. pkt_buf'[k] # NoBuffer => /\ u \in 1 .. Len(sent')
                                    /\ sent'[u] = [key |-> k, total |-> pkt_buf'[k].total]
                                    /\ \A f \in FragIds : pkt_buf'[k].data[f] \in {NoFrag, u}
      BY <2>1 DEF Shrinks, Owns
    <3>. QED BY <3>1, <3>2 DEF Owns, Key
  <2>3. u \in 1 .. Len(sent') + 1
    BY DEF Shrinks
  <2>4. \A m \in Live' : Key(m) = k /\ pkt_buf'[k] # NoBuffer
                          => pkt_buf'[k].data[m.frag_id] = NoFrag
    BY DEF IndInv, Shrinks, KeysAreOwned, Live
  <2>. QED BY <2>2, <2>3, <2>4
<1>4. AssembledIsComplete' /\ NoMixing'
  BY DEF IndInv, Shrinks, AssembledIsComplete, NoMixing, Whole
<1>. QED BY <1>1, <1>2, <1>3, <1>4 DEF IndInv

LEMMA SendPacketPreserves ==
  ASSUME IndInv, TypeOK',
         NEW side \in Sides, NEW a \in AssocIds, NEW n \in 1 .. MaxFrags, SendPacket(side, a, n)
  PROVE  IndInv'
<1>. DEFINE key == <<Peer(side), a, next_pkt_id[<<side, a>>]>>
<1>. PICK uid : uid = Len(sent) + 1
  OBVIOUS
<1>. DEFINE new == {Fragment(key, n, f, uid) : f \in 0 .. n - 1}
<1>1. TypeOK
  BY DEF IndInv
<1>2. key \in BufferKeys
  <2>1. <<side, a>> \in SessionKeys /\ next_pkt_id[<<side, a>>] \in PktIds
    BY <1>1 DEF TypeOK, SessionKeys
  <2>. QED BY <2>1 DEF BufferKeys, Peer, Sides
<1>3. /\ network' = network \cup new
      /\ accepted' = accepted
      /\ pkt_buf' = pkt_buf
      /\ delivered' = delivered
      /\ sent' = Append(sent, [key |-> key, total |-> n])
      /\ reused' = IF Alive(key) THEN reused \cup {key} ELSE reused
  BY DEF SendPacket
<1>4. /\ Len(sent) \in Nat
      /\ Len(sent') = Len(sent) + 1
      /\ sent'[uid] = [key |-> key, total |-> n]
      /\ \A u \in 1 .. Len(sent) : sent'[u] = sent[u]
  BY <1>1, <1>2, <1>3 DEF TypeOK, SentPackets
<1>5. \A m \in new : /\ m.uid = uid
                     /\ Key(m) = key
                     /\ m.frag_total = n
                     /\ m.frag_id \in 0 .. n - 1
                     /\ m.addr = (m.frag_id = 0)
  BY <1>2 DEF Fragment, Key, BufferKeys
<1>6. \A m \in Live : m.uid \in 1 .. Len(sent)
  BY DEF IndInv, FragmentsAreSent
<1>7. Live' = Live \cup new
  BY <1>3 DEF Live
<1>. HIDE DEF key, new
<1>8. FragmentsAreSent'
  <2>1. uid \notin 1 .. Len(sent)
    BY <1>4
  <2>2. network' \cap accepted' = {}
    BY <1>3, <1>5, <1>6, <2>1 DEF IndInv, FragmentsAreSent, Live
  <2>3. ASSUME NEW m \in Live'
        PROVE  /\ m.uid \in 1 .. Len(sent')
               /\ sent'[m.uid] = [key |-> Key(m), total |-> m.frag_total]
               /\ m.frag_id < m.frag_total
               /\ m.addr = (m.frag_id = 0)
    <3>1. CASE m \in Live
      BY <3>1, <1>4 DEF IndInv, FragmentsAreSent
    <3>2. CASE m \in new
      BY <3>2, <1>4, <1>5
    <3>. QED BY <1>7, <3>1, <3>2
  <2>. QED BY <2>2, <2>3 DEF FragmentsAreSent, Key
<1>9. BuffersAreIncomplete'
  BY <1>3 DEF IndInv, BuffersAreIncomplete, Filled
<1>10. KeysAreOwned'
  <2>. SUFFICES ASSUME NEW k \in BufferKeys, k \notin reused'
                PROVE  /\ \E u \in 1 .. Len(sent') + 1 : Owns(u, k)'
                       /\ \A m \in Live' : Key(m) = k /\ pkt_buf'[k] # NoBuffer
                                            => pkt_buf'[k].data[m.frag_id] = NoFrag
    BY DEF KeysAreOwned, Key
  <2>1. k \notin reused
    BY <1>3
  <2>2. CASE k = key
    <3>1. pkt_buf[k] = NoBuffer /\ \A m \in Live : Key(m) # k
      BY <1>3, <2>2 DEF Alive, Live
    <3>2. \A m \in Live' : Key(m) = k => m.uid = uid
      BY <1>5, <1>7, <3>1
    <3>4. Owns(uid, k)'
      BY <1>3, <3>1, <3>2 DEF Owns, Key
    <3>3. uid \in 1 .. Len(sent') + 1
      BY <1>4
    <3>. QED BY <1>3, <3>1, <3>3, <3>4
  <2>3. CASE k # key
    <3>1. PICK u \in 1 .. Len(sent) + 1 : Owns(u, k)
      BY <2>1 DEF IndInv, KeysAreOwned
    <3>2. \A m \in Live' : Key(m) = k => m \in Live
      BY <1>5, <1>7, <2>3
    <3>3. \A m \in Live' : Key(m) = k => m.uid = u
      BY <3>1, <3>2 DEF Owns
    <3>4. pkt_buf[k] # NoBuffer => /\ u \in 1 .. Len(sent')
                                   /\ sent'[u] = [key |-> k, total |-> pkt_buf[k].total]
                                   /\ \A f \in FragIds : pkt_buf[k].data[f] \in {NoFrag, u}
      BY <1>4, <3>1 DEF Owns
    <3>5. Owns(u, k)'
      BY <1>3, <3>3, <3>4 DEF Owns, Key
    <3>6. u \in 1 .. Len(sent') + 1
      BY <1>4
    <3>. QED BY <1>3, <2>1, <3>2, <3>5, <3>6 DEF IndInv, KeysAreOwned
  <2>. QED BY <2>2, <2>3
<1>11. AssembledIsComplete'
  BY <1>3 DEF IndInv, AssembledIsComplete
<1>12. NoMixing'
  <2>. SUFFICES ASSUME NEW i \in 1 .. Len(delivered), delivered[i].key \notin reused'
                PROVE  \E u \in 1 .. Len(sent') : Whole(delivered[i], u)'
    BY <1>3 DEF NoMixing, Whole
  <2>1. delivered[i].key \notin reused
    BY <1>3
  <2>2. PICK u \in 1 .. Len(sent) : Whole(delivered[i], u)
    BY <2>1 DEF IndInv, NoMixing
  <2>3. u \in 1 .. Len(sent') /\ Whole(delivered[i], u)'
    BY <1>3, <1>4, <2>2 DEF Whole
  <2>. QED BY <2>3
<1>. QED BY <1>8, <1>9, <1>10, <1>11, <1>12 DEF IndInv

\* Storing a fragment in a free slot fills that slot and no other.
LEMMA StoreFills ==
  ASSUME NEW b \in Buffers, NEW m \in Fragments,
         \A f \in Filled(b.data) : f < b.total,
         b.received = Cardinality(Filled(b.data)),
         m.frag_id < b.total, b.data[m.frag_id] = NoFrag
  PROVE  /\ Filled(Store(b, m).data) = Filled(b.data) \cup {m.frag_id}
         /\ \A f \in Filled(Store(b, m).data) : f < b.total
         /\ Store(b, m).received = Cardinality(Filled(Store(b, m).data))
<1>1. m.frag_id \in FragIds /\ m.uid # NoFrag
  BY DEF Fragments, Uids, NoFrag
<1>2. \A f \in FragIds : Store(b, m).data[f] = IF f = m.frag_id THEN m.uid ELSE b.data[f]
  BY DEF Store, Buffers
<1>3. Filled(Store(b, m).data) = Filled(b.data) \cup {m.frag_id}
  BY <1>1, <1>2 DEF Filled
<1>4. IsFiniteSet(Filled(b.data)) /\ m.frag_id \notin Filled(b.data)
  <2>1. IsFiniteSet(FragIds)
    BY FS_Interval, MaxFragsAssumption DEF FragIds
  <2>. QED BY <2>1, FS_Subset DEF Filled
<1>5. Cardinality(Filled(b.data) \cup {m.frag_id}) = Cardinality(Filled(b.data)) + 1
  BY <1>4, FS_AddElement
<1>. QED BY <1>3, <1>5 DEF Store

\* A buffer whose count reaches its total has every slot filled.
LEMMA FullIsComplete ==
  ASSUME NEW total \in 1 .. MaxFrags, NEW data,
         \A f \in Filled(data) : f < total,
         Cardinality(Filled(data)) = total
  PROVE  \A f \in 0 .. total - 1 : data[f] # NoFrag
<1>1. IsFiniteSet(0 .. total - 1) /\ Cardinality(0 .. total - 1) = total
  BY FS_Interval, MaxFragsAssumption
<1>2. Filled(data) \subseteq 0 .. total - 1
  BY MaxFragsAssumption DEF Filled, FragIds
<1>3. Filled(data) = 0 .. total - 1
  BY <1>1, <1>2, FS_Subset
<1>. QED BY <1>3 DEF Filled

\* What a fragment under way finds, by the invariant: a buffer that lacks a
\* fragment and, outside reused, is its packet's own and has its slot free.
LEMMA FragmentMeetsBuffer ==
  ASSUME IndInv, NEW m \in accepted
  PROVE  /\ \A f \in Filled(BufferFor(m).data) : f < BufferFor(m).total
         /\ BufferFor(m).received = Cardinality(Filled(BufferFor(m).data))
         /\ BufferFor(m).received < BufferFor(m).total
         /\ Key(m) \notin reused =>
              /\ BufferFor(m).total = m.frag_total
              /\ BufferFor(m).data[m.frag_id] = NoFrag
              /\ \A f \in FragIds : BufferFor(m).data[f] \in {NoFrag, m.uid}
<1>1. m \in Fragments /\ Key(m) \in BufferKeys /\ m \in Live
  BY BufferTypes DEF IndInv, Live
<1>2. CASE pkt_buf[Key(m)] = NoBuffer
  <2>1. BufferFor(m) = NewBuffer(m.frag_total)
    BY <1>2 DEF BufferFor
  <2>2. Filled(BufferFor(m).data) = {}
    BY <2>1 DEF NewBuffer, Filled
  <2>3. Cardinality(Filled(BufferFor(m).data)) = 0
    BY <2>2, FS_EmptySet
  <2>. QED BY <1>1, <2>1, <2>2, <2>3 DEF NewBuffer, Fragments
<1>3. CASE pkt_buf[Key(m)] # NoBuffer
  <2>1. BufferFor(m) = pkt_buf[Key(m)]
    BY <1>3 DEF BufferFor
  <2>2. ASSUME Key(m) \notin reused
        PROVE  /\ BufferFor(m).total = m.frag_total
               /\ BufferFor(m).data[m.frag_id] = NoFrag
               /\ \A f \in FragIds : BufferFor(m).data[f] \in {NoFrag, m.uid}
    <3>1. PICK u \in 1 .. Len(sent) + 1 : Owns(u, Key(m))
      BY <1>1, <2>2 DEF IndInv, KeysAreOwned
    <3>2. m.uid = u
      BY <1>1, <3>1 DEF Owns
    <3>3. sent[u] = [key |-> Key(m), total |-> m.frag_total]
      BY <1>1, <3>2 DEF IndInv, FragmentsAreSent
    <3>4. sent[u] = [key |-> Key(m), total |-> BufferFor(m).total]
      BY <1>3, <2>1, <3>1 DEF Owns
    <3>5. BufferFor(m).total = m.frag_total
      BY <3>3, <3>4
    <3>6. BufferFor(m).data[m.frag_id] = NoFrag
      BY <1>1, <1>3, <2>1, <2>2 DEF IndInv, KeysAreOwned
    <3>. QED BY <1>3, <2>1, <3>1, <3>2, <3>5, <3>6 DEF Owns
  <2>. QED BY <1>1, <1>3, <2>1, <2>2 DEF IndInv, BuffersAreIncomplete
<1>. QED BY <1>2, <1>3

LEMMA AssemblePreserves ==
  ASSUME IndInv, TypeOK', NEW m \in accepted, Assemble(m)
  PROVE  IndInv'
<1>. PICK k : k = Key(m)
  OBVIOUS
<1>. PICK b : b = BufferFor(m)
  OBVIOUS
<1>. PICK res : res = InsertResult(b, m)
  OBVIOUS
<1>. PICK d : d = [key |-> k, total |-> b.total, data |-> Store(b, m).data]
  OBVIOUS
<1>1. /\ TypeOK
      /\ m \in Fragments
      /\ k \in BufferKeys
      /\ b \in Buffers
      /\ Store(b, m) \in Buffers
  BY BufferTypes DEF IndInv
<1>2. /\ \A f \in Filled(b.data) : f < b.total
      /\ b.received = Cardinality(Filled(b.data))
      /\ b.received < b.total
      /\ k \notin reused => /\ b.total = m.frag_total
                            /\ b.data[m.frag_id] = NoFrag
                            /\ \A f \in FragIds : b.data[f] \in {NoFrag, m.uid}
  BY FragmentMeetsBuffer
<1>3. /\ network' = network
      /\ accepted' = accepted \ {m}
      /\ sent' = sent
      /\ reused' = reused
      /\ delivered' = IF res = "Assemblable" THEN Append(delivered, d) ELSE delivered
      /\ pkt_buf' = [pkt_buf EXCEPT ![k] = CASE res = "Assemblable" -> NoBuffer
                                             [] res = "Incomplete" -> Store(b, m)
                                             [] OTHER -> b]
  BY DEF Assemble
<1>4. /\ \A j \in BufferKeys : j # k => pkt_buf'[j] = pkt_buf[j]
      /\ res = "Assemblable" => pkt_buf'[k] = NoBuffer
      /\ res = "Incomplete" => pkt_buf'[k] = Store(b, m)
      /\ res \notin {"Assemblable", "Incomplete"} => pkt_buf'[k] = b
  BY <1>1, <1>3 DEF TypeOK
<1>5. Live' \subseteq Live /\ m \in Live /\ m \notin Live'
  BY <1>3 DEF Live, IndInv, FragmentsAreSent
<1>6. FragmentsAreSent'
  BY <1>3, <1>5 DEF IndInv, FragmentsAreSent, Live, Key
<1>7. ASSUME res \in {"Assemblable", "Incomplete"}
      PROVE  /\ m.frag_id < b.total
             /\ b.data[m.frag_id] = NoFrag
             /\ res = "Assemblable" <=> b.received + 1 = b.total
  <2>1. /\ ~(m.frag_id >= b.total)
        /\ b.data[m.frag_id] = NoFrag
        /\ res = "Assemblable" <=> b.received + 1 = b.total
    BY <1>7 DEF InsertResult
  <2>2. m.frag_id \in Int /\ b.total \in Int
    BY <1>1, MaxFragsAssumption DEF Fragments, FragIds, Buffers
  <2>. QED BY <2>1, <2>2
<1>8. ASSUME res \in {"Assemblable", "Incomplete"}
      PROVE  /\ \A f \in Filled(Store(b, m).data) : f < b.total
             /\ Store(b, m).received = Cardinality(Filled(Store(b, m).data))
             /\ Store(b, m).total = b.total
             /\ Store(b, m).received = b.received + 1
  BY <1>1, <1>2, <1>7, <1>8, StoreFills DEF Store
<1>9. BuffersAreIncomplete'
  <2>. SUFFICES ASSUME NEW j \in BufferKeys, pkt_buf'[j] # NoBuffer
                PROVE  /\ \A f \in Filled(pkt_buf'[j].data) : f < pkt_buf'[j].total
                       /\ pkt_buf'[j].received = Cardinality(Filled(pkt_buf'[j].data))
                       /\ pkt_buf'[j].received < pkt_buf'[j].total
    BY DEF BuffersAreIncomplete, Filled
  <2>1. CASE j # k
    BY <1>4, <2>1 DEF IndInv, BuffersAreIncomplete
  <2>2. CASE j = k /\ res = "Incomplete"
    <3>1. b.received \in Nat /\ b.total \in Nat
      BY <1>1, MaxFragsAssumption DEF Buffers
    <3>2. b.received + 1 < b.total
      BY <1>2, <1>7, <2>2, <3>1
    <3>. QED BY <1>4, <1>8, <2>2, <3>2
  <2>3. CASE j = k /\ res # "Incomplete"
    BY <1>2, <1>4, <2>3
  <2>. QED BY <2>1, <2>2, <2>3
<1>10. ASSUME res = "Assemblable"
       PROVE  \A f \in 0 .. b.total - 1 : Store(b, m).data[f] # NoFrag
  <2>1. Cardinality(Filled(Store(b, m).data)) = b.total /\ b.total \in 1 .. MaxFrags
    BY <1>1, <1>7, <1>8, <1>10 DEF Buffers
  <2>. QED BY <1>8, <1>10, <2>1, FullIsComplete
<1>11. /\ Len(delivered) \in Nat
       /\ res = "Assemblable" => /\ Len(delivered') = Len(delivered) + 1
                                 /\ delivered'[Len(delivered) + 1] = d
                                 /\ \A i \in 1 .. Len(delivered) : delivered'[i] = delivered[i]
  BY <1>1, <1>3 DEF TypeOK
<1>12. AssembledIsComplete'
  <2>1. CASE res # "Assemblable"
    BY <1>3, <2>1 DEF IndInv, AssembledIsComplete
  <2>2. CASE res = "Assemblable"
    BY <1>10, <1>11, <2>2 DEF IndInv, AssembledIsComplete
  <2>. QED BY <2>1, <2>2
<1>13. ASSUME k \notin reused
       PROVE  /\ m.uid \in 1 .. Len(sent)
              /\ sent[m.uid] = [key |-> k, total |-> b.total]
              /\ \A f \in FragIds : b.data[f] \in {NoFrag, m.uid}
              /\ \A f \in FragIds : Store(b, m).data[f] \in {NoFrag, m.uid}
              /\ Store(b, m).total = b.total
  <2>1. \A f \in FragIds : Store(b, m).data[f] = IF f = m.frag_id THEN m.uid ELSE b.data[f]
    BY <1>1 DEF Store, Buffers
  <2>. QED BY <1>2, <1>5, <1>13, <2>1 DEF IndInv, FragmentsAreSent, Store
<1>14. KeysAreOwned'
  <2>. SUFFICES ASSUME NEW j \in BufferKeys, j \notin reused
                PROVE  /\ \E u \in 1 .. Len(sent) + 1 : Owns(u, j)'
                       /\ \A x \in Live' : Key(x) = j /\ pkt_buf'[j] # NoBuffer
                                            => pkt_buf'[j].data[x.frag_id] = NoFrag
    BY <1>3 DEF KeysAreOwned, Key
  <2>1. PICK u \in 1 .. Len(sent) + 1 : Owns(u, j)
    BY DEF IndInv, KeysAreOwned
  <2>2. \A x \in Live' : Key(x) = j => x.uid = u
    BY <1>5, <2>1 DEF Owns
  <2>3. CASE j # k
    <3>1. Owns(u, j)'
      BY <1>3, <1>4, <2>1, <2>2, <2>3 DEF Owns, Key
    <3>. QED BY <1>4, <1>5, <2>3, <3>1 DEF IndInv, KeysAreOwned
  <2>4. CASE j = k
    <3>1. m.uid = u
      BY <1>5, <2>1, <2>4 DEF Owns
    <3>2. pkt_buf'[k] \in {NoBuffer, b, Store(b, m)}
      BY <1>4
    <3>3. pkt_buf'[k] # NoBuffer =>
            /\ u \in 1 .. Len(sent)
            /\ sent[u] = [key |-> k, total |-> pkt_buf'[k].total]
            /\ \A f \in FragIds : pkt_buf'[k].data[f] \in {NoFrag, u}
      BY <1>13, <2>4, <3>1, <3>2
    <3>4. Owns(u, k)'
      BY <1>3, <2>2, <2>4, <3>3 DEF Owns, Key
    <3>5. ASSUME NEW x \in Live', Key(x) = k, pkt_buf'[k] # NoBuffer
          PROVE  pkt_buf'[k].data[x.frag_id] = NoFrag
      <4>1. x \in Live /\ x.uid = u /\ x # m
        BY <1>5, <2>2, <2>4, <3>5
      <4>2. x \in Fragments /\ x.frag_id \in FragIds
        BY <1>1, <4>1 DEF TypeOK, Live, Fragments
      <4>3. x.frag_total = m.frag_total /\ x.addr = (x.frag_id = 0) /\ m.addr = (m.frag_id = 0)
        <5>1. /\ sent[u] = [key |-> Key(x), total |-> x.frag_total]
              /\ sent[u] = [key |-> Key(m), total |-> m.frag_total]
          BY <1>5, <3>1, <4>1 DEF IndInv, FragmentsAreSent
        <5>2. x.frag_total = m.frag_total
          BY <5>1
        <5>. QED BY <1>5, <4>1, <5>2 DEF IndInv, FragmentsAreSent
      <4>4. x.dst = m.dst /\ x.assoc_id = m.assoc_id /\ x.pkt_id = m.pkt_id
        BY <3>5 DEF Key
      <4>5. x.frag_id # m.frag_id
        <5>1. SUFFICES ASSUME x.frag_id = m.frag_id PROVE x = m
          BY <4>1
        <5>2. x.addr = m.addr
          BY <4>3, <5>1
        <5>. QED BY <1>1, <3>1, <4>1, <4>2, <4>3, <4>4, <5>1, <5>2 DEF Fragments
      <4>6. b.data[x.frag_id] = NoFrag
        <5>1. CASE pkt_buf[k] = NoBuffer
          BY <4>2, <5>1 DEF BufferFor, NewBuffer
        <5>2. CASE pkt_buf[k] # NoBuffer
          BY <2>4, <3>5, <4>1, <5>2 DEF BufferFor, IndInv, KeysAreOwned
        <5>. QED BY <5>1, <5>2
      <4>7. Store(b, m).data[x.frag_id] = b.data[x.frag_id]
        BY <1>1, <4>2, <4>5 DEF Store, Buffers
      <4>. QED BY <3>2, <3>5, <4>6, <4>7
    <3>. QED BY <2>4, <3>4, <3>5
  <2>. QED BY <2>3, <2>4
<1>15. NoMixing'
  <2>1. ASSUME NEW i \in 1 .. Len(delivered), delivered[i].key \notin reused
        PROVE  \E u \in 1 .. Len(sent) : Whole(delivered[i], u)
    BY <2>1 DEF IndInv, NoMixing
  <2>2. ASSUME res = "Assemblable", k \notin reused
        PROVE  \E u \in 1 .. Len(sent) : Whole(d, u)
    <3>1. ASSUME NEW f \in FragIds
          PROVE  d.data[f] = IF f < d.total THEN m.uid ELSE NoFrag
      <4>1. d.data = Store(b, m).data /\ d.total = b.total /\ b.total \in Nat /\ f \in Nat
        BY <1>1, MaxFragsAssumption DEF Buffers, FragIds
      <4>2. CASE f < b.total
        BY <1>10, <1>13, <2>2, <4>1, <4>2 DEF FragIds
      <4>3. CASE ~(f < b.total)
        BY <1>8, <2>2, <4>1, <4>3 DEF Filled
      <4>. QED BY <4>1, <4>2, <4>3
    <3>2. sent[m.uid] = [key |-> d.key, total |-> d.total]
      BY <1>13, <2>2
    <3>3. Whole(d, m.uid)
      BY <3>1, <3>2 DEF Whole
    <3>. QED BY <1>13, <2>2, <3>3
  <2>3. CASE res # "Assemblable"
    BY <1>3, <2>1, <2>3 DEF NoMixing, Whole
  <2>4. CASE res = "Assemblable"
    <3>. SUFFICES ASSUME NEW i \in 1 .. Len(delivered) + 1, delivered'[i].key \notin reused
                  PROVE  \E u \in 1 .. Len(sent) : Whole(delivered'[i], u)
      BY <1>3, <1>11, <2>4 DEF NoMixing, Whole
    <3>1. CASE i = Len(delivered) + 1
      BY <1>11, <2>2, <2>4, <3>1
    <3>2. CASE i \in 1 .. Len(delivered)
      BY <1>11, <2>1, <2>4, <3>2
    <3>. QED BY <1>11, <3>1, <3>2
  <2>. QED BY <2>3, <2>4
<1>. QED BY <1>6, <1>9, <1>12, <1>14, <1>15 DEF IndInv

-----------------------------------------------------------------------------
(* The theorems *)

LEMMA InitIndInv == Init => IndInv
<1>. SUFFICES ASSUME Init PROVE IndInv
  OBVIOUS
<1>1. TypeOK
  BY InitTypeOK
<1>2. /\ Live = {}
      /\ network \cap accepted = {}
      /\ \A k \in BufferKeys : pkt_buf[k] = NoBuffer
      /\ Len(sent) = 0
      /\ Len(delivered) = 0
  BY DEF Init, Live
<1>3. \A k \in BufferKeys : Owns(1, k)
  BY <1>2 DEF Owns
<1>. QED
  BY <1>1, <1>2, <1>3 DEF IndInv, FragmentsAreSent, BuffersAreIncomplete, KeysAreOwned,
                          AssembledIsComplete, NoMixing

\* Every step sends a packet, assembles a fragment or is one that shrinks.
LEMMA StepKinds ==
  IndInv /\ [Next]_vars =>
    \/ Shrinks
    \/ \E side \in Sides, a \in AssocIds, n \in 1 .. MaxFrags : SendPacket(side, a, n)
    \/ \E m \in accepted : Assemble(m)
<1>. SUFFICES ASSUME IndInv, [Next]_vars
              PROVE  \/ Shrinks
                     \/ \E side \in Sides, a \in AssocIds, n \in 1 .. MaxFrags : SendPacket(side, a, n)
                     \/ \E m \in accepted : Assemble(m)
  OBVIOUS
<1>. TypeOK
  BY DEF IndInv
<1>2. network \cap accepted = {}
  BY DEF IndInv, FragmentsAreSent
<1>3. CASE UNCHANGED vars
  BY <1>2, <1>3 DEF Shrinks, vars, Live
<1>5. ASSUME NEW m \in network, RecvPacket(m) PROVE Shrinks
  BY <1>2, <1>5 DEF Shrinks, RecvPacket, Live
<1>7. ASSUME NEW a \in AssocIds, SendDissociate(a) PROVE Shrinks
  BY <1>2, <1>7 DEF Shrinks, SendDissociate, RemoveSession, Live
<1>8. ASSUME NEW a \in AssocIds, RecvDissociate(a) PROVE Shrinks
  BY <1>2, <1>8 DEF Shrinks, RecvDissociate, RemoveSession, Live
<1>9. ASSUME NEW side \in Sides, CollectGarbage(side) PROVE Shrinks
  BY <1>2, <1>9 DEF Shrinks, CollectGarbage, Live
<1>10. ASSUME Elapse PROVE Shrinks
  <2>1. ASSUME NEW k \in BufferKeys, pkt_buf'[k] # NoBuffer
        PROVE  /\ pkt_buf[k] # NoBuffer
               /\ pkt_buf'[k].total = pkt_buf[k].total
               /\ pkt_buf'[k].received = pkt_buf[k].received
               /\ pkt_buf'[k].data = pkt_buf[k].data
    <3>1. pkt_buf[k] # NoBuffer
      BY <1>10, <2>1 DEF Elapse
    <3>2. pkt_buf[k] \in Buffers
      BY <3>1 DEF TypeOK
    <3>. QED BY <1>10, <3>1, <3>2 DEF Elapse, Buffers
  <2>. QED BY <1>2, <1>10, <2>1 DEF Shrinks, Elapse, Live
<1>11. ASSUME NEW m \in network, Lose(m) PROVE Shrinks
  BY <1>2, <1>11 DEF Shrinks, Lose, Live
<1>. QED BY <1>3, <1>5, <1>7, <1>8, <1>9, <1>10, <1>11 DEF Next

LEMMA NextIndInv == IndInv /\ [Next]_vars => IndInv'
<1>. SUFFICES ASSUME IndInv, [Next]_vars PROVE IndInv'
  OBVIOUS
<1>1. TypeOK'
  BY NextTypeOK DEF IndInv
<1>. QED BY <1>1, StepKinds, ShrinksPreserves, SendPacketPreserves, AssemblePreserves

\* The parts of the invariant hold in every reachable state.
THEOREM Inductive == Spec => []IndInv
  BY InitIndInv, NextIndInv, PTL DEF Spec

\* No packet is put together from fragments of different packets, unless a
\* PKT_ID was given out again while pieces of its last packet were alive.
THEOREM PacketsAreNotMixed == Spec => []NoMixing
<1>1. IndInv => NoMixing
  BY DEF IndInv
<1>. QED BY <1>1, Inductive, PTL

\* assemble's unwrap of a slot never fails, reuse of PKT_IDs or not.
THEOREM AssembledPacketsAreComplete == Spec => []AssembledIsComplete
<1>1. IndInv => AssembledIsComplete
  BY DEF IndInv
<1>. QED BY <1>1, Inductive, PTL

\* No fragment is turned away, and none indexes a slot that is not there, unless
\* its PKT_ID was given out again too early.
THEOREM FragmentsFindTheirSlot == Spec => []FragmentsFit
<1>1. ASSUME IndInv PROVE FragmentsFit
  <2>. SUFFICES ASSUME NEW m \in accepted, Key(m) \notin reused
                PROVE  InsertResult(BufferFor(m), m) \in {"Assemblable", "Incomplete"}
    BY DEF FragmentsFit
  <2>1. BufferFor(m).total = m.frag_total /\ BufferFor(m).data[m.frag_id] = NoFrag
    BY <1>1, FragmentMeetsBuffer
  <2>2. m.frag_id < m.frag_total /\ m.addr = (m.frag_id = 0)
    BY <1>1 DEF IndInv, FragmentsAreSent, Live
  <2>3. m \in Fragments
    BY <1>1 DEF IndInv, TypeOK
  <2>4. ~(m.frag_id >= m.frag_total) /\ ~(m.frag_id >= BufferFor(m).total)
    BY <2>1, <2>2, <2>3, MaxFragsAssumption DEF Fragments, FragIds
  <2>5. ~((m.frag_id = 0) # m.addr)
    BY <2>2
  <2>. QED BY <2>1, <2>4, <2>5 DEF InsertResult
<1>. QED BY <1>1, Inductive, PTL
-----------------------------------------------------------------------------
(* The first fragment of a packet is in one place *)

LEMMA ZeroIsFrag == 0 \in FragIds
  BY MaxFragsAssumption DEF FragIds

LEMMA InitFirst == Init => FirstIsOnce
<1>. SUFFICES ASSUME Init PROVE FirstIsOnce
  OBVIOUS
<1>1. Live = {} /\ Len(delivered) = 0 /\ \A k \in BufferKeys : FirstInBuffer(k) = NoFrag
  BY DEF Init, Live, FirstInBuffer
<1>. QED BY <1>1 DEF FirstIsOnce, FirstUnderWay, FirstBuffered, FirstAssembled

LEMMA UidIsSome ==
  ASSUME TypeOK, NEW m \in Live PROVE m \in Fragments /\ m.uid \in Nat /\ m.uid # NoFrag
  BY DEF TypeOK, Live, Fragments, Uids, NoFrag

LEMMA ShrinksFirst ==
  ASSUME TypeOK, FirstIsOnce, Shrinks PROVE FirstIsOnce'
<1>1. \A k \in BufferKeys : FirstInBuffer(k)' \in {NoFrag, FirstInBuffer(k)}
  BY DEF Shrinks, FirstInBuffer
<1>2. Live' \subseteq Live /\ UNCHANGED <<sent, delivered>>
  BY DEF Shrinks, Live
<1>3. FirstUnderWay'
  BY <1>1, <1>2, UidIsSome DEF FirstIsOnce, FirstUnderWay
<1>4. FirstBuffered'
  BY <1>1, <1>2 DEF FirstIsOnce, FirstBuffered
<1>5. FirstAssembled'
  BY <1>2 DEF FirstIsOnce, FirstAssembled
<1>. QED BY <1>3, <1>4, <1>5 DEF FirstIsOnce

\* A new packet's number is greater than all there are.
LEMMA SendPacketFirst ==
  ASSUME TypeOK, FirstIsOnce,
         NEW side \in Sides, NEW a \in AssocIds, NEW n \in 1 .. MaxFrags, SendPacket(side, a, n)
  PROVE  FirstIsOnce'
<1>. PICK key : key = <<Peer(side), a, next_pkt_id[<<side, a>>]>>
  OBVIOUS
<1>. PICK uid : uid = Len(sent) + 1
  OBVIOUS
<1>1. /\ network' = network \cup {Fragment(key, n, f, uid) : f \in 0 .. n - 1}
      /\ UNCHANGED <<accepted, pkt_buf, delivered>>
      /\ sent' = Append(sent, [key |-> key, total |-> n])
  BY DEF SendPacket
<1>2. Len(sent) \in Nat /\ Len(sent') = Len(sent) + 1
  BY <1>1 DEF TypeOK
<1>3. \A m \in Live' : m \in Live \/ m.uid = uid
  BY <1>1 DEF Live, Fragment
<1>4. \A k \in BufferKeys : FirstInBuffer(k)' = FirstInBuffer(k)
  BY <1>1 DEF FirstInBuffer
<1>5. uid \notin 1 .. Len(sent) /\ uid # NoFrag
  BY <1>2 DEF NoFrag
<1>6. FirstUnderWay'
  BY <1>1, <1>3, <1>4, <1>5 DEF FirstIsOnce, FirstUnderWay, FirstBuffered, FirstAssembled
<1>7. FirstBuffered'
  BY <1>1, <1>2, <1>4 DEF FirstIsOnce, FirstBuffered
<1>8. FirstAssembled'
  BY <1>1, <1>2 DEF FirstIsOnce, FirstAssembled
<1>. QED BY <1>6, <1>7, <1>8 DEF FirstIsOnce

\* A packet has one fragment of each number.
LEMMA FragmentIsOne ==
  ASSUME IndInv, NEW m \in Live, NEW x \in Live, x.uid = m.uid, x.frag_id = m.frag_id
  PROVE  x = m
<1>1. m \in Fragments /\ x \in Fragments
  BY UidIsSome DEF IndInv
<1>2. /\ sent[m.uid] = [key |-> Key(x), total |-> x.frag_total]
      /\ sent[m.uid] = [key |-> Key(m), total |-> m.frag_total]
      /\ x.addr = (x.frag_id = 0) /\ m.addr = (m.frag_id = 0)
  BY DEF IndInv, FragmentsAreSent
<1>3. Key(x) = Key(m) /\ x.frag_total = m.frag_total
  BY <1>2
<1>4. x.dst = m.dst /\ x.assoc_id = m.assoc_id /\ x.pkt_id = m.pkt_id
  BY <1>3 DEF Key
<1>5. x.addr = m.addr
  BY <1>2
<1>. QED BY <1>1, <1>3, <1>4, <1>5 DEF Fragments

\* The first fragment moves from the network to a buffer to a packet assembled.
LEMMA AssembleFirst ==
  ASSUME IndInv, IndInv', FirstIsOnce, NEW m \in accepted, Assemble(m)
  PROVE  FirstIsOnce'
<1>. PICK k : k = Key(m)
  OBVIOUS
<1>. PICK b : b = BufferFor(m)
  OBVIOUS
<1>. PICK res : res = InsertResult(b, m)
  OBVIOUS
<1>. PICK d : d = [key |-> k, total |-> b.total, data |-> Store(b, m).data]
  OBVIOUS
<1>. PICK first : first = IF m.frag_id = 0 THEN m.uid ELSE FirstInBuffer(k)
  OBVIOUS
<1>0. /\ TypeOK
      /\ m \in Fragments
      /\ k \in BufferKeys
      /\ b \in Buffers
  BY BufferTypes DEF IndInv
<1>1. /\ UNCHANGED <<network, sent>>
      /\ accepted' = accepted \ {m}
      /\ delivered' = IF res = "Assemblable" THEN Append(delivered, d) ELSE delivered
      /\ pkt_buf' = [pkt_buf EXCEPT ![k] = CASE res = "Assemblable" -> NoBuffer
                                             [] res = "Incomplete" -> Store(b, m)
                                             [] OTHER -> b]
  BY DEF Assemble
<1>2. m \in Live /\ Live' \subseteq Live \ {m}
  BY <1>1 DEF Live, IndInv, FragmentsAreSent
<1>3. b.data[0] = FirstInBuffer(k)
  BY ZeroIsFrag DEF BufferFor, NewBuffer, FirstInBuffer
<1>4. Store(b, m).data[0] = first
  BY <1>0, <1>3, ZeroIsFrag DEF Store, Buffers
<1>5. \A j \in BufferKeys : j # k => FirstInBuffer(j)' = FirstInBuffer(j)
  BY <1>0, <1>1 DEF FirstInBuffer, TypeOK
<1>6. /\ res = "Assemblable" => FirstInBuffer(k)' = NoFrag
      /\ res = "Incomplete" => FirstInBuffer(k)' = first
      /\ res \notin {"Assemblable", "Incomplete"} => FirstInBuffer(k)' = FirstInBuffer(k)
  <2>1. b # NoBuffer /\ Store(b, m) # NoBuffer
    BY <1>0, NoBufferIsNone, BufferTypes DEF IndInv
  <2>. QED BY <1>0, <1>1, <1>3, <1>4, <2>1 DEF FirstInBuffer, TypeOK
<1>7. ASSUME first # NoFrag
      PROVE  /\ first \in 1 .. Len(sent)
             /\ \A j \in BufferKeys : j # k => FirstInBuffer(j) # first
             /\ \A i \in 1 .. Len(delivered) : delivered[i].data[0] # first
             /\ \A x \in Live' : x.frag_id = 0 => x.uid # first
  <2>1. CASE m.frag_id = 0
    <3>1. first = m.uid /\ first \in 1 .. Len(sent)
      BY <1>2, <2>1 DEF IndInv, FragmentsAreSent
    <3>2. \A x \in Live' : x.frag_id = 0 => x.uid # first
      BY <1>2, <2>1, <3>1, FragmentIsOne
    <3>. QED BY <1>2, <2>1, <3>1, <3>2 DEF FirstIsOnce, FirstUnderWay
  <2>2. CASE m.frag_id # 0
    <3>1. first = FirstInBuffer(k)
      BY <2>2
    <3>. QED BY <1>0, <1>2, <1>7, <3>1 DEF FirstIsOnce, FirstUnderWay, FirstBuffered
  <2>. QED BY <2>1, <2>2
<1>8. \A x \in Live' : x.uid # NoFrag
  BY <1>0, <1>2, UidIsSome
<1>9. /\ Len(delivered) \in Nat
      /\ res = "Assemblable" => /\ Len(delivered') = Len(delivered) + 1
                                /\ delivered'[Len(delivered) + 1] = d
                                /\ \A i \in 1 .. Len(delivered) : delivered'[i] = delivered[i]
  BY <1>0, <1>1 DEF TypeOK
<1>10. CASE res = "Assemblable"
  <2>1. d.data[0] = first
    BY <1>4
  <2>2. first # NoFrag
    <3>1. Len(delivered) + 1 \in 1 .. Len(delivered') /\ 0 \in 0 .. d.total - 1
      BY <1>0, <1>9, <1>10, MaxFragsAssumption DEF Buffers
    <3>2. delivered'[Len(delivered) + 1].data[0] # NoFrag
      BY <1>9, <1>10, <3>1 DEF IndInv, AssembledIsComplete
    <3>. QED BY <1>9, <1>10, <2>1, <3>2
  <2>3. \A i \in 1 .. Len(delivered') : \/ i \in 1 .. Len(delivered) /\ delivered'[i] = delivered[i]
                                        \/ i = Len(delivered) + 1 /\ delivered'[i].data[0] = first
    BY <1>9, <1>10, <2>1
  <2>4. \A j \in BufferKeys : FirstInBuffer(j)' = IF j = k THEN NoFrag ELSE FirstInBuffer(j)
    BY <1>5, <1>6, <1>10
  <2>5. FirstUnderWay'
    BY <1>2, <1>7, <1>8, <2>2, <2>3, <2>4 DEF FirstIsOnce, FirstUnderWay
  <2>6. FirstBuffered'
    <3>. SUFFICES ASSUME NEW j \in BufferKeys, FirstInBuffer(j)' # NoFrag
                  PROVE  /\ FirstInBuffer(j)' \in 1 .. Len(sent')
                         /\ \A l \in BufferKeys : l # j => FirstInBuffer(l)' # FirstInBuffer(j)'
                         /\ \A i \in 1 .. Len(delivered') : delivered'[i].data[0] # FirstInBuffer(j)'
      BY DEF FirstBuffered
    <3>1. j # k /\ FirstInBuffer(j)' = FirstInBuffer(j) /\ FirstInBuffer(j) # NoFrag
      BY <2>4
    <3>. QED BY <1>1, <1>7, <2>2, <2>3, <2>4, <3>1 DEF FirstIsOnce, FirstBuffered
  <2>7. FirstAssembled'
    BY <1>1, <1>7, <2>2, <2>3 DEF FirstIsOnce, FirstAssembled
  <2>. QED BY <2>5, <2>6, <2>7 DEF FirstIsOnce
<1>11. CASE res # "Assemblable"
  <2>1. delivered' = delivered
    BY <1>1, <1>11
  <2>2. \A j \in BufferKeys : FirstInBuffer(j)' = FirstInBuffer(j) \/ (j = k /\ FirstInBuffer(j)' = first)
    BY <1>5, <1>6, <1>11
  <2>3. FirstUnderWay'
    BY <1>2, <1>7, <1>8, <2>1, <2>2 DEF FirstIsOnce, FirstUnderWay
  <2>4. FirstBuffered'
    <3>. SUFFICES ASSUME NEW j \in BufferKeys, FirstInBuffer(j)' # NoFrag
                  PROVE  /\ FirstInBuffer(j)' \in 1 .. Len(sent')
                         /\ \A l \in BufferKeys : l # j => FirstInBuffer(l)' # FirstInBuffer(j)'
                         /\ \A i \in 1 .. Len(delivered') : delivered'[i].data[0] # FirstInBuffer(j)'
      BY DEF FirstBuffered
    <3>1. CASE FirstInBuffer(j)' = FirstInBuffer(j)
      <4>1. FirstInBuffer(j) # NoFrag
        BY <3>1
      <4>2. \A l \in BufferKeys : l # j => FirstInBuffer(l)' # FirstInBuffer(j)'
        BY <1>7, <2>2, <3>1, <4>1 DEF FirstIsOnce, FirstBuffered
      <4>. QED BY <1>1, <2>1, <3>1, <4>1, <4>2 DEF FirstIsOnce, FirstBuffered
    <3>2. CASE j = k /\ FirstInBuffer(j)' = first
      BY <1>1, <1>5, <1>7, <2>1, <3>2
    <3>. QED BY <2>2, <3>1, <3>2
  <2>5. FirstAssembled'
    BY <1>1, <2>1 DEF FirstIsOnce, FirstAssembled
  <2>. QED BY <2>3, <2>4, <2>5 DEF FirstIsOnce
<1>. QED BY <1>10, <1>11

LEMMA NextFirst == IndInv /\ FirstIsOnce /\ [Next]_vars => FirstIsOnce'
<1>. SUFFICES ASSUME IndInv, FirstIsOnce, [Next]_vars PROVE FirstIsOnce'
  OBVIOUS
<1>1. TypeOK /\ IndInv'
  BY NextIndInv DEF IndInv
<1>. QED BY <1>1, StepKinds, ShrinksFirst, SendPacketFirst, AssembleFirst

\* No fragment is counted twice, whatever reuse of PKT_IDs does to its buffers.
THEOREM FirstFragmentIsOnce == Spec => []FirstIsOnce
  BY InitFirst, NextFirst, Inductive, PTL DEF Spec
-----------------------------------------------------------------------------
(* The refinement of PacketDelivery *)

\* The packet that arrived is told by its first fragment.
LEMMA WholeIsFirst ==
  ASSUME NEW d \in Assembled, NEW u, Whole(d, u) PROVE d.data[0] = u
  BY ZeroIsFrag, MaxFragsAssumption DEF Whole, Assembled

LEMMA ArrivedIs ==
  ASSUME NEW d \in Assembled, Len(sent) \in Nat
  PROVE  /\ Arrived(d) \in Nat
         /\ \A u \in 1 .. Len(sent) : Whole(d, u) => Arrived(d) = u
         /\ Arrived(d) # 0 => Whole(d, Arrived(d))
<1>1. CASE \E u \in 1 .. Len(sent) : Whole(d, u)
  <2>1. PICK u \in 1 .. Len(sent) : Whole(d, u)
    BY <1>1
  <2>2. \A v \in 1 .. Len(sent) : Whole(d, v) => v = u
    BY <2>1, WholeIsFirst
  <2>3. Arrived(d) = u
    BY <2>1, <2>2 DEF Arrived
  <2>. QED BY <2>1, <2>2, <2>3
<1>2. CASE ~\E u \in 1 .. Len(sent) : Whole(d, u)
  BY <1>2 DEF Arrived
<1>. QED BY <1>1, <1>2

LEMMA ArrivalsType ==
  ASSUME TypeOK
  PROVE  /\ Arrivals \in Seq(Nat)
         /\ Len(Arrivals) = Len(delivered) /\ Len(delivered) \in Nat
         /\ \A i \in 1 .. Len(delivered) : Arrivals[i] = Arrived(delivered[i])
<1>1. Len(delivered) \in Nat /\ Len(sent) \in Nat
  BY DEF TypeOK
<1>2. \A i \in 1 .. Len(delivered) : Arrived(delivered[i]) \in Nat
  BY <1>1, ArrivedIs DEF TypeOK
<1>. QED BY <1>1, <1>2 DEF Arrivals

\* A packet that is sent changes nothing about those that have arrived: its number is
\* in no slot yet.
LEMMA SendPacketArrivals ==
  ASSUME IndInv, IndInv', FirstIsOnce,
         NEW side \in Sides, NEW a \in AssocIds, NEW n \in 1 .. MaxFrags, SendPacket(side, a, n)
  PROVE  Delivery!Enter
<1>. PICK key : key = <<Peer(side), a, next_pkt_id[<<side, a>>]>>
  OBVIOUS
<1>1. /\ delivered' = delivered
      /\ sent' = Append(sent, [key |-> key, total |-> n])
      /\ reused' \in {reused, reused \cup {key}}
  BY DEF SendPacket
<1>2. TypeOK /\ TypeOK'
  BY DEF IndInv
<1>3. /\ Len(sent) \in Nat
      /\ Len(sent') = Len(sent) + 1
      /\ sent'[Len(sent')] = [key |-> key, total |-> n]
      /\ \A u \in 1 .. Len(sent) : sent'[u] = sent[u]
  BY <1>1, <1>2 DEF TypeOK
<1>4. SubSeq(sent', 1, Len(sent)) = sent
  <2>1. \A i \in 1 .. Len(sent) : sent'[i] \in SentPackets
    BY <1>2, <1>3 DEF TypeOK
  <2>2. /\ SubSeq(sent', 1, Len(sent)) \in Seq(SentPackets)
        /\ Len(SubSeq(sent', 1, Len(sent))) = Len(sent)
        /\ \A i \in 1 .. Len(sent) : SubSeq(sent', 1, Len(sent))[i] = sent'[i]
    BY <1>3, <2>1, SubSeqProperties
  <2>. QED BY <1>2, <1>3, <2>2, SeqEqual DEF TypeOK
<1>5. ASSUME NEW i \in 1 .. Len(delivered) PROVE Arrived(delivered[i])' = Arrived(delivered[i])
  <2>. PICK d : d = delivered[i]
    OBVIOUS
  <2>1. d \in Assembled /\ d.data[0] \in 1 .. Len(sent) /\ delivered'[i] = d
    BY <1>1, <1>2 DEF TypeOK, FirstIsOnce, FirstAssembled
  <2>2. \A u : Whole(d, u)' <=> sent'[u] = [key |-> d.key, total |-> d.total]
                                 /\ \A f \in FragIds : d.data[f] = IF f < d.total THEN u ELSE NoFrag
    BY DEF Whole
  <2>3. \A u : Whole(d, u)' => d.data[0] = u
    BY <2>1, <2>2, ZeroIsFrag, MaxFragsAssumption DEF Assembled
  <2>4. \A u \in 1 .. Len(sent) : Whole(d, u)' <=> Whole(d, u)
    BY <1>3, <2>2 DEF Whole
  <2>5. \A u \in 1 .. Len(sent') : Whole(d, u)' => u \in 1 .. Len(sent)
    BY <2>1, <2>3
  <2>6. CASE \E u \in 1 .. Len(sent) : Whole(d, u)
    <3>1. PICK u \in 1 .. Len(sent) : Whole(d, u)
      BY <2>6
    <3>2. Arrived(d) = u
      BY <1>3, <2>1, <3>1, ArrivedIs
    <3>3. u \in 1 .. Len(sent') /\ Whole(d, u)'
      BY <1>3, <2>4, <3>1
    <3>4. \A v \in 1 .. Len(sent') : Whole(d, v)' => v = u
      BY <2>3, <3>3
    <3>5. Arrived(d)' = u
      BY <3>3, <3>4 DEF Arrived
    <3>. QED BY <2>1, <3>2, <3>5
  <2>7. CASE ~\E u \in 1 .. Len(sent) : Whole(d, u)
    <3>1. ~\E u \in 1 .. Len(sent') : Whole(d, u)'
      BY <2>4, <2>5, <2>7
    <3>2. Arrived(d) = 0 /\ Arrived(d)' = 0
      BY <2>7, <3>1 DEF Arrived
    <3>. QED BY <2>1, <3>2
  <2>. QED BY <2>6, <2>7
<1>6. Arrivals' = Arrivals
  BY <1>1, <1>5 DEF Arrivals
<1>7. reused' \in {reused, reused \cup {sent'[Len(sent')].key}}
  <2>1. sent'[Len(sent')].key = key
    BY <1>3
  <2>. QED BY <1>1, <2>1, Zenon
<1>. QED BY <1>3, <1>4, <1>6, <1>7 DEF Delivery!Enter

\* A fragment that completes a packet makes it arrive: as the packet it is, for the
\* first time, or garbled when its PKT_ID was used twice.
LEMMA AssembleArrivals ==
  ASSUME IndInv, IndInv', FirstIsOnce', NEW m \in accepted, Assemble(m)
  PROVE  Delivery!DeliveryNext \/ UNCHANGED Delivery!deliveryVars
<1>1. UNCHANGED <<sent, reused>>
  BY DEF Assemble
<1>2. TypeOK /\ TypeOK'
  BY DEF IndInv
<1>a. \A e : Arrived(e)' = Arrived(e)
  BY <1>1 DEF Arrived, Whole
<1>3. CASE delivered' = delivered
  <2>1. Arrivals' = Arrivals
    BY <1>3, <1>a DEF Arrivals
  <2>. QED BY <1>1, <2>1 DEF Delivery!deliveryVars
<1>4. CASE delivered' # delivered
  <2>1. PICK d : delivered' = Append(delivered, d)
    BY <1>4 DEF Assemble
  <2>2. /\ Len(delivered) \in Nat /\ Len(sent) \in Nat
        /\ Len(delivered') = Len(delivered) + 1
        /\ delivered'[Len(delivered) + 1] = d
        /\ \A i \in 1 .. Len(delivered) : delivered'[i] = delivered[i]
    BY <1>2, <2>1 DEF TypeOK
  <2>3. d \in Assembled
    BY <1>2, <2>2 DEF TypeOK
  <2>4. Arrived(d) \in Nat
    BY <2>2, <2>3, ArrivedIs
  <2>5. Arrivals' = Append(Arrivals, Arrived(d))
    <3>1. Arrivals' = [i \in 1 .. Len(delivered) + 1 |-> Arrived(delivered'[i])]
      BY <1>a, <2>2 DEF Arrivals
    <3>2. Arrivals' \in Seq(Nat) /\ Len(Arrivals') = Len(delivered) + 1
      <4>1. \A i \in 1 .. Len(delivered) + 1 : Arrived(delivered'[i]) \in Nat
        BY <1>2, <2>2, ArrivedIs DEF TypeOK
      <4>. QED BY <2>2, <3>1, <4>1
    <3>3. /\ Append(Arrivals, Arrived(d)) \in Seq(Nat)
          /\ Len(Append(Arrivals, Arrived(d))) = Len(delivered) + 1
          /\ Append(Arrivals, Arrived(d))[Len(delivered) + 1] = Arrived(d)
          /\ \A i \in 1 .. Len(delivered) : Append(Arrivals, Arrived(d))[i] = Arrived(delivered[i])
      BY <1>2, <2>4, ArrivalsType
    <3>4. \A i \in 1 .. Len(delivered) + 1 : Arrivals'[i] = Append(Arrivals, Arrived(d))[i]
      BY <2>2, <3>1, <3>3
    <3>. QED BY <3>2, <3>3, <3>4, SeqEqual
  <2>6. CASE Arrived(d) = 0
    <3>1. ~\E u \in 1 .. Len(sent) : Whole(d, u)
      BY <2>2, <2>3, <2>6, ArrivedIs
    <3>2. reused # {}
      <4>1. SUFFICES ASSUME reused = {} PROVE FALSE
        OBVIOUS
      <4>2. PICK i : i = Len(delivered) + 1
        OBVIOUS
      <4>3. i \in 1 .. Len(delivered') /\ delivered'[i] = d /\ d.key \notin reused'
        BY <1>1, <2>2, <4>1, <4>2
      <4>4. PICK u \in 1 .. Len(sent') : Whole(delivered[i], u)'
        BY <4>3 DEF IndInv, NoMixing
      <4>5. Whole(d, u)
        BY <1>1, <4>3, <4>4 DEF Whole
      <4>. QED BY <1>1, <3>1, <4>5
    <3>. QED BY <1>1, <2>5, <2>6, <3>2 DEF Delivery!DeliveryNext, Delivery!Garble, Delivery!Garbled
  <2>7. CASE Arrived(d) # 0
    <3>1. Whole(d, Arrived(d)) /\ d.data[0] = Arrived(d)
      BY <2>2, <2>3, <2>7, ArrivedIs, WholeIsFirst
    <3>2. Arrived(d) \in 1 .. Len(sent)
      BY <1>1, <2>2, <3>1 DEF FirstIsOnce, FirstAssembled
    <3>3. \A i \in 1 .. Len(Arrivals) : Arrivals[i] # Arrived(d)
      <4>. SUFFICES ASSUME NEW i \in 1 .. Len(delivered), Arrived(delivered[i]) = Arrived(d)
                    PROVE  FALSE
        BY <1>2, ArrivalsType
      <4>1. delivered[i] \in Assembled
        BY <1>2 DEF TypeOK
      <4>2. delivered[i].data[0] = Arrived(d)
        BY <2>2, <2>7, <4>1, ArrivedIs, WholeIsFirst
      <4>. QED BY <2>2, <3>1, <4>2 DEF FirstIsOnce, FirstAssembled
    <3>4. Delivery!Arrive(Arrived(d))
      BY <1>1, <2>5, <3>3 DEF Delivery!Arrive
    <3>. QED BY <3>2, <3>4 DEF Delivery!DeliveryNext
  <2>. QED BY <2>6, <2>7
<1>. QED BY <1>3, <1>4

\* The two models of a connection, with all that the network may do, implement the
\* relay that PacketDelivery promises: packets arrive whole and at most once.
THEOREM DeliveryIsImplemented == Spec => ImplementsDelivery
<1>1. Init => Delivery!DeliveryInit
  <2>. SUFFICES ASSUME Init PROVE Delivery!DeliveryInit
    OBVIOUS
  <2>1. Arrivals = <<>>
    BY DEF Init, Arrivals
  <2>. QED BY <2>1 DEF Init, Delivery!DeliveryInit
<1>2. IndInv /\ IndInv' /\ FirstIsOnce /\ FirstIsOnce' /\ [Next]_vars
        => [Delivery!DeliveryNext]_Delivery!deliveryVars
  <2>. SUFFICES ASSUME IndInv, IndInv', FirstIsOnce, FirstIsOnce', [Next]_vars
                PROVE  Delivery!DeliveryNext \/ UNCHANGED Delivery!deliveryVars
    OBVIOUS
  <2>1. ASSUME Shrinks PROVE UNCHANGED Delivery!deliveryVars
    <3>1. UNCHANGED <<sent, delivered, reused>>
      BY <2>1 DEF Shrinks
    <3>2. Arrivals' = Arrivals
      BY <3>1 DEF Arrivals, Arrived, Whole
    <3>. QED BY <3>1, <3>2 DEF Delivery!deliveryVars
  <2>2. ASSUME NEW side \in Sides, NEW a \in AssocIds, NEW n \in 1 .. MaxFrags, SendPacket(side, a, n)
        PROVE  Delivery!DeliveryNext
    BY <2>2, SendPacketArrivals DEF Delivery!DeliveryNext
  <2>. QED BY <2>1, <2>2, StepKinds, AssembleArrivals
<1>. QED BY <1>1, <1>2, Inductive, FirstFragmentIsOnce, PTL DEF Spec, ImplementsDelivery, Delivery!DeliverySpec
=============================================================================
