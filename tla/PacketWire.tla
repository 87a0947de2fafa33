----------------------------- MODULE PacketWire -----------------------------
(***************************************************************************)
(* PacketFragments composed with WireFormat and with the channels that     *)
(* tuic_quinn::Connection uses: every fragment that the iterator yields is *)
(* written as packet_native and packet_quic do, and read as the accept     *)
(* functions and Packet::accept do. Commands are the other headers.        *)
(***************************************************************************)
EXTENDS PacketFragments, WireFormat

CONSTANTS
  Commands,   \* headers that are sent beside the fragments
  AssocId, PktId,   \* the packet's associate ID and PKT_ID
  Port        \* the port of its address

ASSUME CommandsAssumption == Commands \subseteq CommandHeaders
ASSUME PacketAssumption == AssocId \in Words /\ PktId \in Words /\ Port \in Words
\* A domain name comes from a field of SOCKS5 whose length is one byte.
ASSUME NamesAssumption == \A a \in Addresses : a.chars <= 255

\* An address of PacketFragments with a host of its kind.
Concrete(a) ==
  IF a.kind = "none" THEN NoneAddress
  ELSE [kind |-> a.kind, port |-> Port,
        host |-> [i \in 1 .. CASE a.kind = "domain" -> a.chars
                               [] a.kind = "ipv4" -> 4
                               [] a.kind = "ipv6" -> 16 |-> 97 + (i % 26)]]

\* The PacketHeader that Fragments::next makes.
FragmentHeader(f) ==
  [type |-> "packet", assoc_id |-> AssocId, pkt_id |-> PktId, frag_total |-> frag_total,
   frag_id |-> f.frag_id, size |-> f.size, addr |-> Concrete(f.addr)]

\* Byte i of the payload, and the bytes of a fragment.
PayloadByte(i) == i % 256
FragmentBytes(f) == [i \in 1 .. f.size |-> PayloadByte(f.start + i)]

\* packet_native and packet_quic: the header, then the fragment.
Written(f) == WriteHeader(FragmentHeader(f)) \o FragmentBytes(f)

-----------------------------------------------------------------------------
(* Channels: where each end sends a command and where it accepts one. A     *)
(* packet goes in a datagram in relay mode native, in a stream in mode quic. *)

Sides == {"client", "server"}
Peer(side) == IF side = "client" THEN "server" ELSE "client"

ClientChannels(type) ==
  CASE type \in {"authenticate", "dissociate"} -> {"uni"}
    [] type = "connect" -> {"bi"}
    [] type = "packet" -> {"datagram", "uni"}
    [] type = "heartbeat" -> {"datagram"}
Channels(side, type) ==
  IF side = "client" THEN ClientChannels(type)
  ELSE IF type = "packet" THEN {"datagram", "uni"} ELSE {}

\* The client's accept functions: only packets, and nothing on a bi stream.
ClientAccepts(channel) == IF channel = "bi" THEN {} ELSE {"packet"}

\* Faulty: a server that takes no heartbeats.
ServerAcceptsNoHeartbeat(channel) ==
  CASE channel = "uni" -> {"authenticate", "packet", "dissociate"}
    [] channel = "bi" -> {"connect"}
    [] channel = "datagram" -> {"packet"}

\* The server's accept functions.
ServerAccepts(channel) ==
  CASE channel = "uni" -> {"authenticate", "packet", "dissociate"}
    [] channel = "bi" -> {"connect"}
    [] channel = "datagram" -> {"packet", "heartbeat"}

Accepts(side, channel) ==
  IF side = "client" THEN ClientAccepts(channel) ELSE ServerAccepts(channel)

\* The size that a packet's header names is not there: the client checks a
\* datagram, the server takes a slice of it, and a stream is read_exact.
TooShort(side, channel) ==
  CASE channel # "datagram" -> Failed("Io")
    [] side = "client" -> Failed("PayloadLength")
    [] side = "server" -> Failed("panic")

\* Read a header from s, which arrived on a channel, then a packet's payload. The
\* client has the packet's session here; one without it is for UdpModel!RecvPacket.
Accept(side, channel, s) ==
  LET h == ReadHeader(s) IN
  IF ~h.ok THEN h
  ELSE IF h.value.type \notin Accepts(side, channel) THEN Failed("BadCommand")
  ELSE IF h.value.type # "packet" THEN Read([header |-> h.value, payload |-> <<>>], h.pos)
  ELSE IF ~Arrived(s, h.pos, h.value.size) THEN TooShort(side, channel)
  ELSE Read([header |-> h.value,
             payload |-> SubSeq(s, h.pos + 1, h.pos + h.value.size)], h.pos + h.value.size)

Yielded == {out[i] : i \in 1 .. Len(out)}
Headers == Commands \cup {FragmentHeader(f) : f \in Yielded}

-----------------------------------------------------------------------------
(* Properties *)

\* What Header::write wrote is read back, whatever follows it on the stream, and
\* no part of it is: a reader that has only the front of a header never takes it
\* for a shorter one.
HeadersSurvive ==
  \A h \in Headers :
    LET s == WriteHeader(h) IN
    /\ ReadHeader(s \o <<0, 255>>) = Read(h, Len(s))
    /\ \A n \in 0 .. Len(s) - 1 : ReadHeader(SubSeq(s, 1, n)) = Failed("Io")

\* Header::len, which the sizes of the fragments are computed from, is the number
\* of bytes written, so a datagram is as long as max_pkt_size allows and no longer.
LenIsExact ==
  \A f \in Yielded :
    /\ Len(WriteHeader(FragmentHeader(f))) = HeaderLen(f.addr)
    /\ Len(Written(f)) <= max_pkt_size

\* A fragment that either end sends, on whichever channel, is taken by its peer as
\* that fragment: its header and the bytes of the payload from its start on.
FragmentsSurvive ==
  \A f \in Yielded, side \in Sides : \A channel \in Channels(side, "packet") :
    Accept(Peer(side), channel, Written(f)) =
      Read([header |-> FragmentHeader(f), payload |-> FragmentBytes(f)], Len(Written(f)))

\* Both ends agree on where a command travels: the peer makes a task of it on the
\* channels that the sender uses, and refuses it on any other.
ChannelsAgree ==
  \A h \in Commands, side \in Sides, channel \in {"uni", "bi", "datagram"} :
    Accept(Peer(side), channel, WriteHeader(h)).ok <=> channel \in Channels(side, h.type)
=============================================================================
