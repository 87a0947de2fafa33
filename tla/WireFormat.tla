----------------------------- MODULE WireFormat -----------------------------
(***************************************************************************)
(* The commands of the protocol as bytes: Header::write and the two        *)
(* readers, Header::unmarshal for datagrams and Header::async_unmarshal    *)
(* for streams, which read the same fields in the same order. A reader     *)
(* takes bytes from the front of what has arrived; p is how many it has    *)
(* taken. read_exact fails when there are too few.                         *)
(***************************************************************************)
EXTENDS Integers, Sequences

VERSION == 5
Bytes == 0 .. 255
Words == 0 .. 65535

\* put_u16, u16::from_be_bytes, and a writer with the wrong byte order.
PutU16Swapped(n) == <<n % 256, n \div 256>>
PutU16(n) == <<n \div 256, n % 256>>
GetU16(s, p) == s[p + 1] * 256 + s[p + 2]

\* An Address: host is a domain name's bytes or an IP address's octets.
NoneAddress == [kind |-> "none", host |-> <<>>, port |-> 0]
\* Names are of one-byte characters, and their length is written in a byte.
Names == {host \in Seq(0 .. 127) : Len(host) <= 255}
AddressRecords ==
  {NoneAddress} \cup [kind: {"domain"}, host: Names, port: Words]
    \cup [kind: {"ipv4"}, host: [1 .. 4 -> Bytes], port: Words]
    \cup [kind: {"ipv6"}, host: [1 .. 16 -> Bytes], port: Words]
AddressCode(addr) ==
  CASE addr.kind = "none" -> 255
    [] addr.kind = "domain" -> 0
    [] addr.kind = "ipv4" -> 1
    [] addr.kind = "ipv6" -> 2

\* The Header of a packet, and those of the other commands.
PacketHeaders ==
  [type: {"packet"}, assoc_id: Words, pkt_id: Words, frag_total: Bytes, frag_id: Bytes,
   size: Words, addr: AddressRecords]
CommandHeaders ==
  [type: {"authenticate"}, uuid: [1 .. 16 -> Bytes], token: [1 .. 32 -> Bytes]]
    \cup [type: {"connect"}, addr: AddressRecords]
    \cup [type: {"dissociate"}, assoc_id: Words]
    \cup [type: {"heartbeat"}]

TypeCode(h) ==
  CASE h.type = "authenticate" -> 0
    [] h.type = "connect" -> 1
    [] h.type = "packet" -> 2
    [] h.type = "dissociate" -> 3
    [] h.type = "heartbeat" -> 4

-----------------------------------------------------------------------------
(* Writing *)

WriteAddress(addr) ==
  <<AddressCode(addr)>> \o
  CASE addr.kind = "none" -> <<>>
    [] addr.kind = "domain" -> <<Len(addr.host) % 256>> \o addr.host \o PutU16(addr.port)
    [] OTHER -> addr.host \o PutU16(addr.port)

WritePacket(h) ==
  PutU16(h.assoc_id) \o PutU16(h.pkt_id) \o <<h.frag_total, h.frag_id>>
    \o PutU16(h.size) \o WriteAddress(h.addr)

WriteHeader(h) ==
  <<VERSION, TypeCode(h)>> \o
  CASE h.type = "authenticate" -> h.uuid \o h.token
    [] h.type = "connect" -> WriteAddress(h.addr)
    [] h.type = "packet" -> WritePacket(h)
    [] h.type = "dissociate" -> PutU16(h.assoc_id)
    [] h.type = "heartbeat" -> <<>>

-----------------------------------------------------------------------------
(* Reading: a value and the position after it, or an UnmarshalError. *)

Read(value, p) == [ok |-> TRUE, value |-> value, pos |-> p]
Failed(error) == [ok |-> FALSE, error |-> error]

\* read_exact of n bytes succeeds.
Arrived(s, p, n) == p + n <= Len(s)

\* String::from_utf8, on names of one-byte characters.
Utf8(bytes) == \A i \in 1 .. Len(bytes) : bytes[i] < 128

ReadHost(s, p, kind, n) ==
  IF ~Arrived(s, p, n + 2) THEN Failed("Io")
  ELSE IF kind = "domain" /\ ~Utf8(SubSeq(s, p + 1, p + n)) THEN Failed("AddressParse")
  ELSE Read([kind |-> kind, host |-> SubSeq(s, p + 1, p + n), port |-> GetU16(s, p + n)],
            p + n + 2)

\* Faulty: the port is taken for part of the name.
ReadAddressLong(s, p) ==
  IF ~Arrived(s, p, 1) THEN Failed("Io")
  ELSE CASE s[p + 1] = 255 -> Read(NoneAddress, p + 1)
         [] s[p + 1] = 0 -> IF ~Arrived(s, p, 2) THEN Failed("Io")
                            ELSE ReadHost(s, p + 2, "domain", s[p + 2] + 2)
         [] s[p + 1] = 1 -> ReadHost(s, p + 1, "ipv4", 4)
         [] s[p + 1] = 2 -> ReadHost(s, p + 1, "ipv6", 16)
         [] OTHER -> Failed("InvalidAddressType")

ReadAddress(s, p) ==
  IF ~Arrived(s, p, 1) THEN Failed("Io")
  ELSE CASE s[p + 1] = 255 -> Read(NoneAddress, p + 1)
         [] s[p + 1] = 0 -> IF ~Arrived(s, p, 2) THEN Failed("Io")
                            ELSE ReadHost(s, p + 2, "domain", s[p + 2])
         [] s[p + 1] = 1 -> ReadHost(s, p + 1, "ipv4", 4)
         [] s[p + 1] = 2 -> ReadHost(s, p + 1, "ipv6", 16)
         [] OTHER -> Failed("InvalidAddressType")

ReadAuthenticate(s, p) ==
  IF ~Arrived(s, p, 48) THEN Failed("Io")
  ELSE Read([type |-> "authenticate", uuid |-> SubSeq(s, p + 1, p + 16),
             token |-> SubSeq(s, p + 17, p + 48)], p + 48)

ReadConnect(s, p) ==
  LET addr == ReadAddress(s, p) IN
  IF ~addr.ok THEN addr ELSE Read([type |-> "connect", addr |-> addr.value], addr.pos)

ReadPacket(s, p) ==
  IF ~Arrived(s, p, 8) THEN Failed("Io")
  ELSE LET addr == ReadAddress(s, p + 8) IN
       IF ~addr.ok THEN addr
       ELSE Read([type |-> "packet", assoc_id |-> GetU16(s, p), pkt_id |-> GetU16(s, p + 2),
                  frag_total |-> s[p + 5], frag_id |-> s[p + 6], size |-> GetU16(s, p + 6),
                  addr |-> addr.value], addr.pos)

ReadDissociate(s, p) ==
  IF ~Arrived(s, p, 2) THEN Failed("Io")
  ELSE Read([type |-> "dissociate", assoc_id |-> GetU16(s, p)], p + 2)

ReadHeartbeat(p) == Read([type |-> "heartbeat"], p)

ReadHeader(s) ==
  IF ~Arrived(s, 0, 1) THEN Failed("Io")
  ELSE IF s[1] # VERSION THEN Failed("InvalidVersion")
  ELSE IF ~Arrived(s, 1, 1) THEN Failed("Io")
  ELSE CASE s[2] = 0 -> ReadAuthenticate(s, 2)
         [] s[2] = 1 -> ReadConnect(s, 2)
         [] s[2] = 2 -> ReadPacket(s, 2)
         [] s[2] = 3 -> ReadDissociate(s, 2)
         [] s[2] = 4 -> ReadHeartbeat(2)
         [] OTHER -> Failed("InvalidCommand")
=============================================================================
