--------------------------- MODULE PacketFragments ---------------------------
(***************************************************************************)
(* The iterator tuic::model::packet::Fragments, which cuts the payload of  *)
(* a UDP packet into Packet commands that each fit max_pkt_size: the       *)
(* number of fragments it announces in every header (FRAG_TOTAL) and the   *)
(* fragments it yields. A payload is its length: a fragment is the range   *)
(* of bytes [start, start + size) of it.                                   *)
(***************************************************************************)
EXTENDS Integers, Sequences

CONSTANTS
  Addresses,     \* addresses of the packets to cut, [kind, chars] records
  MaxPktSizes,   \* values of max_pkt_size: max_datagram_size() or u16::MAX
  PayloadLens    \* lengths of the payloads

\* The integer casts `as u8` and `as u16` are taken modulo these.
U8Space == 256
U16Space == 65536

\* The serialized length of an Address; chars is the length of a domain name.
NoAddress == [kind |-> "none", chars |-> 0]

\* Faulty: no room for the length byte of a domain name.
AddressLenNoCount(addr) ==
  1 + CASE addr.kind = "none" -> 0
        [] addr.kind = "domain" -> addr.chars + 2
        [] addr.kind = "ipv4" -> 4 + 2
        [] addr.kind = "ipv6" -> 16 + 2

AddressLen(addr) ==
  1 + CASE addr.kind = "none" -> 0
        [] addr.kind = "domain" -> 1 + addr.chars + 2
        [] addr.kind = "ipv4" -> 4 + 2
        [] addr.kind = "ipv6" -> 16 + 2

\* Packet::len: the fixed fields and the address.
PacketLen(addr) == 2 + 2 + 1 + 1 + 2 + AddressLen(addr)

\* The length of a Header::Packet, with version and type.
HeaderLen(addr) == 2 + PacketLen(addr)

AddressKinds == {"domain", "ipv4", "ipv6"}

ASSUME AddressesAssumption == Addresses \subseteq [kind: AddressKinds, chars: Nat]
ASSUME SizesAssumption == MaxPktSizes \subseteq 1 .. U16Space - 1 /\ PayloadLens \subseteq Nat
\* QUIC datagrams hold a header and a payload of some bytes, and no UDP payload
\* (65527 bytes at most) needs as many as 255 of them.
ASSUME RoomAssumption ==
  \A max \in MaxPktSizes :
    /\ \A addr \in Addresses : HeaderLen(addr) < max
    /\ \A len \in PayloadLens : len \div (max - HeaderLen(NoAddress)) + 2 < U8Space

VARIABLES
  max_pkt_size, payload_len, dest,              \* the arguments of Fragments::new
  addr, frag_total, next_frag_id, next_frag_start,   \* the fields of Fragments
  out,                                          \* fragments yielded
  status                                        \* "running", "exhausted", "panicked"

vars == <<max_pkt_size, payload_len, dest, addr, frag_total, next_frag_id,
          next_frag_start, out, status>>

-----------------------------------------------------------------------------

FirstSize == max_pkt_size - HeaderLen(dest)
RestSize == max_pkt_size - HeaderLen(NoAddress)

\* Faulty: cuts a payload that fits the first fragment.
FragTotalEager(len, first, rest) ==
  IF first <= len THEN (1 + (len - first) \div rest + 1) % U8Space ELSE 1

\* Faulty: forgets the last, partial fragment.
FragTotalFloor(len, first, rest) ==
  IF first < len THEN (1 + (len - first) \div rest) % U8Space ELSE 1

\* frag_total as Fragments::new computes it, cast to u8.
FragTotal(len, first, rest) ==
  IF first < len THEN (1 + (len - first) \div rest + 1) % U8Space ELSE 1

\* Fragments::new.
Init ==
  /\ max_pkt_size \in MaxPktSizes
  /\ payload_len \in PayloadLens
  /\ dest \in Addresses
  /\ addr = dest
  /\ frag_total = FragTotal(payload_len, FirstSize, RestSize)
  /\ next_frag_id = 0
  /\ next_frag_start = 0
  /\ out = <<>>
  /\ status = "running"

\* Faulty: the room of a later fragment, also for the one with the address.
PayloadSizeNoAddress == RestSize

\* Room for payload beside the next header.
PayloadSize == max_pkt_size - HeaderLen(addr)

NextFragEnd ==
  IF next_frag_start + PayloadSize < payload_len
  THEN next_frag_start + PayloadSize ELSE payload_len

\* next: the address goes with the first fragment (addr.take()).
YieldFragment ==
  /\ status = "running"
  /\ next_frag_id < frag_total
  /\ next_frag_start < payload_len
  /\ out' = Append(out, [frag_id |-> next_frag_id, start |-> next_frag_start,
                         size |-> (NextFragEnd - next_frag_start) % U16Space, addr |-> addr])
  /\ addr' = NoAddress
  /\ next_frag_id' = next_frag_id + 1
  /\ next_frag_start' = NextFragEnd
  /\ UNCHANGED <<max_pkt_size, payload_len, dest, frag_total, status>>

\* next: payload[next_frag_start] is past the end of the payload.
IndexPanic ==
  /\ status = "running"
  /\ next_frag_id < frag_total
  /\ next_frag_start >= payload_len
  /\ status' = "panicked"
  /\ UNCHANGED <<max_pkt_size, payload_len, dest, addr, frag_total, next_frag_id,
                 next_frag_start, out>>

\* next returns None.
Exhaust ==
  /\ status = "running"
  /\ next_frag_id >= frag_total
  /\ status' = "exhausted"
  /\ UNCHANGED <<max_pkt_size, payload_len, dest, addr, frag_total, next_frag_id,
                 next_frag_start, out>>

Next == YieldFragment \/ IndexPanic \/ Exhaust

Spec == Init /\ [][Next]_vars

-----------------------------------------------------------------------------
(* Properties *)

\* A payload length that the arithmetic of frag_total gets wrong: empty, or
\* such that the fragments after the first are all full.
AtBoundary ==
  \/ payload_len = 0
  \/ FirstSize < payload_len /\ (payload_len - FirstSize) % RestSize = 0

\* Every fragment fits the datagram with its header, or send_datagram refuses it.
FitsDatagram ==
  \A i \in 1 .. Len(out) : HeaderLen(out[i].addr) + out[i].size <= max_pkt_size

\* The fragments so far are consecutive non-empty ranges of the payload, numbered
\* from 0, and only the first carries the destination.
Consecutive ==
  \A i \in 1 .. Len(out) :
    /\ out[i].frag_id = i - 1
    /\ out[i].start = IF i = 1 THEN 0 ELSE out[i - 1].start + out[i - 1].size
    /\ out[i].size > 0
    /\ out[i].addr = IF i = 1 THEN dest ELSE NoAddress

\* An iterator that ran to its end cut the whole payload into consecutive
\* fragments, as many as every header announces.
Lossless ==
  status = "exhausted" =>
    /\ Consecutive
    /\ Len(out) = frag_total
    /\ out[Len(out)].start + out[Len(out)].size = payload_len

\* The iterator panics for the boundary lengths and for no other.
PanicsAtBoundary ==
  /\ status = "panicked" => AtBoundary
  /\ status = "exhausted" => ~AtBoundary

=============================================================================
