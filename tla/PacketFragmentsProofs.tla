------------------------ MODULE PacketFragmentsProofs ------------------------
(* Proofs about PacketFragments and PacketWire, for all sizes, lengths, addresses
   and commands. *)
EXTENDS PacketWire, SequenceTheorems, TLAPS

\* All the proofs need of the widths.
LEMMA Widths == U8Space \in Nat /\ U16Space \in Nat /\ U8Space > 2 /\ U16Space > 2
  BY SMT DEF U8Space, U16Space

\* Division with remainder.
LEMMA DivMod ==
  ASSUME NEW a \in Nat, NEW b \in Nat \ {0}
  PROVE  /\ a \div b \in Nat
         /\ a % b \in 0 .. b - 1
         /\ a = b * (a \div b) + (a % b)
<1>1. a \div b \in Nat
  OBVIOUS
<1>2. a % b \in 0 .. b - 1
  OBVIOUS
<1>3. a = b * (a \div b) + (a % b)
  BY Z3
<1>. QED BY <1>1, <1>2, <1>3

\* The largest cut point that is not past a, and the next one.
LEMMA DivBounds ==
  ASSUME NEW a \in Nat, NEW b \in Nat \ {0}
  PROVE  /\ b * (a \div b) <= a
         /\ a < b * (a \div b) + b
         /\ b * (a \div b) = a <=> a % b = 0
  BY DivMod

\* Cut points are ordered.
LEMMA MulMonotone ==
  ASSUME NEW b \in Nat, NEW i \in Nat, NEW j \in Nat, i <= j
  PROVE  b * i <= b * j
  OBVIOUS

LEMMA MulSucc ==
  ASSUME NEW b \in Nat, NEW i \in Nat
  PROVE  b * (i + 1) = b * i + b
  OBVIOUS

-----------------------------------------------------------------------------
(* The inductive invariant *)

\* Where fragment i starts if the payload is long enough.
Cut(i) == IF i = 0 THEN 0 ELSE FirstSize + RestSize * (i - 1)

Shorter(a, b) == IF a < b THEN a ELSE b

\* The arguments are those of some call of Fragments::new, which fixed frag_total.
Arguments ==
  /\ max_pkt_size \in MaxPktSizes
  /\ payload_len \in PayloadLens
  /\ dest \in Addresses
  /\ frag_total = FragTotal(payload_len, FirstSize, RestSize)
  /\ status \in {"running", "exhausted", "panicked"}

\* The cursor is at the cut point of its fragment, and went past earlier ones.
Cursor ==
  /\ next_frag_id \in Nat
  /\ next_frag_start = Shorter(Cut(next_frag_id), payload_len)
  /\ next_frag_id > 0 => Cut(next_frag_id - 1) < payload_len
  /\ addr = IF next_frag_id = 0 THEN dest ELSE NoAddress
  /\ next_frag_id <= frag_total

FragmentRecords == [frag_id: Nat, start: Nat, size: Nat, addr: Addresses \cup {NoAddress}]

\* The fragments yielded end where the cursor is.
Progress ==
  /\ out \in Seq(FragmentRecords)
  /\ Len(out) = next_frag_id
  /\ next_frag_id > 0 => out[Len(out)].start + out[Len(out)].size = next_frag_start

\* What each status says of the cursor.
Ended ==
  /\ status = "exhausted" => next_frag_id = frag_total
  /\ status = "panicked" => next_frag_id < frag_total /\ next_frag_start = payload_len

IndInv == Arguments /\ Cursor /\ Progress /\ Ended /\ Consecutive /\ FitsDatagram

\* The sizes of the fragments' payloads: the first is the smallest.
LEMMA Sizes ==
  ASSUME Arguments
  PROVE  /\ payload_len \in Nat
         /\ max_pkt_size \in 1 .. U16Space - 1
         /\ FirstSize \in 1 .. U16Space - 1
         /\ RestSize \in 1 .. U16Space - 1
         /\ FirstSize <= RestSize
         /\ HeaderLen(dest) \in Nat
         /\ HeaderLen(NoAddress) \in Nat
<1>1. AddressLen(dest) \in Nat /\ AddressLen(dest) >= 1
  <2>1. dest.kind \in AddressKinds /\ dest.chars \in Nat
    BY AddressesAssumption DEF Arguments
  <2>2. CASE dest.kind = "domain"
    BY <2>1, <2>2 DEF AddressLen
  <2>3. CASE dest.kind = "ipv4"
    BY <2>3 DEF AddressLen
  <2>4. CASE dest.kind = "ipv6"
    BY <2>4 DEF AddressLen
  <2>. QED BY <2>1, <2>2, <2>3, <2>4 DEF AddressKinds
<1>2. AddressLen(NoAddress) = 1
  BY DEF AddressLen, NoAddress
<1>3. HeaderLen(dest) < max_pkt_size
  BY RoomAssumption DEF Arguments
<1>4. max_pkt_size \in 1 .. U16Space - 1 /\ payload_len \in Nat
  BY SizesAssumption DEF Arguments
<1>5. /\ HeaderLen(dest) = 10 + AddressLen(dest)
      /\ HeaderLen(NoAddress) = 11
  BY <1>1, <1>2 DEF HeaderLen, PacketLen
<1>6. /\ FirstSize = max_pkt_size - HeaderLen(dest)
      /\ RestSize = max_pkt_size - 11
  BY <1>5 DEF FirstSize, RestSize
<1>. QED BY <1>1, <1>3, <1>4, <1>5, <1>6, Widths

\* The cast to u8 loses nothing.
LEMMA TotalFits ==
  ASSUME Arguments
  PROVE  frag_total = IF FirstSize < payload_len
                      THEN (payload_len - FirstSize) \div RestSize + 2 ELSE 1
<1>1. /\ payload_len \in Nat
      /\ FirstSize \in 1 .. U16Space - 1
      /\ RestSize \in 1 .. U16Space - 1
  BY Sizes
<1>2. payload_len \div RestSize + 2 < U8Space
  <2>1. max_pkt_size \in MaxPktSizes /\ payload_len \in PayloadLens
    BY DEF Arguments
  <2>. QED BY <2>1, RoomAssumption, Zenon DEF RestSize
<1>3. ASSUME FirstSize < payload_len
      PROVE  (payload_len - FirstSize) \div RestSize \in 0 .. U8Space - 3
  <2>. DEFINE a == payload_len - FirstSize
              q == a \div RestSize
              p == payload_len \div RestSize
  <2>1. a \in Nat /\ a <= payload_len /\ RestSize \in Nat \ {0}
    BY <1>1, <1>3
  <2>2. q \in Nat /\ RestSize * q <= a
    BY <2>1, DivBounds, DivMod
  <2>3. p \in Nat /\ payload_len < RestSize * p + RestSize
    BY <1>1, <2>1, DivBounds, DivMod
  <2>. HIDE DEF a, q, p
  <2>4. q <= p
    <3>1. SUFFICES ASSUME q >= p + 1 PROVE FALSE
      BY <2>2, <2>3
    <3>2. RestSize * (p + 1) <= RestSize * q
      BY <2>1, <2>2, <2>3, <3>1, MulMonotone
    <3>3. RestSize * (p + 1) = RestSize * p + RestSize
      BY <2>1, <2>3, MulSucc
    <3>4. RestSize * p \in Nat /\ RestSize * q \in Nat
      BY <2>1, <2>2, <2>3
    <3>. QED BY <1>1, <2>1, <2>2, <2>3, <3>2, <3>3, <3>4
  <2>. QED BY <1>2, <2>2, <2>3, <2>4, Widths DEF p, q, a
<1>4. CASE FirstSize < payload_len
  <2>. DEFINE q == (payload_len - FirstSize) \div RestSize
  <2>1. frag_total = (1 + q + 1) % U8Space
    BY <1>4 DEF Arguments, FragTotal
  <2>2. q \in 0 .. U8Space - 3
    BY <1>3, <1>4
  <2>. HIDE DEF q
  <2>3. 1 + q + 1 \in Nat /\ 1 + q + 1 < U8Space /\ 1 + q + 1 = q + 2
    BY <2>2, Widths
  <2>4. (1 + q + 1) % U8Space = 1 + q + 1
    BY <2>3, Widths
  <2>. QED BY <1>4, <2>1, <2>3, <2>4 DEF q
<1>5. CASE ~(FirstSize < payload_len)
  BY <1>5 DEF Arguments, FragTotal
<1>. QED BY <1>4, <1>5

LEMMA TotalIsNatural ==
  ASSUME Arguments
  PROVE  frag_total \in Nat /\ frag_total >= 1
<1>1. /\ payload_len \in Nat
      /\ FirstSize \in Nat
      /\ RestSize \in Nat \ {0}
  BY Sizes, Widths
<1>2. FirstSize < payload_len => (payload_len - FirstSize) \div RestSize \in Nat
  BY <1>1, DivMod
<1>. QED BY <1>2, TotalFits

\* Cut points are natural numbers, in order.
LEMMA CutIsInteger ==
  ASSUME Arguments, NEW i \in Nat
  PROVE  Cut(i) \in Nat
<1>1. FirstSize \in Nat /\ RestSize \in Nat
  BY Sizes, Widths
<1>2. CASE i = 0
  BY <1>2 DEF Cut
<1>3. CASE i # 0
  <2>1. i - 1 \in Nat
    BY <1>3
  <2>2. RestSize * (i - 1) \in Nat
    BY <1>1, <2>1
  <2>. QED BY <1>1, <1>3, <2>2 DEF Cut
<1>. QED BY <1>2, <1>3

LEMMA CutMonotone ==
  ASSUME Arguments, NEW i \in Nat, NEW j \in Nat, i <= j
  PROVE  Cut(i) <= Cut(j)
<1>1. FirstSize \in Nat /\ RestSize \in Nat /\ Cut(i) \in Nat /\ Cut(j) \in Nat
  BY Sizes, Widths, CutIsInteger
<1>2. CASE i = 0
  BY <1>1, <1>2 DEF Cut
<1>3. CASE i # 0
  <2>1. i - 1 \in Nat /\ j - 1 \in Nat /\ i - 1 <= j - 1 /\ j # 0
    BY <1>3
  <2>2. RestSize * (i - 1) <= RestSize * (j - 1)
    BY <1>1, <2>1, MulMonotone
  <2>3. RestSize * (i - 1) \in Nat /\ RestSize * (j - 1) \in Nat
    BY <1>1, <2>1
  <2>. QED BY <1>1, <1>3, <2>1, <2>2, <2>3 DEF Cut
<1>. QED BY <1>2, <1>3

LEMMA InitIndInv == Init => IndInv
<1>. SUFFICES ASSUME Init PROVE IndInv
  OBVIOUS
<1>1. Arguments
  BY DEF Init, Arguments
<1>2. payload_len \in Nat
  BY <1>1, Sizes
<1>3. frag_total \in Nat
  BY <1>1, TotalIsNatural
<1>4. Cursor
  BY <1>2, <1>3 DEF Init, Cursor, Cut, Shorter
<1>5. Progress /\ Ended /\ Consecutive /\ FitsDatagram
  BY DEF Init, Progress, Ended, Consecutive, FitsDatagram
<1>. QED BY <1>1, <1>4, <1>5 DEF IndInv

\* The room beside the next header takes the cursor from a cut point to the next.
LEMMA Advance ==
  ASSUME IndInv, next_frag_start < payload_len
  PROVE  /\ PayloadSize = IF next_frag_id = 0 THEN FirstSize ELSE RestSize
         /\ next_frag_start = Cut(next_frag_id)
         /\ Cut(next_frag_id) \in Nat
         /\ Cut(next_frag_id + 1) = next_frag_start + PayloadSize
         /\ NextFragEnd = Shorter(Cut(next_frag_id + 1), payload_len)
         /\ NextFragEnd - next_frag_start \in 1 .. PayloadSize
         /\ NextFragEnd \in Nat
<1>1. /\ payload_len \in Nat
      /\ FirstSize \in Nat \ {0}
      /\ RestSize \in Nat \ {0}
      /\ next_frag_id \in Nat
  BY Sizes, Widths DEF IndInv, Cursor
<1>2. PayloadSize = IF next_frag_id = 0 THEN FirstSize ELSE RestSize
  BY DEF IndInv, Cursor, PayloadSize, FirstSize, RestSize
<1>3. Cut(next_frag_id) \in Nat
  <2>1. CASE next_frag_id = 0
    BY <2>1 DEF Cut
  <2>2. CASE next_frag_id # 0
    <3>1. next_frag_id - 1 \in Nat
      BY <1>1, <2>2
    <3>2. RestSize * (next_frag_id - 1) \in Nat
      BY <1>1, <3>1
    <3>. QED BY <1>1, <2>2, <3>2 DEF Cut
  <2>. QED BY <2>1, <2>2
<1>4. next_frag_start = Cut(next_frag_id)
  BY <1>1, <1>3 DEF IndInv, Cursor, Shorter
<1>5. Cut(next_frag_id + 1) = Cut(next_frag_id) + PayloadSize
  <2>1. CASE next_frag_id = 0
    BY <1>1, <1>2, <2>1 DEF Cut
  <2>2. CASE next_frag_id # 0
    <3>1. PICK j \in Nat : next_frag_id = j + 1
      BY <1>1, <2>2
    <3>2. /\ Cut(next_frag_id) = FirstSize + RestSize * j
          /\ Cut(next_frag_id + 1) = FirstSize + RestSize * (j + 1)
      BY <1>1, <3>1 DEF Cut
    <3>3. RestSize * (j + 1) = RestSize * j + RestSize /\ RestSize * j \in Nat
      BY <1>1, MulSucc
    <3>. QED BY <1>1, <1>2, <2>2, <3>2, <3>3
  <2>. QED BY <2>1, <2>2
<1>6. NextFragEnd = Shorter(Cut(next_frag_id + 1), payload_len)
  BY <1>4, <1>5 DEF NextFragEnd, Shorter
<1>. HIDE DEF PayloadSize
<1>. QED BY <1>1, <1>2, <1>3, <1>4, <1>5, <1>6 DEF Shorter

LEMMA YieldPreserves ==
  ASSUME IndInv, YieldFragment
  PROVE  IndInv'
<1>. PICK size : size = NextFragEnd - next_frag_start
  OBVIOUS
<1>. PICK frag : frag = [frag_id |-> next_frag_id, start |-> next_frag_start,
                         size |-> size, addr |-> addr]
  OBVIOUS
<1>1. next_frag_start < payload_len /\ next_frag_id < frag_total
  BY DEF YieldFragment
<1>2. /\ PayloadSize = IF next_frag_id = 0 THEN FirstSize ELSE RestSize
      /\ next_frag_start = Cut(next_frag_id)
      /\ Cut(next_frag_id) \in Nat
      /\ Cut(next_frag_id + 1) = next_frag_start + PayloadSize
      /\ NextFragEnd = Shorter(Cut(next_frag_id + 1), payload_len)
      /\ size \in 1 .. PayloadSize
      /\ NextFragEnd \in Nat
  BY <1>1, Advance
<1>3. /\ payload_len \in Nat
      /\ max_pkt_size \in 1 .. U16Space - 1
      /\ FirstSize \in 1 .. U16Space - 1
      /\ RestSize \in 1 .. U16Space - 1
      /\ HeaderLen(dest) \in Nat
      /\ HeaderLen(NoAddress) \in Nat
      /\ next_frag_id \in Nat
      /\ U16Space \in Nat
  BY Sizes, Widths DEF IndInv, Cursor
<1>4. size % U16Space = size
  <2>1. size \in Nat /\ size < U16Space
    BY <1>2, <1>3
  <2>. QED BY <1>3, <2>1
<1>5. /\ out' = Append(out, frag)
      /\ addr' = NoAddress
      /\ next_frag_id' = next_frag_id + 1
      /\ next_frag_start' = NextFragEnd
      /\ status = "running"
      /\ UNCHANGED <<max_pkt_size, payload_len, dest, frag_total, status>>
  BY <1>4 DEF YieldFragment
<1>6. FirstSize' = FirstSize /\ RestSize' = RestSize
  BY <1>5 DEF FirstSize, RestSize
<1>7. Arguments'
  BY <1>5, <1>6 DEF IndInv, Arguments
<1>8. frag_total \in Nat
  BY TotalIsNatural DEF IndInv
<1>9. Cursor'
  <2>2. /\ Cut(next_frag_id)' = Cut(next_frag_id + 1)
        /\ (next_frag_id > 0)' => Cut(next_frag_id - 1)' = Cut(next_frag_id)
    <3>1. Cut(next_frag_id)' = Cut(next_frag_id + 1)
      BY <1>5, <1>6, Zenon DEF Cut
    <3>2. next_frag_id' - 1 = next_frag_id
      BY <1>3, <1>5
    <3>3. Cut(next_frag_id - 1)' = Cut(next_frag_id)
      BY <1>6, <3>2, Zenon DEF Cut
    <3>. QED BY <3>1, <3>3
  <2>3. next_frag_start' = Shorter(Cut(next_frag_id)', payload_len)
    BY <1>2, <1>5, <2>2
  <2>4. next_frag_id' \in Nat /\ next_frag_id' # 0 /\ next_frag_id' <= frag_total'
    BY <1>1, <1>3, <1>5, <1>8
  <2>5. (next_frag_id > 0)' => Cut(next_frag_id - 1)' < payload_len'
    BY <1>1, <1>2, <1>5, <2>2
  <2>6. addr' = IF next_frag_id' = 0 THEN dest' ELSE NoAddress
    BY <1>5, <2>4
  <2>7. next_frag_start' = Shorter(Cut(next_frag_id), payload_len)'
    BY <1>5, <2>3 DEF Shorter
  <2>. QED BY <2>4, <2>5, <2>6, <2>7 DEF Cursor
<1>10. addr \in Addresses \cup {NoAddress}
  BY DEF IndInv, Arguments, Cursor
<1>11. frag \in FragmentRecords
  <2>1. size \in Nat /\ next_frag_start \in Nat
    BY <1>2, <1>3
  <2>. QED BY <1>3, <1>10, <2>1 DEF FragmentRecords
<1>12. /\ out \in Seq(FragmentRecords)
       /\ Len(out) = next_frag_id
       /\ next_frag_id > 0 => out[Len(out)].start + out[Len(out)].size = next_frag_start
  BY DEF IndInv, Progress
<1>13. /\ out' \in Seq(FragmentRecords)
       /\ Len(out') = next_frag_id + 1
       /\ out'[next_frag_id + 1] = frag
       /\ \A i \in 1 .. next_frag_id : out'[i] = out[i]
  BY <1>5, <1>11, <1>12
<1>14. Progress'
  <2>1. frag.start + frag.size = NextFragEnd
    BY <1>2, <1>3
  <2>. QED BY <1>5, <1>13, <2>1 DEF Progress
<1>15. Ended'
  BY <1>5 DEF Ended
<1>16. Consecutive'
  <2>. SUFFICES ASSUME NEW i \in 1 .. next_frag_id + 1
                PROVE  /\ out'[i].frag_id = i - 1
                       /\ out'[i].start = IF i = 1 THEN 0 ELSE out'[i - 1].start + out'[i - 1].size
                       /\ out'[i].size > 0
                       /\ out'[i].addr = IF i = 1 THEN dest ELSE NoAddress
    BY <1>5, <1>13 DEF Consecutive
  <2>1. CASE i \in 1 .. next_frag_id
    <3>1. i - 1 = 0 \/ i - 1 \in 1 .. next_frag_id
      BY <1>3, <2>1
    <3>2. i = 1 \/ out'[i - 1] = out[i - 1]
      BY <1>3, <1>13, <2>1, <3>1
    <3>. QED BY <1>12, <1>13, <2>1, <3>2 DEF IndInv, Consecutive
  <2>2. CASE i = next_frag_id + 1 /\ next_frag_id = 0
    <3>1. next_frag_start = 0 /\ addr = dest
      BY <1>2, <2>2 DEF Cut, IndInv, Cursor
    <3>. QED BY <1>2, <1>3, <1>13, <2>2, <3>1
  <2>3. CASE i = next_frag_id + 1 /\ next_frag_id > 0
    <3>1. addr = NoAddress
      BY <1>3, <2>3 DEF IndInv, Cursor
    <3>2. i - 1 = next_frag_id /\ i # 1 /\ next_frag_id \in 1 .. next_frag_id
      BY <1>3, <2>3
    <3>3. out'[i - 1].start + out'[i - 1].size = next_frag_start
      BY <1>12, <1>13, <2>3, <3>2
    <3>. QED BY <1>2, <1>3, <1>13, <2>3, <3>1, <3>2, <3>3
  <2>. QED BY <1>3, <2>1, <2>2, <2>3
<1>17. FitsDatagram'
  <2>1. HeaderLen(addr) + size <= max_pkt_size
    <3>1. PayloadSize = max_pkt_size - HeaderLen(addr) /\ HeaderLen(addr) \in Nat
      BY <1>3 DEF PayloadSize, IndInv, Cursor
    <3>. QED BY <1>2, <1>3, <3>1
  <2>2. ASSUME NEW i \in 1 .. next_frag_id + 1
        PROVE  HeaderLen(out'[i].addr) + out'[i].size <= max_pkt_size
    <3>1. CASE i \in 1 .. next_frag_id
      BY <1>12, <1>13, <3>1 DEF IndInv, FitsDatagram
    <3>2. CASE i = next_frag_id + 1
      BY <1>13, <2>1, <3>2
    <3>. QED BY <1>3, <3>1, <3>2
  <2>. QED BY <1>5, <1>13, <2>2 DEF FitsDatagram, HeaderLen, PacketLen, AddressLen
<1>. QED BY <1>7, <1>9, <1>14, <1>15, <1>16, <1>17 DEF IndInv

LEMMA NextIndInv == IndInv /\ [Next]_vars => IndInv'
<1>. SUFFICES ASSUME IndInv, [Next]_vars PROVE IndInv'
  OBVIOUS
<1>1. CASE YieldFragment
  BY <1>1, YieldPreserves
<1>2. ASSUME UNCHANGED <<max_pkt_size, payload_len, dest, addr, frag_total, next_frag_id,
                         next_frag_start, out>>,
             status' \in {"running", "exhausted", "panicked"}, Ended'
      PROVE  IndInv'
  <2>1. FirstSize' = FirstSize /\ RestSize' = RestSize
    BY <1>2 DEF FirstSize, RestSize
  <2>2. Arguments'
    BY <1>2, <2>1 DEF IndInv, Arguments
  <2>3. Cut(next_frag_id)' = Cut(next_frag_id) /\ Cut(next_frag_id - 1)' = Cut(next_frag_id - 1)
    BY <1>2, <2>1, Zenon DEF Cut
  <2>4. Cursor'
    BY <1>2, <2>3, Zenon DEF IndInv, Cursor, Shorter
  <2>5. Progress' /\ Consecutive' /\ FitsDatagram'
    BY <1>2 DEF IndInv, Progress, Consecutive, FitsDatagram
  <2>. QED BY <1>2, <2>2, <2>4, <2>5 DEF IndInv
<1>3. CASE IndexPanic
  <2>1. next_frag_start = payload_len
    <3>1. payload_len \in Nat
      BY Sizes DEF IndInv
    <3>2. next_frag_start < payload_len \/ next_frag_start = payload_len
      BY DEF IndInv, Cursor, Shorter
    <3>3. Cut(next_frag_id) \in Nat
      BY CutIsInteger DEF IndInv, Cursor
    <3>. QED BY <1>3, <3>1, <3>2, <3>3 DEF IndexPanic, IndInv, Cursor, Shorter
  <2>2. Ended'
    BY <1>3, <2>1 DEF IndexPanic, Ended
  <2>. QED BY <1>2, <1>3, <2>2 DEF IndexPanic
<1>4. CASE Exhaust
  <2>1. next_frag_id = frag_total
    <3>1. frag_total \in Nat
      BY TotalIsNatural DEF IndInv
    <3>. QED BY <1>4, <3>1 DEF Exhaust, IndInv, Cursor
  <2>2. Ended'
    BY <1>4, <2>1 DEF Exhaust, Ended
  <2>. QED BY <1>2, <1>4, <2>2 DEF Exhaust
<1>5. CASE UNCHANGED vars
  <2>1. Ended' /\ status' \in {"running", "exhausted", "panicked"}
    BY <1>5 DEF vars, IndInv, Ended, Arguments
  <2>. QED BY <1>2, <1>5, <2>1 DEF vars
<1>. QED BY <1>1, <1>3, <1>4, <1>5 DEF Next

\* Before every call of next the position in the payload is the sum of the rooms so far.
THEOREM Inductive == Spec => []IndInv
  BY InitIndInv, NextIndInv, PTL DEF Spec

-----------------------------------------------------------------------------
(* What the invariant says of frag_total *)

\* The cut point of the last fragment announced is not past the payload's end,
\* and is at it exactly when the last fragment would be empty.
LEMMA LastCut ==
  ASSUME Arguments
  PROVE  /\ Cut(frag_total) >= payload_len
         /\ frag_total - 1 \in Nat
         /\ Cut(frag_total - 1) <= payload_len
         /\ Cut(frag_total - 1) = payload_len <=> AtBoundary
<1>1. /\ payload_len \in Nat
      /\ FirstSize \in Nat \ {0}
      /\ RestSize \in Nat \ {0}
  BY Sizes, Widths
<1>2. CASE ~(FirstSize < payload_len)
  <2>1. frag_total = 1
    BY <1>2, TotalFits
  <2>2. Cut(1) = FirstSize + RestSize * 0 /\ RestSize * 0 = 0 /\ Cut(0) = 0
    BY <1>1 DEF Cut
  <2>. QED BY <1>1, <1>2, <2>1, <2>2 DEF AtBoundary
<1>3. CASE FirstSize < payload_len
  <2>. PICK a : a = payload_len - FirstSize
    OBVIOUS
  <2>. PICK q : q = a \div RestSize
    OBVIOUS
  <2>1. a \in Nat /\ payload_len = FirstSize + a
    BY <1>1, <1>3
  <2>2. /\ q \in Nat
        /\ RestSize * q <= a
        /\ a < RestSize * q + RestSize
        /\ RestSize * q = a <=> a % RestSize = 0
    BY <1>1, <2>1, DivMod, DivBounds
  <2>3. frag_total = q + 2
    BY <1>3, TotalFits
  <2>4. /\ Cut(frag_total) = FirstSize + RestSize * (q + 1)
        /\ Cut(frag_total - 1) = FirstSize + RestSize * q
        /\ frag_total - 1 \in Nat
    <3>1. frag_total - 1 = q + 1 /\ q + 1 - 1 = q /\ q + 1 # 0 /\ frag_total # 0
      BY <2>2, <2>3
    <3>. QED BY <2>2, <3>1 DEF Cut
  <2>5. RestSize * (q + 1) = RestSize * q + RestSize /\ RestSize * q \in Nat
    BY <1>1, <2>2, MulSucc
  <2>6. AtBoundary <=> a % RestSize = 0
    BY <1>1, <1>3 DEF AtBoundary
  <2>. QED BY <1>1, <2>1, <2>2, <2>4, <2>5, <2>6
<1>. QED BY <1>2, <1>3

\* Every fragment fits its datagram.
THEOREM FragmentsFitDatagrams == Spec => []FitsDatagram
<1>1. IndInv => FitsDatagram
  BY DEF IndInv
<1>. QED BY <1>1, Inductive, PTL

\* An iterator that runs to its end loses no byte of the payload.
THEOREM FragmentationIsLossless == Spec => []Lossless
<1>1. ASSUME IndInv PROVE Lossless
  <2>. SUFFICES ASSUME status = "exhausted"
                PROVE  /\ Len(out) = frag_total
                       /\ out[Len(out)].start + out[Len(out)].size = payload_len
    BY <1>1 DEF IndInv, Lossless
  <2>1. next_frag_id = frag_total /\ Len(out) = frag_total
    BY <1>1 DEF IndInv, Ended, Progress
  <2>2. next_frag_start = payload_len
    <3>1. Cut(frag_total) >= payload_len /\ payload_len \in Nat
      BY <1>1, LastCut, Sizes DEF IndInv
    <3>2. next_frag_start = Shorter(Cut(frag_total), payload_len)
      BY <1>1, <2>1 DEF IndInv, Cursor
    <3>3. ~(Cut(frag_total) < payload_len)
      <4>1. Cut(frag_total) \in Int
        BY <1>1, CutIsInteger, TotalIsNatural DEF IndInv
      <4>. QED BY <3>1, <4>1
    <3>. QED BY <3>2, <3>3 DEF Shorter
  <2>3. next_frag_id > 0
    BY <1>1, <2>1, TotalIsNatural DEF IndInv
  <2>. QED BY <1>1, <2>1, <2>2, <2>3 DEF IndInv, Progress
<1>. QED BY <1>1, Inductive, PTL

\* The index panic happens for the boundary lengths, and only for them.
THEOREM PanicExactlyAtBoundary == Spec => []PanicsAtBoundary
<1>1. ASSUME IndInv PROVE PanicsAtBoundary
  <2>1. /\ payload_len \in Nat
        /\ frag_total \in Nat
        /\ next_frag_id \in Nat
    BY <1>1, Sizes, TotalIsNatural DEF IndInv, Cursor
  <2>2. /\ frag_total - 1 \in Nat
        /\ Cut(frag_total - 1) <= payload_len
        /\ Cut(frag_total - 1) = payload_len <=> AtBoundary
    BY <1>1, LastCut DEF IndInv
  <2>3. ASSUME status = "panicked" PROVE AtBoundary
    <3>1. next_frag_id < frag_total /\ next_frag_start = payload_len
      BY <1>1, <2>3 DEF IndInv, Ended
    <3>2. Cut(next_frag_id) >= payload_len
      <4>1. Cut(next_frag_id) \in Int
        BY <1>1, <2>1, CutIsInteger DEF IndInv
      <4>. QED BY <1>1, <2>1, <3>1, <4>1 DEF IndInv, Cursor, Shorter
    <3>3. Cut(next_frag_id) <= Cut(frag_total - 1)
      BY <1>1, <2>1, <2>2, <3>1, CutMonotone DEF IndInv
    <3>4. Cut(next_frag_id) \in Int /\ Cut(frag_total - 1) \in Int
      BY <1>1, <2>1, <2>2, CutIsInteger DEF IndInv
    <3>. QED BY <2>1, <2>2, <3>2, <3>3, <3>4
  <2>4. ASSUME status = "exhausted" PROVE ~AtBoundary
    <3>1. next_frag_id = frag_total /\ next_frag_id > 0
      BY <1>1, <2>1, <2>2, <2>4 DEF IndInv, Ended
    <3>2. Cut(frag_total - 1) < payload_len
      BY <1>1, <3>1 DEF IndInv, Cursor
    <3>3. Cut(frag_total - 1) \in Int
      BY <1>1, <2>2, CutIsInteger DEF IndInv
    <3>. QED BY <2>1, <2>2, <3>2, <3>3
  <2>. QED BY <2>3, <2>4 DEF PanicsAtBoundary
<1>. QED BY <1>1, Inductive, PTL
-----------------------------------------------------------------------------
(* The wire format: what Header::write wrote is what the readers read. *)

\* All of t is in s, after p bytes.
At(s, p, t) ==
  /\ p + Len(t) <= Len(s)
  /\ \A i \in 1 .. Len(t) : s[p + i] = t[i]

\* s ends within t, which begins after p bytes.
Stops(s, p, t) ==
  /\ p <= Len(s)
  /\ Len(s) < p + Len(t)
  /\ \A i \in 1 .. Len(s) - p : s[p + i] = t[i]

LEMMA ConcatType ==
  ASSUME NEW t \in Seq(Int), NEW u \in Seq(Int)
  PROVE  /\ t \o u \in Seq(Int)
         /\ Len(t) \in Nat /\ Len(u) \in Nat
         /\ Len(t \o u) = Len(t) + Len(u)
         /\ \A i \in 1 .. Len(t) : (t \o u)[i] = t[i]
         /\ \A i \in 1 .. Len(u) : (t \o u)[Len(t) + i] = u[i]
  OBVIOUS

LEMMA AtConcat ==
  ASSUME NEW s \in Seq(Int), NEW p \in Nat, NEW t \in Seq(Int), NEW u \in Seq(Int),
         At(s, p, t \o u)
  PROVE  At(s, p, t) /\ At(s, p + Len(t), u)
<1>. PICK v, m, n : v = t \o u /\ m = Len(t) /\ n = Len(u)
  OBVIOUS
<1>1. /\ v \in Seq(Int) /\ m \in Nat /\ n \in Nat
      /\ Len(v) = m + n
      /\ \A i \in 1 .. m : v[i] = t[i]
      /\ \A i \in 1 .. n : v[m + i] = u[i]
  BY ConcatType
<1>2. p + (m + n) <= Len(s) /\ Len(s) \in Nat
  BY <1>1 DEF At
<1>3. \A i \in 1 .. m + n : s[p + i] = v[i]
  BY <1>1 DEF At
<1>4. ASSUME NEW i \in 1 .. m PROVE s[p + i] = t[i]
  BY <1>1, <1>3
<1>5. ASSUME NEW i \in 1 .. n PROVE s[p + m + i] = u[i]
  <2>1. m + i \in 1 .. m + n /\ p + (m + i) = p + m + i
    BY <1>1
  <2>. QED BY <1>1, <1>3, <2>1
<1>. QED BY <1>1, <1>2, <1>4, <1>5 DEF At

LEMMA StopsConcat ==
  ASSUME NEW s \in Seq(Int), NEW p \in Nat, NEW t \in Seq(Int), NEW u \in Seq(Int),
         Stops(s, p, t \o u)
  PROVE  Stops(s, p, t) \/ (At(s, p, t) /\ Stops(s, p + Len(t), u))
<1>. PICK v, m, n, k : v = t \o u /\ m = Len(t) /\ n = Len(u) /\ k = Len(s)
  OBVIOUS
<1>1. /\ v \in Seq(Int) /\ m \in Nat /\ n \in Nat /\ k \in Nat
      /\ Len(v) = m + n
      /\ \A i \in 1 .. m : v[i] = t[i]
      /\ \A i \in 1 .. n : v[m + i] = u[i]
  BY ConcatType
<1>2. p <= k /\ k < p + (m + n)
  BY <1>1 DEF Stops
<1>3. \A i \in 1 .. k - p : s[p + i] = v[i]
  BY <1>1 DEF Stops
<1>4. CASE k < p + m
  <2>1. ASSUME NEW i \in 1 .. k - p PROVE s[p + i] = t[i]
    <3>1. i \in 1 .. m
      BY <1>1, <1>2, <1>4
    <3>. QED BY <1>1, <1>3, <3>1
  <2>. QED BY <1>1, <1>2, <1>4, <2>1 DEF Stops
<1>5. CASE k >= p + m
  <2>1. ASSUME NEW i \in 1 .. m PROVE s[p + i] = t[i]
    <3>1. i \in 1 .. k - p
      BY <1>1, <1>2, <1>5
    <3>. QED BY <1>1, <1>3, <3>1
  <2>2. ASSUME NEW i \in 1 .. k - (p + m) PROVE s[p + m + i] = u[i]
    <3>1. m + i \in 1 .. k - p /\ i \in 1 .. n /\ p + (m + i) = p + m + i
      BY <1>1, <1>2, <1>5
    <3>. QED BY <1>1, <1>3, <3>1
  <2>. QED BY <1>1, <1>2, <1>5, <2>1, <2>2 DEF At, Stops
<1>. QED BY <1>1, <1>4, <1>5

\* The whole of a sequence is in it and in what continues it.
LEMMA AtFront ==
  ASSUME NEW t \in Seq(Int), NEW u \in Seq(Int)
  PROVE  At(t \o u, 0, t) /\ At(t, 0, t)
  BY ConcatType DEF At

LEMMA StopsFront ==
  ASSUME NEW t \in Seq(Int), NEW n \in 0 .. Len(t) - 1
  PROVE  SubSeq(t, 1, n) \in Seq(Int) /\ Stops(SubSeq(t, 1, n), 0, t)
  BY DEF Stops

\* read_exact of what is there.
LEMMA AtSubSeq ==
  ASSUME NEW s \in Seq(Int), NEW p \in Nat, NEW t \in Seq(Int), At(s, p, t)
  PROVE  Arrived(s, p, Len(t)) /\ SubSeq(s, p + 1, p + Len(t)) = t
<1>1. PICK m \in Nat : m = Len(t) /\ p + m <= Len(s)
  BY DEF At
<1>. PICK a \in Nat : a = p + 1
  OBVIOUS
<1>. PICK b \in Nat : b = p + m
  OBVIOUS
<1>2. a = p + 1 /\ b = p + m /\ a >= 1 /\ b <= Len(s) /\ b - a + 1 = m
  BY <1>1
<1>3. PICK r \in Seq(Int) :
        /\ r = SubSeq(s, a, b) /\ Len(r) = m
        /\ \A i \in 1 .. m : r[i] = s[a + i - 1]
  <2>1. SubSeq(s, a, b) \in Seq(Int) /\ Len(SubSeq(s, a, b)) = m
    BY <1>2
  <2>2. ASSUME NEW i \in 1 .. b - a + 1 PROVE SubSeq(s, a, b)[i] = s[a + i - 1]
    BY <1>2
  <2>. QED BY <1>2, <2>1, <2>2, Zenon
<1>4. ASSUME NEW i \in 1 .. m PROVE r[i] = t[i]
  <2>1. a + i - 1 = p + i
    BY <1>2
  <2>2. s[p + i] = t[i]
    BY <1>1, Zenon DEF At
  <2>. QED BY <1>3, <2>1, <2>2, Zenon
<1>5. r = t
  BY <1>1, <1>3, <1>4, SeqEqual, Zenon
<1>6. Arrived(s, p, Len(t))
  BY <1>1, Zenon DEF Arrived
<1>. QED BY <1>1, <1>2, <1>3, <1>5, <1>6, Zenon

LEMMA U16Type ==
  ASSUME NEW n \in Words
  PROVE  PutU16(n) \in Seq(Int) /\ Len(PutU16(n)) = 2
  BY DEF PutU16, Words

\* u16::from_be_bytes undoes put_u16.
LEMMA AtU16 ==
  ASSUME NEW s \in Seq(Int), NEW p \in Nat, NEW n \in Words, At(s, p, PutU16(n))
  PROVE  GetU16(s, p) = n
<1>1. s[p + 1] = n \div 256 /\ s[p + 2] = n % 256
  BY DEF At, PutU16
<1>2. n \in Nat /\ n = 256 * (n \div 256) + (n % 256)
  <2>1. n \in Nat
    BY DEF Words
  <2>2. PICK d \in Nat \ {0} : d = 256
    OBVIOUS
  <2>3. n = d * (n \div d) + (n % d)
    BY <2>1, DivMod, Zenon
  <2>. QED BY <2>1, <2>2, <2>3, Zenon
<1>. QED BY <1>1, <1>2 DEF GetU16

LEMMA OctetsType ==
  ASSUME NEW n \in Nat, NEW f \in [1 .. n -> Bytes]
  PROVE  f \in Seq(Bytes) /\ f \in Seq(Int) /\ Len(f) = n
<1>1. f \in Seq(Bytes) /\ Len(f) = n
  OBVIOUS
<1>2. Bytes \subseteq Int
  BY DEF Bytes
<1>. QED BY <1>1, <1>2, SeqMonotonic

\* The kinds of address in a header.
LEMMA AddressParts ==
  ASSUME NEW a \in AddressRecords
  PROVE  \/ a = NoneAddress
         \/ \E host \in Seq(Int), port \in Words :
              /\ a = [kind |-> "domain", host |-> host, port |-> port]
              /\ host \in Seq(0 .. 127) /\ Len(host) \in 0 .. 255
         \/ \E host \in Seq(Int), port \in Words :
              a = [kind |-> "ipv4", host |-> host, port |-> port] /\ Len(host) = 4
         \/ \E host \in Seq(Int), port \in Words :
              a = [kind |-> "ipv6", host |-> host, port |-> port] /\ Len(host) = 16
<1>. PICK host, port : host = a.host /\ port = a.port
  OBVIOUS
<1>1. CASE a = NoneAddress
  BY <1>1
<1>2. CASE a \in [kind: {"domain"}, host: Names, port: Words]
  <2>1. a = [kind |-> "domain", host |-> host, port |-> port] /\ port \in Words
    BY <1>2
  <2>2. host \in Seq(0 .. 127) /\ Len(host) <= 255
    BY <1>2 DEF Names
  <2>3. Len(host) \in 0 .. 255
    <3>1. Len(host) \in Nat
      BY <2>2, LenProperties, Zenon
    <3>2. ASSUME NEW n \in Nat, n <= 255 PROVE n \in 0 .. 255
      BY <3>2
    <3>. QED BY <2>2, <3>1, <3>2, Zenon
  <2>4. host \in Seq(Int)
    <3>1. 0 .. 127 \subseteq Int
      OBVIOUS
    <3>. QED BY <2>2, <3>1, SeqMonotonic, Zenon
  <2>. QED BY <2>1, <2>2, <2>3, <2>4, Zenon
<1>3. CASE a \in [kind: {"ipv4"}, host: [1 .. 4 -> Bytes], port: Words]
  <2>1. a = [kind |-> "ipv4", host |-> host, port |-> port]
    BY <1>3
  <2>2. host \in [1 .. 4 -> Bytes] /\ port \in Words
    BY <1>3
  <2>3. host \in Seq(Int) /\ Len(host) = 4
    BY <2>2, OctetsType
  <2>. QED BY <2>1, <2>2, <2>3
<1>4. CASE a \in [kind: {"ipv6"}, host: [1 .. 16 -> Bytes], port: Words]
  <2>1. a = [kind |-> "ipv6", host |-> host, port |-> port]
    BY <1>4
  <2>2. host \in [1 .. 16 -> Bytes] /\ port \in Words
    BY <1>4
  <2>3. host \in Seq(Int) /\ Len(host) = 16
    BY <2>2, OctetsType
  <2>. QED BY <2>1, <2>2, <2>3
<1>. QED BY <1>1, <1>2, <1>3, <1>4 DEF AddressRecords

LEMMA NamesAreUtf8 ==
  ASSUME NEW host \in Seq(0 .. 127)
  PROVE  Utf8(host)
<1>1. ASSUME NEW i \in 1 .. Len(host) PROVE host[i] < 128
  <2>1. host[i] \in 0 .. 127
    BY ElementOfSeq, Zenon
  <2>2. ASSUME NEW b \in 0 .. 127 PROVE b < 128
    OBVIOUS
  <2>. QED BY <2>1, <2>2, Zenon
<1>. QED BY <1>1, Zenon DEF Utf8

\* A name or the octets of an address, and the port after it.
LEMMA HostAndPort ==
  ASSUME NEW s \in Seq(Int), NEW p \in Nat, NEW host \in Seq(Int), NEW port \in Words,
         At(s, p, host), At(s, p + Len(host), PutU16(port))
  PROVE  /\ Arrived(s, p, Len(host) + 2)
         /\ SubSeq(s, p + 1, p + Len(host)) = host
         /\ GetU16(s, p + Len(host)) = port
<1>. PICK n : n = Len(host)
  OBVIOUS
<1>1. n \in Nat /\ p + n \in Nat /\ Len(s) \in Nat
  OBVIOUS
<1>2. SubSeq(s, p + 1, p + n) = host
  BY AtSubSeq
<1>3. GetU16(s, p + n) = port
  BY <1>1, AtU16
<1>4. Arrived(s, p, n + 2)
  <2>1. p + n + 2 <= Len(s)
    BY <1>1, U16Type DEF At
  <2>. QED BY <1>1, <2>1 DEF Arrived
<1>. QED BY <1>2, <1>3, <1>4, Zenon

LEMMA ByteType ==
  ASSUME NEW n \in Int
  PROVE  <<n>> \in Seq(Int) /\ Len(<<n>>) = 1 /\ <<n>>[1] = n
  OBVIOUS

\* The bytes of an address of each kind.
LEMMA DomainBytes ==
  ASSUME NEW host \in Seq(Int), NEW port \in Words, Len(host) \in 0 .. 255,
         NEW a, a = [kind |-> "domain", host |-> host, port |-> port]
  PROVE  WriteAddress(a) = <<0>> \o (<<Len(host)>> \o host \o PutU16(port))
<1>1. a.kind = "domain" /\ a.host = host /\ a.port = port
  OBVIOUS
<1>2. WriteAddress(a) = <<0>> \o (<<Len(host) % 256>> \o host \o PutU16(port))
  BY <1>1, Zenon DEF WriteAddress, AddressCode
<1>3. ASSUME NEW n \in 0 .. 255 PROVE n % 256 = n
  OBVIOUS
<1>. QED BY <1>2, <1>3, Zenon

LEMMA SocketBytes ==
  ASSUME NEW host \in Seq(Int), NEW port \in Words, NEW kind \in {"ipv4", "ipv6"},
         NEW a, a = [kind |-> kind, host |-> host, port |-> port]
  PROVE  WriteAddress(a) = <<IF kind = "ipv4" THEN 1 ELSE 2>> \o (host \o PutU16(port))
<1>1. a.kind = kind /\ a.host = host /\ a.port = port
  OBVIOUS
<1>2. WriteAddress(a) = <<AddressCode(a)>> \o (host \o PutU16(port))
  BY <1>1 DEF WriteAddress
<1>3. AddressCode(a) = IF kind = "ipv4" THEN 1 ELSE 2
  BY <1>1 DEF AddressCode
<1>. QED BY <1>2, <1>3

\* Address::len is the number of bytes.
LEMMA AddressType ==
  ASSUME NEW a \in AddressRecords
  PROVE  /\ WriteAddress(a) \in Seq(Int)
         /\ a.kind = "none" => Len(WriteAddress(a)) = 1
         /\ a.kind = "domain" => Len(WriteAddress(a)) = 1 + (1 + Len(a.host) + 2)
         /\ a.kind = "ipv4" => Len(WriteAddress(a)) = 1 + (4 + 2)
         /\ a.kind = "ipv6" => Len(WriteAddress(a)) = 1 + (16 + 2)
<1>1. CASE a = NoneAddress
  <2>1. a.kind = "none"
    BY <1>1 DEF NoneAddress
  <2>2. WriteAddress(a) = <<255>> \o <<>>
    BY <2>1 DEF WriteAddress, AddressCode
  <2>. QED BY <2>1, <2>2
<1>2. ASSUME NEW host \in Seq(Int), NEW port \in Words, Len(host) \in 0 .. 255,
             a = [kind |-> "domain", host |-> host, port |-> port]
      PROVE  WriteAddress(a) \in Seq(Int) /\ Len(WriteAddress(a)) = 1 + (1 + Len(host) + 2)
  <2>0. Len(host) \in Int
    BY <1>2
  <2>. PICK n, b, c, d, u : /\ n = Len(host) /\ b = <<n>> /\ u = PutU16(port)
                            /\ c = b \o host /\ d = c \o u
    OBVIOUS
  <2>1. b \in Seq(Int) /\ Len(b) = 1 /\ u \in Seq(Int) /\ Len(u) = 2
    <3>1. n \in Int
      BY <2>0, Zenon
    <3>2. b \in Seq(Int) /\ Len(b) = 1
      BY <3>1, ByteType, Zenon
    <3>3. u \in Seq(Int) /\ Len(u) = 2
      BY U16Type, Zenon
    <3>. QED BY <3>2, <3>3
  <2>2. c \in Seq(Int) /\ Len(c) = 1 + n
    BY <2>1, ConcatType
  <2>3. d \in Seq(Int) /\ Len(d) = 1 + n + 2
    <3>1. d \in Seq(Int) /\ Len(d) = Len(c) + Len(u)
      BY <2>1, <2>2, ConcatType, Zenon
    <3>. QED BY <2>1, <2>2, <3>1
  <2>4. WriteAddress(a) = <<0>> \o d
    BY <1>2, DomainBytes
  <2>. QED BY <2>3, <2>4, ByteType, ConcatType
<1>3. ASSUME NEW host \in Seq(Int), NEW port \in Words, NEW kind \in {"ipv4", "ipv6"},
             a = [kind |-> kind, host |-> host, port |-> port]
      PROVE  WriteAddress(a) \in Seq(Int) /\ Len(WriteAddress(a)) = 1 + (Len(host) + 2)
  <2>. PICK b, d, u : /\ b = IF kind = "ipv4" THEN 1 ELSE 2
                      /\ u = PutU16(port) /\ d = host \o u
    OBVIOUS
  <2>1. b \in Int /\ u \in Seq(Int) /\ Len(u) = 2
    BY U16Type
  <2>2. d \in Seq(Int) /\ Len(d) = Len(host) + 2
    <3>1. d \in Seq(Int) /\ Len(d) = Len(host) + Len(u)
      BY <2>1, ConcatType, Zenon
    <3>. QED BY <2>1, <3>1
  <2>3. WriteAddress(a) = <<b>> \o d
    BY <1>3, SocketBytes
  <2>. QED BY <2>1, <2>2, <2>3, ByteType, ConcatType
<1>4. CASE \E host \in Seq(Int), port \in Words :
             /\ a = [kind |-> "domain", host |-> host, port |-> port]
             /\ host \in Seq(0 .. 127) /\ Len(host) \in 0 .. 255
  BY <1>2, <1>4
<1>5. CASE \E host \in Seq(Int), port \in Words :
             a = [kind |-> "ipv4", host |-> host, port |-> port] /\ Len(host) = 4
  <2>. PICK host \in Seq(Int), port \in Words :
         a = [kind |-> "ipv4", host |-> host, port |-> port] /\ Len(host) = 4
    BY <1>5
  <2>1. WriteAddress(a) \in Seq(Int) /\ Len(WriteAddress(a)) = 1 + (Len(host) + 2)
    BY <1>3
  <2>2. a.kind = "ipv4"
    OBVIOUS
  <2>. QED BY <2>1, <2>2
<1>6. CASE \E host \in Seq(Int), port \in Words :
             a = [kind |-> "ipv6", host |-> host, port |-> port] /\ Len(host) = 16
  <2>. PICK host \in Seq(Int), port \in Words :
         a = [kind |-> "ipv6", host |-> host, port |-> port] /\ Len(host) = 16
    BY <1>6
  <2>1. WriteAddress(a) \in Seq(Int) /\ Len(WriteAddress(a)) = 1 + (Len(host) + 2)
    BY <1>3
  <2>2. a.kind = "ipv6"
    OBVIOUS
  <2>. QED BY <2>1, <2>2
<1>. QED BY <1>1, <1>4, <1>5, <1>6, AddressParts

LEMMA AtByte ==
  ASSUME NEW s \in Seq(Int), NEW p \in Nat, NEW n \in Int, NEW t \in Seq(Int),
         At(s, p, <<n>> \o t)
  PROVE  s[p + 1] = n /\ p + 1 <= Len(s) /\ At(s, p + 1, t)
<1>. PICK b : b = <<n>>
  OBVIOUS
<1>1. b \in Seq(Int) /\ Len(b) = 1 /\ b[1] = n
  BY ByteType
<1>2. At(s, p, b) /\ At(s, p + Len(b), t)
  BY <1>1, AtConcat, Zenon
<1>. QED BY <1>1, <1>2 DEF At

LEMMA StopsByte ==
  ASSUME NEW s \in Seq(Int), NEW p \in Nat, NEW n \in Int, NEW t \in Seq(Int),
         Stops(s, p, <<n>> \o t)
  PROVE  Len(s) = p \/ (s[p + 1] = n /\ p + 1 <= Len(s) /\ Stops(s, p + 1, t))
<1>. PICK b : b = <<n>>
  OBVIOUS
<1>1. b \in Seq(Int) /\ Len(b) = 1 /\ b[1] = n /\ Len(s) \in Nat
  BY ByteType
<1>2. Stops(s, p, b) \/ (At(s, p, b) /\ Stops(s, p + Len(b), t))
  BY <1>1, StopsConcat, Zenon
<1>. QED BY <1>1, <1>2 DEF At, Stops

\* Address::read gives back what Address::write wrote.
LEMMA ReadAddressBack ==
  ASSUME NEW s \in Seq(Int), NEW p \in Nat, NEW a \in AddressRecords,
         At(s, p, WriteAddress(a))
  PROVE  ReadAddress(s, p) = Read(a, p + Len(WriteAddress(a)))
<1>0. WriteAddress(a) \in Seq(Int) /\ Len(s) \in Nat
  BY AddressType
<1>1. CASE a = NoneAddress
  <2>1. WriteAddress(a) = <<255>>
    BY <1>1 DEF WriteAddress, AddressCode, NoneAddress
  <2>2. s[p + 1] = 255 /\ p + 1 <= Len(s)
    BY <2>1 DEF At
  <2>3. Len(WriteAddress(a)) = 1
    BY <2>1
  <2>. QED BY <1>1, <2>2, <2>3 DEF ReadAddress, Arrived
<1>2. ASSUME NEW host \in Seq(Int), NEW port \in Words, Len(host) \in 0 .. 255,
             host \in Seq(0 .. 127),
             a = [kind |-> "domain", host |-> host, port |-> port]
      PROVE  ReadAddress(s, p) = Read(a, p + Len(WriteAddress(a)))
  <2>1. PICK n \in Int : n = Len(host) /\ n \in 0 .. 255
    <3>1. ASSUME NEW m \in 0 .. 255 PROVE m \in Int
      OBVIOUS
    <3>. QED BY <1>2, <3>1, Zenon
  <2>2. PICK z \in Int, q \in Nat, r \in Nat :
          z = 0 /\ q = p + 1 /\ r = p + 2 /\ r = q + 1
    OBVIOUS
  <2>3. PICK b \in Seq(Int), u \in Seq(Int) :
          b = <<n>> /\ Len(b) = 1 /\ u = PutU16(port) /\ Len(u) = 2
    BY U16Type, ByteType, Zenon
  <2>4. PICK c \in Seq(Int) : c = b \o host /\ Len(c) = 1 + n
    <3>1. b \o host \in Seq(Int) /\ Len(b \o host) = Len(b) + Len(host)
      BY ConcatType, Zenon
    <3>. QED BY <2>1, <2>3, <3>1, Zenon
  <2>5. PICK d \in Seq(Int) : d = c \o u
    BY ConcatType, Zenon
  <2>6. At(s, p, <<z>> \o d)
    BY <1>2, <2>1, <2>2, <2>3, <2>4, <2>5, DomainBytes, Zenon
  <2>7. s[q] = z /\ At(s, q, d)
    BY <2>2, <2>6, AtByte, Zenon
  <2>8. At(s, q, c) /\ At(s, q + Len(c), u)
    BY <2>5, <2>7, AtConcat, Zenon
  <2>9. s[r] = n /\ r <= Len(s) /\ At(s, r, host)
    <3>1. At(s, q, <<n>> \o host)
      BY <2>3, <2>4, <2>8, Zenon
    <3>2. s[q + 1] = n /\ q + 1 <= Len(s) /\ At(s, q + 1, host)
      BY <3>1, AtByte, Zenon
    <3>. QED BY <2>2, <3>2, Zenon
  <2>10. At(s, r + Len(host), PutU16(port))
    <3>1. q + (1 + n) = r + n
      BY <2>1, <2>2
    <3>. QED BY <2>1, <2>3, <2>4, <2>8, <3>1, Zenon
  <2>11. ReadHost(s, r, "domain", Len(host)) = Read(a, r + Len(host) + 2)
    <3>1. Utf8(host)
      BY <1>2, NamesAreUtf8, Zenon
    <3>2. /\ Arrived(s, r, Len(host) + 2)
          /\ SubSeq(s, r + 1, r + Len(host)) = host
          /\ GetU16(s, r + Len(host)) = port
      BY <2>9, <2>10, HostAndPort, Zenon
    <3>. QED BY <1>2, <3>1, <3>2, Zenon DEF ReadHost
  <2>12. r + n + 2 = p + Len(WriteAddress(a))
    <3>1. Len(WriteAddress(a)) = 1 + (1 + n + 2)
      BY <1>2, <2>1, AddressType
    <3>. QED BY <2>1, <2>2, <3>1
  <2>13. Arrived(s, p, 1) /\ Arrived(s, p, 2)
    BY <1>0, <2>2, <2>9 DEF Arrived
  <2>14. ReadAddress(s, p) = ReadHost(s, r, "domain", n)
    BY <2>2, <2>7, <2>9, <2>13 DEF ReadAddress
  <2>. QED BY <2>1, <2>11, <2>12, <2>14, Zenon
<1>3. ASSUME NEW host \in Seq(Int), NEW port \in Words, NEW kind \in {"ipv4", "ipv6"},
             Len(host) = IF kind = "ipv4" THEN 4 ELSE 16,
             a = [kind |-> kind, host |-> host, port |-> port]
      PROVE  ReadAddress(s, p) = Read(a, p + Len(WriteAddress(a)))
  <2>0. /\ (IF kind = "ipv4" THEN 1 ELSE 2) \in Int
        /\ (IF kind = "ipv4" THEN 4 ELSE 16) \in Nat
        /\ p + 1 \in Nat
    OBVIOUS
  <2>1. PICK b \in Int, q \in Nat, n \in Nat :
          /\ b = (IF kind = "ipv4" THEN 1 ELSE 2) /\ q = p + 1
          /\ n = (IF kind = "ipv4" THEN 4 ELSE 16)
    BY <2>0, Zenon
  <2>2. PICK u \in Seq(Int), d \in Seq(Int) : u = PutU16(port) /\ d = host \o u
    BY U16Type, ConcatType, Zenon
  <2>3. At(s, p, <<b>> \o d)
    BY <1>3, <2>1, <2>2, SocketBytes, Zenon
  <2>4. s[q] = b /\ q <= Len(s) /\ At(s, q, d)
    BY <2>1, <2>3, AtByte, Zenon
  <2>5. At(s, q, host) /\ At(s, q + Len(host), PutU16(port))
    BY <2>2, <2>4, AtConcat, Zenon
  <2>6. ReadHost(s, q, kind, Len(host)) = Read(a, q + Len(host) + 2)
    <3>1. kind # "domain"
      OBVIOUS
    <3>2. /\ Arrived(s, q, Len(host) + 2)
          /\ SubSeq(s, q + 1, q + Len(host)) = host
          /\ GetU16(s, q + Len(host)) = port
      BY <2>5, HostAndPort, Zenon
    <3>. QED BY <1>3, <3>1, <3>2, Zenon DEF ReadHost
  <2>7. q + n + 2 = p + Len(WriteAddress(a))
    <3>1. Len(WriteAddress(a)) = 1 + (n + 2)
      BY <1>3, <2>1, AddressType
    <3>. QED BY <2>1, <3>1
  <2>8. Arrived(s, p, 1)
    BY <1>0, <2>1, <2>4 DEF Arrived
  <2>9. ReadAddress(s, p) = ReadHost(s, q, kind, n)
    BY <2>1, <2>4, <2>8 DEF ReadAddress
  <2>. QED BY <1>3, <2>1, <2>6, <2>7, <2>9, Zenon
<1>. QED BY <1>1, <1>2, <1>3, AddressParts

LEMMA ConcatAssoc ==
  ASSUME NEW t \in Seq(Int), NEW u \in Seq(Int), NEW v \in Seq(Int)
  PROVE  (t \o u) \o v = t \o (u \o v)
  OBVIOUS

\* Address::read of an address that has not all arrived waits or fails for want of
\* bytes.
LEMMA ReadAddressStops ==
  ASSUME NEW s \in Seq(Int), NEW p \in Nat, NEW a \in AddressRecords,
         Stops(s, p, WriteAddress(a))
  PROVE  ReadAddress(s, p) = Failed("Io")
<1>0. /\ WriteAddress(a) \in Seq(Int) /\ Len(s) \in Nat
      /\ p <= Len(s) /\ Len(s) < p + Len(WriteAddress(a))
  BY AddressType DEF Stops
<1>1. CASE Len(s) = p
  BY <1>1 DEF ReadAddress, Arrived
<1>2. CASE a = NoneAddress
  <2>1. Len(WriteAddress(a)) = 1
    BY <1>2, AddressType DEF NoneAddress
  <2>. QED BY <1>0, <1>1, <2>1
<1>3. ASSUME NEW host \in Seq(Int), NEW port \in Words, Len(host) \in 0 .. 255,
             a = [kind |-> "domain", host |-> host, port |-> port], Len(s) # p
      PROVE  ReadAddress(s, p) = Failed("Io")
  <2>1. PICK n \in Int : n = Len(host) /\ n \in 0 .. 255
    <3>1. ASSUME NEW m \in 0 .. 255 PROVE m \in Int
      OBVIOUS
    <3>. QED BY <1>3, <3>1, Zenon
  <2>2. PICK z \in Int, q \in Nat, r \in Nat :
          z = 0 /\ q = p + 1 /\ r = p + 2 /\ r = q + 1
    OBVIOUS
  <2>3. PICK b \in Seq(Int), u \in Seq(Int) : b = <<n>> /\ u = PutU16(port)
    BY U16Type, ByteType, Zenon
  <2>4. PICK c \in Seq(Int) : c = host \o u
    BY ConcatType, Zenon
  <2>5. PICK d \in Seq(Int) : d = <<n>> \o c
    BY <2>3, ConcatType, Zenon
  <2>6. Stops(s, p, <<z>> \o d)
    <3>1. (b \o host) \o u = b \o (host \o u)
      BY ConcatAssoc, Zenon
    <3>2. WriteAddress(a) = <<0>> \o (<<Len(host)>> \o host \o PutU16(port))
      BY <1>3, DomainBytes
    <3>3. WriteAddress(a) = <<z>> \o d
      BY <2>1, <2>2, <2>3, <2>4, <2>5, <3>1, <3>2, Zenon
    <3>. QED BY <3>3, Zenon
  <2>7. s[q] = z /\ q <= Len(s) /\ Stops(s, q, d)
    BY <1>3, <2>2, <2>6, StopsByte, Zenon
  <2>8. Len(s) = q \/ (s[r] = n /\ r <= Len(s))
    <3>1. Stops(s, q, <<n>> \o c)
      BY <2>5, <2>7, Zenon
    <3>2. Len(s) = q \/ (s[q + 1] = n /\ q + 1 <= Len(s) /\ Stops(s, q + 1, c))
      BY <3>1, StopsByte, Zenon
    <3>. QED BY <2>2, <3>2, Zenon
  <2>9. Len(s) < r + n + 2
    <3>1. Len(WriteAddress(a)) = 1 + (1 + n + 2)
      BY <1>3, <2>1, AddressType
    <3>. QED BY <1>0, <2>1, <2>2, <3>1
  <2>10. Arrived(s, p, 1)
    BY <1>0, <2>2, <2>7 DEF Arrived
  <2>11. CASE Len(s) = q
    BY <2>2, <2>7, <2>10, <2>11 DEF ReadAddress, Arrived
  <2>12. CASE s[r] = n /\ r <= Len(s)
    <3>1. ReadHost(s, r, "domain", n) = Failed("Io")
      BY <1>0, <2>1, <2>2, <2>9 DEF ReadHost, Arrived
    <3>2. Arrived(s, p, 2)
      BY <1>0, <2>2, <2>12 DEF Arrived
    <3>3. ReadAddress(s, p) = ReadHost(s, r, "domain", n)
      BY <2>2, <2>7, <2>10, <2>12, <3>2 DEF ReadAddress
    <3>. QED BY <3>1, <3>3
  <2>. QED BY <2>8, <2>11, <2>12
<1>4. ASSUME NEW host \in Seq(Int), NEW port \in Words, NEW kind \in {"ipv4", "ipv6"},
             Len(host) = IF kind = "ipv4" THEN 4 ELSE 16,
             a = [kind |-> kind, host |-> host, port |-> port], Len(s) # p
      PROVE  ReadAddress(s, p) = Failed("Io")
  <2>0. /\ (IF kind = "ipv4" THEN 1 ELSE 2) \in Int
        /\ (IF kind = "ipv4" THEN 4 ELSE 16) \in Nat
        /\ p + 1 \in Nat
    OBVIOUS
  <2>1. PICK b \in Int, q \in Nat, n \in Nat :
          /\ b = (IF kind = "ipv4" THEN 1 ELSE 2) /\ q = p + 1
          /\ n = (IF kind = "ipv4" THEN 4 ELSE 16)
    BY <2>0, Zenon
  <2>2. PICK u \in Seq(Int), d \in Seq(Int) : u = PutU16(port) /\ d = host \o u
    BY U16Type, ConcatType, Zenon
  <2>3. Stops(s, p, <<b>> \o d)
    BY <1>4, <2>1, <2>2, SocketBytes, Zenon
  <2>4. s[q] = b /\ q <= Len(s)
    <3>1. Len(s) = p \/ (s[p + 1] = b /\ p + 1 <= Len(s))
      BY <2>3, StopsByte, Zenon
    <3>. QED BY <1>4, <2>1, <3>1, Zenon
  <2>5. Len(s) < q + n + 2
    <3>1. Len(WriteAddress(a)) = 1 + (n + 2)
      BY <1>4, <2>1, AddressType
    <3>. QED BY <1>0, <2>1, <3>1
  <2>6. ReadHost(s, q, kind, n) = Failed("Io")
    BY <1>0, <2>1, <2>5 DEF ReadHost, Arrived
  <2>7. Arrived(s, p, 1)
    BY <1>0, <2>1, <2>4 DEF Arrived
  <2>8. ReadAddress(s, p) = ReadHost(s, q, kind, n)
    BY <2>1, <2>4, <2>7 DEF ReadAddress
  <2>. QED BY <2>6, <2>8
<1>. QED BY <1>1, <1>2, <1>3, <1>4, AddressParts

\* Each command's body, after version and type.
LEMMA AuthenticateBack ==
  ASSUME NEW s \in Seq(Int), NEW p \in Nat,
         NEW uuid \in [1 .. 16 -> Bytes], NEW token \in [1 .. 32 -> Bytes]
  PROVE  /\ uuid \o token \in Seq(Int) /\ Len(uuid \o token) = 48
         /\ At(s, p, uuid \o token) =>
              ReadAuthenticate(s, p)
                = Read([type |-> "authenticate", uuid |-> uuid, token |-> token], p + 48)
         /\ Stops(s, p, uuid \o token) => ReadAuthenticate(s, p) = Failed("Io")
<1>1. uuid \in Seq(Int) /\ token \in Seq(Int) /\ Len(uuid) = 16 /\ Len(token) = 32
  BY OctetsType
<1>2. uuid \o token \in Seq(Int) /\ Len(uuid \o token) = 48
  <2>1. uuid \o token \in Seq(Int) /\ Len(uuid \o token) = Len(uuid) + Len(token)
    BY <1>1, ConcatType, Zenon
  <2>. QED BY <1>1, <2>1
<1>3. ASSUME At(s, p, uuid \o token)
      PROVE  ReadAuthenticate(s, p)
               = Read([type |-> "authenticate", uuid |-> uuid, token |-> token], p + 48)
  <2>1. At(s, p, uuid) /\ At(s, p + Len(uuid), token)
    BY <1>1, <1>3, AtConcat, Zenon
  <2>2. PICK q \in Nat : q = p + 16
    OBVIOUS
  <2>3. At(s, q, token)
    BY <1>1, <2>1, <2>2, Zenon
  <2>4. SubSeq(s, p + 1, p + Len(uuid)) = uuid /\ SubSeq(s, q + 1, q + Len(token)) = token
    BY <1>1, <2>1, <2>3, AtSubSeq, Zenon
  <2>5. q + 1 = p + 17 /\ q + 32 = p + 48
    BY <2>2
  <2>6. SubSeq(s, p + 1, p + 16) = uuid /\ SubSeq(s, p + 17, p + 48) = token
    BY <1>1, <2>4, <2>5, Zenon
  <2>7. Arrived(s, p, 48)
    BY <1>2, <1>3 DEF At, Arrived
  <2>. QED BY <2>6, <2>7, Zenon DEF ReadAuthenticate
<1>4. ASSUME Stops(s, p, uuid \o token) PROVE ReadAuthenticate(s, p) = Failed("Io")
  <2>1. ~Arrived(s, p, 48)
    BY <1>2, <1>4 DEF Stops, Arrived
  <2>. QED BY <2>1, Zenon DEF ReadAuthenticate
<1>. QED BY <1>2, <1>3, <1>4, Zenon

LEMMA DissociateBack ==
  ASSUME NEW s \in Seq(Int), NEW p \in Nat, NEW id \in Words
  PROVE  /\ At(s, p, PutU16(id)) =>
              ReadDissociate(s, p) = Read([type |-> "dissociate", assoc_id |-> id], p + 2)
         /\ Stops(s, p, PutU16(id)) => ReadDissociate(s, p) = Failed("Io")
<1>1. PutU16(id) \in Seq(Int) /\ Len(PutU16(id)) = 2
  BY U16Type
<1>2. ASSUME At(s, p, PutU16(id))
      PROVE  ReadDissociate(s, p) = Read([type |-> "dissociate", assoc_id |-> id], p + 2)
  <2>1. GetU16(s, p) = id
    BY <1>2, AtU16, Zenon
  <2>2. Arrived(s, p, 2)
    BY <1>1, <1>2 DEF At, Arrived
  <2>. QED BY <2>1, <2>2, Zenon DEF ReadDissociate
<1>3. ASSUME Stops(s, p, PutU16(id)) PROVE ReadDissociate(s, p) = Failed("Io")
  <2>1. ~Arrived(s, p, 2)
    BY <1>1, <1>3 DEF Stops, Arrived
  <2>. QED BY <2>1, Zenon DEF ReadDissociate
<1>. QED BY <1>2, <1>3, Zenon

LEMMA ConnectBack ==
  ASSUME NEW s \in Seq(Int), NEW p \in Nat, NEW a \in AddressRecords
  PROVE  /\ At(s, p, WriteAddress(a)) =>
              ReadConnect(s, p)
                = Read([type |-> "connect", addr |-> a], p + Len(WriteAddress(a)))
         /\ Stops(s, p, WriteAddress(a)) => ReadConnect(s, p) = Failed("Io")
<1>1. ASSUME At(s, p, WriteAddress(a))
      PROVE  ReadConnect(s, p)
               = Read([type |-> "connect", addr |-> a], p + Len(WriteAddress(a)))
  <2>1. ReadAddress(s, p) = Read(a, p + Len(WriteAddress(a)))
    BY <1>1, ReadAddressBack, Zenon
  <2>. QED BY <2>1 DEF ReadConnect, Read
<1>2. ASSUME Stops(s, p, WriteAddress(a)) PROVE ReadConnect(s, p) = Failed("Io")
  <2>1. ReadAddress(s, p) = Failed("Io")
    BY <1>2, ReadAddressStops, Zenon
  <2>. QED BY <2>1 DEF ReadConnect, Failed
<1>. QED BY <1>1, <1>2, Zenon

LEMMA PairType ==
  ASSUME NEW m \in Int, NEW n \in Int
  PROVE  /\ <<m, n>> \in Seq(Int) /\ Len(<<m, n>>) = 2
         /\ <<m, n>>[1] = m /\ <<m, n>>[2] = n
  OBVIOUS

\* The fields of a Packet before its address.
FixedFields(h) ==
  PutU16(h.assoc_id) \o PutU16(h.pkt_id) \o <<h.frag_total, h.frag_id>> \o PutU16(h.size)

LEMMA FixedFieldsBack ==
  ASSUME NEW s \in Seq(Int), NEW p \in Nat, NEW h \in PacketHeaders
  PROVE  /\ FixedFields(h) \in Seq(Int) /\ Len(FixedFields(h)) = 8
         /\ At(s, p, FixedFields(h)) =>
              /\ Arrived(s, p, 8)
              /\ GetU16(s, p) = h.assoc_id /\ GetU16(s, p + 2) = h.pkt_id
              /\ s[p + 5] = h.frag_total /\ s[p + 6] = h.frag_id
              /\ GetU16(s, p + 6) = h.size
<1>1. /\ h.assoc_id \in Words /\ h.pkt_id \in Words /\ h.size \in Words
      /\ h.frag_total \in Bytes /\ h.frag_id \in Bytes
  BY DEF PacketHeaders
<1>2. PICK x \in Words, y \in Words, z \in Words, m \in Int, n \in Int :
        /\ x = h.assoc_id /\ y = h.pkt_id /\ z = h.size
        /\ m = h.frag_total /\ n = h.frag_id
  <2>1. ASSUME NEW k \in Bytes PROVE k \in Int
    BY DEF Bytes
  <2>. QED BY <1>1, <2>1, Zenon
<1>3. PICK a \in Seq(Int), b \in Seq(Int), c \in Seq(Int), d \in Seq(Int) :
        a = PutU16(x) /\ b = PutU16(y) /\ c = <<m, n>> /\ d = PutU16(z)
  BY U16Type, PairType, Zenon
<1>4. Len(a) = 2 /\ Len(b) = 2 /\ Len(c) = 2 /\ Len(d) = 2 /\ c[1] = m /\ c[2] = n
  BY <1>3, U16Type, PairType, Zenon
<1>5. PICK e \in Seq(Int) : e = a \o b /\ Len(e) = 4
  <2>1. a \o b \in Seq(Int) /\ Len(a \o b) = Len(a) + Len(b)
    BY ConcatType, Zenon
  <2>2. Len(a \o b) = 4
    BY <1>4, <2>1
  <2>. QED BY <2>1, <2>2, Zenon
<1>6. PICK f \in Seq(Int) : f = e \o c /\ Len(f) = 6
  <2>1. e \o c \in Seq(Int) /\ Len(e \o c) = Len(e) + Len(c)
    BY ConcatType, Zenon
  <2>2. Len(e \o c) = 6
    BY <1>4, <1>5, <2>1
  <2>. QED BY <2>1, <2>2, Zenon
<1>7. PICK g \in Seq(Int) : g = f \o d /\ Len(g) = 8
  <2>1. f \o d \in Seq(Int) /\ Len(f \o d) = Len(f) + Len(d)
    BY ConcatType, Zenon
  <2>2. Len(f \o d) = 8
    BY <1>4, <1>6, <2>1
  <2>. QED BY <2>1, <2>2, Zenon
<1>8. FixedFields(h) = g
  BY <1>2, <1>3, <1>5, <1>6, <1>7, Zenon DEF FixedFields
<1>9. ASSUME At(s, p, g)
      PROVE  /\ Arrived(s, p, 8)
             /\ GetU16(s, p) = x /\ GetU16(s, p + 2) = y
             /\ s[p + 5] = m /\ s[p + 6] = n
             /\ GetU16(s, p + 6) = z
  <2>0. PICK q \in Nat, r \in Nat, t \in Nat : q = p + 2 /\ r = p + 4 /\ t = p + 6
    OBVIOUS
  <2>1. At(s, p, f) /\ At(s, t, d)
    BY <1>6, <1>7, <1>9, <2>0, AtConcat, Zenon
  <2>2. At(s, p, e) /\ At(s, r, c)
    BY <1>5, <1>6, <2>0, <2>1, AtConcat, Zenon
  <2>3. At(s, p, a) /\ At(s, q, b)
    BY <1>4, <1>5, <2>0, <2>2, AtConcat, Zenon
  <2>4. GetU16(s, p) = x /\ GetU16(s, q) = y /\ GetU16(s, t) = z
    BY <1>3, <2>1, <2>3, AtU16, Zenon
  <2>5. s[r + 1] = m /\ s[r + 2] = n
    BY <1>4, <2>2 DEF At
  <2>6. r + 1 = p + 5 /\ r + 2 = p + 6
    BY <2>0
  <2>7. Arrived(s, p, 8)
    BY <1>7, <1>9 DEF At, Arrived
  <2>. QED BY <2>0, <2>4, <2>5, <2>6, <2>7, Zenon
<1>. QED BY <1>2, <1>7, <1>8, <1>9, Zenon

LEMMA PacketBack ==
  ASSUME NEW s \in Seq(Int), NEW p \in Nat, NEW h \in PacketHeaders
  PROVE  /\ WritePacket(h) \in Seq(Int)
         /\ Len(WritePacket(h)) = 8 + Len(WriteAddress(h.addr))
         /\ At(s, p, WritePacket(h)) =>
              ReadPacket(s, p) = Read(h, p + Len(WritePacket(h)))
         /\ Stops(s, p, WritePacket(h)) => ReadPacket(s, p) = Failed("Io")
<1>1. PICK a \in AddressRecords : a = h.addr
  BY DEF PacketHeaders
<1>2. PICK e \in Seq(Int), g \in Seq(Int) :
        e = WriteAddress(a) /\ g = FixedFields(h) /\ Len(g) = 8
  BY AddressType, FixedFieldsBack, Zenon
<1>3. WritePacket(h) = g \o e
  BY <1>1, <1>2, Zenon DEF WritePacket, FixedFields
<1>4. g \o e \in Seq(Int) /\ Len(g \o e) = 8 + Len(e)
  <2>1. g \o e \in Seq(Int) /\ Len(g \o e) = Len(g) + Len(e)
    BY ConcatType, Zenon
  <2>. QED BY <1>2, <2>1, Zenon
<1>5. PICK q \in Nat : q = p + 8
  OBVIOUS
<1>6. ASSUME At(s, p, g \o e)
      PROVE  ReadPacket(s, p) = Read(h, p + Len(g \o e))
  <2>1. At(s, p, g) /\ At(s, q, e)
    BY <1>2, <1>5, <1>6, AtConcat, Zenon
  <2>2. ReadAddress(s, p + 8) = Read(a, q + Len(e))
    BY <1>2, <1>5, <2>1, ReadAddressBack, Zenon
  <2>3. q + Len(e) = p + Len(g \o e)
    BY <1>4, <1>5
  <2>4. /\ Arrived(s, p, 8)
        /\ GetU16(s, p) = h.assoc_id /\ GetU16(s, p + 2) = h.pkt_id
        /\ s[p + 5] = h.frag_total /\ s[p + 6] = h.frag_id
        /\ GetU16(s, p + 6) = h.size
    BY <1>2, <2>1, FixedFieldsBack, Zenon
  <2>5. h = [type |-> "packet", assoc_id |-> h.assoc_id, pkt_id |-> h.pkt_id,
             frag_total |-> h.frag_total, frag_id |-> h.frag_id, size |-> h.size,
             addr |-> a]
    BY <1>1 DEF PacketHeaders
  <2>6. Read(a, q + Len(e)).ok /\ Read(a, q + Len(e)).value = a
        /\ Read(a, q + Len(e)).pos = q + Len(e)
    BY DEF Read
  <2>7. ReadPacket(s, p)
          = Read([type |-> "packet", assoc_id |-> h.assoc_id, pkt_id |-> h.pkt_id,
                  frag_total |-> h.frag_total, frag_id |-> h.frag_id, size |-> h.size,
                  addr |-> a], q + Len(e))
    BY <2>2, <2>4, <2>6, Zenon DEF ReadPacket
  <2>. QED BY <2>3, <2>5, <2>7, Zenon
<1>7. ASSUME Stops(s, p, g \o e) PROVE ReadPacket(s, p) = Failed("Io")
  <2>1. Stops(s, p, g) \/ (At(s, p, g) /\ Stops(s, p + Len(g), e))
    BY <1>7, StopsConcat, Zenon
  <2>2. CASE Stops(s, p, g)
    <3>1. ~Arrived(s, p, 8)
      BY <1>2, <2>2 DEF Stops, Arrived
    <3>. QED BY <3>1, Zenon DEF ReadPacket
  <2>3. CASE At(s, p, g) /\ Stops(s, p + Len(g), e)
    <3>1. Arrived(s, p, 8)
      BY <1>2, <2>3, FixedFieldsBack, Zenon
    <3>2. Stops(s, q, WriteAddress(a))
      BY <1>2, <1>5, <2>3, Zenon
    <3>3. ReadAddress(s, p + 8) = Failed("Io")
      BY <1>5, <3>2, ReadAddressStops, Zenon
    <3>4. ~Failed("Io").ok
      BY DEF Failed
    <3>. QED BY <3>1, <3>3, <3>4, Zenon DEF ReadPacket
  <2>. QED BY <2>1, <2>2, <2>3
<1>. QED BY <1>1, <1>2, <1>3, <1>4, <1>6, <1>7, Zenon

\* Version and type come first.
LEMMA HeaderFront ==
  ASSUME NEW s \in Seq(Int), NEW code \in Int, NEW body \in Seq(Int),
         NEW w, w = <<VERSION, code>> \o body
  PROVE  /\ w \in Seq(Int) /\ Len(w) = 2 + Len(body)
         /\ At(s, 0, w) => s[1] = VERSION /\ s[2] = code /\ 2 <= Len(s) /\ At(s, 2, body)
         /\ Stops(s, 0, w) =>
              \/ ReadHeader(s) = Failed("Io")
              \/ s[1] = VERSION /\ s[2] = code /\ 2 <= Len(s) /\ Stops(s, 2, body)
<1>1. PICK v \in Int, z \in Nat : v = VERSION /\ z = 0
  BY DEF VERSION
<1>2. PICK b \in Seq(Int) : b = <<v, code>> /\ Len(b) = 2 /\ b[1] = v /\ b[2] = code
  BY PairType, Zenon
<1>3. w = b \o body
  BY <1>1, <1>2, Zenon
<1>4. w \in Seq(Int) /\ Len(w) = 2 + Len(body) /\ Len(s) \in Nat
  <2>1. b \o body \in Seq(Int) /\ Len(b \o body) = Len(b) + Len(body)
    BY ConcatType, Zenon
  <2>2. Len(s) \in Nat
    OBVIOUS
  <2>. QED BY <1>2, <1>3, <2>1, <2>2, Zenon
<1>5. ASSUME At(s, z, b) PROVE s[1] = VERSION /\ s[2] = code /\ 2 <= Len(s)
  BY <1>1, <1>2, <1>5 DEF At
<1>6. z + Len(b) = 2
  BY <1>1, <1>2
<1>7. ASSUME At(s, z, w)
      PROVE  s[1] = VERSION /\ s[2] = code /\ 2 <= Len(s) /\ At(s, 2, body)
  <2>1. At(s, z, b) /\ At(s, z + Len(b), body)
    BY <1>3, <1>7, AtConcat, Zenon
  <2>. QED BY <1>5, <1>6, <2>1, Zenon
<1>8. ASSUME Stops(s, z, w)
      PROVE  \/ ReadHeader(s) = Failed("Io")
             \/ s[1] = VERSION /\ s[2] = code /\ 2 <= Len(s) /\ Stops(s, 2, body)
  <2>1. Stops(s, z, b) \/ (At(s, z, b) /\ Stops(s, z + Len(b), body))
    BY <1>3, <1>8, StopsConcat, Zenon
  <2>2. CASE Stops(s, z, b)
    <3>1. Len(s) = 0 \/ (Len(s) = 1 /\ s[1] = VERSION)
      <4>1. \A i \in 1 .. Len(s) - z : s[z + i] = b[i]
        BY <2>2, Zenon DEF Stops
      <4>2. Len(s) < 2
        BY <1>1, <1>2, <2>2 DEF Stops
      <4>3. Len(s) = 0 \/ Len(s) = 1
        <5>1. ASSUME NEW k \in Nat, k < 2 PROVE k = 0 \/ k = 1
          BY <5>1
        <5>. QED BY <1>4, <4>2, <5>1, Zenon
      <4>4. Len(s) = 1 => s[z + 1] = b[1]
        <5>1. 1 \in 1 .. 1 - z
          BY <1>1
        <5>. QED BY <4>1, <5>1, Zenon
      <4>5. z + 1 = 1
        BY <1>1
      <4>. QED BY <1>1, <1>2, <4>3, <4>4, <4>5, Zenon
    <3>. QED BY <3>1 DEF ReadHeader, Arrived
  <2>3. CASE At(s, z, b) /\ Stops(s, z + Len(b), body)
    BY <1>5, <1>6, <2>3, Zenon
  <2>. QED BY <2>1, <2>2, <2>3
<1>. QED BY <1>1, <1>4, <1>7, <1>8, Zenon

\* The reader that the type selects.
LEMMA ReadHeaderSelects ==
  ASSUME NEW s \in Seq(Int), s[1] = VERSION, 2 <= Len(s)
  PROVE  /\ s[2] = 0 => ReadHeader(s) = ReadAuthenticate(s, 2)
         /\ s[2] = 1 => ReadHeader(s) = ReadConnect(s, 2)
         /\ s[2] = 2 => ReadHeader(s) = ReadPacket(s, 2)
         /\ s[2] = 3 => ReadHeader(s) = ReadDissociate(s, 2)
         /\ s[2] = 4 => ReadHeader(s) = ReadHeartbeat(2)
<1>1. Arrived(s, 0, 1) /\ Arrived(s, 1, 1)
  BY DEF Arrived
<1>. QED BY <1>1 DEF ReadHeader

\* Header::write, then Header::unmarshal or Header::async_unmarshal.
LEMMA ReadHeaderBack ==
  ASSUME NEW h \in CommandHeaders \cup PacketHeaders, NEW s \in Seq(Int)
  PROVE  /\ WriteHeader(h) \in Seq(Int)
         /\ At(s, 0, WriteHeader(h)) => ReadHeader(s) = Read(h, Len(WriteHeader(h)))
         /\ Stops(s, 0, WriteHeader(h)) => ReadHeader(s) = Failed("Io")
<1>. DEFINE Goal == /\ WriteHeader(h) \in Seq(Int)
                    /\ At(s, 0, WriteHeader(h)) => ReadHeader(s) = Read(h, Len(WriteHeader(h)))
                    /\ Stops(s, 0, WriteHeader(h)) => ReadHeader(s) = Failed("Io")
<1>. SUFFICES Goal
  OBVIOUS
<1>. DEFINE Reads(code, body) ==
              s[1] = VERSION /\ s[2] = code /\ 2 <= Len(s) =>
                /\ At(s, 2, body) => ReadHeader(s) = Read(h, 2 + Len(body))
                /\ Stops(s, 2, body) => ReadHeader(s) = Failed("Io")
<1>1. ASSUME NEW code \in Int, NEW body \in Seq(Int),
             WriteHeader(h) = <<VERSION, code>> \o body, Reads(code, body)
      PROVE  Goal
  <2>1. PICK w : w = WriteHeader(h)
    OBVIOUS
  <2>2. /\ w \in Seq(Int) /\ Len(w) = 2 + Len(body)
        /\ At(s, 0, w) => s[1] = VERSION /\ s[2] = code /\ 2 <= Len(s) /\ At(s, 2, body)
        /\ Stops(s, 0, w) =>
              \/ ReadHeader(s) = Failed("Io")
              \/ s[1] = VERSION /\ s[2] = code /\ 2 <= Len(s) /\ Stops(s, 2, body)
    BY <1>1, <2>1, HeaderFront, Zenon
  <2>. QED BY <1>1, <2>1, <2>2, Zenon
<1>. HIDE DEF Goal, Reads
<1>2. PICK two \in Nat : two = 2
  OBVIOUS
<1>3. CASE h \in [type: {"authenticate"}, uuid: [1 .. 16 -> Bytes], token: [1 .. 32 -> Bytes]]
  <2>1. PICK uuid \in [1 .. 16 -> Bytes], token \in [1 .. 32 -> Bytes] :
          h = [type |-> "authenticate", uuid |-> uuid, token |-> token]
    BY <1>3
  <2>2. PICK body \in Seq(Int) : body = uuid \o token /\ Len(body) = 48
    BY AuthenticateBack, Zenon
  <2>3. PICK code \in Int : code = 0
    OBVIOUS
  <2>4. WriteHeader(h) = <<VERSION, code>> \o body
    BY <2>1, <2>2, <2>3 DEF WriteHeader, TypeCode
  <2>5. /\ At(s, two, body) =>
             ReadAuthenticate(s, two)
               = Read([type |-> "authenticate", uuid |-> uuid, token |-> token], two + 48)
        /\ Stops(s, two, body) => ReadAuthenticate(s, two) = Failed("Io")
    BY <2>2, AuthenticateBack, Zenon
  <2>6. s[1] = VERSION /\ s[2] = code /\ 2 <= Len(s) => ReadHeader(s) = ReadAuthenticate(s, 2)
    BY <2>3, ReadHeaderSelects, Zenon
  <2>8. Reads(code, body)
    BY <1>2, <2>1, <2>2, <2>5, <2>6, Zenon DEF Reads
  <2>. QED BY <1>1, <2>4, <2>8, Zenon
<1>4. CASE h \in [type: {"connect"}, addr: AddressRecords]
  <2>1. PICK a \in AddressRecords : h = [type |-> "connect", addr |-> a]
    BY <1>4
  <2>2. PICK body \in Seq(Int) : body = WriteAddress(a)
    BY AddressType, Zenon
  <2>3. PICK code \in Int : code = 1
    OBVIOUS
  <2>4. WriteHeader(h) = <<VERSION, code>> \o body
    BY <2>1, <2>2, <2>3 DEF WriteHeader, TypeCode
  <2>5. /\ At(s, two, body) =>
             ReadConnect(s, two) = Read([type |-> "connect", addr |-> a], two + Len(body))
        /\ Stops(s, two, body) => ReadConnect(s, two) = Failed("Io")
    BY <2>2, ConnectBack, Zenon
  <2>6. s[1] = VERSION /\ s[2] = code /\ 2 <= Len(s) => ReadHeader(s) = ReadConnect(s, 2)
    BY <2>3, ReadHeaderSelects, Zenon
  <2>8. Reads(code, body)
    BY <1>2, <2>1, <2>5, <2>6, Zenon DEF Reads
  <2>. QED BY <1>1, <2>4, <2>8, Zenon
<1>5. CASE h \in [type: {"dissociate"}, assoc_id: Words]
  <2>1. PICK id \in Words : h = [type |-> "dissociate", assoc_id |-> id]
    BY <1>5
  <2>2. PICK body \in Seq(Int) : body = PutU16(id) /\ Len(body) = 2
    BY U16Type, Zenon
  <2>3. PICK code \in Int : code = 3
    OBVIOUS
  <2>4. WriteHeader(h) = <<VERSION, code>> \o body
    BY <2>1, <2>2, <2>3 DEF WriteHeader, TypeCode
  <2>5. /\ At(s, two, body) =>
             ReadDissociate(s, two) = Read([type |-> "dissociate", assoc_id |-> id], two + 2)
        /\ Stops(s, two, body) => ReadDissociate(s, two) = Failed("Io")
    BY <2>2, DissociateBack, Zenon
  <2>6. s[1] = VERSION /\ s[2] = code /\ 2 <= Len(s) => ReadHeader(s) = ReadDissociate(s, 2)
    BY <2>3, ReadHeaderSelects, Zenon
  <2>8. Reads(code, body)
    BY <1>2, <2>1, <2>2, <2>5, <2>6, Zenon DEF Reads
  <2>. QED BY <1>1, <2>4, <2>8, Zenon
<1>6. CASE h \in [type: {"heartbeat"}]
  <2>1. h = [type |-> "heartbeat"]
    BY <1>6
  <2>2. PICK body \in Seq(Int) : body = <<>> /\ Len(body) = 0
    <3>1. <<>> \in Seq(Int) /\ Len(<<>>) = 0
      OBVIOUS
    <3>. QED BY <3>1, Zenon
  <2>3. PICK code \in Int : code = 4
    OBVIOUS
  <2>4. WriteHeader(h) = <<VERSION, code>> \o body
    BY <2>1, <2>2, <2>3 DEF WriteHeader, TypeCode
  <2>5. ~(2 <= Len(s) /\ Stops(s, 2, body))
    BY <2>2 DEF Stops
  <2>6. s[1] = VERSION /\ s[2] = code /\ 2 <= Len(s) => ReadHeader(s) = Read(h, 2)
    BY <2>1, <2>3, ReadHeaderSelects, Zenon DEF ReadHeartbeat
  <2>7. 2 + Len(body) = 2
    BY <2>2
  <2>8. Reads(code, body)
    BY <2>5, <2>6, <2>7, Zenon DEF Reads
  <2>. QED BY <1>1, <2>4, <2>8, Zenon
<1>7. CASE h \in PacketHeaders
  <2>1. h.type = "packet"
    BY <1>7 DEF PacketHeaders
  <2>2. PICK body \in Seq(Int) : body = WritePacket(h)
    BY <1>7, PacketBack, Zenon
  <2>3. PICK code \in Int : code = 2
    OBVIOUS
  <2>4. WriteHeader(h) = <<VERSION, code>> \o body
    BY <2>1, <2>2, <2>3 DEF WriteHeader, TypeCode
  <2>5. /\ At(s, two, body) => ReadPacket(s, two) = Read(h, two + Len(body))
        /\ Stops(s, two, body) => ReadPacket(s, two) = Failed("Io")
    BY <1>7, <2>2, PacketBack, Zenon
  <2>6. s[1] = VERSION /\ s[2] = code /\ 2 <= Len(s) => ReadHeader(s) = ReadPacket(s, 2)
    BY <2>3, ReadHeaderSelects, Zenon
  <2>8. Reads(code, body)
    BY <1>2, <2>5, <2>6, Zenon DEF Reads
  <2>. QED BY <1>1, <2>4, <2>8, Zenon
<1>8. \/ h \in [type: {"authenticate"}, uuid: [1 .. 16 -> Bytes], token: [1 .. 32 -> Bytes]]
      \/ h \in [type: {"connect"}, addr: AddressRecords]
      \/ h \in [type: {"dissociate"}, assoc_id: Words]
      \/ h \in [type: {"heartbeat"}]
      \/ h \in PacketHeaders
  BY DEF CommandHeaders
<1>. QED BY <1>3, <1>4, <1>5, <1>6, <1>7, <1>8

-----------------------------------------------------------------------------
(* The fragments and the commands on the wire *)

\* The host that stands for an address of a kind.
LEMMA HostType ==
  ASSUME NEW n \in Nat, NEW host, host = [i \in 1 .. n |-> 97 + (i % 26)]
  PROVE  /\ host \in Seq(0 .. 127) /\ Len(host) = n
         /\ host \in [1 .. n -> Bytes]
<1>1. ASSUME NEW i \in 1 .. n PROVE 97 + (i % 26) \in 0 .. 127 /\ 97 + (i % 26) \in Bytes
  <2>1. PICK k \in 0 .. 25 : k = i % 26
    OBVIOUS
  <2>2. 97 + k \in 0 .. 127 /\ 97 + k \in 0 .. 255
    OBVIOUS
  <2>. QED BY <2>1, <2>2 DEF Bytes
<1>2. host \in [1 .. n -> 0 .. 127] /\ host \in [1 .. n -> Bytes]
  BY <1>1, Zenon
<1>3. host \in Seq(0 .. 127) /\ Len(host) = n
  <2>1. ASSUME NEW S, NEW f \in [1 .. n -> S] PROVE f \in Seq(S) /\ Len(f) = n
    OBVIOUS
  <2>. QED BY <1>2, <2>1, Zenon
<1>. QED BY <1>2, <1>3

\* Address::len is the number of bytes that Address::write writes.
LEMMA ConcreteAddress ==
  ASSUME NEW a \in Addresses \cup {NoAddress}
  PROVE  /\ Concrete(a) \in AddressRecords
         /\ Len(WriteAddress(Concrete(a))) = AddressLen(a)
         /\ AddressLen(a) \in Nat
<1>1. CASE a = NoAddress
  <2>1. Concrete(a) = NoneAddress /\ AddressLen(a) = 1
    BY <1>1 DEF Concrete, NoAddress, AddressLen
  <2>2. NoneAddress \in AddressRecords /\ NoneAddress.kind = "none"
    BY DEF AddressRecords, NoneAddress
  <2>3. Len(WriteAddress(NoneAddress)) = 1
    BY <2>2, AddressType
  <2>. QED BY <2>1, <2>2, <2>3
<1>2. CASE a \in Addresses
  <2>1. a.kind \in AddressKinds /\ a.chars \in Nat /\ a.chars <= 255
    BY <1>2, AddressesAssumption, NamesAssumption
  <2>2. PICK n \in Nat : n = IF a.kind = "domain" THEN a.chars
                             ELSE IF a.kind = "ipv4" THEN 4 ELSE 16
    BY <2>1
  <2>3. PICK host : host = [i \in 1 .. n |-> 97 + (i % 26)]
    OBVIOUS
  <2>4. /\ host \in Seq(0 .. 127) /\ Len(host) = n
        /\ host \in [1 .. n -> Bytes]
    BY <2>3, HostType, Zenon
  <2>5. Port \in Words
    BY PacketAssumption
  <2>6. CASE a.kind = "domain"
    <3>1. Concrete(a) = [kind |-> "domain", port |-> Port, host |-> host]
      BY <2>2, <2>3, <2>6 DEF Concrete
    <3>2. host \in Names
      BY <2>1, <2>2, <2>4, <2>6 DEF Names
    <3>3. Concrete(a) \in AddressRecords
      BY <2>5, <3>1, <3>2 DEF AddressRecords
    <3>4. Concrete(a).kind = "domain" /\ Concrete(a).host = host
      BY <3>1
    <3>5. Len(WriteAddress(Concrete(a))) = 1 + (1 + n + 2)
      BY <2>4, <3>3, <3>4, AddressType
    <3>6. AddressLen(a) = 1 + (1 + n + 2)
      BY <2>2, <2>6 DEF AddressLen
    <3>. QED BY <3>3, <3>5, <3>6
  <2>7. CASE a.kind = "ipv4"
    <3>1. n = 4 /\ Concrete(a) = [kind |-> "ipv4", port |-> Port, host |-> host]
      BY <2>2, <2>3, <2>7 DEF Concrete
    <3>2. host \in [1 .. 4 -> Bytes]
      BY <2>4, <3>1
    <3>3. Concrete(a) \in AddressRecords
      BY <2>5, <3>1, <3>2 DEF AddressRecords
    <3>4. Concrete(a).kind = "ipv4"
      BY <3>1
    <3>5. Len(WriteAddress(Concrete(a))) = 1 + (4 + 2)
      BY <3>3, <3>4, AddressType
    <3>6. AddressLen(a) = 1 + (4 + 2)
      BY <2>7 DEF AddressLen
    <3>. QED BY <3>3, <3>5, <3>6
  <2>8. CASE a.kind = "ipv6"
    <3>1. n = 16 /\ Concrete(a) = [kind |-> "ipv6", port |-> Port, host |-> host]
      BY <2>2, <2>3, <2>8 DEF Concrete
    <3>2. host \in [1 .. 16 -> Bytes]
      BY <2>4, <3>1
    <3>3. Concrete(a) \in AddressRecords
      BY <2>5, <3>1, <3>2 DEF AddressRecords
    <3>4. Concrete(a).kind = "ipv6"
      BY <3>1
    <3>5. Len(WriteAddress(Concrete(a))) = 1 + (16 + 2)
      BY <3>3, <3>4, AddressType
    <3>6. AddressLen(a) = 1 + (16 + 2)
      BY <2>8 DEF AddressLen
    <3>. QED BY <3>3, <3>5, <3>6
  <2>. QED BY <2>1, <2>6, <2>7, <2>8 DEF AddressKinds
<1>. QED BY <1>1, <1>2

\* Every fragment's header is one that the wire can carry.
LEMMA FragmentHeaders ==
  ASSUME IndInv, NEW f \in Yielded
  PROVE  /\ FragmentHeader(f) \in PacketHeaders
         /\ Len(WriteHeader(FragmentHeader(f))) = HeaderLen(f.addr)
         /\ HeaderLen(f.addr) + f.size <= max_pkt_size
         /\ HeaderLen(f.addr) \in Nat /\ f.size \in Nat
         /\ f.addr \in Addresses \cup {NoAddress}
<1>1. /\ out \in Seq(FragmentRecords)
      /\ Len(out) = next_frag_id /\ next_frag_id \in Nat
      /\ next_frag_id <= frag_total
  BY DEF IndInv, Progress, Cursor
<1>2. PICK i \in 1 .. Len(out) : f = out[i]
  BY DEF Yielded
<1>3. f \in FragmentRecords
  BY <1>1, <1>2, ElementOfSeq, Zenon
<1>4. f.frag_id \in Nat /\ f.size \in Nat /\ f.addr \in Addresses \cup {NoAddress}
  BY <1>3 DEF FragmentRecords
<1>5. f.frag_id = i - 1 /\ HeaderLen(f.addr) + f.size <= max_pkt_size
  BY <1>2 DEF IndInv, Consecutive, FitsDatagram
<1>6. /\ Concrete(f.addr) \in AddressRecords
      /\ Len(WriteAddress(Concrete(f.addr))) = AddressLen(f.addr)
      /\ AddressLen(f.addr) \in Nat
  BY <1>4, ConcreteAddress, Zenon
<1>7. HeaderLen(f.addr) = 10 + AddressLen(f.addr) /\ HeaderLen(f.addr) \in Nat
  BY <1>6 DEF HeaderLen, PacketLen
<1>8. frag_total \in Bytes
  <2>1. CASE FirstSize < payload_len
    <3>1. PICK q : q = (payload_len - FirstSize) \div RestSize
      OBVIOUS
    <3>2. frag_total = q + 2 /\ frag_total = (1 + q + 1) % U8Space
      BY <2>1, <3>1, TotalFits DEF IndInv, Arguments, FragTotal
    <3>3. q \in Nat
      <4>1. payload_len \in Nat /\ FirstSize \in Nat /\ RestSize \in Nat \ {0}
        BY Sizes, Widths DEF IndInv
      <4>2. payload_len - FirstSize \in Nat
        BY <2>1, <4>1
      <4>. QED BY <3>1, <4>1, <4>2, DivMod
    <3>4. (1 + q + 1) % 256 \in 0 .. 255
      BY <3>3
    <3>. QED BY <3>2, <3>4 DEF U8Space, Bytes
  <2>2. CASE ~(FirstSize < payload_len)
    BY <2>2, TotalFits DEF IndInv, Bytes
  <2>. QED BY <2>1, <2>2
<1>9. f.frag_id \in Bytes
  <2>1. ASSUME NEW b \in 0 .. 255, NEW m \in Nat, m <= b, NEW j \in 1 .. m
        PROVE  j - 1 \in 0 .. 255
    BY <2>1
  <2>. QED BY <1>1, <1>2, <1>5, <1>8, <2>1, Zenon DEF Bytes
<1>10. f.size \in Words
  <2>1. max_pkt_size \in 1 .. U16Space - 1
    BY Sizes DEF IndInv
  <2>2. Words = 0 .. U16Space - 1 /\ U16Space - 1 \in Int
    BY DEF Words, U16Space
  <2>3. ASSUME NEW w \in Int, NEW m \in 1 .. w, NEW l \in Nat, NEW n \in Nat, l + n <= m
        PROVE  n \in 0 .. w
    BY <2>3
  <2>4. f.size \in 0 .. U16Space - 1
    BY <1>4, <1>5, <1>7, <2>1, <2>2, <2>3, Zenon
  <2>. QED BY <2>2, <2>4, Zenon
<1>11. PICK h : h = FragmentHeader(f)
  OBVIOUS
<1>12. h \in PacketHeaders /\ h.addr = Concrete(f.addr) /\ h.type = "packet"
  BY <1>6, <1>8, <1>9, <1>10, <1>11, PacketAssumption DEF FragmentHeader, PacketHeaders
<1>13. Len(WriteHeader(h)) = HeaderLen(f.addr)
  <2>1. PICK code \in Int, body \in Seq(Int) : code = 2 /\ body = WritePacket(h)
    <3>1. PICK e \in Seq(Int), z \in Nat, k \in Int : k = 2
      <4>1. <<>> \in Seq(Int) /\ 0 \in Nat /\ 2 \in Int
        OBVIOUS
      <4>. QED BY <4>1, Zenon
    <3>2. WritePacket(h) \in Seq(Int)
      BY <1>12, PacketBack, Zenon
    <3>. QED BY <3>1, <3>2, Zenon
  <2>2. WriteHeader(h) = <<VERSION, code>> \o body
    BY <1>12, <2>1 DEF WriteHeader, TypeCode
  <2>3. Len(WriteHeader(h)) = 2 + Len(body)
    BY <2>2, HeaderFront
  <2>4. Len(body) = 8 + Len(WriteAddress(h.addr))
    BY <1>12, <2>1, PacketBack
  <2>. QED BY <1>6, <1>7, <1>12, <2>3, <2>4
<1>. QED BY <1>4, <1>5, <1>7, <1>11, <1>12, <1>13, Zenon

\* What is sent beside its header is there for the reader.
LEMMA HeaderReadsBack ==
  ASSUME NEW h \in CommandHeaders \cup PacketHeaders, NEW t \in Seq(Int)
  PROVE  /\ WriteHeader(h) \in Seq(Int)
         /\ WriteHeader(h) \o t \in Seq(Int)
         /\ ReadHeader(WriteHeader(h) \o t) = Read(h, Len(WriteHeader(h)))
         /\ ReadHeader(WriteHeader(h)) = Read(h, Len(WriteHeader(h)))
         /\ \A n \in 0 .. Len(WriteHeader(h)) - 1 :
              ReadHeader(SubSeq(WriteHeader(h), 1, n)) = Failed("Io")
<1>1. PICK w \in Seq(Int) : w = WriteHeader(h)
  BY ReadHeaderBack, Zenon
<1>2. w \o t \in Seq(Int)
  BY ConcatType, Zenon
<1>3. At(w \o t, 0, w) /\ At(w, 0, w)
  BY AtFront, Zenon
<1>4. ReadHeader(w \o t) = Read(h, Len(w)) /\ ReadHeader(w) = Read(h, Len(w))
  BY <1>1, <1>2, <1>3, ReadHeaderBack, Zenon
<1>5. ASSUME NEW n \in 0 .. Len(w) - 1 PROVE ReadHeader(SubSeq(w, 1, n)) = Failed("Io")
  <2>1. SubSeq(w, 1, n) \in Seq(Int) /\ Stops(SubSeq(w, 1, n), 0, w)
    BY StopsFront, Zenon
  <2>. QED BY <1>1, <2>1, ReadHeaderBack, Zenon
<1>. QED BY <1>1, <1>2, <1>4, <1>5, Zenon

\* Header::unmarshal and Header::async_unmarshal read back every header that either
\* end writes, and take no part of one for a whole one.
THEOREM HeadersReadBack == Spec => []HeadersSurvive
<1>1. ASSUME IndInv PROVE HeadersSurvive
  <2>1. ASSUME NEW h \in Headers PROVE h \in CommandHeaders \cup PacketHeaders
    BY <1>1, CommandsAssumption, FragmentHeaders, Zenon DEF Headers
  <2>2. PICK t \in Seq(Int) : t = <<0, 255>>
    <3>1. <<0, 255>> \in Seq(Int)
      OBVIOUS
    <3>. QED BY <3>1, Zenon
  <2>. QED BY <2>1, <2>2, HeaderReadsBack, Zenon DEF HeadersSurvive
<1>. QED BY <1>1, Inductive, PTL

LEMMA FragmentBytesType ==
  ASSUME IndInv, NEW f \in Yielded
  PROVE  FragmentBytes(f) \in Seq(Int) /\ Len(FragmentBytes(f)) = f.size
<1>1. f.size \in Nat /\ f.start \in Nat
  <2>1. out \in Seq(FragmentRecords)
    BY DEF IndInv, Progress
  <2>2. PICK i \in 1 .. Len(out) : f = out[i]
    BY DEF Yielded
  <2>3. f \in FragmentRecords
    BY <2>1, <2>2, ElementOfSeq, Zenon
  <2>. QED BY <2>3 DEF FragmentRecords
<1>2. PICK n \in Nat, m \in Nat : n = f.size /\ m = f.start
  BY <1>1
<1>3. ASSUME NEW i \in 1 .. n PROVE PayloadByte(m + i) \in Int
  BY DEF PayloadByte
<1>4. [i \in 1 .. n |-> PayloadByte(m + i)] \in [1 .. n -> Int]
  BY <1>3, Zenon
<1>5. ASSUME NEW g \in [1 .. n -> Int] PROVE g \in Seq(Int) /\ Len(g) = n
  OBVIOUS
<1>6. FragmentBytes(f) = [i \in 1 .. n |-> PayloadByte(m + i)]
  BY <1>2, Zenon DEF FragmentBytes
<1>. QED BY <1>2, <1>4, <1>5, <1>6, Zenon

\* The bytes that packet_native and packet_quic write for a fragment.
LEMMA WrittenType ==
  ASSUME IndInv, NEW f \in Yielded
  PROVE  /\ WriteHeader(FragmentHeader(f)) \in Seq(Int)
         /\ Written(f) \in Seq(Int)
         /\ Len(Written(f)) = Len(WriteHeader(FragmentHeader(f))) + f.size
         /\ ReadHeader(Written(f))
              = Read(FragmentHeader(f), Len(WriteHeader(FragmentHeader(f))))
<1>1. FragmentHeader(f) \in CommandHeaders \cup PacketHeaders
  BY FragmentHeaders, Zenon
<1>2. PICK t \in Seq(Int) : t = FragmentBytes(f) /\ Len(t) = f.size
  BY FragmentBytesType, Zenon
<1>3. PICK h \in CommandHeaders \cup PacketHeaders : h = FragmentHeader(f)
  BY <1>1, Zenon
<1>4. PICK w \in Seq(Int) : w = WriteHeader(h)
  BY HeaderReadsBack, <1>2, Zenon
<1>5. w \o t \in Seq(Int) /\ Len(w \o t) = Len(w) + Len(t)
  BY ConcatType, Zenon
<1>6. ReadHeader(w \o t) = Read(h, Len(w))
  BY <1>4, HeaderReadsBack, Zenon
<1>7. Written(f) = w \o t
  BY <1>2, <1>3, <1>4, Zenon DEF Written
<1>. QED BY <1>2, <1>3, <1>4, <1>5, <1>6, <1>7, Zenon

\* Header::len is the number of bytes written, so that every datagram is within
\* max_pkt_size.
THEOREM LenIsBytesWritten == Spec => []LenIsExact
<1>1. ASSUME IndInv PROVE LenIsExact
  <2>. SUFFICES ASSUME NEW f \in Yielded
                PROVE  /\ Len(WriteHeader(FragmentHeader(f))) = HeaderLen(f.addr)
                       /\ Len(Written(f)) <= max_pkt_size
    BY Zenon DEF LenIsExact
  <2>1. /\ Len(WriteHeader(FragmentHeader(f))) = HeaderLen(f.addr)
        /\ HeaderLen(f.addr) + f.size <= max_pkt_size
    BY <1>1, FragmentHeaders, Zenon
  <2>2. Len(Written(f)) = Len(WriteHeader(FragmentHeader(f))) + f.size
    BY <1>1, WrittenType, Zenon
  <2>. QED BY <2>1, <2>2, Zenon
<1>. QED BY <1>1, Inductive, PTL

\* Where packets travel: both ends send and accept them on the same two channels.
LEMMA PacketChannels ==
  ASSUME NEW side \in Sides, NEW channel \in Channels(side, "packet")
  PROVE  channel \in {"datagram", "uni"} /\ "packet" \in Accepts(Peer(side), channel)
<1>1. channel \in {"datagram", "uni"}
  BY DEF Sides, Channels, ClientChannels
<1>. QED BY <1>1 DEF Sides, Peer, Accepts, ClientAccepts, ServerAccepts

\* A fragment arrives as it was cut, whichever end sends it and on either channel.
THEOREM FragmentsArrive == Spec => []FragmentsSurvive
<1>1. ASSUME IndInv PROVE FragmentsSurvive
  <2>. SUFFICES ASSUME NEW f \in Yielded, NEW side \in Sides,
                       NEW channel \in Channels(side, "packet")
                PROVE  Accept(Peer(side), channel, Written(f)) =
                         Read([header |-> FragmentHeader(f), payload |-> FragmentBytes(f)],
                              Len(Written(f)))
    BY Zenon DEF FragmentsSurvive
  <2>1. PICK t \in Seq(Int) : t = FragmentBytes(f) /\ Len(t) = f.size
    BY <1>1, FragmentBytesType, Zenon
  <2>2. PICK w \in Seq(Int) : w = WriteHeader(FragmentHeader(f))
    BY <1>1, WrittenType, Zenon
  <2>3. PICK s \in Seq(Int) :
          /\ s = Written(f) /\ s = w \o t
          /\ ReadHeader(s) = Read(FragmentHeader(f), Len(w))
          /\ Len(s) = Len(w) + f.size
    <3>1. Written(f) = w \o t
      BY <2>1, <2>2, Zenon DEF Written
    <3>. QED BY <1>1, <2>2, <3>1, WrittenType, Zenon
  <2>4. PICK h : /\ h = ReadHeader(s) /\ h.ok /\ h.value = FragmentHeader(f)
                 /\ h.pos = Len(w)
    BY <2>3 DEF Read
  <2>5. h.value.type = "packet" /\ h.value.size = f.size
    <3>1. FragmentHeader(f).type = "packet" /\ FragmentHeader(f).size = f.size
      BY DEF FragmentHeader
    <3>. QED BY <2>4, <3>1, Zenon
  <2>6. SubSeq(s, h.pos + 1, h.pos + h.value.size) = FragmentBytes(f)
    <3>1. PICK z \in Nat : z = 0
      OBVIOUS
    <3>2. At(s, z, w \o t)
      BY <2>3, <3>1, AtFront, Zenon
    <3>3. At(s, z + Len(w), t)
      BY <3>2, AtConcat, Zenon
    <3>4. PICK p \in Nat : p = Len(w) /\ z + Len(w) = p
      BY <3>1
    <3>5. SubSeq(s, p + 1, p + Len(t)) = t
      BY <3>3, <3>4, AtSubSeq, Zenon
    <3>. QED BY <2>1, <2>4, <2>5, <3>4, <3>5, Zenon
  <2>7. Arrived(s, h.pos, h.value.size)
    <3>1. f.size \in Nat /\ Len(w) \in Nat
      BY <1>1, FragmentHeaders
    <3>2. Len(w) + f.size <= Len(s)
      BY <2>3, <3>1
    <3>. QED BY <2>4, <2>5, <3>2, Zenon DEF Arrived
  <2>8. "packet" \in Accepts(Peer(side), channel)
    BY PacketChannels, Zenon
  <2>9. Accept(Peer(side), channel, s)
          = Read([header |-> h.value, payload |-> SubSeq(s, h.pos + 1, h.pos + h.value.size)],
                 h.pos + h.value.size)
    BY <2>4, <2>5, <2>7, <2>8, Zenon DEF Accept
  <2>10. h.pos + h.value.size = Len(Written(f))
    BY <2>3, <2>4, <2>5, Zenon
  <2>. QED BY <2>3, <2>4, <2>6, <2>9, <2>10, Zenon
<1>. QED BY <1>1, Inductive, PTL

\* The server takes a command on the channel that the client sends it on, and
\* neither end takes one on another channel.
THEOREM EndsAgreeOnChannels == Spec => []ChannelsAgree
<1>1. ChannelsAgree
  <2>. SUFFICES ASSUME NEW h \in Commands, NEW side \in Sides,
                       NEW channel \in {"uni", "bi", "datagram"}
                PROVE  Accept(Peer(side), channel, WriteHeader(h)).ok
                         <=> channel \in Channels(side, h.type)
    BY Zenon DEF ChannelsAgree
  <2>1. h \in CommandHeaders
    BY CommandsAssumption
  <2>2. h.type \in {"authenticate", "connect", "dissociate", "heartbeat"}
    BY <2>1 DEF CommandHeaders
  <2>3. PICK r : r = ReadHeader(WriteHeader(h)) /\ r.ok /\ r.value = h
    <3>1. PICK t \in Seq(Int) : t = <<>>
      <4>1. <<>> \in Seq(Int)
        OBVIOUS
      <4>. QED BY <4>1, Zenon
    <3>2. ReadHeader(WriteHeader(h)) = Read(h, Len(WriteHeader(h)))
      BY <2>1, <3>1, HeaderReadsBack, Zenon
    <3>. QED BY <3>2 DEF Read
  <2>4. ASSUME h.type \in Accepts(Peer(side), channel)
        PROVE  Accept(Peer(side), channel, WriteHeader(h)).ok
    <3>1. h.type # "packet"
      BY <2>2
    <3>2. Accept(Peer(side), channel, WriteHeader(h))
            = Read([header |-> h, payload |-> <<>>], r.pos)
      BY <2>3, <2>4, <3>1, Zenon DEF Accept
    <3>. QED BY <3>2 DEF Read
  <2>5. ASSUME h.type \notin Accepts(Peer(side), channel)
        PROVE  ~Accept(Peer(side), channel, WriteHeader(h)).ok
    <3>1. Accept(Peer(side), channel, WriteHeader(h)) = Failed("BadCommand")
      BY <2>3, <2>5, Zenon DEF Accept
    <3>. QED BY <3>1 DEF Failed
  <2>6. h.type \in Accepts(Peer(side), channel) <=> channel \in Channels(side, h.type)
    BY <2>2 DEF Sides, Peer, Accepts, ClientAccepts, ServerAccepts, Channels, ClientChannels
  <2>. QED BY <2>4, <2>5, <2>6
<1>. QED BY <1>1, PTL
=============================================================================
