--------------------------- MODULE PacketDelivery ---------------------------
(***************************************************************************)
(* What the UDP relay of a TUIC connection promises its users: a packet    *)
(* that arrives is one that was sent, whole, with its own address, and it  *)
(* arrives at most once; packets may be lost and may overtake each other.  *)
(* The promise ends where a packet's identifier (direction, associate ID   *)
(* and PKT_ID) is given to a second packet while the first is on its way:  *)
(* what arrives with an ambiguous identifier may be anything.              *)
(***************************************************************************)
EXTENDS Naturals, Sequences

VARIABLES
  sent,       \* the packets sent, each a record whose key is its identifier
  arrived,    \* what arrived: the index in sent, or Garbled
  ambiguous   \* the identifiers given twice

deliveryVars == <<sent, arrived, ambiguous>>

Garbled == 0

DeliveryInit ==
  /\ sent = <<>>
  /\ arrived = <<>>
  /\ ambiguous = {}

\* A packet enters; its identifier may be one that is still in use.
Enter ==
  /\ Len(sent') = Len(sent) + 1
  /\ SubSeq(sent', 1, Len(sent)) = sent
  /\ ambiguous' \in {ambiguous, ambiguous \cup {sent'[Len(sent')].key}}
  /\ arrived' = arrived

\* Packet u arrives, for the first time.
Arrive(u) ==
  /\ \A i \in 1 .. Len(arrived) : arrived[i] # u
  /\ arrived' = Append(arrived, u)
  /\ UNCHANGED <<sent, ambiguous>>

\* Something arrives under an ambiguous identifier.
Garble ==
  /\ ambiguous # {}
  /\ arrived' = Append(arrived, Garbled)
  /\ UNCHANGED <<sent, ambiguous>>

DeliveryNext ==
  \/ Enter
  \/ \E u \in 1 .. Len(sent) : Arrive(u)
  \/ Garble

DeliverySpec == DeliveryInit /\ [][DeliveryNext]_deliveryVars
=============================================================================
