-------------------------- MODULE MCPacketFragments --------------------------
(* PacketWire for TLC: datagrams small enough that packets need several. *)
EXTENDS PacketWire

\* An IPv4, an IPv6 and a domain address.
MCAddresses == {[kind |-> "ipv4", chars |-> 0], [kind |-> "ipv6", chars |-> 0],
                [kind |-> "domain", chars |-> 3]}
MCMaxPktSizes == {30, 31, 36}
MCPayloadLens == 0 .. 80
MCNonEmptyLens == 1 .. 80

\* One command of each other kind; addresses with an empty name, with a name that
\* looks like the start of a header, with the longest name, and with none.
MCCommands ==
  {[type |-> "authenticate", uuid |-> [i \in 1 .. 16 |-> i], token |-> [i \in 1 .. 32 |-> 255]],
   [type |-> "dissociate", assoc_id |-> 258],
   [type |-> "heartbeat"]} \cup
  {[type |-> "connect", addr |-> a] :
     a \in {NoneAddress,
            [kind |-> "domain", host |-> <<>>, port |-> 443],
            [kind |-> "domain", host |-> <<5, 2>>, port |-> 65535],
            [kind |-> "domain", host |-> [i \in 1 .. 255 |-> 97], port |-> 1],
            [kind |-> "ipv4", host |-> <<127, 0, 0, 1>>, port |-> 0]}}
MCAssocId == 65535
MCPktId == 256
MCPort == 443
=============================================================================
