# tuic-jls in TLA+

tuic-jls carries TCP connections and UDP packets over one QUIC connection (with
JLS, an authentication inside the TLS handshake). A SOCKS5 application talks to
`tuic-client`, which opens QUIC streams and sends QUIC datagrams to
`tuic-server`, which talks to the target. This project models the state that the
two programs and the protocol library keep, checks it with TLC on small
instances, and proves the main safety properties with TLAPS.

Contents: [parts](#1-the-system-and-its-parts) ·
[modules](#2-modules) · [runs](#3-runs) · [fairness](#4-fairness) ·
[proofs](#5-proofs) · [what the models show about the code](#6-where-code-and-documentation-differ) ·
[limits](#7-what-is-not-modelled) · [plan](#8-plan)

To repeat a run: `tlc -workers 2 -config MCUdpModel.cfg MCUdpModel`; to repeat a
proof: `tlapm UdpModelProofs.tla`. `PROJECT.json` maps every definition to its
source lines and lists runs, mutants (a faulty variant of a definition for each
property, which makes TLC report that property), hazards and theorems.

## 1. The system and its parts

### tuic, the protocol library (`src/tuic`)

*UDP sessions and reassembly* (`model/mod.rs`). `UdpSessions` is a map from
associate ID to `UdpSession`; a session has a 16-bit counter `next_pkt_id` and a
map `pkt_buf` from PKT_ID to `PacketBuffer`; a buffer has one slot per fragment,
a count of those received and its time of creation. Operations: `send_packet`
(makes a session, takes a PKT_ID), `recv_packet` (needs the session) and
`recv_packet_unrestricted` (makes it), `insert` (fills a slot, yields the packet
when the count is reached), `send_dissociate` and `recv_dissociate` (drop the
session with all its buffers), `collect_garbage` (drops old buffers). Both ends
have such a map, and they are not synchronised: a Dissociate is a message.
Hard: fragments overtake each other and are lost; a fragment may arrive after
its session was dissociated, and makes it again; PKT_IDs wrap, and start again
from 0 with the session. Correct means: what is assembled is one packet that was
sent, whole and at most once, and incomplete buffers do not pile up.

*Fragmentation* (`model/packet.rs`). The iterator `Fragments` computes
FRAG_TOTAL in advance and then cuts; only the first fragment carries the
address, so its room for payload is smaller. Correct means: every fragment fits
a datagram, the fragments are the payload, their number is the one announced.

*Wire format* (`marshal.rs`, `unmarshal.rs`, `protocol/`). No state. Header
lengths are computed apart from writing. Correct means: what is written is read
back, on a stream that delivers it in parts as well, and lengths are exact.

*Task counters* (`model/mod.rs`, `model/connect.rs`). `task_connect_count` and
`task_associate_count` are the numbers of `Register`s that Connect tasks and UDP
sessions hold. They tell the client whether to send heartbeats.

### tuic-quinn (`src/tuic-quinn`)

Binds the model to QUIC: `packet_native` (datagrams), `packet_quic` (a stream
for each fragment), `connect`, `dissociate`, `heartbeat`, and the accept
functions that turn a stream or a datagram into a task. Each end has its own
list of the commands it accepts on each kind of channel.

### tuic-server (`src/tuic-server`)

*UDP relay* (`connection/handle_stream.rs`, `handle_task.rs`,
`udp_session.rs`). A connection has a table `udp_sessions` of weak references, a
relay mode that its packets set, and a listen task for each session, which owns
it. Every packet is a task that looks the session up, makes it if it is missing,
resolves the address and sends. A session ends by timeout or by Dissociate; its
listen task then removes the table's entry. Hard: the lookup and the creation
are two lock acquisitions; the removal comes some time after the end; a weak
reference is used after an await. Correct means: the table has live sessions
only, an ID has one, and every session and task ends.

*TCP relay* (`handle_task.rs`, `io.rs`). `handle_connect` opens a TCP stream and
`exchange_tcp` copies in both directions in one loop: read either stream, then
write everything to the other. It ends at the first end of a stream or error in
either direction, and the streams are then finished or reset. Hard: flow control
in four places, half-closes, errors that must not look like the end of the data.

*Connection and authentication* (`connection/mod.rs`, `authenticated.rs`,
`handle_stream.rs`). Each connection starts tasks for its timers,
`timeout_authenticate` and `collect_garbage`, and a task for every stream. The
task of a stream doubles the number of streams the peer may have when the number
of tasks has reached the maximum. Hard: load, comparison, store and announcement
are separate steps of tasks on several threads, a task is counted as long as it
runs and a stream as long as it is open. Correct means: a peer that uses all its
streams gets more.

*RESTful API* (`restful.rs`). Global tables of online clients, which the two
timers add to and take from, a limit of clients per user, `/kick`, and the
reports `/online` (counts) and `/detailed_online` (connections). Hard: the
timers are independent, counters wrap, the table is updated after an await.
Correct means: counts are right, and the table that `/kick` and the reports read
has every client that is online.

*Certificates* (`tls.rs`, `utils.rs`). `CertResolver` serves a certificate and a
key. Its task `start_watch` waits for messages of a file watcher, which come
through a broadcast channel of one place, and loads both files again. Hard: the
two files change one after the other and not at once, only one is watched, the
channel overflows, and every error ends the task. Correct means: a renewed
certificate is served, with its key, and so is the next one.

*Start-up, configuration* (`server.rs`, `config.rs`, ...). Endpoint set-up from
settings.

### tuic-client (`src/tuic-client`)

*Connection* (`connection/mod.rs`). One global cell holds the connection.
`get_conn` makes it or, under the cell's write lock, makes it again when it has
closed; a timeout may cancel the caller at any await. The connection runs an
accept loop, which raises the stream limits before each accept,
`collect_garbage`, and a heartbeat loop, which sends a Heartbeat at its wake-ups
while there are tasks. Nobody closes an idle connection: quinn's idle timer at
each end does. Correct means: one connection at a time, nobody is locked out, a
connection in use is kept and one that nobody uses is given up.

*SOCKS5 UDP associations* (`socks5/mod.rs`, `handle_task.rs`,
`udp_session.rs`). Associations get 16-bit IDs from a counter that wraps and an
entry in a global table, by which an answer finds its way back. A packet is
forwarded by a task of its own; the end of an association sends a Dissociate,
for which it needs a connection. Hard: IDs are given again, answers come late,
the connection changes between packet and Dissociate, and the unwraps of table
and socket rely on who has which ID. Correct means: the table has live
associations only, the unwraps succeed, and an association that has ended leaves
nothing behind.

*SOCKS5 TCP connections* (`socks5/handle_task.rs`). `copy_bidirectional` between
the application and a Connect stream.

### How they interact

Within a program tasks share tables behind locks and atomics, and interleave at
their awaits. Between programs there are datagrams (may be lost, may overtake
each other) and streams (each reliable, but unordered among themselves, and
broken by resets and by the end of the connection).

## 2. Modules

| Module | Part | Used by |
|---|---|---|
| `UdpModel` | UDP sessions and reassembly at both ends, with the network | `MCUdpModel`, `UdpModelProofs` |
| `PacketDelivery` | abstract: what the UDP relay promises | refined by `UdpModel` |
| `PacketFragments` | the `Fragments` iterator | `PacketWire` |
| `WireFormat` | `Header::write` and the readers, as operators | `PacketWire` |
| `PacketWire` | fragments, wire format and channels together | `MCPacketFragments`, `PacketFragmentsProofs` |
| `ServerUdp` | UDP relay of the server | `MCServerUdp`, `ServerUdpProofs` |
| `Restful` | connections, authentication, accounts and reports of the server | `MCRestful`, `RestfulProofs` |
| `StreamLimits` | growth of the stream limits at the server or at the client | `MCStreamLimits`, `StreamLimitsProofs` |
| `CertWatcher` | `CertResolver`, its watcher and the writer of the files | `MCCertWatcher`, `CertWatcherProofs` |
| `Heartbeat` | task counters, heartbeat loop and idle timers of both ends | `MCHeartbeat`, `ClientProofs` |
| `ClientUdp` | `get_conn`, associations, packets and answers of the client | `MCClientUdp`, `ClientProofs` |
| `TcpRelay` | one Connect task from application to target | `MCTcpRelay`, `TcpRelayProofs` |

### UdpModel

`sessions`, `next_pkt_id` and `pkt_buf` are the fields of the code, for both
sides at once (the side is the first part of a key). `network` has the fragments
in flight, a set, since they overtake each other; `accepted` has those between
`accept_datagram` or `accept_uni_stream` and `Packet::accept`, two calls between
which anything may happen, a Dissociate for one. Payloads are abstracted to the
number of the packet they are of (`uid`), which only the model knows. `reused`
records the keys that were given to a packet while an older one was still alive
under them.

| Action | Code |
|---|---|
| `SendPacket` | `send_packet`, then `packet_native` or `packet_quic` of all fragments |
| `RecvPacket` | `recv_packet` at the client, `recv_packet_unrestricted` at the server |
| `Assemble` | `Packet::accept` and `assemble`: `UdpSessions::insert`, `UdpSession::insert`, `PacketBuffer::insert` |
| `SendDissociate`, `RecvDissociate` | `dissociate` of the client, a Dissociate at the server |
| `CollectGarbage`, `Elapse` | `collect_garbage`, and the clock it reads |
| `Lose` | loss of a datagram, or of a stream with its task |

`InsertResult` follows the order of the checks in `PacketBuffer::insert`; a slot
that does not exist is an outcome of its own. An error leaves the buffer that
was made for the fragment, as in the code.

### PacketFragments, WireFormat, PacketWire

`PacketFragments` has the fields of the iterator; `Init` is `Fragments::new`,
the actions are the three ways `next` can go (a fragment, `None`, an index
panic). A payload is its length and a fragment a range of it. Casts to `u8` and
`u16` are taken modulo. `WireFormat` writes and reads bytes: `Header::write` and
both readers, with their failures (`Io` for missing bytes, unknown version, type
or address). Numbers are big-endian bytes; host names are sequences of
one-byte characters, of which `Utf8` is the check. `CommandHeaders` and
`PacketHeaders` are all the headers there are, with 16-bit numbers and names of up
to 255 bytes. `PacketWire` puts both together, with a payload whose bytes can be told apart, and adds the channels
each end uses and accepts.

### ServerUdp

Each packet is a task with a program counter: `PreProcess` (the relay mode is
checked), `HandlePacket` (it is stored), `Accept` (the payload has arrived, or
will not; on a stream this waits for the client, without a timeout), `Lookup`
(read lock), `Create`, `Occupied` or `SocketFail` (write lock), `Upgrade` or
`ResolveFail` (after `resolve_dns`), `Sent`. Each session is a listen task: `Recv`, `Timeout`,
`Break` (the oneshot has fired), `Remove` (the entry goes, under the lock).
`HandleDissociate` removes the entry and closes its session. `Upgradable` counts
the strong references. `RelayPacket` is the spawned task that sends a packet to
the client and unwraps the relay mode. `Disconnect` closes the connection, which
ends neither sessions nor tasks. Whether a fragment completes a packet is a free
choice here; it is `UdpModel`'s subject. `dissociated` and `first_mode` are
histories.

### Restful

Per connection: quinn's view of it, its UUID, and the steps of its two timer
tasks, which are split where they await the table's lock (`ClientConnect` then
`Register`, `CollectGarbage` then `Unregister`). The two tasks come in any order:
`auth_timeout` and `gc_interval` are settings, 3 s each by default. Counters wrap
at `U64Space`. `Upsert` is what the map's operation does: insert the new value or
update the old one, not both. A client over the limit ends its timer as `refused`:
it was counted, and is not in the table. `ListDetailedOnline` is the report of
`/detailed_online` as a function of the state; that of `/online` is
`online_counter`. Requests whose token the API refuses change nothing and are left
out.

### StreamLimits

One kind of stream, uni- or bidirectional, at one end, which is the initial
choice of `side`. `open` is what quinn counts against `limit`, `Registered` is
what the code counts: a stream is in the first from its opening until both ends
have closed it, and in the second from the accept to the end of its task. At the
server the check is four steps of the stream's task (`Load`, `Compare`, `Store`,
`Set`) with a local variable, `seen`; at the client it is one step of the accept
loop (`ClientCheck`), which `select!` may drop and start again (`SelectOther`).
`missed`, `lowered`, `outlived` and `stale` are histories. Numbers of streams
that wrap at 2^32 are out of reach and left out.

### CertWatcher

A file has the text of a renewal (its number), nothing, or a part. The writer is
a tool outside the server; whether it renames a new file over the old one or
truncates the old one first (as `acme.sh --install-cert` does), and renews the key
or the certificate first, are initial choices. A watch may follow the file and not
its name (inotify), and is then lost with a file that is replaced: `watched`.
`raised` has the changes the operating system has
seen and not reported (`Notify` reports one or several together), `unread` the
messages of the broadcast channel, where 2 stands for an overflow. `unwatched` is
the history of a change that nothing reports. `StartWatch` (which may fail),
`Recv`, `LoadCertChain` and `LoadPrivKey` are the task's steps between its
awaits; `EndWatch` is its end, by an error of a load or by `Lagged`. A part of a
certificate's file may load or not, an empty one loads as an empty chain, and
nothing but a whole key loads.

### Heartbeat

Time goes in ticks. `tasks` are the holders of a `Register` of the client's model.
`sending` are the ends that still have something to send (`Relay`): the client from
its first Register until the end of its last task is sent, the server from the
arrival of a command for as long as one of its sessions or streams is left, which
the client's Registers do not tell: a session whose Dissociate was not sent, or
that a late packet made, relays what its target sends until its own timeout.
`idle` has quinn's
idle timer of each end, and `quiet` whether an end has sent anything since it last
received: quinn restarts its timer on every packet that arrives, and on the
first that is sent after that. `net` has packets and acknowledgements, which need
up to `MaxDelay` ticks or are lost, at most `MaxLost` in a row. `Beat` is a
wake-up of the heartbeat loop with its three outcomes. `Tick` waits for what is
due, so that no timer is late by more than the packet it waits for.
`TicksAssumption` is what the settings have to satisfy: the default heartbeat of
3 s and the default `max_idle_time` of 10 s leave room for two lost beats. It also
asks for packets that are faster than the heartbeat. An acknowledgement answers for
all that arrived with it, so with slower packets the loss of one acknowledgement
can undo two heartbeats, and `BusyIsKept` fails (TLC finds this for a heartbeat of
1 tick, delays of 1 and two losses). A delay of 3 s is far from what a relay is
used with.

Names of this module begin with `Heartbeat` where `ClientUdp` has the same one
(`HeartbeatInit`, `HeartbeatNext`, ...): `ClientProofs` extends both.

### ClientUdp

Associations are tasks (`Accept` or `Refuse`, `Insert`, `StopAssociating`,
`RemoveSession`), and so are packets (`Forward`). Both are callers of
`get_conn`: `Acquire` (the cell's permit or write lock), `Connect`, `Cancel`
(failure or timeout, which drops what the future holds). With the connection a
packet does `SendPacket` and an association `Dissociate` (the model's session goes)
and then `WriteDissociate` (the stream is opened and written, which waits for the
server's stream credit and has no timeout: `AwaitsStream`); either may find it
closed or replaced. An answer is `AcceptAnswer` (`recv_packet`, the model's
session is needed) and then `HandlePacket` (assembled, and sent by whoever has
the ID in `UDP_SESSIONS` now, whose socket needs a peer: `peers` are the
associations that have sent). `sessions` is what `task_associate_count` counts.

### TcpRelay

Four bounded FIFOs: the QUIC stream up and down, the TCP stream up and down, and
between them the buffer of `exchange_tcp`. Reads return any part of what has
arrived, `write_all` goes unit by unit, and each stream's end is `open`, `fin` or
`reset`. The server's steps are those of `handle_bi_stream`, `handle_connect`
and `exchange_tcp`; `Finish` is all that happens after its loop. A client whose
`copy_bidirectional` fails (`CopyFails`: its stream was reset or stopped, or the
application aborted) shuts the application's socket in order and resets its stream.
Both ends may be of the kind that
does not read while its own write blocks (`blocking`).

## 3. Runs

Every run keeps deadlock checking off where the modelled programs may come to
rest (nobody sends any more), and on for `UdpModel`, whose timers always run.
Type invariants are proved instead of being part of a run (section 5).

| Run | Constants | States | Properties |
|---|---|---|---|
| `udp_model` | 1 ID, 2 PKT_IDs, packets of up to 2 fragments, 2 from the client and 1 from the server, 2 Dissociates | 185 thousand | `NoMixing`, `AssembledIsComplete`, `FragmentsFit`, `IncompleteIsCollected`, `ImplementsDelivery` |
| `fragments` | payloads of 0 to 80 bytes, datagrams of 30, 31 and 36, three kinds of address | 3.5 thousand | `FitsDatagram`, `Lossless`, `PanicsAtBoundary`, `HeadersSurvive`, `LenIsExact`, `FragmentsSurvive`, `ChannelsAgree` |
| `server_udp` | 1 ID, 2 packet tasks, 2 sessions, 1 inbound packet each | 62 thousand | `EntriesAreLive`, `RelayHasMode`, `OneSessionUntilDissociate`, `SessionsEnd`, `TasksEnd` |
| `one_socket` | 3 packet tasks, 3 sessions, tasks symmetric | | violated: `OneSocketPerAssociation` |
| `mode` | 2 IDs, 2 packet tasks, 2 sessions | | violated: `AnswersInFirstMode` |
| `restful` | 4 connections, limit of 2, counter modulo 8 | 93 thousand | `CountIsExact`, `AuthorizedIsUser`, `CountSettles` |
| `listed` | 3 connections, no limit | | violated: `OnlineIsListed` |
| `client_udp` | 3 associations, 2 IDs, 1 packet, 2 connections | 680 thousand | `OneConnection`, `SessionIsOwn`, `NoDeadSession`, `AnswersHavePeer`, `SessionsAreActive`, `AssociationsEnd` |
| `tcp_relay` | 3 units each way, windows and buffers of 2 | 381 thousand | `NothingLost`, `TargetEofIsComplete`, `AnswerEndIsComplete`, `EofEndsRelay` |
| `stream_limits` | 5 streams, symmetric, first limit of 2 | 60 thousand | `LimitGrows`, `MissesHaveCauses` |
| `cert_watcher` | 2 renewals | 6 thousand | `FilesAreServed`, `RenewalIsServed` |
| `heartbeat` | 1 Connect, 1 association, heartbeat of 2 ticks, idle time of 7, delay of 1, 1 loss | 866 thousand | `BusyIsKept`, `IdleIsLetGo` |

What the passing runs show, and why their bounds reach the interesting cases:

- **udp_model.** Two Dissociates, also in flight together, and two packets of the client are enough for a PKT_ID to be given
  again after a Dissociate, while fragments of the first are in flight, accepted
  or buffered. Two fragments are enough for every order and for a buffer that
  stays incomplete; a different number of fragments in each packet gives buffers
  whose size disagrees with a fragment's header. The answer of the server needs a
  packet that arrived. Outside `reused`, packets are not mixed, no accepted
  fragment is turned away, and the abstract `PacketDelivery` is implemented.
  IDs do not interact in this module, so one is enough; wrapping alone (without
  a Dissociate) reuses keys in the same way and is covered by the proofs, which
  hold for every `PktIdSpace`.
- **fragments.** The lengths pass through every remainder of the division for
  all nine pairs of datagram size and address, up to six fragments, and
  the sizes make the first fragment much smaller than the later ones. The
  other commands include an empty domain name, one of 255 bytes, one that looks
  like the start of a header, and numbers whose two bytes differ. Each header is
  also read from every proper prefix of it.
- **server_udp.** Two packets of one ID race from any step against each other,
  the timeout, Dissociates and a listen task that has stopped but not yet
  removed the entry. `one_socket` needs a third packet. The modes of the two
  packets are free; `mode` has two IDs, so that the packets need not even be of
  one session.
- **restful.** Four connections are the fewest of which one is over a limit of
  two (the code admits one more than `maximum_clients_per_user`). Connections are
  collected before or after they are added, in any mixture, so that the count
  wraps, unwraps, and refuses clients while it is wrapped. `listed` needs one
  connection.
- **client_udp.** Three associations with two IDs make the counter wrap, with
  the first association still live or ended, so that an answer can meet an
  association that has its ID and has not sent yet: only then may the task of an
  answer panic (`AnswersHavePeer`). Two connections allow one to be
  replaced while callers wait, connect or use the old one. `SessionsAreActive`
  names the exceptions by which a connection keeps a session, and its
  heartbeats, after its association's end: a packet or an answer that comes
  later, or a Dissociate that is never sent or goes to a connection that has
  been replaced.
- **tcp_relay.** Three units do not fit a buffer of two, so every write can
  block, reads are partial, and all four FIFOs can be full at once. The end that
  `AnswerEndIsComplete` speaks of is that of the QUIC stream. After an error of its
  copy the client ends the application's stream in the same way, and nothing is
  claimed of that end.
- **stream_limits.** Five streams with a limit of two are enough for the limit to
  double, for the count to pass it while streams end before their tasks, and
  for three tasks to check at once. `LimitGrows` has two exceptions;
  `MissesHaveCauses` says what they need, and that the client has neither.
- **cert_watcher.** Two renewals of two files allow one to overlap the load of
  the other, and more messages than the channel has room for. Both properties hold
  for both kinds of writer, with what ends or escapes the watch as an exception.
- **heartbeat.** The bounds are the tightest that `TicksAssumption` allows: a
  heartbeat that is lost, the next one and its acknowledgement with their delays
  take 6 ticks, and the idle time is 7. One task of each kind can start and end
  at any tick, so that they follow each other or overlap, and the server may go on
  sending after both. `IdleIsLetGo` is about connections on which that has ended.

## 4. Fairness

Weak fairness only, and only on steps that the programs' own runtime takes:
tokio polls a task that can go on, timers fire, `RwLock` and the cell's permit
are given in turn, DNS resolution and socket writes return. Nothing is assumed
of the peer, of the network, or of users: a wait for the payload of a Packet, for
stream credit or for flow control may last as long as the connection.

- `UdpModel`: the clock and both `collect_garbage` timers.
- `ServerUdp`: steps of packet tasks and listen tasks, the session timeout
  (packets from outside are bounded, as a timeout needs silence). `Accept` on a
  stream is fair only once the connection has closed, and `RelayPacket` not at all,
  since `packet_quic` waits for the client's credit. `TasksEnd` names the wait.
- `Restful`: the timers and the steps after their awaits. Nobody has to close a
  connection.
- `CertWatcher`: reports of changes are delivered, and the task goes on. Nobody
  has to write a file.
- `Heartbeat`: time passes, the loop wakes up, idle timers fire, and what is under
  way arrives or is lost. Nobody has to start or end a task, or to stop sending.
- `StreamLimits` has safety properties only, and no fairness.
- `ClientUdp`: an association's own steps and the timeout of `get_conn`. No
  connection has to succeed. `WriteDissociate` is fair only once the connection has
  closed, and `AssociationsEnd` names the wait.
- `TcpRelay`: the server's task, the client's copy, and reading by an end that
  is ready to read. No end has to send, close or fail. `EofEndsRelay` is
  restricted to ends that always read (`blocking = {}`), see section 6.

## 5. Proofs

Every safety property of the passing runs, invariant, action property or
refinement, is also a theorem, for all values of the constants under the named
assumptions of the modules. Most assumptions say that bounds are natural numbers,
that sizes are positive, that sets of tasks are finite, and that distinguished
values are distinct. Those of substance are:

- `RoomAssumption` (`PacketFragments`): the largest header is smaller than a
  datagram, and no payload needs 255 fragments (a UDP payload has at most 65527
  bytes).
- `CommandsAssumption`, `PacketAssumption`, `NamesAssumption` (`PacketWire`): numbers
  are of 16 bits, and a domain name has at most 255 bytes, as the field of the SOCKS5
  request that it comes from. `Address::write` casts the length to one byte.
- `FewConnsAssumption` (`Restful`): there are fewer connections than the counter's type
  has values.
- `TicksAssumption` (`Heartbeat`): see section 2.

| Module | Theorems | Inductive invariant |
|---|---|---|
| `UdpModelProofs` | `TypeCorrect`, `PacketsAreNotMixed`, `AssembledPacketsAreComplete`, `FragmentsFindTheirSlot`; `FirstFragmentIsOnce`, `DeliveryIsImplemented` | `IndInv`; `FirstIsOnce` |
| `PacketFragmentsProofs` | `FragmentsFitDatagrams`, `FragmentationIsLossless`, `PanicExactlyAtBoundary`; `HeadersReadBack`, `LenIsBytesWritten`, `FragmentsArrive`, `EndsAgreeOnChannels` | `IndInv` |
| `ServerUdpProofs` | `TypeCorrect`, `TableEntriesAreLive`, `RelayFindsMode`, `OneOpenSession` | `IndInv` |
| `RestfulProofs` | `TypeCorrect`, `CountExact`, `ExpectsHold` | `IndInv` |
| `StreamLimitsProofs` | `TypeCorrect`, `MissesAreExplained`, `LimitAlwaysGrows` | `IndInv` |
| `CertWatcherProofs` | `TypeCorrect`, `RestIsCurrent` | `IndInv` |
| `ClientProofs` | of `ClientUdp`: `TypeCorrect`, `OnlyOneConnection`, `LockHasHolder`; `OwnSession`, `TableHasLiveOnly`, `AnswersFindPeer`; `SessionsAreOfActive` | `IndInv`; `SessionInv`; `ActiveInv` |
| | of `Heartbeat`: `HeartbeatTypeCorrect`, `BusyConnectionIsKept` | `HeartbeatInv` |
| `TcpRelayProofs` | `TypeCorrect`, `UnitsAreConserved`, `TargetSeesWhole`, `AnswerEndsWhole` | `IndInv` |

That each invariant holds in every reachable state is a theorem of its own
(`Inductive`, `SessionsInductive`, `HeartbeatInductive`).

The arguments:

- **UdpModel.** `NoMixing` speaks of packets already delivered, so it needs to
  know what may still be delivered. `FragmentsAreSent`: a fragment under way is
  one of a packet that was sent. `BuffersAreIncomplete`: the count of a buffer is
  the number of its filled slots, all inside it, and it lacks one; this is why
  "the count is reached" means "all slots are filled", although the code never
  looks at the slots. `KeysAreOwned`: outside `reused` everything alive under a
  key is of one packet, and no fragment is both under way and in its slot. The
  step that needs care is `Assemble` (`FragmentMeetsBuffer`, `FullIsComplete`).
- **UdpModel implements PacketDelivery.** "At most once" has to hold also where
  keys are reused. `FirstIsOnce` follows the first fragment of every packet: it is
  on its way, in one buffer or in one assembled packet, and never in two of them.
  A packet that was assembled twice would have its first fragment in both. The
  refinement mapping names the packet that an assembled one is; a step of `Assemble`
  that completes a packet is `Arrive` or `Garble`, `SendPacket` is `Enter`, and
  everything else stutters, because what has been delivered keeps its name.
- **PacketFragments.** Before each call of `next` the position is the sum of the
  rooms so far, or the end of the payload; with the division lemmas (`DivMod`,
  `DivBounds`, `TotalFits`) this gives the number of fragments, and that the
  iterator runs past the end exactly at the boundary lengths.
- **WireFormat, PacketWire.** The readers are functions of a sequence and a
  position. `At(s, p, t)` says that all of t is in s after p bytes, `Stops(s, p, t)`
  that s ends within t; both distribute over concatenation (`AtConcat`,
  `StopsConcat`). For each field and each command there is a pair of lemmas, that
  the reader returns what was written when it is all there, and `Io` when it is not
  (`ReadAddressBack`, `ReadAddressStops`, ..., `ReadHeaderBack`). The invariant of
  `PacketFragments` then shows that what the iterator yields are such headers
  (`FragmentHeaders`): the number of fragments and the sizes fit their fields.
- **ServerUdp.** `EntriesAreLive` holds because an entry is made with its listen
  task and every listen task removes its ID's entry before it ends, whoever owns
  it: the same removal that takes a newer session's entry. `LiveAreEntries` says
  that this happens only to dissociated IDs. `TasksHaveMode` carries the stored
  mode to where a session is made, across the wait for the payload.
- **Restful.** `LivesAgree` relates quinn's view of a connection to its two tasks,
  and says that its UUID never changes. Each `fetch_add` and `fetch_sub` then either
  adds its client to those counted, takes it away, or does so for those that were
  collected before they were added; the two sets are disjoint and smaller than the
  counter's type (`FewConnsAssumption`), so that the difference of their sizes is
  what the wrapping count stands for (`CountIsExact`).
- **StreamLimits.** `LimitGrows` needs that nobody comes to rest at a limit:
  `SomeoneChecks` says that a count that has reached the limit has a task that will
  still compare, or one that is about to announce more. `MaximaAreAnnounced` links
  the maximum to the limit through the tasks between `Store` and `Set`. For
  `MissesHaveCauses`: while no Register outlives its stream (`HandledAreOpen`) there
  are no more Registers than open streams, and while no task goes on with a
  maximum that was replaced (`LimitFollowsMax`) there are no more of those than the
  limit, which is at most the maximum. The client's loop compares before every
  accept (`ClientKeepsUp`).
- **CertWatcher.** `ReadIsCurrent` carries "what was read is in the file" from
  one read to the next, as long as no report is under way (`UpToDate`); the key
  is current when the list of files still to be written is empty, since the
  certificate is written, and reported, after it. A change of an unwatched file
  suspends this until the file is read again (`unwatched`).
- **ClientUdp.** `OneConnection` needs `ConnectingHasLock` and `ReplacesClosed`:
  what a connecting caller is about to replace stays closed meanwhile.
  `SessionIsOwn` needs `TwinsClash`: two live associations with one ID are both
  recorded. `AnswersHavePeer` needs that an association that has asked and lives has
  a peer (`OriginsStarted`), and that it alone has its ID's entry (`SessionIsOwn`).
  `SessionsAreActive` needs that a
  closed connection has no sessions and that only associations that relay, or
  did, have packets (`SessionsOnOpen`, `OriginsRelay`).
- **Heartbeat.** `Spent` is the silence that the packets lost so far explain: a
  heartbeat for each, and one more. `ServerHears` and `ClientHears` say that the
  silence of an end stays within it when the next heartbeat is sent (`BeatDue`), or
  that one is on its way that was sent in time (`BeatSent`), or, for the client, that
  it is answered (`Answer`). The loss of a heartbeat turns the second into the first,
  with one more loss spent. The loss of an acknowledgement is the difficult case: the
  next heartbeat may have been sent already, or even be answered, and then it
  has to count by itself. That the two acknowledgements are never one and the same
  is where `MaxDelay < HeartbeatTicks` is used. `AckIsFresh` is for the moment at
  which an acknowledgement arrives and the losses are forgiven: the server, too,
  has heard of the client recently then. Until there have been tasks for as long
  as an idle timer runs, `Silence` counts from the start of the first one.
- **TcpRelay.** The ends of the streams are related to what is still under way:
  `RestIsUnderWay` says that once a stream has ended, what its receiver lacks is
  in the FIFO before it, and `EndsHaveReasons` who ended it.

Only model-checked are the liveness properties, which are out of the prover's
reach: `IncompleteIsCollected`, `SessionsEnd`, `TasksEnd`, `CountSettles`,
`AssociationsEnd`, `EofEndsRelay`, `RenewalIsServed`, `IdleIsLetGo`. The other way
round, `LockIsHeld`, a lock that a cancelled caller cannot keep, is proved and
needs no run.

## 6. Where code and documentation differ

1. **FRAG_TOTAL** (`fragments`). `model/packet.rs:243` announces one fragment
   too many when the fragments after the first are all full, and `next` then
   indexes past the payload. An empty payload indexes past its end as well.
   `PanicsAtBoundary` shows, and is proved to show, that no other lengths are
   affected.
2. **One socket for an ID** (`one_socket`). SPEC.md:174 maps an ID to a socket. A
   listen task removes its ID's entry when it ends, also that of a successor;
   the next packet then makes a third session beside it.
3. **The mode of the answers** (`mode`). SPEC.md:187 takes it from the first Packet
   of a session. The code has one mode for the connection, which every Packet
   stores after a check that several can pass together: a session that was made for
   a Packet in one mode is then answered in the other, and later Packets in the
   first mode close the connection.
4. **The clients that are online** (`listed`). The first client of a user makes the
   entry of `ONLINE_CLIENTS` and is not in it: `/detailed_online`, which is to list
   the online clients (tuic-server/README.md:165), does not show it, and `/kick`
   does not close it.
5. **The UUID of a connection** (`restful`). It is always the nil UUID, which
   `restful.rs` expects in the users table. `AuthorizedIsUser` shows, and is proved
   to show, that the expects fail for no other reason.
6. **The time of a TCP task** (no run). tuic-server/README.md:118 has
   `stream_timeout` limit TCP tasks as well. No step of the code does: it limits UDP
   sessions only, and `EofEndsRelay` has the end of a stream as its premise.

Further behaviours of the models, most of them named as exceptions in a property:

- After a Dissociate PKT_IDs start again from 0, and fragments of two packets may
  be assembled into one (`reused` in `NoMixing`; SPEC.md:180 uses the PKT_ID to
  identify a packet).
- A client that `collect_garbage` takes away before `timeout_authenticate` has
  added it, as the default settings allow, makes the online count wrap until it is
  added (`Wrapped` in `CountIsExact`); meanwhile every client is over the limit.
- The limit of clients is compared with the count before the addition, so one more
  than `maximum_clients_per_user` is admitted (`Over`). Nothing documents whether
  the setting is inclusive, and no property is stated of it.
- The server compares the number of tasks with its maximum by equality. Once that
  number has passed the maximum, the peer stays at its limit until enough tasks
  have ended (`missed` in `LimitGrows`).
- A Packet on a stream keeps its task until its payload is there or the connection
  has closed (`AwaitsPayload` in `TasksEnd`), and the end of an association waits as
  long for a stream to write its Dissociate on (`AwaitsStream` in
  `AssociationsEnd`): neither has a timeout.
- An answer finds its association by ID. One that comes late may reach a newer
  association with the same ID; if that one has not sent anything yet, the task of
  the answer panics at the unwrap of its socket's peer (`AnswersHavePeer`).
- A session of the server that outlives its association keeps the connection alive
  as long as its target sends (`sending` in `IdleIsLetGo`).
- A certificate renewed before its key is served with the old key, as nothing
  follows the change of the key (`order` in `FilesAreServed`). A writer that
  truncates first, or makes several changes while the files are loaded, can end
  the watch (`task = "ended"` in `RenewalIsServed`), and an empty file is served as
  an empty chain until it is written. A change before the watch starts, or after a
  rename has taken it, is not noticed (`unwatched`).
- Tasks that start when the idle timers are about to fire may find the
  connection gone (`busy` in `BusyIsKept`).
- The end of one direction of a TCP relay ends the other, so an application that
  shuts its writing side may miss the rest of the answer (`AnswerEndIsComplete`); the
  relay and an end that does not read while its write blocks can wait for each
  other (`blocking` in `EofEndsRelay`).
- After an error each program ends the TCP stream that it has in order: the target
  cannot tell a cut upload from a whole one (`last_err` in `TargetEofIsComplete`),
  nor the application a cut answer (`copy_err` in `AnswerEndIsComplete`).

## 7. What is not modelled

- QUIC, TLS and JLS themselves: datagrams, streams and connections behave as
  quinn documents. `Authenticate`'s token is a comparison of opaque bytes.
- Endpoint set-up, command line, error types and logging. Configuration files are
  declarations with serde's readers and one-to-one conversions of settings
  (`old_config.rs`): they have no state, and what they read is a constant here.
- The check of a datagram's source address in the SOCKS5 `UdpSession::recv`:
  a refused datagram changes nothing.
- The traffic counters, except for those of a TCP task: each is one atomic addition
  or swap, and no other state depends on it.
- DNS resolution and socket options: they succeed or fail.
- The number of bytes in a stream and the sizes of buffers are scaled down;
  content is not modelled except in `PacketWire`.

## 8. Plan

Done, in this order: `UdpModel` with `PacketDelivery`, `PacketFragments`,
`ServerUdp`, `Restful`, `TcpRelay`, `ClientUdp`, `WireFormat` with `PacketWire`,
`Heartbeat`, the relay mode and the reports, `StreamLimits`, `CertWatcher`.

Then the proofs: first `UdpModel`, `PacketFragments`, `ServerUdp`, `TcpRelay`,
`ClientUdp` and `CertWatcher`, then the accounts of `Restful`, `StreamLimits`,
`SessionsAreActive`, the refinement of `PacketDelivery`, the wire format, and
`BusyIsKept` of `Heartbeat`. With these, no safety property is left to TLC alone.

What could follow:

1. The enabledness halves of the liveness arguments as safety facts, for example that
   a listen task that has stopped always finds its entry's lock free in the end.
2. `ClientUdp` and `Heartbeat` in one specification: the sessions of the first are the
   associations of the second, and with `ServerUdp` those that outlive them.
