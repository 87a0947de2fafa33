------------------------------ MODULE ServerUdp ------------------------------
(***************************************************************************)
(* UDP sessions of one connection of tuic-server: the table udp_sessions   *)
(* of weak references, the listen task that owns each session and its      *)
(* socket, the tasks that handle Packet and Dissociate commands, and the   *)
(* relay mode of the connection. Tasks interleave at their awaits; the     *)
(* table's lock makes each access to it one step.                          *)
(*                                                                         *)
(* Reassembly is UdpModel's subject: here a command may or may not be the  *)
(* one that completes a packet. The traffic counters that the handlers add *)
(* to are left out: nothing here reads them.                               *)
(***************************************************************************)
EXTENDS Integers, FiniteSets

CONSTANTS
  AssocIds,       \* associate IDs of the connection
  Tasks,          \* bound: the Packet commands that reach the server
  MaxSessions,    \* bound: sessions created
  MaxInbound      \* bound: packets and errors each session's recv returns

ASSUME AssocIdsAssumption == AssocIds # {}
ASSUME MaxSessionsAssumption == MaxSessions \in Nat
ASSUME MaxInboundAssumption == MaxInbound \in Nat

Modes == {"native", "quic"}
NoMode == "none"
SessionIds == 1 .. MaxSessions
NoSession == 0

\* A task's next step: "idle" before its command arrives; "checked" after
\* pre_process; "accepting" in Packet::accept; "lookup" once a packet is complete;
\* "vacant" when the table had no entry; "resolving" with a weak reference;
\* "sending" with a strong one.
Steps == {"idle", "checked", "accepting", "lookup", "vacant", "resolving", "sending", "done"}
\* A listen task: "listening" in its loop, "removing" after it, "ended".
ListenSteps == {"free", "listening", "removing", "ended"}

TaskRecords == [at: Steps, assoc: AssocIds, mode: Modes \cup {NoMode},
                session: SessionIds \cup {NoSession}]

VARIABLES
  udp_sessions,      \* the table: session by associate ID
  udp_relay_mode,    \* mode of the connection
  closed,            \* the QUIC connection is closed
  task,              \* tasks of handle_uni_stream and handle_datagram
  listen,            \* step of each session's listen task
  assoc,             \* assoc_id of each session
  close,             \* the session's oneshot sender is still there
  inbound,           \* returns of recv, per session
  relaying,          \* relay_packet tasks not yet run, per session
  dissociated,       \* history: associate IDs whose Dissociate has been handled
  first_mode         \* history: mode of the Packet that each session was made for

vars == <<udp_sessions, udp_relay_mode, closed, task, listen, assoc, close,
          inbound, relaying, dissociated, first_mode>>

\* The histories: no step of the code reads them.
histories == <<dissociated, first_mode>>

\* What only the listen tasks and handle_dissociate change.
sessionVars == <<listen, assoc, close, inbound, relaying>>

\* A session's Arc is held by its listen task and by the tasks that send on it.
Upgradable(s) ==
  \/ listen[s] \in {"listening", "removing"}
  \/ \E t \in Tasks : task[t].at = "sending" /\ task[t].session = s

\* Sessions are numbered in the order they are made.
NextFree(s) == listen[s] = "free" /\ \A r \in 1 .. s - 1 : listen[r] # "free"

AnyAssoc == CHOOSE a \in AssocIds : TRUE
NewTask == [at |-> "idle", assoc |-> AnyAssoc, mode |-> NoMode, session |-> NoSession]

Init ==
  /\ udp_sessions = [a \in AssocIds |-> NoSession]
  /\ udp_relay_mode = NoMode
  /\ closed = FALSE
  /\ task = [t \in Tasks |-> NewTask]
  /\ listen = [s \in SessionIds |-> "free"]
  /\ assoc = [s \in SessionIds |-> AnyAssoc]
  /\ close = [s \in SessionIds |-> FALSE]
  /\ inbound = [s \in SessionIds |-> 0]
  /\ relaying = [s \in SessionIds |-> 0]
  /\ dissociated = {}
  /\ first_mode = [s \in SessionIds |-> NoMode]

-----------------------------------------------------------------------------
(* Tasks that handle a Packet *)

At(t, step) == task' = [task EXCEPT ![t].at = step]

\* pre_process of handle_uni_stream and handle_datagram. A packet in the mode that
\* is not the connection's closes it; a command that came before the connection
\* closed may still be handled after.
PreProcess(t, a, mode) ==
  /\ task[t].at = "idle"
  /\ \/ /\ udp_relay_mode \in Modes \ {mode} \/ closed
        /\ closed' = TRUE
        /\ At(t, "done")
     \/ /\ udp_relay_mode \notin Modes \ {mode}
        /\ task' = [task EXCEPT ![t] = [at |-> "checked", assoc |-> a, mode |-> mode,
                                        session |-> NoSession]]
        /\ UNCHANGED closed
  /\ UNCHANGED <<udp_sessions, udp_relay_mode, sessionVars, histories>>

\* A Packet on a stream of its own, or in a datagram.
HandleUniStream(t, a) == PreProcess(t, a, "quic")
HandleDatagram(t, a) == PreProcess(t, a, "native")

\* Faulty: the mode is taken from datagrams only.
HandlePacketDatagrams(t) ==
  /\ task[t].at = "checked"
  /\ udp_relay_mode' = IF task[t].mode = "native" THEN "native" ELSE udp_relay_mode
  /\ At(t, "accepting")
  /\ UNCHANGED <<udp_sessions, closed, sessionVars, histories>>

\* handle_packet up to its first await: store the mode.
HandlePacket(t) ==
  /\ task[t].at = "checked"
  /\ udp_relay_mode' = task[t].mode
  /\ At(t, "accepting")
  /\ UNCHANGED <<udp_sessions, closed, sessionVars, histories>>

\* Packet::accept returns: the fragment completes a packet, or it does not, or it
\* is refused. On a stream it waits for the whole payload, and only the client or
\* the end of the connection ends that wait.
Accept(t) ==
  /\ task[t].at = "accepting"
  /\ At(t, "lookup") \/ At(t, "done")
  /\ UNCHANGED <<udp_sessions, udp_relay_mode, closed, sessionVars, histories>>

\* The task waits for a payload that the client has not sent.
AwaitsPayload(t) == task[t].at = "accepting" /\ task[t].mode = "quic" /\ ~closed

\* The lookup under the read lock.
Lookup(t) ==
  LET s == udp_sessions[task[t].assoc] IN
  /\ task[t].at = "lookup"
  /\ task' = IF s = NoSession
               THEN [task EXCEPT ![t].at = "vacant"]
               ELSE [task EXCEPT ![t].at = "resolving", ![t].session = s]
  /\ UNCHANGED <<udp_sessions, udp_relay_mode, closed, sessionVars, histories>>

\* Faulty: creates the session it found missing without looking again.
CreateUnchecked(t, s) ==
  /\ task[t].at = "vacant"
  /\ NextFree(s)
  /\ udp_sessions' = [udp_sessions EXCEPT ![task[t].assoc] = s]
  /\ task' = [task EXCEPT ![t].at = "resolving", ![t].session = s]
  /\ listen' = [listen EXCEPT ![s] = "listening"]
  /\ assoc' = [assoc EXCEPT ![s] = task[t].assoc]
  /\ close' = [close EXCEPT ![s] = TRUE]
  /\ first_mode' = [first_mode EXCEPT ![s] = task[t].mode]
  /\ UNCHANGED <<udp_relay_mode, closed, inbound, relaying, dissociated>>

\* The entry is vacant under the write lock: UdpSession::new makes the sockets
\* and spawns the listen task.
Create(t, s) ==
  /\ task[t].at = "vacant"
  /\ udp_sessions[task[t].assoc] = NoSession
  /\ NextFree(s)
  /\ udp_sessions' = [udp_sessions EXCEPT ![task[t].assoc] = s]
  /\ task' = [task EXCEPT ![t].at = "resolving", ![t].session = s]
  /\ listen' = [listen EXCEPT ![s] = "listening"]
  /\ assoc' = [assoc EXCEPT ![s] = task[t].assoc]
  /\ close' = [close EXCEPT ![s] = TRUE]
  /\ first_mode' = [first_mode EXCEPT ![s] = task[t].mode]
  /\ UNCHANGED <<udp_relay_mode, closed, inbound, relaying, dissociated>>

\* The entry is occupied under the write lock: another task was faster.
Occupied(t) ==
  LET s == udp_sessions[task[t].assoc] IN
  /\ task[t].at = "vacant"
  /\ s # NoSession
  /\ task' = [task EXCEPT ![t].at = "resolving", ![t].session = s]
  /\ UNCHANGED <<udp_sessions, udp_relay_mode, closed, sessionVars, histories>>

\* UdpSession::new cannot have its sockets.
SocketFail(t) ==
  /\ task[t].at = "vacant"
  /\ udp_sessions[task[t].assoc] = NoSession
  /\ At(t, "done")
  /\ UNCHANGED <<udp_sessions, udp_relay_mode, closed, sessionVars, histories>>

\* resolve_dns finds no address.
ResolveFail(t) ==
  /\ task[t].at = "resolving"
  /\ At(t, "done")
  /\ UNCHANGED <<udp_sessions, udp_relay_mode, closed, sessionVars, histories>>

\* Faulty: waits for a session instead of giving up the packet.
UpgradeWaiting(t) ==
  /\ task[t].at = "resolving"
  /\ Upgradable(task[t].session)
  /\ At(t, "sending")
  /\ UNCHANGED <<udp_sessions, udp_relay_mode, closed, sessionVars, histories>>

\* The address is resolved; upgrade the reference, or give up the packet.
Upgrade(t) ==
  /\ task[t].at = "resolving"
  /\ At(t, IF Upgradable(task[t].session) THEN "sending" ELSE "done")
  /\ UNCHANGED <<udp_sessions, udp_relay_mode, closed, sessionVars, histories>>

\* session.send returns.
Sent(t) ==
  /\ task[t].at = "sending"
  /\ At(t, "done")
  /\ UNCHANGED <<udp_sessions, udp_relay_mode, closed, sessionVars, histories>>

-----------------------------------------------------------------------------
(* Dissociate, and the listen tasks *)

\* handle_dissociate: remove the entry and, the table still locked, close the
\* session (its oneshot sender is taken and used).
HandleDissociate(a) ==
  LET s == udp_sessions[a] IN
  /\ dissociated' = dissociated \cup {a}
  /\ udp_sessions' = [udp_sessions EXCEPT ![a] = NoSession]
  /\ close' = IF s # NoSession /\ Upgradable(s) THEN [close EXCEPT ![s] = FALSE] ELSE close
  /\ UNCHANGED <<udp_relay_mode, closed, task, listen, assoc, inbound, relaying, first_mode>>

\* recv returns: reset the timer; spawn relay_packet unless it is an error.
Recv(s) ==
  /\ listen[s] = "listening"
  /\ inbound[s] < MaxInbound
  /\ inbound' = [inbound EXCEPT ![s] = @ + 1]
  /\ relaying' = [relaying EXCEPT ![s] = @ + 1] \/ UNCHANGED relaying
  /\ UNCHANGED <<udp_sessions, udp_relay_mode, closed, task, listen, assoc, close, histories>>

\* Faulty: the timer only warns.
TimeoutIgnored(s) ==
  /\ listen[s] = "listening"
  /\ UNCHANGED vars

\* Nothing came in for stream_timeout: close() and go on.
Timeout(s) ==
  /\ listen[s] = "listening"
  /\ close' = [close EXCEPT ![s] = FALSE]
  /\ UNCHANGED <<udp_sessions, udp_relay_mode, closed, task, listen, assoc, inbound,
                 relaying, histories>>

\* The oneshot has fired: leave the loop.
Break(s) ==
  /\ listen[s] = "listening"
  /\ ~close[s]
  /\ listen' = [listen EXCEPT ![s] = "removing"]
  /\ UNCHANGED <<udp_sessions, udp_relay_mode, closed, task, assoc, close, inbound,
                 relaying, histories>>

\* Faulty: a listen task that ends without touching the table.
EndWithoutRemove(s) ==
  /\ listen[s] = "removing"
  /\ listen' = [listen EXCEPT ![s] = "ended"]
  /\ UNCHANGED <<udp_sessions, udp_relay_mode, closed, task, assoc, close, inbound,
                 relaying, histories>>

\* After the loop: remove whatever entry the table has for assoc_id; the task
\* ends and drops its Arc.
Remove(s) ==
  /\ listen[s] = "removing"
  /\ udp_sessions' = [udp_sessions EXCEPT ![assoc[s]] = NoSession]
  /\ listen' = [listen EXCEPT ![s] = "ended"]
  /\ UNCHANGED <<udp_relay_mode, closed, task, assoc, close, inbound, relaying, histories>>

\* relay_packet unwraps the mode and sends the packet to the client in it.
RelayPacket(s) ==
  /\ relaying[s] > 0
  /\ udp_relay_mode # NoMode
  /\ relaying' = [relaying EXCEPT ![s] = @ - 1]
  /\ UNCHANGED <<udp_sessions, udp_relay_mode, closed, task, listen, assoc, close,
                 inbound, histories>>

\* The connection ends; sessions and tasks live on.
Disconnect ==
  /\ ~closed
  /\ closed' = TRUE
  /\ UNCHANGED <<udp_sessions, udp_relay_mode, task, sessionVars, histories>>

PacketStep(t) ==
  \/ HandlePacket(t)
  \/ ~AwaitsPayload(t) /\ Accept(t)
  \/ Lookup(t)
  \/ \E s \in SessionIds : Create(t, s)
  \/ Occupied(t)
  \/ SocketFail(t)
  \/ Upgrade(t)
  \/ Sent(t)

ListenStep(s) == Break(s) \/ Remove(s)

Next ==
  \/ \E t \in Tasks, a \in AssocIds : HandleUniStream(t, a) \/ HandleDatagram(t, a)
  \/ \E t \in Tasks : PacketStep(t) \/ ResolveFail(t) \/ (AwaitsPayload(t) /\ Accept(t))
  \/ \E a \in AssocIds : HandleDissociate(a)
  \/ \E s \in SessionIds : Recv(s) \/ Timeout(s) \/ ListenStep(s) \/ RelayPacket(s)
  \/ Disconnect

Spec == Init /\ [][Next]_vars

\* tokio polls a task that can go on, its RwLock is fair, and resolve_dns and
\* send return. The timer of a session fires once nothing has come in for
\* stream_timeout. Nothing is assumed of the client: it may never send the rest
\* of a Packet, and RelayPacket may wait for it on a stream.
Fairness ==
  /\ \A t \in Tasks : WF_vars(PacketStep(t))
  /\ \A s \in SessionIds : WF_vars(ListenStep(s)) /\ WF_vars(Timeout(s))
FairSpec == Spec /\ Fairness

-----------------------------------------------------------------------------
(* Properties *)

\* Types of the state.
TypeOK ==
  /\ udp_sessions \in [AssocIds -> SessionIds \cup {NoSession}]
  /\ udp_relay_mode \in Modes \cup {NoMode}
  /\ closed \in BOOLEAN
  /\ task \in [Tasks -> TaskRecords]
  /\ listen \in [SessionIds -> ListenSteps]
  /\ assoc \in [SessionIds -> AssocIds]
  /\ close \in [SessionIds -> BOOLEAN]
  /\ inbound \in [SessionIds -> 0 .. MaxInbound]
  /\ relaying \in [SessionIds -> Nat]
  /\ dissociated \subseteq AssocIds
  /\ first_mode \in [SessionIds -> Modes \cup {NoMode}]

\* An open session listens and has not been told to stop.
Open(s) == listen[s] = "listening" /\ close[s]

\* An entry of the table is a live session of its associate ID: a packet that
\* looks the session up is lost only if the session ends before it is sent.
EntriesAreLive ==
  \A a \in AssocIds : udp_sessions[a] # NoSession =>
    /\ listen[udp_sessions[a]] \in {"listening", "removing"}
    /\ assoc[udp_sessions[a]] = a

\* relay_packet's udp_relay_mode.load().unwrap() finds a mode, and every session
\* whose recv may spawn it: whichever of the racing packets made the session has
\* stored its mode before, and no failure in between takes it back.
RelayHasMode ==
  (\E s \in SessionIds : listen[s] # "free" \/ relaying[s] > 0) => udp_relay_mode # NoMode

\* Until the client dissociates an ID, the ID has one open session at most, the
\* one in the table, however its packets race each other and the timeout.
OneSessionUntilDissociate ==
  \A s \in SessionIds : Open(s) => udp_sessions[assoc[s]] = s \/ assoc[s] \in dissociated

\* The inductive invariant: a task past handle_packet's first line has stored a
\* mode, and a live session is the table's or its ID has been dissociated.
TasksHaveMode ==
  \A t \in Tasks :
    /\ task[t].at = "checked" => task[t].mode \in Modes
    /\ task[t].at \in {"accepting", "lookup", "vacant", "resolving", "sending"} => udp_relay_mode # NoMode
LiveAreEntries ==
  \A s \in SessionIds : listen[s] \in {"listening", "removing"} =>
    udp_sessions[assoc[s]] = s \/ assoc[s] \in dissociated
IndInv ==
  /\ TypeOK
  /\ TasksHaveMode
  /\ RelayHasMode
  /\ EntriesAreLive
  /\ LiveAreEntries

\* SPEC.md's table maps an associate ID to one socket.
OneSocketPerAssociation ==
  \A r, s \in SessionIds : Open(r) /\ Open(s) /\ assoc[r] = assoc[s] => r = s

\* SPEC.md has the server answer in the mode of the first Packet of a UDP relay
\* session. relay_packet answers in the mode that handle_packet stored last, for
\* whichever associate ID.
AnswersInFirstMode ==
  \A s \in SessionIds : relaying[s] > 0 => udp_relay_mode = first_mode[s]

\* Every session ends once nothing comes in from outside, whether or not the
\* client dissociates, the connection lives, or the table still knows of it.
SessionsEnd ==
  \A s \in SessionIds : listen[s] = "listening" ~> listen[s] = "ended"

\* A task of handle_packet ends, or waits for the rest of a Packet that the client
\* has not sent on an open connection: it never waits for ever on the table or on
\* a session, and no connection that has ended keeps it.
TasksEnd ==
  \A t \in Tasks : task[t].at # "idle" ~> task[t].at = "done" \/ AwaitsPayload(t)
=============================================================================
