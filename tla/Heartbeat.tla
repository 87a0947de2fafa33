------------------------------ MODULE Heartbeat ------------------------------
(***************************************************************************)
(* Why a connection between tuic-client and tuic-server lives and when it   *)
(* is given up: the counters of running tasks, the client's heartbeat loop, *)
(* which asks them, and the idle timers of quinn at both ends. The server   *)
(* sets max_idle_time, the client sets none, so that quinn uses the         *)
(* server's at both ends. Time goes in ticks; a packet takes at most         *)
(* MaxDelay of them or is lost.                                             *)
(***************************************************************************)
EXTENDS Integers, FiniteSets

CONSTANTS
  Connects,         \* Connect streams that the client may open
  Associations,     \* associate IDs that may have a UDP session
  HeartbeatTicks,   \* heartbeat
  MaxIdle,          \* max_idle_time
  MaxDelay,         \* bound: ticks that a packet needs
  MaxLost           \* bound: packets lost between two acknowledgements to the client

Ends == {"client", "server"}
\* From one proof of life to the next at the latest.
BeatBound == (MaxLost + 1) * HeartbeatTicks + 2 * MaxDelay

ASSUME TaskAssumption ==
  Connects \cap Associations = {} /\ IsFiniteSet(Connects \cup Associations)
ASSUME TicksAssumption ==
  /\ HeartbeatTicks \in Nat \ {0} /\ MaxIdle \in Nat /\ MaxDelay \in Nat /\ MaxLost \in Nat
  /\ BeatBound < MaxIdle
  \* An acknowledgement answers for every packet that arrived with it: were packets
  \* as slow as the beat, the loss of one could undo more than one heartbeat.
  /\ MaxDelay < HeartbeatTicks

VARIABLES
  tasks,            \* the tasks that hold a Register of the client's model
  sending,          \* the ends at which something of a task may still be sent
  alive,            \* the ends at which the connection is not closed
  idle,             \* quinn: ticks since the idle timer of an end was restarted
  quiet,            \* quinn: an end has sent nothing since a packet last arrived
  net,              \* packets on their way
  beat,             \* ticks until the heartbeat loop wakes up
  loop,             \* the heartbeat loop: "running" or "ended"
  lost,             \* packets lost since an acknowledgement arrived at the client
  busy              \* history: ticks for which there has been a task without a gap

heartbeatVars == <<tasks, sending, alive, idle, quiet, net, beat, loop, lost, busy>>

Other(e) == IF e = "client" THEN "server" ELSE "client"

HeartbeatInit ==
  /\ tasks = {}
  /\ sending = {}
  /\ alive = Ends
  /\ idle = [e \in Ends |-> 0]
  /\ quiet = [e \in Ends |-> TRUE]
  /\ net = {}
  /\ beat = HeartbeatTicks
  /\ loop = "running"
  /\ lost = 0
  /\ busy = 0

\* An end sends something that the other will acknowledge. The first such packet
\* since the last one that arrived restarts the idle timer of the sender.
Send(e) ==
  /\ net' = net \cup {[to |-> Other(e), asks |-> TRUE, age |-> 0]}
  /\ idle' = [idle EXCEPT ![e] = IF quiet[e] THEN 0 ELSE @]
  /\ quiet' = [quiet EXCEPT ![e] = FALSE]

-----------------------------------------------------------------------------
(* Tasks *)

\* task_connect_count and task_associate_count: the Registers that are held.
TaskConnectCount == Cardinality(tasks \cap Connects)
TaskAssociateCount == Cardinality(tasks \cap Associations)

\* connect, or the first packet of an association: the Register is made. Nothing is
\* sent until the stream is opened.
StartTask(t) ==
  /\ "client" \in alive
  /\ t \notin tasks
  /\ tasks' = tasks \cup {t}
  /\ sending' = sending \cup {"client"}
  /\ UNCHANGED <<alive, idle, quiet, net, beat, loop, lost, busy>>

\* A Connect is dropped, or an association is dissociated. The end of the stream and
\* the Dissociate may still have to be sent.
EndTask(t) ==
  /\ t \in tasks
  /\ tasks' = tasks \ {t}
  /\ busy' = IF tasks' = {} THEN 0 ELSE busy
  /\ UNCHANGED <<sending, alive, idle, quiet, net, beat, loop, lost>>

\* An end sends data of a task, or the end of one: a stream's, or the packets that
\* relay_packet sends as long as the server's session listens, which may be longer
\* than the client has its Register.
Relay(e) ==
  /\ e \in sending
  /\ e \in alive
  /\ Send(e)
  /\ UNCHANGED <<tasks, sending, alive, beat, loop, lost, busy>>

\* The client has sent the end of its last task, or given it up; the server has no
\* more session or stream.
StopSending(e) ==
  /\ e \in sending
  /\ e = "client" => tasks = {}
  /\ sending' = sending \ {e}
  /\ UNCHANGED <<tasks, alive, idle, quiet, net, beat, loop, lost, busy>>

-----------------------------------------------------------------------------
(* The heartbeat loop *)

\* Faulty: only TCP tasks count.
OngoingConnects == TaskConnectCount # 0
\* Faulty: the loop does not ask.
OngoingAlways == TRUE

\* task_connect_count() + task_associate_count() is not zero.
Ongoing == TaskConnectCount + TaskAssociateCount # 0

\* sleep is over: end the loop, skip this beat, or send a Heartbeat.
Beat ==
  /\ loop = "running"
  /\ beat = 0
  /\ IF "client" \notin alive
       THEN loop' = "ended" /\ UNCHANGED <<beat, idle, quiet, net>>
       ELSE /\ beat' = HeartbeatTicks
            /\ IF Ongoing THEN Send("client") ELSE UNCHANGED <<idle, quiet, net>>
            /\ UNCHANGED loop
  /\ UNCHANGED <<tasks, sending, alive, lost, busy>>

-----------------------------------------------------------------------------
(* quinn and the network *)

\* A packet arrives. If it asks for an acknowledgement, that is sent at once. One that
\* arrives at the server may be a command, for which the server starts a task.
Arrive(p) ==
  /\ p.to \in alive
  /\ idle' = [idle EXCEPT ![p.to] = 0]
  /\ quiet' = [quiet EXCEPT ![p.to] = TRUE]
  /\ net' = (net \ {p}) \cup {a \in {[to |-> Other(p.to), asks |-> FALSE, age |-> 0]} : p.asks}
  /\ lost' = IF p.to = "client" /\ ~p.asks THEN 0 ELSE lost
  /\ \/ UNCHANGED sending
     \/ p.to = "server" /\ p.asks /\ sending' = sending \cup {"server"}
  /\ UNCHANGED <<tasks, alive, beat, loop, busy>>

\* A packet is lost, or finds the connection closed.
Lose(p) ==
  /\ p.to \in alive => lost < MaxLost
  /\ lost' = IF p.to \in alive THEN lost + 1 ELSE lost
  /\ net' = net \ {p}
  /\ UNCHANGED <<tasks, sending, alive, idle, quiet, beat, loop, busy>>

\* The idle timer of an end fires. quinn drops the connection and sends nothing.
IdleTimeout(e) ==
  /\ e \in alive
  /\ idle[e] = MaxIdle
  /\ alive' = alive \ {e}
  /\ UNCHANGED <<tasks, sending, idle, quiet, net, beat, loop, lost, busy>>

Older(p) == [to |-> p.to, asks |-> p.asks, age |-> p.age + 1]

\* Time passes when nothing is due.
Tick ==
  /\ loop = "running" => beat > 0
  /\ \A e \in alive : idle[e] < MaxIdle
  /\ \A p \in net : p.age < MaxDelay
  /\ beat' = IF loop = "running" THEN beat - 1 ELSE beat
  /\ idle' = [e \in Ends |-> IF e \in alive THEN idle[e] + 1 ELSE idle[e]]
  /\ net' = {Older(p) : p \in net}
  /\ busy' = IF tasks # {} /\ busy <= BeatBound THEN busy + 1 ELSE busy
  /\ UNCHANGED <<tasks, sending, alive, quiet, loop, lost>>

HeartbeatNext ==
  \/ \E t \in Connects \cup Associations : StartTask(t) \/ EndTask(t)
  \/ \E e \in Ends : Relay(e) \/ StopSending(e) \/ IdleTimeout(e)
  \/ \E p \in net : Arrive(p) \/ Lose(p)
  \/ Beat
  \/ Tick

HeartbeatSpec == HeartbeatInit /\ [][HeartbeatNext]_heartbeatVars

\* Time passes, timers fire and what is on its way arrives or is lost. Nobody has
\* to start or end a task, or to stop sending.
HeartbeatFairness ==
  /\ WF_heartbeatVars(Tick)
  /\ WF_heartbeatVars(Beat)
  /\ WF_heartbeatVars(\E e \in Ends : IdleTimeout(e))
  /\ WF_heartbeatVars(\E p \in net : Arrive(p) \/ Lose(p))
HeartbeatFairSpec == HeartbeatSpec /\ HeartbeatFairness

-----------------------------------------------------------------------------
(* Properties *)

\* Types of the state.
HeartbeatTypeOK ==
  /\ tasks \subseteq Connects \cup Associations
  /\ sending \subseteq Ends
  /\ alive \subseteq Ends
  /\ idle \in [Ends -> 0 .. MaxIdle]
  /\ quiet \in [Ends -> BOOLEAN]
  /\ net \subseteq [to: Ends, asks: BOOLEAN, age: 0 .. MaxDelay]
  /\ beat \in 0 .. HeartbeatTicks
  /\ loop \in {"running", "ended"}
  /\ lost \in 0 .. MaxLost
  /\ busy \in 0 .. BeatBound + 1

\* A connection with tasks of either kind, one after the other or together, is
\* not given up as idle by either end, however the heartbeat loop's wake-ups fall
\* and although packets are lost. Only tasks that start when the idle timers are
\* about to fire may come too late.
BusyIsKept ==
  alive = Ends /\ busy > BeatBound => \A e \in Ends : idle[e] < MaxIdle

\* The inductive invariant behind it, in parts.

\* The loop runs as long as the client's end does, and without tasks nothing is busy.
LoopRuns == ("client" \in alive => loop = "running") /\ (tasks = {} => busy = 0)

\* The server has heard of the client when it sent an acknowledgement.
AckIsFresh == \A p \in net : p.to = "client" /\ ~p.asks => idle["server"] <= p.age

\* Ticks without a proof of life since there have been tasks.
Silence(e) == IF idle[e] <= busy THEN idle[e] ELSE busy

\* The silence that the packets lost so far explain before another is sent.
Spent == (lost + 1) * HeartbeatTicks

\* A packet to the server that is as old as the last heartbeat, and an acknowledgement
\* to the client.
IsBeat(p) == p.to = "server" /\ p.asks /\ p.age + beat = HeartbeatTicks
IsAck(p) == p.to = "client" /\ ~p.asks

\* A silence of n ticks is w at most when the next heartbeat is sent, or was when
\* the one on its way was sent.
BeatDue(n, w) == n + beat <= w
BeatSent(n, w) == \E p \in net : IsBeat(p) /\ n <= w + p.age

\* An acknowledgement is on its way, of one of the last k heartbeats.
Answer(p, n, w, k) ==
  /\ IsAck(p)
  /\ n <= w + MaxDelay + p.age
  /\ k * HeartbeatTicks <= p.age + MaxDelay + beat

ServerHears ==
  LET n == Silence("server")
      w == Spent + MaxDelay
  IN  BeatDue(n, w) \/ BeatSent(n, w)

\* Should the acknowledgement p be lost too, the next heartbeat is due, on its way, or
\* has an acknowledgement of its own.
ClientHears ==
  LET n == Silence("client")
      w == Spent + HeartbeatTicks
  IN  \/ BeatDue(n, Spent) \/ BeatSent(n, Spent)
      \/ \E p \in net : Answer(p, n, Spent, 1) /\ BeatDue(n, w)
      \/ \E p \in net : Answer(p, n, Spent, 2) /\ BeatSent(n, w)
      \/ \E p, q \in net : /\ p # q
                          /\ Answer(p, n, Spent, 2)
                          /\ Answer(q, n, w, 1)
                          /\ BeatDue(n, w + HeartbeatTicks)

HeartbeatInv ==
  /\ HeartbeatTypeOK
  /\ LoopRuns
  /\ AckIsFresh
  /\ alive = Ends /\ tasks # {} => ServerHears /\ ClientHears

\* A connection without tasks is given up by both ends, and its heartbeat loop ends,
\* once neither end has anything to send: not before the server's last session has
\* ended, whose packets restart both timers although the client refuses them.
IdleIsLetGo ==
  <>[](tasks = {} /\ sending = {}) => <>(alive = {} /\ loop = "ended")
=============================================================================
