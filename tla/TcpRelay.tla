------------------------------ MODULE TcpRelay ------------------------------
(***************************************************************************)
(* One Connect task from end to end: an application behind the client's    *)
(* SOCKS5 server, the bidirectional QUIC stream, the server's              *)
(* handle_connect with exchange_tcp, and the target behind a TCP stream.   *)
(*                                                                         *)
(* Data is counted in units. Each direction is a chain of bounded FIFOs,   *)
(* so that counting shows what is lost, and how each sender ended its      *)
(* stream shows what the receiver takes for a complete transfer. The       *)
(* application's socket, the client's copy_bidirectional and the QUIC      *)
(* stream are one FIFO: the copy keeps both directions and both            *)
(* half-closes apart, and ends both with an error of either.               *)
(***************************************************************************)
EXTENDS Integers

CONSTANTS
  MaxUp,        \* bound: units the application sends
  MaxDown,      \* bound: units the target sends
  Window,       \* units that fit in a direction of the QUIC stream
  SocketSize,   \* units that fit in a direction of the TCP stream
  BufferSize    \* units exchange_tcp reads at once: 8 KiB in the code

ASSUME MaxAssumption == MaxUp \in Nat /\ MaxDown \in Nat
ASSUME WindowAssumption == Window \in Nat \ {0}
ASSUME SocketSizeAssumption == SocketSize \in Nat \ {0}
ASSUME BufferSizeAssumption == BufferSize \in Nat \ {0}

VARIABLES
  \* the application and the client's handle_connect
  app_sent, app_fin,   \* units sent, and whether it shut its writing side
  app_got, app_in,     \* units received, and what it sees of its reading side
  copy_err,            \* whether copy_bidirectional ended with an error
  \* the QUIC stream: units in each direction, how its sender ended it, and
  \* whether its receiver refuses more
  up, up_end, up_stopped,
  down, down_end, down_stopped,
  \* the server's task
  srv,                 \* where handle_bi_stream, handle_connect, exchange_tcp are
  held,                \* units read and not yet written
  a2b_num, b2a_num,    \* units read in each direction
  last_err,            \* whether exchange_tcp ended with an error
  traffic_tx, traffic_rx,  \* what the task adds to the user's TRAFFIC_STATS
  \* the TCP stream and the target
  t_up, t_up_fin, t_down,
  tgt_sent, tgt_fin, tgt_got, tgt_in,
  blocking             \* ends that do not read while a write of theirs blocks

app == <<app_sent, app_fin, app_got, app_in, copy_err>>
quic_up == <<up, up_end, up_stopped>>
quic_down == <<down, down_end, down_stopped>>
traffic == <<traffic_tx, traffic_rx>>
server == <<srv, held, a2b_num, b2a_num, last_err, traffic>>
tcp == <<t_up, t_up_fin, t_down>>
target == <<tgt_sent, tgt_fin, tgt_got, tgt_in>>
vars == <<app, quic_up, quic_down, server, tcp, target, blocking>>

Ends == {"app", "target"}
StreamEnds == {"open", "fin", "reset"}
\* The task ends after exchange_tcp, or fails before it.
ServerSteps == {"negotiating", "connecting", "select", "write_b", "write_a", "ended", "failed"}

\* The client has opened the stream and written the Connect header.
Init ==
  /\ app_sent = 0 /\ app_fin = FALSE /\ app_got = 0 /\ app_in = "waiting"
  /\ copy_err = FALSE
  /\ up = 0 /\ up_end = "open" /\ up_stopped = FALSE
  /\ down = 0 /\ down_end = "open" /\ down_stopped = FALSE
  /\ srv = "negotiating" /\ held = 0 /\ a2b_num = 0 /\ b2a_num = 0 /\ last_err = FALSE
  /\ traffic_tx = 0 /\ traffic_rx = 0
  /\ t_up = 0 /\ t_up_fin = FALSE /\ t_down = 0
  /\ tgt_sent = 0 /\ tgt_fin = FALSE /\ tgt_got = 0 /\ tgt_in = "none"
  /\ blocking \in SUBSET Ends

-----------------------------------------------------------------------------
(* The QUIC stream *)

\* What becomes of a stream that its sender resets: if it had ended it before,
\* the receiver may have that end already.
AfterReset(end) == IF end = "fin" THEN {"fin", "reset"} ELSE {"reset"}

\* The connection is lost or closed: both sides find both directions broken.
BreakStreams ==
  /\ up_end' \in AfterReset(up_end)
  /\ down_end' \in AfterReset(down_end)
  /\ up_stopped' = TRUE
  /\ down_stopped' = TRUE
  /\ UNCHANGED <<up, down>>

LoseConnection ==
  /\ ~(up_stopped /\ down_stopped)
  /\ BreakStreams
  /\ UNCHANGED <<app, server, tcp, target, blocking>>

-----------------------------------------------------------------------------
(* The client *)

\* handle_connect answers the application. If that fails it ends the stream and
\* drops it, which refuses what the server sends.
Reply ==
  /\ app_in = "waiting"
  /\ \/ app_in' = "open" /\ UNCHANGED <<up_end, down_stopped>>
     \/ /\ app_in' = "failed"
        /\ up_end' = IF up_end = "open" THEN "fin" ELSE up_end
        /\ down_stopped' = TRUE
  /\ UNCHANGED <<app_sent, app_fin, app_got, copy_err, up, up_stopped, down, down_end,
                 server, tcp, target, blocking>>

\* copy_bidirectional runs until both directions have ended.
Copying == app_in \in {"open", "eof"} /\ ~copy_err /\ ~(app_fin /\ app_in = "eof")

AppSend ==
  /\ Copying
  /\ ~app_fin /\ app_sent < MaxUp
  /\ up < Window /\ ~up_stopped
  /\ app_sent' = app_sent + 1
  /\ up' = up + 1
  /\ UNCHANGED <<app_fin, app_got, app_in, copy_err, up_end, up_stopped, quic_down,
                 server, tcp, target, blocking>>

\* The application shuts its writing side, and copy_bidirectional the stream's.
AppFin ==
  /\ Copying
  /\ ~app_fin
  /\ app_fin' = TRUE
  /\ up_end' = IF up_end = "open" THEN "fin" ELSE up_end
  /\ UNCHANGED <<app_sent, app_got, app_in, copy_err, up, up_stopped, quic_down,
                 server, tcp, target, blocking>>

\* A blocking end reads only while it could also write, or has no more to write.
AppReads == "app" \in blocking => app_fin \/ app_sent = MaxUp \/ up < Window

AppRead ==
  /\ app_in = "open"
  /\ AppReads
  /\ down > 0
  /\ down' = down - 1
  /\ app_got' = app_got + 1
  /\ UNCHANGED <<app_sent, app_fin, app_in, copy_err, quic_up, down_end, down_stopped,
                 server, tcp, target, blocking>>

\* The stream ends, and copy_bidirectional shuts the application's socket.
AppEof ==
  /\ app_in = "open"
  /\ down = 0 /\ down_end = "fin"
  /\ app_in' = "eof"
  /\ UNCHANGED <<app_sent, app_fin, app_got, copy_err, quic_up, quic_down,
                 server, tcp, target, blocking>>

\* copy_bidirectional has failed: handle_connect shuts the application's socket in
\* order, which is the end of the answer to the application, and resets the stream.
CopyFails ==
  /\ Copying
  /\ copy_err' = TRUE
  /\ up_end' \in AfterReset(up_end)
  /\ down_stopped' = TRUE
  /\ UNCHANGED <<app_sent, app_fin, app_got, up, up_stopped, down, down_end,
                 server, tcp, target, blocking>>

\* It fails on reading a stream that was reset, or on writing to one that was
\* stopped.
ClientFails ==
  /\ \/ app_in = "open" /\ down_end = "reset"
     \/ up_stopped /\ ~app_fin /\ app_sent < MaxUp
  /\ CopyFails
  /\ app_in' = "eof"

\* The application aborts its connection.
AppAbort ==
  /\ CopyFails
  /\ app_in' = "failed"

-----------------------------------------------------------------------------
(* The server *)

\* handle_bi_stream reads the Connect header, or fails or gives up at
\* task_negotiation_timeout and closes the connection.
Negotiate ==
  /\ srv = "negotiating"
  /\ \/ /\ up_end # "reset"
        /\ srv' = "connecting"
        /\ UNCHANGED <<quic_up, quic_down>>
     \/ srv' = "failed" /\ BreakStreams
  /\ UNCHANGED <<app, held, a2b_num, b2a_num, last_err, traffic,
                 tcp, target, blocking>>

\* resolve_dns and TcpStream::connect, one address after the other.
Connect ==
  /\ srv = "connecting"
  /\ srv' = "select"
  /\ tgt_in' = "open"
  /\ UNCHANGED <<app, quic_up, quic_down, held, a2b_num, b2a_num, last_err, tcp,
                 tgt_sent, tgt_fin, tgt_got, blocking, traffic>>

\* No address answers, and Connect::shutdown ends the stream; or set_nodelay fails
\* on a target that was reached, and the drops end both streams. The drop of the
\* stream refuses the rest of the upload.
ConnectFails ==
  /\ srv = "connecting"
  /\ srv' = "failed"
  /\ down_end' = IF down_end = "open" THEN "fin" ELSE down_end
  /\ up_stopped' = TRUE
  /\ \/ UNCHANGED <<tgt_in, t_up_fin>>
     \/ tgt_in' = "open" /\ t_up_fin' = TRUE
  /\ UNCHANGED <<app, up, up_end, down, down_stopped, held, a2b_num, b2a_num,
                 last_err, t_up, t_down, tgt_sent, tgt_fin, tgt_got, blocking, traffic>>

\* Faulty: handle_connect finishes the stream whatever exchange_tcp returned.
FinishAlways(err) ==
  /\ srv' = "ended"
  /\ last_err' = err
  /\ down_end' = IF down_end = "open" THEN "fin" ELSE down_end
  /\ up_stopped' = TRUE
  /\ t_up_fin' = TRUE
  /\ traffic_tx' = traffic_tx + a2b_num
  /\ traffic_rx' = traffic_rx + b2a_num
  /\ UNCHANGED <<app, up, up_end, down, down_stopped, held, a2b_num, b2a_num,
                 t_up, t_down, target, blocking>>

\* exchange_tcp breaks and handle_connect winds up: reset or finish the stream,
\* then shut the TCP stream, whether or not there was an error, and count.
Finish(err) ==
  /\ srv' = "ended"
  /\ last_err' = err
  /\ down_end' = IF down_end # "open" THEN down_end
                 ELSE IF err THEN "reset" ELSE "fin"
  /\ up_stopped' = TRUE
  /\ t_up_fin' = TRUE
  /\ traffic_tx' = traffic_tx + a2b_num
  /\ traffic_rx' = traffic_rx + b2a_num
  /\ UNCHANGED <<app, up, up_end, down, down_stopped, held, a2b_num, b2a_num,
                 t_up, t_down, target, blocking>>

\* Faulty: a read that does not fill the buffer is taken for the last.
ReadAShort ==
  /\ srv = "select"
  /\ \E n \in 1 .. BufferSize :
       /\ n <= up
       /\ up' = up - n
       /\ a2b_num' = a2b_num + n
       /\ IF n < BufferSize
            THEN /\ srv' = "ended" /\ last_err' = FALSE /\ held' = 0
                 /\ down_end' = IF down_end = "open" THEN "fin" ELSE down_end
                 /\ up_stopped' = TRUE /\ t_up_fin' = TRUE
            ELSE /\ srv' = "write_b" /\ held' = n
                 /\ UNCHANGED <<last_err, down_end, up_stopped, t_up_fin>>
  /\ UNCHANGED <<app, up_end, down, down_stopped, b2a_num, t_up, t_down, target, blocking, traffic>>

\* a.recv.read returns some of what has arrived.
ReadA ==
  /\ srv = "select"
  /\ \E n \in 1 .. BufferSize :
       /\ n <= up
       /\ up' = up - n
       /\ held' = n
       /\ a2b_num' = a2b_num + n
  /\ srv' = "write_b"
  /\ UNCHANGED <<app, up_end, up_stopped, quic_down, b2a_num, last_err, traffic,
                 tcp, target, blocking>>

\* Faulty: write instead of write_all.
WriteBOnce ==
  /\ srv = "write_b"
  /\ t_up < SocketSize
  /\ t_up' = t_up + 1
  /\ held' = 0
  /\ srv' = "select"
  /\ UNCHANGED <<app, quic_up, quic_down, a2b_num, b2a_num, last_err,
                 t_up_fin, t_down, target, blocking, traffic>>

\* b.write_all, piece by piece. Nothing is read in either direction meanwhile.
WriteB ==
  /\ srv = "write_b"
  /\ t_up < SocketSize
  /\ t_up' = t_up + 1
  /\ held' = held - 1
  /\ srv' = IF held = 1 THEN "select" ELSE "write_b"
  /\ UNCHANGED <<app, quic_up, quic_down, a2b_num, b2a_num, last_err,
                 t_up_fin, t_down, target, blocking, traffic>>

\* b.read returns some of what has arrived.
ReadB ==
  /\ srv = "select"
  /\ \E n \in 1 .. BufferSize :
       /\ n <= t_down
       /\ t_down' = t_down - n
       /\ held' = n
       /\ b2a_num' = b2a_num + n
  /\ srv' = "write_a"
  /\ UNCHANGED <<app, quic_up, quic_down, a2b_num, last_err, traffic,
                 t_up, t_up_fin, target, blocking>>

\* a.send.write_all: it waits while the stream's window is full.
WriteA ==
  /\ srv = "write_a"
  /\ down < Window /\ ~down_stopped
  /\ down' = down + 1
  /\ held' = held - 1
  /\ srv' = IF held = 1 THEN "select" ELSE "write_a"
  /\ UNCHANGED <<app, quic_up, down_end, down_stopped, a2b_num, b2a_num, last_err,
                 tcp, target, blocking, traffic>>

\* Faulty: a read of no bytes from the target is not the end.
BreakNotAtZero ==
  \/ srv = "select" /\ up = 0 /\ up_end = "fin" /\ Finish(FALSE)
  \/ srv = "select" /\ up_end = "reset" /\ Finish(TRUE)
  \/ srv \in {"select", "write_b"} /\ tgt_in = "reset" /\ Finish(TRUE)
  \/ srv = "write_a" /\ down_stopped /\ Finish(TRUE)

\* The loop ends: end of either stream, or an error of reading or writing.
Break ==
  \/ srv = "select" /\ up = 0 /\ up_end = "fin" /\ Finish(FALSE)
  \/ srv = "select" /\ t_down = 0 /\ tgt_fin /\ Finish(FALSE)
  \/ srv = "select" /\ up_end = "reset" /\ Finish(TRUE)
  \/ srv \in {"select", "write_b"} /\ tgt_in = "reset" /\ Finish(TRUE)
  \/ srv = "write_a" /\ down_stopped /\ Finish(TRUE)

-----------------------------------------------------------------------------
(* The target *)

TgtSend ==
  /\ tgt_in \in {"open", "eof"}
  /\ ~tgt_fin /\ tgt_sent < MaxDown
  /\ t_down < SocketSize
  /\ tgt_sent' = tgt_sent + 1
  /\ t_down' = t_down + 1
  /\ UNCHANGED <<app, quic_up, quic_down, server, t_up, t_up_fin,
                 tgt_fin, tgt_got, tgt_in, blocking>>

TgtFin ==
  /\ tgt_in \in {"open", "eof"}
  /\ ~tgt_fin
  /\ tgt_fin' = TRUE
  /\ UNCHANGED <<app, quic_up, quic_down, server, tcp, tgt_sent, tgt_got, tgt_in, blocking>>

TgtReads == "target" \in blocking => tgt_fin \/ tgt_sent = MaxDown \/ t_down < SocketSize

TgtRead ==
  /\ tgt_in = "open"
  /\ TgtReads
  /\ t_up > 0
  /\ t_up' = t_up - 1
  /\ tgt_got' = tgt_got + 1
  /\ UNCHANGED <<app, quic_up, quic_down, server, t_up_fin, t_down,
                 tgt_sent, tgt_fin, tgt_in, blocking>>

TgtEof ==
  /\ tgt_in = "open"
  /\ t_up = 0 /\ t_up_fin
  /\ tgt_in' = "eof"
  /\ UNCHANGED <<app, quic_up, quic_down, server, tcp, tgt_sent, tgt_fin, tgt_got, blocking>>

\* The target aborts, or the server's socket is dropped with data unread.
TgtReset ==
  /\ tgt_in \in {"open", "eof"}
  /\ tgt_in' = "reset"
  /\ UNCHANGED <<app, quic_up, quic_down, server, tcp, tgt_sent, tgt_fin, tgt_got, blocking>>

Server == \/ Negotiate \/ Connect \/ ConnectFails
          \/ ReadA \/ WriteB \/ ReadB \/ WriteA \/ Break
Client == Reply \/ AppSend \/ AppFin \/ AppRead \/ AppEof \/ ClientFails \/ AppAbort
Target == TgtSend \/ TgtFin \/ TgtRead \/ TgtEof \/ TgtReset

Next == Server \/ Client \/ Target \/ LoseConnection

Spec == Init /\ [][Next]_vars

\* The server's task runs whenever it can, the client copies, and an end that is
\* ready to read does so. No end has to send, to close or to fail.
Fairness ==
  /\ WF_vars(Server)
  /\ WF_vars(Reply) /\ WF_vars(AppRead) /\ WF_vars(AppEof) /\ WF_vars(ClientFails)
  /\ WF_vars(TgtRead) /\ WF_vars(TgtEof)
FairSpec == Spec /\ Fairness

-----------------------------------------------------------------------------
(* Properties *)

\* Types of the state: no FIFO and no buffer holds more than it can.
TypeOK ==
  /\ app_sent \in 0 .. MaxUp /\ app_fin \in BOOLEAN /\ app_got \in Nat
  /\ app_in \in {"waiting", "open", "eof", "failed"} /\ copy_err \in BOOLEAN
  /\ up \in 0 .. Window /\ up_end \in StreamEnds /\ up_stopped \in BOOLEAN
  /\ down \in 0 .. Window /\ down_end \in StreamEnds /\ down_stopped \in BOOLEAN
  /\ srv \in ServerSteps /\ held \in 0 .. BufferSize
  /\ a2b_num \in Nat /\ b2a_num \in Nat /\ last_err \in BOOLEAN
  /\ traffic_tx \in Nat /\ traffic_rx \in Nat
  /\ t_up \in 0 .. SocketSize /\ t_up_fin \in BOOLEAN /\ t_down \in 0 .. SocketSize
  /\ tgt_sent \in 0 .. MaxDown /\ tgt_fin \in BOOLEAN /\ tgt_got \in Nat
  /\ tgt_in \in {"none", "open", "eof", "reset"}
  /\ blocking \subseteq Ends

HeldUp == IF srv = "write_b" THEN held ELSE 0
HeldDown == IF srv = "write_a" THEN held ELSE 0

\* While exchange_tcp runs, every unit sent is in exactly one place, in both
\* directions; once the task has ended, the traffic it reported covers all that
\* it delivered.
NothingLost ==
  /\ srv \in {"select", "write_b", "write_a"} =>
       /\ app_sent = a2b_num + up
       /\ a2b_num = tgt_got + t_up + HeldUp
       /\ tgt_sent = b2a_num + t_down
       /\ b2a_num = app_got + down + HeldDown
  /\ srv = "ended" => /\ tgt_got + t_up <= traffic_tx
                      /\ app_got + down <= traffic_rx

\* The application sends no more.
AppIsDone == app_fin \/ app_in = "failed" \/ copy_err

\* A target that reads to the end of its stream has the whole upload, unless it
\* shut its own side first or the server's task failed: the server ends the TCP
\* stream in the same way after an error.
TargetEofIsComplete ==
  tgt_in = "eof" => \/ AppIsDone /\ tgt_got = app_sent
                    \/ tgt_fin
                    \/ last_err
                    \/ srv = "failed"

\* The end of the QUIC stream that the client's copy reads is the end of the whole
\* answer, unless the application shut its own side first or the server's task
\* failed before exchange_tcp: the server never lets an answer that it cut look
\* complete to the client. (After an error of its copy the client shows the
\* application the same end: a cut answer and a whole one then look alike.)
AnswerEndIsComplete ==
  app_in = "eof" /\ ~copy_err => \/ tgt_fin /\ app_got = tgt_sent
                                 \/ app_fin
                                 \/ srv = "failed"

\* The inductive invariant behind the three, in parts.

\* Before the target is reached nothing has moved but what the application sent.
Untouched ==
  srv \in {"negotiating", "connecting"} =>
    /\ app_sent = up /\ app_got = 0 /\ down = 0
    /\ a2b_num = 0 /\ b2a_num = 0 /\ held = 0 /\ ~last_err
    /\ t_up = 0 /\ t_down = 0 /\ tgt_got = 0 /\ tgt_sent = 0 /\ ~tgt_fin
    /\ tgt_in = "none"

\* Which steps hold units, and which have a target.
HeldIsWritten ==
  /\ srv = "select" => held = 0
  /\ srv \in {"write_b", "write_a"} => held > 0
  /\ srv \in {"select", "write_b", "write_a"} => tgt_in # "none" /\ ~last_err

\* How a stream ended says who ended it.
EndsHaveReasons ==
  /\ up_end = "fin" => AppIsDone
  /\ down_end = "fin" \/ t_up_fin => srv \in {"ended", "failed"}
  /\ app_in = "eof" => copy_err \/ srv \in {"ended", "failed"}
  /\ srv \in {"ended", "failed"} => up_stopped
  /\ tgt_in = "eof" => t_up_fin
  /\ copy_err => down_stopped

\* Once the streams are ended, what is under way is all that is missing.
RestIsUnderWay ==
  /\ t_up_fin => \/ AppIsDone /\ tgt_got + t_up = app_sent
                 \/ tgt_fin
                 \/ last_err
                 \/ srv = "failed"
  /\ down_end = "fin" => \/ tgt_fin /\ app_got + down = tgt_sent
                         \/ AppIsDone
                         \/ srv = "failed"

IndInv ==
  /\ TypeOK
  /\ NothingLost
  /\ TargetEofIsComplete
  /\ AnswerEndIsComplete
  /\ Untouched
  /\ HeldIsWritten
  /\ EndsHaveReasons
  /\ RestIsUnderWay

\* With two ends that always read, the end of either stream ends the task and
\* frees both sockets, however full the buffers of both directions are.
EofEndsRelay ==
  blocking = {} /\ (app_fin \/ tgt_fin) ~> srv \in {"ended", "failed"}
=============================================================================
