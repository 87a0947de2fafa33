--------------------------- MODULE TcpRelayProofs ---------------------------
(***************************************************************************)
(* Proofs about TcpRelay, for any bounds and sizes of buffers. The         *)
(* inductive invariant says that units are conserved while exchange_tcp    *)
(* runs, and that how a stream ended says what can still be missing.       *)
(***************************************************************************)
EXTENDS TcpRelay, TLAPS

USE MaxAssumption, WindowAssumption, SocketSizeAssumption, BufferSizeAssumption
USE DEF Ends, StreamEnds, ServerSteps, app, quic_up, quic_down, traffic, server, tcp, target

\* A stream that was just opened satisfies the invariant.
LEMMA InitIndInv == Init => IndInv
<1>. SUFFICES ASSUME Init PROVE IndInv
  OBVIOUS
<1>1. TypeOK
  <2>1. blocking \subseteq Ends
    BY DEF Init
  <2>2. /\ 0 \in 0 .. MaxUp /\ 0 \in 0 .. MaxDown /\ 0 \in 0 .. Window
        /\ 0 \in 0 .. SocketSize /\ 0 \in 0 .. BufferSize
    OBVIOUS
  <2>. QED BY <2>1, <2>2, Zenon DEF Init, TypeOK
<1>2. NothingLost /\ TargetEofIsComplete /\ AnswerEndIsComplete
  BY DEF Init, NothingLost, TargetEofIsComplete, AnswerEndIsComplete
<1>3. Untouched /\ HeldIsWritten
  BY DEF Init, Untouched, HeldIsWritten
<1>4. EndsHaveReasons /\ RestIsUnderWay
  BY DEF Init, EndsHaveReasons, RestIsUnderWay
<1>. QED BY <1>1, <1>2, <1>3, <1>4 DEF IndInv

\* Every step of the ends, of the network and of the server's task preserves it.
LEMMA NextIndInv == IndInv /\ [Next]_vars => IndInv'
<1>. SUFFICES ASSUME IndInv, [Next]_vars PROVE IndInv'
  OBVIOUS
<1>. USE DEF IndInv, TypeOK, NothingLost, TargetEofIsComplete, AnswerEndIsComplete, Untouched,
             HeldIsWritten, EndsHaveReasons, RestIsUnderWay, HeldUp, HeldDown, AppIsDone
<1>1. CASE Negotiate
  <2>1. CASE srv' = "connecting" /\ UNCHANGED <<quic_up, quic_down>>
    BY <1>1, <2>1 DEF Negotiate
  <2>2. CASE srv' = "failed" /\ BreakStreams
    BY <1>1, <2>2 DEF Negotiate, BreakStreams, AfterReset
  <2>. QED BY <1>1, <2>1, <2>2 DEF Negotiate
<1>2. CASE Connect
  BY <1>2 DEF Connect
<1>3. CASE ConnectFails
  <2>1. TypeOK' /\ NothingLost' /\ Untouched' /\ HeldIsWritten'
    BY <1>3 DEF ConnectFails
  <2>2. TargetEofIsComplete' /\ AnswerEndIsComplete' /\ EndsHaveReasons' /\ RestIsUnderWay'
    BY <1>3 DEF ConnectFails
  <2>. QED BY <2>1, <2>2
<1>4. CASE ReadA
  BY <1>4 DEF ReadA
<1>5. CASE WriteB
  BY <1>5 DEF WriteB
<1>6. CASE ReadB
  BY <1>6 DEF ReadB
<1>7. CASE WriteA
  BY <1>7 DEF WriteA
<1>8. CASE Break
  <2>1. PICK err \in BOOLEAN : Finish(err)
    BY <1>8 DEF Break
  <2>. USE <2>1 DEF Finish
  <2>2. TypeOK' /\ NothingLost' /\ Untouched' /\ HeldIsWritten'
    BY <1>8 DEF Break
  <2>3. TargetEofIsComplete' /\ AnswerEndIsComplete' /\ EndsHaveReasons'
    BY <1>8 DEF Break
  <2>4. RestIsUnderWay'
    BY <1>8 DEF Break
  <2>. QED BY <2>2, <2>3, <2>4
<1>9. CASE Reply
  <2>1. CASE app_in' = "open" /\ UNCHANGED <<up_end, down_stopped>>
    BY <1>9, <2>1 DEF Reply
  <2>2. CASE /\ app_in' = "failed"
             /\ up_end' = IF up_end = "open" THEN "fin" ELSE up_end
             /\ down_stopped' = TRUE
    BY <1>9, <2>2 DEF Reply
  <2>. QED BY <1>9, <2>1, <2>2 DEF Reply
<1>10. CASE AppSend
  BY <1>10 DEF AppSend, Copying
<1>11. CASE AppFin
  BY <1>11 DEF AppFin, Copying
<1>12. CASE AppRead
  BY <1>12 DEF AppRead
<1>13. CASE AppEof
  BY <1>13 DEF AppEof
<1>14. CASE ClientFails
  BY <1>14 DEF ClientFails, CopyFails, Copying, AfterReset
<1>15. CASE TgtSend
  BY <1>15 DEF TgtSend
<1>16. CASE TgtFin
  BY <1>16 DEF TgtFin
<1>17. CASE TgtRead
  BY <1>17 DEF TgtRead
<1>18. CASE TgtEof
  BY <1>18 DEF TgtEof
<1>19. CASE TgtReset
  BY <1>19 DEF TgtReset
<1>20. CASE LoseConnection
  BY <1>20 DEF LoseConnection, BreakStreams, AfterReset
<1>21. CASE AppAbort
  BY <1>21 DEF AppAbort, CopyFails, Copying, AfterReset
<1>22. CASE UNCHANGED vars
  BY <1>22 DEF vars
<1>. QED
  BY <1>1, <1>2, <1>3, <1>4, <1>5, <1>6, <1>7, <1>8, <1>9, <1>10, <1>11, <1>12, <1>13,
     <1>14, <1>15, <1>16, <1>17, <1>18, <1>19, <1>20, <1>21, <1>22 DEF Next, Server, Client, Target

\* Every reachable state of a Connect task satisfies the invariant.
THEOREM Inductive == Spec => []IndInv
  BY InitIndInv, NextIndInv, PTL DEF Spec

\* The state of the task and its streams keeps its types, and no buffer overflows.
THEOREM TypeCorrect == Spec => []TypeOK
<1>1. IndInv => TypeOK
  BY DEF IndInv
<1>. QED BY <1>1, Inductive, PTL

\* exchange_tcp loses and duplicates nothing while it runs, for buffers of any size.
THEOREM UnitsAreConserved == Spec => []NothingLost
<1>1. IndInv => NothingLost
  BY DEF IndInv
<1>. QED BY <1>1, Inductive, PTL

\* The end of the stream that a target sees is the end of the upload, unless the
\* target shut its side first or exchange_tcp failed.
THEOREM TargetSeesWhole == Spec => []TargetEofIsComplete
<1>1. IndInv => TargetEofIsComplete
  BY DEF IndInv
<1>. QED BY <1>1, Inductive, PTL

\* The end of the stream that the client's copy reads is the end of the answer,
\* unless the application shut its side first or the server's task failed before
\* exchange_tcp.
THEOREM AnswerEndsWhole == Spec => []AnswerEndIsComplete
<1>1. IndInv => AnswerEndIsComplete
  BY DEF IndInv
<1>. QED BY <1>1, Inductive, PTL
=============================================================================
