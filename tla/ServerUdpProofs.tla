--------------------------- MODULE ServerUdpProofs ---------------------------
(* Proofs about ServerUdp, for any number of IDs, commands and sessions. *)
EXTENDS ServerUdp, TLAPS

USE DEF Modes, NoMode, NoSession, Steps, ListenSteps

\* Session 0 is none of the sessions.
LEMMA NoSessionIsNone == NoSession \notin SessionIds
  BY MaxSessionsAssumption DEF SessionIds

LEMMA InitIndInv == Init => IndInv
<1>. SUFFICES ASSUME Init PROVE IndInv
  OBVIOUS
<1>1. AnyAssoc \in AssocIds
  BY AssocIdsAssumption DEF AnyAssoc
<1>2. NewTask \in TaskRecords
  BY <1>1 DEF NewTask, TaskRecords
<1>3. TypeOK
  <2>1. task \in [Tasks -> TaskRecords]
    BY <1>2 DEF Init
  <2>2. inbound \in [SessionIds -> 0 .. MaxInbound] /\ relaying \in [SessionIds -> Nat]
    BY MaxInboundAssumption DEF Init
  <2>3. udp_sessions \in [AssocIds -> SessionIds \cup {NoSession}]
    BY DEF Init
  <2>4. assoc \in [SessionIds -> AssocIds] /\ close \in [SessionIds -> BOOLEAN]
    BY <1>1 DEF Init
  <2>. QED BY <2>1, <2>2, <2>3, <2>4 DEF Init, TypeOK
<1>4. TasksHaveMode
  BY DEF Init, TasksHaveMode, NewTask
<1>5. RelayHasMode /\ EntriesAreLive /\ LiveAreEntries
  BY DEF Init, RelayHasMode, EntriesAreLive, LiveAreEntries
<1>. QED BY <1>3, <1>4, <1>5 DEF IndInv

\* Changing a task's step keeps it a task.
LEMMA StepTypes ==
  ASSUME TypeOK, NEW t \in Tasks, NEW step \in Steps, NEW s \in SessionIds \cup {NoSession}
  PROVE  /\ [task EXCEPT ![t].at = step] \in [Tasks -> TaskRecords]
         /\ [task EXCEPT ![t].at = step, ![t].session = s] \in [Tasks -> TaskRecords]
<1>1. task \in [Tasks -> TaskRecords] /\ task[t] \in TaskRecords
  BY DEF TypeOK
<1>2. [task[t] EXCEPT !.at = step] \in TaskRecords
  BY <1>1 DEF TaskRecords
<1>3. [task[t] EXCEPT !.at = step, !.session = s] \in TaskRecords
  BY <1>1 DEF TaskRecords
<1>4. [task EXCEPT ![t].at = step] = [task EXCEPT ![t] = [task[t] EXCEPT !.at = step]]
  BY <1>1
<1>5. [task EXCEPT ![t].at = step, ![t].session = s]
        = [task EXCEPT ![t] = [task[t] EXCEPT !.at = step, !.session = s]]
  BY <1>1
<1>. QED BY <1>1, <1>2, <1>3, <1>4, <1>5

LEMMA AtTypes ==
  ASSUME TypeOK, NEW t \in Tasks, NEW step \in Steps, At(t, step)
  PROVE  task' \in [Tasks -> TaskRecords]
<1>1. [task EXCEPT ![t].at = step] \in [Tasks -> TaskRecords]
  BY StepTypes, Zenon
<1>. QED BY <1>1, Zenon DEF At

\* Types are preserved by every step.
LEMMA NextTypeOK == TypeOK /\ [Next]_vars => TypeOK'
<1>. SUFFICES ASSUME TypeOK, [Next]_vars PROVE TypeOK'
  OBVIOUS
<1>1. ASSUME NEW t \in Tasks, NEW a \in AssocIds, NEW mode \in Modes, PreProcess(t, a, mode)
      PROVE  TypeOK'
  <2>1. [at |-> "checked", assoc |-> a, mode |-> mode, session |-> NoSession] \in TaskRecords
    BY DEF TaskRecords
  <2>2. CASE At(t, "done") /\ closed' = TRUE
    <3>1. task' \in [Tasks -> TaskRecords]
      BY <2>2, AtTypes
    <3>. QED BY <1>1, <2>2, <3>1 DEF PreProcess, sessionVars, histories, TypeOK
  <2>3. CASE /\ task' = [task EXCEPT ![t] = [at |-> "checked", assoc |-> a, mode |-> mode,
                                            session |-> NoSession]]
             /\ UNCHANGED closed
    <3>1. task' \in [Tasks -> TaskRecords]
      BY <2>1, <2>3 DEF TypeOK
    <3>. QED BY <1>1, <2>3, <3>1 DEF PreProcess, sessionVars, histories, TypeOK
  <2>. QED BY <1>1, <2>2, <2>3, Zenon DEF PreProcess
<1>2. ASSUME NEW t \in Tasks, PacketStep(t) \/ ResolveFail(t) \/ Accept(t) PROVE TypeOK'
  <2>1. task[t] \in TaskRecords /\ task[t].assoc \in AssocIds /\ task[t].mode \in Modes \cup {NoMode}
    BY DEF TypeOK, TaskRecords
  <2>2. CASE HandlePacket(t)
    <3>1. task' \in [Tasks -> TaskRecords]
      BY <2>2, AtTypes DEF HandlePacket
    <3>. QED BY <2>1, <2>2, <3>1 DEF HandlePacket, sessionVars, histories, TypeOK
  <2>9. CASE Accept(t)
    <3>1. task' \in [Tasks -> TaskRecords]
      BY <2>9, AtTypes DEF Accept
    <3>. QED BY <2>9, <3>1 DEF Accept, sessionVars, histories, TypeOK
  <2>3. CASE Lookup(t)
    <3>1. task' \in [Tasks -> TaskRecords]
      <4>1. udp_sessions[task[t].assoc] \in SessionIds \cup {NoSession}
        BY <2>1 DEF TypeOK
      <4>2. \/ task' = [task EXCEPT ![t].at = "vacant"]
            \/ task' = [task EXCEPT ![t].at = "resolving", ![t].session = udp_sessions[task[t].assoc]]
        BY <2>3, Zenon DEF Lookup
      <4>3. "vacant" \in Steps /\ "resolving" \in Steps
        OBVIOUS
      <4>4. [task EXCEPT ![t].at = "vacant"] \in [Tasks -> TaskRecords]
        BY <4>1, <4>3, StepTypes, Zenon
      <4>5. [task EXCEPT ![t].at = "resolving", ![t].session = udp_sessions[task[t].assoc]]
              \in [Tasks -> TaskRecords]
        BY <4>1, <4>3, StepTypes, Zenon
      <4>. QED BY <4>2, <4>4, <4>5, Zenon
    <3>. QED BY <2>3, <3>1 DEF Lookup, sessionVars, histories, TypeOK
  <2>4. ASSUME NEW s \in SessionIds, Create(t, s) PROVE TypeOK'
    <3>1. task' \in [Tasks -> TaskRecords]
      BY <2>1, <2>4, StepTypes DEF Create
    <3>. QED BY <2>1, <2>4, <3>1 DEF Create, TypeOK
  <2>5. CASE Occupied(t)
    <3>1. task' \in [Tasks -> TaskRecords]
      <4>1. udp_sessions[task[t].assoc] \in SessionIds \cup {NoSession}
        BY <2>1 DEF TypeOK
      <4>2. task' = [task EXCEPT ![t].at = "resolving", ![t].session = udp_sessions[task[t].assoc]]
        BY <2>5, Zenon DEF Occupied
      <4>3. "resolving" \in Steps
        OBVIOUS
      <4>. QED BY <4>1, <4>2, <4>3, StepTypes, Zenon
    <3>. QED BY <2>5, <3>1 DEF Occupied, sessionVars, histories, TypeOK
  <2>6. CASE SocketFail(t) \/ ResolveFail(t)
    <3>1. task' \in [Tasks -> TaskRecords]
      BY <2>6, AtTypes DEF SocketFail, ResolveFail
    <3>. QED BY <2>6, <3>1 DEF SocketFail, ResolveFail, sessionVars, histories, TypeOK
  <2>7. CASE Upgrade(t)
    <3>1. task' \in [Tasks -> TaskRecords]
      BY <2>7, AtTypes DEF Upgrade
    <3>. QED BY <2>7, <3>1 DEF Upgrade, sessionVars, histories, TypeOK
  <2>8. CASE Sent(t)
    <3>1. task' \in [Tasks -> TaskRecords]
      BY <2>8, AtTypes DEF Sent
    <3>. QED BY <2>8, <3>1 DEF Sent, sessionVars, histories, TypeOK
  <2>. QED BY <1>2, <2>2, <2>3, <2>4, <2>5, <2>6, <2>7, <2>8, <2>9 DEF PacketStep
<1>3. ASSUME NEW a \in AssocIds, HandleDissociate(a) PROVE TypeOK'
  BY <1>3 DEF HandleDissociate, histories, TypeOK
<1>4. ASSUME NEW s \in SessionIds, Recv(s) PROVE TypeOK'
  BY <1>4, MaxInboundAssumption DEF Recv, histories, TypeOK
<1>5. ASSUME NEW s \in SessionIds, Timeout(s) PROVE TypeOK'
  BY <1>5 DEF Timeout, histories, TypeOK
<1>6. ASSUME NEW s \in SessionIds, ListenStep(s) PROVE TypeOK'
  BY <1>6 DEF ListenStep, Break, Remove, histories, TypeOK
<1>7. ASSUME NEW s \in SessionIds, RelayPacket(s) PROVE TypeOK'
  BY <1>7 DEF RelayPacket, histories, TypeOK
<1>8. CASE Disconnect
  BY <1>8 DEF Disconnect, sessionVars, histories, TypeOK
<1>9. CASE UNCHANGED vars
  BY <1>9 DEF vars, TypeOK
<1>. QED BY <1>1, <1>2, <1>3, <1>4, <1>5, <1>6, <1>7, <1>8, <1>9 DEF Next, HandleUniStream, HandleDatagram

\* The state of the server's sessions and tasks keeps its types.
THEOREM TypeCorrect == Spec => []TypeOK
<1>1. IndInv => TypeOK
  BY DEF IndInv
<1>. QED BY <1>1, InitIndInv, NextTypeOK, PTL DEF Spec

\* What At changes.
LEMMA AtValues ==
  ASSUME TypeOK, NEW t \in Tasks, NEW step \in Steps, NEW s \in SessionIds \cup {NoSession},
         \/ At(t, step)
         \/ task' = [task EXCEPT ![t].at = step, ![t].session = s]
  PROVE  /\ task'[t].at = step /\ task'[t].mode = task[t].mode
         /\ \A u \in Tasks \ {t} : task'[u] = task[u]
<1>1. task \in [Tasks -> TaskRecords] /\ task[t] \in TaskRecords
  BY DEF TypeOK
<1>2. CASE At(t, step)
  <2>1. task' = [task EXCEPT ![t] = [task[t] EXCEPT !.at = step]]
    BY <1>1, <1>2 DEF At
  <2>. QED BY <1>1, <2>1 DEF TaskRecords
<1>3. CASE task' = [task EXCEPT ![t].at = step, ![t].session = s]
  <2>1. task' = [task EXCEPT ![t] = [task[t] EXCEPT !.at = step, !.session = s]]
    BY <1>1, <1>3
  <2>. QED BY <1>1, <2>1 DEF TaskRecords
<1>. QED BY <1>2, <1>3

Stored == {"accepting", "lookup", "vacant", "resolving", "sending"}

\* A step of a task that leaves the sessions and the mode alone, and goes past
\* handle_packet's first line only from there, keeps the invariant.
LEMMA TaskStepIndInv ==
  ASSUME IndInv, TypeOK', NEW t \in Tasks, NEW step \in Steps \ {"checked"},
         NEW s \in SessionIds \cup {NoSession},
         \/ At(t, step)
         \/ task' = [task EXCEPT ![t].at = step, ![t].session = s],
         step \in Stored => task[t].at \in Stored,
         UNCHANGED <<udp_sessions, udp_relay_mode, sessionVars, histories>>
  PROVE  IndInv'
<1>1. /\ task'[t].at = step /\ task'[t].mode = task[t].mode
      /\ \A u \in Tasks \ {t} : task'[u] = task[u]
  BY AtValues, Zenon DEF IndInv
<1>2. TasksHaveMode'
  BY <1>1, SMT DEF IndInv, TasksHaveMode, Stored
<1>3. RelayHasMode' /\ EntriesAreLive' /\ LiveAreEntries'
  BY DEF IndInv, RelayHasMode, EntriesAreLive, LiveAreEntries, sessionVars, histories
<1>. QED BY <1>2, <1>3 DEF IndInv

\* A new session is the table's entry of its ID, and no entry was it before.
LEMMA CreateIndInv ==
  ASSUME IndInv, TypeOK', NEW t \in Tasks, NEW s \in SessionIds, Create(t, s)
  PROVE  IndInv'
<1>1. /\ task'[t].at = "resolving" /\ task'[t].mode = task[t].mode
      /\ \A u \in Tasks \ {t} : task'[u] = task[u]
  <2>1. task' = [task EXCEPT ![t].at = "resolving", ![t].session = s]
    BY Zenon DEF Create
  <2>2. "resolving" \in Steps /\ s \in SessionIds \cup {NoSession} /\ TypeOK
    BY DEF IndInv
  <2>. QED BY <2>1, <2>2, AtValues, Zenon
<1>. DEFINE a == task[t].assoc
<1>2. a \in AssocIds
  BY DEF IndInv, TypeOK, TaskRecords
<1>3. /\ task[t].at = "vacant" /\ udp_sessions[a] = NoSession /\ listen[s] = "free"
      /\ udp_sessions' = [udp_sessions EXCEPT ![a] = s]
      /\ listen' = [listen EXCEPT ![s] = "listening"]
      /\ assoc' = [assoc EXCEPT ![s] = a]
      /\ UNCHANGED <<udp_relay_mode, relaying, dissociated>>
  BY Zenon DEF Create, NextFree
<1>. HIDE DEF a
<1>4. udp_relay_mode # NoMode
  BY <1>3 DEF IndInv, TasksHaveMode
<1>5. TasksHaveMode'
  BY <1>1, <1>3, <1>4 DEF IndInv, TasksHaveMode
<1>6. RelayHasMode'
  BY <1>3, <1>4 DEF RelayHasMode
<1>7. EntriesAreLive'
  <2>. SUFFICES ASSUME NEW b \in AssocIds, udp_sessions'[b] # NoSession
                PROVE  /\ listen'[udp_sessions'[b]] \in {"listening", "removing"}
                       /\ assoc'[udp_sessions'[b]] = b
    BY DEF EntriesAreLive
  <2>1. CASE b = a
    BY <1>2, <1>3, <2>1 DEF IndInv, TypeOK
  <2>2. CASE b # a
    <3>1. udp_sessions'[b] = udp_sessions[b] /\ udp_sessions[b] \in SessionIds
      BY <1>3, <2>2 DEF IndInv, TypeOK
    <3>2. listen[udp_sessions[b]] \in {"listening", "removing"} /\ assoc[udp_sessions[b]] = b
      BY <3>1 DEF IndInv, EntriesAreLive
    <3>3. udp_sessions[b] # s
      BY <1>3, <3>2
    <3>. QED BY <1>3, <3>1, <3>2, <3>3 DEF IndInv, TypeOK
  <2>. QED BY <2>1, <2>2
<1>8. LiveAreEntries'
  <2>. SUFFICES ASSUME NEW r \in SessionIds, listen'[r] \in {"listening", "removing"}
                PROVE  udp_sessions'[assoc'[r]] = r \/ assoc'[r] \in dissociated'
    BY DEF LiveAreEntries
  <2>1. CASE r = s
    BY <1>2, <1>3, <2>1 DEF IndInv, TypeOK
  <2>2. CASE r # s
    <3>1. listen'[r] = listen[r] /\ assoc'[r] = assoc[r] /\ assoc[r] \in AssocIds
      BY <1>3, <2>2 DEF IndInv, TypeOK
    <3>2. udp_sessions[assoc[r]] = r \/ assoc[r] \in dissociated
      BY <3>1 DEF IndInv, LiveAreEntries
    <3>3. udp_sessions[assoc[r]] = r => assoc[r] # a
      BY <1>3, NoSessionIsNone
    <3>. QED BY <1>3, <3>1, <3>2, <3>3 DEF IndInv, TypeOK
  <2>. QED BY <2>1, <2>2
<1>. QED BY <1>5, <1>6, <1>7, <1>8 DEF IndInv

\* A listen task that ends removes the entry of its ID. It is its own entry, or
\* the ID has been dissociated.
LEMMA RemoveIndInv ==
  ASSUME IndInv, TypeOK', NEW s \in SessionIds, Remove(s)
  PROVE  IndInv'
<1>1. TasksHaveMode' /\ RelayHasMode'
  BY DEF IndInv, TypeOK, Remove, histories, TasksHaveMode, RelayHasMode
<1>2. EntriesAreLive'
  <2>. SUFFICES ASSUME NEW b \in AssocIds, udp_sessions'[b] # NoSession
                PROVE  /\ listen'[udp_sessions'[b]] \in {"listening", "removing"}
                       /\ assoc'[udp_sessions'[b]] = b
    BY DEF EntriesAreLive
  <2>1. b # assoc[s] /\ udp_sessions'[b] = udp_sessions[b] /\ udp_sessions[b] \in SessionIds
    BY DEF IndInv, TypeOK, Remove, histories
  <2>2. listen[udp_sessions[b]] \in {"listening", "removing"} /\ assoc[udp_sessions[b]] = b
    BY <2>1 DEF IndInv, EntriesAreLive
  <2>. QED BY <2>1, <2>2 DEF IndInv, TypeOK, Remove, histories
<1>3. LiveAreEntries'
  <2>. SUFFICES ASSUME NEW r \in SessionIds, listen'[r] \in {"listening", "removing"}
                PROVE  udp_sessions'[assoc'[r]] = r \/ assoc'[r] \in dissociated'
    BY DEF LiveAreEntries
  <2>1. r # s /\ listen'[r] = listen[r] /\ assoc' = assoc /\ dissociated' = dissociated
    BY DEF IndInv, TypeOK, Remove, histories
  <2>2. udp_sessions[assoc[r]] = r \/ assoc[r] \in dissociated
    BY <2>1 DEF IndInv, LiveAreEntries
  <2>3. udp_sessions[assoc[s]] = s \/ assoc[s] \in dissociated
    BY DEF Remove, histories, IndInv, LiveAreEntries
  <2>. QED BY <2>1, <2>2, <2>3 DEF IndInv, TypeOK, Remove, histories
<1>. QED BY <1>1, <1>2, <1>3 DEF IndInv

\* The invariant is preserved by every step.
LEMMA NextIndInv == IndInv /\ [Next]_vars => IndInv'
<1>. SUFFICES ASSUME IndInv, [Next]_vars PROVE IndInv'
  OBVIOUS
<1>0. TypeOK /\ TypeOK'
  BY NextTypeOK DEF IndInv
<1>1. ASSUME NEW t \in Tasks, NEW a \in AssocIds, NEW mode \in Modes, PreProcess(t, a, mode)
      PROVE  IndInv'
  <2>0. UNCHANGED <<udp_sessions, udp_relay_mode, sessionVars, histories>>
    BY <1>1, Zenon DEF PreProcess
  <2>1. CASE At(t, "done")
    <3>1. "done" \in Steps \ {"checked"} /\ "done" \notin Stored
      BY DEF Stored
    <3>. QED BY <1>0, <2>0, <2>1, <3>1, TaskStepIndInv, Zenon
  <2>2. CASE task' = [task EXCEPT ![t] = [at |-> "checked", assoc |-> a, mode |-> mode,
                                         session |-> NoSession]]
    <3>1. TasksHaveMode'
      BY <1>0, <2>0, <2>2 DEF IndInv, TypeOK, TasksHaveMode
    <3>2. RelayHasMode' /\ EntriesAreLive' /\ LiveAreEntries'
      BY <2>0 DEF IndInv, RelayHasMode, EntriesAreLive, LiveAreEntries, sessionVars, histories
    <3>. QED BY <1>0, <3>1, <3>2 DEF IndInv
  <2>. QED BY <1>1, <2>1, <2>2, Zenon DEF PreProcess
<1>2. ASSUME NEW t \in Tasks, HandlePacket(t) PROVE IndInv'
  <2>1. At(t, "accepting")
    BY <1>2 DEF HandlePacket
  <2>2. /\ task'[t].at = "accepting" /\ \A u \in Tasks \ {t} : task'[u] = task[u]
    <3>1. "accepting" \in Steps /\ NoSession \in SessionIds \cup {NoSession}
      OBVIOUS
    <3>. QED BY <1>0, <2>1, <3>1, AtValues, Zenon
  <2>3. udp_relay_mode' \in Modes
    BY <1>2 DEF HandlePacket, IndInv, TasksHaveMode
  <2>4. TasksHaveMode'
    BY <2>2, <2>3 DEF IndInv, TasksHaveMode
  <2>5. RelayHasMode'
    BY <2>3 DEF RelayHasMode
  <2>6. EntriesAreLive' /\ LiveAreEntries'
    BY <1>2 DEF HandlePacket, IndInv, EntriesAreLive, LiveAreEntries, sessionVars, histories
  <2>. QED BY <1>0, <2>4, <2>5, <2>6 DEF IndInv
<1>3. ASSUME NEW t \in Tasks, Lookup(t) \/ Occupied(t) PROVE IndInv'
  <2>. DEFINE s == udp_sessions[task[t].assoc]
  <2>1. s \in SessionIds \cup {NoSession}
    BY <1>0 DEF TypeOK, TaskRecords
  <2>2. /\ \/ At(t, "vacant")
           \/ task' = [task EXCEPT ![t].at = "resolving", ![t].session = s]
        /\ task[t].at \in Stored
        /\ UNCHANGED <<udp_sessions, udp_relay_mode, sessionVars, histories>>
    BY <1>3, Zenon DEF Lookup, Occupied, At, Stored
  <2>3. {"vacant", "resolving"} \subseteq Steps \ {"checked"}
    OBVIOUS
  <2>. HIDE DEF s
  <2>. QED BY <1>0, <2>1, <2>2, <2>3, TaskStepIndInv, Zenon
<1>4. ASSUME NEW t \in Tasks,
             Accept(t) \/ SocketFail(t) \/ ResolveFail(t) \/ Upgrade(t) \/ Sent(t)
      PROVE  IndInv'
  <2>1. /\ At(t, "lookup") \/ At(t, "sending") \/ At(t, "done")
        /\ task[t].at \in Stored
        /\ UNCHANGED <<udp_sessions, udp_relay_mode, sessionVars, histories>>
    BY <1>4, Zenon DEF Accept, SocketFail, ResolveFail, Upgrade, Sent, Stored
  <2>2. {"lookup", "sending", "done"} \subseteq Steps \ {"checked"} /\ NoSession \in SessionIds \cup {NoSession}
    OBVIOUS
  <2>. QED BY <1>0, <2>1, <2>2, TaskStepIndInv, Zenon
<1>5. ASSUME NEW a \in AssocIds, HandleDissociate(a) PROVE IndInv'
  <2>1. TasksHaveMode' /\ RelayHasMode'
    BY <1>5 DEF HandleDissociate, IndInv, TasksHaveMode, RelayHasMode
  <2>2. EntriesAreLive'
    BY <1>0, <1>5 DEF HandleDissociate, IndInv, TypeOK, EntriesAreLive
  <2>3. LiveAreEntries'
    BY <1>0, <1>5 DEF HandleDissociate, IndInv, TypeOK, LiveAreEntries
  <2>. QED BY <1>0, <2>1, <2>2, <2>3 DEF IndInv
<1>6. ASSUME NEW s \in SessionIds, Recv(s) \/ Timeout(s) \/ Break(s) \/ RelayPacket(s)
      PROVE  IndInv'
  <2>1. TasksHaveMode'
    BY <1>6 DEF Recv, Timeout, Break, RelayPacket, histories, IndInv, TasksHaveMode
  <2>2. RelayHasMode'
    BY <1>0, <1>6 DEF Recv, Timeout, Break, RelayPacket, histories, IndInv, TypeOK, RelayHasMode
  <2>3. EntriesAreLive'
    BY <1>0, <1>6 DEF Recv, Timeout, Break, RelayPacket, histories, IndInv, TypeOK, EntriesAreLive
  <2>4. LiveAreEntries'
    BY <1>0, <1>6 DEF Recv, Timeout, Break, RelayPacket, histories, IndInv, TypeOK, LiveAreEntries
  <2>. QED BY <1>0, <2>1, <2>2, <2>3, <2>4 DEF IndInv
<1>7. CASE Disconnect \/ UNCHANGED vars
  <2>1. UNCHANGED <<udp_sessions, udp_relay_mode, task, sessionVars, histories>>
    BY <1>7 DEF Disconnect, vars, sessionVars, histories
  <2>. QED BY <1>0, <2>1 DEF IndInv, TasksHaveMode, RelayHasMode, EntriesAreLive,
                             LiveAreEntries, sessionVars, histories
<1>. QED BY <1>0, <1>1, <1>2, <1>3, <1>4, <1>5, <1>6, <1>7, CreateIndInv, RemoveIndInv
         DEF Next, HandleUniStream, HandleDatagram, PacketStep, ListenStep

\* The invariant holds in every state: live sessions and table entries are the
\* same thing, apart from the sessions of dissociated IDs.
THEOREM Inductive == Spec => []IndInv
  BY InitIndInv, NextIndInv, PTL DEF Spec

\* A lookup in udp_sessions never finds a session whose listen task has ended,
\* nor one of another associate ID.
THEOREM TableEntriesAreLive == Spec => []EntriesAreLive
<1>1. IndInv => EntriesAreLive
  BY DEF IndInv
<1>. QED BY <1>1, Inductive, PTL

\* relay_packet's unwrap of the relay mode does not panic.
THEOREM RelayFindsMode == Spec => []RelayHasMode
<1>1. IndInv => RelayHasMode
  BY DEF IndInv
<1>. QED BY <1>1, Inductive, PTL

\* Before its first Dissociate, an associate ID has one open session at most.
THEOREM OneOpenSession == Spec => []OneSessionUntilDissociate
<1>1. IndInv => OneSessionUntilDissociate
  BY DEF IndInv, LiveAreEntries, OneSessionUntilDissociate, Open
<1>. QED BY <1>1, Inductive, PTL
=============================================================================
