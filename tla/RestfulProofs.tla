---------------------------- MODULE RestfulProofs ----------------------------
(* Proofs about Restful, for any number of connections, users and limits. *)
EXTENDS Restful, FiniteSetTheorems, TLAPS

USE DEF TimerSteps, GcSteps, Uuids

LEMMA InitTypeOK == Init => TypeOK
  BY U64Assumption DEF Init, TypeOK

\* Counters stay in the range of their type, also when they wrap.
LEMMA Wraps ==
  \A n \in 0 .. U64Space - 1 : /\ (n + 1) % U64Space \in 0 .. U64Space - 1
                               /\ FetchSub(n) \in 0 .. U64Space - 1
  BY U64Assumption DEF FetchSub

\* Only a connection whose UUID is a user's is counted.
CountedAreUsers == \A c \in Conns : timer[c] = "counted" => auth[c] \in Users

LEMMA NextTypes == TypeOK /\ CountedAreUsers /\ [Next]_vars => TypeOK' /\ CountedAreUsers'
<1>. SUFFICES ASSUME TypeOK, CountedAreUsers, [Next]_vars PROVE TypeOK' /\ CountedAreUsers'
  OBVIOUS
<1>1. ASSUME NEW c \in Conns, Handle(c) \/ Close(c) PROVE TypeOK' /\ CountedAreUsers'
  BY <1>1 DEF Handle, Close, Closing, TypeOK, CountedAreUsers
<1>2. ASSUME NEW c \in Conns, NEW uuid \in Uuids, NEW valid \in BOOLEAN, Authenticate(c, uuid, valid)
      PROVE  TypeOK' /\ CountedAreUsers'
  BY <1>2 DEF Authenticate, Closing, TypeOK, CountedAreUsers
<1>3. ASSUME NEW c \in Conns, TimeoutAuthenticate(c) PROVE TypeOK' /\ CountedAreUsers'
  <2>1. online_counter' \in [Users -> 0 .. U64Space - 1]
    BY <1>3, Wraps DEF TimeoutAuthenticate, ClientConnect, TypeOK
  <2>. QED BY <1>3, <2>1 DEF TimeoutAuthenticate, ClientConnect, Closing, TypeOK, CountedAreUsers
<1>4. ASSUME NEW c \in Conns, Register(c) PROVE TypeOK' /\ CountedAreUsers'
  <2>1. auth[c] \in Users
    BY <1>4 DEF Register, CountedAreUsers
  <2>2. /\ DOMAIN online_clients' \subseteq Users
        /\ \A u \in DOMAIN online_clients' : online_clients'[u] \subseteq Conns
    BY <1>4, <2>1 DEF Register, Upsert, TypeOK
  <2>. QED BY <1>4, <2>2 DEF Register, TypeOK, CountedAreUsers
<1>5. ASSUME NEW c \in Conns, CollectGarbage(c) PROVE TypeOK' /\ CountedAreUsers'
  <2>1. online_counter' \in [Users -> 0 .. U64Space - 1]
    BY <1>5, Wraps DEF CollectGarbage, TypeOK
  <2>. QED BY <1>5, <2>1 DEF CollectGarbage, TypeOK, CountedAreUsers
<1>6. ASSUME NEW c \in Conns, Unregister(c) PROVE TypeOK' /\ CountedAreUsers'
  BY <1>6 DEF Unregister, TypeOK, CountedAreUsers
<1>7. ASSUME NEW uuid \in Uuids, Kick(uuid) PROVE TypeOK' /\ CountedAreUsers'
  BY <1>7 DEF Kick, Closing, TypeOK, CountedAreUsers
<1>8. CASE UNCHANGED vars
  BY <1>8 DEF vars, TypeOK, CountedAreUsers
<1>. QED BY <1>1, <1>2, <1>3, <1>4, <1>5, <1>6, <1>7, <1>8 DEF Next

\* The accounts keep their types: counts stay below 2^64 although they wrap, and
\* only users have an entry of ONLINE_CLIENTS.
THEOREM TypeCorrect == Spec => []TypeOK
<1>1. Init => CountedAreUsers
  BY DEF Init, CountedAreUsers
<1>. QED BY <1>1, InitTypeOK, NextTypes, PTL DEF Spec
-----------------------------------------------------------------------------
(* The lives of connections *)

LEMMA InitLives == Init => LivesAgree
  BY DEF Init, LivesAgree

\* Only connections that were added are in ONLINE_CLIENTS, so /kick closes no
\* connection that has not begun.
ListedHaveBegun ==
  \A u \in DOMAIN online_clients : \A c \in online_clients[u] : conn[c] # "new"

\* A step keeps a connection's tasks, UUID and state in agreement.
LEMMA NextLives ==
  TypeOK /\ LivesAgree /\ ListedHaveBegun /\ [Next]_vars => LivesAgree' /\ ListedHaveBegun'
<1>. SUFFICES ASSUME TypeOK, LivesAgree, ListedHaveBegun, [Next]_vars
              PROVE  LivesAgree' /\ ListedHaveBegun'
  OBVIOUS
<1>. USE NoUuidAssumption
<1>0. ASSUME UNCHANGED online_clients, \A c \in Conns : conn[c] # "new" => conn'[c] # "new"
      PROVE  ListedHaveBegun'
  BY <1>0 DEF ListedHaveBegun, TypeOK
<1>1. ASSUME NEW c \in Conns, Handle(c) \/ Close(c) PROVE LivesAgree' /\ ListedHaveBegun'
  <2>1. LivesAgree'
    BY <1>1 DEF Handle, Close, Closing, TypeOK, LivesAgree
  <2>. QED BY <1>0, <1>1, <2>1 DEF Handle, Close, Closing, TypeOK
<1>2. ASSUME NEW c \in Conns, NEW uuid \in Uuids, NEW valid \in BOOLEAN, Authenticate(c, uuid, valid)
      PROVE  LivesAgree' /\ ListedHaveBegun'
  <2>1. LivesAgree'
    BY <1>2 DEF Authenticate, Closing, TypeOK, LivesAgree
  <2>. QED BY <1>0, <1>2, <2>1 DEF Authenticate, Closing
<1>3. ASSUME NEW c \in Conns, TimeoutAuthenticate(c) PROVE LivesAgree' /\ ListedHaveBegun'
  <2>1. LivesAgree'
    BY <1>3 DEF TimeoutAuthenticate, ClientConnect, Closing, TypeOK, LivesAgree
  <2>. QED BY <1>0, <1>3, <2>1 DEF TimeoutAuthenticate, ClientConnect, Closing
<1>4. ASSUME NEW c \in Conns, Register(c) PROVE LivesAgree' /\ ListedHaveBegun'
  <2>1. LivesAgree'
    BY <1>4 DEF Register, TypeOK, LivesAgree
  <2>2. conn[c] # "new" /\ conn' = conn
    BY <1>4 DEF Register, LivesAgree
  <2>. QED BY <1>4, <2>1, <2>2 DEF Register, Upsert, ListedHaveBegun
<1>5. ASSUME NEW c \in Conns, CollectGarbage(c) PROVE LivesAgree' /\ ListedHaveBegun'
  <2>1. LivesAgree'
    BY <1>5 DEF CollectGarbage, TypeOK, LivesAgree
  <2>. QED BY <1>0, <1>5, <2>1 DEF CollectGarbage
<1>6. ASSUME NEW c \in Conns, Unregister(c) PROVE LivesAgree' /\ ListedHaveBegun'
  BY <1>6 DEF Unregister, TypeOK, LivesAgree, ListedHaveBegun
<1>7. ASSUME NEW uuid \in Uuids, Kick(uuid) PROVE LivesAgree' /\ ListedHaveBegun'
  <2>1. LivesAgree'
    BY <1>7 DEF Kick, Closing, TypeOK, LivesAgree, ListedHaveBegun
  <2>. QED BY <1>0, <1>7, <2>1 DEF Kick, Closing
<1>8. CASE UNCHANGED vars
  BY <1>8 DEF vars, LivesAgree, ListedHaveBegun
<1>. QED BY <1>1, <1>2, <1>3, <1>4, <1>5, <1>6, <1>7, <1>8 DEF Next
-----------------------------------------------------------------------------
(* The counts *)

\* Two sets of connections are finite, and the difference of their sizes is one
\* that the counter's type can tell from its neighbours.
LEMMA SmallSets ==
  \A S, T \in SUBSET Conns :
    /\ IsFiniteSet(S)
    /\ Cardinality(S) - Cardinality(T) \in 1 - U64Space .. U64Space - 1
    /\ Cardinality(S) \in Nat
<1>1. ASSUME NEW S \in SUBSET Conns
      PROVE  IsFiniteSet(S) /\ Cardinality(S) \in 0 .. U64Space - 1
  <2>1. IsFiniteSet(S) /\ Cardinality(S) <= Cardinality(Conns)
    BY ConnsAssumption, FS_Subset
  <2>2. Cardinality(S) \in Nat /\ Cardinality(Conns) \in Nat
    BY <2>1, ConnsAssumption, FS_CardinalityType
  <2>. QED BY <2>1, <2>2, FewConnsAssumption, U64Assumption
<1>. SUFFICES ASSUME NEW S \in SUBSET Conns, NEW T \in SUBSET Conns
              PROVE  /\ IsFiniteSet(S)
                     /\ Cardinality(S) - Cardinality(T) \in 1 - U64Space .. U64Space - 1
                     /\ Cardinality(S) \in Nat
  OBVIOUS
<1>2. IsFiniteSet(S) /\ Cardinality(S) \in 0 .. U64Space - 1 /\ Cardinality(T) \in 0 .. U64Space - 1
  BY <1>1
<1>. QED BY <1>2, U64Assumption

\* fetch_add and fetch_sub move a wrapped count by one.
LEMMA CountsWrap ==
  \A d \in 1 - U64Space .. U64Space - 1 :
    /\ d + 1 \in 1 - U64Space .. U64Space - 1 => (Wrapped(d) + 1) % U64Space = Wrapped(d + 1)
    /\ d - 1 \in 1 - U64Space .. U64Space - 1 => FetchSub(Wrapped(d)) = Wrapped(d - 1)
<1>1. \A n \in 0 .. U64Space - 1 : (n + 1) % U64Space = IF n = U64Space - 1 THEN 0 ELSE n + 1
  BY U64Assumption
<1>2. \A n \in 0 .. U64Space - 1 : FetchSub(n) = IF n = 0 THEN U64Space - 1 ELSE n - 1
  BY U64Assumption DEF FetchSub
<1>3. \A d \in 1 - U64Space .. U64Space - 1 : Wrapped(d) \in 0 .. U64Space - 1
  BY U64Assumption DEF Wrapped
<1>. QED BY <1>1, <1>2, <1>3, U64Assumption DEF Wrapped

\* How far the count of a user is from zero.
Balance(u) == Cardinality(Counted(u)) - Cardinality(Overtaken(u))

\* A step that changes neither who is counted nor the counts.
LEMMA CountUntouched ==
  ASSUME CountIsExact, UNCHANGED online_counter,
         \A u \in Users : Counted(u)' = Counted(u) /\ Overtaken(u)' = Overtaken(u)
  PROVE  CountIsExact'
  BY DEF CountIsExact

\* One element more, or less.
LEMMA OneMore ==
  ASSUME NEW S \in SUBSET Conns, NEW c \in Conns
  PROVE  /\ c \notin S => Cardinality(S \cup {c}) = Cardinality(S) + 1
         /\ c \in S => Cardinality(S \ {c}) = Cardinality(S) - 1
<1>1. IsFiniteSet(S) /\ Cardinality(S) \in Nat
  BY SmallSets
<1>. QED BY <1>1, FS_AddElement, FS_RemoveElement

\* client_connect counts one client more: one that is now to be collected, or one
\* that has been collected before.
LEMMA TimeoutCounts ==
  ASSUME TypeOK, LivesAgree, CountIsExact, NEW c \in Conns, TimeoutAuthenticate(c)
  PROVE  CountIsExact'
<1>u. PICK u : u = auth[c]
  OBVIOUS
<1>0. u # NoUuid
  BY <1>u, NoUuidAssumption DEF LivesAgree
<1>1. /\ timer[c] = "sleeping"
      /\ UNCHANGED <<auth, gc>>
      /\ ClientConnect(c, u)
  BY <1>0, <1>u DEF TimeoutAuthenticate
<1>2. CASE u \notin Users
  <2>1. \A v \in Users : Counted(v)' = Counted(v) /\ Overtaken(v)' = Overtaken(v)
    BY <1>u, <1>1, <1>2 DEF ClientConnect, Counted, Overtaken, TypeOK
  <2>. QED BY <1>1, <1>2, <2>1, CountUntouched DEF ClientConnect
<1>3. CASE u \in Users
  <2>1. PICK step \in {"refused", "counted"} : timer' = [timer EXCEPT ![c] = step]
    BY <1>1, <1>3 DEF ClientConnect
  <2>2. online_counter' = [online_counter EXCEPT ![u] = (@ + 1) % U64Space]
    BY <1>1, <1>3 DEF ClientConnect
  <2>3. \A v \in Users \ {u} : Counted(v)' = Counted(v) /\ Overtaken(v)' = Overtaken(v)
    BY <1>u, <1>1, <2>1 DEF Counted, Overtaken, TypeOK
  <2>4. Counted(u) \in SUBSET Conns /\ Overtaken(u) \in SUBSET Conns
    BY DEF Counted, Overtaken
  <2>5. Cardinality(Counted(u)) \in Nat /\ Cardinality(Overtaken(u)) \in Nat
    BY <2>4, SmallSets
  <2>6. Balance(u)' = Balance(u) + 1
    <3>1. CASE gc[c] = "sleeping"
      <4>1. c \notin Counted(u) /\ Counted(u)' = Counted(u) \cup {c} /\ Overtaken(u)' = Overtaken(u)
        BY <1>u, <1>1, <2>1, <3>1 DEF Counted, Overtaken, TypeOK
      <4>. QED BY <2>4, <2>5, <4>1, OneMore DEF Balance
    <3>2. CASE gc[c] \in {"uncounted", "done"}
      <4>1. c \in Overtaken(u) /\ Overtaken(u)' = Overtaken(u) \ {c} /\ Counted(u)' = Counted(u)
        BY <1>u, <1>1, <2>1, <3>2 DEF Counted, Overtaken, TypeOK
      <4>. QED BY <2>4, <2>5, <4>1, OneMore DEF Balance
    <3>3. gc[c] \in {"sleeping", "uncounted", "done"}
      BY <1>u, <1>1, <1>3 DEF LivesAgree, TypeOK
    <3>. QED BY <3>1, <3>2, <3>3
  <2>7. Balance(u) \in 1 - U64Space .. U64Space - 1 /\ Balance(u)' \in 1 - U64Space .. U64Space - 1
    <3>1. Counted(u)' \in SUBSET Conns /\ Overtaken(u)' \in SUBSET Conns
      BY DEF Counted, Overtaken
    <3>. QED BY <2>4, <3>1, SmallSets DEF Balance
  <2>8. online_counter'[u] = Wrapped(Balance(u)')
    <3>1. online_counter'[u] = (Wrapped(Balance(u)) + 1) % U64Space
      BY <1>3, <2>2 DEF CountIsExact, Balance, TypeOK
    <3>. QED BY <2>6, <2>7, <3>1, CountsWrap
  <2>9. \A v \in Users \ {u} : online_counter'[v] = Wrapped(Balance(v)')
    BY <1>3, <2>2, <2>3 DEF CountIsExact, Balance, TypeOK
  <2>. QED BY <2>8, <2>9 DEF CountIsExact, Balance
<1>. QED BY <1>2, <1>3

\* client_disconnect counts one client less: one that was added, or one that will
\* still be.
LEMMA CollectCounts ==
  ASSUME TypeOK, LivesAgree, CountIsExact, NEW c \in Conns, CollectGarbage(c)
  PROVE  CountIsExact'
<1>u. PICK u : u = auth[c]
  OBVIOUS
<1>0. u # NoUuid
  BY <1>u, NoUuidAssumption DEF LivesAgree
<1>1. gc[c] = "sleeping" /\ UNCHANGED <<auth, timer>>
  BY DEF CollectGarbage
<1>2. CASE u \notin Users
  <2>1. gc' = [gc EXCEPT ![c] = "panicked"] /\ UNCHANGED online_counter
    BY <1>u, <1>0, <1>2 DEF CollectGarbage
  <2>2. \A v \in Users : Counted(v)' = Counted(v) /\ Overtaken(v)' = Overtaken(v)
    BY <1>u, <1>1, <1>2, <2>1 DEF Counted, Overtaken, TypeOK
  <2>. QED BY <2>1, <2>2, CountUntouched
<1>3. CASE u \in Users
  <2>1. gc' = [gc EXCEPT ![c] = "uncounted"]
    BY <1>u, <1>0, <1>3 DEF CollectGarbage
  <2>2. online_counter' = [online_counter EXCEPT ![u] = FetchSub(@)]
    BY <1>u, <1>3 DEF CollectGarbage
  <2>3. \A v \in Users \ {u} : Counted(v)' = Counted(v) /\ Overtaken(v)' = Overtaken(v)
    BY <1>u, <1>1, <2>1 DEF Counted, Overtaken, TypeOK
  <2>4. Counted(u) \in SUBSET Conns /\ Overtaken(u) \in SUBSET Conns
    BY DEF Counted, Overtaken
  <2>5. Cardinality(Counted(u)) \in Nat /\ Cardinality(Overtaken(u)) \in Nat
    BY <2>4, SmallSets
  <2>6. Balance(u)' = Balance(u) - 1
    <3>1. CASE timer[c] = "sleeping"
      <4>1. c \notin Overtaken(u) /\ Overtaken(u)' = Overtaken(u) \cup {c} /\ Counted(u)' = Counted(u)
        BY <1>u, <1>1, <2>1, <3>1 DEF Counted, Overtaken, TypeOK
      <4>. QED BY <2>4, <2>5, <4>1, OneMore DEF Balance
    <3>2. CASE timer[c] \in {"counted", "refused", "done"}
      <4>1. c \in Counted(u) /\ Counted(u)' = Counted(u) \ {c} /\ Overtaken(u)' = Overtaken(u)
        BY <1>u, <1>1, <2>1, <3>2 DEF Counted, Overtaken, TypeOK
      <4>. QED BY <2>4, <2>5, <4>1, OneMore DEF Balance
    <3>3. timer[c] \in {"sleeping", "counted", "refused", "done"}
      BY <1>u, <1>1, <1>3 DEF LivesAgree, TypeOK
    <3>. QED BY <3>1, <3>2, <3>3
  <2>7. Balance(u) \in 1 - U64Space .. U64Space - 1 /\ Balance(u)' \in 1 - U64Space .. U64Space - 1
    <3>1. Counted(u)' \in SUBSET Conns /\ Overtaken(u)' \in SUBSET Conns
      BY DEF Counted, Overtaken
    <3>. QED BY <2>4, <3>1, SmallSets DEF Balance
  <2>8. online_counter'[u] = Wrapped(Balance(u)')
    <3>1. online_counter'[u] = FetchSub(Wrapped(Balance(u)))
      BY <1>3, <2>2 DEF CountIsExact, Balance, TypeOK
    <3>. QED BY <2>6, <2>7, <3>1, CountsWrap
  <2>9. \A v \in Users \ {u} : online_counter'[v] = Wrapped(Balance(v)')
    BY <1>3, <2>2, <2>3 DEF CountIsExact, Balance, TypeOK
  <2>. QED BY <2>8, <2>9 DEF CountIsExact, Balance
<1>. QED BY <1>2, <1>3

LEMMA NextCounts == TypeOK /\ LivesAgree /\ CountIsExact /\ [Next]_vars => CountIsExact'
<1>. SUFFICES ASSUME TypeOK, LivesAgree, CountIsExact, [Next]_vars PROVE CountIsExact'
  OBVIOUS
<1>. USE CountUntouched
<1>1. ASSUME NEW c \in Conns, Handle(c) PROVE CountIsExact'
  <2>1. \A u \in Users : Counted(u)' = Counted(u) /\ Overtaken(u)' = Overtaken(u)
    BY <1>1 DEF Handle, Counted, Overtaken, LivesAgree, TypeOK
  <2>. QED BY <1>1, <2>1 DEF Handle
<1>2. ASSUME NEW c \in Conns, Register(c) \/ Unregister(c) PROVE CountIsExact'
  <2>1. \A u \in Users : Counted(u)' = Counted(u) /\ Overtaken(u)' = Overtaken(u)
    BY <1>2 DEF Register, Unregister, Counted, Overtaken, TypeOK
  <2>. QED BY <1>2, <2>1 DEF Register, Unregister
<1>3. ASSUME UNCHANGED <<auth, timer, gc, online_counter>> PROVE CountIsExact'
  <2>1. \A u \in Users : Counted(u)' = Counted(u) /\ Overtaken(u)' = Overtaken(u)
    BY <1>3 DEF Counted, Overtaken
  <2>. QED BY <1>3, <2>1
<1>4. ASSUME NEW c \in Conns, NEW uuid \in Uuids, NEW valid \in BOOLEAN, Authenticate(c, uuid, valid)
      PROVE  CountIsExact'
  BY <1>3, <1>4, NoUuidAssumption DEF Authenticate, LivesAgree
<1>5. CASE (\E c \in Conns : Close(c)) \/ (\E uuid \in Uuids : Kick(uuid)) \/ UNCHANGED vars
  BY <1>3, <1>5 DEF Close, Kick, vars
<1>. QED BY <1>1, <1>2, <1>4, <1>5, TimeoutCounts, CollectCounts DEF Next
-----------------------------------------------------------------------------
(* Theorems *)

\* The inductive invariant: lives and counts together.
THEOREM Inductive == Spec => []IndInv
<1>. DEFINE Inv == IndInv /\ CountedAreUsers /\ ListedHaveBegun
<1>1. Init => Inv
  <2>. SUFFICES ASSUME Init PROVE Inv
    OBVIOUS
  <2>1. \A u \in Users : Counted(u) = {} /\ Overtaken(u) = {}
    BY DEF Init, Counted, Overtaken
  <2>2. CountIsExact
    <3>1. Cardinality({}) = 0
      BY FS_EmptySet
    <3>2. Wrapped(0 - 0) = 0
      BY DEF Wrapped
    <3>. QED BY <2>1, <3>1, <3>2 DEF Init, CountIsExact
  <2>3. CountedAreUsers /\ ListedHaveBegun
    BY DEF Init, CountedAreUsers, ListedHaveBegun
  <2>. QED BY <2>2, <2>3, InitTypeOK, InitLives DEF IndInv
<1>2. Inv /\ [Next]_vars => Inv'
  BY NextTypes, NextLives, NextCounts DEF IndInv
<1>3. Inv => IndInv
  OBVIOUS
<1>. QED BY <1>1, <1>2, <1>3, PTL DEF Spec

\* ONLINE_COUNTER is exact at every moment, in whichever order client_connect and
\* client_disconnect of each connection run: their fetch_add and fetch_sub pair up.
THEOREM CountExact == Spec => []CountIsExact
<1>1. IndInv => CountIsExact
  BY DEF IndInv
<1>. QED BY <1>1, Inductive, PTL

\* The expects of client_connect and client_disconnect fail only for a users table
\* without the UUID that every connection starts with.
THEOREM ExpectsHold == Spec => []AuthorizedIsUser
<1>1. IndInv => AuthorizedIsUser
  BY DEF IndInv, LivesAgree, AuthorizedIsUser
<1>. QED BY <1>1, Inductive, PTL
=============================================================================
