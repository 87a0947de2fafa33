-------------------------- MODULE StreamLimitsProofs --------------------------
(* Proofs about StreamLimits, for any number of streams and any initial limit. *)
EXTENDS StreamLimits, FiniteSetTheorems, TLAPS

USE DEF Steps, Checking

LEMMA InitTypeOK == Init => TypeOK
<1>. SUFFICES ASSUME Init PROVE TypeOK
  OBVIOUS
<1>1. pc \in [Streams -> Steps] /\ seen \in [Streams -> Nat] /\ limit \in Nat \ {0}
  BY InitStreamsAssumption DEF Init
<1>2. max = limit /\ open \subseteq Streams
  BY DEF Init
<1>. QED BY <1>1, <1>2, Zenon DEF Init, TypeOK

LEMMA NextTypes == TypeOK /\ SeenIsMax /\ [Next]_vars => TypeOK' /\ SeenIsMax'
<1>. SUFFICES ASSUME TypeOK, SeenIsMax, [Next]_vars PROVE TypeOK' /\ SeenIsMax'
  OBVIOUS
<1>. USE DEF SeenIsMax
<1>1. ASSUME NEW s \in Streams, Open(s) \/ StreamFreed(s) \/ TaskEnds(s) PROVE TypeOK' /\ SeenIsMax'
  BY <1>1 DEF Open, StreamFreed, TaskEnds, TypeOK
<1>2. ASSUME NEW s \in Streams, ServerAccept(s) \/ Load(s) PROVE TypeOK' /\ SeenIsMax'
  BY <1>2 DEF ServerAccept, Load, TypeOK
<1>3. ASSUME NEW s \in Streams, Compare(s) PROVE TypeOK' /\ SeenIsMax'
  BY <1>3 DEF Compare, GoOn, TypeOK
<1>4. ASSUME NEW s \in Streams, Store(s) PROVE TypeOK' /\ SeenIsMax'
  BY <1>4 DEF Store, TypeOK
<1>5. ASSUME NEW s \in Streams, Set(s) PROVE TypeOK' /\ SeenIsMax'
  BY <1>5 DEF Set, SetLimit, GoOn, TypeOK
<1>6. ASSUME NEW s \in Streams, ClientAccept(s) PROVE TypeOK' /\ SeenIsMax'
  BY <1>6 DEF ClientAccept, TypeOK
<1>7. CASE ClientCheck
  <2>1. limit' \in Nat \ {0} /\ max' \in Nat \ {0}
    BY <1>7 DEF ClientCheck, SetLimit, TypeOK
  <2>2. missed' \in BOOLEAN /\ lowered' \in BOOLEAN /\ loop' \in {"check", "accept"}
    BY <1>7, Zenon DEF ClientCheck, SetLimit, TypeOK
  <2>. QED BY <1>7, <2>1, <2>2, Zenon DEF ClientCheck, TypeOK
<1>8. CASE SelectOther
  BY <1>8 DEF SelectOther, TypeOK
<1>9. CASE UNCHANGED vars
  BY <1>9 DEF vars, TypeOK
<1>. QED BY <1>1, <1>2, <1>3, <1>4, <1>5, <1>6, <1>7, <1>8, <1>9 DEF Next

\* Limits and maxima stay positive, and the rest of the state keeps its types.
THEOREM TypeCorrect == Spec => []TypeOK
<1>1. Init => SeenIsMax
  BY DEF Init, SeenIsMax
<1>. QED BY <1>1, InitTypeOK, NextTypes, PTL DEF Spec
-----------------------------------------------------------------------------
(* How many Registers there are *)

\* Sets of streams are finite, and a part of one is no larger than the whole.
LEMMA Sizes ==
  ASSUME NEW S, NEW T, T \subseteq Streams, S \subseteq T
  PROVE  /\ IsFiniteSet(S) /\ IsFiniteSet(T)
         /\ Cardinality(S) \in Nat /\ Cardinality(T) \in Nat
         /\ Cardinality(S) <= Cardinality(T)
<1>1. IsFiniteSet(T)
  BY StreamsAssumption, FS_Subset
<1>2. IsFiniteSet(S) /\ Cardinality(S) <= Cardinality(T)
  BY <1>1, FS_Subset
<1>. QED BY <1>1, <1>2, FS_CardinalityType

LEMMA CountType == Count \in Nat /\ Count' \in Nat
<1>1. Registered \subseteq Streams /\ Registered' \subseteq Streams
  BY DEF Registered
<1>. QED BY <1>1, Sizes DEF Count

\* A step that makes no Register leaves no more of them.
LEMMA CountFalls == Registered' \subseteq Registered => Count' <= Count
<1>1. Registered \subseteq Streams
  BY DEF Registered
<1>. QED BY <1>1, Sizes DEF Count

\* A step that makes one Register leaves at most one more of them.
LEMMA CountRises ==
  ASSUME NEW s \in Streams, Registered' \subseteq Registered \cup {s}
  PROVE  Count' <= Count + 1
<1>1. Registered \subseteq Streams /\ Registered \cup {s} \subseteq Streams
  BY DEF Registered
<1>2. IsFiniteSet(Registered) /\ Cardinality(Registered) \in Nat
  BY <1>1, Sizes
<1>3. Cardinality(Registered \cup {s}) <= Cardinality(Registered) + 1
  <2>1. CASE s \in Registered
    <3>0. Registered \cup {s} = Registered
      BY <2>1
    <3>1. Cardinality(Registered \cup {s}) = Cardinality(Registered)
      BY <3>0, Zenon
    <3>. QED BY <1>2, <3>1
  <2>2. CASE s \notin Registered
    <3>1. Cardinality(Registered \cup {s}) = Cardinality(Registered) + 1
      BY <1>2, <2>2, FS_AddElement
    <3>. QED BY <1>2, <3>1
  <2>. QED BY <2>1, <2>2
<1>4. /\ Cardinality(Registered') <= Cardinality(Registered \cup {s})
      /\ Cardinality(Registered') \in Nat /\ Cardinality(Registered \cup {s}) \in Nat
  BY <1>1, Sizes
<1>. QED BY <1>2, <1>3, <1>4 DEF Count

\* Registers are made by the accepts and dropped by the end of a task.
LEMMA NextCount ==
  ASSUME TypeOK
  PROVE  /\ \A s \in Streams :
              /\ ServerAccept(s) \/ ClientAccept(s) => Registered' \subseteq Registered \cup {s}
              /\ Open(s) \/ StreamFreed(s) \/ TaskEnds(s) => Registered' \subseteq Registered
              /\ Load(s) \/ Compare(s) \/ Store(s) \/ Set(s) => Registered' = Registered
         /\ ClientCheck \/ SelectOther \/ UNCHANGED vars => Registered' = Registered
<1>1. ASSUME NEW s \in Streams, ServerAccept(s) \/ ClientAccept(s)
      PROVE  Registered' \subseteq Registered \cup {s}
  BY <1>1 DEF ServerAccept, ClientAccept, Registered, TypeOK
<1>2. ASSUME NEW s \in Streams, Open(s) \/ StreamFreed(s) \/ TaskEnds(s)
      PROVE  Registered' \subseteq Registered
  BY <1>2 DEF Open, StreamFreed, TaskEnds, Registered, TypeOK
<1>3. ASSUME NEW s \in Streams, Load(s) \/ Compare(s) \/ Store(s) \/ Set(s)
      PROVE  Registered' = Registered
  <2>1. /\ pc[s] \in Checking /\ pc'[s] \in Checking \cup {"running"}
        /\ \A t \in Streams \ {s} : pc'[t] = pc[t]
    BY <1>3 DEF Load, Compare, Store, Set, GoOn, TypeOK
  <2>. QED BY <2>1 DEF Registered
<1>4. ASSUME ClientCheck \/ SelectOther \/ UNCHANGED vars PROVE Registered' = Registered
  BY <1>4 DEF ClientCheck, SelectOther, vars, Registered
<1>. QED BY <1>1, <1>2, <1>3, <1>4
-----------------------------------------------------------------------------
(* The client *)

LEMMA NextClient ==
  TypeOK /\ ClientKeepsUp /\ [Next]_vars => ClientKeepsUp'
<1>. SUFFICES ASSUME TypeOK, ClientKeepsUp, [Next]_vars, side' = "client" PROVE ClientKeepsUp'
  BY DEF ClientKeepsUp
<1>. USE CountType
<1>0. side = "client"
  BY DEF Next, vars, Open, StreamFreed, TaskEnds, ServerAccept, Load, Compare, Store, Set,
         ClientAccept, ClientCheck, SelectOther
<1>1. ASSUME NEW s \in Streams, Open(s) \/ StreamFreed(s) \/ TaskEnds(s) PROVE ClientKeepsUp'
  <2>1. Count' <= Count
    BY <1>1, NextCount, CountFalls
  <2>2. UNCHANGED <<side, limit, max, loop, missed, lowered>>
    BY <1>1 DEF Open, StreamFreed, TaskEnds
  <2>3. \A t \in Streams : pc'[t] \notin Checking
    BY <1>0, <1>1 DEF Open, StreamFreed, TaskEnds, TypeOK, ClientKeepsUp
  <2>4. max \in Nat
    BY DEF TypeOK
  <2>5. Count' <= max' /\ (loop' = "accept" => Count' < max')
    BY <1>0, <2>1, <2>2, <2>4 DEF ClientKeepsUp
  <2>. QED BY <1>0, <2>2, <2>3, <2>5 DEF ClientKeepsUp
<1>2. ASSUME NEW s \in Streams, ServerAccept(s) \/ Load(s) \/ Compare(s) \/ Store(s) \/ Set(s)
      PROVE  ClientKeepsUp'
  BY <1>0, <1>2 DEF ClientKeepsUp, ServerAccept, Load, Compare, Store, Set
<1>3. ASSUME NEW s \in Streams, ClientAccept(s) PROVE ClientKeepsUp'
  <2>1. Count' <= Count + 1
    BY <1>3, NextCount, CountRises
  <2>2. UNCHANGED <<side, limit, max, missed, lowered>> /\ loop = "accept" /\ loop' = "check"
    BY <1>3 DEF ClientAccept
  <2>3. \A t \in Streams : pc'[t] \notin Checking
    BY <1>0, <1>3 DEF ClientAccept, TypeOK, ClientKeepsUp
  <2>4. max \in Nat
    BY DEF TypeOK
  <2>5. Count' <= max'
    BY <1>0, <2>1, <2>2, <2>4 DEF ClientKeepsUp
  <2>. QED BY <1>0, <2>2, <2>3, <2>5 DEF ClientKeepsUp
<1>4. CASE ClientCheck
  <2>1. Count' = Count
    BY <1>4, NextCount DEF Count
  <2>2. max \in Nat /\ max > 0 /\ Count <= max /\ limit = max
    BY <1>0 DEF TypeOK, ClientKeepsUp
  <2>3. UNCHANGED <<side, pc>> /\ loop' = "accept"
    BY <1>4 DEF ClientCheck
  <2>4. limit' = max' /\ Count' < max' /\ Count' <= max'
    BY <1>4, <2>1, <2>2 DEF ClientCheck, SetLimit
  <2>5. ~missed' /\ ~lowered'
    <3>1. ~(Count > max) /\ ~(2 * max < limit) /\ ~missed /\ ~lowered
      BY <1>0, <2>2 DEF ClientKeepsUp
    <3>. QED BY <1>4, <3>1, Zenon DEF ClientCheck, SetLimit
  <2>6. \A t \in Streams : pc'[t] \notin Checking
    BY <1>0, <2>3 DEF ClientKeepsUp
  <2>. QED BY <1>0, <2>3, <2>4, <2>5, <2>6, Zenon DEF ClientKeepsUp
<1>5. CASE SelectOther \/ UNCHANGED vars
  <2>1. Count' = Count
    BY <1>5, NextCount DEF Count
  <2>. QED BY <1>5, <2>1 DEF SelectOther, vars, ClientKeepsUp
<1>. QED BY <1>1, <1>2, <1>3, <1>4, <1>5 DEF Next
-----------------------------------------------------------------------------
(* The server: what misses and lowered limits come from *)

LEMMA NextHandled == TypeOK /\ HandledAreOpen /\ [Next]_vars => HandledAreOpen'
<1>. SUFFICES ASSUME TypeOK, HandledAreOpen, [Next]_vars PROVE HandledAreOpen'
  OBVIOUS
<1>1. ASSUME NEW s \in Streams, Open(s) \/ StreamFreed(s) \/ TaskEnds(s) PROVE HandledAreOpen'
  BY <1>1 DEF Open, StreamFreed, TaskEnds, HandledAreOpen, TypeOK
<1>2. ASSUME NEW s \in Streams,
             \/ ServerAccept(s) \/ Load(s) \/ Compare(s) \/ Store(s) \/ Set(s) \/ ClientAccept(s)
      PROVE  HandledAreOpen'
  <2>1. /\ pc[s] # "none" /\ UNCHANGED <<open, outlived>>
        /\ \A t \in Streams \ {s} : pc'[t] = pc[t]
    BY <1>2 DEF ServerAccept, Load, Compare, Store, Set, GoOn, ClientAccept, TypeOK
  <2>. QED BY <2>1 DEF HandledAreOpen
<1>3. CASE ClientCheck \/ SelectOther \/ UNCHANGED vars
  BY <1>3 DEF ClientCheck, SelectOther, vars, HandledAreOpen
<1>. QED BY <1>1, <1>2, <1>3 DEF Next

\* While streams outlive their Registers, the limit bounds the Registers too.
LEMMA CountInLimit ==
  TypeOK /\ HandledAreOpen /\ LimitFollowsMax /\ ~stale /\ ~outlived => Count <= max
<1>. SUFFICES ASSUME TypeOK, HandledAreOpen, LimitFollowsMax, ~stale, ~outlived PROVE Count <= max
  OBVIOUS
<1>1. Registered \subseteq open /\ open \subseteq Streams
  BY DEF Registered, HandledAreOpen, TypeOK
<1>2. Count <= Cardinality(open) /\ Count \in Nat /\ Cardinality(open) \in Nat
  BY <1>1, Sizes DEF Count
<1>3. Cardinality(open) <= limit /\ limit <= max
  BY DEF LimitFollowsMax
<1>4. limit \in Nat /\ max \in Nat
  BY DEF TypeOK
<1>. QED BY <1>2, <1>3, <1>4

\* A task whose maximum is the current one neither misses nor lowers the limit.
LEMMA NextFollows ==
  TypeOK /\ HandledAreOpen /\ LimitFollowsMax /\ ClientKeepsUp /\ [Next]_vars => LimitFollowsMax'
<1>. SUFFICES ASSUME TypeOK, HandledAreOpen, LimitFollowsMax, ClientKeepsUp, [Next]_vars, ~stale'
              PROVE  LimitFollowsMax'
  BY DEF LimitFollowsMax
<1>. USE CountType
<1>t. limit \in Nat /\ max \in Nat /\ seen \in [Streams -> Nat] /\ open \subseteq Streams
  BY DEF TypeOK
<1>c. IsFiniteSet(open) /\ Cardinality(open) \in Nat
  BY <1>t, Sizes
<1>s. ~stale
  <2>1. stale => stale'
    BY Zenon DEF Next, vars, Open, StreamFreed, TaskEnds, ServerAccept, Load, Compare, Store, Set,
                 ClientAccept, ClientCheck, SelectOther
  <2>. QED BY <2>1
<1>i. limit <= max /\ Cardinality(open) <= limit /\ ~lowered /\ (~outlived => ~missed)
  BY <1>s DEF LimitFollowsMax
<1>1. ASSUME NEW s \in Streams, Open(s) PROVE LimitFollowsMax'
  <2>1. Cardinality(open') <= limit
    <3>1. open' = open \cup {s} /\ s \notin open /\ Cardinality(open) < limit
      BY <1>1 DEF Open
    <3>2. Cardinality(open') = Cardinality(open) + 1
      BY <1>c, <3>1, FS_AddElement
    <3>. QED BY <1>c, <1>t, <3>1, <3>2
  <2>. QED BY <1>1, <1>i, <2>1 DEF Open, LimitFollowsMax
<1>2. ASSUME NEW s \in Streams, StreamFreed(s) PROVE LimitFollowsMax'
  <2>1. Cardinality(open') <= Cardinality(open) /\ Cardinality(open') \in Nat
    <3>1. open' \subseteq open
      BY <1>2 DEF StreamFreed
    <3>. QED BY <1>t, <3>1, Sizes
  <2>2. UNCHANGED <<limit, max, lowered, missed>> /\ (~outlived' => ~outlived)
    BY <1>2, Zenon DEF StreamFreed
  <2>3. Cardinality(open') <= limit
    BY <1>c, <1>t, <1>i, <2>1
  <2>. QED BY <1>i, <2>2, <2>3 DEF LimitFollowsMax
<1>3. ASSUME NEW s \in Streams, TaskEnds(s) \/ ServerAccept(s) \/ Load(s) \/ ClientAccept(s)
      PROVE  LimitFollowsMax'
  BY <1>3, <1>i DEF TaskEnds, ServerAccept, Load, ClientAccept, LimitFollowsMax
<1>4. ASSUME NEW s \in Streams, Compare(s) PROVE LimitFollowsMax'
  <2>1. UNCHANGED <<open, limit, max, lowered, outlived>>
    BY <1>4 DEF Compare
  <2>2. seen[s] = max
    BY <1>4, Zenon DEF Compare
  <2>3. ASSUME ~outlived PROVE ~missed'
    <3>1. ~(Count > seen[s])
      BY <1>s, <1>t, <2>2, <2>3, CountInLimit
    <3>. QED BY <1>4, <1>i, <2>3, <3>1, Zenon DEF Compare
  <2>. QED BY <1>i, <2>1, <2>3 DEF LimitFollowsMax
<1>5. ASSUME NEW s \in Streams, Store(s) PROVE LimitFollowsMax'
  <2>1. UNCHANGED <<open, limit, lowered, missed, outlived>> /\ max' = 2 * seen[s]
    BY <1>5 DEF Store
  <2>2. seen[s] = max
    BY <1>5, Zenon DEF Store
  <2>3. limit' <= max'
    BY <1>i, <1>t, <2>1, <2>2
  <2>. QED BY <1>i, <2>1, <2>3 DEF LimitFollowsMax
<1>6. ASSUME NEW s \in Streams, Set(s) PROVE LimitFollowsMax'
  <2>1. UNCHANGED <<open, max, missed, outlived>> /\ limit' = 2 * seen[s]
    BY <1>6 DEF Set, SetLimit
  <2>2. 2 * seen[s] = max
    BY <1>6, Zenon DEF Set
  <2>3. limit' <= max' /\ Cardinality(open') <= limit'
    BY <1>c, <1>i, <1>t, <2>1, <2>2
  <2>4. ~(2 * seen[s] < limit)
    BY <1>i, <1>t, <2>2
  <2>5. ~lowered'
    BY <1>6, <1>i, <2>4, Zenon DEF Set, SetLimit
  <2>. QED BY <1>i, <2>1, <2>3, <2>5 DEF LimitFollowsMax
<1>7. CASE ClientCheck
  <2>1. ClientKeepsUp'
    BY NextClient
  <2>2. side' = "client" /\ UNCHANGED <<open, outlived>>
    BY <1>7 DEF ClientCheck
  <2>3. limit' = max' /\ ~missed' /\ ~lowered'
    BY <2>1, <2>2 DEF ClientKeepsUp
  <2>4. max' \in Nat /\ max' >= limit
    BY <1>7, <1>i, <1>t DEF ClientCheck
  <2>5. limit' <= max' /\ Cardinality(open') <= limit'
    BY <1>c, <1>i, <1>t, <2>2, <2>3, <2>4
  <2>. QED BY <2>3, <2>5 DEF LimitFollowsMax
<1>8. CASE SelectOther \/ UNCHANGED vars
  BY <1>8, <1>i DEF SelectOther, vars, LimitFollowsMax
<1>. QED BY <1>1, <1>2, <1>3, <1>4, <1>5, <1>6, <1>7, <1>8 DEF Next
-----------------------------------------------------------------------------
(* The server: what makes the limit grow *)

\* A maximum that was announced, or is about to be, stays so.
LEMMA NextAnnounced ==
  ASSUME TypeOK, [Next]_vars, ~lowered', NEW n \in Nat, Announced(n)
  PROVE  Announced(n)'
<1>t. limit \in Nat /\ seen \in [Streams -> Nat] /\ max \in Nat
  BY DEF TypeOK
<1>1. CASE n <= limit
  <2>1. limit <= limit' /\ limit' \in Nat
    <3>1. ASSUME NEW s \in Streams, Set(s) PROVE limit <= limit' /\ limit' \in Nat
      <4>1. ~(2 * seen[s] < limit) /\ limit' = 2 * seen[s]
        BY <3>1, Zenon DEF Set, SetLimit
      <4>. QED BY <1>t, <4>1
    <3>2. CASE ClientCheck
      <4>1. limit' = limit \/ (~(2 * max < limit) /\ limit' = 2 * max)
        BY <3>2, Zenon DEF ClientCheck, SetLimit
      <4>. QED BY <1>t, <4>1
    <3>3. CASE ~ClientCheck /\ ~\E s \in Streams : Set(s)
      <4>1. limit' = limit
        BY <3>3 DEF Next, vars, Open, StreamFreed, TaskEnds, ServerAccept, Load, Compare, Store,
                    ClientAccept, SelectOther
      <4>. QED BY <1>t, <4>1
    <3>. QED BY <3>1, <3>2, <3>3
  <2>. QED BY <1>t, <1>1, <2>1 DEF Announced
<1>2. ASSUME NEW t \in Streams, pc[t] = "setting", n <= 2 * seen[t] PROVE Announced(n)'
  <2>1. CASE Set(t)
    BY <1>2, <2>1 DEF Set, SetLimit, Announced
  <2>2. CASE ~Set(t)
    <3>1. pc'[t] = "setting" /\ seen'[t] = seen[t]
      <4>1. ASSUME NEW s \in Streams,
                   \/ Open(s) \/ StreamFreed(s) \/ TaskEnds(s) \/ ServerAccept(s) \/ Load(s)
                   \/ Compare(s) \/ Store(s) \/ ClientAccept(s)
            PROVE  pc'[t] = "setting" /\ seen'[t] = seen[t]
        BY <1>2, <4>1 DEF Open, StreamFreed, TaskEnds, ServerAccept, Load, Compare, Store, GoOn,
                          ClientAccept, TypeOK
      <4>2. ASSUME NEW s \in Streams \ {t}, Set(s) PROVE pc'[t] = "setting" /\ seen'[t] = seen[t]
        BY <1>2, <4>2 DEF Set, GoOn, TypeOK
      <4>3. CASE ClientCheck \/ SelectOther \/ UNCHANGED vars
        BY <1>2, <4>3 DEF ClientCheck, SelectOther, vars
      <4>. QED BY <2>2, <4>1, <4>2, <4>3 DEF Next
    <3>. QED BY <1>2, <3>1 DEF Announced
  <2>. QED BY <2>1, <2>2
<1>. QED BY <1>1, <1>2 DEF Announced

LEMMA LoweredStays == [Next]_vars => (lowered => lowered')
  BY Zenon DEF Next, vars, Open, StreamFreed, TaskEnds, ServerAccept, Load, Compare, Store, Set,
               SetLimit, ClientAccept, ClientCheck, SelectOther

LEMMA MissedStays == [Next]_vars => (missed => missed')
  BY Zenon DEF Next, vars, Open, StreamFreed, TaskEnds, ServerAccept, Load, Compare, Store, Set,
               ClientAccept, ClientCheck, SelectOther

LEMMA NextMaxima ==
  TypeOK /\ ClientKeepsUp /\ MaximaAreAnnounced /\ [Next]_vars => MaximaAreAnnounced'
<1>. SUFFICES ASSUME TypeOK, ClientKeepsUp, MaximaAreAnnounced, [Next]_vars, ~lowered'
              PROVE  MaximaAreAnnounced'
  BY DEF MaximaAreAnnounced
<1>t. limit \in Nat /\ seen \in [Streams -> Nat] /\ max \in Nat
  BY DEF TypeOK
<1>i. Announced(max) /\ \A s \in Streams : pc[s] = "loaded" => Announced(seen[s])
  BY LoweredStays DEF MaximaAreAnnounced
<1>j. Announced(max)' \/ max' # max
  <2>1. ASSUME max' = max PROVE Announced(max)'
    <3>1. PICK n \in Nat : n = max
      BY <1>t
    <3>2. Announced(n)'
      BY <1>i, <3>1, NextAnnounced
    <3>. QED BY <2>1, <3>1, <3>2
  <2>. QED BY <2>1
<1>k. \A s \in Streams : pc[s] = "loaded" /\ seen'[s] = seen[s] => Announced(seen[s])'
  <2>1. ASSUME NEW s \in Streams, pc[s] = "loaded", seen'[s] = seen[s] PROVE Announced(seen[s])'
    <3>1. PICK n \in Nat : n = seen[s]
      BY <1>t
    <3>2. Announced(n)'
      BY <1>i, <2>1, <3>1, NextAnnounced
    <3>. QED BY <2>1, <3>1, <3>2
  <2>. QED BY <2>1
<1>1. ASSUME NEW s \in Streams, Load(s) PROVE MaximaAreAnnounced'
  <2>1. max' = max /\ seen' = [seen EXCEPT ![s] = max] /\ pc' = [pc EXCEPT ![s] = "loaded"]
    BY <1>1 DEF Load
  <2>2. ASSUME NEW t \in Streams, pc'[t] = "loaded" PROVE Announced(seen[t])'
    <3>1. CASE t = s
      <4>1. seen'[t] = max'
        BY <1>t, <2>1, <3>1
      <4>. QED BY <1>j, <2>1, <4>1
    <3>2. CASE t # s
      BY <1>k, <1>t, <2>1, <2>2, <3>2 DEF TypeOK
    <3>. QED BY <3>1, <3>2
  <2>. QED BY <1>j, <2>1, <2>2 DEF MaximaAreAnnounced
<1>2. ASSUME NEW s \in Streams, Compare(s) \/ Set(s) PROVE MaximaAreAnnounced'
  <2>1. max' = max /\ \A t \in Streams : pc'[t] = "loaded" => pc[t] = "loaded" /\ seen'[t] = seen[t]
    BY <1>2 DEF Compare, Set, GoOn, TypeOK
  <2>. QED BY <1>j, <1>k, <2>1 DEF MaximaAreAnnounced
<1>3. ASSUME NEW s \in Streams, Store(s) PROVE MaximaAreAnnounced'
  <2>1. seen' = seen /\ \A t \in Streams : pc'[t] = "loaded" => pc[t] = "loaded"
    BY <1>3 DEF Store, TypeOK
  <2>2. pc'[s] = "setting" /\ max' <= 2 * seen'[s]
    BY <1>3, <1>t DEF Store, TypeOK
  <2>. QED BY <1>k, <2>1, <2>2 DEF MaximaAreAnnounced, Announced
<1>4. ASSUME NEW s \in Streams,
             Open(s) \/ StreamFreed(s) \/ TaskEnds(s) \/ ServerAccept(s) \/ ClientAccept(s)
      PROVE  MaximaAreAnnounced'
  <2>1. max' = max /\ seen' = seen /\ \A t \in Streams : pc'[t] = "loaded" => pc[t] = "loaded"
    BY <1>4 DEF Open, StreamFreed, TaskEnds, ServerAccept, ClientAccept, TypeOK
  <2>. QED BY <1>j, <1>k, <2>1 DEF MaximaAreAnnounced
<1>5. CASE ClientCheck
  <2>1. ClientKeepsUp' /\ side' = "client" /\ pc' = pc /\ seen' = seen
    BY <1>5, NextClient DEF ClientCheck
  <2>2. max' = limit' /\ max' \in Nat
    BY <1>5, <1>t, <2>1 DEF ClientKeepsUp, ClientCheck
  <2>. QED BY <1>k, <2>1, <2>2 DEF MaximaAreAnnounced, Announced
<1>6. CASE SelectOther \/ UNCHANGED vars
  <2>1. max' = max /\ seen' = seen /\ pc' = pc
    BY <1>6 DEF SelectOther, vars
  <2>. QED BY <1>j, <1>k, <2>1 DEF MaximaAreAnnounced
<1>. QED BY <1>1, <1>2, <1>3, <1>4, <1>5, <1>6 DEF Next

\* A task that stores or sets keeps its maximum until it is over.
LEMMA NextChecks ==
  /\ TypeOK /\ SeenIsMax /\ MaximaAreAnnounced /\ SomeoneChecks /\ [Next]_vars
  => SomeoneChecks'
<1>. SUFFICES ASSUME TypeOK, SeenIsMax, MaximaAreAnnounced, SomeoneChecks, [Next]_vars,
                     ~missed', ~lowered', side' # "client"
              PROVE  SomeoneChecks'
  BY DEF SomeoneChecks
<1>. USE CountType
<1>t. limit \in Nat /\ seen \in [Streams -> Nat] /\ max \in Nat
  BY DEF TypeOK
<1>s. side # "client"
  BY DEF Next, vars, Open, StreamFreed, TaskEnds, ServerAccept, Load, Compare, Store, Set,
         ClientAccept, ClientCheck, SelectOther
<1>h. ~missed /\ ~lowered
  BY MissedStays, LoweredStays
<1>i. \/ Count < limit
      \/ \E t \in Streams : pc[t] \in {"spawned", "loaded"}
      \/ \E t \in Streams : pc[t] \in {"storing", "setting"} /\ Count < 2 * seen[t]
  BY <1>h, <1>s DEF SomeoneChecks
<1>1. ASSUME NEW s \in Streams, Open(s) \/ StreamFreed(s) \/ TaskEnds(s) PROVE SomeoneChecks'
  <2>1. Count' <= Count
    BY <1>1, NextCount, CountFalls
  <2>2. UNCHANGED <<limit, seen>>
    BY <1>1 DEF Open, StreamFreed, TaskEnds
  <2>3. \A t \in Streams : pc[t] \in Checking => pc'[t] = pc[t]
    BY <1>1 DEF Open, StreamFreed, TaskEnds, TypeOK
  <2>4. CASE Count < limit
    BY <1>t, <2>1, <2>2, <2>4 DEF SomeoneChecks
  <2>5. CASE \E t \in Streams : pc[t] \in {"spawned", "loaded"}
    BY <2>3, <2>5 DEF SomeoneChecks
  <2>6. ASSUME NEW t \in Streams, pc[t] \in {"storing", "setting"}, Count < 2 * seen[t]
        PROVE  SomeoneChecks'
    <3>1. Count' < 2 * seen'[t] /\ pc'[t] \in {"storing", "setting"}
      BY <1>t, <2>1, <2>2, <2>3, <2>6
    <3>. QED BY <3>1 DEF SomeoneChecks
  <2>. QED BY <1>i, <2>4, <2>5, <2>6
<1>2. ASSUME NEW s \in Streams, ServerAccept(s) \/ Load(s) PROVE SomeoneChecks'
  BY <1>2 DEF ServerAccept, Load, TypeOK, SomeoneChecks
<1>3. ASSUME NEW s \in Streams, Compare(s) PROVE SomeoneChecks'
  <2>1. Count' = Count /\ limit' = limit
    BY <1>3, NextCount DEF Count, Compare
  <2>2. pc[s] = "loaded" /\ ~(Count > seen[s]) /\ seen[s] > 0
    BY <1>3, Zenon DEF Compare, SeenIsMax
  <2>3. CASE Count = seen[s]
    <3>1. pc'[s] = "storing" /\ seen'[s] = seen[s]
      BY <1>3, <2>3 DEF Compare, TypeOK
    <3>2. Count' < 2 * seen'[s]
      BY <1>t, <2>1, <2>2, <2>3, <3>1
    <3>. QED BY <3>1, <3>2 DEF SomeoneChecks
  <2>4. CASE Count # seen[s]
    <3>1. Count < seen[s]
      BY <1>t, <2>2, <2>4
    <3>2. Announced(seen[s])
      BY <1>h, <2>2 DEF MaximaAreAnnounced
    <3>3. CASE seen[s] <= limit
      BY <1>t, <2>1, <3>1, <3>3 DEF SomeoneChecks
    <3>4. ASSUME NEW t \in Streams, pc[t] = "setting", seen[s] <= 2 * seen[t] PROVE SomeoneChecks'
      <4>1. pc'[t] = "setting" /\ seen'[t] = seen[t]
        BY <1>3, <2>2, <2>4, <3>4 DEF Compare, GoOn, TypeOK
      <4>2. Count' < 2 * seen'[t]
        BY <1>t, <2>1, <3>1, <3>4, <4>1
      <4>. QED BY <4>1, <4>2 DEF SomeoneChecks
    <3>. QED BY <3>2, <3>3, <3>4 DEF Announced
  <2>. QED BY <2>3, <2>4
<1>4. ASSUME NEW s \in Streams, Store(s) PROVE SomeoneChecks'
  <2>1. Count' = Count /\ limit' = limit /\ seen' = seen
    BY <1>4, NextCount DEF Count, Store
  <2>2. \A t \in Streams : /\ pc[t] \in {"spawned", "loaded"} => pc'[t] = pc[t]
                           /\ pc[t] \in {"storing", "setting"} => pc'[t] \in {"storing", "setting"}
    BY <1>4 DEF Store, TypeOK
  <2>3. CASE Count < limit
    BY <2>1, <2>3 DEF SomeoneChecks
  <2>4. CASE \E t \in Streams : pc[t] \in {"spawned", "loaded"}
    BY <2>2, <2>4 DEF SomeoneChecks
  <2>5. CASE \E t \in Streams : pc[t] \in {"storing", "setting"} /\ Count < 2 * seen[t]
    BY <2>1, <2>2, <2>5 DEF SomeoneChecks
  <2>. QED BY <1>i, <2>3, <2>4, <2>5
<1>5. ASSUME NEW s \in Streams, Set(s) PROVE SomeoneChecks'
  <2>1. Count' = Count /\ limit' = 2 * seen[s] /\ ~(2 * seen[s] < limit)
    <3>1. Count' = Count
      BY <1>5, NextCount DEF Count
    <3>. QED BY <1>5, <3>1, Zenon DEF Set, SetLimit
  <2>2. \A t \in Streams \ {s} : pc'[t] = pc[t] /\ seen'[t] = seen[t]
    BY <1>5 DEF Set, GoOn, TypeOK
  <2>3. CASE Count < limit
    BY <1>t, <2>1, <2>3 DEF SomeoneChecks
  <2>4. CASE \E t \in Streams : pc[t] \in {"spawned", "loaded"}
    <3>1. pc[s] = "setting"
      BY <1>5 DEF Set
    <3>. QED BY <2>2, <2>4, <3>1 DEF SomeoneChecks
  <2>5. ASSUME NEW t \in Streams, pc[t] \in {"storing", "setting"}, Count < 2 * seen[t]
        PROVE  SomeoneChecks'
    <3>1. CASE t = s
      BY <2>1, <2>5, <3>1 DEF SomeoneChecks
    <3>2. CASE t # s
      BY <2>1, <2>2, <2>5, <3>2 DEF SomeoneChecks
    <3>. QED BY <3>1, <3>2
  <2>. QED BY <1>i, <2>3, <2>4, <2>5
<1>6. ASSUME ClientCheck \/ SelectOther \/ (\E s \in Streams : ClientAccept(s)) PROVE SomeoneChecks'
  BY <1>s, <1>6 DEF ClientCheck, SelectOther, ClientAccept
<1>7. CASE UNCHANGED vars
  <2>1. Count' = Count
    BY <1>7, NextCount DEF Count
  <2>. QED BY <1>i, <1>7, <2>1 DEF vars, SomeoneChecks
<1>. QED BY <1>1, <1>2, <1>3, <1>4, <1>5, <1>6, <1>7 DEF Next
-----------------------------------------------------------------------------
(* Theorems *)

\* The inductive invariant: the client's loop, the server's tasks and the limit.
THEOREM Inductive == Spec => []IndInv
<1>1. Init => IndInv
  <2>. SUFFICES ASSUME Init PROVE IndInv
    OBVIOUS
  <2>1. Registered = {} /\ Count = 0 /\ Cardinality(open) = 0
    <3>1. Registered = {}
      BY DEF Init, Registered
    <3>. QED BY <3>1, FS_EmptySet DEF Init, Count
  <2>2. limit = max /\ limit \in Nat /\ limit > 0
    BY InitStreamsAssumption DEF Init
  <2>3. \A s \in Streams : pc[s] = "none"
    BY DEF Init
  <2>4. ~missed /\ ~lowered
    BY DEF Init
  <2>5. SeenIsMax /\ HandledAreOpen
    BY <2>3 DEF SeenIsMax, HandledAreOpen
  <2>6. ClientKeepsUp /\ SomeoneChecks
    BY <2>1, <2>2, <2>3, <2>4 DEF ClientKeepsUp, SomeoneChecks
  <2>7. LimitFollowsMax /\ MaximaAreAnnounced
    BY <2>1, <2>2, <2>3, <2>4 DEF LimitFollowsMax, MaximaAreAnnounced, Announced
  <2>. QED BY <2>5, <2>6, <2>7, InitTypeOK DEF IndInv
<1>2. IndInv /\ [Next]_vars => IndInv'
  BY NextTypes, NextClient, NextHandled, NextFollows, NextMaxima, NextChecks DEF IndInv
<1>. QED BY <1>1, <1>2, PTL DEF Spec

\* A count beyond its maximum and a limit that falls are the server's, and come from a
\* Register that outlives its stream or from a maximum that another task replaced; the
\* client's loop has neither.
THEOREM MissesAreExplained == Spec => []MissesHaveCauses
<1>1. IndInv => MissesHaveCauses
  <2>. SUFFICES ASSUME IndInv PROVE MissesHaveCauses
    OBVIOUS
  <2>1. side = "client" => Count <= max /\ limit = max /\ ~missed /\ ~lowered
    BY DEF IndInv, ClientKeepsUp
  <2>2. ~stale /\ ~outlived => ~missed /\ ~lowered
    BY Zenon DEF IndInv, LimitFollowsMax
  <2>3. side \in {"server", "client"}
    BY DEF IndInv, TypeOK
  <2>. QED BY <2>1, <2>2, <2>3, Zenon DEF MissesHaveCauses
<1>. QED BY <1>1, Inductive, PTL

\* When no check misses and no limit falls, a peer never comes to rest with all the
\* streams it may have in use.
THEOREM LimitAlwaysGrows == Spec => []LimitGrows
<1>1. IndInv => LimitGrows
  <2>. SUFFICES ASSUME IndInv, Exhausted, ~missed, ~lowered PROVE FALSE
    BY Zenon DEF LimitGrows
  <2>t. limit \in Nat /\ max \in Nat /\ open \subseteq Streams
    BY DEF IndInv, TypeOK
  <2>1. open \subseteq Registered /\ Registered \subseteq Streams
    BY <2>t DEF Exhausted, Registered
  <2>2. Cardinality(open) <= Count /\ Count \in Nat /\ Cardinality(open) \in Nat
    BY <2>1, Sizes DEF Count
  <2>3. Count < limit
    <3>1. CASE side = "client"
      BY <3>1 DEF IndInv, ClientKeepsUp, Exhausted
    <3>2. CASE side # "client"
      <4>1. \A t \in Streams : pc[t] \notin Checking
        BY DEF Exhausted
      <4>. QED BY <3>2, <4>1 DEF IndInv, SomeoneChecks
    <3>. QED BY <3>1, <3>2
  <2>. QED BY <2>t, <2>2, <2>3 DEF Exhausted
<1>. QED BY <1>1, Inductive, PTL
=============================================================================
