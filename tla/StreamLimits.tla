---------------------------- MODULE StreamLimits ----------------------------
(***************************************************************************)
(* How many streams of one kind a peer may have open at once. Both ends    *)
(* start with a small limit and double it when the number of Registers, one *)
(* for each stream being handled, equals the maximum they remember. The     *)
(* server does so in the task of each stream, on a runtime of several       *)
(* threads; the client in its accept loop, before each accept. Uni- and     *)
(* bidirectional streams have a counter, a maximum and a limit each, and    *)
(* the same code: this module is one of the two kinds at one of the ends.   *)
(***************************************************************************)
EXTENDS Integers, FiniteSets

CONSTANTS
  Streams,          \* bound: streams that exist at a time
  InitStreams       \* INIT_CONCURRENT_STREAMS, DEFAULT_CONCURRENT_STREAMS

ASSUME StreamsAssumption == IsFiniteSet(Streams)
ASSUME InitStreamsAssumption == InitStreams \in Nat \ {0}

VARIABLES
  side,             \* the end that accepts: "server" or "client"
  open,             \* streams that quinn counts against the limit
  limit,            \* the number of streams that quinn lets the peer have
  pc,               \* where the handling of each stream is
  seen,             \* the local variable max of each stream's task
  max,              \* max_concurrent_uni_streams or max_concurrent_bi_streams
  loop,             \* the client's accept loop: before or after its check
  missed,           \* history: a check found more Registers than its maximum
  lowered,          \* history: a limit was replaced by a smaller one
  outlived,         \* history: a Register was kept longer than its stream
  stale             \* history: a task used a maximum that was another's by then

vars == <<side, open, limit, pc, seen, max, loop, missed, lowered, outlived, stale>>

\* A task is spawned, has loaded max, has found count = max, has stored the
\* double, and goes on with the stream.
Checking == {"spawned", "loaded", "storing", "setting"}
Steps == {"none", "opened", "running"} \cup Checking

\* remote_uni_stream_cnt, remote_bi_stream_cnt: the Registers that are held.
Registered == {s \in Streams : pc[s] \in Checking \cup {"running"}}
Count == Cardinality(Registered)

Init ==
  /\ side \in {"server", "client"}
  /\ open = {}
  /\ limit = InitStreams
  /\ pc = [s \in Streams |-> "none"]
  /\ seen = [s \in Streams |-> 0]
  /\ max = InitStreams
  /\ loop = "check"
  /\ missed = FALSE
  /\ lowered = FALSE
  /\ outlived = FALSE
  /\ stale = FALSE

-----------------------------------------------------------------------------
(* quinn and the peer *)

\* The peer opens a stream, which waits to be accepted.
Open(s) ==
  /\ pc[s] = "none" /\ s \notin open
  /\ Cardinality(open) < limit
  /\ open' = open \cup {s}
  /\ pc' = [pc EXCEPT ![s] = "opened"]
  /\ UNCHANGED <<side, limit, seen, max, loop, missed, lowered, outlived, stale>>

\* Both ends have closed the stream. A task may still be at work on what it
\* read: it resolves a name, shuts the TCP stream, sends to the application.
StreamFreed(s) ==
  /\ s \in open
  /\ pc[s] \in {"running", "none"}
  /\ open' = open \ {s}
  /\ outlived' = (outlived \/ pc[s] = "running")
  /\ UNCHANGED <<side, limit, pc, seen, max, loop, missed, lowered, stale>>

\* The task is over and drops its Register. quinn may still wait for the peer.
TaskEnds(s) ==
  /\ pc[s] = "running"
  /\ pc' = [pc EXCEPT ![s] = "none"]
  /\ UNCHANGED <<side, open, limit, seen, max, loop, missed, lowered, outlived, stale>>

\* set_max_concurrent_uni_streams, set_max_concurrent_bi_streams.
SetLimit(n) ==
  /\ limit' = n
  /\ lowered' = (lowered \/ n < limit)

-----------------------------------------------------------------------------
(* Server: handle_uni_stream and handle_bi_stream *)

\* The loop of Connection::handle: the Register is made before the task runs.
ServerAccept(s) ==
  /\ side = "server"
  /\ pc[s] = "opened"
  /\ pc' = [pc EXCEPT ![s] = "spawned"]
  /\ UNCHANGED <<side, open, limit, seen, max, loop, missed, lowered, outlived, stale>>

Load(s) ==
  /\ pc[s] = "spawned"
  /\ seen' = [seen EXCEPT ![s] = max]
  /\ pc' = [pc EXCEPT ![s] = "loaded"]
  /\ UNCHANGED <<side, open, limit, max, loop, missed, lowered, outlived, stale>>

\* The check is over, and with it the use of the local variable.
GoOn(s) ==
  /\ pc' = [pc EXCEPT ![s] = "running"]
  /\ seen' = [seen EXCEPT ![s] = 0]

\* Faulty: the limit grows when it is passed, not when it is reached.
CompareLate(s) ==
  /\ pc[s] = "loaded"
  /\ IF Count = seen[s] + 1
       THEN pc' = [pc EXCEPT ![s] = "storing"] /\ UNCHANGED seen
       ELSE GoOn(s)
  /\ missed' = (missed \/ Count > seen[s] + 1)
  /\ stale' = (stale \/ seen[s] # max)
  /\ UNCHANGED <<side, open, limit, max, loop, lowered, outlived>>

\* count() == max
Compare(s) ==
  /\ pc[s] = "loaded"
  /\ IF Count = seen[s]
       THEN pc' = [pc EXCEPT ![s] = "storing"] /\ UNCHANGED seen
       ELSE GoOn(s)
  /\ missed' = (missed \/ Count > seen[s])
  /\ stale' = (stale \/ seen[s] # max)
  /\ UNCHANGED <<side, open, limit, max, loop, lowered, outlived>>

Store(s) ==
  /\ pc[s] = "storing"
  /\ max' = 2 * seen[s]
  /\ stale' = (stale \/ seen[s] # max)
  /\ pc' = [pc EXCEPT ![s] = "setting"]
  /\ UNCHANGED <<side, open, limit, seen, loop, missed, lowered, outlived>>

Set(s) ==
  /\ pc[s] = "setting"
  /\ SetLimit(2 * seen[s])
  /\ stale' = (stale \/ 2 * seen[s] # max)
  /\ GoOn(s)
  /\ UNCHANGED <<side, open, max, loop, missed, outlived>>

-----------------------------------------------------------------------------
(* Client: accept_uni_stream and accept_bi_stream in the loop of init *)

\* The loop is the only one that writes max, and the count can only fall while
\* it runs: load, comparison, store and the call of quinn are one step.
ClientCheck ==
  /\ side = "client"
  /\ loop = "check"
  /\ IF Count = max
       THEN /\ max' = 2 * max
            /\ SetLimit(2 * max)
       ELSE UNCHANGED <<max, limit, lowered>>
  /\ missed' = (missed \/ Count > max)
  /\ loop' = "accept"
  /\ UNCHANGED <<side, open, pc, seen, outlived, stale>>

\* Faulty: the loop keeps the future that has checked.
ClientAcceptAgain(s) ==
  /\ side = "client"
  /\ loop = "accept"
  /\ pc[s] = "opened"
  /\ pc' = [pc EXCEPT ![s] = "running"]
  /\ UNCHANGED <<side, open, limit, seen, max, loop, missed, lowered, outlived, stale>>

\* accept_uni or accept_bi yields a stream; the Register is made, its task spawned.
ClientAccept(s) ==
  /\ side = "client"
  /\ loop = "accept"
  /\ pc[s] = "opened"
  /\ pc' = [pc EXCEPT ![s] = "running"]
  /\ loop' = "check"
  /\ UNCHANGED <<side, open, limit, seen, max, missed, lowered, outlived, stale>>

\* Another branch of select! is ready: this one is dropped and made again.
SelectOther ==
  /\ side = "client"
  /\ loop = "accept"
  /\ loop' = "check"
  /\ UNCHANGED <<side, open, limit, pc, seen, max, missed, lowered, outlived, stale>>

Next ==
  \/ \E s \in Streams : \/ Open(s)
                        \/ StreamFreed(s)
                        \/ TaskEnds(s)
                        \/ ServerAccept(s)
                        \/ Load(s)
                        \/ Compare(s)
                        \/ Store(s)
                        \/ Set(s)
                        \/ ClientAccept(s)
  \/ ClientCheck
  \/ SelectOther

Spec == Init /\ [][Next]_vars

-----------------------------------------------------------------------------
(* Properties *)

\* Types of the state.
TypeOK ==
  /\ side \in {"server", "client"}
  /\ open \subseteq Streams
  /\ limit \in Nat \ {0} /\ max \in Nat \ {0}
  /\ pc \in [Streams -> Steps]
  /\ seen \in [Streams -> Nat]
  /\ loop \in {"check", "accept"}
  /\ missed \in BOOLEAN /\ lowered \in BOOLEAN
  /\ outlived \in BOOLEAN /\ stale \in BOOLEAN

\* The peer has no stream left, and nobody is about to give it one: all its
\* streams are in use, and every check that they cause has been made.
Exhausted ==
  /\ Cardinality(open) >= limit
  /\ \A s \in open : pc[s] = "running"
  /\ \A s \in Streams : pc[s] \in {"none", "running"}
  /\ side = "client" => loop = "accept"

\* A peer that uses all its streams gets more of them, as the doubling in
\* handle_uni_stream, handle_bi_stream, accept_uni_stream and accept_bi_stream
\* is meant to achieve, unless a check found the count beyond its maximum or an
\* older maximum was announced after a newer one.
LimitGrows == Exhausted => missed \/ lowered

\* Those two happen at the server only, and only when a Register is held longer
\* than its stream, so that there are more of them than the limit allows
\* streams, or when a task goes on with a maximum that another task has replaced.
\* The client's loop cannot pass its maximum: it checks before each accept.
MissesHaveCauses ==
  /\ missed \/ lowered => side = "server" /\ (outlived \/ stale)
  /\ side = "client" => Count <= max /\ limit = max

\* The inductive invariant behind these properties, in parts.

\* The local variable of a task that is checking is a maximum it has loaded:
\* without this a task could announce a limit of zero.
SeenIsMax == \A s \in Streams : pc[s] \in {"loaded", "storing", "setting"} => seen[s] > 0

\* The client's loop is the only one that checks, and never late.
ClientKeepsUp ==
  side = "client" =>
    /\ \A s \in Streams : pc[s] \notin Checking
    /\ limit = max
    /\ Count <= max
    /\ loop = "accept" => Count < max
    /\ ~missed /\ ~lowered

\* As long as streams outlive their Registers, Registers are no more than streams.
HandledAreOpen == ~outlived => \A s \in Streams : pc[s] # "none" => s \in open

\* As long as no task goes on with a maximum that was replaced, the limit is at most
\* the maximum and the peer has kept to it.
LimitFollowsMax ==
  ~stale => /\ limit <= max
            /\ Cardinality(open) <= limit
            /\ ~lowered
            /\ ~outlived => ~missed

\* A maximum is the limit already, or a task is about to announce it.
Announced(n) ==
  n <= limit \/ \E t \in Streams : pc[t] = "setting" /\ n <= 2 * seen[t]

MaximaAreAnnounced ==
  ~lowered => /\ Announced(max)
              /\ \A s \in Streams : pc[s] = "loaded" => Announced(seen[s])

\* There are fewer Registers than the limit, or a task will compare, or one is about
\* to announce a limit that is greater.
SomeoneChecks ==
  ~missed /\ ~lowered =>
    \/ Count < limit
    \/ \E t \in Streams : pc[t] \in {"spawned", "loaded"}
    \/ \E t \in Streams : pc[t] \in {"storing", "setting"} /\ Count < 2 * seen[t]
    \/ side = "client"

IndInv ==
  /\ TypeOK
  /\ SeenIsMax
  /\ ClientKeepsUp
  /\ HandledAreOpen
  /\ LimitFollowsMax
  /\ MaximaAreAnnounced
  /\ SomeoneChecks
=============================================================================
