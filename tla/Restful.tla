------------------------------- MODULE Restful -------------------------------
(***************************************************************************)
(* The life of tuic-server's connections and the accounts that restful.rs  *)
(* keeps of them: ONLINE_COUNTER, the clients of each user, and            *)
(* ONLINE_CLIENTS, the connections that /kick closes. Two tasks of each    *)
(* connection work on them, each on its own timer: timeout_authenticate    *)
(* adds the client, collect_garbage takes it away once the connection is   *)
(* closed. The table's operations are awaits; the counter's are not.       *)
(* auth_timeout and gc_interval are settings, 3 s each by default: nothing *)
(* orders the two tasks. Requests are those whose token is not refused.    *)
(***************************************************************************)
EXTENDS Integers, FiniteSets

CONSTANTS
  Conns,            \* bound: the connections made
  Users,            \* UUIDs of the users table
  OtherUuids,       \* UUIDs that a client may send and are no user's
  NilUuid,          \* the UUID that Authenticated::new starts from
  NoUuid,           \* None
  MaximumClients,   \* maximum_clients_per_user
  U64Space          \* size of the counter's type: 2^64

ASSUME ConnsAssumption == IsFiniteSet(Conns)
ASSUME NoUuidAssumption == NoUuid \notin Users \cup OtherUuids \cup {NilUuid}
ASSUME MaximumClientsAssumption == MaximumClients \in Nat
\* Connections are far fewer than 2^64.
ASSUME FewConnsAssumption == Cardinality(Conns) < U64Space
ASSUME U64Assumption == U64Space \in Nat /\ U64Space > 1 /\ U64Space > MaximumClients

Uuids == Users \cup OtherUuids \cup {NilUuid}

VARIABLES
  conn,             \* "new", "open" or "closed", as quinn sees it
  auth,             \* Authenticated: the UUID of each connection
  timer,            \* timeout_authenticate of each connection
  gc,               \* collect_garbage of each connection
  online_counter,   \* ONLINE_COUNTER
  online_clients    \* ONLINE_CLIENTS: a function on the UUIDs it has a key for

vars == <<conn, auth, timer, gc, online_counter, online_clients>>

\* timeout_authenticate: asleep; after fetch_add, before upsert; returned, with the
\* client refused in client_connect or not.
TimerSteps == {"none", "sleeping", "counted", "refused", "done", "panicked"}
\* collect_garbage: asleep; after fetch_sub, before remove; returned.
GcSteps == {"none", "sleeping", "uncounted", "done", "panicked"}

\* A connection of JLS starts out authenticated: Authenticated::new is Some(nil).
Init ==
  /\ conn = [c \in Conns |-> "new"]
  /\ auth = [c \in Conns |-> NilUuid]
  /\ timer = [c \in Conns |-> "none"]
  /\ gc = [c \in Conns |-> "none"]
  /\ online_counter = [u \in Users |-> 0]
  /\ online_clients = [u \in {} |-> {}]

Closing(cs) == conn' = [c \in Conns |-> IF c \in cs THEN "closed" ELSE conn[c]]

-----------------------------------------------------------------------------
(* Connections *)

\* Connection::handle: the handshake is over; both tasks are spawned.
Handle(c) ==
  /\ conn[c] = "new"
  /\ conn' = [conn EXCEPT ![c] = "open"]
  /\ timer' = [timer EXCEPT ![c] = "sleeping"]
  /\ gc' = [gc EXCEPT ![c] = "sleeping"]
  /\ UNCHANGED <<auth, online_counter, online_clients>>

\* Faulty: the UUID is set before it is checked.
AuthenticateEarly(c, uuid, valid) ==
  LET ok == auth[c] = NoUuid /\ uuid \in Users /\ valid IN
  /\ conn[c] = "open"
  /\ auth' = [auth EXCEPT ![c] = uuid]
  /\ Closing(IF ok THEN {} ELSE {c})
  /\ UNCHANGED <<timer, gc, online_counter, online_clients>>

\* handle_uni_stream with an Authenticate that is or is not valid. An error of
\* pre_process closes the connection.
Authenticate(c, uuid, valid) ==
  LET ok == auth[c] = NoUuid /\ uuid \in Users /\ valid IN
  /\ conn[c] = "open"
  /\ auth' = IF ok THEN [auth EXCEPT ![c] = uuid] ELSE auth
  /\ Closing(IF ok THEN {} ELSE {c})
  /\ UNCHANGED <<timer, gc, online_counter, online_clients>>

\* The client leaves, is idle too long, or a task of the server closes it.
Close(c) ==
  /\ conn[c] = "open"
  /\ Closing({c})
  /\ UNCHANGED <<auth, timer, gc, online_counter, online_clients>>

-----------------------------------------------------------------------------
(* Accounts *)

\* current > maximum_clients_per_user, where current is the count before the addition.
Over(uuid) == MaximumClients # 0 /\ online_counter[uuid] > MaximumClients

\* Faulty: a client over the limit is not counted.
ClientConnectUncounted(c, uuid) ==
  LET known == uuid \in Users IN
  /\ online_counter' = IF known /\ ~Over(uuid)
                         THEN [online_counter EXCEPT ![uuid] = (@ + 1) % U64Space]
                         ELSE online_counter
  /\ timer' = [timer EXCEPT ![c] = IF ~known THEN "panicked"
                                   ELSE IF Over(uuid) THEN "refused" ELSE "counted"]
  /\ Closing(IF known /\ Over(uuid) THEN {c} ELSE {})

\* client_connect up to its await: expect a user, count, refuse over the limit.
ClientConnect(c, uuid) ==
  LET known == uuid \in Users IN
  /\ online_counter' = IF known THEN [online_counter EXCEPT ![uuid] = (@ + 1) % U64Space]
                                ELSE online_counter
  /\ timer' = [timer EXCEPT ![c] = IF ~known THEN "panicked"
                                   ELSE IF Over(uuid) THEN "refused" ELSE "counted"]
  /\ Closing(IF known /\ Over(uuid) THEN {c} ELSE {})

\* timeout_authenticate wakes up. It does not ask whether the connection lives.
TimeoutAuthenticate(c) ==
  /\ timer[c] = "sleeping"
  /\ IF auth[c] = NoUuid
       THEN /\ timer' = [timer EXCEPT ![c] = "done"]
            /\ Closing({c})
            /\ UNCHANGED online_counter
       ELSE ClientConnect(c, auth[c])
  /\ UNCHANGED <<auth, gc, online_clients>>

\* CHashMap::upsert: update the value of a key that is there, insert a new value
\* for one that is not. client_connect's new value is an empty set.
Upsert(uuid, c) ==
  [u \in DOMAIN online_clients \cup {uuid} |->
    IF u = uuid THEN IF u \in DOMAIN online_clients THEN online_clients[u] \cup {c} ELSE {}
                ELSE online_clients[u]]

\* client_connect goes on.
Register(c) ==
  /\ timer[c] = "counted"
  /\ online_clients' = Upsert(auth[c], c)
  /\ timer' = [timer EXCEPT ![c] = "done"]
  /\ UNCHANGED <<conn, auth, gc, online_counter>>

\* Faulty: the count stops at zero.
FetchSubSaturating(n) == IF n = 0 THEN 0 ELSE n - 1
\* fetch_sub of an AtomicU64 wraps.
FetchSub(n) == (n - 1) % U64Space

\* collect_garbage finds the connection closed: client_disconnect up to its
\* await, whatever timeout_authenticate has done by then.
CollectGarbage(c) ==
  LET known == auth[c] \in Users IN
  /\ gc[c] = "sleeping"
  /\ conn[c] = "closed"
  /\ gc' = [gc EXCEPT ![c] = IF auth[c] = NoUuid THEN "done"
                             ELSE IF known THEN "uncounted" ELSE "panicked"]
  /\ online_counter' = IF known THEN [online_counter EXCEPT ![auth[c]] = FetchSub(@)]
                                ELSE online_counter
  /\ UNCHANGED <<conn, auth, timer, online_clients>>

\* client_disconnect goes on: get_mut, and remove if the user has an entry.
Unregister(c) ==
  /\ gc[c] = "uncounted"
  /\ online_clients' = [u \in DOMAIN online_clients |->
                         IF u = auth[c] THEN online_clients[u] \ {c} ELSE online_clients[u]]
  /\ gc' = [gc EXCEPT ![c] = "done"]
  /\ UNCHANGED <<conn, auth, timer, online_counter>>

\* POST /kick for one user.
Kick(uuid) ==
  /\ uuid \in DOMAIN online_clients
  /\ Closing(online_clients[uuid])
  /\ UNCHANGED <<auth, timer, gc, online_counter, online_clients>>

\* GET /detailed_online: the connections of every user that has some.
ListDetailedOnline ==
  [u \in {v \in DOMAIN online_clients : online_clients[v] # {}} |-> online_clients[u]]

Next ==
  \/ \E c \in Conns : \/ Handle(c)
                      \/ \E uuid \in Uuids, valid \in BOOLEAN : Authenticate(c, uuid, valid)
                      \/ Close(c)
                      \/ TimeoutAuthenticate(c)
                      \/ Register(c)
                      \/ CollectGarbage(c)
                      \/ Unregister(c)
  \/ \E uuid \in Uuids : Kick(uuid)

Spec == Init /\ [][Next]_vars

\* Timers fire and the table's locks are given. Nobody has to close a connection.
Fairness ==
  \A c \in Conns : /\ WF_vars(TimeoutAuthenticate(c))
                   /\ WF_vars(Register(c))
                   /\ WF_vars(CollectGarbage(c))
                   /\ WF_vars(Unregister(c))
FairSpec == Spec /\ Fairness

-----------------------------------------------------------------------------
(* Properties *)

\* Types of the state.
TypeOK ==
  /\ conn \in [Conns -> {"new", "open", "closed"}]
  /\ auth \in [Conns -> Uuids \cup {NoUuid}]
  /\ timer \in [Conns -> TimerSteps]
  /\ gc \in [Conns -> GcSteps]
  /\ online_counter \in [Users -> 0 .. U64Space - 1]
  /\ DOMAIN online_clients \subseteq Users
  /\ \A u \in DOMAIN online_clients : online_clients[u] \subseteq Conns

\* Clients of a user that have been added and not taken away, and those that have
\* been taken away and will still be added.
Counted(uuid) ==
  {c \in Conns : auth[c] = uuid /\ timer[c] \in {"counted", "refused", "done"} /\ gc[c] = "sleeping"}
Overtaken(uuid) ==
  {c \in Conns : auth[c] = uuid /\ timer[c] = "sleeping" /\ gc[c] \in {"uncounted", "done"}}

\* A difference of counts as the counter's type has it.
Wrapped(d) == IF d < 0 THEN d + U64Space ELSE d

\* In whichever order the two tasks of each connection run, the count of a user
\* is the number of clients added and not yet collected, refused ones included,
\* less those that were collected before they were added; it wraps below zero
\* while the latter are more.
CountIsExact ==
  \A u \in Users :
    online_counter[u] = Wrapped(Cardinality(Counted(u)) - Cardinality(Overtaken(u)))

\* Whichever timer fires first, all counts are back to zero some time after all
\* connections are closed: a wrapped count unwraps, and nothing is counted twice.
CountSettles ==
  (\A c \in Conns : conn[c] = "closed") ~> (\A u \in Users : online_counter[u] = 0)

\* The two expects of restful.rs fail only if the users table lacks the UUID that
\* Authenticated::new gives every connection: no Authenticate, valid or not, gives
\* a connection a UUID that the accounts do not know.
AuthorizedIsUser ==
  (\E c \in Conns : timer[c] = "panicked" \/ gc[c] = "panicked") => NilUuid \notin Users

\* The inductive invariant behind these properties. The tasks of a connection
\* start with it, its UUID never changes, a client is counted only as a user, and
\* only closed connections are collected.
LivesAgree ==
  \A c \in Conns :
    /\ auth[c] = NilUuid
    /\ conn[c] = "new" => timer[c] = "none" /\ gc[c] = "none"
    /\ conn[c] # "new" => timer[c] # "none" /\ gc[c] # "none"
    /\ timer[c] \in {"counted", "refused", "done"} => auth[c] \in Users
    /\ timer[c] = "panicked" => auth[c] \notin Users
    /\ gc[c] \in {"uncounted", "done"} => auth[c] \in Users
    /\ gc[c] = "panicked" => auth[c] \notin Users
    /\ gc[c] \in {"uncounted", "done", "panicked"} => conn[c] = "closed"

IndInv ==
  /\ TypeOK
  /\ LivesAgree
  /\ CountIsExact

\* The server's README has /detailed_online list the online clients: an open
\* connection for which client_connect has returned is listed under its UUID.
OnlineIsListed ==
  \A c \in Conns : conn[c] = "open" /\ timer[c] = "done" =>
    /\ auth[c] \in DOMAIN ListDetailedOnline
    /\ c \in ListDetailedOnline[auth[c]]
=============================================================================
