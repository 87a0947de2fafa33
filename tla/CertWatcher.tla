----------------------------- MODULE CertWatcher -----------------------------
(***************************************************************************)
(* CertResolver of tuic-server: the certificate and key that new            *)
(* connections are given, and the task that loads both files again when the *)
(* certificate's file changes. A writer outside the server renews the two   *)
(* files, one after the other; the operating system reports changes of the  *)
(* certificate's file, the watcher's thread turns each report into a        *)
(* message, and a broadcast channel of one place carries it to the task.    *)
(***************************************************************************)
EXTENDS Integers, Sequences

CONSTANTS
  MaxGen            \* bound: the last renewal; the files start with number 1

ASSUME MaxGenAssumption == MaxGen \in Nat \ {0}

Gens == 1 .. MaxGen
\* A file has the text of a renewal, nothing (it was truncated), or a part of it.
Empty == 0
Partial == -1
Contents == Gens \cup {Empty, Partial}

VARIABLES
  writer,           \* "replacing": it renames a new file over the old; "truncating"
  order,            \* the order in which the writer renews the two files
  gen,              \* the number of the current renewal
  todo,             \* files that it has still to write
  file,             \* contents of "cert" (cert_path) and "key" (key_path)
  watched,          \* the watch is on the file that cert_path names
  raised,           \* changes of the certificate's file not yet reported
  unread,           \* messages in the channel; 2 stands for more than it has room for
  task,             \* where start_watch is
  chain,            \* what load_cert_chain has returned
  served,           \* cert_key
  unwatched         \* history: the file changed unwatched, and was not read since

vars == <<writer, order, gen, todo, file, watched, raised, unread, task, chain, served, unwatched>>

Min2(n) == IF n > 2 THEN 2 ELSE n

\* CertResolver::new has loaded both files and spawned the task.
Init ==
  /\ writer \in {"replacing", "truncating"}
  /\ order \in {<<"key", "cert">>, <<"cert", "key">>}
  /\ gen = 1
  /\ todo = <<>>
  /\ file = [f \in {"cert", "key"} |-> 1]
  /\ watched = FALSE
  /\ raised = 0
  /\ unread = 0
  /\ task = "starting"
  /\ chain = 1
  /\ served = [cert |-> 1, key |-> 1]
  /\ unwatched = FALSE

-----------------------------------------------------------------------------
(* The writer and the file watcher *)

Renew ==
  /\ todo = <<>>
  /\ gen < MaxGen
  /\ gen' = gen + 1
  /\ todo' = order
  /\ UNCHANGED <<writer, order, file, watched, raised, unread, task, chain, served, unwatched>>

\* What the next write may leave in a file.
Written(c) ==
  IF writer = "replacing" THEN {gen}
  ELSE CASE c = Empty   -> {Partial, gen}
         [] c = Partial -> {gen}
         [] OTHER       -> {Empty}

\* A write. Changes of the certificate's file are reported once it is watched. A watch
\* may be of the file and not of its name (inotify): it reports that its file is
\* replaced, and is lost with it.
Write ==
  /\ todo # <<>>
  /\ LET f == Head(todo) IN
     \E c \in Written(file[f]) :
       /\ file' = [file EXCEPT ![f] = c]
       /\ todo' = IF c = gen THEN Tail(todo) ELSE todo
       /\ raised' = IF f = "cert" /\ watched THEN raised + 1 ELSE raised
       /\ \/ UNCHANGED watched
          \/ f = "cert" /\ writer = "replacing" /\ watched' = FALSE
       /\ unwatched' = (unwatched \/ (f = "cert" /\ ~watched))
  /\ UNCHANGED <<writer, order, gen, unread, task, chain, served>>

\* Faulty: a change that happens during a load is not reported.
NotifyIdle(n) ==
  /\ raised' = raised - n
  /\ unread' = IF task = "waiting" THEN Min2(unread + 1) ELSE unread
  /\ UNCHANGED <<writer, order, gen, todo, file, watched, task, chain, served, unwatched>>

\* The closure of async_watcher sends a message for a report, in which equal
\* changes that follow each other may be put together.
Notify(n) ==
  /\ raised' = raised - n
  /\ unread' = Min2(unread + 1)
  /\ UNCHANGED <<writer, order, gen, todo, file, watched, task, chain, served, unwatched>>

-----------------------------------------------------------------------------
(* The task *)

\* Leaving start_watch drops receiver and watcher.
EndWatch ==
  /\ task' = "ended"
  /\ watched' = FALSE
  /\ raised' = 0
  /\ unread' = 0

\* The watch begins, or cannot be made.
StartWatch ==
  /\ task = "starting"
  /\ \/ task' = "waiting" /\ watched' = TRUE /\ UNCHANGED <<raised, unread>>
     \/ EndWatch
  /\ UNCHANGED <<writer, order, gen, todo, file, chain, served, unwatched>>

\* Faulty: the loop reacts to a burst of changes only.
RecvBurst ==
  /\ task = "waiting"
  /\ unread > 1
  /\ task' = "cert"
  /\ unread' = 0
  /\ UNCHANGED <<writer, order, gen, todo, file, watched, raised, chain, served, unwatched>>

\* rx.recv(): a message, or the error that a receiver gets for messages it missed.
Recv ==
  /\ task = "waiting"
  /\ unread > 0
  /\ IF unread = 1 THEN task' = "cert" /\ unread' = 0 /\ UNCHANGED <<watched, raised>> ELSE EndWatch
  /\ UNCHANGED <<writer, order, gen, todo, file, chain, served, unwatched>>

\* load_cert_chain. A file without any certificate is an empty chain; a part of a
\* file is an error, or the certificates that it has (and always so for DER).
LoadCertChain ==
  /\ task = "cert"
  /\ unwatched' = FALSE
  /\ \/ /\ file["cert"] = Partial
        /\ EndWatch
        /\ UNCHANGED chain
     \/ /\ task' = "key"
        /\ chain' = file["cert"]
        /\ UNCHANGED <<watched, raised, unread>>
  /\ UNCHANGED <<writer, order, gen, todo, file, served>>

\* load_priv_key, then the write of cert_key. A file without a key is an error;
\* whether the key is the certificate's is not asked.
LoadPrivKey ==
  /\ task = "key"
  /\ IF file["key"] \in Gens
       THEN /\ served' = [cert |-> chain, key |-> file["key"]]
            /\ task' = "waiting"
            /\ UNCHANGED <<watched, raised, unread>>
       ELSE EndWatch /\ UNCHANGED served
  /\ UNCHANGED <<writer, order, gen, todo, file, chain, unwatched>>

Next ==
  \/ Renew
  \/ Write
  \/ \E n \in 1 .. raised : Notify(n)
  \/ StartWatch
  \/ Recv
  \/ LoadCertChain
  \/ LoadPrivKey

Spec == Init /\ [][Next]_vars

\* Reports are delivered, and the task goes on. Nobody has to write.
Fairness ==
  /\ WF_vars(\E n \in 1 .. raised : Notify(n))
  /\ WF_vars(StartWatch \/ Recv \/ LoadCertChain \/ LoadPrivKey)
FairSpec == Spec /\ Fairness

-----------------------------------------------------------------------------
(* Properties *)

\* Types of the state.
TypeOK ==
  /\ writer \in {"replacing", "truncating"}
  /\ \/ order = <<"key", "cert">> /\ todo \in {<<>>, <<"cert">>, order}
     \/ order = <<"cert", "key">> /\ todo \in {<<>>, <<"key">>, order}
  /\ gen \in Gens
  /\ file \in [{"cert", "key"} -> Contents]
  /\ watched \in BOOLEAN
  /\ raised \in Nat
  /\ unread \in 0 .. 2
  /\ task \in {"starting", "waiting", "cert", "key", "ended"}
  /\ chain \in Contents
  /\ served \in [cert : Contents, key : Gens]
  /\ unwatched \in BOOLEAN

\* Once nothing is under way and start_watch still waits, the certificate served
\* is that of the file, and so is the key when a writer that renews it before the
\* certificate is done; the key's own file is not watched. Exempt are changes that
\* nothing watched: before the watch began, and once a replaced file had taken it.
FilesAreServed ==
  task = "waiting" /\ raised = 0 /\ unread = 0 /\ ~unwatched =>
    /\ served.cert = file["cert"]
    /\ order = <<"key", "cert">> /\ todo = <<>> => served.key = file["key"]

\* A certificate that stays in its file is served in the end, unless nothing watched
\* the file or the watch has ended: a receiver that missed a message and a file that
\* cannot be read both leave the loop.
RenewalIsServed ==
  \A n \in Gens :
    (file["cert"] = n /\ ~unwatched) ~> (served.cert = n \/ file["cert"] # n \/ task = "ended")
-----------------------------------------------------------------------------
(* The inductive invariant *)

\* No report of a change is under way, and none was missed.
UpToDate == raised = 0 /\ unread = 0 /\ ~unwatched

\* What the task has read is in the files unless a report is under way, and the
\* key is never older than a certificate that was renewed after it.
ReadIsCurrent ==
  /\ task = "starting" => raised = 0 /\ unread = 0 /\ ~watched
  /\ UpToDate /\ task = "key" => chain = file["cert"]
  /\ UpToDate /\ task \in {"starting", "waiting"} =>
       /\ served.cert = file["cert"]
       /\ order = <<"key", "cert">> /\ todo = <<>> => served.key = file["key"]

IndInv == TypeOK /\ ReadIsCurrent
=============================================================================
