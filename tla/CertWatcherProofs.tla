-------------------------- MODULE CertWatcherProofs --------------------------
(* Proofs about CertWatcher, for any number of renewals. *)
EXTENDS CertWatcher, TLAPS

USE DEF Gens, Empty, Partial, Contents

LEMMA InitIndInv == Init => IndInv
<1>. SUFFICES ASSUME Init PROVE IndInv
  OBVIOUS
<1>1. TypeOK
  <2>1. 1 \in Gens /\ 1 \in Contents
    BY MaxGenAssumption
  <2>2. \/ order = <<"key", "cert">> /\ todo \in {<<>>, <<"cert">>, order}
        \/ order = <<"cert", "key">> /\ todo \in {<<>>, <<"key">>, order}
    BY Zenon DEF Init
  <2>3. file \in [{"cert", "key"} -> Contents] /\ served \in [cert : Contents, key : Gens]
    BY <2>1 DEF Init
  <2>4. raised \in Nat /\ unread \in 0 .. 2
    BY DEF Init
  <2>. QED BY <2>1, <2>2, <2>3, <2>4, Zenon DEF Init, TypeOK
<1>2. ReadIsCurrent
  BY DEF Init, ReadIsCurrent, UpToDate
<1>. QED BY <1>1, <1>2 DEF IndInv

\* The lists of files are told apart.
LEMMA ListsDiffer ==
  /\ <<"key", "cert">> # <<"cert", "key">>
  /\ \A f, g, h \in {"cert", "key"} : <<f>> # <<>> /\ <<f, g>> # <<>> /\ <<f, g>> # <<h>>
  /\ <<"key">> # <<"cert">>
  OBVIOUS

\* The parts of such lists.
LEMMA ListParts ==
  /\ Head(<<"key", "cert">>) = "key" /\ Tail(<<"key", "cert">>) = <<"cert">>
  /\ Head(<<"cert", "key">>) = "cert" /\ Tail(<<"cert", "key">>) = <<"key">>
  /\ \A f \in {"cert", "key"} : Head(<<f>>) = f /\ Tail(<<f>>) = <<>>
  OBVIOUS

\* The files that a renewal has still to write, and what is left after the first.
LEMMA TodoShape ==
  ASSUME TypeOK, todo # <<>>
  PROVE  \/ /\ order = <<"key", "cert">> /\ todo = order
            /\ Head(todo) = "key" /\ Tail(todo) = <<"cert">>
         \/ /\ order = <<"cert", "key">> /\ todo = order
            /\ Head(todo) = "cert" /\ Tail(todo) = <<"key">>
         \/ /\ order = <<"key", "cert">> /\ todo = <<"cert">>
            /\ Head(todo) = "cert" /\ Tail(todo) = <<>>
         \/ /\ order = <<"cert", "key">> /\ todo = <<"key">>
            /\ Head(todo) = "key" /\ Tail(todo) = <<>>
<1>1. \/ order = <<"key", "cert">> /\ todo \in {<<"cert">>, order}
      \/ order = <<"cert", "key">> /\ todo \in {<<"key">>, order}
  BY Zenon DEF TypeOK
<1>. QED BY <1>1, ListParts, Zenon

LEMMA WriteIndInv == IndInv /\ Write => IndInv'
<1>. SUFFICES ASSUME IndInv, Write PROVE IndInv'
  OBVIOUS
<1>. DEFINE f == Head(todo)
<1>1. PICK c \in Written(file[f]) :
        /\ file' = [file EXCEPT ![f] = c]
        /\ todo' = IF c = gen THEN Tail(todo) ELSE todo
        /\ raised' = IF f = "cert" /\ watched THEN raised + 1 ELSE raised
        /\ \/ UNCHANGED watched
           \/ f = "cert" /\ writer = "replacing" /\ watched' = FALSE
        /\ unwatched' = (unwatched \/ (f = "cert" /\ ~watched))
  BY DEF Write
<1>2. /\ todo # <<>>
      /\ UNCHANGED <<writer, order, gen, unread, task, chain, served>>
  BY DEF Write
<1>3. TypeOK
  BY DEF IndInv
<1>4. c \in Contents
  <2>1. c \in {gen, Partial, Empty}
    BY <1>1 DEF Written
  <2>. QED BY <1>3, <2>1 DEF TypeOK
<1>5. /\ f \in {"cert", "key"}
      /\ \/ order = <<"key", "cert">> /\ todo' \in {<<>>, <<"cert">>, order}
         \/ order = <<"cert", "key">> /\ todo' \in {<<>>, <<"key">>, order}
  <2>1. todo' = Tail(todo) \/ todo' = todo
    BY <1>1
  <2>. QED BY <1>2, <1>3, <2>1, TodoShape, Zenon
<1>6. TypeOK'
  <2>1. file' \in [{"cert", "key"} -> Contents] /\ raised' \in Nat
    BY <1>1, <1>3, <1>4, <1>5 DEF TypeOK
  <2>2. watched' \in BOOLEAN
    BY <1>1, <1>3, Zenon DEF TypeOK
  <2>3. unwatched' \in BOOLEAN
    BY <1>1, Zenon
  <2>. QED BY <1>2, <1>3, <1>5, <2>1, <2>2, <2>3, Zenon DEF TypeOK
<1>7. ReadIsCurrent'
  <2>1. CASE f = "cert"
    <3>1. ~UpToDate'
      <4>1. CASE watched
        <5>1. raised' # 0
          BY <1>1, <1>3, <2>1, <4>1 DEF TypeOK
        <5>. QED BY <5>1 DEF UpToDate
      <4>2. CASE ~watched
        <5>1. unwatched'
          BY <1>1, <2>1, <4>2
        <5>. QED BY <5>1 DEF UpToDate
      <4>. QED BY <4>1, <4>2
    <3>2. task' = "starting" => raised' = 0 /\ unread' = 0 /\ ~watched'
      BY <1>1, <1>2 DEF IndInv, ReadIsCurrent
    <3>. QED BY <3>1, <3>2 DEF ReadIsCurrent
  <2>2. CASE f = "key"
    <3>1. /\ file'["cert"] = file["cert"] /\ raised' = raised /\ watched' = watched
          /\ UpToDate' <=> UpToDate
      BY <1>1, <1>2, <1>3, <2>2 DEF UpToDate, TypeOK
    <3>2. order = <<"key", "cert">> => todo' # <<>>
      BY <1>1, <1>2, <1>3, <2>2, TodoShape, ListsDiffer
    <3>. QED BY <1>2, <3>1, <3>2 DEF IndInv, ReadIsCurrent
  <2>. QED BY <1>5, <2>1, <2>2
<1>. QED BY <1>6, <1>7 DEF IndInv

\* A report becomes a message.
LEMMA NotifyIndInv ==
  ASSUME IndInv, NEW n \in 1 .. raised, Notify(n)
  PROVE  IndInv'
<1>0. TypeOK
  BY DEF IndInv
<1>1. raised' \in Nat /\ raised # 0 /\ unread' \in {1, 2} /\ raised' + unread' <= raised + unread
  BY <1>0 DEF Notify, Min2, TypeOK
<1>2. TypeOK'
  BY <1>0, <1>1 DEF Notify, TypeOK
<1>3. ReadIsCurrent'
  BY <1>0, <1>1 DEF Notify, IndInv, ReadIsCurrent, UpToDate, TypeOK
<1>. QED BY <1>2, <1>3 DEF IndInv

\* The steps of the task.
LEMMA TaskIndInv == IndInv /\ (StartWatch \/ Recv \/ LoadCertChain \/ LoadPrivKey) => IndInv'
<1>. SUFFICES ASSUME IndInv, StartWatch \/ Recv \/ LoadCertChain \/ LoadPrivKey PROVE IndInv'
  OBVIOUS
<1>0. TypeOK /\ 0 \in Nat /\ 0 \in 0 .. 2
  BY DEF IndInv
<1>1. CASE StartWatch
  <2>1. TypeOK'
    BY <1>0, <1>1, Zenon DEF StartWatch, EndWatch, TypeOK
  <2>2. ReadIsCurrent'
    BY <1>1 DEF StartWatch, EndWatch, IndInv, ReadIsCurrent, UpToDate
  <2>. QED BY <2>1, <2>2 DEF IndInv
<1>2. CASE Recv
  <2>1. TypeOK'
    <3>1. CASE EndWatch
      BY <1>0, <1>2, <3>1, Zenon DEF Recv, EndWatch, TypeOK
    <3>2. CASE task' = "cert" /\ unread' = 0 /\ UNCHANGED <<watched, raised>>
      BY <1>0, <1>2, <3>2, Zenon DEF Recv, TypeOK
    <3>. QED BY <1>2, <3>1, <3>2, Zenon DEF Recv
  <2>2. ReadIsCurrent'
    BY <1>2 DEF Recv, EndWatch, ReadIsCurrent
  <2>. QED BY <2>1, <2>2 DEF IndInv
<1>3. CASE LoadCertChain
  <2>1. TypeOK'
    <3>1. file["cert"] \in Contents /\ 0 \in Nat /\ 0 \in 0 .. 2
      BY <1>0 DEF TypeOK
    <3>2. CASE EndWatch /\ UNCHANGED chain
      BY <1>0, <1>3, <3>1, <3>2, Zenon DEF LoadCertChain, EndWatch, TypeOK
    <3>3. CASE task' = "key" /\ chain' = file["cert"] /\ UNCHANGED <<watched, raised, unread>>
      BY <1>0, <1>3, <3>1, <3>3, Zenon DEF LoadCertChain, TypeOK
    <3>. QED BY <1>3, <3>2, <3>3, Zenon DEF LoadCertChain
  <2>2. ReadIsCurrent'
    BY <1>3 DEF LoadCertChain, EndWatch, ReadIsCurrent
  <2>. QED BY <2>1, <2>2 DEF IndInv
<1>4. CASE LoadPrivKey
  <2>1. TypeOK'
    <3>1. CASE EndWatch /\ UNCHANGED served
      BY <1>0, <1>4, <3>1, Zenon DEF LoadPrivKey, EndWatch, TypeOK
    <3>2. CASE /\ file["key"] \in Gens
               /\ served' = [cert |-> chain, key |-> file["key"]]
               /\ task' = "waiting"
               /\ UNCHANGED <<watched, raised, unread>>
      <4>1. served' \in [cert : Contents, key : Gens]
        BY <1>0, <3>2 DEF TypeOK
      <4>. QED BY <1>0, <1>4, <3>2, <4>1, Zenon DEF LoadPrivKey, TypeOK
    <3>. QED BY <1>4, <3>1, <3>2, Zenon DEF LoadPrivKey
  <2>2. ReadIsCurrent'
    BY <1>4 DEF LoadPrivKey, EndWatch, IndInv, ReadIsCurrent, UpToDate
  <2>. QED BY <2>1, <2>2 DEF IndInv
<1>. QED BY <1>1, <1>2, <1>3, <1>4

LEMMA NextIndInv == IndInv /\ [Next]_vars => IndInv'
<1>. SUFFICES ASSUME IndInv, [Next]_vars PROVE IndInv'
  OBVIOUS
<1>1. CASE Renew
  <2>1. TypeOK'
    <3>1. gen' \in Gens
      BY <1>1, MaxGenAssumption DEF Renew, IndInv, TypeOK
    <3>2. \/ order' = <<"key", "cert">> /\ todo' \in {<<>>, <<"cert">>, order'}
          \/ order' = <<"cert", "key">> /\ todo' \in {<<>>, <<"key">>, order'}
      BY <1>1, Zenon DEF Renew, IndInv, TypeOK
    <3>. QED BY <1>1, <3>1, <3>2, Zenon DEF Renew, IndInv, TypeOK
  <2>2. ReadIsCurrent'
    <3>1. todo' # <<>>
      BY <1>1, ListsDiffer DEF Renew, IndInv, TypeOK
    <3>. QED BY <1>1, <3>1 DEF Renew, IndInv, ReadIsCurrent, UpToDate
  <2>. QED BY <2>1, <2>2 DEF IndInv
<1>2. CASE UNCHANGED vars
  BY <1>2 DEF vars, IndInv, TypeOK, ReadIsCurrent, UpToDate
<1>. QED BY <1>1, <1>2, WriteIndInv, NotifyIndInv, TaskIndInv DEF Next

\* What the task has read is in the files unless a report is under way.
THEOREM Inductive == Spec => []IndInv
  BY InitIndInv, NextIndInv, PTL DEF Spec

\* The state of the watch keeps its types.
THEOREM TypeCorrect == Spec => []TypeOK
<1>1. IndInv => TypeOK
  BY DEF IndInv
<1>. QED BY <1>1, Inductive, PTL

\* At rest, start_watch has made CertResolver serve what the files have, for any
\* writer that renews the key first.
THEOREM RestIsCurrent == Spec => []FilesAreServed
<1>1. IndInv => FilesAreServed
  BY DEF IndInv, ReadIsCurrent, FilesAreServed, UpToDate
<1>. QED BY <1>1, Inductive, PTL
=============================================================================
