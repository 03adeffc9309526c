------------------------- MODULE NetworkManager_proofs -------------------------
(***************************************************************************)
(* Proofs about NetworkManager, for any sockets, any overlapped objects    *)
(* and any number of jobs: the types, the receives of a socket, its life   *)
(* from accept to delete, and the size of the pool.  As in the module, a   *)
(* pop of the pool is one step.                                            *)
(*                                                                         *)
(* That a receive is never handled on a deleted socket rests on the order  *)
(* of the completion port: a send can fail only once the connection is     *)
(* gone, from then on no receive on it succeeds, and those that did are    *)
(* ahead of the failed send in the port.                                   *)
(***************************************************************************)
EXTENDS NetworkManager, FiniteSetTheorems, SequenceTheorems, TLAPS

\* The sockets that have been registered, if only for a while.
Known == connected \union deleted

\* The object in hand, while its operation is not yet disposed of.
Handled(o) == o = current /\ netPc \in {"register", "receive", "rearm", "disconnect"}

UnderWay(o) == o \in inFlight \/ o \in Completed \/ Handled(o)

Receives(o) == UnderWay(o) /\ work[o].op \in {"accept", "connect", "recv"}

SuccessfulReceive(i) == iocp[i].outcome = "ok" /\ work[iocp[i].object].op = "recv"

FailedSend(i) ==
    iocp[i].outcome # "ok" /\ work[iocp[i].object].op = "send"

Gone(s) == connection[s] \notin {"up", "closing"}

-----------------------------------------------------------------------------
(* The parts of the inductive invariant *)

\* The five places an object can be in are disjoint, and the program counters
\* say when a thread has one.
Owners ==
    /\ inFlight \intersect pool = {}
    /\ Completed \intersect pool = {}
    /\ inFlight \intersect Completed = {}
    /\ current \notin pool \union inFlight \union Completed
    /\ sending \notin pool \union inFlight \union Completed
    /\ current = sending => current = NoOverlapped
    /\ netPc = "wait" <=> current = NoOverlapped
    /\ jobPc = "prepared" <=> sending # NoOverlapped

\* No object is in the port twice.
PortInv ==
    \A i, j \in 1 .. Len(iocp) : iocp[i].object = iocp[j].object => i = j

\* What the handlers and SendRequest hold in their hands.
HandInv ==
    /\ netPc = "register" => work[current].op \in {"accept", "connect"}
    /\ netPc = "receive" => work[current].op = "recv"
    /\ netPc = "rearm" => work[current].op \in {"accept", "connect", "recv"}
    /\ jobPc # "idle" => target \in Known
    /\ jobPc = "prepared" => work[sending] = [op |-> "send", socket |-> target]

\* Only a registered socket is received from or sent on; one that is being
\* accepted or connected is not registered before its handler does it.
PostedInv ==
    \A o \in Overlappeds : UnderWay(o) =>
        /\ work[o].op # "default"
        /\ work[o].socket \in Sockets
        /\ work[o].socket \in Known <=>
               work[o].op \in {"recv", "send"} \/ (o = current /\ netPc = "rearm")

\* Nothing has been done with a socket that is still prepared.
PreparedInv ==
    \A s \in prepared :
        /\ s \notin Known
        /\ \A o \in Overlappeds : Receives(o) => work[o].socket # s

UniqueInv ==
    \A o, p \in Overlappeds :
        Receives(o) /\ Receives(p) /\ work[o].socket = work[p].socket => o = p

ClosedInv == \A s \in deleted : connection[s] = "closed"

\* In the port, and in the hand of the network thread: a failed send has no
\* successful receive of its socket behind it.
OrderInv ==
    /\ \A i \in 1 .. Len(iocp) :
           SuccessfulReceive(i) => work[iocp[i].object].socket \notin deleted
    /\ \A i \in 1 .. Len(iocp) : FailedSend(i) =>
           /\ Gone(work[iocp[i].object].socket)
           /\ \A j \in i .. Len(iocp) : SuccessfulReceive(j) =>
                  work[iocp[j].object].socket # work[iocp[i].object].socket
    /\ netPc = "disconnect" /\ work[current].op = "send" =>
           /\ Gone(work[current].socket)
           /\ \A j \in 1 .. Len(iocp) : SuccessfulReceive(j) =>
                  work[iocp[j].object].socket # work[current].socket

IInv ==
    /\ TypeOK
    /\ Owners
    /\ PortInv
    /\ HandInv
    /\ PostedInv
    /\ PreparedInv
    /\ UniqueInv
    /\ ClosedInv
    /\ OrderInv
    /\ HandlersUseLiveSockets
    /\ DanglingOnlyWhileErasing

-----------------------------------------------------------------------------
(* Lemmas about the definitions *)

\* An object that goes to Winsock comes from the pool; whoever has an object
\* already keeps it, with the operation and the socket in it.
LEMMA Submitting ==
    ASSUME TypeOK, Owners, NEW o \in pool, NEW op, NEW s, Submit(o, op, s)
    PROVE  /\ work'[o] = [op |-> op, socket |-> s]
           /\ \A p \in Overlappeds : p # o => work'[p] = work[p]
           /\ \A p \in Overlappeds : UnderWay(p) => p # o
           /\ inFlight' = inFlight \/ inFlight' = inFlight \union {o}
  BY DEF Submit, TypeOK, Owners, UnderWay, Handled

\* The port does not move.
LEMMA PortStays == iocp' = iocp => Completed' = Completed
  BY DEF Completed

LEMMA PortHoldsObjects == TypeOK => Completed \subseteq Overlappeds
  <1> SUFFICES ASSUME TypeOK, NEW i \in 1 .. Len(iocp)
               PROVE  iocp[i].object \in Overlappeds
    BY DEF Completed
  <1> iocp[i] \in Completions
    BY DEF TypeOK
  <1> QED BY DEF Completions

\* A step that leaves alone the port and the objects in it, and brings no failed
\* send into the hand of the network thread, keeps the order.
LEMMA OrderStays ==
    ASSUME TypeOK, Owners, PostedInv, OrderInv, UNCHANGED <<iocp, deleted>>,
           \A p \in Completed : work'[p] = work[p],
           \A s \in Sockets : connection[s] \notin {"up", "closing"} => connection'[s] \notin {"up", "closing"},
           netPc' = "disconnect" /\ work'[current'].op = "send" =>
               /\ netPc = "disconnect" /\ current' = current
               /\ work'[current] = work[current]
    PROVE  OrderInv'
  <1>1. \A i \in 1 .. Len(iocp) : iocp[i].object \in Completed
    BY DEF Completed
  <1>2. \A i \in 1 .. Len(iocp) :
            /\ work'[iocp'[i].object] = work[iocp[i].object]
            /\ SuccessfulReceive(i)' <=> SuccessfulReceive(i)
            /\ FailedSend(i)' <=> FailedSend(i)
    BY <1>1 DEF SuccessfulReceive, FailedSend
  <1>3. 1 .. Len(iocp') = 1 .. Len(iocp)
    OBVIOUS
  <1>4. \A i \in 1 .. Len(iocp') : SuccessfulReceive(i)' =>
            work'[iocp'[i].object].socket \notin deleted'
    BY <1>2 DEF OrderInv
  <1>5. ASSUME NEW i \in 1 .. Len(iocp'), FailedSend(i)'
        PROVE  /\ Gone(work[iocp[i].object].socket)'
               /\ \A j \in i .. Len(iocp') : SuccessfulReceive(j)' =>
                      work'[iocp'[j].object].socket # work'[iocp'[i].object].socket
    <2>1. FailedSend(i) /\ work[iocp[i].object].socket \in Sockets
      BY <1>1, <1>2, <1>5, PortHoldsObjects DEF PostedInv, UnderWay
    <2> QED BY <1>2, <2>1 DEF OrderInv, Gone
  <1>6. ASSUME netPc' = "disconnect", work'[current'].op = "send"
        PROVE  /\ Gone(work[current].socket)'
               /\ \A j \in 1 .. Len(iocp') : SuccessfulReceive(j)' =>
                      work'[iocp'[j].object].socket # work'[current'].socket
    <2>1. current \in Overlappeds /\ UnderWay(current)
      BY <1>6 DEF Owners, TypeOK, UnderWay, Handled
    <2>2. work[current].socket \in Sockets
      BY <2>1 DEF PostedInv
    <2> QED BY <1>2, <1>6, <2>2 DEF OrderInv, Gone
  <1> QED BY <1>2, <1>4, <1>5, <1>6 DEF OrderInv, Gone

-----------------------------------------------------------------------------
(* The kinds of steps: what they have in common keeps the invariant *)

\* The first operation on a socket is posted.
LEMMA PostingKeeps ==
    ASSUME IInv, NEW s \in prepared, NEW o \in pool, NEW op \in {"accept", "connect"},
           Submit(o, op, s), pool' = pool \ {o}, prepared' = prepared \ {s},
           UNCHANGED <<iocp, connection, deleted, connected, netPc, current, jobs, queued,
                       jobPc, target, sending>>
    PROVE  IInv'
  <1> USE DEF IInv
  <1>1. /\ work'[o] = [op |-> op, socket |-> s]
        /\ \A p \in Overlappeds : p # o => work'[p] = work[p]
        /\ \A p \in Overlappeds : UnderWay(p) => p # o
        /\ inFlight' = inFlight \/ inFlight' = inFlight \union {o}
    BY Submitting
  <1>2. Completed' = Completed
    BY PortStays
  <1>3. TypeOK'
    BY DEF TypeOK, Submit
  <1>4. Owners'
    BY <1>1, <1>2 DEF Owners, TypeOK
  <1>5. PortInv'
    BY DEF PortInv
  <1>6. HandInv'
    BY <1>1, OverlappedsAreObjects DEF HandInv, Owners, TypeOK, Known
  <1>7. PostedInv'
    BY <1>1, <1>2 DEF PostedInv, PreparedInv, UnderWay, Handled, Known, Owners, TypeOK
  <1>8. PreparedInv'
    BY <1>1, <1>2 DEF PreparedInv, UnderWay, Handled, Receives, Known, TypeOK
  <1>9. UniqueInv'
    BY <1>1, <1>2 DEF UniqueInv, PreparedInv, UnderWay, Handled, Receives, TypeOK
  <1>10. ClosedInv'
    BY DEF ClosedInv
  <1>11. OrderInv'
    <2>1. \A p \in Completed : work'[p] = work[p]
      BY <1>1, PortHoldsObjects DEF UnderWay
    <2>2. \A x \in Sockets : connection[x] \notin {"up", "closing"} => connection'[x] \notin {"up", "closing"}
      OBVIOUS
    <2>3. netPc = "disconnect" => current' = current /\ work'[current] = work[current]
      BY <1>1 DEF Owners, UnderWay, Handled, TypeOK
    <2> QED BY <2>1, <2>2, <2>3, OrderStays
  <1>12. HandlersUseLiveSockets'
    BY <1>1 DEF HandlersUseLiveSockets, UnderWay, Handled, Owners, TypeOK
  <1>13. DanglingOnlyWhileErasing'
    BY <1>1 DEF DanglingOnlyWhileErasing, Key, Owners, TypeOK
  <1> QED BY <1>3, <1>4, <1>5, <1>6, <1>7, <1>8, <1>9, <1>10, <1>11, <1>12, <1>13

\* No object moves and no socket becomes known: a step of a peer, of a handler
\* that changes no object, or of a search in the map.
LEMMA QuietKeeps ==
    ASSUME IInv, TypeOK', HandInv', DanglingOnlyWhileErasing',
           Known' = Known, prepared' \subseteq prepared,
           UNCHANGED <<pool, work, inFlight, iocp, deleted, current, sending>>,
           \A s \in Sockets : connection'[s] = connection[s] \/ connection[s] \in {"up", "closing"},
           \/ netPc' = netPc
           \/ netPc = "receive" /\ netPc' = "rearm"
           \/ netPc \in {"rearm", "disconnect", "erase"} /\ netPc' = "recycle",
           jobPc' = "prepared" <=> jobPc = "prepared"
    PROVE  IInv'
  <1> USE DEF IInv
  <1>1. Completed' = Completed
    BY PortStays
  <1>2. \A o : UnderWay(o)' => UnderWay(o)
    BY <1>1 DEF UnderWay, Handled
  <1>3. Owners'
    BY <1>1 DEF Owners, TypeOK
  <1>4. PortInv'
    BY DEF PortInv
  <1>5. PostedInv'
    <2> SUFFICES ASSUME NEW o \in Overlappeds, UnderWay(o)'
                 PROVE  /\ work[o].op # "default"
                        /\ work[o].socket \in Sockets
                        /\ work[o].socket \in Known <=>
                               work[o].op \in {"recv", "send"} \/ (o = current /\ netPc' = "rearm")
      BY DEF PostedInv
    <2>1. UnderWay(o)
      BY <1>2
    <2>2. CASE o # current
      BY <2>1, <2>2 DEF PostedInv
    <2>3. CASE o = current /\ netPc' = netPc
      BY <2>1, <2>3 DEF PostedInv
    <2>4. CASE o = current /\ netPc = "receive" /\ netPc' = "rearm"
      BY <2>1, <2>4 DEF PostedInv, HandInv
    <2>5. CASE o = current /\ netPc' = "recycle"
      BY <1>1, <2>1, <2>5 DEF PostedInv, UnderWay, Handled, Owners, TypeOK
    <2> QED BY <2>2, <2>3, <2>4, <2>5
  <1>6. PreparedInv'
    BY <1>2 DEF PreparedInv, Receives
  <1>7. UniqueInv'
    BY <1>2 DEF UniqueInv, Receives
  <1>8. ClosedInv'
    BY DEF ClosedInv, TypeOK
  <1>9. OrderInv'
    <2>1. \A x \in Sockets : connection[x] \notin {"up", "closing"} => connection'[x] \notin {"up", "closing"}
      OBVIOUS
    <2>2. netPc' = "disconnect" => netPc = "disconnect"
      OBVIOUS
    <2> QED BY <2>1, <2>2, OrderStays
  <1>10. HandlersUseLiveSockets'
    BY DEF HandlersUseLiveSockets
  <1> QED BY <1>3, <1>4, <1>5, <1>6, <1>7, <1>8, <1>9, <1>10

-----------------------------------------------------------------------------
(* The network thread *)

LEMMA HandleNewConnectionKeeps ==
    ASSUME IInv, HandleNewConnection, TypeOK'
    PROVE  IInv'
  <1> USE DEF IInv
  <1> DEFINE s == work[current].socket
  <1>1. /\ netPc = "register" /\ netPc' = "rearm"
        /\ connected' = connected \union {s}
        /\ UNCHANGED <<pool, work, inFlight, iocp, connection, deleted, prepared, current,
                       jobPc, target, sending>>
    BY DEF HandleNewConnection, osVars, jobVars
  <1>2. Completed' = Completed
    BY <1>1, PortStays
  <1>3. current \in Overlappeds /\ Receives(current) /\ s \in Sockets
    BY <1>1 DEF TypeOK, Owners, HandInv, PostedInv, Receives, UnderWay, Handled
  <1>4. Known' = Known \union {s}
    BY <1>1 DEF Known
  <1>5. \A o : UnderWay(o)' <=> UnderWay(o)
    BY <1>1, <1>2 DEF UnderWay, Handled
  <1>6. Owners'
    BY <1>1, <1>2 DEF Owners, TypeOK
  <1>7. PortInv'
    BY <1>1 DEF PortInv
  <1>8. HandInv'
    BY <1>1, <1>4 DEF HandInv
  <1>9. PostedInv'
    <2> SUFFICES ASSUME NEW o \in Overlappeds, UnderWay(o)
                 PROVE  /\ work[o].op # "default"
                        /\ work[o].socket \in Sockets
                        /\ work[o].socket \in Known \union {s} <=>
                               work[o].op \in {"recv", "send"} \/ o = current
      BY <1>1, <1>4, <1>5 DEF PostedInv
    <2>1. CASE o = current
      BY <1>3, <2>1 DEF PostedInv
    <2>2. CASE o # current /\ work[o].op \in {"recv", "send"}
      BY <1>1, <2>2 DEF PostedInv
    <2>3. CASE o # current /\ work[o].op \notin {"recv", "send"}
      <3>1. work[o].op \in {"accept", "connect"}
        BY <2>3 DEF PostedInv, TypeOK
      <3>2. work[o].socket # s
        BY <1>3, <2>3, <3>1 DEF UniqueInv, Receives
      <3> QED BY <2>3, <3>2 DEF PostedInv
    <2> QED BY <2>1, <2>2, <2>3
  <1>10. PreparedInv'
    BY <1>1, <1>3, <1>4, <1>5 DEF PreparedInv, Receives
  <1>11. UniqueInv'
    BY <1>1, <1>5 DEF UniqueInv, Receives
  <1>12. ClosedInv'
    BY <1>1 DEF ClosedInv
  <1>13. OrderInv'
    BY <1>1, OrderStays
  <1>14. HandlersUseLiveSockets' /\ DanglingOnlyWhileErasing'
    BY <1>1 DEF HandlersUseLiveSockets, DanglingOnlyWhileErasing
  <1> QED BY <1>6, <1>7, <1>8, <1>9, <1>10, <1>11, <1>12, <1>13, <1>14

LEMMA CallReceiveReadyKeeps ==
    ASSUME IInv, CallReceiveReady, TypeOK'
    PROVE  IInv'
  <1> USE DEF IInv
  <1> DEFINE s == work[current].socket
  <1> PICK o \in pool : pool' = pool \ {o} /\ Submit(o, "recv", s)
    BY DEF CallReceiveReady
  <1>1. /\ netPc = "rearm" /\ netPc' = "recycle"
        /\ UNCHANGED <<iocp, connection, deleted, connected, prepared, current, jobPc, target, sending>>
    BY DEF CallReceiveReady, jobVars
  <1>2. /\ work'[o] = [op |-> "recv", socket |-> s]
        /\ \A p \in Overlappeds : p # o => work'[p] = work[p]
        /\ \A p \in Overlappeds : UnderWay(p) => p # o
        /\ inFlight' = inFlight \/ inFlight' = inFlight \union {o}
    BY Submitting
  <1>3. Completed' = Completed
    BY <1>1, PortStays
  <1>4. /\ current \in Overlappeds /\ Receives(current)
        /\ s \in Sockets /\ s \in Known
    BY <1>1 DEF TypeOK, Owners, HandInv, PostedInv, Receives, UnderWay, Handled
  <1>5. \A p \in Overlappeds : UnderWay(p)' => p = o \/ (UnderWay(p) /\ p # current)
    BY <1>1, <1>2, <1>3 DEF UnderWay, Handled, Owners, TypeOK
  <1>6. Owners'
    BY <1>1, <1>2, <1>3 DEF Owners, TypeOK
  <1>7. PortInv'
    BY <1>1 DEF PortInv
  <1>8. HandInv'
    BY <1>1, <1>2 DEF HandInv, Owners, TypeOK, Known
  <1>9. PostedInv'
    <2> SUFFICES ASSUME NEW p \in Overlappeds, UnderWay(p)'
                 PROVE  /\ work'[p].op # "default"
                        /\ work'[p].socket \in Sockets
                        /\ work'[p].socket \in Known <=> work'[p].op \in {"recv", "send"}
      BY <1>1 DEF PostedInv, Known
    <2>1. CASE p = o
      BY <1>2, <1>4, <2>1
    <2>2. CASE p # o
      BY <1>2, <1>5, <2>2 DEF PostedInv
    <2> QED BY <2>1, <2>2
  <1>10. PreparedInv'
    BY <1>1, <1>2, <1>4, <1>5 DEF PreparedInv, Receives, Known, TypeOK
  <1>11. UniqueInv'
    <2> SUFFICES ASSUME NEW p \in Overlappeds, NEW q \in Overlappeds,
                        Receives(p)', Receives(q)', work'[p].socket = work'[q].socket
                 PROVE  p = q
      BY DEF UniqueInv
    <2>1. \A x \in Overlappeds : Receives(x)' /\ x # o =>
              Receives(x) /\ x # current /\ work[x].socket # s /\ work'[x] = work[x]
      BY <1>2, <1>4, <1>5 DEF UniqueInv, Receives
    <2> QED BY <1>2, <2>1 DEF UniqueInv
  <1>12. ClosedInv'
    BY <1>1 DEF ClosedInv
  <1>13. OrderInv'
    <2>1. \A p \in Completed : work'[p] = work[p]
      BY <1>2, PortHoldsObjects DEF UnderWay
    <2> QED BY <1>1, <2>1, OrderStays
  <1>14. HandlersUseLiveSockets' /\ DanglingOnlyWhileErasing'
    BY <1>1 DEF HandlersUseLiveSockets, DanglingOnlyWhileErasing
  <1> QED BY <1>6, <1>7, <1>8, <1>9, <1>10, <1>11, <1>12, <1>13, <1>14

LEMMA DisconnectDeletesKeeps ==
    ASSUME IInv, DisconnectDeletes, TypeOK'
    PROVE  IInv'
  <1> USE DEF IInv
  <1> DEFINE s == Key(current)
  <1>1. /\ netPc = "disconnect" /\ netPc' = "erase"
        /\ s \in connected
        /\ deleted' = deleted \union {s}
        /\ connection' = [connection EXCEPT ![s] = "closed"]
        /\ UNCHANGED <<pool, work, inFlight, iocp, connected, prepared, current, jobPc, target, sending>>
    BY DEF DisconnectDeletes, jobVars
  <1>2. Completed' = Completed
    BY <1>1, PortStays
  <1>3. /\ current \in Overlappeds /\ UnderWay(current)
        /\ s \in Sockets /\ s = work[current].socket
        /\ work[current].op \in {"recv", "send"}
    <2>1. current \in Overlappeds /\ UnderWay(current)
      BY <1>1 DEF TypeOK, Owners, UnderWay, Handled
    <2>2. s \in Sockets /\ s # NoSocket
      BY <1>1, SocketsAreDistinct DEF TypeOK
    <2>3. s = work[current].socket
      BY <2>2 DEF Key
    <2>4. s \in Known
      BY <1>1 DEF Known
    <2> QED BY <1>1, <2>1, <2>2, <2>3, <2>4 DEF PostedInv
  <1>4. Known' = Known
    BY <1>1 DEF Known
  <1>5. \A p : UnderWay(p)' => UnderWay(p) /\ p # current
    BY <1>1, <1>2, <1>3 DEF UnderWay, Handled, Owners, TypeOK
  <1>6. Owners'
    BY <1>1, <1>2 DEF Owners, TypeOK
  <1>7. PortInv'
    BY <1>1 DEF PortInv
  <1>8. HandInv'
    BY <1>1, <1>4 DEF HandInv
  <1>9. PostedInv'
    BY <1>1, <1>4, <1>5 DEF PostedInv
  <1>10. PreparedInv'
    BY <1>1, <1>4, <1>5 DEF PreparedInv, Receives
  <1>11. UniqueInv'
    BY <1>1, <1>5 DEF UniqueInv, Receives
  <1>12. ClosedInv'
    BY <1>1 DEF ClosedInv, TypeOK
  <1>13. OrderInv'
    <2>1. \A i \in 1 .. Len(iocp) : SuccessfulReceive(i) => work[iocp[i].object].socket # s
      <3> SUFFICES ASSUME NEW i \in 1 .. Len(iocp), SuccessfulReceive(i),
                          work[iocp[i].object].socket = s
                   PROVE  FALSE
        OBVIOUS
      <3>1. CASE work[current].op = "send"
        BY <1>1, <1>3, <3>1 DEF OrderInv
      <3>2. CASE work[current].op = "recv"
        <4>1. iocp[i].object \in Completed /\ iocp[i].object \in Overlappeds
          BY PortHoldsObjects DEF Completed
        <4>2. Receives(iocp[i].object) /\ Receives(current)
          BY <1>3, <3>2, <4>1 DEF Receives, UnderWay, SuccessfulReceive
        <4>3. iocp[i].object = current
          BY <1>3, <4>1, <4>2 DEF UniqueInv
        <4> QED BY <4>1, <4>3 DEF Owners
      <3> QED BY <1>3, <3>1, <3>2
    <2>2. \A i : /\ SuccessfulReceive(i)' <=> SuccessfulReceive(i)
                 /\ FailedSend(i)' <=> FailedSend(i)
      BY <1>1 DEF SuccessfulReceive, FailedSend
    <2>3. \A x : Gone(x) => Gone(x)'
      BY <1>1, <1>3 DEF Gone, TypeOK
    <2> QED BY <1>1, <2>1, <2>2, <2>3 DEF OrderInv
  <1>14. HandlersUseLiveSockets' /\ DanglingOnlyWhileErasing'
    BY <1>1 DEF HandlersUseLiveSockets, DanglingOnlyWhileErasing, Key
  <1> QED BY <1>6, <1>7, <1>8, <1>9, <1>10, <1>11, <1>12, <1>13, <1>14

LEMMA RecycleKeeps ==
    ASSUME IInv, Recycle, TypeOK'
    PROVE  IInv'
  <1> USE DEF IInv
  <1>1. /\ netPc = "recycle" /\ netPc' = "wait"
        /\ work' = [work EXCEPT ![current] = Cleared]
        /\ pool' = pool \union {current}
        /\ current' = NoOverlapped
        /\ UNCHANGED <<inFlight, iocp, connection, deleted, connected, prepared, jobPc, target, sending>>
    BY DEF Recycle, osVars, jobVars
  <1>2. Completed' = Completed
    BY <1>1, PortStays
  <1>3. current \in Overlappeds /\ NoOverlapped \notin Overlappeds
    BY <1>1, OverlappedsAreObjects DEF TypeOK, Owners
  <1>4. /\ inFlight \subseteq Overlappeds /\ Completed \subseteq Overlappeds
        /\ pool \subseteq Overlappeds /\ sending \in Overlappeds \union {NoOverlapped}
    BY PortHoldsObjects DEF TypeOK
  <1>5. \A p \in Overlappeds :
            UnderWay(p)' => UnderWay(p) /\ p # current /\ work'[p] = work[p]
    BY <1>1, <1>2, <1>3 DEF UnderWay, Handled, Owners, TypeOK
  <1>6. Owners'
    BY <1>1, <1>2, <1>3, <1>4 DEF Owners
  <1>7. PortInv'
    BY <1>1 DEF PortInv
  <1>8. HandInv'
    BY <1>1, <1>3, <1>4 DEF HandInv, Owners, Known, TypeOK
  <1>9. PostedInv'
    BY <1>1, <1>5 DEF PostedInv, Known
  <1>10. PreparedInv'
    BY <1>1, <1>5 DEF PreparedInv, Receives, Known
  <1>11. UniqueInv'
    BY <1>5 DEF UniqueInv, Receives
  <1>12. ClosedInv'
    BY <1>1 DEF ClosedInv
  <1>13. OrderInv'
    <2>1. \A p \in Completed : work'[p] = work[p]
      BY <1>1, <1>4 DEF Owners, TypeOK
    <2> QED BY <1>1, <2>1, OrderStays
  <1>14. HandlersUseLiveSockets' /\ DanglingOnlyWhileErasing'
    BY <1>1 DEF HandlersUseLiveSockets, DanglingOnlyWhileErasing
  <1> QED BY <1>6, <1>7, <1>8, <1>9, <1>10, <1>11, <1>12, <1>13, <1>14

-----------------------------------------------------------------------------
(* The job thread *)

LEMMA SendTakesOverlappedKeeps ==
    ASSUME IInv, SendTakesOverlapped, TypeOK'
    PROVE  IInv'
  <1> USE DEF IInv
  <1> PICK o \in pool :
          /\ pool' = pool \ {o}
          /\ work' = [work EXCEPT ![o] = [op |-> "send", socket |-> target]]
          /\ sending' = o
    BY DEF SendTakesOverlapped
  <1>1. /\ jobPc = "found" /\ jobPc' = "prepared"
        /\ UNCHANGED <<inFlight, iocp, connection, deleted, connected, prepared, netPc, current, target>>
    BY DEF SendTakesOverlapped, osVars, netVars
  <1>2. Completed' = Completed
    BY <1>1, PortStays
  <1>3. o \in Overlappeds /\ NoOverlapped \notin Overlappeds
    BY OverlappedsAreObjects DEF TypeOK
  <1>4. \A p \in Overlappeds :
            UnderWay(p)' => UnderWay(p) /\ p # o /\ work'[p] = work[p]
    BY <1>1, <1>2 DEF UnderWay, Handled, Owners, TypeOK
  <1>5. netPc # "wait" => current # o /\ work'[current] = work[current]
    BY DEF Owners, TypeOK
  <1>6. Owners'
    BY <1>1, <1>2, <1>3 DEF Owners
  <1>7. PortInv'
    BY <1>1 DEF PortInv
  <1>8. HandInv'
    BY <1>1, <1>3, <1>5 DEF HandInv, Known, TypeOK
  <1>9. PostedInv'
    BY <1>1, <1>4 DEF PostedInv, Known
  <1>10. PreparedInv'
    BY <1>1, <1>4 DEF PreparedInv, Receives, Known
  <1>11. UniqueInv'
    BY <1>4 DEF UniqueInv, Receives
  <1>12. ClosedInv'
    BY <1>1 DEF ClosedInv
  <1>13. OrderInv'
    <2>1. \A p \in Completed : work'[p] = work[p]
      BY PortHoldsObjects DEF Owners, TypeOK
    <2> QED BY <1>1, <1>5, <2>1, OrderStays
  <1>14. HandlersUseLiveSockets' /\ DanglingOnlyWhileErasing'
    BY <1>1, <1>5 DEF HandlersUseLiveSockets, DanglingOnlyWhileErasing, Key
  <1> QED BY <1>6, <1>7, <1>8, <1>9, <1>10, <1>11, <1>12, <1>13, <1>14

LEMMA SendSubmitsKeeps ==
    ASSUME IInv, SendSubmits, TypeOK'
    PROVE  IInv'
  <1> USE DEF IInv
  <1>1. /\ jobPc = "prepared" /\ jobPc' = "idle"
        /\ inFlight' = inFlight \/ inFlight' = inFlight \union {sending}
        /\ sending' = NoOverlapped
        /\ UNCHANGED <<pool, work, iocp, connection, deleted, connected, prepared, netPc, current>>
    BY DEF SendSubmits, netVars
  <1>2. Completed' = Completed
    BY <1>1, PortStays
  <1>3. /\ sending \in Overlappeds /\ NoOverlapped \notin Overlappeds
        /\ work[sending].op = "send" /\ work[sending].socket = target
        /\ target \in Known /\ target \in Sockets
        /\ sending # current
    BY <1>1, OverlappedsAreObjects DEF TypeOK, Owners, HandInv, Known
  <1>4. \A p : UnderWay(p)' => UnderWay(p) \/ p = sending
    BY <1>1, <1>2 DEF UnderWay, Handled
  <1>5. Owners'
    BY <1>1, <1>2, <1>3, PortHoldsObjects DEF Owners, TypeOK
  <1>6. PortInv'
    BY <1>1 DEF PortInv
  <1>7. HandInv'
    BY <1>1 DEF HandInv, Known
  <1>8. PostedInv'
    <2> SUFFICES ASSUME NEW p \in Overlappeds, UnderWay(p)'
                 PROVE  /\ work[p].op # "default"
                        /\ work[p].socket \in Sockets
                        /\ work[p].socket \in Known <=>
                               work[p].op \in {"recv", "send"} \/ (p = current /\ netPc = "rearm")
      BY <1>1 DEF PostedInv, Known
    <2>1. CASE p = sending
      BY <1>3, <2>1
    <2>2. CASE p # sending
      BY <1>4, <2>2 DEF PostedInv
    <2> QED BY <2>1, <2>2
  <1>9. PreparedInv'
    BY <1>1, <1>3, <1>4 DEF PreparedInv, Receives, Known
  <1>10. UniqueInv'
    BY <1>1, <1>3, <1>4 DEF UniqueInv, Receives
  <1>11. ClosedInv'
    BY <1>1 DEF ClosedInv
  <1>12. OrderInv'
    BY <1>1, OrderStays
  <1>13. HandlersUseLiveSockets' /\ DanglingOnlyWhileErasing'
    BY <1>1 DEF HandlersUseLiveSockets, DanglingOnlyWhileErasing, Key
  <1> QED BY <1>5, <1>6, <1>7, <1>8, <1>9, <1>10, <1>11, <1>12, <1>13

-----------------------------------------------------------------------------
(* Winsock *)

LEMMA CompleteKeeps ==
    ASSUME IInv, NEW o \in Overlappeds, Complete(o), TypeOK'
    PROVE  IInv'
  <1> USE DEF IInv
  <1> PICK s : s = work[o].socket
    OBVIOUS
  <1> PICK n \in Nat : n = Len(iocp)
    BY DEF TypeOK
  <1> PICK r \in OutcomesOf(work[o].op, connection[s]) :
          /\ iocp' = Append(iocp, [object |-> o, outcome |-> r])
          /\ connection' = IF work[o].op \in {"accept", "connect"} /\ r = "ok"
                           THEN [connection EXCEPT ![s] = "up"]
                           ELSE connection
    BY DEF Complete
  <1>1. /\ o \in inFlight /\ inFlight' = inFlight \ {o}
        /\ UNCHANGED <<pool, work, deleted, connected, prepared, netPc, current, jobPc, target, sending>>
    BY DEF Complete, netVars, jobVars
  <1>2. /\ Len(iocp') = n + 1
        /\ \A i \in 1 .. n : iocp'[i] = iocp[i]
        /\ iocp'[n + 1] = [object |-> o, outcome |-> r]
    BY DEF TypeOK
  <1>3. Completed' = Completed \union {o}
    <2>1. Completed \subseteq Completed'
      BY <1>2 DEF Completed
    <2>2. o \in Completed'
      BY <1>2 DEF Completed
    <2>3. ASSUME NEW i \in 1 .. n + 1
          PROVE  iocp'[i].object \in Completed \union {o}
      BY <1>2 DEF Completed
    <2> QED BY <1>2, <2>1, <2>2, <2>3 DEF Completed
  <1>4. \A p : UnderWay(p)' <=> UnderWay(p)
    BY <1>1, <1>3 DEF UnderWay, Handled
  <1>5. UnderWay(o) /\ o # current /\ s \in Sockets
    BY <1>1 DEF UnderWay, PostedInv, Owners
  <1>6. Owners'
    BY <1>1, <1>3 DEF Owners
  <1>7. PortInv'
    <2>1. \A i \in 1 .. n : iocp[i].object # o
      BY <1>1 DEF Owners, Completed
    <2> QED BY <1>2, <2>1 DEF PortInv
  <1>8. HandInv'
    BY <1>1 DEF HandInv, Known
  <1>9. PostedInv'
    BY <1>1, <1>4 DEF PostedInv, Known
  <1>10. PreparedInv'
    BY <1>1, <1>4 DEF PreparedInv, Receives, Known
  <1>11. UniqueInv'
    BY <1>1, <1>4 DEF UniqueInv, Receives
  <1>12. \A x \in Known : connection'[x] = connection[x]
    BY <1>5 DEF PostedInv, TypeOK, Known
  <1>13. ClosedInv'
    BY <1>1, <1>12 DEF ClosedInv, Known
  <1>14. OrderInv'
    <2>1. \A i \in 1 .. n : iocp[i].object \in Overlappeds /\ UnderWay(iocp[i].object)
      BY PortHoldsObjects DEF Completed, UnderWay
    <2>2. \A i \in 1 .. n : /\ SuccessfulReceive(i)' <=> SuccessfulReceive(i)
                            /\ FailedSend(i)' <=> FailedSend(i)
                            /\ iocp'[i].object = iocp[i].object
      BY <1>1, <1>2 DEF SuccessfulReceive, FailedSend
    <2>3. SuccessfulReceive(n + 1)' => ~ Gone(s) /\ s \notin deleted /\ s \in Known
      <3> SUFFICES ASSUME work[o].op = "recv", r = "ok"
                   PROVE  ~ Gone(s) /\ s \notin deleted /\ s \in Known
        BY <1>1, <1>2 DEF SuccessfulReceive
      <3>1. connection[s] \in {"up", "closing"}
        BY DEF OutcomesOf
      <3> QED BY <1>5, <3>1 DEF Gone, ClosedInv, PostedInv
    <2>4. FailedSend(n + 1)' => connection'[s] \notin {"up", "closing"} /\ ~ SuccessfulReceive(n + 1)'
      <3> SUFFICES ASSUME work[o].op = "send", r # "ok"
                   PROVE  connection[s] \notin {"up", "closing"}
        BY <1>1, <1>2 DEF FailedSend, SuccessfulReceive
      <3> QED BY DEF OutcomesOf
    <2>5. \A i \in 1 .. n : FailedSend(i) => work[iocp[i].object].socket \in Known
      BY <2>1 DEF FailedSend, PostedInv
    <2>6. \A x \in Known : Gone(x) => connection'[x] \notin {"up", "closing"}
      BY <1>12 DEF Gone
    <2>7. \A i \in 1 .. n + 1 :
              SuccessfulReceive(i)' => work'[iocp'[i].object].socket \notin deleted'
      <3> SUFFICES ASSUME NEW i \in 1 .. n + 1, SuccessfulReceive(i)'
                   PROVE  work[iocp'[i].object].socket \notin deleted
        BY <1>1
      <3>1. CASE i = n + 1
        BY <1>2, <2>3, <3>1
      <3>2. CASE i \in 1 .. n
        BY <2>2, <3>2 DEF OrderInv
      <3> QED BY <1>2, <3>1, <3>2
    <2>8. ASSUME NEW i \in 1 .. n + 1, FailedSend(i)'
          PROVE  /\ connection'[work[iocp'[i].object].socket] \notin {"up", "closing"}
                 /\ \A j \in i .. n + 1 : SuccessfulReceive(j)' =>
                        work[iocp'[j].object].socket # work[iocp'[i].object].socket
      <3>1. CASE i = n + 1
        <4>1. /\ work[iocp'[i].object].socket = s /\ connection'[s] \notin {"up", "closing"}
              /\ \A j \in i .. n + 1 : j = n + 1
              /\ ~ SuccessfulReceive(n + 1)'
          BY <1>2, <2>4, <2>8, <3>1
        <4> QED BY <1>1, <4>1 DEF Gone
      <3>2. CASE i \in 1 .. n
        <4> PICK x : x = work[iocp[i].object].socket
          OBVIOUS
        <4>1. FailedSend(i) /\ x \in Known /\ Gone(x) /\ iocp'[i].object = iocp[i].object
          BY <2>2, <2>5, <2>8, <3>2 DEF OrderInv
        <4>2. connection'[x] \notin {"up", "closing"}
          BY <2>6, <4>1 DEF Gone
        <4>3. ASSUME NEW j \in i .. n + 1, SuccessfulReceive(j)'
              PROVE  work[iocp'[j].object].socket # x
          <5>1. CASE j = n + 1
            BY <1>2, <2>3, <4>1, <4>3, <5>1
          <5>2. CASE j \in i .. n
            BY <2>2, <3>2, <4>1, <4>3, <5>2 DEF OrderInv
          <5>3. j = n + 1 \/ j \in i .. n
            BY <3>2
          <5> QED BY <5>1, <5>2, <5>3
        <4> QED BY <1>1, <4>1, <4>2, <4>3 DEF Gone
      <3> QED BY <1>2, <3>1, <3>2
    <2>9. ASSUME netPc = "disconnect", work[current].op = "send"
          PROVE  /\ connection'[work[current].socket] \notin {"up", "closing"}
                 /\ \A j \in 1 .. n + 1 : SuccessfulReceive(j)' =>
                        work[iocp'[j].object].socket # work[current].socket
      <3> PICK x : x = work[current].socket
        OBVIOUS
      <3>1. x \in Known /\ Gone(x)
        BY <2>9 DEF OrderInv, PostedInv, Owners, TypeOK, UnderWay, Handled
      <3>2. connection'[x] \notin {"up", "closing"}
        BY <1>1, <2>6, <3>1 DEF Gone
      <3>3. ASSUME NEW j \in 1 .. n + 1, SuccessfulReceive(j)'
            PROVE  work[iocp'[j].object].socket # x
        <4>1. CASE j = n + 1
          BY <1>2, <2>3, <3>1, <3>3, <4>1
        <4>2. CASE j \in 1 .. n
          BY <2>2, <2>9, <3>3, <4>2 DEF OrderInv
        <4> QED BY <1>2, <4>1, <4>2
      <3> QED BY <3>2, <3>3
    <2> HIDE DEF IInv
    <2>10. \A i \in 1 .. n + 1 : FailedSend(i)' =>
               /\ Gone(work[iocp[i].object].socket)'
               /\ \A j \in i .. n + 1 : SuccessfulReceive(j)' =>
                      work'[iocp'[j].object].socket # work'[iocp'[i].object].socket
      BY <1>1, <2>8 DEF Gone
    <2>11. (netPc = "disconnect" /\ work[current].op = "send")' =>
               /\ Gone(work[current].socket)'
               /\ \A j \in 1 .. n + 1 : SuccessfulReceive(j)' =>
                      work'[iocp'[j].object].socket # work'[current'].socket
      BY <1>1, <2>9 DEF Gone
    <2> QED BY <1>2, <2>7, <2>10, <2>11 DEF OrderInv
  <1>15. HandlersUseLiveSockets' /\ DanglingOnlyWhileErasing'
    BY <1>1 DEF HandlersUseLiveSockets, DanglingOnlyWhileErasing, Key
  <1> QED BY <1>6, <1>7, <1>8, <1>9, <1>10, <1>11, <1>13, <1>14, <1>15

LEMMA DequeueKeeps ==
    ASSUME IInv, Dequeue, TypeOK'
    PROVE  IInv'
  <1> USE DEF IInv
  <1> PICK n \in Nat : n = Len(iocp)
    BY DEF TypeOK
  <1> PICK c : c = iocp[1].object
    OBVIOUS
  <1> PICK r : r = iocp[1].outcome
    OBVIOUS
  <1>1. /\ netPc = "wait" /\ netPc' = HandlerOf(work[c].op, r)
        /\ current' = c
        /\ UNCHANGED <<pool, work, inFlight, connection, deleted, connected, prepared, jobPc, target, sending>>
    BY DEF Dequeue, jobVars
  <1>2. /\ n \in Nat \ {0} /\ Len(iocp') = n - 1
        /\ \A i \in 1 .. n - 1 : i + 1 \in 1 .. n /\ iocp'[i] = iocp[i + 1]
    BY DEF Dequeue, TypeOK
  <1>3. /\ c \in Completed /\ c \in Overlappeds /\ current = NoOverlapped
        /\ NoOverlapped \notin Overlappeds
    <2>1. c \in Completed
      BY <1>2 DEF Completed
    <2> QED BY <1>1, <2>1, PortHoldsObjects, OverlappedsAreObjects DEF Owners
  <1>4. Completed' = Completed \ {c}
    <2>1. ASSUME NEW i \in 1 .. n - 1
          PROVE  iocp'[i].object \in Completed \ {c}
      BY <1>2, <2>1 DEF Completed, PortInv
    <2>2. ASSUME NEW i \in 1 .. n, iocp[i].object # c
          PROVE  iocp[i].object \in Completed'
      <3>1. i - 1 \in 1 .. n - 1 /\ iocp'[i - 1] = iocp[i]
        BY <1>2, <2>2
      <3> QED BY <1>2, <3>1 DEF Completed
    <2> HIDE DEF IInv
    <2>3. Completed' \subseteq Completed \ {c}
      BY <1>2, <2>1 DEF Completed
    <2>4. Completed \ {c} \subseteq Completed'
      <3> SUFFICES ASSUME NEW p \in Completed, p # c
                   PROVE  p \in Completed'
        OBVIOUS
      <3> PICK i \in 1 .. n : p = iocp[i].object
        BY DEF Completed
      <3> QED BY <2>2
    <2> QED BY <2>3, <2>4
  <1>5. netPc' \in {"register", "receive", "disconnect", "recycle"}
    BY <1>1 DEF HandlerOf
  <1>6. \A p \in Overlappeds : UnderWay(p)' => UnderWay(p) /\ p # current
    BY <1>1, <1>3, <1>4 DEF UnderWay, Handled
  <1>7. Owners'
    BY <1>1, <1>3, <1>4, <1>5 DEF Owners
  <1>8. PortInv'
    BY <1>2 DEF PortInv
  <1>9. HandInv'
    <2>1. /\ netPc' = "register" => work[c].op \in {"accept", "connect"}
          /\ netPc' = "receive" => work[c].op = "recv"
      BY <1>1 DEF HandlerOf
    <2> QED BY <1>1, <1>5, <2>1 DEF HandInv, Known
  <1>10. PostedInv'
    BY <1>1, <1>5, <1>6 DEF PostedInv, Known
  <1>11. PreparedInv'
    BY <1>1, <1>6 DEF PreparedInv, Receives, Known
  <1>12. UniqueInv'
    BY <1>1, <1>6 DEF UniqueInv, Receives
  <1>13. ClosedInv'
    BY <1>1 DEF ClosedInv
  <1>14. OrderInv'
    <2>1. \A i \in 1 .. n - 1 : /\ SuccessfulReceive(i)' <=> SuccessfulReceive(i + 1)
                                /\ FailedSend(i)' <=> FailedSend(i + 1)
                                /\ iocp'[i].object = iocp[i + 1].object
      BY <1>1, <1>2 DEF SuccessfulReceive, FailedSend
    <2>2. \A i \in 1 .. n - 1 : \A j \in i .. n - 1 : j + 1 \in i + 1 .. n
      OBVIOUS
    <2>3. \A i \in 1 .. n - 1 :
              SuccessfulReceive(i)' => work'[iocp'[i].object].socket \notin deleted'
      BY <1>1, <1>2, <2>1 DEF OrderInv
    <2>4. ASSUME NEW i \in 1 .. n - 1, FailedSend(i)'
          PROVE  /\ Gone(work[iocp[i].object].socket)'
                 /\ \A j \in i .. n - 1 : SuccessfulReceive(j)' =>
                        work'[iocp'[j].object].socket # work'[iocp'[i].object].socket
      <3>1. FailedSend(i + 1) /\ i + 1 \in 1 .. n
        BY <1>2, <2>1, <2>4
      <3>2. connection[work[iocp[i + 1].object].socket] \notin {"up", "closing"}
        BY <3>1 DEF OrderInv, Gone
      <3>3. ASSUME NEW j \in i .. n - 1, SuccessfulReceive(j)'
            PROVE  work[iocp'[j].object].socket # work[iocp'[i].object].socket
        <4>1. j \in 1 .. n - 1 /\ j + 1 \in i + 1 .. n
          OBVIOUS
        <4>2. SuccessfulReceive(j + 1)
          BY <2>1, <3>3, <4>1
        <4> QED BY <2>1, <3>1, <4>1, <4>2 DEF OrderInv
      <3> QED BY <1>1, <2>1, <3>2, <3>3 DEF Gone
    <2>5. ASSUME netPc' = "disconnect", work[c].op = "send"
          PROVE  /\ Gone(work[current].socket)'
                 /\ \A j \in 1 .. n - 1 : SuccessfulReceive(j)' =>
                        work'[iocp'[j].object].socket # work'[current'].socket
      <3>1. FailedSend(1)
        BY <1>1, <2>5 DEF FailedSend, HandlerOf
      <3>2. connection[work[c].socket] \notin {"up", "closing"}
        BY <1>2, <3>1 DEF OrderInv, Gone
      <3>3. ASSUME NEW j \in 1 .. n - 1, SuccessfulReceive(j)'
            PROVE  work[iocp'[j].object].socket # work[c].socket
        <4>1. SuccessfulReceive(j + 1) /\ j + 1 \in 1 .. n
          BY <1>2, <2>1, <3>3
        <4> QED BY <1>2, <2>1, <3>1, <4>1 DEF OrderInv
      <3> QED BY <1>1, <3>2, <3>3 DEF Gone
    <2> HIDE DEF IInv
    <2> QED BY <1>1, <1>2, <2>3, <2>4, <2>5 DEF OrderInv
  <1>15. HandlersUseLiveSockets'
    <2>1. CASE netPc' = "register"
      <3>1. work[c].op \in {"accept", "connect"}
        BY <1>1, <2>1 DEF HandlerOf
      <3>2. work[c].socket \notin Known
        BY <1>3, <3>1 DEF PostedInv, UnderWay
      <3> QED BY <1>1, <3>2 DEF HandlersUseLiveSockets, Known
    <2>2. CASE netPc' = "receive"
      <3>1. work[c].op = "recv" /\ r = "ok"
        BY <1>1, <2>2 DEF HandlerOf
      <3>2. SuccessfulReceive(1) /\ 1 \in 1 .. Len(iocp)
        BY <1>2, <3>1 DEF SuccessfulReceive
      <3>3. work[c].socket \notin deleted
        BY <3>2 DEF OrderInv
      <3> QED BY <1>1, <3>3 DEF HandlersUseLiveSockets
    <2> QED BY <1>5, <2>1, <2>2 DEF HandlersUseLiveSockets
  <1>16. DanglingOnlyWhileErasing'
    BY <1>1, <1>5 DEF DanglingOnlyWhileErasing
  <1> QED BY <1>7, <1>8, <1>9, <1>10, <1>11, <1>12, <1>13, <1>14, <1>15, <1>16

-----------------------------------------------------------------------------
(* The types *)

LEMMA SubmittingTypes ==
    ASSUME TypeOK, NEW o \in Overlappeds, NEW op \in {"accept", "connect", "recv"},
           NEW s \in Sockets, Submit(o, op, s)
    PROVE  /\ work' \in [Overlappeds -> [op : {"default", "accept", "connect", "recv", "send"},
                                         socket : Sockets \union {NoSocket}]]
           /\ inFlight' \subseteq Overlappeds
  BY DEF TypeOK, Submit

LEMMA CallbackTypes ==
    ASSUME TypeOK, NEW s \in Sockets, Callback(s)
    PROVE  jobs' \in Seq(Sockets) /\ queued' \in 0 .. MaxJobs
  <1>1. CASE UNCHANGED <<jobs, queued>>
    BY <1>1 DEF TypeOK
  <1>2. CASE queued < MaxJobs /\ jobs' = Append(jobs, s) /\ queued' = queued + 1
    BY <1>2, JobsAreCounted, AppendProperties DEF TypeOK
  <1> QED BY <1>1, <1>2 DEF Callback

\* The object in hand names a socket for as long as its operation matters.
LEMMA HandledSocket ==
    ASSUME TypeOK, Owners, PostedInv, netPc \in {"register", "receive", "rearm"}
    PROVE  current \in Overlappeds /\ work[current].socket \in Sockets
  BY DEF TypeOK, Owners, PostedInv, UnderWay, Handled

LEMMA TypeStep ==
    ASSUME TypeOK, Owners, HandInv, PostedInv, [Next]_vars
    PROVE  TypeOK'
  <1> USE DEF osVars, netVars, jobVars
  <1>1. ASSUME NEW s \in Sockets, PrepareAcceptSocket(s)
        PROVE  TypeOK'
    <2> PICK o \in pool : pool' = pool \ {o} /\ Submit(o, "accept", s)
      BY <1>1 DEF PrepareAcceptSocket
    <2> QED BY <1>1, SubmittingTypes DEF PrepareAcceptSocket, TypeOK
  <1>2. ASSUME NEW s \in Sockets, SetupConnectSocket(s)
        PROVE  TypeOK'
    <2> PICK o \in pool : pool' = pool \ {o} /\ Submit(o, "connect", s)
      BY <1>2 DEF SetupConnectSocket
    <2> QED BY <1>2, SubmittingTypes DEF SetupConnectSocket, TypeOK
  <1>3. ASSUME NEW s \in Sockets, PrepareAcceptSocketFails(s) \/ SetupConnectSocketFails(s)
        PROVE  TypeOK'
    BY <1>3 DEF PrepareAcceptSocketFails, SetupConnectSocketFails, TypeOK
  <1>4. ASSUME NEW s \in Sockets, PeerCloses(s) \/ ConnectionBreaks(s)
        PROVE  TypeOK'
    BY <1>4 DEF PeerCloses, ConnectionBreaks, TypeOK, Connections
  <1>5. ASSUME NEW o \in Overlappeds, Complete(o)
        PROVE  TypeOK'
    <2> PICK r \in OutcomesOf(work[o].op, connection[work[o].socket]) :
            /\ iocp' = Append(iocp, [object |-> o, outcome |-> r])
            /\ connection' = IF work[o].op \in {"accept", "connect"} /\ r = "ok"
                             THEN [connection EXCEPT ![work[o].socket] = "up"]
                             ELSE connection
      BY <1>5 DEF Complete
    <2>1. r \in Outcomes
      BY DEF OutcomesOf, Outcomes
    <2>2. iocp' \in Seq(Completions)
      BY <2>1, AppendProperties DEF TypeOK, Completions
    <2>3. connection' \in [Sockets -> Connections]
      BY DEF TypeOK, Connections
    <2> QED BY <1>5, <2>2, <2>3 DEF Complete, TypeOK
  <1>6. CASE Dequeue
    <2>1. Head(iocp) \in Completions /\ iocp' \in Seq(Completions)
      BY <1>6, HeadTailProperties DEF Dequeue, TypeOK
    <2>2. netPc' \in {"register", "receive", "disconnect", "recycle"}
      BY <1>6 DEF Dequeue, HandlerOf
    <2> QED BY <1>6, <2>1, <2>2 DEF Dequeue, TypeOK, Completions
  <1>7. CASE HandleNewConnection
    <2>1. work[current].socket \in Sockets
      BY <1>7, HandledSocket DEF HandleNewConnection
    <2>2. jobs' \in Seq(Sockets) /\ queued' \in 0 .. MaxJobs
      BY <1>7, <2>1, CallbackTypes DEF HandleNewConnection
    <2> QED BY <1>7, <2>1, <2>2 DEF HandleNewConnection, TypeOK
  <1>8. CASE HandleReceiveComplete
    <2>1. jobs' \in Seq(Sockets) /\ queued' \in 0 .. MaxJobs
      BY <1>8, HandledSocket, CallbackTypes DEF HandleReceiveComplete
    <2> QED BY <1>8, <2>1 DEF HandleReceiveComplete, TypeOK
  <1>9. CASE CallReceiveReady
    <2> PICK o \in pool : pool' = pool \ {o} /\ Submit(o, "recv", work[current].socket)
      BY <1>9 DEF CallReceiveReady
    <2>1. work[current].socket \in Sockets
      BY <1>9, HandledSocket DEF CallReceiveReady
    <2> QED BY <1>9, <2>1, SubmittingTypes DEF CallReceiveReady, TypeOK
  <1>10. CASE CallReceiveReadyFails \/ DisconnectUnknown
    BY <1>10 DEF CallReceiveReadyFails, DisconnectUnknown, TypeOK
  <1>11. CASE DisconnectDeletes
    BY <1>11 DEF DisconnectDeletes, TypeOK, Connections
  <1>12. CASE DisconnectErases
    BY <1>12 DEF DisconnectErases, TypeOK
  <1>13. CASE Recycle
    <2>1. current \in Overlappeds
      BY <1>13 DEF Recycle, Owners, TypeOK
    <2> QED BY <1>13, <2>1 DEF Recycle, TypeOK, Cleared
  <1>14. CASE SendFindsNothing
    BY <1>14, HeadTailProperties DEF SendFindsNothing, TypeOK
  <1>15. CASE SendFindsSocket
    BY <1>15, HeadTailProperties DEF SendFindsSocket, TypeOK
  <1>16. CASE SendTakesOverlapped
    BY <1>16 DEF SendTakesOverlapped, HandInv, Known, TypeOK
  <1>17. CASE SendSubmits
    BY <1>17 DEF SendSubmits, Owners, TypeOK
  <1>18. CASE UNCHANGED vars
    BY <1>18 DEF vars, TypeOK
  <1> QED
    BY <1>1, <1>2, <1>3, <1>4, <1>5, <1>6, <1>7, <1>8, <1>9, <1>10, <1>11, <1>12, <1>13,
       <1>14, <1>15, <1>16, <1>17, <1>18
    DEF Next, Main, Winsock, Peers, NetworkThread, JobThread

-----------------------------------------------------------------------------
(* The invariant *)

LEMMA InitIInv == Init => IInv
  <1> SUFFICES ASSUME Init PROVE IInv
    OBVIOUS
  <1> USE DEF Init
  <1>1. Completed = {}
    BY DEF Completed
  <1>2. \A o : ~ UnderWay(o)
    BY <1>1 DEF UnderWay, Handled
  <1>3. TypeOK
    BY JobsAreCounted DEF TypeOK, Cleared, Connections
  <1>4. Owners
    BY <1>1, OverlappedsAreObjects DEF Owners
  <1>5. PortInv /\ HandInv /\ ClosedInv /\ OrderInv
    BY DEF PortInv, HandInv, ClosedInv, OrderInv
  <1>6. PostedInv /\ PreparedInv /\ UniqueInv
    BY <1>2 DEF PostedInv, PreparedInv, UniqueInv, Receives, Known
  <1>7. HandlersUseLiveSockets /\ DanglingOnlyWhileErasing
    BY DEF HandlersUseLiveSockets, DanglingOnlyWhileErasing
  <1> QED BY <1>3, <1>4, <1>5, <1>6, <1>7 DEF IInv

LEMMA NextIInv == IInv /\ [Next]_vars => IInv'
  <1> SUFFICES ASSUME IInv, [Next]_vars PROVE IInv'
    OBVIOUS
  <1> USE DEF osVars, netVars, jobVars
  <1>0. TypeOK'
    BY TypeStep DEF IInv
  <1>1. ASSUME NEW s \in Sockets, PrepareAcceptSocket(s)
        PROVE  IInv'
    <2> PICK o \in pool : pool' = pool \ {o} /\ Submit(o, "accept", s)
      BY <1>1 DEF PrepareAcceptSocket
    <2> QED BY <1>1, PostingKeeps DEF PrepareAcceptSocket
  <1>2. ASSUME NEW s \in Sockets, SetupConnectSocket(s)
        PROVE  IInv'
    <2> PICK o \in pool : pool' = pool \ {o} /\ Submit(o, "connect", s)
      BY <1>2 DEF SetupConnectSocket
    <2> QED BY <1>2, PostingKeeps DEF SetupConnectSocket
  <1>3. ASSUME NEW s \in Sockets, PrepareAcceptSocketFails(s) \/ SetupConnectSocketFails(s)
        PROVE  IInv'
    <2>1. HandInv' /\ DanglingOnlyWhileErasing' /\ Known' = Known
      BY <1>3 DEF PrepareAcceptSocketFails, SetupConnectSocketFails, IInv, HandInv,
                  DanglingOnlyWhileErasing, Known, Key
    <2> QED BY <1>0, <1>3, <2>1, QuietKeeps DEF PrepareAcceptSocketFails, SetupConnectSocketFails
  <1>4. ASSUME NEW s \in Sockets, PeerCloses(s) \/ ConnectionBreaks(s)
        PROVE  IInv'
    <2>1. HandInv' /\ DanglingOnlyWhileErasing' /\ Known' = Known
      BY <1>4 DEF PeerCloses, ConnectionBreaks, IInv, HandInv, DanglingOnlyWhileErasing, Known, Key
    <2>2. connection \in [Sockets -> Connections]
      BY DEF IInv, TypeOK
    <2>3. \A x \in Sockets : connection'[x] = connection[x] \/ connection[x] \in {"up", "closing"}
      BY <1>4, <2>2 DEF PeerCloses, ConnectionBreaks
    <2> QED BY <1>0, <1>4, <2>1, <2>3, QuietKeeps DEF PeerCloses, ConnectionBreaks
  <1>5. ASSUME NEW o \in Overlappeds, Complete(o)
        PROVE  IInv'
    BY <1>0, <1>5, CompleteKeeps
  <1>6. CASE Dequeue
    BY <1>0, <1>6, DequeueKeeps
  <1>7. CASE HandleNewConnection
    BY <1>0, <1>7, HandleNewConnectionKeeps
  <1>8. CASE HandleReceiveComplete
    <2>1. HandInv' /\ DanglingOnlyWhileErasing' /\ Known' = Known
      BY <1>8 DEF HandleReceiveComplete, IInv, HandInv, DanglingOnlyWhileErasing, Known
    <2> QED BY <1>0, <1>8, <2>1, QuietKeeps DEF HandleReceiveComplete
  <1>9. CASE CallReceiveReady
    BY <1>0, <1>9, CallReceiveReadyKeeps
  <1>10. CASE CallReceiveReadyFails \/ DisconnectUnknown
    <2>1. HandInv' /\ DanglingOnlyWhileErasing' /\ Known' = Known
      BY <1>10 DEF CallReceiveReadyFails, DisconnectUnknown, IInv, HandInv, DanglingOnlyWhileErasing, Known
    <2> QED BY <1>0, <1>10, <2>1, QuietKeeps DEF CallReceiveReadyFails, DisconnectUnknown
  <1>11. CASE DisconnectDeletes
    BY <1>0, <1>11, DisconnectDeletesKeeps
  <1>12. CASE DisconnectErases
    <2>1. Key(current) \in deleted /\ connected \intersect deleted = {Key(current)}
      BY <1>12 DEF DisconnectErases, IInv, DanglingOnlyWhileErasing
    <2>2. HandInv' /\ DanglingOnlyWhileErasing' /\ Known' = Known
      BY <1>12, <2>1 DEF DisconnectErases, IInv, HandInv, DanglingOnlyWhileErasing, Known
    <2> QED BY <1>0, <1>12, <2>2, QuietKeeps DEF DisconnectErases
  <1>13. CASE Recycle
    BY <1>0, <1>13, RecycleKeeps
  <1>14. CASE SendFindsNothing
    <2>1. HandInv' /\ DanglingOnlyWhileErasing' /\ Known' = Known
      BY <1>14 DEF SendFindsNothing, IInv, HandInv, DanglingOnlyWhileErasing, Known, Key
    <2> QED BY <1>0, <1>14, <2>1, QuietKeeps DEF SendFindsNothing
  <1>15. CASE SendFindsSocket
    <2>1. HandInv' /\ DanglingOnlyWhileErasing' /\ Known' = Known
      BY <1>15 DEF SendFindsSocket, IInv, HandInv, DanglingOnlyWhileErasing, Known, Key
    <2> QED BY <1>0, <1>15, <2>1, QuietKeeps DEF SendFindsSocket
  <1>16. CASE SendTakesOverlapped
    BY <1>0, <1>16, SendTakesOverlappedKeeps
  <1>17. CASE SendSubmits
    BY <1>0, <1>17, SendSubmitsKeeps
  <1>18. CASE UNCHANGED vars
    <2>1. HandInv' /\ DanglingOnlyWhileErasing' /\ Known' = Known
      BY <1>18 DEF vars, IInv, HandInv, DanglingOnlyWhileErasing, Known, Key
    <2> QED BY <1>0, <1>18, <2>1, QuietKeeps DEF vars
  <1> QED
    BY <1>1, <1>2, <1>3, <1>4, <1>5, <1>6, <1>7, <1>8, <1>9, <1>10, <1>11, <1>12, <1>13,
       <1>14, <1>15, <1>16, <1>17, <1>18
    DEF Next, Main, Winsock, Peers, NetworkThread, JobThread

LEMMA Invariant == Spec => []IInv
  BY InitIInv, NextIInv, PTL DEF Spec

-----------------------------------------------------------------------------
(* What follows from it *)

\* A set of which any two members are equal has at most one.
LEMMA AtMostOne ==
    ASSUME NEW S, \A x, y \in S : x = y
    PROVE  Cardinality(S) <= 1
  <1>1. CASE S = {}
    BY <1>1, FS_EmptySet
  <1>2. CASE S # {}
    <2> PICK x \in S : TRUE
      BY <1>2
    <2>1. S = {x}
      OBVIOUS
    <2> QED BY <2>1, FS_Singleton
  <1> QED BY <1>1, <1>2

(* The variables of the network manager keep their types, whatever the peers, *)
(* the network thread and the job thread do.                                  *)
THEOREM TypeCorrect == Spec => []TypeOK
  <1>1. IInv => TypeOK
    BY DEF IInv
  <1> QED BY <1>1, Invariant, PTL

(* At most one receive, accept or connect is under way on a socket, so the    *)
(* messages of a connection are received one after the other.                 *)
THEOREM ReceivesAreSingle == Spec => []OneReceivePerSocket
  <1>1. IInv => OneReceivePerSocket
    <2> SUFFICES ASSUME IInv, NEW s \in Sockets
                 PROVE  Cardinality(Receiving(s)) <= 1
      BY DEF OneReceivePerSocket
    <2>1. \A o \in Receiving(s) : o \in Overlappeds /\ Receives(o) /\ work[o].socket = s
      <3> SUFFICES ASSUME NEW o \in Receiving(s)
                   PROVE  o \in Overlappeds /\ Receives(o) /\ work[o].socket = s
        OBVIOUS
      <3>1. o \in inFlight \/ o \in Completed \/ Handled(o)
        BY DEF Receiving, Handled
      <3>2. o \in Overlappeds
        BY <3>1, PortHoldsObjects DEF IInv, Owners, TypeOK, Handled
      <3> QED BY <3>1, <3>2 DEF Receiving, Receives, UnderWay
    <2>2. \A o, p \in Receiving(s) : o = p
      BY <2>1 DEF IInv, UniqueInv
    <2> QED BY <2>2, AtMostOne
  <1> QED BY <1>1, Invariant, PTL

(* No handler registers a socket that has been deleted, or receives from it,  *)
(* although a failed send may have it deleted while a receive is under way.   *)
THEOREM HandledSocketsLive == Spec => []HandlersUseLiveSockets
  <1>1. IInv => HandlersUseLiveSockets
    BY DEF IInv
  <1> QED BY <1>1, Invariant, PTL

(* The map of connected sockets has at most one key whose socket is deleted:  *)
(* the one the network thread is about to erase.                              *)
THEOREM NothingElseDangles == Spec => []DanglingOnlyWhileErasing
  <1>1. IInv => DanglingOnlyWhileErasing
    BY DEF IInv
  <1> QED BY <1>1, Invariant, PTL

-----------------------------------------------------------------------------
(* The pool is never empty when somebody takes an object from it *)

\* More objects than sockets and answers: one is left for the completion in hand.
EnoughObjects ==
    /\ IsFiniteSet(Overlappeds) /\ IsFiniteSet(Sockets)
    /\ Cardinality(Overlappeds) > Cardinality(Sockets) + MaxJobs

\* The objects outside the pool, those included that Winsock refused, are charged
\* to the socket that they were to receive from, ...
Charged(o) ==
    /\ o \notin pool
    /\ work[o].op \in {"accept", "connect", "recv"}
    /\ ~ (o = current /\ netPc \in {"erase", "recycle"})

\* ... to the answer that they were to send, ...
Sends == {o \in Overlappeds : o \notin pool /\ work[o].op = "send"}

\* ... or to the network thread, which is done with theirs.
ChargeInv ==
    /\ \A o \in Overlappeds : Charged(o) => work[o].socket \in Sockets \ prepared
    /\ \A o, p \in Overlappeds :
           Charged(o) /\ Charged(p) /\ work[o].socket = work[p].socket => o = p
    /\ \A o \in Overlappeds : o \in pool \/ Charged(o) \/ o \in Sends \/ o = current

Found == IF jobPc = "found" THEN 1 ELSE 0

SendsInv ==
    /\ IsFiniteSet(Sends)
    /\ Cardinality(Sends) + Len(jobs) + Found <= queued

\* Most steps charge nobody.
LEMMA ChargesStay ==
    ASSUME ChargeInv, prepared' \subseteq prepared,
           \A o \in Overlappeds : Charged(o)' => Charged(o) /\ work'[o] = work[o],
           \A o \in Overlappeds : o \in pool' \/ Charged(o)' \/ o \in Sends' \/ o = current'
    PROVE  ChargeInv'
  BY DEF ChargeInv

\* An object that is taken to receive is charged to its socket.
LEMMA ChargesOne ==
    ASSUME IInv, ChargeInv, NEW o \in pool, NEW op \in {"accept", "connect", "recv"}, NEW s \in Sockets,
           Submit(o, op, s), pool' = pool \ {o}, s \notin prepared', prepared' \subseteq prepared,
           current' = current, netPc' = netPc \/ (netPc = "rearm" /\ netPc' = "recycle"),
           \A p \in Overlappeds : Charged(p)' /\ p # o => work[p].socket # s
    PROVE  ChargeInv'
  <1>1. /\ work'[o] = [op |-> op, socket |-> s]
        /\ \A p \in Overlappeds : p # o => work'[p] = work[p]
        /\ o \in Overlappeds /\ o # current
    BY Submitting DEF IInv, TypeOK, Owners
  <1>2. Charged(o)'
    BY <1>1 DEF Charged
  <1>3. \A p \in Overlappeds : Charged(p)' /\ p # o =>
            Charged(p) /\ work'[p] = work[p] /\ work[p].socket # s
    BY <1>1 DEF Charged
  <1>4. \A p \in Overlappeds : p \in pool' \/ Charged(p)' \/ p \in Sends' \/ p = current'
    BY <1>1, <1>2 DEF ChargeInv, Charged, Sends
  <1>5. \A p \in Overlappeds : Charged(p)' => work'[p].socket \in Sockets \ prepared'
    BY <1>1, <1>3 DEF ChargeInv
  <1>6. ASSUME NEW p \in Overlappeds, NEW q \in Overlappeds,
               Charged(p)', Charged(q)', work'[p].socket = work'[q].socket
        PROVE  p = q
    BY <1>1, <1>3, <1>6 DEF ChargeInv
  <1> QED BY <1>4, <1>5, <1>6 DEF ChargeInv

LEMMA ChargeStep == IInv /\ ChargeInv /\ [Next]_vars => ChargeInv'
  <1> SUFFICES ASSUME IInv, ChargeInv, [Next]_vars PROVE ChargeInv'
    OBVIOUS
  <1> USE DEF osVars, netVars, jobVars
  <1>0. /\ TypeOK /\ Owners /\ HandInv /\ PostedInv /\ PreparedInv
        /\ current \notin pool /\ NoOverlapped \notin Overlappeds
    BY OverlappedsAreObjects DEF IInv, Owners
  <1>1. ASSUME NEW s \in Sockets, PrepareAcceptSocket(s) \/ SetupConnectSocket(s)
        PROVE  ChargeInv'
    <2>1. PICK o \in pool, op \in {"accept", "connect"} : pool' = pool \ {o} /\ Submit(o, op, s)
      BY <1>1 DEF PrepareAcceptSocket, SetupConnectSocket
    <2>2. /\ s \in prepared /\ prepared' = prepared \ {s}
          /\ UNCHANGED <<current, netPc>>
      BY <1>1 DEF PrepareAcceptSocket, SetupConnectSocket
    <2>3. \A p \in Overlappeds : p # o => work'[p] = work[p]
      BY <1>0, <2>1, Submitting
    <2>4. \A p \in Overlappeds : Charged(p)' /\ p # o => work[p].socket # s
      BY <2>1, <2>2, <2>3 DEF Charged, ChargeInv
    <2> QED BY <2>1, <2>2, <2>4, ChargesOne
  <1>2. ASSUME NEW s \in Sockets, PrepareAcceptSocketFails(s) \/ SetupConnectSocketFails(s)
        PROVE  ChargeInv'
    BY <1>2, ChargesStay DEF PrepareAcceptSocketFails, SetupConnectSocketFails, ChargeInv, Charged, Sends
  <1>3. ASSUME NEW s \in Sockets, PeerCloses(s) \/ ConnectionBreaks(s)
        PROVE  ChargeInv'
    BY <1>3, ChargesStay DEF PeerCloses, ConnectionBreaks, ChargeInv, Charged, Sends
  <1>4. ASSUME NEW o \in Overlappeds, Complete(o)
        PROVE  ChargeInv'
    BY <1>4, ChargesStay DEF Complete, ChargeInv, Charged, Sends
  <1>5. CASE Dequeue
    <2>1. current = NoOverlapped /\ netPc' \notin {"erase"}
      BY <1>0, <1>5 DEF Dequeue, Owners, HandlerOf
    <2> QED BY <1>0, <1>5, <2>1, ChargesStay DEF Dequeue, ChargeInv, Charged, Sends
  <1>6. CASE HandleNewConnection \/ HandleReceiveComplete
    BY <1>6, ChargesStay DEF HandleNewConnection, HandleReceiveComplete, ChargeInv, Charged, Sends
  <1>7. CASE CallReceiveReady
    <2>1. PICK s : s = work[current].socket
      OBVIOUS
    <2>2. PICK o \in pool : pool' = pool \ {o} /\ Submit(o, "recv", s)
      BY <1>7, <2>1 DEF CallReceiveReady
    <2>3. /\ netPc = "rearm" /\ netPc' = "recycle"
          /\ UNCHANGED <<current, prepared>>
      BY <1>7 DEF CallReceiveReady
    <2>4. current \in Overlappeds /\ Charged(current) /\ s \in Sockets \ prepared
      BY <1>0, <2>1, <2>3 DEF Charged, ChargeInv, HandInv, Owners, TypeOK
    <2>5. \A p \in Overlappeds : p # o => work'[p] = work[p]
      BY <1>0, <2>2, <2>4, Submitting
    <2>6. \A p \in Overlappeds : Charged(p)' /\ p # o => Charged(p) /\ p # current
      BY <2>2, <2>3, <2>5 DEF Charged
    <2>7. \A p \in Overlappeds : Charged(p)' /\ p # o => work[p].socket # s
      BY <2>1, <2>4, <2>6 DEF ChargeInv
    <2> QED BY <2>2, <2>3, <2>4, <2>7, ChargesOne
  <1>8. CASE CallReceiveReadyFails \/ DisconnectUnknown
    BY <1>8, ChargesStay DEF CallReceiveReadyFails, DisconnectUnknown, ChargeInv, Charged, Sends
  <1>9. CASE DisconnectDeletes \/ DisconnectErases
    BY <1>9, ChargesStay DEF DisconnectDeletes, DisconnectErases, ChargeInv, Charged, Sends
  <1>10. CASE Recycle
    <2>1. current' = NoOverlapped /\ netPc' = "wait" /\ prepared' = prepared /\ pool' = pool \union {current}
      BY <1>10 DEF Recycle
    <2>2. \A p \in Overlappeds : p # current => work'[p] = work[p]
      BY <1>0, <1>10 DEF Recycle, TypeOK
    <2> QED BY <1>0, <2>1, <2>2, ChargesStay DEF ChargeInv, Charged, Sends
  <1>11. CASE SendFindsNothing \/ SendFindsSocket \/ SendSubmits
    BY <1>11, ChargesStay DEF SendFindsNothing, SendFindsSocket, SendSubmits, ChargeInv, Charged, Sends
  <1>12. CASE SendTakesOverlapped
    <2>1. PICK o \in pool :
              /\ pool' = pool \ {o}
              /\ work' = [work EXCEPT ![o] = [op |-> "send", socket |-> target]]
      BY <1>12 DEF SendTakesOverlapped
    <2>2. UNCHANGED <<current, netPc, prepared>>
      BY <1>12 DEF SendTakesOverlapped
    <2>3. /\ work'[o].op = "send" /\ \A p \in Overlappeds : p # o => work'[p] = work[p]
      BY <1>0, <2>1 DEF TypeOK
    <2> QED BY <1>0, <2>1, <2>2, <2>3, ChargesStay DEF ChargeInv, Charged, Sends
  <1>13. CASE UNCHANGED vars
    BY <1>13, ChargesStay DEF vars, ChargeInv, Charged, Sends
  <1> QED
    BY <1>1, <1>2, <1>3, <1>4, <1>5, <1>6, <1>7, <1>8, <1>9, <1>10, <1>11, <1>12, <1>13
    DEF Next, Main, Winsock, Peers, NetworkThread, JobThread

LEMMA OneMore ==
    ASSUME NEW S, NEW x, IsFiniteSet(S)
    PROVE  /\ IsFiniteSet(S \union {x})
           /\ Cardinality(S) \in Nat /\ Cardinality(S \union {x}) \in Nat
           /\ Cardinality(S \union {x}) <= Cardinality(S) + 1
  <1>1. IsFiniteSet(S \union {x})
    BY FS_AddElement
  <1>2. Cardinality(S) \in Nat /\ Cardinality(S \union {x}) \in Nat
    BY <1>1, FS_CardinalityType
  <1>3. Cardinality(S \union {x}) = IF x \in S THEN Cardinality(S) ELSE Cardinality(S) + 1
    BY FS_AddElement
  <1> QED BY <1>1, <1>2, <1>3

\* A step that neither takes nor returns an object of a send, and brings no answer
\* from nowhere.
LEMMA SendsStay ==
    ASSUME IInv, IInv', SendsInv, Sends' \subseteq Sends,
           Len(jobs') + Found' + queued <= Len(jobs) + Found + queued'
    PROVE  SendsInv'
  <1>1. IsFiniteSet(Sends') /\ Cardinality(Sends') <= Cardinality(Sends)
    BY FS_Subset DEF SendsInv
  <1>2. Cardinality(Sends) \in Nat /\ Cardinality(Sends') \in Nat
    BY <1>1, FS_CardinalityType DEF SendsInv
  <1>3. /\ Len(jobs) \in Nat /\ Len(jobs') \in Nat /\ Found \in Nat /\ Found' \in Nat
        /\ queued \in Nat /\ queued' \in Nat
    BY JobsAreCounted, LenProperties DEF IInv, TypeOK, Found
  <1>4. Cardinality(Sends) + Len(jobs) + Found <= queued
    BY DEF SendsInv
  <1>5. Cardinality(Sends') + Len(jobs') + Found' <= queued'
    BY <1>1, <1>2, <1>3, <1>4
  <1> QED BY <1>1, <1>5 DEF SendsInv

LEMMA SendsStep == IInv /\ IInv' /\ SendsInv /\ [Next]_vars => SendsInv'
  <1> SUFFICES ASSUME IInv, IInv', SendsInv, [Next]_vars PROVE SendsInv'
    OBVIOUS
  <1> USE DEF osVars, netVars, jobVars
  <1>0. /\ TypeOK /\ jobs \in Seq(Sockets) /\ Len(jobs) \in Nat /\ Found \in Nat /\ queued \in Nat
        /\ NoOverlapped \notin Overlappeds
    BY JobsAreCounted, LenProperties, OverlappedsAreObjects DEF IInv, TypeOK, Found
  <1>1. ASSUME UNCHANGED <<jobs, jobPc, queued>>, Sends' \subseteq Sends
        PROVE  SendsInv'
    BY <1>0, <1>1, SendsStay DEF Found
  <1>2. ASSUME NEW o \in pool, NEW op \in {"accept", "connect", "recv"}, NEW s,
               Submit(o, op, s), pool' = pool \ {o}
        PROVE  Sends' \subseteq Sends
    <2>1. work'[o].op # "send" /\ \A p \in Overlappeds : p # o => work'[p] = work[p]
      <3>1. TypeOK /\ Owners /\ o \in Overlappeds
        BY DEF IInv, TypeOK
      <3>2. work'[o] = [op |-> op, socket |-> s] /\ \A p \in Overlappeds : p # o => work'[p] = work[p]
        BY <1>2, <3>1, Submitting
      <3> QED BY <3>2
    <2> QED BY <1>2, <2>1 DEF Sends
  <1>3. ASSUME NEW s \in Sockets, PrepareAcceptSocket(s) \/ SetupConnectSocket(s)
        PROVE  SendsInv'
    BY <1>1, <1>2, <1>3 DEF PrepareAcceptSocket, SetupConnectSocket
  <1>4. ASSUME NEW s \in Sockets,
               \/ PrepareAcceptSocketFails(s) \/ SetupConnectSocketFails(s)
               \/ PeerCloses(s) \/ ConnectionBreaks(s)
        PROVE  SendsInv'
    BY <1>1, <1>4
    DEF PrepareAcceptSocketFails, SetupConnectSocketFails, PeerCloses, ConnectionBreaks, Sends
  <1>5. ASSUME NEW o \in Overlappeds, Complete(o)
        PROVE  SendsInv'
    BY <1>1, <1>5 DEF Complete, Sends
  <1>6. CASE Dequeue \/ CallReceiveReadyFails \/ DisconnectUnknown \/ DisconnectDeletes \/ DisconnectErases
    BY <1>1, <1>6
    DEF Dequeue, CallReceiveReadyFails, DisconnectUnknown, DisconnectDeletes, DisconnectErases, Sends
  <1>7. CASE HandleNewConnection \/ HandleReceiveComplete
    <2>1. Sends' = Sends /\ UNCHANGED jobPc
      BY <1>7 DEF HandleNewConnection, HandleReceiveComplete, Sends
    <2>2. \/ UNCHANGED <<jobs, queued>>
          \/ \E s : jobs' = Append(jobs, s) /\ queued' = queued + 1
      BY <1>7 DEF HandleNewConnection, HandleReceiveComplete, Callback
    <2>3. CASE UNCHANGED <<jobs, queued>>
      BY <1>1, <2>1, <2>3
    <2>4. ASSUME NEW s, jobs' = Append(jobs, s), queued' = queued + 1
          PROVE  SendsInv'
      <3>1. Len(jobs') = Len(jobs) + 1
        BY <1>0, <2>4
      <3>2. Found' = Found
        BY <2>1 DEF Found
      <3>3. Len(jobs') + Found' + queued <= Len(jobs) + Found + queued'
        BY <1>0, <2>4, <3>1, <3>2
      <3> QED BY <2>1, <3>3, SendsStay
    <2> QED BY <2>2, <2>3, <2>4
  <1>8. CASE CallReceiveReady
    BY <1>1, <1>2, <1>8 DEF CallReceiveReady
  <1>9. CASE Recycle
    <2>1. Sends' \subseteq Sends
      BY <1>0, <1>9 DEF Recycle, Sends, TypeOK, Cleared
    <2> QED BY <1>1, <1>9, <2>1 DEF Recycle
  <1>10. CASE SendFindsNothing \/ SendFindsSocket
    <2>1. Sends' = Sends /\ jobs # <<>> /\ jobs' = Tail(jobs) /\ queued' = queued
      BY <1>10 DEF SendFindsNothing, SendFindsSocket, Sends
    <2>2. Len(jobs') = Len(jobs) - 1
      BY <1>0, <2>1, HeadTailProperties
    <2>3. Found' \in Nat /\ Found' <= Found + 1
      BY <1>10 DEF SendFindsNothing, SendFindsSocket, Found
    <2> QED BY <1>0, <2>1, <2>2, <2>3, SendsStay
  <1>11. CASE SendTakesOverlapped
    <2>1. PICK o \in pool :
              /\ pool' = pool \ {o}
              /\ work' = [work EXCEPT ![o] = [op |-> "send", socket |-> target]]
      BY <1>11 DEF SendTakesOverlapped
    <2>2. Sends' \subseteq Sends \union {o}
      BY <1>0, <2>1 DEF Sends, TypeOK
    <2>3. IsFiniteSet(Sends) /\ Cardinality(Sends) \in Nat
      BY FS_CardinalityType DEF SendsInv
    <2>4. /\ IsFiniteSet(Sends \union {o}) /\ Cardinality(Sends \union {o}) \in Nat
          /\ Cardinality(Sends \union {o}) <= Cardinality(Sends) + 1
      BY <2>3, OneMore
    <2>5. /\ IsFiniteSet(Sends') /\ Cardinality(Sends') \in Nat
          /\ Cardinality(Sends') <= Cardinality(Sends \union {o})
      BY <2>2, <2>4, FS_Subset, FS_CardinalityType
    <2>6. Found = 1 /\ Found' = 0 /\ UNCHANGED <<jobs, queued>>
      BY <1>11 DEF SendTakesOverlapped, Found
    <2> QED BY <1>0, <2>3, <2>4, <2>5, <2>6 DEF SendsInv
  <1>12. CASE SendSubmits
    <2>1. Sends' = Sends /\ UNCHANGED <<jobs, queued>> /\ Found = 0 /\ Found' = 0
      BY <1>12 DEF SendSubmits, Sends, Found
    <2> QED BY <1>0, <2>1, SendsStay
  <1>13. CASE UNCHANGED vars
    BY <1>1, <1>13 DEF vars, Sends
  <1> QED
    BY <1>3, <1>4, <1>5, <1>6, <1>7, <1>8, <1>9, <1>10, <1>11, <1>12, <1>13
    DEF Next, Main, Winsock, Peers, NetworkThread, JobThread

\* What the charges add up to.
LEMMA EnoughLeft ==
    ASSUME EnoughObjects, IInv, ChargeInv, SendsInv
    PROVE  PoolNeverDry
  <1> DEFINE C == {o \in Overlappeds : Charged(o)}
             f == [o \in C |-> work[o].socket]
             Free == IF prepared # {} THEN 1 ELSE 0
             Hand == IF current # NoOverlapped /\ current \notin C THEN 1 ELSE 0
  <1>1. /\ Cardinality(Overlappeds) \in Nat /\ Cardinality(Sockets) \in Nat /\ MaxJobs \in Nat
        /\ queued \in 0 .. MaxJobs /\ Len(jobs) \in Nat /\ Found \in Nat
        /\ Cardinality(Sends) \in Nat /\ prepared \subseteq Sockets
    BY FS_CardinalityType, JobsAreCounted, LenProperties
    DEF EnoughObjects, IInv, TypeOK, Found, SendsInv
  <1>2. IsFiniteSet(C) /\ Cardinality(C) \in Nat
    BY FS_Subset, FS_CardinalityType DEF EnoughObjects
  <1>3. Cardinality(C) + Free <= Cardinality(Sockets)
    <2>1. f \in Injection(C, Sockets \ prepared)
      BY DEF ChargeInv, Injection, IsInjective
    <2>2. IsFiniteSet(Sockets \ prepared) /\ Cardinality(Sockets \ prepared) <= Cardinality(Sockets)
      BY FS_Subset DEF EnoughObjects
    <2>3. Cardinality(Sockets \ prepared) \in Nat
      BY <2>2, FS_CardinalityType
    <2>4. Cardinality(C) <= Cardinality(Sockets \ prepared)
      BY <2>1, <2>2, FS_Injection
    <2>5. prepared # {} => Cardinality(Sockets \ prepared) # Cardinality(Sockets)
      <3>1. prepared # {} => Sockets \ prepared # Sockets
        BY <1>1
      <3>2. Cardinality(Sockets \ prepared) = Cardinality(Sockets) => Sockets \ prepared = Sockets
        BY FS_Subset DEF EnoughObjects
      <3> QED BY <3>1, <3>2
    <2> QED BY <1>1, <1>2, <2>2, <2>3, <2>4, <2>5
  <1>4. Cardinality(Sends) + Found <= MaxJobs
    BY <1>1 DEF SendsInv
  <1>5. netPc = "rearm" => current \in C
    BY DEF IInv, HandInv, Owners, TypeOK, Charged
  <1> DEFINE Out == C \union Sends \union {current}
  <1>6. pool = {} => Overlappeds \subseteq Out
    BY DEF ChargeInv
  <1>7. /\ IsFiniteSet(C \union Sends)
        /\ Cardinality(C \union Sends) \in Nat
        /\ Cardinality(C \union Sends) <= Cardinality(C) + Cardinality(Sends)
    <2>1. IsFiniteSet(Sends) /\ IsFiniteSet(C \intersect Sends)
      BY <1>2, FS_Subset DEF SendsInv
    <2>2. Cardinality(C \intersect Sends) \in Nat
      BY <2>1, FS_CardinalityType
    <2>3. /\ IsFiniteSet(C \union Sends)
          /\ Cardinality(C \union Sends) = Cardinality(C) + Cardinality(Sends) - Cardinality(C \intersect Sends)
      BY <1>2, <2>1, FS_Union
    <2>4. Cardinality(C \union Sends) \in Nat
      BY <2>3, FS_CardinalityType
    <2> QED BY <1>1, <1>2, <2>2, <2>3, <2>4
  <1>8. ASSUME prepared # {} \/ netPc = "rearm" \/ jobPc = "found", pool = {}
        PROVE  FALSE
    <2>1. CASE netPc = "rearm"
      <3>1. Overlappeds \subseteq C \union Sends
        BY <1>5, <1>6, <1>8, <2>1
      <3>2. Cardinality(Overlappeds) <= Cardinality(C \union Sends)
        BY <1>7, <3>1, FS_Subset
      <3> HIDE DEF C
      <3> QED BY <1>1, <1>2, <1>3, <1>4, <1>7, <3>2 DEF EnoughObjects
    <2>2. CASE prepared # {} \/ jobPc = "found"
      <3>1. IsFiniteSet(Out) /\ Cardinality(Out) <= Cardinality(C \union Sends) + 1
        BY <1>7, OneMore
      <3>2. Cardinality(Overlappeds) <= Cardinality(Out) /\ Cardinality(Out) \in Nat
        BY <1>6, <1>8, <3>1, FS_Subset, FS_CardinalityType
      <3>3. Free + Found >= 1
        BY <2>2 DEF Found
      <3> HIDE DEF C, Out
      <3> QED BY <1>1, <1>2, <1>3, <1>4, <1>7, <3>1, <3>2, <3>3 DEF EnoughObjects
    <2> QED BY <1>8, <2>1, <2>2
  <1> QED BY <1>8 DEF PoolNeverDry

(* With more overlapped objects than sockets and queued answers, nobody ever   *)
(* takes one from an empty pool, although the objects of refused operations    *)
(* never come back.                                                            *)
THEOREM PoolSuffices ==
    ASSUME EnoughObjects
    PROVE  Spec => []PoolNeverDry
  <1>1. Init => IInv /\ ChargeInv /\ SendsInv
    <2> SUFFICES ASSUME Init PROVE ChargeInv /\ SendsInv
      BY InitIInv
    <2>1. ChargeInv
      BY DEF Init, ChargeInv, Charged
    <2>2. Sends = {}
      BY DEF Init, Sends
    <2> QED BY <2>1, <2>2, FS_EmptySet DEF Init, SendsInv, Found
  <1>2. IInv /\ ChargeInv /\ SendsInv /\ [Next]_vars => (IInv /\ ChargeInv /\ SendsInv)'
    BY NextIInv, ChargeStep, SendsStep
  <1>3. IInv /\ ChargeInv /\ SendsInv => PoolNeverDry
    BY EnoughLeft
  <1> QED BY <1>1, <1>2, <1>3, PTL DEF Spec
===============================================================================
