---------------------------- MODULE NetworkManager ----------------------------
(***************************************************************************)
(* Network::NetworkManager: the sockets of a server, its overlapped        *)
(* objects, the operations in flight in Winsock and the thread in          *)
(* ProcessCompletionHandler, with the JobThread that calls SendRequest and *)
(* the main thread that calls PrepareAcceptSocket and SetupConnectSocket.  *)
(*                                                                         *)
(* Every server runs exactly one thread in ProcessCompletionHandler and,   *)
(* by OneDrainer of JobDispatch, at most one JobThread at a time is inside *)
(* SendRequest: they are "the network thread" and "the job thread" here.   *)
(*                                                                         *)
(* A pop of the pool is one step here, which is what CircleQueue           *)
(* implements for pops that do not overlap.  The servers do not keep them  *)
(* from overlapping: then two threads can work on one object               *)
(* (OverlappedPool shows it), and nothing below can be claimed any more.   *)
(* Every property of this module is about the time until that happens.     *)
(***************************************************************************)
EXTENDS Integers, Sequences, FiniteSets

CONSTANTS
    AcceptSockets,  \* the SOCKET* that FillSocketQueue creates
    ConnectSockets, \* the SOCKET* of SetupConnectSocket: one in a Lobby server
    NoSocket,       \* a null SOCKET*, and the key of the listening socket
    Overlappeds,    \* the CustomOverlapped objects Construct allocates
    NoOverlapped,   \* a null CustomOverlapped*
    MaxJobs         \* bound: how many jobs with an answer the callbacks queue

Sockets == AcceptSockets \union ConnectSockets

ASSUME SocketsAreDistinct ==
    AcceptSockets \intersect ConnectSockets = {} /\ NoSocket \notin Sockets
ASSUME OverlappedsAreObjects == NoOverlapped \notin Overlappeds
ASSUME JobsAreCounted == MaxJobs \in Nat

VARIABLES
    pool,       \* the objects in _overlappedQueue
    work,       \* _operationType and _socket of each CustomOverlapped
    inFlight,   \* the objects handed to Winsock and not completed
    iocp,       \* the completion port: objects and outcomes in completion order
    connection, \* what Winsock knows of each socket
    deleted,    \* the SOCKET* that ProcessDisconnect has closed and deleted
    connected,  \* the keys in _connectedSocketMap
    prepared,   \* the sockets in _preparedSocketQueue, and those to connect
    netPc,      \* where the network thread is
    current,    \* the object it dequeued from the completion port
    jobs,       \* the sockets that the queued jobs answer
    queued,     \* how many jobs have been queued
    jobPc,      \* where the job thread is in SendRequest
    target,     \* the socket it found
    sending     \* the object it popped

osVars  == <<inFlight, iocp, connection>>
netVars == <<netPc, current>>
jobVars == <<jobPc, target, sending>>
vars    == <<pool, work, osVars, deleted, connected, prepared, netVars, jobs, queued, jobVars>>

\* What Clear leaves in an overlapped object.
Cleared == [op |-> "default", socket |-> NoSocket]

Connections == {"none", "up", "closing", "reset", "closed"}
Outcomes == {"ok", "zero bytes", "listed error", "other error"}

Init ==
    /\ pool = Overlappeds
    /\ work = [o \in Overlappeds |-> Cleared]
    /\ inFlight = {}
    /\ iocp = <<>>
    /\ connection = [s \in Sockets |-> "none"]
    /\ deleted = {}
    /\ connected = {}
    /\ prepared = Sockets
    /\ netPc = "wait"
    /\ current = NoOverlapped
    /\ jobs = <<>>
    /\ queued = 0
    /\ jobPc = "idle"
    /\ target = NoSocket
    /\ sending = NoOverlapped

\* The threads are started when the accepts have been posted.
Running == prepared \intersect AcceptSockets = {}

-----------------------------------------------------------------------------
(* The main thread *)

\* Winsock takes an operation, or refuses it at once: nobody keeps the object then.
Submit(o, op, s) ==
    /\ work' = [work EXCEPT ![o] = [op |-> op, socket |-> s]]
    /\ inFlight' \in {inFlight, inFlight \union {o}}

PrepareAcceptSocket(s) ==
    /\ s \in prepared \intersect AcceptSockets
    /\ prepared' = prepared \ {s}
    /\ \E o \in pool :
           /\ pool' = pool \ {o}
           /\ Submit(o, "accept", s)
    /\ UNCHANGED <<iocp, connection, deleted, connected, netVars, jobs, queued, jobVars>>

\* getsockopt reports an error: the socket is dropped.
PrepareAcceptSocketFails(s) ==
    /\ s \in prepared \intersect AcceptSockets
    /\ prepared' = prepared \ {s}
    /\ UNCHANGED <<pool, work, osVars, deleted, connected, netVars, jobs, queued, jobVars>>

SetupConnectSocket(s) ==
    /\ Running
    /\ s \in prepared \intersect ConnectSockets
    /\ prepared' = prepared \ {s}
    /\ \E o \in pool :
           /\ pool' = pool \ {o}
           /\ Submit(o, "connect", s)
    /\ UNCHANGED <<iocp, connection, deleted, connected, netVars, jobs, queued, jobVars>>

\* bind fails, or ConnectEx cannot be had: the socket is closed and nothing else.
SetupConnectSocketFails(s) ==
    /\ Running
    /\ s \in prepared \intersect ConnectSockets
    /\ prepared' = prepared \ {s}
    /\ UNCHANGED <<pool, work, osVars, deleted, connected, netVars, jobs, queued, jobVars>>

-----------------------------------------------------------------------------
(* Winsock and the peers *)

\* The outcomes an operation in flight can have, given its connection.
OutcomesOf(op, c) ==
    CASE op \in {"accept", "connect"} -> {"ok", "listed error", "other error"}
      [] op = "recv" -> CASE c = "up" -> {"ok"}
                          [] c = "closing" -> {"ok", "zero bytes"}
                          [] OTHER -> {"listed error", "other error"}
      [] OTHER -> IF c \in {"up", "closing"} THEN {"ok"} ELSE {"listed error", "other error"}

Complete(o) ==
    /\ o \in inFlight
    /\ inFlight' = inFlight \ {o}
    /\ \E r \in OutcomesOf(work[o].op, connection[work[o].socket]) :
           /\ iocp' = Append(iocp, [object |-> o, outcome |-> r])
           /\ connection' = IF work[o].op \in {"accept", "connect"} /\ r = "ok"
                            THEN [connection EXCEPT ![work[o].socket] = "up"]
                            ELSE connection
    /\ UNCHANGED <<pool, work, deleted, connected, prepared, netVars, jobs, queued, jobVars>>

\* The peer has sent its last byte, which may not have been received yet.
PeerCloses(s) ==
    /\ connection[s] = "up"
    /\ connection' = [connection EXCEPT ![s] = "closing"]
    /\ UNCHANGED <<pool, work, inFlight, iocp, deleted, connected, prepared, netVars, jobs, queued, jobVars>>

ConnectionBreaks(s) ==
    /\ connection[s] \in {"up", "closing"}
    /\ connection' = [connection EXCEPT ![s] = "reset"]
    /\ UNCHANGED <<pool, work, inFlight, iocp, deleted, connected, prepared, netVars, jobs, queued, jobVars>>

-----------------------------------------------------------------------------
(* The network thread: ProcessCompletionHandler *)

\* The completion key: that of the listening socket when the operation is an accept.
Key(o) == IF work[o].op = "accept" THEN NoSocket ELSE work[o].socket

\* Mutant of HandlerOf: a receive of no bytes is handled like any other.
HandlerWithoutZeroCheck(op, r) ==
    CASE r \in {"ok", "zero bytes"} -> CASE op \in {"accept", "connect"} -> "register"
                                        [] op = "recv" -> "receive"
                                        [] OTHER -> "recycle"
      [] r = "listed error" -> "disconnect"
      [] OTHER -> "recycle"

\* Mutant of HandlerOf: an error in the switch does not disconnect, a receive follows.
HandlerReceivesAfterError(op, r) ==
    CASE r = "ok" -> CASE op \in {"accept", "connect"} -> "register"
                       [] op = "recv" -> "receive"
                       [] OTHER -> "recycle"
      [] r = "zero bytes" -> "disconnect"
      [] OTHER -> IF op = "recv" THEN "receive" ELSE "recycle"

\* Mutant of HandlerOf: a completed send posts a receive too.
HandlerReceivesAfterSend(op, r) ==
    CASE r = "ok" -> CASE op \in {"accept", "connect"} -> "register"
                       [] OTHER -> "receive"
      [] r \in {"zero bytes", "listed error"} -> "disconnect"
      [] OTHER -> "recycle"

\* Which handler GetQueuedCompletionStatus leads to.
HandlerOf(op, r) ==
    CASE r = "ok" -> CASE op \in {"accept", "connect"} -> "register"
                       [] op = "recv" -> "receive"
                       [] OTHER -> "recycle"
      [] r \in {"zero bytes", "listed error"} -> "disconnect"
      [] OTHER -> "recycle"

Dequeue ==
    /\ Running
    /\ netPc = "wait"
    /\ iocp # <<>>
    /\ current' = Head(iocp).object
    /\ netPc' = HandlerOf(work[Head(iocp).object].op, Head(iocp).outcome)
    /\ iocp' = Tail(iocp)
    /\ UNCHANGED <<pool, work, inFlight, connection, deleted, connected, prepared, jobs, queued, jobVars>>

\* _iocpCallback may queue a job whose answer goes to this socket.
Callback(s) ==
    \/ UNCHANGED <<jobs, queued>>
    \/ /\ queued < MaxJobs
       /\ jobs' = Append(jobs, s)
       /\ queued' = queued + 1

\* Mutant of HandleNewConnection: it registers the completion key.
HandleNewConnectionByKey ==
    /\ netPc = "register"
    /\ connected' = connected \union {Key(current)}
    /\ Callback(work[current].socket)
    /\ netPc' = "rearm"
    /\ UNCHANGED <<pool, work, osVars, deleted, prepared, current, jobVars>>

\* HandleAcceptComplete and HandleConnectComplete up to CallReceiveReady.
HandleNewConnection ==
    /\ netPc = "register"
    /\ connected' = connected \union {work[current].socket}
    /\ Callback(work[current].socket)
    /\ netPc' = "rearm"
    /\ UNCHANGED <<pool, work, osVars, deleted, prepared, current, jobVars>>

HandleReceiveComplete ==
    /\ netPc = "receive"
    /\ Callback(work[current].socket)
    /\ netPc' = "rearm"
    /\ UNCHANGED <<pool, work, osVars, deleted, connected, prepared, current, jobVars>>

CallReceiveReady ==
    /\ netPc = "rearm"
    /\ \E o \in pool :
           /\ pool' = pool \ {o}
           /\ Submit(o, "recv", work[current].socket)
    /\ netPc' = "recycle"
    /\ UNCHANGED <<iocp, connection, deleted, connected, prepared, current, jobs, queued, jobVars>>

\* getsockopt reports an error: no receive is posted, and the socket stays as it is.
CallReceiveReadyFails ==
    /\ netPc = "rearm"
    /\ connection[work[current].socket] # "up"
    /\ netPc' = "recycle"
    /\ UNCHANGED <<pool, work, osVars, deleted, connected, prepared, current, jobs, queued, jobVars>>

\* HandleDisconnectComplete for a key that is not registered.
DisconnectUnknown ==
    /\ netPc = "disconnect"
    /\ Key(current) \notin connected
    /\ netPc' = "recycle"
    /\ UNCHANGED <<pool, work, osVars, deleted, connected, prepared, current, jobs, queued, jobVars>>

\* ProcessDisconnect closes and deletes the socket before its key is erased.
DisconnectDeletes ==
    /\ netPc = "disconnect"
    /\ Key(current) \in connected
    /\ deleted' = deleted \union {Key(current)}
    /\ connection' = [connection EXCEPT ![Key(current)] = "closed"]
    /\ netPc' = "erase"
    /\ UNCHANGED <<pool, work, inFlight, iocp, connected, prepared, current, jobs, queued, jobVars>>

\* Mutant of DisconnectErases: the key of the deleted socket stays in the map.
DisconnectForgetsKey ==
    /\ netPc = "erase"
    /\ netPc' = "recycle"
    /\ UNCHANGED <<pool, work, osVars, deleted, connected, prepared, current, jobs, queued, jobVars>>

\* Mutant of DisconnectErases: HandleReceiveComplete does not return after the disconnect.
DisconnectAndReceive ==
    /\ netPc = "erase"
    /\ connected' = connected \ {Key(current)}
    /\ netPc' = "rearm"
    /\ UNCHANGED <<pool, work, osVars, deleted, prepared, current, jobs, queued, jobVars>>

DisconnectErases ==
    /\ netPc = "erase"
    /\ connected' = connected \ {Key(current)}
    /\ netPc' = "recycle"
    /\ UNCHANGED <<pool, work, osVars, deleted, prepared, current, jobs, queued, jobVars>>

\* Mutant of Recycle: the object of a completion does not go back to the pool.
RecycleForgets ==
    /\ netPc = "recycle"
    /\ work' = [work EXCEPT ![current] = Cleared]
    /\ current' = NoOverlapped
    /\ netPc' = "wait"
    /\ UNCHANGED <<pool, osVars, deleted, connected, prepared, jobs, queued, jobVars>>

\* overlapped->Clear(), and back to the pool.
Recycle ==
    /\ netPc = "recycle"
    /\ work' = [work EXCEPT ![current] = Cleared]
    /\ pool' = pool \union {current}
    /\ current' = NoOverlapped
    /\ netPc' = "wait"
    /\ UNCHANGED <<osVars, deleted, connected, prepared, jobs, queued, jobVars>>

-----------------------------------------------------------------------------
(* The job thread: SendRequest *)

\* The key is not there, or an erase of any other key cuts the search short
\* (ConnectedSocketMap).  The answer is gone.
SendFindsNothing ==
    /\ jobPc = "idle"
    /\ jobs # <<>>
    /\ Head(jobs) \notin connected \/ netPc = "erase"
    /\ jobs' = Tail(jobs)
    /\ UNCHANGED <<pool, work, osVars, deleted, connected, prepared, netVars, queued, jobVars>>

SendFindsSocket ==
    /\ jobPc = "idle"
    /\ jobs # <<>>
    /\ Head(jobs) \in connected
    /\ target' = Head(jobs)
    /\ jobs' = Tail(jobs)
    /\ jobPc' = "found"
    /\ UNCHANGED <<pool, work, osVars, deleted, connected, prepared, netVars, queued, sending>>

SendTakesOverlapped ==
    /\ jobPc = "found"
    /\ \E o \in pool :
           /\ pool' = pool \ {o}
           /\ work' = [work EXCEPT ![o] = [op |-> "send", socket |-> target]]
           /\ sending' = o
    /\ jobPc' = "prepared"
    /\ UNCHANGED <<osVars, deleted, connected, prepared, netVars, jobs, queued, target>>

\* WSASend(*socket, ...): what a deleted SOCKET* names is anybody's guess.
SendSubmits ==
    /\ jobPc = "prepared"
    /\ inFlight' \in {inFlight, inFlight \union {sending}}
    /\ sending' = NoOverlapped
    /\ target' = NoSocket
    /\ jobPc' = "idle"
    /\ UNCHANGED <<pool, work, iocp, connection, deleted, connected, prepared, netVars, jobs, queued>>

-----------------------------------------------------------------------------

Main == \E s \in Sockets :
            \/ PrepareAcceptSocket(s)
            \/ PrepareAcceptSocketFails(s)
            \/ SetupConnectSocket(s)
            \/ SetupConnectSocketFails(s)

Winsock == \E o \in Overlappeds : Complete(o)

Peers == \E s \in Sockets : PeerCloses(s) \/ ConnectionBreaks(s)

NetworkThread ==
    \/ Dequeue
    \/ HandleNewConnection
    \/ HandleReceiveComplete
    \/ CallReceiveReady
    \/ CallReceiveReadyFails
    \/ DisconnectUnknown
    \/ DisconnectDeletes
    \/ DisconnectErases
    \/ Recycle

JobThread ==
    \/ SendFindsNothing
    \/ SendFindsSocket
    \/ SendTakesOverlapped
    \/ SendSubmits

Next == Main \/ Winsock \/ Peers \/ NetworkThread \/ JobThread

\* The threads run; Winsock fails what is in flight on a connection that is gone.
Fairness ==
    /\ WF_vars(Main)
    /\ WF_vars(NetworkThread)
    /\ WF_vars(JobThread)
    /\ \A o \in Overlappeds :
           WF_vars(Complete(o) /\ connection[work[o].socket] \notin {"none", "up"})

Spec == Init /\ [][Next]_vars

FairSpec == Spec /\ Fairness

-----------------------------------------------------------------------------
(* Properties *)

Completions == [object : Overlappeds, outcome : Outcomes]

TypeOK ==
    /\ pool \subseteq Overlappeds
    /\ work \in [Overlappeds -> [op : {"default", "accept", "connect", "recv", "send"},
                                socket : Sockets \union {NoSocket}]]
    /\ inFlight \subseteq Overlappeds
    /\ iocp \in Seq(Completions)
    /\ connection \in [Sockets -> Connections]
    /\ deleted \subseteq Sockets
    /\ connected \subseteq Sockets
    /\ prepared \subseteq Sockets
    /\ netPc \in {"wait", "register", "receive", "rearm", "disconnect", "erase", "recycle"}
    /\ current \in Overlappeds \union {NoOverlapped}
    /\ jobs \in Seq(Sockets)
    /\ queued \in 0 .. MaxJobs
    /\ jobPc \in {"idle", "found", "prepared"}
    /\ target \in Sockets \union {NoSocket}
    /\ sending \in Overlappeds \union {NoOverlapped}

\* The objects whose completion waits in the port.
Completed == {iocp[i].object : i \in 1 .. Len(iocp)}

(* No pop of the pool finds it empty: its callers use what they get without *)
(* a test.  One object for every socket and every answer, and one more for  *)
(* the completion being handled, are enough.                                *)
PoolNeverDry ==
    prepared # {} \/ netPc = "rearm" \/ jobPc = "found" => pool # {}

\* The objects whose completion will make the network thread receive from s.
Receiving(s) ==
    {o \in inFlight \union Completed \union
          (IF netPc \in {"register", "receive", "rearm", "disconnect"} THEN {current} ELSE {}) :
        work[o].socket = s /\ work[o].op \in {"accept", "connect", "recv"}}

(* At most one receive is under way on a socket, so a connection's messages *)
(* cannot overtake each other.                                              *)
OneReceivePerSocket == \A s \in Sockets : Cardinality(Receiving(s)) <= 1

(* The network thread never registers, or receives from, a socket that it   *)
(* has deleted, although a failed send on the same connection may delete it *)
(* while a receive is under way.                                            *)
HandlersUseLiveSockets ==
    netPc \in {"register", "receive", "rearm"} => work[current].socket \notin deleted

(* _connectedSocketMap holds a pointer to a deleted socket only while the   *)
(* network thread is about to erase that very key.                          *)
DanglingOnlyWhileErasing ==
    connected \intersect deleted = IF netPc = "erase" THEN {Key(current)} ELSE {}

(* A receive that fails with an error of the switch, or with no bytes, ends *)
(* with the socket deleted, whatever else its connection has under way.     *)
FailedReceiveCloses ==
    \A s \in Sockets :
        (\E i \in 1 .. Len(iocp) :
            /\ iocp[i].outcome \in {"zero bytes", "listed error"}
            /\ work[iocp[i].object] = [op |-> "recv", socket |-> s])
        ~> s \in deleted

(* A registered connection that breaks is deleted, or it is left with no    *)
(* receive under way: an error outside the switch, or a receive that could  *)
(* not be posted, are the only ways for it to stay in the map for good.     *)
BrokenConnectionEnds ==
    \A s \in Sockets :
        s \in connected /\ connection[s] = "reset" ~> s \in deleted \/ Receiving(s) = {}
=============================================================================
