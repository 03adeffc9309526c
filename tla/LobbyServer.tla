------------------------------ MODULE LobbyServer ------------------------------
(***************************************************************************)
(* What a Lobby server tells whom: the LobbyMonitor, the notices that      *)
(* LobbyHub::ProcessIocp queues when a client is accepted and when the     *)
(* Control server is reached, and the job thread that sends them.          *)
(*                                                                         *)
(* A notice is addressed by completion key, and the key of a connection is *)
(* the address of its SOCKET object.  The objects of the accepts are       *)
(* allocated before the threads start; the object of the connection to the *)
(* Control server is allocated by the main thread while the network thread *)
(* may already have deleted some, so that it may get the address, and the  *)
(* key, of a client that has left.                                         *)
(*                                                                         *)
(* The network thread handles one completion at a time (NetworkManager);   *)
(* jobs are executed one at a time and in order (JobDispatch).             *)
(***************************************************************************)
EXTENDS Integers, Sequences, FiniteSets

CONSTANTS
    Addresses,      \* where a SOCKET object can be
    AcceptSockets,  \* those that FillSocketQueue gets, each with an accept posted
    Clients,        \* those who connect to the lobby
    ControlServer,
    NoPeer,         \* what a SOCKET that is not connected, or is deleted, names
    NoKey,          \* no SOCKET
    LobbyCapacity,  \* the capacity the LobbyMonitor is constructed with
    QueueMaxSize    \* the capacity of _jobQueue

ASSUME PeersAreDistinct == ControlServer \notin Clients /\ NoPeer \notin Clients \union {ControlServer}
ASSUME AddressesAreKeys == AcceptSockets \subseteq Addresses /\ NoKey \notin Addresses
ASSUME SizesAreNatural == LobbyCapacity \in Nat /\ QueueMaxSize \in Nat
\* 10 pre-created sockets, and a queue for 100 jobs.
ASSUME QueueHasRoom == IsFiniteSet(AcceptSockets) /\ Cardinality(AcceptSockets) < QueueMaxSize

VARIABLES
    accepting,      \* the sockets with an accept posted
    allocated,      \* the addresses that hold a SOCKET object
    names,          \* the peer that the SOCKET at each address is connected to
    connected,      \* the keys in _connectedSocketMap
    served,         \* the clients that have been accepted
    currentUser, remainCapacity,    \* of the LobbyMonitor
    erasing,        \* the key that the network thread is about to erase
    connectKey,     \* the key of the connection to the Control server, once allocated
    connecting,     \* ConnectEx has been called and not completed
    jobs,           \* _jobQueue
    refused,        \* how many jobs a full _jobQueue has refused
    job, target,    \* the job in execution and the socket SendRequest found for it
    delivered       \* the notices that were sent, each with the peer that gets it

monitor == <<currentUser, remainCapacity>>
sockets == <<accepting, allocated, names, connected, served, erasing, connectKey, connecting>>
queue   == <<jobs, refused>>
sender  == <<job, target, delivered>>
vars    == <<sockets, monitor, queue, sender>>

NoJob == [kind |-> "none"]
Ready(key) == [kind |-> "ready", key |-> key, for |-> ControlServer]
Info(key, c, current, remain) ==
    [kind |-> "info", key |-> key, for |-> c, current |-> current, remain |-> remain]

Init ==
    /\ accepting = AcceptSockets
    /\ allocated = AcceptSockets
    /\ names = [a \in Addresses |-> NoPeer]
    /\ connected = {}
    /\ served = {}
    /\ currentUser = 0
    /\ remainCapacity = LobbyCapacity
    /\ erasing = NoKey
    /\ connectKey = NoKey
    /\ connecting = FALSE
    /\ jobs = <<>>
    /\ refused = 0
    /\ job = NoJob
    /\ target = NoKey
    /\ delivered = {}

-----------------------------------------------------------------------------
(* The main thread *)

\* SetupConnectSocket: new SOCKET may return the address of a deleted one.
ConnectControlServer ==
    /\ connectKey = NoKey
    /\ connectKey' \in Addresses \ allocated
    /\ allocated' = allocated \union {connectKey'}
    /\ connecting' = TRUE
    /\ UNCHANGED <<accepting, names, connected, served, erasing, monitor, queue, sender>>

-----------------------------------------------------------------------------
(* The network thread *)

\* Mutant of PushJob: the queue refuses a job while one slot is free.
PushJobEarlyFull(j) ==
    IF Len(jobs) < QueueMaxSize - 1
    THEN jobs' = Append(jobs, j) /\ UNCHANGED refused
    ELSE refused' = refused + 1 /\ UNCHANGED jobs

\* _jobQueue.push, whose answer nobody looks at.
PushJob(j) ==
    IF Len(jobs) < QueueMaxSize
    THEN jobs' = Append(jobs, j) /\ UNCHANGED refused
    ELSE refused' = refused + 1 /\ UNCHANGED jobs

\* Mutant of RegisterLobbyUser: the room that remains is not reduced.
RegisterWithoutRemain ==
    /\ currentUser' = currentUser + 1
    /\ UNCHANGED remainCapacity

RegisterLobbyUser ==
    /\ currentUser' = currentUser + 1
    /\ remainCapacity' = remainCapacity - 1

\* HandleAcceptComplete: the key goes into the map, the client is counted, and
\* the notice with the counts is addressed to the client itself.
AcceptClient(a, c) ==
    /\ erasing = NoKey
    /\ a \in accepting /\ c \in Clients \ served
    /\ accepting' = accepting \ {a}
    /\ names' = [names EXCEPT ![a] = c]
    /\ connected' = connected \union {a}
    /\ served' = served \union {c}
    /\ RegisterLobbyUser
    /\ PushJob(Info(a, c, currentUser', remainCapacity'))
    /\ UNCHANGED <<allocated, erasing, connectKey, connecting, sender>>

\* HandleConnectComplete.
ReachControlServer ==
    /\ erasing = NoKey
    /\ connecting
    /\ connecting' = FALSE
    /\ names' = [names EXCEPT ![connectKey] = ControlServer]
    /\ connected' = connected \union {connectKey}
    /\ PushJob(Ready(connectKey))
    /\ UNCHANGED <<accepting, allocated, served, erasing, connectKey, monitor, sender>>

\* The completion of ConnectEx with an error: its key is in the map of nobody.
MissControlServer ==
    /\ erasing = NoKey
    /\ connecting
    /\ connecting' = FALSE
    /\ UNCHANGED <<accepting, allocated, names, connected, served, erasing, connectKey, monitor, queue, sender>>

\* Mutant of DeleteSocket: the SOCKET is not deleted, it gets the next accept.
ReuseSocket(a) ==
    /\ erasing = NoKey
    /\ a \in connected
    /\ accepting' = accepting \union {a}
    /\ names' = [names EXCEPT ![a] = NoPeer]
    /\ erasing' = a
    /\ UNCHANGED <<allocated, connected, served, connectKey, connecting, monitor, queue, sender>>

\* HandleDisconnectComplete up to the delete in ProcessDisconnect.
DeleteSocket(a) ==
    /\ erasing = NoKey
    /\ a \in connected
    /\ allocated' = allocated \ {a}
    /\ names' = [names EXCEPT ![a] = NoPeer]
    /\ erasing' = a
    /\ UNCHANGED <<accepting, connected, served, connectKey, connecting, monitor, queue, sender>>

\* The rest of it; LobbyHub::ProcessDisconnect does nothing, and the client stays counted.
EraseKey ==
    /\ erasing # NoKey
    /\ connected' = connected \ {erasing}
    /\ erasing' = NoKey
    /\ UNCHANGED <<accepting, allocated, names, served, connectKey, connecting, monitor, queue, sender>>

-----------------------------------------------------------------------------
(* The job thread: Execute only copies the fields of a notice into its message *)

ExecuteJob ==
    /\ job = NoJob
    /\ jobs # <<>>
    /\ job' = Head(jobs)
    /\ jobs' = Tail(jobs)
    /\ UNCHANGED <<sockets, monitor, refused, target, delivered>>

\* SendRequest does not find the key, which an erase of another may cause too.
SendFindsNothing ==
    /\ job # NoJob /\ target = NoKey
    /\ job.key \notin connected \/ erasing # NoKey
    /\ job' = NoJob
    /\ UNCHANGED <<sockets, monitor, queue, target, delivered>>

SendFindsSocket ==
    /\ job # NoJob /\ target = NoKey
    /\ job.key \in connected
    /\ target' = job.key
    /\ UNCHANGED <<sockets, monitor, queue, job, delivered>>

\* WSASend(*socket): to whomever the SOCKET at the address names by now.
SendSubmits ==
    /\ target # NoKey
    /\ delivered' = IF names[target] = NoPeer THEN delivered
                    ELSE delivered \union {[notice |-> job, to |-> names[target]]}
    /\ job' = NoJob
    /\ target' = NoKey
    /\ UNCHANGED <<sockets, monitor, queue>>

-----------------------------------------------------------------------------

NetworkThread ==
    \/ \E a \in Addresses : \E c \in Clients : AcceptClient(a, c)
    \/ ReachControlServer
    \/ MissControlServer
    \/ \E a \in Addresses : DeleteSocket(a)
    \/ EraseKey

JobThread == ExecuteJob \/ SendFindsNothing \/ SendFindsSocket \/ SendSubmits

Next == ConnectControlServer \/ NetworkThread \/ JobThread

Spec == Init /\ [][Next]_vars

-----------------------------------------------------------------------------
(* Properties *)

Notices ==
    {Ready(a) : a \in Addresses} \union
    {Info(a, c, n, LobbyCapacity - n) :
        a \in Addresses, c \in Clients, n \in 1 .. Cardinality(AcceptSockets)}

TypeOK ==
    /\ accepting \subseteq AcceptSockets
    /\ accepting \subseteq allocated /\ allocated \subseteq Addresses
    /\ names \in [Addresses -> Clients \union {ControlServer, NoPeer}]
    /\ connected \subseteq Addresses
    /\ served \subseteq Clients
    /\ currentUser \in 0 .. Cardinality(AcceptSockets)
    /\ remainCapacity = LobbyCapacity - currentUser
    /\ erasing \in connected \union {NoKey}
    /\ connectKey \in Addresses \union {NoKey}
    /\ connecting \in BOOLEAN
    /\ jobs \in Seq(Notices)
    /\ refused \in Nat
    /\ job \in Notices \union {NoJob}
    /\ target \in Addresses \union {NoKey}
    /\ delivered \subseteq [notice : Notices, to : Clients \union {ControlServer}]

(* The counts never fall when a client leaves, so they may be too high for   *)
(* ever; but a lobby never claims more room than it has, whatever comes and  *)
(* goes: those who are connected fit with the room that remains.             *)
RoomIsNotOverstated ==
    remainCapacity + Cardinality({a \in connected : names[a] \in Clients}) <= LobbyCapacity

(* _jobQueue never refuses a notice, and so never the only one that enters   *)
(* the lobby into the directory: each SOCKET is accepted or connected once,  *)
(* and the queue has room for one job of each.                               *)
NoticeNeverRefused == refused = 0

(* Although a key may come to name another connection before the job is      *)
(* executed, or between the find and the WSASend, no client ever gets the    *)
(* notice of another one; at worst the Control server does, and drops it.    *)
(* The Control server's notice reaches nobody else.                          *)
NoticeReachesNoOtherClient ==
    \A d \in delivered : d.to \in {d.notice.for, ControlServer}
=============================================================================
