--------------------------- MODULE LobbyServer_proofs ---------------------------
(***************************************************************************)
(* Proofs about the notices of a Lobby server, for any number of sockets   *)
(* and clients, any capacity, and any queue with a slot for every socket.  *)
(***************************************************************************)
EXTENDS LobbyServer, FiniteSetTheorems, SequenceTheorems, TLAPS

-----------------------------------------------------------------------------
(* The parts of the inductive invariant *)

\* The notices that are queued or in execution.
Pending == {jobs[i] : i \in 1 .. Len(jobs)} \union ({job} \ {NoJob})

\* The addresses whose SOCKET is connected to a client.
Serving == {a \in Addresses : names[a] \in Clients}

Types ==
    /\ accepting \subseteq AcceptSockets
    /\ accepting \subseteq allocated /\ allocated \subseteq Addresses
    /\ names \in [Addresses -> Clients \union {ControlServer, NoPeer}]
    /\ connected \subseteq Addresses
    /\ served \subseteq Clients
    /\ erasing \in connected \union {NoKey}
    /\ connectKey \in Addresses \union {NoKey}
    /\ connecting \in BOOLEAN
    /\ connecting => connectKey # NoKey
    /\ jobs \in Seq(Notices)
    /\ job \in Notices \union {NoJob}
    /\ target \in Addresses \union {NoKey}
    /\ delivered \subseteq [notice : Notices, to : Clients \union {ControlServer}]

\* Every accept is either posted or counted, and nobody is connected uncounted.
CountInv ==
    /\ currentUser \in Nat
    /\ currentUser + Cardinality(accepting) = Cardinality(AcceptSockets)
    /\ remainCapacity = LobbyCapacity - currentUser
    /\ IsFiniteSet(Serving)
    /\ Cardinality(Serving) <= currentUser

\* The connection to the Control server has its notice still before it, or not.
ToConnect == IF connectKey = NoKey \/ connecting THEN 1 ELSE 0

\* The notices that are queued and those still to come fit into the queue.
RoomInv ==
    /\ Len(jobs) + Cardinality(accepting) + ToConnect <= Cardinality(AcceptSockets) + 1
    /\ refused = 0

\* Who is, or has been, at the other end of the addresses that notices name.
PeerInv ==
    /\ connectKey = NoKey => \A a \in Addresses \ allocated : names[a] = NoPeer
    /\ connected \intersect accepting = {} /\ connectKey \notin accepting
    /\ connectKey # NoKey => names[connectKey] \in {ControlServer, NoPeer}
    /\ \A n \in Pending :
           /\ n.key \notin accepting
           /\ names[n.key] \in {n.for, ControlServer, NoPeer}
    /\ target # NoKey => job # NoJob /\ target = job.key

IInv == Types /\ CountInv /\ RoomInv /\ PeerInv /\ NoticeReachesNoOtherClient

-----------------------------------------------------------------------------
(* Lemmas about the queue and the counts *)

LEMMA NoticesAreNotNone == \A n \in Notices : n # NoJob
  BY DEF Notices, Ready, Info, NoJob

\* Whoever has something to announce finds room for it.
LEMMA PushFits ==
    ASSUME Types, CountInv, RoomInv, NEW n \in Notices, PushJob(n),
           accepting # {} \/ ToConnect = 1
    PROVE  /\ UNCHANGED refused
           /\ jobs' \in Seq(Notices) /\ Len(jobs') = Len(jobs) + 1
           /\ UNCHANGED job => Pending' = Pending \union {n}
  <1>1. /\ IsFiniteSet(accepting) /\ Cardinality(accepting) \in Nat
        /\ Len(jobs) \in Nat /\ Cardinality(AcceptSockets) \in Nat
    BY QueueHasRoom, FS_Subset, FS_CardinalityType DEF Types
  <1>2. Cardinality(accepting) + ToConnect >= 1
    BY <1>1, FS_EmptySet DEF ToConnect
  <1>3. Len(jobs) <= Cardinality(AcceptSockets)
    BY <1>1, <1>2 DEF RoomInv, ToConnect
  <1>4. jobs' = Append(jobs, n) /\ UNCHANGED refused
    BY <1>1, <1>3, QueueHasRoom, SizesAreNatural DEF PushJob
  <1>5. /\ jobs' \in Seq(Notices) /\ Len(jobs') = Len(jobs) + 1
        /\ jobs'[Len(jobs) + 1] = n
        /\ \A i \in 1 .. Len(jobs) : jobs'[i] = jobs[i]
    BY <1>4, AppendProperties DEF Types
  <1>6. UNCHANGED job => Pending' = Pending \union {n}
    <2> SUFFICES ASSUME UNCHANGED job PROVE Pending' = Pending \union {n}
      OBVIOUS
    <2>1. {jobs'[i] : i \in 1 .. Len(jobs')} = {jobs[i] : i \in 1 .. Len(jobs)} \union {n}
      <3>1. \A i \in 1 .. Len(jobs') : i \in 1 .. Len(jobs) \/ i = Len(jobs) + 1
        BY <1>1, <1>5
      <3>2. \A i \in 1 .. Len(jobs) : i \in 1 .. Len(jobs')
        BY <1>1, <1>5
      <3>3. Len(jobs) + 1 \in 1 .. Len(jobs')
        BY <1>1, <1>5
      <3> QED BY <1>5, <3>1, <3>2, <3>3
    <2> QED BY <2>1 DEF Pending
  <1> QED BY <1>4, <1>5, <1>6

\* One accept fewer, one client more.
LEMMA AcceptCounts ==
    ASSUME Types, NEW a \in accepting, accepting' = accepting \ {a}
    PROVE  /\ Cardinality(accepting) \in Nat \ {0}
           /\ Cardinality(accepting') = Cardinality(accepting) - 1
  <1>1. IsFiniteSet(accepting)
    BY QueueHasRoom, FS_Subset DEF Types
  <1>2. Cardinality(accepting) \in Nat /\ Cardinality(accepting) # 0
    BY <1>1, FS_CardinalityType, FS_EmptySet
  <1>3. Cardinality(accepting \ {a}) = Cardinality(accepting) - 1
    BY <1>1, FS_RemoveElement
  <1> QED BY <1>2, <1>3

\* A step that connects no client keeps the count of those who are.
LEMMA FewerServing ==
    ASSUME CountInv, Serving' \subseteq Serving, UNCHANGED <<accepting, monitor>>
    PROVE  CountInv'
  <1>1. IsFiniteSet(Serving') /\ Cardinality(Serving') <= Cardinality(Serving)
    BY FS_Subset DEF CountInv
  <1>2. Cardinality(Serving) \in Nat /\ Cardinality(Serving') \in Nat
    BY <1>1, FS_CardinalityType DEF CountInv
  <1> QED BY <1>1, <1>2 DEF CountInv, monitor

-----------------------------------------------------------------------------
(* The steps *)

LEMMA InitIInv == Init => IInv
  <1> SUFFICES ASSUME Init PROVE IInv
    OBVIOUS
  <1> USE DEF Init
  <1>1. Types
    <2>1. AcceptSockets \subseteq Addresses
      BY AddressesAreKeys
    <2>2. names \in [Addresses -> Clients \union {ControlServer, NoPeer}]
      OBVIOUS
    <2>3. jobs \in Seq(Notices) /\ job \in Notices \union {NoJob}
      OBVIOUS
    <2>4. delivered \subseteq [notice : Notices, to : Clients \union {ControlServer}]
      OBVIOUS
    <2>5. /\ erasing \in connected \union {NoKey} /\ connectKey \in Addresses \union {NoKey}
          /\ connecting \in BOOLEAN /\ target \in Addresses \union {NoKey}
      OBVIOUS
    <2> HIDE DEF Init
    <2>6. /\ accepting = AcceptSockets /\ allocated = AcceptSockets
          /\ connected = {} /\ served = {} /\ connecting = FALSE
      BY DEF Init
    <2> QED BY <2>1, <2>2, <2>3, <2>4, <2>5, <2>6 DEF Types
  <1>2. CountInv
    <2>1. Serving = {}
      BY PeersAreDistinct DEF Serving
    <2>2. Cardinality(AcceptSockets) \in Nat
      BY QueueHasRoom, FS_CardinalityType
    <2> QED BY <2>1, <2>2, FS_EmptySet, SizesAreNatural DEF CountInv
  <1>3. RoomInv
    <2>1. Cardinality(AcceptSockets) \in Nat
      BY QueueHasRoom, FS_CardinalityType
    <2> QED BY <2>1 DEF RoomInv, ToConnect
  <1>4. PeerInv
    BY AddressesAreKeys DEF PeerInv, Pending
  <1> QED BY <1>1, <1>2, <1>3, <1>4 DEF IInv, NoticeReachesNoOtherClient

LEMMA ConnectControlServerKeeps == IInv /\ ConnectControlServer => IInv'
  <1> SUFFICES ASSUME IInv, ConnectControlServer PROVE IInv'
    OBVIOUS
  <1> USE DEF IInv, ConnectControlServer, monitor, queue, sender
  <1>1. Types'
    BY AddressesAreKeys DEF Types
  <1>2. CountInv'
    BY FewerServing DEF Serving
  <1>3. RoomInv'
    BY AddressesAreKeys DEF RoomInv, ToConnect
  <1>4. PeerInv'
    BY AddressesAreKeys DEF PeerInv, Types, Pending
  <1> QED BY <1>1, <1>2, <1>3, <1>4 DEF NoticeReachesNoOtherClient

LEMMA AcceptClientKeeps ==
    ASSUME IInv, NEW a \in Addresses, NEW c \in Clients, AcceptClient(a, c)
    PROVE  IInv'
  <1> USE DEF IInv
  <1> PICK n : n = Info(a, c, currentUser', remainCapacity')
    OBVIOUS
  <1>1. /\ a \in accepting /\ accepting' = accepting \ {a}
        /\ names' = [names EXCEPT ![a] = c]
        /\ connected' = connected \union {a}
        /\ served' = served \union {c}
        /\ currentUser' = currentUser + 1 /\ remainCapacity' = remainCapacity - 1
        /\ PushJob(n)
        /\ UNCHANGED <<allocated, erasing, connectKey, connecting, job, target, delivered>>
    BY DEF AcceptClient, RegisterLobbyUser, sender
  <1>2. /\ Cardinality(accepting) \in Nat \ {0}
        /\ Cardinality(accepting') = Cardinality(accepting) - 1
    BY <1>1, AcceptCounts
  <1>3. Cardinality(AcceptSockets) \in Nat
    BY QueueHasRoom, FS_CardinalityType
  <1>4. n \in Notices /\ n.key = a /\ n.for = c
    <2>1. currentUser' \in 1 .. Cardinality(AcceptSockets)
      BY <1>1, <1>2, <1>3 DEF CountInv
    <2>2. remainCapacity' = LobbyCapacity - currentUser'
      BY <1>1, SizesAreNatural DEF CountInv
    <2> QED BY <2>1, <2>2 DEF Notices, Info
  <1>5. /\ UNCHANGED refused
        /\ jobs' \in Seq(Notices) /\ Len(jobs') = Len(jobs) + 1
        /\ Pending' = Pending \union {n}
    BY <1>1, <1>4, PushFits
  <1>6. Types'
    BY <1>1, <1>5 DEF Types
  <1>7. CountInv'
    <2>1. Serving' \subseteq Serving \union {a}
      BY <1>1 DEF Serving, Types
    <2>2. /\ IsFiniteSet(Serving \union {a})
          /\ Cardinality(Serving \union {a}) <= Cardinality(Serving) + 1
      <3>1. IsFiniteSet(Serving) /\ Cardinality(Serving) \in Nat
        BY FS_CardinalityType DEF CountInv
      <3>2. /\ IsFiniteSet(Serving \union {a})
            /\ \/ Cardinality(Serving \union {a}) = Cardinality(Serving)
               \/ Cardinality(Serving \union {a}) = Cardinality(Serving) + 1
        BY <3>1, FS_AddElement
      <3> QED BY <3>1, <3>2
    <2>3. /\ IsFiniteSet(Serving')
          /\ Cardinality(Serving') <= Cardinality(Serving \union {a})
      BY <2>1, <2>2, FS_Subset
    <2>4. /\ Cardinality(Serving) \in Nat /\ Cardinality(Serving') \in Nat
          /\ Cardinality(Serving \union {a}) \in Nat
      BY <2>2, <2>3, FS_CardinalityType DEF CountInv
    <2> QED BY <1>1, <1>2, <1>3, <2>2, <2>3, <2>4, SizesAreNatural DEF CountInv
  <1>8. RoomInv'
    <2>1. Len(jobs) \in Nat /\ ToConnect \in Nat /\ ToConnect' = ToConnect
      BY <1>1 DEF Types, ToConnect
    <2> QED BY <1>2, <1>3, <1>5, <2>1 DEF RoomInv
  <1>9. PeerInv'
    <2>1. /\ connectKey = NoKey => \A b \in Addresses \ allocated : names'[b] = NoPeer
          /\ connected' \intersect accepting' = {} /\ connectKey \notin accepting'
          /\ connectKey # NoKey => names'[connectKey] \in {ControlServer, NoPeer}
      BY <1>1 DEF PeerInv, Types
    <2>2. ASSUME NEW m \in Pending
          PROVE  m.key \notin accepting' /\ names'[m.key] \in {m.for, ControlServer, NoPeer}
      <3>1. m.key # a
        BY <1>1 DEF PeerInv
      <3> QED BY <1>1, <3>1 DEF PeerInv, Types
    <2>3. n.key \notin accepting' /\ names'[n.key] \in {n.for, ControlServer, NoPeer}
      BY <1>1, <1>4 DEF Types
    <2> QED BY <1>1, <1>5, <2>1, <2>2, <2>3 DEF PeerInv
  <1>10. NoticeReachesNoOtherClient'
    BY <1>1 DEF NoticeReachesNoOtherClient
  <1> QED BY <1>6, <1>7, <1>8, <1>9, <1>10

LEMMA ReachControlServerKeeps == IInv /\ ReachControlServer => IInv'
  <1> SUFFICES ASSUME IInv, ReachControlServer PROVE IInv'
    OBVIOUS
  <1> USE DEF IInv
  <1> PICK n : n = Ready(connectKey)
    OBVIOUS
  <1>1. /\ connecting /\ connecting' = FALSE
        /\ names' = [names EXCEPT ![connectKey] = ControlServer]
        /\ connected' = connected \union {connectKey}
        /\ PushJob(n)
        /\ UNCHANGED <<accepting, allocated, served, erasing, connectKey, currentUser,
                       remainCapacity, job, target, delivered>>
    BY DEF ReachControlServer, sender, monitor
  <1>2. connectKey \in Addresses /\ connectKey # NoKey
    BY <1>1 DEF Types
  <1>3. n \in Notices /\ n.key = connectKey /\ n.for = ControlServer
    BY <1>2 DEF Notices, Ready
  <1>4. ToConnect = 1 /\ ToConnect' = 0
    BY <1>1, <1>2 DEF ToConnect
  <1>5. /\ UNCHANGED refused
        /\ jobs' \in Seq(Notices) /\ Len(jobs') = Len(jobs) + 1
        /\ Pending' = Pending \union {n}
    BY <1>1, <1>3, <1>4, PushFits
  <1>6. Types'
    BY <1>1, <1>2, <1>5 DEF Types
  <1>7. CountInv'
    BY <1>1, FewerServing, PeersAreDistinct DEF Serving, monitor, Types
  <1>8. RoomInv'
    <2>1. IsFiniteSet(accepting)
      BY QueueHasRoom, FS_Subset DEF Types
    <2>2. /\ Len(jobs) \in Nat /\ Cardinality(accepting) \in Nat
          /\ Cardinality(AcceptSockets) \in Nat
      BY <2>1, QueueHasRoom, FS_CardinalityType DEF Types
    <2> QED BY <1>1, <1>4, <1>5, <2>2 DEF RoomInv
  <1>9. PeerInv'
    <2>1. \A m \in Pending : names'[m.key] \in {m.for, ControlServer, NoPeer}
      BY <1>1, <1>2 DEF PeerInv, Types
    <2>2. names'[n.key] = n.for /\ n.key \notin accepting'
      BY <1>1, <1>2, <1>3 DEF PeerInv, Types
    <2> QED BY <1>1, <1>2, <1>5, <2>1, <2>2 DEF PeerInv, Types
  <1>10. NoticeReachesNoOtherClient'
    BY <1>1 DEF NoticeReachesNoOtherClient
  <1> QED BY <1>6, <1>7, <1>8, <1>9, <1>10

\* The connection is not made: what is left is less.
LEMMA MissControlServerKeeps == IInv /\ MissControlServer => IInv'
  <1> SUFFICES ASSUME IInv, MissControlServer PROVE IInv'
    OBVIOUS
  <1> USE DEF IInv, MissControlServer, monitor, queue, sender
  <1>1. Types'
    BY DEF Types
  <1>2. CountInv'
    BY FewerServing DEF Serving
  <1>3. RoomInv'
    <2>1. IsFiniteSet(accepting)
      BY QueueHasRoom, FS_Subset DEF Types
    <2>2. /\ Len(jobs) \in Nat /\ Cardinality(accepting) \in Nat
          /\ Cardinality(AcceptSockets) \in Nat
      BY <2>1, QueueHasRoom, FS_CardinalityType DEF Types
    <2>3. ToConnect' <= ToConnect /\ ToConnect \in Nat /\ ToConnect' \in Nat
      BY DEF ToConnect
    <2> QED BY <2>2, <2>3 DEF RoomInv
  <1>4. PeerInv'
    BY DEF PeerInv, Pending
  <1> QED BY <1>1, <1>2, <1>3, <1>4 DEF NoticeReachesNoOtherClient

LEMMA DeleteSocketKeeps ==
    ASSUME IInv, NEW a \in Addresses, DeleteSocket(a)
    PROVE  IInv'
  <1> USE DEF IInv, DeleteSocket, monitor, queue, sender
  <1>1. Types'
    BY DEF Types, PeerInv
  <1>2. CountInv'
    BY FewerServing, PeersAreDistinct DEF Serving, Types
  <1>3. RoomInv'
    BY DEF RoomInv, ToConnect
  <1>4. PeerInv'
    BY DEF PeerInv, Pending, Types
  <1> QED BY <1>1, <1>2, <1>3, <1>4 DEF NoticeReachesNoOtherClient

LEMMA EraseKeyKeeps == IInv /\ EraseKey => IInv'
  <1> SUFFICES ASSUME IInv, EraseKey PROVE IInv'
    OBVIOUS
  <1> USE DEF IInv, EraseKey, monitor, queue, sender
  <1>1. Types'
    BY DEF Types
  <1>2. CountInv'
    BY FewerServing DEF Serving
  <1>3. RoomInv'
    BY DEF RoomInv, ToConnect
  <1>4. PeerInv'
    BY DEF PeerInv, Pending
  <1> QED BY <1>1, <1>2, <1>3, <1>4 DEF NoticeReachesNoOtherClient

LEMMA ExecuteJobKeeps == IInv /\ ExecuteJob => IInv'
  <1> SUFFICES ASSUME IInv, ExecuteJob PROVE IInv'
    OBVIOUS
  <1> USE DEF IInv
  <1>1. /\ job = NoJob /\ jobs # <<>>
        /\ job' = Head(jobs) /\ jobs' = Tail(jobs)
        /\ UNCHANGED <<sockets, monitor, refused, target, delivered>>
    BY DEF ExecuteJob
  <1>2. /\ job' \in Notices /\ jobs' \in Seq(Notices)
        /\ Len(jobs) \in Nat \ {0} /\ Len(jobs') = Len(jobs) - 1
        /\ job' = jobs[1]
        /\ \A i \in 1 .. Len(jobs') : jobs'[i] = jobs[i + 1]
    BY <1>1, HeadTailProperties, LenProperties, EmptySeq DEF Types
  <1>3. Pending' \subseteq Pending
    <2>1. job' \in Pending
      BY <1>2 DEF Pending
    <2>2. \A i \in 1 .. Len(jobs') : i + 1 \in 1 .. Len(jobs)
      BY <1>2
    <2> QED BY <1>2, <2>1, <2>2 DEF Pending
  <1>4. target = NoKey
    BY <1>1 DEF PeerInv
  <1>5. Types'
    BY <1>1, <1>2 DEF Types, sockets
  <1>6. CountInv'
    BY <1>1, FewerServing DEF Serving, sockets
  <1>7. RoomInv'
    <2>1. IsFiniteSet(accepting)
      BY QueueHasRoom, FS_Subset DEF Types
    <2>2. Cardinality(accepting) \in Nat /\ Cardinality(AcceptSockets) \in Nat
      BY <2>1, QueueHasRoom, FS_CardinalityType
    <2>3. ToConnect' = ToConnect /\ ToConnect \in Nat
      BY <1>1 DEF ToConnect, sockets
    <2> QED BY <1>1, <1>2, <2>2, <2>3 DEF RoomInv, sockets
  <1>8. PeerInv'
    BY <1>1, <1>3, <1>4 DEF PeerInv, sockets
  <1>9. NoticeReachesNoOtherClient'
    BY <1>1 DEF NoticeReachesNoOtherClient
  <1> QED BY <1>5, <1>6, <1>7, <1>8, <1>9

\* The search, and its end without a socket.
LEMMA SearchKeeps == IInv /\ (SendFindsNothing \/ SendFindsSocket) => IInv'
  <1> SUFFICES ASSUME IInv, SendFindsNothing \/ SendFindsSocket PROVE IInv'
    OBVIOUS
  <1> USE DEF IInv, SendFindsNothing, SendFindsSocket
  <1>1. UNCHANGED <<sockets, monitor, queue, delivered>>
    OBVIOUS
  <1>2. Types'
    BY DEF Types, sockets, queue
  <1>3. CountInv'
    BY <1>1, FewerServing DEF Serving, sockets
  <1>4. RoomInv'
    BY <1>1 DEF RoomInv, ToConnect, sockets, queue
  <1>5. PeerInv'
    <2>1. Pending' \subseteq Pending
      BY DEF Pending, queue
    <2>2. target' # NoKey => job' # NoJob /\ target' = job'.key
      OBVIOUS
    <2> QED BY <1>1, <2>1, <2>2 DEF PeerInv, sockets
  <1> QED BY <1>1, <1>2, <1>3, <1>4, <1>5 DEF NoticeReachesNoOtherClient

LEMMA SendSubmitsKeeps == IInv /\ SendSubmits => IInv'
  <1> SUFFICES ASSUME IInv, SendSubmits PROVE IInv'
    OBVIOUS
  <1> USE DEF IInv
  <1>1. /\ target # NoKey /\ job' = NoJob /\ target' = NoKey
        /\ delivered' = IF names[target] = NoPeer THEN delivered
                        ELSE delivered \union {[notice |-> job, to |-> names[target]]}
        /\ UNCHANGED <<sockets, monitor, queue>>
    BY DEF SendSubmits
  <1>2. /\ job \in Notices /\ job \in Pending /\ target = job.key /\ target \in Addresses
        /\ names[target] \in {job.for, ControlServer, NoPeer}
    BY <1>1 DEF PeerInv, Types, Pending
  <1>3. Types'
    <2>1. delivered' \subseteq [notice : Notices, to : Clients \union {ControlServer}]
      BY <1>1, <1>2 DEF Types
    <2> QED BY <1>1, <2>1 DEF Types, sockets, queue
  <1>4. CountInv'
    BY <1>1, FewerServing DEF Serving, sockets
  <1>5. RoomInv'
    BY <1>1 DEF RoomInv, ToConnect, sockets, queue
  <1>6. PeerInv'
    <2>1. Pending' \subseteq Pending
      BY <1>1 DEF Pending, queue
    <2> QED BY <1>1, <2>1 DEF PeerInv, sockets
  <1>7. NoticeReachesNoOtherClient'
    BY <1>1, <1>2 DEF NoticeReachesNoOtherClient
  <1> QED BY <1>3, <1>4, <1>5, <1>6, <1>7

LEMMA NextIInv == IInv /\ [Next]_vars => IInv'
  <1>1. IInv /\ UNCHANGED vars => IInv'
    <2> SUFFICES ASSUME IInv, UNCHANGED vars PROVE IInv'
      OBVIOUS
    <2> USE DEF IInv, vars, sockets, monitor, queue, sender
    <2>1. Types' /\ RoomInv'
      BY DEF Types, RoomInv, ToConnect
    <2>2. CountInv'
      BY FewerServing DEF Serving
    <2>3. PeerInv' /\ NoticeReachesNoOtherClient'
      BY DEF PeerInv, Pending, NoticeReachesNoOtherClient
    <2> QED BY <2>1, <2>2, <2>3
  <1> QED
    BY <1>1, ConnectControlServerKeeps, AcceptClientKeeps, ReachControlServerKeeps,
       MissControlServerKeeps, DeleteSocketKeeps, EraseKeyKeeps, ExecuteJobKeeps, SearchKeeps,
       SendSubmitsKeeps
    DEF Next, NetworkThread, JobThread

LEMMA Invariant == Spec => []IInv
  BY InitIInv, NextIInv, PTL DEF Spec

-----------------------------------------------------------------------------
(* The theorems *)

(* The state of a Lobby server keeps its types: in particular the LobbyMonitor *)
(* counts no more clients than accepts were posted, and its two counts always  *)
(* make the capacity.                                                          *)
THEOREM TypeCorrect == Spec => []TypeOK
  <1>1. IInv => TypeOK
    <2> SUFFICES ASSUME IInv PROVE TypeOK
      OBVIOUS
    <2>1. IsFiniteSet(accepting)
      BY QueueHasRoom, FS_Subset DEF IInv, Types
    <2>2. Cardinality(accepting) \in Nat /\ Cardinality(AcceptSockets) \in Nat
      BY <2>1, QueueHasRoom, FS_CardinalityType
    <2> QED BY <2>2 DEF IInv, Types, CountInv, RoomInv, TypeOK
  <1> QED BY <1>1, Invariant, PTL

(* The lobby never claims room that its connected clients already take.        *)
THEOREM RoomIsHonest == Spec => []RoomIsNotOverstated
  <1>1. IInv => RoomIsNotOverstated
    <2> SUFFICES ASSUME IInv PROVE RoomIsNotOverstated
      OBVIOUS
    <2> DEFINE S == {a \in connected : names[a] \in Clients}
    <2>1. S \subseteq Serving
      BY DEF IInv, Types, Serving
    <2>2. IsFiniteSet(S) /\ Cardinality(S) <= Cardinality(Serving)
      BY <2>1, FS_Subset DEF IInv, CountInv
    <2>3. Cardinality(S) \in Nat /\ Cardinality(Serving) \in Nat
      BY <2>2, FS_CardinalityType DEF IInv, CountInv
    <2> HIDE DEF S
    <2>4. remainCapacity + Cardinality(S) <= LobbyCapacity
      BY <2>2, <2>3, SizesAreNatural DEF IInv, CountInv
    <2> QED BY <2>4 DEF S, RoomIsNotOverstated
  <1> QED BY <1>1, Invariant, PTL

(* A queue with a slot for every socket refuses no notice.                     *)
THEOREM NoticesFit == Spec => []NoticeNeverRefused
  <1>1. IInv => NoticeNeverRefused
    BY DEF IInv, RoomInv, NoticeNeverRefused
  <1> QED BY <1>1, Invariant, PTL

(* No client is sent the notice of another one, although the addresses that    *)
(* serve as keys are used again.                                               *)
THEOREM NoticesGoHome == Spec => []NoticeReachesNoOtherClient
  <1>1. IInv => NoticeReachesNoOtherClient
    BY DEF IInv
  <1> QED BY <1>1, Invariant, PTL
===============================================================================
