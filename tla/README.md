# Specifications of the IOCP servers

TLA+ models of the servers in this repository (a Control server, Lobby servers
and an unfinished Auth server built on one Winsock/IOCP layer), model-checked
with TLC, and proofs about the core of them checked with TLAPS.

## 1. The system

| Part | Files | State | Operations |
|---|---|---|---|
| `LockFreeCircleQueue<T>` | `Common/Include/Utility/LockFreeCircleQueue.h` | `_buffer`, `_inputIndex`, `_outputIndex` | `push`, `pop`, `empty`, `Construct` |
| `NetworkManager` | `Common/Src/Network/NetworkManager.cpp` | `_overlappedQueue`, `_preparedSocketQueue`, `_connectedSocketMap`, `_iocp` | `PrepareAcceptSocket`, `SetupConnectSocket`, `ProcessCompletionHandler` and its handlers, `CallReceiveReady`, `SendRequest`, `ProcessDisconnect` |
| `CustomOverlapped` | `Common/Src/Network/BasicData.cpp` | two buffers, `_operationType`, `_socket`, `_senderType` | the `...Setting` functions, `Clear` |
| `Hub` (Control) | `Server_Controll/Src/Hub.cpp` | `_packetQueue`, `_jobQueue`, `_lockJobThread`, `_jobThreadConditionValue` | `ProcessIocp`, `ReceiveThread`, `JobThread`, `LobbyServerStart` |
| `LobbyManager`, `RedisWorker` | `Server_Controll/Src/LobbyManager.cpp`, `Common/Src/Database/RedisWorker.cpp` | the `LobbyInfo` table in Redis, `_lobbyMap` | `SaveLobbyInfo`, `UpdateLobbyInfo`, `ResponseLobbyInfo`, `SearchBestLobby` |
| `LobbyHub`, `LobbyMonitor` | `Server_Lobby/Src/` | as `Hub`, and two counters | `ProcessIocp`, `JobThread`, `ReceiveThread`, `RegisterLobbyUser` |
| `AuthHub` | `Server_Auth/Src/AuthHub.cpp` | as `Hub` | never constructed: `Server_Auth/main.cpp` parses its arguments and returns |
| jobs | `Common/Src/Protocol/*.cpp` | their arguments | `Execute` |

### How the parts interact

A server process runs these threads (`Hub.cpp:61-84`, `LobbyHub.cpp:63-86`,
both called with `InitializeSubThread(1, 5)`):

* one **network thread** in `ProcessCompletionHandler`. It takes completions
  from the port, registers sockets, posts receives, deletes sockets and calls
  the hub's `ProcessIocp`, which pushes a `Packet` into `_packetQueue` and, in a
  Lobby server, jobs into `_jobQueue`. (The configured `ThreadCount` of 10 is
  only the concurrency value of the port.)
* one **ReceiveThread**, which pops `_packetQueue`, pushes jobs (Control server)
  and notifies the condition variable after every packet.
* five **JobThreads**, which wait on the condition variable, drain `_jobQueue`
  under `_lockJobThread`, execute the jobs and send their answers with
  `NetworkManager::SendRequest`, still under the mutex.
* the **main thread**, which posts the accepts before the others start; in a
  Lobby server it calls `SetupConnectSocket` while they run. Then it spins.

So `_packetQueue` has one pusher and one popper, `_jobQueue` one pusher and
poppers that exclude each other, and `_overlappedQueue` one pusher (the network
thread) and up to three poppers under no lock.

### What is hard

* The queue has no lock: only the order of two index accesses keeps its sides
  apart. Its callers dereference the result of `pop` without a test.
* The condition variable is notified without the mutex.
* Five threads execute one queue of jobs, and the order of the answers matters
  to a peer that matches them by order (the protocol has no request numbers).
* Sockets and overlapped objects are raw pointers that pass between Winsock, the
  completion port and three threads. Two operations of one connection fail
  independently of each other.
* The map of connected sockets is a lock-free skip list, and it is erased from
  while other threads search it.
* A connection is a stream of bytes; one receive becomes one packet. The buffers
  it is received into have been used for something else before.
* A notice is addressed by the address of a heap object.
* Nothing retries: an operation that fails to start, an error code outside the
  switch, a full queue and a consumed accept are all final.

`PROJECT.json` lists these hazards, each at its line, with the properties that
cover it.

## 2. The modules

| Module | What it is |
|---|---|
| `BoundedFifo` | the abstract promise of the queue: a bounded FIFO with `push` and `pop` that take effect at one instant |
| `CircleQueue` | the ring buffer, one atomic access per step |
| `JobDispatch` | `_jobQueue`, the mutex, the condition variable and the JobThreads |
| `NetworkManager` | sockets, overlapped objects, the completion port and the threads that use them |
| `OverlappedPool` | the ring of overlapped objects as several threads pop it |
| `HubJobQueue` | `CircleQueue` and the threads of `JobDispatch` composed: the ring under the mutex |
| `ConnectedSocketMap` | the skip list behind `_connectedSocketMap`, one access to a pointer per step |
| `MessageStream` | the buffers of the overlapped objects, and how received bytes become packets |
| `LobbyServer` | `LobbyMonitor`, the notices of a Lobby server and the keys they are addressed by |
| `LobbyDirectory` | the Control server's two queues and jobs, the lobby records in Redis and their readers |
| `SearchBestLobby` | the loop that chooses a lobby among the records |
| `MC...` | an instance of each for TLC, with its symmetry sets if it has any; that of `HubJobQueue` is also the one of `CircleQueue` and `BoundedFifo` |
| `Containers_proofs` | theorems about `OverlappedPool` and `ConnectedSocketMap` |
| `LobbyManager_proofs` | theorems about `LobbyDirectory` and `SearchBestLobby` |
| other `..._proofs` | theorems about the module each is named for |

They rest on each other. `CircleQueue` requires that pops be one at a time;
`OneDrainer` of `JobDispatch` establishes it for the job queue. In return
`JobDispatch` uses a bounded FIFO, which `ImplementsFifo` says the ring is.
`HubJobQueue` closes the circle: it puts the two together, supposes neither, and
implements `JobDispatch`. `NetworkManager` has one "job thread", and `LobbyDirectory` executes one job at a
time, because of `OneDrainer`. The one queue for
which the condition does not hold, the pool, has its own module.
`NetworkManager` has the map of sockets as a set, and adds the one behaviour
that `ConnectedSocketMap` shows beyond that: a search that fails because another
key is being erased. `MessageStream` has one receive on its connection at a
time, which is `OneReceivePerSocket` of `NetworkManager`.

Definitions in a module marked `Mutant of ...` are not part of a specification.
Each is the definition after it with a plausible mistake; they document which
mistake each property would catch.

### CircleQueue

State: the two indices, the buffer, and for each side its program counter and
the locals of `push` or `pop`. `push` is `CallPush` (load of `_inputIndex`),
`PushFindsFull` or `PushFindsRoom` (load of `_outputIndex`), `PushWrites` (the
slot) and `PushPublishes` (store of `_inputIndex`); `pop` is the same on its
side. `SeeItem` is the `empty()` that the callers ask before they pop. `sawItem`
remembers who did. `MayPop` says that no other thread is popping: the packet
queue has one popper, the job queue a mutex.

An index is written by one side only and read by the other with acquire after a
release, so a load answers what the index is or what it was before. Interleaving
the single accesses has the answers that are old by the time they are used, since
the load and the use are different steps. It does not have a load that is late on
both sides at once, which acquire and release permit: then a push finds the ring
full, or a pop finds it empty, although the last step of the other side says
otherwise. An old index only makes a side more careful, so `NoSlotRace` is not
touched. `_buffer` itself is not atomic; `NoSlotRace` shows that this is sound.

`MoveEmptiesSlot` tells the two element types apart: moving a `shared_ptr` out
of a slot leaves null there, moving a raw pointer leaves the pointer. The
comment at `LockFreeCircleQueue.h:114-125` reports that `shared_ptr` elements are
lost and that `pop` returns null. `CheckedPopReturnsItem` and `ImplementsFifo`
show that this does not come from the ring as it is used now.

`ImplementsFifo` is a refinement. Each push and pop of the ring takes effect at
one of its steps: a push when it publishes, a pop when it publishes, a full push
and an empty pop when they load the other side's index. While a pop has moved
the oldest item out and not yet published, that item is in its local `data`, so
the mapping (`ItemsInside`) takes it from there.

### JobDispatch

Jobs are numbered in the order in which the queue accepted them. `PushJob` and
`DropJob` are the push (a full queue answers false, which no caller looks at),
`NotifyJob` the `notify_one` that follows, `NotifyWithoutJob` the `notify_one`
that the ReceiveThreads call after packets that produce no job. A JobThread goes
through `Lock`, `Test` (the predicate), `Block` and back, or drains:
`PopJob`, `ExecuteJob`, `SendAnswer` until `Unlock`. Blocking is a step apart
from the test: the gap is where a notify made without the mutex can be lost.

`isOn` is constant TRUE: it becomes false in the destructor of the hub only,
which `Start` never lets run. An empty predicate test therefore is the test of
the queue. That a job thread might throw in `Execute` is not modelled here.

`NoLostWakeup` needs two JobThreads (`TwoJobThreads`); the servers start five.
With one it is false: that thread may have tested an empty queue and be about to
block when the push and the notify happen. With two, a notify that wakes nobody
is made while nobody waits, and the mutex lets only one thread be about to
block, so another one is still on its way to look at the queue.

### HubJobQueue

The actions of `CircleQueue` and those of `JobDispatch` on one state: the pusher
goes through `StartPush`, `ContinuePush`, `EndPush` and `Notify`, a JobThread through
`Lock`, `Test` and either `Block` or `SeeJob`, `ContinuePop`, `EndPop`,
`ExecuteJob`, `SendAnswer`. The guards by which `CircleQueue` supposes that pops are
one at a time (`MayPop`) and that the callers do not pop an empty ring are still in
the actions; `PopIsServed` says that they restrict nothing. `ImplementsDispatch` maps the state to that of
`JobDispatch`: the queue is `ItemsInside`, and a thread inside `pop` is still
draining.

### NetworkManager

A pop of the pool is one step here. In a Control server that is so (`pool_receive`,
`ReceiversSharePool`), in a Lobby server it is so until two pops overlap. Once they
have, two threads hold one object, whose fields and `OVERLAPPED` they overwrite:
nothing in this module can be claimed any more. All its properties are about the
time before, and none of them says that objects are not shared; that is
`ExclusiveUse` of `OverlappedPool`, which `pool_lobby` refutes.

An overlapped object is in `pool`, in `inFlight` (Winsock has it), in `iocp`
(completed), with the network thread (`current`) or with the job thread
(`sending`), or lost: an operation that Winsock refuses at once is not given
back by `PrepareAcceptSocket`, `SetupConnectSocket`, `CallReceiveReady` or
`SendRequest`. `work` holds what the `...Setting` functions wrote into it.

The main thread: `PrepareAcceptSocket`, with the `getsockopt` error as an action
of its own, and `SetupConnectSocket`, whose early returns are
`SetupConnectSocketFails`. The threads start when the accepts have
been posted (`Running`), as in `main`.

The network thread: `Dequeue` takes the first completion and chooses the handler
(`HandlerOf`): the two switches of `ProcessCompletionHandler` and the test for
zero bytes. `HandleNewConnection` and `HandleReceiveComplete` are the handlers
up to `CallReceiveReady`, which is a step of its own, and every path ends in
`Recycle`. A disconnect is two steps, `DisconnectDeletes` (`ProcessDisconnect`)
and `DisconnectErases`, since job threads read the map in between.

The completion key of an accept is the listening socket's
(`NetworkManager.cpp:251`), written `NoSocket`: it is never registered, so a
failed accept ends in `DisconnectUnknown`.

The job thread: `SendFindsSocket` or `SendFindsNothing`, then
`SendTakesOverlapped`, then `SendSubmits`. The network thread may delete the
socket between any two of them.

Winsock (external): an operation in flight completes with an outcome that fits
its connection. A receive gets data while the connection is up, data or zero
bytes when the peer has closed, and an error when it is reset. Errors are
"listed" (a case of the switch) or "other". Completions leave the port in order.

### OverlappedPool

The same ring as `CircleQueue`, of raw pointers, popped by the network thread
while it handles a completion and by `OtherPoppers` at any time, with what
becomes of each object: held by a thread, in flight, current, or free. A pop of
the empty ring gives a null pointer that its caller dereferences: the thread is
"dead". `Submit` is the operation the object was popped for; Winsock takes it or
refuses it at once, and then the caller returns without giving the object back
(`NetworkManager.cpp:185-190`, `300-305`, `329-335`). `refused` remembers those
objects, those of the accepts posted at the start (`PrepareAcceptSocket`) included,
and no action reads it. `LostExactlyIfRefused` says that they, and no
others, are the objects that the ring, Winsock and the threads no longer have
(`Reachable`): the ring itself loses none, and its `push` is never refused.

### ConnectedSocketMap

`_connectedSocketMap` is a `tbb::concurrent_map`, a skip list. The network thread
is its only writer: `Insert`, then for each level of the node `Prepare` and `Link`,
with `Raise` after the first; `Erase`, then `Unlink` and `ClearNext` for each level,
then `Destroy`. The job thread searches: `Find`, `Load` and `Compare` along the
levels, `Check`, `Return`. With one writer the compare-and-swaps of `insert` succeed
at once, and the positions it looks up do not change before it uses them.

Reading a pointer or the key of a destroyed node gives any value. `calm` says that
no erasure has overlapped the search, `stayed` that the key has been in the map
all the time. The library allows `insert` and `find` to overlap and forbids
`unsafe_erase` to overlap anything: `CalmFindIsRight` is what it promises within
these rules. Outside them a search may miss a key that stays connected (see
"Limits of the code" below), so `stayed` alone is not enough. Keys are used once; a node of a reused key is in the list at another time than the first one.

### MessageStream

The bytes are counted in units, `FieldSize` of them to each field of the header. A
unit knows the message it is part of and its place there, so that a property can
say where the contents of a packet come from; `Zero` is what `memset` leaves,
`Other` stands for the rest that gets into a buffer (the addresses that `AcceptEx`
writes, an answer, what `new char[]` happens to contain), and `Foreign` for the memory
behind it. `len` is `Wsabuf[1].len`. It matters because `Clear`
zeroes only that much, and `SendSetting` sets it to the size of an answer.

`ReceiveCompletes` takes any number of the units that have arrived, as TCP may
deliver them, also a part of a header field, and fills the header buffer first.
`ProcessIocp` makes a packet (`made`) of what is in the buffers. When the BodySize
field is that of a message, it is the size of that message; when nothing was
received there it is 0; when TCP has cut it, or put something else in its place, it may
be any of `Numbers`, negative ones included (`SizesReadFrom`). The code does not
compare it with the 1024 bytes of the buffer: `Copied` goes on into `Foreign` units,
or the copy touches memory that is not there, or the size is negative and
`std::string` throws, which nobody catches (`ProcessIocpEnds`).

`SendRequest` uses objects of the same pool for answers on other connections;
`AcceptCompletes` is the first use of the object that accepts. Neither compares what
it writes with the buffer. `OwnWritesFit` supposes that the program's own data are
small enough: an answer is a flatbuffer of a key and three numbers
(`BasicData.cpp:89` copies it), and the two addresses of an accept take 64 bytes.

`PacketFromItsReceive` holds for every number that is read: within the buffer, the packet
is the receive at its place, and zeros. `OverrunOnlyIfMisread` says when the buffer is
left: only if the receive cut the field, began in the middle of a message, or brought
a message larger than the buffer. A size left by an earlier operation on the same
object, or by the constructor, is never read.

### LobbyServer

The network thread accepts clients, reaches the Control server or does not, and
closes connections (`DeleteSocket`, `EraseKey`). Accepting a client counts it
(`RegisterLobbyUser`) and queues a notice with the counts to it; reaching the Control
server queues `NOTICE_LOBBYREADY`. The job thread looks up the key of a notice
and sends. `ConnectControlServer` is the main thread's `new SOCKET`, which may get
any free address, also one that a client had (`LobbyHub`'s `main` starts the
threads first). So a key can change its meaning while a notice for it is
queued. `delivered` remembers who got which notice.

`ProcessDisconnect` of the hub does nothing and nobody calls
`UnregisterLobbyUser`, hence the counts never fall: a lobby that 10 clients
have left says that 10 are there. `RoomIsNotOverstated` is what remains true.

### LobbyDirectory

`LaunchLobby` is one round of the loop of `LobbyServerStart`. A Lobby server that
runs may send `NOTICE_LOBBYREADY` once (`LobbyAnnounces`); requests arrive at any
time (`AskForLobby`). Both enter `_packetQueue` by `Receive`, which is the hub's
`ProcessIocp` for a received packet. The ReceiveThread makes jobs of them
(`ReceiveReady`, `ReceiveRequest`), or loses them to a full job queue. A request
carries the set of lobbies whose notice was accepted before it: that is for the
property `SeesEarlierLobbies`, the code has no such field.

A JobThread executes `SaveLobbyInfo` in one step, `SET` with an expiry, whose
reply nobody looks at. A request takes several: `ScanKeys` (`SCAN`), `ReadRecord`
for each key (`GET`), and then `AnswerNoLobby` if no record was read, or
`ParsingThrows` if there is one. The last is what the code does with each record
it wrote itself, see below. Redis is external: a record can expire at any
moment, and once its connection fails every later command fails, since the
context of hiredis keeps its error and nobody reconnects. Redis outlives the server:
the table may start with records of the same lobbies (their keys are in the
configuration) that an earlier Control server saved.

`NOTICE_LOBBYINFO` has no action: the Lobby servers send it to their clients, and
the Control server makes a job of it that it never pushes (`Hub.cpp:331-340`).
`UpdateLobbyInfo`, which that job would call, looks in `_lobbyMap`, which is never
filled.

### SearchBestLobby

The loop of `LobbyManager::SearchBestLobby`, one step for each lobby in the order
of the keys: `SkipLobby` for the two `continue`s, `KeepBest` and `TakeBetter`. The
float `Current / total` is a fraction, compared by cross multiplication: for
terms below 2^12 (a deployed lobby has a capacity of 100) two different
fractions are different floats, and equal ones the same, so nothing is lost. The
property compares with a definition that does not mention the loop: a least
element of the lobbies that may be entered under load, then response time, then
key. The module starts from what the JSON reader should return, not from what it
does (see `ControlSurvives`): it says that the choice is right once records can
be read.

## 3. The runs

| Run | Instance | Shows |
|---|---|---|
| `hub_job_queue` | 2 JobThreads, capacity 2, 4 jobs, `HubFairSpec` | `TypeOK`, `NoSlotRace`, `PopIsServed`, `CheckedPopReturnsItem`, `ImplementsFifo`, `ImplementsDispatch`, `RingJobsExecuted` |
| `job_dispatch` | 3 JobThreads, capacity 2, 6 jobs, `FairSpec` | `TypeOK`, `OneDrainer`, `NoLostWakeup`, `ExecutesInOrder`, `AnswersInOrder`, `EveryJobExecuted` |
| `network_lobby` | 1 accepted socket, 1 connecting one, 5 objects, 2 answers | `TypeOK`, `PoolNeverDry`, `OneReceivePerSocket`, `HandlersUseLiveSockets`, `DanglingOnlyWhileErasing` |
| `network_live` | 1 accepted socket, 3 objects, 1 answer, `FairSpec` | `FailedReceiveCloses`, `BrokenConnectionEnds` |
| `pool_receive` | 4 objects, all posted, the network thread alone | `ExclusiveUse`, `LostExactlyIfRefused` |
| `pool_lobby` | 4 objects, a job thread too | **violates** `ExclusiveUse` |
| `socket_map` | 3 keys, 2 levels | `KeepsOrder`, `NothingDangles`, `CalmFindIsRight` |
| `message_stream` | 2 messages (bodies of 1 and 4 units), fields of 2 units, buffers of 3, other numbers -1, 2 and 4, 3 objects | `TypeOK`, `ReceivesIntoCleanBuffers`, `PacketFromItsReceive`, `OverrunOnlyIfMisread`, `WholeMessageIntact` |
| `lobby_server_notices` | 3 accepts, 3 clients, 4 addresses, a queue of 4 | `TypeOK`, `RoomIsNotOverstated`, `NoticeNeverRefused`, `NoticeReachesNoOtherClient` |
| `search_tables` | all tables of 3 lobbies, counts 0 to 2, 2 response times | `SearchTypeOK`, `ReturnsBest` |
| `directory` | 2 lobbies, queues of 2, 3 requests, `FairSpec` | `TypeOK`, `SeesEarlierLobbies`, `NoLobbyMeansNone`, `JobsEnd` |
| `directory_request` | 2 lobbies, 1 request | **violates** `ControlSurvives` |

**Why the bounds are enough.** A ring of capacity 2 has three slots, so it wraps,
fills and empties, and both indices meet in every slot; three distinct items
show any reordering. Three JobThreads allow one to drain, one to be about to
lock and one to wait; the queue fills with two jobs and six go through it.
In `hub_job_queue` the four jobs take both indices round the ring. There the ring is
checked among the threads that use it, rather than on its own.
Three keys allow a search to stand on a node while the one before or after it is
erased and another is half inserted, and two levels are the least with which a
node is reached by two ways; the library has 32, of equal kind. Two messages, one
that fits the buffer and one that does not, can be cut anywhere, inside a field too,
come together, and leave a shorter one where a longer one was; of the numbers that a
wrong field reads as, one is negative, one fits the buffer and one does not; with
three objects the receives alternate with answers in the same object. The lobby has exactly as many
queue slots as connections, and one address more than accepts, so that the
connection to the Control server either gets its own or that of a client that
left.
In `network_lobby` both kinds of socket exist, each with an answer to send, so a
send and a receive of one connection can fail in either order, and the number of
objects is the bound that `PoolNeverDry` states: one per socket, one per answer
and one for the completion being handled. The deployed pool has 100 for 10
accepts, one connection and 11 notices. In `pool_receive` every object is in use
at the start, so that the empty and the full ring both occur; in the deployed
configuration the ring is emptied only if the accept count reaches its size.
The tables of `search_tables` have every kind of tie: equal loads from equal and
from different counts, equal response times, lobbies without capacity and
inactive ones. In the directory two lobbies are what `main` starts, and with
queues of two both queues fill.

**Fairness.** `JobDispatch!FairSpec` assumes that a JobThread that can take a step
does (`WF` for each thread) and that a push is followed by its notify. It
assumes nothing of pushes, spurious wake-ups and the notifies without a job.
Weak fairness of `Lock` is enough: the mutex can be taken by others again and
again, but each of them drains the queue. `NetworkManager!FairSpec` assumes that
the three threads run and that Winsock completes what is in flight on a
connection that is closing or gone; a receive on a connection that stays up may
wait for ever, and a peer never has to act. `HubJobQueue!HubFairSpec` assumes of the
same threads, one access at a time, what `JobDispatch!FairSpec` does.
`LobbyDirectory!FairSpec` assumes that
the ReceiveThread and the JobThreads run.

**Deadlock** is checked for the job dispatch, for its composition with the ring and
for the socket map. The other systems
really stop: every accept is used up and every connection closed, a thread died
on a null pointer, the loop ended, every lobby has announced itself and every
request is answered, every message has been sent and received. Their runs do not check it.

### What the violated properties show

* `ExclusiveUse` with a job thread. `LockFreeCircleQueue.h:35` says that `push` and
  `pop` transfer ownership. `SendRequest` on a job thread and `CallReceiveReady`
  on the network thread can both load `_outputIndex` before either stores it, and
  both get the same `CustomOverlapped`. The Control server is not exposed as long
  as no job of its own has an answer, which is so as long as nobody sends
  `REQUEST_LOBBYINFO` (the Auth server, which would, is not started): that is the
  `pool_receive` run. In a Lobby server every notice is sent by a job thread.
* `ControlSurvives`. `SaveLobbyInfo` writes `active` as 0 or 1 (`LobbyManager.cpp:25`,
  `JsonData.h:26-34`), and the constructor of `LobbyInfo` reads it as a `bool`
  (`JsonData.h:22`). nlohmann::json throws a type error for a number read as a
  `bool`, no JobThread catches anything, and the process ends with the first
  `REQUEST_LOBBYINFO` (`Hub.cpp:280`: with it the Auth server asks for lobby
  information) that is executed while a record is in the table. Nobody sends that
  message in the deployed system, as the Auth server is not started.

`NetworkManager` takes the pool at its word, a pop being one step. Its results
therefore hold for a Lobby server up to the first pair of overlapping pops.

### Limits of the code

The models contain these behaviours, which the properties are worded around.

* Accepts are posted once, at start-up (`NetworkManager.cpp:93`).
  `HandleAcceptComplete` (line 362) posts a receive and no accept, so a server
  accepts `PreCreateSocketCount` (10) clients in its life, however many of them
  leave.
* `ProcessIocp` (`Hub.cpp:191`) makes one packet of every receive. TCP may deliver a
  message in two receives, and two messages in one; then it is in no packet, though
  the comment at `Hub.cpp:262` says that messages are gathered from the worker.
  `WholeMessageIntact` is the part that holds: a receive that begins with a whole
  message gives that message, and drops what follows it. After such a cut the next
  receive begins in the middle of a message, its BodySize field is not one, and the
  copy of that many bytes (line 196) may leave the buffer or end the process:
  `OverrunOnlyIfMisread` says that it happens in no other case, apart from a
  message that is larger than the buffer.
* The network thread erases with `unsafe_erase` while job threads search
  (`NetworkManager.cpp:425`). A search that stands on the node being erased sees the
  null pointer that `internal_extract` writes into it
  (`_concurrent_skip_list.h:1047`) and ends: an answer to one client is dropped
  (`NetworkManager.cpp:282`) because another one disconnects. `SendFindsNothing` of
  `NetworkManager` allows it.

## 4. The proofs

All are checked by `tlapm` with no step left out.

**CircleQueue_proofs** (for every capacity, every set of items and poppers, both
element types). Assumptions: `QueueMaxSizeIsPositive`, `NoItemIsNoItem`,
`MoveEmptiesSlotIsBoolean`. The inductive invariant `IInv` has five parts:

* `TypeOK`;
* `OnePopper`: at most one thread is active, which `MayPop` keeps;
* `PusherInv`: the pusher's local index is `_inputIndex`, and once it has found
  room there is room, because pops only make more;
* `PopperInv`: the popper's local index is `_outputIndex`, and once it has found
  an item there is one, because pushes only add more; a thread in `sawItem` that
  has not popped yet sees a non-empty ring;
* `ContentInv`: the filled slots hold items, except the one being moved out,
  whose item is in `taken`.

From it: `TypeCorrect`, `SlotsDiffer` (`NoSlotRace`: one index equal to the other
would be a full ring for one side and an empty one for the other),
`CheckedPop` and `QueueImplementsFifo`. The last one shows step by step how
`ItemsInside` changes: by an `Append` when a push publishes, by a `Tail` when a
pop does, not at all otherwise. It rests on lemmas about `After` and `SlotFrom`,
arithmetic modulo the size of the ring.

**JobDispatch_proofs** (for every set of at least two JobThreads, every capacity
and number of jobs). Assumptions: `TwoJobThreads`, `NoThreadIsNoThread`,
`BoundsAreNatural`. The invariant adds to `TypeOK` and `NoLostWakeup`:

* `MutexInv`: the points that hold the mutex are those of its owner;
* `QueueInv`: the queue holds the last accepted numbers, in order;
* `RunInv`: what is executed, being executed and queued adds up to what was
  accepted;
* `AnswerInv`: an answer about to be sent is that of the last executed job, and
  later than the last one sent.

From it: `TypeCorrect`, `DrainsAreExclusive`, `WakeupsAreKept`,
`JobsExecutedInOrder` and `AnswersLeaveInOrder`.

**LobbyManager_proofs, the loop** (for every number of lobbies and all sets of
natural numbers as counts and response times). Assumptions:
`RecordCountIsNatural`, `RecordsAreNatural`. The invariant `LoopInv` says what the loop knows before lobby `next`:
without a best lobby none of the earlier ones may be entered and both bounds are
the largest float; with one, the bounds are its load and response time and it
`IsBest` of the earlier ones that may be entered. A lobby that improves on the best
one is preferable to it, hence to all that the best one was compared with: the
lemmas say that `Preferable` is transitive over fractions with nonzero
denominators, which is where `Eligible`'s test for zero is needed. From it:
`SearchTypeCorrect` and `BestLobbyIsFound`.

**LobbyManager_proofs, the directory** (for every number of lobbies, every capacity of the
queues and every number of requests). The invariant:

* `AcceptedInv`: an accepted lobby is saved, or its job is queued;
* `OrderInv`: the lobbies that a queued request must see are saved, or have a job
  ahead of it;
* `ReaderInv`: whatever is in the table during a search is among its unread keys
  or its found records, as long as Redis can be reached. It is kept because
  nothing is saved during a search (`OneDrainer`) and records only disappear.

From it: `EarlierLobbiesAreSeen` (`SeesEarlierLobbies`) and `NoLobbyIsOverlooked`
(`NoLobbyMeansNone`). `TypeCorrect` needs a count of the requests that are queued, in
execution or answered, since they are numbered by the bound of the model; its
only assumption is `CountsAreNatural`.

**HubJobQueue_proofs** (for every capacity, every number of jobs and every set of
at least two JobThreads). It extends `CircleQueue_proofs`. The first lemma is that
every step of the hub is a step of the ring or leaves it alone, so that the
ring's invariant and its refinement of the FIFO hold here. To it the invariant
`HubInv` adds that the holder of the mutex is the thread at a locked point, that a
thread is between `empty` and the end of `pop` only while its program counter says
so, and that the pusher is pushing the job after the last accepted one. From it:
`PopsAreServed` and `HubImplementsDispatch`. The latter, with the theorems about
`JobDispatch` taken through the same mapping (`Proved`), gives `RingIsDispatched`:
`OneDrainer`, `NoLostWakeup`, `ExecutesInOrder` and `AnswersInOrder` of the
threads over the real ring, one access at a time.

**NetworkManager_proofs** (for every set of accepted and connecting sockets, of
overlapped objects, and every number of answers). The argument:

* every object is in one of five places (`Owners`), at most once in the port
  (`PortInv`), and its `work` fits the place (`HandInv`, `PostedInv`);
* a socket has at most one accept, connect or receive under way, in hand included
  (`UniqueInv`, `PreparedInv`). A receive is posted only by the handler that
  disposed of the one before it. This is `ReceivesAreSingle`;
* a socket is deleted by a failed or empty receive, of which there is one, or by a
  failed send. `OrderInv` says that behind a failed send in the port there is no
  successful receive of its socket: Winsock fails a send only when the connection
  is gone, from then on no receive succeeds, and the earlier ones are ahead in
  the port. Without it `HandlersUseLiveSockets` is not inductive, since a data
  receive behind the failed send would be handled on a deleted socket.

From these: `TypeCorrect`, `ReceivesAreSingle`, `HandledSocketsLive` and `NothingElseDangles`. `PoolSuffices` assumes
`EnoughObjects`, more objects than sockets and answers together, and charges every
object outside the pool to a socket, to an answer or to the network thread: a
socket is charged with one object for good, if Winsock refuses it too, because its
receive is then never posted again.
The order of the port and the condition on failed sends are the properties of
Winsock that the model assumes (`OutcomesOf`).

**MessageStream_proofs** (for every number of messages of any sizes, every field and
buffer size, any integers that a wrong field reads as, any objects; assumptions
`SizesAreNatural`, `OwnWritesFit` and `AcceptedIsAnObject`). The reason that the short
`memset` of `Clear` is enough is `ZeroPastLen`: nobody has written past `len` since
that part was zeroed, and an object that Winsock may write to has its full length
(`FullLength`). With `HandledInv`, what the buffers hold while a receive is handled,
they form `BufferInv`; `PacketInv` says of the packet made last what
`PacketFromItsReceive`, `OverrunOnlyIfMisread` and `WholeMessageIntact` do. The sizes
are not bounded by anything: `SizeOfMessage` says which one an intact field gives, and
`SoundSizesFit` that a sound receive (`SizeIsSound`) gives one inside the buffer, which
needs that the field of a receive too short to reach it is zero. From them: the five
theorems. `TypeCorrect` says that no write leaves a buffer. That the answers fit
it is supposed (`OwnWritesFit`); that receives do is not, it follows from
`len`, by which Winsock is limited, never being more than the buffer.

**LobbyServer_proofs** (for all sets of clients and addresses, every capacity;
assumptions `PeersAreDistinct`, `AddressesAreKeys`, `SizesAreNatural`,
`QueueHasRoom`). `CountInv`: every accept is posted or counted, and the clients
connected are no more than counted. `RoomInv`: the notices that are queued and those
still to come fit the queue. `PeerInv`: the address in a pending notice names its
addressee, or the Control server, or nobody, and is not one with an accept posted;
this holds because an address gets a new `SOCKET` once at most, for the connection
to the Control server. From them: the four theorems.

**Containers_proofs, the pool** (for every number of objects, of accepts, and any
threads; assumption `PoolIsLargeEnough`). With a job thread `ExclusiveUse` is false,
as `pool_lobby` shows, so the question is what is missing. The answer is
`PopsAlternate`, that no two threads are between the two loads of `pop` and its
store: `PoolIsExclusive` and `PoolLosesOnlyRefused` prove `ExclusiveUse` and
`LostExactlyIfRefused` of every behaviour in which that is always so, whichever threads pop and however
the one pusher runs beside them. A mutex around `pop` would be enough; nothing
else is wrong with the ring. When the network thread is alone the condition holds
by itself, which gives `ReceiversSharePool`: both properties, unconditionally, as in
the `pool_receive` run. The invariant `PoolInv`:

* `ThreadInv`: what a thread has in its hands, by where it is;
* `PopInv`: a thread in `pop` looks at the oldest slot. Only one thread can be about
  to advance the index, so what it loaded is still current;
* `RingInv`: the filled slots hold different objects;
* `PlacesInv`: an object in the ring is in nobody's hands and not with Winsock, apart
  from the one that `pop` has read and not yet passed; nor are two threads' objects
  the same.

That nothing else is lost is in part a matter of counting, since `push` must never
fail (`PushFindsRoom`): if all slots but one were filled, with different objects, there
would be none left for the thread that brings one back. The other half is
`RefusedInv`, that a refused object never turns up again
(`RefusedAreUnreachable`).

**Containers_proofs, the map** (for any number of keys and of levels; assumption
`SizesArePositive`). `KeepsOrder` speaks of the list between two calls, so what is
needed is what holds within them. `Linked(l)` are the nodes that can be reached on
level `l`: those of the map that are high enough, and the node in hand on the levels
where it is already linked or not yet unlinked (`NodeOn`). The invariant `MapInv`:

* `LinksInv`: on each level every pointer that can be followed leads to the next node
  of `Linked`, or to null behind the last. It holds at every step, since a node is
  linked or unlinked by one store;
* `PreparedInv`: a node about to be linked already has the pointer that its
  predecessor has, so the store that links it cuts nothing off;
* `NodesInv`, `WriterInv`: the nodes in the list are allocated and no higher than
  `my_max_height`; the node in hand is allocated, is not in the map, and what its level is;
* `SearchInv`, `ReaderInv`: of a search that no erasure has overlapped, the node it
  stands on is linked on its level and before the target, the node it looks at is
  linked, and on the first level it has not passed a target that stayed. Going down a
  level keeps this because an inserted node is linked from the bottom up
  (`LevelsNest`); an erased one leaves in the same order, which is why the claim is
  for calm searches.

From it: `LevelsStayOrdered` (`KeepsOrder`), `NothingIsLeftDangling`
(`NothingDangles`) and `CalmFindsAreRight` (`CalmFindIsRight`). The insertions need
no more than that they add nodes to levels and take none away (`Grows`): then
every search keeps what it knows. `Min` and `Max` of the community modules are
defined by `CHOOSE`; that a bounded set has a least and a greatest element is
proved from the library's theorem that inclusion of finite sets is well-founded.

**Only model-checked**: liveness (the prover has no rules for fairness), which is
`EveryJobExecuted`, `RingJobsExecuted`, `JobsEnd`, `FailedReceiveCloses` and
`BrokenConnectionEnds`, and that the two runs which expect a violation find one. All
other properties of the runs are theorems.

## 5. What is not modelled

* `UpdateLobbyInfo`, `UpdateLobbyReponseSpeed`, `DeleteTable`,
  `UnregisterLobbyUser`: no running code calls them.
* What `RESPONSE_LOBBYINFO` says: `success` is passed by value
  (`LobbyManager.cpp:64`), so it would say false also of a lobby that was found,
  and its key is the Redis key with its prefix. No behaviour of the program gets
  as far, since reading the record throws.
* What is in the memory behind a buffer that `ProcessIocp` reads past
  (`Hub.cpp:196`), or how much of it can be read: `MessageStream` has the copy, with
  `Foreign` units, and the process that ends, as two outcomes.
* An answer larger than a buffer: the jobs of the running servers build none.
* Memory: the headers that `SendSetting` allocates and nobody frees
  (`BasicData.cpp:85`), and the sockets of failed connections.
* `_senderType`, which is sent in host byte order and converted on receipt
  (`NetworkManager.cpp:293`, `Hub.cpp:194`): nobody looks at the value.
* The operations of the skip list other than `insert`, `find` and `unsafe_erase`,
  several concurrent writers, and the node allocator.
* What Winsock does with a handle read from a deleted `SOCKET*`: the operation is
  taken or refused, and fails if taken.
* In `NetworkManager` addresses are not reused: a `SOCKET*` created after another
  was deleted is a different one. Sockets are created at start-up only; the one
  that may get an old address, for the Control server, is what `LobbyServer` is
  about. A failed operation that completes late with the key of a deleted socket
  could close the connection that got its address; `LobbyServer` closes any
  connection at any time, so its properties hold with it.
* A second call of `LobbyServerStart`, whose count would be wrong (`Hub.cpp:124`):
  `main` calls it once.
* `AuthHub`, which is never constructed. Its threads are those of the other hubs.
* Configuration, logging and process creation.
* The vendored libraries (nlohmann::json, hiredis, flatbuffers, oneTBB), apart
  from the skip list, and the code generated by `flatc`. They are all but some
  three thousand of the repository's C and C++ lines. The program uses
  a few calls of each, which are modelled by what they do for it.

## 6. State of the plan

Done: all components of the three servers that run, as listed in section 2; the
composition of the ring with the job dispatch; the framing of messages and the
buffers; the Lobby server's counts and notices; a proof of every safety property
and every refinement that a run checks.

Left, in this order:

1. A composition of the Control server's directory with the Lobby servers' notices
   over `MessageStream`. It would show no more than the parts do: the one notice a
   Lobby server sends is alone on its connection.
2. A larger `NetworkManager` instance, with two accepted clients and a connection,
   which takes longer than the runs of this project should.
