---------------------------- MODULE LobbyDirectory ----------------------------
(***************************************************************************)
(* The directory of lobbies of the Control server: LobbyServerStart starts *)
(* Lobby servers, each of them announces itself with NOTICE_LOBBYREADY,    *)
(* SaveLobbyInfo puts its record into Redis, where it expires, and a       *)
(* REQUEST_LOBBYINFO is answered from the records (ResponseLobbyInfo).     *)
(*                                                                         *)
(* The ReceiveThread turns packets into jobs; the jobs are executed one at *)
(* a time, by whichever JobThread drains the queue (OneDrainer of          *)
(* JobDispatch).  Other NOTICEs change nothing: the Lobby servers send     *)
(* NOTICE_LOBBYINFO to their clients, and the ReceiveThread makes a job of *)
(* it and drops it.                                                        *)
(*                                                                         *)
(* What the answer says about a record is SearchBestLobby's business.      *)
(*                                                                         *)
(* Redis outlives the Control server: a record may be there when it        *)
(* starts, under the key of one of the lobbies it is about to launch,      *)
(* since the keys come from the same configuration.                        *)
(***************************************************************************)
EXTENDS Integers, Sequences, FiniteSets

CONSTANTS
    LobbyCount,     \* the argument of LobbyServerStart
    QueueMaxSize,   \* the capacity of _packetQueue and of _jobQueue
    MaxRequests     \* bound: how many REQUEST_LOBBYINFO arrive

ASSUME CountsAreNatural ==
    LobbyCount \in Nat /\ QueueMaxSize \in Nat /\ MaxRequests \in Nat

Lobbies == 1 .. LobbyCount

VARIABLES
    launched,   \* the variable of the loop of LobbyServerStart
    running,    \* the lobbies whose process was created
    announced,  \* those that have sent NOTICE_LOBBYREADY
    asked,      \* how many requests have arrived
    packets,    \* _packetQueue
    jobs,       \* _jobQueue
    accepted,   \* the lobbies for which a job was queued
    saved,      \* those whose job has been executed
    table,      \* the lobbies that have a record in Redis
    redisUp,    \* FALSE when the connection to Redis has failed
    searching,  \* the request that a JobThread executes, NoRequest if it does not
    unread,     \* the keys SCAN returned that have not been read
    found,      \* the records that GET returned
    answered,   \* how many requests have been answered
    hub         \* "on", or "terminated" by an exception that nobody catches

lobbyVars == <<launched, running, announced>>
searchVars == <<searching, unread, found>>
vars == <<lobbyVars, asked, packets, jobs, accepted, saved, table, redisUp, searchVars, answered, hub>>

NoRequest == [kind |-> "none"]
Ready(l) == [kind |-> "ready", lobby |-> l]
Request(ls) == [kind |-> "request", after |-> ls]   \* after: the lobbies accepted before it

Init ==
    /\ launched = 0
    /\ running = {}
    /\ announced = {}
    /\ asked = 0
    /\ packets = <<>>
    /\ jobs = <<>>
    /\ accepted = {}
    /\ saved = {}
    /\ table \in SUBSET Lobbies     \* what an earlier Control server saved less than 60 seconds ago
    /\ redisUp = TRUE
    /\ searching = NoRequest
    /\ unread = {}
    /\ found = {}
    /\ answered = 0
    /\ hub = "on"

-----------------------------------------------------------------------------
(* The main thread, the Lobby servers and those who ask for a lobby *)

\* The loop of LobbyServerStart, which main calls once, with enough keys and
\* ports.  CreateProcess fails or does not; the loop goes on.
LaunchLobby ==
    /\ hub = "on"
    /\ launched < LobbyCount
    /\ launched' = launched + 1
    /\ running' \in {running, running \union {launched + 1}}
    /\ UNCHANGED <<announced, asked, packets, jobs, accepted, saved, table, redisUp, searchVars, answered, hub>>

\* Mutant of Receive: the packet queue grows.
ReceiveUnbounded(p) ==
    /\ hub = "on"
    /\ packets' = Append(packets, p)

\* ProcessIocp of the Hub, called for a received packet: a full queue drops it.
Receive(p) ==
    /\ hub = "on"
    /\ packets' = IF Len(packets) < QueueMaxSize THEN Append(packets, p) ELSE packets

LobbyAnnounces(l) ==
    /\ l \in running \ announced
    /\ Receive(Ready(l))
    /\ announced' = announced \union {l}
    /\ UNCHANGED <<launched, running, asked, jobs, accepted, saved, table, redisUp, searchVars, answered, hub>>

AskForLobby ==
    /\ asked < MaxRequests
    /\ Receive(Request({}))
    /\ asked' = asked + 1
    /\ UNCHANGED <<lobbyVars, jobs, accepted, saved, table, redisUp, searchVars, answered, hub>>

-----------------------------------------------------------------------------
(* The ReceiveThread *)

NextPacketIs(kind) == hub = "on" /\ packets # <<>> /\ Head(packets).kind = kind

\* A full job queue drops the job.
ReceiveDropsJob ==
    /\ hub = "on"
    /\ packets # <<>>
    /\ Len(jobs) = QueueMaxSize
    /\ packets' = Tail(packets)
    /\ UNCHANGED <<lobbyVars, asked, jobs, accepted, saved, table, redisUp, searchVars, answered, hub>>

\* Mutant of ReceiveReady: the job is made and not pushed.
ReceiveReadyForgets ==
    /\ NextPacketIs("ready")
    /\ Len(jobs) < QueueMaxSize
    /\ packets' = Tail(packets)
    /\ accepted' = accepted \union {Head(packets).lobby}
    /\ UNCHANGED <<lobbyVars, asked, jobs, saved, table, redisUp, searchVars, answered, hub>>

ReceiveReady ==
    /\ NextPacketIs("ready")
    /\ Len(jobs) < QueueMaxSize
    /\ packets' = Tail(packets)
    /\ jobs' = Append(jobs, Head(packets))
    /\ accepted' = accepted \union {Head(packets).lobby}
    /\ UNCHANGED <<lobbyVars, asked, saved, table, redisUp, searchVars, answered, hub>>

ReceiveRequest ==
    /\ NextPacketIs("request")
    /\ Len(jobs) < QueueMaxSize
    /\ packets' = Tail(packets)
    /\ jobs' = Append(jobs, Request(accepted))
    /\ UNCHANGED <<lobbyVars, asked, accepted, saved, table, redisUp, searchVars, answered, hub>>

-----------------------------------------------------------------------------
(* The JobThread that drains: the jobs' Execute *)

NextJobIs(kind) == hub = "on" /\ jobs # <<>> /\ Head(jobs).kind = kind

\* Mutant of SaveLobbyInfo: another JobThread executes it during a search.
SaveWhileSearching ==
    /\ NextJobIs("ready")
    /\ jobs' = Tail(jobs)
    /\ table' = IF redisUp THEN table \union {Head(jobs).lobby} ELSE table
    /\ saved' = saved \union {Head(jobs).lobby}
    /\ UNCHANGED <<lobbyVars, asked, packets, accepted, redisUp, searchVars, answered, hub>>

\* UpdateData: SET with the expiry; nobody looks at the reply.
SaveLobbyInfo ==
    /\ searching = NoRequest
    /\ NextJobIs("ready")
    /\ jobs' = Tail(jobs)
    /\ table' = IF redisUp THEN table \union {Head(jobs).lobby} ELSE table
    /\ saved' = saved \union {Head(jobs).lobby}
    /\ UNCHANGED <<lobbyVars, asked, packets, accepted, redisUp, searchVars, answered, hub>>

\* ScanMultipleResult: the SCAN that returns the keys, or fails.  (A key that is
\* there from the first SCAN to the last is returned by one of them.)
ScanKeys ==
    /\ searching = NoRequest
    /\ NextJobIs("request")
    /\ jobs' = Tail(jobs)
    /\ searching' = Head(jobs)
    /\ unread' = IF redisUp THEN table ELSE {}
    /\ UNCHANGED <<lobbyVars, asked, packets, accepted, saved, table, redisUp, found, answered, hub>>

\* Mutant of ReadRecord: a GET that fails is tried again.
ReadRecordRetries(l) ==
    /\ hub = "on"
    /\ l \in unread
    /\ unread' = IF redisUp THEN unread \ {l} ELSE unread
    /\ found' = IF redisUp /\ l \in table THEN found \union {l} ELSE found
    /\ UNCHANGED <<lobbyVars, asked, packets, jobs, accepted, saved, table, redisUp, searching, answered, hub>>

\* The GET of one key, whose record may have expired since the SCAN.
ReadRecord(l) ==
    /\ hub = "on"
    /\ l \in unread
    /\ unread' = unread \ {l}
    /\ found' = IF redisUp /\ l \in table THEN found \union {l} ELSE found
    /\ UNCHANGED <<lobbyVars, asked, packets, jobs, accepted, saved, table, redisUp, searching, answered, hub>>

\* No record: the answer has no lobby in it.
AnswerNoLobby ==
    /\ hub = "on"
    /\ searching # NoRequest
    /\ unread = {}
    /\ found = {}
    /\ searching' = NoRequest
    /\ answered' = answered + 1
    /\ UNCHANGED <<lobbyVars, asked, packets, jobs, accepted, saved, table, redisUp, unread, found, hub>>

\* DataToJson writes "active" as an integer and the constructor of LobbyInfo
\* reads it as a bool, which throws; the JobThread does not catch it.
ParsingThrows ==
    /\ hub = "on"
    /\ searching # NoRequest
    /\ unread = {}
    /\ found # {}
    /\ hub' = "terminated"
    /\ UNCHANGED <<lobbyVars, asked, packets, jobs, accepted, saved, table, redisUp, searchVars, answered>>

-----------------------------------------------------------------------------
(* Redis *)

RecordExpires(l) ==
    /\ l \in table
    /\ table' = table \ {l}
    /\ UNCHANGED <<lobbyVars, asked, packets, jobs, accepted, saved, redisUp, searchVars, answered, hub>>

\* The context of hiredis keeps its error: every later command fails too.
RedisFails ==
    /\ redisUp
    /\ redisUp' = FALSE
    /\ UNCHANGED <<lobbyVars, asked, packets, jobs, accepted, saved, table, searchVars, answered, hub>>

-----------------------------------------------------------------------------

ReceiveThread == ReceiveDropsJob \/ ReceiveReady \/ ReceiveRequest

JobThread ==
    \/ SaveLobbyInfo
    \/ ScanKeys
    \/ \E l \in Lobbies : ReadRecord(l)
    \/ AnswerNoLobby
    \/ ParsingThrows

Next ==
    \/ LaunchLobby
    \/ \E l \in Lobbies : LobbyAnnounces(l)
    \/ AskForLobby
    \/ ReceiveThread
    \/ JobThread
    \/ \E l \in Lobbies : RecordExpires(l)
    \/ RedisFails

Spec == Init /\ [][Next]_vars

\* The two threads run, and no more than that is asked of anybody.
FairSpec == Spec /\ WF_vars(ReceiveThread) /\ WF_vars(JobThread)

-----------------------------------------------------------------------------
(* Properties *)

Messages == {Ready(l) : l \in Lobbies} \union {Request(ls) : ls \in SUBSET Lobbies}

TypeOK ==
    /\ launched \in 0 .. LobbyCount
    /\ running \subseteq 1 .. launched
    /\ announced \subseteq running
    /\ asked \in 0 .. MaxRequests
    /\ packets \in Seq(Messages) /\ Len(packets) <= QueueMaxSize
    /\ jobs \in Seq(Messages) /\ Len(jobs) <= QueueMaxSize
    /\ accepted \subseteq announced
    /\ saved \subseteq accepted
    /\ table \subseteq Lobbies
    /\ redisUp \in BOOLEAN
    /\ searching \in {NoRequest} \union {Request(ls) : ls \in SUBSET Lobbies}
    /\ unread \subseteq Lobbies
    /\ found \subseteq Lobbies
    /\ answered \in 0 .. asked
    /\ hub \in {"on", "terminated"}

(* A request is answered from the records of all lobbies that were accepted *)
(* before it: it does not overtake a NOTICE_LOBBYREADY on its way through   *)
(* the two queues.                                                          *)
SeesEarlierLobbies == searching # NoRequest => searching.after \subseteq saved

(* "No lobby" is answered only when there is no record, although the keys   *)
(* and the records are read by separate commands: as long as Redis can be   *)
(* reached, a lobby in the directory is not overlooked.                     *)
NoLobbyMeansNone == [][answered' # answered => table = {} \/ ~redisUp]_vars

(* Every job that is queued comes to its end, also when Redis is gone: the  *)
(* queue does not stay full, unless the Control server terminates.          *)
JobsEnd == []<>((jobs = <<>> /\ searching = NoRequest) \/ hub = "terminated")

(* Hub.cpp:280 calls REQUEST_LOBBYINFO the message with which the Auth      *)
(* server asks for a lobby; asking must leave the Control server alive.     *)
ControlSurvives == hub = "on"
=============================================================================
