-------------------------- MODULE LobbyManager_proofs --------------------------
(***************************************************************************)
(* Proofs about the two modules that model LobbyManager.                   *)
(*                                                                         *)
(* LobbyDirectory: what a REQUEST_LOBBYINFO sees of the directory, for     *)
(* every number of lobbies, every capacity of the queues and every number  *)
(* of requests.  SearchBestLobby: the loop finds a best lobby in every     *)
(* table.                                                                  *)
(***************************************************************************)
EXTENDS LobbyDirectory, SearchBestLobby, SequenceTheorems, FiniteSetTheorems, TLAPS

-----------------------------------------------------------------------------
(* The inductive invariant *)

QueuesInv ==
    /\ packets \in Seq(Messages)
    /\ jobs \in Seq(Messages)
    /\ accepted \subseteq Lobbies

\* The lobby l is in the directory, or its job is one of the first n.
SavedWithin(l, n) == l \in saved \/ \E j \in 1 .. n : jobs[j] = Ready(l)

\* No accepted lobby gets lost on its way to the directory.
AcceptedInv == \A l \in accepted : SavedWithin(l, Len(jobs))

\* The jobs of the lobbies that a request must see are ahead of it.
OrderInv ==
    \A i \in 1 .. Len(jobs) :
        jobs[i].kind = "request" => \A l \in jobs[i].after : SavedWithin(l, i - 1)

\* A reader still has before it, or has read, whatever is in the table.
ReaderInv ==
    /\ searching = NoRequest => unread = {} /\ found = {}
    /\ (searching # NoRequest /\ redisUp) => table \subseteq unread \union found

Inv == QueuesInv /\ AcceptedInv /\ OrderInv /\ SeesEarlierLobbies /\ ReaderInv

-----------------------------------------------------------------------------
(* Messages and queues *)

LEMMA MessageKinds ==
    ASSUME NEW p \in Messages
    PROVE  /\ p.kind = "ready" => p = Ready(p.lobby) /\ p.lobby \in Lobbies
           /\ p.kind = "request" => p = Request(p.after) /\ p # NoRequest
BY DEF Messages, Ready, Request, NoRequest

LEMMA HeadAndTail ==
    ASSUME NEW s \in Seq(Messages), s # <<>>
    PROVE  /\ Head(s) \in Messages
           /\ Head(s) = s[1]
           /\ Len(s) \in Nat \ {0}
           /\ Tail(s) \in Seq(Messages)
           /\ Len(Tail(s)) = Len(s) - 1
           /\ \A i \in 1 .. Len(s) - 1 : Tail(s)[i] = s[i + 1]
BY HeadTailProperties, EmptySeq, LenProperties, ElementOfSeq

LEMMA RequestsAreMessages ==
    ASSUME NEW ls \in SUBSET Lobbies
    PROVE  Request(ls) \in Messages
BY DEF Messages

LEMMA InitInv == Init => Inv
BY DEF Init, Inv, QueuesInv, AcceptedInv, OrderInv, SeesEarlierLobbies, ReaderInv, NoRequest

-----------------------------------------------------------------------------
(* The steps *)

\* Whoever leaves the job queue, the accepted and the saved lobbies alone.
LEMMA JobsStay ==
    ASSUME Inv, UNCHANGED <<jobs, accepted, saved>>
    PROVE  AcceptedInv' /\ OrderInv'
BY DEF Inv, AcceptedInv, OrderInv, SavedWithin

LEMMA PacketsMove ==
    ASSUME Inv, NEW p \in Messages, packets' \in {packets, Append(packets, p)}
    PROVE  packets' \in Seq(Messages)
BY AppendProperties DEF Inv, QueuesInv

LEMMA PacketTaken ==
    ASSUME Inv, packets # <<>>, packets' = Tail(packets)
    PROVE  Head(packets) \in Messages /\ packets' \in Seq(Messages)
BY HeadAndTail DEF Inv, QueuesInv

\* A job that is pushed is behind all others.
LEMMA JobPushed ==
    ASSUME Inv, NEW p \in Messages, jobs' = Append(jobs, p), UNCHANGED saved
    PROVE  /\ jobs' \in Seq(Messages)
           /\ Len(jobs') = Len(jobs) + 1
           /\ Len(jobs) \in Nat
           /\ jobs'[Len(jobs')] = p
           /\ \A i \in 1 .. Len(jobs) : jobs'[i] = jobs[i]
           /\ \A n \in 0 .. Len(jobs), l \in Lobbies : SavedWithin(l, n) => SavedWithin(l, n)'
<1>1. /\ jobs' \in Seq(Messages)
      /\ Len(jobs') = Len(jobs) + 1
      /\ Len(jobs) \in Nat
      /\ jobs'[Len(jobs')] = p
      /\ \A i \in 1 .. Len(jobs) : jobs'[i] = jobs[i]
  BY AppendProperties, LenProperties DEF Inv, QueuesInv
<1> QED
  BY <1>1 DEF SavedWithin

\* A job that is taken leaves the others where they were, one place further on.
LEMMA JobTaken ==
    ASSUME Inv, jobs # <<>>, jobs' = Tail(jobs)
    PROVE  /\ Head(jobs) \in Messages
           /\ Head(jobs) = jobs[1]
           /\ jobs' \in Seq(Messages)
           /\ Len(jobs') = Len(jobs) - 1
           /\ Len(jobs) \in Nat \ {0}
           /\ \A i \in 1 .. Len(jobs') : jobs'[i] = jobs[i + 1]
<1>1. jobs \in Seq(Messages)
  BY DEF Inv, QueuesInv
<1> QED
  BY <1>1, HeadAndTail

\* Whoever was within the first n jobs is within n - 1 once the first is done.
LEMMA JobTakenKeeps ==
    ASSUME Inv, jobs # <<>>, jobs' = Tail(jobs), saved \subseteq saved',
           Head(jobs).kind = "ready" => Head(jobs).lobby \in saved',
           NEW l, NEW n \in 1 .. Len(jobs), SavedWithin(l, n)
    PROVE  SavedWithin(l, n - 1)'
<1>1. CASE l \in saved
  BY <1>1 DEF SavedWithin
<1>2. ASSUME NEW j \in 1 .. n, jobs[j] = Ready(l)
      PROVE  SavedWithin(l, n - 1)'
  <2>1. CASE j = 1
    BY <1>2, <2>1, JobTaken DEF SavedWithin, Ready
  <2>2. CASE j # 1
    <3>1. j - 1 \in 1 .. n - 1 /\ j - 1 \in 1 .. Len(jobs') /\ j - 1 + 1 = j
      BY <2>2, JobTaken
    <3> QED
      BY <1>2, <3>1, JobTaken DEF SavedWithin
  <2> QED
    BY <2>1, <2>2
<1> QED
  BY <1>1, <1>2 DEF SavedWithin

LEMMA JobTakenOrder ==
    ASSUME Inv, jobs # <<>>, jobs' = Tail(jobs), saved \subseteq saved', UNCHANGED accepted,
           Head(jobs).kind = "ready" => Head(jobs).lobby \in saved'
    PROVE  AcceptedInv' /\ OrderInv'
<1>1. ASSUME NEW l \in accepted
      PROVE  SavedWithin(l, Len(jobs))'
  <2>0. Len(jobs) \in 1 .. Len(jobs) /\ Len(jobs') = Len(jobs) - 1
    BY JobTaken
  <2>1. PICK n \in 1 .. Len(jobs) : n = Len(jobs) /\ n - 1 = Len(jobs')
    BY <2>0
  <2>2. SavedWithin(l, n)
    BY <2>1 DEF Inv, AcceptedInv
  <2>3. SavedWithin(l, n - 1)'
    BY <2>2, JobTakenKeeps
  <2> QED
    BY <2>1, <2>3 DEF SavedWithin
<1>2. ASSUME NEW i \in 1 .. Len(jobs'), jobs'[i].kind = "request", NEW l \in jobs'[i].after
      PROVE  SavedWithin(l, i - 1)'
  <2>1. i + 1 \in 1 .. Len(jobs) /\ jobs'[i] = jobs[i + 1] /\ i + 1 - 1 = i /\ i \in 1 .. Len(jobs)
    BY JobTaken
  <2>2. SavedWithin(l, i)
    BY <1>2, <2>1 DEF Inv, OrderInv
  <2> QED
    BY <2>1, <2>2, JobTakenKeeps
<1> QED
  BY <1>1, <1>2 DEF AcceptedInv, OrderInv

\* The ReceiveThread accepts a lobby with its job.
LEMMA ReceiveReadyKeeps == Inv /\ ReceiveReady => Inv'
<1> SUFFICES ASSUME Inv, ReceiveReady
             PROVE  Inv'
  OBVIOUS
<1>1. PICK p \in Messages : p = Head(packets)
  BY PacketTaken DEF ReceiveReady, NextPacketIs
<1>2. /\ p = Ready(p.lobby) /\ p.lobby \in Lobbies
      /\ jobs' = Append(jobs, p)
      /\ accepted' = accepted \union {p.lobby}
      /\ UNCHANGED <<saved, table, redisUp, searchVars>>
  BY <1>1, MessageKinds DEF ReceiveReady, NextPacketIs
<1>3. QueuesInv'
  BY <1>1, <1>2, PacketTaken, JobPushed DEF Inv, QueuesInv, ReceiveReady, NextPacketIs
<1>4. AcceptedInv'
  <2>1. ASSUME NEW l \in accepted
        PROVE  SavedWithin(l, Len(jobs))'
    BY <1>2, JobPushed DEF Inv, QueuesInv, AcceptedInv, SavedWithin
  <2>2. SavedWithin(p.lobby, Len(jobs))'
    BY <1>2, JobPushed DEF SavedWithin
  <2> QED
    BY <1>2, <2>1, <2>2 DEF AcceptedInv
<1>5. OrderInv'
  <2> SUFFICES ASSUME NEW i \in 1 .. Len(jobs'), jobs'[i].kind = "request", NEW l \in jobs'[i].after
               PROVE  SavedWithin(l, i - 1)'
    BY DEF OrderInv
  <2>1. i \in 1 .. Len(jobs) /\ jobs'[i] = jobs[i]
    BY <1>2, JobPushed DEF Ready
  <2>2. SavedWithin(l, i - 1)
    BY <2>1 DEF Inv, OrderInv
  <2> QED
    BY <1>2, <2>1, <2>2, JobPushed DEF SavedWithin
<1>6. SeesEarlierLobbies' /\ ReaderInv'
  BY <1>2 DEF Inv, SeesEarlierLobbies, ReaderInv, searchVars
<1> QED
  BY <1>3, <1>4, <1>5, <1>6 DEF Inv

\* A request is queued behind the jobs of all accepted lobbies.
LEMMA ReceiveRequestKeeps == Inv /\ ReceiveRequest => Inv'
<1> SUFFICES ASSUME Inv, ReceiveRequest
             PROVE  Inv'
  OBVIOUS
<1>1. PICK p \in Messages : p = Request(accepted)
  BY RequestsAreMessages DEF Inv, QueuesInv
<1>2. /\ jobs' = Append(jobs, p)
      /\ UNCHANGED <<accepted, saved, table, redisUp, searchVars>>
  BY <1>1 DEF ReceiveRequest
<1>3. QueuesInv'
  BY <1>1, <1>2, PacketTaken, JobPushed DEF Inv, QueuesInv, ReceiveRequest, NextPacketIs
<1>4. AcceptedInv'
  BY <1>2, JobPushed DEF Inv, QueuesInv, AcceptedInv, SavedWithin
<1>5. OrderInv'
  <2> SUFFICES ASSUME NEW i \in 1 .. Len(jobs'), jobs'[i].kind = "request", NEW l \in jobs'[i].after
               PROVE  SavedWithin(l, i - 1)'
    BY DEF OrderInv
  <2>1. CASE i \in 1 .. Len(jobs)
    <3>1. jobs'[i] = jobs[i]
      BY <1>2, <2>1, JobPushed
    <3>2. SavedWithin(l, i - 1)
      BY <2>1, <3>1 DEF Inv, OrderInv
    <3> QED
      BY <1>2, <2>1, <3>2, JobPushed DEF SavedWithin
  <2>2. CASE i \notin 1 .. Len(jobs)
    <3>1. i - 1 = Len(jobs) /\ l \in accepted
      BY <1>1, <1>2, <2>2, JobPushed DEF Request
    <3>2. SavedWithin(l, i - 1)
      BY <3>1 DEF Inv, AcceptedInv
    <3> QED
      BY <1>2, <3>1, <3>2, JobPushed DEF SavedWithin
  <2> QED
    BY <2>1, <2>2
<1>6. SeesEarlierLobbies' /\ ReaderInv'
  BY <1>2 DEF Inv, SeesEarlierLobbies, ReaderInv, searchVars
<1> QED
  BY <1>3, <1>4, <1>5, <1>6 DEF Inv

LEMMA SaveLobbyInfoKeeps == Inv /\ SaveLobbyInfo => Inv'
<1> SUFFICES ASSUME Inv, SaveLobbyInfo
             PROVE  Inv'
  OBVIOUS
<1>1. /\ jobs # <<>> /\ jobs' = Tail(jobs)
      /\ searching = NoRequest
      /\ saved \subseteq saved' /\ Head(jobs).lobby \in saved'
      /\ UNCHANGED <<packets, accepted, redisUp, searchVars>>
  BY DEF SaveLobbyInfo, NextJobIs
<1>2. QueuesInv'
  BY <1>1, JobTaken DEF Inv, QueuesInv
<1>3. AcceptedInv' /\ OrderInv'
  BY <1>1, JobTakenOrder
<1>4. SeesEarlierLobbies' /\ ReaderInv'
  BY <1>1 DEF Inv, SeesEarlierLobbies, ReaderInv, searchVars
<1> QED
  BY <1>2, <1>3, <1>4 DEF Inv

\* The request that is taken is the first job: its lobbies are saved.
LEMMA ScanKeysKeeps == Inv /\ ScanKeys => Inv'
<1> SUFFICES ASSUME Inv, ScanKeys
             PROVE  Inv'
  OBVIOUS
<1>1. /\ jobs # <<>> /\ jobs' = Tail(jobs) /\ Head(jobs).kind = "request"
      /\ searching = NoRequest /\ searching' = Head(jobs)
      /\ unread' = IF redisUp THEN table ELSE {}
      /\ UNCHANGED <<packets, accepted, saved, table, redisUp, found>>
  BY DEF ScanKeys, NextJobIs
<1>2. QueuesInv'
  BY <1>1, JobTaken DEF Inv, QueuesInv
<1>3. AcceptedInv' /\ OrderInv'
  <2>1. Head(jobs).kind # "ready"
    BY <1>1
  <2> QED
    BY <1>1, <2>1, JobTakenOrder
<1>4. SeesEarlierLobbies'
  <2>1. PICK i \in 1 .. Len(jobs) : i = 1 /\ jobs[i] = Head(jobs)
    BY <1>1, JobTaken
  <2>2. \A l \in Head(jobs).after : SavedWithin(l, i - 1)
    BY <1>1, <2>1 DEF Inv, OrderInv
  <2>3. Head(jobs).after \subseteq saved
    BY <2>1, <2>2 DEF SavedWithin
  <2> QED
    BY <1>1, <2>3 DEF SeesEarlierLobbies
<1>5. ReaderInv'
  <2>1. searching' # NoRequest
    BY <1>1, JobTaken, MessageKinds
  <2> QED
    BY <1>1, <2>1 DEF ReaderInv
<1> QED
  BY <1>2, <1>3, <1>4, <1>5 DEF Inv

\* A GET moves a lobby of the table from unread to found, or Redis is gone.
LEMMA ReadRecordKeeps == ASSUME NEW l \in Lobbies PROVE Inv /\ ReadRecord(l) => Inv'
<1> SUFFICES ASSUME Inv, ReadRecord(l)
             PROVE  Inv'
  OBVIOUS
<1>1. QueuesInv' /\ AcceptedInv' /\ OrderInv' /\ SeesEarlierLobbies'
  BY JobsStay DEF Inv, QueuesInv, SeesEarlierLobbies, ReadRecord
<1>2. ReaderInv'
  BY DEF Inv, ReaderInv, ReadRecord
<1> QED
  BY <1>1, <1>2 DEF Inv

\* The steps that leave the jobs, the reader and the lobbies alone.
LEMMA OthersKeep ==
    ASSUME Inv,
           \/ LaunchLobby
           \/ \E l \in Lobbies : LobbyAnnounces(l)
           \/ AskForLobby
           \/ ReceiveDropsJob
           \/ ParsingThrows
           \/ \E l \in Lobbies : RecordExpires(l)
           \/ RedisFails
           \/ UNCHANGED vars
    PROVE  Inv'
<1>1. CASE LaunchLobby
  BY <1>1, JobsStay DEF Inv, QueuesInv, SeesEarlierLobbies, ReaderInv, LaunchLobby, searchVars
<1>2. ASSUME NEW l \in Lobbies, LobbyAnnounces(l)
      PROVE  Inv'
  <2>1. PICK p \in Messages : p = Ready(l)
    BY DEF Messages
  <2>2. packets' \in Seq(Messages)
    BY <1>2, <2>1, PacketsMove DEF LobbyAnnounces, Receive
  <2> QED
    BY <1>2, <2>2, JobsStay DEF Inv, QueuesInv, SeesEarlierLobbies, ReaderInv, LobbyAnnounces, searchVars
<1>3. CASE AskForLobby
  <2>1. PICK p \in Messages : p = Request({})
    BY RequestsAreMessages
  <2>2. packets' \in Seq(Messages)
    BY <1>3, <2>1, PacketsMove DEF AskForLobby, Receive
  <2> QED
    BY <1>3, <2>2, JobsStay DEF Inv, QueuesInv, SeesEarlierLobbies, ReaderInv, AskForLobby, searchVars
<1>4. CASE ReceiveDropsJob
  BY <1>4, JobsStay, PacketTaken DEF Inv, QueuesInv, SeesEarlierLobbies, ReaderInv, ReceiveDropsJob, searchVars
<1>5. CASE ParsingThrows
  BY <1>5, JobsStay DEF Inv, QueuesInv, SeesEarlierLobbies, ReaderInv, ParsingThrows, searchVars
<1>6. ASSUME NEW l \in Lobbies, RecordExpires(l)
      PROVE  Inv'
  BY <1>6, JobsStay DEF Inv, QueuesInv, SeesEarlierLobbies, ReaderInv, RecordExpires, searchVars
<1>7. CASE RedisFails
  BY <1>7, JobsStay DEF Inv, QueuesInv, SeesEarlierLobbies, ReaderInv, RedisFails, searchVars
<1>8. CASE UNCHANGED vars
  BY <1>8, JobsStay DEF Inv, QueuesInv, SeesEarlierLobbies, ReaderInv, vars, searchVars
<1> QED
  BY <1>1, <1>2, <1>3, <1>4, <1>5, <1>6, <1>7, <1>8

\* The search ends with both of its sets empty.
LEMMA AnswerNoLobbyKeeps == Inv /\ AnswerNoLobby => Inv'
<1> SUFFICES ASSUME Inv, AnswerNoLobby
             PROVE  Inv'
  OBVIOUS
<1>1. QueuesInv' /\ AcceptedInv' /\ OrderInv'
  BY JobsStay DEF Inv, QueuesInv, AnswerNoLobby
<1>2. SeesEarlierLobbies' /\ ReaderInv'
  BY DEF SeesEarlierLobbies, ReaderInv, AnswerNoLobby
<1> QED
  BY <1>1, <1>2 DEF Inv

LEMMA StepInv == Inv /\ [Next]_vars => Inv'
BY ReceiveReadyKeeps, ReceiveRequestKeeps, SaveLobbyInfoKeeps, ScanKeysKeeps,
   ReadRecordKeeps, AnswerNoLobbyKeeps, OthersKeep
   DEF Next, ReceiveThread, JobThread

LEMMA Invariance == Spec => []Inv
BY InitInv, StepInv, PTL DEF Spec

-----------------------------------------------------------------------------
(* The theorems *)

\* A REQUEST_LOBBYINFO is executed when all lobbies whose NOTICE_LOBBYREADY was
\* accepted before it have been saved, however full the two queues are.
THEOREM EarlierLobbiesAreSeen == Spec => []SeesEarlierLobbies
<1>1. Inv => SeesEarlierLobbies
  BY DEF Inv
<1> QED
  BY <1>1, Invariance, PTL

\* ResponseLobbyInfo finds no record only when the table is empty by then or
\* Redis cannot be reached, although SCAN and GET are separate commands and
\* records expire between them.
THEOREM NoLobbyIsOverlooked == Spec => NoLobbyMeansNone
<1>1. Inv /\ [Next]_vars => (answered' # answered => table = {} \/ ~redisUp)
  <2> SUFFICES ASSUME Inv, [Next]_vars, answered' # answered
               PROVE  table = {} \/ ~redisUp
    OBVIOUS
  <2>1. AnswerNoLobby
    BY DEF Next, ReceiveThread, JobThread, LaunchLobby, LobbyAnnounces, AskForLobby,
           ReceiveDropsJob, ReceiveReady, ReceiveRequest, SaveLobbyInfo, ScanKeys, ReadRecord,
           ParsingThrows, RecordExpires, RedisFails, vars
  <2> QED
    BY <2>1 DEF Inv, ReaderInv, AnswerNoLobby
<1> QED
  BY <1>1, Invariance, PTL DEF Spec, NoLobbyMeansNone

-----------------------------------------------------------------------------
(* The types *)

\* Where the requests are in a queue, and how many.
RequestsIn(s) == {i \in 1 .. Len(s) : s[i].kind = "request"}
Requests(s) == Cardinality(RequestsIn(s))
One(p) == IF p.kind = "request" THEN 1 ELSE 0

LEMMA RequestsCount ==
    ASSUME NEW s \in Seq(Messages)
    PROVE  IsFiniteSet(RequestsIn(s)) /\ Requests(s) \in Nat
  <1>1. Len(s) \in Nat /\ IsFiniteSet(1 .. Len(s))
    BY LenProperties, FS_Interval
  <1>2. IsFiniteSet(RequestsIn(s))
    BY <1>1, FS_Subset DEF RequestsIn
  <1> QED BY <1>2, FS_CardinalityType DEF Requests

LEMMA RequestsAppended ==
    ASSUME NEW s \in Seq(Messages), NEW p \in Messages
    PROVE  Requests(Append(s, p)) = Requests(s) + One(p)
  <1> DEFINE t == Append(s, p)
             n == Len(s) + 1
  <1>1. /\ n \in Nat /\ Len(t) = n /\ t[n] = p /\ n \notin RequestsIn(s)
        /\ \A i \in 1 .. n - 1 : t[i] = s[i]
    BY AppendProperties, LenProperties DEF RequestsIn
  <1>2. RequestsIn(t) = IF p.kind = "request" THEN RequestsIn(s) \union {n} ELSE RequestsIn(s)
    <2>1. \A i : i \in 1 .. n <=> i \in 1 .. n - 1 \/ i = n
      BY <1>1, LenProperties
    <2> QED BY <1>1, <2>1 DEF RequestsIn
  <1> HIDE DEF t, n
  <1>3. Cardinality(RequestsIn(t)) = Cardinality(RequestsIn(s)) + One(p)
    <2>1. IsFiniteSet(RequestsIn(s)) /\ Cardinality(RequestsIn(s)) \in Nat
      BY RequestsCount DEF Requests
    <2>2. Cardinality(RequestsIn(s) \union {n}) = Cardinality(RequestsIn(s)) + 1
      BY <1>1, <2>1, FS_AddElement
    <2> QED BY <1>2, <2>1, <2>2 DEF One
  <1> QED BY <1>3 DEF Requests, t

LEMMA RequestsTaken ==
    ASSUME NEW s \in Seq(Messages), s # <<>>
    PROVE  Requests(s) = Requests(Tail(s)) + One(Head(s))
  <1> DEFINE t == Tail(s)
             f == [i \in RequestsIn(t) |-> i + 1]
  <1>1. /\ Len(s) \in Nat \ {0} /\ Len(t) = Len(s) - 1 /\ Head(s) = s[1]
        /\ \A i \in 1 .. Len(s) - 1 : t[i] = s[i + 1]
        /\ t \in Seq(Messages)
    BY HeadAndTail
  <1>2. f \in Bijection(RequestsIn(t), RequestsIn(s) \ {1})
    <2>1. ASSUME NEW i \in RequestsIn(t)
          PROVE  i \in Nat \ {0} /\ i + 1 \in RequestsIn(s) \ {1}
      BY <1>1, <2>1 DEF RequestsIn
    <2>2. ASSUME NEW i \in RequestsIn(s) \ {1}
          PROVE  i - 1 \in RequestsIn(t) /\ (i - 1) + 1 = i
      BY <1>1, <2>2 DEF RequestsIn
    <2>3. f \in [RequestsIn(t) -> RequestsIn(s) \ {1}]
      BY <2>1
    <2>4. \A i, j \in RequestsIn(t) : f[i] = f[j] => i = j
      BY <2>1
    <2>5. \A i \in RequestsIn(s) \ {1} : \E j \in RequestsIn(t) : f[j] = i
      BY <2>2
    <2> QED BY <2>3, <2>4, <2>5 DEF Bijection, Injection, Surjection, IsInjective
  <1>3. Cardinality(RequestsIn(s) \ {1}) = Cardinality(RequestsIn(t))
    BY <1>1, <1>2, RequestsCount, FS_Bijection DEF ExistsBijection
  <1>4. 1 \in RequestsIn(s) <=> Head(s).kind = "request"
    BY <1>1 DEF RequestsIn
  <1>5. Cardinality(RequestsIn(s) \ {1}) =
            IF 1 \in RequestsIn(s) THEN Cardinality(RequestsIn(s)) - 1 ELSE Cardinality(RequestsIn(s))
    BY RequestsCount, FS_RemoveElement
  <1>6. Requests(s) \in Nat
    BY RequestsCount
  <1> QED BY <1>3, <1>4, <1>5, <1>6 DEF Requests, One

Searches == IF searching = NoRequest THEN 0 ELSE 1

\* Every request that was answered, waits or is executed has arrived.
CountInv ==
    /\ asked \in 0 .. MaxRequests /\ answered \in Nat
    /\ answered + Requests(packets) + Requests(jobs) + Searches <= asked

\* A lobby gets into the directory one stage after the other.
StagesInv ==
    /\ launched \in 0 .. LobbyCount
    /\ running \subseteq 1 .. launched
    /\ announced \subseteq running
    /\ \A i \in 1 .. Len(packets) : packets[i].kind = "ready" => packets[i].lobby \in announced
    /\ accepted \subseteq announced
    /\ \A i \in 1 .. Len(jobs) : jobs[i].kind = "ready" => jobs[i].lobby \in accepted
    /\ saved \subseteq accepted
    /\ table \subseteq Lobbies
    /\ unread \subseteq Lobbies
    /\ found \subseteq Lobbies

RestInv ==
    /\ Len(packets) <= QueueMaxSize
    /\ Len(jobs) <= QueueMaxSize
    /\ redisUp \in BOOLEAN
    /\ searching \in {NoRequest} \union {Request(ls) : ls \in SUBSET Lobbies}
    /\ hub \in {"on", "terminated"}

Types == CountInv /\ StagesInv /\ RestInv

LEMMA InitTypes == Init => Types
  <1> SUFFICES ASSUME Init PROVE Types
    OBVIOUS
  <1>1. Requests(<<>>) = 0
    BY FS_EmptySet DEF Requests, RequestsIn
  <1>2. CountInv
    BY <1>1, CountsAreNatural DEF Init, CountInv, Searches
  <1>3. StagesInv /\ RestInv
    BY CountsAreNatural DEF Init, StagesInv, RestInv
  <1> QED BY <1>2, <1>3 DEF Types

\* What Receive does to the packets, all of which are messages.
LEMMA Received ==
    ASSUME Inv, Types, NEW p \in Messages, Receive(p)
    PROVE  /\ Len(packets') <= QueueMaxSize
           /\ Requests(packets') \in Nat /\ Requests(packets') <= Requests(packets) + One(p)
           /\ \A i \in 1 .. Len(packets') :
                  packets'[i] = p \/ \E j \in 1 .. Len(packets) : packets'[i] = packets[j]
  <1>1. packets \in Seq(Messages) /\ Len(packets) \in Nat /\ Requests(packets) \in Nat
    BY RequestsCount, LenProperties DEF Inv, QueuesInv
  <1>2. One(p) \in Nat
    BY DEF One
  <1>3. CASE packets' = packets
    BY <1>1, <1>2, <1>3 DEF Types, RestInv
  <1>4. CASE Len(packets) < QueueMaxSize /\ packets' = Append(packets, p)
    <2>1. Requests(packets') = Requests(packets) + One(p)
      BY <1>1, <1>4, RequestsAppended
    <2>2. /\ Len(packets') = Len(packets) + 1 /\ packets'[Len(packets) + 1] = p
          /\ \A i \in 1 .. Len(packets) : packets'[i] = packets[i]
      BY <1>1, <1>4, AppendProperties
    <2> QED BY <1>1, <1>2, <1>4, <2>1, <2>2, CountsAreNatural
  <1> QED BY <1>3, <1>4 DEF Receive

LEMMA PacketGone ==
    ASSUME Inv, Types, packets # <<>>, packets' = Tail(packets)
    PROVE  /\ Head(packets) \in Messages
           /\ Len(packets') <= QueueMaxSize
           /\ Requests(packets') \in Nat /\ Requests(packets) = Requests(packets') + One(Head(packets))
           /\ \A i \in 1 .. Len(packets') : \E j \in 1 .. Len(packets) : packets'[i] = packets[j]
           /\ Head(packets).kind = "ready" => Head(packets).lobby \in announced
  <1>1. packets \in Seq(Messages)
    BY DEF Inv, QueuesInv
  <1>2. /\ Head(packets) \in Messages /\ Head(packets) = packets[1]
        /\ Len(packets) \in Nat \ {0} /\ packets' \in Seq(Messages)
        /\ Len(packets') = Len(packets) - 1
        /\ \A i \in 1 .. Len(packets) - 1 : packets'[i] = packets[i + 1]
    BY <1>1, HeadAndTail
  <1>3. \A i \in 1 .. Len(packets') : i + 1 \in 1 .. Len(packets) /\ packets'[i] = packets[i + 1]
    BY <1>2
  <1>4. Requests(packets') \in Nat /\ Requests(packets) = Requests(packets') + One(Head(packets))
    BY <1>1, <1>2, RequestsCount, RequestsTaken
  <1>5. Head(packets).kind = "ready" => Head(packets).lobby \in announced
    BY <1>2 DEF Types, StagesInv
  <1> QED BY <1>2, <1>3, <1>4, <1>5, CountsAreNatural DEF Types, RestInv

LEMMA JobGone ==
    ASSUME Inv, Types, jobs # <<>>, jobs' = Tail(jobs)
    PROVE  /\ Head(jobs) \in Messages
           /\ Len(jobs') <= QueueMaxSize
           /\ Requests(jobs') \in Nat /\ Requests(jobs) = Requests(jobs') + One(Head(jobs))
           /\ \A i \in 1 .. Len(jobs') : \E j \in 1 .. Len(jobs) : jobs'[i] = jobs[j]
           /\ Head(jobs).kind = "ready" => Head(jobs).lobby \in accepted
  <1>1. jobs \in Seq(Messages)
    BY DEF Inv, QueuesInv
  <1>2. \A i \in 1 .. Len(jobs') : i + 1 \in 1 .. Len(jobs) /\ jobs'[i] = jobs[i + 1]
    BY JobTaken
  <1>3. Requests(jobs') \in Nat /\ Requests(jobs) = Requests(jobs') + One(Head(jobs))
    BY <1>1, JobTaken, RequestsCount, RequestsTaken
  <1>4. Head(jobs).kind = "ready" => Head(jobs).lobby \in accepted
    BY JobTaken DEF Types, StagesInv
  <1> QED BY <1>2, <1>3, <1>4, JobTaken, CountsAreNatural DEF Types, RestInv

LEMMA JobQueued ==
    ASSUME Inv, Types, NEW p \in Messages, Len(jobs) < QueueMaxSize, jobs' = Append(jobs, p)
    PROVE  /\ Len(jobs') <= QueueMaxSize
           /\ Requests(jobs') = Requests(jobs) + One(p)
           /\ \A i \in 1 .. Len(jobs') :
                  jobs'[i] = p \/ \E j \in 1 .. Len(jobs) : jobs'[i] = jobs[j]
  <1>1. jobs \in Seq(Messages) /\ Len(jobs) \in Nat
    BY LenProperties DEF Inv, QueuesInv
  <1>2. /\ Len(jobs') = Len(jobs) + 1 /\ jobs'[Len(jobs) + 1] = p
        /\ \A i \in 1 .. Len(jobs) : jobs'[i] = jobs[i]
    BY <1>1, AppendProperties
  <1> QED BY <1>1, <1>2, RequestsAppended, CountsAreNatural

LEMMA StepTypes == Inv /\ Types /\ [Next]_vars => Types'
  <1> SUFFICES ASSUME Inv, Types, [Next]_vars PROVE Types'
    OBVIOUS
  <1> USE DEF lobbyVars, searchVars
  <1>0. /\ Requests(packets) \in Nat /\ Requests(jobs) \in Nat /\ Searches \in Nat
        /\ answered \in Nat /\ asked \in Nat /\ MaxRequests \in Nat
    BY RequestsCount, CountsAreNatural DEF Inv, QueuesInv, Searches, Types, CountInv
  <1>1. CASE LaunchLobby
    <2>1. CountInv' /\ RestInv'
      BY <1>1 DEF LaunchLobby, Types, CountInv, RestInv, Searches
    <2>2. launched' \in 0 .. LobbyCount /\ running' \subseteq 1 .. launched'
      BY <1>1, CountsAreNatural DEF LaunchLobby, Types, StagesInv
    <2>3. StagesInv'
      BY <1>1, <2>2 DEF LaunchLobby, Types, StagesInv
    <2> QED BY <2>1, <2>3 DEF Types
  <1>2. ASSUME NEW l \in Lobbies, LobbyAnnounces(l)
        PROVE  Types'
    <2>1. PICK p \in Messages : p = Ready(l) /\ Receive(p) /\ p.kind = "ready" /\ p.lobby = l
      BY <1>2 DEF LobbyAnnounces, Messages, Ready
    <2>2. Requests(packets') \in Nat /\ Requests(packets') <= Requests(packets)
      BY <1>0, <2>1, Received DEF One
    <2>3. CountInv'
      BY <1>0, <1>2, <2>2 DEF LobbyAnnounces, Types, CountInv, Searches
    <2>4. StagesInv' /\ RestInv'
      BY <1>2, <2>1, Received DEF LobbyAnnounces, Types, StagesInv, RestInv
    <2> QED BY <2>3, <2>4 DEF Types
  <1>3. CASE AskForLobby
    <2>1. PICK p \in Messages : p = Request({}) /\ Receive(p) /\ p.kind = "request"
      BY <1>3, RequestsAreMessages DEF AskForLobby, Request
    <2>2. Requests(packets') \in Nat /\ Requests(packets') <= Requests(packets) + 1
      BY <1>0, <2>1, Received DEF One
    <2>3. CountInv'
      BY <1>0, <1>3, <2>2 DEF AskForLobby, Types, CountInv, Searches
    <2>4. StagesInv' /\ RestInv'
      BY <1>3, <2>1, Received DEF AskForLobby, Types, StagesInv, RestInv
    <2> QED BY <2>3, <2>4 DEF Types
  <1>4. CASE ReceiveDropsJob
    <2>1. Requests(packets') \in Nat /\ Requests(packets') <= Requests(packets)
      BY <1>0, <1>4, PacketGone DEF ReceiveDropsJob, One
    <2>2. CountInv'
      BY <1>0, <1>4, <2>1 DEF ReceiveDropsJob, Types, CountInv, Searches
    <2>3. StagesInv' /\ RestInv'
      BY <1>4, PacketGone DEF ReceiveDropsJob, Types, StagesInv, RestInv
    <2> QED BY <2>2, <2>3 DEF Types
  <1>5. CASE ReceiveReady
    <2>1. PICK p \in Messages :
              /\ p = Head(packets) /\ p.kind = "ready" /\ packets # <<>>
              /\ packets' = Tail(packets) /\ jobs' = Append(jobs, p) /\ Len(jobs) < QueueMaxSize
      BY <1>5, PacketTaken DEF ReceiveReady, NextPacketIs
    <2>2. /\ Requests(packets') = Requests(packets) /\ Requests(jobs') = Requests(jobs)
      BY <1>0, <2>1, PacketGone, JobQueued DEF One
    <2>3. CountInv'
      BY <1>5, <2>2 DEF ReceiveReady, Types, CountInv, Searches
    <2>4. p.lobby \in announced
      BY <2>1, PacketGone
    <2>5. /\ launched' = launched /\ running' = running /\ announced' = announced
          /\ accepted' = accepted \union {p.lobby} /\ saved' = saved /\ table' = table
          /\ unread' = unread /\ found' = found
          /\ redisUp' = redisUp /\ searching' = searching /\ hub' = hub
      BY <1>5, <2>1 DEF ReceiveReady
    <2>6. RestInv'
      BY <2>1, <2>5, PacketGone, JobQueued DEF Types, RestInv
    <2>7. \A i \in 1 .. Len(packets') : packets'[i].kind = "ready" => packets'[i].lobby \in announced
      BY <2>1, PacketGone DEF Types, StagesInv
    <2>8. \A i \in 1 .. Len(jobs') : jobs'[i].kind = "ready" => jobs'[i].lobby \in accepted \union {p.lobby}
      BY <2>1, JobQueued DEF Types, StagesInv
    <2>9. StagesInv'
      BY <2>4, <2>5, <2>7, <2>8 DEF Types, StagesInv
    <2> QED BY <2>3, <2>6, <2>9 DEF Types
  <1>6. CASE ReceiveRequest
    <2>1. PICK p \in Messages :
              /\ p = Request(accepted) /\ p.kind = "request" /\ packets # <<>>
              /\ Head(packets).kind = "request"
              /\ packets' = Tail(packets) /\ jobs' = Append(jobs, p) /\ Len(jobs) < QueueMaxSize
      BY <1>6, RequestsAreMessages DEF ReceiveRequest, NextPacketIs, Inv, QueuesInv, Request
    <2>2. /\ Requests(packets) = Requests(packets') + 1 /\ Requests(packets') \in Nat
          /\ Requests(jobs') = Requests(jobs) + 1
      BY <1>0, <2>1, PacketGone, JobQueued DEF One
    <2>3. CountInv'
      BY <1>0, <1>6, <2>2 DEF ReceiveRequest, Types, CountInv, Searches
    <2>4. StagesInv' /\ RestInv'
      BY <1>6, <2>1, PacketGone, JobQueued DEF ReceiveRequest, Types, StagesInv, RestInv
    <2> QED BY <2>3, <2>4 DEF Types
  <1>7. CASE SaveLobbyInfo
    <2>1. /\ jobs # <<>> /\ jobs' = Tail(jobs) /\ Head(jobs).kind = "ready"
      BY <1>7 DEF SaveLobbyInfo, NextJobIs
    <2>2. Requests(jobs') = Requests(jobs)
      BY <1>0, <2>1, JobGone DEF One
    <2>3. CountInv'
      BY <1>7, <2>2 DEF SaveLobbyInfo, Types, CountInv, Searches
    <2>4. Head(jobs).lobby \in accepted /\ accepted \subseteq Lobbies
      BY <2>1, JobGone, CountsAreNatural DEF Types, StagesInv, Lobbies
    <2>5. StagesInv' /\ RestInv'
      BY <1>7, <2>1, <2>4, JobGone DEF SaveLobbyInfo, Types, StagesInv, RestInv
    <2> QED BY <2>3, <2>5 DEF Types
  <1>8. CASE ScanKeys
    <2>1. /\ jobs # <<>> /\ jobs' = Tail(jobs) /\ Head(jobs).kind = "request"
          /\ searching = NoRequest /\ searching' = Head(jobs)
      BY <1>8 DEF ScanKeys, NextJobIs
    <2>2. /\ Head(jobs) = Request(Head(jobs).after) /\ Head(jobs) # NoRequest
          /\ Head(jobs) \in {Request(ls) : ls \in SUBSET Lobbies}
      <3>1. Head(jobs) \in Messages
        BY <2>1, JobGone
      <3> QED BY <2>1, <3>1, MessageKinds DEF Messages, Ready
    <2>3. Requests(jobs) = Requests(jobs') + 1 /\ Requests(jobs') \in Nat
      BY <1>0, <2>1, JobGone DEF One
    <2>4. Searches = 0 /\ Searches' = 1
      BY <2>1, <2>2 DEF Searches
    <2>5. CountInv'
      BY <1>0, <1>8, <2>3, <2>4 DEF ScanKeys, Types, CountInv
    <2>6. StagesInv' /\ RestInv'
      BY <1>8, <2>1, <2>2, JobGone DEF ScanKeys, Types, StagesInv, RestInv
    <2> QED BY <2>5, <2>6 DEF Types
  <1>9. ASSUME NEW l \in Lobbies, ReadRecord(l)
        PROVE  Types'
    BY <1>9 DEF ReadRecord, Types, CountInv, StagesInv, RestInv, Searches
  <1>10. CASE AnswerNoLobby
    <2>1. Searches = 1 /\ Searches' = 0
      BY <1>10 DEF AnswerNoLobby, Searches
    <2>2. CountInv'
      BY <1>0, <1>10, <2>1 DEF AnswerNoLobby, Types, CountInv
    <2> QED BY <1>10, <2>2 DEF AnswerNoLobby, Types, StagesInv, RestInv
  <1>11. CASE ParsingThrows
    BY <1>11 DEF ParsingThrows, Types, CountInv, StagesInv, RestInv, Searches
  <1>12. ASSUME NEW l \in Lobbies, RecordExpires(l)
        PROVE  Types'
    BY <1>12 DEF RecordExpires, Types, CountInv, StagesInv, RestInv, Searches
  <1>13. CASE RedisFails
    BY <1>13 DEF RedisFails, Types, CountInv, StagesInv, RestInv, Searches
  <1>14. CASE UNCHANGED vars
    BY <1>14 DEF vars, Types, CountInv, StagesInv, RestInv, Searches
  <1> QED
    BY <1>1, <1>2, <1>3, <1>4, <1>5, <1>6, <1>7, <1>8, <1>9, <1>10, <1>11, <1>12, <1>13, <1>14
    DEF Next, ReceiveThread, JobThread

\* The directory keeps its types: the queues their capacity, a lobby its stages
\* from launched to saved, and no request is answered that has not arrived.
THEOREM TypeCorrect == Spec => []TypeOK
  <1>1. Init => Inv /\ Types
    BY InitInv, InitTypes
  <1>2. Inv /\ Types /\ [Next]_vars => (Inv /\ Types)'
    BY StepInv, StepTypes
  <1>3. Inv /\ Types => TypeOK
    <2> SUFFICES ASSUME Inv, Types PROVE TypeOK
      OBVIOUS
    <2>1. /\ Requests(packets) \in Nat /\ Requests(jobs) \in Nat /\ Searches \in Nat
      BY RequestsCount DEF Inv, QueuesInv, Searches
    <2>2. answered \in 0 .. asked
      BY <2>1 DEF Types, CountInv
    <2> QED BY <2>2 DEF Inv, QueuesInv, Types, CountInv, StagesInv, RestInv, TypeOK
  <1> QED BY <1>1, <1>2, <1>3, PTL DEF Spec

-----------------------------------------------------------------------------
(* SearchBestLobby.  Arithmetic: comparing fractions with positive denominators *)

\* a/p < b/q and b/q <= c/r give a/p < c/r.
LEMMA LessTransitive ==
    ASSUME NEW a \in Nat, NEW b \in Nat, NEW c \in Nat,
           NEW p \in Nat \ {0}, NEW q \in Nat \ {0}, NEW r \in Nat \ {0},
           \/ a * q < b * p /\ b * r <= c * q
           \/ a * q <= b * p /\ b * r < c * q
    PROVE  a * r < c * p
OBVIOUS

LEMMA SameTransitive ==
    ASSUME NEW a \in Nat, NEW b \in Nat, NEW c \in Nat,
           NEW p \in Nat \ {0}, NEW q \in Nat \ {0}, NEW r \in Nat \ {0},
           a * q = b * p, b * r = c * q
    PROVE  a * r = c * p
OBVIOUS

-----------------------------------------------------------------------------
(* What the code compares is the reference order *)

LEMMA RecordsAreNumbers ==
    ASSUME SearchTypeOK, NEW i \in 1 .. RecordCount
    PROVE  /\ lobbies[i].current \in Nat
           /\ lobbies[i].remain \in Nat
           /\ lobbies[i].responseSpeed \in Nat
           /\ Total(i) \in Nat
           /\ Total(i) = lobbies[i].current + lobbies[i].remain
           /\ Eligible(i) <=> MayEnter(i)
           /\ MayEnter(i) => Total(i) \in Nat \ {0}
<1>1. lobbies[i] \in LobbyInfo
  BY DEF SearchTypeOK
<1>2. /\ lobbies[i].current \in Nat
      /\ lobbies[i].remain \in Nat
      /\ lobbies[i].responseSpeed \in Nat
  BY <1>1, RecordsAreNatural DEF LobbyInfo
<1> QED
  BY <1>2 DEF Total, Eligible, MayEnter

LEMMA PreferableByTotal ==
    ASSUME NEW i, NEW j
    PROVE  Preferable(i, j) <=>
               \/ lobbies[i].current * Total(j) < lobbies[j].current * Total(i)
               \/ /\ lobbies[i].current * Total(j) = lobbies[j].current * Total(i)
                  /\ lobbies[i].responseSpeed < lobbies[j].responseSpeed
BY DEF Preferable, Total

\* Asymmetry.
LEMMA NotBothPreferable ==
    ASSUME SearchTypeOK, NEW i \in 1 .. RecordCount, NEW j \in 1 .. RecordCount, Preferable(i, j)
    PROVE  ~Preferable(j, i)
<1>1. PICK x \in Nat, y \in Nat :
          x = lobbies[i].current * Total(j) /\ y = lobbies[j].current * Total(i)
  <2>1. lobbies[i].current \in Nat /\ Total(i) \in Nat
    BY RecordsAreNumbers
  <2>2. lobbies[j].current \in Nat /\ Total(j) \in Nat
    BY RecordsAreNumbers
  <2> QED
    BY <2>1, <2>2
<1>2. PICK s \in Nat, t \in Nat : s = lobbies[i].responseSpeed /\ t = lobbies[j].responseSpeed
  BY RecordsAreNumbers
<1>3. x < y \/ (x = y /\ s < t)
  BY <1>1, <1>2 DEF Preferable, Total
<1>4. Preferable(j, i) <=> y < x \/ (y = x /\ t < s)
  BY <1>1, <1>2 DEF Preferable, Total
<1> QED
  BY <1>3, <1>4

\* What is preferable to a lobby is preferable to all that this lobby is no worse than.
LEMMA PreferableToWorse ==
    ASSUME SearchTypeOK,
           NEW i \in 1 .. RecordCount, NEW j \in 1 .. RecordCount, NEW k \in 1 .. RecordCount,
           MayEnter(i), MayEnter(j), MayEnter(k),
           Preferable(i, j), ~Preferable(k, j)
    PROVE  Preferable(i, k)
<1>1. PICK a \in Nat, b \in Nat, c \in Nat :
          a = lobbies[i].current /\ b = lobbies[j].current /\ c = lobbies[k].current
  BY RecordsAreNumbers
<1>2. PICK p \in Nat \ {0}, q \in Nat \ {0}, r \in Nat \ {0} :
          p = Total(i) /\ q = Total(j) /\ r = Total(k)
  BY RecordsAreNumbers
<1>3. PICK s \in Nat, t \in Nat, u \in Nat :
          /\ s = lobbies[i].responseSpeed
          /\ t = lobbies[j].responseSpeed
          /\ u = lobbies[k].responseSpeed
  BY RecordsAreNumbers
<1>4. a * q < b * p \/ (a * q = b * p /\ s < t)
  BY <1>1, <1>2, <1>3 DEF Preferable, Total
<1>5. ~(c * q < b * r \/ (c * q = b * r /\ u < t))
  BY <1>1, <1>2, <1>3 DEF Preferable, Total
<1>6. /\ a * q \in Nat
      /\ b * p \in Nat
      /\ c * q \in Nat
      /\ b * r \in Nat
  OBVIOUS
<1>7. CASE a * q < b * p \/ b * r < c * q
  <2>1. \/ a * q < b * p /\ b * r <= c * q
        \/ a * q <= b * p /\ b * r < c * q
    BY <1>4, <1>5, <1>6, <1>7
  <2>2. a * r < c * p
    BY <2>1, LessTransitive
  <2> QED
    BY <2>2, <1>1, <1>2 DEF Preferable, Total
<1>8. CASE ~(a * q < b * p \/ b * r < c * q)
  <2>1. a * q = b * p /\ b * r = c * q /\ s < u
    BY <1>3, <1>4, <1>5, <1>6, <1>8
  <2>2. a * r = c * p
    BY <2>1, SameTransitive
  <2> QED
    BY <2>1, <2>2, <1>1, <1>2, <1>3 DEF Preferable, Total
<1> QED
  BY <1>7, <1>8

-----------------------------------------------------------------------------
(* The loop invariant *)

\* The lobbies of the iterations done that may be entered.
Visited == {i \in 1 .. next - 1 : MayEnter(i)}

BestSoFar ==
    \/ /\ Visited = {}
       /\ bestLobby = 0
       /\ bestRatio = LargestFloat
    \/ /\ IsBest(bestLobby, Visited)
       /\ bestRatio = Ratio(bestLobby)
       /\ bestResponseSpeed = Speed(bestLobby)

LoopInv == SearchTypeOK /\ BestSoFar

\* The test of the loop: is this lobby preferable to the best one so far?
LEMMA ImprovesMeaning ==
    ASSUME LoopInv, NEW i \in 1 .. RecordCount, MayEnter(i)
    PROVE  \/ Visited = {} /\ Improves(i)
           \/ IsBest(bestLobby, Visited) /\ (Improves(i) <=> Preferable(i, bestLobby))
<1>1. CASE Visited = {} /\ bestRatio = LargestFloat
  <2>1. lobbies[i].current \in Nat /\ Total(i) \in Nat \ {0}
    BY RecordsAreNumbers DEF LoopInv
  <2>2. Less(Ratio(i), LargestFloat)
    BY <2>1 DEF Less, Ratio, LargestFloat
  <2> QED
    BY <1>1, <2>2 DEF Improves
<1>2. CASE /\ IsBest(bestLobby, Visited)
           /\ bestRatio = Ratio(bestLobby)
           /\ bestResponseSpeed = Speed(bestLobby)
  <2>1. bestLobby \in 1 .. RecordCount
    BY <1>2, RecordCountIsNatural DEF LoopInv, SearchTypeOK, IsBest, Visited
  <2>2. lobbies[i].responseSpeed \in Nat /\ lobbies[bestLobby].responseSpeed \in Nat
    BY <2>1, RecordsAreNumbers DEF LoopInv
  <2>3. Less(Speed(i), bestResponseSpeed) <=>
            lobbies[i].responseSpeed < lobbies[bestLobby].responseSpeed
    BY <1>2, <2>2 DEF Less, Speed
  <2>4. /\ Less(Ratio(i), bestRatio) <=>
               lobbies[i].current * Total(bestLobby) < lobbies[bestLobby].current * Total(i)
        /\ Same(Ratio(i), bestRatio) <=>
               lobbies[i].current * Total(bestLobby) = lobbies[bestLobby].current * Total(i)
    BY <1>2 DEF Less, Same, Ratio
  <2> QED
    BY <1>2, <2>3, <2>4, PreferableByTotal DEF Improves
<1> QED
  BY <1>1, <1>2 DEF LoopInv, BestSoFar

LEMMA LoopInitInv == SearchInit => LoopInv
<1> SUFFICES ASSUME SearchInit PROVE LoopInv
  OBVIOUS
<1>1. SearchTypeOK
  BY RecordCountIsNatural DEF SearchInit, SearchTypeOK, Floats
<1>2. BestSoFar
  BY DEF SearchInit, BestSoFar, Visited
<1> QED
  BY <1>1, <1>2 DEF LoopInv

\* No step changes the table, so it keeps the order of the lobbies.
LEMMA TableStays ==
    ASSUME lobbies' = lobbies
    PROVE  /\ \A i : MayEnter(i)' <=> MayEnter(i)
           /\ \A i, j : Preferable(i, j)' <=> Preferable(i, j)
           /\ \A i : Ratio(i)' = Ratio(i) /\ Speed(i)' = Speed(i)
BY DEF MayEnter, Preferable, Ratio, Speed, Total

LEMMA SearchTypeStep == LoopInv /\ [SearchNext]_loopVars => SearchTypeOK'
<1> SUFFICES ASSUME LoopInv, [SearchNext]_loopVars PROVE SearchTypeOK'
  OBVIOUS
<1> USE RecordCountIsNatural DEF LoopInv, SearchTypeOK
<1>1. CASE SkipLobby
  BY <1>1 DEF SkipLobby
<1>2. CASE KeepBest
  BY <1>2 DEF KeepBest
<1>3. CASE TakeBetter
  <2>1. next \in 1 .. RecordCount /\ next' = next + 1 /\ bestLobby' = next /\ lobbies' = lobbies
    BY <1>3 DEF TakeBetter
  <2>2. lobbies[next].current \in Nat /\ lobbies[next].responseSpeed \in Nat
    BY <2>1, RecordsAreNumbers
  <2>3. Total(next) \in Nat \ {0}
    BY <1>3, <2>1, RecordsAreNumbers DEF TakeBetter
  <2>4. bestRatio' \in Floats
    BY <1>3, <2>2, <2>3 DEF TakeBetter, Ratio, Floats
  <2>5. bestResponseSpeed' \in Floats
    BY <1>3, <2>2 DEF TakeBetter, Speed, Floats
  <2> QED
    BY <2>1, <2>4, <2>5
<1>4. CASE UNCHANGED loopVars
  BY <1>4 DEF loopVars
<1> QED
  BY <1>1, <1>2, <1>3, <1>4 DEF SearchNext

LEMMA BestStep == LoopInv /\ [SearchNext]_loopVars => BestSoFar'
<1> SUFFICES ASSUME LoopInv, [SearchNext]_loopVars PROVE BestSoFar'
  OBVIOUS
<1>0. SearchTypeOK /\ next \in Nat /\ lobbies' = lobbies
  BY RecordCountIsNatural DEF LoopInv, SearchTypeOK, SearchNext, SkipLobby, KeepBest, TakeBetter, loopVars
<1>1. CASE SkipLobby
  <2>1. Visited' = Visited
    <3>1. next' = next + 1 /\ ~MayEnter(next)
      BY <1>0, <1>1, RecordsAreNumbers DEF SkipLobby, SearchTypeOK
    <3> QED
      BY <1>0, <3>1, TableStays DEF Visited
  <2> QED
    BY <1>0, <1>1, <2>1, TableStays DEF LoopInv, BestSoFar, IsBest, SkipLobby
<1>2. ASSUME KeepBest \/ TakeBetter PROVE BestSoFar'
  <2>1. next \in 1 .. RecordCount /\ next' = next + 1 /\ Eligible(next)
    BY <1>0, <1>2 DEF KeepBest, TakeBetter, SearchTypeOK
  <2>2. MayEnter(next)
    BY <1>0, <2>1, RecordsAreNumbers
  <2>3. Visited' = Visited \union {next} /\ next \notin Visited
    BY <1>0, <2>1, <2>2, TableStays DEF Visited
  <2>4. \A i \in Visited : i \in 1 .. RecordCount /\ i < next /\ MayEnter(i)
    <3>1. RecordCount \in Nat /\ next \in Nat /\ next <= RecordCount
      BY <1>0, <2>1, RecordCountIsNatural
    <3> QED
      BY <3>1 DEF Visited
  <2>5. CASE KeepBest
    <3>1. UNCHANGED <<bestLobby, bestRatio, bestResponseSpeed>> /\ ~Improves(next)
      BY <2>5 DEF KeepBest
    <3>2. IsBest(bestLobby, Visited) /\ ~Preferable(next, bestLobby)
      BY <2>1, <2>2, <3>1, ImprovesMeaning
    <3>3. bestRatio = Ratio(bestLobby) /\ bestResponseSpeed = Speed(bestLobby)
      BY <3>2 DEF LoopInv, BestSoFar, IsBest
    <3>4. bestLobby \in Visited /\ bestLobby < next
      BY <2>4, <3>2 DEF IsBest
    <3>5. IsBest(bestLobby, Visited \union {next})
      BY <1>0, <2>1, <2>4, <3>2, <3>4 DEF IsBest
    <3>6. IsBest(bestLobby, Visited)'
      BY <1>0, <2>3, <3>1, <3>5, TableStays DEF IsBest
    <3> QED
      BY <1>0, <3>1, <3>3, <3>6, TableStays DEF BestSoFar
  <2>6. CASE TakeBetter
    <3>1. /\ bestLobby' = next /\ bestRatio' = Ratio(next) /\ bestResponseSpeed' = Speed(next)
          /\ Improves(next)
      BY <2>6 DEF TakeBetter
    <3>2. \A i \in Visited : Preferable(next, i)
      <4> SUFFICES ASSUME NEW i \in Visited PROVE Preferable(next, i)
        OBVIOUS
      <4>1. IsBest(bestLobby, Visited) /\ Preferable(next, bestLobby)
        BY <2>1, <2>2, <3>1, ImprovesMeaning
      <4>2. bestLobby \in Visited /\ ~Preferable(i, bestLobby)
        BY <4>1 DEF IsBest
      <4> QED
        BY <1>0, <2>1, <2>2, <2>4, <4>1, <4>2, PreferableToWorse
    <3>3. \A i \in Visited \union {next} : ~Preferable(i, next)
      BY <1>0, <2>1, <2>4, <3>2, NotBothPreferable
    <3>4. IsBest(next, Visited \union {next})
      BY <1>0, <2>4, <3>2, <3>3 DEF IsBest
    <3>5. IsBest(bestLobby, Visited)'
      BY <1>0, <2>3, <3>1, <3>4, TableStays DEF IsBest
    <3> QED
      BY <1>0, <3>1, <3>5, TableStays DEF BestSoFar
  <2> QED
    BY <1>2, <2>5, <2>6
<1>3. CASE UNCHANGED loopVars
  <2>1. Visited' = Visited
    BY <1>3, TableStays DEF loopVars, Visited
  <2> QED
    BY <1>3, <2>1, TableStays DEF loopVars, LoopInv, BestSoFar, IsBest
<1> QED
  BY <1>1, <1>2, <1>3 DEF SearchNext

LEMMA LoopInvariance == SearchSpec => []LoopInv
<1>1. LoopInv /\ [SearchNext]_loopVars => LoopInv'
  BY SearchTypeStep, BestStep DEF LoopInv
<1>2. QED
  BY LoopInitInv, <1>1, PTL DEF SearchSpec

-----------------------------------------------------------------------------
(* The properties *)

(* The best load is a proper fraction: no lobby without any place gets      *)
(* through the tests, and nothing is divided by zero.                       *)
THEOREM SearchTypeCorrect == SearchSpec => []SearchTypeOK
<1>1. LoopInv => SearchTypeOK
  BY DEF LoopInv
<1>2. QED
  BY <1>1, LoopInvariance, PTL

(* When the loop is done it has found a best lobby, whatever the table.     *)
THEOREM BestLobbyIsFound == SearchSpec => []ReturnsBest
<1>1. LoopInv => ReturnsBest
  <2> SUFFICES ASSUME LoopInv, next = RecordCount + 1
               PROVE  LET S == {i \in 1 .. RecordCount : MayEnter(i)}
                      IN  IF S = {} THEN bestLobby = 0 ELSE IsBest(bestLobby, S)
    BY DEF ReturnsBest
  <2>1. Visited = {i \in 1 .. RecordCount : MayEnter(i)}
    BY RecordCountIsNatural DEF Visited
  <2> QED
    BY <2>1 DEF LoopInv, BestSoFar, IsBest
<1>2. QED
  BY <1>1, LoopInvariance, PTL
=============================================================================
