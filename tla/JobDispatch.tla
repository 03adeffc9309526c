----------------------------- MODULE JobDispatch -----------------------------
(***************************************************************************)
(* How jobs reach the JobThreads: _jobQueue, _lockJobThread and            *)
(* _jobThreadConditionValue of Hub, LobbyHub and AuthHub.                  *)
(*                                                                         *)
(* One thread pushes jobs (the ReceiveThread of the Control server, the    *)
(* thread in ProcessCompletionHandler of a Lobby server) and notifies the  *)
(* condition variable WITHOUT holding the mutex.  The JobThreads wait for  *)
(* a job under the mutex and keep it while they drain the queue, execute   *)
(* the jobs and send the answers.                                          *)
(*                                                                         *)
(* The queue is the bounded FIFO that CircleQueue implements when its pops *)
(* are one at a time, which OneDrainer establishes.  Jobs are numbered in  *)
(* the order in which the queue accepted them.                             *)
(***************************************************************************)
EXTENDS Integers, Sequences

CONSTANTS
    JobThreads,     \* jobThreadCount of InitializeSubThread
    NoThread,       \* the mutex is free
    QueueMaxSize,   \* the capacity _jobQueue is constructed with
    MaxJobs         \* bound: how many jobs the queue accepts

ASSUME TwoJobThreads == \E t, u \in JobThreads : t # u
ASSUME NoThreadIsNoThread == NoThread \notin JobThreads
ASSUME BoundsAreNatural == QueueMaxSize \in Nat /\ MaxJobs \in Nat

VARIABLES
    jobQueue,       \* the jobs inside _jobQueue, oldest first
    accepted,       \* the number of the job accepted last
    pusher,         \* "pushed": between _jobQueue.push and notify_one
    mutex,          \* the thread that holds _lockJobThread
    pc,             \* where each JobThread is
    job,            \* the local "job" of each JobThread
    executed,       \* the number of the job executed last
    answered        \* the number of the last job whose answer was sent

vars == <<jobQueue, accepted, pusher, mutex, pc, job, executed, answered>>

(* "lock":    about to take the mutex: at the top of the loop, or woken      *)
(* "test":    in the predicate of wait                                       *)
(* "block":   the predicate was false, not yet blocked                       *)
(* "waiting": blocked on the condition variable                              *)
(* "drain":   at the head of while (!_jobQueue.empty())                      *)
(* "execute", "send": with a job popped; with an answer to send              *)
Points == {"lock", "test", "block", "waiting", "drain", "execute", "send"}

\* The points at which a JobThread holds _lockJobThread.
Locked == {"test", "block", "drain", "execute", "send"}

Init ==
    /\ jobQueue = <<>>
    /\ accepted = 0
    /\ pusher = "idle"
    /\ mutex = NoThread
    /\ pc = [t \in JobThreads |-> "lock"]
    /\ job = [t \in JobThreads |-> 0]
    /\ executed = 0
    /\ answered = 0

-----------------------------------------------------------------------------
(* The threads that push and notify *)

\* Mutant of PushJob: the queue takes a job that does not fit.
PushJobUnbounded ==
    /\ pusher = "idle"
    /\ accepted < MaxJobs
    /\ jobQueue' = Append(jobQueue, accepted + 1)
    /\ accepted' = accepted + 1
    /\ pusher' = "pushed"
    /\ UNCHANGED <<mutex, pc, job, executed, answered>>

PushJob ==
    /\ pusher = "idle"
    /\ accepted < MaxJobs
    /\ Len(jobQueue) < QueueMaxSize
    /\ jobQueue' = Append(jobQueue, accepted + 1)
    /\ accepted' = accepted + 1
    /\ pusher' = "pushed"
    /\ UNCHANGED <<mutex, pc, job, executed, answered>>

\* push answers false, nobody looks at it, and the job is gone.
DropJob ==
    /\ pusher = "idle"
    /\ Len(jobQueue) = QueueMaxSize
    /\ pusher' = "pushed"
    /\ UNCHANGED <<jobQueue, accepted, mutex, pc, job, executed, answered>>

\* notify_one: one waiting thread, if there is one, leaves wait.
WakeOne ==
    \/ /\ \A t \in JobThreads : pc[t] # "waiting"
       /\ UNCHANGED pc
    \/ \E t \in JobThreads :
           /\ pc[t] = "waiting"
           /\ pc' = [pc EXCEPT ![t] = "lock"]

\* Mutant of NotifyJob: the notify_one after the push is missing.
NotifyNobody ==
    /\ pusher = "pushed"
    /\ pusher' = "idle"
    /\ UNCHANGED <<jobQueue, accepted, mutex, pc, job, executed, answered>>

NotifyJob ==
    /\ pusher = "pushed"
    /\ WakeOne
    /\ pusher' = "idle"
    /\ UNCHANGED <<jobQueue, accepted, mutex, job, executed, answered>>

\* The ReceiveThreads notify after every packet, also when they pushed nothing.
NotifyWithoutJob ==
    /\ WakeOne
    /\ UNCHANGED <<jobQueue, accepted, pusher, mutex, job, executed, answered>>

-----------------------------------------------------------------------------
(* JobThread *)

Goto(t, p) == pc' = [pc EXCEPT ![t] = p]

\* Mutant of Lock: the loop does not take _lockJobThread.
LockWithoutMutex(t) ==
    /\ pc[t] = "lock"
    /\ mutex' = t
    /\ Goto(t, "test")
    /\ UNCHANGED <<jobQueue, accepted, pusher, job, executed, answered>>

Lock(t) ==
    /\ pc[t] = "lock"
    /\ mutex = NoThread
    /\ mutex' = t
    /\ Goto(t, "test")
    /\ UNCHANGED <<jobQueue, accepted, pusher, job, executed, answered>>

Test(t) ==
    /\ pc[t] = "test"
    /\ Goto(t, IF jobQueue = <<>> THEN "block" ELSE "drain")
    /\ UNCHANGED <<jobQueue, accepted, pusher, mutex, job, executed, answered>>

\* wait releases the mutex and blocks in one step; a notify before it is lost.
Block(t) ==
    /\ pc[t] = "block"
    /\ mutex' = NoThread
    /\ Goto(t, "waiting")
    /\ UNCHANGED <<jobQueue, accepted, pusher, job, executed, answered>>

SpuriousWakeup(t) ==
    /\ pc[t] = "waiting"
    /\ Goto(t, "lock")
    /\ UNCHANGED <<jobQueue, accepted, pusher, mutex, job, executed, answered>>

\* Mutant of PopJob: the mutex covers the pop and not the execution.
PopJobAndUnlock(t) ==
    /\ pc[t] = "drain"
    /\ jobQueue # <<>>
    /\ job' = [job EXCEPT ![t] = Head(jobQueue)]
    /\ jobQueue' = Tail(jobQueue)
    /\ mutex' = NoThread
    /\ Goto(t, "execute")
    /\ UNCHANGED <<accepted, pusher, executed, answered>>

PopJob(t) ==
    /\ pc[t] = "drain"
    /\ jobQueue # <<>>
    /\ job' = [job EXCEPT ![t] = Head(jobQueue)]
    /\ jobQueue' = Tail(jobQueue)
    /\ Goto(t, "execute")
    /\ UNCHANGED <<accepted, pusher, mutex, executed, answered>>

\* The queue is drained: the unique_lock goes out of scope.
Unlock(t) ==
    /\ pc[t] = "drain"
    /\ jobQueue = <<>>
    /\ mutex' = NoThread
    /\ Goto(t, "lock")
    /\ UNCHANGED <<jobQueue, accepted, pusher, job, executed, answered>>

\* Mutant of ExecuteJob: the mutex is released before the answer is sent.
ExecuteJobAndUnlock(t) ==
    /\ pc[t] = "execute"
    /\ executed' = job[t]
    /\ mutex' = NoThread
    /\ \E isSend \in BOOLEAN : Goto(t, IF isSend THEN "send" ELSE "drain")
    /\ UNCHANGED <<jobQueue, accepted, pusher, job, answered>>

\* Execute sets output.IsSend to true or to false, depending on the kind of job.
ExecuteJob(t) ==
    /\ pc[t] = "execute"
    /\ executed' = job[t]
    /\ \E isSend \in BOOLEAN : Goto(t, IF isSend THEN "send" ELSE "drain")
    /\ UNCHANGED <<jobQueue, accepted, pusher, mutex, job, answered>>

SendAnswer(t) ==
    /\ pc[t] = "send"
    /\ answered' = job[t]
    /\ Goto(t, "drain")
    /\ UNCHANGED <<jobQueue, accepted, pusher, mutex, job, executed>>

-----------------------------------------------------------------------------

JobThread(t) ==
    \/ Lock(t)
    \/ Test(t)
    \/ Block(t)
    \/ PopJob(t)
    \/ Unlock(t)
    \/ ExecuteJob(t)
    \/ SendAnswer(t)

Next ==
    \/ PushJob
    \/ DropJob
    \/ NotifyJob
    \/ NotifyWithoutJob
    \/ \E t \in JobThreads : JobThread(t) \/ SpuriousWakeup(t)

\* Threads that can run do run; nobody has to push or to wake spuriously.
Fairness ==
    /\ WF_vars(NotifyJob)
    /\ \A t \in JobThreads : WF_vars(JobThread(t))

Spec == Init /\ [][Next]_vars

FairSpec == Spec /\ Fairness

-----------------------------------------------------------------------------
(* Properties *)

TypeOK ==
    /\ jobQueue \in Seq(Nat) /\ Len(jobQueue) <= QueueMaxSize
    /\ accepted \in Nat
    /\ pusher \in {"idle", "pushed"}
    /\ mutex \in JobThreads \union {NoThread}
    /\ pc \in [JobThreads -> Points]
    /\ job \in [JobThreads -> Nat]
    /\ executed \in Nat
    /\ answered \in Nat

(* At most one JobThread is between its empty() and the end of its drain:   *)
(* the pops of _jobQueue are one at a time, as CircleQueue requires.        *)
OneDrainer ==
    \A t, u \in JobThreads : pc[t] \in Locked /\ pc[u] \in Locked => t = u

(* No wake-up is lost, although the pusher notifies without the mutex: a    *)
(* job that waits and whose notify has been made has a thread that will     *)
(* still look at the queue.                                                 *)
NoLostWakeup ==
    jobQueue # <<>> /\ pusher = "idle" =>
        \E t \in JobThreads : pc[t] \notin {"block", "waiting"}

(* Every accepted job is executed once and in the order of acceptance.      *)
ExecutesInOrder == [][executed' \in {executed, executed + 1}]_vars

(* The answers leave in the order of the requests.                          *)
AnswersInOrder == [][answered' # answered => answered' > answered]_vars

(* Every accepted job is eventually executed.                               *)
EveryJobExecuted == \A j \in 1 .. MaxJobs : accepted >= j ~> executed >= j
=============================================================================
