------------------------------ MODULE HubJobQueue ------------------------------
(***************************************************************************)
(* _jobQueue, the mutex and the condition variable of a Hub together: the  *)
(* ring of CircleQueue in the hands of the threads of JobDispatch.         *)
(*                                                                         *)
(* CircleQueue supposes that pops are one at a time; JobDispatch supposes  *)
(* that the queue is a FIFO whose operations are atomic, and shows that    *)
(* pops are one at a time.  Here neither is supposed: every access of push *)
(* and pop is a step, and the threads take the mutex as the code does.     *)
(*                                                                         *)
(* The poppers are the JobThreads and the items are the numbers of jobs,   *)
(* in the order in which the queue accepts them.                           *)
(***************************************************************************)
EXTENDS CircleQueue

CONSTANTS
    NoThread,       \* the mutex is free
    MaxJobs         \* bound: how many jobs the queue accepts

ASSUME JobsAreNumbered == MaxJobs \in Nat /\ Items = 1 .. MaxJobs /\ NoItem = 0
ASSUME HubThreads == NoThread \notin Poppers /\ \E t, u \in Poppers : t # u

VARIABLES accepted, pusher, mutex, pc, executed, answered   \* as in JobDispatch

ringVars == vars
hubVars  == <<accepted, pusher, mutex, pc, executed, answered>>

HubInit ==
    /\ Init
    /\ accepted = 0
    /\ pusher = "idle"
    /\ mutex = NoThread
    /\ pc = [t \in Poppers |-> "lock"]
    /\ executed = 0
    /\ answered = 0

-----------------------------------------------------------------------------
(* The thread that pushes and notifies *)

StartPush ==
    /\ pusher = "idle"
    /\ accepted < MaxJobs
    /\ CallPush(accepted + 1)
    /\ UNCHANGED hubVars

ContinuePush ==
    /\ PushFindsRoom \/ PushWrites
    /\ UNCHANGED hubVars

\* push returns true, or false, which nobody looks at.
EndPush ==
    /\ \/ PushPublishes /\ accepted' = accepted + 1
       \/ PushFindsFull /\ accepted' = accepted
    /\ pusher' = "pushed"
    /\ UNCHANGED <<mutex, pc, executed, answered>>

\* notify_one
WakeOne ==
    \/ /\ \A t \in Poppers : pc[t] # "waiting"
       /\ UNCHANGED pc
    \/ \E t \in Poppers : pc[t] = "waiting" /\ pc' = [pc EXCEPT ![t] = "lock"]

\* Mutant of Notify: Control does not notify after the push.
NotifyNobody ==
    /\ pusher = "pushed"
    /\ pusher' = "idle"
    /\ UNCHANGED <<ringVars, accepted, mutex, pc, executed, answered>>

Notify ==
    /\ pusher = "pushed"
    /\ WakeOne
    /\ pusher' = "idle"
    /\ UNCHANGED <<ringVars, accepted, mutex, executed, answered>>

NotifyWithoutJob ==
    /\ pushPc = "idle"
    /\ WakeOne
    /\ UNCHANGED <<ringVars, accepted, pusher, mutex, executed, answered>>

-----------------------------------------------------------------------------
(* JobThread *)

Move(t, from, to) == pc[t] = from /\ pc' = [pc EXCEPT ![t] = to]

\* Mutant of Lock: the loop does not take _lockJobThread.
LockNothing(t) ==
    /\ mutex' = t
    /\ Move(t, "lock", "test")
    /\ UNCHANGED <<ringVars, accepted, pusher, executed, answered>>

Lock(t) ==
    /\ mutex = NoThread
    /\ mutex' = t
    /\ Move(t, "lock", "test")
    /\ UNCHANGED <<ringVars, accepted, pusher, executed, answered>>

\* empty() reads both indices; under the mutex the second cannot change.
Test(t) ==
    /\ Move(t, "test", IF inputIndex = outputIndex THEN "block" ELSE "drain")
    /\ UNCHANGED <<ringVars, accepted, pusher, mutex, executed, answered>>

Block(t) ==
    /\ mutex' = NoThread
    /\ Move(t, "block", "waiting")
    /\ UNCHANGED <<ringVars, accepted, pusher, executed, answered>>

SpuriousWakeup(t) ==
    /\ Move(t, "waiting", "lock")
    /\ UNCHANGED <<ringVars, accepted, pusher, mutex, executed, answered>>

\* while (!_jobQueue.empty()) finds a job.
SeeJob(t) ==
    /\ SeeItem(t)
    /\ Move(t, "drain", "pop")
    /\ UNCHANGED <<accepted, pusher, mutex, executed, answered>>

ContinuePop(t) ==
    /\ pc[t] = "pop"
    /\ CallPop(t) \/ PopFindsItem(t) \/ PopMoves(t)
    /\ UNCHANGED hubVars

EndPop(t) ==
    /\ PopPublishes(t)
    /\ Move(t, "pop", "execute")
    /\ UNCHANGED <<accepted, pusher, mutex, executed, answered>>

Unlock(t) ==
    /\ inputIndex = outputIndex
    /\ mutex' = NoThread
    /\ Move(t, "drain", "lock")
    /\ UNCHANGED <<ringVars, accepted, pusher, executed, answered>>

ExecuteJob(t) ==
    /\ executed' = popped[t]
    /\ \E isSend \in BOOLEAN : Move(t, "execute", IF isSend THEN "send" ELSE "drain")
    /\ UNCHANGED <<ringVars, accepted, pusher, mutex, answered>>

SendAnswer(t) ==
    /\ answered' = popped[t]
    /\ Move(t, "send", "drain")
    /\ UNCHANGED <<ringVars, accepted, pusher, mutex, executed>>

-----------------------------------------------------------------------------

JobThread(t) ==
    \/ Lock(t) \/ Test(t) \/ Block(t)
    \/ SeeJob(t) \/ ContinuePop(t) \/ EndPop(t) \/ Unlock(t)
    \/ ExecuteJob(t) \/ SendAnswer(t)

HubNext ==
    \/ StartPush \/ ContinuePush \/ EndPush \/ Notify \/ NotifyWithoutJob
    \/ \E t \in Poppers : JobThread(t) \/ SpuriousWakeup(t)

HubSpec == HubInit /\ [][HubNext]_<<ringVars, hubVars>>

\* As in JobDispatch: nobody has to push, but a push that has begun goes on.
HubFairSpec ==
    /\ HubSpec
    /\ WF_<<ringVars, hubVars>>(ContinuePush \/ EndPush \/ Notify)
    /\ \A t \in Poppers : WF_<<ringVars, hubVars>>(JobThread(t))

-----------------------------------------------------------------------------
(* Properties *)

(* What the code does not test is so: nobody else is in pop when a JobThread *)
(* asks empty() or pops, and pop never finds the ring empty and answers a    *)
(* null job.  The guards of CircleQueue's pop and the absence of its         *)
(* PopFindsEmpty restrict nothing here.                                      *)
PopIsServed ==
    \A t \in Poppers :
        /\ pc[t] \in {"drain", "pop"} => MayPop(t)
        /\ pc[t] = "drain" => ~Active(t)
        /\ pc[t] = "pop" /\ popPc[t] = "check" => currentOutputIndex[t] # inputIndex

Dispatch == INSTANCE JobDispatch WITH
    JobThreads <- Poppers,
    jobQueue   <- ItemsInside,
    pc         <- [t \in Poppers |-> IF pc[t] = "pop" THEN "drain" ELSE pc[t]],
    job        <- popped

(* The ring under the mutex is the queue that JobDispatch takes for atomic:  *)
(* a job enters when _inputIndex is advanced and leaves when _outputIndex    *)
(* is.  So jobs are executed in order and no wake-up is lost here as well.   *)
ImplementsDispatch == Dispatch!Spec

(* Every job the ring accepts is executed.                                   *)
RingJobsExecuted == Dispatch!EveryJobExecuted
=============================================================================
