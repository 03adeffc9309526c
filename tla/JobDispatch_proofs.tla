-------------------------- MODULE JobDispatch_proofs --------------------------
(***************************************************************************)
(* Proofs about JobDispatch, for every set of at least two JobThreads,     *)
(* every queue capacity and every number of jobs.                          *)
(***************************************************************************)
EXTENDS JobDispatch, SequenceTheorems, TLAPS

-----------------------------------------------------------------------------
(* The inductive invariant *)

\* The thread that holds the mutex is the one whose point says so.
MutexInv == \A t \in JobThreads : pc[t] \in Locked <=> mutex = t

\* The jobs inside are the last ones accepted, in order.
QueueInv == \A k \in 1 .. Len(jobQueue) : jobQueue[k] = accepted - Len(jobQueue) + k

\* The job being executed is the one between the executed and the queued ones.
RunInv ==
    /\ (\A t \in JobThreads : pc[t] # "execute") => executed + Len(jobQueue) = accepted
    /\ \A t \in JobThreads : pc[t] = "execute" =>
           job[t] = executed + 1 /\ executed + 1 + Len(jobQueue) = accepted

\* An answer to send is that of the job executed last, and not sent yet.
AnswerInv ==
    /\ answered <= executed
    /\ \A t \in JobThreads : pc[t] = "send" => job[t] = executed /\ answered < executed

IInv == TypeOK /\ MutexInv /\ NoLostWakeup /\ QueueInv /\ RunInv /\ AnswerInv

-----------------------------------------------------------------------------

LEMMA InitInv == Init => IInv
<1> SUFFICES ASSUME Init PROVE IInv
  OBVIOUS
<1> USE NoThreadIsNoThread DEF Init
<1>1. TypeOK
  <2>1. jobQueue \in Seq(Nat) /\ Len(jobQueue) = 0
    BY EmptySeq
  <2> QED
    BY <2>1, BoundsAreNatural DEF TypeOK, Points
<1>2. MutexInv
  BY DEF MutexInv, Locked
<1>3. NoLostWakeup
  BY DEF NoLostWakeup
<1>4. QueueInv /\ RunInv /\ AnswerInv
  BY DEF QueueInv, RunInv, AnswerInv
<1> QED
  BY <1>1, <1>2, <1>3, <1>4 DEF IInv

\* Appending a job and removing the oldest one, and the numbers of those left.
LEMMA PushedQueue ==
    ASSUME TypeOK, QueueInv, PushJob
    PROVE  /\ jobQueue' \in Seq(Nat)
           /\ Len(jobQueue') = Len(jobQueue) + 1
           /\ jobQueue' # <<>>
           /\ QueueInv'
<1>1. jobQueue \in Seq(Nat) /\ accepted \in Nat /\ jobQueue' = Append(jobQueue, accepted + 1) /\ accepted' = accepted + 1
  BY DEF TypeOK, PushJob
<1> QED
  BY <1>1, AppendProperties DEF QueueInv

LEMMA PoppedQueue ==
    ASSUME TypeOK, QueueInv, NEW t \in JobThreads, PopJob(t)
    PROVE  /\ jobQueue' \in Seq(Nat)
           /\ Len(jobQueue') = Len(jobQueue) - 1
           /\ Len(jobQueue) >= 1
           /\ job'[t] = accepted - Len(jobQueue) + 1
           /\ QueueInv'
<1>1. jobQueue \in Seq(Nat) /\ accepted \in Nat /\ accepted' = accepted /\ jobQueue # <<>>
      /\ jobQueue' = Tail(jobQueue)
  BY DEF TypeOK, PopJob
<1>2. /\ jobQueue' \in Seq(Nat) /\ Len(jobQueue') = Len(jobQueue) - 1
      /\ \A k \in 1 .. Len(jobQueue') : jobQueue'[k] = jobQueue[k + 1]
  BY <1>1, HeadTailProperties
<1>3. Len(jobQueue) \in Nat /\ Len(jobQueue) >= 1
  BY <1>1, LenProperties, EmptySeq
<1>4. job'[t] = jobQueue[1]
  BY <1>1 DEF TypeOK, PopJob
<1>5. job'[t] = accepted - Len(jobQueue) + 1
  BY <1>3, <1>4 DEF QueueInv
<1>6. QueueInv'
  <2> SUFFICES ASSUME NEW k \in 1 .. Len(jobQueue')
               PROVE  jobQueue'[k] = accepted' - Len(jobQueue') + k
    BY DEF QueueInv
  <2>1. k + 1 \in 1 .. Len(jobQueue) /\ k \in Nat
    BY <1>2, <1>3
  <2>2. jobQueue[k + 1] = accepted - Len(jobQueue) + (k + 1)
    BY <2>1 DEF QueueInv
  <2> QED
    BY <1>1, <1>2, <1>3, <2>1, <2>2
<1> QED
  BY <1>2, <1>3, <1>5, <1>6

LEMMA TypeStep == IInv /\ [Next]_vars => TypeOK'
<1> SUFFICES ASSUME IInv, [Next]_vars PROVE TypeOK'
  OBVIOUS
<1> USE DEF IInv, TypeOK, Points, WakeOne, Goto
<1>1. CASE PushJob
  <2>1. /\ jobQueue' \in Seq(Nat) /\ Len(jobQueue') = Len(jobQueue) + 1
        /\ Len(jobQueue) < QueueMaxSize /\ Len(jobQueue) \in Nat
    BY <1>1, PushedQueue, LenProperties DEF PushJob
  <2> QED
    BY <1>1, <2>1, BoundsAreNatural DEF PushJob
<1>2. CASE DropJob
  BY <1>2 DEF DropJob
<1>3. CASE NotifyJob
  BY <1>3 DEF NotifyJob
<1>4. CASE NotifyWithoutJob
  BY <1>4 DEF NotifyWithoutJob
<1>5. ASSUME NEW t \in JobThreads, JobThread(t) \/ SpuriousWakeup(t) PROVE TypeOK'
  <2>1. CASE Lock(t)
    BY <2>1 DEF Lock
  <2>2. CASE Test(t)
    BY <2>2 DEF Test
  <2>3. CASE Block(t)
    BY <2>3 DEF Block
  <2>4. CASE PopJob(t)
    <3>1. Head(jobQueue) \in Nat
      BY <2>4, HeadTailProperties DEF PopJob
    <3>2. /\ jobQueue' \in Seq(Nat) /\ Len(jobQueue') = Len(jobQueue) - 1
          /\ Len(jobQueue) \in Nat
      BY <2>4, PoppedQueue, LenProperties
    <3>3. Len(jobQueue') <= QueueMaxSize
      BY <3>2, BoundsAreNatural
    <3> QED
      BY <2>4, <3>1, <3>2, <3>3 DEF PopJob
  <2>5. CASE Unlock(t)
    BY <2>5 DEF Unlock
  <2>6. CASE ExecuteJob(t)
    BY <2>6 DEF ExecuteJob
  <2>7. CASE SendAnswer(t)
    BY <2>7 DEF SendAnswer
  <2>8. CASE SpuriousWakeup(t)
    BY <2>8 DEF SpuriousWakeup
  <2> QED
    BY <1>5, <2>1, <2>2, <2>3, <2>4, <2>5, <2>6, <2>7, <2>8 DEF JobThread
<1>6. CASE UNCHANGED vars
  BY <1>6 DEF vars
<1> QED
  BY <1>1, <1>2, <1>3, <1>4, <1>5, <1>6 DEF Next

LEMMA MutexStep == IInv /\ [Next]_vars => MutexInv'
<1> SUFFICES ASSUME IInv, [Next]_vars, NEW u \in JobThreads
             PROVE  pc'[u] \in Locked <=> mutex' = u
  BY DEF MutexInv
<1> USE NoThreadIsNoThread DEF IInv, TypeOK, MutexInv, Locked, WakeOne, Goto
<1>1. CASE PushJob \/ DropJob
  BY <1>1 DEF PushJob, DropJob
<1>2. CASE NotifyJob \/ NotifyWithoutJob
  BY <1>2 DEF NotifyJob, NotifyWithoutJob
<1>3. ASSUME NEW t \in JobThreads, JobThread(t) \/ SpuriousWakeup(t)
      PROVE  pc'[u] \in Locked <=> mutex' = u
  <2>1. CASE Lock(t)
    BY <2>1 DEF Lock
  <2>2. CASE Test(t)
    BY <2>2 DEF Test
  <2>3. CASE Block(t)
    BY <2>3 DEF Block
  <2>4. CASE PopJob(t)
    BY <2>4 DEF PopJob
  <2>5. CASE Unlock(t)
    BY <2>5 DEF Unlock
  <2>6. CASE ExecuteJob(t)
    BY <2>6 DEF ExecuteJob
  <2>7. CASE SendAnswer(t)
    BY <2>7 DEF SendAnswer
  <2>8. CASE SpuriousWakeup(t)
    BY <2>8 DEF SpuriousWakeup
  <2> QED
    BY <1>3, <2>1, <2>2, <2>3, <2>4, <2>5, <2>6, <2>7, <2>8 DEF JobThread
<1>4. CASE UNCHANGED vars
  BY <1>4 DEF vars
<1> QED
  BY <1>1, <1>2, <1>3, <1>4 DEF Next

\* A notify that wakes nobody is made when no thread waits: then one of the two
\* threads is not about to block, since that one holds the mutex.
LEMMA WakeKeepsSomeoneAwake ==
    ASSUME TypeOK, MutexInv, WakeOne
    PROVE  \E t \in JobThreads : pc'[t] \notin {"block", "waiting"}
<1>1. CASE (\A t \in JobThreads : pc[t] # "waiting") /\ UNCHANGED pc
  <2>1. PICK t \in JobThreads, u \in JobThreads : t # u
    BY TwoJobThreads
  <2>2. ~(pc[t] = "block" /\ pc[u] = "block")
    BY <2>1 DEF MutexInv, Locked
  <2> QED
    BY <1>1, <2>2
<1>2. ASSUME NEW t \in JobThreads, pc' = [pc EXCEPT ![t] = "lock"]
      PROVE  \E u \in JobThreads : pc'[u] \notin {"block", "waiting"}
  BY <1>2 DEF TypeOK
<1> QED
  BY <1>1, <1>2 DEF WakeOne

LEMMA WakeupStep == IInv /\ [Next]_vars => NoLostWakeup'
<1> SUFFICES ASSUME IInv, [Next]_vars, jobQueue' # <<>>, pusher' = "idle"
             PROVE  \E t \in JobThreads : pc'[t] \notin {"block", "waiting"}
  BY DEF NoLostWakeup
<1> USE DEF IInv, NoLostWakeup
<1>1. CASE PushJob \/ DropJob
  BY <1>1 DEF PushJob, DropJob
<1>2. CASE NotifyJob \/ NotifyWithoutJob
  BY <1>2, WakeKeepsSomeoneAwake DEF NotifyJob, NotifyWithoutJob
<1>3. ASSUME NEW t \in JobThreads, JobThread(t) \/ SpuriousWakeup(t)
      PROVE  \E u \in JobThreads : pc'[u] \notin {"block", "waiting"}
  <2> USE DEF TypeOK, Goto
  <2>1. CASE Lock(t)
    BY <2>1 DEF Lock
  <2>2. CASE Test(t)
    BY <2>2 DEF Test
  <2>3. CASE Block(t)
    \* Whoever was awake is not the thread that blocks.
    BY <2>3 DEF Block
  <2>4. CASE PopJob(t)
    BY <2>4 DEF PopJob
  <2>5. CASE Unlock(t)
    BY <2>5 DEF Unlock
  <2>6. CASE ExecuteJob(t)
    BY <2>6 DEF ExecuteJob
  <2>7. CASE SendAnswer(t)
    BY <2>7 DEF SendAnswer
  <2>8. CASE SpuriousWakeup(t)
    BY <2>8 DEF SpuriousWakeup
  <2> QED
    BY <1>3, <2>1, <2>2, <2>3, <2>4, <2>5, <2>6, <2>7, <2>8 DEF JobThread
<1>4. CASE UNCHANGED vars
  BY <1>4 DEF vars
<1> QED
  BY <1>1, <1>2, <1>3, <1>4 DEF Next

LEMMA OrderStep == IInv /\ [Next]_vars => QueueInv' /\ RunInv'
<1> SUFFICES ASSUME IInv, [Next]_vars PROVE QueueInv' /\ RunInv'
  OBVIOUS
<1> USE DEF IInv, TypeOK
<1>0. Len(jobQueue) \in Nat
  BY LenProperties
<1>1. CASE PushJob
  <2>1. Len(jobQueue') = Len(jobQueue) + 1 /\ QueueInv'
    BY <1>1, PushedQueue
  <2>2. accepted' = accepted + 1 /\ UNCHANGED <<pc, job, executed>>
    BY <1>1 DEF PushJob
  <2>3. executed + Len(jobQueue) = accepted => executed' + Len(jobQueue') = accepted'
    BY <1>0, <2>1, <2>2
  <2>4. executed + 1 + Len(jobQueue) = accepted => executed' + 1 + Len(jobQueue') = accepted'
    BY <1>0, <2>1, <2>2
  <2> QED
    BY <2>1, <2>2, <2>3, <2>4 DEF RunInv
<1>2. CASE DropJob
  BY <1>2 DEF DropJob, QueueInv, RunInv
<1>3. CASE NotifyJob \/ NotifyWithoutJob
  <2>1. \A t \in JobThreads : pc'[t] = "execute" <=> pc[t] = "execute"
    BY <1>3 DEF NotifyJob, NotifyWithoutJob, WakeOne
  <2> QED
    BY <1>3, <2>1 DEF NotifyJob, NotifyWithoutJob, QueueInv, RunInv
<1>4. ASSUME NEW t \in JobThreads, JobThread(t) \/ SpuriousWakeup(t)
      PROVE  QueueInv' /\ RunInv'
  <2> USE DEF Goto
  <2>1. CASE Lock(t) \/ Test(t) \/ Block(t) \/ Unlock(t) \/ SendAnswer(t) \/ SpuriousWakeup(t)
    <3>1. \A u \in JobThreads : pc'[u] = "execute" <=> pc[u] = "execute"
      BY <2>1 DEF Lock, Test, Block, Unlock, SendAnswer, SpuriousWakeup
    <3>2. UNCHANGED <<jobQueue, accepted, executed, job>>
      BY <2>1 DEF Lock, Test, Block, Unlock, SendAnswer, SpuriousWakeup
    <3> QED
      BY <3>1, <3>2 DEF QueueInv, RunInv
  <2>2. CASE PopJob(t)
    \* t holds the mutex at "drain", so no other thread executes.
    <3>1. \A u \in JobThreads : pc[u] # "execute"
      BY <2>2 DEF PopJob, MutexInv, Locked
    <3>2. executed + Len(jobQueue) = accepted
      BY <3>1 DEF RunInv
    <3>3. /\ Len(jobQueue') = Len(jobQueue) - 1
          /\ Len(jobQueue) >= 1
          /\ job'[t] = accepted - Len(jobQueue) + 1
          /\ QueueInv'
      BY <2>2, PoppedQueue
    <3>4. \A u \in JobThreads : pc'[u] = "execute" <=> u = t
      BY <2>2, <3>1 DEF PopJob
    <3>5. accepted' = accepted /\ executed' = executed
      BY <2>2 DEF PopJob
    <3>6. executed \in Nat /\ accepted \in Nat
      OBVIOUS
    <3>7. job'[t] = executed' + 1 /\ executed' + 1 + Len(jobQueue') = accepted'
      <4> HIDE DEF IInv, TypeOK
      <4> QED
        BY <1>0, <3>2, <3>3, <3>5, <3>6
    <3> QED
      BY <3>3, <3>4, <3>7 DEF RunInv
  <2>3. CASE ExecuteJob(t)
    <3>1. \A u \in JobThreads : pc'[u] # "execute"
      BY <2>3 DEF ExecuteJob, MutexInv, Locked
    <3>2. UNCHANGED <<jobQueue, accepted>> /\ executed' = executed + 1
      BY <2>3 DEF ExecuteJob, RunInv
    <3> QED
      BY <1>0, <2>3, <3>1, <3>2 DEF ExecuteJob, QueueInv, RunInv
  <2> QED
    BY <1>4, <2>1, <2>2, <2>3 DEF JobThread
<1>5. CASE UNCHANGED vars
  BY <1>5 DEF vars, QueueInv, RunInv
<1> QED
  BY <1>1, <1>2, <1>3, <1>4, <1>5 DEF Next

\* Only ExecuteJob and SendAnswer matter, and their thread holds the mutex, so
\* that no other thread has an answer to send.
LEMMA AnswerStep == IInv /\ [Next]_vars => AnswerInv'
<1> SUFFICES ASSUME IInv, [Next]_vars PROVE AnswerInv'
  OBVIOUS
<1>0. executed \in Nat /\ answered \in Nat
  BY DEF IInv, TypeOK
<1>1. ASSUME NEW t \in JobThreads, ExecuteJob(t) PROVE AnswerInv'
  <2>1. job[t] = executed + 1 /\ executed' = executed + 1 /\ UNCHANGED <<job, answered>>
    BY <1>1 DEF IInv, RunInv, ExecuteJob
  <2>2. \A u \in JobThreads : pc'[u] = "send" => u = t
    BY <1>1 DEF IInv, TypeOK, MutexInv, Locked, ExecuteJob, Goto
  <2> QED
    BY <1>0, <2>1, <2>2 DEF IInv, AnswerInv
<1>2. ASSUME NEW t \in JobThreads, SendAnswer(t) PROVE AnswerInv'
  <2>1. answered' = executed /\ UNCHANGED <<job, executed>>
    BY <1>2 DEF IInv, AnswerInv, SendAnswer
  <2>2. \A u \in JobThreads : pc'[u] # "send"
    BY <1>2 DEF IInv, TypeOK, MutexInv, Locked, SendAnswer, Goto
  <2> QED
    BY <1>0, <2>1, <2>2 DEF AnswerInv
<1>3. ASSUME NEW t \in JobThreads, PopJob(t) PROVE AnswerInv'
  <2>1. UNCHANGED <<executed, answered>>
    BY <1>3 DEF PopJob
  <2>2. \A u \in JobThreads : pc'[u] # "send"
    BY <1>3 DEF IInv, TypeOK, MutexInv, Locked, PopJob, Goto
  <2> QED
    BY <2>1, <2>2 DEF IInv, AnswerInv
<1>4. CASE ~ \E t \in JobThreads : ExecuteJob(t) \/ SendAnswer(t) \/ PopJob(t)
  <2>1. UNCHANGED <<executed, answered, job>>
    BY <1>4 DEF Next, vars, JobThread, PushJob, DropJob, NotifyJob, NotifyWithoutJob,
                Lock, Test, Block, Unlock, SpuriousWakeup
  <2>2. \A u \in JobThreads : pc'[u] = "send" => pc[u] = "send"
    BY <1>4 DEF IInv, TypeOK, Next, vars, JobThread, PushJob, DropJob, NotifyJob, NotifyWithoutJob,
                Lock, Test, Block, Unlock, SpuriousWakeup, WakeOne, Goto
  <2> QED
    BY <2>1, <2>2 DEF IInv, AnswerInv
<1> QED
  BY <1>1, <1>2, <1>3, <1>4

LEMMA Invariance == Spec => []IInv
<1>1. IInv /\ [Next]_vars => IInv'
  BY TypeStep, MutexStep, WakeupStep, OrderStep, AnswerStep DEF IInv
<1>2. QED
  BY InitInv, <1>1, PTL DEF Spec

-----------------------------------------------------------------------------
(* The properties *)

(* The variables keep their types, for every set of JobThreads. *)
THEOREM TypeCorrect == Spec => []TypeOK
<1>1. IInv => TypeOK
  BY DEF IInv
<1>2. QED
  BY <1>1, Invariance, PTL

(* The mutex makes the drains exclusive, so the pops of _jobQueue are one at *)
(* a time: what CircleQueue asks of the threads that pop.                    *)
THEOREM DrainsAreExclusive == Spec => []OneDrainer
<1>1. IInv => OneDrainer
  BY DEF IInv, MutexInv, OneDrainer
<1>2. QED
  BY <1>1, Invariance, PTL

(* With two JobThreads or more, no job waits for a wake-up that was lost. *)
THEOREM WakeupsAreKept == Spec => []NoLostWakeup
<1>1. IInv => NoLostWakeup
  BY DEF IInv
<1>2. QED
  BY <1>1, Invariance, PTL

LEMMA ExecuteStep == IInv /\ [Next]_vars => [executed' \in {executed, executed + 1}]_vars
<1> SUFFICES ASSUME IInv, Next PROVE executed' \in {executed, executed + 1}
  OBVIOUS
<1>1. CASE \E t \in JobThreads : ExecuteJob(t)
  BY <1>1 DEF ExecuteJob, IInv, RunInv
<1>2. CASE ~ \E t \in JobThreads : ExecuteJob(t)
  BY <1>2 DEF Next, JobThread, PushJob, DropJob, NotifyJob, NotifyWithoutJob,
              Lock, Test, Block, PopJob, Unlock, SendAnswer, SpuriousWakeup
<1> QED
  BY <1>1, <1>2

(* The JobThreads execute every job at most once and in the order in which  *)
(* the queue accepted them, whichever thread drains.                        *)
THEOREM JobsExecutedInOrder == Spec => ExecutesInOrder
BY Invariance, ExecuteStep, PTL DEF Spec, ExecutesInOrder

LEMMA SendStep == IInv /\ [Next]_vars => [answered' # answered => answered' > answered]_vars
<1> SUFFICES ASSUME IInv, Next, answered' # answered PROVE answered' > answered
  OBVIOUS
<1>1. PICK t \in JobThreads : SendAnswer(t)
  BY DEF Next, JobThread, PushJob, DropJob, NotifyJob, NotifyWithoutJob,
         Lock, Test, Block, PopJob, Unlock, ExecuteJob, SpuriousWakeup
<1>2. answered' = executed /\ answered < executed
  BY <1>1 DEF IInv, AnswerInv, SendAnswer
<1> QED
  BY <1>2 DEF IInv, TypeOK

(* The answers leave in the order in which the queue accepted the requests, *)
(* also when they are sent by different threads: a thread keeps the mutex   *)
(* while it sends.                                                          *)
THEOREM AnswersLeaveInOrder == Spec => AnswersInOrder
BY Invariance, SendStep, PTL DEF Spec, AnswersInOrder
=============================================================================
