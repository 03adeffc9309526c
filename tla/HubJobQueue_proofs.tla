-------------------------- MODULE HubJobQueue_proofs --------------------------
(***************************************************************************)
(* Proofs about HubJobQueue, for every capacity, any number of jobs and    *)
(* any set of at least two JobThreads.                                     *)
(*                                                                         *)
(* Every step of the Hub is a step of the ring, or leaves it alone, because *)
(* the mutex keeps the pops apart; so the invariant of CircleQueue_proofs   *)
(* and its refinement of the FIFO are available here.                      *)
(***************************************************************************)
EXTENDS HubJobQueue, CircleQueue_proofs

-----------------------------------------------------------------------------
(* The inductive invariant *)

Points == {"lock", "test", "block", "waiting", "drain", "pop", "execute", "send"}

\* The points at which a JobThread holds _lockJobThread.
Locked == {"test", "block", "drain", "pop", "execute", "send"}

HubTypes ==
    /\ accepted \in Nat
    /\ mutex \in Poppers \union {NoThread}
    /\ pc \in [Poppers -> Points]

MutexInv == \A t \in Poppers : pc[t] \in Locked <=> mutex = t

\* A thread is in empty-and-pop exactly while its pc says so.
PopInv == \A t \in Poppers : (pc[t] = "pop" <=> t \in sawItem) /\ (Active(t) => t \in sawItem)

\* The job being pushed is the next one, and a push ends before its notify.
PushInv ==
    /\ data # NoItem => data = accepted + 1
    /\ pushPc # "idle" => pusher = "idle"

HubInv == IInv /\ HubTypes /\ MutexInv /\ PopInv /\ PushInv

-----------------------------------------------------------------------------
(* The Hub's steps are steps of the ring *)

\* The holder of the mutex is the only thread in empty or pop.
LEMMA HolderMayPop ==
    ASSUME HubInv, NEW t \in Poppers, pc[t] \in Locked
    PROVE  MayPop(t)
BY DEF HubInv, MutexInv, PopInv, MayPop, Locked

LEMMA RingStep == HubInv /\ [HubNext]_<<ringVars, hubVars>> => [Next]_vars
<1> SUFFICES ASSUME HubInv, [HubNext]_<<ringVars, hubVars>> PROVE [Next]_vars
  OBVIOUS
<1>1. CASE StartPush
  BY <1>1, JobsAreNumbered DEF StartPush, HubInv, HubTypes, Next, Push
<1>2. CASE ContinuePush
  BY <1>2 DEF ContinuePush, Next, Push
<1>3. CASE EndPush
  BY <1>3 DEF EndPush, Next, Push
<1>4. CASE Notify \/ NotifyWithoutJob \/ UNCHANGED <<ringVars, hubVars>>
  BY <1>4 DEF Notify, NotifyWithoutJob, ringVars
<1>5. ASSUME NEW t \in Poppers, JobThread(t) \/ SpuriousWakeup(t) PROVE [Next]_vars
  <2>1. CASE SeeJob(t)
    BY <2>1 DEF SeeJob, Next, Pop
  <2>2. CASE ContinuePop(t)
    BY <2>2 DEF ContinuePop, Next, Pop
  <2>3. CASE EndPop(t)
    BY <2>3 DEF EndPop, Next, Pop
  <2>4. CASE \/ Lock(t) \/ Test(t) \/ Block(t) \/ Unlock(t)
             \/ ExecuteJob(t) \/ SendAnswer(t) \/ SpuriousWakeup(t)
    BY <2>4 DEF Lock, Test, Block, Unlock, ExecuteJob, SendAnswer, SpuriousWakeup, ringVars
  <2> QED
    BY <1>5, <2>1, <2>2, <2>3, <2>4 DEF JobThread
<1> QED
  BY <1>1, <1>2, <1>3, <1>4, <1>5 DEF HubNext

LEMMA RingInvStep == IInv /\ [Next]_vars => IInv'
BY TypeStep, OnePopperStep, PusherStep, PopperStep, ContentStep DEF IInv

-----------------------------------------------------------------------------
(* The invariant is inductive *)

LEMMA HubInitInv == HubInit => HubInv
<1> SUFFICES ASSUME HubInit PROVE HubInv
  OBVIOUS
<1>1. IInv
  BY InitInv DEF HubInit
<1>2. HubTypes
  BY DEF HubInit, HubTypes, Points
<1>3. MutexInv
  BY HubThreads DEF HubInit, MutexInv, Locked
<1>4. PopInv
  BY DEF HubInit, Init, PopInv, Active
<1>5. PushInv
  BY DEF HubInit, Init, PushInv
<1> QED
  BY <1>1, <1>2, <1>3, <1>4, <1>5 DEF HubInv

\* notify_one moves no thread into or out of the mutex, nor into pop.
LEMMA WakeOneKeeps ==
    ASSUME HubTypes, MutexInv, PopInv, WakeOne, UNCHANGED <<ringVars, mutex, accepted>>
    PROVE  HubTypes' /\ MutexInv' /\ PopInv'
<1>1. CASE UNCHANGED pc
  BY <1>1 DEF HubTypes, MutexInv, PopInv, Active, ringVars, vars, popVars
<1>2. ASSUME NEW t \in Poppers, pc[t] = "waiting", pc' = [pc EXCEPT ![t] = "lock"]
      PROVE  HubTypes' /\ MutexInv' /\ PopInv'
  BY <1>2 DEF HubTypes, MutexInv, PopInv, Active, ringVars, vars, popVars, Points, Locked
<1> QED
  BY <1>1, <1>2 DEF WakeOne

LEMMA HubTypesStep == HubInv /\ [HubNext]_<<ringVars, hubVars>> => HubTypes' /\ MutexInv' /\ PopInv'
<1> SUFFICES ASSUME HubInv, [HubNext]_<<ringVars, hubVars>> PROVE HubTypes' /\ MutexInv' /\ PopInv'
  OBVIOUS
<1> USE DEF HubInv
<1>1. CASE StartPush \/ ContinuePush
  BY <1>1 DEF StartPush, ContinuePush, CallPush, PushFindsRoom, PushWrites, hubVars, popVars,
              HubTypes, MutexInv, PopInv, Active
<1>2. CASE EndPush
  BY <1>2 DEF EndPush, PushFindsFull, PushPublishes, popVars, HubTypes, MutexInv, PopInv, Active
<1>3. CASE Notify \/ NotifyWithoutJob
  BY <1>3, WakeOneKeeps DEF Notify, NotifyWithoutJob
<1>4. CASE UNCHANGED <<ringVars, hubVars>>
  BY <1>4 DEF ringVars, vars, popVars, hubVars, HubTypes, MutexInv, PopInv, Active
<1>5. ASSUME NEW t \in Poppers, JobThread(t) \/ SpuriousWakeup(t)
      PROVE  HubTypes' /\ MutexInv' /\ PopInv'
  <2> USE DEF Move
  <2>1. CASE SeeJob(t)
    BY <2>1, HubThreads DEF SeeJob, SeeItem, IInv, TypeOK, HubTypes, MutexInv, PopInv, Active, Points, Locked
  <2>2. CASE ContinuePop(t)
    BY <2>2 DEF ContinuePop, CallPop, PopFindsItem, PopMoves, hubVars, IInv, TypeOK,
                HubTypes, MutexInv, PopInv, Active
  <2>3. CASE EndPop(t)
    BY <2>3, HubThreads DEF EndPop, PopPublishes, IInv, TypeOK, HubTypes, MutexInv, PopInv, Active, Points, Locked
  <2>4. CASE Lock(t) \/ Test(t) \/ Block(t) \/ Unlock(t) \/ ExecuteJob(t) \/ SendAnswer(t) \/ SpuriousWakeup(t)
    <3>1. UNCHANGED <<popPc, sawItem, accepted>>
      BY <2>4 DEF Lock, Test, Block, Unlock, ExecuteJob, SendAnswer, SpuriousWakeup, ringVars, vars, popVars
    <3>2. HubTypes'
      BY <2>4, <3>1 DEF Lock, Test, Block, Unlock, ExecuteJob, SendAnswer, SpuriousWakeup, HubTypes, Points
    <3>3. MutexInv'
      BY <2>4, HubThreads
         DEF Lock, Test, Block, Unlock, ExecuteJob, SendAnswer, SpuriousWakeup, HubTypes, MutexInv, Points, Locked
    <3>4. PopInv'
      BY <2>4, <3>1
         DEF Lock, Test, Block, Unlock, ExecuteJob, SendAnswer, SpuriousWakeup, HubTypes, PopInv, Active, Points
    <3> QED
      BY <3>2, <3>3, <3>4
  <2> QED
    BY <1>5, <2>1, <2>2, <2>3, <2>4 DEF JobThread
<1> QED
  BY <1>1, <1>2, <1>3, <1>4, <1>5 DEF HubNext

LEMMA PushStep == HubInv /\ [HubNext]_<<ringVars, hubVars>> => PushInv'
<1> SUFFICES ASSUME HubInv, [HubNext]_<<ringVars, hubVars>> PROVE PushInv'
  OBVIOUS
<1> USE DEF HubInv, PushInv
<1>1. CASE StartPush
  BY <1>1 DEF StartPush, CallPush, hubVars
<1>2. CASE ContinuePush
  BY <1>2 DEF ContinuePush, PushFindsRoom, PushWrites, hubVars
<1>3. CASE EndPush
  BY <1>3 DEF EndPush, PushFindsFull, PushPublishes
<1>4. CASE Notify \/ NotifyWithoutJob \/ UNCHANGED <<ringVars, hubVars>>
  BY <1>4 DEF Notify, NotifyWithoutJob, ringVars, hubVars, vars, pushVars
<1>5. ASSUME NEW t \in Poppers, JobThread(t) \/ SpuriousWakeup(t)
      PROVE  UNCHANGED <<data, pushPc, accepted, pusher>>
  <2>1. CASE SeeJob(t) \/ ContinuePop(t) \/ EndPop(t)
    BY <2>1 DEF SeeJob, ContinuePop, EndPop, SeeItem, CallPop, PopFindsItem, PopMoves, PopPublishes,
                pushVars, hubVars
  <2>2. CASE Lock(t) \/ Test(t) \/ Block(t) \/ Unlock(t) \/ ExecuteJob(t) \/ SendAnswer(t) \/ SpuriousWakeup(t)
    BY <2>2 DEF Lock, Test, Block, Unlock, ExecuteJob, SendAnswer, SpuriousWakeup, ringVars, vars, pushVars
  <2> QED
    BY <1>5, <2>1, <2>2 DEF JobThread
<1> QED
  BY <1>1, <1>2, <1>3, <1>4, <1>5 DEF HubNext

LEMMA HubInvStep == HubInv /\ [HubNext]_<<ringVars, hubVars>> => HubInv'
BY RingStep, RingInvStep, HubTypesStep, PushStep DEF HubInv

LEMMA HubInvariance == HubSpec => []HubInv
BY HubInitInv, HubInvStep, PTL DEF HubSpec

(* What CircleQueue asks of its callers holds in the Hub: the thread that    *)
(* asks empty() or pops is alone, and its pop finds an item.                 *)
THEOREM PopsAreServed == HubSpec => []PopIsServed
<1>1. HubInv => PopIsServed
  <2> SUFFICES ASSUME HubInv, NEW t \in Poppers
               PROVE  /\ pc[t] \in {"drain", "pop"} => MayPop(t)
                      /\ pc[t] = "drain" => ~Active(t)
                      /\ pc[t] = "pop" /\ popPc[t] = "check" => currentOutputIndex[t] # inputIndex
    BY DEF PopIsServed
  <2>1. pc[t] \in {"drain", "pop"} => MayPop(t)
    BY HolderMayPop DEF Locked
  <2>2. pc[t] = "drain" => ~Active(t)
    BY DEF HubInv, PopInv
  <2>3. pc[t] = "pop" /\ popPc[t] = "check" => currentOutputIndex[t] # inputIndex
    BY DEF HubInv, PopInv, IInv, PopperInv
  <2> QED
    BY <2>1, <2>2, <2>3
<1>2. QED
  BY HubInvariance, <1>1, PTL

-----------------------------------------------------------------------------
(* The ring under the mutex is the queue of JobDispatch *)

LEMMA EmptyRing == IInv => (ItemsInside = <<>> <=> inputIndex = outputIndex)
<1> SUFFICES ASSUME IInv PROVE ItemsInside = <<>> <=> inputIndex = outputIndex
  OBVIOUS
<1>1. ItemsInside \in Seq(Items) /\ Len(ItemsInside) = Size
  BY ItemsAreItems
<1>2. Size = 0 <=> inputIndex = outputIndex
  BY RingSize DEF IInv, TypeOK, Size, Slots
<1> QED
  BY <1>1, <1>2, EmptySeq

\* Each step of the ring is a step of the FIFO.
LEMMA FifoStep == IInv /\ [Next]_vars => [Fifo!Next]_(Fifo!fifoVars)
<1> SUFFICES ASSUME IInv, [Next]_vars PROVE [Fifo!Next]_(Fifo!fifoVars)
  OBVIOUS
<1>1. IInv'
  BY RingInvStep
<1>2. CASE UNCHANGED vars
  BY <1>2 DEF vars, pushVars, popVars, Fifo!fifoVars, ItemsInside, Oldest, Size
<1> QED
  BY <1>1, <1>2, PushImplements, PopImplements DEF Next

\* A step in which no push and no pop ends leaves the items inside alone.
LEMMA QuietStep ==
    ASSUME IInv, [Next]_vars, data = NoItem \/ data' # NoItem,
           \A t \in Poppers : popPc[t] # "idle" => popPc'[t] # "idle"
    PROVE  ItemsInside' = ItemsInside
BY FifoStep DEF Fifo!Next, Fifo!fifoVars, Fifo!CallPush, Fifo!PushTakesEffect, Fifo!PushFindsFull,
                Fifo!CallPop, Fifo!PopTakesEffect, Fifo!PopFindsEmpty

\* A push that publishes appends its item to the items inside.
LEMMA PublishAppends ==
    ASSUME IInv, PushPublishes
    PROVE  Len(ItemsInside) < QueueMaxSize /\ ItemsInside' = Append(ItemsInside, data)
<1>1. [Next]_vars
  BY DEF Next, Push
<1>2. /\ data # NoItem /\ data' = NoItem /\ pushed' = TRUE
      /\ UNCHANGED <<popPc, popped>>
  BY DEF PushPublishes, popVars, IInv, PusherInv
<1> QED
  BY <1>1, <1>2, FifoStep
     DEF Fifo!Next, Fifo!fifoVars, Fifo!CallPush, Fifo!PushTakesEffect, Fifo!PushFindsFull,
         Fifo!CallPop, Fifo!PopTakesEffect, Fifo!PopFindsEmpty

\* A push that finds the ring full leaves the items alone, and they are QueueMaxSize.
LEMMA FullKeeps ==
    ASSUME IInv, PushFindsFull
    PROVE  Len(ItemsInside) = QueueMaxSize /\ ItemsInside' = ItemsInside
<1>1. [Next]_vars
  BY DEF Next, Push
<1>2. /\ data # NoItem /\ data' = NoItem /\ pushed' = FALSE
      /\ UNCHANGED <<popPc, popped>>
  BY DEF PushFindsFull, popVars, IInv, PusherInv
<1> QED
  BY <1>1, <1>2, FifoStep
     DEF Fifo!Next, Fifo!fifoVars, Fifo!CallPush, Fifo!PushTakesEffect, Fifo!PushFindsFull,
         Fifo!CallPop, Fifo!PopTakesEffect, Fifo!PopFindsEmpty

\* A pop that publishes takes the oldest item and returns it.
LEMMA PublishTakesOldest ==
    ASSUME IInv, NEW t \in Poppers, PopPublishes(t)
    PROVE  /\ ItemsInside # <<>>
           /\ ItemsInside' = Tail(ItemsInside)
           /\ popped' = [popped EXCEPT ![t] = Head(ItemsInside)]
<1>1. [Next]_vars
  BY DEF Next, Pop
<1>2. /\ data' = data
      /\ popPc[t] # "idle" /\ popPc'[t] = "idle"
      /\ popped' = [popped EXCEPT ![t] = taken[t]] /\ taken[t] \in Items
  BY DEF PopPublishes, pushVars, IInv, TypeOK, PopperInv
<1>3. popped'[t] # NoItem /\ popped \in [Poppers -> Items \union {NoItem}]
  BY <1>2, NoItemIsNoItem DEF IInv, TypeOK
<1>4. PICK u \in Poppers : Fifo!PopTakesEffect(u) \/ Fifo!PopFindsEmpty(u)
  BY <1>1, <1>2, FifoStep
     DEF Fifo!Next, Fifo!fifoVars, Fifo!CallPush, Fifo!PushTakesEffect, Fifo!PushFindsFull,
         Fifo!CallPop, Fifo!PopTakesEffect, Fifo!PopFindsEmpty
<1>5. u = t
  BY <1>2, <1>4 DEF Fifo!PopTakesEffect, Fifo!PopFindsEmpty
<1> QED
  BY <1>3, <1>4, <1>5 DEF Fifo!PopTakesEffect, Fifo!PopFindsEmpty

-----------------------------------------------------------------------------
(* Each step of the Hub is a step of JobDispatch *)

\* pc as JobDispatch sees it.
DispatchPc == [t \in Poppers |-> IF pc[t] = "pop" THEN "drain" ELSE pc[t]]

LEMMA MoveImplements ==
    ASSUME HubTypes, NEW t \in Poppers, NEW from, NEW to, Move(t, from, to)
    PROVE  DispatchPc' = [DispatchPc EXCEPT ![t] = IF to = "pop" THEN "drain" ELSE to]
BY DEF HubTypes, Move, DispatchPc

LEMMA WakeOneImplements ==
    ASSUME HubTypes, WakeOne
    PROVE  \/ (\A t \in Poppers : DispatchPc[t] # "waiting") /\ DispatchPc' = DispatchPc
           \/ \E t \in Poppers : DispatchPc[t] = "waiting" /\ DispatchPc' = [DispatchPc EXCEPT ![t] = "lock"]
<1>1. CASE (\A t \in Poppers : pc[t] # "waiting") /\ UNCHANGED pc
  BY <1>1 DEF DispatchPc
<1>2. ASSUME NEW t \in Poppers, pc[t] = "waiting", pc' = [pc EXCEPT ![t] = "lock"]
      PROVE  DispatchPc[t] = "waiting" /\ DispatchPc' = [DispatchPc EXCEPT ![t] = "lock"]
  BY <1>2 DEF HubTypes, DispatchPc
<1> QED
  BY <1>1, <1>2 DEF WakeOne

LEMMA HubInitImplements == HubInit => Dispatch!Init
<1> SUFFICES ASSUME HubInit PROVE Dispatch!Init
  OBVIOUS
<1>1. ItemsInside = <<>>
  BY InitInv, EmptyRing DEF HubInit, Init
<1>2. popped = [t \in Poppers |-> 0]
  BY JobsAreNumbered DEF HubInit, Init
<1> QED
  BY <1>1, <1>2 DEF HubInit, Dispatch!Init

LEMMA PushingImplements ==
    ASSUME HubInv, StartPush \/ ContinuePush \/ EndPush
    PROVE  [Dispatch!Next]_(Dispatch!vars)
<1> USE DEF HubInv
<1>1. CASE StartPush \/ ContinuePush
  <2>1. [Next]_vars
    BY <1>1, RingStep DEF HubNext
  <2>2. data' # NoItem /\ UNCHANGED <<popPc, popped>>
    BY <1>1, JobsAreNumbered
       DEF StartPush, ContinuePush, CallPush, PushFindsRoom, PushWrites, popVars, HubTypes, IInv, PusherInv
  <2>3. ItemsInside' = ItemsInside
    BY <2>1, <2>2, QuietStep
  <2> QED
    BY <1>1, <2>2, <2>3 DEF StartPush, ContinuePush, hubVars, Dispatch!vars
<1>2. CASE EndPush /\ PushPublishes
  <2>1. data = accepted + 1 /\ accepted + 1 \in 1 .. MaxJobs /\ pusher = "idle"
    BY <1>2, JobsAreNumbered DEF PushPublishes, PushInv, IInv, TypeOK, PusherInv
  <2>2. popped' = popped
    BY <1>2 DEF PushPublishes, popVars
  <2>3. accepted < MaxJobs
    BY <2>1, JobsAreNumbered DEF HubTypes
  <2>4. accepted' = accepted + 1
    BY <1>2 DEF EndPush, PushFindsFull, PushPublishes
  <2> QED
    BY <1>2, <2>1, <2>2, <2>3, <2>4, PublishAppends DEF EndPush, Dispatch!Next, Dispatch!PushJob
<1>3. CASE EndPush /\ PushFindsFull
  <2>1. pusher = "idle" /\ popped' = popped
    BY <1>3 DEF PushFindsFull, PushInv, popVars
  <2>2. accepted' = accepted
    BY <1>3 DEF EndPush, PushFindsFull, PushPublishes
  <2> QED
    BY <1>3, <2>1, <2>2, FullKeeps DEF EndPush, Dispatch!Next, Dispatch!DropJob
<1> QED
  BY <1>1, <1>2, <1>3 DEF EndPush

LEMMA NotifyImplements ==
    ASSUME HubInv, Notify \/ NotifyWithoutJob
    PROVE  Dispatch!Next
<1>1. ItemsInside' = ItemsInside /\ popped' = popped
  BY DEF Notify, NotifyWithoutJob, ringVars, vars, popVars, ItemsInside, Oldest, Size
<1> QED
  BY <1>1, WakeOneImplements
     DEF HubInv, Notify, NotifyWithoutJob, DispatchPc,
         Dispatch!Next, Dispatch!NotifyJob, Dispatch!NotifyWithoutJob, Dispatch!WakeOne

LEMMA JobThreadImplements ==
    ASSUME HubInv, NEW t \in Poppers, JobThread(t) \/ SpuriousWakeup(t)
    PROVE  [Dispatch!Next]_(Dispatch!vars)
<1> USE DEF HubInv
<1> DEFINE dpc == DispatchPc
<1>1. ASSUME UNCHANGED ringVars PROVE ItemsInside' = ItemsInside /\ popped' = popped
  BY <1>1 DEF ringVars, vars, popVars, ItemsInside, Oldest, Size
<1>2. dpc[t] = IF pc[t] = "pop" THEN "drain" ELSE pc[t]
  BY DEF DispatchPc
<1>3. CASE SeeJob(t) \/ ContinuePop(t)
  <2>1. [Next]_vars
    BY <1>3, RingStep DEF HubNext, JobThread
  <2>2. data' = data /\ popped' = popped /\ UNCHANGED <<accepted, pusher, mutex, executed, answered>>
    BY <1>3 DEF SeeJob, ContinuePop, SeeItem, CallPop, PopFindsItem, PopMoves, pushVars, hubVars
  <2>3. \A u \in Poppers : popPc[u] # "idle" => popPc'[u] # "idle"
    BY <1>3 DEF SeeJob, ContinuePop, SeeItem, CallPop, PopFindsItem, PopMoves, IInv, TypeOK
  <2>4. ItemsInside' = ItemsInside
    BY <2>1, <2>2, <2>3, QuietStep
  <2>5. dpc' = dpc
    BY <1>3 DEF SeeJob, ContinuePop, hubVars, DispatchPc, Move, HubTypes
  <2> QED
    BY <2>2, <2>4, <2>5 DEF Dispatch!vars, DispatchPc
<1>4. CASE EndPop(t)
  <2>1. dpc[t] = "drain" /\ dpc' = [dpc EXCEPT ![t] = "execute"]
    BY <1>2, <1>4, MoveImplements DEF EndPop, Move
  <2> QED
    BY <1>4, <2>1, PublishTakesOldest
       DEF EndPop, DispatchPc, Dispatch!Next, Dispatch!JobThread, Dispatch!PopJob, Dispatch!Goto
<1>5. CASE Lock(t)
  <2>1. dpc[t] = "lock" /\ dpc' = [dpc EXCEPT ![t] = "test"]
    BY <1>2, <1>5, MoveImplements DEF Lock, Move
  <2> QED
    BY <1>1, <1>5, <2>1 DEF Lock, DispatchPc, Dispatch!Next, Dispatch!JobThread, Dispatch!Lock, Dispatch!Goto
<1>6. CASE Test(t)
  <2>1. dpc[t] = "test" /\ dpc' = [dpc EXCEPT ![t] = IF ItemsInside = <<>> THEN "block" ELSE "drain"]
    BY <1>2, <1>6, MoveImplements, EmptyRing DEF Test, Move
  <2> QED
    BY <1>1, <1>6, <2>1 DEF Test, DispatchPc, Dispatch!Next, Dispatch!JobThread, Dispatch!Test, Dispatch!Goto
<1>7. CASE Block(t)
  <2>1. dpc[t] = "block" /\ dpc' = [dpc EXCEPT ![t] = "waiting"]
    BY <1>2, <1>7, MoveImplements DEF Block, Move
  <2> QED
    BY <1>1, <1>7, <2>1 DEF Block, DispatchPc, Dispatch!Next, Dispatch!JobThread, Dispatch!Block, Dispatch!Goto
<1>8. CASE SpuriousWakeup(t)
  <2>1. dpc[t] = "waiting" /\ dpc' = [dpc EXCEPT ![t] = "lock"]
    BY <1>2, <1>8, MoveImplements DEF SpuriousWakeup, Move
  <2> QED
    BY <1>1, <1>8, <2>1 DEF SpuriousWakeup, DispatchPc, Dispatch!Next, Dispatch!SpuriousWakeup, Dispatch!Goto
<1>9. CASE Unlock(t)
  <2>1. dpc[t] = "drain" /\ dpc' = [dpc EXCEPT ![t] = "lock"] /\ ItemsInside = <<>>
    BY <1>2, <1>9, MoveImplements, EmptyRing DEF Unlock, Move
  <2> QED
    BY <1>1, <1>9, <2>1 DEF Unlock, DispatchPc, Dispatch!Next, Dispatch!JobThread, Dispatch!Unlock, Dispatch!Goto
<1>10. CASE ExecuteJob(t)
  <2>1. PICK isSend \in BOOLEAN : Move(t, "execute", IF isSend THEN "send" ELSE "drain")
    BY <1>10 DEF ExecuteJob
  <2>2. dpc[t] = "execute" /\ dpc' = [dpc EXCEPT ![t] = IF isSend THEN "send" ELSE "drain"]
    BY <1>2, <2>1, MoveImplements DEF Move
  <2> QED
    BY <1>1, <1>10, <2>2
       DEF ExecuteJob, DispatchPc, Dispatch!Next, Dispatch!JobThread, Dispatch!ExecuteJob, Dispatch!Goto
<1>11. CASE SendAnswer(t)
  <2>1. dpc[t] = "send" /\ dpc' = [dpc EXCEPT ![t] = "drain"]
    BY <1>2, <1>11, MoveImplements DEF SendAnswer, Move
  <2> QED
    BY <1>1, <1>11, <2>1
       DEF SendAnswer, DispatchPc, Dispatch!Next, Dispatch!JobThread, Dispatch!SendAnswer, Dispatch!Goto
<1> QED
  BY <1>3, <1>4, <1>5, <1>6, <1>7, <1>8, <1>9, <1>10, <1>11 DEF JobThread

(* The JobThreads, the mutex, the condition variable and the ring, access by *)
(* access, implement JobDispatch, whose queue is atomic: what is proved      *)
(* there of jobs, answers and wake-ups holds of the code's own queue.        *)
THEOREM HubImplementsDispatch == HubSpec => ImplementsDispatch
<1>1. HubInv /\ [HubNext]_<<ringVars, hubVars>> => [Dispatch!Next]_(Dispatch!vars)
  <2> SUFFICES ASSUME HubInv, [HubNext]_<<ringVars, hubVars>> PROVE [Dispatch!Next]_(Dispatch!vars)
    OBVIOUS
  <2>1. CASE UNCHANGED <<ringVars, hubVars>>
    BY <2>1 DEF ringVars, hubVars, vars, popVars, ItemsInside, Oldest, Size, Dispatch!vars
  <2> QED
    BY <2>1, PushingImplements, NotifyImplements, JobThreadImplements DEF HubNext
<1>2. QED
  BY <1>1, HubInitImplements, HubInvariance, PTL DEF HubSpec, ImplementsDispatch, Dispatch!Spec

-----------------------------------------------------------------------------
(* What is proved of JobDispatch, of the ring *)

\* Dispatch, with the theorems about it.
Proved == INSTANCE JobDispatch_proofs WITH
    JobThreads <- Poppers,
    jobQueue   <- ItemsInside,
    pc         <- [t \in Poppers |-> IF pc[t] = "pop" THEN "drain" ELSE pc[t]],
    job        <- popped

LEMMA HubIsDispatch == HubSpec => Proved!Spec
<1>1. Dispatch!Init => Proved!Init
  BY DEF Dispatch!Init, Proved!Init
<1>2. [Dispatch!Next]_(Dispatch!vars) => [Proved!Next]_(Proved!vars)
  BY DEF Dispatch!Next, Dispatch!vars, Dispatch!Goto, Dispatch!WakeOne, Dispatch!PushJob, Dispatch!DropJob,
         Dispatch!NotifyJob, Dispatch!NotifyWithoutJob, Dispatch!SpuriousWakeup, Dispatch!JobThread,
         Dispatch!Lock, Dispatch!Test, Dispatch!Block, Dispatch!PopJob, Dispatch!Unlock,
         Dispatch!ExecuteJob, Dispatch!SendAnswer,
         Proved!Next, Proved!vars, Proved!Goto, Proved!WakeOne, Proved!PushJob, Proved!DropJob,
         Proved!NotifyJob, Proved!NotifyWithoutJob, Proved!SpuriousWakeup, Proved!JobThread,
         Proved!Lock, Proved!Test, Proved!Block, Proved!PopJob, Proved!Unlock,
         Proved!ExecuteJob, Proved!SendAnswer
<1> QED
  BY <1>1, <1>2, HubImplementsDispatch, PTL DEF ImplementsDispatch, Dispatch!Spec, Proved!Spec

\* The JobThreads over the real ring, one access at a time: one of them drains, no
\* wake-up is lost, and jobs are executed and answered in the order of their push.
THEOREM RingIsDispatched ==
    HubSpec => /\ []Dispatch!OneDrainer
               /\ []Dispatch!NoLostWakeup
               /\ Dispatch!ExecutesInOrder
               /\ Dispatch!AnswersInOrder
<1>1. /\ \E t, u \in Poppers : t # u
      /\ NoThread \notin Poppers
      /\ QueueMaxSize \in Nat /\ MaxJobs \in Nat
  BY HubThreads, JobsAreNumbered, QueueMaxSizeIsPositive
<1>2. Proved!Spec => []Proved!OneDrainer
  BY <1>1, Proved!DrainsAreExclusive
<1>3. Proved!Spec => []Proved!NoLostWakeup
  BY <1>1, Proved!WakeupsAreKept
<1>4. Proved!Spec => Proved!ExecutesInOrder
  BY <1>1, Proved!JobsExecutedInOrder
<1>5. Proved!Spec => Proved!AnswersInOrder
  BY <1>1, Proved!AnswersLeaveInOrder
<1>6. Proved!OneDrainer => Dispatch!OneDrainer
  BY DEF Proved!OneDrainer, Proved!Locked, Dispatch!OneDrainer, Dispatch!Locked
<1>7. Proved!NoLostWakeup => Dispatch!NoLostWakeup
  BY DEF Proved!NoLostWakeup, Dispatch!NoLostWakeup
<1>8. Proved!ExecutesInOrder => Dispatch!ExecutesInOrder
  BY PTL DEF Proved!ExecutesInOrder, Dispatch!ExecutesInOrder, Proved!vars, Dispatch!vars
<1>9. Proved!AnswersInOrder => Dispatch!AnswersInOrder
  BY PTL DEF Proved!AnswersInOrder, Dispatch!AnswersInOrder, Proved!vars, Dispatch!vars
<1> QED
  BY HubIsDispatch, <1>2, <1>3, <1>4, <1>5, <1>6, <1>7, <1>8, <1>9, PTL
=============================================================================
