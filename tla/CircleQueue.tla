----------------------------- MODULE CircleQueue -----------------------------
(***************************************************************************)
(* Utility::LockFreeCircleQueue, one atomic access per step.               *)
(*                                                                         *)
(* Every instance of the queue in the servers has one pushing thread: the  *)
(* thread in ProcessCompletionHandler for the packet queue, the overlapped *)
(* pool and the Lobby's job queue, the ReceiveThread for the Control       *)
(* server's job queue.  The packet queue is popped by the one              *)
(* ReceiveThread, a job queue by several JobThreads that hold              *)
(* _lockJobThread.  This module is that use: one pusher, and poppers one   *)
(* at a time.  (The overlapped pool, popped by several threads under no    *)
(* lock, is modelled in OverlappedPool.)                                   *)
(*                                                                         *)
(* Indices are read with acquire and written with release, each index is   *)
(* written by one side only and grows, so a load answers what the index is *)
(* or what it was a moment before.  The interleaved accesses have the old  *)
(* answers that come of the gap between load and use; a load that is late  *)
(* on both sides at once, which makes the ring look full or empty a little *)
(* longer, is not among them.                                              *)
(***************************************************************************)
EXTENDS Integers, Sequences

CONSTANTS
    QueueMaxSize,   \* the argument of Construct; one slot more is allocated
    Items,          \* values of T
    NoItem,         \* T(): a null pointer
    Poppers,        \* the threads that pop
    MoveEmptiesSlot \* TRUE when T is a shared_ptr, FALSE when it is a raw pointer

ASSUME QueueMaxSizeIsPositive == QueueMaxSize \in Nat \ {0}
ASSUME NoItemIsNoItem == NoItem \notin Items
ASSUME MoveEmptiesSlotIsBoolean == MoveEmptiesSlot \in BOOLEAN

VARIABLES
    inputIndex,     \* _inputIndex
    outputIndex,    \* _outputIndex
    buffer,         \* _buffer
    pushPc,         \* where the pusher is in push
    data,           \* the parameter of push
    currentInputIndex,
    pushed,         \* what the last push returned
    popPc,          \* where each popper is in pop
    currentOutputIndex,
    taken,          \* the local "data" of pop
    sawItem,        \* the poppers that pop because empty() answered false
    popped          \* what the last pop of each thread returned

pushVars == <<pushPc, data, currentInputIndex, pushed>>
popVars  == <<popPc, currentOutputIndex, taken, sawItem, popped>>
vars     == <<inputIndex, outputIndex, buffer, pushVars, popVars>>

\* The value Construct gives to the member _queueMaxSize.
queueMaxSize == QueueMaxSize + 1

Slots == 0 .. queueMaxSize - 1

\* Mutant of After: the index is not taken modulo the size of the ring.
AfterWithoutWrap(i) == i + 1

\* The index that follows i in the ring.
After(i) == (i + 1) % queueMaxSize

\* size(): the number of items between the two indices.
Size ==
    IF inputIndex >= outputIndex
    THEN inputIndex - outputIndex
    ELSE queueMaxSize - outputIndex + inputIndex

\* A thread is between its empty() or the start of its pop and the return.
Active(t) == popPc[t] # "idle" \/ t \in sawItem

Init ==
    /\ inputIndex = 0
    /\ outputIndex = 0
    /\ buffer = [i \in Slots |-> NoItem]
    /\ pushPc = "idle"
    /\ data = NoItem
    /\ currentInputIndex = 0
    /\ pushed = TRUE
    /\ popPc = [t \in Poppers |-> "idle"]
    /\ currentOutputIndex = [t \in Poppers |-> 0]
    /\ taken = [t \in Poppers |-> NoItem]
    /\ sawItem = {}
    /\ popped = [t \in Poppers |-> NoItem]

-----------------------------------------------------------------------------
(* push *)

CallPush(x) ==
    /\ pushPc = "idle"
    /\ pushPc' = "check"
    /\ data' = x
    /\ currentInputIndex' = inputIndex
    /\ UNCHANGED <<inputIndex, outputIndex, buffer, pushed, popVars>>

\* Mutant of PushFindsFull: a push refuses an item when one slot is still free.
PushFindsFullEarly ==
    /\ pushPc = "check"
    /\ After(After(currentInputIndex)) = outputIndex
    /\ pushPc' = "idle"
    /\ data' = NoItem
    /\ pushed' = FALSE
    /\ UNCHANGED <<inputIndex, outputIndex, buffer, currentInputIndex, popVars>>

\* The only load of _outputIndex a push makes.
PushFindsFull ==
    /\ pushPc = "check"
    /\ After(currentInputIndex) = outputIndex
    /\ pushPc' = "idle"
    /\ data' = NoItem
    /\ pushed' = FALSE
    /\ UNCHANGED <<inputIndex, outputIndex, buffer, currentInputIndex, popVars>>

\* Mutant of PushFindsRoom: a full ring is written over.
PushFindsRoomAlways ==
    /\ pushPc = "check"
    /\ pushPc' = "write"
    /\ UNCHANGED <<inputIndex, outputIndex, buffer, data, currentInputIndex, pushed, popVars>>

PushFindsRoom ==
    /\ pushPc = "check"
    /\ After(currentInputIndex) # outputIndex
    /\ pushPc' = "write"
    /\ UNCHANGED <<inputIndex, outputIndex, buffer, data, currentInputIndex, pushed, popVars>>

\* Mutant of PushWrites: the index is advanced before the slot is written.
PushWritesTooLate ==
    /\ pushPc = "write"
    /\ pushPc' = "publish"
    /\ UNCHANGED <<inputIndex, outputIndex, buffer, data, currentInputIndex, pushed, popVars>>

PushWrites ==
    /\ pushPc = "write"
    /\ buffer' = [buffer EXCEPT ![currentInputIndex] = data]
    /\ pushPc' = "publish"
    /\ UNCHANGED <<inputIndex, outputIndex, data, currentInputIndex, pushed, popVars>>

PushPublishes ==
    /\ pushPc = "publish"
    /\ inputIndex' = After(currentInputIndex)
    /\ pushPc' = "idle"
    /\ data' = NoItem
    /\ pushed' = TRUE
    /\ UNCHANGED <<outputIndex, buffer, currentInputIndex, popVars>>

-----------------------------------------------------------------------------
(* pop, and the empty() that JobThread and ReceiveThread ask first *)

\* No other thread is popping: the callers are one thread or share a mutex.
MayPop(t) == \A u \in Poppers \ {t} : ~Active(u)

SeeItem(t) ==
    /\ MayPop(t)
    /\ ~Active(t)
    /\ inputIndex # outputIndex
    /\ sawItem' = sawItem \union {t}
    /\ UNCHANGED <<inputIndex, outputIndex, buffer, pushVars,
                   popPc, currentOutputIndex, taken, popped>>

CallPop(t) ==
    /\ MayPop(t)
    /\ popPc[t] = "idle"
    /\ popPc' = [popPc EXCEPT ![t] = "check"]
    /\ currentOutputIndex' = [currentOutputIndex EXCEPT ![t] = outputIndex]
    /\ UNCHANGED <<inputIndex, outputIndex, buffer, pushVars, taken, sawItem, popped>>

\* The only load of _inputIndex a pop makes.
PopFindsEmpty(t) ==
    /\ popPc[t] = "check"
    /\ currentOutputIndex[t] = inputIndex
    /\ popPc' = [popPc EXCEPT ![t] = "idle"]
    /\ popped' = [popped EXCEPT ![t] = NoItem]
    /\ sawItem' = sawItem \ {t}
    /\ UNCHANGED <<inputIndex, outputIndex, buffer, pushVars, currentOutputIndex, taken>>

PopFindsItem(t) ==
    /\ popPc[t] = "check"
    /\ currentOutputIndex[t] # inputIndex
    /\ popPc' = [popPc EXCEPT ![t] = "move"]
    /\ UNCHANGED <<inputIndex, outputIndex, buffer, pushVars,
                   currentOutputIndex, taken, sawItem, popped>>

\* data = std::move(_buffer[currentOutputIndex])
PopMoves(t) ==
    /\ popPc[t] = "move"
    /\ taken' = [taken EXCEPT ![t] = buffer[currentOutputIndex[t]]]
    /\ buffer' = [buffer EXCEPT ![currentOutputIndex[t]] = IF MoveEmptiesSlot THEN NoItem ELSE @]
    /\ popPc' = [popPc EXCEPT ![t] = "publish"]
    /\ UNCHANGED <<inputIndex, outputIndex, pushVars, currentOutputIndex, sawItem, popped>>

PopPublishes(t) ==
    /\ popPc[t] = "publish"
    /\ outputIndex' = After(currentOutputIndex[t])
    /\ popPc' = [popPc EXCEPT ![t] = "idle"]
    /\ popped' = [popped EXCEPT ![t] = taken[t]]
    /\ sawItem' = sawItem \ {t}
    /\ UNCHANGED <<inputIndex, buffer, pushVars, currentOutputIndex, taken>>

-----------------------------------------------------------------------------

Push ==
    \/ \E x \in Items : CallPush(x)
    \/ PushFindsFull
    \/ PushFindsRoom
    \/ PushWrites
    \/ PushPublishes

Pop(t) ==
    \/ SeeItem(t)
    \/ CallPop(t)
    \/ PopFindsEmpty(t)
    \/ PopFindsItem(t)
    \/ PopMoves(t)
    \/ PopPublishes(t)

Next == Push \/ \E t \in Poppers : Pop(t)

Spec == Init /\ [][Next]_vars

-----------------------------------------------------------------------------
(* Properties *)

TypeOK ==
    /\ inputIndex \in Slots
    /\ outputIndex \in Slots
    /\ buffer \in [Slots -> Items \union {NoItem}]
    /\ pushPc \in {"idle", "check", "write", "publish"}
    /\ data \in Items \union {NoItem}
    /\ currentInputIndex \in Slots
    /\ pushed \in BOOLEAN
    /\ popPc \in [Poppers -> {"idle", "check", "move", "publish"}]
    /\ currentOutputIndex \in [Poppers -> Slots]
    /\ taken \in [Poppers -> Items \union {NoItem}]
    /\ sawItem \subseteq Poppers
    /\ popped \in [Poppers -> Items \union {NoItem}]

(* The slot a push writes is never the slot a pop moves an item out of: the *)
(* two index loads keep the non-atomic accesses to _buffer apart.           *)
NoSlotRace ==
    \A t \in Poppers :
        ~(pushPc = "write" /\ popPc[t] = "move" /\ currentInputIndex = currentOutputIndex[t])

(* A thread that saw empty() answer false gets an item: JobThread and       *)
(* ReceiveThread dereference what pop returns without testing it.           *)
CheckedPopReturnsItem ==
    [][\A t \in Poppers : t \in sawItem /\ t \notin sawItem' => popped'[t] # NoItem]_vars

-----------------------------------------------------------------------------
(* The queue implements BoundedFifo.  Its items are the slots from          *)
(* _outputIndex on, as print() lists them; while a pop has moved the oldest *)
(* item out and not yet advanced _outputIndex, that item is in "taken".     *)

\* The slot of the k-th item when the oldest one is in slot o.
SlotFrom(o, k) == (o + k - 1) % queueMaxSize

Oldest ==
    IF \E t \in Poppers : popPc[t] = "publish"
    THEN taken[CHOOSE t \in Poppers : popPc[t] = "publish"]
    ELSE buffer[outputIndex]

ItemsInside == [k \in 1 .. Size |-> IF k = 1 THEN Oldest ELSE buffer[SlotFrom(outputIndex, k)]]

Fifo == INSTANCE BoundedFifo WITH
    Capacity <- QueueMaxSize,
    queue    <- ItemsInside,
    offered  <- data,
    popping  <- {t \in Poppers : popPc[t] # "idle"}

(* Every behaviour of the ring buffer is a behaviour of the bounded FIFO:   *)
(* nothing is lost, doubled or reordered, push fails only on a full queue   *)
(* and pop answers T() only on an empty one.                                *)
ImplementsFifo == Fifo!Spec
=============================================================================
