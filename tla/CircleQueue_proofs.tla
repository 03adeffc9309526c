-------------------------- MODULE CircleQueue_proofs --------------------------
(***************************************************************************)
(* Proofs about CircleQueue, for every capacity, every set of items, every *)
(* set of popping threads and both kinds of T.                             *)
(***************************************************************************)
EXTENDS CircleQueue, SequenceTheorems, TLAPS

-----------------------------------------------------------------------------
(* The inductive invariant *)

\* At most one thread is popping.
OnePopper == \A t, u \in Poppers : Active(t) /\ Active(u) => t = u

\* Slot i holds an item: it lies from _outputIndex up to _inputIndex.
Filled(i) ==
    IF outputIndex <= inputIndex
    THEN outputIndex <= i /\ i < inputIndex
    ELSE outputIndex <= i \/ i < inputIndex

\* Some pop has moved the oldest item out and not yet advanced _outputIndex.
MovedOut == \E t \in Poppers : popPc[t] = "publish"

\* What the pusher knows at each point of push.
PusherInv ==
    /\ pushPc = "idle" <=> data = NoItem
    /\ pushPc # "idle" => currentInputIndex = inputIndex
    /\ pushPc \in {"write", "publish"} => After(inputIndex) # outputIndex
    /\ pushPc = "publish" => buffer[inputIndex] = data

\* What each popper knows at each point of pop.
PopperInv ==
    \A t \in Poppers :
        /\ popPc[t] # "idle" => currentOutputIndex[t] = outputIndex
        /\ popPc[t] \in {"move", "publish"} => inputIndex # outputIndex
        /\ t \in sawItem => inputIndex # outputIndex
        /\ popPc[t] = "publish" => taken[t] \in Items

\* The filled slots hold items, but for the one a pop has moved out.
ContentInv ==
    \A i \in Slots : Filled(i) /\ ~(i = outputIndex /\ MovedOut) => buffer[i] \in Items

IInv == TypeOK /\ OnePopper /\ PusherInv /\ PopperInv /\ ContentInv

-----------------------------------------------------------------------------
(* Arithmetic of the ring *)

LEMMA RingSize == queueMaxSize \in Nat /\ queueMaxSize >= 2
BY QueueMaxSizeIsPositive DEF queueMaxSize

\* The remainder of a number below twice the ring's size.
LEMMA RingRemainder ==
    ASSUME NEW x \in Nat, x < 2 * queueMaxSize
    PROVE  x % queueMaxSize = IF x < queueMaxSize THEN x ELSE x - queueMaxSize
<1>1. CASE x < queueMaxSize
  BY <1>1, RingSize
<1>2. CASE x >= queueMaxSize
  BY <1>2, RingSize
<1> QED
  BY <1>1, <1>2, RingSize

\* The index after i is i + 1, or 0 at the end of the ring.
LEMMA AfterInRing ==
    ASSUME NEW i \in Slots
    PROVE  /\ After(i) \in Slots
           /\ After(i) = IF i + 1 = queueMaxSize THEN 0 ELSE i + 1
           /\ After(i) # i
<1>1. PICK x \in Nat : x = i + 1 /\ x < 2 * queueMaxSize
  BY RingSize DEF Slots
<1>2. x % queueMaxSize = IF x < queueMaxSize THEN x ELSE x - queueMaxSize
  BY <1>1, RingRemainder
<1>3. After(i) = x % queueMaxSize
  BY <1>1 DEF After
<1> QED
  BY <1>1, <1>2, <1>3, RingSize DEF Slots
-----------------------------------------------------------------------------
(* The invariant is inductive *)

LEMMA InitInv == Init => IInv
<1> SUFFICES ASSUME Init PROVE IInv
  OBVIOUS
<1>1. 0 \in Slots
  BY RingSize DEF Slots
<1>2. TypeOK
  BY <1>1 DEF Init, TypeOK
<1>3. OnePopper
  BY DEF Init, OnePopper, Active
<1>4. PusherInv
  BY DEF Init, PusherInv
<1>5. PopperInv
  BY DEF Init, PopperInv
<1>6. ContentInv
  BY DEF Init, ContentInv, Filled, Slots
<1> QED
  BY <1>2, <1>3, <1>4, <1>5, <1>6 DEF IInv

LEMMA TypeStep == TypeOK /\ [Next]_vars => TypeOK'
<1> SUFFICES ASSUME TypeOK, [Next]_vars PROVE TypeOK'
  OBVIOUS
<1> USE NoItemIsNoItem DEF TypeOK, pushVars, popVars
<1>1. ASSUME NEW x \in Items, CallPush(x) PROVE TypeOK'
  BY <1>1 DEF CallPush
<1>2. CASE PushFindsFull
  BY <1>2 DEF PushFindsFull
<1>3. CASE PushFindsRoom
  BY <1>3 DEF PushFindsRoom
<1>4. CASE PushWrites
  BY <1>4 DEF PushWrites
<1>5. CASE PushPublishes
  BY <1>5, AfterInRing DEF PushPublishes
<1>6. ASSUME NEW t \in Poppers, SeeItem(t) PROVE TypeOK'
  BY <1>6 DEF SeeItem
<1>7. ASSUME NEW t \in Poppers, CallPop(t) PROVE TypeOK'
  BY <1>7 DEF CallPop
<1>8. ASSUME NEW t \in Poppers, PopFindsEmpty(t) PROVE TypeOK'
  BY <1>8 DEF PopFindsEmpty
<1>9. ASSUME NEW t \in Poppers, PopFindsItem(t) PROVE TypeOK'
  BY <1>9 DEF PopFindsItem
<1>10. ASSUME NEW t \in Poppers, PopMoves(t) PROVE TypeOK'
  BY <1>10 DEF PopMoves
<1>11. ASSUME NEW t \in Poppers, PopPublishes(t) PROVE TypeOK'
  BY <1>11, AfterInRing DEF PopPublishes
<1>12. CASE UNCHANGED vars
  BY <1>12 DEF vars
<1> QED
  BY <1>1, <1>2, <1>3, <1>4, <1>5, <1>6, <1>7, <1>8, <1>9, <1>10, <1>11, <1>12
     DEF Next, Push, Pop

\* The type invariant, for every value of the constants.
THEOREM TypeCorrect == Spec => []TypeOK
<1>1. Init => TypeOK
  BY InitInv DEF IInv
<1>2. QED
  BY <1>1, TypeStep, PTL DEF Spec

LEMMA OnePopperStep == IInv /\ [Next]_vars => OnePopper'
<1> SUFFICES ASSUME IInv, [Next]_vars PROVE OnePopper'
  OBVIOUS
<1> USE DEF IInv, TypeOK, OnePopper, Active, MayPop, pushVars, popVars
<1>1. CASE Push
  BY <1>1 DEF Push, CallPush, PushFindsFull, PushFindsRoom, PushWrites, PushPublishes
<1>2. ASSUME NEW t \in Poppers, Pop(t) PROVE OnePopper'
  <2>1. CASE SeeItem(t)
    BY <2>1 DEF SeeItem
  <2>2. CASE CallPop(t)
    BY <2>2 DEF CallPop
  <2>3. CASE PopFindsEmpty(t)
    BY <2>3 DEF PopFindsEmpty
  <2>4. CASE PopFindsItem(t)
    BY <2>4 DEF PopFindsItem
  <2>5. CASE PopMoves(t)
    BY <2>5 DEF PopMoves
  <2>6. CASE PopPublishes(t)
    BY <2>6 DEF PopPublishes
  <2> QED
    BY <1>2, <2>1, <2>2, <2>3, <2>4, <2>5, <2>6 DEF Pop
<1>3. CASE UNCHANGED vars
  BY <1>3 DEF vars
<1> QED
  BY <1>1, <1>2, <1>3 DEF Next

LEMMA PusherStep == IInv /\ [Next]_vars => PusherInv'
<1> SUFFICES ASSUME IInv, [Next]_vars PROVE PusherInv'
  OBVIOUS
<1> USE NoItemIsNoItem DEF IInv, TypeOK, PusherInv, pushVars, popVars
<1>1. ASSUME NEW x \in Items, CallPush(x) PROVE PusherInv'
  BY <1>1 DEF CallPush
<1>2. CASE PushFindsFull
  BY <1>2 DEF PushFindsFull
<1>3. CASE PushFindsRoom
  BY <1>3 DEF PushFindsRoom, After
<1>4. CASE PushWrites
  BY <1>4 DEF PushWrites, After
<1>5. CASE PushPublishes
  BY <1>5 DEF PushPublishes
<1>6. ASSUME NEW t \in Poppers, Pop(t) PROVE PusherInv'
  <2>1. CASE SeeItem(t)
    BY <2>1 DEF SeeItem, After
  <2>2. CASE CallPop(t)
    BY <2>2 DEF CallPop, After
  <2>3. CASE PopFindsEmpty(t)
    BY <2>3 DEF PopFindsEmpty, After
  <2>4. CASE PopFindsItem(t)
    BY <2>4 DEF PopFindsItem, After
  <2>5. CASE PopMoves(t)
    \* The slot the pop moves from is the oldest filled one, never the slot being pushed.
    <3>1. currentOutputIndex[t] = outputIndex /\ inputIndex # outputIndex
      BY <2>5 DEF PopMoves, PopperInv
    <3>2. buffer'[inputIndex] = buffer[inputIndex]
      BY <2>5, <3>1 DEF PopMoves
    <3> QED
      BY <2>5, <3>2 DEF PopMoves, After
  <2>6. CASE PopPublishes(t)
    \* Advancing _outputIndex past a filled slot leaves the slot after _inputIndex free.
    <3>1. outputIndex' = After(outputIndex) /\ inputIndex # outputIndex
      BY <2>6 DEF PopPublishes, PopperInv
    <3>2. After(inputIndex) # After(outputIndex)
      <4>1. After(inputIndex) = IF inputIndex + 1 = queueMaxSize THEN 0 ELSE inputIndex + 1
        BY AfterInRing
      <4>2. After(outputIndex) = IF outputIndex + 1 = queueMaxSize THEN 0 ELSE outputIndex + 1
        BY AfterInRing
      <4> QED
        BY <3>1, <4>1, <4>2, RingSize DEF Slots
    <3> QED
      BY <2>6, <3>1, <3>2 DEF PopPublishes, After
  <2> QED
    BY <1>6, <2>1, <2>2, <2>3, <2>4, <2>5, <2>6 DEF Pop
<1>7. CASE UNCHANGED vars
  BY <1>7 DEF vars, After
<1> QED
  BY <1>1, <1>2, <1>3, <1>4, <1>5, <1>6, <1>7 DEF Next, Push

LEMMA PopperStep == IInv /\ [Next]_vars => PopperInv'
<1> SUFFICES ASSUME IInv, [Next]_vars, NEW u \in Poppers
             PROVE /\ popPc'[u] # "idle" => currentOutputIndex'[u] = outputIndex'
                   /\ popPc'[u] \in {"move", "publish"} => inputIndex' # outputIndex'
                   /\ u \in sawItem' => inputIndex' # outputIndex'
                   /\ popPc'[u] = "publish" => taken'[u] \in Items
  BY DEF PopperInv
<1> DEFINE P == /\ popPc'[u] # "idle" => currentOutputIndex'[u] = outputIndex'
                /\ popPc'[u] \in {"move", "publish"} => inputIndex' # outputIndex'
                /\ u \in sawItem' => inputIndex' # outputIndex'
                /\ popPc'[u] = "publish" => taken'[u] \in Items
<1> USE DEF IInv, TypeOK, PopperInv, pushVars, popVars
<1>1. CASE Push /\ ~PushPublishes
  BY <1>1 DEF Push, CallPush, PushFindsFull, PushFindsRoom, PushWrites
<1>2. CASE PushPublishes
  \* There was room, so the ring does not become empty.
  <2>1. inputIndex' # outputIndex'
    BY <1>2 DEF PushPublishes, PusherInv
  <2> QED
    BY <1>2, <2>1 DEF PushPublishes
<1>3. ASSUME NEW t \in Poppers, Pop(t) PROVE P
  <2>1. CASE SeeItem(t)
    BY <2>1 DEF SeeItem
  <2>2. CASE CallPop(t)
    BY <2>2 DEF CallPop
  <2>3. CASE PopFindsEmpty(t)
    BY <2>3 DEF PopFindsEmpty
  <2>4. CASE PopFindsItem(t)
    BY <2>4 DEF PopFindsItem
  <2>5. CASE PopMoves(t)
    <3>1. Filled(outputIndex)
      BY <2>5 DEF PopMoves, Filled, Slots
    <3>2. ~MovedOut
      BY <2>5 DEF PopMoves, MovedOut, OnePopper, Active
    <3>3. buffer[outputIndex] \in Items
      BY <3>1, <3>2 DEF ContentInv
    <3> QED
      BY <2>5, <3>3 DEF PopMoves
  <2>6. CASE PopPublishes(t)
    \* No other thread is in pop, and t leaves it.
    <3>1. u # t => popPc[u] = "idle" /\ u \notin sawItem
      BY <2>6 DEF PopPublishes, OnePopper, Active
    <3> QED
      BY <2>6, <3>1 DEF PopPublishes
  <2> QED
    BY <1>3, <2>1, <2>2, <2>3, <2>4, <2>5, <2>6 DEF Pop
<1>4. CASE UNCHANGED vars
  BY <1>4 DEF vars
<1> QED
  BY <1>1, <1>2, <1>3, <1>4 DEF Next

LEMMA ContentStep == IInv /\ [Next]_vars => ContentInv'
<1> SUFFICES ASSUME IInv, [Next]_vars, NEW i \in Slots,
                    Filled(i)', ~(i = outputIndex' /\ MovedOut')
             PROVE buffer'[i] \in Items
  BY DEF ContentInv
<1> USE DEF IInv, TypeOK, pushVars, popVars
<1>1. CASE Push /\ ~PushPublishes /\ ~PushWrites
  BY <1>1 DEF Push, CallPush, PushFindsFull, PushFindsRoom, ContentInv, Filled, MovedOut
<1>2. CASE PushWrites
  \* The slot written is not filled yet.
  <2>1. currentInputIndex = inputIndex
    BY <1>2 DEF PushWrites, PusherInv
  <2>2. Filled(i) /\ ~(i = outputIndex /\ MovedOut)
    BY <1>2 DEF PushWrites, Filled, MovedOut
  <2>3. i # inputIndex
    BY <2>2 DEF Filled, Slots
  <2> QED
    BY <1>2, <2>1, <2>2, <2>3 DEF PushWrites, ContentInv
<1>3. CASE PushPublishes
  <2>1. inputIndex' = After(inputIndex) /\ buffer[inputIndex] = data /\ data \in Items
    BY <1>3 DEF PushPublishes, PusherInv
  <2>2. UNCHANGED <<buffer, outputIndex, popPc>>
    BY <1>3 DEF PushPublishes
  <2>3. inputIndex' = IF inputIndex + 1 = queueMaxSize THEN 0 ELSE inputIndex + 1
    BY <2>1, AfterInRing
  <2>4. i = inputIndex \/ Filled(i)
    BY <2>2, <2>3, RingSize DEF Filled, Slots
  <2> QED
    BY <2>1, <2>2, <2>4 DEF ContentInv, MovedOut
<1>4. ASSUME NEW t \in Poppers, Pop(t) PROVE buffer'[i] \in Items
  <2>1. CASE SeeItem(t)
    BY <2>1 DEF SeeItem, ContentInv, Filled, MovedOut
  <2>2. CASE CallPop(t)
    BY <2>2 DEF CallPop, ContentInv, Filled, MovedOut
  <2>3. CASE PopFindsEmpty(t)
    BY <2>3 DEF PopFindsEmpty, ContentInv, Filled, MovedOut
  <2>4. CASE PopFindsItem(t)
    BY <2>4 DEF PopFindsItem, ContentInv, Filled, MovedOut
  <2>5. CASE PopMoves(t)
    <3>1. currentOutputIndex[t] = outputIndex
      BY <2>5 DEF PopMoves, PopperInv
    <3>2. MovedOut'
      BY <2>5 DEF PopMoves, MovedOut
    <3>3. i # outputIndex /\ Filled(i)
      BY <2>5, <3>2 DEF PopMoves, Filled
    <3> QED
      BY <2>5, <3>1, <3>3 DEF PopMoves, ContentInv
  <2>6. CASE PopPublishes(t)
    \* The slots filled after the step were filled before it, and none is the one left behind.
    <3>1. outputIndex' = After(outputIndex) /\ inputIndex # outputIndex
      BY <2>6 DEF PopPublishes, PopperInv
    <3>2. outputIndex' = IF outputIndex + 1 = queueMaxSize THEN 0 ELSE outputIndex + 1
      BY <3>1, AfterInRing
    <3>3. UNCHANGED <<inputIndex, buffer>>
      BY <2>6 DEF PopPublishes
    <3>4. Filled(i) /\ i # outputIndex
      BY <3>1, <3>2, <3>3, RingSize DEF Filled, Slots
    <3> QED
      BY <3>3, <3>4 DEF ContentInv
  <2> QED
    BY <1>4, <2>1, <2>2, <2>3, <2>4, <2>5, <2>6 DEF Pop
<1>5. CASE UNCHANGED vars
  BY <1>5 DEF vars, ContentInv, Filled, MovedOut
<1> QED
  BY <1>1, <1>2, <1>3, <1>4, <1>5 DEF Next

\* The inductive invariant holds in every behaviour.
LEMMA Invariance == Spec => []IInv
<1>1. IInv /\ [Next]_vars => IInv'
  BY TypeStep, OnePopperStep, PusherStep, PopperStep, ContentStep DEF IInv
<1>2. QED
  BY InitInv, <1>1, PTL DEF Spec

-----------------------------------------------------------------------------
(* The safety properties *)

(* The slot being written and the slot being emptied differ, for every ring. *)
THEOREM SlotsDiffer == Spec => []NoSlotRace
<1>1. IInv => NoSlotRace
  BY DEF IInv, PusherInv, PopperInv, NoSlotRace
<1>2. QED
  BY Invariance, <1>1, PTL

LEMMA CheckedPopStep ==
    IInv /\ [Next]_vars =>
        [\A t \in Poppers : t \in sawItem /\ t \notin sawItem' => popped'[t] # NoItem]_vars
<1> SUFFICES ASSUME IInv, Next, NEW u \in Poppers, u \in sawItem, u \notin sawItem'
             PROVE  popped'[u] # NoItem
  OBVIOUS
<1> USE DEF IInv, TypeOK, pushVars, popVars
<1>1. CASE Push
  BY <1>1 DEF Push, CallPush, PushFindsFull, PushFindsRoom, PushWrites, PushPublishes
<1>2. ASSUME NEW t \in Poppers, Pop(t) PROVE popped'[u] # NoItem
  <2>1. CASE SeeItem(t) \/ CallPop(t) \/ PopFindsItem(t) \/ PopMoves(t)
    BY <2>1 DEF SeeItem, CallPop, PopFindsItem, PopMoves
  <2>2. CASE PopFindsEmpty(t)
    \* Only pops change _outputIndex, so the queue seen non-empty still is.
    BY <2>2 DEF PopFindsEmpty, PopperInv
  <2>3. CASE PopPublishes(t)
    BY <2>3, NoItemIsNoItem DEF PopPublishes, PopperInv
  <2> QED
    BY <1>2, <2>1, <2>2, <2>3 DEF Pop
<1> QED
  BY <1>1, <1>2 DEF Next

(* A pop that follows an empty() that answered false never returns T(). *)
THEOREM CheckedPop == Spec => CheckedPopReturnsItem
BY Invariance, CheckedPopStep, PTL DEF Spec, CheckedPopReturnsItem

-----------------------------------------------------------------------------
(* The items inside the ring *)

\* The slot of the k-th item: k - 1 slots after the oldest, around the ring.
LEMMA SlotFromInRing ==
    ASSUME NEW o \in Slots, NEW k \in 1 .. queueMaxSize
    PROVE  SlotFrom(o, k) = IF o + k - 1 < queueMaxSize THEN o + k - 1 ELSE o + k - 1 - queueMaxSize
<1>1. PICK x \in Nat : x = o + k - 1 /\ x < 2 * queueMaxSize
  BY RingSize DEF Slots
<1>2. x % queueMaxSize = IF x < queueMaxSize THEN x ELSE x - queueMaxSize
  BY <1>1, RingRemainder
<1>3. SlotFrom(o, k) = x % queueMaxSize
  BY <1>1 DEF SlotFrom
<1> QED
  BY <1>1, <1>2, <1>3, RingSize DEF Slots

\* The queue never holds more than the capacity it was constructed with.
LEMMA SizeInRange == TypeOK => Size \in 0 .. QueueMaxSize
BY QueueMaxSizeIsPositive DEF TypeOK, Size, Slots, queueMaxSize

\* The slots of the items are the filled ones, and the first is _outputIndex.
LEMMA SlotFilled ==
    ASSUME TypeOK, NEW k \in 1 .. Size
    PROVE  /\ SlotFrom(outputIndex, k) \in Slots
           /\ Filled(SlotFrom(outputIndex, k))
           /\ SlotFrom(outputIndex, k) = outputIndex <=> k = 1
           /\ SlotFrom(outputIndex, k) # inputIndex
<1>1. Size \in 0 .. QueueMaxSize /\ k \in 1 .. queueMaxSize
  BY SizeInRange, QueueMaxSizeIsPositive DEF queueMaxSize
<1>2. SlotFrom(outputIndex, k) = IF outputIndex + k - 1 < queueMaxSize
                                 THEN outputIndex + k - 1 ELSE outputIndex + k - 1 - queueMaxSize
  BY <1>1, SlotFromInRing DEF TypeOK
<1> QED
  BY <1>1, <1>2, RingSize DEF TypeOK, Size, Filled, Slots

\* While a pop has moved the oldest item out, it is that pop's local.
LEMMA OldestTaken ==
    ASSUME OnePopper, NEW t \in Poppers, popPc[t] = "publish"
    PROVE  Oldest = taken[t]
<1>1. \A u \in Poppers : popPc[u] = "publish" => u = t
  BY DEF OnePopper, Active
<1>2. (CHOOSE u \in Poppers : popPc[u] = "publish") = t
  BY <1>1
<1> QED
  BY <1>2 DEF Oldest

LEMMA OldestInBuffer == ~MovedOut => Oldest = buffer[outputIndex]
BY DEF MovedOut, Oldest

\* The items inside are a sequence of items as long as size() says.
LEMMA ItemsAreItems ==
    ASSUME IInv
    PROVE  ItemsInside \in Seq(Items) /\ Len(ItemsInside) = Size
<1>1. Size \in Nat
  BY SizeInRange DEF IInv
<1>2. ASSUME NEW k \in 1 .. Size
      PROVE  (IF k = 1 THEN Oldest ELSE buffer[SlotFrom(outputIndex, k)]) \in Items
  <2>1. /\ SlotFrom(outputIndex, k) \in Slots
        /\ Filled(SlotFrom(outputIndex, k))
        /\ SlotFrom(outputIndex, k) = outputIndex <=> k = 1
    BY SlotFilled DEF IInv
  <2>2. CASE k # 1
    BY <2>1, <2>2 DEF IInv, ContentInv
  <2>3. CASE k = 1 /\ ~MovedOut
    BY <2>1, <2>3, OldestInBuffer DEF IInv, ContentInv
  <2>4. CASE k = 1 /\ MovedOut
    <3>1. PICK t \in Poppers : popPc[t] = "publish"
      BY <2>4 DEF MovedOut
    <3> QED
      BY <2>4, <3>1, OldestTaken DEF IInv, PopperInv
  <2> QED
    BY <2>2, <2>3, <2>4
<1>3. ItemsInside \in [1 .. Size -> Items]
  BY <1>2 DEF ItemsInside
<1> QED
  BY <1>1, <1>3, LenProperties

-----------------------------------------------------------------------------
(* The queue implements the bounded FIFO *)

LEMMA InitImplements == Init => Fifo!Init
<1> SUFFICES ASSUME Init PROVE Fifo!Init
  OBVIOUS
<1>1. Size = 0
  BY DEF Init, Size
<1>2. ItemsInside = <<>>
  BY <1>1 DEF ItemsInside
<1> QED
  BY <1>2 DEF Init, Fifo!Init

\* A step that leaves the indices, the slots of the items and the local of a
\* pop in its last step alone leaves the items inside alone.
LEMMA SameItems ==
    ASSUME Size' = Size, outputIndex' = outputIndex, Size >= 1 => Oldest' = Oldest,
           TypeOK,
           \A k \in 1 .. Size : k # 1 => buffer'[SlotFrom(outputIndex, k)] = buffer[SlotFrom(outputIndex, k)]
    PROVE  ItemsInside' = ItemsInside
<1>1. \A k \in 1 .. Size : SlotFrom(outputIndex', k) = SlotFrom(outputIndex, k)
  OBVIOUS
<1>2. ItemsInside' = [k \in 1 .. Size |-> IF k = 1 THEN Oldest' ELSE buffer'[SlotFrom(outputIndex', k)]]
  BY DEF ItemsInside, SlotFrom
<1>3. \A k \in 1 .. Size : k = 1 => Size >= 1
  BY SizeInRange
<1> QED
  BY <1>1, <1>2, <1>3 DEF ItemsInside

LEMMA PushImplements == IInv /\ IInv' /\ Push => [Fifo!Next]_(Fifo!fifoVars)
<1> SUFFICES ASSUME IInv, IInv', Push PROVE [Fifo!Next]_(Fifo!fifoVars)
  OBVIOUS
<1> USE DEF popVars
<1>1. ASSUME NEW x \in Items, CallPush(x) PROVE Fifo!CallPush(x)
  <2>1. ItemsInside' = ItemsInside
    BY <1>1 DEF CallPush, ItemsInside, Oldest, Size
  <2> QED
    BY <1>1, <2>1 DEF CallPush, Fifo!CallPush, IInv, PusherInv
<1>2. CASE PushFindsFull
  <2>1. ItemsInside' = ItemsInside
    BY <1>2 DEF PushFindsFull, ItemsInside, Oldest, Size
  <2>2. After(inputIndex) = outputIndex
    BY <1>2 DEF PushFindsFull, IInv, PusherInv
  <2>3. After(inputIndex) = IF inputIndex + 1 = queueMaxSize THEN 0 ELSE inputIndex + 1
    BY AfterInRing DEF IInv, TypeOK
  <2>4. Size = QueueMaxSize
    BY <2>2, <2>3, QueueMaxSizeIsPositive DEF Size, IInv, TypeOK, Slots, queueMaxSize
  <2>5. Fifo!PushFindsFull
    BY <1>2, <2>1, <2>4, ItemsAreItems DEF PushFindsFull, Fifo!PushFindsFull, IInv, PusherInv
  <2> QED
    BY <2>5 DEF Fifo!Next
<1>3. CASE PushFindsRoom
  <2>1. ItemsInside' = ItemsInside
    BY <1>3 DEF PushFindsRoom, ItemsInside, Oldest, Size
  <2> QED
    BY <1>3, <2>1 DEF PushFindsRoom, Fifo!fifoVars
<1>4. CASE PushWrites
  \* The slot written is the one after the newest item.
  <2>1. currentInputIndex = inputIndex
    BY <1>4 DEF PushWrites, IInv, PusherInv
  <2>2. ASSUME NEW i \in Slots, i # inputIndex PROVE buffer'[i] = buffer[i]
    BY <1>4, <2>1, <2>2 DEF PushWrites, IInv, TypeOK
  <2>3. UNCHANGED <<inputIndex, outputIndex, popPc, taken>>
    BY <1>4 DEF PushWrites
  <2>4. Size' = Size
    BY <2>3 DEF Size
  <2>5. Size >= 1 => inputIndex # outputIndex
    BY DEF Size, IInv, TypeOK, Slots
  <2>6. Size >= 1 => Oldest' = Oldest
    BY <2>2, <2>3, <2>5 DEF Oldest, IInv, TypeOK
  <2>7. \A k \in 1 .. Size : buffer'[SlotFrom(outputIndex, k)] = buffer[SlotFrom(outputIndex, k)]
    BY <2>2, SlotFilled DEF IInv
  <2>8. ItemsInside' = ItemsInside
    BY <2>3, <2>4, <2>6, <2>7, SameItems DEF IInv
  <2> QED
    BY <1>4, <2>8 DEF PushWrites, Fifo!fifoVars
<1>5. CASE PushPublishes
  <2>1. inputIndex' = After(inputIndex) /\ buffer[inputIndex] = data /\ data \in Items
    BY <1>5 DEF PushPublishes, IInv, PusherInv, TypeOK
  <2>2. UNCHANGED <<buffer, outputIndex, popPc, taken>>
    BY <1>5 DEF PushPublishes
  <2>3. After(inputIndex) # outputIndex
    BY <1>5 DEF PushPublishes, IInv, PusherInv
  <2>4. inputIndex' = IF inputIndex + 1 = queueMaxSize THEN 0 ELSE inputIndex + 1
    BY <2>1, AfterInRing DEF IInv, TypeOK
  <2>5. Size' = Size + 1
    BY <2>1, <2>2, <2>3, <2>4, RingSize DEF Size, IInv, TypeOK, Slots
  <2>6. Size \in Nat /\ Size + 1 <= QueueMaxSize
    BY <2>5, SizeInRange, QueueMaxSizeIsPositive, SizeInRange, <2>3, <2>4, <2>1, RingSize
       DEF Size, IInv, TypeOK, Slots, queueMaxSize
  <2>7. SlotFrom(outputIndex, Size + 1) = inputIndex
    <3>1. Size + 1 \in 1 .. queueMaxSize
      BY <2>6, QueueMaxSizeIsPositive DEF queueMaxSize
    <3>2. PICK k \in 1 .. queueMaxSize : k = Size + 1
      BY <3>1
    <3>3. SlotFrom(outputIndex, k) = IF outputIndex + k - 1 < queueMaxSize
                                     THEN outputIndex + k - 1 ELSE outputIndex + k - 1 - queueMaxSize
      BY SlotFromInRing DEF IInv, TypeOK
    <3> QED
      BY <3>2, <3>3, RingSize DEF Size, IInv, TypeOK, Slots
  <2>8. Oldest' = Oldest
    BY <2>2 DEF Oldest
  <2>9. Size = 0 => Oldest = data
    <3>1. Size = 0 => inputIndex = outputIndex
      BY RingSize DEF Size, IInv, TypeOK, Slots
    <3>2. Size = 0 => ~MovedOut
      BY <3>1 DEF MovedOut, IInv, PopperInv
    <3> QED
      BY <2>1, <3>1, <3>2, OldestInBuffer
  <2>10. ItemsInside' = [k \in 1 .. Size + 1 |->
                             IF k = 1 THEN Oldest ELSE buffer[SlotFrom(outputIndex, k)]]
    BY <2>2, <2>5, <2>8 DEF ItemsInside, SlotFrom
  <2>11. ItemsInside' = Append(ItemsInside, data)
    <3>1. ItemsInside \in Seq(Items) /\ Len(ItemsInside) = Size
      BY ItemsAreItems
    <3> DEFINE longer == Append(ItemsInside, data)
    <3>2. /\ longer \in Seq(Items)
          /\ Len(longer) = Size + 1
          /\ \A k \in 1 .. Size : longer[k] = ItemsInside[k]
          /\ longer[Size + 1] = data
      BY <2>1, <3>1, AppendProperties
    <3> HIDE DEF longer
    <3>3. ASSUME NEW k \in 1 .. Size + 1
          PROVE  (IF k = 1 THEN Oldest ELSE buffer[SlotFrom(outputIndex, k)])
                 = longer[k]
      <4>1. CASE k = Size + 1
        BY <2>1, <2>6, <2>7, <2>9, <3>2, <4>1
      <4>2. CASE k # Size + 1
        BY <2>6, <3>2, <4>2 DEF ItemsInside
      <4> QED
        BY <4>1, <4>2
    <3>4. longer \in [1 .. Size + 1 -> Items]
      BY <3>2, LenProperties
    <3>5. ItemsInside' = longer
      BY <2>10, <3>3, <3>4
    <3> QED
      BY <3>5 DEF longer
  <2>12. Fifo!PushTakesEffect
    BY <1>5, <2>1, <2>6, <2>11, ItemsAreItems, NoItemIsNoItem, QueueMaxSizeIsPositive
       DEF PushPublishes, Fifo!PushTakesEffect
  <2> QED
    BY <2>12 DEF Fifo!Next
<1> QED
  BY <1>1, <1>2, <1>3, <1>4, <1>5 DEF Push, Fifo!Next

LEMMA PopImplements ==
    ASSUME IInv, NEW t \in Poppers, Pop(t)
    PROVE  [Fifo!Next]_(Fifo!fifoVars)
<1> USE DEF pushVars
<1>1. IInv /\ popPc \in [Poppers -> {"idle", "check", "move", "publish"}]
  BY DEF IInv, TypeOK
<1>2. ASSUME popPc[t] # "publish" PROVE MovedOut => ~Active(t)
  BY <1>2 DEF MovedOut, IInv, OnePopper, Active
<1>3. CASE SeeItem(t)
  <2>1. ItemsInside' = ItemsInside
    BY <1>3 DEF SeeItem, ItemsInside, Oldest, Size
  <2> QED
    BY <1>3, <2>1 DEF SeeItem, Fifo!fifoVars
<1>4. CASE CallPop(t)
  <2>1. \A u \in Poppers : popPc[u] # "publish" /\ popPc'[u] # "publish"
    BY <1>1, <1>4 DEF CallPop, MayPop, Active
  <2>2. ItemsInside' = ItemsInside
    BY <1>4, <2>1 DEF CallPop, ItemsInside, Oldest, Size
  <2>3. Fifo!CallPop(t)
    BY <1>1, <1>4, <2>2 DEF CallPop, Fifo!CallPop
  <2> QED
    BY <2>3 DEF Fifo!Next
<1>5. CASE PopFindsEmpty(t)
  <2>1. Size = 0 /\ Size' = 0
    BY <1>5 DEF PopFindsEmpty, Size, IInv, TypeOK, PopperInv, Slots
  <2>2. ItemsInside = <<>> /\ ItemsInside' = <<>>
    BY <2>1 DEF ItemsInside
  <2>3. Fifo!PopFindsEmpty(t)
    BY <1>1, <1>5, <2>2 DEF PopFindsEmpty, Fifo!PopFindsEmpty
  <2> QED
    BY <2>3 DEF Fifo!Next
<1>6. CASE PopFindsItem(t)
  <2>1. \A u \in Poppers : popPc[u] # "publish" /\ popPc'[u] # "publish"
    BY <1>1, <1>6 DEF PopFindsItem, IInv, OnePopper, Active
  <2>2. ItemsInside' = ItemsInside
    BY <1>6, <2>1 DEF PopFindsItem, ItemsInside, Oldest, Size
  <2>3. {u \in Poppers : popPc'[u] # "idle"} = {u \in Poppers : popPc[u] # "idle"}
    BY <1>1, <1>6 DEF PopFindsItem
  <2> QED
    BY <1>6, <2>2, <2>3 DEF PopFindsItem, Fifo!fifoVars
<1>7. CASE PopMoves(t)
  \* The oldest item moves from its slot to the local of the pop.
  <2>1. currentOutputIndex[t] = outputIndex
    BY <1>7 DEF PopMoves, IInv, PopperInv
  <2>2. UNCHANGED <<inputIndex, outputIndex>>
    BY <1>7 DEF PopMoves
  <2>3. Oldest = buffer[outputIndex]
    BY <1>2, <1>7, OldestInBuffer DEF PopMoves, Active
  <2>4. taken'[t] = buffer[outputIndex] /\ popPc'[t] = "publish"
    BY <1>1, <1>7, <2>1 DEF PopMoves, IInv, TypeOK
  <2>5. \A u \in Poppers : popPc'[u] = "publish" => u = t
    BY <1>1, <1>7 DEF PopMoves, IInv, OnePopper, Active
  <2>6. Oldest' = Oldest
    BY <2>3, <2>4, <2>5 DEF Oldest
  <2>7. ASSUME NEW i \in Slots, i # outputIndex PROVE buffer'[i] = buffer[i]
    BY <1>7, <2>1, <2>7 DEF PopMoves, IInv, TypeOK
  <2>8. \A k \in 1 .. Size : k # 1 => buffer'[SlotFrom(outputIndex, k)] = buffer[SlotFrom(outputIndex, k)]
    BY <2>7, SlotFilled DEF IInv
  <2>9. Size' = Size
    BY <2>2 DEF Size
  <2>10. ItemsInside' = ItemsInside
    BY <2>2, <2>6, <2>8, <2>9, SameItems DEF IInv
  <2>11. {u \in Poppers : popPc'[u] # "idle"} = {u \in Poppers : popPc[u] # "idle"}
    BY <1>1, <1>7 DEF PopMoves
  <2> QED
    BY <1>7, <2>10, <2>11 DEF PopMoves, Fifo!fifoVars
<1>8. CASE PopPublishes(t)
  <2>1. outputIndex' = After(outputIndex) /\ inputIndex # outputIndex
    BY <1>8 DEF PopPublishes, IInv, PopperInv
  <2>2. outputIndex' = IF outputIndex + 1 = queueMaxSize THEN 0 ELSE outputIndex + 1
    BY <2>1, AfterInRing DEF IInv, TypeOK
  <2>3. UNCHANGED <<inputIndex, buffer>>
    BY <1>8 DEF PopPublishes
  <2>4. Size \in Nat /\ Size >= 1 /\ Size' = Size - 1 /\ Size <= QueueMaxSize
    BY <2>1, <2>2, <2>3, RingSize, SizeInRange, QueueMaxSizeIsPositive DEF Size, IInv, TypeOK, Slots
  <2>5. Oldest = taken[t] /\ popPc[t] = "publish"
    BY <1>8, OldestTaken DEF PopPublishes, IInv
  <2>6. \A u \in Poppers : popPc'[u] # "publish"
    BY <1>1, <1>8 DEF PopPublishes, IInv, OnePopper, Active
  <2>7. Oldest' = buffer[outputIndex']
    BY <2>3, <2>6 DEF Oldest
  \* The k-th item after the step is the one after it before.
  <2>8. ASSUME NEW k \in 1 .. Size - 1
        PROVE  SlotFrom(outputIndex', k) = SlotFrom(outputIndex, k + 1)
    <3>1. k \in 1 .. queueMaxSize
      BY <2>4, QueueMaxSizeIsPositive DEF queueMaxSize
    <3>2. PICK j \in 1 .. queueMaxSize : j = k + 1
      BY <2>4, QueueMaxSizeIsPositive DEF queueMaxSize
    <3>3. PICK o \in Slots : o = outputIndex'
      BY <2>1, AfterInRing DEF IInv, TypeOK
    <3>4. SlotFrom(o, k) = IF o + k - 1 < queueMaxSize THEN o + k - 1 ELSE o + k - 1 - queueMaxSize
      BY <3>1, SlotFromInRing
    <3>5. SlotFrom(outputIndex, j) = IF outputIndex + j - 1 < queueMaxSize
                                     THEN outputIndex + j - 1 ELSE outputIndex + j - 1 - queueMaxSize
      BY SlotFromInRing DEF IInv, TypeOK
    <3>6. SlotFrom(o, k) = SlotFrom(outputIndex, j)
      BY <2>2, <3>1, <3>2, <3>3, <3>4, <3>5, RingSize DEF IInv, TypeOK, Slots
    <3> QED
      BY <3>2, <3>3, <3>6
  <2>9. SlotFrom(outputIndex', 1) = outputIndex'
    <3>1. PICK o \in Slots : o = outputIndex'
      BY <2>1, AfterInRing DEF IInv, TypeOK
    <3>2. PICK j \in 1 .. queueMaxSize : j = 1
      BY RingSize
    <3>3. SlotFrom(o, j) = IF o + j - 1 < queueMaxSize THEN o + j - 1 ELSE o + j - 1 - queueMaxSize
      BY SlotFromInRing
    <3>4. SlotFrom(o, j) = o
      BY <3>2, <3>3, RingSize DEF Slots
    <3> QED
      BY <3>1, <3>2, <3>4
  <2>10. ItemsInside' = [k \in 1 .. Size - 1 |->
                            IF k = 1 THEN buffer[outputIndex'] ELSE buffer[SlotFrom(outputIndex', k)]]
    BY <2>3, <2>4, <2>7 DEF ItemsInside, SlotFrom
  <2>11. ASSUME NEW k \in 1 .. Size - 1
         PROVE  (IF k = 1 THEN buffer[outputIndex'] ELSE buffer[SlotFrom(outputIndex', k)]) = ItemsInside[k + 1]
    <3>1. k + 1 \in 1 .. Size /\ k + 1 # 1
      BY <2>4
    <3>2. ItemsInside[k + 1] = buffer[SlotFrom(outputIndex, k + 1)]
      BY <3>1 DEF ItemsInside
    <3> QED
      BY <2>4, <2>8, <2>9, <3>2
  <2>12. /\ ItemsInside \in Seq(Items) /\ Len(ItemsInside) = Size /\ ItemsInside # <<>>
         /\ ItemsInside[1] = taken[t]
    BY <2>4, <2>5, ItemsAreItems DEF ItemsInside
  <2>13. ItemsInside' = Tail(ItemsInside) /\ Head(ItemsInside) = taken[t]
    <3> DEFINE rest == Tail(ItemsInside)
    <3>1. rest \in Seq(Items) /\ Len(rest) = Size - 1 /\ \A k \in 1 .. Size - 1 : rest[k] = ItemsInside[k + 1]
      BY <2>12, HeadTailProperties
    <3> HIDE DEF rest
    <3>2. rest \in [1 .. Size - 1 -> Items]
      BY <3>1, LenProperties
    <3>3. ItemsInside' = rest
      BY <2>10, <2>11, <3>1, <3>2
    <3> QED
      BY <2>12, <3>3 DEF rest
  <2>14. {u \in Poppers : popPc'[u] # "idle"} = {u \in Poppers : popPc[u] # "idle"} \ {t}
    BY <1>1, <1>8 DEF PopPublishes
  <2>15. Fifo!PopTakesEffect(t)
    BY <1>1, <1>8, <2>12, <2>13, <2>14 DEF PopPublishes, Fifo!PopTakesEffect
  <2> QED
    BY <2>15 DEF Fifo!Next
<1> QED
  BY <1>3, <1>4, <1>5, <1>6, <1>7, <1>8 DEF Pop

(* The ring buffer, with one pusher and poppers one at a time, is a bounded  *)
(* first-in first-out queue: whatever its capacity, push refuses an item     *)
(* only when the queue is full, pop answers T() only when it is empty, and   *)
(* every item that entered leaves once, in order.                            *)
THEOREM QueueImplementsFifo == Spec => ImplementsFifo
<1>1. Init => Fifo!Init
  BY InitImplements
<1>2. IInv /\ IInv' /\ [Next]_vars => [Fifo!Next]_(Fifo!fifoVars)
  <2> SUFFICES ASSUME IInv, IInv', [Next]_vars PROVE [Fifo!Next]_(Fifo!fifoVars)
    OBVIOUS
  <2>1. CASE UNCHANGED vars
    BY <2>1 DEF vars, pushVars, popVars, Fifo!fifoVars, ItemsInside, Oldest, Size
  <2> QED
    BY <2>1, PushImplements, PopImplements DEF Next
<1>3. QED
  BY <1>1, <1>2, Invariance, PTL DEF Spec, ImplementsFifo, Fifo!Spec
=============================================================================
