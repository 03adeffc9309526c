--------------------------- MODULE Containers_proofs ---------------------------
(***************************************************************************)
(* Proofs about the two containers of NetworkManager that several threads  *)
(* reach under no lock: OverlappedPool, for every number of objects and    *)
(* any threads, and ConnectedSocketMap, for any number of keys and levels. *)
(***************************************************************************)
EXTENDS OverlappedPool, ConnectedSocketMap, FiniteSetTheorems, TLAPS

-----------------------------------------------------------------------------
(* The least and the greatest element of a bounded set *)

\* A proof without induction: of the sets of elements up to x, x in S, one is
\* minimal for inclusion.
LEMMA MinIsLeast ==
    ASSUME NEW n \in Nat, NEW S \in SUBSET (0 .. n), S # {}
    PROVE  Min(S) \in S /\ \A y \in S : Min(S) <= y
<1> DEFINE Upto(x) == {y \in S : y <= x}
           T == {Upto(x) : x \in S}
<1>1. IsFiniteSet(S)
  <2>1. IsFiniteSet(0 .. n)
    BY FS_Interval
  <2> QED BY <2>1, FS_Subset
<1>2. \A x \in S : Upto(x) \in FiniteSubsetsOf(S)
  BY <1>1, FS_Subset DEF FiniteSubsetsOf
<1>3. T # {} /\ T \subseteq FiniteSubsetsOf(S)
  BY <1>2
<1>4. IsWellFoundedOn(StrictSubsetOrdering(S), FiniteSubsetsOf(S))
  BY FS_StrictSubsetOrderingWellFounded
<1>5. \E U \in T : \A V \in T : ~(<<V, U>> \in StrictSubsetOrdering(S))
  <2> HIDE DEF T
  <2> QED BY <1>3, <1>4, WFMin, Zenon
<1>6. PICK x \in S : \A y \in S : ~(<<Upto(y), Upto(x)>> \in StrictSubsetOrdering(S))
  BY <1>5
<1>7. ASSUME NEW y \in S, y < x PROVE FALSE
  <2>1. x \in Nat /\ \A z \in S : z \in Nat
    OBVIOUS
  <2>2. Upto(y) \subseteq Upto(x)
    <3> SUFFICES ASSUME NEW z \in S, z <= y PROVE z <= x
      OBVIOUS
    <3> QED BY <1>7, <2>1
  <2>3. x \in Upto(x) /\ x \notin Upto(y)
    BY <1>7, <2>1
  <2> HIDE DEF Upto
  <2>4. Upto(y) # Upto(x)
    BY <2>3
  <2>5. Upto(y) \in SUBSET S /\ Upto(x) \in SUBSET S
    BY DEF Upto
  <2>6. <<Upto(y), Upto(x)>> \in StrictSubsetOrdering(S)
    BY <2>2, <2>4, <2>5 DEF StrictSubsetOrdering
  <2> QED
    BY <1>6, <2>6
<1>8. \A y \in S : x <= y
  BY <1>7
<1> QED
  BY <1>8 DEF Min

LEMMA MaxIsGreatest ==
    ASSUME NEW n \in Nat, NEW S \in SUBSET (0 .. n), S # {}
    PROVE  Max(S) \in S /\ \A y \in S : y <= Max(S)
<1> DEFINE R == {n - x : x \in S}
<1>1. R \in SUBSET (0 .. n) /\ R # {}
  <2>1. \A x \in S : n - x \in 0 .. n
    OBVIOUS
  <2> QED BY <2>1
<1>2. Min(R) \in R /\ \A y \in R : Min(R) <= y
  <2> HIDE DEF R
  <2> QED BY <1>1, MinIsLeast
<1>3. PICK x \in S : Min(R) = n - x
  BY <1>2
<1>4. \A y \in S : n - x <= n - y
  BY <1>2, <1>3
<1>5. \A y \in S : y <= x
  BY <1>4
<1> QED
  BY <1>5 DEF Max

-----------------------------------------------------------------------------
(* OverlappedPool: the condition on the pops and the inductive invariant *)

Popping == {"check", "publish"}

\* What the callers of pop would have to ensure: no two are in it at a time.
PopsAlternate ==
    \A t, u \in Poppers : pc[t] \in Popping /\ pc[u] \in Popping => t = u

PoolPoints == {"idle", "handle", "check", "publish", "submit", "recycle", "dead"}

PoolTypes ==
    /\ inputIndex \in Slots
    /\ outputIndex \in Slots
    /\ buffer \in [Slots -> Overlappeds \union {NoOverlapped}]
    /\ pc \in [Poppers -> PoolPoints]
    /\ currentOutputIndex \in [Poppers -> Slots]
    /\ held \in [Poppers -> Overlappeds \union {NoOverlapped}]
    /\ current \in Overlappeds \union {NoOverlapped}
    /\ uses \in [Overlappeds -> {0, 1}]
    /\ refused \subseteq Overlappeds

\* What a thread has, by where it is.
ThreadInv ==
    /\ \A t \in Poppers :
           /\ held[t] # NoOverlapped <=> pc[t] \in {"publish", "submit"}
           /\ pc[t] \in {"handle", "recycle"} => t = NetThread
    /\ current = NoOverlapped <=> pc[NetThread] = "idle"

\* A thread in pop looks at the oldest slot.
PopInv ==
    \A t \in Poppers :
        /\ pc[t] \in Popping => currentOutputIndex[t] = outputIndex
        /\ pc[t] = "publish" => outputIndex # inputIndex /\ held[t] = buffer[outputIndex]

\* The filled slots hold different objects.
RingInv ==
    /\ \A i \in Slots : Filled(i) => buffer[i] # NoOverlapped
    /\ \A i, j \in Slots : Filled(i) /\ Filled(j) /\ buffer[i] = buffer[j] => i = j

\* An object that no thread has moved out of its slot.
InRing(o) ==
    \E i \in Slots :
        /\ Filled(i) /\ buffer[i] = o
        /\ i = outputIndex => \A t \in Poppers : pc[t] # "publish"

\* The places of an object exclude each other.
PlacesInv ==
    /\ \A o \in Overlappeds : InRing(o) =>
           uses[o] = 0 /\ current # o /\ \A t \in Poppers : held[t] # o
    /\ \A t \in Poppers : held[t] \in Overlappeds =>
           /\ uses[held[t]] = 0 /\ current # held[t]
           /\ \A u \in Poppers : held[u] = held[t] => u = t
    /\ current \in Overlappeds => uses[current] = 0

\* An object that was refused has no place.
RefusedInv ==
    \A o \in refused :
        /\ uses[o] = 0 /\ current # o
        /\ \A t \in Poppers : held[t] # o
        /\ ~InRing(o)

PoolInv == PoolTypes /\ ThreadInv /\ PopInv /\ RingInv /\ PlacesInv /\ RefusedInv

-----------------------------------------------------------------------------
(* The slots of the pool's ring *)

\* The index after i is i + 1, or 0 at the end of the ring.
LEMMA AfterInSlots ==
    ASSUME NEW i \in Slots
    PROVE  After(i) \in Slots /\ After(i) = IF i = OverlappedQueueMax THEN 0 ELSE i + 1
<1>1. OverlappedQueueMax \in Nat /\ i \in Nat /\ i <= OverlappedQueueMax
  BY PoolIsLargeEnough DEF Slots
<1>2. CASE i = OverlappedQueueMax
  <2>1. (OverlappedQueueMax + 1) % (OverlappedQueueMax + 1) = 0
    BY <1>1
  <2> QED BY <1>1, <1>2, <2>1 DEF After, Slots
<1>3. CASE i < OverlappedQueueMax
  <2>1. (i + 1) % (OverlappedQueueMax + 1) = i + 1
    BY <1>1, <1>3
  <2> QED BY <1>1, <1>3, <2>1 DEF After, Slots
<1> QED BY <1>1, <1>2, <1>3

\* A pop takes the oldest slot away and no other.
LEMMA FilledAfterPop ==
    ASSUME PoolTypes, outputIndex # inputIndex,
           outputIndex' = After(outputIndex), inputIndex' = inputIndex,
           NEW i \in Slots
    PROVE  Filled(i)' <=> Filled(i) /\ i # outputIndex
<1>1. /\ OverlappedQueueMax \in Nat /\ i \in 0 .. OverlappedQueueMax
      /\ inputIndex \in 0 .. OverlappedQueueMax /\ outputIndex \in 0 .. OverlappedQueueMax
  BY PoolIsLargeEnough DEF PoolTypes, Slots
<1>2. outputIndex' = IF outputIndex = OverlappedQueueMax THEN 0 ELSE outputIndex + 1
  BY AfterInSlots DEF PoolTypes
<1> QED
  BY <1>1, <1>2 DEF Filled

\* A push into a ring with room fills one slot more.
LEMMA FilledAfterPush ==
    ASSUME PoolTypes, After(inputIndex) # outputIndex,
           inputIndex' = After(inputIndex), outputIndex' = outputIndex,
           NEW i \in Slots
    PROVE  /\ Filled(i)' <=> Filled(i) \/ i = inputIndex
           /\ ~Filled(inputIndex)
<1>1. /\ OverlappedQueueMax \in Nat /\ i \in 0 .. OverlappedQueueMax
      /\ inputIndex \in 0 .. OverlappedQueueMax /\ outputIndex \in 0 .. OverlappedQueueMax
  BY PoolIsLargeEnough DEF PoolTypes, Slots
<1>2. inputIndex' = IF inputIndex = OverlappedQueueMax THEN 0 ELSE inputIndex + 1
  BY AfterInSlots DEF PoolTypes
<1> QED
  BY <1>1, <1>2 DEF Filled

\* The oldest slot is filled unless the ring is empty.
LEMMA OldestFilled ==
    ASSUME PoolTypes, outputIndex # inputIndex
    PROVE  Filled(outputIndex)
BY DEF PoolTypes, Slots, Filled

\* A full ring has one free slot.
LEMMA FullRing ==
    ASSUME PoolTypes, After(inputIndex) = outputIndex, NEW i \in Slots, i # inputIndex
    PROVE  Filled(i)
BY AfterInSlots, PoolIsLargeEnough DEF PoolTypes, Slots, Filled

-----------------------------------------------------------------------------
(* The pool's invariant is inductive as long as the pops alternate *)

LEMMA PoolInitInv == PoolInit => PoolInv
<1> SUFFICES ASSUME PoolInit PROVE PoolInv
  OBVIOUS
<1> USE PoolIsLargeEnough
<1>1. PoolTypes
  BY DEF PoolInit, PoolTypes, Slots, Overlappeds, NoOverlapped, PoolPoints
<1>2. ThreadInv /\ PopInv
  BY DEF PoolInit, ThreadInv, PopInv, Popping, Poppers, NoOverlapped
<1>3. \A i \in Slots : Filled(i) <=> AcceptsPosted <= i /\ i < OverlappedQueueMax
  BY DEF PoolInit, Filled, Slots
<1>4. \A i \in Slots : Filled(i) => buffer[i] = i + 1 /\ i + 1 \in Overlappeds /\ i + 1 > AcceptsPosted
  <2> SUFFICES ASSUME NEW i \in 0 .. OverlappedQueueMax, AcceptsPosted <= i, i < OverlappedQueueMax
               PROVE  buffer[i] = i + 1 /\ i + 1 \in Overlappeds /\ i + 1 > AcceptsPosted
    BY <1>3 DEF Slots
  <2>1. buffer[i] = i + 1
    BY DEF PoolInit, Slots
  <2> QED BY <2>1 DEF Overlappeds
<1>5. RingInv
  BY <1>4 DEF RingInv, NoOverlapped, Slots
<1>6. PlacesInv /\ RefusedInv
  BY <1>4 DEF PoolInit, PlacesInv, RefusedInv, InRing, Overlappeds, NoOverlapped, Slots
<1> QED
  BY <1>1, <1>2, <1>5, <1>6 DEF PoolInv

LEMMA CallPopKeeps ==
    ASSUME PoolInv, NEW t \in Poppers, CallPop(t)
    PROVE  PoolInv'
<1>1. /\ pc' = [pc EXCEPT ![t] = "check"] /\ pc[t] \notin {"publish", "submit", "check"}
      /\ pc[t] = "idle" => t # NetThread
      /\ pc[t] = "idle" \/ pc[t] = "handle"
      /\ currentOutputIndex' = [currentOutputIndex EXCEPT ![t] = outputIndex]
      /\ UNCHANGED <<inputIndex, outputIndex, buffer, held, current, uses, refused>>
  BY DEF CallPop, Goto
<1>2. PoolTypes'
  BY <1>1 DEF PoolInv, PoolTypes, PoolPoints
<1>3. \A u \in Poppers : pc'[u] = IF u = t THEN "check" ELSE pc[u]
  BY <1>1 DEF PoolInv, PoolTypes
<1>4. ThreadInv'
  <2>1. NetThread \in Poppers
    BY DEF Poppers
  <2> QED BY <1>1, <1>3, <2>1 DEF PoolInv, ThreadInv
<1>5. PopInv'
  BY <1>1, <1>3 DEF PoolInv, PopInv, PoolTypes, Popping
<1>6. RingInv'
  BY <1>1 DEF PoolInv, RingInv, Filled
<1>7. \A o : InRing(o)' => InRing(o)
  BY <1>1, <1>3 DEF InRing, Filled
<1>8. PlacesInv' /\ RefusedInv'
  BY <1>1, <1>7 DEF PoolInv, PlacesInv, RefusedInv
<1> QED
  BY <1>2, <1>4, <1>5, <1>6, <1>8 DEF PoolInv

LEMMA PopFindsEmptyKeeps ==
    ASSUME PoolInv, NEW t \in Poppers, PopFindsEmpty(t)
    PROVE  PoolInv'
<1>1. /\ pc' = [pc EXCEPT ![t] = "dead"] /\ pc[t] = "check"
      /\ UNCHANGED <<inputIndex, outputIndex, buffer, currentOutputIndex, held, current, uses, refused>>
  BY DEF PopFindsEmpty, Goto
<1>2. PoolTypes'
  BY <1>1 DEF PoolInv, PoolTypes, PoolPoints
<1>3. \A u \in Poppers : pc'[u] = IF u = t THEN "dead" ELSE pc[u]
  BY <1>1 DEF PoolInv, PoolTypes
<1>4. ThreadInv'
  <2>1. NetThread \in Poppers
    BY DEF Poppers
  <2> QED BY <1>1, <1>3, <2>1 DEF PoolInv, ThreadInv
<1>5. PopInv'
  BY <1>1, <1>3 DEF PoolInv, PopInv, Popping
<1>6. RingInv'
  BY <1>1 DEF PoolInv, RingInv, Filled
<1>7. \A o : InRing(o)' => InRing(o)
  BY <1>1, <1>3 DEF InRing, Filled
<1>8. PlacesInv' /\ RefusedInv'
  BY <1>1, <1>7 DEF PoolInv, PlacesInv, RefusedInv
<1> QED
  BY <1>2, <1>4, <1>5, <1>6, <1>8 DEF PoolInv

\* Here the pops must alternate: the object of the oldest slot is still in the
\* ring when t takes it.
LEMMA PopTakesKeeps ==
    ASSUME PoolInv, PopsAlternate, NEW t \in Poppers, PopTakes(t)
    PROVE  PoolInv'
<1> DEFINE o == buffer[outputIndex]
<1>1. /\ pc' = [pc EXCEPT ![t] = "publish"] /\ pc[t] = "check"
      /\ outputIndex # inputIndex /\ outputIndex \in Slots
      /\ held' = [held EXCEPT ![t] = o]
      /\ UNCHANGED <<inputIndex, outputIndex, buffer, currentOutputIndex, current, uses, refused>>
  BY DEF PopTakes, Goto, PoolInv, PoolTypes, PopInv, Popping
<1>2. Filled(outputIndex) /\ o \in Overlappeds
  BY <1>1, OldestFilled DEF PoolInv, PoolTypes, RingInv
<1>3. PoolTypes'
  BY <1>1, <1>2 DEF PoolInv, PoolTypes, PoolPoints
<1>4. \A u \in Poppers : /\ pc'[u] = IF u = t THEN "publish" ELSE pc[u]
                         /\ held'[u] = IF u = t THEN o ELSE held[u]
  BY <1>1 DEF PoolInv, PoolTypes
<1>5. o # NoOverlapped
  BY <1>2, PoolIsLargeEnough DEF Overlappeds, NoOverlapped
<1>6. ThreadInv'
  <2>1. NetThread \in Poppers
    BY DEF Poppers
  <2> QED BY <1>1, <1>4, <1>5, <2>1 DEF PoolInv, ThreadInv
<1>7. PopInv'
  BY <1>1, <1>4 DEF PoolInv, PopInv, Popping
<1>8. RingInv'
  BY <1>1 DEF PoolInv, RingInv, Filled
<1>9. \A u \in Poppers : pc[u] # "publish"
  BY <1>1 DEF PopsAlternate, Popping
<1>10. InRing(o)
  BY <1>1, <1>2, <1>9 DEF InRing
<1>11. uses[o] = 0 /\ current # o /\ \A u \in Poppers : held[u] # o
  BY <1>2, <1>10 DEF PoolInv, PlacesInv
<1>12. \A p : InRing(p)' => InRing(p) /\ p # o
  <2> SUFFICES ASSUME NEW p, NEW i \in Slots, Filled(i), buffer[i] = p, i # outputIndex
               PROVE  InRing(p) /\ p # o
    BY <1>1, <1>4 DEF InRing, Filled
  <2> QED BY <1>1, <1>2 DEF InRing, PoolInv, RingInv
<1>13. PlacesInv'
  BY <1>1, <1>2, <1>4, <1>11, <1>12 DEF PoolInv, PlacesInv
<1>14. RefusedInv'
  <2>1. o \notin refused
    BY <1>10 DEF PoolInv, RefusedInv
  <2> QED BY <1>1, <1>4, <1>12, <2>1 DEF PoolInv, RefusedInv
<1> QED
  BY <1>3, <1>6, <1>7, <1>8, <1>13, <1>14 DEF PoolInv

LEMMA PopPublishesKeeps ==
    ASSUME PoolInv, PopsAlternate, NEW t \in Poppers, PopPublishes(t)
    PROVE  PoolInv'
<1>1. /\ pc' = [pc EXCEPT ![t] = "submit"] /\ pc[t] = "publish"
      /\ outputIndex # inputIndex /\ outputIndex \in Slots
      /\ outputIndex' = After(outputIndex)
      /\ UNCHANGED <<inputIndex, buffer, currentOutputIndex, held, current, uses, refused>>
  BY DEF PopPublishes, Goto, PoolInv, PoolTypes, PopInv, Popping
<1>2. PoolTypes'
  BY <1>1, AfterInSlots DEF PoolInv, PoolTypes, PoolPoints
<1>3. \A u \in Poppers : pc'[u] = IF u = t THEN "submit" ELSE pc[u]
  BY <1>1 DEF PoolInv, PoolTypes
<1>4. ThreadInv'
  <2>1. NetThread \in Poppers
    BY DEF Poppers
  <2> QED BY <1>1, <1>3, <2>1 DEF PoolInv, ThreadInv
<1>5. \A u \in Poppers : pc'[u] \notin Popping
  BY <1>1, <1>3 DEF PopsAlternate, Popping
<1>6. PopInv'
  BY <1>5 DEF PopInv, Popping
<1>7. \A i \in Slots : Filled(i)' <=> Filled(i) /\ i # outputIndex
  BY <1>1, FilledAfterPop DEF PoolInv
<1>8. RingInv'
  BY <1>1, <1>7 DEF PoolInv, RingInv
<1>9. \A o : InRing(o)' => InRing(o)
  BY <1>1, <1>7 DEF InRing
<1>10. PlacesInv' /\ RefusedInv'
  BY <1>1, <1>9 DEF PoolInv, PlacesInv, RefusedInv
<1> QED
  BY <1>2, <1>4, <1>6, <1>8, <1>10 DEF PoolInv

LEMMA SubmitKeeps ==
    ASSUME PoolInv, NEW t \in Poppers, Submit(t)
    PROVE  PoolInv'
<1> DEFINE o == held[t]
           p == IF t = NetThread THEN "recycle" ELSE "idle"
<1>1. /\ pc' = [pc EXCEPT ![t] = p] /\ pc[t] = "submit"
      /\ held' = [held EXCEPT ![t] = NoOverlapped]
      /\ \/ uses' = [uses EXCEPT ![o] = @ + 1] /\ refused' = refused
         \/ refused' = refused \union {o} /\ uses' = uses
      /\ UNCHANGED <<inputIndex, outputIndex, buffer, currentOutputIndex, current>>
  BY DEF Submit, Goto
<1>2. o \in Overlappeds /\ uses[o] = 0 /\ current # o /\ ~InRing(o) /\ o \notin refused
      /\ \A u \in Poppers : held[u] = o => u = t
  <2>1. o \in Overlappeds \union {NoOverlapped} /\ o # NoOverlapped
    BY <1>1 DEF PoolInv, PoolTypes, ThreadInv
  <2> QED BY <2>1 DEF PoolInv, PlacesInv, RefusedInv
<1>3. /\ \A x \in Overlappeds : x # o => uses'[x] = uses[x]
      /\ \/ uses'[o] = 1 /\ refused' = refused
         \/ uses'[o] = 0 /\ refused' = refused \union {o}
      /\ uses' \in [Overlappeds -> {0, 1}]
  BY <1>1, <1>2 DEF PoolInv, PoolTypes
<1>4. \A u \in Poppers : /\ pc'[u] = IF u = t THEN p ELSE pc[u]
                         /\ held'[u] = IF u = t THEN NoOverlapped ELSE held[u]
  BY <1>1 DEF PoolInv, PoolTypes
<1>5. NoOverlapped \notin Overlappeds
  BY PoolIsLargeEnough DEF Overlappeds, NoOverlapped
<1>6. PoolTypes'
  BY <1>1, <1>2, <1>3 DEF PoolInv, PoolTypes, PoolPoints
<1>7. ThreadInv'
  <2>1. NetThread \in Poppers
    BY DEF Poppers
  <2> QED BY <1>1, <1>4, <2>1 DEF PoolInv, ThreadInv
<1>8. PopInv'
  BY <1>1, <1>4 DEF PoolInv, PopInv, Popping
<1>9. RingInv'
  BY <1>1 DEF PoolInv, RingInv, Filled
<1>10. \A x : InRing(x)' => InRing(x)
  BY <1>1, <1>4 DEF InRing, Filled
<1>11. PlacesInv'
  BY <1>1, <1>2, <1>3, <1>4, <1>5, <1>10 DEF PoolInv, PlacesInv
<1>12. RefusedInv'
  <2> SUFFICES ASSUME NEW x \in refused'
               PROVE  /\ uses'[x] = 0 /\ current' # x
                      /\ \A u \in Poppers : held'[u] # x
                      /\ ~InRing(x)'
    BY DEF RefusedInv
  <2>1. CASE x = o
    BY <1>1, <1>2, <1>3, <1>4, <1>5, <1>10, <2>1
  <2>2. CASE x # o
    <3>1. x \in refused /\ x \in Overlappeds
      BY <1>3, <2>2 DEF PoolInv, PoolTypes
    <3> QED BY <1>1, <1>3, <1>4, <1>5, <1>10, <2>2, <3>1 DEF PoolInv, RefusedInv
  <2> QED BY <2>1, <2>2
<1> QED
  BY <1>6, <1>7, <1>8, <1>9, <1>11, <1>12 DEF PoolInv

LEMMA DequeueKeeps == PoolInv /\ Dequeue => PoolInv'
<1> SUFFICES ASSUME PoolInv, Dequeue PROVE PoolInv'
  OBVIOUS
<1>1. PICK o \in Overlappeds :
          /\ uses[o] > 0 /\ current' = o /\ uses' = [uses EXCEPT ![o] = @ - 1]
  BY DEF Dequeue
<1>2. /\ pc' = [pc EXCEPT ![NetThread] = "handle"] /\ pc[NetThread] = "idle"
      /\ UNCHANGED <<inputIndex, outputIndex, buffer, currentOutputIndex, held, refused>>
  BY DEF Dequeue, Goto
<1>3. uses[o] = 1 /\ \A x \in Overlappeds : uses'[x] = IF x = o THEN 0 ELSE uses[x]
  BY <1>1 DEF PoolInv, PoolTypes
<1>4. NetThread \in Poppers /\ \A u \in Poppers : pc'[u] = IF u = NetThread THEN "handle" ELSE pc[u]
  BY <1>2 DEF PoolInv, PoolTypes, Poppers
<1>5. NoOverlapped \notin Overlappeds
  BY PoolIsLargeEnough DEF Overlappeds, NoOverlapped
<1>6. PoolTypes'
  BY <1>1, <1>2, <1>3 DEF PoolInv, PoolTypes, PoolPoints
<1>7. ThreadInv'
  BY <1>1, <1>2, <1>4, <1>5 DEF PoolInv, ThreadInv
<1>8. PopInv'
  BY <1>2, <1>4 DEF PoolInv, PopInv, Popping
<1>9. RingInv'
  BY <1>2 DEF PoolInv, RingInv, Filled
<1>10. \A x : InRing(x)' => InRing(x)
  BY <1>2, <1>4 DEF InRing, Filled
<1>11. PlacesInv' /\ RefusedInv'
  BY <1>1, <1>2, <1>3, <1>10 DEF PoolInv, PlacesInv, RefusedInv
<1> QED
  BY <1>6, <1>7, <1>8, <1>9, <1>11 DEF PoolInv

LEMMA NothingToReceiveKeeps == PoolInv /\ NothingToReceive => PoolInv'
<1> SUFFICES ASSUME PoolInv, NothingToReceive PROVE PoolInv'
  OBVIOUS
<1>1. /\ pc' = [pc EXCEPT ![NetThread] = "recycle"] /\ pc[NetThread] = "handle"
      /\ UNCHANGED <<inputIndex, outputIndex, buffer, currentOutputIndex, held, current, uses, refused>>
  BY DEF NothingToReceive, Goto
<1>2. PoolTypes'
  BY <1>1 DEF PoolInv, PoolTypes, PoolPoints
<1>3. NetThread \in Poppers /\ \A u \in Poppers : pc'[u] = IF u = NetThread THEN "recycle" ELSE pc[u]
  BY <1>1 DEF PoolInv, PoolTypes, Poppers
<1>4. ThreadInv' /\ PopInv'
  BY <1>1, <1>3 DEF PoolInv, ThreadInv, PopInv, Popping
<1>5. RingInv'
  BY <1>1 DEF PoolInv, RingInv, Filled
<1>6. \A x : InRing(x)' => InRing(x)
  BY <1>1, <1>3 DEF InRing, Filled
<1>7. PlacesInv' /\ RefusedInv'
  BY <1>1, <1>6 DEF PoolInv, PlacesInv, RefusedInv
<1> QED
  BY <1>2, <1>4, <1>5, <1>7 DEF PoolInv

LEMMA RecycleKeeps == PoolInv /\ Recycle => PoolInv'
<1> SUFFICES ASSUME PoolInv, Recycle PROVE PoolInv'
  OBVIOUS
<1>1. /\ pc' = [pc EXCEPT ![NetThread] = "idle"] /\ pc[NetThread] = "recycle"
      /\ current' = NoOverlapped
      /\ UNCHANGED <<outputIndex, currentOutputIndex, held, uses, refused>>
  BY DEF Recycle, Goto
<1>2. NetThread \in Poppers /\ \A u \in Poppers : pc'[u] = IF u = NetThread THEN "idle" ELSE pc[u]
  BY <1>1 DEF PoolInv, PoolTypes, Poppers
<1>3. current \in Overlappeds /\ NoOverlapped \notin Overlappeds
  <2>1. current # NoOverlapped
    BY <1>1 DEF PoolInv, ThreadInv
  <2> QED BY <2>1, PoolIsLargeEnough DEF PoolInv, PoolTypes, Overlappeds, NoOverlapped
<1>4. ThreadInv'
  BY <1>1, <1>2 DEF PoolInv, ThreadInv
<1>5. CASE UNCHANGED <<buffer, inputIndex>>
  <2>1. PoolTypes' /\ RingInv'
    BY <1>1, <1>5 DEF PoolInv, PoolTypes, PoolPoints, RingInv, Filled
  <2>2. PopInv'
    BY <1>1, <1>2, <1>5 DEF PoolInv, PopInv, Popping
  <2>3. \A x : InRing(x)' => InRing(x)
    BY <1>1, <1>2, <1>5 DEF InRing, Filled
  <2>4. PlacesInv'
    BY <1>1, <1>3, <2>3 DEF PoolInv, PlacesInv
  <2>5. RefusedInv'
    BY <1>1, <1>3, <2>3 DEF PoolInv, PoolTypes, RefusedInv
  <2> QED BY <1>4, <2>1, <2>2, <2>4, <2>5 DEF PoolInv
<1>6. CASE /\ After(inputIndex) # outputIndex
           /\ buffer' = [buffer EXCEPT ![inputIndex] = current]
           /\ inputIndex' = After(inputIndex)
  <2>1. inputIndex \in Slots /\ PoolTypes'
    BY <1>1, <1>3, <1>6, AfterInSlots DEF PoolInv, PoolTypes, PoolPoints
  <2>2. \A i \in Slots : /\ Filled(i)' <=> Filled(i) \/ i = inputIndex
                         /\ buffer'[i] = IF i = inputIndex THEN current ELSE buffer[i]
    BY <1>1, <1>6, FilledAfterPush DEF PoolInv, PoolTypes
  <2>3. ~Filled(inputIndex)
    BY <1>1, <1>6, <2>1, FilledAfterPush DEF PoolInv
  <2>4. PopInv'
    <3>1. inputIndex' # outputIndex /\ outputIndex \in Slots
      BY <1>6 DEF PoolInv, PoolTypes
    <3> QED BY <1>1, <1>2, <2>2, <3>1 DEF PoolInv, PopInv, Popping
  <2>5. \A i \in Slots : Filled(i) => buffer[i] # current
    <3> SUFFICES ASSUME NEW i \in Slots, Filled(i), buffer[i] = current PROVE FALSE
      OBVIOUS
    <3>1. CASE InRing(current)
      BY <1>3, <3>1 DEF PoolInv, PlacesInv
    <3>2. CASE ~InRing(current)
      <4>1. PICK u \in Poppers : i = outputIndex /\ pc[u] = "publish"
        BY <3>2 DEF InRing
      <4>2. held[u] = current
        BY <4>1 DEF PoolInv, PopInv
      <4> QED BY <1>3, <4>2 DEF PoolInv, PlacesInv
    <3> QED BY <3>1, <3>2
  <2>6. RingInv'
    BY <1>3, <2>2, <2>3, <2>5 DEF PoolInv, RingInv
  <2>7. \A x : InRing(x)' => InRing(x) \/ x = current
    BY <1>1, <1>2, <2>2 DEF InRing
  <2>8. \A u \in Poppers : held[u] # current
    BY <1>3 DEF PoolInv, PlacesInv
  <2>9. PlacesInv'
    BY <1>1, <1>3, <2>7, <2>8 DEF PoolInv, PlacesInv
  <2>10. RefusedInv'
    BY <1>1, <1>3, <2>7 DEF PoolInv, PoolTypes, RefusedInv
  <2> QED BY <1>4, <2>1, <2>4, <2>6, <2>9, <2>10 DEF PoolInv
<1> QED
  BY <1>5, <1>6 DEF Recycle

LEMMA PoolStep == PoolInv /\ PopsAlternate /\ [PoolNext]_poolVars => PoolInv'
<1> SUFFICES ASSUME PoolInv, PopsAlternate, [PoolNext]_poolVars PROVE PoolInv'
  OBVIOUS
<1>1. CASE UNCHANGED poolVars
  BY <1>1 DEF poolVars, PoolInv, PoolTypes, ThreadInv, PopInv, RingInv, PlacesInv, RefusedInv, InRing, Filled
<1> QED
  BY <1>1, CallPopKeeps, PopFindsEmptyKeeps, PopTakesKeeps, PopPublishesKeeps, SubmitKeeps,
     DequeueKeeps, NothingToReceiveKeeps, RecycleKeeps DEF PoolNext

-----------------------------------------------------------------------------
(* What holds of the pool as long as the pops alternate *)

LEMMA PoolInvariance == PoolSpec /\ []PopsAlternate => []PoolInv
<1>1. PoolInit => PoolInv
  BY PoolInitInv
<1>2. PoolInv /\ PopsAlternate /\ [PoolNext]_poolVars => PoolInv'
  BY PoolStep
<1> QED
  BY <1>1, <1>2, PTL DEF PoolSpec

\* SendRequest, SetupConnectSocket and CallReceiveReady never work on the same
\* CustomOverlapped, and never on one that Winsock has, if no two of them are in
\* pop at a time, for every number of objects and any threads.
THEOREM PoolIsExclusive == PoolSpec /\ []PopsAlternate => []ExclusiveUse
<1>1. PoolInv => ExclusiveUse
  <2> SUFFICES ASSUME PoolInv, NEW o \in Overlappeds
               PROVE  uses[o] + Cardinality({t \in Poppers : held[t] = o}) + (IF current = o THEN 1 ELSE 0) <= 1
    BY DEF ExclusiveUse
  <2> DEFINE H == {t \in Poppers : held[t] = o}
  <2>1. uses[o] \in {0, 1} /\ (current = o => uses[o] = 0)
    BY DEF PoolInv, PoolTypes, PlacesInv
  <2>2. CASE H = {}
    <3>1. Cardinality(H) = 0
      BY <2>2, FS_EmptySet
    <3> QED BY <2>1, <3>1
  <2>3. CASE H # {}
    <3>1. PICK t \in Poppers : held[t] = o
      BY <2>3
    <3>2. uses[o] = 0 /\ current # o /\ H = {t}
      BY <3>1 DEF PoolInv, PlacesInv
    <3>3. Cardinality(H) = 1
      BY <3>2, FS_Singleton
    <3> QED BY <3>2, <3>3
  <2> QED BY <2>2, <2>3
<1> QED
  BY <1>1, PoolInvariance, PTL

\* A full ring holds every object except one that is in a thread's hands.
LEMMA PushFindsRoom == PoolInv /\ pc[NetThread] = "recycle" => After(inputIndex) # outputIndex
<1> SUFFICES ASSUME PoolInv, pc[NetThread] = "recycle", After(inputIndex) = outputIndex
             PROVE  FALSE
  OBVIOUS
<1> DEFINE S == Slots \ {inputIndex}
           T == Overlappeds \ {current}
           f == [i \in S |-> buffer[i]]
<1>1. OverlappedQueueMax \in Nat /\ inputIndex \in Slots
  BY PoolIsLargeEnough DEF PoolInv, PoolTypes
<1>2. current \in Overlappeds
  BY DEF PoolInv, PoolTypes, ThreadInv, Poppers
<1>3. IsFiniteSet(Slots) /\ Cardinality(Slots) = OverlappedQueueMax + 1
  BY <1>1, FS_Interval DEF Slots
<1>4. IsFiniteSet(Overlappeds) /\ Cardinality(Overlappeds) = OverlappedQueueMax
  BY <1>1, FS_Interval DEF Overlappeds
<1>5. IsFiniteSet(S) /\ Cardinality(S) = OverlappedQueueMax
  BY <1>1, <1>3, FS_RemoveElement
<1>6. IsFiniteSet(T) /\ Cardinality(T) = OverlappedQueueMax - 1
  BY <1>1, <1>2, <1>4, FS_RemoveElement
<1>7. \A i \in S : Filled(i)
  BY FullRing DEF PoolInv
<1>8. \A i \in S : buffer[i] \in T
  <2> SUFFICES ASSUME NEW i \in S PROVE buffer[i] \in T
    OBVIOUS
  <2>1. buffer[i] \in Overlappeds
    BY <1>7 DEF PoolInv, PoolTypes, RingInv
  <2>2. CASE InRing(buffer[i])
    BY <2>1, <2>2 DEF PoolInv, PlacesInv
  <2>3. CASE ~InRing(buffer[i])
    <3>1. PICK t \in Poppers : i = outputIndex /\ pc[t] = "publish"
      BY <1>7, <2>3 DEF InRing
    <3>2. held[t] = buffer[i]
      BY <3>1 DEF PoolInv, PopInv
    <3> QED BY <2>1, <3>2 DEF PoolInv, PlacesInv
  <2> QED BY <2>2, <2>3
<1>9. f \in [S -> T]
  BY <1>8
<1>10. \E x, y \in S : x # y /\ f[x] = f[y]
  <2> HIDE DEF S, T, f
  <2>1. Cardinality(T) < Cardinality(S)
    BY <1>1, <1>5, <1>6
  <2> QED BY <1>5, <1>6, <1>9, <2>1, FS_PigeonHole
<1> QED
  BY <1>7, <1>10 DEF PoolInv, RingInv

\* What nobody can reach was refused.
OnlyRefusedLost == \A o \in Overlappeds : Reachable(o) \/ o \in refused

LEMMA OnlyRefusedLostStep ==
    PoolInv /\ PopsAlternate /\ OnlyRefusedLost /\ [PoolNext]_poolVars => OnlyRefusedLost'
<1> SUFFICES ASSUME PoolInv, PopsAlternate, OnlyRefusedLost, [PoolNext]_poolVars,
                    NEW o \in Overlappeds
             PROVE  (Reachable(o) \/ o \in refused)'
  BY DEF OnlyRefusedLost
<1>1. Reachable(o) \/ o \in refused
  BY DEF OnlyRefusedLost
<1>2. CASE \/ UNCHANGED poolVars
           \/ NothingToReceive
           \/ \E t \in Poppers : CallPop(t) \/ PopFindsEmpty(t)
  <2>1. UNCHANGED <<inputIndex, outputIndex, buffer, held, current, uses, refused>>
    BY <1>2 DEF poolVars, NothingToReceive, CallPop, PopFindsEmpty
  <2> QED BY <1>1, <2>1 DEF Reachable, Filled
<1>3. ASSUME NEW t \in Poppers, PopTakes(t)
      PROVE  (Reachable(o) \/ o \in refused)'
  <2>1. /\ \A u \in Poppers : u # t => held'[u] = held[u]
        /\ held[t] = NoOverlapped
        /\ UNCHANGED <<inputIndex, outputIndex, buffer, current, uses, refused>>
    BY <1>3 DEF PopTakes, PoolInv, PoolTypes, ThreadInv
  <2>2. o # NoOverlapped
    BY DEF Overlappeds, NoOverlapped
  <2> QED BY <1>1, <2>1, <2>2 DEF Reachable, Filled
<1>4. ASSUME NEW t \in Poppers, PopPublishes(t)
      PROVE  (Reachable(o) \/ o \in refused)'
  <2>1. /\ outputIndex # inputIndex /\ outputIndex' = After(outputIndex)
        /\ held[t] = buffer[outputIndex]
        /\ UNCHANGED <<inputIndex, buffer, held, current, uses, refused>>
    BY <1>4 DEF PopPublishes, PoolInv, PopInv, Popping
  <2>2. \A i \in Slots : Filled(i)' <=> Filled(i) /\ i # outputIndex
    BY <2>1, FilledAfterPop DEF PoolInv
  <2> QED BY <1>1, <2>1, <2>2 DEF Reachable
<1>5. ASSUME NEW t \in Poppers, Submit(t)
      PROVE  (Reachable(o) \/ o \in refused)'
  <2>1. /\ \A u \in Poppers : u # t => held'[u] = held[u]
        /\ \/ uses' = [uses EXCEPT ![held[t]] = @ + 1] /\ refused' = refused
           \/ refused' = refused \union {held[t]} /\ uses' = uses
        /\ UNCHANGED <<inputIndex, outputIndex, buffer, current>>
    BY <1>5 DEF Submit, PoolInv, PoolTypes
  <2>2. uses[o] \in {0, 1} /\ uses \in [Overlappeds -> {0, 1}]
    BY DEF PoolInv, PoolTypes
  <2>3. CASE held[t] = o
    BY <2>1, <2>2, <2>3 DEF Reachable
  <2>4. CASE held[t] # o
    <3>1. uses'[o] = uses[o] /\ (o \in refused => o \in refused')
      BY <2>1, <2>2, <2>4
    <3> QED BY <1>1, <2>1, <2>4, <3>1 DEF Reachable, Filled
  <2> QED BY <2>3, <2>4
<1>6. CASE Dequeue
  <2>1. PICK p \in Overlappeds : current' = p /\ uses' = [uses EXCEPT ![p] = @ - 1]
    BY <1>6 DEF Dequeue
  <2>2. current = NoOverlapped /\ o # NoOverlapped
    BY <1>6 DEF Dequeue, PoolInv, ThreadInv, Overlappeds, NoOverlapped
  <2>3. UNCHANGED <<inputIndex, outputIndex, buffer, held, refused>>
    BY <1>6 DEF Dequeue
  <2>4. o # p => uses'[o] = uses[o]
    BY <2>1 DEF PoolInv, PoolTypes
  <2> QED BY <1>1, <2>1, <2>2, <2>3, <2>4 DEF Reachable, Filled
<1>7. CASE Recycle
  <2>1. /\ After(inputIndex) # outputIndex
        /\ buffer' = [buffer EXCEPT ![inputIndex] = current]
        /\ inputIndex' = After(inputIndex)
        /\ UNCHANGED <<outputIndex, held, uses, refused>>
    BY <1>7, PushFindsRoom DEF Recycle
  <2>2. \A i \in Slots : /\ Filled(i)' <=> Filled(i) \/ i = inputIndex
                         /\ buffer'[i] = IF i = inputIndex THEN current ELSE buffer[i]
    BY <2>1, FilledAfterPush DEF PoolInv, PoolTypes
  <2>3. inputIndex \in Slots /\ ~Filled(inputIndex)
    BY <2>1, FilledAfterPush DEF PoolInv, PoolTypes
  <2> QED BY <1>1, <2>1, <2>2, <2>3 DEF Reachable
<1> QED
  BY <1>2, <1>3, <1>4, <1>5, <1>6, <1>7 DEF PoolNext

\* A filled slot that is not in the ring is the one a thread has just emptied.
LEMMA RefusedAreUnreachable == PoolInv => \A o \in refused : ~Reachable(o)
<1> SUFFICES ASSUME PoolInv, NEW o \in refused PROVE ~Reachable(o)
  OBVIOUS
<1>1. uses[o] = 0 /\ current # o /\ (\A t \in Poppers : held[t] # o) /\ ~InRing(o)
  BY DEF PoolInv, RefusedInv
<1>2. ASSUME NEW i \in Slots, Filled(i), buffer[i] = o PROVE FALSE
  <2>1. PICK t \in Poppers : i = outputIndex /\ pc[t] = "publish"
    BY <1>1, <1>2 DEF InRing
  <2>2. held[t] = o
    BY <1>2, <2>1 DEF PoolInv, PopInv
  <2> QED BY <1>1, <2>2
<1> QED
  BY <1>1, <1>2 DEF Reachable

\* As long as the pops alternate, an object leaves the pool only when Winsock
\* refuses its operation at once, never because push finds no room or a handler
\* keeps it, and an object that left never turns up again.
THEOREM PoolLosesOnlyRefused == PoolSpec /\ []PopsAlternate => []LostExactlyIfRefused
<1>1. PoolInit => OnlyRefusedLost
  <2> SUFFICES ASSUME PoolInit, NEW o \in Overlappeds, o > AcceptsPosted
               PROVE  \E i \in Slots : Filled(i) /\ buffer[i] = o
    <3>1. \A o \in Overlappeds : o <= AcceptsPosted \/ o > AcceptsPosted
      BY PoolIsLargeEnough DEF Overlappeds
    <3>2. PoolInit => \A o \in Overlappeds : o <= AcceptsPosted => uses[o] > 0 \/ o \in refused
      BY DEF PoolInit
    <3> QED BY <3>1, <3>2 DEF OnlyRefusedLost, Reachable
  <2>1. /\ OverlappedQueueMax \in Nat /\ AcceptsPosted \in Nat
        /\ o - 1 \in 0 .. OverlappedQueueMax /\ o - 1 < OverlappedQueueMax /\ AcceptsPosted <= o - 1
        /\ (o - 1) + 1 = o
    BY PoolIsLargeEnough DEF Overlappeds
  <2>2. buffer[o - 1] = o
    BY <2>1 DEF PoolInit, Slots
  <2>3. Filled(o - 1)
    BY <2>1 DEF PoolInit, Filled
  <2> QED BY <2>1, <2>2, <2>3 DEF Slots
<1>2. OnlyRefusedLost /\ PoolInv /\ PopsAlternate /\ [PoolNext]_poolVars => OnlyRefusedLost'
  BY OnlyRefusedLostStep
<1>3. OnlyRefusedLost /\ PoolInv => LostExactlyIfRefused
  BY RefusedAreUnreachable DEF OnlyRefusedLost, LostExactlyIfRefused
<1> QED
  BY <1>1, <1>2, <1>3, PoolInvariance, PTL DEF PoolSpec

\* The network thread alone, as in a server without answers, needs no lock.
THEOREM ReceiversSharePool ==
    ASSUME OtherPoppers = {}
    PROVE  PoolSpec => []ExclusiveUse /\ []LostExactlyIfRefused
<1>1. PopsAlternate
  BY DEF PopsAlternate, Poppers
<1> QED
  BY <1>1, PoolIsExclusive, PoolLosesOnlyRefused, PTL

-----------------------------------------------------------------------------
(* ConnectedSocketMap: the inductive invariant *)

Inserting == {"prepare", "link", "raise", "linked"}
Erasing == {"unlink", "clear", "destroy"}

\* The node that is being inserted or erased is reached at level l.
NodeOn(l) ==
    \/ writer \in {"prepare", "link"} /\ l < level
    \/ writer \in {"raise", "linked"} /\ l <= level
    \/ writer = "unlink" /\ level <= l /\ l < height[node]
    \/ writer = "clear" /\ level < l /\ l < height[node]

\* The nodes that can be reached at level l.
Linked(l) == {n \in Keys : n \in OnLevel(l) \/ (n = node /\ NodeOn(l))}

\* m is the node after n at level l, or Null.
IsNext(l, n, m) ==
    /\ m \in Linked(l) \union {Null}
    /\ n < m
    /\ \A x \in Linked(l) : n < x => m <= x

MapTypes ==
    /\ next \in [Nodes -> [Levels -> Keys \union {Null}]]
    /\ height \in [Keys -> 0 .. MaxLevel]
    /\ maxHeight \in 0 .. MaxLevel
    /\ alive \subseteq Nodes
    /\ inserted \subseteq Keys
    /\ used \subseteq Keys
    /\ writer \in {"idle"} \union Inserting \union Erasing
    /\ node \in Nodes
    /\ level \in Levels
    /\ reader \in {"idle", "load", "compare", "check", "found", "missed"}
    /\ target \in Nodes
    /\ prev \in Nodes
    /\ curr \in Keys \union {Null}
    /\ at \in Int
    /\ stayed \in BOOLEAN
    /\ calm \in BOOLEAN

\* The nodes in the list exist and are not higher than the map knows.
NodesInv ==
    /\ Head \in alive
    /\ inserted \subseteq used
    /\ inserted \subseteq alive
    /\ \A k \in inserted : height[k] \in 1 .. maxHeight

\* The node in hand.
WriterInv ==
    writer # "idle" =>
        /\ node \in used /\ node \in alive /\ node \notin inserted
        /\ level < height[node]
        /\ writer = "raise" => level = 0
        /\ writer \in Inserting \ {"raise"} /\ (level > 0 \/ writer = "linked") => height[node] <= maxHeight

\* Every pointer that can be followed leads to the next node of its level.
LinksInv == \A l \in Levels : \A n \in {Head} \union Linked(l) : IsNext(l, n, next[n][l])

\* So does that of a node about to be linked.
PreparedInv == writer = "link" => IsNext(level, node, next[node][level])

\* A search that no erasure overlaps stands on a node of its level, before its
\* target, and has not passed it.
ReaderInv ==
    calm =>
        /\ writer \notin Erasing
        /\ reader # "idle" => target \in Keys
        /\ reader \in {"load", "compare", "check"} =>
               prev \in {Head} \union Linked(at) /\ prev < target
        /\ reader \in {"compare", "check", "found"} => curr \in Linked(0) \union {Null}
        /\ reader \in {"compare", "check"} => curr \in Linked(at) \union {Null}
        /\ reader = "compare" /\ at = 0 /\ stayed => curr <= target
        /\ reader = "check" => at = 0 /\ (stayed => curr <= target) /\ target <= curr
        /\ reader = "found" => curr = target
        /\ reader = "missed" => ~stayed

\* Of every search: it is on a level of the list, and knows what is erased.
SearchInv ==
    /\ stayed => target \in inserted
    /\ reader \in {"load", "compare", "check"} => at \in Levels

ListInv == MapTypes /\ NodesInv /\ WriterInv /\ LinksInv /\ PreparedInv

MapInv == ListInv /\ SearchInv /\ ReaderInv

-----------------------------------------------------------------------------
(* Keys, levels and neighbours *)

LEMMA KeysAndNull ==
    /\ SocketCount \in Nat /\ MaxLevel \in Nat /\ 0 \in Levels
    /\ Null \in Nat /\ Null \notin Keys /\ Head \notin Keys /\ Head \in Nat /\ Head < Null
    /\ \A k \in Keys : k \in Nat /\ Head < k /\ k < Null
BY SizesArePositive DEF Levels, Null, Keys, Head

LEMMA LinkedAreKeys ==
    ASSUME MapTypes, NEW l
    PROVE  OnLevel(l) \subseteq Linked(l) /\ Linked(l) \subseteq Keys /\ OnLevel(l) \subseteq Keys
BY DEF MapTypes, OnLevel, Linked

\* The position that insert and erase look up on a level.
LEMMA BeforeIsLast ==
    ASSUME MapTypes, NEW l, NEW k \in Keys
    PROVE  /\ Before(l, k) \in {Head} \union OnLevel(l)
           /\ Before(l, k) < k
           /\ \A n \in OnLevel(l) : n < k => n <= Before(l, k)
<1> DEFINE S == {Head} \union {n \in OnLevel(l) : n < k}
<1>1. S \in SUBSET (0 .. SocketCount) /\ S # {}
  BY KeysAndNull, LinkedAreKeys DEF Keys, Head
<1>2. Max(S) \in S /\ \A y \in S : y <= Max(S)
  <2> HIDE DEF S
  <2> QED BY <1>1, KeysAndNull, MaxIsGreatest
<1> QED
  BY <1>2, KeysAndNull DEF Before

\* Among the nodes of a level the next one is the least of those that follow.
LEMMA NextIsMin ==
    ASSUME MapTypes, NEW l, NEW n \in Nodes, NEW m, Linked(l) = OnLevel(l), IsNext(l, n, m)
    PROVE  m = Min({Null} \union {x \in OnLevel(l) : x > n})
<1> DEFINE S == {Null} \union {x \in OnLevel(l) : x > n}
<1>1. S \in SUBSET (0 .. SocketCount + 1) /\ S # {} /\ n \in Nat
  BY KeysAndNull, LinkedAreKeys DEF Keys, Nodes, Null
<1>2. Min(S) \in S /\ \A y \in S : Min(S) <= y
  <2>1. SocketCount + 1 \in Nat
    BY KeysAndNull
  <2> HIDE DEF S
  <2> QED BY <1>1, <2>1, MinIsLeast
<1>3. m \in S /\ m \in Nat
  BY <1>1, KeysAndNull, LinkedAreKeys DEF IsNext
<1>4. \A y \in S : m <= y
  BY <1>1, KeysAndNull, LinkedAreKeys DEF IsNext
<1>5. Min(S) \in Nat
  BY <1>1, <1>2
<1> QED
  BY <1>2, <1>3, <1>4, <1>5

LEMMA NextSet ==
    ASSUME MapTypes, NEW n \in Nodes, NEW l \in Levels, NEW m \in Keys \union {Null}, SetNext(n, l, m)
    PROVE  /\ next' \in [Nodes -> [Levels -> Keys \union {Null}]]
           /\ \A x \in Nodes, y \in Levels :
                  next'[x][y] = IF x = n /\ y = l THEN m ELSE next[x][y]
BY DEF MapTypes, SetNext

\* A step that neither links nor unlinks a node nor changes a pointer of one.
LEMMA SameLinks ==
    ASSUME LinksInv,
           \A l \in Levels : Linked(l)' = Linked(l),
           \A l \in Levels : \A n \in {Head} \union Linked(l) : next'[n][l] = next[n][l]
    PROVE  LinksInv'
BY DEF LinksInv, IsNext

-----------------------------------------------------------------------------
(* The network thread keeps the list *)

\* An insertion, or a step that changes no level: a search does not notice it.
Grows ==
    /\ \A l \in Levels : Linked(l) \subseteq Linked(l)'
    /\ inserted \subseteq inserted'
    /\ writer' \notin Erasing
    /\ UNCHANGED readerVars

\* The Linked(l) are the same in two states that agree on what they depend on.
LEMMA LinkedStays ==
    ASSUME UNCHANGED <<inserted, height, node>>, NEW l, NodeOn(l)' <=> NodeOn(l)
    PROVE  Linked(l)' = Linked(l)
BY DEF Linked, OnLevel

LEMMA ListInit == Init => ListInv
<1> SUFFICES ASSUME Init PROVE ListInv
  OBVIOUS
<1> USE KeysAndNull DEF Init
<1>1. MapTypes
  <2>1. next \in [Nodes -> [Levels -> Keys \union {Null}]]
    OBVIOUS
  <2>2. height \in [Keys -> 0 .. MaxLevel] /\ maxHeight \in 0 .. MaxLevel
    OBVIOUS
  <2>3. alive \subseteq Nodes /\ inserted \subseteq Keys /\ used \subseteq Keys
    BY DEF Nodes
  <2>4. /\ writer \in {"idle"} \union Inserting \union Erasing
        /\ node \in Nodes /\ level \in Levels
    BY DEF Nodes
  <2>5. /\ reader \in {"idle", "load", "compare", "check", "found", "missed"}
        /\ target \in Nodes /\ prev \in Nodes /\ curr \in Keys \union {Null} /\ at \in Int
    BY DEF Nodes
  <2>6. stayed \in BOOLEAN /\ calm \in BOOLEAN
    BY Zenon
  <2> QED BY <2>1, <2>2, <2>3, <2>4, <2>5, <2>6 DEF MapTypes
<1>2. NodesInv /\ WriterInv /\ PreparedInv
  BY DEF NodesInv, WriterInv, PreparedInv
<1>3. \A l \in Levels : Linked(l) = {}
  BY DEF Linked, OnLevel, NodeOn
<1>4. LinksInv
  BY <1>3 DEF LinksInv, IsNext, Nodes
<1> QED
  BY <1>1, <1>2, <1>4 DEF ListInv

LEMMA InsertKeeps ==
    ASSUME ListInv, NEW k \in Keys, Insert(k)
    PROVE  ListInv' /\ Grows
<1> USE DEF readerVars
<1>1. PICK h \in 1 .. MaxLevel : height' = [height EXCEPT ![k] = h]
  BY DEF Insert
<1>2. /\ writer = "idle" /\ k \notin used /\ used' = used \union {k} /\ alive' = alive \union {k}
      /\ writer' = "prepare" /\ node' = k /\ level' = 0
      /\ UNCHANGED <<next, maxHeight, inserted, readerVars>>
  BY DEF Insert
<1>3. k \notin inserted /\ k \in Nodes
  BY <1>2 DEF ListInv, NodesInv, Nodes
<1>4. height'[k] = h /\ \A n \in inserted : height'[n] = height[n]
  BY <1>1, <1>3 DEF ListInv, MapTypes
<1>5. MapTypes'
  <2>1. h \in 0 .. MaxLevel
    BY KeysAndNull
  <2>2. height' \in [Keys -> 0 .. MaxLevel]
    BY <1>1, <2>1 DEF ListInv, MapTypes
  <2> QED BY <1>2, <1>3, <2>2, KeysAndNull DEF ListInv, MapTypes, Nodes, Inserting
<1>6. NodesInv'
  BY <1>2, <1>4 DEF ListInv, NodesInv
<1>7. WriterInv'
  BY <1>2, <1>3, <1>4 DEF WriterInv, Inserting
<1>8. \A l \in Levels : Linked(l)' = Linked(l)
  <2> SUFFICES ASSUME NEW l \in Levels PROVE Linked(l)' = Linked(l)
    OBVIOUS
  <2>1. ~NodeOn(l) /\ ~NodeOn(l)'
    BY <1>2 DEF NodeOn, Levels
  <2>2. OnLevel(l)' = OnLevel(l)
    BY <1>2, <1>4 DEF OnLevel
  <2> QED BY <2>1, <2>2 DEF Linked
<1>9. LinksInv'
  BY <1>2, <1>8, SameLinks DEF ListInv
<1> QED
  BY <1>2, <1>5, <1>6, <1>7, <1>8, <1>9 DEF ListInv, PreparedInv, Grows, Erasing

\* While it is prepared or linked the node is not yet on its level.
LEMMA NotYetLinked ==
    ASSUME ListInv, writer \in {"prepare", "link"}
    PROVE  /\ node \in Keys /\ node \in Nodes /\ node \notin inserted /\ node # Head
           /\ Linked(level) = OnLevel(level)
           /\ node \notin Linked(level)
           /\ Before(level, node) \in {Head} \union Linked(level)
           /\ Before(level, node) \in Nodes
           /\ Before(level, node) < node
           /\ \A n \in Linked(level) : n < node => n <= Before(level, node)
<1>1. node \in Keys /\ node \notin inserted /\ node \in Nodes /\ node # Head
  BY KeysAndNull DEF ListInv, WriterInv, MapTypes, Nodes
<1>2. Linked(level) = OnLevel(level)
  <2>1. ~NodeOn(level)
    BY DEF NodeOn, ListInv, MapTypes, Levels
  <2> QED BY <2>1, LinkedAreKeys DEF Linked, ListInv
<1>3. node \notin Linked(level)
  BY <1>1, <1>2 DEF OnLevel
<1> QED
  BY <1>1, <1>2, <1>3, BeforeIsLast, LinkedAreKeys DEF ListInv, Nodes

LEMMA PrepareKeeps == ListInv /\ Prepare => ListInv' /\ Grows
<1> SUFFICES ASSUME ListInv, Prepare PROVE ListInv' /\ Grows
  OBVIOUS
<1> USE DEF readerVars
<1> DEFINE b == Before(level, node)
           m == next[b][level]
<1>1. /\ writer = "prepare" /\ writer' = "link" /\ SetNext(node, level, m)
      /\ UNCHANGED <<height, maxHeight, alive, inserted, used, node, level, readerVars>>
  BY DEF Prepare
<1>2. level \in Levels /\ b \in Nodes /\ b \in {Head} \union Linked(level) /\ node \in Keys
  BY <1>1, NotYetLinked DEF ListInv, MapTypes
<1>3. IsNext(level, b, m) /\ m \in Keys \union {Null}
  BY <1>2 DEF ListInv, LinksInv, MapTypes
<1>4. /\ next' \in [Nodes -> [Levels -> Keys \union {Null}]]
      /\ \A x \in Nodes, y \in Levels : next'[x][y] = IF x = node /\ y = level THEN m ELSE next[x][y]
  BY <1>1, <1>2, <1>3, NextSet DEF ListInv, MapTypes
<1>5. MapTypes' /\ NodesInv' /\ WriterInv'
  BY <1>1, <1>4 DEF ListInv, MapTypes, NodesInv, WriterInv, Inserting
<1>6. \A l : Linked(l)' = Linked(l)
  BY <1>1, LinkedStays DEF NodeOn
<1>7. LinksInv'
  <2>1. \A l \in Levels : \A n \in {Head} \union Linked(l) : next'[n][l] = next[n][l]
    <3> SUFFICES ASSUME NEW l \in Levels, NEW n \in {Head} \union Linked(l)
                 PROVE  n \in Nodes /\ ~(n = node /\ l = level)
      BY <1>4
    <3> QED BY <1>1, NotYetLinked, LinkedAreKeys DEF Nodes, ListInv
  <2> QED BY <1>6, <2>1, SameLinks DEF ListInv
<1>8. PreparedInv'
  <2>1. node < m
    <3>1. b \in Nat /\ node \in Nat /\ m \in Nat
      BY <1>2, <1>3, KeysAndNull DEF Nodes
    <3>2. CASE m = Null
      BY <1>2, <3>2, KeysAndNull
    <3>3. CASE m \in Linked(level)
      BY <1>1, <1>3, <3>1, <3>3, NotYetLinked DEF IsNext
    <3> QED BY <1>3, <3>2, <3>3 DEF IsNext
  <2>2. \A x \in Linked(level) : node < x => m <= x
    <3> SUFFICES ASSUME NEW x \in Linked(level), node < x PROVE m <= x
      OBVIOUS
    <3>1. b \in Nat /\ node \in Nat /\ x \in Nat /\ b < node
      BY <1>1, <1>2, NotYetLinked, LinkedAreKeys, KeysAndNull DEF Nodes, ListInv
    <3> QED BY <1>3, <3>1 DEF IsNext
  <2>3. next'[node][level] = m
    BY <1>1, <1>2, <1>4, NotYetLinked
  <2> QED BY <1>1, <1>3, <1>6, <2>1, <2>2, <2>3 DEF PreparedInv, IsNext
<1> QED
  BY <1>1, <1>5, <1>6, <1>7, <1>8 DEF ListInv, Grows, Erasing

LEMMA LinkKeeps == ListInv /\ Link => ListInv' /\ Grows
<1> SUFFICES ASSUME ListInv, Link PROVE ListInv' /\ Grows
  OBVIOUS
<1> USE DEF readerVars
<1> DEFINE b == Before(level, node)
           m == next[node][level]
<1>1. /\ writer = "link" /\ writer' = (IF level = 0 THEN "raise" ELSE "linked")
      /\ SetNext(b, level, node)
      /\ UNCHANGED <<height, maxHeight, alive, inserted, used, node, level, readerVars>>
  BY DEF Link
<1>2. level \in Levels /\ b \in Nodes /\ b \in {Head} \union Linked(level) /\ node \in Keys
  BY <1>1, NotYetLinked DEF ListInv, MapTypes
<1>3. /\ next' \in [Nodes -> [Levels -> Keys \union {Null}]]
      /\ \A x \in Nodes, y \in Levels : next'[x][y] = IF x = b /\ y = level THEN node ELSE next[x][y]
  BY <1>1, <1>2, NextSet DEF ListInv, MapTypes
<1>4. MapTypes' /\ NodesInv' /\ WriterInv'
  <2>1. MapTypes'
    BY <1>1, <1>3 DEF ListInv, MapTypes, Inserting
  <2>2. NodesInv'
    BY <1>1 DEF ListInv, NodesInv
  <2>3. level = 0 \/ level > 0
    BY <1>2 DEF Levels
  <2>4. WriterInv'
    BY <1>1, <2>3 DEF ListInv, WriterInv, Inserting
  <2> QED BY <2>1, <2>2, <2>4
<1>5. \A l \in Levels : Linked(l)' = IF l = level THEN Linked(l) \union {node} ELSE Linked(l)
  <2> SUFFICES ASSUME NEW l \in Levels
               PROVE  Linked(l)' = IF l = level THEN Linked(l) \union {node} ELSE Linked(l)
    OBVIOUS
  <2>1. OnLevel(l)' = OnLevel(l)
    BY <1>1 DEF OnLevel
  <2>2. NodeOn(l) <=> l < level
    BY <1>1 DEF NodeOn
  <2>3. NodeOn(l)' <=> l <= level
    BY <1>1 DEF NodeOn
  <2>4. level \in Int /\ l \in Int
    BY <1>2 DEF Levels
  <2> QED BY <1>1, <1>2, <2>1, <2>2, <2>3, <2>4 DEF Linked
<1>6. ASSUME NEW l \in Levels, NEW n \in {Head} \union Linked(l)'
      PROVE  /\ next'[n][l] \in Linked(l)' \union {Null}
             /\ n < next'[n][l]
             /\ \A x \in Linked(l)' : n < x => next'[n][l] <= x
  <2>1. CASE l # level
    <3>1. Linked(l)' = Linked(l)
      BY <1>5, <2>1
    <3>2. n \in Nodes
      BY <3>1, LinkedAreKeys DEF Nodes, ListInv
    <3>3. next'[n][l] = next[n][l]
      BY <1>3, <2>1, <3>2
    <3> QED BY <3>1, <3>3 DEF ListInv, LinksInv, IsNext
  <2>2. CASE l = level /\ n = node
    <3>1. IsNext(level, node, m)
      BY <1>1 DEF ListInv, PreparedInv
    <3>2. b # node
      BY <1>1, <1>2, NotYetLinked
    <3>3. next'[node][level] = m
      BY <1>1, <1>2, <1>3, <3>2, NotYetLinked
    <3>4. ~(node < node)
      BY <1>2, KeysAndNull
    <3> QED BY <1>5, <2>2, <3>1, <3>3, <3>4 DEF IsNext
  <2>3. CASE l = level /\ n # node /\ n = b
    <3>1. next'[b][level] = node
      BY <1>2, <1>3
    <3>2. \A x \in Linked(level) : b < x => node <= x
      <4> SUFFICES ASSUME NEW x \in Linked(level), b < x PROVE node <= x
        OBVIOUS
      <4>1. x \in Nat /\ node \in Nat /\ b \in Nat
        BY <1>2, LinkedAreKeys, KeysAndNull DEF ListInv, Nodes
      <4> QED BY <1>1, <4>1, NotYetLinked
    <3>3. b < node /\ node <= node
      BY <1>1, <1>2, NotYetLinked, KeysAndNull
    <3> QED BY <1>2, <1>5, <2>3, <3>1, <3>2, <3>3 DEF IsNext
  <2>4. CASE l = level /\ n # node /\ n # b
    <3>1. n \in {Head} \union Linked(level)
      BY <1>5, <2>4
    <3>2. n \in Nodes
      BY <3>1, LinkedAreKeys DEF Nodes, ListInv
    <3>3. next'[n][l] = next[n][l]
      BY <1>3, <2>4, <3>2
    <3>4. IsNext(level, n, next[n][level])
      BY <1>2, <3>1 DEF ListInv, LinksInv
    <3>5. n < node => next[n][level] <= node
      <4> SUFFICES ASSUME n < node PROVE next[n][level] <= node
        OBVIOUS
      <4>1. /\ n \in Nat /\ node \in Nat /\ b \in Nat /\ next[n][level] \in Nat
            /\ Head <= b /\ Head \in Nat
        <5>1. next[n][level] \in Keys \union {Null}
          BY <1>2, <3>2 DEF ListInv, MapTypes
        <5>2. b = Head \/ b \in Keys
          BY <1>2 DEF Nodes
        <5>3. n = Head \/ n \in Keys
          BY <3>2 DEF Nodes
        <5>4. Head <= Head
          BY KeysAndNull
        <5>5. Head <= b /\ b \in Nat
          BY <5>2, <5>4, KeysAndNull
        <5> QED BY <1>2, <5>1, <5>3, <5>5, KeysAndNull
      <4>2. b < node /\ n <= b
        <5>1. n \in Linked(level) => n <= b
          BY <1>1, NotYetLinked
        <5> QED BY <1>1, <3>1, <4>1, <5>1, NotYetLinked
      <4>3. n < b /\ b # Head
        BY <2>4, <3>2, <4>1, <4>2, KeysAndNull DEF Nodes
      <4>4. next[n][level] <= b
        BY <1>2, <3>4, <4>3 DEF IsNext
      <4> QED BY <4>1, <4>2, <4>4
    <3> QED BY <1>5, <2>4, <3>3, <3>4, <3>5 DEF IsNext
  <2> QED BY <2>1, <2>2, <2>3, <2>4
<1>7. LinksInv' /\ PreparedInv'
  BY <1>1, <1>6 DEF LinksInv, PreparedInv, IsNext
<1> QED
  BY <1>1, <1>4, <1>5, <1>7 DEF ListInv, Grows, Erasing

\* my_max_height never falls below the height of a node in the list.
LEMMA RaiseKeeps == ListInv /\ Raise => ListInv' /\ Grows
<1> SUFFICES ASSUME ListInv, Raise PROVE ListInv' /\ Grows
  OBVIOUS
<1> USE DEF readerVars
<1> DEFINE S == {maxHeight, height[node]}
<1>1. /\ writer = "raise" /\ writer' = "linked" /\ maxHeight' = Max(S)
      /\ UNCHANGED <<next, height, alive, inserted, used, node, level, readerVars>>
  BY DEF Raise
<1>2. node \in Keys /\ height[node] \in 0 .. MaxLevel /\ maxHeight \in 0 .. MaxLevel
  BY <1>1 DEF ListInv, WriterInv, MapTypes
<1>3. Max(S) \in S /\ \A y \in S : y <= Max(S)
  <2>1. S \in SUBSET (0 .. MaxLevel) /\ S # {} /\ MaxLevel \in Nat
    BY <1>2, KeysAndNull
  <2> HIDE DEF S
  <2> QED BY <2>1, MaxIsGreatest
<1>4. maxHeight' \in 0 .. MaxLevel /\ maxHeight <= maxHeight' /\ height[node] <= maxHeight'
  BY <1>1, <1>2, <1>3
<1>5. MapTypes'
  BY <1>1, <1>4 DEF ListInv, MapTypes, Inserting
<1>6. NodesInv'
  <2>1. ASSUME NEW k \in inserted PROVE height[k] \in 1 .. maxHeight'
    <3>1. height[k] \in 1 .. maxHeight
      BY DEF ListInv, NodesInv
    <3> QED BY <1>2, <1>4, <3>1
  <2> QED BY <1>1, <2>1 DEF ListInv, NodesInv
<1>7. WriterInv'
  BY <1>1, <1>4 DEF ListInv, WriterInv, Inserting
<1>8. \A l : Linked(l)' = Linked(l)
  BY <1>1, LinkedStays DEF NodeOn
<1>9. LinksInv'
  BY <1>1, <1>8, SameLinks DEF ListInv
<1> QED
  BY <1>1, <1>5, <1>6, <1>7, <1>8, <1>9 DEF ListInv, PreparedInv, Grows, Erasing

LEMMA LinkHigherKeeps == ListInv /\ LinkHigher => ListInv' /\ Grows
<1> SUFFICES ASSUME ListInv, LinkHigher PROVE ListInv' /\ Grows
  OBVIOUS
<1> USE DEF readerVars, listVars
<1>1. /\ writer = "linked" /\ writer' = "prepare" /\ level' = level + 1 /\ level + 1 < height[node]
      /\ UNCHANGED <<listVars, node, readerVars>>
  BY DEF LinkHigher
<1>2. node \in Keys /\ height[node] \in 0 .. MaxLevel /\ level \in Levels /\ MaxLevel \in Nat
  BY <1>1, KeysAndNull DEF ListInv, WriterInv, MapTypes
<1>3. level' \in Levels /\ level' > 0
  BY <1>1, <1>2 DEF Levels
<1>4. MapTypes'
  BY <1>1, <1>3 DEF ListInv, MapTypes, Inserting
<1>5. NodesInv'
  BY <1>1 DEF ListInv, NodesInv
<1>6. WriterInv'
  BY <1>1, <1>3 DEF ListInv, WriterInv, Inserting
<1>7. \A l \in Levels : Linked(l)' = Linked(l)
  <2> SUFFICES ASSUME NEW l \in Levels PROVE NodeOn(l)' <=> NodeOn(l)
    BY <1>1, LinkedStays
  <2> QED BY <1>1, <1>2 DEF NodeOn, Levels
<1>8. LinksInv'
  BY <1>1, <1>7, SameLinks DEF ListInv
<1> QED
  BY <1>1, <1>4, <1>5, <1>6, <1>7, <1>8 DEF ListInv, PreparedInv, Grows, Erasing

\* The node is on its highest level: it is in the list as any other.
LEMMA InsertReturnsKeeps == ListInv /\ InsertReturns => ListInv' /\ Grows
<1> SUFFICES ASSUME ListInv, InsertReturns PROVE ListInv' /\ Grows
  OBVIOUS
<1> USE DEF readerVars
<1>1. /\ writer = "linked" /\ writer' = "idle" /\ inserted' = inserted \union {node}
      /\ level + 1 = height[node]
      /\ UNCHANGED <<next, height, maxHeight, alive, used, node, level, readerVars>>
  BY DEF InsertReturns
<1>2. /\ node \in Keys /\ node \in used /\ node \in alive /\ level \in Levels
      /\ height[node] \in 0 .. MaxLevel /\ maxHeight \in 0 .. MaxLevel /\ MaxLevel \in Nat
      /\ height[node] <= maxHeight
  BY <1>1, KeysAndNull DEF ListInv, WriterInv, MapTypes, Inserting
<1>3. MapTypes'
  BY <1>1, <1>2 DEF ListInv, MapTypes
<1>4. NodesInv'
  <2>1. height[node] \in 1 .. maxHeight
    BY <1>1, <1>2 DEF Levels
  <2> QED BY <1>1, <1>2, <2>1 DEF ListInv, NodesInv
<1>5. WriterInv' /\ PreparedInv'
  BY <1>1 DEF WriterInv, PreparedInv
<1>6. \A l \in Levels : Linked(l)' = Linked(l)
  <2> SUFFICES ASSUME NEW l \in Levels PROVE Linked(l)' = Linked(l)
    OBVIOUS
  <2>1. NodeOn(l) <=> height[node] > l
    BY <1>1, <1>2 DEF NodeOn, Levels
  <2>2. ~NodeOn(l)'
    BY <1>1 DEF NodeOn
  <2> QED BY <1>1, <2>1, <2>2 DEF Linked, OnLevel
<1>7. LinksInv'
  BY <1>1, <1>6, SameLinks DEF ListInv
<1> QED
  BY <1>1, <1>3, <1>4, <1>5, <1>6, <1>7 DEF ListInv, Grows, Erasing

\* Nothing is unlinked yet, but a search in progress is no longer calm.
LEMMA EraseKeeps ==
    ASSUME ListInv, NEW k \in Keys, Erase(k)
    PROVE  ListInv'
<1>1. /\ writer = "idle" /\ k \in inserted /\ inserted' = inserted \ {k}
      /\ writer' = "unlink" /\ node' = k /\ level' = 0
      /\ UNCHANGED <<next, height, maxHeight, alive, used, reader, target, prev, curr, at>>
      /\ calm' = FALSE /\ stayed' = (stayed /\ target # k)
  BY DEF Erase
<1>2. height[k] \in 1 .. maxHeight /\ maxHeight \in 0 .. MaxLevel /\ k \in used /\ k \in alive
  BY <1>1 DEF ListInv, NodesInv, MapTypes
<1>3. MapTypes'
  BY <1>1, KeysAndNull DEF ListInv, MapTypes, Erasing, Nodes
<1>4. NodesInv'
  BY <1>1 DEF ListInv, NodesInv
<1>5. WriterInv' /\ PreparedInv'
  BY <1>1, <1>2 DEF WriterInv, PreparedInv, Inserting
<1>6. \A l \in Levels : Linked(l)' = Linked(l)
  <2> SUFFICES ASSUME NEW l \in Levels PROVE Linked(l)' = Linked(l)
    OBVIOUS
  <2>1. ~NodeOn(l)
    BY <1>1 DEF NodeOn
  <2>2. NodeOn(l)' <=> height[k] > l
    BY <1>1, <1>2 DEF NodeOn, Levels
  <2> QED BY <1>1, <2>1, <2>2 DEF Linked, OnLevel
<1>7. LinksInv'
  BY <1>1, <1>6, SameLinks DEF ListInv
<1> QED
  BY <1>3, <1>4, <1>5, <1>7 DEF ListInv

\* The node leaves one level: its predecessor there takes over its pointer.
LEMMA UnlinkKeeps == ListInv /\ Unlink => ListInv'
<1> SUFFICES ASSUME ListInv, Unlink PROVE ListInv'
  OBVIOUS
<1> DEFINE b == Before(level, node)
           m == next[node][level]
<1>1. /\ writer = "unlink" /\ writer' = "clear" /\ SetNext(b, level, m)
      /\ UNCHANGED <<height, maxHeight, alive, inserted, used, node, level, readerVars>>
  BY DEF Unlink
<1>2. /\ level \in Levels /\ node \in Keys /\ node \in Nodes /\ node \notin inserted
      /\ level < height[node]
  BY <1>1 DEF ListInv, WriterInv, MapTypes, Nodes
<1>3. /\ b \in {Head} \union OnLevel(level) /\ b < node
      /\ \A n \in OnLevel(level) : n < node => n <= b
  BY <1>2, BeforeIsLast DEF ListInv
<1>4. /\ b \in Nodes /\ b \in Nat /\ node \in Nat
      /\ m \in Keys \union {Null} /\ m \in Nat
  <2>1. b \in Nodes
    BY <1>3, LinkedAreKeys DEF Nodes, ListInv
  <2>2. m \in Keys \union {Null}
    BY <1>2 DEF ListInv, MapTypes
  <2> QED BY <1>2, <2>1, <2>2, KeysAndNull DEF Nodes
<1>5. /\ next' \in [Nodes -> [Levels -> Keys \union {Null}]]
      /\ \A x \in Nodes, y \in Levels : next'[x][y] = IF x = b /\ y = level THEN m ELSE next[x][y]
  BY <1>1, <1>2, <1>4, NextSet DEF ListInv
<1>6. Linked(level) = OnLevel(level) \union {node} /\ node \notin OnLevel(level)
  <2>1. NodeOn(level)
    BY <1>1, <1>2 DEF NodeOn, Levels
  <2> QED BY <1>2, <2>1, LinkedAreKeys DEF Linked, OnLevel, ListInv
<1>7. \A l \in Levels : Linked(l)' = IF l = level THEN OnLevel(level) ELSE Linked(l)
  <2> SUFFICES ASSUME NEW l \in Levels
               PROVE  Linked(l)' = IF l = level THEN OnLevel(level) ELSE Linked(l)
    OBVIOUS
  <2>1. OnLevel(l)' = OnLevel(l)
    BY <1>1 DEF OnLevel
  <2>2. NodeOn(l)' <=> NodeOn(l) /\ l # level
    BY <1>1, <1>2 DEF NodeOn, Levels
  <2> QED BY <1>1, <2>1, <2>2, LinkedAreKeys DEF Linked, ListInv
<1>8. IsNext(level, node, m)
  BY <1>2, <1>6 DEF ListInv, LinksInv
<1>9. ASSUME NEW l \in Levels, NEW n \in {Head} \union Linked(l)'
      PROVE  /\ next'[n][l] \in Linked(l)' \union {Null}
             /\ n < next'[n][l]
             /\ \A x \in Linked(l)' : n < x => next'[n][l] <= x
  <2>1. CASE l # level
    <3>1. Linked(l)' = Linked(l)
      BY <1>7, <2>1
    <3>2. n \in Nodes
      BY <3>1, LinkedAreKeys DEF Nodes, ListInv
    <3>3. next'[n][l] = next[n][l]
      BY <1>5, <2>1, <3>2
    <3> QED BY <3>1, <3>3 DEF ListInv, LinksInv, IsNext
  <2>2. CASE l = level /\ n = b
    <3>1. next'[b][level] = m
      BY <1>2, <1>4, <1>5
    <3>2. m \in OnLevel(level) \union {Null} /\ b < m
      BY <1>3, <1>4, <1>6, <1>8 DEF IsNext
    <3>3. \A x \in OnLevel(level) : b < x => m <= x
      <4> SUFFICES ASSUME NEW x \in OnLevel(level), b < x PROVE m <= x
        OBVIOUS
      <4>1. x \in Nat /\ x # node
        BY <1>6, LinkedAreKeys, KeysAndNull DEF ListInv
      <4>2. node < x
        BY <1>3, <1>4, <4>1
      <4> QED BY <1>6, <1>8, <4>2 DEF IsNext
    <3> QED BY <1>7, <2>2, <3>1, <3>2, <3>3
  <2>3. CASE l = level /\ n # b
    <3>1. n \in {Head} \union OnLevel(level) /\ n \in Nodes /\ n \in Nat
      BY <1>7, <2>3, LinkedAreKeys, KeysAndNull DEF Nodes, ListInv
    <3>2. next'[n][l] = next[n][l]
      BY <1>5, <2>3, <3>1
    <3>3. IsNext(level, n, next[n][level])
      BY <1>2, <1>6, <3>1 DEF ListInv, LinksInv
    <3>4. next[n][level] \in Nat
      <4>1. next[n][level] \in Keys \union {Null}
        BY <1>2, <3>1 DEF ListInv, MapTypes
      <4> QED BY <4>1, KeysAndNull
    <3>5. next[n][level] # node
      <4> SUFFICES ASSUME next[n][level] = node PROVE FALSE
        OBVIOUS
      <4>1. n < node
        BY <3>3 DEF IsNext
      <4>2. n < b /\ b \in Linked(level)
        <5>1. n = Head \/ n <= b
          BY <1>3, <3>1, <4>1
        <5>2. b = Head \/ (b \in OnLevel(level) /\ Head < b)
          BY <1>3, LinkedAreKeys, KeysAndNull DEF ListInv
        <5>3. n = Head \/ Head < n
          BY <3>1, LinkedAreKeys, KeysAndNull DEF ListInv
        <5> QED BY <1>4, <1>6, <2>3, <3>1, <5>1, <5>2, <5>3, KeysAndNull
      <4>3. node <= b
        BY <3>3, <4>2 DEF IsNext
      <4> QED BY <1>3, <1>4, <4>3
    <3> QED BY <1>6, <1>7, <2>3, <3>2, <3>3, <3>5 DEF IsNext
  <2> QED BY <2>1, <2>2, <2>3
<1>10. MapTypes'
  BY <1>1, <1>5 DEF ListInv, MapTypes, Erasing, readerVars
<1>11. NodesInv'
  BY <1>1 DEF ListInv, NodesInv
<1>12. WriterInv' /\ PreparedInv'
  BY <1>1 DEF ListInv, WriterInv, PreparedInv, Inserting
<1>13. LinksInv'
  BY <1>9 DEF LinksInv, IsNext
<1> QED
  BY <1>10, <1>11, <1>12, <1>13 DEF ListInv

\* The node is off the level whose pointer is cleared, so no one can follow it.
LEMMA ClearNextKeeps == ListInv /\ ClearNext => ListInv'
<1> SUFFICES ASSUME ListInv, ClearNext PROVE ListInv'
  OBVIOUS
<1>1. /\ writer = "clear" /\ SetNext(node, level, Null)
      /\ UNCHANGED <<height, maxHeight, alive, inserted, used, node, readerVars>>
      /\ \/ level + 1 < height[node] /\ writer' = "unlink" /\ level' = level + 1
         \/ ~(level + 1 < height[node]) /\ writer' = "destroy" /\ level' = level
  BY DEF ClearNext
<1>2. /\ level \in Levels /\ node \in Keys /\ node \in Nodes /\ node \notin inserted
      /\ level < height[node] /\ height[node] \in 0 .. MaxLevel /\ MaxLevel \in Nat
  BY <1>1, KeysAndNull DEF ListInv, WriterInv, MapTypes, Nodes
<1>3. /\ next' \in [Nodes -> [Levels -> Keys \union {Null}]]
      /\ \A x \in Nodes, y \in Levels :
             next'[x][y] = IF x = node /\ y = level THEN Null ELSE next[x][y]
  BY <1>1, <1>2, NextSet DEF ListInv
<1>4. node \notin Linked(level)
  <2>1. ~NodeOn(level)
    BY <1>1, <1>2 DEF NodeOn, Levels
  <2> QED BY <1>2, <2>1 DEF Linked, OnLevel
<1>5. \A l \in Levels : Linked(l)' = Linked(l)
  <2> SUFFICES ASSUME NEW l \in Levels PROVE NodeOn(l)' <=> NodeOn(l)
    BY <1>1, LinkedStays
  <2> QED BY <1>1, <1>2 DEF NodeOn, Levels
<1>6. LinksInv'
  <2>1. \A l \in Levels : \A n \in {Head} \union Linked(l) : next'[n][l] = next[n][l]
    <3> SUFFICES ASSUME NEW l \in Levels, NEW n \in {Head} \union Linked(l)
                 PROVE  n \in Nodes /\ ~(n = node /\ l = level)
      BY <1>3
    <3> QED BY <1>2, <1>4, LinkedAreKeys, KeysAndNull DEF Nodes, ListInv
  <2> QED BY <1>5, <2>1, SameLinks DEF ListInv
<1>7. level' \in Levels /\ level' < height[node] /\ writer' \in Erasing /\ writer' \notin Inserting
  BY <1>1, <1>2 DEF Levels, Erasing, Inserting
<1>8. MapTypes'
  BY <1>1, <1>3, <1>7 DEF ListInv, MapTypes, readerVars
<1>9. NodesInv'
  BY <1>1 DEF ListInv, NodesInv
<1>10. WriterInv' /\ PreparedInv'
  BY <1>1, <1>7 DEF ListInv, WriterInv, PreparedInv, Inserting
<1> QED
  BY <1>6, <1>8, <1>9, <1>10 DEF ListInv

LEMMA DestroyKeeps == ListInv /\ Destroy => ListInv'
<1> SUFFICES ASSUME ListInv, Destroy PROVE ListInv'
  OBVIOUS
<1>1. /\ writer = "destroy" /\ writer' = "idle" /\ alive' = alive \ {node}
      /\ UNCHANGED <<next, height, maxHeight, inserted, used, node, level, readerVars>>
  BY DEF Destroy
<1>2. node \in Keys /\ node \notin inserted
  BY <1>1 DEF ListInv, WriterInv, MapTypes
<1>3. MapTypes'
  BY <1>1 DEF ListInv, MapTypes, readerVars
<1>4. NodesInv'
  BY <1>1, <1>2, KeysAndNull DEF ListInv, NodesInv
<1>5. \A l : Linked(l)' = Linked(l)
  BY <1>1, LinkedStays DEF NodeOn
<1>6. LinksInv'
  BY <1>1, <1>5, SameLinks DEF ListInv
<1> QED
  BY <1>1, <1>3, <1>4, <1>6 DEF ListInv, WriterInv, PreparedInv

-----------------------------------------------------------------------------
(* The job thread's searches *)

LEMMA LinkedAreAlive ==
    ASSUME ListInv, NEW l \in Levels
    PROVE  Linked(l) \subseteq alive
<1>1. NodeOn(l) => writer # "idle"
  BY DEF NodeOn
<1> QED
  BY <1>1 DEF ListInv, NodesInv, WriterInv, Linked, OnLevel

\* Unless a node is being erased, who is on a level is on those below it too.
LEMMA LevelsNest ==
    ASSUME ListInv, writer \notin Erasing, NEW l \in Levels, NEW k \in Levels, k <= l
    PROVE  Linked(l) \subseteq Linked(k)
<1>1. OnLevel(l) \subseteq OnLevel(k)
  BY DEF ListInv, MapTypes, OnLevel, Levels
<1>2. NodeOn(l) => NodeOn(k)
  BY DEF ListInv, MapTypes, NodeOn, Levels, Erasing
<1> QED
  BY <1>1, <1>2 DEF Linked

LEMMA InsertedAreLinked ==
    ASSUME ListInv
    PROVE  inserted \subseteq Linked(0)
BY DEF ListInv, NodesInv, MapTypes, OnLevel, Linked

\* The job thread only reads.
LEMMA ListStays ==
    ASSUME ListInv, UNCHANGED <<listVars, writerVars>>, MapTypes'
    PROVE  ListInv' /\ \A l : Linked(l)' = Linked(l)
<1> USE DEF listVars, writerVars
<1>1. \A l : Linked(l)' = Linked(l)
  BY LinkedStays DEF NodeOn
<1>2. LinksInv'
  BY <1>1, SameLinks DEF ListInv
<1>3. NodesInv' /\ WriterInv'
  BY DEF ListInv, NodesInv, WriterInv
<1>4. PreparedInv'
  BY <1>1 DEF ListInv, PreparedInv, IsNext
<1> QED
  BY <1>1, <1>2, <1>3, <1>4 DEF ListInv

LEMMA GrowsKeepsSearch == MapInv /\ ListInv' /\ Grows => MapInv'
<1> SUFFICES ASSUME MapInv, ListInv', Grows PROVE SearchInv' /\ ReaderInv'
  BY DEF MapInv
<1> USE DEF readerVars
<1>1. UNCHANGED readerVars /\ writer' \notin Erasing /\ inserted \subseteq inserted'
  BY DEF Grows
<1>2. \A l \in Levels : Linked(l) \subseteq Linked(l)'
  BY DEF Grows
<1>3. SearchInv'
  BY <1>1 DEF MapInv, SearchInv
<1>4. ReaderInv'
  <2> SUFFICES ASSUME calm PROVE ReaderInv'
    BY <1>1 DEF ReaderInv
  <2>1. \A n : n \in Linked(0) => n \in Linked(0)'
    BY <1>2, KeysAndNull
  <2>2. reader \in {"load", "compare", "check"} => \A n : n \in Linked(at) => n \in Linked(at)'
    <3> SUFFICES ASSUME at \in Levels PROVE \A n : n \in Linked(at) => n \in Linked(at)'
      BY DEF MapInv, SearchInv
    <3>1. PICK l \in Levels : l = at
      OBVIOUS
    <3>2. Linked(at)' = Linked(l)'
      BY <1>1, <3>1 DEF Linked, OnLevel, NodeOn
    <3> QED BY <1>2, <3>1, <3>2
  <2> QED BY <1>1, <2>1, <2>2 DEF MapInv, ReaderInv
<1> QED
  BY <1>3, <1>4

\* A search that an erasure overlaps promises nothing more.
LEMMA EraseKeepsSearch ==
    ASSUME MapInv, NEW k \in Keys, Erase(k)
    PROVE  MapInv'
<1>1. ListInv'
  BY EraseKeeps DEF MapInv
<1>2. ~calm' /\ reader' = reader /\ at' = at /\ target' = target
      /\ inserted' = inserted \ {k} /\ stayed' = (stayed /\ target # k)
  BY DEF Erase
<1>3. SearchInv' /\ ReaderInv'
  BY <1>2 DEF MapInv, SearchInv, ReaderInv
<1> QED
  BY <1>1, <1>3 DEF MapInv

LEMMA ErasingKeepsSearch == MapInv /\ (Unlink \/ ClearNext \/ Destroy) => MapInv'
<1> SUFFICES ASSUME MapInv, Unlink \/ ClearNext \/ Destroy PROVE MapInv'
  OBVIOUS
<1>1. ListInv'
  BY UnlinkKeeps, ClearNextKeeps, DestroyKeeps DEF MapInv
<1>2. writer \in Erasing /\ UNCHANGED <<inserted, readerVars>>
  BY DEF Unlink, ClearNext, Destroy, Erasing
<1>3. ~calm
  BY <1>2 DEF MapInv, ReaderInv
<1>4. SearchInv' /\ ReaderInv'
  BY <1>2, <1>3 DEF MapInv, SearchInv, ReaderInv, readerVars
<1> QED
  BY <1>1, <1>4 DEF MapInv

LEMMA FindKeeps ==
    ASSUME MapInv, NEW k \in Keys, Find(k)
    PROVE  MapInv'
<1>1. /\ target' = k /\ prev' = Head /\ curr' = Null /\ at' = maxHeight - 1
      /\ reader' = (IF maxHeight > 0 THEN "load" ELSE "missed")
      /\ stayed' = (k \in inserted)
      /\ calm' = (writer \notin {"unlink", "clear", "destroy"})
      /\ UNCHANGED <<listVars, writerVars>>
  BY DEF Find
<1>2. maxHeight \in 0 .. MaxLevel /\ MaxLevel \in Nat
  BY KeysAndNull DEF MapInv, ListInv, MapTypes
<1>3. MapTypes'
  <2>1. next' \in [Nodes -> [Levels -> Keys \union {Null}]]
        /\ height' \in [Keys -> 0 .. MaxLevel] /\ maxHeight' \in 0 .. MaxLevel
        /\ alive' \subseteq Nodes /\ inserted' \subseteq Keys /\ used' \subseteq Keys
        /\ writer' \in {"idle"} \union Inserting \union Erasing /\ node' \in Nodes
        /\ level' \in Levels
    BY <1>1 DEF MapInv, ListInv, MapTypes, listVars, writerVars
  <2>2. /\ reader' \in {"idle", "load", "compare", "check", "found", "missed"}
        /\ target' \in Nodes /\ prev' \in Nodes /\ curr' \in Keys \union {Null} /\ at' \in Int
    BY <1>1, <1>2 DEF Nodes
  <2>3. stayed' \in BOOLEAN /\ calm' \in BOOLEAN
    <3>1. stayed' \in BOOLEAN
      <4>1. stayed' = (k \in inserted)
        BY <1>1
      <4> QED BY <4>1
    <3>2. calm' \in BOOLEAN
      BY Zenon DEF Find
    <3> QED BY <3>1, <3>2
  <2> QED BY <2>1, <2>2, <2>3 DEF MapTypes
<1>4. ListInv' /\ \A l : Linked(l)' = Linked(l)
  BY <1>1, <1>3, ListStays DEF MapInv
<1>5. SearchInv'
  <2>1. stayed' => target' \in inserted'
    BY <1>1 DEF listVars
  <2>2. reader' \in {"load", "compare", "check"} => at' \in Levels
    BY <1>1, <1>2 DEF Levels
  <2> QED BY <2>1, <2>2 DEF SearchInv
<1>6. ReaderInv'
  <2>1. maxHeight = 0 => k \notin inserted
    BY DEF MapInv, ListInv, NodesInv
  <2>2. maxHeight = 0 \/ maxHeight > 0
    BY <1>2
  <2>3. calm' => writer' \notin Erasing
    BY <1>1 DEF Erasing, writerVars
  <2>4. target' \in Keys /\ prev' \in {Head} /\ prev' < target'
    BY <1>1, KeysAndNull
  <2>5. CASE maxHeight = 0
    BY <1>1, <2>1, <2>3, <2>4, <2>5 DEF ReaderInv
  <2>6. CASE maxHeight > 0
    BY <1>1, <2>3, <2>4, <2>6 DEF ReaderInv
  <2> QED BY <2>2, <2>5, <2>6
<1> QED
  BY <1>4, <1>5, <1>6 DEF MapInv

LEMMA LoadKeeps == MapInv /\ Load => MapInv'
<1> SUFFICES ASSUME MapInv, Load PROVE MapInv'
  OBVIOUS
<1>1. /\ reader = "load" /\ reader' = "compare"
      /\ curr' \in (IF prev \in alive THEN {next[prev][at]} ELSE Keys \union {Null})
      /\ UNCHANGED <<listVars, writerVars, target, prev, at, stayed, calm>>
  BY DEF Load
<1>2. at \in Levels /\ prev \in Nodes /\ target \in Nodes
  BY <1>1 DEF MapInv, SearchInv, ListInv, MapTypes
<1>3. curr' \in Keys \union {Null}
  BY <1>1, <1>2 DEF MapInv, ListInv, MapTypes
<1>4. MapTypes'
  BY <1>1, <1>3 DEF MapInv, ListInv, MapTypes, listVars, writerVars
<1>5. ListInv' /\ \A l : Linked(l)' = Linked(l)
  BY <1>1, <1>4, ListStays DEF MapInv
<1>6. SearchInv'
  BY <1>1, <1>2 DEF MapInv, SearchInv, listVars
<1>7. ReaderInv'
  <2> SUFFICES ASSUME calm PROVE ReaderInv'
    BY <1>1 DEF ReaderInv
  <2>1. /\ writer \notin Erasing /\ target \in Keys
        /\ prev \in {Head} \union Linked(at) /\ prev < target
    BY <1>1 DEF MapInv, ReaderInv
  <2>2. prev \in alive
    BY <1>2, <2>1, LinkedAreAlive DEF MapInv, ListInv, NodesInv
  <2>3. IsNext(at, prev, curr')
    BY <1>1, <1>2, <2>1, <2>2 DEF MapInv, ListInv, LinksInv
  <2>4. curr' \in Linked(at) \union {Null}
    BY <2>3 DEF IsNext
  <2>5. curr' \in Linked(0) \union {Null}
    <3>1. 0 \in Levels /\ 0 <= at
      BY <1>2, KeysAndNull DEF Levels
    <3> QED BY <1>2, <2>1, <2>4, <3>1, LevelsNest DEF MapInv
  <2>6. at = 0 /\ stayed => curr' <= target
    <3> SUFFICES ASSUME at = 0, stayed PROVE curr' <= target
      OBVIOUS
    <3>1. target \in Linked(0)
      BY InsertedAreLinked DEF MapInv, SearchInv
    <3> QED BY <2>1, <2>3, <3>1 DEF IsNext
  <2>7. Linked(at)' = Linked(at) /\ Linked(0)' = Linked(0)
    <3>1. PICK l \in Levels : l = at
      BY <1>2
    <3>2. Linked(at)' = Linked(l)'
      BY <1>1, <3>1 DEF Linked, OnLevel, NodeOn
    <3> QED BY <1>5, <3>1, <3>2
  <2> QED BY <1>1, <2>1, <2>4, <2>5, <2>6, <2>7 DEF ReaderInv, writerVars
<1> QED
  BY <1>5, <1>6, <1>7 DEF MapInv

\* What a calm search stands before: a node that exists, so its key is its own.
LEMMA CalmKey ==
    ASSUME MapInv, calm, reader \in {"compare", "check"}, curr # Null
    PROVE  /\ curr \in Linked(at) /\ curr \in Linked(0) /\ curr \in Keys
           /\ KeysReadFrom(curr) = {curr}
<1>1. curr \in Linked(at) /\ curr \in Linked(0)
  BY DEF MapInv, ReaderInv
<1>2. curr \in alive /\ curr \in Keys
  BY <1>1, KeysAndNull, LinkedAreAlive, LinkedAreKeys DEF MapInv, ListInv
<1> QED
  BY <1>1, <1>2 DEF KeysReadFrom

LEMMA CompareKeeps == MapInv /\ Compare => MapInv'
<1> SUFFICES ASSUME MapInv, Compare PROVE MapInv'
  OBVIOUS
<1>1. PICK less \in (IF curr = Null THEN {FALSE} ELSE {key < target : key \in KeysReadFrom(curr)}) :
          \/ less /\ prev' = curr /\ reader' = "load" /\ UNCHANGED at
          \/ ~less /\ at > 0 /\ at' = at - 1 /\ reader' = "load" /\ UNCHANGED prev
          \/ ~less /\ at = 0 /\ reader' = "check" /\ UNCHANGED <<at, prev>>
  BY DEF Compare
<1>2. reader = "compare" /\ UNCHANGED <<listVars, writerVars, target, curr, stayed, calm>>
  BY DEF Compare
<1>3. at \in Levels /\ at \in Nat /\ MaxLevel \in Nat /\ prev \in Nodes /\ curr \in Keys \union {Null}
  BY <1>2, KeysAndNull DEF MapInv, SearchInv, ListInv, MapTypes, Levels
<1>4. less => curr # Null /\ curr \in Keys
  BY <1>1, <1>3
<1>5. at' \in Levels /\ prev' \in Nodes /\ reader' \in {"load", "check"}
  BY <1>1, <1>3, <1>4 DEF Levels, Nodes
<1>6. MapTypes'
  BY <1>2, <1>5 DEF MapInv, ListInv, MapTypes, listVars, writerVars, Levels
<1>7. ListInv' /\ \A l : Linked(l)' = Linked(l)
  BY <1>2, <1>6, ListStays DEF MapInv
<1>8. SearchInv'
  BY <1>2, <1>5 DEF MapInv, SearchInv, listVars
<1>9. ReaderInv'
  <2> SUFFICES ASSUME calm PROVE ReaderInv'
    BY <1>2 DEF ReaderInv
  <2>1. /\ writer \notin Erasing /\ target \in Keys
        /\ prev \in {Head} \union Linked(at) /\ prev < target
        /\ curr \in Linked(at) \union {Null} /\ curr \in Linked(0) \union {Null}
        /\ at = 0 /\ stayed => curr <= target
    BY <1>2 DEF MapInv, ReaderInv
  <2>2. curr # Null => (less <=> curr < target)
    BY <1>1, <1>2, CalmKey
  <2>3. target' = target /\ curr' = curr /\ stayed' = stayed /\ writer' = writer
    BY <1>2 DEF writerVars
  <2>4. ASSUME NEW l \in Levels, l = at' PROVE Linked(at)' = Linked(l)
    <3>1. Linked(at)' = Linked(l)'
      BY <2>4 DEF Linked, OnLevel, NodeOn
    <3> QED BY <1>7, <3>1
  <2>5. CASE less /\ prev' = curr /\ reader' = "load" /\ at' = at
    <3>1. curr \in Linked(at) /\ curr < target
      BY <1>4, <2>1, <2>2, <2>5
    <3>2. Linked(at)' = Linked(at)
      BY <1>3, <2>4, <2>5
    <3> QED BY <2>1, <2>3, <2>5, <3>1, <3>2 DEF ReaderInv
  <2>6. CASE ~less /\ at > 0 /\ at' = at - 1 /\ reader' = "load" /\ prev' = prev
    <3>1. at - 1 \in Levels /\ at - 1 <= at
      BY <1>3, <2>6 DEF Levels
    <3>2. Linked(at) \subseteq Linked(at - 1)
      BY <1>3, <2>1, <3>1, LevelsNest DEF MapInv
    <3>3. Linked(at)' = Linked(at - 1)
      BY <2>4, <2>6, <3>1
    <3> QED BY <2>1, <2>3, <2>6, <3>2, <3>3 DEF ReaderInv
  <2>7. CASE ~less /\ at = 0 /\ reader' = "check" /\ at' = at /\ prev' = prev
    <3>1. Linked(at)' = Linked(at) /\ Linked(0)' = Linked(0)
      BY <1>3, <1>7, <2>4, <2>7
    <3>2. target <= curr
      <4>1. target \in Nat /\ target < Null
        BY <2>1, KeysAndNull
      <4>2. CASE curr = Null
        BY <4>1, <4>2, KeysAndNull
      <4>3. CASE curr # Null
        BY <1>3, <2>2, <2>7, <4>1, <4>3, KeysAndNull
      <4> QED BY <4>2, <4>3
    <3> QED BY <2>1, <2>3, <2>7, <3>1, <3>2 DEF ReaderInv
  <2> QED BY <1>1, <2>5, <2>6, <2>7
<1> QED
  BY <1>7, <1>8, <1>9 DEF MapInv

LEMMA CheckKeeps == MapInv /\ Check => MapInv'
<1> SUFFICES ASSUME MapInv, Check PROVE MapInv'
  OBVIOUS
<1>1. PICK greater \in (IF curr = Null THEN {TRUE} ELSE {target < key : key \in KeysReadFrom(curr)}) :
          reader' = IF greater THEN "missed" ELSE "found"
  BY DEF Check
<1>2. /\ reader = "check"
      /\ UNCHANGED <<listVars, writerVars, target, prev, curr, at, stayed, calm>>
  BY DEF Check
<1>3. reader' \in {"missed", "found"}
  BY <1>1
<1>4. MapTypes'
  BY <1>2, <1>3 DEF MapInv, ListInv, MapTypes, listVars, writerVars
<1>5. ListInv' /\ \A l : Linked(l)' = Linked(l)
  BY <1>2, <1>4, ListStays DEF MapInv
<1>6. SearchInv'
  BY <1>2, <1>3 DEF MapInv, SearchInv, listVars
<1>7. ReaderInv'
  <2> SUFFICES ASSUME calm PROVE ReaderInv'
    BY <1>2 DEF ReaderInv
  <2>1. /\ writer \notin Erasing /\ target \in Keys /\ target \in Nat /\ target < Null
        /\ curr \in Linked(0) \union {Null} /\ (stayed => curr <= target) /\ target <= curr
    BY <1>2, KeysAndNull DEF MapInv, ReaderInv
  <2>2. target' = target /\ curr' = curr /\ stayed' = stayed /\ writer' = writer
    BY <1>2 DEF writerVars
  <2>3. curr \in Nat /\ Null \in Nat
    BY <2>1, LinkedAreKeys, KeysAndNull DEF MapInv, ListInv
  <2>4. greater <=> target < curr
    <3>1. CASE curr = Null
      BY <1>1, <2>1, <3>1
    <3>2. CASE curr # Null
      BY <1>1, <1>2, <3>2, CalmKey
    <3> QED BY <3>1, <3>2
  <2>5. CASE greater
    <3>1. ~stayed
      BY <2>1, <2>3, <2>4, <2>5
    <3> QED BY <1>1, <2>1, <2>2, <2>5, <3>1 DEF ReaderInv
  <2>6. CASE ~greater
    <3>1. curr = target
      BY <2>1, <2>3, <2>4, <2>6
    <3>2. Linked(0)' = Linked(0)
      BY <1>5
    <3> QED BY <1>1, <2>1, <2>2, <2>6, <3>1, <3>2 DEF ReaderInv
  <2> QED BY <2>5, <2>6
<1> QED
  BY <1>5, <1>6, <1>7 DEF MapInv

LEMMA ReturnKeeps == MapInv /\ Return => MapInv'
<1> SUFFICES ASSUME MapInv, Return PROVE MapInv'
  OBVIOUS
<1>1. /\ reader' = "idle"
      /\ UNCHANGED <<listVars, writerVars, target, prev, curr, at, stayed, calm>>
  BY DEF Return
<1>2. MapTypes'
  BY <1>1 DEF MapInv, ListInv, MapTypes, listVars, writerVars
<1>3. ListInv'
  BY <1>1, <1>2, ListStays DEF MapInv
<1>4. SearchInv' /\ ReaderInv'
  BY <1>1 DEF MapInv, SearchInv, ReaderInv, listVars, writerVars
<1> QED
  BY <1>3, <1>4 DEF MapInv

-----------------------------------------------------------------------------
(* The theorems about the map *)

LEMMA MapStep == MapInv /\ [Next]_vars => MapInv'
<1> SUFFICES ASSUME MapInv, [Next]_vars PROVE MapInv'
  OBVIOUS
<1>1. CASE \E k \in Keys : Insert(k)
  BY <1>1, InsertKeeps, GrowsKeepsSearch DEF MapInv
<1>2. CASE \E k \in Keys : Erase(k)
  BY <1>2, EraseKeepsSearch
<1>3. CASE Prepare \/ Link \/ Raise \/ LinkHigher \/ InsertReturns
  BY <1>3, PrepareKeeps, LinkKeeps, RaiseKeeps, LinkHigherKeeps, InsertReturnsKeeps,
     GrowsKeepsSearch DEF MapInv
<1>4. CASE Unlink \/ ClearNext \/ Destroy
  BY <1>4, ErasingKeepsSearch
<1>5. CASE \E k \in Keys : Find(k)
  BY <1>5, FindKeeps
<1>6. CASE Load \/ Compare \/ Check \/ Return
  BY <1>6, LoadKeeps, CompareKeeps, CheckKeeps, ReturnKeeps
<1>7. CASE UNCHANGED vars
  <2>1. UNCHANGED <<listVars, writerVars>> /\ UNCHANGED readerVars
    BY <1>7 DEF vars
  <2>2. MapTypes'
    BY <2>1 DEF MapInv, ListInv, MapTypes, listVars, writerVars, readerVars
  <2>3. ListInv' /\ \A l : Linked(l)' = Linked(l)
    BY <2>1, <2>2, ListStays DEF MapInv
  <2>4. Linked(at)' = Linked(at)
    BY <2>1 DEF Linked, OnLevel, NodeOn, listVars, writerVars, readerVars
  <2>5. SearchInv' /\ ReaderInv'
    BY <2>1, <2>3, <2>4 DEF MapInv, SearchInv, ReaderInv, listVars, writerVars, readerVars
  <2> QED BY <2>3, <2>5 DEF MapInv
<1> QED
  BY <1>1, <1>2, <1>3, <1>4, <1>5, <1>6, <1>7 DEF Next, NetworkThread, JobThread

THEOREM MapInvariance == Spec => []MapInv
<1>1. Init => MapInv
  <2>1. Init => SearchInv /\ ReaderInv
    BY DEF Init, SearchInv, ReaderInv, Erasing
  <2> QED BY <2>1, ListInit DEF MapInv
<1> QED
  BY <1>1, MapStep, PTL DEF Spec

\* Whatever the network thread inserts and erases, between two calls each level
\* of _connectedSocketMap holds the nodes high enough for it in order.
THEOREM LevelsStayOrdered == Spec => []KeepsOrder
<1>1. MapInv => KeepsOrder
  <2> SUFFICES ASSUME MapInv, writer = "idle", NEW l \in Levels, NEW n \in {Head} \union OnLevel(l)
               PROVE  next[n][l] = Min({Null} \union {m \in OnLevel(l) : m > n})
    BY DEF KeepsOrder
  <2>1. Linked(l) = OnLevel(l)
    <3>1. ~NodeOn(l)
      BY DEF NodeOn
    <3> QED BY <3>1, LinkedAreKeys DEF Linked, MapInv, ListInv
  <2>2. n \in Nodes
    BY LinkedAreKeys DEF Nodes, MapInv, ListInv
  <2>3. IsNext(l, n, next[n][l])
    BY <2>1 DEF MapInv, ListInv, LinksInv
  <2> QED BY <2>1, <2>2, <2>3, NextIsMin DEF MapInv, ListInv
<1> QED
  BY <1>1, MapInvariance, PTL

\* At every step of insert and unsafe_erase what can be reached has not been
\* deleted: a node is off all its levels before delete_value_node.
THEOREM NothingIsLeftDangling == Spec => []NothingDangles
<1>1. MapInv => NothingDangles
  <2> SUFFICES ASSUME MapInv, NEW l \in Levels, NEW n \in {Head} \union OnLevel(l)
               PROVE  next[n][l] \in alive \union {Null}
    BY DEF NothingDangles
  <2>1. IsNext(l, n, next[n][l])
    BY LinkedAreKeys DEF MapInv, ListInv, LinksInv
  <2> QED BY <2>1, LinkedAreAlive DEF IsNext, MapInv
<1> QED
  BY <1>1, MapInvariance, PTL

\* The find of SendRequest, however many connections are inserted meanwhile: if no
\* disconnect overlaps it, it finds a connected socket and touches no deleted node.
THEOREM CalmFindsAreRight == Spec => []CalmFindIsRight
<1>1. MapInv => CalmFindIsRight
  <2> SUFFICES ASSUME MapInv, calm
               PROVE  /\ reader = "missed" => ~stayed
                      /\ reader = "found" => curr = target
                      /\ reader = "load" => prev \in alive
                      /\ reader \in {"compare", "check", "found"} => curr \in alive \union {Null}
    BY DEF CalmFindIsRight
  <2>1. Head \in alive /\ Linked(0) \subseteq alive
    BY KeysAndNull, LinkedAreAlive DEF MapInv, ListInv, NodesInv
  <2>2. reader = "load" => Linked(at) \subseteq alive
    BY LinkedAreAlive DEF MapInv, SearchInv
  <2> QED BY <2>1, <2>2 DEF MapInv, ReaderInv
<1> QED
  BY <1>1, MapInvariance, PTL
=============================================================================
