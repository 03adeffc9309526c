---------------------------- MODULE OverlappedPool ----------------------------
(***************************************************************************)
(* NetworkManager::_overlappedQueue, the ring of CustomOverlapped pointers *)
(* as the threads of a server use it: the network thread takes an object   *)
(* in CallReceiveReady and gives back the one whose completion it handled, *)
(* a job thread takes one in SendRequest and the main thread takes one in  *)
(* SetupConnectSocket.  No lock covers the pops.                           *)
(*                                                                         *)
(* The objects are 1 .. OverlappedQueueMax.  The ring starts as Construct  *)
(* and the calls of PrepareAcceptSocket leave it.  An operation that       *)
(* Winsock refuses at once has no completion: the caller returns and the   *)
(* pointer it popped is gone.  The variable refused, which no action       *)
(* reads, remembers those objects.                                         *)
(***************************************************************************)
EXTENDS Integers, FiniteSets

CONSTANTS
    OverlappedQueueMax, \* how many objects Construct allocates
    AcceptsPosted,      \* how many of them the posted accepts use
    NetThread,          \* the thread in ProcessCompletionHandler
    OtherPoppers        \* the other threads that pop: none in a server that only receives

ASSUME PoolIsLargeEnough ==
    OverlappedQueueMax \in Nat /\ AcceptsPosted \in 1 .. OverlappedQueueMax
ASSUME NetThreadIsItself == NetThread \notin OtherPoppers

Poppers == OtherPoppers \union {NetThread}
Overlappeds == 1 .. OverlappedQueueMax
NoOverlapped == 0
Slots == 0 .. OverlappedQueueMax

After(i) == (i + 1) % (OverlappedQueueMax + 1)

VARIABLES
    inputIndex, outputIndex, buffer,    \* the ring
    pc,                 \* where each thread is
    currentOutputIndex, \* the local of pop
    held,               \* the object each thread has popped and not yet submitted
    current,            \* the object whose completion the network thread handles
    uses,               \* how many operations each object is in flight for
    refused             \* the objects whose operation was refused at once

poolVars == <<inputIndex, outputIndex, buffer, pc, currentOutputIndex, held, current, uses, refused>>

PoolInit ==
    /\ inputIndex = OverlappedQueueMax
    /\ outputIndex = AcceptsPosted
    /\ buffer = [i \in Slots |-> IF i < OverlappedQueueMax THEN i + 1 ELSE NoOverlapped]
    /\ pc = [t \in Poppers |-> "idle"]
    /\ currentOutputIndex = [t \in Poppers |-> 0]
    /\ held = [t \in Poppers |-> NoOverlapped]
    /\ current = NoOverlapped
    /\ refused \in SUBSET (1 .. AcceptsPosted)
    /\ uses = [o \in Overlappeds |-> IF o <= AcceptsPosted /\ o \notin refused THEN 1 ELSE 0]

Goto(t, p) == pc' = [pc EXCEPT ![t] = p]

-----------------------------------------------------------------------------
(* pop, and the operation it is for *)

\* The network thread pops while it handles a completion, the others at any time.
CallPop(t) ==
    /\ pc[t] = IF t = NetThread THEN "handle" ELSE "idle"
    /\ currentOutputIndex' = [currentOutputIndex EXCEPT ![t] = outputIndex]
    /\ Goto(t, "check")
    /\ UNCHANGED <<inputIndex, outputIndex, buffer, held, current, uses, refused>>

\* pop answers a null pointer, which its callers dereference: the thread is gone.
PopFindsEmpty(t) ==
    /\ pc[t] = "check"
    /\ currentOutputIndex[t] = inputIndex
    /\ Goto(t, "dead")
    /\ UNCHANGED <<inputIndex, outputIndex, buffer, currentOutputIndex, held, current, uses, refused>>

\* Moving a raw pointer out of its slot leaves it there too.
PopTakes(t) ==
    /\ pc[t] = "check"
    /\ currentOutputIndex[t] # inputIndex
    /\ held' = [held EXCEPT ![t] = buffer[currentOutputIndex[t]]]
    /\ Goto(t, "publish")
    /\ UNCHANGED <<inputIndex, outputIndex, buffer, currentOutputIndex, current, uses, refused>>

\* Mutant of PopPublishes: the index stays where it was.
PopWithoutAdvance(t) ==
    /\ pc[t] = "publish"
    /\ Goto(t, "submit")
    /\ UNCHANGED <<inputIndex, outputIndex, buffer, currentOutputIndex, held, current, uses, refused>>

PopPublishes(t) ==
    /\ pc[t] = "publish"
    /\ outputIndex' = After(currentOutputIndex[t])
    /\ Goto(t, "submit")
    /\ UNCHANGED <<inputIndex, buffer, currentOutputIndex, held, current, uses, refused>>

\* Clear, the Setting of the operation, and WSARecv, WSASend or ConnectEx, which
\* takes the object or answers with an error, on which the caller returns.
Submit(t) ==
    /\ pc[t] = "submit"
    /\ \/ uses' = [uses EXCEPT ![held[t]] = @ + 1] /\ UNCHANGED refused
       \/ refused' = refused \union {held[t]} /\ UNCHANGED uses
    /\ held' = [held EXCEPT ![t] = NoOverlapped]
    /\ Goto(t, IF t = NetThread THEN "recycle" ELSE "idle")
    /\ UNCHANGED <<inputIndex, outputIndex, buffer, currentOutputIndex, current>>

-----------------------------------------------------------------------------
(* The network thread *)

Dequeue ==
    /\ pc[NetThread] = "idle"
    /\ \E o \in Overlappeds :
           /\ uses[o] > 0
           /\ current' = o
           /\ uses' = [uses EXCEPT ![o] = @ - 1]
    /\ Goto(NetThread, "handle")
    /\ UNCHANGED <<inputIndex, outputIndex, buffer, currentOutputIndex, held, refused>>

\* Mutant of NothingToReceive: a handler returns without the push at the end of the loop.
NothingToRecycle ==
    /\ pc[NetThread] = "handle"
    /\ Goto(NetThread, "idle")
    /\ UNCHANGED <<inputIndex, outputIndex, buffer, currentOutputIndex, held, current, uses, refused>>

\* A completed send, or an error: nothing is received.
NothingToReceive ==
    /\ pc[NetThread] = "handle"
    /\ Goto(NetThread, "recycle")
    /\ UNCHANGED <<inputIndex, outputIndex, buffer, currentOutputIndex, held, current, uses, refused>>

\* overlapped->Clear() and the push of its pointer, which a full ring refuses.
Recycle ==
    /\ pc[NetThread] = "recycle"
    /\ IF After(inputIndex) = outputIndex
       THEN UNCHANGED <<buffer, inputIndex>>
       ELSE /\ buffer' = [buffer EXCEPT ![inputIndex] = current]
            /\ inputIndex' = After(inputIndex)
    /\ current' = NoOverlapped
    /\ Goto(NetThread, "idle")
    /\ UNCHANGED <<outputIndex, currentOutputIndex, held, uses, refused>>

PoolNext ==
    \/ \E t \in Poppers : CallPop(t) \/ PopFindsEmpty(t) \/ PopTakes(t) \/ PopPublishes(t) \/ Submit(t)
    \/ Dequeue
    \/ NothingToReceive
    \/ Recycle

PoolSpec == PoolInit /\ [][PoolNext]_poolVars

-----------------------------------------------------------------------------
(* Properties *)

(* LockFreeCircleQueue.h:35 moves objects through the queue "to transfer    *)
(* the ownership": an overlapped object is in the hands of one thread, or   *)
(* in flight for one operation, and never of two at a time.                 *)
ExclusiveUse ==
    \A o \in Overlappeds :
        uses[o] + Cardinality({t \in Poppers : held[t] = o}) + (IF current = o THEN 1 ELSE 0) <= 1

\* The slots from _outputIndex up to _inputIndex.
Filled(i) ==
    IF outputIndex <= inputIndex
    THEN outputIndex <= i /\ i < inputIndex
    ELSE outputIndex <= i \/ i < inputIndex

\* The objects that somebody can still reach.
Reachable(o) ==
    \/ uses[o] > 0
    \/ current = o
    \/ \E t \in Poppers : held[t] = o
    \/ \E i \in Slots : Filled(i) /\ buffer[i] = o

(* An object leaves the pool for good when Winsock refuses its operation at *)
(* once, and in no other way: the ring has room for every object that comes *)
(* back, no handler keeps one, and no refused one turns up again.           *)
LostExactlyIfRefused == \A o \in Overlappeds : Reachable(o) <=> o \notin refused
=============================================================================
