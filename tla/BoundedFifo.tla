----------------------------- MODULE BoundedFifo -----------------------------
(***************************************************************************)
(* What Utility::LockFreeCircleQueue promises to the threads that call it: *)
(* a first-in first-out queue of at most Capacity items whose push answers *)
(* false exactly when it is full and whose pop answers T() exactly when it *)
(* is empty.  A call is two steps, its invocation and the instant at which *)
(* it takes effect; what happens in between is nobody's business.          *)
(***************************************************************************)
EXTENDS Naturals, Sequences

CONSTANTS
    Capacity,   \* the argument of Construct
    Items,      \* what the callers push
    NoItem,     \* T(), the null a pop of an empty queue returns
    Poppers     \* the threads that pop

VARIABLES
    queue,      \* the items inside, oldest first
    offered,    \* the item of the push in progress, NoItem when there is none
    pushed,     \* what the last push returned
    popping,    \* the threads whose pop is in progress
    popped      \* what the last pop of each thread returned

fifoVars == <<queue, offered, pushed, popping, popped>>

Init ==
    /\ queue = <<>>
    /\ offered = NoItem
    /\ pushed = TRUE
    /\ popping = {}
    /\ popped = [t \in Poppers |-> NoItem]

-----------------------------------------------------------------------------

CallPush(x) ==
    /\ offered = NoItem
    /\ offered' = x
    /\ UNCHANGED <<queue, pushed, popping, popped>>

PushTakesEffect ==
    /\ offered # NoItem
    /\ Len(queue) < Capacity
    /\ queue' = Append(queue, offered)
    /\ offered' = NoItem
    /\ pushed' = TRUE
    /\ UNCHANGED <<popping, popped>>

PushFindsFull ==
    /\ offered # NoItem
    /\ Len(queue) = Capacity
    /\ offered' = NoItem
    /\ pushed' = FALSE
    /\ UNCHANGED <<queue, popping, popped>>

CallPop(t) ==
    /\ t \notin popping
    /\ popping' = popping \union {t}
    /\ UNCHANGED <<queue, offered, pushed, popped>>

PopTakesEffect(t) ==
    /\ t \in popping
    /\ queue # <<>>
    /\ popped' = [popped EXCEPT ![t] = Head(queue)]
    /\ queue' = Tail(queue)
    /\ popping' = popping \ {t}
    /\ UNCHANGED <<offered, pushed>>

PopFindsEmpty(t) ==
    /\ t \in popping
    /\ queue = <<>>
    /\ popped' = [popped EXCEPT ![t] = NoItem]
    /\ popping' = popping \ {t}
    /\ UNCHANGED <<queue, offered, pushed>>

Next ==
    \/ \E x \in Items : CallPush(x)
    \/ PushTakesEffect
    \/ PushFindsFull
    \/ \E t \in Poppers : CallPop(t) \/ PopTakesEffect(t) \/ PopFindsEmpty(t)

Spec == Init /\ [][Next]_fifoVars
=============================================================================
