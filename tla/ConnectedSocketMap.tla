--------------------------- MODULE ConnectedSocketMap ---------------------------
(***************************************************************************)
(* NetworkManager::_connectedSocketMap, a tbb::concurrent_map: the skip    *)
(* list of oneTBB as the two threads that reach it use it.  The network    *)
(* thread inserts the key of a new connection and erases that of a         *)
(* disconnected one; a job thread (one at a time, by OneDrainer of         *)
(* JobDispatch) looks its socket up in SendRequest.  One access to a       *)
(* pointer of a node is one step.                                          *)
(*                                                                         *)
(* insert and find may overlap; unsafe_erase may not overlap anything, and *)
(* HandleDisconnectComplete calls it without asking.                       *)
(*                                                                         *)
(* A key is the address of a SOCKET, used for one connection, and names    *)
(* its node here.  The network thread is the only one that writes, so the  *)
(* positions it finds are those of the list when it is idle (KeepsOrder).  *)
(***************************************************************************)
EXTENDS Integers, FiniteSetsExt

CONSTANTS
    SocketCount,    \* bound: the keys are 1 .. SocketCount
    MaxLevel        \* bound: the height of the highest node, 32 in the library

ASSUME SizesArePositive == SocketCount \in Nat \ {0} /\ MaxLevel \in Nat \ {0}

Keys == 1 .. SocketCount
Head == 0
Null == SocketCount + 1
Nodes == Keys \union {Head}
Levels == 0 .. MaxLevel - 1

VARIABLES
    next,       \* the pointers of each node, one for each level
    height,     \* the height of each node, drawn at random
    maxHeight,  \* my_max_height
    alive,      \* the nodes that are allocated
    inserted,   \* the keys whose insertion has returned and whose erasure has not begun
    used,       \* the keys that have been inserted
    writer, node, level,            \* where the network thread is, and on which node
    reader, target, prev, curr, at, \* where the job thread is in find
    stayed,     \* the target has been in the map since find was called
    calm        \* no erasure has overlapped this find

listVars   == <<next, height, maxHeight, alive, inserted, used>>
writerVars == <<writer, node, level>>
readerVars == <<reader, target, prev, curr, at, stayed, calm>>
vars       == <<listVars, writerVars, readerVars>>

\* An empty map.  The head, which the first insert allocates, is there from the
\* start: without it a find ends at once, as it does on a head with no successor.
Init ==
    /\ next = [n \in Nodes |-> [l \in Levels |-> Null]]
    /\ height = [n \in Keys |-> 0]
    /\ maxHeight = 0
    /\ alive = {Head}
    /\ inserted = {}
    /\ used = {}
    /\ writer = "idle" /\ node = Head /\ level = 0
    /\ reader = "idle" /\ target = Head /\ prev = Head /\ curr = Null /\ at = 0
    /\ stayed = FALSE /\ calm = TRUE

-----------------------------------------------------------------------------
(* The network thread: insert *)

\* The nodes of a level, other than the one being inserted or erased.
OnLevel(l) == {n \in inserted : height[n] > l}

\* prev_nodes[l] for key k.
Before(l, k) == Max({Head} \union {n \in OnLevel(l) : n < k})

SetNext(n, l, m) == next' = [next EXCEPT ![n][l] = m]

Insert(k) ==
    /\ writer = "idle"
    /\ k \notin used
    /\ used' = used \union {k}
    /\ alive' = alive \union {k}
    /\ \E h \in 1 .. MaxLevel : height' = [height EXCEPT ![k] = h]
    /\ writer' = "prepare" /\ node' = k /\ level' = 0
    /\ UNCHANGED <<next, maxHeight, inserted, readerVars>>

\* Mutant of Prepare: the node is linked before its own pointer is set.
PrepareForgets ==
    /\ writer = "prepare"
    /\ writer' = "link"
    /\ UNCHANGED <<listVars, node, level, readerVars>>

\* new_node->set_next(level, next)
Prepare ==
    /\ writer = "prepare"
    /\ SetNext(node, level, next[Before(level, node)][level])
    /\ writer' = "link"
    /\ UNCHANGED <<height, maxHeight, alive, inserted, used, node, level, readerVars>>

\* compare_exchange_strong: with one writer it succeeds.
Link ==
    /\ writer = "link"
    /\ SetNext(Before(level, node), level, node)
    /\ writer' = IF level = 0 THEN "raise" ELSE "linked"
    /\ UNCHANGED <<height, maxHeight, alive, inserted, used, node, level, readerVars>>

\* my_max_height grows once the node is on the first level.
Raise ==
    /\ writer = "raise"
    /\ maxHeight' = Max({maxHeight, height[node]})
    /\ writer' = "linked"
    /\ UNCHANGED <<next, height, alive, inserted, used, node, level, readerVars>>

LinkHigher ==
    /\ writer = "linked"
    /\ level + 1 < height[node]
    /\ level' = level + 1
    /\ writer' = "prepare"
    /\ UNCHANGED <<listVars, node, readerVars>>

InsertReturns ==
    /\ writer = "linked"
    /\ level + 1 = height[node]
    /\ inserted' = inserted \union {node}
    /\ writer' = "idle"
    /\ UNCHANGED <<next, height, maxHeight, alive, used, node, level, readerVars>>

-----------------------------------------------------------------------------
(* The network thread: unsafe_erase *)

\* equal_range and the positions of internal_extract only read.
Erase(k) ==
    /\ writer = "idle"
    /\ k \in inserted
    /\ inserted' = inserted \ {k}
    /\ writer' = "unlink" /\ node' = k /\ level' = 0
    /\ calm' = FALSE
    /\ stayed' = (stayed /\ target # k)
    /\ UNCHANGED <<next, height, maxHeight, alive, used, reader, target, prev, curr, at>>

\* prev_nodes[level]->set_next(level, erase_node->next(level))
Unlink ==
    /\ writer = "unlink"
    /\ SetNext(Before(level, node), level, next[node][level])
    /\ writer' = "clear"
    /\ UNCHANGED <<height, maxHeight, alive, inserted, used, node, level, readerVars>>

\* Mutant of ClearNext: only the first level is unlinked.
ClearFirstOnly ==
    /\ writer = "clear"
    /\ SetNext(node, level, Null)
    /\ writer' = "destroy"
    /\ UNCHANGED <<height, maxHeight, alive, inserted, used, node, level, readerVars>>

\* erase_node->set_next(level, nullptr)
ClearNext ==
    /\ writer = "clear"
    /\ SetNext(node, level, Null)
    /\ IF level + 1 < height[node] THEN writer' = "unlink" /\ level' = level + 1
                                   ELSE writer' = "destroy" /\ UNCHANGED level
    /\ UNCHANGED <<height, maxHeight, alive, inserted, used, node, readerVars>>

\* delete_value_node
Destroy ==
    /\ writer = "destroy"
    /\ alive' = alive \ {node}
    /\ writer' = "idle"
    /\ UNCHANGED <<next, height, maxHeight, inserted, used, node, level, readerVars>>

-----------------------------------------------------------------------------
(* The job thread: find, and finder->second *)

Find(k) ==
    /\ reader = "idle"
    /\ target' = k
    /\ prev' = Head /\ curr' = Null
    /\ at' = maxHeight - 1
    /\ reader' = IF maxHeight > 0 THEN "load" ELSE "missed"
    /\ stayed' = (k \in inserted)
    /\ calm' = (writer \notin {"unlink", "clear", "destroy"})
    /\ UNCHANGED <<listVars, writerVars>>

\* curr = prev->next(level); the memory of a destroyed node may hold anything.
Load ==
    /\ reader = "load"
    /\ curr' \in IF prev \in alive THEN {next[prev][at]} ELSE Keys \union {Null}
    /\ reader' = "compare"
    /\ UNCHANGED <<listVars, writerVars, target, prev, at, stayed, calm>>

\* Mutant of KeysReadFrom: find steps onto the node it looks for and past it.
KeysReadTooLow(n) == {n - 1}

\* get_key(n): that of a destroyed node may be anything.
KeysReadFrom(n) == IF n \in alive THEN {n} ELSE Keys

\* cmp(get_key(curr), key): the search goes on, goes down, or has ended.
Compare ==
    /\ reader = "compare"
    /\ \E less \in IF curr = Null THEN {FALSE} ELSE {key < target : key \in KeysReadFrom(curr)} :
           \/ less /\ prev' = curr /\ reader' = "load" /\ UNCHANGED at
           \/ ~less /\ at > 0 /\ at' = at - 1 /\ reader' = "load" /\ UNCHANGED prev
           \/ ~less /\ at = 0 /\ reader' = "check" /\ UNCHANGED <<at, prev>>
    /\ UNCHANGED <<listVars, writerVars, target, curr, stayed, calm>>

\* internal_find_unique compares once more: is it the key, or the one after it?
Check ==
    /\ reader = "check"
    /\ \E greater \in IF curr = Null THEN {TRUE} ELSE {target < key : key \in KeysReadFrom(curr)} :
           reader' = IF greater THEN "missed" ELSE "found"
    /\ UNCHANGED <<listVars, writerVars, target, prev, curr, at, stayed, calm>>

\* SendRequest reads finder->second, or logs that there is no such socket.
Return ==
    /\ reader \in {"found", "missed"}
    /\ reader' = "idle"
    /\ UNCHANGED <<listVars, writerVars, target, prev, curr, at, stayed, calm>>

-----------------------------------------------------------------------------

NetworkThread ==
    \/ \E k \in Keys : Insert(k) \/ Erase(k)
    \/ Prepare \/ Link \/ Raise \/ LinkHigher \/ InsertReturns
    \/ Unlink \/ ClearNext \/ Destroy

JobThread ==
    \/ \E k \in Keys : Find(k)
    \/ Load \/ Compare \/ Check \/ Return

Next == NetworkThread \/ JobThread

Spec == Init /\ [][Next]_vars

-----------------------------------------------------------------------------
(* Properties *)

(* Between two calls every level holds exactly the nodes high enough for    *)
(* it, in the order of their keys, and ends with the last of them.          *)
KeepsOrder ==
    writer = "idle" =>
        \A l \in Levels : \A n \in {Head} \union OnLevel(l) :
            next[n][l] = Min({Null} \union {m \in OnLevel(l) : m > n})

(* A pointer that can be followed from the head leads to a node that still  *)
(* exists: an erased node is off every level before it is destroyed.        *)
NothingDangles ==
    \A l \in Levels : \A n \in {Head} \union OnLevel(l) : next[n][l] \in alive \union {Null}

(* A SendRequest that no disconnect overlaps finds the socket it looks for  *)
(* if it is connected, although a new connection may be half inserted, and  *)
(* it finds no other; it reads no node that has been destroyed.             *)
CalmFindIsRight ==
    calm =>
        /\ reader = "missed" => ~stayed
        /\ reader = "found" => curr = target
        /\ reader = "load" => prev \in alive
        /\ reader \in {"compare", "check", "found"} => curr \in alive \union {Null}
=============================================================================
