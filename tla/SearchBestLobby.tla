---------------------------- MODULE SearchBestLobby ----------------------------
(***************************************************************************)
(* LobbyManager::SearchBestLobby: the loop over the lobbies that           *)
(* ScanMultipleResult returned, in the order of their keys, one step per   *)
(* lobby.                                                                  *)
(*                                                                         *)
(* A lobby's load is the float Current / total.  Loads are compared here   *)
(* as fractions: two fractions whose terms are below 2^12 that differ are  *)
(* different floats, and equal ones are the same float, because the        *)
(* division is rounded correctly.  A deployed lobby has a capacity of 100. *)
(*                                                                         *)
(* The lobbies are what the JSON reader hands to the loop.                 *)
(***************************************************************************)
EXTENDS Integers

CONSTANTS
    RecordCount,     \* how many lobbies the scan returned; 1 .. RecordCount in key order
    Currents, Remains, Speeds   \* the values a record can have

ASSUME RecordCountIsNatural == RecordCount \in Nat
ASSUME RecordsAreNatural ==
    /\ Currents \subseteq Nat
    /\ Remains \subseteq Nat
    /\ Speeds \subseteq Nat

VARIABLES
    lobbies,        \* the records, in the order of their keys
    next,           \* the lobby of the next iteration
    bestLobby,      \* the one bestLobbyKey and bestLobbyPort are from: 0 when there is none
    bestRatio,      \* the load of the best lobby
    bestResponseSpeed

loopVars == <<lobbies, next, bestLobby, bestRatio, bestResponseSpeed>>

LobbyInfo == [active : BOOLEAN, current : Currents, remain : Remains, responseSpeed : Speeds]

\* The floats: fractions of naturals, with 1 over 0 for the largest one.
LargestFloat == [part |-> 1, over |-> 0]

Less(r, q) == r.part * q.over < q.part * r.over

Same(r, q) == r.part * q.over = q.part * r.over

Total(i) == lobbies[i].current + lobbies[i].remain

Ratio(i) == [part |-> lobbies[i].current, over |-> Total(i)]

Speed(i) == [part |-> lobbies[i].responseSpeed, over |-> 1]

\* Mutant of Eligible: a lobby without room for anybody is not left out.
ActiveIsEnough(i) == lobbies[i].active

\* The two tests that "continue" with the next lobby.
Eligible(i) == lobbies[i].active /\ Total(i) # 0

\* Mutant of Improves: a load that is as low as the best one is enough.
ImprovesWhenEqual(i) == Less(Ratio(i), bestRatio) \/ Same(Ratio(i), bestRatio)

Improves(i) ==
    \/ Less(Ratio(i), bestRatio)
    \/ Same(Ratio(i), bestRatio) /\ Less(Speed(i), bestResponseSpeed)

SearchInit ==
    /\ lobbies \in [1 .. RecordCount -> LobbyInfo]
    /\ next = 1
    /\ bestLobby = 0
    /\ bestRatio = LargestFloat
    /\ bestResponseSpeed = LargestFloat

-----------------------------------------------------------------------------

SkipLobby ==
    /\ next <= RecordCount
    /\ ~Eligible(next)
    /\ next' = next + 1
    /\ UNCHANGED <<lobbies, bestLobby, bestRatio, bestResponseSpeed>>

KeepBest ==
    /\ next <= RecordCount
    /\ Eligible(next)
    /\ ~Improves(next)
    /\ next' = next + 1
    /\ UNCHANGED <<lobbies, bestLobby, bestRatio, bestResponseSpeed>>

TakeBetter ==
    /\ next <= RecordCount
    /\ Eligible(next)
    /\ Improves(next)
    /\ bestLobby' = next
    /\ bestRatio' = Ratio(next)
    /\ bestResponseSpeed' = Speed(next)
    /\ next' = next + 1
    /\ UNCHANGED lobbies

SearchNext == SkipLobby \/ KeepBest \/ TakeBetter

SearchSpec == SearchInit /\ [][SearchNext]_loopVars

-----------------------------------------------------------------------------
(* Properties *)

Floats == {LargestFloat} \union [part : Nat, over : Nat \ {0}]

SearchTypeOK ==
    /\ lobbies \in [1 .. RecordCount -> LobbyInfo]
    /\ next \in 1 .. RecordCount + 1
    /\ bestLobby \in 0 .. RecordCount
    /\ bestRatio \in Floats
    /\ bestResponseSpeed \in Floats

\* The reference: a lobby that may be entered, and how two such lobbies compare.
MayEnter(i) == lobbies[i].active /\ lobbies[i].current + lobbies[i].remain > 0

\* The lobby i is preferable to the lobby j, whatever their keys.
Preferable(i, j) ==
    LET load(k) == lobbies[k].current
        room(k) == lobbies[k].current + lobbies[k].remain
    IN  \/ load(i) * room(j) < load(j) * room(i)
        \/ /\ load(i) * room(j) = load(j) * room(i)
           /\ lobbies[i].responseSpeed < lobbies[j].responseSpeed

\* b is the best of the lobbies in the set S; the first one when there are several.
IsBest(b, S) ==
    /\ b \in S
    /\ \A i \in S : ~Preferable(i, b)
    /\ \A i \in S : i < b => Preferable(b, i)

(* The loop returns the active lobby that is relatively least full, of      *)
(* those the one that responds fastest, and of those the one with the first *)
(* key; and it returns none exactly when no lobby may be entered.           *)
ReturnsBest ==
    next = RecordCount + 1 =>
        LET S == {i \in 1 .. RecordCount : MayEnter(i)}
        IN  IF S = {} THEN bestLobby = 0 ELSE IsBest(bestLobby, S)
=============================================================================
