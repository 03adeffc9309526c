---- MODULE MCLobbyServer ----
EXTENDS LobbyServer, TLC
Symmetry == Permutations(Clients) \union Permutations(AcceptSockets)
====
