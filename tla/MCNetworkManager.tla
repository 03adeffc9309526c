--------------------------- MODULE MCNetworkManager ---------------------------
(* Instances of NetworkManager for TLC. *)
EXTENDS NetworkManager, TLC

\* Accepted sockets and overlapped objects are created alike.
ObjectSymmetry == Permutations(AcceptSockets) \union Permutations(Overlappeds)
=============================================================================
