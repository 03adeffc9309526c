--------------------------- MODULE MCLobbyDirectory ---------------------------
(* Instances of LobbyDirectory for TLC. *)
EXTENDS LobbyDirectory, TLC
=============================================================================
