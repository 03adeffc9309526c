--------------------------- MODULE MCSearchBestLobby ---------------------------
(* Instances of SearchBestLobby for TLC. *)
EXTENDS SearchBestLobby, TLC
=============================================================================
