--------------------------- MODULE MCOverlappedPool ---------------------------
(* Instances of OverlappedPool for TLC. *)
EXTENDS OverlappedPool, TLC
=============================================================================
