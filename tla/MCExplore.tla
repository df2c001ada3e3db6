----------------------------- MODULE MCExplore -----------------------------
(* Small searches for TLC. *)
EXTENDS Explore
=============================================================================
