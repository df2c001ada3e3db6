---------------------------- MODULE MCScheduler ----------------------------
(* Small launches for TLC. *)
EXTENDS Scheduler

\* Lane masks: each lane alone, and both lanes of a full warp.  In a short
\* warp, and for the other lane, these are also the masks `collective` rejects.
MCMasks == {{0}, {1}, {0, 1}}

\* Every decision is the random generator's.
MCNoPlans == {}
=============================================================================
