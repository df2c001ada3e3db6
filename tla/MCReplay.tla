------------------------------ MODULE MCReplay ------------------------------
(* One block of two lanes, recorded and replayed. *)
EXTENDS Replay

\* The first lane alone, a mask `collective` refuses from the other, and both
\* lanes of the warp.
MCMasks == {{0}, {0, 1}}

\* Plans the first launch may itself be given: one that goes stale and
\* one naming a thread that does not exist.
MCPlans == {<<0, 1, 0>>, <<5, 1>>}
=============================================================================
