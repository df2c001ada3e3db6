------------------------------ MODULE Geometry ------------------------------
(***************************************************************************)
(* How the threads of a launch are numbered and grouped: `locate`,         *)
(* `block_range`, `warp_base`, `lanes_in` and `valid_mask` of src/sched.rs.*)
(* A thread is its linear number; a warp is its block and its number       *)
(* within the block; a 32-bit lane mask is the set of lanes it names.      *)
(***************************************************************************)
EXTENDS Integers

CONSTANTS NumBlocks, ThreadsPerBlock, WarpSize

ASSUME GeometryAssumption ==
    /\ NumBlocks \in Nat \ {0}
    /\ ThreadsPerBlock \in Nat \ {0}
    /\ WarpSize \in Nat \ {0}

Threads == 0 .. NumBlocks * ThreadsPerBlock - 1
Blocks == 0 .. NumBlocks - 1
WarpsPerBlock == (ThreadsPerBlock + WarpSize - 1) \div WarpSize
Warps == Blocks \X (0 .. WarpsPerBlock - 1)

BlockOf(t) == t \div ThreadsPerBlock
WarpOf(t) == <<BlockOf(t), (t % ThreadsPerBlock) \div WarpSize>>
LaneOf(t) == (t % ThreadsPerBlock) % WarpSize

\* Mutant of block_range: one past the end is taken for the end.
BlockThreadsShort(b) == {t \in Threads : BlockOf(t) = b /\ t + 1 \in Threads}

BlockThreads(b) == {t \in Threads : BlockOf(t) = b}
WarpThreads(w) == {t \in Threads : WarpOf(t) = w}

\* The lanes of a warp that exist: the last warp of a block may be short.
ValidMask(w) == {LaneOf(t) : t \in WarpThreads(w)}
=============================================================================
