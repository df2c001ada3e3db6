----------------------------- MODULE MCDetector -----------------------------
(* Small launches of the access path for TLC. *)
EXTENDS Detector

Kernel(who, kinds, orderings, fences, syncs, n) ==
    [who |-> who, kinds |-> kinds, orderings |-> orderings, fences |-> fences,
     syncs |-> syncs, ops |-> n]

\* Plain reads and writes between barriers.
MCBlockKernels == {Kernel(Threads, {"read", "write"}, {}, {}, {"threads"}, 3)}

(***************************************************************************)
(* Two blocks of two.  One thread of each handing an element over with     *)
(* atomics and fences; with loads of a flag; a block that composes         *)
(* barriers and full-warp collectives with release and acquire, and a      *)
(* thread of the other; more readers of an element than a cell remembers;  *)
(* an order made by a warp collective and then handed on by an atomic.     *)
(***************************************************************************)
MCHandoff == Kernel({0, 2}, {"write", "rmw"}, AllOrderings, {"acquire", "release"}, {}, 3)
MCFlag == Kernel({0, 2}, {"write", "load", "rmw"}, {"relaxed", "acquire"}, {"acqrel"}, {}, 3)
MCCompose == Kernel({0, 1, 2}, {"write", "rmw"}, {"acqrel"}, {}, {"threads", "warp"}, 2)
MCReaders == Kernel({0, 1, 2}, {"read", "write"}, {}, {}, {}, 2)
MCChain == Kernel({0, 1, 2}, {"write", "rmw"}, {"acqrel"}, {}, {"warp"}, 3)
MCGridKernels == {MCHandoff, MCFlag, MCCompose, MCReaders, MCChain}

\* The smallest kernels on which a race is missed.
MCLateKernels == {Kernel(Threads, {"write"}, {}, {}, {"threads"}, 3)}
MCAtomicKernels == {Kernel(Threads, {"read", "rmw"}, {"relaxed"}, {}, {}, 2)}
=============================================================================
