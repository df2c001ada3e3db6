------------------------------ MODULE MCLaunch ------------------------------
(* Kernels of one and of two kinds of fault, for TLC. *)
EXTENDS Launch

Site(op, at) == [op |-> op, at |-> at]

\* Races and uninitialised reads around a barrier; shuffles of one location
\* beside accesses; what ends a launch.
MCKernels ==
    {{Site("read", "l1"), Site("write", "l2"), Site("barrier", "l1")},
     {Site("shfl", "l1"), Site("shfl_up", "l1"), Site("read", "l1"), Site("write", "l2")},
     {Site("oob", "l1"), Site("panic", "l2"), Site("barrier", "l1"), Site("barrier", "l2")}}
=============================================================================
