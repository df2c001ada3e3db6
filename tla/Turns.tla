-------------------------------- MODULE Turns --------------------------------
(***************************************************************************)
(* What the scheduler promises to the code of a kernel, with none of its   *)
(* machinery: no mutex, condition variables, statuses or generations.      *)
(*                                                                         *)
(* Threads are in kernel code one at a time.  A thread that has called a   *)
(* barrier is back in kernel code only when every thread of its block has  *)
(* called as many.  A thread that has returned does not come back, and     *)
(* nobody does once the launch has stopped.                                *)
(***************************************************************************)
EXTENDS Geometry

VARIABLES
    inside,           \* who is in kernel code: nobody or one thread
    arrived,          \* barriers each thread has called
    done,             \* who has returned from the kernel
    stopped           \* the launch has been given up

vars == <<inside, arrived, done, stopped>>

MayPass(t, count) == \A u \in BlockThreads(BlockOf(t)) : count[u] >= count[t]

Enter(t) ==
    /\ inside = {} /\ t \notin done /\ ~stopped
    /\ MayPass(t, arrived)
    /\ inside' = {t}
    /\ UNCHANGED <<arrived, done, stopped>>

\* A scheduling point that gives the turn away, or that stops the launch.
Leave(t) ==
    /\ inside = {t}
    /\ inside' = {}
    /\ stopped' \in {FALSE, TRUE}
    /\ UNCHANGED <<arrived, done>>

Barrier(t) ==
    /\ inside = {t}
    /\ arrived' = [arrived EXCEPT ![t] = @ + 1]
    /\ \/ inside' = {} /\ stopped' \in {FALSE, TRUE}
       \/ MayPass(t, arrived') /\ UNCHANGED <<inside, stopped>>
    /\ UNCHANGED done

Return(t) ==
    /\ inside = {t}
    /\ inside' = {}
    /\ done' = done \cup {t}
    /\ stopped' \in {FALSE, TRUE}
    /\ UNCHANGED arrived

Init ==
    /\ inside = {}
    /\ arrived = [t \in Threads |-> 0]
    /\ done = {}
    /\ stopped = FALSE

Next == \E t \in Threads : Enter(t) \/ Leave(t) \/ Barrier(t) \/ Return(t)

Spec == Init /\ [][Next]_vars
=============================================================================
