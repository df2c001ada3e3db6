------------------------------- MODULE Replay -------------------------------
(***************************************************************************)
(* Replaying a launch: Choices::Random with its trace, then                *)
(* Choices::Replay with that trace as the plan, or one plan twice          *)
(* (src/sched.rs, src/launch.rs, `shrink` and `replay` in src/explore.rs). *)
(*                                                                         *)
(* The first pass is a launch of Scheduler whose calls are written down in *)
(* `prog`.  The second is a launch of the same kernel: thread t makes the  *)
(* calls of prog[t] in order.  Which OS thread reaches the mutex first is  *)
(* left open in both.                                                      *)
(***************************************************************************)
EXTENDS Scheduler

VARIABLES
    pass,             \* 1 while recording, 2 while replaying
    prog,             \* calls each thread made in the first pass
    made,             \* calls each thread has made in this pass
    first             \* how the first pass ended

replayVars == <<pass, prog, made, first>>

Calls ==
    [do : {"yield", "finish", "panic", "trap"}, op : {NoOp}, mask : {{}}, at : {NoLoc}]
        \cup [do : {"barrier"}, op : {NoOp}, mask : {{}}, at : Locs]
        \cup [do : {"collective"}, op : Ops, mask : Masks, at : Locs]

KernelCall(t, c) ==
    \/ c.do = "yield" /\ YieldNow(t)
    \/ c.do = "panic" /\ Abort(t, "KernelPanic")
    \/ c.do = "trap" /\ Abort(t, "Trap")
    \/ c.do = "finish" /\ Finish(t)
    \/ c.do = "barrier" /\ Barrier(t, c.at)
    \/ c.do = "collective" /\ Collective(t, c.op, c.mask, c.at)

\* What launch::run returns (the report, the trace, whether it is whole), and
\* how the threads ended.
Outcome == [trace |-> trace, trace_complete |-> trace_complete, diags |-> diags,
            status |-> status, aborted |-> aborted]

ReplayInit ==
    /\ Init
    /\ pass = 1
    /\ prog = [t \in Threads |-> <<>>]
    /\ made = [t \in Threads |-> 0]
    /\ first = Outcome

RecordedCall(t) ==
    /\ pass = 1
    /\ \E c \in Calls :
         /\ KernelCall(t, c)
         /\ prog' = [prog EXCEPT ![t] = Append(@, c)]
    /\ made' = [made EXCEPT ![t] = @ + 1]
    /\ UNCHANGED <<pass, first>>

ReplayedCall(t) ==
    /\ pass = 2
    /\ made[t] < Len(prog[t])
    /\ KernelCall(t, prog[t][made[t] + 1])
    /\ made' = [made EXCEPT ![t] = @ + 1]
    /\ UNCHANGED <<pass, prog, first>>

\* What a thread does on its own between two calls of the kernel.  CombinePanics
\* is left out: it depends on values, which the recorded calls do not carry.
InsideCall(t) ==
    /\ Resume(t) \/ SpuriousWakeup(t) \/ BadMask(t) \/ Arrive(t) \/ Depart(t)
    /\ UNCHANGED replayVars

\* The schedules that stand for the first launch: its trace, unless that was cut
\* short, and the plan it was itself given.
Schedules ==
    (IF trace_complete THEN {trace} ELSE {})
        \cup (IF choices.random THEN {} ELSE {choices.plan})

\* A second launch, whose scheduler replays one of them.
Relaunch ==
    /\ pass = 1
    /\ \A t \in Threads : os[t] = "gone"
    /\ pass' = 2
    /\ first' = Outcome
    /\ made' = [t \in Threads |-> 0]
    /\ UNCHANGED prog
    /\ status' = [t \in Threads |-> "Runnable"]
    /\ barrier_gen' = [b \in Blocks |-> 0]
    /\ barrier_loc' = [b \in Blocks |-> NoLoc]
    /\ warp_wait' = [t \in Threads |-> NoWait]
    /\ warp_gen' = [w \in Warps |-> 0]
    /\ \E plan \in Schedules :
         LET ch == [random |-> FALSE, plan |-> plan, cursor |-> 0]
         IN  \E c \in Chosen(status', ch, NoThread) :
               /\ current' = c
               /\ choices' = [ch EXCEPT !.cursor = 1]
               /\ trace' = IF MaxTrace > 0 THEN <<c>> ELSE <<>>
    /\ trace_complete' = (MaxTrace > 0)
    /\ aborted' = FALSE
    /\ diags' = {}
    /\ os' = [t \in Threads |-> "starting"]
    /\ pc' = [t \in Threads |-> "kernel"]
    /\ call' = [t \in Threads |-> NoCall]
    /\ slot' = [t \in Threads |-> 0]
    /\ ops' = [t \in Threads |-> 0]
    /\ barriersCalled' = [t \in Threads |-> 0]
    /\ departsCalled' = [t \in Threads |-> 0]

Ended ==
    /\ pass = 2 \/ Schedules = {}
    /\ \A t \in Threads : os[t] = "gone"
    /\ UNCHANGED <<vars, replayVars>>

ReplayNext ==
    \/ \E t \in Threads : RecordedCall(t) \/ ReplayedCall(t) \/ InsideCall(t)
    \/ Relaunch
    \/ Ended

ReplaySpec == ReplayInit /\ [][ReplayNext]_<<vars, replayVars>>

(***************************************************************************)
(* Properties.                                                             *)
(***************************************************************************)
IsPrefixOf(p, q) == Len(p) <= Len(q) /\ p = SubSeq(q, 1, Len(p))

\* A replay never leaves the schedule of the first launch: each decision it
\* makes is the one made then, because a recorded thread can run whenever the
\* plan comes to it, and because a plan that does not fit, or has run out, is
\* departed from in the same way (README: "Running the same seed twice
\* reproduces the same schedule exactly").
ReplayFollowsTrace == pass = 2 => IsPrefixOf(trace, first.trace)

\* A replayed launch ends as the first one did: same decisions, same
\* diagnostics, same threads finished, aborted or not (replay: "a short schedule
\* is a complete and reproducible description of a run").
ReplayReproduces ==
    pass = 2 /\ (\A t \in Threads : os[t] = "gone") => Outcome = first
=============================================================================
