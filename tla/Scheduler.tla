------------------------------ MODULE Scheduler ------------------------------
(***************************************************************************)
(* The turn-based scheduler of one launch (src/sched.rs), the OS threads   *)
(* it drives (run_thread in src/launch.rs) and the two-phase warp          *)
(* collective built on it (src/warp.rs).                                   *)
(*                                                                         *)
(* Every simulated GPU thread is an OS thread.  A call into the scheduler  *)
(* is one critical section of its mutex, from `lock` to the return or to   *)
(* the wait on the caller's condition variable, and is one action here.    *)
(* The kernel is arbitrary: a running thread may make any call next, at    *)
(* most MaxOps of them before it returns or panics.                        *)
(*                                                                         *)
(* A 32-bit lane mask is the set of lanes it names.  A source location is  *)
(* a member of Locs and the name of a collective a member of Ops: one      *)
(* place may call several, through a #[track_caller] helper.  The counts   *)
(* in a barrier diagnostic are the sets of threads they count.             *)
(***************************************************************************)
EXTENDS Geometry, Sequences

CONSTANTS
    Locs,             \* source locations of barriers and collectives
    NoLoc,            \* Option::None of a location
    Ops,              \* names of collectives
    NoOp,             \* the name in no call
    Masks,            \* lane masks a kernel passes to a collective
    Plans,            \* recorded schedules a launch may be asked to replay
    MaxTrace,         \* MAX_TRACE, decisions recorded at most
    MaxOps            \* bound: scheduler calls one kernel thread makes

ASSUME KernelAssumption ==
    /\ NoLoc \notin Locs
    /\ NoOp \notin Ops
    /\ Masks \subseteq SUBSET Nat
    /\ MaxTrace \in Nat
    /\ MaxOps \in Nat

NoThread == -1

Lowest(S) == {i \in S : \A j \in S : i <= j}

VARIABLES
    current,          \* who holds the turn, or NoThread
    status,           \* [Threads -> Status]
    barrier_gen,      \* [Blocks -> Nat]
    barrier_loc,      \* [Blocks -> Locs \cup {NoLoc}]
    warp_wait,        \* [Threads -> WarpWait], NoWait for None
    warp_gen,         \* [Warps -> Nat]
    choices,          \* where decisions come from
    trace,            \* decisions made
    trace_complete,
    aborted,
    diags,            \* what the Reporter holds
    os,               \* what each OS thread is doing
    pc,               \* where in the kernel a thread is
    call,             \* arguments of the collective a thread is in
    slot,             \* the warp exchange slot of each lane
    ops,              \* scheduler calls made, against MaxOps
    barriersCalled,   \* auxiliary: barriers each thread has called
    departsCalled     \* auxiliary: full-warp collectives each thread reached the end of

schedVars == <<current, choices, trace, trace_complete, aborted, diags, os>>
waitVars == <<status, barrier_gen, barrier_loc, warp_wait, warp_gen>>
kernelVars == <<pc, call, slot, ops, barriersCalled, departsCalled>>
vars == <<schedVars, waitVars, kernelVars>>

NoWait == [phase |-> "none", op |-> NoOp, mask |-> {}, at |-> NoLoc]
NoCall == [op |-> NoOp, mask |-> {}, at |-> NoLoc, value |-> 0]

(***************************************************************************)
(* What the reporter is told.                                              *)
(***************************************************************************)
WarpDivergence(w, wait, arrived) ==
    [kind |-> "WarpDivergence", warp |-> w, mask |-> wait.mask,
     arrived |-> arrived, at |-> wait.at]

WarpMaskMismatch(t, u, at) ==
    [kind |-> "WarpMaskMismatch", warp |-> WarpOf(t), lane |-> LaneOf(t),
     other |-> LaneOf(u), at |-> at]

BarrierDivergence(st, b, loc) ==
    [kind |-> "BarrierDivergence", block |-> b,
     waiting |-> {i \in BlockThreads(b) : st[i] = "AtBarrier"},
     exited |-> {i \in BlockThreads(b) : st[i] = "Finished"},
     barrier |-> loc]

ThreadDiagnostic(kind, t) == [kind |-> kind, thread |-> t]

(***************************************************************************)
(* pick_next.  The random generator may choose any runnable thread.  A     *)
(* replay follows the plan, falls back to the thread that had the turn,    *)
(* then to the lowest runnable one.                                        *)
(***************************************************************************)
\* Mutant: a thread that waits counts as one that can run.
RunnableAny(st) == {i \in Threads : st[i] # "Finished"}

Runnable(st) == {i \in Threads : st[i] = "Runnable"}

Planned(ch) ==
    IF ch.cursor < Len(ch.plan) THEN {ch.plan[ch.cursor + 1]} ELSE {}

\* Mutants: the position counted from one; the recorded plan not looked at.
ChosenPast(st, ch, previous) == {i + 1 : i \in Runnable(st)}

ChosenUnplanned(st, ch, previous) ==
    IF ch.random THEN Runnable(st)
    ELSE IF previous \in Runnable(st) THEN {previous} ELSE Lowest(Runnable(st))

Chosen(st, ch, previous) ==
    LET runnable == Runnable(st)
    IN  IF ch.random THEN runnable
        ELSE IF Planned(ch) \cap runnable # {} THEN Planned(ch) \cap runnable
        ELSE IF previous \in runnable THEN {previous}
        ELSE Lowest(runnable)

\* Mutant: the replay cursor stays behind.
RecordStuck(c) ==
    /\ UNCHANGED choices
    /\ trace' = IF Len(trace) < MaxTrace THEN Append(trace, c) ELSE trace
    /\ trace_complete' = (trace_complete /\ Len(trace) < MaxTrace)

\* The bookkeeping of one decision: the replay cursor and the trace.
Record(c) ==
    /\ choices' = IF choices.random THEN choices
                  ELSE [choices EXCEPT !.cursor = @ + 1]
    /\ trace' = IF Len(trace) < MaxTrace THEN Append(trace, c) ELSE trace
    /\ trace_complete' = (trace_complete /\ Len(trace) < MaxTrace)

(***************************************************************************)
(* Condition variables.  A notification reaches only a thread that is      *)
(* already parked; a woken thread still has to take the mutex again.       *)
(***************************************************************************)
\* Mutant: the turn is passed on and nobody is told.
NotifyNobody(c) == os

NotifyOne(c) == [os EXCEPT ![c] = IF @ = "parked" THEN "woken" ELSE @]

\* wake() of an aborted launch by thread t, which itself unwinds or returns.
NotifyAll(t) ==
    [i \in Threads |-> IF i = t THEN "gone"
                       ELSE IF os[i] = "parked" THEN "woken" ELSE os[i]]

(***************************************************************************)
(* fail, and the other ways to stop a launch: report, abort, wake          *)
(* everyone, and leave.                                                    *)
(***************************************************************************)
Fail(t, ds) ==
    /\ diags' = diags \cup ds
    /\ aborted' = TRUE
    /\ os' = NotifyAll(t)
    /\ UNCHANGED <<current, choices, trace, trace_complete>>

(***************************************************************************)
(* detect_stuck: what it reports of statuses st and waits ww.              *)
(***************************************************************************)
\* Mutant: whoever cannot run is taken to have arrived.
ArrivedBlocked(st, ww, w, wait) ==
    {LaneOf(u) : u \in {v \in WarpThreads(w) : st[v] # "Runnable"}}

ArrivedMask(st, ww, w, wait) ==
    {LaneOf(u) : u \in {v \in WarpThreads(w) :
        st[v] = "AtWarp" /\ ww[v].phase = wait.phase /\ ww[v].at = wait.at}}

StuckIn(st, w) == {u \in WarpThreads(w) : st[u] = "AtWarp"}

StuckWarps(st, ww) ==
    UNION {{WarpDivergence(w, ww[u], ArrivedMask(st, ww, w, ww[u])) :
                u \in {v \in Lowest(StuckIn(st, w)) : ww[v] # NoWait}} :
           w \in Warps}

StuckBlocks(st, locs) ==
    {BarrierDivergence(st, b, locs[b]) :
        b \in {c \in Blocks : \E i \in BlockThreads(c) : st[i] = "AtBarrier"}}

\* Mutants of detect_stuck: warps not looked at; blocks looked at first.
StuckBlocksOnly(st, ww, locs) == StuckBlocks(st, locs)

StuckBlocksFirst(st, ww, locs) ==
    IF StuckBlocks(st, locs) # {} THEN StuckBlocks(st, locs) ELSE StuckWarps(st, ww)

StuckReport(st, ww, locs) ==
    IF StuckWarps(st, ww) # {} THEN StuckWarps(st, ww) ELSE StuckBlocks(st, locs)

(***************************************************************************)
(* hand_off_and_wait, called once status', warp_wait' and barrier_loc' are *)
(* set: pass the turn on and go on, park, or find the launch wedged.       *)
(***************************************************************************)
HandOffAndWait(t) ==
    \/ /\ Runnable(status') # {}
       /\ \E c \in Chosen(status', choices, current) :
            /\ current' = c
            /\ os' = IF c = t THEN os ELSE [NotifyOne(c) EXCEPT ![t] = "parked"]
            /\ Record(c)
       /\ UNCHANGED <<aborted, diags>>
    \/ /\ Runnable(status') = {}
       /\ current' = NoThread
       /\ diags' = diags \cup StuckReport(status', warp_wait', barrier_loc')
       /\ aborted' = TRUE
       /\ os' = NotifyAll(t)
       /\ UNCHANGED <<choices, trace, trace_complete>>

(***************************************************************************)
(* The OS thread.                                                          *)
(***************************************************************************)
\* Mutant: an `if` where the loop is, so that any wakeup will do.
ResumeUnchecked(t) ==
    /\ os[t] \in {"starting", "woken"}
    /\ os' = [os EXCEPT ![t] = IF aborted THEN "gone" ELSE "running"]
    /\ UNCHANGED <<current, choices, trace, trace_complete, aborted, diags>>
    /\ UNCHANGED waitVars
    /\ UNCHANGED kernelVars

\* The loop of wait_turn and hand_off_and_wait, entered with the mutex held.
Resume(t) ==
    /\ os[t] \in {"starting", "woken"}
    /\ os' = [os EXCEPT ![t] = IF aborted THEN "gone"
                               ELSE IF current = t THEN "running" ELSE "parked"]
    /\ UNCHANGED <<current, choices, trace, trace_complete, aborted, diags>>
    /\ UNCHANGED waitVars
    /\ UNCHANGED kernelVars

\* A condition variable may wake its waiter for no reason.
SpuriousWakeup(t) ==
    /\ os[t] = "parked"
    /\ os' = [os EXCEPT ![t] = "woken"]
    /\ UNCHANGED <<current, choices, trace, trace_complete, aborted, diags>>
    /\ UNCHANGED waitVars
    /\ UNCHANGED kernelVars

InKernel(t) == os[t] = "running" /\ pc[t] = "kernel"

CountOp(t) ==
    /\ ops[t] < MaxOps
    /\ ops' = [ops EXCEPT ![t] = @ + 1]

\* The scheduling point in front of a memory access.
YieldNow(t) ==
    /\ InKernel(t)
    /\ CountOp(t)
    /\ UNCHANGED waitVars
    /\ HandOffAndWait(t)
    /\ UNCHANGED <<pc, call, slot, barriersCalled, departsCalled>>

\* A kernel panic, or a trap such as an access out of bounds.
Abort(t, kind) ==
    /\ InKernel(t)
    /\ Fail(t, {ThreadDiagnostic(kind, t)})
    /\ UNCHANGED waitVars
    /\ UNCHANGED kernelVars

(***************************************************************************)
(* barrier                                                                 *)
(***************************************************************************)
Barrier(t, loc) ==
    LET b == BlockOf(t)
        st == [status EXCEPT ![t] = "AtBarrier"]
        locs == [barrier_loc EXCEPT ![b] = IF @ = NoLoc THEN loc ELSE @]
        someoneLeft == \E i \in BlockThreads(b) : st[i] = "Finished"
        allHere == \A i \in BlockThreads(b) : st[i] = "AtBarrier"
    IN  /\ InKernel(t)
        /\ CountOp(t)
        /\ \/ /\ someoneLeft
              /\ status' = st
              /\ barrier_loc' = locs
              /\ UNCHANGED barrier_gen
              /\ Fail(t, {BarrierDivergence(st, b, locs[b])})
           \/ /\ ~someoneLeft /\ ~allHere
              /\ status' = st
              /\ barrier_loc' = locs
              /\ UNCHANGED <<barrier_gen, warp_wait>>
              /\ HandOffAndWait(t)
           \/ /\ ~someoneLeft /\ allHere
              /\ status' = [i \in Threads |->
                              IF i \in BlockThreads(b) THEN "Runnable" ELSE st[i]]
              /\ barrier_gen' = [barrier_gen EXCEPT ![b] = @ + 1]
              /\ barrier_loc' = [barrier_loc EXCEPT ![b] = NoLoc]
              /\ UNCHANGED warp_wait
              /\ HandOffAndWait(t)
        /\ barriersCalled' = [barriersCalled EXCEPT ![t] = @ + 1]
        /\ UNCHANGED <<warp_wait, warp_gen, pc, call, slot, departsCalled>>

(***************************************************************************)
(* warp_rendezvous with the mask and the place of t's current collective.  *)
(***************************************************************************)
\* Mutant: the loop over the lanes ends at the caller's own.
MembersBelow(t, mask) ==
    {u \in WarpThreads(WarpOf(t)) : LaneOf(u) \in mask /\ LaneOf(u) <= LaneOf(t)}

Members(t, mask) == {u \in WarpThreads(WarpOf(t)) : LaneOf(u) \in mask}

\* Lanes parked at the same half of the same call that disagree on the mask.
Mismatched(t, st, ww) ==
    {u \in WarpThreads(WarpOf(t)) \ {t} :
        /\ st[u] = "AtWarp"
        /\ ww[u].phase = ww[t].phase
        /\ ww[u].at = ww[t].at
        /\ ww[u].mask # ww[t].mask
        /\ LaneOf(u) \in ww[t].mask \/ LaneOf(t) \in ww[u].mask}

WarpRendezvous(t, phase) ==
    LET w == WarpOf(t)
        wait == [phase |-> phase, op |-> call[t].op, mask |-> call[t].mask, at |-> call[t].at]
        st == [status EXCEPT ![t] = "AtWarp"]
        ww == [warp_wait EXCEPT ![t] = wait]
        members == Members(t, wait.mask)
        someoneLeft == \E u \in members : st[u] = "Finished"
        complete == \A u \in members : st[u] = "AtWarp" /\ ww[u] = wait
    IN  /\ \/ /\ someoneLeft
              /\ status' = st
              /\ warp_wait' = ww
              /\ UNCHANGED warp_gen
              /\ Fail(t, {WarpDivergence(w, wait, ArrivedMask(st, ww, w, wait))})
           \/ /\ ~someoneLeft
              /\ status' = st
              /\ warp_wait' = ww
              /\ UNCHANGED warp_gen
              /\ \E u \in Lowest(Mismatched(t, st, ww)) :
                    Fail(t, {WarpMaskMismatch(t, u, wait.at)})
           \/ /\ ~someoneLeft /\ Mismatched(t, st, ww) = {} /\ ~complete
              /\ status' = st
              /\ warp_wait' = ww
              /\ UNCHANGED <<warp_gen, barrier_loc>>
              /\ HandOffAndWait(t)
           \/ /\ ~someoneLeft /\ Mismatched(t, st, ww) = {} /\ complete
              /\ status' = [i \in Threads |-> IF i \in members THEN "Runnable" ELSE st[i]]
              /\ warp_wait' = [i \in Threads |-> IF i \in members THEN NoWait ELSE ww[i]]
              /\ warp_gen' = IF phase = "depart" /\ wait.mask = ValidMask(w)
                             THEN [warp_gen EXCEPT ![w] = @ + 1] ELSE warp_gen
              /\ UNCHANGED barrier_loc
              /\ HandOffAndWait(t)
        /\ UNCHANGED <<barrier_gen, barrier_loc>>

(***************************************************************************)
(* collective: a scheduling point, the checks on the mask, publish, meet,  *)
(* combine, meet again.                                                    *)
(***************************************************************************)
\* The value a lane contributes is told apart from its earlier ones by the
\* number of the call.
Collective(t, op, mask, at) ==
    /\ InKernel(t)
    /\ CountOp(t)
    /\ call' = [call EXCEPT ![t] = [op |-> op, mask |-> mask, at |-> at, value |-> ops'[t]]]
    /\ pc' = [pc EXCEPT ![t] = "arrive"]
    /\ UNCHANGED waitVars
    /\ HandOffAndWait(t)
    /\ UNCHANGED <<slot, barriersCalled, departsCalled>>

MaskOk(t) == call[t].mask \subseteq ValidMask(WarpOf(t)) /\ LaneOf(t) \in call[t].mask

BadMask(t) ==
    /\ os[t] = "running" /\ pc[t] = "arrive"
    /\ ~MaskOk(t)
    /\ Fail(t, {ThreadDiagnostic("WarpLaneError", t)})
    /\ UNCHANGED waitVars
    /\ UNCHANGED kernelVars

Arrive(t) ==
    /\ os[t] = "running" /\ pc[t] = "arrive"
    /\ MaskOk(t)
    /\ slot' = [slot EXCEPT ![t] = call[t].value]
    /\ pc' = [pc EXCEPT ![t] = "combine"]
    /\ WarpRendezvous(t, "arrive")
    /\ UNCHANGED <<call, ops, barriersCalled, departsCalled>>

\* `combine` panics on what it finds in the slots (values of different types).
CombinePanics(t) ==
    /\ os[t] = "running" /\ pc[t] = "combine"
    /\ Fail(t, {ThreadDiagnostic("KernelPanic", t)})
    /\ UNCHANGED waitVars
    /\ UNCHANGED kernelVars

\* Mutant: no second rendezvous.
DepartAtOnce(t) ==
    /\ os[t] = "running" /\ pc[t] = "combine"
    /\ pc' = [pc EXCEPT ![t] = "kernel"]
    /\ UNCHANGED waitVars
    /\ HandOffAndWait(t)
    /\ UNCHANGED <<call, slot, ops, barriersCalled, departsCalled>>

\* The lane has read the slots of its mask-mates and gives them up.
Depart(t) ==
    /\ os[t] = "running" /\ pc[t] = "combine"
    /\ pc' = [pc EXCEPT ![t] = "kernel"]
    /\ WarpRendezvous(t, "depart")
    /\ departsCalled' = IF call[t].mask = ValidMask(WarpOf(t))
                        THEN [departsCalled EXCEPT ![t] = @ + 1] ELSE departsCalled
    /\ UNCHANGED <<call, slot, ops, barriersCalled>>

(***************************************************************************)
(* finish: the kernel returned.                                            *)
(***************************************************************************)
Finish(t) ==
    LET w == WarpOf(t)
        b == BlockOf(t)
        st == [status EXCEPT ![t] = "Finished"]
        waitingForMe == {u \in WarpThreads(w) :
                            st[u] = "AtWarp" /\ LaneOf(t) \in warp_wait[u].mask}
        atBarrier == \E i \in BlockThreads(b) : st[i] = "AtBarrier"
    IN  /\ InKernel(t)
        /\ status' = st
        /\ \/ \E u \in Lowest(waitingForMe) :
                Fail(t, {WarpDivergence(w, warp_wait[u],
                            ArrivedMask(st, warp_wait, w, warp_wait[u]))})
           \/ /\ waitingForMe = {} /\ atBarrier
              /\ Fail(t, {BarrierDivergence(st, b, barrier_loc[b])})
           \/ /\ waitingForMe = {} /\ ~atBarrier
              /\ Runnable(st) # {}
              /\ \E c \in Chosen(st, choices, current) :
                    /\ current' = c
                    /\ os' = [NotifyOne(c) EXCEPT ![t] = "gone"]
                    /\ Record(c)
              /\ UNCHANGED <<aborted, diags>>
           \/ /\ waitingForMe = {} /\ ~atBarrier
              /\ Runnable(st) = {}
              /\ \E i \in Threads : st[i] # "Finished"
              /\ current' = NoThread
              /\ diags' = diags \cup StuckReport(st, warp_wait, barrier_loc)
              /\ aborted' = TRUE
              /\ os' = NotifyAll(t)
              /\ UNCHANGED <<choices, trace, trace_complete>>
           \/ /\ waitingForMe = {} /\ ~atBarrier
              /\ \A i \in Threads : st[i] = "Finished"
              /\ current' = NoThread
              /\ os' = [os EXCEPT ![t] = "gone"]
              /\ UNCHANGED <<choices, trace, trace_complete, aborted, diags>>
        /\ UNCHANGED <<barrier_gen, barrier_loc, warp_wait, warp_gen>>
        /\ UNCHANGED kernelVars

(***************************************************************************)
(* The specification.                                                      *)
(***************************************************************************)
InitialChoices ==
    {[random |-> TRUE, plan |-> <<>>, cursor |-> 0]}
        \cup {[random |-> FALSE, plan |-> p, cursor |-> 0] : p \in Plans}

\* Scheduler::new, which makes the first decision, and the spawned threads.
Init ==
    /\ status = [t \in Threads |-> "Runnable"]
    /\ barrier_gen = [b \in Blocks |-> 0]
    /\ barrier_loc = [b \in Blocks |-> NoLoc]
    /\ warp_wait = [t \in Threads |-> NoWait]
    /\ warp_gen = [w \in Warps |-> 0]
    /\ \E ch \in InitialChoices : \E c \in Chosen(status, ch, NoThread) :
         /\ current = c
         /\ choices = IF ch.random THEN ch ELSE [ch EXCEPT !.cursor = 1]
         /\ trace = IF MaxTrace > 0 THEN <<c>> ELSE <<>>
    /\ trace_complete = (MaxTrace > 0)
    /\ aborted = FALSE
    /\ diags = {}
    /\ os = [t \in Threads |-> "starting"]
    /\ pc = [t \in Threads |-> "kernel"]
    /\ call = [t \in Threads |-> NoCall]
    /\ slot = [t \in Threads |-> 0]
    /\ ops = [t \in Threads |-> 0]
    /\ barriersCalled = [t \in Threads |-> 0]
    /\ departsCalled = [t \in Threads |-> 0]

\* The next thing thread t does when it has the processor.
Step(t) ==
    \/ Resume(t)
    \/ YieldNow(t)
    \/ \E kind \in {"KernelPanic", "Trap"} : Abort(t, kind)
    \/ \E loc \in Locs : Barrier(t, loc)
    \/ \E op \in Ops, mask \in Masks, at \in Locs : Collective(t, op, mask, at)
    \/ BadMask(t)
    \/ Arrive(t)
    \/ CombinePanics(t)
    \/ Depart(t)
    \/ Finish(t)

\* The scope that spawned the threads has joined them all.
Joined ==
    /\ \A t \in Threads : os[t] = "gone"
    /\ UNCHANGED vars

Next ==
    \/ \E t \in Threads : Step(t) \/ SpuriousWakeup(t)
    \/ Joined

Spec == Init /\ [][Next]_vars

\* The operating system runs every thread that can run.
Fairness == \A t \in Threads : WF_vars(Step(t))

FairSpec == Spec /\ Fairness

(***************************************************************************)
(* Properties.                                                             *)
(***************************************************************************)
Phases == {"arrive", "depart"}
Values == 0 .. MaxOps
WaitRecords == [phase : Phases, op : Ops, mask : Masks, at : Locs] \cup {NoWait}
CallRecords == [op : Ops, mask : Masks, at : Locs, value : Values] \cup {NoCall}

\* The types of the scheduler's State, of the OS threads and of the kernel.
TypeOK ==
    /\ current \in Threads \cup {NoThread}
    /\ status \in [Threads -> {"Runnable", "AtBarrier", "AtWarp", "Finished"}]
    /\ barrier_gen \in [Blocks -> Nat]
    /\ barrier_loc \in [Blocks -> Locs \cup {NoLoc}]
    /\ warp_wait \in [Threads -> WaitRecords]
    /\ warp_gen \in [Warps -> Nat]
    /\ trace_complete \in BOOLEAN
    /\ aborted \in BOOLEAN
    /\ os \in [Threads -> {"starting", "parked", "woken", "running", "gone"}]
    /\ pc \in [Threads -> {"kernel", "arrive", "combine"}]
    /\ call \in [Threads -> CallRecords]
    /\ slot \in [Threads -> Values]
    /\ ops \in [Threads -> Values]
    /\ barriersCalled \in [Threads -> Nat]
    /\ departsCalled \in [Threads -> Nat]

\* Only the holder of the turn runs kernel code, it is never blocked, and once
\* a launch has aborted nobody runs kernel code any more: the whole point of
\* the turn (State.current), on which every unlocked step of a kernel relies.
TurnExclusive ==
    \A t \in Threads : os[t] = "running" =>
        current = t /\ status[t] = "Runnable" /\ ~aborted

\* wake() notifies one condition variable per hand-off.  The thread holding
\* the turn is never left parked, and neither is anyone after an abort.
NoLostWakeup ==
    /\ ~aborted /\ current # NoThread => os[current] \in {"starting", "woken", "running"}
    /\ aborted => \A t \in Threads : os[t] # "parked"

\* While a launch is neither aborted nor over, somebody who can run holds the
\* turn: detect_stuck has not been missed.
SomeoneHasTurn ==
    ~aborted /\ (\E t \in Threads : status[t] # "Finished") =>
        current \in Threads /\ status[current] = "Runnable" /\ os[current] # "gone"

\* An aborted launch says why.
AbortHasDiagnostic == aborted => diags # {}

\* A thread that is inside a collective, past its first rendezvous, finds in
\* the slot of every lane of its mask the value which that lane passed to this
\* very collective: nobody has gone on to the next one (the reason the second
\* rendezvous of `collective` exists).
ExchangeSound ==
    \A t \in Threads :
        pc[t] = "combine" /\ status[t] = "Runnable" =>
            \A u \in Members(t, call[t].mask) :
                /\ slot[u] = call[u].value
                /\ call[u].op = call[t].op /\ call[u].mask = call[t].mask /\ call[u].at = call[t].at
                /\ \/ pc[u] = "combine" /\ status[u] = "Runnable"
                   \/ status[u] = "AtWarp" /\ warp_wait[u].phase = "depart"

\* barrier_gen, the epoch stamped on every access, is the number of barriers
\* each thread of the block has itself passed.
BarrierLockstep ==
    \A t \in Threads :
        barriersCalled[t] = barrier_gen[BlockOf(t)]
                            + (IF status[t] = "AtBarrier" THEN 1 ELSE 0)

\* warp_gen, the warp epoch of an access, is the number of full-warp
\* collectives each lane of the warp has itself completed.
AtFullDepart(t) ==
    /\ status[t] = "AtWarp"
    /\ warp_wait[t].phase = "depart"
    /\ warp_wait[t].mask = ValidMask(WarpOf(t))

WarpLockstep ==
    \A t \in Threads :
        departsCalled[t] = warp_gen[WarpOf(t)] + (IF AtFullDepart(t) THEN 1 ELSE 0)

\* A barrier divergence is reported only of a block in which some thread waits
\* and another has exited, and at a known place: the second half of
\* detect_stuck and the Location::caller() fallbacks are never reached.
BarrierBlameSound ==
    \A d \in diags : d.kind = "BarrierDivergence" =>
        d.waiting # {} /\ d.exited # {} /\ d.barrier # NoLoc

\* As long as a place calls one collective only.
PlaceNamesOp ==
    \A t, u \in Threads : call[t].at = call[u].at => call[t].op = call[u].op

\* A warp divergence always names a lane of the mask that has not arrived
\* (arrived_mask), in a kernel that calls one collective from each place.  Of
\* two collectives called from one place it may name nobody: waits are told
\* apart by `op`, arrivals are not.
WarpBlameSound ==
    PlaceNamesOp => \A d \in diags : d.kind = "WarpDivergence" => ~(d.mask \subseteq d.arrived)

\* A launch that ends with nothing reported ran every thread to the end of the
\* kernel, and all threads of a block through the same number of barriers and
\* all lanes of a warp through the same number of full-warp collectives.
CleanLaunch ==
    (\A t \in Threads : os[t] = "gone") /\ diags = {} =>
        /\ \A t \in Threads : status[t] = "Finished"
        /\ \A t, u \in Threads : BlockOf(t) = BlockOf(u) =>
                barriersCalled[t] = barriersCalled[u]
        /\ \A t, u \in Threads : WarpOf(t) = WarpOf(u) =>
                departsCalled[t] = departsCalled[u]

\* The scheduler, its condition variables and its generations implement the
\* abstract Turns: one thread in kernel code at a time, barriers that hold
\* until the whole block has come, nobody back after returning or after an
\* abort (the module comment of src/sched.rs).
Promise == INSTANCE Turns WITH
    inside <- {t \in Threads : os[t] = "running"},
    arrived <- barriersCalled,
    done <- {t \in Threads : status[t] = "Finished"},
    stopped <- aborted

ImplementsTurns == Promise!Spec

\* Every launch of a kernel whose threads all return ends: no thread is left
\* behind on its condition variable, whatever diverges, traps or panics.
LaunchEnds == <>(\A t \in Threads : os[t] = "gone")

\* "checking both directions makes detection independent of who parked first":
\* lanes that have met at the same place with masks that name one another and
\* differ are reported as a mask mismatch, whoever came first.
MismatchDetected ==
    (\A t \in Threads : os[t] = "gone" /\ slot[t] # 0 /\ ops[t] = 1) =>
        \A t, u \in Threads :
            /\ WarpOf(t) = WarpOf(u)
            /\ call[t].at = call[u].at
            /\ call[t].mask # call[u].mask
            /\ LaneOf(u) \in call[t].mask
            => \E d \in diags : d.kind = "WarpMaskMismatch"
=============================================================================
