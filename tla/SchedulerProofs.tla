-------------------------- MODULE SchedulerProofs ---------------------------
(***************************************************************************)
(* The scheduler, for every launch geometry, kernel and plan: its types,   *)
(* the turn, the epochs and the refinement of Turns.  At most the holder   *)
(* of the turn runs, it is never left asleep, and a live launch always has *)
(* one.                                                                    *)
(***************************************************************************)
EXTENDS Scheduler, TLAPS

(***************************************************************************)
(* Geometry.                                                               *)
(***************************************************************************)
\* Every thread lies in a block and in a warp of the launch.
LEMMA ThreadLocated ==
    \A t \in Threads : BlockOf(t) \in Blocks /\ WarpOf(t) \in Warps
<1> SUFFICES ASSUME NEW t \in Threads
             PROVE  BlockOf(t) \in Blocks /\ WarpOf(t) \in Warps
    OBVIOUS
<1>1. t \div ThreadsPerBlock \in 0 .. NumBlocks - 1
    BY GeometryAssumption DEF Threads
<1>2. (t % ThreadsPerBlock) \div WarpSize \in 0 .. WarpsPerBlock - 1
    BY GeometryAssumption DEF Threads, WarpsPerBlock
<1>3. QED
    BY <1>1, <1>2 DEF BlockOf, WarpOf, Blocks, Warps

\* NoThread is no thread.
LEMMA NoThreadIsNone == NoThread \notin Threads /\ Threads \subseteq Nat
BY GeometryAssumption DEF NoThread, Threads

(***************************************************************************)
(* Decisions.                                                              *)
(***************************************************************************)
\* pick_next gives the turn to a thread that can run.
LEMMA ChosenCanRun ==
    ASSUME NEW st, NEW ch, NEW previous
    PROVE  Chosen(st, ch, previous) \subseteq Runnable(st)
BY DEF Chosen, Lowest

Statuses == {"Runnable", "AtBarrier", "AtWarp", "Finished"}
OsStates == {"starting", "parked", "woken", "running", "gone"}

\* Types of what a decision, a hand-off or a failure assigns.
SchedOK ==
    /\ current \in Threads \cup {NoThread}
    /\ trace_complete \in BOOLEAN
    /\ aborted \in BOOLEAN
    /\ os \in [Threads -> OsStates]

\* hand_off_and_wait keeps the types of what it assigns.
LEMMA HandOffType ==
    ASSUME SchedOK, NEW t \in Threads, HandOffAndWait(t)
    PROVE  SchedOK'
<1>1. CASE Runnable(status') # {} /\ HandOffAndWait(t)
  <2>1. PICK c \in Chosen(status', choices, current) :
            /\ current' = c
            /\ os' = IF c = t THEN os ELSE [NotifyOne(c) EXCEPT ![t] = "parked"]
            /\ Record(c)
        BY <1>1 DEF HandOffAndWait
  <2>2. c \in Threads
        BY ChosenCanRun DEF Runnable
  <2>3. os' \in [Threads -> OsStates]
        BY <2>1, <2>2 DEF NotifyOne, SchedOK, OsStates
  <2>4. trace_complete' \in BOOLEAN /\ aborted' \in BOOLEAN
    <3>1. trace_complete' = (trace_complete /\ Len(trace) < MaxTrace)
          BY <2>1 DEF Record
    <3>2. aborted' = aborted
          BY <1>1 DEF HandOffAndWait
    <3>3. QED BY <3>1, <3>2 DEF SchedOK
  <2>5. QED BY <2>1, <2>2, <2>3, <2>4 DEF SchedOK
<1>2. CASE Runnable(status') = {} /\ HandOffAndWait(t)
      BY <1>2 DEF HandOffAndWait, SchedOK, NotifyAll, OsStates
<1>3. QED BY <1>1, <1>2

\* fail keeps the types of what it assigns.
LEMMA FailType ==
    ASSUME SchedOK, NEW t \in Threads, NEW ds, Fail(t, ds)
    PROVE  SchedOK'
BY DEF Fail, SchedOK, NotifyAll, OsStates

(***************************************************************************)
(* Type correctness.  A collective in progress has real arguments.         *)
(***************************************************************************)
CallArgs == [op : Ops, mask : Masks, at : Locs, value : Values]

InCallOK == \A t \in Threads : pc[t] # "kernel" => call[t] \in CallArgs

TypeInv == TypeOK /\ InCallOK

\* TypeOK taken apart, so that a step names only what it uses.
LEMMA TypeSplit ==
    TypeOK <=> /\ SchedOK
               /\ status \in [Threads -> Statuses]
               /\ barrier_gen \in [Blocks -> Nat]
               /\ barrier_loc \in [Blocks -> Locs \cup {NoLoc}]
               /\ warp_wait \in [Threads -> WaitRecords]
               /\ warp_gen \in [Warps -> Nat]
               /\ pc \in [Threads -> {"kernel", "arrive", "combine"}]
               /\ call \in [Threads -> CallRecords]
               /\ slot \in [Threads -> Values]
               /\ ops \in [Threads -> Values]
               /\ barriersCalled \in [Threads -> Nat]
               /\ departsCalled \in [Threads -> Nat]
BY DEF TypeOK, SchedOK, Statuses, OsStates

\* The same for the next state.
LEMMA TypeSplitNext ==
    TypeOK' <=> /\ SchedOK'
                /\ status' \in [Threads -> Statuses]
                /\ barrier_gen' \in [Blocks -> Nat]
                /\ barrier_loc' \in [Blocks -> Locs \cup {NoLoc}]
                /\ warp_wait' \in [Threads -> WaitRecords]
                /\ warp_gen' \in [Warps -> Nat]
                /\ pc' \in [Threads -> {"kernel", "arrive", "combine"}]
                /\ call' \in [Threads -> CallRecords]
                /\ slot' \in [Threads -> Values]
                /\ ops' \in [Threads -> Values]
                /\ barriersCalled' \in [Threads -> Nat]
                /\ departsCalled' \in [Threads -> Nat]
BY DEF TypeOK, SchedOK, Statuses, OsStates

\* Counting a call of the kernel stays within the bound.
LEMMA CountOpType ==
    ASSUME NEW t \in Threads, ops \in [Threads -> Values], CountOp(t)
    PROVE  ops' \in [Threads -> Values] /\ ops'[t] \in Values
BY KernelAssumption DEF CountOp, Values

\* barrier keeps the types.
LEMMA BarrierType ==
    ASSUME TypeInv, NEW t \in Threads, NEW loc \in Locs, Barrier(t, loc)
    PROVE  TypeInv'
<1> USE DEF TypeInv
<1> DEFINE b == BlockOf(t)
<1>0. b \in Blocks
      BY ThreadLocated
<1>1. SchedOK /\ SchedOK'
  <2>1. SchedOK BY TypeSplit
  <2>2. HandOffAndWait(t) \/ \E ds : Fail(t, ds)
        BY Zenon DEF Barrier
  <2>3. QED BY <2>1, <2>2, HandOffType, FailType
<1>2. /\ status' \in [Threads -> Statuses]
      /\ barrier_gen' \in [Blocks -> Nat]
      /\ barrier_loc' \in [Blocks -> Locs \cup {NoLoc}]
  <2>1. /\ status \in [Threads -> Statuses]
        /\ barrier_gen \in [Blocks -> Nat]
        /\ barrier_loc \in [Blocks -> Locs \cup {NoLoc}]
        BY TypeSplit
  <2>2. \/ status' = [status EXCEPT ![t] = "AtBarrier"]
        \/ status' = [i \in Threads |-> IF i \in BlockThreads(b) THEN "Runnable"
                                        ELSE [status EXCEPT ![t] = "AtBarrier"][i]]
        BY Zenon DEF Barrier
  <2>3. barrier_gen' = barrier_gen \/ barrier_gen' = [barrier_gen EXCEPT ![b] = @ + 1]
        BY Zenon DEF Barrier
  <2>4. \/ barrier_loc' = [barrier_loc EXCEPT ![b] = IF @ = NoLoc THEN loc ELSE @]
        \/ barrier_loc' = [barrier_loc EXCEPT ![b] = NoLoc]
        BY Zenon DEF Barrier
  <2>5. status' \in [Threads -> Statuses]
        BY <2>1, <2>2 DEF Statuses
  <2>6. QED BY <1>0, <2>1, <2>3, <2>4, <2>5
<1>3. /\ ops' \in [Threads -> Values]
      /\ barriersCalled' \in [Threads -> Nat]
      /\ UNCHANGED <<warp_wait, warp_gen, pc, call, slot, departsCalled>>
  <2>1. ops \in [Threads -> Values] /\ barriersCalled \in [Threads -> Nat]
        BY TypeSplit
  <2>2. /\ CountOp(t)
        /\ barriersCalled' = [barriersCalled EXCEPT ![t] = @ + 1]
        /\ UNCHANGED <<warp_wait, warp_gen, pc, call, slot, departsCalled>>
        BY Zenon DEF Barrier
  <2>3. QED BY <2>1, <2>2, CountOpType
<1>4. QED BY <1>1, <1>2, <1>3, TypeSplit, TypeSplitNext DEF InCallOK

\* What warp_rendezvous does to the variables it assigns, whichever way it goes.
LEMMA RendezvousEffect ==
    ASSUME NEW t \in Threads, NEW phase, WarpRendezvous(t, phase)
    PROVE  /\ HandOffAndWait(t) \/ \E ds : Fail(t, ds)
           /\ \/ status' = [status EXCEPT ![t] = "AtWarp"]
              \/ \E m \in SUBSET Threads :
                    status' = [i \in Threads |-> IF i \in m THEN "Runnable"
                                                 ELSE [status EXCEPT ![t] = "AtWarp"][i]]
           /\ LET ww == [warp_wait EXCEPT ![t] = [phase |-> phase, op |-> call[t].op,
                                mask |-> call[t].mask, at |-> call[t].at]]
              IN  \/ warp_wait' = ww
                  \/ \E m \in SUBSET Threads :
                        warp_wait' = [i \in Threads |-> IF i \in m THEN NoWait ELSE ww[i]]
           /\ \/ warp_gen' = warp_gen
              \/ warp_gen' = [warp_gen EXCEPT ![WarpOf(t)] = @ + 1]
           /\ UNCHANGED <<barrier_gen, barrier_loc>>
<1>1. Members(t, call[t].mask) \in SUBSET Threads
      BY DEF Members, WarpThreads
<1>2. QED BY <1>1, Zenon DEF WarpRendezvous

\* warp_rendezvous, called with a mask and a place of the kernel's, keeps the types.
LEMMA RendezvousType ==
    ASSUME TypeOK, NEW t \in Threads, NEW phase \in Phases,
           call[t] \in CallArgs, WarpRendezvous(t, phase)
    PROVE  /\ SchedOK'
           /\ status' \in [Threads -> Statuses]
           /\ warp_wait' \in [Threads -> WaitRecords]
           /\ warp_gen' \in [Warps -> Nat]
           /\ UNCHANGED <<barrier_gen, barrier_loc>>
<1>1. /\ SchedOK
      /\ status \in [Threads -> Statuses]
      /\ warp_wait \in [Threads -> WaitRecords]
      /\ warp_gen \in [Warps -> Nat]
      BY TypeSplit
<1>2. [phase |-> phase, op |-> call[t].op, mask |-> call[t].mask, at |-> call[t].at] \in WaitRecords
      BY DEF WaitRecords, CallArgs
<1>3. NoWait \in WaitRecords
      BY DEF WaitRecords
<1>4. SchedOK'
      BY <1>1, RendezvousEffect, HandOffType, FailType
<1>5. status' \in [Threads -> Statuses]
      BY <1>1, RendezvousEffect DEF Statuses
<1>6. warp_wait' \in [Threads -> WaitRecords]
  <2> DEFINE ww == [warp_wait EXCEPT ![t] = [phase |-> phase, op |-> call[t].op,
                        mask |-> call[t].mask, at |-> call[t].at]]
  <2>1. ww \in [Threads -> WaitRecords]
        BY <1>1, <1>2
  <2>2. \/ warp_wait' = ww
        \/ \E m \in SUBSET Threads :
              warp_wait' = [i \in Threads |-> IF i \in m THEN NoWait ELSE ww[i]]
        BY RendezvousEffect
  <2> HIDE DEF ww
  <2>3. QED BY <2>1, <2>2, <1>3
<1>7. warp_gen' \in [Warps -> Nat]
      BY <1>1, RendezvousEffect, ThreadLocated
<1>8. QED BY <1>4, <1>5, <1>6, <1>7, RendezvousEffect

\* The first half of a collective keeps the types.
LEMMA ArriveType ==
    ASSUME TypeInv, NEW t \in Threads, Arrive(t)
    PROVE  TypeInv'
<1>1. /\ pc[t] = "arrive"
      /\ slot' = [slot EXCEPT ![t] = call[t].value]
      /\ pc' = [pc EXCEPT ![t] = "combine"]
      /\ WarpRendezvous(t, "arrive")
      /\ UNCHANGED <<call, ops, barriersCalled, departsCalled>>
      BY DEF Arrive
<1>2. TypeOK /\ call[t] \in CallArgs
      BY <1>1 DEF TypeInv, InCallOK
<1>3. /\ SchedOK'
      /\ status' \in [Threads -> Statuses]
      /\ warp_wait' \in [Threads -> WaitRecords]
      /\ warp_gen' \in [Warps -> Nat]
      /\ UNCHANGED <<barrier_gen, barrier_loc>>
      BY <1>1, <1>2, RendezvousType DEF Phases
<1>4. /\ slot' \in [Threads -> Values]
      /\ pc' \in [Threads -> {"kernel", "arrive", "combine"}]
  <2>1. /\ slot \in [Threads -> Values]
        /\ pc \in [Threads -> {"kernel", "arrive", "combine"}]
        BY <1>2, TypeSplit
  <2>2. call[t].value \in Values
        BY <1>2 DEF CallArgs
  <2>3. QED BY <1>1, <2>1, <2>2
<1>5. TypeOK'
      BY <1>1, <1>2, <1>3, <1>4, TypeSplit, TypeSplitNext
<1>6. InCallOK'
  <2>1. pc \in [Threads -> {"kernel", "arrive", "combine"}]
        BY <1>2, TypeSplit
  <2>2. QED BY <1>1, <2>1 DEF TypeInv, InCallOK
<1>7. QED BY <1>5, <1>6 DEF TypeInv

\* The second half of a collective keeps the types.
LEMMA DepartType ==
    ASSUME TypeInv, NEW t \in Threads, Depart(t)
    PROVE  TypeInv'
<1>1. /\ pc[t] = "combine"
      /\ pc' = [pc EXCEPT ![t] = "kernel"]
      /\ WarpRendezvous(t, "depart")
      /\ departsCalled' = departsCalled
           \/ departsCalled' = [departsCalled EXCEPT ![t] = @ + 1]
      /\ UNCHANGED <<call, slot, ops, barriersCalled>>
      BY Zenon DEF Depart
<1>2. TypeOK /\ call[t] \in CallArgs
      BY <1>1 DEF TypeInv, InCallOK
<1>3. /\ SchedOK'
      /\ status' \in [Threads -> Statuses]
      /\ warp_wait' \in [Threads -> WaitRecords]
      /\ warp_gen' \in [Warps -> Nat]
      /\ UNCHANGED <<barrier_gen, barrier_loc>>
      BY <1>1, <1>2, RendezvousType DEF Phases
<1>4. /\ departsCalled' \in [Threads -> Nat]
      /\ pc' \in [Threads -> {"kernel", "arrive", "combine"}]
  <2>1. /\ departsCalled \in [Threads -> Nat]
        /\ pc \in [Threads -> {"kernel", "arrive", "combine"}]
        BY <1>2, TypeSplit
  <2>2. QED BY <1>1, <2>1
<1>5. TypeOK'
      BY <1>1, <1>2, <1>3, <1>4, TypeSplit, TypeSplitNext
<1>6. InCallOK'
  <2>1. pc \in [Threads -> {"kernel", "arrive", "combine"}]
        BY <1>2, TypeSplit
  <2>2. QED BY <1>1, <2>1 DEF TypeInv, InCallOK
<1>7. QED BY <1>5, <1>6 DEF TypeInv

\* Entering a collective keeps the types.
LEMMA CollectiveType ==
    ASSUME TypeInv, NEW t \in Threads, NEW op \in Ops, NEW mask \in Masks, NEW at \in Locs,
           Collective(t, op, mask, at)
    PROVE  TypeInv'
<1>1. /\ CountOp(t)
      /\ call' = [call EXCEPT ![t] = [op |-> op, mask |-> mask, at |-> at, value |-> ops'[t]]]
      /\ pc' = [pc EXCEPT ![t] = "arrive"]
      /\ UNCHANGED waitVars
      /\ HandOffAndWait(t)
      /\ UNCHANGED <<slot, barriersCalled, departsCalled>>
      BY DEF Collective
<1>2. TypeOK
      BY DEF TypeInv
<1>3. SchedOK'
      BY <1>1, <1>2, HandOffType, TypeSplit
<1>4. ops' \in [Threads -> Values] /\ ops'[t] \in Values
      BY <1>1, <1>2, CountOpType, TypeSplit
<1>5. [op |-> op, mask |-> mask, at |-> at, value |-> ops'[t]] \in CallArgs
      BY <1>4 DEF CallArgs
<1>6. /\ call \in [Threads -> CallRecords]
      /\ pc \in [Threads -> {"kernel", "arrive", "combine"}]
      BY <1>2, TypeSplit
<1>7. /\ call' \in [Threads -> CallRecords]
      /\ pc' \in [Threads -> {"kernel", "arrive", "combine"}]
      BY <1>1, <1>5, <1>6 DEF CallRecords, CallArgs
<1>8. TypeOK'
      BY <1>1, <1>2, <1>3, <1>4, <1>7, TypeSplit, TypeSplitNext DEF waitVars
<1>9. InCallOK'
      BY <1>1, <1>5, <1>6 DEF TypeInv, InCallOK
<1>10. QED BY <1>8, <1>9 DEF TypeInv

\* finish keeps the types, whichever of its five ends it takes.
LEMMA FinishType ==
    ASSUME TypeInv, NEW t \in Threads, Finish(t)
    PROVE  TypeInv'
<1>1. /\ status' = [status EXCEPT ![t] = "Finished"]
      /\ UNCHANGED <<barrier_gen, barrier_loc, warp_wait, warp_gen>>
      /\ UNCHANGED kernelVars
      BY Zenon DEF Finish
<1>2. /\ SchedOK
      /\ status \in [Threads -> Statuses]
      BY TypeSplit DEF TypeInv
<1>3. SchedOK'
  <2>1. CASE \E ds : Fail(t, ds)
        BY <2>1, <1>2, FailType
  <2>2. CASE \E c \in Chosen([status EXCEPT ![t] = "Finished"], choices, current) :
                /\ current' = c
                /\ os' = [NotifyOne(c) EXCEPT ![t] = "gone"]
                /\ Record(c)
                /\ UNCHANGED <<aborted, diags>>
    <3>1. PICK c \in Threads :
                /\ current' = c
                /\ os' = [NotifyOne(c) EXCEPT ![t] = "gone"]
                /\ Record(c)
                /\ UNCHANGED <<aborted, diags>>
          BY <2>2, ChosenCanRun DEF Runnable
    <3>2. os' \in [Threads -> OsStates]
          BY <3>1, <1>2 DEF SchedOK, NotifyOne, OsStates
    <3>3. trace_complete' = (trace_complete /\ Len(trace) < MaxTrace)
          BY <3>1 DEF Record
    <3>4. trace_complete' \in BOOLEAN
          BY <3>3
    <3>5. QED BY <3>1, <3>2, <3>4, <1>2 DEF SchedOK
  <2>3. CASE /\ current' = NoThread
             /\ aborted' \in BOOLEAN
             /\ os' = NotifyAll(t) \/ os' = [os EXCEPT ![t] = "gone"]
             /\ UNCHANGED <<choices, trace, trace_complete>>
        BY <2>3, <1>2 DEF SchedOK, NotifyAll, OsStates
  <2>4. aborted \in BOOLEAN
        BY <1>2 DEF SchedOK
  <2>5. QED BY <2>1, <2>2, <2>3, <2>4, Zenon DEF Finish
<1>4. status' \in [Threads -> Statuses]
      BY <1>1, <1>2 DEF Statuses
<1>5. QED BY <1>1, <1>3, <1>4, TypeSplit, TypeSplitNext DEF TypeInv, InCallOK, kernelVars

\* The state Scheduler::new makes has the types.
LEMMA TypeInit == Init => TypeInv
<1> SUFFICES ASSUME Init PROVE TypeInv
    OBVIOUS
<1>1. current \in Threads
  <2>1. PICK ch \in InitialChoices : \E c \in Chosen(status, ch, NoThread) : current = c
        BY DEF Init
  <2>2. QED BY <2>1, ChosenCanRun DEF Runnable
<1>2. 0 \in Values /\ NoCall \in CallRecords /\ NoWait \in WaitRecords
      BY KernelAssumption DEF Values, CallRecords, WaitRecords
<1>3. trace_complete \in BOOLEAN
      BY DEF Init
<1>4. TypeOK
      BY <1>1, <1>2, <1>3 DEF Init, TypeOK
<1>5. QED BY <1>4 DEF TypeInv, InCallOK, Init

\* Every step keeps the types.
LEMMA TypeStep == TypeInv /\ [Next]_vars => TypeInv'
<1> SUFFICES ASSUME TypeInv, [Next]_vars PROVE TypeInv'
    OBVIOUS
<1>0. TypeOK /\ InCallOK
      BY DEF TypeInv
<1>1. ASSUME NEW t \in Threads, Resume(t) PROVE TypeInv'
  <2>1. SchedOK'
        BY <1>0, <1>1, TypeSplit DEF Resume, SchedOK, OsStates
  <2>2. QED BY <1>0, <1>1, <2>1, TypeSplit, TypeSplitNext
            DEF Resume, TypeInv, InCallOK, waitVars, kernelVars
<1>2. ASSUME NEW t \in Threads, SpuriousWakeup(t) PROVE TypeInv'
  <2>1. SchedOK'
        BY <1>0, <1>2, TypeSplit DEF SpuriousWakeup, SchedOK, OsStates
  <2>2. QED BY <1>0, <1>2, <2>1, TypeSplit, TypeSplitNext
            DEF SpuriousWakeup, TypeInv, InCallOK, waitVars, kernelVars
<1>3. ASSUME NEW t \in Threads, YieldNow(t) PROVE TypeInv'
  <2>1. SchedOK' /\ ops' \in [Threads -> Values]
        BY <1>0, <1>3, TypeSplit, HandOffType, CountOpType DEF YieldNow
  <2>2. QED BY <1>0, <1>3, <2>1, TypeSplit, TypeSplitNext
            DEF YieldNow, TypeInv, InCallOK, waitVars
<1>4. ASSUME NEW t \in Threads, NEW kind, Abort(t, kind) PROVE TypeInv'
  <2>1. SchedOK'
        BY <1>0, <1>4, TypeSplit, FailType DEF Abort
  <2>2. QED BY <1>0, <1>4, <2>1, TypeSplit, TypeSplitNext
            DEF Abort, TypeInv, InCallOK, waitVars, kernelVars
<1>5. ASSUME NEW t \in Threads, BadMask(t) \/ CombinePanics(t) PROVE TypeInv'
  <2>1. SchedOK'
        BY <1>0, <1>5, TypeSplit, FailType DEF BadMask, CombinePanics
  <2>2. QED BY <1>0, <1>5, <2>1, TypeSplit, TypeSplitNext
            DEF BadMask, CombinePanics, TypeInv, InCallOK, waitVars, kernelVars
<1>6. CASE UNCHANGED vars
      BY <1>0, <1>6, TypeSplit, TypeSplitNext
         DEF vars, TypeInv, InCallOK, schedVars, waitVars, kernelVars, SchedOK
<1>7. CASE Next
      BY <1>1, <1>2, <1>3, <1>4, <1>5, <1>6, <1>7, BarrierType, CollectiveType,
         ArriveType, DepartType, FinishType DEF Next, Step, Joined
<1>8. QED BY <1>6, <1>7

\* Every variable keeps its type, and a collective in progress its arguments.
THEOREM TypeCorrect == Spec => []TypeOK
<1>1. TypeInv => TypeOK
      BY DEF TypeInv
<1>2. QED BY <1>1, TypeInit, TypeStep, PTL DEF Spec

(***************************************************************************)
(* The inductive invariant.  None of the three properties is inductive     *)
(* alone: that the holder is not asleep needs that a chosen thread has not *)
(* gone, which needs that only finished threads go while the launch lives. *)
(***************************************************************************)
\* Whoever is given the turn can run.
TurnRunnable ==
    ~aborted /\ current # NoThread => current \in Threads /\ status[current] = "Runnable"

\* While the launch lives a thread leaves only by returning from the kernel.
GoneFinished ==
    ~aborted => \A t \in Threads : os[t] = "gone" => status[t] = "Finished"

TurnInv ==
    /\ TurnExclusive
    /\ NoLostWakeup
    /\ SomeoneHasTurn
    /\ TurnRunnable
    /\ GoneFinished

\* A step of a running thread: it alone runs, and the launch lives.
LEMMA RunningAlone ==
    ASSUME TypeOK, TurnInv, NEW t \in Threads, os[t] = "running"
    PROVE  /\ current = t /\ status[t] = "Runnable" /\ ~aborted
           /\ \A u \in Threads \ {t} : os[u] # "running"
BY DEF TurnInv, TurnExclusive

\* A step revives no finished thread.
FinishedStay == \A u \in Threads : status[u] = "Finished" => status'[u] = "Finished"

\* Passing the turn on keeps the invariant, provided that no finished thread is revived.
LEMMA HandOffTurn ==
    ASSUME TypeOK, TurnInv, NEW t \in Threads, os[t] = "running",
           status' \in [Threads -> Statuses], FinishedStay, HandOffAndWait(t)
    PROVE  TurnInv'
<1>0. /\ os \in [Threads -> OsStates]
      /\ current = t /\ status[t] = "Runnable" /\ ~aborted
      /\ \A u \in Threads \ {t} : os[u] # "running"
      BY RunningAlone, TypeSplit DEF SchedOK
<1>1. CASE Runnable(status') # {} /\ HandOffAndWait(t)
  <2>1. PICK c \in Chosen(status', choices, current) :
            /\ current' = c
            /\ os' = IF c = t THEN os ELSE [NotifyOne(c) EXCEPT ![t] = "parked"]
        BY <1>1 DEF HandOffAndWait
  <2>2. c \in Threads /\ status'[c] = "Runnable"
        BY ChosenCanRun DEF Runnable
  <2>3. aborted' = aborted
        BY <1>1 DEF HandOffAndWait
  <2>4. os[c] # "gone"
        BY <1>0, <2>2 DEF TurnInv, GoneFinished, FinishedStay
  <2>5. \A u \in Threads : os'[u] = IF c = t THEN os[u]
                                    ELSE IF u = t THEN "parked"
                                    ELSE IF u = c /\ os[u] = "parked" THEN "woken"
                                    ELSE os[u]
        BY <1>0, <2>1, <2>2 DEF NotifyOne
  <2>6. TurnExclusive'
        BY <1>0, <2>1, <2>2, <2>3, <2>5 DEF TurnExclusive
  <2>7. NoLostWakeup'
        BY <1>0, <2>1, <2>2, <2>3, <2>4, <2>5 DEF NoLostWakeup, OsStates
  <2>8. SomeoneHasTurn' /\ TurnRunnable'
        BY <1>0, <2>1, <2>2, <2>4, <2>5 DEF SomeoneHasTurn, TurnRunnable
  <2>9. GoneFinished'
        BY <1>0, <2>3, <2>5 DEF TurnInv, GoneFinished, FinishedStay
  <2>10. QED BY <2>6, <2>7, <2>8, <2>9 DEF TurnInv
<1>2. CASE Runnable(status') = {} /\ HandOffAndWait(t)
  <2>1. aborted' = TRUE /\ os' = NotifyAll(t)
        BY <1>2 DEF HandOffAndWait
  <2>2. \A u \in Threads : os'[u] # "running" /\ os'[u] # "parked"
        BY <1>0, <2>1 DEF NotifyAll, OsStates
  <2>3. QED BY <2>1, <2>2 DEF TurnInv, TurnExclusive, NoLostWakeup, SomeoneHasTurn,
                              TurnRunnable, GoneFinished
<1>3. QED BY <1>1, <1>2

\* Stopping the launch keeps the invariant: nobody runs, nobody is left asleep.
LEMMA FailTurn ==
    ASSUME TypeOK, TurnInv, NEW t \in Threads, os[t] = "running",
           NEW ds, Fail(t, ds)
    PROVE  TurnInv'
<1>0. /\ os \in [Threads -> OsStates]
      /\ \A u \in Threads \ {t} : os[u] # "running"
      BY RunningAlone, TypeSplit DEF SchedOK
<1>1. aborted' = TRUE /\ os' = NotifyAll(t)
      BY DEF Fail
<1>2. \A u \in Threads : os'[u] # "running" /\ os'[u] # "parked"
      BY <1>0, <1>1 DEF NotifyAll, OsStates
<1>3. QED BY <1>1, <1>2 DEF TurnInv, TurnExclusive, NoLostWakeup, SomeoneHasTurn,
                            TurnRunnable, GoneFinished

(***************************************************************************)
(* The calls that block or finish threads keep finished ones finished.     *)
(***************************************************************************)
\* barrier revives no finished thread.
LEMMA BarrierStay ==
    ASSUME TypeOK, NEW t \in Threads, NEW loc, Barrier(t, loc),
           status[t] = "Runnable"
    PROVE  FinishedStay
<1>0. status \in [Threads -> Statuses]
      BY TypeSplit
<1>1. \/ status' = [status EXCEPT ![t] = "AtBarrier"]
      \/ /\ \A u \in BlockThreads(BlockOf(t)) :
                [status EXCEPT ![t] = "AtBarrier"][u] = "AtBarrier"
         /\ status' = [i \in Threads |->
                            IF i \in BlockThreads(BlockOf(t)) THEN "Runnable"
                            ELSE [status EXCEPT ![t] = "AtBarrier"][i]]
      BY Zenon DEF Barrier
<1>2. QED BY <1>0, <1>1 DEF FinishedStay

\* warp_rendezvous revives no finished thread.
LEMMA RendezvousStay ==
    ASSUME TypeOK, NEW t \in Threads, NEW phase, WarpRendezvous(t, phase),
           status[t] = "Runnable"
    PROVE  FinishedStay
<1> DEFINE members == Members(t, call[t].mask)
<1>0. status \in [Threads -> Statuses]
      BY TypeSplit
<1>1. \/ status' = [status EXCEPT ![t] = "AtWarp"]
      \/ /\ \A u \in members : [status EXCEPT ![t] = "AtWarp"][u] = "AtWarp"
         /\ status' = [i \in Threads |-> IF i \in members THEN "Runnable"
                                         ELSE [status EXCEPT ![t] = "AtWarp"][i]]
      BY Zenon DEF WarpRendezvous
<1> HIDE DEF members
<1>2. QED BY <1>0, <1>1 DEF FinishedStay

\* finish keeps the invariant, whichever of its five ends it takes.
LEMMA FinishTurn ==
    ASSUME TypeOK, TurnInv, NEW t \in Threads, Finish(t)
    PROVE  TurnInv'
<1> DEFINE st == [status EXCEPT ![t] = "Finished"]
<1>0. /\ os \in [Threads -> OsStates]
      /\ status \in [Threads -> Statuses]
      /\ os[t] = "running"
      /\ current = t /\ status[t] = "Runnable" /\ ~aborted
      /\ \A u \in Threads \ {t} : os[u] # "running"
      BY RunningAlone, TypeSplit DEF SchedOK, Finish, InKernel
<1>1. status' = st
      BY Zenon DEF Finish
<1>2. CASE \E ds : Fail(t, ds)
      BY <1>0, <1>2, FailTurn
<1>3. CASE \E c \in Chosen(st, choices, current) :
              /\ current' = c
              /\ os' = [NotifyOne(c) EXCEPT ![t] = "gone"]
              /\ UNCHANGED <<aborted, diags>>
  <2>1. PICK c \in Runnable(st) :
              /\ current' = c
              /\ os' = [NotifyOne(c) EXCEPT ![t] = "gone"]
              /\ UNCHANGED <<aborted, diags>>
        BY <1>3, ChosenCanRun
  <2>2. c \in Threads /\ c # t /\ status[c] = "Runnable" /\ status'[c] = "Runnable"
        BY <1>0, <1>1, <2>1 DEF Runnable
  <2>3. os[c] # "gone"
        BY <1>0, <2>2 DEF TurnInv, GoneFinished
  <2>4. \A u \in Threads : os'[u] = IF u = t THEN "gone"
                                    ELSE IF u = c /\ os[u] = "parked" THEN "woken"
                                    ELSE os[u]
        BY <1>0, <2>1, <2>2 DEF NotifyOne
  <2>5. TurnExclusive'
        BY <1>0, <2>4 DEF TurnExclusive
  <2>6. NoLostWakeup'
        BY <1>0, <2>1, <2>2, <2>3, <2>4 DEF NoLostWakeup, OsStates
  <2>7. SomeoneHasTurn' /\ TurnRunnable'
        BY <2>1, <2>2, <2>3, <2>4 DEF SomeoneHasTurn, TurnRunnable
  <2>8. GoneFinished'
        BY <1>0, <1>1, <2>1, <2>4 DEF TurnInv, GoneFinished
  <2>9. QED BY <2>5, <2>6, <2>7, <2>8 DEF TurnInv
<1>4. CASE /\ aborted' = TRUE
           /\ os' = NotifyAll(t)
  <2>1. \A u \in Threads : os'[u] # "running" /\ os'[u] # "parked"
        BY <1>0, <1>4 DEF NotifyAll, OsStates
  <2>2. QED BY <1>4, <2>1 DEF TurnInv, TurnExclusive, NoLostWakeup, SomeoneHasTurn,
                              TurnRunnable, GoneFinished
<1>5. CASE /\ \A i \in Threads : st[i] = "Finished"
           /\ current' = NoThread
           /\ os' = [os EXCEPT ![t] = "gone"]
           /\ UNCHANGED aborted
  <2>1. \A u \in Threads : os'[u] # "running" /\ status'[u] = "Finished"
        BY <1>0, <1>1, <1>5
  <2>2. QED BY <1>0, <1>5, <2>1 DEF TurnInv, TurnExclusive, NoLostWakeup, SomeoneHasTurn,
                              TurnRunnable, GoneFinished
<1> HIDE DEF st
<1>6. QED BY <1>2, <1>3, <1>4, <1>5, Zenon DEF Finish, st

\* Scheduler::new gives the turn to a thread that can run.
LEMMA TurnInit == Init => TurnInv
<1> SUFFICES ASSUME Init PROVE TurnInv
    OBVIOUS
<1>1. current \in Threads
      BY TypeInit, NoThreadIsNone, ChosenCanRun DEF Init, Runnable
<1>2. QED BY <1>1 DEF Init, TurnInv, TurnExclusive, NoLostWakeup, SomeoneHasTurn,
                      TurnRunnable, GoneFinished

\* Every step keeps the invariant.
LEMMA TurnStep == TypeOK /\ TypeOK' /\ TurnInv /\ [Next]_vars => TurnInv'
<1> SUFFICES ASSUME TypeOK, TypeOK', TurnInv, [Next]_vars PROVE TurnInv'
    OBVIOUS
<1>0. /\ status' \in [Threads -> Statuses]
      /\ os \in [Threads -> OsStates] /\ status \in [Threads -> Statuses]
      BY TypeSplit, TypeSplitNext DEF SchedOK
<1>1. ASSUME NEW t \in Threads, Resume(t) PROVE TurnInv'
  <2>1. /\ os[t] \in {"starting", "woken"}
        /\ os' = [os EXCEPT ![t] = IF aborted THEN "gone"
                                   ELSE IF current = t THEN "running" ELSE "parked"]
        /\ UNCHANGED <<current, aborted, status>>
        BY <1>1 DEF Resume, waitVars
  <2>2. TurnExclusive'
    <3>1. SUFFICES ASSUME NEW u \in Threads, os'[u] = "running"
                   PROVE  current' = u /\ status'[u] = "Runnable" /\ ~aborted'
          BY DEF TurnExclusive
    <3>2. CASE u = t
      <4>1. ~aborted /\ current = t
            BY <1>0, <2>1, <3>1, <3>2
      <4>2. QED BY <2>1, <3>2, <4>1, NoThreadIsNone DEF TurnInv, TurnRunnable
    <3>3. CASE u # t
      <4>1. os[u] = "running"
            BY <1>0, <2>1, <3>1, <3>3
      <4>2. QED BY <2>1, <4>1 DEF TurnInv, TurnExclusive
    <3>4. QED BY <3>2, <3>3
  <2>3. NoLostWakeup'
        BY <1>0, <2>1 DEF TurnInv, NoLostWakeup, TurnRunnable
  <2>4. SomeoneHasTurn' /\ TurnRunnable' /\ GoneFinished'
        BY <1>0, <2>1 DEF TurnInv, SomeoneHasTurn, TurnRunnable, GoneFinished
  <2>5. QED BY <2>2, <2>3, <2>4 DEF TurnInv
<1>2. ASSUME NEW t \in Threads, SpuriousWakeup(t) PROVE TurnInv'
      BY <1>0, <1>2 DEF SpuriousWakeup, waitVars, TurnInv, TurnExclusive, NoLostWakeup,
                        SomeoneHasTurn, TurnRunnable, GoneFinished
<1>3. ASSUME NEW t \in Threads, YieldNow(t) PROVE TurnInv'
      BY <1>0, <1>3, HandOffTurn DEF YieldNow, InKernel, FinishedStay, waitVars
<1>4. ASSUME NEW t \in Threads, NEW kind, Abort(t, kind) PROVE TurnInv'
      BY <1>4, FailTurn DEF Abort, InKernel
<1>5. ASSUME NEW t \in Threads, NEW loc \in Locs, Barrier(t, loc) PROVE TurnInv'
  <2>1. os[t] = "running" /\ status[t] = "Runnable"
        BY <1>5, RunningAlone DEF Barrier, InKernel
  <2>2. HandOffAndWait(t) \/ \E ds : Fail(t, ds)
        BY <1>5, Zenon DEF Barrier
  <2>3. FinishedStay
        BY <1>5, <2>1, BarrierStay
  <2>4. QED BY <1>0, <2>1, <2>2, <2>3, HandOffTurn, FailTurn
<1>6. ASSUME NEW t \in Threads, NEW op \in Ops, NEW mask \in Masks, NEW at \in Locs, Collective(t, op, mask, at)
      PROVE  TurnInv'
      BY <1>0, <1>6, HandOffTurn DEF Collective, InKernel, FinishedStay, waitVars
<1>7. ASSUME NEW t \in Threads, BadMask(t) \/ CombinePanics(t) PROVE TurnInv'
      BY <1>7, FailTurn DEF BadMask, CombinePanics
<1>8. ASSUME NEW t \in Threads, NEW phase, os[t] = "running", WarpRendezvous(t, phase)
      PROVE  TurnInv'
  <2>1. status[t] = "Runnable"
        BY <1>8, RunningAlone
  <2>2. HandOffAndWait(t) \/ \E ds : Fail(t, ds)
        BY <1>8, RendezvousEffect
  <2>3. FinishedStay
        BY <1>8, <2>1, RendezvousStay
  <2>4. QED BY <1>0, <1>8, <2>2, <2>3, HandOffTurn, FailTurn
<1>9. CASE UNCHANGED vars
      BY <1>9 DEF vars, schedVars, waitVars, TurnInv, TurnExclusive, NoLostWakeup,
                  SomeoneHasTurn, TurnRunnable, GoneFinished
<1>10. ASSUME NEW t \in Threads, Step(t) PROVE TurnInv'
  <2>1. ASSUME Arrive(t) PROVE TurnInv'
        BY <2>1, <1>8 DEF Arrive
  <2>2. ASSUME Depart(t) PROVE TurnInv'
        BY <2>2, <1>8 DEF Depart
  <2>3. QED BY <1>10, <1>1, <1>3, <1>4, <1>5, <1>6, <1>7, <2>1, <2>2, FinishTurn DEF Step
<1>11. QED BY <1>2, <1>9, <1>10 DEF Next, Joined

\* The turn is exclusive, never lost and never unowned, in every launch.
THEOREM TurnIsSound == Spec => [](TurnExclusive /\ NoLostWakeup /\ SomeoneHasTurn)
<1>1. TypeInv => TypeOK
      BY DEF TypeInv
<1>2. TurnInv => TurnExclusive /\ NoLostWakeup /\ SomeoneHasTurn
      BY DEF TurnInv
<1>3. QED BY <1>1, <1>2, TypeInit, TypeStep, TurnInit, TurnStep, PTL DEF Spec

\* The thread given the turn is never left on its condition variable, and an
\* abort wakes everyone: the notification of `wake` is never lost.
THEOREM WakeupsKept == Spec => []NoLostWakeup
BY TurnIsSound, PTL

\* A launch that is neither aborted nor over has a thread with the turn that
\* can use it, so `detect_stuck` is never missed.
THEOREM TurnIsOwned == Spec => []SomeoneHasTurn
BY TurnIsSound, PTL

(***************************************************************************)
(* Nobody is left behind: the safety half of LaunchEnds.                   *)
(***************************************************************************)
\* While the launch lives, a thread that has returned from the kernel has left.
FinishedGone ==
    ~aborted => \A t \in Threads : status[t] = "Finished" => os[t] = "gone"

\* As long as somebody is still there, somebody is on the way to the mutex or runs.
NobodyLeftBehind ==
    (\E t \in Threads : os[t] # "gone") =>
        \E t \in Threads : os[t] \in {"starting", "woken", "running"}

\* A step that finishes nobody and brings nobody back.
NoneFinishes ==
    \A u \in Threads : /\ status'[u] = "Finished" => status[u] = "Finished"
                       /\ os[u] = "gone" => os'[u] = "gone"

\* A thread that has left stays away from a hand-off or a failure.
LEMMA GoneStay ==
    ASSUME TypeOK, NEW t \in Threads, os[t] = "running",
           HandOffAndWait(t) \/ \E ds : Fail(t, ds)
    PROVE  aborted' \/ \A u \in Threads : os[u] = "gone" => os'[u] = "gone"
<1>0. os \in [Threads -> OsStates]
      BY TypeSplit DEF SchedOK
<1>1. CASE \E ds : Fail(t, ds)
      BY <1>1 DEF Fail
<1>2. CASE HandOffAndWait(t)
  <2>1. CASE aborted' = TRUE
        BY <2>1
  <2>2. CASE \E c \in Chosen(status', choices, current) :
                os' = IF c = t THEN os ELSE [NotifyOne(c) EXCEPT ![t] = "parked"]
        BY <1>0, <2>2 DEF NotifyOne
  <2>3. QED BY <1>2, <2>1, <2>2, Zenon DEF HandOffAndWait
<1>3. QED BY <1>1, <1>2

\* finish takes the thread that finishes with it.
LEMMA FinishGone ==
    ASSUME TypeOK, TurnInv, FinishedGone, NEW t \in Threads, Finish(t)
    PROVE  FinishedGone'
<1>0. /\ os \in [Threads -> OsStates] /\ status \in [Threads -> Statuses]
      /\ os[t] = "running" /\ ~aborted
      BY RunningAlone, TypeSplit DEF SchedOK, Finish, InKernel
<1>1. status' = [status EXCEPT ![t] = "Finished"]
      BY Zenon DEF Finish
<1>2. CASE aborted'
      BY <1>2 DEF FinishedGone
<1>3. CASE \E c \in Threads : os' = [NotifyOne(c) EXCEPT ![t] = "gone"]
      BY <1>0, <1>1, <1>3 DEF FinishedGone, NotifyOne
<1>4. CASE os' = [os EXCEPT ![t] = "gone"]
      BY <1>0, <1>1, <1>4 DEF FinishedGone
<1>5. \/ \E ds : Fail(t, ds)
      \/ \E c \in Chosen([status EXCEPT ![t] = "Finished"], choices, current) :
            os' = [NotifyOne(c) EXCEPT ![t] = "gone"]
      \/ aborted' = TRUE
      \/ os' = [os EXCEPT ![t] = "gone"]
      BY Zenon DEF Finish
<1>6. (\E ds : Fail(t, ds)) => aborted'
      BY DEF Fail
<1>7. Chosen([status EXCEPT ![t] = "Finished"], choices, current) \subseteq Threads
      BY ChosenCanRun DEF Runnable
<1>8. QED BY <1>2, <1>3, <1>4, <1>5, <1>6, <1>7

\* Every step keeps it.
LEMMA FinishedGoneStep ==
    TypeOK /\ TypeOK' /\ TurnInv /\ FinishedGone /\ [Next]_vars => FinishedGone'
<1> SUFFICES ASSUME TypeOK, TypeOK', TurnInv, FinishedGone, [Next]_vars PROVE FinishedGone'
    OBVIOUS
<1>0. /\ aborted \in BOOLEAN /\ aborted' \in BOOLEAN
      /\ os \in [Threads -> OsStates] /\ status \in [Threads -> Statuses]
      BY TypeSplit, TypeSplitNext DEF SchedOK
<1>1. ASSUME aborted => aborted', aborted' \/ NoneFinishes PROVE FinishedGone'
      BY <1>1 DEF FinishedGone, NoneFinishes
<1>2. ASSUME NEW t \in Threads, os[t] = "running", HandOffAndWait(t) \/ \E ds : Fail(t, ds),
             \A u \in Threads : status'[u] = "Finished" => status[u] = "Finished"
      PROVE  FinishedGone'
  <2>1. ~aborted
        BY <1>2, RunningAlone
  <2>2. QED BY <1>1, <1>2, <2>1, GoneStay DEF NoneFinishes
<1>3. ASSUME NEW t \in Threads, Resume(t) \/ SpuriousWakeup(t) PROVE FinishedGone'
      BY <1>0, <1>1, <1>3 DEF Resume, SpuriousWakeup, waitVars, NoneFinishes
<1>4. ASSUME NEW t \in Threads, YieldNow(t) PROVE FinishedGone'
      BY <1>2, <1>4 DEF YieldNow, InKernel, waitVars
<1>5. ASSUME NEW t \in Threads, NEW kind, Abort(t, kind) PROVE FinishedGone'
  <2>1. aborted'
        BY <1>5 DEF Abort, Fail
  <2>2. QED BY <2>1 DEF FinishedGone
<1>6. ASSUME NEW t \in Threads, NEW loc, Barrier(t, loc) PROVE FinishedGone'
  <2>1. os[t] = "running" /\ (HandOffAndWait(t) \/ \E ds : Fail(t, ds))
        BY <1>6, Zenon DEF Barrier, InKernel
  <2>2. \/ status' = [status EXCEPT ![t] = "AtBarrier"]
        \/ status' = [i \in Threads |-> IF i \in BlockThreads(BlockOf(t)) THEN "Runnable"
                                        ELSE [status EXCEPT ![t] = "AtBarrier"][i]]
        BY <1>6, Zenon DEF Barrier
  <2>3. QED BY <1>0, <1>2, <2>1, <2>2
<1>7. ASSUME NEW t \in Threads, NEW op, NEW mask, NEW at, Collective(t, op, mask, at)
      PROVE  FinishedGone'
      BY <1>2, <1>7 DEF Collective, InKernel, waitVars
<1>8. ASSUME NEW t \in Threads, BadMask(t) \/ CombinePanics(t) PROVE FinishedGone'
  <2>1. aborted'
        BY <1>8 DEF BadMask, CombinePanics, Fail
  <2>2. QED BY <2>1 DEF FinishedGone
<1>9. ASSUME NEW t \in Threads, NEW phase, os[t] = "running", WarpRendezvous(t, phase)
      PROVE  FinishedGone'
  <2>1. HandOffAndWait(t) \/ \E ds : Fail(t, ds)
        BY <1>9, RendezvousEffect
  <2> DEFINE members == Members(t, call[t].mask)
  <2>2. \/ status' = [status EXCEPT ![t] = "AtWarp"]
        \/ status' = [i \in Threads |-> IF i \in members THEN "Runnable"
                                        ELSE [status EXCEPT ![t] = "AtWarp"][i]]
        BY <1>9, Zenon DEF WarpRendezvous
  <2> HIDE DEF members
  <2>3. QED BY <1>0, <1>2, <1>9, <2>1, <2>2
<1>10. ASSUME NEW t \in Threads, Arrive(t) \/ Depart(t) PROVE FinishedGone'
      BY <1>9, <1>10 DEF Arrive, Depart
<1>11. CASE UNCHANGED vars
      BY <1>11 DEF vars, schedVars, waitVars, FinishedGone
<1>12. ASSUME NEW t \in Threads, Step(t) PROVE FinishedGone'
      BY <1>12, <1>3, <1>4, <1>5, <1>6, <1>7, <1>8, <1>10, FinishGone DEF Step
<1>13. QED BY <1>3, <1>11, <1>12 DEF Next, Joined

\* "No thread is left behind on its condition variable": in every launch, as long
\* as one thread has not left, one is running or on its way to the mutex, so that
\* a launch never ends with threads asleep that nobody will wake.
THEOREM NobodyIsLeftBehind == Spec => []NobodyLeftBehind
<1>1. Init => FinishedGone
      BY DEF Init, FinishedGone
<1>2. TypeInv => TypeOK
      BY DEF TypeInv
<1>3. TypeOK /\ TurnInv /\ FinishedGone => NobodyLeftBehind
  <2>1. SUFFICES ASSUME TypeOK, TurnInv, FinishedGone, NEW u \in Threads, os[u] # "gone"
                 PROVE  \E t \in Threads : os[t] \in {"starting", "woken", "running"}
        BY DEF NobodyLeftBehind
  <2>2. os \in [Threads -> OsStates]
        BY <2>1, TypeSplit DEF SchedOK
  <2>3. CASE aborted
        BY <2>1, <2>2, <2>3 DEF TurnInv, NoLostWakeup, OsStates
  <2>4. CASE ~aborted
    <3>1. status[u] # "Finished"
          BY <2>1, <2>4 DEF FinishedGone
    <3>2. current \in Threads
          BY <2>1, <2>4, <3>1 DEF TurnInv, SomeoneHasTurn
    <3>3. QED BY <2>1, <2>4, <3>2, NoThreadIsNone DEF TurnInv, NoLostWakeup
  <2>5. QED BY <2>3, <2>4
<1>4. QED BY <1>1, <1>2, <1>3, TypeInit, TypeStep, TurnInit, TurnStep, FinishedGoneStep, PTL
      DEF Spec

(***************************************************************************)
(* Epochs and barriers, for every launch.  barrier_gen and warp_gen count  *)
(* exactly the barriers and full-warp collectives that each thread has     *)
(* itself passed.  Both are inductive given that a running thread is       *)
(* runnable (TurnExclusive): it is not already counted as waiting.  With   *)
(* this the scheduler implements Turns.                                    *)
(***************************************************************************)

\* A step that moves no thread into or out of a barrier keeps the count.
LEMMA NoBarrierStep ==
    ASSUME BarrierLockstep, UNCHANGED <<barriersCalled, barrier_gen>>,
           \A u \in Threads : status[u] = "AtBarrier" <=> status'[u] = "AtBarrier"
    PROVE  BarrierLockstep'
BY DEF BarrierLockstep

\* barrier keeps the count: one more call, and one more generation once all
\* threads of the block have made it.
LEMMA BarrierCounts ==
    ASSUME TypeOK, TurnInv, BarrierLockstep, NEW t \in Threads, NEW loc, Barrier(t, loc)
    PROVE  BarrierLockstep'
<1> DEFINE b == BlockOf(t)
           st == [status EXCEPT ![t] = "AtBarrier"]
<1>1. status[t] = "Runnable"
      BY RunningAlone DEF Barrier, InKernel
<1>2. /\ barrier_gen \in [Blocks -> Nat] /\ status \in [Threads -> Statuses]
      /\ barriersCalled \in [Threads -> Nat]
      /\ b \in Blocks /\ \A u \in Threads : BlockOf(u) \in Blocks
      BY TypeSplit, ThreadLocated DEF SchedOK
<1>3. barriersCalled' = [barriersCalled EXCEPT ![t] = @ + 1]
      BY DEF Barrier
<1>4. \/ status' = st /\ UNCHANGED barrier_gen
      \/ /\ \A i \in BlockThreads(b) : st[i] = "AtBarrier"
         /\ status' = [i \in Threads |->
                         IF i \in BlockThreads(b) THEN "Runnable" ELSE st[i]]
         /\ barrier_gen' = [barrier_gen EXCEPT ![b] = @ + 1]
      BY Zenon DEF Barrier
<1>5. SUFFICES ASSUME NEW u \in Threads
               PROVE  barriersCalled'[u] = barrier_gen'[BlockOf(u)]
                                           + (IF status'[u] = "AtBarrier" THEN 1 ELSE 0)
      BY DEF BarrierLockstep
<1>6. barriersCalled[u] = barrier_gen[BlockOf(u)]
                          + (IF status[u] = "AtBarrier" THEN 1 ELSE 0)
      BY DEF BarrierLockstep
<1>7. CASE status' = st /\ UNCHANGED barrier_gen
      BY <1>1, <1>2, <1>3, <1>6, <1>7
<1>8. CASE /\ \A i \in BlockThreads(b) : st[i] = "AtBarrier"
           /\ status' = [i \in Threads |->
                           IF i \in BlockThreads(b) THEN "Runnable" ELSE st[i]]
           /\ barrier_gen' = [barrier_gen EXCEPT ![b] = @ + 1]
  <2>1. u \in BlockThreads(b) <=> BlockOf(u) = b
        BY DEF BlockThreads
  <2>2. t \in BlockThreads(b)
        BY DEF BlockThreads
  <2>3. CASE BlockOf(u) = b
        BY <1>1, <1>2, <1>3, <1>6, <1>8, <2>1, <2>2, <2>3
  <2>4. CASE BlockOf(u) # b
        BY <1>1, <1>2, <1>3, <1>6, <1>8, <2>1, <2>2, <2>4
  <2>5. QED BY <2>3, <2>4
<1>9. QED BY <1>4, <1>7, <1>8

\* warp_rendezvous moves nobody into or out of a barrier.
LEMMA RendezvousAtBarrier ==
    ASSUME TypeOK, NEW t \in Threads, NEW phase, WarpRendezvous(t, phase),
           status[t] = "Runnable", NEW u \in Threads
    PROVE  status[u] = "AtBarrier" <=> status'[u] = "AtBarrier"
<1> DEFINE wait == [phase |-> phase, op |-> call[t].op, mask |-> call[t].mask, at |-> call[t].at]
           st == [status EXCEPT ![t] = "AtWarp"]
           members == Members(t, wait.mask)
<1>1. status \in [Threads -> Statuses]
      BY TypeSplit DEF SchedOK
<1>2. \/ status' = st
      \/ /\ \A v \in members : st[v] = "AtWarp"
         /\ status' = [i \in Threads |-> IF i \in members THEN "Runnable" ELSE st[i]]
      BY Zenon DEF WarpRendezvous
<1> HIDE DEF members
<1>3. QED BY <1>1, <1>2

\* finish moves nobody into or out of a barrier or a collective.
LEMMA FinishStatus ==
    ASSUME NEW t \in Threads, Finish(t)
    PROVE  /\ status' = [status EXCEPT ![t] = "Finished"]
           /\ UNCHANGED <<barrier_gen, barrier_loc, warp_wait, warp_gen>>
           /\ UNCHANGED kernelVars
           /\ InKernel(t)
BY Zenon DEF Finish

\* Every step keeps the count of barriers.
LEMMA BarrierLockstepStep ==
    TypeOK /\ TurnInv /\ BarrierLockstep /\ [Next]_vars => BarrierLockstep'
<1> SUFFICES ASSUME TypeOK, TurnInv, BarrierLockstep, [Next]_vars PROVE BarrierLockstep'
    OBVIOUS
<1>0. status \in [Threads -> Statuses]
      BY TypeSplit DEF SchedOK
<1>1. ASSUME UNCHANGED <<status, barriersCalled, barrier_gen>> PROVE BarrierLockstep'
      BY <1>1 DEF BarrierLockstep
<1>2. ASSUME NEW t \in Threads, NEW phase, os[t] = "running", WarpRendezvous(t, phase),
             UNCHANGED barriersCalled
      PROVE  BarrierLockstep'
  <2>1. status[t] = "Runnable"
        BY <1>2, RunningAlone
  <2>2. UNCHANGED barrier_gen
        BY <1>2, RendezvousEffect
  <2>3. QED BY <1>2, <2>1, <2>2, RendezvousAtBarrier, NoBarrierStep
<1>3. ASSUME NEW t \in Threads, Finish(t) PROVE BarrierLockstep'
  <2>1. status[t] = "Runnable"
        BY <1>3, RunningAlone, FinishStatus DEF InKernel
  <2>2. status' = [status EXCEPT ![t] = "Finished"] /\ UNCHANGED <<barriersCalled, barrier_gen>>
        BY <1>3, FinishStatus DEF kernelVars
  <2>3. \A u \in Threads : status[u] = "AtBarrier" <=> status'[u] = "AtBarrier"
        BY <1>0, <2>1, <2>2
  <2>4. QED BY <2>2, <2>3, NoBarrierStep
<1>4. ASSUME NEW t \in Threads, Step(t) PROVE BarrierLockstep'
  <2>1. CASE Resume(t)
        BY <1>1, <2>1 DEF Resume, waitVars, kernelVars
  <2>2. CASE YieldNow(t)
        BY <1>1, <2>2 DEF YieldNow, waitVars
  <2>3. ASSUME NEW kind, Abort(t, kind) PROVE BarrierLockstep'
        BY <1>1, <2>3 DEF Abort, waitVars, kernelVars
  <2>4. ASSUME NEW loc, Barrier(t, loc) PROVE BarrierLockstep'
        BY <2>4, BarrierCounts
  <2>5. ASSUME NEW op, NEW mask, NEW at, Collective(t, op, mask, at) PROVE BarrierLockstep'
        BY <1>1, <2>5 DEF Collective, waitVars
  <2>6. CASE BadMask(t) \/ CombinePanics(t)
        BY <1>1, <2>6 DEF BadMask, CombinePanics, waitVars, kernelVars
  <2>7. CASE Arrive(t)
        BY <1>2, <2>7 DEF Arrive
  <2>8. CASE Depart(t)
        BY <1>2, <2>8 DEF Depart
  <2>9. QED BY <1>3, <1>4, <2>1, <2>2, <2>3, <2>4, <2>5, <2>6, <2>7, <2>8 DEF Step
<1>5. ASSUME NEW t \in Threads, SpuriousWakeup(t) PROVE BarrierLockstep'
      BY <1>1, <1>5 DEF SpuriousWakeup, waitVars, kernelVars
<1>6. CASE UNCHANGED vars
      BY <1>1, <1>6 DEF vars, waitVars, kernelVars
<1>7. QED BY <1>4, <1>5, <1>6 DEF Next, Joined


(***************************************************************************)
(* Full-warp collectives.                                                  *)
(***************************************************************************)
\* A step that changes no wait at a collective keeps the count.
LEMMA NoWarpStep ==
    ASSUME WarpLockstep, UNCHANGED <<warp_wait, warp_gen, departsCalled>>,
           \A u \in Threads : status[u] = "AtWarp" <=> status'[u] = "AtWarp"
    PROVE  WarpLockstep'
BY DEF WarpLockstep, AtFullDepart

\* A full mask names every lane of the warp.
LEMMA FullMembers ==
    ASSUME NEW t \in Threads, NEW u \in Threads, WarpOf(u) = WarpOf(t)
    PROVE  u \in Members(t, ValidMask(WarpOf(t)))
BY DEF Members, ValidMask, WarpThreads

\* warp_rendezvous keeps the count when the second half of a full-warp
\* collective, and nothing else, is counted.
LEMMA RendezvousCounts ==
    ASSUME TypeOK, WarpLockstep, NEW t \in Threads, NEW phase,
           WarpRendezvous(t, phase), status[t] = "Runnable",
           departsCalled' = IF phase = "depart" /\ call[t].mask = ValidMask(WarpOf(t))
                            THEN [departsCalled EXCEPT ![t] = @ + 1] ELSE departsCalled
    PROVE  WarpLockstep'
<1> DEFINE w == WarpOf(t)
           full == phase = "depart" /\ call[t].mask = ValidMask(w)
           wait == [phase |-> phase, op |-> call[t].op, mask |-> call[t].mask, at |-> call[t].at]
           st == [status EXCEPT ![t] = "AtWarp"]
           ww == [warp_wait EXCEPT ![t] = wait]
           members == Members(t, call[t].mask)
<1>1. /\ status \in [Threads -> Statuses] /\ warp_wait \in [Threads -> WaitRecords]
      /\ warp_gen \in [Warps -> Nat] /\ departsCalled \in [Threads -> Nat]
      /\ w \in Warps /\ \A u \in Threads : WarpOf(u) \in Warps
      BY TypeSplit, ThreadLocated DEF SchedOK
<1>2. \/ status' = st /\ warp_wait' = ww /\ warp_gen' = warp_gen
      \/ /\ \A u \in members : st[u] = "AtWarp" /\ ww[u] = wait
         /\ status' = [i \in Threads |-> IF i \in members THEN "Runnable" ELSE st[i]]
         /\ warp_wait' = [i \in Threads |-> IF i \in members THEN NoWait ELSE ww[i]]
         /\ warp_gen' = IF full THEN [warp_gen EXCEPT ![w] = @ + 1] ELSE warp_gen
      BY Zenon DEF WarpRendezvous
<1>3. SUFFICES ASSUME NEW u \in Threads
               PROVE  departsCalled'[u] = warp_gen'[WarpOf(u)]
                                          + (IF AtFullDepart(u)' THEN 1 ELSE 0)
      BY DEF WarpLockstep
<1>4. departsCalled[u] = warp_gen[WarpOf(u)] + (IF AtFullDepart(u) THEN 1 ELSE 0)
      BY DEF WarpLockstep
<1>5. departsCalled'[u] = departsCalled[u] + (IF u = t /\ full THEN 1 ELSE 0)
      BY <1>1
<1>6. u = t => ~AtFullDepart(u)
      BY DEF AtFullDepart
<1>7. CASE status' = st /\ warp_wait' = ww /\ warp_gen' = warp_gen
  <2>1. CASE u = t
    <3>1. AtFullDepart(u)' <=> full
          BY <1>1, <1>7, <2>1 DEF AtFullDepart
    <3>2. QED BY <1>1, <1>4, <1>5, <1>6, <1>7, <2>1, <3>1
  <2>2. CASE u # t
    <3>1. AtFullDepart(u)' <=> AtFullDepart(u)
          BY <1>1, <1>7, <2>2 DEF AtFullDepart
    <3>2. QED BY <1>1, <1>4, <1>5, <1>7, <2>2, <3>1
  <2>3. QED BY <2>1, <2>2
<1>8. CASE /\ \A v \in members : st[v] = "AtWarp" /\ ww[v] = wait
           /\ status' = [i \in Threads |-> IF i \in members THEN "Runnable" ELSE st[i]]
           /\ warp_wait' = [i \in Threads |-> IF i \in members THEN NoWait ELSE ww[i]]
           /\ warp_gen' = IF full THEN [warp_gen EXCEPT ![w] = @ + 1] ELSE warp_gen
  <2>1. CASE u \in members
    <3>1. WarpOf(u) = w
          BY <2>1 DEF Members, WarpThreads
    <3>2. ~AtFullDepart(u)'
          BY <1>1, <1>8, <2>1 DEF AtFullDepart
    <3>3. u # t => (AtFullDepart(u) <=> full)
          BY <1>1, <1>8, <2>1, <3>1 DEF AtFullDepart
    <3>4. QED BY <1>1, <1>4, <1>5, <1>6, <1>8, <3>1, <3>2, <3>3
  <2>2. CASE u \notin members
    <3>1. full => WarpOf(u) # w
          BY <2>2, FullMembers
    <3>2. warp_gen'[WarpOf(u)] = warp_gen[WarpOf(u)]
          BY <1>1, <1>8, <3>1
    <3>3. u # t => (AtFullDepart(u)' <=> AtFullDepart(u))
          BY <1>1, <1>8, <2>2 DEF AtFullDepart
    <3>4. u = t => ~full /\ ~AtFullDepart(u)'
          BY <1>1, <1>8, <2>2, <3>1 DEF AtFullDepart
    <3>5. QED BY <1>1, <1>4, <1>5, <1>6, <3>2, <3>3, <3>4
  <2>3. QED BY <2>1, <2>2
<1>9. QED BY <1>2, <1>7, <1>8

\* barrier moves nobody into or out of a collective.
LEMMA BarrierAtWarp ==
    ASSUME TypeOK, NEW t \in Threads, NEW loc, Barrier(t, loc),
           status[t] = "Runnable", NEW u \in Threads
    PROVE  status[u] = "AtWarp" <=> status'[u] = "AtWarp"
<1> DEFINE st == [status EXCEPT ![t] = "AtBarrier"]
           block == BlockThreads(BlockOf(t))
<1>1. status \in [Threads -> Statuses]
      BY TypeSplit DEF SchedOK
<1>2. \/ status' = st
      \/ /\ \A v \in block : st[v] = "AtBarrier"
         /\ status' = [i \in Threads |-> IF i \in block THEN "Runnable" ELSE st[i]]
      BY Zenon DEF Barrier
<1> HIDE DEF block
<1>3. QED BY <1>1, <1>2

\* Every step keeps the count of full-warp collectives.
LEMMA WarpLockstepStep ==
    TypeOK /\ TurnInv /\ WarpLockstep /\ [Next]_vars => WarpLockstep'
<1> SUFFICES ASSUME TypeOK, TurnInv, WarpLockstep, [Next]_vars PROVE WarpLockstep'
    OBVIOUS
<1>0. status \in [Threads -> Statuses]
      BY TypeSplit DEF SchedOK
<1>1. ASSUME UNCHANGED <<status, warp_wait, warp_gen, departsCalled>> PROVE WarpLockstep'
      BY <1>1, NoWarpStep
<1>2. ASSUME NEW t \in Threads, Finish(t) PROVE WarpLockstep'
  <2>1. status[t] = "Runnable"
        BY <1>2, RunningAlone, FinishStatus DEF InKernel
  <2>2. /\ status' = [status EXCEPT ![t] = "Finished"]
        /\ UNCHANGED <<warp_wait, warp_gen, departsCalled>>
        BY <1>2, FinishStatus DEF kernelVars
  <2>3. \A u \in Threads : status[u] = "AtWarp" <=> status'[u] = "AtWarp"
        BY <1>0, <2>1, <2>2
  <2>4. QED BY <2>2, <2>3, NoWarpStep
<1>3. ASSUME NEW t \in Threads, NEW loc, Barrier(t, loc) PROVE WarpLockstep'
  <2>1. status[t] = "Runnable"
        BY <1>3, RunningAlone DEF Barrier, InKernel
  <2>2. UNCHANGED <<warp_wait, warp_gen, departsCalled>>
        BY <1>3 DEF Barrier
  <2>3. QED BY <1>3, <2>1, <2>2, BarrierAtWarp, NoWarpStep
<1>4. ASSUME NEW t \in Threads, Arrive(t) PROVE WarpLockstep'
  <2>1. status[t] = "Runnable" /\ WarpRendezvous(t, "arrive") /\ UNCHANGED departsCalled
        BY <1>4, RunningAlone DEF Arrive
  <2>2. QED BY <2>1, RendezvousCounts
<1>5. ASSUME NEW t \in Threads, Depart(t) PROVE WarpLockstep'
  <2>1. /\ status[t] = "Runnable" /\ WarpRendezvous(t, "depart")
        /\ departsCalled' = IF call[t].mask = ValidMask(WarpOf(t))
                            THEN [departsCalled EXCEPT ![t] = @ + 1] ELSE departsCalled
        BY <1>5, RunningAlone DEF Depart
  <2>2. QED BY <2>1, RendezvousCounts
<1>6. ASSUME NEW t \in Threads, Step(t) PROVE WarpLockstep'
  <2>1. CASE Resume(t)
        BY <1>1, <2>1 DEF Resume, waitVars, kernelVars
  <2>2. CASE YieldNow(t)
        BY <1>1, <2>2 DEF YieldNow, waitVars
  <2>3. ASSUME NEW kind, Abort(t, kind) PROVE WarpLockstep'
        BY <1>1, <2>3 DEF Abort, waitVars, kernelVars
  <2>4. ASSUME NEW op, NEW mask, NEW at, Collective(t, op, mask, at) PROVE WarpLockstep'
        BY <1>1, <2>4 DEF Collective, waitVars
  <2>5. CASE BadMask(t) \/ CombinePanics(t)
        BY <1>1, <2>5 DEF BadMask, CombinePanics, waitVars, kernelVars
  <2>6. QED BY <1>2, <1>3, <1>4, <1>5, <1>6, <2>1, <2>2, <2>3, <2>4, <2>5 DEF Step
<1>7. ASSUME NEW t \in Threads, SpuriousWakeup(t) PROVE WarpLockstep'
      BY <1>1, <1>7 DEF SpuriousWakeup, waitVars, kernelVars
<1>8. CASE UNCHANGED vars
      BY <1>1, <1>8 DEF vars, waitVars, kernelVars
<1>9. QED BY <1>6, <1>7, <1>8 DEF Next, Joined

(***************************************************************************)
(* Theorems.                                                               *)
(***************************************************************************)
\* Nobody has called anything when a launch starts.
LEMMA LockstepInit == Init => BarrierLockstep /\ WarpLockstep
<1> SUFFICES ASSUME Init PROVE BarrierLockstep /\ WarpLockstep
    OBVIOUS
<1>1. \A t \in Threads : BlockOf(t) \in Blocks /\ WarpOf(t) \in Warps
      BY ThreadLocated
<1>2. BarrierLockstep
      BY <1>1 DEF Init, BarrierLockstep
<1>3. WarpLockstep
      BY <1>1 DEF Init, WarpLockstep, AtFullDepart
<1>4. QED BY <1>2, <1>3

\* The epochs that accesses are stamped with count the barriers and the
\* full-warp collectives each thread has itself passed, in every launch.
THEOREM EpochsCount == Spec => [](BarrierLockstep /\ WarpLockstep)
<1>1. TypeInv => TypeOK
      BY DEF TypeInv
<1>2. QED BY <1>1, TypeInit, TypeStep, TurnInit, TurnStep, LockstepInit,
             BarrierLockstepStep, WarpLockstepStep, PTL DEF Spec

\* The warp epochs of accesses count full-warp collectives in every launch,
\* also where the last warp of a block is short.
THEOREM WarpEpochsCount == Spec => []WarpLockstep
BY EpochsCount, PTL

(***************************************************************************)
(* The scheduler implements Turns, for every launch.  Each action of       *)
(* Scheduler is shown to be a step of Turns, or to change nothing that     *)
(* Turns speaks of.                                                        *)
(***************************************************************************)
Inside == {t \in Threads : os[t] = "running"}
Done == {t \in Threads : status[t] = "Finished"}

\* The geometry of Turns is that of the launch.
LEMMA SameGeometry ==
    /\ Promise!Threads = Threads
    /\ \A t : Promise!BlockThreads(Promise!BlockOf(t)) = BlockThreads(BlockOf(t))
BY DEF Promise!Threads, Threads, Promise!BlockThreads, BlockThreads, Promise!BlockOf, BlockOf

\* The variables of Turns under the mapping.
AbstractStep ==
    \/ \E t \in Threads :
         \/ /\ Inside = {} /\ t \notin Done /\ ~aborted
            /\ \A u \in BlockThreads(BlockOf(t)) : barriersCalled[u] >= barriersCalled[t]
            /\ Inside' = {t}
            /\ UNCHANGED <<barriersCalled, Done, aborted>>
         \/ /\ Inside = {t} /\ Inside' = {}
            /\ aborted' \in {FALSE, TRUE}
            /\ UNCHANGED <<barriersCalled, Done>>
         \/ /\ Inside = {t}
            /\ barriersCalled' = [barriersCalled EXCEPT ![t] = @ + 1]
            /\ \/ Inside' = {} /\ aborted' \in {FALSE, TRUE}
               \/ /\ \A u \in BlockThreads(BlockOf(t)) : barriersCalled'[u] >= barriersCalled'[t]
                  /\ UNCHANGED <<Inside, aborted>>
            /\ UNCHANGED Done
         \/ /\ Inside = {t} /\ Inside' = {}
            /\ Done' = Done \cup {t}
            /\ aborted' \in {FALSE, TRUE}
            /\ UNCHANGED barriersCalled
    \/ UNCHANGED <<Inside, barriersCalled, Done, aborted>>

\* It is the next-state relation of Turns.
LEMMA AbstractStepIsNext == AbstractStep => [Promise!Next]_(Promise!vars)
<1> SUFFICES ASSUME AbstractStep PROVE [Promise!Next]_(Promise!vars)
    OBVIOUS
<1>1. CASE UNCHANGED <<Inside, barriersCalled, Done, aborted>>
      BY <1>1 DEF Promise!vars, Inside, Done
<1>2. ASSUME NEW t \in Threads,
             /\ Inside = {} /\ t \notin Done /\ ~aborted
             /\ \A u \in BlockThreads(BlockOf(t)) : barriersCalled[u] >= barriersCalled[t]
             /\ Inside' = {t}
             /\ UNCHANGED <<barriersCalled, Done, aborted>>
      PROVE  Promise!Enter(t)
      BY <1>2, SameGeometry, Zenon DEF Promise!Enter, Promise!MayPass, Inside, Done
<1>3. ASSUME NEW t \in Threads,
             /\ Inside = {t} /\ Inside' = {}
             /\ aborted' \in {FALSE, TRUE}
             /\ UNCHANGED <<barriersCalled, Done>>
      PROVE  Promise!Leave(t)
      BY <1>3, Zenon DEF Promise!Leave, Inside, Done
<1>4. ASSUME NEW t \in Threads,
             /\ Inside = {t}
             /\ barriersCalled' = [barriersCalled EXCEPT ![t] = @ + 1]
             /\ \/ Inside' = {} /\ aborted' \in {FALSE, TRUE}
                \/ /\ \A u \in BlockThreads(BlockOf(t)) : barriersCalled'[u] >= barriersCalled'[t]
                   /\ UNCHANGED <<Inside, aborted>>
             /\ UNCHANGED Done
      PROVE  Promise!Barrier(t)
      BY <1>4, SameGeometry, Zenon DEF Promise!Barrier, Promise!MayPass, Inside, Done
<1>5. ASSUME NEW t \in Threads,
             /\ Inside = {t} /\ Inside' = {}
             /\ Done' = Done \cup {t}
             /\ aborted' \in {FALSE, TRUE}
             /\ UNCHANGED barriersCalled
      PROVE  Promise!Return(t)
      BY <1>5, Zenon DEF Promise!Return, Inside, Done
<1>6. QED BY <1>1, <1>2, <1>3, <1>4, <1>5, SameGeometry, Zenon DEF AbstractStep, Promise!Next

\* hand_off_and_wait leaves its caller in kernel code, able to run, or nobody.
LEMMA HandOffInside ==
    ASSUME TypeOK, TurnInv, NEW t \in Threads, os[t] = "running", HandOffAndWait(t)
    PROVE  /\ Inside = {t}
           /\ aborted' \in {FALSE, TRUE}
           /\ \/ Inside' = {}
              \/ Inside' = {t} /\ UNCHANGED aborted /\ status'[t] = "Runnable"
<1>1. /\ os \in [Threads -> OsStates] /\ ~aborted /\ aborted \in BOOLEAN
      /\ \A u \in Threads \ {t} : os[u] # "running"
      BY RunningAlone, TypeSplit DEF SchedOK, TypeOK
<1>2. Inside = {t}
      BY <1>1 DEF Inside
<1>3. CASE \E c \in Chosen(status', choices, current) :
             /\ os' = IF c = t THEN os ELSE [NotifyOne(c) EXCEPT ![t] = "parked"]
             /\ UNCHANGED aborted
  <2>1. PICK c \in Runnable(status') :
             /\ os' = IF c = t THEN os ELSE [NotifyOne(c) EXCEPT ![t] = "parked"]
             /\ UNCHANGED aborted
        BY <1>3, ChosenCanRun
  <2>2. CASE c = t
        BY <1>1, <1>2, <2>1, <2>2 DEF Inside, Runnable
  <2>3. CASE c # t
    <3>1. \A u \in Threads : os'[u] # "running"
          BY <1>1, <2>1, <2>3 DEF NotifyOne, Runnable
    <3>2. QED BY <1>1, <1>2, <2>1, <3>1 DEF Inside
  <2>4. QED BY <2>2, <2>3
<1>4. CASE aborted' = TRUE /\ os' = NotifyAll(t)
  <2>1. \A u \in Threads : os'[u] # "running"
        BY <1>1, <1>4 DEF NotifyAll
  <2>2. QED BY <1>2, <1>4, <2>1 DEF Inside
<1>5. QED BY <1>3, <1>4, Zenon DEF HandOffAndWait

\* A thread that fails leaves nobody in kernel code.
LEMMA FailInside ==
    ASSUME TypeOK, TurnInv, NEW t \in Threads, os[t] = "running", NEW ds, Fail(t, ds)
    PROVE  Inside = {t} /\ Inside' = {} /\ aborted' \in {FALSE, TRUE}
<1>1. os \in [Threads -> OsStates] /\ \A u \in Threads \ {t} : os[u] # "running"
      BY RunningAlone, TypeSplit DEF SchedOK
<1>2. \A u \in Threads : os'[u] # "running"
      BY <1>1 DEF Fail, NotifyAll
<1>3. QED BY <1>1, <1>2 DEF Fail, Inside

\* A call that is neither a barrier nor the return.
LEMMA CallStep ==
    ASSUME TypeOK, TurnInv, NEW t \in Threads, os[t] = "running",
           HandOffAndWait(t) \/ \E ds : Fail(t, ds),
           UNCHANGED <<barriersCalled, Done>>
    PROVE  AbstractStep
BY HandOffInside, FailInside, Zenon DEF AbstractStep

\* A rendezvous finishes nobody and revives nobody.
LEMMA RendezvousDone ==
    ASSUME TypeOK, NEW t \in Threads, NEW phase, WarpRendezvous(t, phase),
           status[t] = "Runnable"
    PROVE  UNCHANGED Done
<1> DEFINE st == [status EXCEPT ![t] = "AtWarp"]
           members == Members(t, call[t].mask)
<1>1. status \in [Threads -> Statuses]
      BY TypeSplit DEF SchedOK
<1>2. \/ status' = st
      \/ /\ \A v \in members : st[v] = "AtWarp"
         /\ status' = [i \in Threads |-> IF i \in members THEN "Runnable" ELSE st[i]]
      BY Zenon DEF WarpRendezvous
<1> HIDE DEF members
<1>3. QED BY <1>1, <1>2 DEF Done

\* A barrier lets its caller go on only when the whole block has called it.
LEMMA BarrierStep ==
    ASSUME TypeOK, TypeOK', TurnInv, BarrierLockstep', NEW t \in Threads, NEW loc, Barrier(t, loc)
    PROVE  AbstractStep
<1> DEFINE st == [status EXCEPT ![t] = "AtBarrier"]
           b == BlockOf(t)
<1>1. os[t] = "running" /\ status[t] = "Runnable" /\ status \in [Threads -> Statuses]
      BY RunningAlone, TypeSplit DEF Barrier, InKernel, SchedOK
<1>2. \/ status' = st
      \/ /\ \A i \in BlockThreads(b) : st[i] = "AtBarrier"
         /\ status' = [i \in Threads |-> IF i \in BlockThreads(b) THEN "Runnable" ELSE st[i]]
      BY Zenon DEF Barrier
<1>3. UNCHANGED Done
      BY <1>1, <1>2 DEF Done
<1>4. barriersCalled' = [barriersCalled EXCEPT ![t] = @ + 1]
      BY DEF Barrier
<1>5. HandOffAndWait(t) \/ \E ds : Fail(t, ds)
      BY Zenon DEF Barrier
<1>6. ASSUME status'[t] = "Runnable"
      PROVE  \A u \in BlockThreads(BlockOf(t)) : barriersCalled'[u] >= barriersCalled'[t]
  <2>1. barrier_gen' \in [Blocks -> Nat]
        BY DEF TypeOK
  <2>2. SUFFICES ASSUME NEW u \in Threads, BlockOf(u) = BlockOf(t)
                 PROVE  barriersCalled'[u] >= barriersCalled'[t]
        BY DEF BlockThreads
  <2>3. QED BY <1>6, <2>1, <2>2, ThreadLocated DEF BarrierLockstep
<1>7. QED BY <1>1, <1>3, <1>4, <1>5, <1>6, HandOffInside, FailInside, Zenon DEF AbstractStep

\* finish is the return of the abstract thread.
LEMMA FinishStep ==
    ASSUME TypeOK, TypeOK', TurnInv, NEW t \in Threads, Finish(t)
    PROVE  AbstractStep
<1>1. /\ os[t] = "running" /\ os \in [Threads -> OsStates]
      /\ status \in [Threads -> Statuses] /\ aborted' \in BOOLEAN
      /\ \A u \in Threads \ {t} : os[u] # "running"
      BY RunningAlone, TypeSplit DEF Finish, InKernel, SchedOK, TypeOK
<1>2. /\ status' = [status EXCEPT ![t] = "Finished"]
      /\ UNCHANGED barriersCalled
      BY FinishStatus DEF kernelVars
<1>3. Inside = {t} /\ Done' = Done \cup {t}
      BY <1>1, <1>2 DEF Inside, Done
<1>4. \/ \E c : os' = [NotifyOne(c) EXCEPT ![t] = "gone"]
      \/ os' = NotifyAll(t)
      \/ os' = [os EXCEPT ![t] = "gone"]
      BY Zenon DEF Finish, Fail
<1>5. \A u \in Threads : os'[u] # "running"
  <2>1. ASSUME NEW c, os' = [NotifyOne(c) EXCEPT ![t] = "gone"], NEW u \in Threads
        PROVE  os'[u] # "running"
        BY <1>1, <2>1 DEF NotifyOne
  <2>2. QED BY <1>1, <1>4, <2>1 DEF NotifyAll
<1>6. Inside' = {}
      BY <1>5 DEF Inside
<1>7. QED BY <1>1, <1>2, <1>3, <1>6 DEF AbstractStep

\* A parked or starting thread that finds itself with the turn enters.
LEMMA ResumeStep ==
    ASSUME TypeOK, TurnInv, BarrierLockstep, NEW t \in Threads, Resume(t)
    PROVE  AbstractStep
<1>1. /\ os \in [Threads -> OsStates] /\ os[t] # "running"
      /\ os' = [os EXCEPT ![t] = IF aborted THEN "gone"
                                 ELSE IF current = t THEN "running" ELSE "parked"]
      /\ UNCHANGED <<barriersCalled, status, aborted>>
      BY TypeSplit DEF SchedOK, Resume, waitVars, kernelVars
<1>2. UNCHANGED Done
      BY <1>1 DEF Done
<1>3. CASE ~aborted /\ current = t
  <2>1. Inside = {}
        BY <1>1, <1>3 DEF Inside, TurnInv, TurnExclusive
  <2>2. Inside' = {t}
    <3>1. \A u \in Threads : os'[u] = "running" <=> u = t
          BY <1>1, <1>3, <2>1 DEF Inside
    <3>2. QED BY <3>1 DEF Inside
  <2>3. status[t] = "Runnable"
        BY <1>3, NoThreadIsNone DEF TurnInv, TurnRunnable
  <2>4. ASSUME NEW u \in BlockThreads(BlockOf(t)) PROVE barriersCalled[u] >= barriersCalled[t]
    <3>1. u \in Threads /\ BlockOf(u) = BlockOf(t)
          BY <2>4 DEF BlockThreads
    <3>2. barrier_gen[BlockOf(t)] \in Nat
          BY ThreadLocated DEF TypeOK
    <3>3. QED BY <2>3, <3>1, <3>2 DEF BarrierLockstep
  <2>5. t \notin Done
        BY <2>3 DEF Done
  <2>6. QED BY <1>1, <1>2, <1>3, <2>1, <2>2, <2>4, <2>5 DEF AbstractStep
<1>4. CASE aborted \/ current # t
  <2>1. UNCHANGED Inside
        BY <1>1, <1>4 DEF Inside
  <2>2. QED BY <1>1, <1>2, <2>1 DEF AbstractStep
<1>5. QED BY <1>3, <1>4

\* Every step of the scheduler is a step of Turns or a stutter.
LEMMA StepRefines ==
    TypeOK /\ TypeOK' /\ TurnInv /\ BarrierLockstep /\ BarrierLockstep' /\ [Next]_vars
        => [Promise!Next]_(Promise!vars)
<1> SUFFICES ASSUME TypeOK, TypeOK', TurnInv, BarrierLockstep, BarrierLockstep', [Next]_vars
             PROVE  AbstractStep
    BY AbstractStepIsNext
<1>1. ASSUME NEW t \in Threads, os[t] = "running", UNCHANGED <<status, barriersCalled>>,
             HandOffAndWait(t) \/ \E ds : Fail(t, ds)
      PROVE  AbstractStep
  <2>1. UNCHANGED Done
        BY <1>1 DEF Done
  <2>2. QED BY <1>1, <2>1, CallStep
<1>2. ASSUME NEW t \in Threads, NEW phase, os[t] = "running", WarpRendezvous(t, phase),
             UNCHANGED barriersCalled
      PROVE  AbstractStep
  <2>1. status[t] = "Runnable"
        BY <1>2, RunningAlone
  <2>2. UNCHANGED Done
        BY <1>2, <2>1, RendezvousDone
  <2>3. HandOffAndWait(t) \/ \E ds : Fail(t, ds)
        BY <1>2, RendezvousEffect
  <2>4. QED BY <1>2, <2>2, <2>3, CallStep
<1>3. ASSUME NEW t \in Threads, Step(t) PROVE AbstractStep
  <2>1. CASE Resume(t)
        BY <2>1, ResumeStep
  <2>2. CASE YieldNow(t)
        BY <1>1, <2>2 DEF YieldNow, InKernel, waitVars
  <2>3. ASSUME NEW kind, Abort(t, kind) PROVE AbstractStep
        BY <1>1, <2>3 DEF Abort, InKernel, waitVars, kernelVars
  <2>4. ASSUME NEW loc, Barrier(t, loc) PROVE AbstractStep
        BY <2>4, BarrierStep
  <2>5. ASSUME NEW op, NEW mask, NEW at, Collective(t, op, mask, at) PROVE AbstractStep
        BY <1>1, <2>5 DEF Collective, InKernel, waitVars
  <2>6. CASE BadMask(t) \/ CombinePanics(t)
        BY <1>1, <2>6 DEF BadMask, CombinePanics, waitVars, kernelVars
  <2>7. CASE Arrive(t)
        BY <1>2, <2>7 DEF Arrive
  <2>8. CASE Depart(t)
        BY <1>2, <2>8 DEF Depart
  <2>9. CASE Finish(t)
        BY <2>9, FinishStep
  <2>10. QED BY <1>3, <2>1, <2>2, <2>3, <2>4, <2>5, <2>6, <2>7, <2>8, <2>9 DEF Step
<1>4. ASSUME NEW t \in Threads, SpuriousWakeup(t) PROVE AbstractStep
  <2>1. /\ os \in [Threads -> OsStates] /\ os[t] = "parked"
        /\ os' = [os EXCEPT ![t] = "woken"]
        /\ UNCHANGED <<barriersCalled, status, aborted>>
        BY <1>4, TypeSplit DEF SchedOK, SpuriousWakeup, waitVars, kernelVars
  <2>2. UNCHANGED <<Inside, Done>>
        BY <2>1 DEF Inside, Done
  <2>3. QED BY <2>1, <2>2 DEF AbstractStep
<1>5. CASE UNCHANGED vars
      BY <1>5 DEF vars, schedVars, waitVars, kernelVars, AbstractStep, Inside, Done
<1>6. QED BY <1>3, <1>4, <1>5 DEF Next, Joined

\* A launch starts as Turns does: nobody inside, no barrier called.
LEMMA InitRefines == Init => Promise!Init
BY SameGeometry DEF Init, Promise!Init

\* The scheduler implements Turns: whatever the grid, the kernel and the
\* schedule, threads are in kernel code one at a time, come back from a barrier
\* only when their block has called it, and never after returning or an abort.
THEOREM SchedulerImplementsTurns == Spec => ImplementsTurns
<1>1. TypeInv => TypeOK
      BY DEF TypeInv
<1>2. QED BY <1>1, TypeInit, TypeStep, TurnInit, TurnStep, LockstepInit, BarrierLockstepStep,
             InitRefines, StepRefines, PTL DEF Spec, ImplementsTurns, Promise!Spec
=============================================================================
