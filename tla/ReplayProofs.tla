---------------------------- MODULE ReplayProofs ----------------------------
(***************************************************************************)
(* A replay reproduces the launch it replays, for every launch geometry,   *)
(* kernel and schedule.                                                    *)
(*                                                                         *)
(* Between two decisions only the holder of the turn runs, so that what a  *)
(* launch does next is a function of its state and of the calls of the     *)
(* holder's kernel; the decision alone is free.  `Advance` is that         *)
(* function.  A launch is then a row of states, each the Advance of the    *)
(* one before (`History`), and the second launch walks along the row of    *)
(* the first: a scheduler that follows a plan has no choice, and the trace *)
(* of a launch is a plan that leads to the decisions it made.              *)
(***************************************************************************)
EXTENDS Replay, SchedulerProofs

(***************************************************************************)
(* The state a launch goes on from: everything but the OS threads, who may *)
(* reach the mutex in any order, and what is only counted.                 *)
(***************************************************************************)
\* What the rest of a launch depends on, as the scheduler keeps it ...
Shared == [status |-> status, barrier_loc |-> barrier_loc, warp_wait |-> warp_wait,
           current |-> current, aborted |-> aborted, diags |-> diags]

\* ... and as the kernel does.
Private == [pc |-> pc, call |-> call, ops |-> ops, made |-> made]

\* Both together.
Here == [s |-> Shared, k |-> Private]

\* hand_off_and_wait once statuses, places and waits are set: the turn goes to
\* `next`, or the launch is wedged.
HandedOff(s, st, locs, ww, next) ==
    [status |-> st, barrier_loc |-> locs, warp_wait |-> ww,
     current |-> IF Runnable(st) = {} THEN NoThread ELSE next,
     aborted |-> Runnable(st) = {},
     diags |-> IF Runnable(st) = {} THEN s.diags \cup StuckReport(st, ww, locs) ELSE s.diags]

\* abort_in: the report is filed and the turn stays where it is.
Failed(s, st, locs, ww, ds) ==
    [status |-> st, barrier_loc |-> locs, warp_wait |-> ww,
     current |-> s.current, aborted |-> TRUE, diags |-> s.diags \cup ds]

\* barrier, once its statuses are set: diverged, the last arrival, or waiting.
AfterBarrier(s, t, loc, next) ==
    LET b == BlockOf(t)
        st == [s.status EXCEPT ![t] = "AtBarrier"]
        locs == [s.barrier_loc EXCEPT ![b] = IF @ = NoLoc THEN loc ELSE @]
        freed == [i \in Threads |-> IF i \in BlockThreads(b) THEN "Runnable" ELSE st[i]]
    IN  IF \E i \in BlockThreads(b) : st[i] = "Finished"
        THEN Failed(s, st, locs, s.warp_wait, {BarrierDivergence(st, b, locs[b])})
        ELSE IF \A i \in BlockThreads(b) : st[i] = "AtBarrier"
        THEN HandedOff(s, freed, [s.barrier_loc EXCEPT ![b] = NoLoc], s.warp_wait, next)
        ELSE HandedOff(s, st, locs, s.warp_wait, next)

\* warp_rendezvous, likewise.
AfterRendezvous(s, arg, t, phase, next) ==
    LET wait == [phase |-> phase, op |-> arg.op, mask |-> arg.mask, at |-> arg.at]
        st == [s.status EXCEPT ![t] = "AtWarp"]
        ww == [s.warp_wait EXCEPT ![t] = wait]
        members == Members(t, wait.mask)
    IN  IF \E u \in members : st[u] = "Finished"
        THEN Failed(s, st, s.barrier_loc, ww,
                    {WarpDivergence(WarpOf(t), wait, ArrivedMask(st, ww, WarpOf(t), wait))})
        ELSE IF Mismatched(t, st, ww) # {}
        THEN Failed(s, st, s.barrier_loc, ww,
                    {WarpMaskMismatch(t, u, wait.at) : u \in Lowest(Mismatched(t, st, ww))})
        ELSE IF \A u \in members : st[u] = "AtWarp" /\ ww[u] = wait
        THEN HandedOff(s, [i \in Threads |-> IF i \in members THEN "Runnable" ELSE st[i]],
                       s.barrier_loc,
                       [i \in Threads |-> IF i \in members THEN NoWait ELSE ww[i]], next)
        ELSE HandedOff(s, st, s.barrier_loc, ww, next)

\* finish: waiting mates, a waiting block, the end of the launch, or the next.
AfterFinish(s, t, next) ==
    LET b == BlockOf(t)
        w == WarpOf(t)
        st == [s.status EXCEPT ![t] = "Finished"]
        waitingForMe == {u \in WarpThreads(w) :
                            st[u] = "AtWarp" /\ LaneOf(t) \in s.warp_wait[u].mask}
    IN  IF waitingForMe # {}
        THEN Failed(s, st, s.barrier_loc, s.warp_wait,
                    {WarpDivergence(w, s.warp_wait[u],
                         ArrivedMask(st, s.warp_wait, w, s.warp_wait[u])) :
                     u \in Lowest(waitingForMe)})
        ELSE IF \E i \in BlockThreads(b) : st[i] = "AtBarrier"
        THEN Failed(s, st, s.barrier_loc, s.warp_wait,
                    {BarrierDivergence(st, b, s.barrier_loc[b])})
        ELSE IF \A i \in Threads : st[i] = "Finished"
        THEN [status |-> st, barrier_loc |-> s.barrier_loc, warp_wait |-> s.warp_wait,
              current |-> NoThread, aborted |-> FALSE, diags |-> s.diags]
        ELSE HandedOff(s, st, s.barrier_loc, s.warp_wait, next)

\* A call of thread t's kernel, as the scheduler sees it ...
AfterCall(s, t, c, next) ==
    IF c.do = "panic"
    THEN Failed(s, s.status, s.barrier_loc, s.warp_wait, {ThreadDiagnostic("KernelPanic", t)})
    ELSE IF c.do = "trap"
    THEN Failed(s, s.status, s.barrier_loc, s.warp_wait, {ThreadDiagnostic("Trap", t)})
    ELSE IF c.do = "finish" THEN AfterFinish(s, t, next)
    ELSE IF c.do = "barrier" THEN AfterBarrier(s, t, c.at, next)
    ELSE HandedOff(s, s.status, s.barrier_loc, s.warp_wait, next)

\* ... and as the thread does.
PrivateAfterCall(k, t, c) ==
    [pc |-> IF c.do = "collective" THEN [k.pc EXCEPT ![t] = "arrive"] ELSE k.pc,
     call |-> IF c.do = "collective"
              THEN [k.call EXCEPT ![t] = [op |-> c.op, mask |-> c.mask, at |-> c.at,
                                          value |-> k.ops[t] + 1]]
              ELSE k.call,
     ops |-> IF c.do \in {"yield", "barrier", "collective"}
             THEN [k.ops EXCEPT ![t] = @ + 1] ELSE k.ops,
     made |-> [k.made EXCEPT ![t] = @ + 1]]

\* The check of the mask that a collective starts with.
MaskFits(t, mask) == mask \subseteq ValidMask(WarpOf(t)) /\ LaneOf(t) \in mask

\* The steps inside a collective: its check, its first meeting, its second.
AfterInside(s, k, t, next) ==
    IF k.pc[t] = "combine" THEN AfterRendezvous(s, k.call[t], t, "depart", next)
    ELSE IF MaskFits(t, k.call[t].mask)
    THEN AfterRendezvous(s, k.call[t], t, "arrive", next)
    ELSE Failed(s, s.status, s.barrier_loc, s.warp_wait, {ThreadDiagnostic("WarpLaneError", t)})

\* What they do to the thread.
PrivateAfterInside(k, t) ==
    [pc |-> IF k.pc[t] = "combine" THEN [k.pc EXCEPT ![t] = "kernel"]
            ELSE IF MaskFits(t, k.call[t].mask) THEN [k.pc EXCEPT ![t] = "combine"] ELSE k.pc,
     call |-> k.call, ops |-> k.ops, made |-> k.made]

\* The step of the thread whose turn it is in state x, with kernel calls p, when
\* the turn goes to `next`.
Advance(x, p, next) ==
    LET t == x.s.current
        c == p[t][x.k.made[t] + 1]
    IN  IF x.k.pc[t] = "kernel"
        THEN [s |-> AfterCall(x.s, t, c, next), k |-> PrivateAfterCall(x.k, t, c)]
        ELSE [s |-> AfterInside(x.s, x.k, t, next), k |-> PrivateAfterInside(x.k, t)]

\* Nobody's turn is left.
Over(x) == x.s.aborted \/ x.s.current = NoThread

\* A launch whose first turn is c's.
Start(c) ==
    [s |-> [status |-> [t \in Threads |-> "Runnable"], barrier_loc |-> [b \in Blocks |-> NoLoc],
            warp_wait |-> [t \in Threads |-> NoWait], current |-> c, aborted |-> FALSE,
            diags |-> {}],
     k |-> [pc |-> [t \in Threads |-> "kernel"], call |-> [t \in Threads |-> NoCall],
            ops |-> [t \in Threads |-> 0], made |-> [t \in Threads |-> 0]]]

(***************************************************************************)
(* Advance is what the actions do.                                         *)
(***************************************************************************)
\* hand_off_and_wait is a function of what was set before it and of who is next.
LEMMA HandOffIsFunction ==
    ASSUME NEW t \in Threads, HandOffAndWait(t), aborted = FALSE
    PROVE  Shared' = HandedOff(Shared, status', barrier_loc', warp_wait', current')
<1>1. CASE Runnable(status') # {} /\ UNCHANGED <<aborted, diags>>
      BY <1>1 DEF Shared, HandedOff
<1>2. CASE /\ Runnable(status') = {} /\ current' = NoThread /\ aborted' = TRUE
           /\ diags' = diags \cup StuckReport(status', warp_wait', barrier_loc')
      BY <1>2 DEF Shared, HandedOff
<1>3. QED BY <1>1, <1>2, Zenon DEF HandOffAndWait

\* So is a failure.
LEMMA FailIsFunction ==
    ASSUME NEW t, NEW ds, Fail(t, ds)
    PROVE  Shared' = Failed(Shared, status', barrier_loc', warp_wait', ds)
BY DEF Fail, Shared, Failed

\* barrier
LEMMA BarrierIsFunction ==
    ASSUME NEW t \in Threads, NEW loc, Barrier(t, loc), aborted = FALSE
    PROVE  Shared' = AfterBarrier(Shared, t, loc, current')
<1> DEFINE b == BlockOf(t)
           st == [status EXCEPT ![t] = "AtBarrier"]
           locs == [barrier_loc EXCEPT ![b] = IF @ = NoLoc THEN loc ELSE @]
           freed == [i \in Threads |-> IF i \in BlockThreads(b) THEN "Runnable" ELSE st[i]]
           left == \E i \in BlockThreads(b) : st[i] = "Finished"
           allHere == \A i \in BlockThreads(b) : st[i] = "AtBarrier"
<1>0. /\ Shared.status = status /\ Shared.barrier_loc = barrier_loc
      /\ Shared.warp_wait = warp_wait
      BY DEF Shared
<1>1. AfterBarrier(Shared, t, loc, current') =
        IF left THEN Failed(Shared, st, locs, warp_wait, {BarrierDivergence(st, b, locs[b])})
        ELSE IF allHere
        THEN HandedOff(Shared, freed, [barrier_loc EXCEPT ![b] = NoLoc], warp_wait, current')
        ELSE HandedOff(Shared, st, locs, warp_wait, current')
      BY <1>0 DEF AfterBarrier
<1>2. warp_wait' = warp_wait
      BY Zenon DEF Barrier
<1>3. \/ /\ left /\ status' = st /\ barrier_loc' = locs
         /\ Fail(t, {BarrierDivergence(st, b, locs[b])})
      \/ ~left /\ ~allHere /\ status' = st /\ barrier_loc' = locs /\ HandOffAndWait(t)
      \/ /\ ~left /\ allHere /\ status' = freed
         /\ barrier_loc' = [barrier_loc EXCEPT ![b] = NoLoc] /\ HandOffAndWait(t)
      BY Zenon DEF Barrier
<1> HIDE DEF st, locs, freed, left, allHere, b
<1>4. ASSUME HandOffAndWait(t)
      PROVE  Shared' = HandedOff(Shared, status', barrier_loc', warp_wait, current')
      BY <1>2, <1>4, HandOffIsFunction, Zenon
<1>5. ASSUME NEW ds, Fail(t, ds)
      PROVE  Shared' = Failed(Shared, status', barrier_loc', warp_wait, ds)
      BY <1>2, <1>5, FailIsFunction, Zenon
<1>6. CASE /\ left /\ status' = st /\ barrier_loc' = locs
           /\ Fail(t, {BarrierDivergence(st, b, locs[b])})
      BY <1>1, <1>5, <1>6
<1>7. CASE ~left /\ ~allHere /\ status' = st /\ barrier_loc' = locs /\ HandOffAndWait(t)
      BY <1>1, <1>4, <1>7
<1>8. CASE /\ ~left /\ allHere /\ status' = freed
           /\ barrier_loc' = [barrier_loc EXCEPT ![b] = NoLoc] /\ HandOffAndWait(t)
      BY <1>1, <1>4, <1>8
<1>9. QED BY <1>3, <1>6, <1>7, <1>8, Zenon

\* The lowest of some threads is one thread: whose diagnostic is reported does
\* not depend on the order in which they came.
LEMMA LowestAlone ==
    ASSUME NEW S \in SUBSET Threads, NEW u \in Lowest(S)
    PROVE  Lowest(S) = {u} /\ S # {}
<1>1. u \in S /\ \A j \in S : u <= j
      BY DEF Lowest
<1>2. ASSUME NEW v \in Lowest(S) PROVE v = u
  <2>1. v \in S /\ v <= u /\ u <= v
        BY <1>1, <1>2 DEF Lowest
  <2>2. v \in Nat /\ u \in Nat
        BY <1>1, <2>1, NoThreadIsNone
  <2>3. QED BY <2>1, <2>2
<1>3. QED BY <1>1, <1>2

\* warp_rendezvous
LEMMA RendezvousIsFunction ==
    ASSUME NEW t \in Threads, NEW phase, WarpRendezvous(t, phase), aborted = FALSE
    PROVE  Shared' = AfterRendezvous(Shared, call[t], t, phase, current')
<1> DEFINE wait == [phase |-> phase, op |-> call[t].op, mask |-> call[t].mask, at |-> call[t].at]
           st == [status EXCEPT ![t] = "AtWarp"]
           ww == [warp_wait EXCEPT ![t] = wait]
           members == Members(t, wait.mask)
           left == \E u \in members : st[u] = "Finished"
           others == Mismatched(t, st, ww)
           complete == \A u \in members : st[u] = "AtWarp" /\ ww[u] = wait
           freed == [i \in Threads |-> IF i \in members THEN "Runnable" ELSE st[i]]
           cleared == [i \in Threads |-> IF i \in members THEN NoWait ELSE ww[i]]
           gap == WarpDivergence(WarpOf(t), wait, ArrivedMask(st, ww, WarpOf(t), wait))
<1>0. /\ Shared.status = status /\ Shared.barrier_loc = barrier_loc
      /\ Shared.warp_wait = warp_wait
      BY DEF Shared
<1>1. AfterRendezvous(Shared, call[t], t, phase, current') =
        IF left THEN Failed(Shared, st, barrier_loc, ww, {gap})
        ELSE IF others # {}
        THEN Failed(Shared, st, barrier_loc, ww,
                    {WarpMaskMismatch(t, u, wait.at) : u \in Lowest(others)})
        ELSE IF complete THEN HandedOff(Shared, freed, barrier_loc, cleared, current')
        ELSE HandedOff(Shared, st, barrier_loc, ww, current')
      BY <1>0 DEF AfterRendezvous
<1>2. barrier_loc' = barrier_loc
      BY Zenon DEF WarpRendezvous
<1>3. \/ left /\ status' = st /\ warp_wait' = ww /\ Fail(t, {gap})
      \/ /\ ~left /\ status' = st /\ warp_wait' = ww
         /\ \E u \in Lowest(others) : Fail(t, {WarpMaskMismatch(t, u, wait.at)})
      \/ /\ ~left /\ others = {} /\ ~complete /\ status' = st /\ warp_wait' = ww
         /\ HandOffAndWait(t)
      \/ /\ ~left /\ others = {} /\ complete /\ status' = freed /\ warp_wait' = cleared
         /\ HandOffAndWait(t)
      BY Zenon DEF WarpRendezvous
<1>4. others \subseteq Threads
      BY DEF Mismatched, WarpThreads
<1> HIDE DEF wait, st, ww, members, left, others, complete, freed, cleared, gap
<1>5. ASSUME HandOffAndWait(t)
      PROVE  Shared' = HandedOff(Shared, status', barrier_loc, warp_wait', current')
      BY <1>2, <1>5, HandOffIsFunction, Zenon
<1>6. ASSUME NEW ds, Fail(t, ds)
      PROVE  Shared' = Failed(Shared, status', barrier_loc, warp_wait', ds)
      BY <1>2, <1>6, FailIsFunction, Zenon
<1>7. CASE left /\ status' = st /\ warp_wait' = ww /\ Fail(t, {gap})
      BY <1>1, <1>6, <1>7
<1>8. CASE /\ ~left /\ status' = st /\ warp_wait' = ww
           /\ \E u \in Lowest(others) : Fail(t, {WarpMaskMismatch(t, u, wait.at)})
  <2>1. PICK u \in Lowest(others) : Fail(t, {WarpMaskMismatch(t, u, wait.at)})
        BY <1>8
  <2>2. Lowest(others) = {u} /\ others # {}
        BY <1>4, <2>1, LowestAlone
  <2>3. {WarpMaskMismatch(t, v, wait.at) : v \in Lowest(others)}
            = {WarpMaskMismatch(t, u, wait.at)}
        BY <2>2
  <2>4. QED BY <1>1, <1>6, <1>8, <2>1, <2>2, <2>3
<1>9. CASE /\ ~left /\ others = {} /\ ~complete /\ status' = st /\ warp_wait' = ww
           /\ HandOffAndWait(t)
      BY <1>1, <1>5, <1>9
<1>10. CASE /\ ~left /\ others = {} /\ complete /\ status' = freed /\ warp_wait' = cleared
            /\ HandOffAndWait(t)
      BY <1>1, <1>5, <1>10
<1>11. QED BY <1>3, <1>7, <1>8, <1>9, <1>10, Zenon

\* finish
LEMMA FinishIsFunction ==
    ASSUME NEW t \in Threads, Finish(t), aborted = FALSE
    PROVE  Shared' = AfterFinish(Shared, t, current')
<1> DEFINE b == BlockOf(t)
           w == WarpOf(t)
           st == [status EXCEPT ![t] = "Finished"]
           mates == {u \in WarpThreads(w) : st[u] = "AtWarp" /\ LaneOf(t) \in warp_wait[u].mask}
           atBarrier == \E i \in BlockThreads(b) : st[i] = "AtBarrier"
           allDone == \A i \in Threads : st[i] = "Finished"
           gap(u) == WarpDivergence(w, warp_wait[u], ArrivedMask(st, warp_wait, w, warp_wait[u]))
<1>0. /\ Shared.status = status /\ Shared.barrier_loc = barrier_loc
      /\ Shared.warp_wait = warp_wait /\ Shared.diags = diags
      BY DEF Shared
<1>1. AfterFinish(Shared, t, current') =
        IF mates # {}
        THEN Failed(Shared, st, barrier_loc, warp_wait, {gap(u) : u \in Lowest(mates)})
        ELSE IF atBarrier
        THEN Failed(Shared, st, barrier_loc, warp_wait, {BarrierDivergence(st, b, barrier_loc[b])})
        ELSE IF allDone
        THEN [status |-> st, barrier_loc |-> barrier_loc, warp_wait |-> warp_wait,
              current |-> NoThread, aborted |-> FALSE, diags |-> diags]
        ELSE HandedOff(Shared, st, barrier_loc, warp_wait, current')
      BY <1>0 DEF AfterFinish
<1>2. barrier_loc' = barrier_loc /\ warp_wait' = warp_wait /\ status' = st
      BY Zenon DEF Finish
<1>3. \/ \E u \in Lowest(mates) : Fail(t, {gap(u)})
      \/ mates = {} /\ atBarrier /\ Fail(t, {BarrierDivergence(st, b, barrier_loc[b])})
      \/ /\ mates = {} /\ ~atBarrier /\ Runnable(st) # {}
         /\ UNCHANGED <<aborted, diags>>
      \/ /\ mates = {} /\ ~atBarrier /\ Runnable(st) = {} /\ (\E i \in Threads : st[i] # "Finished")
         /\ current' = NoThread /\ aborted' = TRUE
         /\ diags' = diags \cup StuckReport(st, warp_wait, barrier_loc)
      \/ /\ mates = {} /\ ~atBarrier /\ allDone /\ current' = NoThread
         /\ UNCHANGED <<aborted, diags>>
      BY Zenon DEF Finish
<1>4. mates \subseteq Threads
      BY DEF WarpThreads
<1>5. Runnable(st) # {} => ~allDone
      BY DEF Runnable
<1> HIDE DEF b, w, st, mates, atBarrier, allDone, gap
<1>6. ASSUME NEW ds, Fail(t, ds)
      PROVE  Shared' = Failed(Shared, st, barrier_loc, warp_wait, ds)
      BY <1>2, <1>6, FailIsFunction, Zenon
<1>7. CASE \E u \in Lowest(mates) : Fail(t, {gap(u)})
  <2>1. PICK u \in Lowest(mates) : Fail(t, {gap(u)})
        BY <1>7
  <2>2. Lowest(mates) = {u} /\ mates # {}
        BY <1>4, <2>1, LowestAlone
  <2>3. {gap(v) : v \in Lowest(mates)} = {gap(u)}
        BY <2>2
  <2>4. QED BY <1>1, <1>6, <2>1, <2>2, <2>3
<1>8. CASE mates = {} /\ atBarrier /\ Fail(t, {BarrierDivergence(st, b, barrier_loc[b])})
      BY <1>1, <1>6, <1>8
<1>9. CASE mates = {} /\ ~atBarrier /\ Runnable(st) # {} /\ UNCHANGED <<aborted, diags>>
      BY <1>1, <1>2, <1>5, <1>9 DEF HandedOff, Shared
<1>10. CASE /\ mates = {} /\ ~atBarrier /\ Runnable(st) = {}
            /\ (\E i \in Threads : st[i] # "Finished")
            /\ current' = NoThread /\ aborted' = TRUE
            /\ diags' = diags \cup StuckReport(st, warp_wait, barrier_loc)
      BY <1>1, <1>2, <1>10 DEF HandedOff, Shared, allDone
<1>11. CASE /\ mates = {} /\ ~atBarrier /\ allDone /\ current' = NoThread
            /\ UNCHANGED <<aborted, diags>>
      BY <1>1, <1>2, <1>11 DEF Shared
<1>12. QED BY <1>3, <1>7, <1>8, <1>9, <1>10, <1>11, Zenon

(***************************************************************************)
(* A step of the holder either makes one decision or is the last.          *)
(***************************************************************************)
\* Over(Here).
Stopped == aborted \/ current = NoThread

\* The turn goes to somebody who was chosen, and that is recorded.
Decision ==
    /\ current' \in Chosen(status', choices, current)
    /\ Record(current')
    /\ ~Stopped'

\* The launch is over and no decision was made.
LastStep == Stopped' /\ UNCHANGED <<choices, trace, trace_complete>>

\* hand_off_and_wait decides, or finds the launch wedged.
LEMMA HandOffMoves ==
    ASSUME NEW t \in Threads, HandOffAndWait(t), aborted = FALSE
    PROVE  Decision \/ LastStep
<1>1. CASE /\ \E c \in Chosen(status', choices, current) : current' = c /\ Record(c)
           /\ UNCHANGED aborted
  <2>1. current' \in Chosen(status', choices, current) /\ Record(current')
        BY <1>1, Zenon
  <2>2. current' \in Threads
        BY <2>1, ChosenCanRun DEF Runnable
  <2>3. QED BY <1>1, <2>1, <2>2, NoThreadIsNone DEF Decision, Stopped
<1>2. CASE aborted' = TRUE /\ UNCHANGED <<choices, trace, trace_complete>>
      BY <1>2 DEF LastStep, Stopped
<1>3. QED BY <1>1, <1>2, Zenon DEF HandOffAndWait

\* A failure is the last step.
LEMMA FailMoves ==
    ASSUME NEW t, NEW ds, Fail(t, ds)
    PROVE  LastStep
BY DEF Fail, LastStep, Stopped

\* finish decides, fails, wedges the launch or ends it.
LEMMA FinishMoves ==
    ASSUME NEW t \in Threads, Finish(t), aborted = FALSE
    PROVE  Decision \/ LastStep
<1>1. CASE \E ds : Fail(t, ds)
      BY <1>1, FailMoves
<1>2. CASE /\ \E c \in Chosen(status', choices, current) : current' = c /\ Record(c)
           /\ UNCHANGED aborted
  <2>1. current' \in Chosen(status', choices, current) /\ Record(current')
        BY <1>2, Zenon
  <2>2. current' \in Threads
        BY <2>1, ChosenCanRun DEF Runnable
  <2>3. QED BY <1>2, <2>1, <2>2, NoThreadIsNone DEF Decision, Stopped
<1>3. CASE current' = NoThread /\ UNCHANGED <<choices, trace, trace_complete>>
      BY <1>3 DEF LastStep, Stopped
<1>4. QED BY <1>1, <1>2, <1>3, Zenon DEF Finish

(***************************************************************************)
(* The two kinds of step of the holder, a call of its kernel and a step    *)
(* inside a collective, are Advance.                                       *)
(***************************************************************************)
\* Whoever runs holds the turn of a launch that is not over.
LEMMA RunnerHolds ==
    ASSUME TypeInv, TurnInv, NEW t \in Threads, os[t] = "running"
    PROVE  current = t /\ aborted = FALSE /\ ~Stopped
<1>1. TypeOK /\ aborted \in BOOLEAN
      BY DEF TypeInv, TypeOK
<1>2. current = t /\ ~aborted
      BY <1>1, RunningAlone
<1>3. QED BY <1>1, <1>2, NoThreadIsNone DEF Stopped

\* A call of the kernel.
LEMMA CallIsFunction ==
    ASSUME TypeInv, TurnInv, NEW t \in Threads, NEW c \in Calls, KernelCall(t, c),
           made' = [made EXCEPT ![t] = @ + 1]
    PROVE  /\ current = t /\ ~Stopped /\ pc[t] = "kernel"
           /\ Shared' = AfterCall(Shared, t, c, current')
           /\ Private' = PrivateAfterCall(Private, t, c)
           /\ Decision \/ LastStep
<1>0. /\ Shared.status = status /\ Shared.barrier_loc = barrier_loc
      /\ Shared.warp_wait = warp_wait
      BY DEF Shared
<1>1. /\ Private.pc = pc /\ Private.call = call /\ Private.ops = ops /\ Private.made = made
      BY DEF Private
<1>2. os[t] = "running" /\ pc[t] = "kernel"
      BY Zenon DEF KernelCall, YieldNow, Abort, Finish, Barrier, Collective, InKernel
<1>3. current = t /\ aborted = FALSE /\ ~Stopped
      BY <1>2, RunnerHolds
<1>4. ops \in [Threads -> Values]
      BY DEF TypeInv, TypeOK
<1> DEFINE Goal == /\ Shared' = AfterCall(Shared, t, c, current')
                   /\ Private' = PrivateAfterCall(Private, t, c)
                   /\ Decision \/ LastStep
<1>5. ASSUME c.do = "yield", YieldNow(t) PROVE Goal
  <2>1. /\ UNCHANGED <<status, barrier_loc, warp_wait, pc, call>>
        /\ HandOffAndWait(t) /\ ops' = [ops EXCEPT ![t] = @ + 1]
        BY <1>5 DEF YieldNow, waitVars, CountOp
  <2>2. Shared' = HandedOff(Shared, status, barrier_loc, warp_wait, current')
        BY <1>3, <2>1, HandOffIsFunction, Zenon
  <2>3. Shared' = AfterCall(Shared, t, c, current')
        BY <1>0, <1>5, <2>2 DEF AfterCall
  <2>4. Private' = PrivateAfterCall(Private, t, c)
        BY <1>1, <1>5, <2>1 DEF Private, PrivateAfterCall
  <2>5. QED BY <1>3, <2>1, <2>3, <2>4, HandOffMoves
<1>6. ASSUME NEW kind, Abort(t, kind),
             (c.do = "panic" /\ kind = "KernelPanic") \/ (c.do = "trap" /\ kind = "Trap")
      PROVE  Goal
  <2>1. /\ UNCHANGED <<status, barrier_loc, warp_wait, pc, call, ops>>
        /\ Fail(t, {ThreadDiagnostic(kind, t)})
        BY <1>6 DEF Abort, waitVars, kernelVars
  <2>2. Shared' = Failed(Shared, status, barrier_loc, warp_wait, {ThreadDiagnostic(kind, t)})
        BY <2>1, FailIsFunction, Zenon
  <2>3. Shared' = AfterCall(Shared, t, c, current')
        BY <1>0, <1>6, <2>2 DEF AfterCall
  <2>4. Private' = PrivateAfterCall(Private, t, c)
        BY <1>1, <1>6, <2>1 DEF Private, PrivateAfterCall
  <2>5. QED BY <2>1, <2>3, <2>4, FailMoves
<1>7. ASSUME c.do = "finish", Finish(t) PROVE Goal
  <2>1. UNCHANGED <<pc, call, ops>>
        BY <1>7 DEF Finish, kernelVars
  <2>2. Shared' = AfterFinish(Shared, t, current')
        BY <1>3, <1>7, FinishIsFunction
  <2>3. Shared' = AfterCall(Shared, t, c, current')
        BY <1>7, <2>2 DEF AfterCall
  <2>4. Private' = PrivateAfterCall(Private, t, c)
        BY <1>1, <1>7, <2>1 DEF Private, PrivateAfterCall
  <2>5. QED BY <1>3, <1>7, <2>3, <2>4, FinishMoves
<1>8. ASSUME c.do = "barrier", Barrier(t, c.at) PROVE Goal
  <2>1. /\ UNCHANGED <<pc, call>> /\ ops' = [ops EXCEPT ![t] = @ + 1]
        /\ HandOffAndWait(t) \/ \E ds : Fail(t, ds)
        BY <1>8, Zenon DEF Barrier, CountOp
  <2>2. Shared' = AfterBarrier(Shared, t, c.at, current')
        BY <1>3, <1>8, BarrierIsFunction
  <2>3. Shared' = AfterCall(Shared, t, c, current')
        BY <1>8, <2>2 DEF AfterCall
  <2>4. Private' = PrivateAfterCall(Private, t, c)
        BY <1>1, <1>8, <2>1 DEF Private, PrivateAfterCall
  <2>5. QED BY <1>3, <2>1, <2>3, <2>4, HandOffMoves, FailMoves
<1>9. ASSUME c.do = "collective", Collective(t, c.op, c.mask, c.at) PROVE Goal
  <2>1. /\ UNCHANGED <<status, barrier_loc, warp_wait>>
        /\ HandOffAndWait(t) /\ ops' = [ops EXCEPT ![t] = @ + 1]
        /\ pc' = [pc EXCEPT ![t] = "arrive"]
        /\ call' = [call EXCEPT ![t] = [op |-> c.op, mask |-> c.mask, at |-> c.at, value |-> ops'[t]]]
        BY <1>9 DEF Collective, waitVars, CountOp
  <2>2. Shared' = HandedOff(Shared, status, barrier_loc, warp_wait, current')
        BY <1>3, <2>1, HandOffIsFunction, Zenon
  <2>3. Shared' = AfterCall(Shared, t, c, current')
        BY <1>0, <1>9, <2>2 DEF AfterCall
  <2>4. ops'[t] = ops[t] + 1
        BY <1>4, <2>1
  <2>5. Private' = PrivateAfterCall(Private, t, c)
        BY <1>1, <1>9, <2>1, <2>4 DEF Private, PrivateAfterCall
  <2>6. QED BY <1>3, <2>1, <2>3, <2>5, HandOffMoves
<1> HIDE DEF Goal
<1>10. Goal
  <2>1. ASSUME c.do = "panic", Abort(t, "KernelPanic") PROVE Goal
        BY <2>1, <1>6, Zenon
  <2>2. ASSUME c.do = "trap", Abort(t, "Trap") PROVE Goal
        BY <2>2, <1>6, Zenon
  <2>3. QED BY <1>5, <1>7, <1>8, <1>9, <2>1, <2>2, Zenon DEF KernelCall
<1>11. QED BY <1>2, <1>3, <1>10, Zenon DEF Goal

\* A step inside a collective.
LEMMA InsideIsFunction ==
    ASSUME TypeInv, TurnInv, NEW t \in Threads, BadMask(t) \/ Arrive(t) \/ Depart(t),
           made' = made
    PROVE  /\ current = t /\ ~Stopped /\ pc[t] # "kernel"
           /\ Shared' = AfterInside(Shared, Private, t, current')
           /\ Private' = PrivateAfterInside(Private, t)
           /\ Decision \/ LastStep
<1>0. /\ Shared.status = status /\ Shared.barrier_loc = barrier_loc
      /\ Shared.warp_wait = warp_wait
      BY DEF Shared
<1>1. /\ Private.pc = pc /\ Private.call = call /\ Private.ops = ops /\ Private.made = made
      BY DEF Private
<1>2. os[t] = "running" /\ pc[t] \in {"arrive", "combine"}
      BY DEF BadMask, Arrive, Depart
<1>3. current = t /\ aborted = FALSE /\ ~Stopped
      BY <1>2, RunnerHolds
<1>4. MaskOk(t) <=> MaskFits(t, call[t].mask)
      BY DEF MaskOk, MaskFits
<1> DEFINE Goal == /\ Shared' = AfterInside(Shared, Private, t, current')
                   /\ Private' = PrivateAfterInside(Private, t)
                   /\ Decision \/ LastStep
<1>5. ASSUME NEW phase, WarpRendezvous(t, phase)
      PROVE  /\ Shared' = AfterRendezvous(Shared, call[t], t, phase, current')
             /\ Decision \/ LastStep
      BY <1>3, <1>5, RendezvousIsFunction, RendezvousEffect, HandOffMoves, FailMoves
<1>6. ASSUME BadMask(t) PROVE Goal
  <2>1. /\ UNCHANGED <<status, barrier_loc, warp_wait, pc, call, ops>>
        /\ ~MaskOk(t) /\ pc[t] = "arrive"
        /\ Fail(t, {ThreadDiagnostic("WarpLaneError", t)})
        BY <1>6 DEF BadMask, waitVars, kernelVars
  <2>2. Shared' = Failed(Shared, status, barrier_loc, warp_wait, {ThreadDiagnostic("WarpLaneError", t)})
        BY <2>1, FailIsFunction, Zenon
  <2>3. Shared' = AfterInside(Shared, Private, t, current')
        BY <1>0, <1>1, <1>4, <2>1, <2>2 DEF AfterInside
  <2>4. Private' = PrivateAfterInside(Private, t)
        BY <1>1, <1>4, <2>1 DEF Private, PrivateAfterInside
  <2>5. QED BY <2>1, <2>3, <2>4, FailMoves
<1>7. ASSUME Arrive(t) PROVE Goal
  <2>1. /\ UNCHANGED <<call, ops>> /\ pc' = [pc EXCEPT ![t] = "combine"]
        /\ MaskOk(t) /\ pc[t] = "arrive" /\ WarpRendezvous(t, "arrive")
        BY <1>7 DEF Arrive
  <2>2. Shared' = AfterInside(Shared, Private, t, current')
        BY <1>1, <1>4, <1>5, <2>1 DEF AfterInside
  <2>3. Private' = PrivateAfterInside(Private, t)
        BY <1>1, <1>4, <2>1 DEF Private, PrivateAfterInside
  <2>4. QED BY <1>5, <2>1, <2>2, <2>3
<1>8. ASSUME Depart(t) PROVE Goal
  <2>1. /\ UNCHANGED <<call, ops>> /\ pc' = [pc EXCEPT ![t] = "kernel"]
        /\ pc[t] = "combine" /\ WarpRendezvous(t, "depart")
        BY <1>8 DEF Depart
  <2>2. Shared' = AfterInside(Shared, Private, t, current')
        BY <1>1, <1>5, <2>1 DEF AfterInside
  <2>3. Private' = PrivateAfterInside(Private, t)
        BY <1>1, <2>1 DEF Private, PrivateAfterInside
  <2>4. QED BY <1>5, <2>1, <2>2, <2>3
<1> HIDE DEF Goal
<1>9. Goal
      BY <1>6, <1>7, <1>8, Zenon
<1>10. QED BY <1>2, <1>3, <1>9 DEF Goal

(***************************************************************************)
(* Rows of states.                                                         *)
(***************************************************************************)
\* The kernel of the thread whose turn it is has a call to make there.
CanAdvance(x, p) ==
    x.k.pc[x.s.current] = "kernel" =>
        x.k.made[x.s.current] + 1 \in 1 .. Len(p[x.s.current])

\* h[1] .. h[n] are the states of a launch of kernel calls p: d of them after its
\* d decisions, and one more after its last step when n is d + 1.
History(h, n, p, d) ==
    /\ h[1] = Start(h[1].s.current)
    /\ \A i \in 1 .. n - 1 :
         CanAdvance(h[i], p) /\ h[i + 1] = Advance(h[i], p, h[i + 1].s.current)
    /\ \A i \in 1 .. d : ~Over(h[i]) /\ h[i].s.current \in Runnable(h[i].s.status)

\* tr is what the scheduler keeps of these decisions, at most MaxTrace of them.
Traced(h, d, tr, complete) ==
    /\ tr \in Seq(Threads)
    /\ Len(tr) = IF d <= MaxTrace THEN d ELSE MaxTrace
    /\ \A i \in 1 .. Len(tr) : tr[i] = h[i].s.current
    /\ complete = (d <= MaxTrace)

\* A scheduler that follows a plan and has made n decisions.
PlanAt(plan, n) == [random |-> FALSE, plan |-> plan, cursor |-> n]

\* Who had the turn before the decision that led to h[i].
Previous(h, i) == IF i = 1 THEN NoThread ELSE h[i - 1].s.current

\* Each of the d decisions is one that a scheduler following `plan` makes.
AsPlanned(h, d, plan) ==
    \A i \in 1 .. d :
        h[i].s.current \in Chosen(h[i].s.status, PlanAt(plan, i - 1), Previous(h, i))

\* What is known of a launch after d decisions.
Row(h, n, p, d, tr, complete, ch) ==
    /\ History(h, n, p, d)
    /\ Traced(h, d, tr, complete)
    /\ ch.random = TRUE \/ (ch = PlanAt(ch.plan, d) /\ AsPlanned(h, d, ch.plan))

\* The row h[1] .. h[d] and then x.
Longer(h, d, x) == [i \in 1 .. d + 1 |-> IF i <= d THEN h[i] ELSE x]

\* Calls are only added.
Extends(p, q) ==
    \A t \in Threads : Len(p[t]) <= Len(q[t]) /\ \A i \in 1 .. Len(p[t]) : q[t][i] = p[t][i]

\* Lengths are numbers.
HaveLengths(p) == \A t \in Threads : Len(p[t]) \in Nat

\* Calls added later do not change what was done before.
LEMMA AdvanceStable ==
    ASSUME NEW x, NEW p, NEW q, NEW next, x.s.current \in Threads, Extends(p, q),
           HaveLengths(p), HaveLengths(q), CanAdvance(x, p)
    PROVE  CanAdvance(x, q) /\ Advance(x, q, next) = Advance(x, p, next)
<1> DEFINE t == x.s.current
           m == x.k.made[t] + 1
<1>1. CASE x.k.pc[t] = "kernel"
  <2>1. m \in 1 .. Len(p[t])
        BY <1>1 DEF CanAdvance
  <2>2. /\ Len(p[t]) \in Nat /\ Len(q[t]) \in Nat /\ Len(p[t]) <= Len(q[t])
        /\ \A i \in 1 .. Len(p[t]) : q[t][i] = p[t][i]
        BY Zenon DEF Extends, HaveLengths
  <2> HIDE DEF m
  <2>3. m \in 1 .. Len(q[t]) /\ q[t][m] = p[t][m]
        BY <2>1, <2>2
  <2>4. QED BY <2>3, Zenon DEF CanAdvance, Advance, m
<1>2. CASE x.k.pc[t] # "kernel"
      BY <1>2, Zenon DEF CanAdvance, Advance
<1>3. QED BY <1>1, <1>2

\* What a longer row holds.
LEMMA LongerRow ==
    ASSUME NEW h, NEW d \in Nat, d >= 1, NEW x
    PROVE  /\ \A i \in 1 .. d : Longer(h, d, x)[i] = h[i]
           /\ Longer(h, d, x)[d + 1] = x
           /\ \A i \in 1 .. d : Previous(Longer(h, d, x), i) = Previous(h, i)
           /\ Previous(Longer(h, d, x), d + 1) = h[d].s.current
<1> DEFINE g == Longer(h, d, x)
<1>1. \A i \in 1 .. d : g[i] = h[i]
      BY DEF Longer
<1>2. g[d + 1] = x
      BY DEF Longer
<1> HIDE DEF g
<1>3. \A i \in 1 .. d : Previous(g, i) = Previous(h, i)
      BY <1>1 DEF Previous
<1>4. Previous(g, d + 1) = h[d].s.current
      BY <1>1 DEF Previous
<1>5. QED BY <1>1, <1>2, <1>3, <1>4 DEF g

\* One more step makes a longer history: the last one, or a decision.
LEMMA HistoryGrows ==
    ASSUME NEW h, NEW d \in Nat, d >= 1, NEW p, NEW q, NEW x,
           Extends(p, q), HaveLengths(p), HaveLengths(q), History(h, d, p, d),
           CanAdvance(h[d], q), x = Advance(h[d], q, x.s.current)
    PROVE  /\ History(Longer(h, d, x), d + 1, q, d)
           /\ ~Over(x) /\ x.s.current \in Runnable(x.s.status)
                => History(Longer(h, d, x), d + 1, q, d + 1)
<1> DEFINE g == Longer(h, d, x)
<1>1. (\A i \in 1 .. d : g[i] = h[i]) /\ g[d + 1] = x
      BY LongerRow
<1> HIDE DEF g
<1>2. \A i \in 1 .. d : ~Over(h[i]) /\ h[i].s.current \in Runnable(h[i].s.status)
      BY DEF History
<1>3. \A i \in 1 .. d : h[i].s.current \in Threads
      BY <1>2 DEF Runnable
<1>4. ASSUME NEW i \in 1 .. d
      PROVE  CanAdvance(g[i], q) /\ g[i + 1] = Advance(g[i], q, g[i + 1].s.current)
  <2>1. CASE i = d
    <3>1. g[i] = h[d] /\ g[i + 1] = x
          BY <1>1, <2>1
    <3>2. QED BY <3>1
  <2>2. CASE i # d
    <3>1. i \in 1 .. d - 1 /\ i + 1 \in 1 .. d
          BY <2>2
    <3>2. CanAdvance(h[i], p) /\ h[i + 1] = Advance(h[i], p, h[i + 1].s.current)
          BY <3>1 DEF History
    <3>3. h[i].s.current \in Threads
          BY <1>3
    <3>4. /\ CanAdvance(h[i], q)
          /\ Advance(h[i], q, h[i + 1].s.current) = Advance(h[i], p, h[i + 1].s.current)
          BY <3>2, <3>3, AdvanceStable
    <3>5. g[i] = h[i] /\ g[i + 1] = h[i + 1]
          BY <1>1, <3>1
    <3>6. QED BY <3>2, <3>4, <3>5
  <2>3. QED BY <2>1, <2>2
<1>5. (d + 1) - 1 = d
      OBVIOUS
<1>6. g[1] = Start(g[1].s.current)
      BY <1>1 DEF History
<1>7. \A i \in 1 .. d : ~Over(g[i]) /\ g[i].s.current \in Runnable(g[i].s.status)
      BY <1>1, <1>2
<1>8. History(g, d + 1, q, d)
      BY <1>4, <1>5, <1>6, <1>7 DEF History
<1>9. ASSUME ~Over(x), x.s.current \in Runnable(x.s.status)
      PROVE  History(g, d + 1, q, d + 1)
  <2>1. \A i \in 1 .. d + 1 : ~Over(g[i]) /\ g[i].s.current \in Runnable(g[i].s.status)
    <3>1. \A i \in 1 .. d + 1 : i \in 1 .. d \/ i = d + 1
          OBVIOUS
    <3>2. QED BY <1>1, <1>7, <1>9, <3>1
  <2>2. QED BY <1>4, <1>5, <1>6, <2>1 DEF History
<1>10. QED BY <1>8, <1>9 DEF g

\* What one more decision does to the trace.
TraceWith(tr, c) == IF Len(tr) < MaxTrace THEN Append(tr, c) ELSE tr

\* The trace of a longer row.
LEMMA TraceGrows ==
    ASSUME NEW h, NEW d \in Nat, d >= 1, NEW tr, NEW complete, NEW x, Traced(h, d, tr, complete)
    PROVE  /\ Traced(Longer(h, d, x), d, tr, complete)
           /\ x.s.current \in Threads
                => Traced(Longer(h, d, x), d + 1, TraceWith(tr, x.s.current),
                          complete /\ Len(tr) < MaxTrace)
<1> DEFINE g == Longer(h, d, x)
<1>1. (\A i \in 1 .. d : g[i] = h[i]) /\ g[d + 1] = x
      BY LongerRow
<1> HIDE DEF g
<1>2. /\ tr \in Seq(Threads) /\ Len(tr) = IF d <= MaxTrace THEN d ELSE MaxTrace
      /\ \A i \in 1 .. Len(tr) : tr[i] = h[i].s.current
      /\ complete = (d <= MaxTrace)
      BY DEF Traced
<1>3. MaxTrace \in Nat /\ Len(tr) \in Nat /\ Len(tr) <= d
      BY <1>2, KernelAssumption
<1>4. \A i \in 1 .. Len(tr) : tr[i] = g[i].s.current
      BY <1>1, <1>2, <1>3
<1>5. Traced(g, d, tr, complete)
      BY <1>2, <1>4 DEF Traced
<1>6. ASSUME x.s.current \in Threads
      PROVE  Traced(g, d + 1, TraceWith(tr, x.s.current), complete /\ Len(tr) < MaxTrace)
  <2>1. CASE Len(tr) < MaxTrace
    <3>1. d <= MaxTrace /\ Len(tr) = d /\ d + 1 <= MaxTrace
          BY <1>2, <1>3, <2>1
    <3>7. complete = TRUE
          BY <1>2, <3>1
    <3>2. PICK c \in Threads : c = x.s.current
          BY <1>6
    <3>3. /\ TraceWith(tr, c) = Append(tr, c) /\ Append(tr, c) \in Seq(Threads)
          /\ Len(Append(tr, c)) = d + 1
          /\ \A i \in 1 .. d : Append(tr, c)[i] = tr[i]
          /\ Append(tr, c)[d + 1] = c
          BY <1>2, <2>1, <3>1 DEF TraceWith
    <3>4. \A i \in 1 .. d + 1 : i \in 1 .. d \/ i = d + 1
          OBVIOUS
    <3>5. \A i \in 1 .. d + 1 : Append(tr, c)[i] = g[i].s.current
          BY <1>1, <1>4, <3>1, <3>2, <3>3, <3>4
    <3>6. QED BY <2>1, <3>1, <3>2, <3>3, <3>5, <3>7 DEF Traced
  <2>2. CASE ~(Len(tr) < MaxTrace)
    <3>1. Len(tr) = MaxTrace /\ ~(d + 1 <= MaxTrace)
          BY <1>2, <1>3, <2>2
    <3>2. TraceWith(tr, x.s.current) = tr
          BY <2>2 DEF TraceWith
    <3>3. QED BY <1>2, <1>4, <2>2, <3>1, <3>2 DEF Traced
  <2>3. QED BY <2>1, <2>2
<1>7. QED BY <1>5, <1>6 DEF g

\* The plan of a longer row.
LEMMA PlanGrows ==
    ASSUME NEW h, NEW d \in Nat, d >= 1, NEW plan, NEW x, AsPlanned(h, d, plan)
    PROVE  /\ AsPlanned(Longer(h, d, x), d, plan)
           /\ x.s.current \in Chosen(x.s.status, PlanAt(plan, d), h[d].s.current)
                => AsPlanned(Longer(h, d, x), d + 1, plan)
<1> DEFINE g == Longer(h, d, x)
<1>1. /\ \A i \in 1 .. d : g[i] = h[i]
      /\ g[d + 1] = x
      /\ \A i \in 1 .. d : Previous(g, i) = Previous(h, i)
      /\ Previous(g, d + 1) = h[d].s.current
      BY LongerRow
<1> HIDE DEF g
<1>2. AsPlanned(g, d, plan)
      BY <1>1 DEF AsPlanned
<1>3. ASSUME x.s.current \in Chosen(x.s.status, PlanAt(plan, d), h[d].s.current)
      PROVE  AsPlanned(g, d + 1, plan)
  <2>1. \A i \in 1 .. d + 1 : i \in 1 .. d \/ i = d + 1
        OBVIOUS
  <2>2. (d + 1) - 1 = d
        OBVIOUS
  <2>3. QED BY <1>1, <1>2, <1>3, <2>1, <2>2 DEF AsPlanned
<1>4. QED BY <1>2, <1>3 DEF g

\* x is one step on from the end of the row, the calls having become q.
StepOn(h, d, p, q, x) ==
    /\ Extends(p, q) /\ HaveLengths(p) /\ HaveLengths(q)
    /\ CanAdvance(h[d], q) /\ x = Advance(h[d], q, x.s.current)

\* What one more decision does to the plan's cursor.
ChoicesWith(ch) == IF ch.random THEN ch ELSE [ch EXCEPT !.cursor = @ + 1]

\* The row after the last step ...
LEMMA RowEnds ==
    ASSUME NEW h, NEW d \in Nat, d >= 1, NEW p, NEW q, NEW x, NEW tr, NEW complete, NEW ch,
           Row(h, d, p, d, tr, complete, ch), StepOn(h, d, p, q, x)
    PROVE  Row(Longer(h, d, x), d + 1, q, d, tr, complete, ch)
<1>1. History(Longer(h, d, x), d + 1, q, d)
      BY HistoryGrows DEF Row, StepOn
<1>2. Traced(Longer(h, d, x), d, tr, complete)
      BY TraceGrows DEF Row
<1>3. AsPlanned(h, d, ch.plan) => AsPlanned(Longer(h, d, x), d, ch.plan)
      BY PlanGrows
<1>4. QED BY <1>1, <1>2, <1>3 DEF Row

\* ... and after one more decision.
LEMMA RowGrows ==
    ASSUME NEW h, NEW d \in Nat, d >= 1, NEW p, NEW q, NEW x, NEW tr, NEW complete, NEW ch,
           Row(h, d, p, d, tr, complete, ch), StepOn(h, d, p, q, x),
           ~Over(x), x.s.current \in Chosen(x.s.status, ch, h[d].s.current)
    PROVE  Row(Longer(h, d, x), d + 1, q, d + 1, TraceWith(tr, x.s.current),
               complete /\ Len(tr) < MaxTrace, ChoicesWith(ch))
<1> DEFINE g == Longer(h, d, x)
<1>1. x.s.current \in Runnable(x.s.status) /\ x.s.current \in Threads
      BY ChosenCanRun DEF Runnable
<1>2. History(g, d + 1, q, d + 1)
      BY <1>1, HistoryGrows DEF Row, StepOn
<1>3. Traced(g, d + 1, TraceWith(tr, x.s.current), complete /\ Len(tr) < MaxTrace)
      BY <1>1, TraceGrows DEF Row
<1>4. CASE ch.random = TRUE
  <2>1. ChoicesWith(ch) = ch
        BY <1>4 DEF ChoicesWith
  <2>2. QED BY <1>2, <1>3, <1>4, <2>1 DEF Row
<1>5. CASE ch = PlanAt(ch.plan, d) /\ AsPlanned(h, d, ch.plan)
  <2>1. PICK plan : plan = ch.plan
        OBVIOUS
  <2>2. ch = PlanAt(plan, d) /\ AsPlanned(h, d, plan)
        BY <1>5, <2>1
  <2>3. x.s.current \in Chosen(x.s.status, PlanAt(plan, d), h[d].s.current)
        BY <2>2
  <2>4. AsPlanned(g, d + 1, plan)
        BY <2>2, <2>3, PlanGrows
  <2>5. ChoicesWith(ch) = PlanAt(plan, d + 1) /\ ChoicesWith(ch).plan = plan
        BY <2>2 DEF ChoicesWith, PlanAt
  <2>6. QED BY <1>2, <1>3, <2>4, <2>5, Zenon DEF Row
<1>6. QED BY <1>4, <1>5 DEF Row

(***************************************************************************)
(* Both passes are launches of Scheduler, so its invariants hold in both.  *)
(***************************************************************************)
\* The types of the recording.
RecordOK ==
    /\ pass \in {1, 2}
    /\ prog \in [Threads -> Seq(Calls)]
    /\ made \in [Threads -> Nat]
    /\ pass = 1 => \A t \in Threads : Len(prog[t]) = made[t]

\* The invariants of Scheduler, and the types of the recording.
BaseInv == TypeInv /\ TurnInv /\ RecordOK

\* A call of the kernel is a step of Scheduler.
LEMMA CallIsStep ==
    ASSUME NEW t \in Threads, NEW c \in Calls, KernelCall(t, c)
    PROVE  Step(t)
<1>1. c.do = "barrier" => c.at \in Locs
      BY DEF Calls
<1>2. c.do = "collective" => c.op \in Ops /\ c.mask \in Masks /\ c.at \in Locs
      BY DEF Calls
<1>3. QED BY <1>1, <1>2, Zenon DEF KernelCall, Step

\* So is every step of a pass.
LEMMA PassStep ==
    ASSUME RecordOK, NEW t \in Threads, RecordedCall(t) \/ ReplayedCall(t) \/ InsideCall(t)
    PROVE  Next
<1>1. CASE RecordedCall(t)
      BY <1>1, CallIsStep DEF RecordedCall, Next
<1>2. CASE ReplayedCall(t)
  <2>1. made[t] \in Nat /\ prog[t] \in Seq(Calls) /\ made[t] < Len(prog[t])
        BY <1>2 DEF RecordOK, ReplayedCall
  <2>2. prog[t][made[t] + 1] \in Calls
        BY <2>1
  <2>3. QED BY <1>2, <2>2, CallIsStep DEF ReplayedCall, Next
<1>3. CASE InsideCall(t)
      BY <1>3, Zenon DEF InsideCall, Step, Next
<1>4. QED BY <1>1, <1>2, <1>3

\* What the holder of the turn does, in either pass, is Advance.
HolderStep ==
    /\ ~Stopped /\ current \in Threads
    /\ CanAdvance(Here, prog')
    /\ Here' = Advance(Here, prog', current')
    /\ Decision \/ LastStep
    /\ Extends(prog, prog')
    /\ HaveLengths(prog) /\ HaveLengths(prog')
    /\ pass = 2 => prog' = prog
    /\ UNCHANGED <<pass, first>>

\* What is in Here.
LEMMA HereFields ==
    /\ Here.s = Shared /\ Here.k = Private
    /\ Here.s.current = current /\ Here.s.status = status /\ Here.s.aborted = aborted
    /\ Here.s.diags = diags /\ Here.k.pc = pc /\ Here.k.made = made
    /\ Over(Here) <=> Stopped
BY DEF Here, Shared, Private, Over, Stopped

\* The calls of a kernel are sequences.
LEMMA CallsHaveLengths ==
    ASSUME NEW p \in [Threads -> Seq(Calls)]
    PROVE  HaveLengths(p)
<1>1. \A t \in Threads : p[t] \in Seq(Calls)
      OBVIOUS
<1>2. QED BY <1>1 DEF HaveLengths

\* Calls, recorded and replayed, and the steps inside a collective.
LEMMA RecordedAdvances ==
    ASSUME BaseInv, NEW t \in Threads, RecordedCall(t)
    PROVE  HolderStep /\ RecordOK'
<1>1. PICK c \in Calls : KernelCall(t, c) /\ prog' = [prog EXCEPT ![t] = Append(@, c)]
      BY DEF RecordedCall
<1>2. /\ made' = [made EXCEPT ![t] = @ + 1] /\ pass = 1 /\ UNCHANGED <<pass, first>>
      BY DEF RecordedCall
<1>3. /\ current = t /\ ~Stopped /\ pc[t] = "kernel"
      /\ Shared' = AfterCall(Shared, t, c, current')
      /\ Private' = PrivateAfterCall(Private, t, c)
      /\ Decision \/ LastStep
      BY <1>1, <1>2, CallIsFunction DEF BaseInv
<1>4. prog \in [Threads -> Seq(Calls)] /\ made \in [Threads -> Nat] /\ Len(prog[t]) = made[t]
      BY <1>2 DEF BaseInv, RecordOK
<1>5. prog[t] \in Seq(Calls) /\ made[t] \in Nat
      BY <1>4
<1>6. /\ prog'[t] = Append(prog[t], c) /\ \A u \in Threads \ {t} : prog'[u] = prog[u]
      /\ Append(prog[t], c) \in Seq(Calls)
      BY <1>1, <1>4, <1>5
<1>7. prog' \in [Threads -> Seq(Calls)]
      BY <1>1, <1>4, <1>6
<1>8. Len(prog'[t]) = made[t] + 1 /\ prog'[t][made[t] + 1] = c
      BY <1>4, <1>5, <1>6
<1>9. Extends(prog, prog')
  <2>1. SUFFICES ASSUME NEW u \in Threads
                 PROVE  Len(prog[u]) <= Len(prog'[u])
                        /\ \A i \in 1 .. Len(prog[u]) : prog'[u][i] = prog[u][i]
        BY DEF Extends
  <2>2. CASE u = t
        BY <1>5, <1>6, <2>2
  <2>3. CASE u # t
    <3>1. prog'[u] = prog[u] /\ prog[u] \in Seq(Calls)
          BY <1>4, <1>6, <2>3
    <3>2. QED BY <3>1
  <2>4. QED BY <2>2, <2>3
<1>10. CanAdvance(Here, prog')
      BY <1>3, <1>5, <1>8, HereFields DEF CanAdvance
<1>11. Here' = Advance(Here, prog', current')
  <2>1. /\ Here.s = Shared /\ Here.k = Private /\ Here.s.current = t
        /\ Here.k.pc[t] = "kernel" /\ prog'[t][Here.k.made[t] + 1] = c
        BY <1>3, <1>8, HereFields
  <2>2. Advance(Here, prog', current') =
            [s |-> AfterCall(Shared, t, c, current'), k |-> PrivateAfterCall(Private, t, c)]
        BY <2>1, Zenon DEF Advance
  <2>3. QED BY <1>3, <2>2 DEF Here
<1>12. HaveLengths(prog) /\ HaveLengths(prog')
      BY <1>4, <1>7, CallsHaveLengths
<1>13. HolderStep
      BY <1>2, <1>3, <1>9, <1>10, <1>11, <1>12 DEF HolderStep
<1>14. \A u \in Threads : Len(prog'[u]) = made'[u]
      BY <1>2, <1>4, <1>6, <1>8 DEF BaseInv, RecordOK
<1>15. made' \in [Threads -> Nat]
      BY <1>2, <1>4, <1>5
<1>16. QED BY <1>2, <1>3, <1>7, <1>13, <1>14, <1>15 DEF BaseInv, RecordOK

\* The same for a call made again.
LEMMA ReplayedAdvances ==
    ASSUME BaseInv, NEW t \in Threads, ReplayedCall(t)
    PROVE  HolderStep /\ RecordOK'
<1> DEFINE c == prog[t][made[t] + 1]
<1>1. /\ made' = [made EXCEPT ![t] = @ + 1] /\ pass = 2 /\ UNCHANGED <<pass, prog, first>>
      /\ made[t] < Len(prog[t]) /\ KernelCall(t, c)
      BY DEF ReplayedCall
<1>2. prog \in [Threads -> Seq(Calls)] /\ made \in [Threads -> Nat]
      BY DEF BaseInv, RecordOK
<1>3. prog[t] \in Seq(Calls) /\ made[t] \in Nat /\ made[t] + 1 \in 1 .. Len(prog[t])
      BY <1>1, <1>2
<1>4. c \in Calls
      BY <1>3
<1>5. /\ current = t /\ ~Stopped /\ pc[t] = "kernel"
      /\ Shared' = AfterCall(Shared, t, c, current')
      /\ Private' = PrivateAfterCall(Private, t, c)
      /\ Decision \/ LastStep
      BY <1>1, <1>4, CallIsFunction DEF BaseInv
<1>6. Extends(prog, prog')
  <2>1. HaveLengths(prog)
        BY <1>2, CallsHaveLengths
  <2>2. QED BY <1>1, <2>1 DEF Extends, HaveLengths
<1>7. CanAdvance(Here, prog')
      BY <1>1, <1>3, <1>5, HereFields DEF CanAdvance
<1>8. Here' = Advance(Here, prog', current')
  <2>1. /\ Here.s = Shared /\ Here.k = Private /\ Here.s.current = t
        /\ Here.k.pc[t] = "kernel" /\ prog'[t][Here.k.made[t] + 1] = c
        BY <1>1, <1>5, HereFields
  <2> HIDE DEF c
  <2>2. Advance(Here, prog', current') =
            [s |-> AfterCall(Shared, t, c, current'), k |-> PrivateAfterCall(Private, t, c)]
        BY <2>1, Zenon DEF Advance
  <2>3. QED BY <1>5, <2>2 DEF Here
<1>9. HolderStep
      BY <1>1, <1>2, <1>5, <1>6, <1>7, <1>8, CallsHaveLengths DEF HolderStep
<1>10. made' \in [Threads -> Nat]
      BY <1>1, <1>2, <1>3
<1>11. QED BY <1>1, <1>2, <1>5, <1>9, <1>10 DEF BaseInv, RecordOK

\* The same inside a collective.
LEMMA InsideAdvances ==
    ASSUME BaseInv, NEW t \in Threads, BadMask(t) \/ Arrive(t) \/ Depart(t),
           UNCHANGED replayVars
    PROVE  HolderStep /\ RecordOK'
<1>1. /\ UNCHANGED <<pass, prog, made, first>>
      BY DEF replayVars
<1>2. prog \in [Threads -> Seq(Calls)] /\ made \in [Threads -> Nat]
      BY DEF BaseInv, RecordOK
<1>3. /\ current = t /\ ~Stopped /\ pc[t] # "kernel"
      /\ Shared' = AfterInside(Shared, Private, t, current')
      /\ Private' = PrivateAfterInside(Private, t)
      /\ Decision \/ LastStep
      BY <1>1, InsideIsFunction DEF BaseInv
<1>4. Extends(prog, prog')
  <2>1. HaveLengths(prog)
        BY <1>2, CallsHaveLengths
  <2>2. QED BY <1>1, <2>1 DEF Extends, HaveLengths
<1>5. /\ Here.s = Shared /\ Here.k = Private /\ Here.s.current = t
      /\ Here.k.pc[t] # "kernel"
      BY <1>3, HereFields
<1>6. CanAdvance(Here, prog')
      BY <1>5 DEF CanAdvance
<1>7. Here' = Advance(Here, prog', current')
  <2>1. Advance(Here, prog', current') =
            [s |-> AfterInside(Shared, Private, t, current'), k |-> PrivateAfterInside(Private, t)]
        BY <1>5, Zenon DEF Advance
  <2>2. QED BY <1>3, <2>1 DEF Here
<1>8. HolderStep
      BY <1>1, <1>2, <1>3, <1>4, <1>6, <1>7, CallsHaveLengths DEF HolderStep
<1>9. QED BY <1>1, <1>2, <1>3, <1>8 DEF BaseInv, RecordOK

\* A thread that takes the mutex again changes nothing of that state.
Idle ==
    UNCHANGED <<Here, trace, trace_complete, choices, pass, prog, first>>

\* So does a step in which nothing happens ...
LEMMA StutterIsIdle ==
    ASSUME RecordOK, UNCHANGED <<vars, replayVars>>
    PROVE  Idle /\ RecordOK'
BY DEF vars, replayVars, schedVars, waitVars, kernelVars, Idle, Here, Shared, Private, RecordOK

\* ... and a wakeup, spurious or not.
LEMMA WakingIsIdle ==
    ASSUME RecordOK, NEW t, Resume(t) \/ SpuriousWakeup(t), UNCHANGED replayVars
    PROVE  Idle /\ RecordOK'
BY DEF Resume, SpuriousWakeup, replayVars, waitVars, kernelVars, Idle, Here, Shared, Private, RecordOK

\* The steps of a pass: an idle one, or one of the holder.
LEMMA PassStepKinds ==
    ASSUME BaseInv, NEW t \in Threads, RecordedCall(t) \/ ReplayedCall(t) \/ InsideCall(t)
    PROVE  (Idle \/ HolderStep) /\ RecordOK'
<1>1. CASE RecordedCall(t)
      BY <1>1, RecordedAdvances
<1>2. CASE ReplayedCall(t)
      BY <1>2, ReplayedAdvances
<1>3. CASE (Resume(t) \/ SpuriousWakeup(t)) /\ UNCHANGED replayVars
      BY <1>3, WakingIsIdle DEF BaseInv
<1>4. CASE (BadMask(t) \/ Arrive(t) \/ Depart(t)) /\ UNCHANGED replayVars
      BY <1>4, InsideAdvances
<1>5. QED BY <1>1, <1>2, <1>3, <1>4, Zenon DEF InsideCall

(***************************************************************************)
(* The invariant: the first launch keeps a row that ends here, the second  *)
(* walks along it.                                                         *)
(***************************************************************************)
\* States a launch has gone through after d decisions.
Steps(d) == IF Stopped THEN d + 1 ELSE d

\* The row of d decisions leads to the state of the first launch.
RowTo(h, d) ==
    /\ d \in Nat /\ d >= 1
    /\ Row(h, Steps(d), prog, d, trace, trace_complete, choices)
    /\ h[Steps(d)] = Here

\* The first launch has such a row.
Recording == pass = 1 => \E h, d : RowTo(h, d)

\* A row of n decisions ends where the first launch did.
Ending(h, n, end) ==
    /\ Over(h[n + 1])
    /\ h[n + 1].s.aborted \/ Runnable(h[n + 1].s.status) = {}
    /\ Traced(h, n, end.trace, end.trace_complete)
    /\ end = [trace |-> end.trace, trace_complete |-> end.trace_complete,
              diags |-> h[n + 1].s.diags, status |-> h[n + 1].s.status,
              aborted |-> h[n + 1].s.aborted]

\* The second launch is d decisions along the row of the first, whose n decisions
\* are the ones its plan leads to.
OnTheRow(h, n, d) ==
    /\ n \in Nat /\ d \in Nat /\ 1 <= d /\ d <= n
    /\ History(h, n + 1, prog, n)
    /\ Ending(h, n, first)
    /\ choices = PlanAt(choices.plan, d)
    /\ AsPlanned(h, n, choices.plan)
    /\ Traced(h, d, trace, trace_complete)
    /\ h[Steps(d)] = Here

\* The second is on one.
Replaying == pass = 2 => \E h, n, d : OnTheRow(h, n, d)

\* The inductive invariant.
ReplayInv == BaseInv /\ Recording /\ Replaying

\* What is in Here after a step.
LEMMA HereNext ==
    /\ Over(Here') <=> Stopped'
    /\ Here'.s.current = current' /\ Here'.s.status = status'
    /\ Here'.s.aborted = aborted' /\ Here'.s.diags = diags'
BY DEF Here, Shared, Private, Over, Stopped

\* A launch all of whose threads have left is over.
LEMMA GoneIsOver ==
    ASSUME BaseInv, \A t \in Threads : os[t] = "gone"
    PROVE  Stopped
<1>1. SUFFICES ASSUME ~aborted, current # NoThread PROVE FALSE
      BY DEF Stopped
<1>2. current \in Threads /\ status[current] = "Runnable"
      BY <1>1 DEF BaseInv, TurnInv, TurnRunnable
<1>3. status[current] = "Finished"
      BY <1>1, <1>2 DEF BaseInv, TurnInv, GoneFinished
<1>4. QED BY <1>2, <1>3

\* The bookkeeping of a decision, as rows have it.
LEMMA DecisionKeeps ==
    ASSUME Decision
    PROVE  /\ trace' = TraceWith(trace, current') /\ choices' = ChoicesWith(choices)
           /\ trace_complete' = (trace_complete /\ Len(trace) < MaxTrace)
           /\ current' \in Chosen(status', choices, current) /\ ~Stopped'
BY DEF Decision, Record, TraceWith, ChoicesWith

\* The first launch goes on.
LEMMA RecordingStep ==
    ASSUME Recording, pass = 1, HolderStep
    PROVE  Recording'
<1>1. PICK h, d : RowTo(h, d)
      BY DEF Recording
<1>2. /\ ~Stopped /\ CanAdvance(Here, prog') /\ Here' = Advance(Here, prog', current')
      /\ Decision \/ LastStep
      /\ Extends(prog, prog') /\ HaveLengths(prog) /\ HaveLengths(prog')
      BY DEF HolderStep
<1>3. d \in Nat /\ d >= 1 /\ Steps(d) = d
      BY <1>1, <1>2 DEF RowTo, Steps
<1>4. Row(h, d, prog, d, trace, trace_complete, choices) /\ h[d] = Here
      BY <1>1, <1>3 DEF RowTo
<1>5. PICK x, q, g : x = Here' /\ q = prog' /\ g = Longer(h, d, x)
      OBVIOUS
<1>6. StepOn(h, d, prog, q, x)
      BY <1>2, <1>4, <1>5, HereNext DEF StepOn
<1>7. g[d + 1] = x
      BY <1>3, <1>5, LongerRow
<1>8. CASE LastStep
  <2>1. /\ trace' = trace /\ trace_complete' = trace_complete /\ choices' = choices /\ Stopped'
        BY <1>8 DEF LastStep
  <2>2. Row(g, d + 1, q, d, trace, trace_complete, choices)
        BY <1>3, <1>4, <1>5, <1>6, RowEnds
  <2>3. Steps(d)' = d + 1
        BY <2>1 DEF Steps
  <2>4. RowTo(g, d)'
        BY <1>3, <1>5, <1>7, <2>1, <2>2, <2>3 DEF RowTo
  <2>5. QED BY <2>4 DEF Recording
<1>9. CASE Decision
  <2>1. PICK tr, complete, ch : tr = trace' /\ complete = trace_complete' /\ ch = choices'
        OBVIOUS
  <2>2. /\ tr = TraceWith(trace, x.s.current) /\ ch = ChoicesWith(choices)
        /\ complete = (trace_complete /\ Len(trace) < MaxTrace)
        /\ x.s.current \in Chosen(x.s.status, choices, h[d].s.current) /\ ~Over(x) /\ ~Stopped'
        BY <1>4, <1>5, <1>9, <2>1, DecisionKeeps, HereFields, HereNext
  <2>3. Row(g, d + 1, q, d + 1, tr, complete, ch)
        BY <1>3, <1>4, <1>5, <1>6, <2>2, RowGrows
  <2>4. Steps(d + 1)' = d + 1
        BY <2>2 DEF Steps
  <2>5. RowTo(g, d + 1)'
        BY <1>3, <1>5, <1>7, <2>1, <2>3, <2>4 DEF RowTo
  <2>6. QED BY <2>5 DEF Recording
<1>10. QED BY <1>2, <1>8, <1>9

\* An idle step of a pass leaves both halves of the invariant as they are.
LEMMA IdleKeeps ==
    ASSUME Recording, Replaying, Idle
    PROVE  Recording' /\ Replaying'
<1>1. UNCHANGED <<Here, trace, trace_complete, choices, pass, prog, first>>
      BY DEF Idle
<1>2. \A d : Steps(d)' = Steps(d)
      BY <1>1, HereFields, HereNext DEF Steps
<1>3. Recording'
      BY <1>1, <1>2 DEF Recording, RowTo
<1>4. Replaying'
      BY <1>1, <1>2 DEF Replaying, OnTheRow
<1>5. QED BY <1>3, <1>4

(***************************************************************************)
(* Replaying: one step along the row.                                      *)
(***************************************************************************)
\* Two outcomes of one step, with c and with d next: the same, or they differ
\* only in who is next and somebody can run.
Fork(a, b, c, d) ==
    \/ a = b
    \/ /\ a.status = b.status /\ Runnable(a.status) # {}
       /\ a.current = c /\ a.aborted = FALSE
       /\ b.current = d /\ b.aborted = FALSE

\* Whom the turn goes to changes nothing else.
LEMMA NextIsFree ==
    ASSUME NEW x, NEW p, NEW c, NEW d
    PROVE  /\ Fork(Advance(x, p, c).s, Advance(x, p, d).s, c, d)
           /\ Advance(x, p, c).k = Advance(x, p, d).k
           /\ Advance(x, p, c) = [s |-> Advance(x, p, c).s, k |-> Advance(x, p, c).k]
<1>1. \A s, st, locs, ww :
        Fork(HandedOff(s, st, locs, ww, c), HandedOff(s, st, locs, ww, d), c, d)
  <2>1. SUFFICES ASSUME NEW s, NEW st, NEW locs, NEW ww
                 PROVE  Fork(HandedOff(s, st, locs, ww, c), HandedOff(s, st, locs, ww, d), c, d)
        OBVIOUS
  <2>2. CASE Runnable(st) = {}
    <3>1. HandedOff(s, st, locs, ww, c) = HandedOff(s, st, locs, ww, d)
          BY <2>2, Zenon DEF HandedOff
    <3>2. QED BY <3>1 DEF Fork
  <2>3. CASE Runnable(st) # {}
    <3>1. \A e : LET a == HandedOff(s, st, locs, ww, e)
                IN  a.status = st /\ a.current = e /\ a.aborted = FALSE
          BY <2>3 DEF HandedOff
    <3>2. QED BY <2>3, <3>1 DEF Fork
  <2>4. QED BY <2>2, <2>3
<1>2. \A a : Fork(a, a, c, d)
      BY DEF Fork
<1>3. \A s, t, loc : Fork(AfterBarrier(s, t, loc, c), AfterBarrier(s, t, loc, d), c, d)
      BY <1>1, <1>2 DEF AfterBarrier
<1>4. \A s, arg, t, phase :
        Fork(AfterRendezvous(s, arg, t, phase, c), AfterRendezvous(s, arg, t, phase, d), c, d)
      BY <1>1, <1>2 DEF AfterRendezvous
<1>5. \A s, t : Fork(AfterFinish(s, t, c), AfterFinish(s, t, d), c, d)
      BY <1>1, <1>2 DEF AfterFinish
<1>6. \A s, t, e : Fork(AfterCall(s, t, e, c), AfterCall(s, t, e, d), c, d)
      BY <1>1, <1>2, <1>3, <1>5 DEF AfterCall
<1>7. \A s, k, t : Fork(AfterInside(s, k, t, c), AfterInside(s, k, t, d), c, d)
      BY <1>2, <1>4 DEF AfterInside
<1>8. QED BY <1>6, <1>7 DEF Advance

\* A scheduler that follows a plan has no choice.
LEMMA ChosenAlone ==
    ASSUME NEW st, NEW plan, NEW n, NEW previous,
           NEW a \in Chosen(st, PlanAt(plan, n), previous),
           NEW b \in Chosen(st, PlanAt(plan, n), previous)
    PROVE  a = b
<1> DEFINE ch == PlanAt(plan, n)
<1>1. ch.random = FALSE
      BY DEF PlanAt
<1> HIDE DEF ch
<1>2. a \in Chosen(st, ch, previous) /\ b \in Chosen(st, ch, previous)
      BY DEF ch
<1>3. \A x, y : x \in Planned(ch) /\ y \in Planned(ch) => x = y
      BY DEF Planned
<1>4. \A x, y : x \in Lowest(Runnable(st)) /\ y \in Lowest(Runnable(st)) => x = y
  <2>1. Runnable(st) \in SUBSET Threads
        BY DEF Runnable
  <2>2. QED BY <2>1, LowestAlone
<1>5. QED BY <1>1, <1>2, <1>3, <1>4 DEF Chosen

\* The step that is made is the one that was made then.
LEMMA SameStep ==
    ASSUME HolderStep, pass = 2, TurnInv', NEW h, NEW n, NEW d, OnTheRow(h, n, d)
    PROVE  Here' = h[d + 1]
<1> DEFINE b == h[d + 1].s
<1>1. /\ ~Stopped /\ Here' = Advance(Here, prog, current')
      /\ Decision \/ LastStep
      BY Zenon DEF HolderStep
<1>2. /\ n \in Nat /\ d \in Nat /\ 1 <= d /\ d <= n /\ History(h, n + 1, prog, n)
      /\ Ending(h, n, first) /\ choices = PlanAt(choices.plan, d)
      /\ AsPlanned(h, n, choices.plan)
      BY DEF OnTheRow
<1>3. h[d] = Here
  <2>1. Steps(d) = d
        BY <1>1 DEF Steps
  <2>2. QED BY <2>1, Zenon DEF OnTheRow
<1>4. h[d + 1] = Advance(Here, prog, b.current)
  <2>1. d \in 1 .. (n + 1) - 1
        BY <1>2
  <2>2. \A i \in 1 .. (n + 1) - 1 : h[i + 1] = Advance(h[i], prog, h[i + 1].s.current)
        BY <1>2, Zenon DEF History
  <2>3. QED BY <1>3, <2>1, <2>2
<1>5. /\ Fork(Here'.s, b, current', b.current) /\ Here'.k = h[d + 1].k
      /\ Here' = [s |-> Here'.s, k |-> Here'.k] /\ h[d + 1] = [s |-> b, k |-> h[d + 1].k]
  <2>1. PICK x, y : x = Here' /\ y = h[d + 1]
        OBVIOUS
  <2>2. x = Advance(Here, prog, current') /\ y = Advance(Here, prog, b.current)
        BY <1>1, <1>4, <2>1
  <2>3. QED BY <2>1, <2>2, NextIsFree
<1>6. CASE Here'.s = b
      BY <1>5, <1>6
<1>7. CASE /\ Here'.s.status = b.status /\ Runnable(Here'.s.status) # {}
           /\ Here'.s.aborted = FALSE /\ b.aborted = FALSE
  <2>1. status' = b.status /\ Runnable(status') # {} /\ aborted' = FALSE
        BY <1>7, HereNext
  <2>2. ~Stopped'
    <3>1. PICK u \in Threads : status'[u] = "Runnable"
          BY <2>1 DEF Runnable
    <3>2. current' \in Threads
          BY <2>1, <3>1 DEF TurnInv, SomeoneHasTurn
    <3>3. QED BY <2>1, <3>2, NoThreadIsNone DEF Stopped
  <2>3. current' \in Chosen(status', choices, current)
        BY <1>1, <2>2, DecisionKeeps DEF LastStep
  <2>4. d # n
        BY <1>2, <1>7, <2>1 DEF Ending
  <2>5. b.current \in Chosen(b.status, PlanAt(choices.plan, (d + 1) - 1), Previous(h, d + 1))
    <3>1. d + 1 \in 1 .. n
          BY <1>2, <2>4
    <3>2. QED BY <1>2, <3>1 DEF AsPlanned
  <2>6. (d + 1) - 1 = d /\ Previous(h, d + 1) = current
        BY <1>2, <1>3, HereFields DEF Previous
  <2>7. current' = b.current
    <3>1. PICK st, plan, a, e : /\ st = status' /\ plan = choices.plan
                                /\ a = current' /\ e = b.current
          OBVIOUS
    <3>2. a \in Chosen(st, PlanAt(plan, d), current) /\ e \in Chosen(st, PlanAt(plan, d), current)
          BY <1>2, <2>1, <2>3, <2>5, <2>6, <3>1
    <3>3. a = e
          BY <3>2, ChosenAlone
    <3>4. QED BY <3>1, <3>3
  <2>8. QED BY <1>1, <1>4, <2>7
<1>8. QED BY <1>5, <1>6, <1>7 DEF Fork

\* The second launch goes on along the row.
LEMMA ReplayingStep ==
    ASSUME Replaying, pass = 2, HolderStep, TurnInv'
    PROVE  Replaying'
<1>1. PICK h, n, d : OnTheRow(h, n, d)
      BY DEF Replaying
<1>2. Here' = h[d + 1]
      BY <1>1, SameStep
<1>3. /\ ~Stopped /\ prog' = prog /\ first' = first
      /\ Decision \/ LastStep
      BY Zenon DEF HolderStep
<1>4. /\ n \in Nat /\ d \in Nat /\ 1 <= d /\ d <= n /\ History(h, n + 1, prog, n)
      /\ Ending(h, n, first) /\ choices = PlanAt(choices.plan, d)
      /\ AsPlanned(h, n, choices.plan) /\ Traced(h, d, trace, trace_complete)
      BY <1>1 DEF OnTheRow
<1>5. CASE LastStep
  <2>1. trace' = trace /\ trace_complete' = trace_complete /\ choices' = choices /\ Stopped'
        BY <1>5 DEF LastStep
  <2>2. Steps(d)' = d + 1
        BY <2>1 DEF Steps
  <2>3. OnTheRow(h, n, d)'
        BY <1>2, <1>3, <1>4, <2>1, <2>2 DEF OnTheRow
  <2>4. QED BY <2>3 DEF Replaying
<1>6. CASE Decision
  <2>1. /\ trace' = TraceWith(trace, current') /\ choices' = ChoicesWith(choices)
        /\ trace_complete' = (trace_complete /\ Len(trace) < MaxTrace)
        /\ current' \in Chosen(status', choices, current) /\ ~Stopped'
        BY <1>6, DecisionKeeps
  <2>2. d # n
    <3>1. ~Over(h[d + 1])
          BY <1>2, <2>1, HereNext
    <3>2. QED BY <1>4, <3>1 DEF Ending
  <2>3. 1 <= d + 1 /\ d + 1 <= n /\ d + 1 \in Nat
        BY <1>4, <2>2
  <2>4. choices' = PlanAt(choices'.plan, d + 1) /\ choices'.plan = choices.plan
    <3>1. PICK plan : plan = choices.plan
          OBVIOUS
    <3>2. choices = PlanAt(plan, d)
          BY <1>4, <3>1
    <3>3. ChoicesWith(choices) = PlanAt(plan, d + 1) /\ PlanAt(plan, d + 1).plan = plan
          BY <3>2 DEF ChoicesWith, PlanAt
    <3>4. QED BY <2>1, <3>1, <3>3
  <2>5. Traced(h, d + 1, trace', trace_complete')
    <3>1. PICK x, g : x = h[d + 1] /\ g = Longer(h, d, x)
          OBVIOUS
    <3>2. x.s.current = current' /\ current' \in Threads
          BY <1>2, <2>1, <3>1, HereNext, ChosenCanRun DEF Runnable
    <3>3. Traced(g, d + 1, trace', trace_complete')
          BY <1>4, <2>1, <3>1, <3>2, TraceGrows
    <3>4. \A i \in 1 .. d + 1 : g[i] = h[i]
      <4>1. (\A i \in 1 .. d : g[i] = h[i]) /\ g[d + 1] = h[d + 1]
            BY <1>4, <3>1, LongerRow
      <4>2. \A i \in 1 .. d + 1 : i \in 1 .. d \/ i = d + 1
            BY <1>4
      <4>3. QED BY <4>1, <4>2
    <3>5. \A i \in 1 .. Len(trace') : i \in 1 .. d + 1
          BY <1>4, <3>3, KernelAssumption DEF Traced
    <3>6. QED BY <3>3, <3>4, <3>5 DEF Traced
  <2>6. Steps(d + 1)' = d + 1
        BY <2>1 DEF Steps
  <2>7. AsPlanned(h, n, choices'.plan)
        BY <1>4, <2>4
  <2>8. OnTheRow(h, n, d + 1)'
        BY <1>2, <1>3, <1>4, <2>3, <2>4, <2>5, <2>6, <2>7 DEF OnTheRow
  <2>9. QED BY <2>8 DEF Replaying
<1>7. QED BY <1>3, <1>5, <1>6

(***************************************************************************)
(* The two launches start alike.                                           *)
(***************************************************************************)
\* Everybody can run and nobody has.
Fresh ==
    /\ status = [t \in Threads |-> "Runnable"]
    /\ barrier_gen = [b \in Blocks |-> 0]
    /\ barrier_loc = [b \in Blocks |-> NoLoc]
    /\ warp_wait = [t \in Threads |-> NoWait]
    /\ warp_gen = [w \in Warps |-> 0]
    /\ trace_complete \in BOOLEAN
    /\ aborted = FALSE
    /\ diags = {}
    /\ os = [t \in Threads |-> "starting"]
    /\ pc = [t \in Threads |-> "kernel"]
    /\ call = [t \in Threads |-> NoCall]
    /\ slot = [t \in Threads |-> 0]
    /\ ops = [t \in Threads |-> 0]
    /\ barriersCalled = [t \in Threads |-> 0]
    /\ departsCalled = [t \in Threads |-> 0]
    /\ made = [t \in Threads |-> 0]
    /\ current \in Threads

\* What is true of such a launch.
FreshSound == TypeInv /\ TurnInv /\ Here = Start(current) /\ ~Stopped

\* It is.
LEMMA FreshIsSound == Fresh => FreshSound
<1> SUFFICES ASSUME Fresh PROVE FreshSound
    OBVIOUS
<1>1. 0 \in Values /\ NoCall \in CallRecords /\ NoWait \in WaitRecords
      BY KernelAssumption DEF Values, CallRecords, WaitRecords
<1>2. TypeOK
      BY <1>1 DEF Fresh, TypeOK
<1>3. TypeInv
      BY <1>2 DEF TypeInv, InCallOK, Fresh
<1>4. TurnInv
      BY NoThreadIsNone DEF Fresh, TurnInv, TurnExclusive, NoLostWakeup, SomeoneHasTurn,
                            TurnRunnable, GoneFinished
<1>5. Here = Start(current)
      BY DEF Fresh, Here, Shared, Private, Start
<1>6. QED BY <1>3, <1>4, <1>5, NoThreadIsNone DEF FreshSound, Stopped, Fresh

\* The trace after the first decision.
LEMMA FirstTraced ==
    ASSUME NEW c \in Threads, NEW h, h[1].s.current = c
    PROVE  Traced(h, 1, IF MaxTrace > 0 THEN <<c>> ELSE <<>>, MaxTrace > 0)
<1>1. CASE MaxTrace > 0
  <2>1. <<c>> \in Seq(Threads) /\ Len(<<c>>) = 1 /\ <<c>>[1] = c /\ 1 <= MaxTrace
        BY <1>1, KernelAssumption
  <2>2. QED BY <1>1, <2>1 DEF Traced
<1>2. CASE ~(MaxTrace > 0)
  <2>1. <<>> \in Seq(Threads) /\ Len(<<>>) = 0 /\ MaxTrace = 0
        BY <1>2, KernelAssumption
  <2>2. QED BY <1>2, <2>1 DEF Traced
<1>3. QED BY <1>1, <1>2

\* A row of one state.
LEMMA FirstHistory ==
    ASSUME NEW c \in Threads, NEW p, NEW h, h[1] = Start(c)
    PROVE  History(h, 1, p, 1) /\ h[1].s.current = c
<1>1. ~Over(Start(c)) /\ Start(c).s.current = c /\ c \in Runnable(Start(c).s.status)
      BY NoThreadIsNone DEF Start, Over, Runnable
<1>2. QED BY <1>1 DEF History

\* The first launch starts with such a row.
LEMMA ReplayInitSound == ReplayInit => ReplayInv
<1> SUFFICES ASSUME ReplayInit PROVE ReplayInv
    OBVIOUS
<1>1. PICK ch \in InitialChoices : \E c \in Chosen(status, ch, NoThread) :
          /\ current = c
          /\ choices = IF ch.random THEN ch ELSE [ch EXCEPT !.cursor = 1]
          /\ trace = IF MaxTrace > 0 THEN <<c>> ELSE <<>>
      BY DEF ReplayInit, Init
<1>2. current \in Chosen(status, ch, NoThread) /\ current \in Threads
      BY <1>1, ChosenCanRun DEF Runnable
<1>3. /\ Fresh /\ trace_complete = (MaxTrace > 0) /\ pass = 1 /\ prog = [t \in Threads |-> <<>>]
      /\ trace = IF MaxTrace > 0 THEN <<current>> ELSE <<>>
      BY <1>1, <1>2 DEF ReplayInit, Init, Fresh
<1>4. TypeInv /\ TurnInv /\ Here = Start(current) /\ ~Stopped
      BY <1>3, FreshIsSound DEF FreshSound
<1>5. RecordOK
      BY <1>3 DEF RecordOK, Fresh
<1>6. Recording
  <2> DEFINE h == [i \in 1 .. 1 |-> Here]
  <2>1. h[1] = Here
        OBVIOUS
  <2> HIDE DEF h
  <2>2. History(h, 1, prog, 1) /\ h[1].s.current = current
        BY <1>2, <1>4, <2>1, FirstHistory
  <2>3. Traced(h, 1, trace, trace_complete)
    <3>1. PICK c \in Threads : c = current
          BY <1>2
    <3>2. h[1].s.current = c
          BY <2>2, <3>1
    <3>3. Traced(h, 1, IF MaxTrace > 0 THEN <<c>> ELSE <<>>, MaxTrace > 0)
          BY <3>2, FirstTraced
    <3>4. QED BY <1>3, <3>1, <3>3
  <2>4. choices.random = TRUE \/ (choices = PlanAt(choices.plan, 1) /\ AsPlanned(h, 1, choices.plan))
    <3>1. CASE ch.random = TRUE
          BY <1>1, <3>1
    <3>2. CASE \E p \in Plans : ch = PlanAt(p, 0)
      <4>1. PICK plan : ch = PlanAt(plan, 0)
            BY <3>2
      <4>2. choices = PlanAt(plan, 1) /\ choices.plan = plan
            BY <1>1, <4>1 DEF PlanAt
      <4>3. h[1].s.status = status
            BY <2>1, HereFields
      <4>4. AsPlanned(h, 1, plan)
            BY <1>2, <2>2, <4>1, <4>3 DEF AsPlanned, Previous
      <4>5. QED BY <4>2, <4>4
    <3>3. ch.random = TRUE \/ \E p \in Plans : ch = PlanAt(p, 0)
          BY DEF InitialChoices, PlanAt
    <3>4. QED BY <3>1, <3>2, <3>3
  <2>5. Steps(1) = 1
        BY <1>4 DEF Steps
  <2>6. RowTo(h, 1)
        BY <2>1, <2>2, <2>3, <2>4, <2>5 DEF RowTo, Row
  <2>7. QED BY <2>6 DEF Recording
<1>7. Replaying
      BY <1>3 DEF Replaying
<1>8. QED BY <1>4, <1>5, <1>6, <1>7 DEF ReplayInv, BaseInv

\* A plan that names a thread that can run is followed.
LEMMA PlanIsFollowed ==
    ASSUME NEW st, NEW tr \in Seq(Threads), NEW n \in Nat, NEW previous,
           n + 1 <= Len(tr), tr[n + 1] \in Runnable(st)
    PROVE  Chosen(st, PlanAt(tr, n), previous) = {tr[n + 1]}
<1> DEFINE ch == PlanAt(tr, n)
<1>1. ch.random = FALSE /\ ch.plan = tr /\ ch.cursor = n
      BY DEF PlanAt
<1> HIDE DEF ch
<1>2. Planned(ch) = {tr[n + 1]}
      BY <1>1 DEF Planned
<1>3. Planned(ch) \cap Runnable(st) = {tr[n + 1]}
      BY <1>2
<1>4. Chosen(st, ch, previous) = {tr[n + 1]}
      BY <1>1, <1>3 DEF Chosen
<1>5. QED BY <1>4 DEF ch

\* The decisions of the first launch are the ones each of its schedules leads to.
LEMMA SchedulesLead ==
    ASSUME Stopped, NEW h, NEW n, RowTo(h, n), NEW plan \in Schedules
    PROVE  AsPlanned(h, n, plan)
<1>1. /\ n \in Nat /\ n >= 1 /\ History(h, n + 1, prog, n) /\ Traced(h, n, trace, trace_complete)
      /\ choices.random = TRUE \/ (choices = PlanAt(choices.plan, n) /\ AsPlanned(h, n, choices.plan))
      BY DEF RowTo, Row, Steps
<1>2. CASE trace_complete /\ plan = trace
  <2>1. SUFFICES ASSUME NEW i \in 1 .. n
                 PROVE  h[i].s.current \in Chosen(h[i].s.status, PlanAt(plan, i - 1), Previous(h, i))
        BY DEF AsPlanned
  <2>2. plan \in Seq(Threads) /\ Len(plan) = n /\ plan[i] = h[i].s.current
        BY <1>1, <1>2 DEF Traced
  <2>3. h[i].s.current \in Runnable(h[i].s.status)
        BY <1>1 DEF History
  <2>4. PICK m \in Nat : m = i - 1
        BY <1>1
  <2>5. m + 1 = i /\ m + 1 <= Len(plan) /\ plan[m + 1] \in Runnable(h[i].s.status)
        BY <1>1, <2>2, <2>3, <2>4
  <2>6. Chosen(h[i].s.status, PlanAt(plan, m), Previous(h, i)) = {plan[m + 1]}
        BY <2>2, <2>5, PlanIsFollowed
  <2>7. QED BY <2>2, <2>4, <2>5, <2>6
<1>3. CASE choices.random # TRUE /\ plan = choices.plan
      BY <1>1, <1>3
<1>4. QED BY <1>2, <1>3 DEF Schedules

\* The second launch starts at the head of the row.
LEMMA RelaunchSound ==
    ASSUME ReplayInv, Relaunch
    PROVE  ReplayInv'
<1>1. /\ pass = 1 /\ (\A t \in Threads : os[t] = "gone")
      /\ pass' = 2 /\ first' = Outcome /\ prog' = prog
      /\ trace_complete' = (MaxTrace > 0)
      BY DEF Relaunch
<1>2. Stopped
      BY <1>1, GoneIsOver DEF ReplayInv
<1>3. PICK h, n : RowTo(h, n)
      BY <1>1 DEF ReplayInv, Recording
<1>4. /\ n \in Nat /\ n >= 1 /\ History(h, n + 1, prog, n) /\ Traced(h, n, trace, trace_complete)
      /\ h[n + 1] = Here
      BY <1>2, <1>3 DEF RowTo, Row, Steps
<1>5. PICK plan \in Schedules :
        \E c \in Chosen(status', PlanAt(plan, 0), NoThread) :
            /\ current' = c
            /\ choices' = [PlanAt(plan, 0) EXCEPT !.cursor = 1]
            /\ trace' = IF MaxTrace > 0 THEN <<c>> ELSE <<>>
      BY Zenon DEF Relaunch, PlanAt
<1>6. /\ current' \in Chosen(status', PlanAt(plan, 0), NoThread)
      /\ trace' = IF MaxTrace > 0 THEN <<current'>> ELSE <<>>
      /\ choices' = PlanAt(plan, 1) /\ choices'.plan = plan
      BY <1>5 DEF PlanAt
<1>7. current' \in Threads
      BY <1>6, ChosenCanRun DEF Runnable
<1>8. AsPlanned(h, n, plan)
      BY <1>2, <1>3, SchedulesLead
<1>9. status' = [t \in Threads |-> "Runnable"]
      BY DEF Relaunch
<1>10. h[1] = Start(current')
  <2>1. h[1] = Start(h[1].s.current)
        BY <1>4 DEF History
  <2>2. h[1].s.status = status'
        BY <1>9, <2>1 DEF Start
  <2>3. h[1].s.current \in Chosen(h[1].s.status, PlanAt(plan, 1 - 1), Previous(h, 1))
        BY <1>4, <1>8 DEF AsPlanned
  <2>4. PICK st, a, e : st = status' /\ a = current' /\ e = h[1].s.current
        OBVIOUS
  <2>5. a \in Chosen(st, PlanAt(plan, 0), NoThread) /\ e \in Chosen(st, PlanAt(plan, 0), NoThread)
        BY <1>6, <2>2, <2>3, <2>4 DEF Previous
  <2>6. a = e
        BY <2>5, ChosenAlone
  <2>7. QED BY <2>1, <2>4, <2>6
<1>11. Fresh'
      BY <1>1, <1>7 DEF Relaunch, Fresh
<1>12. FreshSound'
      BY <1>11, FreshIsSound, PTL
<1>13. TypeInv' /\ TurnInv' /\ Here' = Start(current') /\ ~Stopped'
      BY <1>12 DEF FreshSound
<1>14. RecordOK'
      BY <1>1, <1>11 DEF ReplayInv, BaseInv, RecordOK, Fresh
<1>15. Recording'
      BY <1>1 DEF Recording
<1>16. Ending(h, n, first')
  <2>1. aborted \/ Runnable(status) = {}
    <3>1. SUFFICES ASSUME ~aborted, NEW t \in Threads, status[t] = "Runnable" PROVE FALSE
          BY DEF Runnable
    <3>2. current \in Threads
          BY <3>1 DEF ReplayInv, BaseInv, TurnInv, SomeoneHasTurn
    <3>3. QED BY <1>2, <3>1, <3>2, NoThreadIsNone DEF Stopped
  <2>2. Over(Here) /\ Here.s.aborted = aborted /\ Here.s.status = status /\ Here.s.diags = diags
        BY <1>2, HereFields
  <2>3. /\ first'.trace = trace /\ first'.trace_complete = trace_complete
        /\ first' = [trace |-> trace, trace_complete |-> trace_complete, diags |-> diags,
                     status |-> status, aborted |-> aborted]
        BY <1>1 DEF Outcome
  <2>4. QED BY <1>4, <2>1, <2>2, <2>3 DEF Ending
<1>17. Traced(h, 1, trace', trace_complete')
  <2>1. PICK c \in Threads : c = current'
        BY <1>7
  <2>2. h[1].s.current = c
        BY <1>10, <2>1 DEF Start
  <2>3. Traced(h, 1, IF MaxTrace > 0 THEN <<c>> ELSE <<>>, MaxTrace > 0)
        BY <2>2, FirstTraced
  <2>4. QED BY <1>1, <1>6, <2>1, <2>3
<1>18. Steps(1)' = 1
      BY <1>13 DEF Steps
<1>19. OnTheRow(h, n, 1)'
  <2>1. h[1] = Here' /\ choices' = PlanAt(choices'.plan, 1) /\ AsPlanned(h, n, choices'.plan)
        BY <1>6, <1>8, <1>10, <1>13
  <2>2. History(h, n + 1, prog', n)
        BY <1>1, <1>4
  <2>3. QED BY <1>4, <1>16, <1>17, <1>18, <2>1, <2>2 DEF OnTheRow
<1>20. QED BY <1>1, <1>13, <1>14, <1>15, <1>19 DEF ReplayInv, BaseInv, Replaying

\* Every step keeps the invariant.
LEMMA ReplayStepSound == ReplayInv /\ [ReplayNext]_<<vars, replayVars>> => ReplayInv'
<1> SUFFICES ASSUME ReplayInv, [ReplayNext]_<<vars, replayVars>> PROVE ReplayInv'
    OBVIOUS
<1>0. TypeInv /\ TurnInv /\ RecordOK /\ TypeOK /\ pass \in {1, 2}
      BY DEF ReplayInv, BaseInv, TypeInv, RecordOK
<1>1. ASSUME NEW t \in Threads, RecordedCall(t) \/ ReplayedCall(t) \/ InsideCall(t)
      PROVE  ReplayInv'
  <2>1. TypeInv' /\ TypeOK'
        BY <1>0, <1>1, PassStep, TypeStep DEF TypeInv
  <2>2. TurnInv'
        BY <1>0, <1>1, <2>1, PassStep, TurnStep
  <2>3. (Idle \/ HolderStep) /\ RecordOK'
        BY <1>1, PassStepKinds DEF ReplayInv
  <2>4. Recording' /\ Replaying'
    <3>1. CASE Idle
          BY <3>1, IdleKeeps DEF ReplayInv
    <3>2. CASE HolderStep /\ pass = 1
      <4>1. Recording'
            BY <3>2, RecordingStep DEF ReplayInv
      <4>2. pass' = 1
            BY <3>2 DEF HolderStep
      <4>3. QED BY <4>1, <4>2 DEF Replaying
    <3>3. CASE HolderStep /\ pass = 2
      <4>1. Replaying'
            BY <2>2, <3>3, ReplayingStep DEF ReplayInv
      <4>2. pass' = 2
            BY <3>3 DEF HolderStep
      <4>3. QED BY <4>1, <4>2 DEF Recording
    <3>4. QED BY <1>0, <2>3, <3>1, <3>2, <3>3
  <2>5. QED BY <2>1, <2>2, <2>3, <2>4 DEF ReplayInv, BaseInv
<1>2. CASE UNCHANGED <<vars, replayVars>>
  <2>1. Idle /\ RecordOK'
        BY <1>0, <1>2, StutterIsIdle
  <2>2. Recording' /\ Replaying'
        BY <2>1, IdleKeeps DEF ReplayInv
  <2>3. TypeInv' /\ TypeOK'
        BY <1>0, <1>2, TypeStep DEF TypeInv
  <2>4. TurnInv'
        BY <1>0, <1>2, <2>3, TurnStep
  <2>5. QED BY <2>1, <2>2, <2>3, <2>4 DEF ReplayInv, BaseInv
<1>3. QED BY <1>1, <1>2, RelaunchSound, Zenon DEF ReplayNext, Ended

(***************************************************************************)
(* The theorems.                                                           *)
(***************************************************************************)
\* "Running the same seed twice reproduces the same schedule exactly": every
\* decision of a replay is the one made the first time, for every launch, kernel
\* and schedule.
THEOREM ReplayStaysOnTrace == ReplaySpec => []ReplayFollowsTrace
<1>1. ReplayInv => ReplayFollowsTrace
  <2>1. SUFFICES ASSUME ReplayInv, pass = 2 PROVE IsPrefixOf(trace, first.trace)
        BY DEF ReplayFollowsTrace
  <2>2. PICK h, n, d : OnTheRow(h, n, d)
        BY <2>1 DEF ReplayInv, Replaying
  <2>3. PICK p, q : p = trace /\ q = first.trace
        OBVIOUS
  <2>4. /\ n \in Nat /\ d \in Nat /\ 1 <= d /\ d <= n
        /\ Traced(h, d, p, trace_complete) /\ Traced(h, n, q, first.trace_complete)
        BY <2>2, <2>3 DEF OnTheRow, Ending
  <2>5. /\ p \in Seq(Threads) /\ q \in Seq(Threads) /\ Len(p) <= Len(q)
        BY <2>4, KernelAssumption DEF Traced
  <2>6. \A i \in 1 .. Len(p) : p[i] = q[i]
    <3>1. \A i \in 1 .. Len(p) : i \in 1 .. Len(q)
          BY <2>5
    <3>2. QED BY <2>4, <3>1 DEF Traced
  <2>7. p = SubSeq(q, 1, Len(p))
        BY <2>5, <2>6
  <2>8. QED BY <2>3, <2>5, <2>7 DEF IsPrefixOf
<1>2. QED BY <1>1, ReplayInitSound, ReplayStepSound, PTL DEF ReplaySpec

\* A replayed launch ends as the first one did: with the same decisions, the same
\* diagnostics, the same threads finished, aborted or not ("a short schedule is a
\* complete and reproducible description of a run").
THEOREM ReplayEndsAlike == ReplaySpec => []ReplayReproduces
<1>1. ReplayInv => ReplayReproduces
  <2>1. SUFFICES ASSUME ReplayInv, pass = 2, \A t \in Threads : os[t] = "gone"
                 PROVE  Outcome = first
        BY DEF ReplayReproduces
  <2>2. Stopped
        BY <2>1, GoneIsOver DEF ReplayInv
  <2>3. PICK h, n, d : OnTheRow(h, n, d)
        BY <2>1 DEF ReplayInv, Replaying
  <2>4. /\ n \in Nat /\ d \in Nat /\ 1 <= d /\ d <= n /\ h[d + 1] = Here
        /\ History(h, n + 1, prog, n) /\ Ending(h, n, first)
        /\ Traced(h, d, trace, trace_complete)
        BY <2>2, <2>3 DEF OnTheRow, Steps
  <2>5. d = n
    <3>1. Over(h[d + 1])
          BY <2>2, <2>4, HereFields
    <3>2. \A i \in 1 .. n : ~Over(h[i])
          BY <2>4 DEF History
    <3>3. ~(d + 1 \in 1 .. n)
          BY <3>1, <3>2
    <3>4. QED BY <2>4, <3>3
  <2>6. trace = first.trace
    <3>1. PICK p, q : p = trace /\ q = first.trace
          OBVIOUS
    <3>2. Traced(h, n, p, trace_complete) /\ Traced(h, n, q, first.trace_complete)
          BY <2>4, <2>5, <3>1 DEF Ending
    <3>3. /\ p \in Seq(Threads) /\ q \in Seq(Threads) /\ Len(p) = Len(q)
          /\ \A i \in 1 .. Len(p) : p[i] = q[i]
          BY <3>2 DEF Traced
    <3>4. QED BY <3>1, <3>3
  <2>7. trace_complete = first.trace_complete
        BY <2>4, <2>5 DEF Ending, Traced
  <2>8. Here.s.diags = diags /\ Here.s.status = status /\ Here.s.aborted = aborted
        BY HereFields
  <2>9. QED BY <2>4, <2>5, <2>6, <2>7, <2>8 DEF Outcome, Ending
<1>2. QED BY <1>1, ReplayInitSound, ReplayStepSound, PTL DEF ReplaySpec
=============================================================================
