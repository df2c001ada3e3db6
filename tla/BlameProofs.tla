---------------------------- MODULE BlameProofs -----------------------------
(***************************************************************************)
(* What a launch reports, what it means that it reports nothing, and what  *)
(* lanes read in a collective, for every launch.                           *)
(***************************************************************************)
EXTENDS SchedulerProofs, WellFoundedInduction

(***************************************************************************)
(* What a launch that reports nothing means, for every launch: it was not  *)
(* stopped, every thread returned, and the threads of a block and the      *)
(* lanes of a warp passed the same barriers and collectives.               *)
(*                                                                         *)
(* It rests on a stopped launch always saying why.  Most ways to stop one  *)
(* report what they saw; detect_stuck has to find something, and does      *)
(* because a lane marked AtWarp has always recorded what it waits for.     *)
(***************************************************************************)
\* A lane that waits has recorded what for.
WaitsKnown == \A t \in Threads : status[t] = "AtWarp" => warp_wait[t] # NoWait

\* A lane parked at a half of a collective is not one that waits for nothing.
LEMMA WaitIsKnown ==
    ASSUME NEW phase \in Phases, NEW op, NEW mask, NEW at
    PROVE  [phase |-> phase, op |-> op, mask |-> mask, at |-> at] # NoWait
BY DEF Phases, NoWait

(***************************************************************************)
(* detect_stuck                                                            *)
(***************************************************************************)
\* The search for the lowest lane of a nonempty set finds one.
LEMMA LowestExists ==
    ASSUME NEW S \in SUBSET Nat, S # {}
    PROVE  Lowest(S) # {}
<1>1. PICK x \in S : \A y \in S : ~(<<y, x>> \in OpToRel(<, Nat))
      BY NatLessThanWellFounded, WFMin
<1>2. \A y \in S : ~(y < x)
      BY <1>1 DEF OpToRel
<1>3. QED BY <1>2 DEF Lowest

\* detect_stuck reports something whenever nobody can run and somebody has
\* not finished.
LEMMA StuckIsReported ==
    ASSUME NEW st \in [Threads -> Statuses], NEW ww, NEW locs,
           \A i \in Threads : st[i] = "AtWarp" => ww[i] # NoWait,
           Runnable(st) = {}, \E i \in Threads : st[i] # "Finished"
    PROVE  StuckReport(st, ww, locs) # {}
<1>1. PICK i \in Threads : st[i] \in {"AtBarrier", "AtWarp"}
      BY DEF Runnable, Statuses
<1>2. CASE st[i] = "AtBarrier"
  <2>1. BlockOf(i) \in Blocks /\ i \in BlockThreads(BlockOf(i))
        BY ThreadLocated DEF BlockThreads
  <2>2. BarrierDivergence(st, BlockOf(i), locs[BlockOf(i)]) \in StuckBlocks(st, locs)
        BY <1>2, <2>1 DEF StuckBlocks
  <2>3. QED BY <2>2 DEF StuckReport
<1>3. CASE st[i] = "AtWarp"
  <2> DEFINE w == WarpOf(i)
  <2>1. w \in Warps /\ i \in StuckIn(st, w) /\ StuckIn(st, w) \in SUBSET Nat
        BY <1>3, ThreadLocated, NoThreadIsNone DEF StuckIn, WarpThreads
  <2>2. PICK u \in Lowest(StuckIn(st, w)) : TRUE
        BY <2>1, LowestExists
  <2>3. u \in Threads /\ st[u] = "AtWarp"
        BY <2>2 DEF Lowest, StuckIn, WarpThreads
  <2>4. ww[u] # NoWait
        BY <2>3
  <2>5. WarpDivergence(w, ww[u], ArrivedMask(st, ww, w, ww[u])) \in StuckWarps(st, ww)
        BY <2>1, <2>2, <2>4 DEF StuckWarps
  <2>6. QED BY <2>5 DEF StuckReport
<1>4. QED BY <1>1, <1>2, <1>3

(***************************************************************************)
(* Every way to stop a launch reports.                                     *)
(***************************************************************************)
\* hand_off_and_wait, by a thread that has not finished.
LEMMA HandOffReports ==
    ASSUME NEW t \in Threads, ~aborted, HandOffAndWait(t),
           status' \in [Threads -> Statuses], WaitsKnown', status'[t] # "Finished"
    PROVE  AbortHasDiagnostic'
<1>1. CASE aborted' = aborted
      BY <1>1 DEF AbortHasDiagnostic
<1>2. CASE /\ Runnable(status') = {}
           /\ diags' = diags \cup StuckReport(status', warp_wait', barrier_loc')
  <2>1. StuckReport(status', warp_wait', barrier_loc') # {}
        BY <1>2, StuckIsReported DEF WaitsKnown
  <2>2. QED BY <1>2, <2>1 DEF AbortHasDiagnostic
<1>3. QED BY <1>1, <1>2 DEF HandOffAndWait

\* fail, told what went wrong.
LEMMA FailReports ==
    ASSUME NEW t, NEW d, Fail(t, {d})
    PROVE  AbortHasDiagnostic'
BY DEF Fail, AbortHasDiagnostic

\* barrier either goes on or stops the launch with a report.
LEMMA BarrierReports ==
    ASSUME NEW t \in Threads, NEW loc, Barrier(t, loc), TypeOK, TypeOK', WaitsKnown,
           status[t] = "Runnable", ~aborted
    PROVE  WaitsKnown' /\ AbortHasDiagnostic'
<1>0. /\ status \in [Threads -> Statuses] /\ status' \in [Threads -> Statuses]
      BY TypeSplit, TypeSplitNext
<1>1. WaitsKnown'
  <2>1. UNCHANGED warp_wait
        BY DEF Barrier
  <2>2. QED BY <2>1, BarrierAtWarp DEF WaitsKnown
<1>2. HandOffAndWait(t) \/ \E d : Fail(t, {d})
      BY Zenon DEF Barrier
<1>3. status'[t] # "Finished"
  <2> DEFINE st == [status EXCEPT ![t] = "AtBarrier"]
             block == BlockThreads(BlockOf(t))
  <2>1. \/ status' = st
        \/ status' = [i \in Threads |-> IF i \in block THEN "Runnable" ELSE st[i]]
        BY Zenon DEF Barrier
  <2> HIDE DEF block
  <2>2. QED BY <1>0, <2>1
<1>4. QED BY <1>0, <1>1, <1>2, <1>3, HandOffReports, FailReports

\* warp_rendezvous either goes on or stops the launch with a report.
LEMMA RendezvousReports ==
    ASSUME NEW t \in Threads, NEW phase \in Phases, WarpRendezvous(t, phase),
           TypeOK, TypeOK', WaitsKnown, status[t] = "Runnable", ~aborted
    PROVE  WaitsKnown' /\ AbortHasDiagnostic'
<1> DEFINE wait == [phase |-> phase, op |-> call[t].op, mask |-> call[t].mask, at |-> call[t].at]
           st == [status EXCEPT ![t] = "AtWarp"]
           ww == [warp_wait EXCEPT ![t] = wait]
           members == Members(t, wait.mask)
<1>0. /\ status \in [Threads -> Statuses] /\ status' \in [Threads -> Statuses]
      /\ warp_wait \in [Threads -> WaitRecords]
      BY TypeSplit, TypeSplitNext
<1>1. \/ status' = st /\ warp_wait' = ww
      \/ /\ status' = [i \in Threads |-> IF i \in members THEN "Runnable" ELSE st[i]]
         /\ warp_wait' = [i \in Threads |-> IF i \in members THEN NoWait ELSE ww[i]]
      BY Zenon DEF WarpRendezvous
<1>2. wait # NoWait
      BY WaitIsKnown
<1>3. HandOffAndWait(t) \/ \E d : Fail(t, {d})
      BY Zenon DEF WarpRendezvous
<1> HIDE DEF members, wait
<1>4. WaitsKnown'
      BY <1>0, <1>1, <1>2 DEF WaitsKnown
<1>5. status'[t] # "Finished"
      BY <1>0, <1>1
<1>6. QED BY <1>0, <1>3, <1>4, <1>5, HandOffReports, FailReports

\* finish either goes on, ends the launch or stops it with a report.
LEMMA FinishReports ==
    ASSUME NEW t \in Threads, Finish(t), TypeOK, WaitsKnown, ~aborted
    PROVE  WaitsKnown' /\ AbortHasDiagnostic'
<1> DEFINE st == [status EXCEPT ![t] = "Finished"]
<1>0. status \in [Threads -> Statuses] /\ st \in [Threads -> Statuses]
      BY TypeSplit DEF Statuses
<1>1. status' = st /\ UNCHANGED warp_wait
      BY FinishStatus
<1>2. \A i \in Threads : st[i] = "AtWarp" => warp_wait[i] # NoWait
      BY <1>0 DEF WaitsKnown
<1>3. WaitsKnown'
      BY <1>1, <1>2 DEF WaitsKnown
<1> HIDE DEF st
<1>4. CASE /\ Runnable(st) = {} /\ \E i \in Threads : st[i] # "Finished"
           /\ diags' = diags \cup StuckReport(st, warp_wait, barrier_loc)
  <2>1. StuckReport(st, warp_wait, barrier_loc) # {}
        BY <1>0, <1>2, <1>4, StuckIsReported
  <2>2. QED BY <1>3, <1>4, <2>1 DEF AbortHasDiagnostic
<1>5. CASE UNCHANGED aborted
      BY <1>3, <1>5 DEF AbortHasDiagnostic
<1>6. CASE \E d : Fail(t, {d})
      BY <1>3, <1>6, FailReports
<1>7. QED BY <1>4, <1>5, <1>6, Zenon DEF Finish, st

(***************************************************************************)
(* The invariant.                                                          *)
(***************************************************************************)
\* Every step keeps waits known and stops a launch only with a report.
LEMMA ReportStep ==
    TypeOK /\ TypeOK' /\ TurnInv /\ WaitsKnown /\ AbortHasDiagnostic /\ [Next]_vars
        => WaitsKnown' /\ AbortHasDiagnostic'
<1> SUFFICES ASSUME TypeOK, TypeOK', TurnInv, WaitsKnown, AbortHasDiagnostic, [Next]_vars
             PROVE  WaitsKnown' /\ AbortHasDiagnostic'
    OBVIOUS
<1>0. status' \in [Threads -> Statuses]
      BY TypeSplitNext
<1>1. ASSUME UNCHANGED waitVars PROVE WaitsKnown'
      BY <1>1 DEF WaitsKnown, waitVars
<1>2. ASSUME UNCHANGED <<aborted, diags>> PROVE AbortHasDiagnostic'
      BY <1>2 DEF AbortHasDiagnostic
<1>3. ASSUME NEW t \in Threads, os[t] = "running", UNCHANGED waitVars, HandOffAndWait(t)
      PROVE  WaitsKnown' /\ AbortHasDiagnostic'
  <2>1. ~aborted /\ status'[t] # "Finished"
        BY <1>3, RunningAlone DEF waitVars
  <2>2. QED BY <1>0, <1>1, <1>3, <2>1, HandOffReports
<1>4. ASSUME NEW t \in Threads, Step(t) PROVE WaitsKnown' /\ AbortHasDiagnostic'
  <2>1. CASE Resume(t)
        BY <1>1, <1>2, <2>1 DEF Resume
  <2>2. CASE YieldNow(t)
        BY <1>3, <2>2 DEF YieldNow, InKernel
  <2>3. ASSUME NEW kind, Abort(t, kind) PROVE WaitsKnown' /\ AbortHasDiagnostic'
        BY <1>1, <2>3, FailReports DEF Abort
  <2>4. ASSUME NEW loc, Barrier(t, loc) PROVE WaitsKnown' /\ AbortHasDiagnostic'
        BY <2>4, BarrierReports, RunningAlone DEF Barrier, InKernel
  <2>5. ASSUME NEW op, NEW mask, NEW at, Collective(t, op, mask, at)
        PROVE  WaitsKnown' /\ AbortHasDiagnostic'
        BY <1>3, <2>5 DEF Collective, InKernel
  <2>6. CASE BadMask(t) \/ CombinePanics(t)
        BY <1>1, <2>6, FailReports DEF BadMask, CombinePanics
  <2>7. CASE Arrive(t)
        BY <2>7, RendezvousReports, RunningAlone DEF Arrive, Phases
  <2>8. CASE Depart(t)
        BY <2>8, RendezvousReports, RunningAlone DEF Depart, Phases
  <2>9. CASE Finish(t)
        BY <2>9, FinishReports, FinishStatus, RunningAlone DEF InKernel
  <2>10. QED BY <1>4, <2>1, <2>2, <2>3, <2>4, <2>5, <2>6, <2>7, <2>8, <2>9 DEF Step
<1>5. ASSUME NEW t \in Threads, SpuriousWakeup(t) PROVE WaitsKnown' /\ AbortHasDiagnostic'
      BY <1>1, <1>2, <1>5 DEF SpuriousWakeup
<1>6. CASE UNCHANGED vars
      BY <1>1, <1>2, <1>6 DEF vars, schedVars
<1>7. QED BY <1>4, <1>5, <1>6 DEF Next, Joined

\* A launch starts live, with nobody waiting.
LEMMA ReportInit == Init => WaitsKnown /\ AbortHasDiagnostic
BY DEF Init, WaitsKnown, AbortHasDiagnostic

\* With the turn and the counts of barriers and collectives, that makes an
\* uneventful launch a complete one.
LEMMA CleanFollows ==
    TurnInv /\ AbortHasDiagnostic /\ BarrierLockstep /\ WarpLockstep => CleanLaunch
<1> SUFFICES ASSUME TurnInv, AbortHasDiagnostic, BarrierLockstep, WarpLockstep,
                    \A t \in Threads : os[t] = "gone", diags = {}
             PROVE  /\ \A t \in Threads : status[t] = "Finished"
                    /\ \A t, u \in Threads : BlockOf(t) = BlockOf(u) =>
                            barriersCalled[t] = barriersCalled[u]
                    /\ \A t, u \in Threads : WarpOf(t) = WarpOf(u) =>
                            departsCalled[t] = departsCalled[u]
    BY DEF CleanLaunch
<1>1. \A t \in Threads : status[t] = "Finished"
      BY DEF AbortHasDiagnostic, TurnInv, GoneFinished
<1>2. \A t \in Threads : barriersCalled[t] = barrier_gen[BlockOf(t)] + 0
      BY <1>1 DEF BarrierLockstep
<1>3. \A t \in Threads : departsCalled[t] = warp_gen[WarpOf(t)] + 0
      BY <1>1 DEF WarpLockstep, AtFullDepart
<1>4. QED BY <1>1, <1>2, <1>3

(***************************************************************************)
(* Theorems.                                                               *)
(***************************************************************************)
\* An aborted launch holds a diagnostic, and a launch that ends without one
\* ran every thread to the end of the kernel through the same barriers and
\* full-warp collectives, whatever the kernel, the geometry and the schedule.
THEOREM CleanIsComplete == Spec => [](AbortHasDiagnostic /\ CleanLaunch)
<1>1. TypeInv => TypeOK
      BY DEF TypeInv
<1>2. QED BY <1>1, TypeInit, TypeStep, TurnInit, TurnStep, LockstepInit,
             BarrierLockstepStep, WarpLockstepStep, ReportInit, ReportStep,
             CleanFollows, PTL DEF Spec

\* No launch stops without a diagnostic: whenever nobody can run, detect_stuck
\* finds a warp or a block to report.
THEOREM AbortExplained == Spec => []AbortHasDiagnostic
BY CleanIsComplete, PTL

(***************************************************************************)
(* Warp collectives and what is said when one, or a barrier, cannot        *)
(* complete, for every launch: a lane inside a collective reads the values *)
(* of that very collective, and a divergence names somebody who is missing.*)
(***************************************************************************)
(***************************************************************************)
(* Where a thread stands.  A lane past its first rendezvous has published  *)
(* its value and is of its own mask, and what it waits for is the half of  *)
(* its own call that its position says.                                    *)
(***************************************************************************)
\* What a lane that has reached a half of its collective waits for.
WaitOf(t, phase) ==
    [phase |-> phase, op |-> call[t].op, mask |-> call[t].mask, at |-> call[t].at]

\* Between publishing a value and leaving the collective.
InCollective(t) == pc[t] = "combine" \/ status[t] = "AtWarp"

CallFollowed(t) ==
    /\ status[t] \in {"AtBarrier", "Finished"} => pc[t] = "kernel"
    /\ pc[t] = "arrive" => status[t] = "Runnable"
    /\ InCollective(t) => slot[t] = call[t].value /\ LaneOf(t) \in call[t].mask
    /\ status[t] = "AtWarp" =>
          warp_wait[t] = WaitOf(t, IF pc[t] = "combine" THEN "arrive" ELSE "depart")

CallsFollowed == \A t \in Threads : CallFollowed(t)

\* warp_rendezvous parks the caller, or releases all members if each of them
\* waits at the same half of the same call.
LEMMA RendezvousOutcome ==
    ASSUME NEW t \in Threads, NEW phase, WarpRendezvous(t, phase)
    PROVE  LET st == [status EXCEPT ![t] = "AtWarp"]
               ww == [warp_wait EXCEPT ![t] = WaitOf(t, phase)]
               members == Members(t, call[t].mask)
           IN  \/ status' = st /\ warp_wait' = ww
               \/ /\ \A u \in members : st[u] = "AtWarp" /\ ww[u] = WaitOf(t, phase)
                  /\ status' = [i \in Threads |-> IF i \in members THEN "Runnable" ELSE st[i]]
                  /\ warp_wait' = [i \in Threads |-> IF i \in members THEN NoWait ELSE ww[i]]
<1>1. WaitOf(t, phase).mask = call[t].mask
      BY DEF WaitOf
<1>2. QED BY <1>1, Zenon DEF WarpRendezvous, WaitOf

\* A lane's mask-mates are of its warp.
LEMMA MembersAre ==
    ASSUME NEW t, NEW mask, NEW u
    PROVE  u \in Members(t, mask) <=> u \in Threads /\ WarpOf(u) = WarpOf(t) /\ LaneOf(u) \in mask
BY DEF Members, WarpThreads

\* barrier parks the caller, or releases the block if all of it waits.
LEMMA BarrierOutcome ==
    ASSUME NEW t \in Threads, NEW loc, Barrier(t, loc)
    PROVE  LET st == [status EXCEPT ![t] = "AtBarrier"]
               block == BlockThreads(BlockOf(t))
           IN  \/ status' = st
               \/ /\ \A u \in block : st[u] = "AtBarrier"
                  /\ status' = [i \in Threads |-> IF i \in block THEN "Runnable" ELSE st[i]]
BY Zenon DEF Barrier

\* The first rendezvous of a collective keeps threads where their calls say.
LEMMA ArriveFollows ==
    ASSUME TypeOK, CallsFollowed, NEW t \in Threads, Arrive(t), status[t] = "Runnable"
    PROVE  CallsFollowed'
<1> DEFINE st == [status EXCEPT ![t] = "AtWarp"]
           ww == [warp_wait EXCEPT ![t] = WaitOf(t, "arrive")]
           members == Members(t, call[t].mask)
<1>1. /\ status \in [Threads -> Statuses] /\ warp_wait \in [Threads -> WaitRecords]
      /\ pc \in [Threads -> {"kernel", "arrive", "combine"}] /\ slot \in [Threads -> Values]
      BY TypeSplit
<1>2. /\ WarpRendezvous(t, "arrive") /\ UNCHANGED call
      /\ slot' = [slot EXCEPT ![t] = call[t].value]
      /\ pc' = [pc EXCEPT ![t] = "combine"] /\ LaneOf(t) \in call[t].mask
      BY DEF Arrive, MaskOk
<1>3. \/ status' = st /\ warp_wait' = ww
      \/ /\ \A u \in members : st[u] = "AtWarp" /\ ww[u] = WaitOf(t, "arrive")
         /\ status' = [i \in Threads |-> IF i \in members THEN "Runnable" ELSE st[i]]
         /\ warp_wait' = [i \in Threads |-> IF i \in members THEN NoWait ELSE ww[i]]
      BY <1>2, RendezvousOutcome
<1>4. t \in members
      BY <1>2, MembersAre
<1> HIDE DEF members
<1>5. SUFFICES ASSUME NEW u \in Threads PROVE CallFollowed(u)'
      BY DEF CallsFollowed
<1>6. CallFollowed(u)
      BY DEF CallsFollowed
<1>7. CASE u = t
      BY <1>1, <1>2, <1>3, <1>4, <1>7 DEF CallFollowed, InCollective, WaitOf
<1>8. CASE u # t
      BY <1>1, <1>2, <1>3, <1>6, <1>8 DEF CallFollowed, InCollective, WaitOf
<1>9. QED BY <1>7, <1>8

\* The second rendezvous of a collective keeps threads where their calls say.
LEMMA DepartFollows ==
    ASSUME TypeOK, CallsFollowed, NEW t \in Threads, Depart(t), status[t] = "Runnable"
    PROVE  CallsFollowed'
<1> DEFINE st == [status EXCEPT ![t] = "AtWarp"]
           ww == [warp_wait EXCEPT ![t] = WaitOf(t, "depart")]
           members == Members(t, call[t].mask)
<1>1. /\ status \in [Threads -> Statuses] /\ warp_wait \in [Threads -> WaitRecords]
      /\ pc \in [Threads -> {"kernel", "arrive", "combine"}]
      BY TypeSplit
<1>2. /\ WarpRendezvous(t, "depart") /\ UNCHANGED <<call, slot>>
      /\ pc[t] = "combine" /\ pc' = [pc EXCEPT ![t] = "kernel"]
      BY DEF Depart
<1>3. \/ status' = st /\ warp_wait' = ww
      \/ /\ \A u \in members : st[u] = "AtWarp" /\ ww[u] = WaitOf(t, "depart")
         /\ status' = [i \in Threads |-> IF i \in members THEN "Runnable" ELSE st[i]]
         /\ warp_wait' = [i \in Threads |-> IF i \in members THEN NoWait ELSE ww[i]]
      BY <1>2, RendezvousOutcome
<1>4. CallFollowed(t) /\ t \in members
      BY <1>2, MembersAre DEF CallsFollowed, CallFollowed, InCollective
<1> HIDE DEF members
<1>5. SUFFICES ASSUME NEW u \in Threads PROVE CallFollowed(u)'
      BY DEF CallsFollowed
<1>6. CallFollowed(u)
      BY DEF CallsFollowed
<1>7. CASE u = t
      BY <1>1, <1>2, <1>3, <1>4, <1>7 DEF CallFollowed, InCollective, WaitOf
<1>8. CASE u # t
      BY <1>1, <1>2, <1>3, <1>6, <1>8 DEF CallFollowed, InCollective, WaitOf
<1>9. QED BY <1>7, <1>8

\* Every step keeps threads where their calls say.
LEMMA FollowStep == TypeOK /\ TurnInv /\ CallsFollowed /\ [Next]_vars => CallsFollowed'
<1> SUFFICES ASSUME TypeOK, TurnInv, CallsFollowed, [Next]_vars PROVE CallsFollowed'
    OBVIOUS
<1>0. /\ status \in [Threads -> Statuses] /\ pc \in [Threads -> {"kernel", "arrive", "combine"}]
      /\ call \in [Threads -> CallRecords]
      BY TypeSplit
<1>1. ASSUME UNCHANGED <<status, warp_wait, pc, call, slot>> PROVE CallsFollowed'
      BY <1>1 DEF CallsFollowed, CallFollowed, InCollective, WaitOf
<1>2. ASSUME NEW t \in Threads, NEW op, NEW mask, NEW at, Collective(t, op, mask, at)
      PROVE  CallsFollowed'
  <2>1. /\ pc[t] = "kernel" /\ pc' = [pc EXCEPT ![t] = "arrive"] /\ status[t] = "Runnable"
        /\ UNCHANGED <<status, warp_wait, slot>>
        /\ call' = [call EXCEPT ![t] = [op |-> op, mask |-> mask, at |-> at, value |-> ops'[t]]]
        BY <1>2, RunningAlone DEF Collective, InKernel, waitVars
  <2>2. QED BY <1>0, <2>1 DEF CallsFollowed, CallFollowed, InCollective, WaitOf
<1>3. ASSUME NEW t \in Threads, NEW loc, Barrier(t, loc) PROVE CallsFollowed'
  <2>1. /\ pc[t] = "kernel" /\ status[t] = "Runnable"
        /\ UNCHANGED <<warp_wait, pc, call, slot>>
        BY <1>3, RunningAlone DEF Barrier, InKernel
  <2> DEFINE st == [status EXCEPT ![t] = "AtBarrier"]
             block == BlockThreads(BlockOf(t))
  <2>2. \/ status' = st
        \/ /\ \A u \in block : st[u] = "AtBarrier"
           /\ status' = [i \in Threads |-> IF i \in block THEN "Runnable" ELSE st[i]]
        BY <1>3, BarrierOutcome
  <2> HIDE DEF block
  <2>3. SUFFICES ASSUME NEW u \in Threads PROVE CallFollowed(u)'
        BY DEF CallsFollowed
  <2>4. CallFollowed(u) /\ CallFollowed(t)
        BY DEF CallsFollowed
  <2>5. QED BY <1>0, <2>1, <2>2, <2>4 DEF CallFollowed, InCollective, WaitOf
<1>4. ASSUME NEW t \in Threads, Finish(t) PROVE CallsFollowed'
  <2>1. /\ pc[t] = "kernel" /\ status[t] = "Runnable"
        /\ UNCHANGED <<warp_wait, pc, call, slot>>
        /\ status' = [status EXCEPT ![t] = "Finished"]
        BY <1>4, FinishStatus, RunningAlone DEF InKernel, kernelVars
  <2>2. QED BY <1>0, <2>1 DEF CallsFollowed, CallFollowed, InCollective, WaitOf
<1>5. ASSUME NEW t \in Threads, Step(t) PROVE CallsFollowed'
  <2>1. CASE Resume(t)
        BY <1>1, <2>1 DEF Resume, waitVars, kernelVars
  <2>2. CASE YieldNow(t)
        BY <1>1, <2>2 DEF YieldNow, waitVars
  <2>3. ASSUME NEW kind, Abort(t, kind) PROVE CallsFollowed'
        BY <1>1, <2>3 DEF Abort, waitVars, kernelVars
  <2>4. CASE BadMask(t) \/ CombinePanics(t)
        BY <1>1, <2>4 DEF BadMask, CombinePanics, waitVars, kernelVars
  <2>5. CASE Arrive(t)
        BY <2>5, ArriveFollows, RunningAlone DEF Arrive
  <2>6. CASE Depart(t)
        BY <2>6, DepartFollows, RunningAlone DEF Depart
  <2>7. QED BY <1>2, <1>3, <1>4, <1>5, <2>1, <2>2, <2>3, <2>4, <2>5, <2>6 DEF Step
<1>6. ASSUME NEW t \in Threads, SpuriousWakeup(t) PROVE CallsFollowed'
      BY <1>1, <1>6 DEF SpuriousWakeup, waitVars, kernelVars
<1>7. CASE UNCHANGED vars
      BY <1>1, <1>7 DEF vars, waitVars, kernelVars
<1>8. QED BY <1>5, <1>6, <1>7 DEF Next, Joined

(***************************************************************************)
(* The exchange.                                                           *)
(***************************************************************************)
\* A step that touches nobody inside a collective, and takes nobody past a
\* first rendezvous, disturbs no exchange.
LEMMA NoExchangeStep ==
    ASSUME ExchangeSound,
           \A x \in Threads :
              IF InCollective(x)
              THEN /\ status'[x] = status[x] /\ warp_wait'[x] = warp_wait[x]
                   /\ pc'[x] = pc[x] /\ call'[x] = call[x] /\ slot'[x] = slot[x]
              ELSE pc'[x] # "combine"
    PROVE  ExchangeSound'
<1> SUFFICES ASSUME NEW x \in Threads, pc'[x] = "combine", status'[x] = "Runnable",
                    NEW u \in Members(x, call'[x].mask)
             PROVE  /\ slot'[u] = call'[u].value
                    /\ call'[u].op = call'[x].op /\ call'[u].mask = call'[x].mask
                    /\ call'[u].at = call'[x].at
                    /\ \/ pc'[u] = "combine" /\ status'[u] = "Runnable"
                       \/ status'[u] = "AtWarp" /\ warp_wait'[u].phase = "depart"
    BY DEF ExchangeSound
<1>1. /\ pc[x] = "combine" /\ status[x] = "Runnable" /\ call'[x] = call[x]
      BY DEF InCollective
<1>2. u \in Threads /\ u \in Members(x, call[x].mask)
      BY <1>1, MembersAre
<1>3. QED BY <1>1, <1>2 DEF ExchangeSound, InCollective

\* The first rendezvous: those it releases have all published to this call,
\* and nobody who is still in an earlier one has the caller for a mask-mate.
LEMMA ArriveExchanges ==
    ASSUME TypeOK, CallsFollowed, ExchangeSound, NEW t \in Threads, Arrive(t),
           status[t] = "Runnable"
    PROVE  ExchangeSound'
<1> DEFINE st == [status EXCEPT ![t] = "AtWarp"]
           ww == [warp_wait EXCEPT ![t] = WaitOf(t, "arrive")]
           members == Members(t, call[t].mask)
<1>1. /\ status \in [Threads -> Statuses] /\ warp_wait \in [Threads -> WaitRecords]
      /\ pc \in [Threads -> {"kernel", "arrive", "combine"}] /\ slot \in [Threads -> Values]
      BY TypeSplit
<1>2. /\ WarpRendezvous(t, "arrive") /\ UNCHANGED call
      /\ slot' = [slot EXCEPT ![t] = call[t].value]
      /\ pc[t] = "arrive"
      /\ pc' = [pc EXCEPT ![t] = "combine"] /\ LaneOf(t) \in call[t].mask
      BY DEF Arrive, MaskOk
<1>3. \/ status' = st /\ warp_wait' = ww
      \/ /\ \A u \in members : st[u] = "AtWarp" /\ ww[u] = WaitOf(t, "arrive")
         /\ status' = [i \in Threads |-> IF i \in members THEN "Runnable" ELSE st[i]]
         /\ warp_wait' = [i \in Threads |-> IF i \in members THEN NoWait ELSE ww[i]]
      BY <1>2, RendezvousOutcome
<1>4. t \in members /\ members \subseteq Threads
      BY <1>2, MembersAre
<1> SUFFICES ASSUME NEW x \in Threads, pc'[x] = "combine", status'[x] = "Runnable",
                    NEW u \in Members(x, call'[x].mask)
             PROVE  /\ slot'[u] = call'[u].value
                    /\ call'[u].op = call'[x].op /\ call'[u].mask = call'[x].mask
                    /\ call'[u].at = call'[x].at
                    /\ \/ pc'[u] = "combine" /\ status'[u] = "Runnable"
                       \/ status'[u] = "AtWarp" /\ warp_wait'[u].phase = "depart"
    BY DEF ExchangeSound
<1>5. u \in Threads /\ u \in Members(x, call[x].mask)
      BY <1>2, MembersAre
<1>6. CASE status' = st /\ warp_wait' = ww
  <2>1. x # t /\ pc[x] = "combine" /\ status[x] = "Runnable"
        BY <1>1, <1>2, <1>6
  <2>2. /\ slot[u] = call[u].value /\ call[u].op = call[x].op /\ call[u].mask = call[x].mask
        /\ call[u].at = call[x].at
        /\ \/ pc[u] = "combine" /\ status[u] = "Runnable"
           \/ status[u] = "AtWarp" /\ warp_wait[u].phase = "depart"
        BY <1>5, <2>1 DEF ExchangeSound
  <2>3. u # t
        BY <1>2, <2>2
  <2>4. QED BY <1>1, <1>2, <1>5, <1>6, <2>2, <2>3
<1>7. CASE /\ \A v \in members : st[v] = "AtWarp" /\ ww[v] = WaitOf(t, "arrive")
           /\ status' = [i \in Threads |-> IF i \in members THEN "Runnable" ELSE st[i]]
           /\ warp_wait' = [i \in Threads |-> IF i \in members THEN NoWait ELSE ww[i]]
  <2>1. ASSUME NEW v \in members, v # t
        PROVE  /\ status[v] = "AtWarp" /\ warp_wait[v] = WaitOf(t, "arrive") /\ pc[v] = "combine"
               /\ slot[v] = call[v].value
               /\ call[v].op = call[t].op /\ call[v].mask = call[t].mask
               /\ call[v].at = call[t].at
    <3>1. v \in Threads /\ CallFollowed(v)
          BY <1>4 DEF CallsFollowed
    <3>2. status[v] = "AtWarp" /\ warp_wait[v] = WaitOf(t, "arrive")
          BY <1>1, <1>7, <2>1, <3>1
    <3>3. QED BY <3>1, <3>2 DEF CallFollowed, InCollective, WaitOf
  <2>2. CASE x \in members
    <3>1. call[x].op = call[t].op /\ call[x].mask = call[t].mask /\ call[x].at = call[t].at
          BY <2>1, <2>2
    <3>2. u \in members
          BY <1>5, <2>2, <3>1, MembersAre
    <3>3. call[u].op = call[t].op /\ call[u].mask = call[t].mask /\ call[u].at = call[t].at
          BY <2>1, <3>2
    <3>4. slot'[u] = call[u].value /\ pc'[u] = "combine" /\ status'[u] = "Runnable"
          BY <1>1, <1>2, <1>5, <1>7, <2>1, <3>2
    <3>5. QED BY <1>2, <3>1, <3>3, <3>4
  <2>3. CASE x \notin members
    <3>1. x # t /\ pc[x] = "combine" /\ status[x] = "Runnable"
          BY <1>1, <1>2, <1>4, <1>7, <2>3
    <3>2. /\ slot[u] = call[u].value /\ call[u].op = call[x].op /\ call[u].mask = call[x].mask
          /\ call[u].at = call[x].at
          /\ \/ pc[u] = "combine" /\ status[u] = "Runnable"
             \/ status[u] = "AtWarp" /\ warp_wait[u].phase = "depart"
          BY <1>5, <3>1 DEF ExchangeSound
    <3>3. u # t
          BY <1>2, <3>2
    <3>4. u \notin members
          BY <2>1, <3>2, <3>3 DEF WaitOf
    <3>5. QED BY <1>1, <1>2, <1>5, <1>7, <3>2, <3>3, <3>4
  <2>4. QED BY <2>2, <2>3
<1>8. QED BY <1>3, <1>6, <1>7

\* The second rendezvous: a lane that still reads has every mask-mate in the
\* same call, so that none of them is released before it.
LEMMA DepartExchanges ==
    ASSUME TypeOK, CallsFollowed, ExchangeSound, NEW t \in Threads, Depart(t),
           status[t] = "Runnable"
    PROVE  ExchangeSound'
<1> DEFINE st == [status EXCEPT ![t] = "AtWarp"]
           ww == [warp_wait EXCEPT ![t] = WaitOf(t, "depart")]
           members == Members(t, call[t].mask)
<1>1. /\ status \in [Threads -> Statuses] /\ warp_wait \in [Threads -> WaitRecords]
      /\ pc \in [Threads -> {"kernel", "arrive", "combine"}]
      BY TypeSplit
<1>2. /\ WarpRendezvous(t, "depart") /\ UNCHANGED <<call, slot>>
      /\ pc[t] = "combine" /\ pc' = [pc EXCEPT ![t] = "kernel"]
      BY DEF Depart
<1>3. \/ status' = st /\ warp_wait' = ww
      \/ /\ \A u \in members : st[u] = "AtWarp" /\ ww[u] = WaitOf(t, "depart")
         /\ status' = [i \in Threads |-> IF i \in members THEN "Runnable" ELSE st[i]]
         /\ warp_wait' = [i \in Threads |-> IF i \in members THEN NoWait ELSE ww[i]]
      BY <1>2, RendezvousOutcome
<1> SUFFICES ASSUME NEW x \in Threads, pc'[x] = "combine", status'[x] = "Runnable",
                    NEW u \in Members(x, call'[x].mask)
             PROVE  /\ slot'[u] = call'[u].value
                    /\ call'[u].op = call'[x].op /\ call'[u].mask = call'[x].mask
                    /\ call'[u].at = call'[x].at
                    /\ \/ pc'[u] = "combine" /\ status'[u] = "Runnable"
                       \/ status'[u] = "AtWarp" /\ warp_wait'[u].phase = "depart"
    BY DEF ExchangeSound
<1>4. u \in Threads /\ u \in Members(x, call[x].mask)
      BY <1>2, MembersAre
<1>5. x # t /\ pc[x] = "combine" /\ CallFollowed(x) /\ CallFollowed(u)
      BY <1>1, <1>2, <1>4 DEF CallsFollowed
<1>6. CASE status' = st /\ warp_wait' = ww
  <2>1. status[x] = "Runnable"
        BY <1>1, <1>5, <1>6
  <2>2. /\ slot[u] = call[u].value /\ call[u].op = call[x].op /\ call[u].mask = call[x].mask
        /\ call[u].at = call[x].at
        /\ \/ pc[u] = "combine" /\ status[u] = "Runnable"
           \/ status[u] = "AtWarp" /\ warp_wait[u].phase = "depart"
        BY <1>4, <1>5, <2>1 DEF ExchangeSound
  <2>3. CASE u = t
        BY <1>1, <1>2, <1>6, <2>2, <2>3 DEF WaitOf
  <2>4. CASE u # t
        BY <1>1, <1>2, <1>4, <1>6, <2>2, <2>4
  <2>5. QED BY <2>3, <2>4
<1>7. CASE /\ \A v \in members : st[v] = "AtWarp" /\ ww[v] = WaitOf(t, "depart")
           /\ status' = [i \in Threads |-> IF i \in members THEN "Runnable" ELSE st[i]]
           /\ warp_wait' = [i \in Threads |-> IF i \in members THEN NoWait ELSE ww[i]]
  <2>1. x \notin members
    <3>1. SUFFICES ASSUME x \in members PROVE FALSE
          OBVIOUS
    <3>2. status[x] = "AtWarp" /\ warp_wait[x] = WaitOf(t, "depart")
          BY <1>1, <1>5, <1>7, <3>1
    <3>3. QED BY <1>5, <3>2 DEF CallFollowed, WaitOf
  <2>2. status[x] = "Runnable"
        BY <1>1, <1>5, <1>7, <2>1
  <2>3. /\ slot[u] = call[u].value /\ call[u].op = call[x].op /\ call[u].mask = call[x].mask
        /\ call[u].at = call[x].at
        /\ \/ pc[u] = "combine" /\ status[u] = "Runnable"
           \/ status[u] = "AtWarp" /\ warp_wait[u].phase = "depart"
        BY <1>4, <1>5, <2>2 DEF ExchangeSound
  <2>4. u \notin members
    <3>1. SUFFICES ASSUME u \in members PROVE FALSE
          OBVIOUS
    <3>2. u # t => status[u] = "AtWarp" /\ warp_wait[u] = WaitOf(t, "depart")
          BY <1>1, <1>4, <1>7, <3>1
    <3>3. call[u].mask = call[t].mask
          BY <1>5, <3>2 DEF CallFollowed, WaitOf
    <3>4. LaneOf(x) \in call[t].mask
          BY <1>5, <2>3, <3>3 DEF CallFollowed, InCollective
    <3>5. WarpOf(x) = WarpOf(t)
          BY <1>4, <3>1, MembersAre
    <3>6. QED BY <2>1, <3>4, <3>5, MembersAre
  <2>5. u # t
        BY <1>4, <1>5, <2>4, <1>2, MembersAre DEF CallFollowed, InCollective
  <2>6. QED BY <1>1, <1>2, <1>4, <1>7, <2>3, <2>4, <2>5
<1>8. QED BY <1>3, <1>6, <1>7

\* Every step keeps the exchange sound.
LEMMA ExchangeStep ==
    TypeOK /\ TurnInv /\ CallsFollowed /\ ExchangeSound /\ [Next]_vars => ExchangeSound'
<1> SUFFICES ASSUME TypeOK, TurnInv, CallsFollowed, ExchangeSound, [Next]_vars
             PROVE  ExchangeSound'
    OBVIOUS
<1>0. /\ status \in [Threads -> Statuses] /\ pc \in [Threads -> {"kernel", "arrive", "combine"}]
      /\ call \in [Threads -> CallRecords]
      BY TypeSplit
<1>1. ASSUME UNCHANGED <<status, warp_wait, pc, call, slot>> PROVE ExchangeSound'
      BY <1>1, NoExchangeStep DEF InCollective
<1>2. ASSUME NEW t \in Threads, NEW op, NEW mask, NEW at, Collective(t, op, mask, at)
      PROVE  ExchangeSound'
  <2>1. /\ pc[t] = "kernel" /\ pc' = [pc EXCEPT ![t] = "arrive"] /\ status[t] = "Runnable"
        /\ UNCHANGED <<status, warp_wait, slot>>
        /\ call' = [call EXCEPT ![t] = [op |-> op, mask |-> mask, at |-> at, value |-> ops'[t]]]
        BY <1>2, RunningAlone DEF Collective, InKernel, waitVars
  <2>2. QED BY <1>0, <2>1, NoExchangeStep DEF InCollective
<1>3. ASSUME NEW t \in Threads, NEW loc, Barrier(t, loc) PROVE ExchangeSound'
  <2>1. /\ pc[t] = "kernel" /\ status[t] = "Runnable"
        /\ UNCHANGED <<warp_wait, pc, call, slot>>
        BY <1>3, RunningAlone DEF Barrier, InKernel
  <2> DEFINE st == [status EXCEPT ![t] = "AtBarrier"]
             block == BlockThreads(BlockOf(t))
  <2>2. \/ status' = st
        \/ /\ \A u \in block : st[u] = "AtBarrier"
           /\ status' = [i \in Threads |-> IF i \in block THEN "Runnable" ELSE st[i]]
        BY <1>3, BarrierOutcome
  <2> HIDE DEF block
  <2>3. ASSUME NEW x \in Threads, InCollective(x) PROVE status'[x] = status[x]
    <3>1. CallFollowed(x)
          BY DEF CallsFollowed
    <3>2. x # t /\ status[x] # "AtBarrier"
          BY <2>1, <2>3, <3>1 DEF CallFollowed, InCollective
    <3>3. QED BY <1>0, <2>2, <3>2
  <2>4. QED BY <2>1, <2>3, NoExchangeStep DEF InCollective
<1>4. ASSUME NEW t \in Threads, Finish(t) PROVE ExchangeSound'
  <2>1. /\ pc[t] = "kernel" /\ status[t] = "Runnable"
        /\ UNCHANGED <<warp_wait, pc, call, slot>>
        /\ status' = [status EXCEPT ![t] = "Finished"]
        BY <1>4, FinishStatus, RunningAlone DEF InKernel, kernelVars
  <2>2. QED BY <1>0, <2>1, NoExchangeStep DEF InCollective
<1>5. ASSUME NEW t \in Threads, Step(t) PROVE ExchangeSound'
  <2>1. CASE Resume(t)
        BY <1>1, <2>1 DEF Resume, waitVars, kernelVars
  <2>2. CASE YieldNow(t)
        BY <1>1, <2>2 DEF YieldNow, waitVars
  <2>3. ASSUME NEW kind, Abort(t, kind) PROVE ExchangeSound'
        BY <1>1, <2>3 DEF Abort, waitVars, kernelVars
  <2>4. CASE BadMask(t) \/ CombinePanics(t)
        BY <1>1, <2>4 DEF BadMask, CombinePanics, waitVars, kernelVars
  <2>5. CASE Arrive(t)
        BY <2>5, ArriveExchanges, RunningAlone DEF Arrive
  <2>6. CASE Depart(t)
        BY <2>6, DepartExchanges, RunningAlone DEF Depart
  <2>7. QED BY <1>2, <1>3, <1>4, <1>5, <2>1, <2>2, <2>3, <2>4, <2>5, <2>6 DEF Step
<1>6. ASSUME NEW t \in Threads, SpuriousWakeup(t) PROVE ExchangeSound'
      BY <1>1, <1>6 DEF SpuriousWakeup, waitVars, kernelVars
<1>7. CASE UNCHANGED vars
      BY <1>1, <1>7 DEF vars, waitVars, kernelVars
<1>8. QED BY <1>5, <1>6, <1>7 DEF Next, Joined

\* Nobody is in a collective when a launch starts.
LEMMA ExchangeInit == Init => CallsFollowed /\ ExchangeSound
BY DEF Init, CallsFollowed, CallFollowed, InCollective, ExchangeSound

(***************************************************************************)
(* Lanes.                                                                  *)
(***************************************************************************)
\* A number is known by its quotient and its remainder.
LEMMA DivMod ==
    ASSUME NEW x \in Nat, NEW y \in Nat, NEW n \in Nat \ {0}, x \div n = y \div n, x % n = y % n
    PROVE  x = y
<1>1. x = n * (x \div n) + (x % n)
      OBVIOUS
<1>2. y = n * (y \div n) + (y % n)
      OBVIOUS
<1>3. QED BY <1>1, <1>2

\* Two threads of one warp have different lanes.
LEMMA LanesDistinct ==
    ASSUME NEW t \in Threads, NEW u \in Threads, WarpOf(t) = WarpOf(u), LaneOf(t) = LaneOf(u)
    PROVE  t = u
<1>1. /\ t \in Nat /\ u \in Nat /\ ThreadsPerBlock \in Nat \ {0} /\ WarpSize \in Nat \ {0}
      BY GeometryAssumption, NoThreadIsNone
<1>2. /\ t \div ThreadsPerBlock = u \div ThreadsPerBlock
      /\ (t % ThreadsPerBlock) \div WarpSize = (u % ThreadsPerBlock) \div WarpSize
      /\ (t % ThreadsPerBlock) % WarpSize = (u % ThreadsPerBlock) % WarpSize
      BY DEF WarpOf, LaneOf, BlockOf
<1>3. t % ThreadsPerBlock \in Nat /\ u % ThreadsPerBlock \in Nat
      BY <1>1
<1>4. t % ThreadsPerBlock = u % ThreadsPerBlock
      BY <1>1, <1>2, <1>3, DivMod
<1>5. QED BY <1>1, <1>2, <1>4, DivMod

\* A lane that is in no collective is not counted as arrived.
LEMMA LaneMissing ==
    ASSUME NEW st, NEW ww, NEW w, NEW wait, NEW v \in WarpThreads(w), st[v] # "AtWarp"
    PROVE  LaneOf(v) \notin ArrivedMask(st, ww, w, wait)
BY LanesDistinct DEF ArrivedMask, WarpThreads

(***************************************************************************)
(* While a launch is live: a block with a thread at the barrier knows the  *)
(* place, has lost nobody and waits for somebody; a lane that waits at a   *)
(* collective waits for somebody, and agrees on the mask with every lane   *)
(* of it that waits at the same half of the same place.                    *)
(***************************************************************************)
BlocksLive(st, locs) ==
    \A b \in Blocks : (\E i \in BlockThreads(b) : st[i] = "AtBarrier") =>
        /\ locs[b] # NoLoc
        /\ \A i \in BlockThreads(b) : st[i] # "Finished"
        /\ \E i \in BlockThreads(b) : st[i] # "AtBarrier"

WarpsLive(st, ww) ==
    \A u \in Threads : st[u] = "AtWarp" =>
        /\ \E v \in Members(u, ww[u].mask) : ~(st[v] = "AtWarp" /\ ww[v] = ww[u])
        /\ \A v \in Members(u, ww[u].mask) :
              st[v] = "AtWarp" /\ ww[v].phase = ww[u].phase /\ ww[v].at = ww[u].at
                  => ww[v].mask = ww[u].mask

LaunchLive ==
    ~aborted => BlocksLive(status, barrier_loc) /\ WarpsLive(status, warp_wait) /\ diags = {}

\* What the two blame properties ask of one diagnostic.
BarrierBlame(d) ==
    d.kind = "BarrierDivergence" => d.waiting # {} /\ d.exited # {} /\ d.barrier # NoLoc

WarpBlame(d) == d.kind = "WarpDivergence" => ~(d.mask \subseteq d.arrived)

BlameInv == LaunchLive /\ BarrierBlameSound /\ WarpBlameSound

\* A step that moves nobody into or out of a barrier, finishes nobody and
\* keeps the places keeps the blocks live.
LEMMA NoBlockStep ==
    ASSUME BlocksLive(status, barrier_loc), UNCHANGED barrier_loc,
           \A u \in Threads : /\ status[u] = "AtBarrier" <=> status'[u] = "AtBarrier"
                              /\ status'[u] = "Finished" => status[u] = "Finished"
    PROVE  BlocksLive(status', barrier_loc')
BY DEF BlocksLive, BlockThreads

\* A step that moves nobody into or out of a collective keeps the warps live.
LEMMA NoWaitStep ==
    ASSUME WarpsLive(status, warp_wait), UNCHANGED warp_wait,
           \A u \in Threads : status[u] = "AtWarp" <=> status'[u] = "AtWarp"
    PROVE  WarpsLive(status', warp_wait')
BY MembersAre DEF WarpsLive

(***************************************************************************)
(* detect_stuck                                                            *)
(***************************************************************************)
\* In live blocks, nobody able to run means that somebody is stuck in a warp:
\* the second half of detect_stuck is never reached.
LEMMA StuckInWarps ==
    ASSUME NEW st \in [Threads -> Statuses], NEW ww, NEW locs, BlocksLive(st, locs),
           \A i \in Threads : st[i] = "AtWarp" => ww[i] # NoWait, Runnable(st) = {}
    PROVE  StuckReport(st, ww, locs) = StuckWarps(st, ww)
<1>1. SUFFICES ASSUME StuckWarps(st, ww) = {} PROVE StuckBlocks(st, locs) = {}
      BY DEF StuckReport
<1>2. \A i \in Threads : st[i] # "AtWarp"
  <2>1. SUFFICES ASSUME NEW i \in Threads, st[i] = "AtWarp" PROVE FALSE
        OBVIOUS
  <2> DEFINE w == WarpOf(i)
  <2>2. w \in Warps /\ i \in StuckIn(st, w) /\ StuckIn(st, w) \in SUBSET Nat
        BY <2>1, ThreadLocated, NoThreadIsNone DEF StuckIn, WarpThreads
  <2>3. PICK u \in Lowest(StuckIn(st, w)) : TRUE
        BY <2>2, LowestExists
  <2>4. u \in Threads /\ ww[u] # NoWait
        BY <2>3 DEF Lowest, StuckIn, WarpThreads
  <2>5. WarpDivergence(w, ww[u], ArrivedMask(st, ww, w, ww[u])) \in StuckWarps(st, ww)
        BY <2>2, <2>3, <2>4 DEF StuckWarps
  <2>6. QED BY <1>1, <2>5
<1>3. \A b \in Blocks : ~\E i \in BlockThreads(b) : st[i] = "AtBarrier"
  <2>1. SUFFICES ASSUME NEW b \in Blocks, \E i \in BlockThreads(b) : st[i] = "AtBarrier"
                 PROVE  FALSE
        OBVIOUS
  <2>2. PICK i \in BlockThreads(b) : st[i] # "AtBarrier" /\ st[i] # "Finished"
        BY <2>1 DEF BlocksLive
  <2>3. i \in Threads
        BY DEF BlockThreads
  <2>4. st[i] = "Runnable"
        BY <1>2, <2>2, <2>3 DEF Statuses
  <2>5. QED BY <2>3, <2>4 DEF Runnable
<1>4. QED BY <1>3 DEF StuckBlocks

\* In live warps, what detect_stuck says of one names a lane of the mask that
\* has not arrived.
LEMMA StuckBlames ==
    ASSUME NEW st, NEW ww \in [Threads -> WaitRecords], WarpsLive(st, ww),
           \A u, v \in Threads : st[u] = "AtWarp" /\ st[v] = "AtWarp" /\ ww[u].at = ww[v].at
               => ww[u].op = ww[v].op,
           NEW d \in StuckWarps(st, ww)
    PROVE  WarpBlame(d)
<1>0. PICK w \in Warps : \E u \in Lowest(StuckIn(st, w)) :
            ww[u] # NoWait /\ d = WarpDivergence(w, ww[u], ArrivedMask(st, ww, w, ww[u]))
      BY DEF StuckWarps
<1>1. PICK u \in Lowest(StuckIn(st, w)) :
            ww[u] # NoWait /\ d = WarpDivergence(w, ww[u], ArrivedMask(st, ww, w, ww[u]))
      BY <1>0
<1>2. u \in Threads /\ WarpOf(u) = w /\ st[u] = "AtWarp"
      BY <1>1 DEF Lowest, StuckIn, WarpThreads
<1>3. PICK v \in Members(u, ww[u].mask) : ~(st[v] = "AtWarp" /\ ww[v] = ww[u])
      BY <1>2 DEF WarpsLive
<1>4. v \in Threads /\ WarpOf(v) = w /\ LaneOf(v) \in ww[u].mask
      BY <1>2, MembersAre
<1>5. LaneOf(v) \notin ArrivedMask(st, ww, w, ww[u])
  <2>1. SUFFICES ASSUME LaneOf(v) \in ArrivedMask(st, ww, w, ww[u]) PROVE FALSE
        OBVIOUS
  <2>2. PICK x \in WarpThreads(w) : /\ LaneOf(x) = LaneOf(v) /\ st[x] = "AtWarp"
                                    /\ ww[x].phase = ww[u].phase /\ ww[x].at = ww[u].at
        BY <2>1 DEF ArrivedMask
  <2>3. x = v
        BY <1>4, <2>2, LanesDistinct DEF WarpThreads
  <2>4. ww[v].mask = ww[u].mask
        BY <1>2, <2>2, <2>3 DEF WarpsLive
  <2>5. ww[v].op = ww[u].op
        BY <1>2, <1>4, <2>2, <2>3
  <2>6. ww[v] \in WaitRecords /\ ww[u] \in WaitRecords
        BY <1>2, <1>4
  <2>7. ww[v] = ww[u]
        BY <2>2, <2>3, <2>4, <2>5, <2>6 DEF WaitRecords, NoWait
  <2>8. QED BY <1>3, <2>2, <2>3, <2>7
<1>6. d.mask = ww[u].mask /\ d.arrived = ArrivedMask(st, ww, w, ww[u])
      BY <1>1 DEF WarpDivergence
<1>7. QED BY <1>4, <1>5, <1>6 DEF WarpBlame

\* detect_stuck finds only warps in a live launch, and blames a lane.
LEMMA StuckSound ==
    ASSUME TypeOK', CallsFollowed', WaitsKnown', ~aborted, LaunchLive,
           BlocksLive(status', barrier_loc'), WarpsLive(status', warp_wait'),
           Runnable(status') = {}, aborted',
           diags' = diags \cup StuckReport(status', warp_wait', barrier_loc')
    PROVE  BlameInv'
<1>1. /\ status' \in [Threads -> Statuses] /\ warp_wait' \in [Threads -> WaitRecords]
      BY TypeSplitNext
<1>2. diags' = StuckWarps(status', warp_wait')
      BY <1>1, StuckInWarps DEF LaunchLive, WaitsKnown
<1>3. \A d \in diags' : d.kind = "WarpDivergence"
      BY <1>2 DEF StuckWarps, WarpDivergence
<1>4. BarrierBlameSound'
      BY <1>3 DEF BarrierBlameSound
<1>5. WarpBlameSound'
  <2>1. SUFFICES ASSUME PlaceNamesOp', NEW d \in diags' PROVE WarpBlame(d)
        BY DEF WarpBlameSound, WarpBlame
  <2>2. \A u \in Threads : status'[u] = "AtWarp" =>
            warp_wait'[u].at = call'[u].at /\ warp_wait'[u].op = call'[u].op
    <3>1. SUFFICES ASSUME NEW u \in Threads, status'[u] = "AtWarp"
                   PROVE  warp_wait'[u].at = call'[u].at /\ warp_wait'[u].op = call'[u].op
          OBVIOUS
    <3>2. PICK phase : warp_wait'[u] = WaitOf(u, phase)'
          BY <3>1, Zenon DEF CallsFollowed, CallFollowed
    <3>3. QED BY <3>2 DEF WaitOf
  <2>3. \A u, v \in Threads :
            status'[u] = "AtWarp" /\ status'[v] = "AtWarp" /\ warp_wait'[u].at = warp_wait'[v].at
                => warp_wait'[u].op = warp_wait'[v].op
        BY <2>1, <2>2 DEF PlaceNamesOp
  <2>4. QED BY <1>1, <1>2, <2>1, <2>3, StuckBlames
<1>6. QED BY <1>4, <1>5 DEF BlameInv, LaunchLive

(***************************************************************************)
(* Every way to stop a launch blames soundly.                              *)
(***************************************************************************)
\* hand_off_and_wait, when the blocks and warps it leaves behind are live.
LEMMA HandOffBlames ==
    ASSUME NEW t \in Threads, HandOffAndWait(t), TypeOK', CallsFollowed', WaitsKnown',
           ~aborted, LaunchLive,
           BlocksLive(status', barrier_loc'), WarpsLive(status', warp_wait')
    PROVE  BlameInv'
<1>1. CASE UNCHANGED <<aborted, diags>>
      BY <1>1 DEF BlameInv, LaunchLive, BarrierBlameSound, WarpBlameSound
<1>2. CASE /\ Runnable(status') = {} /\ aborted'
           /\ diags' = diags \cup StuckReport(status', warp_wait', barrier_loc')
      BY <1>2, StuckSound
<1>3. QED BY <1>1, <1>2, Zenon DEF HandOffAndWait

\* fail, told of a divergence that names somebody, or of something else.
LEMMA FailBlames ==
    ASSUME NEW t, NEW d, Fail(t, {d}), ~aborted, LaunchLive, BarrierBlame(d), WarpBlame(d)
    PROVE  BlameInv'
<1>1. diags' = {d} /\ aborted'
      BY DEF Fail, LaunchLive
<1>2. QED BY <1>1 DEF BlameInv, LaunchLive, BarrierBlameSound, WarpBlameSound,
                      BarrierBlame, WarpBlame

\* barrier: whoever finds somebody gone waits itself, and its place is known.
LEMMA BarrierBlames ==
    ASSUME NEW t \in Threads, NEW loc \in Locs, Barrier(t, loc),
           TypeOK, TypeOK', CallsFollowed', WaitsKnown', LaunchLive,
           status[t] = "Runnable", ~aborted
    PROVE  BlameInv'
<1> DEFINE b == BlockOf(t)
           st == [status EXCEPT ![t] = "AtBarrier"]
           locs == [barrier_loc EXCEPT ![b] = IF @ = NoLoc THEN loc ELSE @]
           block == BlockThreads(b)
<1>0. /\ status \in [Threads -> Statuses] /\ barrier_loc \in [Blocks -> Locs \cup {NoLoc}]
      /\ b \in Blocks
      BY TypeSplit, ThreadLocated
<1>1. t \in block /\ block \subseteq Threads /\ st[t] = "AtBarrier" /\ locs[b] # NoLoc
      BY <1>0, KernelAssumption DEF BlockThreads
<1>2. BlocksLive(status, barrier_loc) /\ WarpsLive(status, warp_wait)
      BY DEF LaunchLive
<1>3. WarpsLive(status', warp_wait')
  <2>1. UNCHANGED warp_wait
        BY DEF Barrier
  <2>2. QED BY <1>2, <2>1, BarrierAtWarp, NoWaitStep
<1>4. \/ (\E i \in block : st[i] = "Finished") /\ Fail(t, {BarrierDivergence(st, b, locs[b])})
      \/ /\ ~\E i \in block : st[i] = "Finished"
         /\ ~\A i \in block : st[i] = "AtBarrier"
         /\ status' = st /\ barrier_loc' = locs /\ HandOffAndWait(t)
      \/ /\ status' = [i \in Threads |-> IF i \in block THEN "Runnable" ELSE st[i]]
         /\ barrier_loc' = [barrier_loc EXCEPT ![b] = NoLoc] /\ HandOffAndWait(t)
      BY Zenon DEF Barrier
<1>5. ASSUME NEW c \in Blocks, c # b PROVE BlockThreads(c) \cap block = {}
      BY <1>5 DEF BlockThreads
<1> HIDE DEF locs
<1>6. CASE (\E i \in block : st[i] = "Finished") /\ Fail(t, {BarrierDivergence(st, b, locs[b])})
  <2> DEFINE d == BarrierDivergence(st, b, locs[b])
  <2>1. d.waiting # {} /\ d.exited # {} /\ d.barrier = locs[b] /\ d.kind = "BarrierDivergence"
        BY <1>1, <1>6 DEF BarrierDivergence
  <2>2. BarrierBlame(d) /\ WarpBlame(d)
        BY <1>1, <2>1 DEF BarrierBlame, WarpBlame
  <2>3. QED BY <1>6, <2>2, FailBlames
<1>7. CASE /\ ~\E i \in block : st[i] = "Finished"
           /\ ~\A i \in block : st[i] = "AtBarrier"
           /\ status' = st /\ barrier_loc' = locs /\ HandOffAndWait(t)
  <2>1. ASSUME NEW c \in Blocks, \E i \in BlockThreads(c) : st[i] = "AtBarrier"
        PROVE  /\ locs[c] # NoLoc
               /\ \A i \in BlockThreads(c) : st[i] # "Finished"
               /\ \E i \in BlockThreads(c) : st[i] # "AtBarrier"
    <3>1. CASE c = b
          BY <1>1, <1>7, <3>1
    <3>2. CASE c # b
      <4>1. locs[c] = barrier_loc[c] /\ \A i \in BlockThreads(c) : st[i] = status[i]
            BY <1>0, <1>1, <1>5, <3>2 DEF locs, BlockThreads
      <4>2. QED BY <1>2, <2>1, <4>1 DEF BlocksLive
    <3>3. QED BY <3>1, <3>2
  <2>2. BlocksLive(status', barrier_loc')
        BY <1>7, <2>1, Zenon DEF BlocksLive
  <2>3. QED BY <1>3, <1>7, <2>2, HandOffBlames
<1>8. CASE /\ status' = [i \in Threads |-> IF i \in block THEN "Runnable" ELSE st[i]]
           /\ barrier_loc' = [barrier_loc EXCEPT ![b] = NoLoc] /\ HandOffAndWait(t)
  <2>1. ASSUME NEW c \in Blocks, \E i \in BlockThreads(c) : status'[i] = "AtBarrier"
        PROVE  /\ barrier_loc'[c] # NoLoc
               /\ \A i \in BlockThreads(c) : status'[i] # "Finished"
               /\ \E i \in BlockThreads(c) : status'[i] # "AtBarrier"
    <3>1. c # b
          BY <1>1, <1>8, <2>1
    <3>2. barrier_loc'[c] = barrier_loc[c] /\ \A i \in BlockThreads(c) : status'[i] = status[i]
          BY <1>0, <1>1, <1>5, <1>8, <3>1 DEF BlockThreads
    <3>3. QED BY <1>2, <2>1, <3>2 DEF BlocksLive
  <2>2. BlocksLive(status', barrier_loc')
        BY <2>1, Zenon DEF BlocksLive
  <2>3. QED BY <1>3, <1>8, <2>2, HandOffBlames
<1>9. QED BY <1>4, <1>6, <1>7, <1>8

\* warp_rendezvous: a mask-mate that is gone has not arrived, and a lane that
\* parks leaves its warp live.
LEMMA RendezvousBlames ==
    ASSUME NEW t \in Threads, NEW phase \in Phases, WarpRendezvous(t, phase),
           LaneOf(t) \in call[t].mask,
           TypeOK, TypeOK', CallsFollowed', WaitsKnown', LaunchLive,
           status[t] = "Runnable", ~aborted
    PROVE  BlameInv'
<1> DEFINE w == WarpOf(t)
           wait == WaitOf(t, phase)
           st == [status EXCEPT ![t] = "AtWarp"]
           ww == [warp_wait EXCEPT ![t] = wait]
           members == Members(t, wait.mask)
<1>0. /\ status \in [Threads -> Statuses] /\ warp_wait \in [Threads -> WaitRecords]
      BY TypeSplit
<1>1. /\ wait.mask = call[t].mask /\ wait.phase = phase /\ wait.at = call[t].at
      BY DEF WaitOf
<1>2. BlocksLive(status, barrier_loc) /\ WarpsLive(status, warp_wait)
      BY DEF LaunchLive
<1>3. BlocksLive(status', barrier_loc')
  <2>1. UNCHANGED barrier_loc
        BY Zenon DEF WarpRendezvous
  <2>2. ASSUME NEW u \in Threads, status'[u] = "Finished" PROVE status[u] = "Finished"
        BY <1>0, <2>2, RendezvousEffect
  <2>3. QED BY <1>2, <2>1, <2>2, RendezvousAtBarrier, NoBlockStep
<1>4. t \in members /\ members \subseteq WarpThreads(w) /\ members \subseteq Threads
      BY <1>1 DEF Members, WarpThreads
<1>5. \/ /\ \E u \in members : st[u] = "Finished"
         /\ Fail(t, {WarpDivergence(w, wait, ArrivedMask(st, ww, w, wait))})
      \/ \E u : Fail(t, {WarpMaskMismatch(t, u, wait.at)})
      \/ /\ Mismatched(t, st, ww) = {}
         /\ ~\A u \in members : st[u] = "AtWarp" /\ ww[u] = wait
         /\ status' = st /\ warp_wait' = ww /\ HandOffAndWait(t)
      \/ /\ status' = [i \in Threads |-> IF i \in members THEN "Runnable" ELSE st[i]]
         /\ warp_wait' = [i \in Threads |-> IF i \in members THEN NoWait ELSE ww[i]]
         /\ HandOffAndWait(t)
      BY Zenon DEF WarpRendezvous, WaitOf
<1>6. CASE /\ \E u \in members : st[u] = "Finished"
           /\ Fail(t, {WarpDivergence(w, wait, ArrivedMask(st, ww, w, wait))})
  <2> DEFINE d == WarpDivergence(w, wait, ArrivedMask(st, ww, w, wait))
  <2>1. PICK u \in members : st[u] = "Finished"
        BY <1>6
  <2>2. LaneOf(u) \notin ArrivedMask(st, ww, w, wait)
        BY <1>4, <2>1, LaneMissing
  <2>3. LaneOf(u) \in wait.mask
        BY <2>1, MembersAre
  <2>4. /\ d.kind = "WarpDivergence" /\ d.mask = wait.mask
        /\ d.arrived = ArrivedMask(st, ww, w, wait)
        BY DEF WarpDivergence
  <2>5. BarrierBlame(d) /\ WarpBlame(d)
        BY <2>2, <2>3, <2>4 DEF BarrierBlame, WarpBlame
  <2>6. QED BY <1>6, <2>5, FailBlames
<1>7. CASE \E u : Fail(t, {WarpMaskMismatch(t, u, wait.at)})
  <2>1. PICK u : Fail(t, {WarpMaskMismatch(t, u, wait.at)})
        BY <1>7
  <2>2. BarrierBlame(WarpMaskMismatch(t, u, wait.at)) /\ WarpBlame(WarpMaskMismatch(t, u, wait.at))
        BY DEF BarrierBlame, WarpBlame, WarpMaskMismatch
  <2>3. QED BY <2>1, <2>2, FailBlames
<1>8. CASE /\ Mismatched(t, st, ww) = {}
           /\ ~\A u \in members : st[u] = "AtWarp" /\ ww[u] = wait
           /\ status' = st /\ warp_wait' = ww /\ HandOffAndWait(t)
  <2>1. PICK x \in members : ~(st[x] = "AtWarp" /\ ww[x] = wait)
        BY <1>8
  <2>2. ww[t] = wait /\ st[t] = "AtWarp" /\ x # t
        BY <1>0, <2>1
  <2>3. ASSUME NEW u \in Threads, u # t PROVE ww[u] = warp_wait[u] /\ st[u] = status[u]
        BY <1>0, <2>3
  <2> HIDE DEF wait, ww, st
  <2>4. ASSUME NEW u \in Threads, st[u] = "AtWarp"
        PROVE  \E v \in Members(u, ww[u].mask) : ~(st[v] = "AtWarp" /\ ww[v] = ww[u])
    <3>1. CASE ww[u] = wait /\ WarpOf(u) = w
      <4>1. x \in Members(u, ww[u].mask)
            BY <2>1, <3>1, MembersAre
      <4>2. QED BY <2>1, <3>1, <4>1
    <3>2. CASE ~(ww[u] = wait /\ WarpOf(u) = w)
      <4>1. u # t
            BY <2>2, <3>2
      <4>2. PICK v \in Members(u, warp_wait[u].mask) : ~(status[v] = "AtWarp" /\ warp_wait[v] = warp_wait[u])
            BY <1>2, <2>3, <2>4, <4>1 DEF WarpsLive
      <4>3. v \in Threads /\ WarpOf(v) = WarpOf(u)
            BY <4>2, MembersAre
      <4>4. CASE v = t
            BY <2>2, <2>3, <3>2, <4>1, <4>2, <4>3, <4>4
      <4>5. CASE v # t
            BY <2>3, <4>1, <4>2, <4>3, <4>5
      <4>6. QED BY <4>4, <4>5
    <3>3. QED BY <3>1, <3>2
  <2>5. ASSUME NEW u \in Threads, st[u] = "AtWarp", NEW v \in Members(u, ww[u].mask),
               st[v] = "AtWarp", ww[v].phase = ww[u].phase, ww[v].at = ww[u].at
        PROVE  ww[v].mask = ww[u].mask
    <3>1. v \in Threads /\ WarpOf(v) = WarpOf(u) /\ LaneOf(v) \in ww[u].mask
          BY MembersAre
    <3>2. CASE u = t
          BY <1>8, <2>5, <3>1, <3>2 DEF Mismatched, WarpThreads
    <3>3. CASE v = t
          BY <1>8, <2>5, <3>1, <3>3 DEF Mismatched, WarpThreads
    <3>4. CASE u # t /\ v # t
          BY <1>2, <2>3, <2>5, <3>1, <3>4 DEF WarpsLive
    <3>5. QED BY <3>2, <3>3, <3>4
  <2>6. WarpsLive(st, ww)
        BY <2>4, <2>5, Zenon DEF WarpsLive
  <2>7. WarpsLive(status', warp_wait')
        BY <1>8, <2>6
  <2>8. QED BY <1>3, <1>8, <2>7, HandOffBlames
<1>9. CASE /\ status' = [i \in Threads |-> IF i \in members THEN "Runnable" ELSE st[i]]
           /\ warp_wait' = [i \in Threads |-> IF i \in members THEN NoWait ELSE ww[i]]
           /\ HandOffAndWait(t)
  <2>1. ASSUME NEW u \in Threads, status'[u] = "AtWarp"
        PROVE  status[u] = "AtWarp" /\ warp_wait'[u] = warp_wait[u]
    <3>1. u \notin members
          BY <1>9, <2>1
    <3>2. QED BY <1>0, <1>4, <1>9, <2>1, <3>1
  <2>2. ASSUME NEW u \in Threads, status[u] = "AtWarp"
        PROVE  \/ status'[u] # "AtWarp"
               \/ status'[u] = status[u] /\ warp_wait'[u] = warp_wait[u]
        BY <2>1, <2>2
  <2> HIDE DEF wait, ww, st, members
  <2>3. ASSUME NEW u \in Threads, status'[u] = "AtWarp"
        PROVE  /\ \E v \in Members(u, warp_wait'[u].mask) :
                       ~(status'[v] = "AtWarp" /\ warp_wait'[v] = warp_wait'[u])
               /\ \A v \in Members(u, warp_wait'[u].mask) :
                     status'[v] = "AtWarp" /\ warp_wait'[v].phase = warp_wait'[u].phase
                     /\ warp_wait'[v].at = warp_wait'[u].at
                         => warp_wait'[v].mask = warp_wait'[u].mask
    <3>1. status[u] = "AtWarp" /\ warp_wait'[u] = warp_wait[u]
          BY <2>1, <2>3
    <3>2. \A v \in Members(u, warp_wait[u].mask) : v \in Threads
          BY MembersAre
    <3>3. QED BY <1>2, <2>1, <3>1, <3>2 DEF WarpsLive
  <2>4. WarpsLive(status', warp_wait')
        BY <2>3, Zenon DEF WarpsLive
  <2>5. QED BY <1>3, <1>9, <2>4, HandOffBlames
<1>10. QED BY <1>5, <1>6, <1>7, <1>8, <1>9

\* finish: the thread that returns is the one a waiting lane misses, or the
\* one that left a block whose barrier is known.
LEMMA FinishBlames ==
    ASSUME NEW t \in Threads, Finish(t), TypeOK, TypeOK', CallsFollowed', WaitsKnown',
           LaunchLive, status[t] = "Runnable", ~aborted
    PROVE  BlameInv'
<1> DEFINE w == WarpOf(t)
           b == BlockOf(t)
           st == [status EXCEPT ![t] = "Finished"]
           waitingForMe == {u \in WarpThreads(w) :
                               st[u] = "AtWarp" /\ LaneOf(t) \in warp_wait[u].mask}
           atBarrier == \E i \in BlockThreads(b) : st[i] = "AtBarrier"
           report(u) == WarpDivergence(w, warp_wait[u], ArrivedMask(st, warp_wait, w, warp_wait[u]))
<1>0. status \in [Threads -> Statuses] /\ b \in Blocks
      BY TypeSplit, ThreadLocated
<1>1. status' = st /\ UNCHANGED <<barrier_loc, warp_wait>>
      BY FinishStatus
<1>2. BlocksLive(status, barrier_loc) /\ WarpsLive(status, warp_wait) /\ diags = {}
      BY DEF LaunchLive
<1>3. st[t] = "Finished" /\ t \in BlockThreads(b) /\ t \in WarpThreads(w)
      BY <1>0 DEF BlockThreads, WarpThreads
<1>4. \A u \in Threads : u # t => st[u] = status[u]
      BY <1>0
<1>5. WarpsLive(status', warp_wait')
  <2>1. \A u \in Threads : status[u] = "AtWarp" <=> status'[u] = "AtWarp"
        BY <1>1, <1>3, <1>4
  <2>2. QED BY <1>1, <1>2, <2>1, NoWaitStep
<1>6. ASSUME ~atBarrier PROVE BlocksLive(status', barrier_loc')
  <2>1. SUFFICES ASSUME NEW c \in Blocks, \E i \in BlockThreads(c) : st[i] = "AtBarrier"
                 PROVE  /\ barrier_loc[c] # NoLoc
                        /\ \A i \in BlockThreads(c) : st[i] # "Finished"
                        /\ \E i \in BlockThreads(c) : st[i] # "AtBarrier"
        BY <1>1 DEF BlocksLive
  <2>2. c # b
        BY <1>6, <2>1
  <2>3. \A i \in BlockThreads(c) : st[i] = status[i]
        BY <1>4, <2>2 DEF BlockThreads
  <2>4. QED BY <1>2, <2>1, <2>3 DEF BlocksLive
<1>7. \/ \E u \in Lowest(waitingForMe) : Fail(t, {report(u)})
      \/ atBarrier /\ Fail(t, {BarrierDivergence(st, b, barrier_loc[b])})
      \/ ~atBarrier /\ UNCHANGED <<aborted, diags>>
      \/ /\ ~atBarrier /\ Runnable(st) = {} /\ aborted'
         /\ diags' = diags \cup StuckReport(st, warp_wait, barrier_loc)
      BY Zenon DEF Finish
<1>8. CASE \E u \in Lowest(waitingForMe) : Fail(t, {report(u)})
  <2>1. PICK u \in Lowest(waitingForMe) : Fail(t, {report(u)})
        BY <1>8
  <2>2. LaneOf(t) \in warp_wait[u].mask
        BY <2>1 DEF Lowest
  <2>3. LaneOf(t) \notin ArrivedMask(st, warp_wait, w, warp_wait[u])
        BY <1>3, LaneMissing
  <2>4. /\ report(u).kind = "WarpDivergence" /\ report(u).mask = warp_wait[u].mask
        /\ report(u).arrived = ArrivedMask(st, warp_wait, w, warp_wait[u])
        BY DEF WarpDivergence
  <2>5. BarrierBlame(report(u)) /\ WarpBlame(report(u))
        BY <2>2, <2>3, <2>4 DEF BarrierBlame, WarpBlame
  <2>6. QED BY <2>1, <2>5, FailBlames
<1>9. CASE atBarrier /\ Fail(t, {BarrierDivergence(st, b, barrier_loc[b])})
  <2> DEFINE d == BarrierDivergence(st, b, barrier_loc[b])
  <2>1. \E i \in BlockThreads(b) : status[i] = "AtBarrier"
        BY <1>3, <1>4, <1>9 DEF BlockThreads
  <2>2. barrier_loc[b] # NoLoc
        BY <1>0, <1>2, <2>1 DEF BlocksLive
  <2>3. d.waiting # {} /\ d.exited # {} /\ d.barrier = barrier_loc[b] /\ d.kind = "BarrierDivergence"
        BY <1>3, <1>9 DEF BarrierDivergence
  <2>4. BarrierBlame(d) /\ WarpBlame(d)
        BY <2>2, <2>3 DEF BarrierBlame, WarpBlame
  <2>5. QED BY <1>9, <2>4, FailBlames
<1>10. CASE ~atBarrier /\ UNCHANGED <<aborted, diags>>
  <2>1. LaunchLive'
        BY <1>2, <1>5, <1>6, <1>10 DEF LaunchLive
  <2>2. QED BY <1>2, <1>10, <2>1 DEF BlameInv, BarrierBlameSound, WarpBlameSound
<1>11. CASE /\ ~atBarrier /\ Runnable(st) = {} /\ aborted'
            /\ diags' = diags \cup StuckReport(st, warp_wait, barrier_loc)
  <2>1. /\ BlocksLive(status', barrier_loc') /\ Runnable(status') = {}
        /\ diags' = diags \cup StuckReport(status', warp_wait', barrier_loc')
        BY <1>1, <1>6, <1>11
  <2>2. QED BY <1>5, <1>11, <2>1, StuckSound
<1>12. QED BY <1>7, <1>8, <1>9, <1>10, <1>11

(***************************************************************************)
(* The invariant.                                                          *)
(***************************************************************************)
\* Every step of a launch that has not aborted blames soundly, and an aborted
\* one changes neither its diagnostics nor its calls.
LEMMA BlameStep ==
    /\ TypeOK /\ TypeOK' /\ TurnInv /\ CallsFollowed /\ CallsFollowed' /\ WaitsKnown'
    /\ BlameInv /\ [Next]_vars
    => BlameInv'
<1> SUFFICES ASSUME TypeOK, TypeOK', TurnInv, CallsFollowed, CallsFollowed', WaitsKnown',
                    BlameInv, [Next]_vars
             PROVE  BlameInv'
    OBVIOUS
<1>0. LaunchLive
      BY DEF BlameInv
<1>1. ASSUME UNCHANGED <<status, barrier_loc, warp_wait, call, aborted, diags>> PROVE BlameInv'
  <2>1. LaunchLive'
        BY <1>0, <1>1 DEF LaunchLive
  <2>2. BarrierBlameSound' /\ WarpBlameSound'
        BY <1>1 DEF BlameInv, BarrierBlameSound, WarpBlameSound, PlaceNamesOp
  <2>3. QED BY <2>1, <2>2 DEF BlameInv
<1>2. ASSUME NEW t \in Threads, os[t] = "running", UNCHANGED waitVars, HandOffAndWait(t)
      PROVE  BlameInv'
  <2>1. ~aborted
        BY <1>2, RunningAlone
  <2>2. BlocksLive(status', barrier_loc') /\ WarpsLive(status', warp_wait')
        BY <1>0, <1>2, <2>1 DEF LaunchLive, waitVars
  <2>3. QED BY <1>0, <1>2, <2>1, <2>2, HandOffBlames
<1>3. ASSUME NEW t \in Threads, os[t] = "running", NEW kind \in {"KernelPanic", "Trap", "WarpLaneError"},
             Fail(t, {ThreadDiagnostic(kind, t)})
      PROVE  BlameInv'
  <2>1. ~aborted
        BY <1>3, RunningAlone
  <2>2. BarrierBlame(ThreadDiagnostic(kind, t)) /\ WarpBlame(ThreadDiagnostic(kind, t))
        BY <1>3 DEF BarrierBlame, WarpBlame, ThreadDiagnostic
  <2>3. QED BY <1>0, <1>3, <2>1, <2>2, FailBlames
<1>4. ASSUME NEW t \in Threads, Step(t) PROVE BlameInv'
  <2>1. CASE Resume(t)
        BY <1>1, <2>1 DEF Resume, waitVars, kernelVars
  <2>2. CASE YieldNow(t)
        BY <1>2, <2>2 DEF YieldNow, InKernel
  <2>3. ASSUME NEW kind \in {"KernelPanic", "Trap"}, Abort(t, kind) PROVE BlameInv'
        BY <1>3, <2>3 DEF Abort, InKernel
  <2>4. ASSUME NEW loc \in Locs, Barrier(t, loc) PROVE BlameInv'
        BY <1>0, <2>4, BarrierBlames, RunningAlone DEF Barrier, InKernel
  <2>5. ASSUME NEW op, NEW mask, NEW at, Collective(t, op, mask, at) PROVE BlameInv'
        BY <1>2, <2>5 DEF Collective, InKernel
  <2>6. CASE BadMask(t) \/ CombinePanics(t)
        BY <1>3, <2>6 DEF BadMask, CombinePanics
  <2>7. CASE Arrive(t)
        BY <1>0, <2>7, RendezvousBlames, RunningAlone DEF Arrive, MaskOk, Phases
  <2>8. CASE Depart(t)
    <3>1. LaneOf(t) \in call[t].mask
          BY <2>8 DEF Depart, CallsFollowed, CallFollowed, InCollective
    <3>2. QED BY <1>0, <2>8, <3>1, RendezvousBlames, RunningAlone DEF Depart, Phases
  <2>9. CASE Finish(t)
        BY <1>0, <2>9, FinishBlames, FinishStatus, RunningAlone DEF InKernel
  <2>10. QED BY <1>4, <2>1, <2>2, <2>3, <2>4, <2>5, <2>6, <2>7, <2>8, <2>9 DEF Step
<1>5. ASSUME NEW t \in Threads, SpuriousWakeup(t) PROVE BlameInv'
      BY <1>1, <1>5 DEF SpuriousWakeup, waitVars, kernelVars
<1>6. CASE UNCHANGED vars
      BY <1>1, <1>6 DEF vars, schedVars, waitVars, kernelVars
<1>7. QED BY <1>4, <1>5, <1>6 DEF Next, Joined

\* A launch starts live and with nothing reported.
LEMMA BlameInit == Init => BlameInv
<1> SUFFICES ASSUME Init PROVE BlameInv
    OBVIOUS
<1>1. diags = {} /\ status = [t \in Threads |-> "Runnable"]
      BY DEF Init
<1>2. BlocksLive(status, barrier_loc) /\ WarpsLive(status, warp_wait)
      BY <1>1 DEF BlocksLive, WarpsLive, BlockThreads
<1>3. QED BY <1>1, <1>2 DEF BlameInv, LaunchLive, BarrierBlameSound, WarpBlameSound

(***************************************************************************)
(* Theorems.                                                               *)
(***************************************************************************)
\* A lane between the two rendezvous of a collective finds in every slot of its
\* mask the value passed to this very collective, however many lanes, masks and
\* warps there are and whatever order they run in.
THEOREM ExchangeIsSound == Spec => []ExchangeSound
<1>1. TypeInv => TypeOK
      BY DEF TypeInv
<1>2. QED BY <1>1, TypeInit, TypeStep, TurnInit, TurnStep, ExchangeInit, FollowStep,
             ExchangeStep, PTL DEF Spec

\* Both kinds of divergence name somebody, in every launch.
THEOREM BlameIsSound == Spec => [](BarrierBlameSound /\ WarpBlameSound)
<1>1. TypeInv => TypeOK
      BY DEF TypeInv
<1>2. BlameInv => BarrierBlameSound /\ WarpBlameSound
      BY DEF BlameInv
<1>3. QED BY <1>1, <1>2, TypeInit, TypeStep, TurnInit, TurnStep, ExchangeInit, FollowStep,
             ReportInit, ReportStep, BlameInit, BlameStep, PTL DEF Spec

\* A barrier divergence is reported only of a block in which a thread waits at
\* a known place and another has exited: detect_stuck never gets to the blocks.
THEOREM BarrierBlameIsSound == Spec => []BarrierBlameSound
BY BlameIsSound, PTL

\* In a kernel that calls one collective from each place, a warp divergence
\* names a lane of the mask that has not arrived.
THEOREM WarpBlameIsSound == Spec => []WarpBlameSound
BY BlameIsSound, PTL
=============================================================================
