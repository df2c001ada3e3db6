--------------------------- MODULE DetectorProofs ---------------------------
(***************************************************************************)
(* The access path for every launch: any grid, warp size, limit of         *)
(* readers, set of elements and kernels, and any number of launches.       *)
(***************************************************************************)
EXTENDS Detector, ShadowProofs

MemOps == {"read", "write", "load", "rmw"}

Accesses == [thread : Threads, epoch : Nat, warp_epoch : Nat, seq : Nat, op : MemOps]

Cells == CellsOf(Accesses)

RaceRecords == [elem : Elems, first : Threads \X Nat, second : Threads \X Nat]
ReadRecords == [elem : Elems, by : Threads \X Nat]

Refs ==
    [clock : [Threads -> Clocks], fence : [Threads -> Clocks], pending : [Threads -> Clocks],
     elem : [Elems -> Clocks], hist : [Elems -> SUBSET Accesses],
     races : SUBSET RaceRecords, unordered : SUBSET Elems, excused : SUBSET Elems,
     written : SUBSET Elems, unwritten : SUBSET ReadRecords]

LaunchIds == 1 .. Later(1, MaxLaunches)

(***************************************************************************)
(* Types.                                                                  *)
(***************************************************************************)
SyncOK ==
    /\ seq \in [Threads -> Nat]
    /\ clock \in [Threads -> Clocks]
    /\ fence_release \in [Threads -> Clocks]
    /\ fence_acquire \in [Threads -> Clocks]
    /\ block \in [Blocks -> Clocks]

SchedOK ==
    /\ barrier_gen \in [Blocks -> Nat]
    /\ warp_gen \in [Warps -> Nat]
    /\ at \in [Threads -> {"kernel", "barrier", "released", "warp"}]
    /\ ops \in [Threads -> Nat]

MemOK ==
    /\ cells \in [Elems -> Cells]
    /\ \A e \in Elems : Len(cells[e].readers) <= MaxReaders
    /\ cell_launch \in [Elems -> 0 .. Later(1, MaxLaunches)]
    /\ \A e \in Elems : cell_launch[e] <= launch
    /\ races \subseteq RaceRecords
    /\ uninits \subseteq ReadRecords

TypeInv ==
    /\ kernel \in Kernels
    /\ launch \in LaunchIds
    /\ SyncOK /\ SchedOK /\ MemOK
    /\ ref \in Refs

\* The values of an access, by name.
NowOf(t, e, op, ordering) ==
    Observe(AcquiredClock(t, CellOf(e), op, ordering), t, seq[t] + 1)
AccOf(t, op) == Access(t, seq[t] + 1, op)
Recorded(t, e, op) ==
    IF op = "read" THEN OnRead(CellOf(e), AccOf(t, op)) ELSE OnWrite(CellOf(e), AccOf(t, op))
ReleaseOf(t, e, op, ordering) ==
    Released(t, CellOf(e).release, NowOf(t, e, op, ordering), op, ordering)
ConflictOf(t, e, op, ordering) ==
    IF op = "read" THEN ReadConflict(CellOf(e), AccOf(t, op), NowOf(t, e, op, ordering))
                   ELSE WriteConflict(CellOf(e), AccOf(t, op), NowOf(t, e, op, ordering))
LossesOf(t, e, op, ordering) ==
    Losses(e, op, AccOf(t, op), CellOf(e), NowOf(t, e, op, ordering), Recorded(t, e, op),
           ReleaseOf(t, e, op, ordering))

\* The reference's side of an access.
RefAcquired(t, e, op, ordering) ==
    IF Atomic(op) /\ IsAcquire(ordering) THEN Join(ref.clock[t], ref.elem[e]) ELSE ref.clock[t]
RefNow(t, e, op, ordering) == Observe(RefAcquired(t, e, op, ordering), t, seq[t] + 1)
RefReleased(t, e, op, ordering) ==
    Join(ref.fence[t], IF IsRelease(ordering) THEN RefNow(t, e, op, ordering) ELSE NoClock)

\* A cell, whether or not its buffer has seen this launch.
LEMMA CellTyped ==
    ASSUME TypeInv, NEW e \in Elems
    PROVE  CellOf(e) \in Cells /\ Len(CellOf(e).readers) <= MaxReaders
<1>1. CASE cell_launch[e] = launch
      BY <1>1 DEF TypeInv, MemOK, CellOf
<1>2. CASE cell_launch[e] # launch
  <2>1. CellOf(e) = NewCell(e \notin Shared /\ cells[e].init)
        BY <1>2 DEF CellOf, ResetCell
  <2>2. Len(<<>>) <= MaxReaders
        BY ShadowAssumption
  <2>3. (e \notin Shared /\ cells[e].init) \in BOOLEAN
        BY Zenon
  <2>4. QED BY <2>1, <2>2, <2>3, NewCellIsEmpty DEF Cells
<1>3. QED BY <1>1, <1>2

\* What the code computes of an access.
LEMMA AccessTyped ==
    ASSUME TypeInv, NEW t \in Threads, NEW e \in Elems, NEW op \in MemOps, NEW ordering
    PROVE  /\ seq[t] + 1 \in Nat
           /\ AccOf(t, op) \in Accesses
           /\ NowOf(t, e, op, ordering) \in Clocks
           /\ AcquiredPending(t, CellOf(e), op, ordering) \in Clocks
           /\ ReleaseOf(t, e, op, ordering) \in Clocks
<1>1. /\ seq[t] \in Nat /\ seq[t] + 1 \in Nat
      /\ clock[t] \in Clocks /\ fence_release[t] \in Clocks /\ fence_acquire[t] \in Clocks
      BY DEF TypeInv, SyncOK
<1>2. CellOf(e).release \in Clocks
      BY CellTyped DEF Cells, CellsOf
<1>3. AccOf(t, op) \in Accesses
      BY <1>1, ThreadPlaced DEF AccOf, Access, Accesses, TypeInv, SchedOK
<1>4. AcquiredClock(t, CellOf(e), op, ordering) \in Clocks
      BY <1>1, <1>2, JoinIsLeast DEF AcquiredClock
<1>5. NowOf(t, e, op, ordering) \in Clocks
      BY <1>1, <1>4, ObserveRaises DEF NowOf
<1>6. AcquiredPending(t, CellOf(e), op, ordering) \in Clocks
      BY <1>1, <1>2, JoinIsLeast DEF AcquiredPending
<1>7. Join(fence_release[t], IF IsRelease(ordering) THEN NowOf(t, e, op, ordering) ELSE NoClock)
         \in Clocks
      BY <1>1, <1>5, JoinIsLeast, NoClockKnowsNothing
<1>8. ReleaseOf(t, e, op, ordering) \in Clocks
      BY <1>2, <1>7, JoinIsLeast DEF ReleaseOf, Released
<1>9. QED BY <1>1, <1>3, <1>5, <1>6, <1>8

\* What an access records in its cell.
LEMMA RecordedTyped ==
    ASSUME TypeInv, NEW t \in Threads, NEW e \in Elems, NEW op \in MemOps
    PROVE  Recorded(t, e, op) \in Cells /\ Len(Recorded(t, e, op).readers) <= MaxReaders
<1>1. AccOf(t, op) \in Accesses
      BY AccessTyped
<1>2. CellOf(e) \in CellsOf(Accesses) /\ Len(CellOf(e).readers) <= MaxReaders
      BY CellTyped DEF Cells
<1>3. CASE op = "read"
      BY <1>1, <1>2, <1>3, OnReadRecords DEF Recorded, Cells
<1>4. CASE op # "read"
  <2>1. Len(<<>>) <= MaxReaders
        BY ShadowAssumption
  <2>2. QED BY <1>1, <1>2, <1>4, <2>1, OnWriteRecords DEF Recorded, Cells
<1>5. QED BY <1>3, <1>4

\* What an access conflicts with is an access of the element.
LEMMA ConflictTyped ==
    ASSUME TypeInv, NEW t \in Threads, NEW e \in Elems, NEW op \in MemOps, NEW ordering
    PROVE  ConflictOf(t, e, op, ordering) \subseteq Accesses
<1> SUFFICES ASSUME NEW a \in ConflictOf(t, e, op, ordering) PROVE a \in Accesses
    OBVIOUS
<1>1. \/ a = CellOf(e).last_write /\ a # NoAccess
      \/ \E i \in DOMAIN CellOf(e).readers : a = CellOf(e).readers[i]
      BY ReadConflictIsConcurrent, WriteConflictIsConcurrent DEF ConflictOf
<1>2. /\ CellOf(e).last_write \in Accesses \cup {NoAccess}
      /\ CellOf(e).readers \in Seq(Accesses)
      BY CellTyped DEF Cells, CellsOf
<1>3. QED BY <1>1, <1>2

\* The reference's values of an access.
LEMMA RefTyped ==
    ASSUME TypeInv, NEW t \in Threads, NEW e \in Elems, NEW op, NEW ordering
    PROVE  /\ RefNow(t, e, op, ordering) \in Clocks
           /\ RefAcquired(t, e, op, ordering) \in Clocks
           /\ RefReleased(t, e, op, ordering) \in Clocks
           /\ Leq(ref.clock[t], RefAcquired(t, e, op, ordering))
           /\ Leq(ref.clock[t], RefNow(t, e, op, ordering))
<1>1. /\ ref.clock[t] \in Clocks /\ ref.fence[t] \in Clocks /\ ref.elem[e] \in Clocks
      /\ seq[t] + 1 \in Nat
      BY DEF TypeInv, Refs, SyncOK
<1>2. RefAcquired(t, e, op, ordering) \in Clocks /\ Leq(ref.clock[t], RefAcquired(t, e, op, ordering))
      BY <1>1, JoinIsLeast DEF RefAcquired, Leq, Clocks
<1>3. RefNow(t, e, op, ordering) \in Clocks
      /\ Leq(RefAcquired(t, e, op, ordering), RefNow(t, e, op, ordering))
      BY <1>1, <1>2, ObserveRaises DEF RefNow
<1>4. RefReleased(t, e, op, ordering) \in Clocks
      BY <1>1, <1>3, JoinIsLeast, NoClockKnowsNothing DEF RefReleased
<1>5. Leq(ref.clock[t], RefNow(t, e, op, ordering))
      BY <1>1, <1>2, <1>3 DEF Leq, Clocks
<1>6. QED BY <1>2, <1>3, <1>4, <1>5

\* The reference after an access, field by field.
RefStep(t, e, op, ordering) ==
    /\ ref'.clock = [ref.clock EXCEPT ![t] = RefNow(t, e, op, ordering)]
    /\ ref'.fence = ref.fence
    /\ ref'.pending = [ref.pending EXCEPT ![t] = IF Atomic(op) /\ ~IsAcquire(ordering)
                                                 THEN Join(@, ref.elem[e]) ELSE @]
    /\ ref'.elem = [ref.elem EXCEPT ![e] = IF op = "rmw"
                                           THEN Join(@, RefReleased(t, e, op, ordering)) ELSE @]
    /\ ref'.hist = [ref.hist EXCEPT ![e] = @ \cup {AccOf(t, op)}]
    /\ ref'.races = ref.races \cup
          {Race(e, a, AccOf(t, op)) :
              a \in {h \in ref.hist[e] : ReallyRaces(h, AccOf(t, op), RefNow(t, e, op, ordering))}}
    /\ ref'.unordered = IF \E a \in ref.hist[e] :
                              /\ Concurrent(a, AccOf(t, op), NowOf(t, e, op, ordering))
                              /\ Writes(a.op) \/ Writes(op)
                        THEN ref.unordered \cup {e} ELSE ref.unordered
    /\ ref'.excused = ref.excused \cup LossesOf(t, e, op, ordering)
    /\ ref'.written = IF Writes(op) THEN ref.written \cup {e} ELSE ref.written
    /\ ref'.unwritten = IF op # "write" /\ e \notin ref.written
                        THEN ref.unwritten \cup {Read(e, AccOf(t, op))} ELSE ref.unwritten

\* A memory operation of a kernel that may be made on element e.
Allowed(e, op) ==
    /\ op \in kernel.kinds
    /\ op \in {"read", "write"} => e \in PlainElems
    /\ op \in {"load", "rmw"} => e \in AtomicElems

\* An access, whoever makes it, in terms of its values.
AccessStep(t, e, op, ordering) ==
    /\ CanStep(t)
    /\ ops' = [ops EXCEPT ![t] = @ + 1]
    /\ seq' = [seq EXCEPT ![t] = @ + 1]
    /\ clock' = [clock EXCEPT ![t] = NowOf(t, e, op, ordering)]
    /\ fence_acquire' = [fence_acquire EXCEPT ![t] = AcquiredPending(t, CellOf(e), op, ordering)]
    /\ cells' = [cells EXCEPT ![e] = [Recorded(t, e, op) EXCEPT
                                         !.release = ReleaseOf(t, e, op, ordering)]]
    /\ cell_launch' = [cell_launch EXCEPT ![e] = launch]
    /\ races' = races \cup {Race(e, a, AccOf(t, op)) : a \in ConflictOf(t, e, op, ordering)}
    /\ uninits' = IF op # "write" /\ ~CellOf(e).init
                  THEN uninits \cup {Read(e, AccOf(t, op))} ELSE uninits
    /\ RefStep(t, e, op, ordering)
    /\ ref' = RefAccess(t, e, op, ordering, AccOf(t, op), NowOf(t, e, op, ordering),
                        LossesOf(t, e, op, ordering))
    /\ UNCHANGED <<kernel, launch, fence_release, block, barrier_gen, warp_gen, at>>

\* CheckedAccess makes these steps.
LEMMA CheckedAccessSteps ==
    ASSUME TypeInv, NEW t \in Threads, NEW e \in Elems, NEW op \in MemOps, NEW ordering,
           CheckedAccess(t, e, op, ordering)
    PROVE  AccessStep(t, e, op, ordering)
<1>1. ref' = RefAccess(t, e, op, ordering, AccOf(t, op), NowOf(t, e, op, ordering),
                       LossesOf(t, e, op, ordering))
      BY DEF CheckedAccess, AccOf, NowOf, LossesOf, Recorded, ReleaseOf
<1>2. RefStep(t, e, op, ordering)
  <2> DEFINE acc == AccOf(t, op)
             own == NowOf(t, e, op, ordering)
             losses == LossesOf(t, e, op, ordering)
             acquired == RefAcquired(t, e, op, ordering)
             now == RefNow(t, e, op, ordering)
             released == RefReleased(t, e, op, ordering)
  <2>1. acc.seq = seq[t] + 1
        BY DEF AccOf, Access
  <2>2. now = Observe(acquired, t, acc.seq)
        BY <2>1 DEF RefNow
  <2> HIDE DEF acc, own, losses, acquired, now, released
  <2>3. ref' = [ref EXCEPT
            !.clock[t] = now,
            !.pending[t] = IF Atomic(op) /\ ~IsAcquire(ordering) THEN Join(@, ref.elem[e]) ELSE @,
            !.elem[e] = IF op = "rmw" THEN Join(@, released) ELSE @,
            !.hist[e] = @ \cup {acc},
            !.races = @ \cup {Race(e, a, acc) :
                                a \in {h \in ref.hist[e] : ReallyRaces(h, acc, now)}},
            !.unordered = IF \E a \in ref.hist[e] : /\ Concurrent(a, acc, own)
                                                    /\ Writes(a.op) \/ Writes(op)
                          THEN @ \cup {e} ELSE @,
            !.excused = @ \cup losses,
            !.written = IF Writes(op) THEN @ \cup {e} ELSE @,
            !.unwritten = IF op # "write" /\ e \notin ref.written
                          THEN @ \cup {Read(e, acc)} ELSE @]
    <3>1. ref' = RefAccess(t, e, op, ordering, acc, own, losses)
          BY <1>1 DEF acc, own, losses
    <3>2. acquired = IF Atomic(op) /\ IsAcquire(ordering) THEN Join(ref.clock[t], ref.elem[e])
                     ELSE ref.clock[t]
          BY DEF acquired, RefAcquired
    <3>3. released = Join(ref.fence[t], IF IsRelease(ordering) THEN now ELSE NoClock)
          BY DEF released, RefReleased, now
    <3>4. QED BY <3>1, <3>2, <3>3, <2>2, Zenon DEF RefAccess
  <2>4. ref \in Refs
        BY DEF TypeInv
  <2>5. QED BY <2>3, <2>4 DEF Refs, RefStep, acc, own, losses, released, now
<1>3. QED BY <1>1, <1>2 DEF CheckedAccess, AccessStep, CountOp, AccOf, NowOf, Recorded, ReleaseOf,
             ConflictOf, schedVars

\* An access that a kernel makes, of any kind.
AnyAccess(t) ==
    \E e \in Elems, op \in MemOps, ordering \in AllOrderings :
        Allowed(e, op) /\ AccessStep(t, e, op, ordering)

\* Every step, with the four kinds of access taken together.
LEMMA StepKinds ==
    ASSUME TypeInv, Next
    PROVE  \/ \E t \in Threads : \/ AnyAccess(t)
                                 \/ \E ordering \in kernel.fences : Fence(t, ordering)
                                 \/ SyncThreads(t)
                                 \/ BarrierDepart(t)
                                 \/ SyncWarp(t)
           \/ NextLaunch
<1>1. kernel.kinds \subseteq MemOps /\ kernel.orderings \subseteq AllOrderings
      BY DetectorAssumption DEF TypeInv, KernelRecords, MemOps
<1>2. Shared \subseteq PlainElems \ AtomicElems /\ PlainElems \subseteq Elems /\ AtomicElems \subseteq Elems
      BY DetectorAssumption DEF Elems
<1>3. ASSUME NEW t \in Threads, GlobalAccess(t) \/ SharedAccess(t) PROVE AnyAccess(t)
  <2>1. PICK e \in PlainElems, op \in kernel.kinds \cap {"read", "write"} :
             CheckedAccess(t, e, op, "relaxed")
        BY <1>2, <1>3 DEF GlobalAccess, SharedAccess
  <2>2. e \in Elems /\ op \in MemOps /\ "relaxed" \in AllOrderings /\ Allowed(e, op)
        BY <1>1, <1>2 DEF Allowed, AllOrderings
  <2>3. AccessStep(t, e, op, "relaxed")
        BY <2>1, <2>2, CheckedAccessSteps
  <2>4. QED BY <2>2, <2>3 DEF AnyAccess
<1>4. ASSUME NEW t \in Threads, AtomicLoad(t) \/ AtomicRmw(t) PROVE AnyAccess(t)
  <2>1. PICK e \in AtomicElems, op \in kernel.kinds \cap {"load", "rmw"},
             ordering \in kernel.orderings : CheckedAccess(t, e, op, ordering)
        BY <1>4 DEF AtomicLoad, AtomicRmw
  <2>2. e \in Elems /\ op \in MemOps /\ ordering \in AllOrderings /\ Allowed(e, op)
        BY <1>1, <1>2 DEF Allowed
  <2>3. AccessStep(t, e, op, ordering)
        BY <2>1, <2>2, CheckedAccessSteps
  <2>4. QED BY <2>2, <2>3 DEF AnyAccess
<1>5. QED BY <1>3, <1>4, Zenon DEF Next

(***************************************************************************)
(* Types are preserved.                                                    *)
(***************************************************************************)
\* The initial state is well typed.
LEMMA InitTyped == Init => TypeInv
<1> SUFFICES ASSUME Init PROVE TypeInv
    OBVIOUS
<1>1. NoClock \in Clocks
      BY NoClockKnowsNothing
<1>2. launch \in LaunchIds /\ launch = 1 /\ 0 \in 0 .. Later(1, MaxLaunches)
      BY DetectorAssumption DEF Init, LaunchIds, Later
<1>3. SyncOK
      BY <1>1 DEF Init, SyncOK, PerThread
<1>4. SchedOK
      BY DEF Init, SchedOK, PerThread
<1>5. MemOK
  <2>1. \A e \in Elems : cells[e] \in Cells /\ Len(cells[e].readers) <= MaxReaders
    <3> SUFFICES ASSUME NEW e \in Elems PROVE cells[e] \in Cells /\ Len(cells[e].readers) <= MaxReaders
        OBVIOUS
    <3>1. cells[e] = NewCell(e \notin Uninit \cup Shared) /\ (e \notin Uninit \cup Shared) \in BOOLEAN
          BY DEF Init
    <3>2. Len(<<>>) <= MaxReaders
          BY ShadowAssumption
    <3>3. QED BY <3>1, <3>2, NewCellIsEmpty DEF Cells
  <2>2. cells \in [Elems -> Cells]
        BY <2>1 DEF Init
  <2>3. QED BY <1>2, <2>1, <2>2 DEF Init, MemOK
<1>6. ref \in Refs
      BY <1>1 DEF Init, NewRef, Refs, PerThread
<1>7. QED BY <1>2, <1>3, <1>4, <1>5, <1>6 DEF Init, TypeInv

\* The records that an access adds.
LEMMA RecordsTyped ==
    ASSUME NEW a \in Accesses, NEW b \in Accesses, NEW e \in Elems
    PROVE  Race(e, a, b) \in RaceRecords /\ Read(e, b) \in ReadRecords
BY DEF Race, Read, RaceRecords, ReadRecords, Accesses

\* An access keeps the types.
LEMMA AccessKeepsTypes ==
    ASSUME TypeInv, NEW t \in Threads, AnyAccess(t) PROVE TypeInv'
<1>1. PICK e \in Elems, op \in MemOps, ordering \in AllOrderings : AccessStep(t, e, op, ordering)
      BY DEF AnyAccess
<1>2. /\ AccOf(t, op) \in Accesses /\ NowOf(t, e, op, ordering) \in Clocks
      /\ AcquiredPending(t, CellOf(e), op, ordering) \in Clocks
      /\ ReleaseOf(t, e, op, ordering) \in Clocks
      BY AccessTyped
<1>3. /\ RefNow(t, e, op, ordering) \in Clocks
      /\ RefReleased(t, e, op, ordering) \in Clocks
      BY RefTyped
<1>4. SyncOK'
      BY <1>1, <1>2 DEF AccessStep, TypeInv, SyncOK
<1>5. SchedOK'
      BY <1>1 DEF AccessStep, TypeInv, SchedOK
<1>6. MemOK'
  <2> DEFINE rec == Recorded(t, e, op)
             new == [rec EXCEPT !.release = ReleaseOf(t, e, op, ordering)]
  <2>1. rec \in Cells /\ Len(rec.readers) <= MaxReaders
        BY RecordedTyped
  <2> HIDE DEF rec
  <2>2. new \in Cells /\ new.readers = rec.readers
        BY <1>2, <2>1 DEF Cells, CellsOf
  <2>3. cells' = [cells EXCEPT ![e] = new] /\ cells \in [Elems -> Cells]
        BY <1>1 DEF AccessStep, rec, TypeInv, MemOK
  <2> HIDE DEF new
  <2>4. cells' \in [Elems -> Cells] /\ \A d \in Elems : Len(cells'[d].readers) <= MaxReaders
        BY <2>1, <2>2, <2>3 DEF TypeInv, MemOK
  <2>5. /\ cell_launch' \in [Elems -> 0 .. Later(1, MaxLaunches)]
        /\ \A d \in Elems : cell_launch'[d] <= launch'
        BY <1>1, DetectorAssumption DEF AccessStep, TypeInv, MemOK, LaunchIds, Later
  <2>6. races' \subseteq RaceRecords
        BY <1>1, <1>2, ConflictTyped, RecordsTyped DEF AccessStep, TypeInv, MemOK
  <2>7. uninits' \subseteq ReadRecords
        BY <1>1, <1>2, RecordsTyped DEF AccessStep, TypeInv, MemOK
  <2>8. QED BY <2>4, <2>5, <2>6, <2>7 DEF MemOK
<1>7. ref' \in Refs
  <2>1. /\ ref \in Refs
        /\ ref.hist[e] \subseteq Accesses
        BY DEF TypeInv, Refs
  <2>2. {Race(e, a, AccOf(t, op)) :
             a \in {h \in ref.hist[e] : ReallyRaces(h, AccOf(t, op), RefNow(t, e, op, ordering))}}
           \subseteq RaceRecords
        BY <2>1, <1>2, RecordsTyped
  <2>3. Read(e, AccOf(t, op)) \in ReadRecords
        BY <1>2, RecordsTyped
  <2>4. LossesOf(t, e, op, ordering) \subseteq Elems
        BY DEF LossesOf, Losses
  <2>5. RefStep(t, e, op, ordering)
        BY <1>1 DEF AccessStep
  <2>6. /\ ref'.clock \in [Threads -> Clocks] /\ ref'.fence \in [Threads -> Clocks]
        /\ ref'.pending \in [Threads -> Clocks] /\ ref'.elem \in [Elems -> Clocks]
        BY <2>1, <2>5, <1>3, JoinIsLeast DEF RefStep, Refs
  <2>7. /\ ref'.hist \in [Elems -> SUBSET Accesses]
        /\ ref'.races \subseteq RaceRecords
        BY <2>1, <2>2, <2>5, <1>2 DEF RefStep, Refs
  <2>8. /\ ref'.unordered \subseteq Elems /\ ref'.excused \subseteq Elems
        /\ ref'.written \subseteq Elems /\ ref'.unwritten \subseteq ReadRecords
        BY <2>1, <2>3, <2>4, <2>5 DEF RefStep, Refs
  <2>9. ref' = [clock |-> ref'.clock, fence |-> ref'.fence, pending |-> ref'.pending,
                elem |-> ref'.elem, hist |-> ref'.hist, races |-> ref'.races,
                unordered |-> ref'.unordered, excused |-> ref'.excused,
                written |-> ref'.written, unwritten |-> ref'.unwritten]
        BY <1>1, <2>1 DEF AccessStep, RefAccess, Refs
  <2>10. QED BY <2>6, <2>7, <2>8, <2>9 DEF Refs
<1>8. QED BY <1>1, <1>4, <1>5, <1>6, <1>7 DEF AccessStep, TypeInv

(***************************************************************************)
(* The clocks cover the order.  A thread that has been released but has    *)
(* not left its barrier does not yet have what it is owed: the block has.  *)
(***************************************************************************)
ThreadsCover ==
    \A t \in Threads :
        /\ at[t] # "released" => Leq(ref.clock[t], clock[t])
        /\ at[t] = "released" => Leq(ref.clock[t], block[BlockOf(t)])
        /\ at[t] = "barrier" => Leq(clock[t], block[BlockOf(t)])
        /\ Leq(ref.fence[t], fence_release[t])
        /\ Leq(ref.pending[t], fence_acquire[t])

CellsCover == \A e \in Elems : Leq(ref.elem[e], CellOf(e).release)

Inv == TypeInv /\ ThreadsCover /\ CellsCover

\* What the threads of a block know, at a barrier, once something bounds it.
LEMMA BlockKnowsMost ==
    ASSUME TypeInv, NEW t \in Threads, NEW d \in Clocks,
           \A v \in BlockThreads(BlockOf(t)) : Leq(ref.clock[v], d)
    PROVE  LET k == BlockKnows(BlockOf(t))
           IN  /\ k \in Clocks
               /\ Leq(k, d)
               /\ \A v \in BlockThreads(BlockOf(t)) : Leq(ref.clock[v], k)
               /\ \A u \in Threads : \E v \in BlockThreads(BlockOf(t)) : k[u] = ref.clock[v][u]
<1> DEFINE B == BlockThreads(BlockOf(t))
           S(u) == {ref.clock[v][u] : v \in B}
           k == BlockKnows(BlockOf(t))
<1>1. t \in B /\ B \subseteq Threads
      BY DEF BlockThreads
<1>2. \A v \in B, u \in Threads : ref.clock[v][u] \in Nat
      BY <1>1 DEF TypeInv, Refs, Clocks
<1> HIDE DEF B
<1>3. ASSUME NEW u \in Threads
      PROVE  k[u] \in S(u) /\ \A v \in B : ref.clock[v][u] <= k[u]
  <2>1. S(u) \in SUBSET Nat /\ S(u) # {} /\ d[u] \in Nat
        BY <1>1, <1>2 DEF Clocks
  <2>2. \A x \in S(u) : x <= d[u]
        BY DEF Leq, B
  <2>3. PICK n \in S(u) : \A x \in S(u) : x <= n
    <3> HIDE DEF S
    <3>1. QED BY <2>1, <2>2, GreatestExists
  <2>4. \A v \in B : ref.clock[v][u] <= n
        BY <2>3
  <2>5. k[u] = CHOOSE m \in S(u) : \A v \in B : ref.clock[v][u] <= m
        BY DEF BlockKnows, B
  <2>6. QED BY <2>4, <2>5
<1>4. k = [u \in Threads |-> k[u]]
  <2> DEFINE F(u) == CHOOSE n \in S(u) : \A v \in B : ref.clock[v][u] <= n
  <2>1. k = [u \in Threads |-> F(u)]
        BY DEF BlockKnows, B
  <2> HIDE DEF F, k
  <2>2. QED BY <2>1
<1> HIDE DEF k
<1>5. \A u \in Threads : \E v \in B : k[u] = ref.clock[v][u]
      BY <1>3
<1>6. k \in Clocks
      BY <1>2, <1>4, <1>5 DEF Clocks
<1>7. Leq(k, d)
      BY <1>5 DEF Leq, B
<1>8. \A v \in B : Leq(ref.clock[v], k)
      BY <1>3 DEF Leq
<1>9. QED BY <1>5, <1>6, <1>7, <1>8 DEF B, k

\* At the last arrival the block has the clocks of all its threads.
LEMMA LastArrivalKnows ==
    ASSUME Inv, NEW t \in Threads, at[t] = "kernel",
           \A u \in BlockThreads(BlockOf(t)) \ {t} : at[u] = "barrier"
    PROVE  LET d == Join(block[BlockOf(t)], clock[t])
           IN  /\ d \in Clocks
               /\ \A v \in BlockThreads(BlockOf(t)) : Leq(clock[v], d) /\ Leq(ref.clock[v], d)
<1> DEFINE b == BlockOf(t)
           d == Join(block[b], clock[t])
<1>1. block[b] \in Clocks /\ \A v \in Threads : clock[v] \in Clocks /\ ref.clock[v] \in Clocks
      BY ThreadPlaced DEF Inv, TypeInv, SyncOK, Refs
<1>2. d \in Clocks /\ Leq(block[b], d) /\ Leq(clock[t], d)
      BY <1>1, JoinIsLeast
<1> HIDE DEF d
<1>3. ASSUME NEW v \in BlockThreads(b) PROVE Leq(clock[v], d) /\ Leq(ref.clock[v], d)
  <2>1. v \in Threads /\ BlockOf(v) = b
        BY DEF BlockThreads
  <2>2. at[v] # "released" /\ (v # t => at[v] = "barrier")
        BY <1>3
  <2>3. Leq(ref.clock[v], clock[v])
        BY <2>1, <2>2 DEF Inv, ThreadsCover
  <2>4. Leq(clock[v], d)
    <3>1. CASE v = t
          BY <3>1, <1>2
    <3>2. CASE v # t
      <4>1. Leq(clock[v], block[b])
            BY <2>1, <2>2, <3>2 DEF Inv, ThreadsCover
      <4>2. QED BY <4>1, <1>1, <1>2, <2>1 DEF Leq, Clocks
    <3>3. QED BY <3>1, <3>2
  <2>5. QED BY <2>1, <2>3, <2>4, <1>1, <1>2 DEF Leq, Clocks
<1>4. QED BY <1>2, <1>3 DEF d

\* A release of the block, and what it hands over.
Release(t) ==
    LET b == BlockOf(t)
    IN  /\ at' = [u \in Threads |-> IF BlockOf(u) = b THEN "released" ELSE at[u]]
        /\ barrier_gen' = [barrier_gen EXCEPT ![b] = @ + 1]
        /\ ref' = [ref EXCEPT !.clock = ref'.clock]
        /\ ref'.clock = [u \in Threads |-> IF BlockOf(u) = b THEN BlockKnows(b) ELSE ref.clock[u]]

Arrival(t) ==
    /\ at' = [at EXCEPT ![t] = "barrier"]
    /\ UNCHANGED <<barrier_gen, ref>>

\* sync_threads, its two outcomes.
LEMMA SyncThreadsSteps ==
    ASSUME TypeInv, NEW t \in Threads, SyncThreads(t)
    PROVE  LET b == BlockOf(t)
               allHere == \A u \in BlockThreads(b) \ {t} : at[u] = "barrier"
           IN  /\ at[t] = "kernel"
               /\ ops' = [ops EXCEPT ![t] = @ + 1]
               /\ block' = [block EXCEPT ![b] = Join(@, clock[t])]
               /\ \/ ~allHere /\ Arrival(t)
                  \/ allHere /\ Release(t)
               /\ UNCHANGED <<kernel, launch, seq, clock, fence_release, fence_acquire, warp_gen,
                              cells, cell_launch, races, uninits>>
<1> DEFINE b == BlockOf(t)
           allHere == \A u \in BlockThreads(b) \ {t} : at[u] = "barrier"
           known == [u \in Threads |-> IF BlockOf(u) = b THEN BlockKnows(b) ELSE ref.clock[u]]
<1>1. /\ at[t] = "kernel"
      /\ ops' = [ops EXCEPT ![t] = @ + 1]
      /\ block' = [block EXCEPT ![b] = Join(@, clock[t])]
      /\ UNCHANGED <<kernel, launch, seq, clock, fence_release, fence_acquire, warp_gen,
                     cells, cell_launch, races, uninits>>
      BY Zenon DEF SyncThreads, CanStep, CountOp, memVars
<1>2. \/ ~allHere /\ Arrival(t)
      \/ /\ allHere
         /\ at' = [u \in Threads |-> IF BlockOf(u) = b THEN "released" ELSE at[u]]
         /\ barrier_gen' = [barrier_gen EXCEPT ![b] = @ + 1]
         /\ ref' = [ref EXCEPT !.clock = known]
      BY Zenon DEF SyncThreads, Arrival
<1>3. ASSUME ref' = [ref EXCEPT !.clock = known]
      PROVE  ref'.clock = known /\ ref' = [ref EXCEPT !.clock = ref'.clock]
  <2> HIDE DEF known
  <2>1. ref \in Refs
        BY DEF TypeInv
  <2>2. QED BY <1>3, <2>1 DEF Refs
<1> HIDE DEF allHere
<1>4. (/\ at' = [u \in Threads |-> IF BlockOf(u) = b THEN "released" ELSE at[u]]
       /\ barrier_gen' = [barrier_gen EXCEPT ![b] = @ + 1]
       /\ ref' = [ref EXCEPT !.clock = known]) => Release(t)
      BY <1>3, Zenon DEF Release
<1>5. QED BY <1>1, <1>2, <1>4, Zenon DEF allHere

\* The steps that are no access and no launch.
LEMMA OtherStepsKeepTypes ==
    ASSUME Inv, NEW t \in Threads,
           \/ \E ordering \in kernel.fences : Fence(t, ordering)
           \/ SyncThreads(t)
           \/ BarrierDepart(t)
           \/ SyncWarp(t)
    PROVE  TypeInv'
<1>1. TypeInv /\ NoClock \in Clocks
      BY NoClockKnowsNothing DEF Inv
<1>2. /\ clock[t] \in Clocks /\ fence_acquire[t] \in Clocks /\ ref.clock[t] \in Clocks
      /\ ref.pending[t] \in Clocks /\ BlockOf(t) \in Blocks /\ block[BlockOf(t)] \in Clocks
      /\ WarpOf(t) \in Warps
      BY <1>1, ThreadPlaced DEF TypeInv, SyncOK, Refs
<1>3. CASE \E ordering \in kernel.fences : Fence(t, ordering)
  <2>1. PICK ordering : Fence(t, ordering)
        BY <1>3
  <2> DEFINE c == FencedClock(t, ordering)
             r == IF IsAcquire(ordering) THEN Join(ref.clock[t], ref.pending[t]) ELSE ref.clock[t]
  <2>2. c \in Clocks /\ r \in Clocks
        BY <1>2, JoinIsLeast DEF FencedClock
  <2>3. SyncOK'
        BY <1>1, <2>1, <2>2 DEF Fence, TypeInv, SyncOK
  <2>4. SchedOK'
    <3>1. ops' = [ops EXCEPT ![t] = @ + 1] /\ UNCHANGED <<barrier_gen, warp_gen, at>>
          BY <2>1, Zenon DEF Fence, CountOp, schedVars
    <3>2. QED BY <1>1, <3>1 DEF TypeInv, SchedOK
  <2>5. MemOK'
        BY <1>1, <2>1 DEF Fence, TypeInv, MemOK, memVars
  <2>6. ref' \in Refs
    <3>1. ref' = [ref EXCEPT !.clock[t] = r,
                             !.pending[t] = IF IsAcquire(ordering) THEN NoClock ELSE @,
                             !.fence[t] = IF IsRelease(ordering) THEN r ELSE @]
          BY <2>1, Zenon DEF Fence
    <3> HIDE DEF r
    <3>2. QED BY <1>1, <2>2, <3>1 DEF TypeInv, Refs
  <2>7. QED BY <1>1, <2>1, <2>3, <2>4, <2>5, <2>6 DEF Fence, TypeInv
<1>4. CASE SyncThreads(t)
  <2> DEFINE b == BlockOf(t)
             allHere == \A u \in BlockThreads(b) \ {t} : at[u] = "barrier"
             d == Join(block[b], clock[t])
  <2>1. /\ at[t] = "kernel"
        /\ ops' = [ops EXCEPT ![t] = @ + 1]
        /\ block' = [block EXCEPT ![b] = d]
        /\ UNCHANGED <<kernel, launch, seq, clock, fence_release, fence_acquire, warp_gen,
                       cells, cell_launch, races, uninits>>
        /\ \/ ~allHere /\ Arrival(t)
           \/ allHere /\ Release(t)
        BY <1>1, <1>4, SyncThreadsSteps, Zenon
  <2>2. d \in Clocks
        BY <1>2, JoinIsLeast
  <2> HIDE DEF d
  <2>3. SyncOK'
        BY <1>1, <1>2, <2>1, <2>2 DEF TypeInv, SyncOK
  <2>4. MemOK'
        BY <1>1, <2>1 DEF TypeInv, MemOK
  <2>5. SchedOK' /\ ref' \in Refs
    <3>1. CASE Arrival(t)
          BY <1>1, <2>1, <3>1 DEF Arrival, TypeInv, SchedOK
    <3>2. CASE allHere /\ Release(t)
      <4>1. BlockKnows(b) \in Clocks
        <5>1. d \in Clocks /\ \A v \in BlockThreads(b) : Leq(ref.clock[v], d)
              BY <2>1, <3>2, LastArrivalKnows DEF d
        <5> HIDE DEF allHere
        <5>2. QED BY <1>1, <5>1, BlockKnowsMost
      <4> HIDE DEF allHere
      <4>2. ref'.clock \in [Threads -> Clocks]
            BY <1>1, <4>1, <3>2 DEF Release, TypeInv, Refs
      <4>3. ref' \in Refs
        <5>1. ref' = [ref EXCEPT !.clock = ref'.clock] /\ ref \in Refs
              BY <1>1, <3>2 DEF Release, TypeInv
        <5>2. QED BY <4>2, <5>1 DEF Refs
      <4>4. SchedOK'
        <5>1. /\ at' = [u \in Threads |-> IF BlockOf(u) = b THEN "released" ELSE at[u]]
              /\ barrier_gen' = [barrier_gen EXCEPT ![b] = @ + 1]
              BY <3>2, Zenon DEF Release
        <5>2. barrier_gen' \in [Blocks -> Nat]
              BY <1>1, <1>2, <5>1 DEF TypeInv, SchedOK
        <5>3. at' \in [Threads -> {"kernel", "barrier", "released", "warp"}]
              BY <1>1, <5>1 DEF TypeInv, SchedOK
        <5>4. ops' = [ops EXCEPT ![t] = @ + 1] /\ warp_gen' = warp_gen
              BY <2>1, Zenon
        <5>5. QED BY <1>1, <5>2, <5>3, <5>4 DEF TypeInv, SchedOK
      <4>5. QED BY <4>3, <4>4
    <3>3. QED BY <2>1, <3>1, <3>2
  <2>6. QED BY <1>1, <2>1, <2>3, <2>4, <2>5 DEF TypeInv
<1>5. CASE BarrierDepart(t)
  <2>1. Join(clock[t], block[BlockOf(t)]) \in Clocks
        BY <1>2, JoinIsLeast
  <2>2. SyncOK'
        BY <1>1, <1>5, <2>1 DEF BarrierDepart, TypeInv, SyncOK
  <2>3. SchedOK'
        BY <1>1, <1>5 DEF BarrierDepart, TypeInv, SchedOK
  <2>4. MemOK'
        BY <1>1, <1>5 DEF BarrierDepart, TypeInv, MemOK, memVars
  <2>5. ref' \in Refs
        BY <1>1, <1>5 DEF BarrierDepart, TypeInv, Refs
  <2>6. QED BY <1>1, <1>5, <2>2, <2>3, <2>4, <2>5 DEF BarrierDepart, TypeInv
<1>6. CASE SyncWarp(t)
  <2>1. SyncOK'
        BY <1>1, <1>6 DEF SyncWarp, TypeInv, SyncOK, syncVars
  <2>2. SchedOK'
        BY <1>1, <1>2, <1>6 DEF SyncWarp, TypeInv, SchedOK, CountOp
  <2>3. MemOK'
        BY <1>1, <1>6 DEF SyncWarp, TypeInv, MemOK, memVars
  <2>4. QED BY <1>1, <1>6, <2>1, <2>2, <2>3 DEF SyncWarp, TypeInv
<1>7. QED BY <1>3, <1>4, <1>5, <1>6

\* A new launch keeps the types.
LEMMA LaunchKeepsTypes == ASSUME TypeInv, NextLaunch PROVE TypeInv'
<1>1. NoClock \in Clocks
      BY NoClockKnowsNothing
<1>2. launch \in Nat /\ launch' = launch + 1 /\ launch' \in LaunchIds /\ kernel' = kernel
      BY DetectorAssumption DEF NextLaunch, TypeInv, LaunchIds, Later
<1>3. SyncOK'
      BY <1>1 DEF NextLaunch, SyncOK, PerThread
<1>4. SchedOK'
      BY DEF NextLaunch, SchedOK, PerThread
<1>5. MemOK'
  <2>1. \A e \in Elems : cells'[e] \in Cells /\ Len(cells'[e].readers) <= MaxReaders
    <3> SUFFICES ASSUME NEW e \in Elems
                 PROVE  cells'[e] \in Cells /\ Len(cells'[e].readers) <= MaxReaders
        OBVIOUS
    <3>1. CASE e \notin Shared
          BY <3>1 DEF NextLaunch, TypeInv, MemOK
    <3>2. CASE e \in Shared
      <4>1. cells'[e] = NewCell(FALSE)
            BY <3>2 DEF NextLaunch
      <4>2. Len(<<>>) <= MaxReaders
            BY ShadowAssumption
      <4>3. QED BY <4>1, <4>2, NewCellIsEmpty DEF Cells
    <3>3. QED BY <3>1, <3>2
  <2>2. DOMAIN cells' = Elems /\ cells' = [e \in Elems |-> cells'[e]]
        BY DEF NextLaunch
  <2>3. cells' \in [Elems -> Cells]
        BY <2>1, <2>2
  <2>4. /\ cell_launch' \in [Elems -> 0 .. Later(1, MaxLaunches)]
        /\ \A e \in Elems : cell_launch'[e] <= launch'
        BY <1>2, DetectorAssumption DEF NextLaunch, TypeInv, MemOK, Later
  <2>5. QED BY <2>1, <2>3, <2>4 DEF NextLaunch, MemOK
<1>6. ref' \in Refs
      BY <1>1 DEF NextLaunch, NewRef, Refs, PerThread, TypeInv
<1>7. QED BY <1>2, <1>3, <1>4, <1>5, <1>6 DEF TypeInv

(***************************************************************************)
(* The cell of an element, from step to step.                              *)
(***************************************************************************)
\* An access changes the cell of its element and no other.
LEMMA CellAfterAccess ==
    ASSUME TypeInv, NEW t \in Threads, NEW e \in Elems, NEW op \in MemOps, NEW ordering,
           AccessStep(t, e, op, ordering), NEW d \in Elems
    PROVE  /\ d # e => CellOf(d)' = CellOf(d)
           /\ d = e => /\ CellOf(e)'.init = Recorded(t, e, op).init
                       /\ CellOf(e)'.last_write = Recorded(t, e, op).last_write
                       /\ CellOf(e)'.readers = Recorded(t, e, op).readers
                       /\ CellOf(e)'.release = ReleaseOf(t, e, op, ordering)
<1> DEFINE rec == Recorded(t, e, op)
           new == [rec EXCEPT !.release = ReleaseOf(t, e, op, ordering)]
<1>1. rec \in Cells /\ ReleaseOf(t, e, op, ordering) \in Clocks
      BY RecordedTyped, AccessTyped
<1>2. /\ launch' = launch
      /\ cells' = [cells EXCEPT ![e] = new]
      /\ cell_launch' = [cell_launch EXCEPT ![e] = launch]
      /\ cells \in [Elems -> Cells] /\ DOMAIN cell_launch = Elems
      BY DEF AccessStep, TypeInv, MemOK
<1> HIDE DEF rec
<1>3. /\ new.init = rec.init /\ new.last_write = rec.last_write
      /\ new.readers = rec.readers /\ new.release = ReleaseOf(t, e, op, ordering)
      BY <1>1 DEF Cells, CellsOf
<1> HIDE DEF new
<1>4. cells'[e] = new /\ cell_launch'[e] = launch'
      BY <1>2
<1>5. CellOf(e)' = new
      BY <1>4 DEF CellOf
<1>6. d # e => CellOf(d)' = CellOf(d)
      BY <1>2 DEF CellOf, ResetCell
<1>7. QED BY <1>3, <1>5, <1>6 DEF rec

\* A step that leaves the buffers alone leaves every cell alone.
LEMMA CellUnchanged ==
    ASSUME UNCHANGED <<cells, cell_launch, launch>>, NEW e PROVE CellOf(e)' = CellOf(e)
BY DEF CellOf, ResetCell

\* A new launch empties every cell.  Global memory remembers what was written.
LEMMA CellAfterLaunch ==
    ASSUME TypeInv, NextLaunch, NEW e \in Elems
    PROVE  /\ CellOf(e)'.last_write = NoAccess /\ CellOf(e)'.readers = <<>>
           /\ CellOf(e)'.release = NoClock
           /\ CellOf(e)'.init = (e \notin Shared /\ CellOf(e).init)
<1>1. /\ launch \in Nat /\ launch >= 1 /\ launch' = launch + 1
      /\ cell_launch'[e] = IF e \in Shared THEN 0 ELSE cell_launch[e]
      /\ cells'[e] = IF e \in Shared THEN NewCell(FALSE) ELSE cells[e]
      /\ cell_launch[e] \in Nat /\ cell_launch[e] <= launch
      BY DetectorAssumption DEF NextLaunch, TypeInv, LaunchIds, MemOK, Later
<1>2. cell_launch'[e] # launch'
      BY <1>1
<1>3. CellOf(e)' = NewCell(e \notin Shared /\ cells'[e].init)
      BY <1>2 DEF CellOf, ResetCell
<1>4. (e \notin Shared /\ cells'[e].init) \in BOOLEAN
      BY Zenon
<1>5. e \notin Shared => CellOf(e).init = cells[e].init
  <2>1. cells[e].init \in BOOLEAN
        BY DEF TypeInv, MemOK, Cells, CellsOf
  <2>2. QED BY <2>1 DEF CellOf, ResetCell, NewCell
<1>6. (e \notin Shared /\ cells'[e].init) = (e \notin Shared /\ CellOf(e).init)
      BY <1>1, <1>5
<1>7. QED BY <1>3, <1>4, <1>6, NewCellIsEmpty

(***************************************************************************)
(* The clocks keep covering the order.                                     *)
(***************************************************************************)
\* The clock of an access covers the reference's, and its release too.
LEMMA AccessCovers ==
    ASSUME Inv, NEW t \in Threads, NEW e \in Elems, NEW op \in MemOps, NEW ordering,
           at[t] = "kernel"
    PROVE  /\ Leq(RefNow(t, e, op, ordering), NowOf(t, e, op, ordering))
           /\ Leq(IF op = "rmw" THEN Join(ref.elem[e], RefReleased(t, e, op, ordering))
                                ELSE ref.elem[e], ReleaseOf(t, e, op, ordering))
           /\ Leq(IF Atomic(op) /\ ~IsAcquire(ordering) THEN Join(ref.pending[t], ref.elem[e])
                                                        ELSE ref.pending[t],
                  AcquiredPending(t, CellOf(e), op, ordering))
<1>1. TypeInv /\ seq[t] + 1 \in Nat
      BY DEF Inv, TypeInv, SyncOK
<1>2. /\ clock[t] \in Clocks /\ fence_release[t] \in Clocks /\ fence_acquire[t] \in Clocks
      /\ ref.clock[t] \in Clocks /\ ref.fence[t] \in Clocks /\ ref.pending[t] \in Clocks
      /\ ref.elem[e] \in Clocks
      BY <1>1 DEF TypeInv, SyncOK, Refs
<1>3. CellOf(e).release \in Clocks
      BY <1>1, CellTyped DEF Cells, CellsOf
<1>4. /\ Leq(ref.clock[t], clock[t]) /\ Leq(ref.fence[t], fence_release[t])
      /\ Leq(ref.pending[t], fence_acquire[t]) /\ Leq(ref.elem[e], CellOf(e).release)
      BY DEF Inv, ThreadsCover, CellsCover
<1>a. ASSUME NEW c \in Clocks, NEW d \in Clocks, NEW x \in Clocks, NEW y \in Clocks,
             Leq(c, x), Leq(d, y)
      PROVE  Leq(Join(c, d), Join(x, y)) /\ Leq(c, Join(x, y)) /\ Leq(d, Join(x, y))
      BY <1>a DEF Leq, Join, Later, Clocks
<1>5. Leq(RefAcquired(t, e, op, ordering), AcquiredClock(t, CellOf(e), op, ordering))
      BY <1>2, <1>3, <1>4, <1>a DEF RefAcquired, AcquiredClock
<1>6. /\ RefAcquired(t, e, op, ordering) \in Clocks /\ RefNow(t, e, op, ordering) \in Clocks
      /\ RefReleased(t, e, op, ordering) \in Clocks
      BY <1>1, RefTyped
<1>7. AcquiredClock(t, CellOf(e), op, ordering) \in Clocks
      BY <1>2, <1>3, JoinIsLeast DEF AcquiredClock
<1>8. Leq(RefNow(t, e, op, ordering), NowOf(t, e, op, ordering))
      BY <1>1, <1>5, <1>6, <1>7, ObserveRaises DEF RefNow, NowOf
<1> DEFINE now == NowOf(t, e, op, ordering)
           mine == IF IsRelease(ordering) THEN now ELSE NoClock
           its == IF IsRelease(ordering) THEN RefNow(t, e, op, ordering) ELSE NoClock
<1>9. now \in Clocks
      BY <1>1, AccessTyped
<1> HIDE DEF now
<1>10. mine \in Clocks /\ its \in Clocks /\ Leq(its, mine)
      BY <1>6, <1>8, <1>9, NoClockKnowsNothing DEF Leq, Clocks, now
<1> HIDE DEF mine, its
<1>11. RefReleased(t, e, op, ordering) = Join(ref.fence[t], its)
      BY DEF RefReleased, its
<1>12. ReleaseOf(t, e, op, ordering) =
          IF Atomic(op) THEN Join(CellOf(e).release, Join(fence_release[t], mine))
          ELSE CellOf(e).release
      BY DEF ReleaseOf, Released, mine, now
<1>13. /\ Join(fence_release[t], mine) \in Clocks /\ Join(ref.fence[t], its) \in Clocks
       /\ Leq(Join(ref.fence[t], its), Join(fence_release[t], mine))
      BY <1>2, <1>4, <1>10, <1>a, JoinIsLeast
<1>14. Leq(IF op = "rmw" THEN Join(ref.elem[e], RefReleased(t, e, op, ordering))
                         ELSE ref.elem[e], ReleaseOf(t, e, op, ordering))
  <2>1. CASE ~Atomic(op)
        BY <2>1, <1>4, <1>12 DEF Atomic
  <2>2. CASE Atomic(op)
    <3>1. /\ Leq(Join(ref.elem[e], Join(ref.fence[t], its)),
                 Join(CellOf(e).release, Join(fence_release[t], mine)))
          /\ Leq(ref.elem[e], Join(CellOf(e).release, Join(fence_release[t], mine)))
          BY <1>2, <1>3, <1>4, <1>13, <1>a
    <3>2. QED BY <2>2, <3>1, <1>11, <1>12
  <2>3. QED BY <2>1, <2>2
<1>15. Leq(IF Atomic(op) /\ ~IsAcquire(ordering) THEN Join(ref.pending[t], ref.elem[e])
                                                 ELSE ref.pending[t],
           AcquiredPending(t, CellOf(e), op, ordering))
      BY <1>2, <1>3, <1>4, <1>a DEF AcquiredPending
<1>16. QED BY <1>8, <1>14, <1>15

\* An access keeps the clocks covering.
LEMMA AccessKeepsCover ==
    ASSUME Inv, NEW t \in Threads, AnyAccess(t) PROVE ThreadsCover' /\ CellsCover'
<1>1. PICK e \in Elems, op \in MemOps, ordering \in AllOrderings : AccessStep(t, e, op, ordering)
      BY DEF AnyAccess
<1>2. TypeInv /\ at[t] = "kernel"
      BY <1>1 DEF Inv, AccessStep, CanStep
<1>3. /\ Leq(RefNow(t, e, op, ordering), NowOf(t, e, op, ordering))
      /\ Leq(IF op = "rmw" THEN Join(ref.elem[e], RefReleased(t, e, op, ordering))
                           ELSE ref.elem[e], ReleaseOf(t, e, op, ordering))
      /\ Leq(IF Atomic(op) /\ ~IsAcquire(ordering) THEN Join(ref.pending[t], ref.elem[e])
                                                   ELSE ref.pending[t],
             AcquiredPending(t, CellOf(e), op, ordering))
      BY <1>2, AccessCovers
<1>4. /\ DOMAIN ref.clock = Threads /\ DOMAIN ref.pending = Threads /\ DOMAIN ref.elem = Elems
      /\ DOMAIN clock = Threads /\ DOMAIN fence_acquire = Threads
      BY <1>2 DEF TypeInv, SyncOK, Refs
<1>5. /\ clock' = [clock EXCEPT ![t] = NowOf(t, e, op, ordering)]
      /\ fence_acquire' = [fence_acquire EXCEPT ![t] = AcquiredPending(t, CellOf(e), op, ordering)]
      /\ UNCHANGED <<fence_release, block, at>>
      BY <1>1, Zenon DEF AccessStep
<1>6. /\ ref'.clock = [ref.clock EXCEPT ![t] = RefNow(t, e, op, ordering)]
      /\ ref'.fence = ref.fence
      /\ ref'.pending = [ref.pending EXCEPT ![t] = IF Atomic(op) /\ ~IsAcquire(ordering)
                                                   THEN Join(@, ref.elem[e]) ELSE @]
      /\ ref'.elem = [ref.elem EXCEPT ![e] = IF op = "rmw"
                                             THEN Join(@, RefReleased(t, e, op, ordering)) ELSE @]
      BY <1>1, Zenon DEF AccessStep, RefStep
<1>7. ThreadsCover'
  <2> SUFFICES ASSUME NEW u \in Threads
               PROVE  /\ at'[u] # "released" => Leq(ref'.clock[u], clock'[u])
                      /\ at'[u] = "released" => Leq(ref'.clock[u], block'[BlockOf(u)])
                      /\ at'[u] = "barrier" => Leq(clock'[u], block'[BlockOf(u)])
                      /\ Leq(ref'.fence[u], fence_release'[u])
                      /\ Leq(ref'.pending[u], fence_acquire'[u])
      BY DEF ThreadsCover, Leq
  <2>1. CASE u # t
        BY <2>1, <1>4, <1>5, <1>6 DEF Inv, ThreadsCover
  <2>2. CASE u = t
    <3>1. /\ ref'.clock[t] = RefNow(t, e, op, ordering) /\ clock'[t] = NowOf(t, e, op, ordering)
          /\ ref'.pending[t] = (IF Atomic(op) /\ ~IsAcquire(ordering)
                                THEN Join(ref.pending[t], ref.elem[e]) ELSE ref.pending[t])
          /\ fence_acquire'[t] = AcquiredPending(t, CellOf(e), op, ordering)
          BY <1>4, <1>5, <1>6
    <3>2. Leq(ref'.fence[t], fence_release'[t])
          BY <1>5, <1>6 DEF Inv, ThreadsCover
    <3>3. at'[t] = "kernel"
          BY <1>2, <1>5
    <3>4. QED BY <2>2, <1>3, <3>1, <3>2, <3>3
  <2>3. QED BY <2>1, <2>2
<1>8. CellsCover'
  <2> SUFFICES ASSUME NEW d \in Elems PROVE Leq(ref'.elem[d], CellOf(d)'.release)
      BY DEF CellsCover, Leq
  <2>1. CASE d # e
    <3>1. CellOf(d)' = CellOf(d) /\ ref'.elem[d] = ref.elem[d]
          BY <2>1, <1>1, <1>2, <1>4, <1>6, CellAfterAccess
    <3>2. Leq(ref.elem[d], CellOf(d).release)
          BY DEF Inv, CellsCover
    <3>3. QED BY <3>1, <3>2
  <2>2. CASE d = e
    <3>1. CellOf(e)'.release = ReleaseOf(t, e, op, ordering)
          BY <1>1, <1>2, CellAfterAccess
    <3>2. ref'.elem[e] = IF op = "rmw" THEN Join(ref.elem[e], RefReleased(t, e, op, ordering))
                         ELSE ref.elem[e]
          BY <1>4, <1>6
    <3>3. QED BY <2>2, <3>1, <3>2, <1>3
  <2>3. QED BY <2>1, <2>2
<1>9. QED BY <1>7, <1>8

\* A fence keeps the clocks covering.
LEMMA FenceKeepsCover ==
    ASSUME Inv, NEW t \in Threads, NEW ordering, Fence(t, ordering)
    PROVE  ThreadsCover' /\ CellsCover'
<1> DEFINE c == FencedClock(t, ordering)
           r == IF IsAcquire(ordering) THEN Join(ref.clock[t], ref.pending[t]) ELSE ref.clock[t]
<1>1. TypeInv /\ at[t] = "kernel"
      BY DEF Inv, Fence, CanStep
<1>2. /\ clock[t] \in Clocks /\ fence_acquire[t] \in Clocks
      /\ ref.clock[t] \in Clocks /\ ref.pending[t] \in Clocks
      BY <1>1 DEF TypeInv, SyncOK, Refs
<1>3. Leq(ref.clock[t], clock[t]) /\ Leq(ref.pending[t], fence_acquire[t])
      BY <1>1 DEF Inv, ThreadsCover
<1>4. Leq(r, c)
      BY <1>2, <1>3 DEF FencedClock, Leq, Join, Later, Clocks
<1>5. /\ clock' = [clock EXCEPT ![t] = c]
      /\ fence_acquire' = IF IsAcquire(ordering)
                          THEN [fence_acquire EXCEPT ![t] = NoClock] ELSE fence_acquire
      /\ fence_release' = IF IsRelease(ordering)
                          THEN [fence_release EXCEPT ![t] = c] ELSE fence_release
      /\ ref' = [ref EXCEPT !.clock[t] = r,
                            !.pending[t] = IF IsAcquire(ordering) THEN NoClock ELSE @,
                            !.fence[t] = IF IsRelease(ordering) THEN r ELSE @]
      /\ UNCHANGED <<launch, block, at, cells, cell_launch>>
      BY Zenon DEF Fence, schedVars, memVars
<1> HIDE DEF c, r
<1>6. /\ ref'.clock = [ref.clock EXCEPT ![t] = r]
      /\ ref'.pending = [ref.pending EXCEPT ![t] = IF IsAcquire(ordering) THEN NoClock ELSE @]
      /\ ref'.fence = [ref.fence EXCEPT ![t] = IF IsRelease(ordering) THEN r ELSE @]
      /\ ref'.elem = ref.elem
      BY <1>1, <1>5 DEF TypeInv, Refs
<1>7. /\ DOMAIN ref.clock = Threads /\ DOMAIN ref.pending = Threads /\ DOMAIN ref.fence = Threads
      /\ DOMAIN clock = Threads /\ DOMAIN fence_acquire = Threads /\ DOMAIN fence_release = Threads
      BY <1>1 DEF TypeInv, SyncOK, Refs
<1>8. Leq(NoClock, NoClock)
      BY DEF Leq, NoClock
<1>9. ThreadsCover'
  <2> SUFFICES ASSUME NEW u \in Threads
               PROVE  /\ at'[u] # "released" => Leq(ref'.clock[u], clock'[u])
                      /\ at'[u] = "released" => Leq(ref'.clock[u], block'[BlockOf(u)])
                      /\ at'[u] = "barrier" => Leq(clock'[u], block'[BlockOf(u)])
                      /\ Leq(ref'.fence[u], fence_release'[u])
                      /\ Leq(ref'.pending[u], fence_acquire'[u])
      BY DEF ThreadsCover, Leq
  <2>1. CASE u # t
        BY <2>1, <1>5, <1>6, <1>7 DEF Inv, ThreadsCover
  <2>2. CASE u = t
    <3>1. Leq(ref'.clock[t], clock'[t]) /\ at'[t] = "kernel"
          BY <1>1, <1>4, <1>5, <1>6, <1>7
    <3>2. Leq(ref'.fence[t], fence_release'[t])
          BY <1>4, <1>5, <1>6, <1>7 DEF Inv, ThreadsCover
    <3>3. Leq(ref'.pending[t], fence_acquire'[t])
          BY <1>8, <1>5, <1>6, <1>7 DEF Inv, ThreadsCover
    <3>4. QED BY <2>2, <3>1, <3>2, <3>3
  <2>3. QED BY <2>1, <2>2
<1>10. CellsCover'
  <2> SUFFICES ASSUME NEW d \in Elems PROVE Leq(ref'.elem[d], CellOf(d)'.release)
      BY DEF CellsCover, Leq
  <2>1. CellOf(d)' = CellOf(d)
        BY <1>5, CellUnchanged
  <2>2. Leq(ref.elem[d], CellOf(d).release)
        BY DEF Inv, CellsCover
  <2>3. QED BY <1>6, <2>1, <2>2
<1>11. QED BY <1>9, <1>10

\* An arrival at the barrier, and the release of a block.
LEMMA BarrierKeepsCover ==
    ASSUME Inv, NEW t \in Threads, SyncThreads(t) PROVE ThreadsCover' /\ CellsCover'
<1> DEFINE b == BlockOf(t)
           allHere == \A u \in BlockThreads(b) \ {t} : at[u] = "barrier"
           d == Join(block[b], clock[t])
<1>1. /\ at[t] = "kernel"
      /\ block' = [block EXCEPT ![b] = d]
      /\ UNCHANGED <<launch, clock, fence_release, fence_acquire, cells, cell_launch>>
      /\ \/ ~allHere /\ Arrival(t)
         \/ allHere /\ Release(t)
      BY SyncThreadsSteps, Zenon DEF Inv
<1>2. TypeInv /\ b \in Blocks /\ block[b] \in Clocks /\ clock[t] \in Clocks
      BY ThreadPlaced DEF Inv, TypeInv, SyncOK
<1>3. d \in Clocks /\ Leq(block[b], d) /\ Leq(clock[t], d)
      BY <1>2, JoinIsLeast
<1>4. DOMAIN block = Blocks /\ \A u \in Threads : BlockOf(u) \in Blocks /\ block[BlockOf(u)] \in Clocks
      BY <1>2, ThreadPlaced DEF TypeInv, SyncOK
<1>5. ASSUME allHere
      PROVE  \A v \in BlockThreads(b) : Leq(clock[v], d) /\ Leq(ref.clock[v], d)
      BY <1>1, <1>5, LastArrivalKnows
<1>6. ASSUME allHere PROVE BlockKnows(b) \in Clocks /\ Leq(BlockKnows(b), d)
      BY <1>2, <1>3, <1>5, <1>6, BlockKnowsMost
<1> HIDE DEF d, allHere
<1>7. \A u \in Threads : Leq(block[BlockOf(u)], block'[BlockOf(u)])
  <2> SUFFICES ASSUME NEW u \in Threads PROVE Leq(block[BlockOf(u)], block'[BlockOf(u)])
      OBVIOUS
  <2>1. CASE BlockOf(u) = b
        BY <2>1, <1>1, <1>3, <1>4
  <2>2. CASE BlockOf(u) # b
        BY <2>2, <1>1, <1>4 DEF Leq, Clocks
  <2>3. QED BY <2>1, <2>2
<1>8. \A u \in Threads : block'[BlockOf(u)] \in Clocks
      BY <1>1, <1>3, <1>4
<1>9. block'[b] = d
      BY <1>1, <1>2, <1>4
<1>10. \A u \in Threads : clock[u] \in Clocks /\ ref.clock[u] \in Clocks
      BY <1>2 DEF TypeInv, SyncOK, Refs
<1>11. ASSUME NEW x \in Clocks, NEW u \in Threads, Leq(x, block[BlockOf(u)])
       PROVE  Leq(x, block'[BlockOf(u)])
  <2>1. block[BlockOf(u)] \in Clocks /\ block'[BlockOf(u)] \in Clocks
        BY <1>4, <1>8
  <2>2. Leq(block[BlockOf(u)], block'[BlockOf(u)])
        BY <1>7
  <2>3. QED BY <1>11, <2>1, <2>2 DEF Leq, Clocks
<1>12. ThreadsCover'
  <2> SUFFICES ASSUME NEW u \in Threads
               PROVE  /\ at'[u] # "released" => Leq(ref'.clock[u], clock'[u])
                      /\ at'[u] = "released" => Leq(ref'.clock[u], block'[BlockOf(u)])
                      /\ at'[u] = "barrier" => Leq(clock'[u], block'[BlockOf(u)])
                      /\ Leq(ref'.fence[u], fence_release'[u])
                      /\ Leq(ref'.pending[u], fence_acquire'[u])
      BY DEF ThreadsCover, Leq
  <2>1. /\ at[u] # "released" => Leq(ref.clock[u], clock[u])
        /\ at[u] = "released" => Leq(ref.clock[u], block[BlockOf(u)])
        /\ at[u] = "barrier" => Leq(clock[u], block[BlockOf(u)])
        /\ Leq(ref.fence[u], fence_release[u])
        /\ Leq(ref.pending[u], fence_acquire[u])
        BY DEF Inv, ThreadsCover
  <2>2. clock' = clock /\ fence_release' = fence_release /\ fence_acquire' = fence_acquire
        BY <1>1
  <2>3. CASE Arrival(t)
    <3>1. at' = [at EXCEPT ![t] = "barrier"] /\ ref' = ref /\ DOMAIN at = Threads
          BY <2>3, <1>2 DEF Arrival, TypeInv, SchedOK
    <3>2. CASE u = t
          BY <3>1, <3>2, <2>1, <2>2, <1>1, <1>3, <1>9
    <3>3. CASE u # t
          BY <3>1, <3>3, <2>1, <2>2, <1>10, <1>11
    <3>4. QED BY <3>2, <3>3
  <2>4. CASE allHere /\ Release(t)
    <3>1. /\ at' = [v \in Threads |-> IF BlockOf(v) = b THEN "released" ELSE at[v]]
          /\ ref'.clock = [v \in Threads |-> IF BlockOf(v) = b THEN BlockKnows(b) ELSE ref.clock[v]]
          BY <2>4, Zenon DEF Release
    <3>2. ref'.fence = ref.fence /\ ref'.pending = ref.pending
      <4>1. ref' = [ref EXCEPT !.clock = ref'.clock] /\ ref \in Refs
            BY <2>4, <1>2, Zenon DEF Release, TypeInv
      <4>2. QED BY <4>1 DEF Refs
    <3>3. CASE BlockOf(u) = b
      <4>1. at'[u] = "released" /\ ref'.clock[u] = BlockKnows(b)
            BY <3>1, <3>3
      <4>2. Leq(BlockKnows(b), d)
            BY <2>4, <1>6
      <4>3. QED BY <3>2, <3>3, <4>1, <4>2, <2>1, <2>2, <1>9
    <3>4. CASE BlockOf(u) # b
      <4>1. at'[u] = at[u] /\ ref'.clock[u] = ref.clock[u]
            BY <3>1, <3>4
      <4>2. QED BY <4>1, <3>2, <2>1, <2>2, <1>10, <1>11
    <3>5. QED BY <3>3, <3>4
  <2>5. QED BY <1>1, <2>3, <2>4
<1>13. ref'.elem = ref.elem
  <2>1. CASE Arrival(t)
        BY <2>1 DEF Arrival
  <2>2. CASE Release(t)
    <3>1. ref' = [ref EXCEPT !.clock = ref'.clock] /\ ref \in Refs
          BY <2>2, <1>2, Zenon DEF Release, TypeInv
    <3>2. QED BY <3>1 DEF Refs
  <2>3. QED BY <1>1, <2>1, <2>2
<1>14. CellsCover'
  <2> SUFFICES ASSUME NEW x \in Elems PROVE Leq(ref'.elem[x], CellOf(x)'.release)
      BY DEF CellsCover, Leq
  <2>1. CellOf(x)' = CellOf(x)
        BY <1>1, CellUnchanged
  <2>2. Leq(ref.elem[x], CellOf(x).release)
        BY DEF Inv, CellsCover
  <2>3. QED BY <1>13, <2>1, <2>2
<1>15. QED BY <1>12, <1>14

\* A thread that leaves its barrier gets what the block has for it.
LEMMA DepartKeepsCover ==
    ASSUME Inv, NEW t \in Threads, BarrierDepart(t) PROVE ThreadsCover' /\ CellsCover'
<1> DEFINE c == Join(clock[t], block[BlockOf(t)])
<1>1. /\ at[t] = "released"
      /\ at' = [at EXCEPT ![t] = "kernel"]
      /\ clock' = [clock EXCEPT ![t] = c]
      /\ ref' = ref \/ ref' = [ref EXCEPT !.excused = Elems]
      /\ UNCHANGED <<launch, fence_release, fence_acquire, block, cells, cell_launch>>
      BY Zenon DEF BarrierDepart, memVars
<1>2. /\ TypeInv /\ clock[t] \in Clocks /\ block[BlockOf(t)] \in Clocks /\ ref.clock[t] \in Clocks
      /\ DOMAIN clock = Threads /\ DOMAIN at = Threads
      BY ThreadPlaced DEF Inv, TypeInv, SyncOK, SchedOK, Refs
<1>3. /\ ref'.clock = ref.clock /\ ref'.fence = ref.fence /\ ref'.pending = ref.pending
      /\ ref'.elem = ref.elem
      BY <1>1, <1>2 DEF TypeInv, Refs
<1>4. c \in Clocks /\ Leq(block[BlockOf(t)], c)
      BY <1>2, JoinIsLeast
<1>5. Leq(ref.clock[t], c)
  <2>1. Leq(ref.clock[t], block[BlockOf(t)])
        BY <1>1 DEF Inv, ThreadsCover
  <2> HIDE DEF c
  <2>2. QED BY <1>2, <1>4, <2>1 DEF Leq, Clocks
<1> HIDE DEF c
<1>6. ThreadsCover'
  <2> SUFFICES ASSUME NEW u \in Threads
               PROVE  /\ at'[u] # "released" => Leq(ref'.clock[u], clock'[u])
                      /\ at'[u] = "released" => Leq(ref'.clock[u], block'[BlockOf(u)])
                      /\ at'[u] = "barrier" => Leq(clock'[u], block'[BlockOf(u)])
                      /\ Leq(ref'.fence[u], fence_release'[u])
                      /\ Leq(ref'.pending[u], fence_acquire'[u])
      BY DEF ThreadsCover, Leq
  <2>1. /\ at[u] # "released" => Leq(ref.clock[u], clock[u])
        /\ at[u] = "released" => Leq(ref.clock[u], block[BlockOf(u)])
        /\ at[u] = "barrier" => Leq(clock[u], block[BlockOf(u)])
        /\ Leq(ref.fence[u], fence_release[u])
        /\ Leq(ref.pending[u], fence_acquire[u])
        BY DEF Inv, ThreadsCover
  <2>2. CASE u = t
        BY <2>1, <2>2, <1>1, <1>2, <1>3, <1>5
  <2>3. CASE u # t
        BY <2>1, <2>3, <1>1, <1>2, <1>3
  <2>4. QED BY <2>2, <2>3
<1>7. CellsCover'
  <2> SUFFICES ASSUME NEW x \in Elems PROVE Leq(ref'.elem[x], CellOf(x)'.release)
      BY DEF CellsCover, Leq
  <2>1. CellOf(x)' = CellOf(x)
        BY <1>1, CellUnchanged
  <2>2. QED BY <1>3, <2>1 DEF Inv, CellsCover
<1>8. QED BY <1>6, <1>7

\* A step that leaves the clocks alone, and nobody at or from a barrier.
LEMMA IdleKeepsCover ==
    ASSUME Inv, UNCHANGED <<clock, fence_release, fence_acquire, block, ref, cells, cell_launch, launch>>,
           \A u \in Threads : /\ at'[u] = "released" <=> at[u] = "released"
                              /\ at'[u] = "barrier" <=> at[u] = "barrier"
    PROVE  ThreadsCover' /\ CellsCover'
<1>1. ThreadsCover'
      BY DEF Inv, ThreadsCover, Leq
<1>2. CellsCover'
  <2> SUFFICES ASSUME NEW x \in Elems PROVE Leq(ref'.elem[x], CellOf(x)'.release)
      BY DEF CellsCover, Leq
  <2>1. CellOf(x)' = CellOf(x)
        BY CellUnchanged
  <2>2. QED BY <2>1 DEF Inv, CellsCover
<1>3. QED BY <1>1, <1>2

\* A warp moves nobody at a barrier.
LEMMA WarpMovesNobodyElse ==
    ASSUME TypeInv, NEW t \in Threads, SyncWarp(t), NEW u \in Threads
    PROVE  /\ at'[u] = "released" <=> at[u] = "released"
           /\ at'[u] = "barrier" <=> at[u] = "barrier"
<1> DEFINE w == WarpOf(t)
<1>1. /\ at[t] = "kernel" /\ DOMAIN at = Threads
      /\ \/ at' = [at EXCEPT ![t] = "warp"]
         \/ /\ \A v \in WarpThreads(w) \ {t} : at[v] = "warp"
            /\ at' = [v \in Threads |-> IF WarpOf(v) = w THEN "kernel" ELSE at[v]]
      BY DEF SyncWarp, CanStep, TypeInv, SchedOK
<1>2. CASE at' = [at EXCEPT ![t] = "warp"]
      BY <1>1, <1>2
<1>3. CASE /\ \A v \in WarpThreads(w) \ {t} : at[v] = "warp"
           /\ at' = [v \in Threads |-> IF WarpOf(v) = w THEN "kernel" ELSE at[v]]
      BY <1>1, <1>3 DEF WarpThreads
<1>4. QED BY <1>1, <1>2, <1>3

\* Every new launch starts with empty clocks.
LEMMA LaunchKeepsCover == ASSUME TypeInv, NextLaunch PROVE ThreadsCover' /\ CellsCover'
<1>1. Leq(NoClock, NoClock)
      BY DEF Leq, NoClock
<1>2. /\ ref'.clock = PerThread(NoClock) /\ ref'.fence = PerThread(NoClock)
      /\ ref'.pending = PerThread(NoClock) /\ ref'.elem = [e \in Elems |-> NoClock]
      /\ clock' = PerThread(NoClock) /\ fence_release' = PerThread(NoClock)
      /\ fence_acquire' = PerThread(NoClock) /\ at' = PerThread("kernel")
      BY DEF NextLaunch, NewRef
<1>3. ThreadsCover'
  <2> SUFFICES ASSUME NEW u \in Threads
               PROVE  /\ at'[u] # "released" => Leq(ref'.clock[u], clock'[u])
                      /\ at'[u] = "released" => Leq(ref'.clock[u], block'[BlockOf(u)])
                      /\ at'[u] = "barrier" => Leq(clock'[u], block'[BlockOf(u)])
                      /\ Leq(ref'.fence[u], fence_release'[u])
                      /\ Leq(ref'.pending[u], fence_acquire'[u])
      BY DEF ThreadsCover, Leq
  <2>1. QED BY <1>1, <1>2 DEF PerThread
<1>4. CellsCover'
  <2> SUFFICES ASSUME NEW x \in Elems PROVE Leq(ref'.elem[x], CellOf(x)'.release)
      BY DEF CellsCover, Leq
  <2>1. CellOf(x)'.release = NoClock
        BY CellAfterLaunch
  <2>2. QED BY <1>1, <1>2, <2>1
<1>5. QED BY <1>3, <1>4

\* In the first state nothing is known and nothing is owed.
LEMMA InitCovers == Init => ThreadsCover /\ CellsCover
<1> SUFFICES ASSUME Init PROVE ThreadsCover /\ CellsCover
    OBVIOUS
<1>1. Leq(NoClock, NoClock)
      BY DEF Leq, NoClock
<1>2. /\ ref.clock = PerThread(NoClock) /\ ref.fence = PerThread(NoClock)
      /\ ref.pending = PerThread(NoClock) /\ ref.elem = [e \in Elems |-> NoClock]
      /\ clock = PerThread(NoClock) /\ fence_release = PerThread(NoClock)
      /\ fence_acquire = PerThread(NoClock) /\ at = PerThread("kernel")
      BY DEF Init, NewRef
<1>3. ThreadsCover
      BY <1>1, <1>2 DEF ThreadsCover, PerThread
<1>4. \A e \in Elems : CellOf(e).release = NoClock
      BY DEF Init, CellOf, ResetCell, NewCell
<1>5. CellsCover
      BY <1>1, <1>2, <1>4 DEF CellsCover
<1>6. QED BY <1>3, <1>5

\* A step of the specification keeps the invariant.
LEMMA StepKeepsInv == Inv /\ [Next]_vars => Inv'
<1> SUFFICES ASSUME Inv, [Next]_vars PROVE Inv'
    OBVIOUS
<1>0. TypeInv
      BY DEF Inv
<1>1. ASSUME NEW t \in Threads, AnyAccess(t) PROVE Inv'
      BY <1>0, <1>1, AccessKeepsTypes, AccessKeepsCover DEF Inv
<1>2. ASSUME NEW t \in Threads, NEW ordering \in kernel.fences, Fence(t, ordering) PROVE Inv'
      BY <1>2, OtherStepsKeepTypes, FenceKeepsCover DEF Inv
<1>3. ASSUME NEW t \in Threads, SyncThreads(t) PROVE Inv'
      BY <1>3, OtherStepsKeepTypes, BarrierKeepsCover DEF Inv
<1>4. ASSUME NEW t \in Threads, BarrierDepart(t) PROVE Inv'
      BY <1>4, OtherStepsKeepTypes, DepartKeepsCover DEF Inv
<1>5. ASSUME NEW t \in Threads, SyncWarp(t) PROVE Inv'
  <2>1. UNCHANGED <<clock, fence_release, fence_acquire, block, ref, cells, cell_launch, launch>>
        BY <1>5 DEF SyncWarp, syncVars, memVars
  <2>2. ThreadsCover' /\ CellsCover'
        BY <1>0, <1>5, <2>1, WarpMovesNobodyElse, IdleKeepsCover
  <2>3. QED BY <1>5, <2>2, OtherStepsKeepTypes DEF Inv
<1>6. CASE NextLaunch
      BY <1>0, <1>6, LaunchKeepsTypes, LaunchKeepsCover DEF Inv
<1>7. CASE UNCHANGED vars
  <2>1. UNCHANGED <<kernel, launch, seq, clock, fence_release, fence_acquire, block, barrier_gen,
                    warp_gen, at, ops, cells, cell_launch, races, uninits, ref>>
        BY <1>7 DEF vars, syncVars, schedVars, memVars
  <2>2. TypeInv'
        BY <1>0, <2>1 DEF TypeInv, SyncOK, SchedOK, MemOK
  <2>3. ThreadsCover' /\ CellsCover'
        BY <2>1, IdleKeepsCover
  <2>4. QED BY <2>2, <2>3 DEF Inv
<1>8. QED BY <1>0, <1>1, <1>2, <1>3, <1>4, <1>5, <1>6, <1>7, StepKinds, Zenon

\* The types and the covering hold in every state.
LEMMA InvHolds == Spec => []Inv
<1>1. Init => Inv
      BY InitTyped, InitCovers DEF Inv
<1>2. QED BY <1>1, StepKeepsInv, PTL DEF Spec

\* In every state the clocks, the epochs and the cells have their types, and no
\* cell has more readers than its limit.
THEOREM DetectorTypeCorrect == Spec => []DetectorTypeOK
<1>1. TypeInv => DetectorTypeOK
      BY DEF TypeInv, DetectorTypeOK, SyncOK, SchedOK, MemOK, Clocks, LaunchIds, Cells, CellsOf,
             ReadRecords
<1>2. Inv => DetectorTypeOK
      BY <1>1 DEF Inv
<1>3. QED BY <1>2, InvHolds, PTL

\* The clocks of src/sync.rs lose nothing: whatever barriers, fences and
\* atomics the threads use, and in whatever order they leave a barrier, a
\* thread that is not inside one knows all that happens before its next access.
THEOREM ClocksNeverLag == Spec => []ClocksCoverOrder
<1>1. Inv => ClocksCoverOrder
      BY DEF Inv, ThreadsCover, ClocksCoverOrder, Leq
<1>2. QED BY <1>1, InvHolds, PTL

\* Only accesses and launches touch memory, the reports and the history.
LEMMA MemoryUntouched ==
    ASSUME TypeInv, NEW t \in Threads,
           \/ \E ordering \in kernel.fences : Fence(t, ordering)
           \/ SyncThreads(t)
           \/ BarrierDepart(t)
           \/ SyncWarp(t)
    PROVE  /\ UNCHANGED <<kernel, launch, seq, cells, cell_launch, races, uninits>>
           /\ ref'.hist = ref.hist /\ ref'.races = ref.races /\ ref'.elem = ref.elem
           /\ ref'.written = ref.written /\ ref'.unwritten = ref.unwritten
           /\ ref.excused \subseteq ref'.excused /\ ref'.unordered = ref.unordered
<1>1. CASE \E ordering \in kernel.fences : Fence(t, ordering)
      BY <1>1 DEF Fence, memVars, TypeInv, Refs
<1>2. CASE SyncThreads(t)
  <2>1. /\ UNCHANGED <<kernel, launch, seq, cells, cell_launch, races, uninits>>
        /\ Arrival(t) \/ Release(t)
        BY <1>2, SyncThreadsSteps
  <2>2. ref' = ref \/ ref' = [ref EXCEPT !.clock = ref'.clock]
        BY <2>1 DEF Arrival, Release
  <2>3. QED BY <2>1, <2>2 DEF TypeInv, Refs
<1>3. CASE BarrierDepart(t)
      BY <1>3 DEF BarrierDepart, memVars, TypeInv, Refs
<1>4. CASE SyncWarp(t)
      BY <1>4 DEF SyncWarp, memVars, syncVars
<1>5. QED BY <1>1, <1>2, <1>3, <1>4

(***************************************************************************)
(* Uninitialised reads.  A cell is marked as written exactly when its      *)
(* element was, in this launch or (for global memory) an earlier one.  An  *)
(* atomic load marks its cell too, as src/mem.rs makes it with the code of *)
(* an atomic that writes: so no kernel that loads may be given an element  *)
(* for atomics that nothing has written.                                   *)
(***************************************************************************)
LoadsFindValues == \A k \in Kernels : "load" \in k.kinds => Uninit \cap AtomicElems = {}

MarkInv ==
    /\ \A e \in Elems : CellOf(e).init = (e \in ref.written)
    /\ Elems \ (Uninit \cup Shared) \subseteq ref.written
    /\ uninits = ref.unwritten

\* What an access makes of the mark of its cell.
LEMMA RecordedMark ==
    ASSUME TypeInv, NEW t \in Threads, NEW e \in Elems, NEW op \in MemOps
    PROVE  Recorded(t, e, op).init = IF op = "read" THEN CellOf(e).init ELSE TRUE
<1>1. AccOf(t, op) \in Accesses
      BY AccessTyped
<1>2. CellOf(e) \in CellsOf(Accesses) /\ Len(CellOf(e).readers) <= MaxReaders
      BY CellTyped DEF Cells
<1>3. CASE op = "read"
      BY <1>1, <1>2, <1>3, OnReadRecords DEF Recorded
<1>4. CASE op # "read"
      BY <1>1, <1>2, <1>4, OnWriteRecords DEF Recorded
<1>5. QED BY <1>3, <1>4

\* An access marks its cell as the reference does.
LEMMA AccessMarks ==
    ASSUME LoadsFindValues, TypeInv, MarkInv, NEW t \in Threads, AnyAccess(t) PROVE MarkInv'
<1>1. PICK e \in Elems, op \in MemOps, ordering \in AllOrderings :
           Allowed(e, op) /\ AccessStep(t, e, op, ordering)
      BY DEF AnyAccess
<1>2. /\ ref'.written = IF Writes(op) THEN ref.written \cup {e} ELSE ref.written
      /\ ref'.unwritten = IF op # "write" /\ e \notin ref.written
                          THEN ref.unwritten \cup {Read(e, AccOf(t, op))} ELSE ref.unwritten
      /\ uninits' = IF op # "write" /\ ~CellOf(e).init
                    THEN uninits \cup {Read(e, AccOf(t, op))} ELSE uninits
      BY <1>1, Zenon DEF AccessStep, RefStep
<1>3. op = "load" => e \in ref.written
  <2> SUFFICES ASSUME op = "load" PROVE e \in ref.written
      OBVIOUS
  <2>1. e \in AtomicElems /\ "load" \in kernel.kinds /\ kernel \in Kernels
        BY <1>1 DEF Allowed, TypeInv
  <2>2. e \notin Uninit /\ e \notin Shared
        BY <2>1, DetectorAssumption DEF LoadsFindValues
  <2>3. QED BY <2>2 DEF MarkInv
<1>4. CellOf(e).init = (e \in ref.written)
      BY DEF MarkInv
<1>5. ASSUME NEW d \in Elems PROVE CellOf(d)'.init = (d \in ref'.written)
  <2>1. CASE d # e
    <3>1. CellOf(d)' = CellOf(d)
          BY <2>1, <1>1, CellAfterAccess
    <3>2. QED BY <2>1, <3>1, <1>2 DEF MarkInv
  <2>2. CASE d = e
    <3>1. CellOf(e)'.init = IF op = "read" THEN CellOf(e).init ELSE TRUE
      <4>1. CellOf(e)'.init = Recorded(t, e, op).init
            BY <1>1, CellAfterAccess
      <4>2. QED BY <4>1, RecordedMark, Zenon
    <3>2. CASE op = "read"
          BY <2>2, <3>1, <3>2, <1>2, <1>4 DEF Writes
    <3>3. CASE op # "read"
          BY <2>2, <3>1, <3>3, <1>2, <1>3 DEF Writes, MemOps
    <3>4. QED BY <3>2, <3>3
  <2>3. QED BY <2>1, <2>2
<1>6. Elems \ (Uninit \cup Shared) \subseteq ref'.written
      BY <1>2 DEF MarkInv
<1>7. uninits' = ref'.unwritten
      BY <1>2, <1>4 DEF MarkInv
<1>8. QED BY <1>5, <1>6, <1>7 DEF MarkInv

\* Every step keeps the marks.
LEMMA StepKeepsMarks ==
    ASSUME LoadsFindValues PROVE Inv /\ MarkInv /\ [Next]_vars => MarkInv'
<1> SUFFICES ASSUME Inv, MarkInv, [Next]_vars PROVE MarkInv'
    OBVIOUS
<1>0. TypeInv
      BY DEF Inv
<1>1. ASSUME NEW t \in Threads, AnyAccess(t) PROVE MarkInv'
      BY <1>0, <1>1, AccessMarks
<1>2. ASSUME UNCHANGED <<cells, cell_launch, launch, uninits>>, ref'.written = ref.written,
             ref'.unwritten = ref.unwritten
      PROVE  MarkInv'
  <2>1. \A e \in Elems : CellOf(e)' = CellOf(e)
        BY <1>2, CellUnchanged
  <2>2. QED BY <1>2, <2>1 DEF MarkInv
<1>3. ASSUME NEW t \in Threads,
             \/ \E ordering \in kernel.fences : Fence(t, ordering)
             \/ SyncThreads(t)
             \/ BarrierDepart(t)
             \/ SyncWarp(t)
      PROVE  MarkInv'
      BY <1>0, <1>2, <1>3, MemoryUntouched
<1>7. CASE NextLaunch
  <2>1. \A e \in Elems : CellOf(e)'.init = (e \notin Shared /\ CellOf(e).init)
        BY <1>0, <1>7, CellAfterLaunch
  <2>2. ref'.written = ref.written \ Shared /\ ref'.unwritten = {} /\ uninits' = {}
        BY <1>7 DEF NextLaunch, NewRef
  <2>3. ASSUME NEW e \in Elems PROVE CellOf(e)'.init = (e \in ref'.written)
    <3>1. CellOf(e)'.init = (e \notin Shared /\ e \in ref.written)
          BY <2>1 DEF MarkInv
    <3>2. QED BY <2>2, <3>1
  <2>4. Elems \ (Uninit \cup Shared) \subseteq ref'.written
        BY <2>2 DEF MarkInv
  <2>5. QED BY <2>2, <2>3, <2>4 DEF MarkInv
<1>8. CASE UNCHANGED vars
      BY <1>2, <1>8 DEF vars, memVars
<1>9. QED BY <1>0, <1>1, <1>3, <1>7, <1>8, StepKinds, Zenon

\* Whatever the threads do, over any number of launches, a read of an element
\* that nothing has written is reported when it is made, and no other read is.
THEOREM UninitReadsAreExact ==
    ASSUME LoadsFindValues PROVE Spec => []UninitExact
<1>1. Init => MarkInv
  <2> SUFFICES ASSUME Init PROVE MarkInv
      OBVIOUS
  <2>1. /\ ref.written = Elems \ (Uninit \cup Shared) /\ ref.unwritten = {} /\ uninits = {}
        BY DEF Init, NewRef
  <2>2. ASSUME NEW e \in Elems PROVE CellOf(e).init = (e \in ref.written)
    <3>1. cell_launch[e] # launch /\ cells[e] = NewCell(e \notin Uninit \cup Shared)
          BY DEF Init
    <3>2. CellOf(e) = NewCell(e \notin Shared /\ cells[e].init)
          BY <3>1 DEF CellOf, ResetCell
    <3>3. CellOf(e).init = (e \notin Shared /\ e \notin Uninit \cup Shared)
      <4>1. cells[e].init = (e \notin Uninit \cup Shared)
            BY <3>1 DEF NewCell
      <4>2. (e \notin Shared /\ cells[e].init) \in BOOLEAN
            BY Zenon
      <4>3. CellOf(e).init = (e \notin Shared /\ cells[e].init)
            BY <3>2, <4>2, NewCellIsEmpty
      <4>4. QED BY <4>1, <4>3
    <3>4. QED BY <2>1, <3>3
  <2>3. QED BY <2>1, <2>2 DEF MarkInv
<1>2. MarkInv => UninitExact
      BY DEF MarkInv, UninitExact
<1>3. QED BY <1>1, <1>2, StepKeepsMarks, InvHolds, PTL DEF Spec

(***************************************************************************)
(* Reported races.  What a cell holds is part of the element's history,    *)
(* and whoever is concurrent by the code's clocks, which cover the         *)
(* reference's, is unordered.  The code takes every atomic for a write:    *)
(* where a kernel both reads an element plainly and loads it atomically it *)
(* reports the two, and neither writes.                                    *)
(***************************************************************************)
LoadsNotMixed ==
    \A k \in Kernels : {"read", "load"} \subseteq k.kinds => PlainElems \cap AtomicElems = {}

CellsHeld ==
    \A e \in Elems :
        /\ CellOf(e).last_write # NoAccess =>
              CellOf(e).last_write \in ref.hist[e] /\ CellOf(e).last_write.op # "read"
        /\ \A i \in DOMAIN CellOf(e).readers :
              CellOf(e).readers[i] \in ref.hist[e] /\ CellOf(e).readers[i].op = "read"
        /\ \A h \in ref.hist[e] : Allowed(e, h.op)

\* What an access conflicts with really races with it.
LEMMA ConflictReallyRaces ==
    ASSUME LoadsNotMixed, Inv, CellsHeld, NEW t \in Threads, NEW e \in Elems, NEW op \in MemOps,
           NEW ordering, Allowed(e, op), at[t] = "kernel", NEW a \in ConflictOf(t, e, op, ordering)
    PROVE  a \in ref.hist[e] /\ ReallyRaces(a, AccOf(t, op), RefNow(t, e, op, ordering))
<1> DEFINE acc == AccOf(t, op)
           now == NowOf(t, e, op, ordering)
<1>1. TypeInv /\ kernel \in Kernels
      BY DEF Inv, TypeInv
<1>2. /\ Concurrent(a, acc, now)
      /\ \/ a = CellOf(e).last_write /\ a # NoAccess
         \/ op # "read" /\ \E i \in DOMAIN CellOf(e).readers : a = CellOf(e).readers[i]
      BY ReadConflictIsConcurrent, WriteConflictIsConcurrent DEF ConflictOf
<1>3. a \in ref.hist[e] /\ (op = "read" => a.op # "read")
      BY <1>2 DEF CellsHeld
<1>4. a \in Accesses /\ Allowed(e, a.op)
      BY <1>1, <1>3 DEF CellsHeld, TypeInv, Refs
<1>5. acc.thread = t /\ acc.op = op
      BY DEF AccOf, Access
<1>6. ~(IsAtomic(a) /\ IsAtomic(acc)) /\ a.thread # acc.thread /\ now[a.thread] < a.seq
      BY <1>2 DEF Concurrent
<1>7. ~(Atomic(a.op) /\ Atomic(op))
      BY <1>5, <1>6 DEF IsAtomic, Atomic
<1>8. ~(a.op \in {"read", "load"} /\ op \in {"read", "load"})
  <2> SUFFICES ASSUME a.op \in {"read", "load"}, op \in {"read", "load"} PROVE FALSE
      OBVIOUS
  <2>1. {a.op, op} = {"read", "load"}
        BY <1>3, <1>7 DEF Atomic
  <2>2. e \in PlainElems \cap AtomicElems /\ {"read", "load"} \subseteq kernel.kinds
        BY <2>1, <1>4 DEF Allowed
  <2>3. QED BY <1>1, <2>2 DEF LoadsNotMixed
<1>9. Writes(a.op) \/ Writes(op)
      BY <1>4, <1>8 DEF Accesses, MemOps, Writes
<1>10. RefNow(t, e, op, ordering)[a.thread] < a.seq
  <2>1. Leq(RefNow(t, e, op, ordering), now) /\ a.thread \in Threads /\ a.seq \in Nat
        BY <1>4, AccessCovers DEF Accesses
  <2>2. RefNow(t, e, op, ordering) \in Clocks /\ now \in Clocks
        BY <1>1, RefTyped, AccessTyped
  <2>3. QED BY <1>6, <2>1, <2>2 DEF Leq, Clocks
<1>11. ~(WarpOf(a.thread) = WarpOf(acc.thread) /\ a.warp_epoch < acc.warp_epoch)
  <2>1. a.warp_epoch \in Nat /\ acc.warp_epoch \in Nat
        BY <1>1, <1>4, AccessTyped DEF Accesses
  <2>2. WarpOf(a.thread) = WarpOf(acc.thread) => BlockOf(a.thread) = BlockOf(acc.thread)
        BY DEF WarpOf
  <2>3. WarpOf(a.thread) = WarpOf(acc.thread) => a.warp_epoch = acc.warp_epoch
        BY <1>2, <2>2 DEF Concurrent
  <2>4. QED BY <2>1, <2>3
<1>12. QED BY <1>3, <1>5, <1>6, <1>7, <1>9, <1>10, <1>11 DEF ReallyRaces

\* An access keeps its element's history and cell together.
LEMMA AccessKeepsHeld ==
    ASSUME Inv, CellsHeld, NEW t \in Threads, AnyAccess(t) PROVE CellsHeld'
<1>1. PICK e \in Elems, op \in MemOps, ordering \in AllOrderings :
           Allowed(e, op) /\ AccessStep(t, e, op, ordering)
      BY DEF AnyAccess
<1> DEFINE acc == AccOf(t, op)
           H == ref.hist[e] \cup {acc}
<1>2. TypeInv /\ CellsHeld /\ at[t] = "kernel" /\ kernel' = kernel
      BY <1>1 DEF Inv, AccessStep, CanStep
<1>3. acc \in Accesses /\ acc.op = op
      BY <1>2, AccessTyped DEF AccOf, Access
<1> HIDE DEF acc
<1>4. ref'.hist = [ref.hist EXCEPT ![e] = H] /\ DOMAIN ref.hist = Elems
      BY <1>1, <1>2 DEF AccessStep, RefStep, acc, TypeInv, Refs
<1>5. CellOf(e) \in CellsOf(Accesses) /\ Len(CellOf(e).readers) <= MaxReaders
      BY <1>2, CellTyped DEF Cells
<1> DEFINE rec == Recorded(t, e, op)
<1>6. /\ rec.last_write # NoAccess => rec.last_write \in H /\ rec.last_write.op # "read"
      /\ \A i \in DOMAIN rec.readers : rec.readers[i] \in H /\ rec.readers[i].op = "read"
  <2>1. CASE op = "read"
    <3>1. rec = OnRead(CellOf(e), acc)
          BY <2>1 DEF Recorded, acc
    <3>2. /\ rec.last_write = CellOf(e).last_write
          /\ \A i \in DOMAIN rec.readers :
                \/ rec.readers[i] = acc
                \/ \E j \in DOMAIN CellOf(e).readers : rec.readers[i] = CellOf(e).readers[j]
          BY <3>1, <1>3, <1>5, OnReadRecords
    <3> HIDE DEF rec
    <3>3. QED BY <2>1, <3>2, <1>2, <1>3 DEF CellsHeld
  <2>2. CASE op # "read"
    <3>1. rec = OnWrite(CellOf(e), acc)
          BY <2>2 DEF Recorded, acc
    <3> HIDE DEF rec
    <3>2. rec.last_write = acc /\ rec.readers = <<>>
          BY <3>1, <1>3, <1>5, OnWriteRecords
    <3>3. QED BY <2>2, <3>2, <1>3
  <2>3. QED BY <2>1, <2>2
<1>7. CellsHeld'
  <2> SUFFICES ASSUME NEW d \in Elems
               PROVE  /\ CellOf(d)'.last_write # NoAccess =>
                            CellOf(d)'.last_write \in ref'.hist[d] /\ CellOf(d)'.last_write.op # "read"
                      /\ \A i \in DOMAIN CellOf(d)'.readers :
                            CellOf(d)'.readers[i] \in ref'.hist[d] /\ CellOf(d)'.readers[i].op = "read"
                      /\ \A h \in ref'.hist[d] : Allowed(d, h.op)'
      BY DEF CellsHeld
  <2>1. CASE d # e
    <3>1. CellOf(d)' = CellOf(d) /\ ref'.hist[d] = ref.hist[d]
          BY <2>1, <1>1, <1>2, <1>4, CellAfterAccess
    <3>2. QED BY <3>1, <1>2 DEF CellsHeld, Allowed
  <2>2. CASE d = e
    <3>1. CellOf(e)'.last_write = rec.last_write /\ CellOf(e)'.readers = rec.readers
          BY <1>1, <1>2, CellAfterAccess
    <3>2. ref'.hist[e] = H
          BY <1>4
    <3>3. \A h \in H : Allowed(e, h.op)'
          BY <1>1, <1>2, <1>3 DEF CellsHeld, Allowed
    <3> HIDE DEF rec, H
    <3>4. QED BY <2>2, <3>1, <3>2, <3>3, <1>6
  <2>3. QED BY <2>1, <2>2
<1>8. QED BY <1>7

\* Every step keeps history and cells together.
LEMMA StepKeepsHeld == Inv /\ CellsHeld /\ [Next]_vars => CellsHeld'
<1> SUFFICES ASSUME Inv, CellsHeld, [Next]_vars PROVE CellsHeld'
    OBVIOUS
<1>0. TypeInv
      BY DEF Inv
<1>1. ASSUME NEW t \in Threads, AnyAccess(t) PROVE CellsHeld'
      BY <1>1, AccessKeepsHeld
<1>2. ASSUME UNCHANGED <<kernel, cells, cell_launch, launch>>, ref'.hist = ref.hist
      PROVE  CellsHeld'
  <2>1. \A e \in Elems : CellOf(e)' = CellOf(e)
        BY <1>2, CellUnchanged
  <2>2. QED BY <1>2, <2>1 DEF CellsHeld, Allowed
<1>3. ASSUME NEW t \in Threads,
             \/ \E ordering \in kernel.fences : Fence(t, ordering)
             \/ SyncThreads(t)
             \/ BarrierDepart(t)
             \/ SyncWarp(t)
      PROVE  CellsHeld'
      BY <1>0, <1>2, <1>3, MemoryUntouched
<1>4. CASE NextLaunch
  <2>1. \A e \in Elems : CellOf(e)'.last_write = NoAccess /\ CellOf(e)'.readers = <<>>
        BY <1>0, <1>4, CellAfterLaunch
  <2>2. ref'.hist = [e \in Elems |-> {}]
        BY <1>4 DEF NextLaunch, NewRef
  <2>3. QED BY <2>1, <2>2 DEF CellsHeld
<1>5. CASE UNCHANGED vars
      BY <1>2, <1>5 DEF vars, memVars
<1>6. QED BY <1>0, <1>1, <1>3, <1>4, <1>5, StepKinds, Zenon

\* What the cells hold is the history, in every state.
LEMMA HeldHolds == Spec => []CellsHeld
<1>1. Init => CellsHeld
  <2> SUFFICES ASSUME Init PROVE CellsHeld
      OBVIOUS
  <2>1. \A e \in Elems : CellOf(e).last_write = NoAccess /\ CellOf(e).readers = <<>>
        BY DEF Init, CellOf, ResetCell, NewCell
  <2>2. ref.hist = [e \in Elems |-> {}]
        BY DEF Init, NewRef
  <2>3. QED BY <2>1, <2>2 DEF CellsHeld
<1>2. QED BY <1>1, StepKeepsHeld, InvHolds, PTL DEF Spec

\* Every step reports real races only.
LEMMA StepReports ==
    ASSUME LoadsNotMixed
    PROVE  Inv /\ CellsHeld /\ ReportsAreRaces /\ [Next]_vars => ReportsAreRaces'
<1> SUFFICES ASSUME Inv, CellsHeld, ReportsAreRaces, [Next]_vars PROVE ReportsAreRaces'
    OBVIOUS
<1>0. TypeInv
      BY DEF Inv
<1>1. ASSUME NEW t \in Threads, AnyAccess(t) PROVE ReportsAreRaces'
  <2>1. PICK e \in Elems, op \in MemOps, ordering \in AllOrderings :
             Allowed(e, op) /\ AccessStep(t, e, op, ordering)
        BY <1>1 DEF AnyAccess
  <2> DEFINE acc == AccOf(t, op)
  <2>2. races' = races \cup {Race(e, a, acc) : a \in ConflictOf(t, e, op, ordering)}
        BY <2>1, Zenon DEF AccessStep
  <2>3. ref'.races = ref.races \cup
           {Race(e, a, acc) : a \in {h \in ref.hist[e] : ReallyRaces(h, acc, RefNow(t, e, op, ordering))}}
        BY <2>1, Zenon DEF AccessStep, RefStep
  <2>4. \A a \in ConflictOf(t, e, op, ordering) :
            a \in ref.hist[e] /\ ReallyRaces(a, acc, RefNow(t, e, op, ordering))
        BY <2>1, ConflictReallyRaces DEF AccessStep, CanStep
  <2> HIDE DEF acc
  <2>5. QED BY <2>2, <2>3, <2>4 DEF ReportsAreRaces
<1>2. ASSUME NEW t \in Threads,
             \/ \E ordering \in kernel.fences : Fence(t, ordering)
             \/ SyncThreads(t)
             \/ BarrierDepart(t)
             \/ SyncWarp(t)
      PROVE  ReportsAreRaces'
      BY <1>0, <1>2, MemoryUntouched DEF ReportsAreRaces
<1>3. CASE NextLaunch
      BY <1>3 DEF NextLaunch, ReportsAreRaces
<1>4. CASE UNCHANGED vars
      BY <1>4 DEF vars, memVars, ReportsAreRaces
<1>5. QED BY <1>0, <1>1, <1>2, <1>3, <1>4, StepKinds, Zenon

\* No false alarm: whatever barriers, collectives, fences and atomics the
\* kernel uses and in whatever order its threads run, two accesses reported as
\* a race are of one element, one of them writes, and nothing orders them.
THEOREM ReportedRacesAreReal ==
    ASSUME LoadsNotMixed PROVE Spec => []ReportsAreRaces
<1>1. Init => ReportsAreRaces
      BY DEF Init, ReportsAreRaces
<1>2. QED BY <1>1, StepReports, InvHolds, HeldHolds, PTL DEF Spec

(***************************************************************************)
(* What clocks can know.  Every clock of the next state is one of this     *)
(* state, the clock of the access that is made, or a join of these.        *)
(***************************************************************************)
\* All the clocks that the program keeps are in G.
Everywhere(G) ==
    /\ \A u \in Threads : /\ clock[u] \in G /\ fence_release[u] \in G /\ fence_acquire[u] \in G
                          /\ block[BlockOf(u)] \in G
    /\ \A e \in Elems : CellOf(e).release \in G

\* A set of clocks that joins do not leave holds the clocks of the next state
\* if it holds those of this one and the one of the access.
LEMMA AccessStaysIn ==
    ASSUME TypeInv, NEW G \in SUBSET Clocks, NoClock \in G, \A c, d \in G : Join(c, d) \in G,
           Everywhere(G), NEW t \in Threads, NEW e \in Elems, NEW op \in MemOps, NEW ordering,
           AccessStep(t, e, op, ordering), NowOf(t, e, op, ordering) \in G
    PROVE  Everywhere(G)'
<1>1. /\ clock' = [clock EXCEPT ![t] = NowOf(t, e, op, ordering)]
      /\ fence_acquire' = [fence_acquire EXCEPT ![t] = AcquiredPending(t, CellOf(e), op, ordering)]
      /\ UNCHANGED <<fence_release, block>>
      BY Zenon DEF AccessStep
<1>2. DOMAIN clock = Threads /\ DOMAIN fence_acquire = Threads
      BY DEF TypeInv, SyncOK
<1>3. /\ clock[t] \in G /\ fence_release[t] \in G /\ fence_acquire[t] \in G
      /\ CellOf(e).release \in G
      BY DEF Everywhere
<1>4. AcquiredPending(t, CellOf(e), op, ordering) \in G
      BY <1>3 DEF AcquiredPending
<1>5. ReleaseOf(t, e, op, ordering) \in G
      BY <1>3 DEF ReleaseOf, Released
<1>6. \A u \in Threads : /\ clock'[u] \in G /\ fence_release'[u] \in G /\ fence_acquire'[u] \in G
                         /\ block'[BlockOf(u)] \in G
      BY <1>1, <1>2, <1>4 DEF Everywhere
<1>7. ASSUME NEW d \in Elems PROVE CellOf(d)'.release \in G
  <2>1. CASE d # e
    <3>1. CellOf(d)' = CellOf(d)
          BY <2>1, CellAfterAccess
    <3>2. QED BY <3>1 DEF Everywhere
  <2>2. CASE d = e
    <3>1. CellOf(e)'.release = ReleaseOf(t, e, op, ordering)
          BY CellAfterAccess
    <3>2. QED BY <2>2, <3>1, <1>5
  <2>3. QED BY <2>1, <2>2
<1>8. QED BY <1>6, <1>7 DEF Everywhere

\* So does a step that is no access.
LEMMA OthersStayIn ==
    ASSUME TypeInv, NEW G \in SUBSET Clocks, NoClock \in G, \A c, d \in G : Join(c, d) \in G,
           Everywhere(G), NEW t \in Threads,
           \/ \E ordering \in kernel.fences : Fence(t, ordering)
           \/ SyncThreads(t)
           \/ BarrierDepart(t)
           \/ SyncWarp(t)
    PROVE  Everywhere(G)'
<1>1. UNCHANGED <<launch, cells, cell_launch>>
      BY MemoryUntouched
<1>2. \A e \in Elems : CellOf(e)'.release \in G
  <2>1. \A e \in Elems : CellOf(e)' = CellOf(e)
        BY <1>1, CellUnchanged
  <2>2. QED BY <2>1 DEF Everywhere
<1>3. /\ DOMAIN clock = Threads /\ DOMAIN fence_acquire = Threads /\ DOMAIN fence_release = Threads
      /\ DOMAIN block = Blocks /\ \A u \in Threads : BlockOf(u) \in Blocks
      BY ThreadPlaced DEF TypeInv, SyncOK
<1>4. /\ clock[t] \in G /\ fence_release[t] \in G /\ fence_acquire[t] \in G
      /\ block[BlockOf(t)] \in G
      BY DEF Everywhere
<1>5. ASSUME NEW c \in G, clock' = [clock EXCEPT ![t] = c],
             fence_release' = fence_release \/ fence_release' = [fence_release EXCEPT ![t] = c],
             fence_acquire' = fence_acquire \/ fence_acquire' = [fence_acquire EXCEPT ![t] = NoClock],
             block' = block
      PROVE  Everywhere(G)'
      BY <1>2, <1>3, <1>5 DEF Everywhere
<1>6. CASE \E ordering \in kernel.fences : Fence(t, ordering)
  <2>1. PICK ordering \in kernel.fences : Fence(t, ordering)
        BY <1>6
  <2>2. FencedClock(t, ordering) \in G
        BY <1>4 DEF FencedClock
  <2>3. /\ clock' = [clock EXCEPT ![t] = FencedClock(t, ordering)]
        /\ \/ fence_release' = fence_release
           \/ fence_release' = [fence_release EXCEPT ![t] = FencedClock(t, ordering)]
        /\ fence_acquire' = fence_acquire \/ fence_acquire' = [fence_acquire EXCEPT ![t] = NoClock]
        /\ block' = block
        BY <2>1, Zenon DEF Fence
  <2>4. QED BY <1>5, <2>2, <2>3
<1>7. CASE SyncThreads(t)
  <2>1. /\ block' = [block EXCEPT ![BlockOf(t)] = Join(@, clock[t])]
        /\ UNCHANGED <<clock, fence_release, fence_acquire>>
        BY <1>7, SyncThreadsSteps, Zenon
  <2>2. \A u \in Threads : block'[BlockOf(u)] \in G
        BY <1>3, <1>4, <2>1 DEF Everywhere
  <2>3. QED BY <1>2, <2>1, <2>2 DEF Everywhere
<1>8. CASE BarrierDepart(t)
  <2>1. /\ clock' = [clock EXCEPT ![t] = Join(@, block[BlockOf(t)])]
        /\ UNCHANGED <<fence_release, fence_acquire, block>>
        BY <1>8, Zenon DEF BarrierDepart
  <2>2. Join(clock[t], block[BlockOf(t)]) \in G
        BY <1>4
  <2>3. QED BY <1>5, <2>1, <2>2
<1>9. CASE SyncWarp(t)
      BY <1>2, <1>9 DEF SyncWarp, syncVars, Everywhere
<1>10. QED BY <1>6, <1>7, <1>8, <1>9

\* A step that is no access takes nothing from a clock of a thread or a block.
LEMMA OthersGrow ==
    ASSUME TypeInv, NEW t \in Threads,
           \/ \E ordering \in kernel.fences : Fence(t, ordering)
           \/ SyncThreads(t)
           \/ BarrierDepart(t)
           \/ SyncWarp(t)
    PROVE  \A u \in Threads : /\ Leq(clock[u], clock'[u])
                              /\ Leq(block[BlockOf(u)], block'[BlockOf(u)])
<1>1. /\ \A u \in Threads : clock[u] \in Clocks /\ fence_acquire[u] \in Clocks /\ block[BlockOf(u)] \in Clocks
      /\ \A u \in Threads : BlockOf(u) \in Blocks
      /\ DOMAIN clock = Threads /\ DOMAIN block = Blocks
      BY ThreadPlaced DEF TypeInv, SyncOK
<1>2. ASSUME NEW c \in Clocks PROVE Leq(c, c) /\ \A d \in Clocks : Leq(c, Join(c, d))
      BY JoinIsLeast DEF Leq, Clocks
<1>3. \/ clock' = clock
      \/ clock' = [clock EXCEPT ![t] = Join(@, fence_acquire[t])]
      \/ clock' = [clock EXCEPT ![t] = Join(@, block[BlockOf(t)])]
      \/ clock' = [clock EXCEPT ![t] = @]
      BY DEF Fence, FencedClock, SyncThreads, BarrierDepart, SyncWarp, syncVars
<1>4. block' = block \/ block' = [block EXCEPT ![BlockOf(t)] = Join(@, clock[t])]
      BY DEF Fence, SyncThreads, BarrierDepart, SyncWarp, syncVars
<1>5. \A u \in Threads : Leq(clock[u], clock'[u])
      BY <1>1, <1>2, <1>3
<1>6. \A u \in Threads : Leq(block[BlockOf(u)], block'[BlockOf(u)])
      BY <1>1, <1>2, <1>4
<1>7. QED BY <1>5, <1>6

\* A new launch, like the first, starts with empty clocks.
LEMMA LaunchStartsIn ==
    ASSUME TypeInv, NextLaunch, NEW G, NoClock \in G PROVE Everywhere(G)'
<1>1. \A e \in Elems : CellOf(e)'.release = NoClock
      BY CellAfterLaunch
<1>2. \A u \in Threads : BlockOf(u) \in Blocks
      BY ThreadPlaced
<1>3. QED BY <1>1, <1>2 DEF NextLaunch, Everywhere, PerThread

(***************************************************************************)
(* Nobody knows an operation that is not made, and a thread knows all its  *)
(* own.                                                                    *)
(***************************************************************************)
Upto(s) == {c \in Clocks : Leq(c, s)}

MadeInv == Everywhere(Upto(seq)) /\ \A t \in Threads : clock[t][t] = seq[t]

\* Joins of clocks up to some point are up to it, and the empty clock is.
LEMMA UptoJoins ==
    ASSUME NEW s \in Clocks
    PROVE  /\ Upto(s) \in SUBSET Clocks /\ NoClock \in Upto(s)
           /\ \A c, d \in Upto(s) : Join(c, d) \in Upto(s)
<1>1. NoClock \in Upto(s)
      BY NoClockKnowsNothing DEF Upto, Leq, Clocks
<1>2. \A c, d \in Upto(s) : Join(c, d) \in Upto(s)
      BY JoinIsLeast DEF Upto
<1>3. QED BY <1>1, <1>2 DEF Upto

\* The clock of an access: what its thread knew or acquired, and the access.
LEMMA NowIsNext ==
    ASSUME TypeInv, MadeInv, NEW t \in Threads, NEW e \in Elems, NEW op, NEW ordering
    PROVE  LET now == NowOf(t, e, op, ordering)
           IN  /\ Leq(clock[t], now)
               /\ now[t] = seq[t] + 1
               /\ \A u \in Threads \ {t} : now[u] <= seq[u]
               /\ \E got \in {clock[t], Join(clock[t], CellOf(e).release)} :
                     Leq(got, now) /\ \A u \in Threads \ {t} : now[u] = got[u]
<1>1. /\ clock[t] \in Clocks /\ CellOf(e).release \in Clocks /\ seq \in Clocks /\ seq[t] + 1 \in Nat
      /\ Leq(clock[t], seq) /\ Leq(CellOf(e).release, seq) /\ clock[t][t] = seq[t]
      BY DEF TypeInv, SyncOK, MadeInv, Everywhere, Upto, Clocks
<1> DEFINE got == AcquiredClock(t, CellOf(e), op, ordering)
           j == Join(clock[t], CellOf(e).release)
<1>2. j \in Clocks /\ Leq(clock[t], j) /\ Leq(j, seq)
      BY <1>1, JoinIsLeast
<1>3. got = clock[t] \/ got = j
      BY DEF AcquiredClock
<1>4. got \in Clocks /\ Leq(clock[t], got) /\ Leq(got, seq)
      BY <1>1, <1>2, <1>3 DEF Leq, Clocks
<1>5. NowOf(t, e, op, ordering) = Observe(got, t, seq[t] + 1)
      BY DEF NowOf
<1> HIDE DEF got, j
<1>6. got[t] <= seq[t] + 1
  <2>1. got[t] \in Nat /\ seq[t] \in Nat /\ got[t] <= seq[t]
        BY <1>1, <1>4 DEF Leq, Clocks
  <2>2. QED BY <2>1
<1>7. /\ Observe(got, t, seq[t] + 1) \in Clocks
      /\ Observe(got, t, seq[t] + 1)[t] = seq[t] + 1
      /\ Leq(got, Observe(got, t, seq[t] + 1))
      /\ \A u \in Threads \ {t} : Observe(got, t, seq[t] + 1)[u] = got[u]
      BY <1>1, <1>4, <1>6, ObserveRaises
<1>8. Leq(clock[t], Observe(got, t, seq[t] + 1))
      BY <1>1, <1>4, <1>7 DEF Leq, Clocks
<1>9. \A u \in Threads \ {t} : Observe(got, t, seq[t] + 1)[u] <= seq[u]
      BY <1>4, <1>7 DEF Leq
<1>10. QED BY <1>3, <1>5, <1>7, <1>8, <1>9 DEF j

\* Every step keeps it so.
LEMMA StepKeepsMade == Inv /\ MadeInv /\ [Next]_vars => MadeInv'
<1> SUFFICES ASSUME Inv, MadeInv, [Next]_vars PROVE MadeInv'
    OBVIOUS
<1>0. TypeInv /\ seq \in Clocks /\ DOMAIN clock = Threads
      BY DEF Inv, TypeInv, SyncOK, Clocks
<1>1. ASSUME NEW t \in Threads, AnyAccess(t) PROVE MadeInv'
  <2>1. PICK e \in Elems, op \in MemOps, ordering \in AllOrderings : AccessStep(t, e, op, ordering)
        BY <1>1 DEF AnyAccess
  <2>2. seq' = [seq EXCEPT ![t] = @ + 1] /\ clock' = [clock EXCEPT ![t] = NowOf(t, e, op, ordering)]
        BY <2>1 DEF AccessStep
  <2>3. PICK s : s = seq'
        OBVIOUS
  <2>4. s \in Clocks /\ Leq(seq, s) /\ s[t] = seq[t] + 1 /\ \A u \in Threads \ {t} : s[u] = seq[u]
        BY <1>0, <2>2, <2>3 DEF Leq, Clocks
  <2> DEFINE G == Upto(s)
             now == NowOf(t, e, op, ordering)
  <2>5. G \in SUBSET Clocks /\ NoClock \in G /\ \A c, d \in G : Join(c, d) \in G
        BY <2>4, UptoJoins
  <2>6. now \in Clocks
        BY <1>0, AccessTyped
  <2>7. now[t] = seq[t] + 1 /\ \A u \in Threads \ {t} : now[u] <= seq[u]
        BY <1>0, NowIsNext
  <2> HIDE DEF now
  <2>8. now \in G
    <3>1. \A u \in Threads : now[u] <= s[u]
      <4> SUFFICES ASSUME NEW u \in Threads PROVE now[u] <= s[u]
          OBVIOUS
      <4>1. now[u] \in Nat /\ s[u] \in Nat
            BY <2>4, <2>6 DEF Clocks
      <4>2. CASE u = t
            BY <2>4, <2>7, <4>1, <4>2
      <4>3. CASE u # t
            BY <2>4, <2>7, <4>1, <4>3
      <4>4. QED BY <4>2, <4>3
    <3>2. QED BY <3>1, <2>6 DEF Upto, Leq
  <2>9. Upto(seq) \subseteq G
        BY <1>0, <2>4 DEF Upto, Leq, Clocks
  <2>10. Everywhere(G)
        BY <2>9 DEF MadeInv, Everywhere
  <2> HIDE DEF G
  <2>11. Everywhere(G)'
        BY <1>0, <2>1, <2>5, <2>8, <2>10, AccessStaysIn DEF now
  <2>12. Everywhere(Upto(seq))'
        BY <2>3, <2>11 DEF G, Everywhere
  <2>13. \A u \in Threads : clock'[u][u] = seq'[u]
        BY <1>0, <2>2, <2>7 DEF MadeInv, now, Clocks
  <2>14. QED BY <2>12, <2>13 DEF MadeInv
<1>2. ASSUME NEW t \in Threads,
             \/ \E ordering \in kernel.fences : Fence(t, ordering)
             \/ SyncThreads(t)
             \/ BarrierDepart(t)
             \/ SyncWarp(t)
      PROVE  MadeInv'
  <2>1. seq' = seq
        BY <1>0, <1>2, MemoryUntouched
  <2>2. PICK s : s = seq
        OBVIOUS
  <2> DEFINE G == Upto(s)
  <2>3. G \in SUBSET Clocks /\ NoClock \in G /\ \A c, d \in G : Join(c, d) \in G
        BY <1>0, <2>2, UptoJoins
  <2>4. Everywhere(G)
        BY <2>2 DEF MadeInv
  <2> HIDE DEF G
  <2>5. Everywhere(G)'
        BY <1>0, <1>2, <2>3, <2>4, OthersStayIn
  <2>6. Everywhere(Upto(seq))'
        BY <2>1, <2>2, <2>5 DEF G
  <2>7. \A u \in Threads : Leq(clock[u], clock'[u])
        BY <1>0, <1>2, OthersGrow
  <2>8. \A u \in Threads : clock'[u][u] = seq'[u]
    <3> SUFFICES ASSUME NEW u \in Threads PROVE clock'[u][u] = seq'[u]
        OBVIOUS
    <3>1. clock'[u] \in Clocks /\ clock'[u][u] <= seq'[u]
          BY <2>6 DEF Everywhere, Upto, Leq
    <3>2. clock[u][u] = seq[u] /\ clock[u][u] <= clock'[u][u] /\ seq[u] \in Nat
          BY <1>0, <2>7 DEF MadeInv, Leq, Clocks
    <3>3. QED BY <2>1, <3>1, <3>2 DEF Clocks
  <2>9. QED BY <2>6, <2>8 DEF MadeInv
<1>3. CASE NextLaunch
  <2>1. seq' = NoClock /\ \A t \in Threads : clock'[t] = NoClock
        BY <1>3 DEF NextLaunch, PerThread, NoClock
  <2>2. PICK s : s = NoClock
        OBVIOUS
  <2> DEFINE G == Upto(s)
  <2>3. NoClock \in G
        BY <2>2, UptoJoins, NoClockKnowsNothing
  <2> HIDE DEF G
  <2>4. Everywhere(G)'
        BY <1>0, <1>3, <2>3, LaunchStartsIn
  <2>5. QED BY <2>1, <2>2, <2>4 DEF G, MadeInv
<1>4. CASE UNCHANGED vars
      BY <1>4, CellUnchanged DEF vars, syncVars, memVars, MadeInv, Everywhere
<1>5. QED BY <1>0, <1>1, <1>2, <1>3, <1>4, StepKinds, Zenon

(***************************************************************************)
(* Barriers order.  An access of an epoch that is over is known to its     *)
(* block and to every thread of the block that has left the barrier.       *)
(***************************************************************************)
PastOf(h) ==
    LET b == BlockOf(h.thread)
    IN  /\ 1 <= h.seq /\ h.seq <= seq[h.thread]
        /\ h.epoch <= barrier_gen[b]
        /\ h.epoch < barrier_gen[b] =>
              /\ h.seq <= block[b][h.thread]
              /\ \A t \in BlockThreads(b) : at[t] # "released" => h.seq <= clock[t][h.thread]

PastInv == \A e \in Elems : \A h \in ref.hist[e] : PastOf(h)

\* The past stays the past while clocks grow and no epoch ends.
LEMMA PastStays ==
    ASSUME TypeInv, TypeInv', NEW h \in Accesses, PastOf(h), Leq(seq, seq'),
           barrier_gen' = barrier_gen,
           \A u \in Threads : /\ Leq(clock[u], clock'[u])
                              /\ Leq(block[BlockOf(u)], block'[BlockOf(u)]),
           \A u \in BlockThreads(BlockOf(h.thread)) :
               at'[u] # "released" =>
                   \/ at[u] # "released"
                   \/ Leq(block[BlockOf(u)], clock'[u])
    PROVE  PastOf(h)'
<1> DEFINE b == BlockOf(h.thread)
           x == h.thread
<1>1. x \in Threads /\ h.seq \in Nat /\ h.epoch \in Nat
      BY DEF Accesses
<1>2. /\ \A u \in Threads : clock[u][x] \in Nat /\ clock'[u][x] \in Nat
      /\ block[b][x] \in Nat /\ block'[b][x] \in Nat /\ seq[x] \in Nat /\ seq'[x] \in Nat
      BY <1>1, ThreadPlaced DEF TypeInv, SyncOK, Clocks
<1>3. 1 <= h.seq /\ h.seq <= seq'[x] /\ h.epoch <= barrier_gen'[b]
  <2>1. h.seq <= seq[x] /\ seq[x] <= seq'[x]
        BY <1>1 DEF PastOf, Leq
  <2>2. QED BY <1>1, <1>2, <2>1 DEF PastOf
<1>4. ASSUME h.epoch < barrier_gen'[b]
      PROVE  /\ h.seq <= block'[b][x]
             /\ \A u \in BlockThreads(b) : at'[u] # "released" => h.seq <= clock'[u][x]
  <2>1. /\ h.seq <= block[b][x]
        /\ \A u \in BlockThreads(b) : at[u] # "released" => h.seq <= clock[u][x]
        BY <1>4 DEF PastOf
  <2>2. block[b][x] <= block'[b][x]
        BY <1>1 DEF Leq
  <2>3. ASSUME NEW u \in BlockThreads(b), at'[u] # "released" PROVE h.seq <= clock'[u][x]
    <3>1. u \in Threads /\ BlockOf(u) = b
          BY DEF BlockThreads
    <3>2. CASE at[u] # "released"
      <4>1. h.seq <= clock[u][x] /\ clock[u][x] <= clock'[u][x]
            BY <2>1, <3>1, <3>2, <1>1 DEF Leq
      <4>2. QED BY <4>1, <3>1, <1>1, <1>2
    <3>3. CASE Leq(block[BlockOf(u)], clock'[u])
      <4>1. block[b][x] <= clock'[u][x]
            BY <3>1, <3>3, <1>1 DEF Leq
      <4>2. QED BY <2>1, <4>1, <3>1, <1>1, <1>2
    <3>4. QED BY <2>3, <3>2, <3>3
  <2>4. QED BY <1>1, <1>2, <2>1, <2>2, <2>3
<1>5. QED BY <1>3, <1>4 DEF PastOf

\* Every step keeps the past.
LEMMA StepKeepsPast == Inv /\ Inv' /\ MadeInv /\ PastInv /\ [Next]_vars => PastInv'
<1> SUFFICES ASSUME Inv, Inv', MadeInv, PastInv, [Next]_vars PROVE PastInv'
    OBVIOUS
<1>0. /\ TypeInv /\ TypeInv' /\ seq \in Clocks /\ DOMAIN clock = Threads /\ DOMAIN at = Threads
      /\ \A u \in Threads : clock[u] \in Clocks /\ block[BlockOf(u)] \in Clocks
      /\ DOMAIN ref.hist = Elems /\ \A e \in Elems : ref.hist[e] \subseteq Accesses
      BY ThreadPlaced DEF Inv, TypeInv, SyncOK, SchedOK, Clocks, Refs
<1>a. ASSUME NEW c \in Clocks PROVE Leq(c, c)
      BY DEF Leq, Clocks
<1>1. ASSUME NEW t \in Threads, AnyAccess(t) PROVE PastInv'
  <2>1. PICK e \in Elems, op \in MemOps, ordering \in AllOrderings : AccessStep(t, e, op, ordering)
        BY <1>1 DEF AnyAccess
  <2> DEFINE now == NowOf(t, e, op, ordering)
  <2>a. PICK acc : acc = AccOf(t, op)
        OBVIOUS
  <2>2. /\ seq' = [seq EXCEPT ![t] = @ + 1] /\ clock' = [clock EXCEPT ![t] = now]
        /\ block' = block /\ barrier_gen' = barrier_gen /\ at' = at
        /\ ref'.hist = [ref.hist EXCEPT ![e] = @ \cup {acc}]
        BY <2>1, <2>a DEF AccessStep, RefStep
  <2>3. Leq(clock[t], now)
        BY <1>0, NowIsNext
  <2>4. acc \in Accesses /\ acc.thread = t /\ acc.seq = seq[t] + 1 /\ acc.epoch = barrier_gen[BlockOf(t)]
        BY <1>0, <2>a, AccessTyped DEF AccOf, Access
  <2> HIDE DEF now
  <2>5. Leq(seq, seq')
        BY <1>0, <2>2 DEF Leq, Clocks
  <2>6. \A u \in Threads : Leq(clock[u], clock'[u]) /\ Leq(block[BlockOf(u)], block'[BlockOf(u)])
        BY <1>0, <1>a, <2>2, <2>3
  <2>7. \A h \in Accesses : PastOf(h) => PastOf(h)'
        BY <1>0, <2>2, <2>5, <2>6, PastStays
  <2>8. PastOf(acc)'
    <3>1. barrier_gen[BlockOf(t)] \in Nat /\ seq[t] \in Nat /\ seq'[t] = seq[t] + 1
          BY <1>0, <2>2, ThreadPlaced DEF TypeInv, SchedOK, Clocks
    <3>2. QED BY <2>2, <2>4, <3>1 DEF PastOf
  <2>9. ASSUME NEW d \in Elems, NEW h \in ref'.hist[d] PROVE PastOf(h)'
    <3>1. h \in ref.hist[d] \/ h = acc
          BY <1>0, <2>2
    <3>2. QED BY <1>0, <2>7, <2>8, <3>1 DEF PastInv
  <2>10. QED BY <2>9 DEF PastInv
<1>2. ASSUME NEW t \in Threads,
             \/ \E ordering \in kernel.fences : Fence(t, ordering)
             \/ SyncThreads(t)
             \/ BarrierDepart(t)
             \/ SyncWarp(t)
      PROVE  PastInv'
  <2>1. seq' = seq /\ ref'.hist = ref.hist
        BY <1>0, <1>2, MemoryUntouched
  <2>2. \A u \in Threads : Leq(clock[u], clock'[u]) /\ Leq(block[BlockOf(u)], block'[BlockOf(u)])
        BY <1>0, <1>2, OthersGrow
  <2>3. Leq(seq, seq')
        BY <1>0, <1>a, <2>1
  <2> SUFFICES ASSUME NEW e \in Elems, NEW h \in ref.hist[e], PastOf(h) PROVE PastOf(h)'
      BY <2>1 DEF PastInv
  <2>4. h \in Accesses /\ h.thread \in Threads
        BY <1>0 DEF Accesses
  <2>5. CASE \E ordering \in kernel.fences : Fence(t, ordering)
    <3>1. barrier_gen' = barrier_gen /\ at' = at
          BY <2>5 DEF Fence, schedVars
    <3>2. QED BY <1>0, <2>2, <2>3, <2>4, <3>1, PastStays
  <2>6. CASE SyncWarp(t)
    <3>1. barrier_gen' = barrier_gen
          BY <2>6 DEF SyncWarp
    <3>2. \A u \in BlockThreads(BlockOf(h.thread)) : at'[u] # "released" => at[u] # "released"
          BY <1>0, <2>6, WarpMovesNobodyElse DEF BlockThreads
    <3>3. QED BY <1>0, <2>2, <2>3, <2>4, <3>1, <3>2, PastStays
  <2>7. CASE BarrierDepart(t)
    <3>1. /\ barrier_gen' = barrier_gen /\ at' = [at EXCEPT ![t] = "kernel"]
          /\ clock' = [clock EXCEPT ![t] = Join(@, block[BlockOf(t)])]
          BY <2>7, Zenon DEF BarrierDepart
    <3>2. Leq(block[BlockOf(t)], clock'[t])
      <4>1. clock'[t] = Join(clock[t], block[BlockOf(t)])
            BY <1>0, <3>1
      <4>2. QED BY <1>0, <4>1, JoinIsLeast
    <3>3. \A u \in BlockThreads(BlockOf(h.thread)) :
             at'[u] # "released" => at[u] # "released" \/ Leq(block[BlockOf(u)], clock'[u])
          BY <1>0, <3>1, <3>2 DEF BlockThreads
    <3>4. QED BY <1>0, <2>2, <2>3, <2>4, <3>1, <3>3, PastStays
  <2>8. CASE SyncThreads(t)
    <3> DEFINE b == BlockOf(t)
               allHere == \A u \in BlockThreads(b) \ {t} : at[u] = "barrier"
               d == Join(block[b], clock[t])
    <3>1. /\ at[t] = "kernel"
          /\ block' = [block EXCEPT ![b] = d]
          /\ clock' = clock
          /\ \/ ~allHere /\ Arrival(t)
             \/ allHere /\ Release(t)
          BY <1>0, <2>8, SyncThreadsSteps, Zenon
    <3>2. CASE Arrival(t)
      <4>1. barrier_gen' = barrier_gen /\ at' = [at EXCEPT ![t] = "barrier"]
            BY <3>2 DEF Arrival
      <4>2. \A u \in BlockThreads(BlockOf(h.thread)) : at'[u] # "released" => at[u] # "released"
            BY <1>0, <3>1, <4>1 DEF BlockThreads
      <4>3. QED BY <1>0, <2>2, <2>3, <2>4, <4>1, <4>2, PastStays
    <3>3. CASE allHere /\ Release(t)
      <4>1. /\ at' = [u \in Threads |-> IF BlockOf(u) = b THEN "released" ELSE at[u]]
            /\ barrier_gen' = [barrier_gen EXCEPT ![b] = @ + 1]
            BY <3>3, Zenon DEF Release
      <4>2. d \in Clocks /\ \A v \in BlockThreads(b) : Leq(clock[v], d)
            BY <3>1, <3>3, LastArrivalKnows
      <4>3. /\ DOMAIN block = Blocks /\ b \in Blocks /\ DOMAIN barrier_gen = Blocks
            /\ barrier_gen[b] \in Nat /\ BlockOf(h.thread) \in Blocks
            BY <1>0, <2>4, ThreadPlaced DEF TypeInv, SyncOK, SchedOK
      <4> HIDE DEF d, allHere
      <4>4. CASE BlockOf(h.thread) = b
        <5>1. h.seq <= d[h.thread]
          <6>1. h.thread \in BlockThreads(b)
                BY <2>4, <4>4 DEF BlockThreads
          <6>2. clock[h.thread][h.thread] <= d[h.thread] /\ clock[h.thread][h.thread] = seq[h.thread]
                BY <2>4, <4>2, <6>1 DEF Leq, MadeInv
          <6>3. h.seq <= seq[h.thread] /\ h.seq \in Nat /\ seq[h.thread] \in Nat /\ d[h.thread] \in Nat
                BY <1>0, <2>4, <4>2 DEF PastOf, Accesses, Clocks
          <6>4. QED BY <6>2, <6>3
        <5>2. block'[b] = d /\ barrier_gen'[b] = barrier_gen[b] + 1
              BY <3>1, <4>1, <4>3
        <5>3. \A u \in BlockThreads(b) : at'[u] = "released"
              BY <4>1 DEF BlockThreads
        <5>4. /\ 1 <= h.seq /\ h.seq <= seq[h.thread] /\ h.epoch <= barrier_gen[b]
              /\ h.epoch \in Nat
              BY <2>4, <4>4 DEF PastOf, Accesses
        <5>5. h.epoch <= barrier_gen[b] + 1
              BY <4>3, <5>4
        <5>6. QED BY <2>1, <4>4, <5>1, <5>2, <5>3, <5>4, <5>5 DEF PastOf
      <4>5. CASE BlockOf(h.thread) # b
        <5>1. /\ block'[BlockOf(h.thread)] = block[BlockOf(h.thread)]
              /\ barrier_gen'[BlockOf(h.thread)] = barrier_gen[BlockOf(h.thread)]
              BY <3>1, <4>1, <4>3, <4>5
        <5>2. \A u \in BlockThreads(BlockOf(h.thread)) : at'[u] = at[u]
              BY <4>1, <4>5 DEF BlockThreads
        <5>3. QED BY <2>1, <3>1, <5>1, <5>2 DEF PastOf
      <4>6. QED BY <4>4, <4>5
    <3>4. QED BY <3>1, <3>2, <3>3
  <2>9. QED BY <1>2, <2>5, <2>6, <2>7, <2>8
<1>3. CASE NextLaunch
      BY <1>3 DEF NextLaunch, NewRef, PastInv
<1>4. CASE UNCHANGED vars
      BY <1>4 DEF vars, syncVars, schedVars, PastInv, PastOf
<1>5. QED BY <1>0, <1>1, <1>2, <1>3, <1>4, StepKinds, Zenon

(***************************************************************************)
(* Whoever knows an access knows what its thread knew when it made it.     *)
(***************************************************************************)
\* The clocks that, where they know c, know h.
Closing(c, h) == {k \in Clocks : c.seq <= k[c.thread] => h.seq <= k[h.thread]}

\* Joins do not leave them, and the empty clock is one.
LEMMA ClosingJoins ==
    ASSUME NEW c \in Accesses, NEW h \in Accesses, 1 <= c.seq
    PROVE  /\ Closing(c, h) \in SUBSET Clocks /\ NoClock \in Closing(c, h)
           /\ \A k, l \in Closing(c, h) : Join(k, l) \in Closing(c, h)
<1>1. c.thread \in Threads /\ h.thread \in Threads /\ c.seq \in Nat /\ h.seq \in Nat
      BY DEF Accesses
<1>2. NoClock \in Closing(c, h)
      BY <1>1, NoClockKnowsNothing DEF Closing
<1>3. ASSUME NEW k \in Closing(c, h), NEW l \in Closing(c, h) PROVE Join(k, l) \in Closing(c, h)
  <2>1. k \in Clocks /\ l \in Clocks /\ Join(k, l) \in Clocks
        BY JoinIsLeast DEF Closing
  <2>2. /\ Join(k, l)[c.thread] \in {k[c.thread], l[c.thread]}
        /\ k[h.thread] <= Join(k, l)[h.thread] /\ l[h.thread] <= Join(k, l)[h.thread]
        BY <1>1, <2>1, JoinIsLeast DEF Leq
  <2>3. k[h.thread] \in Nat /\ l[h.thread] \in Nat /\ Join(k, l)[h.thread] \in Nat
        BY <1>1, <2>1 DEF Clocks
  <2>4. /\ c.seq <= k[c.thread] => h.seq <= k[h.thread]
        /\ c.seq <= l[c.thread] => h.seq <= l[h.thread]
        BY DEF Closing
  <2>5. c.seq <= Join(k, l)[c.thread] => h.seq <= Join(k, l)[h.thread]
        BY <1>1, <2>2, <2>3, <2>4
  <2>6. QED BY <2>1, <2>5 DEF Closing
<1>4. QED BY <1>2, <1>3 DEF Closing

\* The clock of an access is one of them too.
LEMMA NowCloses ==
    ASSUME TypeInv, MadeInv, NEW c \in Accesses, NEW h \in Accesses,
           1 <= c.seq, c.seq <= seq[c.thread], Everywhere(Closing(c, h)),
           NEW t \in Threads, NEW e \in Elems, NEW op \in MemOps, NEW ordering
    PROVE  NowOf(t, e, op, ordering) \in Closing(c, h)
<1> DEFINE now == NowOf(t, e, op, ordering)
<1>1. now \in Clocks
      BY AccessTyped
<1>2. PICK got \in {clock[t], Join(clock[t], CellOf(e).release)} :
           Leq(got, now) /\ \A u \in Threads \ {t} : now[u] = got[u]
      BY NowIsNext
<1>3. Leq(clock[t], now)
      BY NowIsNext
<1>4. got \in Closing(c, h) /\ clock[t] \in Closing(c, h)
      BY <1>2, ClosingJoins DEF Everywhere
<1>5. c.thread \in Threads /\ h.thread \in Threads /\ c.seq \in Nat /\ h.seq \in Nat
      BY DEF Accesses
<1> HIDE DEF now
<1>6. /\ got \in Clocks /\ clock[t] \in Clocks
      /\ c.seq <= got[c.thread] => h.seq <= got[h.thread]
      /\ c.seq <= clock[t][c.thread] => h.seq <= clock[t][h.thread]
      BY <1>4 DEF Closing
<1>7. /\ got[h.thread] \in Nat /\ clock[t][h.thread] \in Nat /\ now[h.thread] \in Nat
      /\ got[h.thread] <= now[h.thread] /\ clock[t][h.thread] <= now[h.thread]
      BY <1>1, <1>2, <1>3, <1>5, <1>6 DEF Leq, Clocks
<1>8. CASE c.thread = t
  <2>1. clock[t][c.thread] = seq[c.thread]
        BY <1>8 DEF MadeInv
  <2>2. h.seq <= now[h.thread]
        BY <1>5, <1>6, <1>7, <2>1
  <2>3. QED BY <1>1, <2>2 DEF Closing, now
<1>9. CASE c.thread # t
  <2>1. now[c.thread] = got[c.thread]
        BY <1>2, <1>5, <1>9
  <2>2. c.seq <= now[c.thread] => h.seq <= now[h.thread]
        BY <1>5, <1>6, <1>7, <2>1
  <2>3. QED BY <1>1, <2>2 DEF Closing, now
<1>10. QED BY <1>8, <1>9

\* An access keeps it so, for an earlier access c and for itself.
LEMMA AccessCloses ==
    ASSUME TypeInv, MadeInv, NEW c \in Accesses, NEW h \in Accesses, 1 <= c.seq,
           NEW t \in Threads, NEW e \in Elems, NEW op \in MemOps, NEW ordering,
           AccessStep(t, e, op, ordering),
           \/ c.seq <= seq[c.thread] /\ Everywhere(Closing(c, h))
           \/ c = AccOf(t, op) /\ h.seq <= NowOf(t, e, op, ordering)[h.thread]
    PROVE  Everywhere(Closing(c, h))'
<1> DEFINE G == Closing(c, h)
           now == NowOf(t, e, op, ordering)
<1>1. G \in SUBSET Clocks /\ NoClock \in G /\ \A k, l \in G : Join(k, l) \in G
      BY ClosingJoins
<1>2. now \in Clocks
      BY AccessTyped
<1>3. CASE c.seq <= seq[c.thread] /\ Everywhere(Closing(c, h))
  <2>1. now \in G
        BY <1>3, NowCloses
  <2> HIDE DEF G
  <2>2. Everywhere(G)
        BY <1>3 DEF G
  <2>3. Everywhere(G)'
        BY <1>1, <2>1, <2>2, AccessStaysIn
  <2>4. QED BY <2>3 DEF G
<1>4. CASE c = AccOf(t, op) /\ h.seq <= now[h.thread]
  <2>1. now \in G
        BY <1>2, <1>4 DEF Closing
  <2>2. c.thread = t /\ c.seq = seq[t] + 1 /\ seq[t] \in Nat
        BY <1>4 DEF AccOf, Access, TypeInv, SyncOK
  <2>3. Upto(seq) \subseteq G
    <3> SUFFICES ASSUME NEW k \in Upto(seq) PROVE k \in G
        OBVIOUS
    <3>1. k \in Clocks /\ k[t] <= seq[t] /\ k[t] \in Nat
          BY DEF Upto, Leq, Clocks
    <3>2. ~(c.seq <= k[c.thread])
          BY <2>2, <3>1
    <3>3. QED BY <3>1, <3>2 DEF Closing
  <2>4. Everywhere(G)
        BY <2>3 DEF MadeInv, Everywhere
  <2> HIDE DEF G
  <2>5. Everywhere(G)'
        BY <1>1, <2>1, <2>4, AccessStaysIn
  <2>6. QED BY <2>5 DEF G
<1>5. QED BY <1>3, <1>4

(***************************************************************************)
(* A cell stands for the history of its element, as long as the element is *)
(* clean: no race is reported on it and no cause has excused it.  Each     *)
(* access of the past is in the cell, or known to whoever knows the last   *)
(* write, or is a read and known to whoever knows one of the readers.      *)
(***************************************************************************)
Clean(e) == e \notin ref.excused /\ e \notin ElemsOf(races)

StandsFor(e, h) ==
    \/ h = CellOf(e).last_write
    \/ \E i \in DOMAIN CellOf(e).readers : h = CellOf(e).readers[i]
    \/ CellOf(e).last_write # NoAccess /\ Everywhere(Closing(CellOf(e).last_write, h))
    \/ h.op = "read" /\ \E i \in DOMAIN CellOf(e).readers : Everywhere(Closing(CellOf(e).readers[i], h))

\* The cell of e stands for its history.
Stands(e) == \A h \in ref.hist[e] : StandsFor(e, h)

ChainInv == \A e \in Elems : Clean(e) => Stands(e)

\* The invariants of the cells and clocks.
KnowInv == Inv /\ CellsHeld /\ MadeInv /\ PastInv

\* An access that finds no conflict, and in the cell nothing that it neither
\* knows nor is concurrent with.
Unopposed(t, e, op, ordering) ==
    /\ ConflictOf(t, e, op, ordering) = {}
    /\ ~Unchained(op, AccOf(t, op), CellOf(e), NowOf(t, e, op, ordering))

\* An access that leaves its element clean found no conflict and no cause.
LEMMA CleanAccess ==
    ASSUME KnowInv, NEW t \in Threads, NEW e \in Elems, NEW op \in MemOps, NEW ordering,
           AccessStep(t, e, op, ordering), Clean(e)'
    PROVE  /\ Clean(e)
           /\ Unopposed(t, e, op, ordering)
           /\ ~Unrecorded(op, AccOf(t, op), Recorded(t, e, op))
           /\ ~LoadPublishes(op, CellOf(e).release, ReleaseOf(t, e, op, ordering))
<1>1. /\ races' = races \cup {Race(e, a, AccOf(t, op)) : a \in ConflictOf(t, e, op, ordering)}
      /\ ref'.excused = ref.excused \cup LossesOf(t, e, op, ordering)
      BY Zenon DEF AccessStep, RefStep
<1>2. e \notin ref'.excused /\ e \notin ElemsOf(races')
      BY DEF Clean, ElemsOf
<1>3. Clean(e)
      BY <1>1, <1>2 DEF Clean, ElemsOf
<1>4. ConflictOf(t, e, op, ordering) = {}
  <2> SUFFICES ASSUME NEW a \in ConflictOf(t, e, op, ordering) PROVE FALSE
      OBVIOUS
  <2>1. Race(e, a, AccOf(t, op)) \in races' /\ Race(e, a, AccOf(t, op)).elem = e
        BY <1>1 DEF Race
  <2>2. QED BY <1>2, <2>1 DEF ElemsOf
<1>5. e \notin LossesOf(t, e, op, ordering)
      BY <1>1, <1>2
<1>6. QED BY <1>3, <1>4, <1>5, Zenon DEF LossesOf, Losses, Unopposed

\* It knows all that it was compared with.
LEMMA ComparedIsKnown ==
    ASSUME KnowInv, NEW t \in Threads, NEW e \in Elems, NEW op \in MemOps, NEW ordering,
           AccessStep(t, e, op, ordering), Unopposed(t, e, op, ordering)
    PROVE  LET now == NowOf(t, e, op, ordering)
           IN  /\ CellOf(e).last_write # NoAccess =>
                     CellOf(e).last_write.seq <= now[CellOf(e).last_write.thread]
               /\ op # "read" => \A i \in DOMAIN CellOf(e).readers :
                     CellOf(e).readers[i].seq <= now[CellOf(e).readers[i].thread]
<1> DEFINE now == NowOf(t, e, op, ordering)
           acc == AccOf(t, op)
           cell == CellOf(e)
<1>0. TypeInv /\ now \in Clocks /\ cell \in CellsOf(Accesses)
      BY AccessTyped, CellTyped DEF KnowInv, Inv, Cells
<1>1. /\ ConflictOf(t, e, op, ordering) = {}
      /\ ~Unchained(op, acc, cell, now)
      BY DEF Unopposed
<1>2. /\ \A i \in DOMAIN cell.readers : cell.readers[i] \in Accesses
      /\ cell.last_write # NoAccess => cell.last_write \in Accesses
      BY <1>0 DEF CellsOf
<1>3. \A a \in Accesses : now[a.thread] \in Nat /\ a.seq \in Nat
      BY <1>0 DEF Accesses, Clocks
<1>4. ~ConcurrentWrite(cell, acc, now)
  <2>1. CASE op = "read"
        BY <2>1, <1>1 DEF ConflictOf, ReadConflict
  <2>2. CASE op # "read"
        BY <2>2, <1>0, <1>1, WriteConflictIsFound DEF ConflictOf
  <2>3. QED BY <2>1, <2>2
<1>5. op # "read" => \A i \in DOMAIN cell.readers : ~Concurrent(cell.readers[i], acc, now)
      BY <1>0, <1>1, WriteConflictIsFound DEF ConflictOf
<1> HIDE DEF now, acc, cell
<1>6. ASSUME cell.last_write # NoAccess PROVE cell.last_write.seq <= now[cell.last_write.thread]
  <2>1. cell.last_write \in Compared(op, cell)
        BY <1>6 DEF Compared
  <2>2. ~Concurrent(cell.last_write, acc, now)
        BY <1>4, <1>6 DEF ConcurrentWrite
  <2>3. ~(now[cell.last_write.thread] < cell.last_write.seq)
        BY <1>1, <2>1, <2>2 DEF Unchained
  <2>4. QED BY <1>2, <1>3, <1>6, <2>3
<1>7. ASSUME op # "read", NEW i \in DOMAIN cell.readers
      PROVE  cell.readers[i].seq <= now[cell.readers[i].thread]
  <2>1. cell.readers[i] \in Compared(op, cell)
        BY <1>7 DEF Compared
  <2>2. ~(now[cell.readers[i].thread] < cell.readers[i].seq)
        BY <1>1, <1>5, <1>7, <2>1 DEF Unchained
  <2>3. QED BY <1>2, <1>3, <2>2
<1>8. QED BY <1>6, <1>7 DEF now, cell

\* The accesses of the history, as the cell and its clocks see them.
LEMMA HistoryTyped ==
    ASSUME KnowInv, NEW e \in Elems, NEW h \in ref.hist[e]
    PROVE  /\ h \in Accesses /\ 1 <= h.seq /\ h.seq <= seq[h.thread]
           /\ h.epoch <= barrier_gen[BlockOf(h.thread)]
<1>1. h \in Accesses
      BY DEF KnowInv, Inv, TypeInv, Refs
<1>2. PastOf(h)
      BY DEF KnowInv, PastInv
<1>3. QED BY <1>1, <1>2 DEF PastOf

\* And so it knows the history: all of it if it writes, the writes if it reads.
LEMMA HistoryIsKnown ==
    ASSUME KnowInv, NEW t \in Threads, NEW e \in Elems, NEW op \in MemOps, NEW ordering,
           AccessStep(t, e, op, ordering), Unopposed(t, e, op, ordering), Stands(e),
           NEW h \in ref.hist[e], op # "read" \/ h.op # "read"
    PROVE  h.seq <= NowOf(t, e, op, ordering)[h.thread]
<1> DEFINE now == NowOf(t, e, op, ordering)
           cell == CellOf(e)
<1>0. TypeInv /\ MadeInv /\ CellsHeld /\ h \in Accesses
      BY HistoryTyped DEF KnowInv, Inv
<1>1. StandsFor(e, h)
      BY DEF Stands
<1>2. /\ cell.last_write # NoAccess => cell.last_write.seq <= now[cell.last_write.thread]
      /\ op # "read" => \A i \in DOMAIN cell.readers :
            cell.readers[i].seq <= now[cell.readers[i].thread]
      BY ComparedIsKnown
<1>3. /\ cell.last_write # NoAccess => cell.last_write \in ref.hist[e]
      /\ \A i \in DOMAIN cell.readers : cell.readers[i] \in ref.hist[e] /\ cell.readers[i].op = "read"
      BY <1>0 DEF CellsHeld
<1>4. ASSUME NEW c \in ref.hist[e], Everywhere(Closing(c, h)), c.seq <= now[c.thread]
      PROVE  h.seq <= now[h.thread]
  <2>1. now \in Closing(c, h)
        BY <1>0, <1>4, HistoryTyped, NowCloses
  <2>2. QED BY <1>4, <2>1 DEF Closing
<1>5. h # NoAccess
  <2>1. NoAccess.seq = 0
        BY DEF NoAccess
  <2>2. QED BY <2>1, HistoryTyped
<1> HIDE DEF now, cell
<1>6. CASE h = cell.last_write
      BY <1>2, <1>5, <1>6 DEF now
<1>7. CASE \E i \in DOMAIN cell.readers : h = cell.readers[i]
      BY <1>2, <1>3, <1>7 DEF now
<1>8. CASE cell.last_write # NoAccess /\ Everywhere(Closing(cell.last_write, h))
      BY <1>2, <1>3, <1>4, <1>8 DEF now
<1>9. CASE h.op = "read" /\ \E i \in DOMAIN cell.readers : Everywhere(Closing(cell.readers[i], h))
  <2>1. PICK i \in DOMAIN cell.readers : Everywhere(Closing(cell.readers[i], h))
        BY <1>9
  <2>2. op # "read"
        BY <1>9
  <2>3. QED BY <1>2, <1>3, <1>4, <2>1, <2>2 DEF now
<1>10. QED BY <1>1, <1>6, <1>7, <1>8, <1>9 DEF StandsFor, cell


\* How an access stands for an earlier one.
Covers(c, h) == c = h \/ Everywhere(Closing(c, h))

\* What the cell of the next state stands for.
LEMMA StandsNext ==
    ASSUME NEW e \in Elems, NEW h, NEW w, NEW readers,
           w = CellOf(e)'.last_write, readers = CellOf(e)'.readers,
           \/ w # NoAccess /\ Covers(w, h)'
           \/ \E i \in DOMAIN readers : h = readers[i]
           \/ h.op = "read" /\ \E i \in DOMAIN readers : Covers(readers[i], h)'
    PROVE  StandsFor(e, h)'
BY DEF StandsFor, Covers, Everywhere


\* Whoever covers one that covers h covers h.
LEMMA CoversChain ==
    ASSUME NEW c, NEW d, NEW h, Covers(c, d)', Covers(d, h)'
    PROVE  Covers(c, h)'
BY DEF Covers, Everywhere, Closing

\* After an access, what covered an access of the past covers it still, and
\* the access itself covers all that it knows.
LEMMA AccessCovering ==
    ASSUME KnowInv, NEW t \in Threads, NEW e \in Elems, NEW op \in MemOps, NEW ordering,
           AccessStep(t, e, op, ordering), NEW acc, acc = AccOf(t, op)
    PROVE  /\ acc \in Accesses /\ acc.thread = t /\ acc.op = op /\ acc.epoch = barrier_gen[BlockOf(t)]
           /\ \A d \in Elems : \A c, h \in ref.hist[d] : Covers(c, h) => Covers(c, h)'
           /\ \A d \in Elems : \A h \in ref.hist[d] :
                 h.seq <= NowOf(t, e, op, ordering)[h.thread] => Covers(acc, h)'
<1>0. TypeInv /\ MadeInv
      BY DEF KnowInv, Inv
<1>1. /\ acc \in Accesses /\ acc.thread = t /\ acc.op = op /\ acc.epoch = barrier_gen[BlockOf(t)]
      /\ acc.seq = seq[t] + 1 /\ seq[t] \in Nat
      BY <1>0, AccessTyped DEF AccOf, Access, TypeInv, SyncOK
<1>2. ASSUME NEW d \in Elems, NEW c \in ref.hist[d], NEW h \in ref.hist[d], Covers(c, h)
      PROVE  Covers(c, h)'
  <2>1. c \in Accesses /\ h \in Accesses /\ 1 <= c.seq /\ c.seq <= seq[c.thread]
        BY HistoryTyped
  <2>2. CASE c = h
        BY <2>2 DEF Covers
  <2>3. CASE Everywhere(Closing(c, h))
    <3>1. Everywhere(Closing(c, h))'
          BY <1>0, <2>1, <2>3, AccessCloses
    <3>2. QED BY <3>1 DEF Covers
  <2>4. QED BY <1>2, <2>2, <2>3 DEF Covers
<1>3. ASSUME NEW d \in Elems, NEW h \in ref.hist[d], h.seq <= NowOf(t, e, op, ordering)[h.thread]
      PROVE  Covers(acc, h)'
  <2>1. h \in Accesses
        BY HistoryTyped
  <2>2. 1 <= acc.seq
        BY <1>1
  <2>3. Everywhere(Closing(acc, h))'
        BY <1>0, <1>1, <1>3, <2>1, <2>2, AccessCloses
  <2>4. QED BY <2>3 DEF Covers
<1>4. QED BY <1>1, <1>2, <1>3

\* A write that is not opposed stands for the whole history.
LEMMA WriteStands ==
    ASSUME KnowInv, NEW t \in Threads, NEW e \in Elems, NEW op \in MemOps, NEW ordering,
           AccessStep(t, e, op, ordering), Unopposed(t, e, op, ordering), Stands(e),
           op # "read", NEW h \in ref'.hist[e]
    PROVE  StandsFor(e, h)'
<1>0. TypeInv
      BY DEF KnowInv, Inv
<1>1. PICK acc : acc = AccOf(t, op)
      OBVIOUS
<1>2. CellOf(e)'.last_write = acc /\ acc # NoAccess
  <2>1. CellOf(e)'.last_write = Recorded(t, e, op).last_write
        BY <1>0, CellAfterAccess
  <2>2. CellOf(e) \in CellsOf(Accesses) /\ AccOf(t, op) \in Accesses
        BY <1>0, CellTyped, AccessTyped DEF Cells
  <2>3. Recorded(t, e, op).last_write = acc
        BY <1>1, <2>2, OnWriteRecords DEF Recorded
  <2>4. acc.op # NoAccess.op
        BY <1>1 DEF AccOf, Access, NoAccess, MemOps
  <2>5. QED BY <2>1, <2>3, <2>4
<1>3. h \in ref.hist[e] \/ h = acc
      BY <1>0, <1>1 DEF AccessStep, RefStep, TypeInv, Refs
<1>4. Covers(acc, h)'
  <2>1. CASE h = acc
        BY <2>1 DEF Covers
  <2>2. CASE h \in ref.hist[e]
    <3>1. h.seq <= NowOf(t, e, op, ordering)[h.thread]
          BY <2>2, HistoryIsKnown
    <3>2. QED BY <1>1, <2>2, <3>1, AccessCovering
  <2>3. QED BY <1>3, <2>1, <2>2
<1>5. PICK readers : readers = CellOf(e)'.readers
      OBVIOUS
<1>6. QED BY <1>2, <1>4, <1>5, StandsNext


\* A reader that a read drops, of an epoch that is over, is known to it.
LEMMA DroppedIsKnown ==
    ASSUME KnowInv, NEW t \in Threads, NEW e \in Elems, NEW op \in MemOps, NEW ordering,
           AccessStep(t, e, op, ordering), NEW r \in ref.hist[e], ~Retained(r, AccOf(t, op))
    PROVE  r.seq <= NowOf(t, e, op, ordering)[r.thread]
<1> DEFINE now == NowOf(t, e, op, ordering)
<1>0. TypeInv /\ MadeInv /\ now \in Clocks
      BY AccessTyped DEF KnowInv, Inv
<1>1. r \in Accesses /\ r.epoch <= barrier_gen[BlockOf(r.thread)]
      BY HistoryTyped
<1>2. BlockOf(r.thread) = BlockOf(t) /\ r.epoch # barrier_gen[BlockOf(t)]
      BY DEF Retained, AccOf, Access
<1>3. r.thread \in Threads /\ r.epoch \in Nat /\ r.seq \in Nat /\ barrier_gen[BlockOf(t)] \in Nat
      BY <1>0, <1>1, ThreadPlaced DEF Accesses, TypeInv, SchedOK
<1>4. r.epoch < barrier_gen[BlockOf(r.thread)]
      BY <1>1, <1>2, <1>3
<1>5. at[t] # "released" /\ t \in BlockThreads(BlockOf(r.thread))
      BY <1>2 DEF AccessStep, CanStep, BlockThreads
<1>6. PastOf(r)
      BY DEF KnowInv, PastInv
<1>7. r.seq <= clock[t][r.thread]
      BY <1>4, <1>5, <1>6 DEF PastOf
<1>8. clock[t][r.thread] <= now[r.thread]
      BY <1>0, <1>3, NowIsNext DEF Leq
<1>9. clock[t][r.thread] \in Nat /\ now[r.thread] \in Nat
      BY <1>0, <1>3 DEF TypeInv, SyncOK, Clocks
<1> HIDE DEF now
<1>10. r.seq <= now[r.thread]
      BY <1>3, <1>7, <1>8, <1>9
<1>11. QED BY <1>10 DEF now

\* A read that joins the readers, or is covered by one, takes the place of
\* those it drops.
LEMMA ReadStands ==
    ASSUME KnowInv, NEW t \in Threads, NEW e \in Elems, NEW ordering,
           AccessStep(t, e, "read", ordering), Stands(e), NEW acc, acc = AccOf(t, "read"),
           NEW readers, readers = CellOf(e)'.readers, NEW m \in DOMAIN readers,
           Covers(readers[m], acc)', NEW h \in ref'.hist[e]
    PROVE  StandsFor(e, h)'
<1> DEFINE now == NowOf(t, e, "read", ordering)
           cell == CellOf(e)
<1>0. TypeInv /\ MadeInv /\ CellsHeld /\ "read" \in MemOps
      BY DEF KnowInv, Inv, MemOps
<1>1. acc = AccOf(t, "read")
      OBVIOUS
<1>2. PICK w : w = CellOf(e)'.last_write
      OBVIOUS
<1>3. readers = CellOf(e)'.readers
      OBVIOUS
<1>4. cell \in CellsOf(Accesses) /\ acc \in Accesses /\ Len(cell.readers) <= MaxReaders
      BY <1>0, <1>1, CellTyped, AccessTyped DEF Cells
<1>5. w = OnRead(cell, acc).last_write /\ readers = OnRead(cell, acc).readers
  <2>1. CellOf(e)'.last_write = Recorded(t, e, "read").last_write /\ CellOf(e)'.readers = Recorded(t, e, "read").readers
        BY <1>0, CellAfterAccess
  <2>2. QED BY <1>1, <1>2, <1>3, <2>1 DEF Recorded
<1>6. /\ w = cell.last_write
      /\ \A j \in DOMAIN cell.readers : Retained(cell.readers[j], acc) =>
            \E i \in DOMAIN readers : readers[i] = cell.readers[j]
      BY <1>4, <1>5, OnReadRecords
<1>7. PICK c : c = readers[m] /\ Covers(c, acc)'
      OBVIOUS
<1>8. h \in ref.hist[e] \/ h = acc
      BY <1>0, <1>1 DEF AccessStep, RefStep, TypeInv, Refs
<1>9. CASE h = acc
  <2>1. h.op = "read"
        BY <1>1, <1>9 DEF AccOf, Access
  <2>2. \E i \in DOMAIN readers : Covers(readers[i], h)'
        BY <1>9
  <2>3. QED BY <1>2, <1>3, <2>1, <2>2, StandsNext
<1>10. CASE h \in ref.hist[e]
  <2>1. StandsFor(e, h)
        BY <1>10 DEF Stands
  <2>2. h # NoAccess
    <3>1. NoAccess.seq = 0
          BY DEF NoAccess
    <3>2. QED BY <1>10, <3>1, HistoryTyped
  <2>3. /\ cell.last_write # NoAccess => cell.last_write \in ref.hist[e]
        /\ \A i \in DOMAIN cell.readers : cell.readers[i] \in ref.hist[e] /\ cell.readers[i].op = "read"
        BY <1>0 DEF CellsHeld
  <2>4. ASSUME h.seq <= now[h.thread], h.op = "read" PROVE StandsFor(e, h)'
    <3>1. Covers(acc, h)'
          BY <1>0, <1>1, <1>10, <2>4, AccessCovering
    <3>2. Covers(c, h)'
          BY <1>7, <3>1, CoversChain
    <3>3. \E i \in DOMAIN readers : Covers(readers[i], h)'
          BY <1>7, <3>2
    <3>4. QED BY <1>2, <1>3, <2>4, <3>3, StandsNext
  <2>5. ASSUME w # NoAccess, Covers(w, h) PROVE StandsFor(e, h)'
    <3>1. Covers(w, h)'
          BY <1>0, <1>1, <1>6, <1>10, <2>3, <2>5, AccessCovering
    <3>2. QED BY <1>2, <1>3, <2>5, <3>1, StandsNext
  <2>6. ASSUME NEW j \in DOMAIN cell.readers, h.op = "read", Covers(cell.readers[j], h)
        PROVE  StandsFor(e, h)'
    <3>1. PICK r : r = cell.readers[j]
          OBVIOUS
    <3>2. r \in ref.hist[e] /\ Covers(r, h)
          BY <2>3, <2>6, <3>1
    <3>3. CASE Retained(r, acc)
      <4>1. Covers(r, h)'
            BY <1>0, <1>1, <1>10, <3>2, AccessCovering
      <4>2. PICK i \in DOMAIN readers : readers[i] = r
            BY <1>6, <3>1, <3>3
      <4>3. \E k \in DOMAIN readers : Covers(readers[k], h)'
            BY <4>1, <4>2
      <4>4. QED BY <1>2, <1>3, <2>6, <4>3, StandsNext
    <3>4. CASE ~Retained(r, acc)
      <4>1. r.seq <= now[r.thread]
            BY <1>0, <1>1, <3>2, <3>4, DroppedIsKnown
      <4>2. CASE r = h
            BY <2>4, <2>6, <4>1, <4>2
      <4>3. CASE Everywhere(Closing(r, h))
        <5>1. now \in Closing(r, h)
              BY <1>0, <1>10, <3>2, <4>3, HistoryTyped, NowCloses
        <5>2. h.seq <= now[h.thread]
              BY <4>1, <5>1 DEF Closing
        <5>3. QED BY <2>4, <2>6, <5>2
      <4>4. QED BY <3>2, <4>2, <4>3 DEF Covers
    <3>5. QED BY <3>3, <3>4
  <2>7. CASE h = cell.last_write
        BY <1>6, <2>2, <2>5, <2>7 DEF Covers
  <2>8. CASE \E i \in DOMAIN cell.readers : h = cell.readers[i]
        BY <2>3, <2>6, <2>8 DEF Covers
  <2>9. CASE cell.last_write # NoAccess /\ Everywhere(Closing(cell.last_write, h))
        BY <1>6, <2>5, <2>9 DEF Covers
  <2>10. CASE h.op = "read" /\ \E i \in DOMAIN cell.readers : Everywhere(Closing(cell.readers[i], h))
        BY <2>6, <2>10 DEF Covers
  <2>11. QED BY <2>1, <2>7, <2>8, <2>9, <2>10 DEF StandsFor
<1>11. QED BY <1>8, <1>9, <1>10


\* A cell that does not change goes on standing for an access.
LEMMA StandingStays ==
    ASSUME KnowInv, NEW e \in Elems, NEW h \in ref.hist[e], StandsFor(e, h),
           CellOf(e)' = CellOf(e), \A c \in ref.hist[e] : Covers(c, h) => Covers(c, h)'
    PROVE  StandsFor(e, h)'
<1>1. PICK w : w = CellOf(e)'.last_write
      OBVIOUS
<1>2. PICK readers : readers = CellOf(e)'.readers
      OBVIOUS
<1>3. w = CellOf(e).last_write /\ readers = CellOf(e).readers
      BY <1>1, <1>2
<1>4. /\ w # NoAccess => w \in ref.hist[e]
      /\ \A i \in DOMAIN readers : readers[i] \in ref.hist[e]
      BY <1>3 DEF KnowInv, CellsHeld
<1>5. h # NoAccess
  <2>1. NoAccess.seq = 0
        BY DEF NoAccess
  <2>2. QED BY <2>1, HistoryTyped
<1>6. \/ w # NoAccess /\ Covers(w, h)
      \/ \E i \in DOMAIN readers : h = readers[i]
      \/ h.op = "read" /\ \E i \in DOMAIN readers : Covers(readers[i], h)
      BY <1>3, <1>5 DEF StandsFor, Covers
<1>7. \/ w # NoAccess /\ Covers(w, h)'
      \/ \E i \in DOMAIN readers : h = readers[i]
      \/ h.op = "read" /\ \E i \in DOMAIN readers : Covers(readers[i], h)'
  <2>1. ASSUME w # NoAccess, Covers(w, h) PROVE Covers(w, h)'
        BY <1>4, <2>1
  <2>2. ASSUME NEW i \in DOMAIN readers, Covers(readers[i], h) PROVE Covers(readers[i], h)'
    <3>1. PICK r : r = readers[i]
          OBVIOUS
    <3>2. Covers(r, h)'
          BY <1>4, <2>2, <3>1
    <3>3. QED BY <3>1, <3>2
  <2>3. QED BY <1>6, <2>1, <2>2, Zenon
<1>8. QED BY <1>1, <1>2, <1>7, StandsNext

\* An access to another element leaves a cell standing for what it stood for.
LEMMA ElsewhereStands ==
    ASSUME KnowInv, NEW t \in Threads, NEW e \in Elems, NEW op \in MemOps, NEW ordering,
           AccessStep(t, e, op, ordering), NEW d \in Elems \ {e}, NEW h \in ref.hist[d],
           StandsFor(d, h)
    PROVE  StandsFor(d, h)'
<1>1. PICK acc : acc = AccOf(t, op)
      OBVIOUS
<1>2. CellOf(d)' = CellOf(d)
      BY CellAfterAccess DEF KnowInv, Inv
<1>3. \A c \in ref.hist[d] : Covers(c, h) => Covers(c, h)'
      BY <1>1, AccessCovering
<1>4. QED BY <1>2, <1>3, StandingStays

\* And so does a step that is no access.
LEMMA OthersStand ==
    ASSUME KnowInv, NEW t \in Threads,
           \/ \E ordering \in kernel.fences : Fence(t, ordering)
           \/ SyncThreads(t)
           \/ BarrierDepart(t)
           \/ SyncWarp(t),
           NEW d \in Elems, NEW h \in ref.hist[d], StandsFor(d, h)
    PROVE  StandsFor(d, h)'
<1>0. TypeInv
      BY DEF KnowInv, Inv
<1>1. CellOf(d)' = CellOf(d)
  <2>1. UNCHANGED <<launch, cells, cell_launch>>
        BY <1>0, MemoryUntouched
  <2>2. QED BY <2>1, CellUnchanged
<1>2. ASSUME NEW c \in ref.hist[d], Covers(c, h) PROVE Covers(c, h)'
  <2>1. c \in Accesses /\ h \in Accesses /\ 1 <= c.seq
        BY HistoryTyped
  <2>2. CASE c = h
        BY <2>2 DEF Covers
  <2>3. CASE Everywhere(Closing(c, h))
    <3>1. PICK G : G = Closing(c, h)
          OBVIOUS
    <3>2. G \in SUBSET Clocks /\ NoClock \in G /\ \A k, l \in G : Join(k, l) \in G
          BY <2>1, <3>1, ClosingJoins
    <3>3. Everywhere(G)
          BY <2>3, <3>1
    <3>4. Everywhere(G)'
          BY <1>0, <3>2, <3>3, OthersStayIn
    <3>5. QED BY <3>1, <3>4 DEF Covers
  <2>4. QED BY <1>2, <2>2, <2>3 DEF Covers
<1>3. QED BY <1>1, <1>2, StandingStays

\* Every step keeps the cells standing for the history.
LEMMA StepKeepsChain == KnowInv /\ ChainInv /\ [Next]_vars => ChainInv'
<1> SUFFICES ASSUME KnowInv, ChainInv, [Next]_vars PROVE ChainInv'
    OBVIOUS
<1>0. TypeInv /\ MadeInv /\ DOMAIN ref.hist = Elems
      BY DEF KnowInv, Inv, TypeInv, Refs
<1>1. ASSUME NEW t \in Threads, AnyAccess(t) PROVE ChainInv'
  <2>1. PICK e \in Elems, op \in MemOps, ordering \in AllOrderings : AccessStep(t, e, op, ordering)
        BY <1>1 DEF AnyAccess
  <2> SUFFICES ASSUME NEW d \in Elems, Clean(d)', NEW h \in ref'.hist[d] PROVE StandsFor(d, h)'
      BY DEF ChainInv, Stands
  <2>a. ASSUME d = e PROVE Unopposed(t, e, op, ordering) /\ Stands(e)
        BY <2>1, <2>a, CleanAccess DEF ChainInv
  <2>2. CASE d = e /\ op = "read"
    <3>1. PICK acc : acc = AccOf(t, op)
          OBVIOUS
    <3>2. PICK readers : readers = CellOf(e)'.readers
          OBVIOUS
    <3>3. ~Unrecorded("read", acc, Recorded(t, e, op)) /\ readers = Recorded(t, e, op).readers
          BY <1>0, <2>1, <2>2, <3>1, <3>2, CleanAccess, CellAfterAccess
    <3>4. PICK m \in DOMAIN readers : readers[m] = acc
          BY <3>3 DEF Unrecorded
    <3>5. Covers(readers[m], acc)'
          BY <3>4 DEF Covers
    <3>6. QED BY <2>1, <2>a, <2>2, <3>1, <3>2, <3>5, ReadStands
  <2>3. CASE d = e /\ op # "read"
        BY <2>1, <2>a, <2>3, WriteStands
  <2>4. CASE d # e
    <3>1. PICK acc : acc = AccOf(t, op)
          OBVIOUS
    <3>2. /\ ref'.hist = [ref.hist EXCEPT ![e] = @ \cup {acc}]
          /\ races \subseteq races' /\ ref.excused \subseteq ref'.excused
          BY <2>1, <3>1 DEF AccessStep, RefStep
    <3>3. h \in ref.hist[d]
          BY <1>0, <2>4, <3>2
    <3>4. Clean(d)
          BY <3>2 DEF Clean, ElemsOf
    <3>5. StandsFor(d, h)
          BY <3>3, <3>4 DEF ChainInv, Stands
    <3>6. QED BY <2>1, <2>4, <3>3, <3>5, ElsewhereStands
  <2>5. QED BY <2>2, <2>3, <2>4
<1>2. ASSUME NEW t \in Threads,
             \/ \E ordering \in kernel.fences : Fence(t, ordering)
             \/ SyncThreads(t)
             \/ BarrierDepart(t)
             \/ SyncWarp(t)
      PROVE  ChainInv'
  <2>1. /\ UNCHANGED <<launch, cells, cell_launch, races>>
        /\ ref'.hist = ref.hist /\ ref.excused \subseteq ref'.excused
        BY <1>0, <1>2, MemoryUntouched
  <2> SUFFICES ASSUME NEW d \in Elems, Clean(d)', NEW h \in ref.hist[d] PROVE StandsFor(d, h)'
      BY <2>1 DEF ChainInv, Stands
  <2>2. StandsFor(d, h)
        BY <2>1 DEF ChainInv, Clean, Stands
  <2>3. QED BY <1>2, <2>2, OthersStand
<1>3. CASE NextLaunch
      BY <1>3 DEF NextLaunch, NewRef, ChainInv, Stands
<1>4. CASE UNCHANGED vars
  <2>1. /\ UNCHANGED <<clock, fence_release, fence_acquire, block, cells, cell_launch, launch, races>>
        /\ ref' = ref
        BY <1>4 DEF vars, syncVars, memVars
  <2>2. \A e \in Elems : CellOf(e)' = CellOf(e)
        BY <2>1, CellUnchanged
  <2>3. QED BY <2>1, <2>2 DEF ChainInv, Clean, Stands, StandsFor, Everywhere
<1>5. QED BY <1>0, <1>1, <1>2, <1>3, <1>4, StepKinds, Zenon


(***************************************************************************)
(* The clocks gain nothing.  As long as some element is not excused, no    *)
(* load has published and nobody has left a barrier late: a clock of the   *)
(* program knows no more than the reference's.  What a block has is known  *)
(* to its threads together, and, while nobody waits at the next barrier,   *)
(* to each that has been released.                                         *)
(***************************************************************************)
ThreadsExact ==
    \A t \in Threads : /\ Leq(clock[t], ref.clock[t]) /\ Leq(fence_release[t], ref.fence[t])
                       /\ Leq(fence_acquire[t], ref.pending[t])

BlocksExact ==
    \A t \in Threads :
        /\ \A x \in Threads :
              \E v \in BlockThreads(BlockOf(t)) : block[BlockOf(t)][x] <= ref.clock[v][x]
        /\ (at[t] = "released" /\ \A u \in BlockThreads(BlockOf(t)) : at[u] # "barrier") =>
              Leq(block[BlockOf(t)], ref.clock[t])

CellsExact == \A e \in Elems : Leq(CellOf(e).release, ref.elem[e])

Exact == ThreadsExact /\ BlocksExact /\ CellsExact

ExactInv == Elems \ ref.excused # {} => Exact

\* An access knows no more than its reference, and publishes no more.
LEMMA AccessIsExact ==
    ASSUME TypeInv, Exact, NEW t \in Threads, NEW e \in Elems, NEW op \in MemOps, NEW ordering
    PROVE  /\ Leq(NowOf(t, e, op, ordering), RefNow(t, e, op, ordering))
           /\ ~LoadPublishes(op, CellOf(e).release, ReleaseOf(t, e, op, ordering)) =>
                 Leq(ReleaseOf(t, e, op, ordering),
                     IF op = "rmw" THEN Join(ref.elem[e], RefReleased(t, e, op, ordering))
                                   ELSE ref.elem[e])
           /\ Leq(AcquiredPending(t, CellOf(e), op, ordering),
                  IF Atomic(op) /\ ~IsAcquire(ordering) THEN Join(ref.pending[t], ref.elem[e])
                                                        ELSE ref.pending[t])
<1>1. /\ seq[t] + 1 \in Nat
      /\ clock[t] \in Clocks /\ fence_release[t] \in Clocks /\ fence_acquire[t] \in Clocks
      /\ ref.clock[t] \in Clocks /\ ref.fence[t] \in Clocks /\ ref.pending[t] \in Clocks
      /\ ref.elem[e] \in Clocks
      BY DEF TypeInv, SyncOK, Refs
<1>2. CellOf(e).release \in Clocks
      BY CellTyped DEF Cells, CellsOf
<1>3. /\ Leq(clock[t], ref.clock[t]) /\ Leq(fence_release[t], ref.fence[t])
      /\ Leq(fence_acquire[t], ref.pending[t]) /\ Leq(CellOf(e).release, ref.elem[e])
      BY DEF Exact, ThreadsExact, CellsExact
<1>4. ASSUME NEW c \in Clocks, NEW d \in Clocks, NEW x \in Clocks, NEW y \in Clocks,
             Leq(c, x), Leq(d, y)
      PROVE  Leq(Join(c, d), Join(x, y))
      BY <1>4 DEF Leq, Join, Later, Clocks
<1>5. Leq(AcquiredClock(t, CellOf(e), op, ordering), RefAcquired(t, e, op, ordering))
      BY <1>1, <1>2, <1>3, <1>4 DEF RefAcquired, AcquiredClock
<1>6. /\ RefAcquired(t, e, op, ordering) \in Clocks /\ RefNow(t, e, op, ordering) \in Clocks
      BY RefTyped
<1>7. AcquiredClock(t, CellOf(e), op, ordering) \in Clocks
      BY <1>1, <1>2, JoinIsLeast DEF AcquiredClock
<1>8. Leq(NowOf(t, e, op, ordering), RefNow(t, e, op, ordering))
      BY <1>1, <1>5, <1>6, <1>7, ObserveRaises DEF RefNow, NowOf
<1> DEFINE now == NowOf(t, e, op, ordering)
           mine == IF IsRelease(ordering) THEN now ELSE NoClock
           its == IF IsRelease(ordering) THEN RefNow(t, e, op, ordering) ELSE NoClock
<1>9. now \in Clocks
      BY AccessTyped
<1> HIDE DEF now
<1>10. mine \in Clocks /\ its \in Clocks /\ Leq(mine, its)
      BY <1>6, <1>8, <1>9, NoClockKnowsNothing DEF Leq, Clocks, now
<1> HIDE DEF mine, its
<1>11. RefReleased(t, e, op, ordering) = Join(ref.fence[t], its)
      BY DEF RefReleased, its
<1>12. ReleaseOf(t, e, op, ordering) =
          IF Atomic(op) THEN Join(CellOf(e).release, Join(fence_release[t], mine))
          ELSE CellOf(e).release
      BY DEF ReleaseOf, Released, mine, now
<1>13. /\ Join(fence_release[t], mine) \in Clocks /\ Join(ref.fence[t], its) \in Clocks
       /\ Leq(Join(fence_release[t], mine), Join(ref.fence[t], its))
      BY <1>1, <1>3, <1>4, <1>10, JoinIsLeast
<1>14. ASSUME ~LoadPublishes(op, CellOf(e).release, ReleaseOf(t, e, op, ordering))
       PROVE  Leq(ReleaseOf(t, e, op, ordering),
                  IF op = "rmw" THEN Join(ref.elem[e], RefReleased(t, e, op, ordering))
                                ELSE ref.elem[e])
  <2>1. CASE op = "rmw"
    <3>1. Leq(Join(CellOf(e).release, Join(fence_release[t], mine)),
              Join(ref.elem[e], Join(ref.fence[t], its)))
          BY <1>1, <1>2, <1>3, <1>4, <1>13
    <3>2. QED BY <2>1, <3>1, <1>11, <1>12 DEF Atomic
  <2>2. CASE op # "rmw"
    <3>1. ReleaseOf(t, e, op, ordering) = CellOf(e).release
          BY <1>12, <1>14, <2>2 DEF LoadPublishes, Atomic
    <3>2. QED BY <1>3, <2>2, <3>1
  <2>3. QED BY <2>1, <2>2
<1>15. Leq(AcquiredPending(t, CellOf(e), op, ordering),
           IF Atomic(op) /\ ~IsAcquire(ordering) THEN Join(ref.pending[t], ref.elem[e])
                                                 ELSE ref.pending[t])
      BY <1>1, <1>2, <1>3, <1>4 DEF AcquiredPending
<1>16. QED BY <1>8, <1>14, <1>15

\* What a block has stays known while the block's clock stays, the clocks of
\* the reference grow, nobody leaves a wait at the barrier and nobody is
\* released.
LEMMA BlocksStayExact ==
    ASSUME TypeInv, TypeInv', BlocksExact, block' = block,
           \A u \in Threads : Leq(ref.clock[u], ref'.clock[u]),
           \A u \in Threads : /\ at'[u] = "released" => at[u] = "released"
                              /\ at[u] = "barrier" => at'[u] = "barrier"
    PROVE  BlocksExact'
<1>1. \A u, x \in Threads : /\ ref.clock[u][x] \in Nat /\ ref'.clock[u][x] \in Nat
                            /\ ref.clock[u][x] <= ref'.clock[u][x]
                            /\ block[BlockOf(u)][x] \in Nat
      BY ThreadPlaced DEF TypeInv, SyncOK, Refs, Clocks, Leq
<1>2. \A u : BlockThreads(BlockOf(u)) \subseteq Threads
      BY DEF BlockThreads
<1> SUFFICES ASSUME NEW t \in Threads
             PROVE  /\ \A x \in Threads :
                          \E v \in BlockThreads(BlockOf(t)) : block'[BlockOf(t)][x] <= ref'.clock[v][x]
                    /\ (at'[t] = "released" /\ \A u \in BlockThreads(BlockOf(t)) : at'[u] # "barrier") =>
                          \A x \in Threads : block'[BlockOf(t)][x] <= ref'.clock[t][x]
    BY DEF BlocksExact, Leq
<1>3. ASSUME NEW x \in Threads
      PROVE  \E v \in BlockThreads(BlockOf(t)) : block'[BlockOf(t)][x] <= ref'.clock[v][x]
  <2>1. PICK v \in BlockThreads(BlockOf(t)) : block[BlockOf(t)][x] <= ref.clock[v][x]
        BY DEF BlocksExact
  <2>2. v \in Threads
        BY <1>2
  <2>3. block[BlockOf(t)][x] <= ref'.clock[v][x]
        BY <1>1, <2>1, <2>2
  <2>4. QED BY <2>3
<1>4. ASSUME at'[t] = "released", \A u \in BlockThreads(BlockOf(t)) : at'[u] # "barrier",
             NEW x \in Threads
      PROVE  block'[BlockOf(t)][x] <= ref'.clock[t][x]
  <2>1. at[t] = "released" /\ \A u \in BlockThreads(BlockOf(t)) : at[u] # "barrier"
        BY <1>2, <1>4
  <2>2. block[BlockOf(t)][x] <= ref.clock[t][x]
        BY <2>1 DEF BlocksExact, Leq
  <2>3. QED BY <1>1, <2>2
<1>5. QED BY <1>3, <1>4


\* An access keeps the clocks exact, unless it is a load that publishes.
LEMMA AccessKeepsExact ==
    ASSUME TypeInv, TypeInv', Exact, NEW t \in Threads, NEW e \in Elems, NEW op \in MemOps,
           NEW ordering, AccessStep(t, e, op, ordering),
           ~LoadPublishes(op, CellOf(e).release, ReleaseOf(t, e, op, ordering))
    PROVE  Exact'
<1>1. /\ Leq(NowOf(t, e, op, ordering), RefNow(t, e, op, ordering))
      /\ Leq(ReleaseOf(t, e, op, ordering),
             IF op = "rmw" THEN Join(ref.elem[e], RefReleased(t, e, op, ordering)) ELSE ref.elem[e])
      /\ Leq(AcquiredPending(t, CellOf(e), op, ordering),
             IF Atomic(op) /\ ~IsAcquire(ordering) THEN Join(ref.pending[t], ref.elem[e])
                                                   ELSE ref.pending[t])
      BY AccessIsExact
<1>2. /\ DOMAIN ref.clock = Threads /\ DOMAIN ref.pending = Threads /\ DOMAIN ref.elem = Elems
      /\ DOMAIN clock = Threads /\ DOMAIN fence_acquire = Threads
      /\ \A u \in Threads : ref.clock[u] \in Clocks
      BY DEF TypeInv, SyncOK, Refs
<1>3. /\ clock' = [clock EXCEPT ![t] = NowOf(t, e, op, ordering)]
      /\ fence_acquire' = [fence_acquire EXCEPT ![t] = AcquiredPending(t, CellOf(e), op, ordering)]
      /\ UNCHANGED <<fence_release, block, at>>
      BY Zenon DEF AccessStep
<1>4. /\ ref'.clock = [ref.clock EXCEPT ![t] = RefNow(t, e, op, ordering)]
      /\ ref'.fence = ref.fence
      /\ ref'.pending = [ref.pending EXCEPT ![t] = IF Atomic(op) /\ ~IsAcquire(ordering)
                                                   THEN Join(@, ref.elem[e]) ELSE @]
      /\ ref'.elem = [ref.elem EXCEPT ![e] = IF op = "rmw"
                                             THEN Join(@, RefReleased(t, e, op, ordering)) ELSE @]
      BY Zenon DEF AccessStep, RefStep
<1>5. ThreadsExact'
  <2> SUFFICES ASSUME NEW u \in Threads
               PROVE  /\ Leq(clock'[u], ref'.clock[u]) /\ Leq(fence_release'[u], ref'.fence[u])
                      /\ Leq(fence_acquire'[u], ref'.pending[u])
      BY DEF ThreadsExact, Leq
  <2>1. /\ Leq(clock[u], ref.clock[u]) /\ Leq(fence_release[u], ref.fence[u])
        /\ Leq(fence_acquire[u], ref.pending[u])
        BY DEF Exact, ThreadsExact
  <2>2. CASE u # t
        BY <2>1, <2>2, <1>2, <1>3, <1>4
  <2>3. CASE u = t
    <3>1. /\ ref'.clock[t] = RefNow(t, e, op, ordering) /\ clock'[t] = NowOf(t, e, op, ordering)
          /\ ref'.pending[t] = (IF Atomic(op) /\ ~IsAcquire(ordering)
                                THEN Join(ref.pending[t], ref.elem[e]) ELSE ref.pending[t])
          /\ fence_acquire'[t] = AcquiredPending(t, CellOf(e), op, ordering)
          BY <1>2, <1>3, <1>4
    <3>2. Leq(fence_release'[t], ref'.fence[t])
          BY <1>3, <1>4, <2>1, <2>3
    <3>3. QED BY <2>3, <1>1, <3>1, <3>2
  <2>4. QED BY <2>2, <2>3
<1>6. BlocksExact'
  <2>1. Leq(ref.clock[t], RefNow(t, e, op, ordering))
        BY RefTyped
  <2>2. \A u \in Threads : Leq(ref.clock[u], ref.clock[u])
        BY <1>2 DEF Leq, Clocks
  <2>3. \A u \in Threads : Leq(ref.clock[u], ref'.clock[u])
        BY <1>2, <1>4, <2>1, <2>2
  <2>4. QED BY <1>3, <2>3, BlocksStayExact DEF Exact
<1>7. CellsExact'
  <2> SUFFICES ASSUME NEW d \in Elems PROVE Leq(CellOf(d)'.release, ref'.elem[d])
      BY DEF CellsExact, Leq
  <2>1. CASE d # e
    <3>1. CellOf(d)' = CellOf(d) /\ ref'.elem[d] = ref.elem[d]
          BY <2>1, <1>2, <1>4, CellAfterAccess
    <3>2. Leq(CellOf(d).release, ref.elem[d])
          BY DEF Exact, CellsExact
    <3>3. QED BY <3>1, <3>2
  <2>2. CASE d = e
    <3>1. CellOf(e)'.release = ReleaseOf(t, e, op, ordering)
          BY CellAfterAccess
    <3>2. ref'.elem[e] = IF op = "rmw" THEN Join(ref.elem[e], RefReleased(t, e, op, ordering))
                         ELSE ref.elem[e]
          BY <1>2, <1>4
    <3>3. QED BY <2>2, <3>1, <3>2, <1>1
  <2>3. QED BY <2>1, <2>2
<1>8. QED BY <1>5, <1>6, <1>7 DEF Exact

\* A fence keeps them exact.
LEMMA FenceKeepsExact ==
    ASSUME TypeInv, TypeInv', Exact, NEW t \in Threads, NEW ordering, Fence(t, ordering)
    PROVE  ThreadsExact' /\ BlocksExact'
<1> DEFINE c == FencedClock(t, ordering)
           r == IF IsAcquire(ordering) THEN Join(ref.clock[t], ref.pending[t]) ELSE ref.clock[t]
<1>1. /\ clock[t] \in Clocks /\ fence_acquire[t] \in Clocks /\ ref.pending[t] \in Clocks
      /\ \A u \in Threads : ref.clock[u] \in Clocks
      BY DEF TypeInv, SyncOK, Refs
<1>2. Leq(clock[t], ref.clock[t]) /\ Leq(fence_acquire[t], ref.pending[t])
      BY DEF Exact, ThreadsExact
<1>3. Leq(c, r)
      BY <1>1, <1>2 DEF FencedClock, Leq, Join, Later, Clocks
<1>4. Leq(ref.clock[t], r)
      BY <1>1 DEF Leq, Join, Later, Clocks
<1>5. /\ clock' = [clock EXCEPT ![t] = c]
      /\ fence_acquire' = IF IsAcquire(ordering)
                          THEN [fence_acquire EXCEPT ![t] = NoClock] ELSE fence_acquire
      /\ fence_release' = IF IsRelease(ordering)
                          THEN [fence_release EXCEPT ![t] = c] ELSE fence_release
      /\ ref' = [ref EXCEPT !.clock[t] = r,
                            !.pending[t] = IF IsAcquire(ordering) THEN NoClock ELSE @,
                            !.fence[t] = IF IsRelease(ordering) THEN r ELSE @]
      /\ UNCHANGED <<block, at>>
      BY Zenon DEF Fence, schedVars
<1> HIDE DEF c, r
<1>6. /\ ref'.clock = [ref.clock EXCEPT ![t] = r]
      /\ ref'.pending = [ref.pending EXCEPT ![t] = IF IsAcquire(ordering) THEN NoClock ELSE @]
      /\ ref'.fence = [ref.fence EXCEPT ![t] = IF IsRelease(ordering) THEN r ELSE @]
      BY <1>5 DEF TypeInv, Refs
<1>7. /\ DOMAIN ref.clock = Threads /\ DOMAIN ref.pending = Threads /\ DOMAIN ref.fence = Threads
      /\ DOMAIN clock = Threads /\ DOMAIN fence_acquire = Threads /\ DOMAIN fence_release = Threads
      BY DEF TypeInv, SyncOK, Refs
<1>8. Leq(NoClock, NoClock)
      BY DEF Leq, NoClock
<1>9. ThreadsExact'
  <2> SUFFICES ASSUME NEW u \in Threads
               PROVE  /\ Leq(clock'[u], ref'.clock[u]) /\ Leq(fence_release'[u], ref'.fence[u])
                      /\ Leq(fence_acquire'[u], ref'.pending[u])
      BY DEF ThreadsExact, Leq
  <2>1. /\ Leq(clock[u], ref.clock[u]) /\ Leq(fence_release[u], ref.fence[u])
        /\ Leq(fence_acquire[u], ref.pending[u])
        BY DEF Exact, ThreadsExact
  <2>2. CASE u # t
        BY <2>1, <2>2, <1>5, <1>6, <1>7
  <2>3. CASE u = t
    <3>1. Leq(clock'[t], ref'.clock[t])
          BY <1>3, <1>5, <1>6, <1>7
    <3>2. Leq(fence_release'[t], ref'.fence[t])
          BY <1>3, <1>5, <1>6, <1>7, <2>1, <2>3
    <3>3. Leq(fence_acquire'[t], ref'.pending[t])
          BY <1>8, <1>5, <1>6, <1>7, <2>1, <2>3
    <3>4. QED BY <2>3, <3>1, <3>2, <3>3
  <2>4. QED BY <2>2, <2>3
<1>10. BlocksExact'
  <2>1. \A u \in Threads : Leq(ref.clock[u], ref.clock[u])
        BY <1>1 DEF Leq, Clocks
  <2>2. \A u \in Threads : Leq(ref.clock[u], ref'.clock[u])
        BY <1>4, <1>6, <1>7, <2>1
  <2>3. QED BY <1>5, <2>2, BlocksStayExact DEF Exact
<1>11. QED BY <1>9, <1>10


\* An arrival at the barrier, and the release of a block, keep them exact: the
\* block hands over what one of its threads knew.
LEMMA BarrierKeepsExact ==
    ASSUME Inv, Inv', Exact, NEW t \in Threads, SyncThreads(t)
    PROVE  ThreadsExact' /\ BlocksExact'
<1> DEFINE b == BlockOf(t)
           allHere == \A u \in BlockThreads(b) \ {t} : at[u] = "barrier"
           d == Join(block[b], clock[t])
<1>0. TypeInv /\ TypeInv'
      BY DEF Inv
<1>1. /\ at[t] = "kernel"
      /\ block' = [block EXCEPT ![b] = d]
      /\ UNCHANGED <<clock, fence_release, fence_acquire>>
      /\ \/ ~allHere /\ Arrival(t)
         \/ allHere /\ Release(t)
      BY <1>0, SyncThreadsSteps, Zenon
<1>2. /\ b \in Blocks /\ block[b] \in Clocks /\ DOMAIN block = Blocks /\ DOMAIN at = Threads
      /\ \A u \in Threads : /\ BlockOf(u) \in Blocks /\ block[BlockOf(u)] \in Clocks
                            /\ clock[u] \in Clocks /\ ref.clock[u] \in Clocks
      BY <1>0, ThreadPlaced DEF TypeInv, SyncOK, SchedOK, Refs
<1>3. d \in Clocks /\ \A x \in Threads : d[x] \in {block[b][x], clock[t][x]}
      BY <1>2, JoinIsLeast
<1>4. t \in BlockThreads(b) /\ BlockThreads(b) \subseteq Threads
      BY DEF BlockThreads
<1>5. allHere => \A v \in BlockThreads(b) : Leq(ref.clock[v], d)
      BY <1>1, LastArrivalKnows
<1>6. block'[b] = d /\ \A u \in Threads : BlockOf(u) # b => block'[BlockOf(u)] = block[BlockOf(u)]
      BY <1>1, <1>2
<1> HIDE DEF d, allHere
\* Together the threads know what the block has.
<1>7. ASSUME NEW x \in Threads PROVE \E v \in BlockThreads(b) : d[x] <= ref.clock[v][x]
  <2>1. PICK v \in BlockThreads(b) : block[b][x] <= ref.clock[v][x]
        BY DEF Exact, BlocksExact
  <2>2. clock[t][x] <= ref.clock[t][x]
        BY DEF Exact, ThreadsExact, Leq
  <2>3. QED BY <1>3, <1>4, <2>1, <2>2
<1>8. ASSUME Arrival(t) PROVE ThreadsExact' /\ BlocksExact'
  <2>1. at' = [at EXCEPT ![t] = "barrier"] /\ ref' = ref
        BY <1>8 DEF Arrival
  <2>2. ThreadsExact'
        BY <1>1, <2>1 DEF Exact, ThreadsExact, Leq
  <2> SUFFICES ASSUME NEW u \in Threads
               PROVE  /\ \A x \in Threads :
                            \E v \in BlockThreads(BlockOf(u)) : block'[BlockOf(u)][x] <= ref'.clock[v][x]
                      /\ (at'[u] = "released" /\ \A v \in BlockThreads(BlockOf(u)) : at'[v] # "barrier") =>
                            \A x \in Threads : block'[BlockOf(u)][x] <= ref'.clock[u][x]
      BY <2>2 DEF BlocksExact, Leq
  <2>3. CASE BlockOf(u) = b
    <3>1. at'[t] = "barrier"
          BY <1>2, <2>1
    <3>2. QED BY <1>4, <1>6, <1>7, <2>1, <2>3, <3>1
  <2>4. CASE BlockOf(u) # b
    <3>1. block'[BlockOf(u)] = block[BlockOf(u)]
          BY <1>6, <2>4
    <3>2. \A v \in BlockThreads(BlockOf(u)) : at'[v] = at[v]
          BY <1>2, <2>1, <2>4 DEF BlockThreads
    <3>3. at'[u] = at[u]
          BY <1>2, <2>1, <2>4
    <3>4. QED BY <2>1, <3>1, <3>2, <3>3 DEF Exact, BlocksExact, Leq
  <2>5. QED BY <2>3, <2>4
<1>9. ASSUME allHere, Release(t) PROVE ThreadsExact' /\ BlocksExact'
  <2> DEFINE k == BlockKnows(b)
  <2>1. k \in Clocks /\ \A v \in BlockThreads(b) : Leq(ref.clock[v], k)
        BY <1>0, <1>3, <1>5, <1>9, BlockKnowsMost
  <2>2. /\ at' = [v \in Threads |-> IF BlockOf(v) = b THEN "released" ELSE at[v]]
        /\ ref'.clock = [v \in Threads |-> IF BlockOf(v) = b THEN k ELSE ref.clock[v]]
        BY <1>9, Zenon DEF Release
  <2>3. ref'.fence = ref.fence /\ ref'.pending = ref.pending
    <3>1. ref' = [ref EXCEPT !.clock = ref'.clock] /\ ref \in Refs
          BY <1>0, <1>9, Zenon DEF Release, TypeInv
    <3>2. QED BY <3>1 DEF Refs
  <2> HIDE DEF k
  <2>4. Leq(d, k)
    <3> SUFFICES ASSUME NEW x \in Threads PROVE d[x] <= k[x]
        BY DEF Leq
    <3>1. PICK v \in BlockThreads(b) : d[x] <= ref.clock[v][x]
          BY <1>7
    <3>2. ref.clock[v][x] <= k[x]
          BY <2>1 DEF Leq
    <3>3. d[x] \in Nat /\ ref.clock[v][x] \in Nat /\ k[x] \in Nat
          BY <1>2, <1>3, <1>4, <2>1 DEF Clocks
    <3>4. QED BY <3>1, <3>2, <3>3
  <2>5. ThreadsExact'
    <3> SUFFICES ASSUME NEW u \in Threads
                 PROVE  /\ Leq(clock'[u], ref'.clock[u]) /\ Leq(fence_release'[u], ref'.fence[u])
                        /\ Leq(fence_acquire'[u], ref'.pending[u])
        BY DEF ThreadsExact, Leq
    <3>1. /\ Leq(clock[u], ref.clock[u]) /\ Leq(fence_release[u], ref.fence[u])
          /\ Leq(fence_acquire[u], ref.pending[u])
          BY DEF Exact, ThreadsExact
    <3>2. CASE BlockOf(u) = b
      <4>1. Leq(ref.clock[u], k)
            BY <2>1, <3>2 DEF BlockThreads
      <4>2. Leq(clock[u], k)
            BY <1>2, <2>1, <3>1, <4>1 DEF Leq, Clocks
      <4>3. ref'.clock[u] = k
            BY <2>2, <3>2
      <4>4. QED BY <1>1, <2>3, <3>1, <4>2, <4>3
    <3>3. CASE BlockOf(u) # b
      <4>1. ref'.clock[u] = ref.clock[u]
            BY <2>2, <3>3
      <4>2. QED BY <1>1, <2>3, <3>1, <4>1
    <3>4. QED BY <3>2, <3>3
  <2> SUFFICES ASSUME NEW u \in Threads
               PROVE  /\ \A x \in Threads :
                            \E v \in BlockThreads(BlockOf(u)) : block'[BlockOf(u)][x] <= ref'.clock[v][x]
                      /\ (at'[u] = "released" /\ \A v \in BlockThreads(BlockOf(u)) : at'[v] # "barrier") =>
                            \A x \in Threads : block'[BlockOf(u)][x] <= ref'.clock[u][x]
      BY <2>5 DEF BlocksExact, Leq
  <2>6. CASE BlockOf(u) = b
    <3>1. ref'.clock[u] = k /\ ref'.clock[t] = k
          BY <2>2, <2>6
    <3>2. \A x \in Threads : d[x] <= k[x]
          BY <2>4 DEF Leq
    <3>3. QED BY <1>4, <1>6, <2>6, <3>1, <3>2
  <2>7. CASE BlockOf(u) # b
    <3>1. block'[BlockOf(u)] = block[BlockOf(u)]
          BY <1>6, <2>7
    <3>2. \A v \in BlockThreads(BlockOf(u)) : at'[v] = at[v] /\ ref'.clock[v] = ref.clock[v]
          BY <2>2, <2>7 DEF BlockThreads
    <3>3. at'[u] = at[u] /\ ref'.clock[u] = ref.clock[u]
          BY <2>2, <2>7
    <3>4. QED BY <3>1, <3>2, <3>3 DEF Exact, BlocksExact, Leq
  <2>8. QED BY <2>6, <2>7
<1>10. QED BY <1>1, <1>8, <1>9

\* So does leaving a barrier in time.
LEMMA DepartKeepsExact ==
    ASSUME TypeInv, TypeInv', Exact, NEW t \in Threads, BarrierDepart(t),
           \A u \in BlockThreads(BlockOf(t)) : at[u] # "barrier"
    PROVE  ThreadsExact' /\ BlocksExact'
<1> DEFINE c == Join(clock[t], block[BlockOf(t)])
<1>1. /\ at[t] = "released"
      /\ at' = [at EXCEPT ![t] = "kernel"]
      /\ clock' = [clock EXCEPT ![t] = c]
      /\ ref' = ref
      /\ UNCHANGED <<fence_release, fence_acquire, block>>
      BY Zenon DEF BarrierDepart
<1>2. /\ clock[t] \in Clocks /\ block[BlockOf(t)] \in Clocks
      /\ \A u \in Threads : ref.clock[u] \in Clocks
      /\ DOMAIN clock = Threads /\ DOMAIN at = Threads
      BY ThreadPlaced DEF TypeInv, SyncOK, SchedOK, Refs
<1>3. Leq(clock[t], ref.clock[t]) /\ Leq(block[BlockOf(t)], ref.clock[t])
      BY <1>1 DEF Exact, ThreadsExact, BlocksExact
<1>4. Leq(c, ref.clock[t])
      BY <1>2, <1>3, JoinIsLeast
<1> HIDE DEF c
<1>5. ThreadsExact'
  <2> SUFFICES ASSUME NEW u \in Threads
               PROVE  /\ Leq(clock'[u], ref'.clock[u]) /\ Leq(fence_release'[u], ref'.fence[u])
                      /\ Leq(fence_acquire'[u], ref'.pending[u])
      BY DEF ThreadsExact, Leq
  <2>1. /\ Leq(clock[u], ref.clock[u]) /\ Leq(fence_release[u], ref.fence[u])
        /\ Leq(fence_acquire[u], ref.pending[u])
        BY DEF Exact, ThreadsExact
  <2>2. QED BY <1>1, <1>2, <1>4, <2>1
<1>6. BlocksExact'
  <2>1. \A u \in Threads : Leq(ref.clock[u], ref'.clock[u])
        BY <1>1, <1>2 DEF Leq, Clocks
  <2>2. \A u \in Threads : /\ at'[u] = "released" => at[u] = "released"
                           /\ at[u] = "barrier" => at'[u] = "barrier"
        BY <1>1, <1>2
  <2>3. QED BY <1>1, <2>1, <2>2, BlocksStayExact DEF Exact
<1>7. QED BY <1>5, <1>6


\* Every step keeps the clocks exact or excuses every element.
LEMMA StepKeepsExact == Inv /\ Inv' /\ ExactInv /\ [Next]_vars => ExactInv'
<1> SUFFICES ASSUME Inv, Inv', ExactInv, [Next]_vars, Elems \ ref'.excused # {} PROVE Exact'
    BY DEF ExactInv
<1>0. TypeInv /\ TypeInv'
      BY DEF Inv
<1>1. ASSUME NEW t \in Threads, AnyAccess(t) PROVE Exact'
  <2>1. PICK e \in Elems, op \in MemOps, ordering \in AllOrderings : AccessStep(t, e, op, ordering)
        BY <1>1 DEF AnyAccess
  <2>2. ref'.excused = ref.excused \cup LossesOf(t, e, op, ordering)
        BY <2>1, Zenon DEF AccessStep, RefStep
  <2>3. Exact
        BY <2>2 DEF ExactInv
  <2>4. ~LoadPublishes(op, CellOf(e).release, ReleaseOf(t, e, op, ordering))
        BY <2>2 DEF LossesOf, Losses
  <2>5. QED BY <1>0, <2>1, <2>3, <2>4, AccessKeepsExact
<1>2. ASSUME NEW t \in Threads,
             \/ \E ordering \in kernel.fences : Fence(t, ordering)
             \/ SyncThreads(t)
             \/ BarrierDepart(t)
             \/ SyncWarp(t)
      PROVE  Exact'
  <2>1. /\ UNCHANGED <<launch, cells, cell_launch>>
        /\ ref'.elem = ref.elem /\ ref.excused \subseteq ref'.excused
        BY <1>0, <1>2, MemoryUntouched
  <2>2. Exact
        BY <2>1 DEF ExactInv
  <2>3. CellsExact'
    <3> SUFFICES ASSUME NEW e \in Elems PROVE Leq(CellOf(e)'.release, ref'.elem[e])
        BY DEF CellsExact, Leq
    <3>1. CellOf(e)' = CellOf(e)
          BY <2>1, CellUnchanged
    <3>2. QED BY <2>1, <2>2, <3>1 DEF Exact, CellsExact
  <2>4. CASE \E ordering \in kernel.fences : Fence(t, ordering)
        BY <1>0, <2>2, <2>3, <2>4, FenceKeepsExact DEF Exact
  <2>5. CASE SyncThreads(t)
        BY <2>2, <2>3, <2>5, BarrierKeepsExact DEF Exact
  <2>6. CASE BarrierDepart(t)
    <3>1. \A u \in BlockThreads(BlockOf(t)) : at[u] # "barrier"
      <4> SUFFICES ASSUME \E u \in BlockThreads(BlockOf(t)) : at[u] = "barrier" PROVE FALSE
          OBVIOUS
      <4>1. ref' = [ref EXCEPT !.excused = Elems]
            BY <2>6, Zenon DEF BarrierDepart
      <4>2. ref'.excused = Elems
            BY <1>0, <4>1 DEF TypeInv, Refs
      <4>3. QED BY <4>2
    <3>2. QED BY <1>0, <2>2, <2>3, <2>6, <3>1, DepartKeepsExact DEF Exact
  <2>7. CASE SyncWarp(t)
    <3>1. UNCHANGED <<clock, fence_release, fence_acquire, block, ref>>
          BY <2>7 DEF SyncWarp, syncVars
    <3>2. ThreadsExact'
          BY <2>2, <3>1 DEF Exact, ThreadsExact, Leq
    <3>3. \A u \in Threads : Leq(ref.clock[u], ref'.clock[u])
          BY <1>0, <3>1 DEF TypeInv, Refs, Clocks, Leq
    <3>4. \A u \in Threads : /\ at'[u] = "released" => at[u] = "released"
                             /\ at[u] = "barrier" => at'[u] = "barrier"
          BY <1>0, <2>7, WarpMovesNobodyElse
    <3>5. BlocksExact'
          BY <1>0, <2>2, <3>1, <3>3, <3>4, BlocksStayExact DEF Exact
    <3>6. QED BY <2>3, <3>2, <3>5 DEF Exact
  <2>8. QED BY <1>2, <2>4, <2>5, <2>6, <2>7
<1>3. CASE NextLaunch
  <2>1. \A e \in Elems : CellOf(e)'.release = NoClock
        BY <1>0, <1>3, CellAfterLaunch
  <2>2. /\ clock' = PerThread(NoClock) /\ fence_release' = PerThread(NoClock)
        /\ fence_acquire' = PerThread(NoClock) /\ block' = [b \in Blocks |-> NoClock]
        /\ ref'.clock = PerThread(NoClock) /\ ref'.fence = PerThread(NoClock)
        /\ ref'.pending = PerThread(NoClock) /\ ref'.elem = [e \in Elems |-> NoClock]
        BY <1>3 DEF NextLaunch, NewRef, PerThread
  <2>3. Leq(NoClock, NoClock) /\ \A x \in Threads : NoClock[x] = 0
        BY DEF Leq, NoClock
  <2>4. ThreadsExact'
        BY <2>2, <2>3 DEF ThreadsExact, PerThread, Leq
  <2>5. CellsExact'
        BY <2>1, <2>2, <2>3 DEF CellsExact, Leq
  <2>6. ASSUME NEW t \in Threads
        PROVE  /\ \A x \in Threads :
                     \E v \in BlockThreads(BlockOf(t)) : block'[BlockOf(t)][x] <= ref'.clock[v][x]
               /\ at'[t] = "kernel"
    <3>1. block'[BlockOf(t)] = NoClock /\ ref'.clock[t] = NoClock /\ at'[t] = "kernel"
          BY <1>3, <2>2, ThreadPlaced DEF PerThread, NextLaunch
    <3>2. t \in BlockThreads(BlockOf(t))
          BY DEF BlockThreads
    <3>3. QED BY <2>3, <3>1, <3>2
  <2>7. BlocksExact'
        BY <2>6 DEF BlocksExact
  <2>8. QED BY <2>4, <2>5, <2>7 DEF Exact
<1>4. CASE UNCHANGED vars
  <2>1. UNCHANGED <<clock, fence_release, fence_acquire, block, cells, cell_launch, launch, at, ref>>
        BY <1>4 DEF vars, syncVars, memVars, schedVars
  <2>2. \A e \in Elems : CellOf(e)' = CellOf(e)
        BY <2>1, CellUnchanged
  <2>3. Exact
        BY <2>1 DEF ExactInv
  <2>4. QED BY <2>1, <2>2, <2>3 DEF Exact, ThreadsExact, BlocksExact, CellsExact, Leq
<1>5. QED BY <1>0, <1>1, <1>2, <1>3, <1>4, StepKinds, Zenon


(***************************************************************************)
(* Missed races.  An access that leaves its element clean knows the        *)
(* accesses it could race with, and the reference's clock knows what the   *)
(* program's does: so it races with none.                                  *)
(***************************************************************************)
FoundInv == \A e \in Elems : Clean(e) => e \notin ElemsOf(ref.races)

\* Every step keeps it so.
LEMMA StepKeepsFound ==
    KnowInv /\ ChainInv /\ ExactInv /\ FoundInv /\ [Next]_vars => FoundInv'
<1> SUFFICES ASSUME KnowInv, ChainInv, ExactInv, FoundInv, [Next]_vars,
                    NEW e \in Elems, Clean(e)'
             PROVE  e \notin ElemsOf(ref'.races)
    BY DEF FoundInv, ElemsOf
<1>0. TypeInv
      BY DEF KnowInv, Inv
<1>1. ASSUME NEW t \in Threads, AnyAccess(t) PROVE e \notin ElemsOf(ref'.races)
  <2>1. PICK d \in Elems, op \in MemOps, ordering \in AllOrderings : AccessStep(t, d, op, ordering)
        BY <1>1 DEF AnyAccess
  <2> DEFINE acc == AccOf(t, op)
             its == RefNow(t, d, op, ordering)
  <2>2. /\ races \subseteq races' /\ ref.excused \subseteq ref'.excused
        /\ ref'.races = ref.races \cup
              {Race(d, a, acc) : a \in {h \in ref.hist[d] : ReallyRaces(h, acc, its)}}
        BY <2>1 DEF AccessStep, RefStep
  <2>3. e \notin ElemsOf(ref.races) /\ e \notin ref.excused
        BY <2>2 DEF FoundInv, Clean, ElemsOf
  <2>4. ASSUME d = e, NEW h \in ref.hist[d] PROVE ~ReallyRaces(h, acc, its)
    <3>1. h \in Accesses /\ acc.op = op
          BY HistoryTyped DEF AccOf, Access
    <3>2. CASE op = "read" /\ h.op = "read"
          BY <3>1, <3>2 DEF ReallyRaces, Writes
    <3>3. CASE op # "read" \/ h.op # "read"
      <4> DEFINE now == NowOf(t, d, op, ordering)
      <4>1. h.seq <= now[h.thread]
        <5>1. Unopposed(t, e, op, ordering) /\ Stands(e)
              BY <2>1, <2>4, CleanAccess DEF ChainInv
        <5>2. QED BY <2>1, <2>4, <3>3, <5>1, HistoryIsKnown
      <4>2. Leq(now, its)
        <5>1. Exact
              BY <2>3 DEF ExactInv
        <5>2. QED BY <1>0, <5>1, AccessIsExact
      <4>3. now \in Clocks /\ its \in Clocks
            BY <1>0, AccessTyped, RefTyped
      <4> HIDE DEF now, its, acc
      <4>4. h.thread \in Threads /\ h.seq \in Nat /\ now[h.thread] \in Nat /\ its[h.thread] \in Nat
            BY <3>1, <4>3 DEF Accesses, Clocks
      <4>5. now[h.thread] <= its[h.thread]
            BY <4>2, <4>4 DEF Leq
      <4>6. ~(its[h.thread] < h.seq)
            BY <4>1, <4>4, <4>5
      <4>7. QED BY <4>6 DEF ReallyRaces
    <3>4. QED BY <3>2, <3>3
  <2> HIDE DEF acc, its
  <2>5. \A a : Race(d, a, acc).elem = d
        BY DEF Race
  <2>6. QED BY <2>2, <2>3, <2>4, <2>5 DEF ElemsOf
<1>2. ASSUME NEW t \in Threads,
             \/ \E ordering \in kernel.fences : Fence(t, ordering)
             \/ SyncThreads(t)
             \/ BarrierDepart(t)
             \/ SyncWarp(t)
      PROVE  e \notin ElemsOf(ref'.races)
  <2>1. races' = races /\ ref'.races = ref.races /\ ref.excused \subseteq ref'.excused
        BY <1>0, <1>2, MemoryUntouched
  <2>2. QED BY <2>1 DEF FoundInv, Clean
<1>3. CASE NextLaunch
      BY <1>3 DEF NextLaunch, NewRef, ElemsOf
<1>4. CASE UNCHANGED vars
  <2>1. races' = races /\ ref' = ref
        BY <1>4 DEF vars, memVars
  <2>2. QED BY <2>1 DEF FoundInv, Clean
<1>5. QED BY <1>0, <1>1, <1>2, <1>3, <1>4, StepKinds, Zenon

\* The clocks and cells before the first step.
LEMMA InitKnown == Init => MadeInv /\ PastInv
<1> SUFFICES ASSUME Init PROVE MadeInv /\ PastInv
    OBVIOUS
<1>1. PastInv
      BY DEF Init, NewRef, PastInv
<1>2. /\ seq = PerThread(0) /\ clock = PerThread(NoClock) /\ fence_release = PerThread(NoClock)
      /\ fence_acquire = PerThread(NoClock) /\ block = [b \in Blocks |-> NoClock]
      /\ cells = [e \in Elems |-> NewCell(e \notin Uninit \cup Shared)]
      /\ cell_launch = [e \in Elems |-> 0] /\ launch = 1
      BY Zenon DEF Init
<1>3. \A e \in Elems : CellOf(e).release = NoClock
      BY <1>2 DEF CellOf, ResetCell, NewCell
<1>4. \A x \in Threads : NoClock[x] = 0
      BY DEF NoClock
<1>5. NoClock \in Upto(seq)
  <2>1. seq \in Clocks
        BY InitTyped DEF TypeInv, SyncOK, Clocks
  <2>2. QED BY <2>1, UptoJoins
<1>6. Everywhere(Upto(seq))
      BY <1>2, <1>3, <1>5, ThreadPlaced DEF Everywhere, PerThread
<1>7. QED BY <1>1, <1>2, <1>4, <1>6 DEF MadeInv, PerThread

\* They hold in every state.
LEMMA KnowHolds == Spec => []KnowInv
<1>1. Inv /\ Inv' /\ MadeInv /\ PastInv /\ [Next]_vars => MadeInv' /\ PastInv'
      BY StepKeepsMade, StepKeepsPast
<1>2. Inv /\ CellsHeld /\ MadeInv /\ PastInv => KnowInv
      BY DEF KnowInv
<1>3. QED BY <1>1, <1>2, InitKnown, InvHolds, HeldHolds, PTL DEF Spec

\* A race that the code does not report has one of the causes of src/shadow.rs,
\* src/sync.rs and src/mem.rs that Losses and BarrierDepart record: for every
\* grid, kernel, schedule, limit of readers and number of launches, and with no
\* hypothesis on the kernels.
THEOREM MissesAreExplained == Spec => []MissesExplained
<1>1. Init => ChainInv /\ ExactInv /\ FoundInv
  <2> SUFFICES ASSUME Init PROVE ChainInv /\ ExactInv /\ FoundInv
      OBVIOUS
  <2>1. /\ ref.hist = [e \in Elems |-> {}] /\ ref.races = {}
        /\ ref.clock = PerThread(NoClock) /\ ref.fence = PerThread(NoClock)
        /\ ref.pending = PerThread(NoClock) /\ ref.elem = [e \in Elems |-> NoClock]
        BY DEF Init, NewRef, PerThread
  <2>2. ChainInv /\ FoundInv
        BY <2>1 DEF ChainInv, Stands, FoundInv, ElemsOf
  <2>3. /\ clock = PerThread(NoClock) /\ fence_release = PerThread(NoClock)
        /\ fence_acquire = PerThread(NoClock) /\ block = [b \in Blocks |-> NoClock]
        /\ at = PerThread("kernel")
        /\ cells = [e \in Elems |-> NewCell(e \notin Uninit \cup Shared)]
        /\ cell_launch = [e \in Elems |-> 0] /\ launch = 1
        BY Zenon DEF Init
  <2>4. \A e \in Elems : CellOf(e).release = NoClock
        BY <2>3 DEF CellOf, ResetCell, NewCell
  <2>5. Leq(NoClock, NoClock) /\ \A x \in Threads : NoClock[x] = 0
        BY DEF Leq, NoClock
  <2>6. ThreadsExact /\ CellsExact
        BY <2>1, <2>3, <2>4, <2>5 DEF ThreadsExact, CellsExact, PerThread
  <2>7. ASSUME NEW t \in Threads
        PROVE  /\ \A x \in Threads :
                     \E v \in BlockThreads(BlockOf(t)) : block[BlockOf(t)][x] <= ref.clock[v][x]
               /\ at[t] = "kernel"
    <3>1. block[BlockOf(t)] = NoClock /\ ref.clock[t] = NoClock /\ at[t] = "kernel"
          BY <2>1, <2>3, ThreadPlaced DEF PerThread
    <3>2. t \in BlockThreads(BlockOf(t))
          BY DEF BlockThreads
    <3>3. QED BY <2>5, <3>1, <3>2
  <2>8. BlocksExact
        BY <2>7 DEF BlocksExact
  <2>9. QED BY <2>2, <2>6, <2>8 DEF ExactInv, Exact
<1>2. Inv /\ Inv' /\ KnowInv /\ KnowInv' /\ ChainInv /\ ExactInv /\ FoundInv
         /\ [Next]_vars => ChainInv' /\ ExactInv' /\ FoundInv'
      BY StepKeepsChain, StepKeepsExact, StepKeepsFound
<1>3. Inv /\ FoundInv => MissesExplained
  <2> SUFFICES ASSUME Inv, FoundInv, NEW r \in ref.races
               PROVE  r.elem \in ElemsOf(races) \cup ref.excused
      BY DEF MissesExplained, ElemsOf
  <2>1. r.elem \in Elems
        BY DEF Inv, TypeInv, Refs, RaceRecords
  <2>2. r.elem \in ElemsOf(ref.races)
        BY DEF ElemsOf
  <2>3. QED BY <2>1, <2>2 DEF FoundInv, Clean
<1>4. QED BY <1>1, <1>2, <1>3, InvHolds, KnowHolds, PTL DEF Spec


(***************************************************************************)
(* Kernels of plain accesses and barriers.  There only a barrier tells a   *)
(* thread of another's accesses, and all of an epoch at once: nobody knows *)
(* an access of the epoch its thread is in, and whoever learns of a read   *)
(* learns of the thread's later reads of that epoch too.  So the reader    *)
(* that on_read keeps stands for those that it leaves out, and the cell    *)
(* for the whole history.                                                  *)
(***************************************************************************)
PlainKernels ==
    \A k \in Kernels : k.kinds \subseteq {"read", "write"} /\ "warp" \notin k.syncs /\ k.fences = {}

\* Every cell has room for another reader, as it always has on a grid of no
\* more threads than a cell keeps readers.
CellsHaveRoom ==
    \/ NumBlocks * ThreadsPerBlock <= MaxReaders
    \/ \A e \in Elems : Len(CellOf(e).readers) < MaxReaders

\* Atomics, fences and warps hand nothing over, and no thread of an epoch is
\* twice among the readers of a cell.
PlainInv ==
    /\ \A t \in Threads : /\ fence_release[t] = NoClock /\ fence_acquire[t] = NoClock
                          /\ warp_gen[WarpOf(t)] = 0
    /\ \A e \in Elems : /\ CellOf(e).release = NoClock /\ Distinct(CellOf(e).readers)
                        /\ \A h \in ref.hist[e] : h.warp_epoch = 0

\* Nobody else knows h as long as its thread is in the epoch of h.
FreshOf(h) ==
    /\ at[h.thread] = "released" => h.epoch < barrier_gen[BlockOf(h.thread)]
    /\ at[h.thread] = "kernel" /\ h.epoch = barrier_gen[BlockOf(h.thread)] =>
          \A u \in Threads : /\ u # h.thread => clock[u][h.thread] < h.seq
                             /\ block[BlockOf(u)][h.thread] < h.seq

FreshInv == \A e \in Elems : \A h \in ref.hist[e] : FreshOf(h)

\* The steps of a plain kernel.
LEMMA PlainSteps ==
    ASSUME PlainKernels, TypeInv, Next
    PROVE  \/ \E t \in Threads :
                 \/ \E e \in Elems, op \in {"read", "write"}, ordering \in AllOrderings :
                       Allowed(e, op) /\ AccessStep(t, e, op, ordering)
                 \/ SyncThreads(t)
                 \/ BarrierDepart(t)
           \/ NextLaunch
<1>1. kernel.kinds \subseteq {"read", "write"} /\ "warp" \notin kernel.syncs /\ kernel.fences = {}
      BY DEF PlainKernels, TypeInv
<1>2. ASSUME NEW t \in Threads, AnyAccess(t)
      PROVE  \E e \in Elems, op \in {"read", "write"}, ordering \in AllOrderings :
                 Allowed(e, op) /\ AccessStep(t, e, op, ordering)
  <2>1. PICK e \in Elems, op \in MemOps, ordering \in AllOrderings :
             Allowed(e, op) /\ AccessStep(t, e, op, ordering)
        BY <1>2, Zenon DEF AnyAccess
  <2>2. op \in {"read", "write"}
        BY <1>1, <2>1 DEF Allowed
  <2>3. QED BY <2>1, <2>2, Zenon
<1>3. ASSUME NEW t \in Threads, SyncWarp(t) PROVE FALSE
      BY <1>1, <1>3, Zenon DEF SyncWarp
<1>4. ASSUME NEW t \in Threads, \E ordering \in kernel.fences : Fence(t, ordering) PROVE FALSE
      BY <1>1, <1>4
<1>5. QED BY <1>2, <1>3, <1>4, StepKinds, Zenon

\* What a plain access learns and hands over: nothing.
LEMMA PlainAccess ==
    ASSUME KnowInv, PlainInv, NEW t \in Threads, NEW e \in Elems, NEW op \in {"read", "write"},
           NEW ordering
    PROVE  /\ op \in MemOps
           /\ \A u \in Threads \ {t} : NowOf(t, e, op, ordering)[u] = clock[t][u]
           /\ NowOf(t, e, op, ordering)[t] = seq[t] + 1
           /\ AcquiredPending(t, CellOf(e), op, ordering) = NoClock
           /\ ReleaseOf(t, e, op, ordering) = NoClock
<1>0. TypeInv /\ MadeInv /\ op \in MemOps
      BY DEF KnowInv, Inv, MemOps
<1>1. ~Atomic(op)
      BY DEF Atomic
<1>2. NowOf(t, e, op, ordering) = Observe(clock[t], t, seq[t] + 1)
      BY <1>1 DEF NowOf, AcquiredClock
<1>3. clock[t] \in Clocks
      BY <1>0 DEF TypeInv, SyncOK
<1>4. \A u \in Threads \ {t} : NowOf(t, e, op, ordering)[u] = clock[t][u]
      BY <1>2, <1>3 DEF Observe, Clocks
<1>5. NowOf(t, e, op, ordering)[t] = seq[t] + 1
      BY <1>0, NowIsNext
<1>6. AcquiredPending(t, CellOf(e), op, ordering) = NoClock
      BY <1>1 DEF AcquiredPending, PlainInv
<1>7. ReleaseOf(t, e, op, ordering) = NoClock
      BY <1>1 DEF ReleaseOf, Released, PlainInv
<1>8. QED BY <1>0, <1>4, <1>5, <1>6, <1>7

\* The empty list of readers.
LEMMA NobodyTwice == Distinct(<<>>)
BY DEF Distinct

\* Every step of a plain kernel keeps PlainInv.
LEMMA StepKeepsPlain ==
    ASSUME PlainKernels PROVE KnowInv /\ PlainInv /\ [Next]_vars => PlainInv'
<1> SUFFICES ASSUME KnowInv, PlainInv, [Next]_vars PROVE PlainInv'
    OBVIOUS
<1>0. /\ TypeInv /\ DOMAIN ref.hist = Elems /\ DOMAIN fence_acquire = Threads
      /\ \A a \in Accesses : a.thread \in Threads
      BY DEF KnowInv, Inv, TypeInv, SyncOK, Refs, Accesses
<1>1. ASSUME NEW t \in Threads, NEW e \in Elems, NEW op \in {"read", "write"}, NEW ordering,
             AccessStep(t, e, op, ordering)
      PROVE  PlainInv'
  <2>0. op \in MemOps
        BY PlainAccess
  <2>1. PICK acc : acc = AccOf(t, op)
        OBVIOUS
  <2>2. /\ fence_acquire' = [fence_acquire EXCEPT ![t] = NoClock]
        /\ fence_release' = fence_release /\ warp_gen' = warp_gen
        /\ ref'.hist = [ref.hist EXCEPT ![e] = @ \cup {acc}]
    <3>1. /\ fence_acquire' = [fence_acquire EXCEPT ![t] = AcquiredPending(t, CellOf(e), op, ordering)]
          /\ fence_release' = fence_release /\ warp_gen' = warp_gen
          /\ ref'.hist = [ref.hist EXCEPT ![e] = @ \cup {acc}]
          BY <1>1, <2>1 DEF AccessStep, RefStep
    <3>2. AcquiredPending(t, CellOf(e), op, ordering) = NoClock
          BY PlainAccess
    <3>3. QED BY <3>1, <3>2
  <2>3. acc.warp_epoch = 0 /\ acc \in Accesses
        BY <1>0, <2>0, <2>1, AccessTyped DEF AccOf, Access, PlainInv
  <2>4. CellOf(e)'.release = NoClock
        BY <1>0, <1>1, <2>0, CellAfterAccess, PlainAccess
  <2>5. Distinct(CellOf(e)'.readers)
    <3>1. CellOf(e)'.readers = Recorded(t, e, op).readers
          BY <1>0, <1>1, <2>0, CellAfterAccess
    <3>2. CellOf(e) \in CellsOf(Accesses) /\ Distinct(CellOf(e).readers)
          BY <1>0, CellTyped DEF Cells, PlainInv
    <3>3. CASE op = "read"
      <4>1. Recorded(t, e, op) = OnRead(CellOf(e), acc)
            BY <2>1, <3>3 DEF Recorded
      <4>2. Distinct(OnRead(CellOf(e), acc).readers)
            BY <1>0, <2>3, <3>2, ReadIsRecorded
      <4>3. QED BY <3>1, <4>1, <4>2
    <3>4. CASE op # "read"
      <4>1. Recorded(t, e, op) = OnWrite(CellOf(e), acc)
            BY <2>1, <3>4 DEF Recorded
      <4>2. OnWrite(CellOf(e), acc).readers = <<>>
            BY <2>3, <3>2, OnWriteRecords
      <4>3. QED BY <3>1, <4>1, <4>2, NobodyTwice
    <3>5. QED BY <3>3, <3>4
  <2>6. ASSUME NEW d \in Elems, d # e
        PROVE  CellOf(d)' = CellOf(d) /\ ref'.hist[d] = ref.hist[d]
        BY <1>0, <1>1, <2>0, <2>2, <2>6, CellAfterAccess
  <2>7. ref'.hist[e] = ref.hist[e] \cup {acc}
        BY <1>0, <2>2
  <2>8. ASSUME NEW d \in Elems
        PROVE  /\ CellOf(d)'.release = NoClock /\ Distinct(CellOf(d)'.readers)
               /\ \A h \in ref'.hist[d] : h.warp_epoch = 0
    <3>1. CASE d = e
          BY <2>3, <2>4, <2>5, <2>7, <3>1 DEF PlainInv
    <3>2. CASE d # e
          BY <2>6, <3>2 DEF PlainInv
    <3>3. QED BY <3>1, <3>2
  <2>9. \A u \in Threads : /\ fence_release'[u] = NoClock /\ fence_acquire'[u] = NoClock
                           /\ warp_gen'[WarpOf(u)] = 0
        BY <1>0, <2>2 DEF PlainInv
  <2>10. QED BY <2>8, <2>9 DEF PlainInv
<1>2. ASSUME NEW t \in Threads, SyncThreads(t) \/ BarrierDepart(t) PROVE PlainInv'
  <2>1. UNCHANGED <<launch, cells, cell_launch>> /\ ref'.hist = ref.hist
        BY <1>0, <1>2, MemoryUntouched
  <2>2. \A e \in Elems : CellOf(e)' = CellOf(e)
        BY <2>1, CellUnchanged
  <2>3. UNCHANGED <<fence_release, fence_acquire, warp_gen>>
        BY <1>2, Zenon DEF SyncThreads, BarrierDepart
  <2>4. QED BY <2>1, <2>2, <2>3 DEF PlainInv
<1>3. CASE NextLaunch
  <2>1. \A e \in Elems : CellOf(e)'.release = NoClock /\ CellOf(e)'.readers = <<>>
        BY <1>0, <1>3, CellAfterLaunch
  <2>2. /\ fence_release' = PerThread(NoClock) /\ fence_acquire' = PerThread(NoClock)
        /\ warp_gen' = [w \in Warps |-> 0] /\ ref'.hist = [e \in Elems |-> {}]
        BY <1>3 DEF NextLaunch, NewRef
  <2>3. QED BY <2>1, <2>2, NobodyTwice, ThreadPlaced DEF PlainInv, PerThread
<1>4. CASE UNCHANGED vars
  <2>1. /\ UNCHANGED <<fence_release, fence_acquire, warp_gen, cells, cell_launch, launch>>
        /\ ref' = ref
        BY <1>4 DEF vars, syncVars, schedVars, memVars
  <2>2. \A e \in Elems : CellOf(e)' = CellOf(e)
        BY <2>1, CellUnchanged
  <2>3. QED BY <2>1, <2>2 DEF PlainInv
<1>5. QED BY <1>0, <1>1, <1>2, <1>3, <1>4, PlainSteps, Zenon


\* Whoever joins two clocks that do not know an access does not know it.
LEMMA JoinUnaware ==
    ASSUME NEW c \in Clocks, NEW d \in Clocks, NEW t \in Threads, NEW n \in Nat,
           c[t] < n, d[t] < n
    PROVE  Join(c, d)[t] < n
<1>1. Join(c, d)[t] \in {c[t], d[t]}
      BY JoinIsLeast
<1>2. QED BY <1>1

\* Every step of a plain kernel keeps the accesses of running epochs unknown.
LEMMA StepKeepsFresh ==
    ASSUME PlainKernels PROVE KnowInv /\ PlainInv /\ FreshInv /\ [Next]_vars => FreshInv'
<1> SUFFICES ASSUME KnowInv, PlainInv, FreshInv, [Next]_vars PROVE FreshInv'
    OBVIOUS
<1>0. /\ TypeInv /\ MadeInv /\ DOMAIN ref.hist = Elems /\ DOMAIN clock = Threads
      /\ DOMAIN at = Threads /\ DOMAIN block = Blocks /\ DOMAIN barrier_gen = Blocks
      /\ \A u \in Threads : /\ clock[u] \in Clocks /\ block[BlockOf(u)] \in Clocks
                            /\ BlockOf(u) \in Blocks /\ barrier_gen[BlockOf(u)] \in Nat
      BY ThreadPlaced DEF KnowInv, Inv, TypeInv, SyncOK, SchedOK, Refs
<1>a. ASSUME NEW e \in Elems, NEW h \in ref.hist[e]
      PROVE  /\ h \in Accesses /\ h.thread \in Threads /\ h.seq \in Nat /\ h.epoch \in Nat
             /\ h.epoch <= barrier_gen[BlockOf(h.thread)] /\ FreshOf(h)
      BY <1>a, HistoryTyped DEF Accesses, FreshInv
<1>1. ASSUME NEW t \in Threads, NEW e \in Elems, NEW op \in {"read", "write"}, NEW ordering,
             AccessStep(t, e, op, ordering)
      PROVE  FreshInv'
  <2> DEFINE now == NowOf(t, e, op, ordering)
  <2>1. PICK acc : acc = AccOf(t, op)
        OBVIOUS
  <2>2. /\ clock' = [clock EXCEPT ![t] = now] /\ UNCHANGED <<block, barrier_gen, at>>
        /\ at[t] = "kernel"
        /\ ref'.hist = [ref.hist EXCEPT ![e] = @ \cup {acc}]
        BY <1>1, <2>1 DEF AccessStep, RefStep, CanStep
  <2>3. \A u \in Threads \ {t} : now[u] = clock[t][u]
        BY PlainAccess
  <2>4. acc.thread = t /\ acc.seq = seq[t] + 1 /\ seq[t] \in Nat
        BY <1>0, <2>1 DEF AccOf, Access, TypeInv, SyncOK
  <2> HIDE DEF now
  <2>5. \A u, v \in Threads : u # v => clock'[u][v] = clock[u][v]
        BY <1>0, <2>2, <2>3
  <2>6. FreshOf(acc)'
    <3>1. \A u \in Threads : clock[u][t] <= seq[t] /\ block[BlockOf(u)][t] <= seq[t]
          BY <1>0 DEF MadeInv, Everywhere, Upto, Leq
    <3>2. \A u \in Threads : clock[u][t] \in Nat /\ block[BlockOf(u)][t] \in Nat
          BY <1>0 DEF Clocks
    <3>3. \A u \in Threads : /\ u # t => clock'[u][t] < acc.seq
                             /\ block'[BlockOf(u)][t] < acc.seq
          BY <2>2, <2>4, <2>5, <3>1, <3>2
    <3>4. at'[t] = "kernel"
          BY <2>2
    <3>5. QED BY <2>4, <3>3, <3>4 DEF FreshOf
  <2>7. ASSUME NEW d \in Elems, NEW h \in ref.hist[d] PROVE FreshOf(h)'
    <3>1. h.thread \in Threads /\ FreshOf(h)
          BY <1>a
    <3>2. QED BY <2>2, <2>5, <3>1 DEF FreshOf
  <2>8. ASSUME NEW d \in Elems, NEW h \in ref'.hist[d] PROVE FreshOf(h)'
    <3>1. h \in ref.hist[d] \/ h = acc
          BY <1>0, <2>2
    <3>2. QED BY <2>6, <2>7, <3>1
  <2>9. QED BY <2>8 DEF FreshInv
<1>2. ASSUME NEW t \in Threads, SyncThreads(t) PROVE FreshInv'
  <2> DEFINE b == BlockOf(t)
             c == Join(block[b], clock[t])
  <2>1. /\ at[t] = "kernel" /\ clock' = clock
        /\ block' = [block EXCEPT ![b] = c]
        /\ Arrival(t) \/ Release(t)
        BY <1>0, <1>2, SyncThreadsSteps
  <2>2. ref'.hist = ref.hist
        BY <1>0, <1>2, MemoryUntouched
  <2> SUFFICES ASSUME NEW e \in Elems, NEW h \in ref.hist[e] PROVE FreshOf(h)'
      BY <2>2 DEF FreshInv
  <2>3. /\ h.thread \in Threads /\ h.seq \in Nat /\ h.epoch \in Nat
        /\ h.epoch <= barrier_gen[BlockOf(h.thread)] /\ FreshOf(h)
        BY <1>a
  <2>4. ASSUME h.thread # t, at[h.thread] = "kernel", h.epoch = barrier_gen[BlockOf(h.thread)]
        PROVE  \A u \in Threads : /\ u # h.thread => clock'[u][h.thread] < h.seq
                                  /\ block'[BlockOf(u)][h.thread] < h.seq
    <3>1. \A u \in Threads : /\ u # h.thread => clock[u][h.thread] < h.seq
                             /\ block[BlockOf(u)][h.thread] < h.seq
          BY <2>3, <2>4 DEF FreshOf
    <3>2. clock[t][h.thread] < h.seq /\ block[b][h.thread] < h.seq
          BY <2>4, <3>1
    <3>3. c[h.thread] < h.seq
          BY <1>0, <2>3, <3>2, JoinUnaware
    <3> HIDE DEF c
    <3>4. QED BY <1>0, <2>1, <3>1, <3>3
  <2> HIDE DEF c
  <2>5. CASE Arrival(t)
    <3>1. at' = [at EXCEPT ![t] = "barrier"] /\ barrier_gen' = barrier_gen
          BY <2>5 DEF Arrival
    <3>2. CASE h.thread = t
          BY <1>0, <3>1, <3>2 DEF FreshOf
    <3>3. CASE h.thread # t
          BY <1>0, <2>3, <2>4, <3>1, <3>3 DEF FreshOf
    <3>4. QED BY <3>2, <3>3
  <2>6. CASE Release(t)
    <3>1. /\ at' = [u \in Threads |-> IF BlockOf(u) = b THEN "released" ELSE at[u]]
          /\ barrier_gen' = [barrier_gen EXCEPT ![b] = @ + 1]
          BY <2>6, Zenon DEF Release
    <3>2. CASE BlockOf(h.thread) = b
      <4>1. at'[h.thread] = "released" /\ barrier_gen'[b] = barrier_gen[b] + 1
            BY <1>0, <2>3, <3>1, <3>2
      <4>2. h.epoch < barrier_gen'[BlockOf(h.thread)]
            BY <1>0, <2>3, <3>2, <4>1
      <4>3. QED BY <4>1, <4>2 DEF FreshOf
    <3>3. CASE BlockOf(h.thread) # b
      <4>1. /\ at'[h.thread] = at[h.thread] /\ h.thread # t
            /\ barrier_gen'[BlockOf(h.thread)] = barrier_gen[BlockOf(h.thread)]
            BY <1>0, <2>3, <3>1, <3>3
      <4>2. QED BY <2>3, <2>4, <4>1 DEF FreshOf
    <3>4. QED BY <3>2, <3>3
  <2>7. QED BY <2>1, <2>5, <2>6
<1>3. ASSUME NEW t \in Threads, BarrierDepart(t) PROVE FreshInv'
  <2> DEFINE c == Join(clock[t], block[BlockOf(t)])
  <2>1. /\ at[t] = "released" /\ at' = [at EXCEPT ![t] = "kernel"]
        /\ clock' = [clock EXCEPT ![t] = c] /\ UNCHANGED <<block, barrier_gen>>
        BY <1>3, Zenon DEF BarrierDepart
  <2>2. ref'.hist = ref.hist
        BY <1>0, <1>3, MemoryUntouched
  <2> SUFFICES ASSUME NEW e \in Elems, NEW h \in ref.hist[e] PROVE FreshOf(h)'
      BY <2>2 DEF FreshInv
  <2>3. h.thread \in Threads /\ h.seq \in Nat /\ h.epoch \in Nat /\ FreshOf(h)
        BY <1>a
  <2>4. CASE h.thread = t
    <3>1. at'[h.thread] = "kernel" /\ h.epoch < barrier_gen'[BlockOf(h.thread)]
          BY <1>0, <2>1, <2>3, <2>4 DEF FreshOf
    <3>2. h.epoch # barrier_gen'[BlockOf(h.thread)]
          BY <1>0, <2>1, <2>3, <3>1
    <3>3. QED BY <3>1, <3>2 DEF FreshOf
  <2>5. CASE h.thread # t
    <3>1. at'[h.thread] = at[h.thread]
          BY <1>0, <2>1, <2>3, <2>5
    <3>2. ASSUME at[h.thread] = "kernel", h.epoch = barrier_gen[BlockOf(h.thread)]
          PROVE  \A u \in Threads : /\ u # h.thread => clock'[u][h.thread] < h.seq
                                    /\ block'[BlockOf(u)][h.thread] < h.seq
      <4>1. \A u \in Threads : /\ u # h.thread => clock[u][h.thread] < h.seq
                               /\ block[BlockOf(u)][h.thread] < h.seq
            BY <2>3, <3>2 DEF FreshOf
      <4>2. clock[t][h.thread] < h.seq /\ block[BlockOf(t)][h.thread] < h.seq
            BY <2>5, <4>1
      <4>3. c[h.thread] < h.seq
            BY <1>0, <2>3, <4>2, JoinUnaware
      <4> HIDE DEF c
      <4>4. QED BY <1>0, <2>1, <4>1, <4>3
    <3> HIDE DEF c
    <3>3. QED BY <2>1, <2>3, <3>1, <3>2 DEF FreshOf
  <2>6. QED BY <2>4, <2>5
<1>4. CASE NextLaunch
      BY <1>4 DEF NextLaunch, NewRef, FreshInv
<1>5. CASE UNCHANGED vars
      BY <1>5 DEF vars, syncVars, schedVars, FreshInv, FreshOf
<1>6. QED BY <1>0, <1>1, <1>2, <1>3, <1>4, <1>5, PlainSteps, Zenon


\* In a plain kernel what the cell holds is known to an access or concurrent
\* with it.
LEMMA PlainIsChained ==
    ASSUME KnowInv, PlainInv, NEW t \in Threads, NEW e \in Elems, NEW op \in {"read", "write"},
           NEW ordering, Allowed(e, op), AccessStep(t, e, op, ordering), PlainKernels
    PROVE  ~Unchained(op, AccOf(t, op), CellOf(e), NowOf(t, e, op, ordering))
<1> DEFINE now == NowOf(t, e, op, ordering)
           acc == AccOf(t, op)
<1>0. TypeInv /\ MadeInv /\ CellsHeld /\ op \in MemOps /\ now \in Clocks
      BY PlainAccess, AccessTyped DEF KnowInv, Inv
<1> SUFFICES ASSUME NEW a \in Compared(op, CellOf(e)), now[a.thread] < a.seq
             PROVE  Concurrent(a, acc, now)
    BY DEF Unchained
<1>1. a \in ref.hist[e]
      BY <1>0 DEF Compared, CellsHeld
<1>2. /\ a \in Accesses /\ a.thread \in Threads /\ a.seq \in Nat /\ a.seq <= seq[a.thread]
      /\ a.warp_epoch = 0 /\ Allowed(e, a.op)
      BY <1>0, <1>1, HistoryTyped DEF PlainInv, Accesses, CellsHeld
<1>3. /\ acc.thread = t /\ acc.op = op /\ acc.epoch = barrier_gen[BlockOf(t)]
      /\ acc.warp_epoch = 0
      BY DEF AccOf, Access, PlainInv
<1>4. a.thread # t
  <2>1. now[t] = seq[t] + 1 /\ seq[t] \in Nat
        BY <1>0, PlainAccess DEF TypeInv, SyncOK
  <2>2. QED BY <1>2, <2>1
<1>5. ~IsAtomic(a)
  <2>1. a.op \in {"read", "write"}
        BY <1>0, <1>2 DEF PlainKernels, Allowed, TypeInv
  <2>2. QED BY <2>1 DEF IsAtomic
<1>6. BlockOf(a.thread) # BlockOf(t) \/ a.epoch = acc.epoch
  <2>1. ASSUME ~Retained(a, acc) PROVE FALSE
    <3>1. a.seq <= now[a.thread]
          BY <1>0, <1>1, <2>1, DroppedIsKnown
    <3>2. now[a.thread] \in Nat
          BY <1>0, <1>2 DEF Clocks
    <3> HIDE DEF now
    <3>3. QED BY <1>2, <3>1, <3>2
  <2>2. QED BY <1>3, <2>1 DEF Retained
<1> HIDE DEF now, acc
<1>7. QED BY <1>2, <1>3, <1>4, <1>5, <1>6 DEF Concurrent

\* And a read is among the readers, or covered by the one that its thread has
\* there.
LEMMA PlainReadIsCovered ==
    ASSUME KnowInv, PlainInv, FreshInv, CellsHaveRoom, NEW t \in Threads, NEW e \in Elems,
           NEW ordering, AccessStep(t, e, "read", ordering), NEW acc, acc = AccOf(t, "read"),
           NEW readers, readers = CellOf(e)'.readers
    PROVE  \E m \in DOMAIN readers : Covers(readers[m], acc)'
<1>0. /\ TypeInv /\ CellsHeld /\ "read" \in MemOps /\ "read" \in {"read", "write"}
      /\ \A a \in Accesses : a.thread \in Threads
      BY DEF KnowInv, Inv, MemOps, Accesses
<1>1. acc \in Accesses /\ acc.thread = t /\ acc.seq = seq[t] + 1 /\ acc.epoch = barrier_gen[BlockOf(t)]
      BY <1>0, AccessTyped DEF AccOf, Access
<1>2. CellOf(e) \in CellsOf(Accesses) /\ Distinct(CellOf(e).readers) /\ Len(CellOf(e).readers) <= MaxReaders
      BY <1>0, CellTyped DEF Cells, PlainInv
<1>3. readers = OnRead(CellOf(e), acc).readers
  <2>1. readers = Recorded(t, e, "read").readers
        BY <1>0, CellAfterAccess
  <2>2. QED BY <2>1 DEF Recorded
<1>4. NumBlocks * ThreadsPerBlock <= MaxReaders \/ Len(CellOf(e).readers) < MaxReaders
      BY DEF CellsHaveRoom
<1>5. PICK m \in DOMAIN readers : SameReader(readers[m], acc)
      BY <1>0, <1>1, <1>2, <1>3, <1>4, ReadIsRecorded
<1>6. PICK r : r = readers[m]
      OBVIOUS
<1>7. r = acc \/ r \in ref.hist[e]
  <2>1. r = acc \/ \E j \in DOMAIN CellOf(e).readers : r = CellOf(e).readers[j]
        BY <1>1, <1>2, <1>3, <1>5, <1>6, OnReadRecords
  <2>2. QED BY <1>0, <2>1 DEF CellsHeld
<1>8. CASE r = acc
  <2>1. Covers(r, acc)'
        BY <1>8 DEF Covers
  <2>2. QED BY <1>5, <1>6, <2>1
<1>9. CASE r \in ref.hist[e]
  <2>1. r.thread = t /\ r.epoch = barrier_gen[BlockOf(t)] /\ FreshOf(r) /\ 1 <= r.seq /\ r.seq \in Nat
        BY <1>1, <1>5, <1>6, <1>9, HistoryTyped DEF SameReader, FreshInv, Accesses
  <2>2. at[t] = "kernel" /\ block' = block /\ clock' = [clock EXCEPT ![t] = NowOf(t, e, "read", ordering)]
        BY DEF AccessStep, CanStep
  <2>3. \A u \in Threads : /\ u # t => clock[u][t] < r.seq
                           /\ block[BlockOf(u)][t] < r.seq
        BY <2>1, <2>2 DEF FreshOf
  <2>4. NowOf(t, e, "read", ordering)[t] = acc.seq /\ NowOf(t, e, "read", ordering) \in Clocks
        BY <1>0, <1>1, PlainAccess, AccessTyped
  <2> DEFINE G == Closing(r, acc)
  <2>5. \A c \in Clocks : c[t] < r.seq \/ c[t] = acc.seq => c \in G
    <3> SUFFICES ASSUME NEW c \in Clocks, c[t] < r.seq \/ c[t] = acc.seq PROVE c \in G
        OBVIOUS
    <3>1. c[t] \in Nat /\ acc.seq \in Nat
          BY <1>1 DEF Clocks, Accesses
    <3>2. r.seq <= c[t] => acc.seq <= c[t]
          BY <2>1, <3>1
    <3>3. QED BY <1>1, <2>1, <3>2 DEF Closing
  <2> HIDE DEF G
  <2>6. NoClock \in G
    <3>1. NoClock \in Clocks /\ NoClock[t] = 0
          BY NoClockKnowsNothing
    <3>2. QED BY <2>1, <2>5, <3>1
  <2>7. \A u \in Threads : clock'[u] \in G /\ block'[BlockOf(u)] \in G
    <3>1. \A u \in Threads : clock[u] \in Clocks /\ block[BlockOf(u)] \in Clocks
          BY <1>0, ThreadPlaced DEF TypeInv, SyncOK
    <3>2. \A u \in Threads : clock'[u] = IF u = t THEN NowOf(t, e, "read", ordering) ELSE clock[u]
          BY <1>0, <2>2 DEF TypeInv, SyncOK
    <3>3. QED BY <2>2, <2>3, <2>4, <2>5, <3>1, <3>2
  <2>8. \A u \in Threads : fence_release'[u] = NoClock /\ fence_acquire'[u] = NoClock
    <3>1. /\ fence_acquire' = [fence_acquire EXCEPT ![t] = AcquiredPending(t, CellOf(e), "read", ordering)]
          /\ fence_release' = fence_release
          BY DEF AccessStep
    <3>2. AcquiredPending(t, CellOf(e), "read", ordering) = NoClock
          BY <1>0, PlainAccess
    <3>3. QED BY <1>0, <3>1, <3>2 DEF PlainInv, TypeInv, SyncOK
  <2>9. \A d \in Elems : CellOf(d)'.release = NoClock
    <3>1. ASSUME NEW d \in Elems, d # e PROVE CellOf(d)'.release = NoClock
      <4>1. CellOf(d)' = CellOf(d)
            BY <1>0, <3>1, CellAfterAccess
      <4>2. QED BY <4>1 DEF PlainInv
    <3>2. CellOf(e)'.release = NoClock
          BY <1>0, CellAfterAccess, PlainAccess
    <3>3. QED BY <3>1, <3>2
  <2>10. Everywhere(G)'
        BY <2>6, <2>7, <2>8, <2>9 DEF Everywhere
  <2>11. Covers(r, acc)'
        BY <2>10 DEF Covers, G
  <2>12. QED BY <1>5, <1>6, <2>11
<1>10. QED BY <1>7, <1>8, <1>9

\* The cells of the elements on which nothing is reported stand for them.
PlainChainInv == \A e \in Elems : e \notin ElemsOf(races) => Stands(e)

\* An access after which nothing is reported on its element was not opposed.
LEMMA QuietAccess ==
    ASSUME NEW t \in Threads, NEW e \in Elems, NEW op, NEW ordering,
           AccessStep(t, e, op, ordering), e \notin ElemsOf(races')
    PROVE  e \notin ElemsOf(races) /\ ConflictOf(t, e, op, ordering) = {}
<1>1. races' = races \cup {Race(e, a, AccOf(t, op)) : a \in ConflictOf(t, e, op, ordering)}
      BY Zenon DEF AccessStep
<1>2. \A a : Race(e, a, AccOf(t, op)).elem = e
      BY DEF Race
<1>3. QED BY <1>1, <1>2 DEF ElemsOf

\* Every step of a plain kernel keeps the cells standing, and what the code's
\* own rule would find in the whole history reported.
LEMMA StepKeepsPlainChain ==
    ASSUME PlainKernels
    PROVE  KnowInv /\ PlainInv /\ FreshInv /\ CellsHaveRoom /\ PlainChainInv /\ CellsSuffice
              /\ [Next]_vars => PlainChainInv' /\ CellsSuffice'
<1> SUFFICES ASSUME KnowInv, PlainInv, FreshInv, CellsHaveRoom, PlainChainInv, CellsSuffice, [Next]_vars
             PROVE  PlainChainInv' /\ CellsSuffice'
    OBVIOUS
<1>0. TypeInv /\ DOMAIN ref.hist = Elems
      BY DEF KnowInv, Inv, TypeInv, Refs
<1>1. ASSUME NEW t \in Threads, NEW e \in Elems, NEW op \in {"read", "write"}, NEW ordering,
             Allowed(e, op), AccessStep(t, e, op, ordering)
      PROVE  PlainChainInv' /\ CellsSuffice'
  <2>0. op \in MemOps
        BY PlainAccess
  <2>1. PICK acc : acc = AccOf(t, op)
        OBVIOUS
  <2>2. /\ ref'.hist = [ref.hist EXCEPT ![e] = @ \cup {acc}] /\ races \subseteq races'
        /\ ref'.unordered = IF \E a \in ref.hist[e] :
                                  /\ Concurrent(a, AccOf(t, op), NowOf(t, e, op, ordering))
                                  /\ Writes(a.op) \/ Writes(op)
                            THEN ref.unordered \cup {e} ELSE ref.unordered
        BY <1>1, <2>1 DEF AccessStep, RefStep
  <2>3. ASSUME e \notin ElemsOf(races') PROVE Unopposed(t, e, op, ordering) /\ Stands(e)
    <3>1. e \notin ElemsOf(races) /\ ConflictOf(t, e, op, ordering) = {}
          BY <1>1, <2>3, QuietAccess
    <3>2. ~Unchained(op, AccOf(t, op), CellOf(e), NowOf(t, e, op, ordering))
          BY <1>1, PlainIsChained
    <3>3. QED BY <3>1, <3>2 DEF Unopposed, PlainChainInv
  <2>4. ASSUME NEW d \in Elems, d \notin ElemsOf(races'), NEW h \in ref'.hist[d]
        PROVE  StandsFor(d, h)'
    <3>1. CASE d = e /\ op = "read"
      <4>1. PICK readers : readers = CellOf(e)'.readers
            OBVIOUS
      <4>2. PICK m \in DOMAIN readers : Covers(readers[m], acc)'
            BY <1>1, <2>1, <3>1, <4>1, PlainReadIsCovered
      <4>3. QED BY <1>1, <2>1, <2>3, <2>4, <3>1, <4>1, <4>2, ReadStands
    <3>2. CASE d = e /\ op # "read"
          BY <1>1, <2>0, <2>3, <2>4, <3>2, WriteStands
    <3>3. CASE d # e
      <4>1. h \in ref.hist[d] /\ d \notin ElemsOf(races)
            BY <1>0, <2>2, <2>4, <3>3 DEF ElemsOf
      <4>2. StandsFor(d, h)
            BY <4>1 DEF PlainChainInv, Stands
      <4>3. QED BY <1>1, <2>0, <3>3, <4>1, <4>2, ElsewhereStands
    <3>4. QED BY <3>1, <3>2, <3>3
  <2>5. ASSUME e \notin ElemsOf(races'), NEW h \in ref.hist[e], Writes(h.op) \/ Writes(op)
        PROVE  ~Concurrent(h, AccOf(t, op), NowOf(t, e, op, ordering))
    <3> DEFINE now == NowOf(t, e, op, ordering)
    <3>1. op # "read" \/ h.op # "read"
          BY <2>5 DEF Writes
    <3>2. h.seq <= now[h.thread]
          BY <1>1, <2>0, <2>3, <2>5, <3>1, HistoryIsKnown
    <3>3. now \in Clocks /\ h \in Accesses
          BY <1>0, <2>0, AccessTyped, HistoryTyped
    <3> HIDE DEF now
    <3>4. now[h.thread] \in Nat /\ h.seq \in Nat
          BY <3>3 DEF Clocks, Accesses
    <3>5. ~(now[h.thread] < h.seq)
          BY <3>2, <3>4
    <3>6. QED BY <3>5 DEF Concurrent, now
  <2>6. ref'.unordered \subseteq ElemsOf(races')
    <3>1. ElemsOf(races) \subseteq ElemsOf(races')
          BY <2>2 DEF ElemsOf
    <3>2. ref'.unordered \subseteq ref.unordered \cup {e}
          BY <2>2
    <3>3. e \in ref'.unordered => e \in ElemsOf(races')
      <4> SUFFICES ASSUME e \in ref'.unordered, e \notin ElemsOf(races') PROVE FALSE
          OBVIOUS
      <4>1. e \notin ref.unordered
            BY <3>1 DEF CellsSuffice
      <4>2. QED BY <2>2, <2>5, <4>1
    <3>4. QED BY <3>1, <3>2, <3>3 DEF CellsSuffice
  <2>7. QED BY <2>4, <2>6 DEF PlainChainInv, Stands, CellsSuffice, ElemsOf
<1>2. ASSUME NEW t \in Threads, SyncThreads(t) \/ BarrierDepart(t)
      PROVE  PlainChainInv' /\ CellsSuffice'
  <2>1. races' = races /\ ref'.hist = ref.hist /\ ref'.unordered = ref.unordered
        BY <1>0, <1>2, MemoryUntouched
  <2>2. ASSUME NEW d \in Elems, NEW h \in ref.hist[d], StandsFor(d, h) PROVE StandsFor(d, h)'
        BY <1>2, <2>2, OthersStand
  <2>3. QED BY <2>1, <2>2 DEF PlainChainInv, Stands, CellsSuffice
<1>3. CASE NextLaunch
      BY <1>3 DEF NextLaunch, NewRef, PlainChainInv, Stands, CellsSuffice
<1>4. CASE UNCHANGED vars
  <2>1. /\ UNCHANGED <<clock, fence_release, fence_acquire, block, cells, cell_launch, launch, races>>
        /\ ref' = ref
        BY <1>4 DEF vars, syncVars, memVars
  <2>2. \A e \in Elems : CellOf(e)' = CellOf(e)
        BY <2>1, CellUnchanged
  <2>3. QED BY <2>1, <2>2 DEF PlainChainInv, Stands, StandsFor, Everywhere, CellsSuffice
<1>5. QED BY <1>0, <1>1, <1>2, <1>3, <1>4, PlainSteps, Zenon


\* The last write and the readers of an epoch, which is all that a cell of
\* src/shadow.rs keeps, are enough.  In kernels of plain accesses and barriers,
\* on every grid and under every schedule, an element on which the code's own
\* rule would find two concurrent accesses in the whole history is reported, as
\* long as no cell is full of readers.
THEOREM BoundedCellsSuffice ==
    ASSUME PlainKernels PROVE Spec /\ []CellsHaveRoom => []CellsSuffice
<1>1. Init => PlainInv /\ FreshInv /\ PlainChainInv /\ CellsSuffice
  <2> SUFFICES ASSUME Init PROVE PlainInv /\ FreshInv /\ PlainChainInv /\ CellsSuffice
      OBVIOUS
  <2>1. ref.hist = [e \in Elems |-> {}] /\ ref.unordered = {}
        BY DEF Init, NewRef
  <2>2. FreshInv /\ PlainChainInv /\ CellsSuffice
        BY <2>1 DEF FreshInv, PlainChainInv, Stands, CellsSuffice
  <2>3. /\ fence_release = PerThread(NoClock) /\ fence_acquire = PerThread(NoClock)
        /\ warp_gen = [w \in Warps |-> 0]
        /\ cells = [e \in Elems |-> NewCell(e \notin Uninit \cup Shared)]
        /\ cell_launch = [e \in Elems |-> 0] /\ launch = 1
        BY Zenon DEF Init
  <2>4. \A e \in Elems : CellOf(e).release = NoClock /\ CellOf(e).readers = <<>>
        BY <2>3 DEF CellOf, ResetCell, NewCell
  <2>5. PlainInv
        BY <2>1, <2>3, <2>4, NobodyTwice, ThreadPlaced DEF PlainInv, PerThread
  <2>6. QED BY <2>2, <2>5
<1>2. QED BY <1>1, StepKeepsPlain, StepKeepsFresh, StepKeepsPlainChain, KnowHolds, PTL DEF Spec
=============================================================================
