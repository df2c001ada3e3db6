------------------------------ MODULE Detector ------------------------------
(***************************************************************************)
(* Race and initialisation checking: the access path of src/mem.rs and     *)
(* src/ctx.rs over the clocks of src/sync.rs and the cells of              *)
(* src/shadow.rs, with the barriers and full-warp collectives that move    *)
(* the epochs, over several launches.                                      *)
(*                                                                         *)
(* Threads take their steps in any order.  An access is one step: after    *)
(* its scheduling point the thread holds the turn (TurnExclusive of        *)
(* Scheduler) until its next one.  A barrier is three: the thread          *)
(* publishes its clock and parks, the last arrival releases the block, and *)
(* each thread takes the block's clock when it next gets the turn.  The    *)
(* epochs are the generations of Scheduler (BarrierLockstep and            *)
(* WarpLockstep there).                                                    *)
(*                                                                         *)
(* Beside the program's state, `ref` keeps the history and the             *)
(* happens-before relation that docs/architecture.md, chapter III,         *)
(* describes, computed without epochs or shadow cells.                     *)
(***************************************************************************)
EXTENDS Shadow

CONSTANTS
    PlainElems,       \* elements the kernel reads and writes plainly
    AtomicElems,      \* elements it uses atomics on (global memory only)
    Shared,           \* elements of a __shared__ array of block 0
    Uninit,           \* those nothing has written when the first launch starts
    Kernels,          \* what the kernels do: see KernelRecords
    MaxLaunches       \* bound: launches over the same buffers

AllOrderings == {"relaxed", "acquire", "release", "acqrel"}

\* The threads a kernel does something in, the memory operations it uses, the
\* orderings of its atomics and fences, the barriers it uses, and a bound on
\* the operations of one thread in one launch.
KernelRecords ==
    [who : SUBSET Threads, kinds : SUBSET {"read", "write", "load", "rmw"},
     orderings : SUBSET AllOrderings, fences : SUBSET AllOrderings,
     syncs : SUBSET {"threads", "warp"}, ops : Nat]

ASSUME DetectorAssumption ==
    /\ Shared \subseteq PlainElems \ AtomicElems
    /\ Uninit \subseteq PlainElems \cup AtomicElems
    /\ \A k \in Kernels : k \in KernelRecords
    /\ MaxLaunches \in Nat

\* Each element is a buffer of its own.
Elems == PlainElems \cup AtomicElems

VARIABLES
    kernel,           \* the kernel of all launches
    launch,           \* id of the running launch
    seq,              \* SyncState: operations made by each thread
    clock,            \*   what each thread has seen
    fence_release,    \*   left by a release fence
    fence_acquire,    \*   gathered for an acquire fence
    block,            \*   what each block knows
    barrier_gen,      \* epochs of the scheduler
    warp_gen,
    at,               \* where each thread is: "kernel", "barrier", "released", "warp"
    ops,              \* operations made, against kernel.ops
    cells,            \* shadow cell of each element
    cell_launch,      \* launch_id of its buffer
    races,            \* DataRace diagnostics of this launch
    uninits,          \* UninitRead diagnostics of this launch
    ref               \* auxiliary: the reference relation

syncVars == <<seq, clock, fence_release, fence_acquire, block>>
schedVars == <<barrier_gen, warp_gen, at>>
memVars == <<cells, cell_launch, races, uninits>>
vars == <<kernel, launch, syncVars, schedVars, ops, memVars, ref>>

\* The same value for every thread.
PerThread(x) == [t \in Threads |-> x]

Writes(op) == op \in {"write", "rmw"}
Atomic(op) == op \in {"load", "rmw"}

(***************************************************************************)
(* The reference.  Clocks as in the code, but a barrier hands over exactly *)
(* what the block knew when it released, and only an atomic that writes    *)
(* publishes.  Two accesses race when the threads differ, they are not     *)
(* both atomic, one writes, and nothing orders them.                       *)
(***************************************************************************)
NewRef(written) ==
    [clock |-> PerThread(NoClock), fence |-> PerThread(NoClock),
     pending |-> PerThread(NoClock), elem |-> [e \in Elems |-> NoClock],
     hist |-> [e \in Elems |-> {}], races |-> {},
     unordered |-> {}, excused |-> {}, written |-> written, unwritten |-> {}]

Access(t, n, op) ==
    [thread |-> t, epoch |-> barrier_gen[BlockOf(t)],
     warp_epoch |-> warp_gen[WarpOf(t)], seq |-> n, op |-> op]

Race(e, a, b) ==
    [elem |-> e, first |-> <<a.thread, a.seq>>, second |-> <<b.thread, b.seq>>]

ReallyRaces(a, b, now) ==
    /\ a.thread # b.thread
    /\ ~(Atomic(a.op) /\ Atomic(b.op))
    /\ Writes(a.op) \/ Writes(b.op)
    /\ now[a.thread] < a.seq
    /\ ~(WarpOf(a.thread) = WarpOf(b.thread) /\ a.warp_epoch < b.warp_epoch)

Read(e, a) == [elem |-> e, by |-> <<a.thread, a.seq>>]

\* One access, made when the code's own clock of the thread is `own`.
\* `excused` collects elements on which a race may be missed for a known cause.
\* `unordered` collects the elements on which the code's own rule finds two
\* concurrent accesses, one a write, when it is given the whole history.
RefAccess(t, e, op, ordering, acc, own, losses) ==
    LET acquired == IF Atomic(op) /\ IsAcquire(ordering)
                    THEN Join(ref.clock[t], ref.elem[e]) ELSE ref.clock[t]
        now == Observe(acquired, t, acc.seq)
        released == Join(ref.fence[t], IF IsRelease(ordering) THEN now ELSE NoClock)
    IN  [ref EXCEPT
            !.clock[t] = now,
            !.pending[t] = IF Atomic(op) /\ ~IsAcquire(ordering) THEN Join(@, ref.elem[e]) ELSE @,
            !.elem[e] = IF op = "rmw" THEN Join(@, released) ELSE @,
            !.hist[e] = @ \cup {acc},
            !.races = @ \cup {Race(e, a, acc) :
                                a \in {h \in ref.hist[e] : ReallyRaces(h, acc, now)}},
            !.unordered = IF \E a \in ref.hist[e] : /\ Concurrent(a, acc, own)
                                                    /\ Writes(a.op) \/ Writes(op)
                          THEN @ \cup {e} ELSE @,
            !.excused = @ \cup losses,
            !.written = IF Writes(op) THEN @ \cup {e} ELSE @,
            !.unwritten = IF op # "write" /\ e \notin ref.written
                          THEN @ \cup {Read(e, acc)} ELSE @]

(***************************************************************************)
(* The access path.                                                        *)
(***************************************************************************)
\* Mutants: a reset forgets that the host or an earlier launch wrote; no reset.
ResetCellForgets(e) == NewCell(FALSE)

CellUnreset(e) == cells[e]

\* `reset` on the first touch by a new launch.  Global memory keeps `init`.
ResetCell(e) == NewCell(e \notin Shared /\ cells[e].init)

CellOf(e) == IF cell_launch[e] = launch THEN cells[e] ELSE ResetCell(e)

\* Mutant: an acquire that acquires nothing.
AcquiredNothing(t, cell, op, ordering) == clock[t]

\* acquire: what a thread's clock and its pending set become.
AcquiredClock(t, cell, op, ordering) ==
    IF Atomic(op) /\ IsAcquire(ordering) THEN Join(clock[t], cell.release) ELSE clock[t]

AcquiredPending(t, cell, op, ordering) ==
    IF Atomic(op) /\ ~IsAcquire(ordering)
    THEN Join(fence_acquire[t], cell.release) ELSE fence_acquire[t]

\* release: what the element's clock becomes once the thread's is `now`.
Released(t, published, now, op, ordering) ==
    IF Atomic(op)
    THEN Join(published, Join(fence_release[t],
                              IF IsRelease(ordering) THEN now ELSE NoClock))
    ELSE published

(***************************************************************************)
(* Causes for which a race may be missed: a read that is not recorded,     *)
(* because the thread is among the readers already or MaxReaders others    *)
(* are; an access that finds in the cell one which no clock orders before  *)
(* it and which is not concurrent with it, both being atomic or a warp     *)
(* epoch between them: what is ordered before the one, and what the one    *)
(* stands for in the cell, is not before the other; a load that publishes, *)
(* as every atomic of the code does; and, in BarrierDepart, a departure    *)
(* that comes after an arrival at the next barrier.                        *)
(***************************************************************************)
Unrecorded(op, acc, recorded) ==
    op = "read" /\ \A i \in DOMAIN recorded.readers : recorded.readers[i] # acc

Compared(op, cell) ==
    {a \in {cell.last_write} : a # NoAccess}
        \cup {cell.readers[i] : i \in IF op = "read" THEN {} ELSE DOMAIN cell.readers}

Unchained(op, acc, cell, now) ==
    \E a \in Compared(op, cell) : now[a.thread] < a.seq /\ ~Concurrent(a, acc, now)

LoadPublishes(op, published, release) == op = "load" /\ release # published

Losses(e, op, acc, cell, now, recorded, release) ==
    IF LoadPublishes(op, cell.release, release) THEN Elems
    ELSE IF Unrecorded(op, acc, recorded) \/ Unchained(op, acc, cell, now)
    THEN {e} ELSE {}

CanStep(t) == t \in kernel.who /\ at[t] = "kernel" /\ ops[t] < kernel.ops

CountOp(t) == ops' = [ops EXCEPT ![t] = @ + 1]

\* checked_access, after its scheduling point and within bounds.
CheckedAccess(t, e, op, ordering) ==
    LET cell == CellOf(e)
        n == seq[t] + 1
        now == Observe(AcquiredClock(t, cell, op, ordering), t, n)
        acc == Access(t, n, op)
        conflict == IF op = "read" THEN ReadConflict(cell, acc, now)
                                   ELSE WriteConflict(cell, acc, now)
        recorded == IF op = "read" THEN OnRead(cell, acc) ELSE OnWrite(cell, acc)
        release == Released(t, cell.release, now, op, ordering)
    IN  /\ CanStep(t) /\ CountOp(t)
        /\ seq' = [seq EXCEPT ![t] = n]
        /\ clock' = [clock EXCEPT ![t] = now]
        /\ fence_acquire' = [fence_acquire EXCEPT ![t] = AcquiredPending(t, cell, op, ordering)]
        /\ cells' = [cells EXCEPT ![e] = [recorded EXCEPT !.release = release]]
        /\ cell_launch' = [cell_launch EXCEPT ![e] = launch]
        /\ races' = races \cup {Race(e, a, acc) : a \in conflict}
        /\ uninits' = IF op # "write" /\ ~cell.init THEN uninits \cup {Read(e, acc)} ELSE uninits
        /\ ref' = RefAccess(t, e, op, ordering, acc, now,
                            Losses(e, op, acc, cell, now, recorded, release))
        /\ UNCHANGED <<kernel, launch, fence_release, block, schedVars>>

GlobalAccess(t) ==
    \E e \in PlainElems \ Shared, op \in kernel.kinds \cap {"read", "write"} :
        CheckedAccess(t, e, op, "relaxed")

\* A shared array is reached only through the context of its own block.
SharedAccess(t) ==
    /\ BlockOf(t) = 0
    /\ \E e \in Shared, op \in kernel.kinds \cap {"read", "write"} :
         CheckedAccess(t, e, op, "relaxed")

AtomicLoad(t) ==
    /\ "load" \in kernel.kinds
    /\ \E e \in AtomicElems, ordering \in kernel.orderings : CheckedAccess(t, e, "load", ordering)

AtomicRmw(t) ==
    /\ "rmw" \in kernel.kinds
    /\ \E e \in AtomicElems, ordering \in kernel.orderings : CheckedAccess(t, e, "rmw", ordering)

(***************************************************************************)
(* fence                                                                   *)
(***************************************************************************)
\* Mutant: an acquire fence leaves aside what relaxed atomics gathered.
FencedNothing(t, ordering) == clock[t]

FencedClock(t, ordering) ==
    IF IsAcquire(ordering) THEN Join(clock[t], fence_acquire[t]) ELSE clock[t]

Fence(t, ordering) ==
    LET c == FencedClock(t, ordering)
        r == IF IsAcquire(ordering) THEN Join(ref.clock[t], ref.pending[t]) ELSE ref.clock[t]
    IN  /\ CanStep(t) /\ CountOp(t)
        /\ clock' = [clock EXCEPT ![t] = c]
        /\ fence_acquire' = IF IsAcquire(ordering)
                            THEN [fence_acquire EXCEPT ![t] = NoClock] ELSE fence_acquire
        /\ fence_release' = IF IsRelease(ordering)
                            THEN [fence_release EXCEPT ![t] = c] ELSE fence_release
        /\ ref' = [ref EXCEPT !.clock[t] = r,
                              !.pending[t] = IF IsAcquire(ordering) THEN NoClock ELSE @,
                              !.fence[t] = IF IsRelease(ordering) THEN r ELSE @]
        /\ UNCHANGED <<kernel, launch, seq, block, schedVars, memVars>>

(***************************************************************************)
(* sync_threads: barrier_arrive, the scheduler's barrier, barrier_depart.  *)
(***************************************************************************)
BlockKnows(b) ==
    [u \in Threads |->
        CHOOSE n \in {ref.clock[v][u] : v \in BlockThreads(b)} :
            \A v \in BlockThreads(b) : ref.clock[v][u] <= n]

SyncThreads(t) ==
    LET b == BlockOf(t)
        allHere == \A u \in BlockThreads(b) \ {t} : at[u] = "barrier"
    IN  /\ "threads" \in kernel.syncs
        /\ CanStep(t) /\ CountOp(t)
        /\ block' = [block EXCEPT ![b] = Join(@, clock[t])]
        /\ \/ /\ ~allHere
              /\ at' = [at EXCEPT ![t] = "barrier"]
              /\ UNCHANGED <<barrier_gen, ref>>
           \/ /\ allHere
              /\ at' = [u \in Threads |-> IF BlockOf(u) = b THEN "released" ELSE at[u]]
              /\ barrier_gen' = [barrier_gen EXCEPT ![b] = @ + 1]
              /\ ref' = [ref EXCEPT !.clock =
                            [u \in Threads |-> IF BlockOf(u) = b THEN BlockKnows(b) ELSE @[u]]]
        /\ UNCHANGED <<kernel, launch, seq, clock, fence_release, fence_acquire, warp_gen, memVars>>

\* Mutant: a thread leaves the barrier knowing only what it knew.
BarrierDepartAlone(t) ==
    /\ at[t] = "released"
    /\ at' = [at EXCEPT ![t] = "kernel"]
    /\ UNCHANGED <<kernel, launch, seq, clock, fence_release, fence_acquire, block,
                   barrier_gen, warp_gen, ops, memVars, ref>>

BarrierDepart(t) ==
    /\ at[t] = "released"
    /\ at' = [at EXCEPT ![t] = "kernel"]
    /\ clock' = [clock EXCEPT ![t] = Join(@, block[BlockOf(t)])]
    /\ ref' = IF \E u \in BlockThreads(BlockOf(t)) : at[u] = "barrier"
              THEN [ref EXCEPT !.excused = Elems] ELSE ref
    /\ UNCHANGED <<kernel, launch, seq, fence_release, fence_acquire, block,
                   barrier_gen, warp_gen, ops, memVars>>

(***************************************************************************)
(* A collective naming the whole warp, as far as memory is concerned.      *)
(***************************************************************************)
SyncWarp(t) ==
    LET w == WarpOf(t)
        allHere == \A u \in WarpThreads(w) \ {t} : at[u] = "warp"
    IN  /\ "warp" \in kernel.syncs
        /\ CanStep(t) /\ CountOp(t)
        /\ \/ /\ ~allHere
              /\ at' = [at EXCEPT ![t] = "warp"]
              /\ UNCHANGED warp_gen
           \/ /\ allHere
              /\ at' = [u \in Threads |-> IF WarpOf(u) = w THEN "kernel" ELSE at[u]]
              /\ warp_gen' = [warp_gen EXCEPT ![w] = @ + 1]
        /\ UNCHANGED <<kernel, launch, syncVars, barrier_gen, memVars, ref>>

(***************************************************************************)
(* A launch ends, by itself or by an abort, and the host starts another    *)
(* over the same global buffers: new scheduler, clocks, reporter and       *)
(* shared arrays.                                                          *)
(***************************************************************************)
NextLaunch ==
    /\ launch < MaxLaunches
    /\ UNCHANGED kernel
    /\ launch' = launch + 1
    /\ seq' = PerThread(0)
    /\ clock' = PerThread(NoClock)
    /\ fence_release' = PerThread(NoClock)
    /\ fence_acquire' = PerThread(NoClock)
    /\ block' = [b \in Blocks |-> NoClock]
    /\ barrier_gen' = [b \in Blocks |-> 0]
    /\ warp_gen' = [w \in Warps |-> 0]
    /\ at' = PerThread("kernel")
    /\ ops' = PerThread(0)
    /\ cells' = [e \in Elems |-> IF e \in Shared THEN NewCell(FALSE) ELSE cells[e]]
    /\ cell_launch' = [e \in Elems |-> IF e \in Shared THEN 0 ELSE cell_launch[e]]
    /\ races' = {}
    /\ uninits' = {}
    /\ ref' = NewRef(ref.written \ Shared)

Init ==
    /\ kernel \in Kernels
    /\ launch = 1
    /\ seq = PerThread(0)
    /\ clock = PerThread(NoClock)
    /\ fence_release = PerThread(NoClock)
    /\ fence_acquire = PerThread(NoClock)
    /\ block = [b \in Blocks |-> NoClock]
    /\ barrier_gen = [b \in Blocks |-> 0]
    /\ warp_gen = [w \in Warps |-> 0]
    /\ at = PerThread("kernel")
    /\ ops = PerThread(0)
    /\ cells = [e \in Elems |-> NewCell(e \notin Uninit \cup Shared)]
    /\ cell_launch = [e \in Elems |-> 0]
    /\ races = {}
    /\ uninits = {}
    /\ ref = NewRef(Elems \ (Uninit \cup Shared))

Next ==
    \/ \E t \in Threads :
         \/ GlobalAccess(t)
         \/ SharedAccess(t)
         \/ AtomicLoad(t)
         \/ AtomicRmw(t)
         \/ \E ordering \in kernel.fences : Fence(t, ordering)
         \/ SyncThreads(t)
         \/ BarrierDepart(t)
         \/ SyncWarp(t)
    \/ NextLaunch

Spec == Init /\ [][Next]_vars

(***************************************************************************)
(* Properties.                                                             *)
(***************************************************************************)
ElemsOf(rs) == {r.elem : r \in rs}

\* The types of the clocks, epochs and cells.
DetectorTypeOK ==
    /\ kernel \in Kernels
    /\ launch \in 1 .. Later(1, MaxLaunches)
    /\ seq \in [Threads -> Nat]
    /\ clock \in [Threads -> [Threads -> Nat]]
    /\ fence_release \in [Threads -> [Threads -> Nat]]
    /\ fence_acquire \in [Threads -> [Threads -> Nat]]
    /\ block \in [Blocks -> [Threads -> Nat]]
    /\ barrier_gen \in [Blocks -> Nat]
    /\ warp_gen \in [Warps -> Nat]
    /\ at \in [Threads -> {"kernel", "barrier", "released", "warp"}]
    /\ ops \in [Threads -> Nat]
    /\ \A e \in Elems : cells[e].init \in BOOLEAN /\ Len(cells[e].readers) <= MaxReaders
    /\ cell_launch \in [Elems -> 0 .. Later(1, MaxLaunches)]
    /\ uninits \subseteq [elem : Elems, by : Threads \X Nat]

\* Every reported race is one: the two accesses are of the reported element,
\* one of them writes, and neither happens before the other.
ReportsAreRaces == races \subseteq ref.races

\* Every element on which two accesses race is reported, whatever the order in
\* which the threads ran.
RacesFound == ElemsOf(ref.races) \subseteq ElemsOf(races)

\* A race is missed only for one of the known causes: a read that found its
\* thread recorded already or the list of readers full, an order between two
\* atomics or across a warp epoch that the clocks do not carry on, a load that
\* published, or a barrier left after a block-mate had reached the next one.
MissesExplained == ElemsOf(ref.races) \subseteq ElemsOf(races) \cup ref.excused

\* The last write and the readers of the epoch stand for the whole history: an
\* element on which the code's own rule would find two concurrent accesses,
\* were it given all of them, is reported.
CellsSuffice == ref.unordered \subseteq ElemsOf(races)

\* The clocks lose nothing: outside a barrier a thread's clock covers all that
\* happens before its next access.
ClocksCoverOrder ==
    \A t, u \in Threads : at[t] # "released" => ref.clock[t][u] <= clock[t][u]

\* A read of an element that nothing has written, in this launch or (for
\* global memory) an earlier one, is reported, and no other read is.
UninitExact == uninits = ref.unwritten
=============================================================================
