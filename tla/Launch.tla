------------------------------- MODULE Launch -------------------------------
(***************************************************************************)
(* A launch from start to report: `run_shared` and `run_thread` of         *)
(* src/launch.rs, which run the grid in waves of resident blocks, with the *)
(* barrier and access paths of src/ctx.rs and src/mem.rs seen across       *)
(* waves, and the reporter of src/diag.rs.                                 *)
(*                                                                         *)
(* Each thread has two numbers.  Its slot is its index in the wave, and    *)
(* all that the wave's scheduler (status, barrier_gen, barrier_loc) knows; *)
(* its gid is its number in the grid, an element of Threads, and what the  *)
(* clocks and accesses use.  Threads of a wave take their steps in any     *)
(* order; a barrier and an access are as in Detector.                      *)
(***************************************************************************)
EXTENDS Shadow, FiniteSets

CONSTANTS
    Elems,            \* elements of global memory
    Fresh,            \* those nothing has written before the launch
    Locs,             \* source locations
    Kernels,          \* each a set of sites: an operation and its location
    Residents,        \* values of resident_blocks
    MaxDiags,         \* MAX_DIAGNOSTICS
    MaxOps            \* bound: accesses, collectives and barriers of a launch

Sites == [op : {"read", "write", "barrier", "shfl", "shfl_up", "oob", "panic"}, at : Locs]

ASSUME LaunchAssumption ==
    /\ Fresh \subseteq Elems
    /\ \A k \in Kernels : k \subseteq Sites
    /\ Residents \subseteq Nat \ {0}
    /\ MaxDiags \in Nat \ {0}
    /\ MaxOps \in Nat

VARIABLES
    kernel,           \* the kernel of the launch
    resident,         \* blocks of a wave, after the clamp
    first_block,      \* of this wave
    status,           \* scheduler of this wave: by slot
    barrier_gen,      \*   by block of the wave
    barrier_loc,
    seq, clock, block,\* SyncState: by gid, and by block of the grid
    cells,            \* shadow cells
    list,             \* Reporter: the diagnostics kept
    keys,             \*   and the keys of their de-duplication
    aborted, over,    \* the launch aborted; the report is made
    ops,              \* against MaxOps
    hist, pushed,     \* auxiliary: all accesses and all diagnostics made,
    started, returned \* how often each thread started, and who returned

sched == <<status, barrier_gen, barrier_loc>>
sync == <<seq, clock, block>>
reporter == <<list, keys>>
past == <<hist, pushed, started, returned>>
vars == <<kernel, resident, first_block, sched, sync, cells, reporter, aborted, over, ops, past>>

NoLoc == "none"

(***************************************************************************)
(* Numbering.                                                              *)
(***************************************************************************)
\* resident_blocks, no more than the grid has.
Clamp(r) == IF r < NumBlocks THEN r ELSE NumBlocks

WaveBlocks(first) == IF resident < NumBlocks - first THEN resident ELSE NumBlocks - first

SlotsOf(first) == 0 .. WaveBlocks(first) * ThreadsPerBlock - 1
Slots == SlotsOf(first_block)

\* block and thread of run_thread, packed; wave_block; the slots of its block.
Gid(s) == first_block * ThreadsPerBlock + s
WaveBlock(s) == s \div ThreadsPerBlock
BlockSlots(s) == {r \in Slots : WaveBlock(r) = WaveBlock(s)}

\* Mutant: clocks are kept by slot.
ClockIndexSlot(s) == s

ClockIndex(s) == Gid(s)

(***************************************************************************)
(* Diagnostics and the reporter.  `at` is the location or, for a race, the *)
(* two, in either order; `what` the message of a panic and the source lane *)
(* of a shuffle that its mask leaves out.                                  *)
(***************************************************************************)
Diag(kind, b, at, op, what) == [kind |-> kind, block |-> b, at |-> at, op |-> op, what |-> what]

\* Mutant: one race is like another, wherever it is.
DedupKeyAnywhere(d) == [d EXCEPT !.op = "", !.block = IF d.kind = "barrier" THEN d.block ELSE 0,
                                 !.at = IF d.kind = "race" THEN {} ELSE d.at]

DedupKey(d) == [d EXCEPT !.op = "", !.block = IF d.kind = "barrier" THEN d.block ELSE 0]

Fingerprint(d) == [d EXCEPT !.block = 0, !.what = IF d.kind = "panic" THEN d.what ELSE 0]

\* Mutant: a diagnostic too many.
PushOnePast(r, d) ==
    IF Len(r.list) <= MaxDiags /\ DedupKey(d) \notin r.keys
    THEN [list |-> Append(r.list, d), keys |-> r.keys \cup {DedupKey(d)}] ELSE r

PushOne(r, d) ==
    IF Len(r.list) < MaxDiags /\ DedupKey(d) \notin r.keys
    THEN [list |-> Append(r.list, d), keys |-> r.keys \cup {DedupKey(d)}] ELSE r

\* Pushes of one step, in order.
Push(ds) ==
    LET kept[i \in 0 .. Len(ds)] ==
            IF i = 0 THEN [list |-> list, keys |-> keys] ELSE PushOne(kept[i - 1], ds[i])
    IN  /\ list' = kept[Len(ds)].list
        /\ keys' = kept[Len(ds)].keys
        /\ pushed' = pushed \cup {ds[i] : i \in DOMAIN ds}

(***************************************************************************)
(* What a thread does.                                                     *)
(***************************************************************************)
Running(s) == ~aborted /\ status[s] = "runnable"

\* The thread in slot s is at a site of its kernel.
CanStep(s, op, at) ==
    /\ Running(s)
    /\ [op |-> op, at |-> at] \in kernel
    /\ ops < MaxOps
    /\ ops' = ops + 1

Access(s, e, op, at) ==
    LET t == ClockIndex(s)
        n == seq[t] + 1
        now == Observe(clock[t], Gid(s), n)
        acc == [thread |-> Gid(s), epoch |-> barrier_gen[WaveBlock(s)], warp_epoch |-> 0,
                seq |-> n, op |-> op, at |-> at]
        cell == cells[e]
        conflict == IF op = "read" THEN ReadConflict(cell, acc, now)
                                   ELSE WriteConflict(cell, acc, now)
        uninit == IF op = "read" /\ ~cell.init
                  THEN <<Diag("uninit", BlockOf(Gid(s)), {at}, "", 0)>> ELSE <<>>
        race == IF conflict = {} THEN <<>>
                ELSE LET a == CHOOSE a \in conflict : TRUE
                     IN  <<Diag("race", BlockOf(Gid(s)), {a.at, at}, "", 0)>>
    IN  /\ CanStep(s, op, at)
        /\ seq' = [seq EXCEPT ![t] = n]
        /\ clock' = [clock EXCEPT ![t] = now]
        /\ cells' = [cells EXCEPT ![e] = IF op = "read" THEN OnRead(cell, acc)
                                                        ELSE OnWrite(cell, acc)]
        /\ Push(uninit \o race)
        /\ hist' = hist \cup {[thread |-> Gid(s), elem |-> e, op |-> op]}
        /\ UNCHANGED <<kernel, resident, first_block, sched, block, aborted, over, started, returned>>

\* A shuffle whose mask names the calling lane only, from another lane: it is
\* released at once, reports, and goes on.
ShuffleOutside(s, op, at, src) ==
    /\ CanStep(s, op, at)
    /\ src # LaneOf(Gid(s))
    /\ Push(<<Diag("lane", BlockOf(Gid(s)), {at}, op, src)>>)
    /\ UNCHANGED <<kernel, resident, first_block, sched, sync, cells, aborted, over, hist,
                   started, returned>>

Fail(d) == Push(<<d>>) /\ aborted' = TRUE

\* Out of bounds, which traps, or a panic of the kernel.  (The operation that is
\* counted for the report of an aborted launch is read by nobody.)
Crash(s, op, at) ==
    /\ CanStep(s, op, at)
    /\ Fail(IF op = "panic" THEN Diag("panic", BlockOf(Gid(s)), {}, "", 1)
            ELSE Diag("oob", BlockOf(Gid(s)), {at}, "", 0))
    /\ UNCHANGED <<kernel, resident, first_block, sched, sync, cells, over, hist,
                   started, returned>>

Divergence(s, at) == Diag("barrier", WaveBlock(s), {at}, "", 0)

SyncThreads(s, at) ==
    LET b == WaveBlock(s)
        mates == BlockSlots(s) \ {s}
        loc == IF barrier_loc[b] = NoLoc THEN at ELSE barrier_loc[b]
    IN  /\ CanStep(s, "barrier", at)
        /\ block' = [block EXCEPT ![BlockOf(Gid(s))] = Join(@, clock[ClockIndex(s)])]
        /\ \/ /\ \E r \in mates : status[r] = "finished"
              /\ status' = [status EXCEPT ![s] = "barrier"]
              /\ barrier_loc' = [barrier_loc EXCEPT ![b] = loc]
              /\ Fail(Divergence(s, loc))
              /\ UNCHANGED barrier_gen
           \/ /\ \A r \in mates : status[r] = "barrier"
              /\ status' = [r \in Slots |-> IF r \in mates \cup {s} THEN "released" ELSE status[r]]
              /\ barrier_gen' = [barrier_gen EXCEPT ![b] = @ + 1]
              /\ barrier_loc' = [barrier_loc EXCEPT ![b] = NoLoc]
              /\ UNCHANGED <<reporter, aborted, pushed>>
           \/ /\ \A r \in mates : status[r] # "finished"
              /\ \E r \in mates : status[r] # "barrier"
              /\ status' = [status EXCEPT ![s] = "barrier"]
              /\ barrier_loc' = [barrier_loc EXCEPT ![b] = loc]
              /\ UNCHANGED <<barrier_gen, reporter, aborted, pushed>>
        /\ UNCHANGED <<kernel, resident, first_block, seq, clock, cells, over, hist, started, returned>>

BarrierDepart(s) ==
    LET t == ClockIndex(s) IN
    /\ ~aborted
    /\ status[s] = "released"
    /\ status' = [status EXCEPT ![s] = "runnable"]
    /\ clock' = [clock EXCEPT ![t] = Join(@, block[BlockOf(Gid(s))])]
    /\ UNCHANGED <<kernel, resident, first_block, barrier_gen, barrier_loc, seq, block, cells,
                   reporter, aborted, over, ops, past>>

\* `finish`: block-mates at the barrier will never be released.
Finish(s) ==
    /\ Running(s)
    /\ status' = [status EXCEPT ![s] = "finished"]
    /\ IF \E r \in BlockSlots(s) : status[r] = "barrier"
       THEN Fail(Divergence(s, barrier_loc[WaveBlock(s)]))
       ELSE UNCHANGED <<reporter, aborted, pushed>>
    /\ returned' = returned \cup {Gid(s)}
    /\ UNCHANGED <<kernel, resident, first_block, barrier_gen, barrier_loc, sync, cells, over, ops,
                   hist, started>>

(***************************************************************************)
(* The loop over the waves.                                                *)
(***************************************************************************)
\* Mutant: the wave behind an aborted one runs.
StopsUnlessLast(next) == next >= NumBlocks

Stops(next) == aborted \/ next >= NumBlocks

\* Every thread of the wave has been joined.
EndWave ==
    LET next == first_block + WaveBlocks(first_block) IN
    /\ ~over
    /\ aborted \/ \A s \in Slots : status[s] = "finished"
    /\ IF Stops(next)
       THEN over' = TRUE /\ UNCHANGED <<first_block, sched, started>>
       ELSE /\ first_block' = next
            /\ status' = [s \in SlotsOf(next) |-> "runnable"]
            /\ barrier_gen' = [b \in 0 .. WaveBlocks(next) - 1 |-> 0]
            /\ barrier_loc' = [b \in 0 .. WaveBlocks(next) - 1 |-> NoLoc]
            /\ started' = [t \in DOMAIN started |->
                              IF t - next * ThreadsPerBlock \in SlotsOf(next)
                              THEN started[t] + 1 ELSE started[t]]
            /\ UNCHANGED over
    /\ UNCHANGED <<kernel, resident, sync, cells, reporter, aborted, ops, hist, pushed, returned>>

Init ==
    /\ kernel \in Kernels
    /\ resident \in {Clamp(r) : r \in Residents}
    /\ first_block = 0
    /\ status = [s \in 0 .. resident * ThreadsPerBlock - 1 |-> "runnable"]
    /\ barrier_gen = [b \in 0 .. resident - 1 |-> 0]
    /\ barrier_loc = [b \in 0 .. resident - 1 |-> NoLoc]
    /\ seq = [t \in Threads |-> 0]
    /\ clock = [t \in Threads |-> NoClock]
    /\ block = [b \in Blocks |-> NoClock]
    /\ cells = [e \in Elems |-> NewCell(e \notin Fresh)]
    /\ list = <<>> /\ keys = {}
    /\ aborted = FALSE /\ over = FALSE
    /\ ops = 0
    /\ hist = {} /\ pushed = {}
    /\ started = [t \in Threads |-> IF t < resident * ThreadsPerBlock THEN 1 ELSE 0]
    /\ returned = {}

Next ==
    \/ \E s \in Slots :
         \/ \E at \in Locs :
              \/ \E e \in Elems, op \in {"read", "write"} : Access(s, e, op, at)
              \/ \E op \in {"shfl", "shfl_up"}, src \in 0 .. WarpSize - 1 :
                    ShuffleOutside(s, op, at, src)
              \/ SyncThreads(s, at)
              \/ \E op \in {"oob", "panic"} : Crash(s, op, at)
         \/ BarrierDepart(s)
         \/ Finish(s)
    \/ EndWave
    \/ over /\ UNCHANGED vars

Spec == Init /\ [][Next]_vars

(***************************************************************************)
(* Properties.                                                             *)
(***************************************************************************)
\* Slots and blocks of the wave are those of the grid that is left.
LaunchTypeOK ==
    /\ resident \in 1 .. NumBlocks
    /\ first_block \in Blocks
    /\ status \in [Slots -> {"runnable", "barrier", "released", "finished"}]
    /\ barrier_gen \in [0 .. WaveBlocks(first_block) - 1 -> Nat]
    /\ barrier_loc \in [0 .. WaveBlocks(first_block) - 1 -> Locs \cup {NoLoc}]
    /\ seq \in [Threads -> Nat]
    /\ clock \in [Threads -> [Threads -> Nat]]
    /\ block \in [Blocks -> [Threads -> Nat]]
    /\ Len(list) <= MaxDiags /\ Cardinality(keys) = Len(list)
    /\ aborted \in BOOLEAN /\ over \in BOOLEAN

WaveOf(t) == BlockOf(t) \div resident

\* Every thread of the grid runs once, in its wave: none starts before every
\* thread of the waves before has returned, and a launch that does not abort
\* ends when all have, also when the last wave is short.
GridCovered ==
    /\ \A t \in Threads : started[t] <= 1
    /\ \A t, u \in Threads : started[t] = 1 /\ WaveOf(u) < WaveOf(t) => u \in returned
    /\ over /\ ~aborted => returned = Threads

Full == Len(list) = MaxDiags

\* "A race between waves is reported exactly as one within a wave is": two
\* accesses of an element from different blocks, one of them a write, leave a
\* race in the report, whichever waves the blocks ran in.
WavesHideNoRace ==
    \A a, b \in hist :
        /\ a.elem = b.elem
        /\ BlockOf(a.thread) # BlockOf(b.thread)
        /\ "write" \in {a.op, b.op}
        => Full \/ \E i \in DOMAIN list : list[i].kind = "race"

\* What is found is reported: a diagnostic that is not kept has the fingerprint
\* of one that is, unless the list is full or two collectives at one location
\* differ in their operation only, which the key leaves out.
FingerprintsKept ==
    \A d \in pushed :
        \/ Full
        \/ \E i \in DOMAIN list :
              \/ Fingerprint(list[i]) = Fingerprint(d)
              \/ d.kind = "lane" /\ [Fingerprint(list[i]) EXCEPT !.op = d.op] = Fingerprint(d)

\* A barrier divergence names the block whose threads are at the barrier.
DivergenceNamesBlock ==
    \A i \in DOMAIN list :
        list[i].kind = "barrier" =>
            \E s \in Slots : status[s] = "barrier" /\ BlockOf(Gid(s)) = list[i].block
=============================================================================
