# Riri in TLA+

Riri runs a GPU kernel on the CPU, one OS thread per simulated GPU thread, under a
scheduler that decides who runs, and reports data races, divergence and uninitialised
reads. This directory specifies the parts of it that are hard to test, model-checks them
with TLC on small launches, and proves with TLAPS, for launches of any size, what the
scheduler, the detector, the launch loop, the guards, the exploration and the replay promise.

Source paths below are relative to the repository.

## 1. Inventory

| Component | State | Operations | Talks to | What is hard |
|---|---|---|---|---|
| Turn scheduler, `src/sched.rs` | `State`: turn, status of each thread, barrier and warp generations, waits, choices, trace, abort flag; one condition variable per thread | `new`, `wait_turn`, `yield_now`, `barrier`, `warp_rendezvous`, `finish`, `abort`, `take_trace` | called by every simulated thread; pushes diagnostics | wakeups, wedges, blame, who parks first |
| Simulated threads, `src/launch.rs` | OS threads | `run_thread`: first turn, kernel, return, panic, unwind | scheduler, reporter | one thread's failure while the others are parked |
| Launch and waves, `src/launch.rs` | launch id, shared clocks, shared arrays, exchange slots | `launch`, `run`, `run_shared` | creates a scheduler per wave | slot against global id; the last wave; several launches over one buffer |
| Warp collectives, `src/warp.rs` | exchange slots of a warp | `collective` and the shuffles and votes on it | two rendezvous of the scheduler | a slot reused before it is read; partial masks; source lanes |
| Vector clocks, `src/sync.rs` | `SyncState`: counter, clock, two fence clocks per thread, clock per block | `tick`, `acquire`, `release`, `fence`, `barrier_arrive`, `barrier_depart` | called by the access path and the barrier | clocks read later than they were completed |
| Shadow cells, `src/shadow.rs` | last write, readers, release clock, init flag of an element | `on_read`, `on_write`, `concurrent` | access path | a bounded summary of an unbounded history |
| Instrumented memory, `src/mem.rs`, `src/ctx.rs` | data and cells of a buffer under a mutex, its launch id | `read`, `write`, atomics, fences, `sync_threads`, `elem_mut`, `len`, `to_vec`, `reset` | all of the above | order of acquire, check and release; lazy reset; a mutex held or poisoned |
| Exploration, `src/explore.rs` | seed, trace, budget, bisection bounds, plan | `search`, `shrink`, `replay` | launches | bounds, spent budgets, determinism |
| Diagnostics, `src/diag.rs` | de-duplicated list of at most 64 | `push`, `take`, `fingerprint` | everyone | keys against fingerprints; the cap |
| cuda-oxide surface, `src/oxide.rs` | thread-local context | context-free versions of the above, guards of elements | launch, memory | a guard held across a scheduling point |
| MIR interpreter, `riri-mir/` | locals of a body, block, steps | evaluation of MIR | nothing | overflow at every width; bodies that do not end |

What makes each part correct, in the names of the definitions that say so:

* the scheduler and its threads: only the holder of the turn runs (`TurnExclusive`), the
  holder is never asleep (`NoLostWakeup`), a live launch has one (`SomeoneHasTurn`), every
  launch ends (`LaunchEnds`), a stopped one says why (`AbortHasDiagnostic`), blames who is
  really missing (`BarrierBlameSound`, `WarpBlameSound`), and silence means that everything
  ran (`CleanLaunch`); all that kernels rely on is `Turns` (`ImplementsTurns`);
* collectives: a lane reads what its mates passed to this call (`ExchangeSound`), and a
  wrong result never comes without a report (`WarpAnswersOrReports`);
* epochs: they count what a thread has passed (`BarrierLockstep`, `WarpLockstep`);
* clocks and cells: no false report (`ReportsAreRaces`), missed ones only for known causes
  (`MissesExplained`), the bounded cell loses nothing the code's own rule needs
  (`CellsSuffice`), clocks carry all order there is (`ClocksCoverOrder`), reads before
  writes are found exactly (`UninitExact`);
* launches: every thread runs once, in its wave (`GridCovered`), waves hide no race
  (`WavesHideNoRace`), the reporter loses no kind of finding (`FingerprintsKept`);
* guards: they hang a launch only when kept too long (`HangNeedsOverlap`), poison a buffer
  only when a kernel panics or keeps one (`PoisonContained`); an element read before it is
  written is noticed, but for the listed reasons (`UnwrittenNoticed`);
* exploration: what is handed to the user reproduces (`MinimisedReproduces`), is never
  worse than what was found (`NeverWorse`), its prefix cannot be shortened (`PrefixTight`),
  a kernel is blamed for nondeterminism only on the evidence of a replay of its whole record,
  unless there was no budget for one (`BlameBacked`), the search returns (`SearchEnds`), and a replay repeats the launch (`ReplayFollowsTrace`,
  `ReplayReproduces`);
* the interpreter: arithmetic is that of the integers modulo the width, overflow is seen
  (`ArithmeticExact`), every body is answered (`InterpreterAnswers`).

`PROJECT.json` lists the hazards of this code with the line at which each bites and the
properties that would catch it.

## 2. Modules

| Module | Models | Extends |
|---|---|---|
| `Geometry` | numbering of threads, blocks, warps and lanes | |
| `Turns` | what the scheduler promises to kernels, without its machinery | `Geometry` |
| `Scheduler` | scheduler, simulated threads, two-phase collective; instantiates `Turns` | `Geometry` |
| `SchedulerProofs`, `BlameProofs` | theorems about `Scheduler`, the second module resting on the first: types, turn, epochs and the refinement of `Turns`; reports, clean launches and exchanges | `Scheduler` |
| `Replay`, `ReplayProofs` | a launch, then a launch replaying its trace or its plan | `Scheduler` |
| `Shadow` | clocks and cells as pure operators | `Geometry` |
| `ShadowProofs` | lemmas about clocks and cells, shared by the two modules below that prove | `Shadow` |
| `Detector`, `DetectorProofs` | access path, fences, barriers, full-warp collectives, several launches; a reference relation beside it | `Shadow` |
| `Launch`, `LaunchProofs` | a launch in waves: slots and global ids, accesses and barriers across waves, the reporter | `Shadow` |
| `Guard`, `GuardProofs` | element guards and the mutex of a buffer, over several launches of a host | |
| `WarpOps` | source lanes, results and reports of the collectives, in the loops kernels make of them | |
| `Mir` | the MIR interpreter | |
| `Explore`, `ExploreProofs` | search and shrink | |
| `MCScheduler`, `MCReplay`, `MCDetector`, `MCLaunch`, `MCExplore`, `MCAlgorithms` | constants for TLC; the last runs `Mir` and `WarpOps` | |

Operators under a comment that begins with `Mutant` are deliberately wrong variants of the
definition after them and are used by nothing. `PROJECT.json` pairs each property with one
of them that breaks it.

### How the modules fit together

`Scheduler` has the machinery and no memory; the other models have memory and take from the
scheduler only what it promises. `Turns` is that promise as a specification: threads are in
kernel code one at a time, a thread is back from a barrier only when its whole block has
called it, and nobody comes back after returning or after an abort. `Scheduler` is shown to
implement it (`ImplementsTurns`, model-checked and proved): `inside` is who is running,
`arrived` the barriers called, `done` the finished threads, `stopped` the abort flag, and
every step of the mutex, the condition variables and the wakeups is a step of `Turns` or
none. The other modules then take an access as one step (the thread is inside until its
next scheduling point), a barrier as an arrival and, once all have come, a departure of
each thread in any order, and a full-warp collective as one step of its lanes
(`ExchangeSound`). Their epochs are counts of what a thread has passed, which is
`BarrierLockstep` and `WarpLockstep`.

`Launch` composes the access path with the waves and the reporter: one set of clocks, cells
and diagnostics over a sequence of schedulers. `Replay` composes two launches of
`Scheduler` through a schedule, and is what `Explore` assumes of a deterministic kernel.

### Scheduler

A call into the scheduler holds its mutex from `lock` to the return or to the wait on the
condition variable, so each call is one action: `YieldNow`, `Barrier`, `Arrive` and `Depart`
(the two calls of `warp_rendezvous`), `Finish`, `Abort`. `HandOffAndWait` is the common
tail. `os` is what the OS thread does: `starting` (spawned, not yet at `wait_turn`),
`parked` on its condition variable, `woken` (notified or spuriously, not yet holding the
mutex), `running` kernel code, `gone`. `Resume` is one turn of the loops in `wait_turn` and
`hand_off_and_wait`. A notification moves only a parked thread, so a lost wakeup is
possible in the model if the code allows one. The random generator is any choice among the
runnable threads; `Choices::Replay` is followed exactly.

The kernel is arbitrary: a running thread makes any call next. A mask is a set of lanes, a
source location and the name of a collective are model values, and one location may call
several collectives, as a `#[track_caller]` helper does. The value a lane publishes is the
number of its call, which tells it apart from the values of its other calls.
`barriersCalled` and `departsCalled` are auxiliary counters.

### Detector

`CheckedAccess` is `checked_access` after its scheduling point: lazy reset, acquire, tick,
`on_read` or `on_write`, release, reports. A barrier is two actions of each thread because
the clock is published before parking and taken on only when the thread next gets the turn.
Fences have no scheduling point of their own; letting other threads run between an access
and the fence after it changes nothing, since a fence touches only its own thread's clocks.

`ref` is the reference: the happens-before relation of `docs/architecture.md`, chapter III,
computed from the complete history, in which a barrier hands over what the block knew at
the moment of release and only an atomic that writes publishes. The operations are `read`,
`write`, `rmw` (any atomic that writes) and `load` (`atomic_load`). For the code the last
two are the same access kind; the reference tells them apart. `ref.excused` collects the
elements on which a race may be missed, each time the code does one of the five things that
lose one (section 4; `Losses` and `BarrierDepart`), so that `MissesExplained` says there is
no sixth.

### Launch

A thread has a slot, which is all that the scheduler of its wave knows, and a global id,
which the clocks use. `EndWave` is the end of an iteration of the loop in `run_shared`: it
makes the next scheduler or the report. A diagnostic is a record of its kind, block,
locations, operation and message; `DedupKey` and `Fingerprint` are what `push` and
`fingerprint` make of it. The access path is `Shadow`'s with locations, and the threads of a
wave run in any order.

### Guard

`elem_mut` returns a guard that keeps the buffer's mutex, and the mutex is the one thing a
thread can wait for while it has the turn. A thread that waits for it takes no step, so a
hang is a behaviour that stops. `Drop` is what unwinding does to the guards of a thread:
they are released and their buffers poisoned. `found` pairs the launch that poisoned a
buffer with the one that met it. `written` is what was really assigned, `init` what the
shadow cell says. `Atomic` has a flag for whether it stores: a load, an exchange that fails
and a minimum or maximum that keeps the value do not, and go the same way through
`on_write`. `PanickingUpdate` is an atomic whose update panics after it has read the element,
and before the read is reported. The cap on diagnostics is left to `Launch`.

### Mir and WarpOps

An action of `Mir` is one turn of the loop in `execute`: count, find the block, run its
statements, follow its terminator. A word has `WordBits` bits for 128, and every operation
is computed in words as the code does. The reference (`MeansBinary`) is arithmetic on the
integers. Bodies are records; `MCAlgorithms` has one for every operation and pair of values, casts,
negations, the loop of `riri-mir/fixtures/interp.rs`, and one for each way to fail.
`WarpOps` runs a loop round by round: a reduction with `shfl_down`, a butterfly with
`shfl_xor`, a scan with `shfl_up`, and a broadcast from the first lane of a ballot, with
every mask.

### Explore and Replay

`Explore` follows `search` and `shrink` statement by statement. A run of the kernel is an
answer, yes or no, free except that a deterministic kernel gives the same answer to the
same plan. `Replay` shows that a kernel which is a function of its schedule is one: it
records a launch of `Scheduler`, keeps the calls each thread made, and runs the same calls
again under `Choices::Replay`, with the OS threads reaching the mutex in any order and
woken for no reason at any time. The plan of the second launch is the trace of the first,
unless that was cut short, or the plan that the first was itself given (`Schedules`): the
one is what `shrink` starts with, the other what `replay` gets. Such a plan need not fit:
`pick_next` departs from it where it names a thread that cannot run, and when it ends. The
calls that are recorded carry no values, so the one step of `Scheduler` that depends on
values, a panic of `combine` (`CombinePanics`), is not part of `Replay`.

## 3. Runs

| Run | Shows | Bounds |
|---|---|---|
| `scheduler_block` | turn, lockstep, blame, clean launches, that a launch ends, and that `Scheduler` implements `Turns` | 1 block of 3 threads, warps of 2 (so one is short), 1 location, 2 calls per thread |
| `replay` | a replay repeats the launch, also from a stale plan and beyond the trace limit; an abort is explained | 1 warp of 2, 2 collectives at 1 location, 2 calls per thread, trace limit 11 (the longest launches exceed it) |
| `detector_block` | no false and no forgotten races, exact initialisation, nothing carried over to the next launch | 2 threads in 2 warps, a global and a shared element, barriers, 2 launches, 3 operations each |
| `detector_grid` | no false report, and a missed race has a known cause | 2 blocks of 2, an element and a flag, readers limited to 1; five kernels: handoff (all orderings and fences), polling, barriers and collectives with release and acquire, many readers, a collective whose order an atomic hands on; 2 or 3 operations each |
| `explore_shrink` | the shrunk schedule reproduces; search returns | traces of up to 5 decisions of 3 threads, budgets 0, 1, 3, 12; whole and truncated records |
| `launch` | waves cover the grid and hide no race; the reporter keeps what it can | 3 blocks of 2, `resident_blocks` 1, 2 and 5, 2 locations, 3 operations in all, list limited to 2 |
| `guard` | what guards can hang and poison, and what guards and atomics can hide | 2 threads, 2 buffers (one never written), 2 operations each, 2 launches |
| `algorithms` | arithmetic, the interpreter and the collectives' results | words of 8 bits, kinds of 2 and 4 (all values) and 8 (extremes), step limit 23; 4 lanes, every mask, values 0, 1, 3 |

The four remaining runs are those of section 4.

Why these are enough: two calls per thread reach every way in which a thread may be parked
when another parks, exits, traps or panics, and let a lane enter the next collective while
its mate is still in the first. Three operations are
what a handoff takes on each side (access, fence, flag). Three operations around barriers
let a thread access, pass the barrier and arrive at the next one before its block-mate
has left the first. Three blocks in waves of two leave a short last wave; three operations
in a launch let each of two waves make an access with a barrier or a fault between them, and
fill a list of two. Two operations with guards are what a hang takes (keep one, ask for
another), and two launches what poison takes to be met. Five decisions make the doubling
loop take three steps and the bisection two. The step limit of 23 is what the loop of five
rounds takes exactly.

One branch needs more than these bounds: `finish` finds a wedge only if the last thread that
can run belongs to another block or warp than lanes that wait for one another at different
places. It is an action of the model, and the theorems of section 5 about the turn, aborts
and `NobodyIsLeftBehind` cover it for every launch.

`MaxTrace` is 0 in the runs that do not look at the trace, which keeps it out of the state.
`MaxReaders` is 1 in `detector_grid`, so that the loss happens, and above the possible
readers elsewhere. The detector runs do not check deadlock: their threads simply stop at
their bound, also inside a barrier the others never reach, which is the scheduler's
business. Neither does `guard`, where a thread may wait for a mutex for ever, or
`algorithms`, whose programs end.

Fairness: `LaunchEnds` assumes weak fairness of each thread's steps, that is, that the
operating system runs every thread that can run and that a mutex is eventually handed over.
Spurious wakeups are not assumed to happen. A thread that never returns from the kernel is
outside the property: `MaxOps` makes every thread return. `HangNeedsOverlap` assumes only
that something happens as long as something can, since one thread has the turn.
`SearchEnds` and `InterpreterAnswers` assume that a sequential program goes on, each run of
the search ending by `LaunchEnds`.

## 4. Disagreements between the code and what it says

Each of these is a run in which TLC finds a counterexample; the quotes are in
`PROJECT.json`.

* `detector_late_depart`: a thread that leaves a barrier late takes on what a block-mate
  contributed on arriving at the *next* barrier, so a race in between is missed, depending
  on the schedule.
* `detector_atomic_hides`: an atomic erases the plain accesses recorded before it, including
  the thread's own, which later atomics race with.
* `scheduler_mismatch`: a mask mismatch is found only if the lane with the larger mask
  parks first.
* `launch_wave_blame`: a barrier divergence in a wave after the first names a block of the
  first, since the scheduler knows only the number within the wave.

More follow from the code and are part of what the passing runs state:

* A race may be missed for five causes, and `MissesExplained` says there is no sixth. Two are
  reads that are not recorded: a second one in the same barrier epoch, even after a full-warp
  collective or an acquire, and one beyond `MAX_READERS` (declared in the code). The third
  is an access that finds in the cell one that no clock orders before it and that is not
  concurrent with it either: both are atomic, as in `detector_atomic_hides`, or a warp epoch
  is between them. It takes the other's place in the cell, but who learns of it by a clock
  does not learn of what the other stood for. The fourth is an atomic load, recorded as a
  write: after a release fence it publishes, which may order more than it should. The last
  is the late departure of the run above.
* For the same reason a plain read and an atomic load of one element are reported as a race
  though neither writes, and an atomic load marks its element as written. The theorems about
  false reports and uninitialised reads of `Detector` name these two as hypotheses (section 5).
* "Reading an element before some thread has written it is reported", says the comment on
  `uninit`. Three things depart from it, and `UnwrittenNoticed` says that there is no fourth. An
  atomic that stores nothing is reported itself, but silences the plain reads after it. An
  atomic whose update panics has read the element and is not reported; it poisons the buffer.
  And a guard counts as a write when it is given out: a read through it, or after it, of an
  element nobody assigned is not reported.
* `arrived_mask` compares phase and location but not the collective: of two collectives
  called from one place a divergence may list every lane of the mask as arrived
  (`WarpBlameSound` therefore asks for `PlaceNamesOp`).
* A guard kept across another access, or `len` of the slice it came from, hangs the launch
  and not only one kept across a barrier, of which the comment warns (`HangNeedsOverlap`). A
  panic with a guard alive, or inside an atomic's update (an overflow of `atomic_add`),
  leaves the buffer unusable for later launches and for `to_vec` (`PoisonContained`).
* De-duplication leaves the operation out of its key, and a fingerprint has it: of two
  faulty shuffles at one location only the first is kept (`FingerprintsKept`).
* Overflow of `i128` and `u128` is never noticed (`ArithmeticExact`).
* `Explore::budget(0)` is accepted, and `shrink` then calls every failing kernel
  with a whole record `NotReproducible` without a replay: a spent budget answers no. The comment on that variant
  (`src/explore.rs:93`) says that a replay was made and that the kernel does not behave the
  same way twice, and the one on `budget` (line 229) promises the best schedule so far, which
  here is the record. `BlameBacked` is checked with a budget of 0 and names the case; without
  its second disjunct a failing run and its first question already violate it.

## 5. Proofs

Every theorem is for all values of the constants: any grid, warp size, kernel, schedule and
limit. All invariants that the passing runs check are stated by one, but for two at the
end. The comments in the proof modules give the arguments; in outline:

### The scheduler

* `SchedulerProofs!TypeCorrect`: `Spec => []TypeOK`. The invariant adds that a thread inside a
  collective has real arguments, without which a wait could have no location.
* `SchedulerProofs!TurnIsSound`: `TurnExclusive`, `NoLostWakeup` and `SomeoneHasTurn`
  (`WakeupsKept` and `TurnIsOwned` state the last two alone). The inductive invariant adds
  that whoever is given the turn can run, and that while a launch lives only finished
  threads are gone; the latter is why a chosen thread can always be woken.
* `SchedulerProofs!NobodyIsLeftBehind`: as long as one thread has not left, one runs or is on
  its way to the mutex. This is the part of `LaunchEnds` that needs no fairness. It takes one
  more invariant, that a finished thread of a live launch is gone.
* `SchedulerProofs!EpochsCount`: `BarrierLockstep` and `WarpLockstep` (alone in
  `WarpEpochsCount`). Both are inductive once it is known that a running thread is
  `Runnable`, hence not already counted as waiting. A barrier adds one call and, when the
  block is complete, takes every thread of the block out of `AtBarrier` and adds one
  generation; the second rendezvous of a full-warp collective does the same for a warp,
  because a full mask names every lane.
* `SchedulerProofs!SchedulerImplementsTurns`: `Spec => ImplementsTurns`. Every action but
  `Resume` and those of a running thread leaves the mapped variables alone. A running thread
  is the only one inside (`TurnExclusive`), so its calls map to `Leave`, `Barrier` or
  `Return`. The one that needs an invariant is a thread that comes back: it has the turn, so
  it is `Runnable`, and then `BarrierLockstep` says that nobody of its block has called
  fewer barriers than it has.
* `BlameProofs!CleanIsComplete`: `AbortHasDiagnostic` (alone in `AbortExplained`) and
  `CleanLaunch`. Most ways to stop a launch report what they saw. `detect_stuck` has to find
  something: if nobody can run and somebody has not finished, that thread is at a barrier,
  and its block is reported, or in a collective, and the lowest such lane of its warp exists
  (natural numbers are well-founded) and has recorded what it waits for (`WaitsKnown`, the
  strengthening). A launch without diagnostics was thus never stopped, so its threads left
  by finishing, and the counts of `EpochsCount` make them agree.
* `BlameProofs!BlameIsSound`: `BarrierBlameSound` and `WarpBlameSound` (each alone in
  `BarrierBlameIsSound` and `WarpBlameIsSound`). The strengthening is about launches that
  live: a block with a thread at the barrier knows where, has lost nobody and waits for
  somebody; a lane that waits at a half of a collective misses a mate, and agrees on the
  mask with the mates that wait at the same half of the same place.
* `BlameProofs!ExchangeIsSound`: `ExchangeSound`. A lane leaves the first rendezvous only when
  all lanes of its mask have published, and none of them can publish for a later call before
  it has read, because the second rendezvous names it.

### Replay

`ReplayProofs!ReplayStaysOnTrace` (`ReplayFollowsTrace`) and `ReplayEndsAlike`
(`ReplayReproduces`): whatever the grid, the kernel, the schedule and the limit of the trace,
launched again a kernel makes the same decisions and ends in the same way.

* Only the holder of the turn changes what the rest of the launch depends on (`TurnIsSound`),
  and what it does is a function of that state, of the calls of its kernel and of who is
  next. `Advance` is this function, written without a primed variable; one lemma for
  each operation (`HandOffIsFunction` to `InsideIsFunction`) shows that the actions compute
  it. That a report names the *lowest* of several lanes is needed here.
* A launch is then a row of states (`History`), each the `Advance` of the one before, with a
  trace of at most `MaxTrace` of its decisions (`Traced`) and, if it has a plan,
  each decision one that the plan leads to (`AsPlanned`). The invariant of the first launch
  is that such a row leads to its state (`RowTo`); it is quantified, so the model needs no
  history variable. Calls added to the recording later do not disturb the row
  (`AdvanceStable`).
* The invariant of the second is that it stands on the row of the first (`OnTheRow`). With
  different threads next, two outcomes of one step differ in nothing else (`NextIsFree`), and
  a scheduler that follows a plan has no choice (`ChosenAlone`); so the next decision is the
  one on the row. That the trace of a launch is a plan that leads to its decisions is
  `PlanIsFollowed`: each thread in it could run when it was chosen.

What is assumed is in the model: a thread of the second launch makes the calls it made in
the first, that is, the kernel is a function of its schedule. `shrink` tests for that.

### The detector

`ShadowProofs` has what the operators compute: a join is the least clock above two, `retain`
keeps just the readers it should (an induction over a recursive function, done with a set
of natural numbers that is shown to hold them all), a write finds the first concurrent
reader, and a read is recorded if the cell has room.

* `DetectorTypeCorrect`; `ClocksNeverLag` (`ClocksCoverOrder`): by the invariant that every clock of
  the program covers the reference's, those of fences, blocks and cells included.
* `UninitReadsAreExact` (`UninitExact`), for kernels whose atomic loads find values
  (`LoadsFindValues`): a cell is marked just if its element was written.
* `ReportedRacesAreReal` (`ReportsAreRaces`), unless a plain read and an atomic load share an
  element (`LoadsNotMixed`): what a cell holds is in the element's history (`CellsHeld`), and
  what the code's clocks do not order the reference does not either.
* `MissesAreExplained` (`MissesExplained`), with no hypothesis. It rests on four invariants.
  `MadeInv`: no clock knows an access that was not made. `PastInv`: an epoch that is over is
  known to every thread that has left its barrier, so the readers that `on_read` drops are
  known to the reader that drops them. `ChainInv`: for an element without a report
  and without an excuse, each access of the history is in the cell, or every clock that
  knows the last write (or, for a read, some reader) knows it: whoever is ordered after the cell is
  ordered after the whole history. `ExactInv`: as long as nothing has excused all
  elements, the program's clocks know no more than the reference's. An access that finds no
  conflict and no cause then races with nothing, in the reference either.
* `BoundedCellsSuffice` (`CellsSuffice`), for kernels of plain accesses and barriers as long as no
  cell is full (`CellsHaveRoom`). It shares `ChainInv`'s lemmas. That a second read
  of an epoch need not be recorded is `FreshInv`: nobody else knows an access while its
  thread is in the epoch of it, so whoever learns of the first read learns of both.

### Launch, Guard, Explore

* `LaunchProofs`: `LaunchTypeCorrect`; `GridIsCovered` (`GridCovered`), by `WaveInv`, which places
  what has run before, in and after the current wave, with the arithmetic of a short last
  one; `FingerprintsAreKept` (`FingerprintsKept`), since a pushed diagnostic has its key in the
  set or found the list full; `WavesHideNoRaces`: `WavesHideNoRace` as long as no cell is full
  (`CellsHaveRoom`). No clock of a block knows of another block (`ApartInv`), so an
  access of a second block to a written element is reported, and while nothing is reported
  (`QuietInv`) each cell stands for one block. Without room it is false: the readers
  of one block fill a cell, a reader of another is not recorded and a write by the
  first is then not compared with it.
* `GuardProofs`: `GuardTypeCorrect`, which contains that a lent buffer is locked by the borrower;
  `PoisonIsContained`; `UnwrittenIsNoticed` (`UnwrittenNoticed`). The strengthening of the last is
  that an element whose cell says written is so, or has a diagnostic, or is lent or poisoned.
* `ExploreProofs`: the invariant follows the stages of `shrink`. While a prefix is looked for, the
  upper bound has shown the finding and, unless the budget is spent, the lower one has not;
  while switches are dropped, the plan has shown it. It gives `ExploreTypeCorrect`,
  `ShrunkReproduces` (`MinimisedReproduces`), `ShrinkingNeverWorse` (`NeverWorse`), `PrefixIsTight`
  (`PrefixTight`) and, for every budget, `BlameIsBacked` (`BlameBacked`).

### Assumptions and limits

Constants: sizes and limits are positive (`GeometryAssumption`, `ShadowAssumption`); no
location is `None`, no collective is nameless, masks are sets of lanes
(`KernelAssumption`); shared arrays are not used for atomics, kernels are records of what
they use (`DetectorAssumption`); `LaunchAssumption`, `GuardAssumption` and
`ExploreAssumption` give the other modules' constants their types. Hypotheses on kernels are
in the statements, never in an ASSUME.

Only model-checked:

* liveness (`LaunchEnds`, `SearchEnds`, `HangNeedsOverlap`, `InterpreterAnswers`), which needs
  fairness and ENABLED;
* `Mir` and `WarpOps` (`ArithmeticExact`, `WarpAnswersOrReports`), which use the recursive operators
  of `Bitwise`, and whose claims are about powers of two and about sums over sets of lanes,
  for which the provers have no laws without induction.

## 6. Not modelled

Left out: rendering of reports, `riri-mir`'s command line and its reading of
bodies from rustc, `dim.rs`, the random generator itself, values of elements. The counters
of clocks and generations are u64 and unbounded here. The atomics, fences and warp functions
of `oxide.rs` forward to operations that are modelled, and its thread-local context is set
and cleared by the OS thread that uses it. Two host threads launching over one buffer at
the same time are not modelled: the code says nothing of what they should see. A launch in
several waves is not recorded by the code, and so not replayed here.
