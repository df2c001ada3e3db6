-------------------------------- MODULE Guard --------------------------------
(***************************************************************************)
(* Element guards: `elem_mut` and ElemMut of src/mem.rs, which the slices  *)
(* of src/oxide.rs hand out, beside the accesses that lock a buffer for    *)
(* one step only, over several launches of a host.                         *)
(*                                                                         *)
(* A guard holds the mutex of its buffer until the kernel drops it.  The   *)
(* mutex is all a thread can block on while it has the turn.  A thread     *)
(* that unwinds with the mutex poisons it, and `lock().unwrap()` of a      *)
(* poisoned mutex panics.                                                  *)
(*                                                                         *)
(* One block, and buffers of one element.  Races are Detector's matter,    *)
(* and so is the order in which threads wake: the turn passes in one step  *)
(* (ImplementsTurns of Scheduler).                                         *)
(***************************************************************************)
EXTENDS Integers

CONSTANTS
    Threads,
    Buffers,          \* global buffers, of one element each
    Fresh,            \* those made by `uninit`
    MaxOps,           \* bound: operations of a thread in one launch
    MaxLaunches       \* bound: launches over the same buffers

Nobody == "nobody"

ASSUME GuardAssumption ==
    /\ Threads # {} /\ Nobody \notin Threads
    /\ Fresh \subseteq Buffers
    /\ MaxOps \in Nat
    /\ MaxLaunches \in Nat \ {0}

VARIABLES
    launch,           \* number of the running launch
    host,             \* "launching", "between" launches, "panicked"
    turn,             \* the thread that has the turn
    at,               \* where each thread is
    want,             \* the operation it waits to make
    ops,
    aborted,
    guards,           \* the guards alive in each thread
    owner,            \* who has the mutex of each buffer
    poisoned,         \* launch in which it was poisoned, or 0
    init,             \* elements whose shadow cell says written
    overlapped,       \* auxiliary: a thread began an operation with a guard alive
    panicked,         \*   a kernel, or an update of an atomic, panicked
    found,            \*   launches that poisoned and that found it so
    written,          \*   elements really written
    lent,             \*   elements a guard was given for before they were written
    reported,         \*   elements with an UninitRead diagnostic
    missed            \*   elements read unwritten in a read not reported

run == <<turn, at, want, ops, aborted>>
locks == <<guards, owner, poisoned>>
memory == <<init, written, lent, reported, missed>>
aux == <<overlapped, panicked, found>>
vars == <<launch, host, run, locks, memory, aux>>

NoWant == [op |-> "none"]

\* What a kernel asks of a buffer.  "borrow" is get_mut or get_unchecked_mut
\* within bounds, "checked" the first out of bounds and "unchecked" the second.
Wants == [op : {"read", "write", "atomic", "borrow", "checked", "unchecked"}, buf : Buffers]

\* Threads that the scheduler may pick.
Ready == {t \in Threads : at[t] \in {"start", "kernel", "waiting", "released"}}

HasTurn(t) == host = "launching" /\ ~aborted /\ turn = t
InKernel(t) == HasTurn(t) /\ at[t] = "kernel"

Goto(t, place) == at' = [at EXCEPT ![t] = place]

Begin(t) ==
    /\ InKernel(t) /\ ops[t] < MaxOps
    /\ ops' = [ops EXCEPT ![t] = @ + 1]
    /\ overlapped' = (overlapped \/ guards[t] # {})

(***************************************************************************)
(* The guards of a thread that unwinds are dropped, which poisons their    *)
(* buffers; so is the lock of a step, if it still has it.                  *)
(***************************************************************************)
Drop(t, held) ==
    /\ guards' = [guards EXCEPT ![t] = {}]
    /\ owner' = [b \in Buffers |-> IF owner[b] = t THEN Nobody ELSE owner[b]]
    /\ poisoned' = [b \in Buffers |-> IF b \in guards[t] \cup held /\ poisoned[b] = 0
                                      THEN launch ELSE poisoned[b]]

\* A panic or a trap.  Both abort the launch before another thread runs.
Unwind(t, held) ==
    /\ Goto(t, "gone") /\ Drop(t, held)
    /\ want' = [want EXCEPT ![t] = NoWant]
    /\ aborted' = TRUE
    /\ UNCHANGED <<turn, ops>>

(***************************************************************************)
(* Steps of a simulated thread.                                            *)
(***************************************************************************)
\* run_thread, and a thread's return from the barrier.
Enter(t) ==
    /\ HasTurn(t) /\ at[t] \in {"start", "released"}
    /\ Goto(t, "kernel")
    /\ UNCHANGED <<launch, host, turn, want, ops, aborted, locks, memory, aux>>

\* schedule_point of an operation: any thread that can run may be next.
Call(t, w) ==
    /\ Begin(t)
    /\ Goto(t, "waiting")
    /\ want' = [want EXCEPT ![t] = w]
    /\ turn' \in Ready
    /\ UNCHANGED <<launch, host, aborted, locks, memory, panicked, found>>

\* The thread has the turn again, and locks the buffer: blocked (no step)
\* while another or itself has it, a panic if it is poisoned.
Locks(t) ==
    /\ HasTurn(t) /\ at[t] = "waiting"
    /\ owner[want[t].buf] = Nobody

Makes(t, op) == Locks(t) /\ want[t].op = op /\ poisoned[want[t].buf] = 0

FindPoison(t) ==
    LET b == want[t].buf IN
    /\ Locks(t) /\ poisoned[b] > 0
    /\ Unwind(t, {})
    /\ found' = found \cup {<<poisoned[b], launch>>}
    /\ UNCHANGED <<launch, host, memory, overlapped, panicked>>

Continue(t) ==
    /\ Goto(t, "kernel")
    /\ want' = [want EXCEPT ![t] = NoWant]
    /\ UNCHANGED <<turn, ops, aborted>>

\* checked_access.  A read of an element that is not `init` is reported.
Read(t) ==
    LET b == want[t].buf IN
    /\ Makes(t, "read")
    /\ Continue(t)
    /\ reported' = reported \cup ({b} \ init)
    /\ missed' = missed \cup (({b} \cap init) \ written)
    /\ UNCHANGED <<launch, host, locks, init, written, lent, aux>>

Write(t) ==
    LET b == want[t].buf IN
    /\ Makes(t, "write")
    /\ Continue(t)
    /\ init' = init \cup {b}
    /\ written' = written \cup {b}
    /\ UNCHANGED <<launch, host, locks, lent, reported, missed, aux>>

\* Mutant: whether the element was written is looked up after the access.
AtomicLate(t, stores) ==
    LET b == want[t].buf IN
    /\ Makes(t, "atomic")
    /\ Continue(t)
    /\ init' = init \cup {b}
    /\ written' = IF stores THEN written \cup {b} ELSE written
    /\ missed' = missed \cup ({b} \ written)
    /\ UNCHANGED <<launch, host, locks, lent, reported, aux>>

\* An atomic is checked as a read and recorded as a write.  A load, an exchange
\* that fails and a minimum or maximum that keeps the value store nothing.
Atomic(t, stores) ==
    LET b == want[t].buf IN
    /\ Makes(t, "atomic")
    /\ Continue(t)
    /\ init' = init \cup {b}
    /\ written' = IF stores THEN written \cup {b} ELSE written
    /\ reported' = reported \cup ({b} \ init)
    /\ missed' = missed \cup (({b} \cap init) \ written)
    /\ UNCHANGED <<launch, host, locks, lent, aux>>

\* An atomic whose update panics (an overflow, say): the element has been read,
\* and the panic comes before the report.
PanickingUpdate(t) ==
    LET b == want[t].buf IN
    /\ Makes(t, "atomic")
    /\ Unwind(t, {b})
    /\ init' = init \cup {b}
    /\ missed' = missed \cup ({b} \ written)
    /\ panicked' = TRUE
    /\ UNCHANGED <<launch, host, written, lent, reported, overlapped, found>>

\* Mutant: the loan is not recorded as a write.
BorrowUnrecorded(t) ==
    LET b == want[t].buf IN
    /\ Makes(t, "borrow")
    /\ Continue(t)
    /\ guards' = [guards EXCEPT ![t] = @ \cup {b}]
    /\ owner' = [owner EXCEPT ![b] = t]
    /\ UNCHANGED <<launch, host, poisoned, memory, aux>>

\* elem_mut, in bounds: the write is recorded now, whatever the kernel does.
Borrow(t) ==
    LET b == want[t].buf IN
    /\ Makes(t, "borrow")
    /\ Continue(t)
    /\ guards' = [guards EXCEPT ![t] = @ \cup {b}]
    /\ owner' = [owner EXCEPT ![b] = t]
    /\ init' = init \cup {b}
    /\ lent' = lent \cup ({b} \ written)
    /\ UNCHANGED <<launch, host, poisoned, written, reported, missed, aux>>

\* Mutants: None is returned with the buffer locked; the trap unwinds with it.
OutsideKeeps(t, b) ==
    \/ /\ Makes(t, "checked") /\ Continue(t)
       /\ owner' = [owner EXCEPT ![b] = t] /\ UNCHANGED <<guards, poisoned>>
    \/ Makes(t, "unchecked") /\ Unwind(t, {})

OutsideLocked(t, b) ==
    \/ Makes(t, "checked") /\ Continue(t) /\ UNCHANGED locks
    \/ Makes(t, "unchecked") /\ Unwind(t, {b})

\* Out of bounds: the lock is dropped, and then None returned or the launch
\* trapped.
Outside(t, b) ==
    \/ Makes(t, "checked") /\ Continue(t) /\ UNCHANGED locks
    \/ Makes(t, "unchecked") /\ Unwind(t, {})

BorrowOutside(t) ==
    /\ Outside(t, want[t].buf)
    /\ UNCHANGED <<launch, host, memory, aux>>

\* Through the guard, which no shadow cell sees.
GuardRead(t, b) ==
    /\ InKernel(t) /\ b \in guards[t]
    /\ missed' = missed \cup ({b} \ written)
    /\ UNCHANGED <<launch, host, run, locks, init, written, lent, reported, aux>>

GuardWrite(t, b) ==
    /\ InKernel(t) /\ b \in guards[t]
    /\ written' = written \cup {b}
    /\ UNCHANGED <<launch, host, run, locks, init, lent, reported, missed, aux>>

DropGuard(t, b) ==
    /\ InKernel(t) /\ b \in guards[t]
    /\ guards' = [guards EXCEPT ![t] = @ \ {b}]
    /\ owner' = [owner EXCEPT ![b] = Nobody]
    /\ UNCHANGED <<launch, host, run, poisoned, memory, aux>>

\* `len` has no scheduling point.  It blocks for good if the thread that has
\* the turn has the buffer, or any other does.
Length(t, b) ==
    /\ Begin(t)
    /\ owner[b] = Nobody => poisoned[b] = 0
    /\ Goto(t, IF owner[b] = Nobody THEN "kernel" ELSE "blocked")
    /\ UNCHANGED <<launch, host, turn, want, aborted, locks, memory, panicked, found>>

LengthFindsPoison(t, b) ==
    /\ InKernel(t)
    /\ owner[b] = Nobody /\ poisoned[b] > 0
    /\ Unwind(t, {})
    /\ overlapped' = (overlapped \/ guards[t] # {})
    /\ found' = found \cup {<<poisoned[b], launch>>}
    /\ UNCHANGED <<launch, host, memory, panicked>>

\* sync_threads: released with the last of the block, divergent if one is out.
SyncThreads(t) ==
    LET others == Threads \ {t} IN
    /\ Begin(t)
    /\ UNCHANGED want
    /\ \/ /\ \A u \in others : at[u] = "barrier"
          /\ at' = [u \in Threads |-> "released"]
          /\ turn' \in Threads
          /\ UNCHANGED <<aborted, locks>>
       \/ /\ \A u \in others : at[u] # "finished"
          /\ \E u \in others : at[u] # "barrier"
          /\ Goto(t, "barrier")
          /\ turn' \in Ready \ {t}
          /\ UNCHANGED <<aborted, locks>>
       \/ /\ \E u \in others : at[u] = "finished"
          /\ Goto(t, "gone") /\ Drop(t, {})
          /\ aborted' = TRUE
          /\ UNCHANGED turn
    /\ UNCHANGED <<launch, host, memory, panicked, found>>

Panic(t) ==
    /\ InKernel(t)
    /\ Unwind(t, {})
    /\ panicked' = TRUE
    /\ UNCHANGED <<launch, host, memory, overlapped, found>>

\* A kernel that returns has dropped its guards.
Finish(t) ==
    /\ InKernel(t) /\ guards[t] = {}
    /\ Goto(t, "finished")
    /\ aborted' = \E u \in Threads : at[u] = "barrier"
    /\ \/ turn' \in Ready \ {t}
       \/ Ready = {t} /\ UNCHANGED turn
    /\ UNCHANGED <<launch, host, want, ops, locks, memory, aux>>

\* A parked thread that wakes to an abort unwinds.
NoticeAbort(t) ==
    /\ host = "launching" /\ aborted
    /\ at[t] \in {"start", "waiting", "released", "barrier"}
    /\ Goto(t, "gone") /\ Drop(t, {})
    /\ want' = [want EXCEPT ![t] = NoWant]
    /\ UNCHANGED <<launch, host, turn, ops, aborted, memory, aux>>

(***************************************************************************)
(* The host.                                                               *)
(***************************************************************************)
EndLaunch ==
    /\ host = "launching"
    /\ \A t \in Threads : at[t] \in {"finished", "gone"}
    /\ host' = "between"
    /\ UNCHANGED <<launch, run, locks, memory, aux>>

\* to_vec of a poisoned buffer.
HostFindsPoison ==
    /\ host = "between"
    /\ \E b \in Buffers : poisoned[b] > 0
    /\ host' = "panicked"
    /\ UNCHANGED <<launch, run, locks, memory, aux>>

NextLaunch ==
    /\ host = "between" /\ launch < MaxLaunches
    /\ launch' = launch + 1
    /\ host' = "launching"
    /\ turn' \in Threads
    /\ at' = [t \in Threads |-> "start"]
    /\ ops' = [t \in Threads |-> 0]
    /\ aborted' = FALSE
    /\ UNCHANGED <<want, locks, memory, aux>>

Init ==
    /\ launch = 1 /\ host = "launching"
    /\ turn \in Threads
    /\ at = [t \in Threads |-> "start"]
    /\ want = [t \in Threads |-> NoWant]
    /\ ops = [t \in Threads |-> 0]
    /\ aborted = FALSE
    /\ guards = [t \in Threads |-> {}]
    /\ owner = [b \in Buffers |-> Nobody]
    /\ poisoned = [b \in Buffers |-> 0]
    /\ init = Buffers \ Fresh /\ written = Buffers \ Fresh
    /\ lent = {} /\ reported = {} /\ missed = {}
    /\ overlapped = FALSE /\ panicked = FALSE /\ found = {}

Next ==
    \/ \E t \in Threads :
         \/ Enter(t)
         \/ \E w \in Wants : Call(t, w)
         \/ FindPoison(t)
         \/ Read(t) \/ Write(t) \/ PanickingUpdate(t)
         \/ \E stores \in BOOLEAN : Atomic(t, stores)
         \/ Borrow(t) \/ BorrowOutside(t)
         \/ \E b \in Buffers :
              \/ GuardRead(t, b) \/ GuardWrite(t, b) \/ DropGuard(t, b)
              \/ Length(t, b) \/ LengthFindsPoison(t, b)
         \/ SyncThreads(t)
         \/ Panic(t)
         \/ Finish(t)
         \/ NoticeAbort(t)
    \/ EndLaunch \/ HostFindsPoison \/ NextLaunch

\* The operating system runs every thread that can, and a kernel goes on.
Spec == Init /\ [][Next]_vars /\ WF_vars(Next)

(***************************************************************************)
(* Properties.                                                             *)
(***************************************************************************)
\* The types; a buffer that is lent is locked by the thread it is lent to, so
\* no element has two guards.
GuardTypeOK ==
    /\ launch \in 1 .. MaxLaunches
    /\ host \in {"launching", "between", "panicked"}
    /\ turn \in Threads
    /\ at \in [Threads -> {"start", "kernel", "waiting", "blocked", "barrier", "released",
                           "finished", "gone"}]
    /\ want \in [Threads -> Wants \cup {NoWant}]
    /\ \A t \in Threads : at[t] = "waiting" => want[t] # NoWant
    /\ ops \in [Threads -> 0 .. MaxOps]
    /\ owner \in [Buffers -> Threads \cup {Nobody}]
    /\ \A t \in Threads, b \in Buffers : b \in guards[t] => owner[b] = t
    /\ poisoned \in [Buffers -> 0 .. MaxLaunches]
    /\ written \subseteq init /\ init \subseteq Buffers

\* A launch hangs, without a diagnostic, only if some thread began an access,
\* a barrier or a `len` while it kept a guard; a guard taken and dropped
\* between two operations never costs the launch its end.
HangNeedsOverlap == (host = "launching") ~> (host # "launching" \/ overlapped)

\* Buffers outlive launches, and stay usable unless a kernel or its update
\* panicked or a guard was kept through another operation: a trap, a divergence
\* and the abort of the others poison nothing.  The launch that poisons a
\* buffer ends before any thread meets the poison.
PoisonContained ==
    /\ (\E b \in Buffers : poisoned[b] > 0) => panicked \/ overlapped
    /\ \A p \in found : p[1] < p[2]

\* "Reading an element before some thread has written it is reported": not
\* every such read is, but every element so read has a diagnostic, if only of
\* an earlier atomic on it, unless a guard was given for it, which counts as a
\* write, or the panic of its update, which poisoned it, came first.
UnwrittenNoticed ==
    missed \subseteq reported \cup lent \cup {b \in Buffers : poisoned[b] > 0}
=============================================================================
