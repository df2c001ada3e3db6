------------------------------- MODULE Shadow -------------------------------
(***************************************************************************)
(* Clocks (src/sync.rs) and shadow cells (src/shadow.rs) as pure           *)
(* operators.                                                              *)
(*                                                                         *)
(* A clock gives each thread the highest operation of it that is known;    *)
(* an absent entry of the BTreeMap is zero.  An access is a record of its  *)
(* thread (which fixes block and warp), the two epochs, its number among   *)
(* the operations of the thread, and the operation.  Of the operations     *)
(* `load` is an atomic that only reads (atomic_load, a compare-exchange    *)
(* that fails) and `rmw` one that writes.                                  *)
(***************************************************************************)
EXTENDS Geometry, Sequences

CONSTANT MaxReaders       \* MAX_READERS

ASSUME ShadowAssumption == MaxReaders \in Nat \ {0}

(***************************************************************************)
(* Clocks.                                                                 *)
(***************************************************************************)
NoClock == [u \in Threads |-> 0]

Later(m, n) == IF m > n THEN m ELSE n

Observe(c, t, n) == [c EXCEPT ![t] = Later(@, n)]

Join(c, d) == [u \in Threads |-> Later(c[u], d[u])]

IsAcquire(ordering) == ordering \in {"acquire", "acqrel"}
IsRelease(ordering) == ordering \in {"release", "acqrel"}

(***************************************************************************)
(* Accesses.                                                               *)
(***************************************************************************)
NoAccess == [thread |-> -1, epoch |-> 0, warp_epoch |-> 0, seq |-> 0, op |-> "none"]

IsAtomic(a) == a.op \in {"load", "rmw"}

\* Whether a, recorded earlier, is unordered with b, made by a thread whose
\* clock is `now`.
Concurrent(a, b, now) ==
    /\ a.thread # b.thread
    /\ ~(IsAtomic(a) /\ IsAtomic(b))
    /\ now[a.thread] < a.seq
    /\ \/ BlockOf(a.thread) # BlockOf(b.thread)
       \/ /\ a.epoch = b.epoch
          /\ \/ WarpOf(a.thread) # WarpOf(b.thread)
             \/ a.warp_epoch = b.warp_epoch

(***************************************************************************)
(* Cells.                                                                  *)
(***************************************************************************)
NewCell(init) ==
    [init |-> init, last_write |-> NoAccess, readers |-> <<>>, release |-> NoClock]

ConcurrentWrite(cell, acc, now) ==
    cell.last_write # NoAccess /\ Concurrent(cell.last_write, acc, now)

\* What a read conflicts with: at most one access, the last write.
ReadConflict(cell, acc, now) ==
    IF ConcurrentWrite(cell, acc, now) THEN {cell.last_write} ELSE {}

\* What a write or an atomic conflicts with: the last write, or else the first
\* concurrent reader.
WriteConflict(cell, acc, now) ==
    LET racing == {i \in DOMAIN cell.readers : Concurrent(cell.readers[i], acc, now)}
    IN  IF ConcurrentWrite(cell, acc, now) THEN {cell.last_write}
        ELSE {cell.readers[i] : i \in {j \in racing : \A k \in racing : j <= k}}

\* Readers of the same block in an older epoch are forgotten; a thread that is
\* already among the readers of this epoch is not recorded again.
Retained(r, acc) == BlockOf(r.thread) # BlockOf(acc.thread) \/ r.epoch = acc.epoch

\* The `retain` of on_read, from the first reader to the last.
Retain(readers, acc) ==
    LET kept[i \in 0 .. Len(readers)] ==
            IF i = 0 THEN <<>>
            ELSE IF Retained(readers[i], acc) THEN Append(kept[i - 1], readers[i])
            ELSE kept[i - 1]
    IN  kept[Len(readers)]

SameReader(r, acc) == r.thread = acc.thread /\ r.epoch = acc.epoch

\* Mutants of on_read: no limit and no check for the same reader; nothing
\* kept; a reader too many takes the place of the others.
OnReadUnbounded(cell, acc) == [cell EXCEPT !.readers = Append(@, acc)]

OnReadForgets(cell, acc) == cell

OnReadEvicts(cell, acc) ==
    [cell EXCEPT !.readers = IF Len(@) < MaxReaders THEN Append(@, acc) ELSE <<acc>>]

OnRead(cell, acc) ==
    LET kept == Retain(cell.readers, acc)
        dup == \E i \in DOMAIN kept : SameReader(kept[i], acc)
    IN  [cell EXCEPT !.readers = IF ~dup /\ Len(kept) < MaxReaders
                                 THEN Append(kept, acc) ELSE kept]

OnWrite(cell, acc) ==
    [cell EXCEPT !.last_write = acc, !.readers = <<>>, !.init = TRUE]
=============================================================================
