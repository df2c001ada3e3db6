---------------------------- MODULE ShadowProofs ----------------------------
(***************************************************************************)
(* What the operators of Shadow compute, for all clocks, cells and         *)
(* accesses: the facts that the proofs about Detector and Launch share.    *)
(***************************************************************************)
EXTENDS Shadow, SequenceTheorems, FiniteSetTheorems, WellFoundedInduction, TLAPS

Clocks == [Threads -> Nat]

\* c knows no more than d.
Leq(c, d) == \A u \in Threads : c[u] <= d[u]

(***************************************************************************)
(* Numbers.                                                                *)
(***************************************************************************)
\* A set that holds 0 and, with a number, the next one holds all numbers.
LEMMA CountUp ==
    ASSUME NEW S, 0 \in S, \A n \in Nat : n \in S => n + 1 \in S
    PROVE  Nat \subseteq S
<1> SUFFICES ASSUME Nat \ S # {} PROVE FALSE
    OBVIOUS
<1>1. PICK x \in Nat \ S : \A y \in Nat \ S : ~(<<y, x>> \in OpToRel(<, Nat))
      BY NatLessThanWellFounded, WFMin
<1>2. \A y \in Nat \ S : ~(y < x)
      BY <1>1 DEF OpToRel
<1>3. x \in Nat /\ x # 0
      OBVIOUS
<1>4. x - 1 \in Nat /\ x - 1 < x /\ (x - 1) + 1 = x
      BY <1>3
<1>5. x - 1 \in S
      BY <1>2, <1>4
<1>6. QED BY <1>4, <1>5

\* A nonempty bounded set of numbers has a greatest one.
LEMMA GreatestExists ==
    ASSUME NEW S \in SUBSET Nat, S # {}, NEW m \in Nat, \A x \in S : x <= m
    PROVE  \E n \in S : \A x \in S : x <= n
<1> DEFINE Bounds == {k \in Nat : \A x \in S : x <= k}
<1>1. PICK n \in Bounds : \A y \in Bounds : ~(<<y, n>> \in OpToRel(<, Nat))
      BY NatLessThanWellFounded, WFMin
<1>2. \A y \in Bounds : ~(y < n)
      BY <1>1 DEF OpToRel
<1>3. n \in Nat /\ \A x \in S : x \in Nat /\ x <= n
      OBVIOUS
<1>4. ASSUME n \notin S PROVE FALSE
  <2>1. \A x \in S : x <= n - 1
        BY <1>3, <1>4
  <2>2. n - 1 \in Nat
    <3>1. PICK x \in S : TRUE
          OBVIOUS
    <3>2. QED BY <1>3, <2>1, <3>1
  <2>3. n - 1 \in Bounds /\ n - 1 < n
        BY <1>3, <2>1, <2>2
  <2>4. QED BY <1>2, <2>3
<1>5. QED BY <1>3, <1>4

\* Every thread lies in a block and in a warp of the launch.
LEMMA ThreadPlaced ==
    ASSUME NEW t \in Threads
    PROVE  BlockOf(t) \in Blocks /\ WarpOf(t) \in Warps /\ t \in Nat
<1>1. t \div ThreadsPerBlock \in 0 .. NumBlocks - 1
      BY GeometryAssumption DEF Threads
<1>2. (t % ThreadsPerBlock) \div WarpSize \in 0 .. WarpsPerBlock - 1
      BY GeometryAssumption DEF Threads, WarpsPerBlock
<1>3. t \in Nat
      BY GeometryAssumption DEF Threads
<1>4. QED BY <1>1, <1>2, <1>3 DEF BlockOf, WarpOf, Blocks, Warps

(***************************************************************************)
(* Clocks.                                                                 *)
(***************************************************************************)
\* The clock of a thread that has seen nothing.
LEMMA NoClockKnowsNothing == NoClock \in Clocks /\ \A u \in Threads : NoClock[u] = 0
BY DEF NoClock, Clocks

\* join takes the later of the two, thread by thread.
LEMMA JoinIsLeast ==
    ASSUME NEW c \in Clocks, NEW d \in Clocks
    PROVE  /\ Join(c, d) \in Clocks
           /\ Leq(c, Join(c, d)) /\ Leq(d, Join(c, d))
           /\ \A x \in Clocks : Leq(c, x) /\ Leq(d, x) => Leq(Join(c, d), x)
           /\ \A u \in Threads : Join(c, d)[u] \in {c[u], d[u]}
BY DEF Clocks, Join, Later, Leq

\* observe raises the entry of one thread.
LEMMA ObserveRaises ==
    ASSUME NEW c \in Clocks, NEW t \in Threads, NEW n \in Nat
    PROVE  /\ Observe(c, t, n) \in Clocks
           /\ Leq(c, Observe(c, t, n)) /\ n <= Observe(c, t, n)[t]
           /\ \A u \in Threads \ {t} : Observe(c, t, n)[u] = c[u]
           /\ c[t] <= n => Observe(c, t, n)[t] = n
           /\ \A d \in Clocks : Leq(c, d) => Leq(Observe(c, t, n), Observe(d, t, n))
BY DEF Clocks, Observe, Later, Leq

(***************************************************************************)
(* Readers.                                                                *)
(***************************************************************************)
\* No thread is among the readers twice.
Distinct(readers) ==
    \A i, j \in DOMAIN readers : i # j => readers[i].thread # readers[j].thread

\* `retain` keeps exactly the readers that pass its test, and adds none.
LEMMA RetainKeeps ==
    ASSUME NEW S, NEW readers \in Seq(S), NEW acc
    PROVE  /\ Retain(readers, acc) \in Seq(S)
           /\ Len(Retain(readers, acc)) <= Len(readers)
           /\ \A i \in DOMAIN Retain(readers, acc) :
                 \E j \in DOMAIN readers :
                    Retain(readers, acc)[i] = readers[j] /\ Retained(readers[j], acc)
           /\ \A j \in DOMAIN readers :
                 Retained(readers[j], acc) =>
                    \E i \in DOMAIN Retain(readers, acc) : Retain(readers, acc)[i] = readers[j]
           /\ Distinct(readers) => Distinct(Retain(readers, acc))
<1> DEFINE N == Len(readers)
           Body(f, i) == IF i = 0 THEN <<>>
                         ELSE IF Retained(readers[i], acc) THEN Append(f[i - 1], readers[i])
                         ELSE f[i - 1]
           Good(q, n) == /\ q \in Seq(S) /\ Len(q) <= n
                         /\ \A i \in DOMAIN q : \E j \in 1 .. n :
                               q[i] = readers[j] /\ Retained(readers[j], acc)
                         /\ \A j \in 1 .. n : Retained(readers[j], acc) =>
                               \E i \in DOMAIN q : q[i] = readers[j]
                         /\ Distinct(readers) => Distinct(q)
<1>1. N \in Nat /\ DOMAIN readers = 1 .. N /\ \A j \in 1 .. N : readers[j] \in S
      OBVIOUS
<1>2. \E f : f = [i \in 0 .. N |-> Body(f, i)]
  <2> DEFINE P(k) == k <= N => \E f : f = [i \in 0 .. k |-> Body(f, i)]
             Done == {k \in Nat : P(k)}
  <2>1. P(0)
    <3> DEFINE f == [i \in 0 .. 0 |-> <<>>]
    <3>1. f = [i \in 0 .. 0 |-> Body(f, i)]
          OBVIOUS
    <3>2. QED BY <3>1
  <2>2. ASSUME NEW k \in Nat, P(k) PROVE P(k + 1)
    <3> SUFFICES ASSUME k + 1 <= N PROVE \E g : g = [i \in 0 .. k + 1 |-> Body(g, i)]
        OBVIOUS
    <3>1. k <= N
          BY <1>1
    <3>a. PICK f : f = [i \in 0 .. k |-> Body(f, i)]
          BY <2>2, <3>1
    <3> DEFINE g == [i \in 0 .. k + 1 |-> IF i <= k THEN f[i] ELSE Body(f, i)]
    <3>2. \A i \in 0 .. k + 1 : g[i] = Body(g, i)
      <4> SUFFICES ASSUME NEW i \in 0 .. k + 1 PROVE g[i] = Body(g, i)
          OBVIOUS
      <4>1. i # 0 => i - 1 \in 0 .. k /\ g[i - 1] = f[i - 1]
            OBVIOUS
      <4>2. Body(g, i) = Body(f, i)
            BY <4>1
      <4>3. i <= k => f[i] = Body(f, i)
        <5> HIDE DEF Body
        <5>1. i <= k => i \in 0 .. k
              OBVIOUS
        <5>2. QED BY <5>1, <3>a
      <4>4. QED BY <4>2, <4>3
    <3> HIDE DEF Body
    <3>3. g = [i \in 0 .. k + 1 |-> Body(g, i)]
          BY <3>2
    <3>4. QED BY <3>3
  <2> HIDE DEF P
  <2>3. Nat \subseteq Done
    <3>1. 0 \in Done
          BY <2>1
    <3>2. \A n \in Nat : n \in Done => n + 1 \in Done
          BY <2>2
    <3> HIDE DEF Done
    <3>3. QED BY <3>1, <3>2, CountUp
  <2>4. P(N)
        BY <2>3, <1>1
  <2>5. QED BY <2>4, <1>1 DEF P
<1> DEFINE kept == CHOOSE f : f = [i \in 0 .. N |-> Body(f, i)]
<1>3. kept = [i \in 0 .. N |-> Body(kept, i)]
      BY <1>2
<1>4. Retain(readers, acc) = kept[N]
      BY DEF Retain
<1> HIDE DEF kept
<1>b. \A k \in Nat : k + 1 <= N =>
         kept[k + 1] = IF Retained(readers[k + 1], acc) THEN Append(kept[k], readers[k + 1])
                       ELSE kept[k]
  <2> SUFFICES ASSUME NEW k \in Nat, k + 1 <= N PROVE kept[k + 1] = Body(kept, k + 1)
      OBVIOUS
  <2> HIDE DEF Body
  <2>1. k + 1 \in 0 .. N
        BY <1>1
  <2>2. QED BY <2>1, <1>3
<1>5. Good(kept[N], N)
  <2> DEFINE P(k) == k <= N => Good(kept[k], k)
             Done == {k \in Nat : P(k)}
  <2>1. P(0)
    <3>1. kept[0] = <<>>
          BY <1>3, <1>1
    <3>2. QED BY <3>1 DEF Distinct
  <2>2. ASSUME NEW k \in Nat, P(k) PROVE P(k + 1)
    <3> SUFFICES ASSUME k + 1 <= N PROVE Good(kept[k + 1], k + 1)
        OBVIOUS
    <3>1. Good(kept[k], k) /\ readers[k + 1] \in S
          BY <2>2, <1>1
    <3>2. kept[k + 1] = IF Retained(readers[k + 1], acc) THEN Append(kept[k], readers[k + 1])
                        ELSE kept[k]
          BY <1>b
    <3>3. CASE ~Retained(readers[k + 1], acc)
          BY <3>1, <3>2, <3>3
    <3>4. CASE Retained(readers[k + 1], acc)
      <4> DEFINE q == kept[k]
                 r == Append(q, readers[k + 1])
      <4>1. /\ r \in Seq(S) /\ Len(r) = Len(q) + 1 /\ DOMAIN r = 1 .. Len(q) + 1
            /\ DOMAIN q = 1 .. Len(q) /\ Len(q) \in Nat
            /\ \A i \in 1 .. Len(q) : r[i] = q[i]
            /\ r[Len(q) + 1] = readers[k + 1]
            BY <3>1
      <4>a. /\ \A i \in 1 .. Len(q) : \E j \in 1 .. k :
                   q[i] = readers[j] /\ Retained(readers[j], acc)
            /\ \A j \in 1 .. k : Retained(readers[j], acc) =>
                   \E i \in 1 .. Len(q) : q[i] = readers[j]
            /\ Len(q) <= k
            BY <3>1, <4>1
      <4>b. Distinct(readers) => Distinct(q)
            BY <3>1
      <4> HIDE DEF r, q
      <4>2. \A i \in DOMAIN r : \E j \in 1 .. k + 1 :
               r[i] = readers[j] /\ Retained(readers[j], acc)
        <5> SUFFICES ASSUME NEW i \in DOMAIN r
                     PROVE  \E j \in 1 .. k + 1 : r[i] = readers[j] /\ Retained(readers[j], acc)
            OBVIOUS
        <5>1. CASE i \in 1 .. Len(q)
              BY <5>1, <4>a, <4>1
        <5>2. CASE i = Len(q) + 1
              BY <5>2, <3>4, <4>1
        <5>3. QED BY <5>1, <5>2, <4>1
      <4>3. \A j \in 1 .. k + 1 : Retained(readers[j], acc) =>
               \E i \in DOMAIN r : r[i] = readers[j]
        <5> SUFFICES ASSUME NEW j \in 1 .. k + 1, Retained(readers[j], acc)
                     PROVE  \E i \in DOMAIN r : r[i] = readers[j]
            OBVIOUS
        <5>1. CASE j \in 1 .. k
          <6>1. PICK i \in 1 .. Len(q) : q[i] = readers[j]
                BY <5>1, <4>a
          <6>2. i \in DOMAIN r /\ r[i] = readers[j]
                BY <6>1, <4>1
          <6>3. QED BY <6>2
        <5>2. CASE j = k + 1
              BY <5>2, <4>1
        <5>3. QED BY <5>1, <5>2
      <4>4. kept[k + 1] = r
            BY <3>2, <3>4 DEF r, q
      <4>5. Len(r) <= k + 1
            BY <4>1, <4>a
      <4>6. ASSUME Distinct(readers) PROVE Distinct(r)
        <5>1. \A i \in 1 .. Len(q) : r[i].thread # readers[k + 1].thread
          <6> SUFFICES ASSUME NEW i \in 1 .. Len(q) PROVE r[i].thread # readers[k + 1].thread
              OBVIOUS
          <6>1. PICK j \in 1 .. k : r[i] = readers[j]
                BY <4>1, <4>a
          <6>2. j \in DOMAIN readers /\ k + 1 \in DOMAIN readers /\ j # k + 1
                BY <1>1
          <6>3. QED BY <4>6, <6>1, <6>2 DEF Distinct
        <5>2. \A i, j \in 1 .. Len(q) : i # j => r[i].thread # r[j].thread
          <6>1. \A i, j \in 1 .. Len(q) : i # j => q[i].thread # q[j].thread
                BY <4>1, <4>b, <4>6 DEF Distinct
          <6>2. QED BY <4>1, <6>1
        <5>3. \A i \in DOMAIN r : i \in 1 .. Len(q) \/ i = Len(q) + 1
              BY <4>1
        <5>4. QED BY <4>1, <5>1, <5>2, <5>3 DEF Distinct
      <4>7. QED BY <4>1, <4>2, <4>3, <4>4, <4>5, <4>6
    <3>5. QED BY <3>3, <3>4
  <2> HIDE DEF P
  <2>3. Nat \subseteq Done
    <3>1. 0 \in Done
          BY <2>1
    <3>2. \A n \in Nat : n \in Done => n + 1 \in Done
          BY <2>2
    <3> HIDE DEF Done
    <3>3. QED BY <3>1, <3>2, CountUp
  <2>4. P(N)
        BY <2>3, <1>1
  <2> HIDE DEF Good
  <2>5. QED BY <2>4, <1>1 DEF P
<1> HIDE DEF N
<1>6. Good(Retain(readers, acc), N)
      BY <1>4, <1>5
<1>7. QED BY <1>1, <1>6 DEF N

(***************************************************************************)
(* Cells.                                                                  *)
(***************************************************************************)
\* Cells whose accesses are of a set S.
CellsOf(S) == [init : BOOLEAN, last_write : S \cup {NoAccess}, readers : Seq(S),
               release : Clocks]

\* A new cell holds no access and has published nothing.
LEMMA NewCellIsEmpty ==
    ASSUME NEW S, NEW init \in BOOLEAN
    PROVE  /\ NewCell(init) \in CellsOf(S)
           /\ NewCell(init).init = init /\ NewCell(init).last_write = NoAccess
           /\ NewCell(init).readers = <<>> /\ NewCell(init).release = NoClock
BY NoClockKnowsNothing, EmptySeq DEF NewCell, CellsOf

\* on_read changes the readers only, drops none that passes the test of
\* `retain`, adds at most the access, and stays within the limit.
LEMMA OnReadRecords ==
    ASSUME NEW S, NEW cell \in CellsOf(S), NEW acc \in S, Len(cell.readers) <= MaxReaders
    PROVE  LET new == OnRead(cell, acc)
           IN  /\ new \in CellsOf(S)
               /\ new.init = cell.init /\ new.last_write = cell.last_write
               /\ new.release = cell.release
               /\ Len(new.readers) <= MaxReaders
               /\ \A i \in DOMAIN new.readers :
                     \/ new.readers[i] = acc
                     \/ \E j \in DOMAIN cell.readers : /\ new.readers[i] = cell.readers[j]
                                                      /\ Retained(cell.readers[j], acc)
               /\ \A j \in DOMAIN cell.readers : Retained(cell.readers[j], acc) =>
                     \E i \in DOMAIN new.readers : new.readers[i] = cell.readers[j]
<1> DEFINE old == cell.readers
           kept == Retain(old, acc)
           dup == \E i \in DOMAIN kept : SameReader(kept[i], acc)
           rs == IF ~dup /\ Len(kept) < MaxReaders THEN Append(kept, acc) ELSE kept
           new == [cell EXCEPT !.readers = rs]
<1>1. OnRead(cell, acc) = new
      BY DEF OnRead
<1>2. old \in Seq(S) /\ cell.init \in BOOLEAN /\ cell.release \in Clocks
      BY DEF CellsOf
<1> HIDE DEF old
<1>3. /\ kept \in Seq(S)
      /\ Len(kept) <= Len(old)
      /\ \A i \in DOMAIN kept : \E j \in DOMAIN old : kept[i] = old[j] /\ Retained(old[j], acc)
      /\ \A j \in DOMAIN old : Retained(old[j], acc) => \E i \in DOMAIN kept : kept[i] = old[j]
      BY <1>2, RetainKeeps
<1> HIDE DEF kept, dup
<1>4. /\ Len(kept) \in Nat /\ DOMAIN kept = 1 .. Len(kept) /\ Len(old) \in Nat
      /\ Append(kept, acc) \in Seq(S) /\ Len(Append(kept, acc)) = Len(kept) + 1
      /\ DOMAIN Append(kept, acc) = 1 .. Len(kept) + 1
      /\ \A i \in 1 .. Len(kept) : Append(kept, acc)[i] = kept[i]
      /\ Append(kept, acc)[Len(kept) + 1] = acc
      BY <1>2, <1>3
<1>5. rs \in Seq(S) /\ Len(rs) <= MaxReaders
      BY <1>3, <1>4, ShadowAssumption DEF old
<1>6. \A i \in DOMAIN rs : rs[i] = acc \/ \E j \in DOMAIN old : rs[i] = old[j] /\ Retained(old[j], acc)
  <2>1. CASE rs = kept
        BY <2>1, <1>3
  <2>2. CASE rs = Append(kept, acc)
    <3> SUFFICES ASSUME NEW i \in 1 .. Len(kept) + 1
                 PROVE  rs[i] = acc \/ \E j \in DOMAIN old : rs[i] = old[j] /\ Retained(old[j], acc)
        BY <2>2, <1>4
    <3>1. CASE i = Len(kept) + 1
          BY <2>2, <3>1, <1>4
    <3>2. CASE i \in 1 .. Len(kept)
      <4>1. rs[i] = kept[i] /\ i \in DOMAIN kept
            BY <2>2, <3>2, <1>4
      <4>2. QED BY <4>1, <1>3
    <3>3. QED BY <3>1, <3>2, <1>4
  <2>3. QED BY <2>1, <2>2
<1>7. \A j \in DOMAIN old : Retained(old[j], acc) => \E i \in DOMAIN rs : rs[i] = old[j]
  <2>1. CASE rs = kept
        BY <2>1, <1>3
  <2>2. CASE rs = Append(kept, acc)
    <3> SUFFICES ASSUME NEW j \in DOMAIN old, Retained(old[j], acc)
                 PROVE  \E i \in DOMAIN rs : rs[i] = old[j]
        OBVIOUS
    <3>1. PICK i \in DOMAIN kept : kept[i] = old[j]
          BY <1>3
    <3>2. i \in 1 .. Len(kept) /\ i \in 1 .. Len(kept) + 1
          BY <3>1, <1>4
    <3>a. i \in DOMAIN rs /\ rs[i] = old[j]
          BY <2>2, <3>1, <3>2, <1>4
    <3>3. QED BY <3>a
  <2>3. QED BY <2>1, <2>2
<1> HIDE DEF rs
<1>8. /\ new \in CellsOf(S) /\ new.readers = rs
      /\ new.init = cell.init /\ new.last_write = cell.last_write
      /\ new.release = cell.release
      BY <1>5 DEF CellsOf
<1> HIDE DEF new
<1>9. QED BY <1>1, <1>5, <1>6, <1>7, <1>8 DEF old

\* Readers of different threads are no more than the threads.
LEMMA DistinctFit ==
    ASSUME NEW S, NEW q \in Seq(S), Distinct(q), \A i \in DOMAIN q : q[i].thread \in Threads
    PROVE  Len(q) <= NumBlocks * ThreadsPerBlock
<1> DEFINE N == NumBlocks * ThreadsPerBlock
           who == [i \in 1 .. Len(q) |-> q[i].thread]
<1>1. N \in Nat /\ Threads = 0 .. N - 1 /\ Len(q) \in Nat /\ DOMAIN q = 1 .. Len(q)
      BY GeometryAssumption DEF Threads
<1> HIDE DEF N
<1>2. IsFiniteSet(Threads) /\ Cardinality(Threads) = N
  <2>1. 0 \in Int /\ N - 1 \in Int
        BY <1>1
  <2>2. IsFiniteSet(0 .. N - 1) /\ Cardinality(0 .. N - 1) = IF 0 > N - 1 THEN 0 ELSE N - 1 - 0 + 1
        BY <2>1, FS_Interval
  <2>3. QED BY <1>1, <2>2
<1>3. Cardinality(1 .. Len(q)) = Len(q)
  <2>1. 1 \in Int /\ Len(q) \in Int
        BY <1>1
  <2>2. Cardinality(1 .. Len(q)) = IF 1 > Len(q) THEN 0 ELSE Len(q) - 1 + 1
        BY <2>1, FS_Interval
  <2>3. QED BY <1>1, <2>2
<1>4. who \in [1 .. Len(q) -> Threads]
      BY <1>1
<1>5. \A i, j \in 1 .. Len(q) : who[i] = who[j] => i = j
      BY <1>1 DEF Distinct
<1>6. who \in Injection(1 .. Len(q), Threads)
      BY <1>4, <1>5 DEF Injection, IsInjective
<1>7. Cardinality(1 .. Len(q)) <= Cardinality(Threads)
      BY <1>2, <1>6, FS_Injection
<1>8. QED BY <1>2, <1>3, <1>7 DEF N

\* A cell never holds two readers of one thread; and one with room, as it has
\* if there is a place for every thread, records each read or holds one of the
\* same thread and epoch.
LEMMA ReadIsRecorded ==
    ASSUME NEW S, NEW cell \in CellsOf(S), NEW acc \in S, acc.thread \in Threads,
           Distinct(cell.readers), \A a \in S : a.thread \in Threads
    PROVE  /\ Distinct(OnRead(cell, acc).readers)
           /\ NumBlocks * ThreadsPerBlock <= MaxReaders \/ Len(cell.readers) < MaxReaders =>
                 \E i \in DOMAIN OnRead(cell, acc).readers :
                     SameReader(OnRead(cell, acc).readers[i], acc)
<1> DEFINE old == cell.readers
           kept == Retain(old, acc)
           dup == \E i \in DOMAIN kept : SameReader(kept[i], acc)
           rs == IF ~dup /\ Len(kept) < MaxReaders THEN Append(kept, acc) ELSE kept
<1>1. OnRead(cell, acc).readers = rs
      BY DEF OnRead, CellsOf
<1>2. old \in Seq(S)
      BY DEF CellsOf
<1> HIDE DEF old
<1>3. /\ kept \in Seq(S) /\ Distinct(kept) /\ Len(kept) <= Len(old)
      /\ \A i \in DOMAIN kept : \E j \in DOMAIN old : kept[i] = old[j] /\ Retained(old[j], acc)
      BY <1>2, RetainKeeps DEF old
<1>4. \A i \in DOMAIN kept : Retained(kept[i], acc) /\ kept[i].thread \in Threads
      BY <1>3
<1> HIDE DEF kept
<1>5. CASE dup
      BY <1>1, <1>3, <1>5
<1>6. CASE ~dup
  <2>1. /\ Len(kept) \in Nat /\ DOMAIN kept = 1 .. Len(kept)
        /\ Append(kept, acc) \in Seq(S) /\ DOMAIN Append(kept, acc) = 1 .. Len(kept) + 1
        /\ Len(Append(kept, acc)) = Len(kept) + 1
        /\ \A i \in 1 .. Len(kept) : Append(kept, acc)[i] = kept[i]
        /\ Append(kept, acc)[Len(kept) + 1] = acc
        BY <1>3
  <2>2. \A i \in 1 .. Len(kept) : kept[i].thread # acc.thread
        BY <1>4, <1>6, <2>1 DEF Retained, SameReader
  <2> DEFINE q == Append(kept, acc)
  <2>3. \A i \in DOMAIN q : q[i].thread \in Threads
    <3> SUFFICES ASSUME NEW i \in DOMAIN q PROVE q[i].thread \in Threads
        OBVIOUS
    <3>1. CASE i \in 1 .. Len(kept)
          BY <1>4, <2>1, <3>1
    <3>2. CASE i = Len(kept) + 1
          BY <2>1, <3>2
    <3>3. QED BY <2>1, <3>1, <3>2
  <2>4. Distinct(q)
    <3> SUFFICES ASSUME NEW i \in DOMAIN q, NEW j \in DOMAIN q, i # j
                 PROVE  q[i].thread # q[j].thread
        BY DEF Distinct
    <3> HIDE DEF q
    <3>1. /\ i \in 1 .. Len(kept) \/ i = Len(kept) + 1
          /\ j \in 1 .. Len(kept) \/ j = Len(kept) + 1
          BY <2>1 DEF q
    <3>2. \A k \in 1 .. Len(kept) : q[k] = kept[k]
          BY <2>1 DEF q
    <3>3. q[Len(kept) + 1] = acc
          BY <2>1 DEF q
    <3>4. CASE i \in 1 .. Len(kept) /\ j \in 1 .. Len(kept)
          BY <1>3, <2>1, <3>2, <3>4 DEF Distinct
    <3>5. QED BY <2>2, <3>1, <3>2, <3>3, <3>4
  <2>5. NumBlocks * ThreadsPerBlock <= MaxReaders \/ Len(old) < MaxReaders => Len(kept) < MaxReaders
    <3>1. Len(q) <= NumBlocks * ThreadsPerBlock
          BY <2>1, <2>3, <2>4, DistinctFit
    <3>2. NumBlocks * ThreadsPerBlock \in Nat /\ MaxReaders \in Nat /\ Len(old) \in Nat
          BY <1>2, GeometryAssumption, ShadowAssumption
    <3>3. QED BY <1>3, <2>1, <3>1, <3>2
  <2>6. rs = IF Len(kept) < MaxReaders THEN q ELSE kept
        BY <1>6
  <2>7. Len(kept) + 1 \in DOMAIN q /\ q[Len(kept) + 1] = acc
        BY <2>1
  <2> HIDE DEF rs, q
  <2>8. SameReader(q[Len(kept) + 1], acc)
        BY <2>7 DEF SameReader
  <2>9. CASE Len(kept) < MaxReaders
        BY <1>1, <2>4, <2>6, <2>7, <2>8, <2>9
  <2>10. CASE ~(Len(kept) < MaxReaders)
    <3>1. Distinct(OnRead(cell, acc).readers)
          BY <1>1, <1>3, <2>6, <2>10
    <3>2. QED BY <2>5, <2>10, <3>1 DEF old
  <2>11. QED BY <2>9, <2>10
<1>7. QED BY <1>5, <1>6

\* on_write leaves one access in the cell.
LEMMA OnWriteRecords ==
    ASSUME NEW S, NEW cell \in CellsOf(S), NEW acc \in S
    PROVE  LET new == OnWrite(cell, acc)
           IN  /\ new \in CellsOf(S)
               /\ new.init = TRUE /\ new.last_write = acc /\ new.readers = <<>>
               /\ new.release = cell.release
BY EmptySeq DEF OnWrite, CellsOf

\* What a read conflicts with is the last write, and concurrent with it.
LEMMA ReadConflictIsConcurrent ==
    ASSUME NEW cell, NEW acc, NEW now, NEW a \in ReadConflict(cell, acc, now)
    PROVE  a = cell.last_write /\ a # NoAccess /\ Concurrent(a, acc, now)
BY DEF ReadConflict, ConcurrentWrite

\* What a write conflicts with is in the cell, and concurrent with it.
LEMMA WriteConflictIsConcurrent ==
    ASSUME NEW cell, NEW acc, NEW now, NEW a \in WriteConflict(cell, acc, now)
    PROVE  /\ Concurrent(a, acc, now)
           /\ \/ a = cell.last_write /\ a # NoAccess
              \/ \E i \in DOMAIN cell.readers : a = cell.readers[i]
BY DEF WriteConflict, ConcurrentWrite

\* A write that finds a concurrent access in the cell conflicts with one.
LEMMA WriteConflictIsFound ==
    ASSUME NEW S, NEW cell \in CellsOf(S), NEW acc, NEW now,
           \/ ConcurrentWrite(cell, acc, now)
           \/ \E i \in DOMAIN cell.readers : Concurrent(cell.readers[i], acc, now)
    PROVE  WriteConflict(cell, acc, now) # {}
<1> DEFINE racing == {i \in DOMAIN cell.readers : Concurrent(cell.readers[i], acc, now)}
<1>1. CASE ConcurrentWrite(cell, acc, now)
      BY <1>1 DEF WriteConflict
<1>2. CASE ~ConcurrentWrite(cell, acc, now)
  <2>1. racing # {}
        BY <1>2
  <2>2. racing \subseteq Nat
    <3>1. cell.readers \in Seq(S)
          BY DEF CellsOf
    <3>2. QED BY <3>1
  <2> HIDE DEF racing
  <2>3. PICK j \in racing : \A k \in racing : ~(<<k, j>> \in OpToRel(<, Nat))
        BY <2>1, <2>2, NatLessThanWellFounded, WFMin
  <2>4. \A k \in racing : ~(k < j)
        BY <2>2, <2>3 DEF OpToRel
  <2>5. \A k \in racing : j <= k
        BY <2>2, <2>4
  <2>6. QED BY <1>2, <2>5 DEF WriteConflict, racing
<1>3. QED BY <1>1, <1>2
=============================================================================
