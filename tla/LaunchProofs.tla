---------------------------- MODULE LaunchProofs ----------------------------
(***************************************************************************)
(* The launch loop, its waves and its reporter, for every grid, number of  *)
(* resident blocks, kernel and limit of diagnostics.                       *)
(***************************************************************************)
EXTENDS Launch, ShadowProofs

(***************************************************************************)
(* Numbers.                                                                *)
(***************************************************************************)
\* Division against a product, and of a sum.
LEMMA Quotient ==
    ASSUME NEW a \in Nat, NEW m \in Nat, NEW n \in Nat \ {0}
    PROVE  /\ a \div n \in Nat
           /\ a < m * n <=> a \div n < m
           /\ (m * n + a) \div n = m + (a \div n)
<1> DEFINE q == a \div n
           r == a % n
<1>1. q \in Nat /\ r \in 0 .. n - 1 /\ a = n * q + r
      OBVIOUS
<1>2. a < m * n <=> q < m
  <2>1. ASSUME q < m PROVE a < m * n
    <3> HIDE DEF q, r
    <3>1. PICK k \in Nat : m = q + 1 + k
      <4>1. m - q - 1 \in Nat /\ m = q + 1 + (m - q - 1)
            BY <1>1, <2>1
      <4>2. QED BY <4>1
    <3>2. m * n = n * q + n + n * k /\ n * k \in Nat
          BY <3>1, <1>1
    <3>3. QED BY <1>1, <3>2
  <2>2. ASSUME q >= m PROVE ~(a < m * n)
    <3> HIDE DEF q, r
    <3>1. PICK k \in Nat : q = m + k
      <4>1. q - m \in Nat /\ q = m + (q - m)
            BY <1>1, <2>2
      <4>2. QED BY <4>1
    <3>2. n * q = m * n + n * k /\ n * k \in Nat /\ m * n \in Nat
          BY <3>1, <1>1
    <3>3. QED BY <1>1, <3>2
  <2>3. QED BY <1>1, <2>1, <2>2
<1>3. (m * n + a) \div n = m + q
  <2> DEFINE x == m * n + a
             p == x \div n
             t == x % n
  <2>1. x \in Nat /\ p \in Nat /\ t \in 0 .. n - 1 /\ x = n * p + t
    <3>1. x \in Nat
          OBVIOUS
    <3> HIDE DEF x
    <3>2. QED BY <3>1
  <2>2. x = n * (m + q) + r
    <3> HIDE DEF q, r
    <3>1. QED BY <1>1
  <2> HIDE DEF p, t, q, r, x
  <2>3. ASSUME p < m + q PROVE FALSE
    <3>1. PICK k \in Nat : m + q = p + 1 + k
      <4>1. m + q - p - 1 \in Nat /\ m + q = p + 1 + (m + q - p - 1)
            BY <1>1, <2>1, <2>3
      <4>2. QED BY <4>1
    <3>2. n * (m + q) = n * p + n + n * k /\ n * k \in Nat /\ n * p \in Nat
          BY <3>1, <2>1
    <3>3. QED BY <1>1, <2>1, <2>2, <3>2
  <2>4. ASSUME p > m + q PROVE FALSE
    <3>1. PICK k \in Nat : p = m + q + 1 + k
      <4>1. p - m - q - 1 \in Nat /\ p = m + q + 1 + (p - m - q - 1)
            BY <1>1, <2>1, <2>4
      <4>2. QED BY <4>1
    <3>2. n * p = n * (m + q) + n + n * k /\ n * k \in Nat /\ n * (m + q) \in Nat
          BY <3>1, <1>1
    <3>3. QED BY <1>1, <2>1, <2>2, <3>2
  <2>5. QED BY <1>1, <2>1, <2>3, <2>4 DEF p, x
<1>4. QED BY <1>1, <1>2, <1>3


(***************************************************************************)
(* The reporter.  It keeps one diagnostic of each key, up to its limit.    *)
(***************************************************************************)
DiagRecords ==
    [kind : {"uninit", "race", "lane", "panic", "oob", "barrier"}, block : Nat,
     at : SUBSET (Locs \cup {NoLoc}), op : {"", "shfl", "shfl_up"}, what : Nat]

\* Only a shuffle names its operation.
Diags == {d \in DiagRecords : d.kind # "lane" => d.op = ""}

Keeps(r) ==
    /\ r \in [list : Seq(Diags), keys : SUBSET DiagRecords]
    /\ Len(r.list) <= MaxDiags
    /\ r.keys = {DedupKey(r.list[i]) : i \in DOMAIN r.list}
    /\ IsFiniteSet(r.keys) /\ Cardinality(r.keys) = Len(r.list)

\* What q keeps, having kept r, when it was told of d.
Kept(r, q, d) ==
    /\ r.keys \subseteq q.keys /\ Len(r.list) <= Len(q.list)
    /\ Len(q.list) = MaxDiags \/ DedupKey(d) \in q.keys

\* The key of a diagnostic.
LEMMA KeyTyped == ASSUME NEW d \in DiagRecords PROVE DedupKey(d) \in DiagRecords
BY DEF DedupKey, DiagRecords

\* `push` keeps a diagnostic, or has one of its key, or is full.
LEMMA PushOneKeeps ==
    ASSUME NEW r, Keeps(r), NEW d \in Diags
    PROVE  Keeps(PushOne(r, d)) /\ Kept(r, PushOne(r, d), d)
<1>1. /\ r.list \in Seq(Diags) /\ r.keys \subseteq DiagRecords /\ Len(r.list) \in Nat
      /\ Len(r.list) <= MaxDiags /\ r.keys = {DedupKey(r.list[i]) : i \in DOMAIN r.list}
      /\ IsFiniteSet(r.keys) /\ Cardinality(r.keys) = Len(r.list)
      BY DEF Keeps
<1>2. MaxDiags \in Nat /\ d \in DiagRecords /\ DedupKey(d) \in DiagRecords
      BY LaunchAssumption, KeyTyped DEF Diags
<1>3. CASE Len(r.list) < MaxDiags /\ DedupKey(d) \notin r.keys
  <2> DEFINE l == Append(r.list, d)
             k == r.keys \cup {DedupKey(d)}
             q == [list |-> l, keys |-> k]
  <2>1. PushOne(r, d) = q
        BY <1>3 DEF PushOne
  <2>2. /\ l \in Seq(Diags) /\ Len(l) = Len(r.list) + 1 /\ DOMAIN l = 1 .. Len(r.list) + 1
        /\ DOMAIN r.list = 1 .. Len(r.list)
        /\ \A i \in 1 .. Len(r.list) : l[i] = r.list[i]
        /\ l[Len(r.list) + 1] = d
        BY <1>1
  <2>3. IsFiniteSet(k) /\ Cardinality(k) = Len(l)
        BY <1>1, <1>3, <2>2, FS_AddElement
  <2>4. k = {DedupKey(l[i]) : i \in DOMAIN l}
    <3> HIDE DEF l
    <3>1. \A x \in r.keys : \E i \in 1 .. Len(r.list) + 1 : x = DedupKey(l[i])
      <4> SUFFICES ASSUME NEW x \in r.keys PROVE \E i \in 1 .. Len(r.list) + 1 : x = DedupKey(l[i])
          OBVIOUS
      <4>1. PICK i \in 1 .. Len(r.list) : x = DedupKey(r.list[i])
            BY <1>1, <2>2
      <4>2. i \in 1 .. Len(r.list) + 1 /\ x = DedupKey(l[i])
            BY <1>1, <2>2, <4>1
      <4>3. QED BY <4>2
    <3>2. Len(r.list) + 1 \in 1 .. Len(r.list) + 1
          BY <1>1
    <3>3. ASSUME NEW i \in 1 .. Len(r.list) + 1 PROVE DedupKey(l[i]) \in k
      <4>1. CASE i \in 1 .. Len(r.list)
            BY <1>1, <2>2, <4>1
      <4>2. CASE i = Len(r.list) + 1
            BY <2>2, <4>2
      <4>3. QED BY <1>1, <4>1, <4>2
    <3>4. QED BY <2>2, <3>1, <3>2, <3>3
  <2>5. Len(l) <= MaxDiags
        BY <1>1, <1>2, <1>3, <2>2
  <2>6. k \subseteq DiagRecords /\ r.keys \subseteq k /\ DedupKey(d) \in k /\ Len(r.list) <= Len(l)
        BY <1>1, <1>2, <2>2
  <2> HIDE DEF l, k
  <2>7. q.list = l /\ q.keys = k /\ q \in [list : Seq(Diags), keys : SUBSET DiagRecords]
        BY <2>2, <2>6
  <2> HIDE DEF q
  <2>8. q.keys = {DedupKey(q.list[i]) : i \in DOMAIN q.list}
        BY <2>4, <2>7, Zenon
  <2>9. Keeps(q)
        BY <2>3, <2>5, <2>7, <2>8 DEF Keeps
  <2>10. Kept(r, q, d)
        BY <2>6, <2>7 DEF Kept
  <2>11. QED BY <2>1, <2>9, <2>10, Zenon
<1>4. CASE ~(Len(r.list) < MaxDiags /\ DedupKey(d) \notin r.keys)
  <2>1. PushOne(r, d) = r
        BY <1>4 DEF PushOne
  <2>2. Len(r.list) = MaxDiags \/ DedupKey(d) \in r.keys
        BY <1>1, <1>2, <1>4
  <2>3. Kept(r, r, d)
        BY <1>1, <2>2 DEF Kept
  <2>4. QED BY <2>1, <2>3, Zenon
<1>5. QED BY <1>3, <1>4

Reported == [list |-> list, keys |-> keys]

\* So do the pushes of one step, of at most two diagnostics.
LEMMA PushKeeps ==
    ASSUME Keeps(Reported), NEW ds \in Seq(Diags), Len(ds) <= 2, Push(ds)
    PROVE  /\ Keeps(Reported')
           /\ keys \subseteq keys' /\ Len(list) <= Len(list')
           /\ \A i \in DOMAIN ds : Full' \/ DedupKey(ds[i]) \in keys'
           /\ pushed' = pushed \cup {ds[i] : i \in DOMAIN ds}
<1> DEFINE Body(f, i) == IF i = 0 THEN [list |-> list, keys |-> keys] ELSE PushOne(f[i - 1], ds[i])
           kept == CHOOSE f : f = [i \in 0 .. Len(ds) |-> Body(f, i)]
<1>1. /\ list' = kept[Len(ds)].list /\ keys' = kept[Len(ds)].keys
      /\ pushed' = pushed \cup {ds[i] : i \in DOMAIN ds}
      BY DEF Push
<1>2. /\ Len(ds) \in {0, 1, 2} /\ DOMAIN ds = 1 .. Len(ds) /\ \A i \in 1 .. Len(ds) : ds[i] \in Diags
  <2>1. Len(ds) \in Nat /\ DOMAIN ds = 1 .. Len(ds) /\ \A i \in 1 .. Len(ds) : ds[i] \in Diags
    <3> HIDE DEF kept
    <3>1. QED BY LenProperties, ElementOfSeq
  <2>2. Len(ds) \in {0, 1, 2}
        BY <2>1
  <2>3. QED BY <2>1, <2>2
<1>3. kept = [i \in 0 .. Len(ds) |-> Body(kept, i)]
  <2> DEFINE r0 == Reported
             r1 == PushOne(r0, ds[1])
             r2 == PushOne(r1, ds[2])
             f == [i \in 0 .. Len(ds) |-> IF i = 0 THEN r0 ELSE IF i = 1 THEN r1 ELSE r2]
  <2>1. f = [i \in 0 .. Len(ds) |-> Body(f, i)]
    <3> SUFFICES ASSUME NEW i \in 0 .. Len(ds) PROVE f[i] = Body(f, i)
        BY Zenon
    <3>1. i = 0 \/ i = 1 \/ i = 2
          BY <1>2
    <3>2. Len(ds) \in Nat
          OBVIOUS
    <3>3. CASE i = 0
          BY <3>3 DEF Reported
    <3>4. CASE i = 1
      <4>1. 0 \in 0 .. Len(ds) /\ f[0] = r0
            BY <3>2
      <4>2. QED BY <3>4, <4>1
    <3>5. CASE i = 2
      <4>1. 1 \in 0 .. Len(ds) /\ f[1] = r1
            BY <3>2, <3>5
      <4>2. QED BY <3>5, <4>1
    <3>6. QED BY <3>1, <3>3, <3>4, <3>5
  <2>2. QED BY <2>1
<1> HIDE DEF kept
<1>4. kept[0] = Reported
      BY <1>2, <1>3 DEF Reported
<1>5. \A i \in 1 .. Len(ds) : kept[i] = PushOne(kept[i - 1], ds[i])
  <2> SUFFICES ASSUME NEW i \in 1 .. Len(ds) PROVE kept[i] = PushOne(kept[i - 1], ds[i])
      OBVIOUS
  <2>1. i \in 0 .. Len(ds) /\ i # 0
        BY <1>2
  <2>2. kept[i] = Body(kept, i)
    <3> HIDE DEF Body
    <3>1. QED BY <1>3, <2>1
  <2>3. QED BY <2>1, <2>2
<1> DEFINE q == kept[Len(ds)]
<1>6. Keeps(q) /\ keys \subseteq q.keys /\ Len(list) <= Len(q.list)
         /\ \A i \in DOMAIN ds : Len(q.list) = MaxDiags \/ DedupKey(ds[i]) \in q.keys
  <2>0. Reported.keys = keys /\ Reported.list = list /\ Len(list) \in Nat
        BY DEF Reported, Keeps
  <2>1. CASE Len(ds) = 0
        BY <1>2, <1>4, <2>0, <2>1
  <2>2. CASE Len(ds) = 1
    <3>1. kept[1] = PushOne(Reported, ds[1]) /\ ds[1] \in Diags
          BY <1>2, <1>4, <1>5, <2>2
    <3>2. Keeps(kept[1]) /\ Kept(Reported, kept[1], ds[1])
          BY <3>1, PushOneKeeps
    <3>3. QED BY <1>2, <2>0, <2>2, <3>2 DEF Kept
  <2>3. CASE Len(ds) = 2
    <3>1. /\ kept[1] = PushOne(Reported, ds[1]) /\ ds[1] \in Diags
          /\ kept[2] = PushOne(kept[1], ds[2]) /\ ds[2] \in Diags
      <4>1. 1 \in 1 .. Len(ds) /\ 2 \in 1 .. Len(ds) /\ 2 - 1 = 1 /\ 1 - 1 = 0
            BY <2>3
      <4>2. QED BY <1>2, <1>4, <1>5, <4>1
    <3>2. Keeps(kept[1]) /\ Kept(Reported, kept[1], ds[1])
          BY <3>1, PushOneKeeps
    <3>3. Keeps(kept[2]) /\ Kept(kept[1], kept[2], ds[2])
          BY <3>1, <3>2, PushOneKeeps
    <3>4. Len(kept[1].list) \in Nat /\ Len(kept[2].list) \in Nat /\ Len(kept[2].list) <= MaxDiags /\ MaxDiags \in Nat
          BY <3>2, <3>3, LaunchAssumption DEF Keeps
    <3>5. keys \subseteq kept[2].keys /\ Len(list) <= Len(kept[2].list)
          BY <2>0, <3>2, <3>3, <3>4 DEF Kept
    <3>6. Len(kept[2].list) = MaxDiags \/ DedupKey(ds[1]) \in kept[2].keys
          BY <3>2, <3>3, <3>4 DEF Kept
    <3>7. Len(kept[2].list) = MaxDiags \/ DedupKey(ds[2]) \in kept[2].keys
          BY <3>3 DEF Kept
    <3>8. \A i \in DOMAIN ds : i = 1 \/ i = 2
          BY <1>2, <2>3
    <3>9. QED BY <2>3, <3>3, <3>5, <3>6, <3>7, <3>8
  <2>4. QED BY <1>2, <2>1, <2>2, <2>3
<1>7. Reported' = q
  <2>1. q \in [list : Seq(Diags), keys : SUBSET DiagRecords]
        BY <1>6 DEF Keeps
  <2> HIDE DEF q
  <2>2. q = [list |-> q.list, keys |-> q.keys]
        BY <2>1
  <2>3. list' = q.list /\ keys' = q.keys
        BY <1>1 DEF q
  <2>4. QED BY <2>2, <2>3 DEF Reported
<1> HIDE DEF q
<1>8. list' = q.list /\ keys' = q.keys
      BY <1>1 DEF q
<1>9. Keeps(Reported')
      BY <1>6, <1>7
<1>10. QED BY <1>1, <1>6, <1>8, <1>9 DEF Full


(***************************************************************************)
(* Types.                                                                  *)
(***************************************************************************)
Made == [thread : Threads, epoch : Nat, warp_epoch : {0}, seq : Nat \ {0},
         op : {"read", "write"}, at : Locs]

Events == [thread : Threads, elem : Elems, op : {"read", "write"}]

GridOK == resident \in 1 .. NumBlocks /\ first_block \in Blocks

SchedOK ==
    /\ status \in [Slots -> {"runnable", "barrier", "released", "finished"}]
    /\ barrier_gen \in [0 .. WaveBlocks(first_block) - 1 -> Nat]
    /\ barrier_loc \in [0 .. WaveBlocks(first_block) - 1 -> Locs \cup {NoLoc}]

SyncOK ==
    /\ seq \in [Threads -> Nat]
    /\ clock \in [Threads -> Clocks]
    /\ block \in [Blocks -> Clocks]

CellsOK ==
    /\ cells \in [Elems -> CellsOf(Made)]
    /\ \A e \in Elems : Len(cells[e].readers) <= MaxReaders

TypeInv ==
    /\ kernel \in Kernels
    /\ GridOK /\ SchedOK /\ SyncOK /\ CellsOK /\ Keeps(Reported)
    /\ aborted \in BOOLEAN /\ over \in BOOLEAN
    /\ hist \subseteq Events /\ pushed \subseteq Diags

\* Where a slot of the wave is in the grid.
LEMMA SlotPlaced ==
    ASSUME GridOK, NEW s \in Slots
    PROVE  /\ s \in Nat /\ Gid(s) \in Threads /\ WaveBlocks(first_block) \in Nat
           /\ WaveBlock(s) \in 0 .. WaveBlocks(first_block) - 1
           /\ BlockOf(Gid(s)) = first_block + WaveBlock(s) /\ BlockOf(Gid(s)) \in Blocks
<1> DEFINE w == WaveBlocks(first_block)
           n == ThreadsPerBlock
           f == first_block
<1>1. /\ n \in Nat \ {0} /\ NumBlocks \in Nat \ {0} /\ f \in Nat /\ f < NumBlocks
      /\ w \in Nat \ {0} /\ f + w <= NumBlocks
      BY GeometryAssumption DEF GridOK, Blocks, WaveBlocks
<1>2. s \in 0 .. w * n - 1
      BY DEF Slots, SlotsOf
<1> HIDE DEF w
<1>3. s \in Nat /\ s < w * n
  <2>1. w * n \in Nat
        BY <1>1
  <2>2. QED BY <1>2, <2>1
<1>4. s \div n \in Nat /\ s \div n < w /\ (f * n + s) \div n = f + (s \div n)
      BY <1>1, <1>3, Quotient
<1>5. f * n + s \in Nat /\ f * n + s < NumBlocks * n
  <2>1. f * n + s \in Nat
        BY <1>1, <1>3
  <2>2. (f * n + s) \div n < NumBlocks
        BY <1>1, <1>4
  <2> DEFINE a == f * n + s
  <2> HIDE DEF a
  <2>3. a < NumBlocks * n
        BY <1>1, <2>1, <2>2, Quotient DEF a
  <2>4. QED BY <2>1, <2>3 DEF a
<1>6. Gid(s) = f * n + s /\ WaveBlock(s) = s \div n
      BY DEF Gid, WaveBlock
<1>7. Gid(s) \in Threads
  <2>1. NumBlocks * n \in Nat
        BY <1>1
  <2>2. QED BY <1>5, <1>6, <2>1 DEF Threads
<1>8. BlockOf(Gid(s)) = f + WaveBlock(s)
      BY <1>4, <1>6 DEF BlockOf
<1>9. WaveBlock(s) \in 0 .. w - 1
      BY <1>1, <1>4, <1>6
<1>10. QED BY <1>1, <1>3, <1>7, <1>8, <1>9 DEF w, Blocks

\* The values of an access, by name.
AccOf(s, op, at) ==
    [thread |-> Gid(s), epoch |-> barrier_gen[WaveBlock(s)], warp_epoch |-> 0,
     seq |-> seq[Gid(s)] + 1, op |-> op, at |-> at]
NowOf(s) == Observe(clock[Gid(s)], Gid(s), seq[Gid(s)] + 1)
ConflictOf(s, e, op, at) ==
    IF op = "read" THEN ReadConflict(cells[e], AccOf(s, op, at), NowOf(s))
                   ELSE WriteConflict(cells[e], AccOf(s, op, at), NowOf(s))
RecordedOf(s, e, op, at) ==
    IF op = "read" THEN OnRead(cells[e], AccOf(s, op, at)) ELSE OnWrite(cells[e], AccOf(s, op, at))
UninitOf(s, e, op, at) ==
    IF op = "read" /\ ~cells[e].init
    THEN <<Diag("uninit", BlockOf(Gid(s)), {at}, "", 0)>> ELSE <<>>
RaceOf(s, e, op, at) ==
    IF ConflictOf(s, e, op, at) = {} THEN <<>>
    ELSE LET a == CHOOSE a \in ConflictOf(s, e, op, at) : TRUE
         IN  <<Diag("race", BlockOf(Gid(s)), {a.at, at}, "", 0)>>

\* An access in terms of its values.
AccessStep(s, e, op, at) ==
    /\ Running(s)
    /\ seq' = [seq EXCEPT ![Gid(s)] = @ + 1]
    /\ clock' = [clock EXCEPT ![Gid(s)] = NowOf(s)]
    /\ cells' = [cells EXCEPT ![e] = RecordedOf(s, e, op, at)]
    /\ Push(UninitOf(s, e, op, at) \o RaceOf(s, e, op, at))
    /\ hist' = hist \cup {[thread |-> Gid(s), elem |-> e, op |-> op]}
    /\ UNCHANGED <<kernel, resident, first_block, sched, block, aborted, over, started, returned>>

\* Access makes these steps.
LEMMA AccessSteps ==
    ASSUME NEW s, NEW e, NEW op, NEW at, Access(s, e, op, at) PROVE AccessStep(s, e, op, at)
<1>1. /\ Running(s)
      /\ seq' = [seq EXCEPT ![Gid(s)] = seq[Gid(s)] + 1]
      /\ clock' = [clock EXCEPT ![Gid(s)] = NowOf(s)]
      /\ cells' = [cells EXCEPT ![e] = RecordedOf(s, e, op, at)]
      /\ hist' = hist \cup {[thread |-> Gid(s), elem |-> e, op |-> op]}
      /\ UNCHANGED <<kernel, resident, first_block, sched, block, aborted, over, started, returned>>
      BY Zenon DEF Access, CanStep, ClockIndex, NowOf, AccOf, RecordedOf
<1>2. Push(UninitOf(s, e, op, at) \o RaceOf(s, e, op, at))
      BY Zenon DEF Access, ClockIndex, NowOf, AccOf, ConflictOf, UninitOf, RaceOf
<1>3. QED BY <1>1, <1>2 DEF AccessStep

\* Lists of at most two.
LEMMA ShortList ==
    ASSUME NEW S, NEW x \in S
    PROVE  /\ <<>> \o <<>> \in Seq(S) /\ Len(<<>> \o <<>>) <= 2
           /\ <<x>> \o <<>> \in Seq(S) /\ Len(<<x>> \o <<>>) <= 2
<1>1. <<>> \in Seq(S) /\ Len(<<>>) = 0 /\ <<x>> \in Seq(S) /\ Len(<<x>>) = 1
      OBVIOUS
<1>2. QED BY <1>1, ConcatProperties

\* A list of at most two that ends with y.
LEMMA ListEndsWith ==
    ASSUME NEW S, NEW x \in S, NEW y \in S, NEW q \in {<<>> \o <<y>>, <<x>> \o <<y>>}
    PROVE  q \in Seq(S) /\ Len(q) <= 2 /\ \E i \in DOMAIN q : q[i] = y
<1>1. PICK p \in {<<>>, <<x>>} : q = p \o <<y>>
      OBVIOUS
<1>2. p \in Seq(S) /\ Len(p) \in {0, 1}
  <2>1. <<>> \in Seq(S) /\ Len(<<>>) = 0 /\ <<x>> \in Seq(S) /\ Len(<<x>>) = 1
        OBVIOUS
  <2>2. CASE p = <<>>
        BY <2>1, <2>2
  <2>3. CASE p = <<x>>
        BY <2>1, <2>3
  <2>4. QED BY <2>2, <2>3
<1>3. <<y>> \in Seq(S) /\ Len(<<y>>) = 1 /\ <<y>>[1] = y
      OBVIOUS
<1> DEFINE z == <<y>>
<1> HIDE DEF z
<1>4. /\ p \o z \in Seq(S) /\ Len(p \o z) = Len(p) + Len(z)
      /\ \A i \in 1 .. Len(p) + Len(z) :
            (p \o z)[i] = IF i <= Len(p) THEN p[i] ELSE z[i - Len(p)]
      BY <1>2, <1>3, ConcatProperties DEF z
<1>5. /\ Len(p) + 1 \in 1 .. Len(p) + Len(z) /\ (Len(p) + 1) - Len(p) = 1
      /\ ~(Len(p) + 1 <= Len(p)) /\ Len(p) + Len(z) <= 2
  <2> DEFINE m == Len(p)
  <2>1. m \in {0, 1} /\ Len(z) = 1
        BY <1>2, <1>3 DEF z
  <2> HIDE DEF m
  <2>2. m + 1 \in 1 .. m + Len(z) /\ (m + 1) - m = 1 /\ ~(m + 1 <= m) /\ m + Len(z) <= 2
        BY <2>1
  <2>3. QED BY <2>2 DEF m
<1>6. (p \o z)[Len(p) + 1] = y
      BY <1>3, <1>4, <1>5 DEF z
<1>7. q = p \o z
      BY <1>1 DEF z
<1>8. DOMAIN q = 1 .. Len(p) + Len(z)
      BY <1>4, <1>7
<1>9. QED BY <1>4, <1>5, <1>6, <1>7, <1>8

\* The types of these values.  An access makes at most two diagnostics, and one
\* of a race if it has a conflict.
LEMMA AccessTyped ==
    ASSUME TypeInv, NEW s \in Slots, NEW e \in Elems, NEW op \in {"read", "write"}, NEW at \in Locs
    PROVE  LET ds == UninitOf(s, e, op, at) \o RaceOf(s, e, op, at)
           IN  /\ AccOf(s, op, at) \in Made /\ NowOf(s) \in Clocks
               /\ RecordedOf(s, e, op, at) \in CellsOf(Made)
               /\ Len(RecordedOf(s, e, op, at).readers) <= MaxReaders
               /\ ds \in Seq(Diags) /\ Len(ds) <= 2
               /\ ConflictOf(s, e, op, at) # {} => \E i \in DOMAIN ds : ds[i].kind = "race"
<1> DEFINE acc == AccOf(s, op, at)
           cell == cells[e]
<1>1. /\ Gid(s) \in Threads /\ BlockOf(Gid(s)) \in Nat
      /\ WaveBlock(s) \in 0 .. WaveBlocks(first_block) - 1
      BY SlotPlaced DEF TypeInv, Blocks
<1>2. /\ seq[Gid(s)] \in Nat /\ clock[Gid(s)] \in Clocks /\ barrier_gen[WaveBlock(s)] \in Nat
      /\ cell \in CellsOf(Made) /\ Len(cell.readers) <= MaxReaders
      BY <1>1 DEF TypeInv, SyncOK, SchedOK, CellsOK
<1>3. acc \in Made
      BY <1>1, <1>2 DEF AccOf, Made
<1>4. NowOf(s) \in Clocks
      BY <1>1, <1>2, ObserveRaises DEF NowOf
<1> HIDE DEF acc
<1>5. RecordedOf(s, e, op, at) \in CellsOf(Made) /\ Len(RecordedOf(s, e, op, at).readers) <= MaxReaders
  <2>1. CASE op = "read"
        BY <1>2, <1>3, <2>1, OnReadRecords DEF RecordedOf, acc
  <2>2. CASE op # "read"
    <3>1. Len(<<>>) <= MaxReaders
          BY ShadowAssumption
    <3>2. QED BY <1>2, <1>3, <2>2, <3>1, OnWriteRecords DEF RecordedOf, acc
  <2>3. QED BY <2>1, <2>2
<1>6. ConflictOf(s, e, op, at) \subseteq Made
  <2> SUFFICES ASSUME NEW a \in ConflictOf(s, e, op, at) PROVE a \in Made
      OBVIOUS
  <2>1. \/ a = cell.last_write /\ a # NoAccess
        \/ \E i \in DOMAIN cell.readers : a = cell.readers[i]
        BY ReadConflictIsConcurrent, WriteConflictIsConcurrent DEF ConflictOf
  <2>2. cell.last_write \in Made \cup {NoAccess} /\ cell.readers \in Seq(Made)
        BY <1>2 DEF CellsOf
  <2>3. QED BY <2>1, <2>2
<1> DEFINE u == Diag("uninit", BlockOf(Gid(s)), {at}, "", 0)
           a == CHOOSE a \in ConflictOf(s, e, op, at) : TRUE
           r == Diag("race", BlockOf(Gid(s)), {a.at, at}, "", 0)
<1>7. u \in Diags
      BY <1>1 DEF Diag, Diags, DiagRecords
<1>8. ConflictOf(s, e, op, at) # {} => r \in Diags /\ r.kind = "race"
  <2> SUFFICES ASSUME ConflictOf(s, e, op, at) # {} PROVE r \in Diags /\ r.kind = "race"
      OBVIOUS
  <2>1. a \in Made
        BY <1>6
  <2>2. a.at \in Locs
        BY <2>1 DEF Made
  <2> HIDE DEF a
  <2>3. QED BY <1>1, <2>2 DEF Diag, Diags, DiagRecords
<1>9. UninitOf(s, e, op, at) = <<>> \/ UninitOf(s, e, op, at) = <<u>>
      BY DEF UninitOf
<1>10. RaceOf(s, e, op, at) = IF ConflictOf(s, e, op, at) = {} THEN <<>> ELSE <<r>>
      BY DEF RaceOf
<1> HIDE DEF u, r, a, cell
<1> DEFINE ds == UninitOf(s, e, op, at) \o RaceOf(s, e, op, at)
<1>11. /\ ds \in Seq(Diags) /\ Len(ds) <= 2
       /\ ConflictOf(s, e, op, at) # {} => \E i \in DOMAIN ds : ds[i].kind = "race"
  <2>1. CASE ConflictOf(s, e, op, at) = {}
    <3>1. ds = <<>> \o <<>> \/ ds = <<u>> \o <<>>
          BY <1>9, <1>10, <2>1
    <3> HIDE DEF ds
    <3>2. ds \in Seq(Diags) /\ Len(ds) <= 2
          BY <1>7, <3>1, ShortList
    <3>3. QED BY <2>1, <3>2
  <2>2. CASE ConflictOf(s, e, op, at) # {}
    <3>1. ds = <<>> \o <<r>> \/ ds = <<u>> \o <<r>>
          BY <1>9, <1>10, <2>2
    <3>2. r \in Diags /\ r.kind = "race"
          BY <1>8, <2>2
    <3> HIDE DEF ds
    <3>3. ds \in Seq(Diags) /\ Len(ds) <= 2 /\ \E i \in DOMAIN ds : ds[i] = r
      <4>1. \A x \in Diags, y \in Diags : \A q \in {<<>> \o <<y>>, <<x>> \o <<y>>} :
                q \in Seq(Diags) /\ Len(q) <= 2 /\ \E i \in DOMAIN q : q[i] = y
            BY ListEndsWith, Zenon
      <4>2. ds \in {<<>> \o <<r>>, <<u>> \o <<r>>}
            BY <3>1, Zenon
      <4>3. QED BY <1>7, <3>2, <4>1, <4>2, Zenon
    <3>4. QED BY <3>2, <3>3
  <2>3. QED BY <2>1, <2>2
<1>12. QED BY <1>3, <1>4, <1>5, <1>11 DEF acc

\* What the reporter does in a step that tells it of the diagnostics D.
Tells(D) ==
    /\ Keeps(Reported') /\ keys \subseteq keys' /\ Len(list) <= Len(list')
    /\ \A d \in D : Full' \/ DedupKey(d) \in keys'
    /\ pushed' = pushed \cup D

\* A step that pushes one diagnostic.
LEMMA OneIsTold ==
    ASSUME Keeps(Reported), NEW d \in Diags, Push(<<d>>) PROVE Tells({d})
<1> DEFINE ds == <<d>>
<1>1. ds \in Seq(Diags) /\ Len(ds) = 1 /\ DOMAIN ds = {1} /\ ds[1] = d
      OBVIOUS
<1>2. Push(ds)
      OBVIOUS
<1> HIDE DEF ds
<1>3. Len(ds) <= 2
      BY <1>1
<1>4. /\ Keeps(Reported') /\ keys \subseteq keys' /\ Len(list) <= Len(list')
      /\ \A i \in DOMAIN ds : Full' \/ DedupKey(ds[i]) \in keys'
      /\ pushed' = pushed \cup {ds[i] : i \in DOMAIN ds}
      BY <1>1, <1>2, <1>3, PushKeeps, Zenon
<1>5. {ds[i] : i \in DOMAIN ds} = {d}
      BY <1>1
<1>6. QED BY <1>1, <1>4, <1>5 DEF Tells

\* A step that pushes none.
LEMMA NoneIsTold ==
    ASSUME Keeps(Reported), UNCHANGED <<list, keys, pushed>> PROVE Tells({})
<1>1. Reported' = Reported /\ Len(list) \in Nat
      BY DEF Reported, Keeps
<1>2. Keeps(Reported')
      BY <1>1, Zenon
<1>3. QED BY <1>1, <1>2 DEF Tells

\* The wave of a step that does not end it.
LEMMA SameWave ==
    ASSUME UNCHANGED <<resident, first_block>>
    PROVE  /\ WaveBlocks(first_block)' = WaveBlocks(first_block) /\ Slots' = Slots
           /\ GridOK' <=> GridOK
BY DEF WaveBlocks, Slots, SlotsOf, GridOK

\* What an access leaves.
LEMMA AccessKeepsTypes ==
    ASSUME TypeInv, NEW s \in Slots, NEW e \in Elems, NEW op \in {"read", "write"}, NEW at \in Locs,
           AccessStep(s, e, op, at)
    PROVE  /\ GridOK' /\ SchedOK' /\ SyncOK' /\ CellsOK' /\ hist' \subseteq Events
           /\ \E D \in SUBSET Diags :
                 /\ Tells(D)
                 /\ ConflictOf(s, e, op, at) # {} => \E d \in D : d.kind = "race"
<1> DEFINE ds == UninitOf(s, e, op, at) \o RaceOf(s, e, op, at)
<1>1. /\ NowOf(s) \in Clocks /\ RecordedOf(s, e, op, at) \in CellsOf(Made)
      /\ Len(RecordedOf(s, e, op, at).readers) <= MaxReaders
      /\ ds \in Seq(Diags) /\ Len(ds) <= 2
      /\ ConflictOf(s, e, op, at) # {} => \E i \in DOMAIN ds : ds[i].kind = "race"
      BY AccessTyped
<1>2. /\ seq' = [seq EXCEPT ![Gid(s)] = @ + 1] /\ clock' = [clock EXCEPT ![Gid(s)] = NowOf(s)]
      /\ cells' = [cells EXCEPT ![e] = RecordedOf(s, e, op, at)] /\ Push(ds)
      /\ hist' = hist \cup {[thread |-> Gid(s), elem |-> e, op |-> op]}
      /\ UNCHANGED <<kernel, resident, first_block, sched, block>>
      BY Zenon DEF AccessStep
<1> HIDE DEF ds
<1>3. Gid(s) \in Threads
      BY SlotPlaced DEF TypeInv
<1>4. GridOK' /\ SchedOK'
      BY <1>2, SameWave DEF TypeInv, SchedOK, sched
<1>5. SyncOK'
      BY <1>1, <1>2, <1>3 DEF TypeInv, SyncOK
<1>6. CellsOK'
  <2> DEFINE new == RecordedOf(s, e, op, at)
  <2>1. new \in CellsOf(Made) /\ Len(new.readers) <= MaxReaders
        BY <1>1
  <2>2. cells' = [cells EXCEPT ![e] = new]
        BY <1>2
  <2> HIDE DEF new
  <2>3. cells \in [Elems -> CellsOf(Made)] /\ \A x \in Elems : Len(cells[x].readers) <= MaxReaders
        BY DEF TypeInv, CellsOK
  <2>4. cells' \in [Elems -> CellsOf(Made)]
        BY <2>1, <2>2, <2>3
  <2>5. ASSUME NEW x \in Elems PROVE Len(cells'[x].readers) <= MaxReaders
        BY <2>1, <2>2, <2>3
  <2>6. QED BY <2>4, <2>5 DEF CellsOK
<1>7. hist' \subseteq Events
      BY <1>2, <1>3 DEF TypeInv, Events
<1>8. /\ Keeps(Reported') /\ keys \subseteq keys' /\ Len(list) <= Len(list')
      /\ \A i \in DOMAIN ds : Full' \/ DedupKey(ds[i]) \in keys'
      /\ pushed' = pushed \cup {ds[i] : i \in DOMAIN ds}
      BY <1>1, <1>2, PushKeeps, Zenon DEF TypeInv
<1> DEFINE D == {ds[i] : i \in DOMAIN ds}
<1>9. D \in SUBSET Diags /\ Tells(D)
  <2>1. \A i \in DOMAIN ds : ds[i] \in Diags
        BY <1>1, ElementOfSeq, LenProperties
  <2>2. QED BY <1>8, <2>1 DEF Tells
<1>10. ConflictOf(s, e, op, at) # {} => \E d \in D : d.kind = "race"
      BY <1>1
<1> HIDE DEF D
<1>11. QED BY <1>4, <1>5, <1>6, <1>7, <1>9, <1>10, Zenon

\* A step that leaves cells and accesses alone, and types what it changes.
OtherStep ==
    /\ GridOK' /\ SchedOK' /\ SyncOK'
    /\ UNCHANGED <<kernel, cells, hist>>
    /\ \E D \in SUBSET Diags : Tells(D)

\* A shuffle from outside its mask reports and changes nothing else.
LEMMA ShuffleKeepsTypes ==
    ASSUME TypeInv, NEW s \in Slots, NEW op \in {"shfl", "shfl_up"}, NEW at \in Locs,
           NEW src \in 0 .. WarpSize - 1, ShuffleOutside(s, op, at, src)
    PROVE  OtherStep
<1> DEFINE d == Diag("lane", BlockOf(Gid(s)), {at}, op, src)
<1>1. Push(<<d>>) /\ UNCHANGED <<kernel, resident, first_block, sched, sync, cells, hist>>
      BY Zenon DEF ShuffleOutside
<1>2. d \in Diags
  <2>1. BlockOf(Gid(s)) \in Nat /\ src \in Nat
        BY SlotPlaced, GeometryAssumption DEF TypeInv, Blocks
  <2>2. QED BY <2>1 DEF Diag, Diags, DiagRecords
<1> HIDE DEF d
<1>3. Tells({d})
      BY <1>1, <1>2, OneIsTold, Zenon DEF TypeInv
<1>4. GridOK' /\ SchedOK' /\ SyncOK'
      BY <1>1, SameWave DEF TypeInv, SchedOK, SyncOK, sched, sync
<1>5. {d} \in SUBSET Diags
      BY <1>2
<1>6. QED BY <1>1, <1>3, <1>4, <1>5, Zenon DEF OtherStep

\* Out of bounds and panics report, and stop the launch.
LEMMA CrashKeepsTypes ==
    ASSUME TypeInv, NEW s \in Slots, NEW op, NEW at \in Locs, Crash(s, op, at)
    PROVE  OtherStep /\ aborted'
<1> DEFINE p == Diag("panic", BlockOf(Gid(s)), {}, "", 1)
           o == Diag("oob", BlockOf(Gid(s)), {at}, "", 0)
           d == IF op = "panic" THEN p ELSE o
<1>1. /\ Push(<<d>>) /\ aborted' = TRUE
      /\ UNCHANGED <<kernel, resident, first_block, sched, sync, cells, hist>>
      BY Zenon DEF Crash, Fail
<1>2. d \in Diags
  <2>1. BlockOf(Gid(s)) \in Nat
        BY SlotPlaced DEF TypeInv, Blocks
  <2>2. p \in Diags
        BY <2>1 DEF Diag, Diags, DiagRecords
  <2>3. o \in Diags
        BY <2>1 DEF Diag, Diags, DiagRecords
  <2> HIDE DEF p, o
  <2>4. QED BY <2>2, <2>3
<1> HIDE DEF d
<1>3. Tells({d})
      BY <1>1, <1>2, OneIsTold, Zenon DEF TypeInv
<1>4. GridOK' /\ SchedOK' /\ SyncOK'
      BY <1>1, SameWave DEF TypeInv, SchedOK, SyncOK, sched, sync
<1>5. {d} \in SUBSET Diags
      BY <1>2
<1>6. QED BY <1>1, <1>3, <1>4, <1>5, Zenon DEF OtherStep

\* A barrier joins the clock of the block; it finishes nobody.
LEMMA SyncKeepsTypes ==
    ASSUME TypeInv, NEW s \in Slots, NEW at \in Locs, SyncThreads(s, at)
    PROVE  /\ OtherStep
           /\ block' = [block EXCEPT ![BlockOf(Gid(s))] = Join(@, clock[Gid(s)])]
           /\ UNCHANGED <<resident, first_block, seq, clock, over, started, returned>>
           /\ aborted' \in BOOLEAN /\ (aborted => aborted')
           /\ \A r \in Slots : status'[r] = "finished" => status[r] = "finished"
<1> DEFINE b == WaveBlock(s)
           mates == BlockSlots(s) \ {s}
           loc == IF barrier_loc[b] = NoLoc THEN at ELSE barrier_loc[b]
           d == Divergence(s, loc)
<1>1. /\ block' = [block EXCEPT ![BlockOf(Gid(s))] = Join(@, clock[Gid(s)])]
      /\ UNCHANGED <<kernel, resident, first_block, seq, clock, cells, over, hist, started, returned>>
      /\ \/ /\ status' = [status EXCEPT ![s] = "barrier"]
            /\ barrier_loc' = [barrier_loc EXCEPT ![b] = loc]
            /\ Push(<<d>>) /\ aborted' = TRUE
            /\ UNCHANGED barrier_gen
         \/ /\ status' = [r \in Slots |-> IF r \in mates \cup {s} THEN "released" ELSE status[r]]
            /\ barrier_gen' = [barrier_gen EXCEPT ![b] = @ + 1]
            /\ barrier_loc' = [barrier_loc EXCEPT ![b] = NoLoc]
            /\ UNCHANGED <<list, keys, aborted, pushed>>
         \/ /\ status' = [status EXCEPT ![s] = "barrier"]
            /\ barrier_loc' = [barrier_loc EXCEPT ![b] = loc]
            /\ UNCHANGED <<barrier_gen, list, keys, aborted, pushed>>
  <2> HIDE DEF mates
  <2>1. QED BY Zenon DEF SyncThreads, Fail, ClockIndex, reporter, mates
<1>2. /\ Gid(s) \in Threads /\ b \in 0 .. WaveBlocks(first_block) - 1 /\ b \in Nat
      /\ BlockOf(Gid(s)) \in Blocks
      BY SlotPlaced DEF TypeInv
<1>3. loc \in Locs \cup {NoLoc}
      BY <1>2 DEF TypeInv, SchedOK
<1>4. d \in Diags
  <2> HIDE DEF loc
  <2>1. QED BY <1>2, <1>3 DEF Divergence, Diag, Diags, DiagRecords
<1> HIDE DEF b, mates, loc, d
<1>5. Keeps(Reported) /\ aborted \in BOOLEAN
      BY DEF TypeInv
<1>6. /\ status \in [Slots -> {"runnable", "barrier", "released", "finished"}]
      /\ barrier_gen \in [0 .. WaveBlocks(first_block) - 1 -> Nat]
      /\ barrier_loc \in [0 .. WaveBlocks(first_block) - 1 -> Locs \cup {NoLoc}]
      BY DEF TypeInv, SchedOK
<1>7. GridOK' /\ WaveBlocks(first_block)' = WaveBlocks(first_block) /\ Slots' = Slots
      BY <1>1, SameWave DEF TypeInv
<1>8. /\ status' \in [Slots -> {"runnable", "barrier", "released", "finished"}]
      /\ \A r \in Slots : status'[r] = "finished" => status[r] = "finished"
      /\ barrier_gen' \in [0 .. WaveBlocks(first_block) - 1 -> Nat]
      /\ barrier_loc' \in [0 .. WaveBlocks(first_block) - 1 -> Locs \cup {NoLoc}]
  <2>1. barrier_gen' \in [0 .. WaveBlocks(first_block) - 1 -> Nat]
    <3>1. CASE UNCHANGED barrier_gen
          BY <1>6, <3>1
    <3>2. CASE barrier_gen' = [barrier_gen EXCEPT ![b] = @ + 1]
          BY <1>2, <1>6, <3>2
    <3>3. QED BY <1>1, <3>1, <3>2
  <2>2. barrier_loc' \in [0 .. WaveBlocks(first_block) - 1 -> Locs \cup {NoLoc}]
    <3>1. CASE barrier_loc' = [barrier_loc EXCEPT ![b] = loc]
          BY <1>2, <1>3, <1>6, <3>1
    <3>2. CASE barrier_loc' = [barrier_loc EXCEPT ![b] = NoLoc]
          BY <1>2, <1>6, <3>2
    <3>3. QED BY <1>1, <3>1, <3>2
  <2>3. /\ status' \in [Slots -> {"runnable", "barrier", "released", "finished"}]
        /\ \A r \in Slots : status'[r] = "finished" => status[r] = "finished"
    <3>1. CASE status' = [status EXCEPT ![s] = "barrier"]
          BY <1>6, <3>1
    <3>2. CASE status' = [r \in Slots |-> IF r \in mates \cup {s} THEN "released" ELSE status[r]]
          BY <1>6, <3>2
    <3>3. QED BY <1>1, <3>1, <3>2
  <2>4. QED BY <2>1, <2>2, <2>3
<1>9. SchedOK'
      BY <1>7, <1>8 DEF SchedOK
<1>10. SyncOK'
  <2>1. clock[Gid(s)] \in Clocks /\ block[BlockOf(Gid(s))] \in Clocks
        BY <1>2 DEF TypeInv, SyncOK
  <2>2. Join(block[BlockOf(Gid(s))], clock[Gid(s)]) \in Clocks
        BY <2>1, JoinIsLeast
  <2>3. QED BY <1>1, <1>2, <2>2 DEF TypeInv, SyncOK
<1>11. /\ \E D \in SUBSET Diags : Tells(D)
       /\ aborted' \in BOOLEAN /\ (aborted => aborted')
  <2>1. CASE Push(<<d>>) /\ aborted' = TRUE
    <3>1. Tells({d}) /\ {d} \in SUBSET Diags
          BY <1>4, <1>5, <2>1, OneIsTold
    <3>2. QED BY <2>1, <3>1, Zenon
  <2>2. CASE UNCHANGED <<list, keys, aborted, pushed>>
    <3>1. Tells({}) /\ {} \in SUBSET Diags
          BY <1>5, <2>2, NoneIsTold
    <3>2. aborted' = aborted
          BY <2>2
    <3>3. QED BY <1>5, <3>1, <3>2, Zenon
  <2>3. QED BY <1>1, <2>1, <2>2, Zenon
<1>12. QED BY <1>1, <1>7, <1>8, <1>9, <1>10, <1>11, Zenon DEF OtherStep

\* A thread that leaves a barrier takes on the clock of its block.
LEMMA DepartKeepsTypes ==
    ASSUME TypeInv, NEW s \in Slots, BarrierDepart(s)
    PROVE  /\ OtherStep
           /\ clock' = [clock EXCEPT ![Gid(s)] = Join(@, block[BlockOf(Gid(s))])]
           /\ UNCHANGED <<resident, first_block, seq, block, aborted, over, started, returned>>
           /\ ~aborted /\ status[s] = "released" /\ status' = [status EXCEPT ![s] = "runnable"]
<1>1. /\ ~aborted /\ status[s] = "released" /\ status' = [status EXCEPT ![s] = "runnable"]
      /\ clock' = [clock EXCEPT ![Gid(s)] = Join(@, block[BlockOf(Gid(s))])]
      /\ UNCHANGED <<kernel, resident, first_block, barrier_gen, barrier_loc, seq, block, cells,
                     list, keys, aborted, over, hist, pushed, started, returned>>
      BY Zenon DEF BarrierDepart, ClockIndex, reporter, past
<1>2. Gid(s) \in Threads /\ BlockOf(Gid(s)) \in Blocks
      BY SlotPlaced DEF TypeInv
<1>3. GridOK' /\ WaveBlocks(first_block)' = WaveBlocks(first_block) /\ Slots' = Slots
      BY <1>1, SameWave DEF TypeInv
<1>4. SchedOK'
      BY <1>1, <1>3 DEF TypeInv, SchedOK
<1>5. SyncOK'
  <2>1. clock[Gid(s)] \in Clocks /\ block[BlockOf(Gid(s))] \in Clocks
        BY <1>2 DEF TypeInv, SyncOK
  <2>2. Join(clock[Gid(s)], block[BlockOf(Gid(s))]) \in Clocks
        BY <2>1, JoinIsLeast
  <2>3. QED BY <1>1, <1>2, <2>2 DEF TypeInv, SyncOK
<1>6. Tells({}) /\ {} \in SUBSET Diags
      BY <1>1, NoneIsTold DEF TypeInv
<1>7. QED BY <1>1, <1>3, <1>4, <1>5, <1>6, Zenon DEF OtherStep

\* A thread returns, and reports if block-mates wait for it.
LEMMA FinishKeepsTypes ==
    ASSUME TypeInv, NEW s \in Slots, Finish(s)
    PROVE  /\ OtherStep
           /\ UNCHANGED <<resident, first_block, sync, over, started>>
           /\ Running(s) /\ status' = [status EXCEPT ![s] = "finished"]
           /\ returned' = returned \cup {Gid(s)}
           /\ aborted' \in BOOLEAN /\ (aborted => aborted')
<1> DEFINE d == Divergence(s, barrier_loc[WaveBlock(s)])
<1>1. /\ Running(s) /\ status' = [status EXCEPT ![s] = "finished"]
      /\ returned' = returned \cup {Gid(s)}
      /\ UNCHANGED <<kernel, resident, first_block, barrier_gen, barrier_loc, sync, cells, over,
                     hist, started>>
      /\ (Push(<<d>>) /\ aborted' = TRUE) \/ UNCHANGED <<list, keys, aborted, pushed>>
      BY Zenon DEF Finish, Fail, reporter
<1>2. WaveBlock(s) \in 0 .. WaveBlocks(first_block) - 1 /\ WaveBlock(s) \in Nat
      BY SlotPlaced DEF TypeInv
<1>3. d \in Diags
  <2> DEFINE loc == barrier_loc[WaveBlock(s)]
  <2>1. loc \in Locs \cup {NoLoc}
        BY <1>2 DEF TypeInv, SchedOK
  <2> HIDE DEF loc
  <2>2. Divergence(s, loc) \in Diags
        BY <1>2, <2>1 DEF Divergence, Diag, Diags, DiagRecords
  <2>3. QED BY <2>2 DEF loc
<1> HIDE DEF d
<1>4. GridOK' /\ WaveBlocks(first_block)' = WaveBlocks(first_block) /\ Slots' = Slots
      BY <1>1, SameWave DEF TypeInv
<1>5. SchedOK' /\ SyncOK'
      BY <1>1, <1>4 DEF TypeInv, SchedOK, SyncOK, sync
<1>6. Keeps(Reported) /\ aborted \in BOOLEAN
      BY DEF TypeInv
<1>7. /\ \E D \in SUBSET Diags : Tells(D)
      /\ aborted' \in BOOLEAN /\ (aborted => aborted')
  <2>1. CASE Push(<<d>>) /\ aborted' = TRUE
    <3>1. Tells({d}) /\ {d} \in SUBSET Diags
          BY <1>3, <1>6, <2>1, OneIsTold
    <3>2. QED BY <2>1, <3>1, Zenon
  <2>2. CASE UNCHANGED <<list, keys, aborted, pushed>>
    <3>1. Tells({}) /\ {} \in SUBSET Diags
          BY <1>6, <2>2, NoneIsTold
    <3>2. aborted' = aborted
          BY <2>2
    <3>3. QED BY <1>6, <3>1, <3>2, Zenon
  <2>3. QED BY <1>1, <2>1, <2>2, Zenon
<1>8. QED BY <1>1, <1>4, <1>5, <1>7, Zenon DEF OtherStep

\* The end of a wave: the report, or the wave behind it.
LEMMA EndWaveKeepsTypes ==
    ASSUME TypeInv, EndWave
    PROVE  /\ OtherStep /\ over' \in BOOLEAN
           /\ UNCHANGED <<resident, sync, aborted, returned>>
           /\ aborted \/ \A s \in Slots : status[s] = "finished"
           /\ LET next == first_block + WaveBlocks(first_block)
              IN  \/ /\ over' = TRUE /\ (aborted \/ next >= NumBlocks)
                     /\ UNCHANGED <<first_block, sched, started>>
                  \/ /\ ~aborted /\ next < NumBlocks /\ first_block' = next
                     /\ status' = [s \in Slots' |-> "runnable"]
                     /\ over' = FALSE
                     /\ started' = [t \in DOMAIN started |->
                              IF t - next * ThreadsPerBlock \in Slots'
                              THEN started[t] + 1 ELSE started[t]]
<1> DEFINE next == first_block + WaveBlocks(first_block)
<1>1. /\ ~over /\ (aborted \/ \A s \in Slots : status[s] = "finished")
      /\ UNCHANGED <<kernel, resident, sync, cells, list, keys, aborted, hist, pushed, returned>>
      /\ \/ Stops(next) /\ over' = TRUE /\ UNCHANGED <<first_block, sched, started>>
         \/ /\ ~Stops(next) /\ first_block' = next
            /\ status' = [s \in SlotsOf(next) |-> "runnable"]
            /\ barrier_gen' = [b \in 0 .. WaveBlocks(next) - 1 |-> 0]
            /\ barrier_loc' = [b \in 0 .. WaveBlocks(next) - 1 |-> NoLoc]
            /\ started' = [t \in DOMAIN started |->
                              IF t - next * ThreadsPerBlock \in SlotsOf(next)
                              THEN started[t] + 1 ELSE started[t]]
            /\ UNCHANGED over
      BY Zenon DEF EndWave, reporter
<1>2. /\ resident \in 1 .. NumBlocks /\ first_block \in Nat /\ first_block < NumBlocks
      /\ NumBlocks \in Nat /\ next \in Nat /\ next > first_block
      BY GeometryAssumption DEF TypeInv, GridOK, Blocks, WaveBlocks
<1>3. Tells({}) /\ {} \in SUBSET Diags
      BY <1>1, NoneIsTold DEF TypeInv
<1>4. SyncOK'
      BY <1>1 DEF TypeInv, SyncOK, sync
<1>5. CASE Stops(next) /\ over' = TRUE /\ UNCHANGED <<first_block, sched, started>>
  <2>1. aborted \/ next >= NumBlocks
        BY <1>5 DEF Stops
  <2>2. GridOK' /\ SchedOK'
        BY <1>1, <1>5, SameWave DEF TypeInv, SchedOK, sched
  <2> HIDE DEF next
  <2>3. OtherStep
        BY <1>1, <1>3, <1>4, <2>2, Zenon DEF OtherStep
  <2>4. over' \in BOOLEAN
        BY <1>5
  <2>5. QED BY <1>1, <1>5, <2>1, <2>3, <2>4, Zenon DEF next
<1>6. CASE /\ ~Stops(next) /\ first_block' = next
           /\ status' = [s \in SlotsOf(next) |-> "runnable"]
           /\ barrier_gen' = [b \in 0 .. WaveBlocks(next) - 1 |-> 0]
           /\ barrier_loc' = [b \in 0 .. WaveBlocks(next) - 1 |-> NoLoc]
           /\ started' = [t \in DOMAIN started |->
                              IF t - next * ThreadsPerBlock \in SlotsOf(next)
                              THEN started[t] + 1 ELSE started[t]]
           /\ UNCHANGED over
  <2>1. ~aborted /\ next < NumBlocks
        BY <1>2, <1>6 DEF Stops
  <2>2. WaveBlocks(first_block)' = WaveBlocks(next) /\ Slots' = SlotsOf(next)
    <3> HIDE DEF next
    <3>1. QED BY <1>1, <1>6 DEF Slots, SlotsOf, WaveBlocks
  <2>3. over' = FALSE
        BY <1>1, <1>6 DEF TypeInv
  <2> HIDE DEF next
  <2>4. GridOK'
        BY <1>1, <1>2, <1>6, <2>1 DEF GridOK, Blocks
  <2>5. SchedOK'
        BY <1>6, <2>2 DEF SchedOK
  <2>6. OtherStep
        BY <1>1, <1>3, <1>4, <2>4, <2>5, Zenon DEF OtherStep
  <2>7. /\ status' = [s \in Slots' |-> "runnable"]
        /\ started' = [t \in DOMAIN started |->
                              IF t - next * ThreadsPerBlock \in Slots'
                              THEN started[t] + 1 ELSE started[t]]
        BY <1>6, <2>2
  <2>8. first_block' = next /\ over' \in BOOLEAN
        BY <1>6, <2>3
  <2>9. QED BY <1>1, <2>1, <2>3, <2>6, <2>7, <2>8, Zenon DEF next
<1>7. QED BY <1>1, <1>5, <1>6, Zenon

\* The steps of a launch.
LEMMA StepKinds ==
    ASSUME [Next]_vars, NEW Goal,
           \A s \in Slots, e \in Elems, op \in {"read", "write"}, at \in Locs :
               Access(s, e, op, at) => Goal,
           \A s \in Slots, op \in {"shfl", "shfl_up"}, at \in Locs, src \in 0 .. WarpSize - 1 :
               ShuffleOutside(s, op, at, src) => Goal,
           \A s \in Slots, at \in Locs : SyncThreads(s, at) => Goal,
           \A s \in Slots, op \in {"oob", "panic"}, at \in Locs : Crash(s, op, at) => Goal,
           \A s \in Slots : BarrierDepart(s) => Goal,
           \A s \in Slots : Finish(s) => Goal,
           EndWave => Goal,
           UNCHANGED vars => Goal
    PROVE  Goal
BY Zenon DEF Next

\* How a launch begins.
LEMMA InitTyped == Init => TypeInv
<1> SUFFICES ASSUME Init PROVE TypeInv
    OBVIOUS
<1>1. resident \in 1 .. NumBlocks /\ first_block = 0 /\ NumBlocks \in Nat \ {0}
  <2>1. PICK r \in Residents : resident = Clamp(r)
        BY DEF Init
  <2>2. r \in Nat \ {0} /\ NumBlocks \in Nat \ {0} /\ first_block = 0
        BY LaunchAssumption, GeometryAssumption DEF Init
  <2>3. QED BY <2>1, <2>2 DEF Clamp
<1>2. GridOK
      BY <1>1 DEF GridOK, Blocks
<1>3. WaveBlocks(first_block) = resident
      BY <1>1 DEF WaveBlocks
<1>4. SchedOK
  <2>1. Slots = 0 .. resident * ThreadsPerBlock - 1
        BY <1>3 DEF Slots, SlotsOf
  <2>2. QED BY <1>3, <2>1 DEF Init, SchedOK
<1>5. SyncOK
      BY NoClockKnowsNothing DEF Init, SyncOK
<1>6. CellsOK
  <2>1. \A e \in Elems : /\ NewCell(e \notin Fresh) \in CellsOf(Made)
                         /\ NewCell(e \notin Fresh).readers = <<>>
        BY NewCellIsEmpty
  <2>2. Len(<<>>) <= MaxReaders
        BY ShadowAssumption
  <2>3. cells = [e \in Elems |-> NewCell(e \notin Fresh)]
        BY DEF Init
  <2>4. QED BY <2>1, <2>2, <2>3 DEF CellsOK
<1>7. Keeps(Reported)
  <2>1. list = <<>> /\ keys = {}
        BY DEF Init
  <2>2. Reported = [list |-> <<>>, keys |-> {}]
        BY <2>1 DEF Reported
  <2>3. /\ Reported.list = <<>> /\ Reported.keys = {}
        /\ Reported \in [list : Seq(Diags), keys : SUBSET DiagRecords]
        BY <2>2
  <2>4. Len(<<>>) = 0 /\ DOMAIN <<>> = {} /\ 0 <= MaxDiags
        BY LaunchAssumption
  <2>5. IsFiniteSet({}) /\ Cardinality({}) = 0
        BY FS_EmptySet
  <2>6. QED BY <2>3, <2>4, <2>5 DEF Keeps
<1>8. QED BY <1>2, <1>4, <1>5, <1>6, <1>7 DEF Init, TypeInv

\* A typed change of the reporter.
LEMMA ToldTyped ==
    ASSUME pushed \subseteq Diags, \E D \in SUBSET Diags : Tells(D)
    PROVE  Keeps(Reported') /\ pushed' \subseteq Diags
BY DEF Tells

\* Every step keeps the types.
LEMMA NextTyped == TypeInv /\ [Next]_vars => TypeInv'
<1> SUFFICES ASSUME TypeInv, [Next]_vars PROVE TypeInv'
    OBVIOUS
<1>1. /\ kernel \in Kernels /\ aborted \in BOOLEAN /\ over \in BOOLEAN /\ hist \subseteq Events
      /\ pushed \subseteq Diags
      BY DEF TypeInv
<1>2. ASSUME OtherStep, aborted' \in BOOLEAN, over' \in BOOLEAN PROVE TypeInv'
  <2>1. /\ GridOK' /\ SchedOK' /\ SyncOK' /\ UNCHANGED <<kernel, cells, hist>>
        /\ Keeps(Reported') /\ pushed' \subseteq Diags
        BY <1>1, <1>2, ToldTyped, Zenon DEF OtherStep
  <2>2. CellsOK'
        BY <2>1 DEF TypeInv, CellsOK
  <2>3. QED BY <1>1, <1>2, <2>1, <2>2 DEF TypeInv
<1>3. ASSUME NEW s \in Slots, NEW e \in Elems, NEW op \in {"read", "write"}, NEW at \in Locs,
             Access(s, e, op, at)
      PROVE  TypeInv'
  <2>1. AccessStep(s, e, op, at)
        BY <1>3, AccessSteps, Zenon
  <2>2. GridOK' /\ SchedOK' /\ SyncOK' /\ CellsOK' /\ hist' \subseteq Events
        BY <2>1, AccessKeepsTypes, Zenon
  <2>3. Keeps(Reported') /\ pushed' \subseteq Diags
        BY <1>1, <2>1, AccessKeepsTypes, ToldTyped, Zenon
  <2>4. UNCHANGED <<kernel, aborted, over>>
        BY <2>1, Zenon DEF AccessStep
  <2>5. QED BY <1>1, <2>2, <2>3, <2>4 DEF TypeInv
<1>4. ASSUME NEW s \in Slots, NEW op \in {"shfl", "shfl_up"}, NEW at \in Locs,
             NEW src \in 0 .. WarpSize - 1, ShuffleOutside(s, op, at, src)
      PROVE  TypeInv'
  <2>1. OtherStep
        BY <1>4, ShuffleKeepsTypes, Zenon
  <2>2. UNCHANGED <<aborted, over>>
        BY <1>4, Zenon DEF ShuffleOutside
  <2>3. QED BY <1>1, <1>2, <2>1, <2>2
<1>5. ASSUME NEW s \in Slots, NEW at \in Locs, SyncThreads(s, at) PROVE TypeInv'
  <2>1. OtherStep /\ aborted' \in BOOLEAN /\ UNCHANGED over
        BY <1>5, SyncKeepsTypes, Zenon
  <2>2. QED BY <1>1, <1>2, <2>1
<1>6. ASSUME NEW s \in Slots, NEW op \in {"oob", "panic"}, NEW at \in Locs, Crash(s, op, at)
      PROVE  TypeInv'
  <2>1. OtherStep
        BY <1>6, CrashKeepsTypes, Zenon
  <2>2. aborted' = TRUE /\ over' = over
        BY <1>6, Zenon DEF Crash, Fail
  <2>3. QED BY <1>1, <1>2, <2>1, <2>2
<1>7. ASSUME NEW s \in Slots, BarrierDepart(s) PROVE TypeInv'
  <2>1. OtherStep /\ UNCHANGED <<aborted, over>>
        BY <1>7, DepartKeepsTypes, Zenon
  <2>2. QED BY <1>1, <1>2, <2>1
<1>8. ASSUME NEW s \in Slots, Finish(s) PROVE TypeInv'
  <2>1. OtherStep /\ aborted' \in BOOLEAN /\ UNCHANGED over
        BY <1>8, FinishKeepsTypes, Zenon
  <2>2. QED BY <1>1, <1>2, <2>1
<1>9. ASSUME EndWave PROVE TypeInv'
  <2>1. OtherStep /\ over' \in BOOLEAN /\ UNCHANGED aborted
        BY <1>9, EndWaveKeepsTypes, Zenon
  <2>2. QED BY <1>1, <1>2, <2>1
<1>10. ASSUME UNCHANGED vars PROVE TypeInv'
  <2>1. UNCHANGED <<kernel, resident, first_block, status, barrier_gen, barrier_loc, seq, clock,
                    block, cells, list, keys, aborted, over, hist, pushed>>
        BY <1>10 DEF vars, sched, sync, reporter, past
  <2>2. Tells({}) /\ {} \in SUBSET Diags
        BY <2>1, NoneIsTold DEF TypeInv
  <2>3. GridOK' /\ SchedOK' /\ SyncOK'
        BY <2>1, SameWave DEF TypeInv, SchedOK, SyncOK
  <2>4. OtherStep
        BY <2>1, <2>2, <2>3, Zenon DEF OtherStep
  <2>5. QED BY <1>1, <1>2, <2>1, <2>4
<1>11. QED BY <1>3, <1>4, <1>5, <1>6, <1>7, <1>8, <1>9, <1>10, StepKinds, Zenon

\* The slots, blocks and clocks of a launch have their types in every wave, and
\* the reporter has one key for each of its at most MAX_DIAGNOSTICS entries.
THEOREM LaunchTypeCorrect == Spec => []LaunchTypeOK
<1>1. TypeInv => LaunchTypeOK
      BY DEF TypeInv, GridOK, SchedOK, SyncOK, Keeps, Reported, Clocks, LaunchTypeOK
<1>2. QED BY <1>1, InitTyped, NextTyped, PTL DEF Spec

(***************************************************************************)
(* The reporter, over a launch.                                            *)
(***************************************************************************)
\* Whatever was pushed has its key among the keys, unless the list is full.
KeysInv == \A d \in pushed : Full \/ DedupKey(d) \in keys

\* Every step tells the reporter of some diagnostics, maybe none.
LEMMA StepTells ==
    ASSUME TypeInv, [Next]_vars PROVE \E D \in SUBSET Diags : Tells(D)
<1>1. ASSUME NEW s \in Slots, NEW e \in Elems, NEW op \in {"read", "write"}, NEW at \in Locs,
             Access(s, e, op, at)
      PROVE  \E D \in SUBSET Diags : Tells(D)
  <2>1. AccessStep(s, e, op, at)
        BY <1>1, AccessSteps, Zenon
  <2>2. QED BY <2>1, AccessKeepsTypes, Zenon
<1>2. ASSUME OtherStep PROVE \E D \in SUBSET Diags : Tells(D)
      BY <1>2, Zenon DEF OtherStep
<1>3. ASSUME UNCHANGED vars PROVE \E D \in SUBSET Diags : Tells(D)
  <2>1. UNCHANGED <<list, keys, pushed>>
        BY <1>3 DEF vars, reporter, past
  <2>2. Tells({}) /\ {} \in SUBSET Diags
        BY <2>1, NoneIsTold DEF TypeInv
  <2>3. QED BY <2>2, Zenon
<1> DEFINE Goal == \E D \in SUBSET Diags : Tells(D)
<1> HIDE DEF Goal
<1>4. QED BY <1>1, <1>2, <1>3, StepKinds, ShuffleKeepsTypes, CrashKeepsTypes, SyncKeepsTypes,
             DepartKeepsTypes, FinishKeepsTypes, EndWaveKeepsTypes, Zenon

\* What is told is remembered.
LEMMA ToldIsKept ==
    ASSUME TypeInv, NEW D \in SUBSET Diags, Tells(D)
    PROVE  /\ Full => Full'
           /\ KeysInv => KeysInv'
<1>1. /\ Len(list) \in Nat /\ Len(list') \in Nat /\ Len(list') <= MaxDiags
      /\ MaxDiags \in Nat /\ Len(list) <= Len(list')
      BY LaunchAssumption DEF TypeInv, Tells, Keeps, Reported
<1>2. Full => Full'
      BY <1>1 DEF Full
<1>3. keys \subseteq keys' /\ pushed' = pushed \cup D /\ \A d \in D : Full' \/ DedupKey(d) \in keys'
      BY DEF Tells
<1>4. QED BY <1>2, <1>3 DEF KeysInv

\* What is found is reported: a diagnostic that `push` does not keep has the
\* fingerprint of one in the list, unless the list is full or the two are
\* collectives at one location that differ in their operation only.
THEOREM FingerprintsAreKept == Spec => []FingerprintsKept
<1>1. Init => TypeInv /\ KeysInv
      BY InitTyped DEF Init, KeysInv
<1>2. TypeInv /\ KeysInv /\ [Next]_vars => TypeInv' /\ KeysInv'
  <2> SUFFICES ASSUME TypeInv, KeysInv, [Next]_vars PROVE TypeInv' /\ KeysInv'
      OBVIOUS
  <2>1. PICK D \in SUBSET Diags : Tells(D)
        BY StepTells, Zenon
  <2>2. QED BY <2>1, NextTyped, ToldIsKept, Zenon
<1>3. TypeInv /\ KeysInv => FingerprintsKept
  <2> SUFFICES ASSUME TypeInv, KeysInv, NEW d \in pushed, ~Full
               PROVE  \E i \in DOMAIN list :
                         \/ Fingerprint(list[i]) = Fingerprint(d)
                         \/ /\ d.kind = "lane"
                            /\ [Fingerprint(list[i]) EXCEPT !.op = d.op] = Fingerprint(d)
      BY DEF FingerprintsKept
  <2>1. list \in Seq(Diags) /\ keys = {DedupKey(list[i]) : i \in DOMAIN list} /\ d \in Diags
        BY DEF TypeInv, Keeps, Reported
  <2>2. PICK i \in DOMAIN list : DedupKey(d) = DedupKey(list[i])
        BY <2>1 DEF KeysInv
  <2>3. \A x, y \in Diags : DedupKey(x) = DedupKey(y) =>
            \/ Fingerprint(y) = Fingerprint(x)
            \/ x.kind = "lane" /\ [Fingerprint(y) EXCEPT !.op = x.op] = Fingerprint(x)
    <3> SUFFICES ASSUME NEW x \in Diags, NEW y \in Diags, DedupKey(x) = DedupKey(y)
                 PROVE  \/ Fingerprint(y) = Fingerprint(x)
                        \/ x.kind = "lane" /\ [Fingerprint(y) EXCEPT !.op = x.op] = Fingerprint(x)
        OBVIOUS
    <3>1. x \in DiagRecords /\ y \in DiagRecords /\ (x.kind # "lane" => x.op = "")
             /\ (y.kind # "lane" => y.op = "")
          BY DEF Diags
    <3>2. x.kind = y.kind /\ x.at = y.at /\ x.what = y.what
          BY <3>1 DEF DedupKey, DiagRecords
    <3>3. CASE x.kind # "lane"
          BY <3>1, <3>2, <3>3 DEF Fingerprint, DiagRecords
    <3>4. CASE x.kind = "lane"
          BY <3>1, <3>2, <3>4 DEF Fingerprint, DiagRecords
    <3>5. QED BY <3>3, <3>4
  <2>4. list[i] \in Diags
        BY <2>1, <2>2
  <2>5. QED BY <2>1, <2>2, <2>3, <2>4
<1>4. QED BY <1>1, <1>2, <1>3, PTL DEF Spec

(***************************************************************************)
(* The waves.                                                              *)
(***************************************************************************)
\* The end of the wave, in blocks.
WaveEnd == first_block + WaveBlocks(first_block)

\* The waves up to this one have started, those before it have returned, and
\* every wave begins a whole number of waves into the grid.
WaveInv ==
    /\ \E k \in Nat : first_block = k * resident
    /\ started = [t \in Threads |-> IF BlockOf(t) < WaveEnd THEN 1 ELSE 0]
    /\ returned \subseteq Threads
    /\ \A t \in Threads : BlockOf(t) < first_block => t \in returned
    /\ \A s \in Slots : status[s] = "finished" => Gid(s) \in returned
    /\ over /\ ~aborted => WaveEnd >= NumBlocks /\ \A s \in Slots : status[s] = "finished"

\* Which slot of a wave, if any, a thread of the grid takes.
LEMMA SlotOfThread ==
    ASSUME NEW f \in Nat, NEW w \in Nat, NEW t \in Nat
    PROVE  t - f * ThreadsPerBlock \in 0 .. w * ThreadsPerBlock - 1
              <=> f <= BlockOf(t) /\ BlockOf(t) < f + w
<1> DEFINE n == ThreadsPerBlock
           m == f + w
           c == m * n
           a == f * n
<1>1. n \in Nat \ {0} /\ m \in Nat
      BY GeometryAssumption
<1>2. BlockOf(t) \in Nat /\ (t < f * n <=> BlockOf(t) < f) /\ (t < m * n <=> BlockOf(t) < m)
      BY <1>1, Quotient DEF BlockOf
<1>3. c = a + w * n /\ a \in Nat /\ w * n \in Nat
      BY <1>1
<1>4. (t < a <=> BlockOf(t) < f) /\ (t < c <=> BlockOf(t) < f + w)
      BY <1>2
<1> DEFINE z == w * n
<1>5. c = a + z /\ a \in Nat /\ z \in Nat
      BY <1>3
<1> HIDE DEF a, c, z
<1>6. t - a \in 0 .. z - 1 <=> a <= t /\ t < c
      BY <1>5
<1>7. t - a \in 0 .. z - 1 <=> f <= BlockOf(t) /\ BlockOf(t) < f + w
      BY <1>2, <1>4, <1>5, <1>6
<1>8. QED BY <1>7 DEF a, z

\* The size of a wave: all resident blocks, or what is left.
LEMMA WaveSize ==
    ASSUME GridOK
    PROVE  /\ NumBlocks \in Nat \ {0} /\ resident \in Nat \ {0} /\ first_block \in Nat
           /\ WaveBlocks(first_block) \in Nat \ {0} /\ WaveEnd \in Nat /\ WaveEnd <= NumBlocks
           /\ WaveBlocks(first_block) <= resident /\ first_block < WaveEnd
           /\ WaveEnd < NumBlocks => WaveBlocks(first_block) = resident
BY GeometryAssumption DEF GridOK, Blocks, WaveBlocks, WaveEnd

\* A thread of this wave has a slot in it.
LEMMA ThreadHasSlot ==
    ASSUME GridOK, NEW t \in Threads, first_block <= BlockOf(t), BlockOf(t) < WaveEnd
    PROVE  \E s \in Slots : Gid(s) = t
<1> DEFINE s == t - first_block * ThreadsPerBlock
<1>1. t \in Nat
      BY ThreadPlaced
<1>2. s \in Slots
      BY <1>1, SlotOfThread, WaveSize DEF Slots, SlotsOf, WaveEnd
<1>3. Gid(s) = t
  <2> DEFINE a == first_block * ThreadsPerBlock
  <2>1. a \in Nat
        BY WaveSize, GeometryAssumption
  <2>2. Gid(s) = a + (t - a)
        BY DEF Gid
  <2> HIDE DEF a
  <2>3. QED BY <1>1, <2>1, <2>2
<1>4. QED BY <1>2, <1>3

\* How the first wave begins.
LEMMA InitWave == Init => WaveInv
<1> SUFFICES ASSUME Init PROVE WaveInv
    OBVIOUS
<1>1. GridOK /\ first_block = 0
      BY InitTyped DEF TypeInv, Init
<1>2. WaveBlocks(first_block) = resident /\ WaveEnd = resident /\ resident \in Nat \ {0}
  <2>1. NumBlocks \in Nat /\ resident \in 1 .. NumBlocks
        BY <1>1, WaveSize DEF GridOK
  <2>2. WaveBlocks(first_block) = resident
        BY <1>1, <2>1 DEF WaveBlocks
  <2>3. QED BY <1>1, <2>1, <2>2 DEF WaveEnd
<1>3. first_block = 0 * resident
      BY <1>1, <1>2
<1>4. ASSUME NEW t \in Threads PROVE t < resident * ThreadsPerBlock <=> BlockOf(t) < WaveEnd
      BY <1>2, ThreadPlaced, GeometryAssumption, Quotient DEF BlockOf
<1>5. started = [t \in Threads |-> IF BlockOf(t) < WaveEnd THEN 1 ELSE 0]
      BY <1>4 DEF Init
<1>6. \A t \in Threads : ~(BlockOf(t) < first_block)
      BY <1>1, ThreadPlaced DEF Blocks
<1>7. \A s \in Slots : status[s] # "finished"
  <2>1. Slots = 0 .. resident * ThreadsPerBlock - 1
        BY <1>2 DEF Slots, SlotsOf
  <2>2. QED BY <2>1 DEF Init
<1>8. over = FALSE /\ returned = {}
      BY DEF Init
<1>9. \E k \in Nat : first_block = k * resident
      BY <1>3
<1>10. QED BY <1>5, <1>6, <1>7, <1>8, <1>9 DEF WaveInv

\* A step of a thread of the wave that has not returned.
LEMMA WaveStays ==
    ASSUME TypeInv, WaveInv, NEW s \in Slots, ~aborted, status[s] # "finished",
           UNCHANGED <<resident, first_block, started, over>>,
           returned \subseteq returned', returned' \subseteq Threads,
           \A r \in Slots : status'[r] = "finished" => status[r] = "finished" \/ Gid(r) \in returned'
    PROVE  WaveInv'
<1>1. WaveEnd' = WaveEnd /\ Slots' = Slots /\ \A r : Gid(r)' = Gid(r)
      BY SameWave DEF WaveEnd, Gid
<1>2. ~over
      BY DEF WaveInv
<1>3. (\E k \in Nat : first_block = k * resident)'
      BY DEF WaveInv
<1>4. started' = [t \in Threads |-> IF BlockOf(t) < WaveEnd' THEN 1 ELSE 0]
      BY <1>1 DEF WaveInv
<1>5. \A t \in Threads : BlockOf(t) < first_block' => t \in returned'
      BY DEF WaveInv
<1>6. \A r \in Slots' : status'[r] = "finished" => Gid(r)' \in returned'
      BY <1>1 DEF WaveInv
<1>7. over' = over
      OBVIOUS
<1>8. QED BY <1>2, <1>3, <1>4, <1>5, <1>6, <1>7 DEF WaveInv

\* The wave behind this one begins, or the report is made.
LEMMA WaveEnds == ASSUME TypeInv, WaveInv, EndWave PROVE WaveInv'
<1> DEFINE next == WaveEnd
<1>1. /\ UNCHANGED <<resident, aborted, returned>> /\ GridOK'
      /\ aborted \/ \A s \in Slots : status[s] = "finished"
      /\ \/ over' = TRUE /\ (aborted \/ next >= NumBlocks) /\ UNCHANGED <<first_block, sched, started>>
         \/ /\ ~aborted /\ next < NumBlocks /\ first_block' = next
            /\ status' = [s \in Slots' |-> "runnable"] /\ over' = FALSE
            /\ started' = [t \in DOMAIN started |->
                              IF t - next * ThreadsPerBlock \in Slots'
                              THEN started[t] + 1 ELSE started[t]]
      BY EndWaveKeepsTypes, Zenon DEF OtherStep, WaveEnd
<1>2. CASE /\ over' = TRUE /\ (aborted \/ next >= NumBlocks)
           /\ UNCHANGED <<first_block, sched, started>>
  <2>1. WaveEnd' = WaveEnd /\ Slots' = Slots /\ (\A r : Gid(r)' = Gid(r)) /\ status' = status
        BY <1>1, <1>2, SameWave DEF WaveEnd, Gid, sched
  <2>2. (\E k \in Nat : first_block = k * resident)'
        BY <1>1, <1>2 DEF WaveInv
  <2>3. started' = [t \in Threads |-> IF BlockOf(t) < WaveEnd' THEN 1 ELSE 0]
        BY <1>2, <2>1 DEF WaveInv
  <2>4. \A r \in Slots' : status'[r] = "finished" => Gid(r)' \in returned'
        BY <1>1, <2>1 DEF WaveInv
  <2>5. \A t \in Threads : BlockOf(t) < first_block' => t \in returned'
        BY <1>1, <1>2 DEF WaveInv
  <2>6. returned' \subseteq Threads
        BY <1>1 DEF WaveInv
  <2>7. ~aborted' => WaveEnd' >= NumBlocks /\ \A s \in Slots' : status'[s] = "finished"
        BY <1>1, <1>2, <2>1
  <2>8. QED BY <2>2, <2>3, <2>4, <2>5, <2>6, <2>7 DEF WaveInv
<1>3. CASE /\ ~aborted /\ next < NumBlocks /\ first_block' = next
           /\ status' = [s \in Slots' |-> "runnable"] /\ over' = FALSE
           /\ started' = [t \in DOMAIN started |->
                              IF t - next * ThreadsPerBlock \in Slots'
                              THEN started[t] + 1 ELSE started[t]]
  <2> DEFINE w == WaveBlocks(first_block)'
  <2>1. GridOK /\ next \in Nat
        BY WaveSize DEF TypeInv
  <2>2. w \in Nat /\ w = WaveBlocks(next) /\ WaveEnd' = next + w
    <3>1. w = WaveBlocks(next) /\ WaveEnd' = next + w
      <4> HIDE DEF next
      <4>1. QED BY <1>1, <1>3 DEF WaveBlocks, WaveEnd
    <3>2. w \in Nat
      <4> DEFINE c == next
      <4>1. NumBlocks \in Nat /\ resident \in Nat /\ c < NumBlocks /\ c \in Nat
            BY <1>3, <2>1, WaveSize
      <4> HIDE DEF c
      <4>2. WaveBlocks(c) \in Nat
            BY <4>1 DEF WaveBlocks
      <4>3. QED BY <3>1, <4>2 DEF c
    <3>3. QED BY <3>1, <3>2
  <2>3. Slots' = 0 .. w * ThreadsPerBlock - 1
        BY DEF Slots, SlotsOf
  <2>4. PICK k \in Nat : first_block = k * resident
        BY DEF WaveInv
  <2>5. next = (k + 1) * resident
    <3>1. next = first_block + resident /\ resident \in Nat
          BY <1>3, <2>1, WaveSize DEF WaveEnd
    <3> HIDE DEF next
    <3>2. QED BY <2>4, <3>1
  <2>6. (\E j \in Nat : first_block = j * resident)'
    <3>1. k + 1 \in Nat /\ first_block' = (k + 1) * resident'
          BY <1>1, <1>3, <2>5
    <3>2. QED BY <3>1
  <2> HIDE DEF next, w
  <2>7. ASSUME NEW t \in Threads
        PROVE  started'[t] = IF BlockOf(t) < next + w THEN 1 ELSE 0
    <3>1. t \in Nat /\ BlockOf(t) \in Nat
          BY ThreadPlaced DEF Blocks
    <3>2. t - next * ThreadsPerBlock \in Slots' <=> next <= BlockOf(t) /\ BlockOf(t) < next + w
          BY <2>1, <2>2, <2>3, <3>1, SlotOfThread
    <3>3. started[t] = IF BlockOf(t) < next THEN 1 ELSE 0
          BY DEF WaveInv, next
    <3>4. started'[t] = IF next <= BlockOf(t) /\ BlockOf(t) < next + w
                        THEN started[t] + 1 ELSE started[t]
          BY <1>3, <3>2 DEF WaveInv
    <3>5. QED BY <2>1, <2>2, <3>1, <3>3, <3>4
  <2>8. started' = [t \in Threads |-> IF BlockOf(t) < WaveEnd' THEN 1 ELSE 0]
    <3>1. started' = [t \in Threads |-> started'[t]]
          BY <1>3 DEF WaveInv
    <3>2. QED BY <2>2, <2>7, <3>1
  <2>9. ASSUME NEW t \in Threads, BlockOf(t) < first_block' PROVE t \in returned'
    <3>1. BlockOf(t) < next /\ BlockOf(t) \in Nat /\ first_block \in Nat
          BY <1>3, <2>1, <2>9, ThreadPlaced, WaveSize DEF Blocks
    <3>2. CASE BlockOf(t) < first_block
          BY <1>1, <3>2 DEF WaveInv
    <3>3. CASE first_block <= BlockOf(t)
      <4>1. PICK s \in Slots : Gid(s) = t
            BY <2>1, <3>1, <3>3, ThreadHasSlot DEF next
      <4>2. QED BY <1>1, <1>3, <4>1 DEF WaveInv
    <3>4. QED BY <3>1, <3>2, <3>3
  <2>10. \A r \in Slots' : status'[r] # "finished"
        BY <1>3
  <2>11. returned' \subseteq Threads
        BY <1>1 DEF WaveInv
  <2>12. over' = FALSE
        BY <1>3
  <2>13. QED BY <2>6, <2>8, <2>9, <2>10, <2>11, <2>12 DEF WaveInv
<1>4. QED BY <1>1, <1>2, <1>3, Zenon

\* Every step of a launch keeps this account of its waves.
LEMMA NextWave == TypeInv /\ WaveInv /\ [Next]_vars => WaveInv'
<1> SUFFICES ASSUME TypeInv, WaveInv, [Next]_vars PROVE WaveInv'
    OBVIOUS
<1>1. returned \subseteq Threads
      BY DEF WaveInv
<1>2. ASSUME NEW s \in Slots, Running(s), UNCHANGED <<resident, first_block, started, over, returned>>,
             \A r \in Slots : status'[r] = "finished" => status[r] = "finished"
      PROVE  WaveInv'
  <2>1. ~aborted /\ status[s] # "finished"
        BY <1>2 DEF Running
  <2>2. returned \subseteq returned' /\ returned' \subseteq Threads
        BY <1>1, <1>2
  <2>3. UNCHANGED <<resident, first_block, started, over>>
        BY <1>2
  <2>4. QED BY <1>2, <2>1, <2>2, <2>3, WaveStays, Zenon
<1>3. ASSUME NEW s \in Slots, NEW e \in Elems, NEW op \in {"read", "write"}, NEW at \in Locs,
             Access(s, e, op, at)
      PROVE  WaveInv'
  <2>1. Running(s) /\ UNCHANGED <<resident, first_block, sched, over, started, returned>>
        BY <1>3, AccessSteps, Zenon DEF AccessStep
  <2>2. QED BY <1>2, <2>1 DEF sched
<1>4. ASSUME NEW s \in Slots, NEW op \in {"shfl", "shfl_up"}, NEW at \in Locs,
             NEW src \in 0 .. WarpSize - 1, ShuffleOutside(s, op, at, src)
      PROVE  WaveInv'
  <2>1. Running(s) /\ UNCHANGED <<resident, first_block, sched, over, started, returned>>
        BY <1>4, Zenon DEF ShuffleOutside, CanStep
  <2>2. QED BY <1>2, <2>1 DEF sched
<1>5. ASSUME NEW s \in Slots, NEW at \in Locs, SyncThreads(s, at) PROVE WaveInv'
  <2>1. Running(s)
        BY <1>5, Zenon DEF SyncThreads, CanStep
  <2>2. /\ UNCHANGED <<resident, first_block, over, started, returned>>
        /\ \A r \in Slots : status'[r] = "finished" => status[r] = "finished"
    <3>1. UNCHANGED <<resident, first_block, seq, clock, over, started, returned>>
          BY <1>5, SyncKeepsTypes, Zenon
    <3>2. \A r \in Slots : status'[r] = "finished" => status[r] = "finished"
          BY <1>5, SyncKeepsTypes, Zenon
    <3>3. QED BY <3>1, <3>2
  <2>3. QED BY <1>2, <2>1, <2>2
<1>6. ASSUME NEW s \in Slots, NEW op \in {"oob", "panic"}, NEW at \in Locs, Crash(s, op, at)
      PROVE  WaveInv'
  <2>1. Running(s) /\ UNCHANGED <<resident, first_block, sched, over, started, returned>>
        BY <1>6, Zenon DEF Crash, CanStep
  <2>2. QED BY <1>2, <2>1 DEF sched
<1>7. ASSUME NEW s \in Slots, BarrierDepart(s) PROVE WaveInv'
  <2>1. /\ UNCHANGED <<resident, first_block, seq, block, aborted, over, started, returned>>
        /\ ~aborted /\ status[s] = "released" /\ status' = [status EXCEPT ![s] = "runnable"]
        BY <1>7, DepartKeepsTypes, Zenon
  <2>2. status \in [Slots -> {"runnable", "barrier", "released", "finished"}]
        BY DEF TypeInv, SchedOK
  <2>3. \A r \in Slots : status'[r] = "finished" => status[r] = "finished"
        BY <2>1, <2>2
  <2>4. returned \subseteq returned' /\ returned' \subseteq Threads
        BY <1>1, <2>1
  <2>5. UNCHANGED <<resident, first_block, started, over>> /\ status[s] # "finished" /\ ~aborted
        BY <2>1
  <2>6. QED BY <2>3, <2>4, <2>5, WaveStays, Zenon
<1>8. ASSUME NEW s \in Slots, Finish(s) PROVE WaveInv'
  <2>1. /\ UNCHANGED <<resident, first_block, sync, over, started>>
        /\ Running(s) /\ status' = [status EXCEPT ![s] = "finished"]
        /\ returned' = returned \cup {Gid(s)}
        BY <1>8, FinishKeepsTypes, Zenon
  <2>2. status \in [Slots -> {"runnable", "barrier", "released", "finished"}] /\ Gid(s) \in Threads
        BY SlotPlaced DEF TypeInv, SchedOK
  <2>3. \A r \in Slots : status'[r] = "finished" => status[r] = "finished" \/ Gid(r) \in returned'
        BY <2>1, <2>2
  <2>4. returned \subseteq returned' /\ returned' \subseteq Threads
        BY <1>1, <2>1, <2>2
  <2>5. UNCHANGED <<resident, first_block, started, over>> /\ status[s] # "finished" /\ ~aborted
        BY <2>1 DEF Running
  <2>6. QED BY <2>3, <2>4, <2>5, WaveStays, Zenon
<1>9. ASSUME EndWave PROVE WaveInv'
      BY <1>9, WaveEnds
<1>10. ASSUME UNCHANGED vars PROVE WaveInv'
  <2>1. UNCHANGED <<resident, first_block, status, started, returned, over, aborted>>
        BY <1>10 DEF vars, sched, past
  <2>2. WaveEnd' = WaveEnd /\ Slots' = Slots /\ \A r : Gid(r)' = Gid(r)
        BY <2>1, SameWave DEF WaveEnd, Gid
  <2>3. QED BY <2>1, <2>2 DEF WaveInv
<1>11. QED BY <1>3, <1>4, <1>5, <1>6, <1>7, <1>8, <1>9, <1>10, StepKinds, Zenon

\* Every thread of the grid runs once, in its wave: none starts before every
\* thread of the waves before it has returned, and a launch that does not abort
\* ends when all have, also when the last wave of run_shared is short.
THEOREM GridIsCovered == Spec => []GridCovered
<1>1. TypeInv /\ WaveInv => GridCovered
  <2> SUFFICES ASSUME TypeInv, WaveInv PROVE GridCovered
      OBVIOUS
  <2>1. GridOK
        BY DEF TypeInv
  <2>2. \A t \in Threads : started[t] <= 1
        BY DEF WaveInv
  <2>3. ASSUME NEW t \in Threads, NEW u \in Threads, started[t] = 1, WaveOf(u) < WaveOf(t)
        PROVE  u \in returned
    <3> DEFINE x == BlockOf(t)
               y == BlockOf(u)
    <3>1. x \in Nat /\ y \in Nat
          BY ThreadPlaced DEF Blocks
    <3>2. x < WaveEnd
          BY <2>3 DEF WaveInv
    <3>3. PICK k \in Nat : first_block = k * resident
          BY DEF WaveInv
    <3>4. resident \in Nat \ {0} /\ WaveEnd <= first_block + resident /\ WaveEnd \in Nat
          BY <2>1, WaveSize DEF WaveEnd
    <3>5. k + 1 \in Nat
          OBVIOUS
    <3>6. y \div resident < x \div resident
          BY <2>3 DEF WaveOf
    <3> HIDE DEF x, y
    <3>7. x < (k + 1) * resident
      <4>1. (k + 1) * resident = k * resident + resident /\ k * resident \in Nat
            BY <3>4
      <4>2. QED BY <3>1, <3>2, <3>3, <3>4, <4>1
    <3>8. x \div resident < k + 1 /\ x \div resident \in Nat /\ y \div resident \in Nat
      <4>1. \A a, m \in Nat, n \in Nat \ {0} : a \div n \in Nat /\ (a < m * n <=> a \div n < m)
            BY Quotient, Zenon
      <4>2. x < (k + 1) * resident <=> x \div resident < k + 1
            BY <3>1, <3>4, <3>5, <4>1, Zenon
      <4>3. QED BY <3>1, <3>4, <3>7, <4>1, <4>2
    <3>9. y \div resident < k
          BY <3>6, <3>8
    <3>10. y < first_block
          BY <3>1, <3>3, <3>4, <3>9, Quotient
    <3>11. QED BY <3>10 DEF WaveInv, y
  <2>4. ASSUME over, ~aborted PROVE returned = Threads
    <3>1. WaveEnd >= NumBlocks /\ \A s \in Slots : status[s] = "finished"
          BY <2>4 DEF WaveInv
    <3>2. ASSUME NEW t \in Threads PROVE t \in returned
      <4>1. BlockOf(t) \in Nat /\ BlockOf(t) < NumBlocks /\ first_block \in Nat /\ WaveEnd \in Nat
                /\ NumBlocks \in Nat
            BY <2>1, ThreadPlaced, WaveSize DEF Blocks
      <4>2. CASE BlockOf(t) < first_block
            BY <4>2 DEF WaveInv
      <4>3. CASE first_block <= BlockOf(t)
        <5>1. BlockOf(t) < WaveEnd
              BY <3>1, <4>1
        <5>2. PICK s \in Slots : Gid(s) = t
              BY <2>1, <4>3, <5>1, ThreadHasSlot
        <5>3. QED BY <3>1, <5>2 DEF WaveInv
      <4>4. QED BY <4>1, <4>2, <4>3
    <3>3. QED BY <3>2 DEF WaveInv
  <2>5. QED BY <2>2, <2>3, <2>4 DEF GridCovered
<1>2. QED BY <1>1, InitTyped, NextTyped, InitWave, NextWave, PTL DEF Spec

(***************************************************************************)
(* Races between blocks.                                                   *)
(***************************************************************************)
\* Every cell has room for another reader, as it always has on a grid of no
\* more threads than a cell keeps readers.  Without this the theorem below is
\* false: the readers of one block can fill a cell, and a read of another block
\* is then forgotten.
CellsHaveRoom ==
    \/ NumBlocks * ThreadsPerBlock <= MaxReaders
    \/ \A e \in Elems : Len(cells[e].readers) < MaxReaders

\* Plain accesses and barriers tell a block nothing of the others.
ApartInv ==
    /\ \A t, u \in Threads : BlockOf(t) # BlockOf(u) => clock[t][u] = 0
    /\ \A b \in Blocks : \A u \in Threads : BlockOf(u) # b => block[b][u] = 0

\* No race was reported and the list had room for one.
Quiet == ~Full /\ \A k \in keys : k.kind # "race"

\* What the cell of e holds of the accesses of e, if none was reported.
HeldInv(e) ==
    \A h \in hist : h.elem = e =>
        /\ h.op = "write" => cells[e].last_write # NoAccess
        /\ cells[e].last_write # NoAccess => BlockOf(h.thread) = BlockOf(cells[e].last_write.thread)
        /\ cells[e].last_write = NoAccess =>
              \E i \in DOMAIN cells[e].readers :
                  BlockOf(cells[e].readers[i].thread) = BlockOf(h.thread)

QuietInv ==
    /\ \A e \in Elems : Distinct(cells[e].readers)
    /\ Quiet => \A e \in Elems : HeldInv(e)

\* An access raises the entry of its own thread.
LEMMA NowRaises ==
    ASSUME TypeInv, NEW s \in Slots
    PROVE  \A u \in Threads \ {Gid(s)} : NowOf(s)[u] = clock[Gid(s)][u]
<1>1. Gid(s) \in Threads
      BY SlotPlaced DEF TypeInv
<1>2. clock[Gid(s)] \in Clocks /\ seq[Gid(s)] + 1 \in Nat
      BY <1>1 DEF TypeInv, SyncOK
<1>3. \A c \in Clocks, t \in Threads, n \in Nat :
          \A u \in Threads \ {t} : Observe(c, t, n)[u] = c[u]
      BY DEF Observe, Clocks
<1>4. QED BY <1>1, <1>2, <1>3, Zenon DEF NowOf

\* Clocks are raised within their block only.
LEMMA NextApart == TypeInv /\ ApartInv /\ [Next]_vars => ApartInv'
<1> SUFFICES ASSUME TypeInv, ApartInv, [Next]_vars PROVE ApartInv'
    OBVIOUS
<1>1. clock \in [Threads -> Clocks] /\ block \in [Blocks -> Clocks] /\ seq \in [Threads -> Nat]
      BY DEF TypeInv, SyncOK
<1>2. ASSUME UNCHANGED <<clock, block>> PROVE ApartInv'
      BY <1>2 DEF ApartInv
<1>3. ASSUME NEW s \in Slots, NEW e \in Elems, NEW op \in {"read", "write"}, NEW at \in Locs,
             Access(s, e, op, at)
      PROVE  ApartInv'
  <2>1. clock' = [clock EXCEPT ![Gid(s)] = NowOf(s)] /\ UNCHANGED block
        BY <1>3, AccessSteps, Zenon DEF AccessStep
  <2>2. Gid(s) \in Threads
        BY SlotPlaced DEF TypeInv
  <2>3. \A u \in Threads \ {Gid(s)} : NowOf(s)[u] = clock[Gid(s)][u]
        BY NowRaises
  <2>4. ASSUME NEW t \in Threads, NEW u \in Threads, BlockOf(t) # BlockOf(u) PROVE clock'[t][u] = 0
    <3>1. CASE t = Gid(s)
          BY <1>1, <2>1, <2>2, <2>3, <2>4, <3>1 DEF ApartInv
    <3>2. CASE t # Gid(s)
          BY <1>1, <2>1, <2>2, <2>4, <3>2 DEF ApartInv
    <3>3. QED BY <3>1, <3>2
  <2>5. QED BY <2>1, <2>4 DEF ApartInv
<1>4. ASSUME NEW s \in Slots, NEW op \in {"shfl", "shfl_up"}, NEW at \in Locs,
             NEW src \in 0 .. WarpSize - 1, ShuffleOutside(s, op, at, src)
      PROVE  ApartInv'
      BY <1>2, <1>4, Zenon DEF ShuffleOutside, sync
<1>5. ASSUME NEW s \in Slots, NEW at \in Locs, SyncThreads(s, at) PROVE ApartInv'
  <2> DEFINE b == BlockOf(Gid(s))
  <2>1. block' = [block EXCEPT ![b] = Join(@, clock[Gid(s)])] /\ UNCHANGED clock
        BY <1>5, SyncKeepsTypes, Zenon
  <2>2. Gid(s) \in Threads /\ b \in Blocks
        BY SlotPlaced DEF TypeInv
  <2>3. block[b] \in Clocks /\ clock[Gid(s)] \in Clocks
        BY <1>1, <2>2
  <2>4. \A u \in Threads : Join(block[b], clock[Gid(s)])[u] \in {block[b][u], clock[Gid(s)][u]}
        BY <2>3, JoinIsLeast
  <2>5. ASSUME NEW c \in Blocks, NEW u \in Threads, BlockOf(u) # c PROVE block'[c][u] = 0
    <3>1. CASE c = b
      <4>1. block[b][u] = 0 /\ clock[Gid(s)][u] = 0
            BY <2>2, <2>5, <3>1 DEF ApartInv
      <4>2. block'[c] = Join(block[b], clock[Gid(s)])
            BY <1>1, <2>1, <2>2, <3>1
      <4>3. QED BY <2>4, <4>1, <4>2
    <3>2. CASE c # b
          BY <1>1, <2>1, <2>2, <2>5, <3>2 DEF ApartInv
    <3>3. QED BY <3>1, <3>2
  <2>6. QED BY <2>1, <2>5 DEF ApartInv
<1>6. ASSUME NEW s \in Slots, NEW op \in {"oob", "panic"}, NEW at \in Locs, Crash(s, op, at)
      PROVE  ApartInv'
      BY <1>2, <1>6, Zenon DEF Crash, sync
<1>7. ASSUME NEW s \in Slots, BarrierDepart(s) PROVE ApartInv'
  <2> DEFINE g == Gid(s)
             b == BlockOf(g)
  <2>1. clock' = [clock EXCEPT ![g] = Join(@, block[b])] /\ UNCHANGED block
        BY <1>7, DepartKeepsTypes, Zenon
  <2>2. g \in Threads /\ b \in Blocks
        BY SlotPlaced DEF TypeInv
  <2>3. block[b] \in Clocks /\ clock[g] \in Clocks
        BY <1>1, <2>2
  <2>4. \A u \in Threads : Join(clock[g], block[b])[u] \in {clock[g][u], block[b][u]}
        BY <2>3, JoinIsLeast
  <2>5. ASSUME NEW t \in Threads, NEW u \in Threads, BlockOf(t) # BlockOf(u) PROVE clock'[t][u] = 0
    <3>1. CASE t = g
      <4>1. block[b][u] = 0 /\ clock[g][u] = 0
            BY <2>2, <2>5, <3>1 DEF ApartInv
      <4>2. clock'[t] = Join(clock[g], block[b])
            BY <1>1, <2>1, <2>2, <3>1
      <4>3. QED BY <2>4, <4>1, <4>2
    <3>2. CASE t # g
          BY <1>1, <2>1, <2>2, <2>5, <3>2 DEF ApartInv
    <3>3. QED BY <3>1, <3>2
  <2>6. QED BY <2>1, <2>5 DEF ApartInv
<1>8. ASSUME NEW s \in Slots, Finish(s) PROVE ApartInv'
      BY <1>2, <1>8, FinishKeepsTypes, Zenon DEF sync
<1>9. ASSUME EndWave PROVE ApartInv'
      BY <1>2, <1>9, EndWaveKeepsTypes, Zenon DEF sync
<1>10. ASSUME UNCHANGED vars PROVE ApartInv'
      BY <1>2, <1>10 DEF vars, sync
<1>11. QED BY <1>3, <1>4, <1>5, <1>6, <1>7, <1>8, <1>9, <1>10, StepKinds, Zenon

\* An access of another block that is in the cell is concurrent with this one.
LEMMA OtherBlockRaces ==
    ASSUME TypeInv, ApartInv, NEW s \in Slots, NEW op \in {"read", "write"}, NEW at \in Locs,
           NEW a \in Made, BlockOf(a.thread) # BlockOf(Gid(s))
    PROVE  Concurrent(a, AccOf(s, op, at), NowOf(s))
<1>1. Gid(s) \in Threads /\ a.thread \in Threads /\ a.seq \in Nat \ {0} /\ a.op \in {"read", "write"}
      BY SlotPlaced DEF TypeInv, Made
<1>2. a.thread # Gid(s)
      OBVIOUS
<1>3. NowOf(s)[a.thread] = 0
  <2>1. \A u \in Threads \ {Gid(s)} : NowOf(s)[u] = clock[Gid(s)][u]
        BY NowRaises
  <2>2. clock[Gid(s)][a.thread] = 0
        BY <1>1 DEF ApartInv
  <2>3. QED BY <1>1, <1>2, <2>1, <2>2
<1>4. AccOf(s, op, at).thread = Gid(s)
      BY DEF AccOf
<1>5. ~IsAtomic(a)
      BY <1>1 DEF IsAtomic
<1>6. QED BY <1>1, <1>2, <1>3, <1>4, <1>5 DEF Concurrent

\* An access without a conflict leaves the cell holding what it should.
LEMMA AccessHeld ==
    ASSUME CellsHaveRoom, TypeInv, ApartInv,
           NEW s \in Slots, NEW e \in Elems, NEW op \in {"read", "write"}, NEW at \in Locs,
           AccessStep(s, e, op, at), Distinct(cells[e].readers)
    PROVE  /\ Distinct(cells'[e].readers)
           /\ HeldInv(e) /\ ConflictOf(s, e, op, at) = {} => HeldInv(e)'
<1> DEFINE g == Gid(s)
           old == cells[e]
           acc == AccOf(s, op, at)
           now == NowOf(s)
           new == RecordedOf(s, e, op, at)
           h0 == [thread |-> g, elem |-> e, op |-> op]
<1>1. cells'[e] = new /\ hist' = hist \cup {h0}
      BY Zenon DEF AccessStep, TypeInv, CellsOK
<1>2. g \in Threads /\ acc \in Made /\ now \in Clocks /\ acc.thread = g
      BY SlotPlaced, AccessTyped DEF TypeInv, AccOf
<1>3. old \in CellsOf(Made) /\ Len(old.readers) <= MaxReaders
      BY DEF TypeInv, CellsOK
<1>4. /\ old.last_write \in Made \cup {NoAccess} /\ old.readers \in Seq(Made)
      BY <1>3 DEF CellsOf
<1>5. acc # NoAccess
  <2>1. acc.thread \in Nat
        BY <1>2, ThreadPlaced
  <2>2. NoAccess.thread = -1
        BY DEF NoAccess
  <2> HIDE DEF acc
  <2>3. QED BY <2>1, <2>2
<1>6. \A a \in Made : BlockOf(a.thread) # BlockOf(g) => Concurrent(a, acc, now)
      BY OtherBlockRaces
<1>7. \A a \in Made : a.thread \in Threads
      BY DEF Made
<1>8. \A i \in DOMAIN old.readers : old.readers[i] \in Made
      BY <1>4, ElementOfSeq, LenProperties
<1>9. h0.thread = g /\ h0.elem = e /\ h0.op = op
      OBVIOUS
<1> DEFINE lw == old.last_write
           rs == old.readers
\* The last write, if there is one, is of this block.
<1>10. ASSUME ConflictOf(s, e, op, at) = {}, lw # NoAccess PROVE BlockOf(lw.thread) = BlockOf(g)
  <2>1. ~ConcurrentWrite(old, acc, now)
    <3>1. CASE op = "read"
          BY <1>10, <3>1 DEF ConflictOf, ReadConflict
    <3>2. CASE op # "read"
      <4>1. WriteConflict(old, acc, now) = {}
            BY <1>10, <3>2 DEF ConflictOf
      <4> HIDE DEF acc, now, old
      <4>2. QED BY <1>3, <4>1, WriteConflictIsFound, Zenon
    <3>3. QED BY <3>1, <3>2
  <2>2. lw \in Made
        BY <1>4, <1>10
  <2> HIDE DEF acc, now
  <2>3. QED BY <1>6, <1>10, <2>1, <2>2 DEF ConcurrentWrite
<1>11. CASE op = "read"
  <2>1. new = OnRead(old, acc)
        BY <1>11 DEF RecordedOf
  <2> HIDE DEF acc, old, now
  <2>2. /\ new.last_write = old.last_write
        /\ \A j \in DOMAIN old.readers : Retained(old.readers[j], acc) =>
              \E i \in DOMAIN new.readers : new.readers[i] = old.readers[j]
        BY <1>2, <1>3, <2>1, OnReadRecords
  <2>3. Distinct(old.readers)
        BY DEF old
  <2>4. /\ Distinct(new.readers) /\ \E i \in DOMAIN new.readers : SameReader(new.readers[i], acc)
    <3>1. NumBlocks * ThreadsPerBlock <= MaxReaders \/ Len(old.readers) < MaxReaders
          BY DEF CellsHaveRoom, old
    <3>2. QED BY <1>2, <1>3, <1>7, <2>1, <2>3, <3>1, ReadIsRecorded
  <2>5. PICK m \in DOMAIN new.readers : new.readers[m].thread = g
        BY <1>2, <2>4 DEF SameReader
  <2> HIDE DEF new
  <2>6. ASSUME HeldInv(e), ConflictOf(s, e, op, at) = {} PROVE HeldInv(e)'
    <3> SUFFICES ASSUME NEW h \in hist \cup {h0}, h.elem = e
                 PROVE  /\ h.op = "write" => new.last_write # NoAccess
                        /\ new.last_write # NoAccess =>
                              BlockOf(h.thread) = BlockOf(new.last_write.thread)
                        /\ new.last_write = NoAccess =>
                              \E i \in DOMAIN new.readers :
                                  BlockOf(new.readers[i].thread) = BlockOf(h.thread)
        BY <1>1, Zenon DEF HeldInv
    <3>1. CASE h = h0
      <4>1. h.op # "write" /\ h.thread = g
            BY <1>9, <1>11, <3>1
      <4>2. QED BY <1>10, <2>2, <2>5, <2>6, <4>1
    <3>2. CASE h \in hist
      <4>1. /\ h.op = "write" => lw # NoAccess
            /\ lw # NoAccess => BlockOf(h.thread) = BlockOf(lw.thread)
            /\ lw = NoAccess => \E i \in DOMAIN rs : BlockOf(rs[i].thread) = BlockOf(h.thread)
            BY <2>6, <3>2, Zenon DEF HeldInv, old
      <4>2. ASSUME lw = NoAccess
            PROVE  \E i \in DOMAIN new.readers : BlockOf(new.readers[i].thread) = BlockOf(h.thread)
        <5>1. PICK j \in DOMAIN rs : BlockOf(rs[j].thread) = BlockOf(h.thread)
              BY <4>1, <4>2
        <5>2. CASE Retained(rs[j], acc)
              BY <2>2, <5>1, <5>2
        <5>3. CASE ~Retained(rs[j], acc)
          <6>1. BlockOf(rs[j].thread) = BlockOf(g)
                BY <1>2, <5>3 DEF Retained
          <6>2. QED BY <2>5, <5>1, <6>1
        <5>4. QED BY <5>2, <5>3
      <4>3. QED BY <2>2, <4>1, <4>2
    <3>3. QED BY <3>1, <3>2
  <2>7. QED BY <1>1, <2>4, <2>6
<1>12. CASE op # "read"
  <2>1. new = OnWrite(old, acc) /\ op = "write"
        BY <1>12 DEF RecordedOf
  <2>2. ConflictOf(s, e, op, at) = WriteConflict(old, acc, now)
        BY <1>12 DEF ConflictOf
  <2> HIDE DEF acc, old, now
  <2>3. new.last_write = acc /\ new.readers = <<>>
    <3> HIDE DEF new
    <3>1. OnWrite(old, acc).last_write = acc /\ OnWrite(old, acc).readers = <<>>
          BY <1>2, <1>3, OnWriteRecords
    <3>2. QED BY <2>1, <3>1
  <2>4. Distinct(new.readers)
        BY <2>3 DEF Distinct
  <2> HIDE DEF new
  <2>5. ASSUME HeldInv(e), ConflictOf(s, e, op, at) = {} PROVE HeldInv(e)'
    <3>1. \A i \in DOMAIN rs : BlockOf(rs[i].thread) = BlockOf(g)
      <4>1. \A i \in DOMAIN rs : ~Concurrent(rs[i], acc, now)
            BY <1>3, <2>2, <2>5, WriteConflictIsFound, Zenon
      <4>2. QED BY <1>6, <1>8, <4>1
    <3> SUFFICES ASSUME NEW h \in hist \cup {h0}, h.elem = e
                 PROVE  /\ h.op = "write" => new.last_write # NoAccess
                        /\ new.last_write # NoAccess =>
                              BlockOf(h.thread) = BlockOf(new.last_write.thread)
                        /\ new.last_write = NoAccess =>
                              \E i \in DOMAIN new.readers :
                                  BlockOf(new.readers[i].thread) = BlockOf(h.thread)
        BY <1>1, Zenon DEF HeldInv
    <3>2. BlockOf(h.thread) = BlockOf(g)
      <4>1. CASE h = h0
            BY <1>9, <4>1
      <4>2. CASE h \in hist
        <5>1. /\ lw # NoAccess => BlockOf(h.thread) = BlockOf(lw.thread)
              /\ lw = NoAccess => \E i \in DOMAIN rs : BlockOf(rs[i].thread) = BlockOf(h.thread)
              BY <2>5, <4>2, Zenon DEF HeldInv, old
        <5>2. QED BY <1>10, <2>5, <3>1, <5>1
      <4>3. QED BY <4>1, <4>2
    <3>3. QED BY <1>2, <1>5, <2>3, <3>2
  <2>6. QED BY <1>1, <2>4, <2>5
<1>13. QED BY <1>11, <1>12

\* How the cells and clocks begin.
LEMMA InitQuiet == Init => ApartInv /\ QuietInv
<1> SUFFICES ASSUME Init PROVE ApartInv /\ QuietInv
    OBVIOUS
<1>1. clock = [t \in Threads |-> NoClock] /\ block = [b \in Blocks |-> NoClock] /\ hist = {}
      /\ cells = [e \in Elems |-> NewCell(e \notin Fresh)]
      BY DEF Init
<1>2. ApartInv
      BY <1>1, NoClockKnowsNothing DEF ApartInv
<1>3. \A e \in Elems : cells[e].readers = <<>>
      BY <1>1, NewCellIsEmpty
<1>4. \A e \in Elems : Distinct(cells[e].readers)
      BY <1>3 DEF Distinct
<1>5. \A e \in Elems : HeldInv(e)
      BY <1>1 DEF HeldInv
<1>6. QED BY <1>2, <1>4, <1>5 DEF QuietInv

\* A reporter that is quiet after a step was before it, and was told of no race.
LEMMA QuietBefore ==
    ASSUME TypeInv, NEW D \in SUBSET Diags, Tells(D), Quiet'
    PROVE  Quiet /\ \A d \in D : d.kind # "race"
<1>1. ~Full
      BY ToldIsKept DEF Quiet
<1>2. keys \subseteq keys' /\ \A d \in D : Full' \/ DedupKey(d) \in keys'
      BY DEF Tells
<1>3. \A d \in Diags : DedupKey(d).kind = d.kind
      BY DEF DedupKey, Diags, DiagRecords
<1>4. QED BY <1>1, <1>2, <1>3 DEF Quiet

\* Every step keeps it: the one that would not reports a race.
LEMMA NextQuiet == CellsHaveRoom /\ TypeInv /\ ApartInv /\ QuietInv /\ [Next]_vars => QuietInv'
<1> SUFFICES ASSUME CellsHaveRoom, TypeInv, ApartInv, QuietInv, [Next]_vars PROVE QuietInv'
    OBVIOUS
<1>1. ASSUME UNCHANGED <<cells, hist>>, NEW D \in SUBSET Diags, Tells(D) PROVE QuietInv'
  <2>1. \A e \in Elems : Distinct(cells'[e].readers)
        BY <1>1 DEF QuietInv
  <2>2. ASSUME Quiet' PROVE \A e \in Elems : HeldInv(e)'
    <3>1. \A e \in Elems : HeldInv(e)
          BY <1>1, <2>2, QuietBefore DEF QuietInv
    <3>2. QED BY <1>1, <3>1 DEF HeldInv
  <2>3. QED BY <2>1, <2>2 DEF QuietInv
<1>2. ASSUME OtherStep PROVE QuietInv'
      BY <1>1, <1>2, Zenon DEF OtherStep
<1>3. ASSUME NEW s \in Slots, NEW e \in Elems, NEW op \in {"read", "write"}, NEW at \in Locs,
             Access(s, e, op, at)
      PROVE  QuietInv'
  <2>1. AccessStep(s, e, op, at)
        BY <1>3, AccessSteps, Zenon
  <2>2. PICK D \in SUBSET Diags :
            /\ Tells(D)
            /\ ConflictOf(s, e, op, at) # {} => \E d \in D : d.kind = "race"
        BY <2>1, AccessKeepsTypes, Zenon
  <2>3. /\ cells' = [cells EXCEPT ![e] = RecordedOf(s, e, op, at)]
        /\ hist' = hist \cup {[thread |-> Gid(s), elem |-> e, op |-> op]}
        BY <2>1, Zenon DEF AccessStep
  <2>4. Distinct(cells[e].readers)
        BY DEF QuietInv
  <2>5. /\ Distinct(cells'[e].readers)
        /\ HeldInv(e) /\ ConflictOf(s, e, op, at) = {} => HeldInv(e)'
        BY <2>1, <2>4, AccessHeld
  <2>6. \A x \in Elems \ {e} : cells'[x] = cells[x]
        BY <2>3 DEF TypeInv, CellsOK
  <2>7. \A x \in Elems : Distinct(cells'[x].readers)
        BY <2>5, <2>6 DEF QuietInv
  <2>8. ASSUME Quiet', NEW x \in Elems PROVE HeldInv(x)'
    <3>1. Quiet /\ ConflictOf(s, e, op, at) = {}
          BY <2>2, <2>8, QuietBefore
    <3>2. HeldInv(x)
          BY <3>1 DEF QuietInv
    <3>3. CASE x = e
          BY <2>5, <3>1, <3>2, <3>3
    <3>4. CASE x # e
      <4>1. \A h \in hist' : h.elem = x => h \in hist
            BY <2>3, <3>4
      <4>2. cells'[x] = cells[x]
            BY <2>6, <3>4
      <4>3. QED BY <3>2, <4>1, <4>2, Zenon DEF HeldInv
    <3>5. QED BY <3>3, <3>4
  <2>9. QED BY <2>7, <2>8 DEF QuietInv
<1>4. ASSUME UNCHANGED vars PROVE QuietInv'
  <2>1. UNCHANGED <<cells, hist, list, keys, pushed>>
        BY <1>4 DEF vars, reporter, past
  <2>2. Tells({}) /\ {} \in SUBSET Diags
        BY <2>1, NoneIsTold DEF TypeInv
  <2>3. QED BY <1>1, <2>1, <2>2
<1>5. QED BY <1>2, <1>3, <1>4, StepKinds, ShuffleKeepsTypes, CrashKeepsTypes, SyncKeepsTypes,
             DepartKeepsTypes, FinishKeepsTypes, EndWaveKeepsTypes, Zenon

\* "A race between waves is reported exactly as one within a wave is": as long as
\* no cell is full of readers, two accesses of an element from different blocks,
\* one of them a write, leave a race in the report, or the report is full,
\* whichever waves the blocks ran in and however many barriers were between.
THEOREM WavesHideNoRaces == Spec /\ []CellsHaveRoom => []WavesHideNoRace
<1>1. TypeInv /\ QuietInv => WavesHideNoRace
  <2> SUFFICES ASSUME TypeInv, QuietInv, NEW a \in hist, NEW b \in hist, a.elem = b.elem,
                      BlockOf(a.thread) # BlockOf(b.thread), "write" \in {a.op, b.op}, ~Full
               PROVE  \E i \in DOMAIN list : list[i].kind = "race"
      BY Zenon DEF WavesHideNoRace
  <2>1. a.elem \in Elems
        BY DEF TypeInv, Events
  <2>2. ~HeldInv(a.elem)
        BY DEF HeldInv
  <2>3. PICK k \in keys : k.kind = "race"
        BY <2>1, <2>2 DEF QuietInv, Quiet
  <2>4. list \in Seq(Diags) /\ keys = {DedupKey(list[i]) : i \in DOMAIN list}
        BY DEF TypeInv, Keeps, Reported
  <2>5. PICK i \in DOMAIN list : k = DedupKey(list[i])
        BY <2>3, <2>4
  <2>6. list[i] \in Diags
        BY <2>4, <2>5
  <2>7. \A d \in Diags : DedupKey(d).kind = d.kind
        BY DEF DedupKey, Diags, DiagRecords
  <2>8. QED BY <2>3, <2>5, <2>6, <2>7
<1>2. Init => TypeInv /\ ApartInv /\ QuietInv
      BY InitTyped, InitQuiet
<1>3. CellsHaveRoom /\ TypeInv /\ ApartInv /\ QuietInv /\ [Next]_vars
         => TypeInv' /\ ApartInv' /\ QuietInv'
      BY NextTyped, NextApart, NextQuiet
<1>4. QED BY <1>1, <1>2, <1>3, PTL DEF Spec
=============================================================================
