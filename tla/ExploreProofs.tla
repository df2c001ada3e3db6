---------------------------- MODULE ExploreProofs ----------------------------
(***************************************************************************)
(* Searching and shrinking, for every kernel, trace and budget.            *)
(*                                                                         *)
(* The inductive invariant follows the stages of `shrink`.  While a prefix *)
(* is looked for, trace[..hi] has shown the finding and, unless the budget *)
(* is spent, trace[..lo] has not; while switches are dropped, the plan has *)
(* shown it and is no longer and no harder to read than the trace.         *)
(***************************************************************************)
EXTENDS Explore, SequenceTheorems, FiniteSetTheorems, TLAPS

(***************************************************************************)
(* Plans.                                                                  *)
(***************************************************************************)
\* A plan is a sequence of threads.
LEMMA PlansAreSequences == Plans \subseteq Seq(Threads)
BY ExploreAssumption, SeqDef DEF Plans

\* A prefix of the trace is a plan, of the length asked for.
LEMMA PrefixType ==
    ASSUME trace \in Seq(Threads), NEW k \in 0 .. Len(trace)
    PROVE  /\ Prefix(k) \in Seq(Threads)
           /\ Len(Prefix(k)) = k
           /\ \A j \in 1 .. k : Prefix(k)[j] = trace[j]
<1>1. \A j \in 1 .. k : trace[j] \in Threads
      BY ElementOfSeq
<1>2. QED BY <1>1, SubSeqProperties DEF Prefix

\* The shortest and the longest prefix.
LEMMA PrefixEnds ==
    ASSUME trace \in Seq(Threads)
    PROVE  Prefix(0) = <<>> /\ Prefix(Len(trace)) = trace
BY SubSeqEmpty, SubSeqFull DEF Prefix

SwitchesAt(p) == {k \in 1 .. Len(p) - 1 : p[k] # p[k + 1]}

\* A plan has finitely many switches.
LEMMA SwitchesFinite ==
    ASSUME NEW p \in Seq(Threads)
    PROVE  /\ IsFiniteSet(SwitchesAt(p))
           /\ Switches(p) = Cardinality(SwitchesAt(p))
           /\ Switches(p) \in Nat
<1>1. IsFiniteSet(1 .. Len(p) - 1)
      BY FS_Interval
<1>2. SwitchesAt(p) \subseteq 1 .. Len(p) - 1
      BY DEF SwitchesAt
<1>3. IsFiniteSet(SwitchesAt(p))
      BY <1>1, <1>2, FS_Subset
<1>4. Cardinality(SwitchesAt(p)) \in Nat
      BY <1>3, FS_CardinalityType
<1>5. QED BY <1>3, <1>4 DEF Switches, SwitchesAt

\* A prefix of the trace has no more switches than the trace.
LEMMA PrefixSwitches ==
    ASSUME trace \in Seq(Threads), NEW k \in 0 .. Len(trace)
    PROVE  Switches(Prefix(k)) <= Switches(trace)
<1>1. SwitchesAt(Prefix(k)) \subseteq SwitchesAt(trace)
      BY PrefixType DEF SwitchesAt
<1>2. Prefix(k) \in Seq(Threads)
      BY PrefixType
<1>3. QED BY <1>1, <1>2, SwitchesFinite, FS_Subset

\* Undoing a switch makes a plan of the same length with no more switches: the
\* one undone is gone, and at most the next decision becomes one.
LEMMA MergedSwitches ==
    ASSUME NEW p \in Seq(Threads), NEW k \in 1 .. Len(p) - 1, p[k] # p[k + 1]
    PROVE  /\ Merged(p, k) \in Seq(Threads)
           /\ Len(Merged(p, k)) = Len(p)
           /\ Switches(Merged(p, k)) <= Switches(p)
<1> DEFINE q == Merged(p, k)
           rest == SwitchesAt(p) \ {k}
<1>1. p[k] \in Threads /\ k + 1 \in 1 .. Len(p)
      BY ElementOfSeq
<1>2. /\ q \in Seq(Threads) /\ Len(q) = Len(p)
      /\ \A j \in 1 .. Len(p) : q[j] = IF j = k + 1 THEN p[k] ELSE p[j]
      BY <1>1, ExceptSeq DEF Merged
<1> HIDE DEF q
<1>3. SwitchesAt(q) \subseteq rest \cup {k + 1}
      BY <1>1, <1>2 DEF SwitchesAt
<1>4. k \in SwitchesAt(p)
      BY DEF SwitchesAt
<1>5. IsFiniteSet(rest) /\ Cardinality(rest) = Switches(p) - 1
      BY <1>4, SwitchesFinite, FS_RemoveElement
<1>6. IsFiniteSet(rest \cup {k + 1}) /\ Cardinality(rest \cup {k + 1}) <= Switches(p)
  <2> HIDE DEF rest
  <2>1. /\ IsFiniteSet(rest \cup {k + 1})
        /\ Cardinality(rest \cup {k + 1}) = IF k + 1 \in rest THEN Cardinality(rest)
                                           ELSE Cardinality(rest) + 1
        BY <1>5, FS_AddElement, Zenon
  <2>2. Switches(p) \in Nat
        BY SwitchesFinite
  <2>3. QED BY <1>5, <2>1, <2>2
<1>7. Switches(q) <= Cardinality(rest \cup {k + 1})
      BY <1>2, <1>3, <1>6, SwitchesFinite, FS_Subset
<1>8. Cardinality(rest \cup {k + 1}) \in Nat
      BY <1>6, FS_CardinalityType
<1>9. QED BY <1>2, <1>6, <1>7, <1>8, SwitchesFinite DEF q

(***************************************************************************)
(* reproduces.                                                             *)
(***************************************************************************)
AnswersType == budget \in Nat /\ yes \subseteq Seq(Threads) /\ no \subseteq Seq(Threads)

\* Answers are kept, and no replay adds to the budget.
AnswersGrow == AnswersType' /\ budget' <= budget /\ yes \subseteq yes' /\ no \subseteq no'

\* A plan found to reproduce was run, and showed the finding.
LEMMA ReproducesYes ==
    ASSUME AnswersType, NEW p \in Seq(Threads), Reproduces(p, TRUE)
    PROVE  AnswersGrow /\ p \in yes' /\ no' = no
BY DEF AnswersType, AnswersGrow, Reproduces

\* A plan found not to was run, and did not, unless the budget was spent; and
\* that of a deterministic kernel had not shown it before.
LEMMA ReproducesNo ==
    ASSUME AnswersType, NEW p \in Seq(Threads), Reproduces(p, FALSE)
    PROVE  /\ AnswersGrow
           /\ budget > 0 => p \in no'
           /\ budget > 0 /\ deterministic => p \notin yes
BY DEF AnswersType, AnswersGrow, Reproduces

(***************************************************************************)
(* The inductive invariant.                                                *)
(***************************************************************************)
Untouched == lo = 0 /\ step = 1 /\ i = 1 /\ plan = <<>>

NotWorse(p) == Len(p) <= Len(trace) /\ Switches(p) <= Switches(trace)

\* The last prefix that was tried and is too short.
TooShort(k) == budget > 0 => Prefix(k) \in no

StageInv ==
    /\ stage # "done" => result = "none"
    /\ stage \in {"search", "full"} => Untouched /\ no = {}
    /\ stage = "full" => trace # <<>> /\ trace \in yes
    /\ stage = "empty" => Untouched /\ trace # <<>> /\ hi = Len(trace) /\ trace \in yes
    /\ stage = "double" => /\ lo < hi /\ lo < step /\ hi = Len(trace)
                           /\ Prefix(hi) \in yes /\ TooShort(lo) /\ i = 1
    /\ stage = "bisect" => /\ lo < hi /\ hi <= Len(trace)
                           /\ Prefix(hi) \in yes /\ TooShort(lo) /\ i = 1
    /\ stage = "drop" => /\ hi <= Len(trace) /\ plan \in yes /\ NotWorse(plan)
                         /\ hi > 0 => TooShort(hi - 1)
    /\ result = "minimised" => plan \in yes /\ NotWorse(plan)

ExploreInv == ExploreTypeOK /\ StageInv

\* Nothing has been run.
LEMMA ExploreInit == Init => ExploreInv
BY ExploreAssumption, EmptySeq DEF Init, ExploreInv, ExploreTypeOK, StageInv, Untouched, Stages

\* A failing run starts the shrinking with a plan that has shown the finding.
LEMMA FailingRunStep == ExploreInv /\ FailingRun => ExploreInv'
<1> SUFFICES ASSUME ExploreInv, FailingRun PROVE ExploreInv'
    OBVIOUS
<1>1. trace' \in Seq(Threads)
      BY PlansAreSequences DEF FailingRun
<1>2. ExploreTypeOK'
      BY <1>1, ExploreAssumption DEF ExploreInv, ExploreTypeOK, FailingRun, settings, Stages
<1>3. StageInv'
      BY <1>1 DEF ExploreInv, StageInv, FailingRun, Shrinkable, settings, Untouched
<1>4. QED BY <1>2, <1>3 DEF ExploreInv

\* The full recording is replayed first.
LEMMA ReplayFullStep == ExploreInv /\ ReplayFull => ExploreInv'
<1> SUFFICES ASSUME ExploreInv, ReplayFull PROVE ExploreInv'
    OBVIOUS
<1>1. AnswersType /\ trace \in Seq(Threads)
      BY DEF ExploreInv, ExploreTypeOK, AnswersType
<1>2. AnswersGrow
      BY <1>1, ReproducesYes, ReproducesNo DEF ReplayFull
<1>3. Len(trace) \in Nat
      BY <1>1, LenProperties
<1>4. ExploreTypeOK'
      BY <1>2, <1>3 DEF ExploreInv, ExploreTypeOK, ReplayFull, settings, Stages, AnswersGrow, AnswersType
<1>5. StageInv'
      BY <1>2 DEF ExploreInv, StageInv, ReplayFull, settings, Untouched, AnswersGrow
<1>6. QED BY <1>4, <1>5 DEF ExploreInv

\* Then the empty plan, the shortest prefix.
LEMMA ReplayEmptyStep == ExploreInv /\ ReplayEmpty => ExploreInv'
<1> SUFFICES ASSUME ExploreInv, ReplayEmpty PROVE ExploreInv'
    OBVIOUS
<1>1. AnswersType /\ trace \in Seq(Threads) /\ <<>> \in Seq(Threads)
      BY EmptySeq DEF ExploreInv, ExploreTypeOK, AnswersType
<1>2. AnswersGrow
      BY <1>1, ReproducesYes, ReproducesNo DEF ReplayEmpty
<1>3. ExploreTypeOK'
  <2>1. \/ stage' = "drop" /\ hi' = 0 /\ plan' = <<>>
        \/ stage' = "double" /\ hi' = hi /\ plan' = plan
        BY Zenon DEF ReplayEmpty
  <2>2. stage' \in Stages /\ hi' \in Nat
        BY <2>1 DEF ExploreInv, ExploreTypeOK, Stages
  <2>3. plan' \in Seq(Threads)
        BY <1>1, <2>1, Zenon DEF ExploreInv, ExploreTypeOK
  <2>4. UNCHANGED <<settings, seed, trace, complete, lo, step, i, result>>
        BY DEF ReplayEmpty
  <2>5. QED BY <1>2, <2>2, <2>3, <2>4 DEF ExploreInv, ExploreTypeOK, settings, AnswersGrow, AnswersType
<1>4. /\ stage = "empty" /\ Untouched /\ trace # <<>> /\ hi = Len(trace) /\ trace \in yes
      /\ result = "none"
      BY DEF ExploreInv, StageInv, ReplayEmpty
<1>5. Prefix(0) = <<>> /\ Prefix(Len(trace)) = trace /\ Len(trace) \in Nat \ {0}
      BY <1>1, <1>4, PrefixEnds, EmptySeq
<1>6. CASE /\ Reproduces(<<>>, TRUE)
           /\ stage' = "drop" /\ hi' = 0 /\ plan' = <<>> /\ UNCHANGED <<trace, result>>
  <2>1. <<>> \in yes'
        BY <1>1, <1>6, ReproducesYes
  <2>2. NotWorse(<<>>)
        BY <1>1, <1>5, PrefixSwitches, EmptySeq DEF NotWorse
  <2>3. QED BY <1>3, <1>4, <1>5, <1>6, <2>1, <2>2 DEF ExploreInv, StageInv, NotWorse
<1>7. CASE /\ Reproduces(<<>>, FALSE) /\ stage' = "double"
           /\ UNCHANGED <<hi, plan, trace, lo, step, i, result>>
  <2>1. AnswersType' /\ budget' <= budget /\ (budget > 0 => <<>> \in no') /\ trace \in yes'
        BY <1>1, <1>2, <1>4, <1>7, ReproducesNo DEF AnswersGrow
  <2>2. TooShort(0)'
    <3>1. (Prefix(0) = <<>>)'
          BY <1>5, <1>7, Zenon DEF Prefix
    <3>2. QED BY <1>1, <2>1, <3>1 DEF TooShort, AnswersType
  <2>3. (Prefix(Len(trace)) = trace)'
        BY <1>5, <1>7 DEF Prefix
  <2>4. QED BY <1>3, <1>4, <1>5, <1>7, <2>1, <2>2, <2>3 DEF ExploreInv, StageInv, Untouched
<1>8. QED BY <1>6, <1>7 DEF ReplayEmpty

\* A prefix that has shown the finding, or is too short, stays so.
LEMMA BoundsKept ==
    ASSUME AnswersType, AnswersGrow, UNCHANGED trace, NEW k
    PROVE  /\ Prefix(k) \in yes => Prefix(k)' \in yes'
           /\ TooShort(k) => TooShort(k)'
BY DEF AnswersType, AnswersGrow, TooShort, Prefix

\* The doubling loop.
LEMMA DoubleStep == ExploreInv /\ Double => ExploreInv'
<1> SUFFICES ASSUME ExploreInv, Double PROVE ExploreInv'
    OBVIOUS
<1>1. /\ AnswersType /\ trace \in Seq(Threads) /\ Len(trace) \in Nat
      /\ lo \in Nat /\ hi \in Nat /\ step \in Nat \ {0}
      BY LenProperties DEF ExploreInv, ExploreTypeOK, AnswersType
<1>2. /\ lo < hi /\ lo < step /\ hi = Len(trace) /\ Prefix(hi) \in yes /\ TooShort(lo)
      /\ result = "none" /\ i = 1
      BY DEF ExploreInv, StageInv, Double
<1>3. UNCHANGED <<settings, seed, trace, complete, plan, i, result>>
      BY DEF Double
<1>4. CASE /\ step >= Len(trace) /\ stage' = "bisect"
           /\ UNCHANGED <<budget, yes, no, lo, hi, step>>
  <2>1. ExploreTypeOK'
        BY <1>3, <1>4 DEF ExploreInv, ExploreTypeOK, settings, Stages
  <2>2. Prefix(hi)' \in yes' /\ TooShort(lo)'
        BY <1>2, <1>3, <1>4 DEF Prefix, TooShort
  <2>3. QED BY <1>1, <1>2, <1>3, <1>4, <2>1, <2>2 DEF ExploreInv, StageInv
<1>5. CASE /\ step < Len(trace) /\ Reproduces(Prefix(step), TRUE)
           /\ hi' = step /\ stage' = "bisect" /\ UNCHANGED <<lo, step>>
  <2>1. Prefix(step) \in Seq(Threads)
        BY <1>1, <1>5, PrefixType
  <2>2. AnswersGrow /\ Prefix(step) \in yes'
        BY <1>1, <1>5, <2>1, ReproducesYes
  <2>3. ExploreTypeOK'
        BY <1>1, <1>3, <1>5, <2>2
           DEF ExploreInv, ExploreTypeOK, settings, Stages, AnswersGrow, AnswersType
  <2>4. Prefix(hi)' \in yes' /\ TooShort(lo)'
        BY <1>1, <1>2, <1>3, <1>5, <2>2, BoundsKept DEF Prefix, TooShort
  <2>5. QED BY <1>1, <1>2, <1>3, <1>5, <2>3, <2>4 DEF ExploreInv, StageInv
<1>6. CASE /\ step < Len(trace) /\ Reproduces(Prefix(step), FALSE)
           /\ lo' = step /\ step' = step * 2 /\ UNCHANGED <<stage, hi>>
  <2>1. Prefix(step) \in Seq(Threads)
        BY <1>1, <1>6, PrefixType
  <2>2. AnswersGrow /\ (budget > 0 => Prefix(step) \in no')
        BY <1>1, <1>6, <2>1, ReproducesNo
  <2>3. ExploreTypeOK'
        BY <1>1, <1>3, <1>6, <2>2
           DEF ExploreInv, ExploreTypeOK, settings, Stages, AnswersGrow, AnswersType
  <2>4. Prefix(hi)' \in yes' /\ TooShort(lo)'
        BY <1>1, <1>2, <1>3, <1>6, <2>2 DEF Prefix, TooShort, AnswersGrow, AnswersType
  <2>5. lo' < hi' /\ lo' < step' /\ hi' = Len(trace')
        BY <1>1, <1>2, <1>3, <1>6
  <2>6. stage' = "double"
        BY <1>6 DEF Double
  <2>7. QED BY <1>2, <1>3, <1>6, <2>3, <2>4, <2>5, <2>6 DEF ExploreInv, StageInv
<1>7. QED BY <1>4, <1>5, <1>6 DEF Double

\* The bisection, and the prefix it leaves.
LEMMA BisectStep == ExploreInv /\ Bisect => ExploreInv'
<1> SUFFICES ASSUME ExploreInv, Bisect PROVE ExploreInv'
    OBVIOUS
<1>1. /\ AnswersType /\ trace \in Seq(Threads) /\ Len(trace) \in Nat
      /\ lo \in Nat /\ hi \in Nat
      BY LenProperties DEF ExploreInv, ExploreTypeOK, AnswersType
<1>2. /\ lo < hi /\ hi <= Len(trace) /\ Prefix(hi) \in yes /\ TooShort(lo)
      /\ result = "none" /\ i = 1 /\ stage = "bisect"
      BY DEF ExploreInv, StageInv, Bisect
<1>3. UNCHANGED <<settings, seed, trace, complete, step, i, result>>
      BY DEF Bisect
<1>4. CASE /\ lo + 1 >= hi /\ stage' = "drop" /\ plan' = Prefix(hi)
           /\ UNCHANGED <<budget, yes, no, lo, hi>>
  <2>1. Prefix(hi) \in Seq(Threads) /\ Len(Prefix(hi)) = hi
        BY <1>1, <1>2, PrefixType
  <2>2. ExploreTypeOK'
        BY <1>3, <1>4, <2>1 DEF ExploreInv, ExploreTypeOK, settings, Stages
  <2>3. NotWorse(plan)'
        BY <1>1, <1>2, <1>3, <1>4, <2>1, PrefixSwitches DEF NotWorse
  <2>4. lo = hi - 1
        BY <1>1, <1>2, <1>4
  <2>5. TooShort(hi - 1)'
        BY <1>2, <1>3, <1>4, <2>4 DEF TooShort, Prefix
  <2>6. QED BY <1>2, <1>3, <1>4, <2>2, <2>3, <2>5 DEF ExploreInv, StageInv
<1>5. ASSUME lo + 1 < hi
      PROVE  /\ Middle \in Nat /\ lo < Middle /\ Middle < hi
             /\ Prefix(Middle) \in Seq(Threads)
  <2>1. Middle \in Nat /\ lo < Middle /\ Middle < hi
        BY <1>1, <1>5 DEF Middle
  <2>2. QED BY <1>1, <1>2, <2>1, PrefixType
<1>6. CASE /\ lo + 1 < hi /\ Reproduces(Prefix(Middle), TRUE)
           /\ hi' = Middle /\ UNCHANGED <<stage, lo, plan>>
  <2>1. AnswersGrow /\ Prefix(Middle) \in yes'
        BY <1>1, <1>5, <1>6, ReproducesYes
  <2>2. ExploreTypeOK'
        BY <1>1, <1>3, <1>5, <1>6, <2>1
           DEF ExploreInv, ExploreTypeOK, settings, Stages, AnswersGrow, AnswersType
  <2>3. Prefix(hi)' \in yes' /\ TooShort(lo)'
        BY <1>1, <1>2, <1>3, <1>6, <2>1, BoundsKept DEF Prefix, TooShort
  <2>4. lo' < hi' /\ hi' <= Len(trace')
        BY <1>1, <1>2, <1>3, <1>5, <1>6
  <2>5. QED BY <1>2, <1>3, <1>6, <2>2, <2>3, <2>4 DEF ExploreInv, StageInv
<1>7. CASE /\ lo + 1 < hi /\ Reproduces(Prefix(Middle), FALSE)
           /\ lo' = Middle /\ UNCHANGED <<stage, hi, plan>>
  <2>1. AnswersGrow /\ (budget > 0 => Prefix(Middle) \in no')
        BY <1>1, <1>5, <1>7, ReproducesNo
  <2>2. ExploreTypeOK'
        BY <1>1, <1>3, <1>5, <1>7, <2>1
           DEF ExploreInv, ExploreTypeOK, settings, Stages, AnswersGrow, AnswersType
  <2>3. Prefix(hi)' \in yes' /\ TooShort(lo)'
    <3>1. Prefix(hi)' \in yes'
          BY <1>2, <1>3, <1>7, <2>1 DEF Prefix, AnswersGrow
    <3>2. TooShort(lo)'
          BY <1>1, <1>3, <1>7, <2>1 DEF Prefix, TooShort, AnswersGrow, AnswersType
    <3>3. QED BY <3>1, <3>2
  <2>4. lo' < hi' /\ hi' <= Len(trace')
        BY <1>1, <1>2, <1>3, <1>5, <1>7
  <2>5. QED BY <1>2, <1>3, <1>7, <2>2, <2>3, <2>4 DEF ExploreInv, StageInv
<1>8. QED BY <1>4, <1>6, <1>7 DEF Bisect

\* The loop that drops switches.
LEMMA DropSwitchStep == ExploreInv /\ DropSwitch => ExploreInv'
<1> SUFFICES ASSUME ExploreInv, DropSwitch PROVE ExploreInv'
    OBVIOUS
<1>1. /\ AnswersType /\ trace \in Seq(Threads) /\ plan \in Seq(Threads)
      /\ Len(trace) \in Nat /\ Len(plan) \in Nat /\ i \in Nat \ {0} /\ hi \in Nat
      BY LenProperties DEF ExploreInv, ExploreTypeOK, AnswersType
<1>2. /\ hi <= Len(trace) /\ plan \in yes /\ NotWorse(plan) /\ (hi > 0 => TooShort(hi - 1))
      /\ result = "none" /\ stage = "drop" /\ i < Len(plan)
      BY DEF ExploreInv, StageInv, DropSwitch
<1>3. i' = i + 1 /\ UNCHANGED <<settings, stage, seed, trace, complete, lo, hi, step, result>>
      BY DEF DropSwitch
<1>4. ASSUME AnswersGrow, plan' \in Seq(Threads), plan' \in yes', NotWorse(plan')
      PROVE  ExploreInv'
  <2>1. ExploreTypeOK'
        BY <1>1, <1>3, <1>4 DEF ExploreInv, ExploreTypeOK, settings, Stages, AnswersGrow, AnswersType
  <2>2. hi' > 0 => TooShort(hi - 1)'
    <3>1. ASSUME hi > 0 PROVE TooShort(hi - 1)'
          BY <1>1, <1>2, <1>3, <1>4, <3>1 DEF Prefix, TooShort, AnswersGrow, AnswersType
    <3>2. QED BY <1>3, <3>1
  <2>3. NotWorse(plan)'
        BY <1>3, <1>4 DEF NotWorse
  <2>4. QED BY <1>2, <1>3, <1>4, <2>1, <2>2, <2>3 DEF ExploreInv, StageInv
<1>5. CASE plan[i + 1] = plan[i] /\ UNCHANGED <<plan, budget, yes, no>>
      BY <1>1, <1>2, <1>4, <1>5 DEF AnswersType, AnswersGrow
<1>6. ASSUME plan[i + 1] # plan[i]
      PROVE  /\ Merged(plan, i) \in Seq(Threads) /\ Len(Merged(plan, i)) = Len(plan)
             /\ Switches(Merged(plan, i)) <= Switches(plan)
      BY <1>1, <1>2, <1>6, MergedSwitches
<1>7. CASE /\ plan[i + 1] # plan[i] /\ Reproduces(Merged(plan, i), TRUE)
           /\ plan' = Merged(plan, i)
  <2>1. AnswersGrow /\ plan' \in yes'
        BY <1>1, <1>6, <1>7, ReproducesYes
  <2>2. Switches(plan) \in Nat /\ Switches(trace) \in Nat /\ Switches(Merged(plan, i)) \in Nat
        BY <1>1, <1>6, <1>7, SwitchesFinite
  <2>3. NotWorse(plan')
        BY <1>1, <1>2, <1>6, <1>7, <2>2 DEF NotWorse
  <2>4. QED BY <1>4, <1>6, <1>7, <2>1, <2>3
<1>8. CASE /\ plan[i + 1] # plan[i] /\ Reproduces(Merged(plan, i), FALSE)
           /\ UNCHANGED plan
  <2>1. AnswersGrow
        BY <1>1, <1>6, <1>8, ReproducesNo
  <2>2. QED BY <1>1, <1>2, <1>4, <1>8, <2>1 DEF AnswersGrow
<1>9. QED BY <1>5, <1>7, <1>8 DEF DropSwitch

\* Every step keeps the invariant.
LEMMA ExploreStep == ExploreInv /\ [Next]_vars => ExploreInv'
<1> SUFFICES ASSUME ExploreInv, [Next]_vars PROVE ExploreInv'
    OBVIOUS
<1> USE DEF ExploreInv, ExploreTypeOK, StageInv
<1>1. CASE CleanRun
      BY <1>1, ExploreAssumption DEF CleanRun, settings, Untouched, NotWorse
<1>2. CASE OutOfSeeds
      BY <1>2 DEF OutOfSeeds, settings, Stages
<1>3. CASE Minimised
      BY <1>3 DEF Minimised, settings, Stages, NotWorse
<1>4. CASE UNCHANGED vars
      BY <1>4 DEF vars, settings, Untouched, NotWorse, TooShort, Prefix
<1>5. QED BY <1>1, <1>2, <1>3, <1>4, FailingRunStep, ReplayFullStep, ReplayEmptyStep,
             DoubleStep, BisectStep, DropSwitchStep DEF Next, Returned

(***************************************************************************)
(* Theorems.                                                               *)
(***************************************************************************)
\* Every variable of search and shrink keeps its type.
THEOREM ExploreTypeCorrect == Spec => []ExploreTypeOK
<1>1. ExploreInv => ExploreTypeOK
      BY DEF ExploreInv
<1>2. QED BY <1>1, ExploreInit, ExploreStep, PTL DEF Spec

\* A shrunk schedule was itself seen to show the finding, wherever the budget
\* ended and however long the trace was.
THEOREM ShrunkReproduces == Spec => []MinimisedReproduces
<1>1. ExploreInv => MinimisedReproduces
      BY DEF ExploreInv, StageInv, MinimisedReproduces
<1>2. QED BY <1>1, ExploreInit, ExploreStep, PTL DEF Spec

\* A shrunk schedule is no longer than the run that failed and has no more
\* switches: dropping one never adds two.
THEOREM ShrinkingNeverWorse == Spec => []NeverWorse
<1>1. ExploreInv => NeverWorse
      BY DEF ExploreInv, StageInv, NotWorse, NeverWorse
<1>2. QED BY <1>1, ExploreInit, ExploreStep, PTL DEF Spec

\* Doubling and bisection leave a prefix that cannot lose its last decision,
\* unless the budget ran out.
THEOREM PrefixIsTight == Spec => []PrefixTight
<1>1. ExploreInv => PrefixTight
      BY DEF ExploreInv, ExploreTypeOK, StageInv, TooShort, PrefixTight
<1>2. QED BY <1>1, ExploreInit, ExploreStep, PTL DEF Spec

\* NotReproducible is said only after the recorded schedule was replayed and did
\* not show the finding, which shows that the kernel is no function of its
\* schedule, or with a budget of no replay at all, which shows nothing.
THEOREM BlameIsBacked == Spec => []BlameBacked
<1>1. Init => BlameBacked
      BY DEF Init, BlameBacked
<1>2. ExploreInv /\ BlameBacked /\ [Next]_vars => BlameBacked'
  <2> SUFFICES ASSUME ExploreInv, BlameBacked, [Next]_vars PROVE BlameBacked'
      OBVIOUS
  <2>1. CASE ReplayFull
    <3>1. /\ AnswersType /\ trace \in Seq(Threads) /\ trace \in yes /\ no = {}
          /\ result = "none" /\ UNCHANGED <<deterministic, trace>>
          BY <2>1 DEF ExploreInv, ExploreTypeOK, StageInv, ReplayFull, AnswersType, settings
    <3>2. CASE budget > 0 /\ Reproduces(trace, FALSE)
          BY <3>1, <3>2, ReproducesNo DEF BlameBacked
    <3>3. CASE budget = 0 /\ Reproduces(trace, FALSE)
          BY <3>1, <3>3 DEF Reproduces, BlameBacked
    <3>4. CASE UNCHANGED result
          BY <3>1, <3>4 DEF BlameBacked
    <3>5. (UNCHANGED result) \/ Reproduces(trace, FALSE)
          BY <2>1, Zenon DEF ReplayFull
    <3>6. budget > 0 \/ budget = 0
          BY <3>1 DEF AnswersType
    <3>7. QED BY <3>2, <3>3, <3>4, <3>5, <3>6
  <2>2. CASE stage # "done" /\ UNCHANGED result
        BY <2>2 DEF ExploreInv, StageInv, BlameBacked
  <2>3. CASE OutOfSeeds \/ FailingRun \/ Minimised
        BY <2>3 DEF OutOfSeeds, FailingRun, Minimised, BlameBacked, ExploreInv, StageInv
  <2>4. CASE UNCHANGED vars
        BY <2>4 DEF vars, settings, BlameBacked
  <2>5. QED BY <2>1, <2>2, <2>3, <2>4 DEF Next, CleanRun, ReplayEmpty, Double, Bisect,
                DropSwitch, Returned
<1>3. QED BY <1>1, <1>2, ExploreInit, ExploreStep, PTL DEF Spec
=============================================================================
