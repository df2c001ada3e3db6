------------------------------- MODULE Explore -------------------------------
(***************************************************************************)
(* Searching seeds for a failing schedule and shrinking it (src/explore.rs)*)
(*                                                                         *)
(* A run of the kernel is one step that answers whether it showed the      *)
(* finding.  A kernel that is a function of its schedule gives the same    *)
(* answer to the same plan; `deterministic` says whether it is one.        *)
(* Answers are otherwise arbitrary, and `yes` and `no` keep those given.   *)
(***************************************************************************)
EXTENDS Integers, Sequences, FiniteSets

CONSTANTS
    Threads,          \* threads a plan may name
    MaxDecisions,     \* bound: decisions of the failing run
    Seeds,            \* Explore::seeds
    Budgets           \* settings of Explore::budget

ASSUME ExploreAssumption ==
    /\ MaxDecisions \in Nat
    /\ Seeds \in Nat
    /\ Budgets \subseteq Nat

VARIABLES
    minimise,         \* Explore::minimise
    deterministic,    \* auxiliary: whether the kernel is a function of its schedule
    stage,            \* where search and shrink are
    seed,             \* seeds tried before the current one
    trace, complete,  \* the failing run's record
    budget,           \* replays left
    lo, hi, step,     \* the prefix search: trace[..lo] fails, trace[..hi] shows it
    plan, i,          \* the switch-dropping loop
    result,           \* what search returns
    yes, no           \* auxiliary: plans run with and without the finding

settings == <<minimise, deterministic>>
vars == <<settings, stage, seed, trace, complete, budget, lo, hi, step, plan, i,
          result, yes, no>>

Plans == UNION {[1 .. n -> Threads] : n \in 0 .. MaxDecisions}

Prefix(k) == SubSeq(trace, 1, k)

\* Schedule::switches.
Switches(p) == Cardinality({k \in 1 .. Len(p) - 1 : p[k] # p[k + 1]})

Init ==
    /\ stage = "search"
    /\ seed = 0
    /\ trace = <<>> /\ complete = TRUE
    /\ minimise \in BOOLEAN /\ deterministic \in BOOLEAN
    /\ budget \in Budgets
    /\ lo = 0 /\ hi = 0 /\ step = 1
    /\ plan = <<>> /\ i = 1
    /\ result = "none"
    /\ yes = {} /\ no = {}

(***************************************************************************)
(* search                                                                  *)
(***************************************************************************)
CleanRun ==
    /\ stage = "search" /\ seed < Seeds
    /\ seed' = seed + 1
    /\ UNCHANGED <<settings, stage, trace, complete, budget, lo, hi, step, plan, i,
                   result, yes, no>>

OutOfSeeds ==
    /\ stage = "search" /\ seed = Seeds
    /\ stage' = "done" /\ result' = "clean"
    /\ UNCHANGED <<settings, seed, trace, complete, budget, lo, hi, step, plan, i,
                   yes, no>>

\* Mutant: an incomplete record is shrunk too.
ShrinkableAll(whole) == minimise

\* What shrink goes on with.
Shrinkable(whole) == minimise /\ whole

\* A failing run.  Its record may be incomplete: more decisions than Riri
\* records, or several waves, of which none is kept.  Only a complete one is a
\* plan of the run that failed.
FailingRun ==
    /\ stage = "search" /\ seed < Seeds
    /\ seed' = seed + 1
    /\ trace' \in Plans
    /\ complete' \in BOOLEAN /\ (complete' => trace' # <<>>)
    /\ yes' = IF complete' THEN {trace'} ELSE {}
    /\ \/ /\ Shrinkable(complete')
          /\ stage' = "full" /\ UNCHANGED result
       \/ /\ ~Shrinkable(complete')
          /\ stage' = "done"
          /\ result' = IF minimise THEN "truncated" ELSE "disabled"
    /\ UNCHANGED <<settings, budget, lo, hi, step, plan, i, no>>

(***************************************************************************)
(* shrink                                                                  *)
(***************************************************************************)
\* Mutants: the budget not looked at; a spent budget taken for a yes.
ReproducesUnpaid(p, a) ==
    /\ deterministic => (a => p \notin no) /\ (~a => p \notin yes)
    /\ budget' = budget - 1
    /\ yes' = IF a THEN yes \cup {p} ELSE yes
    /\ no' = IF a THEN no ELSE no \cup {p}

ReproducesSpent(p, a) ==
    \/ budget = 0 /\ a = TRUE /\ UNCHANGED <<budget, yes, no>>
    \/ budget > 0 /\ ReproducesUnpaid(p, a)

\* `reproduces`: replay p, unless the budget is spent, with answer a.
Reproduces(p, a) ==
    \/ /\ budget = 0 /\ a = FALSE
       /\ UNCHANGED <<budget, yes, no>>
    \/ /\ budget > 0
       /\ deterministic => (a => p \notin no) /\ (~a => p \notin yes)
       /\ budget' = budget - 1
       /\ yes' = IF a THEN yes \cup {p} ELSE yes
       /\ no' = IF a THEN no ELSE no \cup {p}

\* The full recording must show the finding again.
ReplayFull ==
    /\ stage = "full"
    /\ \/ /\ Reproduces(trace, TRUE)
          /\ stage' = "empty" /\ hi' = Len(trace)
          /\ UNCHANGED result
       \/ /\ Reproduces(trace, FALSE)
          /\ stage' = "done" /\ result' = "not_reproducible"
          /\ UNCHANGED hi
    /\ UNCHANGED <<settings, seed, trace, complete, lo, step, plan, i>>

ReplayEmpty ==
    /\ stage = "empty"
    /\ \/ /\ Reproduces(<<>>, TRUE)
          /\ stage' = "drop" /\ hi' = 0 /\ plan' = <<>>
       \/ /\ Reproduces(<<>>, FALSE)
          /\ stage' = "double"
          /\ UNCHANGED <<hi, plan>>
    /\ UNCHANGED <<settings, seed, trace, complete, lo, step, i, result>>

\* Mutant: the bound moved up after the step was doubled.
DoubleSwapped ==
    /\ stage = "double"
    /\ \/ /\ step >= Len(trace)
          /\ stage' = "bisect"
          /\ UNCHANGED <<budget, yes, no, lo, hi, step>>
       \/ /\ step < Len(trace)
          /\ Reproduces(Prefix(step), TRUE)
          /\ hi' = step /\ stage' = "bisect"
          /\ UNCHANGED <<lo, step>>
       \/ /\ step < Len(trace)
          /\ Reproduces(Prefix(step), FALSE)
          /\ step' = step * 2 /\ lo' = step'
          /\ UNCHANGED <<stage, hi>>
    /\ UNCHANGED <<settings, seed, trace, complete, plan, i, result>>

Double ==
    /\ stage = "double"
    /\ \/ /\ step >= Len(trace)
          /\ stage' = "bisect"
          /\ UNCHANGED <<budget, yes, no, lo, hi, step>>
       \/ /\ step < Len(trace)
          /\ Reproduces(Prefix(step), TRUE)
          /\ hi' = step /\ stage' = "bisect"
          /\ UNCHANGED <<lo, step>>
       \/ /\ step < Len(trace)
          /\ Reproduces(Prefix(step), FALSE)
          /\ lo' = step /\ step' = step * 2
          /\ UNCHANGED <<stage, hi>>
    /\ UNCHANGED <<settings, seed, trace, complete, plan, i, result>>

\* Mutant: half the distance in place of the middle.
MiddleFromZero == (hi - lo) \div 2

Middle == lo + (hi - lo) \div 2

Bisect ==
    /\ stage = "bisect"
    /\ \/ /\ lo + 1 >= hi
          /\ stage' = "drop" /\ plan' = Prefix(hi)
          /\ UNCHANGED <<budget, yes, no, lo, hi>>
       \/ /\ lo + 1 < hi
          /\ Reproduces(Prefix(Middle), TRUE)
          /\ hi' = Middle
          /\ UNCHANGED <<stage, lo, plan>>
       \/ /\ lo + 1 < hi
          /\ Reproduces(Prefix(Middle), FALSE)
          /\ lo' = Middle
          /\ UNCHANGED <<stage, hi, plan>>
    /\ UNCHANGED <<settings, seed, trace, complete, step, i, result>>

\* Mutant: the decision inserted where it should replace one.
MergedInserted(p, k) == SubSeq(p, 1, k) \o <<p[k]>> \o SubSeq(p, k + 1, Len(p))

\* The plan with the switch into its (k+1)-th decision undone.
Merged(p, k) == [p EXCEPT ![k + 1] = p[k]]

DropSwitch ==
    /\ stage = "drop"
    /\ i < Len(plan) /\ budget > 0
    /\ \/ /\ plan[i + 1] = plan[i]
          /\ UNCHANGED <<plan, budget, yes, no>>
       \/ /\ plan[i + 1] # plan[i]
          /\ Reproduces(Merged(plan, i), TRUE)
          /\ plan' = Merged(plan, i)
       \/ /\ plan[i + 1] # plan[i]
          /\ Reproduces(Merged(plan, i), FALSE)
          /\ UNCHANGED plan
    /\ i' = i + 1
    /\ UNCHANGED <<settings, stage, seed, trace, complete, lo, hi, step, result>>

Minimised ==
    /\ stage = "drop"
    /\ i >= Len(plan) \/ budget = 0
    /\ stage' = "done" /\ result' = "minimised"
    /\ UNCHANGED <<settings, seed, trace, complete, budget, lo, hi, step, plan, i,
                   yes, no>>

Returned ==
    /\ stage = "done"
    /\ UNCHANGED vars

Next ==
    \/ CleanRun \/ OutOfSeeds \/ FailingRun
    \/ ReplayFull \/ ReplayEmpty \/ Double \/ Bisect \/ DropSwitch \/ Minimised
    \/ Returned

Spec == Init /\ [][Next]_vars

\* One sequential function; every run it waits for ends (LaunchEnds of
\* Scheduler).
FairSpec == Spec /\ WF_vars(Next)

(***************************************************************************)
(* Properties.                                                             *)
(***************************************************************************)
Stages == {"search", "full", "empty", "double", "bisect", "drop", "done"}

\* The types of the variables of search and shrink.
ExploreTypeOK ==
    /\ minimise \in BOOLEAN /\ deterministic \in BOOLEAN
    /\ stage \in Stages
    /\ seed \in 0 .. Seeds
    /\ trace \in Seq(Threads) /\ complete \in BOOLEAN
    /\ budget \in Nat
    /\ lo \in Nat /\ hi \in Nat /\ step \in Nat \ {0}
    /\ plan \in Seq(Threads) /\ i \in Nat \ {0}
    /\ result \in {"none", "clean", "disabled", "truncated", "not_reproducible", "minimised"}
    /\ yes \subseteq Seq(Threads) /\ no \subseteq Seq(Threads)

\* "The schedule was shrunk, and replaying it reproduces the finding": the
\* schedule returned is one that was itself seen to show the finding, however
\* the bisection and the dropped switches went and wherever the budget ended.
MinimisedReproduces == result = "minimised" => plan \in yes

\* Shrinking never makes a schedule longer or harder to read than the run that
\* failed.
NeverWorse ==
    result = "minimised" =>
        Len(plan) <= Len(trace) /\ Switches(plan) <= Switches(trace)

\* Unless the budget ran out, the prefix found is locally the shortest: with
\* one decision less the finding did not show.
PrefixTight ==
    stage = "drop" /\ budget > 0 /\ hi > 0 => Prefix(hi - 1) \in no

\* "Replaying the recorded schedule did not reproduce the finding, so the kernel
\* does not behave the same way twice": NotReproducible is said of a kernel whose
\* whole record was replayed and did not show the finding, which no function of
\* its schedule does; or else, against the words, the budget was 0 and nothing
\* was replayed.
BlameBacked ==
    result = "not_reproducible" =>
        \/ ~deterministic /\ trace \in no
        \/ budget = 0 /\ no = {}

\* search returns.
SearchEnds == <>(stage = "done")
=============================================================================
