------------------------------- MODULE WarpOps -------------------------------
(***************************************************************************)
(* The values of the warp collectives: the source lanes of the four        *)
(* shuffles, what a shuffle returns and reports, and the votes             *)
(* (src/warp.rs), in the loops kernels make of them.                       *)
(*                                                                         *)
(* The two rendezvous of a collective make it one step of all the lanes of *)
(* the mask (ExchangeSound of Scheduler), so a round of a loop is an       *)
(* action: each lane gets a value that another had before the round.       *)
(***************************************************************************)
EXTENDS Integers, FiniteSetsExt, Bitwise

CONSTANTS
    LaneCount,        \* warp_size
    Idioms,           \* loops to run, of "down", "xor", "up" and "broadcast"
    LaneValues        \* values the lanes start with

Lanes == 0 .. LaneCount - 1
NoLane == LaneCount

VARIABLES
    idiom,            \* the loop
    mask,             \* its lane mask
    given,            \* what the lanes started with
    value,            \* what they have
    delta,            \* of the next round, 0 when the loop is over
    problems          \* lanes that reported SourceLaneNotInMask

warpVars == <<idiom, mask, given, value, delta, problems>>

(***************************************************************************)
(* Source lanes.  NoLane is one past the end of the warp.                  *)
(***************************************************************************)
SourceShfl(lane, src) == src % LaneCount

SourceUp(lane, d) == IF lane >= d THEN lane - d ELSE NoLane

SourceDown(lane, d) == IF lane + d < LaneCount THEN lane + d ELSE NoLane

SourceXor(lane, m) == IF (lane ^^ m) < LaneCount THEN lane ^^ m ELSE NoLane

\* Mutant: a source lane outside the mask is read all the same.
OutsideNever(src) == FALSE

Outside(src) == src # NoLane /\ src \notin mask

Shuffled(lane, src) == IF src = NoLane \/ Outside(src) THEN value[lane] ELSE value[src]

\* ballot_sync, any_sync, all_sync and the count of a ballot.
Ballot(pred) == {l \in mask : pred[l]}
Any(pred) == Ballot(pred) # {}
All(pred) == Ballot(pred) = mask

(***************************************************************************)
(* A round, in which lane l reads from lane source[l] and keeps            *)
(* new[l].                                                                 *)
(***************************************************************************)
Round(source, new) ==
    /\ value' = [l \in Lanes |-> IF l \in mask THEN new[l] ELSE value[l]]
    /\ problems' = problems \cup {l \in mask : Outside(source[l])}
    /\ UNCHANGED <<idiom, mask, given>>

\* v += shfl_down(v, delta); delta /= 2
ReduceDown ==
    LET source == [l \in Lanes |-> SourceDown(l, delta)] IN
    /\ idiom = "down" /\ delta > 0
    /\ Round(source, [l \in Lanes |-> value[l] + Shuffled(l, source[l])])
    /\ delta' = delta \div 2

\* v += shfl_xor(v, delta); delta /= 2
Butterfly ==
    LET source == [l \in Lanes |-> SourceXor(l, delta)] IN
    /\ idiom = "xor" /\ delta > 0
    /\ Round(source, [l \in Lanes |-> value[l] + Shuffled(l, source[l])])
    /\ delta' = delta \div 2

\* n = shfl_up(v, delta); if lane >= delta { v += n }; delta *= 2
ScanUp ==
    LET source == [l \in Lanes |-> SourceUp(l, delta)] IN
    /\ idiom = "up" /\ delta > 0
    /\ Round(source, [l \in Lanes |-> value[l] + IF l >= delta THEN Shuffled(l, source[l]) ELSE 0])
    /\ delta' = IF 2 * delta < LaneCount THEN 2 * delta ELSE 0

\* if any(v > 0) && !all(v > 0) { v = shfl(v, first lane of ballot(v > 0)) }
Broadcast ==
    LET pred == [l \in Lanes |-> value[l] > 0]
        first == CHOOSE l \in Ballot(pred) : \A m \in Ballot(pred) : l <= m
        source == [l \in Lanes |-> SourceShfl(l, first)]
    IN  /\ idiom = "broadcast" /\ delta > 0
        /\ IF Any(pred) /\ ~All(pred)
           THEN Round(source, [l \in Lanes |-> Shuffled(l, source[l])])
           ELSE UNCHANGED <<idiom, mask, given, value, problems>>
        /\ delta' = 0

WarpInit ==
    /\ idiom \in Idioms
    /\ mask \in SUBSET Lanes \ {{}}
    /\ given \in [Lanes -> LaneValues]
    /\ value = given
    /\ delta = IF idiom = "up" THEN 1 ELSE LaneCount \div 2
    /\ problems = {}

WarpNext == ReduceDown \/ Butterfly \/ ScanUp \/ Broadcast

\* The sum of what the lanes of S started with.
Total(S) == FoldSet(LAMBDA l, sum : given[l] + sum, 0, S)

\* A loop of collectives either gives the right answer or reports a lane that
\* it read outside the mask, whatever the mask: "mistakes that do not hang but
\* corrupt results" are caught.  With every lane of the warp in it, none are.
WarpAnswersOrReports ==
    delta = 0 =>
        /\ mask = Lanes => problems = {}
        /\ problems = {} =>
              CASE idiom = "down" -> 0 \in mask => value[0] = Total(mask)
                [] idiom = "xor" -> \A l \in mask : value[l] = Total(mask)
                [] idiom = "up" -> \A l \in mask : value[l] = Total({m \in mask : m <= l})
                [] idiom = "broadcast" ->
                     LET set == {l \in mask : given[l] > 0}
                     IN  set \notin {{}, mask} =>
                           \E f \in set : \A m \in set, l \in mask : f <= m /\ value[l] = given[f]
=============================================================================
