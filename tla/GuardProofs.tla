----------------------------- MODULE GuardProofs -----------------------------
(***************************************************************************)
(* Element guards, for every number of threads, buffers and launches: no   *)
(* element has two guards, poison comes only from a panic or from a guard  *)
(* kept through another operation and is never met in the launch that left *)
(* it, and every element read unwritten is reported, was lent or is        *)
(* poisoned.                                                               *)
(***************************************************************************)
EXTENDS Guard, TLAPS

\* What a guard stands for: its element is recorded as written, and as lent if
\* it was not.
GuardsBacked ==
    /\ guards \in [Threads -> SUBSET Buffers]
    /\ \A t \in Threads : guards[t] \subseteq init \cap (lent \cup written)

TypeInv == GuardTypeOK /\ GuardsBacked

\* An operation in progress names a buffer.
LEMMA WantNamesBuffer ==
    ASSUME GuardTypeOK, NEW t \in Threads, at[t] = "waiting"
    PROVE  want[t] \in Wants /\ want[t].buf \in Buffers
BY DEF GuardTypeOK, Wants

\* Dropping the guards of a thread leaves those of the others theirs.
LEMMA DropType ==
    ASSUME GuardTypeOK, GuardsBacked, NEW t \in Threads, NEW held, Drop(t, held),
           init \subseteq init', lent \subseteq lent', written \subseteq written'
    PROVE  /\ owner' \in [Buffers -> Threads \cup {Nobody}]
           /\ \A u \in Threads, b \in Buffers : b \in guards'[u] => owner'[b] = u
           /\ poisoned' \in [Buffers -> 0 .. MaxLaunches]
           /\ GuardsBacked'
<1>1. guards' = [guards EXCEPT ![t] = {}] /\ guards \in [Threads -> SUBSET Buffers]
      BY DEF Drop, GuardsBacked
<1>2. owner' = [b \in Buffers |-> IF owner[b] = t THEN Nobody ELSE owner[b]]
      BY DEF Drop
<1>3. owner' \in [Buffers -> Threads \cup {Nobody}]
      BY <1>2 DEF GuardTypeOK
<1>4. \A u \in Threads, b \in Buffers : b \in guards'[u] => owner'[b] = u
      BY <1>1, <1>2 DEF GuardTypeOK
<1>5. poisoned' \in [Buffers -> 0 .. MaxLaunches]
      BY GuardAssumption DEF Drop, GuardTypeOK
<1>6. GuardsBacked'
      BY <1>1 DEF GuardsBacked
<1>7. QED BY <1>3, <1>4, <1>5, <1>6

Places == {"start", "kernel", "waiting", "blocked", "barrier", "released", "finished", "gone"}

\* The types of the run and of the locks, apart.
RunOK ==
    /\ launch \in 1 .. MaxLaunches
    /\ host \in {"launching", "between", "panicked"}
    /\ turn \in Threads
    /\ at \in [Threads -> Places]
    /\ want \in [Threads -> Wants \cup {NoWant}]
    /\ \A t \in Threads : at[t] = "waiting" => want[t] # NoWant
    /\ ops \in [Threads -> 0 .. MaxOps]

LocksOK ==
    /\ owner \in [Buffers -> Threads \cup {Nobody}]
    /\ \A t \in Threads, b \in Buffers : b \in guards[t] => owner[b] = t
    /\ poisoned \in [Buffers -> 0 .. MaxLaunches]

MarksOK == written \subseteq init /\ init \subseteq Buffers

\* The type invariant is its parts, now and after a step.
LEMMA TypeParts == TypeInv <=> RunOK /\ LocksOK /\ MarksOK /\ GuardsBacked
BY DEF TypeInv, GuardTypeOK, RunOK, LocksOK, MarksOK, Places

\* The same of the next state.
LEMMA TypePartsNext == TypeInv' <=> RunOK' /\ LocksOK' /\ MarksOK' /\ GuardsBacked'
BY DEF TypeInv, GuardTypeOK, RunOK, LocksOK, MarksOK, Places

\* Every step keeps the types of the run.
LEMMA RunStep == TypeInv /\ [Next]_vars => RunOK'
<1> SUFFICES ASSUME RunOK, [Next]_vars PROVE RunOK'
    BY TypeParts
<1> USE GuardAssumption DEF RunOK, Places
<1>1. ASSUME NEW t \in Threads, Enter(t) PROVE RunOK'
      BY <1>1 DEF Enter, Goto
<1>2. ASSUME NEW t \in Threads, NEW w \in Wants, Call(t, w) PROVE RunOK'
  <2>1. w # NoWant
        BY DEF Wants, NoWant
  <2>2. QED BY <1>2, <2>1 DEF Call, Goto, Begin, Ready
<1>3. ASSUME NEW t \in Threads, FindPoison(t) PROVE RunOK'
      BY <1>3 DEF FindPoison, Unwind, Goto
<1>4. ASSUME NEW t \in Threads, Read(t) \/ Write(t) \/ Borrow(t) \/ (\E s : Atomic(t, s))
      PROVE  RunOK'
  <2>1. Continue(t) /\ UNCHANGED <<launch, host>>
        BY <1>4 DEF Read, Write, Borrow, Atomic
  <2>2. QED BY <2>1 DEF Continue, Goto
<1>5. ASSUME NEW t \in Threads, PanickingUpdate(t) \/ Panic(t) PROVE RunOK'
  <2>1. (\E held : Unwind(t, held)) /\ UNCHANGED <<launch, host>>
        BY <1>5 DEF PanickingUpdate, Panic
  <2>2. QED BY <2>1 DEF Unwind, Goto
<1>6. ASSUME NEW t \in Threads, BorrowOutside(t) PROVE RunOK'
      BY <1>6 DEF BorrowOutside, Outside, Continue, Unwind, Goto
<1>7. ASSUME NEW t \in Threads, NEW b \in Buffers,
             GuardRead(t, b) \/ GuardWrite(t, b) \/ DropGuard(t, b) PROVE RunOK'
      BY <1>7 DEF GuardRead, GuardWrite, DropGuard, run
<1>8. ASSUME NEW t \in Threads, NEW b \in Buffers, Length(t, b) PROVE RunOK'
      BY <1>8 DEF Length, Goto, Begin
<1>9. ASSUME NEW t \in Threads, NEW b \in Buffers, LengthFindsPoison(t, b) PROVE RunOK'
      BY <1>9 DEF LengthFindsPoison, Unwind, Goto
<1>10. ASSUME NEW t \in Threads, SyncThreads(t) PROVE RunOK'
      BY <1>10 DEF SyncThreads, Begin, Goto, Ready
<1>11. ASSUME NEW t \in Threads, Finish(t) PROVE RunOK'
      BY <1>11 DEF Finish, Goto, Ready
<1>12. ASSUME NEW t \in Threads, NoticeAbort(t) PROVE RunOK'
      BY <1>12 DEF NoticeAbort, Goto
<1>13. CASE EndLaunch \/ HostFindsPoison
      BY <1>13 DEF EndLaunch, HostFindsPoison, run
<1>14. CASE NextLaunch
      BY <1>14 DEF NextLaunch
<1>15. CASE UNCHANGED vars
      BY <1>15 DEF vars, run
<1>16. QED BY <1>1, <1>2, <1>3, <1>4, <1>5, <1>6, <1>7, <1>8, <1>9, <1>10, <1>11, <1>12,
              <1>13, <1>14, <1>15, Zenon DEF Next

\* Every step keeps the locks with their guards and the marks with the writes.
LEMMA LockStep == TypeInv /\ [Next]_vars => LocksOK' /\ MarksOK' /\ GuardsBacked'
<1> SUFFICES ASSUME TypeInv, [Next]_vars PROVE LocksOK' /\ MarksOK' /\ GuardsBacked'
    OBVIOUS
<1>0. RunOK /\ LocksOK /\ MarksOK /\ GuardsBacked /\ GuardTypeOK
      BY TypeParts DEF TypeInv
<1> DEFINE Goal == LocksOK' /\ MarksOK' /\ GuardsBacked'
<1>a. ASSUME UNCHANGED <<locks, init, written, lent>> PROVE Goal
      BY <1>0, <1>a DEF LocksOK, MarksOK, GuardsBacked, locks
<1>b. ASSUME NEW t \in Threads, NEW held, Drop(t, held), UNCHANGED <<init, written, lent>>
      PROVE  Goal
  <2>1. MarksOK'
        BY <1>0, <1>b DEF MarksOK
  <2>2. QED BY <1>0, <1>b, <2>1, DropType DEF LocksOK
<1>1. ASSUME NEW t \in Threads, Enter(t) \/ Read(t) \/ Finish(t) PROVE Goal
      BY <1>a, <1>1 DEF Enter, Read, Finish, memory
<1>c. ASSUME NEW t \in Threads, NEW w \in Wants, Call(t, w) PROVE Goal
      BY <1>a, <1>c DEF Call, memory
<1>2. ASSUME NEW t \in Threads, FindPoison(t) PROVE Goal
      BY <1>b, <1>2 DEF FindPoison, Unwind, memory
<1>3. ASSUME NEW t \in Threads, Write(t) PROVE Goal
  <2>1. /\ want[t].buf \in Buffers /\ UNCHANGED <<locks, lent>>
        /\ init' = init \cup {want[t].buf} /\ written' = written \cup {want[t].buf}
        BY <1>0, <1>3, WantNamesBuffer DEF Write, Makes, Locks
  <2>2. QED BY <1>0, <2>1 DEF LocksOK, MarksOK, GuardsBacked, locks
<1>d. ASSUME NEW t \in Threads, NEW s, Atomic(t, s) PROVE Goal
  <2>1. /\ want[t].buf \in Buffers /\ UNCHANGED <<locks, lent>>
        /\ init' = init \cup {want[t].buf}
        /\ written \subseteq written' /\ written' \subseteq written \cup {want[t].buf}
        BY <1>0, <1>d, WantNamesBuffer DEF Atomic, Makes, Locks
  <2>2. QED BY <1>0, <2>1 DEF LocksOK, MarksOK, GuardsBacked, locks
<1>4. ASSUME NEW t \in Threads, PanickingUpdate(t) PROVE Goal
  <2>1. /\ want[t].buf \in Buffers /\ Drop(t, {want[t].buf})
        /\ init' = init \cup {want[t].buf} /\ UNCHANGED <<written, lent>>
        BY <1>0, <1>4, WantNamesBuffer DEF PanickingUpdate, Makes, Locks, Unwind
  <2>2. MarksOK'
        BY <1>0, <2>1 DEF MarksOK
  <2>3. QED BY <1>0, <2>1, <2>2, DropType DEF LocksOK
<1>5. ASSUME NEW t \in Threads, Borrow(t) PROVE Goal
  <2> DEFINE b == want[t].buf
  <2>1. /\ b \in Buffers /\ owner[b] = Nobody
        /\ guards' = [guards EXCEPT ![t] = @ \cup {b}] /\ owner' = [owner EXCEPT ![b] = t]
        /\ init' = init \cup {b} /\ lent' = lent \cup ({b} \ written)
        /\ UNCHANGED <<poisoned, written>>
        BY <1>0, <1>5, WantNamesBuffer DEF Borrow, Makes, Locks
  <2> HIDE DEF b
  <2>2. \A u \in Threads : b \notin guards[u]
        BY <1>0, <2>1, GuardAssumption DEF LocksOK
  <2>3. \A u \in Threads, c \in Buffers : c \in guards'[u] => owner'[c] = u
        BY <1>0, <2>1, <2>2 DEF LocksOK, GuardsBacked
  <2>4. LocksOK'
        BY <1>0, <2>1, <2>3 DEF LocksOK
  <2>5. QED BY <1>0, <2>1, <2>4 DEF MarksOK, GuardsBacked
<1>6. ASSUME NEW t \in Threads, BorrowOutside(t) PROVE Goal
      BY <1>a, <1>b, <1>6 DEF BorrowOutside, Outside, Unwind, memory
<1>7. ASSUME NEW t \in Threads, NEW b \in Buffers, GuardRead(t, b) PROVE Goal
      BY <1>a, <1>7 DEF GuardRead
<1>8. ASSUME NEW t \in Threads, NEW b \in Buffers, GuardWrite(t, b) PROVE Goal
      BY <1>0, <1>8 DEF GuardWrite, LocksOK, MarksOK, GuardsBacked, locks
<1>9. ASSUME NEW t \in Threads, NEW b \in Buffers, DropGuard(t, b) PROVE Goal
  <2>1. /\ b \in guards[t] /\ guards' = [guards EXCEPT ![t] = @ \ {b}]
        /\ owner' = [owner EXCEPT ![b] = Nobody] /\ UNCHANGED <<poisoned, init, written, lent>>
        BY <1>9 DEF DropGuard, memory
  <2>2. \A u \in Threads : u # t => b \notin guards[u]
        BY <1>0, <2>1 DEF LocksOK
  <2>3. \A u \in Threads, c \in Buffers : c \in guards'[u] => owner'[c] = u
        BY <1>0, <2>1, <2>2 DEF LocksOK, GuardsBacked
  <2>4. LocksOK'
        BY <1>0, <2>1, <2>3 DEF LocksOK
  <2>5. QED BY <1>0, <2>1, <2>4 DEF MarksOK, GuardsBacked
<1>10. ASSUME NEW t \in Threads, NEW b \in Buffers, Length(t, b) PROVE Goal
      BY <1>a, <1>10 DEF Length, memory
<1>11. ASSUME NEW t \in Threads, NEW b \in Buffers, LengthFindsPoison(t, b) PROVE Goal
      BY <1>b, <1>11 DEF LengthFindsPoison, Unwind, memory
<1>12. ASSUME NEW t \in Threads, SyncThreads(t) PROVE Goal
  <2>1. (UNCHANGED locks \/ Drop(t, {})) /\ UNCHANGED memory
        BY <1>12, Zenon DEF SyncThreads
  <2>2. QED BY <1>a, <1>b, <2>1 DEF memory
<1>13. ASSUME NEW t \in Threads, Panic(t) PROVE Goal
      BY <1>b, <1>13 DEF Panic, Unwind, memory
<1>14. ASSUME NEW t \in Threads, NoticeAbort(t) PROVE Goal
      BY <1>b, <1>14 DEF NoticeAbort, memory
<1>15. ASSUME EndLaunch \/ HostFindsPoison \/ NextLaunch PROVE Goal
      BY <1>a, <1>15 DEF EndLaunch, HostFindsPoison, NextLaunch, memory
<1>16. ASSUME UNCHANGED vars PROVE Goal
      BY <1>a, <1>16 DEF vars, memory
<1> HIDE DEF Goal
<1>17. Goal
      BY <1>c, <1>d, <1>1, <1>2, <1>3, <1>4, <1>5, <1>6, <1>7, <1>8, <1>9, <1>10, <1>11, <1>12,
         <1>13, <1>14, <1>15, <1>16, Zenon DEF Next
<1>18. QED BY <1>17 DEF Goal

\* A host starts with nothing lent, locked or poisoned.
LEMMA TypeInit == Init => TypeInv
<1> SUFFICES ASSUME Init PROVE RunOK /\ LocksOK /\ MarksOK /\ GuardsBacked
    BY TypeParts
<1>1. QED BY GuardAssumption DEF Init, RunOK, LocksOK, MarksOK, GuardsBacked, Places

\* Every step keeps the types.
LEMMA TypeStep == TypeInv /\ [Next]_vars => TypeInv'
BY RunStep, LockStep, TypePartsNext

(***************************************************************************)
(* Poison.  A thread that is between operations with a guard alive has     *)
(* overlapped them; the launch that poisons a buffer is over for everyone  *)
(* else, so that a live launch has met poison only of earlier ones.        *)
(***************************************************************************)
KeptMeansOverlap ==
    /\ \A t \in Threads : at[t] \in {"start", "finished", "gone"} => guards[t] = {}
    /\ \A t \in Threads : at[t] # "kernel" /\ guards[t] # {} => overlapped
    /\ host # "launching" => \A t \in Threads : at[t] \in {"finished", "gone"}

PoisonIsOld ==
    \A b \in Buffers : /\ poisoned[b] <= launch
                       /\ host = "launching" /\ ~aborted => poisoned[b] < launch

\* Every step keeps what an overlap is.
LEMMA OverlapStep == TypeInv /\ KeptMeansOverlap /\ [Next]_vars => KeptMeansOverlap'
<1> SUFFICES ASSUME TypeInv, KeptMeansOverlap, [Next]_vars PROVE KeptMeansOverlap'
    OBVIOUS
<1>0. at \in [Threads -> Places] /\ guards \in [Threads -> SUBSET Buffers]
      BY TypeParts DEF RunOK, GuardsBacked
<1> USE <1>0 DEF KeptMeansOverlap
<1>a. ASSUME NEW t \in Threads, NEW held, Drop(t, held), Goto(t, "gone"), UNCHANGED host,
             overlapped => overlapped'
      PROVE  KeptMeansOverlap'
      BY <1>a DEF Drop, Goto
<1>1. ASSUME NEW t \in Threads, Enter(t) PROVE KeptMeansOverlap'
      BY <1>1 DEF Enter, Goto, HasTurn, locks, aux
<1>2. ASSUME NEW t \in Threads, NEW w, Call(t, w) PROVE KeptMeansOverlap'
  <2>1. /\ host = "launching" /\ UNCHANGED <<host, guards>> /\ at' = [at EXCEPT ![t] = "waiting"]
        /\ at[t] = "kernel" /\ (overlapped \/ guards[t] # {} => overlapped')
        BY <1>2 DEF Call, Goto, Begin, InKernel, HasTurn, locks
  <2>2. QED BY <2>1
<1>3. ASSUME NEW t \in Threads, FindPoison(t) PROVE KeptMeansOverlap'
      BY <1>a, <1>3 DEF FindPoison, Unwind
<1>4. ASSUME NEW t \in Threads, Read(t) \/ Write(t) \/ (\E s : Atomic(t, s))
      PROVE  KeptMeansOverlap'
  <2>1. /\ host = "launching" /\ UNCHANGED <<host, guards, overlapped>>
        /\ at' = [at EXCEPT ![t] = "kernel"]
        BY <1>4 DEF Read, Write, Atomic, Makes, Locks, HasTurn, Continue, Goto, locks, aux
  <2>2. QED BY <2>1
<1>5. ASSUME NEW t \in Threads, PanickingUpdate(t) \/ Panic(t) PROVE KeptMeansOverlap'
      BY <1>a, <1>5 DEF PanickingUpdate, Panic, Unwind
<1>6. ASSUME NEW t \in Threads, Borrow(t) PROVE KeptMeansOverlap'
  <2>1. /\ host = "launching" /\ UNCHANGED <<host, overlapped>>
        /\ guards' = [guards EXCEPT ![t] = @ \cup {want[t].buf}]
        /\ at' = [at EXCEPT ![t] = "kernel"]
        BY <1>6 DEF Borrow, Makes, Locks, HasTurn, Continue, Goto, aux
  <2>2. QED BY <2>1
<1>7. ASSUME NEW t \in Threads, BorrowOutside(t) PROVE KeptMeansOverlap'
  <2>1. CASE Continue(t) /\ UNCHANGED locks
    <3>1. /\ host = "launching" /\ UNCHANGED <<host, guards, overlapped>>
          /\ at' = [at EXCEPT ![t] = "kernel"]
          BY <1>7, <2>1 DEF BorrowOutside, Outside, Makes, Locks, HasTurn, Continue, Goto, locks, aux
    <3>2. QED BY <3>1
  <2>2. CASE Unwind(t, {})
        BY <1>a, <1>7, <2>2 DEF BorrowOutside, Unwind, aux
  <2>3. QED BY <1>7, <2>1, <2>2 DEF BorrowOutside, Outside
<1>8. ASSUME NEW t \in Threads, NEW b \in Buffers,
             GuardRead(t, b) \/ GuardWrite(t, b) PROVE KeptMeansOverlap'
      BY <1>8 DEF GuardRead, GuardWrite, run, locks, aux
<1>9. ASSUME NEW t \in Threads, NEW b \in Buffers, DropGuard(t, b) PROVE KeptMeansOverlap'
      BY <1>9 DEF DropGuard, run, aux
<1>10. ASSUME NEW t \in Threads, NEW b \in Buffers, Length(t, b) PROVE KeptMeansOverlap'
  <2>1. /\ host = "launching" /\ UNCHANGED <<host, guards>>
        /\ at' = [at EXCEPT ![t] = IF owner[b] = Nobody THEN "kernel" ELSE "blocked"]
        /\ (overlapped \/ guards[t] # {} => overlapped')
        BY <1>10 DEF Length, Goto, Begin, InKernel, HasTurn, locks
  <2>2. QED BY <2>1
<1>11. ASSUME NEW t \in Threads, NEW b \in Buffers, LengthFindsPoison(t, b)
       PROVE  KeptMeansOverlap'
      BY <1>a, <1>11 DEF LengthFindsPoison, Unwind
<1>12. ASSUME NEW t \in Threads, SyncThreads(t) PROVE KeptMeansOverlap'
  <2>1. /\ host = "launching" /\ UNCHANGED host /\ at[t] = "kernel"
        /\ (overlapped \/ guards[t] # {} => overlapped')
        BY <1>12 DEF SyncThreads, Begin, InKernel, HasTurn
  <2>2. \/ /\ \A u \in Threads \ {t} : at[u] = "barrier"
           /\ at' = [u \in Threads |-> "released"] /\ UNCHANGED guards
        \/ at' = [at EXCEPT ![t] = "barrier"] /\ UNCHANGED guards
        \/ Goto(t, "gone") /\ Drop(t, {})
        BY <1>12, Zenon DEF SyncThreads, Goto, locks
  <2>3. CASE /\ \A u \in Threads \ {t} : at[u] = "barrier"
             /\ at' = [u \in Threads |-> "released"] /\ UNCHANGED guards
        BY <2>1, <2>3
  <2>4. CASE at' = [at EXCEPT ![t] = "barrier"] /\ UNCHANGED guards
        BY <2>1, <2>4
  <2>5. CASE Goto(t, "gone") /\ Drop(t, {})
        BY <1>a, <2>1, <2>5
  <2>6. QED BY <2>2, <2>3, <2>4, <2>5
<1>13. ASSUME NEW t \in Threads, Finish(t) PROVE KeptMeansOverlap'
      BY <1>13 DEF Finish, Goto, InKernel, HasTurn, locks, aux
<1>14. ASSUME NEW t \in Threads, NoticeAbort(t) PROVE KeptMeansOverlap'
      BY <1>a, <1>14 DEF NoticeAbort, aux
<1>15. CASE EndLaunch \/ HostFindsPoison
      BY <1>15 DEF EndLaunch, HostFindsPoison, run, locks, aux
<1>16. CASE NextLaunch
      BY <1>16 DEF NextLaunch, locks, aux
<1>17. CASE UNCHANGED vars
      BY <1>17 DEF vars, run, locks, aux
<1>18. QED BY <1>1, <1>2, <1>3, <1>4, <1>5, <1>6, <1>7, <1>8, <1>9, <1>10, <1>11, <1>12,
              <1>13, <1>14, <1>15, <1>16, <1>17, Zenon DEF Next

\* Every step poisons only with a cause, and a live launch meets old poison only.
LEMMA PoisonStep ==
    TypeInv /\ KeptMeansOverlap /\ PoisonIsOld /\ PoisonContained /\ [Next]_vars
        => PoisonIsOld' /\ PoisonContained'
<1> SUFFICES ASSUME TypeInv, KeptMeansOverlap, PoisonIsOld, PoisonContained, [Next]_vars
             PROVE  PoisonIsOld' /\ PoisonContained'
    OBVIOUS
<1>0. /\ launch \in Nat \ {0} /\ guards \in [Threads -> SUBSET Buffers] /\ GuardTypeOK
      /\ poisoned \in [Buffers -> Nat]
  <2>1. RunOK /\ LocksOK /\ GuardsBacked /\ GuardTypeOK
        BY TypeParts DEF TypeInv
  <2>2. QED BY <2>1, GuardAssumption DEF RunOK, LocksOK, GuardsBacked
<1> DEFINE Goal == PoisonIsOld' /\ PoisonContained'
<1>a. ASSUME UNCHANGED <<launch, host, poisoned, found>>, aborted => aborted',
             panicked => panicked', overlapped => overlapped'
      PROVE  Goal
      BY <1>0, <1>a DEF PoisonIsOld, PoisonContained
<1>b. ASSUME NEW t \in Threads, NEW held, Drop(t, held), aborted', UNCHANGED <<launch, found>>,
             panicked => panicked', overlapped => overlapped',
             guards[t] \cup held # {} => panicked' \/ overlapped'
      PROVE  Goal
  <2>1. poisoned' = [b \in Buffers |-> IF b \in guards[t] \cup held /\ poisoned[b] = 0
                                      THEN launch ELSE poisoned[b]]
        BY <1>b DEF Drop
  <2>2. PoisonIsOld'
        BY <1>0, <1>b, <2>1 DEF PoisonIsOld
  <2>3. PoisonContained'
        BY <1>0, <1>b, <2>1 DEF PoisonContained
  <2>4. QED BY <2>2, <2>3
<1>c. ASSUME NEW t \in Threads, NEW b \in Buffers, Drop(t, {}), aborted', HasTurn(t),
             poisoned[b] > 0, UNCHANGED <<launch, panicked>>, overlapped => overlapped',
             found' = found \cup {<<poisoned[b], launch>>}
      PROVE  Goal
  <2>1. poisoned' = [c \in Buffers |-> IF c \in guards[t] \cup {} /\ poisoned[c] = 0
                                      THEN launch ELSE poisoned[c]]
        BY <1>c DEF Drop
  <2>2. PoisonIsOld'
        BY <1>0, <1>c, <2>1 DEF PoisonIsOld
  <2>3. panicked' \/ overlapped'
        BY <1>c DEF PoisonContained
  <2>4. poisoned[b] < launch
        BY <1>c DEF PoisonIsOld, HasTurn
  <2>5. \A p \in found' : p[1] < p[2]
        BY <1>c, <2>4 DEF PoisonContained
  <2>6. QED BY <2>2, <2>3, <2>5 DEF PoisonContained
<1>1. ASSUME NEW t \in Threads, Enter(t) PROVE Goal
      BY <1>a, <1>1 DEF Enter, locks, aux
<1>2. ASSUME NEW t \in Threads, NEW w \in Wants, Call(t, w) PROVE Goal
  <2>1. UNCHANGED <<launch, host, poisoned, found, aborted, panicked>> /\ (overlapped => overlapped')
        BY <1>2 DEF Call, Begin, locks
  <2>2. QED BY <1>a, <2>1
<1>3. ASSUME NEW t \in Threads, FindPoison(t) PROVE Goal
  <2>1. want[t].buf \in Buffers
        BY <1>0, <1>3, WantNamesBuffer DEF FindPoison, Locks
  <2>2. /\ Drop(t, {}) /\ aborted' /\ HasTurn(t) /\ poisoned[want[t].buf] > 0
        /\ UNCHANGED <<launch, panicked, overlapped>>
        /\ found' = found \cup {<<poisoned[want[t].buf], launch>>}
        BY <1>3 DEF FindPoison, Locks, Unwind
  <2>3. QED BY <1>c, <2>1, <2>2
<1>4. ASSUME NEW t \in Threads, Read(t) \/ Write(t) \/ (\E s : Atomic(t, s)) PROVE Goal
      BY <1>a, <1>4 DEF Read, Write, Atomic, Continue, locks, aux
<1>5. ASSUME NEW t \in Threads, PanickingUpdate(t) PROVE Goal
      BY <1>b, <1>5 DEF PanickingUpdate, Unwind
<1>6. ASSUME NEW t \in Threads, Borrow(t) PROVE Goal
      BY <1>a, <1>6 DEF Borrow, Continue, aux
<1>7. ASSUME NEW t \in Threads, BorrowOutside(t) PROVE Goal
  <2>1. CASE Continue(t) /\ UNCHANGED locks
        BY <1>a, <1>7, <2>1 DEF BorrowOutside, Continue, locks, aux
  <2>2. CASE Unwind(t, {})
    <3>1. guards[t] # {} => overlapped
          BY <1>7 DEF KeptMeansOverlap, BorrowOutside, Outside, Makes, Locks
    <3>2. QED BY <1>b, <1>7, <2>2, <3>1 DEF BorrowOutside, Unwind, aux
  <2>3. QED BY <1>7, <2>1, <2>2 DEF BorrowOutside, Outside
<1>8. ASSUME NEW t \in Threads, NEW b \in Buffers,
             GuardRead(t, b) \/ GuardWrite(t, b) \/ DropGuard(t, b) PROVE Goal
      BY <1>a, <1>8 DEF GuardRead, GuardWrite, DropGuard, run, locks, aux
<1>9. ASSUME NEW t \in Threads, NEW b \in Buffers, Length(t, b) PROVE Goal
  <2>1. UNCHANGED <<launch, host, poisoned, found, aborted, panicked>> /\ (overlapped => overlapped')
        BY <1>9 DEF Length, Begin, locks
  <2>2. QED BY <1>a, <2>1
<1>10. ASSUME NEW t \in Threads, NEW b \in Buffers, LengthFindsPoison(t, b) PROVE Goal
  <2>1. /\ Drop(t, {}) /\ aborted' /\ HasTurn(t) /\ poisoned[b] > 0
        /\ UNCHANGED <<launch, panicked>> /\ (overlapped => overlapped')
        /\ found' = found \cup {<<poisoned[b], launch>>}
        BY <1>10 DEF LengthFindsPoison, InKernel, Unwind
  <2>2. QED BY <1>c, <2>1
<1>11. ASSUME NEW t \in Threads, SyncThreads(t) PROVE Goal
  <2>1. /\ UNCHANGED <<launch, host, panicked, found>>
        /\ (overlapped => overlapped') /\ (guards[t] # {} => overlapped')
        BY <1>11 DEF SyncThreads, Begin
  <2>2. (UNCHANGED <<aborted, locks>>) \/ (Drop(t, {}) /\ aborted' = TRUE)
        BY <1>11, Zenon DEF SyncThreads
  <2>3. CASE UNCHANGED <<aborted, locks>>
        BY <1>a, <2>1, <2>3 DEF locks
  <2>4. CASE Drop(t, {}) /\ aborted' = TRUE
        BY <1>b, <2>1, <2>4
  <2>5. QED BY <2>2, <2>3, <2>4
<1>12. ASSUME NEW t \in Threads, Panic(t) PROVE Goal
      BY <1>b, <1>12 DEF Panic, Unwind
<1>13. ASSUME NEW t \in Threads, Finish(t) PROVE Goal
  <2>1. UNCHANGED <<launch, host, poisoned, found, panicked, overlapped>> /\ ~aborted
        BY <1>13 DEF Finish, InKernel, HasTurn, locks, aux
  <2>2. QED BY <1>a, <2>1
<1>14. ASSUME NEW t \in Threads, NoticeAbort(t) PROVE Goal
  <2>1. at[t] \in {"start", "waiting", "released", "barrier"} /\ Drop(t, {}) /\ aborted
        /\ UNCHANGED <<launch, aborted, overlapped, panicked, found>>
        BY <1>14 DEF NoticeAbort, aux
  <2>2. guards[t] # {} => overlapped
        BY <2>1 DEF KeptMeansOverlap
  <2>3. QED BY <1>b, <2>1, <2>2
<1>15. ASSUME EndLaunch \/ HostFindsPoison PROVE Goal
  <2>1. host' # "launching" /\ UNCHANGED <<launch, poisoned, found, panicked, overlapped>>
        BY <1>15 DEF EndLaunch, HostFindsPoison, locks, aux
  <2>2. QED BY <2>1 DEF PoisonIsOld, PoisonContained
<1>16. ASSUME NextLaunch PROVE Goal
  <2>1. launch' = launch + 1 /\ UNCHANGED <<poisoned, found, panicked, overlapped>>
        BY <1>16 DEF NextLaunch, locks, aux
  <2>2. QED BY <1>0, <2>1 DEF PoisonIsOld, PoisonContained
<1>17. ASSUME UNCHANGED vars PROVE Goal
      BY <1>a, <1>17 DEF vars, run, locks, aux
<1> HIDE DEF Goal
<1>18. Goal
      BY <1>1, <1>2, <1>3, <1>4, <1>5, <1>6, <1>7, <1>8, <1>9, <1>10, <1>11, <1>12,
         <1>13, <1>14, <1>15, <1>16, <1>17, Zenon DEF Next
<1>19. QED BY <1>18 DEF Goal

(***************************************************************************)
(* Initialisation.  An element marked as written and not written has been  *)
(* reported (an atomic that stored nothing), lent, or poisoned by the      *)
(* update that was to write it.                                            *)
(***************************************************************************)
Accounted == reported \cup lent \cup {b \in Buffers : poisoned[b] > 0}

MarkedEarly == init \ written \subseteq Accounted

\* Every step marks early only what it accounts for, and misses only a read of
\* what is accounted for.
LEMMA MissedStep ==
    TypeInv /\ MarkedEarly /\ UnwrittenNoticed /\ [Next]_vars
        => MarkedEarly' /\ UnwrittenNoticed'
<1> SUFFICES ASSUME TypeInv, MarkedEarly, UnwrittenNoticed, [Next]_vars
             PROVE  MarkedEarly' /\ UnwrittenNoticed'
    OBVIOUS
<1>0. /\ launch \in Nat \ {0} /\ GuardTypeOK
      /\ poisoned \in [Buffers -> Nat] /\ init \subseteq Buffers
      /\ \A t \in Threads : guards[t] \subseteq lent \cup written
  <2>1. RunOK /\ LocksOK /\ GuardsBacked /\ MarksOK /\ GuardTypeOK
        BY TypeParts DEF TypeInv
  <2>2. QED BY <2>1, GuardAssumption DEF RunOK, LocksOK, GuardsBacked, MarksOK
<1>z. missed \subseteq Accounted
      BY DEF UnwrittenNoticed, Accounted
<1> DEFINE Goal == MarkedEarly' /\ UnwrittenNoticed'
<1>g. ASSUME init' \ written' \subseteq Accounted', missed' \subseteq Accounted' PROVE Goal
      BY <1>g DEF MarkedEarly, UnwrittenNoticed, Accounted
<1>h. ASSUME UNCHANGED poisoned, reported \subseteq reported', lent \subseteq lent'
      PROVE  Accounted \subseteq Accounted'
      BY <1>h DEF Accounted
<1>a. ASSUME UNCHANGED memory, UNCHANGED poisoned PROVE Goal
      BY <1>a DEF MarkedEarly, UnwrittenNoticed, Accounted, memory
<1>b. ASSUME NEW t \in Threads, NEW held, Drop(t, held), UNCHANGED <<reported, lent>>
      PROVE  Accounted \cup (Buffers \cap held) \subseteq Accounted'
  <2>1. poisoned' = [b \in Buffers |-> IF b \in guards[t] \cup held /\ poisoned[b] = 0
                                      THEN launch ELSE poisoned[b]]
        BY <1>b DEF Drop
  <2>2. \A b \in Buffers : (poisoned[b] > 0) \/ (b \in held) => poisoned'[b] > 0
        BY <1>0, <2>1
  <2>3. QED BY <1>b, <2>2 DEF Accounted
<1>c. ASSUME NEW t \in Threads, Drop(t, {}), UNCHANGED memory PROVE Goal
  <2>1. Accounted \subseteq Accounted' /\ UNCHANGED <<init, written, missed>>
        BY <1>b, <1>c DEF memory
  <2>2. QED BY <1>g, <1>z, <2>1 DEF MarkedEarly
<1>1. ASSUME NEW t \in Threads, Enter(t) \/ Finish(t) PROVE Goal
      BY <1>a, <1>1 DEF Enter, Finish, locks
<1>2. ASSUME NEW t \in Threads, NEW w \in Wants, Call(t, w) PROVE Goal
      BY <1>a, <1>2 DEF Call, locks
<1>3. ASSUME NEW t \in Threads, FindPoison(t) PROVE Goal
      BY <1>c, <1>3 DEF FindPoison, Unwind
<1>4. ASSUME NEW t \in Threads, Read(t) PROVE Goal
  <2>1. /\ UNCHANGED <<poisoned, init, written, lent>> /\ reported \subseteq reported'
        /\ missed' \subseteq missed \cup (init \ written)
        BY <1>4 DEF Read, locks
  <2>2. Accounted \subseteq Accounted'
        BY <1>h, <2>1
  <2>3. QED BY <1>g, <1>z, <2>1, <2>2 DEF MarkedEarly
<1>d. ASSUME NEW t \in Threads, NEW s, Atomic(t, s) PROVE Goal
  <2> DEFINE b == want[t].buf
  <2>1. /\ UNCHANGED <<poisoned, lent>> /\ init' = init \cup {b} /\ written \subseteq written'
        /\ reported' = reported \cup ({b} \ init)
        /\ missed' = missed \cup (({b} \cap init) \ written)
        BY <1>d DEF Atomic, locks
  <2> HIDE DEF b
  <2>2. Accounted \subseteq Accounted' /\ {b} \ init \subseteq Accounted'
        BY <1>h, <2>1 DEF Accounted
  <2>3. QED BY <1>g, <1>z, <2>1, <2>2 DEF MarkedEarly
<1>5. ASSUME NEW t \in Threads, Write(t) PROVE Goal
  <2>1. /\ UNCHANGED <<poisoned, lent, reported, missed>>
        /\ init' = init \cup {want[t].buf} /\ written' = written \cup {want[t].buf}
        BY <1>5 DEF Write, locks
  <2>2. Accounted \subseteq Accounted'
        BY <1>h, <2>1
  <2>3. QED BY <1>g, <1>z, <2>1, <2>2 DEF MarkedEarly
<1>6. ASSUME NEW t \in Threads, PanickingUpdate(t) PROVE Goal
  <2>1. /\ want[t].buf \in Buffers /\ Drop(t, {want[t].buf})
        /\ UNCHANGED <<written, lent, reported>> /\ init' = init \cup {want[t].buf}
        /\ missed' \subseteq missed \cup {want[t].buf}
        BY <1>0, <1>6, WantNamesBuffer DEF PanickingUpdate, Makes, Locks, Unwind
  <2>2. Accounted \cup {want[t].buf} \subseteq Accounted'
        BY <1>b, <2>1
  <2>3. QED BY <1>g, <1>z, <2>1, <2>2 DEF MarkedEarly
<1>7. ASSUME NEW t \in Threads, Borrow(t) PROVE Goal
  <2> DEFINE b == want[t].buf
  <2>1. /\ UNCHANGED <<poisoned, written, reported, missed>> /\ init' = init \cup {b}
        /\ lent' = lent \cup ({b} \ written)
        BY <1>7 DEF Borrow
  <2> HIDE DEF b
  <2>2. Accounted \subseteq Accounted' /\ {b} \ written \subseteq Accounted'
        BY <1>h, <2>1 DEF Accounted
  <2>3. QED BY <1>g, <1>z, <2>1, <2>2 DEF MarkedEarly
<1>8. ASSUME NEW t \in Threads, BorrowOutside(t) PROVE Goal
      BY <1>a, <1>c, <1>8 DEF BorrowOutside, Outside, Unwind, locks
<1>9. ASSUME NEW t \in Threads, NEW b \in Buffers, GuardRead(t, b) \/ GuardWrite(t, b)
      PROVE  Goal
  <2>1. /\ UNCHANGED <<poisoned, init, lent, reported>> /\ written \subseteq written'
        /\ missed' \subseteq missed \cup ({b} \ written) /\ b \in guards[t]
        BY <1>9 DEF GuardRead, GuardWrite, locks
  <2>2. Accounted \subseteq Accounted' /\ lent \subseteq Accounted'
        BY <1>h, <2>1 DEF Accounted
  <2>3. QED BY <1>0, <1>g, <1>z, <2>1, <2>2 DEF MarkedEarly
<1>10. ASSUME NEW t \in Threads, NEW b \in Buffers, DropGuard(t, b) \/ Length(t, b) PROVE Goal
      BY <1>a, <1>10 DEF DropGuard, Length, locks
<1>11. ASSUME NEW t \in Threads, NEW b \in Buffers, LengthFindsPoison(t, b) PROVE Goal
      BY <1>c, <1>11 DEF LengthFindsPoison, Unwind
<1>12. ASSUME NEW t \in Threads, SyncThreads(t) PROVE Goal
  <2>1. (UNCHANGED locks \/ Drop(t, {})) /\ UNCHANGED memory
        BY <1>12, Zenon DEF SyncThreads
  <2>2. QED BY <1>a, <1>c, <2>1 DEF locks
<1>13. ASSUME NEW t \in Threads, Panic(t) \/ NoticeAbort(t) PROVE Goal
      BY <1>c, <1>13 DEF Panic, NoticeAbort, Unwind
<1>14. ASSUME EndLaunch \/ HostFindsPoison \/ NextLaunch PROVE Goal
      BY <1>a, <1>14 DEF EndLaunch, HostFindsPoison, NextLaunch, locks
<1>15. ASSUME UNCHANGED vars PROVE Goal
      BY <1>a, <1>15 DEF vars, locks
<1> HIDE DEF Goal
<1>16. Goal
      BY <1>d, <1>1, <1>2, <1>3, <1>4, <1>5, <1>6, <1>7, <1>8, <1>9, <1>10, <1>11, <1>12,
         <1>13, <1>14, <1>15, Zenon DEF Next
<1>17. QED BY <1>16 DEF Goal

(***************************************************************************)
(* Theorems.                                                               *)
(***************************************************************************)
\* Nothing is lent, poisoned or missed when the host starts.
LEMMA GuardInit ==
    Init => KeptMeansOverlap /\ PoisonIsOld /\ PoisonContained /\ MarkedEarly /\ UnwrittenNoticed
BY DEF Init, KeptMeansOverlap, PoisonIsOld, PoisonContained, MarkedEarly, UnwrittenNoticed

\* No element ever has two guards: a buffer that is lent is locked by the very
\* thread it is lent to.
THEOREM GuardTypeCorrect == Spec => []GuardTypeOK
<1>1. TypeInv => GuardTypeOK
      BY DEF TypeInv
<1>2. QED BY <1>1, TypeInit, TypeStep, PTL DEF Spec

\* A trap, a divergence and the abort of the other threads poison no buffer,
\* and the poison a launch leaves is met only by a later one.
THEOREM PoisonIsContained == Spec => []PoisonContained
BY TypeInit, TypeStep, GuardInit, OverlapStep, PoisonStep, PTL DEF Spec

\* An element that is read before it is written has a diagnostic, unless a guard
\* was given for it (`elem_mut` records the write when it lends) or its buffer
\* was poisoned by the update that read it.
THEOREM UnwrittenIsNoticed == Spec => []UnwrittenNoticed
BY TypeInit, TypeStep, GuardInit, MissedStep, PTL DEF Spec
=============================================================================
