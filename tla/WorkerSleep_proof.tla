------------------------- MODULE WorkerSleep_proof -------------------------
(***************************************************************************)
(* WorkerSleep for every number of workers and every threshold its         *)
(* assumptions allow. The inductive invariant IInv is a conjunction of     *)
(* nine parts, each proved by a lemma of its own that goes through the     *)
(* actions of Next: Shape and Labelled say what values the variables and   *)
(* the program counters have; Local bounds one thief's failure counters;   *)
(* Counting equates the packed word disengaged_sentinel with what the      *)
(* program counters say; Indexing describes the two index arrays, in the   *)
(* middle of a swap too; Region follows one Cilkified region; Budget       *)
(* bounds the tokens of the disengaged-thief futex; Reading bounds the     *)
(* values a thread has read and not yet used; Wakeups is NoLostWakeup with *)
(* the place where sleepers sleep.                                         *)
(*                                                                         *)
(* The parts depend on one another: Counting needs Local (a thief that     *)
(* disengages has failed long enough to wake as the sentinel it is counted *)
(* as), Indexing needs Counting (the swap target is computed from the      *)
(* word), Budget needs Region and Reading (how many tokens can be asked    *)
(* for, and when), Wakeups needs Budget and Reading.                       *)
(***************************************************************************)
EXTENDS WorkerSleep, Sums_proof

(* The assumption on the constants, in the form the steps cite.            *)
LEMMA ConstantTypes ==
    /\ NWorkers \in Nat \ {0} /\ SENTINEL_THRESHOLD \in Nat \ {0}
    /\ NAP_THRESHOLD \in Nat /\ MIN_FAILS \in Nat /\ AS_RATIO \in Nat \ {0}
    /\ MIN_FAILS < SENTINEL_THRESHOLD
    /\ HISTORY_THRESHOLD \in Nat /\ HISTORY_THRESHOLD >= 2
    /\ HalfWord \in Nat \ {0} /\ NWorkers < HalfWord
    /\ IntMax \in Nat /\ 3 * NWorkers < IntMax
    /\ Multiple(NAP_THRESHOLD, SENTINEL_THRESHOLD)
<1>1. SENTINEL_THRESHOLD \in Nat \ {0}
  BY ThresholdAssumption, SMT
<1>2. Multiple(NAP_THRESHOLD, SENTINEL_THRESHOLD)
  BY <1>1, ThresholdAssumption, MultipleMod
<1> QED
  BY <1>1, <1>2, ThresholdAssumption, SMT

(* The derived thresholds: a thief has at least two samples behind it when *)
(* it may disengage, and fails wraps at a multiple of the sample period.   *)
LEMMA Thresholds ==
    /\ DISENGAGE_THRESHOLD \in Nat /\ MAX_FAILS \in Nat
    /\ DISENGAGE_THRESHOLD - SENTINEL_THRESHOLD >= SENTINEL_THRESHOLD
    /\ DISENGAGE_THRESHOLD <= MAX_FAILS
    /\ Multiple(MAX_FAILS, SENTINEL_THRESHOLD)
<1> DEFINE T == SENTINEL_THRESHOLD
           D == DISENGAGE_THRESHOLD
           M == IF NAP_THRESHOLD > D THEN NAP_THRESHOLD ELSE D
           d == HISTORY_THRESHOLD * T
           r == T * (HISTORY_THRESHOLD - 2)
<1>1. D \in Nat /\ D >= T + T /\ Multiple(D, T)
  <2>1. HISTORY_THRESHOLD - 2 \in Nat
    BY ConstantTypes, SMT
  <2>2. /\ d = T * HISTORY_THRESHOLD /\ d \in Nat
        /\ d = r + (T + T) /\ r >= 0 /\ r \in Int
    BY <2>1, ConstantTypes, SMT
  <2>3. D = d
    BY DEF DISENGAGE_THRESHOLD
  <2>4. Multiple(D, T)
    BY <2>2, <2>3, ConstantTypes, Zenon DEF Multiple
  <2> HIDE DEF d, r
  <2>5. d >= T + T
    BY <2>2, ConstantTypes
  <2> QED
    BY <2>2, <2>3, <2>4, <2>5
<1>2. M \in Nat /\ M >= D /\ Multiple(M, T)
  BY <1>1, ConstantTypes
<1> HIDE DEF M
<1>3. MAX_FAILS = M + M
  <2>1. 2 * M = M + M
    BY <1>2
  <2> QED
    BY <2>1 DEF M, MAX_FAILS
<1>4. Multiple(M + M, T)
  BY <1>2, ConstantTypes, MultipleSum
<1> QED
  BY <1>1, <1>2, <1>3, <1>4, ConstantTypes

(* Neither half of the 32-bit word disengaged_sentinel runs into the       *)
(* other: each is read back as it was packed.                              *)
LEMMA Unpacked ==
    ASSUME NEW a \in 0 .. NWorkers, NEW b \in 0 .. NWorkers
    PROVE  /\ a * HalfWord + b \in 0 .. HalfWord * HalfWord - 1
           /\ GET_DISENGAGED(a * HalfWord + b) = a
           /\ GET_SENTINEL(a * HalfWord + b) = b
<1> DEFINE H == HalfWord
           x == a * H + b
<1>1. H \in Nat \ {0} /\ a \in Nat /\ b \in Nat /\ a < H /\ b < H
  BY ConstantTypes, SMT
<1>2. x \in Nat /\ a * H \in Nat
  BY <1>1, SMT
<1>3. x <= H * H - 1
  <2>1. H - a \in Nat \ {0} /\ H * H = a * H + H * (H - a)
    BY <1>1, SMT
  <2>2. H * (H - a) >= H
    BY <1>1, <2>1, SMT
  <2> QED
    BY <1>1, <2>1, <2>2, SMT
<1>4. x \div H = a
  BY <1>1, SMT
<1>5. x % H = b
  BY <1>1, SMT
<1> QED
  BY <1>1, <1>2, <1>3, <1>4, <1>5, SMT DEF GET_DISENGAGED, GET_SENTINEL

(* Adding to both halves at once (ADD_DISENGAGED_SENTINEL) is one addition *)
(* on the word, also when a half is decremented.                           *)
LEMMA Repacked ==
    ASSUME NEW a \in 0 .. NWorkers, NEW b \in 0 .. NWorkers,
           NEW a1 \in 0 .. NWorkers, NEW b1 \in 0 .. NWorkers,
           NEW d \in Int, NEW s \in Int, a1 = a + d, b1 = b + s
    PROVE  Added(a * HalfWord + b, d, s) = a1 * HalfWord + b1
<1> DEFINE H == HalfWord
           x == a1 * H + b1
           m == H * H
<1>1. x \in 0 .. m - 1
  BY Unpacked
<1>2. a * H + b + d * H + s = x
  BY ConstantTypes, SMT
<1>3. m \in Nat \ {0}
  BY ConstantTypes, SMT
<1>4. x % m = x
  <2> HIDE DEF x, m
  <2> QED
    BY <1>1, <1>3, SMT
<1> QED
  BY <1>2, <1>4 DEF Added

(* Sets that agree but for w differ in cardinality by w's membership.      *)
LEMMA Membership ==
    ASSUME NEW A, NEW B, IsFiniteSet(A), IsFiniteSet(B), NEW w, A \ {w} = B \ {w}
    PROVE  /\ (w \in A <=> w \in B) => Cardinality(B) = Cardinality(A)
           /\ w \in A /\ w \notin B => Cardinality(B) + 1 = Cardinality(A)
           /\ w \notin A /\ w \in B => Cardinality(B) = Cardinality(A) + 1
<1>1. /\ Cardinality(A) \in Nat /\ Cardinality(B) \in Nat
      /\ Cardinality(A \ {w}) \in Nat
  BY FS_CardinalityType, FS_RemoveElement
<1>2. Cardinality(A \ {w}) = IF w \in A THEN Cardinality(A) - 1 ELSE Cardinality(A)
  BY FS_RemoveElement
<1>3. Cardinality(B \ {w}) = IF w \in B THEN Cardinality(B) - 1 ELSE Cardinality(B)
  BY FS_RemoveElement
<1>4. Cardinality(A \ {w}) = Cardinality(B \ {w})
  OBVIOUS
<1> QED
  BY <1>1, <1>2, <1>3, <1>4

(* What a thread may be about to do.                                       *)
Labels ==
    LoopPcs \cup WaitingPcs \cup WorkPcs \cup EndPcs \cup ThiefPcs \cup BossPcs

(* What a thread that is not the boss may be about to do.                  *)
ThiefLabels == LoopPcs \cup WaitingPcs \cup WorkPcs \cup EndPcs \cup ThiefPcs

(* What the boss may be about to do. It never disengages and never sleeps  *)
(* as a thief.                                                             *)
BossLabels ==
    {"steal", "count", "pick", "reset", "got", "set_done", "exit", "worked"}
        \cup WorkPcs \cup BossPcs

(* Every thread is at a point of the code it can reach.                    *)
Labelled ==
    /\ pc \in [Workers -> Labels]
    /\ pc[Boss] \in BossLabels
    /\ \A v \in Thieves : pc[v] \in ThiefLabels

(* Coarse types: ranges come with the other parts.                         *)
Shape ==
    /\ cilkified \in BOOLEAN /\ done \in BOOLEAN /\ terminate \in BOOLEAN
    /\ bossAsleep \in BOOLEAN /\ asleep \subseteq Thieves
    /\ tokens \in Int /\ ds \in Nat
    /\ fails \in [Workers -> Int] /\ hist \in [Workers -> Int] /\ arg \in [Workers -> Int]

(* The workers are the boss and the thieves.                               *)
LEMMA ThievesAndBoss ==
    Boss \in Workers /\ Boss \notin Thieves /\ Workers = Thieves \cup {Boss}
  BY ConstantTypes DEF Boss, Workers, Thieves

(* Worker numbers are small integers, and NoOne is none of them.           *)
LEMMA Domains ==
    /\ Boss = 0 /\ NoOne \notin Workers /\ NoOne \in Nat
    /\ IsFiniteSet(Workers) /\ Cardinality(Workers) = NWorkers
    /\ \A w \in Workers : w \in Int /\ w >= 0 /\ w < NWorkers
<1>1. Workers = 0 .. NWorkers - 1 /\ NWorkers - 1 \in Int /\ 0 \in Int
  BY ConstantTypes DEF Workers
<1>2. IsFiniteSet(Workers) /\ Cardinality(Workers) = NWorkers
  <2>1. IsFiniteSet(0 .. NWorkers - 1)
        /\ Cardinality(0 .. NWorkers - 1) =
             IF 0 > NWorkers - 1 THEN 0 ELSE (NWorkers - 1) - 0 + 1
    BY <1>1, FS_Interval
  <2> QED
    BY <2>1, <1>1, ConstantTypes
<1> QED
  BY <1>1, <1>2, ConstantTypes DEF Boss, Thieves, NoOne

(* Reading or changing the word yields a number.                           *)
LEMMA WordTypes ==
    ASSUME NEW x \in Nat
    PROVE  /\ GET_DISENGAGED(x) \in Int /\ GET_SENTINEL(x) \in Int
           /\ Active(x) \in Int /\ Stealable(x) \in Int
           /\ Added(x, 1, 0) \in Nat /\ Added(x, -1, 0) \in Nat
           /\ Added(x, 0, 1) \in Nat /\ Added(x, 0, -1) \in Nat
           /\ Added(x, 1, -1) \in Nat /\ Added(x, -1, 1) \in Nat
<1>1. x \div HalfWord \in Int /\ x % HalfWord \in Int
  BY ConstantTypes, SMT
<1>2. HalfWord * HalfWord \in Nat \ {0}
  BY ConstantTypes, SMT
<1>3. ASSUME NEW d \in Int, NEW s \in Int PROVE Added(x, d, s) \in Nat
  <2> DEFINE y == x + d * HalfWord + s
             m == HalfWord * HalfWord
  <2>1. y \in Int
    BY ConstantTypes, SMT
  <2>2. y % m \in Nat
    <3> HIDE DEF y, m
    <3> QED
      BY <2>1, <1>2, SMT DEF m
  <2> QED
    BY <2>2 DEF Added
<1>4. /\ Added(x, 1, 0) \in Nat /\ Added(x, -1, 0) \in Nat
      /\ Added(x, 0, 1) \in Nat /\ Added(x, 0, -1) \in Nat
      /\ Added(x, 1, -1) \in Nat /\ Added(x, -1, 1) \in Nat
  <2>1. 0 \in Int /\ 1 \in Int /\ -1 \in Int
    OBVIOUS
  <2> QED
    BY <1>3, <2>1, Zenon
<1> QED
  BY <1>1, <1>4, ConstantTypes
     DEF GET_DISENGAGED, GET_SENTINEL, Active, Stealable

(* Every step leads from a label to a label of the same kind of thread.    *)
LEMMA LabelledStep ==
    ASSUME Labelled, Next
    PROVE  Labelled'
<1> USE DEF At, Goto, region, index, sleep, local, vars, Labels, ThiefLabels,
  BossLabels, LoopPcs, WaitingPcs, WorkPcs, EndPcs, ThiefPcs, BossPcs
<1>1. ASSUME NEW w \in Workers, InitFails(w) PROVE Labelled'
  BY <1>1, ThievesAndBoss DEF InitFails, LoopEntry, Labelled
<1>2. ASSUME NEW w \in Workers, ResetFails(w) PROVE Labelled'
  BY <1>2, ThievesAndBoss DEF ResetFails, ResetCount, Labelled
<1>3. ASSUME NEW w \in Workers, StealLook(w) PROVE Labelled'
  BY <1>3, ThievesAndBoss DEF StealLook, Labelled
<1>4. ASSUME NEW w \in Workers, CountStealable(w) PROVE Labelled'
  BY <1>4, ThievesAndBoss DEF CountStealable, Alone, Stealable, Labelled
<1>5. ASSUME NEW w \in Workers, StealSucceeds(w) PROVE Labelled'
  BY <1>5, ThievesAndBoss DEF StealSucceeds, Victims, InUserCode, Labelled
<1>6. ASSUME NEW w \in Workers, StealFails(w) PROVE Labelled'
  BY <1>6, ThievesAndBoss DEF StealFails, Capped, Labelled
<1>7. ASSUME NEW w \in Workers, MaybeReengage(w) PROVE Labelled'
  BY <1>7, ThievesAndBoss DEF MaybeReengage, Requests, RunningOut, Sampled,
    Labelled
<1>8. ASSUME NEW w \in Workers, OneSentinel(w) PROVE Labelled'
  BY <1>8, ThievesAndBoss DEF OneSentinel, Labelled
<1>9. ASSUME NEW w \in Workers, RequestMoreThieves(w) PROVE Labelled'
  BY <1>9, ThievesAndBoss DEF RequestMoreThieves, ToWake, Labelled
<1>10. ASSUME NEW w \in Workers, Notify(w) PROVE Labelled'
  BY <1>10, ThievesAndBoss DEF Notify, NotifyOne, Labelled
<1>11. ASSUME NEW w \in Workers, RunOut(w) PROVE Labelled'
  BY <1>11, ThievesAndBoss DEF RunOut, InUserCode, OthersWork, Labelled
<1>12. ASSUME NEW w \in Workers, DecreaseFails(w) PROVE Labelled'
  BY <1>12, ThievesAndBoss DEF DecreaseFails, Labelled
<1>13. ASSUME NEW w \in Workers, SleepThieves(w) PROVE Labelled'
  BY <1>13, ThievesAndBoss DEF SleepThieves, InUserCode, OthersWork, Labelled
<1>14. ASSUME NEW w \in Workers, SetDone(w) PROVE Labelled'
  BY <1>14, ThievesAndBoss DEF SetDone, Labelled
<1>15. ASSUME NEW w \in Workers, ExitRegion(w) PROVE Labelled'
  BY <1>15, ThievesAndBoss DEF ExitRegion, Labelled
<1>16. ASSUME NEW w \in Thieves, OuterTakeToken(w) PROVE Labelled'
  BY <1>16, ThievesAndBoss DEF OuterTakeToken, TakeToken, Labelled
<1>17. ASSUME NEW w \in Thieves, OuterNoToken(w) PROVE Labelled'
  BY <1>17, ThievesAndBoss DEF OuterNoToken, NoToken, Labelled
<1>18. ASSUME NEW w \in Thieves, DisengageWorker(w) PROVE Labelled'
  BY <1>18, ThievesAndBoss DEF DisengageWorker, MoveOut, BeginSwap, Labelled
<1>19. ASSUME NEW w \in Thieves, DisengageSwap(w) PROVE Labelled'
  BY <1>19, ThievesAndBoss DEF DisengageSwap, SwapRest, Labelled
<1>20. ASSUME NEW w \in Thieves, ThiefWake(w) PROVE Labelled'
  BY <1>20, ThievesAndBoss DEF ThiefWake, Wake, TakeToken, Labelled
<1>21. ASSUME NEW w \in Thieves, ThiefSleep(w) PROVE Labelled'
  BY <1>21, ThievesAndBoss DEF ThiefSleep, Sleep, MaySleep, Labelled
<1>22. ASSUME NEW w \in Thieves, ReengageWorker(w) PROVE Labelled'
  BY <1>22, ThievesAndBoss DEF ReengageWorker, MoveIn, BeginSwap, Labelled
<1>23. ASSUME NEW w \in Thieves, ReengageSwap(w) PROVE Labelled'
  BY <1>23, ThievesAndBoss DEF ReengageSwap, SwapRest, Labelled
<1>24. ASSUME NEW w \in Thieves, Check(w) PROVE Labelled'
  BY <1>24, ThievesAndBoss DEF Check, Labelled
<1>25. ASSUME NEW w \in Thieves, LingerTakeToken(w) PROVE Labelled'
  BY <1>25, ThievesAndBoss DEF LingerTakeToken, TakeToken, LoopEntry, Labelled
<1>26. ASSUME NEW w \in Thieves, LingerNoToken(w) PROVE Labelled'
  BY <1>26, ThievesAndBoss DEF LingerNoToken, NoToken, Labelled
<1>27. ASSUME NEW w \in Thieves, Sample(w) PROVE Labelled'
  BY <1>27, ThievesAndBoss DEF Sample, Sampled, Labelled
<1>28. ASSUME NEW w \in Thieves, MaybeDisengage(w) PROVE Labelled'
  BY <1>28, ThievesAndBoss DEF MaybeDisengage, Labelled
<1>29. ASSUME NEW w \in Thieves, TryDisengage(w) PROVE Labelled'
  BY <1>29, ThievesAndBoss DEF TryDisengage, MoveOut, BeginSwap,
    UnchangedSince, Labelled
<1>30. ASSUME NEW w \in Thieves, TryDisengageSwap(w) PROVE Labelled'
  BY <1>30, ThievesAndBoss DEF TryDisengageSwap, SwapRest, Labelled
<1>31. ASSUME NEW w \in Thieves, TryDisengageFails(w) PROVE Labelled'
  BY <1>31, ThievesAndBoss DEF TryDisengageFails, UnchangedSince, Labelled
<1>32. ASSUME NEW w \in Thieves, DisengagedWake(w) PROVE Labelled'
  BY <1>32, ThievesAndBoss DEF DisengagedWake, Wake, TakeToken, Labelled
<1>33. ASSUME NEW w \in Thieves, DisengagedSleep(w) PROVE Labelled'
  BY <1>33, ThievesAndBoss DEF DisengagedSleep, Sleep, MaySleep, Labelled
<1>34. ASSUME NEW w \in Thieves, ReengageThief(w) PROVE Labelled'
  BY <1>34, ThievesAndBoss DEF ReengageThief, MoveIn, BeginSwap, AfterSleep,
    FailsAfterSleep, Labelled
<1>35. ASSUME NEW w \in Thieves, ReengageThiefSwap(w) PROVE Labelled'
  BY <1>35, ThievesAndBoss DEF ReengageThiefSwap, SwapRest, AfterSleep,
    FailsAfterSleep, Labelled
<1>36. ASSUME NEW w \in Thieves, SignalUncilkified(w) PROVE Labelled'
  BY <1>36, ThievesAndBoss DEF SignalUncilkified, AfterSignal, Labelled
<1>37. ASSUME StartRegion PROVE Labelled'
  BY <1>37, ThievesAndBoss DEF StartRegion, Labelled
<1>38. ASSUME ClearDone PROVE Labelled'
  BY <1>38, ThievesAndBoss DEF ClearDone, Labelled
<1>39. ASSUME WakeThieves PROVE Labelled'
  BY <1>39, ThievesAndBoss DEF WakeThieves, Labelled
<1>40. ASSUME NotifyThieves PROVE Labelled'
  BY <1>40, ThievesAndBoss DEF NotifyThieves, Labelled
<1>41. ASSUME BossReturns PROVE Labelled'
  BY <1>41, ThievesAndBoss DEF BossReturns, WaitOver, Labelled
<1>42. ASSUME BossSleeps PROVE Labelled'
  BY <1>42, ThievesAndBoss DEF BossSleeps, Labelled
<1>43. ASSUME StopWorkers PROVE Labelled'
  BY <1>43, ThievesAndBoss DEF StopWorkers, Labelled
<1>44. ASSUME WakeAll PROVE Labelled'
  BY <1>44, ThievesAndBoss DEF WakeAll, TokensToExit, Labelled
<1>45. ASSUME NotifyAll PROVE Labelled'
  BY <1>45, ThievesAndBoss DEF NotifyAll, Labelled
<1>46. ASSUME Join PROVE Labelled'
  BY <1>46, ThievesAndBoss DEF Join, Labelled
<1>47. ASSUME Finished PROVE Labelled'
  BY <1>47, ThievesAndBoss DEF Finished, Labelled
<1> QED
  BY ThievesAndBoss, <1>1, <1>2, <1>3, <1>4, <1>5, <1>6, <1>7, <1>8, <1>9,
    <1>10, <1>11, <1>12, <1>13, <1>14, <1>15, <1>16, <1>17, <1>18, <1>19,
    <1>20, <1>21, <1>22, <1>23, <1>24, <1>25, <1>26, <1>27, <1>28, <1>29,
    <1>30, <1>31, <1>32, <1>33, <1>34, <1>35, <1>36, <1>37, <1>38, <1>39,
    <1>40, <1>41, <1>42, <1>43, <1>44, <1>45, <1>46, <1>47, Zenon DEF Next,
    Scheduler, ThiefThread, BossThread

(* Every step keeps the coarse types.                                      *)
LEMMA ShapeStep ==
    ASSUME Shape, Next
    PROVE  Shape'
<1>c. /\ NWorkers \in Int /\ NWorkers \div 2 \in Int /\ SENTINEL_THRESHOLD \in Int
      /\ MAX_FAILS \in Int /\ IntMax \in Int
      /\ DISENGAGE_THRESHOLD - SENTINEL_THRESHOLD \in Int
  BY ConstantTypes, Thresholds
<1>w. /\ Added(ds, 1, 0) \in Nat /\ Added(ds, -1, 0) \in Nat
      /\ Added(ds, 0, 1) \in Nat /\ Added(ds, 0, -1) \in Nat
      /\ Added(ds, 1, -1) \in Nat /\ Added(ds, -1, 1) \in Nat
      /\ Stealable(ds) \in Int /\ Active(Added(ds, 0, -1)) \in Int
  BY WordTypes DEF Shape
<1> USE DEF At, Goto, region, index, sleep, local, vars
<1>1. ASSUME NEW w \in Workers, InitFails(w) PROVE Shape'
  BY <1>1, <1>w, <1>c, ThievesAndBoss DEF InitFails, LoopEntry, Shape
<1>2. ASSUME NEW w \in Workers, ResetFails(w) PROVE Shape'
  BY <1>2, <1>w, <1>c, ThievesAndBoss DEF ResetFails, ResetCount, Shape
<1>3. ASSUME NEW w \in Workers, StealLook(w) PROVE Shape'
  BY <1>3, ThievesAndBoss DEF StealLook, Shape
<1>4. ASSUME NEW w \in Workers, CountStealable(w) PROVE Shape'
  BY <1>4, <1>w, ThievesAndBoss DEF CountStealable, Alone, Shape
<1>5. ASSUME NEW w \in Workers, StealSucceeds(w) PROVE Shape'
  BY <1>5, ThievesAndBoss DEF StealSucceeds, Victims, InUserCode, Shape
<1>6. ASSUME NEW w \in Workers, StealFails(w) PROVE Shape'
  BY <1>6, <1>w, <1>c, ThievesAndBoss DEF StealFails, Capped, Shape
<1>7. ASSUME NEW w \in Workers, MaybeReengage(w) PROVE Shape'
  BY <1>7, <1>w, <1>c, ThievesAndBoss DEF MaybeReengage, Requests, Sampled,
    Shape
<1>8. ASSUME NEW w \in Workers, OneSentinel(w) PROVE Shape'
  BY <1>8, ThievesAndBoss DEF OneSentinel, Shape
<1>9. ASSUME NEW w \in Workers, RequestMoreThieves(w) PROVE Shape'
  BY <1>9, <1>c, ThievesAndBoss DEF RequestMoreThieves, ToWake, Shape
<1>10. ASSUME NEW w \in Workers, Notify(w) PROVE Shape'
  BY <1>10, ThievesAndBoss DEF Notify, NotifyOne, Shape
<1>11. ASSUME NEW w \in Workers, RunOut(w) PROVE Shape'
  BY <1>11, ThievesAndBoss DEF RunOut, InUserCode, OthersWork, Shape
<1>12. ASSUME NEW w \in Workers, DecreaseFails(w) PROVE Shape'
  BY <1>12, <1>w, <1>c, ThievesAndBoss DEF DecreaseFails, Shape
<1>13. ASSUME NEW w \in Workers, SleepThieves(w) PROVE Shape'
  BY <1>13, ThievesAndBoss DEF SleepThieves, InUserCode, OthersWork, Shape
<1>14. ASSUME NEW w \in Workers, SetDone(w) PROVE Shape'
  BY <1>14, ThievesAndBoss DEF SetDone, Shape
<1>15. ASSUME NEW w \in Workers, ExitRegion(w) PROVE Shape'
  <2>1. 0 \in Int
    OBVIOUS
  <2>2. CASE w = Boss
    BY <1>15, <2>1, <2>2 DEF ExitRegion, At, Goto, region, index, sleep, Shape
  <2>3. CASE w # Boss
    BY <1>15, <2>3 DEF ExitRegion, At, Goto, region, index, sleep, Shape
  <2> QED
    BY <2>2, <2>3
<1>16. ASSUME NEW w \in Thieves, OuterTakeToken(w) PROVE Shape'
  BY <1>16, <1>c, ThievesAndBoss DEF OuterTakeToken, TakeToken, Shape
<1>17. ASSUME NEW w \in Thieves, OuterNoToken(w) PROVE Shape'
  BY <1>17, ThievesAndBoss DEF OuterNoToken, NoToken, Shape
<1>18. ASSUME NEW w \in Thieves, DisengageWorker(w) PROVE Shape'
  BY <1>18, <1>w, ThievesAndBoss DEF DisengageWorker, MoveOut, BeginSwap, Shape
<1>19. ASSUME NEW w \in Thieves, DisengageSwap(w) PROVE Shape'
  BY <1>19, ThievesAndBoss DEF DisengageSwap, SwapRest, Shape
<1>20. ASSUME NEW w \in Thieves, ThiefWake(w) PROVE Shape'
  BY <1>20, ThievesAndBoss DEF ThiefWake, Wake, TakeToken, Shape
<1>21. ASSUME NEW w \in Thieves, ThiefSleep(w) PROVE Shape'
  BY <1>21, ThievesAndBoss DEF ThiefSleep, Sleep, MaySleep, Shape
<1>22. ASSUME NEW w \in Thieves, ReengageWorker(w) PROVE Shape'
  BY <1>22, <1>w, ThievesAndBoss DEF ReengageWorker, MoveIn, BeginSwap, Shape
<1>23. ASSUME NEW w \in Thieves, ReengageSwap(w) PROVE Shape'
  BY <1>23, ThievesAndBoss DEF ReengageSwap, SwapRest, Shape
<1>24. ASSUME NEW w \in Thieves, Check(w) PROVE Shape'
  BY <1>24, ThievesAndBoss DEF Check, Shape
<1>25. ASSUME NEW w \in Thieves, LingerTakeToken(w) PROVE Shape'
  BY <1>25, ThievesAndBoss DEF LingerTakeToken, TakeToken, LoopEntry, Shape
<1>26. ASSUME NEW w \in Thieves, LingerNoToken(w) PROVE Shape'
  BY <1>26, ThievesAndBoss DEF LingerNoToken, NoToken, Shape
<1>27. ASSUME NEW w \in Thieves, Sample(w) PROVE Shape'
  BY <1>27, ThievesAndBoss DEF Sample, Sampled, Shape
<1>28. ASSUME NEW w \in Thieves, MaybeDisengage(w) PROVE Shape'
  BY <1>28, ThievesAndBoss DEF MaybeDisengage, Shape
<1>29. ASSUME NEW w \in Thieves, TryDisengage(w) PROVE Shape'
  BY <1>29, <1>w, <1>c, ThievesAndBoss DEF TryDisengage, MoveOut, BeginSwap,
    UnchangedSince, Shape
<1>30. ASSUME NEW w \in Thieves, TryDisengageSwap(w) PROVE Shape'
  BY <1>30, ThievesAndBoss DEF TryDisengageSwap, SwapRest, Shape
<1>31. ASSUME NEW w \in Thieves, TryDisengageFails(w) PROVE Shape'
  BY <1>31, ThievesAndBoss DEF TryDisengageFails, UnchangedSince, Shape
<1>32. ASSUME NEW w \in Thieves, DisengagedWake(w) PROVE Shape'
  BY <1>32, ThievesAndBoss DEF DisengagedWake, Wake, TakeToken, Shape
<1>33. ASSUME NEW w \in Thieves, DisengagedSleep(w) PROVE Shape'
  BY <1>33, ThievesAndBoss DEF DisengagedSleep, Sleep, MaySleep, Shape
<1>34. ASSUME NEW w \in Thieves, ReengageThief(w) PROVE Shape'
  BY <1>34, <1>w, <1>c, ThievesAndBoss DEF ReengageThief, MoveIn, BeginSwap,
    AfterSleep, FailsAfterSleep, Shape
<1>35. ASSUME NEW w \in Thieves, ReengageThiefSwap(w) PROVE Shape'
  BY <1>35, <1>c, ThievesAndBoss DEF ReengageThiefSwap, SwapRest, AfterSleep,
    FailsAfterSleep, Shape
<1>36. ASSUME NEW w \in Thieves, SignalUncilkified(w) PROVE Shape'
  BY <1>36, ThievesAndBoss DEF SignalUncilkified, AfterSignal, Shape
<1>37. ASSUME StartRegion PROVE Shape'
  BY <1>37, ThievesAndBoss DEF StartRegion, Shape
<1>38. ASSUME ClearDone PROVE Shape'
  BY <1>38, ThievesAndBoss DEF ClearDone, Shape
<1>39. ASSUME WakeThieves PROVE Shape'
  BY <1>39, <1>c, ThievesAndBoss DEF WakeThieves, Shape
<1>40. ASSUME NotifyThieves PROVE Shape'
  BY <1>40, ThievesAndBoss DEF NotifyThieves, Shape
<1>41. ASSUME BossReturns PROVE Shape'
  BY <1>41, ThievesAndBoss DEF BossReturns, WaitOver, Shape
<1>42. ASSUME BossSleeps PROVE Shape'
  BY <1>42, ThievesAndBoss DEF BossSleeps, Shape
<1>43. ASSUME StopWorkers PROVE Shape'
  BY <1>43, ThievesAndBoss DEF StopWorkers, Shape
<1>44. ASSUME WakeAll PROVE Shape'
  BY <1>44, <1>c, ThievesAndBoss DEF WakeAll, TokensToExit, Shape
<1>45. ASSUME NotifyAll PROVE Shape'
  BY <1>45, ThievesAndBoss DEF NotifyAll, Shape
<1>46. ASSUME Join PROVE Shape'
  BY <1>46, ThievesAndBoss DEF Join, Shape
<1>47. ASSUME Finished PROVE Shape'
  BY <1>47, ThievesAndBoss DEF Finished, Shape
<1> QED
  BY ThievesAndBoss, <1>1, <1>2, <1>3, <1>4, <1>5, <1>6, <1>7, <1>8, <1>9,
    <1>10, <1>11, <1>12, <1>13, <1>14, <1>15, <1>16, <1>17, <1>18, <1>19,
    <1>20, <1>21, <1>22, <1>23, <1>24, <1>25, <1>26, <1>27, <1>28, <1>29,
    <1>30, <1>31, <1>32, <1>33, <1>34, <1>35, <1>36, <1>37, <1>38, <1>39,
    <1>40, <1>41, <1>42, <1>43, <1>44, <1>45, <1>46, <1>47, Zenon DEF Next,
    Scheduler, ThiefThread, BossThread

(* Where a thief is only after it was found long failing, at a sample that *)
(* was not the first one.                                                  *)
LongFailing == {"disengage_maybe", "try", "try2", "thief_wait", "thief_reengage",
                "thief_reengage2"}

(* One thief's counters: fails stays below the wrap, a thief that has not  *)
(* failed SENTINEL_THRESHOLD times has no inefficient samples on record,   *)
(* and one that is about to disengage, or has disengaged that way, has     *)
(* failed at least twice as often.                                         *)
Failing(v) ==
    /\ 0 <= fails[v] /\ fails[v] <= MAX_FAILS + SENTINEL_THRESHOLD - 1
    /\ 0 <= hist[v] /\ hist[v] <= 1
    /\ fails[v] < SENTINEL_THRESHOLD => hist[v] = 0
    /\ pc[v] = "sample" =>
         /\ fails[v] >= SENTINEL_THRESHOLD
         /\ hist[v] # 0 => fails[v] >= SENTINEL_THRESHOLD + SENTINEL_THRESHOLD
    /\ pc[v] \in LongFailing => fails[v] >= SENTINEL_THRESHOLD + SENTINEL_THRESHOLD

(* The counters of every worker.                                           *)
Local == \A v \in Workers : Failing(v)

(* A sample after the first one comes no sooner than at twice the sample   *)
(* period, and the wrap of fails falls on a sample.                        *)
LEMMA SampleTimes ==
    ASSUME NEW n \in Nat
    PROVE  /\ n % SENTINEL_THRESHOLD = 0 /\ n > SENTINEL_THRESHOLD
                => n >= SENTINEL_THRESHOLD + SENTINEL_THRESHOLD
           /\ n = MAX_FAILS + SENTINEL_THRESHOLD => n % SENTINEL_THRESHOLD = 0
<1> DEFINE T == SENTINEL_THRESHOLD
<1>1. T \in Nat \ {0} /\ T \in Nat /\ Multiple(T, T) /\ MAX_FAILS \in Nat
  BY ConstantTypes, MultipleSelf, Thresholds
<1>2. Multiple(n, T) <=> n % T = 0
  BY <1>1, MultipleMod
<1>3. Multiple(n, T) /\ n > T => n >= T + T
  BY <1>1, MultipleSum
<1>4. Multiple(MAX_FAILS + T, T)
  BY <1>1, MultipleSum, Thresholds
<1> QED
  BY <1>2, <1>3, <1>4

(* The thresholds as the arithmetic of the steps below needs them;         *)
(* FailsAfterSleep makes a woken thief a sentinel and no more.             *)
LEMMA ThresholdFacts ==
    /\ SENTINEL_THRESHOLD \in Int /\ SENTINEL_THRESHOLD > 0
    /\ MIN_FAILS \in Int /\ MIN_FAILS < SENTINEL_THRESHOLD
    /\ MAX_FAILS \in Int /\ HISTORY_THRESHOLD \in Int
    /\ HISTORY_THRESHOLD >= 2
    /\ MAX_FAILS >= SENTINEL_THRESHOLD
    /\ FailsAfterSleep \in Int /\ FailsAfterSleep >= SENTINEL_THRESHOLD
    /\ FailsAfterSleep <= MAX_FAILS
  BY ConstantTypes, Thresholds DEF FailsAfterSleep

(* No step takes a thief's counters out of their bounds.                   *)
LEMMA LocalStep ==
    ASSUME Shape, Labelled, Local, Next
    PROVE  Local'
<1> USE DEF At, Goto, region, index, sleep, local, vars, Labels, LongFailing
<1>1. ASSUME NEW w \in Workers, InitFails(w) PROVE Local'
  BY <1>1, ThievesAndBoss, ThresholdFacts DEF InitFails, LoopEntry, Shape,
    Labelled, Local, Failing
<1>2. ASSUME NEW w \in Workers, ResetFails(w) PROVE Local'
  BY <1>2, ThievesAndBoss, ThresholdFacts DEF ResetFails, ResetCount, Shape,
    Labelled, Local, Failing
<1>3. ASSUME NEW w \in Workers, StealLook(w) PROVE Local'
  BY <1>3, ThievesAndBoss, ThresholdFacts DEF StealLook, Shape, Labelled,
    Local, Failing
<1>4. ASSUME NEW w \in Workers, CountStealable(w) PROVE Local'
  BY <1>4, ThievesAndBoss, ThresholdFacts DEF CountStealable, Alone, Stealable,
    Shape, Labelled, Local, Failing
<1>5. ASSUME NEW w \in Workers, StealSucceeds(w) PROVE Local'
  BY <1>5, ThievesAndBoss, ThresholdFacts DEF StealSucceeds, Victims,
    InUserCode, Shape, Labelled, Local, Failing
<1>6. ASSUME NEW w \in Workers, StealFails(w) PROVE Local'
  <2> DEFINE n == fails[w] + 1
  <2>1. n \in Nat /\ n <= MAX_FAILS + SENTINEL_THRESHOLD
    BY ThresholdFacts DEF Shape, Local, Failing
  <2>2. /\ n % SENTINEL_THRESHOLD = 0 /\ n > SENTINEL_THRESHOLD
             => n >= SENTINEL_THRESHOLD + SENTINEL_THRESHOLD
        /\ n = MAX_FAILS + SENTINEL_THRESHOLD => n % SENTINEL_THRESHOLD = 0
    BY <2>1, SampleTimes
  <2>3. Failing(w)'
    BY <1>6, <2>1, <2>2, ThresholdFacts, ThievesAndBoss
      DEF StealFails, Capped, At, Goto, Shape, Labelled, Local, Failing,
          LongFailing
  <2>4. ASSUME NEW v \in Workers \ {w} PROVE Failing(v)'
    BY <1>6, <2>4 DEF StealFails, At, Goto, Shape, Labelled, Local, Failing
  <2> QED
    BY <2>3, <2>4 DEF Local
<1>7. ASSUME NEW w \in Workers, MaybeReengage(w) PROVE Local'
  BY <1>7, ThievesAndBoss, ThresholdFacts DEF MaybeReengage, Requests,
    RunningOut, Sampled, Shape, Labelled, Local, Failing
<1>8. ASSUME NEW w \in Workers, OneSentinel(w) PROVE Local'
  BY <1>8, ThievesAndBoss, ThresholdFacts DEF OneSentinel, Shape, Labelled,
    Local, Failing
<1>9. ASSUME NEW w \in Workers, RequestMoreThieves(w) PROVE Local'
  BY <1>9, ThievesAndBoss, ThresholdFacts DEF RequestMoreThieves, ToWake,
    Shape, Labelled, Local, Failing
<1>10. ASSUME NEW w \in Workers, Notify(w) PROVE Local'
  BY <1>10, ThievesAndBoss, ThresholdFacts DEF Notify, NotifyOne, Shape,
    Labelled, Local, Failing
<1>11. ASSUME NEW w \in Workers, RunOut(w) PROVE Local'
  BY <1>11, ThievesAndBoss, ThresholdFacts DEF RunOut, InUserCode, OthersWork,
    Shape, Labelled, Local, Failing
<1>12. ASSUME NEW w \in Workers, DecreaseFails(w) PROVE Local'
  BY <1>12, ThievesAndBoss, ThresholdFacts DEF DecreaseFails, Shape, Labelled,
    Local, Failing
<1>13. ASSUME NEW w \in Workers, SleepThieves(w) PROVE Local'
  BY <1>13, ThievesAndBoss, ThresholdFacts DEF SleepThieves, InUserCode,
    OthersWork, Shape, Labelled, Local, Failing
<1>14. ASSUME NEW w \in Workers, SetDone(w) PROVE Local'
  BY <1>14, ThievesAndBoss, ThresholdFacts DEF SetDone, Shape, Labelled, Local,
    Failing
<1>15. ASSUME NEW w \in Workers, ExitRegion(w) PROVE Local'
  BY <1>15, ThievesAndBoss, ThresholdFacts DEF ExitRegion, Shape, Labelled,
    Local, Failing
<1>16. ASSUME NEW w \in Thieves, OuterTakeToken(w) PROVE Local'
  BY <1>16, ThievesAndBoss, ThresholdFacts DEF OuterTakeToken, TakeToken,
    Shape, Labelled, Local, Failing
<1>17. ASSUME NEW w \in Thieves, OuterNoToken(w) PROVE Local'
  BY <1>17, ThievesAndBoss, ThresholdFacts DEF OuterNoToken, NoToken, Shape,
    Labelled, Local, Failing
<1>18. ASSUME NEW w \in Thieves, DisengageWorker(w) PROVE Local'
  BY <1>18, ThievesAndBoss, ThresholdFacts DEF DisengageWorker, MoveOut,
    BeginSwap, Shape, Labelled, Local, Failing
<1>19. ASSUME NEW w \in Thieves, DisengageSwap(w) PROVE Local'
  BY <1>19, ThievesAndBoss, ThresholdFacts DEF DisengageSwap, SwapRest, Shape,
    Labelled, Local, Failing
<1>20. ASSUME NEW w \in Thieves, ThiefWake(w) PROVE Local'
  BY <1>20, ThievesAndBoss, ThresholdFacts DEF ThiefWake, Wake, TakeToken,
    Shape, Labelled, Local, Failing
<1>21. ASSUME NEW w \in Thieves, ThiefSleep(w) PROVE Local'
  BY <1>21, ThievesAndBoss, ThresholdFacts DEF ThiefSleep, Sleep, MaySleep,
    Shape, Labelled, Local, Failing
<1>22. ASSUME NEW w \in Thieves, ReengageWorker(w) PROVE Local'
  BY <1>22, ThievesAndBoss, ThresholdFacts DEF ReengageWorker, MoveIn,
    BeginSwap, Shape, Labelled, Local, Failing
<1>23. ASSUME NEW w \in Thieves, ReengageSwap(w) PROVE Local'
  BY <1>23, ThievesAndBoss, ThresholdFacts DEF ReengageSwap, SwapRest, Shape,
    Labelled, Local, Failing
<1>24. ASSUME NEW w \in Thieves, Check(w) PROVE Local'
  BY <1>24, ThievesAndBoss, ThresholdFacts DEF Check, Shape, Labelled, Local,
    Failing
<1>25. ASSUME NEW w \in Thieves, LingerTakeToken(w) PROVE Local'
  BY <1>25, ThievesAndBoss, ThresholdFacts DEF LingerTakeToken, TakeToken,
    LoopEntry, Shape, Labelled, Local, Failing
<1>26. ASSUME NEW w \in Thieves, LingerNoToken(w) PROVE Local'
  BY <1>26, ThievesAndBoss, ThresholdFacts DEF LingerNoToken, NoToken, Shape,
    Labelled, Local, Failing
<1>27. ASSUME NEW w \in Thieves, Sample(w) PROVE Local'
  BY <1>27, ThievesAndBoss, ThresholdFacts DEF Sample, Sampled, Shape,
    Labelled, Local, Failing
<1>28. ASSUME NEW w \in Thieves, MaybeDisengage(w) PROVE Local'
  BY <1>28, ThievesAndBoss, ThresholdFacts DEF MaybeDisengage, Shape, Labelled,
    Local, Failing
<1>29. ASSUME NEW w \in Thieves, TryDisengage(w) PROVE Local'
  BY <1>29, ThievesAndBoss, ThresholdFacts DEF TryDisengage, MoveOut,
    BeginSwap, UnchangedSince, Shape, Labelled, Local, Failing
<1>30. ASSUME NEW w \in Thieves, TryDisengageSwap(w) PROVE Local'
  BY <1>30, ThievesAndBoss, ThresholdFacts DEF TryDisengageSwap, SwapRest,
    Shape, Labelled, Local, Failing
<1>31. ASSUME NEW w \in Thieves, TryDisengageFails(w) PROVE Local'
  BY <1>31, ThievesAndBoss, ThresholdFacts DEF TryDisengageFails,
    UnchangedSince, Shape, Labelled, Local, Failing
<1>32. ASSUME NEW w \in Thieves, DisengagedWake(w) PROVE Local'
  BY <1>32, ThievesAndBoss, ThresholdFacts DEF DisengagedWake, Wake, TakeToken,
    Shape, Labelled, Local, Failing
<1>33. ASSUME NEW w \in Thieves, DisengagedSleep(w) PROVE Local'
  BY <1>33, ThievesAndBoss, ThresholdFacts DEF DisengagedSleep, Sleep,
    MaySleep, Shape, Labelled, Local, Failing
<1>34. ASSUME NEW w \in Thieves, ReengageThief(w) PROVE Local'
  BY <1>34, ThievesAndBoss, ThresholdFacts DEF ReengageThief, MoveIn,
    BeginSwap, AfterSleep, Shape, Labelled, Local, Failing
<1>35. ASSUME NEW w \in Thieves, ReengageThiefSwap(w) PROVE Local'
  BY <1>35, ThievesAndBoss, ThresholdFacts DEF ReengageThiefSwap, SwapRest,
    AfterSleep, Shape, Labelled, Local, Failing
<1>36. ASSUME NEW w \in Thieves, SignalUncilkified(w) PROVE Local'
  BY <1>36, ThievesAndBoss, ThresholdFacts DEF SignalUncilkified, AfterSignal,
    Shape, Labelled, Local, Failing
<1>37. ASSUME StartRegion PROVE Local'
  BY <1>37, ThievesAndBoss, ThresholdFacts DEF StartRegion, Shape, Labelled,
    Local, Failing
<1>38. ASSUME ClearDone PROVE Local'
  BY <1>38, ThievesAndBoss, ThresholdFacts DEF ClearDone, Shape, Labelled,
    Local, Failing
<1>39. ASSUME WakeThieves PROVE Local'
  BY <1>39, ThievesAndBoss, ThresholdFacts DEF WakeThieves, Shape, Labelled,
    Local, Failing
<1>40. ASSUME NotifyThieves PROVE Local'
  BY <1>40, ThievesAndBoss, ThresholdFacts DEF NotifyThieves, Shape, Labelled,
    Local, Failing
<1>41. ASSUME BossReturns PROVE Local'
  BY <1>41, ThievesAndBoss, ThresholdFacts DEF BossReturns, WaitOver, Shape,
    Labelled, Local, Failing
<1>42. ASSUME BossSleeps PROVE Local'
  BY <1>42, ThievesAndBoss, ThresholdFacts DEF BossSleeps, Shape, Labelled,
    Local, Failing
<1>43. ASSUME StopWorkers PROVE Local'
  BY <1>43, ThievesAndBoss, ThresholdFacts DEF StopWorkers, Shape, Labelled,
    Local, Failing
<1>44. ASSUME WakeAll PROVE Local'
  BY <1>44, ThievesAndBoss, ThresholdFacts DEF WakeAll, TokensToExit, Shape,
    Labelled, Local, Failing
<1>45. ASSUME NotifyAll PROVE Local'
  BY <1>45, ThievesAndBoss, ThresholdFacts DEF NotifyAll, Shape, Labelled,
    Local, Failing
<1>46. ASSUME Join PROVE Local'
  BY <1>46, ThievesAndBoss, ThresholdFacts DEF Join, Shape, Labelled, Local,
    Failing
<1>47. ASSUME Finished PROVE Local'
  BY <1>47, ThievesAndBoss, ThresholdFacts DEF Finished, Shape, Labelled,
    Local, Failing
<1> QED
  BY ThievesAndBoss, <1>1, <1>2, <1>3, <1>4, <1>5, <1>6, <1>7, <1>8, <1>9,
    <1>10, <1>11, <1>12, <1>13, <1>14, <1>15, <1>16, <1>17, <1>18, <1>19,
    <1>20, <1>21, <1>22, <1>23, <1>24, <1>25, <1>26, <1>27, <1>28, <1>29,
    <1>30, <1>31, <1>32, <1>33, <1>34, <1>35, <1>36, <1>37, <1>38, <1>39,
    <1>40, <1>41, <1>42, <1>43, <1>44, <1>45, <1>46, <1>47, Zenon DEF Next,
    Scheduler, ThiefThread, BossThread

(* The word for a set A of disengaged and a set B of sentinel workers.     *)
Packed(A, B) == Cardinality(A) * HalfWord + Cardinality(B)

(* disengaged_sentinel says how many workers are disengaged and how many   *)
(* are sentinels.                                                          *)
Counting == ds = Packed(Disengaged, Sentinels)

(* A set of workers is finite and has at most NWorkers members.            *)
LEMMA SubsetCounts ==
    ASSUME NEW A \in SUBSET Workers
    PROVE  IsFiniteSet(A) /\ Cardinality(A) \in 0 .. NWorkers
  BY Domains, FS_Subset, FS_CardinalityType

(* How the word changes when one worker w enters or leaves either set.     *)
PackedMove(A, A1, B, B1, w) ==
    /\ (w \in A <=> w \in A1) /\ (w \in B <=> w \in B1)
         => Packed(A1, B1) = Packed(A, B)
    /\ (w \in A <=> w \in A1) /\ w \notin B /\ w \in B1
         => Packed(A1, B1) = Added(Packed(A, B), 0, 1)
    /\ (w \in A <=> w \in A1) /\ w \in B /\ w \notin B1
         => Packed(A1, B1) = Added(Packed(A, B), 0, -1)
    /\ w \notin A /\ w \in A1 /\ (w \in B <=> w \in B1)
         => Packed(A1, B1) = Added(Packed(A, B), 1, 0)
    /\ w \in A /\ w \notin A1 /\ (w \in B <=> w \in B1)
         => Packed(A1, B1) = Added(Packed(A, B), -1, 0)
    /\ w \notin A /\ w \in A1 /\ w \in B /\ w \notin B1
         => Packed(A1, B1) = Added(Packed(A, B), 1, -1)
    /\ w \in A /\ w \notin A1 /\ w \notin B /\ w \in B1
         => Packed(A1, B1) = Added(Packed(A, B), -1, 1)

(* Each such change is the addition the code makes with the atomic         *)
(* operations on disengaged_sentinel.                                      *)
LEMMA PackedMoves ==
    ASSUME NEW A \in SUBSET Workers, NEW A1 \in SUBSET Workers,
           NEW B \in SUBSET Workers, NEW B1 \in SUBSET Workers,
           NEW w, A \ {w} = A1 \ {w}, B \ {w} = B1 \ {w}
    PROVE  PackedMove(A, A1, B, B1, w)
<1> DEFINE a == Cardinality(A)
           b == Cardinality(B)
           a1 == Cardinality(A1)
           b1 == Cardinality(B1)
<1>1. a \in 0 .. NWorkers /\ b \in 0 .. NWorkers /\ a1 \in 0 .. NWorkers /\ b1 \in 0 .. NWorkers
  BY SubsetCounts
<1>2. /\ (w \in A <=> w \in A1) => a1 = a
      /\ w \in A /\ w \notin A1 => a1 + 1 = a
      /\ w \notin A /\ w \in A1 => a1 = a + 1
  BY SubsetCounts, Membership
<1>3. /\ (w \in B <=> w \in B1) => b1 = b
      /\ w \in B /\ w \notin B1 => b1 + 1 = b
      /\ w \notin B /\ w \in B1 => b1 = b + 1
  BY SubsetCounts, Membership
<1>4. Packed(A, B) = a * HalfWord + b /\ Packed(A1, B1) = a1 * HalfWord + b1
  BY DEF Packed
<1> HIDE DEF a, b, a1, b1
<1>5. ASSUME NEW d \in Int, NEW s \in Int, a1 = a + d, b1 = b + s
      PROVE  Packed(A1, B1) = Added(Packed(A, B), d, s)
  <2>1. Added(a * HalfWord + b, d, s) = a1 * HalfWord + b1
    BY <1>1, <1>5, Repacked
  <2> QED
    BY <1>4, <2>1, Zenon
<1>6. /\ a1 = a /\ b1 = b => Packed(A1, B1) = Packed(A, B)
      /\ a1 = a + 0 /\ b1 = b + 1 => Packed(A1, B1) = Added(Packed(A, B), 0, 1)
      /\ a1 = a + 0 /\ b1 = b + (-1) => Packed(A1, B1) = Added(Packed(A, B), 0, -1)
      /\ a1 = a + 1 /\ b1 = b + 0 => Packed(A1, B1) = Added(Packed(A, B), 1, 0)
      /\ a1 = a + (-1) /\ b1 = b + 0 => Packed(A1, B1) = Added(Packed(A, B), -1, 0)
      /\ a1 = a + 1 /\ b1 = b + (-1) => Packed(A1, B1) = Added(Packed(A, B), 1, -1)
      /\ a1 = a + (-1) /\ b1 = b + 1 => Packed(A1, B1) = Added(Packed(A, B), -1, 1)
  <2>1. 0 \in Int /\ 1 \in Int /\ -1 \in Int
    OBVIOUS
  <2> QED
    BY <1>4, <1>5, <2>1, Zenon
<1>7. /\ a1 = a => a1 = a + 0
      /\ b1 = b => b1 = b + 0
      /\ a1 + 1 = a => a1 = a + (-1)
      /\ b1 + 1 = b => b1 = b + (-1)
  BY <1>1, SMT
<1> QED
  BY <1>2, <1>3, <1>6, <1>7, Zenon DEF PackedMove

(* v belongs to Sentinels.                                                 *)
IsSentinel(v) ==
    pc[v] = "thief_reengage2" \/ (pc[v] \in LoopPcs /\ fails[v] >= SENTINEL_THRESHOLD)

(* v belongs to Disengaged.                                                *)
IsDisengaged(v) == pc[v] \in WaitingPcs

(* Only w moves, and the word changes by w's move: what every action has   *)
(* to do for Counting to be kept.                                          *)
CountedMove(w) ==
    /\ \A v \in Workers \ {w} : pc'[v] = pc[v] /\ fails'[v] = fails[v]
    /\ \/ /\ ds' = ds
          /\ IsDisengaged(w) <=> IsDisengaged(w)'
          /\ IsSentinel(w) <=> IsSentinel(w)'
       \/ /\ ds' = Added(ds, 0, 1)
          /\ IsDisengaged(w) <=> IsDisengaged(w)'
          /\ ~IsSentinel(w) /\ IsSentinel(w)'
       \/ /\ ds' = Added(ds, 0, -1)
          /\ IsDisengaged(w) <=> IsDisengaged(w)'
          /\ IsSentinel(w) /\ ~IsSentinel(w)'
       \/ /\ ds' = Added(ds, 1, 0)
          /\ ~IsDisengaged(w) /\ IsDisengaged(w)'
          /\ IsSentinel(w) <=> IsSentinel(w)'
       \/ /\ ds' = Added(ds, -1, 0)
          /\ IsDisengaged(w) /\ ~IsDisengaged(w)'
          /\ IsSentinel(w) <=> IsSentinel(w)'
       \/ /\ ds' = Added(ds, 1, -1)
          /\ ~IsDisengaged(w) /\ IsDisengaged(w)'
          /\ IsSentinel(w) /\ ~IsSentinel(w)'
       \/ /\ ds' = Added(ds, -1, 1)
          /\ IsDisengaged(w) /\ ~IsDisengaged(w)'
          /\ ~IsSentinel(w) /\ IsSentinel(w)'

(* Such a move keeps Counting.                                             *)
LEMMA CountedMoves ==
    ASSUME Counting, NEW w \in Workers, CountedMove(w)
    PROVE  Counting'
<1> DEFINE A == Disengaged
           B == Sentinels
           A1 == Disengaged'
           B1 == Sentinels'
<1>1. /\ A \in SUBSET Workers /\ B \in SUBSET Workers
      /\ A1 \in SUBSET Workers /\ B1 \in SUBSET Workers
  BY DEF Disengaged, Sentinels
<1>2. A \ {w} = A1 \ {w}
  BY DEF CountedMove, Disengaged
<1>3. B \ {w} = B1 \ {w}
  BY DEF CountedMove, Sentinels, At
<1>4. /\ w \in A <=> IsDisengaged(w)
      /\ w \in B <=> IsSentinel(w)
      /\ w \in A1 <=> IsDisengaged(w)'
      /\ w \in B1 <=> IsSentinel(w)'
  BY DEF Disengaged, Sentinels, At, IsDisengaged, IsSentinel
<1>5. ds = Packed(A, B)
  BY DEF Counting
<1>6. ds' = Packed(A1, B1)
  <2> HIDE DEF A, B, A1, B1
  <2>1. PackedMove(A, A1, B, B1, w)
    BY <1>1, <1>2, <1>3, PackedMoves, Zenon
  <2> QED
    BY <1>4, <1>5, <2>1, Zenon DEF CountedMove, PackedMove
<1> QED
  BY <1>6 DEF Counting

(* Every step is such a move. Where a thief wakes up or goes to sleep both *)
(* halves change at once, which is right only because its fails is still   *)
(* at least SENTINEL_THRESHOLD (Local).                                    *)
LEMMA CountingStep ==
    ASSUME Shape, Labelled, Local, Counting, Next
    PROVE  Counting'
<1> USE DEF At, Goto, region, index, sleep, local, vars, Labels, LongFailing,
  IsSentinel, IsDisengaged, LoopPcs, WaitingPcs
<1>0. ASSUME NEW w \in Workers, CountedMove(w) PROVE Counting'
  BY <1>0, CountedMoves
<1>1. ASSUME NEW w \in Workers, InitFails(w) PROVE CountedMove(w)
  BY <1>1, ThievesAndBoss, ThresholdFacts DEF InitFails, LoopEntry, Shape,
    Labelled, Local, Failing, CountedMove
<1>2. ASSUME NEW w \in Workers, ResetFails(w) PROVE CountedMove(w)
  BY <1>2, ThievesAndBoss, ThresholdFacts DEF ResetFails, ResetCount, Shape,
    Labelled, Local, Failing, CountedMove
<1>3. ASSUME NEW w \in Workers, StealLook(w) PROVE CountedMove(w)
  BY <1>3, ThievesAndBoss, ThresholdFacts DEF StealLook, Shape, Labelled,
    Local, Failing, CountedMove
<1>4. ASSUME NEW w \in Workers, CountStealable(w) PROVE CountedMove(w)
  BY <1>4, ThievesAndBoss, ThresholdFacts DEF CountStealable, Alone, Stealable,
    Shape, Labelled, Local, Failing, CountedMove
<1>5. ASSUME NEW w \in Workers, StealSucceeds(w) PROVE CountedMove(w)
  BY <1>5, ThievesAndBoss, ThresholdFacts DEF StealSucceeds, Victims,
    InUserCode, Shape, Labelled, Local, Failing, CountedMove
<1>6. ASSUME NEW w \in Workers, StealFails(w) PROVE CountedMove(w)
  BY <1>6, ThievesAndBoss, ThresholdFacts DEF StealFails, Capped, Shape,
    Labelled, Local, Failing, CountedMove
<1>7. ASSUME NEW w \in Workers, MaybeReengage(w) PROVE CountedMove(w)
  BY <1>7, ThievesAndBoss, ThresholdFacts DEF MaybeReengage, Requests,
    RunningOut, Sampled, Shape, Labelled, Local, Failing, CountedMove
<1>8. ASSUME NEW w \in Workers, OneSentinel(w) PROVE CountedMove(w)
  BY <1>8, ThievesAndBoss, ThresholdFacts DEF OneSentinel, Shape, Labelled,
    Local, Failing, CountedMove
<1>9. ASSUME NEW w \in Workers, RequestMoreThieves(w) PROVE CountedMove(w)
  BY <1>9, ThievesAndBoss, ThresholdFacts DEF RequestMoreThieves, ToWake,
    Shape, Labelled, Local, Failing, CountedMove
<1>10. ASSUME NEW w \in Workers, Notify(w) PROVE CountedMove(w)
  BY <1>10, ThievesAndBoss, ThresholdFacts DEF Notify, NotifyOne, Shape,
    Labelled, Local, Failing, CountedMove
<1>11. ASSUME NEW w \in Workers, RunOut(w) PROVE CountedMove(w)
  BY <1>11, ThievesAndBoss, ThresholdFacts DEF RunOut, InUserCode, OthersWork,
    Shape, Labelled, Local, Failing, CountedMove
<1>12. ASSUME NEW w \in Workers, DecreaseFails(w) PROVE CountedMove(w)
  BY <1>12, ThievesAndBoss, ThresholdFacts DEF DecreaseFails, Shape, Labelled,
    Local, Failing, CountedMove
<1>13. ASSUME NEW w \in Workers, SleepThieves(w) PROVE CountedMove(w)
  BY <1>13, ThievesAndBoss, ThresholdFacts DEF SleepThieves, InUserCode,
    OthersWork, Shape, Labelled, Local, Failing, CountedMove
<1>14. ASSUME NEW w \in Workers, SetDone(w) PROVE CountedMove(w)
  BY <1>14, ThievesAndBoss, ThresholdFacts DEF SetDone, Shape, Labelled, Local,
    Failing, CountedMove
<1>15. ASSUME NEW w \in Workers, ExitRegion(w) PROVE CountedMove(w)
  BY <1>15, ThievesAndBoss, ThresholdFacts DEF ExitRegion, Shape, Labelled,
    Local, Failing, CountedMove
<1>16. ASSUME NEW w \in Thieves, OuterTakeToken(w) PROVE CountedMove(w)
  BY <1>16, ThievesAndBoss, ThresholdFacts DEF OuterTakeToken, TakeToken,
    Shape, Labelled, Local, Failing, CountedMove
<1>17. ASSUME NEW w \in Thieves, OuterNoToken(w) PROVE CountedMove(w)
  BY <1>17, ThievesAndBoss, ThresholdFacts DEF OuterNoToken, NoToken, Shape,
    Labelled, Local, Failing, CountedMove
<1>18. ASSUME NEW w \in Thieves, DisengageWorker(w) PROVE CountedMove(w)
  BY <1>18, ThievesAndBoss, ThresholdFacts DEF DisengageWorker, MoveOut,
    BeginSwap, Shape, Labelled, Local, Failing, CountedMove
<1>19. ASSUME NEW w \in Thieves, DisengageSwap(w) PROVE CountedMove(w)
  BY <1>19, ThievesAndBoss, ThresholdFacts DEF DisengageSwap, SwapRest, Shape,
    Labelled, Local, Failing, CountedMove
<1>20. ASSUME NEW w \in Thieves, ThiefWake(w) PROVE CountedMove(w)
  BY <1>20, ThievesAndBoss, ThresholdFacts DEF ThiefWake, Wake, TakeToken,
    Shape, Labelled, Local, Failing, CountedMove
<1>21. ASSUME NEW w \in Thieves, ThiefSleep(w) PROVE CountedMove(w)
  BY <1>21, ThievesAndBoss, ThresholdFacts DEF ThiefSleep, Sleep, MaySleep,
    Shape, Labelled, Local, Failing, CountedMove
<1>22. ASSUME NEW w \in Thieves, ReengageWorker(w) PROVE CountedMove(w)
  BY <1>22, ThievesAndBoss, ThresholdFacts DEF ReengageWorker, MoveIn,
    BeginSwap, Shape, Labelled, Local, Failing, CountedMove
<1>23. ASSUME NEW w \in Thieves, ReengageSwap(w) PROVE CountedMove(w)
  BY <1>23, ThievesAndBoss, ThresholdFacts DEF ReengageSwap, SwapRest, Shape,
    Labelled, Local, Failing, CountedMove
<1>24. ASSUME NEW w \in Thieves, Check(w) PROVE CountedMove(w)
  BY <1>24, ThievesAndBoss, ThresholdFacts DEF Check, Shape, Labelled, Local,
    Failing, CountedMove
<1>25. ASSUME NEW w \in Thieves, LingerTakeToken(w) PROVE CountedMove(w)
  BY <1>25, ThievesAndBoss, ThresholdFacts DEF LingerTakeToken, TakeToken,
    LoopEntry, Shape, Labelled, Local, Failing, CountedMove
<1>26. ASSUME NEW w \in Thieves, LingerNoToken(w) PROVE CountedMove(w)
  BY <1>26, ThievesAndBoss, ThresholdFacts DEF LingerNoToken, NoToken, Shape,
    Labelled, Local, Failing, CountedMove
<1>27. ASSUME NEW w \in Thieves, Sample(w) PROVE CountedMove(w)
  BY <1>27, ThievesAndBoss, ThresholdFacts DEF Sample, Sampled, Shape,
    Labelled, Local, Failing, CountedMove
<1>28. ASSUME NEW w \in Thieves, MaybeDisengage(w) PROVE CountedMove(w)
  BY <1>28, ThievesAndBoss, ThresholdFacts DEF MaybeDisengage, Shape, Labelled,
    Local, Failing, CountedMove
<1>29. ASSUME NEW w \in Thieves, TryDisengage(w) PROVE CountedMove(w)
  BY <1>29, ThievesAndBoss, ThresholdFacts DEF TryDisengage, MoveOut,
    BeginSwap, UnchangedSince, Shape, Labelled, Local, Failing, CountedMove
<1>30. ASSUME NEW w \in Thieves, TryDisengageSwap(w) PROVE CountedMove(w)
  BY <1>30, ThievesAndBoss, ThresholdFacts DEF TryDisengageSwap, SwapRest,
    Shape, Labelled, Local, Failing, CountedMove
<1>31. ASSUME NEW w \in Thieves, TryDisengageFails(w) PROVE CountedMove(w)
  BY <1>31, ThievesAndBoss, ThresholdFacts DEF TryDisengageFails,
    UnchangedSince, Shape, Labelled, Local, Failing, CountedMove
<1>32. ASSUME NEW w \in Thieves, DisengagedWake(w) PROVE CountedMove(w)
  BY <1>32, ThievesAndBoss, ThresholdFacts DEF DisengagedWake, Wake, TakeToken,
    Shape, Labelled, Local, Failing, CountedMove
<1>33. ASSUME NEW w \in Thieves, DisengagedSleep(w) PROVE CountedMove(w)
  BY <1>33, ThievesAndBoss, ThresholdFacts DEF DisengagedSleep, Sleep,
    MaySleep, Shape, Labelled, Local, Failing, CountedMove
<1>34. ASSUME NEW w \in Thieves, ReengageThief(w) PROVE CountedMove(w)
  BY <1>34, ThievesAndBoss, ThresholdFacts DEF ReengageThief, MoveIn,
    BeginSwap, AfterSleep, Shape, Labelled, Local, Failing, CountedMove
<1>35. ASSUME NEW w \in Thieves, ReengageThiefSwap(w) PROVE CountedMove(w)
  BY <1>35, ThievesAndBoss, ThresholdFacts DEF ReengageThiefSwap, SwapRest,
    AfterSleep, Shape, Labelled, Local, Failing, CountedMove
<1>36. ASSUME NEW w \in Thieves, SignalUncilkified(w) PROVE CountedMove(w)
  BY <1>36, ThievesAndBoss, ThresholdFacts DEF SignalUncilkified, AfterSignal,
    Shape, Labelled, Local, Failing, CountedMove
<1>37. ASSUME StartRegion PROVE CountedMove(Boss)
  BY <1>37, ThievesAndBoss, ThresholdFacts DEF StartRegion, Shape, Labelled,
    Local, Failing, CountedMove
<1>38. ASSUME ClearDone PROVE CountedMove(Boss)
  BY <1>38, ThievesAndBoss, ThresholdFacts DEF ClearDone, Shape, Labelled,
    Local, Failing, CountedMove
<1>39. ASSUME WakeThieves PROVE CountedMove(Boss)
  BY <1>39, ThievesAndBoss, ThresholdFacts DEF WakeThieves, Shape, Labelled,
    Local, Failing, CountedMove
<1>40. ASSUME NotifyThieves PROVE Counting'
  <2>1. Disengaged' = Disengaged
    BY <1>40, ThievesAndBoss
       DEF NotifyThieves, At, Disengaged, WaitingPcs, Labelled
  <2>2. Sentinels' = Sentinels
    BY <1>40, ThievesAndBoss
       DEF NotifyThieves, local, At, Sentinels, LoopPcs, Labelled
  <2> QED
    BY <1>40, <2>1, <2>2 DEF NotifyThieves, Counting
<1>41. ASSUME BossReturns PROVE CountedMove(Boss)
  BY <1>41, ThievesAndBoss, ThresholdFacts DEF BossReturns, WaitOver, Shape,
    Labelled, Local, Failing, CountedMove
<1>42. ASSUME BossSleeps PROVE CountedMove(Boss)
  BY <1>42, ThievesAndBoss, ThresholdFacts DEF BossSleeps, Shape, Labelled,
    Local, Failing, CountedMove
<1>43. ASSUME StopWorkers PROVE CountedMove(Boss)
  BY <1>43, ThievesAndBoss, ThresholdFacts DEF StopWorkers, Shape, Labelled,
    Local, Failing, CountedMove
<1>44. ASSUME WakeAll PROVE CountedMove(Boss)
  BY <1>44, ThievesAndBoss, ThresholdFacts DEF WakeAll, TokensToExit, Shape,
    Labelled, Local, Failing, CountedMove
<1>45. ASSUME NotifyAll PROVE CountedMove(Boss)
  BY <1>45, ThievesAndBoss, ThresholdFacts DEF NotifyAll, Shape, Labelled,
    Local, Failing, CountedMove
<1>46. ASSUME Join PROVE CountedMove(Boss)
  BY <1>46, ThievesAndBoss, ThresholdFacts DEF Join, Shape, Labelled, Local,
    Failing, CountedMove
<1>47. ASSUME Finished PROVE Counting'
  BY <1>47
     DEF Finished, region, index, sleep, local, vars, Counting, Disengaged,
         Sentinels, At
<1> QED
  BY ThievesAndBoss, <1>0, <1>1, <1>2, <1>3, <1>4, <1>5, <1>6, <1>7, <1>8, <1>9,
    <1>10, <1>11, <1>12, <1>13, <1>14, <1>15, <1>16, <1>17, <1>18, <1>19,
    <1>20, <1>21, <1>22, <1>23, <1>24, <1>25, <1>26, <1>27, <1>28, <1>29,
    <1>30, <1>31, <1>32, <1>33, <1>34, <1>35, <1>36, <1>37, <1>38, <1>39,
    <1>40, <1>41, <1>42, <1>43, <1>44, <1>45, <1>46, <1>47, Zenon DEF Next,
    Scheduler, ThiefThread, BossThread

(* Between the two halves of swap_worker_with_target, on the way out.      *)
SwapOut == {"disengage2", "try2"}

(* Between the two halves of swap_worker_with_target, on the way in.       *)
SwapIn == {"reengage2", "thief_reengage2"}

(* The number of workers that are not disengaged, hence of valid entries   *)
(* at the front of index_to_worker.                                        *)
Engaged == NWorkers - Cardinality(Disengaged)

(* v is engaged exactly when its index is below e.                         *)
Valid(v, e) == pc[v] \notin WaitingPcs <=> w2i[v] < e

(* Outside a swap the arrays are inverse to one another, and the first     *)
(* Engaged entries are the engaged workers.                                *)
Settled ==
    /\ \A v \in Workers : i2w[w2i[v]] = v /\ Valid(v, Engaged)
    /\ \A i \in Workers : w2i[i2w[i]] = i

(* In the middle of w's swap with the worker at index target: everybody    *)
(* else's entry is already right, with e as the boundary, and w's old      *)
(* entry holds the worker that was at target.                              *)
Swapped(w, target, e) ==
    /\ target \in Workers
    /\ w2i[i2w[w2i[w]]] = target
    /\ \A v \in Workers \ {w} : i2w[w2i[v]] = v /\ Valid(v, e)
    /\ \A i \in Workers \ {w2i[w]} : w2i[i2w[i]] = i

(* The index arrays, both outside and in the middle of a swap. The lock's  *)
(* holder is the thread in the middle of one.                              *)
Indexing ==
    /\ i2w \in [Workers -> Workers] /\ w2i \in [Workers -> Workers]
    /\ indexLock \in Thieves \cup {NoOne}
    /\ w2i[Boss] = 0
    /\ \A w \in Workers : indexLock = w <=> pc[w] \in SwapOut \cup SwapIn
    /\ indexLock = NoOne => Settled
    /\ \A w \in Workers :
         /\ pc[w] \in SwapOut => Swapped(w, Engaged, Engaged + 1) /\ w2i[w] < Engaged
         /\ pc[w] \in SwapIn => Swapped(w, Engaged - 1, Engaged - 1) /\ w2i[w] >= Engaged

(* The positions LastOut and LastIn that the code computes from the word   *)
(* are those at the boundary of the valid entries.                         *)
LEMMA EngagedFacts ==
    ASSUME Counting
    PROVE  /\ Engaged \in 0 .. NWorkers /\ Engaged = NWorkers - GET_DISENGAGED(ds)
           /\ LastOut = Engaged /\ LastIn = Engaged - 1
           /\ GET_DISENGAGED(ds) \in Int
<1> DEFINE a == Cardinality(Disengaged)
           b == Cardinality(Sentinels)
<1>1. Disengaged \in SUBSET Workers /\ Sentinels \in SUBSET Workers
  BY DEF Disengaged, Sentinels
<1>2. a \in 0 .. NWorkers /\ b \in 0 .. NWorkers
  BY <1>1, SubsetCounts
<1>3. ds = a * HalfWord + b
  BY DEF Counting, Packed
<1>4. Engaged = NWorkers - a
  BY DEF Engaged
<1> HIDE DEF a, b
<1>5. GET_DISENGAGED(ds) = a
  BY <1>2, <1>3, Unpacked
<1> QED
  BY <1>2, <1>4, <1>5, ConstantTypes DEF LastOut, LastIn

(* The boundary moves by one when one worker starts or stops waiting.      *)
LEMMA EngagedMoves ==
    ASSUME NEW w \in Workers, \A v \in Workers \ {w} : pc'[v] = pc[v]
    PROVE  /\ Engaged \in Int /\ Engaged' \in Int
           /\ (pc[w] \in WaitingPcs <=> pc'[w] \in WaitingPcs) => Engaged' = Engaged
           /\ pc[w] \in WaitingPcs /\ pc'[w] \notin WaitingPcs => Engaged' = Engaged + 1
           /\ pc[w] \notin WaitingPcs /\ pc'[w] \in WaitingPcs => Engaged' = Engaged - 1
<1> DEFINE A == Disengaged
           A1 == Disengaged'
<1>1. A \in SUBSET Workers /\ A1 \in SUBSET Workers
  BY DEF Disengaged
<1>2. A \ {w} = A1 \ {w}
  BY DEF Disengaged
<1>3. (w \in A <=> pc[w] \in WaitingPcs) /\ (w \in A1 <=> pc'[w] \in WaitingPcs)
  BY DEF Disengaged
<1>4. Engaged = NWorkers - Cardinality(A) /\ Engaged' = NWorkers - Cardinality(A1)
  BY DEF Engaged
<1> HIDE DEF A, A1
<1>5. Cardinality(A) \in Int /\ Cardinality(A1) \in Int /\ IsFiniteSet(A) /\ IsFiniteSet(A1)
  BY <1>1, SubsetCounts
<1>6. /\ (w \in A <=> w \in A1) => Cardinality(A1) = Cardinality(A)
      /\ w \in A /\ w \notin A1 => Cardinality(A1) + 1 = Cardinality(A)
      /\ w \notin A /\ w \in A1 => Cardinality(A1) = Cardinality(A) + 1
  BY <1>2, <1>5, Membership
<1> QED
  BY <1>3, <1>4, <1>5, <1>6, ConstantTypes

(* A step that moves nobody across the boundary and leaves the arrays.     *)
IndexKept ==
    /\ i2w' = i2w /\ w2i' = w2i /\ indexLock' = indexLock
    /\ \A v \in Workers : /\ pc[v] \in WaitingPcs <=> pc'[v] \in WaitingPcs
                          /\ pc[v] \in SwapOut <=> pc'[v] \in SwapOut
                          /\ pc[v] \in SwapIn <=> pc'[v] \in SwapIn

(* Such a step keeps Indexing.                                             *)
LEMMA IndexingKept ==
    ASSUME Indexing, IndexKept
    PROVE  Indexing'
<1>1. Engaged' = Engaged
  <2>1. Disengaged' = Disengaged
    BY DEF IndexKept, Disengaged
  <2> QED
    BY <2>1 DEF Engaged
<1>2. \A v \in Workers : /\ pc[v] \in WaitingPcs <=> pc'[v] \in WaitingPcs
                         /\ pc[v] \in SwapOut <=> pc'[v] \in SwapOut
                         /\ pc[v] \in SwapIn <=> pc'[v] \in SwapIn
  BY DEF IndexKept
<1>3. i2w' = i2w /\ w2i' = w2i /\ indexLock' = indexLock
  BY DEF IndexKept
<1>4. \A v \in Workers : \A e : Valid(v, e)' <=> Valid(v, e)
  BY <1>2, <1>3 DEF Valid
<1>5. Settled' <=> Settled
  BY <1>1, <1>3, <1>4 DEF Settled
<1>6. \A v \in Workers : \A t, e : Swapped(v, t, e)' <=> Swapped(v, t, e)
  BY <1>3, <1>4 DEF Swapped
<1> QED
  BY <1>1, <1>2, <1>3, <1>5, <1>6 DEF Indexing

(* Disengaging: the boundary moves below LastOut, and the worker either is *)
(* already there or is in the middle of a swap with the one that is.       *)
LEMMA BeginsOut ==
    ASSUME Indexing, Counting, Labelled, NEW w \in Thieves, indexLock = NoOne,
           NEW between \in SwapOut, NEW to \in WaitingPcs \ SwapOut,
           pc[w] \notin WaitingPcs, MoveOut(w, between, to)
    PROVE  Indexing'
<1> DEFINE last == Engaged - 1
           i == w2i[w]
<1>1. w \in Workers /\ Boss \in Workers /\ w # Boss
  BY ThievesAndBoss
<1>2. Engaged \in 0 .. NWorkers /\ NWorkers - (GET_DISENGAGED(ds) + 1) = last
  BY EngagedFacts, ConstantTypes
<1>3. pc' = [pc EXCEPT ![w] = IF i < last THEN between ELSE to]
  BY <1>2 DEF MoveOut, BeginSwap, Goto
<1>4. /\ pc'[w] \in WaitingPcs
      /\ \A v \in Workers \ {w} : pc'[v] = pc[v]
  BY <1>1, <1>3 DEF Labelled, SwapOut, WaitingPcs
<1>5. Engaged' = last
  BY <1>1, <1>4, EngagedMoves
<1>6. Settled
  BY DEF Indexing
<1>7. i \in Workers /\ i < Engaged
  BY <1>1, <1>6 DEF Indexing, Settled, Valid
<1>8. \A v \in Workers : pc[v] \notin SwapOut \cup SwapIn
  BY Domains DEF Indexing
<1>9. CASE i < last
  <2>1. last \in Workers
    BY <1>2, <1>7, <1>9, ConstantTypes DEF Workers
  <2>2. /\ i2w' = [i2w EXCEPT ![i] = i2w[last]] /\ w2i' = w2i /\ indexLock' = w
        /\ pc' = [pc EXCEPT ![w] = between]
    BY <1>2, <1>9 DEF MoveOut, BeginSwap, Goto
  <2>3. i2w' \in [Workers -> Workers] /\ w2i' \in [Workers -> Workers]
    BY <1>7, <2>1, <2>2 DEF Indexing
  <2>4. \A v \in Workers \ {w} : w2i[v] # i
    BY <1>1, <1>6 DEF Settled
  <2>5. /\ i2w'[i] = i2w[last] /\ w2i[i2w[last]] = last
        /\ \A j \in Workers \ {i} : i2w'[j] = i2w[j] /\ w2i[i2w[j]] = j
    BY <1>6, <1>7, <2>1, <2>2 DEF Indexing, Settled
  <2>6. \A v \in Workers \ {w} : i2w'[w2i[v]] = v
    BY <1>6, <2>4, <2>5 DEF Indexing, Settled
  <2>7. Swapped(w, Engaged, Engaged + 1)'
    <3>1. \A v \in Workers \ {w} : Valid(v, Engaged + 1)'
      BY <1>2, <1>4, <1>5, <1>6, <2>2 DEF Settled, Valid
    <3> QED
      BY <1>1, <1>5, <2>1, <2>2, <2>5, <2>6, <3>1 DEF Swapped
  <2>8. /\ \A v \in Workers : indexLock' = v <=> pc'[v] \in SwapOut \cup SwapIn
        /\ \A v \in Workers : (pc'[v] \in SwapOut <=> v = w) /\ pc'[v] \notin SwapIn
    BY <1>1, <1>8, <2>2 DEF Labelled, SwapOut, SwapIn
  <2> QED
    BY <1>1, <1>5, <1>9, <2>2, <2>3, <2>7, <2>8, Domains DEF Indexing
<1>10. CASE ~(i < last)
  <2>1. i2w' = i2w /\ w2i' = w2i /\ indexLock' = indexLock /\ pc' = [pc EXCEPT ![w] = to]
    BY <1>2, <1>10 DEF MoveOut, BeginSwap, Goto, index
  <2>2. i = last /\ \A v \in Workers \ {w} : w2i[v] # i
    <3>1. i \in Int
      BY <1>7, Domains
    <3>2. i = last
      BY <1>2, <1>7, <1>10, <3>1
    <3> QED
      BY <1>1, <1>6, <3>2 DEF Settled
  <2>3. \A v \in Workers : Valid(v, Engaged)'
    <3>1. Valid(w, Engaged)'
      BY <1>2, <1>4, <1>5, <2>1, <2>2 DEF Valid
    <3>2. ASSUME NEW v \in Workers \ {w} PROVE Valid(v, Engaged)'
      <4>1. w2i[v] \in Int /\ w2i[v] # last /\ last \in Int /\ Engaged = last + 1
        BY <1>2, <2>2, Domains DEF Indexing
      <4>2. (w2i[v] < Engaged) <=> (w2i[v] < last)
        BY <4>1
      <4> QED
        BY <1>4, <1>5, <1>6, <2>1, <4>2 DEF Settled, Valid
    <3> QED
      BY <3>1, <3>2
  <2>4. Settled'
    BY <1>6, <2>1, <2>3 DEF Settled
  <2>5. \A v \in Workers : pc'[v] \notin SwapOut \cup SwapIn
    BY <1>1, <1>8, <2>1 DEF Labelled, SwapOut, SwapIn, WaitingPcs
  <2> QED
    BY <2>1, <2>4, <2>5, Domains DEF Indexing
<1> QED
  BY <1>9, <1>10

(* Reengaging: the same on the way back in.                                *)
LEMMA BeginsIn ==
    ASSUME Indexing, Counting, Labelled, NEW w \in Thieves, indexLock = NoOne,
           NEW between \in SwapIn, NEW to \in Labels \ (WaitingPcs \cup SwapIn),
           pc[w] \in WaitingPcs, MoveIn(w, between, to)
    PROVE  Indexing'
<1> DEFINE last == Engaged
           i == w2i[w]
<1>1. w \in Workers /\ Boss \in Workers /\ w # Boss
  BY ThievesAndBoss
<1>2. Engaged \in 0 .. NWorkers /\ NWorkers - GET_DISENGAGED(ds) = last
  BY EngagedFacts
<1>3. pc' = [pc EXCEPT ![w] = IF i > last THEN between ELSE to]
  BY <1>2 DEF MoveIn, BeginSwap, Goto
<1>4. /\ pc'[w] \notin WaitingPcs
      /\ \A v \in Workers \ {w} : pc'[v] = pc[v]
  BY <1>1, <1>3 DEF Labelled, SwapIn, WaitingPcs
<1>5. Engaged' = last + 1
  BY <1>1, <1>4, EngagedMoves
<1>6. Settled
  BY DEF Indexing
<1>7. i \in Workers /\ ~(i < Engaged) /\ i \in Int
  BY <1>1, <1>6, Domains DEF Indexing, Settled, Valid
<1>8. \A v \in Workers : pc[v] \notin SwapOut \cup SwapIn
  BY Domains DEF Indexing
<1>9. CASE i > last
  <2>1. last \in Workers
    BY <1>2, <1>7, <1>9, ConstantTypes DEF Workers
  <2>2. /\ i2w' = [i2w EXCEPT ![i] = i2w[last]] /\ w2i' = w2i /\ indexLock' = w
        /\ pc' = [pc EXCEPT ![w] = between]
    BY <1>2, <1>9 DEF MoveIn, BeginSwap, Goto
  <2>3. i2w' \in [Workers -> Workers] /\ w2i' \in [Workers -> Workers]
    BY <1>7, <2>1, <2>2 DEF Indexing
  <2>4. \A v \in Workers \ {w} : w2i[v] # i
    BY <1>1, <1>6 DEF Settled
  <2>5. /\ i2w'[i] = i2w[last] /\ w2i[i2w[last]] = last
        /\ \A j \in Workers \ {i} : i2w'[j] = i2w[j] /\ w2i[i2w[j]] = j
    BY <1>6, <1>7, <2>1, <2>2 DEF Indexing, Settled
  <2>6. \A v \in Workers \ {w} : i2w'[w2i[v]] = v
    BY <1>6, <2>4, <2>5 DEF Indexing, Settled
  <2>7. Swapped(w, Engaged - 1, Engaged - 1)'
    <3>1. Engaged' - 1 = last
      BY <1>2, <1>5
    <3>2. \A v \in Workers \ {w} : Valid(v, Engaged - 1)'
      BY <1>4, <1>6, <2>2, <3>1 DEF Settled, Valid
    <3> QED
      BY <1>1, <2>1, <2>2, <2>5, <2>6, <3>1, <3>2 DEF Swapped
  <2>8. /\ \A v \in Workers : indexLock' = v <=> pc'[v] \in SwapOut \cup SwapIn
        /\ \A v \in Workers : (pc'[v] \in SwapIn <=> v = w) /\ pc'[v] \notin SwapOut
    BY <1>1, <1>8, <2>2 DEF Labelled, SwapOut, SwapIn
  <2>9. i >= Engaged'
    BY <1>2, <1>5, <1>7, <1>9
  <2> QED
    BY <1>1, <2>2, <2>3, <2>7, <2>8, <2>9, Domains DEF Indexing
<1>10. CASE ~(i > last)
  <2>1. i2w' = i2w /\ w2i' = w2i /\ indexLock' = indexLock /\ pc' = [pc EXCEPT ![w] = to]
    BY <1>2, <1>10 DEF MoveIn, BeginSwap, Goto, index
  <2>2. i = last /\ \A v \in Workers \ {w} : w2i[v] # i
    <3>1. i = last
      BY <1>2, <1>7, <1>10
    <3> QED
      BY <1>1, <1>6, <3>1 DEF Settled
  <2>3. \A v \in Workers : Valid(v, Engaged)'
    <3>1. Valid(w, Engaged)'
      BY <1>2, <1>4, <1>5, <2>1, <2>2 DEF Valid
    <3>2. ASSUME NEW v \in Workers \ {w} PROVE Valid(v, Engaged)'
      <4>1. w2i[v] \in Int /\ w2i[v] # last /\ last \in Int
        BY <1>2, <2>2, Domains DEF Indexing
      <4>2. (w2i[v] < last) <=> (w2i[v] < last + 1)
        BY <4>1
      <4> QED
        BY <1>4, <1>5, <1>6, <2>1, <4>2 DEF Settled, Valid
    <3> QED
      BY <3>1, <3>2
  <2>4. Settled'
    BY <1>6, <2>1, <2>3 DEF Settled
  <2>5. \A v \in Workers : pc'[v] \notin SwapOut \cup SwapIn
    BY <1>1, <1>8, <2>1 DEF Labelled, SwapOut, SwapIn, WaitingPcs
  <2> QED
    BY <2>1, <2>4, <2>5, Domains DEF Indexing
<1> QED
  BY <1>9, <1>10

(* The second half of a swap settles the arrays again. This is where       *)
(* holding index_lock over both halves is needed: nobody else is in the    *)
(* middle of a swap.                                                       *)
LEMMA SwapCompletes ==
    ASSUME Indexing, Labelled, NEW w \in Thieves,
           NEW from \in SwapOut \cup SwapIn, NEW to \in Labels \ (SwapOut \cup SwapIn),
           to \in WaitingPcs <=> from \in WaitingPcs,
           NEW target \in Workers, NEW e \in Int, Swapped(w, target, e), w2i[w] # target,
           from \in SwapOut => e = Engaged + 1 /\ target = Engaged /\ w2i[w] < Engaged,
           from \in SwapIn => e = Engaged - 1 /\ target = Engaged - 1 /\ w2i[w] >= Engaged,
           SwapRest(w, from, target, to)
    PROVE  Indexing'
<1> DEFINE i == w2i[w]
           u == i2w[w2i[w]]
<1>1. /\ w \in Workers /\ Boss \in Workers /\ w # Boss /\ i \in Workers /\ u \in Workers
      /\ u # w /\ w2i[u] = target /\ i2w[target] = u /\ i2w[i] = u
  BY ThievesAndBoss DEF Indexing, Swapped
<1>2. /\ i2w' = [i2w EXCEPT ![target] = w]
      /\ w2i' = [w2i EXCEPT ![u] = i, ![w] = target]
      /\ indexLock' = NoOne /\ pc' = [pc EXCEPT ![w] = to] /\ pc[w] = from
  BY DEF SwapRest, Goto, At
<1> HIDE DEF i, u
<1>3. /\ i2w' \in [Workers -> Workers] /\ w2i' \in [Workers -> Workers]
      /\ w2i'[w] = target /\ w2i'[u] = i
      /\ \A v \in Workers \ {w, u} : w2i'[v] = w2i[v]
      /\ i2w'[target] = w
      /\ \A j \in Workers \ {target} : i2w'[j] = i2w[j]
  BY <1>1, <1>2 DEF Indexing
<1>4. /\ \A v \in Workers \ {w, u} : w2i[v] \in Workers \ {target, i} /\ i2w[w2i[v]] = v
      /\ \A j \in Workers \ {target, i} : i2w[j] \in Workers \ {w, u} /\ w2i[i2w[j]] = j
  BY <1>1 DEF Indexing, Swapped, i
<1>5. i # target
  BY DEF i
<1>6. \A v \in Workers : i2w'[w2i'[v]] = v
  BY <1>1, <1>3, <1>4, <1>5
<1>7. \A j \in Workers : w2i'[i2w'[j]] = j
  BY <1>1, <1>3, <1>4, <1>5
<1>8. \A v \in Workers \ {w} : pc'[v] = pc[v]
  BY <1>2 DEF Labelled
<1>9. pc'[w] = to
  BY <1>1, <1>2 DEF Labelled
<1>10. Engaged' = Engaged /\ Engaged \in Int
  BY <1>1, <1>2, <1>8, <1>9, EngagedMoves
<1>11. \A v \in Workers : w2i[v] \in Int
  BY Domains DEF Indexing
<1>12. ASSUME NEW v \in Workers PROVE Valid(v, Engaged)'
  <2>1. v # w => Valid(v, e)
    BY DEF Swapped
  <2>2. CASE from \in SwapOut
    <3>1. from \in WaitingPcs
      BY <2>2 DEF SwapOut, WaitingPcs
    <3>2. CASE v = w
      BY <1>3, <1>9, <1>10, <2>2, <3>1, <3>2 DEF Valid
    <3>3. CASE v = u
      <4>1. pc[u] \notin WaitingPcs
        BY <1>1, <1>10, <2>1, <2>2, <3>3 DEF Valid
      <4>2. i < Engaged
        BY <2>2 DEF i
      <4> QED
        BY <1>1, <1>3, <1>8, <1>10, <3>3, <4>1, <4>2 DEF Valid
    <3>4. CASE v \notin {w, u}
      <4>1. w2i[v] # Engaged
        BY <1>4, <2>2, <3>4
      <4>2. (w2i[v] < Engaged + 1) <=> (w2i[v] < Engaged)
        BY <1>10, <1>11, <4>1
      <4> QED
        BY <1>3, <1>8, <1>10, <2>1, <2>2, <3>4, <4>2 DEF Valid
    <3> QED
      BY <3>2, <3>3, <3>4
  <2>3. CASE from \in SwapIn
    <3>1. from \notin WaitingPcs
      BY <2>3 DEF SwapIn, WaitingPcs
    <3>2. CASE v = w
      BY <1>3, <1>9, <1>10, <2>3, <3>1, <3>2 DEF Valid
    <3>3. CASE v = u
      <4>1. pc[u] \in WaitingPcs
        BY <1>1, <1>10, <2>1, <2>3, <3>3 DEF Valid
      <4>2. ~(i < Engaged)
        BY <1>1, <1>10, <1>11, <2>3 DEF i
      <4> QED
        BY <1>1, <1>3, <1>8, <1>10, <3>3, <4>1, <4>2 DEF Valid
    <3>4. CASE v \notin {w, u}
      <4>1. w2i[v] # Engaged - 1
        BY <1>4, <2>3, <3>4
      <4>2. (w2i[v] < Engaged - 1) <=> (w2i[v] < Engaged)
        BY <1>10, <1>11, <4>1
      <4> QED
        BY <1>3, <1>8, <1>10, <2>1, <2>3, <3>4, <4>2 DEF Valid
    <3> QED
      BY <3>2, <3>3, <3>4
  <2> QED
    BY <2>2, <2>3
<1>13. Settled'
  BY <1>6, <1>7, <1>12 DEF Settled
<1>14. w2i'[Boss] = 0
  <2>1. Boss # u
    <3>1. CASE from \in SwapOut
      BY <1>1, <1>11, <3>1, Domains DEF Indexing, i
    <3>2. CASE from \in SwapIn
      <4>1. w2i[Boss] < Engaged - 1
        BY <1>1, <3>2
           DEF Swapped, Valid, Labelled, BossLabels, WorkPcs, BossPcs,
               WaitingPcs
      <4> QED
        BY <1>1, <1>10, <1>11, <3>2, <4>1
    <3> QED
      BY <3>1, <3>2
  <2> QED
    BY <1>1, <1>3, <2>1 DEF Indexing
<1>15. \A v \in Workers : pc'[v] \notin SwapOut \cup SwapIn
  <2>1. \A v \in Workers \ {w} : pc[v] \notin SwapOut \cup SwapIn
    BY <1>1, <1>2 DEF Indexing
  <2> QED
    BY <1>8, <1>9, <2>1
<1> QED
  BY <1>2, <1>3, <1>13, <1>14, <1>15, Domains DEF Indexing

(* Every step keeps Indexing.                                              *)
LEMMA IndexingStep ==
    ASSUME Labelled, Counting, Indexing, Next
    PROVE  Indexing'
<1> USE DEF At, Goto, region, index, sleep, local, vars, Labels, SwapOut, SwapIn,
  LoopPcs, WaitingPcs
<1>0. ASSUME IndexKept PROVE Indexing'
  BY <1>0, IndexingKept
<1>1. ASSUME NEW w \in Workers, InitFails(w) PROVE IndexKept
  BY <1>1, ThievesAndBoss DEF InitFails, LoopEntry, Labelled, IndexKept
<1>2. ASSUME NEW w \in Workers, ResetFails(w) PROVE IndexKept
  BY <1>2, ThievesAndBoss DEF ResetFails, ResetCount, Labelled, IndexKept
<1>3. ASSUME NEW w \in Workers, StealLook(w) PROVE IndexKept
  BY <1>3, ThievesAndBoss DEF StealLook, Labelled, IndexKept
<1>4. ASSUME NEW w \in Workers, CountStealable(w) PROVE IndexKept
  BY <1>4, ThievesAndBoss DEF CountStealable, Alone, Stealable, Labelled,
    IndexKept
<1>5. ASSUME NEW w \in Workers, StealSucceeds(w) PROVE IndexKept
  BY <1>5, ThievesAndBoss DEF StealSucceeds, Victims, InUserCode, Labelled,
    IndexKept
<1>6. ASSUME NEW w \in Workers, StealFails(w) PROVE IndexKept
  BY <1>6, ThievesAndBoss DEF StealFails, Capped, Labelled, IndexKept
<1>7. ASSUME NEW w \in Workers, MaybeReengage(w) PROVE IndexKept
  BY <1>7, ThievesAndBoss DEF MaybeReengage, Requests, RunningOut, Sampled,
    Labelled, IndexKept
<1>8. ASSUME NEW w \in Workers, OneSentinel(w) PROVE IndexKept
  BY <1>8, ThievesAndBoss DEF OneSentinel, Labelled, IndexKept
<1>9. ASSUME NEW w \in Workers, RequestMoreThieves(w) PROVE IndexKept
  BY <1>9, ThievesAndBoss DEF RequestMoreThieves, ToWake, Labelled, IndexKept
<1>10. ASSUME NEW w \in Workers, Notify(w) PROVE IndexKept
  BY <1>10, ThievesAndBoss DEF Notify, NotifyOne, Labelled, IndexKept
<1>11. ASSUME NEW w \in Workers, RunOut(w) PROVE IndexKept
  BY <1>11, ThievesAndBoss DEF RunOut, InUserCode, OthersWork, Labelled,
    IndexKept
<1>12. ASSUME NEW w \in Workers, DecreaseFails(w) PROVE IndexKept
  BY <1>12, ThievesAndBoss DEF DecreaseFails, Labelled, IndexKept
<1>13. ASSUME NEW w \in Workers, SleepThieves(w) PROVE IndexKept
  BY <1>13, ThievesAndBoss DEF SleepThieves, InUserCode, OthersWork, Labelled,
    IndexKept
<1>14. ASSUME NEW w \in Workers, SetDone(w) PROVE IndexKept
  BY <1>14, ThievesAndBoss DEF SetDone, Labelled, IndexKept
<1>15. ASSUME NEW w \in Workers, ExitRegion(w) PROVE IndexKept
  BY <1>15, ThievesAndBoss DEF ExitRegion, Labelled, IndexKept
<1>16. ASSUME NEW w \in Thieves, OuterTakeToken(w) PROVE IndexKept
  BY <1>16, ThievesAndBoss DEF OuterTakeToken, TakeToken, Labelled, IndexKept
<1>17. ASSUME NEW w \in Thieves, OuterNoToken(w) PROVE IndexKept
  BY <1>17, ThievesAndBoss DEF OuterNoToken, NoToken, Labelled, IndexKept
<1>18. ASSUME NEW w \in Thieves, DisengageWorker(w) PROVE Indexing'
  <2>1. /\ MoveOut(w, "disengage2", "wait") /\ indexLock = NoOne
        /\ pc[w] \notin WaitingPcs
    BY <1>18 DEF DisengageWorker, At, WaitingPcs
  <2>2. /\ "disengage2" \in SwapOut
        /\ "wait" \in WaitingPcs \ SwapOut
    BY DEF SwapOut, SwapIn, WaitingPcs, Labels, ThiefPcs, LoopPcs
  <2> QED
    BY <2>1, <2>2, BeginsOut, Zenon
<1>19. ASSUME NEW w \in Thieves, DisengageSwap(w) PROVE Indexing'
  <2>1. /\ SwapRest(w, "disengage2", Engaged, "wait") /\ pc[w] = "disengage2"
        /\ Engaged \in Int
    BY <1>19, EngagedFacts DEF DisengageSwap, SwapRest, At
  <2>2. Swapped(w, Engaged, Engaged + 1) /\ w2i[w] < Engaged
    BY <2>1, ThievesAndBoss DEF Indexing, SwapOut, SwapIn
  <2>3. w2i[w] # Engaged /\ Engaged \in Workers /\ Engaged + 1 \in Int
    BY <2>1, <2>2, Domains, ThievesAndBoss DEF Indexing, Swapped
  <2>4. /\ "disengage2" \in SwapOut \cup SwapIn /\ "wait" \in Labels \ (SwapOut \cup SwapIn)
        /\ "disengage2" \in SwapOut <=> TRUE
        /\ "disengage2" \in SwapIn <=> FALSE
        /\ "disengage2" \in WaitingPcs <=> "wait" \in WaitingPcs
    BY DEF SwapOut, SwapIn, WaitingPcs, Labels, ThiefPcs, LoopPcs
  <2> QED
    BY <2>1, <2>2, <2>3, <2>4, SwapCompletes, Zenon
<1>20. ASSUME NEW w \in Thieves, ThiefWake(w) PROVE IndexKept
  BY <1>20, ThievesAndBoss DEF ThiefWake, Wake, TakeToken, Labelled, IndexKept
<1>21. ASSUME NEW w \in Thieves, ThiefSleep(w) PROVE IndexKept
  BY <1>21, ThievesAndBoss DEF ThiefSleep, Sleep, MaySleep, Labelled, IndexKept
<1>22. ASSUME NEW w \in Thieves, ReengageWorker(w) PROVE Indexing'
  <2>1. /\ MoveIn(w, "reengage2", "check") /\ indexLock = NoOne
        /\ pc[w] \in WaitingPcs
    BY <1>22 DEF ReengageWorker, At, WaitingPcs
  <2>2. /\ "reengage2" \in SwapIn
        /\ "check" \in Labels \ (WaitingPcs \cup SwapIn)
    BY DEF SwapOut, SwapIn, WaitingPcs, Labels, ThiefPcs, LoopPcs
  <2> QED
    BY <2>1, <2>2, BeginsIn, Zenon
<1>23. ASSUME NEW w \in Thieves, ReengageSwap(w) PROVE Indexing'
  <2>1. /\ SwapRest(w, "reengage2", Engaged - 1, "check") /\ pc[w] = "reengage2"
        /\ Engaged \in Int
    BY <1>23, EngagedFacts DEF ReengageSwap, SwapRest, At
  <2>2. Swapped(w, Engaged - 1, Engaged - 1) /\ w2i[w] >= Engaged
    BY <2>1, ThievesAndBoss DEF Indexing, SwapOut, SwapIn
  <2>3. w2i[w] # Engaged - 1 /\ Engaged - 1 \in Workers /\ Engaged - 1 \in Int
    BY <2>1, <2>2, Domains, ThievesAndBoss DEF Indexing, Swapped
  <2>4. /\ "reengage2" \in SwapOut \cup SwapIn /\ "check" \in Labels \ (SwapOut \cup SwapIn)
        /\ "reengage2" \in SwapOut <=> FALSE
        /\ "reengage2" \in SwapIn <=> TRUE
        /\ "reengage2" \in WaitingPcs <=> "check" \in WaitingPcs
    BY DEF SwapOut, SwapIn, WaitingPcs, Labels, ThiefPcs, LoopPcs
  <2> QED
    BY <2>1, <2>2, <2>3, <2>4, SwapCompletes, Zenon
<1>24. ASSUME NEW w \in Thieves, Check(w) PROVE IndexKept
  BY <1>24, ThievesAndBoss DEF Check, Labelled, IndexKept
<1>25. ASSUME NEW w \in Thieves, LingerTakeToken(w) PROVE IndexKept
  BY <1>25, ThievesAndBoss DEF LingerTakeToken, TakeToken, LoopEntry, Labelled,
    IndexKept
<1>26. ASSUME NEW w \in Thieves, LingerNoToken(w) PROVE IndexKept
  BY <1>26, ThievesAndBoss DEF LingerNoToken, NoToken, Labelled, IndexKept
<1>27. ASSUME NEW w \in Thieves, Sample(w) PROVE IndexKept
  BY <1>27, ThievesAndBoss DEF Sample, Sampled, Labelled, IndexKept
<1>28. ASSUME NEW w \in Thieves, MaybeDisengage(w) PROVE IndexKept
  BY <1>28, ThievesAndBoss DEF MaybeDisengage, Labelled, IndexKept
<1>29. ASSUME NEW w \in Thieves, TryDisengage(w) PROVE Indexing'
  <2>1. /\ MoveOut(w, "try2", "thief_wait") /\ indexLock = NoOne
        /\ pc[w] \notin WaitingPcs
    BY <1>29 DEF TryDisengage, At, WaitingPcs
  <2>2. /\ "try2" \in SwapOut
        /\ "thief_wait" \in WaitingPcs \ SwapOut
    BY DEF SwapOut, SwapIn, WaitingPcs, Labels, ThiefPcs, LoopPcs
  <2> QED
    BY <2>1, <2>2, BeginsOut, Zenon
<1>30. ASSUME NEW w \in Thieves, TryDisengageSwap(w) PROVE Indexing'
  <2>1. /\ SwapRest(w, "try2", Engaged, "thief_wait") /\ pc[w] = "try2"
        /\ Engaged \in Int
    BY <1>30, EngagedFacts DEF TryDisengageSwap, SwapRest, At
  <2>2. Swapped(w, Engaged, Engaged + 1) /\ w2i[w] < Engaged
    BY <2>1, ThievesAndBoss DEF Indexing, SwapOut, SwapIn
  <2>3. w2i[w] # Engaged /\ Engaged \in Workers /\ Engaged + 1 \in Int
    BY <2>1, <2>2, Domains, ThievesAndBoss DEF Indexing, Swapped
  <2>4. /\ "try2" \in SwapOut \cup SwapIn /\ "thief_wait" \in Labels \ (SwapOut \cup SwapIn)
        /\ "try2" \in SwapOut <=> TRUE
        /\ "try2" \in SwapIn <=> FALSE
        /\ "try2" \in WaitingPcs <=> "thief_wait" \in WaitingPcs
    BY DEF SwapOut, SwapIn, WaitingPcs, Labels, ThiefPcs, LoopPcs
  <2> QED
    BY <2>1, <2>2, <2>3, <2>4, SwapCompletes, Zenon
<1>31. ASSUME NEW w \in Thieves, TryDisengageFails(w) PROVE IndexKept
  BY <1>31, ThievesAndBoss DEF TryDisengageFails, UnchangedSince, Labelled,
    IndexKept
<1>32. ASSUME NEW w \in Thieves, DisengagedWake(w) PROVE IndexKept
  BY <1>32, ThievesAndBoss DEF DisengagedWake, Wake, TakeToken, Labelled,
    IndexKept
<1>33. ASSUME NEW w \in Thieves, DisengagedSleep(w) PROVE IndexKept
  BY <1>33, ThievesAndBoss DEF DisengagedSleep, Sleep, MaySleep, Labelled,
    IndexKept
<1>34. ASSUME NEW w \in Thieves, ReengageThief(w) PROVE Indexing'
  <2>1. /\ MoveIn(w, "thief_reengage2", "steal") /\ indexLock = NoOne
        /\ pc[w] \in WaitingPcs
    BY <1>34 DEF ReengageThief, At, WaitingPcs
  <2>2. /\ "thief_reengage2" \in SwapIn
        /\ "steal" \in Labels \ (WaitingPcs \cup SwapIn)
    BY DEF SwapOut, SwapIn, WaitingPcs, Labels, ThiefPcs, LoopPcs
  <2> QED
    BY <2>1, <2>2, BeginsIn, Zenon
<1>35. ASSUME NEW w \in Thieves, ReengageThiefSwap(w) PROVE Indexing'
  <2>1. /\ SwapRest(w, "thief_reengage2", Engaged - 1, "steal") /\ pc[w] = "thief_reengage2"
        /\ Engaged \in Int
    BY <1>35, EngagedFacts DEF ReengageThiefSwap, SwapRest, At
  <2>2. Swapped(w, Engaged - 1, Engaged - 1) /\ w2i[w] >= Engaged
    BY <2>1, ThievesAndBoss DEF Indexing, SwapOut, SwapIn
  <2>3. w2i[w] # Engaged - 1 /\ Engaged - 1 \in Workers /\ Engaged - 1 \in Int
    BY <2>1, <2>2, Domains, ThievesAndBoss DEF Indexing, Swapped
  <2>4. /\ "thief_reengage2" \in SwapOut \cup SwapIn /\ "steal" \in Labels \ (SwapOut \cup SwapIn)
        /\ "thief_reengage2" \in SwapOut <=> FALSE
        /\ "thief_reengage2" \in SwapIn <=> TRUE
        /\ "thief_reengage2" \in WaitingPcs <=> "steal" \in WaitingPcs
    BY DEF SwapOut, SwapIn, WaitingPcs, Labels, ThiefPcs, LoopPcs
  <2> QED
    BY <2>1, <2>2, <2>3, <2>4, SwapCompletes, Zenon
<1>36. ASSUME NEW w \in Thieves, SignalUncilkified(w) PROVE IndexKept
  BY <1>36, ThievesAndBoss DEF SignalUncilkified, AfterSignal, Labelled,
    IndexKept
<1>37. ASSUME StartRegion PROVE IndexKept
  BY <1>37, ThievesAndBoss DEF StartRegion, Labelled, IndexKept
<1>38. ASSUME ClearDone PROVE IndexKept
  BY <1>38, ThievesAndBoss DEF ClearDone, Labelled, IndexKept
<1>39. ASSUME WakeThieves PROVE IndexKept
  BY <1>39, ThievesAndBoss DEF WakeThieves, Labelled, IndexKept
<1>40. ASSUME NotifyThieves PROVE IndexKept
  BY <1>40, ThievesAndBoss DEF NotifyThieves, Labelled, IndexKept
<1>41. ASSUME BossReturns PROVE IndexKept
  BY <1>41, ThievesAndBoss DEF BossReturns, WaitOver, Labelled, IndexKept
<1>42. ASSUME BossSleeps PROVE IndexKept
  BY <1>42, ThievesAndBoss DEF BossSleeps, Labelled, IndexKept
<1>43. ASSUME StopWorkers PROVE IndexKept
  BY <1>43, ThievesAndBoss DEF StopWorkers, Labelled, IndexKept
<1>44. ASSUME WakeAll PROVE IndexKept
  BY <1>44, ThievesAndBoss DEF WakeAll, TokensToExit, Labelled, IndexKept
<1>45. ASSUME NotifyAll PROVE IndexKept
  BY <1>45, ThievesAndBoss DEF NotifyAll, Labelled, IndexKept
<1>46. ASSUME Join PROVE IndexKept
  BY <1>46, ThievesAndBoss DEF Join, Labelled, IndexKept
<1>47. ASSUME Finished PROVE Indexing'
  BY <1>47, IndexingKept
    DEF Finished, region, index, sleep, local, vars, IndexKept

<1> QED
  BY ThievesAndBoss, <1>0, <1>1, <1>2, <1>3, <1>4, <1>5, <1>6, <1>7, <1>8, <1>9,
    <1>10, <1>11, <1>12, <1>13, <1>14, <1>15, <1>16, <1>17, <1>18, <1>19,
    <1>20, <1>21, <1>22, <1>23, <1>24, <1>25, <1>26, <1>27, <1>28, <1>29,
    <1>30, <1>31, <1>32, <1>33, <1>34, <1>35, <1>36, <1>37, <1>38, <1>39,
    <1>40, <1>41, <1>42, <1>43, <1>44, <1>45, <1>46, <1>47, Zenon DEF Next,
    Scheduler, ThiefThread, BossThread

(* The boss has set terminate.                                             *)
Stopping == {"wake_all", "notify_all", "join", "joined"}

(* The boss has started a region and not yet let the thieves at it.        *)
Starting == {"clear_done", "wake_thieves", "notify_thieves"}

(* v is ending the region: it has returned from the root closure.          *)
Ends(v) == pc[v] \in {"set_done", "exit"}

(* Nobody works, nobody ends the region.                                   *)
Idle == \A v \in Workers : ~HasWork(v) /\ ~Ends(v)

(* A region that runs: somebody has work.                                  *)
Working ==
    /\ \E v \in Workers : HasWork(v)
    /\ \A v \in Workers : ~Ends(v)
    /\ ~done /\ cilkified

(* A region that ends: one thread, and only one, is on its way from the    *)
(* last closure to exit_cilkified_root.                                    *)
Ending ==
    /\ \A v \in Workers : ~HasWork(v)
    /\ \E e \in Workers : /\ \A v \in Workers : Ends(v) <=> v = e
                          /\ pc[e] = "set_done" => ~done
                          /\ pc[e] = "exit" => done
    /\ cilkified /\ tokens = 0

(* A region that has ended; nobody wakes thieves up for it any more.       *)
Over == Idle /\ done /\ ~cilkified /\ tokens = 0

(* One region after the other: the boss enters the next one, or            *)
(* terminates, only when nobody works on the last one any more.            *)
Region ==
    /\ terminate <=> pc[Boss] \in Stopping
    /\ pc[Boss] \in Stopping \cup {"outside"} =>
         /\ Idle /\ ~cilkified
         /\ done \/ \A v \in Thieves : pc[v] = "unborn"
    /\ pc[Boss] = "outside" => tokens = 0
    /\ pc[Boss] \in Starting => Idle /\ cilkified
    /\ pc[Boss] \in {"wake_thieves", "notify_thieves"} => ~done
    /\ pc[Boss] \notin Stopping \cup Starting \cup {"outside"} => Working \/ Ending \/ Over
    /\ pc[Boss] \in {"reset", "uncilkify"} => done

(* w's step is of no consequence to the region.                            *)
RegionKept(w) ==
    /\ cilkified' = cilkified /\ done' = done /\ terminate' = terminate
    /\ tokens = 0 => tokens' = 0
    /\ \A v \in Workers \ {w} : pc'[v] = pc[v]
    /\ HasWork(w)' <=> HasWork(w)
    /\ ~Ends(w) /\ ~Ends(w)'
    /\ w # Boss /\ pc[w] = "unborn" => pc'[w] = "unborn"
    /\ w = Boss =>
         \/ pc'[Boss] = pc[Boss]
         \/ /\ pc[Boss] \notin Stopping \cup Starting \cup {"outside"}
            /\ pc'[Boss] \notin Stopping \cup Starting \cup {"outside"}
            /\ pc'[Boss] \in {"reset", "uncilkify"} => done

(* Such a step keeps Region.                                               *)
LEMMA RegionIsKept ==
    ASSUME Region, Shape, NEW w \in Workers, RegionKept(w)
    PROVE  Region'
<1>1. /\ cilkified' = cilkified /\ done' = done /\ terminate' = terminate
      /\ tokens = 0 => tokens' = 0
  BY DEF RegionKept
<1>2. \A v \in Workers \ {w} : pc'[v] = pc[v]
  BY DEF RegionKept
<1>3. \A v \in Workers : (HasWork(v)' <=> HasWork(v)) /\ (Ends(v)' <=> Ends(v))
  BY <1>2 DEF RegionKept, HasWork, Ends
<1>4. \A v \in Workers : Ends(v) => pc'[v] = pc[v]
  BY <1>2 DEF RegionKept
<1>5. Idle => Idle'
  BY <1>3 DEF Idle
<1>6. Working => Working'
  BY <1>1, <1>3 DEF Working
<1>7. Ending => Ending'
  BY <1>1, <1>3, <1>4 DEF Ending
<1>8. Over => Over'
  BY <1>1, <1>5 DEF Over
<1>9. (\A v \in Thieves : pc[v] = "unborn") => (\A v \in Thieves : pc'[v] = "unborn")
  BY <1>2, ThievesAndBoss DEF RegionKept
<1>10. \/ pc'[Boss] = pc[Boss]
       \/ /\ pc[Boss] \notin Stopping \cup Starting \cup {"outside"}
          /\ pc'[Boss] \notin Stopping \cup Starting \cup {"outside"}
          /\ pc'[Boss] \in {"reset", "uncilkify"} => done
  BY <1>2, ThievesAndBoss DEF RegionKept
<1>11. CASE pc'[Boss] = pc[Boss]
  BY <1>1, <1>5, <1>6, <1>7, <1>8, <1>9, <1>11 DEF Region
<1>12. CASE /\ pc[Boss] \notin Stopping \cup Starting \cup {"outside"}
            /\ pc'[Boss] \notin Stopping \cup Starting \cup {"outside"}
            /\ pc'[Boss] \in {"reset", "uncilkify"} => done
  BY <1>1, <1>6, <1>7, <1>8, <1>12 DEF Region, Stopping, Starting
<1> QED
  BY <1>10, <1>11, <1>12

(* The boss is not in a region, or just setting one up.                    *)
Outside == Stopping \cup Starting \cup {"outside"}

(* Who works or ends a region is inside it.                                *)
LEMMA WithinRegion ==
    ASSUME Region, NEW v \in Workers
    PROVE  /\ HasWork(v) \/ Ends(v) => pc[Boss] \notin Outside
           /\ HasWork(v) => Working
           /\ Ends(v) => Ending
<1>1. HasWork(v) \/ Ends(v) => ~Idle /\ pc[Boss] \notin Outside
  BY DEF Region, Idle, Outside
<1>2. HasWork(v) => ~Ending
  BY DEF Ending
<1>3. Ends(v) => ~Working
  BY DEF Working
<1> QED
  BY <1>1, <1>2, <1>3 DEF Region, Over, Outside

(* A step of a thread inside a region that leads to one of the three       *)
(* phases of a region again keeps Region.                                  *)
LEMMA StaysWithin ==
    ASSUME Region, NEW w \in Workers, HasWork(w) \/ Ends(w),
           terminate' = terminate, Working' \/ Ending' \/ Over',
           \/ pc'[Boss] = pc[Boss]
           \/ pc'[Boss] \notin Outside /\ pc'[Boss] \notin {"reset", "uncilkify"},
           Ends(w) => done' \/ ~done
    PROVE  Region'
<1>1. pc[Boss] \notin Outside /\ (Working \/ Ending)
  BY WithinRegion
<1>2. pc'[Boss] \notin Outside
  BY <1>1
<1>3. pc'[Boss] \in {"reset", "uncilkify"} => done'
  <2>1. HasWork(w) => ~done
    BY WithinRegion DEF Working
  <2> QED
    BY <2>1 DEF Region
<1> QED
  BY <1>1, <1>2, <1>3 DEF Region, Outside, Stopping, Starting

(* What a read of the futex word or of disengaged_sentinel may return.     *)
TokenRange == TokenCounts \cup 0 .. HalfWord * HalfWord - 1

(* What v has read and still goes by, at each place where it matters: a    *)
(* thief that tries to disengage has seen another sentinel, one that picks *)
(* a victim has seen another engaged worker, one that asks for thieves     *)
(* asks for at least one and at most NWorkers.                             *)
Reads(v) ==
    /\ arg[v] \in TokenRange
    /\ pc[v] = "try" => GET_SENTINEL(arg[v]) > 1
    /\ pc[v] = "pick" => arg[v] \in 2 .. NWorkers
    /\ pc[v] = "one_sentinel" => arg[v] \in 0 .. NWorkers
    /\ pc[v] \in {"request", "notify"} => arg[v] \in 1 .. NWorkers

(* The values all threads go by.                                           *)
Reading == \A v \in Workers : Reads(v)

(* What a thief may pick as its victim is a worker.                        *)
LEMMA VictimsAreWorkers ==
    ASSUME Reading, Indexing, NEW w \in Workers, pc[w] = "pick"
    PROVE  Victims(w) \subseteq Workers
<1>1. arg[w] \in 2 .. NWorkers
  BY DEF Reading, Reads
<1>2. \A i \in 0 .. arg[w] - 1 : i \in Workers
  BY <1>1, ConstantTypes DEF Workers
<1>3. \A i \in Workers : i2w[i] \in Workers
  BY DEF Indexing
<1> QED
  BY <1>2, <1>3, Zenon DEF Victims

(* Every step keeps Region.                                                *)
LEMMA RegionStep ==
    ASSUME Shape, Labelled, Region, Indexing, Reading, Next
    PROVE  Region'
<1> USE DEF At, Goto, region, index, sleep, local, vars, Labels, HasWork,
  InUserCode, Ends, Stopping, Starting
<1>0. ASSUME NEW w \in Workers, RegionKept(w) PROVE Region'
  BY <1>0, RegionIsKept
<1>1. ASSUME NEW w \in Workers, InitFails(w) PROVE RegionKept(w)
  BY <1>1, ThievesAndBoss DEF InitFails, LoopEntry, Shape, Labelled, RegionKept
<1>2. ASSUME NEW w \in Workers, ResetFails(w) PROVE RegionKept(w)
  BY <1>2, ThievesAndBoss DEF ResetFails, ResetCount, Region, Shape, Labelled,
    RegionKept
<1>3. ASSUME NEW w \in Workers, StealLook(w) PROVE RegionKept(w)
  BY <1>3, ThievesAndBoss DEF StealLook, Region, Shape, Labelled, RegionKept
<1>4. ASSUME NEW w \in Workers, CountStealable(w) PROVE RegionKept(w)
  BY <1>4, ThievesAndBoss DEF CountStealable, Alone, Stealable, Shape,
    Labelled, RegionKept
<1>5. ASSUME NEW w \in Workers, StealSucceeds(w) PROVE Region'
  <2>1. PICK v \in Victims(w) : pc[v] \in InUserCode
    BY <1>5 DEF StealSucceeds
  <2>2. v \in Workers \ {w} /\ HasWork(v)
    BY <1>5, <2>1, VictimsAreWorkers DEF StealSucceeds, At, Victims, HasWork
  <2>3. Working
    BY <2>2, WithinRegion
  <2>4. Working'
    BY <1>5, <2>2, <2>3
       DEF StealSucceeds, At, Goto, region, index, sleep, local, Working,
           HasWork, Ends, Labelled
  <2>5. pc'[Boss] = pc[Boss] \/ pc'[Boss] = "got"
    BY <1>5, ThievesAndBoss DEF StealSucceeds, Goto, Labelled
  <2> QED
    BY <1>5, <2>2, <2>3, <2>4, <2>5, StaysWithin
      DEF StealSucceeds, region, Working, Outside, Stopping, Starting
<1>6. ASSUME NEW w \in Workers, StealFails(w) PROVE RegionKept(w)
  BY <1>6, ThievesAndBoss DEF StealFails, Capped, Shape, Labelled, RegionKept
<1>7. ASSUME NEW w \in Workers, MaybeReengage(w) PROVE RegionKept(w)
  BY <1>7, ThievesAndBoss DEF MaybeReengage, Requests, RunningOut, Sampled,
    Shape, Labelled, RegionKept
<1>8. ASSUME NEW w \in Workers, OneSentinel(w) PROVE RegionKept(w)
  BY <1>8, ThievesAndBoss DEF OneSentinel, Shape, Labelled, RegionKept
<1>9. ASSUME NEW w \in Workers, RequestMoreThieves(w) PROVE Region'
  <2>1. HasWork(w) /\ Working
    BY <1>9, WithinRegion DEF RequestMoreThieves, At, HasWork
  <2>2. Working'
    BY <1>9, <2>1
       DEF RequestMoreThieves, At, Goto, region, index, sleep, local, Working,
           HasWork, InUserCode, Ends, Labelled
  <2>3. pc'[Boss] = pc[Boss] \/ pc'[Boss] \in {"work", "notify"}
    BY <1>9, ThievesAndBoss DEF RequestMoreThieves, Goto, Labelled
  <2> QED
    BY <1>9, <2>1, <2>2, <2>3, StaysWithin
      DEF RequestMoreThieves, region, Working, Outside, Stopping, Starting
<1>10. ASSUME NEW w \in Workers, Notify(w) PROVE RegionKept(w)
  BY <1>10, ThievesAndBoss DEF Notify, NotifyOne, Shape, Labelled, RegionKept
<1>11. ASSUME NEW w \in Workers, RunOut(w) PROVE Region'
  <2>1. PICK v \in Workers \ {w} : HasWork(v)
    BY <1>11 DEF RunOut, OthersWork
  <2>2. Working
    BY <2>1, WithinRegion
  <2>3. Working'
    BY <1>11, <2>1, <2>2
       DEF RunOut, At, Goto, region, index, sleep, local, Working, HasWork,
           Ends, Labelled
  <2>4. pc'[Boss] = pc[Boss] \/ pc'[Boss] \in {"worked", "init"}
    BY <1>11, ThievesAndBoss DEF RunOut, Goto, Labelled
  <2> QED
    BY <1>11, <2>1, <2>2, <2>3, <2>4, StaysWithin
      DEF RunOut, region, Working, Outside, Stopping, Starting
<1>12. ASSUME NEW w \in Workers, DecreaseFails(w) PROVE RegionKept(w)
  BY <1>12, ThievesAndBoss DEF DecreaseFails, Shape, Labelled, RegionKept
<1>13. ASSUME NEW w \in Workers, SleepThieves(w) PROVE Region'
  <2>1. HasWork(w) /\ Working
    BY <1>13, WithinRegion DEF SleepThieves, HasWork
  <2>2. \A v \in Workers \ {w} : ~HasWork(v) /\ ~Ends(v)
    BY <1>13, <2>1 DEF SleepThieves, OthersWork, Working
  <2>3. Ending'
    BY <1>13, <2>1, <2>2
       DEF SleepThieves, At, Goto, region, index, sleep, local, Working, Ending,
           HasWork, InUserCode, Ends,
      Labelled
  <2>4. pc'[Boss] = pc[Boss] \/ pc'[Boss] = "set_done"
    BY <1>13, ThievesAndBoss DEF SleepThieves, Goto, Labelled
  <2> QED
    BY <1>13, <2>1, <2>3, <2>4, StaysWithin
      DEF SleepThieves, region, Working, Outside, Stopping, Starting
<1>14. ASSUME NEW w \in Workers, SetDone(w) PROVE Region'
  <2>1. Ends(w) /\ Ending
    BY <1>14, WithinRegion DEF SetDone, At, Ends
  <2>2. \A v \in Workers \ {w} : ~Ends(v)
    BY <2>1 DEF Ending
  <2>3. Ending'
    BY <1>14, <2>1, <2>2
       DEF SetDone, At, Goto, region, index, sleep, local, Ending, HasWork,
           InUserCode, Ends, Labelled
  <2>4. pc'[Boss] = pc[Boss] \/ pc'[Boss] = "exit"
    BY <1>14, ThievesAndBoss DEF SetDone, Goto, Labelled
  <2> QED
    BY <1>14, <2>1, <2>3, <2>4, StaysWithin
       DEF SetDone, Outside, Stopping, Starting
<1>15. ASSUME NEW w \in Workers, ExitRegion(w) PROVE Region'
  <2>1. Ends(w) /\ Ending
    BY <1>15, WithinRegion DEF ExitRegion, At, Ends
  <2>2. \A v \in Workers \ {w} : ~Ends(v)
    BY <2>1 DEF Ending
  <2>3. done /\ \A v \in Workers : ~HasWork(v)
    BY <1>15, <2>1 DEF Ending, ExitRegion, At
  <2>4. pc' = [pc EXCEPT ![w] = IF w = Boss THEN "outside" ELSE "signal"]
    BY <1>15 DEF ExitRegion, Goto
  <2>5. Idle'
    BY <2>2, <2>3, <2>4 DEF Idle, HasWork, InUserCode, Ends, Labelled
  <2>6. Over'
    BY <1>15, <2>1, <2>3, <2>5 DEF ExitRegion, Ending, Over
  <2>7. CASE w = Boss
    <3>1. pc'[Boss] = "outside"
      BY <2>4, <2>7 DEF Labelled
    <3>2. ~terminate'
      BY <1>15, <2>1, WithinRegion DEF ExitRegion, Region, Outside
    <3> QED
      BY <2>6, <3>1, <3>2 DEF Region, Over, Stopping, Starting
  <2>8. CASE w # Boss
    <3>1. pc'[Boss] = pc[Boss]
      BY <2>4, <2>8, ThievesAndBoss DEF Labelled
    <3> QED
      BY <1>15, <2>1, <2>3, <2>6, <3>1, StaysWithin DEF ExitRegion
  <2> QED
    BY <2>7, <2>8
<1>16. ASSUME NEW w \in Thieves, OuterTakeToken(w) PROVE RegionKept(w)
  BY <1>16, ThievesAndBoss DEF OuterTakeToken, TakeToken, Shape, Labelled,
    RegionKept
<1>17. ASSUME NEW w \in Thieves, OuterNoToken(w) PROVE RegionKept(w)
  BY <1>17, ThievesAndBoss DEF OuterNoToken, NoToken, Shape, Labelled,
    RegionKept
<1>18. ASSUME NEW w \in Thieves, DisengageWorker(w) PROVE RegionKept(w)
  BY <1>18, ThievesAndBoss DEF DisengageWorker, MoveOut, BeginSwap, Shape,
    Labelled, RegionKept
<1>19. ASSUME NEW w \in Thieves, DisengageSwap(w) PROVE RegionKept(w)
  BY <1>19, ThievesAndBoss DEF DisengageSwap, SwapRest, Shape, Labelled,
    RegionKept
<1>20. ASSUME NEW w \in Thieves, ThiefWake(w) PROVE RegionKept(w)
  BY <1>20, ThievesAndBoss DEF ThiefWake, Wake, TakeToken, Shape, Labelled,
    RegionKept
<1>21. ASSUME NEW w \in Thieves, ThiefSleep(w) PROVE RegionKept(w)
  BY <1>21, ThievesAndBoss DEF ThiefSleep, Sleep, MaySleep, Shape, Labelled,
    RegionKept
<1>22. ASSUME NEW w \in Thieves, ReengageWorker(w) PROVE RegionKept(w)
  BY <1>22, ThievesAndBoss DEF ReengageWorker, MoveIn, BeginSwap, Shape,
    Labelled, RegionKept
<1>23. ASSUME NEW w \in Thieves, ReengageSwap(w) PROVE RegionKept(w)
  BY <1>23, ThievesAndBoss DEF ReengageSwap, SwapRest, Shape, Labelled,
    RegionKept
<1>24. ASSUME NEW w \in Thieves, Check(w) PROVE RegionKept(w)
  BY <1>24, ThievesAndBoss DEF Check, Shape, Labelled, RegionKept
<1>25. ASSUME NEW w \in Thieves, LingerTakeToken(w) PROVE RegionKept(w)
  BY <1>25, ThievesAndBoss DEF LingerTakeToken, TakeToken, LoopEntry, Shape,
    Labelled, RegionKept
<1>26. ASSUME NEW w \in Thieves, LingerNoToken(w) PROVE RegionKept(w)
  BY <1>26, ThievesAndBoss DEF LingerNoToken, NoToken, Shape, Labelled,
    RegionKept
<1>27. ASSUME NEW w \in Thieves, Sample(w) PROVE RegionKept(w)
  BY <1>27, ThievesAndBoss DEF Sample, Sampled, Shape, Labelled, RegionKept
<1>28. ASSUME NEW w \in Thieves, MaybeDisengage(w) PROVE RegionKept(w)
  BY <1>28, ThievesAndBoss DEF MaybeDisengage, Shape, Labelled, RegionKept
<1>29. ASSUME NEW w \in Thieves, TryDisengage(w) PROVE RegionKept(w)
  BY <1>29, ThievesAndBoss DEF TryDisengage, MoveOut, BeginSwap,
    UnchangedSince, Shape, Labelled, RegionKept
<1>30. ASSUME NEW w \in Thieves, TryDisengageSwap(w) PROVE RegionKept(w)
  BY <1>30, ThievesAndBoss DEF TryDisengageSwap, SwapRest, Shape, Labelled,
    RegionKept
<1>31. ASSUME NEW w \in Thieves, TryDisengageFails(w) PROVE RegionKept(w)
  BY <1>31, ThievesAndBoss DEF TryDisengageFails, UnchangedSince, Shape,
    Labelled, RegionKept
<1>32. ASSUME NEW w \in Thieves, DisengagedWake(w) PROVE RegionKept(w)
  BY <1>32, ThievesAndBoss DEF DisengagedWake, Wake, TakeToken, Shape,
    Labelled, RegionKept
<1>33. ASSUME NEW w \in Thieves, DisengagedSleep(w) PROVE RegionKept(w)
  BY <1>33, ThievesAndBoss DEF DisengagedSleep, Sleep, MaySleep, Shape,
    Labelled, RegionKept
<1>34. ASSUME NEW w \in Thieves, ReengageThief(w) PROVE RegionKept(w)
  BY <1>34, ThievesAndBoss DEF ReengageThief, MoveIn, BeginSwap, AfterSleep,
    FailsAfterSleep, Shape, Labelled, RegionKept
<1>35. ASSUME NEW w \in Thieves, ReengageThiefSwap(w) PROVE RegionKept(w)
  BY <1>35, ThievesAndBoss DEF ReengageThiefSwap, SwapRest, AfterSleep,
    FailsAfterSleep, Shape, Labelled, RegionKept
<1>36. ASSUME NEW w \in Thieves, SignalUncilkified(w) PROVE RegionKept(w)
  BY <1>36, ThievesAndBoss DEF SignalUncilkified, AfterSignal, Shape, Labelled,
    RegionKept
<1>37. ASSUME StartRegion PROVE Region'
  <2>1. Idle'
    BY <1>37, ThievesAndBoss
       DEF StartRegion, At, Goto, region, index, sleep, local, Region, Idle,
           HasWork, InUserCode, Ends, Labelled
  <2>2. pc'[Boss] = "clear_done"
    BY <1>37, ThievesAndBoss DEF StartRegion, Goto, Labelled
  <2> QED
    BY <1>37, <2>1, <2>2 DEF StartRegion, At, Region, Stopping, Starting
<1>38. ASSUME ClearDone PROVE Region'
  <2>1. Idle'
    BY <1>38, ThievesAndBoss
       DEF ClearDone, At, Goto, region, index, sleep, local, Region, Starting,
           Idle, HasWork, InUserCode,
      Ends, Labelled
  <2>2. pc'[Boss] = "wake_thieves"
    BY <1>38, ThievesAndBoss DEF ClearDone, Goto, Labelled
  <2> QED
    BY <1>38, <2>1, <2>2 DEF ClearDone, At, Region, Stopping, Starting
<1>39. ASSUME WakeThieves PROVE Region'
  <2>1. Idle'
    BY <1>39, ThievesAndBoss
       DEF WakeThieves, At, Goto, region, index, sleep, local, Region, Starting,
           Idle, HasWork, InUserCode,
      Ends, Labelled
  <2>2. pc'[Boss] = "notify_thieves"
    BY <1>39, ThievesAndBoss DEF WakeThieves, Goto, Labelled
  <2> QED
    BY <1>39, <2>1, <2>2 DEF WakeThieves, At, region, Region, Stopping, Starting
<1>40. ASSUME NotifyThieves PROVE Region'
  <2>1. Idle /\ cilkified /\ ~done /\ ~terminate
    BY <1>40 DEF NotifyThieves, At, Region, Starting, Stopping
  <2>2. pc'[Boss] = "boss_work" /\ \A v \in Workers : ~Ends(v)'
    BY <1>40, <2>1, ThievesAndBoss DEF NotifyThieves, Idle, Ends
  <2>3. Working'
    BY <1>40, <2>1, <2>2, ThievesAndBoss
       DEF NotifyThieves, region, Working, HasWork, InUserCode
  <2> QED
    BY <1>40, <2>1, <2>2, <2>3
       DEF NotifyThieves, region, Region, Stopping, Starting
<1>41. ASSUME BossReturns PROVE Region'
  <2>1. Over /\ ~terminate
    BY <1>41
       DEF BossReturns, WaitOver, At, Region, Stopping, Starting, Working,
           Ending
  <2>2. Idle'
    BY <1>41, <2>1, ThievesAndBoss
       DEF BossReturns, At, Goto, region, index, sleep, local, Over, Idle,
           HasWork, InUserCode, Ends,
      Labelled
  <2>3. pc'[Boss] = "outside"
    BY <1>41, ThievesAndBoss DEF BossReturns, Goto, Labelled
  <2> QED
    BY <1>41, <2>1, <2>2, <2>3
       DEF BossReturns, region, Over, Region, Stopping, Starting
<1>42. ASSUME BossSleeps PROVE RegionKept(Boss)
  BY <1>42, ThievesAndBoss DEF BossSleeps, Shape, Labelled, RegionKept
<1>43. ASSUME StopWorkers PROVE Region'
  <2>1. Idle'
    BY <1>43, ThievesAndBoss
       DEF StopWorkers, At, Goto, region, index, sleep, local, Region, Stopping,
           Idle, HasWork, InUserCode, Ends,
      Labelled
  <2>2. /\ pc'[Boss] = "wake_all"
        /\ \A v \in Thieves : pc'[v] = pc[v]
    BY <1>43, ThievesAndBoss DEF StopWorkers, Goto, Labelled
  <2> QED
    BY <1>43, <2>1, <2>2 DEF StopWorkers, At, region, Region, Stopping, Starting
<1>44. ASSUME WakeAll PROVE Region'
  <2>1. Idle'
    BY <1>44, ThievesAndBoss
       DEF WakeAll, At, Goto, region, index, sleep, local, Region, Stopping,
           Idle, HasWork, InUserCode, Ends,
      Labelled
  <2>2. /\ pc'[Boss] = "notify_all"
        /\ \A v \in Thieves : pc'[v] = pc[v]
    BY <1>44, ThievesAndBoss DEF WakeAll, Goto, Labelled
  <2> QED
    BY <1>44, <2>1, <2>2 DEF WakeAll, At, region, Region, Stopping, Starting
<1>45. ASSUME NotifyAll PROVE Region'
  <2>1. Idle'
    BY <1>45, ThievesAndBoss
       DEF NotifyAll, At, Goto, region, index, sleep, local, Region, Stopping,
           Idle, HasWork, InUserCode, Ends,
      Labelled
  <2>2. /\ pc'[Boss] = "join"
        /\ \A v \in Thieves : pc'[v] = pc[v]
    BY <1>45, ThievesAndBoss DEF NotifyAll, Goto, Labelled
  <2> QED
    BY <1>45, <2>1, <2>2 DEF NotifyAll, At, region, Region, Stopping, Starting
<1>46. ASSUME Join PROVE Region'
  <2>1. Idle'
    BY <1>46, ThievesAndBoss
       DEF Join, At, Goto, region, index, sleep, local, Region, Stopping, Idle,
           HasWork, InUserCode, Ends,
      Labelled
  <2>2. /\ pc'[Boss] = "joined"
        /\ \A v \in Thieves : pc'[v] = pc[v]
    BY <1>46, ThievesAndBoss DEF Join, Goto, Labelled
  <2> QED
    BY <1>46, <2>1, <2>2 DEF Join, At, region, Region, Stopping, Starting
<1>47. ASSUME Finished PROVE Region'
  <2>1. RegionKept(Boss)
    BY <1>47, ThievesAndBoss
       DEF Finished, vars, region, At, RegionKept, HasWork, Ends
  <2> QED
    BY <2>1, ThievesAndBoss, RegionIsKept

<1> QED
  BY ThievesAndBoss, <1>0, <1>1, <1>2, <1>3, <1>4, <1>5, <1>6, <1>7, <1>8, <1>9,
    <1>10, <1>11, <1>12, <1>13, <1>14, <1>15, <1>16, <1>17, <1>18, <1>19,
    <1>20, <1>21, <1>22, <1>23, <1>24, <1>25, <1>26, <1>27, <1>28, <1>29,
    <1>30, <1>31, <1>32, <1>33, <1>34, <1>35, <1>36, <1>37, <1>38, <1>39,
    <1>40, <1>41, <1>42, <1>43, <1>44, <1>45, <1>46, <1>47, Zenon DEF Next,
    Scheduler, ThiefThread, BossThread

(* The boss has made the futex word IntMax.                                *)
Stopped == {"notify_all", "join", "joined"}

(* Where a thief has taken up to three tokens since then.                  *)
TookThree == {"exited", "check", "reengage2", "reengage"}

(* Where a thief has taken up to two tokens since then.                    *)
TookTwo == TookThree \cup {"wait", "disengage2", "disengage", "outer", "init", "reset"}

(* Where a thief has taken at least one token since then, if it has taken  *)
(* any.                                                                    *)
TookOne == TookTwo \cup {"linger", "steal", "worked", "signal", "thief_reengage",
                         "thief_reengage2"}

(* The thieves at one of the labels of L.                                  *)
ThievesIn(L) == {v \in Thieves : pc[v] \in L}

(* How many tokens of the IntMax can be gone by now: the label sets are    *)
(* nested, so every thief counts for the number of tokens it may have      *)
(* taken.                                                                  *)
Spent ==
    Cardinality(ThievesIn(TookOne)) + Cardinality(ThievesIn(TookTwo))
        + Cardinality(ThievesIn(TookThree))

(* The futex word never goes below zero and, until the end, never above    *)
(* the number of thieves; at the end it cannot be used up, for a thief     *)
(* takes at most three tokens before it sees terminate.                    *)
Budget ==
    /\ tokens >= 0
    /\ pc[Boss] \notin Stopped => tokens <= NWorkers - 1
    /\ pc[Boss] \in Stopped => tokens <= IntMax /\ tokens + Spent >= IntMax

(* How a count of ThievesIn changes with the step of one thief.            *)
LEMMA ThievesInMoves ==
    ASSUME NEW w \in Thieves, \A v \in Thieves \ {w} : pc'[v] = pc[v], NEW L
    PROVE  /\ Cardinality(ThievesIn(L)) \in 0 .. NWorkers
           /\ Cardinality(ThievesIn(L)') \in 0 .. NWorkers
           /\ (pc[w] \in L => pc'[w] \in L)
                => Cardinality(ThievesIn(L)') >= Cardinality(ThievesIn(L))
           /\ pc[w] \notin L /\ pc'[w] \in L
                => Cardinality(ThievesIn(L)') = Cardinality(ThievesIn(L)) + 1
<1> DEFINE A == ThievesIn(L)
           A1 == ThievesIn(L)'
<1>1. A \in SUBSET Workers /\ A1 \in SUBSET Workers
  BY DEF ThievesIn, Thieves
<1>2. A \ {w} = A1 \ {w}
  BY DEF ThievesIn
<1>3. (w \in A <=> pc[w] \in L) /\ (w \in A1 <=> pc'[w] \in L)
  BY DEF ThievesIn
<1> HIDE DEF A, A1
<1>4. /\ Cardinality(A) \in 0 .. NWorkers /\ Cardinality(A1) \in 0 .. NWorkers
      /\ IsFiniteSet(A) /\ IsFiniteSet(A1)
  BY <1>1, SubsetCounts
<1>5. /\ (w \in A <=> w \in A1) => Cardinality(A1) = Cardinality(A)
      /\ w \notin A /\ w \in A1 => Cardinality(A1) = Cardinality(A) + 1
  BY <1>2, <1>4, Membership
<1>6. (w \in A => w \in A1) => Cardinality(A1) >= Cardinality(A)
  BY <1>4, <1>5, ConstantTypes
<1>7. w \notin A /\ w \in A1 => Cardinality(A1) = Cardinality(A) + 1
  BY <1>5
<1> QED
  BY <1>3, <1>4, <1>6, <1>7 DEF A, A1

(* w's step does not leave L.                                              *)
Keeps(w, L) == pc[w] \in L => pc'[w] \in L

(* w's step enters L.                                                      *)
Gains(w, L) == pc[w] \notin L /\ pc'[w] \in L

(* w's step adds no token, and if it takes one at the end it accounts for  *)
(* it in Spent.                                                            *)
Pays(w) ==
    /\ \A v \in Workers \ {w} : pc'[v] = pc[v]
    /\ w = Boss => pc[Boss] \notin Stopped /\ pc'[Boss] \notin Stopped
    /\ w # Boss /\ pc[Boss] \in Stopped =>
         Keeps(w, TookOne) /\ Keeps(w, TookTwo) /\ Keeps(w, TookThree)
    /\ \/ tokens' = tokens
       \/ /\ tokens > 0 /\ tokens' = tokens - 1
          /\ w # Boss /\ pc[Boss] \in Stopped =>
               Gains(w, TookOne) \/ Gains(w, TookTwo) \/ Gains(w, TookThree)

(* Such a step keeps Budget.                                               *)
LEMMA BudgetKept ==
    ASSUME Budget, tokens \in Int, NEW w \in Workers, Pays(w)
    PROVE  Budget'
<1>1. tokens' \in Int /\ 0 <= tokens' /\ tokens' <= tokens
  BY DEF Budget, Pays
<1>2. pc'[Boss] \in Stopped <=> pc[Boss] \in Stopped
  BY ThievesAndBoss DEF Pays
<1>3. CASE pc[Boss] \notin Stopped
  BY <1>1, <1>2, <1>3, ConstantTypes DEF Budget
<1>4. CASE pc[Boss] \in Stopped
  <2>1. w # Boss /\ w \in Thieves
    BY <1>4, ThievesAndBoss DEF Pays
  <2> DEFINE a == Cardinality(ThievesIn(TookOne))
             b == Cardinality(ThievesIn(TookTwo))
             c == Cardinality(ThievesIn(TookThree))
             a1 == Cardinality(ThievesIn(TookOne)')
             b1 == Cardinality(ThievesIn(TookTwo)')
             c1 == Cardinality(ThievesIn(TookThree)')
  <2>2. \A v \in Thieves \ {w} : pc'[v] = pc[v]
    BY ThievesAndBoss DEF Pays
  <2>3. /\ a \in Int /\ a1 \in Int /\ (Keeps(w, TookOne) => a1 >= a)
        /\ (Gains(w, TookOne) => a1 = a + 1)
    BY <2>1, <2>2, ThievesInMoves DEF Keeps, Gains
  <2>4. /\ b \in Int /\ b1 \in Int /\ (Keeps(w, TookTwo) => b1 >= b)
        /\ (Gains(w, TookTwo) => b1 = b + 1)
    BY <2>1, <2>2, ThievesInMoves DEF Keeps, Gains
  <2>5. /\ c \in Int /\ c1 \in Int /\ (Keeps(w, TookThree) => c1 >= c)
        /\ (Gains(w, TookThree) => c1 = c + 1)
    BY <2>1, <2>2, ThievesInMoves DEF Keeps, Gains
  <2>6. Spent = a + b + c /\ Spent' = a1 + b1 + c1
    BY DEF Spent
  <2> HIDE DEF a, b, c, a1, b1, c1
  <2>7. tokens' + (a1 + b1 + c1) >= tokens + (a + b + c)
    BY <1>4, <2>1, <2>3, <2>4, <2>5 DEF Pays
  <2>8. tokens <= IntMax /\ tokens + (a + b + c) >= IntMax
    BY <1>4, <2>6 DEF Budget
  <2>9. tokens' <= IntMax /\ tokens' + (a1 + b1 + c1) >= IntMax
    <3>1. IntMax \in Int /\ tokens \in Int
      BY ConstantTypes
    <3>2. tokens' <= IntMax
      BY <1>1, <2>8, <3>1
    <3>3. a \in Int /\ b \in Int /\ c \in Int /\ a1 \in Int /\ b1 \in Int /\ c1 \in Int
      BY <2>3, <2>4, <2>5
    <3>4. tokens' + (a1 + b1 + c1) >= IntMax
      <4> DEFINE x == tokens + (a + b + c)
                 y == tokens' + (a1 + b1 + c1)
      <4>1. x \in Int /\ y \in Int
        BY <1>1, <3>1, <3>3
      <4>2. y >= x /\ x >= IntMax
        BY <2>7, <2>8
      <4> HIDE DEF x, y
      <4>3. y >= IntMax
        BY <3>1, <4>1, <4>2
      <4> QED
        BY <4>3 DEF y
    <3> QED
      BY <3>2, <3>4
  <2> QED
    BY <1>1, <1>2, <1>4, <2>6, <2>9 DEF Budget
<1> QED
  BY <1>3, <1>4

(* Every step keeps Budget.                                                *)
LEMMA BudgetStep ==
    ASSUME Shape, Labelled, Region, Budget, Reading, Next
    PROVE  Budget'
<1>s. pc[Boss] \in Stopped =>
        /\ terminate
        /\ \A v \in Thieves : pc[v] = "unborn" \/ done
        /\ \A v \in Workers : ~HasWork(v) /\ ~Ends(v)
  BY DEF Stopped, Region, Stopping, Idle
<1>t. tokens \in Int /\ NWorkers \in Int /\ NWorkers >= 1
  BY ConstantTypes DEF Shape
<1> USE DEF At, Goto, region, index, sleep, local, vars, Labels, Keeps, Gains,
  Stopped, TookOne, TookTwo, TookThree
<1>0. ASSUME NEW w \in Workers, Pays(w) PROVE Budget'
  BY <1>0, <1>t, BudgetKept
<1>1. ASSUME NEW w \in Workers, InitFails(w) PROVE Pays(w)
  BY <1>1, <1>s, ThievesAndBoss DEF InitFails, LoopEntry, Labelled, Pays
<1>2. ASSUME NEW w \in Workers, ResetFails(w) PROVE Pays(w)
  BY <1>2, ThievesAndBoss DEF ResetFails, ResetCount, Labelled, Pays
<1>3. ASSUME NEW w \in Workers, StealLook(w) PROVE Pays(w)
  BY <1>3, <1>s, ThievesAndBoss DEF StealLook, Labelled, Pays
<1>4. ASSUME NEW w \in Workers, CountStealable(w) PROVE Pays(w)
  BY <1>4, ThievesAndBoss DEF CountStealable, Alone, Stealable, Labelled, Pays
<1>5. ASSUME NEW w \in Workers, StealSucceeds(w) PROVE Pays(w)
  BY <1>5, ThievesAndBoss DEF StealSucceeds, Victims, InUserCode, Labelled,
    Pays
<1>6. ASSUME NEW w \in Workers, StealFails(w) PROVE Pays(w)
  BY <1>6, ThievesAndBoss DEF StealFails, Capped, Labelled, Pays
<1>7. ASSUME NEW w \in Workers, MaybeReengage(w) PROVE Pays(w)
  BY <1>7, ThievesAndBoss DEF MaybeReengage, Requests, RunningOut, Sampled,
    Labelled, Pays
<1>8. ASSUME NEW w \in Workers, OneSentinel(w) PROVE Pays(w)
  BY <1>8, ThievesAndBoss DEF OneSentinel, Labelled, Pays
<1>9. ASSUME NEW w \in Workers, RequestMoreThieves(w) PROVE Budget'
  <2>1. pc[Boss] \notin Stopped
    BY <1>9, <1>s DEF RequestMoreThieves, At, HasWork
  <2>2. pc'[Boss] \notin Stopped
    BY <1>9, <2>1, ThievesAndBoss
       DEF RequestMoreThieves, Goto, Labelled, Stopped
  <2>3. arg[w] \in 1 .. NWorkers
    BY <1>9 DEF RequestMoreThieves, At, Reading, Reads
  <2>4. tokens' \in 0 .. NWorkers - 1
    BY <1>9, <1>t, <2>1, <2>3 DEF RequestMoreThieves, ToWake, Budget
  <2> QED
    BY <1>t, <2>2, <2>4 DEF Budget
<1>10. ASSUME NEW w \in Workers, Notify(w) PROVE Pays(w)
  BY <1>10, ThievesAndBoss DEF Notify, NotifyOne, Labelled, Pays
<1>11. ASSUME NEW w \in Workers, RunOut(w) PROVE Pays(w)
  BY <1>11, ThievesAndBoss DEF RunOut, InUserCode, OthersWork, Labelled, Pays
<1>12. ASSUME NEW w \in Workers, DecreaseFails(w) PROVE Pays(w)
  BY <1>12, ThievesAndBoss DEF DecreaseFails, Labelled, Pays
<1>13. ASSUME NEW w \in Workers, SleepThieves(w) PROVE Budget'
  <2>1. pc[Boss] \notin Stopped
    BY <1>13, <1>s DEF SleepThieves, HasWork
  <2>2. pc'[Boss] \notin Stopped
    BY <1>13, <2>1, ThievesAndBoss DEF SleepThieves, Goto, Labelled, Stopped
  <2> QED
    BY <1>13, <1>t, <2>2 DEF SleepThieves, Budget
<1>14. ASSUME NEW w \in Workers, SetDone(w) PROVE Pays(w)
  BY <1>14, ThievesAndBoss DEF SetDone, Labelled, Pays
<1>15. ASSUME NEW w \in Workers, ExitRegion(w) PROVE Pays(w)
  BY <1>15, ThievesAndBoss DEF ExitRegion, Labelled, Pays
<1>16. ASSUME NEW w \in Thieves, OuterTakeToken(w) PROVE Pays(w)
  BY <1>16, ThievesAndBoss DEF OuterTakeToken, TakeToken, Labelled, Pays
<1>17. ASSUME NEW w \in Thieves, OuterNoToken(w) PROVE Pays(w)
  BY <1>17, ThievesAndBoss DEF OuterNoToken, NoToken, Labelled, Pays
<1>18. ASSUME NEW w \in Thieves, DisengageWorker(w) PROVE Pays(w)
  BY <1>18, ThievesAndBoss DEF DisengageWorker, MoveOut, BeginSwap, Labelled,
    Pays
<1>19. ASSUME NEW w \in Thieves, DisengageSwap(w) PROVE Pays(w)
  BY <1>19, ThievesAndBoss DEF DisengageSwap, SwapRest, Labelled, Pays
<1>20. ASSUME NEW w \in Thieves, ThiefWake(w) PROVE Pays(w)
  BY <1>20, ThievesAndBoss DEF ThiefWake, Wake, TakeToken, Labelled, Pays
<1>21. ASSUME NEW w \in Thieves, ThiefSleep(w) PROVE Pays(w)
  BY <1>21, ThievesAndBoss DEF ThiefSleep, Sleep, MaySleep, Labelled, Pays
<1>22. ASSUME NEW w \in Thieves, ReengageWorker(w) PROVE Pays(w)
  BY <1>22, ThievesAndBoss DEF ReengageWorker, MoveIn, BeginSwap, Labelled,
    Pays
<1>23. ASSUME NEW w \in Thieves, ReengageSwap(w) PROVE Pays(w)
  BY <1>23, ThievesAndBoss DEF ReengageSwap, SwapRest, Labelled, Pays
<1>24. ASSUME NEW w \in Thieves, Check(w) PROVE Pays(w)
  BY <1>24, <1>s, ThievesAndBoss DEF Check, Labelled, Pays
<1>25. ASSUME NEW w \in Thieves, LingerTakeToken(w) PROVE Pays(w)
  BY <1>25, <1>s, ThievesAndBoss DEF LingerTakeToken, TakeToken, LoopEntry,
    Labelled, Pays
<1>26. ASSUME NEW w \in Thieves, LingerNoToken(w) PROVE Pays(w)
  BY <1>26, ThievesAndBoss DEF LingerNoToken, NoToken, Labelled, Pays
<1>27. ASSUME NEW w \in Thieves, Sample(w) PROVE Pays(w)
  BY <1>27, ThievesAndBoss DEF Sample, Sampled, Labelled, Pays
<1>28. ASSUME NEW w \in Thieves, MaybeDisengage(w) PROVE Pays(w)
  BY <1>28, ThievesAndBoss DEF MaybeDisengage, Labelled, Pays
<1>29. ASSUME NEW w \in Thieves, TryDisengage(w) PROVE Pays(w)
  BY <1>29, ThievesAndBoss DEF TryDisengage, MoveOut, BeginSwap,
    UnchangedSince, Labelled, Pays
<1>30. ASSUME NEW w \in Thieves, TryDisengageSwap(w) PROVE Pays(w)
  BY <1>30, ThievesAndBoss DEF TryDisengageSwap, SwapRest, Labelled, Pays
<1>31. ASSUME NEW w \in Thieves, TryDisengageFails(w) PROVE Pays(w)
  BY <1>31, ThievesAndBoss DEF TryDisengageFails, UnchangedSince, Labelled,
    Pays
<1>32. ASSUME NEW w \in Thieves, DisengagedWake(w) PROVE Pays(w)
  BY <1>32, ThievesAndBoss DEF DisengagedWake, Wake, TakeToken, Labelled, Pays
<1>33. ASSUME NEW w \in Thieves, DisengagedSleep(w) PROVE Pays(w)
  BY <1>33, ThievesAndBoss DEF DisengagedSleep, Sleep, MaySleep, Labelled, Pays
<1>34. ASSUME NEW w \in Thieves, ReengageThief(w) PROVE Pays(w)
  BY <1>34, ThievesAndBoss DEF ReengageThief, MoveIn, BeginSwap, AfterSleep,
    FailsAfterSleep, Labelled, Pays
<1>35. ASSUME NEW w \in Thieves, ReengageThiefSwap(w) PROVE Pays(w)
  BY <1>35, ThievesAndBoss DEF ReengageThiefSwap, SwapRest, AfterSleep,
    FailsAfterSleep, Labelled, Pays
<1>36. ASSUME NEW w \in Thieves, SignalUncilkified(w) PROVE Pays(w)
  BY <1>36, ThievesAndBoss DEF SignalUncilkified, AfterSignal, Labelled, Pays
<1>37. ASSUME StartRegion PROVE Pays(Boss)
  BY <1>37, ThievesAndBoss DEF StartRegion, Labelled, Pays
<1>38. ASSUME ClearDone PROVE Pays(Boss)
  BY <1>38, ThievesAndBoss DEF ClearDone, Labelled, Pays
<1>39. ASSUME WakeThieves PROVE Budget'
  <2>1. pc'[Boss] \notin Stopped
    BY <1>39, ThievesAndBoss DEF WakeThieves, Goto, Labelled, Stopped
  <2> QED
    BY <1>39, <1>t, <2>1 DEF WakeThieves, Budget
<1>40. ASSUME NotifyThieves PROVE Budget'
  <2>1. pc'[Boss] \notin Stopped /\ pc[Boss] \notin Stopped
    BY <1>40, ThievesAndBoss DEF NotifyThieves, At, Stopped
  <2> QED
    BY <1>40, <1>t, <2>1 DEF NotifyThieves, Budget
<1>41. ASSUME BossReturns PROVE Pays(Boss)
  BY <1>41, ThievesAndBoss DEF BossReturns, WaitOver, Labelled, Pays
<1>42. ASSUME BossSleeps PROVE Pays(Boss)
  BY <1>42, ThievesAndBoss DEF BossSleeps, Labelled, Pays
<1>43. ASSUME StopWorkers PROVE Pays(Boss)
  BY <1>43, ThievesAndBoss DEF StopWorkers, Labelled, Pays
<1>44. ASSUME WakeAll PROVE Budget'
  <2> DEFINE N(L) == Cardinality(ThievesIn(L)')
  <2>1. ASSUME NEW L PROVE N(L) \in Nat
    <3>1. ThievesIn(L)' \in SUBSET Workers
      BY DEF ThievesIn, Thieves
    <3> QED
      BY <3>1, SubsetCounts
  <2>2. Spent' = N(TookOne) + N(TookTwo) + N(TookThree)
    BY DEF Spent
  <2>3. N(TookOne) \in Nat /\ N(TookTwo) \in Nat /\ N(TookThree) \in Nat
    BY <2>1
  <2> HIDE DEF N
  <2>4. pc'[Boss] \in Stopped /\ tokens' = IntMax
    BY <1>44, ThievesAndBoss DEF WakeAll, TokensToExit, Goto, Labelled, Stopped
  <2> QED
    BY <2>2, <2>3, <2>4, ConstantTypes DEF Budget
<1>45. ASSUME NotifyAll PROVE Budget'
  <2>1. pc[Boss] \in Stopped /\ pc'[Boss] \in Stopped /\ \A v \in Thieves : pc'[v] = pc[v]
    BY <1>45, ThievesAndBoss DEF NotifyAll, At, Goto, Labelled, Stopped
  <2>2. Spent' = Spent
    BY <2>1 DEF Spent, ThievesIn
  <2> QED
    BY <1>45, <2>1, <2>2 DEF NotifyAll, Budget
<1>46. ASSUME Join PROVE Budget'
  <2>1. pc[Boss] \in Stopped /\ pc'[Boss] \in Stopped /\ \A v \in Thieves : pc'[v] = pc[v]
    BY <1>46, ThievesAndBoss DEF Join, At, Goto, Labelled, Stopped
  <2>2. Spent' = Spent
    BY <2>1 DEF Spent, ThievesIn
  <2> QED
    BY <1>46, <2>1, <2>2 DEF Join, Budget
<1>47. ASSUME Finished PROVE Budget'
  BY <1>47
     DEF Finished, region, index, sleep, local, vars, Budget, Spent, ThievesIn

<1> QED
  BY ThievesAndBoss, <1>0, <1>1, <1>2, <1>3, <1>4, <1>5, <1>6, <1>7, <1>8, <1>9,
    <1>10, <1>11, <1>12, <1>13, <1>14, <1>15, <1>16, <1>17, <1>18, <1>19,
    <1>20, <1>21, <1>22, <1>23, <1>24, <1>25, <1>26, <1>27, <1>28, <1>29,
    <1>30, <1>31, <1>32, <1>33, <1>34, <1>35, <1>36, <1>37, <1>38, <1>39,
    <1>40, <1>41, <1>42, <1>43, <1>44, <1>45, <1>46, <1>47, Zenon DEF Next,
    Scheduler, ThiefThread, BossThread

(* What the macros of the word read off two disjoint sets of workers; they *)
(* count nobody twice, so Active is not negative.                          *)
LEMMA CountsAreExact ==
    ASSUME NEW A \in SUBSET Workers, NEW B \in SUBSET Workers, A \cap B = {}
    PROVE  /\ GET_DISENGAGED(Packed(A, B)) = Cardinality(A)
           /\ GET_SENTINEL(Packed(A, B)) = Cardinality(B)
           /\ Active(Packed(A, B)) \in 0 .. NWorkers
           /\ Packed(A, B) \in 0 .. HalfWord * HalfWord - 1
<1> DEFINE a == Cardinality(A)
           b == Cardinality(B)
<1>1. a \in 0 .. NWorkers /\ b \in 0 .. NWorkers /\ IsFiniteSet(A) /\ IsFiniteSet(B)
  BY SubsetCounts
<1>2. Packed(A, B) = a * HalfWord + b
  BY DEF Packed
<1>3. a + b <= NWorkers
  <2>1. Cardinality(A \cup B) = a + b - Cardinality({})
    BY <1>1, FS_Union, Zenon
  <2>2. Cardinality({}) = 0 /\ Cardinality(A \cup B) \in 0 .. NWorkers
    BY FS_EmptySet, SubsetCounts
  <2> QED
    BY <1>1, <2>1, <2>2, ConstantTypes
<1> HIDE DEF a, b
<1>4. /\ GET_DISENGAGED(Packed(A, B)) = a /\ GET_SENTINEL(Packed(A, B)) = b
      /\ Packed(A, B) \in 0 .. HalfWord * HalfWord - 1
  BY <1>1, <1>2, Unpacked
<1>5. NWorkers - a - b \in 0 .. NWorkers
  BY <1>1, <1>3, ConstantTypes
<1> QED
  BY <1>4, <1>5 DEF a, b, Active

(* What a read of the word or of the futex returns in a state of the       *)
(* invariant.                                                              *)
LEMMA Ranges ==
    ASSUME Shape, Labelled, Counting, Budget
    PROVE  /\ \A n \in 0 .. NWorkers : n \in TokenRange
           /\ tokens \in TokenCounts /\ tokens \in TokenRange
           /\ ds \in TokenRange /\ ds \in 0 .. HalfWord * HalfWord - 1
           /\ GET_SENTINEL(ds) = Cardinality(Sentinels)
           /\ GET_DISENGAGED(ds) = Cardinality(Disengaged)
           /\ Stealable(ds) = Engaged /\ Engaged \in 1 .. NWorkers
           /\ Active(ds) \in 0 .. NWorkers
<1>1. /\ Disengaged \in SUBSET Workers /\ Sentinels \in SUBSET Workers
      /\ Disengaged \cap Sentinels = {}
  BY DEF Disengaged, Sentinels, At, LoopPcs, WaitingPcs
<1>2. /\ GET_DISENGAGED(ds) = Cardinality(Disengaged)
      /\ GET_SENTINEL(ds) = Cardinality(Sentinels)
      /\ Active(ds) \in 0 .. NWorkers
      /\ ds \in 0 .. HalfWord * HalfWord - 1
  BY <1>1, CountsAreExact DEF Counting
<1>3. 0 .. NWorkers \subseteq TokenRange
  <2>1. NWorkers <= HalfWord * HalfWord - 1
    <3>1. HalfWord - 1 \in Nat /\ HalfWord - 1 >= NWorkers
      BY ConstantTypes
    <3>2. HalfWord * HalfWord - 1 = HalfWord * (HalfWord - 1) + (HalfWord - 1)
      BY ConstantTypes, SMT
    <3>3. HalfWord * (HalfWord - 1) \in Nat
      BY <3>1, ConstantTypes, SMT
    <3> QED
      BY <3>1, <3>2, <3>3, ConstantTypes
  <2>2. HalfWord * HalfWord - 1 \in Int
    BY ConstantTypes
  <2> QED
    BY <2>1, <2>2, ConstantTypes DEF TokenRange
<1>4. tokens \in TokenCounts
  <2> DEFINE N(L) == Cardinality(ThievesIn(L))
  <2>1. ASSUME NEW L PROVE N(L) \in 0 .. NWorkers
    <3>1. ThievesIn(L) \in SUBSET Workers
      BY DEF ThievesIn, Thieves
    <3> QED
      BY <3>1, SubsetCounts
  <2>2. Spent = N(TookOne) + N(TookTwo) + N(TookThree)
    BY DEF Spent
  <2>3. N(TookOne) \in 0 .. NWorkers /\ N(TookTwo) \in 0 .. NWorkers
        /\ N(TookThree) \in 0 .. NWorkers
    BY <2>1
  <2> HIDE DEF N
  <2>4. Spent \in Int /\ Spent <= 3 * NWorkers
    BY <2>2, <2>3, ConstantTypes
  <2>5. CASE pc[Boss] \in Stopped
    BY <2>4, <2>5, ConstantTypes DEF Budget, Shape, TokenCounts
  <2>6. CASE pc[Boss] \notin Stopped
    BY <2>6, ConstantTypes DEF Budget, Shape, TokenCounts
  <2> QED
    BY <2>5, <2>6
<1>5. Stealable(ds) = Engaged /\ Engaged \in 1 .. NWorkers
  <2>1. Boss \in Workers \ Disengaged
    BY ThievesAndBoss
       DEF Disengaged, Labelled, BossLabels, WorkPcs, BossPcs, WaitingPcs
  <2>2. Disengaged \in SUBSET (Workers \ {Boss})
    BY <1>1, <2>1
  <2>3. /\ IsFiniteSet(Workers \ {Boss})
        /\ Cardinality(Workers \ {Boss}) = NWorkers - 1
    BY ThievesAndBoss, Domains, FS_RemoveElement
  <2>4. Cardinality(Disengaged) <= NWorkers - 1
    BY <2>2, <2>3, FS_Subset
  <2>5. Cardinality(Disengaged) \in 0 .. NWorkers
    BY <1>1, SubsetCounts
  <2> QED
    BY <1>2, <2>4, <2>5, ConstantTypes DEF Stealable, Engaged
<1>6. tokens \in TokenRange /\ ds \in TokenRange
  BY <1>2, <1>4 DEF TokenRange
<1> QED
  BY <1>2, <1>3, <1>4, <1>5, <1>6

(* Every step keeps Reading: a read is in range when it is made, and the   *)
(* thread that made it does not change what it read.                       *)
LEMMA ReadingStep ==
    ASSUME Shape, Labelled, Counting, Counting', Budget, Reading, Next
    PROVE  Reading'
<1>n. NWorkers \in Int /\ NWorkers >= 1
  BY ConstantTypes
<1>r. 0 \in TokenRange
  BY <1>n, Ranges
<1> USE DEF At, Goto, region, index, sleep, local, vars, Labels
<1>1. ASSUME NEW w \in Workers, InitFails(w) PROVE Reading'
  BY <1>1, ThievesAndBoss, <1>r DEF InitFails, LoopEntry, Shape, Labelled,
    Reading, Reads
<1>2. ASSUME NEW w \in Workers, ResetFails(w) PROVE Reading'
  BY <1>2, ThievesAndBoss, <1>r DEF ResetFails, ResetCount, Shape, Labelled,
    Reading, Reads
<1>3. ASSUME NEW w \in Workers, StealLook(w) PROVE Reading'
  BY <1>3, ThievesAndBoss, <1>r DEF StealLook, Shape, Labelled, Reading, Reads
<1>4. ASSUME NEW w \in Workers, CountStealable(w) PROVE Reading'
  <2>1. /\ Stealable(ds) \in 1 .. NWorkers
        /\ ~Alone(Stealable(ds)) => Stealable(ds) \in 2 .. NWorkers
        /\ Stealable(ds) \in TokenRange
    BY <1>n, Ranges DEF Alone
  <2> QED
    BY <1>4, <2>1 DEF CountStealable, At, Goto, Shape, Labelled, Reading, Reads
<1>5. ASSUME NEW w \in Workers, StealSucceeds(w) PROVE Reading'
  BY <1>5, ThievesAndBoss, <1>r DEF StealSucceeds, Victims, InUserCode, Shape,
    Labelled, Reading, Reads
<1>6. ASSUME NEW w \in Workers, StealFails(w) PROVE Reading'
  BY <1>6, ThievesAndBoss, <1>r DEF StealFails, Capped, Shape, Labelled,
    Reading, Reads
<1>7. ASSUME NEW w \in Workers, MaybeReengage(w) PROVE Reading'
  <2>1. \A n \in 0 .. NWorkers : n \in TokenRange
    BY Ranges
  <2>2. Active(ds') \in 0 .. NWorkers
    <3>1. /\ Disengaged' \in SUBSET Workers /\ Sentinels' \in SUBSET Workers
          /\ Disengaged' \cap Sentinels' = {}
      BY DEF Disengaged, Sentinels, At, LoopPcs, WaitingPcs
    <3> QED
      BY <3>1, CountsAreExact DEF Counting
  <2>3. NWorkers \div 2 \in 0 .. NWorkers
    BY <1>n
  <2>4. \A r \in Requests(w, ds') : r.n \in 0 .. NWorkers
    BY <1>n, <2>3 DEF Requests
  <2>5. \A r \in Requests(w, ds') : r.n > 0 => r.n \in 1 .. NWorkers
    BY <1>n, <2>4
  <2>6. ASSUME NEW v \in Workers \ {w} PROVE Reads(v)'
    BY <1>7, <2>6
       DEF MaybeReengage, Goto, local, Shape, Labelled, Reading, Reads
  <2>7. Reads(w)'
    <3>1. CASE fails[w] < SENTINEL_THRESHOLD
      BY <1>7, <3>1
         DEF MaybeReengage, Goto, local, Shape, Labelled, Reading, Reads
    <3>2. CASE ~(fails[w] < SENTINEL_THRESHOLD)
      <4>1. PICK r \in Requests(w, ds') :
              IF r.n = 0 /\ RunningOut(ds')
              THEN Goto(w, "one_sentinel") /\ arg' = [arg EXCEPT ![w] = Active(ds')]
              ELSE /\ Goto(w, IF r.n > 0 THEN "request" ELSE "work")
                   /\ arg' = [arg EXCEPT ![w] = r.n]
        BY <1>7, <3>2 DEF MaybeReengage
      <4>2. r.n \in 0 .. NWorkers /\ (r.n > 0 => r.n \in 1 .. NWorkers)
        BY <2>4, <2>5
      <4> DEFINE n == r.n
      <4> HIDE DEF n
      <4>3. CASE n = 0 /\ RunningOut(ds')
        <5>1. pc'[w] = "one_sentinel" /\ arg'[w] = Active(ds')
          BY <4>1, <4>3 DEF n, Goto, Shape, Labelled
        <5> QED
          BY <2>1, <2>2, <5>1 DEF Reads
      <4>4. CASE ~(n = 0 /\ RunningOut(ds'))
        <5>1. pc'[w] = (IF n > 0 THEN "request" ELSE "work") /\ arg'[w] = n
          BY <4>1, <4>4 DEF n, Goto, Shape, Labelled
        <5>2. n \in 0 .. NWorkers /\ (n > 0 => n \in 1 .. NWorkers)
          BY <4>2 DEF n
        <5> QED
          BY <2>1, <5>1, <5>2 DEF Reads
      <4> QED
        BY <4>3, <4>4
    <3> QED
      BY <3>1, <3>2
  <2> QED
    BY <2>6, <2>7 DEF Reading
<1>8. ASSUME NEW w \in Workers, OneSentinel(w) PROVE Reading'
  <2> DEFINE wanted == (arg[w] + 3) \div 4
  <2>1. arg[w] \in 0 .. NWorkers /\ tokens \in Int /\ tokens >= 0
    BY <1>8 DEF OneSentinel, At, Shape, Reading, Reads, Budget
  <2>2. tokens < wanted => wanted - tokens \in 1 .. NWorkers
    BY <1>n, <2>1
  <2>3. tokens < wanted => wanted - tokens \in TokenRange
    BY <1>n, <2>2, Ranges
  <2> QED
    <3> HIDE DEF wanted
    <3>1. /\ pc' = [pc EXCEPT ![w] = IF tokens < wanted THEN "request" ELSE "work"]
          /\ arg' = [arg EXCEPT ![w] = IF tokens < wanted THEN wanted - tokens ELSE 0]
      BY <1>8 DEF OneSentinel, wanted, Goto
    <3> QED
      BY <1>r, <2>2, <2>3, <3>1 DEF Shape, Labelled, Reading, Reads
<1>9. ASSUME NEW w \in Workers, RequestMoreThieves(w) PROVE Reading'
  <2> DEFINE room == NWorkers \div 2 - tokens
             more == ToWake(room, arg[w])
  <2>1. arg[w] \in 1 .. NWorkers /\ tokens \in Int /\ tokens >= 0
    BY <1>9 DEF RequestMoreThieves, At, Shape, Reading, Reads, Budget
  <2>2. ~(room <= 0) => more \in 1 .. NWorkers
    BY <1>n, <2>1 DEF ToWake
  <2>3. ~(room <= 0) => more \in TokenRange
    BY <1>n, <2>2, Ranges
  <2> QED
    <3> HIDE DEF room, more
    <3>1. /\ pc' = [pc EXCEPT ![w] = IF room <= 0 THEN "work" ELSE "notify"]
          /\ arg' = [arg EXCEPT ![w] = IF room <= 0 THEN 0 ELSE more]
      BY <1>9 DEF RequestMoreThieves, room, more, Goto
    <3> QED
      BY <1>r, <2>2, <2>3, <3>1 DEF Shape, Labelled, Reading, Reads
<1>10. ASSUME NEW w \in Workers, Notify(w) PROVE Reading'
  <2> DEFINE n == IF arg[w] > 3 THEN 0 ELSE arg[w] - 1
  <2>1. arg[w] \in 1 .. NWorkers
    BY <1>10 DEF Notify, At, Reading, Reads
  <2>2. n \in 0 .. NWorkers /\ (n # 0 => n \in 1 .. NWorkers)
    BY <1>n, <2>1
  <2>3. n \in TokenRange
    BY <2>2, Ranges
  <2> QED
    <3> HIDE DEF n
    <3>1. /\ arg' = [arg EXCEPT ![w] = n]
          /\ pc' = [pc EXCEPT ![w] = IF n = 0 THEN "work" ELSE "notify"]
      BY <1>10 DEF Notify, n, Goto, Shape
    <3> QED
      BY <2>2, <2>3, <3>1 DEF Shape, Labelled, Reading, Reads
<1>11. ASSUME NEW w \in Workers, RunOut(w) PROVE Reading'
  BY <1>11, ThievesAndBoss, <1>r DEF RunOut, InUserCode, OthersWork, Shape,
    Labelled, Reading, Reads
<1>12. ASSUME NEW w \in Workers, DecreaseFails(w) PROVE Reading'
  BY <1>12, ThievesAndBoss, <1>r DEF DecreaseFails, Shape, Labelled, Reading,
    Reads
<1>13. ASSUME NEW w \in Workers, SleepThieves(w) PROVE Reading'
  BY <1>13, ThievesAndBoss, <1>r DEF SleepThieves, InUserCode, OthersWork,
    Shape, Labelled, Reading, Reads
<1>14. ASSUME NEW w \in Workers, SetDone(w) PROVE Reading'
  BY <1>14, ThievesAndBoss, <1>r DEF SetDone, Shape, Labelled, Reading, Reads
<1>15. ASSUME NEW w \in Workers, ExitRegion(w) PROVE Reading'
  BY <1>15, ThievesAndBoss, <1>r DEF ExitRegion, Shape, Labelled, Reading,
    Reads
<1>16. ASSUME NEW w \in Thieves, OuterTakeToken(w) PROVE Reading'
  <2>1. NWorkers \in TokenRange
    BY <1>n, Ranges
  <2> QED
    BY <1>16, <2>1
       DEF OuterTakeToken, TakeToken, Goto, Shape, Labelled, Reading, Reads
<1>17. ASSUME NEW w \in Thieves, OuterNoToken(w) PROVE Reading'
  BY <1>17, ThievesAndBoss, <1>r DEF OuterNoToken, NoToken, Shape, Labelled,
    Reading, Reads
<1>18. ASSUME NEW w \in Thieves, DisengageWorker(w) PROVE Reading'
  BY <1>18, ThievesAndBoss, <1>r DEF DisengageWorker, MoveOut, BeginSwap,
    Shape, Labelled, Reading, Reads
<1>19. ASSUME NEW w \in Thieves, DisengageSwap(w) PROVE Reading'
  BY <1>19, ThievesAndBoss, <1>r DEF DisengageSwap, SwapRest, Shape, Labelled,
    Reading, Reads
<1>20. ASSUME NEW w \in Thieves, ThiefWake(w) PROVE Reading'
  <2>1. tokens \in TokenRange
    BY Ranges
  <2> QED
    BY <1>20, <2>1
       DEF ThiefWake, Wake, TakeToken, Goto, Shape, Labelled, Reading, Reads
<1>21. ASSUME NEW w \in Thieves, ThiefSleep(w) PROVE Reading'
  BY <1>21, ThievesAndBoss, <1>r DEF ThiefSleep, Sleep, MaySleep, Shape,
    Labelled, Reading, Reads
<1>22. ASSUME NEW w \in Thieves, ReengageWorker(w) PROVE Reading'
  BY <1>22, ThievesAndBoss, <1>r DEF ReengageWorker, MoveIn, BeginSwap, Shape,
    Labelled, Reading, Reads
<1>23. ASSUME NEW w \in Thieves, ReengageSwap(w) PROVE Reading'
  BY <1>23, ThievesAndBoss, <1>r DEF ReengageSwap, SwapRest, Shape, Labelled,
    Reading, Reads
<1>24. ASSUME NEW w \in Thieves, Check(w) PROVE Reading'
  BY <1>24, ThievesAndBoss, <1>r DEF Check, Shape, Labelled, Reading, Reads
<1>25. ASSUME NEW w \in Thieves, LingerTakeToken(w) PROVE Reading'
  BY <1>25, ThievesAndBoss, <1>r DEF LingerTakeToken, TakeToken, LoopEntry,
    Shape, Labelled, Reading, Reads
<1>26. ASSUME NEW w \in Thieves, LingerNoToken(w) PROVE Reading'
  BY <1>26, ThievesAndBoss, <1>r DEF LingerNoToken, NoToken, Shape, Labelled,
    Reading, Reads
<1>27. ASSUME NEW w \in Thieves, Sample(w) PROVE Reading'
  BY <1>27, ThievesAndBoss, <1>r DEF Sample, Sampled, Shape, Labelled, Reading,
    Reads
<1>28. ASSUME NEW w \in Thieves, MaybeDisengage(w) PROVE Reading'
  <2>1. ds \in TokenRange
    BY Ranges
  <2>2. IsInefficient(ds) => GET_SENTINEL(ds) > 1
    BY DEF IsInefficient
  <2> QED
    BY <1>28, <2>1, <2>2
       DEF MaybeDisengage, At, Goto, Shape, Labelled, Reading, Reads
<1>29. ASSUME NEW w \in Thieves, TryDisengage(w) PROVE Reading'
  BY <1>29, ThievesAndBoss, <1>r DEF TryDisengage, MoveOut, BeginSwap,
    UnchangedSince, Shape, Labelled, Reading, Reads
<1>30. ASSUME NEW w \in Thieves, TryDisengageSwap(w) PROVE Reading'
  BY <1>30, ThievesAndBoss, <1>r DEF TryDisengageSwap, SwapRest, Shape,
    Labelled, Reading, Reads
<1>31. ASSUME NEW w \in Thieves, TryDisengageFails(w) PROVE Reading'
  BY <1>31, ThievesAndBoss, <1>r DEF TryDisengageFails, UnchangedSince, Shape,
    Labelled, Reading, Reads
<1>32. ASSUME NEW w \in Thieves, DisengagedWake(w) PROVE Reading'
  BY <1>32, ThievesAndBoss, <1>r DEF DisengagedWake, Wake, TakeToken, Shape,
    Labelled, Reading, Reads
<1>33. ASSUME NEW w \in Thieves, DisengagedSleep(w) PROVE Reading'
  BY <1>33, ThievesAndBoss, <1>r DEF DisengagedSleep, Sleep, MaySleep, Shape,
    Labelled, Reading, Reads
<1>34. ASSUME NEW w \in Thieves, ReengageThief(w) PROVE Reading'
  BY <1>34, ThievesAndBoss, <1>r DEF ReengageThief, MoveIn, BeginSwap,
    AfterSleep, FailsAfterSleep, Shape, Labelled, Reading, Reads
<1>35. ASSUME NEW w \in Thieves, ReengageThiefSwap(w) PROVE Reading'
  BY <1>35, ThievesAndBoss, <1>r DEF ReengageThiefSwap, SwapRest, AfterSleep,
    FailsAfterSleep, Shape, Labelled, Reading, Reads
<1>36. ASSUME NEW w \in Thieves, SignalUncilkified(w) PROVE Reading'
  BY <1>36, ThievesAndBoss, <1>r DEF SignalUncilkified, AfterSignal, Shape,
    Labelled, Reading, Reads
<1>37. ASSUME StartRegion PROVE Reading'
  BY <1>37, ThievesAndBoss, <1>r DEF StartRegion, Shape, Labelled, Reading,
    Reads
<1>38. ASSUME ClearDone PROVE Reading'
  BY <1>38, ThievesAndBoss, <1>r DEF ClearDone, Shape, Labelled, Reading, Reads
<1>39. ASSUME WakeThieves PROVE Reading'
  BY <1>39, ThievesAndBoss, <1>r DEF WakeThieves, Shape, Labelled, Reading,
    Reads
<1>40. ASSUME NotifyThieves PROVE Reading'
  BY <1>40, ThievesAndBoss, <1>r DEF NotifyThieves, Shape, Labelled, Reading,
    Reads
<1>41. ASSUME BossReturns PROVE Reading'
  BY <1>41, ThievesAndBoss, <1>r DEF BossReturns, WaitOver, Shape, Labelled,
    Reading, Reads
<1>42. ASSUME BossSleeps PROVE Reading'
  BY <1>42, ThievesAndBoss, <1>r DEF BossSleeps, Shape, Labelled, Reading,
    Reads
<1>43. ASSUME StopWorkers PROVE Reading'
  BY <1>43, ThievesAndBoss, <1>r DEF StopWorkers, Shape, Labelled, Reading,
    Reads
<1>44. ASSUME WakeAll PROVE Reading'
  BY <1>44, ThievesAndBoss, <1>r DEF WakeAll, TokensToExit, Shape, Labelled,
    Reading, Reads
<1>45. ASSUME NotifyAll PROVE Reading'
  BY <1>45, ThievesAndBoss, <1>r DEF NotifyAll, Shape, Labelled, Reading, Reads
<1>46. ASSUME Join PROVE Reading'
  BY <1>46, ThievesAndBoss, <1>r DEF Join, Shape, Labelled, Reading, Reads
<1>47. ASSUME Finished PROVE Reading'
  BY <1>47, ThievesAndBoss, <1>r DEF Finished, Shape, Labelled, Reading, Reads
<1> QED
  BY ThievesAndBoss, <1>1, <1>2, <1>3, <1>4, <1>5, <1>6, <1>7, <1>8, <1>9,
    <1>10, <1>11, <1>12, <1>13, <1>14, <1>15, <1>16, <1>17, <1>18, <1>19,
    <1>20, <1>21, <1>22, <1>23, <1>24, <1>25, <1>26, <1>27, <1>28, <1>29,
    <1>30, <1>31, <1>32, <1>33, <1>34, <1>35, <1>36, <1>37, <1>38, <1>39,
    <1>40, <1>41, <1>42, <1>43, <1>44, <1>45, <1>46, <1>47, Zenon DEF Next,
    Scheduler, ThiefThread, BossThread

(* In the futex wait of thief_disengage.                                   *)
Waits == {"wait", "thief_wait"}

(* Waiters that are not blocked: they are going to look at the futex word  *)
(* again.                                                                  *)
Awake == {v \in Thieves : pc[v] \in Waits} \ asleep

(* Only waiters sleep, and NoLostWakeup.                                   *)
Wakeups ==
    /\ \A v \in asleep : pc[v] \in Waits
    /\ NoLostWakeup

(* How many notifications v has yet to make.                               *)
Owes(v) == IF pc[v] = "notify" THEN arg[v] ELSE 0

(* One thread's share of the pending notifications.                        *)
LEMMA NotesOf ==
    ASSUME NEW w \in Workers, NEW n \in 0 .. NWorkers
    PROVE  IsFiniteSet({w} \X (1 .. n)) /\ Cardinality({w} \X (1 .. n)) = n
<1>1. IsFiniteSet({w}) /\ Cardinality({w}) = 1
  BY FS_Singleton
<1>2. IsFiniteSet(1 .. n) /\ Cardinality(1 .. n) = n
  <2>1. /\ IsFiniteSet(1 .. n)
        /\ Cardinality(1 .. n) = IF 1 > n THEN 0 ELSE n - 1 + 1
    BY FS_Interval
  <2> QED
    BY <2>1
<1>3. /\ IsFiniteSet({w} \X (1 .. n))
      /\ Cardinality({w} \X (1 .. n)) = Cardinality({w}) * Cardinality(1 .. n)
  BY <1>1, <1>2, FS_Product
<1>4. 1 * n = n
  OBVIOUS
<1> QED
  BY <1>1, <1>2, <1>3, <1>4, Zenon

(* Pending notifications as pairs of a thread and a number.                *)
Notes(f, A) == UNION {{v} \X (1 .. f[v]) : v \in A}

(* The count of pending notifications changes by one thread's share.       *)
NotesStep(f, A, m, g, B, n) ==
    /\ Cardinality(Notes(f, A)) \in Nat /\ Cardinality(Notes(g, B)) \in Nat
    /\ Cardinality(Notes(g, B)) + m = Cardinality(Notes(f, A)) + n

(* It does when only w's share changes.                                    *)
LEMMA NotesMove ==
    ASSUME NEW f, NEW g, NEW A \in SUBSET Workers, NEW B \in SUBSET Workers,
           NEW w \in Workers, A \ {w} = B \ {w},
           \A v \in A : f[v] \in 0 .. NWorkers,
           \A v \in A \ {w} : g[v] = f[v],
           NEW m \in 0 .. NWorkers, m = IF w \in A THEN f[w] ELSE 0,
           NEW n \in 0 .. NWorkers, n = IF w \in B THEN g[w] ELSE 0
    PROVE  NotesStep(f, A, m, g, B, n)
<1> DEFINE O == UNION {{v} \X (1 .. f[v]) : v \in A \ {w}}
           M == {w} \X (1 .. m)
           N == {w} \X (1 .. n)
<1>1. O = UNION {{v} \X (1 .. g[v]) : v \in B \ {w}}
  OBVIOUS
<1>2. Notes(f, A) = O \cup M
  <2>1. CASE w \in A
    BY <2>1 DEF Notes
  <2>2. CASE w \notin A
    <3>1. A \ {w} = A /\ M = {}
      BY <2>2
    <3> QED
      BY <3>1 DEF Notes
  <2> QED
    BY <2>1, <2>2
<1>3. Notes(g, B) = O \cup N
  <2>1. CASE w \in B
    BY <1>1, <2>1 DEF Notes
  <2>2. CASE w \notin B
    <3>1. B \ {w} = B /\ N = {}
      BY <2>2
    <3> QED
      BY <1>1, <3>1 DEF Notes
  <2> QED
    BY <2>1, <2>2
<1>4. O \cap M = {} /\ O \cap N = {}
  OBVIOUS
<1>5. IsFiniteSet(O)
  <2>1. O \subseteq Workers \X (1 .. NWorkers)
    BY ConstantTypes
  <2>2. IsFiniteSet(1 .. NWorkers)
    BY ConstantTypes, FS_Interval
  <2>3. IsFiniteSet(Workers \X (1 .. NWorkers))
    BY <2>2, Domains, FS_Product
  <2> QED
    BY <2>1, <2>3, FS_Subset
<1>6. /\ IsFiniteSet(M) /\ Cardinality(M) = m
      /\ IsFiniteSet(N) /\ Cardinality(N) = n
  BY NotesOf
<1> HIDE DEF O, M, N
<1>7. ASSUME NEW X, IsFiniteSet(X), O \cap X = {}
      PROVE  /\ Cardinality(O \cup X) = Cardinality(O) + Cardinality(X)
             /\ Cardinality(O \cup X) \in Nat
  <2>1. Cardinality(O \cup X) = Cardinality(O) + Cardinality(X) - Cardinality(O \cap X)
        /\ IsFiniteSet(O \cup X)
    BY <1>5, <1>7, FS_Union
  <2>2. Cardinality(O \cap X) = 0
    BY <1>7, FS_EmptySet
  <2>3. Cardinality(O) \in Nat /\ Cardinality(X) \in Nat /\ Cardinality(O \cup X) \in Nat
    BY <1>5, <1>7, <2>1, FS_CardinalityType
  <2> QED
    BY <2>1, <2>2, <2>3
<1>8. Cardinality(O) \in Nat
  BY <1>5, FS_CardinalityType
<1> QED
  BY <1>2, <1>3, <1>4, <1>6, <1>7, <1>8 DEF NotesStep

(* The same for PendingNotifies and a step of w.                           *)
LEMMA PendingMoves ==
    ASSUME Reading, Reading', NEW w \in Workers,
           \A v \in Workers \ {w} : pc'[v] = pc[v] /\ arg'[v] = arg[v]
    PROVE  /\ Cardinality(PendingNotifies) \in Nat /\ Cardinality(PendingNotifies') \in Nat
           /\ Owes(w) \in 0 .. NWorkers /\ Owes(w)' \in 0 .. NWorkers
           /\ Cardinality(PendingNotifies') + Owes(w) = Cardinality(PendingNotifies) + Owes(w)'
<1> DEFINE A == {v \in Workers : At(v, "notify")}
           B == {v \in Workers : At(v, "notify")'}
           m == Owes(w)
           n == Owes(w)'
           g == arg'
<1>1. PendingNotifies = Notes(arg, A) /\ PendingNotifies' = Notes(g, B)
  BY DEF PendingNotifies, Notes
<1>2. /\ A \in SUBSET Workers /\ B \in SUBSET Workers /\ A \ {w} = B \ {w}
      /\ \A v \in A \ {w} : g[v] = arg[v]
      /\ m = IF w \in A THEN arg[w] ELSE 0
      /\ n = IF w \in B THEN g[w] ELSE 0
  BY DEF At, Owes
<1>3. /\ \A v \in A : arg[v] \in 0 .. NWorkers
      /\ \A v \in B : g[v] \in 0 .. NWorkers
  BY ConstantTypes DEF Reading, Reads, At
<1>4. m \in 0 .. NWorkers /\ n \in 0 .. NWorkers
  BY <1>2, <1>3, ConstantTypes
<1> HIDE DEF A, B, m, n, g
<1>5. NotesStep(arg, A, m, g, B, n)
  BY <1>2, <1>3, <1>4, NotesMove, Zenon
<1> QED
  BY <1>1, <1>4, <1>5 DEF m, n, NotesStep

(* How the count of awake waiters changes with one thread.                 *)
LEMMA AwakeMoves ==
    ASSUME NEW w, Awake \ {w} = Awake' \ {w}
    PROVE  /\ Cardinality(Awake) \in Nat /\ Cardinality(Awake') \in Nat
           /\ (w \in Awake => w \in Awake') => Cardinality(Awake') >= Cardinality(Awake)
           /\ Cardinality(Awake') + 1 >= Cardinality(Awake)
           /\ w \notin Awake /\ w \in Awake' => Cardinality(Awake') = Cardinality(Awake) + 1
<1>1. Awake \in SUBSET Workers /\ Awake' \in SUBSET Workers
  BY DEF Awake, Thieves
<1> DEFINE A == Awake
           B == Awake'
<1>2. A \ {w} = B \ {w}
  OBVIOUS
<1> HIDE DEF A, B
<1>3. /\ IsFiniteSet(A) /\ IsFiniteSet(B) /\ Cardinality(A) \in Nat /\ Cardinality(B) \in Nat
  BY <1>1, SubsetCounts DEF A, B
<1>4. /\ (w \in A <=> w \in B) => Cardinality(B) = Cardinality(A)
      /\ w \in A /\ w \notin B => Cardinality(B) + 1 = Cardinality(A)
      /\ w \notin A /\ w \in B => Cardinality(B) = Cardinality(A) + 1
  BY <1>2, <1>3, Membership
<1>5. /\ (w \in A => w \in B) => Cardinality(B) >= Cardinality(A)
      /\ Cardinality(B) + 1 >= Cardinality(A)
      /\ w \notin A /\ w \in B => Cardinality(B) = Cardinality(A) + 1
  BY <1>3, <1>4
<1> QED
  BY <1>3, <1>5 DEF A, B

(* A step of w that adds no more tokens than notifications, or takes a     *)
(* token and leaves, or neither.                                           *)
WakesKept(w) ==
    /\ \A v \in Workers \ {w} : pc'[v] = pc[v] /\ arg'[v] = arg[v]
    /\ asleep' = asleep
    /\ w = Boss => pc[Boss] \notin {"notify_thieves", "notify_all"}
    /\ pc[w] # "notify"
    /\ \/ tokens' <= tokens + Owes(w)' /\ (pc[w] \in Waits => pc'[w] \in Waits)
       \/ tokens' + 1 <= tokens /\ w \notin asleep

(* Such a step keeps Wakeups.                                              *)
LEMMA WakeupsKept ==
    ASSUME Shape, Shape', Reading, Reading', Wakeups, NEW w \in Workers, WakesKept(w)
    PROVE  Wakeups'
<1>1. \A v \in asleep' : pc'[v] \in Waits
  BY ThievesAndBoss DEF WakesKept, Wakeups, Shape
<1>2. SUFFICES ASSUME asleep' # {} PROVE NoLostWakeup'
  BY <1>1 DEF Wakeups, NoLostWakeup
<1>3. asleep' = asleep /\ NoLostWakeup
  BY DEF WakesKept, Wakeups
<1>4. CASE pc[Boss] \in {"notify_thieves", "notify_all"}
  <2>1. pc'[Boss] = pc[Boss]
    BY <1>4, ThievesAndBoss DEF WakesKept
  <2> QED
    BY <1>4, <2>1 DEF NoLostWakeup
<1>5. CASE \E v \in Workers : At(v, "notify") /\ arg[v] > 3
  <2>1. PICK v \in Workers : At(v, "notify") /\ arg[v] > 3
    BY <1>5
  <2>2. pc'[v] = pc[v] /\ arg'[v] = arg[v]
    BY <2>1 DEF At, WakesKept
  <2> QED
    BY <2>1, <2>2 DEF At, NoLostWakeup
<1>6. CASE tokens <= Cardinality(Awake) + Cardinality(PendingNotifies)
  <2> DEFINE a == Cardinality(Awake)
             a1 == Cardinality(Awake')
             p == Cardinality(PendingNotifies)
             p1 == Cardinality(PendingNotifies')
             o == Owes(w)'
  <2>1. p \in Nat /\ p1 \in Nat /\ o \in Nat /\ p1 = p + o
    <3>1. Owes(w) = 0
      BY DEF WakesKept, Owes
    <3> QED
      BY <3>1, PendingMoves, ConstantTypes DEF WakesKept
  <2>2. /\ Awake \ {w} = Awake' \ {w}
        /\ (pc[w] \in Waits => pc'[w] \in Waits) => (w \in Awake => w \in Awake')
    BY ThievesAndBoss DEF Awake, WakesKept
  <2>3. /\ a \in Nat /\ a1 \in Nat /\ a1 + 1 >= a
        /\ (pc[w] \in Waits => pc'[w] \in Waits) => a1 >= a
    BY <2>2, AwakeMoves
  <2>4. tokens \in Int /\ tokens' \in Int
    BY DEF Shape
  <2>5. /\ tokens <= a + p
        /\ \/ tokens' <= tokens + o /\ (pc[w] \in Waits => pc'[w] \in Waits)
           \/ tokens' + 1 <= tokens
    BY <1>6 DEF WakesKept
  <2> HIDE DEF a, a1, p, p1, o
  <2>6. tokens' <= a1 + p1
    <3>1. CASE tokens' <= tokens + o /\ a1 >= a
      BY <2>1, <2>3, <2>4, <2>5, <3>1
    <3>2. CASE tokens' + 1 <= tokens
      <4>1. p <= p1 /\ a <= a1 + 1
        BY <2>1, <2>3
      <4>2. a + p <= a1 + p1 + 1
        BY <2>1, <2>3, <4>1
      <4> DEFINE x == a + p
                 y == a1 + p1
                 t == tokens
                 t1 == tokens'
      <4>3. x \in Int /\ y \in Int
        BY <2>1, <2>3
      <4>4. x <= y + 1
        BY <4>2
      <4>5. t \in Int /\ t1 \in Int /\ t <= x
        BY <2>4, <2>5, Zenon
      <4>6. t1 + 1 <= t
        BY <3>2
      <4> HIDE DEF x, y, t, t1
      <4>7. t1 <= y
        BY <4>3, <4>4, <4>5, <4>6
      <4> QED
        BY <4>7 DEF t1, y
    <3> QED
      BY <2>3, <2>5, <3>1, <3>2
  <2> QED
    BY <2>6 DEF a1, p1, NoLostWakeup, Awake, Waits
<1> QED
  BY <1>2, <1>3, <1>4, <1>5, <1>6 DEF NoLostWakeup, Awake, Waits

(* Nothing is to be shown when nobody sleeps.                              *)
LEMMA NobodySleeps == asleep' = {} => Wakeups'
  BY DEF Wakeups, NoLostWakeup


(* Nor when there is no token, which is how a thief goes to sleep.         *)
LEMMA NoTokens ==
    ASSUME Reading, Reading', pc' = pc, arg' = arg, tokens' = 0,
           NEW w, Awake \ {w} = Awake' \ {w}, \A v \in asleep' : pc[v] \in Waits
    PROVE  Wakeups'
<1> DEFINE p == Cardinality(PendingNotifies')
           a == Cardinality(Awake')
<1>1. p \in Nat
  BY PendingMoves, ThievesAndBoss
<1>2. a \in Nat
  BY AwakeMoves
<1> HIDE DEF a, p
<1>3. tokens' <= a + p
  BY <1>1, <1>2
<1> QED
  BY <1>3 DEF a, p, Wakeups, NoLostWakeup, Awake, Waits

(* Every step keeps Wakeups.                                               *)
LEMMA WakeupsStep ==
    ASSUME Shape, Shape', Labelled, Reading, Reading', Budget, Wakeups, Next
    PROVE  Wakeups'
<1> USE DEF At, Goto, region, index, sleep, local, vars, Labels, Waits
<1>0. ASSUME NEW w \in Workers, WakesKept(w) PROVE Wakeups'
  BY <1>0, WakeupsKept
<1>1. ASSUME NEW w \in Workers, InitFails(w) PROVE WakesKept(w)
  BY <1>1, ThievesAndBoss DEF InitFails, LoopEntry, Shape, Labelled, WakesKept,
    Owes
<1>2. ASSUME NEW w \in Workers, ResetFails(w) PROVE WakesKept(w)
  BY <1>2, ThievesAndBoss DEF ResetFails, ResetCount, Shape, Labelled,
    WakesKept, Owes
<1>3. ASSUME NEW w \in Workers, StealLook(w) PROVE WakesKept(w)
  BY <1>3, ThievesAndBoss DEF StealLook, Shape, Labelled, WakesKept, Owes
<1>4. ASSUME NEW w \in Workers, CountStealable(w) PROVE WakesKept(w)
  BY <1>4, ThievesAndBoss DEF CountStealable, Alone, Stealable, Shape,
    Labelled, WakesKept, Owes
<1>5. ASSUME NEW w \in Workers, StealSucceeds(w) PROVE WakesKept(w)
  BY <1>5, ThievesAndBoss DEF StealSucceeds, Victims, InUserCode, Shape,
    Labelled, WakesKept, Owes
<1>6. ASSUME NEW w \in Workers, StealFails(w) PROVE WakesKept(w)
  BY <1>6, ThievesAndBoss DEF StealFails, Capped, Shape, Labelled, WakesKept,
    Owes
<1>7. ASSUME NEW w \in Workers, MaybeReengage(w) PROVE WakesKept(w)
  BY <1>7, ThievesAndBoss DEF MaybeReengage, Requests, RunningOut, Sampled,
    Shape, Labelled, WakesKept, Owes
<1>8. ASSUME NEW w \in Workers, OneSentinel(w) PROVE WakesKept(w)
  BY <1>8, ThievesAndBoss DEF OneSentinel, Shape, Labelled, WakesKept, Owes
<1>9. ASSUME NEW w \in Workers, RequestMoreThieves(w) PROVE Wakeups'
  <2> DEFINE room == NWorkers \div 2 - tokens
             more == ToWake(room, arg[w])
  <2>1. /\ pc' = [pc EXCEPT ![w] = IF room <= 0 THEN "work" ELSE "notify"]
        /\ arg' = [arg EXCEPT ![w] = IF room <= 0 THEN 0 ELSE more]
        /\ tokens' = IF room <= 0 THEN tokens ELSE tokens + more
        /\ asleep' = asleep /\ pc[w] = "request"
    BY <1>9 DEF RequestMoreThieves, At, Goto, sleep
  <2> HIDE DEF room, more
  <2>2. Owes(w)' = IF room <= 0 THEN 0 ELSE more
    BY <2>1 DEF Owes, Shape, Labelled
  <2>3. tokens' <= tokens + Owes(w)'
    BY <2>1, <2>2 DEF Shape
  <2>4. WakesKept(w)
    BY <2>1, <2>3 DEF WakesKept, Waits, Shape, Labelled
  <2> QED
    BY <2>4, WakeupsKept
<1>10. ASSUME NEW w \in Workers, Notify(w) PROVE Wakeups'
  <2> DEFINE n == IF arg[w] > 3 THEN 0 ELSE arg[w] - 1
  <2>1. pc[w] = "notify" /\ arg[w] \in 1 .. NWorkers
    BY <1>10 DEF Notify, At, Reading, Reads
  <2>2. /\ arg' = [arg EXCEPT ![w] = n]
        /\ pc' = [pc EXCEPT ![w] = IF n = 0 THEN "work" ELSE "notify"]
        /\ tokens' = tokens
    BY <1>10 DEF Notify, Goto, Shape
  <2>3. CASE asleep' = {}
    BY <2>3, NobodySleeps
  <2>4. CASE asleep' # {}
    <3>1. ~(arg[w] > 3) /\ NotifyOne /\ asleep # {}
      BY <1>10, <2>4 DEF Notify, NotifyOne
    <3>2. PICK u \in asleep : asleep' = asleep \ {u}
      BY <3>1 DEF NotifyOne
    <3>3. n = arg[w] - 1 /\ Owes(w) = arg[w] /\ Owes(w)' = n
      BY <2>1, <2>2, <3>1 DEF Owes, Shape, Labelled
    <3>4. \A v \in Workers \ {w} : pc'[v] = pc[v] /\ arg'[v] = arg[v]
      BY <2>2 DEF Shape, Labelled
    <3>5. pc'[w] \notin Waits /\ pc[w] \notin Waits
      BY <2>1, <2>2 DEF Labelled, Waits
    <3>6. \A v \in asleep : pc[v] \in Waits /\ pc'[v] \in Waits /\ v \in Thieves
      BY <3>4, <3>5, ThievesAndBoss DEF Wakeups, Shape
    <3>7. u \notin Awake /\ u \in Awake' /\ Awake \ {u} = Awake' \ {u}
      BY <3>2, <3>4, <3>5, <3>6, ThievesAndBoss DEF Awake
    <3> DEFINE a == Cardinality(Awake)
               a1 == Cardinality(Awake')
               p == Cardinality(PendingNotifies)
               p1 == Cardinality(PendingNotifies')
    <3>8. a \in Nat /\ a1 \in Nat /\ a1 = a + 1
      BY <3>7, AwakeMoves
    <3>9. p \in Nat /\ p1 \in Nat /\ p1 + arg[w] = p + (arg[w] - 1)
      BY <3>3, <3>4, PendingMoves
    <3>10. CASE pc[Boss] \in {"notify_thieves", "notify_all"}
      BY <2>1, <3>2, <3>4, <3>6, <3>10, ThievesAndBoss DEF Wakeups, NoLostWakeup
    <3>11. CASE \E v \in Workers : At(v, "notify") /\ arg[v] > 3
      <4>1. PICK v \in Workers \ {w} : At(v, "notify") /\ arg[v] > 3
        BY <3>1, <3>11
      <4>2. At(v, "notify")' /\ arg'[v] > 3
        BY <3>4, <4>1 DEF At
      <4> QED
        BY <3>2, <3>6, <4>2 DEF Wakeups, NoLostWakeup
    <3>12. CASE tokens <= Cardinality(Awake) + Cardinality(PendingNotifies)
      <4>1. tokens <= a + p
        BY <3>12
      <4> HIDE DEF a, a1, p, p1
      <4>2. tokens \in Int /\ arg[w] \in Int
        BY <2>1 DEF Shape
      <4>3. a + p = a1 + p1
        BY <3>8, <3>9, <4>2
      <4>4. tokens' <= a1 + p1
        BY <2>2, <4>1, <4>3
      <4> QED
        BY <3>2, <3>6, <4>4 DEF a1, p1, Wakeups, NoLostWakeup, Awake, Waits
    <3> QED
      BY <3>1, <3>10, <3>11, <3>12 DEF Wakeups, NoLostWakeup, Awake, Waits
  <2> QED
    BY <2>3, <2>4
<1>11. ASSUME NEW w \in Workers, RunOut(w) PROVE WakesKept(w)
  BY <1>11, ThievesAndBoss DEF RunOut, InUserCode, OthersWork, Shape, Labelled,
    WakesKept, Owes
<1>12. ASSUME NEW w \in Workers, DecreaseFails(w) PROVE WakesKept(w)
  BY <1>12, ThievesAndBoss DEF DecreaseFails, Shape, Labelled, WakesKept, Owes
<1>13. ASSUME NEW w \in Workers, SleepThieves(w) PROVE WakesKept(w)
  BY <1>13, ThievesAndBoss DEF SleepThieves, InUserCode, OthersWork, Budget,
    Shape, Labelled, WakesKept, Owes
<1>14. ASSUME NEW w \in Workers, SetDone(w) PROVE WakesKept(w)
  BY <1>14, ThievesAndBoss DEF SetDone, Shape, Labelled, WakesKept, Owes
<1>15. ASSUME NEW w \in Workers, ExitRegion(w) PROVE WakesKept(w)
  BY <1>15, ThievesAndBoss DEF ExitRegion, Shape, Labelled, WakesKept, Owes
<1>16. ASSUME NEW w \in Thieves, OuterTakeToken(w) PROVE WakesKept(w)
  BY <1>16, ThievesAndBoss DEF OuterTakeToken, TakeToken, Shape, Labelled,
    WakesKept, Owes
<1>17. ASSUME NEW w \in Thieves, OuterNoToken(w) PROVE WakesKept(w)
  BY <1>17, ThievesAndBoss DEF OuterNoToken, NoToken, Shape, Labelled,
    WakesKept, Owes
<1>18. ASSUME NEW w \in Thieves, DisengageWorker(w) PROVE WakesKept(w)
  BY <1>18, ThievesAndBoss DEF DisengageWorker, MoveOut, BeginSwap, Shape,
    Labelled, WakesKept, Owes
<1>19. ASSUME NEW w \in Thieves, DisengageSwap(w) PROVE WakesKept(w)
  BY <1>19, ThievesAndBoss DEF DisengageSwap, SwapRest, Shape, Labelled,
    WakesKept, Owes
<1>20. ASSUME NEW w \in Thieves, ThiefWake(w) PROVE WakesKept(w)
  BY <1>20, ThievesAndBoss DEF ThiefWake, Wake, TakeToken, Shape, Labelled,
    WakesKept, Owes
<1>21. ASSUME NEW w \in Thieves, ThiefSleep(w) PROVE Wakeups'
  <2>1. pc' = pc /\ arg' = arg /\ tokens' = 0 /\ asleep' = asleep \cup {w}
        /\ pc[w] = "wait"
    BY <1>21 DEF ThiefSleep, Sleep, MaySleep, At, local
  <2>2. Awake \ {w} = Awake' \ {w}
    BY <2>1 DEF Awake
  <2>3. \A v \in asleep' : pc[v] \in Waits
    BY <2>1 DEF Wakeups, Waits
  <2> QED
    BY <2>1, <2>2, <2>3, NoTokens
<1>22. ASSUME NEW w \in Thieves, ReengageWorker(w) PROVE WakesKept(w)
  BY <1>22, ThievesAndBoss DEF ReengageWorker, MoveIn, BeginSwap, Shape,
    Labelled, WakesKept, Owes
<1>23. ASSUME NEW w \in Thieves, ReengageSwap(w) PROVE WakesKept(w)
  BY <1>23, ThievesAndBoss DEF ReengageSwap, SwapRest, Shape, Labelled,
    WakesKept, Owes
<1>24. ASSUME NEW w \in Thieves, Check(w) PROVE WakesKept(w)
  BY <1>24, ThievesAndBoss DEF Check, Shape, Labelled, WakesKept, Owes
<1>25. ASSUME NEW w \in Thieves, LingerTakeToken(w) PROVE WakesKept(w)
  BY <1>25, ThievesAndBoss DEF LingerTakeToken, TakeToken, LoopEntry, Shape,
    Labelled, WakesKept, Owes
<1>26. ASSUME NEW w \in Thieves, LingerNoToken(w) PROVE WakesKept(w)
  BY <1>26, ThievesAndBoss DEF LingerNoToken, NoToken, Shape, Labelled,
    WakesKept, Owes
<1>27. ASSUME NEW w \in Thieves, Sample(w) PROVE WakesKept(w)
  BY <1>27, ThievesAndBoss DEF Sample, Sampled, Shape, Labelled, WakesKept,
    Owes
<1>28. ASSUME NEW w \in Thieves, MaybeDisengage(w) PROVE WakesKept(w)
  BY <1>28, ThievesAndBoss DEF MaybeDisengage, Shape, Labelled, WakesKept, Owes
<1>29. ASSUME NEW w \in Thieves, TryDisengage(w) PROVE WakesKept(w)
  BY <1>29, ThievesAndBoss DEF TryDisengage, MoveOut, BeginSwap,
    UnchangedSince, Shape, Labelled, WakesKept, Owes
<1>30. ASSUME NEW w \in Thieves, TryDisengageSwap(w) PROVE WakesKept(w)
  BY <1>30, ThievesAndBoss DEF TryDisengageSwap, SwapRest, Shape, Labelled,
    WakesKept, Owes
<1>31. ASSUME NEW w \in Thieves, TryDisengageFails(w) PROVE WakesKept(w)
  BY <1>31, ThievesAndBoss DEF TryDisengageFails, UnchangedSince, Shape,
    Labelled, WakesKept, Owes
<1>32. ASSUME NEW w \in Thieves, DisengagedWake(w) PROVE WakesKept(w)
  BY <1>32, ThievesAndBoss DEF DisengagedWake, Wake, TakeToken, Shape,
    Labelled, WakesKept, Owes
<1>33. ASSUME NEW w \in Thieves, DisengagedSleep(w) PROVE Wakeups'
  <2>1. pc' = pc /\ arg' = arg /\ tokens' = 0 /\ asleep' = asleep \cup {w}
        /\ pc[w] = "thief_wait"
    BY <1>33 DEF DisengagedSleep, Sleep, MaySleep, At, local
  <2>2. Awake \ {w} = Awake' \ {w}
    BY <2>1 DEF Awake
  <2>3. \A v \in asleep' : pc[v] \in Waits
    BY <2>1 DEF Wakeups, Waits
  <2> QED
    BY <2>1, <2>2, <2>3, NoTokens
<1>34. ASSUME NEW w \in Thieves, ReengageThief(w) PROVE WakesKept(w)
  BY <1>34, ThievesAndBoss DEF ReengageThief, MoveIn, BeginSwap, AfterSleep,
    FailsAfterSleep, Shape, Labelled, WakesKept, Owes
<1>35. ASSUME NEW w \in Thieves, ReengageThiefSwap(w) PROVE WakesKept(w)
  BY <1>35, ThievesAndBoss DEF ReengageThiefSwap, SwapRest, AfterSleep,
    FailsAfterSleep, Shape, Labelled, WakesKept, Owes
<1>36. ASSUME NEW w \in Thieves, SignalUncilkified(w) PROVE WakesKept(w)
  BY <1>36, ThievesAndBoss DEF SignalUncilkified, AfterSignal, Shape, Labelled,
    WakesKept, Owes
<1>37. ASSUME StartRegion PROVE WakesKept(Boss)
  BY <1>37, ThievesAndBoss DEF StartRegion, Shape, Labelled, WakesKept, Owes
<1>38. ASSUME ClearDone PROVE WakesKept(Boss)
  BY <1>38, ThievesAndBoss DEF ClearDone, Shape, Labelled, WakesKept, Owes
<1>39. ASSUME WakeThieves PROVE Wakeups'
  <2>1. pc'[Boss] = "notify_thieves" /\ asleep' = asleep /\ \A v \in Thieves : pc'[v] = pc[v]
    BY <1>39, ThievesAndBoss DEF WakeThieves, Goto, sleep, Labelled
  <2> QED
    BY <2>1 DEF Wakeups, NoLostWakeup, Shape
<1>40. ASSUME NotifyThieves PROVE Wakeups'
  BY <1>40, NobodySleeps DEF NotifyThieves
<1>41. ASSUME BossReturns PROVE WakesKept(Boss)
  BY <1>41, ThievesAndBoss DEF BossReturns, WaitOver, Shape, Labelled,
    WakesKept, Owes
<1>42. ASSUME BossSleeps PROVE WakesKept(Boss)
  BY <1>42, ThievesAndBoss DEF BossSleeps, Shape, Labelled, WakesKept, Owes
<1>43. ASSUME StopWorkers PROVE WakesKept(Boss)
  BY <1>43, ThievesAndBoss DEF StopWorkers, Shape, Labelled, WakesKept, Owes
<1>44. ASSUME WakeAll PROVE Wakeups'
  <2>1. pc'[Boss] = "notify_all" /\ asleep' = asleep /\ \A v \in Thieves : pc'[v] = pc[v]
    BY <1>44, ThievesAndBoss DEF WakeAll, Goto, sleep, Labelled
  <2> QED
    BY <2>1 DEF Wakeups, NoLostWakeup, Shape
<1>45. ASSUME NotifyAll PROVE Wakeups'
  BY <1>45, NobodySleeps DEF NotifyAll
<1>46. ASSUME Join PROVE WakesKept(Boss)
  BY <1>46, ThievesAndBoss DEF Join, Shape, Labelled, WakesKept, Owes
<1>47. ASSUME Finished PROVE Wakeups'
  BY <1>47
     DEF Finished, region, index, sleep, local, vars, Wakeups, NoLostWakeup,
         PendingNotifies,
    At

<1> QED
  BY ThievesAndBoss, <1>0, <1>1, <1>2, <1>3, <1>4, <1>5, <1>6, <1>7, <1>8, <1>9,
    <1>10, <1>11, <1>12, <1>13, <1>14, <1>15, <1>16, <1>17, <1>18, <1>19,
    <1>20, <1>21, <1>22, <1>23, <1>24, <1>25, <1>26, <1>27, <1>28, <1>29,
    <1>30, <1>31, <1>32, <1>33, <1>34, <1>35, <1>36, <1>37, <1>38, <1>39,
    <1>40, <1>41, <1>42, <1>43, <1>44, <1>45, <1>46, <1>47, Zenon DEF Next,
    Scheduler, ThiefThread, BossThread

(* The inductive invariant.                                                *)
IInv ==
    /\ Shape /\ Labelled /\ Local /\ Counting /\ Indexing /\ Region
    /\ Budget /\ Reading /\ Wakeups

(* It holds initially.                                                     *)
LEMMA InitIInv == Init => IInv
<1> SUFFICES ASSUME Init PROVE IInv
  OBVIOUS
<1>1. \A v \in Workers : pc[v] = IF v = Boss THEN "outside" ELSE "unborn"
  BY DEF Init
<1>2. Disengaged = {} /\ Sentinels = {}
  BY <1>1 DEF Disengaged, Sentinels, At, WaitingPcs, LoopPcs
<1>3. Cardinality({}) = 0
  BY FS_EmptySet
<1>4. Shape
  <2>1. 0 \in Int /\ 0 \in Nat
    OBVIOUS
  <2>2. /\ fails \in [Workers -> Int] /\ hist \in [Workers -> Int]
        /\ arg \in [Workers -> Int]
    BY <2>1 DEF Init
  <2> QED
    BY <2>1, <2>2 DEF Init, Shape
<1>5. Labelled
  BY <1>1, ThievesAndBoss
    DEF Init, Labelled, Labels, BossLabels, ThiefLabels, BossPcs, ThiefPcs
<1>6. Local
  BY <1>1, ThresholdFacts DEF Init, Local, Failing, LongFailing
<1>7. Counting
  <2>1. 0 * HalfWord + 0 = 0
    BY ConstantTypes
  <2> QED
    BY <1>2, <1>3, <2>1 DEF Init, Counting, Packed
<1>8. Indexing
  <2>1. Engaged = NWorkers
    BY <1>2, <1>3, ConstantTypes DEF Engaged
  <2>2. Settled
    BY <1>1, <2>1, Domains DEF Init, Settled, Valid, WaitingPcs
  <2> QED
    BY <1>1, <2>2, ThievesAndBoss, Domains DEF Init, Indexing, SwapOut, SwapIn
<1>9. Region
  BY <1>1, ThievesAndBoss
    DEF Init, Region, Stopping, Starting, Idle, HasWork, InUserCode, Ends
<1>10. Budget
  BY <1>1, ThievesAndBoss, ConstantTypes DEF Init, Budget, Stopped
<1>11. Reading
  <2>1. 0 \in TokenRange
    BY <1>4, <1>5, <1>7, <1>10, Ranges, ConstantTypes
  <2> QED
    BY <1>1, <2>1 DEF Init, Reading, Reads
<1>12. Wakeups
  BY DEF Init, Wakeups, NoLostWakeup
<1> QED
  BY <1>4, <1>5, <1>6, <1>7, <1>8, <1>9, <1>10, <1>11, <1>12 DEF IInv

(* Every step keeps it: one lemma per part.                                *)
LEMMA NextIInv == IInv /\ Next => IInv'
<1> SUFFICES ASSUME IInv, Next PROVE IInv'
  OBVIOUS
<1>1. /\ Shape /\ Labelled /\ Local /\ Counting /\ Indexing /\ Region
      /\ Budget /\ Reading /\ Wakeups
  BY DEF IInv
<1>2. Shape' /\ Labelled'
  BY <1>1, ShapeStep, LabelledStep
<1>3. Local'
  BY <1>1, LocalStep
<1>4. Counting'
  BY <1>1, CountingStep
<1>5. Indexing'
  BY <1>1, IndexingStep
<1>6. Region'
  BY <1>1, RegionStep
<1>7. Budget'
  BY <1>1, BudgetStep
<1>8. Reading'
  BY <1>1, <1>4, ReadingStep
<1>9. Wakeups'
  BY <1>1, <1>2, <1>8, WakeupsStep
<1> QED
  BY <1>2, <1>3, <1>4, <1>5, <1>6, <1>7, <1>8, <1>9 DEF IInv

(* So does a step that changes nothing.                                    *)
LEMMA StutterIInv == IInv /\ UNCHANGED vars => IInv'
<1> SUFFICES ASSUME IInv, UNCHANGED vars PROVE IInv'
  OBVIOUS
<1> USE DEF vars, region, index, sleep, local
<1>1. Shape' /\ Labelled' /\ Local'
  BY DEF IInv, Shape, Labelled, Local, Failing
<1>2. Disengaged' = Disengaged /\ Sentinels' = Sentinels
  BY DEF Disengaged, Sentinels, At
<1>3. Counting'
  BY <1>2 DEF IInv, Counting
<1>4. Indexing'
  BY IndexingKept DEF IInv, IndexKept
<1>5. Region'
  BY DEF IInv, Region, Idle, Working, Ending, Over, HasWork, Ends
<1>6. Budget'
  BY DEF IInv, Budget, Spent, ThievesIn
<1>7. Reading'
  BY DEF IInv, Reading, Reads
<1>8. Wakeups'
  BY DEF IInv, Wakeups, NoLostWakeup, PendingNotifies, At
<1> QED
  BY <1>1, <1>3, <1>4, <1>5, <1>6, <1>7, <1>8 DEF IInv

(* IInv holds in every reachable state.                                    *)
THEOREM Invariance == Spec => []IInv
<1>1. IInv /\ [Next]_vars => IInv'
  BY NextIInv, StutterIInv
<1> QED
  BY InitIInv, <1>1, PTL DEF Spec

(* The counters of worker threads and the two shared words of the sleep    *)
(* protocol stay in range: in particular disengaged_sentinel never         *)
(* overflows a half and the futex word never goes below zero.              *)
THEOREM ValuesInRange == Spec => []TypeOK
<1>1. IInv => TypeOK
  <2> SUFFICES ASSUME IInv PROVE TypeOK
    OBVIOUS
  <2>1. /\ Shape /\ Labelled /\ Local /\ Counting /\ Indexing /\ Region
        /\ Budget /\ Reading /\ Wakeups
    BY DEF IInv
  <2>2. tokens \in TokenCounts /\ ds \in 0 .. HalfWord * HalfWord - 1
    BY <2>1, Ranges
  <2>3. fails \in [Workers -> 0 .. MAX_FAILS + SENTINEL_THRESHOLD - 1]
    <3>1. \A v \in Workers : fails[v] \in 0 .. MAX_FAILS + SENTINEL_THRESHOLD - 1
      BY <2>1, ThresholdFacts DEF Local, Failing, Shape
    <3> QED
      BY <2>1, <3>1 DEF Shape
  <2>4. hist \in [Workers -> 0 .. 1]
    <3>1. \A v \in Workers : hist[v] \in 0 .. 1
      BY <2>1, ThresholdFacts DEF Local, Failing, Shape
    <3> QED
      BY <2>1, <3>1 DEF Shape
  <2>5. arg \in [Workers -> TokenCounts \cup 0 .. HalfWord * HalfWord - 1]
    <3>1. \A v \in Workers : arg[v] \in TokenRange
      BY <2>1 DEF Reading, Reads
    <3>2. arg \in [Workers -> TokenRange]
      BY <2>1, <3>1 DEF Shape
    <3> QED
      BY <3>2 DEF TokenRange
  <2>6. /\ cilkified \in BOOLEAN /\ done \in BOOLEAN /\ terminate \in BOOLEAN
        /\ asleep \subseteq Thieves /\ bossAsleep \in BOOLEAN
    BY <2>1 DEF Shape
  <2>7. /\ i2w \in [Workers -> Workers] /\ w2i \in [Workers -> Workers]
        /\ indexLock \in Thieves \cup {NoOne}
    BY <2>1 DEF Indexing
  <2>8. pc \in [Workers -> LoopPcs \cup WaitingPcs \cup WorkPcs \cup EndPcs
                             \cup ThiefPcs \cup BossPcs]
    BY <2>1 DEF Labelled, Labels
  <2> QED
    BY <2>2, <2>3, <2>4, <2>5, <2>6, <2>7, <2>8, Zenon DEF TypeOK
<1> QED
  BY Invariance, <1>1, PTL

(* disengaged_sentinel always says how many workers are disengaged and how *)
(* many are sentinels, although every thief changes it by an atomic        *)
(* addition on the strength of its own, private, failure count.            *)
THEOREM EveryoneCountedOnce == Spec => []CountsExact
<1>1. IInv => CountsExact
  BY Ranges DEF IInv, CountsExact
<1> QED
  BY Invariance, <1>1, PTL

(* The boss is always at index 0, and nowhere else.                        *)
LEMMA BossFirst ==
    ASSUME Indexing, Labelled
    PROVE  i2w[0] = Boss /\ \A i \in Workers \ {0} : i2w[i] # Boss
<1>1. /\ w2i[Boss] = 0 /\ Boss \in Workers /\ 0 \in Workers
      /\ \A v \in Workers : w2i[v] \in Workers
      /\ \A i \in Workers : i2w[i] \in Workers
  BY ThievesAndBoss, Domains DEF Indexing
<1>2. CASE indexLock = NoOne
  BY <1>1, <1>2 DEF Indexing, Settled
<1>3. CASE indexLock \in Thieves
  <2>1. PICK h \in Thieves : indexLock = h
    BY <1>3
  <2>2. h \in Workers /\ h # Boss /\ pc[h] \in SwapOut \cup SwapIn
    BY <2>1, ThievesAndBoss DEF Indexing
  <2>3. PICK t \in Workers, e \in {Engaged + 1, Engaged - 1} :
          /\ Swapped(h, t, e)
          /\ t > 0
    <3>1. CASE pc[h] \in SwapOut
      <4>1. Swapped(h, Engaged, Engaged + 1) /\ w2i[h] < Engaged
        BY <2>2, <3>1 DEF Indexing
      <4>2. Engaged \in Workers
        BY <4>1 DEF Swapped
      <4>3. Engaged > 0
        <5>1. w2i[h] \in Int /\ w2i[h] >= 0 /\ Engaged \in Int
          BY <1>1, <2>2, <4>2, Domains
        <5> QED
          BY <4>1, <5>1
      <4> QED
        BY <4>1, <4>2, <4>3
    <3>2. CASE pc[h] \in SwapIn
      <4>1. Swapped(h, Engaged - 1, Engaged - 1)
        BY <2>2, <3>2 DEF Indexing
      <4>2. Engaged - 1 \in Workers
        BY <4>1 DEF Swapped
      <4>3. w2i[Boss] < Engaged - 1
        BY <1>1, <2>2, <4>1
          DEF Swapped, Valid, Labelled, BossLabels, WorkPcs, BossPcs, WaitingPcs
      <4>4. Engaged - 1 > 0
        BY <1>1, <4>2, <4>3, Domains
      <4> QED
        BY <4>1, <4>2, <4>4
    <3> QED
      BY <2>2, <3>1, <3>2
  <2>4. i2w[0] = Boss
    BY <1>1, <2>2, <2>3 DEF Swapped
  <2>5. ASSUME NEW i \in Workers \ {0} PROVE i2w[i] # Boss
    <3>1. w2i[i2w[i]] = i \/ w2i[i2w[i]] = t
      BY <2>3 DEF Swapped
    <3>2. t # 0
      BY <2>3, Domains
    <3> QED
      BY <1>1, <3>1, <3>2
  <2> QED
    BY <2>4, <2>5
<1> QED
  BY <1>2, <1>3 DEF Indexing

(* index_to_worker and worker_to_index are inverse to one another whenever *)
(* index_lock is free, with the boss first and exactly the engaged workers *)
(* in the entries a thief may choose from.                                 *)
THEOREM IndexStructureSound == Spec => []IndexMap
<1>1. IInv => IndexMap
  <2> SUFFICES ASSUME IInv, indexLock = NoOne PROVE
          /\ \A w \in Workers : i2w[w2i[w]] = w
          /\ i2w[0] = Boss
          /\ {i2w[i] : i \in 0 .. Stealable(ds) - 1} = Workers \ Disengaged
    BY DEF IndexMap
  <2>1. Shape /\ Labelled /\ Counting /\ Indexing /\ Budget
    BY DEF IInv
  <2>2. Settled /\ i2w \in [Workers -> Workers] /\ w2i \in [Workers -> Workers]
    BY <2>1 DEF Indexing
  <2>3. Stealable(ds) = Engaged /\ Engaged \in 1 .. NWorkers
    BY <2>1, Ranges
  <2>4. i2w[0] = Boss
    BY <2>1, BossFirst
  <2>5. \A i : i \in 0 .. Engaged - 1 <=> i \in Workers /\ i < Engaged
    BY <2>3, ConstantTypes DEF Workers
  <2>6. \A v \in Workers : v \notin Disengaged <=> w2i[v] < Engaged
    BY <2>2 DEF Settled, Valid, Disengaged
  <2>7. \A i \in 0 .. Engaged - 1 : i2w[i] \in Workers \ Disengaged
    BY <2>2, <2>5, <2>6 DEF Settled
  <2>8. \A v \in Workers \ Disengaged : w2i[v] \in 0 .. Engaged - 1 /\ i2w[w2i[v]] = v
    BY <2>2, <2>5, <2>6 DEF Settled
  <2>9. {i2w[i] : i \in 0 .. Engaged - 1} = Workers \ Disengaged
    BY <2>7, <2>8
  <2> QED
    BY <2>2, <2>3, <2>4, <2>9 DEF Settled
<1> QED
  BY Invariance, <1>1, PTL

(* A thief that has decided to steal finds somebody else among the entries *)
(* that random selection may pick, although the arrays and the word may    *)
(* have changed since it read the word.                                    *)
THEOREM VictimsExist == Spec => []VictimExists
<1>1. IInv => VictimExists
  <2> SUFFICES ASSUME IInv, NEW w \in Workers, pc[w] = "pick" PROVE Victims(w) # {}
    BY DEF VictimExists, At
  <2>1. i2w[0] = Boss /\ \A i \in Workers \ {0} : i2w[i] # Boss
    BY BossFirst DEF IInv
  <2>2. arg[w] \in 2 .. NWorkers
    BY DEF IInv, Reading, Reads
  <2>3. 0 \in 0 .. arg[w] - 1 /\ 1 \in 0 .. arg[w] - 1 /\ 1 \in Workers \ {0}
    BY <2>2, ConstantTypes DEF Workers
  <2>4. i2w[0] # i2w[1]
    BY <2>1, <2>3
  <2> QED
    BY <2>3, <2>4 DEF Victims
<1> QED
  BY Invariance, <1>1, PTL

(* When the boss is back in the user's code nobody has work of the region  *)
(* left, nobody is still ending it, cilkified is false and no token        *)
(* remains in the futex word.                                              *)
THEOREM RegionsEnd == Spec => []RegionOver
<1>1. IInv => RegionOver
  BY DEF IInv, Region, Idle, Ends, RegionOver, At
<1> QED
  BY Invariance, <1>1, PTL

(* While a thief sleeps and no notification of everybody is on its way,    *)
(* there are never more tokens in the futex word than awake waiters and    *)
(* pending notifications together: no token is left for a sleeper without  *)
(* somebody about to wake it.                                              *)
THEOREM WakeupsNotLost == Spec => []NoLostWakeup
<1>1. IInv => NoLostWakeup
  BY DEF IInv, Wakeups
<1> QED
  BY Invariance, <1>1, PTL

(* A thief that disengages for want of work leaves another sentinel        *)
(* behind, or it does not disengage: the last sentinel keeps looking for   *)
(* work.                                                                   *)
THEOREM SentinelsRemain == Spec => LastSentinelStays
<1>1. IInv /\ [Next]_vars
        => [\A w \in Thieves : TryDisengage(w) => Sentinels \ {w} # {}]_vars
  <2> SUFFICES ASSUME IInv, NEW w \in Thieves, TryDisengage(w)
               PROVE  Sentinels \ {w} # {}
    OBVIOUS
  <2>1. GET_SENTINEL(ds) > 1
    BY ThievesAndBoss DEF TryDisengage, UnchangedSince, At, IInv, Reading, Reads
  <2>2. GET_SENTINEL(ds) = Cardinality(Sentinels)
    BY Ranges DEF IInv
  <2>3. Sentinels \subseteq {w} => Cardinality(Sentinels) <= 1
    <3>1. IsFiniteSet({w}) /\ Cardinality({w}) = 1
      BY FS_Singleton
    <3> QED
      BY <3>1, FS_Subset
  <2>4. Cardinality(Sentinels) \in Nat
    <3>1. Sentinels \in SUBSET Workers
      BY DEF Sentinels
    <3> QED
      BY <3>1, SubsetCounts
  <2> QED
    BY <2>1, <2>2, <2>3, <2>4
<1> QED
  BY Invariance, <1>1, PTL DEF Spec, LastSentinelStays
=============================================================================
