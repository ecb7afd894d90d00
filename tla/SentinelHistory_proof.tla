------------------------ MODULE SentinelHistory_proof -----------------------
(***************************************************************************)
(* The efficiency history of a worker, for every choice of the thresholds  *)
(* that scheduler.cpp's relations between them allow, every number of      *)
(* workers and every time slept or worked.                                 *)
(*                                                                         *)
(* None of the three properties is inductive.  That fails stays a multiple *)
(* of ATTEMPTS below its bound needs that the bound is a multiple of       *)
(* SENTINEL_THRESHOLD and this one of ATTEMPTS.  That the sum of the       *)
(* sentinel counts is never less than their number needs to know which     *)
(* entries can still be 0.  That a thief wakes up as a sentinel needs to   *)
(* know that a thief with few fails has an empty history, and so cannot go *)
(* to sleep: it has at least twice SENTINEL_THRESHOLD fails when it does.  *)
(*                                                                         *)
(* The sums and the arithmetic of multiples are those of Sums_proof.       *)
(***************************************************************************)
EXTENDS SentinelHistory, Sums_proof

(* The assumption on the constants, in the form the proofs use.            *)
LEMMA ConstantTypes ==
    /\ NWorkers \in Nat \ {0} /\ SENTINEL_THRESHOLD \in Nat \ {0}
    /\ ATTEMPTS \in Nat \ {0} /\ SENTINEL_COUNT_HISTORY \in Nat \ {0}
    /\ Word \in Nat \ {0} /\ TimeScale \in Nat \ {0}
    /\ NAP_THRESHOLD \in Nat /\ MIN_FAILS \in Nat /\ HISTORY_LENGTH \in Nat
    /\ MaxElapsed \in Nat /\ HISTORY_THRESHOLD \in Nat /\ HISTORY_THRESHOLD >= 2
    /\ MIN_FAILS < SENTINEL_THRESHOLD
    /\ Multiple(SENTINEL_THRESHOLD, ATTEMPTS)
    /\ Multiple(NAP_THRESHOLD, SENTINEL_THRESHOLD)
  BY ThresholdAssumption, MultipleMod

(* The derived thresholds: MAX_FAILS is a multiple of SENTINEL_THRESHOLD,  *)
(* and the fails that a long sleep leaves, DISENGAGE_THRESHOLD less        *)
(* SENTINEL_THRESHOLD, make a sentinel.                                    *)
LEMMA Thresholds ==
    /\ DISENGAGE_THRESHOLD \in Nat /\ MAX_FAILS \in Nat
    /\ DISENGAGE_THRESHOLD - SENTINEL_THRESHOLD >= SENTINEL_THRESHOLD
    /\ DISENGAGE_THRESHOLD <= MAX_FAILS
    /\ Multiple(DISENGAGE_THRESHOLD, SENTINEL_THRESHOLD)
    /\ Multiple(MAX_FAILS, SENTINEL_THRESHOLD)
    /\ ATTEMPTS <= SENTINEL_THRESHOLD
<1> DEFINE S == SENTINEL_THRESHOLD
           D == DISENGAGE_THRESHOLD
           M == Max({NAP_THRESHOLD, DISENGAGE_THRESHOLD})
<1>1. D \in Nat /\ D >= S + S /\ Multiple(D, S)
  <2>1. HISTORY_THRESHOLD - 2 \in Nat
    BY ConstantTypes, SMT
  <2>2. HISTORY_THRESHOLD * S = S * (HISTORY_THRESHOLD - 2) + (S + S)
        /\ S * (HISTORY_THRESHOLD - 2) >= 0
        /\ HISTORY_THRESHOLD * S = S * HISTORY_THRESHOLD
        /\ HISTORY_THRESHOLD * S \in Nat
    BY <2>1, ConstantTypes, SMT
  <2>3. D = HISTORY_THRESHOLD * S
    BY DEF DISENGAGE_THRESHOLD
  <2>4. Multiple(D, S)
    BY <2>2, <2>3, ConstantTypes, Zenon DEF Multiple
  <2> QED
    <3> DEFINE d == HISTORY_THRESHOLD * S
               r == S * (HISTORY_THRESHOLD - 2)
    <3>1. d = r + (S + S) /\ r >= 0 /\ d \in Nat /\ r \in Int
      BY <2>1, <2>2, ConstantTypes, SMT
    <3> HIDE DEF d, r
    <3>2. d >= S + S
      BY <3>1, ConstantTypes
    <3>3. D = d
      BY <2>3 DEF d
    <3> QED
      BY <3>1, <3>2, <3>3, <2>4
<1>2. M \in {NAP_THRESHOLD, D} /\ M >= D
  <2>1. \E x \in {NAP_THRESHOLD, D} : \A y \in {NAP_THRESHOLD, D} : x >= y
    BY <1>1, ConstantTypes
  <2> QED
    BY <2>1 DEF Max
<1>3. M \in Nat /\ Multiple(M, S)
  BY <1>1, <1>2, ConstantTypes
<1>4. MAX_FAILS = M + M
  <2> HIDE DEF M
  <2>1. 2 * M = M + M
    BY <1>3
  <2> QED
    BY <2>1 DEF M, MAX_FAILS
<1>5. Multiple(M + M, S)
  <2> HIDE DEF M
  <2> QED
    BY <1>3, ConstantTypes, MultipleSum
<1>6. ATTEMPTS <= S
  <2>1. 0 + ATTEMPTS <= S
    BY ConstantTypes, MultipleSelf, MultipleSum
  <2> QED
    BY <2>1, ConstantTypes
<1> QED
  <2> HIDE DEF M
  <2> QED
    BY <1>1, <1>2, <1>3, <1>4, <1>5, <1>6, ConstantTypes

(* What get_scaled_elapsed returns is a multiple of ATTEMPTS even if the   *)
(* product of its unsigned numbers wraps around.                           *)
LEMMA Scaled ==
    ASSUME NEW e \in Times
    PROVE  get_scaled_elapsed(e) \in Nat /\ Multiple(get_scaled_elapsed(e), ATTEMPTS)
<1> DEFINE x == ((e % Word) * SENTINEL_THRESHOLD) % Word
           y == (x \div TimeScale) \div ATTEMPTS
<1>1. e \in Nat
  BY ConstantTypes DEF Times
<1>2. (e % Word) * SENTINEL_THRESHOLD \in Nat
  <2>1. e % Word \in Nat
    BY <1>1, ConstantTypes
  <2> QED
    BY <2>1, ConstantTypes
<1>3. x \in Nat
  BY <1>2, ConstantTypes
<1>4. x \div TimeScale \in Nat
  <2> HIDE DEF x
  <2> QED
    BY <1>3, ConstantTypes, SMT
<1>5. y \in Nat
  <2> DEFINE z == x \div TimeScale
  <2>1. z \in Nat
    BY <1>4
  <2> HIDE DEF z
  <2>2. z \div ATTEMPTS \in Nat
    BY <2>1, ConstantTypes, SMT
  <2> QED
    BY <2>2 DEF z
<1>6. get_scaled_elapsed(e) = y * ATTEMPTS
  BY DEF get_scaled_elapsed
<1> HIDE DEF x, y
<1>7. y * ATTEMPTS = ATTEMPTS * y /\ y * ATTEMPTS \in Nat
  BY <1>5, ConstantTypes, SMT
<1> QED
  BY <1>5, <1>6, <1>7 DEF Multiple

-----------------------------------------------------------------------------
(* The words that hold the samples, as their bits.                         *)
History == [1 .. HISTORY_LENGTH -> BOOLEAN]

(* Shifts and new samples make histories from histories.                   *)
LEMMA HistoryTypes ==
    /\ Clear \in History
    /\ \A h \in History, n \in Nat : ShiftRight(h, n) \in History
    /\ \A h \in History, s \in BOOLEAN : AddSample(h, s) \in History
<1>1. Clear \in History
  BY DEF Clear, History
<1>2. ASSUME NEW h \in History, NEW n \in Nat
      PROVE  ShiftRight(h, n) \in History
  BY <1>2, ConstantTypes DEF ShiftRight, History
<1>3. ASSUME NEW h \in History, NEW s \in BOOLEAN
      PROVE  AddSample(h, s) \in History
  <2>1. ShiftRight(h, 1) \in History
    BY <1>2
  <2> QED
    BY <2>1 DEF AddSample, History
<1> QED
  BY <1>1, <1>2, <1>3

(* Samples are Boolean.                                                    *)
LEMMA SampleTypes ==
    \A c : is_efficient(c) \in BOOLEAN /\ is_inefficient(c) \in BOOLEAN
  BY DEF is_efficient, is_inefficient

(* A sample added to an empty history sets at most one bit.                *)
LEMMA Popcounts ==
    /\ \A h : popcount(h) \in Nat
    /\ \A s \in BOOLEAN : popcount(AddSample(Clear, s)) <= 1
<1> DEFINE On(h) == {i \in 1 .. HISTORY_LENGTH : h[i]}
<1>1. \A h : popcount(h) = Cardinality(On(h))
  BY DEF popcount, Quantify
<1>2. ASSUME NEW h PROVE IsFiniteSet(On(h)) /\ Cardinality(On(h)) \in Nat
  <2>1. IsFiniteSet(1 .. HISTORY_LENGTH)
    BY ConstantTypes, FS_Interval
  <2>2. On(h) \subseteq 1 .. HISTORY_LENGTH
    OBVIOUS
  <2> HIDE DEF On
  <2> QED
    BY <2>1, <2>2, FS_Subset, FS_CardinalityType
<1>3. ASSUME NEW s \in BOOLEAN PROVE Cardinality(On(AddSample(Clear, s))) <= 1
  <2>1. On(AddSample(Clear, s)) \subseteq {1}
    <3>1. \A i \in 1 .. HISTORY_LENGTH : i > 1 => ~ AddSample(Clear, s)[i]
      <4> SUFFICES ASSUME NEW i \in 1 .. HISTORY_LENGTH, i > 1
                   PROVE  ~ AddSample(Clear, s)[i]
        OBVIOUS
      <4>1. AddSample(Clear, s)[i] = (i > 1 /\ Clear[i - 1])
        BY ConstantTypes DEF AddSample, ShiftRight
      <4>2. i - 1 \in 1 .. HISTORY_LENGTH
        BY ConstantTypes
      <4>3. Clear[i - 1] = FALSE
        BY <4>2 DEF Clear
      <4> QED
        BY <4>1, <4>3
    <3> QED
      BY <3>1, ConstantTypes
  <2>2. IsFiniteSet({1}) /\ Cardinality({1}) = 1
    BY FS_Singleton
  <2> HIDE DEF On
  <2> QED
    BY <2>1, <2>2, FS_Subset
<1> HIDE DEF On
<1> QED
  BY <1>1, <1>2, <1>3

-----------------------------------------------------------------------------
(* The numbers of fails: in range, and a multiple of ATTEMPTS.             *)
Fails ==
    /\ fails \in Nat /\ fails <= MAX_FAILS + SENTINEL_THRESHOLD - ATTEMPTS
    /\ Multiple(fails, ATTEMPTS)
    /\ sample_threshold \in SENTINEL_THRESHOLD .. 2 * SENTINEL_THRESHOLD

(* The history of a worker that is not a sentinel has no inefficient       *)
(* sample.                                                                 *)
Histories ==
    /\ inefficient_history \in History /\ efficient_history \in History
    /\ fails < SENTINEL_THRESHOLD => inefficient_history = Clear

(* A worker only goes to sleep as a sentinel of long standing.             *)
Sleep ==
    /\ pc \in {"steal", "work", "disengaged"}
    /\ pc = "disengaged" => fails >= 2 * SENTINEL_THRESHOLD

(* The running sum is that of the array, plus, until a long sleep, what it *)
(* had too much at the start.  From then on no entry is 0; the first entry *)
(* never is.                                                               *)
Sentinels ==
    LET sum == SumFunction(sentinel_count_history)
    IN /\ sentinel_count_history \in [1 .. SENTINEL_COUNT_HISTORY -> Nat]
       /\ sentinel_count_history[1] >= 1
       /\ sentinel_count_history_tail \in 0 .. (SENTINEL_COUNT_HISTORY - 1)
       /\ \/ recent_sentinel_count = sum + (SENTINEL_COUNT_HISTORY - 1)
          \/ /\ recent_sentinel_count = sum
             /\ \A i \in 1 .. SENTINEL_COUNT_HISTORY : sentinel_count_history[i] >= 1

(* The inductive invariant.                                                *)
IInv == Fails /\ Histories /\ Sleep /\ Sentinels

(* The fold of the sequence is the sum of Sums_proof.                      *)
LEMMA SumOfCounts ==
    ASSUME NEW f PROVE FoldSeq(+, 0, f) = SumFunction(f)
  BY DEF FoldSeq, FoldFunction, SumFunction, SumFunctionOnSet

(* Replacing the oldest count keeps the sum in step with the array.        *)
LEMMA CountSentinelsSums ==
    ASSUME NEW n \in Nat, n >= 1, Sentinels, CountSentinels(n)
    PROVE  Sentinels'
<1> DEFINE D == 1 .. SENTINEL_COUNT_HISTORY
           a == sentinel_count_history
           i == sentinel_count_history_tail + 1
<1>1. a \in [D -> Nat] /\ a \in [D -> Int] /\ i \in D /\ a[i] \in Nat
      /\ n \in Int
  BY ConstantTypes DEF Sentinels
<1>2. IsFiniteSet(D)
  BY ConstantTypes, FS_Interval
<1>3. /\ SumFunction([a EXCEPT ![i] = n]) = SumFunction(a) - a[i] + n
      /\ SumFunction(a) \in Int
  <2> HIDE DEF D, a, i
  <2> QED
    BY <1>1, <1>2, TotalUpdate
<1>4. a' = [a EXCEPT ![i] = n]
  BY DEF CountSentinels
<1>5. recent_sentinel_count' = (recent_sentinel_count - a[i]) + n
  BY DEF CountSentinels
<1>6. sentinel_count_history_tail' \in 0 .. (SENTINEL_COUNT_HISTORY - 1)
  <2>1. sentinel_count_history_tail + 1 \in Nat
    BY ConstantTypes DEF Sentinels
  <2> QED
    BY <2>1, ConstantTypes DEF CountSentinels
<1>7. /\ a' \in [D -> Nat] /\ a'[1] >= 1
      /\ (\A j \in D : a[j] >= 1) => \A j \in D : a'[j] >= 1
  BY <1>1, <1>4, ConstantTypes DEF Sentinels
<1>8. \/ recent_sentinel_count = SumFunction(a) + (SENTINEL_COUNT_HISTORY - 1)
      \/ recent_sentinel_count = SumFunction(a) /\ \A j \in D : a[j] >= 1
  BY DEF Sentinels
<1>9. SumFunction(a') = SumFunction(a) - a[i] + n
  BY <1>3, <1>4
<1>10. \/ recent_sentinel_count' = SumFunction(a') + (SENTINEL_COUNT_HISTORY - 1)
       \/ recent_sentinel_count' = SumFunction(a') /\ \A j \in D : a'[j] >= 1
  <2> DEFINE x == SumFunction(a)
             y == SumFunction(a')
  <2>1. x \in Int
    BY <1>3
  <2> HIDE DEF x, y, D, i
  <2> QED
    BY <2>1, <1>1, <1>5, <1>7, <1>8, <1>9, ConstantTypes DEF x, y
<1> QED
  BY <1>6, <1>7, <1>10 DEF Sentinels

(* The sum is at least the number of counts, so their average is not 0.    *)
LEMMA AverageNotZero ==
    ASSUME Sentinels
    PROVE  /\ recent_sentinel_count \in Nat
           /\ recent_sentinel_count >= SENTINEL_COUNT_HISTORY
<1> DEFINE D == 1 .. SENTINEL_COUNT_HISTORY
           a == sentinel_count_history
<1>1. a \in [D -> Nat] /\ a[1] >= 1 /\ 1 \in D /\ a[1] \in Nat
  BY ConstantTypes DEF Sentinels
<1>2. IsFiniteSet(D) /\ Cardinality(D) = SENTINEL_COUNT_HISTORY
  BY ConstantTypes, FS_Interval
<1>3. SumFunction(a) \in Nat /\ a[1] <= SumFunction(a)
  <2> HIDE DEF D, a
  <2> QED
    BY <1>1, <1>2, TotalNat
<1>4. (\A j \in D : a[j] >= 1) => SumFunction(a) >= SENTINEL_COUNT_HISTORY
  <2> HIDE DEF D, a
  <2> QED
    BY <1>1, <1>2, TotalAtLeast
<1>5. \/ recent_sentinel_count = SumFunction(a) + (SENTINEL_COUNT_HISTORY - 1)
      \/ recent_sentinel_count = SumFunction(a) /\ \A j \in D : a[j] >= 1
  BY DEF Sentinels
<1> QED
  <2> HIDE DEF a, D
  <2> QED
    BY <1>1, <1>3, <1>4, <1>5, ConstantTypes

-----------------------------------------------------------------------------
(* The histories as non_boss_scheduler and boss_scheduler make them.       *)
LEMMA InitIInv == Init => IInv
<1> SUFFICES ASSUME Init PROVE IInv
  OBVIOUS
<1>1. Fails
  <2>1. Multiple(0, ATTEMPTS)
    BY ConstantTypes, MultipleSelf
  <2> QED
    BY <2>1, ConstantTypes, Thresholds DEF Init, Fails
<1>2. Histories /\ Sleep
  BY HistoryTypes DEF Init, Histories, Sleep
<1>3. Sentinels
  <2> DEFINE D == 1 .. SENTINEL_COUNT_HISTORY
             z == [i \in D |-> 0]
  <2>1. /\ z \in [D -> Int] /\ 1 \in D /\ z[1] = 0 /\ \A i \in D : z[i] = 0
        /\ sentinel_count_history = [z EXCEPT ![1] = 1]
    BY ConstantTypes DEF Init
  <2>2. IsFiniteSet(D) /\ Cardinality(D) = SENTINEL_COUNT_HISTORY
    BY ConstantTypes, FS_Interval
  <2>3. SumFunction(sentinel_count_history) = 1
    <3> HIDE DEF D, z
    <3>1. SumFunction(z) = 0 * Cardinality(D)
      BY <2>1, <2>2, TotalConstant
    <3>2. \A w \in D, v \in Int : SumFunction([z EXCEPT ![w] = v]) = SumFunction(z) - z[w] + v
      BY <2>1, <2>2, TotalUpdate
    <3>3. SumFunction([z EXCEPT ![1] = 1]) = SumFunction(z) - z[1] + 1
      <4>1. 1 \in D /\ 1 \in Int
        BY <2>1
      <4> QED
        BY <3>2, <4>1, Zenon
    <3> QED
      BY <2>1, <2>2, <3>1, <3>3, ConstantTypes
  <2>4. /\ sentinel_count_history \in [D -> Nat] /\ sentinel_count_history[1] >= 1
        /\ sentinel_count_history_tail \in 0 .. (SENTINEL_COUNT_HISTORY - 1)
    BY ConstantTypes DEF Init
  <2>5. recent_sentinel_count = 1 + (SENTINEL_COUNT_HISTORY - 1)
    BY ConstantTypes DEF Init
  <2> QED
    BY <2>3, <2>4, <2>5 DEF Sentinels
<1> QED
  BY <1>1, <1>2, <1>3 DEF IInv

(* A failed steal that is only counted.                                    *)
LEMMA CountFailStep == IInv /\ CountFail => IInv'
<1> SUFFICES ASSUME IInv, CountFail PROVE IInv'
  OBVIOUS
<1> DEFINE n == fails + ATTEMPTS
<1>1. n \in Nat /\ n > fails /\ fails \in Nat /\ Multiple(fails, ATTEMPTS)
  BY ConstantTypes DEF IInv, Fails
<1>2. Multiple(ATTEMPTS, ATTEMPTS)
  BY ConstantTypes, MultipleSelf
<1>3. Multiple(n, ATTEMPTS)
  BY <1>1, <1>2, ConstantTypes, MultipleSum
<1>4. Multiple(MAX_FAILS, ATTEMPTS)
  BY Thresholds, ConstantTypes, MultipleTrans
<1>5. /\ fails' = IF n % SENTINEL_THRESHOLD = 0 THEN MAX_FAILS ELSE n
      /\ UNCHANGED <<pc, sample_threshold, samples, counted>>
  BY DEF CountFail
<1>6. ATTEMPTS <= SENTINEL_THRESHOLD
  BY Thresholds
<1>7. n % SENTINEL_THRESHOLD # 0 => n <= MAX_FAILS + SENTINEL_THRESHOLD - ATTEMPTS
  <2> DEFINE m == MAX_FAILS + SENTINEL_THRESHOLD
  <2>1. Multiple(SENTINEL_THRESHOLD, SENTINEL_THRESHOLD)
    BY ConstantTypes, MultipleSelf
  <2>2. m \in Nat /\ Multiple(m, SENTINEL_THRESHOLD)
    BY <2>1, Thresholds, ConstantTypes, MultipleSum
  <2>3. Multiple(m, ATTEMPTS)
    BY <2>2, ConstantTypes, MultipleTrans
  <2>4. n <= m
    BY <1>1, ConstantTypes, Thresholds DEF IInv, Fails
  <2>5. n < m => n + ATTEMPTS <= m
    <3> HIDE DEF n, m
    <3> QED
      BY <1>1, <1>3, <2>2, <2>3, ConstantTypes, MultipleSum
  <2>6. n = m => n % SENTINEL_THRESHOLD = 0
    <3> HIDE DEF n, m
    <3> QED
      BY <2>2, ConstantTypes, MultipleMod
  <2> QED
    BY <1>1, <2>2, <2>4, <2>5, <2>6, ConstantTypes, Thresholds
<1> HIDE DEF n
<1>8. Fails'
  BY <1>1, <1>3, <1>4, <1>5, <1>6, <1>7, ConstantTypes, Thresholds
     DEF IInv, Fails
<1>9. fails' >= fails \/ fails' >= SENTINEL_THRESHOLD + SENTINEL_THRESHOLD
  BY <1>1, <1>5, ConstantTypes, Thresholds
<1>10. Histories'
  BY <1>1, <1>5, <1>8, <1>9, ConstantTypes DEF IInv, Fails, Histories, samples
<1>11. Sleep'
  BY <1>1, <1>5, <1>8, <1>9, ConstantTypes DEF IInv, Fails, Sleep
<1>12. Sentinels'
  BY <1>5 DEF IInv, Sentinels, counted
<1> QED
  BY <1>8, <1>10, <1>11, <1>12 DEF IInv

(* A failed steal at which a sample is taken.  A worker that goes to sleep *)
(* had at least SENTINEL_THRESHOLD fails before, since one sample in an    *)
(* empty history is not enough.                                            *)
LEMMA SampleCountsStep == IInv /\ SampleCounts => IInv'
<1> SUFFICES ASSUME IInv, SampleCounts PROVE IInv'
  OBVIOUS
<1>1. PICK c \in Counts(1, 0) :
        /\ CountSentinels(c.sentinels)
        /\ efficient_history' = AddSample(efficient_history, is_efficient(c))
        /\ inefficient_history' = AddSample(inefficient_history, is_inefficient(c))
        /\ \/ pc' = "steal"
           \/ WantsToDisengage(c) /\ pc' = "disengaged"
  BY DEF SampleCounts
<1>2. /\ (fails + ATTEMPTS) % SENTINEL_THRESHOLD = 0 /\ fails' = fails + ATTEMPTS
      /\ fails + ATTEMPTS <= MAX_FAILS /\ sample_threshold' = sample_threshold
  BY DEF SampleCounts
<1>3. fails \in Nat /\ fails' \in Nat /\ fails' > fails /\ Multiple(fails', SENTINEL_THRESHOLD)
  BY <1>2, ConstantTypes, MultipleMod DEF IInv, Fails
<1>4. fails' >= SENTINEL_THRESHOLD
  <2>1. Multiple(0, SENTINEL_THRESHOLD)
    BY ConstantTypes, MultipleSelf
  <2>2. 0 < fails'
    BY <1>3
  <2>3. 0 + SENTINEL_THRESHOLD <= fails'
    BY <1>3, <2>1, <2>2, ConstantTypes, MultipleSum
  <2>4. fails' \in Nat /\ SENTINEL_THRESHOLD \in Nat
    BY <1>3, ConstantTypes
  <2> QED
    BY <2>3, <2>4
<1>5. fails >= SENTINEL_THRESHOLD => fails' >= 2 * SENTINEL_THRESHOLD
  <2> SUFFICES ASSUME SENTINEL_THRESHOLD < fails'
               PROVE  fails' >= 2 * SENTINEL_THRESHOLD
    BY <1>3, ConstantTypes
  <2>1. Multiple(SENTINEL_THRESHOLD, SENTINEL_THRESHOLD)
    BY ConstantTypes, MultipleSelf
  <2>2. SENTINEL_THRESHOLD + SENTINEL_THRESHOLD <= fails'
    BY <1>3, <2>1, ConstantTypes, MultipleSum
  <2>3. fails' \in Nat /\ SENTINEL_THRESHOLD \in Nat
    BY <1>3, ConstantTypes
  <2> QED
    BY <2>2, <2>3
<1>6. Fails'
  <2>1. Multiple(fails', ATTEMPTS)
    BY <1>3, ConstantTypes, MultipleTrans
  <2> QED
    BY <2>1, <1>2, <1>3, ConstantTypes, Thresholds DEF IInv, Fails
<1>7. Histories'
  <2>1. inefficient_history' \in History /\ efficient_history' \in History
    BY <1>1, HistoryTypes, SampleTypes DEF IInv, Histories
  <2> QED
    BY <1>3, <1>4, <2>1, ConstantTypes DEF Histories
<1>8. WantsToDisengage(c) => fails >= SENTINEL_THRESHOLD
  <2> SUFFICES ASSUME WantsToDisengage(c), inefficient_history = Clear
               PROVE  FALSE
    BY <1>3, ConstantTypes DEF IInv, Histories
  <2> DEFINE p == popcount(inefficient_history')
             q == popcount(efficient_history')
  <2>1. p \in Nat /\ q \in Nat
    BY Popcounts
  <2>2. p <= 1
    <3>1. inefficient_history' = AddSample(Clear, is_inefficient(c))
      BY <1>1
    <3> QED
      BY <3>1, Popcounts, SampleTypes
  <2>3. p - q > HISTORY_THRESHOLD
    BY DEF WantsToDisengage
  <2> HIDE DEF p, q
  <2> QED
    BY <2>1, <2>2, <2>3, ConstantTypes
<1>9. Sleep'
  BY <1>1, <1>5, <1>8 DEF Sleep
<1>10. Sentinels'
  <2>1. c.sentinels \in Nat /\ c.sentinels >= 1
    BY ConstantTypes DEF Counts
  <2> QED
    BY <1>1, <2>1, CountSentinelsSums DEF IInv
<1> QED
  BY <1>6, <1>7, <1>9, <1>10 DEF IInv

(* Waking up, after any time: the worker is a sentinel.                    *)
LEMMA ReengageStep ==
    ASSUME IInv, NEW e \in Times, Reengage(e)
    PROVE  IInv' /\ fails' >= SENTINEL_THRESHOLD
<1> DEFINE scaled == get_scaled_elapsed(e)
           n == scaled \div SENTINEL_THRESHOLD
<1>1. scaled \in Nat /\ Multiple(scaled, ATTEMPTS)
  BY Scaled
<1>2. n \in Nat
  <2> HIDE DEF scaled
  <2> QED
    BY <1>1, ConstantTypes
<1>3. /\ pc = "disengaged" /\ pc' = "steal"
      /\ sample_threshold' = SENTINEL_THRESHOLD
      /\ fails' = IF scaled < SENTINEL_THRESHOLD THEN fails - scaled
                  ELSE DISENGAGE_THRESHOLD - SENTINEL_THRESHOLD
      /\ \/ UNCHANGED samples
         \/ /\ inefficient_history' = ShiftRight(inefficient_history, n)
            /\ efficient_history' = ShiftRight(efficient_history, n)
      /\ \/ UNCHANGED counted
         \/ \E s \in 1 .. NWorkers :
                /\ sentinel_count_history' = [i \in 1 .. SENTINEL_COUNT_HISTORY |-> s]
                /\ recent_sentinel_count' = s * SENTINEL_COUNT_HISTORY
                /\ UNCHANGED sentinel_count_history_tail
  BY DEF Reengage
<1> HIDE DEF scaled, n
<1>4. /\ fails \in Nat /\ Multiple(fails, ATTEMPTS)
      /\ fails <= MAX_FAILS + SENTINEL_THRESHOLD - ATTEMPTS
      /\ fails >= 2 * SENTINEL_THRESHOLD
  BY <1>3 DEF IInv, Fails, Sleep
<1>5. /\ fails' \in Nat /\ fails' <= MAX_FAILS + SENTINEL_THRESHOLD - ATTEMPTS
      /\ fails' >= SENTINEL_THRESHOLD /\ Multiple(fails', ATTEMPTS)
  <2>1. CASE scaled < SENTINEL_THRESHOLD
    <3>1. fails' = fails - scaled
      BY <1>3, <2>1
    <3>2. scaled <= fails
      BY <1>1, <1>4, <2>1, ConstantTypes
    <3>3. Multiple(fails - scaled, ATTEMPTS)
      BY <1>1, <1>4, <3>2, ConstantTypes, MultipleSum
    <3>4. fails' \in Nat /\ fails' <= fails /\ fails' >= SENTINEL_THRESHOLD
      BY <1>1, <1>4, <2>1, <3>1, <3>2, ConstantTypes
    <3>5. fails' <= MAX_FAILS + SENTINEL_THRESHOLD - ATTEMPTS
      BY <3>4, <1>4, ConstantTypes, Thresholds
    <3> QED
      BY <3>1, <3>3, <3>4, <3>5
  <2>2. CASE ~(scaled < SENTINEL_THRESHOLD)
    <3>1. fails' = DISENGAGE_THRESHOLD - SENTINEL_THRESHOLD
      BY <1>3, <2>2
    <3>2. Multiple(DISENGAGE_THRESHOLD - SENTINEL_THRESHOLD, SENTINEL_THRESHOLD)
      BY Thresholds, ConstantTypes, MultipleSelf, MultipleSum
    <3>3. /\ DISENGAGE_THRESHOLD - SENTINEL_THRESHOLD \in Nat
          /\ DISENGAGE_THRESHOLD - SENTINEL_THRESHOLD
                  <= MAX_FAILS + SENTINEL_THRESHOLD - ATTEMPTS
      BY Thresholds, ConstantTypes
    <3>4. Multiple(DISENGAGE_THRESHOLD - SENTINEL_THRESHOLD, ATTEMPTS)
      BY <3>2, <3>3, ConstantTypes, MultipleTrans
    <3> QED
      BY <3>1, <3>3, <3>4, Thresholds
  <2> QED
    BY <2>1, <2>2
<1>6. Fails'
  BY <1>3, <1>5, ConstantTypes DEF Fails
<1>7. Histories'
  <2>1. inefficient_history' \in History /\ efficient_history' \in History
    BY <1>2, <1>3, HistoryTypes DEF IInv, Histories, samples
  <2>2. ~(fails' < SENTINEL_THRESHOLD)
    BY <1>5, ConstantTypes
  <2> QED
    BY <2>1, <2>2 DEF Histories
<1>8. Sleep'
  BY <1>3 DEF Sleep
<1>9. Sentinels'
  <2>1. CASE UNCHANGED counted
    BY <2>1 DEF IInv, Sentinels, counted
  <2>2. CASE \E s \in 1 .. NWorkers :
                /\ sentinel_count_history' = [i \in 1 .. SENTINEL_COUNT_HISTORY |-> s]
                /\ recent_sentinel_count' = s * SENTINEL_COUNT_HISTORY
                /\ UNCHANGED sentinel_count_history_tail
    <3> DEFINE D == 1 .. SENTINEL_COUNT_HISTORY
               a == sentinel_count_history'
    <3>1. PICK s \in 1 .. NWorkers :
                /\ a = [i \in D |-> s]
                /\ recent_sentinel_count' = s * SENTINEL_COUNT_HISTORY
                /\ UNCHANGED sentinel_count_history_tail
      BY <2>2
    <3>2. s \in Nat /\ s \in Int /\ s >= 1
      BY ConstantTypes
    <3>3. /\ a \in [D -> Int] /\ a \in [D -> Nat]
          /\ \A i \in D : a[i] = s /\ a[i] >= 1
      BY <3>1, <3>2
    <3>4. IsFiniteSet(D) /\ Cardinality(D) = SENTINEL_COUNT_HISTORY /\ 1 \in D
      BY ConstantTypes, FS_Interval
    <3>5. SumFunction(a) = s * Cardinality(D)
      <4> HIDE DEF D, a
      <4> QED
        BY <3>2, <3>3, <3>4, TotalConstant
    <3>6. recent_sentinel_count' = SumFunction(a)
      BY <3>1, <3>4, <3>5
    <3>7. sentinel_count_history_tail' \in 0 .. (SENTINEL_COUNT_HISTORY - 1)
      BY <3>1 DEF IInv, Sentinels
    <3> QED
      BY <3>3, <3>4, <3>6, <3>7 DEF Sentinels
  <2> QED
    BY <1>3, <2>1, <2>2
<1> QED
  BY <1>5, <1>6, <1>7, <1>8, <1>9 DEF IInv

(* A successful steal.                                                     *)
LEMMA StealWorkStep == IInv /\ StealWork => IInv'
<1> SUFFICES ASSUME IInv, StealWork PROVE IInv'
  OBVIOUS
<1>1. CASE fails < SENTINEL_THRESHOLD
  <2>1. UNCHANGED <<fails, sample_threshold, samples, counted, request>> /\ pc' = "work"
    BY <1>1 DEF StealWork
  <2> QED
    BY <2>1 DEF IInv, Fails, Histories, Sleep, Sentinels, samples, counted
<1>2. CASE ~(fails < SENTINEL_THRESHOLD)
  <2>1. PICK c \in Counts(0, 1) :
            /\ CountSentinels(c.sentinels + 1) \/ UNCHANGED counted
            /\ \/ inefficient_history' = inefficient_history
               \/ inefficient_history' = Clear
               \/ inefficient_history' = AddSample(inefficient_history, is_inefficient(c))
            /\ \/ efficient_history' = efficient_history
               \/ efficient_history' = Clear
               \/ efficient_history' = AddSample(efficient_history, is_efficient(c))
            /\ fails' = SENTINEL_THRESHOLD
            /\ sample_threshold' = SENTINEL_THRESHOLD + SENTINEL_THRESHOLD
    BY <1>2 DEF StealWork
  <2>2. pc' = "work"
    BY DEF StealWork
  <2>3. c.sentinels + 1 \in Nat /\ c.sentinels + 1 >= 1
    BY ConstantTypes DEF Counts
  <2>4. Sentinels'
    <3>1. CASE CountSentinels(c.sentinels + 1)
      BY <3>1, <2>3, CountSentinelsSums DEF IInv
    <3>2. CASE UNCHANGED counted
      BY <3>2 DEF IInv, Sentinels, counted
    <3> QED
      BY <2>1, <3>1, <3>2
  <2>5. Fails'
    BY <2>1, ConstantTypes, Thresholds DEF Fails
  <2>6. Histories'
    <3>1. inefficient_history' \in History /\ efficient_history' \in History
      BY <2>1, HistoryTypes, SampleTypes DEF IInv, Histories
    <3>2. ~(fails' < SENTINEL_THRESHOLD)
      BY <2>1, ConstantTypes
    <3> QED
      BY <3>1, <3>2 DEF Histories
  <2>7. Sleep'
    BY <2>2 DEF Sleep
  <2> QED
    BY <2>4, <2>5, <2>6, <2>7 DEF IInv
<1> QED
  BY <1>1, <1>2

(* The end of the stolen work, whatever time it took.                      *)
LEMMA WorkStep ==
    ASSUME IInv, NEW e \in Times, Work(e)
    PROVE  IInv'
<1> DEFINE scaled == get_scaled_elapsed(e)
<1>1. scaled \in Nat /\ Multiple(scaled, ATTEMPTS)
  BY Scaled
<1>2. /\ pc' = "steal" /\ UNCHANGED counted
      /\ fails' = IF fails <= MIN_FAILS \/ scaled > fails THEN 0 ELSE fails - scaled
      /\ IF fails > MIN_FAILS
         THEN /\ sample_threshold' =
                   IF scaled > sample_threshold - SENTINEL_THRESHOLD
                   THEN SENTINEL_THRESHOLD ELSE sample_threshold - scaled
              /\ IF fails' < SENTINEL_THRESHOLD
                 THEN inefficient_history' = Clear /\ efficient_history' = Clear
                 ELSE UNCHANGED samples
         ELSE sample_threshold' = SENTINEL_THRESHOLD /\ UNCHANGED samples
  BY DEF Work, FailsAfterWork
<1> HIDE DEF scaled
<1>3. /\ fails \in Nat /\ Multiple(fails, ATTEMPTS)
      /\ fails <= MAX_FAILS + SENTINEL_THRESHOLD - ATTEMPTS
      /\ sample_threshold \in SENTINEL_THRESHOLD .. 2 * SENTINEL_THRESHOLD
  BY DEF IInv, Fails
<1>4. fails' \in Nat /\ fails' <= fails /\ Multiple(fails', ATTEMPTS)
  <2>1. CASE fails <= MIN_FAILS \/ scaled > fails
    BY <1>2, <1>3, <2>1, ConstantTypes, MultipleSelf
  <2>2. CASE ~(fails <= MIN_FAILS \/ scaled > fails)
    <3>1. fails' = fails - scaled /\ scaled <= fails
      BY <1>1, <1>2, <1>3, <2>2, ConstantTypes
    <3>2. Multiple(fails - scaled, ATTEMPTS)
      BY <1>1, <1>3, <3>1, ConstantTypes, MultipleSum
    <3> QED
      BY <1>1, <1>3, <3>1, <3>2
  <2> QED
    BY <2>1, <2>2
<1>5. sample_threshold' \in SENTINEL_THRESHOLD .. 2 * SENTINEL_THRESHOLD
  BY <1>1, <1>2, <1>3, ConstantTypes
<1>6. Fails'
  <2>1. fails' <= MAX_FAILS + SENTINEL_THRESHOLD - ATTEMPTS
    BY <1>3, <1>4, ConstantTypes, Thresholds
  <2> QED
    BY <1>4, <1>5, <2>1 DEF Fails
<1>7. Histories'
  <2>1. CASE fails > MIN_FAILS
    <3>1. IF fails' < SENTINEL_THRESHOLD
          THEN inefficient_history' = Clear /\ efficient_history' = Clear
          ELSE UNCHANGED samples
      BY <1>2, <2>1
    <3> QED
      BY <3>1, HistoryTypes DEF IInv, Histories, samples
  <2>2. CASE ~(fails > MIN_FAILS)
    <3>1. UNCHANGED samples
      BY <1>2, <2>2
    <3>2. fails < SENTINEL_THRESHOLD
      BY <2>2, <1>3, ConstantTypes
    <3> QED
      BY <3>1, <3>2 DEF IInv, Histories, samples
  <2> QED
    BY <2>1, <2>2
<1>8. Sleep' /\ Sentinels'
  BY <1>2 DEF IInv, Sleep, Sentinels, counted
<1> QED
  BY <1>6, <1>7, <1>8 DEF IInv

-----------------------------------------------------------------------------
(* No step breaks the invariant.                                           *)
LEMMA NextIInv == IInv /\ [Next]_vars => IInv'
<1> SUFFICES ASSUME IInv, [Next]_vars PROVE IInv'
  OBVIOUS
<1>1. CASE \E e \in Times : Reengage(e)
  BY <1>1, ReengageStep
<1>2. CASE \E e \in Times : Work(e)
  BY <1>2, WorkStep
<1>3. CASE UNCHANGED vars
  BY <1>3 DEF IInv, Fails, Histories, Sleep, Sentinels, vars, samples, counted
<1> QED
  BY <1>1, <1>2, <1>3, CountFailStep, SampleCountsStep, StealWorkStep DEF Next

(* The invariant holds in every reachable state of a worker's history.     *)
THEOREM Invariance == Spec => []IInv
  BY InitIInv, NextIInv, PTL DEF Spec

(* The fail count of history_t stays a multiple of ATTEMPTS in its range,  *)
(* no subtraction of unsigned numbers in reengage or                       *)
(* decrease_fails_by_work goes below zero, and the sample threshold stays  *)
(* where decrease_fails_by_work needs it.                                  *)
THEOREM FailsInRange == Spec => []CountsInRange
<1>1. IInv => CountsInRange
  <2> SUFFICES ASSUME IInv PROVE CountsInRange
    OBVIOUS
  <2>1. fails % ATTEMPTS = 0
    BY ConstantTypes, MultipleMod DEF IInv, Fails
  <2> QED
    BY <2>1, ConstantTypes, Thresholds
       DEF IInv, Fails, Histories, History, CountsInRange
<1> QED
  BY <1>1, Invariance, PTL

(* recent_sentinel_count is the sum of the array (or exceeds it by what    *)
(* history_t starts with), and the average that maybe_reengage_workers     *)
(* divides by is never zero.                                               *)
THEOREM AverageWellDefined == Spec => []RecentSum
<1>1. IInv => RecentSum
  <2> SUFFICES ASSUME IInv PROVE RecentSum
    OBVIOUS
  <2> DEFINE sum == SumFunction(sentinel_count_history)
  <2>1. /\ recent_sentinel_count \in Nat
        /\ recent_sentinel_count >= SENTINEL_COUNT_HISTORY
    BY AverageNotZero DEF IInv
  <2>2. recent_sentinel_count \div SENTINEL_COUNT_HISTORY >= 1
    BY <2>1, ConstantTypes, SMT
  <2>3. sum \in Nat
    <3>1. IsFiniteSet(1 .. SENTINEL_COUNT_HISTORY)
      BY ConstantTypes, FS_Interval
    <3>2. sentinel_count_history \in [1 .. SENTINEL_COUNT_HISTORY -> Nat]
      BY DEF IInv, Sentinels
    <3> QED
      BY <3>1, <3>2, TotalNat
  <2>4. \/ recent_sentinel_count = sum + (SENTINEL_COUNT_HISTORY - 1)
        \/ recent_sentinel_count = sum
    BY DEF IInv, Sentinels
  <2>5. FoldSeq(+, 0, sentinel_count_history) = sum
    BY SumOfCounts
  <2> HIDE DEF sum
  <2>6. recent_sentinel_count - sum \in {0, SENTINEL_COUNT_HISTORY - 1}
    BY <2>1, <2>3, <2>4, ConstantTypes
  <2> QED
    BY <2>2, <2>5, <2>6 DEF RecentSum
<1> QED
  BY <1>1, Invariance, PTL

(* Whoever wakes up after disengaging has at least SENTINEL_THRESHOLD      *)
(* fails, so that it is the sentinel it has been counted as.               *)
THEOREM WakesAsSentinel == Spec => DisengagesAsSentinel
<1>1. IInv /\ [Next]_vars
        => [pc = "disengaged" /\ pc' # "disengaged" => fails' >= SENTINEL_THRESHOLD]_vars
  <2> SUFFICES ASSUME IInv, Next, pc = "disengaged"
               PROVE  fails' >= SENTINEL_THRESHOLD
    OBVIOUS
  <2>1. \E e \in Times : Reengage(e)
    BY DEF Next, CountFail, SampleCounts, StealWork, Work
  <2> QED
    BY <2>1, ReengageStep
<1> QED
  BY <1>1, Invariance, PTL DEF Spec, DisengagesAsSentinel
=============================================================================
