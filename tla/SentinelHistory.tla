-------------------------- MODULE SentinelHistory ---------------------------
(***************************************************************************)
(* The efficiency history of one worker (history_t): how failed steals,    *)
(* samples of the worker counts, sleep and work change it, and what it     *)
(* makes the worker do.  The worker counts are read from words that the    *)
(* other workers change, so a sample may see any counts that are possible. *)
(* WorkerSleep has all the workers, and keeps of this history only what    *)
(* DisengagesAsSentinel and the type of fails say here.                    *)
(***************************************************************************)
EXTENDS Integers, Sequences, SequencesExt, FiniteSetsExt

CONSTANTS
    NWorkers, Self,
    SENTINEL_THRESHOLD, ATTEMPTS, NAP_THRESHOLD, MIN_FAILS,
    HISTORY_LENGTH,          \* samples that a history holds
    HISTORY_THRESHOLD,
    SENTINEL_COUNT_HISTORY,  \* sentinel counts that are averaged
    AS_RATIO,
    Word,                    \* number of values of unsigned int (2^32)
    TimeScale,               \* 65536 in get_scaled_elapsed
    MaxElapsed               \* bound: elapsed time, in cycles

ASSUME ThresholdAssumption ==
    /\ {NWorkers, SENTINEL_THRESHOLD, ATTEMPTS, SENTINEL_COUNT_HISTORY,
            Word, TimeScale} \subseteq Nat \ {0}
    /\ {Self, NAP_THRESHOLD, MIN_FAILS, HISTORY_LENGTH, AS_RATIO, MaxElapsed} \subseteq Nat
    /\ SENTINEL_THRESHOLD % ATTEMPTS = 0 /\ MIN_FAILS < SENTINEL_THRESHOLD
    /\ NAP_THRESHOLD % SENTINEL_THRESHOLD = 0
    /\ HISTORY_THRESHOLD \in 2 .. (HISTORY_LENGTH - 1)

VARIABLES
    pc,                             \* "steal", "work" or, asleep, "disengaged"
    fails, sample_threshold,
    inefficient_history,            \* the last samples, the newest first
    efficient_history,
    sentinel_count_history, sentinel_count_history_tail,
    recent_sentinel_count,
    request                         \* thieves asked for at the last steal

samples == <<inefficient_history, efficient_history>>
counted == <<sentinel_count_history, sentinel_count_history_tail, recent_sentinel_count>>
vars == <<pc, fails, sample_threshold, samples, counted, request>>

DISENGAGE_THRESHOLD == HISTORY_THRESHOLD * SENTINEL_THRESHOLD

MAX_FAILS == 2 * Max({NAP_THRESHOLD, DISENGAGE_THRESHOLD})

Times == 0 .. MaxElapsed

-----------------------------------------------------------------------------
(* Worker counts *)

(* What get_worker_counts can return to a worker, of the kind given. *)
Counts(sentinels, active) ==
    {c \in [active : active .. NWorkers, sentinels : sentinels .. NWorkers] :
        c.active + c.sentinels \in 1 .. NWorkers}

is_inefficient(c) ==
    c.sentinels > 1 /\ c.active >= 1 /\ c.active * AS_RATIO < c.sentinels

is_efficient(c) == c.active >= c.sentinels * AS_RATIO \/ c.sentinels <= 1

-----------------------------------------------------------------------------
(* Histories *)

Clear == [i \in 1 .. HISTORY_LENGTH |-> FALSE]

(* h >> n *)
ShiftRight(h, n) == [i \in 1 .. HISTORY_LENGTH |-> i > n /\ h[i - n]]

(* (h >> 1) | (s << (HISTORY_LENGTH - 1)) *)
AddSample(h, s) == [ShiftRight(h, 1) EXCEPT ![1] = s]

popcount(h) == Quantify(1 .. HISTORY_LENGTH, LAMBDA i : h[i])

(* Seeded fault: the oldest count stays in the sum. *)
CountSentinelsOnTop(n) ==
    /\ recent_sentinel_count' = recent_sentinel_count + n
    /\ sentinel_count_history' =
            [sentinel_count_history EXCEPT ![sentinel_count_history_tail + 1] = n]
    /\ sentinel_count_history_tail' =
            (sentinel_count_history_tail + 1) % SENTINEL_COUNT_HISTORY

(* Replace the oldest sentinel count by n. *)
CountSentinels(n) ==
    /\ recent_sentinel_count' =
            (recent_sentinel_count
                - sentinel_count_history[sentinel_count_history_tail + 1]) + n
    /\ sentinel_count_history' =
            [sentinel_count_history EXCEPT ![sentinel_count_history_tail + 1] = n]
    /\ sentinel_count_history_tail' =
            (sentinel_count_history_tail + 1) % SENTINEL_COUNT_HISTORY

(* Seeded fault: the result is not a multiple of ATTEMPTS. *)
UnroundedElapsed(elapsed) == ((elapsed % Word) * SENTINEL_THRESHOLD % Word) \div TimeScale

(* A time is cut to an unsigned int, multiplied as one, and then divided. *)
get_scaled_elapsed(elapsed) ==
    (((((elapsed % Word) * SENTINEL_THRESHOLD) % Word) \div TimeScale) \div ATTEMPTS)
        * ATTEMPTS

-----------------------------------------------------------------------------
(* A history_t as non_boss_scheduler and boss_scheduler make it, with the  *)
(* fails of init_fails.                                                    *)
Init ==
    /\ pc = "steal"
    /\ fails \in {0, SENTINEL_THRESHOLD}
    /\ sample_threshold = SENTINEL_THRESHOLD
    /\ inefficient_history = Clear /\ efficient_history = Clear
    /\ sentinel_count_history =
            [i \in 1 .. SENTINEL_COUNT_HISTORY |-> IF i = 1 THEN 1 ELSE 0]
    /\ sentinel_count_history_tail = 0
    /\ recent_sentinel_count = SENTINEL_COUNT_HISTORY
    /\ request = 0

(* Seeded fault: one inefficient sample is enough. *)
DisengageAtOnce(c) == Self # 0 /\ is_inefficient(c)

(* A worker that sees is_inefficient often enough goes to sleep if the     *)
(* counts still say so.                                                    *)
WantsToDisengage(c) ==
    /\ Self # 0
    /\ is_inefficient(c)
    /\ popcount(inefficient_history') - popcount(efficient_history') > HISTORY_THRESHOLD

(* handle_failed_steal_attempts: most failures are only counted, ... *)
CountFail ==
    LET n == fails + ATTEMPTS
    IN /\ pc = "steal"
       /\ n % SENTINEL_THRESHOLD # 0 \/ n > MAX_FAILS
       /\ fails' = IF n % SENTINEL_THRESHOLD = 0 THEN MAX_FAILS ELSE n
       /\ UNCHANGED <<pc, sample_threshold, samples, counted, request>>

(* ... every SENTINEL_THRESHOLD of them the worker, a sentinel now, takes  *)
(* a sample.  The boss never disengages.                                   *)
SampleCounts ==
    /\ pc = "steal"
    /\ (fails + ATTEMPTS) % SENTINEL_THRESHOLD = 0
    /\ fails + ATTEMPTS <= MAX_FAILS
    /\ fails' = fails + ATTEMPTS
    /\ \E c \in Counts(1, 0) :
        /\ CountSentinels(c.sentinels)
        /\ efficient_history' = AddSample(efficient_history, is_efficient(c))
        /\ inefficient_history' = AddSample(inefficient_history, is_inefficient(c))
        /\ \/ pc' = "steal"
           \/ WantsToDisengage(c) /\ pc' = "disengaged"
    /\ UNCHANGED <<sample_threshold, request>>

(* The worker is woken, as a sentinel; a long sleep empties the histories. *)
Reengage(elapsed) ==
    LET scaled == get_scaled_elapsed(elapsed)
        n == scaled \div SENTINEL_THRESHOLD
    IN /\ pc = "disengaged"
       /\ pc' = "steal"
       /\ IF scaled > SENTINEL_THRESHOLD
          THEN /\ inefficient_history' = ShiftRight(inefficient_history, n)
               /\ efficient_history' = ShiftRight(efficient_history, n)
          ELSE UNCHANGED samples
       /\ IF scaled > SENTINEL_THRESHOLD /\ n >= HISTORY_LENGTH
          THEN \E s \in 1 .. NWorkers :
                /\ sentinel_count_history' = [i \in 1 .. SENTINEL_COUNT_HISTORY |-> s]
                /\ recent_sentinel_count' = s * SENTINEL_COUNT_HISTORY
                /\ UNCHANGED sentinel_count_history_tail
          ELSE UNCHANGED counted
       /\ fails' = IF scaled < SENTINEL_THRESHOLD THEN fails - scaled
                   ELSE DISENGAGE_THRESHOLD - SENTINEL_THRESHOLD
       /\ sample_threshold' = SENTINEL_THRESHOLD
       /\ UNCHANGED request

(* The thieves to ask for, from the difference of the histories and the    *)
(* average recent sentinel count.                                          *)
Requested(eff_diff, avg_sentinels) ==
    LET remainder == eff_diff % avg_sentinels
    IN eff_diff \div avg_sentinels
        + (IF remainder # 0 /\ Self % remainder # 0 THEN 1 ELSE 0)

(* The last sentinel asks for more if the pending requests, tokens, are    *)
(* too few for the active workers.                                         *)
OneSentinelRequest(c, tokens) ==
    LET wanted == (c.active + 3) \div 4
    IN IF c.sentinels = 0 /\ c.active < NWorkers /\ tokens < wanted
       THEN wanted - tokens ELSE 0

(* maybe_reengage_workers: a steal succeeded, and the sentinel is one no   *)
(* more.                                                                   *)
StealWork ==
    /\ pc = "steal"
    /\ pc' = "work"
    /\ IF fails < SENTINEL_THRESHOLD
       THEN UNCHANGED <<fails, sample_threshold, samples, counted, request>>
       ELSE \E c \in Counts(0, 1), tokens \in 0 .. NWorkers :
            LET sampled == fails >= sample_threshold
                ineff == IF sampled THEN AddSample(inefficient_history, is_inefficient(c))
                         ELSE inefficient_history
                eff == IF sampled THEN AddSample(efficient_history, is_efficient(c))
                       ELSE efficient_history
                eff_diff == popcount(eff) - popcount(ineff)
                used == eff_diff >= HISTORY_THRESHOLD
                asked == IF used THEN Requested(eff_diff, recent_sentinel_count'
                                                            \div SENTINEL_COUNT_HISTORY)
                         ELSE 0
            IN /\ IF sampled THEN CountSentinels(c.sentinels + 1) ELSE UNCHANGED counted
               /\ inefficient_history' = IF used THEN Clear ELSE ineff
               /\ efficient_history' = IF used THEN Clear ELSE eff
               /\ request' = IF asked = 0 THEN OneSentinelRequest(c, tokens) ELSE asked
               /\ fails' = SENTINEL_THRESHOLD
               /\ sample_threshold' = SENTINEL_THRESHOLD + SENTINEL_THRESHOLD

FailsAfterWork(elapsed) ==
    LET scaled == get_scaled_elapsed(elapsed)
    IN IF fails <= MIN_FAILS \/ scaled > fails THEN 0 ELSE fails - scaled

(* decrease_fails_by_work, and what worker_scheduler does around it. *)
Work(elapsed) ==
    LET scaled == get_scaled_elapsed(elapsed)
    IN /\ pc = "work"
       /\ pc' = "steal"
       /\ fails' = FailsAfterWork(elapsed)
       /\ IF fails > MIN_FAILS
          THEN /\ sample_threshold' =
                    IF scaled > sample_threshold - SENTINEL_THRESHOLD
                    THEN SENTINEL_THRESHOLD ELSE sample_threshold - scaled
               /\ IF fails' < SENTINEL_THRESHOLD
                  THEN inefficient_history' = Clear /\ efficient_history' = Clear
                  ELSE UNCHANGED samples
          ELSE sample_threshold' = SENTINEL_THRESHOLD /\ UNCHANGED samples
       /\ request' = 0
       /\ UNCHANGED counted

Next ==
    \/ CountFail
    \/ SampleCounts
    \/ StealWork
    \/ \E e \in Times : Reengage(e) \/ Work(e)

Spec == Init /\ [][Next]_vars

-----------------------------------------------------------------------------
(* Properties *)

(* No subtraction of unsigned numbers goes below zero, and the counts stay *)
(* what the sleep logic needs: "The fail count must be a multiple of       *)
(* ATTEMPTS for the sleep logic to work", it never exceeds its maximum by  *)
(* a whole SENTINEL_THRESHOLD, and the sample threshold, from which        *)
(* decrease_fails_by_work subtracts SENTINEL_THRESHOLD, is not below it.   *)
CountsInRange ==
    /\ fails \in 0 .. (MAX_FAILS + SENTINEL_THRESHOLD - ATTEMPTS)
    /\ fails % ATTEMPTS = 0
    /\ sample_threshold \in SENTINEL_THRESHOLD .. 2 * SENTINEL_THRESHOLD
    /\ inefficient_history \in [1 .. HISTORY_LENGTH -> BOOLEAN]
    /\ efficient_history \in [1 .. HISTORY_LENGTH -> BOOLEAN]

(* The running sum never falls behind the array it sums up, so the average *)
(* that maybe_reengage_workers divides by is not zero.  The sum starts at  *)
(* SENTINEL_COUNT_HISTORY while the array holds a single 1; this           *)
(* difference stays until a long sleep.                                    *)
RecentSum ==
    LET sum == FoldSeq(+, 0, sentinel_count_history)
    IN /\ recent_sentinel_count - sum \in {0, SENTINEL_COUNT_HISTORY - 1}
       /\ recent_sentinel_count \div SENTINEL_COUNT_HISTORY >= 1

(* A thief that wakes up has been counted as a sentinel by the one who     *)
(* disengaged it, so its fails must make it one, however long it slept:    *)
(* else the count of sentinels would never be corrected.  (The histories   *)
(* are emptied whenever fails falls below SENTINEL_THRESHOLD, and it takes *)
(* several samples to fill them.)                                          *)
DisengagesAsSentinel ==
    [][pc = "disengaged" /\ pc' # "disengaged" => fails' >= SENTINEL_THRESHOLD]_vars

(* "Decrement the count of failed steal attempts based on the amount of    *)
(* work done": work whose time is worth more than all the fails leaves     *)
(* none.                                                                   *)
WorkPays ==
    \A e \in Times :
        pc = "work" /\ (e * SENTINEL_THRESHOLD) \div TimeScale >= fails + ATTEMPTS
            => FailsAfterWork(e) = 0
=============================================================================
