---------------------------- MODULE WorkerSleep ----------------------------
(***************************************************************************)
(* The life of the worker threads: how they wait for a Cilkified region,   *)
(* enter and leave the work-stealing loop, become sentinels, disengage and *)
(* are reengaged within a region, and terminate (worker_sleep.cpp,         *)
(* global.cpp, and the loops of scheduler.cpp and init.cpp around them).   *)
(*                                                                         *)
(* A step is one atomic operation on a shared word.  What a worker steals  *)
(* and executes is ClosureTree's subject; here a worker has work or has    *)
(* none, somebody has work until the region ends, and the one who ends it  *)
(* is the only one who has.  The efficiency histories are data, counted in *)
(* SentinelHistory: all that is kept of them here is whether there may be  *)
(* an inefficient sample on record.                                        *)
(***************************************************************************)
EXTENDS Integers, FiniteSets

CONSTANTS
    NWorkers,           \* g->nworkers; worker 0 is the boss
    AS_RATIO,
    SENTINEL_THRESHOLD, \* in units of ATTEMPTS, like every count of fails
    MIN_FAILS,
    HISTORY_THRESHOLD,
    NAP_THRESHOLD,
    IntMax,             \* stands for INT_MAX
    HalfWord            \* stands for 2^32

(* The relations between the constants of efficiency.h, worker_sleep.cpp   *)
(* and worker_scheduler that the protocol relies on.                       *)
ASSUME ThresholdAssumption ==
    /\ NWorkers \in Nat \ {0}
    /\ AS_RATIO \in Nat \ {0}
    /\ NAP_THRESHOLD \in Nat /\ MIN_FAILS \in Nat /\ SENTINEL_THRESHOLD \in Nat
    /\ MIN_FAILS < SENTINEL_THRESHOLD /\ NAP_THRESHOLD % SENTINEL_THRESHOLD = 0
    /\ HISTORY_THRESHOLD \in Nat /\ HISTORY_THRESHOLD > 1
    /\ HalfWord \in Nat /\ HalfWord > NWorkers
    /\ IntMax \in Nat /\ IntMax > 3 * NWorkers

VARIABLES
    cilkified, done, terminate,
    tokens,    \* disengaged_thieves
    ds,        \* disengaged_sentinel, a packed word
    i2w, w2i,  \* index_to_worker, worker_to_index
    indexLock, \* the holder of index_lock, or NoOne
    asleep,    \* threads blocked in disengaged_thieves.wait(0)
    bossAsleep,\* the boss is blocked in cilkified.wait(true)
    pc,        \* what each thread does next
    fails,     \* its consecutive failed steal attempts
    hist,      \* 1 if an inefficient sample may be on its record, else 0
    arg        \* what it read or computed: wake value, stealable, a count

region == <<cilkified, done, terminate>>
index  == <<i2w, w2i, indexLock>>
sleep  == <<asleep, bossAsleep>>
local  == <<fails, hist, arg>>
vars   == <<region, tokens, ds, index, sleep, pc, local>>

Boss == 0
Workers == 0 .. NWorkers - 1
Thieves == Workers \ {Boss}
NoOne == NWorkers

DISENGAGE_THRESHOLD == HISTORY_THRESHOLD * SENTINEL_THRESHOLD
MAX_FAILS ==
    2 * IF NAP_THRESHOLD > DISENGAGE_THRESHOLD THEN NAP_THRESHOLD
                                               ELSE DISENGAGE_THRESHOLD

(* The packed word of global.h: disengaged workers in the upper half,      *)
(* sentinels in the lower half; one fetch_add changes both.                *)
GET_DISENGAGED(x) == x \div HalfWord
GET_SENTINEL(x)   == x % HalfWord
Added(x, d, s) == (x + d * HalfWord + s) % (HalfWord * HalfWord)

(* get_worker_counts and is_inefficient.                                   *)
Active(x) == NWorkers - GET_DISENGAGED(x) - GET_SENTINEL(x)
IsInefficient(x) ==
    /\ GET_SENTINEL(x) > 1
    /\ Active(x) >= 1
    /\ Active(x) * AS_RATIO < GET_SENTINEL(x)

(* global_state_init, workers_init: nothing is started yet.                *)
Init ==
    /\ cilkified = FALSE /\ done = FALSE /\ terminate = FALSE
    /\ tokens = 0 /\ ds = 0
    /\ i2w = [i \in Workers |-> i] /\ w2i = [w \in Workers |-> w]
    /\ indexLock = NoOne
    /\ asleep = {} /\ bossAsleep = FALSE
    /\ pc = [w \in Workers |-> IF w = Boss THEN "outside" ELSE "unborn"]
    /\ fails = [w \in Workers |-> 0] /\ hist = [w \in Workers |-> 0]
    /\ arg = [w \in Workers |-> 0]

Goto(w, to) == pc' = [pc EXCEPT ![w] = to]
At(w, from) == pc[w] = from

-----------------------------------------------------------------------------
(***************************************************************************)
(* The index structure.  The workers that take part in work stealing come  *)
(* first in index_to_worker; thieves read it without the lock.             *)
(***************************************************************************)

(* The first store of swap_worker_with_target, made with index_lock held,  *)
(* or nothing if w already is where it must be.                            *)
BeginSwap(w, needed, target, between, to) ==
    IF needed
    THEN /\ i2w' = [i2w EXCEPT ![w2i[w]] = i2w[target]]
         /\ indexLock' = w
         /\ Goto(w, between)
         /\ UNCHANGED w2i
    ELSE Goto(w, to) /\ UNCHANGED index

(* Leaving: last_index is the first index that is no longer valid.         *)
MoveOut(w, between, to) ==
    LET last == NWorkers - (GET_DISENGAGED(ds) + 1)
    IN  BeginSwap(w, w2i[w] < last, last, between, to)

(* Seeded fault: the index that becomes valid is taken from the new count. *)
MoveInLate(w, between, to) ==
    LET last == NWorkers - (GET_DISENGAGED(ds) - 1)
    IN  BeginSwap(w, w2i[w] > last, last, between, to)

(* Coming back: last_index is the index that becomes valid.                *)
MoveIn(w, between, to) ==
    LET last == NWorkers - GET_DISENGAGED(ds)
    IN  BeginSwap(w, w2i[w] > last, last, between, to)

(* The other stores of swap_worker_with_target, and unlock.                *)
SwapRest(w, from, target, to) ==
    /\ At(w, from)
    /\ i2w' = [i2w EXCEPT ![target] = w]
    /\ w2i' = [w2i EXCEPT ![i2w[w2i[w]]] = w2i[w], ![w] = target]
    /\ indexLock' = NoOne
    /\ Goto(w, to)
    /\ UNCHANGED <<region, tokens, ds, sleep, arg>>

LastOut == NWorkers - GET_DISENGAGED(ds)
LastIn  == NWorkers - (GET_DISENGAGED(ds) + 1)

-----------------------------------------------------------------------------
(***************************************************************************)
(* Waiting for tokens.                                                     *)
(***************************************************************************)

(* thief_should_wait finds a token and takes it ...                        *)
TakeToken(w, from, to) ==
    /\ At(w, from)
    /\ tokens > 0
    /\ tokens' = tokens - 1
    /\ Goto(w, to)
    /\ UNCHANGED <<region, ds, index, sleep>>

(* ... or finds none.                                                      *)
NoToken(w, from, to) ==
    /\ At(w, from)
    /\ tokens = 0
    /\ Goto(w, to)
    /\ UNCHANGED <<region, tokens, ds, index, sleep, local>>

(* thief_disengage: take a token ...                                       *)
Wake(w, from, to) ==
    /\ w \notin asleep
    /\ TakeToken(w, from, to)
    /\ UNCHANGED <<fails, hist>>

(* Seeded fault: a thread sleeps without comparing the count once more.    *)
MaySleepAlways == TRUE

(* disengaged_thieves.wait(0) blocks only if the count still is zero.      *)
MaySleep == tokens = 0

(* ... or sleep while the count is zero, until notified.                   *)
Sleep(w, from) ==
    /\ At(w, from) /\ w \notin asleep
    /\ MaySleep
    /\ asleep' = asleep \cup {w}
    /\ UNCHANGED <<region, tokens, ds, index, bossAsleep, pc, local>>

(* disengaged_thieves.notify_one.                                          *)
NotifyOne ==
    IF asleep = {} THEN UNCHANGED asleep
    ELSE \E v \in asleep : asleep' = asleep \ {v}

-----------------------------------------------------------------------------
(***************************************************************************)
(* scheduler_thread_proc: the outer loop of a worker thread.               *)
(***************************************************************************)
OuterTakeToken(w) ==
    /\ TakeToken(w, "outer", "check")
    /\ arg' = [arg EXCEPT ![w] = NWorkers]
    /\ UNCHANGED <<fails, hist>>

OuterNoToken(w) == NoToken(w, "outer", "disengage")

(* disengage_worker *)
DisengageWorker(w) ==
    /\ At(w, "disengage")
    /\ indexLock = NoOne
    /\ ds' = Added(ds, 1, 0)
    /\ MoveOut(w, "disengage2", "wait")
    /\ UNCHANGED <<region, tokens, sleep, local>>

DisengageSwap(w) == SwapRest(w, "disengage2", LastOut, "wait") /\ UNCHANGED <<fails, hist>>

(* thief_wait, which returns the count the token was taken from.           *)
ThiefWake(w)  == Wake(w, "wait", "reengage") /\ arg' = [arg EXCEPT ![w] = tokens]
ThiefSleep(w) == Sleep(w, "wait")

(* reengage_worker *)
ReengageWorker(w) ==
    /\ At(w, "reengage")
    /\ indexLock = NoOne
    /\ ds' = Added(ds, -1, 0)
    /\ MoveIn(w, "reengage2", "check")
    /\ UNCHANGED <<region, tokens, sleep, local>>

ReengageSwap(w) == SwapRest(w, "reengage2", LastIn, "check") /\ UNCHANGED <<fails, hist>>

(* Leave if the program terminates, go on waiting if the region is done.   *)
Check(w) ==
    /\ At(w, "check")
    /\ Goto(w, IF terminate THEN "exited" ELSE IF done THEN "outer" ELSE "init")
    /\ arg' = [arg EXCEPT ![w] = IF pc'[w] = "init" THEN @ ELSE 0]
    /\ UNCHANGED <<region, tokens, ds, index, sleep, fails, hist>>

(* The test of non_boss_scheduler's loop, which the boss does not have.    *)
LoopEntry == IF terminate THEN "reset" ELSE "steal"

(* init_fails: a thread that took one of the last tokens is a sentinel.    *)
InitFails(w) ==
    LET sentinel == arg[w] <= NWorkers \div 2
    IN  /\ At(w, "init")
        /\ ds' = IF sentinel THEN Added(ds, 0, 1) ELSE ds
        /\ fails' = [fails EXCEPT ![w] = IF sentinel THEN SENTINEL_THRESHOLD ELSE 0]
        /\ hist' = [hist EXCEPT ![w] = 0]
        /\ arg' = [arg EXCEPT ![w] = 0]
        /\ Goto(w, IF w = Boss THEN "steal" ELSE LoopEntry)
        /\ UNCHANGED <<region, tokens, index, sleep>>

(* non_boss_scheduler around worker_scheduler, which it enters again if    *)
(* there is a token and the program does not terminate.                    *)
LingerTakeToken(w) == TakeToken(w, "linger", LoopEntry) /\ UNCHANGED local
LingerNoToken(w)   == NoToken(w, "linger", "reset")

(* Seeded fault: a sentinel that leaves the loop stays counted.            *)
ResetCountKept(w) == ds

(* reset_fails: a sentinel that leaves the loop is one no more.            *)
ResetCount(w) == IF fails[w] >= SENTINEL_THRESHOLD THEN Added(ds, 0, -1) ELSE ds

ResetFails(w) ==
    /\ At(w, "reset")
    /\ ds' = ResetCount(w)
    /\ fails' = [fails EXCEPT ![w] = 0]
    /\ hist' = [hist EXCEPT ![w] = 0]
    /\ Goto(w, IF w = Boss THEN "uncilkify" ELSE "outer")
    /\ UNCHANGED <<region, tokens, index, sleep, arg>>

-----------------------------------------------------------------------------
(***************************************************************************)
(* worker_scheduler: the work-stealing loop.                               *)
(***************************************************************************)

(* The region may be done ...                                              *)
StealLook(w) ==
    /\ At(w, "steal")
    /\ Goto(w, IF ~done THEN "count" ELSE IF w = Boss THEN "reset" ELSE "linger")
    /\ UNCHANGED <<region, tokens, ds, index, sleep, local>>

Stealable(x) == NWorkers - GET_DISENGAGED(x)

(* Seeded fault: a thief looks for a victim even if it is alone.           *)
AloneNever(stealable) == FALSE

Alone(stealable) == stealable = 1

(* ... and if not, the thief reads how many workers are stealable.  If it  *)
(* is the only one, it looks again.                                        *)
CountStealable(w) ==
    /\ At(w, "count")
    /\ IF Alone(Stealable(ds))
       THEN Goto(w, "steal") /\ UNCHANGED arg
       ELSE Goto(w, "pick") /\ arg' = [arg EXCEPT ![w] = Stealable(ds)]
    /\ UNCHANGED <<region, tokens, ds, index, sleep, fails, hist>>

InUserCode == {"work", "boss_work"}
HasWork(v) == pc[v] \in InUserCode \cup {"got", "one_sentinel", "request", "notify"}

(* A victim among the indices that were stealable when the thief looked.   *)
Victims(w) == {i2w[i] : i \in 0 .. arg[w] - 1} \ {w}

(* Closure_steal returns a closure.                                        *)
StealSucceeds(w) ==
    /\ At(w, "pick")
    /\ \E v \in Victims(w) : pc[v] \in InUserCode
    /\ Goto(w, "got")
    /\ arg' = [arg EXCEPT ![w] = 0]
    /\ UNCHANGED <<region, tokens, ds, index, sleep, fails, hist>>

(* Seeded fault: nothing bounds the count of failed attempts.              *)
CappedNever(w, n) == n

(* The boss never disengages, so nothing depends on how far its count goes *)
(* beyond SENTINEL_THRESHOLD, nor on its samples.                          *)
Capped(w, n) ==
    CASE w = Boss /\ n > SENTINEL_THRESHOLD -> SENTINEL_THRESHOLD
      [] w # Boss /\ n % SENTINEL_THRESHOLD = 0 /\ n > MAX_FAILS -> MAX_FAILS
      [] OTHER -> n

(* It does not, ATTEMPTS times.  handle_failed_steal_attempts: every       *)
(* SENTINEL_THRESHOLD fails take a sample; the first time, the worker      *)
(* becomes a sentinel.                                                     *)
StealFails(w) ==
    LET n == fails[w] + 1
    IN  /\ At(w, "pick")
        /\ Victims(w) # {}
        /\ fails' = [fails EXCEPT ![w] = Capped(w, n)]
        /\ ds' = IF n = SENTINEL_THRESHOLD THEN Added(ds, 0, 1) ELSE ds
        /\ Goto(w, IF w # Boss /\ n % SENTINEL_THRESHOLD = 0 /\ n <= MAX_FAILS
                   THEN "sample" ELSE "steal")
        /\ arg' = [arg EXCEPT ![w] = 0]
        /\ UNCHANGED <<region, tokens, index, sleep, hist>>

Sampled(w, x) ==
    IF w # Boss /\ IsInefficient(x) THEN 1 ELSE hist[w]

(* The rest of handle_failed_steal_attempts: an inefficient sample may     *)
(* make a worker other than the boss disengage, if there were others       *)
(* before: the code wants more than HISTORY_THRESHOLD in all.              *)
Sample(w) ==
    /\ At(w, "sample")
    /\ hist' = [hist EXCEPT ![w] = Sampled(w, ds)]
    /\ \/ Goto(w, "steal")
       \/ /\ IsInefficient(ds)
          /\ hist[w] = 1
          /\ Goto(w, "disengage_maybe")
    /\ UNCHANGED <<region, tokens, ds, index, sleep, fails, arg>>

(* maybe_disengage_thief: look at the counts again.                        *)
MaybeDisengage(w) ==
    /\ At(w, "disengage_maybe")
    /\ IF IsInefficient(ds)
       THEN Goto(w, "try") /\ arg' = [arg EXCEPT ![w] = ds]
       ELSE Goto(w, "steal") /\ UNCHANGED arg
    /\ UNCHANGED <<region, tokens, ds, index, sleep, fails, hist>>

(* Seeded fault: only the disengaged half of the word is compared.         *)
UnchangedSinceHalf(w) == GET_DISENGAGED(ds) = GET_DISENGAGED(arg[w])

(* The compare_exchange of try_to_disengage_thief.                         *)
UnchangedSince(w) == ds = arg[w]

(* try_to_disengage_thief, with the lock and the counts it looked at ...   *)
TryDisengage(w) ==
    /\ At(w, "try")
    /\ indexLock = NoOne
    /\ UnchangedSince(w)
    /\ ds' = Added(ds, 1, -1)
    /\ MoveOut(w, "try2", "thief_wait")
    /\ arg' = [arg EXCEPT ![w] = 0]
    /\ UNCHANGED <<region, tokens, sleep, fails, hist>>

TryDisengageSwap(w) ==
    SwapRest(w, "try2", LastOut, "thief_wait") /\ UNCHANGED <<fails, hist>>

(* ... or without: look again.                                             *)
TryDisengageFails(w) ==
    /\ At(w, "try")
    /\ indexLock # NoOne \/ ~UnchangedSince(w)
    /\ Goto(w, "disengage_maybe")
    /\ arg' = [arg EXCEPT ![w] = 0]
    /\ UNCHANGED <<region, tokens, ds, index, sleep, fails, hist>>

DisengagedWake(w)  == Wake(w, "thief_wait", "thief_reengage") /\ UNCHANGED arg
DisengagedSleep(w) == Sleep(w, "thief_wait")

(* Seeded fault: a long sleep makes up for all the failed attempts.        *)
FailsAfterSleepNone == 0

FailsAfterSleep == DISENGAGE_THRESHOLD - SENTINEL_THRESHOLD

(* The fails and the history after a sleep, short or long.                 *)
AfterSleep(w) ==
    \/ /\ \E e \in 0 .. SENTINEL_THRESHOLD - 1 : fails' = [fails EXCEPT ![w] = @ - e]
       /\ UNCHANGED hist
    \/ /\ fails' = [fails EXCEPT ![w] = FailsAfterSleep]
       /\ \E h \in {0, hist[w]} : hist' = [hist EXCEPT ![w] = h]

(* Reengaged, as a sentinel.                                               *)
ReengageThief(w) ==
    /\ At(w, "thief_reengage")
    /\ indexLock = NoOne
    /\ ds' = Added(ds, -1, 1)
    /\ MoveIn(w, "thief_reengage2", "steal")
    /\ IF pc'[w] = "steal" THEN AfterSleep(w) ELSE UNCHANGED <<fails, hist>>
    /\ UNCHANGED <<region, tokens, sleep, arg>>

ReengageThiefSwap(w) ==
    SwapRest(w, "thief_reengage2", LastIn, "steal") /\ AfterSleep(w)

-----------------------------------------------------------------------------
(***************************************************************************)
(* maybe_reengage_workers, after a successful steal.                       *)
(***************************************************************************)

(* How many thieves to ask for: what the histories say, which are then     *)
(* reset, or none.                                                         *)
Requests(w, x) ==
    {[n |-> n, h |-> 0] : n \in 0 .. NWorkers \div 2}
        \cup {[n |-> 0, h |-> h] : h \in {hist[w], Sampled(w, x)}}

RunningOut(x) == GET_SENTINEL(x) = 0 /\ Active(x) < NWorkers

(* A sentinel becomes active.  The last one may have to ask for another.   *)
MaybeReengage(w) ==
    /\ At(w, "got")
    /\ IF fails[w] < SENTINEL_THRESHOLD
       THEN Goto(w, "work") /\ UNCHANGED <<ds, local>>
       ELSE /\ ds' = Added(ds, 0, -1)
            /\ fails' = [fails EXCEPT ![w] = SENTINEL_THRESHOLD]
            /\ \E r \in Requests(w, ds') :
                 /\ hist' = [hist EXCEPT ![w] = r.h]
                 /\ IF r.n = 0 /\ RunningOut(ds')
                    THEN Goto(w, "one_sentinel") /\ arg' = [arg EXCEPT ![w] = Active(ds')]
                    ELSE /\ Goto(w, IF r.n > 0 THEN "request" ELSE "work")
                         /\ arg' = [arg EXCEPT ![w] = r.n]
    /\ UNCHANGED <<region, tokens, index, sleep>>

OneSentinel(w) ==
    LET wanted == (arg[w] + 3) \div 4
    IN  /\ At(w, "one_sentinel")
        /\ IF tokens < wanted
           THEN Goto(w, "request") /\ arg' = [arg EXCEPT ![w] = wanted - tokens]
           ELSE Goto(w, "work") /\ arg' = [arg EXCEPT ![w] = 0]
        /\ UNCHANGED <<region, tokens, ds, index, sleep, fails, hist>>

ToWake(room, count) == IF room < count THEN room ELSE count

(* request_more_thieves: never more than half the workers.                 *)
RequestMoreThieves(w) ==
    LET room == NWorkers \div 2 - tokens
    IN  /\ At(w, "request")
        /\ IF room <= 0
           THEN /\ Goto(w, "work") /\ arg' = [arg EXCEPT ![w] = 0]
                /\ UNCHANGED tokens
           ELSE /\ tokens' = tokens + ToWake(room, arg[w])
                /\ arg' = [arg EXCEPT ![w] = ToWake(room, arg[w])]
                /\ Goto(w, "notify")
        /\ UNCHANGED <<region, ds, index, sleep, fails, hist>>

(* One notify_one for each token, or notify_all.                           *)
Notify(w) ==
    /\ At(w, "notify")
    /\ IF arg[w] > 3 THEN asleep' = {} ELSE NotifyOne
    /\ arg' = [arg EXCEPT ![w] = IF @ > 3 THEN 0 ELSE @ - 1]
    /\ Goto(w, IF arg'[w] = 0 THEN "work" ELSE "notify")
    /\ UNCHANGED <<region, tokens, ds, index, bossAsleep, fails, hist>>

-----------------------------------------------------------------------------
(***************************************************************************)
(* User code, and the end of a region.                                     *)
(***************************************************************************)
OthersWork(w) == \E v \in Workers \ {w} : HasWork(v)

(* The worker has nothing left to do while others do.                      *)
RunOut(w) ==
    /\ pc[w] \in InUserCode
    /\ OthersWork(w)
    /\ Goto(w, IF At(w, "work") THEN "worked" ELSE "init")
    /\ UNCHANGED <<region, tokens, ds, index, sleep, local>>

(* decrease_fails_by_work: a worker that is still a sentinel counts again. *)
DecreaseFails(w) ==
    /\ At(w, "worked")
    /\ IF fails[w] > MIN_FAILS
       THEN \E e \in 0 .. fails[w] :
              /\ fails' = [fails EXCEPT ![w] = @ - e]
              /\ IF fails'[w] >= SENTINEL_THRESHOLD
                 THEN ds' = Added(ds, 0, 1) /\ UNCHANGED hist
                 ELSE hist' = [hist EXCEPT ![w] = 0] /\ UNCHANGED ds
       ELSE fails' = [fails EXCEPT ![w] = 0] /\ UNCHANGED <<ds, hist>>
    /\ Goto(w, "steal")
    /\ UNCHANGED <<region, tokens, index, sleep, arg>>

(* __cilkrts_internal_exit_cilkified_root: sleep_thieves ...               *)
SleepThieves(w) ==
    /\ pc[w] \in InUserCode
    /\ ~OthersWork(w)
    /\ tokens' = 0
    /\ Goto(w, "set_done")
    /\ UNCHANGED <<region, ds, index, sleep, local>>

SetDone(w) ==
    /\ At(w, "set_done")
    /\ done' = TRUE
    /\ Goto(w, "exit")
    /\ UNCHANGED <<cilkified, terminate, tokens, ds, index, sleep, local>>

(* ... then the boss returns to its caller, and another worker goes back   *)
(* to do_what_it_says and signals the boss (signal_uncilkified).           *)
ExitRegion(w) ==
    /\ At(w, "exit")
    /\ cilkified' = FALSE
    /\ IF w = Boss
       THEN /\ Goto(w, "outside")
            /\ fails' = [fails EXCEPT ![w] = 0] /\ hist' = [hist EXCEPT ![w] = 0]
       ELSE Goto(w, "signal") /\ UNCHANGED <<fails, hist>>
    /\ UNCHANGED <<done, terminate, tokens, ds, index, sleep, arg>>

(* Seeded fault: the boss is not notified.                                 *)
AfterSignalNone == bossAsleep

(* cilkified.notify_all                                                    *)
AfterSignal == FALSE

SignalUncilkified(w) ==
    /\ At(w, "signal")
    /\ bossAsleep' = AfterSignal
    /\ Goto(w, "worked")
    /\ UNCHANGED <<region, tokens, ds, index, asleep, local>>

-----------------------------------------------------------------------------
(***************************************************************************)
(* The boss: __cilkrts_internal_invoke_cilkified_root, boss_wait_helper    *)
(* and __cilkrts_stop_workers.                                             *)
(***************************************************************************)
StartRegion ==
    /\ At(Boss, "outside")
    /\ cilkified' = TRUE
    /\ Goto(Boss, "clear_done")
    /\ UNCHANGED <<done, terminate, tokens, ds, index, sleep, local>>

ClearDone ==
    /\ At(Boss, "clear_done")
    /\ done' = FALSE
    /\ Goto(Boss, "wake_thieves")
    /\ UNCHANGED <<cilkified, terminate, tokens, ds, index, sleep, local>>

(* wake_thieves, and the threads are created the first time.               *)
WakeThieves ==
    /\ At(Boss, "wake_thieves")
    /\ tokens' = NWorkers - 1
    /\ Goto(Boss, "notify_thieves")
    /\ UNCHANGED <<region, ds, index, sleep, local>>

NotifyThieves ==
    /\ At(Boss, "notify_thieves")
    /\ asleep' = {}
    /\ pc' = [w \in Workers |->
                CASE w = Boss -> "boss_work"
                  [] w # Boss /\ pc[w] = "unborn" -> "outer"
                  [] OTHER -> pc[w]]
    /\ UNCHANGED <<region, tokens, ds, index, bossAsleep, local>>

(* Seeded fault: the end of the work-stealing loop is taken for the end of *)
(* the region.                                                             *)
WaitOverEarly == done

(* wait_while_cilkified: the boss returns when the region is over ...      *)
WaitOver == ~cilkified

BossReturns ==
    /\ At(Boss, "uncilkify") /\ ~bossAsleep
    /\ WaitOver
    /\ Goto(Boss, "outside")
    /\ UNCHANGED <<region, tokens, ds, index, sleep, local>>

(* ... or sleeps until it is notified.                                     *)
BossSleeps ==
    /\ At(Boss, "uncilkify") /\ ~bossAsleep
    /\ cilkified
    /\ bossAsleep' = TRUE
    /\ UNCHANGED <<region, tokens, ds, index, asleep, pc, local>>

StopWorkers ==
    /\ At(Boss, "outside")
    /\ \A w \in Thieves : ~At(w, "unborn")
    /\ terminate' = TRUE
    /\ Goto(Boss, "wake_all")
    /\ UNCHANGED <<cilkified, done, tokens, ds, index, sleep, local>>

(* Seeded fault: the threads are woken as for a region, by wake_thieves.   *)
TokensToExitFew == NWorkers - 1

(* wake_all_disengaged: tokens enough for every wait of every thread.      *)
TokensToExit == IntMax

WakeAll ==
    /\ At(Boss, "wake_all")
    /\ tokens' = TokensToExit
    /\ Goto(Boss, "notify_all")
    /\ UNCHANGED <<region, ds, index, sleep, local>>

NotifyAll ==
    /\ At(Boss, "notify_all")
    /\ asleep' = {}
    /\ Goto(Boss, "join")
    /\ UNCHANGED <<region, tokens, ds, index, bossAsleep, local>>

Join ==
    /\ At(Boss, "join")
    /\ \A w \in Thieves : At(w, "exited")
    /\ Goto(Boss, "joined")
    /\ UNCHANGED <<region, tokens, ds, index, sleep, local>>

-----------------------------------------------------------------------------
(* What every worker does: the work-stealing loop and user code.           *)
Scheduler(w) ==
    \/ InitFails(w) \/ ResetFails(w)
    \/ StealLook(w) \/ CountStealable(w) \/ StealSucceeds(w) \/ StealFails(w)
    \/ MaybeReengage(w) \/ OneSentinel(w) \/ RequestMoreThieves(w) \/ Notify(w)
    \/ RunOut(w) \/ DecreaseFails(w)
    \/ SleepThieves(w) \/ SetDone(w) \/ ExitRegion(w)

(* What only a worker thread does: wait for a region, linger after it,     *)
(* disengage within it, and signal the boss.                               *)
ThiefThread(w) ==
    \/ Scheduler(w)
    \/ OuterTakeToken(w) \/ OuterNoToken(w)
    \/ DisengageWorker(w) \/ DisengageSwap(w)
    \/ ThiefWake(w) \/ ThiefSleep(w)
    \/ ReengageWorker(w) \/ ReengageSwap(w)
    \/ Check(w)
    \/ LingerTakeToken(w) \/ LingerNoToken(w)
    \/ Sample(w) \/ MaybeDisengage(w)
    \/ TryDisengage(w) \/ TryDisengageSwap(w) \/ TryDisengageFails(w)
    \/ DisengagedWake(w) \/ DisengagedSleep(w)
    \/ ReengageThief(w) \/ ReengageThiefSwap(w)
    \/ SignalUncilkified(w)

(* What the boss does, once it has begun to start or to stop something.    *)
BossThread ==
    \/ Scheduler(Boss)
    \/ ClearDone \/ WakeThieves \/ NotifyThieves
    \/ BossReturns \/ BossSleeps
    \/ WakeAll \/ NotifyAll \/ Join

(* After the join the process exits.                                       *)
Finished == At(Boss, "joined") /\ UNCHANGED vars

Next ==
    \/ StartRegion \/ StopWorkers \/ BossThread
    \/ \E w \in Thieves : ThiefThread(w)
    \/ Finished

Spec == Init /\ [][Next]_vars

(* The operating system runs every thread that is not blocked.  The user   *)
(* need not start a region or end the program.                             *)
FairSpec ==
    /\ Spec
    /\ \A w \in Thieves : WF_vars(ThiefThread(w))
    /\ WF_vars(BossThread)

-----------------------------------------------------------------------------
LoopPcs == {"steal", "count", "pick", "sample", "disengage_maybe",
            "try", "linger", "reset", "got"}
WaitingPcs == {"disengage2", "wait", "reengage", "try2", "thief_wait", "thief_reengage"}
WorkPcs == {"one_sentinel", "request", "notify", "work"}
EndPcs == {"set_done", "exit", "signal", "worked"}
ThiefPcs == {"unborn", "outer", "disengage", "reengage2", "check",
             "exited", "init", "thief_reengage2"}
BossPcs == {"outside", "clear_done", "wake_thieves", "notify_thieves", "boss_work",
            "uncilkify", "wake_all", "notify_all", "join", "joined", "init"}
TokenCounts == 0 .. NWorkers - 1 \cup IntMax - 3 * NWorkers .. IntMax

(* The values the shared words and the locals of the threads take.  The    *)
(* number of failed attempts stays bounded (worker_sleep.cpp:346), and     *)
(* disengaged_thieves, apart from the shutdown, below the number of        *)
(* workers.                                                                *)
TypeOK ==
    /\ cilkified \in BOOLEAN /\ done \in BOOLEAN /\ terminate \in BOOLEAN
    /\ tokens \in TokenCounts
    /\ ds \in 0 .. HalfWord * HalfWord - 1
    /\ i2w \in [Workers -> Workers] /\ w2i \in [Workers -> Workers]
    /\ indexLock \in Thieves \cup {NoOne}
    /\ asleep \subseteq Thieves /\ bossAsleep \in BOOLEAN
    /\ pc \in [Workers -> LoopPcs \cup WaitingPcs \cup WorkPcs \cup EndPcs
                            \cup ThiefPcs \cup BossPcs]
    /\ fails \in [Workers -> 0 .. MAX_FAILS + SENTINEL_THRESHOLD - 1]
    /\ hist \in [Workers -> 0 .. 1]
    /\ arg \in [Workers -> TokenCounts \cup 0 .. HalfWord * HalfWord - 1]

(* The workers that count themselves among the sentinels: in the           *)
(* work-stealing loop, with SENTINEL_THRESHOLD failed attempts or just     *)
(* reengaged by another.                                                   *)
Sentinels ==
    {w \in Workers : \/ At(w, "thief_reengage2")
                     \/ pc[w] \in LoopPcs /\ fails[w] >= SENTINEL_THRESHOLD}

(* The workers that have left the index structure and not come back.       *)
Disengaged == {w \in Workers : pc[w] \in WaitingPcs}

(* The two halves of disengaged_sentinel count exactly the sentinels and   *)
(* the disengaged workers, whatever path each took into and out of the     *)
(* loop (add_to_sentinels, fetch_add and compare_exchange at nine places   *)
(* of worker_sleep.cpp and global.cpp): no worker is counted twice or      *)
(* forgotten, and no borrow runs from one half into the other.             *)
CountsExact ==
    /\ GET_SENTINEL(ds) = Cardinality(Sentinels)
    /\ GET_DISENGAGED(ds) = Cardinality(Disengaged)

(* Whenever index_lock is free, index_to_worker and worker_to_index are    *)
(* inverse permutations, and the workers a thief can choose from (the      *)
(* first nworkers - disengaged entries) are exactly the engaged ones, with *)
(* the boss first (swap_worker_with_target, global.cpp:365).               *)
IndexMap ==
    indexLock = NoOne =>
        /\ \A w \in Workers : i2w[w2i[w]] = w
        /\ i2w[0] = Boss
        /\ {i2w[i] : i \in 0 .. Stealable(ds) - 1} = Workers \ Disengaged

(* A thief that has chosen to look for a victim finds one other than       *)
(* itself, though it reads index_to_worker without the lock and after the  *)
(* count: the loop at scheduler.cpp:1438 ends.                             *)
VictimExists == \A w \in Workers : At(w, "pick") => Victims(w) # {}

(* "Make sure that we don't inadvertently disengage the last sentinel"     *)
(* (worker_sleep.cpp:299): when a thief disengages within the loop,        *)
(* another sentinel stays, though the counts were read before the lock was *)
(* taken.                                                                  *)
LastSentinelStays ==
    [][\A w \in Thieves : TryDisengage(w) => Sentinels \ {w} # {}]_vars

(* When the boss is back in the user's code no worker is still inside the  *)
(* region, cilkified is false, so that the next region can start           *)
(* (init.cpp:511), and no token is left over that would let a thread in.   *)
RegionOver ==
    At(Boss, "outside") =>
        /\ ~cilkified /\ tokens = 0
        /\ \A w \in Workers : ~HasWork(w) /\ pc[w] \notin {"set_done", "exit"}

PendingNotifies == UNION {{w} \X (1 .. arg[w]) : w \in {v \in Workers : At(v, "notify")}}

(* No wakeup is lost: while a thread sleeps on disengaged_thieves, every   *)
(* token has a thread that is awake and about to look, or a notification   *)
(* still to come (request_more_thieves, wake_thieves, thief_disengage).    *)
NoLostWakeup ==
    asleep # {} =>
        \/ pc[Boss] \in {"notify_thieves", "notify_all"}
        \/ \E w \in Workers : At(w, "notify") /\ arg[w] > 3
        \/ tokens <= Cardinality({w \in Thieves : pc[w] \in {"wait", "thief_wait"}}
                                     \ asleep)
                     + Cardinality(PendingNotifies)

(* A region that is done is left: the boss returns to the user, whichever  *)
(* worker finished it and however far the boss was from waiting            *)
(* (exit_cilkified_root, signal_uncilkified, wait_while_cilkified).        *)
DoneIsNoticed == (\E w \in Workers : At(w, "exit")) ~> At(Boss, "outside")

(* __cilkrts_stop_workers joins every thread, wherever it was: waiting     *)
(* outside, disengaged within the loop, or still leaving the last region.  *)
AllJoined == terminate ~> At(Boss, "joined")
=============================================================================
