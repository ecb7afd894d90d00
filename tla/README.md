# The Cheetah work-stealing runtime in TLA+

Cheetah is the runtime of OpenCilk: compiled fork-join programs call it at
every spawn and sync, and its workers steal continuations from one another.
This directory holds TLA+ models of its scheduler, the TLC configurations that
check them on small instances, and TLAPS proofs: of the deque protocol, the closure
tree, the worker threads, the pools, the allocator and the hash table's index arithmetic.
Paths below are relative to the repository; `src/` is its root.

## 1. Inventory

| Part | State | Operations | Talks to |
| --- | --- | --- | --- |
| THE deque (`cilk2c_inlined.cpp`, `scheduler.cpp`, `worker.h`) | `head`, `tail`, `exc`, the shadow stack | detach, leave_frame_helper, exception handler, Closure_steal, do_dekker_on, setup_for_execution | thieves read and write the owner's pointers |
| Busy-closure and closure locks (`busyclosure.h`, `closure.h`) | an owner and a closure per worker, an owner per closure | lock, trylock, unlock, peek, xtract, set | taken by owner, thieves and returning children |
| Closure tree (`scheduler.cpp`, `closure.h`) | status, frame, join counter, call/spawn parent, sibling list | promote_child, finish_promote, Cilk_sync, Closure_return, set_return, provably_good_steal_maybe, do_what_it_says | the deque, fibers, reducer tables |
| Reducer views (`scheduler.cpp`) | one table per worker, three per closure (`right_ht`, `child_ht`, `user_ht`) | deposit, merge, do_reductions | moved by the closure tree |
| Hash table and reducer API (`local-hypertable.cpp`, `local-reducer-api.cpp`) | buckets, capacity, occupancy, count of insertions and removals | find, insert, remove, rebuild, merge; lookup, register, unregister | private to the strand that holds it |
| Fibers (`fiber.cpp`, `fiber-pool.cpp`) | stacks; pools per worker and a global one | allocate from and deallocate to the pool, batches, terminate | owned by closures |
| Thieves, sentinels, sleep (`worker_sleep.cpp`, `global.cpp`) | `disengaged_thieves`, `disengaged_sentinel`, index maps; per worker a fail count and a `history_t` | thief_wait, thief_disengage, request_more_thieves, try_to_disengage_thief, disengage/reengage_worker | all worker threads, through atomics and futex waits |
| Region lifecycle (`init.cpp`, `global.cpp`) | `cilkified`, `done`, `terminate` | invoke/exit_cilkified_root, wait_while_cilkified, stop_workers | boss and the worker that ends a region |
| Internal allocator (`internal-malloc.cpp`) | per-worker and global free lists, chunks, counters | malloc, free, free_global, batches, terminate | closures are allocated here |
| Exceptions (`personality.cpp`, `cilk2c.cpp`) | the exception reducer (`closure_exception`), pending and throwing flags, the throwing fiber | sync_in_personality, the personality function, cleanup_fiber, pause_frame, check_exception_raise | closure tree, reducers, fibers, the C++ unwinder |
| Pedigrees, grain size, options, statistics | see `PROJECT.json` | | |

The hard behaviours are interleavings of a few loads and stores on a worker's
deque without a lock; critical sections that change locks half-way; a child
that returns while its parent suspends; views that must be merged in serial
order though children return in any order; exceptions of parallel strands, of
which the serially first must survive, unwound over frames that are resumed on
other stacks; a hash table that stops a probe early by trusting its own order; threads that go to sleep while
another wakes them; and counts packed in one word that nobody ever recomputes.
What makes each part correct:

* deque: each continuation is resumed once, by the owner or by one thief;
* tree: a frame passes a sync when its children have returned, is executed by
  one worker at a time, on its own stack, and the region ends;
* reducers: the result is the one of the serial execution; a table is a finite map;
* exceptions: each frame catches what the serial execution catches there, every
  other exception is deleted, and no fiber in use is given away;
* pools and allocator: nothing is lost or given out twice, arrays are not
  overrun, and at shutdown everything is back;
* threads: counts and maps match reality, no wake-up is lost, the boss gets
  out of a region, shutdown joins everybody.

`PROJECT.json` lists every hazard with its source line and the properties that
cover it.

## 2. Modules

**`DequeSpec`** - what a deque promises: a sequence of continuations; the owner
adds and takes at the back, a thief takes from the front.

**`TheDeque`** - the THE protocol on the deque of one worker, the *victim*,
with any set of thieves and a *returner*, a worker that returns a child of the
victim's closure and so competes for its lock. A step is one load or store of a
shared pointer, or a critical section that touches only what its lock protects.
`vpc` and `tpc` are the places in the code: `user` to `left` is
`__cilkrts_detach` and `__cilkrts_leave_frame_helper`, `h_*` the exception
handler, `s_*` `Cilk_sync`, `r_*` `__cilkrts_set_return`, `d_*` the retry in
`Cilk_do_reductions_for_return`, `sched` to `install`
`setup_for_execution` and `do_what_it_says`. `resumed` is a history variable.
Regions start and end any number of times: `x_*` is `__cilkrts_internal_exit_cilkified_root`, which the victim may
execute as the boss or as another worker, `out` is the time between two regions, with which a behaviour begins, and
`ready` is the time for which the root closure of the next region has status `CLOSURE_READY`, until the boss marks it running
and sets its deque up. The root closure is one object for all regions, so its status would be seen through a `busy[victim]` that still
points to it (`RootStatus`); thieves are not stopped or waited for between regions.
Interleaving semantics is adequate because the code orders the
store of `tail` and the load of `exc` (both seq_cst) in the victim, and the store of
`exc` and the load of `tail` (seq_cst fence) in the thief. `EXCEPTION_INFINITY` is
never stored by the code, so it is left out; `exc` is an index.

**`TheDeque_proof`** - TLAPS proofs about `TheDeque` and, at its end, about `HyperProbe`. `FiberPool_proof`, `InternalMalloc_proof`,
`SentinelHistory_proof` and `WorkerSleep_proof` have those about the modules they are named for.
**`ClosureTreeSteps_proof`** has the inductive invariant of `ClosureTree` and the steps that leave every frame with its
closure, **`ClosureTree_proof`**, which extends it, the other steps and the theorems,
and **`Sums_proof`** the lemmas these share: what the library's `SumFunction` adds up, how the number of
workers at a given point changes when one moves, and arithmetic on multiples.

**`ClosureTree`** - the closures of one Cilkified region on several workers,
with reducer tables and fibers. Deques are those of `DequeSpec`, which `TheDeque`
is shown to implement. A critical section is split wherever the code takes another lock or
releases one early. A reducer table is the sequence of the updates it holds,
so that merging is concatenation and a wrong order shows; the hash table that
represents it is `HyperTable`. A frame may throw: the unwinder calls the
personality function of each frame (`unwind`), which syncs an unsynced frame
in the middle of the unwinding (`save`, `throwing`, then the steps of any
sync), takes over an exception that came before its own (`Reraise`), and enters
a landing pad or leaves the frame. `unw` is the exception a frame is unwound
with and the fiber its landing pad will run on, a table carries the view of the
exception reducer, and `pending` is the flag in the frame, which the plain
read-modify-write of `UnwindSync` may lose. `thrown`, `caught` and `deleted` are history
variables. A fiber that is freed goes to the private pool of the worker that frees
it and is the first that worker takes. What the personality function decides through
`reraise_cfa`, to skip the frames that were left before a reraise, is implicit:
unwinding goes on from the frame it is at. A helper that throws before it
detaches, and the second run of the personality function on a helper frame after its cleanup, are
left out, and so is the search phase. A steal waits while no closure or no fiber is left (`HasRoom`), where the
code would allocate another. `WellFormed` says what the compiler makes of a Cilk program: callers are
numbered before what they call, each frame but the root is entered by one instruction of its parent, and a sync follows
every spawn. User code and the unwinder (`Throw`, `HasHandler`,
`PassedUp`) are external. **`MCClosureTree`** gives thirteen user programs: loops of two and
three children, nested spawns, a spawned expression that spawns, a call and a
chain of calls that spawn, two sync blocks in one frame; and exceptions thrown
in a loop, in nested frames, by a child and its continuation at once, by a
callee, caught from a callee, and in a spawned expression.

**`HyperProbe`** - the index arithmetic of the hash table as operators: the unsigned
comparison `continue_probe`, the load tests and the rebuild test.

**`ViewMap`** - what the reducer API promises: a finite map from reducers to views per
strand, and a join that reduces the left view with the right one.

**`HyperTable`** - the hash table itself, operation by operation as in
`local-hypertable.cpp`, with `ViewMap` run alongside. Two tables are filled one after the other and joined.
A view is the sequence of the strands reduced into it, so that a swapped reduce shows.
`crowded` marks a table that took an insertion while no bucket was empty, `fault` an insertion that failed or a rebuild
inside a rebuild. A recursive rebuild is written as a fold over the old buckets.
**`MCHyperTable`** has keys and hash values.

**`WorkerSleep`** - the worker threads from their start to the join: the outer
loop, the work-stealing loop, sentinels, disengagement, wake-up tokens, the
index map, and the boss that starts regions and stops the workers. One step
per atomic operation. `disengaged_sentinel` is kept as one packed number, so
that a borrow would run from one half into the other; fails are counted in
units of `ATTEMPTS`, and `IntMax` and `HalfWord` stand for the machine's limits. Who has
work is abstract: somebody has until the region ends, and only the one
who has the last of it ends it. Of the efficiency histories (`history_t`), which
`SentinelHistory` has in full, only one bit is kept, whether there may be an inefficient sample on record. An inefficient sample *may* then make
a worker disengage if there was one before; the code wants more than `HISTORY_THRESHOLD`, so it does this less often. A request
for more thieves may be any number the code could compute. `terminate` and `done`, read one after the other in
`scheduler_thread_proc`, are read in one step. `ENABLE_THIEF_SLEEP` is on, its default.

**`SentinelHistory`** - one worker's `history_t`: fail count, sample threshold, the two bit
histories, the ring of sentinel counts and its running sum, changed by failed
steals, samples, sleep and work. The counts a sample sees are any that the other
workers may cause. A bit history is a sequence of Booleans; `Word` is the number of values of an
`unsigned int`, so that products wrap.

**`FiberPool`** - the private pools of the workers, the global pool and the
system. The pools never tell one fiber from another, so a pool is a count.
The part of a batch that goes through the global pool is one step (it holds
that pool's lock), the part that goes to or comes from the system another.
A worker may return a fiber that any worker took. The capacity is a variable that
never changes, chosen at the start, so that one run covers several.

**`InternalMalloc`** - the allocator of closures, in the same style: free lists
as counts, batches under `im_lock` as steps, and the counters that
`internal_malloc_global_check` compares. Bytes are counted in blocks of one
bucket; `used` of a worker stands for `used + wasted`, since a check always adds them.

Left out in all modules: the optional extension (`USE_EXTENSION`), which moves a
second fiber along with the first; assertions, statistics, timing.

## 3. Runs

| Run | Instance | Checks |
| --- | --- | --- |
| `the_deque` | 2 thieves, 4 entries, 4 spawns, 1 outstanding child, any number of regions, fair | `IndInv`, `ResumedOnce`, `NoneLost`, `ThiefFindsRunning`, `ExcTracksHead`, `SlotStable`, refinement `ImplementsDequeSpec`, `VictimGetsOn` |
| `closure_tree` | 4 workers, 9 closures, 10 fibers, 13 programs, fair | `TypeOK`, `TreeConsistent`, `ViewsConserved`, `SerialResult`, `ExceptionsSerial`, `FibersSafe`, `OnHomeFiber`, `FrameOnce`, `SyncWaits`, `RegionEnds` |
| `worker_sleep` | 3 workers, any number of regions, fair | `TypeOK`, `CountsExact`, `IndexMap`, `VictimExists`, `RegionOver`, `NoLostWakeup`, `LastSentinelStays`, `DoneIsNoticed` |
| `worker_sleep_live` | the same; a run of its own for its length | `AllJoined` |
| `sentinel_history` | counts of 4 workers, histories of 4 samples, ring of 3, times below the wrap | `CountsInRange`, `RecentSum`, `DisengagesAsSentinel` |
| `hyper_table` | tables of 2 buckets and more, load factor constants 2 and 16, colliding keys | `OccupancyExact`, `RunsOrdered`, `NoFault`, `ViewsRepresented` |
| `fiber_pool` | 2 workers, capacities 0, 2 and 5, up to 18 fibers held | `TypeOK` (arrays), `BatchSuffices`, `FibersConserved` |
| `internal_malloc` | 2 workers, bucket capacity 4, chunks of 3 blocks, list of 1, up to 8 closures | `TypeOK` (lists), `BlocksConserved`, `GlobalCheck` |
| `malloc_exit`, `full_table`, `elapsed_wraps`, `throwing_stack` | as above; `full_table` has the code's own capacities and load factor | the four disagreements of section 6 |

Why these bounds are enough for the cases of interest: in `the_deque` two thieves compete
with the victim for one entry and with each other for consecutive ones, and
the deque is emptied and used again after a steal, a sync and a return; the
proofs remove the bounds for the safety properties. In `closure_tree` the
programs have children with siblings on both sides, closures stolen from
repeatedly, callees under suspended callers, and more workers than any of them
can keep busy; closures and fibers are never exhausted. In `worker_sleep` two
worker threads and the boss suffice for two of them to decide from the same
stale counts; `AS_RATIO` is 1 rather than 2 in both runs, because with three workers the
ratio 2 never leaves enough sentinels for one to disengage inside a region. With 1 one of the two does, so
that shutdown also finds threads asleep or about to sleep in `try_to_disengage_thief`, alone and together with one asleep in
`thief_wait`. Thresholds are scaled down in the proportions
`ThresholdAssumption` states.

In `hyper_table` the capacities that count are those around the switch from an
array to a hash table; with 2, 4 and 8 in place of 4, 8 and 16 the same transitions happen with few keys. The
keys collide at the end of the table, so that runs wrap. A load factor
constant of 2 puts tombstones at every fifth bucket and leaves room for growth and
shrinking; 16 is the code's. All but `NoFault` speak of tables that are not `crowded`, since a crowded
one does break them (`full_table`), and the part of `OccupancyExact` about empty buckets, which holds of those too. Merges are bounded on both sides:
the second table is begun only when `ins_rm_count` of the first is at most `MaxCount`, 0 here, so when the first has seen few
operations beyond what its last rebuild put in; and the second sees at most one registration or removal (`MaxChurn`) beyond its lookups.
The history of a table that is never merged is unbounded. In `sentinel_history` times
stay below the one at which the scaled time wraps, and `elapsed_wraps` goes
beyond. `worker_sleep` relies on `DisengagesAsSentinel` for the count it
keeps.

In `fiber_pool` 18 held fibers,
with those still pooled, suffice to fill the global pool at capacity 5 and have a worker spill
to the system; 5 is odd, so half of it is rounded. In
`internal_malloc` a batch straddles two chunks, the list of chunks is doubled twice,
and one worker may free all that the other allocates.

Every property has a mutant of a modelled definition that breaks it, listed in
`PROJECT.json`: an off-by-one in Dekker, a lost decrement of `exc`, swapped merge
arguments, a region that ends with its root closure still busy, a forgotten sibling link, the rightmost exception kept, a probe that compares signed
numbers, a sleep that ignores the token, and so on.

### Fairness

Weak fairness of each thread: the operating system runs every thread that is
not blocked. Nothing stronger is assumed: no strong fairness of the spin
locks, none of the choice of a victim. `StartRegion` and `StopWorkers` are the
user's and are not fair; nor is `ReturnLock` in `TheDeque`, since a child need
never return. `RegionEnds` assumes user code that terminates, which the programs of
`MCClosureTree` do. `VictimGetsOn` holds with unfair locks because the victim waits
only with an empty deque or one entry in dispute, and thieves leave the lock alone as soon as the
fast test sees `head >= tail`.

## 4. Proofs

### The deque

`TheDeque_proof` proves, for any set of thieves, any deque size and any number
of spawns and children:

* `IndInvInvariant`: `IndInv` is an invariant;
* `TypeCorrect`, `NoDoubleResume`, `NoContinuationLost`, `NoStrangeStatus`,
  `ExcRestored`: so are `TypeOK`, `ResumedOnce`, `NoneLost`,
  `ThiefFindsRunning` and `ExcTracksHead`. `NoStrangeStatus` is about regions that end and start while thieves are under way, also
  those that began their attempt in an earlier region;
* `SlotsNotOverwritten`: the action property `SlotStable`;
* `Refinement`: `TheDeque` implements `DequeSpec`.

The assumptions are `ActorsAssumption` (the thieves, the victim, the returner and
"no worker" are distinct) and `BoundsAssumption` (the bounds are numbers, the
deque has an entry).

`ResumedOnce` is not inductive: a state in which a thief has passed Dekker and
the victim pops the same entry without noticing would satisfy it, and the next two steps
break it. `IndInv` adds what rules that out:

* `LockInv` - program counters and lock owners determine each other;
* `BusyInv` - a thief that found a closure under the busy lock keeps the victim
  out of the runtime's critical sections, the exit of a region included, so that a root closure that is ready is never in `busy[victim]`;
* `PointerInv` - `exc` is one ahead of `head` exactly while a thief is
  between its increment and its outcome; a thief that won either has
  `head < tail`, or the victim has popped that entry and is on its way to the handler;
* `ContInv` - every continuation is resumed once or sits at one live entry.

The proof has one step per action, and within it one per conjunct that the
action disturbs; lemmas state what each action leaves alone.

For the refinement, the abstract queue is the segment of the shadow stack between two
indices: the first entry that no thief has won, and the last that the victim has not popped for good.
Every action is then one of four: it leaves both ends and the entries between them alone, moves the upper end up
by one (`Push`), moves it down (`TakeBack`), or moves the lower end up (`Steal`). `PointerInv`
decides which: it says when a pop or a steal can no longer be undone. Lemmas about segments
turn each of the four into the operation on sequences.

### The closure tree

`ClosureTree_proof` proves, for any number of workers, closures and fibers and for any programs:

* `InvariantHolds`: the inductive invariant `IInv`;
* `TypeCorrect` (`TypeOK`), `TreeStaysConsistent` (`TreeConsistent`) and `FramesHeldOnce` (`FrameOnce`);
* `SyncsWait`: the action property `SyncWaits`.

It assumes `ProgramsAssumption`: there is a worker, a closure and a fiber, and every program is `WellFormed`. TLC
evaluates it for the programs of `MCClosureTree`.

None of the properties is inductive. That a frame that passes a sync has no child left follows, in the code, from
a join counter of zero; but the counter counts closures, and the frames that a worker has entered since its last steal
belong to no closure that anybody could look up. What relates the two is the *stack* of each
closure: its own frame and the active frames entered from there. A spawn or a call puts a
frame on it, a return takes one off, and a steal splits it into three: the frames below the stolen one, that frame,
which becomes the frame of a closure, and the frames above, which are the new child that the victim goes on with. Neither the
code nor the model has a variable for it. The invariant is `Good(o, rk, n)` for some `o`, `rk` and
`n`: `o[f]` is the closure on whose stack frame `f` is, `rk` numbers the closures in the order of their
creation, `n` is the next number. A proof that a step keeps the invariant names the new `o` and `rk`. The parts of `Good` are

* `Types`, `Duties`, `Holding` - the sorts of all fields; what the place in the code says about a worker's closure, deque and locks; that
  each closure is in the hands of one worker at most, with the status that its place implies;
* `Parents`, `Siblings`, `Ranked`, `Joins` - a call parent is suspended and has one callee; the sibling list is the order of creation,
  so that unlinking a child in the middle leaves a list; join counters count. `Siblings` with `rk` is what makes
  `TreeConsistent` inductive: that `leftSib` and `rightSib` are inverse to each other does not by itself exclude cycles;
* `Stacks` - the frames of a stack are a chain of parents, whose bottom is the closure's frame or what its spawn parent spawned;
* `Bases` - the frame of a closure is stolen and returns to where the closure's parents say; a closure with children has an unsynced frame, or one about
  to be marked by `finish_promote`, which comes after the promotion in a critical section of its own;
* `Tops` - a worker executes the top of its closure's stack, and who waits at a sync has one frame;
* `Deques` - the deque holds, oldest first, exactly the frames of the stack that spawned what is above them, less the one a thief has taken
  and not yet promoted. From this follow `FrameOnce` and that the thief takes the oldest;
* `Positions`, `Points` - a frame with a continuation in a deque, or unsynced, has a sync to come; what each place in the code says of
  the frame: synced or not, unwound or not, of which kind.

Each action has two lemmas. The first (`...Step`, in `ClosureTreeSteps_proof`) gives its effect on the parts of the state that the invariant speaks
of; reducer tables, fibers and exceptions, of which it has the types only, drop out there. The second (`...Good`) shows that the invariant is kept. These rest on
five general lemmas, according to what a step may disturb: `QuietStep` (one frame moves on), `IdleStep` (a worker without a closure),
`CalmStep` (no frame changes its owner), `StackStep` (one frame is put on the worker's stack or taken off) and `TouchStep` (some closures and workers
are touched in any way, the rest is left alone). Before it was proved, the invariant was checked by TLC on three workers, with `o` and `rk` as history variables.

### The hash table

The theorems about `HyperProbe` need only `WordAssumption` and `CapacityAssumption` (the sizes are numbers):

* `ProbeByDistance`: `continue_probe`, which subtracts indices as
  unsigned numbers of the machine's width, compares how far the current slot is
  from the target and from the resident's hash on the way round the table, for
  every capacity up to that width. The proof is the four cases of the
  comment in `local-hypertable.h` (probe and run, each wrapped or not);
* `EmptyBucketRemains`: a table of `2 * LOAD_FACTOR_CONSTANT * (MIN_REBUILD_OP_COUNT + 1)` buckets or more, 288 with
  the code's constants and so 512 as a power of two, that is not about to be rebuilt has two empty buckets, so that
  an insertion leaves one. Tombstones are not empty, and `is_overloaded` does not count them; what bounds them is `ins_rm_count`.
  The theorem is about the numbers. That the counters mean what it assumes, that
  every bucket that stopped being empty since the last rebuild was counted (`EmptiesCounted`), is part of `OccupancyExact` and only
  model-checked.

Smaller tables have no such guarantee. Lemma `FilledByInsert` says for which capacities the load test by itself lets *keys* take every
bucket: those up to `LOAD_FACTOR_CONSTANT`, and that is `full_table`. In tables of 32 to 256
buckets, keys leave room, but tombstones of removed keys may take the rest of it before `time_to_rebuild` says so.

### The fiber pools and the allocator

`FiberPool_proof` assumes `CapsAssumption` (a capacity is a natural number other than 1)
and proves `PoolsWithinBounds` (`TypeOK`), `BatchesSuffice` (`BatchSuffices`) and `Conservation` (`FibersConserved`).
A batch moves in two halves, and other workers move theirs in between, so neither the bounds nor the sum over all
pools is inductive: the invariant adds what each worker has in hand between its halves, and counts the workers that
are filling or spilling as holders of a fiber.

`InternalMalloc_proof` assumes `SizesAssumption` (a batch is not empty, a chunk has at least one batch) and
proves `ListsWithinBounds` (`TypeOK`), `BlockConservation` (`BlocksConserved`) and `ChecksPass` (`GlobalCheck`). A worker
counts an allocation before it has the block and counts frees of blocks that others
allocated, so that a single worker's numbers may even be negative; the invariant states
which sums over the workers are right at every step.

Both rest on `Sums_proof`. `SumFunction` is a fold that takes an arbitrary element at each step, so that its
value has to be shown independent of the order. The library's induction
theorems cannot be instantiated by the provers at hand; the induction is made over a *set* of numbers
instead (`SetInduction`), from the well-foundedness of the order, which the library states without
an operator parameter.

### Sentinel histories

`SentinelHistory_proof` proves `FailsInRange` (`CountsInRange`), `AverageWellDefined` (`RecentSum`) and
`WakesAsSentinel` (the action property `DisengagesAsSentinel`). `ThresholdAssumption` has the relations between the
constants that the code's values satisfy: `ATTEMPTS` divides `SENTINEL_THRESHOLD` (128), which divides the nap
threshold (`SENTINEL_THRESHOLD * 64`, `runtime/scheduler.cpp:1427`), `MIN_FAILS` is below it, and
a disengagement needs at least two inefficient samples. That it divides the nap threshold is what keeps the wrap of `fails` on
a sample. The invariant adds which entries of the ring can still be zero, and that a worker with fewer than
`SENTINEL_THRESHOLD` failures has no inefficient samples on record, so that a worker has at least twice
that number when it disengages.

### Worker threads

`WorkerSleep_proof` proves all safety properties of `WorkerSleep`, for any number of workers and regions:
`ValuesInRange` (`TypeOK`), `EveryoneCountedOnce` (`CountsExact`), `IndexStructureSound` (`IndexMap`),
`VictimsExist` (`VictimExists`), `RegionsEnd` (`RegionOver`), `WakeupsNotLost` (`NoLostWakeup`) and the action property
`SentinelsRemain` (`LastSentinelStays`). It assumes `ThresholdAssumption`: the same relations as above, that half
of the packed word can hold the number of workers (`HalfWord > NWorkers`), and that `INT_MAX` is more than three times
that number.

The inductive invariant has nine parts, each shown to be kept by every action in a lemma of its own:

* `Shape`, `Labelled` - the variables' sorts; who can be where in the code;
* `Local` - the bounds of one thief's failure counters, with the fact that who disengages has failed at least
  twice `SENTINEL_THRESHOLD` times. `CountsExact` needs it: a thief is counted as a sentinel when it wakes up because
  of its private `fails`, by an addition made on the shared word;
* `Counting` - the packed word is the number of disengaged workers in one half and of sentinels in the other. Each
  action changes it by the membership of one worker, and no half overflows or borrows;
* `Indexing` - the two arrays are inverse permutations, also in the middle of `swap_worker_with_target`, where
  only the lock holder's entry is off; the boundary between engaged and disengaged entries is the one that
  the word gives, shifted by one while a swap is in progress. The boss stays at index 0, which is
  why a thief that reads a stale count and an array that is just being changed still finds a victim;
* `Region` - a region is being worked on, is being ended by exactly one thread, or is over;
* `Budget` - the futex word is never negative and, before the shutdown, below the number of workers. At shutdown the
  boss stores `INT_MAX`; a thief can take at most three tokens before it sees `terminate`, one for each of three
  nested sets of places in the code;
* `Reading` - what a thread has read and not used yet was true when it was read, and is in range;
* `Wakeups` - `NoLostWakeup`, and that whoever sleeps is at the futex.

The parts were first checked by TLC, on one, two and three workers.

## 5. Model-checked only

* The liveness properties (`VictimGetsOn`, `DoneIsNoticed`, `AllJoined`,
  `RegionEnds`): fairness and `ENABLED` are outside the prover.
* Of `ClosureTree`: `SerialResult` and `ExceptionsSerial`, which compare what is computed with the serial execution of the whole program,
  an induction over data; `ViewsConserved`, whose proof would concatenate sequences of updates along the sibling
  lists; `FibersSafe`, which contains `StackPrivate` and so does not hold of all programs (`throwing_stack`), and no line of the code states the
  assumption that would exclude these; and `OnHomeFiber`, since of fibers the invariant has the types only.
* Everything about `HyperTable` beyond the arithmetic of `HyperProbe`: rebuilding and merging fold an operation over
  a sequence of buckets.
* The four disagreements of section 6.

## 6. Disagreements between comments or assertions and code

* `malloc_exit`: `cilk_internal_malloc_global_terminate` checks that the global
  count of used memory is the workers' total ("Possible memory leak",
  `runtime/internal-malloc.cpp:196`). The root closure is allocated through
  worker 0 and freed by `cilk_internal_free_global`, which corrects the global count only,
  so the check fails at every shutdown of a build that makes it (`MEMORY`
  debugging), though `BlocksConserved` shows that nothing is leaked. The comment in
  `cilk_internal_malloc_per_worker_destroy` still has the main closure
  allocated with the system's malloc.
* `full_table`: the load test (`runtime/local-hypertable.cpp:26`) is made before
  the insertion, with `>`, and rounds down, so a table of 8 or 16 buckets can be
  filled with keys. (Tables up to 256 buckets may also run out of empty buckets by tombstones; see section 4.) With no empty bucket an insertion may go all the way round and
  be placed out of order, and a later probe stops before it reaches a key that is there,
  against "consecutive hashes in the table are always stored in sorted order"
  (`runtime/local-hypertable.h:110`). The strand then gets a second view for
  that reducer.
* `elapsed_wraps`: `get_scaled_elapsed` (`runtime/worker_sleep.cpp:164`) narrows
  a 64-bit time to 32 bits and multiplies before it divides. From 2^25
  cycles on the credit for work wraps, against "Decrement the count
  of failed steal attempts based on the amount of work done"
  (`runtime/scheduler.cpp:1531`). It changes when a worker disengages, not what is computed.
* `throwing_stack`: `sync_in_personality` means to "save the current fiber for further stack
  unwinding" (`runtime/personality.cpp:159`), but only if no throwing fiber is saved yet. When an exception
  thrown in a stolen callee, on a fiber of its own, reaches a caller that is stolen and unsynced as
  well, the caller's fiber stays in its closure and is freed by the sync. The
  unwinder enters the caller's landing pad on that fiber, since the call was made there, and it
  is on it until `__cilkrts_cleanup_fiber` moves it; another worker may by then run on
  the same fiber. `StackPrivate` says that no two workers run on one fiber;
  `closure_tree` has programs in which this does not arise, and
  `throwing_stack` the smallest in which it does.

Three slips of comments were met that need no run: "Rather than become a thief itself, the boss
wakes up the root worker to become a thief" (`runtime/scheduler.cpp:1295`; the code calls
`boss_scheduler`, and the boss steals); the exception handler "is called
from the user code (in cilk2c_inlined) if E >= T" (`runtime/scheduler.cpp:624`;
the code tests `exc > tail`, rightly); and, in the default case of `Closure_steal`, "It's possible that
this steal attempt peeked the root closure while a new Cilkified region was starting" (`runtime/scheduler.cpp:1030`). It is
not possible: the worker that ends a region takes the root closure out of its `busy` entry under the busy lock
(`runtime/init.cpp:580`), where a thief that has peeked it still holds that lock, and the next region puts it into the boss's entry only after it
was marked running (`setup_for_execution`, then `do_what_it_says`). `ThiefFindsRunning` checks and `NoStrangeStatus` proves this over any
sequence of regions, and the mutant `RootStaysBusy`, an exit that leaves the entry alone, brings the case of the comment about. It is as well that
it does not arise, for that branch returns with the busy lock and the closure's lock held.

## 7. Not modelled

Not modelled, and why:

* the cilk_for grain size: a pure function that the scheduler does not depend on;
* pedigrees and the DPRNG: an optional extension, arithmetic modulo a prime;
* options, pinning, statistics and debugging output: input and output
  that the scheduler's decisions do not depend on;
* a reduce function that itself spawns (the loops of `__cilkrts_do_reductions`):
  it would need user code inside a merge;
* the parts of the exception machinery named under `ClosureTree`;
* overflow of the shadow stack, which a release build does not test;
* build files, headers and test programs.
