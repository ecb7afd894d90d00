--------------------------- MODULE InternalMalloc ---------------------------
(***************************************************************************)
(* The internal allocator (internal-malloc.cpp): a free list per worker, a *)
(* global one behind g->im_lock, and chunks of memory from the system that *)
(* are cut into blocks and only returned at the end.                       *)
(*                                                                         *)
(* Only closures are allocated here (Closure::create and destroy), so one  *)
(* bucket is modelled, and bytes are counted in blocks of its canonical    *)
(* size: `used' of a worker stands for its used plus wasted bytes.  The    *)
(* lists never tell one block from another and are counted.  The bucket    *)
(* sizes are powers of two that divide a chunk, so no end of a chunk is    *)
(* wasted.  A section under im_lock is one step: what it touches besides   *)
(* the global state belongs to the worker alone.                           *)
(***************************************************************************)
EXTENDS Integers, Functions

CONSTANTS
    NWorkers,       \* g->nworkers
    BucketCapacity, \* bucket_capacity[] of the closures' bucket
    ChunkBlocks,    \* blocks in INTERNAL_MALLOC_CHUNK_SIZE bytes
    MEM_LIST_SIZE,  \* initial length of mem_list
    MaxInUse,       \* bound on the live closures
    MaxDrift        \* bound on a worker's mallocs less its frees, either way

Batch == BucketCapacity \div 2

(* A batch never needs two new chunks.                                     *)
ASSUME SizesAssumption ==
    /\ NWorkers \in Nat \ {0}
    /\ BucketCapacity \in Nat /\ Batch > 0 /\ MEM_LIST_SIZE \in Nat \ {0}
    /\ ChunkBlocks \in Nat /\ ChunkBlocks >= Batch
    /\ MaxInUse \in Nat \ {0} /\ MaxDrift \in Nat \ {0}

VARIABLES
    free,     \* bucket->free_list_size of each worker
    used,     \* l->im_desc.used (and the bucket's wasted) of each worker
    num,      \* l->im_desc.num_malloc[IM_CLOSURE] of each worker
    allocd,   \* bucket->allocated of each worker
    gfree,    \* the global bucket's free_list_size
    gused,    \* g->im_desc.used
    gnum,     \* g->im_desc.num_malloc[IM_CLOSURE]
    chunks,   \* g->im_pool.mem_list_index + 1, the chunks from the system
    avail,    \* mem_end - mem_begin: what is left of the current chunk
    listSize, \* g->im_pool.mem_list_size
    inUse,    \* blocks that hold a closure, the root's included
    pc,       \* what each worker does next
    phase     \* how far startup and shutdown are

wvars == <<free, used, num, allocd>>
gvars == <<gfree, gused, gnum, chunks, avail, listSize>>
vars == <<wvars, gvars, inUse, pc, phase>>

Workers == 0 .. NWorkers - 1

(* cilk_internal_malloc_global_init, and init_im_buckets of every worker.  *)
Init ==
    /\ free = [w \in Workers |-> 0] /\ used = [w \in Workers |-> 0]
    /\ num = [w \in Workers |-> 0] /\ allocd = [w \in Workers |-> 0]
    /\ gfree = 0 /\ gused = 0 /\ gnum = 0
    /\ chunks = 0 /\ avail = 0 /\ listSize = MEM_LIST_SIZE
    /\ inUse = 0
    /\ pc = [w \in Workers |-> "idle"]
    /\ phase = "startup"

Add(f, w, n) == [f EXCEPT ![w] = @ + n]
Goto(w, l) == pc' = [pc EXCEPT ![w] = l]
At(w, l) == phase = "running" /\ pc[w] = l

-----------------------------------------------------------------------------
(* Of a batch, the blocks that the global list gives and the ones that are *)
(* cut from a chunk.                                                       *)
FromList == IF gfree <= Batch THEN gfree ELSE Batch
Fresh == Batch - FromList

(* g->im_desc.used counts every block that workers have, cut or reused.    *)
UsedByFresh == gused + Fresh
UsedByBatch == gused + Batch

(* mem_list is doubled when the index of the new chunk is beyond it.       *)
ListFullLate == chunks > listSize
ListFull == chunks >= listSize

(* extend_global_pool, when the batch needs more than the chunk has.       *)
Cut ==
    IF Fresh <= avail
      THEN avail' = avail - Fresh /\ UNCHANGED <<chunks, listSize>>
      ELSE /\ avail' = avail + ChunkBlocks - Fresh
           /\ chunks' = chunks + 1
           /\ listSize' = IF ListFull THEN 2 * listSize ELSE listSize

(* im_allocate_batch under im_lock, and the block for the caller.          *)
Fetch(w) ==
    /\ gused' = UsedByBatch
    /\ gfree' = gfree - FromList
    /\ Cut
    /\ free' = Add(free, w, Batch - 1)
    /\ allocd' = Add(allocd, w, Batch)
    /\ inUse' = inUse + 1
    /\ UNCHANGED gnum

Count(w, n) == used' = Add(used, w, n) /\ num' = Add(num, w, n)

(* __cilkrts_startup creates the root closure on worker 0.                 *)
Startup ==
    /\ phase = "startup"
    /\ Count(0, 1) /\ Fetch(0)
    /\ phase' = "running"
    /\ UNCHANGED pc

(* cilk_internal_malloc.  The bound leaves room for every refill under way.*)
Malloc(w) ==
    /\ At(w, "idle")
    /\ num[w] < MaxDrift /\ SumFunction(num) < MaxInUse
    /\ Count(w, 1)
    /\ IF free[w] > 0
         THEN /\ free' = Add(free, w, -1) /\ inUse' = inUse + 1
              /\ UNCHANGED <<allocd, pc>>
         ELSE Goto(w, "refill") /\ UNCHANGED <<free, allocd, inUse>>
    /\ UNCHANGED <<gvars, phase>>

Refill(w) ==
    /\ At(w, "refill")
    /\ Fetch(w)
    /\ Goto(w, "idle")
    /\ UNCHANGED <<used, num, phase>>

(* cilk_internal_free, of a closure that any worker allocated; the root    *)
(* stays.  Above the limit the list is cut in batches.                     *)
OverLimit(n) == n > BucketCapacity

Free(w) ==
    /\ At(w, "idle") /\ inUse > 1
    /\ num[w] > -MaxDrift
    /\ Count(w, -1)
    /\ free' = Add(free, w, 1)
    /\ inUse' = inUse - 1
    /\ Goto(w, IF OverLimit(free[w] + 1) THEN "flush" ELSE "idle")
    /\ UNCHANGED <<allocd, gvars, phase>>

(* im_free_batch under im_lock: up to a batch of blocks, linked to the     *)
(* global list one by one.                                                 *)
ListWithLast(k) == gfree + 1
ListWith(k) == gfree + k

FreeBatch(w) ==
    LET k == IF free[w] <= Batch THEN free[w] ELSE Batch
    IN  /\ free' = Add(free, w, -k)
        /\ allocd' = Add(allocd, w, -k)
        /\ gfree' = ListWith(k)
        /\ gused' = gused - k
        /\ UNCHANGED <<used, chunks, avail, listSize, inUse>>

Flush(w) ==
    /\ At(w, "flush")
    /\ FreeBatch(w)
    /\ Goto(w, IF OverLimit(free'[w]) THEN "flush" ELSE "idle")
    /\ UNCHANGED <<num, gnum, phase>>

-----------------------------------------------------------------------------
(* __cilkrts_shutdown, with every thread joined and the root closure alone.*)
(* Closure::destroy gives it to cilk_internal_free_global.                 *)
FreeRoot ==
    /\ phase = "running" /\ inUse = 1
    /\ \A w \in Workers : pc[w] = "idle"
    /\ gfree' = gfree + 1 /\ gnum' = gnum - 1 /\ gused' = gused - 1
    /\ inUse' = 0
    /\ phase' = "terminate"
    /\ UNCHANGED <<wvars, chunks, avail, listSize, pc>>

(* cilk_internal_malloc_per_worker_terminate, for_each_worker_rev: the     *)
(* list in batches, then the counts of the tags.                           *)
MayTerminate(w) ==
    /\ phase = "terminate" /\ pc[w] # "done"
    /\ \A v \in Workers : v > w => pc[v] = "done"

TerminateBatch(w) ==
    /\ MayTerminate(w) /\ free[w] > 0
    /\ FreeBatch(w)
    /\ UNCHANGED <<num, gnum, pc, phase>>

Collected(w) == gnum + num[w]

TerminateWorker(w) ==
    /\ MayTerminate(w) /\ free[w] = 0
    /\ gnum' = Collected(w)
    /\ num' = [num EXCEPT ![w] = 0]
    /\ Goto(w, "done")
    /\ UNCHANGED <<free, used, allocd, gfree, gused, chunks, avail, listSize,
                   inUse, phase>>

(* cilk_internal_malloc_global_terminate only checks (CheckAtExit below);  *)
(* cilk_internal_malloc_global_destroy gives the chunks back.              *)
Destroy ==
    /\ phase = "terminate" /\ \A w \in Workers : pc[w] = "done"
    /\ chunks' = 0 /\ avail' = 0 /\ listSize' = 0
    /\ phase' = "destroyed"
    /\ UNCHANGED <<wvars, gfree, gused, gnum, inUse, pc>>

Finished == phase = "destroyed" /\ UNCHANGED vars

Next ==
    \/ \E w \in Workers :
         \/ Malloc(w) \/ Refill(w) \/ Free(w) \/ Flush(w)
         \/ TerminateBatch(w) \/ TerminateWorker(w)
    \/ Startup \/ FreeRoot \/ Destroy \/ Finished

Spec == Init /\ [][Next]_vars

-----------------------------------------------------------------------------
(* Every list stays within its limit: mem_list has a slot for each chunk   *)
(* (assert_global_pool, and the store that ends extend_global_pool), and a *)
(* worker's free list that others may fill is within free_list_limit       *)
(* whenever the worker is outside the allocator (assert_bucket).           *)
TypeOK ==
    /\ free \in [Workers -> 0 .. BucketCapacity + 1]
    /\ used \in [Workers -> Int] /\ num \in [Workers -> Int]
    /\ allocd \in [Workers -> Int]
    /\ gfree \in Nat /\ gused \in Nat /\ gnum \in Int
    /\ chunks \in 0 .. listSize /\ avail \in 0 .. ChunkBlocks
    /\ inUse \in 0 .. MaxInUse
    /\ pc \in [Workers -> {"idle", "refill", "flush", "done"}]
    /\ phase \in {"startup", "running", "terminate", "destroyed"}
    /\ \A w \in Workers : free[w] > BucketCapacity => pc[w] = "flush"

(* No block is lost or given out twice while workers move batches through  *)
(* the global list: every block cut from a chunk is a closure or is in     *)
(* exactly one free list.                                                  *)
BlocksConserved ==
    phase # "destroyed" =>
        chunks * ChunkBlocks - avail = inUse + gfree + SumFunction(free)

(* internal_malloc_global_check, as it stands outside the allocator before *)
(* shutdown: the global count of used memory is what the workers count as  *)
(* used and free together, though blocks migrate between them and single   *)
(* counts may be negative, and with the free and available memory it makes *)
(* up the chunks; the buckets' counts of allocated blocks agree as well.   *)
(* When the pool is destroyed no closure is missing and none was freed     *)
(* twice: the mallocs and frees that all the workers counted add up to the *)
(* root closure's (the assertion at internal-malloc.cpp:428).              *)
GlobalUsedIsWorkers == gused = SumFunction(used) + SumFunction(free)

GlobalCheck ==
    /\ phase = "running" /\ (\A w \in Workers : pc[w] = "idle") =>
         /\ GlobalUsedIsWorkers
         /\ gused + gfree + avail = chunks * ChunkBlocks
         /\ SumFunction(allocd) = inUse + SumFunction(free)
    /\ phase = "destroyed" => gnum = 0

(* The same check as cilk_internal_malloc_global_terminate makes it, when  *)
(* the workers are done: "Possible memory leak" unless the global count is *)
(* the workers' total.  The root closure breaks it: worker 0 counted it,   *)
(* cilk_internal_free_global takes it from the global count only.          *)
CheckAtExit ==
    phase = "terminate" /\ (\A w \in Workers : pc[w] = "done") =>
        GlobalUsedIsWorkers
=============================================================================
