------------------------ MODULE InternalMalloc_proof ------------------------
(***************************************************************************)
(* The internal allocator loses no block and its counts are right,         *)
(* whatever the number of workers, the capacity of a bucket and the size   *)
(* of a chunk.                                                             *)
(*                                                                         *)
(* A worker counts an allocation before it takes im_lock to fetch a batch  *)
(* for it, and counts a free that another worker allocated, so no single   *)
(* count means anything. The invariant says which sums do, at every step.  *)
(***************************************************************************)
EXTENDS InternalMalloc, Sums_proof

(* The workers that have counted an allocation and wait for im_lock to     *)
(* fetch a batch for it.                                                   *)
Refilling == HowMany(Workers, pc, "refill")
(* Where a worker can be.                                                  *)
Points == {"idle", "refill", "flush", "done"}
(* Before the root closure is freed.                                       *)
Open == phase \in {"startup", "running"}

(* The types, with weaker ranges where other parts give the bounds.        *)
Shape ==
    /\ free \in [Workers -> Nat]
    /\ used \in [Workers -> Int] /\ num \in [Workers -> Int]
    /\ allocd \in [Workers -> Int]
    /\ gfree \in Nat /\ gused \in Int /\ gnum \in Int
    /\ listSize \in Nat /\ chunks \in 0 .. listSize /\ avail \in 0 .. ChunkBlocks
    /\ inUse \in Nat
    /\ pc \in [Workers -> Points]
    /\ phase \in {"startup", "running", "terminate", "destroyed"}

(* A worker's list goes over its limit only between the free that fills it *)
(* and the batch given back, and is empty while the worker fetches a       *)
(* batch.                                                                  *)
Limits ==
    \A w \in Workers :
        /\ free[w] <= BucketCapacity + 1
        /\ pc[w] # "flush" => free[w] <= BucketCapacity
        /\ pc[w] = "refill" => free[w] = 0
        /\ pc[w] = "done" => num[w] = 0

(* What startup and the steps of shutdown rely on.                         *)
Phases ==
    /\ phase = "startup" => inUse = 0 /\ \A w \in Workers : pc[w] = "idle" /\ free[w] = 0
    /\ phase \in {"startup", "running"} => \A w \in Workers : pc[w] # "done"
    /\ phase \in {"terminate", "destroyed"} =>
         inUse = 0 /\ \A w \in Workers : pc[w] \in {"idle", "done"}
    /\ phase = "destroyed" => \A w \in Workers : pc[w] = "done"
    /\ phase # "destroyed" => listSize > 0

(* g->im_desc.used counts what is not in the global list: the closures and *)
(* the workers' lists. With the global list and the rest of the chunk it   *)
(* makes up the chunks.                                                    *)
Blocks ==
    /\ gused = inUse + SumFunction(free)
    /\ phase # "destroyed" => gused + gfree + avail = chunks * ChunkBlocks

(* The workers' own counts are right only together, and only if the        *)
(* allocations that still wait for a batch are added; after the root       *)
(* closure is freed to the global count, the two kinds of counts cancel.   *)
Books ==
    /\ Open => /\ SumFunction(used) = inUse + Refilling
               /\ SumFunction(num) = inUse + Refilling
               /\ SumFunction(allocd) = gused
               /\ inUse + Refilling <= MaxInUse
               /\ gnum = 0
    /\ ~Open => SumFunction(num) + gnum = 0

(* The inductive invariant.                                                *)
IInv == Shape /\ Limits /\ Phases /\ Blocks /\ Books

-----------------------------------------------------------------------------
(* There are finitely many lists to add up.                                *)
LEMMA WorkersFinite == IsFiniteSet(Workers)
  BY SizesAssumption, FS_Interval DEF Workers

(* A batch is at least one block, fits a worker's list and is cut from at  *)
(* most one new chunk.                                                     *)
LEMMA BatchRange ==
    /\ Batch \in Nat /\ Batch >= 1 /\ BucketCapacity \in Nat /\ Batch <= BucketCapacity
    /\ ChunkBlocks \in Nat /\ Batch <= ChunkBlocks
<1>1. BucketCapacity \in Nat /\ Batch > 0 /\ ChunkBlocks \in Nat /\ ChunkBlocks >= Batch
  BY SizesAssumption
<1>2. Batch \in Nat /\ Batch <= BucketCapacity
  BY <1>1, SMT DEF Batch
<1> QED
  BY <1>1, <1>2

(* What a step that adds n to the entry of one worker does to a total.     *)
LEMMA Added ==
    ASSUME NEW f \in [Workers -> Int], NEW w \in Workers, NEW n \in Int
    PROVE  /\ Add(f, w, n) \in [Workers -> Int]
           /\ SumFunction(f) \in Int
           /\ SumFunction(Add(f, w, n)) = SumFunction(f) + n
<1>1. Add(f, w, n) = [f EXCEPT ![w] = f[w] + n] /\ f[w] + n \in Int /\ f[w] \in Int
  BY DEF Add
<1>2. ASSUME NEW v \in Int
      PROVE  /\ SumFunction([f EXCEPT ![w] = v]) = SumFunction(f) - f[w] + v
             /\ SumFunction(f) \in Int
  BY WorkersFinite, TotalUpdate
<1>3. /\ SumFunction(Add(f, w, n)) = SumFunction(f) - f[w] + (f[w] + n)
      /\ SumFunction(f) \in Int
  BY <1>1, <1>2, Zenon
<1> QED
  BY <1>1, <1>3

(* What a step of one worker does to the number of workers at a point.     *)
LEMMA Counted ==
    ASSUME NEW w \in Workers, \A v \in Workers \ {w} : pc'[v] = pc[v]
    PROVE  \A a :
        /\ (pc[w] = a <=> pc'[w] = a) =>
             HowMany(Workers, pc', a) = HowMany(Workers, pc, a)
        /\ pc[w] = a /\ pc'[w] # a =>
             HowMany(Workers, pc', a) = HowMany(Workers, pc, a) - 1
        /\ pc[w] # a /\ pc'[w] = a =>
             HowMany(Workers, pc', a) = HowMany(Workers, pc, a) + 1
<1>1. ASSUME NEW a, pc[w] = a <=> pc'[w] = a
      PROVE  HowMany(Workers, pc', a) = HowMany(Workers, pc, a)
  <2>1. {v \in Workers : pc'[v] = a} = {v \in Workers : pc[v] = a}
    BY <1>1
  <2> QED
    BY <2>1 DEF HowMany
<1>2. \A a : pc[w] = a /\ pc'[w] # a =>
                 HowMany(Workers, pc', a) = HowMany(Workers, pc, a) - 1
  BY WorkersFinite, CountUpdate
<1>3. \A a : pc[w] # a /\ pc'[w] = a =>
                 HowMany(Workers, pc', a) = HowMany(Workers, pc, a) + 1
  BY WorkersFinite, CountUpdate
<1> QED
  BY <1>1, <1>2, <1>3, Zenon

(* The same, for the workers that fetch a batch.                           *)
LEMMA Moved ==
    ASSUME Shape, NEW w \in Workers, NEW l, Goto(w, l)
    PROVE  /\ (pc[w] = "refill" <=> l = "refill") => Refilling' = Refilling
           /\ pc[w] = "refill" /\ l # "refill" => Refilling' = Refilling - 1
           /\ pc[w] # "refill" /\ l = "refill" => Refilling' = Refilling + 1
           /\ Refilling \in Nat /\ Refilling' \in Nat
<1>1. \A v \in Workers \ {w} : pc'[v] = pc[v]
  BY DEF Shape, Goto
<1>2. pc'[w] = l
  BY DEF Shape, Goto
<1>3. Refilling' = HowMany(Workers, pc', "refill")
  BY DEF Refilling
<1>4. Refilling \in Nat /\ Refilling' \in Nat
  BY <1>3, WorkersFinite, CountType, Zenon DEF Refilling
<1> QED
  BY <1>1, <1>2, <1>3, <1>4, Counted, Zenon DEF Refilling

(* A step of worker w before shutdown that adds df to its free list, du to *)
(* its counts of mallocs and of used memory and da to its count of         *)
(* allocated blocks, and keeps the books.                                  *)
LEMMA WorkerStep ==
    ASSUME IInv, Open, phase' = "running",
           NEW w \in Workers, NEW df \in Int, NEW du \in Int, NEW da \in Int,
           free' = Add(free, w, df), used' = Add(used, w, du),
           num' = Add(num, w, du), allocd' = Add(allocd, w, da),
           NEW l \in {"idle", "refill", "flush"}, Goto(w, l),
           free[w] + df \in 0 .. BucketCapacity + 1,
           l # "flush" => free[w] + df <= BucketCapacity,
           l = "refill" => free[w] + df = 0,
           gfree' \in Nat, gnum' = gnum, gused' \in Int,
           listSize' \in Nat \ {0}, chunks' \in 0 .. listSize',
           avail' \in 0 .. ChunkBlocks, inUse' \in Nat,
           gused' = gused + da, da = (inUse' - inUse) + df,
           du = (inUse' - inUse) + (Refilling' - Refilling),
           gused' + gfree' + avail' = chunks' * ChunkBlocks,
           inUse' + Refilling' <= MaxInUse
    PROVE  IInv'
<1>1. Shape /\ Limits /\ Phases /\ Blocks /\ Books
  BY DEF IInv
<1>2. BucketCapacity \in Nat
  BY BatchRange
<1>3. free \in [Workers -> Int] /\ free[w] \in Nat
  BY <1>1 DEF Shape
<1>4. /\ pc'[w] = l /\ free'[w] = free[w] + df
      /\ \A v \in Workers \ {w} : pc'[v] = pc[v] /\ free'[v] = free[v] /\ num'[v] = num[v]
  BY <1>1 DEF Shape, Goto, Add
<1>5. /\ used' \in [Workers -> Int] /\ num' \in [Workers -> Int]
      /\ allocd' \in [Workers -> Int] /\ free' \in [Workers -> Int]
      /\ SumFunction(used') = SumFunction(used) + du
      /\ SumFunction(num') = SumFunction(num) + du
      /\ SumFunction(allocd') = SumFunction(allocd) + da
      /\ SumFunction(free') = SumFunction(free) + df
      /\ SumFunction(used) \in Int /\ SumFunction(num) \in Int
      /\ SumFunction(allocd) \in Int /\ SumFunction(free) \in Int
  BY <1>1, <1>3, Added DEF Shape
<1>6. Shape'
  <2>1. free' \in [Workers -> Nat]
    <3>1. \A v \in Workers : free'[v] \in Nat
      BY <1>1, <1>2, <1>4 DEF Shape
    <3> QED
      BY <1>5, <3>1
  <2>2. pc' \in [Workers -> Points]
    BY <1>1 DEF Shape, Goto, Points
  <2> QED
    BY <1>1, <1>5, <2>1, <2>2 DEF Shape
<1>7. Limits'
  <2> SUFFICES ASSUME NEW v \in Workers
               PROVE  /\ free'[v] <= BucketCapacity + 1
                      /\ pc'[v] # "flush" => free'[v] <= BucketCapacity
                      /\ pc'[v] = "refill" => free'[v] = 0
                      /\ pc'[v] = "done" => num'[v] = 0
    BY DEF Limits
  <2>1. CASE v = w
    BY <1>2, <1>4, <2>1
  <2>2. CASE v # w
    BY <1>1, <1>4, <2>2 DEF Limits
  <2> QED
    BY <2>1, <2>2
<1>8. Phases'
  <2>1. \A v \in Workers : pc'[v] # "done"
    BY <1>1, <1>4 DEF Phases, Open
  <2> QED
    BY <2>1 DEF Phases
<1>9. inUse \in Int /\ gused \in Int /\ Refilling \in Int /\ Refilling' \in Int
  BY <1>1, Moved DEF Shape
<1>10. Blocks'
  <2>1. gused' = inUse' + SumFunction(free')
    BY <1>1, <1>5, <1>9 DEF Blocks
  <2> QED
    BY <2>1 DEF Blocks
<1>11. Books'
  <2>1. /\ SumFunction(used) = inUse + Refilling
        /\ SumFunction(num) = inUse + Refilling
        /\ SumFunction(allocd) = gused /\ gnum = 0
    BY <1>1 DEF Books
  <2>2. /\ SumFunction(used') = inUse' + Refilling'
        /\ SumFunction(num') = inUse' + Refilling'
        /\ SumFunction(allocd') = gused' /\ gnum' = 0
    BY <1>5, <1>9, <2>1
  <2> QED
    BY <2>2 DEF Books, Open
<1> QED
  BY <1>6, <1>7, <1>8, <1>10, <1>11 DEF IInv

(* im_allocate_batch, with extend_global_pool: whatever the global list    *)
(* gives and the chunks are cut for, the pool's count stays the sum of its *)
(* parts, and mem_list has a slot for a new chunk.                         *)
LEMMA FetchBooks ==
    ASSUME IInv, Open, NEW w \in Workers, Fetch(w)
    PROVE  /\ free' = Add(free, w, Batch - 1) /\ allocd' = Add(allocd, w, Batch)
           /\ inUse' = inUse + 1 /\ inUse' \in Nat
           /\ gfree' \in Nat /\ gnum' = gnum /\ gused' \in Int /\ gused' = gused + Batch
           /\ listSize' \in Nat \ {0} /\ chunks' \in 0 .. listSize'
           /\ avail' \in 0 .. ChunkBlocks
           /\ gused' + gfree' + avail' = chunks' * ChunkBlocks
<1>1. /\ gfree \in Nat /\ gused \in Int /\ inUse \in Nat /\ listSize \in Nat \ {0}
      /\ chunks \in 0 .. listSize /\ avail \in 0 .. ChunkBlocks
      /\ gused + gfree + avail = chunks * ChunkBlocks
  BY SMT DEF IInv, Shape, Phases, Blocks, Open
<1>2. /\ Batch \in Nat /\ ChunkBlocks \in Nat /\ Batch <= ChunkBlocks
      /\ chunks \in Nat
  BY <1>1, BatchRange, SMT
<1>3. FromList \in 0 .. Batch /\ FromList <= gfree /\ Fresh = Batch - FromList
  BY <1>1, <1>2, SMT DEF FromList, Fresh
<1>4. /\ gused' = gused + Batch /\ gfree' = gfree - FromList /\ inUse' = inUse + 1
      /\ free' = Add(free, w, Batch - 1) /\ allocd' = Add(allocd, w, Batch)
      /\ gnum' = gnum /\ Cut
  BY DEF Fetch, UsedByBatch
<1>5. /\ listSize' \in Nat \ {0} /\ chunks' \in 0 .. listSize'
      /\ avail' \in 0 .. ChunkBlocks
      /\ gused' + gfree' + avail' = chunks' * ChunkBlocks
  <2> HIDE DEF Batch
  <2>1. CASE Fresh <= avail
    <3>1. avail' = avail - Fresh /\ chunks' = chunks /\ listSize' = listSize
      BY <1>4, <2>1 DEF Cut
    <3>2. avail' \in 0 .. ChunkBlocks
      BY <1>1, <1>2, <1>3, <2>1, <3>1, SMT
    <3>3. gused' + gfree' + avail' = gused + gfree + avail
      BY <1>1, <1>2, <1>3, <1>4, <3>1, SMT
    <3> QED
      BY <1>1, <3>1, <3>2, <3>3
  <2>2. CASE ~(Fresh <= avail)
    <3>1. /\ avail' = avail + ChunkBlocks - Fresh /\ chunks' = chunks + 1
          /\ listSize' = IF ListFull THEN 2 * listSize ELSE listSize
      BY <1>4, <2>2 DEF Cut
    <3>2. avail' \in 0 .. ChunkBlocks
      BY <1>1, <1>2, <1>3, <2>2, <3>1, SMT
    <3>3. listSize' \in Nat \ {0} /\ chunks' \in 0 .. listSize'
      BY <1>1, <1>2, <3>1, SMT DEF ListFull
    <3>4. gused' + gfree' + avail' = (gused + gfree + avail) + ChunkBlocks
      BY <1>1, <1>2, <1>3, <1>4, <3>1, SMT
    <3>5. (chunks + 1) * ChunkBlocks = chunks * ChunkBlocks + ChunkBlocks
      BY <1>2, SMT
    <3> QED
      BY <1>1, <3>1, <3>2, <3>3, <3>4, <3>5
  <2> QED
    BY <2>1, <2>2
<1>6. gfree' \in Nat /\ gused' \in Int /\ inUse' \in Nat
  BY <1>1, <1>2, <1>3, <1>4, SMT
<1> QED
  BY <1>4, <1>5, <1>6

(* A worker's count that stays.                                            *)
LEMMA Kept ==
    ASSUME NEW f \in [Workers -> Int], NEW w \in Workers
    PROVE  Add(f, w, 0) = f
  BY DEF Add

(* The ranges that the steps below calculate with.                         *)
LEMMA Ranges ==
    ASSUME IInv, NEW w \in Workers
    PROVE  /\ free[w] \in Nat /\ free[w] <= BucketCapacity + 1
           /\ pc[w] # "flush" => free[w] <= BucketCapacity
           /\ pc[w] = "refill" => free[w] = 0
           /\ free \in [Workers -> Int] /\ used \in [Workers -> Int]
           /\ num \in [Workers -> Int] /\ allocd \in [Workers -> Int]
           /\ gfree \in Nat /\ gused \in Int /\ inUse \in Nat /\ Refilling \in Nat
           /\ BucketCapacity \in Nat /\ Batch \in Nat /\ Batch >= 1
           /\ Batch <= BucketCapacity
<1>1. Refilling \in Nat
  BY WorkersFinite, CountType, Zenon DEF Refilling
<1> QED
  BY <1>1, BatchRange DEF IInv, Shape, Limits

(* A step that leaves the global pool alone.                               *)
LEMMA SamePool ==
    ASSUME IInv, Open, UNCHANGED gvars
    PROVE  /\ gfree' \in Nat /\ gnum' = gnum /\ gused' \in Int /\ gused' = gused + 0
           /\ listSize' \in Nat \ {0} /\ chunks' \in 0 .. listSize'
           /\ avail' \in 0 .. ChunkBlocks
           /\ gused' + gfree' + avail' = chunks' * ChunkBlocks
  BY SMT DEF IInv, Shape, Phases, Blocks, Open, gvars

(* __cilkrts_startup allocates the root closure.                           *)
LEMMA StartupStep == ASSUME IInv, Startup PROVE IInv'
<1>1. 0 \in Workers /\ MaxInUse >= 1
  BY SizesAssumption DEF Workers
<1>2. Open /\ phase' = "running" /\ Fetch(0) /\ Count(0, 1) /\ phase = "startup"
  BY DEF Startup, Open
<1>3. pc[0] = "idle" /\ free[0] = 0 /\ inUse = 0
  BY <1>1, <1>2 DEF IInv, Phases
<1>4. Goto(0, "idle")
  BY <1>1, <1>3 DEF Startup, Goto, IInv, Shape
<1>5. Refilling' = Refilling /\ Refilling = 0
  <2>1. {w \in Workers : pc[w] = "refill"} = {}
    BY <1>2 DEF IInv, Phases
  <2> QED
    BY <1>1, <1>3, <1>4, <2>1, Moved, FS_EmptySet DEF IInv, Refilling, HowMany
<1>6. /\ used' = Add(used, 0, 1) /\ num' = Add(num, 0, 1)
  BY <1>2 DEF Count
<1>7. /\ Batch \in Nat /\ Batch >= 1 /\ BucketCapacity \in Nat /\ Batch <= BucketCapacity
  BY BatchRange
<1>8. /\ free[0] + (Batch - 1) \in 0 .. BucketCapacity + 1
      /\ free[0] + (Batch - 1) <= BucketCapacity
      /\ Batch - 1 \in Int /\ Batch \in Int
      /\ Batch = ((inUse + 1) - inUse) + (Batch - 1)
  BY <1>3, <1>7, SMT
<1>9. /\ 1 = (inUse' - inUse) + (Refilling' - Refilling)
      /\ inUse' + Refilling' <= MaxInUse /\ inUse' = inUse + 1
  BY <1>1, <1>2, <1>3, <1>5, FetchBooks, SizesAssumption
<1> HIDE DEF Batch
<1> QED
  BY <1>1, <1>2, <1>4, <1>6, <1>8, <1>9, FetchBooks, WorkerStep

(* cilk_internal_malloc: from the worker's list, or first a batch.         *)
LEMMA MallocStep == ASSUME IInv, NEW w \in Workers, Malloc(w) PROVE IInv'
<1>1. /\ phase = "running" /\ Open /\ phase' = "running" /\ UNCHANGED gvars
      /\ pc[w] = "idle" /\ Count(w, 1)
  BY DEF Malloc, At, Open
<1>2. /\ free[w] \in Nat /\ free[w] <= BucketCapacity
      /\ free \in [Workers -> Int] /\ used \in [Workers -> Int]
      /\ num \in [Workers -> Int] /\ allocd \in [Workers -> Int]
      /\ inUse \in Nat /\ Refilling \in Nat /\ BucketCapacity \in Nat
  BY <1>1, Ranges
<1>3. inUse + Refilling < MaxInUse
  BY <1>1 DEF Malloc, IInv, Books
<1>4. used' = Add(used, w, 1) /\ num' = Add(num, w, 1)
  BY <1>1 DEF Count
<1>5. CASE free[w] > 0
  <2>1. /\ free' = Add(free, w, -1) /\ inUse' = inUse + 1
        /\ allocd' = Add(allocd, w, 0) /\ pc' = pc
    BY <1>2, <1>5, Kept DEF Malloc
  <2>2. Goto(w, "idle")
    BY <1>1, <2>1 DEF Goto, IInv, Shape
  <2>3. Refilling' = Refilling
    BY <2>1 DEF Refilling
  <2>4. /\ free[w] + (-1) \in 0 .. BucketCapacity + 1
        /\ free[w] + (-1) <= BucketCapacity
        /\ inUse' \in Nat /\ 0 = (inUse' - inUse) + (-1)
        /\ 1 = (inUse' - inUse) + (Refilling' - Refilling)
        /\ inUse' + Refilling' <= MaxInUse
    BY <1>2, <1>3, <1>5, <2>1, <2>3, SizesAssumption, SMT
  <2>5. -1 \in Int /\ 0 \in Int /\ 1 \in Int
    OBVIOUS
  <2> QED
    BY <1>1, <1>4, <2>1, <2>2, <2>4, <2>5, SamePool, WorkerStep
<1>6. CASE ~(free[w] > 0)
  <2>1. /\ free' = Add(free, w, 0) /\ inUse' = inUse
        /\ allocd' = Add(allocd, w, 0) /\ Goto(w, "refill")
    BY <1>2, <1>6, Kept DEF Malloc
  <2>2. Refilling' = Refilling + 1
    BY <1>1, <2>1, Moved DEF IInv
  <2>3. /\ free[w] + 0 \in 0 .. BucketCapacity + 1
        /\ free[w] + 0 <= BucketCapacity /\ free[w] + 0 = 0
        /\ inUse' \in Nat /\ 0 = (inUse' - inUse) + 0
        /\ 1 = (inUse' - inUse) + (Refilling' - Refilling)
        /\ inUse' + Refilling' <= MaxInUse
    BY <1>2, <1>3, <1>6, <2>1, <2>2, SizesAssumption, SMT
  <2>4. 0 \in Int /\ 1 \in Int
    OBVIOUS
  <2> QED
    BY <1>1, <1>4, <2>1, <2>3, <2>4, SamePool, WorkerStep
<1> QED
  BY <1>5, <1>6

(* The batch arrives; another worker may have changed the pool since the   *)
(* list was found empty.                                                   *)
LEMMA RefillStep == ASSUME IInv, NEW w \in Workers, Refill(w) PROVE IInv'
<1>1. /\ phase = "running" /\ Open /\ phase' = "running" /\ Fetch(w)
      /\ pc[w] = "refill" /\ Goto(w, "idle") /\ used' = used /\ num' = num
  BY DEF Refill, At, Open
<1>2. /\ free[w] = 0 /\ used \in [Workers -> Int] /\ num \in [Workers -> Int]
      /\ inUse \in Nat /\ Refilling \in Nat /\ BucketCapacity \in Nat
      /\ Batch \in Nat /\ Batch >= 1 /\ Batch <= BucketCapacity
  BY <1>1, Ranges
<1>3. used' = Add(used, w, 0) /\ num' = Add(num, w, 0)
  BY <1>1, <1>2, Kept
<1>4. Refilling' = Refilling - 1
  BY <1>1, Moved DEF IInv
<1>5. inUse + Refilling <= MaxInUse
  BY <1>1 DEF IInv, Books
<1>6. inUse' = inUse + 1
  BY <1>1, FetchBooks
<1>7. /\ free[w] + (Batch - 1) \in 0 .. BucketCapacity + 1
      /\ free[w] + (Batch - 1) <= BucketCapacity
      /\ Batch - 1 \in Int /\ Batch \in Int /\ 0 \in Int
      /\ Batch = (inUse' - inUse) + (Batch - 1)
      /\ 0 = (inUse' - inUse) + (Refilling' - Refilling)
      /\ inUse' + Refilling' <= MaxInUse
  <2> HIDE DEF Batch
  <2> QED
    BY <1>2, <1>4, <1>5, <1>6, SizesAssumption, SMT
<1> HIDE DEF Batch
<1> QED
  BY <1>1, <1>3, <1>7, FetchBooks, WorkerStep

(* cilk_internal_free of a closure, whichever worker allocated it.         *)
LEMMA FreeStep == ASSUME IInv, NEW w \in Workers, Free(w) PROVE IInv'
<1> DEFINE l == IF OverLimit(free[w] + 1) THEN "flush" ELSE "idle"
<1>1. /\ phase = "running" /\ Open /\ phase' = "running" /\ UNCHANGED gvars
      /\ pc[w] = "idle" /\ Goto(w, l) /\ inUse > 1
      /\ used' = Add(used, w, -1) /\ num' = Add(num, w, -1)
      /\ free' = Add(free, w, 1) /\ inUse' = inUse - 1 /\ allocd' = allocd
  BY DEF Free, At, Open, Count
<1>2. /\ free[w] \in Nat /\ free[w] <= BucketCapacity
      /\ allocd \in [Workers -> Int]
      /\ inUse \in Nat /\ Refilling \in Nat /\ BucketCapacity \in Nat
  BY <1>1, Ranges
<1>3. allocd' = Add(allocd, w, 0)
  BY <1>1, <1>2, Kept
<1>4. Refilling' = Refilling
  BY <1>1, Moved DEF IInv
<1>5. inUse + Refilling <= MaxInUse
  BY <1>1 DEF IInv, Books
<1>6. /\ free[w] + 1 \in 0 .. BucketCapacity + 1
      /\ l # "flush" => free[w] + 1 <= BucketCapacity
      /\ l \in {"idle", "refill", "flush"} /\ l # "refill"
      /\ inUse' \in Nat /\ 0 = (inUse' - inUse) + 1
      /\ -1 = (inUse' - inUse) + (Refilling' - Refilling)
      /\ inUse' + Refilling' <= MaxInUse
  BY <1>1, <1>2, <1>4, <1>5, SizesAssumption, SMT DEF OverLimit
<1>7. -1 \in Int /\ 0 \in Int /\ 1 \in Int
  OBVIOUS
<1> HIDE DEF l
<1> QED
  BY <1>1, <1>3, <1>6, <1>7, SamePool, WorkerStep

(* im_free_batch gives up to a batch to the global list.                   *)
LEMMA BatchGiven ==
    ASSUME IInv, phase # "destroyed", NEW w \in Workers, FreeBatch(w)
    PROVE  \E k \in 0 .. Batch :
             /\ k <= free[w]
             /\ free' = Add(free, w, -k) /\ allocd' = Add(allocd, w, -k)
             /\ gfree' = gfree + k /\ gused' = gused + (-k) /\ -k \in Int
             /\ gfree' \in Nat /\ gused' \in Int
             /\ gused' + gfree' + avail = chunks * ChunkBlocks
             /\ UNCHANGED <<used, chunks, avail, listSize, inUse>>
<1> DEFINE k == IF free[w] <= Batch THEN free[w] ELSE Batch
<1>1. free[w] \in Nat /\ Batch \in Nat /\ gfree \in Nat /\ gused \in Int
  BY Ranges
<1>2. k \in 0 .. Batch /\ k <= free[w] /\ -k \in Int
  BY <1>1, SMT
<1>3. /\ free' = Add(free, w, -k) /\ allocd' = Add(allocd, w, -k)
      /\ gfree' = gfree + k /\ gused' = gused - k
      /\ UNCHANGED <<used, chunks, avail, listSize, inUse>>
  BY DEF FreeBatch, ListWith
<1>4. gused + gfree + avail = chunks * ChunkBlocks /\ avail \in Nat
  BY BatchRange, SMT DEF IInv, Blocks, Shape
<1> HIDE DEF k, Batch
<1>5. /\ gused' = gused + (-k) /\ gfree' \in Nat /\ gused' \in Int
      /\ gused' + gfree' + avail = chunks * ChunkBlocks
  BY <1>1, <1>2, <1>3, <1>4, SMT
<1> QED
  BY <1>2, <1>3, <1>5

(* The worker's list is cut back to its limit.                             *)
LEMMA FlushStep == ASSUME IInv, NEW w \in Workers, Flush(w) PROVE IInv'
<1>1. /\ phase = "running" /\ Open /\ phase' = "running" /\ phase # "destroyed"
      /\ pc[w] = "flush" /\ FreeBatch(w) /\ num' = num /\ gnum' = gnum
  BY DEF Flush, At, Open
<1>2. PICK k \in 0 .. Batch :
             /\ k <= free[w]
             /\ free' = Add(free, w, -k) /\ allocd' = Add(allocd, w, -k)
             /\ gfree' = gfree + k /\ gused' = gused + (-k) /\ -k \in Int
             /\ gfree' \in Nat /\ gused' \in Int
             /\ gused' + gfree' + avail = chunks * ChunkBlocks
             /\ UNCHANGED <<used, chunks, avail, listSize, inUse>>
  BY <1>1, BatchGiven
<1>3. /\ free[w] \in Nat /\ free[w] <= BucketCapacity + 1
      /\ used \in [Workers -> Int] /\ num \in [Workers -> Int]
      /\ inUse \in Nat /\ Refilling \in Nat /\ BucketCapacity \in Nat
      /\ Batch \in Nat
  BY <1>1, Ranges
<1>4. free'[w] = free[w] + (-k)
  BY <1>2 DEF IInv, Shape, Add
<1> DEFINE l == IF OverLimit(free[w] + (-k)) THEN "flush" ELSE "idle"
<1>5. Goto(w, l)
  BY <1>4, Zenon DEF Flush
<1>6. used' = Add(used, w, 0) /\ num' = Add(num, w, 0)
  BY <1>1, <1>2, <1>3, Kept
<1>7. Refilling' = Refilling
  BY <1>1, <1>5, Moved DEF IInv
<1>8. inUse + Refilling <= MaxInUse /\ listSize' \in Nat \ {0}
      /\ chunks' \in 0 .. listSize' /\ avail' \in 0 .. ChunkBlocks
      /\ gused' + gfree' + avail' = chunks' * ChunkBlocks
  BY <1>1, <1>2 DEF IInv, Books, Shape, Phases
<1> HIDE DEF Batch
<1>9. /\ free[w] + (-k) \in 0 .. BucketCapacity + 1
      /\ l # "flush" => free[w] + (-k) <= BucketCapacity
      /\ l \in {"idle", "refill", "flush"} /\ l # "refill"
      /\ inUse' \in Nat /\ -k = (inUse' - inUse) + (-k)
      /\ 0 = (inUse' - inUse) + (Refilling' - Refilling)
      /\ inUse' + Refilling' <= MaxInUse /\ 0 \in Int
  BY <1>2, <1>3, <1>7, <1>8, SMT DEF OverLimit
<1> HIDE DEF l
<1> QED
  BY <1>1, <1>2, <1>5, <1>6, <1>8, <1>9, WorkerStep

(* The root closure is freed to the global list, not to a worker's.        *)
LEMMA FreeRootStep == ASSUME IInv, FreeRoot PROVE IInv'
<1>1. Shape /\ Limits /\ Phases /\ Blocks /\ Books
  BY DEF IInv
<1>2. Refilling = 0 /\ Refilling' = 0
  <2>1. {w \in Workers : pc[w] = "refill"} = {}
    BY DEF FreeRoot
  <2> QED
    BY <2>1, FS_EmptySet DEF FreeRoot, Refilling, HowMany
<1>3. /\ SumFunction(free) \in Int
  <2>1. free \in [Workers -> Int]
    BY <1>1 DEF Shape
  <2> QED
    BY <2>1, WorkersFinite, TotalInt
<1>4. Shape'
  BY <1>1, SMT DEF FreeRoot, wvars, Shape
<1>5. Limits' /\ Phases'
  BY <1>1, SMT DEF FreeRoot, wvars, Limits, Phases
<1>6. Blocks'
  <2>1. /\ gused \in Int /\ gfree \in Nat /\ avail \in Int /\ inUse = 1
        /\ gused = inUse + SumFunction(free)
        /\ gused + gfree + avail = chunks * ChunkBlocks
    BY <1>1, BatchRange, SMT DEF FreeRoot, Shape, Blocks
  <2>2. /\ gused' = gused - 1 /\ gfree' = gfree + 1 /\ avail' = avail /\ inUse' = 0
        /\ free' = free /\ chunks' = chunks
    BY DEF FreeRoot, wvars
  <2>3. /\ gused' = inUse' + SumFunction(free')
        /\ gused' + gfree' + avail' = gused + gfree + avail
    BY <1>3, <2>1, <2>2
  <2> QED
    BY <2>1, <2>2, <2>3 DEF Blocks
<1>7. Books'
  BY <1>1, <1>2 DEF FreeRoot, wvars, Books, Open
<1> QED
  BY <1>4, <1>5, <1>6, <1>7 DEF IInv

(* At shutdown a worker's list is emptied in batches.                      *)
LEMMA TerminateBatchStep ==
    ASSUME IInv, NEW w \in Workers, TerminateBatch(w) PROVE IInv'
<1>1. Shape /\ Limits /\ Phases /\ Blocks /\ Books
  BY DEF IInv
<1>2. /\ phase = "terminate" /\ FreeBatch(w)
      /\ num' = num /\ gnum' = gnum /\ pc' = pc /\ phase' = phase
  BY DEF TerminateBatch, MayTerminate
<1>3. PICK k \in 0 .. Batch :
             /\ k <= free[w]
             /\ free' = Add(free, w, -k) /\ allocd' = Add(allocd, w, -k)
             /\ gfree' = gfree + k /\ gused' = gused + (-k) /\ -k \in Int
             /\ gfree' \in Nat /\ gused' \in Int
             /\ gused' + gfree' + avail = chunks * ChunkBlocks
             /\ UNCHANGED <<used, chunks, avail, listSize, inUse>>
  BY <1>2, BatchGiven
<1>4. free \in [Workers -> Int] /\ allocd \in [Workers -> Int] /\ Batch \in Nat
  BY Ranges
<1>5. /\ SumFunction(free') = SumFunction(free) + (-k) /\ SumFunction(free) \in Int
      /\ allocd' \in [Workers -> Int] /\ free' \in [Workers -> Int]
  BY <1>3, <1>4, Added
<1>6. \A v \in Workers : free'[v] \in Nat /\ free'[v] <= free[v]
  <2> SUFFICES ASSUME NEW v \in Workers
               PROVE  free'[v] \in Nat /\ free'[v] <= free[v]
    OBVIOUS
  <2>1. free'[v] = IF v = w THEN free[v] + (-k) ELSE free[v]
    BY <1>3, <1>4 DEF Add
  <2>2. free[v] \in Nat /\ k \in Nat
    BY <1>1, <1>4 DEF Shape
  <2> QED
    BY <1>3, <2>1, <2>2
<1>7. Shape'
  <2>1. free' \in [Workers -> Nat]
    BY <1>5, <1>6
  <2> QED
    BY <1>1, <1>2, <1>3, <1>5, <2>1 DEF Shape
<1>8. Limits'
  <2>1. \A v \in Workers : free[v] \in Nat
    BY <1>1 DEF Shape
  <2> QED
    BY <1>1, <1>2, <1>6, <2>1, BatchRange DEF Limits
<1>9. Phases'
  BY <1>1, <1>2, <1>3 DEF Phases
<1>10. Blocks'
  <2>1. gused' = inUse' + SumFunction(free')
    <3>1. gused \in Int /\ inUse \in Int /\ gused = inUse + SumFunction(free)
      BY <1>1 DEF Shape, Blocks
    <3>2. k \in Int
      BY <1>4
    <3> HIDE DEF Batch
    <3> QED
      BY <1>3, <1>5, <3>1, <3>2
  <2> QED
    BY <1>3, <2>1 DEF Blocks
<1>11. Books'
  BY <1>1, <1>2 DEF Books, Open
<1> QED
  BY <1>7, <1>8, <1>9, <1>10, <1>11 DEF IInv

(* Its count of mallocs goes to the global one.                            *)
LEMMA TerminateWorkerStep ==
    ASSUME IInv, NEW w \in Workers, TerminateWorker(w) PROVE IInv'
<1>1. Shape /\ Limits /\ Phases /\ Blocks /\ Books
  BY DEF IInv
<1>2. /\ phase = "terminate" /\ phase' = phase /\ gnum' = gnum + num[w]
      /\ num' = [num EXCEPT ![w] = 0] /\ Goto(w, "done")
      /\ UNCHANGED <<free, used, allocd, gfree, gused, chunks, avail, listSize, inUse>>
  BY DEF TerminateWorker, MayTerminate, Collected
<1>3. num \in [Workers -> Int] /\ num[w] \in Int /\ gnum \in Int
  BY <1>1 DEF Shape
<1>4. SumFunction(num') = SumFunction(num) - num[w] + 0 /\ SumFunction(num) \in Int
  <2>1. \A v \in Int : /\ SumFunction([num EXCEPT ![w] = v]) = SumFunction(num) - num[w] + v
                       /\ SumFunction(num) \in Int
    BY <1>3, WorkersFinite, TotalUpdate
  <2>2. 0 \in Int
    OBVIOUS
  <2> QED
    BY <1>2, <2>1, <2>2, Zenon
<1>5. /\ pc'[w] = "done" /\ num'[w] = 0
      /\ \A v \in Workers \ {w} : pc'[v] = pc[v] /\ num'[v] = num[v]
      /\ pc' \in [Workers -> Points] /\ num' \in [Workers -> Int]
  BY <1>1, <1>2 DEF Shape, Goto, Points
<1>6. Shape'
  BY <1>1, <1>2, <1>3, <1>5 DEF Shape
<1>7. Limits'
  <2> SUFFICES ASSUME NEW v \in Workers
               PROVE  /\ free[v] <= BucketCapacity + 1
                      /\ pc'[v] # "flush" => free[v] <= BucketCapacity
                      /\ pc'[v] = "refill" => free[v] = 0
                      /\ pc'[v] = "done" => num'[v] = 0
    BY <1>2 DEF Limits
  <2>1. pc[w] # "flush"
    BY <1>1, <1>2 DEF Phases
  <2> QED
    BY <1>1, <1>5, <2>1 DEF Limits
<1>8. Phases'
  BY <1>1, <1>2, <1>5 DEF Phases
<1>9. Blocks'
  BY <1>1, <1>2 DEF Blocks
<1>10. Books'
  <2>1. SumFunction(num) + gnum = 0
    BY <1>1, <1>2 DEF Books, Open
  <2>2. SumFunction(num') + gnum' = 0
    BY <1>2, <1>3, <1>4, <2>1
  <2> QED
    BY <1>2, <2>2 DEF Books, Open
<1> QED
  BY <1>6, <1>7, <1>8, <1>9, <1>10 DEF IInv

(* The chunks are given back.                                              *)
LEMMA DestroyStep == ASSUME IInv, Destroy PROVE IInv'
<1>1. Shape /\ Limits /\ Phases /\ Blocks /\ Books
  BY DEF IInv
<1>2. Shape'
  BY <1>1, BatchRange, SMT DEF Destroy, wvars, Shape
<1>3. Limits' /\ Phases' /\ Blocks' /\ Books'
  BY <1>1 DEF Destroy, wvars, Limits, Phases, Blocks, Books, Open
<1> QED
  BY <1>2, <1>3 DEF IInv

(* Stuttering.                                                             *)
LEMMA UnchangedStep == ASSUME IInv, UNCHANGED vars PROVE IInv'
<1>1. Refilling' = Refilling
  BY DEF vars, Refilling
<1> QED
  BY <1>1
     DEF IInv, Shape, Limits, Phases, Blocks, Books, Open, vars, wvars, gvars

(* The state that cilk_internal_malloc_global_init leaves.                 *)
LEMMA InitInv == Init => IInv
<1> SUFFICES ASSUME Init PROVE IInv
  OBVIOUS
<1>1. MEM_LIST_SIZE \in Nat \ {0} /\ ChunkBlocks \in Nat /\ BucketCapacity \in Nat
      /\ MaxInUse \in Nat \ {0}
  BY SizesAssumption
<1>2. ASSUME NEW f \in [Workers -> Int], \A w \in Workers : f[w] = 0
      PROVE  SumFunction(f) = 0
  <2>1. Cardinality(Workers) \in Nat
    BY WorkersFinite, FS_CardinalityType
  <2>2. SumFunction(f) = 0 * Cardinality(Workers)
    BY <1>2, WorkersFinite, TotalConstant
  <2> QED
    BY <2>1, <2>2
<1>3. /\ SumFunction(free) = 0 /\ SumFunction(used) = 0
      /\ SumFunction(num) = 0 /\ SumFunction(allocd) = 0
  BY <1>2 DEF Init
<1>4. Refilling = 0
  <2>1. {w \in Workers : pc[w] = "refill"} = {}
    BY DEF Init
  <2> QED
    BY <2>1, FS_EmptySet DEF Refilling, HowMany
<1>5. Shape
  BY <1>1, SMT DEF Init, Shape, Points
<1>6. Limits /\ Phases
  BY <1>1, SMT DEF Init, Limits, Phases
<1>7. Blocks
  BY <1>1, <1>3, SMT DEF Init, Blocks
<1>8. Books
  BY <1>1, <1>3, <1>4, SMT DEF Init, Books, Open
<1> QED
  BY <1>5, <1>6, <1>7, <1>8 DEF IInv

(* The inductive invariant implies the three invariants that               *)
(* InternalMalloc states.                                                  *)
LEMMA Consequences == IInv => TypeOK /\ BlocksConserved /\ GlobalCheck
<1> SUFFICES ASSUME IInv PROVE TypeOK /\ BlocksConserved /\ GlobalCheck
  OBVIOUS
<1>1. Shape /\ Limits /\ Phases /\ Blocks /\ Books
  BY DEF IInv
<1>2. SumFunction(free) \in Nat
  BY <1>1, WorkersFinite, TotalNat DEF Shape
<1>3. Refilling \in Nat
  BY WorkersFinite, CountType, Zenon DEF Refilling
<1>4. BucketCapacity \in Nat /\ MaxInUse \in Nat /\ ChunkBlocks \in Nat
  BY SizesAssumption
<1>5. TypeOK
  <2>1. free \in [Workers -> 0 .. BucketCapacity + 1]
    BY <1>1, <1>4 DEF Shape, Limits
  <2>2. gused \in Nat
    BY <1>1, <1>2 DEF Shape, Blocks
  <2>3. inUse \in 0 .. MaxInUse
    <3>1. CASE Open
      BY <1>1, <1>3, <1>4, <3>1 DEF Shape, Books
    <3>2. CASE ~Open
      BY <1>1, <1>4, <3>2 DEF Shape, Phases, Open
    <3> QED
      BY <3>1, <3>2
  <2>4. \A w \in Workers : free[w] > BucketCapacity => pc[w] = "flush"
    BY <1>1, <1>4 DEF Shape, Limits
  <2> QED
    BY <1>1, <2>1, <2>2, <2>3, <2>4 DEF Shape, Points, TypeOK
<1>6. BlocksConserved
  <2> SUFFICES ASSUME phase # "destroyed"
               PROVE  chunks * ChunkBlocks - avail = inUse + gfree + SumFunction(free)
    BY DEF BlocksConserved
  <2>1. /\ gused = inUse + SumFunction(free)
        /\ gused + gfree + avail = chunks * ChunkBlocks
        /\ gused \in Int /\ gfree \in Int /\ avail \in Int /\ inUse \in Int
    BY <1>1, <1>4 DEF Shape, Blocks
  <2> QED
    BY <1>2, <2>1
<1>7. GlobalCheck
  <2>1. ASSUME phase = "running", \A w \in Workers : pc[w] = "idle"
        PROVE  /\ GlobalUsedIsWorkers
               /\ gused + gfree + avail = chunks * ChunkBlocks
               /\ SumFunction(allocd) = inUse + SumFunction(free)
    <3>1. Refilling = 0
      <4>1. {w \in Workers : pc[w] = "refill"} = {}
        BY <2>1
      <4> QED
        BY <4>1, FS_EmptySet DEF Refilling, HowMany
    <3>2. /\ SumFunction(used) = inUse + Refilling /\ SumFunction(allocd) = gused
          /\ gused = inUse + SumFunction(free) /\ inUse \in Nat
          /\ gused + gfree + avail = chunks * ChunkBlocks
      BY <1>1, <2>1 DEF Books, Blocks, Open, Shape
    <3> QED
      BY <3>1, <3>2 DEF GlobalUsedIsWorkers
  <2>2. ASSUME phase = "destroyed" PROVE gnum = 0
    <3>1. num \in [Workers -> Int] /\ (\A w \in Workers : num[w] = 0)
          /\ SumFunction(num) + gnum = 0 /\ gnum \in Int
      BY <1>1, <2>2 DEF Shape, Phases, Limits, Books, Open
    <3>2. SumFunction(num) = 0 * Cardinality(Workers)
      BY <3>1, WorkersFinite, TotalConstant
    <3>3. Cardinality(Workers) \in Nat
      BY WorkersFinite, FS_CardinalityType
    <3> QED
      BY <3>1, <3>2, <3>3
  <2> QED
    BY <2>1, <2>2 DEF GlobalCheck
<1> QED
  BY <1>5, <1>6, <1>7

(* The inductive invariant holds in every state.                           *)
THEOREM Invariance == Spec => []IInv
<1>1. IInv /\ [Next]_vars => IInv'
  <2> SUFFICES ASSUME IInv, [Next]_vars PROVE IInv'
    OBVIOUS
  <2>1. ASSUME NEW w \in Workers,
               \/ Malloc(w) \/ Refill(w) \/ Free(w) \/ Flush(w)
               \/ TerminateBatch(w) \/ TerminateWorker(w)
        PROVE  IInv'
    BY <2>1, MallocStep, RefillStep, FreeStep, FlushStep, TerminateBatchStep,
       TerminateWorkerStep
  <2>2. CASE UNCHANGED vars
    BY <2>2, UnchangedStep
  <2> QED
    BY <2>1, <2>2, StartupStep, FreeRootStep, DestroyStep DEF Next, Finished
<1> QED
  BY <1>1, InitInv, PTL DEF Spec

(* For every number of workers, bucket capacity and chunk size, mem_list   *)
(* has a slot for each chunk and every free list is within its limit       *)
(* outside the allocator, though any worker may free what another          *)
(* allocated.                                                              *)
THEOREM ListsWithinBounds == Spec => []TypeOK
  BY Invariance, Consequences, PTL

(* For every number of workers and all sizes, no block is lost or given    *)
(* out twice while batches move through the global list.                   *)
THEOREM BlockConservation == Spec => []BlocksConserved
  BY Invariance, Consequences, PTL

(* For every number of workers and all sizes, internal_malloc_global_check *)
(* holds outside the allocator before shutdown, and at the end the mallocs *)
(* and frees of all workers add up to none missing.                        *)
THEOREM ChecksPass == Spec => []GlobalCheck
  BY Invariance, Consequences, PTL
=============================================================================
