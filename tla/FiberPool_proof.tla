-------------------------- MODULE FiberPool_proof ---------------------------
(***************************************************************************)
(* The fiber pools lose no fiber and stay within their arrays, whatever    *)
(* the number of workers and the capacity of a pool.                       *)
(*                                                                         *)
(* The workers move batches in two halves (the share of the global pool,   *)
(* under its lock, and the rest, from or to the system), and other workers *)
(* move theirs in between. The invariant says what a worker has in hand    *)
(* between the halves, which is what makes the sum of all the pools        *)
(* inductive.                                                              *)
(***************************************************************************)
EXTENDS FiberPool, Sums_proof

(* The workers that hold a fiber which they have taken back.               *)
Spilling == HowMany(Workers, pc, "spill")

(* The workers that are fetching a fiber: each has a place among the       *)
(* MaxHeld.                                                                *)
Filling == HowMany(Workers, pc, "fill")

(* Where a worker can be.                                                  *)
Points == {"unborn", "init", "idle", "fill", "spill", "done"}

(* TypeOK, with weaker ranges for the two counts that the other parts      *)
(* bound.                                                                  *)
Shape ==
    /\ cap \in Caps
    /\ size \in [Workers -> 0 .. cap] /\ gsize \in 0 .. GlobalCap
    /\ held \in Nat /\ live \in Int
    /\ todo \in [Workers -> 0 .. cap]
    /\ pc \in [Workers -> Points]
    /\ phase \in {"running", "terminate", "destroyed"}

(* What a worker holds of its batch at each point: after                   *)
(* fiber_pool_allocate_batch took its share from the global pool, the pool *)
(* and the rest make up one batch; after fiber_pool_free_batch gave its    *)
(* share, what is to be freed leaves cap less one batch.                   *)
InHand ==
    \A w \in Workers :
        /\ pc[w] = "unborn" => size[w] = 0 /\ todo[w] = 0
        /\ pc[w] = "init" => size[w] + todo[w] = Batch
        /\ pc[w] = "fill" => size[w] + todo[w] = Batch /\ cap # 0
        /\ pc[w] = "spill" => size[w] - todo[w] = cap - Batch /\ cap # 0
        /\ pc[w] = "idle" => todo[w] = 0
        /\ pc[w] = "done" => todo[w] = 0 /\ size[w] = 0 /\ phase # "running"

(* MayHold leaves room for every fetch that is under way.                  *)
Reserved == held + Filling <= MaxHeld

(* At shutdown no closure has a fiber and no worker is between two halves  *)
(* of a batch; at the end the pools are empty.                             *)
Closing ==
    /\ phase # "running" =>
         held = 0 /\ \A w \in Workers : pc[w] \in {"unborn", "idle", "done"}
    /\ phase = "destroyed" => gsize = 0 /\ \A w \in Workers : pc[w] = "done"

(* Every live fiber is in exactly one place (FibersConserved, less its     *)
(* last conjunct).                                                         *)
Accounted == live = held + gsize + SumFunction(size) + Spilling

(* The inductive invariant.                                                *)
IInv == Shape /\ InHand /\ Reserved /\ Closing /\ Accounted

-----------------------------------------------------------------------------
(* There are finitely many pools to add up.                                *)
LEMMA WorkersFinite == IsFiniteSet(Workers)
  BY CapsAssumption, FS_Interval DEF Workers

(* The batch is half of a capacity that is 0 or at least 2, so it is not 0 *)
(* unless the capacity is.                                                 *)
LEMMA BatchRange ==
    ASSUME cap \in Caps
    PROVE  /\ cap \in Nat /\ Batch \in Nat /\ 2 * Batch <= cap
           /\ cap # 0 => Batch >= 1
           /\ GlobalCap \in Nat
<1>1. cap \in Nat /\ cap # 1 /\ NWorkers \in Nat
  BY CapsAssumption
<1>2. Batch \in Nat /\ 2 * Batch <= cap /\ (cap # 0 => Batch >= 1)
  BY <1>1, SMT DEF Batch, BATCH_FRACTION
<1>3. GlobalCap \in Nat
  BY <1>1, SMT DEF GlobalCap
<1> QED
  BY <1>1, <1>2, <1>3

(* The global pool gives no more than it has and takes no more than it has *)
(* room for.                                                               *)
LEMMA SharesOfBatch ==
    ASSUME Shape
    PROVE  /\ FromParent \in 0 .. Batch /\ FromParent <= gsize
           /\ ToParent \in 0 .. Batch /\ ToParent <= GlobalCap - gsize
<1>1. Batch \in Nat /\ GlobalCap \in Nat /\ gsize \in 0 .. GlobalCap
  BY BatchRange DEF Shape
<1> QED
  BY <1>1, SMT DEF FromParent, ToParent

(* The capacity is fixed at startup, and all that is derived from it.      *)
LEMMA SameCap ==
    ASSUME cap' = cap
    PROVE  Batch' = Batch /\ GlobalCap' = GlobalCap
  BY DEF Batch, GlobalCap

(* The totals are natural numbers.                                         *)
LEMMA Totals ==
    ASSUME Shape
    PROVE  SumFunction(size) \in Nat /\ Spilling \in Nat /\ Filling \in Nat
<1>1. size \in [Workers -> Nat]
  BY BatchRange, SMT DEF Shape
<1>2. SumFunction(size) \in Nat
  BY <1>1, WorkersFinite, TotalNat
<1>3. /\ IsFiniteSet({w \in Workers : pc[w] = "spill"})
      /\ IsFiniteSet({w \in Workers : pc[w] = "fill"})
  BY WorkersFinite, FS_Subset
<1> QED
  BY <1>2, <1>3, FS_CardinalityType DEF Spilling, Filling, HowMany

(* What a change of one worker's pool does to the total.                   *)
LEMMA Resized ==
    ASSUME Shape, NEW w \in Workers, NEW n \in Int
    PROVE  SumFunction([size EXCEPT ![w] = n]) = SumFunction(size) - size[w] + n
<1>1. size \in [Workers -> Int]
  BY BatchRange, SMT DEF Shape
<1> QED
  BY <1>1, WorkersFinite, TotalUpdate

(* What a step of one worker does to the number of workers at a point.     *)
LEMMA Counted ==
    ASSUME NEW w \in Workers, \A v \in Workers \ {w} : pc'[v] = pc[v]
    PROVE  \A a :
        /\ (pc[w] = a <=> pc'[w] = a) => HowMany(Workers, pc', a) = HowMany(Workers, pc, a)
        /\ pc[w] = a /\ pc'[w] # a => HowMany(Workers, pc', a) = HowMany(Workers, pc, a) - 1
        /\ pc[w] # a /\ pc'[w] = a => HowMany(Workers, pc', a) = HowMany(Workers, pc, a) + 1
<1>1. ASSUME NEW a, pc[w] = a <=> pc'[w] = a
      PROVE  HowMany(Workers, pc', a) = HowMany(Workers, pc, a)
  <2>1. {v \in Workers : pc'[v] = a} = {v \in Workers : pc[v] = a}
    BY <1>1
  <2> QED
    BY <2>1 DEF HowMany
<1>2. \A a : pc[w] = a /\ pc'[w] # a =>
                 HowMany(Workers, pc', a) = HowMany(Workers, pc, a) - 1
  BY WorkersFinite, CountUpdate
<1>3. \A a : pc[w] # a /\ pc'[w] = a =>
                 HowMany(Workers, pc', a) = HowMany(Workers, pc, a) + 1
  BY WorkersFinite, CountUpdate
<1> QED
  BY <1>1, <1>2, <1>3, Zenon

(* The same, for the two points that are counted.                          *)
LEMMA Moved ==
    ASSUME Shape, NEW w \in Workers, NEW l, Goto(w, l)
    PROVE  /\ (pc[w] = "spill" <=> l = "spill") => Spilling' = Spilling
           /\ pc[w] = "spill" /\ l # "spill" => Spilling' = Spilling - 1
           /\ pc[w] # "spill" /\ l = "spill" => Spilling' = Spilling + 1
           /\ (pc[w] = "fill" <=> l = "fill") => Filling' = Filling
           /\ pc[w] = "fill" /\ l # "fill" => Filling' = Filling - 1
           /\ pc[w] # "fill" /\ l = "fill" => Filling' = Filling + 1
<1>1. \A v \in Workers \ {w} : pc'[v] = pc[v]
  BY DEF Shape, Goto
<1>2. pc'[w] = l
  BY DEF Shape, Goto
<1>3. \A a :
        /\ (pc[w] = a <=> pc'[w] = a) => HowMany(Workers, pc', a) = HowMany(Workers, pc, a)
        /\ pc[w] = a /\ pc'[w] # a => HowMany(Workers, pc', a) = HowMany(Workers, pc, a) - 1
        /\ pc[w] # a /\ pc'[w] = a => HowMany(Workers, pc', a) = HowMany(Workers, pc, a) + 1
  BY <1>1, Counted, Zenon
<1>4. /\ Spilling' = HowMany(Workers, pc', "spill")
      /\ Filling' = HowMany(Workers, pc', "fill")
  BY DEF Spilling, Filling
<1> QED
  BY <1>2, <1>3, <1>4, Zenon DEF Spilling, Filling

(* The inductive invariant implies the three invariants that FiberPool     *)
(* states.                                                                 *)
LEMMA Consequences == IInv => TypeOK /\ BatchSuffices /\ FibersConserved
<1> SUFFICES ASSUME IInv PROVE TypeOK /\ BatchSuffices /\ FibersConserved
  OBVIOUS
<1>1. Shape /\ InHand /\ Reserved /\ Closing /\ Accounted
  BY DEF IInv
<1>2. /\ SumFunction(size) \in Nat /\ Spilling \in Nat /\ Filling \in Nat
      /\ cap \in Nat /\ Batch \in Nat /\ 2 * Batch <= cap /\ (cap # 0 => Batch >= 1)
      /\ GlobalCap \in Nat
  BY <1>1, Totals, BatchRange DEF Shape
<1>3. TypeOK
  <2>1. live \in Nat
    BY <1>1, <1>2, SMT DEF Shape, Accounted
  <2>2. held \in 0 .. MaxHeld
    BY <1>1, <1>2, CapsAssumption, SMT DEF Shape, Reserved
  <2> QED
    BY <1>1, <2>1, <2>2 DEF Shape, TypeOK, Points
<1>4. BatchSuffices
  BY <1>1, <1>2, SMT DEF Shape, InHand, BatchSuffices
<1>5. FibersConserved
  <2>1. ASSUME phase = "destroyed" PROVE live = 0
    <3>1. \A w \in Workers : size[w] = 0 /\ pc[w] = "done"
      BY <1>1, <2>1 DEF Closing, InHand
    <3>2. SumFunction(size) = 0
      <4>1. size \in [Workers -> Int]
        BY <1>1, <1>2, SMT DEF Shape
      <4>2. Cardinality(Workers) \in Nat
        BY WorkersFinite, FS_CardinalityType
      <4>3. SumFunction(size) = 0 * Cardinality(Workers)
        BY <3>1, <4>1, WorkersFinite, TotalConstant
      <4> QED
        BY <4>2, <4>3
    <3>3. Spilling = 0
      <4>1. {w \in Workers : pc[w] = "spill"} = {}
        BY <3>1
      <4> QED
        BY <4>1, FS_EmptySet DEF Spilling, HowMany
    <3>4. held = 0 /\ gsize = 0
      BY <1>1, <2>1 DEF Closing
    <3> QED
      BY <1>1, <3>2, <3>3, <3>4, SMT DEF Accounted
  <2> QED
    BY <1>1, <2>1 DEF FibersConserved, Accounted, Spilling, HowMany
<1> QED
  BY <1>3, <1>4, <1>5

(* The pools as cilk_fiber_pool_global_init leaves them satisfy it.        *)
LEMMA InitInv == Init => IInv
<1> SUFFICES ASSUME Init PROVE IInv
  OBVIOUS
<1>1. cap \in Nat /\ Batch \in Nat /\ GlobalCap \in Nat
  BY BatchRange DEF Init
<1>2. Shape
  BY <1>1, SMT DEF Init, Shape, Points
<1>3. InHand /\ Closing
  BY DEF Init, InHand, Closing
<1>4. Filling = 0 /\ Spilling = 0
  <2>1. {w \in Workers : pc[w] = "fill"} = {} /\ {w \in Workers : pc[w] = "spill"} = {}
    BY DEF Init
  <2> QED
    BY <2>1, FS_EmptySet DEF Filling, Spilling, HowMany
<1>5. Reserved
  BY <1>4, CapsAssumption DEF Init, Reserved
<1>6. Accounted
  <2>1. size \in [Workers -> Int] /\ \A w \in Workers : size[w] = 0
    BY DEF Init
  <2>2. Cardinality(Workers) \in Nat
    BY WorkersFinite, FS_CardinalityType
  <2>3. SumFunction(size) = 0 * Cardinality(Workers)
    BY <2>1, WorkersFinite, TotalConstant
  <2> QED
    BY <1>4, <2>2, <2>3, SMT DEF Init, Accounted
<1> QED
  BY <1>2, <1>3, <1>5, <1>6 DEF IInv

(* A step of worker w, before shutdown, that leaves n fibers in its pool   *)
(* and t of its batch to do, and keeps the books: the live fibers change   *)
(* by as much as the places they can be in.                                *)
LEMMA WorkerStep ==
    ASSUME IInv, phase = "running", phase' = phase, cap' = cap,
           NEW w \in Workers,
           NEW n \in 0 .. cap, size' = [size EXCEPT ![w] = n],
           NEW t \in 0 .. cap, todo' = [todo EXCEPT ![w] = t],
           NEW l \in {"init", "idle", "fill", "spill"}, Goto(w, l),
           l \in {"init", "fill"} => n + t = Batch,
           l \in {"fill", "spill"} => cap # 0,
           l = "spill" => n - t = cap - Batch,
           l = "idle" => t = 0,
           gsize' \in 0 .. GlobalCap, held' \in Nat, live' \in Int,
           Reserved',
           live' - live = (held' - held) + (gsize' - gsize) + (n - size[w])
                          + (Spilling' - Spilling)
    PROVE  IInv'
<1>1. Shape /\ InHand /\ Accounted
  BY DEF IInv
<1>2. /\ Batch' = Batch /\ GlobalCap' = GlobalCap
      /\ cap \in Nat /\ Batch \in Nat
  BY <1>1, SameCap, BatchRange DEF Shape
<1>3. Shape'
  BY <1>1, <1>2, SMT DEF Shape, Goto, Points
<1>4. InHand'
  <2> SUFFICES ASSUME NEW v \in Workers
               PROVE  /\ pc'[v] = "unborn" => size'[v] = 0 /\ todo'[v] = 0
                      /\ pc'[v] = "init" => size'[v] + todo'[v] = Batch
                      /\ pc'[v] = "fill" => size'[v] + todo'[v] = Batch /\ cap # 0
                      /\ pc'[v] = "spill" => size'[v] - todo'[v] = cap - Batch /\ cap # 0
                      /\ pc'[v] = "idle" => todo'[v] = 0
                      /\ pc'[v] = "done" => todo'[v] = 0 /\ size'[v] = 0 /\ phase' # "running"
    BY <1>2, Zenon DEF InHand
  <2>1. CASE v = w
    <3>1. size'[v] = n /\ todo'[v] = t /\ pc'[v] = l
      BY <1>1, <2>1 DEF Shape, Goto
    <3> QED
      BY <3>1, SMT
  <2>2. CASE v # w
    <3>1. size'[v] = size[v] /\ todo'[v] = todo[v] /\ pc'[v] = pc[v]
      BY <1>1, <2>2 DEF Shape, Goto
    <3> QED
      BY <1>1, <3>1 DEF InHand
  <2> QED
    BY <2>1, <2>2
<1>5. Closing'
  BY DEF Closing
<1>6. Accounted'
  <2>1. SumFunction(size') = SumFunction(size) - size[w] + n
    <3>1. n \in Int
      BY <1>2
    <3> QED
      BY <1>1, <3>1, Resized
  <2>2. SumFunction(size) \in Nat /\ Spilling \in Nat /\ Spilling' \in Nat
    <3>1. Spilling' \in Nat
      BY WorkersFinite, CountType, Zenon DEF Spilling
    <3> QED
      BY <1>1, <3>1, Totals
  <2>3. size[w] \in Int /\ held \in Int /\ gsize \in Int /\ live \in Int /\ gsize' \in Int
    BY <1>1, <1>2, BatchRange, SMT DEF Shape
  <2>4. live = held + gsize + SumFunction(size) + Spilling
    BY <1>1 DEF Accounted
  <2>5. live' = held' + gsize' + SumFunction(size') + Spilling'
    BY <2>1, <2>2, <2>3, <2>4, SMT
  <2> QED
    BY <2>5 DEF Accounted
<1> QED
  BY <1>3, <1>4, <1>5, <1>6 DEF IInv

(* The ranges that the steps below calculate with.                         *)
Ranges(w) ==
    /\ cap \in Nat /\ Batch \in Nat /\ 2 * Batch <= cap
    /\ cap # 0 => Batch >= 1
    /\ GlobalCap \in Nat /\ held \in Nat /\ live \in Int
    /\ gsize \in 0 .. GlobalCap /\ size[w] \in 0 .. cap /\ todo[w] \in 0 .. cap
    /\ FromParent \in 0 .. Batch /\ FromParent <= gsize
    /\ ToParent \in 0 .. Batch /\ ToParent <= GlobalCap - gsize
    /\ Spilling \in Nat /\ Filling \in Nat

(* They follow from the types.                                             *)
LEMMA RangesHold == ASSUME Shape, NEW w \in Workers PROVE Ranges(w)
  BY BatchRange, SharesOfBatch, Totals DEF Shape, Ranges

(* cilk_fiber_pool_per_worker_init: the share of the global pool.          *)
LEMMA WorkerInitStep == ASSUME IInv, NEW w \in Workers, WorkerInit(w) PROVE IInv'
<1> DEFINE n == IF Batch = 0 THEN size[w] ELSE size[w] + FromParent
           t == IF Batch = 0 THEN todo[w] ELSE Rest(FromParent)
<1>1. Shape /\ InHand /\ Reserved
  BY DEF IInv
<1>2. Ranges(w)
  BY <1>1, RangesHold
<1>3. /\ phase = "running" /\ phase' = phase /\ cap' = cap
      /\ Goto(w, "init")
      /\ size' = [size EXCEPT ![w] = n] /\ todo' = [todo EXCEPT ![w] = t]
  BY <1>1, <1>2
     DEF Ranges, Shape, WorkerInit, At, Goto, Resize, TakeBatch, Rest,
         GlobalLeft
<1>4. Spilling' = Spilling /\ Filling' = Filling
  BY <1>1, <1>3, Moved DEF WorkerInit, At
<1>5. /\ n \in 0 .. cap /\ t \in 0 .. cap
      /\ n + t = Batch
  BY <1>1, <1>2, SMT
     DEF Ranges, InHand, WorkerInit, At, Goto, Resize, TakeBatch, Rest,
         GlobalLeft
<1>6. gsize' \in 0 .. GlobalCap /\ held' \in Nat /\ live' \in Int
  BY <1>2, SMT
     DEF Ranges, WorkerInit, At, Goto, Resize, TakeBatch, Rest, GlobalLeft
<1>7. Reserved'
  <2>1. held' + Filling' <= MaxHeld
    BY <1>1, <1>2, <1>4, CapsAssumption, SMT
       DEF Ranges, Reserved, Filling, HowMany, WorkerInit, At, Goto, Resize,
           TakeBatch, Rest, GlobalLeft
  <2> QED
    BY <2>1 DEF Reserved
<1>8. live' - live = (held' - held) + (gsize' - gsize) + (n - size[w])
                     + (Spilling' - Spilling)
  BY <1>1, <1>2, <1>4, SMT
     DEF Ranges, InHand, WorkerInit, At, Goto, Resize, TakeBatch, Rest,
         GlobalLeft
<1> HIDE DEF n, t
<1> QED
  BY <1>3, <1>5, <1>6, <1>7, <1>8, WorkerStep

(* The rest of the first batch comes from the system.                      *)
LEMMA WorkerInitFillStep == ASSUME IInv, NEW w \in Workers, WorkerInitFill(w) PROVE IInv'
<1> DEFINE n == size[w] + todo[w]
           t == 0
<1>1. Shape /\ InHand /\ Reserved
  BY DEF IInv
<1>2. Ranges(w)
  BY <1>1, RangesHold
<1>3. /\ phase = "running" /\ phase' = phase /\ cap' = cap
      /\ Goto(w, "idle")
      /\ size' = [size EXCEPT ![w] = n] /\ todo' = [todo EXCEPT ![w] = t]
  BY <1>1, <1>2 DEF Ranges, Shape, WorkerInitFill, At, Goto, Resize
<1>4. Spilling' = Spilling /\ Filling' = Filling
  BY <1>1, <1>3, Moved DEF WorkerInitFill, At
<1>5. /\ n \in 0 .. cap /\ t \in 0 .. cap
      /\ t = 0
  BY <1>1, <1>2, SMT DEF Ranges, InHand, WorkerInitFill, At, Goto, Resize
<1>6. gsize' \in 0 .. GlobalCap /\ held' \in Nat /\ live' \in Int
  BY <1>2, SMT DEF Ranges, WorkerInitFill, At, Goto, Resize
<1>7. Reserved'
  <2>1. held' + Filling' <= MaxHeld
    BY <1>1, <1>2, <1>4, CapsAssumption, SMT
       DEF Ranges, Reserved, Filling, HowMany, WorkerInitFill, At, Goto, Resize
  <2> QED
    BY <2>1 DEF Reserved
<1>8. live' - live = (held' - held) + (gsize' - gsize) + (n - size[w])
                     + (Spilling' - Spilling)
  BY <1>1, <1>2, <1>4, SMT DEF Ranges, InHand, WorkerInitFill, At, Goto, Resize
<1> HIDE DEF n, t
<1> QED
  BY <1>3, <1>5, <1>6, <1>7, <1>8, WorkerStep

(* cilk_fiber_allocate_from_pool with no pools.                            *)
LEMMA AllocateDirectStep == ASSUME IInv, NEW w \in Workers, AllocateDirect(w) PROVE IInv'
<1> DEFINE n == size[w]
           t == todo[w]
<1>1. Shape /\ InHand /\ Reserved
  BY DEF IInv
<1>2. Ranges(w)
  BY <1>1, RangesHold
<1>3. /\ phase = "running" /\ phase' = phase /\ cap' = cap
      /\ Goto(w, "idle")
      /\ size' = [size EXCEPT ![w] = n] /\ todo' = [todo EXCEPT ![w] = t]
  BY <1>1, <1>2 DEF Ranges, Shape, AllocateDirect, At, Goto, Resize, MayHold
<1>4. Spilling' = Spilling /\ Filling' = Filling
  BY <1>1, <1>3, Moved DEF AllocateDirect, At
<1>5. /\ n \in 0 .. cap /\ t \in 0 .. cap
      /\ t = 0
  BY <1>1, <1>2, SMT
     DEF Ranges, InHand, AllocateDirect, At, Goto, Resize, MayHold
<1>6. gsize' \in 0 .. GlobalCap /\ held' \in Nat /\ live' \in Int
  BY <1>2, SMT DEF Ranges, AllocateDirect, At, Goto, Resize, MayHold
<1>7. Reserved'
  <2>1. held' + Filling' <= MaxHeld
    BY <1>1, <1>2, <1>4, CapsAssumption, SMT
       DEF Ranges, Reserved, Filling, HowMany, AllocateDirect, At, Goto, Resize,
           MayHold
  <2> QED
    BY <2>1 DEF Reserved
<1>8. live' - live = (held' - held) + (gsize' - gsize) + (n - size[w])
                     + (Spilling' - Spilling)
  BY <1>1, <1>2, <1>4, SMT
     DEF Ranges, InHand, AllocateDirect, At, Goto, Resize, MayHold
<1> HIDE DEF n, t
<1> QED
  BY <1>3, <1>5, <1>6, <1>7, <1>8, WorkerStep

(* ... with a fiber in the worker's pool.                                  *)
LEMMA AllocateStep == ASSUME IInv, NEW w \in Workers, Allocate(w) PROVE IInv'
<1> DEFINE n == size[w] - 1
           t == todo[w]
<1>1. Shape /\ InHand /\ Reserved
  BY DEF IInv
<1>2. Ranges(w)
  BY <1>1, RangesHold
<1>3. /\ phase = "running" /\ phase' = phase /\ cap' = cap
      /\ Goto(w, "idle")
      /\ size' = [size EXCEPT ![w] = n] /\ todo' = [todo EXCEPT ![w] = t]
  BY <1>1, <1>2 DEF Ranges, Shape, Allocate, At, Goto, Resize, MayHold
<1>4. Spilling' = Spilling /\ Filling' = Filling
  BY <1>1, <1>3, Moved DEF Allocate, At
<1>5. /\ n \in 0 .. cap /\ t \in 0 .. cap
      /\ t = 0
  BY <1>1, <1>2, SMT DEF Ranges, InHand, Allocate, At, Goto, Resize, MayHold
<1>6. gsize' \in 0 .. GlobalCap /\ held' \in Nat /\ live' \in Int
  BY <1>2, SMT DEF Ranges, Allocate, At, Goto, Resize, MayHold
<1>7. Reserved'
  <2>1. held' + Filling' <= MaxHeld
    BY <1>1, <1>2, <1>4, CapsAssumption, SMT
       DEF Ranges, Reserved, Filling, HowMany, Allocate, At, Goto, Resize,
           MayHold
  <2> QED
    BY <2>1 DEF Reserved
<1>8. live' - live = (held' - held) + (gsize' - gsize) + (n - size[w])
                     + (Spilling' - Spilling)
  BY <1>1, <1>2, <1>4, SMT
     DEF Ranges, InHand, Allocate, At, Goto, Resize, MayHold
<1> HIDE DEF n, t
<1> QED
  BY <1>3, <1>5, <1>6, <1>7, <1>8, WorkerStep

(* ... with an empty pool, which takes a batch first.                      *)
LEMMA AllocateBatchStep == ASSUME IInv, NEW w \in Workers, AllocateBatch(w) PROVE IInv'
<1> DEFINE n == size[w] + FromParent
           t == Rest(FromParent)
<1>1. Shape /\ InHand /\ Reserved
  BY DEF IInv
<1>2. Ranges(w)
  BY <1>1, RangesHold
<1>3. /\ phase = "running" /\ phase' = phase /\ cap' = cap
      /\ Goto(w, "fill")
      /\ size' = [size EXCEPT ![w] = n] /\ todo' = [todo EXCEPT ![w] = t]
  BY <1>1, <1>2
     DEF Ranges, Shape, AllocateBatch, At, Goto, Resize, MayHold, TakeBatch,
         Rest, GlobalLeft
<1>4. Spilling' = Spilling /\ Filling' = Filling + 1
  BY <1>1, <1>3, Moved DEF AllocateBatch, At
<1>5. /\ n \in 0 .. cap /\ t \in 0 .. cap
      /\ n + t = Batch /\ cap # 0
  BY <1>1, <1>2, SMT
     DEF Ranges, InHand, AllocateBatch, At, Goto, Resize, MayHold, TakeBatch,
         Rest, GlobalLeft
<1>6. gsize' \in 0 .. GlobalCap /\ held' \in Nat /\ live' \in Int
  BY <1>2, SMT
     DEF Ranges, AllocateBatch, At, Goto, Resize, MayHold, TakeBatch, Rest,
         GlobalLeft
<1>7. Reserved'
  <2>1. held' + Filling' <= MaxHeld
    BY <1>1, <1>2, <1>4, CapsAssumption, SMT
       DEF Ranges, Reserved, Filling, HowMany, AllocateBatch, At, Goto, Resize,
           MayHold, TakeBatch, Rest, GlobalLeft
  <2> QED
    BY <2>1 DEF Reserved
<1>8. live' - live = (held' - held) + (gsize' - gsize) + (n - size[w])
                     + (Spilling' - Spilling)
  BY <1>1, <1>2, <1>4, SMT
     DEF Ranges, InHand, AllocateBatch, At, Goto, Resize, MayHold, TakeBatch,
         Rest, GlobalLeft
<1> HIDE DEF n, t
<1> QED
  BY <1>3, <1>5, <1>6, <1>7, <1>8, WorkerStep

(* The rest of that batch comes from the system, and there is one to take. *)
LEMMA AllocateFillStep == ASSUME IInv, NEW w \in Workers, AllocateFill(w) PROVE IInv'
<1> DEFINE n == size[w] + todo[w] - 1
           t == 0
<1>1. Shape /\ InHand /\ Reserved
  BY DEF IInv
<1>2. Ranges(w)
  BY <1>1, RangesHold
<1>3. /\ phase = "running" /\ phase' = phase /\ cap' = cap
      /\ Goto(w, "idle")
      /\ size' = [size EXCEPT ![w] = n] /\ todo' = [todo EXCEPT ![w] = t]
  BY <1>1, <1>2 DEF Ranges, Shape, AllocateFill, At, Goto, Resize
<1>4. Spilling' = Spilling /\ Filling' = Filling - 1
  BY <1>1, <1>3, Moved DEF AllocateFill, At
<1>5. /\ n \in 0 .. cap /\ t \in 0 .. cap
      /\ t = 0
  BY <1>1, <1>2, SMT DEF Ranges, InHand, AllocateFill, At, Goto, Resize
<1>6. gsize' \in 0 .. GlobalCap /\ held' \in Nat /\ live' \in Int
  BY <1>2, SMT DEF Ranges, AllocateFill, At, Goto, Resize
<1>7. Reserved'
  <2>1. held' + Filling' <= MaxHeld
    BY <1>1, <1>2, <1>4, CapsAssumption, SMT
       DEF Ranges, Reserved, Filling, HowMany, AllocateFill, At, Goto, Resize
  <2> QED
    BY <2>1 DEF Reserved
<1>8. live' - live = (held' - held) + (gsize' - gsize) + (n - size[w])
                     + (Spilling' - Spilling)
  BY <1>1, <1>2, <1>4, SMT DEF Ranges, InHand, AllocateFill, At, Goto, Resize
<1> HIDE DEF n, t
<1> QED
  BY <1>3, <1>5, <1>6, <1>7, <1>8, WorkerStep

(* cilk_fiber_deallocate_to_pool with no pools.                            *)
LEMMA DeallocateDirectStep == ASSUME IInv, NEW w \in Workers, DeallocateDirect(w) PROVE IInv'
<1> DEFINE n == size[w]
           t == todo[w]
<1>1. Shape /\ InHand /\ Reserved
  BY DEF IInv
<1>2. Ranges(w)
  BY <1>1, RangesHold
<1>3. /\ phase = "running" /\ phase' = phase /\ cap' = cap
      /\ Goto(w, "idle")
      /\ size' = [size EXCEPT ![w] = n] /\ todo' = [todo EXCEPT ![w] = t]
  BY <1>1, <1>2 DEF Ranges, Shape, DeallocateDirect, At, Goto, Resize
<1>4. Spilling' = Spilling /\ Filling' = Filling
  BY <1>1, <1>3, Moved DEF DeallocateDirect, At
<1>5. /\ n \in 0 .. cap /\ t \in 0 .. cap
      /\ t = 0
  BY <1>1, <1>2, SMT DEF Ranges, InHand, DeallocateDirect, At, Goto, Resize
<1>6. gsize' \in 0 .. GlobalCap /\ held' \in Nat /\ live' \in Int
  BY <1>2, SMT DEF Ranges, DeallocateDirect, At, Goto, Resize
<1>7. Reserved'
  <2>1. held' + Filling' <= MaxHeld
    BY <1>1, <1>2, <1>4, CapsAssumption, SMT
       DEF Ranges, Reserved, Filling, HowMany, DeallocateDirect, At, Goto,
           Resize
  <2> QED
    BY <2>1 DEF Reserved
<1>8. live' - live = (held' - held) + (gsize' - gsize) + (n - size[w])
                     + (Spilling' - Spilling)
  BY <1>1, <1>2, <1>4, SMT
     DEF Ranges, InHand, DeallocateDirect, At, Goto, Resize
<1> HIDE DEF n, t
<1> QED
  BY <1>3, <1>5, <1>6, <1>7, <1>8, WorkerStep

(* ... with room in the worker's pool.                                     *)
LEMMA DeallocateStep == ASSUME IInv, NEW w \in Workers, Deallocate(w) PROVE IInv'
<1> DEFINE n == size[w] + 1
           t == todo[w]
<1>1. Shape /\ InHand /\ Reserved
  BY DEF IInv
<1>2. Ranges(w)
  BY <1>1, RangesHold
<1>3. /\ phase = "running" /\ phase' = phase /\ cap' = cap
      /\ Goto(w, "idle")
      /\ size' = [size EXCEPT ![w] = n] /\ todo' = [todo EXCEPT ![w] = t]
  BY <1>1, <1>2 DEF Ranges, Shape, Deallocate, At, Goto, Resize
<1>4. Spilling' = Spilling /\ Filling' = Filling
  BY <1>1, <1>3, Moved DEF Deallocate, At
<1>5. /\ n \in 0 .. cap /\ t \in 0 .. cap
      /\ t = 0
  BY <1>1, <1>2, SMT DEF Ranges, InHand, Deallocate, At, Goto, Resize
<1>6. gsize' \in 0 .. GlobalCap /\ held' \in Nat /\ live' \in Int
  BY <1>2, SMT DEF Ranges, Deallocate, At, Goto, Resize
<1>7. Reserved'
  <2>1. held' + Filling' <= MaxHeld
    BY <1>1, <1>2, <1>4, CapsAssumption, SMT
       DEF Ranges, Reserved, Filling, HowMany, Deallocate, At, Goto, Resize
  <2> QED
    BY <2>1 DEF Reserved
<1>8. live' - live = (held' - held) + (gsize' - gsize) + (n - size[w])
                     + (Spilling' - Spilling)
  BY <1>1, <1>2, <1>4, SMT DEF Ranges, InHand, Deallocate, At, Goto, Resize
<1> HIDE DEF n, t
<1> QED
  BY <1>3, <1>5, <1>6, <1>7, <1>8, WorkerStep

(* ... with a full pool, which gives a batch away first.                   *)
LEMMA DeallocateBatchStep == ASSUME IInv, NEW w \in Workers, DeallocateBatch(w) PROVE IInv'
<1> DEFINE n == size[w] - ToParent
           t == Rest(ToParent)
<1>1. Shape /\ InHand /\ Reserved
  BY DEF IInv
<1>2. Ranges(w)
  BY <1>1, RangesHold
<1>3. /\ phase = "running" /\ phase' = phase /\ cap' = cap
      /\ Goto(w, "spill")
      /\ size' = [size EXCEPT ![w] = n] /\ todo' = [todo EXCEPT ![w] = t]
  BY <1>1, <1>2 DEF Ranges, Shape, DeallocateBatch, At, Goto, Resize, Rest
<1>4. Spilling' = Spilling + 1 /\ Filling' = Filling
  BY <1>1, <1>3, Moved DEF DeallocateBatch, At
<1>5. /\ n \in 0 .. cap /\ t \in 0 .. cap
      /\ n - t = cap - Batch /\ cap # 0
  BY <1>1, <1>2, SMT DEF Ranges, InHand, DeallocateBatch, At, Goto, Resize, Rest
<1>6. gsize' \in 0 .. GlobalCap /\ held' \in Nat /\ live' \in Int
  BY <1>2, SMT DEF Ranges, DeallocateBatch, At, Goto, Resize, Rest
<1>7. Reserved'
  <2>1. held' + Filling' <= MaxHeld
    BY <1>1, <1>2, <1>4, CapsAssumption, SMT
       DEF Ranges, Reserved, Filling, HowMany, DeallocateBatch, At, Goto,
           Resize, Rest
  <2> QED
    BY <2>1 DEF Reserved
<1>8. live' - live = (held' - held) + (gsize' - gsize) + (n - size[w])
                     + (Spilling' - Spilling)
  BY <1>1, <1>2, <1>4, SMT
     DEF Ranges, InHand, DeallocateBatch, At, Goto, Resize, Rest
<1> HIDE DEF n, t
<1> QED
  BY <1>3, <1>5, <1>6, <1>7, <1>8, WorkerStep

(* What the global pool had no room for goes back to the system, which     *)
(* leaves room for the fiber that is returned.                             *)
LEMMA DeallocateSpillStep == ASSUME IInv, NEW w \in Workers, DeallocateSpill(w) PROVE IInv'
<1> DEFINE n == size[w] - todo[w] + 1
           t == 0
<1>1. Shape /\ InHand /\ Reserved
  BY DEF IInv
<1>2. Ranges(w)
  BY <1>1, RangesHold
<1>3. /\ phase = "running" /\ phase' = phase /\ cap' = cap
      /\ Goto(w, "idle")
      /\ size' = [size EXCEPT ![w] = n] /\ todo' = [todo EXCEPT ![w] = t]
  BY <1>1, <1>2 DEF Ranges, Shape, DeallocateSpill, At, Goto, Resize
<1>4. Spilling' = Spilling - 1 /\ Filling' = Filling
  BY <1>1, <1>3, Moved DEF DeallocateSpill, At
<1>5. /\ n \in 0 .. cap /\ t \in 0 .. cap
      /\ t = 0
  BY <1>1, <1>2, SMT DEF Ranges, InHand, DeallocateSpill, At, Goto, Resize
<1>6. gsize' \in 0 .. GlobalCap /\ held' \in Nat /\ live' \in Int
  BY <1>2, SMT DEF Ranges, DeallocateSpill, At, Goto, Resize
<1>7. Reserved'
  <2>1. held' + Filling' <= MaxHeld
    BY <1>1, <1>2, <1>4, CapsAssumption, SMT
       DEF Ranges, Reserved, Filling, HowMany, DeallocateSpill, At, Goto, Resize
  <2> QED
    BY <2>1 DEF Reserved
<1>8. live' - live = (held' - held) + (gsize' - gsize) + (n - size[w])
                     + (Spilling' - Spilling)
  BY <1>1, <1>2, <1>4, SMT DEF Ranges, InHand, DeallocateSpill, At, Goto, Resize
<1> HIDE DEF n, t
<1> QED
  BY <1>3, <1>5, <1>6, <1>7, <1>8, WorkerStep

(* Shutdown starts when no closure holds a fiber.                          *)
LEMMA ShutdownStep == ASSUME IInv, Shutdown PROVE IInv'
<1>1. Shape /\ InHand /\ Reserved /\ Closing /\ Accounted
  BY DEF IInv
<1>2. Batch' = Batch /\ GlobalCap' = GlobalCap
  BY SameCap DEF Shutdown
<1>3. Shape' /\ InHand' /\ Closing'
  BY <1>1, <1>2 DEF Shutdown, Shape, InHand, Closing
<1>4. Reserved' /\ Accounted'
  BY <1>1 DEF Shutdown, Reserved, Accounted, Filling, Spilling
<1> QED
  BY <1>3, <1>4 DEF IInv

(* A worker's pool is given back as a whole.                               *)
LEMMA WorkerTerminateStep ==
    ASSUME IInv, NEW w \in Workers, WorkerTerminate(w) PROVE IInv'
<1>1. Shape /\ InHand /\ Reserved /\ Closing /\ Accounted
  BY DEF IInv
<1>2. /\ Batch' = Batch /\ GlobalCap' = GlobalCap
      /\ cap \in Nat /\ size[w] \in Int /\ SumFunction(size) \in Nat
      /\ Spilling \in Nat /\ Filling \in Nat
  BY <1>1, SameCap, BatchRange, Totals, SMT DEF WorkerTerminate, Shape
<1>3. Goto(w, "done") /\ pc[w] \in {"unborn", "idle"}
  BY <1>1 DEF WorkerTerminate, Closing
<1>4. Shape'
  BY <1>1, <1>2, SMT DEF WorkerTerminate, Goto, Resize, Shape, Points
<1>5. InHand' /\ Closing'
  BY <1>1, <1>2, <1>3 DEF WorkerTerminate, Goto, Resize, Shape, InHand, Closing
<1>6. Spilling' = Spilling /\ Filling' = Filling
  BY <1>1, <1>3, Moved
<1>7. Reserved'
  BY <1>1, <1>6 DEF WorkerTerminate, Reserved
<1>8. SumFunction(size') = SumFunction(size) - size[w] + 0
  <2>1. size' = [size EXCEPT ![w] = 0]
    BY DEF WorkerTerminate, Resize
  <2>2. \A n \in Int : SumFunction([size EXCEPT ![w] = n]) = SumFunction(size) - size[w] + n
    BY <1>1, Resized
  <2>3. 0 \in Int
    OBVIOUS
  <2> QED
    BY <2>1, <2>2, <2>3, Zenon
<1>9. live' = held' + gsize' + SumFunction(size') + Spilling'
  BY <1>1, <1>2, <1>6, <1>8, SMT DEF Shape, Accounted, WorkerTerminate
<1> QED
  BY <1>4, <1>5, <1>7, <1>9 DEF IInv, Accounted

(* The global pool is given back last.                                     *)
LEMMA GlobalTerminateStep == ASSUME IInv, GlobalTerminate PROVE IInv'
<1>1. Shape /\ InHand /\ Reserved /\ Closing /\ Accounted
  BY DEF IInv
<1>2. /\ Batch' = Batch /\ GlobalCap' = GlobalCap /\ GlobalCap \in Nat
      /\ SumFunction(size) \in Nat /\ Spilling \in Nat
  BY <1>1, SameCap, BatchRange, Totals DEF GlobalTerminate, Shape
<1>3. Shape' /\ InHand' /\ Closing'
  BY <1>1, <1>2, SMT DEF GlobalTerminate, Shape, InHand, Closing
<1>4. Filling' = Filling /\ Spilling' = Spilling
  BY DEF GlobalTerminate, Filling, Spilling
<1>5. Reserved'
  BY <1>1, <1>4 DEF GlobalTerminate, Reserved
<1>6. Accounted'
  BY <1>1, <1>2, <1>4, SMT DEF GlobalTerminate, Shape, Accounted
<1> QED
  BY <1>3, <1>5, <1>6 DEF IInv

(* Stuttering.                                                             *)
LEMMA UnchangedStep == ASSUME IInv, UNCHANGED vars PROVE IInv'
<1>1. Batch' = Batch /\ GlobalCap' = GlobalCap
  BY SameCap DEF vars
<1>2. Filling' = Filling /\ Spilling' = Spilling
  BY DEF vars, Filling, Spilling
<1> QED
  BY <1>1, <1>2 DEF IInv, Shape, InHand, Reserved, Closing, Accounted, vars

(* The inductive invariant holds in every state.                           *)
THEOREM Invariance == Spec => []IInv
<1>1. IInv /\ [Next]_vars => IInv'
  <2> SUFFICES ASSUME IInv, [Next]_vars PROVE IInv'
    OBVIOUS
  <2>1. ASSUME NEW w \in Workers,
               \/ WorkerInit(w) \/ WorkerInitFill(w) \/ AllocateDirect(w)
               \/ Allocate(w) \/ AllocateBatch(w) \/ AllocateFill(w)
               \/ DeallocateDirect(w) \/ Deallocate(w) \/ DeallocateBatch(w)
               \/ DeallocateSpill(w)
        PROVE  IInv'
    BY <2>1, WorkerInitStep, WorkerInitFillStep, AllocateDirectStep,
       AllocateStep, AllocateBatchStep, AllocateFillStep, DeallocateDirectStep,
       DeallocateStep, DeallocateBatchStep, DeallocateSpillStep
  <2>2. CASE UNCHANGED vars
    BY <2>2, UnchangedStep
  <2> QED
    BY <2>1, <2>2, WorkerTerminateStep, ShutdownStep, GlobalTerminateStep
       DEF Next, Finished
<1> QED
  BY <1>1, InitInv, PTL DEF Spec

(* For every number of workers and every capacity that                     *)
(* parse_rts_environment accepts, no pool is ever written past the end of  *)
(* its array or popped when it is empty.                                   *)
THEOREM PoolsWithinBounds == Spec => []TypeOK
  BY Invariance, Consequences, PTL

(* For every number of workers and every capacity,                         *)
(* cilk_fiber_allocate_from_pool finds a fiber after a batch, and          *)
(* cilk_fiber_deallocate_to_pool has room after one, however the global    *)
(* pool was changed by other workers before.                               *)
THEOREM BatchesSuffice == Spec => []BatchSuffices
  BY Invariance, Consequences, PTL

(* For every number of workers and every capacity, no fiber is lost or     *)
(* given out twice, and after shutdown the system has all of them back.    *)
THEOREM Conservation == Spec => []FibersConserved
  BY Invariance, Consequences, PTL
=============================================================================
