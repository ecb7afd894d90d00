----------------------------- MODULE FiberPool -----------------------------
(***************************************************************************)
(* The fiber pools (fiber-pool.cpp): a private pool per worker, a global   *)
(* one behind a lock, and the system behind both.  Fibers move between     *)
(* them one by one and in batches.                                         *)
(*                                                                         *)
(* A pool is an array used as a stack.  The pools never tell one fiber     *)
(* from another, so a pool is its number of fibers, and a fiber lost,      *)
(* duplicated or written past the end of an array shows in the counts.     *)
(* The section under the global pool's lock touches the global pool and    *)
(* the worker's own only: it is one step.                                  *)
(***************************************************************************)
EXTENDS Integers, FiniteSets, Functions

CONSTANTS
    NWorkers,  \* g->options.nproc
    Caps,      \* the values of g->options.fiber_pool_cap to consider
    MaxHeld    \* bound on the fibers that closures hold

BATCH_FRACTION == 2

(* parse_rts_environment refuses a capacity of 1, whose batch would be 0.  *)
ASSUME CapsAssumption ==
    /\ NWorkers \in Nat \ {0} /\ MaxHeld \in Nat
    /\ Caps \subseteq Nat \ {1}

VARIABLES
    cap,    \* g->options.fiber_pool_cap, the capacity of a private pool
    size,   \* l->fiber_pool.size of each worker
    gsize,  \* g->fiber_pool.size
    held,   \* fibers given to closures
    live,   \* fibers the system gave and has not got back
    todo,   \* what is left of a worker's batch after the global pool
    pc,     \* what each worker does next
    phase   \* "running", "terminate", "destroyed"

vars == <<cap, size, gsize, held, live, todo, pc, phase>>

Workers == 0 .. NWorkers - 1
GlobalCap == NWorkers * cap

(* cilk_fiber_pool_global_init, and per_worker_zero_init of every worker.  *)
Init ==
    /\ cap \in Caps
    /\ size = [w \in Workers |-> 0] /\ gsize = 0
    /\ held = 0 /\ live = 0
    /\ todo = [w \in Workers |-> 0]
    /\ pc = [w \in Workers |-> "unborn"]
    /\ phase = "running"

BatchOfThird == cap \div (BATCH_FRACTION + 1)
Batch == cap \div BATCH_FRACTION

(* How many fibers of a batch the global pool gives, and takes.            *)
FromParent == IF gsize <= Batch THEN gsize ELSE Batch
ToParentAll == Batch
ToParent == IF Batch <= GlobalCap - gsize THEN Batch ELSE GlobalCap - gsize

(* The part of a batch that the system gives or takes.                     *)
Rest(n) == Batch - n

At(w, l) == phase = "running" /\ pc[w] = l
Goto(w, l) == pc' = [pc EXCEPT ![w] = l]
Resize(w, n) == size' = [size EXCEPT ![w] = n]

-----------------------------------------------------------------------------
(* fiber_pool_allocate_batch, under the lock of the global pool.           *)
GlobalLeftAll == gsize
GlobalLeft == gsize - FromParent

TakeBatch(w) ==
    /\ Resize(w, size[w] + FromParent)
    /\ gsize' = GlobalLeft
    /\ todo' = [todo EXCEPT ![w] = Rest(FromParent)]

(* cilk_fiber_pool_per_worker_init.                                        *)
WorkerInit(w) ==
    /\ At(w, "unborn")
    /\ IF Batch = 0 THEN UNCHANGED <<size, gsize, todo>> ELSE TakeBatch(w)
    /\ Goto(w, "init")
    /\ UNCHANGED <<cap, held, live, phase>>

WorkerInitFill(w) ==
    /\ At(w, "init")
    /\ Resize(w, size[w] + todo[w])
    /\ live' = live + todo[w]
    /\ todo' = [todo EXCEPT ![w] = 0]
    /\ Goto(w, "idle")
    /\ UNCHANGED <<cap, gsize, held, phase>>

(* cilk_fiber_allocate_from_pool: with no pool, with a fiber in the pool,  *)
(* and with an empty pool, which takes a batch first.                      *)
MayHold == held + Cardinality({w \in Workers : pc[w] = "fill"}) < MaxHeld

AllocateDirect(w) ==
    /\ At(w, "idle") /\ MayHold
    /\ cap = 0
    /\ live' = live + 1 /\ held' = held + 1
    /\ UNCHANGED <<cap, size, gsize, todo, pc, phase>>

Allocate(w) ==
    /\ At(w, "idle") /\ MayHold
    /\ cap # 0 /\ size[w] # 0
    /\ Resize(w, size[w] - 1)
    /\ held' = held + 1
    /\ UNCHANGED <<cap, gsize, live, todo, pc, phase>>

AllocateBatch(w) ==
    /\ At(w, "idle") /\ MayHold
    /\ cap # 0 /\ size[w] = 0
    /\ IF Batch = 0 THEN UNCHANGED <<size, gsize, todo>> ELSE TakeBatch(w)
    /\ Goto(w, "fill")
    /\ UNCHANGED <<cap, held, live, phase>>

AllocateFill(w) ==
    /\ At(w, "fill")
    /\ Resize(w, size[w] + todo[w] - 1)
    /\ live' = live + todo[w]
    /\ held' = held + 1
    /\ todo' = [todo EXCEPT ![w] = 0]
    /\ Goto(w, "idle")
    /\ UNCHANGED <<cap, gsize, phase>>

(* cilk_fiber_deallocate_to_pool, of a fiber that any worker allocated.    *)
DeallocateDirect(w) ==
    /\ At(w, "idle") /\ held > 0
    /\ cap = 0
    /\ live' = live - 1 /\ held' = held - 1
    /\ UNCHANGED <<cap, size, gsize, todo, pc, phase>>

Deallocate(w) ==
    /\ At(w, "idle") /\ held > 0
    /\ cap # 0 /\ size[w] # cap
    /\ Resize(w, size[w] + 1)
    /\ held' = held - 1
    /\ UNCHANGED <<cap, gsize, live, todo, pc, phase>>

(* fiber_pool_free_batch, under the lock of the global pool.               *)
DeallocateBatch(w) ==
    /\ At(w, "idle") /\ held > 0
    /\ cap # 0 /\ size[w] = cap
    /\ Resize(w, size[w] - ToParent)
    /\ gsize' = gsize + ToParent
    /\ todo' = [todo EXCEPT ![w] = Rest(ToParent)]
    /\ held' = held - 1
    /\ Goto(w, "spill")
    /\ UNCHANGED <<cap, live, phase>>

(* What the global pool has no room for goes back to the system, and there *)
(* is room for the fiber returned.                                         *)
DeallocateSpill(w) ==
    /\ At(w, "spill")
    /\ Resize(w, size[w] - todo[w] + 1)
    /\ live' = live - todo[w]
    /\ todo' = [todo EXCEPT ![w] = 0]
    /\ Goto(w, "idle")
    /\ UNCHANGED <<cap, gsize, held, phase>>

-----------------------------------------------------------------------------
(* __cilkrts_shutdown, once the workers are joined and no closure but the  *)
(* root is left; the root's fiber is not from the pools.                   *)
Shutdown ==
    /\ phase = "running" /\ held = 0
    /\ \A w \in Workers : pc[w] \in {"unborn", "idle"}
    /\ phase' = "terminate"
    /\ UNCHANGED <<cap, size, gsize, held, live, todo, pc>>

(* cilk_fiber_pool_per_worker_terminate, for_each_worker_rev.              *)
WorkerTerminate(w) ==
    /\ phase = "terminate" /\ pc[w] # "done"
    /\ \A v \in Workers : v > w => pc[v] = "done"
    /\ live' = live - size[w]
    /\ Resize(w, 0)
    /\ Goto(w, "done")
    /\ UNCHANGED <<cap, gsize, held, todo, phase>>

(* cilk_fiber_pool_global_terminate; then the pools are destroyed.         *)
GlobalTerminate ==
    /\ phase = "terminate" /\ \A w \in Workers : pc[w] = "done"
    /\ live' = live - gsize
    /\ gsize' = 0
    /\ phase' = "destroyed"
    /\ UNCHANGED <<cap, size, held, todo, pc>>

Finished == phase = "destroyed" /\ UNCHANGED vars

Next ==
    \/ \E w \in Workers :
         \/ WorkerInit(w) \/ WorkerInitFill(w)
         \/ AllocateDirect(w) \/ Allocate(w) \/ AllocateBatch(w) \/ AllocateFill(w)
         \/ DeallocateDirect(w) \/ Deallocate(w)
         \/ DeallocateBatch(w) \/ DeallocateSpill(w)
         \/ WorkerTerminate(w)
    \/ Shutdown \/ GlobalTerminate \/ Finished

Spec == Init /\ [][Next]_vars

-----------------------------------------------------------------------------
(* Every pool stays within its array: a private pool within cap, though    *)
(* any worker may return what another took, the global one within nproc    *)
(* times cap, though every worker may spill into it (the assertion at      *)
(* fiber-pool.cpp:233).                                                    *)
TypeOK ==
    /\ cap \in Caps
    /\ size \in [Workers -> 0 .. cap] /\ gsize \in 0 .. GlobalCap
    /\ held \in 0 .. MaxHeld /\ live \in Nat
    /\ todo \in [Workers -> 0 .. cap]
    /\ pc \in [Workers -> {"unborn", "init", "idle", "fill", "spill", "done"}]
    /\ phase \in {"running", "terminate", "destroyed"}

(* A batch is enough for what it was fetched for: after a batch from the   *)
(* global pool and the system there is a fiber to take                     *)
(* (cilk_fiber_allocate_from_pool pops without a test), and after a batch  *)
(* to them there is room for the fiber returned (the assertion at          *)
(* fiber-pool.cpp:380).                                                    *)
BatchSuffices ==
    \A w \in Workers :
        /\ pc[w] = "fill" => size[w] + todo[w] > 0
        /\ pc[w] = "spill" => cap - (size[w] - todo[w]) >= Batch /\ Batch > 0

(* No fiber is lost or given out twice by the batches that workers move    *)
(* through the global pool at the same time: every live one is held by a   *)
(* closure, in a pool, or in the hand of a worker that returns it; at the  *)
(* end all pools are empty (fiber_pool_destroy) and the system has its     *)
(* fibers back.                                                            *)
FibersConserved ==
    /\ live = held + gsize + SumFunction(size)
              + Cardinality({w \in Workers : pc[w] = "spill"})
    /\ phase = "destroyed" => live = 0
=============================================================================
