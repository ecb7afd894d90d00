---------------------------- MODULE ClosureTree ----------------------------
(***************************************************************************)
(* The closure tree of one Cilkified region: how scheduler.cpp turns       *)
(* stolen frames into closures, suspends and resumes them at syncs, merges *)
(* reducer views and hands fibers around, on several workers at once.      *)
(*                                                                         *)
(* The deques are those of DequeSpec, which TheDeque implements.  A        *)
(* critical section is split where the code takes a further lock or lets   *)
(* one go early; what it does while it holds all its locks is one step.    *)
(*                                                                         *)
(* User code is a set of small fork-join programs: frames with             *)
(* instructions "spawn", "call", "update" (of a reducer), "throw" and      *)
(* "sync".  Updates and exceptions are numbered in the order of the serial *)
(* execution.  A frame may have a handler for all that is thrown in it.    *)
(***************************************************************************)
EXTENDS Naturals, Sequences, FiniteSets, SequencesExt

CONSTANTS
    NWorkers,     \* worker 1 is the boss
    MaxClosures,  \* bound on closures alive at the same time
    MaxFibers,    \* bound on fibers in use at the same time
    Programs      \* the fork-join programs a region may run

Null == 0         \* nullptr, NO_WORKER
Boss == 1
Workers == 1 .. NWorkers
Closures == 1 .. MaxClosures
Fibers == 1 .. MaxFibers
Root == 1         \* the frame that cilkified the region

(* What a compiler makes of a Cilk program.  Callers are numbered before   *)
(* what they call; every frame but the root is spawned or called by one    *)
(* instruction, of its parent; and a sync follows every spawn.             *)
WellFormed(p) ==
    LET Frs == 1 .. Len(p.code)
        Instrs(f) == 1 .. Len(p.code[f])
        Entered(f, i) == p.code[f][i].op \in {"spawn", "call"}
    IN  /\ Len(p.code) \in Nat \ {0} /\ DOMAIN p.code = Frs
        /\ p.kind[Root] = "root" /\ p.parent[Root] = Null
        /\ \A f \in Frs :
             /\ Len(p.code[f]) \in Nat /\ p.handler[f] \in 0 .. Len(p.code[f]) + 1
             /\ f # Root => p.kind[f] \in {"spawn", "expr", "call"}
                            /\ p.parent[f] \in 1 .. f - 1
             /\ \A i \in Instrs(f) :
                  /\ Entered(f, i) =>
                       LET g == p.code[f][i].arg
                       IN  /\ g \in Frs \ {Root} /\ p.parent[g] = f
                           /\ p.kind[g] = "call" <=> p.code[f][i].op = "call"
                           /\ \A j \in Instrs(f) :
                                Entered(f, j) /\ p.code[f][j].arg = g => j = i
                  /\ p.code[f][i].op = "throw" => p.code[f][i].arg # Null
                  /\ p.code[f][i].op = "spawn" =>
                       \E j \in Instrs(f) : j > i /\ p.code[f][j].op = "sync"

ASSUME ProgramsAssumption ==
    /\ NWorkers \in Nat \ {0} /\ MaxClosures \in Nat \ {0} /\ MaxFibers \in Nat \ {0}
    /\ \A p \in Programs : WellFormed(p)

VARIABLES
    prog,      \* the program: code, kind, parent and handler of its frames
    at,        \* the next instruction of each frame
    home,      \* the fiber each live frame has its activation record on
    stolen,    \* frames with CILK_FRAME_STOLEN
    unsynced,  \* frames with CILK_FRAME_UNSYNCHED
    unw,       \* the exception a frame is unwound with, the fiber of its pad
    pending,   \* frames with CILK_FRAME_EXCEPTION_PENDING
    caught,    \* what each frame caught, or the root let out, in order
    thrown,    \* the exceptions thrown
    deleted,   \* the exceptions deleted
    cl,        \* the closures
    busy,      \* busy[w].closure
    busyLock,  \* busy[w].mutex_owner
    dq,        \* the deque of each worker, oldest frame first
    wk,        \* the workers: program counter and local state
    freeFibers,\* fibers in the pools: of each worker, and under Null the rest
    done       \* g->done

evars == <<unw, pending, caught, thrown, deleted>>
fvars == <<prog, at, home, stolen, unsynced, evars>>
vars  == <<fvars, cl, busy, busyLock, dq, wk, freeFibers, done>>

Frames == DOMAIN prog.code

(* closure_exception, a view of the exception reducer: the exception, the  *)
(* fiber of parent_rsp, the throwing fiber.  A reducer table is the        *)
(* sequence of the updates of the user's reducer and this view.            *)
NoView == [here |-> FALSE, exn |-> Null, rsp |-> Null, fiber |-> Null]
NoHt == [made |-> FALSE, ups |-> <<>>, view |-> NoView]
NotUnwinding == [exn |-> Null, sp |-> Null]

(* Closure::Closure, a closure that is not in use.                         *)
FreeClosure ==
    [status |-> "invalid", frame |-> Null, fiber |-> Null, fiberChild |-> Null,
     join |-> 0, orig |-> Null, callParent |-> Null, spawnParent |-> Null,
     leftSib |-> Null, rightSib |-> Null, rightMost |-> Null,
     rightHt |-> NoHt, childHt |-> NoHt, userHt |-> NoHt, excPending |-> FALSE,
     lock |-> Null]

(* cur: frame executed, fib: fiber of the stack pointer, cl: closure,      *)
(* vic, frm: victim and stolen frame, why: how the closure is resumed.     *)
IdleWorker ==
    [pc |-> "steal", cur |-> Null, fib |-> Null, cl |-> Null, vic |-> Null,
     frm |-> Null, why |-> "stolen", ht |-> NoHt, lht |-> NoHt, rht |-> NoHt]

(* __cilkrts_internal_invoke_cilkified_root: the root closure is ready,    *)
(* with a frame marked stolen, and the boss is about to run it.            *)
Init ==
    /\ prog \in Programs
    /\ at = [f \in Frames |-> 1]
    /\ home = [f \in Frames |-> IF f = Root THEN 1 ELSE Null]
    /\ stolen = {Root} /\ unsynced = {} /\ pending = {}
    /\ unw = [f \in Frames |-> NotUnwinding]
    /\ caught = [f \in Frames |-> <<>>]
    /\ thrown = {} /\ deleted = {}
    /\ cl = [c \in Closures |->
               IF c = 1 THEN [FreeClosure EXCEPT !.status = "running",
                                                 !.frame = Root, !.fiber = 1]
                        ELSE FreeClosure]
    /\ busy = [w \in Workers |-> Null]
    /\ busyLock = [w \in Workers |-> Null]
    /\ dq = [w \in Workers |-> <<>>]
    /\ wk = [w \in Workers |->
               IF w = Boss THEN [IdleWorker EXCEPT !.pc = "install", !.cl = 1]
                           ELSE IdleWorker]
    /\ freeFibers = [w \in Workers \cup {Null} |->
                       IF w = Null THEN Fibers \ {1} ELSE {}]
    /\ done = FALSE

-----------------------------------------------------------------------------
(***************************************************************************)
(* Operations on closures, fibers and reducer tables.                      *)
(***************************************************************************)

(* Closure::create takes any closure that is free; the choice does not     *)
(* matter.                                                                 *)
Unused(used) == {c \in Closures \ used : cl[c].status = "invalid"}
NewClosure(used) == CHOOSE c \in Unused(used) : \A d \in Unused(used) : c <= d

(* cilk_fiber_allocate_from_pool, from the worker's own pool if it can.    *)
PoolFor(w) == IF freeFibers[w] # {} THEN w ELSE Null
NewFiber(w) ==
    CHOOSE x \in freeFibers[PoolFor(w)] : \A y \in freeFibers[PoolFor(w)] : x <= y

(* cilk_fiber_deallocate_to_pool, for the fibers of xs.                    *)
Released(w, xs) == [freeFibers EXCEPT ![w] = @ \cup (xs \ {Null})]

FreeFibers == UNION {freeFibers[w] : w \in Workers \cup {Null}}

(* closure_exception::reduce keeps the left exception, and what the right  *)
(* view has of stacks; Dropped is what it deletes, Freed what it frees.    *)
BothHere(l, r) == l.view.here /\ r.view.here

(* Seeded fault: the exception that was thrown last is kept.               *)
ReduceKeepsRight(l, r) ==
    [r EXCEPT !.exn = IF r.exn # Null THEN r.exn ELSE l.exn]

reduce(l, r) == [r EXCEPT !.exn = IF l.exn # Null THEN l.exn ELSE r.exn]

Dropped(l, r) ==
    IF BothHere(l, r) /\ l.view.exn # Null THEN {r.view.exn} \ {Null} ELSE {}
Freed(l, r) == IF BothHere(l, r) THEN {l.view.fiber} \ {Null} ELSE {}

MergedView(l, r) ==
    IF BothHere(l, r) THEN reduce(l.view, r.view)
                      ELSE IF l.view.here THEN l.view ELSE r.view

(* Seeded fault: the right table is put before the left one.               *)
MergedSwapped(l, r) ==
    [made |-> l.made \/ r.made, ups |-> r.ups \o l.ups, view |-> MergedView(l, r)]

(* merge_two_hts keeps the left-to-right order of the views.               *)
Merged(l, r) ==
    [made |-> l.made \/ r.made, ups |-> l.ups \o r.ups, view |-> MergedView(l, r)]

(* Closure::has_children *)
HasChildren(c) == cl[c].join # 0

(* Seeded fault: a promoted child is linked but not counted.               *)
AddChildUncounted(cs, p, c) ==
    LET left == cs[p].rightMost
        linked == [cs EXCEPT ![c].leftSib = left, ![p].rightMost = c]
    IN  IF left = Null THEN linked ELSE [linked EXCEPT ![left].rightSib = c]

(* Closure::add_child: the new child becomes the right-most one.           *)
AddChild(cs, p, c) ==
    LET left == cs[p].rightMost
        linked == [cs EXCEPT ![c].leftSib = left, ![p].rightMost = c,
                             ![p].join = @ + 1]
    IN  IF left = Null THEN linked ELSE [linked EXCEPT ![left].rightSib = c]

(* Set a sibling link of closure c, if there is such a closure.            *)
Relinked(cs, c, field, to) ==
    IF c = Null THEN cs ELSE [cs EXCEPT ![c] = [@ EXCEPT ![field] = to]]

(* Seeded fault: the right sibling keeps its link to the removed child.    *)
UnlinkedHalf(cs, c) == Relinked(cs, cs[c].leftSib, "rightSib", cs[c].rightSib)

(* Closure::unlink_child *)
Unlinked(cs, c) ==
    Relinked(Relinked(cs, cs[c].leftSib, "rightSib", cs[c].rightSib),
             cs[c].rightSib, "leftSib", cs[c].leftSib)

(* Closure::remove_child and Closure::destroy of child c of p, and the     *)
(* decrement of the join counter.                                          *)
RemoveChild(cs, p, c) ==
    [Unlinked(cs, c) EXCEPT
        ![p].rightMost = IF @ = c THEN cs[c].leftSib ELSE @,
        ![p].join = @ - 1,
        ![c] = FreeClosure]

-----------------------------------------------------------------------------
(***************************************************************************)
(* User code.                                                              *)
(***************************************************************************)
Cur(w) == wk[w].cur
Code(f) == prog.code[f]
Returns(f) == at[f] > Len(Code(f))
Executes(w, op) ==
    wk[w].pc = "user" /\ ~Returns(Cur(w)) /\ Code(Cur(w))[at[Cur(w)]].op = op
Arg(w) == Code(Cur(w))[at[Cur(w)]].arg
Step(f) == at' = [at EXCEPT ![f] = @ + 1]
Enter(w, g) ==
    /\ home' = [home EXCEPT ![g] = wk[w].fib]
    /\ wk' = [wk EXCEPT ![w].cur = g]

(* The exception f is unwound with is handed to its parent; the landing    *)
(* pad there runs on the fiber that f was called on.                       *)
PassedUp(f) ==
    IF unw[f].exn = Null THEN unw
    ELSE [unw EXCEPT ![f] = NotUnwinding,
                     ![prog.parent[f]] = [exn |-> unw[f].exn, sp |-> home[f]]]

HasHandler(f) == at[f] < prog.handler[f]

(* __cilkrts_enter_frame_helper, __cilkrts_detach, and the spawned call.   *)
Spawn(w) ==
    /\ Executes(w, "spawn")
    /\ dq' = [dq EXCEPT ![w] = Append(@, Cur(w))]
    /\ Step(Cur(w))
    /\ Enter(w, Arg(w))
    /\ UNCHANGED <<prog, stolen, unsynced, evars, cl, busy, busyLock, freeFibers,
                   done>>

(* __cilkrts_enter_frame of a called Cilk function.                        *)
Call(w) ==
    /\ Executes(w, "call")
    /\ Step(Cur(w))
    /\ Enter(w, Arg(w))
    /\ UNCHANGED <<prog, stolen, unsynced, evars, cl, busy, busyLock, dq,
                   freeFibers, done>>

(* __cilkrts_reducer_lookup, and an update of the view found or created.   *)
Update(w) ==
    /\ Executes(w, "update")
    /\ Step(Cur(w))
    /\ wk' = [wk EXCEPT ![w].ht = [@ EXCEPT !.made = TRUE,
                                            !.ups = Append(@, Arg(w))]]
    /\ UNCHANGED <<prog, home, stolen, unsynced, evars, cl, busy, busyLock, dq,
                   freeFibers, done>>

(* __cilk_sync with CILK_FRAME_UNSYNCHED clear.                            *)
SyncNothing(w) ==
    /\ Executes(w, "sync")
    /\ Cur(w) \notin unsynced
    /\ Step(Cur(w))
    /\ UNCHANGED <<prog, home, stolen, unsynced, evars, cl, busy, busyLock, dq,
                   wk, freeFibers, done>>

(* A throw: the unwinder calls the personality function for the frame.     *)
Throw(w) ==
    LET f == Cur(w)
    IN  /\ Executes(w, "throw")
        /\ unw' = [unw EXCEPT ![f] = [exn |-> Arg(w), sp |-> wk[w].fib]]
        /\ thrown' = thrown \cup {Arg(w)}
        /\ wk' = [wk EXCEPT ![w].pc = "unwind"]
        /\ UNCHANGED <<prog, at, home, stolen, unsynced, pending, caught, deleted,
                       cl, busy, busyLock, dq, freeFibers, done>>

(* The end of frame f, by return or by exception: back to the caller, or   *)
(* to the spawn helper.  A frame of kind "expr" is its own helper.         *)
Leaving(w) ==
    wk[w].pc = "leave" \/ (wk[w].pc = "user" /\ Returns(Cur(w)) /\ Cur(w) # Root)

Left(w) ==
    LET f == Cur(w)  throws == unw[f].exn # Null
    IN  IF prog.kind[f] = "call"
        THEN /\ wk' = [wk EXCEPT ![w].pc = IF throws THEN "unwind" ELSE "user",
                                 ![w].cur = prog.parent[f],
                                 ![w].ht.view.rsp = Null]
             /\ home' = [home EXCEPT ![f] = Null]
             /\ unw' = PassedUp(f)
        ELSE /\ wk' = [wk EXCEPT ![w].pc = IF throws THEN "landing" ELSE "helper",
                                 ![w].fib = IF throws THEN home[f] ELSE @,
                                 ![w].ht.view.rsp = Null]
             /\ UNCHANGED <<home, unw>>

(* __cilkrts_leave_frame of a frame that has no closure of its own.        *)
LeaveFrame(w) ==
    /\ Leaving(w)
    /\ prog.kind[Cur(w)] = "expr" \/ Cur(w) \notin stolen
    /\ Left(w)
    /\ UNCHANGED <<prog, at, stolen, unsynced, pending, caught, thrown, deleted,
                   cl, busy, busyLock, dq, freeFibers, done>>

(* __cilkrts_leave_frame_helper and __cilkrts_pause_frame when the parent  *)
(* was not stolen.                                                         *)
PopParent(w) ==
    LET f == Cur(w)
    IN  /\ wk[w].pc = "helper"
        /\ dq[w] # <<>>
        /\ dq' = [dq EXCEPT ![w] = Front(@)]
        /\ home' = [home EXCEPT ![f] = Null]
        /\ unw' = PassedUp(f)
        /\ wk' = [wk EXCEPT ![w].cur = Last(dq[w]),
                     ![w].pc = IF unw[f].exn # Null THEN "unwind" ELSE "user"]
        /\ UNCHANGED <<prog, at, stolen, unsynced, pending, caught, thrown,
                       deleted, cl, busy, busyLock, freeFibers, done>>

-----------------------------------------------------------------------------
(***************************************************************************)
(* Cilk_sync.                                                              *)
(***************************************************************************)
LockSelf(w, to) ==
    /\ busyLock[w] = Null
    /\ busyLock' = [busyLock EXCEPT ![w] = w]
    /\ wk' = [wk EXCEPT ![w].pc = to]
    /\ UNCHANGED <<fvars, cl, busy, dq, freeFibers, done>>

SyncLock(w) ==
    /\ Executes(w, "sync")
    /\ Cur(w) \in unsynced
    /\ LockSelf(w, "sync")

(* setup_for_sync: back to the fiber the frame started on.                 *)
SetupForSync(c) ==
    [c EXCEPT !.fiber = c.fiberChild, !.fiberChild = Null, !.orig = Null]

(* Outstanding children: Closure::suspend, leaving the reducer table in    *)
(* user_ht.                                                                *)
SyncSuspend(w) ==
    LET t == busy[w]
    IN  /\ wk[w].pc = "sync"
        /\ cl[t].lock = Null
        /\ HasChildren(t)
        /\ freeFibers' = Released(w, {cl[t].fiber})
        /\ cl' = [cl EXCEPT ![t].status = "suspended", ![t].fiber = Null,
                            ![t].userHt = wk[w].ht]
        /\ busy' = [busy EXCEPT ![w] = Null]
        /\ busyLock' = [busyLock EXCEPT ![w] = Null]
        /\ wk' = [wk EXCEPT ![w].pc = "steal", ![w].cur = Null, ![w].ht = NoHt]
        /\ UNCHANGED <<fvars, dq, done>>

(* No children: the sync succeeds, and the frame goes on at orig_rsp.      *)
SyncReady(w) ==
    LET t == busy[w]
    IN  /\ wk[w].pc = "sync"
        /\ cl[t].lock = Null
        /\ ~HasChildren(t)
        /\ freeFibers' = Released(w, {cl[t].fiber})
        /\ cl' = [cl EXCEPT ![t] = SetupForSync(cl[t])]
        /\ unsynced' = unsynced \ {cl[t].frame}
        /\ busyLock' = [busyLock EXCEPT ![w] = Null]
        /\ wk' = [wk EXCEPT ![w].pc = "synced", ![w].cl = t,
                            ![w].fib = cl[t].orig]
        /\ UNCHANGED <<prog, at, home, stolen, evars, busy, dq, done>>

(* The rest of Cilk_sync, after the locks: the children's table, and the   *)
(* jump to __cilkrts_do_reductions.                                        *)
SyncTakeChildHt(w) ==
    LET t == wk[w].cl
    IN  /\ wk[w].pc = "synced"
        /\ wk' = [wk EXCEPT ![w].lht = cl[t].childHt, ![w].pc = "reduce",
                            ![w].why = "synced", ![w].cl = Null]
        /\ cl' = [cl EXCEPT ![t].childHt = NoHt]
        /\ UNCHANGED <<fvars, busy, busyLock, dq, freeFibers, done>>

-----------------------------------------------------------------------------
(***************************************************************************)
(* __cilkrts_set_return: a called frame with a closure of its own returns. *)
(***************************************************************************)
SetReturnLock(w) ==
    /\ Leaving(w)
    /\ prog.kind[Cur(w)] # "expr" /\ Cur(w) \in stolen
    /\ LockSelf(w, "set_return")

SetReturnSwap(w) ==
    LET t == busy[w]
    IN  /\ wk[w].pc = "set_return"
        /\ cl[t].lock = Null
        /\ busy' = [busy EXCEPT ![w] = cl[t].callParent]
        /\ cl' = [cl EXCEPT ![t].frame = Null]
        /\ wk' = [wk EXCEPT ![w].pc = "set_return2", ![w].cl = t]
        /\ UNCHANGED <<fvars, busyLock, dq, freeFibers, done>>

(* Lock the call parent, Closure::remove_callee, run it, destroy t.        *)
SetReturnResume(w) ==
    LET t == wk[w].cl  p == cl[t].callParent
    IN  /\ wk[w].pc = "set_return2"
        /\ cl[p].lock = Null
        /\ cl' = [cl EXCEPT ![p].join = @ - 1, ![p].status = "running",
                            ![t] = FreeClosure]
        /\ busyLock' = [busyLock EXCEPT ![w] = Null]
        /\ Left(w)
        /\ UNCHANGED <<prog, at, stolen, unsynced, pending, caught, thrown, deleted,
                       busy, dq, freeFibers, done>>

-----------------------------------------------------------------------------
(***************************************************************************)
(* Returning from a spawn whose parent was stolen:                         *)
(* __cilkrts_exception_handler, do_what_it_says and Closure_return.        *)
(***************************************************************************)
HandlerLock(w) ==
    /\ wk[w].pc = "helper"
    /\ dq[w] = <<>>
    /\ LockSelf(w, "handler")

(* The view of table ht in get_exception_reducer, with exception e.        *)
WithException(ht, e) ==
    [ht EXCEPT !.made = TRUE, !.view = [@ EXCEPT !.here = TRUE, !.exn = e]]

(* Keep an exception for the parent, mark the closure returning, jump to   *)
(* the runtime with busy[w] locked, extract the closure there and unlock.  *)
HandlerReturn(w) ==
    LET t == busy[w]  e == unw[Cur(w)].exn
    IN  /\ wk[w].pc = "handler"
        /\ cl[t].lock = Null
        /\ cl' = [cl EXCEPT ![t].status = "returning", ![t].frame = Null,
                            ![t].excPending = @ \/ e # Null]
        /\ unw' = [unw EXCEPT ![Cur(w)] = NotUnwinding]
        /\ busy' = [busy EXCEPT ![w] = Null]
        /\ busyLock' = [busyLock EXCEPT ![w] = Null]
        /\ home' = [home EXCEPT ![Cur(w)] = Null]
        /\ wk' = [wk EXCEPT ![w].pc = "return", ![w].cl = t, ![w].cur = Null,
                            ![w].ht = IF e = Null THEN @ ELSE WithException(@, e)]
        /\ UNCHANGED <<prog, at, stolen, unsynced, pending, caught, thrown, deleted,
                       dq, freeFibers, done>>

(* Closure_return locks the parent, then the child.                        *)
ReturnLockParent(w) ==
    LET p == cl[wk[w].cl].spawnParent
    IN  /\ wk[w].pc = "return"
        /\ cl[p].lock = Null
        /\ cl' = [cl EXCEPT ![p].lock = w]
        /\ wk' = [wk EXCEPT ![w].pc = "return2"]
        /\ UNCHANGED <<fvars, busy, busyLock, dq, freeFibers, done>>

(* The table to the left of child c: a left sibling's right_ht, or the     *)
(* parent's child_ht.                                                      *)
LeftOf(c) ==
    IF cl[c].leftSib # Null THEN cl[cl[c].leftSib].rightHt
                            ELSE cl[cl[c].spawnParent].childHt

SetLeftOf(cs, c, ht) ==
    IF cs[c].leftSib # Null THEN [cs EXCEPT ![cs[c].leftSib].rightHt = ht]
                            ELSE [cs EXCEPT ![cs[c].spawnParent].childHt = ht]

(* Seeded fault: only the table on the left is looked at.                  *)
MustReduceLeft(c) == LeftOf(c).made

MustReduce(c) == LeftOf(c).made \/ cl[c].rightHt.made

(* There is something to reduce: take both tables, and run the child again *)
(* to merge them in user code.                                             *)
ReturnReduce(w) ==
    LET c == wk[w].cl  p == cl[c].spawnParent
    IN  /\ wk[w].pc = "return2"
        /\ cl[c].lock = Null
        /\ MustReduce(c)
        /\ wk' = [wk EXCEPT ![w].lht = LeftOf(c), ![w].rht = cl[c].rightHt,
                            ![w].pc = "install", ![w].why = "reduce"]
        /\ cl' = [SetLeftOf(cl, c, NoHt) EXCEPT ![c].rightHt = NoHt,
                     ![c].status = "running", ![p].lock = Null]
        /\ UNCHANGED <<fvars, busy, busyLock, dq, freeFibers, done>>

(* Seeded fault: a child gives its fiber back although it is left-most.    *)
NotLeftMostAlways(c) == TRUE

NotLeftMost(c) ==
    cl[c].leftSib # Null \/ cl[cl[c].spawnParent].fiberChild # Null

(* Seeded fault: resume the parent as soon as its children are gone.       *)
ProvablyGoodRunning(p) == p.join = 0

(* Seeded fault: the returning child still counts itself.                  *)
ProvablyGoodEarly(p) == p.join = 1 /\ p.status = "suspended"

(* provably_good_steal_maybe: nobody else will resume the parent.          *)
ProvablyGood(p) == p.join = 0 /\ p.status = "suspended"

(* Deposit the views on the left, pass the fiber up or give it back, leave *)
(* the tree, and resume the parent if this was the last child of a         *)
(* suspended one.                                                          *)
ReturnFinish(w) ==
    LET c == wk[w].cl
        p == cl[c].spawnParent
        deposited == SetLeftOf(cl, c, wk[w].ht)
        passed == IF NotLeftMost(c) THEN deposited
                  ELSE [deposited EXCEPT ![p].fiberChild = cl[c].fiber]
        left == [RemoveChild(passed, p, c) EXCEPT ![p].lock = Null,
                    ![p].excPending = @ \/ cl[c].excPending]
        given == IF NotLeftMost(c) THEN {cl[c].fiber} ELSE {}
    IN  /\ wk[w].pc = "return2"
        /\ cl[c].lock = Null
        /\ ~MustReduce(c)
        /\ pending' = IF cl[c].excPending THEN pending \cup {cl[p].frame} ELSE pending
        /\ IF ProvablyGood(left[p])
           THEN /\ cl' = [left EXCEPT ![p] =
                            [SetupForSync(left[p]) EXCEPT !.status = "running",
                                !.childHt = NoHt, !.userHt = NoHt]]
                /\ unsynced' = unsynced \ {left[p].frame}
                /\ freeFibers' = Released(w, given \cup {left[p].fiber})
                /\ wk' = [wk EXCEPT ![w].pc = "install", ![w].why = "synced",
                             ![w].cl = p, ![w].ht = left[p].userHt,
                             ![w].lht = left[p].childHt, ![w].fib = left[p].orig]
           ELSE /\ cl' = left
                /\ wk' = [wk EXCEPT ![w].pc = "steal", ![w].cl = Null,
                                    ![w].ht = NoHt]
                /\ freeFibers' = Released(w, given)
                /\ UNCHANGED unsynced
        /\ UNCHANGED <<prog, at, home, stolen, unw, caught, thrown, deleted, busy,
                       busyLock, dq, done>>

-----------------------------------------------------------------------------
(***************************************************************************)
(* do_what_it_says: make a closure busy and jump into user code.           *)
(***************************************************************************)
Install(w) ==
    LET t == wk[w].cl
    IN  /\ wk[w].pc = "install"
        /\ busyLock[w] = Null
        /\ busy' = [busy EXCEPT ![w] = t]
        /\ wk' = [wk EXCEPT ![w].cur = cl[t].frame, ![w].cl = Null,
                     ![w].fib = IF wk[w].why = "synced" THEN @ ELSE cl[t].fiber,
                     ![w].pc = IF wk[w].why = "stolen" THEN "user" ELSE "reduce"]
        /\ UNCHANGED <<fvars, cl, busyLock, dq, freeFibers, done>>

(* __cilkrts_do_reductions                                                 *)
DoReductions(w, to) ==
    LET left == Merged(wk[w].lht, wk[w].ht)
    IN  /\ wk' = [wk EXCEPT ![w].ht = Merged(left, wk[w].rht), ![w].lht = NoHt,
                            ![w].rht = NoHt, ![w].why = "stolen", ![w].pc = to,
                            ![w].cl = IF to = "return" THEN busy[w] ELSE Null]
        /\ deleted' = deleted \cup Dropped(wk[w].lht, wk[w].ht)
                              \cup Dropped(left, wk[w].rht)
        /\ freeFibers' = Released(w, Freed(wk[w].lht, wk[w].ht)
                                       \cup Freed(left, wk[w].rht))

(* Past the sync of __cilk_sync, with or without a pending exception, or   *)
(* past the one of sync_in_personality.                                    *)
ReduceSynced(w) ==
    LET f == Cur(w)
    IN  /\ wk[w].pc = "reduce" /\ wk[w].why = "synced"
        /\ DoReductions(w, IF unw[f].exn # Null THEN "unwind"
                           ELSE IF f \in pending THEN "check" ELSE "user")
        /\ at' = IF unw[f].exn = Null /\ f \notin pending
                 THEN [at EXCEPT ![f] = @ + 1] ELSE at
        /\ UNCHANGED <<prog, home, stolen, unsynced, unw, pending, caught, thrown,
                       cl, busy, busyLock, dq, done>>

(* Cilk_do_reductions_for_return: reduce, then try to return again.        *)
ReduceReturning(w) ==
    /\ wk[w].pc = "reduce" /\ wk[w].why = "reduce"
    /\ busyLock[w] = Null
    /\ cl' = [cl EXCEPT ![busy[w]].status = "returning"]
    /\ busy' = [busy EXCEPT ![w] = Null]
    /\ DoReductions(w, "return")
    /\ UNCHANGED <<prog, at, home, stolen, unsynced, unw, pending, caught, thrown,
                   busyLock, dq, done>>

-----------------------------------------------------------------------------
(***************************************************************************)
(* Exceptions: the personality function in the cleanup phase of frame      *)
(* Cur(w), the landing pads, and what a sync does with the exceptions of   *)
(* the children.  The stack of the unwinder stays on the fiber of the      *)
(* throw until a landing pad is entered.                                   *)
(***************************************************************************)
UnwindLock(w) ==
    /\ wk[w].pc = "unwind"
    /\ Cur(w) \in unsynced
    /\ LockSelf(w, "save")

(* A throwing fiber that was saved further down is the one to keep.        *)
KeepsFiber(w) == wk[w].ht.view.fiber # Null

(* sync_in_personality: save the exception, come back here after the sync, *)
(* and keep the fiber from being freed by it.                              *)
UnwindSave(w) ==
    LET t == busy[w]
        mine == WithException(wk[w].ht, unw[Cur(w)].exn)
    IN  /\ wk[w].pc = "save"
        /\ cl[t].lock = Null
        /\ wk' = [wk EXCEPT ![w].pc = "throwing",
                     ![w].ht = [mine EXCEPT !.view.rsp = cl[t].orig,
                                  !.view.fiber = IF KeepsFiber(w) THEN @
                                                 ELSE cl[t].fiber]]
        /\ cl' = [cl EXCEPT ![t].orig = wk[w].fib,
                            ![t].fiber = IF KeepsFiber(w) THEN @ ELSE Null]
        /\ busyLock' = [busyLock EXCEPT ![w] = Null]
        /\ UNCHANGED <<fvars, busy, dq, freeFibers, done>>

(* Set CILK_FRAME_THROWING and call Cilk_sync.  A child that returns may   *)
(* set CILK_FRAME_EXCEPTION_PENDING in the same word at the same time, as  *)
(* neither is atomic: that flag may be lost.                               *)
UnwindSync(w) ==
    /\ wk[w].pc = "throwing"
    /\ busyLock[w] = Null
    /\ busyLock' = [busyLock EXCEPT ![w] = w]
    /\ wk' = [wk EXCEPT ![w].pc = "sync"]
    /\ \E lost \in SUBSET {Cur(w)} : pending' = pending \ lost
    /\ UNCHANGED <<prog, at, home, stolen, unsynced, unw, caught, thrown, deleted,
                   cl, busy, dq, freeFibers, done>>

(* The frame is synced, and no other exception came before this one.       *)
Synced(w) == wk[w].pc = "unwind" /\ Cur(w) \notin unsynced
NoneBefore(w) == wk[w].ht.view.exn \in {Null, unw[Cur(w)].exn}

(* _Unwind_RaiseException of the exception that did; the frames up to this *)
(* one, already left, are skipped by means of reraise_cfa.                 *)
Reraise(w) ==
    LET f == Cur(w)
    IN  /\ Synced(w) /\ ~NoneBefore(w)
        /\ unw' = [unw EXCEPT ![f].exn = wk[w].ht.view.exn]
        /\ wk' = [wk EXCEPT ![w].ht.view.exn = Null]
        /\ pending' = pending \ {f}
        /\ UNCHANGED <<prog, at, home, stolen, unsynced, caught, thrown, deleted,
                       cl, busy, busyLock, dq, freeFibers, done>>

(* std_lib_personality: enter a landing pad, which a spawn helper always   *)
(* has, on the stack the unwinder has restored; or leave the frame.        *)
Personality(w) ==
    LET f == Cur(w)  lands == HasHandler(f) \/ prog.kind[f] = "expr"
    IN  /\ Synced(w) /\ NoneBefore(w)
        /\ lands \/ f # Root
        /\ wk' = [wk EXCEPT ![w].pc = IF lands THEN "landing" ELSE "leave",
                            ![w].fib = IF lands THEN unw[f].sp ELSE @]
        /\ UNCHANGED <<fvars, cl, busy, busyLock, dq, freeFibers, done>>

(* __cilkrts_cleanup_fiber, called by __cilkrts_enter_landingpad and       *)
(* __cilkrts_pause_frame; then the handler, or the end of the helper.      *)
CleanupFiber(w) ==
    LET f == Cur(w)  v == wk[w].ht.view
    IN  /\ wk[w].pc = "landing"
        /\ freeFibers' = Released(w, {v.fiber})
        /\ wk' = [wk EXCEPT ![w].ht.view = NoView,
                     ![w].fib = IF v.rsp = Null THEN @ ELSE v.rsp,
                     ![w].pc = IF HasHandler(f) THEN "user" ELSE "helper"]
        /\ IF HasHandler(f)
           THEN /\ at' = [at EXCEPT ![f] = prog.handler[f]]
                /\ unw' = [unw EXCEPT ![f] = NotUnwinding]
                /\ caught' = [caught EXCEPT ![f] = Append(@, unw[f].exn)]
           ELSE UNCHANGED <<at, unw, caught>>
        /\ UNCHANGED <<prog, home, stolen, unsynced, pending, thrown, deleted, cl,
                       busy, busyLock, dq, done>>

(* __cilkrts_check_exception_raise, after a sync that found the flag set.  *)
CheckExceptionRaise(w) ==
    LET f == Cur(w)  e == wk[w].ht.view.exn
    IN  /\ wk[w].pc = "check"
        /\ pending' = pending \ {f}
        /\ unw' = IF e = Null THEN unw
                  ELSE [unw EXCEPT ![f] = [exn |-> e, sp |-> wk[w].fib]]
        /\ at' = IF e = Null THEN [at EXCEPT ![f] = @ + 1] ELSE at
        /\ wk' = [wk EXCEPT ![w].ht = [@ EXCEPT !.made = TRUE, !.view = NoView],
                            ![w].pc = IF e = Null THEN "user" ELSE "unwind"]
        /\ UNCHANGED <<prog, home, stolen, unsynced, caught, thrown, deleted, cl,
                       busy, busyLock, dq, freeFibers, done>>

-----------------------------------------------------------------------------
(***************************************************************************)
(* Closure_steal.                                                          *)
(***************************************************************************)

(* The fast test and the trylock of the victim's busy closure.             *)
StealLock(w, v) ==
    /\ wk[w].pc = "steal" /\ ~done
    /\ dq[v] # <<>>
    /\ busyLock[v] = Null
    /\ busyLock' = [busyLock EXCEPT ![v] = w]
    /\ wk' = [wk EXCEPT ![w].pc = "peek", ![w].vic = v]
    /\ UNCHANGED <<fvars, cl, busy, dq, freeFibers, done>>

(* The trylock of the closure and Dekker's protocol, won.                  *)
StealWin(w) ==
    LET v == wk[w].vic  t == busy[v]
    IN  /\ wk[w].pc = "peek"
        /\ t # Null
        /\ cl[t].lock = Null /\ cl[t].status = "running"
        /\ dq[v] # <<>>
        /\ cl' = [cl EXCEPT ![t].lock = w]
        /\ dq' = [dq EXCEPT ![v] = Tail(@)]
        /\ wk' = [wk EXCEPT ![w].pc = "promote", ![w].cl = t,
                            ![w].frm = Head(dq[v])]
        /\ UNCHANGED <<fvars, busy, busyLock, freeFibers, done>>

(* ... or lost, or no closure, or a closure that is locked: unlock.  A     *)
(* closure that is neither running nor returning leaves both locks held.   *)
StealLose(w) ==
    LET v == wk[w].vic  t == busy[v]
        strange == t # Null /\ cl[t].lock = Null
                   /\ cl[t].status \notin {"running", "returning"}
    IN  /\ wk[w].pc = "peek"
        /\ \/ t = Null
           \/ cl[t].lock # Null
           \/ cl[t].status # "running"
           \/ dq[v] = <<>>
        /\ busyLock' = IF strange THEN busyLock ELSE [busyLock EXCEPT ![v] = Null]
        /\ cl' = IF strange THEN [cl EXCEPT ![t].lock = w] ELSE cl
        /\ wk' = [wk EXCEPT ![w].pc = "steal", ![w].vic = Null]
        /\ UNCHANGED <<fvars, busy, dq, freeFibers, done>>

(* Seeded fault: every steal moves the stack pointer a sync restores.      *)
OrigRspAlways(c, fiber) == fiber

(* promote_child: only the first steal of a frame records where it was.    *)
OrigRsp(c, fiber) == IF c.orig = Null THEN fiber ELSE c.orig

(* The closure the stolen frame gets: the running one if it belongs to     *)
(* the frame, or if the frame is the spawn helper it was created for ...   *)
OwnsFrame(t, f) == cl[t].frame = f \/ prog.kind[f] = "expr"

(* promote_child and extract_top_spawning_closure: the stolen frame's      *)
(* closure p gets a new fiber, and a new child closure of p continues on   *)
(* the victim, on the old one.                                             *)
Promoted(w, cs, p, c, fiber) ==
    LET v == wk[w].vic
        parent == [cs EXCEPT
                     ![p] = [@ EXCEPT !.frame = wk[w].frm, !.fiber = NewFiber(w),
                                      !.orig = OrigRsp(cs[p], fiber)],
                     ![c] = [FreeClosure EXCEPT !.status = "running",
                                !.spawnParent = p, !.fiber = fiber]]
    IN  /\ cl' = AddChild(parent, p, c)
        /\ busy' = [busy EXCEPT ![v] = c]
        /\ stolen' = stolen \cup {wk[w].frm}
        /\ freeFibers' = [freeFibers EXCEPT ![PoolFor(w)] = @ \ {NewFiber(w)}]
        /\ wk' = [wk EXCEPT ![w].pc = "unbusy", ![w].cl = p]
        /\ UNCHANGED <<prog, at, home, unsynced, evars, busyLock, dq, done>>

(* The bounds: there is another closure and another fiber.                 *)
HasRoom(w, used) == Unused(used) # {} /\ freeFibers[PoolFor(w)] # {}

PromoteOwn(w) ==
    LET t == wk[w].cl
    IN  /\ wk[w].pc = "promote"
        /\ OwnsFrame(t, wk[w].frm)
        /\ HasRoom(w, {})
        /\ Promoted(w, cl, t, NewClosure({}), cl[t].fiber)

(* ... otherwise a new closure, called by the running one, which is        *)
(* suspended (Closure::add_callee, suspend_victim) and unlocked.           *)
PromoteCallee(w) ==
    LET t == wk[w].cl
        p == NewClosure({})
        called == [cl EXCEPT
                     ![t].join = @ + 1, ![t].status = "suspended", ![t].lock = Null,
                     ![p] = [FreeClosure EXCEPT !.status = "running",
                                !.callParent = t, !.lock = w]]
    IN  /\ wk[w].pc = "promote"
        /\ ~OwnsFrame(t, wk[w].frm)
        /\ HasRoom(w, {p})
        /\ Promoted(w, called, p, NewClosure({p}), cl[t].fiber)

StealUnlockBusy(w) ==
    /\ wk[w].pc = "unbusy"
    /\ busyLock' = [busyLock EXCEPT ![wk[w].vic] = Null]
    /\ wk' = [wk EXCEPT ![w].pc = "finish"]
    /\ UNCHANGED <<fvars, cl, busy, dq, freeFibers, done>>

(* finish_promote, setup_for_execution, and unlock.                        *)
StealFinish(w) ==
    /\ wk[w].pc = "finish"
    /\ unsynced' = unsynced \cup {wk[w].frm}
    /\ cl' = [cl EXCEPT ![wk[w].cl].status = "running", ![wk[w].cl].lock = Null]
    /\ wk' = [wk EXCEPT ![w].pc = "install", ![w].why = "stolen", ![w].vic = Null,
                        ![w].frm = Null]
    /\ UNCHANGED <<prog, at, home, stolen, evars, busy, busyLock, dq, freeFibers,
                   done>>

-----------------------------------------------------------------------------
(***************************************************************************)
(* The end of the region: __cilkrts_internal_exit_cilkified_root.          *)
(***************************************************************************)
EndRegion(w, ht) ==
    /\ done' = TRUE
    /\ wk' = [wk EXCEPT ![w].ht = NoHt, ![Boss].ht = ht, ![w].pc = "exit"]

RootDone(w) ==
    /\ wk[w].pc = "user" /\ Returns(Cur(w)) /\ Cur(w) = Root
    /\ EndRegion(w, wk[w].ht)
    /\ UNCHANGED <<fvars, cl, busy, busyLock, dq, freeFibers>>

(* resume_from_last_frame: the exception leaves the region.                *)
RootThrows(w) ==
    /\ Synced(w) /\ NoneBefore(w)
    /\ Cur(w) = Root /\ ~HasHandler(Root)
    /\ EndRegion(w, [wk[w].ht EXCEPT !.view = NoView])
    /\ freeFibers' = Released(w, {wk[w].ht.view.fiber})
    /\ caught' = [caught EXCEPT ![Root] = Append(@, unw[Root].exn)]
    /\ unw' = [unw EXCEPT ![Root] = NotUnwinding]
    /\ UNCHANGED <<prog, at, home, stolen, unsynced, pending, thrown, deleted, cl,
                   busy, busyLock, dq>>

RootExit(w) ==
    /\ wk[w].pc = "exit"
    /\ busyLock[w] = Null
    /\ busy' = [busy EXCEPT ![w] = Null]
    /\ wk' = [wk EXCEPT ![w].pc = "idle", ![w].cur = Null]
    /\ UNCHANGED <<fvars, cl, busyLock, dq, freeFibers, done>>

(* A thief leaves the work-stealing loop.                                  *)
StopStealing(w) ==
    /\ wk[w].pc = "steal" /\ done
    /\ wk' = [wk EXCEPT ![w].pc = "idle"]
    /\ UNCHANGED <<fvars, cl, busy, busyLock, dq, freeFibers, done>>

WorkerNext(w) ==
    \/ Spawn(w) \/ Call(w) \/ Update(w) \/ SyncNothing(w) \/ Throw(w)
    \/ LeaveFrame(w) \/ PopParent(w)
    \/ SyncLock(w) \/ SyncSuspend(w) \/ SyncReady(w) \/ SyncTakeChildHt(w)
    \/ SetReturnLock(w) \/ SetReturnSwap(w) \/ SetReturnResume(w)
    \/ HandlerLock(w) \/ HandlerReturn(w) \/ ReturnLockParent(w)
    \/ ReturnReduce(w) \/ ReturnFinish(w)
    \/ Install(w) \/ ReduceSynced(w) \/ ReduceReturning(w)
    \/ UnwindLock(w) \/ UnwindSave(w) \/ UnwindSync(w) \/ Reraise(w)
    \/ Personality(w) \/ CleanupFiber(w) \/ CheckExceptionRaise(w)
    \/ \E v \in Workers \ {w} : StealLock(w, v)
    \/ StealWin(w) \/ StealLose(w) \/ PromoteOwn(w) \/ PromoteCallee(w)
    \/ StealUnlockBusy(w) \/ StealFinish(w)
    \/ RootDone(w) \/ RootThrows(w) \/ RootExit(w) \/ StopStealing(w)

(* The region is over and every worker is out of the scheduling loop.      *)
Over == done /\ \A w \in Workers : wk[w].pc = "idle"

Next == (\E w \in Workers : WorkerNext(w)) \/ (Over /\ UNCHANGED vars)

Spec == Init /\ [][Next]_vars

(* Every worker thread keeps running.                                      *)
FairSpec == Spec /\ \A w \in Workers : WF_vars(WorkerNext(w))

-----------------------------------------------------------------------------
(***************************************************************************)
(* Properties.                                                             *)
(***************************************************************************)
WorkerPc ==
    {"user", "helper", "sync", "synced", "reduce", "set_return", "set_return2",
     "handler", "return", "return2", "install", "steal", "peek", "promote",
     "unbusy", "finish", "exit", "idle", "unwind", "save", "throwing", "leave",
     "landing", "check"}

(* The types of the state. *)
TypeOK ==
    /\ prog \in Programs
    /\ stolen \subseteq Frames /\ unsynced \subseteq stolen
    /\ pending \subseteq stolen
    /\ \A f \in Frames : at[f] \in 1 .. Len(Code(f)) + 1
                         /\ home[f] \in Fibers \cup {Null}
    /\ \A c \in Closures :
         /\ cl[c].status \in {"invalid", "running", "suspended", "returning"}
         /\ {cl[c].fiber, cl[c].fiberChild, cl[c].orig} \subseteq Fibers \cup {Null}
         /\ cl[c].frame \in Frames \cup {Null}
         /\ cl[c].join \in 0 .. MaxClosures
         /\ cl[c].lock \in Workers \cup {Null}
    /\ \A w \in Workers :
         /\ wk[w].pc \in WorkerPc
         /\ wk[w].cur \in Frames \cup {Null}
         /\ busy[w] \in Closures \cup {Null} /\ busyLock[w] \in Workers \cup {Null}
    /\ FreeFibers \subseteq Fibers
    /\ done \in BOOLEAN

Alive == {c \in Closures : cl[c].status # "invalid"}
SpawnedBy(p) == {c \in Alive : cl[c].spawnParent = p}
CalledBy(p)  == {c \in Alive : cl[c].callParent = p}

(* The join counter of a closure, on which Cilk_sync and                   *)
(* provably_good_steal_maybe decide, is the number of its spawned children *)
(* and of its callee, and the sibling links that Closure_return follows    *)
(* chain exactly these children.                                           *)
TreeConsistent ==
    \A p \in Alive :
        /\ cl[p].join = Cardinality(SpawnedBy(p)) + Cardinality(CalledBy(p))
        /\ cl[p].rightMost = Null <=> SpawnedBy(p) = {}
        /\ \A c \in SpawnedBy(p) :
             /\ cl[c].rightSib = Null <=> cl[p].rightMost = c
             /\ cl[c].leftSib # Null =>
                  cl[c].leftSib \in SpawnedBy(p) /\ cl[cl[c].leftSib].rightSib = c
             /\ cl[c].rightSib # Null =>
                  cl[c].rightSib \in SpawnedBy(p) /\ cl[cl[c].rightSib].leftSib = c

(* Every place a reducer table can be in.                                  *)
TablePlaces ==
    (Closures \X {"rightHt", "childHt", "userHt"}) \cup (Workers \X {"ht", "lht", "rht"})
TableAt(x) == IF x[2] \in {"ht", "lht", "rht"} THEN wk[x[1]][x[2]] ELSE cl[x[1]][x[2]]

Updates(f) == {i \in DOMAIN Code(f) : Code(f)[i].op = "update"}
AllUpdates == UNION {{Code(f)[i].arg : i \in Updates(f)} : f \in Frames}
Executed ==
    UNION {{Code(f)[i].arg : i \in {j \in Updates(f) : j < at[f]}} : f \in Frames}

(* However steals, returns and merges interleave, no update of a reducer   *)
(* is lost or counted twice: each executed one is in exactly one table,    *)
(* and every table holds its updates in the order of the serial execution. *)
ViewsConserved ==
    /\ \A n \in Executed :
         Cardinality({x \in TablePlaces : n \in ToSet(TableAt(x).ups)}) = 1
    /\ \A x \in TablePlaces :
         LET ups == TableAt(x).ups
         IN  \A i, j \in DOMAIN ups : i < j => ups[i] < ups[j]

(* When the region is over, the boss has the serial result of the reducer. *)
SerialResult ==
    Over => /\ wk[Boss].ht.ups = SetToSortSeq(Executed, LAMBDA m, n : m < n)
            /\ thrown = {} => Executed = AllUpdates

(* Exceptions are delivered as in the serial execution, however many are   *)
(* thrown in parallel and wherever their views are reduced: each handler   *)
(* that is reached gets, and the region lets out, the one thrown first;    *)
(* every other one is deleted, and none that is deleted is delivered; no   *)
(* view of the exception reducer is left behind.                           *)
Delivered == UNION {ToSet(caught[f]) : f \in Frames}
ExceptionsSerial ==
    /\ Delivered \cap deleted = {}
    /\ Over => /\ \A f \in Frames : caught[f] \in {<<>>, prog.caught[f]}
               /\ caught[Root] = prog.caught[Root]
               /\ thrown = Delivered \cup deleted
               /\ ~wk[Boss].ht.view.here

(* A worker executes, or unwinds, on a fiber that nobody else executes on. *)
OnStack(w) ==
    wk[w].pc \in {"user", "helper", "unwind", "save", "throwing", "leave",
                  "landing", "check", "set_return", "set_return2"}
StackPrivate ==
    \A v, w \in Workers :
        v # w /\ OnStack(v) /\ OnStack(w) => wk[v].fib # wk[w].fib

(* No fiber is given back to the pools while a live frame is on it or a    *)
(* worker runs on it, no fiber leaks or has two owners, neither closures   *)
(* nor views that keep it for unwinding, and when the region is over only  *)
(* the root's is in use.                                                   *)
OwnedFibers == UNION {{cl[c].fiber, cl[c].fiberChild} : c \in Alive} \ {Null}
ThrowingFibers == {TableAt(x).view.fiber : x \in TablePlaces} \ {Null}
FibersSafe ==
    /\ \A f \in Frames : home[f] # Null => home[f] \notin FreeFibers
    /\ \A w \in Workers : OnStack(w) => wk[w].fib \notin FreeFibers
    /\ StackPrivate
    /\ OwnedFibers \cap ThrowingFibers = {}
    /\ OwnedFibers \cup ThrowingFibers = Fibers \ FreeFibers
    /\ Over => OwnedFibers = {1}

(* A frame that has synced runs on the fiber that holds its activation     *)
(* record, and the stack pointer saved for that is on this fiber too,      *)
(* unless it is the personality function that syncs (the assertions of     *)
(* setup_for_sync, set_return and longjmp_to_user_code).                   *)
OnHomeFiber ==
    /\ \A w \in Workers :
         wk[w].pc = "user" /\ Cur(w) \notin unsynced => wk[w].fib = home[Cur(w)]
    /\ \A c \in Alive :
         cl[c].orig # Null /\ unw[cl[c].frame].exn = Null =>
            cl[c].orig = home[cl[c].frame]
    /\ \A w \in Workers :
         wk[w].pc = "set_return2" =>
            cl[wk[w].cl].fiber = cl[cl[wk[w].cl].callParent].fiber

(* Each frame is in the hands of one worker: executed by it, or available  *)
(* in one deque; a worker's deque holds callers of what it executes, and a *)
(* spawn helper that finds its parent there returns to its own parent.  A  *)
(* thief that locks busy[w] finds no closure there, or a running one: the  *)
(* default case of Closure_steal, which leaves both locks held, is         *)
(* unreachable within a region (between two regions: ThiefFindsRunning of  *)
(* TheDeque).                                                              *)
Running(w) == OnStack(w) \/ wk[w].pc \in {"sync", "synced"}
FrameOnce ==
    /\ \A v, w \in Workers :
         /\ v # w /\ Running(v) /\ Running(w) => Cur(v) # Cur(w)
         /\ Running(w) => Cur(w) \notin ToSet(dq[v])
         /\ v # w => ToSet(dq[v]) \cap ToSet(dq[w]) = {}
    /\ \A w \in Workers :
         /\ wk[w].pc = "helper" /\ dq[w] # <<>> => Last(dq[w]) = prog.parent[Cur(w)]
         /\ busyLock[w] # w /\ busy[w] # Null => cl[busy[w]].status = "running"

(* A frame passes a sync, or goes to its handler, only when everything it  *)
(* spawned has returned.                                                   *)
SyncWaits ==
    [][\A f \in Frames :
         (at'[f] # at[f] /\ Code(f)[at[f]].op = "sync") \/ caught'[f] # caught[f] =>
            \A g \in Frames : prog.parent[g] = f => home[g] = Null]_vars

(* Every region ends: no worker is left waiting for a lock, a suspended    *)
(* closure is resumed, every continuation is run by somebody.              *)
RegionEnds == <>Over
=============================================================================
