------------------------------ MODULE TheDeque ------------------------------
(***************************************************************************)
(* The THE protocol: the deque of one worker, the victim, as the victim's  *)
(* own compiled code (cilk2c_inlined.cpp), the thieves (Closure_steal) and *)
(* returning children of the victim's closure (Closure_return) see it.     *)
(*                                                                         *)
(* The three deque pointers are indices into the shadow stack; index 0 is  *)
(* l->shadow_stack.  The memory orders the code asks for (seq_cst store of *)
(* tail and load of exc in the victim, seq_cst fence between the store of  *)
(* exc and the load of tail in the thief) make interleavings of single     *)
(* loads and stores the right semantics; each action below is one of them. *)
(* A critical section that only touches what its lock protects is one step.*)
(***************************************************************************)
EXTENDS Integers, Sequences

CONSTANTS
    Thieves,     \* workers that try to steal from the victim
    Victim,      \* the worker that owns the deque
    Returner,    \* a worker returning a child of the victim's closure
    NoWorker,    \* NO_WORKER, the owner of a free lock
    DequeLimit,  \* entries between shadow_stack and ltq_limit
    MaxSpawns,   \* bound on the spawns of a behaviour
    MaxKids      \* bound on the outstanding children of a resumed closure

ASSUME ActorsAssumption ==
    /\ Victim \notin Thieves /\ Returner \notin Thieves
    /\ NoWorker \notin Thieves \cup {Victim, Returner}
    /\ Victim # Returner

ASSUME BoundsAssumption ==
    DequeLimit \in Nat \ {0} /\ MaxSpawns \in Nat /\ MaxKids \in Nat

VARIABLES
    head, tail, exc,  \* __cilkrts_worker::head, tail and exc of the victim
    shadow,      \* l->shadow_stack: the continuation stored at each index
    spawned,     \* continuations pushed so far; they are numbered 1..spawned
    resumed,     \* how many times each continuation was resumed
    busyOwner,   \* busy[victim].mutex_owner
    busy,        \* status of busy[victim].closure, or "none"
    clOwner,     \* mutex_owner of the closure in busy[victim]
    kids,        \* outstanding spawned children of that closure
    vpc,         \* what the victim does next
    tpc,         \* what each thief does next
    hd           \* the head each thief read in its fast test, or in Dekker

ptrs  == <<head, tail, exc>>
locks == <<busyOwner, clOwner>>
work  == <<shadow, spawned, resumed>>
vars  == <<ptrs, work, locks, busy, kids, vpc, tpc, hd>>

Actors == Thieves \cup {Victim, Returner, NoWorker}
Conts  == 1 .. MaxSpawns
Index  == -1 .. DequeLimit

VictimPc ==
    {"user", "push", "left", "h_busy", "h_cl", "h_reset", "h_false", "to_rts",
     "sched", "set_exc", "set_tail", "set_busy", "install",
     "s_busy", "s_cl", "s_do", "d_busy", "d_set",
     "r_busy", "r_cl", "r_set", "r_call", "r_done",
     "x_busy", "x_clear", "out", "ready", "set_head"}
ThiefPc ==
    {"idle", "ft_tail", "try", "peek", "status", "dekker", "undo", "promote",
     "publish", "set_child", "give_up", "unbusy"}

(* A new worker's pointers are one entry above shadow_stack.               *)
Init ==
    /\ head = 1 /\ tail = 1 /\ exc = 1
    /\ shadow = [i \in 0 .. DequeLimit |-> 0]
    /\ spawned = 0
    /\ resumed = [c \in Conts |-> 0]
    /\ busyOwner = NoWorker /\ clOwner = NoWorker
    /\ busy = "none"
    /\ kids = 0
    /\ vpc = "out"
    /\ tpc = [t \in Thieves |-> "idle"]
    /\ hd = [t \in Thieves |-> 0]

Resume(c) == resumed' = [resumed EXCEPT ![c] = @ + 1]

(***************************************************************************)
(* The victim, in compiled user code.                                      *)
(***************************************************************************)

(* __cilkrts_detach: store the parent at *tail ...                         *)
DetachStore ==
    /\ vpc = "user"
    /\ tail + 1 < DequeLimit
    /\ spawned < MaxSpawns
    /\ shadow' = [shadow EXCEPT ![tail] = spawned + 1]
    /\ vpc' = "push"
    /\ UNCHANGED <<ptrs, spawned, resumed, locks, busy, kids, tpc, hd>>

(* ... and publish it by incrementing tail (release).                      *)
DetachPublish ==
    /\ vpc = "push"
    /\ tail' = tail + 1
    /\ spawned' = spawned + 1
    /\ vpc' = "user"
    /\ UNCHANGED <<head, exc, shadow, resumed, locks, busy, kids, tpc, hd>>

(* __cilkrts_leave_frame_helper and __cilkrts_pause_frame: the spawned     *)
(* child is done, so decrement tail.  The oldest helper of a closure       *)
(* returns only after a sync, when the closure has no children.            *)
LeaveTail ==
    /\ vpc = "user"
    /\ tail > head \/ kids = 0
    /\ tail' = tail - 1
    /\ vpc' = "left"
    /\ UNCHANGED <<head, exc, work, locks, busy, kids, tpc, hd>>

(* The test that sends a returning child to the runtime.                   *)
PopContested == exc > tail

(* ... then load exc: the parent is still there, or ask the runtime.       *)
LeaveExc ==
    /\ vpc = "left"
    /\ IF PopContested
       THEN vpc' = "h_busy" /\ UNCHANGED resumed
       ELSE vpc' = "user" /\ Resume(shadow[tail])
    /\ UNCHANGED <<ptrs, shadow, spawned, locks, busy, kids, tpc, hd>>

(***************************************************************************)
(* The victim, in __cilkrts_exception_handler.                             *)
(***************************************************************************)

(* BusyClosure::lock_self spins until busy[self] is free.                  *)
LockSelf(from, to) ==
    /\ vpc = from
    /\ busyOwner = NoWorker
    /\ busyOwner' = Victim
    /\ vpc' = to
    /\ UNCHANGED <<ptrs, work, busy, clOwner, kids, tpc, hd>>

(* t->lock(self) on the closure found in busy[self].                       *)
LockClosure(from, to) ==
    /\ vpc = from
    /\ clOwner = NoWorker
    /\ clOwner' = Victim
    /\ vpc' = to
    /\ UNCHANGED <<ptrs, work, busy, busyOwner, kids, tpc, hd>>

UnlockSelf(from, to) ==
    /\ vpc = from
    /\ busyOwner' = NoWorker
    /\ vpc' = to
    /\ UNCHANGED <<ptrs, work, busy, clOwner, kids, tpc, hd>>

HandlerLockBusy    == LockSelf("h_busy", "h_cl")
HandlerLockClosure == LockClosure("h_cl", "h_reset")

(* Seeded fault: the verdict of a steal when head only meets tail.         *)
StealVerdictOffByOne == head >= tail

StealVerdict == head > tail

(* reset_exception_pointer, and the verdict: head > tail is a steal, and   *)
(* the closure starts returning with busy[self] still locked; otherwise it *)
(* is a false alarm and the child returns to its parent.                   *)
HandlerVerdict ==
    /\ vpc = "h_reset"
    /\ exc' = head
    /\ clOwner' = NoWorker
    /\ IF StealVerdict
       THEN busy' = "returning" /\ vpc' = "to_rts" /\ UNCHANGED resumed
       ELSE vpc' = "h_false" /\ Resume(shadow[tail]) /\ UNCHANGED busy
    /\ UNCHANGED <<head, tail, shadow, spawned, busyOwner, kids, tpc, hd>>

HandlerFalseAlarm == UnlockSelf("h_false", "user")

(***************************************************************************)
(* The victim, in the scheduler.                                           *)
(***************************************************************************)

(* do_what_it_says, back from user code with l->returning set: extract the *)
(* closure, whose return protocol then runs without it.                    *)
ExtractReturning ==
    /\ vpc = "to_rts"
    /\ busy' = "none"
    /\ busyOwner' = NoWorker
    /\ vpc' = "sched"
    /\ UNCHANGED <<ptrs, work, clOwner, kids, tpc, hd>>

(* setup_for_execution of the next closure: three stores, with no lock.    *)
SetupHead ==
    /\ vpc \in {"sched", "set_head"}
    /\ head' = 0
    /\ vpc' = "set_exc"
    /\ UNCHANGED <<tail, exc, work, locks, busy, kids, tpc, hd>>

SetupExc ==
    /\ vpc = "set_exc"
    /\ exc' = 0
    /\ vpc' = "set_tail"
    /\ UNCHANGED <<head, tail, work, locks, busy, kids, tpc, hd>>

SetupTail ==
    /\ vpc = "set_tail"
    /\ tail' = 0
    /\ vpc' = "set_busy"
    /\ UNCHANGED <<head, exc, work, locks, busy, kids, tpc, hd>>

InstallLock == LockSelf("set_busy", "install")

(* do_what_it_says: make the closure busy and jump into user code.  The    *)
(* closure may have been suspended or stolen with children outstanding.    *)
Install ==
    /\ vpc = "install"
    /\ busy' = "running"
    /\ busyOwner' = NoWorker
    /\ kids' \in 0 .. MaxKids
    /\ vpc' = "user"
    /\ UNCHANGED <<ptrs, work, clOwner, tpc, hd>>

(***************************************************************************)
(* The victim, in Cilk_sync, __cilkrts_set_return, the exit of a region    *)
(* and Cilk_do_reductions_for_return: all run only at the top of the stack *)
(* of a full frame, when every older continuation is gone.                 *)
(***************************************************************************)
AtTopOfStack == head = tail

(* The last three run once the frame has passed its sync.                  *)
EnterSynced(to) ==
    /\ vpc = "user"
    /\ AtTopOfStack
    /\ kids = 0
    /\ vpc' = to
    /\ UNCHANGED <<ptrs, work, locks, busy, kids, tpc, hd>>

SyncEnter ==
    /\ vpc = "user"
    /\ AtTopOfStack
    /\ vpc' = "s_busy"
    /\ UNCHANGED <<ptrs, work, locks, busy, kids, tpc, hd>>

SyncLockBusy    == LockSelf("s_busy", "s_cl")
SyncLockClosure == LockClosure("s_cl", "s_do")

(* Closure::suspend: change the status and extract the closure.            *)
Suspend == busy' = "none" /\ kids' = 0

(* With children outstanding the closure is suspended and extracted, and   *)
(* the victim goes to the scheduler; otherwise the sync succeeds.          *)
Sync ==
    /\ vpc = "s_do"
    /\ clOwner' = NoWorker
    /\ busyOwner' = NoWorker
    /\ IF kids > 0
       THEN Suspend /\ vpc' = "sched"
       ELSE UNCHANGED <<busy, kids>> /\ vpc' = "user"
    /\ UNCHANGED <<ptrs, work, tpc, hd>>

SetReturnEnter       == EnterSynced("r_busy")
SetReturnLockBusy    == LockSelf("r_busy", "r_cl")
SetReturnLockClosure == LockClosure("r_cl", "r_set")

(* Replace the closure by its call parent, which is suspended; the lock    *)
(* that matters from now on is the call parent's, which a child of it may  *)
(* be holding.                                                             *)
SetReturnSwap ==
    /\ vpc = "r_set"
    /\ busy' = "suspended"
    /\ kids' \in 0 .. MaxKids
    /\ clOwner' \in {NoWorker} \cup (IF kids' > 0 THEN {Returner} ELSE {})
    /\ vpc' = "r_call"
    /\ UNCHANGED <<ptrs, work, busyOwner, tpc, hd>>

(* Lock the call parent, remove the callee, and mark it running.           *)
SetReturnResume ==
    /\ vpc = "r_call"
    /\ clOwner = NoWorker
    /\ busy' = "running"
    /\ vpc' = "r_done"
    /\ UNCHANGED <<ptrs, work, locks, kids, tpc, hd>>

SetReturnUnlock == UnlockSelf("r_done", "user")

(* Cilk_do_reductions_for_return: the return of the closure found views to *)
(* reduce, and they are reduced.  The closure returns again, with          *)
(* busy[self] locked but not its own lock.                                 *)
ReductionsDone     == EnterSynced("d_busy")
ReductionsLockBusy == LockSelf("d_busy", "d_set")

ReductionsReturn ==
    /\ vpc = "d_set"
    /\ busy' = "returning"
    /\ vpc' = "to_rts"
    /\ UNCHANGED <<ptrs, work, locks, kids, tpc, hd>>

(***************************************************************************)
(* Cilkified regions.  Outside of one the victim has no closure.           *)
(***************************************************************************)

(* The root closure, which every region uses again, gets a new status: a   *)
(* thief can see it if the closure is still in busy[victim].               *)
RootStatus(s) == busy' = IF busy = "none" THEN "none" ELSE s

(* __cilkrts_internal_exit_cilkified_root, by whichever worker passed the  *)
(* last sync of the root frame.                                            *)
ExitRegion   == EnterSynced("x_busy")
ExitLockBusy == LockSelf("x_busy", "x_clear")

(* Seeded fault: the region ends with the root closure in busy[self].      *)
RootStaysBusy == busy' = busy

ClearBusy == busy' = "none"

ExitClear ==
    /\ vpc = "x_clear"
    /\ ClearBusy
    /\ busyOwner' = NoWorker
    /\ vpc' = "out"
    /\ UNCHANGED <<ptrs, work, clOwner, kids, tpc, hd>>

(* A worker without work leaves worker_scheduler when the region is done.  *)
LeaveScheduler ==
    /\ vpc = "sched"
    /\ vpc' = "out"
    /\ UNCHANGED <<ptrs, work, locks, busy, kids, tpc, hd>>

(* __cilkrts_internal_invoke_cilkified_root makes the root closure ready;  *)
(* the boss runs it, every other worker is woken to look for work.         *)
StartRegion ==
    /\ vpc = "out"
    /\ RootStatus("ready")
    /\ vpc' \in {"ready", "sched"}
    /\ UNCHANGED <<ptrs, work, locks, kids, tpc, hd>>

(* do_what_it_says_boss: setup_for_execution marks the root closure        *)
(* running; its three stores and the installation follow.                  *)
SetupRoot ==
    /\ vpc = "ready"
    /\ RootStatus("running")
    /\ vpc' = "set_head"
    /\ UNCHANGED <<ptrs, work, locks, kids, tpc, hd>>

VictimNext ==
    \/ DetachStore \/ DetachPublish \/ LeaveTail \/ LeaveExc
    \/ HandlerLockBusy \/ HandlerLockClosure \/ HandlerVerdict
    \/ HandlerFalseAlarm \/ ExtractReturning
    \/ SetupHead \/ SetupExc \/ SetupTail \/ InstallLock \/ Install
    \/ SyncEnter \/ SyncLockBusy \/ SyncLockClosure \/ Sync
    \/ SetReturnEnter \/ SetReturnLockBusy \/ SetReturnLockClosure
    \/ SetReturnSwap \/ SetReturnResume \/ SetReturnUnlock
    \/ ReductionsDone \/ ReductionsLockBusy \/ ReductionsReturn
    \/ ExitRegion \/ ExitLockBusy \/ ExitClear
    \/ LeaveScheduler \/ StartRegion \/ SetupRoot

(***************************************************************************)
(* A thief, in Closure_steal.                                              *)
(***************************************************************************)
Goto(t, pc) == tpc' = [tpc EXCEPT ![t] = pc]

(* The fast test reads head, then tail, without any lock.                  *)
FastTestHead(t) ==
    /\ tpc[t] = "idle"
    /\ hd' = [hd EXCEPT ![t] = head]
    /\ Goto(t, "ft_tail")
    /\ UNCHANGED <<ptrs, work, locks, busy, kids, vpc>>

(* Seeded fault: no fast test, every attempt goes for the lock.            *)
NoFastTest(t) == FALSE

FastTestFails(t) == hd[t] >= tail

FastTestTail(t) ==
    /\ tpc[t] = "ft_tail"
    /\ Goto(t, IF FastTestFails(t) THEN "idle" ELSE "try")
    /\ UNCHANGED <<ptrs, work, locks, busy, kids, vpc, hd>>

(* BusyClosure::trylock: a weak compare-exchange, which may also fail.     *)
TryBusy(t) ==
    /\ tpc[t] = "try"
    /\ busyOwner = NoWorker
    /\ busyOwner' = t
    /\ Goto(t, "peek")
    /\ UNCHANGED <<ptrs, work, clOwner, busy, kids, vpc, hd>>

TryBusyFails(t) ==
    /\ tpc[t] = "try"
    /\ Goto(t, "idle")
    /\ UNCHANGED <<ptrs, work, locks, busy, kids, vpc, hd>>

(* Peek the busy closure and trylock it; without one, or without its lock, *)
(* leave.                                                                  *)
PeekLocked(t) ==
    /\ tpc[t] = "peek"
    /\ busy # "none"
    /\ clOwner = NoWorker
    /\ clOwner' = t
    /\ Goto(t, "status")
    /\ UNCHANGED <<ptrs, work, busyOwner, busy, kids, vpc, hd>>

PeekFails(t) ==
    /\ tpc[t] = "peek"
    /\ Goto(t, "unbusy")
    /\ UNCHANGED <<ptrs, work, locks, busy, kids, vpc, hd>>

(* switch (cl->status): a running closure gets an exception, a returning   *)
(* one is left alone, anything else is a bug and leaks both locks.         *)
SwitchStatus(t) ==
    /\ tpc[t] = "status"
    /\ CASE busy = "running"   -> exc' = exc + 1 /\ Goto(t, "dekker")
         [] busy = "returning" -> Goto(t, "give_up") /\ UNCHANGED exc
         [] OTHER              -> Goto(t, "idle") /\ UNCHANGED exc
    /\ UNCHANGED <<head, tail, work, locks, busy, kids, vpc, hd>>

(* Seeded fault: the thief also goes for the frame the victim is in.       *)
DekkerLostOffByOne == head > tail

DekkerLost == head >= tail

(* The second half of do_dekker_on, after the fence.                       *)
Dekker(t) ==
    /\ tpc[t] = "dekker"
    /\ hd' = [hd EXCEPT ![t] = head]
    /\ Goto(t, IF DekkerLost THEN "undo" ELSE "promote")
    /\ UNCHANGED <<ptrs, work, locks, busy, kids, vpc>>

(* Seeded fault: a failed attempt leaves exc incremented.                  *)
NoDecrement == exc

(* decrement_exception_pointer: until it takes effect, a pop of the victim *)
(* may still be sent to the runtime for nothing.                           *)
Decremented == exc - 1

Undo(t) ==
    /\ tpc[t] = "undo"
    /\ exc' = Decremented
    /\ Goto(t, "give_up")
    /\ UNCHANGED <<head, tail, work, locks, busy, kids, vpc, hd>>

(* promote_child, first part: take the running closure out of busy.  When  *)
(* the frame at *head has no closure of its own the running closure is     *)
(* suspended and unlocked here; otherwise the thief keeps it, locked, as   *)
(* the closure it stole.                                                   *)
Promote(t) ==
    /\ tpc[t] = "promote"
    /\ busy' = "none"
    /\ clOwner' = NoWorker
    /\ kids' = 0
    /\ Goto(t, "publish")
    /\ UNCHANGED <<ptrs, work, busyOwner, vpc, hd>>

(* promote_child: the continuation at *head is the thief's.                *)
PublishHead(t) ==
    /\ tpc[t] = "publish"
    /\ head' = hd[t] + 1
    /\ Resume(shadow[hd[t]])
    /\ Goto(t, "set_child")
    /\ UNCHANGED <<tail, exc, shadow, spawned, locks, busy, kids, vpc, hd>>

(* promote_child: leave a new closure for the spawned child to the victim. *)
SetChild(t) ==
    /\ tpc[t] = "set_child"
    /\ busy' = "running"
    /\ Goto(t, "unbusy")
    /\ UNCHANGED <<ptrs, work, locks, kids, vpc, hd>>

GiveUp(t) ==
    /\ tpc[t] = "give_up"
    /\ clOwner' = NoWorker
    /\ Goto(t, "unbusy")
    /\ UNCHANGED <<ptrs, work, busyOwner, busy, kids, vpc, hd>>

UnlockBusy(t) ==
    /\ tpc[t] = "unbusy"
    /\ busyOwner' = NoWorker
    /\ Goto(t, "idle")
    /\ UNCHANGED <<ptrs, work, clOwner, busy, kids, vpc, hd>>

ThiefNext(t) ==
    \/ FastTestHead(t) \/ FastTestTail(t) \/ TryBusy(t) \/ TryBusyFails(t)
    \/ PeekLocked(t) \/ PeekFails(t) \/ SwitchStatus(t) \/ Dekker(t) \/ Undo(t)
    \/ Promote(t) \/ PublishHead(t) \/ SetChild(t) \/ GiveUp(t) \/ UnlockBusy(t)

(***************************************************************************)
(* A child of the victim's closure, in Closure_return: it holds the        *)
(* closure's lock while it leaves the closure tree.                        *)
(***************************************************************************)
ReturnLock ==
    /\ busy \in {"running", "suspended"}
    /\ kids > 0
    /\ clOwner = NoWorker
    /\ clOwner' = Returner
    /\ UNCHANGED <<ptrs, work, busyOwner, busy, kids, vpc, tpc, hd>>

ReturnUnlock ==
    /\ clOwner = Returner
    /\ clOwner' = NoWorker
    /\ kids' = kids - 1
    /\ UNCHANGED <<ptrs, work, busyOwner, busy, vpc, tpc, hd>>

Next ==
    \/ VictimNext
    \/ \E t \in Thieves : ThiefNext(t)
    \/ ReturnLock
    \/ ReturnUnlock

Spec == Init /\ [][Next]_vars

(* Every worker thread keeps running: it takes its next step when it can.  *)
(* Nothing stronger is assumed of the spin locks.                          *)
Fairness ==
    /\ WF_vars(VictimNext)
    /\ \A t \in Thieves : WF_vars(ThiefNext(t))
    /\ WF_vars(ReturnUnlock)

FairSpec == Spec /\ Fairness

-----------------------------------------------------------------------------
(***************************************************************************)
(* Properties.                                                             *)
(***************************************************************************)

(* The types of the state. *)
TypeOK ==
    /\ head \in 0 .. DequeLimit
    /\ tail \in Index
    /\ exc \in 0 .. DequeLimit + 1
    /\ shadow \in [0 .. DequeLimit -> 0 .. MaxSpawns]
    /\ spawned \in 0 .. MaxSpawns
    /\ resumed \in [Conts -> Nat]
    /\ busyOwner \in Actors /\ clOwner \in Actors
    /\ busy \in {"none", "ready", "running", "suspended", "returning"}
    /\ kids \in 0 .. MaxKids
    /\ vpc \in VictimPc
    /\ tpc \in [Thieves -> ThiefPc]
    /\ hd \in [Thieves -> Index]

(* Where a thief is that has incremented exc, and neither taken that back  *)
(* nor moved head after it.                                                *)
ExcRaised == {"dekker", "undo", "promote", "publish"}

(* A thief that passed Dekker and has not yet moved head.                  *)
Winning(t) == tpc[t] \in {"promote", "publish"}

(* A pop of the victim whose outcome is not known yet.                     *)
Popping == vpc \in {"left", "h_busy", "h_cl", "h_reset"}

(* The deque is empty, and its pointers are being set one by one.          *)
Resetting == vpc \in {"set_exc", "set_tail"}

(* The oldest index no thief has won, and the last one that is still there.*)
First == IF \E t \in Thieves : Winning(t) THEN head + 1 ELSE head
Last  == CASE Resetting -> First - 1
           [] Popping /\ tail >= First -> tail
           [] OTHER -> tail - 1

(* No continuation is resumed twice: neither by the victim and a thief     *)
(* racing for it in __cilkrts_leave_frame_helper and do_dekker_on, nor by  *)
(* two thieves.                                                            *)
ResumedOnce == \A c \in Conts : resumed[c] <= 1

(* No continuation is lost: each one spawned has been resumed, or is still *)
(* in the deque, or is the one a thief is promoting.                       *)
NoneLost ==
    \A c \in 1 .. spawned :
        \/ resumed[c] > 0
        \/ \E i \in First .. Last : shadow[i] = c
        \/ \E t \in Thieves : Winning(t) /\ shadow[hd[t]] = c

(* Closure_steal never finds a closure that is neither running nor         *)
(* returning (its default case would leave both locks held).  Every other  *)
(* status is confined to a critical section of busy[victim], or the        *)
(* closure is not there: not even the root closure, which is ready while a *)
(* region starts, because the region before it took it out of busy[self]   *)
(* under the lock and it comes back only after it is marked running.       *)
ThiefFindsRunning ==
    \A t \in Thieves :
        /\ tpc[t] = "peek" => busy \in {"none", "running"}
        /\ tpc[t] = "status" => busy = "running"

(* A steal attempt that fails, and a false alarm, leave no trace in exc:   *)
(* whenever no steal is in progress and the victim is in user code, exc is *)
(* head, so the next pop neither misses a steal nor goes to the runtime    *)
(* for nothing.                                                            *)
ExcTracksHead ==
    vpc \in {"user", "push"}
    /\ (\A t \in Thieves :
          tpc[t] \notin ExcRaised) => exc = head

(* __cilkrts_detach never overwrites the slot of the shadow stack that a   *)
(* thief past Dekker is about to read (frame_to_steal = *head).            *)
SlotStable ==
    [][\A t \in Thieves : Winning(t) => shadow'[hd[t]] = shadow[hd[t]]]_vars

(* A worker that waits for busy[self] or for its closure in the runtime    *)
(* gets on, although the locks are unfair and thieves compete for them:    *)
(* thieves back off in the fast test as long as head >= tail.              *)
VictimGetsOn ==
    vpc \in {"h_busy", "h_cl", "s_busy", "s_cl", "r_busy", "r_cl", "r_call",
             "d_busy", "x_busy", "set_busy"}
        ~> vpc \in {"user", "sched", "out"}


(* TheDeque implements DequeSpec.  A steal takes effect when the thief     *)
(* passes Dekker; a pop takes effect when the victim learns it was not     *)
(* contested.                                                              *)
Abstract ==
    INSTANCE DequeSpec WITH
        q <- [i \in 1 .. (Last - First + 1) |-> shadow[First + i - 1]]

ImplementsDequeSpec == Abstract!DSpec

-----------------------------------------------------------------------------
(***************************************************************************)
(* The inductive invariant behind ResumedOnce, NoneLost and                *)
(* ThiefFindsRunning; TheDeque_proof proves that it is one.                *)
(***************************************************************************)
ThiefHoldsBusy ==
    {"peek", "status", "dekker", "undo", "promote", "publish", "set_child",
     "give_up", "unbusy"}
ThiefHoldsClosure == {"status", "dekker", "undo", "promote", "give_up"}
ThiefHasClosure == ThiefHoldsClosure \cup {"publish", "set_child"}
VictimHoldsBusy ==
    {"h_cl", "h_reset", "h_false", "to_rts", "install", "s_cl", "s_do",
     "r_cl", "r_set", "r_call", "r_done", "d_set", "x_clear"}
Unlocked ==
    {"user", "push", "left", "h_busy", "s_busy", "r_busy", "d_busy", "x_busy"}
VictimHoldsClosure == {"h_reset", "s_do", "r_set"}
NoClosure ==
    {"sched", "out", "ready", "set_head", "set_exc", "set_tail", "set_busy",
     "install"}
Synced == {"d_busy", "d_set", "x_busy", "x_clear"}
Waiting == {"sched", "out", "ready", "set_head"}
AtTop ==
    {"s_busy", "s_cl", "s_do", "r_busy", "r_cl", "r_set", "r_call", "r_done",
     "d_busy", "d_set", "x_busy", "x_clear"}

(* Who holds a lock is determined by the program counters.                 *)
LockInv ==
    /\ \A t \in Thieves : busyOwner = t <=> tpc[t] \in ThiefHoldsBusy
    /\ busyOwner = Victim <=> vpc \in VictimHoldsBusy
    /\ busyOwner # Returner
    /\ \A t \in Thieves : clOwner = t <=> tpc[t] \in ThiefHoldsClosure
    /\ clOwner = Victim <=> vpc \in VictimHoldsClosure
    /\ clOwner = Returner => kids > 0 /\ busy \in {"running", "suspended"}

(* What busy[victim] holds is determined by the program counters, and a    *)
(* thief that found a closure there keeps the victim out of the runtime.   *)
BusyInv ==
    /\ busy # "ready"
    /\ busy = "suspended" <=> vpc = "r_call"
    /\ busy = "returning" <=> vpc = "to_rts"
    /\ busy = "none" <=>
         \/ vpc \in NoClosure
         \/ \E t \in Thieves : tpc[t] \in {"publish", "set_child"}
    /\ vpc \in Synced => kids = 0
    /\ \A t \in Thieves :
         tpc[t] \in ThiefHasClosure => vpc \in Unlocked

(* Dekker: exc is ahead of head exactly while a thief decides, and a thief *)
(* that won at the last entry has the victim caught on the way to the      *)
(* runtime.                                                                *)
PointerInv ==
    /\ vpc \notin {"set_exc", "set_tail"} =>
         exc = IF \E t \in Thieves : tpc[t] \in ExcRaised
               THEN head + 1 ELSE head
    /\ vpc \in {"user", "push", "h_false"} => head <= tail
    /\ vpc \in AtTop \cup {"set_busy", "install"} => head = tail
    /\ Popping => head <= tail + 1
    /\ vpc = "set_exc" => head = 0
    /\ vpc = "set_tail" => head = 0 /\ exc = 0
    /\ vpc \in {"to_rts", "set_exc", "set_tail"} \cup Waiting \/ tail < DequeLimit
    /\ vpc \in {"to_rts"} \cup Waiting => head >= tail
    /\ vpc = "push" => tail + 1 < DequeLimit /\ spawned < MaxSpawns
    /\ \A t \in Thieves :
         Winning(t) => /\ hd[t] = head
                       /\ head < tail \/ (head = tail /\ vpc \in {"left", "h_busy"})

(* The entries whose continuation nobody has resumed.                      *)
Live ==
    IF vpc \in NoClosure \cup {"to_rts"} THEN {}
    ELSE IF Popping THEN head .. tail
    ELSE head .. tail - 1

(* Each continuation is either resumed once or at exactly one live entry.  *)
ContInv ==
    /\ \A i \in Live : shadow[i] \in 1 .. spawned /\ resumed[shadow[i]] = 0
    /\ \A i, j \in Live : shadow[i] = shadow[j] => i = j
    /\ \A c \in Conts : resumed[c] <= 1
    /\ \A c \in Conts : c > spawned => resumed[c] = 0
    /\ \A c \in 1 .. spawned : resumed[c] = 1 \/ \E i \in Live : shadow[i] = c
    /\ vpc = "push" => shadow[tail] = spawned + 1

IndInv == TypeOK /\ LockInv /\ BusyInv /\ PointerInv /\ ContInv
=============================================================================
