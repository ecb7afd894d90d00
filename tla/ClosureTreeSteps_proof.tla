---------------------- MODULE ClosureTreeSteps_proof ------------------------
(***************************************************************************)
(* The inductive invariant of ClosureTree, and the part of the proof that  *)
(* concerns steps that move no frame from one closure to another.          *)
(* ClosureTree_proof has the other steps and the theorems.                 *)
(*                                                                         *)
(* The invariant speaks of the stack of each closure: the active frames    *)
(* that belong to it, its own frame and those that were entered from       *)
(* there. Neither the code nor the model has a variable for it. The owner  *)
(* of each frame and the order in which closures were created are          *)
(* parameters of the invariant instead, and a proof that a step keeps it   *)
(* names the new ones.                                                     *)
(***************************************************************************)
EXTENDS ClosureTree, FiniteSetTheorems, WellFoundedInduction, TLAPS

(***************************************************************************)
(* The types of the state, record by record.                               *)
(***************************************************************************)

(* A fiber, or none.                                                       *)
Fib == Fibers \cup {Null}
ClosureFields ==
    {"status", "frame", "fiber", "fiberChild", "join", "orig", "callParent",
     "spawnParent", "leftSib", "rightSib", "rightMost", "rightHt", "childHt",
     "userHt", "excPending", "lock"}
WorkerFields ==
    {"pc", "cur", "fib", "cl", "vic", "frm", "why", "ht", "lht", "rht"}

(* A reducer table with the view of the exception reducer in it.           *)
TableOK(h) ==
    /\ DOMAIN h = {"made", "ups", "view"}
    /\ DOMAIN h.view = {"here", "exn", "rsp", "fiber"}
    /\ h.view.rsp \in Fib /\ h.view.fiber \in Fib

(* The record of a closure; one that is free has every field reset.        *)
ClosureOK(r) ==
    /\ DOMAIN r = ClosureFields
    /\ r.status \in {"invalid", "running", "suspended", "returning"}
    /\ r.frame \in Frames \cup {Null}
    /\ r.fiber \in Fib /\ r.fiberChild \in Fib /\ r.orig \in Fib
    /\ r.callParent \in Closures \cup {Null} /\ r.spawnParent \in Closures \cup {Null}
    /\ r.leftSib \in Closures \cup {Null} /\ r.rightSib \in Closures \cup {Null}
    /\ r.rightMost \in Closures \cup {Null}
    /\ TableOK(r.rightHt) /\ TableOK(r.childHt) /\ TableOK(r.userHt)
    /\ r.lock \in Workers \cup {Null}
    /\ r.status = "invalid" => r = FreeClosure

(* The record of a worker.                                                 *)
WorkerOK(r) ==
    /\ DOMAIN r = WorkerFields
    /\ r.pc \in WorkerPc /\ r.why \in {"stolen", "synced", "reduce"}
    /\ r.cur \in Frames \cup {Null} /\ r.frm \in Frames \cup {Null}
    /\ r.fib \in Fib /\ r.cl \in Closures \cup {Null} /\ r.vic \in Workers \cup {Null}
    /\ TableOK(r.ht) /\ TableOK(r.lht) /\ TableOK(r.rht)

(* What there is to know of each frame of the program.                     *)
FrameTypes ==
    /\ prog \in Programs
    /\ at \in [Frames -> Nat] /\ home \in [Frames -> Fib]
    /\ DOMAIN caught = Frames
    /\ DOMAIN unw = Frames
    /\ \A f \in Frames : DOMAIN unw[f] = {"exn", "sp"} /\ unw[f].sp \in Fib
    /\ stolen \subseteq Frames /\ unsynced \subseteq Frames /\ pending \subseteq stolen

ClosureTypes == DOMAIN cl = Closures /\ \A c \in Closures : ClosureOK(cl[c])
WorkerTypes == DOMAIN wk = Workers /\ \A w \in Workers : WorkerOK(wk[w])
LockTypes ==
    /\ busy \in [Workers -> Closures \cup {Null}]
    /\ busyLock \in [Workers -> Workers \cup {Null}]
    /\ dq \in [Workers -> Seq(Frames)]
PoolTypes ==
    /\ freeFibers \in [Workers \cup {Null} -> SUBSET Fibers]
    /\ done \in BOOLEAN

(***************************************************************************)
(* Places in the code: of workers without a closure of their own, of those *)
(* that hold their own busy lock, of those that carry a closure from one   *)
(* critical section to the next, of those that execute a frame.            *)
(***************************************************************************)

Idling == {"install", "return", "return2", "steal", "peek", "promote", "unbusy",
           "finish", "idle"}
Locked == {"sync", "set_return", "set_return2", "handler", "save"}
Carrying == {"install", "return", "return2", "unbusy", "finish", "set_return2"}
Executing == {"user", "helper", "unwind", "save", "throwing", "leave", "landing",
              "check", "sync", "synced", "set_return", "handler", "exit"}
AtFrame(w) == wk[w].pc \in Executing \/ (wk[w].pc = "reduce" /\ wk[w].why = "synced")

(* What follows from the place in the code where worker w is: whether it   *)
(* has a closure of its own, which locks it holds, what it carries from    *)
(* one critical section to the next.                                       *)
Duty(w) ==
    /\ busy[w] = Null <=> wk[w].pc \in Idling
    /\ busy[w] = Null => dq[w] = <<>>
    /\ wk[w].pc \in Locked => busyLock[w] = w
    /\ wk[w].pc \in {"peek", "promote", "unbusy"} =>
         wk[w].vic \in Workers /\ wk[w].vic # w /\ busyLock[wk[w].vic] = w
    /\ wk[w].pc = "promote" =>
         /\ wk[w].cl # Null /\ wk[w].cl = busy[wk[w].vic] /\ wk[w].frm # Null
         /\ wk[wk[w].vic].pc # "synced"
    /\ wk[w].pc \in Carrying => wk[w].cl # Null
    /\ wk[w].pc \in {"synced", "handler"} => dq[w] = <<>>
    /\ wk[w].pc = "synced" => wk[w].cl = busy[w]
    /\ wk[w].pc = "set_return2" => busy[w] = cl[wk[w].cl].callParent
    /\ wk[w].pc = "reduce" => wk[w].why \in {"synced", "reduce"}
Duties == \A w \in Workers : Duty(w)

(***************************************************************************)
(* Each closure is in the hands of one worker at most: its busy closure,   *)
(* or one it carries.                                                      *)
(***************************************************************************)

Carries(w, t) == wk[w].pc \in Carrying /\ wk[w].cl = t
Holds(w, t) == busy[w] = t \/ Carries(w, t)
Unique ==
    \A t \in Closures : \A v, w \in Workers : Holds(v, t) /\ Holds(w, t) => v = w

(* The status of a closure follows from who has it in its hands and where  *)
(* in the code that worker is.                                             *)
Held(w) ==
    \A t \in Closures :
        /\ busy[w] = t => cl[t].status =
              IF wk[w].pc = "set_return2" THEN "suspended" ELSE "running"
        /\ Carries(w, t) => cl[t].status =
              IF wk[w].pc \in {"return", "return2"} THEN "returning" ELSE "running"
Holding == Unique /\ \A w \in Workers : Held(w)

(***************************************************************************)
(* The tree of closures.                                                   *)
(***************************************************************************)

(* Who has a spawn parent has no call parent; a call parent is suspended   *)
(* and has called one closure only.                                        *)
Parents ==
    /\ \A c \in Alive : cl[c].spawnParent # Null =>
         cl[c].spawnParent \in Alive /\ cl[c].callParent = Null
    /\ \A c \in Alive : cl[c].callParent # Null =>
         cl[c].callParent \in Closures /\ cl[cl[c].callParent].status = "suspended"
    /\ \A c, d \in Alive :
         cl[c].callParent # Null /\ cl[c].callParent = cl[d].callParent => c = d

(* rk numbers closures in the order of their creation, which is the order  *)
(* of the sibling list: leftSib is the next older child of p, rightSib the *)
(* next younger.                                                           *)
Sibling(rk, p, c) ==
    /\ cl[c].leftSib = Null => \A d \in SpawnedBy(p) : rk[c] <= rk[d]
    /\ cl[c].leftSib # Null =>
         /\ cl[c].leftSib \in SpawnedBy(p) /\ rk[cl[c].leftSib] < rk[c]
         /\ \A d \in SpawnedBy(p) : rk[d] < rk[c] => rk[d] <= rk[cl[c].leftSib]
    /\ cl[c].rightSib = Null => \A d \in SpawnedBy(p) : rk[d] <= rk[c]
    /\ cl[c].rightSib # Null =>
         /\ cl[c].rightSib \in SpawnedBy(p) /\ rk[c] < rk[cl[c].rightSib]
         /\ \A d \in SpawnedBy(p) : rk[c] < rk[d] => rk[cl[c].rightSib] <= rk[d]

(* right_most_child is the youngest child.                                 *)
RightMost(rk, p) ==
    /\ cl[p].rightMost = Null <=> SpawnedBy(p) = {}
    /\ cl[p].rightMost # Null =>
         cl[p].rightMost \in SpawnedBy(p)
         /\ \A d \in SpawnedBy(p) : rk[d] <= rk[cl[p].rightMost]
Siblings(rk) ==
    \A p \in Alive : RightMost(rk, p) /\ \A c \in SpawnedBy(p) : Sibling(rk, p, c)

(* No two closures in use have the same rank, and n is greater than all    *)
(* ranks.                                                                  *)
Ranked(rk, n) ==
    /\ n \in Nat /\ \A c \in Closures : rk[c] \in Nat /\ rk[c] < n
    /\ \A c, d \in Alive : rk[c] = rk[d] => c = d

(* The join counter counts the children and the called closure.            *)
Joins ==
    \A p \in Alive :
        cl[p].join = Cardinality(SpawnedBy(p)) + Cardinality(CalledBy(p))

(***************************************************************************)
(* The stacks of the closures.                                             *)
(***************************************************************************)

(* o[f] is the closure whose stack frame f is on.  f is inner when its     *)
(* parent is on the same stack.                                            *)
Inner(o, f) == f # Root /\ o[f] # Null /\ o[prog.parent[f]] = o[f]

(* The frames of the stack of t that have spawned what is above them:      *)
(* their continuations are what the deque of its worker holds.             *)
LinksTo(o, t, f, g) ==
    o[g] = t /\ Inner(o, g) /\ prog.kind[g] # "call" /\ prog.parent[g] = f
Links(o, t) == {f \in Frames : \E g \in Frames : LinksTo(o, t, f, g)}

(* A worker that is in the spawn helper of its frame, the frame itself     *)
(* being done.                                                             *)
Helping(w) == \/ wk[w].pc \in {"helper", "handler"}
              \/ wk[w].pc = "landing" /\ ~HasHandler(wk[w].cur)

(* Between the two halves of __cilkrts_set_return.                         *)
Swapped(t) == \E w \in Workers : wk[w].pc = "set_return2" /\ wk[w].cl = t

(* The closure t was made when the parent of frame f was promoted.         *)
SpawnedFrom(t, f) == cl[t].spawnParent # Null /\ cl[cl[t].spawnParent].frame = prog.parent[f]

(* What the stack of a closure consists of: one frame, none, or frames up  *)
(* to f.                                                                   *)
Only(o, t, f) == f \in Frames /\ \A g \in Frames : o[g] = t <=> g = f
Bare(o, t) == cl[t].frame = Null /\ \A g \in Frames : o[g] # t
TopOf(o, t, f) == f \in Frames /\ o[f] = t /\ \A g \in Frames : o[g] = t => g <= f

(* Frame f returns to closure p: as a called frame, to the top of the      *)
(* stack of p; as a spawned one whose helper called it, to a p that holds  *)
(* the helper alone.                                                       *)
CalledFrom(o, p, f) ==
    /\ p # Null
    /\ prog.kind[f] = "call" => TopOf(o, p, prog.parent[f])
    /\ prog.kind[f] # "call" =>
         prog.kind[f] = "spawn" /\ Bare(o, p) /\ SpawnedFrom(p, f)

(* A frame that has a home stack is on the stack of a closure in use.      *)
Owned(o) ==
    /\ \A f \in Frames : o[f] # Null => o[f] \in Alive
    /\ \A f \in Frames : home[f] # Null => o[f] # Null

(* The frames of one stack are a chain of parents.                         *)
Chained(o) ==
    \A f, g \in Frames : o[f] # Null /\ o[f] = o[g] /\ f < g =>
        o[prog.parent[g]] = o[g] /\ f <= prog.parent[g]

(* The frame at the bottom of a stack is the frame of the closure, or the  *)
(* closure has no frame yet and the bottom is what its spawn parent        *)
(* spawned.                                                                *)
Bottom(o, f) ==
    \/ f = cl[o[f]].frame
    \/ cl[o[f]].frame = Null /\ Swapped(o[f])
    \/ cl[o[f]].frame = Null /\ prog.kind[f] \in {"spawn", "expr"} /\ SpawnedFrom(o[f], f)
Bottoms(o) == \A f \in Frames : o[f] # Null /\ ~Inner(o, f) => Bottom(o, f)
Stacks(o) == Owned(o) /\ Chained(o) /\ Bottoms(o)

(* What the frame of a closure is: stolen, at the bottom, and called or    *)
(* spawned from where the closure's parents say.                           *)
Based(o, t, f) ==
    /\ o[f] = t /\ ~Inner(o, f) /\ f \in stolen
    /\ f = Root => cl[t].callParent = Null /\ cl[t].spawnParent = Null
    /\ prog.kind[f] = "expr" => SpawnedFrom(t, f)
    /\ f # Root /\ prog.kind[f] # "expr" => CalledFrom(o, cl[t].callParent, f)
Base(o, t) ==
    /\ cl[t].frame # Null => Based(o, t, cl[t].frame)
    /\ cl[t].frame = Null => cl[t].spawnParent # Null \/ Swapped(t)

(* A frame that is marked stolen and still on a stack is the frame of its  *)
(* closure, or is just being left.                                         *)
Stolen(o, f) ==
    \/ cl[o[f]].frame = f
    \/ \E w \in Workers : wk[w].pc = "set_return2" /\ wk[w].cl = o[f] /\ wk[w].cur = f
    \/ \E w \in Workers : busy[w] = o[f] /\ wk[w].cur = f /\ Helping(w)
Promoting(t) == \E w \in Workers : wk[w].pc \in {"unbusy", "finish"} /\ wk[w].cl = t

(* A closure with children has an unsynced frame, or is just being         *)
(* promoted.                                                               *)
Spawning(t) == cl[t].frame # Null /\ (cl[t].frame \in unsynced \/ Promoting(t))

(* The frames of closures, the frames marked stolen or unsynced, and the   *)
(* closures that have children.                                            *)
Bases(o) ==
    /\ \A t \in Alive : Base(o, t)
    /\ \A f \in stolen : o[f] # Null => Stolen(o, f)
    /\ \A f \in unsynced : f \in stolen /\ o[f] # Null /\ cl[o[f]].frame = f
    /\ \A t \in Alive : SpawnedBy(t) # {} => Spawning(t)

(* The frame a worker executes is the top of the stack of its closure;     *)
(* other places in the code have a stack of one frame or of none.          *)
Top(o, w) ==
    /\ AtFrame(w) => TopOf(o, busy[w], wk[w].cur)
    /\ wk[w].pc = "set_return2" =>
         /\ Only(o, wk[w].cl, wk[w].cur) /\ cl[wk[w].cl].frame = Null
         /\ CalledFrom(o, busy[w], wk[w].cur)
    /\ wk[w].pc = "install" /\ wk[w].why = "reduce" => Bare(o, wk[w].cl)
    /\ wk[w].pc = "install" /\ wk[w].why # "reduce" => Only(o, wk[w].cl, cl[wk[w].cl].frame)
    /\ wk[w].pc = "reduce" /\ wk[w].why = "reduce" => Bare(o, busy[w])
    /\ wk[w].pc \in {"return", "return2"} => Bare(o, wk[w].cl)
    /\ wk[w].pc \in {"unbusy", "finish"} =>
         cl[wk[w].cl].frame = wk[w].frm /\ Only(o, wk[w].cl, wk[w].frm)

(* A closure that is suspended at a sync, rather than in a call.           *)
Waiting(t) == cl[t].status = "suspended" /\ CalledBy(t) = {}
Tops(o) ==
    /\ \A w \in Workers : Top(o, w)
    /\ \A t \in Alive : Waiting(t) => Only(o, t, cl[t].frame)

(* A thief has taken frame f off the deque of v and not promoted it yet.   *)
Taken(v, f) == \E w \in Workers : wk[w].pc = "promote" /\ wk[w].vic = v /\ wk[w].frm = f

(* The deque of a worker holds, oldest first, the frames of its stack that *)
(* have spawned what is above them; one a thief has just taken is older    *)
(* than those.                                                             *)
Deque(o, w) ==
    /\ busy[w] # Null => \A f \in Frames :
         f \in Links(o, busy[w]) <=> f \in ToSet(dq[w]) \/ Taken(w, f)
    /\ \A i, j \in DOMAIN dq[w] : i < j => dq[w][i] < dq[w][j]
    /\ \A f \in Frames : Taken(w, f) => \A x \in ToSet(dq[w]) : f < x
Deques(o) ==
    /\ \A w \in Workers : Deque(o, w)
    /\ \A t \in Closures : (\A w \in Workers : busy[w] # t) => Links(o, t) = {}

(* Frame f has a sync to come.                                             *)
SyncAhead(f) == \E j \in at[f] .. Len(Code(f)) : Code(f)[j].op = "sync"

Entered(f, i) == Code(f)[i].op \in {"spawn", "call"}

(* The frames that f has still to spawn or call are on no stack and not    *)
(* stolen.                                                                 *)
Ahead(o, f) ==
    \A i \in at[f] .. Len(Code(f)) : Entered(f, i) =>
         o[Code(f)[i].arg] = Null /\ Code(f)[i].arg \notin stolen

(* A frame that may have children, or has left a continuation in a deque,  *)
(* has a sync to come.                                                     *)
Positions(o) ==
    /\ \A f \in Frames : at[f] \in 1 .. Len(Code(f)) + 1 /\ Ahead(o, f)
    /\ \A f \in unsynced : SyncAhead(f)
    /\ \A f \in Frames : o[f] # Null /\ f \in Links(o, o[f]) => SyncAhead(f)
    /\ \A w \in Workers : wk[w].pc \in {"unbusy", "finish"} => SyncAhead(wk[w].frm)

BeforeSync == {"sync", "save", "throwing"}
AfterSync == {"synced", "check", "leave", "set_return", "set_return2", "helper",
              "handler", "landing", "exit"}

(* A frame that waits at a sync stands at the instruction, or is being     *)
(* unwound.                                                                *)
Stopped(f) == unw[f].exn = Null => at[f] <= Len(Code(f))
Reducing(w) == wk[w].pc = "reduce" /\ wk[w].why = "synced"
Resuming(w) == wk[w].pc = "install" /\ wk[w].why = "synced"

(* What follows from the place in the code of a worker about its frame:    *)
(* synced or not, being unwound or not, of which kind.                     *)
Point(w) ==
    /\ wk[w].pc \in BeforeSync => wk[w].cur \in unsynced
    /\ wk[w].pc \in AfterSync \/ Reducing(w) => wk[w].cur \notin unsynced
    /\ wk[w].pc \in {"leave", "set_return", "set_return2"} =>
         wk[w].cur # Root /\ prog.kind[wk[w].cur] # "expr" /\ ~HasHandler(wk[w].cur)
    /\ wk[w].pc \in {"set_return", "set_return2"} => wk[w].cur \in stolen
    /\ Helping(w) => prog.kind[wk[w].cur] \in {"spawn", "expr"}
                     /\ (cl[busy[w]].frame = wk[w].cur => prog.kind[wk[w].cur] = "expr")
    /\ wk[w].pc \in {"unwind", "save", "throwing"} => unw[wk[w].cur].exn # Null
    /\ wk[w].pc \in {"sync", "synced"} \/ Reducing(w) => Stopped(wk[w].cur)
    /\ wk[w].pc = "check" => at[wk[w].cur] <= Len(Code(wk[w].cur))
    /\ wk[w].pc = "exit" => wk[w].cur = Root
    /\ Resuming(w) => cl[wk[w].cl].frame \notin unsynced /\ Stopped(cl[wk[w].cl].frame)
Points ==
    /\ \A w \in Workers : Point(w)
    /\ \A t \in Alive : Waiting(t) => Stopped(cl[t].frame)

(***************************************************************************)
(* The invariant.                                                          *)
(***************************************************************************)

Types == FrameTypes /\ ClosureTypes /\ WorkerTypes /\ LockTypes /\ PoolTypes
Ghosts(o, rk) == o \in [Frames -> Closures \cup {Null}] /\ rk \in [Closures -> Nat]
Control == Types /\ Duties /\ Holding
Tree(rk, n) == Parents /\ Siblings(rk) /\ Ranked(rk, n) /\ Joins

(* The inductive invariant.  The owner o of each frame, the rank rk of     *)
(* each closure and the number n of ranks given out are not variables of   *)
(* the model; the invariant says that there are some that fit.             *)
Good(o, rk, n) ==
    /\ Control /\ Ghosts(o, rk) /\ Tree(rk, n)
    /\ Stacks(o) /\ Bases(o) /\ Tops(o) /\ Deques(o) /\ Positions(o) /\ Points

(***************************************************************************)
(* Vocabulary for steps.                                                   *)
(***************************************************************************)

(* What a step does to the control state of worker x: nothing.             *)
Still(x) ==
    /\ wk'[x].pc = wk[x].pc /\ wk'[x].cur = wk[x].cur /\ wk'[x].cl = wk[x].cl
    /\ wk'[x].vic = wk[x].vic /\ wk'[x].frm = wk[x].frm /\ wk'[x].why = wk[x].why
Others(w) == \A x \in Workers : x # w => Still(x)

(* The control state of worker w after a step, the others' staying as it   *)
(* is.                                                                     *)
Moves(w, pc, cur, c, vic, frm, why) ==
    /\ Others(w)
    /\ wk'[w].pc = pc /\ wk'[w].cur = cur /\ wk'[w].cl = c
    /\ wk'[w].vic = vic /\ wk'[w].frm = frm /\ wk'[w].why = why
Goes(w, pc) == Moves(w, pc, wk[w].cur, wk[w].cl, wk[w].vic, wk[w].frm, wk[w].why)

(* The place of closure c in the tree after a step.                        *)
Node(c, st, fr, jn, cp, sp, ls, rs, rm) ==
    /\ cl'[c].status = st /\ cl'[c].frame = fr /\ cl'[c].join = jn
    /\ cl'[c].callParent = cp /\ cl'[c].spawnParent = sp
    /\ cl'[c].leftSib = ls /\ cl'[c].rightSib = rs /\ cl'[c].rightMost = rm
Kept(c) ==
    Node(c, cl[c].status, cl[c].frame, cl[c].join, cl[c].callParent,
         cl[c].spawnParent, cl[c].leftSib, cl[c].rightSib, cl[c].rightMost)
SameTree == \A c \in Closures : Kept(c)

(* The tree, the stacks, and who has which closure stay.                   *)
SameStacks ==
    /\ SameTree /\ prog' = prog /\ home' = home /\ stolen' = stolen
    /\ unsynced' = unsynced /\ busy' = busy /\ dq' = dq

(***************************************************************************)
(* Programs.                                                               *)
(***************************************************************************)

(* A program has frames numbered from the root, callers before what they   *)
(* call.                                                                   *)
LEMMA ProgramFrames ==
    ASSUME prog \in Programs
    PROVE  /\ Frames = 1 .. Len(prog.code) /\ Root \in Frames /\ Frames \subseteq Nat \ {0}
           /\ Null \notin Frames
           /\ prog.kind[Root] = "root"
           /\ \A f \in Frames : Len(Code(f)) \in Nat /\ prog.handler[f] \in 0 .. Len(Code(f)) + 1
           /\ \A f \in Frames : f # Root => prog.kind[f] \in {"spawn", "expr", "call"}
           /\ \A f \in Frames : f # Root => prog.parent[f] \in Frames /\ prog.parent[f] < f
<1>1. WellFormed(prog)
  BY ProgramsAssumption
<1>2. /\ Frames = 1 .. Len(prog.code) /\ Len(prog.code) \in Nat \ {0} /\ Root = 1
      /\ Null = 0
      /\ prog.kind[Root] = "root"
  BY <1>1 DEF WellFormed, Frames, Root, Null
<1>3. Root \in Frames /\ Frames \subseteq Nat \ {0} /\ Null \notin Frames
  BY <1>2
<1>4. \A f \in Frames : Len(Code(f)) \in Nat /\ prog.handler[f] \in 0 .. Len(Code(f)) + 1
  BY <1>1, <1>2 DEF WellFormed, Code
<1>5. \A f \in Frames : f # Root => prog.kind[f] \in {"spawn", "expr", "call"} /\ prog.parent[f] \in 1 .. f - 1
  BY <1>1, <1>2 DEF WellFormed
<1>6. \A f \in Frames : f # Root => prog.parent[f] \in Frames /\ prog.parent[f] < f
  BY <1>2, <1>3, <1>5
<1> QED BY <1>2, <1>3, <1>4, <1>5, <1>6

(* Each frame is spawned or called by one instruction, of its parent.      *)
LEMMA ProgramEntries ==
    ASSUME prog \in Programs, NEW f \in Frames, NEW i \in 1 .. Len(Code(f)),
           Entered(f, i)
    PROVE  LET g == Code(f)[i].arg
           IN  /\ g \in Frames /\ g # Root /\ prog.parent[g] = f /\ f < g
               /\ prog.kind[g] = "call" <=> Code(f)[i].op = "call"
               /\ \A j \in 1 .. Len(Code(f)) : Entered(f, j) /\ Code(f)[j].arg = g => j = i
<1>1. WellFormed(prog)
  BY ProgramsAssumption
<1>2. Frames = 1 .. Len(prog.code)
  BY ProgramFrames
<1>3. LET g == Code(f)[i].arg
           IN  /\ g \in Frames /\ g # Root /\ prog.parent[g] = f
               /\ prog.kind[g] = "call" <=> Code(f)[i].op = "call"
               /\ \A j \in 1 .. Len(Code(f)) : Entered(f, j) /\ Code(f)[j].arg = g => j = i
  BY <1>1, <1>2 DEF WellFormed, Code, Entered
<1> QED BY <1>3, ProgramFrames

(* What a throw names is an exception; a spawn has a sync after it.        *)
LEMMA ProgramSyncs ==
    ASSUME prog \in Programs, NEW f \in Frames, NEW i \in 1 .. Len(Code(f))
    PROVE  /\ Code(f)[i].op = "throw" => Code(f)[i].arg # Null
           /\ Code(f)[i].op = "spawn" =>
                \E j \in 1 .. Len(Code(f)) : j > i /\ Code(f)[j].op = "sync"
<1>1. WellFormed(prog)
  BY ProgramsAssumption
<1>2. Frames = 1 .. Len(prog.code)
  BY ProgramFrames
<1> QED BY <1>1, <1>2 DEF WellFormed, Code

(* A set of numbers that is not empty has a least one.                     *)
LEMMA LeastElement ==
    ASSUME NEW S \in SUBSET Nat, S # {}
    PROVE  (CHOOSE x \in S : \A y \in S : x <= y) \in S
<1>2. PICK m \in S : \A y \in S : ~(<<y, m>> \in OpToRel(<, Nat))
  BY NatLessThanWellFounded, WFMin, Zenon
<1>3. \A y \in S : ~(y < m)
  BY <1>2 DEF OpToRel
<1>4. \A y \in S : m <= y
  BY <1>3
<1> QED BY <1>4

(***************************************************************************)
(* What each action does to the control state.  Each lemma gives the new   *)
(* values of the parts of the state that the invariant speaks of, and      *)
(* shows that types are kept; the reducer tables and the fibers, of which  *)
(* the invariant has the types only, drop out here.                        *)
(***************************************************************************)

(* No fiber is a fiber or none, and the empty table is a table.            *)
LEMMA NullTyped == Null \in Fib /\ NoHt.made = FALSE /\ TableOK(NoHt)
  BY DEF Fib, NoHt, NoView, TableOK

(* A closure that is free is a closure.                                    *)
LEMMA FreeClosureTyped == ClosureOK(FreeClosure)
<1>1. TableOK(NoHt) /\ Null \in Fib
  BY NullTyped
<1> QED BY <1>1 DEF ClosureOK, FreeClosure, ClosureFields

(* Merging two tables gives a table and frees fibers.                      *)
LEMMA MergedTyped ==
    ASSUME NEW l, NEW r, TableOK(l), TableOK(r)
    PROVE  TableOK(Merged(l, r)) /\ Freed(l, r) \subseteq Fibers
<1>1. MergedView(l, r).fiber \in Fib /\ MergedView(l, r).rsp \in Fib
      /\ DOMAIN MergedView(l, r) = {"here", "exn", "rsp", "fiber"}
  BY DEF MergedView, reduce, TableOK
<1> QED BY <1>1 DEF Merged, Freed, TableOK, Fib

(* A table stays one when it gets an exception.                            *)
LEMMA WithExceptionTyped ==
    ASSUME NEW h, NEW e, TableOK(h)
    PROVE  TableOK(WithException(h, e))
  BY DEF WithException, TableOK

(* Pools stay pools when fibers are given back.                            *)
LEMMA ReleasedTyped ==
    ASSUME PoolTypes, NEW w \in Workers, NEW xs \in SUBSET Fib,
           freeFibers' = Released(w, xs),
           done' \in BOOLEAN
    PROVE  PoolTypes'
  BY DEF PoolTypes, Released, Fib

(* When one worker's record changes, the others' stay.                     *)
LEMMA WorkerChanges ==
    ASSUME WorkerTypes, NEW w \in Workers, NEW r, WorkerOK(r), prog' = prog,
           wk' = [wk EXCEPT ![w] = r]
    PROVE  WorkerTypes' /\ wk'[w] = r /\ \A x \in Workers : x # w => wk'[x] = wk[x]
  BY DEF WorkerTypes, WorkerOK, Frames

(* What a step leaves alone keeps its type.                                *)
LEMMA TypesKept ==
    /\ UNCHANGED <<prog, cl>> /\ ClosureTypes => ClosureTypes'
    /\ UNCHANGED <<prog, wk>> /\ WorkerTypes => WorkerTypes'
    /\ UNCHANGED <<prog, busy, busyLock, dq>> /\ LockTypes => LockTypes'
    /\ UNCHANGED <<freeFibers, done>> /\ PoolTypes => PoolTypes'
    /\ UNCHANGED fvars /\ FrameTypes => FrameTypes'
<1>1. prog' = prog => Frames' = Frames
  BY DEF Frames
<1> QED
  BY <1>1
     DEF ClosureTypes, WorkerTypes, LockTypes, PoolTypes, FrameTypes, fvars,
         evars,
                ClosureOK, WorkerOK

(* Closures that are each of the right form are so together.               *)
LEMMA ClosuresTyped ==
    ASSUME prog' = prog, DOMAIN cl' = Closures, \A c \in Closures : ClosureOK(cl'[c])
    PROVE  ClosureTypes'
  BY DEF ClosureTypes, ClosureOK, Frames

(* Workers that are each of the right form are so together.                *)
LEMMA WorkersTyped ==
    ASSUME prog' = prog, DOMAIN wk' = Workers, \A w \in Workers : WorkerOK(wk'[w])
    PROVE  WorkerTypes'
  BY DEF WorkerTypes, WorkerOK, Frames

(* What an update of a reducer does: the frame is one instruction further. *)
LEMMA UpdateStep ==
    ASSUME Types, NEW w \in Workers, Cur(w) \in Frames, Update(w)
    PROVE  /\ Types' /\ SameStacks /\ Goes(w, "user") /\ busyLock' = busyLock
           /\ at' = [at EXCEPT ![Cur(w)] = @ + 1] /\ unw' = unw
<1>1. FrameTypes' /\ Frames' = Frames
  BY DEF Update, Step, Types, FrameTypes, evars, Frames
<1>2. WorkerTypes'
  BY <1>1 DEF Update, Types, WorkerTypes, WorkerOK, TableOK, WorkerFields
<1>3. Goes(w, "user")
  BY
     DEF Update, Executes, Types, WorkerTypes, WorkerOK, WorkerFields, Goes,
         Moves, Others, Still
<1>4. ClosureTypes' /\ LockTypes' /\ PoolTypes'
  BY TypesKept DEF Update, Types
<1> QED
  BY <1>1, <1>2, <1>3, <1>4
     DEF Types, Update, SameStacks, SameTree, Kept, Node, Step, evars

(* What sync_in_personality does first: it saves the exception and the     *)
(* fiber and lets go of the busy lock.                                     *)
LEMMA UnwindSaveStep ==
    ASSUME Types, NEW w \in Workers, busy[w] \in Closures,
           cl[busy[w]].status # "invalid",
           UnwindSave(w)
    PROVE  /\ Types' /\ SameStacks /\ Goes(w, "throwing")
           /\ busyLock' = [busyLock EXCEPT ![w] = Null] /\ at' = at /\ unw' = unw
<1>1. FrameTypes' /\ Frames' = Frames
  BY TypesKept DEF UnwindSave, Types, fvars, Frames
<1>2. TableOK(wk'[w].ht)
  <2> DEFINE mine == WithException(wk[w].ht, unw[Cur(w)].exn)
  <2>1. TableOK(mine) /\ cl[busy[w]].orig \in Fib /\ cl[busy[w]].fiber \in Fib
    BY WithExceptionTyped
       DEF Types, WorkerTypes, WorkerOK, ClosureTypes, ClosureOK
  <2> HIDE DEF mine
  <2>2. wk'[w].ht = [mine EXCEPT !.view.rsp = cl[busy[w]].orig,
                       !.view.fiber = IF KeepsFiber(w) THEN @ ELSE cl[busy[w]].fiber]
    BY DEF UnwindSave, Types, WorkerTypes, WorkerOK, WorkerFields, mine
  <2> DEFINE mid == [mine EXCEPT !.view.rsp = cl[busy[w]].orig]
  <2>3. TableOK(mid)
    BY <2>1 DEF TableOK
  <2>4. wk'[w].ht = [mid EXCEPT !.view.fiber = IF KeepsFiber(w) THEN mid.view.fiber ELSE cl[busy[w]].fiber]
    BY <2>1, <2>2 DEF TableOK
  <2> HIDE DEF mid
  <2>5. (IF KeepsFiber(w) THEN mid.view.fiber ELSE cl[busy[w]].fiber) \in Fib
    BY <2>1, <2>3 DEF TableOK
  <2> QED BY <2>3, <2>4, <2>5 DEF TableOK
<1>3. Goes(w, "throwing")
  BY
     DEF UnwindSave, Types, WorkerTypes, WorkerOK, WorkerFields, Goes, Moves,
         Others, Still
<1>4. WorkerTypes'
  <2>1. /\ DOMAIN wk' = Workers /\ DOMAIN wk'[w] = WorkerFields
        /\ wk'[w].fib = wk[w].fib
        /\ wk'[w].rht = wk[w].rht /\ wk'[w].lht = wk[w].lht
        /\ \A x \in Workers : x # w => wk'[x] = wk[x]
    BY DEF UnwindSave, Types, WorkerTypes, WorkerOK, WorkerFields
  <2>2. WorkerOK(wk'[w])
    BY <1>2, <1>3, <2>1 DEF Types, WorkerTypes, WorkerOK, WorkerPc, Goes, Moves
  <2> QED BY <2>1, <2>2, WorkersTyped DEF UnwindSave, Types, WorkerTypes, fvars
<1>5. ClosureTypes'
  BY <1>1
     DEF UnwindSave, Types, ClosureTypes, ClosureOK, WorkerTypes, WorkerOK, Fib,
         ClosureFields
<1>6. LockTypes' /\ PoolTypes'
  BY <1>1 DEF UnwindSave, Types, LockTypes, PoolTypes, Null
<1>7. SameStacks
  BY
     DEF UnwindSave, Types, ClosureTypes, ClosureOK, ClosureFields, SameStacks,
         SameTree, Kept, Node, fvars
<1> QED BY <1>1, <1>3, <1>4, <1>5, <1>6, <1>7 DEF Types, UnwindSave, fvars, evars

(* What a spawn or a call enters is a child of the current frame.          *)
LEMMA ArgOfEntry ==
    ASSUME Types, NEW w \in Workers, Cur(w) \in Frames,
           at[Cur(w)] \in 1 .. Len(Code(Cur(w))) + 1,
           Executes(w, "spawn") \/ Executes(w, "call")
    PROVE  /\ at[Cur(w)] \in 1 .. Len(Code(Cur(w))) /\ Entered(Cur(w), at[Cur(w)])
           /\ Arg(w) \in Frames /\ Arg(w) # Root /\ prog.parent[Arg(w)] = Cur(w) /\ Cur(w) < Arg(w)
           /\ prog.kind[Arg(w)] = "call" <=> Executes(w, "call")
<1>1. at[Cur(w)] \in 1 .. Len(Code(Cur(w))) /\ Entered(Cur(w), at[Cur(w)])
  <2>1. Len(Code(Cur(w))) \in Nat
    BY ProgramFrames DEF Types, FrameTypes
  <2> QED BY <2>1 DEF Executes, Returns, Entered
<1> QED BY <1>1, ProgramEntries DEF Types, FrameTypes, Arg, Executes, Returns

(* What a spawn does: the spawner's continuation goes to the tail of the   *)
(* deque and its child runs on the same stack.                             *)
LEMMA SpawnStep ==
    ASSUME Types, NEW w \in Workers, Cur(w) \in Frames, Arg(w) \in Frames, Spawn(w)
    PROVE  /\ Types' /\ SameTree /\ UNCHANGED <<prog, stolen, unsynced, unw, busy, busyLock>>
           /\ Moves(w, "user", Arg(w), wk[w].cl, wk[w].vic, wk[w].frm, wk[w].why)
           /\ at' = [at EXCEPT ![Cur(w)] = @ + 1] /\ home' = [home EXCEPT ![Arg(w)] = wk[w].fib]
           /\ dq' = [dq EXCEPT ![w] = Append(@, Cur(w))]
<1>1. FrameTypes' /\ Frames' = Frames
  BY
     DEF Spawn, Step, Enter, Types, FrameTypes, evars, Frames, WorkerTypes,
         WorkerOK
<1>2. WorkerTypes'
  BY <1>1 DEF Spawn, Enter, Types, WorkerTypes, WorkerOK, WorkerFields
<1>3. Moves(w, "user", Arg(w), wk[w].cl, wk[w].vic, wk[w].frm, wk[w].why)
  BY
     DEF Spawn, Enter, Executes, Types, WorkerTypes, WorkerOK, WorkerFields,
         Moves, Others, Still
<1>4. ClosureTypes' /\ PoolTypes'
  BY TypesKept DEF Spawn, Types
<1>5. LockTypes'
  <2>1. Append(dq[w], Cur(w)) \in Seq(Frames)
    BY DEF Types, LockTypes
  <2> QED BY <1>1, <2>1 DEF Spawn, Types, LockTypes
<1> QED
  BY <1>1, <1>2, <1>3, <1>4, <1>5
     DEF Types, Spawn, SameTree, Kept, Node, Step, Enter, evars

(* What a call does: the callee runs on the same stack.                    *)
LEMMA CallStep ==
    ASSUME Types, NEW w \in Workers, Cur(w) \in Frames, Arg(w) \in Frames, Call(w)
    PROVE  /\ Types' /\ SameTree /\ UNCHANGED <<prog, stolen, unsynced, unw, busy, busyLock, dq>>
           /\ Moves(w, "user", Arg(w), wk[w].cl, wk[w].vic, wk[w].frm, wk[w].why)
           /\ at' = [at EXCEPT ![Cur(w)] = @ + 1] /\ home' = [home EXCEPT ![Arg(w)] = wk[w].fib]
<1>1. FrameTypes' /\ Frames' = Frames
  BY
     DEF Call, Step, Enter, Types, FrameTypes, evars, Frames, WorkerTypes,
         WorkerOK
<1>2. WorkerTypes'
  BY <1>1 DEF Call, Enter, Types, WorkerTypes, WorkerOK, WorkerFields
<1>3. Moves(w, "user", Arg(w), wk[w].cl, wk[w].vic, wk[w].frm, wk[w].why)
  BY
     DEF Call, Enter, Executes, Types, WorkerTypes, WorkerOK, WorkerFields,
         Moves, Others, Still
<1>4. ClosureTypes' /\ PoolTypes' /\ LockTypes'
  BY TypesKept DEF Call, Types
<1> QED
  BY <1>1, <1>2, <1>3, <1>4
     DEF Types, Call, SameTree, Kept, Node, Step, Enter, evars

(* What a sync of a frame without stolen children does: nothing.           *)
LEMMA SyncNothingStep ==
    ASSUME Types, NEW w \in Workers, Cur(w) \in Frames, SyncNothing(w)
    PROVE  /\ Types' /\ SameStacks /\ Goes(w, "user") /\ busyLock' = busyLock
           /\ at' = [at EXCEPT ![Cur(w)] = @ + 1] /\ unw' = unw
<1>1. FrameTypes' /\ Frames' = Frames
  BY DEF SyncNothing, Step, Types, FrameTypes, evars, Frames
<1>2. WorkerTypes' /\ ClosureTypes' /\ PoolTypes' /\ LockTypes'
  BY TypesKept DEF SyncNothing, Types
<1> QED
  BY <1>1, <1>2
     DEF SyncNothing, Types, SameStacks, SameTree, Kept, Node, Step, evars,
                     Goes, Moves, Others, Still, Executes

(* What a throw does: the current frame is unwound.                        *)
LEMMA ThrowStep ==
    ASSUME Types, NEW w \in Workers, Cur(w) \in Frames, Throw(w)
    PROVE  /\ Types' /\ SameStacks /\ Goes(w, "unwind") /\ UNCHANGED <<busyLock, at>>
           /\ unw' = [unw EXCEPT ![Cur(w)] = [exn |-> Arg(w), sp |-> wk[w].fib]]
<1>1. FrameTypes' /\ Frames' = Frames
  BY DEF Throw, Types, FrameTypes, Frames, WorkerTypes, WorkerOK
<1>2. WorkerTypes' /\ Goes(w, "unwind")
  BY <1>1
     DEF Throw, Types, WorkerTypes, WorkerOK, WorkerFields, WorkerPc, Goes,
         Moves, Others, Still
<1>3. ClosureTypes' /\ PoolTypes' /\ LockTypes'
  BY TypesKept DEF Throw, Types
<1> QED BY <1>1, <1>2, <1>3 DEF Throw, Types, SameStacks, SameTree, Kept, Node

(* What taking one's own busy lock does.                                   *)
LEMMA LockSelfStep ==
    ASSUME Types, NEW w \in Workers, NEW to \in WorkerPc, LockSelf(w, to)
    PROVE  /\ Types' /\ SameStacks /\ Goes(w, to) /\ UNCHANGED <<at, unw>>
           /\ busyLock[w] = Null /\ busyLock' = [busyLock EXCEPT ![w] = w]
<1>1. FrameTypes' /\ Frames' = Frames
  BY TypesKept DEF LockSelf, Types, fvars, Frames
<1>2. WorkerTypes' /\ Goes(w, to)
  BY <1>1
     DEF LockSelf, Types, WorkerTypes, WorkerOK, WorkerFields, Goes, Moves,
         Others, Still
<1>3. ClosureTypes' /\ PoolTypes'
  BY TypesKept DEF LockSelf, Types, fvars
<1>4. LockTypes'
  BY <1>1 DEF LockSelf, Types, LockTypes
<1> QED
  BY <1>1, <1>2, <1>3, <1>4
     DEF LockSelf, Types, SameStacks, SameTree, Kept, Node, fvars, evars

(* What leaving a frame does: a called frame goes back to its parent, a    *)
(* spawned one on to its helper.                                           *)
LEMMA LeftStep ==
    ASSUME Types, NEW w \in Workers, Cur(w) \in Frames, Cur(w) # Root, prog' = prog,
           UNCHANGED <<at, stolen, unsynced, pending, caught>>, Left(w)
    PROVE  /\ FrameTypes' /\ WorkerTypes' /\ Frames' = Frames
           /\ prog.kind[Cur(w)] = "call" =>
                /\ Moves(w, IF unw[Cur(w)].exn # Null THEN "unwind" ELSE "user",
                         prog.parent[Cur(w)], wk[w].cl, wk[w].vic, wk[w].frm, wk[w].why)
                /\ home' = [home EXCEPT ![Cur(w)] = Null]
                /\ unw' = PassedUp(Cur(w))
           /\ prog.kind[Cur(w)] # "call" =>
                /\ Goes(w, IF unw[Cur(w)].exn # Null THEN "landing" ELSE "helper")
                /\ UNCHANGED <<home, unw>>
<1>1. Frames' = Frames /\ prog.parent[Cur(w)] \in Frames
  BY ProgramFrames DEF Frames, Types, FrameTypes
<1>2. CASE prog.kind[Cur(w)] = "call"
  <2>1. WorkerTypes' /\ Moves(w, IF unw[Cur(w)].exn # Null THEN "unwind" ELSE "user",
                         prog.parent[Cur(w)], wk[w].cl, wk[w].vic, wk[w].frm, wk[w].why)
    <3>1. TableOK([wk[w].ht EXCEPT !.view.rsp = Null])
      BY NullTyped DEF Types, WorkerTypes, WorkerOK, TableOK
    <3>2. wk'[w].ht = [wk[w].ht EXCEPT !.view.rsp = Null]
      BY <1>2 DEF Left, Types, WorkerTypes, WorkerOK, WorkerFields, Cur
    <3>3. TableOK(wk'[w].ht)
      BY <3>1, <3>2
    <3> HIDE <3>1, <3>2
    <3>4. Moves(w, IF unw[Cur(w)].exn # Null THEN "unwind" ELSE "user",
                         prog.parent[Cur(w)], wk[w].cl, wk[w].vic, wk[w].frm, wk[w].why)
      BY <1>2
         DEF Left, Types, WorkerTypes, WorkerOK, WorkerFields, Moves, Others,
             Still
    <3>5. /\ DOMAIN wk' = Workers /\ DOMAIN wk'[w] = WorkerFields
          /\ wk'[w].fib = wk[w].fib
          /\ wk'[w].lht = wk[w].lht /\ wk'[w].rht = wk[w].rht
          /\ \A x \in Workers : x # w => wk'[x] = wk[x]
      BY <1>2 DEF Left, Types, WorkerTypes, WorkerOK, WorkerFields
    <3> QED
      BY <1>1, <3>3, <3>4, <3>5
         DEF Types, WorkerTypes, WorkerOK, Moves, WorkerPc
  <2>2. home' = [home EXCEPT ![Cur(w)] = Null] /\ unw' = PassedUp(Cur(w))
    BY <1>2 DEF Left
  <2>3. FrameTypes'
    BY <1>1, <2>2, NullTyped DEF Types, FrameTypes, PassedUp, NotUnwinding
  <2> QED BY <1>1, <1>2, <2>1, <2>2, <2>3
<1>3. CASE prog.kind[Cur(w)] # "call"
  <2>1. WorkerTypes' /\ Goes(w, IF unw[Cur(w)].exn # Null THEN "landing" ELSE "helper")
    <3>1. TableOK([wk[w].ht EXCEPT !.view.rsp = Null])
      BY NullTyped DEF Types, WorkerTypes, WorkerOK, TableOK
    <3>2. wk'[w].ht = [wk[w].ht EXCEPT !.view.rsp = Null]
      BY <1>3 DEF Left, Types, WorkerTypes, WorkerOK, WorkerFields, Cur
    <3>3. TableOK(wk'[w].ht)
      BY <3>1, <3>2
    <3>4. Goes(w, IF unw[Cur(w)].exn # Null THEN "landing" ELSE "helper")
      BY <1>3
         DEF Left, Types, WorkerTypes, WorkerOK, WorkerFields, Goes, Moves,
             Others, Still
    <3>5. DOMAIN wk' = Workers /\ DOMAIN wk'[w] = WorkerFields
          /\ wk'[w].fib \in {wk[w].fib, home[Cur(w)]}
          /\ wk'[w].lht = wk[w].lht /\ wk'[w].rht = wk[w].rht
          /\ \A x \in Workers : x # w => wk'[x] = wk[x]
      BY <1>3 DEF Left, Types, WorkerTypes, WorkerOK, WorkerFields
    <3>6. wk'[w].fib \in Fib
      BY <3>5 DEF Types, WorkerTypes, WorkerOK, FrameTypes
    <3> QED
      BY <1>1, <3>3, <3>4, <3>5, <3>6
         DEF Types, WorkerTypes, WorkerOK, Goes, Moves, WorkerPc
  <2>2. UNCHANGED <<home, unw>>
    BY <1>3 DEF Left
  <2>3. FrameTypes'
    BY <1>1, <2>2 DEF Types, FrameTypes
  <2> QED BY <1>1, <1>3, <2>1, <2>2, <2>3
<1> QED BY <1>2, <1>3

(* What __cilkrts_leave_frame does in a frame that was not stolen.         *)
LEMMA LeaveFrameStep ==
    ASSUME Types, NEW w \in Workers, Cur(w) \in Frames, Cur(w) # Root, LeaveFrame(w)
    PROVE  /\ Types' /\ SameTree
           /\ UNCHANGED <<prog, at, stolen, unsynced, busy, busyLock, dq>>
           /\ prog.kind[Cur(w)] = "call" =>
                /\ Moves(w, IF unw[Cur(w)].exn # Null THEN "unwind" ELSE "user",
                         prog.parent[Cur(w)], wk[w].cl, wk[w].vic, wk[w].frm, wk[w].why)
                /\ home' = [home EXCEPT ![Cur(w)] = Null]
                /\ unw' = PassedUp(Cur(w))
           /\ prog.kind[Cur(w)] # "call" =>
                /\ Goes(w, IF unw[Cur(w)].exn # Null THEN "landing" ELSE "helper")
                /\ UNCHANGED <<home, unw>>
<1>1. ClosureTypes' /\ PoolTypes' /\ LockTypes'
  BY TypesKept DEF LeaveFrame, Types
<1> QED BY <1>1, LeftStep DEF LeaveFrame, Types, SameTree, Kept, Node

(* What __cilkrts_leave_frame_helper does when the parent is still in the  *)
(* deque: the parent goes on.                                              *)
LEMMA PopParentStep ==
    ASSUME Types, NEW w \in Workers, Cur(w) \in Frames, Cur(w) # Root, PopParent(w)
    PROVE  /\ Types' /\ SameTree
           /\ UNCHANGED <<prog, at, stolen, unsynced, busy, busyLock>>
           /\ dq[w] # <<>> /\ Last(dq[w]) \in Frames
           /\ dq' = [dq EXCEPT ![w] = Front(@)]
           /\ Moves(w, IF unw[Cur(w)].exn # Null THEN "unwind" ELSE "user",
                         Last(dq[w]), wk[w].cl, wk[w].vic, wk[w].frm, wk[w].why)
           /\ home' = [home EXCEPT ![Cur(w)] = Null]
           /\ unw' = PassedUp(Cur(w))
<1>1. Frames' = Frames /\ prog.parent[Cur(w)] \in Frames
  BY ProgramFrames DEF PopParent, Frames, Types, FrameTypes
<1>2. Front(dq[w]) \in Seq(Frames) /\ Last(dq[w]) \in Frames
  <2>1. dq[w] \in Seq(Frames) /\ dq[w] # <<>>
    BY DEF Types, LockTypes, PopParent
  <2> QED BY <2>1 DEF Front, Last
<1>3. FrameTypes'
  BY <1>1, NullTyped DEF PopParent, Types, FrameTypes, PassedUp, NotUnwinding
<1>4. Moves(w, IF unw[Cur(w)].exn # Null THEN "unwind" ELSE "user",
                         Last(dq[w]), wk[w].cl, wk[w].vic, wk[w].frm, wk[w].why)
  BY
     DEF PopParent, Types, WorkerTypes, WorkerOK, WorkerFields, Moves, Others,
         Still
<1>5. WorkerTypes'
  BY <1>1, <1>2
     DEF PopParent, Types, WorkerTypes, WorkerOK, WorkerFields, WorkerPc
<1>6. ClosureTypes' /\ PoolTypes'
  BY TypesKept DEF PopParent, Types
<1>7. LockTypes'
  BY <1>1, <1>2 DEF PopParent, Types, LockTypes
<1> QED
  BY <1>2, <1>3, <1>4, <1>5, <1>6, <1>7
     DEF PopParent, Types, SameTree, Kept, Node

(* What Cilk_sync does with children outstanding: the closure is suspended *)
(* and its worker becomes a thief.                                         *)
LEMMA SyncSuspendStep ==
    ASSUME Types, NEW w \in Workers, busy[w] \in Closures,
           cl[busy[w]].status # "invalid",
           SyncSuspend(w)
    PROVE  LET t == busy[w]
           IN  /\ Types' /\ UNCHANGED <<fvars, dq>>
               /\ Node(t, "suspended", cl[t].frame, cl[t].join, cl[t].callParent, cl[t].spawnParent,
                       cl[t].leftSib, cl[t].rightSib, cl[t].rightMost)
               /\ \A c \in Closures : c # t => Kept(c)
               /\ busy' = [busy EXCEPT ![w] = Null] /\ busyLock' = [busyLock EXCEPT ![w] = Null]
               /\ Moves(w, "steal", Null, wk[w].cl, wk[w].vic, wk[w].frm, wk[w].why)
<1> DEFINE t == busy[w]
<1>1. FrameTypes' /\ Frames' = Frames
  BY TypesKept DEF SyncSuspend, Types, fvars, Frames
<1>2. WorkerTypes'
  BY <1>1, NullTyped
     DEF SyncSuspend, Types, WorkerTypes, WorkerOK, WorkerFields, WorkerPc
<1>3. Moves(w, "steal", Null, wk[w].cl, wk[w].vic, wk[w].frm, wk[w].why)
  BY
     DEF SyncSuspend, Types, WorkerTypes, WorkerOK, WorkerFields, Moves, Others,
         Still
<1>4. Node(t, "suspended", cl[t].frame, cl[t].join, cl[t].callParent, cl[t].spawnParent,
                       cl[t].leftSib, cl[t].rightSib, cl[t].rightMost)
  BY DEF SyncSuspend, Types, ClosureTypes, ClosureOK, ClosureFields, Node
<1>5. ClosureTypes'
  <2>1. /\ DOMAIN cl' = Closures /\ DOMAIN cl'[t] = ClosureFields
        /\ cl'[t].fiber = Null
        /\ cl'[t].fiberChild = cl[t].fiberChild /\ cl'[t].orig = cl[t].orig
        /\ cl'[t].rightHt = cl[t].rightHt /\ cl'[t].childHt = cl[t].childHt
        /\ cl'[t].userHt = wk[w].ht /\ cl'[t].lock = cl[t].lock
        /\ \A c \in Closures : c # t => cl'[c] = cl[c]
    BY DEF SyncSuspend, Types, ClosureTypes, ClosureOK, ClosureFields
  <2>2. TableOK(wk[w].ht)
    BY DEF Types, WorkerTypes, WorkerOK
  <2>3. ClosureOK(cl'[t])
    BY <1>4, <2>1, <2>2, NullTyped DEF Types, ClosureTypes, ClosureOK, Node
  <2> QED
    BY <1>1, <2>1, <2>3, ClosuresTyped
       DEF SyncSuspend, Types, ClosureTypes, fvars
<1>6. \A c \in Closures : c # t => Kept(c)
  BY DEF SyncSuspend, Types, ClosureTypes, Kept, Node
<1>7. LockTypes'
  BY <1>1 DEF SyncSuspend, Types, LockTypes, Null
<1>8. PoolTypes'
  <2>1. {cl[t].fiber} \in SUBSET Fib /\ done' \in BOOLEAN
    BY DEF SyncSuspend, Types, ClosureTypes, ClosureOK, PoolTypes
  <2> QED BY <2>1, ReleasedTyped DEF SyncSuspend, Types
<1> QED BY <1>1, <1>2, <1>3, <1>4, <1>5, <1>6, <1>7, <1>8 DEF SyncSuspend, Types

(* Resetting the fibers of a closure for a sync leaves its place in the    *)
(* tree alone.                                                             *)
LEMMA SetupForSyncTyped ==
    ASSUME NEW r, ClosureOK(r), r.status # "invalid"
    PROVE  ClosureOK(SetupForSync(r)) /\ SetupForSync(r).status = r.status
           /\ SetupForSync(r).frame = r.frame /\ SetupForSync(r).join = r.join
           /\ SetupForSync(r).callParent = r.callParent /\ SetupForSync(r).spawnParent = r.spawnParent
           /\ SetupForSync(r).leftSib = r.leftSib /\ SetupForSync(r).rightSib = r.rightSib
           /\ SetupForSync(r).rightMost = r.rightMost
  BY NullTyped DEF ClosureOK, SetupForSync, ClosureFields

(* What Cilk_sync does without children outstanding: the frame is synced.  *)
LEMMA SyncReadyStep ==
    ASSUME Types, NEW w \in Workers, busy[w] \in Closures,
           cl[busy[w]].status # "invalid",
           SyncReady(w)
    PROVE  LET t == busy[w]
           IN  /\ Types' /\ SameTree /\ UNCHANGED <<prog, at, home, stolen, unw, busy, dq>>
               /\ ~HasChildren(t)
               /\ unsynced' = unsynced \ {cl[t].frame} /\ busyLock' = [busyLock EXCEPT ![w] = Null]
               /\ Moves(w, "synced", wk[w].cur, t, wk[w].vic, wk[w].frm, wk[w].why)
<1> DEFINE t == busy[w]
<1>1. FrameTypes' /\ Frames' = Frames
  BY DEF SyncReady, Types, FrameTypes, evars, Frames
<1>2. cl[t].orig \in Fib
  BY DEF Types, ClosureTypes, ClosureOK
<1>3. WorkerTypes'
  BY <1>1, <1>2
     DEF SyncReady, Types, WorkerTypes, WorkerOK, WorkerFields, WorkerPc
<1>4. Moves(w, "synced", wk[w].cur, t, wk[w].vic, wk[w].frm, wk[w].why)
  BY
     DEF SyncReady, Types, WorkerTypes, WorkerOK, WorkerFields, Moves, Others,
         Still
<1>5. ClosureOK(cl[t]) /\ DOMAIN cl = Closures
  BY DEF Types, ClosureTypes
<1>6. ClosureTypes' /\ SameTree
  <2>1. cl' = [cl EXCEPT ![t] = SetupForSync(cl[t])]
    BY DEF SyncReady
  <2> QED
    BY <1>1, <1>5, <2>1, SetupForSyncTyped
       DEF Types, ClosureTypes, SameTree, Kept, Node, ClosureOK
<1>7. LockTypes'
  BY <1>1 DEF SyncReady, Types, LockTypes, Null
<1>8. PoolTypes'
  <2>1. {cl[t].fiber} \in SUBSET Fib /\ done' \in BOOLEAN
    BY DEF SyncReady, Types, ClosureTypes, ClosureOK, PoolTypes
  <2> QED BY <2>1, ReleasedTyped DEF SyncReady, Types
<1> QED BY <1>1, <1>3, <1>4, <1>6, <1>7, <1>8 DEF SyncReady, Types, evars

(* What the second half of a successful Cilk_sync does: it takes the       *)
(* children's views.                                                       *)
LEMMA SyncTakeChildHtStep ==
    ASSUME Types, NEW w \in Workers, wk[w].cl \in Closures,
           cl[wk[w].cl].status # "invalid",
           SyncTakeChildHt(w)
    PROVE  /\ Types' /\ SameStacks /\ UNCHANGED <<busyLock, at, unw>>
           /\ Moves(w, "reduce", wk[w].cur, Null, wk[w].vic, wk[w].frm, "synced")
<1>0. Moves(w, "reduce", wk[w].cur, Null, wk[w].vic, wk[w].frm, "synced")
  BY
     DEF SyncTakeChildHt, Types, WorkerTypes, WorkerOK, WorkerFields, Moves,
         Others, Still
<1>1. FrameTypes' /\ Frames' = Frames
  BY TypesKept DEF SyncTakeChildHt, Types, fvars, Frames
<1>2. WorkerTypes'
  <2>1. TableOK(cl[wk[w].cl].childHt)
    BY DEF Types, ClosureTypes, ClosureOK
  <2>2. TableOK(wk'[w].lht)
    BY <2>1 DEF SyncTakeChildHt, Types, WorkerTypes, WorkerOK, WorkerFields
  <2>3. DOMAIN wk' = Workers /\ DOMAIN wk'[w] = WorkerFields /\ wk'[w].fib = wk[w].fib
        /\ wk'[w].ht = wk[w].ht /\ wk'[w].rht = wk[w].rht
        /\ \A x \in Workers : x # w => wk'[x] = wk[x]
    BY DEF SyncTakeChildHt, Types, WorkerTypes, WorkerOK, WorkerFields
  <2>4. WorkerOK(wk'[w])
    BY <1>0, <2>2, <2>3 DEF Types, WorkerTypes, WorkerOK, WorkerPc, Moves
  <2> QED BY <2>3, <2>4, WorkersTyped DEF SyncTakeChildHt, Types, WorkerTypes, fvars
<1>4. ClosureTypes'
  BY <1>1, NullTyped
     DEF SyncTakeChildHt, Types, ClosureTypes, ClosureOK, ClosureFields
<1>5. SameTree
  BY
     DEF SyncTakeChildHt, Types, ClosureTypes, ClosureOK, ClosureFields,
         SameTree, Kept, Node
<1>6. LockTypes' /\ PoolTypes'
  BY TypesKept DEF SyncTakeChildHt, Types, fvars
<1> QED
  BY <1>1, <1>2, <1>0, <1>4, <1>5, <1>6
     DEF SyncTakeChildHt, Types, SameStacks, fvars, evars

(* What the first half of __cilkrts_set_return does: the worker's closure  *)
(* becomes the call parent.                                                *)
LEMMA SetReturnSwapStep ==
    ASSUME Types, NEW w \in Workers, busy[w] \in Closures,
           cl[busy[w]].status # "invalid",
           SetReturnSwap(w)
    PROVE  LET t == busy[w]
           IN  /\ Types' /\ UNCHANGED <<fvars, busyLock, dq>>
               /\ Node(t, cl[t].status, Null, cl[t].join, cl[t].callParent, cl[t].spawnParent,
                       cl[t].leftSib, cl[t].rightSib, cl[t].rightMost)
               /\ \A c \in Closures : c # t => Kept(c)
               /\ busy' = [busy EXCEPT ![w] = cl[t].callParent]
               /\ Moves(w, "set_return2", wk[w].cur, t, wk[w].vic, wk[w].frm, wk[w].why)
<1> DEFINE t == busy[w]
<1>1. FrameTypes' /\ Frames' = Frames
  BY TypesKept DEF SetReturnSwap, Types, fvars, Frames
<1>2. WorkerTypes'
  BY <1>1
     DEF SetReturnSwap, Types, WorkerTypes, WorkerOK, WorkerFields, WorkerPc
<1>3. Moves(w, "set_return2", wk[w].cur, t, wk[w].vic, wk[w].frm, wk[w].why)
  BY
     DEF SetReturnSwap, Types, WorkerTypes, WorkerOK, WorkerFields, Moves,
         Others, Still
<1>4. ClosureTypes'
  BY <1>1 DEF SetReturnSwap, Types, ClosureTypes, ClosureOK, ClosureFields
<1>5. Node(t, cl[t].status, Null, cl[t].join, cl[t].callParent, cl[t].spawnParent,
                       cl[t].leftSib, cl[t].rightSib, cl[t].rightMost)
  BY DEF SetReturnSwap, Types, ClosureTypes, ClosureOK, ClosureFields, Node
<1>6. \A c \in Closures : c # t => Kept(c)
  BY DEF SetReturnSwap, Types, ClosureTypes, Kept, Node
<1>7. LockTypes'
  BY <1>1 DEF SetReturnSwap, Types, LockTypes, ClosureTypes, ClosureOK
<1>8. PoolTypes'
  BY TypesKept DEF SetReturnSwap, Types
<1> QED BY <1>1, <1>2, <1>3, <1>4, <1>5, <1>6, <1>7, <1>8 DEF SetReturnSwap, Types

(* What the second half of __cilkrts_set_return does: the called closure   *)
(* is freed and the call parent resumed.                                   *)
LEMMA SetReturnResumeStep ==
    ASSUME Types, NEW w \in Workers, Cur(w) \in Frames, Cur(w) # Root,
           wk[w].cl \in Closures,
           cl[wk[w].cl].callParent \in Closures, cl[wk[w].cl].callParent # wk[w].cl,
           cl[cl[wk[w].cl].callParent].status # "invalid",
           SetReturnResume(w)
    PROVE  LET t == wk[w].cl  p == cl[t].callParent
           IN  /\ Types' /\ UNCHANGED <<prog, at, stolen, unsynced, busy, dq>>
               /\ cl'[t] = FreeClosure
               /\ Node(p, "running", cl[p].frame, cl[p].join - 1, cl[p].callParent,
                       cl[p].spawnParent, cl[p].leftSib, cl[p].rightSib, cl[p].rightMost)
               /\ \A c \in Closures : c # t /\ c # p => Kept(c)
               /\ busyLock' = [busyLock EXCEPT ![w] = Null]
               /\ prog.kind[Cur(w)] = "call" =>
                    /\ Moves(w, IF unw[Cur(w)].exn # Null THEN "unwind" ELSE "user",
                             prog.parent[Cur(w)], wk[w].cl, wk[w].vic, wk[w].frm, wk[w].why)
                    /\ home' = [home EXCEPT ![Cur(w)] = Null]
                    /\ unw' = PassedUp(Cur(w))
               /\ prog.kind[Cur(w)] # "call" =>
                    /\ Goes(w, IF unw[Cur(w)].exn # Null THEN "landing" ELSE "helper")
                    /\ UNCHANGED <<home, unw>>
<1> DEFINE t == wk[w].cl
<1> DEFINE p == cl[t].callParent
<1>1. Frames' = Frames
  BY DEF SetReturnResume, Frames
<1>2. cl'[t] = FreeClosure /\ DOMAIN cl' = Closures
  BY DEF SetReturnResume, Types, ClosureTypes
<1>3. \A c \in Closures : c # t /\ c # p => cl'[c] = cl[c]
  BY DEF SetReturnResume, Types, ClosureTypes
<1>4. cl'[p] = [cl[p] EXCEPT !.join = @ - 1, !.status = "running"]
  BY DEF SetReturnResume, Types, ClosureTypes
<1>5. ClosureOK(cl'[p])
  BY <1>4 DEF Types, ClosureTypes, ClosureOK, ClosureFields
<1>6. ClosureTypes'
  <2>1. \A c \in Closures : ClosureOK(cl'[c])
    BY <1>2, <1>3, <1>5, FreeClosureTyped DEF Types, ClosureTypes
  <2> QED BY <1>2, <2>1, ClosuresTyped DEF SetReturnResume
<1>7. Node(p, "running", cl[p].frame, cl[p].join - 1, cl[p].callParent,
                       cl[p].spawnParent, cl[p].leftSib, cl[p].rightSib, cl[p].rightMost)
  BY <1>4 DEF Types, ClosureTypes, ClosureOK, ClosureFields, Node
<1>8. \A c \in Closures : c # t /\ c # p => Kept(c)
  BY <1>3 DEF Kept, Node
<1>9. LockTypes' /\ PoolTypes'
  BY <1>1 DEF SetReturnResume, Types, LockTypes, PoolTypes, Null
<1> QED BY <1>2, <1>6, <1>7, <1>8, <1>9, LeftStep DEF SetReturnResume, Types

(* What the exception handler does with an empty deque: the closure        *)
(* returns.                                                                *)
LEMMA HandlerReturnStep ==
    ASSUME Types, NEW w \in Workers, Cur(w) \in Frames, busy[w] \in Closures,
           cl[busy[w]].status # "invalid", HandlerReturn(w)
    PROVE  LET t == busy[w]
           IN  /\ Types' /\ UNCHANGED <<prog, at, stolen, unsynced, dq>>
               /\ Node(t, "returning", Null, cl[t].join, cl[t].callParent, cl[t].spawnParent,
                       cl[t].leftSib, cl[t].rightSib, cl[t].rightMost)
               /\ \A c \in Closures : c # t => Kept(c)
               /\ busy' = [busy EXCEPT ![w] = Null] /\ busyLock' = [busyLock EXCEPT ![w] = Null]
               /\ Moves(w, "return", Null, t, wk[w].vic, wk[w].frm, wk[w].why)
               /\ home' = [home EXCEPT ![Cur(w)] = Null]
               /\ unw' = [unw EXCEPT ![Cur(w)] = NotUnwinding]
<1> DEFINE t == busy[w]
<1>1. FrameTypes' /\ Frames' = Frames
  BY NullTyped DEF HandlerReturn, Types, FrameTypes, Frames, NotUnwinding
<1>2. Moves(w, "return", Null, t, wk[w].vic, wk[w].frm, wk[w].why)
  BY
     DEF HandlerReturn, Types, WorkerTypes, WorkerOK, WorkerFields, Moves,
         Others, Still
<1>3. WorkerTypes'
  <2>1. DOMAIN wk' = Workers /\ DOMAIN wk'[w] = WorkerFields /\ wk'[w].fib = wk[w].fib
        /\ wk'[w].ht = (IF unw[Cur(w)].exn = Null THEN wk[w].ht ELSE WithException(wk[w].ht, unw[Cur(w)].exn))
        /\ wk'[w].rht = wk[w].rht /\ wk'[w].lht = wk[w].lht
        /\ \A x \in Workers : x # w => wk'[x] = wk[x]
    BY DEF HandlerReturn, Types, WorkerTypes, WorkerOK, WorkerFields
  <2>2. TableOK(wk[w].ht)
    BY DEF Types, WorkerTypes, WorkerOK
  <2>3. TableOK(wk'[w].ht)
    BY <2>1, <2>2, WithExceptionTyped
  <2>4. WorkerOK(wk'[w])
    BY <1>2, <2>1, <2>3 DEF Types, WorkerTypes, WorkerOK, WorkerPc, Moves
  <2> QED BY <2>1, <2>4, WorkersTyped DEF HandlerReturn, Types, WorkerTypes
<1>4. Node(t, "returning", Null, cl[t].join, cl[t].callParent, cl[t].spawnParent,
                       cl[t].leftSib, cl[t].rightSib, cl[t].rightMost)
  BY DEF HandlerReturn, Types, ClosureTypes, ClosureOK, ClosureFields, Node
<1>5. ClosureTypes'
  <2>1. /\ DOMAIN cl' = Closures /\ DOMAIN cl'[t] = ClosureFields
        /\ cl'[t].fiber = cl[t].fiber /\ cl'[t].fiberChild = cl[t].fiberChild
        /\ cl'[t].orig = cl[t].orig /\ cl'[t].rightHt = cl[t].rightHt
        /\ cl'[t].childHt = cl[t].childHt /\ cl'[t].userHt = cl[t].userHt
        /\ cl'[t].lock = cl[t].lock /\ \A c \in Closures : c # t => cl'[c] = cl[c]
    BY DEF HandlerReturn, Types, ClosureTypes, ClosureOK, ClosureFields
  <2>2. ClosureOK(cl'[t])
    BY <1>4, <2>1 DEF Types, ClosureTypes, ClosureOK, Node
  <2> QED BY <2>1, <2>2, ClosuresTyped DEF HandlerReturn, Types, ClosureTypes
<1>6. \A c \in Closures : c # t => Kept(c)
  BY DEF HandlerReturn, Types, ClosureTypes, Kept, Node
<1>7. LockTypes' /\ PoolTypes'
  BY <1>1 DEF HandlerReturn, Types, LockTypes, PoolTypes, Null
<1> QED BY <1>1, <1>2, <1>3, <1>4, <1>5, <1>6, <1>7 DEF HandlerReturn, Types

(* What Closure_return does first: it locks the spawn parent.              *)
LEMMA ReturnLockParentStep ==
    ASSUME Types, NEW w \in Workers, wk[w].cl \in Closures,
           cl[wk[w].cl].spawnParent \in Closures,
           cl[cl[wk[w].cl].spawnParent].status # "invalid", ReturnLockParent(w)
    PROVE  /\ Types' /\ SameStacks /\ UNCHANGED <<busyLock, at, unw>> /\ Goes(w, "return2")
<1> DEFINE p == cl[wk[w].cl].spawnParent
<1>1. FrameTypes' /\ Frames' = Frames
  BY TypesKept DEF ReturnLockParent, Types, fvars, Frames
<1>2. WorkerTypes' /\ Goes(w, "return2")
  BY <1>1
     DEF ReturnLockParent, Types, WorkerTypes, WorkerOK, WorkerFields, WorkerPc,
         Goes, Moves, Others, Still
<1>3. cl' = [cl EXCEPT ![p] = [cl[p] EXCEPT !.lock = w]]
  BY DEF ReturnLockParent
<1> HIDE DEF p
<1>4. ClosureTypes'
  <2>1. p \in Closures /\ cl[p].status # "invalid"
    BY DEF p
  <2> QED BY <1>1, <1>3, <2>1 DEF Types, ClosureTypes, ClosureOK, ClosureFields
<1>5. SameTree
  BY <1>3
     DEF Types, ClosureTypes, ClosureOK, ClosureFields, SameTree, Kept, Node
<1>6. LockTypes' /\ PoolTypes'
  BY TypesKept DEF ReturnLockParent, Types, fvars
<1> QED
  BY <1>1, <1>2, <1>4, <1>5, <1>6
     DEF ReturnLockParent, Types, SameStacks, fvars, evars

(* Depositing a table changes neither the tree nor its types.              *)
SameNode(r, s) ==
    /\ r.status = s.status /\ r.frame = s.frame /\ r.join = s.join
    /\ r.callParent = s.callParent /\ r.spawnParent = s.spawnParent
    /\ r.leftSib = s.leftSib /\ r.rightSib = s.rightSib /\ r.rightMost = s.rightMost

(* Putting a table to the left of a child changes no place in the tree.    *)
LEMMA SetLeftOfTyped ==
    ASSUME ClosureTypes, NEW c \in Closures, NEW h, TableOK(h),
           cl[c].spawnParent \in Closures,
           cl[cl[c].spawnParent].status # "invalid",
           cl[c].leftSib # Null => cl[cl[c].leftSib].status # "invalid"
    PROVE  /\ DOMAIN SetLeftOf(cl, c, h) = Closures
           /\ \A x \in Closures : /\ ClosureOK(SetLeftOf(cl, c, h)[x])
                                  /\ SameNode(SetLeftOf(cl, c, h)[x], cl[x])
<1>1. cl[c].leftSib \in Closures \cup {Null}
  BY DEF ClosureTypes, ClosureOK
<1>2. CASE cl[c].leftSib # Null
  <2> DEFINE l == cl[c].leftSib
  <2>1. /\ SetLeftOf(cl, c, h) = [cl EXCEPT ![l] = [cl[l] EXCEPT !.rightHt = h]]
        /\ l \in Closures
    BY <1>1, <1>2 DEF SetLeftOf
  <2>2. cl[l].status # "invalid"
    BY <1>2
  <2> HIDE DEF l
  <2> QED BY <2>1, <2>2 DEF ClosureTypes, ClosureOK, ClosureFields, SameNode
<1>3. CASE cl[c].leftSib = Null
  <2> DEFINE p == cl[c].spawnParent
  <2>1. /\ SetLeftOf(cl, c, h) = [cl EXCEPT ![p] = [cl[p] EXCEPT !.childHt = h]]
        /\ p \in Closures
    BY <1>3 DEF SetLeftOf
  <2>2. cl[p].status # "invalid"
    OBVIOUS
  <2> HIDE DEF p
  <2> QED BY <2>1, <2>2 DEF ClosureTypes, ClosureOK, ClosureFields, SameNode
<1> QED BY <1>2, <1>3

(* The table to the left of a child is a table.                            *)
LEMMA LeftOfTyped ==
    ASSUME ClosureTypes, NEW c \in Closures, cl[c].spawnParent \in Closures
    PROVE  TableOK(LeftOf(c))
  BY DEF ClosureTypes, ClosureOK, LeftOf

(* What Closure_return does when there are views to reduce: the child runs *)
(* again, to reduce them.                                                  *)
LEMMA ReturnReduceStep ==
    ASSUME Types, NEW w \in Workers, wk[w].cl \in Closures,
           cl[wk[w].cl].status # "invalid",
           cl[wk[w].cl].spawnParent \in Closures, cl[wk[w].cl].spawnParent # wk[w].cl,
           cl[cl[wk[w].cl].spawnParent].status # "invalid",
           cl[wk[w].cl].leftSib # Null => cl[cl[wk[w].cl].leftSib].status # "invalid",
           ReturnReduce(w)
    PROVE  LET c == wk[w].cl
           IN  /\ Types' /\ UNCHANGED <<fvars, busy, busyLock, dq>>
               /\ Node(c, "running", cl[c].frame, cl[c].join, cl[c].callParent, cl[c].spawnParent,
                       cl[c].leftSib, cl[c].rightSib, cl[c].rightMost)
               /\ \A x \in Closures : x # c => Kept(x)
               /\ Moves(w, "install", wk[w].cur, c, wk[w].vic, wk[w].frm, "reduce")
<1> DEFINE c == wk[w].cl
<1> DEFINE p == cl[c].spawnParent
<1> DEFINE D == SetLeftOf(cl, c, NoHt)
<1>1. FrameTypes' /\ Frames' = Frames
  BY TypesKept DEF ReturnReduce, Types, fvars, Frames
<1>2. /\ DOMAIN D = Closures
      /\ \A x \in Closures : ClosureOK(D[x]) /\ SameNode(D[x], cl[x])
  BY SetLeftOfTyped, NullTyped DEF Types
<1>3. cl' = [D EXCEPT ![c].rightHt = NoHt, ![c].status = "running", ![p].lock = Null]
  BY DEF ReturnReduce
<1>4. p # c /\ c \in Closures /\ p \in Closures
  OBVIOUS
<1>4a. cl[c].status # "invalid" /\ cl[p].status # "invalid"
  OBVIOUS
<1> HIDE DEF D, p, c
<1>5. /\ DOMAIN cl' = Closures
      /\ cl'[c] = [D[c] EXCEPT !.rightHt = NoHt, !.status = "running"]
      /\ cl'[p] = [D[p] EXCEPT !.lock = Null] /\ \A x \in Closures : x # c /\ x # p => cl'[x] = D[x]
  BY <1>2, <1>3, <1>4
<1>6. ClosureOK(cl'[c]) /\ ClosureOK(cl'[p])
  <2>1. ClosureOK(cl'[c])
    BY <1>2, <1>4, <1>5, NullTyped DEF ClosureOK, ClosureFields
  <2>2. D[p].status # "invalid"
    BY <1>2, <1>4, <1>4a DEF SameNode
  <2>3. ClosureOK(cl'[p])
    BY <1>2, <1>4, <1>5, <2>2 DEF ClosureOK, ClosureFields
  <2> QED BY <2>1, <2>3
<1>7. ClosureTypes'
  <2>1. \A x \in Closures : ClosureOK(cl'[x])
    BY <1>2, <1>5, <1>6
  <2>2. prog' = prog
    BY DEF ReturnReduce, fvars
  <2> QED BY <1>5, <2>1, <2>2, ClosuresTyped
<1>8. Node(c, "running", cl[c].frame, cl[c].join, cl[c].callParent, cl[c].spawnParent,
                       cl[c].leftSib, cl[c].rightSib, cl[c].rightMost)
  BY <1>2, <1>4, <1>5 DEF ClosureOK, ClosureFields, Node, SameNode
<1>9. \A x \in Closures : x # c => Kept(x)
  <2>1. Kept(p)
    BY <1>2, <1>4, <1>5 DEF ClosureOK, ClosureFields, Node, SameNode, Kept
  <2>2. \A x \in Closures : x # c /\ x # p => Kept(x)
    BY <1>2, <1>5 DEF Node, SameNode, Kept
  <2> QED BY <2>1, <2>2
<1>10. Moves(w, "install", wk[w].cur, c, wk[w].vic, wk[w].frm, "reduce")
  BY
     DEF ReturnReduce, Types, WorkerTypes, WorkerOK, WorkerFields, Moves,
         Others, Still, c
<1>11. WorkerTypes'
  <2>1. TableOK(LeftOf(c)) /\ TableOK(cl[c].rightHt)
    BY <1>4, LeftOfTyped DEF Types, ClosureTypes, ClosureOK, p
  <2>2. DOMAIN wk' = Workers /\ DOMAIN wk'[w] = WorkerFields /\ wk'[w].fib = wk[w].fib
        /\ wk'[w].ht = wk[w].ht /\ wk'[w].lht = LeftOf(c) /\ wk'[w].rht = cl[c].rightHt
        /\ \A x \in Workers : x # w => wk'[x] = wk[x]
    BY DEF ReturnReduce, Types, WorkerTypes, WorkerOK, WorkerFields, c
  <2>3. WorkerOK(wk'[w])
    BY <1>4, <1>10, <2>1, <2>2 DEF Types, WorkerTypes, WorkerOK, WorkerPc, Moves
  <2> QED BY <2>2, <2>3, WorkersTyped DEF ReturnReduce, Types, WorkerTypes, fvars
<1>12. LockTypes' /\ PoolTypes'
  BY TypesKept DEF ReturnReduce, Types, fvars
<1> QED BY <1>1, <1>7, <1>8, <1>9, <1>10, <1>11, <1>12 DEF ReturnReduce, Types, c

(* What a worker does that resumes a closure: the closure becomes its busy *)
(* closure.                                                                *)
LEMMA InstallStep ==
    ASSUME Types, NEW w \in Workers, wk[w].cl \in Closures, Install(w)
    PROVE  LET t == wk[w].cl
           IN  /\ Types' /\ SameTree /\ UNCHANGED <<fvars, busyLock, dq>>
               /\ busy' = [busy EXCEPT ![w] = t]
               /\ Moves(w, IF wk[w].why = "stolen" THEN "user" ELSE "reduce", cl[t].frame, Null,
                        wk[w].vic, wk[w].frm, wk[w].why)
<1>1. FrameTypes' /\ Frames' = Frames
  BY TypesKept DEF Install, Types, fvars, Frames
<1>3. Moves(w, IF wk[w].why = "stolen" THEN "user" ELSE "reduce", cl[wk[w].cl].frame, Null,
                        wk[w].vic, wk[w].frm, wk[w].why)
  BY ZenonT(40)
     DEF Install, Types, WorkerTypes, WorkerOK, WorkerFields, Moves, Others,
         Still
<1>2. WorkerTypes'
  <2>1. cl[wk[w].cl].frame \in Frames \cup {Null} /\ cl[wk[w].cl].fiber \in Fib
    BY DEF Types, ClosureTypes, ClosureOK
  <2>2. DOMAIN wk' = Workers /\ DOMAIN wk'[w] = WorkerFields
        /\ wk'[w].fib \in {wk[w].fib, cl[wk[w].cl].fiber}
        /\ wk'[w].ht = wk[w].ht /\ wk'[w].lht = wk[w].lht /\ wk'[w].rht = wk[w].rht
        /\ \A x \in Workers : x # w => wk'[x] = wk[x]
    BY DEF Install, Types, WorkerTypes, WorkerOK, WorkerFields
  <2>3. WorkerOK(wk'[w])
    BY <1>3, <2>1, <2>2 DEF Types, WorkerTypes, WorkerOK, WorkerPc, Moves
  <2> QED BY <2>2, <2>3, WorkersTyped DEF Install, Types, WorkerTypes, fvars
<1>4. LockTypes'
  BY <1>1 DEF Install, Types, LockTypes
<1>5. ClosureTypes' /\ PoolTypes'
  BY TypesKept DEF Install, Types, fvars
<1> QED BY <1>1, <1>2, <1>3, <1>4, <1>5 DEF Install, Types, SameTree, Kept, Node

(* What do_reductions does to the worker that reduces.                     *)
LEMMA DoReductionsStep ==
    ASSUME Types, NEW w \in Workers, NEW to \in WorkerPc, prog' = prog, done' = done,
           DoReductions(w, to)
    PROVE  /\ WorkerTypes' /\ PoolTypes'
           /\ Moves(w, to, wk[w].cur, IF to = "return" THEN busy[w] ELSE Null, wk[w].vic, wk[w].frm, "stolen")
<1> DEFINE left == Merged(wk[w].lht, wk[w].ht)
<1>1. TableOK(wk[w].lht) /\ TableOK(wk[w].ht) /\ TableOK(wk[w].rht)
  BY DEF Types, WorkerTypes, WorkerOK
<1>2. TableOK(left) /\ TableOK(Merged(left, wk[w].rht))
      /\ Freed(wk[w].lht, wk[w].ht) \subseteq Fibers /\ Freed(left, wk[w].rht) \subseteq Fibers
  BY <1>1, MergedTyped
<1>3. /\ wk' = [wk EXCEPT ![w].ht = Merged(left, wk[w].rht), ![w].lht = NoHt,
                            ![w].rht = NoHt, ![w].why = "stolen", ![w].pc = to,
                            ![w].cl = IF to = "return" THEN busy[w] ELSE Null]
      /\ freeFibers' = Released(w, Freed(wk[w].lht, wk[w].ht) \cup Freed(left, wk[w].rht))
  BY DEF DoReductions
<1> HIDE DEF left
<1>4. PoolTypes'
  <2>1. (Freed(wk[w].lht, wk[w].ht) \cup Freed(left, wk[w].rht)) \in SUBSET Fib
    BY <1>2 DEF Fib
  <2> QED BY <1>3, <2>1, ReleasedTyped DEF Types, PoolTypes
<1>5. Moves(w, to, wk[w].cur, IF to = "return" THEN busy[w] ELSE Null, wk[w].vic, wk[w].frm, "stolen")
  BY <1>3 DEF Types, WorkerTypes, WorkerOK, WorkerFields, Moves, Others, Still
<1>6. WorkerTypes'
  <2>1. DOMAIN wk' = Workers /\ DOMAIN wk'[w] = WorkerFields /\ wk'[w].fib = wk[w].fib
        /\ wk'[w].ht = Merged(left, wk[w].rht) /\ wk'[w].lht = NoHt /\ wk'[w].rht = NoHt
        /\ \A x \in Workers : x # w => wk'[x] = wk[x]
    BY <1>3 DEF Types, WorkerTypes, WorkerOK, WorkerFields
  <2>2. WorkerOK(wk'[w])
    BY <1>2, <1>5, <2>1, NullTyped
       DEF Types, WorkerTypes, WorkerOK, Moves, LockTypes
  <2> QED BY <2>1, <2>2, WorkersTyped DEF Types, WorkerTypes
<1> QED BY <1>4, <1>5, <1>6

(* What the reductions after a sync do: the frame goes on, or is unwound,  *)
(* or looks for an exception.                                              *)
LEMMA ReduceSyncedStep ==
    ASSUME Types, NEW w \in Workers, Cur(w) \in Frames, ReduceSynced(w)
    PROVE  /\ Types' /\ SameStacks /\ UNCHANGED <<busyLock, unw>>
           /\ Moves(w, IF unw[Cur(w)].exn # Null THEN "unwind" ELSE IF Cur(w) \in pending THEN "check" ELSE "user",
                    wk[w].cur, Null, wk[w].vic, wk[w].frm, "stolen")
           /\ at' = IF unw[Cur(w)].exn = Null /\ Cur(w) \notin pending
                    THEN [at EXCEPT ![Cur(w)] = @ + 1] ELSE at
<1> DEFINE to == IF unw[Cur(w)].exn # Null THEN "unwind" ELSE IF Cur(w) \in pending THEN "check" ELSE "user"
<1>1. FrameTypes' /\ Frames' = Frames
  BY DEF ReduceSynced, Types, FrameTypes, Frames
<1>2. to \in WorkerPc /\ to # "return" /\ DoReductions(w, to)
  BY DEF WorkerPc, ReduceSynced
<1>3. ClosureTypes' /\ LockTypes'
  BY TypesKept DEF ReduceSynced, Types
<1>4. /\ WorkerTypes' /\ PoolTypes'
      /\ Moves(w, to, wk[w].cur, Null, wk[w].vic, wk[w].frm, "stolen")
  <2> HIDE DEF to
  <2>1. prog' = prog /\ done' = done
    BY DEF ReduceSynced
  <2> QED BY <1>2, <2>1, DoReductionsStep
<1> QED
  BY <1>1, <1>3, <1>4 DEF ReduceSynced, Types, SameStacks, SameTree, Kept, Node

(* What the reductions of a returning closure do: it tries to return       *)
(* again.                                                                  *)
LEMMA ReduceReturningStep ==
    ASSUME Types, NEW w \in Workers, busy[w] \in Closures,
           cl[busy[w]].status # "invalid", ReduceReturning(w)
    PROVE  LET t == busy[w]
           IN  /\ Types' /\ UNCHANGED <<prog, at, home, stolen, unsynced, unw, busyLock, dq>>
               /\ Node(t, "returning", cl[t].frame, cl[t].join, cl[t].callParent, cl[t].spawnParent,
                       cl[t].leftSib, cl[t].rightSib, cl[t].rightMost)
               /\ \A c \in Closures : c # t => Kept(c)
               /\ busy' = [busy EXCEPT ![w] = Null]
               /\ Moves(w, "return", wk[w].cur, t, wk[w].vic, wk[w].frm, "stolen")
<1> DEFINE t == busy[w]
<1>1. FrameTypes' /\ Frames' = Frames
  BY DEF ReduceReturning, Types, FrameTypes, Frames
<1>2. "return" \in WorkerPc
  BY DEF WorkerPc
<1>3. /\ WorkerTypes' /\ PoolTypes'
      /\ Moves(w, "return", wk[w].cur, t, wk[w].vic, wk[w].frm, "stolen")
  BY <1>2, DoReductionsStep DEF ReduceReturning
<1>4. ClosureTypes'
  BY <1>1 DEF ReduceReturning, Types, ClosureTypes, ClosureOK, ClosureFields
<1>5. Node(t, "returning", cl[t].frame, cl[t].join, cl[t].callParent, cl[t].spawnParent,
                       cl[t].leftSib, cl[t].rightSib, cl[t].rightMost)
  BY DEF ReduceReturning, Types, ClosureTypes, ClosureOK, ClosureFields, Node
<1>6. \A c \in Closures : c # t => Kept(c)
  BY DEF ReduceReturning, Types, ClosureTypes, Kept, Node
<1>7. LockTypes'
  BY <1>1 DEF ReduceReturning, Types, LockTypes, Null
<1> QED BY <1>1, <1>3, <1>4, <1>5, <1>6, <1>7 DEF ReduceReturning, Types

(* The place in the tree of a closure x after child c of p was taken out   *)
(* of the list and p got the status st.                                    *)
Removed(x, p, c, st) ==
    Node(x, IF x = p THEN st ELSE cl[x].status, cl[x].frame,
         IF x = p THEN cl[x].join - 1 ELSE cl[x].join, cl[x].callParent, cl[x].spawnParent,
         IF x = cl[c].rightSib THEN cl[c].leftSib ELSE cl[x].leftSib,
         IF x = cl[c].leftSib THEN cl[c].rightSib ELSE cl[x].rightSib,
         IF x = p /\ cl[x].rightMost = c THEN cl[c].leftSib ELSE cl[x].rightMost)

(* What Closure_remove_child does to the tree.                             *)
LEMMA RemoveChildTyped ==
    ASSUME NEW cs, NEW p \in Closures, NEW c \in Closures, p # c, DOMAIN cs = Closures,
           \A x \in Closures : ClosureOK(cs[x]),
           cs[p].status # "invalid",
           cs[c].leftSib # Null => cs[cs[c].leftSib].status # "invalid" /\ cs[c].leftSib # c,
           cs[c].rightSib # Null => cs[cs[c].rightSib].status # "invalid" /\ cs[c].rightSib # c
    PROVE  LET R == RemoveChild(cs, p, c)  l == cs[c].leftSib  r == cs[c].rightSib
           IN  /\ DOMAIN R = Closures /\ R[c] = FreeClosure
               /\ \A x \in Closures : ClosureOK(R[x])
               /\ \A x \in Closures : x # c =>
                    /\ R[x].status = cs[x].status /\ R[x].frame = cs[x].frame
                    /\ R[x].join = IF x = p THEN cs[x].join - 1 ELSE cs[x].join
                    /\ R[x].callParent = cs[x].callParent /\ R[x].spawnParent = cs[x].spawnParent
                    /\ R[x].leftSib = IF x = r THEN l ELSE cs[x].leftSib
                    /\ R[x].rightSib = IF x = l THEN r ELSE cs[x].rightSib
                    /\ R[x].rightMost = IF x = p /\ cs[x].rightMost = c THEN l ELSE cs[x].rightMost
<1> DEFINE l == cs[c].leftSib
<1> DEFINE r == cs[c].rightSib
<1> DEFINE A == Relinked(cs, l, "rightSib", r)
<1> DEFINE B == Relinked(A, r, "leftSib", l)
<1> DEFINE R == RemoveChild(cs, p, c)
<1>1. l \in Closures \cup {Null} /\ r \in Closures \cup {Null} /\ l # c /\ r # c
  BY DEF ClosureOK, Null, Closures
<1>1a. (l # Null => cs[l].status # "invalid") /\ (r # Null => cs[r].status # "invalid")
  OBVIOUS
<1>2. DOMAIN A = Closures /\ \A x \in Closures : A[x] = IF x = l THEN [cs[x] EXCEPT !.rightSib = r] ELSE cs[x]
  <2> HIDE DEF l, r
  <2> QED BY <1>1 DEF Relinked, Null, Closures
<1>3. DOMAIN B = Closures /\ \A x \in Closures : B[x] = IF x = r THEN [A[x] EXCEPT !.leftSib = l] ELSE A[x]
  <2> HIDE DEF l, r, A
  <2> QED BY <1>1, <1>2 DEF Relinked, Null, Closures
<1>4. R = [B EXCEPT ![p].rightMost = IF @ = c THEN l ELSE @, ![p].join = @ - 1, ![c] = FreeClosure]
  BY DEF RemoveChild, Unlinked
<1> HIDE DEF l, r, A, B, R
<1>5. \A x \in Closures :
        /\ ClosureOK(A[x]) /\ A[x].leftSib = cs[x].leftSib
        /\ A[x].rightSib = IF x = l THEN r ELSE cs[x].rightSib
        /\ \A f \in ClosureFields \ {"leftSib", "rightSib"} : A[x][f] = cs[x][f]
  <2> SUFFICES ASSUME NEW x \in Closures
               PROVE  /\ ClosureOK(A[x]) /\ A[x].leftSib = cs[x].leftSib
                      /\ A[x].rightSib = IF x = l THEN r ELSE cs[x].rightSib
                      /\ \A f \in ClosureFields \ {"leftSib", "rightSib"} : A[x][f] = cs[x][f]
    OBVIOUS
  <2>1. CASE x = l
    <3>1. cs[x].status # "invalid" /\ A[x] = [cs[x] EXCEPT !.rightSib = r]
      BY <2>1, <1>1a, <1>2 DEF Null, Closures
    <3> QED BY <2>1, <3>1, <1>1 DEF ClosureOK, ClosureFields
  <2>2. CASE x # l
    BY <2>2, <1>2
  <2> QED BY <2>1, <2>2
<1>6. \A x \in Closures :
        /\ ClosureOK(B[x]) /\ B[x].leftSib = IF x = r THEN l ELSE cs[x].leftSib
        /\ B[x].rightSib = IF x = l THEN r ELSE cs[x].rightSib
        /\ \A f \in ClosureFields \ {"leftSib", "rightSib"} : B[x][f] = cs[x][f]
  <2> SUFFICES ASSUME NEW x \in Closures
               PROVE  /\ ClosureOK(B[x]) /\ B[x].leftSib = IF x = r THEN l ELSE cs[x].leftSib
                      /\ B[x].rightSib = IF x = l THEN r ELSE cs[x].rightSib
                      /\ \A f \in ClosureFields \ {"leftSib", "rightSib"} : B[x][f] = cs[x][f]
    OBVIOUS
  <2>1. CASE x = r
    <3>1. /\ cs[x].status # "invalid" /\ B[x] = [A[x] EXCEPT !.leftSib = l]
          /\ A[x].status = cs[x].status
      BY <2>1, <1>1a, <1>3, <1>5 DEF Null, Closures, ClosureFields
    <3>2. ClosureOK(A[x]) /\ A[x].rightSib = (IF x = l THEN r ELSE cs[x].rightSib)
      BY <1>5
    <3>3. ClosureOK(B[x]) /\ B[x].leftSib = l /\ B[x].rightSib = A[x].rightSib
          /\ \A f \in ClosureFields \ {"leftSib", "rightSib"} : B[x][f] = A[x][f]
      BY <3>1, <3>2, <1>1 DEF ClosureOK, ClosureFields
    <3> QED BY <2>1, <3>2, <3>3, <1>5
  <2>2. CASE x # r
    BY <2>2, <1>3, <1>5
  <2> QED BY <2>1, <2>2
<1>7. \A x \in Closures : /\ B[x].frame = cs[x].frame /\ B[x].join = cs[x].join
           /\ B[x].callParent = cs[x].callParent /\ B[x].spawnParent = cs[x].spawnParent
           /\ B[x].rightMost = cs[x].rightMost /\ B[x].status = cs[x].status
  BY <1>6 DEF ClosureFields
<1>8. DOMAIN R = Closures /\ R[c] = FreeClosure
      /\ R[p] = [B[p] EXCEPT !.rightMost = IF B[p].rightMost = c THEN l ELSE B[p].rightMost, !.join = B[p].join - 1]
      /\ \A x \in Closures : x # c /\ x # p => R[x] = B[x]
  <2>1. DOMAIN R = Closures /\ R[c] = FreeClosure /\ \A x \in Closures : x # c /\ x # p => R[x] = B[x]
    BY <1>3, <1>4
  <2>2. R[p] = [B[p] EXCEPT !.rightMost = IF B[p].rightMost = c THEN l ELSE B[p].rightMost, !.join = B[p].join - 1]
    BY <1>3, <1>4, <1>6 DEF ClosureOK, ClosureFields
  <2> QED BY <2>1, <2>2
<1>9. ClosureOK(R[p])
  BY <1>1, <1>6, <1>8 DEF ClosureOK, ClosureFields
<1>10. \A x \in Closures : ClosureOK(R[x])
  BY <1>6, <1>8, <1>9, FreeClosureTyped
<1>11. \A x \in Closures : x # c =>
                    /\ R[x].status = cs[x].status /\ R[x].frame = cs[x].frame
                    /\ R[x].join = IF x = p THEN cs[x].join - 1 ELSE cs[x].join
                    /\ R[x].callParent = cs[x].callParent /\ R[x].spawnParent = cs[x].spawnParent
                    /\ R[x].leftSib = IF x = r THEN l ELSE cs[x].leftSib
                    /\ R[x].rightSib = IF x = l THEN r ELSE cs[x].rightSib
                    /\ R[x].rightMost = IF x = p /\ cs[x].rightMost = c THEN l ELSE cs[x].rightMost
  <2>1. \A x \in Closures : x # c /\ x # p =>
                    /\ R[x].status = cs[x].status /\ R[x].frame = cs[x].frame
                    /\ R[x].join = cs[x].join
                    /\ R[x].callParent = cs[x].callParent /\ R[x].spawnParent = cs[x].spawnParent
                    /\ R[x].leftSib = IF x = r THEN l ELSE cs[x].leftSib
                    /\ R[x].rightSib = IF x = l THEN r ELSE cs[x].rightSib
                    /\ R[x].rightMost = cs[x].rightMost
    BY <1>6, <1>7, <1>8
  <2>2.             /\ R[p].status = cs[p].status /\ R[p].frame = cs[p].frame
                    /\ R[p].join = cs[p].join - 1
                    /\ R[p].callParent = cs[p].callParent /\ R[p].spawnParent = cs[p].spawnParent
                    /\ R[p].leftSib = IF p = r THEN l ELSE cs[p].leftSib
                    /\ R[p].rightSib = IF p = l THEN r ELSE cs[p].rightSib
                    /\ R[p].rightMost = IF cs[p].rightMost = c THEN l ELSE cs[p].rightMost
    BY <1>6, <1>7, <1>8 DEF ClosureOK, ClosureFields
  <2> QED BY <2>1, <2>2
<1> QED BY <1>8, <1>10, <1>11 DEF l, r, R

(* The last child of a suspended closure returns.                          *)
Resumes(p) == cl[p].join - 1 = 0 /\ cl[p].status = "suspended"

(* The closure c that worker w returns has the spawn parent p.             *)
ReturnsTo(w, c, p) == c = wk[w].cl /\ p = cl[c].spawnParent

(* What Closure_return does at the end: the child is taken out of the tree *)
(* and freed, and a suspended parent that waited for nobody else is        *)
(* resumed.                                                                *)
LEMMA ReturnFinishStep ==
    ASSUME Types, NEW w \in Workers, NEW c \in Closures, NEW p \in Closures,
           ReturnsTo(w, c, p), p # c,
           cl[c].status # "invalid", cl[p].status # "invalid", cl[p].frame \in stolen,
           cl[c].leftSib # Null => cl[cl[c].leftSib].status # "invalid" /\ cl[c].leftSib # c,
           cl[c].rightSib # Null => cl[cl[c].rightSib].status # "invalid" /\ cl[c].rightSib # c,
           ReturnFinish(w)
    PROVE  /\ Types' /\ UNCHANGED <<prog, at, home, stolen, unw, busy, busyLock, dq>>
           /\ cl'[c] = FreeClosure
           /\ \A x \in Closures : x # c =>
                Removed(x, p, c, IF Resumes(p) THEN "running" ELSE cl[p].status)
           /\ Resumes(p) => /\ unsynced' = unsynced \ {cl[p].frame}
                            /\ Moves(w, "install", wk[w].cur, p, wk[w].vic, wk[w].frm, "synced")
           /\ ~Resumes(p) => /\ unsynced' = unsynced
                             /\ Moves(w, "steal", wk[w].cur, Null, wk[w].vic, wk[w].frm, wk[w].why)
<1> DEFINE deposited == SetLeftOf(cl, c, wk[w].ht)
<1> DEFINE passed == IF NotLeftMost(c) THEN deposited
                     ELSE [deposited EXCEPT ![p].fiberChild = cl[c].fiber]
<1> DEFINE R == RemoveChild(passed, p, c)
<1> DEFINE left == [R EXCEPT ![p].lock = Null, ![p].excPending = @ \/ cl[c].excPending]
<1> DEFINE given == IF NotLeftMost(c) THEN {cl[c].fiber} ELSE {}
<1>1. /\ DOMAIN deposited = Closures
      /\ \A x \in Closures : ClosureOK(deposited[x]) /\ SameNode(deposited[x], cl[x])
  <2>1. TableOK(wk[w].ht)
    BY DEF Types, WorkerTypes, WorkerOK
  <2>2. cl[c].spawnParent = p
    BY DEF ReturnsTo
  <2> QED BY <2>1, <2>2, SetLeftOfTyped DEF Types
<1>2. /\ DOMAIN passed = Closures
      /\ \A x \in Closures : ClosureOK(passed[x]) /\ SameNode(passed[x], cl[x])
  <2> HIDE DEF deposited
  <2>1. CASE NotLeftMost(c)
    BY <1>1, <2>1
  <2>2. CASE ~NotLeftMost(c)
    <3>1. passed = [deposited EXCEPT ![p] = [deposited[p] EXCEPT !.fiberChild = cl[c].fiber]]
      BY <2>2
    <3> HIDE DEF passed
    <3>2. /\ passed[p] = [deposited[p] EXCEPT !.fiberChild = cl[c].fiber]
          /\ DOMAIN passed = Closures
          /\ \A x \in Closures : x # p => passed[x] = deposited[x]
      BY <3>1, <1>1
    <3>3. /\ ClosureOK(deposited[p]) /\ SameNode(deposited[p], cl[p])
          /\ cl[c].fiber \in Fib
      BY <1>1 DEF Types, ClosureTypes, ClosureOK
    <3>4. SameNode(passed[p], cl[p])
      BY <3>2, <3>3 DEF ClosureOK, ClosureFields, SameNode
    <3>5. deposited[p].status # "invalid"
      BY <3>3 DEF SameNode
    <3>6. ClosureOK(passed[p])
      BY <3>2, <3>3, <3>5 DEF ClosureOK, ClosureFields
    <3> QED BY <1>1, <3>2, <3>4, <3>6
  <2> QED BY <2>1, <2>2
<1> HIDE DEF deposited, passed
<1>3. /\ DOMAIN R = Closures /\ R[c] = FreeClosure
      /\ \A x \in Closures : ClosureOK(R[x])
      /\ \A x \in Closures : x # c =>
           /\ R[x].status = cl[x].status /\ R[x].frame = cl[x].frame
           /\ R[x].join = IF x = p THEN cl[x].join - 1 ELSE cl[x].join
           /\ R[x].callParent = cl[x].callParent /\ R[x].spawnParent = cl[x].spawnParent
           /\ R[x].leftSib = IF x = cl[c].rightSib THEN cl[c].leftSib ELSE cl[x].leftSib
           /\ R[x].rightSib = IF x = cl[c].leftSib THEN cl[c].rightSib ELSE cl[x].rightSib
           /\ R[x].rightMost = IF x = p /\ cl[x].rightMost = c THEN cl[c].leftSib ELSE cl[x].rightMost
  <2>1. passed[c].leftSib = cl[c].leftSib /\ passed[c].rightSib = cl[c].rightSib
        /\ passed[p].status # "invalid"
    BY <1>2 DEF SameNode
  <2>2. passed[c].leftSib # Null => passed[passed[c].leftSib].status # "invalid" /\ passed[c].leftSib # c
    BY <1>2, <2>1 DEF SameNode, Types, ClosureTypes, ClosureOK
  <2>3. passed[c].rightSib # Null => passed[passed[c].rightSib].status # "invalid" /\ passed[c].rightSib # c
    BY <1>2, <2>1 DEF SameNode, Types, ClosureTypes, ClosureOK
  <2>4. \A x \in Closures : SameNode(passed[x], cl[x])
    BY <1>2
  <2>5. LET l == passed[c].leftSib  r == passed[c].rightSib
        IN     /\ DOMAIN R = Closures /\ R[c] = FreeClosure
               /\ \A x \in Closures : ClosureOK(R[x])
               /\ \A x \in Closures : x # c =>
                    /\ R[x].status = passed[x].status /\ R[x].frame = passed[x].frame
                    /\ R[x].join = IF x = p THEN passed[x].join - 1 ELSE passed[x].join
                    /\ R[x].callParent = passed[x].callParent /\ R[x].spawnParent = passed[x].spawnParent
                    /\ R[x].leftSib = IF x = r THEN l ELSE passed[x].leftSib
                    /\ R[x].rightSib = IF x = l THEN r ELSE passed[x].rightSib
                    /\ R[x].rightMost = IF x = p /\ passed[x].rightMost = c THEN l ELSE passed[x].rightMost
    <3>1. \A x \in Closures : ClosureOK(passed[x])
      BY <1>2
    <3>2. DOMAIN passed = Closures
      BY <1>2
    <3> QED BY <3>1, <3>2, <2>1, <2>2, <2>3, RemoveChildTyped
  <2> HIDE DEF R
  <2> QED BY <2>1, <2>4, <2>5 DEF SameNode
<1> HIDE DEF R
<1>4. /\ DOMAIN left = Closures /\ left[c] = FreeClosure
      /\ \A x \in Closures : ClosureOK(left[x])
      /\ \A x \in Closures : x # c => SameNode(left[x], R[x])
  <2>1. DOMAIN left = Closures /\ left[p] = [R[p] EXCEPT !.lock = Null, !.excPending = R[p].excPending \/ cl[c].excPending]
        /\ \A x \in Closures : x # p => left[x] = R[x]
    BY <1>3 DEF ClosureOK, ClosureFields
  <2>2. R[p].status # "invalid" /\ ClosureOK(R[p])
    BY <1>3
  <2> HIDE DEF left
  <2>3. ClosureOK(left[p]) /\ SameNode(left[p], R[p])
    BY <2>1, <2>2 DEF ClosureOK, ClosureFields, SameNode
  <2>4. DOMAIN R = Closures /\ R[c] = FreeClosure /\ \A x \in Closures : ClosureOK(R[x])
    BY <1>3
  <2>5. \A x \in Closures : x # p => SameNode(left[x], R[x])
    BY <2>1 DEF SameNode
  <2> QED BY <2>1, <2>3, <2>4, <2>5
<1> HIDE DEF left
<1>5. /\ left[p].join = cl[p].join - 1 /\ left[p].status = cl[p].status
      /\ left[p].frame = cl[p].frame
  BY <1>3, <1>4 DEF SameNode
<1>6. /\ pending' = IF cl[c].excPending THEN pending \cup {cl[p].frame} ELSE pending
      /\ UNCHANGED <<prog, at, home, stolen, unw, caught, busy, busyLock, dq, done>>
  BY DEF ReturnFinish, ReturnsTo
<1>7. IF Resumes(p)
      THEN /\ cl' = [left EXCEPT ![p] = [SetupForSync(left[p]) EXCEPT !.status = "running",
                                !.childHt = NoHt, !.userHt = NoHt]]
           /\ unsynced' = unsynced \ {left[p].frame}
           /\ freeFibers' = Released(w, given \cup {left[p].fiber})
           /\ wk' = [wk EXCEPT ![w].pc = "install", ![w].why = "synced",
                             ![w].cl = p, ![w].ht = left[p].userHt,
                             ![w].lht = left[p].childHt, ![w].fib = left[p].orig]
      ELSE /\ cl' = left
           /\ wk' = [wk EXCEPT ![w].pc = "steal", ![w].cl = Null, ![w].ht = NoHt]
           /\ freeFibers' = Released(w, given)
           /\ UNCHANGED unsynced
  <2>1. ProvablyGood(left[p]) <=> Resumes(p)
    BY <1>5 DEF ProvablyGood, Resumes
  <2> QED BY <2>1 DEF ReturnFinish, ReturnsTo, deposited, passed, R, left
<1>8. FrameTypes'
  <2>1. Frames' = Frames
    BY <1>6 DEF Frames
  <2>2. unsynced' \subseteq Frames
    BY <1>7 DEF Types, FrameTypes
  <2> QED BY <1>6, <2>1, <2>2 DEF Types, FrameTypes
<1>9. LockTypes'
  BY <1>6, TypesKept DEF Types
<1>10. PoolTypes'
  <2>1. given \in SUBSET Fib /\ left[p].fiber \in Fib
    BY <1>4 DEF Types, ClosureTypes, ClosureOK
  <2> HIDE DEF given
  <2>2. (given \cup {left[p].fiber}) \in SUBSET Fib /\ done' \in BOOLEAN
    BY <1>6, <2>1 DEF Types, PoolTypes
  <2> QED BY <1>7, <2>1, <2>2, ReleasedTyped DEF Types
<1> HIDE DEF given
<1>11. CASE Resumes(p)
  <2> DEFINE q == [SetupForSync(left[p]) EXCEPT !.status = "running", !.childHt = NoHt, !.userHt = NoHt]
  <2>1. ClosureOK(left[p]) /\ left[p].status # "invalid"
    BY <1>4, <1>5
  <2>2. /\ ClosureOK(q) /\ q.status = "running" /\ q.frame = left[p].frame
        /\ q.join = left[p].join
        /\ q.callParent = left[p].callParent /\ q.spawnParent = left[p].spawnParent
        /\ q.leftSib = left[p].leftSib /\ q.rightSib = left[p].rightSib /\ q.rightMost = left[p].rightMost
    <3> DEFINE s == SetupForSync(left[p])
    <3>1. ClosureOK(s) /\ s.frame = left[p].frame /\ s.join = left[p].join
        /\ s.callParent = left[p].callParent /\ s.spawnParent = left[p].spawnParent
        /\ s.leftSib = left[p].leftSib /\ s.rightSib = left[p].rightSib /\ s.rightMost = left[p].rightMost
      BY <2>1, SetupForSyncTyped
    <3> HIDE DEF s
    <3>2. q = [s EXCEPT !.status = "running", !.childHt = NoHt, !.userHt = NoHt]
      BY DEF s
    <3> HIDE DEF q
    <3>3. ClosureOK(q)
      BY <3>1, <3>2, NullTyped DEF ClosureOK, ClosureFields
    <3>4. q.status = "running" /\ q.frame = s.frame /\ q.join = s.join
        /\ q.callParent = s.callParent /\ q.spawnParent = s.spawnParent
        /\ q.leftSib = s.leftSib /\ q.rightSib = s.rightSib /\ q.rightMost = s.rightMost
      BY <3>1, <3>2 DEF ClosureOK, ClosureFields
    <3> QED BY <3>1, <3>3, <3>4
  <2> HIDE DEF q
  <2>3. DOMAIN cl' = Closures /\ cl'[p] = q /\ \A x \in Closures : x # p => cl'[x] = left[x]
    BY <1>4, <1>7, <1>11 DEF q
  <2>4. ClosureTypes'
    <3>1. \A x \in Closures : ClosureOK(cl'[x])
      BY <1>4, <2>2, <2>3
    <3> QED BY <1>6, <2>3, <3>1, ClosuresTyped
  <2>5. \A x \in Closures : x # c => Removed(x, p, c, "running")
    <3>1. Removed(p, p, c, "running")
      BY <1>3, <1>4, <2>2, <2>3 DEF Removed, Node, SameNode
    <3>2. \A x \in Closures : x # c /\ x # p => Removed(x, p, c, "running")
      BY <1>3, <1>4, <2>3 DEF Removed, Node, SameNode
    <3> QED BY <3>1, <3>2
  <2>5a. wk' = [wk EXCEPT ![w].pc = "install", ![w].why = "synced",
                             ![w].cl = p, ![w].ht = left[p].userHt,
                             ![w].lht = left[p].childHt, ![w].fib = left[p].orig]
    BY <1>7, <1>11
  <2>6. Moves(w, "install", wk[w].cur, p, wk[w].vic, wk[w].frm, "synced")
    BY <2>5a
       DEF Types, WorkerTypes, WorkerOK, WorkerFields, Moves, Others, Still
  <2>7. WorkerTypes'
    <3>1. /\ DOMAIN wk' = Workers /\ DOMAIN wk'[w] = WorkerFields
          /\ wk'[w].fib = left[p].orig
          /\ wk'[w].ht = left[p].userHt /\ wk'[w].lht = left[p].childHt /\ wk'[w].rht = wk[w].rht
          /\ \A x \in Workers : x # w => wk'[x] = wk[x]
      BY <2>5a DEF Types, WorkerTypes, WorkerOK, WorkerFields
    <3>2. left[p].orig \in Fib /\ TableOK(left[p].userHt) /\ TableOK(left[p].childHt)
      BY <2>1 DEF ClosureOK
    <3>3. WorkerOK(wk'[w])
      BY <2>6, <3>1, <3>2 DEF Types, WorkerTypes, WorkerOK, WorkerPc, Moves
    <3> QED BY <1>6, <3>1, <3>3, WorkersTyped DEF Types, WorkerTypes
  <2>8. unsynced' = unsynced \ {cl[p].frame}
    BY <1>5, <1>7, <1>11
  <2>9. cl'[c] = FreeClosure
    BY <1>4, <2>3
  <2> QED
    BY <1>6, <1>8, <1>9, <1>10, <1>11, <2>4, <2>5, <2>6, <2>7, <2>8, <2>9
       DEF Types
<1>12. CASE ~Resumes(p)
  <2>1. cl' = left
    BY <1>7, <1>12
  <2>2. ClosureTypes'
    BY <1>4, <1>6, <2>1, ClosuresTyped
  <2>3. \A x \in Closures : x # c => Removed(x, p, c, cl[p].status)
    BY <1>3, <1>4, <2>1 DEF Removed, Node, SameNode
  <2>4. Moves(w, "steal", wk[w].cur, Null, wk[w].vic, wk[w].frm, wk[w].why)
    BY <1>7, <1>12
       DEF Types, WorkerTypes, WorkerOK, WorkerFields, Moves, Others, Still
  <2>5. WorkerTypes'
    <3>1. /\ DOMAIN wk' = Workers /\ DOMAIN wk'[w] = WorkerFields
          /\ wk'[w].fib = wk[w].fib
          /\ wk'[w].ht = NoHt /\ wk'[w].lht = wk[w].lht /\ wk'[w].rht = wk[w].rht
          /\ \A x \in Workers : x # w => wk'[x] = wk[x]
      BY <1>7, <1>12 DEF Types, WorkerTypes, WorkerOK, WorkerFields
    <3>2. WorkerOK(wk'[w])
      BY <2>4, <3>1, NullTyped DEF Types, WorkerTypes, WorkerOK, WorkerPc, Moves
    <3> QED BY <1>6, <3>1, <3>2, WorkersTyped DEF Types, WorkerTypes
  <2>6. unsynced' = unsynced /\ cl'[c] = FreeClosure
    BY <1>4, <1>7, <1>12
  <2> QED BY <1>6, <1>8, <1>9, <1>10, <1>12, <2>2, <2>3, <2>4, <2>5, <2>6 DEF Types
<1> QED BY <1>11, <1>12

(* What sync_in_personality does next: it takes the busy lock again, for   *)
(* the sync.                                                               *)
LEMMA UnwindSyncStep ==
    ASSUME Types, NEW w \in Workers, UnwindSync(w)
    PROVE  /\ Types' /\ SameStacks /\ UNCHANGED <<at, unw>> /\ Goes(w, "sync")
           /\ busyLock[w] = Null /\ busyLock' = [busyLock EXCEPT ![w] = w]
<1>1. FrameTypes' /\ Frames' = Frames
  <2>1. pending' \subseteq pending
    BY DEF UnwindSync
  <2> QED BY <2>1 DEF UnwindSync, Types, FrameTypes, Frames
<1>2. WorkerTypes' /\ Goes(w, "sync")
  BY <1>1
     DEF UnwindSync, Types, WorkerTypes, WorkerOK, WorkerFields, WorkerPc, Goes,
         Moves, Others, Still
<1>3. ClosureTypes' /\ PoolTypes'
  BY TypesKept DEF UnwindSync, Types
<1>4. LockTypes'
  BY <1>1 DEF UnwindSync, Types, LockTypes
<1> QED
  BY <1>1, <1>2, <1>3, <1>4
     DEF UnwindSync, Types, SameStacks, SameTree, Kept, Node

(* What the personality function does after a sync that brought an earlier *)
(* exception: it takes that one over.                                      *)
LEMMA ReraiseStep ==
    ASSUME Types, NEW w \in Workers, Cur(w) \in Frames, Reraise(w)
    PROVE  /\ Types' /\ SameStacks /\ UNCHANGED <<at, busyLock>> /\ Goes(w, "unwind")
           /\ unw' = [unw EXCEPT ![Cur(w)].exn = wk[w].ht.view.exn] /\ wk[w].ht.view.exn # Null
<1>1. FrameTypes' /\ Frames' = Frames
  BY DEF Reraise, Types, FrameTypes, Frames
<1>2. Goes(w, "unwind")
  BY
     DEF Reraise, Synced, Types, WorkerTypes, WorkerOK, WorkerFields, Goes,
         Moves, Others, Still
<1>3. WorkerTypes'
  <2>1. TableOK([wk[w].ht EXCEPT !.view.exn = Null])
    BY DEF Types, WorkerTypes, WorkerOK, TableOK
  <2>2. DOMAIN wk' = Workers /\ DOMAIN wk'[w] = WorkerFields /\ wk'[w].fib = wk[w].fib
        /\ wk'[w].ht = [wk[w].ht EXCEPT !.view.exn = Null] /\ wk'[w].lht = wk[w].lht /\ wk'[w].rht = wk[w].rht
        /\ \A x \in Workers : x # w => wk'[x] = wk[x]
    BY DEF Reraise, Types, WorkerTypes, WorkerOK, WorkerFields
  <2>3. WorkerOK(wk'[w])
    BY <1>2, <2>1, <2>2 DEF Types, WorkerTypes, WorkerOK, WorkerPc, Goes, Moves
  <2> QED BY <2>2, <2>3, WorkersTyped DEF Reraise, Types, WorkerTypes
<1>4. ClosureTypes' /\ PoolTypes' /\ LockTypes'
  BY TypesKept DEF Reraise, Types
<1>5. wk[w].ht.view.exn # Null
  BY DEF Reraise, NoneBefore
<1> QED
  BY <1>1, <1>2, <1>3, <1>4, <1>5
     DEF Reraise, Types, SameStacks, SameTree, Kept, Node

(* What the personality function does in a synced frame: it goes to the    *)
(* landing pad or leaves the frame.                                        *)
LEMMA PersonalityStep ==
    ASSUME Types, NEW w \in Workers, Cur(w) \in Frames, Personality(w)
    PROVE  /\ Types' /\ SameStacks /\ UNCHANGED <<at, unw, busyLock>>
           /\ Goes(w, IF HasHandler(Cur(w)) \/ prog.kind[Cur(w)] = "expr" THEN "landing" ELSE "leave")
<1>1. FrameTypes' /\ Frames' = Frames
  BY TypesKept DEF Personality, Types, fvars, Frames
<1>2. WorkerTypes'
  <2>1. unw[Cur(w)].sp \in Fib
    BY DEF Types, FrameTypes
  <2> QED
    BY <1>1, <2>1
       DEF Personality, Types, WorkerTypes, WorkerOK, WorkerFields, WorkerPc
<1>3. Goes(w, IF HasHandler(Cur(w)) \/ prog.kind[Cur(w)] = "expr" THEN "landing" ELSE "leave")
  BY
     DEF Personality, Types, WorkerTypes, WorkerOK, WorkerFields, Goes, Moves,
         Others, Still
<1>4. ClosureTypes' /\ PoolTypes' /\ LockTypes'
  BY TypesKept DEF Personality, Types, fvars
<1> QED
  BY <1>1, <1>2, <1>3, <1>4
     DEF Personality, Types, SameStacks, SameTree, Kept, Node, fvars, evars

(* What __cilkrts_cleanup_fiber does: the handler goes on, or the helper   *)
(* does.                                                                   *)
LEMMA CleanupFiberStep ==
    ASSUME Types, NEW w \in Workers, Cur(w) \in Frames, CleanupFiber(w)
    PROVE  /\ Types' /\ SameStacks /\ UNCHANGED busyLock
           /\ Goes(w, IF HasHandler(Cur(w)) THEN "user" ELSE "helper")
           /\ HasHandler(Cur(w)) => /\ at' = [at EXCEPT ![Cur(w)] = prog.handler[Cur(w)]]
                                    /\ unw' = [unw EXCEPT ![Cur(w)] = NotUnwinding]
           /\ ~HasHandler(Cur(w)) => UNCHANGED <<at, unw>>
<1>1. FrameTypes' /\ Frames' = Frames
  <2>1. prog.handler[Cur(w)] \in Nat
    BY ProgramFrames DEF Types, FrameTypes
  <2> QED
    BY <2>1, NullTyped, SMTT(30)
       DEF CleanupFiber, Types, FrameTypes, Frames, NotUnwinding
<1>2. Goes(w, IF HasHandler(Cur(w)) THEN "user" ELSE "helper")
  BY SMTT(30)
     DEF CleanupFiber, Types, WorkerTypes, WorkerOK, WorkerFields, Goes, Moves,
         Others, Still
<1>3. WorkerTypes'
  <2>1. TableOK([wk[w].ht EXCEPT !.view = NoView]) /\ wk[w].ht.view.rsp \in Fib
    BY NullTyped DEF Types, WorkerTypes, WorkerOK, TableOK, NoView
  <2>2. /\ DOMAIN wk' = Workers /\ DOMAIN wk'[w] = WorkerFields
        /\ wk'[w].fib \in {wk[w].fib, wk[w].ht.view.rsp}
        /\ wk'[w].ht = [wk[w].ht EXCEPT !.view = NoView] /\ wk'[w].lht = wk[w].lht /\ wk'[w].rht = wk[w].rht
        /\ \A x \in Workers : x # w => wk'[x] = wk[x]
    BY DEF CleanupFiber, Types, WorkerTypes, WorkerOK, WorkerFields
  <2>3. WorkerOK(wk'[w])
    BY <1>2, <2>1, <2>2 DEF Types, WorkerTypes, WorkerOK, WorkerPc, Goes, Moves
  <2> QED BY <2>2, <2>3, WorkersTyped DEF CleanupFiber, Types, WorkerTypes
<1>4. ClosureTypes' /\ LockTypes'
  BY TypesKept DEF CleanupFiber, Types
<1>5. PoolTypes'
  <2>1. {wk[w].ht.view.fiber} \in SUBSET Fib /\ done' \in BOOLEAN
    BY DEF CleanupFiber, Types, WorkerTypes, WorkerOK, TableOK, PoolTypes
  <2> QED BY <2>1, ReleasedTyped DEF CleanupFiber, Types
<1> QED
  BY <1>1, <1>2, <1>3, <1>4, <1>5
     DEF CleanupFiber, Types, SameStacks, SameTree, Kept, Node

(* What __cilkrts_check_exception_raise does: the exception that the       *)
(* children left is raised, if there is one.                               *)
LEMMA CheckExceptionRaiseStep ==
    ASSUME Types, NEW w \in Workers, Cur(w) \in Frames, CheckExceptionRaise(w)
    PROVE  LET e == wk[w].ht.view.exn
           IN  /\ Types' /\ SameStacks /\ UNCHANGED busyLock
               /\ Goes(w, IF e = Null THEN "user" ELSE "unwind")
               /\ at' = IF e = Null THEN [at EXCEPT ![Cur(w)] = @ + 1] ELSE at
               /\ unw' = IF e = Null THEN unw ELSE [unw EXCEPT ![Cur(w)] = [exn |-> e, sp |-> wk[w].fib]]
<1> DEFINE e == wk[w].ht.view.exn
<1>1. FrameTypes' /\ Frames' = Frames
  <2>1. wk[w].fib \in Fib
    BY DEF Types, WorkerTypes, WorkerOK
  <2> QED BY <2>1 DEF CheckExceptionRaise, Types, FrameTypes, Frames
<1>2. Goes(w, IF e = Null THEN "user" ELSE "unwind")
  BY
     DEF CheckExceptionRaise, Types, WorkerTypes, WorkerOK, WorkerFields, Goes,
         Moves, Others, Still
<1>3. WorkerTypes'
  <2>1. TableOK([wk[w].ht EXCEPT !.made = TRUE, !.view = NoView])
    BY NullTyped DEF Types, WorkerTypes, WorkerOK, TableOK, NoView
  <2>2. DOMAIN wk' = Workers /\ DOMAIN wk'[w] = WorkerFields /\ wk'[w].fib = wk[w].fib
        /\ wk'[w].ht = [wk[w].ht EXCEPT !.made = TRUE, !.view = NoView] /\ wk'[w].lht = wk[w].lht /\ wk'[w].rht = wk[w].rht
        /\ \A x \in Workers : x # w => wk'[x] = wk[x]
    BY DEF CheckExceptionRaise, Types, WorkerTypes, WorkerOK, WorkerFields
  <2>3. WorkerOK(wk'[w])
    BY <1>2, <2>1, <2>2 DEF Types, WorkerTypes, WorkerOK, WorkerPc, Goes, Moves
  <2> QED BY <2>2, <2>3, WorkersTyped DEF CheckExceptionRaise, Types, WorkerTypes
<1>4. ClosureTypes' /\ LockTypes' /\ PoolTypes'
  BY TypesKept DEF CheckExceptionRaise, Types
<1> QED
  BY <1>1, <1>2, <1>3, <1>4
     DEF CheckExceptionRaise, Types, SameStacks, SameTree, Kept, Node

(* What a thief does first: it takes the victim's busy lock.               *)
LEMMA StealLockStep ==
    ASSUME Types, NEW w \in Workers, NEW v \in Workers, StealLock(w, v)
    PROVE  /\ Types' /\ SameStacks /\ UNCHANGED <<at, unw>>
           /\ busyLock[v] = Null /\ busyLock' = [busyLock EXCEPT ![v] = w]
           /\ Moves(w, "peek", wk[w].cur, wk[w].cl, v, wk[w].frm, wk[w].why)
<1>1. FrameTypes' /\ Frames' = Frames
  BY TypesKept DEF StealLock, Types, fvars, Frames
<1>2. WorkerTypes' /\ Moves(w, "peek", wk[w].cur, wk[w].cl, v, wk[w].frm, wk[w].why)
  BY <1>1
     DEF StealLock, Types, WorkerTypes, WorkerOK, WorkerFields, WorkerPc, Moves,
         Others, Still
<1>3. ClosureTypes' /\ PoolTypes'
  BY TypesKept DEF StealLock, Types, fvars
<1>4. LockTypes'
  BY <1>1 DEF StealLock, Types, LockTypes
<1> QED
  BY <1>1, <1>2, <1>3, <1>4
     DEF StealLock, Types, SameStacks, SameTree, Kept, Node, fvars, evars

(* What a thief does that wins: it takes the oldest frame off the victim's *)
(* deque.                                                                  *)
LEMMA StealWinStep ==
    ASSUME Types, NEW w \in Workers, wk[w].vic \in Workers, StealWin(w)
    PROVE  LET v == wk[w].vic
           IN  /\ Types' /\ SameTree /\ UNCHANGED <<fvars, busy, busyLock>>
               /\ busy[v] \in Closures /\ dq[v] # <<>> /\ Head(dq[v]) \in Frames
               /\ dq' = [dq EXCEPT ![v] = Tail(@)]
               /\ Moves(w, "promote", wk[w].cur, busy[v], v, Head(dq[v]), wk[w].why)
<1> DEFINE v == wk[w].vic
<1> DEFINE t == busy[v]
<1>1. FrameTypes' /\ Frames' = Frames
  BY TypesKept DEF StealWin, Types, fvars, Frames
<1>2. t \in Closures /\ cl[t].status # "invalid"
  BY DEF StealWin, Types, LockTypes
<1>3. dq[v] # <<>> /\ Head(dq[v]) \in Frames /\ Tail(dq[v]) \in Seq(Frames)
  <2>1. dq[v] \in Seq(Frames) /\ dq[v] # <<>>
    BY DEF Types, LockTypes, StealWin
  <2> QED BY <2>1
<1>4. Moves(w, "promote", wk[w].cur, t, v, Head(dq[v]), wk[w].why)
  BY
     DEF StealWin, Types, WorkerTypes, WorkerOK, WorkerFields, Moves, Others,
         Still
<1>5. WorkerTypes'
  <2>1. /\ DOMAIN wk' = Workers /\ DOMAIN wk'[w] = WorkerFields
        /\ wk'[w].fib = wk[w].fib
        /\ wk'[w].ht = wk[w].ht /\ wk'[w].rht = wk[w].rht /\ wk'[w].lht = wk[w].lht
        /\ \A x \in Workers : x # w => wk'[x] = wk[x]
    BY DEF StealWin, Types, WorkerTypes, WorkerOK, WorkerFields
  <2>2. WorkerOK(wk'[w])
    BY <1>2, <1>3, <1>4, <2>1 DEF Types, WorkerTypes, WorkerOK, WorkerPc, Moves
  <2> QED BY <2>1, <2>2, WorkersTyped DEF StealWin, Types, WorkerTypes, fvars
<1>6. cl' = [cl EXCEPT ![t] = [cl[t] EXCEPT !.lock = w]]
  BY DEF StealWin
<1>7. LockTypes'
  BY <1>1, <1>3 DEF StealWin, Types, LockTypes
<1>8. PoolTypes'
  BY TypesKept DEF StealWin, Types
<1> HIDE DEF t
<1>9. ClosureTypes' /\ SameTree
  BY <1>1, <1>2, <1>6
     DEF Types, ClosureTypes, ClosureOK, ClosureFields, SameTree, Kept, Node
<1> QED BY <1>1, <1>2, <1>3, <1>4, <1>5, <1>7, <1>8, <1>9 DEF StealWin, Types, t

(* What a thief does that loses: it gives the busy lock back.              *)
LEMMA StealLoseStep ==
    ASSUME Types, NEW w \in Workers, wk[w].vic \in Workers,
           busy[wk[w].vic] # Null => cl[busy[wk[w].vic]].status = "running",
           StealLose(w)
    PROVE  LET v == wk[w].vic
           IN  /\ Types' /\ SameStacks /\ UNCHANGED <<at, unw>>
               /\ busyLock' = [busyLock EXCEPT ![v] = Null]
               /\ Moves(w, "steal", wk[w].cur, wk[w].cl, Null, wk[w].frm, wk[w].why)
<1> DEFINE v == wk[w].vic
<1>1. FrameTypes' /\ Frames' = Frames
  BY TypesKept DEF StealLose, Types, fvars, Frames
<1>2. busyLock' = [busyLock EXCEPT ![v] = Null] /\ cl' = cl
  BY DEF StealLose
<1>3. /\ WorkerTypes'
      /\ Moves(w, "steal", wk[w].cur, wk[w].cl, Null, wk[w].frm, wk[w].why)
  BY <1>1
     DEF StealLose, Types, WorkerTypes, WorkerOK, WorkerFields, WorkerPc, Moves,
         Others, Still
<1>4. ClosureTypes' /\ PoolTypes'
  BY <1>2, TypesKept DEF StealLose, Types, fvars
<1>5. LockTypes'
  BY <1>1, <1>2 DEF StealLose, Types, LockTypes, Null
<1> QED
  BY <1>1, <1>2, <1>3, <1>4, <1>5
     DEF StealLose, Types, SameStacks, SameTree, Kept, Node, fvars, evars

(* What a thief does after a promotion: it gives the busy lock back.       *)
LEMMA StealUnlockBusyStep ==
    ASSUME Types, NEW w \in Workers, StealUnlockBusy(w)
    PROVE  /\ Types' /\ SameStacks /\ UNCHANGED <<at, unw>> /\ Goes(w, "finish")
           /\ busyLock' = [busyLock EXCEPT ![wk[w].vic] = Null]
<1>1. FrameTypes' /\ Frames' = Frames
  BY TypesKept DEF StealUnlockBusy, Types, fvars, Frames
<1>2. WorkerTypes' /\ Goes(w, "finish")
  BY <1>1
     DEF StealUnlockBusy, Types, WorkerTypes, WorkerOK, WorkerFields, WorkerPc,
         Goes, Moves, Others, Still
<1>3. ClosureTypes' /\ PoolTypes'
  BY TypesKept DEF StealUnlockBusy, Types, fvars
<1>4. LockTypes'
  BY <1>1 DEF StealUnlockBusy, Types, LockTypes, Null
<1> QED
  BY <1>1, <1>2, <1>3, <1>4
     DEF StealUnlockBusy, Types, SameStacks, SameTree, Kept, Node, fvars, evars

(* What finish_promote does: the stolen frame is unsynced from now on.     *)
LEMMA StealFinishStep ==
    ASSUME Types, NEW w \in Workers, wk[w].cl \in Closures,
           cl[wk[w].cl].status = "running",
           wk[w].frm \in Frames, StealFinish(w)
    PROVE  /\ Types' /\ SameTree /\ UNCHANGED <<prog, at, home, stolen, unw, busy, busyLock, dq>>
           /\ unsynced' = unsynced \cup {wk[w].frm}
           /\ Moves(w, "install", wk[w].cur, wk[w].cl, Null, Null, "stolen")
<1>1. FrameTypes' /\ Frames' = Frames
  BY DEF StealFinish, Types, FrameTypes, Frames, evars
<1>2. WorkerTypes' /\ Moves(w, "install", wk[w].cur, wk[w].cl, Null, Null, "stolen")
  BY <1>1
     DEF StealFinish, Types, WorkerTypes, WorkerOK, WorkerFields, WorkerPc,
         Moves, Others, Still
<1>3. cl' = [cl EXCEPT ![wk[w].cl] = [cl[wk[w].cl] EXCEPT !.status = "running", !.lock = Null]]
  BY DEF StealFinish, Types, ClosureTypes
<1>4. ClosureTypes' /\ SameTree
  BY <1>1, <1>3
     DEF Types, ClosureTypes, ClosureOK, ClosureFields, SameTree, Kept, Node
<1>5. PoolTypes' /\ LockTypes'
  BY TypesKept DEF StealFinish, Types
<1> QED BY <1>1, <1>2, <1>4, <1>5 DEF StealFinish, Types, evars

(* What the end of the region does to the worker that ends it.             *)
LEMMA EndRegionStep ==
    ASSUME Types, NEW w \in Workers, NEW h, TableOK(h), prog' = prog, EndRegion(w, h)
    PROVE  WorkerTypes' /\ Goes(w, "exit") /\ done' \in BOOLEAN
<1>1. Frames' = Frames /\ Boss \in Workers
  BY ProgramsAssumption DEF Frames, Boss, Workers
<1>2. Goes(w, "exit")
  BY <1>1
     DEF EndRegion, Types, WorkerTypes, WorkerOK, WorkerFields, Goes, Moves,
         Others, Still
<1>3. WorkerTypes'
  BY <1>1, NullTyped
     DEF EndRegion, Types, WorkerTypes, WorkerOK, WorkerFields, WorkerPc
<1> QED BY <1>2, <1>3 DEF EndRegion

(* What the end of the root frame does.                                    *)
LEMMA RootDoneStep ==
    ASSUME Types, NEW w \in Workers, RootDone(w)
    PROVE  Types' /\ SameStacks /\ UNCHANGED <<at, unw, busyLock>> /\ Goes(w, "exit")
<1>1. WorkerTypes' /\ Goes(w, "exit") /\ done' \in BOOLEAN
  BY EndRegionStep DEF RootDone, Types, WorkerTypes, WorkerOK, fvars
<1>2. FrameTypes' /\ ClosureTypes' /\ LockTypes'
  BY TypesKept DEF RootDone, Types, fvars
<1>3. PoolTypes'
  BY <1>1 DEF RootDone, Types, PoolTypes
<1> QED
  BY <1>1, <1>2, <1>3
     DEF RootDone, Types, SameStacks, SameTree, Kept, Node, fvars, evars

(* What an exception does that leaves the root frame.                      *)
LEMMA RootThrowsStep ==
    ASSUME Types, NEW w \in Workers, RootThrows(w)
    PROVE  /\ Types' /\ SameStacks /\ UNCHANGED <<at, busyLock>> /\ Goes(w, "exit")
           /\ unw' = [unw EXCEPT ![Root] = NotUnwinding]
<1>1. TableOK([wk[w].ht EXCEPT !.view = NoView]) /\ wk[w].ht.view.fiber \in Fib
  BY NullTyped DEF Types, WorkerTypes, WorkerOK, TableOK, NoView
<1>2. WorkerTypes' /\ Goes(w, "exit") /\ done' \in BOOLEAN
  BY <1>1, EndRegionStep DEF RootThrows
<1>3. FrameTypes'
  BY NullTyped DEF RootThrows, Types, FrameTypes, NotUnwinding, Frames
<1>4. ClosureTypes' /\ LockTypes'
  BY TypesKept DEF RootThrows, Types
<1>5. PoolTypes'
  <2>1. {wk[w].ht.view.fiber} \in SUBSET Fib
    BY <1>1
  <2> QED BY <1>2, <2>1, ReleasedTyped DEF RootThrows, Types
<1> QED
  BY <1>2, <1>3, <1>4, <1>5
     DEF RootThrows, Types, SameStacks, SameTree, Kept, Node

(* What the worker does that leaves the region: it has no closure any      *)
(* more.                                                                   *)
LEMMA RootExitStep ==
    ASSUME Types, NEW w \in Workers, RootExit(w)
    PROVE  /\ Types' /\ SameTree /\ UNCHANGED <<fvars, busyLock, dq>>
           /\ busy' = [busy EXCEPT ![w] = Null]
           /\ Moves(w, "idle", Null, wk[w].cl, wk[w].vic, wk[w].frm, wk[w].why)
<1>1. FrameTypes' /\ Frames' = Frames
  BY TypesKept DEF RootExit, Types, fvars, Frames
<1>2. WorkerTypes' /\ Moves(w, "idle", Null, wk[w].cl, wk[w].vic, wk[w].frm, wk[w].why)
  BY <1>1
     DEF RootExit, Types, WorkerTypes, WorkerOK, WorkerFields, WorkerPc, Moves,
         Others, Still
<1>3. ClosureTypes' /\ PoolTypes'
  BY TypesKept DEF RootExit, Types, fvars
<1>4. LockTypes'
  BY <1>1 DEF RootExit, Types, LockTypes
<1> QED BY <1>1, <1>2, <1>3, <1>4 DEF RootExit, Types, SameTree, Kept, Node

(* What a thief does that sees the region over: it stops.                  *)
LEMMA StopStealingStep ==
    ASSUME Types, NEW w \in Workers, StopStealing(w)
    PROVE  Types' /\ SameStacks /\ UNCHANGED <<at, unw, busyLock>> /\ Goes(w, "idle")
<1>1. FrameTypes' /\ Frames' = Frames
  BY TypesKept DEF StopStealing, Types, fvars, Frames
<1>2. WorkerTypes' /\ Goes(w, "idle")
  BY <1>1
     DEF StopStealing, Types, WorkerTypes, WorkerOK, WorkerFields, WorkerPc,
         Goes, Moves, Others, Still
<1>3. ClosureTypes' /\ PoolTypes' /\ LockTypes'
  BY TypesKept DEF StopStealing, Types, fvars
<1> QED
  BY <1>1, <1>2, <1>3
     DEF StopStealing, Types, SameStacks, SameTree, Kept, Node, fvars, evars

(* The place in the tree that the record of a closure gives it.            *)
NodeOf(r, st, fr, jn, cp, sp, ls, rs, rm) ==
    /\ r.status = st /\ r.frame = fr /\ r.join = jn
    /\ r.callParent = cp /\ r.spawnParent = sp
    /\ r.leftSib = ls /\ r.rightSib = rs /\ r.rightMost = rm

(* A pool that is not empty has a fiber to give.                           *)
LEMMA NewFiberTyped ==
    ASSUME PoolTypes, NEW w \in Workers, freeFibers[PoolFor(w)] # {}
    PROVE  NewFiber(w) \in Fibers /\ PoolFor(w) \in Workers \cup {Null}
<1>1. PoolFor(w) \in Workers \cup {Null}
  BY DEF PoolFor
<1>2. freeFibers[PoolFor(w)] \in SUBSET Fibers /\ Fibers \subseteq Nat
  BY <1>1, ProgramsAssumption DEF PoolTypes, Fibers
<1> QED BY <1>1, <1>2, LeastElement DEF NewFiber

(* Closure_create returns a closure that is not in use.                    *)
LEMMA UnusedClosure ==
    ASSUME NEW used, Unused(used) # {}
    PROVE  NewClosure(used) \in Closures /\ NewClosure(used) \notin used
           /\ cl[NewClosure(used)].status = "invalid"
<1>1. Unused(used) \in SUBSET Nat
  BY ProgramsAssumption DEF Unused, Closures
<1>2. NewClosure(used) \in Unused(used)
  BY <1>1, LeastElement DEF NewClosure
<1> QED BY <1>2 DEF Unused

(* What promote_child does, however the parent came about: c is the new    *)
(* right-most child of p, and what the victim works on.                    *)
LEMMA PromotedStep ==
    ASSUME Types, NEW w \in Workers, NEW cs, NEW p \in Closures, NEW c \in Closures,
           p # c,
           DOMAIN cs = Closures, \A x \in Closures : ClosureOK(cs[x]),
           NEW fiber \in Fib,
           cs[p].status # "invalid", wk[w].frm \in Frames, wk[w].vic \in Workers,
           freeFibers[PoolFor(w)] # {},
           cs[p].rightMost # c, cs[p].rightMost # p,
           cs[p].rightMost # Null => cs[cs[p].rightMost].status # "invalid",
           Promoted(w, cs, p, c, fiber)
    PROVE  LET l == cs[p].rightMost
           IN  /\ Types' /\ UNCHANGED <<prog, at, home, unsynced, unw, busyLock, dq>>
               /\ Node(c, "running", Null, 0, Null, p, l, Null, Null)
               /\ Node(p, cs[p].status, wk[w].frm, cs[p].join + 1, cs[p].callParent,
                       cs[p].spawnParent, cs[p].leftSib, cs[p].rightSib, c)
               /\ \A x \in Closures : x # c /\ x # p =>
                    Node(x, cs[x].status, cs[x].frame, cs[x].join, cs[x].callParent, cs[x].spawnParent,
                         cs[x].leftSib, IF x = l THEN c ELSE cs[x].rightSib, cs[x].rightMost)
               /\ busy' = [busy EXCEPT ![wk[w].vic] = c]
               /\ stolen' = stolen \cup {wk[w].frm}
               /\ Moves(w, "unbusy", wk[w].cur, p, wk[w].vic, wk[w].frm, wk[w].why)
<1> DEFINE l == cs[p].rightMost
<1> DEFINE new == [FreeClosure EXCEPT !.status = "running", !.spawnParent = p, !.fiber = fiber]
<1> DEFINE P == [cs EXCEPT ![p] = [@ EXCEPT !.frame = wk[w].frm, !.fiber = NewFiber(w),
                                      !.orig = OrigRsp(cs[p], fiber)],
                           ![c] = new]
<1> DEFINE L == [P EXCEPT ![c].leftSib = l, ![p].rightMost = c, ![p].join = @ + 1]
<1>1. NewFiber(w) \in Fibers /\ PoolFor(w) \in Workers \cup {Null}
  BY NewFiberTyped DEF Types
<1>2. /\ OrigRsp(cs[p], fiber) \in Fib /\ l \in Closures \cup {Null}
      /\ NewFiber(w) \in Fib
  BY <1>1 DEF OrigRsp, ClosureOK, Fib
<1>3. ClosureOK(new) /\ NodeOf(new, "running", Null, 0, Null, p, Null, Null, Null)
  BY FreeClosureTyped DEF ClosureOK, ClosureFields, FreeClosure, NodeOf
<1> HIDE DEF new
<1>4. DOMAIN P = Closures /\ P[c] = new
      /\ P[p] = [cs[p] EXCEPT !.frame = wk[w].frm, !.fiber = NewFiber(w), !.orig = OrigRsp(cs[p], fiber)]
      /\ \A x \in Closures : x # c /\ x # p => P[x] = cs[x]
  OBVIOUS
<1>5. cl' = AddChild(P, p, c)
  BY DEF Promoted, new
<1>7. ClosureOK(cs[p])
  OBVIOUS
<1> HIDE DEF P
<1>8. /\ ClosureOK(P[p])
      /\ NodeOf(P[p], cs[p].status, wk[w].frm, cs[p].join, cs[p].callParent,
                       cs[p].spawnParent, cs[p].leftSib, cs[p].rightSib, l)
  BY <1>2, <1>4, <1>7 DEF ClosureOK, ClosureFields, NodeOf
<1>6. cl' = IF l = Null THEN L ELSE [L EXCEPT ![l].rightSib = c]
  <2>1. P[p].rightMost = l
    BY <1>8 DEF NodeOf
  <2>2. cl' = LET left == P[p].rightMost
                  linked == [P EXCEPT ![c].leftSib = left, ![p].rightMost = c, ![p].join = @ + 1]
              IN  IF left = Null THEN linked ELSE [linked EXCEPT ![left].rightSib = c]
    BY <1>5 DEF AddChild
  <2> HIDE DEF l
  <2> QED BY <2>1, <2>2
<1>9. DOMAIN L = Closures /\ L[c] = [new EXCEPT !.leftSib = l]
      /\ L[p] = [P[p] EXCEPT !.rightMost = c, !.join = P[p].join + 1]
      /\ \A x \in Closures : x # c /\ x # p => L[x] = cs[x]
  <2>1. DOMAIN L = Closures /\ L[c] = [new EXCEPT !.leftSib = l] /\ \A x \in Closures : x # c /\ x # p => L[x] = cs[x]
    BY <1>4
  <2>2. L[p] = [P[p] EXCEPT !.rightMost = c, !.join = P[p].join + 1]
    BY <1>4, <1>8 DEF ClosureOK, ClosureFields
  <2> QED BY <2>1, <2>2
<1> HIDE DEF L
<1>10. ClosureOK(L[c]) /\ NodeOf(L[c], "running", Null, 0, Null, p, l, Null, Null)
  BY <1>2, <1>3, <1>9 DEF ClosureOK, ClosureFields, NodeOf
<1>11. /\ ClosureOK(L[p])
       /\ NodeOf(L[p], cs[p].status, wk[w].frm, cs[p].join + 1, cs[p].callParent,
                       cs[p].spawnParent, cs[p].leftSib, cs[p].rightSib, c)
  BY <1>8, <1>9 DEF ClosureOK, ClosureFields, NodeOf
<1>12. /\ DOMAIN cl' = Closures /\ cl'[c] = L[c] /\ cl'[p] = L[p]
       /\ \A x \in Closures : x # c /\ x # p /\ x # l => cl'[x] = cs[x]
       /\ l # Null => cl'[l] = [cs[l] EXCEPT !.rightSib = c]
  <2>1. CASE l = Null
    BY <1>6, <1>9, <2>1
  <2>2. CASE l # Null
    <3>1. l \in Closures /\ l # c /\ l # p
      BY <1>2, <2>2
    <3> HIDE DEF l
    <3> QED BY <1>6, <1>9, <2>2, <3>1
  <2> QED BY <2>1, <2>2
<1>13. l # Null => /\ ClosureOK(cl'[l])
                   /\ NodeOf(cl'[l], cs[l].status, cs[l].frame, cs[l].join, cs[l].callParent,
                             cs[l].spawnParent, cs[l].leftSib, c, cs[l].rightMost)
  <2>1. SUFFICES ASSUME l # Null PROVE /\ ClosureOK(cl'[l])
                   /\ NodeOf(cl'[l], cs[l].status, cs[l].frame, cs[l].join, cs[l].callParent,
                             cs[l].spawnParent, cs[l].leftSib, c, cs[l].rightMost)
    OBVIOUS
  <2>2. l \in Closures /\ cs[l].status # "invalid"
    BY <1>2, <2>1
  <2>3. ClosureOK(cs[l])
    BY <2>2
  <2>4. cl'[l] = [cs[l] EXCEPT !.rightSib = c]
    BY <1>12, <2>1
  <2> HIDE DEF l
  <2> QED BY <2>2, <2>3, <2>4 DEF ClosureOK, ClosureFields, NodeOf
<1>14. ClosureTypes'
  <2>1. \A x \in Closures : ClosureOK(cl'[x])
    <3> SUFFICES ASSUME NEW x \in Closures PROVE ClosureOK(cl'[x])
      OBVIOUS
    <3>1. x # Null
      BY DEF Null, Closures
    <3>2. CASE x = c \/ x = p
      BY <3>2, <1>10, <1>11, <1>12
    <3>3. CASE x # c /\ x # p /\ x # l
      <4>1. cl'[x] = cs[x]
        BY <3>3, <1>12
      <4> QED BY <4>1
    <3>4. CASE x = l
      BY <3>1, <3>4, <1>13
    <3> QED BY <3>2, <3>3, <3>4
  <2>2. prog' = prog
    BY DEF Promoted
  <2> QED BY <1>12, <2>1, <2>2, ClosuresTyped
<1>15. Node(c, "running", Null, 0, Null, p, l, Null, Null)
  BY <1>10, <1>12 DEF Node, NodeOf
<1>16. Node(p, cs[p].status, wk[w].frm, cs[p].join + 1, cs[p].callParent,
                       cs[p].spawnParent, cs[p].leftSib, cs[p].rightSib, c)
  BY <1>11, <1>12 DEF Node, NodeOf
<1>17. \A x \in Closures : x # c /\ x # p =>
                    Node(x, cs[x].status, cs[x].frame, cs[x].join, cs[x].callParent, cs[x].spawnParent,
                         cs[x].leftSib, IF x = l THEN c ELSE cs[x].rightSib, cs[x].rightMost)
  <2> SUFFICES ASSUME NEW x \in Closures, x # c, x # p
               PROVE  Node(x, cs[x].status, cs[x].frame, cs[x].join, cs[x].callParent, cs[x].spawnParent,
                           cs[x].leftSib, IF x = l THEN c ELSE cs[x].rightSib, cs[x].rightMost)
    OBVIOUS
  <2>1. x # Null
    BY DEF Null, Closures
  <2>2. CASE x = l
    <3>1. NodeOf(cl'[l], cs[l].status, cs[l].frame, cs[l].join, cs[l].callParent,
                             cs[l].spawnParent, cs[l].leftSib, c, cs[l].rightMost)
      BY <2>1, <2>2, <1>13
    <3> HIDE DEF l
    <3> QED BY <2>2, <3>1 DEF Node, NodeOf
  <2>3. CASE x # l
    <3>1. cl'[x] = cs[x]
      BY <2>3, <1>12
    <3> HIDE DEF l
    <3> QED BY <2>3, <3>1 DEF Node
  <2> QED BY <2>2, <2>3
<1>18. FrameTypes' /\ Frames' = Frames
  BY DEF Promoted, Types, FrameTypes, Frames, evars
<1>19. /\ WorkerTypes'
       /\ Moves(w, "unbusy", wk[w].cur, p, wk[w].vic, wk[w].frm, wk[w].why)
  BY <1>18
     DEF Promoted, Types, WorkerTypes, WorkerOK, WorkerFields, WorkerPc, Moves,
         Others, Still
<1>20. LockTypes'
  BY <1>18 DEF Promoted, Types, LockTypes
<1>21. PoolTypes'
  <2>1. /\ freeFibers' = [freeFibers EXCEPT ![PoolFor(w)] = @ \ {NewFiber(w)}]
        /\ done' = done
    BY DEF Promoted
  <2> QED BY <1>1, <2>1 DEF Types, PoolTypes
<1> QED
  BY <1>14, <1>15, <1>16, <1>17, <1>18, <1>19, <1>20, <1>21
     DEF Promoted, Types, evars

(* A new child c of p, to the right of l, runs on the victim's side.       *)
NewChild(w, p, c, l) ==
    /\ c \in Closures /\ c # p /\ cl[c].status = "invalid"
    /\ Node(c, "running", Null, 0, Null, p, l, Null, Null)
    /\ busy' = [busy EXCEPT ![wk[w].vic] = c]
    /\ stolen' = stolen \cup {wk[w].frm}
    /\ Moves(w, "unbusy", wk[w].cur, p, wk[w].vic, wk[w].frm, wk[w].why)
    /\ UNCHANGED <<prog, at, home, unsynced, unw, busyLock, dq>>

(* What promote_child does with the frame of the victim's closure: the     *)
(* closure gets a child.                                                   *)
LEMMA PromoteOwnStep ==
    ASSUME Types, NEW w \in Workers, NEW t \in Closures, wk[w].cl = t,
           cl[t].status = "running", wk[w].frm \in Frames, wk[w].vic \in Workers,
           cl[t].rightMost # t,
           cl[t].rightMost # Null => cl[cl[t].rightMost].status # "invalid",
           PromoteOwn(w)
    PROVE  /\ Types' /\ OwnsFrame(t, wk[w].frm)
           /\ \E c \in Closures :
                /\ NewChild(w, t, c, cl[t].rightMost) /\ cl[t].rightMost # c
                /\ Node(t, "running", wk[w].frm, cl[t].join + 1, cl[t].callParent,
                        cl[t].spawnParent, cl[t].leftSib, cl[t].rightSib, c)
                /\ \A x \in Closures : x # c /\ x # t =>
                     Node(x, cl[x].status, cl[x].frame, cl[x].join, cl[x].callParent, cl[x].spawnParent,
                          cl[x].leftSib, IF x = cl[t].rightMost THEN c ELSE cl[x].rightSib, cl[x].rightMost)
<1> DEFINE c == NewClosure({})
<1>1. HasRoom(w, {}) /\ OwnsFrame(t, wk[w].frm) /\ Promoted(w, cl, t, c, cl[t].fiber)
  BY DEF PromoteOwn
<1>2. c \in Closures /\ cl[c].status = "invalid" /\ freeFibers[PoolFor(w)] # {}
  BY <1>1, UnusedClosure DEF HasRoom
<1> HIDE DEF c
<1>3. c # t /\ cl[t].rightMost # c
  BY <1>2 DEF Types, ClosureTypes, ClosureOK, Null, Closures
<1>4. /\ DOMAIN cl = Closures /\ (\A x \in Closures : ClosureOK(cl[x]))
      /\ cl[t].fiber \in Fib
  BY DEF Types, ClosureTypes, ClosureOK
<1>5. LET l == cl[t].rightMost
      IN       /\ Types' /\ UNCHANGED <<prog, at, home, unsynced, unw, busyLock, dq>>
               /\ Node(c, "running", Null, 0, Null, t, l, Null, Null)
               /\ Node(t, cl[t].status, wk[w].frm, cl[t].join + 1, cl[t].callParent,
                       cl[t].spawnParent, cl[t].leftSib, cl[t].rightSib, c)
               /\ \A x \in Closures : x # c /\ x # t =>
                    Node(x, cl[x].status, cl[x].frame, cl[x].join, cl[x].callParent, cl[x].spawnParent,
                         cl[x].leftSib, IF x = l THEN c ELSE cl[x].rightSib, cl[x].rightMost)
               /\ busy' = [busy EXCEPT ![wk[w].vic] = c]
               /\ stolen' = stolen \cup {wk[w].frm}
               /\ Moves(w, "unbusy", wk[w].cur, t, wk[w].vic, wk[w].frm, wk[w].why)
  BY <1>1, <1>2, <1>3, <1>4, PromotedStep
<1>6. NewChild(w, t, c, cl[t].rightMost)
  <2>1. Node(c, "running", Null, 0, Null, t, cl[t].rightMost, Null, Null)
    BY <1>5
  <2>2. Moves(w, "unbusy", wk[w].cur, t, wk[w].vic, wk[w].frm, wk[w].why)
    BY <1>5
  <2>3. UNCHANGED <<prog, at, home, unsynced, unw, busyLock, dq>>
    BY <1>5
  <2>4. busy' = [busy EXCEPT ![wk[w].vic] = c] /\ stolen' = stolen \cup {wk[w].frm}
    BY <1>5
  <2> QED BY <1>2, <1>3, <2>1, <2>2, <2>3, <2>4 DEF NewChild
<1>7. Node(t, "running", wk[w].frm, cl[t].join + 1, cl[t].callParent,
                        cl[t].spawnParent, cl[t].leftSib, cl[t].rightSib, c)
  BY <1>5
<1> QED BY <1>1, <1>2, <1>3, <1>5, <1>6, <1>7

(* What promote_child does with any other frame: the victim's closure is   *)
(* suspended, as it has called the closure of that frame, and that one     *)
(* gets a child.                                                           *)
LEMMA PromoteCalleeStep ==
    ASSUME Types, NEW w \in Workers, NEW t \in Closures, wk[w].cl = t,
           cl[t].status = "running", wk[w].frm \in Frames, wk[w].vic \in Workers,
           PromoteCallee(w)
    PROVE  /\ Types' /\ ~OwnsFrame(t, wk[w].frm)
           /\ \E p, c \in Closures :
                /\ p # t /\ c # t /\ cl[p].status = "invalid"
                /\ NewChild(w, p, c, Null)
                /\ Node(p, "running", wk[w].frm, 1, t, Null, Null, Null, c)
                /\ Node(t, "suspended", cl[t].frame, cl[t].join + 1, cl[t].callParent,
                        cl[t].spawnParent, cl[t].leftSib, cl[t].rightSib, cl[t].rightMost)
                /\ \A x \in Closures : x # c /\ x # t /\ x # p => Kept(x)
<1> DEFINE p == NewClosure({})
<1> DEFINE c == NewClosure({p})
<1> DEFINE new == [FreeClosure EXCEPT !.status = "running", !.callParent = t, !.lock = w]
<1> DEFINE cs == [cl EXCEPT ![t].join = @ + 1, ![t].status = "suspended", ![t].lock = Null, ![p] = new]
<1>1. HasRoom(w, {p}) /\ ~OwnsFrame(t, wk[w].frm) /\ Promoted(w, cs, p, c, cl[t].fiber)
  BY DEF PromoteCallee
<1>2. /\ c \in Closures /\ c # p /\ cl[c].status = "invalid"
      /\ freeFibers[PoolFor(w)] # {}
  BY <1>1, UnusedClosure DEF HasRoom
<1>3. p \in Closures /\ cl[p].status = "invalid"
  <2>1. Unused({}) # {}
    BY <1>2 DEF Unused
  <2> QED BY <2>1, UnusedClosure
<1> HIDE DEF c, p
<1>4. c # t /\ p # t
  BY <1>2, <1>3
<1>5. ClosureOK(new) /\ NodeOf(new, "running", Null, 0, t, Null, Null, Null, Null)
  BY FreeClosureTyped DEF ClosureOK, ClosureFields, FreeClosure, NodeOf
<1> HIDE DEF new
<1>6. ClosureOK(cl[t]) /\ DOMAIN cl = Closures
  BY DEF Types, ClosureTypes
<1>7. DOMAIN cs = Closures /\ cs[p] = new
      /\ cs[t] = [cl[t] EXCEPT !.join = cl[t].join + 1, !.status = "suspended", !.lock = Null]
      /\ \A x \in Closures : x # p /\ x # t => cs[x] = cl[x]
  <2>1. DOMAIN cs = Closures /\ cs[p] = new /\ \A x \in Closures : x # p /\ x # t => cs[x] = cl[x]
    BY <1>3, <1>4, <1>6
  <2>2. cs[t] = [cl[t] EXCEPT !.join = cl[t].join + 1, !.status = "suspended", !.lock = Null]
    BY <1>3, <1>4, <1>6 DEF ClosureOK, ClosureFields
  <2> QED BY <2>1, <2>2
<1> HIDE DEF cs
<1>8. /\ ClosureOK(cs[t])
      /\ NodeOf(cs[t], "suspended", cl[t].frame, cl[t].join + 1, cl[t].callParent,
                        cl[t].spawnParent, cl[t].leftSib, cl[t].rightSib, cl[t].rightMost)
  BY <1>6, <1>7 DEF ClosureOK, ClosureFields, NodeOf
<1>9. \A x \in Closures : ClosureOK(cs[x])
  BY <1>5, <1>7, <1>8 DEF Types, ClosureTypes
<1>10. /\ cs[p].status = "running" /\ cs[p].rightMost = Null /\ Null \notin Closures
       /\ cl[t].fiber \in Fib
       /\ cs[p].join = 0 /\ cs[p].callParent = t /\ cs[p].spawnParent = Null
       /\ cs[p].leftSib = Null /\ cs[p].rightSib = Null
  BY <1>5, <1>6, <1>7 DEF NodeOf, Null, Closures, ClosureOK
<1>11. cs[p].status # "invalid" /\ cs[p].rightMost # c /\ cs[p].rightMost # p
       /\ (cs[p].rightMost # Null => cs[cs[p].rightMost].status # "invalid")
  BY <1>2, <1>3, <1>10
<1>12. LET l == cs[p].rightMost
           IN  /\ Types' /\ UNCHANGED <<prog, at, home, unsynced, unw, busyLock, dq>>
               /\ Node(c, "running", Null, 0, Null, p, l, Null, Null)
               /\ Node(p, cs[p].status, wk[w].frm, cs[p].join + 1, cs[p].callParent,
                       cs[p].spawnParent, cs[p].leftSib, cs[p].rightSib, c)
               /\ \A x \in Closures : x # c /\ x # p =>
                    Node(x, cs[x].status, cs[x].frame, cs[x].join, cs[x].callParent, cs[x].spawnParent,
                         cs[x].leftSib, IF x = l THEN c ELSE cs[x].rightSib, cs[x].rightMost)
               /\ busy' = [busy EXCEPT ![wk[w].vic] = c]
               /\ stolen' = stolen \cup {wk[w].frm}
               /\ Moves(w, "unbusy", wk[w].cur, p, wk[w].vic, wk[w].frm, wk[w].why)
  BY <1>1, <1>2, <1>3, <1>7, <1>9, <1>10, <1>11, PromotedStep
<1>13. NewChild(w, p, c, Null)
  <2>1. Node(c, "running", Null, 0, Null, p, Null, Null, Null)
    BY <1>10, <1>12
  <2>2. Moves(w, "unbusy", wk[w].cur, p, wk[w].vic, wk[w].frm, wk[w].why)
    BY <1>12
  <2>3. UNCHANGED <<prog, at, home, unsynced, unw, busyLock, dq>>
    BY <1>12
  <2>4. busy' = [busy EXCEPT ![wk[w].vic] = c] /\ stolen' = stolen \cup {wk[w].frm}
    BY <1>12
  <2> QED BY <1>2, <2>1, <2>2, <2>3, <2>4 DEF NewChild
<1>14. Node(p, "running", wk[w].frm, 1, t, Null, Null, Null, c)
  BY <1>10, <1>12
<1>15. \A x \in Closures : x # c /\ x # p =>
                    Node(x, cs[x].status, cs[x].frame, cs[x].join, cs[x].callParent, cs[x].spawnParent,
                         cs[x].leftSib, cs[x].rightSib, cs[x].rightMost)
  BY <1>10, <1>12 DEF Node
<1>16. Node(t, "suspended", cl[t].frame, cl[t].join + 1, cl[t].callParent,
                        cl[t].spawnParent, cl[t].leftSib, cl[t].rightSib, cl[t].rightMost)
  BY <1>4, <1>8, <1>15 DEF Node, NodeOf
<1>17. \A x \in Closures : x # c /\ x # t /\ x # p => Kept(x)
  BY <1>7, <1>15 DEF Kept
<1> QED BY <1>1, <1>2, <1>3, <1>4, <1>12, <1>13, <1>14, <1>16, <1>17

(***************************************************************************)
(* Locks, duties, and closures in the hands of workers.                    *)
(***************************************************************************)

(* Null is neither a closure nor a worker nor a frame.                     *)
LEMMA Nulls ==
    ASSUME Types
    PROVE  Null \notin Closures /\ Null \notin Workers /\ Null \notin Frames
  BY ProgramFrames, ProgramsAssumption
     DEF Types, FrameTypes, Null, Closures, Workers

(* The locks that others than w hold they keep.                            *)
OthersLocks(w) ==
    \A x \in Workers : x # w => \A y \in Workers : busyLock[y] = x => busyLock'[y] = x

(* Taking a free lock or giving back one's own leaves the others theirs.   *)
LEMMA LocksKept ==
    ASSUME Types, NEW w \in Workers, NEW v \in Workers,
           \/ busyLock' = busyLock
           \/ busyLock[v] \in {w, Null} /\ busyLock' = [busyLock EXCEPT ![v] = w]
           \/ busyLock[v] \in {w, Null} /\ busyLock' = [busyLock EXCEPT ![v] = Null]
    PROVE  OthersLocks(w)
  BY Nulls DEF OthersLocks, Types, LockTypes

(* The other workers keep their closures.                                  *)
OthersBusy(w) == \A x \in Workers : x # w => busy'[x] = busy[x]

(* The other workers keep their deques.                                    *)
OthersDq(w) == \A x \in Workers : x # w => dq'[x] = dq[x]

(* No other worker than w has closure c in its hands.                      *)
Free(w, c) == \A x \in Workers : x # w => ~Holds(x, c)

(* A closure in the hands of w, or of nobody, is in no other's.            *)
LEMMA FreeOfOthers ==
    ASSUME Types, Duties, Holding, NEW w \in Workers, NEW c \in Closures,
           Holds(w, c) \/ cl[c].status = "invalid"
    PROVE  Free(w, c)
<1>1. CASE Holds(w, c)
  BY <1>1 DEF Holding, Unique, Free
<1>2. CASE cl[c].status = "invalid"
  BY <1>2 DEF Holding, Held, Holds, Free
<1> QED BY <1>1, <1>2

(* The duties of a worker that does not move stay fulfilled as long as     *)
(* what they speak of stays.                                               *)
LEMMA DutyOfOther ==
    ASSUME Types, Duties, NEW w \in Workers, Others(w), OthersLocks(w),
           NEW x \in Workers, x # w,
           \/ busy'[x] = busy[x]
           \/ busy'[x] # Null /\ busy[x] # Null /\ wk[x].pc \notin {"synced", "set_return2"},
           wk[x].pc = "promote" =>
             busy'[wk[x].vic] = busy[wk[x].vic] /\ wk'[wk[x].vic].pc # "synced",
           dq[x] = <<>> => dq'[x] = <<>>,
           wk[x].pc = "set_return2" => cl'[wk[x].cl].callParent = cl[wk[x].cl].callParent
    PROVE  Duty(x)'
<1>1. Duty(x) /\ Still(x)
  BY DEF Duties, Others
<1>2. wk[x].pc \in {"synced", "set_return2"} => busy'[x] = busy[x]
  OBVIOUS
<1>3. busy'[x] = Null <=> busy[x] = Null
  OBVIOUS
<1>4. wk[x].pc \in Locked => busyLock'[x] = x
  BY <1>1 DEF Duty, OthersLocks
<1>5. wk[x].pc \in {"peek", "promote", "unbusy"} =>
         wk[x].vic \in Workers /\ wk[x].vic # x /\ busyLock'[wk[x].vic] = x
  BY <1>1 DEF Duty, OthersLocks
<1> QED BY <1>1, <1>2, <1>3, <1>4, <1>5 DEF Duty, Still

(* A step of one worker that touches its own closure, deque and locks      *)
(* keeps everybody's duties.                                               *)
LEMMA DutiesStep ==
    ASSUME Types, Duties, Holding, NEW w \in Workers, Others(w), OthersLocks(w),
           Duty(w)',
           OthersBusy(w), OthersDq(w),
           \/ busy'[w] = busy[w] /\ wk'[w].pc # "synced"
           \/ busyLock[w] \in {w, Null},
           \A c \in Closures : Free(w, c) \/ cl'[c].callParent = cl[c].callParent
    PROVE  Duties'
<1> SUFFICES ASSUME NEW x \in Workers, x # w PROVE Duty(x)'
  BY DEF Duties
<1>0. Duty(x)
  BY DEF Duties
<1>1. busy'[x] = busy[x] /\ dq'[x] = dq[x]
  BY DEF OthersBusy, OthersDq
<1>2. ASSUME wk[x].pc = "promote"
      PROVE  busy'[wk[x].vic] = busy[wk[x].vic] /\ wk'[wk[x].vic].pc # "synced"
  <2>1. wk[x].vic \in Workers /\ busyLock[wk[x].vic] = x /\ wk[wk[x].vic].pc # "synced"
    BY <1>0, <1>2 DEF Duty
  <2>2. CASE wk[x].vic = w
    BY <2>1, <2>2, Nulls
  <2>3. CASE wk[x].vic # w
    BY <2>1, <2>3 DEF OthersBusy, Others, Still
  <2> QED BY <2>2, <2>3
<1>3. ASSUME wk[x].pc = "set_return2"
      PROVE  cl'[wk[x].cl].callParent = cl[wk[x].cl].callParent
  <2>1. wk[x].pc \in Carrying
    BY <1>3 DEF Carrying
  <2>2. wk[x].cl \in Closures
    BY <1>0, <2>1 DEF Duty, Types, WorkerTypes, WorkerOK
  <2>3. ~Free(w, wk[x].cl)
    BY <2>1 DEF Free, Holds, Carries
  <2> QED BY <2>2, <2>3
<1> QED BY <1>1, <1>2, <1>3, DutyOfOther

(* A step of one worker keeps each closure in the hands of one worker, as  *)
(* long as it only changes, or takes, closures that no other has.          *)
LEMMA HoldingStep ==
    ASSUME Types, Duties, Holding, NEW w \in Workers, Others(w), OthersBusy(w),
           Held(w)',
           \A c \in Closures : Free(w, c) \/ cl'[c].status = cl[c].status,
           \A c \in Closures : Holds(w, c)' => Free(w, c)
    PROVE  Holding'
<1>1. \A x \in Workers, t \in Closures : x # w => (Holds(x, t)' <=> Holds(x, t)) /\ (Carries(x, t)' <=> Carries(x, t))
  BY DEF Others, Still, OthersBusy, Holds, Carries
<1>2. Unique'
  BY <1>1 DEF Holding, Unique, Free
<1>3. ASSUME NEW x \in Workers, x # w PROVE Held(x)'
  <2>1. Held(x) /\ Still(x) /\ busy'[x] = busy[x]
    BY <1>3 DEF Holding, Others, OthersBusy
  <2>2. \A t \in Closures : Holds(x, t) => cl'[t].status = cl[t].status
    BY <1>3 DEF Free
  <2> QED BY <1>1, <1>3, <2>1, <2>2 DEF Held, Holds, Still
<1> QED BY <1>2, <1>3 DEF Holding

(***************************************************************************)
(* What a step of one worker leaves alone.                                 *)
(***************************************************************************)

(* A worker that executes a frame has a running closure, and the frame is  *)
(* the top of its stack.                                                   *)
LEMMA AtWork ==
    ASSUME Types, Duties, Holding, NEW o, Tops(o), NEW w \in Workers, AtFrame(w)
    PROVE  /\ busy[w] \in Closures /\ cl[busy[w]].status = "running"
           /\ Cur(w) \in Frames /\ o[Cur(w)] = busy[w] /\ wk[w].cur = Cur(w)
           /\ \A g \in Frames : o[g] = busy[w] => g <= Cur(w)
           /\ wk[w].pc # "set_return2" /\ wk[w].pc \notin Carrying
<1>1. wk[w].pc \notin Idling /\ wk[w].pc # "set_return2" /\ wk[w].pc \notin Carrying
  BY DEF AtFrame, Executing, Idling, Carrying
<1>2. busy[w] \in Closures
  BY <1>1 DEF Duties, Duty, Types, LockTypes
<1>3. Held(w) /\ Top(o, w)
  BY DEF Holding, Tops
<1> QED BY <1>1, <1>2, <1>3 DEF Held, Top, TopOf, Cur

(* A worker between two critical sections carries a closure in use.        *)
LEMMA CarryWork ==
    ASSUME Types, Duties, Holding, NEW w \in Workers, wk[w].pc \in Carrying
    PROVE  /\ wk[w].cl \in Closures /\ Holds(w, wk[w].cl) /\ cl[wk[w].cl].status # "invalid"
           /\ cl[wk[w].cl].status # "suspended"
           /\ wk[w].pc \notin {"return", "return2"} => cl[wk[w].cl].status = "running"
<1>1. wk[w].cl \in Closures
  BY DEF Duties, Duty, Types, WorkerTypes, WorkerOK
<1> QED BY <1>1 DEF Holding, Held, Holds, Carries

(* The links of the tree stay, whatever happens to the frames and the      *)
(* statuses.                                                               *)
SameLinks ==
    \A c \in Closures :
        /\ cl'[c].callParent = cl[c].callParent /\ cl'[c].spawnParent = cl[c].spawnParent
        /\ cl'[c].leftSib = cl[c].leftSib /\ cl'[c].rightSib = cl[c].rightSib
        /\ cl'[c].rightMost = cl[c].rightMost /\ cl'[c].join = cl[c].join
        /\ cl'[c].status = "invalid" <=> cl[c].status = "invalid"

(* The same links make the same children.                                  *)
LEMMA SameFamilies ==
    ASSUME SameLinks
    PROVE  /\ Alive' = Alive
           /\ \A p : SpawnedBy(p)' = SpawnedBy(p) /\ CalledBy(p)' = CalledBy(p)
  BY DEF SameLinks, Alive, SpawnedBy, CalledBy

(* The tree stays in order as long as its links stay and no suspended      *)
(* closure is resumed.                                                     *)
LEMMA TreeKept ==
    ASSUME NEW rk, NEW n, Tree(rk, n), SameLinks,
           \A c \in Closures : cl[c].status = "suspended" => cl'[c].status = "suspended"
    PROVE  Tree(rk, n)'
<1>1. /\ Alive' = Alive /\ Alive \subseteq Closures
      /\ \A p : SpawnedBy(p)' = SpawnedBy(p) /\ CalledBy(p)' = CalledBy(p)
  BY SameFamilies DEF Alive
<1>2. Parents'
  BY <1>1 DEF Tree, Parents, SameLinks
<1>3. Ranked(rk, n)'
  BY <1>1 DEF Tree, Ranked
<1>4. Joins'
  BY <1>1 DEF Tree, Joins, SameLinks
<1>5. ASSUME NEW p \in Alive PROVE RightMost(rk, p)'
  BY <1>1, <1>5 DEF Tree, Siblings, RightMost, SameLinks
<1>6. ASSUME NEW p \in Alive, NEW c \in SpawnedBy(p) PROVE Sibling(rk, p, c)'
  <2>1. c \in Closures /\ Sibling(rk, p, c)
    BY <1>6 DEF Tree, Siblings, SpawnedBy, Alive
  <2>2. cl'[c].leftSib = cl[c].leftSib /\ cl'[c].rightSib = cl[c].rightSib
    BY <2>1 DEF SameLinks
  <2> QED BY <1>1, <2>1, <2>2 DEF Sibling
<1> QED BY <1>1, <1>2, <1>3, <1>4, <1>5, <1>6 DEF Tree, Siblings

(* When every closure stays in its place, so do the links.                 *)
LEMMA SameTreeLinks ==
    ASSUME SameTree
    PROVE  SameLinks /\ \A c \in Closures : cl'[c].status = cl[c].status /\ cl'[c].frame = cl[c].frame
  BY DEF SameTree, Kept, Node, SameLinks

(* The stack of closure t is the same for the owners o and o2.             *)
Same(o, o2, t) == \A f \in Frames : o2[f] = t <=> o[f] = t

(* What is said of one stack is the same for owners that agree on it.      *)
LEMMA StackSame ==
    ASSUME Types, prog' = prog, NEW o, NEW o2, NEW t \in Closures, Same(o, o2, t)
    PROVE  /\ Links(o2, t)' = Links(o, t)
           /\ \A f : Only(o2, t, f)' <=> Only(o, t, f)
           /\ \A f : TopOf(o2, t, f)' <=> TopOf(o, t, f)
           /\ cl'[t].frame = cl[t].frame => (Bare(o2, t)' <=> Bare(o, t))
           /\ \A f \in Frames : o[f] = t => (Inner(o2, f)' <=> Inner(o, f))
<1>0. Frames' = Frames /\ t # Null
  BY Nulls DEF Frames
<1>1. \A f \in Frames : o[f] = t => (Inner(o2, f)' <=> Inner(o, f))
  BY <1>0, ProgramFrames DEF Inner, Same, Types, FrameTypes
<1>2. \A f, g \in Frames : LinksTo(o2, t, f, g)' <=> LinksTo(o, t, f, g)
  BY <1>0, <1>1 DEF LinksTo, Same
<1>3. Links(o2, t)' = Links(o, t)
  BY <1>0, <1>2 DEF Links
<1> QED BY <1>0, <1>1, <1>3 DEF Only, TopOf, Bare, Same

(* Where a frame returns to stays when the stack of that closure does.     *)
LEMMA CalledFromKept ==
    ASSUME Types, prog' = prog, NEW o, NEW o2, NEW p \in Closures, NEW f \in Frames,
           Same(o, o2, p),
           cl'[p].frame = cl[p].frame, SpawnedFrom(p, f) => SpawnedFrom(p, f)',
           CalledFrom(o, p, f)
    PROVE  CalledFrom(o2, p, f)'
  BY StackSame DEF CalledFrom

(* The frame of a closure stays a base when the closure, its call parent   *)
(* and their stacks stay.                                                  *)
LEMMA BaseKept ==
    ASSUME Types, prog' = prog, NEW o, NEW o2, NEW t \in Closures, Same(o, o2, t),
           stolen \subseteq stolen',
           cl'[t].frame = cl[t].frame, cl'[t].callParent = cl[t].callParent,
           cl'[t].spawnParent = cl[t].spawnParent,
           \A f \in Frames : SpawnedFrom(t, f) => SpawnedFrom(t, f)',
           Swapped(t) => Swapped(t)',
           cl[t].callParent # Null =>
             /\ Same(o, o2, cl[t].callParent)
             /\ cl'[cl[t].callParent].frame = cl[cl[t].callParent].frame
             /\ \A f \in Frames : SpawnedFrom(cl[t].callParent, f) => SpawnedFrom(cl[t].callParent, f)',
           Base(o, t)
    PROVE  Base(o2, t)'
<1> DEFINE f == cl[t].frame  p == cl[t].callParent
<1>1. f \in Frames \cup {Null} /\ p \in Closures \cup {Null}
  BY DEF Types, ClosureTypes, ClosureOK
<1>2. CASE f = Null
  BY <1>2 DEF Base
<1>3. CASE f # Null
  <2>1. f \in Frames /\ Based(o, t, f)
    BY <1>1, <1>3 DEF Base
  <2>2. o2[f] = t /\ ~Inner(o2, f)' /\ f \in stolen'
    BY <2>1, StackSame DEF Based, Same
  <2>3. ASSUME f # Root, prog.kind[f] # "expr" PROVE CalledFrom(o2, p, f)'
    <3>1. CalledFrom(o, p, f)
      BY <2>1, <2>3 DEF Based
    <3>2. p \in Closures
      BY <1>1, <3>1 DEF CalledFrom
    <3>3. /\ Same(o, o2, p) /\ cl'[p].frame = cl[p].frame
          /\ (SpawnedFrom(p, f) => SpawnedFrom(p, f)')
      BY <2>1, <3>1 DEF CalledFrom
    <3> QED BY <2>1, <3>1, <3>2, <3>3, CalledFromKept
  <2> QED BY <1>3, <2>1, <2>2, <2>3 DEF Base, Based
<1> QED BY <1>2, <1>3

(* The stacks stay in order when no closure that owns a frame is freed and *)
(* no bottom is lost.                                                      *)
LEMMA StacksKept ==
    ASSUME NEW o, Stacks(o), prog' = prog, home' = home,
           \A f \in Frames : o[f] # Null => o[f] \in Alive',
           \A f \in Frames : o[f] # Null /\ Bottom(o, f) => Bottom(o, f)'
    PROVE  Stacks(o)'
<1>0. Frames' = Frames
  BY DEF Frames
<1>1. Owned(o)' /\ Chained(o)'
  BY <1>0 DEF Stacks, Owned, Chained
<1>2. \A f : Inner(o, f)' <=> Inner(o, f)
  BY DEF Inner
<1>3. Bottoms(o)'
  BY <1>0, <1>2 DEF Stacks, Bottoms
<1> QED BY <1>1, <1>3 DEF Stacks

(* The deque of a worker fits its stack as long as neither changes.        *)
LEMMA DequeOfOther ==
    ASSUME Types, NEW o, NEW o2, Deques(o), prog' = prog,
           NEW x \in Workers, busy'[x] = busy[x], dq'[x] = dq[x],
           busy[x] # Null => Same(o, o2, busy[x]),
           \A f \in Frames : Taken(x, f)' <=> Taken(x, f)
    PROVE  Deque(o2, x)'
<1>0. Frames' = Frames /\ Deque(o, x)
  BY DEF Frames, Deques
<1>1. busy[x] # Null => busy[x] \in Closures /\ Same(o, o2, busy[x])
  BY DEF Types, LockTypes
<1> QED BY <1>0, <1>1, StackSame DEF Deque

(* The top of a worker's stack stays as long as the closures in its hands  *)
(* do.                                                                     *)
LEMMA TopOfOther ==
    ASSUME Types, Duties, Holding, NEW o, NEW o2, Tops(o), prog' = prog,
           NEW w \in Workers, NEW x \in Workers, x # w, Still(x), busy'[x] = busy[x],
           \A t \in Closures : Holds(x, t) => Same(o, o2, t) /\ cl'[t].frame = cl[t].frame,
           wk[x].pc = "set_return2" => \A f \in Frames : SpawnedFrom(busy[x], f) => SpawnedFrom(busy[x], f)'
    PROVE  Top(o2, x)'
<1>0. Frames' = Frames /\ Top(o, x) /\ Duty(x)
  BY DEF Frames, Tops, Duties
<1>1. busy[x] # Null => /\ busy[x] \in Closures /\ Same(o, o2, busy[x])
                        /\ cl'[busy[x]].frame = cl[busy[x]].frame
  BY DEF Types, LockTypes, Holds
<1>2. wk[x].pc \in Carrying => /\ wk[x].cl \in Closures /\ Same(o, o2, wk[x].cl)
                               /\ cl'[wk[x].cl].frame = cl[wk[x].cl].frame
  BY CarryWork
<1>4. AtFrame(x) => TopOf(o2, busy[x], wk[x].cur)'
  <2>1. AtFrame(x) => busy[x] # Null
    BY <1>0 DEF Duty, AtFrame, Executing, Idling
  <2> QED BY <1>0, <1>1, <2>1, StackSame DEF Top, Still
<1>5. AtFrame(x)' <=> AtFrame(x)
  BY DEF AtFrame, Still
<1>6. wk[x].pc = "set_return2" =>
         /\ Only(o2, wk[x].cl, wk[x].cur)' /\ cl'[wk[x].cl].frame = Null
         /\ CalledFrom(o2, busy[x], wk[x].cur)'
  <2>1. SUFFICES ASSUME wk[x].pc = "set_return2"
                 PROVE  Only(o2, wk[x].cl, wk[x].cur)' /\ cl'[wk[x].cl].frame = Null
                        /\ CalledFrom(o2, busy[x], wk[x].cur)'
    OBVIOUS
  <2>2. wk[x].pc \in Carrying /\ wk[x].pc \notin Idling
    BY <2>1 DEF Carrying, Idling
  <2>3. busy[x] # Null /\ wk[x].cl \in Closures
    BY <1>0, <1>2, <2>2 DEF Duty
  <2>4. /\ Only(o, wk[x].cl, wk[x].cur) /\ CalledFrom(o, busy[x], wk[x].cur)
        /\ wk[x].cur \in Frames
    BY <1>0, <2>1 DEF Top, Only
  <2>5. Only(o2, wk[x].cl, wk[x].cur)' /\ cl'[wk[x].cl].frame = Null
    BY <1>0, <1>2, <2>1, <2>2, <2>3, <2>4, StackSame DEF Top, Still
  <2>6. CalledFrom(o2, busy[x], wk[x].cur)'
    BY <1>1, <2>1, <2>3, <2>4, CalledFromKept DEF Still
  <2> QED BY <2>5, <2>6
<1>7. wk[x].pc = "install" /\ wk[x].why = "reduce" => Bare(o2, wk[x].cl)'
  BY <1>0, <1>2, StackSame DEF Top, Still, Carrying
<1>8. wk[x].pc = "install" /\ wk[x].why # "reduce" => Only(o2, wk[x].cl, cl[wk[x].cl].frame)'
  BY <1>0, <1>2, StackSame DEF Top, Still, Carrying
<1>9. wk[x].pc = "reduce" /\ wk[x].why = "reduce" => Bare(o2, busy[x])'
  BY <1>0, <1>1, StackSame DEF Top, Still, Duty, Idling
<1>10. wk[x].pc \in {"return", "return2"} => Bare(o2, wk[x].cl)'
  BY <1>0, <1>2, StackSame DEF Top, Still, Carrying
<1>11. wk[x].pc \in {"unbusy", "finish"} =>
         cl'[wk[x].cl].frame = wk[x].frm /\ Only(o2, wk[x].cl, wk[x].frm)'
  BY <1>0, <1>2, StackSame DEF Top, Still, Carrying
<1> QED BY <1>4, <1>5, <1>6, <1>7, <1>8, <1>9, <1>10, <1>11 DEF Top, Still

(* What is known of the frame of another worker stays known when a step    *)
(* does not touch the frames on its stacks.                                *)
LEMMA PointOfOther ==
    ASSUME Types, Duties, Holding, NEW o, Tops(o), Points, prog' = prog,
           stolen \subseteq stolen',
           NEW x \in Workers, Still(x),
           \A f \in Frames : o[f] \in Closures /\ Holds(x, o[f]) =>
             at'[f] = at[f] /\ unw'[f] = unw[f] /\ (f \in unsynced' <=> f \in unsynced),
           Helping(x) => cl'[busy'[x]].frame \in {Null, cl[busy[x]].frame},
           Resuming(x) => cl'[wk[x].cl].frame = cl[wk[x].cl].frame
    PROVE  Point(x)'
<1>0. Point(x) /\ Top(o, x) /\ Frames' = Frames
  BY DEF Points, Tops, Frames
<1>1. AtFrame(x) \/ wk[x].pc = "set_return2" =>
        /\ wk[x].cur \in Frames /\ at'[wk[x].cur] = at[wk[x].cur] /\ unw'[wk[x].cur] = unw[wk[x].cur]
        /\ wk[x].cur \in unsynced' <=> wk[x].cur \in unsynced
  <2>1. CASE AtFrame(x)
    BY <2>1, AtWork DEF Holds
  <2>2. CASE wk[x].pc = "set_return2"
    <3>1. wk[x].pc \in Carrying
      BY <2>2 DEF Carrying
    <3> QED BY <1>0, <2>2, <3>1, CarryWork DEF Top, Only
  <2> QED BY <2>1, <2>2
<1>2. Resuming(x) => LET f == cl[wk[x].cl].frame IN
        f \in Frames /\ at'[f] = at[f] /\ unw'[f] = unw[f] /\ (f \in unsynced' <=> f \in unsynced)
  <2>1. Resuming(x) => wk[x].pc \in Carrying /\ Only(o, wk[x].cl, cl[wk[x].cl].frame)
    BY <1>0 DEF Resuming, Carrying, Top
  <2> QED BY <2>1, CarryWork DEF Only
<1>3. /\ wk'[x].pc = wk[x].pc /\ wk'[x].cur = wk[x].cur /\ wk'[x].cl = wk[x].cl
      /\ wk'[x].why = wk[x].why
  BY DEF Still
<1>4. AtFrame(x) \/ wk[x].pc = "set_return2" =>
        /\ HasHandler(wk[x].cur)' <=> HasHandler(wk[x].cur)
        /\ Stopped(wk[x].cur)' <=> Stopped(wk[x].cur)
  BY <1>1, <1>3 DEF HasHandler, Stopped, Code
<1>5. Reducing(x)' = Reducing(x) /\ Resuming(x)' = Resuming(x)
  BY <1>3 DEF Reducing, Resuming
<1>6. wk[x].pc \in BeforeSync => wk'[x].cur \in unsynced'
  BY <1>0, <1>1, <1>3 DEF Point, BeforeSync, AtFrame, Executing
<1>7. wk[x].pc \in AfterSync \/ Reducing(x) => wk'[x].cur \notin unsynced'
  BY <1>0, <1>1, <1>3 DEF Point, AfterSync, AtFrame, Executing, Reducing
<1>8. wk[x].pc \in {"leave", "set_return", "set_return2"} =>
         wk[x].cur # Root /\ prog.kind[wk[x].cur] # "expr" /\ ~HasHandler(wk[x].cur)'
  BY <1>0, <1>3, <1>4 DEF Point, AtFrame, Executing
<1>9. Helping(x)' = Helping(x)
  BY <1>3, <1>4 DEF Helping, AtFrame, Executing
<1>10. Helping(x) => prog.kind[wk[x].cur] \in {"spawn", "expr"}
                     /\ (cl'[busy'[x]].frame = wk[x].cur => prog.kind[wk[x].cur] = "expr")
  <2>1. Helping(x) => AtFrame(x)
    BY DEF Helping, AtFrame, Executing
  <2> QED BY <1>0, <1>1, <2>1, Nulls DEF Point
<1>11. wk[x].pc \in {"unwind", "save", "throwing"} => unw'[wk[x].cur].exn # Null
  BY <1>0, <1>1, <1>3 DEF Point, AtFrame, Executing
<1>12. wk[x].pc \in {"sync", "synced"} \/ Reducing(x) => Stopped(wk[x].cur)'
  BY <1>0, <1>3, <1>4 DEF Point, AtFrame, Executing, Reducing
<1>13. wk[x].pc = "check" => at'[wk[x].cur] <= Len(Code(wk[x].cur)')
  BY <1>0, <1>1, <1>3 DEF Point, AtFrame, Executing, Code
<1>14. Resuming(x) => cl'[wk'[x].cl].frame \notin unsynced' /\ Stopped(cl[wk[x].cl].frame)'
  BY <1>0, <1>2, <1>3 DEF Point, Stopped, Code
<1>15. wk[x].pc \in {"set_return", "set_return2"} => wk[x].cur \in stolen'
  BY <1>0 DEF Point
<1>16. wk[x].pc = "exit" => wk[x].cur = Root
  BY <1>0 DEF Point
<1> QED
  BY <1>3, <1>5, <1>6, <1>7, <1>8, <1>9, <1>10, <1>11, <1>12, <1>13, <1>14,
     <1>15, <1>16 DEF Point

(* Positions stay as long as no frame moves on.                            *)
LEMMA PositionsKept ==
    ASSUME NEW o, Positions(o), UNCHANGED <<prog, at, stolen>>, NEW w \in Workers,
           Others(w),
           \A f \in unsynced' : f \in unsynced \/ SyncAhead(f),
           wk'[w].pc \in {"unbusy", "finish"} => wk[w].pc \in {"unbusy", "finish"} /\ wk'[w].frm = wk[w].frm
    PROVE  Positions(o)'
<1>1. Frames' = Frames /\ \A f : Code(f)' = Code(f)
  BY DEF Frames, Code
<1>2. \A f : SyncAhead(f)' <=> SyncAhead(f)
  BY <1>1 DEF SyncAhead
<1>3. \A f \in Frames : Ahead(o, f)' /\ at'[f] \in 1 .. Len(Code(f)') + 1
  BY <1>1 DEF Positions, Ahead, Entered
<1>4. \A t : Links(o, t)' = Links(o, t)
  BY <1>1 DEF Links, LinksTo, Inner
<1>5. \A x \in Workers : wk'[x].pc \in {"unbusy", "finish"} => SyncAhead(wk[x].frm) /\ wk'[x].frm = wk[x].frm
  BY DEF Positions, Others, Still
<1> QED BY <1>1, <1>2, <1>3, <1>4, <1>5 DEF Positions

(* A step that leaves the tree and the stacks alone keeps what is said of  *)
(* them.                                                                   *)
LEMMA StillStacks ==
    ASSUME Types, NEW o, Stacks(o), Bases(o), Tops(o), Deques(o), Parents,
           SameStacks, NEW w \in Workers, Others(w),
           wk[w].pc \notin {"set_return2", "promote"},
           wk'[w].pc \notin {"set_return2", "promote"},
           wk[w].pc \in {"unbusy", "finish"} => wk'[w].pc \in {"unbusy", "finish"} /\ wk'[w].cl = wk[w].cl,
           busy[w] # Null => wk'[w].cur = wk[w].cur,
           busy[w] # Null /\ Helping(w) => Helping(w)',
           \A x \in Workers : x # w /\ Helping(x) => Helping(x)'
    PROVE  /\ Stacks(o)' /\ Bases(o)' /\ Deques(o)'
           /\ \A x \in Workers, f \in Frames : Taken(x, f)' <=> Taken(x, f)
           /\ \A t \in Alive' : Waiting(t)' => Only(o, t, cl[t].frame)'
<1>0. /\ Frames' = Frames /\ SameTree
      /\ UNCHANGED <<prog, home, stolen, unsynced, busy, dq>>
  BY DEF SameStacks, Frames
<1>1. /\ Alive' = Alive /\ Alive \subseteq Closures
      /\ \A p : SpawnedBy(p)' = SpawnedBy(p) /\ CalledBy(p)' = CalledBy(p)
      /\ \A c \in Closures : cl'[c].status = cl[c].status /\ cl'[c].frame = cl[c].frame
      /\ \A c \in Closures : cl'[c].callParent = cl[c].callParent /\ cl'[c].spawnParent = cl[c].spawnParent
  BY <1>0, SameTreeLinks, SameFamilies DEF Alive, SameLinks
<1>2. \A t : Swapped(t)' <=> Swapped(t)
  BY DEF Swapped, Others, Still
<1>3. \A t \in Alive, f \in Frames : SpawnedFrom(t, f)' <=> SpawnedFrom(t, f)
  BY <1>0, <1>1 DEF SpawnedFrom, Types, ClosureTypes, ClosureOK
<1>4. \A v, f : Taken(v, f)' <=> Taken(v, f)
  BY DEF Taken, Others, Still
<1>5. Stacks(o)'
  <2>1. \A f \in Frames : o[f] # Null => o[f] \in Alive
    BY DEF Stacks, Owned
  <2>2. \A f \in Frames : o[f] # Null /\ Bottom(o, f) => Bottom(o, f)'
    BY <1>0, <1>1, <1>2, <1>3, <2>1 DEF Bottom
  <2> QED BY <1>0, <1>1, <2>1, <2>2, StacksKept
<1>6. \A t \in Alive : Base(o, t)'
  <2> SUFFICES ASSUME NEW t \in Alive PROVE Base(o, t)'
    OBVIOUS
  <2>1. cl[t].callParent # Null => cl[t].callParent \in Alive
    BY DEF Parents, Alive
  <2> QED BY <1>0, <1>1, <1>2, <1>3, <2>1, BaseKept DEF Bases, Same
<1>7. ASSUME NEW f \in stolen, o[f] # Null PROVE Stolen(o, f)'
  <2>1. Stolen(o, f) /\ o[f] \in Closures
    BY <1>1, <1>7 DEF Bases, Stacks, Owned, Types, FrameTypes
  <2>2. ASSUME NEW x \in Workers, busy[x] = o[f], wk[x].cur = f, Helping(x)
        PROVE  busy'[x] = o[f] /\ wk'[x].cur = f /\ Helping(x)'
    BY <1>0, <1>7, <2>2 DEF Others, Still
  <2>3. ASSUME NEW x \in Workers, wk[x].pc = "set_return2", wk[x].cl = o[f],
               wk[x].cur = f
        PROVE  wk'[x].pc = "set_return2" /\ wk'[x].cl = o[f] /\ wk'[x].cur = f
    BY <2>3 DEF Others, Still
  <2> QED BY <1>1, <2>1, <2>2, <2>3 DEF Stolen
<1>8. \A t : Promoting(t) => Promoting(t)'
  BY DEF Promoting, Others, Still
<1>9. Bases(o)'
  <2>1. \A f \in unsynced' : f \in stolen' /\ o[f] # Null /\ cl'[o[f]].frame = f
    BY <1>0, <1>1 DEF Bases, Stacks, Owned, Types, FrameTypes
  <2>2. \A t \in Alive : SpawnedBy(t) # {} => Spawning(t)'
    BY <1>0, <1>1, <1>8 DEF Bases, Spawning
  <2> QED BY <1>0, <1>1, <1>6, <1>7, <2>1, <2>2 DEF Bases
<1>10. Deques(o)'
  <2>1. \A t : Links(o, t)' = Links(o, t)
    BY <1>0 DEF Links, LinksTo, Inner
  <2> QED BY <1>0, <1>4, <2>1 DEF Deques, Deque
<1>11. \A t \in Alive' : Waiting(t)' => Only(o, t, cl[t].frame)'
  BY <1>0, <1>1 DEF Tops, Waiting, Only
<1> QED BY <1>4, <1>5, <1>9, <1>10, <1>11

(* A worker in a spawn helper stays there during the steps of others.      *)
LEMMA HelpingKept ==
    ASSUME Types, Duties, Holding, NEW o, Tops(o), prog' = prog, NEW x \in Workers,
           Still(x),
           AtFrame(x) => at'[Cur(x)] = at[Cur(x)], Helping(x)
    PROVE  Helping(x)'
<1>1. AtFrame(x)
  BY DEF Helping, AtFrame, Executing
<1>2. HasHandler(wk[x].cur)' <=> HasHandler(wk[x].cur)
  BY <1>1 DEF HasHandler, Still, Cur
<1> QED BY <1>2 DEF Helping, Still

(* A step that leaves the stacks alone and moves only the frame of w keeps *)
(* what is known of the others' frames.                                    *)
LEMMA PointsKept ==
    ASSUME Control, NEW o, Tops(o), Points, SameStacks, NEW w \in Workers, Others(w),
           Point(w)',
           \A f \in Frames : f # Cur(w) => at'[f] = at[f] /\ unw'[f] = unw[f],
           AtFrame(w) \/ UNCHANGED <<at, unw>>
    PROVE  Points' /\ \A x \in Workers : x # w /\ Helping(x) => Helping(x)'
<1>0. /\ Types /\ Duties /\ Holding /\ SameTree
      /\ UNCHANGED <<prog, stolen, unsynced, busy>>
  BY DEF Control, SameStacks
<1>1. \A c \in Closures : cl'[c].status = cl[c].status /\ cl'[c].frame = cl[c].frame
  BY <1>0, SameTreeLinks
<1>2. ASSUME NEW x \in Workers, x # w, NEW f \in Frames, o[f] \in Closures,
             Holds(x, o[f])
      PROVE  at'[f] = at[f] /\ unw'[f] = unw[f]
  <2>1. AtFrame(w) => f # Cur(w)
    BY <1>0, <1>2, AtWork DEF Holding, Unique, Holds
  <2> QED BY <1>2, <2>1
<1>3. ASSUME NEW x \in Workers, x # w PROVE Point(x)'
  <2>1. Helping(x) => busy[x] \in Closures
    <3>1. Helping(x) => AtFrame(x)
      BY DEF Helping, AtFrame, Executing
    <3> QED BY <1>0, <3>1, AtWork
  <2>2. Resuming(x) => wk[x].cl \in Closures
    <3>1. Resuming(x) => wk[x].pc \in Carrying
      BY DEF Resuming, Carrying
    <3> QED BY <1>0, <3>1, CarryWork
  <2>3. Still(x)
    BY <1>3 DEF Others
  <2> QED BY <1>0, <1>1, <1>2, <1>3, <2>1, <2>2, <2>3, PointOfOther
<1>4. ASSUME NEW t \in Alive', Waiting(t)' PROVE Stopped(cl[t].frame)'
  <2>1. t \in Alive /\ t \in Closures /\ Waiting(t)
    BY <1>0, <1>1, <1>4, SameTreeLinks, SameFamilies DEF Waiting, Alive
  <2>2. Only(o, t, cl[t].frame) /\ Stopped(cl[t].frame) /\ cl[t].status = "suspended"
    BY <2>1 DEF Tops, Points, Waiting
  <2>3. AtFrame(w) => cl[t].frame # Cur(w)
    BY <1>0, <2>2, AtWork DEF Only
  <2>4. cl'[t].frame = cl[t].frame /\ cl[t].frame \in Frames
    BY <1>1, <2>1, <2>2 DEF Only
  <2> QED BY <1>0, <2>2, <2>3, <2>4 DEF Stopped, Code
<1>5. ASSUME NEW x \in Workers, x # w, Helping(x) PROVE Helping(x)'
  <2>1. AtFrame(x)
    BY <1>5 DEF Helping, AtFrame, Executing
  <2>2. at'[Cur(x)] = at[Cur(x)]
    BY <1>0, <1>2, <1>5, <2>1, AtWork DEF Holds
  <2> QED BY <1>0, <1>5, <2>2, HelpingKept DEF Others
<1> QED BY <1>3, <1>4, <1>5 DEF Points

(* A step that leaves the stacks alone keeps the others' tops.             *)
LEMMA QuietTops ==
    ASSUME Control, NEW o, Tops(o), Parents, SameStacks, NEW w \in Workers, Others(w),
           \A t \in Alive' : Waiting(t)' => Only(o, t, cl[t].frame)', Top(o, w)'
    PROVE  Tops(o)'
<1>0. Types /\ Duties /\ Holding /\ SameTree /\ UNCHANGED <<prog, busy, dq>>
  BY DEF Control, SameStacks
<1>1. /\ \A c \in Closures : cl'[c].status = cl[c].status /\ cl'[c].frame = cl[c].frame
      /\ \A c \in Closures : cl'[c].spawnParent = cl[c].spawnParent
  BY <1>0, SameTreeLinks DEF SameLinks
<1>2. ASSUME NEW x \in Workers, x # w PROVE Top(o, x)'
  <2>1. wk[x].pc = "set_return2" => \A f \in Frames : SpawnedFrom(busy[x], f) => SpawnedFrom(busy[x], f)'
    <3>1. wk[x].pc = "set_return2" => busy[x] \in Closures
      <4>1. Duty(x) /\ busy[x] \in Closures \cup {Null}
        BY <1>0 DEF Duties, Types, LockTypes
      <4> QED BY <4>1 DEF Duty, Idling
    <3> QED BY <1>0, <1>1, <3>1 DEF SpawnedFrom, Types, ClosureTypes, ClosureOK
  <2>2. Still(x) /\ busy'[x] = busy[x] /\ dq'[x] = dq[x]
    BY <1>0, <1>2 DEF Others
  <2>3. \A t \in Closures : Same(o, o, t)
    BY DEF Same
  <2> QED BY <1>0, <1>1, <1>2, <2>1, <2>2, <2>3, TopOfOther
<1> QED BY <1>2 DEF Tops

(***************************************************************************)
(* Steps of a worker within its frame, and of one without a closure.       *)
(***************************************************************************)

(* A step of a worker within its frame keeps the invariant, if what is     *)
(* known of that worker holds afterwards.                                  *)
LEMMA QuietStep ==
    ASSUME NEW o, NEW rk, NEW n, Good(o, rk, n), Types', SameStacks,
           NEW w \in Workers, Others(w),
           AtFrame(w), AtFrame(w)', wk'[w].cur = wk[w].cur, OthersLocks(w), Duty(w)',
           wk'[w].pc # "synced", Helping(w) => Helping(w)', Point(w)',
           \A f \in Frames : f # Cur(w) => at'[f] = at[f] /\ unw'[f] = unw[f],
           at'[Cur(w)] \in at[Cur(w)] .. Len(Code(Cur(w))) + 1,
           Cur(w) \in unsynced => SyncAhead(Cur(w))'
    PROVE  Good(o, rk, n)'
<1>0. /\ Control /\ Types /\ Duties /\ Holding /\ Tree(rk, n) /\ Parents /\ SameTree
      /\ Ghosts(o, rk)
      /\ Stacks(o) /\ Bases(o) /\ Tops(o) /\ Deques(o) /\ Positions(o) /\ Points
      /\ UNCHANGED <<prog, home, stolen, unsynced, busy, dq>>
  BY DEF Good, Control, SameStacks, Tree
<1>1. /\ \A c \in Closures : cl'[c].status = cl[c].status /\ cl'[c].frame = cl[c].frame
      /\ \A c \in Closures : cl'[c].callParent = cl[c].callParent
      /\ SameLinks
  BY <1>0, SameTreeLinks DEF SameLinks
<1>2. /\ busy[w] \in Closures /\ cl[busy[w]].status = "running"
      /\ Cur(w) \in Frames /\ o[Cur(w)] = busy[w] /\ wk[w].cur = Cur(w)
      /\ \A g \in Frames : o[g] = busy[w] => g <= Cur(w)
      /\ wk[w].pc # "set_return2" /\ wk[w].pc \notin Carrying
  BY <1>0, AtWork
<1>3. /\ wk'[w].pc \notin Carrying /\ wk'[w].pc # "set_return2"
      /\ wk[w].pc # "promote" /\ wk'[w].pc # "promote"
      /\ wk[w].pc \notin {"unbusy", "finish"} /\ wk'[w].pc \notin {"unbusy", "finish"}
  BY DEF AtFrame, Executing, Carrying
<1>4. Duties'
  <2>1. OthersBusy(w) /\ OthersDq(w)
    BY <1>0 DEF OthersBusy, OthersDq
  <2> QED BY <1>0, <1>1, <2>1, DutiesStep
<1>5. Holding'
  <2>1. OthersBusy(w)
    BY <1>0 DEF OthersBusy
  <2>2. Held(w)'
    BY <1>0, <1>1, <1>2, <1>3 DEF Held, Carries, Holding
  <2>3. \A c \in Closures : Holds(w, c)' => Holds(w, c)
    BY <1>0, <1>3 DEF Holds, Carries
  <2> QED BY <1>0, <1>1, <2>1, <2>2, <2>3, HoldingStep, FreeOfOthers
<1>6. Tree(rk, n)'
  BY <1>0, <1>1, TreeKept
<1>7. Points' /\ \A x \in Workers : x # w /\ Helping(x) => Helping(x)'
  BY <1>0, PointsKept
<1>8. Stacks(o)' /\ Bases(o)' /\ Deques(o)'
      /\ (\A x \in Workers, f \in Frames : Taken(x, f)' <=> Taken(x, f))
      /\ \A t \in Alive' : Waiting(t)' => Only(o, t, cl[t].frame)'
  <2>1. /\ wk[w].pc \notin {"set_return2", "promote"}
        /\ wk'[w].pc \notin {"set_return2", "promote"}
    BY <1>2, <1>3
  <2> QED BY <1>0, <1>3, <1>7, <2>1, StillStacks
<1>9. Top(o, w)'
  <2>1. TopOf(o, busy[w], wk[w].cur)'
    BY <1>0, <1>2 DEF TopOf, Frames
  <2> QED BY <2>1 DEF Top, AtFrame, Executing
<1>10. Tops(o)'
  BY <1>0, <1>8, <1>9, QuietTops
<1>11. Positions(o)'
  <2>1. Frames' = Frames /\ \A f : Code(f)' = Code(f)
    BY <1>0 DEF Frames, Code
  <2>2. \A f \in Frames : Len(Code(f)) \in Nat
    BY <1>0, ProgramFrames DEF Types, FrameTypes
  <2>3. \A f \in Frames : at'[f] \in at[f] .. Len(Code(f)) + 1 /\ at[f] \in 1 .. Len(Code(f)) + 1
    BY <1>0, <2>1, <2>2 DEF Positions
  <2>4. \A f \in Frames : at'[f] \in 1 .. Len(Code(f)') + 1
    BY <2>1, <2>2, <2>3
  <2>5. \A f \in Frames : Ahead(o, f)'
    <3> SUFFICES ASSUME NEW f \in Frames, NEW i \in at'[f] .. Len(Code(f)),
                        Entered(f, i)
                 PROVE  o[Code(f)[i].arg] = Null /\ Code(f)[i].arg \notin stolen
      BY <1>0, <2>1 DEF Ahead, Entered
    <3>1. i \in at[f] .. Len(Code(f))
      BY <2>2, <2>3
    <3>2. Ahead(o, f)
      BY <1>0 DEF Positions
    <3> QED BY <3>1, <3>2 DEF Ahead
  <2>6. \A f \in Frames : f # Cur(w) => (SyncAhead(f)' <=> SyncAhead(f))
    BY <2>1 DEF SyncAhead
  <2>7. \A f \in unsynced : SyncAhead(f)'
    <3>1. SyncAhead(Cur(w))' => \A f \in Frames : f = Cur(w) => SyncAhead(f)'
      BY DEF Cur
    <3> QED BY <1>0, <2>6, <3>1 DEF Positions, Types, FrameTypes
  <2>8. \A t : Links(o, t)' = Links(o, t)
    BY <1>0 DEF Links, LinksTo, Inner, Frames
  <2>9. Cur(w) \notin Links(o, busy[w])
    BY <1>0, <1>2, ProgramFrames, SMTT(30)
       DEF Links, LinksTo, Inner, Types, FrameTypes
  <2>10. ASSUME NEW f \in Frames, o[f] # Null, f \in Links(o, o[f]) PROVE SyncAhead(f)'
    BY <1>0, <1>2, <2>6, <2>9, <2>10 DEF Positions
  <2>11. ASSUME NEW x \in Workers, wk'[x].pc \in {"unbusy", "finish"}
         PROVE  SyncAhead(wk[x].frm)' /\ wk'[x].frm = wk[x].frm
    <3>1. x # w /\ Still(x)
      BY <1>3, <2>11 DEF Others
    <3>2. wk[x].pc \in {"unbusy", "finish"}
      BY <2>11, <3>1 DEF Still
    <3>3. wk[x].pc \in Carrying /\ Only(o, wk[x].cl, wk[x].frm)
      BY <1>0, <3>2 DEF Tops, Top, Carrying
    <3>4. wk[x].cl # busy[w] /\ wk[x].frm \in Frames /\ o[wk[x].frm] = wk[x].cl
      BY <1>0, <1>2, <3>1, <3>3, CarryWork DEF Holding, Unique, Holds, Only
    <3>5. wk[x].frm # Cur(w) /\ SyncAhead(wk[x].frm)
      BY <1>0, <1>2, <3>2, <3>4 DEF Positions
    <3>6. at'[wk[x].frm] = at[wk[x].frm]
      BY <3>4, <3>5
    <3> QED BY <1>0, <2>1, <3>1, <3>5, <3>6 DEF SyncAhead, Still
  <2> QED BY <1>0, <2>1, <2>4, <2>5, <2>7, <2>8, <2>10, <2>11 DEF Positions
<1>12. Ghosts(o, rk)'
  BY <1>0 DEF Ghosts, Frames
<1> QED BY <1>0, <1>4, <1>5, <1>6, <1>7, <1>8, <1>10, <1>11, <1>12 DEF Good, Control

(* A step of a worker without a closure of its own keeps the invariant, if *)
(* it keeps what it carries.                                               *)
LEMMA IdleStep ==
    ASSUME NEW o, NEW rk, NEW n, Good(o, rk, n), Types', SameStacks,
           UNCHANGED <<at, unw>>,
           NEW w \in Workers, Others(w), busy[w] = Null, OthersLocks(w), Duty(w)',
           wk[w].pc \notin {"promote", "install"},
           wk'[w].pc \notin {"promote", "install"},
           wk'[w].pc \in Carrying <=> wk[w].pc \in Carrying,
           wk[w].pc \in Carrying => wk'[w].cl = wk[w].cl,
           wk'[w].pc \in {"return", "return2"} <=> wk[w].pc \in {"return", "return2"},
           wk[w].pc \in {"unbusy", "finish"} => wk'[w].frm = wk[w].frm
    PROVE  Good(o, rk, n)'
<1>0. /\ Control /\ Types /\ Duties /\ Holding /\ Tree(rk, n) /\ Parents /\ SameTree
      /\ Ghosts(o, rk)
      /\ Stacks(o) /\ Bases(o) /\ Tops(o) /\ Deques(o) /\ Positions(o) /\ Points
      /\ UNCHANGED <<prog, home, stolen, unsynced, busy, dq>>
  BY DEF Good, Control, SameStacks, Tree
<1>1. /\ \A c \in Closures : cl'[c].status = cl[c].status /\ cl'[c].frame = cl[c].frame
      /\ \A c \in Closures : cl'[c].callParent = cl[c].callParent
      /\ SameLinks
  BY <1>0, SameTreeLinks DEF SameLinks
<1>2. wk[w].pc \in Idling /\ wk'[w].pc \in Idling
  BY <1>0 DEF Duties, Duty
<1>3. /\ wk[w].pc # "set_return2" /\ wk'[w].pc # "set_return2" /\ wk'[w].pc # "synced"
      /\ ~AtFrame(w)' /\ ~Helping(w)' /\ ~Resuming(w)' /\ ~Reducing(w)'
      /\ wk'[w].pc # "reduce"
      /\ wk'[w].pc \notin Executing
  BY <1>2 DEF Idling, AtFrame, Helping, Resuming, Reducing, Executing
<1>4. Duties'
  <2>1. OthersBusy(w) /\ OthersDq(w)
    BY <1>0 DEF OthersBusy, OthersDq
  <2> QED BY <1>0, <1>1, <1>3, <2>1, DutiesStep
<1>5. Holding'
  <2>1. OthersBusy(w) /\ busy'[w] = Null /\ Null \notin Closures
    BY <1>0, Nulls DEF OthersBusy
  <2>2. Held(w)'
    BY <1>0, <1>1, <2>1 DEF Held, Carries, Holding
  <2>3. \A c \in Closures : Holds(w, c)' => Holds(w, c)
    BY <1>0, <2>1 DEF Holds, Carries
  <2> QED BY <1>0, <1>1, <2>1, <2>2, <2>3, HoldingStep, FreeOfOthers
<1>6. Tree(rk, n)'
  BY <1>0, <1>1, TreeKept
<1>7. Points' /\ \A x \in Workers : x # w /\ Helping(x) => Helping(x)'
  <2>1. Point(w)'
    BY <1>3 DEF Point, Executing, BeforeSync, AfterSync
  <2> QED BY <1>0, <2>1, PointsKept
<1>8. Stacks(o)' /\ Bases(o)' /\ Deques(o)'
      /\ (\A x \in Workers, f \in Frames : Taken(x, f)' <=> Taken(x, f))
      /\ \A t \in Alive' : Waiting(t)' => Only(o, t, cl[t].frame)'
  <2>1. wk[w].pc \in {"unbusy", "finish"} => wk'[w].pc \in {"unbusy", "finish"} /\ wk'[w].cl = wk[w].cl
    BY <1>3 DEF Carrying
  <2>2. /\ wk[w].pc \notin {"set_return2", "promote"}
        /\ wk'[w].pc \notin {"set_return2", "promote"}
    BY <1>3
  <2> QED BY <1>0, <1>3, <1>7, <2>1, <2>2, StillStacks
<1>9. Top(o, w)'
  <2>1. wk'[w].pc \in {"return", "return2"} => Bare(o, wk[w].cl)'
    <3>1. wk'[w].pc \in {"return", "return2"} => wk[w].pc \in Carrying /\ Bare(o, wk[w].cl)
      BY <1>0 DEF Tops, Top, Carrying
    <3> QED BY <1>0, <1>1, <3>1, CarryWork DEF Bare, Frames
  <2>2. wk'[w].pc \in {"unbusy", "finish"} => cl'[wk'[w].cl].frame = wk'[w].frm /\ Only(o, wk[w].cl, wk[w].frm)'
    <3>1. wk'[w].pc \in {"unbusy", "finish"} => wk[w].pc \in {"unbusy", "finish"} /\ wk[w].pc \in Carrying
      BY <1>3 DEF Carrying
    <3>2. wk'[w].pc \in {"unbusy", "finish"} => cl[wk[w].cl].frame = wk[w].frm /\ Only(o, wk[w].cl, wk[w].frm)
      BY <1>0, <3>1 DEF Tops, Top
    <3> QED BY <1>0, <1>1, <3>1, <3>2, CarryWork DEF Only, Frames
  <2> QED BY <1>3, <2>1, <2>2 DEF Top
<1>10. Tops(o)'
  BY <1>0, <1>8, <1>9, QuietTops
<1>11. Positions(o)'
  <2>1. wk'[w].pc \in {"unbusy", "finish"} => wk[w].pc \in {"unbusy", "finish"} /\ wk'[w].frm = wk[w].frm
    BY <1>3 DEF Carrying
  <2> QED BY <1>0, <2>1, PositionsKept
<1>12. Ghosts(o, rk)'
  BY <1>0 DEF Ghosts, Frames
<1> QED BY <1>0, <1>4, <1>5, <1>6, <1>7, <1>8, <1>10, <1>11, <1>12 DEF Good, Control

(* What the invariant says of a worker that executes a frame.              *)
LEMMA Working ==
    ASSUME NEW o, NEW rk, NEW n, Good(o, rk, n), NEW w \in Workers, AtFrame(w)
    PROVE  /\ Types /\ Duty(w) /\ Point(w)
           /\ busy[w] \in Closures /\ cl[busy[w]].status = "running" /\ cl[busy[w]].status # "invalid"
           /\ Cur(w) \in Frames /\ wk[w].cur = Cur(w)
           /\ Len(Code(Cur(w))) \in Nat /\ at[Cur(w)] \in 1 .. Len(Code(Cur(w))) + 1
           /\ Cur(w) \in unsynced => SyncAhead(Cur(w))
           /\ prog.handler[Cur(w)] \in 0 .. Len(Code(Cur(w))) + 1
<1>1. Types /\ Duty(w) /\ Point(w) /\ Duties /\ Holding /\ Tops(o)
  BY DEF Good, Control, Duties, Points
<1>2. /\ busy[w] \in Closures /\ cl[busy[w]].status = "running"
      /\ Cur(w) \in Frames /\ wk[w].cur = Cur(w)
  BY <1>1, AtWork
<1>3. Len(Code(Cur(w))) \in Nat /\ prog.handler[Cur(w)] \in 0 .. Len(Code(Cur(w))) + 1
  BY <1>1, <1>2, ProgramFrames DEF Types, FrameTypes
<1> QED BY <1>1, <1>2, <1>3 DEF Good, Positions

(* QuietStep, with what the steps of the code do with the worker's own     *)
(* busy lock.                                                              *)
LEMMA QuietMove ==
    ASSUME NEW o, NEW rk, NEW n, Good(o, rk, n), Types', SameStacks,
           NEW w \in Workers, AtFrame(w),
           Others(w), AtFrame(w)', wk'[w].cur = wk[w].cur,
           \/ busyLock' = busyLock
           \/ busyLock[w] \in {w, Null} /\ busyLock' = [busyLock EXCEPT ![w] = w]
           \/ busyLock[w] \in {w, Null} /\ busyLock' = [busyLock EXCEPT ![w] = Null],
           wk'[w].pc \in Locked => busyLock'[w] = w,
           wk'[w].pc # "synced", wk'[w].pc = "handler" => dq[w] = <<>>,
           Helping(w) => Helping(w)', Point(w)',
           \A f \in Frames : f # Cur(w) => at'[f] = at[f] /\ unw'[f] = unw[f],
           at'[Cur(w)] \in at[Cur(w)] .. Len(Code(Cur(w))) + 1,
           Cur(w) \in unsynced => SyncAhead(Cur(w))'
    PROVE  Good(o, rk, n)'
<1>1. Types /\ busy[w] \in Closures
  BY Working
<1>2. OthersLocks(w)
  BY <1>1, LocksKept
<1>3. busy'[w] # Null /\ dq' = dq
  BY <1>1, Nulls DEF SameStacks
<1>4. wk'[w].pc \notin Idling /\ wk'[w].pc \notin Carrying /\ wk'[w].pc # "set_return2"
      /\ wk'[w].pc \notin {"peek", "promote", "unbusy"} /\ wk'[w].pc # "promote"
      /\ (wk'[w].pc = "reduce" => wk'[w].why = "synced")
  BY DEF AtFrame, Executing, Idling, Carrying
<1>5. Duty(w)'
  BY <1>3, <1>4 DEF Duty
<1> QED BY <1>2, <1>5, QuietStep

(* A sync to come stays so while the frame executes something else.        *)
LEMMA StepAhead ==
    ASSUME NEW f, prog' = prog, Len(Code(f)) \in Nat, at[f] \in 1 .. Len(Code(f)),
           at'[f] = at[f] + 1, SyncAhead(f), Code(f)[at[f]].op # "sync"
    PROVE  SyncAhead(f)'
<1>1. PICK j \in at[f] .. Len(Code(f)) : Code(f)[j].op = "sync"
  BY DEF SyncAhead
<1>2. j # at[f]
  BY <1>1
<1>3. j \in at'[f] .. Len(Code(f))
  BY <1>2
<1> QED BY <1>1, <1>3 DEF SyncAhead, Code

(* A sync to come stays so while the frame does not move.                  *)
LEMMA SameAhead ==
    ASSUME NEW f, prog' = prog, at'[f] = at[f]
    PROVE  SyncAhead(f)' <=> SyncAhead(f)
  BY DEF SyncAhead, Code

(* A frame that returns has no sync to come.                               *)
LEMMA NotAhead ==
    ASSUME NEW f, Len(Code(f)) \in Nat, at[f] \in 1 .. Len(Code(f)) + 1, Returns(f)
    PROVE  ~SyncAhead(f)
  BY DEF SyncAhead, Returns

(* An update of a reducer keeps the invariant.                             *)
LEMMA UpdateGood ==
    ASSUME NEW o, NEW rk, NEW n, Good(o, rk, n), NEW w \in Workers, Update(w)
    PROVE  Good(o, rk, n)'
<1>0. /\ wk[w].pc = "user" /\ ~Returns(Cur(w))
      /\ Code(Cur(w))[at[Cur(w)]].op = "update" /\ AtFrame(w)
  BY DEF Update, Executes, AtFrame, Executing
<1>1. /\ Types /\ Cur(w) \in Frames /\ Len(Code(Cur(w))) \in Nat
      /\ at[Cur(w)] \in 1 .. Len(Code(Cur(w))) + 1
      /\ Cur(w) \in unsynced => SyncAhead(Cur(w))
  BY <1>0, Working
<1>2. /\ Types' /\ SameStacks /\ Goes(w, "user") /\ busyLock' = busyLock
      /\ at' = [at EXCEPT ![Cur(w)] = @ + 1] /\ unw' = unw
  BY <1>1, UpdateStep
<1>3. Others(w) /\ wk'[w].pc = "user" /\ wk'[w].cur = wk[w].cur /\ prog' = prog
  BY <1>2 DEF Goes, Moves, SameStacks
<1>4. at[Cur(w)] \in 1 .. Len(Code(Cur(w))) /\ at'[Cur(w)] = at[Cur(w)] + 1
  BY <1>0, <1>1, <1>2 DEF Returns, Types, FrameTypes
<1>5. Cur(w) \in unsynced => SyncAhead(Cur(w))'
  <2>1. Cur(w)' = Cur(w)
    BY <1>3 DEF Cur
  <2> QED BY <1>0, <1>1, <1>3, <1>4, <2>1, StepAhead
<1>6. AtFrame(w)' /\ ~Helping(w) /\ Point(w)' /\ wk'[w].pc \notin Locked
  BY <1>0, <1>3
     DEF AtFrame, Executing, Helping, Point, BeforeSync, AfterSync, Reducing,
         Resuming, Locked
<1>7. \A f \in Frames : f # Cur(w) => at'[f] = at[f] /\ unw'[f] = unw[f]
  BY <1>1, <1>2 DEF Types, FrameTypes
<1>8. at'[Cur(w)] \in at[Cur(w)] .. Len(Code(Cur(w))) + 1
  BY <1>1, <1>4
<1> QED BY <1>0, <1>2, <1>3, <1>5, <1>6, <1>7, <1>8, QuietMove

(* A sync with nothing to wait for keeps the invariant.                    *)
LEMMA SyncNothingGood ==
    ASSUME NEW o, NEW rk, NEW n, Good(o, rk, n), NEW w \in Workers, SyncNothing(w)
    PROVE  Good(o, rk, n)'
<1>0. wk[w].pc = "user" /\ ~Returns(Cur(w)) /\ Cur(w) \notin unsynced /\ AtFrame(w)
  BY DEF SyncNothing, Executes, AtFrame, Executing
<1>1. /\ Types /\ Cur(w) \in Frames /\ Len(Code(Cur(w))) \in Nat
      /\ at[Cur(w)] \in 1 .. Len(Code(Cur(w))) + 1
  BY <1>0, Working
<1>2. /\ Types' /\ SameStacks /\ Goes(w, "user") /\ busyLock' = busyLock
      /\ at' = [at EXCEPT ![Cur(w)] = @ + 1] /\ unw' = unw
  BY <1>1, SyncNothingStep
<1>3. Others(w) /\ wk'[w].pc = "user" /\ wk'[w].cur = wk[w].cur /\ prog' = prog
  BY <1>2 DEF Goes, Moves, SameStacks
<1>4. at[Cur(w)] \in 1 .. Len(Code(Cur(w))) /\ at'[Cur(w)] = at[Cur(w)] + 1
  BY <1>0, <1>1, <1>2 DEF Returns, Types, FrameTypes
<1>6. AtFrame(w)' /\ ~Helping(w) /\ Point(w)' /\ wk'[w].pc \notin Locked
  BY <1>0, <1>3
     DEF AtFrame, Executing, Helping, Point, BeforeSync, AfterSync, Reducing,
         Resuming, Locked
<1>7. \A f \in Frames : f # Cur(w) => at'[f] = at[f] /\ unw'[f] = unw[f]
  BY <1>0, <1>1, <1>2 DEF Types, FrameTypes
<1>8. at'[Cur(w)] \in at[Cur(w)] .. Len(Code(Cur(w))) + 1
  BY <1>1, <1>4
<1> QED BY <1>0, <1>2, <1>3, <1>6, <1>7, <1>8, QuietMove

(* A throw keeps the invariant.                                            *)
LEMMA ThrowGood ==
    ASSUME NEW o, NEW rk, NEW n, Good(o, rk, n), NEW w \in Workers, Throw(w)
    PROVE  Good(o, rk, n)'
<1>0. /\ wk[w].pc = "user" /\ ~Returns(Cur(w))
      /\ Code(Cur(w))[at[Cur(w)]].op = "throw" /\ AtFrame(w)
  BY DEF Throw, Executes, AtFrame, Executing
<1>1. /\ Types /\ Cur(w) \in Frames /\ Len(Code(Cur(w))) \in Nat
      /\ at[Cur(w)] \in 1 .. Len(Code(Cur(w))) + 1
      /\ wk[w].cur = Cur(w) /\ Duty(w) /\ Point(w) /\ busy[w] \in Closures
      /\ cl[busy[w]].status # "invalid"
      /\ Cur(w) \in unsynced => SyncAhead(Cur(w))
      /\ prog.handler[Cur(w)] \in 0 .. Len(Code(Cur(w))) + 1
  BY <1>0, Working
<1>2. /\ Types' /\ SameStacks /\ Goes(w, "unwind") /\ busyLock' = busyLock
      /\ unw' = [unw EXCEPT ![Cur(w)] = [exn |-> Arg(w), sp |-> wk[w].fib]] /\ at' = at
  BY <1>0, <1>1, ThrowStep
<1>3. Others(w) /\ wk'[w].pc = "unwind" /\ wk'[w].cur = wk[w].cur
      /\ prog' = prog /\ unsynced' = unsynced /\ stolen' = stolen /\ busy' = busy
      /\ \A c \in Closures : cl'[c].frame = cl[c].frame
  BY <1>2, SameTreeLinks DEF Goes, Moves, SameStacks
<1>5. Cur(w) \in unsynced => SyncAhead(Cur(w))'
  <2>1. Cur(w)' = Cur(w)
    BY <1>3 DEF Cur
  <2> QED BY <1>1, <1>2, <1>3, <2>1, SameAhead
<1>6. AtFrame(w)' /\ wk'[w].pc # "synced"
  BY <1>0, <1>3 DEF AtFrame, Executing
<1>4. unw'[Cur(w)].exn # Null
  <2>1. at[Cur(w)] \in 1 .. Len(Code(Cur(w)))
    BY <1>0, <1>1 DEF Returns
  <2>2. Arg(w) # Null
    BY <1>0, <1>1, <2>1, ProgramSyncs DEF Types, FrameTypes, Arg
  <2> QED BY <1>1, <1>2, <2>2 DEF Types, FrameTypes
<1>7. /\ Point(w)' /\ (Helping(w) => Helping(w)')
      /\ (wk'[w].pc = "handler" => dq[w] = <<>>)
  BY <1>0, <1>1, <1>2, <1>3, <1>4
     DEF Point, BeforeSync, AfterSync, Reducing, Resuming, Helping, Stopped
<1>8. \A f \in Frames : f # Cur(w) => at'[f] = at[f] /\ unw'[f] = unw[f]
  BY <1>0, <1>1, <1>2 DEF Types, FrameTypes
<1>9. at'[Cur(w)] \in at[Cur(w)] .. Len(Code(Cur(w))) + 1
  BY <1>1, <1>2
<1>10. wk'[w].pc \in Locked => busyLock'[w] = w
  BY <1>1, <1>2, <1>3 DEF Locked, Types, LockTypes
<1> QED BY <1>0, <1>1, <1>2, <1>3, <1>5, <1>6, <1>7, <1>8, <1>9, <1>10, QuietMove

(* Taking the busy lock for a sync keeps the invariant.                    *)
LEMMA SyncLockGood ==
    ASSUME NEW o, NEW rk, NEW n, Good(o, rk, n), NEW w \in Workers, SyncLock(w)
    PROVE  Good(o, rk, n)'
<1>0. wk[w].pc = "user" /\ ~Returns(Cur(w)) /\ Cur(w) \in unsynced /\ AtFrame(w)
  BY DEF SyncLock, Executes, AtFrame, Executing
<1>1. /\ Types /\ Cur(w) \in Frames /\ Len(Code(Cur(w))) \in Nat
      /\ at[Cur(w)] \in 1 .. Len(Code(Cur(w))) + 1
      /\ wk[w].cur = Cur(w) /\ Duty(w) /\ Point(w) /\ busy[w] \in Closures
      /\ cl[busy[w]].status # "invalid"
      /\ Cur(w) \in unsynced => SyncAhead(Cur(w))
      /\ prog.handler[Cur(w)] \in 0 .. Len(Code(Cur(w))) + 1
  BY <1>0, Working
<1>a. LockSelf(w, "sync") /\ "sync" \in WorkerPc
  BY DEF SyncLock, WorkerPc
<1>2. /\ Types' /\ SameStacks /\ Goes(w, "sync") /\ unw' = unw
      /\ busyLock[w] = Null /\ busyLock' = [busyLock EXCEPT ![w] = w] /\ at' = at
  BY <1>0, <1>1, <1>a, LockSelfStep
<1>3. Others(w) /\ wk'[w].pc = "sync" /\ wk'[w].cur = wk[w].cur
      /\ prog' = prog /\ unsynced' = unsynced /\ stolen' = stolen /\ busy' = busy
      /\ \A c \in Closures : cl'[c].frame = cl[c].frame
  BY <1>2, SameTreeLinks DEF Goes, Moves, SameStacks
<1>5. Cur(w) \in unsynced => SyncAhead(Cur(w))'
  <2>1. Cur(w)' = Cur(w)
    BY <1>3 DEF Cur
  <2> QED BY <1>1, <1>2, <1>3, <2>1, SameAhead
<1>6. AtFrame(w)' /\ wk'[w].pc # "synced"
  BY <1>0, <1>3 DEF AtFrame, Executing
<1>7. /\ Point(w)' /\ (Helping(w) => Helping(w)')
      /\ (wk'[w].pc = "handler" => dq[w] = <<>>)
  BY <1>0, <1>1, <1>2, <1>3
     DEF Point, BeforeSync, AfterSync, Reducing, Resuming, Helping, Stopped,
         Code, Returns
<1>8. \A f \in Frames : f # Cur(w) => at'[f] = at[f] /\ unw'[f] = unw[f]
  BY <1>0, <1>1, <1>2 DEF Types, FrameTypes
<1>9. at'[Cur(w)] \in at[Cur(w)] .. Len(Code(Cur(w))) + 1
  BY <1>1, <1>2
<1>10. wk'[w].pc \in Locked => busyLock'[w] = w
  BY <1>1, <1>2, <1>3 DEF Locked, Types, LockTypes
<1> QED BY <1>0, <1>1, <1>2, <1>3, <1>5, <1>6, <1>7, <1>8, <1>9, <1>10, QuietMove

(* Taking the busy lock for a return to a call parent keeps the invariant. *)
LEMMA SetReturnLockGood ==
    ASSUME NEW o, NEW rk, NEW n, Good(o, rk, n), NEW w \in Workers, SetReturnLock(w)
    PROVE  Good(o, rk, n)'
<1>0. Leaving(w) /\ prog.kind[Cur(w)] # "expr" /\ Cur(w) \in stolen /\ AtFrame(w)
  BY DEF SetReturnLock, Leaving, AtFrame, Executing
<1>1. /\ Types /\ Cur(w) \in Frames /\ Len(Code(Cur(w))) \in Nat
      /\ at[Cur(w)] \in 1 .. Len(Code(Cur(w))) + 1
      /\ wk[w].cur = Cur(w) /\ Duty(w) /\ Point(w) /\ busy[w] \in Closures
      /\ cl[busy[w]].status # "invalid"
      /\ Cur(w) \in unsynced => SyncAhead(Cur(w))
      /\ prog.handler[Cur(w)] \in 0 .. Len(Code(Cur(w))) + 1
  BY <1>0, Working
<1>a. LockSelf(w, "set_return") /\ "set_return" \in WorkerPc
  BY DEF SetReturnLock, WorkerPc
<1>2. /\ Types' /\ SameStacks /\ Goes(w, "set_return") /\ unw' = unw
      /\ busyLock[w] = Null /\ busyLock' = [busyLock EXCEPT ![w] = w] /\ at' = at
  BY <1>0, <1>1, <1>a, LockSelfStep
<1>3. Others(w) /\ wk'[w].pc = "set_return" /\ wk'[w].cur = wk[w].cur
      /\ prog' = prog /\ unsynced' = unsynced /\ stolen' = stolen /\ busy' = busy
      /\ \A c \in Closures : cl'[c].frame = cl[c].frame
  BY <1>2, SameTreeLinks DEF Goes, Moves, SameStacks
<1>5. Cur(w) \in unsynced => SyncAhead(Cur(w))'
  <2>1. Cur(w)' = Cur(w)
    BY <1>3 DEF Cur
  <2> QED BY <1>1, <1>2, <1>3, <2>1, SameAhead
<1>6. AtFrame(w)' /\ wk'[w].pc # "synced"
  BY <1>0, <1>3 DEF AtFrame, Executing
<1>4. Cur(w) \notin unsynced /\ Cur(w) # Root /\ ~HasHandler(Cur(w)) /\ ~Helping(w)
  <2>1. CASE wk[w].pc = "leave"
    BY <1>1, <2>1 DEF Point, AfterSync, Helping
  <2>2. CASE wk[w].pc = "user" /\ Returns(Cur(w)) /\ Cur(w) # Root
    BY <1>1, <2>2, NotAhead DEF HasHandler, Returns, Helping
  <2> QED BY <1>0, <2>1, <2>2 DEF Leaving
<1>7. /\ Point(w)' /\ (Helping(w) => Helping(w)')
      /\ (wk'[w].pc = "handler" => dq[w] = <<>>)
  BY <1>0, <1>1, <1>2, <1>3, <1>4
     DEF Point, BeforeSync, AfterSync, Reducing, Resuming, Helping, Stopped,
         HasHandler, Code
<1>8. \A f \in Frames : f # Cur(w) => at'[f] = at[f] /\ unw'[f] = unw[f]
  BY <1>0, <1>1, <1>2 DEF Types, FrameTypes
<1>9. at'[Cur(w)] \in at[Cur(w)] .. Len(Code(Cur(w))) + 1
  BY <1>1, <1>2
<1>10. wk'[w].pc \in Locked => busyLock'[w] = w
  BY <1>1, <1>2, <1>3 DEF Locked, Types, LockTypes
<1> QED BY <1>0, <1>1, <1>2, <1>3, <1>5, <1>6, <1>7, <1>8, <1>9, <1>10, QuietMove

(* Taking the busy lock in the exception handler keeps the invariant.      *)
LEMMA HandlerLockGood ==
    ASSUME NEW o, NEW rk, NEW n, Good(o, rk, n), NEW w \in Workers, HandlerLock(w)
    PROVE  Good(o, rk, n)'
<1>0. wk[w].pc = "helper" /\ dq[w] = <<>> /\ AtFrame(w)
  BY DEF HandlerLock, AtFrame, Executing
<1>1. /\ Types /\ Cur(w) \in Frames /\ Len(Code(Cur(w))) \in Nat
      /\ at[Cur(w)] \in 1 .. Len(Code(Cur(w))) + 1
      /\ wk[w].cur = Cur(w) /\ Duty(w) /\ Point(w) /\ busy[w] \in Closures
      /\ cl[busy[w]].status # "invalid"
      /\ Cur(w) \in unsynced => SyncAhead(Cur(w))
      /\ prog.handler[Cur(w)] \in 0 .. Len(Code(Cur(w))) + 1
  BY <1>0, Working
<1>a. LockSelf(w, "handler") /\ "handler" \in WorkerPc
  BY DEF HandlerLock, WorkerPc
<1>2. /\ Types' /\ SameStacks /\ Goes(w, "handler") /\ unw' = unw
      /\ busyLock[w] = Null /\ busyLock' = [busyLock EXCEPT ![w] = w] /\ at' = at
  BY <1>0, <1>1, <1>a, LockSelfStep
<1>3. Others(w) /\ wk'[w].pc = "handler" /\ wk'[w].cur = wk[w].cur
      /\ prog' = prog /\ unsynced' = unsynced /\ stolen' = stolen /\ busy' = busy
      /\ \A c \in Closures : cl'[c].frame = cl[c].frame
  BY <1>2, SameTreeLinks DEF Goes, Moves, SameStacks
<1>5. Cur(w) \in unsynced => SyncAhead(Cur(w))'
  <2>1. Cur(w)' = Cur(w)
    BY <1>3 DEF Cur
  <2> QED BY <1>1, <1>2, <1>3, <2>1, SameAhead
<1>6. AtFrame(w)' /\ wk'[w].pc # "synced"
  BY <1>0, <1>3 DEF AtFrame, Executing
<1>7. /\ Point(w)' /\ (Helping(w) => Helping(w)')
      /\ (wk'[w].pc = "handler" => dq[w] = <<>>)
  BY <1>0, <1>1, <1>2, <1>3
     DEF Point, BeforeSync, AfterSync, Reducing, Resuming, Helping, Stopped
<1>8. \A f \in Frames : f # Cur(w) => at'[f] = at[f] /\ unw'[f] = unw[f]
  BY <1>0, <1>1, <1>2 DEF Types, FrameTypes
<1>9. at'[Cur(w)] \in at[Cur(w)] .. Len(Code(Cur(w))) + 1
  BY <1>1, <1>2
<1>10. wk'[w].pc \in Locked => busyLock'[w] = w
  BY <1>1, <1>2, <1>3 DEF Locked, Types, LockTypes
<1> QED BY <1>0, <1>1, <1>2, <1>3, <1>5, <1>6, <1>7, <1>8, <1>9, <1>10, QuietMove

(* Taking the busy lock in the personality function keeps the invariant.   *)
LEMMA UnwindLockGood ==
    ASSUME NEW o, NEW rk, NEW n, Good(o, rk, n), NEW w \in Workers, UnwindLock(w)
    PROVE  Good(o, rk, n)'
<1>0. wk[w].pc = "unwind" /\ Cur(w) \in unsynced /\ AtFrame(w)
  BY DEF UnwindLock, AtFrame, Executing
<1>1. /\ Types /\ Cur(w) \in Frames /\ Len(Code(Cur(w))) \in Nat
      /\ at[Cur(w)] \in 1 .. Len(Code(Cur(w))) + 1
      /\ wk[w].cur = Cur(w) /\ Duty(w) /\ Point(w) /\ busy[w] \in Closures
      /\ cl[busy[w]].status # "invalid"
      /\ Cur(w) \in unsynced => SyncAhead(Cur(w))
      /\ prog.handler[Cur(w)] \in 0 .. Len(Code(Cur(w))) + 1
  BY <1>0, Working
<1>a. LockSelf(w, "save") /\ "save" \in WorkerPc
  BY DEF UnwindLock, WorkerPc
<1>2. /\ Types' /\ SameStacks /\ Goes(w, "save") /\ unw' = unw
      /\ busyLock[w] = Null /\ busyLock' = [busyLock EXCEPT ![w] = w] /\ at' = at
  BY <1>0, <1>1, <1>a, LockSelfStep
<1>3. Others(w) /\ wk'[w].pc = "save" /\ wk'[w].cur = wk[w].cur
      /\ prog' = prog /\ unsynced' = unsynced /\ stolen' = stolen /\ busy' = busy
      /\ \A c \in Closures : cl'[c].frame = cl[c].frame
  BY <1>2, SameTreeLinks DEF Goes, Moves, SameStacks
<1>5. Cur(w) \in unsynced => SyncAhead(Cur(w))'
  <2>1. Cur(w)' = Cur(w)
    BY <1>3 DEF Cur
  <2> QED BY <1>1, <1>2, <1>3, <2>1, SameAhead
<1>6. AtFrame(w)' /\ wk'[w].pc # "synced"
  BY <1>0, <1>3 DEF AtFrame, Executing
<1>7. /\ Point(w)' /\ (Helping(w) => Helping(w)')
      /\ (wk'[w].pc = "handler" => dq[w] = <<>>)
  BY <1>0, <1>1, <1>2, <1>3
     DEF Point, BeforeSync, AfterSync, Reducing, Resuming, Helping, Stopped
<1>8. \A f \in Frames : f # Cur(w) => at'[f] = at[f] /\ unw'[f] = unw[f]
  BY <1>0, <1>1, <1>2 DEF Types, FrameTypes
<1>9. at'[Cur(w)] \in at[Cur(w)] .. Len(Code(Cur(w))) + 1
  BY <1>1, <1>2
<1>10. wk'[w].pc \in Locked => busyLock'[w] = w
  BY <1>1, <1>2, <1>3 DEF Locked, Types, LockTypes
<1> QED BY <1>0, <1>1, <1>2, <1>3, <1>5, <1>6, <1>7, <1>8, <1>9, <1>10, QuietMove

(* Saving the exception and the fiber for an unwinding keeps the           *)
(* invariant.                                                              *)
LEMMA UnwindSaveGood ==
    ASSUME NEW o, NEW rk, NEW n, Good(o, rk, n), NEW w \in Workers, UnwindSave(w)
    PROVE  Good(o, rk, n)'
<1>0. wk[w].pc = "save" /\ AtFrame(w)
  BY DEF UnwindSave, AtFrame, Executing
<1>1. /\ Types /\ Cur(w) \in Frames /\ Len(Code(Cur(w))) \in Nat
      /\ at[Cur(w)] \in 1 .. Len(Code(Cur(w))) + 1
      /\ wk[w].cur = Cur(w) /\ Duty(w) /\ Point(w) /\ busy[w] \in Closures
      /\ cl[busy[w]].status # "invalid"
      /\ Cur(w) \in unsynced => SyncAhead(Cur(w))
      /\ prog.handler[Cur(w)] \in 0 .. Len(Code(Cur(w))) + 1
  BY <1>0, Working
<1>2. /\ Types' /\ SameStacks /\ Goes(w, "throwing") /\ unw' = unw
      /\ busyLock' = [busyLock EXCEPT ![w] = Null] /\ at' = at
  BY <1>0, <1>1, UnwindSaveStep
<1>3. Others(w) /\ wk'[w].pc = "throwing" /\ wk'[w].cur = wk[w].cur
      /\ prog' = prog /\ unsynced' = unsynced /\ stolen' = stolen /\ busy' = busy
      /\ \A c \in Closures : cl'[c].frame = cl[c].frame
  BY <1>2, SameTreeLinks DEF Goes, Moves, SameStacks
<1>5. Cur(w) \in unsynced => SyncAhead(Cur(w))'
  <2>1. Cur(w)' = Cur(w)
    BY <1>3 DEF Cur
  <2> QED BY <1>1, <1>2, <1>3, <2>1, SameAhead
<1>6. AtFrame(w)' /\ wk'[w].pc # "synced"
  BY <1>0, <1>3 DEF AtFrame, Executing
<1>7. /\ Point(w)' /\ (Helping(w) => Helping(w)')
      /\ (wk'[w].pc = "handler" => dq[w] = <<>>)
  BY <1>0, <1>1, <1>2, <1>3
     DEF Point, BeforeSync, AfterSync, Reducing, Resuming, Helping, Stopped
<1>8. \A f \in Frames : f # Cur(w) => at'[f] = at[f] /\ unw'[f] = unw[f]
  BY <1>0, <1>1, <1>2 DEF Types, FrameTypes
<1>9. at'[Cur(w)] \in at[Cur(w)] .. Len(Code(Cur(w))) + 1
  BY <1>1, <1>2
<1>10. wk'[w].pc \in Locked => busyLock'[w] = w
  BY <1>1, <1>2, <1>3 DEF Locked, Types, LockTypes
<1> QED
  BY <1>0, <1>1, <1>2, <1>3, <1>5, <1>6, <1>7, <1>8, <1>9, <1>10, QuietMove
     DEF Duty, Locked

(* Beginning the sync in the middle of an unwinding keeps the invariant.   *)
LEMMA UnwindSyncGood ==
    ASSUME NEW o, NEW rk, NEW n, Good(o, rk, n), NEW w \in Workers, UnwindSync(w)
    PROVE  Good(o, rk, n)'
<1>0. wk[w].pc = "throwing" /\ AtFrame(w)
  BY DEF UnwindSync, AtFrame, Executing
<1>1. /\ Types /\ Cur(w) \in Frames /\ Len(Code(Cur(w))) \in Nat
      /\ at[Cur(w)] \in 1 .. Len(Code(Cur(w))) + 1
      /\ wk[w].cur = Cur(w) /\ Duty(w) /\ Point(w) /\ busy[w] \in Closures
      /\ cl[busy[w]].status # "invalid"
      /\ Cur(w) \in unsynced => SyncAhead(Cur(w))
      /\ prog.handler[Cur(w)] \in 0 .. Len(Code(Cur(w))) + 1
  BY <1>0, Working
<1>2. /\ Types' /\ SameStacks /\ Goes(w, "sync") /\ unw' = unw
      /\ busyLock[w] = Null /\ busyLock' = [busyLock EXCEPT ![w] = w] /\ at' = at
  BY <1>0, <1>1, UnwindSyncStep
<1>3. Others(w) /\ wk'[w].pc = "sync" /\ wk'[w].cur = wk[w].cur
      /\ prog' = prog /\ unsynced' = unsynced /\ stolen' = stolen /\ busy' = busy
      /\ \A c \in Closures : cl'[c].frame = cl[c].frame
  BY <1>2, SameTreeLinks DEF Goes, Moves, SameStacks
<1>5. Cur(w) \in unsynced => SyncAhead(Cur(w))'
  <2>1. Cur(w)' = Cur(w)
    BY <1>3 DEF Cur
  <2> QED BY <1>1, <1>2, <1>3, <2>1, SameAhead
<1>6. AtFrame(w)' /\ wk'[w].pc # "synced"
  BY <1>0, <1>3 DEF AtFrame, Executing
<1>7. /\ Point(w)' /\ (Helping(w) => Helping(w)')
      /\ (wk'[w].pc = "handler" => dq[w] = <<>>)
  BY <1>0, <1>1, <1>2, <1>3
     DEF Point, BeforeSync, AfterSync, Reducing, Resuming, Helping, Stopped
<1>8. \A f \in Frames : f # Cur(w) => at'[f] = at[f] /\ unw'[f] = unw[f]
  BY <1>0, <1>1, <1>2 DEF Types, FrameTypes
<1>9. at'[Cur(w)] \in at[Cur(w)] .. Len(Code(Cur(w))) + 1
  BY <1>1, <1>2
<1>10. wk'[w].pc \in Locked => busyLock'[w] = w
  BY <1>1, <1>2, <1>3 DEF Locked, Types, LockTypes
<1> QED BY <1>0, <1>1, <1>2, <1>3, <1>5, <1>6, <1>7, <1>8, <1>9, <1>10, QuietMove

(* Taking the children's views keeps the invariant.                        *)
LEMMA SyncTakeChildHtGood ==
    ASSUME NEW o, NEW rk, NEW n, Good(o, rk, n), NEW w \in Workers, SyncTakeChildHt(w)
    PROVE  Good(o, rk, n)'
<1>0. wk[w].pc = "synced" /\ AtFrame(w)
  BY DEF SyncTakeChildHt, AtFrame, Executing
<1>1. /\ Types /\ Cur(w) \in Frames /\ Len(Code(Cur(w))) \in Nat
      /\ at[Cur(w)] \in 1 .. Len(Code(Cur(w))) + 1
      /\ wk[w].cur = Cur(w) /\ Duty(w) /\ Point(w) /\ busy[w] \in Closures
      /\ cl[busy[w]].status # "invalid"
      /\ Cur(w) \in unsynced => SyncAhead(Cur(w))
      /\ prog.handler[Cur(w)] \in 0 .. Len(Code(Cur(w))) + 1
  BY <1>0, Working
<1>a. wk[w].cl \in Closures /\ cl[wk[w].cl].status # "invalid"
  BY <1>0, <1>1 DEF Duty
<1>2. /\ Types' /\ SameStacks
      /\ Moves(w, "reduce", wk[w].cur, Null, wk[w].vic, wk[w].frm, "synced")
      /\ unw' = unw /\ busyLock' = busyLock /\ at' = at
  BY <1>0, <1>1, <1>a, SyncTakeChildHtStep
<1>3. /\ Others(w) /\ wk'[w].pc = "reduce" /\ wk'[w].why = "synced"
      /\ wk'[w].cur = wk[w].cur
      /\ prog' = prog /\ unsynced' = unsynced /\ stolen' = stolen /\ busy' = busy
      /\ \A c \in Closures : cl'[c].frame = cl[c].frame
  BY <1>2, SameTreeLinks DEF Goes, Moves, SameStacks
<1>5. Cur(w) \in unsynced => SyncAhead(Cur(w))'
  <2>1. Cur(w)' = Cur(w)
    BY <1>3 DEF Cur
  <2> QED BY <1>1, <1>2, <1>3, <2>1, SameAhead
<1>6. AtFrame(w)' /\ wk'[w].pc # "synced"
  BY <1>0, <1>3 DEF AtFrame, Executing
<1>7. /\ Point(w)' /\ (Helping(w) => Helping(w)')
      /\ (wk'[w].pc = "handler" => dq[w] = <<>>)
  BY <1>0, <1>1, <1>2, <1>3
     DEF Point, BeforeSync, AfterSync, Reducing, Resuming, Helping, Stopped,
         Code
<1>8. \A f \in Frames : f # Cur(w) => at'[f] = at[f] /\ unw'[f] = unw[f]
  BY <1>0, <1>1, <1>2 DEF Types, FrameTypes
<1>9. at'[Cur(w)] \in at[Cur(w)] .. Len(Code(Cur(w))) + 1
  BY <1>1, <1>2
<1>10. wk'[w].pc \in Locked => busyLock'[w] = w
  BY <1>1, <1>2, <1>3 DEF Locked, Types, LockTypes
<1> QED BY <1>0, <1>1, <1>2, <1>3, <1>5, <1>6, <1>7, <1>8, <1>9, <1>10, QuietMove

(* Taking over an earlier exception keeps the invariant.                   *)
LEMMA ReraiseGood ==
    ASSUME NEW o, NEW rk, NEW n, Good(o, rk, n), NEW w \in Workers, Reraise(w)
    PROVE  Good(o, rk, n)'
<1>0. wk[w].pc = "unwind" /\ Cur(w) \notin unsynced /\ AtFrame(w)
  BY DEF Reraise, Synced, AtFrame, Executing
<1>1. /\ Types /\ Cur(w) \in Frames /\ Len(Code(Cur(w))) \in Nat
      /\ at[Cur(w)] \in 1 .. Len(Code(Cur(w))) + 1
      /\ wk[w].cur = Cur(w) /\ Duty(w) /\ Point(w) /\ busy[w] \in Closures
      /\ cl[busy[w]].status # "invalid"
      /\ Cur(w) \in unsynced => SyncAhead(Cur(w))
      /\ prog.handler[Cur(w)] \in 0 .. Len(Code(Cur(w))) + 1
  BY <1>0, Working
<1>2. /\ Types' /\ SameStacks /\ Goes(w, "unwind") /\ busyLock' = busyLock
      /\ wk[w].ht.view.exn # Null
      /\ unw' = [unw EXCEPT ![Cur(w)].exn = wk[w].ht.view.exn] /\ at' = at
  BY <1>0, <1>1, ReraiseStep
<1>3. Others(w) /\ wk'[w].pc = "unwind" /\ wk'[w].cur = wk[w].cur
      /\ prog' = prog /\ unsynced' = unsynced /\ stolen' = stolen /\ busy' = busy
      /\ \A c \in Closures : cl'[c].frame = cl[c].frame
  BY <1>2, SameTreeLinks DEF Goes, Moves, SameStacks
<1>5. Cur(w) \in unsynced => SyncAhead(Cur(w))'
  <2>1. Cur(w)' = Cur(w)
    BY <1>3 DEF Cur
  <2> QED BY <1>1, <1>2, <1>3, <2>1, SameAhead
<1>6. AtFrame(w)' /\ wk'[w].pc # "synced"
  BY <1>0, <1>3 DEF AtFrame, Executing
<1>4. unw'[Cur(w)].exn # Null
  BY <1>0, <1>1, <1>2 DEF Types, FrameTypes
<1>7. /\ Point(w)' /\ (Helping(w) => Helping(w)')
      /\ (wk'[w].pc = "handler" => dq[w] = <<>>)
  BY <1>0, <1>1, <1>2, <1>3, <1>4
     DEF Point, BeforeSync, AfterSync, Reducing, Resuming, Helping, Stopped
<1>8. \A f \in Frames : f # Cur(w) => at'[f] = at[f] /\ unw'[f] = unw[f]
  BY <1>0, <1>1, <1>2 DEF Types, FrameTypes
<1>9. at'[Cur(w)] \in at[Cur(w)] .. Len(Code(Cur(w))) + 1
  BY <1>1, <1>2
<1>10. wk'[w].pc \in Locked => busyLock'[w] = w
  BY <1>1, <1>2, <1>3 DEF Locked, Types, LockTypes
<1> QED BY <1>0, <1>1, <1>2, <1>3, <1>5, <1>6, <1>7, <1>8, <1>9, <1>10, QuietMove

(* The personality function in a synced frame keeps the invariant.         *)
LEMMA PersonalityGood ==
    ASSUME NEW o, NEW rk, NEW n, Good(o, rk, n), NEW w \in Workers, Personality(w)
    PROVE  Good(o, rk, n)'
<1>0. wk[w].pc = "unwind" /\ Cur(w) \notin unsynced /\ (HasHandler(Cur(w)) \/ prog.kind[Cur(w)] = "expr" \/ Cur(w) # Root) /\ AtFrame(w)
  BY DEF Personality, Synced, AtFrame, Executing
<1>1. /\ Types /\ Cur(w) \in Frames /\ Len(Code(Cur(w))) \in Nat
      /\ at[Cur(w)] \in 1 .. Len(Code(Cur(w))) + 1
      /\ wk[w].cur = Cur(w) /\ Duty(w) /\ Point(w) /\ busy[w] \in Closures
      /\ cl[busy[w]].status # "invalid"
      /\ Cur(w) \in unsynced => SyncAhead(Cur(w))
      /\ prog.handler[Cur(w)] \in 0 .. Len(Code(Cur(w))) + 1
  BY <1>0, Working
<1>2. /\ Types' /\ SameStacks /\ busyLock' = busyLock /\ unw' = unw
      /\ Goes(w, IF HasHandler(Cur(w)) \/ prog.kind[Cur(w)] = "expr" THEN "landing" ELSE "leave") /\ at' = at
  BY <1>0, <1>1, PersonalityStep
<1>3. Others(w) /\ wk'[w].pc = (IF HasHandler(Cur(w)) \/ prog.kind[Cur(w)] = "expr" THEN "landing" ELSE "leave") /\ wk'[w].cur = wk[w].cur
      /\ prog' = prog /\ unsynced' = unsynced /\ stolen' = stolen /\ busy' = busy
      /\ \A c \in Closures : cl'[c].frame = cl[c].frame
  BY <1>2, SameTreeLinks DEF Goes, Moves, SameStacks
<1>5. Cur(w) \in unsynced => SyncAhead(Cur(w))'
  <2>1. Cur(w)' = Cur(w)
    BY <1>3 DEF Cur
  <2> QED BY <1>1, <1>2, <1>3, <2>1, SameAhead
<1>6. AtFrame(w)' /\ wk'[w].pc # "synced"
  BY <1>0, <1>3 DEF AtFrame, Executing
<1>7. /\ Point(w)' /\ (Helping(w) => Helping(w)')
      /\ (wk'[w].pc = "handler" => dq[w] = <<>>)
  BY <1>0, <1>1, <1>2, <1>3
     DEF Point, BeforeSync, AfterSync, Reducing, Resuming, Helping, Stopped,
         HasHandler
<1>8. \A f \in Frames : f # Cur(w) => at'[f] = at[f] /\ unw'[f] = unw[f]
  BY <1>0, <1>1, <1>2 DEF Types, FrameTypes
<1>9. at'[Cur(w)] \in at[Cur(w)] .. Len(Code(Cur(w))) + 1
  BY <1>1, <1>2
<1>10. wk'[w].pc \in Locked => busyLock'[w] = w
  BY <1>1, <1>2, <1>3 DEF Locked, Types, LockTypes
<1> QED BY <1>0, <1>1, <1>2, <1>3, <1>5, <1>6, <1>7, <1>8, <1>9, <1>10, QuietMove

(* The end of the root frame keeps the invariant.                          *)
LEMMA RootDoneGood ==
    ASSUME NEW o, NEW rk, NEW n, Good(o, rk, n), NEW w \in Workers, RootDone(w)
    PROVE  Good(o, rk, n)'
<1>0. wk[w].pc = "user" /\ Returns(Cur(w)) /\ Cur(w) = Root /\ AtFrame(w)
  BY DEF RootDone, AtFrame, Executing
<1>1. /\ Types /\ Cur(w) \in Frames /\ Len(Code(Cur(w))) \in Nat
      /\ at[Cur(w)] \in 1 .. Len(Code(Cur(w))) + 1
      /\ wk[w].cur = Cur(w) /\ Duty(w) /\ Point(w) /\ busy[w] \in Closures
      /\ cl[busy[w]].status # "invalid"
      /\ Cur(w) \in unsynced => SyncAhead(Cur(w))
      /\ prog.handler[Cur(w)] \in 0 .. Len(Code(Cur(w))) + 1
  BY <1>0, Working
<1>2. /\ Types' /\ SameStacks /\ Goes(w, "exit") /\ busyLock' = busyLock
      /\ unw' = unw /\ at' = at
  BY <1>0, <1>1, RootDoneStep
<1>3. Others(w) /\ wk'[w].pc = "exit" /\ wk'[w].cur = wk[w].cur
      /\ prog' = prog /\ unsynced' = unsynced /\ stolen' = stolen /\ busy' = busy
      /\ \A c \in Closures : cl'[c].frame = cl[c].frame
  BY <1>2, SameTreeLinks DEF Goes, Moves, SameStacks
<1>5. Cur(w) \in unsynced => SyncAhead(Cur(w))'
  <2>1. Cur(w)' = Cur(w)
    BY <1>3 DEF Cur
  <2> QED BY <1>1, <1>2, <1>3, <2>1, SameAhead
<1>6. AtFrame(w)' /\ wk'[w].pc # "synced"
  BY <1>0, <1>3 DEF AtFrame, Executing
<1>7. /\ Point(w)' /\ (Helping(w) => Helping(w)')
      /\ (wk'[w].pc = "handler" => dq[w] = <<>>)
  BY <1>0, <1>1, <1>2, <1>3, NotAhead
     DEF Point, BeforeSync, AfterSync, Reducing, Resuming, Helping, Stopped
<1>8. \A f \in Frames : f # Cur(w) => at'[f] = at[f] /\ unw'[f] = unw[f]
  BY <1>0, <1>1, <1>2 DEF Types, FrameTypes
<1>9. at'[Cur(w)] \in at[Cur(w)] .. Len(Code(Cur(w))) + 1
  BY <1>1, <1>2
<1>10. wk'[w].pc \in Locked => busyLock'[w] = w
  BY <1>1, <1>2, <1>3 DEF Locked, Types, LockTypes
<1> QED BY <1>0, <1>1, <1>2, <1>3, <1>5, <1>6, <1>7, <1>8, <1>9, <1>10, QuietMove

(* An exception that leaves the root frame keeps the invariant.            *)
LEMMA RootThrowsGood ==
    ASSUME NEW o, NEW rk, NEW n, Good(o, rk, n), NEW w \in Workers, RootThrows(w)
    PROVE  Good(o, rk, n)'
<1>0. wk[w].pc = "unwind" /\ Cur(w) \notin unsynced /\ Cur(w) = Root /\ AtFrame(w)
  BY DEF RootThrows, Synced, AtFrame, Executing
<1>1. /\ Types /\ Cur(w) \in Frames /\ Len(Code(Cur(w))) \in Nat
      /\ at[Cur(w)] \in 1 .. Len(Code(Cur(w))) + 1
      /\ wk[w].cur = Cur(w) /\ Duty(w) /\ Point(w) /\ busy[w] \in Closures
      /\ cl[busy[w]].status # "invalid"
      /\ Cur(w) \in unsynced => SyncAhead(Cur(w))
      /\ prog.handler[Cur(w)] \in 0 .. Len(Code(Cur(w))) + 1
  BY <1>0, Working
<1>2. /\ Types' /\ SameStacks /\ Goes(w, "exit") /\ busyLock' = busyLock
      /\ unw' = [unw EXCEPT ![Root] = NotUnwinding] /\ at' = at
  BY <1>0, <1>1, RootThrowsStep
<1>3. Others(w) /\ wk'[w].pc = "exit" /\ wk'[w].cur = wk[w].cur
      /\ prog' = prog /\ unsynced' = unsynced /\ stolen' = stolen /\ busy' = busy
      /\ \A c \in Closures : cl'[c].frame = cl[c].frame
  BY <1>2, SameTreeLinks DEF Goes, Moves, SameStacks
<1>5. Cur(w) \in unsynced => SyncAhead(Cur(w))'
  <2>1. Cur(w)' = Cur(w)
    BY <1>3 DEF Cur
  <2> QED BY <1>1, <1>2, <1>3, <2>1, SameAhead
<1>6. AtFrame(w)' /\ wk'[w].pc # "synced"
  BY <1>0, <1>3 DEF AtFrame, Executing
<1>7. /\ Point(w)' /\ (Helping(w) => Helping(w)')
      /\ (wk'[w].pc = "handler" => dq[w] = <<>>)
  BY <1>0, <1>1, <1>2, <1>3
     DEF Point, BeforeSync, AfterSync, Reducing, Resuming, Helping, Stopped
<1>8. \A f \in Frames : f # Cur(w) => at'[f] = at[f] /\ unw'[f] = unw[f]
  BY <1>0, <1>1, <1>2 DEF Types, FrameTypes
<1>9. at'[Cur(w)] \in at[Cur(w)] .. Len(Code(Cur(w))) + 1
  BY <1>1, <1>2
<1>10. wk'[w].pc \in Locked => busyLock'[w] = w
  BY <1>1, <1>2, <1>3 DEF Locked, Types, LockTypes
<1> QED BY <1>0, <1>1, <1>2, <1>3, <1>5, <1>6, <1>7, <1>8, <1>9, <1>10, QuietMove

(* A worker that leaves a frame is in a synced frame other than the root,  *)
(* and not in a helper.                                                    *)
LEMMA LeavingFacts ==
    ASSUME NEW o, NEW rk, NEW n, Good(o, rk, n), NEW w \in Workers, Leaving(w)
    PROVE  /\ AtFrame(w) /\ Cur(w) # Root /\ Cur(w) \notin unsynced /\ ~HasHandler(Cur(w)) /\ ~Helping(w)
           /\ wk[w].pc \in {"user", "leave"}
<1>0. AtFrame(w) /\ wk[w].pc \in {"user", "leave"}
  BY DEF Leaving, AtFrame, Executing
<1>1. /\ Types /\ Cur(w) \in Frames /\ Len(Code(Cur(w))) \in Nat
      /\ at[Cur(w)] \in 1 .. Len(Code(Cur(w))) + 1
      /\ wk[w].cur = Cur(w) /\ Point(w) /\ (Cur(w) \in unsynced => SyncAhead(Cur(w)))
      /\ prog.handler[Cur(w)] \in 0 .. Len(Code(Cur(w))) + 1
  BY <1>0, Working
<1>2. CASE wk[w].pc = "leave"
  BY <1>0, <1>1, <1>2 DEF Point, AfterSync, Helping
<1>3. CASE wk[w].pc = "user" /\ Returns(Cur(w)) /\ Cur(w) # Root
  BY <1>0, <1>1, <1>3, NotAhead DEF HasHandler, Returns, Helping
<1> QED BY <1>2, <1>3 DEF Leaving

(* Leaving a spawned frame for its helper keeps the invariant.             *)
LEMMA LeaveHelperGood ==
    ASSUME NEW o, NEW rk, NEW n, Good(o, rk, n), NEW w \in Workers, LeaveFrame(w),
           prog.kind[Cur(w)] # "call"
    PROVE  Good(o, rk, n)'
<1>0. /\ Leaving(w) /\ (prog.kind[Cur(w)] = "expr" \/ Cur(w) \notin stolen)
      /\ AtFrame(w) /\ Cur(w) # Root /\ Cur(w) \notin unsynced
      /\ ~HasHandler(Cur(w)) /\ ~Helping(w)
  BY LeavingFacts DEF LeaveFrame
<1>1. /\ Types /\ Cur(w) \in Frames /\ Len(Code(Cur(w))) \in Nat
      /\ at[Cur(w)] \in 1 .. Len(Code(Cur(w))) + 1
      /\ wk[w].cur = Cur(w) /\ Duty(w) /\ Point(w) /\ busy[w] \in Closures
      /\ cl[busy[w]].status # "invalid"
  BY <1>0, Working
<1>2. /\ Types' /\ SameTree
      /\ UNCHANGED <<prog, at, stolen, unsynced, busy, busyLock, dq, home, unw>>
      /\ Goes(w, IF unw[Cur(w)].exn # Null THEN "landing" ELSE "helper")
  BY <1>0, <1>1, LeaveFrameStep
<1>3. /\ SameStacks /\ Others(w) /\ wk'[w].pc \in {"landing", "helper"}
      /\ wk'[w].cur = wk[w].cur
      /\ \A c \in Closures : cl'[c].frame = cl[c].frame
  BY <1>2, SameTreeLinks DEF Goes, Moves, SameStacks
<1>4. /\ prog.kind[Cur(w)] \in {"spawn", "expr"}
      /\ (cl[busy[w]].frame = Cur(w) => prog.kind[Cur(w)] = "expr")
  <2>1. prog.kind[Cur(w)] \in {"spawn", "expr"}
    BY <1>0, <1>1, ProgramFrames DEF Types, FrameTypes
  <2>2. cl[busy[w]].frame = Cur(w) => Cur(w) \in stolen
    BY <1>1, Nulls DEF Good, Bases, Base, Based, Alive
  <2> QED BY <1>0, <2>1, <2>2
<1>6. /\ AtFrame(w)' /\ wk'[w].pc # "synced" /\ wk'[w].pc \notin Locked
      /\ wk'[w].pc # "handler"
  BY <1>3 DEF AtFrame, Executing, Locked
<1>7. Point(w)'
  <2>1. HasHandler(wk[w].cur)' <=> HasHandler(Cur(w))
    BY <1>1, <1>2, <1>3 DEF HasHandler
  <2> QED
    BY <1>0, <1>1, <1>2, <1>3, <1>4, <2>1
       DEF Point, BeforeSync, AfterSync, Reducing, Resuming, Helping
<1>8. at'[Cur(w)] \in at[Cur(w)] .. Len(Code(Cur(w))) + 1
  BY <1>1, <1>2
<1> QED BY <1>0, <1>1, <1>2, <1>3, <1>6, <1>7, <1>8, QuietMove

(* The reductions after a sync keeps the invariant.                        *)
LEMMA ReduceSyncedGood ==
    ASSUME NEW o, NEW rk, NEW n, Good(o, rk, n), NEW w \in Workers, ReduceSynced(w)
    PROVE  Good(o, rk, n)'
<1>0. /\ wk[w].pc = "reduce" /\ wk[w].why = "synced" /\ AtFrame(w) /\ Reducing(w)
      /\ ~Helping(w)
  BY DEF ReduceSynced, AtFrame, Reducing, Helping
<1>1. /\ Types /\ Cur(w) \in Frames /\ Len(Code(Cur(w))) \in Nat
      /\ at[Cur(w)] \in 1 .. Len(Code(Cur(w))) + 1
      /\ wk[w].cur = Cur(w) /\ Point(w)
  BY <1>0, Working
<1>2. /\ Types' /\ SameStacks /\ UNCHANGED <<busyLock, unw>>
      /\ Moves(w, IF unw[Cur(w)].exn # Null THEN "unwind" ELSE IF Cur(w) \in pending THEN "check" ELSE "user",
               wk[w].cur, Null, wk[w].vic, wk[w].frm, "stolen")
      /\ at' = IF unw[Cur(w)].exn = Null /\ Cur(w) \notin pending
               THEN [at EXCEPT ![Cur(w)] = @ + 1] ELSE at
  BY <1>1, ReduceSyncedStep
<1>3. /\ Others(w) /\ wk'[w].cur = wk[w].cur
      /\ wk'[w].pc \in {"unwind", "check", "user"}
      /\ wk'[w].pc = "unwind" => unw[Cur(w)].exn # Null
      /\ wk'[w].pc = "check" => unw[Cur(w)].exn = Null /\ at' = at
      /\ prog' = prog /\ unsynced' = unsynced /\ stolen' = stolen
  BY <1>2 DEF Moves, SameStacks
<1>4. Cur(w) \notin unsynced /\ (unw[Cur(w)].exn = Null => at[Cur(w)] <= Len(Code(Cur(w))))
  BY <1>0, <1>1 DEF Point, Stopped
<1>5. at'[Cur(w)] \in at[Cur(w)] .. Len(Code(Cur(w))) + 1
  BY <1>1, <1>2, <1>4 DEF Types, FrameTypes
<1>6. /\ AtFrame(w)' /\ wk'[w].pc # "synced" /\ wk'[w].pc \notin Locked
      /\ wk'[w].pc # "handler"
  BY <1>3 DEF AtFrame, Executing, Locked
<1>7. Point(w)'
  BY <1>1, <1>2, <1>3, <1>4
     DEF Point, BeforeSync, AfterSync, Reducing, Resuming, Helping, Code
<1>8. \A f \in Frames : f # Cur(w) => at'[f] = at[f] /\ unw'[f] = unw[f]
  BY <1>1, <1>2 DEF Types, FrameTypes
<1> QED BY <1>0, <1>1, <1>2, <1>3, <1>4, <1>5, <1>6, <1>7, <1>8, QuietMove

(* Going back to the frame's own fiber keeps the invariant.                *)
LEMMA CleanupFiberGood ==
    ASSUME NEW o, NEW rk, NEW n, Good(o, rk, n), NEW w \in Workers, CleanupFiber(w)
    PROVE  Good(o, rk, n)'
<1>0. wk[w].pc = "landing" /\ AtFrame(w)
  BY DEF CleanupFiber, AtFrame, Executing
<1>1. /\ Types /\ Cur(w) \in Frames /\ Len(Code(Cur(w))) \in Nat
      /\ at[Cur(w)] \in 1 .. Len(Code(Cur(w))) + 1
      /\ wk[w].cur = Cur(w) /\ Point(w)
      /\ prog.handler[Cur(w)] \in 0 .. Len(Code(Cur(w))) + 1
      /\ busy[w] \in Closures
  BY <1>0, Working
<1>2. /\ Types' /\ SameStacks /\ UNCHANGED busyLock
      /\ Goes(w, IF HasHandler(Cur(w)) THEN "user" ELSE "helper")
      /\ HasHandler(Cur(w)) => /\ at' = [at EXCEPT ![Cur(w)] = prog.handler[Cur(w)]]
                               /\ unw' = [unw EXCEPT ![Cur(w)] = NotUnwinding]
      /\ ~HasHandler(Cur(w)) => UNCHANGED <<at, unw>>
  BY <1>1, CleanupFiberStep
<1>3. /\ Others(w) /\ wk'[w].cur = wk[w].cur /\ wk'[w].pc = (IF HasHandler(Cur(w)) THEN "user" ELSE "helper")
      /\ prog' = prog /\ unsynced' = unsynced /\ stolen' = stolen /\ busy' = busy
      /\ \A c \in Closures : cl'[c].frame = cl[c].frame
  BY <1>2, SameTreeLinks DEF Goes, Moves, SameStacks
<1>4. Cur(w) \notin unsynced
  BY <1>0, <1>1 DEF Point, AfterSync
<1>5. at'[Cur(w)] \in at[Cur(w)] .. Len(Code(Cur(w))) + 1
  BY <1>1, <1>2 DEF Types, FrameTypes, HasHandler
<1>6. /\ AtFrame(w)' /\ wk'[w].pc # "synced" /\ wk'[w].pc \notin Locked
      /\ wk'[w].pc # "handler"
  BY <1>3 DEF AtFrame, Executing, Locked
<1>7. Point(w)' /\ (Helping(w) => Helping(w)')
  BY <1>0, <1>1, <1>2, <1>3, <1>4
     DEF Point, BeforeSync, AfterSync, Reducing, Resuming, Helping
<1>8. \A f \in Frames : f # Cur(w) => at'[f] = at[f] /\ unw'[f] = unw[f]
  BY <1>1, <1>2 DEF Types, FrameTypes
<1> QED BY <1>0, <1>1, <1>2, <1>3, <1>4, <1>5, <1>6, <1>7, <1>8, QuietMove

(* Raising what the children left keeps the invariant.                     *)
LEMMA CheckExceptionRaiseGood ==
    ASSUME NEW o, NEW rk, NEW n, Good(o, rk, n), NEW w \in Workers,
           CheckExceptionRaise(w)
    PROVE  Good(o, rk, n)'
<1> DEFINE e == wk[w].ht.view.exn
<1>0. wk[w].pc = "check" /\ AtFrame(w) /\ ~Helping(w)
  BY DEF CheckExceptionRaise, AtFrame, Executing, Helping
<1>1. /\ Types /\ Cur(w) \in Frames /\ Len(Code(Cur(w))) \in Nat
      /\ at[Cur(w)] \in 1 .. Len(Code(Cur(w))) + 1
      /\ wk[w].cur = Cur(w) /\ Point(w)
  BY <1>0, Working
<1>2. /\ Types' /\ SameStacks /\ UNCHANGED busyLock
      /\ Goes(w, IF e = Null THEN "user" ELSE "unwind")
      /\ at' = IF e = Null THEN [at EXCEPT ![Cur(w)] = @ + 1] ELSE at
      /\ unw' = IF e = Null THEN unw ELSE [unw EXCEPT ![Cur(w)] = [exn |-> e, sp |-> wk[w].fib]]
  BY <1>1, CheckExceptionRaiseStep
<1>3. /\ Others(w) /\ wk'[w].cur = wk[w].cur /\ wk'[w].pc \in {"user", "unwind"}
      /\ prog' = prog
  BY <1>2 DEF Goes, Moves, SameStacks
<1>4. Cur(w) \notin unsynced /\ at[Cur(w)] <= Len(Code(Cur(w)))
  BY <1>0, <1>1 DEF Point, AfterSync
<1>5. at'[Cur(w)] \in at[Cur(w)] .. Len(Code(Cur(w))) + 1
  BY <1>1, <1>2, <1>4 DEF Types, FrameTypes
<1>6. /\ AtFrame(w)' /\ wk'[w].pc # "synced" /\ wk'[w].pc \notin Locked
      /\ wk'[w].pc # "handler"
  BY <1>3 DEF AtFrame, Executing, Locked
<1>7. Point(w)'
  <2>1. wk'[w].pc = "unwind" => unw'[Cur(w)].exn # Null
    BY <1>1, <1>2 DEF Goes, Moves, Types, FrameTypes
  <2> QED
    BY <1>1, <1>3, <2>1
       DEF Point, BeforeSync, AfterSync, Reducing, Resuming, Helping
<1>8. \A f \in Frames : f # Cur(w) => at'[f] = at[f] /\ unw'[f] = unw[f]
  BY <1>1, <1>2 DEF Types, FrameTypes
<1> QED BY <1>0, <1>1, <1>2, <1>3, <1>4, <1>5, <1>6, <1>7, <1>8, QuietMove

(* What the invariant says of a worker without a closure of its own.       *)
LEMMA Stealing ==
    ASSUME NEW o, NEW rk, NEW n, Good(o, rk, n), NEW w \in Workers, wk[w].pc \in Idling
    PROVE  Types /\ Duties /\ Holding /\ Duty(w) /\ busy[w] = Null /\ dq[w] = <<>>
  BY DEF Good, Control, Duties, Duty

(* Taking a victim's busy lock keeps the invariant.                        *)
LEMMA StealLockGood ==
    ASSUME NEW o, NEW rk, NEW n, Good(o, rk, n), NEW w \in Workers,
           NEW v \in Workers \ {w}, StealLock(w, v)
    PROVE  Good(o, rk, n)'
<1>0. wk[w].pc = "steal" /\ wk[w].pc \in Idling
  BY DEF StealLock, Idling
<1>1. Types /\ busy[w] = Null /\ dq[w] = <<>>
  BY <1>0, Stealing
<1>2. /\ Types' /\ SameStacks /\ UNCHANGED <<at, unw>>
      /\ busyLock[v] = Null /\ busyLock' = [busyLock EXCEPT ![v] = w]
      /\ Moves(w, "peek", wk[w].cur, wk[w].cl, v, wk[w].frm, wk[w].why)
  BY <1>1, StealLockStep
<1>3. Others(w) /\ OthersLocks(w) /\ wk'[w].pc = "peek" /\ wk'[w].vic = v
  BY <1>1, <1>2, LocksKept DEF Moves
<1>4. Duty(w)'
  BY <1>1, <1>2, <1>3
     DEF Duty, Idling, Locked, Carrying, SameStacks, Types, LockTypes
<1> QED BY <1>0, <1>1, <1>2, <1>3, <1>4, IdleStep DEF Carrying

(* A steal that fails keeps the invariant.                                 *)
LEMMA StealLoseGood ==
    ASSUME NEW o, NEW rk, NEW n, Good(o, rk, n), NEW w \in Workers, StealLose(w)
    PROVE  Good(o, rk, n)'
<1>0. wk[w].pc = "peek" /\ wk[w].pc \in Idling
  BY DEF StealLose, Idling
<1>1. Types /\ Duties /\ Holding /\ Duty(w) /\ busy[w] = Null /\ dq[w] = <<>>
  BY <1>0, Stealing
<1>a. wk[w].vic \in Workers /\ wk[w].vic # w /\ busyLock[wk[w].vic] = w
  BY <1>0, <1>1 DEF Duty
<1>b. busy[wk[w].vic] # Null => cl[busy[wk[w].vic]].status = "running"
  <2>1. wk[wk[w].vic].pc # "set_return2"
    BY <1>1, <1>a DEF Duties, Duty, Locked
  <2> QED BY <1>1, <1>a, <2>1 DEF Holding, Held, Types, LockTypes
<1>2. /\ Types' /\ SameStacks /\ UNCHANGED <<at, unw>>
      /\ busyLock' = [busyLock EXCEPT ![wk[w].vic] = Null]
      /\ Moves(w, "steal", wk[w].cur, wk[w].cl, Null, wk[w].frm, wk[w].why)
  BY <1>1, <1>a, <1>b, StealLoseStep
<1>3. Others(w) /\ OthersLocks(w) /\ wk'[w].pc = "steal"
  BY <1>1, <1>a, <1>2, LocksKept DEF Moves
<1>4. Duty(w)'
  BY <1>1, <1>2, <1>3 DEF Duty, Idling, Locked, Carrying, SameStacks
<1> QED BY <1>0, <1>1, <1>2, <1>3, <1>4, IdleStep DEF Carrying

(* Giving back the victim's busy lock after a promotion keeps the          *)
(* invariant.                                                              *)
LEMMA StealUnlockBusyGood ==
    ASSUME NEW o, NEW rk, NEW n, Good(o, rk, n), NEW w \in Workers, StealUnlockBusy(w)
    PROVE  Good(o, rk, n)'
<1>0. wk[w].pc = "unbusy" /\ wk[w].pc \in Idling /\ wk[w].pc \in Carrying
  BY DEF StealUnlockBusy, Idling, Carrying
<1>1. Types /\ Duties /\ Holding /\ Duty(w) /\ busy[w] = Null /\ dq[w] = <<>>
  BY <1>0, Stealing
<1>a. wk[w].vic \in Workers /\ wk[w].vic # w /\ busyLock[wk[w].vic] = w /\ wk[w].cl # Null
  BY <1>0, <1>1 DEF Duty
<1>2. /\ Types' /\ SameStacks /\ UNCHANGED <<at, unw>> /\ Goes(w, "finish")
      /\ busyLock' = [busyLock EXCEPT ![wk[w].vic] = Null]
  BY <1>1, StealUnlockBusyStep
<1>3. /\ Others(w) /\ OthersLocks(w) /\ wk'[w].pc = "finish" /\ wk'[w].cl = wk[w].cl
      /\ wk'[w].frm = wk[w].frm
  BY <1>1, <1>a, <1>2, LocksKept DEF Goes, Moves
<1>4. Duty(w)'
  BY <1>1, <1>a, <1>2, <1>3 DEF Duty, Idling, Locked, Carrying, SameStacks
<1> QED BY <1>0, <1>1, <1>2, <1>3, <1>4, IdleStep DEF Carrying

(* The end of a thief keeps the invariant.                                 *)
LEMMA StopStealingGood ==
    ASSUME NEW o, NEW rk, NEW n, Good(o, rk, n), NEW w \in Workers, StopStealing(w)
    PROVE  Good(o, rk, n)'
<1>0. wk[w].pc = "steal" /\ wk[w].pc \in Idling
  BY DEF StopStealing, Idling
<1>1. Types /\ busy[w] = Null /\ dq[w] = <<>>
  BY <1>0, Stealing
<1>2. Types' /\ SameStacks /\ UNCHANGED <<at, unw, busyLock>> /\ Goes(w, "idle")
  BY <1>1, StopStealingStep
<1>3. Others(w) /\ OthersLocks(w) /\ wk'[w].pc = "idle"
  BY <1>1, <1>2, LocksKept DEF Goes, Moves
<1>4. Duty(w)'
  BY <1>1, <1>2, <1>3 DEF Duty, Idling, Locked, Carrying, SameStacks
<1> QED BY <1>0, <1>1, <1>2, <1>3, <1>4, IdleStep DEF Carrying

(* A closure that returns has no children, no frame and no call parent,    *)
(* and its spawn parent has a stolen frame.                                *)
LEMMA ReturningFacts ==
    ASSUME NEW o, NEW rk, NEW n, Good(o, rk, n), NEW w \in Workers,
           wk[w].pc \in {"return", "return2"}
    PROVE  LET c == wk[w].cl  p == cl[c].spawnParent
           IN  /\ c \in Closures /\ cl[c].status = "returning" /\ cl[c].status # "invalid" /\ c \in Alive
               /\ p \in Closures /\ p \in Alive /\ cl[p].status # "invalid" /\ p # Null /\ Bare(o, c)
               /\ SpawnedBy(c) = {} /\ p # c /\ CalledBy(c) = {} /\ Holds(w, c) /\ cl[c].callParent = Null
               /\ cl[p].frame # Null /\ cl[p].frame \in stolen
<1> DEFINE c == wk[w].cl  p == cl[c].spawnParent
<1>0. wk[w].pc \in Idling /\ wk[w].pc \in Carrying /\ wk[w].pc # "set_return2"
  BY DEF Idling, Carrying
<1>1. Types /\ Duties /\ Holding /\ Tops(o) /\ Bases(o) /\ Parents
  BY DEF Good, Control, Tree
<1>2. c \in Closures /\ Holds(w, c) /\ cl[c].status = "returning" /\ c \in Alive
  BY <1>0, <1>1, CarryWork DEF Holding, Held, Carries, Alive
<1>3. Bare(o, c)
  BY <1>1 DEF Tops, Top
<1>4. ~Swapped(c)
  <2> SUFFICES ASSUME NEW x \in Workers, wk[x].pc = "set_return2", wk[x].cl = c
               PROVE  FALSE
    BY DEF Swapped
  <2>1. Holds(x, c)
    BY DEF Holds, Carries, Carrying
  <2> QED BY <1>0, <1>1, <1>2, <2>1 DEF Holding, Unique
<1>5. p # Null
  BY <1>1, <1>2, <1>3, <1>4 DEF Bases, Base, Bare
<1>6. p \in Alive /\ cl[c].callParent = Null
  BY <1>1, <1>2, <1>5 DEF Parents
<1>7. SpawnedBy(c) = {}
  BY <1>1, <1>2, <1>3 DEF Bases, Spawning, Bare
<1>8. CalledBy(c) = {}
  BY <1>1, <1>2, Nulls DEF CalledBy, Parents, Alive
<1>9. p # c
  BY <1>2, <1>7 DEF SpawnedBy
<1>10. cl[p].frame # Null
  BY <1>1, <1>2, <1>6 DEF Bases, Spawning, SpawnedBy
<1>11. cl[p].frame \in stolen
  BY <1>1, <1>6, <1>10 DEF Bases, Base, Based
<1> QED BY <1>2, <1>3, <1>5, <1>6, <1>7, <1>8, <1>9, <1>10, <1>11 DEF Alive

(* Locking the spawn parent of a returning closure keeps the invariant.    *)
LEMMA ReturnLockParentGood ==
    ASSUME NEW o, NEW rk, NEW n, Good(o, rk, n), NEW w \in Workers, ReturnLockParent(w)
    PROVE  Good(o, rk, n)'
<1>0. wk[w].pc = "return" /\ wk[w].pc \in Idling /\ wk[w].pc \in Carrying
  BY DEF ReturnLockParent, Idling, Carrying
<1>1. Types /\ Duties /\ Holding /\ Duty(w) /\ busy[w] = Null /\ dq[w] = <<>>
  BY <1>0, Stealing
<1>2. /\ Types' /\ SameStacks /\ UNCHANGED <<busyLock, at, unw>> /\ Goes(w, "return2")
  BY <1>0, <1>1, ReturningFacts, ReturnLockParentStep
<1>3. /\ Others(w) /\ OthersLocks(w) /\ wk'[w].pc = "return2"
      /\ wk'[w].cl = wk[w].cl /\ wk[w].cl # Null
  BY <1>0, <1>1, <1>2, LocksKept DEF Goes, Moves, Duty
<1>4. Duty(w)'
  BY <1>1, <1>2, <1>3 DEF Duty, Idling, Locked, Carrying, SameStacks
<1> QED BY <1>0, <1>1, <1>2, <1>3, <1>4, IdleStep DEF Carrying

(***************************************************************************)
(* Steps that keep the owner of every frame.                               *)
(***************************************************************************)

(* The closures in use after the step were so before, with the same frames *)
(* and parents.                                                            *)
SameFrames ==
    \A c \in Alive' : /\ c \in Alive /\ cl'[c].frame = cl[c].frame
                      /\ cl'[c].callParent = cl[c].callParent /\ cl'[c].spawnParent = cl[c].spawnParent

(* In a step that keeps the owners, what is known of the others' frames    *)
(* stays known.                                                            *)
LEMMA CalmPoints ==
    ASSUME Control, NEW o, Tops(o), Points, UNCHANGED <<prog, at, stolen, unw>>,
           NEW w \in Workers, Others(w), OthersBusy(w), Point(w)',
           \A f \in Frames : o[f] \in Closures => Free(w, o[f]) \/ (f \in unsynced' <=> f \in unsynced),
           \A c \in Closures : Free(w, c) \/ cl'[c].frame = cl[c].frame,
           \A t \in Alive' : Waiting(t)' => Stopped(cl[t].frame)'
    PROVE  Points' /\ \A x \in Workers : x # w /\ Helping(x) => Helping(x)'
<1>0. Types /\ Duties /\ Holding
  BY DEF Control
<1>3. ASSUME NEW x \in Workers, x # w PROVE Point(x)'
  <2>1. Helping(x) => busy[x] \in Closures
    <3>1. Helping(x) => AtFrame(x)
      BY DEF Helping, AtFrame, Executing
    <3> QED BY <1>0, <3>1, AtWork
  <2>2. Resuming(x) => wk[x].cl \in Closures /\ Holds(x, wk[x].cl)
    <3>1. Resuming(x) => wk[x].pc \in Carrying
      BY DEF Resuming, Carrying
    <3> QED BY <1>0, <3>1, CarryWork
  <2>3. Still(x) /\ busy'[x] = busy[x]
    BY <1>3 DEF Others, OthersBusy
  <2>4. \A c \in Closures : Holds(x, c) => ~Free(w, c)
    BY <1>3 DEF Free
  <2>5. Helping(x) => cl'[busy'[x]].frame = cl[busy[x]].frame
    BY <2>1, <2>3, <2>4 DEF Holds
  <2>6. Resuming(x) => cl'[wk[x].cl].frame = cl[wk[x].cl].frame
    BY <2>2, <2>4
  <2>7. \A f \in Frames : o[f] \in Closures /\ Holds(x, o[f]) => (f \in unsynced' <=> f \in unsynced)
    BY <2>4
  <2> QED BY <1>0, <1>3, <2>3, <2>5, <2>6, <2>7, PointOfOther
<1>5. ASSUME NEW x \in Workers, x # w, Helping(x) PROVE Helping(x)'
  BY <1>0, <1>5, HelpingKept DEF Others
<1> QED BY <1>3, <1>5 DEF Points

(* In a step that keeps the owners, a closure that waits at a sync goes on *)
(* waiting.                                                                *)
LEMMA CalmWaiting ==
    ASSUME NEW o, Tops(o), Points, UNCHANGED <<prog, at, unw>>, NEW t \in Alive,
           Waiting(t),
           cl'[t].frame = cl[t].frame
    PROVE  Stopped(cl[t].frame)' /\ Only(o, t, cl[t].frame)'
<1>1. Stopped(cl[t].frame) /\ Only(o, t, cl[t].frame)
  BY DEF Tops, Points
<1> QED BY <1>1 DEF Stopped, Only, Code, Frames

(* A step that keeps the owners and the frames keeps the stacks and the    *)
(* bases.                                                                  *)
LEMMA CalmStacks ==
    ASSUME Types, NEW o, Stacks(o), Bases(o), Parents', SameFrames,
           UNCHANGED <<prog, home, stolen>>,
           \A f \in Frames : o[f] # Null => o[f] \in Alive',
           \A t \in Alive' : Swapped(t) => Swapped(t)'
    PROVE  /\ Stacks(o)'
           /\ \A t \in Alive' : Base(o, t)'
           /\ \A t \in Alive', f \in Frames : SpawnedFrom(t, f) => SpawnedFrom(t, f)'
<1>1. \A t \in Alive', f \in Frames : SpawnedFrom(t, f) => SpawnedFrom(t, f)'
  BY DEF SpawnedFrom, SameFrames, Parents
<1>2. Stacks(o)'
  <2>1. \A f \in Frames : o[f] # Null /\ Bottom(o, f) => Bottom(o, f)'
    BY <1>1 DEF Bottom, SameFrames
  <2> QED BY <2>1, StacksKept
<1>3. ASSUME NEW t \in Alive' PROVE Base(o, t)'
  <2>1. t \in Alive /\ t \in Closures
    BY DEF SameFrames, Alive
  <2>2. cl[t].callParent # Null => cl[t].callParent \in Alive'
    BY <1>3 DEF Parents, Alive, SameFrames
  <2>3. cl[t].callParent # Null => cl'[cl[t].callParent].frame = cl[cl[t].callParent].frame
    BY <2>2 DEF SameFrames
  <2>4. Base(o, t)
    BY <2>1 DEF Bases
  <2>5. \A c : Same(o, o, c)
    BY DEF Same
  <2> QED BY <1>1, <1>3, <2>1, <2>2, <2>3, <2>4, <2>5, BaseKept DEF SameFrames
<1> QED BY <1>1, <1>2, <1>3

(* In a step that keeps the owners and the frames, a stolen frame stays    *)
(* accounted for.                                                          *)
LEMMA CalmStolen ==
    ASSUME Types, NEW o, Bases(o), SameFrames, UNCHANGED <<prog, stolen>>,
           \A f \in Frames : o[f] # Null => o[f] \in Alive',
           NEW w \in Workers, Others(w), OthersBusy(w), ~Helping(w),
           wk[w].pc # "set_return2",
           \A x \in Workers : x # w /\ Helping(x) => Helping(x)'
    PROVE  \A f \in stolen' : o[f] # Null => Stolen(o, f)'
<1> SUFFICES ASSUME NEW f \in stolen, o[f] # Null PROVE Stolen(o, f)'
  OBVIOUS
<1>1. Stolen(o, f) /\ f \in Frames
  BY DEF Bases, Types, FrameTypes
<1>2. cl'[o[f]].frame = cl[o[f]].frame
  BY <1>1 DEF SameFrames
<1>3. ASSUME NEW x \in Workers, busy[x] = o[f], wk[x].cur = f, Helping(x)
      PROVE  busy'[x] = o[f] /\ wk'[x].cur = f /\ Helping(x)'
  BY <1>3 DEF Others, Still, OthersBusy
<1>4. ASSUME NEW x \in Workers, wk[x].pc = "set_return2", wk[x].cl = o[f],
             wk[x].cur = f
      PROVE  wk'[x].pc = "set_return2" /\ wk'[x].cl = o[f] /\ wk'[x].cur = f
  BY <1>4 DEF Others, Still
<1> QED BY <1>1, <1>2, <1>3, <1>4 DEF Stolen

(* In a step that keeps the owners, the others' tops stay.                 *)
LEMMA CalmTops ==
    ASSUME Control, NEW o, Tops(o), prog' = prog, NEW w \in Workers, Others(w),
           OthersBusy(w),
           \A c \in Closures : Free(w, c) \/ cl'[c].frame = cl[c].frame,
           \A t \in Alive', f \in Frames : SpawnedFrom(t, f) => SpawnedFrom(t, f)',
           \A t \in Closures : cl[t].status = "suspended" => t \in Alive',
           \A t \in Alive' : Waiting(t)' => Only(o, t, cl[t].frame)', Top(o, w)'
    PROVE  Tops(o)'
<1>0. Types /\ Duties /\ Holding
  BY DEF Control
<1>2. ASSUME NEW x \in Workers, x # w PROVE Top(o, x)'
  <2>1. ASSUME wk[x].pc = "set_return2"
        PROVE  \A f \in Frames : SpawnedFrom(busy[x], f) => SpawnedFrom(busy[x], f)'
    <3>1. Duty(x) /\ Held(x) /\ busy[x] \in Closures \cup {Null}
      BY <1>0 DEF Duties, Types, LockTypes, Holding
    <3>2. busy[x] \in Closures
      BY <2>1, <3>1 DEF Duty, Idling
    <3>3. cl[busy[x]].status = "suspended"
      BY <2>1, <3>1, <3>2 DEF Held
    <3>4. busy'[x] = busy[x]
      BY <1>2 DEF OthersBusy
    <3> QED BY <3>2, <3>3, <3>4
  <2>2. Still(x) /\ busy'[x] = busy[x]
    BY <1>2 DEF Others, OthersBusy
  <2>3. \A t \in Closures : Holds(x, t) => Same(o, o, t) /\ cl'[t].frame = cl[t].frame
    BY <1>2 DEF Same, Free
  <2> QED BY <1>0, <1>2, <2>1, <2>2, <2>3, TopOfOther
<1> QED BY <1>2 DEF Tops

(* In a step that keeps the owners, the deques fit the stacks, if a        *)
(* worker's closure is only exchanged when its deque is empty.             *)
LEMMA CalmDeques ==
    ASSUME Types, NEW o, Deques(o), prog' = prog, NEW w \in Workers, OthersBusy(w),
           OthersDq(w), Deque(o, w)',
           \A x \in Workers, f \in Frames : Taken(x, f)' <=> Taken(x, f),
           busy'[w] = busy[w] \/ (busy[w] # Null => Links(o, busy[w]) = {})
    PROVE  Deques(o)'
<1>1. \A t : Links(o, t)' = Links(o, t)
  BY DEF Links, LinksTo, Inner, Frames
<1>2. ASSUME NEW x \in Workers, x # w PROVE Deque(o, x)'
  BY <1>2, DequeOfOther DEF Same, OthersBusy, OthersDq
<1>3. ASSUME NEW t \in Closures, \A x \in Workers : busy'[x] # t
      PROVE  Links(o, t)' = {}
  <2>1. CASE busy[w] = t
    BY <1>1, <1>3, <2>1, Nulls
  <2>2. CASE busy[w] # t
    <3>1. \A x \in Workers : busy[x] # t
      BY <1>3, <2>2 DEF OthersBusy
    <3> QED BY <1>1, <3>1 DEF Deques
  <2> QED BY <2>1, <2>2
<1> QED BY <1>2, <1>3 DEF Deques

(* What thieves have taken stays taken in any other step.                  *)
LEMMA SamesTaken ==
    ASSUME NEW w \in Workers, Others(w), wk[w].pc # "promote", wk'[w].pc # "promote"
    PROVE  \A x \in Workers, f \in Frames : Taken(x, f)' <=> Taken(x, f)
  BY DEF Taken, Others, Still

(* A stack of one frame or none leaves nothing in the deque.               *)
LEMMA NoLinks ==
    ASSUME Types, NEW o, NEW t \in Closures, (\E f : Only(o, t, f)) \/ Bare(o, t)
    PROVE  Links(o, t) = {}
<1> SUFFICES ASSUME NEW f \in Frames, NEW g \in Frames, LinksTo(o, t, f, g) PROVE FALSE
  BY DEF Links
<1>1. o[g] = t /\ g # Root /\ o[prog.parent[g]] = t
  BY DEF LinksTo, Inner
<1>2. prog.parent[g] \in Frames /\ prog.parent[g] # g
  <2>1. prog.parent[g] \in Frames /\ prog.parent[g] < g /\ Frames \subseteq Nat \ {0}
    BY <1>1, ProgramFrames DEF Types, FrameTypes
  <2> QED BY <2>1
<1>3. CASE Bare(o, t)
  BY <1>1, <1>3 DEF Bare
<1>4. CASE \E h : Only(o, t, h)
  BY <1>1, <1>2, <1>4 DEF Only
<1> QED BY <1>3, <1>4

(* The deque is empty when the stack leaves nothing in it, and no thief    *)
(* has taken anything.                                                     *)
LEMMA EmptyDeque ==
    ASSUME Types, NEW o, Deques(o), NEW w \in Workers, busy[w] # Null,
           Links(o, busy[w]) = {}
    PROVE  dq[w] = <<>> /\ \A f \in Frames : ~Taken(w, f)
<1>1. \A f \in Frames : ~(f \in ToSet(dq[w])) /\ ~Taken(w, f)
  BY DEF Deques, Deque
<1>2. dq[w] \in Seq(Frames)
  BY DEF Types, LockTypes
<1>3. dq[w] = <<>>
  BY <1>1, <1>2 DEF ToSet
<1> QED BY <1>1, <1>3

(* A step that keeps the owner and the closure of each frame keeps the     *)
(* invariant, if what is said of the worker, the tree and the closures it  *)
(* touches holds afterwards.                                               *)
LEMMA CalmStep ==
    ASSUME NEW o, NEW rk, NEW n, Good(o, rk, n), Types', NEW w \in Workers,
           Others(w), OthersBusy(w), OthersDq(w),
           UNCHANGED <<prog, at, home, stolen, unw>>,
           Duties', Holding', Tree(rk, n)', SameFrames,
           \A c \in Closures : Free(w, c) \/ cl'[c].frame = cl[c].frame,
           \A f \in Frames : o[f] # Null => o[f] \in Alive',
           wk[w].pc \notin {"set_return2", "promote"},
           wk'[w].pc \notin {"set_return2", "promote"},
           wk'[w].pc \notin {"unbusy", "finish"}, ~Helping(w),
           \A f \in Frames : o[f] \in Closures => Free(w, o[f]) \/ (f \in unsynced' <=> f \in unsynced),
           \A f \in unsynced' : f \in unsynced \/ (f \in stolen /\ o[f] # Null /\ cl'[o[f]].frame = f /\ SyncAhead(f)),
           \A t \in Alive' : SpawnedBy(t)' # {} => Spawning(t)',
           \A t \in Alive' : Waiting(t)' => Waiting(t) \/ (Only(o, t, cl[t].frame)' /\ Stopped(cl[t].frame)'),
           \A t \in Closures : cl[t].status = "suspended" => t \in Alive',
           Top(o, w)', Deque(o, w)', Point(w)',
           busy'[w] = busy[w] \/ (busy[w] # Null => Links(o, busy[w]) = {})
    PROVE  Good(o, rk, n)'
<1>0. /\ Control /\ Types /\ Ghosts(o, rk) /\ Parents'
      /\ Stacks(o) /\ Bases(o) /\ Tops(o) /\ Deques(o) /\ Positions(o) /\ Points
  BY DEF Good, Control, Tree
<1>1. \A t \in Alive' : Waiting(t)' => Stopped(cl[t].frame)' /\ Only(o, t, cl[t].frame)'
  BY <1>0, CalmWaiting DEF SameFrames
<1>2. Points' /\ \A x \in Workers : x # w /\ Helping(x) => Helping(x)'
  BY <1>0, <1>1, CalmPoints
<1>3. /\ Stacks(o)'
      /\ \A t \in Alive' : Base(o, t)'
      /\ \A t \in Alive', f \in Frames : SpawnedFrom(t, f) => SpawnedFrom(t, f)'
  <2>1. \A t : Swapped(t) => Swapped(t)'
    BY DEF Swapped, Others, Still
  <2> QED BY <1>0, <2>1, CalmStacks
<1>4. \A f \in stolen' : o[f] # Null => Stolen(o, f)'
  BY <1>0, <1>2, CalmStolen
<1>5. Bases(o)'
  <2>1. \A f \in unsynced' : f \in stolen' /\ o[f] # Null /\ cl'[o[f]].frame = f
    <3>1. \A f \in unsynced : f \in stolen /\ f \in Frames /\ o[f] # Null /\ cl[o[f]].frame = f
      BY <1>0 DEF Bases, Types, FrameTypes
    <3>2. \A f \in unsynced : cl'[o[f]].frame = f
      BY <3>1 DEF SameFrames
    <3> QED BY <3>1, <3>2
  <2> QED BY <1>3, <1>4, <2>1 DEF Bases
<1>6. Tops(o)'
  BY <1>0, <1>1, <1>3, CalmTops
<1>7. Deques(o)'
  <2>1. \A x \in Workers, f \in Frames : Taken(x, f)' <=> Taken(x, f)
    BY SamesTaken
  <2> QED BY <1>0, <2>1, CalmDeques
<1>8. Positions(o)'
  BY <1>0, PositionsKept
<1>9. Ghosts(o, rk)'
  BY <1>0 DEF Ghosts, Frames
<1> QED BY <1>2, <1>3, <1>5, <1>6, <1>7, <1>8, <1>9 DEF Good, Control

(* When every closure stays in its place, so do frames, children and who   *)
(* waits.                                                                  *)
LEMMA SameTreeFrames ==
    ASSUME SameTree
    PROVE  /\ SameFrames /\ SameLinks /\ Alive' = Alive
           /\ \A c \in Closures : cl'[c].status = cl[c].status /\ cl'[c].frame = cl[c].frame
                                  /\ cl'[c].callParent = cl[c].callParent
           /\ \A p : SpawnedBy(p)' = SpawnedBy(p) /\ CalledBy(p)' = CalledBy(p)
           /\ \A t \in Alive : Waiting(t)' <=> Waiting(t)
<1>1. /\ SameLinks /\ Alive' = Alive
      /\ (\A p : SpawnedBy(p)' = SpawnedBy(p) /\ CalledBy(p)' = CalledBy(p))
      /\ \A c \in Closures : cl'[c].status = cl[c].status /\ cl'[c].frame = cl[c].frame
  BY SameTreeLinks, SameFamilies
<1>2. SameFrames /\ \A c \in Closures : cl'[c].callParent = cl[c].callParent
  BY <1>1 DEF SameFrames, SameLinks, Alive
<1>3. \A t \in Alive : Waiting(t)' <=> Waiting(t)
  BY <1>1 DEF Waiting, Alive
<1> QED BY <1>1, <1>2, <1>3

(* A closure with children stays unsynced or being promoted.               *)
LEMMA SpawningKept ==
    ASSUME NEW o, Bases(o), SameFrames, NEW w \in Workers, Others(w),
           NEW t \in Alive', SpawnedBy(t) # {},
           cl[t].frame \in unsynced => cl[t].frame \in unsynced',
           wk[w].pc \in {"unbusy", "finish"} /\ wk[w].cl = t => cl[t].frame \in unsynced'
    PROVE  Spawning(t)'
<1>1. Spawning(t) /\ cl'[t].frame = cl[t].frame
  BY DEF Bases, SameFrames
<1> QED BY <1>1 DEF Spawning, Promoting, Others, Still

(* Resuming a closure keeps the invariant.                                 *)
LEMMA InstallGood ==
    ASSUME NEW o, NEW rk, NEW n, Good(o, rk, n), NEW w \in Workers, Install(w)
    PROVE  Good(o, rk, n)'
<1> DEFINE t == wk[w].cl
<1>0. /\ wk[w].pc = "install" /\ busyLock[w] = Null /\ wk[w].pc \in Idling
      /\ wk[w].pc \in Carrying
      /\ wk[w].pc \notin {"return", "return2"}
  BY DEF Install, Idling, Carrying
<1>1. Types /\ Duties /\ Holding /\ Duty(w) /\ busy[w] = Null /\ dq[w] = <<>>
  BY <1>0, Stealing
<1>2. t \in Closures /\ Holds(w, t) /\ cl[t].status = "running"
  BY <1>0, <1>1, CarryWork
<1>3. /\ Types' /\ SameTree /\ UNCHANGED <<fvars, busyLock, dq>>
      /\ busy' = [busy EXCEPT ![w] = t]
      /\ Moves(w, IF wk[w].why = "stolen" THEN "user" ELSE "reduce", cl[t].frame, Null,
               wk[w].vic, wk[w].frm, wk[w].why)
  BY <1>1, <1>2, InstallStep
<1>4. /\ Others(w)
      /\ wk'[w].pc = (IF wk[w].why = "stolen" THEN "user" ELSE "reduce")
      /\ wk'[w].cur = cl[t].frame
      /\ wk'[w].why = wk[w].why /\ wk[w].why \in {"stolen", "synced", "reduce"}
      /\ UNCHANGED <<prog, at, home, stolen, unsynced, unw>>
  BY <1>1, <1>3 DEF Moves, fvars, evars, Types, WorkerTypes, WorkerOK
<1>5. /\ busy'[w] = t /\ t # Null /\ OthersBusy(w) /\ OthersDq(w) /\ OthersLocks(w)
      /\ dq'[w] = <<>>
  BY <1>1, <1>2, <1>3, Nulls, LocksKept
     DEF OthersBusy, OthersDq, Types, LockTypes
<1>6. /\ SameFrames /\ SameLinks /\ Alive' = Alive
      /\ (\A c \in Closures : cl'[c].status = cl[c].status /\ cl'[c].frame = cl[c].frame
                              /\ cl'[c].callParent = cl[c].callParent)
      /\ (\A p : SpawnedBy(p)' = SpawnedBy(p) /\ CalledBy(p)' = CalledBy(p))
      /\ \A c \in Alive : Waiting(c)' <=> Waiting(c)
  BY <1>3, SameTreeFrames
<1>7. wk'[w].pc \notin Carrying /\ wk'[w].pc \notin Idling /\ wk'[w].pc \notin Locked
      /\ wk'[w].pc \notin {"set_return2", "promote"} /\ wk'[w].pc \notin {"unbusy", "finish", "peek", "promote"}
      /\ wk'[w].pc \notin {"synced", "handler"}
  BY <1>4 DEF Carrying, Idling, Locked
<1>8. Duties'
  <2>1. Duty(w)'
    BY <1>4, <1>5, <1>7 DEF Duty
  <2> QED BY <1>0, <1>1, <1>4, <1>5, <1>6, <2>1, DutiesStep
<1>9. Holding'
  <2>1. Held(w)'
    BY <1>2, <1>4, <1>5, <1>6, <1>7 DEF Held, Carries
  <2>2. \A c \in Closures : Holds(w, c)' => Free(w, c)
    BY <1>1, <1>2, <1>5, <1>7, FreeOfOthers DEF Holds, Carries
  <2> QED BY <1>1, <1>4, <1>5, <1>6, <2>1, <2>2, HoldingStep
<1>10. Tree(rk, n)'
  BY <1>6, TreeKept DEF Good
<1>11. Top(o, w) /\ Point(w)
  BY DEF Good, Tops, Points
<1>12. Links(o, t) = {}
  BY <1>0, <1>1, <1>2, <1>11, NoLinks DEF Top
<1>13. Top(o, w)'
  <2>1. CASE wk[w].why = "reduce"
    <3>1. Bare(o, t)
      BY <1>0, <1>11, <2>1 DEF Top
    <3> QED
      BY <1>2, <1>4, <1>5, <1>6, <2>1, <3>1
         DEF Top, AtFrame, Executing, Bare, Frames
  <2>2. CASE wk[w].why # "reduce"
    <3>1. Only(o, t, cl[t].frame)
      BY <1>0, <1>11, <2>2 DEF Top
    <3>2. cl[t].frame \in Nat
      BY <1>1, <3>1, ProgramFrames DEF Only, Types, FrameTypes
    <3>3. TopOf(o, busy[w], wk[w].cur)'
      BY <1>4, <1>5, <3>1, <3>2 DEF TopOf, Only, Frames
    <3> QED BY <1>4, <1>7, <2>2, <3>3 DEF Top
  <2> QED BY <2>1, <2>2
<1>14. Deque(o, w)'
  <2>1. Links(o, busy[w])' = {}
    <3>1. \A c : Links(o, c)' = Links(o, c)
      BY <1>4 DEF Links, LinksTo, Inner, Frames
    <3> QED BY <1>5, <1>12, <3>1
  <2>2. \A f : ~Taken(w, f)'
    BY <1>1, <1>4, <1>7 DEF Taken, Others, Still, Duties, Duty
  <2> QED BY <1>5, <2>1, <2>2 DEF Deque, ToSet
<1>15. Point(w)'
  <2>1. wk[w].why = "synced" => cl[t].frame \notin unsynced /\ Stopped(cl[t].frame)
    BY <1>0, <1>11 DEF Point, Resuming
  <2>2. Stopped(wk[w].cur)' <=> Stopped(cl[t].frame)
    BY <1>4 DEF Stopped, Code
  <2> QED
    BY <1>4, <2>1, <2>2
       DEF Point, BeforeSync, AfterSync, Reducing, Resuming, Helping
<1>16. \A f \in Frames : o[f] # Null => o[f] \in Alive'
  BY <1>6 DEF Good, Stacks, Owned
<1>17. \A c \in Alive' : SpawnedBy(c)' # {} => Spawning(c)'
  BY <1>0, <1>4, <1>6, SpawningKept DEF Good
<1>18. ~Helping(w) /\ wk[w].pc \notin {"set_return2", "promote"}
  BY <1>0 DEF Helping
<1>19. \A c \in Closures : cl[c].status = "suspended" => c \in Alive'
  BY <1>6 DEF Alive
<1> QED
  BY <1>1, <1>3, <1>4, <1>5, <1>6, <1>7, <1>8, <1>9, <1>10, <1>13, <1>14, <1>15,
     <1>16, <1>17, <1>18, <1>19, CalmStep

(* A closure whose own frame is the top of its stack has no other.         *)
LEMMA OnlyBase ==
    ASSUME NEW o, NEW rk, NEW n, Good(o, rk, n), NEW t \in Alive, cl[t].frame # Null,
           TopOf(o, t, cl[t].frame)
    PROVE  Only(o, t, cl[t].frame)
<1> DEFINE f == cl[t].frame
<1>1. f \in Frames /\ o[f] = t /\ ~Inner(o, f) /\ Types /\ Chained(o) /\ t # Null
  BY Nulls DEF Good, Control, Bases, Base, Based, Stacks, TopOf, Alive
<1>2. Frames \subseteq Nat \ {0} /\ Root = 1
  BY <1>1, ProgramFrames DEF Types, FrameTypes, Root
<1>3. ASSUME NEW g \in Frames, o[g] = t, g # f PROVE FALSE
  <2>1. g < f
    <3>1. g <= f
      BY <1>3 DEF TopOf
    <3>2. g \in Nat /\ f \in Nat
      BY <1>1, <1>2
    <3> QED BY <1>3, <3>1, <3>2
  <2>2. o[prog.parent[f]] = t
    BY <1>1, <1>3, <2>1 DEF Chained
  <2>3. f # Root
    <3>1. g \in Nat \ {0} /\ f \in Nat
      BY <1>1, <1>2, <1>3
    <3>2. \A i \in Nat \ {0} : i >= 1
      OBVIOUS
    <3> QED BY <1>2, <2>1, <3>1, <3>2
  <2> QED BY <1>1, <2>2, <2>3 DEF Inner
<1> QED BY <1>1, <1>3 DEF Only

(* A closure with join counter zero has neither children nor a callee.     *)
LEMMA NoChildren ==
    ASSUME Types, Joins, NEW p \in Alive, cl[p].join = 0
    PROVE  SpawnedBy(p) = {} /\ CalledBy(p) = {}
<1>1. IsFiniteSet(Closures)
  BY FS_Interval, ProgramsAssumption DEF Closures
<1>2. SpawnedBy(p) \subseteq Closures /\ CalledBy(p) \subseteq Closures
  BY DEF SpawnedBy, CalledBy, Alive
<1>3. IsFiniteSet(SpawnedBy(p)) /\ IsFiniteSet(CalledBy(p))
  BY <1>1, <1>2, FS_Subset
<1>4. Cardinality(SpawnedBy(p)) \in Nat /\ Cardinality(CalledBy(p)) \in Nat
  BY <1>3, FS_CardinalityType
<1>5. Cardinality(SpawnedBy(p)) = 0 /\ Cardinality(CalledBy(p)) = 0
  BY <1>4 DEF Joins
<1> QED BY <1>3, <1>5, FS_EmptySet

(* No thief has taken anything from a worker that has its own busy lock.   *)
LEMMA NotTaken ==
    ASSUME Types, Duties, NEW w \in Workers,
           busyLock[w] \in {w, Null} \/ busy[w] = Null
    PROVE  \A f : ~Taken(w, f)
<1> SUFFICES ASSUME NEW x \in Workers, wk[x].pc = "promote", wk[x].vic = w PROVE FALSE
  BY DEF Taken
<1>1. busyLock[w] = x /\ x # w /\ wk[x].cl # Null /\ wk[x].cl = busy[w]
  BY DEF Duties, Duty
<1> QED BY <1>1, Nulls

(* Leaving the region keeps the invariant.                                 *)
LEMMA RootExitGood ==
    ASSUME NEW o, NEW rk, NEW n, Good(o, rk, n), NEW w \in Workers, RootExit(w)
    PROVE  Good(o, rk, n)'
<1> DEFINE t == busy[w]
<1>0. wk[w].pc = "exit" /\ busyLock[w] = Null /\ AtFrame(w) /\ ~Helping(w)
  BY DEF RootExit, AtFrame, Executing, Helping
<1>1. Types /\ Duties /\ Holding /\ Tops(o) /\ Deques(o) /\ Point(w)
  BY DEF Good, Control, Points
<1>2. t \in Closures /\ wk[w].cur = Root /\ Cur(w) = Root
      /\ (\A g \in Frames : o[g] = t => g <= Cur(w)) /\ o[Cur(w)] = t /\ Root \in Frames
  BY <1>0, <1>1, AtWork DEF Point
<1>a. Only(o, t, Root)
  <2>1. Frames \subseteq Nat \ {0} /\ Root = 1
    BY <1>1, ProgramFrames DEF Types, FrameTypes, Root
  <2>2. ASSUME NEW g \in Frames, o[g] = t PROVE g = Root
    <3>1. g <= Root
      BY <1>2, <2>2
    <3> QED BY <2>1, <3>1
  <2>3. o[Root] = t /\ Root \in Frames
    BY <1>2
  <2> HIDE DEF t
  <2> QED BY <2>2, <2>3, Zenon DEF Only
<1>b. Links(o, t) = {} /\ dq[w] = <<>> /\ t # Null
  BY <1>1, <1>2, <1>a, NoLinks, EmptyDeque, Nulls
<1>3. /\ Types' /\ SameTree /\ UNCHANGED <<fvars, busyLock, dq>>
      /\ busy' = [busy EXCEPT ![w] = Null]
      /\ Moves(w, "idle", Null, wk[w].cl, wk[w].vic, wk[w].frm, wk[w].why)
  BY <1>1, RootExitStep
<1>4. /\ Others(w) /\ wk'[w].pc = "idle"
      /\ UNCHANGED <<prog, at, home, stolen, unsynced, unw>>
  BY <1>1, <1>3 DEF Moves, fvars, evars
<1>5. /\ busy'[w] = Null /\ OthersBusy(w) /\ OthersDq(w) /\ OthersLocks(w)
      /\ dq'[w] = <<>>
  BY <1>1, <1>b, <1>3, LocksKept DEF OthersBusy, OthersDq, Types, LockTypes
<1>6. /\ SameFrames /\ SameLinks /\ Alive' = Alive
      /\ (\A c \in Closures : cl'[c].status = cl[c].status /\ cl'[c].frame = cl[c].frame
                              /\ cl'[c].callParent = cl[c].callParent)
      /\ (\A p : SpawnedBy(p)' = SpawnedBy(p) /\ CalledBy(p)' = CalledBy(p))
      /\ \A c \in Alive : Waiting(c)' <=> Waiting(c)
  BY <1>3, SameTreeFrames
<1>8. Duties'
  <2>1. Duty(w)'
    BY <1>4, <1>5 DEF Duty, Carrying, Idling, Locked
  <2> QED BY <1>0, <1>1, <1>4, <1>5, <1>6, <2>1, DutiesStep
<1>9. Holding'
  <2>1. \A c \in Closures : ~Holds(w, c)'
    BY <1>1, <1>4, <1>5, Nulls DEF Holds, Carries, Carrying
  <2>2. Held(w)'
    BY <2>1 DEF Held, Holds
  <2> QED BY <1>1, <1>4, <1>5, <1>6, <2>1, <2>2, HoldingStep
<1>10. Tree(rk, n)'
  BY <1>6, TreeKept DEF Good
<1>13. Top(o, w)' /\ Point(w)'
  BY <1>4
     DEF Top, AtFrame, Executing, Point, BeforeSync, AfterSync, Reducing,
         Resuming, Helping
<1>14. Deque(o, w)'
  <2>1. \A f : ~Taken(w, f)'
    BY <1>0, <1>1, <1>4, NotTaken DEF Taken, Others, Still
  <2> QED BY <1>5, <2>1 DEF Deque, ToSet
<1>16. \A f \in Frames : o[f] # Null => o[f] \in Alive'
  BY <1>6 DEF Good, Stacks, Owned
<1>17. \A c \in Alive' : SpawnedBy(c)' # {} => Spawning(c)'
  BY <1>0, <1>4, <1>6, SpawningKept DEF Good
<1>18. /\ wk[w].pc \notin {"set_return2", "promote"}
       /\ wk'[w].pc \notin {"set_return2", "promote"}
       /\ wk'[w].pc \notin {"unbusy", "finish"}
  BY <1>0, <1>4
<1>19. \A c \in Closures : cl[c].status = "suspended" => c \in Alive'
  BY <1>6 DEF Alive
<1> QED
  BY <1>0, <1>b, <1>3, <1>4, <1>5, <1>6, <1>8, <1>9, <1>10, <1>13, <1>14, <1>16,
     <1>17, <1>18, <1>19, CalmStep

(* finish_promote keeps the invariant.                                     *)
LEMMA StealFinishGood ==
    ASSUME NEW o, NEW rk, NEW n, Good(o, rk, n), NEW w \in Workers, StealFinish(w)
    PROVE  Good(o, rk, n)'
<1> DEFINE t == wk[w].cl  f == wk[w].frm
<1>0. /\ wk[w].pc = "finish" /\ wk[w].pc \in Idling /\ wk[w].pc \in Carrying
      /\ wk[w].pc \notin {"return", "return2"} /\ ~Helping(w)
  BY DEF StealFinish, Idling, Carrying, Helping
<1>1. Types /\ Duties /\ Holding /\ Duty(w) /\ busy[w] = Null /\ dq[w] = <<>>
  BY <1>0, Stealing
<1>2. /\ t \in Closures /\ Holds(w, t) /\ cl[t].status = "running" /\ t \in Alive
      /\ t # Null
  BY <1>0, <1>1, CarryWork, Nulls DEF Alive
<1>a. Top(o, w) /\ cl[t].frame = f /\ Only(o, t, f) /\ f \in Frames /\ o[f] = t /\ f # Null
  BY <1>0, <1>1, Nulls DEF Good, Tops, Top, Only
<1>b. f \in stolen /\ SyncAhead(f)
  BY <1>0, <1>2, <1>a DEF Good, Bases, Base, Based, Positions
<1>3. /\ Types' /\ SameTree
      /\ UNCHANGED <<prog, at, home, stolen, unw, busy, busyLock, dq>>
      /\ unsynced' = unsynced \cup {f}
      /\ Moves(w, "install", wk[w].cur, t, Null, Null, "stolen")
  BY <1>1, <1>2, <1>a, StealFinishStep
<1>4. Others(w) /\ wk'[w].pc = "install" /\ wk'[w].why = "stolen" /\ wk'[w].cl = t
  BY <1>3 DEF Moves
<1>5. /\ busy'[w] = Null /\ OthersBusy(w) /\ OthersDq(w) /\ OthersLocks(w)
      /\ dq'[w] = <<>>
  BY <1>1, <1>3, LocksKept DEF OthersBusy, OthersDq, Types, LockTypes
<1>6. /\ SameFrames /\ SameLinks /\ Alive' = Alive
      /\ (\A c \in Closures : cl'[c].status = cl[c].status /\ cl'[c].frame = cl[c].frame
                              /\ cl'[c].callParent = cl[c].callParent)
      /\ (\A p : SpawnedBy(p)' = SpawnedBy(p) /\ CalledBy(p)' = CalledBy(p))
      /\ \A c \in Alive : Waiting(c)' <=> Waiting(c)
  BY <1>3, SameTreeFrames
<1>8. Duties'
  <2>1. Duty(w)'
    BY <1>2, <1>4, <1>5 DEF Duty, Carrying, Idling, Locked
  <2> QED BY <1>0, <1>1, <1>3, <1>4, <1>5, <1>6, <2>1, DutiesStep
<1>9. Holding'
  <2>1. \A c \in Closures : Holds(w, c)' => c = t
    BY <1>1, <1>4, <1>5, Nulls DEF Holds, Carries
  <2>2. Held(w)'
    BY <1>1, <1>2, <1>4, <1>5, <1>6, Nulls DEF Held, Carries
  <2>3. Free(w, t)
    BY <1>1, <1>2, FreeOfOthers
  <2> QED BY <1>1, <1>4, <1>5, <1>6, <2>1, <2>2, <2>3, HoldingStep
<1>10. Tree(rk, n)'
  BY <1>6, TreeKept DEF Good
<1>13. Top(o, w)' /\ Point(w)'
  <2>1. Only(o, wk[w].cl, cl[wk[w].cl].frame)'
    BY <1>2, <1>3, <1>4, <1>6, <1>a DEF Only, Frames
  <2> QED
    BY <1>4, <2>1
       DEF Top, AtFrame, Executing, Point, BeforeSync, AfterSync, Reducing,
           Resuming, Helping
<1>14. Deque(o, w)'
  <2>1. \A g : ~Taken(w, g)'
    BY <1>0, <1>1, <1>4, NotTaken DEF Taken, Others, Still
  <2> QED BY <1>5, <2>1 DEF Deque, ToSet
<1>16. \A g \in Frames : o[g] # Null => o[g] \in Alive'
  BY <1>6 DEF Good, Stacks, Owned
<1>17. \A c \in Alive' : SpawnedBy(c)' # {} => Spawning(c)'
  BY <1>0, <1>3, <1>4, <1>6, <1>a, SpawningKept DEF Good
<1>18. /\ wk[w].pc \notin {"set_return2", "promote"}
       /\ wk'[w].pc \notin {"set_return2", "promote"}
       /\ wk'[w].pc \notin {"unbusy", "finish"}
  BY <1>0, <1>4
<1>19. \A c \in Closures : cl[c].status = "suspended" => c \in Alive'
  BY <1>6 DEF Alive
<1>20. \A g \in Frames : o[g] \in Closures => Free(w, o[g]) \/ (g \in unsynced' <=> g \in unsynced)
  BY <1>1, <1>2, <1>3, <1>a, FreeOfOthers
<1>21. \A g \in unsynced' : g \in unsynced \/ (g \in stolen /\ o[g] # Null /\ cl'[o[g]].frame = g /\ SyncAhead(g))
  BY <1>2, <1>3, <1>6, <1>a, <1>b
<1> QED
  BY <1>0, <1>1, <1>3, <1>4, <1>5, <1>6, <1>8, <1>9, <1>10, <1>13, <1>14, <1>16,
     <1>17, <1>18, <1>19,
           <1>20, <1>21, CalmStep

(* Only the status of t changes.                                           *)
Turns(t, st) ==
    /\ Node(t, st, cl[t].frame, cl[t].join, cl[t].callParent, cl[t].spawnParent,
            cl[t].leftSib, cl[t].rightSib, cl[t].rightMost)
    /\ \A c \in Closures : c # t => Kept(c)

(* A change of status leaves the tree alone.                               *)
LEMMA StatusChange ==
    ASSUME NEW t \in Closures, NEW st, st # "invalid", cl[t].status # "invalid",
           Turns(t, st)
    PROVE  /\ SameFrames /\ SameLinks /\ Alive' = Alive /\ cl'[t].status = st
           /\ \A c \in Closures : cl'[c].frame = cl[c].frame /\ cl'[c].callParent = cl[c].callParent
           /\ \A c \in Closures : c # t => cl'[c].status = cl[c].status
           /\ \A p : SpawnedBy(p)' = SpawnedBy(p) /\ CalledBy(p)' = CalledBy(p)
           /\ \A c \in Alive : c # t => (Waiting(c)' <=> Waiting(c))
<1>1. /\ SameLinks /\ cl'[t].status = st
      /\ \A c \in Closures : cl'[c].frame = cl[c].frame /\ cl'[c].callParent = cl[c].callParent
      /\ \A c \in Closures : c # t => cl'[c].status = cl[c].status
  BY DEF Turns, Node, Kept, SameLinks
<1>2. /\ Alive' = Alive
      /\ (\A p : SpawnedBy(p)' = SpawnedBy(p) /\ CalledBy(p)' = CalledBy(p))
  BY <1>1, SameFamilies
<1>3. SameFrames
  BY <1>1, <1>2 DEF SameFrames, SameLinks, Alive
<1>4. \A c \in Alive : c # t => (Waiting(c)' <=> Waiting(c))
  BY <1>1, <1>2 DEF Waiting, Alive
<1> QED BY <1>1, <1>2, <1>3, <1>4

(* What the invariant says of a worker at a sync that has something to     *)
(* wait for: it is in the only frame of its closure, and its deque is      *)
(* empty.                                                                  *)
LEMMA AtSync ==
    ASSUME NEW o, NEW rk, NEW n, Good(o, rk, n), NEW w \in Workers, wk[w].pc = "sync"
    PROVE  /\ AtFrame(w) /\ ~Helping(w) /\ Duty(w) /\ busyLock[w] = w
           /\ Types /\ Duties /\ Holding /\ Tops(o) /\ Deques(o) /\ Bases(o)
           /\ busy[w] \in Closures /\ busy[w] # Null /\ cl[busy[w]].status = "running"
           /\ busy[w] \in Alive /\ wk[w].cur = Cur(w) /\ Cur(w) \in unsynced
           /\ Only(o, busy[w], Cur(w)) /\ cl[busy[w]].frame = Cur(w) /\ Stopped(Cur(w))
           /\ Cur(w) \in Frames /\ o[Cur(w)] = busy[w]
           /\ Links(o, busy[w]) = {} /\ dq[w] = <<>> /\ \A f : ~Taken(w, f)
<1>0. AtFrame(w) /\ ~Helping(w) /\ wk[w].pc \in Locked
  BY DEF AtFrame, Executing, Helping, Locked
<1>1. /\ Types /\ Duties /\ Holding /\ Tops(o) /\ Deques(o) /\ Bases(o) /\ Point(w)
      /\ Duty(w)
  BY DEF Good, Control, Points, Duties
<1>2. /\ busy[w] \in Closures /\ busy[w] \in Alive /\ cl[busy[w]].status = "running"
      /\ wk[w].cur = Cur(w)
      /\ o[Cur(w)] = busy[w] /\ Cur(w) \in Frames /\ busy[w] # Null
  BY <1>0, <1>1, AtWork, Nulls DEF Alive
<1>3. Cur(w) \in unsynced /\ Stopped(Cur(w))
  BY <1>1, <1>2 DEF Point, BeforeSync
<1>4. cl[busy[w]].frame = Cur(w)
  BY <1>1, <1>2, <1>3 DEF Bases
<1>5. TopOf(o, busy[w], Cur(w))
  BY <1>0, <1>1, <1>2 DEF Tops, Top
<1>6. Only(o, busy[w], Cur(w))
  BY <1>1, <1>2, <1>4, <1>5, OnlyBase, Nulls
<1>7. Links(o, busy[w]) = {} /\ dq[w] = <<>>
  BY <1>1, <1>2, <1>6, NoLinks, EmptyDeque
<1>8. busyLock[w] = w
  BY <1>0, <1>1 DEF Duty
<1>9. \A f : ~Taken(w, f)
  BY <1>1, <1>8, NotTaken
<1> QED BY <1>0, <1>1, <1>2, <1>3, <1>4, <1>6, <1>7, <1>8, <1>9

(* Suspending at a sync keeps the invariant.                               *)
LEMMA SyncSuspendGood ==
    ASSUME NEW o, NEW rk, NEW n, Good(o, rk, n), NEW w \in Workers, SyncSuspend(w)
    PROVE  Good(o, rk, n)'
<1> DEFINE t == busy[w]
<1>0. wk[w].pc = "sync"
  BY DEF SyncSuspend
<1>1. /\ AtFrame(w) /\ ~Helping(w) /\ Duty(w) /\ busyLock[w] = w
      /\ Types /\ Duties /\ Holding /\ Tops(o) /\ Deques(o) /\ Bases(o)
      /\ t \in Closures /\ t # Null /\ cl[t].status = "running" /\ t \in Alive
      /\ wk[w].cur = Cur(w) /\ Cur(w) \in unsynced
      /\ Only(o, t, Cur(w)) /\ cl[t].frame = Cur(w) /\ Stopped(Cur(w))
      /\ Links(o, t) = {} /\ dq[w] = <<>> /\ \A f : ~Taken(w, f)
  BY <1>0, AtSync
<1>2. cl[t].status # "invalid"
  BY <1>1
<1>3. /\ Types' /\ UNCHANGED <<fvars, dq>> /\ Turns(t, "suspended")
      /\ busy' = [busy EXCEPT ![w] = Null] /\ busyLock' = [busyLock EXCEPT ![w] = Null]
      /\ Moves(w, "steal", Null, wk[w].cl, wk[w].vic, wk[w].frm, wk[w].why)
  BY <1>1, <1>2, SyncSuspendStep DEF Turns
<1>4. /\ Others(w) /\ wk'[w].pc = "steal"
      /\ UNCHANGED <<prog, at, home, stolen, unsynced, unw>>
  BY <1>3 DEF Moves, fvars, evars
<1>5. /\ busy'[w] = Null /\ OthersBusy(w) /\ OthersDq(w) /\ OthersLocks(w)
      /\ dq'[w] = <<>>
  BY <1>1, <1>3, LocksKept DEF OthersBusy, OthersDq, Types, LockTypes
<1>6. /\ SameFrames /\ SameLinks /\ Alive' = Alive /\ cl'[t].status = "suspended"
      /\ (\A c \in Closures : cl'[c].frame = cl[c].frame /\ cl'[c].callParent = cl[c].callParent)
      /\ (\A c \in Closures : c # t => cl'[c].status = cl[c].status)
      /\ (\A p : SpawnedBy(p)' = SpawnedBy(p) /\ CalledBy(p)' = CalledBy(p))
      /\ \A c \in Alive : c # t => (Waiting(c)' <=> Waiting(c))
  BY <1>1, <1>2, <1>3, StatusChange
<1>7. Free(w, t)
  BY <1>1, FreeOfOthers DEF Holds
<1>8. Duties'
  <2>1. Duty(w)'
    BY <1>4, <1>5 DEF Duty, Carrying, Idling, Locked
  <2> QED BY <1>1, <1>4, <1>5, <1>6, <2>1, DutiesStep
<1>9. Holding'
  <2>1. \A c \in Closures : ~Holds(w, c)'
    BY <1>1, <1>4, <1>5, Nulls DEF Holds, Carries, Carrying
  <2>2. Held(w)'
    BY <2>1 DEF Held, Holds
  <2> QED BY <1>1, <1>4, <1>5, <1>6, <1>7, <2>1, <2>2, HoldingStep
<1>10. Tree(rk, n)'
  BY <1>6, TreeKept DEF Good
<1>13. Top(o, w)' /\ Point(w)'
  BY <1>4
     DEF Top, AtFrame, Executing, Point, BeforeSync, AfterSync, Reducing,
         Resuming, Helping
<1>14. Deque(o, w)'
  <2>1. \A f : ~Taken(w, f)'
    BY <1>0, <1>1, <1>4 DEF Taken, Others, Still
  <2> QED BY <1>5, <2>1 DEF Deque, ToSet
<1>15. \A c \in Alive' : Waiting(c)' => Waiting(c) \/ (Only(o, c, cl[c].frame)' /\ Stopped(cl[c].frame)')
  <2> SUFFICES ASSUME NEW c \in Alive, c = t
               PROVE  Only(o, c, cl[c].frame)' /\ Stopped(cl[c].frame)'
    BY <1>6
  <2>1. cl'[c].frame = cl[c].frame /\ Only(o, c, cl[c].frame) /\ Stopped(cl[c].frame)
    BY <1>1, <1>6
  <2> QED BY <1>4, <2>1 DEF Only, Stopped, Code, Frames
<1>16. \A f \in Frames : o[f] # Null => o[f] \in Alive'
  BY <1>6 DEF Good, Stacks, Owned
<1>17. \A c \in Alive' : SpawnedBy(c)' # {} => Spawning(c)'
  BY <1>0, <1>1, <1>4, <1>6, SpawningKept
<1>18. /\ wk[w].pc \notin {"set_return2", "promote"}
       /\ wk'[w].pc \notin {"set_return2", "promote"}
       /\ wk'[w].pc \notin {"unbusy", "finish"}
  BY <1>0, <1>4
<1>19. \A c \in Closures : cl[c].status = "suspended" => c \in Alive'
  BY <1>6 DEF Alive
<1> QED
  BY <1>1, <1>3, <1>4, <1>5, <1>6, <1>8, <1>9, <1>10, <1>13, <1>14, <1>15,
     <1>16, <1>17, <1>18, <1>19, CalmStep

(* A sync that succeeds keeps the invariant.                               *)
LEMMA SyncReadyGood ==
    ASSUME NEW o, NEW rk, NEW n, Good(o, rk, n), NEW w \in Workers, SyncReady(w)
    PROVE  Good(o, rk, n)'
<1> DEFINE t == busy[w]
<1>0. wk[w].pc = "sync"
  BY DEF SyncReady
<1>1. /\ AtFrame(w) /\ ~Helping(w) /\ Duty(w) /\ busyLock[w] = w
      /\ Types /\ Duties /\ Holding /\ Tops(o) /\ Deques(o) /\ Bases(o)
      /\ t \in Closures /\ t # Null /\ cl[t].status = "running" /\ t \in Alive
      /\ wk[w].cur = Cur(w) /\ Cur(w) \in unsynced
      /\ Only(o, t, Cur(w)) /\ cl[t].frame = Cur(w) /\ Stopped(Cur(w))
      /\ Cur(w) \in Frames /\ o[Cur(w)] = t
      /\ Links(o, t) = {} /\ dq[w] = <<>> /\ \A f : ~Taken(w, f)
  BY <1>0, AtSync
<1>2. cl[t].status # "invalid"
  BY <1>1
<1>3. /\ Types' /\ SameTree /\ UNCHANGED <<prog, at, home, stolen, unw, busy, dq>>
      /\ cl[t].join = 0
      /\ unsynced' = unsynced \ {Cur(w)} /\ busyLock' = [busyLock EXCEPT ![w] = Null]
      /\ Moves(w, "synced", wk[w].cur, t, wk[w].vic, wk[w].frm, wk[w].why)
  BY <1>1, <1>2, SyncReadyStep DEF HasChildren
<1>4. Others(w) /\ wk'[w].pc = "synced" /\ wk'[w].cur = Cur(w) /\ wk'[w].cl = t
  BY <1>1, <1>3 DEF Moves
<1>5. busy'[w] = t /\ OthersBusy(w) /\ OthersDq(w) /\ OthersLocks(w) /\ dq'[w] = <<>>
  BY <1>1, <1>3, LocksKept DEF OthersBusy, OthersDq, Types, LockTypes
<1>6. /\ SameFrames /\ SameLinks /\ Alive' = Alive
      /\ (\A c \in Closures : cl'[c].status = cl[c].status /\ cl'[c].frame = cl[c].frame
                              /\ cl'[c].callParent = cl[c].callParent)
      /\ (\A p : SpawnedBy(p)' = SpawnedBy(p) /\ CalledBy(p)' = CalledBy(p))
      /\ \A c \in Alive : Waiting(c)' <=> Waiting(c)
  BY <1>3, SameTreeFrames
<1>7. Free(w, t)
  BY <1>1, FreeOfOthers DEF Holds
<1>8. Duties'
  <2>1. Duty(w)'
    BY <1>1, <1>4, <1>5 DEF Duty, Carrying, Idling, Locked
  <2> QED BY <1>1, <1>4, <1>5, <1>6, <2>1, DutiesStep
<1>9. Holding'
  <2>1. \A c \in Closures : Holds(w, c)' => c = t
    BY <1>1, <1>4, <1>5, Nulls DEF Holds, Carries, Carrying
  <2>2. Held(w)'
    BY <1>1, <1>4, <1>5, <1>6 DEF Held, Carries, Carrying
  <2> QED BY <1>1, <1>4, <1>5, <1>6, <1>7, <2>1, <2>2, HoldingStep
<1>10. Tree(rk, n)'
  BY <1>6, TreeKept DEF Good
<1>11. SpawnedBy(t) = {}
  BY <1>1, <1>3, NoChildren DEF Good, Tree
<1>12. Top(o, w)'
  <2>1. TopOf(o, busy[w], wk[w].cur)'
    <3>1. Cur(w) \in Nat
      BY <1>1, ProgramFrames DEF Types, FrameTypes
    <3> QED BY <1>1, <1>3, <1>4, <1>5, <3>1 DEF TopOf, Only, Frames
  <2> QED BY <1>4, <2>1 DEF Top
<1>13. Point(w)'
  <2>1. Stopped(wk[w].cur)' <=> Stopped(Cur(w))
    BY <1>3, <1>4 DEF Stopped, Code
  <2> QED
    BY <1>1, <1>3, <1>4, <2>1
       DEF Point, BeforeSync, AfterSync, Reducing, Resuming, Helping
<1>14. Deque(o, w)'
  <2>1. \A f : ~Taken(w, f)'
    BY <1>0, <1>1, <1>4 DEF Taken, Others, Still
  <2>2. \A c : Links(o, c)' = Links(o, c)
    BY <1>3 DEF Links, LinksTo, Inner, Frames
  <2>3. Links(o, busy[w])' = {}
    BY <1>1, <1>5, <2>2
  <2> QED BY <1>5, <2>1, <2>3 DEF Deque, ToSet
<1>16. \A f \in Frames : o[f] # Null => o[f] \in Alive'
  BY <1>6 DEF Good, Stacks, Owned
<1>17. \A c \in Alive' : SpawnedBy(c)' # {} => Spawning(c)'
  <2> SUFFICES ASSUME NEW c \in Alive, SpawnedBy(c) # {} PROVE Spawning(c)'
    BY <1>6
  <2>1. c # t
    BY <1>11
  <2>2. cl[c].frame # Cur(w)
    BY <1>1, <2>1, Nulls DEF Bases, Base, Based
  <2> QED BY <1>0, <1>1, <1>3, <1>4, <1>6, <2>2, SpawningKept
<1>18. /\ wk[w].pc \notin {"set_return2", "promote"}
       /\ wk'[w].pc \notin {"set_return2", "promote"}
       /\ wk'[w].pc \notin {"unbusy", "finish"}
  BY <1>0, <1>4
<1>19. \A c \in Closures : cl[c].status = "suspended" => c \in Alive'
  BY <1>6 DEF Alive
<1>20. \A f \in Frames : o[f] \in Closures => Free(w, o[f]) \/ (f \in unsynced' <=> f \in unsynced)
  BY <1>1, <1>3, <1>7
<1>21. \A f \in unsynced' : f \in unsynced
  BY <1>3
<1> QED
  BY <1>1, <1>3, <1>4, <1>5, <1>6, <1>8, <1>9, <1>10, <1>12, <1>13, <1>14,
     <1>16, <1>17, <1>18, <1>19,
           <1>20, <1>21, CalmStep

(* The reductions of a returning closure keeps the invariant.              *)
LEMMA ReduceReturningGood ==
    ASSUME NEW o, NEW rk, NEW n, Good(o, rk, n), NEW w \in Workers, ReduceReturning(w)
    PROVE  Good(o, rk, n)'
<1> DEFINE t == busy[w]
<1>0. wk[w].pc = "reduce" /\ wk[w].why = "reduce" /\ busyLock[w] = Null /\ ~Helping(w)
  BY DEF ReduceReturning, Helping
<1>a. /\ Types /\ Duties /\ Holding /\ Duty(w) /\ Tops(o) /\ Deques(o) /\ Bases(o) /\ Held(w)
      /\ t \in Closures \cup {Null}
  BY DEF Good, Control, Duties, Holding, Types, LockTypes
<1>1. /\ t \in Closures /\ t # Null /\ cl[t].status = "running" /\ t \in Alive
      /\ Bare(o, t)
  <2>1. t # Null
    BY <1>0, <1>a DEF Duty, Idling
  <2> QED BY <1>0, <1>a, <2>1 DEF Held, Tops, Top, Alive
<1>2. cl[t].status # "invalid"
  BY <1>1
<1>b. Links(o, t) = {} /\ dq[w] = <<>>
  BY <1>a, <1>1, NoLinks, EmptyDeque
<1>3. /\ Types' /\ Turns(t, "returning")
      /\ UNCHANGED <<prog, at, home, stolen, unsynced, unw, busyLock, dq>>
      /\ busy' = [busy EXCEPT ![w] = Null]
      /\ Moves(w, "return", wk[w].cur, t, wk[w].vic, wk[w].frm, "stolen")
  BY <1>a, <1>1, <1>2, ReduceReturningStep DEF Turns
<1>4. Others(w) /\ wk'[w].pc = "return" /\ wk'[w].cl = t
  BY <1>3 DEF Moves
<1>5. /\ busy'[w] = Null /\ OthersBusy(w) /\ OthersDq(w) /\ OthersLocks(w)
      /\ dq'[w] = <<>>
  BY <1>a, <1>b, <1>3, LocksKept DEF OthersBusy, OthersDq, Types, LockTypes
<1>6. /\ SameFrames /\ SameLinks /\ Alive' = Alive /\ cl'[t].status = "returning"
      /\ (\A c \in Closures : cl'[c].frame = cl[c].frame /\ cl'[c].callParent = cl[c].callParent)
      /\ (\A c \in Closures : c # t => cl'[c].status = cl[c].status)
      /\ (\A p : SpawnedBy(p)' = SpawnedBy(p) /\ CalledBy(p)' = CalledBy(p))
      /\ \A c \in Alive : c # t => (Waiting(c)' <=> Waiting(c))
  BY <1>1, <1>2, <1>3, StatusChange
<1>7. Free(w, t)
  BY <1>a, <1>1, FreeOfOthers DEF Holds
<1>8. Duties'
  <2>1. Duty(w)'
    BY <1>1, <1>4, <1>5 DEF Duty, Carrying, Idling, Locked
  <2> QED BY <1>0, <1>a, <1>4, <1>5, <1>6, <2>1, DutiesStep
<1>9. Holding'
  <2>1. \A c \in Closures : Holds(w, c)' => c = t
    BY <1>a, <1>4, <1>5, Nulls DEF Holds, Carries, Carrying
  <2>2. Held(w)'
    BY <1>a, <1>1, <1>4, <1>5, <1>6, Nulls DEF Held, Carries, Carrying
  <2> QED BY <1>a, <1>4, <1>5, <1>6, <1>7, <2>1, <2>2, HoldingStep
<1>10. Tree(rk, n)'
  BY <1>1, <1>6, TreeKept DEF Good
<1>13. Top(o, w)' /\ Point(w)'
  <2>1. Bare(o, wk[w].cl)'
    BY <1>1, <1>3, <1>4, <1>6 DEF Bare, Frames
  <2> QED
    BY <1>4, <2>1
       DEF Top, AtFrame, Executing, Point, BeforeSync, AfterSync, Reducing,
           Resuming, Helping
<1>14. Deque(o, w)'
  <2>1. \A f : ~Taken(w, f)'
    BY <1>0, <1>a, <1>4, NotTaken DEF Taken, Others, Still
  <2> QED BY <1>5, <2>1 DEF Deque, ToSet
<1>15. \A c \in Alive' : Waiting(c)' => Waiting(c)
  BY <1>6 DEF Waiting
<1>16. \A f \in Frames : o[f] # Null => o[f] \in Alive'
  BY <1>6 DEF Good, Stacks, Owned
<1>17. \A c \in Alive' : SpawnedBy(c)' # {} => Spawning(c)'
  BY <1>0, <1>a, <1>3, <1>4, <1>6, SpawningKept
<1>18. /\ wk[w].pc \notin {"set_return2", "promote"}
       /\ wk'[w].pc \notin {"set_return2", "promote"}
       /\ wk'[w].pc \notin {"unbusy", "finish"}
  BY <1>0, <1>4
<1>19. \A c \in Closures : cl[c].status = "suspended" => c \in Alive'
  BY <1>6 DEF Alive
<1> QED
  BY <1>0, <1>b, <1>3, <1>4, <1>5, <1>6, <1>8, <1>9, <1>10, <1>13, <1>14, <1>15,
     <1>16, <1>17, <1>18, <1>19, CalmStep

(* Going back to reduce before a return keeps the invariant.               *)
LEMMA ReturnReduceGood ==
    ASSUME NEW o, NEW rk, NEW n, Good(o, rk, n), NEW w \in Workers, ReturnReduce(w)
    PROVE  Good(o, rk, n)'
<1> DEFINE t == wk[w].cl
<1>0. /\ wk[w].pc = "return2" /\ wk[w].pc \in {"return", "return2"}
      /\ wk[w].pc \in Idling /\ ~Helping(w)
  BY DEF ReturnReduce, Helping, Idling
<1>a. Types /\ Duties /\ Holding /\ Duty(w) /\ busy[w] = Null /\ dq[w] = <<>>
  BY <1>0, Stealing
<1>1. /\ t \in Closures /\ cl[t].status = "returning" /\ cl[t].status # "invalid"
      /\ t \in Alive
      /\ cl[t].spawnParent \in Closures /\ cl[t].spawnParent \in Alive
      /\ cl[cl[t].spawnParent].status # "invalid"
      /\ cl[t].spawnParent # t /\ Bare(o, t) /\ Holds(w, t) /\ t # Null
  BY <1>0, <1>a, ReturningFacts, Nulls
<1>2. cl[t].leftSib # Null => cl[cl[t].leftSib].status # "invalid"
  <2>1. Sibling(rk, cl[t].spawnParent, t)
    BY <1>1 DEF Good, Tree, Siblings, SpawnedBy
  <2> QED BY <2>1 DEF Sibling, SpawnedBy, Alive
<1>3. /\ Types' /\ Turns(t, "running") /\ UNCHANGED <<fvars, busy, busyLock, dq>>
      /\ Moves(w, "install", wk[w].cur, t, wk[w].vic, wk[w].frm, "reduce")
  BY <1>a, <1>1, <1>2, ReturnReduceStep DEF Turns
<1>4. /\ Others(w) /\ wk'[w].pc = "install" /\ wk'[w].cl = t /\ wk'[w].why = "reduce"
      /\ UNCHANGED <<prog, at, home, stolen, unsynced, unw>>
  BY <1>3 DEF Moves, fvars, evars
<1>5. /\ busy'[w] = Null /\ busy'[w] = busy[w] /\ OthersBusy(w) /\ OthersDq(w)
      /\ OthersLocks(w) /\ dq'[w] = <<>>
  BY <1>a, <1>3, LocksKept DEF OthersBusy, OthersDq, Types, LockTypes
<1>6. /\ SameFrames /\ SameLinks /\ Alive' = Alive /\ cl'[t].status = "running"
      /\ (\A c \in Closures : cl'[c].frame = cl[c].frame /\ cl'[c].callParent = cl[c].callParent)
      /\ (\A c \in Closures : c # t => cl'[c].status = cl[c].status)
      /\ (\A p : SpawnedBy(p)' = SpawnedBy(p) /\ CalledBy(p)' = CalledBy(p))
      /\ \A c \in Alive : c # t => (Waiting(c)' <=> Waiting(c))
  BY <1>1, <1>3, StatusChange
<1>7. Free(w, t)
  BY <1>a, <1>1, FreeOfOthers DEF Holds
<1>8. Duties'
  <2>1. Duty(w)'
    BY <1>1, <1>4, <1>5 DEF Duty, Carrying, Idling, Locked
  <2> QED BY <1>0, <1>a, <1>4, <1>5, <1>6, <2>1, DutiesStep
<1>9. Holding'
  <2>1. \A c \in Closures : Holds(w, c)' => c = t
    BY <1>a, <1>4, <1>5, Nulls DEF Holds, Carries, Carrying
  <2>2. Held(w)'
    BY <1>a, <1>1, <1>4, <1>5, <1>6, Nulls DEF Held, Carries, Carrying
  <2> QED BY <1>a, <1>4, <1>5, <1>6, <1>7, <2>1, <2>2, HoldingStep
<1>10. Tree(rk, n)'
  BY <1>1, <1>6, TreeKept DEF Good
<1>13. Top(o, w)' /\ Point(w)'
  <2>1. Bare(o, wk[w].cl)'
    BY <1>1, <1>3, <1>4, <1>6 DEF Bare, Frames
  <2> QED
    BY <1>4, <2>1
       DEF Top, AtFrame, Executing, Point, BeforeSync, AfterSync, Reducing,
           Resuming, Helping
<1>14. Deque(o, w)'
  <2>1. \A f : ~Taken(w, f)'
    BY <1>0, <1>a, <1>4, NotTaken, ZenonT(40) DEF Taken, Others, Still
  <2> QED BY <1>5, <2>1 DEF Deque, ToSet
<1>15. \A c \in Alive' : Waiting(c)' => Waiting(c)
  BY <1>6 DEF Waiting
<1>16. \A f \in Frames : o[f] # Null => o[f] \in Alive'
  BY <1>6 DEF Good, Stacks, Owned
<1>17. \A c \in Alive' : SpawnedBy(c)' # {} => Spawning(c)'
  BY <1>0, <1>4, <1>6, SpawningKept DEF Good
<1>18. /\ wk[w].pc \notin {"set_return2", "promote"}
       /\ wk'[w].pc \notin {"set_return2", "promote"}
       /\ wk'[w].pc \notin {"unbusy", "finish"}
  BY <1>0, <1>4
<1>19. \A c \in Closures : cl[c].status = "suspended" => c \in Alive'
  BY <1>6 DEF Alive
<1> QED
  BY <1>0, <1>3, <1>4, <1>5, <1>6, <1>8, <1>9, <1>10, <1>13, <1>14, <1>15,
     <1>16, <1>17, <1>18, <1>19, CalmStep

(***************************************************************************)
(* A child leaves the tree.                                                *)
(***************************************************************************)

(* A closure without children and without a callee.                        *)
Childless(c) == SpawnedBy(c) = {} /\ CalledBy(c) = {}

(* The child c leaves p, which then has status st.                         *)
Leaves(p, c, st) ==
    /\ c \in Alive /\ p \in Alive /\ p # c /\ c \in SpawnedBy(p) /\ Childless(c)
    /\ cl[c].callParent = Null
    /\ cl'[c] = FreeClosure
    /\ st # "invalid" /\ (st # cl[p].status => cl[p].join = 1)
    /\ \A x \in Closures : x # c => Removed(x, p, c, st)

(* When c leaves p, the children of p are one less and all other families  *)
(* stay.                                                                   *)
LEMMA Families ==
    ASSUME Types, NEW p, NEW c, NEW st, Leaves(p, c, st)
    PROVE  /\ Alive' = Alive \ {c} /\ SpawnedBy(p)' = SpawnedBy(p) \ {c}
           /\ \A q \in Alive : q # p => SpawnedBy(q)' = SpawnedBy(q)
           /\ \A q \in Alive : CalledBy(q)' = CalledBy(q)
<1>0. /\ p \in Closures /\ c \in Closures /\ p # c /\ cl'[c].status = "invalid"
      /\ Null \notin Closures
  BY Nulls DEF Leaves, Alive, FreeClosure
<1>1. ASSUME NEW x \in Closures, x # c
      PROVE  /\ cl'[x].status = "invalid" <=> cl[x].status = "invalid"
             /\ cl'[x].spawnParent = cl[x].spawnParent /\ cl'[x].callParent = cl[x].callParent
  BY <1>0, <1>1 DEF Leaves, Removed, Node, Alive
<1>2. Alive' = Alive \ {c}
  BY <1>0, <1>1 DEF Alive
<1>3. \A q : SpawnedBy(q)' = SpawnedBy(q) \ {c} /\ CalledBy(q)' = CalledBy(q) \ {c}
  BY <1>1, <1>2 DEF SpawnedBy, CalledBy, Alive
<1>4. \A q \in Alive : (q # p => c \notin SpawnedBy(q)) /\ c \notin CalledBy(q)
  BY <1>0 DEF Leaves, SpawnedBy, CalledBy, Alive
<1> QED BY <1>2, <1>3, <1>4

(* A join counter of one with a child means no other child.                *)
LEMMA OneChild ==
    ASSUME Types, Joins, NEW p \in Alive, NEW c \in SpawnedBy(p)
    PROVE  /\ cl[p].join = 1 => SpawnedBy(p) = {c} /\ CalledBy(p) = {}
           /\ Cardinality(SpawnedBy(p) \ {c}) = Cardinality(SpawnedBy(p)) - 1
           /\ Cardinality(SpawnedBy(p)) \in Nat /\ Cardinality(CalledBy(p)) \in Nat
<1>1. IsFiniteSet(Closures)
  BY FS_Interval, ProgramsAssumption DEF Closures
<1>2. SpawnedBy(p) \subseteq Closures /\ CalledBy(p) \subseteq Closures
  BY DEF SpawnedBy, CalledBy, Alive
<1>3. IsFiniteSet(SpawnedBy(p)) /\ IsFiniteSet(CalledBy(p))
  BY <1>1, <1>2, FS_Subset
<1>4. Cardinality(SpawnedBy(p)) \in Nat /\ Cardinality(CalledBy(p)) \in Nat
  BY <1>3, FS_CardinalityType
<1>5. /\ IsFiniteSet(SpawnedBy(p) \ {c})
      /\ Cardinality(SpawnedBy(p) \ {c}) = Cardinality(SpawnedBy(p)) - 1
      /\ Cardinality(SpawnedBy(p) \ {c}) \in Nat
  BY <1>3, FS_RemoveElement, FS_CardinalityType
<1>6. ASSUME cl[p].join = 1 PROVE SpawnedBy(p) = {c} /\ CalledBy(p) = {}
  <2>1. cl[p].join = Cardinality(SpawnedBy(p)) + Cardinality(CalledBy(p))
    BY DEF Joins
  <2>2. Cardinality(SpawnedBy(p) \ {c}) = 0 /\ Cardinality(CalledBy(p)) = 0
    BY <1>4, <1>5, <1>6, <2>1
  <2>3. SpawnedBy(p) \ {c} = {} /\ CalledBy(p) = {}
    BY <1>3, <1>5, <2>2, FS_EmptySet
  <2> QED BY <2>3
<1> QED BY <1>4, <1>5, <1>6

(* When c leaves p, the sibling list closes over the gap in the right      *)
(* order.                                                                  *)
LEMMA LeavesSiblings ==
    ASSUME Types, NEW rk, NEW n, Tree(rk, n), NEW p, NEW c, NEW st, Leaves(p, c, st)
    PROVE  RightMost(rk, p)' /\ \A d \in SpawnedBy(p)' : Sibling(rk, p, d)'
<1> DEFINE S == SpawnedBy(p)  l == cl[c].leftSib  r == cl[c].rightSib
<1>0. /\ p \in Closures /\ c \in Closures /\ c \in S /\ S \subseteq Closures
      /\ p # c /\ c # Null
      /\ RightMost(rk, p) /\ (\A d \in S : Sibling(rk, p, d))
      /\ \A d, e \in S : rk[d] = rk[e] => d = e
  BY Nulls DEF Leaves, Alive, SpawnedBy, Tree, Siblings, Ranked
<1>1. \A d \in Closures : rk[d] \in Nat
  BY DEF Tree, Ranked
<1>2. SpawnedBy(p)' = S \ {c}
  BY Families
<1>3. ASSUME NEW x \in Closures, x # c
      PROVE  /\ cl'[x].leftSib = IF x = r THEN l ELSE cl[x].leftSib
             /\ cl'[x].rightSib = IF x = l THEN r ELSE cl[x].rightSib
             /\ cl'[x].rightMost = IF x = p /\ cl[x].rightMost = c THEN l ELSE cl[x].rightMost
  BY <1>3 DEF Leaves, Removed, Node
<1>4. /\ l = Null => \A d \in S : rk[c] <= rk[d]
      /\ l # Null => /\ l \in S /\ rk[l] < rk[c]
                     /\ \A d \in S : rk[d] < rk[c] => rk[d] <= rk[l]
      /\ r = Null => \A d \in S : rk[d] <= rk[c]
      /\ r # Null => /\ r \in S /\ rk[c] < rk[r]
                     /\ \A d \in S : rk[c] < rk[d] => rk[r] <= rk[d]
  BY <1>0 DEF Sibling
<1>5. l # c /\ r # c
  BY <1>0, <1>1, <1>4
<1>6. RightMost(rk, p)'
  <2>1. CASE cl[p].rightMost = c
    <3>1. cl'[p].rightMost = l
      BY <1>0, <1>3, <2>1
    <3>2. \A d \in S : rk[d] <= rk[c]
      BY <1>0, <2>1 DEF RightMost
    <3>3. \A d \in S : d # c => rk[d] < rk[c]
      BY <1>0, <1>1, <3>2
    <3>4. CASE l = Null
      <4>1. S \ {c} = {}
        BY <1>0, <1>1, <1>4, <3>3, <3>4
      <4> QED BY <1>2, <3>1, <3>4, <4>1 DEF RightMost
    <3>5. CASE l # Null
      <4>1. l \in S \ {c} /\ \A d \in S \ {c} : rk[d] <= rk[l]
        BY <1>4, <1>5, <3>3, <3>5
      <4> HIDE DEF S, l
      <4> QED BY <1>2, <3>1, <3>5, <4>1 DEF RightMost
    <3> QED BY <3>4, <3>5
  <2>2. CASE cl[p].rightMost # c
    <3>1. cl'[p].rightMost = cl[p].rightMost
      BY <1>0, <1>3, <2>2
    <3>2. cl[p].rightMost \in S /\ \A d \in S : rk[d] <= rk[cl[p].rightMost]
      BY <1>0 DEF RightMost
    <3>3. cl[p].rightMost # Null
      BY <1>0 DEF RightMost
    <3> QED BY <1>2, <2>2, <3>1, <3>2, <3>3 DEF RightMost
  <2> QED BY <2>1, <2>2
<1>7. ASSUME NEW d \in S \ {c} PROVE Sibling(rk, p, d)'
  <2>0. /\ d \in S /\ d # c /\ d \in Closures /\ rk[d] # rk[c] /\ rk[d] \in Nat
        /\ rk[c] \in Nat
    BY <1>0, <1>1
  <2>1. /\ cl[d].leftSib = Null => \A e \in S : rk[d] <= rk[e]
        /\ cl[d].leftSib # Null =>
             /\ cl[d].leftSib \in S /\ rk[cl[d].leftSib] < rk[d]
             /\ \A e \in S : rk[e] < rk[d] => rk[e] <= rk[cl[d].leftSib]
        /\ cl[d].rightSib = Null => \A e \in S : rk[e] <= rk[d]
        /\ cl[d].rightSib # Null =>
             /\ cl[d].rightSib \in S /\ rk[d] < rk[cl[d].rightSib]
             /\ \A e \in S : rk[d] < rk[e] => rk[cl[d].rightSib] <= rk[e]
    BY <1>0, <2>0 DEF Sibling
  <2>2. \A e \in S : rk[e] \in Nat /\ (e # c => rk[e] # rk[c]) /\ (e # d => rk[e] # rk[d])
    BY <1>0, <1>1, <2>0
  <2> HIDE DEF S, l, r
  <2>3. /\ cl'[d].leftSib = Null => \A e \in S \ {c} : rk[d] <= rk[e]
        /\ cl'[d].leftSib # Null =>
             /\ cl'[d].leftSib \in S \ {c} /\ rk[cl'[d].leftSib] < rk[d]
             /\ \A e \in S \ {c} : rk[e] < rk[d] => rk[e] <= rk[cl'[d].leftSib]
    <3>1. CASE d = r
      <4>1. cl'[d].leftSib = l /\ r # Null /\ rk[c] < rk[d] /\ \A e \in S : rk[c] < rk[e] => rk[d] <= rk[e]
        BY <1>3, <1>4, <2>0, <3>1, <1>0, Nulls
      <4>2. CASE l = Null
        <5>1. \A e \in S \ {c} : rk[c] < rk[e]
          BY <1>4, <2>0, <2>2, <4>2
        <5> QED BY <4>1, <4>2, <5>1
      <4>3. CASE l # Null
        <5>1. l \in S \ {c} /\ rk[l] < rk[c] /\ rk[l] \in Nat
          BY <1>4, <1>5, <2>2, <4>3
        <5>2. ASSUME NEW e \in S \ {c}, rk[e] < rk[d] PROVE rk[e] <= rk[l]
          <6>1. rk[e] < rk[c]
            BY <2>0, <2>2, <4>1, <5>2
          <6> QED BY <1>4, <4>3, <6>1
        <5> QED BY <2>0, <4>1, <4>3, <5>1, <5>2
      <4> QED BY <4>2, <4>3
    <3>2. CASE d # r
      <4>1. cl'[d].leftSib = cl[d].leftSib
        BY <1>3, <2>0, <3>2
      <4>2. cl[d].leftSib # c
        <5> SUFFICES ASSUME cl[d].leftSib = c PROVE FALSE
          OBVIOUS
        <5>1. rk[c] < rk[d] /\ \A e \in S : rk[e] < rk[d] => rk[e] <= rk[c]
          BY <1>0, <2>1
        <5>2. r # Null
          BY <1>4, <2>0, <5>1
        <5>3. r \in S /\ rk[c] < rk[r] /\ rk[r] <= rk[d]
          BY <1>4, <2>0, <5>1, <5>2
        <5>4. rk[r] # rk[d] /\ rk[r] \in Nat
          BY <2>2, <3>2, <5>3
        <5> QED BY <2>0, <5>1, <5>3, <5>4
      <4> QED BY <2>1, <4>1, <4>2
    <3> QED BY <3>1, <3>2
  <2>4. /\ cl'[d].rightSib = Null => \A e \in S \ {c} : rk[e] <= rk[d]
        /\ cl'[d].rightSib # Null =>
             /\ cl'[d].rightSib \in S \ {c} /\ rk[d] < rk[cl'[d].rightSib]
             /\ \A e \in S \ {c} : rk[d] < rk[e] => rk[cl'[d].rightSib] <= rk[e]
    <3>1. CASE d = l
      <4>1. cl'[d].rightSib = r /\ l # Null /\ rk[d] < rk[c] /\ \A e \in S : rk[e] < rk[c] => rk[e] <= rk[d]
        BY <1>3, <1>4, <2>0, <3>1, <1>0, Nulls
      <4>2. CASE r = Null
        <5>1. \A e \in S \ {c} : rk[e] < rk[c]
          BY <1>4, <2>0, <2>2, <4>2
        <5> QED BY <4>1, <4>2, <5>1
      <4>3. CASE r # Null
        <5>1. r \in S \ {c} /\ rk[c] < rk[r] /\ rk[r] \in Nat
          BY <1>4, <1>5, <2>2, <4>3
        <5>2. ASSUME NEW e \in S \ {c}, rk[d] < rk[e] PROVE rk[r] <= rk[e]
          <6>1. rk[c] < rk[e]
            BY <2>0, <2>2, <4>1, <5>2
          <6> QED BY <1>4, <4>3, <6>1
        <5> QED BY <2>0, <4>1, <4>3, <5>1, <5>2
      <4> QED BY <4>2, <4>3
    <3>2. CASE d # l
      <4>1. cl'[d].rightSib = cl[d].rightSib
        BY <1>3, <2>0, <3>2
      <4>2. cl[d].rightSib # c
        <5> SUFFICES ASSUME cl[d].rightSib = c PROVE FALSE
          OBVIOUS
        <5>1. rk[d] < rk[c] /\ \A e \in S : rk[d] < rk[e] => rk[c] <= rk[e]
          BY <1>0, <2>1
        <5>2. l # Null
          BY <1>4, <2>0, <5>1
        <5>3. l \in S /\ rk[l] < rk[c] /\ rk[d] <= rk[l]
          BY <1>4, <2>0, <5>1, <5>2
        <5>4. rk[l] # rk[d] /\ rk[l] \in Nat
          BY <2>2, <3>2, <5>3
        <5> QED BY <2>0, <5>1, <5>3, <5>4
      <4> QED BY <2>1, <4>1, <4>2
    <3> QED BY <3>1, <3>2
  <2> QED BY <1>2, <2>3, <2>4 DEF Sibling
<1> QED BY <1>2, <1>6, <1>7

(* When c leaves p, the tree stays in order.                               *)
LEMMA LeavesTree ==
    ASSUME Types, NEW rk, NEW n, Tree(rk, n), NEW p, NEW c, NEW st, Leaves(p, c, st)
    PROVE  Tree(rk, n)'
<1>0. /\ p \in Closures /\ c \in Closures /\ p \in Alive /\ p # c
      /\ c \in SpawnedBy(p) /\ Alive \subseteq Closures
  BY DEF Leaves, Alive
<1>1. /\ Alive' = Alive \ {c} /\ SpawnedBy(p)' = SpawnedBy(p) \ {c}
      /\ \A q \in Alive : q # p => SpawnedBy(q)' = SpawnedBy(q)
      /\ \A q \in Alive : CalledBy(q)' = CalledBy(q)
  BY Families
<1>2. ASSUME NEW x \in Closures, x # c PROVE Removed(x, p, c, st)
  BY <1>2 DEF Leaves
<1>3. Parents /\ Joins /\ Ranked(rk, n)
  BY DEF Tree
<1>4. Parents'
  <2>1. ASSUME NEW x \in Alive, x # c, cl[x].spawnParent # Null
        PROVE  cl[x].spawnParent \in Alive' /\ cl[x].callParent = Null
    BY <1>1, <1>3, <2>1 DEF Parents, Leaves, Childless, SpawnedBy
  <2>2. ASSUME NEW x \in Alive, x # c, cl[x].callParent # Null
        PROVE  cl[x].callParent \in Closures /\ cl'[cl[x].callParent].status = "suspended"
    <3>1. /\ cl[x].callParent \in Closures /\ cl[cl[x].callParent].status = "suspended"
          /\ cl[x].callParent # c /\ x \in CalledBy(cl[x].callParent)
      BY <1>3, <2>2 DEF Parents, Leaves, Childless, CalledBy
    <3>2. cl[x].callParent = p => st = cl[p].status
      <4>1. cl[x].callParent = p /\ st # cl[p].status => CalledBy(p) = {}
        BY <1>0, <1>3, OneChild DEF Leaves
      <4> QED BY <3>1, <4>1
    <3> QED BY <1>2, <3>1, <3>2 DEF Removed, Node
  <2>3. \A x \in Alive : x # c => cl'[x].spawnParent = cl[x].spawnParent /\ cl'[x].callParent = cl[x].callParent
    BY <1>0, <1>2 DEF Removed, Node
  <2> QED BY <1>1, <1>3, <2>1, <2>2, <2>3 DEF Parents
<1>5. Ranked(rk, n)'
  BY <1>1, <1>3 DEF Ranked
<1>6. Joins'
  <2>1. ASSUME NEW q \in Alive, q # c, q # p
        PROVE  cl'[q].join = Cardinality(SpawnedBy(q)') + Cardinality(CalledBy(q)')
    BY <1>0, <1>1, <1>2, <1>3, <2>1 DEF Joins, Removed, Node
  <2>2. cl'[p].join = Cardinality(SpawnedBy(p)') + Cardinality(CalledBy(p)')
    <3>1. cl'[p].join = cl[p].join - 1
      BY <1>0, <1>2 DEF Removed, Node
    <3>2. /\ cl[p].join = Cardinality(SpawnedBy(p)) + Cardinality(CalledBy(p))
          /\ Cardinality(SpawnedBy(p) \ {c}) = Cardinality(SpawnedBy(p)) - 1
          /\ Cardinality(SpawnedBy(p)) \in Nat /\ Cardinality(CalledBy(p)) \in Nat
      BY <1>0, <1>3, OneChild DEF Joins
    <3> QED BY <1>0, <1>1, <3>1, <3>2
  <2> QED BY <1>1, <2>1, <2>2 DEF Joins
<1>7. RightMost(rk, p)' /\ \A d \in SpawnedBy(p)' : Sibling(rk, p, d)'
  BY LeavesSiblings
<1>8. ASSUME NEW q \in Alive, q # c, q # p
      PROVE  RightMost(rk, q)' /\ \A d \in SpawnedBy(q)' : Sibling(rk, q, d)'
  <2>1. /\ SpawnedBy(q)' = SpawnedBy(q) /\ cl'[q].rightMost = cl[q].rightMost
        /\ q \in Closures
    BY <1>0, <1>1, <1>2, <1>8 DEF Removed, Node
  <2>2. RightMost(rk, q)'
    BY <2>1 DEF RightMost, Tree, Siblings
  <2>3. ASSUME NEW d \in SpawnedBy(q) PROVE Sibling(rk, q, d)'
    <3>1. d \in Closures /\ d # c /\ cl[d].spawnParent # p
      BY <1>0, <1>8, <2>3 DEF SpawnedBy
    <3>2. cl[c].leftSib # d /\ cl[c].rightSib # d
      <4>1. Sibling(rk, p, c)
        BY <1>0 DEF Tree, Siblings
      <4> QED BY <3>1, <4>1, Nulls DEF Sibling, SpawnedBy
    <3>3. cl'[d].leftSib = cl[d].leftSib /\ cl'[d].rightSib = cl[d].rightSib
      BY <1>2, <3>1, <3>2 DEF Removed, Node
    <3>4. Sibling(rk, q, d)
      BY DEF Tree, Siblings
    <3> QED BY <2>1, <3>3, <3>4 DEF Sibling
  <2> QED BY <2>1, <2>2, <2>3
<1>9. Siblings(rk)'
  BY <1>1, <1>7, <1>8 DEF Siblings
<1> QED BY <1>4, <1>5, <1>6, <1>9 DEF Tree

(* Nobody has in its hands what waits at a sync.                           *)
LEMMA Unheld ==
    ASSUME Types, Duties, Holding, NEW t \in Closures, cl[t].status = "suspended",
           CalledBy(t) = {}
    PROVE  \A x \in Workers : ~Holds(x, t)
<1> SUFFICES ASSUME NEW x \in Workers, Holds(x, t) PROVE FALSE
  OBVIOUS
<1>1. Held(x) /\ Duty(x)
  BY DEF Holding, Duties
<1>2. ~Carries(x, t)
  BY <1>1 DEF Held
<1>3. busy[x] = t /\ wk[x].pc = "set_return2"
  BY <1>1, <1>2 DEF Held, Holds
<1>4. wk[x].pc \in Carrying
  BY <1>3 DEF Carrying
<1>5. /\ wk[x].cl \in Closures /\ cl[wk[x].cl].status # "invalid"
      /\ cl[wk[x].cl].callParent = t
  BY <1>1, <1>3, <1>4, CarryWork DEF Duty
<1> QED BY <1>5 DEF CalledBy, Alive

(* The end of Closure_return keeps the invariant.                          *)
LEMMA ReturnFinishGood ==
    ASSUME NEW o, NEW rk, NEW n, Good(o, rk, n), NEW w \in Workers, ReturnFinish(w)
    PROVE  Good(o, rk, n)'
<1>0. /\ wk[w].pc = "return2" /\ wk[w].pc \in {"return", "return2"}
      /\ wk[w].pc \in Idling /\ ~Helping(w)
  BY DEF ReturnFinish, Helping, Idling
<1>a. /\ Types /\ Duties /\ Holding /\ Duty(w) /\ busy[w] = Null /\ dq[w] = <<>>
      /\ Tops(o) /\ Deques(o) /\ Bases(o) /\ Tree(rk, n) /\ Joins /\ Points
  BY <1>0, Stealing DEF Good, Tree
<1>1. PICK c, p \in Closures : ReturnsTo(w, c, p)
  BY <1>0, ReturningFacts DEF ReturnsTo
<1>2. /\ wk[w].cl = c /\ cl[c].spawnParent = p /\ cl[c].status = "returning"
      /\ cl[c].status # "invalid" /\ c \in Alive
      /\ p \in Alive /\ cl[p].status # "invalid" /\ p # Null /\ c # Null
      /\ SpawnedBy(c) = {} /\ p # c /\ CalledBy(c) = {} /\ Holds(w, c)
      /\ cl[c].callParent = Null
      /\ cl[p].frame # Null /\ cl[p].frame \in stolen /\ c \in SpawnedBy(p)
  BY <1>0, <1>a, <1>1, ReturningFacts, Nulls DEF ReturnsTo, SpawnedBy
<1>b. Bare(o, c)
  BY <1>0, <1>2, ReturningFacts
<1>3. /\ cl[c].leftSib # Null => cl[cl[c].leftSib].status # "invalid" /\ cl[c].leftSib # c
      /\ cl[c].rightSib # Null => cl[cl[c].rightSib].status # "invalid" /\ cl[c].rightSib # c
  <2>1. Sibling(rk, p, c) /\ rk[c] \in Nat
    BY <1>a, <1>2 DEF Tree, Siblings, Ranked
  <2> QED BY <2>1 DEF Sibling, SpawnedBy, Alive
<1>4. /\ Types' /\ UNCHANGED <<prog, at, home, stolen, unw, busy, busyLock, dq>>
      /\ cl'[c] = FreeClosure
      /\ \A x \in Closures : x # c =>
                Removed(x, p, c, IF Resumes(p) THEN "running" ELSE cl[p].status)
      /\ Resumes(p) => /\ unsynced' = unsynced \ {cl[p].frame}
                       /\ Moves(w, "install", wk[w].cur, p, wk[w].vic, wk[w].frm, "synced")
      /\ ~Resumes(p) => /\ unsynced' = unsynced
                        /\ Moves(w, "steal", wk[w].cur, Null, wk[w].vic, wk[w].frm, wk[w].why)
  BY <1>a, <1>1, <1>2, <1>3, ReturnFinishStep
<1>5. /\ Others(w)
      /\ Resumes(p) => wk'[w].pc = "install" /\ wk'[w].cl = p /\ wk'[w].why = "synced"
      /\ ~Resumes(p) => wk'[w].pc = "steal"
  BY <1>4 DEF Moves
<1>6. /\ busy'[w] = Null /\ busy'[w] = busy[w] /\ OthersBusy(w) /\ OthersDq(w)
      /\ OthersLocks(w) /\ dq'[w] = <<>>
  BY <1>a, <1>4, LocksKept DEF OthersBusy, OthersDq, Types, LockTypes
<1>7. Leaves(p, c, IF Resumes(p) THEN "running" ELSE cl[p].status)
  <2>1. Resumes(p) => cl[p].join = 1
    <3>0. /\ Cardinality(SpawnedBy(p)) \in Nat /\ Cardinality(CalledBy(p)) \in Nat
          /\ cl[p].join = Cardinality(SpawnedBy(p)) + Cardinality(CalledBy(p))
      BY <1>a, <1>2, OneChild DEF Joins
    <3>1. cl[p].join \in Nat
      BY <3>0
    <3> QED BY <3>1 DEF Resumes
  <2> QED BY <1>2, <1>4, <2>1 DEF Leaves, Childless
<1>8. /\ Alive' = Alive \ {c} /\ SpawnedBy(p)' = SpawnedBy(p) \ {c}
      /\ \A q \in Alive : q # p => SpawnedBy(q)' = SpawnedBy(q)
      /\ \A q \in Alive : CalledBy(q)' = CalledBy(q)
  BY <1>a, <1>7, Families
<1>9. Tree(rk, n)'
  BY <1>a, <1>7, LeavesTree
<1>10. ASSUME NEW x \in Closures
       PROVE  /\ cl'[x].frame = cl[x].frame /\ cl'[x].callParent = cl[x].callParent
              /\ x # c => cl'[x].spawnParent = cl[x].spawnParent
              /\ x # c => cl'[x].status = IF x = p /\ Resumes(p) THEN "running" ELSE cl[x].status
  <2>1. CASE x = c
    BY <1>2, <1>4, <1>b, <2>1 DEF Bare, FreeClosure
  <2>2. CASE x # c
    BY <1>4, <2>2 DEF Removed, Node
  <2> QED BY <2>1, <2>2
<1>11. SameFrames
  BY <1>8, <1>10 DEF SameFrames, Alive
<1>12. Resumes(p) => /\ SpawnedBy(p) = {c} /\ CalledBy(p) = {} /\ Waiting(p) /\ Free(w, p)
                     /\ cl[p].status = "suspended"
  <2>1. Resumes(p) => cl[p].join = 1 /\ cl[p].status = "suspended"
    <3>0. /\ Cardinality(SpawnedBy(p)) \in Nat /\ Cardinality(CalledBy(p)) \in Nat
          /\ cl[p].join = Cardinality(SpawnedBy(p)) + Cardinality(CalledBy(p))
      BY <1>a, <1>2, OneChild DEF Joins
    <3>1. cl[p].join \in Nat
      BY <3>0
    <3> QED BY <3>1 DEF Resumes
  <2>2. Resumes(p) => SpawnedBy(p) = {c} /\ CalledBy(p) = {}
    BY <1>a, <1>2, <2>1, OneChild
  <2> QED BY <1>a, <2>1, <2>2, Unheld DEF Waiting, Free
<1>13. Free(w, c)
  BY <1>a, <1>2, FreeOfOthers
<1>14. Duties'
  <2>1. Duty(w)'
    BY <1>2, <1>5, <1>6 DEF Duty, Carrying, Idling, Locked
  <2>2. \A x \in Closures : cl'[x].callParent = cl[x].callParent
    BY <1>10
  <2>3. wk'[w].pc # "synced"
    BY <1>5
  <2> QED BY <1>a, <1>5, <1>6, <2>1, <2>2, <2>3, DutiesStep
<1>15. Holding'
  <2>1. \A x \in Closures : Holds(w, x)' => x = p /\ Resumes(p)
    BY <1>a, <1>5, <1>6, Nulls DEF Holds, Carries, Carrying
  <2>2. Held(w)'
    BY <1>2, <1>5, <1>6, <1>10, <2>1 DEF Held, Holds
  <2>3. \A x \in Closures : Free(w, x) \/ cl'[x].status = cl[x].status
    BY <1>10, <1>12, <1>13
  <2> QED BY <1>a, <1>5, <1>6, <1>12, <2>1, <2>2, <2>3, HoldingStep
<1>16. Top(o, w)' /\ Point(w)'
  <2>1. CASE Resumes(p)
    <3>1. Only(o, p, cl[p].frame) /\ Stopped(cl[p].frame)
      BY <1>a, <1>2, <1>12, <2>1 DEF Tops, Points
    <3>2. Only(o, wk[w].cl, cl[wk[w].cl].frame)' /\ Stopped(cl[wk[w].cl].frame)'
      BY <1>4, <1>5, <1>10, <2>1, <3>1 DEF Only, Stopped, Frames, Code
    <3>3. cl'[wk'[w].cl].frame \notin unsynced'
      BY <1>4, <1>5, <1>10, <2>1
    <3> QED
      BY <1>5, <2>1, <3>2, <3>3
         DEF Top, AtFrame, Executing, Point, BeforeSync, AfterSync, Reducing,
             Resuming, Helping
  <2>2. CASE ~Resumes(p)
    BY <1>5, <2>2
       DEF Top, AtFrame, Executing, Point, BeforeSync, AfterSync, Reducing,
           Resuming, Helping
  <2> QED BY <2>1, <2>2
<1>17. Deque(o, w)'
  <2>1. \A f : ~Taken(w, f)'
    BY <1>0, <1>a, <1>5, NotTaken DEF Taken, Others, Still
  <2> QED BY <1>6, <2>1 DEF Deque, ToSet
<1>18. \A x \in Alive' : Waiting(x)' => Waiting(x)
  BY <1>8, <1>10 DEF Waiting, Alive
<1>19. \A f \in Frames : o[f] # Null => o[f] \in Alive'
  BY <1>8, <1>b DEF Good, Stacks, Owned, Bare
<1>20. o[cl[p].frame] = p /\ \A x \in Alive : cl[x].frame = cl[p].frame => x = p
  BY <1>a, <1>2 DEF Bases, Base, Based
<1>21. \A x \in Alive' : SpawnedBy(x)' # {} => Spawning(x)'
  <2> SUFFICES ASSUME NEW x \in Alive', SpawnedBy(x)' # {} PROVE Spawning(x)'
    OBVIOUS
  <2>1. x \in Alive /\ SpawnedBy(x) # {}
    BY <1>8
  <2>2. Resumes(p) => x # p
    BY <1>8, <1>12
  <2>3. cl[x].frame \in unsynced => cl[x].frame \in unsynced'
    BY <1>4, <1>20, <2>1, <2>2
  <2> QED BY <1>0, <1>a, <1>5, <1>11, <2>1, <2>3, SpawningKept
<1>22. /\ wk[w].pc \notin {"set_return2", "promote"}
       /\ wk'[w].pc \notin {"set_return2", "promote"}
       /\ wk'[w].pc \notin {"unbusy", "finish"}
  BY <1>0, <1>5
<1>23. \A x \in Closures : cl[x].status = "suspended" => x \in Alive'
  BY <1>2, <1>8 DEF Alive
<1>24. \A f \in Frames : o[f] \in Closures => Free(w, o[f]) \/ (f \in unsynced' <=> f \in unsynced)
  BY <1>4, <1>12, <1>20
<1>25. \A f \in unsynced' : f \in unsynced
  BY <1>4
<1>26. \A x \in Closures : cl'[x].frame = cl[x].frame
  BY <1>10
<1> QED
  BY <1>0, <1>4, <1>5, <1>6, <1>9, <1>11, <1>14, <1>15, <1>16, <1>17, <1>18,
     <1>19, <1>21, <1>22, <1>23,
           <1>24, <1>25, <1>26, CalmStep

(***************************************************************************)
(* Steals, and the first half of a return to a call parent.                *)
(***************************************************************************)

(* A sequence of numbers in ascending order.                               *)
Ascending(s) == \A i, j \in DOMAIN s : i < j => s[i] < s[j]

(* The head and the tail of an ascending sequence.                         *)
LEMMA TailFacts ==
    ASSUME NEW S, S \subseteq Nat, NEW s \in Seq(S), s # <<>>, Ascending(s)
    PROVE  /\ Head(s) \in S /\ Tail(s) \in Seq(S)
           /\ \A f : f \in ToSet(s) <=> f = Head(s) \/ f \in ToSet(Tail(s))
           /\ \A f \in ToSet(Tail(s)) : Head(s) < f
           /\ Ascending(Tail(s))
<1>1. /\ Len(s) \in Nat \ {0} /\ DOMAIN s = 1 .. Len(s) /\ Head(s) = s[1]
      /\ Tail(s) \in Seq(S)
      /\ Len(Tail(s)) = Len(s) - 1 /\ DOMAIN Tail(s) = 1 .. Len(s) - 1
      /\ \A i \in 1 .. Len(s) - 1 : Tail(s)[i] = s[i + 1]
  OBVIOUS
<1>2. \A i \in 1 .. Len(s) : s[i] \in S
  BY <1>1
<1>3. Head(s) \in S
  BY <1>1, <1>2
<1>4. ToSet(s) = {s[i] : i \in 1 .. Len(s)} /\ ToSet(Tail(s)) = {s[i + 1] : i \in 1 .. Len(s) - 1}
  BY <1>1 DEF ToSet
<1>5. ASSUME NEW f PROVE f \in ToSet(s) <=> f = Head(s) \/ f \in ToSet(Tail(s))
  <2>1. ASSUME f \in ToSet(s), f # Head(s) PROVE f \in ToSet(Tail(s))
    <3>1. PICK i \in 1 .. Len(s) : f = s[i]
      BY <1>4, <2>1
    <3>2. i - 1 \in 1 .. Len(s) - 1 /\ s[(i - 1) + 1] = f
      BY <1>1, <2>1, <3>1
    <3> QED BY <1>4, <3>2
  <2>2. Head(s) \in ToSet(s)
    BY <1>1, <1>4
  <2>3. ASSUME f \in ToSet(Tail(s)) PROVE f \in ToSet(s)
    <3>1. PICK i \in 1 .. Len(s) - 1 : f = s[i + 1]
      BY <1>4, <2>3
    <3>2. i + 1 \in 1 .. Len(s)
      BY <1>1
    <3> QED BY <1>4, <3>1, <3>2
  <2> QED BY <2>1, <2>2, <2>3
<1>6. ASSUME NEW f \in ToSet(Tail(s)) PROVE Head(s) < f
  <2>1. PICK i \in 1 .. Len(s) - 1 : f = s[i + 1]
    BY <1>4
  <2>2. i + 1 \in DOMAIN s /\ 1 \in DOMAIN s /\ 1 < i + 1
    BY <1>1
  <2> QED BY <1>1, <2>1, <2>2 DEF Ascending
<1>7. ASSUME NEW i \in DOMAIN Tail(s), NEW j \in DOMAIN Tail(s), i < j
      PROVE  Tail(s)[i] < Tail(s)[j]
  <2>1. /\ i + 1 \in DOMAIN s /\ j + 1 \in DOMAIN s /\ i + 1 < j + 1
        /\ Tail(s)[i] = s[i + 1] /\ Tail(s)[j] = s[j + 1]
    BY <1>1, <1>7
  <2> QED BY <2>1 DEF Ascending
<1>8. Ascending(Tail(s))
  BY <1>7 DEF Ascending
<1> QED BY <1>1, <1>3, <1>5, <1>6, <1>8

(* A steal that wins keeps the invariant.                                  *)
LEMMA StealWinGood ==
    ASSUME NEW o, NEW rk, NEW n, Good(o, rk, n), NEW w \in Workers, StealWin(w)
    PROVE  Good(o, rk, n)'
<1>0. /\ wk[w].pc = "peek" /\ wk[w].pc \in Idling /\ ~Helping(w)
      /\ wk[w].pc \notin Carrying
  BY DEF StealWin, Helping, Idling, Carrying
<1>a. /\ Types /\ Duties /\ Holding /\ Duty(w) /\ busy[w] = Null /\ dq[w] = <<>> /\ Control
      /\ Tops(o) /\ Deques(o) /\ Bases(o) /\ Tree(rk, n) /\ Points /\ Stacks(o) /\ Positions(o) /\ Ghosts(o, rk)
  BY <1>0, Stealing DEF Good, Tree
<1>1. wk[w].vic \in Workers
  BY <1>0, <1>a DEF Duty
<1>2. PICK v \in Workers : v = wk[w].vic
  BY <1>1
<1>3. v # w /\ busyLock[v] = w /\ Duty(v) /\ Deque(o, v)
  BY <1>0, <1>a, <1>2 DEF Duty, Duties, Deques
<1>4. /\ Types' /\ SameTree /\ UNCHANGED <<fvars, busy, busyLock>>
      /\ busy[v] \in Closures /\ dq[v] # <<>> /\ Head(dq[v]) \in Frames
      /\ dq' = [dq EXCEPT ![v] = Tail(@)]
      /\ Moves(w, "promote", wk[w].cur, busy[v], v, Head(dq[v]), wk[w].why)
  BY <1>a, <1>2, StealWinStep
<1>5. /\ Others(w) /\ wk'[w].pc = "promote" /\ wk'[w].cl = busy[v] /\ wk'[w].vic = v
      /\ wk'[w].frm = Head(dq[v])
      /\ UNCHANGED <<prog, at, home, stolen, unsynced, unw>> /\ Frames' = Frames
  BY <1>4 DEF Moves, fvars, evars, Frames
<1>6. /\ OthersBusy(w) /\ OthersLocks(w) /\ dq'[v] = Tail(dq[v])
      /\ (\A x \in Workers : x # v => dq'[x] = dq[x])
      /\ busy[v] # Null /\ Head(dq[v]) # Null
  BY <1>a, <1>4, LocksKept, Nulls DEF OthersBusy, Types, LockTypes
<1>7. /\ SameFrames /\ SameLinks /\ Alive' = Alive
      /\ (\A c \in Closures : cl'[c].status = cl[c].status /\ cl'[c].frame = cl[c].frame
                              /\ cl'[c].callParent = cl[c].callParent)
      /\ (\A p : SpawnedBy(p)' = SpawnedBy(p) /\ CalledBy(p)' = CalledBy(p))
      /\ \A c \in Alive : Waiting(c)' <=> Waiting(c)
  BY <1>4, SameTreeFrames
<1>8. Duties'
  <2>1. Duty(w)'
    <3>1. wk[v].pc # "synced" /\ wk'[v].pc = wk[v].pc
      BY <1>3, <1>4, <1>5 DEF Duty, Others, Still
    <3>2. busy'[w] = Null /\ dq'[w] = <<>> /\ busyLock' = busyLock /\ busy' = busy
      BY <1>a, <1>3, <1>4, <1>6
    <3> QED BY <1>3, <1>5, <1>6, <3>1, <3>2 DEF Duty, Carrying, Idling, Locked
  <2>2. ASSUME NEW x \in Workers, x # w PROVE Duty(x)'
    <3>1. Duty(x)
      BY <1>a DEF Duties
    <3>2. wk[x].pc = "promote" => busy'[wk[x].vic] = busy[wk[x].vic] /\ wk'[wk[x].vic].pc # "synced"
      <4>1. wk[x].pc = "promote" => wk[x].vic \in Workers /\ wk[x].vic # w /\ wk[wk[x].vic].pc # "synced"
        BY <1>a, <3>1 DEF Duty
      <4> QED BY <1>4, <1>5, <4>1 DEF Others, Still
    <3>3. dq[x] = <<>> => dq'[x] = <<>>
      BY <1>4, <1>6
    <3>4. wk[x].pc = "set_return2" => cl'[wk[x].cl].callParent = cl[wk[x].cl].callParent
      <4>1. wk[x].pc = "set_return2" => wk[x].pc \in Carrying
        BY DEF Carrying
      <4> QED BY <1>a, <1>7, <4>1, CarryWork
    <3>5. busy'[x] = busy[x]
      BY <1>4
    <3> QED BY <1>a, <1>5, <1>6, <2>2, <3>2, <3>3, <3>4, <3>5, DutyOfOther
  <2> QED BY <2>1, <2>2 DEF Duties
<1>9. Holding'
  <2>1. \A c \in Closures : ~Holds(w, c)'
    BY <1>a, <1>4, <1>5, Nulls DEF Holds, Carries, Carrying
  <2>2. Held(w)'
    BY <2>1 DEF Held, Holds
  <2> QED BY <1>a, <1>5, <1>6, <1>7, <2>1, <2>2, HoldingStep
<1>10. Tree(rk, n)' /\ Parents'
  BY <1>a, <1>7, TreeKept DEF Tree
<1>11. \A t \in Alive' : Waiting(t)' => Stopped(cl[t].frame)' /\ Only(o, t, cl[t].frame)'
  BY <1>a, <1>5, <1>7, CalmWaiting DEF SameFrames
<1>12. Top(o, w)' /\ Point(w)'
  BY <1>5
     DEF Top, AtFrame, Executing, Point, BeforeSync, AfterSync, Reducing,
         Resuming, Helping
<1>13. Points' /\ \A x \in Workers : x # w /\ Helping(x) => Helping(x)'
  BY <1>a, <1>5, <1>6, <1>7, <1>11, <1>12, CalmPoints
<1>14. \A f \in Frames : o[f] # Null => o[f] \in Alive'
  BY <1>a, <1>7 DEF Stacks, Owned
<1>15. /\ Stacks(o)'
       /\ \A t \in Alive' : Base(o, t)'
       /\ \A t \in Alive', f \in Frames : SpawnedFrom(t, f) => SpawnedFrom(t, f)'
  <2>1. \A t : Swapped(t) => Swapped(t)'
    BY <1>0, <1>5 DEF Swapped, Others, Still
  <2> QED BY <1>a, <1>5, <1>7, <1>10, <1>14, <2>1, CalmStacks
<1>16. \A f \in stolen' : o[f] # Null => Stolen(o, f)'
  <2>1. wk[w].pc # "set_return2"
    BY <1>0
  <2> QED BY <1>0, <1>a, <1>5, <1>6, <1>7, <1>13, <1>14, <2>1, CalmStolen
<1>17. Bases(o)'
  <2>1. \A f \in unsynced' : f \in stolen' /\ o[f] # Null /\ cl'[o[f]].frame = f
    <3>1. \A f \in unsynced : f \in stolen /\ f \in Frames /\ o[f] # Null /\ cl[o[f]].frame = f
      BY <1>a DEF Bases, Types, FrameTypes
    <3>2. \A f \in unsynced : cl'[o[f]].frame = f
      BY <1>7, <1>14, <3>1 DEF SameFrames
    <3> QED BY <1>5, <3>1, <3>2
  <2>2. \A c \in Alive' : SpawnedBy(c)' # {} => Spawning(c)'
    BY <1>0, <1>a, <1>5, <1>7, SpawningKept
  <2> QED BY <1>15, <1>16, <2>1, <2>2 DEF Bases
<1>18. Tops(o)'
  <2>1. \A t \in Closures : cl[t].status = "suspended" => t \in Alive'
    BY <1>7 DEF Alive
  <2> QED BY <1>a, <1>5, <1>6, <1>7, <1>11, <1>12, <1>15, <2>1, CalmTops
<1>19. Deques(o)'
  <2>1. \A f : ~Taken(v, f)
    <3> SUFFICES ASSUME NEW x \in Workers, wk[x].pc = "promote", wk[x].vic = v
                 PROVE  FALSE
      BY DEF Taken
    <3>1. busyLock[v] = x
      BY <1>a DEF Duties, Duty
    <3> QED BY <1>0, <1>3, <3>1
  <2>2. \A f : Taken(v, f)' <=> f = Head(dq[v])
    BY <1>5, <2>1 DEF Taken, Others, Still
  <2>3. \A x \in Workers, f \in Frames : x # v => (Taken(x, f)' <=> Taken(x, f))
    BY <1>0, <1>5 DEF Taken, Others, Still
  <2>4. \A t : Links(o, t)' = Links(o, t)
    BY <1>5 DEF Links, LinksTo, Inner
  <2>5. Deque(o, v)'
    <3>1. dq[v] \in Seq(Frames) /\ Frames \subseteq Nat /\ Ascending(dq[v])
      BY <1>a, <1>3, ProgramFrames
         DEF Types, LockTypes, FrameTypes, Deque, Ascending
    <3>2. /\ \A f : f \in ToSet(dq[v]) <=> f = Head(dq[v]) \/ f \in ToSet(Tail(dq[v]))
          /\ \A f \in ToSet(Tail(dq[v])) : Head(dq[v]) < f
          /\ Ascending(Tail(dq[v]))
      BY <1>4, <3>1, TailFacts
    <3>3. \A f \in Frames : f \in Links(o, busy[v])' <=> f \in ToSet(dq'[v]) \/ Taken(v, f)'
      <4>1. Links(o, busy[v])' = Links(o, busy[v])
        BY <1>4, <2>4
      <4> QED BY <1>3, <1>6, <2>1, <2>2, <3>2, <4>1 DEF Deque
    <3>4. \A i, j \in DOMAIN dq'[v] : i < j => dq'[v][i] < dq'[v][j]
      BY <1>6, <3>2 DEF Ascending
    <3>5. \A f \in Frames : Taken(v, f)' => \A x \in ToSet(dq'[v]) : f < x
      BY <1>6, <2>2, <3>2
    <3> QED BY <1>5, <3>3, <3>4, <3>5 DEF Deque
  <2>6. ASSUME NEW x \in Workers, x # v PROVE Deque(o, x)'
    <3>1. \A t : Same(o, o, t)
      BY DEF Same
    <3> QED BY <1>a, <1>4, <1>5, <1>6, <2>3, <2>6, <3>1, DequeOfOther
  <2> QED BY <1>a, <1>4, <2>4, <2>5, <2>6 DEF Deques
<1>20. Positions(o)'
  BY <1>a, <1>5, PositionsKept
<1>21. Ghosts(o, rk)'
  BY <1>a, <1>5 DEF Ghosts
<1> QED
  BY <1>4, <1>8, <1>9, <1>10, <1>13, <1>15, <1>17, <1>18, <1>19, <1>20, <1>21
     DEF Good, Control

(* What the invariant says of a worker that returns to a call parent: it   *)
(* is in the only frame of its closure, which has no children, and nobody  *)
(* else has either closure in its hands.                                   *)
LEMMA Swapping ==
    ASSUME NEW o, NEW rk, NEW n, Good(o, rk, n), NEW w \in Workers,
           wk[w].pc = "set_return"
    PROVE  LET t == busy[w]  p == cl[t].callParent  f == Cur(w)
           IN  /\ Types /\ Duties /\ Holding /\ t \in Closures /\ t \in Alive /\ t # Null /\ cl[t].status = "running"
               /\ f \in Frames /\ wk[w].cur = f /\ f \in stolen /\ f \notin unsynced /\ f # Root
               /\ prog.kind[f] # "expr" /\ ~HasHandler(f)
               /\ cl[t].frame = f /\ Only(o, t, f) /\ CalledFrom(o, p, f)
               /\ p \in Closures /\ p # Null /\ p # t /\ cl[p].status = "suspended"
               /\ SpawnedBy(t) = {} /\ CalledBy(t) = {}
               /\ Free(w, t) /\ Free(w, p) /\ busyLock[w] = w
               /\ Links(o, t) = {} /\ Links(o, p) = {} /\ dq[w] = <<>> /\ \A g : ~Taken(w, g)
<1> DEFINE t == busy[w]  p == cl[t].callParent  f == Cur(w)
<1>0. AtFrame(w) /\ ~Helping(w) /\ wk[w].pc \in Locked
  BY DEF AtFrame, Executing, Helping, Locked
<1>1. /\ Types /\ Duties /\ Holding /\ Tops(o) /\ Deques(o) /\ Bases(o) /\ Point(w)
      /\ Duty(w) /\ Parents
  BY DEF Good, Control, Points, Duties, Tree
<1>2. /\ t \in Closures /\ t \in Alive /\ cl[t].status = "running" /\ wk[w].cur = f
      /\ o[f] = t /\ f \in Frames /\ t # Null
  BY <1>0, <1>1, AtWork, Nulls DEF Alive
<1>3. /\ f \in stolen /\ f \notin unsynced /\ f # Root /\ prog.kind[f] # "expr"
      /\ ~HasHandler(f)
  BY <1>1, <1>2 DEF Point, AfterSync
<1>4. Free(w, t)
  BY <1>1, <1>2, FreeOfOthers DEF Holds
<1>5. cl[t].frame = f
  <2>1. Stolen(o, f)
    BY <1>1, <1>2, <1>3 DEF Bases
  <2>2. ASSUME NEW x \in Workers, wk[x].pc = "set_return2", wk[x].cl = t PROVE FALSE
    <3>1. Holds(x, t) /\ x # w
      BY <2>2 DEF Holds, Carries, Carrying
    <3> QED BY <1>4, <3>1 DEF Free
  <2>3. ASSUME NEW x \in Workers, busy[x] = t, Helping(x) PROVE FALSE
    BY <1>0, <1>4, <2>3 DEF Free, Holds
  <2> QED BY <1>2, <2>1, <2>2, <2>3 DEF Stolen
<1>6. TopOf(o, t, f)
  BY <1>0, <1>1, <1>2 DEF Tops, Top
<1>7. Only(o, t, f)
  BY <1>1, <1>2, <1>5, <1>6, OnlyBase, Nulls
<1>8. CalledFrom(o, p, f)
  BY <1>1, <1>2, <1>3, <1>5, Nulls DEF Bases, Base, Based
<1>9. p # Null /\ p \in Closures /\ cl[p].status = "suspended" /\ p # t
  BY <1>1, <1>2, <1>8 DEF CalledFrom, Parents
<1>10. SpawnedBy(t) = {}
  <2>1. ~Promoting(t)
    <3> SUFFICES ASSUME NEW x \in Workers, wk[x].pc \in {"unbusy", "finish"},
                        wk[x].cl = t
                 PROVE  FALSE
      BY DEF Promoting
    <3>1. Holds(x, t) /\ x # w
      BY DEF Holds, Carries, Carrying
    <3> QED BY <1>4, <3>1 DEF Free
  <2> QED BY <1>1, <1>2, <1>3, <1>5, <2>1 DEF Bases, Spawning
<1>11. CalledBy(t) = {}
  BY <1>1, <1>2 DEF Parents, CalledBy
<1>12. Free(w, p)
  <2> SUFFICES ASSUME NEW x \in Workers, x # w, Holds(x, p) PROVE FALSE
    BY DEF Free
  <2>1. Held(x) /\ Duty(x)
    BY <1>1 DEF Holding, Duties
  <2>2. busy[x] = p /\ wk[x].pc = "set_return2"
    BY <1>9, <2>1 DEF Held, Holds
  <2>3. wk[x].pc \in Carrying
    BY <2>2 DEF Carrying
  <2>4. wk[x].cl \in Alive /\ cl[wk[x].cl].callParent = p /\ Holds(x, wk[x].cl)
    BY <1>1, <2>1, <2>2, <2>3, CarryWork DEF Duty, Alive
  <2>5. wk[x].cl = t
    BY <1>1, <1>2, <1>9, <2>4 DEF Parents
  <2> QED BY <1>4, <2>4, <2>5 DEF Free
<1>13. Links(o, t) = {} /\ dq[w] = <<>>
  BY <1>1, <1>2, <1>7, NoLinks, EmptyDeque
<1>14. busyLock[w] = w
  BY <1>0, <1>1 DEF Duty
<1>15. \A g : ~Taken(w, g)
  BY <1>1, <1>14, NotTaken
<1>16. Links(o, p) = {}
  BY <1>1, <1>9, <1>12 DEF Deques, Free, Holds
<1> QED
  BY <1>1, <1>2, <1>3, <1>4, <1>5, <1>7, <1>8, <1>9, <1>10, <1>11, <1>12, <1>13,
     <1>14, <1>15, <1>16

(* The first half of a return to a call parent keeps the invariant.        *)
LEMMA SetReturnSwapGood ==
    ASSUME NEW o, NEW rk, NEW n, Good(o, rk, n), NEW w \in Workers, SetReturnSwap(w)
    PROVE  Good(o, rk, n)'
<1>0. wk[w].pc = "set_return" /\ ~Helping(w)
  BY DEF SetReturnSwap, Helping
<1>a. /\ Types /\ Duties /\ Holding /\ Control /\ Deques(o) /\ Stacks(o) /\ Ghosts(o, rk)
      /\ Tops(o) /\ Bases(o) /\ Tree(rk, n) /\ Points /\ Positions(o) /\ Parents
  BY DEF Good, Control, Tree
<1>1. PICK t, p \in Closures : busy[w] = t /\ cl[t].callParent = p
  BY <1>0, Swapping
<1>b. PICK f \in Frames : wk[w].cur = f
  BY <1>0, Swapping
<1>c. Cur(w) = f
  BY <1>b DEF Cur
<1>2. /\ t \in Alive /\ t # Null /\ cl[t].status = "running"
      /\ cl[t].status # "invalid"
      /\ f \in stolen /\ f \notin unsynced /\ f # Root /\ prog.kind[f] # "expr"
      /\ ~HasHandler(f)
      /\ cl[t].frame = f /\ Only(o, t, f) /\ CalledFrom(o, p, f)
      /\ p # Null /\ p # t /\ cl[p].status = "suspended" /\ SpawnedBy(t) = {}
      /\ CalledBy(t) = {}
      /\ Free(w, t) /\ Free(w, p) /\ busyLock[w] = w
      /\ Links(o, t) = {} /\ Links(o, p) = {} /\ dq[w] = <<>> /\ \A g : ~Taken(w, g)
  BY <1>0, <1>1, <1>c, Swapping
<1>3. /\ Types' /\ UNCHANGED <<fvars, busyLock, dq>>
      /\ Node(t, cl[t].status, Null, cl[t].join, cl[t].callParent, cl[t].spawnParent,
              cl[t].leftSib, cl[t].rightSib, cl[t].rightMost)
      /\ \A c \in Closures : c # t => Kept(c)
      /\ busy' = [busy EXCEPT ![w] = p]
      /\ Moves(w, "set_return2", wk[w].cur, t, wk[w].vic, wk[w].frm, wk[w].why)
  BY <1>a, <1>1, <1>2, SetReturnSwapStep
<1>4. /\ Others(w) /\ wk'[w].pc = "set_return2" /\ wk'[w].cl = t /\ wk'[w].cur = f
      /\ UNCHANGED <<prog, at, home, stolen, unsynced, unw>> /\ Frames' = Frames
  BY <1>b, <1>3 DEF Moves, fvars, evars, Frames
<1>5. /\ busy'[w] = p /\ OthersBusy(w) /\ OthersDq(w) /\ OthersLocks(w)
      /\ dq'[w] = <<>>
      /\ busyLock'[w] = w
  BY <1>a, <1>2, <1>3, LocksKept DEF OthersBusy, OthersDq, Types, LockTypes
<1>6. /\ SameLinks /\ \A c \in Closures : /\ cl'[c].status = cl[c].status
                                          /\ cl'[c].callParent = cl[c].callParent /\ cl'[c].spawnParent = cl[c].spawnParent
                                          /\ cl'[c].frame = IF c = t THEN Null ELSE cl[c].frame
  BY <1>3 DEF SameLinks, Node, Kept
<1>7. /\ Alive' = Alive /\ Alive \subseteq Closures
      /\ (\A q : SpawnedBy(q)' = SpawnedBy(q) /\ CalledBy(q)' = CalledBy(q))
      /\ \A c \in Alive : Waiting(c)' <=> Waiting(c)
  BY <1>6, SameFamilies DEF Waiting, Alive
<1>8. Duties'
  <2>1. Duty(w)'
    BY <1>1, <1>2, <1>4, <1>5, <1>6 DEF Duty, Carrying, Idling, Locked
  <2> QED BY <1>a, <1>2, <1>4, <1>5, <1>6, <2>1, DutiesStep
<1>9. Holding'
  <2>1. \A c \in Closures : Holds(w, c)' => c \in {t, p}
    BY <1>4, <1>5 DEF Holds, Carries, Carrying
  <2>2. Held(w)'
    BY <1>2, <1>4, <1>5, <1>6 DEF Held, Carries, Carrying
  <2> QED BY <1>a, <1>2, <1>4, <1>5, <1>6, <2>1, <2>2, HoldingStep
<1>10. Tree(rk, n)'
  BY <1>a, <1>6, TreeKept
<1>11. \A c \in Alive, g \in Frames : SpawnedFrom(c, g) => SpawnedFrom(c, g)'
  <2> SUFFICES ASSUME NEW c \in Alive, NEW g \in Frames, SpawnedFrom(c, g)
               PROVE  SpawnedFrom(c, g)'
    OBVIOUS
  <2>1. cl[c].spawnParent \in Alive /\ cl[c].spawnParent # t
    BY <1>a, <1>2 DEF SpawnedFrom, Parents, SpawnedBy
  <2>2. /\ cl'[cl[c].spawnParent].frame = cl[cl[c].spawnParent].frame
        /\ cl'[c].spawnParent = cl[c].spawnParent
    BY <1>6, <1>7, <2>1
  <2> QED BY <1>4, <2>2 DEF SpawnedFrom
<1>12. Swapped(t)' /\ \A c : Swapped(c) => Swapped(c)'
  BY <1>0, <1>4 DEF Swapped, Others, Still
<1>13. Stacks(o)'
  <2>1. ASSUME NEW g \in Frames, o[g] # Null, Bottom(o, g) PROVE Bottom(o, g)'
    <3>1. o[g] \in Alive
      BY <1>a, <2>1 DEF Stacks, Owned
    <3>2. CASE o[g] = t
      BY <1>6, <1>12, <3>2 DEF Bottom
    <3>3. CASE o[g] # t
      BY <1>4, <1>6, <1>7, <1>11, <1>12, <2>1, <3>1, <3>3 DEF Bottom
    <3> QED BY <3>2, <3>3
  <2>2. \A g \in Frames : o[g] # Null => o[g] \in Alive'
    BY <1>a, <1>7 DEF Stacks, Owned
  <2> QED BY <1>a, <1>4, <2>1, <2>2, StacksKept
<1>14. \A c \in Alive' : Base(o, c)'
  <2> SUFFICES ASSUME NEW c \in Alive PROVE Base(o, c)'
    BY <1>7
  <2>1. CASE c = t
    BY <1>6, <1>12, <2>1 DEF Base
  <2>2. CASE c # t
    <3>1. cl[c].callParent # Null => cl[c].callParent \in Alive /\ cl[c].callParent # t
      BY <1>a, <1>2 DEF Parents, CalledBy, Alive
    <3>2. cl[c].callParent # Null => cl'[cl[c].callParent].frame = cl[cl[c].callParent].frame
      BY <1>6, <1>7, <3>1
    <3>3. Base(o, c) /\ c \in Closures /\ \A d : Same(o, o, d)
      BY <1>a, <1>7 DEF Bases, Same
    <3>4. /\ cl'[c].frame = cl[c].frame /\ cl'[c].callParent = cl[c].callParent
          /\ cl'[c].spawnParent = cl[c].spawnParent
      BY <1>6, <2>2, <3>3
    <3> QED BY <1>a, <1>4, <1>11, <1>12, <3>1, <3>2, <3>3, <3>4, BaseKept
  <2> QED BY <2>1, <2>2
<1>15. \A c \in Alive' : Waiting(c)' => Stopped(cl[c].frame)' /\ Only(o, c, cl[c].frame)'
  <2> SUFFICES ASSUME NEW c \in Alive, Waiting(c)
               PROVE  Stopped(cl[c].frame)' /\ Only(o, c, cl[c].frame)'
    BY <1>7
  <2>1. c # t
    BY <1>2 DEF Waiting
  <2>2. cl'[c].frame = cl[c].frame
    BY <1>6, <1>7, <2>1
  <2> QED BY <1>a, <1>4, <2>2, CalmWaiting
<1>16. Point(w)'
  <2>1. HasHandler(wk[w].cur)' <=> HasHandler(f)
    BY <1>4 DEF HasHandler
  <2> QED
    BY <1>2, <1>4, <2>1
       DEF Point, BeforeSync, AfterSync, Reducing, Resuming, Helping
<1>17. Points' /\ \A x \in Workers : x # w /\ Helping(x) => Helping(x)'
  BY <1>a, <1>2, <1>4, <1>5, <1>6, <1>15, <1>16, CalmPoints
<1>18. \A g \in stolen' : o[g] # Null => Stolen(o, g)'
  <2> SUFFICES ASSUME NEW g \in stolen, o[g] # Null PROVE Stolen(o, g)'
    BY <1>4
  <2>0. g \in Frames /\ Stolen(o, g) /\ o[g] \in Alive
    BY <1>a DEF Bases, Stacks, Owned, Types, FrameTypes
  <2>1. CASE o[g] = t
    <3>1. g = f
      BY <1>2, <2>0, <2>1 DEF Only
    <3> QED BY <1>4, <2>1, <3>1 DEF Stolen
  <2>2. CASE o[g] # t
    <3>1. cl'[o[g]].frame = cl[o[g]].frame
      BY <1>6, <1>7, <2>0, <2>2
    <3>2. ASSUME NEW x \in Workers, busy[x] = o[g], wk[x].cur = g, Helping(x)
          PROVE  busy'[x] = o[g] /\ wk'[x].cur = g /\ Helping(x)'
      BY <1>0, <1>4, <1>5, <1>17, <3>2 DEF Others, Still, OthersBusy
    <3>3. ASSUME NEW x \in Workers, wk[x].pc = "set_return2", wk[x].cl = o[g],
                 wk[x].cur = g
          PROVE  wk'[x].pc = "set_return2" /\ wk'[x].cl = o[g] /\ wk'[x].cur = g
      BY <1>0, <1>4, <3>3 DEF Others, Still
    <3> QED BY <2>0, <3>1, <3>2, <3>3 DEF Stolen
  <2> QED BY <2>1, <2>2
<1>19. Bases(o)'
  <2>1. ASSUME NEW g \in unsynced
        PROVE  g \in stolen /\ o[g] # Null /\ cl'[o[g]].frame = g
    <3>1. g \in stolen /\ g \in Frames /\ o[g] # Null /\ cl[o[g]].frame = g
      BY <1>a DEF Bases, Types, FrameTypes
    <3>2. o[g] # t /\ o[g] \in Closures
      BY <1>a, <1>2, <1>7, <3>1 DEF Only, Stacks, Owned
    <3> QED BY <1>6, <3>1, <3>2
  <2>2. ASSUME NEW c \in Alive, SpawnedBy(c) # {} PROVE Spawning(c)'
    <3>1. Spawning(c) /\ c # t
      BY <1>a, <1>2, <2>2 DEF Bases
    <3>2. Promoting(c) => Promoting(c)'
      BY <1>0, <1>4 DEF Promoting, Others, Still
    <3>3. cl'[c].frame = cl[c].frame
      BY <1>6, <1>7, <3>1
    <3> QED BY <1>4, <3>1, <3>2, <3>3 DEF Spawning
  <2> QED BY <1>4, <1>7, <1>14, <1>18, <2>1, <2>2 DEF Bases
<1>20. Top(o, w)'
  <2>1. CalledFrom(o, p, f)'
    <3>1. p \in Alive /\ cl'[p].frame = cl[p].frame /\ Same(o, o, p)
      BY <1>2, <1>6 DEF Alive, Same
    <3> QED BY <1>a, <1>2, <1>4, <1>11, <3>1, CalledFromKept
  <2>2. CalledFrom(o, busy[w], wk[w].cur)'
    BY <1>4, <1>5, <2>1
  <2>3. Only(o, wk[w].cl, wk[w].cur)' /\ cl'[t].frame = Null
    BY <1>2, <1>4, <1>6 DEF Only
  <2> QED BY <1>4, <2>2, <2>3 DEF Top, AtFrame, Executing
<1>21. Tops(o)'
  <2>1. \A c \in Closures : cl[c].status = "suspended" => c \in Alive'
    BY <1>7 DEF Alive
  <2>2. \A c \in Closures : Free(w, c) \/ cl'[c].frame = cl[c].frame
    BY <1>2, <1>6
  <2> QED BY <1>a, <1>4, <1>5, <1>7, <1>11, <1>15, <1>20, <2>1, <2>2, CalmTops
<1>22. Deques(o)'
  <2>1. \A x \in Workers, g \in Frames : Taken(x, g)' <=> Taken(x, g)
    <3>1. wk[w].pc # "promote" /\ wk'[w].pc # "promote"
      BY <1>0, <1>4
    <3> QED BY <1>4, <3>1, SamesTaken
  <2>2. Deque(o, w)'
    <3>1. \A g \in Frames : ~Taken(w, g)'
      BY <1>2, <2>1
    <3>2. \A c : Links(o, c)' = Links(o, c)
      BY <1>4 DEF Links, LinksTo, Inner
    <3>3. Links(o, busy[w])' = {}
      BY <1>2, <1>5, <3>2
    <3> QED BY <1>4, <1>5, <3>1, <3>3 DEF Deque, ToSet
  <2> QED BY <1>a, <1>1, <1>2, <1>4, <1>5, <2>1, <2>2, CalmDeques
<1>23. Positions(o)'
  BY <1>a, <1>4, PositionsKept
<1>24. Ghosts(o, rk)'
  BY <1>a, <1>4 DEF Ghosts
<1> QED
  BY <1>3, <1>8, <1>9, <1>10, <1>13, <1>17, <1>19, <1>21, <1>22, <1>23, <1>24
     DEF Good, Control

(***************************************************************************)
(* Steps that change the owner of a frame.                                 *)
(***************************************************************************)

(* What is known of the others' frames stays known when the step does not  *)
(* touch the frames on their stacks.                                       *)
LEMMA OthersPoints ==
    ASSUME Control, NEW o, Tops(o), Points, prog' = prog, stolen \subseteq stolen',
           NEW w \in Workers, Others(w),
           \A x \in Workers, f \in Frames : x # w /\ o[f] \in Closures /\ Holds(x, o[f]) =>
             at'[f] = at[f] /\ unw'[f] = unw[f] /\ (f \in unsynced' <=> f \in unsynced),
           \A x \in Workers : x # w /\ Helping(x) => cl'[busy'[x]].frame \in {Null, cl[busy[x]].frame},
           \A x \in Workers : x # w /\ Resuming(x) => cl'[wk[x].cl].frame = cl[wk[x].cl].frame
    PROVE  \A x \in Workers : x # w => Point(x)' /\ (Helping(x) => Helping(x)')
<1>0. Types /\ Duties /\ Holding
  BY DEF Control
<1> SUFFICES ASSUME NEW x \in Workers, x # w
             PROVE  Point(x)' /\ (Helping(x) => Helping(x)')
  OBVIOUS
<1>1. Still(x)
  BY DEF Others
<1>2. Point(x)'
  BY <1>0, <1>1, PointOfOther
<1>3. AtFrame(x) => at'[Cur(x)] = at[Cur(x)]
  BY <1>0, AtWork DEF Holds
<1> QED BY <1>0, <1>1, <1>2, <1>3, HelpingKept

(* One frame g becomes, or ceases to be, a frame of t.                     *)
Toggles(o, o2, t, g) ==
    /\ g \in Frames /\ \A f \in Frames : f # g => o2[f] = o[f]
    /\ (o[g] = Null /\ o2[g] = t) \/ (o[g] = t /\ o2[g] = Null)

(* Frame g is put on the stack of t, above f.                              *)
Grows(o, o2, t, f, g) ==
    /\ Toggles(o, o2, t, g) /\ o2[g] = t /\ TopOf(o, t, f)
    /\ g # Root /\ prog.parent[g] = f

(* The top g of the stack of t is taken off.                               *)
Shrinks(o, o2, t, g) == Toggles(o, o2, t, g) /\ o2[g] = Null /\ TopOf(o, t, g)

(* The stacks of other closures stay.                                      *)
LEMMA ToggleSame ==
    ASSUME Types, NEW o, NEW o2, NEW t \in Closures, NEW g, Toggles(o, o2, t, g),
           NEW c \in Closures, c # t
    PROVE  Same(o, o2, c)
  BY Nulls DEF Toggles, Same

(* A stack with one more frame is a chain, with the same bottom.           *)
LEMMA GrowsChain ==
    ASSUME Types, NEW o, NEW o2, NEW t \in Closures, NEW f, NEW g,
           Grows(o, o2, t, f, g), Chained(o)
    PROVE  /\ Chained(o2) /\ Inner(o2, g)
           /\ \A x \in Frames : o2[x] # Null /\ x # g => (Inner(o2, x) <=> Inner(o, x))
           /\ TopOf(o2, t, g)
<1>1. /\ g \in Frames /\ f \in Frames /\ o[f] = t
      /\ (\A x \in Frames : o[x] = t => x <= f) /\ t # Null
      /\ (\A x \in Frames : x # g => o2[x] = o[x]) /\ o2[g] = t /\ o[g] = Null
      /\ g # Root /\ prog.parent[g] = f
  BY Nulls DEF Grows, Toggles, TopOf
<1>2. /\ Frames \subseteq Nat /\ f < g /\ f # g
      /\ \A x \in Frames : x # Root => prog.parent[x] \in Frames /\ prog.parent[x] < x /\ prog.parent[x] # x
  <2>1. Frames \subseteq Nat /\ \A x \in Frames : x # Root => prog.parent[x] \in Frames /\ prog.parent[x] < x
    BY ProgramFrames DEF Types, FrameTypes
  <2>2. \A i, j \in Nat : i < j => i # j
    OBVIOUS
  <2>3. \A x \in Frames : x # Root => prog.parent[x] # x
    BY <2>1, <2>2
  <2> QED BY <1>1, <2>1, <2>3
<1>3. \A x \in Frames : o[x] = t => x < g
  <2> SUFFICES ASSUME NEW x \in Frames, o[x] = t PROVE x < g
    OBVIOUS
  <2>1. x <= f /\ x \in Nat /\ f \in Nat /\ g \in Nat
    BY <1>1, <1>2
  <2> QED BY <1>2, <2>1
<1>4. Inner(o2, g)
  BY <1>1, <1>2 DEF Inner
<1>5. ASSUME NEW x \in Frames, o2[x] # Null, x # g PROVE Inner(o2, x) <=> Inner(o, x)
  <2>1. CASE x = Root
    BY <2>1 DEF Inner
  <2>2. CASE x # Root /\ prog.parent[x] # g
    BY <1>1, <1>2, <1>5, <2>2 DEF Inner
  <2>3. CASE x # Root /\ prog.parent[x] = g
    <3>1. o2[x] = o[x] /\ o[x] # t
      <4>1. g < x /\ x \in Nat /\ g \in Nat
        BY <1>1, <1>2, <2>3
      <4>2. ~(x < g)
        BY <4>1
      <4> QED BY <1>1, <1>3, <1>5, <4>2
    <3> QED BY <1>1, <1>5, <2>3, <3>1 DEF Inner
  <2> QED BY <2>1, <2>2, <2>3
<1>6. Chained(o2)
  <2> SUFFICES ASSUME NEW x \in Frames, NEW y \in Frames, o2[x] # Null,
                      o2[x] = o2[y], x < y
               PROVE  o2[prog.parent[y]] = o2[y] /\ x <= prog.parent[y]
    BY DEF Chained
  <2>1. CASE y = g
    BY <1>1, <1>2, <2>1
  <2>2. CASE y # g /\ x = g
    <3>1. o[y] = t
      BY <1>1, <2>2
    <3>2. y < g /\ y \in Nat /\ g \in Nat
      BY <1>1, <1>2, <1>3, <3>1
    <3> QED BY <2>2, <3>2
  <2>3. CASE y # g /\ x # g
    <3>1. o[prog.parent[y]] = o[y] /\ x <= prog.parent[y] /\ o[y] # Null
      BY <1>1, <2>3 DEF Chained
    <3>2. y # Root /\ prog.parent[y] \in Frames
      <4>1. x \in Nat \ {0} /\ y \in Nat
        BY <1>2, ProgramFrames DEF Types, FrameTypes
      <4>2. y # Root
        BY <4>1 DEF Root
      <4> QED BY <1>2, <4>2
    <3>3. prog.parent[y] # g
      BY <1>1, <3>1
    <3> QED BY <1>1, <2>3, <3>1, <3>2, <3>3
  <2> QED BY <2>1, <2>2, <2>3
<1>7. TopOf(o2, t, g)
  <2> SUFFICES ASSUME NEW x \in Frames, o2[x] = t PROVE x <= g
    BY <1>1 DEF TopOf
  <2>1. x \in Nat /\ g \in Nat
    BY <1>1, <1>2
  <2>2. x = g \/ x < g
    BY <1>1, <1>3
  <2> QED BY <2>1, <2>2
<1> QED BY <1>4, <1>5, <1>6, <1>7

(* A stack with one frame less is a chain, with the same bottom.           *)
LEMMA ShrinksChain ==
    ASSUME Types, NEW o, NEW o2, NEW t \in Closures, NEW g, Shrinks(o, o2, t, g),
           Chained(o)
    PROVE  /\ Chained(o2)
           /\ \A x \in Frames : o2[x] # Null => x # g /\ (Inner(o2, x) <=> Inner(o, x))
<1>1. /\ g \in Frames /\ o[g] = t /\ (\A x \in Frames : o[x] = t => x <= g) /\ t # Null
      /\ (\A x \in Frames : x # g => o2[x] = o[x]) /\ o2[g] = Null
  BY Nulls DEF Shrinks, Toggles, TopOf
<1>2. /\ Frames \subseteq Nat
      /\ \A x \in Frames : x # Root => prog.parent[x] \in Frames /\ prog.parent[x] < x
  BY <1>1, ProgramFrames DEF Types, FrameTypes
<1>3. ASSUME NEW x \in Frames, o[x] = t, x # Root PROVE prog.parent[x] # g
  <2>1. /\ x <= g /\ x \in Nat /\ g \in Nat /\ prog.parent[x] < x
        /\ prog.parent[x] \in Nat
    BY <1>1, <1>2, <1>3
  <2> QED BY <2>1
<1>5. ASSUME NEW x \in Frames, o2[x] # Null
      PROVE  x # g /\ (Inner(o2, x) <=> Inner(o, x))
  <2>0. x # g /\ o2[x] = o[x]
    BY <1>1, <1>5
  <2>1. CASE x = Root
    BY <2>0, <2>1 DEF Inner
  <2>2. CASE x # Root /\ prog.parent[x] # g
    BY <1>1, <1>2, <1>5, <2>0, <2>2 DEF Inner
  <2>3. CASE x # Root /\ prog.parent[x] = g
    BY <1>1, <1>3, <1>5, <2>0, <2>3 DEF Inner
  <2> QED BY <2>0, <2>1, <2>2, <2>3
<1>6. Chained(o2)
  <2> SUFFICES ASSUME NEW x \in Frames, NEW y \in Frames, o2[x] # Null,
                      o2[x] = o2[y], x < y
               PROVE  o2[prog.parent[y]] = o2[y] /\ x <= prog.parent[y]
    BY DEF Chained
  <2>1. x # g /\ y # g /\ o2[x] = o[x] /\ o2[y] = o[y]
    BY <1>1
  <2>2. o[prog.parent[y]] = o[y] /\ x <= prog.parent[y] /\ o[y] # Null
    BY <2>1 DEF Chained
  <2>3. y # Root
    <3>1. x \in Nat \ {0} /\ y \in Nat
      BY <1>2, ProgramFrames DEF Types, FrameTypes
    <3> QED BY <3>1 DEF Root
  <2>4. prog.parent[y] \in Frames /\ prog.parent[y] # g
    BY <1>1, <1>2, <1>3, <2>2, <2>3
  <2> QED BY <1>1, <2>1, <2>2, <2>4
<1> QED BY <1>5, <1>6
=============================================================================
