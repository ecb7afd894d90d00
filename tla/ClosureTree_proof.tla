------------------------- MODULE ClosureTree_proof --------------------------
(***************************************************************************)
(* Proofs about ClosureTree, for any number of workers, closures and       *)
(* fibers, and any set of well-formed programs: the invariant of           *)
(* ClosureTreeSteps_proof is kept by every step, and implies that the tree *)
(* of closures stays consistent, that no frame is in two places at once,   *)
(* and that a frame passes a sync only when its children have returned.    *)
(*                                                                         *)
(* A steal splits the stack of a closure into three: the frames below the  *)
(* stolen one, that one, and those above it, which the victim goes on      *)
(* with. Returns put the pieces together again or leave them without       *)
(* frames. These are the steps that change the owner of a frame.           *)
(***************************************************************************)
EXTENDS ClosureTreeSteps_proof

(***************************************************************************)
(* Frames are put on the stack of the worker's closure and taken off.      *)
(***************************************************************************)

(* Worker w works on closure t.                                            *)
Works(w, t) == busy[w] = t /\ t \in Closures

(* A step that puts a frame on the worker's own stack or takes one off     *)
(* keeps the invariant, if what is said of that worker holds afterwards.   *)
LEMMA StackStep ==
    ASSUME NEW o, NEW rk, NEW n, Good(o, rk, n), Types', NEW w \in Workers,
           AtFrame(w), NEW t, Works(w, t),
           NEW o2 \in [Frames -> Closures \cup {Null}], SameTree,
           UNCHANGED <<prog, stolen, unsynced, busy, busyLock>>,
           Others(w), OthersDq(w), wk'[w].pc \in {"user", "unwind"},
           NEW f, NEW g, Grows(o, o2, t, f, g) \/ Shrinks(o, o2, t, g),
           \A x \in Frames : home'[x] # Null => o2[x] # Null,
           Helping(w) => wk[w].cur = g /\ o2[g] = Null,
           cl[t].frame # g, o2[g] # Null => g \notin stolen,
           \A x \in Frames : o[x] # t => at'[x] = at[x] /\ unw'[x] = unw[x],
           TopOf(o2, t, wk'[w].cur), Deque(o2, w)', Positions(o2)', Point(w)'
    PROVE  Good(o2, rk, n)'
<1>0. /\ Types /\ Duties /\ Holding /\ Control /\ Deques(o) /\ Stacks(o)
      /\ Ghosts(o, rk)
      /\ Tops(o) /\ Bases(o) /\ Tree(rk, n) /\ Points /\ Parents /\ Chained(o)
      /\ Owned(o) /\ Bottoms(o)
  BY DEF Good, Control, Tree, Stacks
<1>1. /\ t \in Closures /\ busy[w] = t /\ t # Null /\ cl[t].status = "running"
      /\ t \in Alive
      /\ wk[w].pc # "set_return2" /\ wk[w].pc \notin Carrying
  BY <1>0, AtWork, Nulls DEF Works, Alive
<1>2. /\ SameFrames /\ SameLinks /\ Alive' = Alive
      /\ (\A c \in Closures : cl'[c].status = cl[c].status /\ cl'[c].frame = cl[c].frame
                              /\ cl'[c].callParent = cl[c].callParent)
      /\ (\A p : SpawnedBy(p)' = SpawnedBy(p) /\ CalledBy(p)' = CalledBy(p))
      /\ \A c \in Alive : Waiting(c)' <=> Waiting(c)
  BY SameTreeFrames
<1>3. /\ Toggles(o, o2, t, g) /\ g \in Frames /\ Frames' = Frames
      /\ Alive \subseteq Closures
      /\ \A x \in Frames : x # g => o2[x] = o[x]
  BY DEF Grows, Shrinks, Toggles, Frames, Alive
<1>4. \A c \in Closures : c # t => Same(o, o2, c)
  BY <1>0, <1>1, <1>3, ToggleSame
<1>5. /\ Chained(o2)
      /\ \A x \in Frames : o2[x] # Null /\ ~Inner(o2, x) => x # g /\ ~Inner(o, x)
      /\ \A x \in Frames : o2[x] # Null /\ x # g => (Inner(o2, x) <=> Inner(o, x))
  <2>1. CASE Grows(o, o2, t, f, g)
    BY <1>0, <1>1, <2>1, GrowsChain
  <2>2. CASE Shrinks(o, o2, t, g)
    BY <1>0, <1>1, <2>2, ShrinksChain
  <2> QED BY <2>1, <2>2
<1>6. \A x : Inner(o2, x)' <=> Inner(o2, x)
  BY DEF Inner
<1>7. \A c : Swapped(c)' <=> Swapped(c)
  BY <1>1 DEF Swapped, Others, Still
<1>8. \A c \in Closures, x \in Frames : SpawnedFrom(c, x) => SpawnedFrom(c, x)'
  <2> SUFFICES ASSUME NEW c \in Closures, NEW x \in Frames, SpawnedFrom(c, x)
               PROVE  SpawnedFrom(c, x)'
    OBVIOUS
  <2>1. cl'[c].spawnParent = cl[c].spawnParent /\ cl[c].spawnParent \in Closures
    BY <1>0, <1>2 DEF SpawnedFrom, SameLinks, Types, ClosureTypes, ClosureOK
  <2> QED BY <1>2, <2>1 DEF SpawnedFrom
<1>9. OthersBusy(w) /\ OthersLocks(w) /\ busyLock' = busyLock /\ busy' = busy
      /\ (wk'[w].pc \notin Carrying /\ wk'[w].pc \notin Idling /\ wk'[w].pc \notin Locked)
      /\ wk'[w].pc \notin {"synced", "set_return2", "promote", "unbusy", "finish", "peek", "reduce", "handler"}
      /\ wk[w].pc \notin {"promote", "unbusy", "finish"} /\ AtFrame(w)' /\ wk[w].pc \notin Idling
  <2>1. OthersBusy(w) /\ OthersLocks(w)
    BY <1>0, LocksKept DEF OthersBusy
  <2> QED BY <2>1 DEF Carrying, Idling, Locked, AtFrame, Executing
<1>10. Duties'
  <2>1. Duty(w)'
    BY <1>1, <1>9 DEF Duty
  <2> QED BY <1>0, <1>2, <1>9, <2>1, DutiesStep
<1>11. Holding'
  <2>1. \A c \in Closures : Holds(w, c)' => Holds(w, c)
    BY <1>9 DEF Holds, Carries
  <2>2. Held(w)'
    BY <1>1, <1>2, <1>9 DEF Held, Carries
  <2>3. \A c \in Closures : Holds(w, c)' => Free(w, c)
    BY <1>0, <2>1, FreeOfOthers
  <2> QED BY <1>0, <1>2, <1>9, <2>2, <2>3, HoldingStep
<1>12. Tree(rk, n)'
  BY <1>0, <1>2, TreeKept
<1>13. Stacks(o2)'
  <2>1. ASSUME NEW x \in Frames, o2[x] # Null PROVE o2[x] \in Alive'
    <3>1. CASE x = g
      BY <1>1, <1>2, <1>3, <2>1, <3>1 DEF Toggles
    <3>2. CASE x # g
      BY <1>0, <1>2, <1>3, <2>1, <3>2 DEF Owned
    <3> QED BY <3>1, <3>2
  <2>2. ASSUME NEW x \in Frames, o2[x] # Null, ~Inner(o2, x) PROVE Bottom(o2, x)'
    <3>1. x # g /\ o2[x] = o[x] /\ Bottom(o, x) /\ o[x] \in Closures
      BY <1>0, <1>3, <1>5, <2>2 DEF Bottoms, Owned
    <3> QED BY <1>2, <1>7, <1>8, <3>1 DEF Bottom
  <2>3. Chained(o2)'
    BY <1>3, <1>5 DEF Chained
  <2>4. Owned(o2)'
    BY <1>3, <2>1 DEF Owned
  <2> QED BY <1>3, <1>6, <2>2, <2>3, <2>4 DEF Stacks, Bottoms
<1>14. ASSUME NEW c \in Alive, cl[c].callParent # Null
       PROVE  cl[c].callParent \in Closures /\ cl[c].callParent # t
  BY <1>0, <1>1, <1>14 DEF Parents
<1>15. \A c \in Alive' : Base(o2, c)'
  <2> SUFFICES ASSUME NEW c \in Alive PROVE Base(o2, c)'
    BY <1>2
  <2>0. /\ Base(o, c) /\ c \in Closures /\ cl'[c].frame = cl[c].frame
        /\ cl'[c].callParent = cl[c].callParent
        /\ cl'[c].spawnParent = cl[c].spawnParent
    BY <1>0, <1>2, <1>3 DEF Bases, SameLinks
  <2>1. CASE c # t
    BY <1>0, <1>2, <1>4, <1>7, <1>8, <1>14, <2>0, <2>1, BaseKept
  <2>2. CASE c = t
    <3>1. CASE cl[t].frame = Null
      BY <1>7, <2>0, <2>2, <3>1 DEF Base
    <3>2. CASE cl[t].frame # Null
      <4>0. PICK x \in Frames : cl[t].frame = x
        BY <1>0, <1>1, <3>2 DEF Types, ClosureTypes, ClosureOK
      <4>1. Based(o, t, x) /\ x # g
        BY <2>0, <2>2, <3>2, <4>0 DEF Base
      <4>2. o2[x] = t /\ ~Inner(o2, x) /\ x \in stolen
        BY <1>1, <1>3, <1>5, <4>1 DEF Based
      <4>3. x # Root /\ prog.kind[x] # "expr" => CalledFrom(o2, cl[t].callParent, x)'
        <5> SUFFICES ASSUME x # Root, prog.kind[x] # "expr"
                     PROVE  CalledFrom(o2, cl[t].callParent, x)'
          OBVIOUS
        <5>1. CalledFrom(o, cl[t].callParent, x)
          BY <4>1 DEF Based
        <5>2. PICK p : cl[t].callParent = p
          OBVIOUS
        <5>3. p \in Closures /\ p # t /\ CalledFrom(o, p, x)
          BY <1>1, <1>14, <5>1, <5>2 DEF CalledFrom
        <5>4. CalledFrom(o2, p, x)'
          BY <1>0, <1>2, <1>4, <1>8, <5>3, CalledFromKept
        <5> QED BY <2>0, <2>2, <5>2, <5>4
      <4>4. Based(o2, t, x)'
        BY <1>1, <1>6, <1>8, <2>0, <2>2, <4>1, <4>2, <4>3 DEF Based
      <4> QED BY <2>0, <2>2, <3>2, <4>0, <4>4 DEF Base
    <3> QED BY <3>1, <3>2
  <2> QED BY <2>1, <2>2
<1>16. (\A x \in Workers : x # w => Point(x)' /\ (Helping(x) => Helping(x)'))
  <2>1. ASSUME NEW x \in Workers, NEW y \in Frames, x # w, o[y] \in Closures,
               Holds(x, o[y])
        PROVE  at'[y] = at[y] /\ unw'[y] = unw[y]
    <3>1. o[y] # t
      BY <1>0, <1>1, <2>1 DEF Holding, Unique, Holds
    <3> QED BY <3>1
  <2>2. ASSUME NEW x \in Workers, x # w, Helping(x)
        PROVE  cl'[busy'[x]].frame = cl[busy[x]].frame
    <3>1. AtFrame(x)
      BY <2>2 DEF Helping, AtFrame, Executing
    <3>2. busy[x] \in Closures
      BY <1>0, <3>1, AtWork
    <3> QED BY <1>2, <1>9, <3>2
  <2>3. ASSUME NEW x \in Workers, x # w, Resuming(x)
        PROVE  cl'[wk[x].cl].frame = cl[wk[x].cl].frame
    <3>1. wk[x].cl \in Closures
      BY <1>0, <2>3, CarryWork DEF Resuming, Carrying
    <3> QED BY <1>2, <3>1
  <2> QED BY <1>0, <2>1, <2>2, <2>3, OthersPoints
<1>17. \A x \in stolen' : o2[x] # Null => Stolen(o2, x)'
  <2> SUFFICES ASSUME NEW x \in stolen, o2[x] # Null PROVE Stolen(o2, x)'
    OBVIOUS
  <2>1. x \in Frames /\ x # g /\ o2[x] = o[x] /\ o[x] \in Closures /\ Stolen(o, x)
    BY <1>0, <1>3 DEF Types, FrameTypes, Bases, Owned
  <2>2. CASE cl[o[x]].frame = x
    BY <1>2, <2>1, <2>2 DEF Stolen
  <2>3. CASE \E y \in Workers : wk[y].pc = "set_return2" /\ wk[y].cl = o[x] /\ wk[y].cur = x
    BY <1>1, <2>1, <2>3 DEF Stolen, Others, Still
  <2>4. CASE \E y \in Workers : busy[y] = o[x] /\ wk[y].cur = x /\ Helping(y)
    <3>1. PICK y \in Workers : busy[y] = o[x] /\ wk[y].cur = x /\ Helping(y)
      BY <2>4
    <3>2. y # w
      BY <2>1, <3>1
    <3>3. Helping(y)' /\ wk'[y].cur = x /\ busy'[y] = o2[x]
      BY <1>9, <1>16, <2>1, <3>1, <3>2 DEF Others, Still
    <3> QED BY <3>3 DEF Stolen
  <2> QED BY <2>1, <2>2, <2>3, <2>4 DEF Stolen
<1>18. Bases(o2)'
  <2>1. \A x \in unsynced' : x \in stolen' /\ o2[x] # Null /\ cl'[o2[x]].frame = x
    <3> SUFFICES ASSUME NEW x \in unsynced
                 PROVE  x \in stolen /\ o2[x] # Null /\ cl'[o2[x]].frame = x
      OBVIOUS
    <3>1. x \in stolen /\ x \in Frames /\ o[x] # Null /\ cl[o[x]].frame = x
      BY <1>0 DEF Bases, Types, FrameTypes
    <3>2. x # g /\ o[x] \in Closures
      BY <1>0, <1>3, <3>1 DEF Toggles, Owned
    <3> QED BY <1>2, <1>3, <3>1, <3>2
  <2>2. \A c \in Alive' : SpawnedBy(c)' # {} => Spawning(c)'
    BY <1>0, <1>2, <1>9, SpawningKept
  <2> QED BY <1>15, <1>17, <2>1, <2>2 DEF Bases
<1>19. ASSUME NEW c \in Alive', Waiting(c)'
       PROVE  Only(o2, c, cl[c].frame)' /\ Stopped(cl[c].frame)'
  <2>1. /\ c \in Alive /\ Waiting(c) /\ c # t /\ c \in Closures
        /\ cl'[c].frame = cl[c].frame
    BY <1>1, <1>2, <1>3, <1>19 DEF Waiting
  <2>2. Only(o, c, cl[c].frame) /\ Stopped(cl[c].frame)
    BY <1>0, <2>1 DEF Tops, Points
  <2>3. cl[c].frame \in Frames /\ o[cl[c].frame] # t
    BY <2>1, <2>2 DEF Only
  <2>4. Only(o2, c, cl[c].frame)'
    BY <1>0, <1>4, <2>1, <2>2, StackSame
  <2> QED BY <2>1, <2>2, <2>3, <2>4 DEF Stopped, Code
<1>20. Tops(o2)'
  <2>1. Top(o2, w)'
    BY <1>1, <1>3, <1>9 DEF Top, TopOf
  <2>2. ASSUME NEW x \in Workers, x # w PROVE Top(o2, x)'
    <3>1. \A c \in Closures : Holds(x, c) => Same(o, o2, c) /\ cl'[c].frame = cl[c].frame
      BY <1>0, <1>1, <1>2, <1>4, <2>2 DEF Holding, Unique, Holds
    <3>2. wk[x].pc = "set_return2" => busy[x] \in Closures
      <4>1. Duty(x) /\ busy[x] \in Closures \cup {Null}
        BY <1>0 DEF Duties, Types, LockTypes
      <4> QED BY <4>1 DEF Duty, Idling
    <3>3. Still(x) /\ busy'[x] = busy[x]
      BY <1>9, <2>2 DEF Others
    <3> QED BY <1>0, <1>8, <2>2, <3>1, <3>2, <3>3, TopOfOther
  <2> QED BY <1>19, <2>1, <2>2 DEF Tops
<1>21. Deques(o2)'
  <2>1. \A x \in Workers, y \in Frames : Taken(x, y)' <=> Taken(x, y)
    BY <1>9, SamesTaken
  <2>2. ASSUME NEW x \in Workers, x # w PROVE Deque(o2, x)'
    <3>1. busy[x] # Null => busy[x] \in Closures /\ busy[x] # t
      BY <1>0, <1>1, <2>2 DEF Holding, Unique, Holds, Types, LockTypes
    <3>2. busy'[x] = busy[x] /\ dq'[x] = dq[x]
      BY <1>9, <2>2 DEF OthersDq
    <3> QED BY <1>0, <1>4, <2>1, <3>1, <3>2, DequeOfOther
  <2>3. ASSUME NEW c \in Closures, \A x \in Workers : busy'[x] # c
        PROVE  Links(o2, c)' = {}
    <3>1. c # t /\ Links(o, c) = {}
      BY <1>0, <1>1, <1>9, <2>3 DEF Deques
    <3> QED BY <1>0, <1>4, <3>1, StackSame
  <2> QED BY <2>2, <2>3 DEF Deques
<1>22. Points'
  BY <1>16, <1>19 DEF Points
<1>23. Ghosts(o2, rk)'
  BY <1>0, <1>3 DEF Ghosts
<1> QED
  BY <1>10, <1>11, <1>12, <1>13, <1>18, <1>20, <1>21, <1>22, <1>23
     DEF Good, Control

(* A frame that has spawned what is above it is below the top.             *)
LEMMA LinksBelow ==
    ASSUME Types, NEW o, NEW t \in Closures, NEW f, TopOf(o, t, f),
           NEW x \in Links(o, t)
    PROVE  x \in Frames /\ f \in Frames /\ o[x] = t /\ x < f
<1>1. PICK h \in Frames : o[h] = t /\ Inner(o, h) /\ prog.parent[h] = x
  BY DEF Links, LinksTo
<1>2. h # Root /\ o[x] = t /\ x \in Frames /\ f \in Frames /\ h <= f
  BY <1>1 DEF Inner, TopOf, Links
<1>3. x < h /\ x \in Nat /\ h \in Nat /\ f \in Nat
  BY <1>1, <1>2, ProgramFrames DEF Types, FrameTypes
<1>4. x < f
  BY <1>2, <1>3
<1> QED BY <1>2, <1>4

(* With one more frame on the stack, its parent has left its continuation, *)
(* if it was spawned.                                                      *)
LEMMA GrowsLinks ==
    ASSUME Types, NEW o, NEW o2, NEW t \in Closures, NEW f, NEW g,
           Grows(o, o2, t, f, g), Chained(o)
    PROVE  /\ \A x \in Links(o2, t) : x \in Links(o, t) \/ (x = f /\ prog.kind[g] # "call")
           /\ \A x \in Links(o, t) : x \in Links(o2, t)
           /\ prog.kind[g] # "call" => f \in Links(o2, t)
<1>1. /\ g \in Frames /\ f \in Frames /\ o2[g] = t /\ o[g] = Null /\ t # Null
      /\ prog.parent[g] = f
      /\ \A x \in Frames : x # g => o2[x] = o[x]
  BY Nulls DEF Grows, Toggles, TopOf
<1>2. Inner(o2, g) /\ \A x \in Frames : o2[x] # Null /\ x # g => (Inner(o2, x) <=> Inner(o, x))
  BY GrowsChain
<1>3. ASSUME NEW x, NEW h \in Frames
      PROVE  LinksTo(o2, t, x, h) <=> LinksTo(o, t, x, h) \/ (h = g /\ x = f /\ prog.kind[g] # "call")
  <2>1. CASE h = g
    BY <1>1, <1>2, <2>1 DEF LinksTo
  <2>2. CASE h # g
    BY <1>1, <1>2, <2>2 DEF LinksTo
  <2> QED BY <2>1, <2>2
<1>4. \A x : x \in Links(o2, t) <=> x \in Frames /\ \E h \in Frames : LinksTo(o2, t, x, h)
  BY DEF Links
<1>5. \A x : x \in Links(o, t) <=> x \in Frames /\ \E h \in Frames : LinksTo(o, t, x, h)
  BY DEF Links
<1> QED BY <1>1, <1>3, <1>4, <1>5

(* With one frame less on the stack, its parent is no more among those     *)
(* that have left a continuation.                                          *)
LEMMA ShrinksLinks ==
    ASSUME Types, NEW o, NEW o2, NEW t \in Closures, NEW g, Shrinks(o, o2, t, g),
           Chained(o)
    PROVE  /\ \A x \in Links(o, t) :
                x \in Links(o2, t) \/ (x = prog.parent[g] /\ Inner(o, g) /\ prog.kind[g] # "call")
           /\ \A x \in Links(o2, t) : x \in Links(o, t)
           /\ Inner(o, g) /\ prog.kind[g] # "call" => prog.parent[g] \in Links(o, t)
           /\ Inner(o, g) => prog.parent[g] \notin Links(o2, t) /\ TopOf(o2, t, prog.parent[g])
<1>1. /\ g \in Frames /\ o2[g] = Null /\ o[g] = t /\ t # Null
      /\ (\A x \in Frames : o[x] = t => x <= g)
      /\ \A x \in Frames : x # g => o2[x] = o[x]
  BY Nulls DEF Shrinks, Toggles, TopOf
<1>2. \A x \in Frames : o2[x] # Null => x # g /\ (Inner(o2, x) <=> Inner(o, x))
  BY ShrinksChain
<1>3. ASSUME NEW x, NEW h \in Frames
      PROVE  LinksTo(o, t, x, h) <=> LinksTo(o2, t, x, h) \/ (h = g /\ x = prog.parent[g] /\ Inner(o, g) /\ prog.kind[g] # "call")
  <2>1. CASE h = g
    BY <1>1, <1>2, <2>1 DEF LinksTo
  <2>2. CASE h # g
    BY <1>1, <1>2, <2>2 DEF LinksTo
  <2> QED BY <2>1, <2>2
<1>4. \A x : x \in Links(o2, t) <=> x \in Frames /\ \E h \in Frames : LinksTo(o2, t, x, h)
  BY DEF Links
<1>5. \A x : x \in Links(o, t) <=> x \in Frames /\ \E h \in Frames : LinksTo(o, t, x, h)
  BY DEF Links
<1>6. /\ Frames \subseteq Nat
      /\ \A x \in Frames : x # Root => prog.parent[x] \in Frames /\ prog.parent[x] < x
  BY ProgramFrames DEF Types, FrameTypes
<1>7. ASSUME Inner(o, g)
      PROVE  prog.parent[g] \notin Links(o2, t) /\ TopOf(o2, t, prog.parent[g])
  <2>1. /\ g # Root /\ prog.parent[g] \in Frames /\ prog.parent[g] # g
        /\ o2[prog.parent[g]] = t
    <3>1. g # Root /\ o[prog.parent[g]] = t
      BY <1>1, <1>7 DEF Inner
    <3>2. /\ prog.parent[g] \in Frames /\ prog.parent[g] < g /\ g \in Nat
          /\ prog.parent[g] \in Nat
      BY <1>1, <1>6, <3>1
    <3>3. prog.parent[g] # g
      BY <3>2
    <3> QED BY <1>1, <3>1, <3>2, <3>3
  <2>2. ASSUME NEW x \in Frames, o2[x] = t PROVE x <= prog.parent[g]
    <3>1. x # g /\ o[x] = t /\ x <= g /\ x \in Nat /\ g \in Nat
      BY <1>1, <1>6, <2>2
    <3>2. x < g
      BY <3>1
    <3> QED BY <1>1, <3>1, <3>2 DEF Chained
  <2>3. TopOf(o2, t, prog.parent[g])
    BY <2>1, <2>2 DEF TopOf
  <2>4. prog.parent[g] \notin Links(o2, t)
    <3> SUFFICES ASSUME prog.parent[g] \in Links(o2, t) PROVE FALSE
      OBVIOUS
    <3>1. prog.parent[g] < prog.parent[g] /\ prog.parent[g] \in Nat
      BY <1>6, <2>1, <2>3, LinksBelow
    <3> QED BY <3>1
  <2> QED BY <2>3, <2>4
<1>8. Inner(o, g) => prog.parent[g] \in Frames
  BY <1>1, <1>6 DEF Inner
<1> QED BY <1>1, <1>3, <1>4, <1>5, <1>7, <1>8

(* What Append does to an ascending sequence.                              *)
LEMMA AppendFacts ==
    ASSUME NEW S, S \subseteq Nat, NEW s \in Seq(S), NEW e \in S, Ascending(s),
           \A x \in ToSet(s) : x < e
    PROVE  /\ ToSet(Append(s, e)) = ToSet(s) \cup {e}
           /\ Ascending(Append(s, e))
<1>1. /\ DOMAIN s = 1 .. Len(s) /\ Len(s) \in Nat /\ Append(s, e) \in Seq(S)
      /\ DOMAIN Append(s, e) = 1 .. Len(s) + 1 /\ Append(s, e)[Len(s) + 1] = e
      /\ \A i \in 1 .. Len(s) : Append(s, e)[i] = s[i]
  OBVIOUS
<1>2. \A i \in 1 .. Len(s) + 1 : i = Len(s) + 1 \/ i \in 1 .. Len(s)
  BY <1>1
<1>3. 1 .. Len(s) \subseteq 1 .. Len(s) + 1 /\ Len(s) + 1 \in 1 .. Len(s) + 1
  BY <1>1
<1>4. \A f : f \in ToSet(Append(s, e)) <=> f = e \/ f \in ToSet(s)
  BY <1>1, <1>2, <1>3 DEF ToSet
<1>5. Ascending(Append(s, e))
  <2> SUFFICES ASSUME NEW i \in 1 .. Len(s) + 1, NEW j \in 1 .. Len(s) + 1, i < j
               PROVE  Append(s, e)[i] < Append(s, e)[j]
    BY <1>1 DEF Ascending
  <2>1. i \in 1 .. Len(s)
    BY <1>1
  <2>2. CASE j = Len(s) + 1
    <3>1. s[i] \in ToSet(s)
      BY <1>1, <2>1 DEF ToSet
    <3> QED BY <1>1, <2>1, <2>2, <3>1
  <2>3. CASE j \in 1 .. Len(s)
    BY <1>1, <2>1, <2>3 DEF Ascending
  <2> QED BY <1>2, <2>2, <2>3
<1> QED BY <1>4, <1>5

(* The front and the last element of an ascending sequence.                *)
LEMMA FrontFacts ==
    ASSUME NEW S, S \subseteq Nat, NEW s \in Seq(S), s # <<>>, Ascending(s)
    PROVE  /\ Last(s) \in S /\ Front(s) \in Seq(S)
           /\ ToSet(s) = ToSet(Front(s)) \cup {Last(s)}
           /\ \A f \in ToSet(Front(s)) : f < Last(s)
           /\ Ascending(Front(s))
<1>1. /\ DOMAIN s = 1 .. Len(s) /\ Len(s) \in Nat \ {0} /\ \A i \in 1 .. Len(s) : s[i] \in S
  OBVIOUS
<1>2. PICK k \in Nat : Len(s) - 1 = k /\ Len(s) = k + 1
  <2>1. \A m \in Nat \ {0} : \E k \in Nat : m = k + 1
    <3> SUFFICES ASSUME NEW m \in Nat \ {0} PROVE \E k \in Nat : m = k + 1
      OBVIOUS
    <3>1. m - 1 \in Nat /\ m = (m - 1) + 1
      OBVIOUS
    <3> QED BY <3>1
  <2>2. PICK k \in Nat : Len(s) = k + 1
    BY <1>1, <2>1
  <2> QED BY <2>2
<1>3. k + 1 \in 1 .. k + 1 /\ (1 .. k) \subseteq (1 .. k + 1)
      /\ (\A i \in 1 .. k + 1 : i = k + 1 \/ i \in 1 .. k) /\ \A i \in 1 .. k : i < k + 1
  OBVIOUS
<1>4. Front(s) = SubSeq(s, 1, k) /\ Last(s) = s[k + 1]
  BY <1>2 DEF Front, Last
<1>5. SubSeq(s, 1, k) \in Seq(S) /\ Len(SubSeq(s, 1, k)) = k /\ \A i \in 1 .. k : SubSeq(s, 1, k)[i] = s[i]
  <2>1. CASE k = 0
    BY <2>1
  <2>2. CASE 1 <= k
    BY <1>1, <1>2, <2>2
  <2> QED BY <2>1, <2>2
<1>6. Front(s) \in Seq(S) /\ DOMAIN Front(s) = 1 .. k /\ \A i \in 1 .. k : Front(s)[i] = s[i]
  BY <1>4, <1>5
<1>7. DOMAIN s = 1 .. k + 1
  BY <1>1, <1>2
<1>8. \A f : f \in ToSet(s) <=> f = Last(s) \/ f \in ToSet(Front(s))
  BY <1>3, <1>4, <1>6, <1>7 DEF ToSet
<1>9. \A f \in ToSet(Front(s)) : f < Last(s)
  BY <1>3, <1>4, <1>6, <1>7 DEF ToSet, Ascending
<1>10. Ascending(Front(s))
  BY <1>3, <1>6, <1>7 DEF Ascending
<1>11. Last(s) \in S
  BY <1>1, <1>2, <1>3, <1>4
<1> QED BY <1>6, <1>8, <1>9, <1>10, <1>11

(* A spawn or a call keeps the invariant: the new frame is put on the      *)
(* stack of the worker's closure, and the deque gets the continuation of a *)
(* spawner.                                                                *)
LEMMA EnterGood ==
    ASSUME NEW o, NEW rk, NEW n, Good(o, rk, n), NEW w \in Workers, Spawn(w) \/ Call(w)
    PROVE  \E o2 : Good(o2, rk, n)'
<1>0. /\ Types /\ Duties /\ Holding /\ Control /\ Deques(o) /\ Stacks(o)
      /\ Ghosts(o, rk)
      /\ Tops(o) /\ Bases(o) /\ Points /\ Positions(o) /\ Chained(o) /\ Owned(o)
  BY DEF Good, Control, Stacks
<1>1. /\ wk[w].pc = "user" /\ AtFrame(w) /\ ~Helping(w)
      /\ (Executes(w, "spawn") \/ Executes(w, "call"))
  BY DEF Spawn, Call, Executes, AtFrame, Executing, Helping
<1>2. PICK t \in Closures, f \in Frames : busy[w] = t /\ Cur(w) = f
  BY <1>0, <1>1, AtWork
<1>3. /\ TopOf(o, t, f) /\ t # Null /\ wk[w].cur = f
      /\ at[f] \in 1 .. Len(Code(f)) + 1 /\ Len(Code(f)) \in Nat
      /\ (f \in unsynced => SyncAhead(f))
  BY <1>0, <1>1, <1>2, Working, Nulls DEF Tops, Top, Cur
<1>4. PICK g \in Frames : Arg(w) = g
  BY <1>0, <1>1, <1>2, <1>3, ArgOfEntry
<1>5. /\ at[f] \in 1 .. Len(Code(f)) /\ Entered(f, at[f]) /\ g # Root
      /\ prog.parent[g] = f /\ f < g
      /\ (prog.kind[g] = "call" <=> Executes(w, "call")) /\ Code(f)[at[f]].arg = g
  BY <1>0, <1>1, <1>2, <1>3, <1>4, ArgOfEntry DEF Arg
<1>6. o[g] = Null /\ g \notin stolen
  <2>1. at[f] \in at[f] .. Len(Code(f))
    BY <1>3, <1>5
  <2> QED BY <1>0, <1>5, <2>1 DEF Positions, Ahead
<1>7. PICK o2 \in [Frames -> Closures \cup {Null}] : o2[g] = t /\ \A x \in Frames : x # g => o2[x] = o[x]
  <2>1. [o EXCEPT ![g] = t] \in [Frames -> Closures \cup {Null}]
    BY <1>0 DEF Ghosts
  <2>2. [o EXCEPT ![g] = t][g] = t /\ \A x \in Frames : x # g => [o EXCEPT ![g] = t][x] = o[x]
    BY <1>0 DEF Ghosts
  <2> QED BY <2>1, <2>2
<1>8. /\ Types' /\ SameTree
      /\ UNCHANGED <<prog, stolen, unsynced, unw, busy, busyLock>>
      /\ Moves(w, "user", g, wk[w].cl, wk[w].vic, wk[w].frm, wk[w].why)
      /\ at' = [at EXCEPT ![f] = @ + 1] /\ home' = [home EXCEPT ![g] = wk[w].fib]
      /\ Call(w) => dq' = dq
      /\ Spawn(w) => dq' = [dq EXCEPT ![w] = Append(@, f)]
  BY <1>0, <1>2, <1>4, SpawnStep, CallStep
<1>9. Others(w) /\ wk'[w].pc = "user" /\ wk'[w].cur = g
  BY <1>8 DEF Moves
<1>10. /\ at'[f] = at[f] + 1 /\ (\A x \in Frames : x # f => at'[x] = at[x])
       /\ Frames' = Frames
       /\ (\A x : Code(x)' = Code(x)) /\ (\A x \in Frames : x # g => home'[x] = home[x])
       /\ dq[w] \in Seq(Frames) /\ Frames \subseteq Nat /\ OthersDq(w)
       /\ (Call(w) => dq'[w] = dq[w]) /\ (Spawn(w) => dq'[w] = Append(dq[w], f))
  <2>1. Frames \subseteq Nat
    BY <1>0, ProgramFrames DEF Types, FrameTypes
  <2> QED
    BY <1>0, <1>8, <2>1 DEF Types, FrameTypes, LockTypes, Frames, Code, OthersDq
<1>11. Grows(o, o2, t, f, g)
  BY <1>2, <1>3, <1>4, <1>5, <1>6, <1>7 DEF Grows, Toggles
<1>12. TopOf(o2, t, g)
  BY <1>0, <1>2, <1>11, GrowsChain
<1>13. /\ \A x \in Links(o2, t) : x \in Links(o, t) \/ (x = f /\ prog.kind[g] # "call")
       /\ \A x \in Links(o, t) : x \in Links(o2, t)
       /\ prog.kind[g] # "call" => f \in Links(o2, t)
       /\ \A x \in Links(o, t) : x < f /\ x \in Frames
       /\ f \notin Links(o, t) /\ g \notin Links(o2, t)
  <2>1. /\ \A x \in Links(o2, t) : x \in Links(o, t) \/ (x = f /\ prog.kind[g] # "call")
        /\ \A x \in Links(o, t) : x \in Links(o2, t)
        /\ prog.kind[g] # "call" => f \in Links(o2, t)
    <3>1. Types /\ Chained(o) /\ t \in Closures /\ Grows(o, o2, t, f, g)
      BY <1>0, <1>2, <1>11
    <3> QED BY <3>1, GrowsLinks
  <2>2. \A x \in Links(o, t) : x < f /\ x \in Frames
    BY <1>0, <1>3, LinksBelow
  <2>3. \A x \in Links(o2, t) : x < g
    BY <1>0, <1>12, LinksBelow
  <2>4. f \in Nat /\ g \in Nat
    BY <1>10
  <2>5. ~(f < f) /\ ~(g < g)
    BY <2>4
  <2> QED BY <2>1, <2>2, <2>3, <2>5
<1>14. cl[t].frame # g
  <2>1. t \in Alive
    BY <1>0, <1>3 DEF TopOf, Owned
  <2> QED BY <1>0, <1>3, <1>4, <1>6, <2>1, Nulls DEF Bases, Base, Based
<1>15. Spawn(w) <=> prog.kind[g] # "call"
  BY <1>5 DEF Spawn, Call, Executes
<1>16. Spawn(w) => SyncAhead(f)'
  <2> SUFFICES ASSUME Spawn(w) PROVE SyncAhead(f)'
    OBVIOUS
  <2>1. Code(f)[at[f]].op = "spawn"
    BY <1>2 DEF Spawn, Executes
  <2>2. PICK j \in 1 .. Len(Code(f)) : j > at[f] /\ Code(f)[j].op = "sync"
    BY <1>0, <1>5, <2>1, ProgramSyncs DEF Types, FrameTypes
  <2>3. j \in at[f] + 1 .. Len(Code(f))
    BY <1>3, <1>5, <2>2
  <2> QED BY <1>10, <2>2, <2>3 DEF SyncAhead
<1>17. ASSUME NEW x \in Frames, SyncAhead(x) PROVE SyncAhead(x)'
  <2>1. CASE x # f
    BY <1>8, <1>10, <1>17, <2>1, SameAhead
  <2>2. CASE x = f
    <3>1. Code(f)[at[f]].op # "sync"
      BY <1>5 DEF Entered
    <3> QED BY <1>3, <1>5, <1>8, <1>10, <1>17, <2>2, <3>1, StepAhead
  <2> QED BY <2>1, <2>2
<1>18. Positions(o2)'
  <2>1. ASSUME NEW x \in Frames PROVE at'[x] \in 1 .. Len(Code(x)) + 1
    <3>1. CASE x # f
      BY <1>0, <1>10, <3>1 DEF Positions
    <3>2. CASE x = f
      BY <1>3, <1>5, <1>10, <3>2
    <3> QED BY <3>1, <3>2
  <2>2. ASSUME NEW x \in Frames, NEW i \in at'[x] .. Len(Code(x)), Entered(x, i)
        PROVE  o2[Code(x)[i].arg] = Null /\ Code(x)[i].arg \notin stolen
    <3>0. Len(Code(x)) \in Nat /\ at[x] \in 1 .. Len(Code(x)) + 1
      BY <1>0, ProgramFrames DEF Types, FrameTypes, Positions
    <3>1. i \in at[x] .. Len(Code(x)) /\ (x = f => i # at[f])
      <4>1. CASE x # f
        BY <1>10, <2>2, <4>1
      <4>2. CASE x = f
        BY <1>3, <1>10, <2>2, <4>2
      <4> QED BY <4>1, <4>2
    <3>2. i \in 1 .. Len(Code(x))
      BY <3>0, <3>1
    <3>3. o[Code(x)[i].arg] = Null /\ Code(x)[i].arg \notin stolen
      BY <1>0, <2>2, <3>1 DEF Positions, Ahead
    <3>4. /\ Code(x)[i].arg \in Frames /\ prog.parent[Code(x)[i].arg] = x
          /\ \A j \in 1 .. Len(Code(x)) : Entered(x, j) /\ Code(x)[j].arg = Code(x)[i].arg => j = i
      BY <1>0, <2>2, <3>2, ProgramEntries DEF Types, FrameTypes
    <3>5. Code(x)[i].arg # g
      BY <1>5, <3>1, <3>4
    <3> QED BY <1>7, <3>3, <3>4, <3>5
  <2>3. ASSUME NEW x \in Frames PROVE Ahead(o2, x)'
    <3>1. Code(x)' = Code(x) /\ stolen' = stolen
      BY <1>8, <1>10 DEF Code
    <3>2. \A i \in at'[x] .. Len(Code(x)) : Entered(x, i) =>
            o2[Code(x)[i].arg] = Null /\ Code(x)[i].arg \notin stolen
      BY <2>2
    <3> QED BY <3>1, <3>2 DEF Ahead, Entered
  <2>4. \A x \in unsynced' : SyncAhead(x)'
    BY <1>0, <1>8, <1>17 DEF Positions, Types, FrameTypes
  <2>5. ASSUME NEW x \in Frames, o2[x] # Null, x \in Links(o2, o2[x])'
        PROVE  SyncAhead(x)'
    <3>1. Links(o2, o2[x])' = Links(o2, o2[x])
      BY <1>8, <1>10 DEF Links, LinksTo, Inner
    <3>2. CASE o2[x] = t
      <4>1. x # g
        BY <1>13, <2>5, <3>1, <3>2
      <4>2. o[x] = t /\ (x \in Links(o, t) \/ (x = f /\ Spawn(w)))
        BY <1>7, <1>13, <1>15, <2>5, <3>1, <3>2, <4>1
      <4> QED BY <1>0, <1>3, <1>16, <1>17, <4>2 DEF Positions
    <3>3. CASE o2[x] # t
      <4>1. o2[x] = o[x] /\ o[x] \in Closures
        BY <1>7, <2>5, <3>3
      <4>2. Links(o2, o[x])' = Links(o, o[x])
        BY <1>0, <1>8, <1>11, <3>3, <4>1, ToggleSame, StackSame DEF Grows
      <4> QED BY <1>0, <1>17, <2>5, <4>1, <4>2 DEF Positions
    <3> QED BY <3>2, <3>3
  <2>6. \A x \in Workers : wk'[x].pc \in {"unbusy", "finish"} => SyncAhead(wk[x].frm)'
    <3> SUFFICES ASSUME NEW x \in Workers, wk'[x].pc \in {"unbusy", "finish"}
                 PROVE  SyncAhead(wk[x].frm)'
      OBVIOUS
    <3>1. x # w /\ wk[x].pc \in {"unbusy", "finish"} /\ wk'[x].frm = wk[x].frm
      BY <1>9 DEF Others, Still
    <3>2. PICK h : wk[x].frm = h
      OBVIOUS
    <3>3. SyncAhead(h) /\ h \in Frames
      <4>1. Top(o, x)
        BY <1>0 DEF Tops
      <4> QED BY <1>0, <3>1, <3>2, <4>1 DEF Positions, Top, Only
    <3> QED BY <1>17, <3>1, <3>2, <3>3
  <2> QED BY <1>8, <1>10, <2>1, <2>3, <2>4, <2>5, <2>6 DEF Positions
<1>19. Deque(o2, w)'
  <2>1. \A x \in Workers, y \in Frames : Taken(x, y)' <=> Taken(x, y)
    BY <1>1, <1>9, SamesTaken
  <2>2. Deque(o, w) /\ Ascending(dq[w])
    BY <1>0 DEF Deques, Deque, Ascending
  <2>3. busy'[w] = t /\ Links(o2, t)' = Links(o2, t)
    BY <1>2, <1>8, <1>10 DEF Links, LinksTo, Inner
  <2>4. CASE Call(w)
    BY <1>2, <1>3, <1>10, <1>13, <1>15, <2>1, <2>2, <2>3, <2>4
       DEF Deque, Spawn, Call, Executes
  <2>5. CASE Spawn(w)
    <3>1. \A x \in ToSet(dq[w]) : x < f
      <4>1. \A x \in ToSet(dq[w]) : x \in Frames
        BY <1>10 DEF ToSet
      <4> QED BY <1>2, <1>3, <1>13, <2>2, <4>1 DEF Deque
    <3>2. ToSet(dq'[w]) = ToSet(dq[w]) \cup {f} /\ Ascending(dq'[w])
      <4>1. /\ dq[w] \in Seq(Frames) /\ Frames \subseteq Nat /\ f \in Frames
            /\ dq'[w] = Append(dq[w], f)
            /\ Ascending(dq[w])
        BY <1>2, <1>10, <2>2, <2>5
      <4>2. /\ ToSet(Append(dq[w], f)) = ToSet(dq[w]) \cup {f}
            /\ Ascending(Append(dq[w], f))
        BY <3>1, <4>1, AppendFacts
      <4> QED BY <4>1, <4>2
    <3>3. \A x \in Frames : x \in Links(o2, t) <=> x \in ToSet(dq'[w]) \/ Taken(w, x)
      BY <1>2, <1>3, <1>13, <1>15, <2>2, <2>5, <3>2 DEF Deque
    <3>4. \A y \in Frames : Taken(w, y) => \A x \in ToSet(dq'[w]) : y < x
      BY <1>2, <1>3, <1>13, <2>2, <3>2 DEF Deque
    <3> QED BY <1>10, <2>1, <2>3, <3>2, <3>3, <3>4 DEF Deque, Ascending
  <2> QED BY <2>4, <2>5
<1>20. Point(w)'
  BY <1>9 DEF Point, BeforeSync, AfterSync, Reducing, Resuming, Helping
<1>21. \A x \in Frames : home'[x] # Null => o2[x] # Null
  BY <1>0, <1>3, <1>7, <1>10 DEF Owned
<1>22. \A x \in Frames : o[x] # t => at'[x] = at[x] /\ unw'[x] = unw[x]
  BY <1>3, <1>8, <1>10 DEF TopOf
<1>23. Good(o2, rk, n)'
  <2>1. Works(w, t)
    BY <1>2 DEF Works
  <2>2. wk'[w].pc \in {"user", "unwind"} /\ TopOf(o2, t, wk'[w].cur)
    BY <1>9, <1>12
  <2> QED
    BY <1>1, <1>6, <1>8, <1>9, <1>10, <1>11, <1>14, <1>18, <1>19, <1>20, <1>21,
       <1>22, <2>1, <2>2, StackStep
<1> QED BY <1>23

(* Positions stay when frames are only taken off stacks.                   *)
LEMMA PositionsLess ==
    ASSUME Types, NEW o, NEW o2, Positions(o),
           UNCHANGED <<prog, at, stolen, unsynced>>, NEW w \in Workers, Others(w),
           wk'[w].pc \notin {"unbusy", "finish"},
           \A x \in Frames : o2[x] = o[x] \/ o2[x] = Null,
           \A x \in Frames : o2[x] # Null /\ x \in Links(o2, o2[x])' => x \in Links(o, o2[x])
    PROVE  Positions(o2)'
<1>1. Frames' = Frames /\ (\A x : Code(x)' = Code(x)) /\ \A x : SyncAhead(x)' <=> SyncAhead(x)
  BY DEF Frames, Code, SyncAhead
<1>2. \A x \in Frames : at'[x] \in 1 .. Len(Code(x)') + 1 /\ Ahead(o2, x)'
  <2> SUFFICES ASSUME NEW x \in Frames
               PROVE  at[x] \in 1 .. Len(Code(x)) + 1 /\ Ahead(o2, x)'
    BY <1>1
  <2>1. at[x] \in 1 .. Len(Code(x)) + 1 /\ Ahead(o, x) /\ Len(Code(x)) \in Nat
    BY ProgramFrames DEF Positions, Types, FrameTypes
  <2>2. ASSUME NEW i \in at[x] .. Len(Code(x)), Entered(x, i)
        PROVE  o2[Code(x)[i].arg] = Null
    <3>1. i \in 1 .. Len(Code(x))
      BY <2>1
    <3>2. Code(x)[i].arg \in Frames
      BY <2>2, <3>1, ProgramEntries DEF Types, FrameTypes
    <3> QED BY <2>1, <2>2, <3>2 DEF Ahead
  <2> QED BY <1>1, <2>1, <2>2 DEF Ahead, Entered
<1>3. \A x \in unsynced' : SyncAhead(x)'
  BY <1>1 DEF Positions
<1>4. \A x \in Frames : o2[x] # Null /\ x \in Links(o2, o2[x])' => SyncAhead(x)'
  BY <1>1 DEF Positions
<1>5. \A x \in Workers : wk'[x].pc \in {"unbusy", "finish"} => SyncAhead(wk[x].frm)'
  <2> SUFFICES ASSUME NEW x \in Workers, wk'[x].pc \in {"unbusy", "finish"}
               PROVE  SyncAhead(wk[x].frm)'
    OBVIOUS
  <2>1. wk[x].pc \in {"unbusy", "finish"} /\ wk'[x].frm = wk[x].frm
    BY DEF Others, Still
  <2>2. PICK h : wk[x].frm = h
    OBVIOUS
  <2>3. SyncAhead(h)'
    BY <1>1, <2>1, <2>2 DEF Positions
  <2> QED BY <2>1, <2>2, <2>3
<1> QED BY <1>1, <1>2, <1>3, <1>4, <1>5 DEF Positions

(* A return from a call, or from a spawned frame to a parent that is still *)
(* in the deque, keeps the invariant: the frame is taken off the stack.    *)
LEMMA PopGood ==
    ASSUME NEW o, NEW rk, NEW n, Good(o, rk, n), NEW w \in Workers,
           (LeaveFrame(w) /\ prog.kind[Cur(w)] = "call") \/ PopParent(w)
    PROVE  \E o2 : Good(o2, rk, n)'
<1>0. /\ Types /\ Duties /\ Holding /\ Control /\ Deques(o) /\ Stacks(o)
      /\ Ghosts(o, rk)
      /\ Tops(o) /\ Bases(o) /\ Points /\ Positions(o) /\ Chained(o) /\ Owned(o)
      /\ Bottoms(o)
  BY DEF Good, Control, Stacks
<1>1. /\ AtFrame(w) /\ wk[w].pc \notin {"promote", "unbusy", "finish"} /\ Cur(w) # Root
      /\ (LeaveFrame(w) => ~Helping(w)) /\ (PopParent(w) => Helping(w))
  <2>1. CASE LeaveFrame(w)
    <3>1. Leaving(w)
      BY <2>1 DEF LeaveFrame
    <3>2. wk[w].pc \in {"user", "leave"} /\ AtFrame(w) /\ Cur(w) # Root /\ ~Helping(w)
      BY <3>1, LeavingFacts
    <3> QED BY <3>2 DEF PopParent
  <2>2. CASE PopParent(w)
    <3>1. wk[w].pc = "helper" /\ Helping(w) /\ AtFrame(w)
      BY <2>2 DEF PopParent, Helping, AtFrame, Executing
    <3>2. Cur(w) # Root
      BY <1>0, <3>1, ProgramFrames DEF Points, Point, Cur, Types, FrameTypes
    <3>3. ~LeaveFrame(w)
      BY <3>1 DEF LeaveFrame, Leaving
    <3> QED BY <3>1, <3>2, <3>3
  <2> QED BY <2>1, <2>2
<1>2. PICK t \in Closures, g \in Frames : busy[w] = t /\ Cur(w) = g
  BY <1>0, <1>1, AtWork
<1>3. /\ TopOf(o, t, g) /\ t # Null /\ wk[w].cur = g /\ t \in Alive /\ o[g] = t
      /\ g # Root
  <2>1. TopOf(o, t, g) /\ t # Null /\ wk[w].cur = g
    BY <1>0, <1>1, <1>2, Nulls DEF Tops, Top, Cur
  <2> QED BY <1>0, <1>1, <1>2, <2>1 DEF TopOf, Owned
<1>p. PICK p \in Frames : prog.parent[g] = p /\ p # g
  <2>1. /\ prog.parent[g] \in Frames /\ prog.parent[g] < g /\ g \in Nat
        /\ prog.parent[g] \in Nat
    BY <1>0, <1>2, <1>3, ProgramFrames DEF Types, FrameTypes
  <2>2. prog.parent[g] # g
    BY <2>1
  <2> QED BY <2>1, <2>2
<1>4. PICK o2 \in [Frames -> Closures \cup {Null}] : o2[g] = Null /\ \A x \in Frames : x # g => o2[x] = o[x]
  <2>1. [o EXCEPT ![g] = Null] \in [Frames -> Closures \cup {Null}]
    BY <1>0 DEF Ghosts
  <2>2. [o EXCEPT ![g] = Null][g] = Null /\ \A x \in Frames : x # g => [o EXCEPT ![g] = Null][x] = o[x]
    BY <1>0, <1>2 DEF Ghosts
  <2> QED BY <2>1, <2>2
<1>5. /\ Types' /\ SameTree /\ UNCHANGED <<prog, at, stolen, unsynced, busy, busyLock>>
      /\ Others(w) /\ wk'[w].pc = (IF unw[g].exn # Null THEN "unwind" ELSE "user")
      /\ home' = [home EXCEPT ![g] = Null] /\ unw' = PassedUp(g)
      /\ LeaveFrame(w) => dq' = dq /\ wk'[w].cur = p
      /\ PopParent(w) => dq[w] # <<>> /\ dq' = [dq EXCEPT ![w] = Front(@)] /\ wk'[w].cur = Last(dq[w])
  <2>1. CASE LeaveFrame(w) /\ prog.kind[Cur(w)] = "call"
    BY <1>0, <1>1, <1>2, <1>p, <2>1, LeaveFrameStep DEF Moves
  <2>2. CASE PopParent(w)
    BY <1>0, <1>1, <1>2, <2>2, PopParentStep DEF Moves
  <2> QED BY <2>1, <2>2
<1>6. /\ (\A x \in Frames : x # g => home'[x] = home[x]) /\ home'[g] = Null
      /\ Frames' = Frames
      /\ (\A x \in Frames : x # g /\ x # p => unw'[x] = unw[x])
      /\ (unw[g].exn # Null => unw'[p].exn # Null)
      /\ dq[w] \in Seq(Frames) /\ Frames \subseteq Nat /\ OthersDq(w)
      /\ (LeaveFrame(w) => dq'[w] = dq[w]) /\ (PopParent(w) => dq'[w] = Front(dq[w]))
  <2>1. Frames \subseteq Nat
    BY <1>0, ProgramFrames DEF Types, FrameTypes
  <2>2. /\ (\A x \in Frames : x # g /\ x # p => unw'[x] = unw[x])
        /\ (unw[g].exn # Null => unw'[p].exn # Null)
    BY <1>0, <1>p, <1>5 DEF PassedUp, Types, FrameTypes
  <2> QED
    BY <1>0, <1>2, <1>5, <2>1, <2>2
       DEF Types, FrameTypes, LockTypes, Frames, OthersDq
<1>7. Shrinks(o, o2, t, g)
  BY <1>2, <1>3, <1>4 DEF Shrinks, Toggles
<1>8. Deque(o, w) /\ Ascending(dq[w]) /\ (\A x \in ToSet(dq[w]) : x \in Frames)
      /\ \A x \in Frames : x \in Links(o, t) <=> (x \in ToSet(dq[w]) \/ Taken(w, x))
  BY <1>0, <1>2, <1>3, <1>6 DEF Deques, Deque, Ascending, ToSet
<1>9. Inner(o, g)
  <2>1. CASE LeaveFrame(w) /\ prog.kind[Cur(w)] = "call"
    <3> SUFFICES ASSUME ~Inner(o, g) PROVE FALSE
      OBVIOUS
    <3>1. Bottom(o, g) /\ g \notin stolen /\ prog.kind[g] = "call"
      BY <1>0, <1>2, <1>3, <2>1 DEF Bottoms, LeaveFrame
    <3>2. g # cl[t].frame
      BY <1>0, <1>2, <1>3, <3>1, Nulls DEF Bases, Base, Based
    <3>3. ~Swapped(t)
      <4> SUFFICES ASSUME NEW x \in Workers, wk[x].pc = "set_return2", wk[x].cl = t
                   PROVE  FALSE
        BY DEF Swapped
      <4>1. x = w
        BY <1>0, <1>2 DEF Holding, Unique, Holds, Carries, Carrying
      <4> QED BY <1>0, <1>1, <4>1, AtWork
    <3> QED BY <1>3, <3>1, <3>2, <3>3 DEF Bottom
  <2>2. CASE PopParent(w)
    <3>1. Last(dq[w]) \in ToSet(dq[w])
      <4>1. dq[w] # <<>> /\ Len(dq[w]) \in Nat \ {0} /\ DOMAIN dq[w] = 1 .. Len(dq[w])
        BY <1>5, <1>6, <2>2
      <4>2. Len(dq[w]) \in DOMAIN dq[w]
        BY <4>1
      <4> QED BY <4>2 DEF Last, ToSet
    <3>2. PICK h \in Frames : o[h] = t /\ Inner(o, h)
      BY <1>8, <3>1 DEF Links, LinksTo
    <3>3. h <= g /\ h \in Nat /\ g \in Nat
      BY <1>2, <1>3, <1>6, <3>2 DEF TopOf
    <3>4. h = g \/ h < g
      BY <3>3
    <3> QED BY <1>0, <1>2, <1>3, <3>2, <3>4 DEF Chained, Inner
  <2> QED BY <2>1, <2>2
<1>10. /\ \A x \in Links(o, t) : x \in Links(o2, t) \/ (x = p /\ prog.kind[g] # "call")
       /\ \A x \in Links(o2, t) : x \in Links(o, t)
       /\ prog.kind[g] # "call" => p \in Links(o, t)
       /\ p \notin Links(o2, t) /\ TopOf(o2, t, p) /\ o[p] = t
  <2>1. Types /\ Chained(o) /\ t \in Closures /\ Shrinks(o, o2, t, g)
    BY <1>0, <1>2, <1>7
  <2>2. o[p] = t
    BY <1>3, <1>9, <1>p DEF Inner
  <2>3. /\ \A x \in Links(o, t) :
             x \in Links(o2, t) \/ (x = prog.parent[g] /\ Inner(o, g) /\ prog.kind[g] # "call")
        /\ \A x \in Links(o2, t) : x \in Links(o, t)
        /\ Inner(o, g) /\ prog.kind[g] # "call" => prog.parent[g] \in Links(o, t)
        /\ Inner(o, g) => prog.parent[g] \notin Links(o2, t) /\ TopOf(o2, t, prog.parent[g])
    BY <2>1, ShrinksLinks
  <2> QED BY <1>9, <1>p, <2>2, <2>3
<1>11. \A x \in Links(o, t) : x = p \/ x < p
  BY <1>0, <1>2, <1>10, LinksBelow
<1>12. cl[t].frame # g
  BY <1>0, <1>2, <1>3, <1>9, Nulls DEF Bases, Base, Based
<1>13. PopParent(w) =>
         /\ prog.kind[g] # "call" /\ Last(dq[w]) = p
         /\ ToSet(dq[w]) = ToSet(Front(dq[w])) \cup {p}
         /\ \A x \in ToSet(Front(dq[w])) : x < p /\ x \in Frames
         /\ Ascending(Front(dq[w]))
  <2> SUFFICES ASSUME PopParent(w)
               PROVE  /\ prog.kind[g] # "call" /\ Last(dq[w]) = p
                      /\ ToSet(dq[w]) = ToSet(Front(dq[w])) \cup {p}
                      /\ \A x \in ToSet(Front(dq[w])) : x < p /\ x \in Frames
                      /\ Ascending(Front(dq[w]))
    OBVIOUS
  <2>1. prog.kind[g] # "call"
    BY <1>0, <1>1, <1>3 DEF Points, Point
  <2>2. /\ dq[w] \in Seq(Frames) /\ Frames \subseteq Nat /\ dq[w] # <<>>
        /\ Ascending(dq[w])
    BY <1>5, <1>6, <1>8
  <2>3. /\ Last(dq[w]) \in Frames /\ Front(dq[w]) \in Seq(Frames)
        /\ ToSet(dq[w]) = ToSet(Front(dq[w])) \cup {Last(dq[w])}
        /\ \A f \in ToSet(Front(dq[w])) : f < Last(dq[w])
        /\ Ascending(Front(dq[w]))
    BY <2>2, FrontFacts
  <2>4. Last(dq[w]) \in Links(o, t) /\ Last(dq[w]) \in ToSet(dq[w])
    BY <1>8, <2>3
  <2>5. Last(dq[w]) = p \/ Last(dq[w]) < p
    BY <1>11, <2>4
  <2>6. p \in ToSet(dq[w]) \/ Taken(w, p)
    BY <1>8, <1>10, <2>1
  <2>7. Last(dq[w]) = p \/ p < Last(dq[w])
    BY <1>8, <2>3, <2>4, <2>6 DEF Deque
  <2>8. Last(dq[w]) \in Nat /\ p \in Nat
    BY <1>p, <2>2, <2>3
  <2>9. Last(dq[w]) = p
    BY <2>5, <2>7, <2>8
  <2>10. \A x \in ToSet(Front(dq[w])) : x < p /\ x \in Frames
    BY <1>8, <2>3, <2>9
  <2> QED BY <2>1, <2>3, <2>9, <2>10
<1>14. wk'[w].cur = p
  BY <1>5, <1>13
<1>15. \A c : Links(o2, c)' = Links(o2, c)
  BY <1>5, <1>6 DEF Links, LinksTo, Inner
<1>16. Deque(o2, w)'
  <2>1. \A x \in Workers, y \in Frames : Taken(x, y)' <=> Taken(x, y)
    <3>1. wk[w].pc # "promote" /\ wk'[w].pc # "promote"
      BY <1>1, <1>5
    <3> QED BY <1>5, <3>1, SamesTaken
  <2>2. busy'[w] = t /\ Links(o2, t)' = Links(o2, t)
    BY <1>2, <1>5, <1>15
  <2>3. CASE LeaveFrame(w) /\ prog.kind[Cur(w)] = "call"
    <3>1. \A x \in Frames : x \in Links(o2, t) <=> (x \in ToSet(dq'[w]) \/ Taken(w, x))
      BY <1>2, <1>6, <1>8, <1>10, <2>3
    <3> QED BY <1>6, <1>8, <2>1, <2>2, <2>3, <3>1 DEF Deque
  <2>4. CASE PopParent(w)
    <3>1. \A x \in Frames : Taken(w, x) => x < p
      BY <1>8, <1>13, <2>4 DEF Deque
    <3>2. p \in Nat /\ ~(p < p)
      BY <1>p, <1>6
    <3>3. \A x \in Frames : x \in Links(o2, t) => (x \in ToSet(dq'[w]) \/ Taken(w, x))
      BY <1>6, <1>8, <1>10, <1>13, <2>4
    <3>4. \A x \in Frames : (x \in ToSet(dq'[w]) \/ Taken(w, x)) => x \in Links(o2, t)
      BY <1>6, <1>8, <1>10, <1>13, <2>4, <3>1, <3>2
    <3>5. Ascending(dq'[w])
      BY <1>6, <1>13, <2>4
    <3>6. \A y \in Frames : Taken(w, y) => \A x \in ToSet(dq'[w]) : y < x
      BY <1>6, <1>8, <1>13, <2>4 DEF Deque
    <3> QED BY <1>6, <2>1, <2>2, <3>3, <3>4, <3>5, <3>6 DEF Deque, Ascending
  <2> QED BY <2>3, <2>4
<1>17. Positions(o2)'
  <2>1. ASSUME NEW x \in Frames, o2[x] # Null, x \in Links(o2, o2[x])'
        PROVE  x \in Links(o, o2[x])
    <3>1. CASE o2[x] = t
      BY <1>10, <1>15, <2>1, <3>1
    <3>2. CASE o2[x] # t
      <4>1. Same(o, o2, o2[x]) /\ o2[x] \in Closures
        BY <1>0, <1>2, <1>4, <1>7, <2>1, <3>2, ToggleSame DEF Shrinks
      <4> QED BY <1>0, <1>5, <2>1, <4>1, StackSame
    <3> QED BY <3>1, <3>2
  <2>2. \A x \in Frames : o2[x] = o[x] \/ o2[x] = Null
    BY <1>4
  <2>3. wk'[w].pc \notin {"unbusy", "finish"}
    BY <1>5
  <2> QED BY <1>0, <1>5, <2>1, <2>2, <2>3, PositionsLess
<1>18. Point(w)'
  BY <1>5, <1>6, <1>14
     DEF Point, BeforeSync, AfterSync, Reducing, Resuming, Helping
<1>19. \A x \in Frames : home'[x] # Null => o2[x] # Null
  BY <1>0, <1>4, <1>6 DEF Owned
<1>20. \A x \in Frames : o[x] # t => at'[x] = at[x] /\ unw'[x] = unw[x]
  BY <1>3, <1>5, <1>6, <1>10
<1>21. Good(o2, rk, n)'
  <2>1. Works(w, t)
    BY <1>2 DEF Works
  <2>2. wk'[w].pc \in {"user", "unwind"} /\ TopOf(o2, t, wk'[w].cur)
    BY <1>5, <1>10, <1>14
  <2>3. Grows(o, o2, t, g, g) \/ Shrinks(o, o2, t, g)
    BY <1>7
  <2>4. /\ Types' /\ SameTree
        /\ UNCHANGED <<prog, stolen, unsynced, busy, busyLock>> /\ Others(w)
        /\ OthersDq(w)
        /\ (Helping(w) => wk[w].cur = g /\ o2[g] = Null)
        /\ (o2[g] # Null => g \notin stolen) /\ AtFrame(w)
    BY <1>1, <1>3, <1>4, <1>5, <1>6
  <2> QED
    BY <1>4, <1>12, <1>16, <1>17, <1>18, <1>19, <1>20, <2>1, <2>2, <2>3, <2>4,
       StackStep
<1> QED BY <1>21

(***************************************************************************)
(* A closure loses its frame, or hands it over.                            *)
(***************************************************************************)

(* A closure that a step leaves alone, with its stack and its family.      *)
Untouched(o, o2, c) ==
    /\ Same(o, o2, c) /\ cl'[c].status = cl[c].status /\ cl'[c].frame = cl[c].frame
    /\ cl'[c].callParent = cl[c].callParent /\ cl'[c].spawnParent = cl[c].spawnParent
    /\ SpawnedBy(c)' = SpawnedBy(c) /\ CalledBy(c)' = CalledBy(c)

(* A worker that does not move and has none of the closures T in its       *)
(* hands.                                                                  *)
Aside(x, T) ==
    /\ Still(x) /\ busy'[x] = busy[x] /\ dq'[x] = dq[x] /\ \A c \in T : ~Holds(x, c)
    /\ \A f \in Frames : Taken(x, f)' <=> Taken(x, f)

(* What has to be shown of a closure that a step touches.                  *)
Rebuilt(o2, c) ==
    /\ c \in Alive => Base(o2, c) /\ (SpawnedBy(c) # {} => Spawning(c))
                      /\ (Waiting(c) => Only(o2, c, cl[c].frame) /\ Stopped(cl[c].frame))
    /\ (\A x \in Workers : busy[x] # c) => Links(o2, c) = {}

(* What has to be shown of a frame on the stack of a closure that a step   *)
(* touches.                                                                *)
Restacked(o2, x) ==
    /\ o2[x] \in Alive /\ (~Inner(o2, x) => Bottom(o2, x))
    /\ (x \in stolen => Stolen(o2, x)) /\ (x \in unsynced => x \in stolen /\ cl[o2[x]].frame = x)

(* A step that touches only the closures T and the workers W keeps the     *)
(* invariant, for whatever owners and ranks there are afterwards, if what  *)
(* the invariant says of T and W holds afterwards.                         *)
LEMMA TouchStep ==
    ASSUME NEW o, NEW rk, NEW n, Good(o, rk, n), Types', prog' = prog,
           stolen \subseteq stolen',
           NEW rk2 \in [Closures -> Nat], NEW n2, Duties', Holding', Tree(rk2, n2)',
           NEW o2 \in [Frames -> Closures \cup {Null}], NEW w \in Workers, Others(w),
           NEW W, NEW T, w \in W,
           \A c \in Closures : c \notin T => Untouched(o, o2, c) /\ \A x \in W : busy[x] # c,
           \A x \in Workers : x \notin W => Aside(x, T),
           \A c \in Alive : c \notin T =>
             cl[c].callParent \notin T /\ \A f \in Frames : SpawnedFrom(c, f) => SpawnedFrom(c, f)',
           wk[w].pc = "set_return2" => wk[w].cl \in T,
           wk[w].pc \notin {"unbusy", "finish"},
           \A f \in Frames : o[f] \in Closures /\ o[f] \notin T =>
             /\ at'[f] = at[f] /\ unw'[f] = unw[f] /\ (f \in unsynced' <=> f \in unsynced)
             /\ (f \in stolen' <=> f \in stolen),
           Chained(o2),
           \A f \in Frames : home'[f] # Null \/ f \in unsynced' => o2[f] # Null,
           \A f \in Frames : o2[f] \in T => Restacked(o2, f)',
           \A c \in Closures : c \in T => Rebuilt(o2, c)',
           \A x \in Workers : x \in W => Top(o2, x)' /\ Deque(o2, x)' /\ Point(x)',
           Positions(o2)'
    PROVE  Good(o2, rk2, n2)'
<1>0. /\ Types /\ Duties /\ Holding /\ Control /\ Deques(o) /\ Stacks(o)
      /\ Ghosts(o, rk)
      /\ Tops(o) /\ Bases(o) /\ Points /\ Parents /\ Owned(o) /\ Bottoms(o)
  BY DEF Good, Control, Tree, Stacks
<1>1. Frames' = Frames /\ Alive \subseteq Closures /\ Alive' \subseteq Closures
  BY DEF Frames, Alive
<1>2. \A c \in Closures : c \notin T => (c \in Alive' <=> c \in Alive) /\ (Waiting(c)' <=> Waiting(c))
  BY DEF Untouched, Alive, Waiting
<1>3. \A c : Swapped(c) /\ c \notin T => Swapped(c)'
  BY DEF Swapped, Others, Still
<1>4. ASSUME NEW f \in Frames, o2[f] # Null, o2[f] \notin T
      PROVE  o[f] = o2[f] /\ o[f] \in Closures /\ o[f] \in Alive
  <2>1. o2[f] \in Closures
    BY <1>4
  <2>2. o[f] = o2[f]
    BY <1>4, <2>1 DEF Untouched, Same
  <2> QED BY <1>0, <1>4, <2>1, <2>2 DEF Owned
<1>5. ASSUME NEW c \in Alive, c \notin T, cl[c].callParent # Null
      PROVE  cl[c].callParent \in Closures /\ cl[c].callParent \in Alive /\ cl[c].callParent \notin T
  BY <1>0, <1>5 DEF Parents, Alive
<1>6. ASSUME NEW c \in Alive', c \notin T PROVE Base(o2, c)'
  <2>1. c \in Alive /\ c \in Closures /\ Untouched(o, o2, c) /\ Base(o, c)
    BY <1>0, <1>1, <1>2, <1>6 DEF Bases
  <2>2. \A f \in Frames : SpawnedFrom(c, f) => SpawnedFrom(c, f)'
    BY <1>6, <2>1
  <2>3. cl[c].callParent # Null =>
             /\ Same(o, o2, cl[c].callParent)
             /\ cl'[cl[c].callParent].frame = cl[cl[c].callParent].frame
             /\ \A f \in Frames : SpawnedFrom(cl[c].callParent, f) => SpawnedFrom(cl[c].callParent, f)'
    <3> SUFFICES ASSUME cl[c].callParent # Null
                 PROVE  /\ Same(o, o2, cl[c].callParent)
                        /\ cl'[cl[c].callParent].frame = cl[cl[c].callParent].frame
                        /\ \A f \in Frames : SpawnedFrom(cl[c].callParent, f) => SpawnedFrom(cl[c].callParent, f)'
      OBVIOUS
    <3>1. PICK p \in Alive : cl[c].callParent = p /\ p \in Closures /\ p \notin T
      BY <1>5, <1>6, <2>1
    <3>2. Untouched(o, o2, p) /\ \A f \in Frames : SpawnedFrom(p, f) => SpawnedFrom(p, f)'
      BY <3>1
    <3>3. cl'[c].callParent = p
      BY <2>1, <3>1 DEF Untouched
    <3> QED BY <3>1, <3>2, <3>3 DEF Untouched
  <2>4. Swapped(c) => Swapped(c)'
    BY <1>3, <1>6
  <2> QED BY <1>0, <2>1, <2>2, <2>3, <2>4, BaseKept DEF Untouched
<1>7. Stacks(o2)'
  <2>1. ASSUME NEW f \in Frames, o2[f] # Null
        PROVE  o2[f] \in Alive' /\ (~Inner(o2, f)' => Bottom(o2, f)')
    <3>1. CASE o2[f] \in T
      BY <3>1 DEF Restacked
    <3>2. CASE o2[f] \notin T
      <4>1. o[f] = o2[f] /\ o[f] \in Closures /\ o[f] \in Alive
        BY <1>4, <2>1, <3>2
      <4>2. o2[f] \in Alive' /\ Untouched(o, o2, o[f])
        BY <1>2, <3>2, <4>1
      <4>3. Inner(o2, f)' <=> Inner(o, f)
        BY <1>0, <4>1, <4>2, StackSame DEF Untouched
      <4>4. ~Inner(o, f) => Bottom(o, f)
        BY <1>0, <2>1, <4>1 DEF Bottoms
      <4>5. Bottom(o, f) => Bottom(o2, f)'
        BY <1>3, <3>2, <4>1, <4>2 DEF Bottom, Untouched
      <4> QED BY <4>2, <4>3, <4>4, <4>5
    <3> QED BY <3>1, <3>2
  <2>2. Chained(o2)'
    BY <1>1 DEF Chained
  <2>3. Owned(o2)'
    BY <1>1, <2>1 DEF Owned
  <2> QED BY <1>1, <2>1, <2>2, <2>3 DEF Stacks, Bottoms
<1>8. ASSUME NEW x \in Workers, x \notin W
      PROVE  Point(x)' /\ (Helping(x) => Helping(x)')
  <2>0. Still(x) /\ busy'[x] = busy[x] /\ \A c \in T : ~Holds(x, c)
    BY <1>8 DEF Aside
  <2>1. ASSUME NEW f \in Frames, o[f] \in Closures, Holds(x, o[f])
        PROVE  at'[f] = at[f] /\ unw'[f] = unw[f] /\ (f \in unsynced' <=> f \in unsynced)
    BY <2>0, <2>1
  <2>2. ASSUME Helping(x) PROVE cl'[busy'[x]].frame = cl[busy[x]].frame
    <3>1. AtFrame(x)
      BY <2>2 DEF Helping, AtFrame, Executing
    <3>2. busy[x] \in Closures /\ busy[x] \notin T
      BY <1>0, <2>0, <3>1, AtWork DEF Holds
    <3> QED BY <2>0, <3>2 DEF Untouched
  <2>3. ASSUME Resuming(x) PROVE cl'[wk[x].cl].frame = cl[wk[x].cl].frame
    <3>1. wk[x].cl \in Closures /\ Holds(x, wk[x].cl)
      BY <1>0, <2>3, CarryWork DEF Resuming, Carrying
    <3> QED BY <2>0, <3>1 DEF Untouched
  <2>4. Point(x)'
    BY <1>0, <2>0, <2>1, <2>2, <2>3, PointOfOther
  <2>5. AtFrame(x) => at'[Cur(x)] = at[Cur(x)]
    BY <1>0, <2>1, AtWork DEF Holds
  <2> QED BY <1>0, <2>0, <2>4, <2>5, HelpingKept
<1>9. ASSUME NEW f \in Frames, f \in stolen', o2[f] # Null PROVE Stolen(o2, f)'
  <2>1. CASE o2[f] \in T
    BY <1>9, <2>1 DEF Restacked
  <2>2. CASE o2[f] \notin T
    <3>1. o[f] = o2[f] /\ o[f] \in Closures /\ Untouched(o, o2, o[f]) /\ f \in stolen
      BY <1>4, <1>9, <2>2
    <3>2. Stolen(o, f)
      BY <1>0, <1>9, <3>1 DEF Bases
    <3>3. CASE cl[o[f]].frame = f
      BY <3>1, <3>3 DEF Stolen, Untouched
    <3>4. CASE \E y \in Workers : wk[y].pc = "set_return2" /\ wk[y].cl = o[f] /\ wk[y].cur = f
      BY <2>2, <3>1, <3>4 DEF Stolen, Others, Still
    <3>5. CASE \E y \in Workers : busy[y] = o[f] /\ wk[y].cur = f /\ Helping(y)
      <4>1. PICK y \in Workers : busy[y] = o[f] /\ wk[y].cur = f /\ Helping(y)
        BY <3>5
      <4>2. y \notin W
        BY <2>2, <3>1, <4>1
      <4>3. Helping(y)' /\ wk'[y].cur = f /\ busy'[y] = o2[f]
        BY <1>8, <3>1, <4>1, <4>2 DEF Aside, Still
      <4> QED BY <4>3 DEF Stolen
    <3> QED BY <3>2, <3>3, <3>4, <3>5 DEF Stolen
  <2> QED BY <2>1, <2>2
<1>10. ASSUME NEW f \in unsynced'
       PROVE  f \in stolen' /\ o2[f] # Null /\ cl'[o2[f]].frame = f
  <2>1. f \in Frames /\ o2[f] # Null
    BY <1>1, <1>10 DEF Types, FrameTypes
  <2>2. CASE o2[f] \in T
    BY <1>10, <2>1, <2>2 DEF Restacked
  <2>3. CASE o2[f] \notin T
    <3>1. o[f] = o2[f] /\ o[f] \in Closures /\ Untouched(o, o2, o[f])
      BY <1>4, <2>1, <2>3
    <3>2. f \in unsynced
      BY <1>10, <2>1, <2>3, <3>1
    <3> QED BY <1>0, <2>1, <3>1, <3>2 DEF Bases, Untouched
  <2> QED BY <2>2, <2>3
<1>11. ASSUME NEW c \in Alive', SpawnedBy(c)' # {} PROVE Spawning(c)'
  <2>1. CASE c \in T
    BY <1>1, <1>11, <2>1 DEF Rebuilt
  <2>2. CASE c \notin T
    <3>1. c \in Alive /\ c \in Closures /\ Untouched(o, o2, c)
      BY <1>1, <1>2, <1>11, <2>2
    <3>2. Spawning(c)
      BY <1>0, <1>11, <3>1 DEF Bases, Untouched
    <3>3. CASE cl[c].frame \in unsynced
      <4>1. PICK f \in Frames : cl[c].frame = f /\ f \in unsynced
        BY <1>0, <3>3 DEF Types, FrameTypes
      <4>2. o[f] = c
        BY <1>0, <3>1, <3>2, <4>1 DEF Bases, Base, Based, Spawning
      <4>3. f \in unsynced' /\ cl'[c].frame = f
        BY <2>2, <3>1, <4>1, <4>2 DEF Untouched
      <4> QED BY <3>2, <4>1, <4>3 DEF Spawning
    <3>4. CASE Promoting(c)
      BY <3>1, <3>2, <3>4 DEF Spawning, Promoting, Others, Still, Untouched
    <3> QED BY <3>2, <3>3, <3>4 DEF Spawning
  <2> QED BY <2>1, <2>2
<1>12. Bases(o2)'
  <2>1. \A c \in Alive' : Base(o2, c)'
    BY <1>1, <1>6 DEF Rebuilt
  <2>2. \A f \in stolen' : o2[f] # Null => Stolen(o2, f)'
    BY <1>1, <1>9 DEF Types, FrameTypes
  <2> QED BY <1>10, <1>11, <2>1, <2>2 DEF Bases
<1>13. ASSUME NEW c \in Alive', Waiting(c)'
       PROVE  Only(o2, c, cl[c].frame)' /\ Stopped(cl[c].frame)'
  <2>1. CASE c \in T
    BY <1>1, <1>13, <2>1 DEF Rebuilt
  <2>2. CASE c \notin T
    <3>1. c \in Alive /\ Waiting(c) /\ c \in Closures /\ Untouched(o, o2, c)
      BY <1>1, <1>2, <1>13, <2>2
    <3>2. Only(o, c, cl[c].frame) /\ Stopped(cl[c].frame)
      BY <1>0, <3>1 DEF Tops, Points
    <3>3. cl[c].frame \in Frames /\ o[cl[c].frame] = c /\ cl'[c].frame = cl[c].frame
      BY <3>1, <3>2 DEF Only, Untouched
    <3>4. Only(o2, c, cl[c].frame)'
      BY <1>0, <3>1, <3>2, <3>3, StackSame DEF Untouched
    <3>5. at'[cl[c].frame] = at[cl[c].frame] /\ unw'[cl[c].frame] = unw[cl[c].frame]
      BY <2>2, <3>1, <3>3
    <3> QED BY <3>2, <3>3, <3>4, <3>5 DEF Stopped, Code
  <2> QED BY <2>1, <2>2
<1>14. Tops(o2)'
  <2>1. ASSUME NEW x \in Workers, x \notin W PROVE Top(o2, x)'
    <3>0. Still(x) /\ busy'[x] = busy[x] /\ (\A c \in T : ~Holds(x, c)) /\ x # w
      BY <2>1 DEF Aside
    <3>1. \A c \in Closures : Holds(x, c) => Same(o, o2, c) /\ cl'[c].frame = cl[c].frame
      BY <3>0 DEF Untouched
    <3>2. wk[x].pc = "set_return2" => \A f \in Frames : SpawnedFrom(busy[x], f) => SpawnedFrom(busy[x], f)'
      <4> SUFFICES ASSUME wk[x].pc = "set_return2"
                   PROVE  \A f \in Frames : SpawnedFrom(busy[x], f) => SpawnedFrom(busy[x], f)'
        OBVIOUS
      <4>1. Duty(x) /\ busy[x] \in Closures \cup {Null} /\ Held(x)
        BY <1>0 DEF Duties, Types, LockTypes, Holding
      <4>2. busy[x] \in Closures
        BY <4>1 DEF Duty, Idling
      <4>3. PICK c \in Closures : busy[x] = c
        BY <4>2
      <4>4. c \in Alive /\ c \notin T /\ busy'[x] = c
        BY <3>0, <4>1, <4>3 DEF Held, Alive, Holds
      <4> QED BY <4>3, <4>4
    <3> QED BY <1>0, <3>0, <3>1, <3>2, TopOfOther
  <2> QED BY <1>13, <2>1 DEF Tops
<1>15. Deques(o2)'
  <2>1. ASSUME NEW x \in Workers, x \notin W PROVE Deque(o2, x)'
    <3>0. busy'[x] = busy[x] /\ dq'[x] = dq[x] /\ (\A c \in T : ~Holds(x, c))
          /\ \A f \in Frames : Taken(x, f)' <=> Taken(x, f)
      BY <2>1 DEF Aside
    <3>1. busy[x] # Null => Same(o, o2, busy[x])
      BY <1>0, <3>0 DEF Holds, Types, LockTypes, Untouched
    <3> QED BY <1>0, <3>0, <3>1, DequeOfOther
  <2>2. ASSUME NEW c \in Closures, \A x \in Workers : busy'[x] # c
        PROVE  Links(o2, c)' = {}
    <3>1. CASE c \in T
      BY <2>2, <3>1 DEF Rebuilt
    <3>2. CASE c \notin T
      <4>1. \A x \in Workers : busy[x] # c
        BY <2>2, <3>2 DEF Aside
      <4>2. Links(o, c) = {} /\ Same(o, o2, c)
        BY <1>0, <3>2, <4>1 DEF Deques, Untouched
      <4> QED BY <1>0, <4>2, StackSame
    <3> QED BY <3>1, <3>2
  <2> QED BY <2>1, <2>2 DEF Deques
<1>16. Points'
  BY <1>8, <1>13 DEF Points
<1>17. Ghosts(o2, rk2)'
  BY <1>1 DEF Ghosts
<1> QED BY <1>7, <1>12, <1>14, <1>15, <1>16, <1>17 DEF Good, Control

(* What the invariant says at the end of a spawn helper whose parent was   *)
(* stolen: the frame is the only one of a closure without children.        *)
LEMMA Handling ==
    ASSUME NEW o, NEW rk, NEW n, Good(o, rk, n), NEW w \in Workers,
           wk[w].pc = "handler",
           NEW t \in Closures, NEW g \in Frames, Works(w, t), Cur(w) = g
    PROVE  /\ wk[w].cur = g /\ t \in Alive /\ t # Null /\ cl[t].status = "running" /\ busyLock[w] = w /\ dq[w] = <<>>
           /\ Only(o, t, g) /\ ~Inner(o, g) /\ SpawnedFrom(t, g) /\ g \notin unsynced
           /\ SpawnedBy(t) = {} /\ CalledBy(t) = {} /\ Links(o, t) = {}
           /\ (\A f : ~Taken(w, f)) /\ Free(w, t)
<1>0. /\ Types /\ Duties /\ Holding /\ Control /\ Deques(o) /\ Stacks(o)
      /\ Ghosts(o, rk)
      /\ Tops(o) /\ Bases(o) /\ Points /\ Parents /\ Owned(o) /\ Bottoms(o)
      /\ Chained(o)
  BY DEF Good, Control, Tree, Stacks
<1>1. AtFrame(w) /\ Helping(w) /\ busy[w] = t
  BY DEF AtFrame, Executing, Helping, Works
<1>2. /\ TopOf(o, t, g) /\ t # Null /\ wk[w].cur = g /\ cl[t].status = "running"
      /\ o[g] = t
      /\ wk[w].pc # "set_return2" /\ wk[w].pc \notin Carrying
  <2>1. TopOf(o, t, g) /\ t # Null /\ wk[w].cur = g
    BY <1>0, <1>1, Nulls DEF Tops, Top, Cur
  <2> QED BY <1>0, <1>1, <2>1, AtWork DEF TopOf
<1>3. t \in Alive
  BY <1>2 DEF Alive
<1>4. busyLock[w] = w /\ dq[w] = <<>>
  BY <1>0 DEF Duties, Duty, Locked
<1>5. \A f : ~Taken(w, f)
  BY <1>0, <1>4, NotTaken
<1>6. Links(o, t) = {}
  <2>1. Deque(o, w) /\ ToSet(dq[w]) = {}
    BY <1>0, <1>4 DEF Deques, ToSet
  <2>2. \A f \in Frames : f \notin Links(o, t)
    BY <1>1, <1>2, <1>5, <2>1 DEF Deque
  <2> QED BY <2>2 DEF Links
<1>7. /\ prog.kind[g] \in {"spawn", "expr"}
      /\ (cl[t].frame = g => prog.kind[g] = "expr") /\ g \notin unsynced
      /\ g # Root
  <2>1. /\ prog.kind[g] \in {"spawn", "expr"}
        /\ (cl[t].frame = g => prog.kind[g] = "expr") /\ g \notin unsynced
    BY <1>0, <1>1, <1>2 DEF Points, Point, AfterSync
  <2> QED BY <1>0, <2>1, ProgramFrames DEF Types, FrameTypes
<1>8. ~Inner(o, g)
  <2> SUFFICES ASSUME Inner(o, g) PROVE FALSE
    OBVIOUS
  <2>1. LinksTo(o, t, prog.parent[g], g) /\ prog.parent[g] \in Frames
    BY <1>0, <1>2, <1>7, ProgramFrames DEF LinksTo, Types, FrameTypes
  <2>2. prog.parent[g] \in Links(o, t)
    BY <2>1 DEF Links
  <2> QED BY <1>6, <2>2
<1>9. Only(o, t, g)
  <2> SUFFICES ASSUME NEW h \in Frames, o[h] = t, h # g PROVE FALSE
    BY <1>2 DEF Only
  <2>1. h <= g /\ h \in Nat /\ g \in Nat
    BY <1>0, <1>2, ProgramFrames DEF TopOf, Types, FrameTypes
  <2>2. h < g
    BY <2>1
  <2>3. o[prog.parent[g]] = o[g]
    BY <1>0, <1>2, <2>2 DEF Chained
  <2> QED BY <1>2, <1>7, <1>8, <2>3 DEF Inner
<1>10. Free(w, t)
  BY <1>0, <1>1, FreeOfOthers DEF Holds
<1>11. ~Swapped(t) /\ ~Promoting(t)
  BY <1>2, <1>10 DEF Swapped, Promoting, Free, Holds, Carries, Carrying
<1>12. SpawnedFrom(t, g)
  <2>1. Bottom(o, g)
    BY <1>0, <1>2, <1>8 DEF Bottoms
  <2>2. CASE g = cl[t].frame
    BY <1>0, <1>2, <1>3, <1>7, <2>2, Nulls DEF Bases, Base, Based
  <2> QED BY <1>2, <1>11, <2>1, <2>2 DEF Bottom
<1>13. SpawnedBy(t) = {}
  <2> SUFFICES ASSUME SpawnedBy(t) # {} PROVE FALSE
    OBVIOUS
  <2>1. cl[t].frame # Null /\ cl[t].frame \in unsynced
    BY <1>0, <1>3, <1>11 DEF Bases, Spawning
  <2>2. cl[t].frame = g
    BY <1>0, <1>3, <1>9, <2>1 DEF Bases, Only, Types, FrameTypes, Base, Based
  <2> QED BY <1>7, <2>1, <2>2
<1>14. CalledBy(t) = {}
  BY <1>0, <1>2 DEF CalledBy, Parents, Nulls
<1> QED
  BY <1>2, <1>3, <1>4, <1>5, <1>6, <1>7, <1>8, <1>9, <1>10, <1>12, <1>13, <1>14

(* The exception handler with an empty deque keeps the invariant: the      *)
(* closure is left without a frame, and returns.                           *)
LEMMA HandlerReturnGood ==
    ASSUME NEW o, NEW rk, NEW n, Good(o, rk, n), NEW w \in Workers, HandlerReturn(w)
    PROVE  \E o2 : Good(o2, rk, n)'
<1>0. /\ Types /\ Duties /\ Holding /\ Control /\ Deques(o) /\ Stacks(o)
      /\ Ghosts(o, rk)
      /\ Tops(o) /\ Bases(o) /\ Points /\ Parents /\ Owned(o) /\ Positions(o)
      /\ Chained(o) /\ Tree(rk, n)
  BY DEF Good, Control, Tree, Stacks
<1>1. wk[w].pc = "handler" /\ AtFrame(w)
  BY DEF HandlerReturn, AtFrame, Executing
<1>2. PICK t \in Closures, g \in Frames : busy[w] = t /\ Cur(w) = g
  BY <1>0, <1>1, AtWork
<1>3. /\ wk[w].cur = g /\ t \in Alive /\ t # Null /\ cl[t].status = "running"
      /\ busyLock[w] = w /\ dq[w] = <<>>
      /\ Only(o, t, g) /\ ~Inner(o, g) /\ SpawnedFrom(t, g) /\ g \notin unsynced
      /\ SpawnedBy(t) = {} /\ CalledBy(t) = {} /\ Links(o, t) = {}
      /\ (\A f : ~Taken(w, f)) /\ Free(w, t)
  BY <1>1, <1>2, Handling DEF Works
<1>4. PICK o2 \in [Frames -> Closures \cup {Null}] : o2[g] = Null /\ \A x \in Frames : x # g => o2[x] = o[x]
  <2>1. [o EXCEPT ![g] = Null] \in [Frames -> Closures \cup {Null}]
    BY <1>0 DEF Ghosts
  <2>2. [o EXCEPT ![g] = Null][g] = Null /\ \A x \in Frames : x # g => [o EXCEPT ![g] = Null][x] = o[x]
    BY <1>0, <1>2 DEF Ghosts
  <2> QED BY <2>1, <2>2
<1>5. /\ Types' /\ UNCHANGED <<prog, at, stolen, unsynced, dq>>
      /\ Node(t, "returning", Null, cl[t].join, cl[t].callParent, cl[t].spawnParent,
              cl[t].leftSib, cl[t].rightSib, cl[t].rightMost)
      /\ (\A c \in Closures : c # t => Kept(c))
      /\ busy' = [busy EXCEPT ![w] = Null] /\ busyLock' = [busyLock EXCEPT ![w] = Null]
      /\ Moves(w, "return", Null, t, wk[w].vic, wk[w].frm, wk[w].why)
      /\ home' = [home EXCEPT ![g] = Null]
      /\ unw' = [unw EXCEPT ![g] = NotUnwinding]
  <2>1. cl[t].status # "invalid"
    BY <1>3
  <2> QED BY <1>0, <1>2, <2>1, HandlerReturnStep
<1>6. /\ Others(w) /\ wk'[w].pc = "return" /\ wk'[w].cl = t /\ Frames' = Frames
      /\ busy'[w] = Null /\ OthersBusy(w) /\ OthersDq(w) /\ OthersLocks(w)
      /\ dq'[w] = <<>>
      /\ (\A x \in Frames : x # g => home'[x] = home[x] /\ unw'[x] = unw[x])
      /\ home'[g] = Null
  <2>1. Others(w) /\ wk'[w].pc = "return" /\ wk'[w].cl = t /\ Frames' = Frames
    BY <1>5 DEF Moves, Frames
  <2>2. OthersLocks(w)
    BY <1>0, <1>3, <1>5, LocksKept
  <2> QED
    BY <1>0, <1>2, <1>3, <1>5, <2>1, <2>2
       DEF OthersBusy, OthersDq, Types, LockTypes, FrameTypes
<1>7. /\ SameLinks /\ \A c \in Closures : /\ (c # t => cl'[c].status = cl[c].status)
                                          /\ cl'[c].callParent = cl[c].callParent /\ cl'[c].spawnParent = cl[c].spawnParent
                                          /\ cl'[c].frame = IF c = t THEN Null ELSE cl[c].frame
      /\ cl'[t].status = "returning"
  BY <1>3, <1>5 DEF SameLinks, Node, Kept
<1>8. Alive' = Alive /\ \A q : SpawnedBy(q)' = SpawnedBy(q) /\ CalledBy(q)' = CalledBy(q)
  BY <1>7, SameFamilies
<1>9. Duties'
  <2>1. Duty(w)'
    BY <1>3, <1>6 DEF Duty, Carrying, Idling, Locked
  <2> QED BY <1>0, <1>3, <1>6, <1>7, <2>1, DutiesStep
<1>10. Holding'
  <2>0. Null \notin Closures
    BY <1>0, Nulls
  <2>1. \A c \in Closures : Holds(w, c)' => c = t
    BY <1>6, <2>0 DEF Holds, Carries, Carrying
  <2>2. Held(w)'
    BY <1>6, <1>7, <2>0 DEF Held, Carries, Carrying
  <2> QED BY <1>0, <1>3, <1>6, <1>7, <2>1, <2>2, HoldingStep
<1>11. Tree(rk, n)'
  BY <1>0, <1>3, <1>7, TreeKept
<1>12. \A x \in Frames : o2[x] # t /\ (o2[x] # Null => o2[x] = o[x] /\ o[x] # t)
  BY <1>3, <1>4 DEF Only
<1>13. \A c \in Closures : c # t => Same(o, o2, c)
  BY <1>0, <1>3, <1>4, Nulls DEF Same, Only
<1>t. PICK T, W : (\A c : c \in T <=> c = t) /\ (\A x : x \in W <=> x = w)
  <2>1. (\A c : c \in {t} <=> c = t) /\ (\A x : x \in {w} <=> x = w)
    OBVIOUS
  <2> QED BY <2>1
<1>14. \A c \in Closures : c \notin T => Untouched(o, o2, c) /\ \A x \in W : busy[x] # c
  BY <1>t, <1>2, <1>7, <1>8, <1>13 DEF Untouched
<1>15. \A x \in Workers : x \notin W => Aside(x, T)
  <2>1. \A x \in Workers, f \in Frames : Taken(x, f)' <=> Taken(x, f)
    <3>1. wk[w].pc # "promote" /\ wk'[w].pc # "promote"
      BY <1>1, <1>6
    <3> QED BY <1>6, <3>1, SamesTaken
  <2> QED BY <1>t, <1>3, <1>6, <2>1 DEF Aside, Others, OthersBusy, OthersDq, Free
<1>16. \A c \in Alive : c \notin T =>
         cl[c].callParent \notin T /\ \A f \in Frames : SpawnedFrom(c, f) => SpawnedFrom(c, f)'
  <2> SUFFICES ASSUME NEW c \in Alive, c # t
               PROVE  cl[c].callParent # t /\ \A f \in Frames : SpawnedFrom(c, f) => SpawnedFrom(c, f)'
    BY <1>t
  <2>1. cl[c].callParent # t /\ cl[c].spawnParent # t /\ c \in Closures
    BY <1>3 DEF CalledBy, SpawnedBy, Alive
  <2>2. cl[c].spawnParent # Null => cl[c].spawnParent \in Closures
    BY <1>0 DEF Parents, Alive
  <2> QED BY <1>5, <1>7, <2>1, <2>2 DEF SpawnedFrom
<1>17. Chained(o2)
  <2> SUFFICES ASSUME NEW x \in Frames, NEW y \in Frames, o2[x] # Null,
                      o2[x] = o2[y], x < y
               PROVE  o2[prog.parent[y]] = o2[y] /\ x <= prog.parent[y]
    BY DEF Chained
  <2>1. o[x] = o2[x] /\ o[y] = o2[y] /\ o[y] # t /\ o[x] # Null
    BY <1>12
  <2>2. o[prog.parent[y]] = o[y] /\ x <= prog.parent[y]
    BY <1>0, <2>1 DEF Chained
  <2>3. y # Root
    <3>1. x \in Nat \ {0} /\ y \in Nat
      BY <1>0, ProgramFrames DEF Types, FrameTypes
    <3> QED BY <3>1 DEF Root
  <2>4. prog.parent[y] \in Frames /\ prog.parent[y] # g
    BY <1>0, <1>3, <2>1, <2>2, <2>3, ProgramFrames DEF Types, FrameTypes, Only
  <2> QED BY <1>4, <2>1, <2>2, <2>4
<1>18. \A f \in Frames : home'[f] # Null \/ f \in unsynced' => o2[f] # Null
  BY <1>0, <1>3, <1>4, <1>5, <1>6 DEF Owned, Bases
<1>19. Links(o2, t)' = {}
  BY <1>6, <1>12 DEF Links, LinksTo
<1>20. \A c \in Closures : c \in T => Rebuilt(o2, c)'
  <2>1. Base(o2, t)'
    BY <1>3, <1>7 DEF Base, SpawnedFrom
  <2>2. ~Waiting(t)'
    BY <1>7 DEF Waiting
  <2> QED BY <1>t, <1>3, <1>8, <1>19, <2>1, <2>2 DEF Rebuilt
<1>21. \A x \in Workers : x \in W => Top(o2, x)' /\ Deque(o2, x)' /\ Point(x)'
  <2>1. Bare(o2, t)'
    BY <1>6, <1>7, <1>12 DEF Bare
  <2>2. Top(o2, w)'
    BY <1>6, <2>1 DEF Top, AtFrame, Executing
  <2>3. Deque(o2, w)'
    <3>1. ToSet(dq'[w]) = {} /\ DOMAIN dq'[w] = {}
      BY <1>6 DEF ToSet
    <3> QED BY <1>6, <3>1 DEF Deque
  <2>4. Point(w)'
    BY <1>6 DEF Point, BeforeSync, AfterSync, Reducing, Resuming, Helping
  <2> QED BY <1>t, <2>2, <2>3, <2>4
<1>22. Positions(o2)'
  <2>1. ASSUME NEW x \in Frames, o2[x] # Null, x \in Links(o2, o2[x])'
        PROVE  x \in Links(o, o2[x])
    <3>1. Same(o, o2, o2[x]) /\ o2[x] \in Closures
      BY <1>4, <1>12, <1>13, <2>1
    <3> QED BY <1>0, <1>5, <2>1, <3>1, StackSame
  <2>2. \A x \in Frames : o2[x] = o[x] \/ o2[x] = Null
    BY <1>4
  <2>3. wk'[w].pc \notin {"unbusy", "finish"}
    BY <1>6
  <2> QED BY <1>0, <1>5, <1>6, <2>1, <2>2, <2>3, PositionsLess
<1>23. \A f \in Frames : o[f] \in Closures /\ o[f] \notin T =>
         /\ at'[f] = at[f] /\ unw'[f] = unw[f] /\ (f \in unsynced' <=> f \in unsynced)
         /\ (f \in stolen' <=> f \in stolen)
  BY <1>t, <1>3, <1>5, <1>6 DEF Only
<1>24. \A f \in Frames : o2[f] \in T => Restacked(o2, f)'
  BY <1>t, <1>12
<1>25. /\ Types' /\ prog' = prog /\ stolen \subseteq stolen'
       /\ rk \in [Closures -> Nat]
       /\ (wk[w].pc = "set_return2" => wk[w].cl \in T)
       /\ wk[w].pc \notin {"unbusy", "finish"} /\ w \in W
  BY <1>t, <1>0, <1>1, <1>5 DEF Ghosts
<1>26. Good(o2, rk, n)'
  BY <1>4, <1>6, <1>9, <1>10, <1>11, <1>14, <1>15, <1>16, <1>17, <1>18, <1>20,
     <1>21, <1>22, <1>23, <1>24, <1>25, TouchStep
<1> QED BY <1>26

(***************************************************************************)
(* A called closure leaves the tree.                                       *)
(***************************************************************************)

(* The called closure t returns to p and is freed.                         *)
Uncalls(p, t) ==
    /\ t \in Alive /\ p \in Alive /\ p # t /\ cl[t].callParent = p /\ Childless(t)
    /\ cl'[t] = FreeClosure
    /\ Node(p, "running", cl[p].frame, cl[p].join - 1, cl[p].callParent,
            cl[p].spawnParent, cl[p].leftSib, cl[p].rightSib, cl[p].rightMost)
    /\ \A c \in Closures : c # t /\ c # p => Kept(c)

(* When t returns to p, p has no callee any more, and all other families   *)
(* stay.                                                                   *)
LEMMA Uncalled ==
    ASSUME Types, Parents, NEW p, NEW t, Uncalls(p, t)
    PROVE  /\ Alive' = Alive \ {t} /\ CalledBy(p) = {t} /\ CalledBy(p)' = {}
           /\ \A q \in Closures : SpawnedBy(q)' = SpawnedBy(q)
           /\ \A q \in Closures : q # p => CalledBy(q)' = CalledBy(q)
           /\ \A x \in Closures : x # t =>
                /\ cl'[x].spawnParent = cl[x].spawnParent /\ cl'[x].callParent = cl[x].callParent
                /\ cl'[x].leftSib = cl[x].leftSib /\ cl'[x].rightSib = cl[x].rightSib
                /\ cl'[x].rightMost = cl[x].rightMost /\ cl'[x].frame = cl[x].frame
                /\ cl'[x].join = IF x = p THEN cl[p].join - 1 ELSE cl[x].join
                /\ cl'[x].status = IF x = p THEN "running" ELSE cl[x].status
<1>0. /\ p \in Closures /\ t \in Closures /\ p # t /\ cl'[t].status = "invalid"
      /\ Null \notin Closures
      /\ t \in Alive /\ p \in Alive /\ cl[t].callParent = p
  BY Nulls DEF Uncalls, Alive, FreeClosure
<1>1. \A x \in Closures : x # t =>
                /\ cl'[x].spawnParent = cl[x].spawnParent /\ cl'[x].callParent = cl[x].callParent
                /\ cl'[x].leftSib = cl[x].leftSib /\ cl'[x].rightSib = cl[x].rightSib
                /\ cl'[x].rightMost = cl[x].rightMost /\ cl'[x].frame = cl[x].frame
                /\ cl'[x].join = IF x = p THEN cl[p].join - 1 ELSE cl[x].join
                /\ cl'[x].status = IF x = p THEN "running" ELSE cl[x].status
  <2>1. ASSUME NEW x \in Closures, x # t, x # p PROVE Kept(x)
    BY <2>1 DEF Uncalls
  <2>2. Node(p, "running", cl[p].frame, cl[p].join - 1, cl[p].callParent,
            cl[p].spawnParent, cl[p].leftSib, cl[p].rightSib, cl[p].rightMost)
    BY DEF Uncalls
  <2> QED BY <2>1, <2>2 DEF Kept, Node
<1>2. Alive' = Alive \ {t}
  BY <1>0, <1>1 DEF Alive
<1>3. \A q : SpawnedBy(q)' = SpawnedBy(q) \ {t} /\ CalledBy(q)' = CalledBy(q) \ {t}
  BY <1>1, <1>2 DEF SpawnedBy, CalledBy, Alive
<1>4. \A q \in Closures : t \notin SpawnedBy(q)
  BY <1>0 DEF SpawnedBy, Parents
<1>5. CalledBy(p) = {t}
  BY <1>0 DEF CalledBy, Parents
<1>6. \A q \in Closures : q # p => t \notin CalledBy(q)
  BY <1>0 DEF CalledBy
<1> QED BY <1>1, <1>2, <1>3, <1>4, <1>5, <1>6

(* When t returns to p, the tree stays in order.                           *)
LEMMA UncallsTree ==
    ASSUME Types, NEW rk, NEW n, Tree(rk, n), NEW p, NEW t, Uncalls(p, t)
    PROVE  Tree(rk, n)'
<1>0. /\ p \in Closures /\ t \in Closures /\ p \in Alive /\ p # t
      /\ Alive \subseteq Closures
      /\ Parents /\ Joins /\ Ranked(rk, n) /\ Siblings(rk)
  BY DEF Uncalls, Alive, Tree
<1>1. /\ Alive' = Alive \ {t} /\ CalledBy(p) = {t} /\ CalledBy(p)' = {}
      /\ \A q \in Closures : SpawnedBy(q)' = SpawnedBy(q)
      /\ \A q \in Closures : q # p => CalledBy(q)' = CalledBy(q)
  BY <1>0, Uncalled
<1>2. \A x \in Closures : x # t =>
                /\ cl'[x].spawnParent = cl[x].spawnParent /\ cl'[x].callParent = cl[x].callParent
                /\ cl'[x].leftSib = cl[x].leftSib /\ cl'[x].rightSib = cl[x].rightSib
                /\ cl'[x].rightMost = cl[x].rightMost
                /\ cl'[x].join = IF x = p THEN cl[p].join - 1 ELSE cl[x].join
                /\ cl'[x].status = IF x = p THEN "running" ELSE cl[x].status
  BY <1>0, Uncalled
<1>3. Childless(t)
  BY DEF Uncalls
<1>4. Parents'
  <2>1. ASSUME NEW x \in Alive, x # t, cl[x].spawnParent # Null
        PROVE  cl[x].spawnParent \in Alive' /\ cl[x].callParent = Null
    BY <1>0, <1>1, <1>3, <2>1 DEF Parents, Childless, SpawnedBy
  <2>2. ASSUME NEW x \in Alive, x # t, cl[x].callParent # Null
        PROVE  cl[x].callParent \in Closures /\ cl'[cl[x].callParent].status = "suspended"
    <3>1. /\ cl[x].callParent \in Closures /\ cl[cl[x].callParent].status = "suspended"
      BY <1>0, <2>2 DEF Parents
    <3>2. cl[x].callParent # t /\ cl[x].callParent # p
      BY <1>1, <1>3, <2>2 DEF Childless, CalledBy
    <3> QED BY <1>2, <3>1, <3>2
  <2>3. \A x \in Alive : x # t => cl'[x].spawnParent = cl[x].spawnParent /\ cl'[x].callParent = cl[x].callParent
    BY <1>0, <1>2
  <2> QED BY <1>0, <1>1, <2>1, <2>2, <2>3 DEF Parents
<1>5. Ranked(rk, n)'
  BY <1>0, <1>1 DEF Ranked
<1>6. Joins'
  <2>1. ASSUME NEW q \in Alive, q # t, q # p
        PROVE  cl'[q].join = Cardinality(SpawnedBy(q)') + Cardinality(CalledBy(q)')
    BY <1>0, <1>1, <1>2, <2>1 DEF Joins
  <2>2. cl'[p].join = Cardinality(SpawnedBy(p)') + Cardinality(CalledBy(p)')
    <3>1. /\ cl'[p].join = cl[p].join - 1
          /\ cl[p].join = Cardinality(SpawnedBy(p)) + Cardinality(CalledBy(p))
      BY <1>0, <1>2 DEF Joins
    <3>2. Cardinality(CalledBy(p)) = 1 /\ Cardinality(CalledBy(p)') = 0
      BY <1>1, FS_EmptySet, FS_Singleton
    <3>3. Cardinality(SpawnedBy(p)) \in Nat
      <4>1. IsFiniteSet(Closures)
        BY FS_Interval, ProgramsAssumption DEF Closures
      <4>2. SpawnedBy(p) \subseteq Closures
        BY DEF SpawnedBy, Alive
      <4> QED BY <4>1, <4>2, FS_Subset, FS_CardinalityType
    <3> QED BY <1>0, <1>1, <3>1, <3>2, <3>3
  <2> QED BY <1>1, <2>1, <2>2 DEF Joins
<1>7. ASSUME NEW q \in Alive, q # t
      PROVE  RightMost(rk, q)' /\ \A d \in SpawnedBy(q)' : Sibling(rk, q, d)'
  <2>1. /\ SpawnedBy(q)' = SpawnedBy(q) /\ cl'[q].rightMost = cl[q].rightMost
        /\ q \in Closures
    BY <1>0, <1>1, <1>2, <1>7
  <2>2. RightMost(rk, q)'
    BY <1>0, <2>1 DEF RightMost, Siblings
  <2>3. ASSUME NEW d \in SpawnedBy(q) PROVE Sibling(rk, q, d)'
    <3>1. d \in Closures /\ d # t
      <4>1. d \in Alive /\ d \in Alive'
        BY <2>1, <2>3 DEF SpawnedBy
      <4> QED BY <1>0, <1>1, <4>1
    <3>3. cl'[d].leftSib = cl[d].leftSib /\ cl'[d].rightSib = cl[d].rightSib
      BY <1>2, <3>1
    <3>4. Sibling(rk, q, d)
      BY <1>0 DEF Siblings
    <3> QED BY <2>1, <3>3, <3>4 DEF Sibling
  <2> QED BY <2>1, <2>2, <2>3
<1>8. Siblings(rk)'
  BY <1>1, <1>7 DEF Siblings
<1> QED BY <1>4, <1>5, <1>6, <1>8 DEF Tree

(* Positions stay when stacks are moved, split or cut, and no frame moves  *)
(* on.                                                                     *)
LEMMA PositionsMoved ==
    ASSUME Types, NEW o, NEW o2, Positions(o), UNCHANGED <<prog, at>>,
           NEW w \in Workers, Others(w),
           unsynced' \subseteq unsynced,
           \A x \in Frames : o[x] = Null => o2[x] = Null,
           \A x \in Frames : x \in stolen' => x \in stolen \/ o[x] # Null,
           \A x \in Frames : o2[x] # Null /\ x \in Links(o2, o2[x])' => o[x] # Null /\ x \in Links(o, o[x]),
           wk'[w].pc \in {"unbusy", "finish"} => SyncAhead(wk'[w].frm)
    PROVE  Positions(o2)'
<1>1. Frames' = Frames /\ \A f : Code(f)' = Code(f)
  BY DEF Frames, Code
<1>2. ASSUME NEW f PROVE SyncAhead(f)' <=> SyncAhead(f)
  BY <1>1, SameAhead
<1>3. ASSUME NEW f \in Frames PROVE at'[f] \in 1 .. Len(Code(f))' + 1 /\ Ahead(o2, f)'
  <2>1. at[f] \in 1 .. Len(Code(f)) + 1 /\ Ahead(o, f)
    BY DEF Positions
  <2>2. ASSUME NEW i \in at[f] .. Len(Code(f)), Entered(f, i)
        PROVE  o2[Code(f)[i].arg] = Null /\ Code(f)[i].arg \notin stolen'
    <3>1. o[Code(f)[i].arg] = Null /\ Code(f)[i].arg \notin stolen
      BY <2>1, <2>2 DEF Ahead
    <3>2. Code(f)[i].arg \in Frames
      <4>1. i \in 1 .. Len(Code(f))
        BY <2>1
      <4> QED BY <2>2, <4>1, ProgramEntries DEF Types, FrameTypes, Entered
    <3> QED BY <3>1, <3>2
  <2> QED BY <1>1, <2>1, <2>2 DEF Ahead, Entered
<1>4. \A x \in unsynced' : SyncAhead(x)'
  BY <1>2 DEF Positions
<1>5. \A x \in Frames : o2[x] # Null /\ x \in Links(o2, o2[x])' => SyncAhead(x)'
  BY <1>2 DEF Positions
<1>6. \A x \in Workers : wk'[x].pc \in {"unbusy", "finish"} => SyncAhead(wk[x].frm)'
  BY <1>2 DEF Positions, Others, Still
<1> QED BY <1>1, <1>3, <1>4, <1>5, <1>6 DEF Positions

(* Between the two halves of a return to a suspended call parent p from    *)
(* closure t with frame g.                                                 *)
Between(w, t, p, g) == wk[w].cl = t /\ busy[w] = p /\ wk[w].cur = g

(* What the invariant says of that worker and the two closures.            *)
LEMMA BetweenFacts ==
    ASSUME NEW o, NEW rk, NEW n, Good(o, rk, n), NEW w \in Workers,
           wk[w].pc = "set_return2",
           NEW t, NEW p, NEW g, Between(w, t, p, g)
    PROVE  /\ t \in Closures /\ p \in Closures /\ g \in Frames /\ t # p /\ t # Null /\ p # Null
           /\ t \in Alive /\ p \in Alive /\ cl[t].callParent = p
           /\ Only(o, t, g) /\ cl[t].frame = Null /\ CalledFrom(o, p, g)
           /\ cl[t].status = "running" /\ cl[p].status = "suspended" /\ busyLock[w] = w
           /\ Childless(t) /\ Links(o, t) = {} /\ (\A f : ~Taken(w, f))
           /\ Free(w, t) /\ Free(w, p) /\ ~Swapped(p) /\ ~Promoting(p)
           /\ g # Root /\ g \notin unsynced /\ g \in stolen /\ ~HasHandler(g) /\ prog.kind[g] # "expr"
<1>0. /\ Types /\ Duties /\ Holding /\ Control /\ Deques(o) /\ Tops(o) /\ Bases(o)
      /\ Points /\ Parents
  BY DEF Good, Control, Tree
<1>e. wk[w].cl = t /\ busy[w] = p /\ wk[w].cur = g
  BY DEF Between
<1>1. Duty(w) /\ Held(w) /\ Top(o, w) /\ Point(w)
  BY <1>0 DEF Duties, Holding, Tops, Points
<1>2. t \in Closures /\ Holds(w, t) /\ cl[t].status = "running" /\ Null \notin Closures
  BY <1>e, <1>0, CarryWork, Nulls DEF Carrying
<1>3. p \in Closures /\ busyLock[w] = w /\ cl[t].callParent = p
  BY <1>e, <1>0, <1>1 DEF Duty, Idling, Locked, Types, LockTypes
<1>4. cl[p].status = "suspended" /\ Holds(w, p)
  BY <1>e, <1>1, <1>3 DEF Held, Holds
<1>5. t # p /\ t # Null /\ p # Null /\ t \in Alive /\ p \in Alive
  BY <1>2, <1>3, <1>4 DEF Alive
<1>6. Only(o, t, g) /\ cl[t].frame = Null /\ CalledFrom(o, p, g) /\ g \in Frames
  BY <1>e, <1>1 DEF Top, Only
<1>7. Free(w, t) /\ Free(w, p)
  BY <1>e, <1>0, <1>2, <1>3, <1>4, FreeOfOthers
<1>8. ~Swapped(p) /\ ~Promoting(p)
  BY <1>e, <1>5, <1>7 DEF Swapped, Promoting, Free, Holds, Carries, Carrying
<1>9. Childless(t)
  <2>1. SpawnedBy(t) = {}
    BY <1>0, <1>5, <1>6 DEF Bases, Spawning
  <2>2. CalledBy(t) = {}
    BY <1>0, <1>2, <1>5 DEF CalledBy, Parents
  <2> QED BY <2>1, <2>2 DEF Childless
<1>10. Links(o, t) = {}
  BY <1>0, <1>2, <1>6, NoLinks
<1>11. \A f : ~Taken(w, f)
  BY <1>0, <1>3, NotTaken
<1>12. /\ g # Root /\ g \notin unsynced /\ g \in stolen /\ ~HasHandler(g)
       /\ prog.kind[g] # "expr"
  BY <1>e, <1>1 DEF Point, AfterSync
<1> QED BY <1>2, <1>3, <1>4, <1>5, <1>6, <1>7, <1>8, <1>9, <1>10, <1>11, <1>12

(* A called frame goes away with its closure, a spawned one is handed over *)
(* to the call parent, which holds its helper.                             *)
Hands(o, o2, t, p, g) ==
    /\ \A x \in Frames : x # g => o2[x] = o[x]
    /\ prog.kind[g] = "call" => o2[g] = Null
    /\ prog.kind[g] # "call" => o2[g] = p

(* The stacks after the frame was handed over.                             *)
LEMMA HandsOver ==
    ASSUME Types, NEW o, NEW o2, NEW t \in Closures, NEW p \in Closures,
           NEW g \in Frames, t # p,
           Hands(o, o2, t, p, g), Only(o, t, g), CalledFrom(o, p, g), Chained(o),
           g # Root
    PROVE  /\ \A x \in Frames : o2[x] # t /\ (o2[x] # Null => o[x] # Null)
           /\ \A c \in Closures : c # t /\ c # p => Same(o, o2, c)
           /\ prog.kind[g] = "call" => Same(o, o2, p)
           /\ prog.kind[g] # "call" => Only(o2, p, g)
           /\ Chained(o2)
<1>0. Null \notin Closures /\ t # Null /\ p # Null
  BY Nulls
<1>1. \A x \in Frames : o[x] = t <=> x = g
  BY DEF Only
<1>2. prog.kind[g] # "call" => \A x \in Frames : o[x] # p
  BY DEF CalledFrom, Bare
<1>3. \A x \in Frames : o2[x] # t /\ (o2[x] # Null => o[x] # Null)
  BY <1>0, <1>1 DEF Hands
<1>4. \A c \in Closures : c # t /\ c # p => Same(o, o2, c)
  BY <1>0, <1>1 DEF Hands, Same
<1>5. prog.kind[g] = "call" => Same(o, o2, p)
  BY <1>0, <1>1 DEF Hands, Same
<1>6. prog.kind[g] # "call" => Only(o2, p, g)
  BY <1>1, <1>2 DEF Hands, Only
<1>7. Chained(o2)
  <2> SUFFICES ASSUME NEW x \in Frames, NEW y \in Frames, o2[x] # Null,
                      o2[x] = o2[y], x < y
               PROVE  o2[prog.parent[y]] = o2[y] /\ x <= prog.parent[y]
    BY DEF Chained
  <2>0. x \in Nat \ {0} /\ y \in Nat /\ x # y
    BY ProgramFrames DEF Types, FrameTypes
  <2>1. x # g /\ y # g
    <3>1. prog.kind[g] = "call" => x # g /\ y # g
      BY DEF Hands
    <3>2. prog.kind[g] # "call" => x # g /\ y # g
      BY <1>6, <2>0 DEF Only
    <3> QED BY <3>1, <3>2
  <2>2. o[x] = o2[x] /\ o[y] = o2[y] /\ o[x] # t
    BY <1>1, <2>1 DEF Hands
  <2>3. o[prog.parent[y]] = o[y] /\ x <= prog.parent[y]
    BY <2>2 DEF Chained
  <2>4. y # Root
    BY <2>0 DEF Root
  <2>5. prog.parent[y] \in Frames
    BY <2>4, ProgramFrames DEF Types, FrameTypes
  <2>6. prog.parent[y] # g
    BY <1>1, <2>2, <2>3
  <2> QED BY <2>2, <2>3, <2>5, <2>6 DEF Hands
<1> QED BY <1>3, <1>4, <1>5, <1>6, <1>7

(* The second half of a return to a call parent keeps the invariant.       *)
LEMMA SetReturnResumeGood ==
    ASSUME NEW o, NEW rk, NEW n, Good(o, rk, n), NEW w \in Workers, SetReturnResume(w)
    PROVE  \E o2 : Good(o2, rk, n)'
<1>0. /\ Types /\ Duties /\ Holding /\ Control /\ Deques(o) /\ Stacks(o)
      /\ Ghosts(o, rk)
      /\ Tops(o) /\ Bases(o) /\ Points /\ Parents /\ Owned(o) /\ Positions(o)
      /\ Chained(o) /\ Tree(rk, n)
  BY DEF Good, Control, Tree, Stacks
<1>1. wk[w].pc = "set_return2"
  BY DEF SetReturnResume
<1>2. PICK t, p, g : Between(w, t, p, g)
  BY DEF Between
<1>3. /\ t \in Closures /\ p \in Closures /\ g \in Frames /\ t # p /\ t # Null
      /\ p # Null
      /\ t \in Alive /\ p \in Alive /\ cl[t].callParent = p
      /\ Only(o, t, g) /\ cl[t].frame = Null /\ CalledFrom(o, p, g)
      /\ cl[t].status = "running" /\ cl[p].status = "suspended" /\ busyLock[w] = w
      /\ Childless(t) /\ Links(o, t) = {} /\ (\A f : ~Taken(w, f))
      /\ Free(w, t) /\ Free(w, p) /\ ~Swapped(p) /\ ~Promoting(p)
      /\ g # Root /\ g \notin unsynced /\ g \in stolen /\ ~HasHandler(g)
      /\ prog.kind[g] # "expr"
  BY <1>1, <1>2, BetweenFacts
<1>4. wk[w].cl = t /\ busy[w] = p /\ wk[w].cur = g /\ Cur(w) = g
  BY <1>2 DEF Between, Cur
<1>5. /\ Types' /\ UNCHANGED <<prog, at, stolen, unsynced, busy, dq>>
      /\ cl'[t] = FreeClosure
      /\ Node(p, "running", cl[p].frame, cl[p].join - 1, cl[p].callParent,
              cl[p].spawnParent, cl[p].leftSib, cl[p].rightSib, cl[p].rightMost)
      /\ \A c \in Closures : c # t /\ c # p => Kept(c)
      /\ busyLock' = [busyLock EXCEPT ![w] = Null]
      /\ prog.kind[g] = "call" =>
           /\ Moves(w, IF unw[g].exn # Null THEN "unwind" ELSE "user",
                    prog.parent[g], t, wk[w].vic, wk[w].frm, wk[w].why)
           /\ home' = [home EXCEPT ![g] = Null]
           /\ unw' = PassedUp(g)
      /\ prog.kind[g] # "call" =>
           /\ Goes(w, IF unw[g].exn # Null THEN "landing" ELSE "helper")
           /\ UNCHANGED <<home, unw>>
  <2>1. Types /\ Cur(w) \in Frames /\ Cur(w) # Root /\ wk[w].cl \in Closures
        /\ cl[wk[w].cl].callParent \in Closures /\ cl[wk[w].cl].callParent # wk[w].cl
        /\ cl[cl[wk[w].cl].callParent].status # "invalid"
    BY <1>0, <1>3, <1>4
  <2> QED BY <1>3, <1>4, <2>1, SetReturnResumeStep
<1>6. PICK o2 \in [Frames -> Closures \cup {Null}] : Hands(o, o2, t, p, g)
  <2>1. CASE prog.kind[g] = "call"
    <3>1. [o EXCEPT ![g] = Null] \in [Frames -> Closures \cup {Null}]
      BY <1>0 DEF Ghosts
    <3>2. Hands(o, [o EXCEPT ![g] = Null], t, p, g)
      BY <1>0, <1>3, <2>1 DEF Ghosts, Hands
    <3> QED BY <3>1, <3>2
  <2>2. CASE prog.kind[g] # "call"
    <3>1. [o EXCEPT ![g] = p] \in [Frames -> Closures \cup {Null}]
      BY <1>0, <1>3 DEF Ghosts
    <3>2. Hands(o, [o EXCEPT ![g] = p], t, p, g)
      BY <1>0, <1>3, <2>2 DEF Ghosts, Hands
    <3> QED BY <3>1, <3>2
  <2> QED BY <2>1, <2>2
<1>7. /\ \A x \in Frames : o2[x] # t /\ (o2[x] # Null => o[x] # Null)
      /\ \A c \in Closures : c # t /\ c # p => Same(o, o2, c)
      /\ prog.kind[g] = "call" => Same(o, o2, p)
      /\ prog.kind[g] # "call" => Only(o2, p, g)
      /\ Chained(o2)
  BY <1>0, <1>3, <1>6, HandsOver
<1>8. Uncalls(p, t)
  BY <1>3, <1>5 DEF Uncalls
<1>9. /\ Alive' = Alive \ {t} /\ CalledBy(p) = {t} /\ CalledBy(p)' = {}
      /\ \A q \in Closures : SpawnedBy(q)' = SpawnedBy(q)
      /\ \A q \in Closures : q # p => CalledBy(q)' = CalledBy(q)
      /\ \A x \in Closures : x # t =>
           /\ cl'[x].spawnParent = cl[x].spawnParent /\ cl'[x].callParent = cl[x].callParent
           /\ cl'[x].frame = cl[x].frame
           /\ cl'[x].status = IF x = p THEN "running" ELSE cl[x].status
  BY <1>0, <1>8, Uncalled
<1>10. Tree(rk, n)'
  BY <1>0, <1>8, UncallsTree
<1>11. /\ Others(w) /\ Frames' = Frames /\ OthersLocks(w)
       /\ busy'[w] = p /\ dq'[w] = dq[w] /\ OthersBusy(w) /\ OthersDq(w)
       /\ wk'[w].pc \in {"user", "unwind", "helper", "landing"}
       /\ prog.kind[g] = "call" => /\ wk'[w].pc \in {"user", "unwind"} /\ wk'[w].cur = prog.parent[g]
       /\ prog.kind[g] # "call" => /\ wk'[w].pc \in {"helper", "landing"} /\ wk'[w].cur = g
  <2>1. prog.kind[g] = "call" =>
           Others(w) /\ wk'[w].pc \in {"user", "unwind"} /\ wk'[w].cur = prog.parent[g]
    BY <1>5 DEF Moves
  <2>2. prog.kind[g] # "call" =>
           Others(w) /\ wk'[w].pc \in {"helper", "landing"} /\ wk'[w].cur = g
    BY <1>4, <1>5 DEF Goes, Moves
  <2>3. OthersLocks(w)
    BY <1>0, <1>3, <1>5, LocksKept
  <2>4. /\ busy'[w] = p /\ dq'[w] = dq[w] /\ OthersBusy(w) /\ OthersDq(w)
        /\ Frames' = Frames
    BY <1>4, <1>5 DEF OthersBusy, OthersDq, Frames
  <2> QED BY <2>1, <2>2, <2>3, <2>4
<1>12. Duties'
  <2>1. Duty(w)'
    BY <1>3, <1>11 DEF Duty, Carrying, Idling, Locked
  <2>2. \A c \in Closures : Free(w, c) \/ cl'[c].callParent = cl[c].callParent
    BY <1>3, <1>9
  <2> QED BY <1>0, <1>3, <1>11, <2>1, <2>2, DutiesStep
<1>13. Holding'
  <2>1. \A c \in Closures : Holds(w, c)' => c = p
    BY <1>11 DEF Holds, Carries, Carrying
  <2>2. Held(w)'
    BY <1>3, <1>9, <1>11 DEF Held, Carries, Carrying
  <2>3. \A c \in Closures : Free(w, c) \/ cl'[c].status = cl[c].status
    BY <1>3, <1>9
  <2> QED BY <1>0, <1>3, <1>11, <2>1, <2>2, <2>3, HoldingStep
<1>t. PICK T, W : (\A c : c \in T <=> (c = t \/ c = p)) /\ (\A x : x \in W <=> x = w)
  <2>1. (\A c : c \in {t, p} <=> (c = t \/ c = p)) /\ (\A x : x \in {w} <=> x = w)
    OBVIOUS
  <2> QED BY <2>1
<1>14. \A c \in Closures : c \notin T => Untouched(o, o2, c) /\ \A x \in W : busy[x] # c
  BY <1>t, <1>4, <1>7, <1>9 DEF Untouched
<1>15. \A x \in Workers : x \notin W => Aside(x, T)
  <2>1. \A x \in Workers, f \in Frames : Taken(x, f)' <=> Taken(x, f)
    <3>1. wk[w].pc # "promote" /\ wk'[w].pc # "promote"
      BY <1>1, <1>11
    <3> QED BY <1>11, <3>1, SamesTaken
  <2> QED BY <1>t, <1>3, <1>11, <2>1 DEF Aside, Others, OthersBusy, OthersDq, Free
<1>16. \A c \in Alive : c # t =>
         cl[c].callParent # t /\ (c # p => cl[c].callParent # p)
         /\ \A f \in Frames : SpawnedFrom(c, f) => SpawnedFrom(c, f)'
  <2> SUFFICES ASSUME NEW c \in Alive, c # t
               PROVE  cl[c].callParent # t /\ cl[c].callParent # p
                      /\ \A f \in Frames : SpawnedFrom(c, f) => SpawnedFrom(c, f)'
    OBVIOUS
  <2>1. /\ cl[c].callParent # t /\ cl[c].spawnParent # t /\ c \in Closures
        /\ cl[c].callParent # p
    BY <1>3, <1>9 DEF Childless, CalledBy, SpawnedBy, Alive
  <2>2. cl[c].spawnParent # Null => cl[c].spawnParent \in Closures
    BY <1>0 DEF Parents, Alive
  <2> QED BY <1>5, <1>9, <2>1, <2>2 DEF SpawnedFrom
<1>17. \A c \in Alive : c \notin T =>
         cl[c].callParent \notin T /\ \A f \in Frames : SpawnedFrom(c, f) => SpawnedFrom(c, f)'
  BY <1>t, <1>16
<1>18. \A f \in Frames : home'[f] # Null \/ f \in unsynced' => o2[f] # Null
  <2>1. \A f \in Frames : home[f] # Null \/ f \in unsynced => o[f] # Null
    BY <1>0 DEF Owned, Bases
  <2>2. \A f \in Frames : f # g => o2[f] = o[f]
    BY <1>6 DEF Hands
  <2>3. prog.kind[g] # "call" => o2[g] = p
    BY <1>6 DEF Hands
  <2>4. prog.kind[g] = "call" => home'[g] = Null
    BY <1>0, <1>3, <1>5 DEF Types, FrameTypes
  <2>5. \A f \in Frames : f # g => home'[f] = home[f]
    BY <1>0, <1>5 DEF Types, FrameTypes
  <2> QED BY <1>3, <1>5, <2>1, <2>2, <2>3, <2>4, <2>5
<1>19. prog.kind[g] # "call" =>
         /\ cl[p].frame = Null /\ SpawnedFrom(p, g) /\ prog.kind[g] = "spawn"
         /\ Links(o, p) = {} /\ Links(o2, p)' = {} /\ dq[w] = <<>>
  <2> SUFFICES ASSUME prog.kind[g] # "call"
               PROVE  /\ cl[p].frame = Null /\ SpawnedFrom(p, g) /\ prog.kind[g] = "spawn"
                      /\ Links(o, p) = {} /\ Links(o2, p)' = {} /\ dq[w] = <<>>
    OBVIOUS
  <2>1. cl[p].frame = Null /\ SpawnedFrom(p, g) /\ prog.kind[g] = "spawn" /\ Bare(o, p)
    BY <1>3 DEF CalledFrom, Bare
  <2>2. Links(o, p) = {} /\ Links(o2, p) = {}
    BY <1>0, <1>3, <1>7, <2>1, NoLinks
  <2>3. Links(o2, p)' = Links(o2, p)
    BY <1>5, <1>11 DEF Links, LinksTo, Inner
  <2>4. dq[w] = <<>>
    BY <1>0, <1>3, <1>4, <2>2, EmptyDeque
  <2> QED BY <2>1, <2>2, <2>3, <2>4
<1>20. prog.kind[g] = "call" =>
         Links(o2, p)' = Links(o, p) /\ TopOf(o2, p, prog.parent[g])' /\ TopOf(o, p, prog.parent[g])
  <2>1. prog.kind[g] = "call" => Same(o, o2, p) /\ TopOf(o, p, prog.parent[g])
    BY <1>3, <1>7 DEF CalledFrom
  <2> QED BY <1>0, <1>3, <1>5, <2>1, StackSame
<1>21. \A c \in Closures : c \in T => Rebuilt(o2, c)'
  <2>1. t \notin Alive' /\ Links(o2, t)' = {}
    BY <1>7, <1>9, <1>11 DEF Links, LinksTo
  <2>2. Base(o2, p)'
    <3>1. CASE prog.kind[g] = "call"
      <4>1. Base(o, p) /\ Same(o, o2, p)
        BY <1>0, <1>3, <1>7, <3>1 DEF Bases
      <4>2. \A f \in Frames : SpawnedFrom(p, f) => SpawnedFrom(p, f)'
        BY <1>3, <1>16
      <4>3. cl[p].callParent # Null =>
             /\ Same(o, o2, cl[p].callParent)
             /\ cl'[cl[p].callParent].frame = cl[cl[p].callParent].frame
             /\ \A f \in Frames : SpawnedFrom(cl[p].callParent, f) => SpawnedFrom(cl[p].callParent, f)'
        <5> SUFFICES ASSUME cl[p].callParent # Null
                     PROVE  /\ Same(o, o2, cl[p].callParent)
                            /\ cl'[cl[p].callParent].frame = cl[cl[p].callParent].frame
                            /\ \A f \in Frames : SpawnedFrom(cl[p].callParent, f) => SpawnedFrom(cl[p].callParent, f)'
          OBVIOUS
        <5>1. PICK q : q = cl[p].callParent
          OBVIOUS
        <5>2. q \in Closures /\ q \in Alive /\ q # t
          BY <1>0, <1>3, <1>16, <5>1 DEF Parents, Alive
        <5>3. q # p
          BY <1>3, <1>9, <5>1 DEF CalledBy
        <5>4. Same(o, o2, q) /\ cl'[q].frame = cl[q].frame /\ \A f \in Frames : SpawnedFrom(q, f) => SpawnedFrom(q, f)'
          BY <1>7, <1>9, <1>16, <5>2, <5>3
        <5>5. cl'[p].callParent = q
          BY <1>3, <1>9, <5>1
        <5> QED BY <5>1, <5>4, <5>5
      <4>4. /\ cl'[p].frame = cl[p].frame /\ cl'[p].callParent = cl[p].callParent
            /\ cl'[p].spawnParent = cl[p].spawnParent
        BY <1>3, <1>9
      <4>5. stolen \subseteq stolen' /\ prog' = prog /\ ~Swapped(p)
        BY <1>3, <1>5
      <4> QED BY <1>0, <1>3, <4>1, <4>2, <4>3, <4>4, <4>5, BaseKept
    <3>2. CASE prog.kind[g] # "call"
      <4>1. cl'[p].frame = Null /\ cl'[p].spawnParent # Null
        BY <1>3, <1>9, <1>19, <3>2 DEF SpawnedFrom
      <4> QED BY <4>1 DEF Base
    <3> QED BY <3>1, <3>2
  <2>3. SpawnedBy(p)' # {} => Spawning(p)'
    <3>1. SpawnedBy(p)' # {} => cl[p].frame # Null /\ cl[p].frame \in unsynced
      BY <1>0, <1>3, <1>9 DEF Bases, Spawning
    <3>2. cl'[p].frame = cl[p].frame /\ unsynced' = unsynced
      BY <1>3, <1>5, <1>9
    <3> QED BY <3>1, <3>2 DEF Spawning
  <2>4. ~Waiting(p)' /\ busy'[w] = p
    BY <1>3, <1>9, <1>11 DEF Waiting
  <2> QED BY <1>t, <2>1, <2>2, <2>3, <2>4 DEF Rebuilt
<1>22. Helping(w)' \/ prog.kind[g] = "call"
  BY <1>3, <1>5, <1>11 DEF Helping, HasHandler
<1>23. \A f \in Frames : o2[f] \in T => Restacked(o2, f)'
  <2> SUFFICES ASSUME NEW f \in Frames, o2[f] = p PROVE Restacked(o2, f)'
    BY <1>t, <1>7
  <2>0. p \in Alive'
    BY <1>3, <1>9
  <2>1. CASE prog.kind[g] = "call"
    <3>1. o[f] = p /\ Same(o, o2, p)
      BY <1>7, <2>1 DEF Same
    <3>2. Inner(o2, f)' <=> Inner(o, f)
      BY <1>0, <1>3, <1>5, <3>1, StackSame
    <3>3. cl'[p].frame = cl[p].frame
      BY <1>3, <1>9
    <3>4. ~Inner(o, f) => Bottom(o, f)
      BY <1>0, <1>3, <3>1 DEF Stacks, Bottoms
    <3>5. Bottom(o, f) => Bottom(o2, f)'
      BY <1>3, <1>5, <1>16, <3>1, <3>3 DEF Bottom
    <3>6. f \in stolen => cl[p].frame = f
      <4> SUFFICES ASSUME f \in stolen, cl[p].frame # f PROVE FALSE
        OBVIOUS
      <4>1. Stolen(o, f)
        BY <1>0, <1>3, <3>1 DEF Bases
      <4>2. PICK y \in Workers : (wk[y].pc = "set_return2" /\ wk[y].cl = p) \/ (busy[y] = p /\ Helping(y))
        BY <3>1, <4>1 DEF Stolen
      <4>3. ~(wk[y].pc = "set_return2" /\ wk[y].cl = p)
        BY <1>3 DEF Swapped
      <4>4. busy[y] = p /\ Helping(y)
        BY <4>2, <4>3
      <4>5. y = w
        BY <1>3, <4>4 DEF Free, Holds
      <4> QED BY <1>1, <4>4, <4>5 DEF Helping
    <3>7. f \in stolen' => Stolen(o2, f)'
      BY <1>5, <3>3, <3>6 DEF Stolen
    <3>8. f \in unsynced' => f \in stolen' /\ cl'[o2[f]].frame = f
      BY <1>0, <1>5, <3>1, <3>3 DEF Bases
    <3> QED BY <2>0, <3>2, <3>4, <3>5, <3>7, <3>8 DEF Restacked
  <2>2. CASE prog.kind[g] # "call"
    <3>1. f = g
      BY <1>7, <2>2 DEF Only
    <3>2. Stolen(o2, f)'
      <4>1. busy'[w] = o2[f] /\ wk'[w].cur = f /\ Helping(w)'
        BY <1>11, <1>22, <2>2, <3>1
      <4> QED BY <4>1 DEF Stolen
    <3>3. Bottom(o2, f)'
      <4>1. /\ cl'[p].frame = Null /\ prog'.kind[f] \in {"spawn", "expr"}
            /\ SpawnedFrom(p, f)'
        BY <1>3, <1>5, <1>9, <1>16, <1>19, <2>2, <3>1
      <4> QED BY <4>1 DEF Bottom
    <3> QED BY <1>3, <1>5, <2>0, <3>1, <3>2, <3>3 DEF Restacked
  <2> QED BY <2>1, <2>2
<1>24. \A x \in Workers : x \in W => Top(o2, x)' /\ Deque(o2, x)' /\ Point(x)'
  <2>1. Top(o2, w)'
    <3>1. prog.kind[g] # "call" => TopOf(o2, p, g)'
      <4>1. g \in Nat
        BY <1>0, <1>3, ProgramFrames DEF Types, FrameTypes
      <4>2. prog.kind[g] # "call" => o2[g] = p /\ \A x \in Frames : o2[x] = p => x = g
        BY <1>3, <1>7 DEF Only
      <4>3. g <= g
        BY <4>1
      <4> QED BY <1>3, <1>11, <4>2, <4>3 DEF TopOf
    <3>2. TopOf(o2, busy[w], wk[w].cur)'
      <4>1. prog.kind[g] = "call" => TopOf(o2, busy[w], wk[w].cur)'
        BY <1>5, <1>11, <1>20 DEF TopOf
      <4>2. prog.kind[g] # "call" => TopOf(o2, busy[w], wk[w].cur)'
        BY <1>11, <3>1 DEF TopOf
      <4> QED BY <4>1, <4>2
    <3> QED BY <1>11, <3>2 DEF Top
  <2>2. Deque(o2, w)'
    <3>1. \A f \in Frames : Taken(w, f)' <=> Taken(w, f)
      <4>1. wk[w].pc # "promote" /\ wk'[w].pc # "promote"
        BY <1>1, <1>11
      <4> QED BY <1>11, <4>1, SamesTaken
    <3>2. CASE prog.kind[g] = "call"
      <4>1. busy'[w] = busy[w] /\ dq'[w] = dq[w] /\ Same(o, o2, busy[w])
        BY <1>4, <1>7, <1>11, <3>2
      <4> QED BY <1>0, <1>5, <3>1, <4>1, DequeOfOther
    <3>3. CASE prog.kind[g] # "call"
      <4>1. ToSet(dq'[w]) = {} /\ DOMAIN dq'[w] = {} /\ Links(o2, busy[w])' = {}
        BY <1>11, <1>19, <3>3 DEF ToSet
      <4> QED BY <1>3, <1>11, <3>1, <4>1 DEF Deque
    <3> QED BY <3>2, <3>3
  <2>3. Point(w)'
    <3>1. CASE prog.kind[g] = "call"
      <4>1. wk'[w].pc = "unwind" => unw'[prog.parent[g]].exn # Null
        <5> SUFFICES ASSUME wk'[w].pc = "unwind" PROVE unw'[prog.parent[g]].exn # Null
          OBVIOUS
        <5>1. unw[g].exn # Null
          BY <1>5, <3>1 DEF Moves
        <5>2. prog.parent[g] \in Frames
          BY <1>0, <1>3, ProgramFrames DEF Types, FrameTypes
        <5>3. unw' = [unw EXCEPT ![g] = NotUnwinding,
                     ![prog.parent[g]] = [exn |-> unw[g].exn, sp |-> home[g]]]
          BY <1>5, <3>1, <5>1 DEF PassedUp
        <5>4. unw'[prog.parent[g]] = [exn |-> unw[g].exn, sp |-> home[g]]
          BY <1>0, <5>2, <5>3 DEF Types, FrameTypes
        <5> QED BY <5>1, <5>4
      <4> QED
        BY <1>11, <3>1, <4>1
           DEF Point, BeforeSync, AfterSync, Reducing, Resuming, Helping
    <3>2. CASE prog.kind[g] # "call"
      <4>1. /\ wk'[w].pc \in {"helper", "landing"} /\ wk'[w].cur = g
            /\ g \notin unsynced' /\ prog'.kind[g] = "spawn"
            /\ cl'[busy'[w]].frame # g
        <5>1. cl'[busy'[w]].frame = Null
          BY <1>3, <1>9, <1>11, <1>19, <3>2
        <5> QED BY <1>0, <1>3, <1>5, <1>11, <1>19, <3>2, <5>1, Nulls
      <4> QED BY <4>1 DEF Point, BeforeSync, AfterSync, Reducing, Resuming
    <3> QED BY <3>1, <3>2
  <2> QED BY <1>t, <2>1, <2>2, <2>3
<1>25. Positions(o2)'
  <2>1. ASSUME NEW x \in Frames, o2[x] # Null, x \in Links(o2, o2[x])'
        PROVE  o[x] # Null /\ x \in Links(o, o[x])
    <3>1. PICK c \in Closures : o2[x] = c
      BY <2>1
    <3>2. prog.kind[g] = "call" \/ c # p
      BY <1>19, <2>1, <3>1
    <3>3. Same(o, o2, c) /\ c # Null
      BY <1>7, <2>1, <3>1, <3>2
    <3>4. Links(o2, c)' = Links(o, c) /\ o[x] = c
      BY <1>0, <1>5, <3>1, <3>3, StackSame DEF Same
    <3> QED BY <2>1, <3>1, <3>3, <3>4
  <2>2. \A x \in Frames : o[x] = Null => o2[x] = Null
    BY <1>7
  <2>3. wk'[w].pc \notin {"unbusy", "finish"}
    BY <1>11
  <2>4. unsynced' \subseteq unsynced /\ \A x \in Frames : x \in stolen' => x \in stolen
    BY <1>5
  <2> QED BY <1>0, <1>5, <1>11, <2>1, <2>2, <2>3, <2>4, PositionsMoved
<1>26. \A f \in Frames : o[f] \in Closures /\ o[f] \notin T =>
         /\ at'[f] = at[f] /\ unw'[f] = unw[f] /\ (f \in unsynced' <=> f \in unsynced)
         /\ (f \in stolen' <=> f \in stolen)
  <2> SUFFICES ASSUME NEW f \in Frames, o[f] # t, o[f] # p PROVE unw'[f] = unw[f]
    BY <1>t, <1>5
  <2>1. CASE prog.kind[g] = "call"
    <3>1. f # g /\ f # prog.parent[g]
      BY <1>3, <1>20, <2>1 DEF Only, TopOf
    <3> QED BY <1>0, <1>5, <2>1, <3>1 DEF PassedUp, Types, FrameTypes
  <2> QED BY <1>5, <2>1
<1>27. /\ Types' /\ prog' = prog /\ stolen \subseteq stolen'
       /\ rk \in [Closures -> Nat]
       /\ (wk[w].pc = "set_return2" => wk[w].cl \in T)
       /\ wk[w].pc \notin {"unbusy", "finish"} /\ w \in W
  BY <1>t, <1>0, <1>1, <1>4, <1>5 DEF Ghosts
<1>28. Good(o2, rk, n)'
  BY <1>6, <1>7, <1>10, <1>11, <1>12, <1>13, <1>14, <1>15, <1>17, <1>18, <1>21,
     <1>23, <1>24, <1>25, <1>26, <1>27, TouchStep
<1> QED BY <1>28

(***************************************************************************)
(* A closure gets a new child; a closure calls a new one.                  *)
(***************************************************************************)

(* Closure t, whose frame is f from now on, gets the new right-most child  *)
(* c.                                                                      *)
Sprouts(t, c, f) ==
    /\ t \in Closures /\ c \in Closures /\ c # t /\ cl[t].status = "running" /\ cl[c].status = "invalid"
    /\ cl[t].rightMost # c /\ cl[t].rightMost # t
    /\ Node(c, "running", Null, 0, Null, t, cl[t].rightMost, Null, Null)
    /\ Node(t, "running", f, cl[t].join + 1, cl[t].callParent,
            cl[t].spawnParent, cl[t].leftSib, cl[t].rightSib, c)
    /\ \A x \in Closures : x # c /\ x # t =>
         Node(x, cl[x].status, cl[x].frame, cl[x].join, cl[x].callParent, cl[x].spawnParent,
              cl[x].leftSib, IF x = cl[t].rightMost THEN c ELSE cl[x].rightSib, cl[x].rightMost)

(* A closure that is not in use has no children.                           *)
LEMMA DeadChildless ==
    ASSUME Types, Parents, NEW c \in Closures, cl[c].status = "invalid"
    PROVE  SpawnedBy(c) = {} /\ CalledBy(c) = {}
<1>1. c # Null
  BY Nulls
<1> QED BY <1>1 DEF SpawnedBy, CalledBy, Parents, Alive

(* The families when t gets the child c.                                   *)
LEMMA Sprouted ==
    ASSUME Types, NEW rk, NEW n, Tree(rk, n), NEW t, NEW c, NEW f, Sprouts(t, c, f)
    PROVE  /\ Alive' = Alive \cup {c} /\ c \notin Alive /\ t \in Alive
           /\ SpawnedBy(t)' = SpawnedBy(t) \cup {c} /\ c \notin SpawnedBy(t)
           /\ SpawnedBy(c)' = {} /\ SpawnedBy(c) = {} /\ CalledBy(c)' = {} /\ CalledBy(t) = {}
           /\ \A q \in Closures : q # t => SpawnedBy(q)' = SpawnedBy(q)
           /\ \A q \in Closures : CalledBy(q)' = CalledBy(q)
           /\ \A x \in Closures : x # c =>
                /\ cl'[x].status = cl[x].status /\ cl'[x].callParent = cl[x].callParent
                /\ cl'[x].spawnParent = cl[x].spawnParent /\ cl'[x].leftSib = cl[x].leftSib
                /\ cl'[x].rightMost = IF x = t THEN c ELSE cl[x].rightMost
                /\ cl'[x].frame = IF x = t THEN f ELSE cl[x].frame
                /\ cl'[x].join = IF x = t THEN cl[t].join + 1 ELSE cl[x].join
                /\ cl'[x].rightSib = IF x = cl[t].rightMost THEN c ELSE cl[x].rightSib
           /\ cl'[c].status = "running" /\ cl'[c].frame = Null /\ cl'[c].join = 0 /\ cl'[c].callParent = Null
           /\ cl'[c].spawnParent = t /\ cl'[c].leftSib = cl[t].rightMost /\ cl'[c].rightSib = Null
           /\ cl'[c].rightMost = Null
<1>0. /\ t \in Closures /\ c \in Closures /\ c # t /\ Null \notin Closures
      /\ c # Null /\ t # Null
      /\ cl[t].status = "running" /\ cl[c].status = "invalid" /\ Parents
  BY Nulls DEF Sprouts, Tree
<1>1. \A x \in Closures : x # c =>
                /\ cl'[x].status = cl[x].status /\ cl'[x].callParent = cl[x].callParent
                /\ cl'[x].spawnParent = cl[x].spawnParent /\ cl'[x].leftSib = cl[x].leftSib
                /\ cl'[x].rightMost = IF x = t THEN c ELSE cl[x].rightMost
                /\ cl'[x].frame = IF x = t THEN f ELSE cl[x].frame
                /\ cl'[x].join = IF x = t THEN cl[t].join + 1 ELSE cl[x].join
                /\ cl'[x].rightSib = IF x = cl[t].rightMost THEN c ELSE cl[x].rightSib
  BY DEF Sprouts, Node
<1>2. /\ cl'[c].status = "running" /\ cl'[c].frame = Null /\ cl'[c].join = 0
      /\ cl'[c].callParent = Null
      /\ cl'[c].spawnParent = t /\ cl'[c].leftSib = cl[t].rightMost
      /\ cl'[c].rightSib = Null
      /\ cl'[c].rightMost = Null
  BY DEF Sprouts, Node
<1>3. Alive' = Alive \cup {c} /\ c \notin Alive /\ t \in Alive
  BY <1>0, <1>1, <1>2 DEF Alive
<1>4. c \notin SpawnedBy(t) /\ SpawnedBy(c) = {} /\ CalledBy(c) = {}
  BY <1>0, <1>3, DeadChildless DEF SpawnedBy
<1>5. \A q \in Closures : CalledBy(q)' = CalledBy(q)
  BY <1>0, <1>1, <1>2, <1>3 DEF CalledBy, Alive
<1>6. \A q \in Closures : q # t => SpawnedBy(q)' = SpawnedBy(q)
  BY <1>0, <1>1, <1>2, <1>3 DEF SpawnedBy, Alive
<1>7. SpawnedBy(t)' = SpawnedBy(t) \cup {c}
  BY <1>0, <1>1, <1>2, <1>3 DEF SpawnedBy, Alive
<1>8. CalledBy(t) = {}
  BY <1>0 DEF CalledBy, Parents
<1> QED BY <1>0, <1>1, <1>2, <1>3, <1>4, <1>5, <1>6, <1>7, <1>8

(* The new closure c has the next rank.                                    *)
Ranks(rk, rk2, c, n) == rk2[c] = n /\ \A x \in Closures : x # c => rk2[x] = rk[x]

(* When t gets the child c, its sibling list is in the right order.        *)
LEMMA SproutsSiblings ==
    ASSUME Types, NEW rk, NEW n, Tree(rk, n), NEW t, NEW c, NEW f, Sprouts(t, c, f),
           NEW rk2, Ranks(rk, rk2, c, n)
    PROVE  RightMost(rk2, t)' /\ \A d \in SpawnedBy(t)' : Sibling(rk2, t, d)'
<1>0. /\ t \in Closures /\ c \in Closures /\ c # t /\ c # Null /\ t # Null
      /\ t \in Alive /\ n \in Nat
  <2>1. t \in Closures /\ c \in Closures /\ c # t /\ n \in Nat
    BY DEF Sprouts, Tree, Ranked
  <2>2. t \in Alive
    BY Sprouted
  <2> QED BY <2>1, <2>2, Nulls
<1>1. PICK S : S = SpawnedBy(t)
  OBVIOUS
<1>2. PICK l : l = cl[t].rightMost
  OBVIOUS
<1>3. SpawnedBy(t)' = S \cup {c} /\ c \notin S /\ S \subseteq Closures
  BY <1>1, Sprouted DEF SpawnedBy, Alive
<1>4. /\ l = Null <=> S = {}
      /\ l # Null => l \in S /\ \A d \in S : rk[d] <= rk[l]
  BY <1>0, <1>1, <1>2 DEF Tree, Siblings, RightMost
<1>5. \A d \in S : rk2[d] = rk[d] /\ rk[d] \in Nat /\ rk[d] < n
  BY <1>3 DEF Ranks, Tree, Ranked
<1>6. rk2[c] = n
  BY DEF Ranks
<1>7. \A d, e \in S : rk[d] = rk[e] => d = e
  BY <1>1 DEF Tree, Ranked, SpawnedBy
<1>8. RightMost(rk2, t)'
  <2>1. cl'[t].rightMost = c
    BY <1>0, Sprouted
  <2>2. \A d \in S \cup {c} : rk2[d] <= rk2[c]
    BY <1>0, <1>5, <1>6
  <2> QED BY <1>0, <1>3, <2>1, <2>2 DEF RightMost
<1>9. Sibling(rk2, t, c)'
  <2>1. cl'[c].leftSib = l /\ cl'[c].rightSib = Null
    BY <1>2, Sprouted
  <2>2. l = Null => \A d \in S \cup {c} : rk2[c] <= rk2[d]
    BY <1>0, <1>4, <1>6
  <2>3. l # Null => /\ l \in S \cup {c} /\ rk2[l] < rk2[c]
                    /\ \A d \in S \cup {c} : rk2[d] < rk2[c] => rk2[d] <= rk2[l]
    BY <1>0, <1>4, <1>5, <1>6
  <2>4. \A d \in S \cup {c} : rk2[d] <= rk2[c]
    BY <1>0, <1>5, <1>6
  <2> QED BY <1>3, <2>1, <2>2, <2>3, <2>4 DEF Sibling
<1>10. ASSUME NEW d \in S PROVE Sibling(rk2, t, d)'
  <2>0. /\ d \in Closures /\ d # c /\ l # Null /\ l \in S /\ rk[d] \in Nat
        /\ rk[d] < n /\ rk2[d] = rk[d]
    BY <1>3, <1>4, <1>5
  <2>1. /\ cl[d].leftSib = Null => \A e \in S : rk[d] <= rk[e]
        /\ cl[d].leftSib # Null =>
             /\ cl[d].leftSib \in S /\ rk[cl[d].leftSib] < rk[d]
             /\ \A e \in S : rk[e] < rk[d] => rk[e] <= rk[cl[d].leftSib]
        /\ cl[d].rightSib = Null => \A e \in S : rk[e] <= rk[d]
        /\ cl[d].rightSib # Null =>
             /\ cl[d].rightSib \in S /\ rk[d] < rk[cl[d].rightSib]
             /\ \A e \in S : rk[d] < rk[e] => rk[cl[d].rightSib] <= rk[e]
    BY <1>0, <1>1 DEF Tree, Siblings, Sibling
  <2>2. cl'[d].leftSib = cl[d].leftSib
    BY <2>0, Sprouted
  <2>3. /\ cl'[d].leftSib = Null => \A e \in S \cup {c} : rk2[d] <= rk2[e]
        /\ cl'[d].leftSib # Null =>
             /\ cl'[d].leftSib \in S \cup {c} /\ rk2[cl'[d].leftSib] < rk2[d]
             /\ \A e \in S \cup {c} : rk2[e] < rk2[d] => rk2[e] <= rk2[cl'[d].leftSib]
    BY <1>0, <1>5, <1>6, <2>0, <2>1, <2>2
  <2>4. CASE d = l
    <3>1. cl'[d].rightSib = c
      BY <1>2, <2>0, <2>4, Sprouted
    <3>2. /\ c \in S \cup {c} /\ rk2[d] < rk2[c]
          /\ \A e \in S \cup {c} : rk2[d] < rk2[e] => rk2[c] <= rk2[e]
      BY <1>0, <1>4, <1>5, <1>6, <2>0, <2>4
    <3> QED BY <1>0, <1>3, <2>3, <3>1, <3>2 DEF Sibling
  <2>5. CASE d # l
    <3>1. cl'[d].rightSib = cl[d].rightSib
      BY <1>2, <2>0, <2>5, Sprouted
    <3>2. cl[d].rightSib # Null
      <4> SUFFICES ASSUME cl[d].rightSib = Null PROVE FALSE
        OBVIOUS
      <4>1. rk[l] <= rk[d] /\ rk[d] <= rk[l] /\ rk[l] \in Nat
        BY <1>4, <1>5, <2>0, <2>1
      <4>2. rk[l] = rk[d]
        BY <2>0, <4>1
      <4> QED BY <1>7, <2>0, <2>5, <4>2
    <3>3. PICK r \in S : r = cl[d].rightSib /\ rk[d] < rk[r] /\ \A e \in S : rk[d] < rk[e] => rk[r] <= rk[e]
      BY <2>1, <3>2
    <3>4. r \in S \cup {c} /\ rk2[d] < rk2[r] /\ \A e \in S \cup {c} : rk2[d] < rk2[e] => rk2[r] <= rk2[e]
      BY <1>0, <1>5, <1>6, <2>0, <3>3
    <3> QED BY <1>3, <2>3, <3>1, <3>2, <3>3, <3>4 DEF Sibling
  <2> QED BY <2>4, <2>5
<1> QED BY <1>3, <1>8, <1>9, <1>10

(* Children can be counted.                                                *)
LEMMA FiniteFamilies ==
    ASSUME NEW q
    PROVE  /\ IsFiniteSet(SpawnedBy(q)) /\ IsFiniteSet(CalledBy(q))
           /\ Cardinality(SpawnedBy(q)) \in Nat /\ Cardinality(CalledBy(q)) \in Nat
<1>1. IsFiniteSet(Closures)
  BY FS_Interval, ProgramsAssumption DEF Closures
<1>2. SpawnedBy(q) \subseteq Closures /\ CalledBy(q) \subseteq Closures
  BY DEF SpawnedBy, CalledBy, Alive
<1>3. IsFiniteSet(SpawnedBy(q)) /\ IsFiniteSet(CalledBy(q))
  BY <1>1, <1>2, FS_Subset
<1> QED BY <1>3, FS_CardinalityType

(* When t gets the child c, the tree stays in order.                       *)
LEMMA SproutsTree ==
    ASSUME Types, NEW rk, NEW n, Tree(rk, n), NEW t, NEW c, NEW f, Sprouts(t, c, f),
           NEW rk2, Ranks(rk, rk2, c, n)
    PROVE  Tree(rk2, n + 1)'
<1>0. /\ t \in Closures /\ c \in Closures /\ c # t /\ n \in Nat
      /\ Parents /\ Joins /\ Ranked(rk, n) /\ Siblings(rk) /\ Alive \subseteq Closures
  BY DEF Sprouts, Tree, Ranked, Alive
<1>1. /\ Alive' = Alive \cup {c} /\ c \notin Alive /\ t \in Alive
      /\ SpawnedBy(t)' = SpawnedBy(t) \cup {c} /\ c \notin SpawnedBy(t)
      /\ SpawnedBy(c)' = {} /\ CalledBy(c)' = {}
      /\ \A q \in Closures : q # t => SpawnedBy(q)' = SpawnedBy(q)
      /\ \A q \in Closures : CalledBy(q)' = CalledBy(q)
  BY Sprouted
<1>2. \A x \in Closures : x # c =>
                /\ cl'[x].status = cl[x].status /\ cl'[x].callParent = cl[x].callParent
                /\ cl'[x].spawnParent = cl[x].spawnParent /\ cl'[x].leftSib = cl[x].leftSib
                /\ cl'[x].rightMost = IF x = t THEN c ELSE cl[x].rightMost
                /\ cl'[x].join = IF x = t THEN cl[t].join + 1 ELSE cl[x].join
                /\ cl'[x].rightSib = IF x = cl[t].rightMost THEN c ELSE cl[x].rightSib
  BY Sprouted
<1>3. /\ cl'[c].join = 0 /\ cl'[c].callParent = Null /\ cl'[c].spawnParent = t
      /\ cl'[c].rightMost = Null
  BY Sprouted
<1>4. Parents'
  <2>1. ASSUME NEW x \in Alive', cl'[x].spawnParent # Null
        PROVE  cl'[x].spawnParent \in Alive' /\ cl'[x].callParent = Null
    <3>1. CASE x = c
      BY <1>1, <1>3, <3>1
    <3>2. CASE x # c
      <4>1. x \in Alive /\ x \in Closures
        BY <1>0, <1>1, <3>2
      <4> QED BY <1>0, <1>1, <1>2, <2>1, <3>2, <4>1 DEF Parents
    <3> QED BY <3>1, <3>2
  <2>2. ASSUME NEW x \in Alive', cl'[x].callParent # Null
        PROVE  x \in Alive /\ cl[x].callParent = cl'[x].callParent
               /\ cl'[x].callParent \in Closures /\ cl'[cl'[x].callParent].status = "suspended"
    <3>1. x \in Alive /\ x \in Closures /\ x # c
      BY <1>0, <1>1, <1>3, <2>2
    <3>2. cl[x].callParent = cl'[x].callParent
      BY <1>2, <3>1
    <3>3. cl[x].callParent \in Closures /\ cl[cl[x].callParent].status = "suspended"
      BY <1>0, <2>2, <3>1, <3>2 DEF Parents
    <3>4. cl[x].callParent # c
      BY <1>0, <1>1, <3>3 DEF Alive
    <3> QED BY <1>2, <3>1, <3>2, <3>3, <3>4
  <2>3. \A x, y \in Alive' : cl'[x].callParent # Null /\ cl'[x].callParent = cl'[y].callParent => x = y
    BY <1>0, <2>2 DEF Parents
  <2> QED BY <2>1, <2>2, <2>3 DEF Parents
<1>5. Ranked(rk2, n + 1)'
  <2>1. \A x \in Closures : rk[x] \in Nat /\ rk[x] < n
    BY <1>0 DEF Ranked
  <2>2. rk2[c] = n /\ \A x \in Closures : x # c => rk2[x] = rk[x]
    BY DEF Ranks
  <2>3. \A x \in Closures : rk2[x] \in Nat /\ rk2[x] < n + 1
    BY <1>0, <2>1, <2>2
  <2>4. \A x, y \in Alive \cup {c} : rk2[x] = rk2[y] => x = y
    <3> SUFFICES ASSUME NEW x \in Alive \cup {c}, NEW y \in Alive \cup {c},
                        rk2[x] = rk2[y], x # y
                 PROVE  FALSE
      OBVIOUS
    <3>1. x \in Closures /\ y \in Closures
      BY <1>0
    <3>2. CASE x = c
      BY <1>0, <2>1, <2>2, <3>1, <3>2
    <3>3. CASE y = c
      BY <1>0, <2>1, <2>2, <3>1, <3>3
    <3>4. CASE x # c /\ y # c
      BY <1>0, <2>2, <3>1, <3>4 DEF Ranked
    <3> QED BY <3>2, <3>3, <3>4
  <2>5. n + 1 \in Nat
    BY <1>0
  <2> QED BY <1>1, <2>3, <2>4, <2>5 DEF Ranked
<1>6. Joins'
  <2>1. ASSUME NEW q \in Alive, q # t
        PROVE  cl'[q].join = Cardinality(SpawnedBy(q)') + Cardinality(CalledBy(q)')
    <3>1. q \in Closures /\ q # c
      BY <1>0, <1>1
    <3> QED BY <1>0, <1>1, <1>2, <2>1, <3>1 DEF Joins
  <2>2. cl'[t].join = Cardinality(SpawnedBy(t)') + Cardinality(CalledBy(t)')
    <3>1. /\ cl'[t].join = cl[t].join + 1
          /\ cl[t].join = Cardinality(SpawnedBy(t)) + Cardinality(CalledBy(t))
      BY <1>0, <1>1, <1>2 DEF Joins
    <3>2. Cardinality(SpawnedBy(t) \cup {c}) = Cardinality(SpawnedBy(t)) + 1
      BY <1>1, FiniteFamilies, FS_AddElement
    <3>3. Cardinality(SpawnedBy(t)) \in Nat /\ Cardinality(CalledBy(t)) \in Nat
      BY FiniteFamilies
    <3>4. SpawnedBy(t)' = SpawnedBy(t) \cup {c} /\ CalledBy(t)' = CalledBy(t)
      BY <1>0, <1>1
    <3> QED BY <3>1, <3>2, <3>3, <3>4
  <2>3. cl'[c].join = Cardinality(SpawnedBy(c)') + Cardinality(CalledBy(c)')
    BY <1>1, <1>3, FS_EmptySet
  <2> QED BY <1>1, <2>1, <2>2, <2>3 DEF Joins
<1>7. RightMost(rk2, t)' /\ \A d \in SpawnedBy(t)' : Sibling(rk2, t, d)'
  BY SproutsSiblings
<1>8. ASSUME NEW q \in Alive, q # t
      PROVE  RightMost(rk2, q)' /\ \A d \in SpawnedBy(q)' : Sibling(rk2, q, d)'
  <2>0. q \in Closures /\ q # c
    BY <1>0, <1>1
  <2>1. SpawnedBy(q)' = SpawnedBy(q) /\ cl'[q].rightMost = cl[q].rightMost
    BY <1>1, <1>2, <1>8, <2>0
  <2>2. \A d \in SpawnedBy(q) : d \in Closures /\ d # c /\ rk2[d] = rk[d]
    BY <1>0, <1>1 DEF SpawnedBy, Ranks
  <2>3. RightMost(rk, q) /\ \A d \in SpawnedBy(q) : Sibling(rk, q, d)
    BY <1>0 DEF Siblings
  <2>4. RightMost(rk2, q)'
    BY <2>1, <2>2, <2>3 DEF RightMost
  <2>5. ASSUME NEW d \in SpawnedBy(q) PROVE Sibling(rk2, q, d)'
    <3>1. d # cl[t].rightMost
      <4>1. RightMost(rk, t)
        BY <1>0, <1>1 DEF Siblings
      <4>2. d # Null
        BY <2>2, Nulls
      <4>3. d \notin SpawnedBy(t)
        BY <1>8, <2>5 DEF SpawnedBy
      <4> QED BY <4>1, <4>2, <4>3 DEF RightMost
    <3>2. cl'[d].leftSib = cl[d].leftSib /\ cl'[d].rightSib = cl[d].rightSib
      BY <1>2, <2>2, <3>1
    <3>3. Sibling(rk, q, d)
      BY <2>3
    <3> QED BY <2>1, <2>2, <3>2, <3>3 DEF Sibling
  <2> QED BY <2>1, <2>4, <2>5
<1>9. RightMost(rk2, c)' /\ \A d \in SpawnedBy(c)' : Sibling(rk2, c, d)'
  BY <1>1, <1>3 DEF RightMost
<1>10. Siblings(rk2)'
  BY <1>1, <1>7, <1>8, <1>9 DEF Siblings
<1> QED BY <1>4, <1>5, <1>6, <1>10 DEF Tree

(* Closure t has called the new closure p with frame f, which gets the new *)
(* child c.                                                                *)
CallsNew(t, p, c, f) ==
    /\ t \in Closures /\ p \in Closures /\ c \in Closures /\ c # t /\ p # t /\ c # p
    /\ cl[t].status = "running" /\ cl[p].status = "invalid" /\ cl[c].status = "invalid"
    /\ Node(c, "running", Null, 0, Null, p, Null, Null, Null)
    /\ Node(p, "running", f, 1, t, Null, Null, Null, c)
    /\ Node(t, "suspended", cl[t].frame, cl[t].join + 1, cl[t].callParent,
            cl[t].spawnParent, cl[t].leftSib, cl[t].rightSib, cl[t].rightMost)
    /\ \A x \in Closures : x # c /\ x # t /\ x # p => Kept(x)

(* The families when t has called p and p gets the child c.                *)
LEMMA CalledNew ==
    ASSUME Types, Parents, NEW t, NEW p, NEW c, NEW f, CallsNew(t, p, c, f)
    PROVE  /\ Alive' = Alive \cup {p, c} /\ c \notin Alive /\ p \notin Alive /\ t \in Alive
           /\ SpawnedBy(p)' = {c} /\ SpawnedBy(c)' = {} /\ CalledBy(t)' = {p} /\ CalledBy(t) = {}
           /\ CalledBy(p)' = {} /\ CalledBy(c)' = {}
           /\ \A q \in Closures : q # p => SpawnedBy(q)' = SpawnedBy(q)
           /\ \A q \in Closures : q # t => CalledBy(q)' = CalledBy(q)
           /\ \A x \in Closures : x # c /\ x # p =>
                /\ cl'[x].callParent = cl[x].callParent /\ cl'[x].frame = cl[x].frame
                /\ cl'[x].spawnParent = cl[x].spawnParent /\ cl'[x].leftSib = cl[x].leftSib
                /\ cl'[x].rightMost = cl[x].rightMost /\ cl'[x].rightSib = cl[x].rightSib
                /\ cl'[x].status = IF x = t THEN "suspended" ELSE cl[x].status
                /\ cl'[x].join = IF x = t THEN cl[t].join + 1 ELSE cl[x].join
           /\ cl'[c].status = "running" /\ cl'[c].frame = Null /\ cl'[c].join = 0 /\ cl'[c].callParent = Null
           /\ cl'[c].spawnParent = p /\ cl'[c].leftSib = Null /\ cl'[c].rightSib = Null /\ cl'[c].rightMost = Null
           /\ cl'[p].status = "running" /\ cl'[p].frame = f /\ cl'[p].join = 1 /\ cl'[p].callParent = t
           /\ cl'[p].spawnParent = Null /\ cl'[p].leftSib = Null /\ cl'[p].rightSib = Null /\ cl'[p].rightMost = c
<1>0. /\ t \in Closures /\ p \in Closures /\ c \in Closures /\ c # t /\ p # t /\ c # p
      /\ cl[t].status = "running" /\ cl[p].status = "invalid"
      /\ cl[c].status = "invalid"
      /\ Null \notin Closures
  BY Nulls DEF CallsNew
<1>1. \A x \in Closures : x # c /\ x # p =>
                /\ cl'[x].callParent = cl[x].callParent /\ cl'[x].frame = cl[x].frame
                /\ cl'[x].spawnParent = cl[x].spawnParent /\ cl'[x].leftSib = cl[x].leftSib
                /\ cl'[x].rightMost = cl[x].rightMost /\ cl'[x].rightSib = cl[x].rightSib
                /\ cl'[x].status = IF x = t THEN "suspended" ELSE cl[x].status
                /\ cl'[x].join = IF x = t THEN cl[t].join + 1 ELSE cl[x].join
  BY DEF CallsNew, Node, Kept
<1>2. /\ cl'[c].status = "running" /\ cl'[c].frame = Null /\ cl'[c].join = 0
      /\ cl'[c].callParent = Null
      /\ cl'[c].spawnParent = p /\ cl'[c].leftSib = Null /\ cl'[c].rightSib = Null
      /\ cl'[c].rightMost = Null
      /\ cl'[p].status = "running" /\ cl'[p].frame = f /\ cl'[p].join = 1
      /\ cl'[p].callParent = t
      /\ cl'[p].spawnParent = Null /\ cl'[p].leftSib = Null
      /\ cl'[p].rightSib = Null /\ cl'[p].rightMost = c
  BY DEF CallsNew, Node
<1>3. Alive' = Alive \cup {p, c} /\ c \notin Alive /\ p \notin Alive /\ t \in Alive
  BY <1>0, <1>1, <1>2 DEF Alive
<1>4. /\ SpawnedBy(p) = {} /\ SpawnedBy(c) = {} /\ CalledBy(p) = {}
      /\ CalledBy(c) = {} /\ CalledBy(t) = {}
  <2>1. CalledBy(t) = {}
    BY <1>0 DEF CalledBy, Parents
  <2> QED BY <1>0, <2>1, DeadChildless
<1>5. \A x \in Alive : x \in Closures /\ x # c /\ x # p
  BY <1>3 DEF Alive
<1>6. \A q \in Closures : q # p => SpawnedBy(q)' = SpawnedBy(q)
  BY <1>0, <1>1, <1>2, <1>3, <1>5 DEF SpawnedBy
<1>7. \A q \in Closures : q # t => CalledBy(q)' = CalledBy(q)
  BY <1>0, <1>1, <1>2, <1>3, <1>5 DEF CalledBy
<1>8. SpawnedBy(p)' = {c}
  <2>1. \A x \in Alive : cl[x].spawnParent # p
    BY <1>4 DEF SpawnedBy
  <2> QED BY <1>0, <1>1, <1>2, <1>3, <1>5, <2>1 DEF SpawnedBy
<1>9. CalledBy(t)' = {p}
  <2>1. \A x \in Alive : cl[x].callParent # t
    BY <1>4 DEF CalledBy
  <2> QED BY <1>0, <1>1, <1>2, <1>3, <1>5, <2>1 DEF CalledBy
<1> QED BY <1>0, <1>1, <1>2, <1>3, <1>4, <1>6, <1>7, <1>8, <1>9

(* When t has called p and p gets the child c, the tree stays in order.    *)
LEMMA CallsNewTree ==
    ASSUME Types, NEW rk, NEW n, Tree(rk, n), NEW t, NEW p, NEW c, NEW f,
           CallsNew(t, p, c, f),
           NEW rk1, NEW rk2, Ranks(rk, rk1, p, n), Ranks(rk1, rk2, c, n + 1)
    PROVE  Tree(rk2, n + 1 + 1)'
<1>0. /\ t \in Closures /\ p \in Closures /\ c \in Closures /\ c # t /\ p # t
      /\ c # p /\ n \in Nat
      /\ Parents /\ Joins /\ Ranked(rk, n) /\ Siblings(rk)
      /\ Alive \subseteq Closures /\ cl[t].status = "running"
  BY DEF CallsNew, Tree, Ranked, Alive
<1>1. /\ Alive' = Alive \cup {p, c} /\ c \notin Alive /\ p \notin Alive /\ t \in Alive
      /\ SpawnedBy(p)' = {c} /\ SpawnedBy(c)' = {} /\ CalledBy(t)' = {p}
      /\ CalledBy(t) = {}
      /\ CalledBy(p)' = {} /\ CalledBy(c)' = {}
      /\ \A q \in Closures : q # p => SpawnedBy(q)' = SpawnedBy(q)
      /\ \A q \in Closures : q # t => CalledBy(q)' = CalledBy(q)
  BY <1>0, CalledNew
<1>2. \A x \in Closures : x # c /\ x # p =>
                /\ cl'[x].callParent = cl[x].callParent
                /\ cl'[x].spawnParent = cl[x].spawnParent /\ cl'[x].leftSib = cl[x].leftSib
                /\ cl'[x].rightMost = cl[x].rightMost /\ cl'[x].rightSib = cl[x].rightSib
                /\ cl'[x].status = IF x = t THEN "suspended" ELSE cl[x].status
                /\ cl'[x].join = IF x = t THEN cl[t].join + 1 ELSE cl[x].join
  BY <1>0, CalledNew
<1>3. /\ cl'[c].join = 0 /\ cl'[c].callParent = Null
      /\ cl'[c].spawnParent = p /\ cl'[c].leftSib = Null /\ cl'[c].rightSib = Null
      /\ cl'[c].rightMost = Null
      /\ cl'[p].join = 1 /\ cl'[p].callParent = t
      /\ cl'[p].spawnParent = Null /\ cl'[p].leftSib = Null
      /\ cl'[p].rightSib = Null /\ cl'[p].rightMost = c
  BY <1>0, CalledNew
<1>4. Parents'
  <2>1. ASSUME NEW x \in Alive', cl'[x].spawnParent # Null
        PROVE  cl'[x].spawnParent \in Alive' /\ cl'[x].callParent = Null
    <3>1. CASE x = c \/ x = p
      BY <1>1, <1>3, <2>1, <3>1
    <3>2. CASE x # c /\ x # p
      <4>1. x \in Alive /\ x \in Closures
        BY <1>0, <1>1, <3>2
      <4> QED BY <1>0, <1>1, <1>2, <2>1, <3>2, <4>1 DEF Parents
    <3> QED BY <3>1, <3>2
  <2>2. ASSUME NEW x \in Alive', cl'[x].callParent # Null
        PROVE  cl'[x].callParent \in Closures /\ cl'[cl'[x].callParent].status = "suspended"
               /\ (x = p \/ (x \in Alive /\ cl[x].callParent = cl'[x].callParent /\ cl'[x].callParent # t))
    <3>1. CASE x = p
      BY <1>0, <1>2, <1>3, <3>1
    <3>2. CASE x # p
      <4>1. x \in Alive /\ x \in Closures /\ x # c
        BY <1>0, <1>1, <1>3, <2>2, <3>2
      <4>2. cl[x].callParent = cl'[x].callParent
        BY <1>2, <3>2, <4>1
      <4>3. cl[x].callParent \in Closures /\ cl[cl[x].callParent].status = "suspended"
        BY <1>0, <2>2, <4>1, <4>2 DEF Parents
      <4>4. cl[x].callParent # c /\ cl[x].callParent # p /\ cl[x].callParent # t
        BY <1>0, <1>1, <4>3 DEF Alive
      <4> QED BY <1>2, <4>1, <4>2, <4>3, <4>4
    <3> QED BY <3>1, <3>2
  <2>3. \A x, y \in Alive' : cl'[x].callParent # Null /\ cl'[x].callParent = cl'[y].callParent => x = y
    BY <1>0, <1>3, <2>2 DEF Parents
  <2> QED BY <2>1, <2>2, <2>3 DEF Parents
<1>r. /\ rk2[c] = n + 1 /\ rk2[p] = n /\ \A x \in Closures : x # c /\ x # p => rk2[x] = rk[x]
  BY <1>0 DEF Ranks
<1>5. Ranked(rk2, n + 1 + 1)'
  <2>1. \A x \in Closures : rk[x] \in Nat /\ rk[x] < n
    BY <1>0 DEF Ranked
  <2>3. \A x \in Closures : rk2[x] \in Nat /\ rk2[x] < n + 1 + 1
    BY <1>0, <1>r, <2>1
  <2>4. \A x, y \in Alive \cup {p, c} : rk2[x] = rk2[y] => x = y
    <3> SUFFICES ASSUME NEW x \in Alive \cup {p, c}, NEW y \in Alive \cup {p, c},
                        rk2[x] = rk2[y], x # y
                 PROVE  FALSE
      OBVIOUS
    <3>1. x \in Closures /\ y \in Closures
      BY <1>0
    <3>2. CASE x = c \/ x = p
      BY <1>0, <1>r, <2>1, <3>1, <3>2
    <3>3. CASE y = c \/ y = p
      BY <1>0, <1>r, <2>1, <3>1, <3>3
    <3>4. CASE x # c /\ y # c /\ x # p /\ y # p
      BY <1>0, <1>r, <3>1, <3>4 DEF Ranked
    <3> QED BY <3>2, <3>3, <3>4
  <2>5. n + 1 + 1 \in Nat
    BY <1>0
  <2> QED BY <1>1, <2>3, <2>4, <2>5 DEF Ranked
<1>6. Joins'
  <2>1. ASSUME NEW q \in Alive, q # t
        PROVE  cl'[q].join = Cardinality(SpawnedBy(q)') + Cardinality(CalledBy(q)')
    <3>1. q \in Closures /\ q # c /\ q # p
      BY <1>0, <1>1
    <3> QED BY <1>0, <1>1, <1>2, <2>1, <3>1 DEF Joins
  <2>2. cl'[t].join = Cardinality(SpawnedBy(t)') + Cardinality(CalledBy(t)')
    <3>1. /\ cl'[t].join = cl[t].join + 1
          /\ cl[t].join = Cardinality(SpawnedBy(t)) + Cardinality(CalledBy(t))
      BY <1>0, <1>1, <1>2 DEF Joins
    <3>2. Cardinality(CalledBy(t)) = 0 /\ Cardinality(CalledBy(t)') = 1
      BY <1>1, FS_EmptySet, FS_Singleton
    <3>3. Cardinality(SpawnedBy(t)) \in Nat
      BY FiniteFamilies
    <3>4. SpawnedBy(t)' = SpawnedBy(t)
      BY <1>0, <1>1
    <3> QED BY <3>1, <3>2, <3>3, <3>4
  <2>3. cl'[c].join = Cardinality(SpawnedBy(c)') + Cardinality(CalledBy(c)')
    BY <1>1, <1>3, FS_EmptySet
  <2>4. cl'[p].join = Cardinality(SpawnedBy(p)') + Cardinality(CalledBy(p)')
    <3>1. Cardinality(SpawnedBy(p)') = 1 /\ Cardinality(CalledBy(p)') = 0
      BY <1>1, FS_EmptySet, FS_Singleton
    <3> QED BY <1>3, <3>1
  <2> QED BY <1>1, <2>1, <2>2, <2>3, <2>4 DEF Joins
<1>7. RightMost(rk2, p)' /\ \A d \in SpawnedBy(p)' : Sibling(rk2, p, d)'
  <2>1. rk2[c] <= rk2[c] /\ c # Null
    BY <1>0, <1>r, Nulls
  <2> QED BY <1>1, <1>3, <2>1 DEF RightMost, Sibling
<1>8. ASSUME NEW q \in Alive
      PROVE  RightMost(rk2, q)' /\ \A d \in SpawnedBy(q)' : Sibling(rk2, q, d)'
  <2>0. q \in Closures /\ q # c /\ q # p
    BY <1>0, <1>1
  <2>1. SpawnedBy(q)' = SpawnedBy(q) /\ cl'[q].rightMost = cl[q].rightMost
    BY <1>1, <1>2, <2>0
  <2>2. \A d \in SpawnedBy(q) : d \in Closures /\ d # c /\ d # p /\ rk2[d] = rk[d]
    BY <1>0, <1>1, <1>r DEF SpawnedBy
  <2>3. RightMost(rk, q) /\ \A d \in SpawnedBy(q) : Sibling(rk, q, d)
    BY <1>0 DEF Siblings
  <2>4. RightMost(rk2, q)'
    BY <2>1, <2>2, <2>3 DEF RightMost
  <2>5. ASSUME NEW d \in SpawnedBy(q) PROVE Sibling(rk2, q, d)'
    <3>2. cl'[d].leftSib = cl[d].leftSib /\ cl'[d].rightSib = cl[d].rightSib
      BY <1>2, <2>2
    <3>3. Sibling(rk, q, d)
      BY <2>3
    <3> QED BY <2>1, <2>2, <3>2, <3>3 DEF Sibling
  <2> QED BY <2>1, <2>4, <2>5
<1>9. RightMost(rk2, c)' /\ \A d \in SpawnedBy(c)' : Sibling(rk2, c, d)'
  BY <1>1, <1>3 DEF RightMost
<1>10. Siblings(rk2)'
  BY <1>1, <1>7, <1>8, <1>9 DEF Siblings
<1> QED BY <1>4, <1>5, <1>6, <1>10 DEF Tree

(***************************************************************************)
(* Promotion: the stack of the victim's closure is split.                  *)
(***************************************************************************)

(* Thief w has taken frame f off the deque of v, which runs t.             *)
Promotes(w, v, t, f) ==
    wk[w].pc = "promote" /\ wk[w].vic = v /\ wk[w].cl = t /\ wk[w].frm = f

(* What the invariant says of a thief and its victim before a promotion: f *)
(* is the oldest continuation on the stack of t, below the frame the       *)
(* victim executes, and has a sync to come.                                *)
LEMMA PromoteFacts ==
    ASSUME NEW o, NEW rk, NEW n, Good(o, rk, n), NEW w \in Workers,
           NEW v, NEW t, NEW f, Promotes(w, v, t, f)
    PROVE  /\ v \in Workers /\ v # w /\ t \in Closures /\ f \in Frames /\ t # Null
           /\ busy[v] = t /\ busy[w] = Null /\ dq[w] = <<>> /\ busyLock[v] = w
           /\ t \in Alive /\ cl[t].status = "running" /\ AtFrame(v)
           /\ f \in Links(o, t) /\ o[f] = t
           /\ (\A x \in Frames : Taken(v, x) => x = f) /\ Taken(v, f)
           /\ (\A x \in Links(o, t) : f <= x)
           /\ TopOf(o, t, wk[v].cur) /\ f < wk[v].cur
           /\ Free(v, t) /\ ~Swapped(t) /\ ~Promoting(t) /\ CalledBy(t) = {} /\ SyncAhead(f)
           /\ wk[v].pc \notin Carrying /\ wk[v].pc \notin {"synced", "set_return2"}
<1>0. /\ Types /\ Duties /\ Holding /\ Control /\ Deques(o) /\ Tops(o) /\ Bases(o)
      /\ Positions(o) /\ Parents
      /\ Null \notin Closures
  BY Nulls DEF Good, Control, Tree
<1>e. wk[w].pc = "promote" /\ wk[w].vic = v /\ wk[w].cl = t /\ wk[w].frm = f
  BY DEF Promotes
<1>1. Duty(w) /\ WorkerOK(wk[w]) /\ busy \in [Workers -> Closures \cup {Null}]
  BY <1>0 DEF Duties, Types, WorkerTypes, LockTypes
<1>2. /\ v \in Workers /\ v # w /\ busyLock[v] = w /\ t # Null /\ busy[v] = t
      /\ f # Null /\ wk[v].pc # "synced"
  BY <1>1, <1>e DEF Duty
<1>3. t \in Closures /\ f \in Frames
  BY <1>1, <1>2, <1>e DEF WorkerOK
<1>4. busy[w] = Null /\ dq[w] = <<>>
  BY <1>1, <1>e DEF Duty, Idling
<1>5. wk[v].pc \notin Idling /\ wk[v].pc \notin Locked
  <2>1. Duty(v)
    BY <1>0, <1>2 DEF Duties
  <2> QED BY <1>2, <2>1 DEF Duty
<1>6. wk[v].pc # "set_return2" /\ wk[v].pc \notin Carrying
  BY <1>5 DEF Locked, Idling, Carrying
<1>7. cl[t].status = "running" /\ t \in Alive
  BY <1>0, <1>2, <1>3, <1>6 DEF Holding, Held, Alive
<1>8. Free(v, t)
  BY <1>0, <1>2, <1>3, FreeOfOthers DEF Holds
<1>9. Taken(v, f) /\ \A x \in Frames : Taken(v, x) => x = f
  <2>1. Taken(v, f)
    BY <1>e DEF Taken
  <2>2. ASSUME NEW x \in Frames, NEW y \in Workers, wk[y].pc = "promote",
               wk[y].vic = v, wk[y].frm = x
        PROVE  x = f
    <3>1. busyLock[v] = y
      BY <1>0, <2>2 DEF Duties, Duty
    <3> QED BY <1>2, <1>e, <2>2, <3>1
  <2> QED BY <2>1, <2>2 DEF Taken
<1>10. f \in Links(o, t) /\ \A x \in Links(o, t) : f <= x
  <2>1. Deque(o, v)
    BY <1>0, <1>2 DEF Deques
  <2>2. \A x \in Frames : x \in Links(o, t) <=> (x \in ToSet(dq[v]) \/ Taken(v, x))
    BY <1>2, <2>1 DEF Deque
  <2>3. \A x \in ToSet(dq[v]) : f < x
    BY <1>3, <1>9, <2>1 DEF Deque
  <2>4. Links(o, t) \subseteq Frames /\ Frames \subseteq Nat
    BY <1>0, ProgramFrames DEF Links, Types, FrameTypes
  <2>5. \A x \in Links(o, t) : f < x \/ x = f
    BY <1>9, <2>2, <2>3, <2>4
  <2>6. f \in Nat /\ \A x \in Links(o, t) : x \in Nat
    BY <1>3, <2>4
  <2>7. \A x \in Links(o, t) : f <= x
    BY <2>5, <2>6
  <2> QED BY <1>3, <1>9, <2>2, <2>7
<1>11. AtFrame(v)
  <2>1. ~(wk[v].pc = "reduce" /\ wk[v].why = "reduce")
    <3> SUFFICES ASSUME wk[v].pc = "reduce" /\ wk[v].why = "reduce" PROVE FALSE
      OBVIOUS
    <3>1. Bare(o, t)
      BY <1>0, <1>2 DEF Tops, Top
    <3> QED BY <1>10, <3>1 DEF Bare, Links, LinksTo
  <2>2. wk[v].pc \in WorkerPc /\ Duty(v)
    BY <1>0, <1>2 DEF Types, WorkerTypes, WorkerOK, Duties
  <2> QED
    BY <1>2, <1>5, <2>1, <2>2
       DEF AtFrame, Executing, WorkerPc, Idling, Locked, Duty
<1>12. TopOf(o, t, wk[v].cur)
  BY <1>0, <1>2, <1>11 DEF Tops, Top
<1>13. f < wk[v].cur /\ o[f] = t
  BY <1>0, <1>3, <1>10, <1>12, LinksBelow
<1>14. ~Swapped(t) /\ ~Promoting(t)
  BY <1>6, <1>8 DEF Swapped, Promoting, Free, Holds, Carries, Carrying
<1>15. CalledBy(t) = {}
  BY <1>0, <1>2, <1>7 DEF CalledBy, Parents
<1>16. SyncAhead(f)
  BY <1>0, <1>2, <1>3, <1>10, <1>13 DEF Positions
<1> QED
  BY <1>2, <1>3, <1>4, <1>6, <1>7, <1>8, <1>9, <1>10, <1>11, <1>12, <1>13,
     <1>14, <1>15, <1>16

(* A stack is split at f: f goes to p, and the frames above it go to c.    *)
Splits(o, o2, t, f, p, c) ==
    \A x \in Frames :
        /\ o[x] # t => o2[x] = o[x]
        /\ o[x] = t /\ x > f => o2[x] = c
        /\ o[x] = t /\ x < f => o2[x] = t
        /\ x = f => o2[x] = p

(* The stack of t with top e before it is split at its oldest continuation *)
(* f.                                                                      *)
Splitting(o, o2, t, f, p, c, e) ==
    /\ Types /\ t \in Closures /\ p \in Closures /\ c \in Closures /\ f \in Frames
    /\ Chained(o) /\ TopOf(o, t, e) /\ f < e /\ o[f] = t /\ f \in Links(o, t) /\ (\A x \in Links(o, t) : f <= x)
    /\ c # t /\ c # p /\ (\A x \in Frames : o[x] # c /\ (p # t => o[x] # p))
    /\ (p = t => \A x \in Frames : o[x] = t => f <= x)
    /\ Splits(o, o2, t, f, p, c)

(* The stacks after the split.                                             *)
SplitStack(o, o2, t, f, p, c, e) ==
    /\ \A x \in Frames : o2[x] = c <=> (o[x] = t /\ f < x)
    /\ Only(o2, p, f) /\ (p # t => \A x \in Frames : o2[x] = t <=> (o[x] = t /\ x < f))
    /\ \A d \in Closures : d # t /\ d # p /\ d # c => Same(o, o2, d)
    /\ Chained(o2) /\ TopOf(o2, c, e)
    /\ Links(o2, p) = {} /\ (p # t => Links(o2, t) = {})
    /\ \A x \in Links(o2, c) : x \in Links(o, t) /\ f < x
    /\ \A x \in Links(o, t) : x # f => x \in Links(o2, c)
    /\ \A x \in Frames : o2[x] # Null => o[x] # Null
    /\ \A x \in Frames : o[x] # Null => o2[x] # Null
    /\ \A x \in Frames : o2[x] = c /\ ~Inner(o2, x) =>
         prog.parent[x] = f /\ prog.kind[x] \in {"spawn", "expr"}

(* Splitting the stack of t leaves three chains, and the continuations     *)
(* that were above f on the stack of c.                                    *)
LEMMA SplitFacts ==
    ASSUME NEW o, NEW o2, NEW t, NEW p, NEW c, NEW f, NEW e,
           Splitting(o, o2, t, f, p, c, e)
    PROVE  SplitStack(o, o2, t, f, p, c, e)
<1> SUFFICES ASSUME Types, t \in Closures, p \in Closures, c \in Closures,
                    f \in Frames,
                    Chained(o), TopOf(o, t, e), f < e, o[f] = t, f \in Links(o, t), \A x \in Links(o, t) : f <= x,
                    c # t, c # p, \A x \in Frames : o[x] # c /\ (p # t => o[x] # p),
                    p = t => \A x \in Frames : o[x] = t => f <= x,
                    Splits(o, o2, t, f, p, c)
             PROVE  SplitStack(o, o2, t, f, p, c, e)
  BY DEF Splitting
<1>0. /\ Frames \subseteq Nat /\ \A x \in Frames : x # 0 /\ (x # Root => prog.parent[x] \in Frames /\ prog.parent[x] < x)
      /\ Null \notin Closures /\ f \in Nat
  BY ProgramFrames, Nulls DEF Types, FrameTypes
<1>1. \A x \in Frames : o2[x] = c <=> (o[x] = t /\ f < x)
  <2> SUFFICES ASSUME NEW x \in Frames PROVE o2[x] = c <=> (o[x] = t /\ f < x)
    OBVIOUS
  <2>1. x \in Nat /\ (x < f \/ x = f \/ x > f)
    BY <1>0
  <2>2. o2[x] = c => o[x] = t /\ f < x
    BY <2>1 DEF Splits
  <2>3. o[x] = t /\ f < x => o2[x] = c
    BY <1>0, <2>1 DEF Splits
  <2> QED BY <2>2, <2>3
<1>2. Only(o2, p, f)
  <2>1. \A x \in Frames : o2[x] = p => x = f
    <3> SUFFICES ASSUME NEW x \in Frames, o2[x] = p, x # f PROVE FALSE
      OBVIOUS
    <3>1. x < f \/ x > f
      BY <1>0
    <3>2. o[x] = t /\ x < f => p = t
      BY DEF Splits
    <3>3. o[x] = t
      BY DEF Splits
    <3>4. x < f /\ p = t
      BY <3>1, <3>2, <3>3 DEF Splits
    <3>5. f <= x
      BY <3>3, <3>4
    <3>6. x \in Nat
      BY <1>0
    <3> QED BY <1>0, <3>4, <3>5, <3>6
  <2> QED BY <2>1 DEF Only, Splits
<1>3. p # t => \A x \in Frames : o2[x] = t <=> (o[x] = t /\ x < f)
  BY <1>0 DEF Splits
<1>4. \A d \in Closures : d # t /\ d # p /\ d # c => Same(o, o2, d)
  BY <1>0 DEF Splits, Same
<1>n. (\A x \in Frames : o2[x] # Null => o[x] # Null) /\ (\A x \in Frames : o[x] # Null => o2[x] # Null)
  BY <1>0 DEF Splits
<1>a. ASSUME NEW y \in Frames, o[y] = t, f < y
      PROVE  y # Root /\ prog.parent[y] \in Frames /\ o[prog.parent[y]] = t /\ f <= prog.parent[y] /\ Inner(o, y)
  <2>1. y # Root
    BY <1>0, <1>a DEF Root
  <2>2. o[prog.parent[y]] = o[y] /\ f <= prog.parent[y]
    BY <1>0, <1>a DEF Chained
  <2> QED BY <1>0, <1>a, <2>1, <2>2 DEF Inner
<1>5. Chained(o2)
  <2> SUFFICES ASSUME NEW x \in Frames, NEW y \in Frames, o2[x] # Null,
                      o2[x] = o2[y], x < y
               PROVE  o2[prog.parent[y]] = o2[y] /\ x <= prog.parent[y]
    BY DEF Chained
  <2>0. /\ x \in Nat /\ y \in Nat /\ x # y /\ x # 0 /\ y # Root
        /\ prog.parent[y] \in Frames /\ prog.parent[y] < y
    BY <1>0 DEF Root
  <2>b. prog.parent[y] \in Nat
    BY <1>0, <2>0
  <2>1. CASE o2[x] = c
    <3>1. o[x] = t /\ o[y] = t /\ f < x /\ f < y
      BY <1>1, <2>1
    <3>2. o[prog.parent[y]] = t /\ x <= prog.parent[y]
      BY <1>0, <3>1 DEF Chained
    <3>3. f < prog.parent[y]
      BY <1>0, <2>0, <2>b, <3>1, <3>2
    <3> QED BY <1>1, <2>0, <2>1, <3>2, <3>3
  <2>2. CASE o2[x] = p
    BY <1>2, <2>0, <2>2 DEF Only
  <2>3. CASE o2[x] = t /\ p # t
    <3>1. o[x] = t /\ o[y] = t /\ y < f
      BY <1>3, <2>3
    <3>2. o[prog.parent[y]] = t /\ x <= prog.parent[y]
      BY <1>0, <3>1 DEF Chained
    <3>3. prog.parent[y] < f
      BY <1>0, <2>0, <2>b, <3>1
    <3> QED BY <1>3, <2>0, <2>3, <3>2, <3>3
  <2>4. CASE o2[x] # c /\ o2[x] # p /\ o2[x] # t
    <3>1. o[x] # t /\ o[y] # t
      BY <1>0, <2>4 DEF Splits
    <3>2. o[x] = o2[x] /\ o[y] = o2[y]
      BY <3>1 DEF Splits
    <3>3. o[prog.parent[y]] = o[y] /\ x <= prog.parent[y]
      BY <3>2 DEF Chained
    <3>4. o2[prog.parent[y]] = o[prog.parent[y]]
      BY <2>0, <3>1, <3>3 DEF Splits
    <3> QED BY <3>2, <3>3, <3>4
  <2> QED BY <2>1, <2>2, <2>3, <2>4
<1>6. TopOf(o2, c, e)
  BY <1>1 DEF TopOf
<1>7. Links(o2, p) = {}
  BY <1>2, NoLinks
<1>8. ASSUME p # t PROVE Links(o2, t) = {}
  <2> SUFFICES ASSUME NEW x \in Frames, NEW g \in Frames, LinksTo(o2, t, x, g)
               PROVE  FALSE
    BY DEF Links
  <2>1. /\ o2[g] = t /\ g # Root /\ prog.kind[g] # "call" /\ prog.parent[g] = x
        /\ o2[x] = t
    BY DEF LinksTo, Inner
  <2>2. o[g] = t /\ o[x] = t /\ x < f
    BY <1>3, <1>8, <2>1
  <2>3. LinksTo(o, t, x, g)
    BY <1>0, <2>1, <2>2 DEF LinksTo, Inner
  <2>4. f <= x
    BY <2>3 DEF Links
  <2>5. x \in Nat
    BY <1>0
  <2> QED BY <1>0, <2>2, <2>4, <2>5
<1>9. ASSUME NEW x \in Links(o2, c) PROVE x \in Links(o, t) /\ f < x
  <2>1. PICK g \in Frames : LinksTo(o2, c, x, g)
    BY <1>9 DEF Links
  <2>2. /\ x \in Frames /\ o2[g] = c /\ g # Root /\ prog.kind[g] # "call"
        /\ prog.parent[g] = x /\ o2[x] = c
    BY <1>9, <2>1 DEF LinksTo, Inner, Links
  <2>3. o[g] = t /\ o[x] = t /\ f < x
    BY <1>1, <2>2
  <2>4. LinksTo(o, t, x, g)
    BY <1>0, <2>2, <2>3 DEF LinksTo, Inner
  <2> QED BY <2>2, <2>3, <2>4 DEF Links
<1>10. ASSUME NEW x \in Links(o, t), x # f PROVE x \in Links(o2, c)
  <2>1. PICK g \in Frames : LinksTo(o, t, x, g)
    BY <1>10 DEF Links
  <2>2. /\ x \in Frames /\ o[g] = t /\ g # Root /\ prog.kind[g] # "call"
        /\ prog.parent[g] = x /\ o[x] = t
    BY <1>10, <2>1 DEF LinksTo, Inner, Links
  <2>3. f < x /\ f < g
    <3>1. f <= x /\ x \in Nat /\ g \in Nat /\ x < g
      BY <1>0, <2>2
    <3> QED BY <1>0, <1>10, <3>1
  <2>4. o2[g] = c /\ o2[x] = c
    BY <1>1, <2>2, <2>3
  <2>5. LinksTo(o2, c, x, g)
    BY <1>0, <2>2, <2>4 DEF LinksTo, Inner
  <2> QED BY <2>2, <2>5 DEF Links
<1>11. ASSUME NEW x \in Frames, o2[x] = c, ~Inner(o2, x)
       PROVE  prog.parent[x] = f /\ prog.kind[x] \in {"spawn", "expr"}
  <2>1. o[x] = t /\ f < x
    BY <1>1, <1>11
  <2>2. /\ x # Root /\ prog.parent[x] \in Frames /\ o[prog.parent[x]] = t
        /\ f <= prog.parent[x]
    BY <1>a, <2>1
  <2>3. ~(f < prog.parent[x])
    <3> SUFFICES ASSUME f < prog.parent[x] PROVE FALSE
      OBVIOUS
    <3>1. o2[prog.parent[x]] = c
      BY <1>1, <2>2
    <3> QED BY <1>0, <1>11, <2>2, <3>1 DEF Inner
  <2>4. prog.parent[x] = f
    <3>1. prog.parent[x] \in Nat
      BY <1>0, <2>2
    <3> QED BY <1>0, <2>2, <2>3, <3>1
  <2>5. PICK g \in Frames : LinksTo(o, t, f, g)
    BY DEF Links
  <2>6. o[g] = t /\ g # Root /\ prog.kind[g] # "call" /\ prog.parent[g] = f
    BY <2>5 DEF LinksTo, Inner
  <2>7. x \in Nat /\ g \in Nat /\ f < g
    BY <1>0, <2>6
  <2>8. ~(x < g) /\ ~(g < x)
    <3>1. x < g => x <= f
      BY <1>0, <2>1, <2>6 DEF Chained
    <3>2. g < x => g <= f
      BY <1>0, <2>1, <2>4, <2>6 DEF Chained
    <3> QED BY <1>0, <2>1, <2>7, <3>1, <3>2
  <2>9. x = g
    BY <2>7, <2>8
  <2> QED BY <2>2, <2>4, <2>6, <2>9, ProgramFrames DEF Types, FrameTypes
<1> QED
  BY <1>1, <1>2, <1>3, <1>4, <1>n, <1>5, <1>6, <1>7, <1>8, <1>9, <1>10, <1>11
     DEF SplitStack

(* What promoting f does: p is its closure, t or one that t calls, and the *)
(* new child c of p is what the victim runs from now on.                   *)
Grown(w, v, t, f, p, c) ==
    /\ t \in Closures /\ p \in Closures /\ c \in Closures /\ c # t /\ c # p /\ cl[c].status = "invalid"
    /\ Others(w) /\ wk'[w].pc = "unbusy" /\ wk'[w].cl = p /\ wk'[w].vic = v /\ wk'[w].frm = f
    /\ busy'[v] = c /\ \A x \in Workers : x # v => busy'[x] = busy[x]
    /\ stolen' = stolen \cup {f} /\ UNCHANGED <<prog, at, home, unsynced, unw, busyLock, dq>>
    /\ cl'[c].status = "running" /\ cl'[c].frame = Null /\ cl'[c].callParent = Null /\ cl'[c].spawnParent = p
    /\ cl'[p].status = "running" /\ cl'[p].frame = f
    /\ cl'[t].callParent = cl[t].callParent /\ cl'[t].spawnParent = cl[t].spawnParent
    /\ p = t <=> OwnsFrame(t, f)
    /\ p # t => /\ cl[p].status = "invalid" /\ cl'[p].callParent = t /\ cl'[p].spawnParent = Null
                /\ cl'[t].status = "suspended" /\ cl'[t].frame = cl[t].frame
                /\ CalledBy(t)' = {p} /\ SpawnedBy(t)' = SpawnedBy(t)
    /\ SpawnedBy(c)' = {}
    /\ \A x \in Closures : x # t /\ x # p /\ x # c =>
         /\ cl'[x].status = cl[x].status /\ cl'[x].frame = cl[x].frame
         /\ cl'[x].callParent = cl[x].callParent /\ cl'[x].spawnParent = cl[x].spawnParent
         /\ SpawnedBy(x)' = SpawnedBy(x) /\ CalledBy(x)' = CalledBy(x)

(* A closure in somebody's hands is in use.                                *)
LEMMA HeldAlive ==
    ASSUME Control, NEW x \in Workers, NEW d \in Closures, Holds(x, d)
    PROVE  d \in Alive
<1>1. Held(x)
  BY DEF Control, Holding
<1> QED BY <1>1 DEF Held, Holds, Alive

(* A promotion keeps the duties, and each closure in the hands of one      *)
(* worker.                                                                 *)
LEMMA GrownControl ==
    ASSUME NEW o, NEW rk, NEW n, Good(o, rk, n), NEW w \in Workers, NEW v, NEW t,
           NEW f, Promotes(w, v, t, f),
           NEW p, NEW c, Grown(w, v, t, f, p, c)
    PROVE  /\ Duties' /\ Holding'
           /\ \A x \in Workers : x # v /\ x # w => Still(x) /\ ~Holds(x, t) /\ ~Holds(x, p) /\ ~Holds(x, c)
           /\ \A x \in Workers : x # v => \A g \in Frames : Taken(x, g)' <=> Taken(x, g)
           /\ \A g \in Frames : ~Taken(v, g)'
<1>0. Types /\ Duties /\ Holding /\ Control /\ Null \notin Closures
  BY Nulls DEF Good, Control
<1>1. /\ v \in Workers /\ v # w /\ t \in Closures /\ f \in Frames /\ t # Null
      /\ busy[v] = t /\ busy[w] = Null /\ dq[w] = <<>> /\ busyLock[v] = w
      /\ t \in Alive /\ cl[t].status = "running"
      /\ (\A x \in Frames : Taken(v, x) => x = f)
      /\ Free(v, t) /\ wk[v].pc \notin Carrying
      /\ wk[v].pc \notin {"synced", "set_return2"}
  BY PromoteFacts
<1>2. wk[w].pc = "promote" /\ wk[w].vic = v /\ wk[w].cl = t /\ wk[w].frm = f
  BY DEF Promotes
<1>3. /\ t \in Closures /\ p \in Closures /\ c \in Closures /\ c # t /\ c # p
      /\ cl[c].status = "invalid"
      /\ Others(w) /\ wk'[w].pc = "unbusy" /\ wk'[w].cl = p /\ wk'[w].vic = v
      /\ wk'[w].frm = f
      /\ busy'[v] = c /\ (\A x \in Workers : x # v => busy'[x] = busy[x])
      /\ UNCHANGED <<busyLock, dq>>
      /\ cl'[c].status = "running" /\ cl'[p].status = "running"
      /\ cl'[t].callParent = cl[t].callParent
      /\ (p # t => cl[p].status = "invalid")
      /\ \A x \in Closures : x # t /\ x # p /\ x # c =>
           cl'[x].status = cl[x].status /\ cl'[x].callParent = cl[x].callParent
  BY DEF Grown
<1>4. ASSUME NEW x \in Workers, x # v, x # w
      PROVE  Still(x) /\ ~Holds(x, t) /\ ~Holds(x, p) /\ ~Holds(x, c)
  <2>1. Still(x) /\ ~Holds(x, t)
    BY <1>1, <1>3, <1>4 DEF Others, Free
  <2>2. ~Holds(x, c) /\ (p # t => ~Holds(x, p))
    BY <1>0, <1>3, HeldAlive DEF Alive
  <2> QED BY <2>1, <2>2
<1>5. \A x \in Workers : wk[x].pc = "promote" /\ x # w => wk[x].vic # v
  BY <1>0, <1>1 DEF Duties, Duty
<1>6. \A g \in Frames : ~Taken(v, g)'
  BY <1>3, <1>5 DEF Taken, Others, Still
<1>7. \A x \in Workers : x # v => \A g \in Frames : Taken(x, g)' <=> Taken(x, g)
  BY <1>2, <1>3 DEF Taken, Others, Still
<1>8. Duties'
  <2>1. Duty(w)'
    BY <1>0, <1>1, <1>3 DEF Duty, Idling, Locked, Carrying
  <2>2. OthersLocks(w)
    BY <1>0, <1>3, LocksKept
  <2>3. ASSUME NEW x \in Workers, x # w PROVE Duty(x)'
    <3>1. \/ busy'[x] = busy[x]
          \/ busy'[x] # Null /\ busy[x] # Null /\ wk[x].pc \notin {"synced", "set_return2"}
      BY <1>0, <1>1, <1>3
    <3>2. wk[x].pc = "promote" => busy'[wk[x].vic] = busy[wk[x].vic] /\ wk'[wk[x].vic].pc # "synced"
      <4> SUFFICES ASSUME wk[x].pc = "promote"
                   PROVE  busy'[wk[x].vic] = busy[wk[x].vic] /\ wk'[wk[x].vic].pc # "synced"
        OBVIOUS
      <4>1. PICK y \in Workers : wk[x].vic = y /\ wk[y].pc # "synced" /\ y # v
        BY <1>0, <1>5, <2>3 DEF Duties, Duty
      <4>2. wk'[y].pc # "synced"
        BY <1>3, <4>1 DEF Others, Still
      <4> QED BY <1>3, <4>1, <4>2
    <3>3. wk[x].pc = "set_return2" => cl'[wk[x].cl].callParent = cl[wk[x].cl].callParent
      <4> SUFFICES ASSUME wk[x].pc = "set_return2"
                   PROVE  cl'[wk[x].cl].callParent = cl[wk[x].cl].callParent
        OBVIOUS
      <4>1. wk[x].cl \in Closures /\ Holds(x, wk[x].cl)
        BY <1>0, CarryWork DEF Carrying
      <4>2. wk[x].cl # t /\ wk[x].cl # p /\ wk[x].cl # c
        BY <1>1, <1>4, <2>3, <4>1
      <4> QED BY <1>3, <4>1, <4>2
    <3>4. dq[x] = <<>> => dq'[x] = <<>>
      BY <1>3
    <3> QED BY <1>0, <1>3, <2>2, <2>3, <3>1, <3>2, <3>3, <3>4, DutyOfOther
  <2> QED BY <2>1, <2>3 DEF Duties
<1>9. Holding'
  <2>1. ASSUME NEW d \in Closures, Holds(v, d)' PROVE d = c
    BY <1>1, <1>3, <2>1 DEF Holds, Carries, Others, Still
  <2>2. ASSUME NEW d \in Closures, Holds(w, d)' PROVE d = p
    BY <1>0, <1>1, <1>3, <2>2 DEF Holds, Carries
  <2>3. ASSUME NEW x \in Workers, x # v, x # w, NEW d \in Closures, Holds(x, d)'
        PROVE  Holds(x, d) /\ d # t /\ d # p /\ d # c
    <3>1. Holds(x, d)
      BY <1>3, <1>4, <2>3 DEF Holds, Carries, Still
    <3> QED BY <1>4, <2>3, <3>1
  <2>4. Unique'
    <3> SUFFICES ASSUME NEW d \in Closures, NEW x \in Workers, NEW y \in Workers,
                        Holds(x, d)', Holds(y, d)', x # y
                 PROVE  FALSE
      BY DEF Unique
    <3>1. CASE x \in {v, w} \/ y \in {v, w}
      BY <1>3, <2>1, <2>2, <2>3, <3>1
    <3>2. CASE x \notin {v, w} /\ y \notin {v, w}
      <4>1. Holds(x, d) /\ Holds(y, d)
        BY <2>3, <3>2
      <4> QED BY <1>0, <4>1 DEF Holding, Unique
    <3> QED BY <3>1, <3>2
  <2>5. ASSUME NEW x \in Workers PROVE Held(x)'
    <3>1. CASE x = v
      <4>1. \A d \in Closures : (busy'[x] = d => d = c) /\ ~Carries(x, d)'
        BY <1>1, <1>3, <3>1 DEF Carries, Others, Still
      <4>2. wk'[x].pc # "set_return2"
        BY <1>1, <1>3, <3>1 DEF Others, Still
      <4> QED BY <1>3, <4>1, <4>2 DEF Held
    <3>2. CASE x = w
      <4>1. \A d \in Closures : busy'[x] # d /\ (Carries(x, d)' => d = p)
        BY <1>0, <1>1, <1>3, <3>2 DEF Carries
      <4>2. wk'[x].pc \notin {"return", "return2"}
        BY <1>3, <3>2
      <4> QED BY <1>3, <4>1, <4>2 DEF Held
    <3>3. CASE x # v /\ x # w
      <4>1. Held(x) /\ Still(x) /\ busy'[x] = busy[x]
        BY <1>0, <1>3, <1>4, <3>3 DEF Holding
      <4>2. ASSUME NEW d \in Closures, Holds(x, d)' PROVE cl'[d].status = cl[d].status
        BY <1>3, <2>3, <3>3, <4>2
      <4>3. \A d \in Closures : busy'[x] = d \/ Carries(x, d)' => cl'[d].status = cl[d].status
        BY <4>2 DEF Holds
      <4>4. \A d \in Closures : Carries(x, d)' <=> Carries(x, d)
        BY <4>1 DEF Carries, Still
      <4> QED BY <4>1, <4>3, <4>4 DEF Held, Still
    <3> QED BY <3>1, <3>2, <3>3
  <2> QED BY <2>4, <2>5 DEF Holding
<1> QED BY <1>4, <1>6, <1>7, <1>8, <1>9

(* The stolen frame in the stack of the victim's closure: it is the base   *)
(* of a closure that owns it, and is called or spawned by one that does    *)
(* not.                                                                    *)
LEMMA GrownBase ==
    ASSUME NEW o, NEW rk, NEW n, Good(o, rk, n), NEW w \in Workers, NEW v, NEW t,
           NEW f, Promotes(w, v, t, f),
           NEW p, NEW c, Grown(w, v, t, f, p, c)
    PROVE  /\ p = t => /\ ~Inner(o, f) /\ (\A x \in Frames : o[x] = t => f <= x)
                       /\ (cl[t].frame = f \/ (cl[t].frame = Null /\ SpawnedBy(t) = {} /\ prog.kind[f] = "expr"))
                       /\ (prog.kind[f] = "expr" => SpawnedFrom(t, f) /\ cl[t].spawnParent # t)
           /\ p # t => /\ f # Root /\ prog.kind[f] # "expr" /\ cl[t].frame # f
                       /\ (prog.kind[f] = "call" => o[prog.parent[f]] = t)
                       /\ (prog.kind[f] # "call" =>
                             prog.kind[f] = "spawn" /\ ~Inner(o, f) /\ SpawnedFrom(t, f) /\ cl[t].frame = Null)
<1>0. /\ Types /\ Bases(o) /\ Bottoms(o) /\ Chained(o) /\ Null \notin Closures
      /\ Null \notin Frames
  BY Nulls DEF Good, Control, Stacks
<1>1. /\ t \in Closures /\ f \in Frames /\ t # Null /\ t \in Alive
      /\ f \in Links(o, t) /\ o[f] = t /\ (\A x \in Links(o, t) : f <= x)
      /\ ~Swapped(t) /\ ~Promoting(t)
  BY PromoteFacts
<1>2. p = t <=> OwnsFrame(t, f)
  BY DEF Grown
<1>3. /\ Frames \subseteq Nat \ {0} /\ f \in Nat
      /\ (f # Root => prog.parent[f] \in Frames /\ prog.parent[f] < f)
      /\ prog.kind[Root] = "root"
  BY <1>0, <1>1, ProgramFrames DEF Types, FrameTypes
<1>4. f # Root => prog.kind[f] \in {"spawn", "expr", "call"}
  BY <1>0, <1>1, ProgramFrames DEF Types, FrameTypes
<1>5. Inner(o, f) => prog.kind[f] = "call"
  <2> SUFFICES ASSUME Inner(o, f), prog.kind[f] # "call" PROVE FALSE
    OBVIOUS
  <2>1. f # Root
    BY DEF Inner
  <2>2. LinksTo(o, t, prog.parent[f], f) /\ prog.parent[f] \in Frames
    BY <1>1, <1>3, <2>1 DEF LinksTo
  <2>3. f <= prog.parent[f]
    BY <1>1, <2>2 DEF Links
  <2>4. prog.parent[f] \in Nat
    BY <1>3, <2>2
  <2> QED BY <1>3, <2>1, <2>3, <2>4
<1>6. ~Inner(o, f) => f = cl[t].frame
                      \/ (cl[t].frame = Null /\ prog.kind[f] \in {"spawn", "expr"} /\ SpawnedFrom(t, f))
  BY <1>0, <1>1 DEF Bottoms, Bottom
<1>7. cl[t].frame = f => /\ ~Inner(o, f) /\ (prog.kind[f] = "expr" => SpawnedFrom(t, f))
  BY <1>0, <1>1 DEF Bases, Base, Based
<1>8. ASSUME p = t
      PROVE  /\ ~Inner(o, f) /\ (\A x \in Frames : o[x] = t => f <= x)
             /\ (cl[t].frame = f \/ (cl[t].frame = Null /\ SpawnedBy(t) = {} /\ prog.kind[f] = "expr"))
             /\ (prog.kind[f] = "expr" => SpawnedFrom(t, f) /\ cl[t].spawnParent # t)
  <2>1. cl[t].frame = f \/ prog.kind[f] = "expr"
    BY <1>2, <1>8 DEF OwnsFrame
  <2>2. ~Inner(o, f)
    BY <1>5, <1>7, <2>1
  <2>3. ASSUME NEW x \in Frames, o[x] = t PROVE f <= x
    <3>1. ~(x < f)
      <4> SUFFICES ASSUME x < f PROVE FALSE
        OBVIOUS
      <4>1. o[prog.parent[f]] = o[f] /\ f # Root
        BY <1>0, <1>1, <1>3, <2>3 DEF Chained, Root
      <4> QED BY <1>1, <2>2, <4>1 DEF Inner
    <3>2. x \in Nat
      BY <1>3
    <3> QED BY <1>3, <3>1, <3>2
  <2>4. cl[t].frame = f \/ (cl[t].frame = Null /\ SpawnedBy(t) = {} /\ prog.kind[f] = "expr")
    BY <1>0, <1>1, <1>6, <2>1, <2>2 DEF Bases, Spawning
  <2>5. ASSUME prog.kind[f] = "expr" PROVE SpawnedFrom(t, f) /\ cl[t].spawnParent # t
    <3>1. SpawnedFrom(t, f)
      BY <1>6, <1>7, <2>2, <2>5
    <3>2. f # Root
      BY <1>3, <2>5
    <3>3. prog.parent[f] # f /\ prog.parent[f] # Null
      BY <1>0, <1>3, <3>2
    <3>4. cl[t].frame # prog.parent[f]
      BY <2>4, <3>3
    <3> QED BY <3>1, <3>4 DEF SpawnedFrom
  <2> QED BY <2>2, <2>3, <2>4, <2>5
<1>9. ASSUME p # t
      PROVE  /\ f # Root /\ prog.kind[f] # "expr" /\ cl[t].frame # f
             /\ (prog.kind[f] = "call" => o[prog.parent[f]] = t)
             /\ (prog.kind[f] # "call" =>
                   prog.kind[f] = "spawn" /\ ~Inner(o, f) /\ SpawnedFrom(t, f) /\ cl[t].frame = Null)
  <2>1. cl[t].frame # f /\ prog.kind[f] # "expr"
    BY <1>2, <1>9 DEF OwnsFrame
  <2>2. f # Root
    <3>1. f = Root => ~Inner(o, f)
      BY DEF Inner
    <3> QED BY <1>3, <1>6, <2>1, <3>1
  <2>3. prog.kind[f] = "call" => Inner(o, f)
    BY <1>6, <2>1
  <2>4. prog.kind[f] = "call" => o[prog.parent[f]] = t
    BY <1>1, <2>3 DEF Inner
  <2> QED BY <1>4, <1>5, <1>6, <2>1, <2>2, <2>4
<1> QED BY <1>8, <1>9

(* The stolen frame returns to the closure it was on the stack of.         *)
LEMMA SplitCalled ==
    ASSUME NEW o, NEW rk, NEW n, Good(o, rk, n), NEW w \in Workers, NEW v, NEW t,
           NEW f, Promotes(w, v, t, f),
           NEW p, NEW c, Grown(w, v, t, f, p, c), p # t, NEW o2,
           \A x \in Frames : o2[x] = t <=> (o[x] = t /\ x < f)
    PROVE  CalledFrom(o2, t, f)'
<1>0. /\ Types /\ Chained(o) /\ Parents
  BY DEF Good, Control, Stacks, Tree
<1>1. /\ t \in Closures /\ f \in Frames /\ t # Null /\ t \in Alive /\ o[f] = t
  BY PromoteFacts
<1>2. /\ f # Root /\ prog.kind[f] # "expr" /\ cl[t].frame # f
      /\ (prog.kind[f] = "call" => o[prog.parent[f]] = t)
      /\ (prog.kind[f] # "call" => prog.kind[f] = "spawn" /\ ~Inner(o, f) /\ SpawnedFrom(t, f) /\ cl[t].frame = Null)
  BY GrownBase
<1>3. /\ prog' = prog /\ Frames' = Frames /\ cl'[t].frame = cl[t].frame
      /\ cl'[t].spawnParent = cl[t].spawnParent
  BY DEF Grown, Frames
<1>4. prog.parent[f] \in Frames /\ prog.parent[f] < f
  BY <1>0, <1>1, <1>2, ProgramFrames DEF Types, FrameTypes
<1>5. CASE prog.kind[f] = "call"
  <2>1. o2[prog.parent[f]] = t
    BY <1>2, <1>4, <1>5
  <2>2. \A g \in Frames : o2[g] = t => g <= prog.parent[f]
    BY <1>0, <1>1 DEF Chained
  <2>3. TopOf(o2, t, prog.parent[f])'
    BY <1>3, <1>4, <2>1, <2>2 DEF TopOf
  <2> QED BY <1>1, <1>3, <1>5, <2>3 DEF CalledFrom
<1>6. CASE prog.kind[f] # "call"
  <2>1. \A g \in Frames : o2[g] # t
    <3> SUFFICES ASSUME NEW g \in Frames, o[g] = t, g < f PROVE FALSE
      OBVIOUS
    <3>1. o[prog.parent[f]] = o[f]
      BY <1>0, <1>1 DEF Chained
    <3> QED BY <1>1, <1>2, <1>6, <3>1 DEF Inner
  <2>2. Bare(o2, t)'
    BY <1>2, <1>3, <1>6, <2>1 DEF Bare
  <2>3. SpawnedFrom(t, f)'
    <3>1. SpawnedFrom(t, f) /\ cl[t].spawnParent \in Alive
      BY <1>0, <1>1, <1>2, <1>6 DEF SpawnedFrom, Parents
    <3>2. PICK q : q = cl[t].spawnParent
      OBVIOUS
    <3>3. q \in Closures /\ q # p /\ q # c
      BY <3>1, <3>2 DEF Alive, Grown
    <3>4. cl'[q].frame = cl[q].frame
      BY <1>3, <3>3 DEF Grown
    <3> QED BY <1>3, <3>1, <3>2, <3>4 DEF SpawnedFrom
  <2> QED BY <1>1, <1>2, <1>3, <1>6, <2>2, <2>3 DEF CalledFrom
<1> QED BY <1>5, <1>6

(* A promotion keeps the invariant: the stack of the victim's closure is   *)
(* split at the stolen frame.                                              *)
LEMMA GrownGood ==
    ASSUME NEW o, NEW rk, NEW n, Good(o, rk, n), NEW w \in Workers, NEW v, NEW t,
           NEW f, Promotes(w, v, t, f),
           NEW p, NEW c, Grown(w, v, t, f, p, c), Types',
           NEW rk2 \in [Closures -> Nat], NEW n2, Tree(rk2, n2)'
    PROVE  \E o2 : Good(o2, rk2, n2)'
<1>0. /\ Types /\ Duties /\ Holding /\ Control /\ Deques(o) /\ Stacks(o)
      /\ Ghosts(o, rk)
      /\ Tops(o) /\ Bases(o) /\ Points /\ Parents /\ Owned(o) /\ Positions(o)
      /\ Chained(o) /\ Bottoms(o)
      /\ Null \notin Closures
  BY Nulls DEF Good, Control, Tree, Stacks
<1>1. /\ v \in Workers /\ v # w /\ t \in Closures /\ f \in Frames /\ t # Null
      /\ busy[v] = t /\ busy[w] = Null /\ dq[w] = <<>> /\ busyLock[v] = w
      /\ t \in Alive /\ cl[t].status = "running" /\ AtFrame(v)
      /\ f \in Links(o, t) /\ o[f] = t
      /\ (\A x \in Frames : Taken(v, x) => x = f) /\ Taken(v, f)
      /\ (\A x \in Links(o, t) : f <= x)
      /\ TopOf(o, t, wk[v].cur) /\ f < wk[v].cur
      /\ Free(v, t) /\ ~Swapped(t) /\ ~Promoting(t) /\ CalledBy(t) = {} /\ SyncAhead(f)
      /\ wk[v].pc \notin Carrying /\ wk[v].pc \notin {"synced", "set_return2"}
  BY PromoteFacts
<1>2. wk[w].pc = "promote" /\ wk[w].vic = v /\ wk[w].cl = t /\ wk[w].frm = f
  BY DEF Promotes
<1>3. /\ p \in Closures /\ c \in Closures /\ c # t /\ c # p /\ cl[c].status = "invalid"
      /\ Others(w) /\ wk'[w].pc = "unbusy" /\ wk'[w].cl = p /\ wk'[w].vic = v
      /\ wk'[w].frm = f
      /\ busy'[v] = c /\ (\A x \in Workers : x # v => busy'[x] = busy[x])
      /\ stolen' = stolen \cup {f}
      /\ UNCHANGED <<prog, at, home, unsynced, unw, busyLock, dq>>
      /\ cl'[c].status = "running" /\ cl'[c].frame = Null
      /\ cl'[c].callParent = Null /\ cl'[c].spawnParent = p
      /\ cl'[p].status = "running" /\ cl'[p].frame = f
      /\ cl'[t].callParent = cl[t].callParent /\ cl'[t].spawnParent = cl[t].spawnParent
      /\ SpawnedBy(c)' = {} /\ Frames' = Frames
  BY DEF Grown, Frames
<1>4. p # t => /\ cl[p].status = "invalid" /\ cl'[p].callParent = t /\ cl'[p].spawnParent = Null
               /\ cl'[t].status = "suspended" /\ cl'[t].frame = cl[t].frame
               /\ CalledBy(t)' = {p} /\ SpawnedBy(t)' = SpawnedBy(t)
  BY DEF Grown
<1>5. \A x \in Closures : x # t /\ x # p /\ x # c =>
         /\ cl'[x].status = cl[x].status /\ cl'[x].frame = cl[x].frame
         /\ cl'[x].callParent = cl[x].callParent /\ cl'[x].spawnParent = cl[x].spawnParent
         /\ SpawnedBy(x)' = SpawnedBy(x) /\ CalledBy(x)' = CalledBy(x)
  BY DEF Grown
<1>6. /\ Duties' /\ Holding'
      /\ (\A x \in Workers : x # v /\ x # w => Still(x) /\ ~Holds(x, t) /\ ~Holds(x, p) /\ ~Holds(x, c))
      /\ (\A x \in Workers : x # v => \A g \in Frames : Taken(x, g)' <=> Taken(x, g))
      /\ (\A g \in Frames : ~Taken(v, g)')
  BY GrownControl
<1>7. p = t => /\ ~Inner(o, f) /\ (\A x \in Frames : o[x] = t => f <= x)
               /\ (cl[t].frame = f \/ (cl[t].frame = Null /\ SpawnedBy(t) = {} /\ prog.kind[f] = "expr"))
               /\ (prog.kind[f] = "expr" => SpawnedFrom(t, f) /\ cl[t].spawnParent # t)
  BY GrownBase
<1>8. p # t => f # Root /\ prog.kind[f] # "expr" /\ cl[t].frame # f
  BY GrownBase
<1>9. /\ Frames \subseteq Nat \ {0} /\ f \in Nat
      /\ (\A x \in Frames : x # Root => prog.parent[x] \in Frames /\ prog.parent[x] < x)
      /\ prog.kind[Root] = "root"
  BY <1>0, <1>1, ProgramFrames DEF Types, FrameTypes
<1>10. /\ c \notin Alive /\ (p # t => p \notin Alive) /\ Alive \subseteq Closures
       /\ t \in Alive' /\ p \in Alive' /\ c \in Alive'
  BY <1>1, <1>3, <1>4 DEF Alive
<1>11. PICK o2 \in [Frames -> Closures \cup {Null}] : Splits(o, o2, t, f, p, c)
  <2>1. PICK o2 : o2 = [x \in Frames |-> IF o[x] # t THEN o[x] ELSE IF x > f THEN c ELSE IF x = f THEN p ELSE t]
    OBVIOUS
  <2>2. o2 \in [Frames -> Closures \cup {Null}]
    BY <1>0, <1>1, <1>3, <2>1 DEF Ghosts
  <2>3. Splits(o, o2, t, f, p, c)
    <3> SUFFICES ASSUME NEW x \in Frames
                 PROVE  /\ o[x] # t => o2[x] = o[x]
                        /\ o[x] = t /\ x > f => o2[x] = c
                        /\ o[x] = t /\ x < f => o2[x] = t
                        /\ x = f => o2[x] = p
      BY DEF Splits
    <3>1. x \in Nat
      BY <1>9
    <3> QED BY <1>1, <1>9, <2>1, <3>1
  <2> QED BY <2>2, <2>3
<1>12. \A x \in Frames : o[x] # c /\ (p # t => o[x] # p)
  BY <1>0, <1>3, <1>10 DEF Owned
<1>13. /\ (\A x \in Frames : o2[x] = c <=> (o[x] = t /\ f < x))
       /\ Only(o2, p, f)
       /\ (p # t => \A x \in Frames : o2[x] = t <=> (o[x] = t /\ x < f))
       /\ (\A d \in Closures : d # t /\ d # p /\ d # c => Same(o, o2, d))
       /\ Chained(o2) /\ TopOf(o2, c, wk[v].cur)
       /\ Links(o2, p) = {} /\ (p # t => Links(o2, t) = {})
       /\ (\A x \in Links(o2, c) : x \in Links(o, t) /\ f < x)
       /\ (\A x \in Links(o, t) : x # f => x \in Links(o2, c))
       /\ (\A x \in Frames : o2[x] # Null => o[x] # Null)
       /\ (\A x \in Frames : o[x] # Null => o2[x] # Null)
       /\ (\A x \in Frames : o2[x] = c /\ ~Inner(o2, x) =>
             prog.parent[x] = f /\ prog.kind[x] \in {"spawn", "expr"})
  <2>1. p = t => \A x \in Frames : o[x] = t => f <= x
    BY <1>7
  <2>2. PICK e : e = wk[v].cur
    OBVIOUS
  <2>3. Splitting(o, o2, t, f, p, c, e)
    BY <1>0, <1>1, <1>3, <1>11, <1>12, <2>1, <2>2 DEF Splitting
  <2>4. SplitStack(o, o2, t, f, p, c, e)
    BY <2>3, SplitFacts
  <2> QED BY <2>2, <2>4 DEF SplitStack
<1>14. /\ \A d : Links(o2, d)' = Links(o2, d)
       /\ \A x : Inner(o2, x)' <=> Inner(o2, x)
  BY <1>3 DEF Links, LinksTo, Inner
<1>t. PICK T, W : (\A d : d \in T <=> (d = t \/ d = p \/ d = c)) /\ (\A x : x \in W <=> (x = w \/ x = v))
  <2>1. /\ (\A d : d \in {t, p, c} <=> (d = t \/ d = p \/ d = c))
        /\ (\A x : x \in {w, v} <=> (x = w \/ x = v))
    OBVIOUS
  <2> QED BY <2>1
<1>15. \A d \in Closures : d \notin T => Untouched(o, o2, d) /\ \A x \in W : busy[x] # d
  BY <1>t, <1>0, <1>1, <1>5, <1>13 DEF Untouched
<1>16. \A x \in Workers : x \notin W => Aside(x, T)
  BY <1>t, <1>3, <1>6 DEF Aside
<1>17. \A d \in Alive : d \notin T =>
         cl[d].callParent \notin T /\ \A x \in Frames : SpawnedFrom(d, x) => SpawnedFrom(d, x)'
  <2> SUFFICES ASSUME NEW d \in Alive, d # t, d # p, d # c
               PROVE  /\ cl[d].callParent # t /\ cl[d].callParent # p /\ cl[d].callParent # c
                      /\ \A x \in Frames : SpawnedFrom(d, x) => SpawnedFrom(d, x)'
    BY <1>t
  <2>1. cl[d].callParent # t /\ cl[d].callParent # p /\ cl[d].callParent # c
    <3>1. cl[d].callParent # t
      BY <1>1 DEF CalledBy
    <3>2. cl[d].callParent # Null => cl[d].callParent \in Alive
      BY <1>0 DEF Parents, Alive
    <3> QED BY <1>0, <1>3, <1>10, <3>1, <3>2
  <2>2. ASSUME NEW x \in Frames, SpawnedFrom(d, x) PROVE SpawnedFrom(d, x)'
    <3>1. PICK q : q = cl[d].spawnParent
      OBVIOUS
    <3>2. /\ q \in Alive /\ q \in Closures /\ q # Null
          /\ cl[q].frame = prog.parent[x] /\ d \in SpawnedBy(q)
      BY <1>0, <2>2, <3>1 DEF SpawnedFrom, Parents, Alive, SpawnedBy
    <3>3. cl'[d].spawnParent = q /\ prog' = prog
      BY <1>3, <1>5, <1>10, <3>1
    <3>4. cl'[q].frame = cl[q].frame
      <4>1. CASE q = t
        <5>1. p = t => cl[t].frame = f
          BY <1>7, <3>2, <4>1
        <5> QED BY <1>3, <1>4, <4>1, <5>1
      <4>2. CASE q # t
        BY <1>5, <1>10, <3>2, <4>2
      <4> QED BY <4>1, <4>2
    <3> QED BY <3>2, <3>3, <3>4 DEF SpawnedFrom
  <2> QED BY <2>1, <2>2
<1>18. \A x \in Frames : home'[x] # Null \/ x \in unsynced' => o2[x] # Null
  <2>1. \A x \in Frames : home[x] # Null \/ x \in unsynced => o[x] # Null
    BY <1>0 DEF Owned, Bases
  <2> QED BY <1>3, <1>13, <2>1
<1>19. Helping(v) => Helping(v)'
  <2>1. Still(v) /\ (AtFrame(v) => at'[Cur(v)] = at[Cur(v)]) /\ prog' = prog
    BY <1>1, <1>3 DEF Others
  <2> QED BY <1>0, <1>1, <2>1, HelpingKept
<1>20. ASSUME NEW x \in Frames, o[x] = t, x \in stolen, cl[t].frame # x
       PROVE  wk[v].cur = x /\ Helping(v)
  <2>1. Stolen(o, x)
    BY <1>0, <1>1, <1>20 DEF Bases
  <2>2. PICK y \in Workers : (wk[y].pc = "set_return2" /\ wk[y].cl = t) \/ (busy[y] = t /\ wk[y].cur = x /\ Helping(y))
    BY <1>20, <2>1 DEF Stolen
  <2>3. busy[y] = t /\ wk[y].cur = x /\ Helping(y)
    BY <1>1, <2>2 DEF Swapped
  <2>4. y = v
    BY <1>1, <2>3 DEF Free, Holds
  <2> QED BY <2>3, <2>4
<1>21. cl[t].frame # Null => o[cl[t].frame] = t /\ ~Inner(o, cl[t].frame) /\ cl[t].frame \in Frames /\ cl[t].frame <= f
  <2> SUFFICES ASSUME cl[t].frame # Null
               PROVE  o[cl[t].frame] = t /\ ~Inner(o, cl[t].frame) /\ cl[t].frame \in Frames /\ cl[t].frame <= f
    OBVIOUS
  <2>1. cl[t].frame \in Frames /\ o[cl[t].frame] = t /\ ~Inner(o, cl[t].frame)
    BY <1>0, <1>1 DEF Bases, Base, Based, Types, ClosureTypes, ClosureOK
  <2>2. PICK b \in Frames : b = cl[t].frame
    BY <2>1
  <2>3. ~(f < b)
    <3> SUFFICES ASSUME f < b PROVE FALSE
      OBVIOUS
    <3>1. o[prog.parent[b]] = o[b] /\ b # Root
      BY <1>0, <1>1, <1>9, <2>1, <2>2 DEF Chained, Root
    <3> QED BY <1>1, <2>1, <2>2, <3>1 DEF Inner
  <2>4. b \in Nat
    BY <1>9
  <2>5. b <= f
    BY <1>9, <2>3, <2>4
  <2> QED BY <2>1, <2>2, <2>5
<1>22. \A x \in Frames : o2[x] \in T => Restacked(o2, x)'
  <2> SUFFICES ASSUME NEW x \in Frames, o2[x] \in T PROVE Restacked(o2, x)'
    OBVIOUS
  <2>0. /\ x \in Nat /\ (x \in stolen' <=> (x \in stolen \/ x = f))
        /\ unsynced' = unsynced
    BY <1>3, <1>9
  <2>1. CASE o2[x] = c
    <3>1. o[x] = t /\ f < x /\ x # f
      BY <1>9, <1>13, <2>0, <2>1
    <3>2. cl[t].frame # x
      <4>1. cl[t].frame # Null => cl[t].frame <= f
        BY <1>21
      <4>2. x # Null
        BY <1>0, Nulls
      <4> QED BY <1>9, <2>0, <3>1, <4>1, <4>2
    <3>3. x \notin unsynced
      BY <1>0, <3>1, <3>2 DEF Bases
    <3>4. x \in stolen' => Stolen(o2, x)'
      <4> SUFFICES ASSUME x \in stolen PROVE Stolen(o2, x)'
        BY <2>0, <3>1
      <4>1. wk[v].cur = x /\ Helping(v)
        BY <1>20, <3>1, <3>2
      <4>2. busy'[v] = o2[x] /\ wk'[v].cur = x /\ Helping(v)'
        BY <1>1, <1>3, <1>19, <2>1, <4>1 DEF Others, Still
      <4> QED BY <1>1, <4>2 DEF Stolen
    <3>5. ~Inner(o2, x)' => Bottom(o2, x)'
      <4> SUFFICES ASSUME ~Inner(o2, x) PROVE Bottom(o2, x)'
        BY <1>14
      <4>1. prog.parent[x] = f /\ prog.kind[x] \in {"spawn", "expr"}
        BY <1>13, <2>1
      <4>2. p # Null
        BY <1>0, <1>3
      <4>3. SpawnedFrom(c, x)'
        BY <1>3, <4>1, <4>2 DEF SpawnedFrom
      <4> QED BY <1>3, <2>1, <4>1, <4>3 DEF Bottom
    <3> QED BY <1>10, <2>0, <2>1, <3>3, <3>4, <3>5 DEF Restacked
  <2>2. CASE o2[x] = p
    <3>1. x = f /\ cl'[o2[x]].frame = x
      BY <1>3, <1>13, <2>2 DEF Only
    <3> QED BY <1>10, <2>0, <2>2, <3>1 DEF Restacked, Bottom, Stolen
  <2>3. CASE o2[x] = t /\ p # t
    <3>1. o[x] = t /\ x < f /\ x # f
      BY <1>9, <1>13, <2>0, <2>3
    <3>2. cl'[t].frame = cl[t].frame
      BY <1>4, <2>3
    <3>3. x \in stolen' => cl[t].frame = x
      <4> SUFFICES ASSUME x \in stolen, cl[t].frame # x PROVE FALSE
        BY <2>0, <3>1
      <4>1. wk[v].cur = x
        BY <1>20, <3>1
      <4> QED BY <1>1, <1>9, <2>0, <3>1, <4>1
    <3>4. x \in unsynced' => x \in stolen' /\ cl'[o2[x]].frame = x
      BY <1>0, <2>0, <2>3, <3>1, <3>2 DEF Bases
    <3>5. ~Inner(o2, x)' => ~Inner(o, x)
      <4> SUFFICES ASSUME Inner(o, x) PROVE Inner(o2, x)
        BY <1>14
      <4>1. x # Root /\ o[prog.parent[x]] = t
        BY <3>1 DEF Inner
      <4>2. prog.parent[x] \in Frames /\ prog.parent[x] < x
        BY <1>9, <4>1
      <4>3. prog.parent[x] \in Nat
        BY <1>9, <4>2
      <4>4. prog.parent[x] < f
        BY <1>9, <2>0, <3>1, <4>2, <4>3
      <4>5. o2[prog.parent[x]] = t
        BY <1>13, <2>3, <4>1, <4>2, <4>4
      <4> QED BY <1>1, <2>3, <4>1, <4>5 DEF Inner
    <3>6. ~Inner(o, x) => x = cl[t].frame \/ (cl[t].frame = Null /\ prog.kind[x] \in {"spawn", "expr"} /\ SpawnedFrom(t, x))
      BY <1>0, <1>1, <3>1 DEF Bottoms, Bottom
    <3>7. SpawnedFrom(t, x) => SpawnedFrom(t, x)'
      <4> SUFFICES ASSUME SpawnedFrom(t, x) PROVE SpawnedFrom(t, x)'
        OBVIOUS
      <4>1. PICK q : q = cl[t].spawnParent
        OBVIOUS
      <4>2. q \in Alive /\ q # Null /\ cl[q].frame = prog.parent[x]
        BY <1>0, <1>1, <4>1 DEF SpawnedFrom, Parents
      <4>3. cl'[q].frame = cl[q].frame
        BY <1>5, <1>10, <2>3, <3>2, <4>2
      <4> QED BY <1>3, <4>1, <4>2, <4>3 DEF SpawnedFrom
    <3>8. ~Inner(o2, x)' => Bottom(o2, x)'
      BY <1>3, <2>3, <3>2, <3>5, <3>6, <3>7 DEF Bottom
    <3>9. x \in stolen' => Stolen(o2, x)'
      BY <2>3, <3>2, <3>3 DEF Stolen
    <3> QED BY <1>10, <2>3, <3>4, <3>8, <3>9 DEF Restacked
  <2> QED BY <1>t, <2>1, <2>2, <2>3
<1>23. Promoting(p)'
  BY <1>3 DEF Promoting
<1>24. ASSUME p # t PROVE Base(o2, t)'
  <2>0. cl'[t].frame = cl[t].frame /\ Base(o, t)
    BY <1>0, <1>1, <1>4, <1>24 DEF Bases
  <2>1. CASE cl[t].frame = Null
    BY <1>1, <1>3, <2>0, <2>1 DEF Base
  <2>2. CASE cl[t].frame # Null
    <3>1. PICK b \in Frames : b = cl[t].frame /\ o[b] = t /\ ~Inner(o, b) /\ b <= f
      BY <1>21, <2>2
    <3>2. /\ b \in stolen
          /\ (b = Root => cl[t].callParent = Null /\ cl[t].spawnParent = Null)
          /\ (prog.kind[b] = "expr" => SpawnedFrom(t, b))
          /\ (b # Root /\ prog.kind[b] # "expr" => CalledFrom(o, cl[t].callParent, b))
      BY <2>0, <2>2, <3>1 DEF Base, Based
    <3>3. b < f
      <4>1. b # f /\ b \in Nat
        BY <1>8, <1>9, <1>24, <3>1
      <4> QED BY <1>9, <3>1, <4>1
    <3>4. o2[b] = t
      BY <1>13, <1>24, <3>1, <3>3
    <3>5. ~Inner(o2, b)'
      <4> SUFFICES ASSUME Inner(o2, b) PROVE FALSE
        BY <1>14
      <4>1. b # Root /\ o2[prog.parent[b]] = t /\ prog.parent[b] \in Frames
        BY <1>9, <3>4 DEF Inner
      <4>2. o[prog.parent[b]] = t
        BY <1>13, <1>24, <4>1
      <4> QED BY <1>1, <3>1, <4>1, <4>2 DEF Inner
    <3>6. prog.kind[b] = "expr" => SpawnedFrom(t, b)'
      <4> SUFFICES ASSUME SpawnedFrom(t, b) PROVE SpawnedFrom(t, b)'
        BY <3>2
      <4>1. PICK q : q = cl[t].spawnParent
        OBVIOUS
      <4>2. q \in Alive /\ q # Null /\ cl[q].frame = prog.parent[b]
        BY <1>0, <1>1, <4>1 DEF SpawnedFrom, Parents
      <4>3. cl'[q].frame = cl[q].frame
        BY <1>5, <1>10, <1>24, <2>0, <4>2
      <4> QED BY <1>3, <4>1, <4>2, <4>3 DEF SpawnedFrom
    <3>7. ASSUME b # Root, prog.kind[b] # "expr"
          PROVE  CalledFrom(o2, cl[t].callParent, b)'
      <4>1. PICK q : q = cl[t].callParent
        OBVIOUS
      <4>2. CalledFrom(o, q, b)
        BY <3>2, <3>7, <4>1
      <4>3. q \in Closures /\ q # Null /\ cl[q].status = "suspended" /\ q \in Alive
        BY <1>0, <1>1, <4>1, <4>2 DEF CalledFrom, Parents, Alive
      <4>4. q # t /\ q # p /\ q # c
        BY <1>1, <1>10, <1>24, <4>3
      <4>5. Same(o, o2, q) /\ cl'[q].frame = cl[q].frame
        BY <1>5, <1>13, <4>3, <4>4
      <4>6. SpawnedFrom(q, b) => SpawnedFrom(q, b)'
        BY <1>17, <1>t, <4>3, <4>4
      <4>7. CalledFrom(o2, q, b)'
        BY <1>0, <1>3, <4>2, <4>3, <4>5, <4>6, CalledFromKept
      <4>8. cl'[t].callParent = q
        BY <1>3, <4>1
      <4> QED BY <4>7, <4>8
    <3>8. Based(o2, t, b)'
      BY <1>3, <3>2, <3>4, <3>5, <3>6, <3>7 DEF Based
    <3>9. cl'[t].frame = b /\ b # Null
      BY <2>0, <2>2, <3>1
    <3> QED BY <3>8, <3>9 DEF Base
  <2> QED BY <2>1, <2>2
<1>25. ~Inner(o2, f)'
  <2> SUFFICES ASSUME Inner(o2, f) PROVE FALSE
    BY <1>14
  <2>1. f # Root /\ o2[prog.parent[f]] = o2[f]
    BY DEF Inner
  <2>2. prog.parent[f] \in Frames /\ prog.parent[f] < f
    BY <1>1, <1>9, <2>1
  <2>3. prog.parent[f] = f
    BY <1>1, <1>13, <2>1, <2>2 DEF Only
  <2> QED BY <1>9, <2>2, <2>3
<1>26. o2[f] = p /\ f \in stolen'
  BY <1>1, <1>3, <1>13 DEF Only
<1>27. ASSUME p # t PROVE Base(o2, p)'
  <2>1. CalledFrom(o2, t, f)'
    BY <1>13, <1>27, SplitCalled
  <2>2. cl'[p].callParent = t /\ f # Root /\ prog.kind[f] # "expr"
    BY <1>4, <1>8, <1>27
  <2>3. CalledFrom(o2, cl[p].callParent, f)'
    BY <2>1, <2>2
  <2>4. Based(o2, p, f)'
    BY <1>3, <1>25, <1>26, <2>2, <2>3 DEF Based
  <2>5. f # Null
    BY <1>0, <1>1, Nulls
  <2> QED BY <1>3, <2>4, <2>5 DEF Base
<1>28. ASSUME p = t PROVE Base(o2, t)'
  <2>1. f = Root => cl[t].callParent = Null /\ cl[t].spawnParent = Null
    <3> SUFFICES ASSUME f = Root
                 PROVE  cl[t].callParent = Null /\ cl[t].spawnParent = Null
      OBVIOUS
    <3>1. cl[t].frame = f /\ f # Null
      BY <1>0, <1>1, <1>7, <1>9, <1>28, Nulls
    <3> QED BY <1>0, <1>1, <3>1 DEF Bases, Base, Based
  <2>2. prog.kind[f] = "expr" => SpawnedFrom(t, f)'
    <3> SUFFICES ASSUME prog.kind[f] = "expr" PROVE SpawnedFrom(t, f)'
      OBVIOUS
    <3>1. SpawnedFrom(t, f) /\ cl[t].spawnParent # t
      BY <1>7, <1>28
    <3>2. PICK q : q = cl[t].spawnParent
      OBVIOUS
    <3>3. q \in Alive /\ q # Null /\ cl[q].frame = prog.parent[f] /\ q # t
      BY <1>0, <1>1, <3>1, <3>2 DEF SpawnedFrom, Parents
    <3>4. cl'[q].frame = cl[q].frame
      BY <1>5, <1>10, <1>28, <3>3
    <3> QED BY <1>3, <3>2, <3>3, <3>4 DEF SpawnedFrom
  <2>3. ASSUME f # Root, prog.kind[f] # "expr"
        PROVE  CalledFrom(o2, cl[t].callParent, f)'
    <3>1. cl[t].frame = f /\ f # Null
      BY <1>0, <1>1, <1>7, <1>28, <2>3, Nulls
    <3>2. PICK q : q = cl[t].callParent
      OBVIOUS
    <3>3. CalledFrom(o, q, f)
      BY <1>0, <1>1, <2>3, <3>1, <3>2 DEF Bases, Base, Based
    <3>4. q \in Closures /\ q # Null /\ cl[q].status = "suspended" /\ q \in Alive
      BY <1>0, <1>1, <3>2, <3>3 DEF CalledFrom, Parents, Alive
    <3>5. q # t /\ q # p /\ q # c
      BY <1>1, <1>10, <1>28, <3>4
    <3>6. Same(o, o2, q) /\ cl'[q].frame = cl[q].frame
      BY <1>5, <1>13, <3>4, <3>5
    <3>7. SpawnedFrom(q, f) => SpawnedFrom(q, f)'
      BY <1>1, <1>17, <1>t, <3>4, <3>5
    <3>8. CalledFrom(o2, q, f)'
      BY <1>0, <1>1, <1>3, <3>3, <3>4, <3>6, <3>7, CalledFromKept
    <3>9. cl'[t].callParent = q
      BY <1>3, <3>2
    <3> QED BY <3>8, <3>9
  <2>4. Based(o2, t, f)'
    BY <1>3, <1>25, <1>26, <1>28, <2>1, <2>2, <2>3 DEF Based
  <2>5. cl'[t].frame = f /\ f # Null
    BY <1>0, <1>1, <1>3, <1>28, Nulls
  <2> QED BY <2>4, <2>5 DEF Base
<1>29. \A d \in Closures : d \in T => Rebuilt(o2, d)'
  <2>1. Rebuilt(o2, c)'
    <3>1. Base(o2, c)'
      BY <1>0, <1>3 DEF Base
    <3>2. ~Waiting(c)' /\ ~(\A x \in Workers : busy'[x] # c)
      BY <1>1, <1>3 DEF Waiting
    <3> QED BY <1>3, <3>1, <3>2 DEF Rebuilt
  <2>2. Rebuilt(o2, p)'
    <3>1. Base(o2, p)'
      BY <1>27, <1>28
    <3>2. ~Waiting(p)' /\ Links(o2, p)' = {}
      BY <1>3, <1>13, <1>14 DEF Waiting
    <3>3. Spawning(p)'
      <4>1. f # Null
        BY <1>0, <1>1, Nulls
      <4> QED BY <1>3, <1>23, <4>1 DEF Spawning
    <3> QED BY <3>1, <3>2, <3>3 DEF Rebuilt
  <2>3. p # t => Rebuilt(o2, t)'
    <3> SUFFICES ASSUME p # t PROVE Rebuilt(o2, t)'
      OBVIOUS
    <3>1. ~Waiting(t)' /\ Links(o2, t)' = {}
      BY <1>4, <1>13, <1>14 DEF Waiting
    <3>2. SpawnedBy(t)' # {} => Spawning(t)'
      <4>1. SpawnedBy(t)' # {} => cl[t].frame # Null /\ cl[t].frame \in unsynced
        BY <1>0, <1>1, <1>4 DEF Bases, Spawning
      <4>2. cl'[t].frame = cl[t].frame
        BY <1>4
      <4> QED BY <1>3, <4>1, <4>2 DEF Spawning
    <3> QED BY <1>24, <3>1, <3>2 DEF Rebuilt
  <2> QED BY <1>t, <2>1, <2>2, <2>3
<1>30. Top(o2, v)' /\ Top(o2, w)'
  <2>1. Still(v)
    BY <1>1, <1>3 DEF Others
  <2>2. TopOf(o2, busy[v], wk[v].cur)'
    <3>1. TopOf(o2, c, wk[v].cur)
      BY <1>13
    <3> QED BY <1>3, <2>1, <3>1 DEF TopOf, Still
  <2>3. wk'[v].pc \notin {"set_return2", "install", "return", "return2", "unbusy", "finish"}
        /\ ~(wk'[v].pc = "reduce" /\ wk'[v].why = "reduce")
    BY <1>1, <2>1 DEF Still, Carrying, AtFrame, Executing
  <2>4. Top(o2, v)'
    BY <2>2, <2>3 DEF Top
  <2>5. Only(o2, p, f)'
    BY <1>3, <1>13 DEF Only
  <2>6. Top(o2, w)'
    <3>1. cl'[wk'[w].cl].frame = wk'[w].frm /\ Only(o2, wk[w].cl, wk[w].frm)'
      BY <1>3, <2>5
    <3> QED BY <1>3, <3>1 DEF Top, AtFrame, Executing
  <2> QED BY <2>4, <2>6
<1>31. Deque(o2, v)' /\ Deque(o2, w)'
  <2>1. Deque(o, v)
    BY <1>0, <1>1 DEF Deques
  <2>2. \A x \in Frames : x \in Links(o, t) <=> (x \in ToSet(dq[v]) \/ Taken(v, x))
    BY <1>1, <2>1 DEF Deque
  <2>3. \A x \in ToSet(dq[v]) : f < x
    BY <1>1, <2>1 DEF Deque
  <2>4. \A i, j \in DOMAIN dq[v] : i < j => dq[v][i] < dq[v][j]
    BY <2>1 DEF Deque
  <2>5. f \notin ToSet(dq[v])
    BY <1>9, <2>3
  <2>6. ASSUME NEW x \in Frames PROVE x \in Links(o2, c) <=> x \in ToSet(dq[v])
    <3>1. x \in Links(o2, c) => x \in ToSet(dq[v])
      <4> SUFFICES ASSUME x \in Links(o2, c) PROVE x \in ToSet(dq[v])
        OBVIOUS
      <4>1. x \in Links(o, t) /\ f < x
        BY <1>13
      <4>2. x # f
        BY <1>9, <4>1
      <4> QED BY <1>1, <2>2, <4>1, <4>2
    <3>2. x \in ToSet(dq[v]) => x \in Links(o2, c)
      BY <1>13, <2>2, <2>5
    <3> QED BY <3>1, <3>2
  <2>7. /\ busy'[v] = c /\ dq'[v] = dq[v] /\ c # Null /\ Frames' = Frames
        /\ Links(o2, c)' = Links(o2, c)
    BY <1>0, <1>1, <1>3, <1>14
  <2>8. Deque(o2, v)'
    <3>1. \A x \in Frames : x \in Links(o2, busy[v])' <=> (x \in ToSet(dq'[v]) \/ Taken(v, x)')
      BY <1>6, <2>6, <2>7
    <3>2. \A i, j \in DOMAIN dq'[v] : i < j => dq'[v][i] < dq'[v][j]
      BY <2>4, <2>7
    <3>3. \A x \in Frames : Taken(v, x)' => \A y \in ToSet(dq'[v]) : x < y
      BY <1>6
    <3> QED BY <2>7, <3>1, <3>2, <3>3 DEF Deque
  <2>9. Deque(o2, w)'
    <3>1. dq'[w] = <<>> /\ busy'[w] = Null
      BY <1>1, <1>3
    <3>2. ToSet(dq'[w]) = {} /\ DOMAIN dq'[w] = {}
      BY <3>1 DEF ToSet
    <3> QED BY <3>1, <3>2 DEF Deque
  <2> QED BY <2>8, <2>9
<1>32. Point(v)' /\ Point(w)'
  <2>1. Point(w)'
    BY <1>3 DEF Point, BeforeSync, AfterSync, Reducing, Resuming, Helping
  <2>2. Still(v) /\ prog' = prog /\ stolen \subseteq stolen'
    BY <1>1, <1>3 DEF Others
  <2>3. \A x \in Frames : o[x] \in Closures /\ Holds(v, o[x]) =>
          at'[x] = at[x] /\ unw'[x] = unw[x] /\ (x \in unsynced' <=> x \in unsynced)
    BY <1>3
  <2>4. Helping(v) => cl'[busy'[v]].frame \in {Null, cl[busy[v]].frame}
    BY <1>3
  <2>5. ~Resuming(v)
    BY <1>1 DEF Resuming, Carrying
  <2> QED BY <1>0, <1>1, <2>1, <2>2, <2>3, <2>4, <2>5, PointOfOther
<1>33. \A x \in Workers : x \in W => Top(o2, x)' /\ Deque(o2, x)' /\ Point(x)'
  BY <1>t, <1>30, <1>31, <1>32
<1>34. Positions(o2)'
  <2>1. ASSUME NEW x \in Frames, o2[x] # Null, x \in Links(o2, o2[x])'
        PROVE  o[x] # Null /\ x \in Links(o, o[x])
    <3>1. PICK d \in Closures : o2[x] = d
      BY <2>1
    <3>2. x \in Links(o2, d)
      BY <1>14, <2>1, <3>1
    <3>3. d # p /\ d # t
      BY <1>13, <3>2
    <3>4. CASE d = c
      <4>1. o[x] = t /\ x \in Links(o, t)
        BY <1>13, <3>1, <3>2, <3>4
      <4> QED BY <1>1, <4>1
    <3>5. CASE d # c
      <4>1. Same(o, o2, d)
        BY <1>13, <3>3, <3>5
      <4>2. Links(o2, d)' = Links(o, d) /\ o[x] = d
        BY <1>0, <1>3, <3>1, <4>1, StackSame DEF Same
      <4> QED BY <1>0, <1>14, <3>2, <4>2
    <3> QED BY <3>4, <3>5
  <2>2. \A x \in Frames : o[x] = Null => o2[x] = Null
    BY <1>13
  <2>3. \A x \in Frames : x \in stolen' => x \in stolen \/ o[x] # Null
    BY <1>1, <1>3
  <2>4. unsynced' \subseteq unsynced /\ UNCHANGED <<prog, at>> /\ Others(w)
    BY <1>3
  <2>5. wk'[w].pc \in {"unbusy", "finish"} => SyncAhead(wk'[w].frm)
    BY <1>1, <1>3
  <2> QED BY <1>0, <2>1, <2>2, <2>3, <2>4, <2>5, PositionsMoved
<1>35. \A x \in Frames : o[x] \in Closures /\ o[x] \notin T =>
         /\ at'[x] = at[x] /\ unw'[x] = unw[x] /\ (x \in unsynced' <=> x \in unsynced)
         /\ (x \in stolen' <=> x \in stolen)
  <2>1. \A x \in Frames : o[x] \notin T => x # f
    BY <1>t, <1>1
  <2> QED BY <1>3, <2>1
<1>36. /\ prog' = prog /\ stolen \subseteq stolen' /\ Others(w)
       /\ (wk[w].pc = "set_return2" => wk[w].cl \in T)
       /\ wk[w].pc \notin {"unbusy", "finish"} /\ w \in W
  BY <1>t, <1>2, <1>3
<1>37. Duties' /\ Holding' /\ Chained(o2)
  BY <1>6, <1>13
<1>38. Good(o2, rk2, n2)'
  BY <1>11, <1>15, <1>16, <1>17, <1>18, <1>22, <1>29, <1>33, <1>34, <1>35,
     <1>36, <1>37, TouchStep
<1> QED BY <1>38

(* The right-most child of a closure in use is in use, and another         *)
(* closure.                                                                *)
LEMMA NotOwnChild ==
    ASSUME NEW o, NEW rk, NEW n, Good(o, rk, n), NEW t \in Alive
    PROVE  cl[t].rightMost # t /\ (cl[t].rightMost # Null => cl[t].rightMost \in Alive)
<1>0. /\ Types /\ Bases(o) /\ Parents /\ Siblings(rk) /\ Null \notin Closures
      /\ t \in Closures /\ t # Null
  BY Nulls DEF Good, Control, Tree, Alive
<1>1. cl[t].rightMost # Null => cl[t].rightMost \in SpawnedBy(t)
  BY <1>0 DEF Siblings, RightMost
<1>2. ASSUME cl[t].rightMost = t PROVE FALSE
  <2>1. t \in SpawnedBy(t) /\ cl[t].spawnParent = t
    BY <1>0, <1>1, <1>2 DEF SpawnedBy
  <2>2. PICK f \in Frames : cl[t].frame = f
    BY <1>0, <2>1 DEF Bases, Spawning, Types, ClosureTypes, ClosureOK
  <2>3. cl[t].frame # Null
    BY <1>0, <2>1 DEF Bases, Spawning
  <2>4. Based(o, t, f)
    BY <1>0, <2>2, <2>3 DEF Bases, Base
  <2>5. f # Root
    BY <1>0, <2>1, <2>4 DEF Based
  <2>6. prog.kind[f] = "expr"
    BY <1>0, <2>1, <2>4, <2>5 DEF Based, CalledFrom, Parents
  <2>7. cl[cl[t].spawnParent].frame = prog.parent[f]
    BY <2>4, <2>6 DEF Based, SpawnedFrom
  <2>8. prog.parent[f] = f
    BY <2>1, <2>2, <2>7
  <2>9. f \in Nat /\ prog.parent[f] < f
    BY <1>0, <2>5, ProgramFrames DEF Types, FrameTypes
  <2> QED BY <2>8, <2>9
<1> QED BY <1>1, <1>2 DEF SpawnedBy

(* Promoting the frame of the victim's closure keeps the invariant.        *)
LEMMA PromoteOwnGood ==
    ASSUME NEW o, NEW rk, NEW n, Good(o, rk, n), NEW w \in Workers, PromoteOwn(w)
    PROVE  \E o2, rk2, n2 : Good(o2, rk2, n2)'
<1>0. Types /\ Tree(rk, n) /\ Ghosts(o, rk) /\ n \in Nat /\ Null \notin Closures
  BY Nulls DEF Good, Control, Tree, Ranked
<1>1. PICK v, t, f : Promotes(w, v, t, f)
  <2>1. wk[w].pc = "promote"
    BY DEF PromoteOwn
  <2>2. Promotes(w, wk[w].vic, wk[w].cl, wk[w].frm)
    BY <2>1 DEF Promotes
  <2> QED BY <2>2
<1>2. /\ v \in Workers /\ t \in Closures /\ f \in Frames /\ t # Null /\ t \in Alive
      /\ cl[t].status = "running"
  BY <1>1, PromoteFacts
<1>3. wk[w].vic = v /\ wk[w].cl = t /\ wk[w].frm = f
  BY <1>1 DEF Promotes
<1>4. /\ cl[t].rightMost # t
      /\ (cl[t].rightMost # Null => cl[cl[t].rightMost].status # "invalid")
  BY <1>2, NotOwnChild DEF Alive
<1>5. /\ Types' /\ OwnsFrame(t, wk[w].frm)
      /\ \E c \in Closures :
                /\ NewChild(w, t, c, cl[t].rightMost) /\ cl[t].rightMost # c
                /\ Node(t, "running", wk[w].frm, cl[t].join + 1, cl[t].callParent,
                        cl[t].spawnParent, cl[t].leftSib, cl[t].rightSib, c)
                /\ \A x \in Closures : x # c /\ x # t =>
                     Node(x, cl[x].status, cl[x].frame, cl[x].join, cl[x].callParent, cl[x].spawnParent,
                          cl[x].leftSib, IF x = cl[t].rightMost THEN c ELSE cl[x].rightSib, cl[x].rightMost)
  BY <1>0, <1>2, <1>3, <1>4, PromoteOwnStep
<1>6. PICK c \in Closures :
                /\ NewChild(w, t, c, cl[t].rightMost) /\ cl[t].rightMost # c
                /\ Node(t, "running", f, cl[t].join + 1, cl[t].callParent,
                        cl[t].spawnParent, cl[t].leftSib, cl[t].rightSib, c)
                /\ \A x \in Closures : x # c /\ x # t =>
                     Node(x, cl[x].status, cl[x].frame, cl[x].join, cl[x].callParent, cl[x].spawnParent,
                          cl[x].leftSib, IF x = cl[t].rightMost THEN c ELSE cl[x].rightSib, cl[x].rightMost)
  BY <1>3, <1>5
<1>7. Sprouts(t, c, f)
  <2>1. /\ cl[c].status = "invalid"
        /\ Node(c, "running", Null, 0, Null, t, cl[t].rightMost, Null, Null)
    BY <1>6 DEF NewChild
  <2>2. c # t
    BY <1>2, <2>1
  <2> QED BY <1>2, <1>4, <1>6, <2>1, <2>2 DEF Sprouts
<1>8. PICK rk2 : rk2 = [rk EXCEPT ![c] = n]
  OBVIOUS
<1>9. rk2 \in [Closures -> Nat] /\ Ranks(rk, rk2, c, n)
  BY <1>0, <1>6, <1>8 DEF Ghosts, Ranks
<1>10. Tree(rk2, n + 1)'
  BY <1>0, <1>7, <1>9, SproutsTree
<1>11. /\ SpawnedBy(c)' = {}
       /\ (\A q \in Closures : q # t => SpawnedBy(q)' = SpawnedBy(q))
       /\ (\A q \in Closures : CalledBy(q)' = CalledBy(q))
  BY <1>0, <1>7, Sprouted
<1>12. Grown(w, v, t, f, t, c)
  <2>1. /\ Others(w) /\ wk'[w].pc = "unbusy" /\ wk'[w].cl = t /\ wk'[w].vic = v
        /\ wk'[w].frm = f
    BY <1>3, <1>6 DEF NewChild, Moves
  <2>2. /\ busy'[v] = c /\ (\A x \in Workers : x # v => busy'[x] = busy[x])
        /\ stolen' = stolen \cup {f}
        /\ UNCHANGED <<prog, at, home, unsynced, unw, busyLock, dq>>
    <3>1. busy \in [Workers -> Closures \cup {Null}]
      BY <1>0 DEF Types, LockTypes
    <3> QED BY <1>2, <1>3, <1>6, <3>1 DEF NewChild
  <2>3. /\ cl'[c].status = "running" /\ cl'[c].frame = Null
        /\ cl'[c].callParent = Null /\ cl'[c].spawnParent = t
        /\ cl'[t].status = "running" /\ cl'[t].frame = f
        /\ cl'[t].callParent = cl[t].callParent
        /\ cl'[t].spawnParent = cl[t].spawnParent
        /\ t \in Closures /\ c # t /\ cl[c].status = "invalid"
    BY <1>7 DEF Sprouts, Node
  <2>4. \A x \in Closures : x # t /\ x # c =>
         /\ cl'[x].status = cl[x].status /\ cl'[x].frame = cl[x].frame
         /\ cl'[x].callParent = cl[x].callParent /\ cl'[x].spawnParent = cl[x].spawnParent
    BY <1>7 DEF Sprouts, Node
  <2>5. OwnsFrame(t, f)
    BY <1>3, <1>5
  <2> QED BY <1>6, <1>11, <2>1, <2>2, <2>3, <2>4, <2>5 DEF Grown
<1>13. \E o2 : Good(o2, rk2, n + 1)'
  BY <1>1, <1>5, <1>9, <1>10, <1>12, GrownGood
<1> QED BY <1>13

(* Promoting a frame that is called by the victim's closure keeps the      *)
(* invariant.                                                              *)
LEMMA PromoteCalleeGood ==
    ASSUME NEW o, NEW rk, NEW n, Good(o, rk, n), NEW w \in Workers, PromoteCallee(w)
    PROVE  \E o2, rk2, n2 : Good(o2, rk2, n2)'
<1>0. /\ Types /\ Tree(rk, n) /\ Ghosts(o, rk) /\ n \in Nat /\ Null \notin Closures
      /\ Parents
  BY Nulls DEF Good, Control, Tree, Ranked
<1>1. PICK v, t, f : Promotes(w, v, t, f)
  <2>1. wk[w].pc = "promote"
    BY DEF PromoteCallee
  <2>2. Promotes(w, wk[w].vic, wk[w].cl, wk[w].frm)
    BY <2>1 DEF Promotes
  <2> QED BY <2>2
<1>2. /\ v \in Workers /\ t \in Closures /\ f \in Frames /\ t # Null /\ t \in Alive
      /\ cl[t].status = "running"
  BY <1>1, PromoteFacts
<1>3. wk[w].vic = v /\ wk[w].cl = t /\ wk[w].frm = f
  BY <1>1 DEF Promotes
<1>5. /\ Types' /\ ~OwnsFrame(t, wk[w].frm)
      /\ \E p, c \in Closures :
                /\ p # t /\ c # t /\ cl[p].status = "invalid"
                /\ NewChild(w, p, c, Null)
                /\ Node(p, "running", wk[w].frm, 1, t, Null, Null, Null, c)
                /\ Node(t, "suspended", cl[t].frame, cl[t].join + 1, cl[t].callParent,
                        cl[t].spawnParent, cl[t].leftSib, cl[t].rightSib, cl[t].rightMost)
                /\ \A x \in Closures : x # c /\ x # t /\ x # p => Kept(x)
  BY <1>0, <1>2, <1>3, PromoteCalleeStep
<1>6. PICK p \in Closures, c \in Closures :
                /\ p # t /\ c # t /\ cl[p].status = "invalid"
                /\ NewChild(w, p, c, Null)
                /\ Node(p, "running", f, 1, t, Null, Null, Null, c)
                /\ Node(t, "suspended", cl[t].frame, cl[t].join + 1, cl[t].callParent,
                        cl[t].spawnParent, cl[t].leftSib, cl[t].rightSib, cl[t].rightMost)
                /\ \A x \in Closures : x # c /\ x # t /\ x # p => Kept(x)
  BY <1>3, <1>5
<1>7. CallsNew(t, p, c, f)
  <2>1. /\ cl[c].status = "invalid"
        /\ Node(c, "running", Null, 0, Null, p, Null, Null, Null)
    BY <1>6 DEF NewChild
  <2>2. c # p
    <3>1. cl'[c].spawnParent = p /\ cl'[p].spawnParent = Null /\ p # Null
      BY <1>0, <1>6, <2>1 DEF Node
    <3> QED BY <3>1
  <2> QED BY <1>2, <1>6, <2>1, <2>2 DEF CallsNew
<1>8. PICK rk1 : rk1 = [rk EXCEPT ![p] = n]
  OBVIOUS
<1>9. PICK rk2 : rk2 = [rk1 EXCEPT ![c] = n + 1]
  OBVIOUS
<1>10. rk1 \in [Closures -> Nat] /\ Ranks(rk, rk1, p, n)
  BY <1>0, <1>6, <1>8 DEF Ghosts, Ranks
<1>11. rk2 \in [Closures -> Nat] /\ Ranks(rk1, rk2, c, n + 1)
  <2>1. n + 1 \in Nat
    BY <1>0
  <2> QED BY <1>6, <1>9, <1>10, <2>1 DEF Ranks
<1>12. Tree(rk2, n + 1 + 1)'
  BY <1>0, <1>7, <1>10, <1>11, CallsNewTree
<1>13. /\ SpawnedBy(c)' = {} /\ CalledBy(t)' = {p}
       /\ (\A q \in Closures : q # p => SpawnedBy(q)' = SpawnedBy(q))
       /\ (\A q \in Closures : q # t => CalledBy(q)' = CalledBy(q))
  BY <1>0, <1>7, CalledNew
<1>14. Grown(w, v, t, f, p, c)
  <2>1. /\ Others(w) /\ wk'[w].pc = "unbusy" /\ wk'[w].cl = p /\ wk'[w].vic = v
        /\ wk'[w].frm = f
    BY <1>3, <1>6 DEF NewChild, Moves
  <2>2. /\ busy'[v] = c /\ (\A x \in Workers : x # v => busy'[x] = busy[x])
        /\ stolen' = stolen \cup {f}
        /\ UNCHANGED <<prog, at, home, unsynced, unw, busyLock, dq>>
    <3>1. busy \in [Workers -> Closures \cup {Null}]
      BY <1>0 DEF Types, LockTypes
    <3> QED BY <1>2, <1>3, <1>6, <3>1 DEF NewChild
  <2>3. /\ cl'[c].status = "running" /\ cl'[c].frame = Null
        /\ cl'[c].callParent = Null /\ cl'[c].spawnParent = p
        /\ cl'[p].status = "running" /\ cl'[p].frame = f /\ cl'[p].callParent = t
        /\ cl'[p].spawnParent = Null
        /\ cl'[t].callParent = cl[t].callParent
        /\ cl'[t].spawnParent = cl[t].spawnParent
        /\ cl'[t].status = "suspended" /\ cl'[t].frame = cl[t].frame
        /\ t \in Closures /\ c # t /\ c # p /\ p # t /\ cl[c].status = "invalid"
        /\ cl[p].status = "invalid"
    BY <1>7 DEF CallsNew, Node
  <2>4. \A x \in Closures : x # t /\ x # p /\ x # c =>
         /\ cl'[x].status = cl[x].status /\ cl'[x].frame = cl[x].frame
         /\ cl'[x].callParent = cl[x].callParent /\ cl'[x].spawnParent = cl[x].spawnParent
    BY <1>7 DEF CallsNew, Node, Kept
  <2>5. ~OwnsFrame(t, f)
    BY <1>3, <1>5
  <2> QED BY <1>6, <1>13, <2>1, <2>2, <2>3, <2>4, <2>5 DEF Grown
<1>15. \E o2 : Good(o2, rk2, n + 1 + 1)'
  BY <1>1, <1>5, <1>11, <1>12, <1>14, GrownGood
<1> QED BY <1>15

(***************************************************************************)
(* The theorems.                                                           *)
(***************************************************************************)

(* At the start, the control state is in order.                            *)
LEMMA InitControl ==
    ASSUME Init
    PROVE  Control /\ 1 \in Closures /\ Boss \in Workers
<1>0. /\ NWorkers \in Nat \ {0} /\ MaxClosures \in Nat \ {0}
      /\ MaxFibers \in Nat \ {0} /\ prog \in Programs
      /\ 1 \in Closures /\ 1 \in Fibers /\ Boss \in Workers /\ Boss = 1
      /\ Null \notin Closures /\ Null \notin Workers /\ Null \notin Fibers
  BY ProgramsAssumption DEF Init, Closures, Fibers, Workers, Boss, Null
<1>1. Root \in Frames /\ Null \notin Frames
  BY <1>0, ProgramFrames
<1>2. FrameTypes
  <2>1. /\ at = [f \in Frames |-> 1] /\ home = [f \in Frames |-> IF f = Root THEN 1 ELSE Null]
        /\ unw = [f \in Frames |-> NotUnwinding] /\ caught = [f \in Frames |-> <<>>]
        /\ stolen = {Root} /\ unsynced = {} /\ pending = {}
    BY DEF Init
  <2>2. at \in [Frames -> Nat] /\ home \in [Frames -> Fib]
    BY <1>0, <2>1 DEF Fib
  <2>3. DOMAIN caught = Frames /\ DOMAIN unw = Frames
    BY <2>1
  <2>4. \A f \in Frames : DOMAIN unw[f] = {"exn", "sp"} /\ unw[f].sp \in Fib
    BY <2>1 DEF NotUnwinding, Fib
  <2> QED BY <1>0, <1>1, <2>1, <2>2, <2>3, <2>4 DEF FrameTypes
<1>3. /\ DOMAIN cl = Closures
      /\ cl[1] = [FreeClosure EXCEPT !.status = "running", !.frame = Root, !.fiber = 1]
      /\ \A c \in Closures : c # 1 => cl[c] = FreeClosure
  BY <1>0 DEF Init
<1>4. ClosureTypes
  <2>1. ClosureOK(FreeClosure)
    BY FreeClosureTyped
  <2>2. ClosureOK(cl[1])
    BY <1>0, <1>1, <1>3, <2>1 DEF ClosureOK, FreeClosure, ClosureFields, Fib
  <2> QED BY <1>3, <2>1, <2>2 DEF ClosureTypes
<1>5. /\ DOMAIN wk = Workers
      /\ wk[Boss] = [IdleWorker EXCEPT !.pc = "install", !.cl = 1]
      /\ \A w \in Workers : w # Boss => wk[w] = IdleWorker
  BY <1>0 DEF Init
<1>6. WorkerTypes
  <2>1. TableOK(NoHt)
    BY DEF TableOK, NoHt, NoView, Fib
  <2>2. WorkerOK(IdleWorker)
    BY <2>1 DEF WorkerOK, IdleWorker, WorkerFields, WorkerPc, Fib
  <2>3. WorkerOK(wk[Boss])
    BY <1>0, <1>5, <2>1 DEF WorkerOK, IdleWorker, WorkerFields, WorkerPc, Fib
  <2> QED BY <1>5, <2>2, <2>3 DEF WorkerTypes
<1>7. LockTypes
  BY DEF Init, LockTypes
<1>8. PoolTypes
  BY DEF Init, PoolTypes
<1>9. \A w \in Workers : busy[w] = Null /\ busyLock[w] = Null /\ dq[w] = <<>>
  BY DEF Init
<1>10. wk[Boss].pc = "install" /\ \A w \in Workers : w # Boss => wk[w].pc = "steal"
  BY <1>5 DEF IdleWorker
<1>11. wk[Boss].cl = 1 /\ wk[Boss].why = "stolen"
  BY <1>5 DEF IdleWorker
<1>12. Duties
  <2> SUFFICES ASSUME NEW w \in Workers PROVE Duty(w)
    BY DEF Duties
  <2>1. wk[w].pc \in {"install", "steal"} /\ (wk[w].pc = "install" => w = Boss)
    BY <1>10
  <2> QED BY <1>0, <1>9, <1>11, <2>1 DEF Duty, Idling, Locked, Carrying
<1>13. Holding
  <2>1. \A w \in Workers : \A t \in Closures : busy[w] # t /\ (Carries(w, t) => w = Boss /\ t = 1)
    BY <1>0, <1>9, <1>10, <1>11 DEF Carries, Carrying
  <2>2. cl[1].status = "running"
    BY <1>3 DEF FreeClosure
  <2>3. Unique
    BY <2>1 DEF Unique, Holds
  <2>4. \A w \in Workers : Held(w)
    BY <1>10, <2>1, <2>2 DEF Held
  <2> QED BY <2>3, <2>4 DEF Holding
<1> QED BY <1>0, <1>2, <1>4, <1>6, <1>7, <1>8, <1>12, <1>13 DEF Control, Types

(* The invariant holds at the start: the root frame is on the stack of the *)
(* root closure.                                                           *)
LEMMA InitGood ==
    ASSUME Init
    PROVE  \E o, rk, n : Good(o, rk, n)
<1>0. /\ Control /\ 1 \in Closures /\ Boss \in Workers /\ Null \notin Closures
      /\ Null \notin Workers /\ Null = 0
      /\ prog \in Programs
  <2>1. Control /\ 1 \in Closures /\ Boss \in Workers
    BY InitControl
  <2>2. Types
    BY <2>1 DEF Control
  <2> QED BY <2>1, <2>2, Nulls DEF Init, Null
<1>1. /\ Root \in Frames /\ Null \notin Frames /\ prog.kind[Root] = "root" /\ Root = 1
      /\ \A f \in Frames : Len(Code(f)) \in Nat
  BY <1>0, ProgramFrames DEF Root
<1>2. PICK o : o = [f \in Frames |-> IF f = Root THEN 1 ELSE Null]
  OBVIOUS
<1>3. PICK rk : rk = [c \in Closures |-> 0]
  OBVIOUS
<1>4. Ghosts(o, rk)
  BY <1>0, <1>2, <1>3 DEF Ghosts
<1>5. /\ cl[1].status = "running" /\ cl[1].frame = Root /\ cl[1].join = 0
      /\ cl[1].callParent = Null
      /\ cl[1].spawnParent = Null /\ cl[1].rightMost = Null
      /\ \A c \in Closures : c # 1 => cl[c].status = "invalid" /\ cl[c].frame = Null
  BY <1>0 DEF Init, FreeClosure
<1>6. Alive = {1}
  BY <1>0, <1>5 DEF Alive
<1>7. \A c \in Closures : SpawnedBy(c) = {} /\ CalledBy(c) = {}
  BY <1>0, <1>5, <1>6 DEF SpawnedBy, CalledBy
<1>8. Tree(rk, 1)
  <2>1. Parents
    BY <1>5, <1>6 DEF Parents
  <2>2. Siblings(rk)
    BY <1>0, <1>5, <1>6, <1>7 DEF Siblings, RightMost
  <2>3. Ranked(rk, 1)
    BY <1>3, <1>6 DEF Ranked
  <2>4. Joins
    <3>1. Cardinality({}) = 0
      BY FS_EmptySet
    <3> QED BY <1>0, <1>5, <1>6, <1>7, <3>1 DEF Joins
  <2> QED BY <2>1, <2>2, <2>3, <2>4 DEF Tree
<1>9. \A f \in Frames : /\ (f = Root => o[f] = 1) /\ (f # Root => o[f] = Null) /\ (o[f] # Null => f = Root)
                        /\ (o[f] = 1 => f = Root)
  BY <1>0, <1>2
<1>10. /\ home = [f \in Frames |-> IF f = Root THEN 1 ELSE Null] /\ stolen = {Root} /\ unsynced = {}
       /\ at = [f \in Frames |-> 1]
       /\ \A w \in Workers : busy[w] = Null /\ dq[w] = <<>>
  BY DEF Init
<1>11. /\ wk[Boss].pc = "install" /\ wk[Boss].cl = 1 /\ wk[Boss].why = "stolen"
       /\ \A w \in Workers : w # Boss => wk[w].pc = "steal"
  BY <1>0 DEF Init, IdleWorker
<1>12. Stacks(o)
  <2>1. Owned(o)
    BY <1>1, <1>6, <1>9, <1>10 DEF Owned
  <2>2. Chained(o)
    BY <1>1, <1>9 DEF Chained
  <2>3. Bottoms(o)
    BY <1>5, <1>9 DEF Bottoms, Bottom
  <2> QED BY <2>1, <2>2, <2>3 DEF Stacks
<1>13. Bases(o)
  <2>1. Based(o, 1, Root)
    BY <1>1, <1>5, <1>9, <1>10 DEF Based, Inner
  <2>2. Base(o, 1)
    BY <1>1, <1>5, <2>1 DEF Base
  <2>3. Stolen(o, Root)
    BY <1>1, <1>5, <1>9 DEF Stolen
  <2> QED BY <1>0, <1>6, <1>7, <1>10, <2>2, <2>3 DEF Bases
<1>14. Tops(o)
  <2>1. Only(o, 1, Root)
    BY <1>1, <1>9 DEF Only
  <2>2. \A w \in Workers : Top(o, w)
    <3> SUFFICES ASSUME NEW w \in Workers PROVE Top(o, w)
      OBVIOUS
    <3>1. CASE w = Boss
      BY <1>5, <1>11, <2>1, <3>1 DEF Top, AtFrame, Executing
    <3>2. CASE w # Boss
      BY <1>11, <3>2 DEF Top, AtFrame, Executing
    <3> QED BY <3>1, <3>2
  <2>3. ~Waiting(1)
    BY <1>5 DEF Waiting
  <2> QED BY <1>6, <2>2, <2>3 DEF Tops
<1>15. Deques(o)
  <2>1. \A t : Links(o, t) = {}
    <3> SUFFICES ASSUME NEW t, NEW f \in Frames, NEW g \in Frames,
                        LinksTo(o, t, f, g)
                 PROVE  FALSE
      BY DEF Links
    <3> QED BY <1>9 DEF LinksTo, Inner
  <2>2. \A w \in Workers : Deque(o, w)
    <3> SUFFICES ASSUME NEW w \in Workers PROVE Deque(o, w)
      OBVIOUS
    <3>1. dq[w] = <<>> /\ busy[w] = Null
      BY <1>10
    <3>2. ToSet(dq[w]) = {} /\ DOMAIN dq[w] = {}
      BY <3>1 DEF ToSet
    <3> QED BY <3>1, <3>2 DEF Deque
  <2> QED BY <2>1, <2>2 DEF Deques
<1>16. Positions(o)
  <2>1. ASSUME NEW f \in Frames PROVE at[f] \in 1 .. Len(Code(f)) + 1 /\ Ahead(o, f)
    <3>1. at[f] = 1 /\ Len(Code(f)) \in Nat
      BY <1>1, <1>10
    <3>2. ASSUME NEW i \in 1 .. Len(Code(f)), Entered(f, i)
          PROVE  Code(f)[i].arg \in Frames /\ Code(f)[i].arg # Root
      BY <1>0, <3>2, ProgramEntries DEF Entered
    <3>3. Ahead(o, f)
      BY <1>9, <1>10, <3>1, <3>2 DEF Ahead
    <3> QED BY <3>1, <3>3
  <2>2. ASSUME NEW f \in Frames, o[f] # Null PROVE f \notin Links(o, o[f])
    BY <1>9 DEF Links, LinksTo, Inner
  <2>3. \A w \in Workers : wk[w].pc \notin {"unbusy", "finish"}
    BY <1>11
  <2> QED BY <1>10, <2>1, <2>2, <2>3 DEF Positions
<1>17. Points
  <2>1. \A w \in Workers : Point(w)
    <3> SUFFICES ASSUME NEW w \in Workers PROVE Point(w)
      OBVIOUS
    <3>1. wk[w].pc = "steal" \/ (wk[w].pc = "install" /\ wk[w].why = "stolen")
      BY <1>11
    <3> QED BY <3>1 DEF Point, BeforeSync, AfterSync, Reducing, Resuming, Helping
  <2>2. ~Waiting(1)
    BY <1>5 DEF Waiting
  <2> QED BY <1>6, <2>1, <2>2 DEF Points
<1>18. Good(o, rk, 1)
  BY <1>0, <1>4, <1>8, <1>12, <1>13, <1>14, <1>15, <1>16, <1>17 DEF Good
<1> QED BY <1>18

(* The invariant depends on the variables only.                            *)
LEMMA StutterGood ==
    ASSUME NEW o, NEW rk, NEW n, Good(o, rk, n), UNCHANGED vars
    PROVE  Good(o, rk, n)'
<1>0. /\ Control /\ Ghosts(o, rk) /\ Tree(rk, n)
      /\ Stacks(o) /\ Bases(o) /\ Tops(o) /\ Deques(o) /\ Positions(o) /\ Points
  BY DEF Good
<1>1. UNCHANGED <<prog, at, home, stolen, unsynced, unw, pending, caught, cl, busy, busyLock, dq, wk, freeFibers, done>>
  BY DEF vars, fvars, evars
<1>2. Control'
  <2>1. Types'
    <3>1. Types
      BY <1>0 DEF Control
    <3>2. FrameTypes' /\ LockTypes' /\ PoolTypes'
      BY <1>1, <3>1 DEF Types, FrameTypes, LockTypes, PoolTypes, Frames
    <3>3. ClosureTypes'
      BY <1>1, <3>1 DEF Types, ClosureTypes, ClosureOK, TableOK, Frames
    <3>4. WorkerTypes'
      BY <1>1, <3>1 DEF Types, WorkerTypes, WorkerOK, TableOK, Frames
    <3> QED BY <3>2, <3>3, <3>4 DEF Types
  <2>2. Duties'
    BY <1>0, <1>1 DEF Control, Duties, Duty
  <2>3. Holding'
    BY <1>0, <1>1 DEF Control, Holding, Unique, Held, Holds, Carries
  <2> QED BY <2>1, <2>2, <2>3 DEF Control
<1>3. Ghosts(o, rk)'
  BY <1>0, <1>1 DEF Ghosts, Frames
<1>4. Tree(rk, n)'
  BY <1>0, <1>1
     DEF Tree, Parents, Siblings, RightMost, Sibling, Ranked, Joins, SpawnedBy,
         CalledBy, Alive
<1>5. Stacks(o)'
  BY <1>0, <1>1
     DEF Stacks, Owned, Chained, Bottoms, Bottom, Inner, Swapped, SpawnedFrom,
         Alive, Frames
<1>6. Bases(o)'
  BY <1>0, <1>1
     DEF Bases, Base, Based, Stolen, Spawning, Promoting, Inner, Swapped,
         SpawnedFrom, CalledFrom,
     TopOf, Bare, Helping, HasHandler, SpawnedBy, Alive, Frames
<1>7. Tops(o)'
  BY <1>0, <1>1
     DEF Tops, Top, AtFrame, TopOf, Only, Bare, CalledFrom, SpawnedFrom,
         Waiting, CalledBy, Alive, Frames
<1>8. Deques(o)'
  BY <1>0, <1>1 DEF Deques, Deque, Links, LinksTo, Inner, Taken, Frames
<1>9. Positions(o)'
  BY <1>0, <1>1
     DEF Positions, Ahead, Entered, SyncAhead, Links, LinksTo, Inner, Code,
         Frames
<1>10. Points'
  BY <1>0, <1>1
     DEF Points, Point, Helping, HasHandler, Reducing, Resuming, Stopped,
         Waiting, CalledBy, Alive, Code
<1> QED BY <1>2, <1>3, <1>4, <1>5, <1>6, <1>7, <1>8, <1>9, <1>10 DEF Good

(* The inductive invariant of the closure tree: some owners of the frames  *)
(* and some ranks of the closures fit the state.                           *)
IInv == \E o, rk, n : Good(o, rk, n)

(* Every step of a worker keeps the invariant.                             *)
LEMMA GoodStep ==
    ASSUME NEW o, NEW rk, NEW n, Good(o, rk, n), NEW w \in Workers, WorkerNext(w)
    PROVE  IInv'
<1>1. CASE Spawn(w) \/ Call(w)
  BY <1>1, EnterGood DEF IInv
<1>2. CASE Update(w)
  BY <1>2, UpdateGood DEF IInv
<1>3. CASE SyncNothing(w)
  BY <1>3, SyncNothingGood DEF IInv
<1>4. CASE Throw(w)
  BY <1>4, ThrowGood DEF IInv
<1>5. CASE LeaveFrame(w) /\ prog.kind[Cur(w)] # "call"
  BY <1>5, LeaveHelperGood DEF IInv
<1>6. CASE (LeaveFrame(w) /\ prog.kind[Cur(w)] = "call") \/ PopParent(w)
  BY <1>6, PopGood DEF IInv
<1>7. CASE SyncLock(w)
  BY <1>7, SyncLockGood DEF IInv
<1>8. CASE SyncSuspend(w)
  BY <1>8, SyncSuspendGood DEF IInv
<1>9. CASE SyncReady(w)
  BY <1>9, SyncReadyGood DEF IInv
<1>10. CASE SyncTakeChildHt(w)
  BY <1>10, SyncTakeChildHtGood DEF IInv
<1>11. CASE SetReturnLock(w)
  BY <1>11, SetReturnLockGood DEF IInv
<1>12. CASE SetReturnSwap(w)
  BY <1>12, SetReturnSwapGood DEF IInv
<1>13. CASE SetReturnResume(w)
  BY <1>13, SetReturnResumeGood DEF IInv
<1>14. CASE HandlerLock(w)
  BY <1>14, HandlerLockGood DEF IInv
<1>15. CASE HandlerReturn(w)
  BY <1>15, HandlerReturnGood DEF IInv
<1>16. CASE ReturnLockParent(w)
  BY <1>16, ReturnLockParentGood DEF IInv
<1>17. CASE ReturnReduce(w)
  BY <1>17, ReturnReduceGood DEF IInv
<1>18. CASE ReturnFinish(w)
  BY <1>18, ReturnFinishGood DEF IInv
<1>19. CASE Install(w)
  BY <1>19, InstallGood DEF IInv
<1>20. CASE ReduceSynced(w)
  BY <1>20, ReduceSyncedGood DEF IInv
<1>21. CASE ReduceReturning(w)
  BY <1>21, ReduceReturningGood DEF IInv
<1>22. CASE UnwindLock(w)
  BY <1>22, UnwindLockGood DEF IInv
<1>23. CASE UnwindSave(w)
  BY <1>23, UnwindSaveGood DEF IInv
<1>24. CASE UnwindSync(w)
  BY <1>24, UnwindSyncGood DEF IInv
<1>25. CASE Reraise(w)
  BY <1>25, ReraiseGood DEF IInv
<1>26. CASE Personality(w)
  BY <1>26, PersonalityGood DEF IInv
<1>27. CASE CleanupFiber(w)
  BY <1>27, CleanupFiberGood DEF IInv
<1>28. CASE CheckExceptionRaise(w)
  BY <1>28, CheckExceptionRaiseGood DEF IInv
<1>29. ASSUME NEW v \in Workers \ {w}, StealLock(w, v) PROVE IInv'
  BY <1>29, StealLockGood DEF IInv
<1>30. CASE StealWin(w)
  BY <1>30, StealWinGood DEF IInv
<1>31. CASE StealLose(w)
  BY <1>31, StealLoseGood DEF IInv
<1>32. CASE PromoteOwn(w)
  BY <1>32, PromoteOwnGood DEF IInv
<1>33. CASE PromoteCallee(w)
  BY <1>33, PromoteCalleeGood DEF IInv
<1>34. CASE StealUnlockBusy(w)
  BY <1>34, StealUnlockBusyGood DEF IInv
<1>35. CASE StealFinish(w)
  BY <1>35, StealFinishGood DEF IInv
<1>36. CASE RootDone(w)
  BY <1>36, RootDoneGood DEF IInv
<1>37. CASE RootThrows(w)
  BY <1>37, RootThrowsGood DEF IInv
<1>38. CASE RootExit(w)
  BY <1>38, RootExitGood DEF IInv
<1>39. CASE StopStealing(w)
  BY <1>39, StopStealingGood DEF IInv
<1> QED
  BY <1>1, <1>2, <1>3, <1>4, <1>5, <1>6, <1>7, <1>8, <1>9, <1>10, <1>11, <1>12,
     <1>13, <1>14,
           <1>15, <1>16, <1>17, <1>18, <1>19, <1>20, <1>21, <1>22, <1>23, <1>24, <1>25, <1>26, <1>27,
           <1>28, <1>29, <1>30, <1>31, <1>32, <1>33, <1>34, <1>35, <1>36, <1>37, <1>38, <1>39 DEF WorkerNext

(* The invariant of the closure tree holds in every reachable state, for   *)
(* any number of workers, closures and fibers and any programs that the    *)
(* compiler may produce: what promote_child, Cilk_sync,                    *)
(* __cilkrts_set_return and Closure_return do to the tree in separate      *)
(* critical sections, they do consistently.                                *)
THEOREM InvariantHolds == Spec => []IInv
<1>1. Init => IInv
  BY InitGood DEF IInv
<1>2. IInv /\ [Next]_vars => IInv'
  <2> SUFFICES ASSUME IInv, [Next]_vars PROVE IInv'
    OBVIOUS
  <2>1. PICK o, rk, n : Good(o, rk, n)
    BY DEF IInv
  <2>2. ASSUME NEW w \in Workers, WorkerNext(w) PROVE IInv'
    BY <2>1, <2>2, GoodStep
  <2>3. CASE UNCHANGED vars
    BY <2>1, <2>3, StutterGood DEF IInv
  <2> QED BY <2>2, <2>3 DEF Next
<1> QED BY <1>1, <1>2, PTL DEF Spec

(* A closure has no more children than there are closures.                 *)
LEMMA ChildrenBounded ==
    ASSUME Types, Parents, NEW c \in Closures
    PROVE  Cardinality(SpawnedBy(c)) + Cardinality(CalledBy(c)) \in 0 .. MaxClosures
<1>0. MaxClosures \in Nat /\ c # Null
  BY ProgramsAssumption, Nulls
<1>1. IsFiniteSet(Closures) /\ Cardinality(Closures) = MaxClosures
  <2>1. 1 \in Int /\ MaxClosures \in Int
    BY <1>0
  <2>2. IsFiniteSet(1 .. MaxClosures) /\ Cardinality(1 .. MaxClosures) = IF 1 > MaxClosures THEN 0 ELSE MaxClosures - 1 + 1
    BY <2>1, FS_Interval
  <2> QED BY <1>0, <2>2 DEF Closures
<1>2. /\ SpawnedBy(c) \cap CalledBy(c) = {}
      /\ SpawnedBy(c) \cup CalledBy(c) \subseteq Closures
  BY <1>0 DEF SpawnedBy, CalledBy, Parents, Alive
<1>3. PICK S, C : S = SpawnedBy(c) /\ C = CalledBy(c)
  OBVIOUS
<1>4. /\ S \cap C = {} /\ S \cup C \subseteq Closures /\ S \subseteq Closures
      /\ C \subseteq Closures
  BY <1>2, <1>3
<1>5. IsFiniteSet(S) /\ IsFiniteSet(C) /\ Cardinality(S \cup C) <= MaxClosures
  BY <1>1, <1>4, FS_Subset
<1>6. Cardinality(S \cup C) = Cardinality(S) + Cardinality(C) - Cardinality(S \cap C)
  BY <1>5, FS_Union
<1>7. Cardinality(S \cap C) = 0
  BY <1>4, FS_EmptySet
<1>8. Cardinality(S) \in Nat /\ Cardinality(C) \in Nat
  BY <1>5, FS_CardinalityType
<1>9. Cardinality(S) + Cardinality(C) \in 0 .. MaxClosures
  BY <1>0, <1>5, <1>6, <1>7, <1>8
<1> QED BY <1>3, <1>9

(* Every variable keeps its type; in particular join counters are never    *)
(* negative, and no closure, frame or fiber is used that does not exist.   *)
THEOREM TypeCorrect == Spec => []TypeOK
<1>1. IInv => TypeOK
  <2> SUFFICES ASSUME NEW o, NEW rk, NEW n, Good(o, rk, n) PROVE TypeOK
    BY DEF IInv
  <2>0. Types /\ Positions(o) /\ Bases(o) /\ Joins /\ Parents /\ Null \notin Closures
    BY Nulls DEF Good, Control, Tree
  <2>1. /\ prog \in Programs /\ stolen \subseteq Frames /\ unsynced \subseteq stolen
        /\ pending \subseteq stolen
    BY <2>0 DEF Types, FrameTypes, Bases
  <2>2. \A f \in Frames : at[f] \in 1 .. Len(Code(f)) + 1 /\ home[f] \in Fibers \cup {Null}
    BY <2>0 DEF Types, FrameTypes, Positions, Fib
  <2>3. ASSUME NEW c \in Closures
        PROVE  /\ cl[c].status \in {"invalid", "running", "suspended", "returning"}
               /\ {cl[c].fiber, cl[c].fiberChild, cl[c].orig} \subseteq Fibers \cup {Null}
               /\ cl[c].frame \in Frames \cup {Null}
               /\ cl[c].join \in 0 .. MaxClosures
               /\ cl[c].lock \in Workers \cup {Null}
    <3>1. ClosureOK(cl[c])
      BY <2>0 DEF Types, ClosureTypes
    <3>2. c \notin Alive => cl[c].join = 0
      BY <3>1 DEF Alive, ClosureOK, FreeClosure
    <3>3. c \in Alive => cl[c].join \in 0 .. MaxClosures
      BY <2>0, ChildrenBounded DEF Joins
    <3>4. 0 \in 0 .. MaxClosures
      BY ProgramsAssumption
    <3> QED BY <3>1, <3>2, <3>3, <3>4 DEF ClosureOK, Fib
  <2>4. \A w \in Workers :
         /\ wk[w].pc \in WorkerPc
         /\ wk[w].cur \in Frames \cup {Null}
         /\ busy[w] \in Closures \cup {Null} /\ busyLock[w] \in Workers \cup {Null}
    BY <2>0 DEF Types, WorkerTypes, WorkerOK, LockTypes
  <2>5. FreeFibers \subseteq Fibers /\ done \in BOOLEAN
    BY <2>0 DEF Types, PoolTypes, FreeFibers
  <2> QED BY <2>1, <2>2, <2>3, <2>4, <2>5 DEF TypeOK
<1> QED BY <1>1, InvariantHolds, PTL

(* Whatever thieves, returning children and syncing parents do, join       *)
(* counters count the children and callees that are outstanding, and the   *)
(* sibling lists that Closure_return follows hold exactly the children, in *)
(* both directions (TreeConsistent).                                       *)
THEOREM TreeStaysConsistent == Spec => []TreeConsistent
<1>1. IInv => TreeConsistent
  <2> SUFFICES ASSUME NEW o, NEW rk, NEW n, Good(o, rk, n), NEW p \in Alive
               PROVE  /\ cl[p].join = Cardinality(SpawnedBy(p)) + Cardinality(CalledBy(p))
                      /\ cl[p].rightMost = Null <=> SpawnedBy(p) = {}
                      /\ \A c \in SpawnedBy(p) :
                           /\ cl[c].rightSib = Null <=> cl[p].rightMost = c
                           /\ cl[c].leftSib # Null =>
                                cl[c].leftSib \in SpawnedBy(p) /\ cl[cl[c].leftSib].rightSib = c
                           /\ cl[c].rightSib # Null =>
                                cl[c].rightSib \in SpawnedBy(p) /\ cl[cl[c].rightSib].leftSib = c
    BY DEF IInv, TreeConsistent
  <2>0. Siblings(rk) /\ Joins /\ Ranked(rk, n)
    BY DEF Good, Tree
  <2>1. RightMost(rk, p) /\ \A c \in SpawnedBy(p) : Sibling(rk, p, c)
    BY <2>0 DEF Siblings
  <2>2. \A c, d \in SpawnedBy(p) : rk[c] \in Nat /\ (rk[c] = rk[d] => c = d)
    BY <2>0 DEF Ranked, SpawnedBy, Alive
  <2>3. ASSUME NEW c \in SpawnedBy(p)
        PROVE  cl[c].rightSib = Null <=> cl[p].rightMost = c
    <3>1. PICK m \in SpawnedBy(p) : m = cl[p].rightMost /\ \A d \in SpawnedBy(p) : rk[d] <= rk[m]
      BY <2>1 DEF RightMost
    <3>2. ASSUME cl[c].rightSib = Null PROVE m = c
      <4>1. rk[m] <= rk[c]
        BY <2>1, <3>1, <3>2 DEF Sibling
      <4> QED BY <2>2, <3>1, <4>1
    <3>3. ASSUME m = c, cl[c].rightSib # Null PROVE FALSE
      <4>1. PICK r \in SpawnedBy(p) : rk[c] < rk[r]
        BY <2>1, <3>3 DEF Sibling
      <4>2. rk[r] <= rk[c]
        BY <3>1, <3>3
      <4> QED BY <2>2, <4>1, <4>2
    <3> QED BY <3>1, <3>2, <3>3
  <2>4. ASSUME NEW c \in SpawnedBy(p), cl[c].leftSib # Null
        PROVE  cl[c].leftSib \in SpawnedBy(p) /\ cl[cl[c].leftSib].rightSib = c
    <3>1. PICK l \in SpawnedBy(p) : /\ l = cl[c].leftSib /\ rk[l] < rk[c]
                                    /\ \A d \in SpawnedBy(p) : rk[d] < rk[c] => rk[d] <= rk[l]
      BY <2>1, <2>4 DEF Sibling
    <3>2. cl[l].rightSib # Null
      <4> SUFFICES ASSUME cl[l].rightSib = Null PROVE FALSE
        OBVIOUS
      <4>1. rk[c] <= rk[l]
        BY <2>1 DEF Sibling
      <4> QED BY <2>2, <3>1, <4>1
    <3>3. PICK r \in SpawnedBy(p) : /\ r = cl[l].rightSib /\ rk[l] < rk[r]
                                    /\ \A d \in SpawnedBy(p) : rk[l] < rk[d] => rk[r] <= rk[d]
      BY <2>1, <3>2 DEF Sibling
    <3>4. rk[r] <= rk[c]
      BY <3>1, <3>3
    <3>5. ~(rk[r] < rk[c])
      <4> SUFFICES ASSUME rk[r] < rk[c] PROVE FALSE
        OBVIOUS
      <4>1. rk[r] <= rk[l]
        BY <3>1
      <4> QED BY <2>2, <3>3, <4>1
    <3>6. r = c
      BY <2>2, <3>4, <3>5
    <3> QED BY <3>1, <3>3, <3>6
  <2>5. ASSUME NEW c \in SpawnedBy(p), cl[c].rightSib # Null
        PROVE  cl[c].rightSib \in SpawnedBy(p) /\ cl[cl[c].rightSib].leftSib = c
    <3>1. PICK r \in SpawnedBy(p) : /\ r = cl[c].rightSib /\ rk[c] < rk[r]
                                    /\ \A d \in SpawnedBy(p) : rk[c] < rk[d] => rk[r] <= rk[d]
      BY <2>1, <2>5 DEF Sibling
    <3>2. cl[r].leftSib # Null
      <4> SUFFICES ASSUME cl[r].leftSib = Null PROVE FALSE
        OBVIOUS
      <4>1. rk[r] <= rk[c]
        BY <2>1 DEF Sibling
      <4> QED BY <2>2, <3>1, <4>1
    <3>3. PICK l \in SpawnedBy(p) : /\ l = cl[r].leftSib /\ rk[l] < rk[r]
                                    /\ \A d \in SpawnedBy(p) : rk[d] < rk[r] => rk[d] <= rk[l]
      BY <2>1, <3>2 DEF Sibling
    <3>4. rk[c] <= rk[l]
      BY <3>1, <3>3
    <3>5. ~(rk[c] < rk[l])
      <4> SUFFICES ASSUME rk[c] < rk[l] PROVE FALSE
        OBVIOUS
      <4>1. rk[r] <= rk[l]
        BY <3>1
      <4> QED BY <2>2, <3>3, <4>1
    <3>6. l = c
      BY <2>2, <3>4, <3>5
    <3> QED BY <3>1, <3>3, <3>6
  <2>6. cl[p].rightMost = Null <=> SpawnedBy(p) = {}
    BY <2>1 DEF RightMost
  <2> QED BY <2>0, <2>3, <2>4, <2>5, <2>6 DEF Joins
<1> QED BY <1>1, InvariantHolds, PTL

(* The closure on whose stack a worker executes.                           *)
RunsOn(w) == IF wk[w].pc = "set_return2" THEN wk[w].cl ELSE busy[w]

(* The frame a worker executes is the top of the stack of the closure it   *)
(* has in its hands.                                                       *)
LEMMA RunningFacts ==
    ASSUME NEW o, NEW rk, NEW n, Good(o, rk, n), NEW w \in Workers, Running(w)
    PROVE  /\ Cur(w) \in Frames /\ o[Cur(w)] = RunsOn(w) /\ RunsOn(w) \in Closures /\ Holds(w, RunsOn(w))
           /\ TopOf(o, RunsOn(w), Cur(w))
<1>0. Types /\ Duties /\ Tops(o) /\ Owned(o)
  BY DEF Good, Control, Stacks
<1>1. Duty(w) /\ Top(o, w) /\ WorkerOK(wk[w])
  BY <1>0 DEF Duties, Tops, Types, WorkerTypes
<1>2. CASE wk[w].pc = "set_return2"
  <2>1. /\ Only(o, wk[w].cl, wk[w].cur) /\ wk[w].cl # Null /\ Carries(w, wk[w].cl)
        /\ wk[w].cl \in Closures
    BY <1>1, <1>2 DEF Top, Duty, Carrying, Carries, WorkerOK
  <2>2. wk[w].cur \in Frames /\ o[wk[w].cur] = wk[w].cl /\ \A g \in Frames : o[g] = wk[w].cl => g = wk[w].cur
    BY <2>1 DEF Only
  <2>3. wk[w].cur \in Nat
    BY <1>0, <2>2, ProgramFrames DEF Types, FrameTypes
  <2>4. TopOf(o, wk[w].cl, wk[w].cur)
    BY <2>2, <2>3 DEF TopOf
  <2> QED BY <1>2, <2>1, <2>2, <2>4 DEF RunsOn, Cur, Holds
<1>3. CASE wk[w].pc # "set_return2"
  <2>1. AtFrame(w)
    BY <1>3 DEF Running, OnStack, AtFrame, Executing
  <2>2. TopOf(o, busy[w], wk[w].cur)
    BY <1>1, <2>1 DEF Top
  <2>3. wk[w].cur \in Frames /\ o[wk[w].cur] = busy[w]
    BY <2>2 DEF TopOf
  <2>4. busy[w] # Null /\ busy[w] \in Closures
    <3>1. wk[w].pc \notin Idling
      BY <1>3 DEF Running, OnStack, Idling
    <3> QED BY <1>0, <1>1, <3>1 DEF Duty, Types, LockTypes
  <2> QED BY <1>3, <2>2, <2>3, <2>4 DEF RunsOn, Cur, Holds
<1> QED BY <1>2, <1>3

(* A frame in the deque of a worker is on the stack of its closure, below  *)
(* another.                                                                *)
LEMMA QueuedFacts ==
    ASSUME NEW o, NEW rk, NEW n, Good(o, rk, n), NEW w \in Workers,
           NEW f \in ToSet(dq[w])
    PROVE  /\ f \in Frames /\ o[f] = busy[w] /\ busy[w] \in Closures /\ f \in Links(o, busy[w]) /\ Holds(w, busy[w])
           /\ \E g \in Frames : o[g] = busy[w] /\ f < g
<1>0. Types /\ Duties /\ Deques(o)
  BY DEF Good, Control
<1>1. dq[w] \in Seq(Frames) /\ busy[w] \in Closures \cup {Null}
  BY <1>0 DEF Types, LockTypes
<1>2. PICK i \in DOMAIN dq[w] : f = dq[w][i]
  BY DEF ToSet
<1>3. f \in Frames
  BY <1>1, <1>2
<1>4. dq[w] # <<>>
  BY <1>2
<1>5. busy[w] # Null
  BY <1>0, <1>4 DEF Duties, Duty
<1>6. f \in Links(o, busy[w])
  BY <1>0, <1>3, <1>5 DEF Deques, Deque
<1>7. PICK g \in Frames : o[g] = busy[w] /\ Inner(o, g) /\ prog.parent[g] = f
  BY <1>6 DEF Links, LinksTo
<1>8. o[f] = busy[w] /\ f < g
  BY <1>0, <1>7, ProgramFrames DEF Inner, Types, FrameTypes
<1> QED BY <1>1, <1>3, <1>5, <1>6, <1>7, <1>8 DEF Holds

(* What a spawn helper pops off the deque is the parent of its frame.      *)
LEMMA LastIsParent ==
    ASSUME NEW o, NEW rk, NEW n, Good(o, rk, n), NEW w \in Workers,
           wk[w].pc = "helper", dq[w] # <<>>
    PROVE  Last(dq[w]) = prog.parent[Cur(w)]
<1>0. Types /\ Deques(o) /\ Points /\ Chained(o) /\ Null \notin Closures
  BY Nulls DEF Good, Control, Stacks
<1>1. /\ Frames \subseteq Nat
      /\ (\A x \in Frames : x # Root => prog.parent[x] \in Frames /\ prog.parent[x] < x)
      /\ prog.kind[Root] = "root"
  BY <1>0, ProgramFrames DEF Types, FrameTypes
<1>2. PICK f, t : f = Cur(w) /\ t = busy[w]
  OBVIOUS
<1>3. f \in Frames /\ o[f] = t /\ t \in Closures /\ \A g \in Frames : o[g] = t => g <= f
  <2>1. Running(w) /\ RunsOn(w) = t
    BY <1>2 DEF Running, OnStack, RunsOn
  <2> QED BY <1>2, <2>1, RunningFacts DEF TopOf
<1>4. prog.kind[f] \in {"spawn", "expr"}
  BY <1>0, <1>2 DEF Points, Point, Helping, Cur
<1>5. dq[w] \in Seq(Frames)
  BY <1>0 DEF Types, LockTypes
<1>6. PICK m \in Nat : m = Len(dq[w]) /\ m > 0 /\ DOMAIN dq[w] = 1 .. m
  BY <1>5
<1>7. PICK l : l = dq[w][m]
  OBVIOUS
<1>8. l \in ToSet(dq[w]) /\ Last(dq[w]) = l
  BY <1>6, <1>7 DEF ToSet, Last
<1>9. l \in Frames /\ o[l] = t /\ \E g \in Frames : o[g] = t /\ l < g
  BY <1>2, <1>8, QueuedFacts
<1>10. l < f /\ l \in Nat /\ f \in Nat
  <2>1. PICK g \in Frames : o[g] = t /\ l < g
    BY <1>9
  <2>2. g <= f /\ g \in Nat /\ l \in Nat /\ f \in Nat
    BY <1>1, <1>3, <1>9, <2>1
  <2> QED BY <2>1, <2>2
<1>11. f # Root /\ o[prog.parent[f]] = t /\ l <= prog.parent[f]
  <2>1. o[prog.parent[f]] = o[f] /\ l <= prog.parent[f]
    BY <1>0, <1>3, <1>9, <1>10 DEF Chained
  <2> QED BY <1>1, <1>3, <1>4, <2>1
<1>12. PICK q \in Frames : q = prog.parent[f]
  BY <1>1, <1>3, <1>11
<1>13. q \in Links(o, t)
  BY <1>0, <1>3, <1>4, <1>11, <1>12 DEF Links, LinksTo, Inner
<1>14. Deque(o, w) /\ t # Null
  BY <1>0, <1>3 DEF Deques
<1>15. q \in ToSet(dq[w]) \/ Taken(w, q)
  BY <1>2, <1>13, <1>14 DEF Deque
<1>16. ~Taken(w, q)
  <2> SUFFICES ASSUME Taken(w, q) PROVE FALSE
    OBVIOUS
  <2>1. q < l
    BY <1>8, <1>14 DEF Deque
  <2> QED BY <1>1, <1>10, <1>11, <1>12, <2>1
<1>17. PICK i \in 1 .. m : dq[w][i] = q
  BY <1>6, <1>15, <1>16 DEF ToSet
<1>18. ~(i < m)
  <2> SUFFICES ASSUME i < m PROVE FALSE
    OBVIOUS
  <2>1. m \in 1 .. m
    BY <1>6
  <2>2. dq[w][i] < dq[w][m]
    BY <1>6, <1>14, <1>17, <2>1 DEF Deque
  <2>3. q < l /\ l <= q /\ q \in Nat
    BY <1>1, <1>7, <1>11, <1>12, <1>17, <2>2
  <2> QED BY <1>10, <2>3
<1>19. i = m
  BY <1>17, <1>18
<1> QED BY <1>2, <1>7, <1>8, <1>12, <1>17, <1>19

(* No frame is executed, or waits in a deque to be, in two places at once; *)
(* a spawn helper that finds its deque not empty pops its own parent,      *)
(* which the runtime never verifies; and the closure a thief finds under a *)
(* busy lock is a running one, so that the default case of Closure_steal   *)
(* is unreachable (FrameOnce).                                             *)
THEOREM FramesHeldOnce == Spec => []FrameOnce
<1>1. IInv => FrameOnce
  <2> SUFFICES ASSUME NEW o, NEW rk, NEW n, Good(o, rk, n) PROVE FrameOnce
    BY DEF IInv
  <2>0. Types /\ Duties /\ Holding /\ Unique /\ (\A w \in Workers : Held(w))
    BY DEF Good, Control, Holding
  <2>1. ASSUME NEW v \in Workers, NEW w \in Workers, v # w, Running(v), Running(w)
        PROVE  Cur(v) # Cur(w)
    <3>1. o[Cur(w)] = RunsOn(w) /\ RunsOn(w) \in Closures /\ Holds(w, RunsOn(w))
      BY <2>1, RunningFacts
    <3>2. o[Cur(v)] = RunsOn(v) /\ RunsOn(v) \in Closures /\ Holds(v, RunsOn(v))
      BY <2>1, RunningFacts
    <3> QED BY <2>0, <2>1, <3>1, <3>2 DEF Unique
  <2>2. ASSUME NEW v \in Workers, NEW w \in Workers, Running(w),
               Cur(w) \in ToSet(dq[v])
        PROVE  FALSE
    <3>1. PICK f : f = Cur(w)
      OBVIOUS
    <3>2. /\ f \in Frames /\ o[f] = RunsOn(w) /\ RunsOn(w) \in Closures
          /\ Holds(w, RunsOn(w)) /\ TopOf(o, RunsOn(w), f)
      BY <2>2, <3>1, RunningFacts
    <3>3. f \in ToSet(dq[v])
      BY <2>2, <3>1
    <3>4. o[f] = busy[v] /\ Holds(v, busy[v]) /\ \E g \in Frames : o[g] = busy[v] /\ f < g
      BY <3>3, QueuedFacts
    <3>5. PICK g \in Frames : o[g] = busy[v] /\ f < g
      BY <3>4
    <3>6. g <= f
      BY <3>2, <3>4, <3>5 DEF TopOf
    <3>7. f \in Nat /\ g \in Nat
      BY <2>0, <3>2, <3>5, ProgramFrames DEF Types, FrameTypes
    <3> QED BY <3>5, <3>6, <3>7
  <2>3. ASSUME NEW v \in Workers, NEW w \in Workers, v # w
        PROVE  ToSet(dq[v]) \cap ToSet(dq[w]) = {}
    <3> SUFFICES ASSUME NEW f \in ToSet(dq[v]), f \in ToSet(dq[w]) PROVE FALSE
      OBVIOUS
    <3>1. o[f] = busy[v] /\ Holds(v, busy[v]) /\ busy[v] \in Closures
      BY QueuedFacts
    <3>2. o[f] = busy[w] /\ Holds(w, busy[w])
      BY QueuedFacts
    <3> QED BY <2>0, <2>3, <3>1, <3>2 DEF Unique
  <2>4. ASSUME NEW w \in Workers, wk[w].pc = "helper", dq[w] # <<>>
        PROVE  Last(dq[w]) = prog.parent[Cur(w)]
    BY <2>4, LastIsParent
  <2>5. ASSUME NEW w \in Workers, busyLock[w] # w, busy[w] # Null
        PROVE  cl[busy[w]].status = "running"
    <3>1. wk[w].pc # "set_return2" /\ busy[w] \in Closures
      BY <2>0, <2>5 DEF Duties, Duty, Locked, Types, LockTypes
    <3> QED BY <2>0, <3>1 DEF Held
  <2> QED BY <2>1, <2>2, <2>3, <2>4, <2>5 DEF FrameOnce
<1> QED BY <1>1, InvariantHolds, PTL

(* The root has no parent among the frames.                                *)
LEMMA RootHasNoParent ==
    ASSUME prog \in Programs
    PROVE  prog.parent[Root] \notin Frames
<1>1. prog.parent[Root] = Null
  BY ProgramsAssumption DEF WellFormed
<1> QED BY <1>1, ProgramFrames

(* A frame that is synced has no spawned closure left.                     *)
LEMMA SpawnerUnsynced ==
    ASSUME NEW o, NEW rk, NEW n, Good(o, rk, n), NEW w \in Workers, AtFrame(w),
           Cur(w) \notin unsynced,
           NEW d \in Alive, NEW g \in Frames, SpawnedFrom(d, g)
    PROVE  prog.parent[g] # Cur(w)
<1>0. /\ Types /\ Holding /\ Unique /\ Duties /\ Bases(o) /\ Parents /\ Tops(o)
      /\ Null \notin Closures /\ Alive \subseteq Closures
  BY Nulls DEF Good, Control, Tree, Holding, Alive
<1>1. SUFFICES ASSUME prog.parent[g] = Cur(w) PROVE FALSE
  OBVIOUS
<1>2. PICK q : q = cl[d].spawnParent
  OBVIOUS
<1>3. q \in Alive /\ q # Null /\ d \in SpawnedBy(q) /\ cl[q].frame = Cur(w)
  BY <1>0, <1>1, <1>2 DEF SpawnedFrom, Parents, SpawnedBy
<1>4. Spawning(q)
  BY <1>0, <1>3 DEF Bases
<1>5. PICK v \in Workers : wk[v].pc \in {"unbusy", "finish"} /\ wk[v].cl = q
  BY <1>3, <1>4 DEF Spawning, Promoting
<1>6. Holds(v, q)
  BY <1>5 DEF Holds, Carries, Carrying
<1>7. o[Cur(w)] = q
  BY <1>0, <1>3, <1>4 DEF Bases, Base, Based, Spawning
<1>8. o[Cur(w)] = busy[w]
  BY <1>0 DEF Tops, Top, TopOf, Cur
<1>9. v = w
  BY <1>0, <1>3, <1>6, <1>7, <1>8 DEF Unique, Holds
<1> QED BY <1>5, <1>9 DEF AtFrame, Executing

(* A frame that is executed waits for no callee.                           *)
LEMMA NotCalledFrom ==
    ASSUME NEW o, NEW rk, NEW n, Good(o, rk, n), NEW w \in Workers, AtFrame(w),
           Cur(w) \notin unsynced,
           NEW p \in Alive, cl[p].status = "suspended", NEW g \in Frames,
           CalledFrom(o, p, g)
    PROVE  prog.parent[g] # Cur(w)
<1>0. /\ Types /\ Holding /\ (\A x \in Workers : Held(x)) /\ Tops(o)
      /\ Alive \subseteq Closures
  BY DEF Good, Control, Holding, Alive
<1>1. CASE prog.kind[g] = "call"
  <2>1. o[prog.parent[g]] = p
    BY <1>1 DEF CalledFrom, TopOf
  <2>2. o[Cur(w)] = busy[w]
    BY <1>0 DEF Tops, Top, TopOf, Cur
  <2>3. busy[w] # p
    BY <1>0 DEF Held, AtFrame, Executing
  <2> QED BY <2>1, <2>2, <2>3
<1>2. CASE prog.kind[g] # "call"
  BY <1>2, SpawnerUnsynced DEF CalledFrom
<1> QED BY <1>1, <1>2

(* A frame that is synced, and is executed, has no child on any stack.     *)
LEMMA SyncedChildless ==
    ASSUME NEW o, NEW rk, NEW n, Good(o, rk, n), NEW w \in Workers, AtFrame(w),
           Cur(w) \notin unsynced,
           NEW g \in Frames, prog.parent[g] = Cur(w)
    PROVE  home[g] = Null
<1>0. /\ Types /\ Holding /\ Unique /\ (\A x \in Workers : Held(x)) /\ Duties
      /\ Bases(o) /\ Parents /\ Tops(o)
      /\ Owned(o) /\ Bottoms(o) /\ Null \notin Closures /\ Alive \subseteq Closures
      /\ Ghosts(o, rk)
  BY Nulls DEF Good, Control, Tree, Holding, Stacks, Alive
<1>1. SUFFICES ASSUME o[g] # Null PROVE FALSE
  BY <1>0 DEF Owned
<1>2. PICK f : f = Cur(w)
  OBVIOUS
<1>3. f \in Frames /\ o[f] = busy[w] /\ \A x \in Frames : o[x] = busy[w] => x <= f
  BY <1>0, <1>2 DEF Tops, Top, TopOf, Cur
<1>4. g # Root /\ f < g /\ f \in Nat /\ g \in Nat /\ prog.parent[g] = f
  <2>1. g # Root
    BY <1>0, <1>2, <1>3, RootHasNoParent DEF Types, FrameTypes
  <2> QED BY <1>0, <1>2, <1>3, <2>1, ProgramFrames DEF Types, FrameTypes
<1>5. ~Inner(o, g)
  <2> SUFFICES ASSUME Inner(o, g) PROVE FALSE
    OBVIOUS
  <2>1. o[g] = busy[w]
    BY <1>3, <1>4 DEF Inner
  <2>2. g <= f
    BY <1>3, <2>1
  <2> QED BY <1>4, <2>2
<1>6. PICK d \in Alive : d = o[g]
  BY <1>0, <1>1 DEF Owned
<1>7. Bottom(o, g)
  BY <1>0, <1>1, <1>5 DEF Bottoms
<1>8. CASE SpawnedFrom(d, g)
  BY <1>8, SpawnerUnsynced
<1>9. CASE g = cl[d].frame
  <2>1. Based(o, d, g)
    <3>1. g # Null
      BY <1>0, Nulls
    <3> QED BY <1>0, <1>9, <3>1 DEF Bases, Base
  <2>2. CASE prog.kind[g] = "expr"
    BY <1>8, <2>1, <2>2 DEF Based
  <2>3. CASE prog.kind[g] # "expr"
    <3>1. PICK p : p = cl[d].callParent
      OBVIOUS
    <3>2. CalledFrom(o, p, g)
      BY <1>4, <2>1, <2>3, <3>1 DEF Based
    <3>3. p \in Alive /\ cl[p].status = "suspended"
      BY <1>0, <3>1, <3>2 DEF CalledFrom, Parents, Alive
    <3> QED BY <3>2, <3>3, NotCalledFrom
  <2> QED BY <2>2, <2>3
<1>10. CASE Swapped(d)
  <2>1. PICK v \in Workers : wk[v].pc = "set_return2" /\ wk[v].cl = d
    BY <1>10 DEF Swapped
  <2>2. Only(o, d, wk[v].cur) /\ CalledFrom(o, busy[v], wk[v].cur)
    BY <1>0, <2>1 DEF Tops, Top
  <2>3. wk[v].cur = g
    BY <1>6, <2>2 DEF Only
  <2>4. PICK p : p = busy[v]
    OBVIOUS
  <2>5. CalledFrom(o, p, g) /\ p # Null
    BY <2>2, <2>3, <2>4 DEF CalledFrom
  <2>6. p \in Closures
    BY <1>0, <2>4, <2>5 DEF Types, LockTypes
  <2>7. cl[p].status = "suspended" /\ p \in Alive
    BY <1>0, <2>1, <2>4, <2>6 DEF Held, Alive
  <2> QED BY <2>5, <2>7, NotCalledFrom
<1> QED BY <1>6, <1>7, <1>8, <1>9, <1>10 DEF Bottom

(* Frame f passes a sync, or catches an exception.                         *)
Passes(f) == (at'[f] # at[f] /\ Code(f)[at[f]].op = "sync") \/ caught'[f] # caught[f]

(* Only the frame that its worker executes passes a sync, and only when it *)
(* is synced.                                                              *)
LEMMA PassesSynced ==
    ASSUME NEW o, NEW rk, NEW n, Good(o, rk, n), NEW w \in Workers, WorkerNext(w),
           NEW f \in Frames, Passes(f)
    PROVE  AtFrame(w) /\ f = Cur(w) /\ f \notin unsynced
<1>0. Types /\ Points /\ at \in [Frames -> Nat] /\ DOMAIN caught = Frames
  BY DEF Good, Control, Types, FrameTypes
<1>p. Point(w)
  BY <1>0 DEF Points
<1>1. CASE \E op \in {"spawn", "call", "update"} : Executes(w, op) /\ Step(Cur(w)) /\ UNCHANGED <<caught, prog>>
  <2>1. PICK op \in {"spawn", "call", "update"} : Executes(w, op) /\ Step(Cur(w)) /\ UNCHANGED <<caught, prog>>
    BY <1>1
  <2>2. f # Cur(w) => at'[f] = at[f]
    BY <1>0, <2>1 DEF Step
  <2>3. Code(Cur(w))[at[Cur(w)]].op # "sync"
    BY <2>1 DEF Executes
  <2> QED BY <2>1, <2>2, <2>3 DEF Passes
<1>2. CASE SyncNothing(w)
  <2>1. wk[w].pc = "user" /\ Cur(w) \notin unsynced /\ Step(Cur(w)) /\ UNCHANGED caught
    BY <1>2 DEF SyncNothing, Executes, evars
  <2>2. f # Cur(w) => at'[f] = at[f]
    BY <1>0, <2>1 DEF Step
  <2> QED BY <2>1, <2>2 DEF Passes, AtFrame, Executing
<1>3. CASE ReduceSynced(w)
  <2>1. /\ wk[w].pc = "reduce" /\ wk[w].why = "synced" /\ UNCHANGED caught
        /\ at' \in {[at EXCEPT ![Cur(w)] = @ + 1], at}
    BY <1>3 DEF ReduceSynced
  <2>2. f # Cur(w) => at'[f] = at[f]
    BY <1>0, <2>1
  <2>3. Cur(w) \notin unsynced
    BY <1>p, <2>1 DEF Point, Reducing, Cur
  <2> QED BY <2>1, <2>2, <2>3 DEF Passes, AtFrame
<1>4. CASE CleanupFiber(w)
  <2>1. wk[w].pc = "landing"
    BY <1>4 DEF CleanupFiber
  <2>2. f # Cur(w) => at'[f] = at[f] /\ caught'[f] = caught[f]
    BY <1>0, <1>4 DEF CleanupFiber
  <2>3. Cur(w) \notin unsynced
    BY <1>p, <2>1 DEF Point, AfterSync, Cur
  <2> QED BY <2>1, <2>2, <2>3 DEF Passes, AtFrame, Executing
<1>5. CASE CheckExceptionRaise(w)
  <2>1. /\ wk[w].pc = "check" /\ UNCHANGED caught
        /\ at' \in {[at EXCEPT ![Cur(w)] = @ + 1], at}
    BY <1>5 DEF CheckExceptionRaise
  <2>2. f # Cur(w) => at'[f] = at[f]
    BY <1>0, <2>1
  <2>3. Cur(w) \notin unsynced
    BY <1>p, <2>1 DEF Point, AfterSync, Cur
  <2> QED BY <2>1, <2>2, <2>3 DEF Passes, AtFrame, Executing
<1>6. CASE RootThrows(w)
  <2>1. /\ wk[w].pc = "unwind" /\ Cur(w) \notin unsynced /\ Cur(w) = Root /\ at' = at
        /\ caught' = [caught EXCEPT ![Root] = Append(@, unw[Root].exn)]
    BY <1>6 DEF RootThrows, Synced
  <2>2. f # Cur(w) => caught'[f] = caught[f]
    BY <1>0, <2>1
  <2> QED BY <2>1, <2>2 DEF Passes, AtFrame, Executing
<1>7. CASE UNCHANGED <<at, caught>>
  BY <1>7 DEF Passes
<1>8. Spawn(w) \/ Call(w) \/ Update(w) => \E op \in {"spawn", "call", "update"} : Executes(w, op) /\ Step(Cur(w)) /\ UNCHANGED <<caught, prog>>
  BY DEF Spawn, Call, Update, evars
<1>9. Throw(w) \/ LeaveFrame(w) \/ PopParent(w) => UNCHANGED <<at, caught>>
  BY DEF Throw, LeaveFrame, PopParent, Left
<1>10. SyncLock(w) \/ SyncSuspend(w) \/ SyncReady(w) \/ SyncTakeChildHt(w) => UNCHANGED <<at, caught>>
  BY
     DEF LockSelf, SyncLock, SyncSuspend, SyncReady, SyncTakeChildHt, fvars,
         evars
<1>11. SetReturnLock(w) \/ SetReturnSwap(w) \/ SetReturnResume(w) => UNCHANGED <<at, caught>>
  BY DEF LockSelf, SetReturnLock, SetReturnSwap, SetReturnResume, fvars, evars
<1>12. HandlerLock(w) \/ HandlerReturn(w) \/ ReturnLockParent(w) => UNCHANGED <<at, caught>>
  BY DEF LockSelf, HandlerLock, HandlerReturn, ReturnLockParent, fvars, evars
<1>13. ReturnReduce(w) \/ ReturnFinish(w) \/ Install(w) \/ ReduceReturning(w) => UNCHANGED <<at, caught>>
  BY DEF ReturnReduce, ReturnFinish, Install, ReduceReturning, fvars, evars
<1>14. UnwindLock(w) \/ UnwindSave(w) \/ UnwindSync(w) \/ Reraise(w) \/ Personality(w) => UNCHANGED <<at, caught>>
  BY
     DEF LockSelf, UnwindLock, UnwindSave, UnwindSync, Reraise, Personality,
         fvars, evars
<1>15. (\E v \in Workers \ {w} : StealLock(w, v)) \/ StealWin(w) \/ StealLose(w) => UNCHANGED <<at, caught>>
  BY DEF StealLock, StealWin, StealLose, fvars, evars
<1>16. PromoteOwn(w) \/ PromoteCallee(w) \/ StealUnlockBusy(w) \/ StealFinish(w) => UNCHANGED <<at, caught>>
  BY
     DEF PromoteOwn, PromoteCallee, Promoted, StealUnlockBusy, StealFinish,
         fvars, evars
<1>17. RootDone(w) \/ RootExit(w) \/ StopStealing(w) => UNCHANGED <<at, caught>>
  BY DEF RootDone, RootExit, StopStealing, fvars, evars
<1> QED
  BY <1>1, <1>2, <1>3, <1>4, <1>5, <1>6, <1>7, <1>8, <1>9, <1>10, <1>11, <1>12,
     <1>13, <1>14, <1>15,
           <1>16, <1>17 DEF WorkerNext

(* A frame passes a sync only when all the frames it has spawned or called *)
(* have returned, however the join counter came to zero: in Cilk_sync, or  *)
(* at the return of the last child (SyncWaits).                            *)
THEOREM SyncsWait == Spec => SyncWaits
<1>1. IInv /\ [Next]_vars =>
        [\A f \in Frames :
         (at'[f] # at[f] /\ Code(f)[at[f]].op = "sync") \/ caught'[f] # caught[f] =>
            \A g \in Frames : prog.parent[g] = f => home[g] = Null]_vars
  <2> SUFFICES ASSUME NEW o, NEW rk, NEW n, Good(o, rk, n), NEW w \in Workers,
                      WorkerNext(w),
                      NEW f \in Frames, Passes(f), NEW g \in Frames, prog.parent[g] = f
               PROVE  home[g] = Null
    <3>1. UNCHANGED vars => \A f \in Frames : ~Passes(f)
      BY DEF Passes, vars, fvars, evars
    <3> QED BY <3>1 DEF IInv, Next, Passes
  <2>1. AtFrame(w) /\ f = Cur(w) /\ f \notin unsynced
    BY PassesSynced
  <2> QED BY <2>1, SyncedChildless
<1> QED BY <1>1, InvariantHolds, PTL DEF Spec, SyncWaits
=============================================================================
