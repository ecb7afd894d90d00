--------------------------- MODULE TheDeque_proof ---------------------------
(***************************************************************************)
(* Proofs about TheDeque, for any number of thieves, any deque size and    *)
(* any number of spawns: IndInv is inductive, and it implies that no       *)
(* continuation is resumed twice, that none is lost, and that a thief      *)
(* finds no closure in a status Closure_steal cannot handle.  From the     *)
(* same invariant, no slot a thief is about to read is overwritten, and    *)
(* the protocol implements DequeSpec: every step of a victim or a thief    *)
(* pushes, takes back or steals one continuation indivisibly, or leaves    *)
(* the queue alone.                                                        *)
(*                                                                         *)
(* At the end, the theorems about HyperProbe.                              *)
(***************************************************************************)
EXTENDS TheDeque, HyperProbe, SequenceTheorems, TLAPS

(* Counting a resumption keeps the counts natural numbers. *)
LEMMA ResumeType ==
    ASSUME resumed \in [Conts -> Nat], NEW c \in Conts, Resume(c)
    PROVE  /\ resumed' \in [Conts -> Nat]
           /\ resumed'[c] = resumed[c] + 1
           /\ \A d \in Conts : d # c => resumed'[d] = resumed[d]
BY DEF Resume

(* A live entry is a slot of the shadow stack that holds a continuation.   *)
LEMMA LiveSlots ==
    ASSUME IndInv
    PROVE  \A i \in Live : i \in 0 .. DequeLimit /\ shadow[i] \in Conts
<1> USE BoundsAssumption
<1>1. \A i \in Live : i \in 0 .. DequeLimit
    BY DEF IndInv, TypeOK, PointerInv, Live, Popping, NoClosure, Index
<1>2. \A i \in Live : shadow[i] \in 1 .. spawned /\ spawned \in 0 .. MaxSpawns
    BY DEF IndInv, TypeOK, ContInv
<1> QED
    BY <1>1, <1>2 DEF Conts

(* The oldest entry is live while a thief is winning it, and the youngest  *)
(* while the victim's pop is undecided and tail has not passed head.       *)
LEMMA ContestedIsLive ==
    ASSUME IndInv
    PROVE  /\ \A t \in Thieves : Winning(t) => hd[t] = head /\ head \in Live
           /\ Popping /\ head <= tail => tail \in Live
<1> USE BoundsAssumption
<1>1. ASSUME NEW t \in Thieves, Winning(t) PROVE hd[t] = head /\ head \in Live
    BY <1>1 DEF IndInv, TypeOK, BusyInv, PointerInv, Live, Popping, Winning,
                NoClosure, Waiting, Unlocked, Synced, AtTop, Index, ThiefHasClosure,
                ThiefHoldsClosure
<1>2. ASSUME Popping, head <= tail PROVE tail \in Live
    BY <1>2 DEF IndInv, TypeOK, Live, Popping, NoClosure, Index
<1> QED
    BY <1>1, <1>2

(* At most one thief holds busy[victim].                                   *)
LEMMA SoleThief ==
    ASSUME IndInv, NEW s \in Thieves, NEW t \in Thieves,
           tpc[s] \in ThiefHoldsBusy, tpc[t] \in ThiefHoldsBusy
    PROVE  s = t
BY DEF IndInv, LockInv

(* Where exc stands when a thief looks at it.                              *)
LEMMA ExcOfThief ==
    ASSUME IndInv, NEW t \in Thieves
    PROVE  /\ tpc[t] = "status" => exc = head
           /\ tpc[t] \in ExcRaised => exc = head + 1
<1> USE DEF ThiefHoldsBusy, ThiefHasClosure, ThiefHoldsClosure, ExcRaised
<1>1. ASSUME tpc[t] \in ThiefHasClosure PROVE vpc \notin {"set_exc", "set_tail"}
    BY <1>1 DEF IndInv, BusyInv, Unlocked
<1>2. ASSUME tpc[t] = "status"
      PROVE  \A s \in Thieves : tpc[s] \notin ExcRaised
    BY <1>2, SoleThief
<1> QED
    BY <1>1, <1>2 DEF IndInv, PointerInv

(* A step that leaves the live entries and the continuations alone.        *)
LEMMA ContKept ==
    ASSUME IndInv, Live' = Live, UNCHANGED work,
           vpc' = "push" => vpc = "push" /\ tail' = tail
    PROVE  ContInv'
BY DEF IndInv, ContInv, work

(* A step that resumes the continuation of exactly one live entry.         *)
LEMMA ContTaken ==
    ASSUME IndInv, NEW k \in Live, Live' = Live \ {k}, Resume(shadow[k]),
           UNCHANGED <<shadow, spawned>>, vpc' = "push" => vpc = "push" /\ tail' = tail
    PROVE  ContInv'
<1> USE DEF IndInv, ContInv
<1>1. shadow[k] \in Conts /\ shadow[k] \in 1 .. spawned /\ resumed[shadow[k]] = 0
    BY LiveSlots
<1>2. /\ resumed'[shadow[k]] = 1
      /\ \A d \in Conts : d # shadow[k] => resumed'[d] = resumed[d]
    BY <1>1, ResumeType DEF TypeOK
<1>3. \A i \in Live' : shadow'[i] \in 1 .. spawned' /\ resumed'[shadow'[i]] = 0
  <2> TAKE i \in Live'
  <2>1. i \in Live /\ i # k /\ shadow[i] # shadow[k] /\ shadow[i] \in Conts
    BY LiveSlots
  <2> QED
    BY <1>2, <2>1
<1>4. \A i, j \in Live' : shadow'[i] = shadow'[j] => i = j
    OBVIOUS
<1>5. \A c \in Conts : resumed'[c] <= 1 /\ (c > spawned' => resumed'[c] = 0)
  <2> TAKE c \in Conts
  <2>1. CASE c = shadow[k]
    BY <1>1, <1>2, <2>1 DEF TypeOK
  <2>2. CASE c # shadow[k]
    BY <1>2, <2>2
  <2> QED
    BY <2>1, <2>2
<1>6. \A c \in 1 .. spawned' : resumed'[c] = 1 \/ \E i \in Live' : shadow'[i] = c
  <2> TAKE c \in 1 .. spawned'
  <2>1. c \in Conts
    BY BoundsAssumption DEF TypeOK, Conts
  <2>2. CASE c = shadow[k]
    BY <1>2, <2>2
  <2>3. CASE c # shadow[k]
    BY <1>2, <2>1, <2>3
  <2> QED
    BY <2>2, <2>3
<1>7. vpc' = "push" => shadow'[tail'] = spawned' + 1
    OBVIOUS
<1> QED
    BY <1>3, <1>4, <1>5, <1>6, <1>7


(* Every step preserves the types. *)
LEMMA TypeStep == IndInv /\ [Next]_vars => TypeOK'
<1> SUFFICES ASSUME IndInv, [Next]_vars PROVE TypeOK'
    OBVIOUS
<1> USE ActorsAssumption, BoundsAssumption
    DEF IndInv, TypeOK, LockInv, BusyInv, PointerInv, Actors, Conts, Index,
        VictimPc, ThiefPc, Winning, Popping, vars, ptrs, locks, work,
        ThiefHoldsBusy, ThiefHoldsClosure, ThiefHasClosure, VictimHoldsBusy,
        VictimHoldsClosure, NoClosure, Waiting, Unlocked, Synced, AtTop, ExcRaised
<1>1. CASE DetachStore
    BY <1>1 DEF DetachStore
<1>2. CASE DetachPublish
    BY <1>2 DEF DetachPublish
<1>3. CASE LeaveTail
    BY <1>3 DEF LeaveTail
<1>4. CASE LeaveExc
  <2>1. CASE PopContested
    BY <1>4, <2>1 DEF LeaveExc, PopContested
  <2>2. CASE ~PopContested
    <3>1. tail \in Live
        BY <1>4, <2>2, ContestedIsLive DEF LeaveExc, PopContested
    <3>2. resumed' \in [Conts -> Nat]
        BY <1>4, <2>2, <3>1, LiveSlots, ResumeType DEF LeaveExc, PopContested
    <3> QED
        BY <1>4, <2>2, <3>2 DEF LeaveExc, PopContested
  <2> QED
    BY <2>1, <2>2
<1>5. CASE HandlerLockBusy
    BY <1>5 DEF HandlerLockBusy, LockSelf
<1>6. CASE HandlerLockClosure
    BY <1>6 DEF HandlerLockClosure, LockClosure
<1>7. CASE HandlerVerdict
  <2>1. CASE StealVerdict
    BY <1>7, <2>1 DEF HandlerVerdict, StealVerdict
  <2>2. CASE ~StealVerdict
    <3>1. tail \in Live
        BY <1>7, <2>2, ContestedIsLive DEF HandlerVerdict, StealVerdict
    <3>2. resumed' \in [Conts -> Nat]
        BY <1>7, <2>2, <3>1, LiveSlots, ResumeType
           DEF HandlerVerdict, StealVerdict
    <3> QED
        BY <1>7, <2>2, <3>2 DEF HandlerVerdict, StealVerdict
  <2> QED
    BY <2>1, <2>2
<1>8. CASE HandlerFalseAlarm
    BY <1>8 DEF HandlerFalseAlarm, UnlockSelf
<1>9. CASE ExtractReturning
    BY <1>9 DEF ExtractReturning
<1>10. CASE SetupHead
    BY <1>10 DEF SetupHead
<1>11. CASE SetupExc
    BY <1>11 DEF SetupExc
<1>12. CASE SetupTail
    BY <1>12 DEF SetupTail
<1>13. CASE InstallLock
    BY <1>13 DEF InstallLock, LockSelf
<1>14. CASE Install
    BY <1>14 DEF Install
<1>15. CASE SyncEnter
    BY <1>15 DEF SyncEnter, AtTopOfStack
<1>16. CASE SyncLockBusy
    BY <1>16 DEF SyncLockBusy, LockSelf
<1>17. CASE SyncLockClosure
    BY <1>17 DEF SyncLockClosure, LockClosure
<1>18. CASE Sync
    BY <1>18 DEF Sync, Suspend
<1>19. CASE SetReturnEnter
    BY <1>19 DEF SetReturnEnter, EnterSynced, AtTopOfStack
<1>20. CASE SetReturnLockBusy
    BY <1>20 DEF SetReturnLockBusy, LockSelf
<1>21. CASE SetReturnLockClosure
    BY <1>21 DEF SetReturnLockClosure, LockClosure
<1>22. CASE SetReturnSwap
    BY <1>22 DEF SetReturnSwap
<1>23. CASE SetReturnResume
    BY <1>23 DEF SetReturnResume
<1>24. CASE SetReturnUnlock
    BY <1>24 DEF SetReturnUnlock, UnlockSelf
<1>25. CASE ReturnLock
    BY <1>25 DEF ReturnLock
<1>26. CASE ReturnUnlock
    BY <1>26 DEF ReturnUnlock
<1>27. ASSUME NEW t \in Thieves, FastTestHead(t) PROVE TypeOK'
    BY <1>27 DEF FastTestHead, Goto
<1>28. ASSUME NEW t \in Thieves, FastTestTail(t) PROVE TypeOK'
    BY <1>28 DEF FastTestTail, FastTestFails, Goto
<1>29. ASSUME NEW t \in Thieves, TryBusy(t) PROVE TypeOK'
    BY <1>29 DEF TryBusy, Goto
<1>30. ASSUME NEW t \in Thieves, TryBusyFails(t) PROVE TypeOK'
    BY <1>30 DEF TryBusyFails, Goto
<1>31. ASSUME NEW t \in Thieves, PeekLocked(t) PROVE TypeOK'
    BY <1>31 DEF PeekLocked, Goto
<1>32. ASSUME NEW t \in Thieves, PeekFails(t) PROVE TypeOK'
    BY <1>32 DEF PeekFails, Goto
<1>33. ASSUME NEW t \in Thieves, SwitchStatus(t) PROVE TypeOK'
  <2>1. busy = "running" => exc = head
    BY <1>33, ExcOfThief DEF SwitchStatus
  <2>2. exc' \in 0 .. DequeLimit + 1
    BY <1>33, <2>1 DEF SwitchStatus
  <2>3. tpc' \in [Thieves -> ThiefPc]
    BY <1>33 DEF SwitchStatus, Goto
  <2> QED
    BY <1>33, <2>2, <2>3 DEF SwitchStatus
<1>34. ASSUME NEW t \in Thieves, Dekker(t) PROVE TypeOK'
    BY <1>34 DEF Dekker, Goto
<1>35. ASSUME NEW t \in Thieves, Promote(t) PROVE TypeOK'
    BY <1>35 DEF Promote, Goto
<1>36. ASSUME NEW t \in Thieves, PublishHead(t) PROVE TypeOK'
  <2>1. Winning(t) /\ hd[t] = head
    BY <1>36, ContestedIsLive DEF PublishHead
  <2>2. resumed' \in [Conts -> Nat]
    BY <1>36, <2>1, ContestedIsLive, LiveSlots, ResumeType DEF PublishHead
  <2>3. head' \in 0 .. DequeLimit
    BY <1>36, <2>1 DEF PublishHead
  <2>4. tpc' \in [Thieves -> ThiefPc]
    BY <1>36 DEF PublishHead, Goto
  <2> QED
    BY <1>36, <2>2, <2>3, <2>4 DEF PublishHead
<1>37. ASSUME NEW t \in Thieves, SetChild(t) PROVE TypeOK'
    BY <1>37 DEF SetChild, Goto
<1>38. ASSUME NEW t \in Thieves, GiveUp(t) PROVE TypeOK'
    BY <1>38 DEF GiveUp, Goto
<1>39. ASSUME NEW t \in Thieves, UnlockBusy(t) PROVE TypeOK'
    BY <1>39 DEF UnlockBusy, Goto
<1>40. CASE UNCHANGED vars
    BY <1>40 DEF vars
<1>41. ASSUME NEW t \in Thieves, Undo(t) PROVE TypeOK'
  <2>1. exc' \in 0 .. DequeLimit + 1
    BY <1>41, ExcOfThief DEF Undo, Decremented
  <2> QED
    BY <1>41, <2>1 DEF Undo, Goto
<1>42. CASE ReductionsDone
    BY <1>42 DEF ReductionsDone, EnterSynced, AtTopOfStack
<1>43. CASE ReductionsLockBusy
    BY <1>43 DEF ReductionsLockBusy, LockSelf
<1>44. CASE ReductionsReturn
    BY <1>44 DEF ReductionsReturn
<1>45. CASE ExitRegion
    BY <1>45 DEF ExitRegion, EnterSynced, AtTopOfStack
<1>46. CASE ExitLockBusy
    BY <1>46 DEF ExitLockBusy, LockSelf
<1>47. CASE ExitClear
    BY <1>47 DEF ExitClear, ClearBusy
<1>48. CASE LeaveScheduler
    BY <1>48 DEF LeaveScheduler
<1>49. CASE StartRegion
    BY <1>49 DEF StartRegion, RootStatus
<1>50. CASE SetupRoot
    BY <1>50 DEF SetupRoot, RootStatus
<1> QED
    BY <1>1, <1>2, <1>3, <1>4, <1>5, <1>6, <1>7, <1>8, <1>9, <1>10, <1>11,
       <1>12, <1>13, <1>14, <1>15, <1>16, <1>17, <1>18, <1>19, <1>20, <1>21,
       <1>22, <1>23, <1>24, <1>25, <1>26, <1>27, <1>28, <1>29, <1>30, <1>31,
       <1>32, <1>33, <1>34, <1>35, <1>36, <1>37, <1>38, <1>39, <1>40,
       <1>41, <1>42, <1>43, <1>44, <1>45, <1>46, <1>47, <1>48, <1>49,
       <1>50
    DEF Next, VictimNext, ThiefNext

(* Every step keeps the owners of the two locks and the counters in agreement. *)
LEMMA LockStep == IndInv /\ [Next]_vars => LockInv'
<1> SUFFICES ASSUME IndInv, [Next]_vars PROVE LockInv'
    OBVIOUS
<1> USE ActorsAssumption, BoundsAssumption
    DEF IndInv, TypeOK, LockInv, BusyInv, Actors, vars, ptrs, locks, work,
        ThiefHoldsBusy, ThiefHoldsClosure, ThiefHasClosure, VictimHoldsBusy,
        VictimHoldsClosure, NoClosure, Waiting, Unlocked, Synced, AtTop, ExcRaised
<1>1. CASE DetachStore
    BY <1>1 DEF DetachStore
<1>2. CASE DetachPublish
    BY <1>2 DEF DetachPublish
<1>3. CASE LeaveTail
    BY <1>3 DEF LeaveTail
<1>4. CASE LeaveExc
    BY <1>4 DEF LeaveExc, PopContested, Resume
<1>5. CASE HandlerLockBusy
    BY <1>5 DEF HandlerLockBusy, LockSelf
<1>6. CASE HandlerLockClosure
    BY <1>6 DEF HandlerLockClosure, LockClosure
<1>7. CASE HandlerVerdict
    BY <1>7 DEF HandlerVerdict, StealVerdict, Resume
<1>8. CASE HandlerFalseAlarm
    BY <1>8 DEF HandlerFalseAlarm, UnlockSelf
<1>9. CASE ExtractReturning
    BY <1>9 DEF ExtractReturning
<1>10. CASE SetupHead
    BY <1>10 DEF SetupHead
<1>11. CASE SetupExc
    BY <1>11 DEF SetupExc
<1>12. CASE SetupTail
    BY <1>12 DEF SetupTail
<1>13. CASE InstallLock
    BY <1>13 DEF InstallLock, LockSelf
<1>14. CASE Install
    BY <1>14 DEF Install
<1>15. CASE SyncEnter
    BY <1>15 DEF SyncEnter, AtTopOfStack
<1>16. CASE SyncLockBusy
    BY <1>16 DEF SyncLockBusy, LockSelf
<1>17. CASE SyncLockClosure
    BY <1>17 DEF SyncLockClosure, LockClosure
<1>18. CASE Sync
    BY <1>18 DEF Sync, Suspend
<1>19. CASE SetReturnEnter
    BY <1>19 DEF SetReturnEnter, EnterSynced, AtTopOfStack
<1>20. CASE SetReturnLockBusy
    BY <1>20 DEF SetReturnLockBusy, LockSelf
<1>21. CASE SetReturnLockClosure
    BY <1>21 DEF SetReturnLockClosure, LockClosure
<1>22. CASE SetReturnSwap
    BY <1>22 DEF SetReturnSwap
<1>23. CASE SetReturnResume
    BY <1>23 DEF SetReturnResume
<1>24. CASE SetReturnUnlock
    BY <1>24 DEF SetReturnUnlock, UnlockSelf
<1>25. CASE ReturnLock
    BY <1>25 DEF ReturnLock
<1>26. CASE ReturnUnlock
    BY <1>26 DEF ReturnUnlock
<1>27. ASSUME NEW t \in Thieves, FastTestHead(t) PROVE LockInv'
    BY <1>27 DEF FastTestHead, Goto
<1>28. ASSUME NEW t \in Thieves, FastTestTail(t) PROVE LockInv'
    BY <1>28 DEF FastTestTail, FastTestFails, Goto
<1>29. ASSUME NEW t \in Thieves, TryBusy(t) PROVE LockInv'
    BY <1>29 DEF TryBusy, Goto
<1>30. ASSUME NEW t \in Thieves, TryBusyFails(t) PROVE LockInv'
    BY <1>30 DEF TryBusyFails, Goto
<1>31. ASSUME NEW t \in Thieves, PeekLocked(t) PROVE LockInv'
    BY <1>31 DEF PeekLocked, Goto
<1>32. ASSUME NEW t \in Thieves, PeekFails(t) PROVE LockInv'
    BY <1>32 DEF PeekFails, Goto
<1>33. ASSUME NEW t \in Thieves, SwitchStatus(t) PROVE LockInv'
    BY <1>33 DEF SwitchStatus, Goto
<1>34. ASSUME NEW t \in Thieves, Dekker(t) PROVE LockInv'
    BY <1>34 DEF Dekker, DekkerLost, Goto
<1>35. ASSUME NEW t \in Thieves, Promote(t) PROVE LockInv'
    BY <1>35 DEF Promote, Goto
<1>36. ASSUME NEW t \in Thieves, PublishHead(t) PROVE LockInv'
    BY <1>36 DEF PublishHead, Resume, Goto
<1>37. ASSUME NEW t \in Thieves, SetChild(t) PROVE LockInv'
    BY <1>37 DEF SetChild, Goto
<1>38. ASSUME NEW t \in Thieves, GiveUp(t) PROVE LockInv'
    BY <1>38 DEF GiveUp, Goto
<1>39. ASSUME NEW t \in Thieves, UnlockBusy(t) PROVE LockInv'
    BY <1>39 DEF UnlockBusy, Goto
<1>40. CASE UNCHANGED vars
    BY <1>40 DEF vars
<1>41. ASSUME NEW t \in Thieves, Undo(t) PROVE LockInv'
    BY <1>41 DEF Undo, Goto
<1>42. CASE ReductionsDone
    BY <1>42 DEF ReductionsDone, EnterSynced, AtTopOfStack
<1>43. CASE ReductionsLockBusy
    BY <1>43 DEF ReductionsLockBusy, LockSelf
<1>44. CASE ReductionsReturn
    BY <1>44 DEF ReductionsReturn
<1>45. CASE ExitRegion
    BY <1>45 DEF ExitRegion, EnterSynced, AtTopOfStack
<1>46. CASE ExitLockBusy
    BY <1>46 DEF ExitLockBusy, LockSelf
<1>47. CASE ExitClear
    BY <1>47 DEF ExitClear, ClearBusy
<1>48. CASE LeaveScheduler
    BY <1>48 DEF LeaveScheduler
<1>49. CASE StartRegion
    BY <1>49 DEF StartRegion, RootStatus
<1>50. CASE SetupRoot
    BY <1>50 DEF SetupRoot, RootStatus
<1> QED
    BY <1>1, <1>2, <1>3, <1>4, <1>5, <1>6, <1>7, <1>8, <1>9, <1>10, <1>11,
       <1>12, <1>13, <1>14, <1>15, <1>16, <1>17, <1>18, <1>19, <1>20, <1>21,
       <1>22, <1>23, <1>24, <1>25, <1>26, <1>27, <1>28, <1>29, <1>30, <1>31,
       <1>32, <1>33, <1>34, <1>35, <1>36, <1>37, <1>38, <1>39, <1>40,
       <1>41, <1>42, <1>43, <1>44, <1>45, <1>46, <1>47, <1>48, <1>49,
       <1>50
    DEF Next, VictimNext, ThiefNext

(* Every step keeps the busy closure and the counters in agreement. *)
LEMMA BusyStep == IndInv /\ [Next]_vars => BusyInv'
<1> SUFFICES ASSUME IndInv, [Next]_vars PROVE BusyInv'
    OBVIOUS
<1> USE ActorsAssumption, BoundsAssumption
    DEF IndInv, TypeOK, LockInv, BusyInv, Actors, VictimPc, vars, ptrs, locks,
        work, ThiefHoldsBusy, ThiefHoldsClosure, ThiefHasClosure,
        VictimHoldsBusy, VictimHoldsClosure, NoClosure, Waiting, Unlocked, Synced, AtTop, ExcRaised
<1>1. CASE DetachStore
    BY <1>1 DEF DetachStore
<1>2. CASE DetachPublish
    BY <1>2 DEF DetachPublish
<1>3. CASE LeaveTail
    BY <1>3 DEF LeaveTail
<1>4. CASE LeaveExc
    BY <1>4 DEF LeaveExc, PopContested, Resume
<1>5. CASE HandlerLockBusy
    BY <1>5 DEF HandlerLockBusy, LockSelf
<1>6. CASE HandlerLockClosure
    BY <1>6 DEF HandlerLockClosure, LockClosure
<1>7. CASE HandlerVerdict
    BY <1>7 DEF HandlerVerdict, StealVerdict, Resume
<1>8. CASE HandlerFalseAlarm
    BY <1>8 DEF HandlerFalseAlarm, UnlockSelf
<1>9. CASE ExtractReturning
    BY <1>9 DEF ExtractReturning
<1>10. CASE SetupHead
    BY <1>10 DEF SetupHead
<1>11. CASE SetupExc
    BY <1>11 DEF SetupExc
<1>12. CASE SetupTail
    BY <1>12 DEF SetupTail
<1>13. CASE InstallLock
    BY <1>13 DEF InstallLock, LockSelf
<1>14. CASE Install
    BY <1>14 DEF Install
<1>15. CASE SyncEnter
    BY <1>15 DEF SyncEnter, AtTopOfStack
<1>16. CASE SyncLockBusy
    BY <1>16 DEF SyncLockBusy, LockSelf
<1>17. CASE SyncLockClosure
    BY <1>17 DEF SyncLockClosure, LockClosure
<1>18. CASE Sync
    BY <1>18 DEF Sync, Suspend
<1>19. CASE SetReturnEnter
    BY <1>19 DEF SetReturnEnter, EnterSynced, AtTopOfStack
<1>20. CASE SetReturnLockBusy
    BY <1>20 DEF SetReturnLockBusy, LockSelf
<1>21. CASE SetReturnLockClosure
    BY <1>21 DEF SetReturnLockClosure, LockClosure
<1>22. CASE SetReturnSwap
    BY <1>22 DEF SetReturnSwap
<1>23. CASE SetReturnResume
    BY <1>23 DEF SetReturnResume
<1>24. CASE SetReturnUnlock
    BY <1>24 DEF SetReturnUnlock, UnlockSelf
<1>25. CASE ReturnLock
    BY <1>25 DEF ReturnLock
<1>26. CASE ReturnUnlock
    BY <1>26 DEF ReturnUnlock
<1>27. ASSUME NEW t \in Thieves, FastTestHead(t) PROVE BusyInv'
    BY <1>27 DEF FastTestHead, Goto
<1>28. ASSUME NEW t \in Thieves, FastTestTail(t) PROVE BusyInv'
    BY <1>28 DEF FastTestTail, FastTestFails, Goto
<1>29. ASSUME NEW t \in Thieves, TryBusy(t) PROVE BusyInv'
    BY <1>29 DEF TryBusy, Goto
<1>30. ASSUME NEW t \in Thieves, TryBusyFails(t) PROVE BusyInv'
    BY <1>30 DEF TryBusyFails, Goto
<1>31. ASSUME NEW t \in Thieves, PeekLocked(t) PROVE BusyInv'
  <2>1. vpc \notin VictimHoldsBusy
    BY <1>31 DEF PeekLocked
  <2>2. \A s \in Thieves : s # t => tpc[s] \notin ThiefHoldsBusy
    BY <1>31, SoleThief DEF PeekLocked
  <2>3. vpc \notin NoClosure /\ vpc \in VictimPc
    BY <1>31 DEF PeekLocked
  <2>4. vpc \in Unlocked
    BY <2>1, <2>3
  <2> QED
    BY <1>31, <2>2, <2>4 DEF PeekLocked, Goto
<1>32. ASSUME NEW t \in Thieves, PeekFails(t) PROVE BusyInv'
    BY <1>32 DEF PeekFails, Goto
<1>33. ASSUME NEW t \in Thieves, SwitchStatus(t) PROVE BusyInv'
    BY <1>33 DEF SwitchStatus, Goto
<1>34. ASSUME NEW t \in Thieves, Dekker(t) PROVE BusyInv'
    BY <1>34 DEF Dekker, DekkerLost, Goto
<1>35. ASSUME NEW t \in Thieves, Promote(t) PROVE BusyInv'
    BY <1>35 DEF Promote, Goto
<1>36. ASSUME NEW t \in Thieves, PublishHead(t) PROVE BusyInv'
    BY <1>36 DEF PublishHead, Resume, Goto
<1>37. ASSUME NEW t \in Thieves, SetChild(t) PROVE BusyInv'
    BY <1>37 DEF SetChild, Goto
<1>38. ASSUME NEW t \in Thieves, GiveUp(t) PROVE BusyInv'
    BY <1>38 DEF GiveUp, Goto
<1>39. ASSUME NEW t \in Thieves, UnlockBusy(t) PROVE BusyInv'
    BY <1>39 DEF UnlockBusy, Goto
<1>40. CASE UNCHANGED vars
    BY <1>40 DEF vars
<1>41. ASSUME NEW t \in Thieves, Undo(t) PROVE BusyInv'
    BY <1>41 DEF Undo, Goto
<1>42. CASE ReductionsDone
    BY <1>42 DEF ReductionsDone, EnterSynced, AtTopOfStack
<1>43. CASE ReductionsLockBusy
    BY <1>43 DEF ReductionsLockBusy, LockSelf
<1>44. CASE ReductionsReturn
    BY <1>44 DEF ReductionsReturn
<1>45. CASE ExitRegion
    BY <1>45 DEF ExitRegion, EnterSynced, AtTopOfStack
<1>46. CASE ExitLockBusy
    BY <1>46 DEF ExitLockBusy, LockSelf
<1>47. CASE ExitClear
    BY <1>47 DEF ExitClear, ClearBusy
<1>48. CASE LeaveScheduler
    BY <1>48 DEF LeaveScheduler
<1>49. CASE StartRegion
    BY <1>49 DEF StartRegion, RootStatus
<1>50. CASE SetupRoot
    BY <1>50 DEF SetupRoot, RootStatus
<1> QED
    BY <1>1, <1>2, <1>3, <1>4, <1>5, <1>6, <1>7, <1>8, <1>9, <1>10, <1>11,
       <1>12, <1>13, <1>14, <1>15, <1>16, <1>17, <1>18, <1>19, <1>20, <1>21,
       <1>22, <1>23, <1>24, <1>25, <1>26, <1>27, <1>28, <1>29, <1>30, <1>31,
       <1>32, <1>33, <1>34, <1>35, <1>36, <1>37, <1>38, <1>39, <1>40,
       <1>41, <1>42, <1>43, <1>44, <1>45, <1>46, <1>47, <1>48, <1>49,
       <1>50
    DEF Next, VictimNext, ThiefNext

(* Every step keeps head, tail and exc in the relation Dekker's argument needs. *)
LEMMA PointerStep == IndInv /\ [Next]_vars => PointerInv'
<1> SUFFICES ASSUME IndInv, [Next]_vars PROVE PointerInv'
    OBVIOUS
<1> USE ActorsAssumption, BoundsAssumption
    DEF IndInv, TypeOK, LockInv, BusyInv, PointerInv, Actors, Index, Winning,
        Popping, vars, ptrs, locks, work, ThiefHoldsBusy, ThiefHoldsClosure,
        ThiefHasClosure, VictimHoldsBusy, VictimHoldsClosure, NoClosure, Waiting, Unlocked, Synced, AtTop, ExcRaised
<1>1. CASE DetachStore
    BY <1>1 DEF DetachStore
<1>2. CASE DetachPublish
    BY <1>2 DEF DetachPublish
<1>3. CASE LeaveTail
    BY <1>3 DEF LeaveTail
<1>4. CASE LeaveExc
    BY <1>4 DEF LeaveExc, PopContested, Resume
<1>5. CASE HandlerLockBusy
    BY <1>5 DEF HandlerLockBusy, LockSelf
<1>6. CASE HandlerLockClosure
    BY <1>6 DEF HandlerLockClosure, LockClosure
<1>7. CASE HandlerVerdict
    BY <1>7 DEF HandlerVerdict, StealVerdict, Resume
<1>8. CASE HandlerFalseAlarm
    BY <1>8 DEF HandlerFalseAlarm, UnlockSelf
<1>9. CASE ExtractReturning
    BY <1>9 DEF ExtractReturning
<1>10. CASE SetupHead
    BY <1>10 DEF SetupHead
<1>11. CASE SetupExc
    BY <1>11 DEF SetupExc
<1>12. CASE SetupTail
    BY <1>12 DEF SetupTail
<1>13. CASE InstallLock
    BY <1>13 DEF InstallLock, LockSelf
<1>14. CASE Install
    BY <1>14 DEF Install
<1>15. CASE SyncEnter
    BY <1>15 DEF SyncEnter, AtTopOfStack
<1>16. CASE SyncLockBusy
    BY <1>16 DEF SyncLockBusy, LockSelf
<1>17. CASE SyncLockClosure
    BY <1>17 DEF SyncLockClosure, LockClosure
<1>18. CASE Sync
    BY <1>18 DEF Sync, Suspend
<1>19. CASE SetReturnEnter
    BY <1>19 DEF SetReturnEnter, EnterSynced, AtTopOfStack
<1>20. CASE SetReturnLockBusy
    BY <1>20 DEF SetReturnLockBusy, LockSelf
<1>21. CASE SetReturnLockClosure
    BY <1>21 DEF SetReturnLockClosure, LockClosure
<1>22. CASE SetReturnSwap
    BY <1>22 DEF SetReturnSwap
<1>23. CASE SetReturnResume
    BY <1>23 DEF SetReturnResume
<1>24. CASE SetReturnUnlock
    BY <1>24 DEF SetReturnUnlock, UnlockSelf
<1>25. CASE ReturnLock
    BY <1>25 DEF ReturnLock
<1>26. CASE ReturnUnlock
    BY <1>26 DEF ReturnUnlock
<1>27. ASSUME NEW t \in Thieves, FastTestHead(t) PROVE PointerInv'
    BY <1>27 DEF FastTestHead, Goto
<1>28. ASSUME NEW t \in Thieves, FastTestTail(t) PROVE PointerInv'
    BY <1>28 DEF FastTestTail, FastTestFails, Goto
<1>29. ASSUME NEW t \in Thieves, TryBusy(t) PROVE PointerInv'
    BY <1>29 DEF TryBusy, Goto
<1>30. ASSUME NEW t \in Thieves, TryBusyFails(t) PROVE PointerInv'
    BY <1>30 DEF TryBusyFails, Goto
<1>31. ASSUME NEW t \in Thieves, PeekLocked(t) PROVE PointerInv'
    BY <1>31 DEF PeekLocked, Goto
<1>32. ASSUME NEW t \in Thieves, PeekFails(t) PROVE PointerInv'
    BY <1>32 DEF PeekFails, Goto
<1>33. ASSUME NEW t \in Thieves, SwitchStatus(t) PROVE PointerInv'
    BY <1>33 DEF SwitchStatus, Goto
<1>34. ASSUME NEW t \in Thieves, Dekker(t) PROVE PointerInv'
  <2>1. exc = head + 1 /\ vpc \notin {"set_exc", "set_tail"}
    BY <1>34, ExcOfThief DEF Dekker
  <2>2. \A s \in Thieves : s # t => tpc[s] \notin ThiefHoldsBusy
    BY <1>34, SoleThief DEF Dekker
  <2>3. CASE DekkerLost
    <3>1. exc' = head' + 1 /\ tpc'[t] = "undo"
        BY <1>34, <2>1, <2>3 DEF Dekker, Goto
    <3>2. \A s \in Thieves : ~Winning(s)'
        BY <1>34, <2>2, <3>1 DEF Dekker, Goto
    <3> QED
        BY <1>34, <3>1, <3>2 DEF Dekker
  <2>4. CASE ~DekkerLost
    <3>1. exc' = head' + 1 /\ tpc'[t] = "promote" /\ hd'[t] = head /\ head < tail
        BY <1>34, <2>1, <2>4 DEF Dekker, DekkerLost, Goto
    <3>2. \A s \in Thieves : s # t => ~Winning(s)'
        BY <1>34, <2>2, <2>4 DEF Dekker, Goto
    <3> QED
        BY <1>34, <2>4, <3>1, <3>2 DEF Dekker
  <2> QED
    BY <2>3, <2>4
<1>35. ASSUME NEW t \in Thieves, Promote(t) PROVE PointerInv'
    BY <1>35 DEF Promote, Goto
<1>36. ASSUME NEW t \in Thieves, PublishHead(t) PROVE PointerInv'
  <2>1. /\ exc = head + 1 /\ hd[t] = head
        /\ head < tail \/ (head = tail /\ vpc \in {"left", "h_busy"})
        /\ vpc \in Unlocked
    BY <1>36, ExcOfThief DEF PublishHead
  <2>2. \A s \in Thieves : s # t => tpc[s] \notin ThiefHoldsBusy
    BY <1>36, SoleThief DEF PublishHead
  <2>3. \A s \in Thieves : tpc'[s] \notin ExcRaised
    BY <1>36, <2>2 DEF PublishHead, Goto
  <2> QED
    BY <1>36, <2>1, <2>3 DEF PublishHead
<1>37. ASSUME NEW t \in Thieves, SetChild(t) PROVE PointerInv'
    BY <1>37 DEF SetChild, Goto
<1>38. ASSUME NEW t \in Thieves, GiveUp(t) PROVE PointerInv'
    BY <1>38 DEF GiveUp, Goto
<1>39. ASSUME NEW t \in Thieves, UnlockBusy(t) PROVE PointerInv'
    BY <1>39 DEF UnlockBusy, Goto
<1>40. CASE UNCHANGED vars
    BY <1>40 DEF vars
<1>41. ASSUME NEW t \in Thieves, Undo(t) PROVE PointerInv'
  <2>1. exc' = head'
    BY <1>41, ExcOfThief DEF Undo, Decremented
  <2>2. \A s \in Thieves : tpc'[s] \notin ExcRaised
    BY <1>41, SoleThief DEF Undo, Goto
  <2> QED
    BY <1>41, <2>1, <2>2 DEF Undo, Goto
<1>42. CASE ReductionsDone
    BY <1>42 DEF ReductionsDone, EnterSynced, AtTopOfStack
<1>43. CASE ReductionsLockBusy
    BY <1>43 DEF ReductionsLockBusy, LockSelf
<1>44. CASE ReductionsReturn
    BY <1>44 DEF ReductionsReturn
<1>45. CASE ExitRegion
    BY <1>45 DEF ExitRegion, EnterSynced, AtTopOfStack
<1>46. CASE ExitLockBusy
    BY <1>46 DEF ExitLockBusy, LockSelf
<1>47. CASE ExitClear
    BY <1>47 DEF ExitClear, ClearBusy
<1>48. CASE LeaveScheduler
    BY <1>48 DEF LeaveScheduler
<1>49. CASE StartRegion
    BY <1>49 DEF StartRegion, RootStatus
<1>50. CASE SetupRoot
    BY <1>50 DEF SetupRoot, RootStatus
<1> QED
    BY <1>1, <1>2, <1>3, <1>4, <1>5, <1>6, <1>7, <1>8, <1>9, <1>10, <1>11,
       <1>12, <1>13, <1>14, <1>15, <1>16, <1>17, <1>18, <1>19, <1>20, <1>21,
       <1>22, <1>23, <1>24, <1>25, <1>26, <1>27, <1>28, <1>29, <1>30, <1>31,
       <1>32, <1>33, <1>34, <1>35, <1>36, <1>37, <1>38, <1>39, <1>40,
       <1>41, <1>42, <1>43, <1>44, <1>45, <1>46, <1>47, <1>48, <1>49,
       <1>50
    DEF Next, VictimNext, ThiefNext

(* Every step keeps each continuation resumed once or live once. *)
LEMMA ContStep == IndInv /\ [Next]_vars => ContInv'
<1> SUFFICES ASSUME IndInv, [Next]_vars PROVE ContInv'
    OBVIOUS
<1> USE ActorsAssumption, BoundsAssumption
    DEF IndInv, TypeOK, LockInv, BusyInv, PointerInv, Index, Winning, Popping,
        vars, ptrs, locks, work, ThiefHoldsBusy, ThiefHoldsClosure,
        ThiefHasClosure, VictimHoldsBusy, VictimHoldsClosure, NoClosure, Waiting, Unlocked, Synced, AtTop, ExcRaised
<1>1. CASE DetachStore
  <2>1. Live' = Live /\ \A i \in Live : i \in 0 .. DequeLimit /\ i # tail
    BY <1>1 DEF DetachStore, Live
  <2>2. \A i \in Live : shadow'[i] = shadow[i]
    BY <1>1, <2>1 DEF DetachStore
  <2>3. /\ spawned' = spawned /\ resumed' = resumed
        /\ shadow'[tail'] = spawned + 1
    BY <1>1 DEF DetachStore
  <2> QED
    BY <2>1, <2>2, <2>3 DEF ContInv
<1>2. CASE DetachPublish
  <2>1. Live' = Live \cup {tail} /\ tail \notin Live
    BY <1>2 DEF DetachPublish, Live
  <2>2. /\ shadow' = shadow /\ resumed' = resumed /\ spawned' = spawned + 1
        /\ vpc' = "user"
    BY <1>2 DEF DetachPublish
  <2>3. shadow[tail] = spawned' /\ spawned' \in Conts /\ resumed[spawned'] = 0
    BY <1>2, <2>2 DEF DetachPublish, Conts, ContInv
  <2>4. \A i \in Live' : shadow'[i] \in 1 .. spawned' /\ resumed'[shadow'[i]] = 0
    BY <2>1, <2>2, <2>3 DEF ContInv
  <2>5. \A i, j \in Live' : shadow'[i] = shadow'[j] => i = j
    BY <2>1, <2>2, <2>3 DEF ContInv
  <2>6. \A c \in 1 .. spawned' :
           resumed'[c] = 1 \/ \E i \in Live' : shadow'[i] = c
    BY <2>1, <2>2, <2>3 DEF ContInv
  <2> QED
    BY <2>2, <2>4, <2>5, <2>6 DEF ContInv, Conts
<1>3. CASE LeaveTail
  <2>1. Live' = Live /\ UNCHANGED work /\ (vpc' = "push" => vpc = "push" /\ tail' = tail)
    BY <1>3 DEF LeaveTail, Live
  <2> QED
    BY <2>1, ContKept
<1>4. CASE LeaveExc
  <2>1. CASE PopContested
    <3>1. Live' = Live /\ UNCHANGED work /\ vpc' # "push"
        BY <1>4, <2>1 DEF LeaveExc, PopContested, Live
    <3> QED
        BY <3>1, ContKept
  <2>2. CASE ~PopContested
    <3>1. tail \in Live
        BY <1>4, <2>2, ContestedIsLive DEF LeaveExc, PopContested
    <3>2. Live' = Live \ {tail}
        BY <1>4, <2>2 DEF LeaveExc, PopContested, Live
    <3>3. Resume(shadow[tail]) /\ UNCHANGED <<shadow, spawned>> /\ vpc' # "push"
        BY <1>4, <2>2 DEF LeaveExc, PopContested
    <3> QED
        BY <3>1, <3>2, <3>3, ContTaken
  <2> QED
    BY <2>1, <2>2
<1>5. CASE HandlerLockBusy
  <2>1. Live' = Live /\ UNCHANGED work /\ (vpc' = "push" => vpc = "push" /\ tail' = tail)
    BY <1>5 DEF HandlerLockBusy, LockSelf, Live
  <2> QED
    BY <2>1, ContKept
<1>6. CASE HandlerLockClosure
  <2>1. Live' = Live /\ UNCHANGED work /\ (vpc' = "push" => vpc = "push" /\ tail' = tail)
    BY <1>6 DEF HandlerLockClosure, LockClosure, Live
  <2> QED
    BY <2>1, ContKept
<1>7. CASE HandlerVerdict
  <2>1. CASE StealVerdict
    <3>1. Live' = Live /\ UNCHANGED work /\ vpc' # "push"
        BY <1>7, <2>1 DEF HandlerVerdict, StealVerdict, Live
    <3> QED
        BY <3>1, ContKept
  <2>2. CASE ~StealVerdict
    <3>1. tail \in Live
        BY <1>7, <2>2, ContestedIsLive DEF HandlerVerdict, StealVerdict
    <3>2. Live' = Live \ {tail}
        BY <1>7, <2>2 DEF HandlerVerdict, StealVerdict, Live
    <3>3. Resume(shadow[tail]) /\ UNCHANGED <<shadow, spawned>> /\ vpc' # "push"
        BY <1>7, <2>2 DEF HandlerVerdict, StealVerdict
    <3> QED
        BY <3>1, <3>2, <3>3, ContTaken
  <2> QED
    BY <2>1, <2>2
<1>8. CASE HandlerFalseAlarm
  <2>1. Live' = Live /\ UNCHANGED work /\ (vpc' = "push" => vpc = "push" /\ tail' = tail)
    BY <1>8 DEF HandlerFalseAlarm, UnlockSelf, Live
  <2> QED
    BY <2>1, ContKept
<1>9. CASE ExtractReturning
  <2>1. Live' = Live /\ UNCHANGED work /\ (vpc' = "push" => vpc = "push" /\ tail' = tail)
    BY <1>9 DEF ExtractReturning, Live
  <2> QED
    BY <2>1, ContKept
<1>10. CASE SetupHead
  <2>1. Live' = Live /\ UNCHANGED work /\ (vpc' = "push" => vpc = "push" /\ tail' = tail)
    BY <1>10 DEF SetupHead, Live
  <2> QED
    BY <2>1, ContKept
<1>11. CASE SetupExc
  <2>1. Live' = Live /\ UNCHANGED work /\ (vpc' = "push" => vpc = "push" /\ tail' = tail)
    BY <1>11 DEF SetupExc, Live
  <2> QED
    BY <2>1, ContKept
<1>12. CASE SetupTail
  <2>1. Live' = Live /\ UNCHANGED work /\ (vpc' = "push" => vpc = "push" /\ tail' = tail)
    BY <1>12 DEF SetupTail, Live
  <2> QED
    BY <2>1, ContKept
<1>13. CASE InstallLock
  <2>1. Live' = Live /\ UNCHANGED work /\ (vpc' = "push" => vpc = "push" /\ tail' = tail)
    BY <1>13 DEF InstallLock, LockSelf, Live
  <2> QED
    BY <2>1, ContKept
<1>14. CASE Install
  <2>1. Live' = Live /\ UNCHANGED work /\ (vpc' = "push" => vpc = "push" /\ tail' = tail)
    BY <1>14 DEF Install, Live
  <2> QED
    BY <2>1, ContKept
<1>15. CASE SyncEnter
  <2>1. Live' = Live /\ UNCHANGED work /\ (vpc' = "push" => vpc = "push" /\ tail' = tail)
    BY <1>15 DEF SyncEnter, AtTopOfStack, Live
  <2> QED
    BY <2>1, ContKept
<1>16. CASE SyncLockBusy
  <2>1. Live' = Live /\ UNCHANGED work /\ (vpc' = "push" => vpc = "push" /\ tail' = tail)
    BY <1>16 DEF SyncLockBusy, LockSelf, Live
  <2> QED
    BY <2>1, ContKept
<1>17. CASE SyncLockClosure
  <2>1. Live' = Live /\ UNCHANGED work /\ (vpc' = "push" => vpc = "push" /\ tail' = tail)
    BY <1>17 DEF SyncLockClosure, LockClosure, Live
  <2> QED
    BY <2>1, ContKept
<1>18. CASE Sync
  <2>1. Live' = Live /\ UNCHANGED work /\ (vpc' = "push" => vpc = "push" /\ tail' = tail)
    BY <1>18 DEF Sync, Suspend, Live
  <2> QED
    BY <2>1, ContKept
<1>19. CASE SetReturnEnter
  <2>1. Live' = Live /\ UNCHANGED work /\ (vpc' = "push" => vpc = "push" /\ tail' = tail)
    BY <1>19 DEF SetReturnEnter, EnterSynced, AtTopOfStack, Live
  <2> QED
    BY <2>1, ContKept
<1>20. CASE SetReturnLockBusy
  <2>1. Live' = Live /\ UNCHANGED work /\ (vpc' = "push" => vpc = "push" /\ tail' = tail)
    BY <1>20 DEF SetReturnLockBusy, LockSelf, Live
  <2> QED
    BY <2>1, ContKept
<1>21. CASE SetReturnLockClosure
  <2>1. Live' = Live /\ UNCHANGED work /\ (vpc' = "push" => vpc = "push" /\ tail' = tail)
    BY <1>21 DEF SetReturnLockClosure, LockClosure, Live
  <2> QED
    BY <2>1, ContKept
<1>22. CASE SetReturnSwap
  <2>1. Live' = Live /\ UNCHANGED work /\ (vpc' = "push" => vpc = "push" /\ tail' = tail)
    BY <1>22 DEF SetReturnSwap, Live
  <2> QED
    BY <2>1, ContKept
<1>23. CASE SetReturnResume
  <2>1. Live' = Live /\ UNCHANGED work /\ (vpc' = "push" => vpc = "push" /\ tail' = tail)
    BY <1>23 DEF SetReturnResume, Live
  <2> QED
    BY <2>1, ContKept
<1>24. CASE SetReturnUnlock
  <2>1. Live' = Live /\ UNCHANGED work /\ (vpc' = "push" => vpc = "push" /\ tail' = tail)
    BY <1>24 DEF SetReturnUnlock, UnlockSelf, Live
  <2> QED
    BY <2>1, ContKept
<1>25. CASE ReturnLock
  <2>1. Live' = Live /\ UNCHANGED work /\ (vpc' = "push" => vpc = "push" /\ tail' = tail)
    BY <1>25 DEF ReturnLock, Live
  <2> QED
    BY <2>1, ContKept
<1>26. CASE ReturnUnlock
  <2>1. Live' = Live /\ UNCHANGED work /\ (vpc' = "push" => vpc = "push" /\ tail' = tail)
    BY <1>26 DEF ReturnUnlock, Live
  <2> QED
    BY <2>1, ContKept
<1>27. ASSUME NEW t \in Thieves, FastTestHead(t) PROVE ContInv'
  <2>1. Live' = Live /\ UNCHANGED work /\ (vpc' = "push" => vpc = "push" /\ tail' = tail)
    BY <1>27 DEF FastTestHead, Goto, Live
  <2> QED
    BY <2>1, ContKept
<1>28. ASSUME NEW t \in Thieves, FastTestTail(t) PROVE ContInv'
  <2>1. Live' = Live /\ UNCHANGED work /\ (vpc' = "push" => vpc = "push" /\ tail' = tail)
    BY <1>28 DEF FastTestTail, FastTestFails, Goto, Live
  <2> QED
    BY <2>1, ContKept
<1>29. ASSUME NEW t \in Thieves, TryBusy(t) PROVE ContInv'
  <2>1. Live' = Live /\ UNCHANGED work /\ (vpc' = "push" => vpc = "push" /\ tail' = tail)
    BY <1>29 DEF TryBusy, Goto, Live
  <2> QED
    BY <2>1, ContKept
<1>30. ASSUME NEW t \in Thieves, TryBusyFails(t) PROVE ContInv'
  <2>1. Live' = Live /\ UNCHANGED work /\ (vpc' = "push" => vpc = "push" /\ tail' = tail)
    BY <1>30 DEF TryBusyFails, Goto, Live
  <2> QED
    BY <2>1, ContKept
<1>31. ASSUME NEW t \in Thieves, PeekLocked(t) PROVE ContInv'
  <2>1. Live' = Live /\ UNCHANGED work /\ (vpc' = "push" => vpc = "push" /\ tail' = tail)
    BY <1>31 DEF PeekLocked, Goto, Live
  <2> QED
    BY <2>1, ContKept
<1>32. ASSUME NEW t \in Thieves, PeekFails(t) PROVE ContInv'
  <2>1. Live' = Live /\ UNCHANGED work /\ (vpc' = "push" => vpc = "push" /\ tail' = tail)
    BY <1>32 DEF PeekFails, Goto, Live
  <2> QED
    BY <2>1, ContKept
<1>33. ASSUME NEW t \in Thieves, SwitchStatus(t) PROVE ContInv'
  <2>1. Live' = Live /\ UNCHANGED work /\ (vpc' = "push" => vpc = "push" /\ tail' = tail)
    BY <1>33 DEF SwitchStatus, Goto, Live
  <2> QED
    BY <2>1, ContKept
<1>34. ASSUME NEW t \in Thieves, Dekker(t) PROVE ContInv'
  <2>1. Live' = Live /\ UNCHANGED work /\ (vpc' = "push" => vpc = "push" /\ tail' = tail)
    BY <1>34 DEF Dekker, DekkerLost, Goto, Live
  <2> QED
    BY <2>1, ContKept
<1>35. ASSUME NEW t \in Thieves, Promote(t) PROVE ContInv'
  <2>1. Live' = Live /\ UNCHANGED work /\ (vpc' = "push" => vpc = "push" /\ tail' = tail)
    BY <1>35 DEF Promote, Goto, Live
  <2> QED
    BY <2>1, ContKept
<1>36. ASSUME NEW t \in Thieves, PublishHead(t) PROVE ContInv'
  <2>1. hd[t] = head /\ head \in Live
    BY <1>36, ContestedIsLive DEF PublishHead, Winning
  <2>2. Live' = Live \ {head}
    BY <1>36, <2>1 DEF PublishHead, Live
  <2>3. /\ Resume(shadow[head])
        /\ UNCHANGED <<shadow, spawned>> /\ vpc' = vpc /\ tail' = tail
    BY <1>36, <2>1 DEF PublishHead
  <2> QED
    BY <2>1, <2>2, <2>3, ContTaken
<1>37. ASSUME NEW t \in Thieves, SetChild(t) PROVE ContInv'
  <2>1. Live' = Live /\ UNCHANGED work /\ (vpc' = "push" => vpc = "push" /\ tail' = tail)
    BY <1>37 DEF SetChild, Goto, Live
  <2> QED
    BY <2>1, ContKept
<1>38. ASSUME NEW t \in Thieves, GiveUp(t) PROVE ContInv'
  <2>1. Live' = Live /\ UNCHANGED work /\ (vpc' = "push" => vpc = "push" /\ tail' = tail)
    BY <1>38 DEF GiveUp, Goto, Live
  <2> QED
    BY <2>1, ContKept
<1>39. ASSUME NEW t \in Thieves, UnlockBusy(t) PROVE ContInv'
  <2>1. Live' = Live /\ UNCHANGED work /\ (vpc' = "push" => vpc = "push" /\ tail' = tail)
    BY <1>39 DEF UnlockBusy, Goto, Live
  <2> QED
    BY <2>1, ContKept
<1>40. CASE UNCHANGED vars
  <2>1. Live' = Live /\ UNCHANGED work /\ vpc' = vpc /\ tail' = tail
    BY <1>40 DEF vars, Live
  <2> QED
    BY <2>1, ContKept
<1>41. ASSUME NEW t \in Thieves, Undo(t) PROVE ContInv'
  <2>1. Live' = Live /\ UNCHANGED work /\ (vpc' = "push" => vpc = "push" /\ tail' = tail)
    BY <1>41 DEF Undo, Goto, Live
  <2> QED
    BY <2>1, ContKept
<1>42. CASE ReductionsDone
  <2>1. Live' = Live /\ UNCHANGED work /\ (vpc' = "push" => vpc = "push" /\ tail' = tail)
    BY <1>42 DEF ReductionsDone, EnterSynced, AtTopOfStack, Live
  <2> QED
    BY <2>1, ContKept
<1>43. CASE ReductionsLockBusy
  <2>1. Live' = Live /\ UNCHANGED work /\ (vpc' = "push" => vpc = "push" /\ tail' = tail)
    BY <1>43 DEF ReductionsLockBusy, LockSelf, Live
  <2> QED
    BY <2>1, ContKept
<1>44. CASE ReductionsReturn
  <2>1. Live' = Live /\ UNCHANGED work /\ (vpc' = "push" => vpc = "push" /\ tail' = tail)
    BY <1>44 DEF ReductionsReturn, Live
  <2> QED
    BY <2>1, ContKept
<1>45. CASE ExitRegion
  <2>1. Live' = Live /\ UNCHANGED work /\ (vpc' = "push" => vpc = "push" /\ tail' = tail)
    BY <1>45 DEF ExitRegion, EnterSynced, AtTopOfStack, Live
  <2> QED
    BY <2>1, ContKept
<1>46. CASE ExitLockBusy
  <2>1. Live' = Live /\ UNCHANGED work /\ (vpc' = "push" => vpc = "push" /\ tail' = tail)
    BY <1>46 DEF ExitLockBusy, LockSelf, Live
  <2> QED
    BY <2>1, ContKept
<1>47. CASE ExitClear
  <2>1. Live' = Live /\ UNCHANGED work /\ (vpc' = "push" => vpc = "push" /\ tail' = tail)
    BY <1>47 DEF ExitClear, ClearBusy, Live
  <2> QED
    BY <2>1, ContKept
<1>48. CASE LeaveScheduler
  <2>1. Live' = Live /\ UNCHANGED work /\ (vpc' = "push" => vpc = "push" /\ tail' = tail)
    BY <1>48 DEF LeaveScheduler, Live
  <2> QED
    BY <2>1, ContKept
<1>49. CASE StartRegion
  <2>1. Live' = Live /\ UNCHANGED work /\ (vpc' = "push" => vpc = "push" /\ tail' = tail)
    BY <1>49 DEF StartRegion, RootStatus, Live
  <2> QED
    BY <2>1, ContKept
<1>50. CASE SetupRoot
  <2>1. Live' = Live /\ UNCHANGED work /\ (vpc' = "push" => vpc = "push" /\ tail' = tail)
    BY <1>50 DEF SetupRoot, RootStatus, Live
  <2> QED
    BY <2>1, ContKept
<1> QED
    BY <1>1, <1>2, <1>3, <1>4, <1>5, <1>6, <1>7, <1>8, <1>9, <1>10, <1>11,
       <1>12, <1>13, <1>14, <1>15, <1>16, <1>17, <1>18, <1>19, <1>20, <1>21,
       <1>22, <1>23, <1>24, <1>25, <1>26, <1>27, <1>28, <1>29, <1>30, <1>31,
       <1>32, <1>33, <1>34, <1>35, <1>36, <1>37, <1>38, <1>39, <1>40,
       <1>41, <1>42, <1>43, <1>44, <1>45, <1>46, <1>47, <1>48, <1>49,
       <1>50
    DEF Next, VictimNext, ThiefNext

(* IndInv is an invariant of the specification. *)
THEOREM IndInvInvariant == Spec => []IndInv
<1>1. Init => IndInv
    BY ActorsAssumption, BoundsAssumption
    DEF Init, IndInv, TypeOK, LockInv, BusyInv, PointerInv, ContInv, Live,
        Actors, Conts, Index, VictimPc, ThiefPc, Winning, Popping,
        ThiefHoldsBusy, ThiefHoldsClosure, ThiefHasClosure, VictimHoldsBusy,
        VictimHoldsClosure, NoClosure, Waiting, Unlocked, Synced, AtTop, ExcRaised
<1>2. IndInv /\ [Next]_vars => IndInv'
    BY TypeStep, LockStep, BusyStep, PointerStep, ContStep DEF IndInv
<1> QED
    BY <1>1, <1>2, PTL DEF Spec

(* The deque's state keeps its types, whatever the bounds. *)
THEOREM TypeCorrect == Spec => []TypeOK
<1>1. IndInv => TypeOK
    BY DEF IndInv
<1> QED
    BY <1>1, IndInvInvariant, PTL

(* Mutual exclusion of the THE protocol: the victim and the thieves never  *)
(* resume the same continuation, for any number of thieves.                *)
THEOREM NoDoubleResume == Spec => []ResumedOnce
<1>1. IndInv => ResumedOnce
    BY DEF IndInv, ContInv, ResumedOnce
<1> QED
    BY <1>1, IndInvInvariant, PTL

(* Every spawned continuation is resumed or still there to be resumed.     *)
THEOREM NoContinuationLost == Spec => []NoneLost
<1>1. ASSUME IndInv PROVE NoneLost
  <2> USE BoundsAssumption
  <2> SUFFICES ASSUME NEW c \in 1 .. spawned, resumed[c] = 0
               PROVE  \/ \E i \in First .. Last : shadow[i] = c
                      \/ \E t \in Thieves : Winning(t) /\ shadow[hd[t]] = c
    BY <1>1 DEF NoneLost, IndInv, TypeOK, Conts
  <2>1. PICK k \in Live : shadow[k] = c
    BY <1>1 DEF IndInv, ContInv
  <2>2. k \in head .. tail /\ (k = tail => Popping) /\ ~Resetting
    BY <1>1, <2>1 DEF IndInv, TypeOK, Live, Popping, Resetting, NoClosure, Index
  <2>3. head \in Int /\ tail \in Int
    BY <1>1 DEF IndInv, TypeOK, Index
  <2>4. Last = IF Popping /\ tail >= First THEN tail ELSE tail - 1
    BY <2>2 DEF Last
  <2>5. CASE \E t \in Thieves : Winning(t)
    <3>1. PICK t \in Thieves : Winning(t)
        BY <2>5
    <3>2. CASE k = head
        BY <1>1, <2>1, <3>1, <3>2, ContestedIsLive
    <3>3. CASE k # head
        <4>1. First = head + 1
            BY <2>5 DEF First
        <4>2. k \in First .. Last
            BY <2>2, <2>3, <2>4, <3>3, <4>1
        <4> QED
            BY <2>1, <4>2
    <3> QED
        BY <3>2, <3>3
  <2>6. CASE ~ \E t \in Thieves : Winning(t)
    <3>1. First = head
        BY <2>6 DEF First
    <3>2. k \in First .. Last
        BY <2>2, <2>3, <2>4, <3>1
    <3> QED
        BY <2>1, <3>2
  <2> QED
    BY <2>5, <2>6
<1> QED
    BY <1>1, IndInvInvariant, PTL

(* A thief never meets a suspended or ready closure in busy[victim], the   *)
(* case in which Closure_steal would leave both locks held, through any    *)
(* number of regions ended and started.                                    *)
THEOREM NoStrangeStatus == Spec => []ThiefFindsRunning
<1>1. IndInv => ThiefFindsRunning
    BY ActorsAssumption
    DEF IndInv, TypeOK, LockInv, BusyInv, ThiefFindsRunning, ThiefHoldsBusy,
        ThiefHoldsClosure, ThiefHasClosure, VictimHoldsBusy, NoClosure, Unlocked
<1> QED
    BY <1>1, IndInvInvariant, PTL

(* A steal attempt that fails leaves no trace in exc, for any number of    *)
(* thieves.                                                                *)
THEOREM ExcRestored == Spec => []ExcTracksHead
<1>1. IndInv => ExcTracksHead
    BY DEF IndInv, PointerInv, ExcTracksHead
<1> QED
    BY <1>1, IndInvInvariant, PTL

-----------------------------------------------------------------------------
(***************************************************************************)
(* TheDeque implements DequeSpec.  The queue that a state stands for is a  *)
(* segment of the shadow stack; every step is put into one of four kinds   *)
(* by what it does to the ends of the segment, and each kind is a step of  *)
(* DequeSpec.                                                              *)
(***************************************************************************)

(* The entries a .. b of the shadow stack, as a sequence.                  *)
Segment(s, a, b) == [i \in 1 .. (b - a + 1) |-> s[a + i - 1]]

(* What there is to know of a segment as a sequence.                       *)
IsSegment(q, S, s, a, b) ==
    /\ q \in Seq(S)
    /\ Len(q) = IF a <= b THEN b - a + 1 ELSE 0
    /\ \A i \in 1 .. (b - a + 1) : q[i] = s[a + i - 1]

(* A segment is a sequence.                                                *)
LEMMA SegmentSeq ==
    ASSUME NEW S, NEW s, NEW a \in Int, NEW b \in Int, \A k \in a .. b : s[k] \in S
    PROVE  IsSegment(Segment(s, a, b), S, s, a, b)
<1> USE DEF IsSegment
<1> DEFINE n == IF a <= b THEN b - a + 1 ELSE 0
<1>1. n \in Nat /\ 1 .. (b - a + 1) = 1 .. n
  OBVIOUS
<1>2. \A i \in 1 .. n : Segment(s, a, b)[i] = s[a + i - 1] /\ s[a + i - 1] \in S
  BY <1>1 DEF Segment
<1>3. Segment(s, a, b) = [i \in 1 .. n |-> s[a + i - 1]]
  BY <1>1 DEF Segment
<1>4. Segment(s, a, b) \in [1 .. n -> S]
  BY <1>2, <1>3
<1>5. Segment(s, a, b) \in Seq(S) /\ Len(Segment(s, a, b)) = n
  <2> HIDE DEF n
  <2> QED
    BY <1>1, <1>4
<1> QED
  BY <1>1, <1>2, <1>5

(* It is empty if its ends have passed each other, by however much.        *)
LEMMA SegmentEmpty ==
    ASSUME NEW s, NEW a \in Int, NEW b \in Int, b < a
    PROVE  Segment(s, a, b) = << >>
<1>1. \A k \in a .. b : s[k] \in {}
  OBVIOUS
<1>2. IsSegment(Segment(s, a, b), {}, s, a, b)
  BY <1>1, SegmentSeq, Zenon
<1> QED
  BY <1>2, EmptySeq DEF IsSegment

(* Segments with the same ends and entries, or that are both empty, are    *)
(* the same sequence.                                                      *)
LEMMA SegmentSame ==
    ASSUME NEW s, NEW r, NEW a \in Int, NEW b \in Int, NEW c \in Int, NEW d \in Int,
           \/ b < a /\ d < c
           \/ a = c /\ b = d /\ \A k \in a .. b : s[k] = r[k]
    PROVE  Segment(s, a, b) = Segment(r, c, d)
<1>1. CASE b < a /\ d < c
  BY <1>1, SegmentEmpty
<1>2. CASE a = c /\ b = d /\ \A k \in a .. b : s[k] = r[k]
  <2>1. \A i \in 1 .. (b - a + 1) : s[a + i - 1] = r[a + i - 1]
    BY <1>2
  <2> QED
    BY <1>2, <2>1 DEF Segment
<1> QED
  BY <1>1, <1>2

(* What is left of a segment without its youngest and without its oldest   *)
(* entry.                                                                  *)
SegmentSplits(s, a, b) ==
    LET q == Segment(s, a, b)
    IN /\ q # << >>
       /\ q = Append(Segment(s, a, b - 1), s[b])
       /\ Segment(s, a, b - 1) = SubSeq(q, 1, Len(q) - 1)
       /\ Segment(s, a + 1, b) = Tail(q)

(* A segment that is not empty can be taken apart at both ends.            *)
LEMMA SegmentSteps ==
    ASSUME NEW S, NEW s, NEW a \in Int, NEW b \in Int, a <= b, \A k \in a .. b : s[k] \in S
    PROVE  SegmentSplits(s, a, b)
<1> DEFINE q == Segment(s, a, b)
           y == Segment(s, a, b - 1)
           o == Segment(s, a + 1, b)
<1>1. /\ q \in Seq(S) /\ Len(q) = b - a + 1
      /\ \A i \in 1 .. (b - a + 1) : q[i] = s[a + i - 1]
  <2>1. IsSegment(q, S, s, a, b)
    BY SegmentSeq, Zenon
  <2> QED
    BY <2>1 DEF IsSegment
<1>2. /\ y \in Seq(S) /\ Len(y) = b - a
      /\ \A i \in 1 .. (b - a) : y[i] = s[a + i - 1]
  <2>1. b - 1 \in Int /\ \A k \in a .. (b - 1) : s[k] \in S
    OBVIOUS
  <2>2. IsSegment(y, S, s, a, b - 1)
    BY <2>1, SegmentSeq, Zenon
  <2> QED
    BY <2>2 DEF IsSegment
<1>3. /\ o \in Seq(S) /\ Len(o) = b - a
      /\ \A i \in 1 .. (b - a) : o[i] = s[(a + 1) + i - 1]
  <2>1. a + 1 \in Int /\ \A k \in (a + 1) .. b : s[k] \in S
    OBVIOUS
  <2>2. IsSegment(o, S, s, a + 1, b)
    BY <2>1, SegmentSeq, Zenon
  <2> QED
    BY <2>2 DEF IsSegment
<1> HIDE DEF q, y, o
<1>4. q # << >>
  BY <1>1, EmptySeq
<1>5. q = Append(y, s[b])
  <2>1. s[b] \in S
    OBVIOUS
  <2>2. /\ Append(y, s[b]) \in Seq(S) /\ Len(Append(y, s[b])) = Len(y) + 1
        /\ \A i \in 1 .. Len(y) : Append(y, s[b])[i] = y[i]
        /\ Append(y, s[b])[Len(y) + 1] = s[b]
    BY <1>2, <2>1, AppendProperties
  <2>3. \A i \in 1 .. Len(q) : q[i] = Append(y, s[b])[i]
    <3> SUFFICES ASSUME NEW i \in 1 .. Len(q) PROVE q[i] = Append(y, s[b])[i]
      OBVIOUS
    <3>1. CASE i = Len(y) + 1
      BY <3>1, <1>1, <1>2, <2>2
    <3>2. CASE i \in 1 .. Len(y)
      BY <3>2, <1>1, <1>2, <2>2
    <3> QED
      BY <3>1, <3>2, <1>1, <1>2
  <2>4. Len(q) = Len(Append(y, s[b]))
    BY <1>1, <1>2, <2>2
  <2> QED
    BY <1>1, <2>2, <2>3, <2>4, SeqEqual
<1>6. y = SubSeq(q, 1, Len(q) - 1)
  <2> DEFINE n == Len(q) - 1
  <2>1. n \in Nat /\ n = b - a
    BY <1>1
  <2>2. \A i \in 1 .. n : q[i] \in S
    BY <1>1, ElementOfSeq
  <2> HIDE DEF n
  <2>3. /\ SubSeq(q, 1, n) \in Seq(S)
        /\ Len(SubSeq(q, 1, n)) = IF 1 <= n THEN n - 1 + 1 ELSE 0
        /\ \A i \in 1 .. n - 1 + 1 : SubSeq(q, 1, n)[i] = q[1 + i - 1]
    BY <2>1, <2>2, SubSeqProperties
  <2>4. Len(y) = Len(SubSeq(q, 1, n))
    BY <1>2, <2>1, <2>3
  <2>5. \A i \in 1 .. Len(y) : y[i] = SubSeq(q, 1, n)[i]
    BY <1>1, <1>2, <2>1, <2>3
  <2>6. y = SubSeq(q, 1, n)
    BY <1>2, <2>3, <2>4, <2>5, SeqEqual
  <2> QED
    BY <2>6 DEF n
<1>7. o = Tail(q)
  <2>1. /\ Tail(q) \in Seq(S) /\ Len(Tail(q)) = Len(q) - 1
        /\ \A i \in 1 .. Len(Tail(q)) : Tail(q)[i] = q[i + 1]
    BY <1>1, <1>4, HeadTailProperties
  <2>2. Len(o) = Len(Tail(q))
    BY <1>1, <1>3, <2>1
  <2>3. \A i \in 1 .. Len(o) : o[i] = Tail(q)[i]
    BY <1>1, <1>3, <2>1
  <2> QED
    BY <1>3, <2>1, <2>2, <2>3, SeqEqual
<1> QED
  BY <1>4, <1>5, <1>6, <1>7 DEF q, y, o, SegmentSplits

(* Some thief has passed Dekker and not moved head yet.                    *)
Won == \E t \in Thieves : Winning(t)

(* A step that leaves the queue alone (it may move the ends of an empty    *)
(* one, and write a slot outside).                                         *)
QueueKept ==
    /\ spawned' = spawned
    /\ \/ Last < First /\ Last' < First'
       \/ /\ First' = First /\ Last' = Last
          /\ \A k \in First .. Last : shadow'[k] = shadow[k]

(* A step that makes one more continuation available.                      *)
QueuePushed ==
    /\ spawned' = spawned + 1
    /\ First <= Last + 1 /\ First' = First /\ Last' = Last + 1
    /\ shadow' = shadow /\ shadow[Last'] = spawned'

(* A step in which the victim learns that the youngest continuation is     *)
(* its.                                                                    *)
QueueTakenBack ==
    /\ spawned' = spawned
    /\ First <= Last /\ First' = First /\ Last' = Last - 1 /\ shadow' = shadow

(* A step in which a thief wins the oldest continuation.                   *)
QueueStolen ==
    /\ spawned' = spawned
    /\ First <= Last /\ First' = First + 1 /\ Last' = Last /\ shadow' = shadow

(* The four kinds of steps.                                                *)
QueueStep == QueueKept \/ QueuePushed \/ QueueTakenBack \/ QueueStolen

(* What the invariant says of the ends of the queue: a thief that has won  *)
(* has the victim in user code or on the way to the runtime, and exc past  *)
(* head.                                                                   *)
LEMMA QueueEnds ==
    ASSUME IndInv
    PROVE  /\ head \in Nat /\ tail \in Int
           /\ First = (IF Won THEN head + 1 ELSE head)
           /\ Won => /\ vpc \in Unlocked
                     /\ head < tail \/ (head = tail /\ vpc \in {"left", "h_busy"})
                     /\ exc = head + 1
           /\ vpc \notin {"set_exc", "set_tail"} => exc \in {head, head + 1}
<1>1. head \in Nat /\ tail \in Int
  BY BoundsAssumption DEF IndInv, TypeOK, Index
<1>2. First = (IF Won THEN head + 1 ELSE head)
  BY DEF First, Won
<1>3. ASSUME Won
      PROVE  /\ vpc \in Unlocked
             /\ head < tail \/ (head = tail /\ vpc \in {"left", "h_busy"})
             /\ exc = head + 1
  <2>1. PICK t \in Thieves : Winning(t)
    BY <1>3 DEF Won
  <2>2. exc = head + 1
    BY <2>1, ExcOfThief DEF Winning, ExcRaised
  <2>3. head < tail \/ (head = tail /\ vpc \in {"left", "h_busy"})
    BY <2>1 DEF IndInv, PointerInv
  <2>4. vpc \in Unlocked
    BY <2>1 DEF IndInv, BusyInv, Winning, ThiefHasClosure, ThiefHoldsClosure
  <2> QED
    BY <2>2, <2>3, <2>4
<1>4. vpc \notin {"set_exc", "set_tail"} => exc \in {head, head + 1}
  BY DEF IndInv, PointerInv
<1> QED
  BY <1>1, <1>2, <1>3, <1>4

(* The queue consists of slots of the shadow stack.                        *)
LEMMA QueueSlots ==
    ASSUME IndInv
    PROVE  /\ First \in Nat /\ Last \in Int /\ spawned \in Nat
           /\ \A k \in First .. Last : shadow[k] \in Nat
<1>1. /\ head \in Nat /\ tail \in Int /\ tail <= DequeLimit
      /\ First = head \/ First = head + 1
  BY BoundsAssumption, QueueEnds DEF IndInv, TypeOK, Index
<1>2. First \in Nat
  BY <1>1
<1>3. Last \in {First - 1, tail, tail - 1} /\ (Last = First - 1 \/ Last <= tail)
  BY <1>1, <1>2 DEF Last
<1> HIDE DEF First, Last
<1>4. Last \in Int
  BY <1>1, <1>2, <1>3
<1>5. \A k \in First .. Last : k \in 0 .. DequeLimit
  BY <1>1, <1>2, <1>3, <1>4, BoundsAssumption
<1>6. spawned \in Nat /\ \A k \in 0 .. DequeLimit : shadow[k] \in Nat
  BY BoundsAssumption DEF IndInv, TypeOK
<1> QED
  BY <1>2, <1>4, <1>5, <1>6

(* Every step of the victim and of a returning child is of one of these    *)
(* kinds: a spawn pushes, an uncontested pop and a false alarm take back,  *)
(* all others keep.                                                        *)
LEMMA VictimQueue ==
    ASSUME IndInv, IndInv', VictimNext \/ ReturnLock \/ ReturnUnlock
    PROVE  QueueStep
<1>1. tpc' = tpc
  BY
     DEF VictimNext, DetachStore, DetachPublish, LeaveTail, LeaveExc,
         HandlerLockBusy, HandlerLockClosure, HandlerVerdict, HandlerFalseAlarm,
         ExtractReturning, SetupHead, SetupExc, SetupTail, InstallLock, Install,
         SyncEnter, SyncLockBusy, SyncLockClosure, Sync, SetReturnEnter,
         SetReturnLockBusy, SetReturnLockClosure, SetReturnSwap,
         SetReturnResume, SetReturnUnlock, ReductionsDone, ReductionsLockBusy,
         ReductionsReturn, ExitRegion, ExitLockBusy, ExitClear, LeaveScheduler,
         StartRegion, SetupRoot, EnterSynced, LockSelf, LockClosure,
         UnlockSelf, ReturnLock, ReturnUnlock
<1>2. Won' = Won
  BY <1>1 DEF Won, Winning
<1>3. /\ head \in Nat /\ tail \in Int
      /\ First = (IF Won THEN head + 1 ELSE head)
      /\ Won => /\ vpc \in Unlocked
                /\ head < tail \/ (head = tail /\ vpc \in {"left", "h_busy"})
                /\ exc = head + 1
      /\ vpc \notin {"set_exc", "set_tail"} => exc \in {head, head + 1}
  BY QueueEnds
<1>4. First' = (IF Won THEN head' + 1 ELSE head')
  BY <1>2 DEF First, Won
<1>5. CASE HandlerLockBusy
  BY <1>3, <1>4, <1>5
     DEF HandlerLockBusy, LockSelf, ptrs, work, locks, QueueStep, QueueKept,
         Last, Popping, Resetting, IndInv, PointerInv, Waiting, Unlocked, Synced, AtTop
<1>6. CASE HandlerLockClosure
  BY <1>3, <1>4, <1>6
     DEF HandlerLockClosure, LockClosure, ptrs, work, locks, QueueStep,
         QueueKept, Last, Popping, Resetting, IndInv, PointerInv, Waiting, Unlocked, Synced, AtTop
<1>7. CASE HandlerFalseAlarm
  BY <1>3, <1>4, <1>7
     DEF HandlerFalseAlarm, UnlockSelf, ptrs, work, locks, QueueStep, QueueKept,
         Last, Popping, Resetting, IndInv, PointerInv, Waiting, Unlocked, Synced, AtTop
<1>8. CASE ExtractReturning
  BY <1>3, <1>4, <1>8
     DEF ExtractReturning, ptrs, work, locks, QueueStep, QueueKept, Last,
         Popping, Resetting, IndInv, PointerInv, Waiting, Unlocked, Synced, AtTop
<1>9. CASE InstallLock
  BY <1>3, <1>4, <1>9
     DEF InstallLock, LockSelf, ptrs, work, locks, QueueStep, QueueKept, Last,
         Popping, Resetting, IndInv, PointerInv, Waiting, Unlocked, Synced, AtTop
<1>10. CASE Install
  BY <1>3, <1>4, <1>10
     DEF Install, ptrs, work, locks, QueueStep, QueueKept, Last, Popping,
         Resetting, IndInv, PointerInv, Waiting, Unlocked, Synced, AtTop
<1>11. CASE SyncEnter
  BY <1>3, <1>4, <1>11
     DEF SyncEnter, ptrs, work, locks, QueueStep, QueueKept, Last, Popping,
         Resetting, IndInv, PointerInv, Waiting, Unlocked, Synced, AtTop
<1>12. CASE SyncLockBusy
  BY <1>3, <1>4, <1>12
     DEF SyncLockBusy, LockSelf, ptrs, work, locks, QueueStep, QueueKept, Last,
         Popping, Resetting, IndInv, PointerInv, Waiting, Unlocked, Synced, AtTop
<1>13. CASE SyncLockClosure
  BY <1>3, <1>4, <1>13
     DEF SyncLockClosure, LockClosure, ptrs, work, locks, QueueStep, QueueKept,
         Last, Popping, Resetting, IndInv, PointerInv, Waiting, Unlocked, Synced, AtTop
<1>14. CASE Sync
  BY <1>3, <1>4, <1>14
     DEF Sync, Suspend, ptrs, work, locks, QueueStep, QueueKept, Last, Popping,
         Resetting, IndInv, PointerInv, Waiting, Unlocked, Synced, AtTop
<1>15. CASE SetReturnEnter
  BY <1>3, <1>4, <1>15
     DEF SetReturnEnter, EnterSynced, ptrs, work, locks, QueueStep, QueueKept, Last, Popping,
         Resetting, IndInv, PointerInv, Waiting, Unlocked, Synced, AtTop
<1>16. CASE SetReturnLockBusy
  BY <1>3, <1>4, <1>16
     DEF SetReturnLockBusy, LockSelf, ptrs, work, locks, QueueStep, QueueKept,
         Last, Popping, Resetting, IndInv, PointerInv, Waiting, Unlocked, Synced, AtTop
<1>17. CASE SetReturnLockClosure
  BY <1>3, <1>4, <1>17
     DEF SetReturnLockClosure, LockClosure, ptrs, work, locks, QueueStep,
         QueueKept, Last, Popping, Resetting, IndInv, PointerInv, Waiting, Unlocked, Synced, AtTop
<1>18. CASE SetReturnSwap
  BY <1>3, <1>4, <1>18
     DEF SetReturnSwap, ptrs, work, locks, QueueStep, QueueKept, Last, Popping,
         Resetting, IndInv, PointerInv, Waiting, Unlocked, Synced, AtTop
<1>19. CASE SetReturnResume
  BY <1>3, <1>4, <1>19
     DEF SetReturnResume, ptrs, work, locks, QueueStep, QueueKept, Last,
         Popping, Resetting, IndInv, PointerInv, Waiting, Unlocked, Synced, AtTop
<1>20. CASE SetReturnUnlock
  BY <1>3, <1>4, <1>20
     DEF SetReturnUnlock, UnlockSelf, ptrs, work, locks, QueueStep, QueueKept,
         Last, Popping, Resetting, IndInv, PointerInv, Waiting, Unlocked, Synced, AtTop
<1>21. CASE ReturnLock
  BY <1>3, <1>4, <1>21
     DEF ReturnLock, ptrs, work, locks, QueueStep, QueueKept, Last, Popping,
         Resetting, IndInv, PointerInv, Waiting, Unlocked, Synced, AtTop
<1>22. CASE ReturnUnlock
  BY <1>3, <1>4, <1>22
     DEF ReturnUnlock, ptrs, work, locks, QueueStep, QueueKept, Last, Popping,
         Resetting, IndInv, PointerInv, Waiting, Unlocked, Synced, AtTop
<1>23. CASE SetupHead
  BY <1>3, <1>4, <1>23
     DEF SetupHead, ptrs, work, locks, QueueStep, QueueKept, Last, Popping,
         Resetting, IndInv, PointerInv, Waiting, Unlocked, Synced, AtTop
<1>24. CASE SetupExc
  BY <1>3, <1>4, <1>24
     DEF SetupExc, ptrs, work, locks, QueueStep, QueueKept, Last, Popping,
         Resetting, IndInv, PointerInv, Waiting, Unlocked, Synced, AtTop
<1>25. CASE SetupTail
  BY <1>3, <1>4, <1>25
     DEF SetupTail, ptrs, work, locks, QueueStep, QueueKept, Last, Popping,
         Resetting, IndInv, PointerInv, Waiting, Unlocked, Synced, AtTop
<1>26. CASE LeaveTail
  BY <1>3, <1>4, <1>26
     DEF LeaveTail, ptrs, work, locks, QueueStep, QueueKept, Last, Popping,
         Resetting, IndInv, PointerInv, Waiting, Unlocked, Synced, AtTop
<1>27. CASE DetachStore
  <2>1. First' = First /\ Last' = Last /\ Last = tail - 1
    BY <1>3, <1>4, <1>27 DEF DetachStore, ptrs, Last, Popping, Resetting
  <2>2. \A k \in First .. Last : shadow'[k] = shadow[k]
    <3>1. First \in Nat /\ tail < DequeLimit /\ shadow \in [0 .. DequeLimit -> 0 .. MaxSpawns]
      BY <1>3, <1>27, QueueSlots, BoundsAssumption
         DEF DetachStore, IndInv, TypeOK
    <3>2. \A k \in First .. Last : k \in 0 .. DequeLimit /\ k # tail
      BY <1>3, <2>1, <3>1, BoundsAssumption
    <3> QED
      BY <3>1, <3>2, <1>27 DEF DetachStore
  <2> QED
    BY <2>1, <2>2, <1>27 DEF DetachStore, QueueStep, QueueKept
<1>28. CASE DetachPublish
  <2>1. First' = First /\ Last = tail - 1 /\ Last' = tail /\ First <= tail
    BY <1>3, <1>4, <1>28
       DEF DetachPublish, Last, Popping, Resetting, IndInv, PointerInv
  <2>2. shadow' = shadow /\ spawned' = spawned + 1 /\ shadow[tail] = spawned + 1
    BY <1>28 DEF DetachPublish, IndInv, ContInv
  <2> QED
    BY <1>3, <2>1, <2>2 DEF QueueStep, QueuePushed
<1>29. CASE LeaveExc
  <2>1. CASE PopContested
    BY <1>3, <1>4, <1>29, <2>1
       DEF LeaveExc, ptrs, QueueStep, QueueKept, Last, Popping, Resetting
  <2>2. CASE ~PopContested
    BY <1>3, <1>4, <1>29, <2>2
       DEF LeaveExc, ptrs, PopContested, QueueStep, QueueTakenBack, Last,
           Popping, Resetting
  <2> QED
    BY <2>1, <2>2
<1>30. CASE HandlerVerdict
  <2>1. CASE StealVerdict
    BY <1>3, <1>4, <1>30, <2>1
       DEF HandlerVerdict, StealVerdict, QueueStep, QueueKept, Last, Popping,
           Resetting
  <2>2. CASE ~StealVerdict
    BY <1>3, <1>4, <1>30, <2>2
       DEF HandlerVerdict, StealVerdict, QueueStep, QueueTakenBack, Last,
           Popping, Resetting
  <2> QED
    BY <2>1, <2>2
<1>31. CASE ReductionsDone
  BY <1>3, <1>4, <1>31
     DEF ReductionsDone, EnterSynced, AtTopOfStack, ptrs, work, locks, QueueStep, QueueKept, Last, Popping,
         Resetting, IndInv, PointerInv, Waiting, Unlocked, Synced, AtTop
<1>32. CASE ReductionsLockBusy
  BY <1>3, <1>4, <1>32
     DEF ReductionsLockBusy, LockSelf, ptrs, work, locks, QueueStep, QueueKept, Last, Popping,
         Resetting, IndInv, PointerInv, Waiting, Unlocked, Synced, AtTop
<1>33. CASE ReductionsReturn
  BY <1>3, <1>4, <1>33
     DEF ReductionsReturn, ptrs, work, locks, QueueStep, QueueKept, Last, Popping,
         Resetting, IndInv, PointerInv, Waiting, Unlocked, Synced, AtTop
<1>34. CASE ExitRegion
  BY <1>3, <1>4, <1>34
     DEF ExitRegion, EnterSynced, AtTopOfStack, ptrs, work, locks, QueueStep, QueueKept, Last, Popping,
         Resetting, IndInv, PointerInv, Waiting, Unlocked, Synced, AtTop
<1>35. CASE ExitLockBusy
  BY <1>3, <1>4, <1>35
     DEF ExitLockBusy, LockSelf, ptrs, work, locks, QueueStep, QueueKept, Last, Popping,
         Resetting, IndInv, PointerInv, Waiting, Unlocked, Synced, AtTop
<1>36. CASE ExitClear
  BY <1>3, <1>4, <1>36
     DEF ExitClear, ClearBusy, ptrs, work, locks, QueueStep, QueueKept, Last, Popping,
         Resetting, IndInv, PointerInv, Waiting, Unlocked, Synced, AtTop
<1>37. CASE LeaveScheduler
  BY <1>3, <1>4, <1>37
     DEF LeaveScheduler, ptrs, work, locks, QueueStep, QueueKept, Last, Popping,
         Resetting, IndInv, PointerInv, Waiting, Unlocked, Synced, AtTop
<1>38. CASE StartRegion
  BY <1>3, <1>4, <1>38
     DEF StartRegion, RootStatus, ptrs, work, locks, QueueStep, QueueKept, Last, Popping,
         Resetting, IndInv, PointerInv, Waiting, Unlocked, Synced, AtTop
<1>39. CASE SetupRoot
  BY <1>3, <1>4, <1>39
     DEF SetupRoot, RootStatus, ptrs, work, locks, QueueStep, QueueKept, Last, Popping,
         Resetting, IndInv, PointerInv, Waiting, Unlocked, Synced, AtTop
<1> QED
  BY <1>5, <1>6, <1>7, <1>8, <1>9, <1>10, <1>11, <1>12, <1>13, <1>14, <1>15,
     <1>16, <1>17, <1>18, <1>19, <1>20, <1>21, <1>22, <1>23, <1>24, <1>25,
     <1>26, <1>27, <1>28, <1>29, <1>30, <1>31, <1>32, <1>33, <1>34, <1>35,
     <1>36, <1>37, <1>38, <1>39 DEF VictimNext


(* Of the steps of a thief only a successful Dekker changes the queue.     *)
LEMMA ThiefQueue ==
    ASSUME IndInv, IndInv', NEW t \in Thieves, ThiefNext(t)
    PROVE  QueueStep
<1>1. /\ head \in Nat /\ tail \in Int
      /\ First = (IF Won THEN head + 1 ELSE head)
      /\ First' = (IF Won' THEN head' + 1 ELSE head')
  BY QueueEnds DEF First, Won
<1>2. tpc \in [Thieves -> ThiefPc]
  BY DEF IndInv, TypeOK
<1>3. ASSUME head' = head, tail' = tail, vpc' = vpc, shadow' = shadow, spawned' = spawned,
             Won' = Won
      PROVE  QueueStep
  BY <1>1, <1>3 DEF QueueStep, QueueKept, Last, Popping, Resetting
<1>4. CASE FastTestHead(t)
  <2>1. Won' = Won
    BY <1>2, <1>4 DEF FastTestHead, Goto, Won, Winning
  <2> QED
    BY <1>3, <1>4, <2>1 DEF FastTestHead, ptrs, work
<1>5. CASE FastTestTail(t)
  <2>1. Won' = Won
    BY <1>2, <1>5 DEF FastTestTail, FastTestFails, Goto, Won, Winning
  <2> QED
    BY <1>3, <1>5, <2>1 DEF FastTestTail, ptrs, work
<1>6. CASE TryBusy(t)
  <2>1. Won' = Won
    BY <1>2, <1>6 DEF TryBusy, Goto, Won, Winning
  <2> QED
    BY <1>3, <1>6, <2>1 DEF TryBusy, ptrs, work
<1>7. CASE TryBusyFails(t)
  <2>1. Won' = Won
    BY <1>2, <1>7 DEF TryBusyFails, Goto, Won, Winning
  <2> QED
    BY <1>3, <1>7, <2>1 DEF TryBusyFails, ptrs, work
<1>8. CASE PeekLocked(t)
  <2>1. Won' = Won
    BY <1>2, <1>8 DEF PeekLocked, Goto, Won, Winning
  <2> QED
    BY <1>3, <1>8, <2>1 DEF PeekLocked, ptrs, work
<1>9. CASE PeekFails(t)
  <2>1. Won' = Won
    BY <1>2, <1>9 DEF PeekFails, Goto, Won, Winning
  <2> QED
    BY <1>3, <1>9, <2>1 DEF PeekFails, ptrs, work
<1>10. CASE SwitchStatus(t)
  <2>1. Won' = Won
    BY <1>2, <1>10 DEF SwitchStatus, Goto, Won, Winning
  <2> QED
    BY <1>3, <1>10, <2>1 DEF SwitchStatus, ptrs, work
<1>11. CASE Undo(t)
  <2>1. Won' = Won
    BY <1>2, <1>11 DEF Undo, Goto, Won, Winning
  <2> QED
    BY <1>3, <1>11, <2>1 DEF Undo, ptrs, work
<1>12. CASE Promote(t)
  <2>1. Won' = Won
    BY <1>2, <1>12 DEF Promote, Goto, Won, Winning
  <2> QED
    BY <1>3, <1>12, <2>1 DEF Promote, ptrs, work
<1>13. CASE SetChild(t)
  <2>1. Won' = Won
    BY <1>2, <1>13 DEF SetChild, Goto, Won, Winning
  <2> QED
    BY <1>3, <1>13, <2>1 DEF SetChild, ptrs, work
<1>14. CASE GiveUp(t)
  <2>1. Won' = Won
    BY <1>2, <1>14 DEF GiveUp, Goto, Won, Winning
  <2> QED
    BY <1>3, <1>14, <2>1 DEF GiveUp, ptrs, work
<1>15. CASE UnlockBusy(t)
  <2>1. Won' = Won
    BY <1>2, <1>15 DEF UnlockBusy, Goto, Won, Winning
  <2> QED
    BY <1>3, <1>15, <2>1 DEF UnlockBusy, ptrs, work
<1>16. CASE Dekker(t)
  <2>1. CASE DekkerLost
    <3>1. Won' = Won
      BY <1>2, <1>16, <2>1 DEF Dekker, Goto, Won, Winning
    <3> QED
      BY <1>3, <1>16, <3>1 DEF Dekker, ptrs, work
  <2>2. CASE ~DekkerLost
    <3>1. ~Won
      <4> SUFFICES ASSUME NEW s \in Thieves, Winning(s) PROVE FALSE
        BY DEF Won
      <4>1. s = t
        BY <1>16, SoleThief DEF Dekker, Winning, ThiefHoldsBusy
      <4> QED
        BY <1>16, <4>1 DEF Dekker, Winning
    <3>2. Won'
      <4>1. tpc'[t] = "promote"
        BY <1>2, <1>16, <2>2 DEF Dekker, Goto
      <4> QED
        BY <4>1 DEF Won, Winning
    <3>3. vpc \notin {"set_exc", "set_tail"}
      BY <1>16
         DEF Dekker, IndInv, BusyInv, ThiefHasClosure, ThiefHoldsClosure, Unlocked
    <3> QED
      BY <1>1, <1>16, <2>2, <3>1, <3>2, <3>3
         DEF Dekker, DekkerLost, ptrs, work, QueueStep, QueueStolen, Last,
             Popping, Resetting
  <2> QED
    BY <2>1, <2>2
<1>17. CASE PublishHead(t)
  <2>1. Winning(t) /\ Won
    BY <1>17 DEF PublishHead, Winning, Won
  <2>2. ~Won'
    <3> SUFFICES ASSUME NEW s \in Thieves, tpc'[s] \in {"promote", "publish"} PROVE FALSE
      BY DEF Won, Winning
    <3>1. tpc'[t] = "set_child" /\ (s # t => tpc'[s] = tpc[s])
      BY <1>2, <1>17 DEF PublishHead, Goto
    <3>2. s # t
      BY <3>1
    <3>3. tpc[s] \in ThiefHoldsBusy /\ tpc[t] \in ThiefHoldsBusy
      BY <1>17, <3>1, <3>2 DEF PublishHead, ThiefHoldsBusy
    <3> QED
      BY <3>2, <3>3, SoleThief
  <2>3. hd[t] = head
    BY <2>1, ContestedIsLive
  <2>4. First' = First
    BY <1>1, <1>17, <2>1, <2>2, <2>3 DEF PublishHead
  <2> QED
    BY <2>4, <1>17
       DEF PublishHead, QueueStep, QueueKept, Last, Popping, Resetting
<1> QED
  BY <1>4, <1>5, <1>6, <1>7, <1>8, <1>9, <1>10, <1>11, <1>12, <1>13, <1>14,
     <1>15, <1>16, <1>17 DEF ThiefNext

(* The four kinds of steps are steps of DequeSpec, or stutter.             *)
LEMMA AbstractStep ==
    ASSUME IndInv, IndInv', QueueStep
    PROVE  [Abstract!DNext]_(Abstract!dvars)
<1> DEFINE q == Segment(shadow, First, Last)
           p == Segment(shadow', First', Last')
<1>1. /\ First \in Int /\ Last \in Int /\ spawned \in Nat
      /\ \A k \in First .. Last : shadow[k] \in Nat
  BY QueueSlots
<1>2. First' \in Int /\ Last' \in Int
  <2>1. head' \in Int /\ tail' \in Int
    BY BoundsAssumption DEF IndInv, TypeOK, Index
  <2>2. First' \in Int
    BY <2>1 DEF First
  <2> QED
    BY <2>1, <2>2 DEF Last
<1>3. CASE QueueKept
  <2>1. p = q
    <3> HIDE DEF First, Last
    <3>1. \/ Last < First /\ Last' < First'
          \/ First = First' /\ Last = Last' /\ \A k \in First .. Last : shadow[k] = shadow'[k]
      BY <1>3 DEF QueueKept
    <3> QED
      BY <1>1, <1>2, <3>1, SegmentSame
  <2> QED
    BY <1>3, <2>1 DEF QueueKept, Segment, Abstract!dvars
<1>4. CASE QueuePushed
  <2>1. \A k \in First .. Last' : shadow[k] \in Nat
    BY <1>1, <1>4 DEF QueuePushed
  <2>2. First <= Last' /\ First' = First /\ Last = Last' - 1 /\ shadow' = shadow
    BY <1>1, <1>4 DEF QueuePushed
  <2>3. Segment(shadow, First, Last') = Append(Segment(shadow, First, Last' - 1), shadow[Last'])
    <3>1. SegmentSplits(shadow, First, Last')
      BY <1>1, <1>2, <2>1, <2>2, SegmentSteps, Zenon
    <3> QED
      BY <3>1 DEF SegmentSplits
  <2>4. p = Append(q, spawned') /\ spawned' = spawned + 1
    BY <2>2, <2>3, <1>4 DEF QueuePushed
  <2> QED
    BY <2>4 DEF Segment, Abstract!DNext, Abstract!Push
<1>5. CASE QueueTakenBack
  <2>1. q # << >> /\ Segment(shadow, First, Last - 1) = SubSeq(q, 1, Len(q) - 1)
    <3>1. First <= Last
      BY <1>5 DEF QueueTakenBack
    <3>2. SegmentSplits(shadow, First, Last)
      BY <1>1, <3>1, SegmentSteps, Zenon
    <3> QED
      BY <3>2 DEF SegmentSplits
  <2>2. p = SubSeq(q, 1, Len(q) - 1) /\ spawned' = spawned
    BY <2>1, <1>5 DEF QueueTakenBack
  <2> QED
    BY <2>1, <2>2 DEF Segment, Abstract!DNext, Abstract!TakeBack
<1>6. CASE QueueStolen
  <2>1. q # << >> /\ Segment(shadow, First + 1, Last) = Tail(q)
    <3>1. First <= Last
      BY <1>6 DEF QueueStolen
    <3>2. SegmentSplits(shadow, First, Last)
      BY <1>1, <3>1, SegmentSteps, Zenon
    <3> QED
      BY <3>2 DEF SegmentSplits
  <2>2. p = Tail(q) /\ spawned' = spawned
    BY <2>1, <1>6 DEF QueueStolen
  <2> QED
    BY <2>1, <2>2 DEF Segment, Abstract!DNext, Abstract!Steal
<1> QED
  BY <1>3, <1>4, <1>5, <1>6 DEF QueueStep

(* The THE protocol implements DequeSpec: as seen through the refinement   *)
(* mapping, spawns, pops and steals are indivisible operations on a queue, *)
(* for any number of thieves.                                              *)
THEOREM Refinement == Spec => ImplementsDequeSpec
<1>1. Init => Abstract!DInit
  <2> SUFFICES ASSUME Init PROVE Abstract!DInit
    OBVIOUS
  <2>1. First = 1 /\ Last = 0
    BY DEF Init, First, Last, Winning, Resetting, Popping
  <2>2. Segment(shadow, 1, 0) = << >>
    BY SegmentEmpty
  <2> QED
    BY <2>1, <2>2 DEF Segment, Init, Abstract!DInit
<1>2. IndInv /\ IndInv' /\ [Next]_vars => [Abstract!DNext]_(Abstract!dvars)
  <2> SUFFICES ASSUME IndInv, IndInv', [Next]_vars
               PROVE  [Abstract!DNext]_(Abstract!dvars)
    OBVIOUS
  <2>1. CASE VictimNext \/ ReturnLock \/ ReturnUnlock
    BY <2>1, VictimQueue, AbstractStep
  <2>2. CASE \E t \in Thieves : ThiefNext(t)
    BY <2>2, ThiefQueue, AbstractStep
  <2>3. CASE UNCHANGED vars
    BY <2>3
       DEF vars, ptrs, work, Abstract!dvars, First, Last, Winning, Resetting,
           Popping
  <2> QED
    BY <2>1, <2>2, <2>3 DEF Next
<1> QED
  BY <1>1, <1>2, IndInvInvariant, PTL
     DEF Spec, ImplementsDequeSpec, Abstract!DSpec

(* __cilkrts_detach never overwrites the slot that a thief past Dekker is  *)
(* about to read.                                                          *)
THEOREM SlotsNotOverwritten == Spec => SlotStable
<1>1. IndInv /\ [Next]_vars
        => [\A t \in Thieves : Winning(t) => shadow'[hd[t]] = shadow[hd[t]]]_vars
  <2> SUFFICES ASSUME IndInv, Next, NEW t \in Thieves, Winning(t)
               PROVE  shadow'[hd[t]] = shadow[hd[t]]
    OBVIOUS
  <2>1. CASE DetachStore
    <3>1. hd[t] = head /\ head < tail
      BY <2>1 DEF DetachStore, IndInv, PointerInv
    <3>2. head \in 0 .. DequeLimit /\ tail \in Int /\ shadow \in [0 .. DequeLimit -> 0 .. MaxSpawns]
      BY BoundsAssumption DEF IndInv, TypeOK, Index
    <3> QED
      BY <2>1, <3>1, <3>2 DEF DetachStore
  <2>2. CASE shadow' = shadow
    BY <2>2
  <2> QED
    BY <2>1, <2>2
       DEF Next, VictimNext, ThiefNext, DetachPublish, LeaveTail, LeaveExc,
           HandlerLockBusy, HandlerLockClosure, HandlerVerdict,
           HandlerFalseAlarm, ExtractReturning, SetupHead, SetupExc, SetupTail,
           InstallLock, Install, SyncEnter, SyncLockBusy, SyncLockClosure, Sync,
           SetReturnEnter, SetReturnLockBusy, SetReturnLockClosure,
           SetReturnSwap, SetReturnResume, SetReturnUnlock, ReductionsDone,
           ReductionsLockBusy, ReductionsReturn, ExitRegion, ExitLockBusy,
           ExitClear, LeaveScheduler, StartRegion, SetupRoot, EnterSynced,
           LockSelf,
           LockClosure, UnlockSelf, ReturnLock, ReturnUnlock, FastTestHead,
           FastTestTail, TryBusy, TryBusyFails, PeekLocked, PeekFails,
           SwitchStatus, Undo, Dekker, Promote, PublishHead, SetChild, GiveUp,
           UnlockBusy, work
<1> QED
  BY <1>1, IndInvInvariant, PTL DEF Spec, SlotStable

(***************************************************************************)
(* What the index arithmetic of the hyperobject hash table computes, for   *)
(* every capacity, word size and load factor.  These theorems are about    *)
(* HyperProbe; they are few, and share nothing with those above but the    *)
(* module.                                                                 *)
(***************************************************************************)

(* A slot and the distance to it determine one another: inc_index goes     *)
(* round the table and comes to every slot after its distance.             *)
LEMMA SlotDistance ==
    ASSUME NEW capacity \in Nat \ {0},
           NEW i \in 0 .. capacity - 1,
           NEW j \in 0 .. capacity - 1
    PROVE  /\ Distance(i, j, capacity) \in 0 .. capacity - 1
           /\ Slot(i, Distance(i, j, capacity), capacity) = j
  BY DEF Distance, Slot

(* continue_probe compares unsigned differences that have nothing to do    *)
(* with the capacity, and yet decides by how far idx is, on the way round  *)
(* the table, from where target and resident begin: a probe goes on as     *)
(* long as the resident came at least as far as the target would.  This is *)
(* so for every capacity up to the number of values of index_t, whether it *)
(* is a power of two or not.                                               *)
THEOREM ProbeByDistance ==
    ASSUME NEW capacity \in 1 .. Word,
           NEW tgt \in 0 .. capacity - 1,
           NEW hash \in 0 .. capacity - 1,
           NEW idx \in 0 .. capacity - 1
    PROVE  continue_probe(tgt, hash, idx) <=>
             Distance(tgt, idx, capacity) <= Distance(hash, idx, capacity)
  <1>1. Word \in Nat
    BY WordAssumption
  <1>2. CASE tgt <= idx /\ hash <= idx
    BY <1>1, <1>2 DEF continue_probe, Unsigned, Distance
  <1>3. CASE tgt <= idx /\ hash > idx
    BY <1>1, <1>3 DEF continue_probe, Unsigned, Distance
  <1>4. CASE tgt > idx /\ hash <= idx
    BY <1>1, <1>4 DEF continue_probe, Unsigned, Distance
  <1>5. CASE tgt > idx /\ hash > idx
    BY <1>1, <1>5 DEF continue_probe, Unsigned, Distance
  <1> QED
    BY <1>1, <1>2, <1>3, <1>4, <1>5

(* The largest occupancy that is not an overload.                          *)
LEMMA LoadBound ==
    ASSUME NEW lfc \in Nat \ {0}, NEW capacity \in Nat
    PROVE  LET full == ((lfc - 1) * capacity) \div lfc
           IN  /\ full \in Nat
               /\ lfc * full <= lfc * capacity - capacity
               /\ lfc * capacity - capacity < lfc * full + lfc
  <1> DEFINE x == (lfc - 1) * capacity
             full == x \div lfc
  <1>1. x = lfc * capacity - capacity /\ x \in Nat
    OBVIOUS
  <1> HIDE DEF x
  <1>2. full \in Nat /\ lfc * full <= x /\ x < lfc * full + lfc
    BY <1>1
  <1> QED
    BY <1>1, <1>2 DEF x

(* The load test alone lets an insertion give the last free bucket to a    *)
(* key if and only if the capacity is at most LOAD_FACTOR_CONSTANT: this   *)
(* is how the tables of capacity 8 and 16 can be filled.  A free bucket    *)
(* here is one without a key; it may be a tombstone.                       *)
LEMMA FilledByInsert ==
    ASSUME NEW lfc \in Nat \ {0}, NEW capacity \in Nat \ {0}
    PROVE  (\A occupancy \in 0 .. capacity :
              ~is_overloaded(occupancy, capacity, lfc) => occupancy + 1 < capacity)
           <=> capacity > lfc
  <1> DEFINE full == ((lfc - 1) * capacity) \div lfc
  <1>1. /\ full \in Nat
        /\ lfc * full <= lfc * capacity - capacity
        /\ lfc * capacity - capacity < lfc * full + lfc
    BY LoadBound
  <1>2. \A n \in Nat : is_overloaded(n, capacity, lfc) <=> n > full
    BY DEF is_overloaded
  <1> HIDE DEF full
  <1>3. lfc * (capacity - 1) = lfc * capacity - lfc
    OBVIOUS
  <1>4. ASSUME capacity > lfc, NEW n \in 0 .. capacity, n <= full
        PROVE  n + 1 < capacity
    <2>1. lfc * full < lfc * (capacity - 1)
      BY <1>1, <1>3, <1>4
    <2>2. full < capacity - 1
      BY <2>1, <1>1
    <2> QED
      BY <2>2, <1>1, <1>4
  <1>5. ASSUME capacity <= lfc
        PROVE  capacity - 1 <= full
    <2>1. lfc * (capacity - 1) <= lfc * capacity - capacity
      BY <1>3, <1>5
    <2>2. lfc * (capacity - 1) < lfc * (full + 1)
      BY <2>1, <1>1
    <2>3. capacity - 1 < full + 1
      BY <2>2, <1>1
    <2> QED
      BY <2>3, <1>1
  <1> QED
    BY <1>1, <1>2, <1>4, <1>5

(* What is left of capacity after the keys a rebuild put back, the         *)
(* tombstones it started with and m further insertions.                    *)
LEMMA LoadSum ==
    ASSUME NEW lfc \in Nat \ {0}, NEW capacity \in Nat, NEW m \in Nat,
           lfc * m + lfc < capacity,
           2 * (lfc * m) + 2 * lfc <= capacity
    PROVE  ((lfc - 1) * capacity) \div lfc + Graveyard(capacity, lfc) + m + 1 < capacity
  <1> DEFINE full == ((lfc - 1) * capacity) \div lfc
             g == Graveyard(capacity, lfc)
             a == lfc * full
             b == lfc * g
             c == lfc * m
             d == lfc * capacity
  <1>1. full \in Nat /\ a <= d - capacity /\ a \in Nat /\ d \in Nat
    BY LoadBound
  <1>2. g \in Nat /\ (2 * lfc + 1) * g <= capacity
    BY DEF Graveyard
  <1>3. (2 * lfc + 1) * g = 2 * b + g /\ b \in Nat
    BY <1>2
  <1>4. c \in Nat
    OBVIOUS
  <1> HIDE DEF full, g
  <1>5. lfc * (full + g + m + 1) = a + b + c + lfc
    BY <1>1, <1>2
  <1>6. a + b + c + lfc < d
    <2> HIDE DEF a, b, c, d
    <2>1. 2 * b + g <= capacity
      BY <1>2, <1>3
    <2>2. CASE g = 0
      <3>1. b = 0
        BY <2>2 DEF b
      <3>2. c + lfc < capacity
        BY DEF c
      <3> QED
        BY <1>1, <1>4, <3>1, <3>2
    <2>3. CASE g > 0
      <3>1. 2 * c + 2 * lfc <= capacity
        BY DEF c
      <3> QED
        BY <1>1, <1>2, <1>3, <1>4, <2>1, <2>3, <3>1
    <2> QED
      BY <1>2, <2>2, <2>3
  <1>7. lfc * (full + g + m + 1) < lfc * capacity
    BY <1>5, <1>6
  <1>8. full + g + m + 1 < capacity
    BY <1>7, <1>1, <1>2
  <1> QED
    BY <1>8 DEF full, g

(* A table of at least 2 * LOAD_FACTOR_CONSTANT * (MIN_REBUILD_OP_COUNT +  *)
(* 1) buckets, 288 with the code's constants, never runs out of empty      *)
(* buckets, whatever tombstones removals leave: an insertion that does not *)
(* rebuild the table finds at least two, and uses up one.  The hypothesis  *)
(* on empties is EmptiesCounted, what the counters maintain.               *)
THEOREM EmptyBucketRemains ==
    ASSUME NEW lfc \in Nat \ {0}, NEW capacity \in Nat,
           NEW rebuilt \in Nat, NEW ins_rm_count \in Int, NEW empties \in Nat,
           capacity >= 2 * (lfc * (MIN_REBUILD_OP_COUNT + 1)),
           ~is_overloaded(rebuilt, capacity, lfc),
           ~time_to_rebuild(ins_rm_count, capacity, lfc),
           capacity <= empties + Graveyard(capacity, lfc) + rebuilt + ins_rm_count
    PROVE  empties > 1
  <1> DEFINE full == ((lfc - 1) * capacity) \div lfc
             R == MIN_REBUILD_OP_COUNT
             q == capacity \div (4 * lfc)
             m == IF q > R THEN q ELSE R
  <1>1. R \in Nat /\ lfc * (R + 1) = lfc * R + lfc /\ lfc * R \in Nat
    BY CapacityAssumption
  <1>2. q \in Nat /\ 4 * (lfc * q) <= capacity
    <2>1. q \in Nat /\ (4 * lfc) * q <= capacity
      OBVIOUS
    <2> QED
      BY <2>1
  <1>3. full \in Nat /\ rebuilt <= full
    BY LoadBound DEF is_overloaded
  <1>4. m \in Nat /\ ins_rm_count <= m
    BY <1>1, <1>2 DEF time_to_rebuild
  <1> HIDE DEF full, q, R
  <1>5. lfc * m + lfc < capacity /\ 2 * (lfc * m) + 2 * lfc <= capacity
    <2>1. CASE q > R
      <3>1. lfc * q >= lfc
        BY <1>1, <1>2, <2>1
      <3> QED
        BY <1>2, <2>1, <3>1
    <2>2. CASE ~(q > R)
      BY <1>1, <2>2 DEF R
    <2> QED
      BY <2>1, <2>2
  <1>6. full + Graveyard(capacity, lfc) + m + 1 < capacity
    BY <1>4, <1>5, LoadSum DEF full
  <1>7. Graveyard(capacity, lfc) \in Int
    BY DEF Graveyard
  <1> QED
    BY <1>3, <1>4, <1>6, <1>7
=============================================================================
