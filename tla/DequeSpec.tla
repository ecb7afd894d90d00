----------------------------- MODULE DequeSpec -----------------------------
(***************************************************************************)
(* What the THE protocol promises, with no pointers and no locks: the      *)
(* continuations a worker has made available by spawning form a queue; the *)
(* worker takes the youngest one back, a thief takes the oldest one, and   *)
(* each of these happens in a single indivisible step.                     *)
(*                                                                         *)
(* TheDeque, the pointer-level protocol of cilk2c_inlined.cpp and          *)
(* scheduler.cpp, is shown to implement this specification.                *)
(***************************************************************************)
EXTENDS Naturals, Sequences

VARIABLES
    q,        \* continuations neither taken back nor stolen, oldest first
    spawned   \* how many continuations were ever made available

dvars == <<q, spawned>>

DInit == q = <<>> /\ spawned = 0

(* A spawn makes the parent's continuation available. *)
Push == spawned' = spawned + 1 /\ q' = Append(q, spawned')

(* The worker returns from the spawned child to the youngest continuation. *)
TakeBack ==
    /\ q # <<>>
    /\ q' = SubSeq(q, 1, Len(q) - 1)
    /\ UNCHANGED spawned

(* A thief resumes the oldest continuation. *)
Steal == q # <<>> /\ q' = Tail(q) /\ UNCHANGED spawned

DNext == Push \/ TakeBack \/ Steal

DSpec == DInit /\ [][DNext]_dvars
=============================================================================
