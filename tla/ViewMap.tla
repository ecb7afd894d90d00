------------------------------ MODULE ViewMap -------------------------------
(***************************************************************************)
(* What the tables of reducer views promise: each strand has a finite map  *)
(* from reducers to views, and joining two strands reduces, reducer by     *)
(* reducer, the left view with the right one, in this order.               *)
(***************************************************************************)
EXTENDS Sequences, TLC

CONSTANTS Keys, Sides

(* views[s] maps the reducers that have a view in s to the view's content. *)
VARIABLE views

Init == views = [s \in Sides |-> << >>]

(* An update of a reducer: a view is created where there is none. *)
Lookup(s, k) == views' = [views EXCEPT ![s] = @ @@ (k :> <<s>>)]

(* A registration replaces whatever the map holds for the reducer. *)
Register(s, k) == views' = [views EXCEPT ![s] = (k :> <<s>>) @@ @]

Unregister(s, k) ==
    views' = [views EXCEPT ![s] = [j \in DOMAIN @ \ {k} |-> @[j]]]

(* What a reducer holds once l has been joined with r on its right. *)
Joined(l, r) ==
    [k \in DOMAIN l \union DOMAIN r |->
        (IF k \in DOMAIN l THEN l[k] ELSE << >>)
            \o (IF k \in DOMAIN r THEN r[k] ELSE << >>)]

Merge(l, r) ==
    /\ l # r
    /\ views' = [views EXCEPT ![l] = Joined(views[l], views[r]), ![r] = << >>]

Next ==
    \/ \E s \in Sides, k \in Keys : Lookup(s, k) \/ Register(s, k) \/ Unregister(s, k)
    \/ \E l, r \in Sides : Merge(l, r)

Spec == Init /\ [][Next]_views
=============================================================================
