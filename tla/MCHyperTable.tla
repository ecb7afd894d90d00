---------------------------- MODULE MCHyperTable ----------------------------
(* Reducers whose hashes collide and wrap in tables of 4 and 8 buckets. *)
EXTENDS HyperTable

CONSTANTS a1, a2, a3, a4, a5, a6, a7, b, c

MCKeys == {a1, a2, a3, b, c}

MCHash == [k \in MCKeys |-> CASE k = b -> 2 [] k = c -> 0 [] OTHER -> 7]

(* Reducers with the same hash are interchangeable. *)
MCSymmetry == Permutations({a1, a2, a3})

(* Seven reducers that hash to the last of 8 buckets, one to the one before. *)
FullKeys == {a1, a2, a3, a4, a5, a6, a7, b}

FullHash == [k \in FullKeys |-> IF k = b THEN 6 ELSE 7]

(* One table is enough here. *)
FullMaxCount == -9

FullSymmetry == Permutations(FullKeys \ {b})
=============================================================================
