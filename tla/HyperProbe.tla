----------------------------- MODULE HyperProbe -----------------------------
(***************************************************************************)
(* The index arithmetic of the hyperobject hash table and the tests that   *)
(* decide when it is rebuilt (local-hypertable.h, local-hypertable.cpp).   *)
(* index_t is an unsigned machine word of Word values.                     *)
(***************************************************************************)
EXTENDS Integers

CONSTANTS
    Word,                 \* number of values of index_t (2^32 in the code)
    MIN_CAPACITY,         \* capacity of a new table (4)
    MIN_HT_CAPACITY,      \* smallest capacity that is hashed (8)
    MIN_REBUILD_OP_COUNT  \* operations before a rebuild in place (8)

ASSUME WordAssumption == Word \in Nat \ {0}

ASSUME CapacityAssumption ==
    /\ MIN_CAPACITY \in Nat \ {0}
    /\ MIN_HT_CAPACITY \in Nat \ {0}
    /\ MIN_REBUILD_OP_COUNT \in Nat

(* The difference of two numbers below Word, as an unsigned machine word. *)
Unsigned(x) == IF x < 0 THEN x + Word ELSE x

(* Seeded fault: the indices are signed. *)
SignedProbe(tgt, hash, idx) == idx - tgt <= idx - hash

continue_probe(tgt, hash, idx) == Unsigned(idx - tgt) <= Unsigned(idx - hash)

(* The slot reached from slot i by d increments of inc_index, d < capacity. *)
Slot(i, d, capacity) == IF i + d < capacity THEN i + d ELSE (i + d) - capacity

(* The number of increments of inc_index that lead from slot i to slot j. *)
Distance(i, j, capacity) == IF i <= j THEN j - i ELSE (j - i) + capacity

(* Seeded fault: only a table that is more than full is overloaded. *)
OverloadedLate(occupancy, capacity, lfc) == occupancy > capacity

(* lfc is LOAD_FACTOR_CONSTANT, 16 in the code. *)
is_overloaded(occupancy, capacity, lfc) ==
    occupancy > ((lfc - 1) * capacity) \div lfc

is_underloaded(occupancy, capacity, lfc) ==
    /\ capacity > MIN_CAPACITY
    /\ occupancy <= (((lfc \div 2) - 1) * capacity) \div lfc

time_to_rebuild(ins_rm_count, capacity, lfc) ==
    /\ ins_rm_count > MIN_REBUILD_OP_COUNT
    /\ ins_rm_count > capacity \div (4 * lfc)

(* The tombstones bucket_array_create puts into a new array: one after     *)
(* every 2 * lfc empty buckets.                                            *)
Graveyard(capacity, lfc) == capacity \div (2 * lfc + 1)
=============================================================================
