----------------------------- MODULE HyperTable -----------------------------
(***************************************************************************)
(* The hash table of reducer views (local-hypertable.cpp): a small array   *)
(* that is scanned, then ordered linear probing with tombstones, growth,   *)
(* shrinking, rebuilding in place, and the merge of two tables at a join.  *)
(*                                                                         *)
(* A table is private to the worker that holds it, so the operations are   *)
(* atomic.  Two tables are modelled, which a join merges, either one as the *)
(* left one.  They are filled one after the other, which changes nothing,  *)
(* since neither sees the other before the merge; the first has any        *)
(* history, the second a shorter one.                                      *)
(***************************************************************************)
EXTENDS HyperProbe, FiniteSets, FiniteSetsExt, SequencesExt

CONSTANTS
    Keys,         \* the reducers
    hash,         \* their hash values
    LoadFactors,  \* values of LOAD_FACTOR_CONSTANT to be tried
    MaxCount,     \* bound: ins_rm_count of the first table when the second starts
    MaxChurn,     \* bound: registrations and removals in the second table
    KEY_EMPTY, KEY_DELETED, Null

ASSUME HashAssumption == hash \in [Keys -> Nat]

ASSUME KeysAssumption == KEY_EMPTY \notin Keys /\ KEY_DELETED \notin Keys /\ KEY_EMPTY # KEY_DELETED

VARIABLES
    lfc,     \* LOAD_FACTOR_CONSTANT, chosen at the start
    table,   \* the two tables; Null before one is allocated
    churn,   \* registrations and removals so far in the second table
    joined,  \* the two tables have been merged
    views    \* what ViewMap makes of the same operations (history)

vars == <<lfc, table, churn, joined, views>>

First == "first"

Second == "second"

Sides == {First, Second}

Map == INSTANCE ViewMap

-----------------------------------------------------------------------------
(* Buckets.  What a bucket without a valid key holds besides is never read. *)

Empty == [key |-> KEY_EMPTY, hash |-> 0, data |-> << >>]

Tombstone == [Empty EXCEPT !.key = KEY_DELETED]

is_empty(b) == b.key = KEY_EMPTY

is_tombstone(b) == b.key = KEY_DELETED

is_valid(b) == ~is_empty(b) /\ ~is_tombstone(b)

NewBucket(k, view) == [key |-> k, hash |-> 0, data |-> view]

Indices(t) == 0 .. (t.capacity - 1)

get_table_entry(t, k) == hash[k] % t.capacity

(* Graveyard hashing: a tombstone after every 2 * lfc empty buckets. *)
bucket_array_create(size) ==
    [i \in 0 .. (size - 1) |->
        IF size >= MIN_HT_CAPACITY /\ i % (2 * lfc + 1) = 2 * lfc
        THEN Tombstone ELSE Empty]

(* Three histories: fault records an insertion that failed, or one that a  *)
(* rebuild makes and that would start a rebuild of its own; crowded, that  *)
(* a bucket was inserted while none was empty; rebuilt, how many keys the  *)
(* table had when its array was made.                                      *)
NewTable(size) ==
    [capacity |-> size, occupancy |-> 0, ins_rm_count |-> 0,
     buckets |-> bucket_array_create(size),
     fault |-> FALSE, crowded |-> FALSE, rebuilt |-> 0]

Small(t) == t.capacity < MIN_HT_CAPACITY

-----------------------------------------------------------------------------
(* Finding a key: the index of its bucket, or -1. *)

KeyAt(t, I, k) == {i \in I : t.buckets[i].key = k}

find_hyperobject_linear(t, k) ==
    LET at == KeyAt(t, 0 .. (t.occupancy - 1), k) IN IF at = {} THEN -1 ELSE Max(at)

(* The bucket at i belongs to a key that comes after hash tgt in the run. *)
StopsProbe(t, tgt, i) ==
    is_valid(t.buckets[i]) /\ ~continue_probe(tgt, t.buckets[i].hash, i)

find_hyperobject_hash(t, k) ==
    LET tgt == get_table_entry(t, k)
        At(d) == Slot(tgt, d, t.capacity)
        ends == {d \in Indices(t) : \/ t.buckets[At(d)].key = k
                                    \/ is_empty(t.buckets[At(d)])
                                    \/ StopsProbe(t, tgt, At(d))}
    IN IF ends # {} /\ t.buckets[At(Min(ends))].key = k THEN At(Min(ends)) ELSE -1

find_hyperobject(t, k) ==
    IF Small(t) THEN find_hyperobject_linear(t, k) ELSE find_hyperobject_hash(t, k)

-----------------------------------------------------------------------------
(* Insertion, once there is room for the bucket. *)

(* Seeded fault: a small table is not searched for the key. *)
AppendAlways(t, b) == [t EXCEPT !.buckets[t.occupancy] = b, !.occupancy = @ + 1]

(* A small table: overwrite the bucket of the key, or append. *)
PutLinear(t, b) ==
    LET at == KeyAt(t, 0 .. (t.occupancy - 1), b.key)
    IN IF at # {} THEN [t EXCEPT !.buckets[Min(at)] = b]
       ELSE [t EXCEPT !.buckets[t.occupancy] = b, !.occupancy = @ + 1]

(* A probe for tgt may take the tombstone at distance d: the run of        *)
(* tombstones it is in ends where the probe would end too.                 *)
TakesTombstone(t, tgt, d) ==
    LET At(e) == Slot(tgt, e, t.capacity)
        beyond == {e \in (d + 1) .. (t.capacity - 1) : ~is_tombstone(t.buckets[At(e)])}
    IN \/ beyond = {}
       \/ is_empty(t.buckets[At(Min(beyond))])
       \/ StopsProbe(t, tgt, At(Min(beyond)))

(* Where the probe for b ends; back at the target if it went round. *)
InsertionPoint(t, tgt, k) ==
    LET At(d) == Slot(tgt, d, t.capacity)
        ends == {d \in Indices(t) :
                    \/ t.buckets[At(d)].key = k
                    \/ is_empty(t.buckets[At(d)])
                    \/ is_tombstone(t.buckets[At(d)]) /\ TakesTombstone(t, tgt, d)
                    \/ StopsProbe(t, tgt, At(d))}
    IN IF ends = {} THEN tgt ELSE At(Min(ends))

(* Put b at i and shift the buckets from i on, up to the first that is     *)
(* empty or a tombstone.  The insertion fails if there is none.            *)
ShiftIn(t, i, b) ==
    LET free == {d \in Indices(t) : ~is_valid(t.buckets[Slot(i, d, t.capacity)])}
        shifted == {Slot(i, d, t.capacity) : d \in 1 .. Min(free)}
        Before(j) == Slot(j, t.capacity - 1, t.capacity)
    IN IF free = {} THEN [t EXCEPT !.fault = TRUE]
       ELSE [t EXCEPT !.buckets = (i :> b) @@ [j \in shifted |-> @[Before(j)]] @@ @,
                      !.occupancy = @ + 1, !.ins_rm_count = @ + 1,
                      !.crowded = @ \/ \A j \in Indices(t) : ~is_empty(t.buckets[j])]

PutHash(t, b) ==
    LET tgt == get_table_entry(t, b.key)
        i == InsertionPoint(t, tgt, b.key)
    IN IF t.buckets[i].key = b.key THEN [t EXCEPT !.buckets[i].data = b.data]
       ELSE ShiftIn(t, i, [b EXCEPT !.hash = tgt])

Put(t, b) == IF Small(t) THEN PutLinear(t, b) ELSE PutHash(t, b)

-----------------------------------------------------------------------------
(* Insertion and removal *)

NeedsRebuild(t) ==
    IF Small(t) THEN t.occupancy >= t.capacity
    ELSE \/ is_overloaded(t.occupancy, t.capacity, lfc)
         \/ time_to_rebuild(t.ins_rm_count, t.capacity, lfc)

(* The buckets are inserted in the order of the old array.  That none of   *)
(* these insertions rebuilds the table again is checked (NoFault).         *)
rebuild(t, new_capacity) ==
    LET fresh == [NewTable(new_capacity) EXCEPT !.ins_rm_count = -t.occupancy,
                                                !.fault = t.fault,
                                                !.crowded = t.crowded,
                                                !.rebuilt = t.occupancy]
        Reinsert(u, b) == IF NeedsRebuild(u) THEN [u EXCEPT !.fault = TRUE] ELSE Put(u, b)
        old == [i \in 1 .. t.capacity |-> t.buckets[i - 1]]
    IN FoldLeft(Reinsert, fresh, SelectSeq(old, is_valid))

(* A full small table becomes a hash table. *)
Grown(t) == IF Small(t) /\ NeedsRebuild(t) THEN rebuild(t, 2 * t.capacity) ELSE t

Resized(t) ==
    IF Small(t) \/ ~NeedsRebuild(t) THEN t
    ELSE rebuild(t, IF is_overloaded(t.occupancy, t.capacity, lfc)
                    THEN 2 * t.capacity ELSE t.capacity)

insert_hyperobject(t, b) == Put(Resized(Grown(t)), b)

RemoveLinear(t, k) ==
    LET at == KeyAt(t, 0 .. (t.occupancy - 1), k)
        last == t.occupancy - 1
        i == Min(at)
    IN IF at = {} THEN t
       ELSE [t EXCEPT !.occupancy = last,
                      !.buckets[i] = IF i = last THEN Empty ELSE t.buckets[last]]

RemoveHash(t, k) ==
    LET i == find_hyperobject_hash(t, k)
        u == [t EXCEPT !.buckets[i] = Tombstone, !.occupancy = @ - 1,
                       !.ins_rm_count = @ + 1]
    IN IF i = -1 THEN t
       ELSE IF is_underloaded(u.occupancy, u.capacity, lfc) THEN rebuild(u, u.capacity \div 2)
       ELSE IF time_to_rebuild(u.ins_rm_count, u.capacity, lfc) THEN rebuild(u, u.capacity)
       ELSE u

remove_hyperobject(t, k) == IF Small(t) THEN RemoveLinear(t, k) ELSE RemoveHash(t, k)

-----------------------------------------------------------------------------
(* Merging.  A view is the sequence of the strands whose updates it holds. *)

(* bucket::reduce *)
Reduce(left, right) == left \o right

(* Seeded fault: the destination is always taken for the left table. *)
MergeBucketLeft(dst, b, left_dst) ==
    LET i == find_hyperobject(dst, b.key)
    IN IF i = -1 THEN insert_hyperobject(dst, b)
       ELSE [dst EXCEPT !.buckets[i].data = Reduce(@, b.data)]

(* Bring one bucket of the source into the destination. *)
MergeBucket(dst, b, left_dst) ==
    LET i == find_hyperobject(dst, b.key)
    IN IF i = -1 THEN insert_hyperobject(dst, b)
       ELSE [dst EXCEPT !.buckets[i].data =
                IF left_dst THEN Reduce(@, b.data) ELSE Reduce(b.data, @)]

merge_two_hts(left, right) ==
    LET left_dst == left.occupancy >= right.occupancy
        src == IF left_dst THEN right ELSE left
        dst == IF left_dst THEN left ELSE right
        src_capacity == IF Small(src) THEN src.occupancy ELSE src.capacity
        from == [i \in 1 .. src_capacity |-> src.buckets[i - 1]]
        Bring(t, b) == MergeBucket(t, b, left_dst)
    IN IF left = Null THEN right
       ELSE IF right = Null THEN left
       ELSE IF left.occupancy = 0 THEN right
       ELSE IF right.occupancy = 0 THEN left
       ELSE FoldLeft(Bring, [dst EXCEPT !.crowded = @ \/ src.crowded],
                     SelectSeq(from, is_valid))

-----------------------------------------------------------------------------
Init ==
    /\ lfc \in LoadFactors
    /\ table = [s \in Sides |-> Null]
    /\ churn = 0
    /\ joined = FALSE
    /\ Map!Init

(* Strand s may use its table now, with c registrations or removals. *)
Turn(s, c) ==
    /\ ~joined
    /\ IF s = First THEN table[Second] = Null /\ UNCHANGED churn
       ELSE /\ table[First] # Null => table[First].ins_rm_count <= MaxCount
            /\ churn + c <= MaxChurn
            /\ churn' = churn + c
    /\ UNCHANGED <<lfc, joined>>

get_local_hyper_table(s) == IF table[s] = Null THEN NewTable(MIN_CAPACITY) ELSE table[s]

(* __cilkrts_reducer_lookup in a Cilkified region: a view is created where *)
(* none is found.                                                          *)
reducer_lookup(s, k) ==
    /\ Turn(s, 0)
    /\ Map!Lookup(s, k)
    /\ LET t == get_local_hyper_table(s)
       IN table' = [table EXCEPT ![s] =
            IF find_hyperobject(t, k) # -1 THEN t
            ELSE insert_hyperobject(t, NewBucket(k, <<s>>))]

reducer_register(s, k) ==
    /\ Turn(s, 1)
    /\ Map!Register(s, k)
    /\ table' = [table EXCEPT ![s] =
            insert_hyperobject(get_local_hyper_table(s), NewBucket(k, <<s>>))]

reducer_unregister(s, k) ==
    /\ Turn(s, 1)
    /\ Map!Unregister(s, k)
    /\ table' = [table EXCEPT ![s] =
            IF table[s] = Null THEN Null ELSE remove_hyperobject(table[s], k)]

(* A join: l is the strand on the left, and goes on. *)
Join(l, r) ==
    /\ ~joined
    /\ table' = [table EXCEPT ![l] = merge_two_hts(table[l], table[r]), ![r] = Null]
    /\ joined' = TRUE
    /\ Map!Merge(l, r)
    /\ UNCHANGED <<lfc, churn>>

Next ==
    \/ \E s \in Sides, k \in Keys :
        \/ reducer_lookup(s, k)
        \/ reducer_register(s, k)
        \/ reducer_unregister(s, k)
    \/ Join(First, Second)
    \/ Join(Second, First)

Spec == Init /\ [][Next]_vars

-----------------------------------------------------------------------------
(* Properties *)

Tables == {table[s] : s \in Sides} \ {Null}

(* The tables that have kept an empty bucket at every insertion. *)
Uncrowded == {t \in Tables : ~t.crowded}

(* The buckets that count: a small table keeps stale copies of removed     *)
(* buckets beyond its occupancy.                                           *)
Live(t) == {i \in Indices(t) : is_valid(t.buckets[i]) /\ (Small(t) => i < t.occupancy)}

(* A table is made with a load that allows insertions, and each empty      *)
(* bucket it has lost since was counted in ins_rm_count, whether it holds  *)
(* a key or a tombstone now.                                               *)
EmptiesCounted(t) ==
    \/ Small(t)
    \/ /\ ~is_overloaded(t.rebuilt, t.capacity, lfc)
       /\ t.capacity <= Cardinality({i \in Indices(t) : is_empty(t.buckets[i])})
                           + Graveyard(t.capacity, lfc) + t.rebuilt + t.ins_rm_count

(* The two counters, which insertions, removals, rebuilds and merges       *)
(* maintain one by one, say what they should: occupancy is the number of   *)
(* live buckets; no reducer has two; a small table that is about to be     *)
(* rebuilt holds no stale copy, since the rebuild goes over the whole      *)
(* array; and ins_rm_count bounds the empty buckets that are gone, from    *)
(* which EmptyBucketRemains concludes that a large table keeps one.        *)
OccupancyExact ==
    /\ \A t \in Uncrowded :
        /\ t.occupancy = Cardinality(Live(t))
        /\ \A i, j \in Live(t) : i # j => t.buckets[i].key # t.buckets[j].key
        /\ NeedsRebuild(t) => Live(t) = {i \in Indices(t) : is_valid(t.buckets[i])}
    /\ \A t \in Tables : EmptiesCounted(t)

(* Ordered linear probing: "consecutive hashes in the table are always     *)
(* stored in sorted order": from the target of a key to its bucket no slot *)
(* is empty and none ends the probe, wherever the run wraps.               *)
RunsOrdered ==
    \A t \in Uncrowded : Small(t) \/
        \A i \in Live(t) :
            LET h == t.buckets[i].hash
            IN /\ h = get_table_entry(t, t.buckets[i].key)
               /\ \A d \in 0 .. Distance(h, i, t.capacity) :
                    LET j == Slot(h, d, t.capacity)
                    IN ~is_empty(t.buckets[j]) /\ ~StopsProbe(t, h, j)

(* No insertion fails for lack of a free bucket, and none of those that a  *)
(* rebuild makes starts another rebuild: "Set count of insertions and      *)
(* removals to prevent insertions into new table from triggering another   *)
(* rebuild."                                                               *)
NoFault == \A t \in Tables : ~t.fault

(* The table is a finite map, and a merge reduces left with right and      *)
(* loses no view: what find_hyperobject finds for each reducer is what     *)
(* ViewMap holds for it after the same operations.                         *)
ViewsRepresented ==
    \A s \in Sides, k \in Keys :
        LET t == table[s]
            i == IF t = Null THEN -1 ELSE find_hyperobject(t, k)
        IN t = Null \/ ~t.crowded =>
            /\ i # -1 <=> k \in DOMAIN views[s]
            /\ i # -1 => t.buckets[i].data = views[s][k]

(* The comment on probing, for every table: "this ordering means any       *)
(* hash-table probe for a target T can stop when it encounters an element  *)
(* in the table whose hash is greater than T".  So a probe finds every key *)
(* the table holds.                                                        *)
ProbeFindsAll ==
    \A t \in Tables : \A i \in Live(t) : find_hyperobject(t, t.buckets[i].key) # -1
=============================================================================
