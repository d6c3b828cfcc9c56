------------------------------ MODULE HashMap ------------------------------
(***************************************************************************)
(* db_hashmap.c: a hash table that doubles when it is crowded and moves    *)
(* the buckets of the old table to the new one a few at a time, during     *)
(* later insertions and removals.  The array of the new table is not       *)
(* cleared when it is allocated.                                           *)
(*                                                                         *)
(* A bucket is the map from keys to values that its array of pairs stands  *)
(* for; the order of the pairs is left out.                                *)
(***************************************************************************)
EXTENDS Integers, FiniteSets

CONSTANTS Key,          \* keys (addresses of records, in the code)
          Val,          \* values
          Missing,      \* no value
          Junk,         \* an array slot nobody has written, or one given away
          Hash,         \* murmur and the folding of shrink_hash, per key
          InitCapacity, \* 64 in the code
          Step          \* buckets moved at a time, 8 in the code

Bucket == [Key -> Val \cup {Missing}]

ASSUME HashMapAssumption ==
    /\ Missing \notin Val
    /\ Junk \notin Bucket \cup Val \cup {Missing}
    /\ Hash \in [Key -> Nat]
    /\ InitCapacity \in Nat \ {0}
    /\ Step \in Nat \ {0}

VARIABLES map,     \* db_hashmap_data and the two arrays it points to
          failed   \* asserts that have failed

vars == <<map, failed>>

Asserts == {"old table gone", "key is new", "slot is in use"}

EmptyBucket == [k \in Key |-> Missing]

Index(k, capacity) == Hash[k] % capacity

NoTable == [i \in {} |-> Junk]

Init ==
    /\ map = [old     |-> NoTable, oldCap |-> 0, progress |-> 0,
              new     |-> [i \in 0..(InitCapacity-1) |-> EmptyBucket],
              newCap  |-> InitCapacity,
              n       |-> 0]
    /\ failed = {}

-----------------------------------------------------------------------------
\* Mutant of InOld: the bucket that is moved next is sought in the new table.
InOld_OffByOne(m, k) == m.oldCap > 0 /\ Index(k, m.oldCap) > m.progress

\* The key is still to be found in the old table.
InOld(m, k) == m.oldCap > 0 /\ Index(k, m.oldCap) >= m.progress

BucketOf(m, k) == IF InOld(m, k) THEN m.old[Index(k, m.oldCap)]
                  ELSE m.new[Index(k, m.newCap)]

\* db_hashmap_get; Junk stands for whatever an unwritten slot leads to.
Get(m, k) == IF BucketOf(m, k) = Junk THEN Junk ELSE BucketOf(m, k)[k]

\* insert_element_internal and remove_element_internal, in the table that
\* db_hashmap_insert and db_hashmap_remove select.
Put(m, k, v) ==
    LET bucket == [BucketOf(m, k) EXCEPT ![k] = v]
        old    == [m.old EXCEPT ![Index(k, m.oldCap)] = bucket]
        new    == [m.new EXCEPT ![Index(k, m.newCap)] = bucket]
    IN IF BucketOf(m, k) = Junk THEN m
       ELSE IF InOld(m, k) THEN [m EXCEPT !.old = old]
       ELSE [m EXCEPT !.new = new]

-----------------------------------------------------------------------------
\* rehash_some: the next Step buckets of the old table are each split over the
\* two buckets of the new table they can map to; the last call frees the table.
Moving(m) == {j \in 0..(m.oldCap-1) : m.progress <= j /\ j < m.progress + Step}

Target(m, j) == {j, j + (m.newCap \div 2)}

\* Mutant of SplitBucket: the mask of the old table is used.
SplitBucket_OldMask(b, i, capacity) ==
    [k \in Key |-> IF Index(k, capacity \div 2) = i THEN b[k] ELSE Missing]

SplitBucket(b, i, capacity) ==
    [k \in Key |-> IF Index(k, capacity) = i THEN b[k] ELSE Missing]

OldTable(m) == [j \in 0..(m.oldCap-1) |-> IF j \in Moving(m) THEN Junk
                                           ELSE m.old[j]]

NewTable(m) ==
    [i \in 0..(m.newCap-1) |->
        IF \E j \in Moving(m) : i \in Target(m, j)
          THEN SplitBucket(m.old[CHOOSE j \in Moving(m) : i \in Target(m, j)],
                           i, m.newCap)
          ELSE m.new[i]]

RehashSome(m) ==
    IF m.oldCap = 0 THEN m
    ELSE IF m.progress + Step >= m.oldCap
         THEN [old |-> NoTable, oldCap |-> 0, progress |-> 0,
               new |-> NewTable(m), newCap |-> m.newCap, n |-> m.n]
         ELSE [old |-> OldTable(m), oldCap |-> m.oldCap,
               progress |-> m.progress + Step,
               new |-> NewTable(m), newCap |-> m.newCap, n |-> m.n]

\* maybe_grow, past its early return and its assert.
Crowded(m) == m.n > 2 * m.newCap

Double(m) == [old |-> m.new, oldCap |-> m.newCap, progress |-> 0,
              new |-> [i \in 0..(2 * m.newCap - 1) |-> Junk],
              newCap |-> 2 * m.newCap, n |-> m.n]

MaybeGrow(m) == IF Crowded(m) THEN RehashSome(Double(m)) ELSE m

Failing(a, condition) == IF condition THEN {a} ELSE {}

-----------------------------------------------------------------------------
\* db_hashmap_insert; callers insert keys that are not in the map.
Insert(k, v) ==
    LET m1 == RehashSome(map)
        m2 == [Put(m1, k, v) EXCEPT !.n = @ + 1]
    IN /\ failed = {}
       /\ Get(map, k) = Missing
       /\ map' = MaybeGrow(m2)
       /\ failed' = Failing("slot is in use", BucketOf(m1, k) = Junk)
              \cup Failing("key is new", Get(m1, k) # Missing)
              \cup Failing("old table gone", Crowded(m2) /\ m2.oldCap > 0)

\* Mutant of RemoveKey: number_of_elements goes down for a key that is not there.
RemoveKey_Absent(k) ==
    /\ failed = {}
    /\ map' = [Put(RehashSome(map), k, Missing) EXCEPT !.n = @ - 1]
    /\ UNCHANGED failed

\* db_hashmap_remove; the key need not be in the map.
RemoveKey(k) ==
    LET m1 == RehashSome(map)
    IN /\ failed = {}
       /\ map' = IF Get(m1, k) \in {Missing, Junk} THEN m1
                 ELSE [Put(m1, k, Missing) EXCEPT !.n = @ - 1]
       /\ failed' = Failing("slot is in use", BucketOf(m1, k) = Junk)

Next == \E k \in Key : RemoveKey(k) \/ \E v \in Val : Insert(k, v)

Spec == Init /\ [][Next]_vars

-----------------------------------------------------------------------------
\* The fields of db_hashmap_data fit the two arrays.
MapType(m) ==
    /\ m = [old |-> m.old, oldCap |-> m.oldCap, progress |-> m.progress,
            new |-> m.new, newCap |-> m.newCap, n |-> m.n]
    /\ m.oldCap \in Nat /\ m.progress \in Nat
    /\ m.newCap \in Nat \ {0} /\ m.n \in Int
    /\ m.old \in [0..(m.oldCap-1) -> Bucket \cup {Junk}]
    /\ m.new \in [0..(m.newCap-1) -> Bucket \cup {Junk}]

TypeOK == MapType(map) /\ failed \subseteq Asserts

\* None of the asserts fails: the old table is gone when the next doubling is
\* due ("otherwise something went very wrong"), no key is inserted twice, and
\* neither operation touches a slot that is uninitialised or relocated.
NoAssertFails == failed = {}

\* number_of_elements counts the keys that can be found.
Counted == map.n = Cardinality({k \in Key : Get(map, k) # Missing})

\* What makes the asserts hold.  The new table is twice the old one ("MUST BE
\* 2"); the slots of the old table from buckets_old_progress on and their targets
\* below it are initialised, though others are not; a table that is not being
\* moved is not crowded; and since a doubling the progress has kept pace with
\* the insertions.
Doubled(m) == IF m.oldCap = 0 THEN m.progress = 0
              ELSE m.newCap = 2 * m.oldCap /\ m.progress < m.oldCap

Initialised(m) ==
    /\ \A j \in m.progress..(m.oldCap-1) : m.old[j] \in Bucket
    /\ \A j \in 0..(m.progress-1) : \A i \in Target(m, j) : m.new[i] \in Bucket
    /\ m.oldCap = 0 => \A i \in 0..(m.newCap-1) : m.new[i] \in Bucket

KeepsPace(m) == m.n <= IF m.oldCap = 0 THEN 2 * m.newCap
                                       ELSE 2 * m.oldCap + m.progress

MapInv == Doubled(map) /\ Initialised(map) /\ KeepsPace(map)

\* The incremental rehash behaves as a dictionary: at every moment, and for
\* every key, a lookup returns what was inserted last and not removed.  (A call
\* that had no effect would be a stuttering step here; Counted rules it out.)
Dict == INSTANCE Dictionary WITH content <- [k \in Key |-> Get(map, k)]

DictSpec == Dict!Spec
=============================================================================
