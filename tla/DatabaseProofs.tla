---------------------------- MODULE DatabaseProofs --------------------------
(***************************************************************************)
(* Proofs about db.c and db_hashmap.h.                                     *)
(*                                                                         *)
(* HashMap: for every set of keys, every hash function, every initial      *)
(* capacity and every number of buckets moved at a time, the map promises  *)
(* what Dictionary does, also while it moves to a larger table.            *)
(*                                                                         *)
(* BuddyAlloc: for every size of the file and every set of sizes asked     *)
(* for, each unit of the file lies in one bucket, the lists hold the free  *)
(* buckets, and what changed was reported to the journal.  The argument    *)
(* follows the lists as chains q[1], ..., q[n]: one bucket is taken out or *)
(* put first at a time, and the buckets on their way are named apart.      *)
(***************************************************************************)
EXTENDS HashMap, BuddyAlloc, FiniteSetTheorems, TLAPS

-----------------------------------------------------------------------------
(* HashMap. *)

Valid(m) == MapType(m) /\ Doubled(m) /\ Initialised(m)

LEMMA Remainder ==
    ASSUME NEW d \in Nat \ {0}, NEW p \in Nat, NEW r \in 0..(d-1),
           NEW h \in Nat, h = d * p + r
    PROVE  h % d = r
  OBVIOUS

(* An element of slot j of a table of c slots goes to slot j or j + c of a   *)
(* table of 2c.                                                              *)
LEMMA SplitLemma ==
    ASSUME NEW h \in Nat, NEW c \in Nat \ {0}
    PROVE  h % (2 * c) \in {h % c, (h % c) + c}
<1>1. PICK q \in Nat, r \in 0..(c-1) : h = c * q + r /\ r = h % c
  <2>1. h \div c \in Nat /\ h % c \in 0..(c-1) /\ h = (c * (h \div c)) + (h % c)
    OBVIOUS
  <2> QED BY <2>1
<1>0. 2 * c \in Nat \ {0}
  OBVIOUS
<1>2. PICK p \in Nat : q = 2 * p \/ q = 2 * p + 1
  <2>1. q = 2 * (q \div 2) \/ q = 2 * (q \div 2) + 1
    BY <1>1
  <2> QED BY <2>1, <1>1
<1>3. CASE q = 2 * p
  <2>1. h = (2 * c) * p + r
    BY <1>1, <1>3
  <2>2. r \in 0..(2 * c - 1)
    BY <1>1
  <2>3. h % (2 * c) = r
    BY <1>0, <2>1, <2>2, Remainder
  <2> QED BY <2>3, <1>1
<1>4. CASE q = 2 * p + 1
  <2>1. PICK t \in 0..(2 * c - 1) : t = r + c
    BY <1>1
  <2>2. h = (2 * c) * p + t
    BY <1>1, <1>4, <2>1
  <2>3. h % (2 * c) = t
    BY <1>0, <2>2, Remainder
  <2> QED BY <2>1, <2>3, <1>1
<1> QED BY <1>2, <1>3, <1>4

LEMMA IndexType ==
    ASSUME NEW k \in Key, NEW c \in Nat \ {0}
    PROVE  /\ Index(k, c) \in 0..(c-1)
           /\ Index(k, 2 * c) \in {Index(k, c), Index(k, c) + c}
  BY SplitLemma, HashMapAssumption DEF Index

-----------------------------------------------------------------------------
(* One call of rehash_some changes no lookup.                                *)

(* The target slots of an old bucket are those its keys can map to, and no   *)
(* other bucket that moves has them.                                         *)
LEMMA TargetLemma ==
    ASSUME NEW m, Valid(m), m.oldCap > 0, NEW k \in Key
    PROVE  LET j == Index(k, m.oldCap)
               i == Index(k, m.newCap)
           IN /\ j \in 0..(m.oldCap-1) /\ i \in 0..(m.newCap-1)
              /\ i \in Target(m, j)
              /\ \A x \in 0..(m.oldCap-1) : i \in Target(m, x) => x = j
<1> DEFINE c == m.oldCap
           j == Index(k, c)
           i == Index(k, 2 * c)
<1>1. c \in Nat \ {0} /\ m.newCap = 2 * c /\ m.newCap \div 2 = c
  BY DEF Valid, MapType, Doubled
<1>2. j \in 0..(c-1) /\ i \in {j, j + c} /\ i \in 0..(2 * c - 1)
  <2>1. 2 * c \in Nat \ {0}
    BY <1>1
  <2> QED BY <1>1, <2>1, IndexType
<1>3. \A x : Target(m, x) = {x, x + c}
  BY <1>1 DEF Target
<1> HIDE DEF c, j, i
<1>4. \A x \in 0..(c-1) : i \in {x, x + c} => x = j
  BY <1>1, <1>2
<1> QED BY <1>1, <1>2, <1>3, <1>4 DEF c, j, i

LEMMA GetType ==
    ASSUME NEW m, Valid(m), NEW k \in Key
    PROVE  /\ BucketOf(m, k) \in Bucket
           /\ Get(m, k) = BucketOf(m, k)[k]
           /\ Get(m, k) \in Val \cup {Missing}
<1>1. BucketOf(m, k) \in Bucket
  <2>1. CASE m.oldCap = 0
    <3>1. ~InOld(m, k) /\ Index(k, m.newCap) \in 0..(m.newCap-1)
      BY <2>1, IndexType DEF InOld, Valid, MapType
    <3> QED BY <2>1, <3>1 DEF BucketOf, Valid, Initialised
  <2>2. CASE m.oldCap > 0 /\ InOld(m, k)
    <3>1. Index(k, m.oldCap) \in m.progress..(m.oldCap-1)
      BY <2>2, TargetLemma DEF InOld, Valid, MapType
    <3> QED BY <2>2, <3>1 DEF BucketOf, Valid, Initialised
  <2>3. CASE m.oldCap > 0 /\ ~InOld(m, k)
    <3>1. /\ Index(k, m.oldCap) \in 0..(m.progress-1)
          /\ Index(k, m.newCap) \in Target(m, Index(k, m.oldCap))
      BY <2>3, TargetLemma DEF InOld, Valid, MapType
    <3> QED BY <2>3, <3>1 DEF BucketOf, Valid, Initialised
  <2> QED BY <2>1, <2>2, <2>3 DEF Valid, MapType
<1> QED BY <1>1, HashMapAssumption DEF Get, Bucket

(* Each slot of the new table is the target of one old bucket. *)
LEMMA TargetsPartition ==
    ASSUME NEW m, Valid(m), m.oldCap > 0
    PROVE  /\ \A x \in 0..(m.oldCap-1) : Target(m, x) = {x, x + m.oldCap}
           /\ \A x \in 0..(m.oldCap-1) : Target(m, x) \subseteq 0..(m.newCap-1)
           /\ \A x, y \in 0..(m.oldCap-1) :
                 Target(m, x) \cap Target(m, y) # {} => x = y
           /\ \A i \in 0..(m.newCap-1) :
                 \E x \in 0..(m.oldCap-1) : i \in Target(m, x)
<1>1. /\ m.oldCap \in Nat /\ m.newCap = 2 * m.oldCap
      /\ m.newCap \div 2 = m.oldCap
  BY DEF Valid, MapType, Doubled
<1>2. \A x : Target(m, x) = {x, x + m.oldCap}
  BY <1>1 DEF Target
<1>3. ASSUME NEW i \in 0..(m.newCap-1)
      PROVE  \E x \in 0..(m.oldCap-1) : i \in Target(m, x)
  <2>1. CASE i < m.oldCap
    BY <2>1, <1>1, <1>2
  <2>2. CASE i >= m.oldCap
    <3>1. i - m.oldCap \in 0..(m.oldCap-1)
      BY <2>2, <1>1
    <3> QED BY <3>1, <1>1, <1>2
  <2> QED BY <2>1, <2>2, <1>1
<1> QED BY <1>1, <1>2, <1>3

LEMMA NewTableAt ==
    ASSUME NEW m, Valid(m), m.oldCap > 0,
           NEW x \in 0..(m.oldCap-1), NEW i \in Target(m, x)
    PROVE  NewTable(m)[i] = IF x \in Moving(m)
                            THEN SplitBucket(m.old[x], i, m.newCap)
                            ELSE m.new[i]
<1>1. i \in 0..(m.newCap-1)
  BY TargetsPartition
<1>2. \A y \in Moving(m) : y \in 0..(m.oldCap-1)
  BY DEF Moving
<1>3. \A y \in Moving(m) : i \in Target(m, y) => y = x
  BY <1>2, TargetsPartition
<1>4. CASE x \in Moving(m)
  <2>1. (CHOOSE y \in Moving(m) : i \in Target(m, y)) = x
    BY <1>3, <1>4
  <2> QED BY <1>1, <1>4, <2>1 DEF NewTable
<1>5. CASE x \notin Moving(m)
  BY <1>1, <1>3, <1>5 DEF NewTable
<1> QED BY <1>4, <1>5

LEMMA SplitType ==
    ASSUME NEW b \in Bucket, NEW i, NEW c
    PROVE  /\ SplitBucket(b, i, c) \in Bucket
           /\ \A k \in Key : Index(k, c) = i => SplitBucket(b, i, c)[k] = b[k]
  BY DEF SplitBucket, Bucket

LEMMA NewTableSlot ==
    ASSUME NEW m, Valid(m), m.oldCap > 0, NEW k \in Key
    PROVE  LET j == Index(k, m.oldCap)
               i == Index(k, m.newCap)
           IN IF j \in Moving(m) THEN NewTable(m)[i][k] = m.old[j][k]
                                 ELSE NewTable(m)[i] = m.new[i]
<1> DEFINE j == Index(k, m.oldCap)
           i == Index(k, m.newCap)
<1>1. j \in 0..(m.oldCap-1) /\ i \in Target(m, j)
  BY TargetLemma
<1>2. CASE j \in Moving(m)
  <2>1. m.old[j] \in Bucket
    BY <1>2, <1>1 DEF Valid, Initialised, Moving, MapType
  <2> QED BY <1>1, <1>2, <2>1, NewTableAt, SplitType
<1>3. CASE j \notin Moving(m)
  BY <1>1, <1>3, NewTableAt
<1> QED BY <1>2, <1>3

LEMMA TableTypes ==
    ASSUME NEW m, Valid(m), m.oldCap > 0
    PROVE  /\ OldTable(m) \in [0..(m.oldCap-1) -> Bucket \cup {Junk}]
           /\ NewTable(m) \in [0..(m.newCap-1) -> Bucket \cup {Junk}]
<1>1. OldTable(m) \in [0..(m.oldCap-1) -> Bucket \cup {Junk}]
  BY DEF OldTable, Valid, MapType
<1>2. ASSUME NEW i \in 0..(m.newCap-1)
      PROVE  NewTable(m)[i] \in Bucket \cup {Junk}
  <2>1. CASE \E j \in Moving(m) : i \in Target(m, j)
    <3> DEFINE x == CHOOSE j \in Moving(m) : i \in Target(m, j)
    <3>1. NewTable(m)[i] = SplitBucket(m.old[x], i, m.newCap)
      BY <2>1 DEF NewTable
    <3>2. x \in 0..(m.oldCap-1) /\ m.progress <= x
      BY <2>1 DEF Moving
    <3>3. m.old[x] \in Bucket
      BY <3>2 DEF Valid, MapType, Initialised
    <3> QED BY <3>1, <3>3 DEF SplitBucket, Bucket
  <2>2. CASE ~ \E j \in Moving(m) : i \in Target(m, j)
    BY <2>2 DEF NewTable, Valid, MapType
  <2> QED BY <2>1, <2>2
<1> QED BY <1>1, <1>2 DEF NewTable

LEMMA RehashKeeps ==
    ASSUME NEW m, Valid(m)
    PROVE  LET t == RehashSome(m)
           IN /\ Valid(t)
              /\ t.n = m.n /\ t.newCap = m.newCap
              /\ t.oldCap > 0 => /\ m.oldCap = t.oldCap
                                 /\ t.progress = m.progress + Step
              /\ \A k \in Key : Get(t, k) = Get(m, k)
<1> DEFINE t == RehashSome(m)
<1>1. CASE m.oldCap = 0
  BY <1>1 DEF RehashSome, Valid, MapType
<1>2. CASE m.oldCap > 0
  <2>1. /\ m.oldCap \in Nat \ {0} /\ m.progress \in Nat /\ Step \in Nat \ {0}
        /\ m.newCap \in Nat \ {0} /\ m.n \in Int
        /\ m.newCap = 2 * m.oldCap /\ m.progress < m.oldCap
    BY <1>2, HashMapAssumption DEF Valid, MapType, Doubled
  <2>2. \A x \in 0..(m.oldCap-1) : \A i \in Target(m, x) :
          x < m.progress + Step => NewTable(m)[i] \in Bucket
    <3> SUFFICES ASSUME NEW x \in 0..(m.oldCap-1), NEW i \in Target(m, x),
                        x < m.progress + Step
                 PROVE  NewTable(m)[i] \in Bucket
      OBVIOUS
    <3>1. CASE x \in Moving(m)
      <4>1. m.old[x] \in Bucket
        BY <2>1, <3>1 DEF Moving, Valid, Initialised
      <4> QED BY <1>2, <3>1, <4>1, NewTableAt, SplitType
    <3>2. CASE x \notin Moving(m)
      <4>1. x \in 0..(m.progress-1)
        BY <2>1, <3>2 DEF Moving
      <4> QED BY <1>2, <3>2, <4>1, NewTableAt DEF Valid, Initialised
    <3> QED BY <3>1, <3>2
  <2>3. CASE m.progress + Step >= m.oldCap
    <3>1. t = [old |-> NoTable, oldCap |-> 0, progress |-> 0,
               new |-> NewTable(m), newCap |-> m.newCap, n |-> m.n]
      BY <1>2, <2>3 DEF RehashSome, Valid, MapType
    <3>2. MapType(t)
      <4>1. NoTable \in [0..(0-1) -> Bucket \cup {Junk}]
        BY DEF NoTable
      <4> QED BY <1>2, <2>1, <3>1, <4>1, TableTypes DEF MapType
    <3>3. \A i \in 0..(m.newCap-1) : NewTable(m)[i] \in Bucket
      BY <1>2, <2>1, <2>2, <2>3, TargetsPartition
    <3>4. Doubled(t) /\ Initialised(t)
      BY <3>1, <3>3 DEF Doubled, Initialised
    <3>5. ASSUME NEW k \in Key PROVE Get(t, k) = Get(m, k)
      <4> DEFINE j == Index(k, m.oldCap)
                 i == Index(k, m.newCap)
      <4>1. j \in 0..(m.oldCap-1)
        BY <1>2, TargetLemma
      <4>2. Valid(t)
        BY <3>2, <3>4 DEF Valid
      <4>3. BucketOf(t, k) = NewTable(m)[i]
        BY <3>1 DEF BucketOf, InOld
      <4>4. NewTable(m)[i][k] = BucketOf(m, k)[k]
        <5>1. CASE j \in Moving(m)
          BY <5>1, <1>2, NewTableSlot DEF BucketOf, InOld, Moving
        <5>2. CASE j \notin Moving(m)
          <6>1. ~InOld(m, k)
            BY <5>2, <4>1, <2>1, <2>3 DEF Moving, InOld
          <6> QED BY <5>2, <6>1, <1>2, NewTableSlot DEF BucketOf
        <5> QED BY <5>1, <5>2
      <4> QED BY <4>2, <4>3, <4>4, GetType
    <3> QED BY <3>1, <3>2, <3>4, <3>5 DEF Valid
  <2>4. CASE m.progress + Step < m.oldCap
    <3>1. t = [old |-> OldTable(m), oldCap |-> m.oldCap,
               progress |-> m.progress + Step,
               new |-> NewTable(m), newCap |-> m.newCap, n |-> m.n]
      BY <1>2, <2>1, <2>4 DEF RehashSome, Valid, MapType
    <3>2. MapType(t)
      BY <1>2, <2>1, <3>1, TableTypes, SMTT(40) DEF MapType
    <3>3. Doubled(t)
      BY <2>1, <2>4, <3>1 DEF Doubled
    <3>4. \A j \in (m.progress + Step)..(m.oldCap-1) : OldTable(m)[j] = m.old[j]
      BY <2>1 DEF OldTable, Moving
    <3>5. \A x : Target(t, x) = Target(m, x)
      BY <3>1 DEF Target
    <3>6. Initialised(t)
      <4>1. \A j \in t.progress..(t.oldCap-1) : t.old[j] \in Bucket
        BY <2>1, <3>1, <3>4 DEF Valid, Initialised
      <4>2. \A j \in 0..(t.progress-1) : \A i \in Target(t, j) : t.new[i] \in Bucket
        BY <2>1, <2>2, <2>4, <3>1, <3>5
      <4> QED BY <4>1, <4>2, <1>2, <3>1 DEF Initialised
    <3>7. ASSUME NEW k \in Key PROVE Get(t, k) = Get(m, k)
      <4> DEFINE j == Index(k, m.oldCap)
                 i == Index(k, m.newCap)
      <4>1. j \in 0..(m.oldCap-1)
        BY <1>2, TargetLemma
      <4>2. Valid(t)
        BY <3>2, <3>3, <3>6 DEF Valid
      <4>3. BucketOf(t, k)[k] = BucketOf(m, k)[k]
        <5>1. CASE j \in Moving(m)
          <6>1. ~InOld(t, k) /\ InOld(m, k)
            BY <5>1, <3>1, <2>1, <4>1 DEF InOld, Moving
          <6> QED BY <5>1, <6>1, <3>1, <1>2, NewTableSlot DEF BucketOf
        <5>2. CASE j \notin Moving(m) /\ j < m.progress
          <6>1. ~InOld(t, k) /\ ~InOld(m, k)
            BY <5>2, <3>1, <2>1, <4>1 DEF InOld
          <6> QED BY <5>2, <6>1, <3>1, <1>2, NewTableSlot DEF BucketOf
        <5>3. CASE j \notin Moving(m) /\ j >= m.progress
          <6>1. j \in (m.progress + Step)..(m.oldCap-1)
            BY <5>3, <2>1, <4>1 DEF Moving
          <6>2. InOld(t, k) /\ InOld(m, k)
            BY <6>1, <3>1, <2>1 DEF InOld
          <6> QED BY <6>1, <6>2, <3>1, <3>4 DEF BucketOf
        <5> QED BY <5>1, <5>2, <5>3, <4>1, <2>1
      <4> QED BY <4>2, <4>3, GetType
    <3> QED BY <1>2, <3>1, <3>2, <3>3, <3>6, <3>7 DEF Valid
  <2> QED BY <2>1, <2>3, <2>4
<1> QED BY <1>1, <1>2 DEF Valid, MapType

-----------------------------------------------------------------------------
(* Writing into the bucket of a key, and doubling.                           *)

LEMMA PutKeeps ==
    ASSUME NEW m, Valid(m), NEW k \in Key, NEW v \in Val \cup {Missing}
    PROVE  LET t == Put(m, k, v)
           IN /\ Valid(t)
              /\ t.n = m.n /\ t.oldCap = m.oldCap /\ t.progress = m.progress
              /\ t.newCap = m.newCap
              /\ Get(t, k) = v
              /\ \A x \in Key \ {k} : Get(t, x) = Get(m, x)
<1> DEFINE t == Put(m, k, v)
           j == Index(k, m.oldCap)
           i == Index(k, m.newCap)
           b == [BucketOf(m, k) EXCEPT ![k] = v]
           old == [m.old EXCEPT ![j] = b]
           new == [m.new EXCEPT ![i] = b]
<1>1. /\ m.oldCap \in Nat /\ m.progress \in Nat /\ m.newCap \in Nat \ {0}
      /\ m.n \in Int
      /\ m.old \in [0..(m.oldCap-1) -> Bucket \cup {Junk}]
      /\ m.new \in [0..(m.newCap-1) -> Bucket \cup {Junk}]
      /\ m = [old |-> m.old, oldCap |-> m.oldCap, progress |-> m.progress,
              new |-> m.new, newCap |-> m.newCap, n |-> m.n]
  BY DEF Valid, MapType
<1>2. BucketOf(m, k) \in Bucket /\ BucketOf(m, k) # Junk
  BY GetType, HashMapAssumption
<1>3. /\ b \in Bucket /\ b[k] = v
      /\ \A x \in Key \ {k} : b[x] = BucketOf(m, k)[x]
  BY <1>2 DEF Bucket
<1>4. t = IF InOld(m, k) THEN [m EXCEPT !.old = old]
          ELSE [m EXCEPT !.new = new]
  BY <1>2 DEF Put
<1> HIDE DEF t, old, new
<1>5. t = [old |-> IF InOld(m, k) THEN old ELSE m.old, oldCap |-> m.oldCap,
           progress |-> m.progress, new |-> IF InOld(m, k) THEN m.new ELSE new,
           newCap |-> m.newCap, n |-> m.n]
  BY <1>1, <1>4
<1>6. /\ t.old = IF InOld(m, k) THEN old ELSE m.old
      /\ t.new = IF InOld(m, k) THEN m.new ELSE new
      /\ t.oldCap = m.oldCap /\ t.progress = m.progress
      /\ t.newCap = m.newCap /\ t.n = m.n
      /\ t = [old |-> t.old, oldCap |-> t.oldCap, progress |-> t.progress,
              new |-> t.new, newCap |-> t.newCap, n |-> t.n]
  BY <1>5
<1>7. /\ old \in [0..(m.oldCap-1) -> Bucket \cup {Junk}]
      /\ \A x \in 0..(m.oldCap-1) : old[x] = IF x = j THEN b ELSE m.old[x]
      /\ new \in [0..(m.newCap-1) -> Bucket \cup {Junk}]
      /\ \A x \in 0..(m.newCap-1) : new[x] = IF x = i THEN b ELSE m.new[x]
  BY <1>1, <1>3 DEF old, new
<1> HIDE DEF b, i, j
<1>8. MapType(t) /\ Doubled(t)
  BY <1>1, <1>6, <1>7 DEF MapType, Doubled, Valid
<1>9. Initialised(t)
  <2>1. \A x : Target(t, x) = Target(m, x)
    BY <1>6 DEF Target
  <2>2. \A x \in t.progress..(t.oldCap-1) : t.old[x] \in Bucket
    BY <1>1, <1>3, <1>6, <1>7, SMTT(40) DEF Valid, Initialised
  <2>3. \A y \in 0..(m.newCap-1) : m.new[y] \in Bucket => t.new[y] \in Bucket
    BY <1>3, <1>6, <1>7
  <2>4. t.oldCap = 0 => \A y \in 0..(t.newCap-1) : t.new[y] \in Bucket
    BY <1>6, <2>3 DEF Valid, Initialised
  <2>5. \A x \in 0..(t.progress-1) : \A y \in Target(t, x) : t.new[y] \in Bucket
    <3> SUFFICES ASSUME NEW x \in 0..(m.progress-1), NEW y \in Target(m, x)
                 PROVE  t.new[y] \in Bucket
      BY <1>6, <2>1
    <3>1. m.oldCap > 0 /\ x \in 0..(m.oldCap-1)
      BY <1>1 DEF Valid, Doubled
    <3>2. y \in 0..(m.newCap-1)
      BY <3>1, TargetsPartition
    <3> QED BY <3>2, <2>3 DEF Valid, Initialised
  <2> QED BY <2>2, <2>4, <2>5 DEF Initialised
<1>10. Valid(t)
  BY <1>8, <1>9 DEF Valid
<1>11. ASSUME NEW x \in Key
       PROVE  BucketOf(t, x) \in {b, BucketOf(m, x)} /\
              (BucketOf(t, x) = b => BucketOf(m, x) = BucketOf(m, k) \/ BucketOf(m, x) = b)
              /\ (x = k => BucketOf(t, x) = b)
  <2>1. InOld(t, x) <=> InOld(m, x)
    BY <1>6 DEF InOld
  <2>2. CASE InOld(m, x)
    <3>1. Index(x, m.oldCap) \in 0..(m.oldCap-1)
      BY <2>2, <1>1, IndexType DEF InOld
    <3>2. BucketOf(t, x) = t.old[Index(x, m.oldCap)]
      BY <1>6, <2>1, <2>2 DEF BucketOf
    <3>3. BucketOf(m, x) = m.old[Index(x, m.oldCap)]
      BY <2>2 DEF BucketOf
    <3>4. InOld(m, k) => BucketOf(m, k) = m.old[j]
      BY DEF BucketOf, j
    <3> QED BY <1>6, <1>7, <2>2, <3>1, <3>2, <3>3, <3>4 DEF j
  <2>3. CASE ~InOld(m, x)
    <3>1. Index(x, m.newCap) \in 0..(m.newCap-1)
      BY <1>1, IndexType
    <3>2. BucketOf(t, x) = t.new[Index(x, m.newCap)]
      BY <1>6, <2>1, <2>3 DEF BucketOf
    <3>3. BucketOf(m, x) = m.new[Index(x, m.newCap)]
      BY <2>3 DEF BucketOf
    <3>4. ~InOld(m, k) => BucketOf(m, k) = m.new[i]
      BY DEF BucketOf, i
    <3> QED BY <1>6, <1>7, <2>3, <3>1, <3>2, <3>3, <3>4 DEF i
  <2> QED BY <2>2, <2>3
<1>12. ASSUME NEW x \in Key
       PROVE  Get(t, x) = IF x = k THEN v ELSE Get(m, x)
  <2>1. Get(t, x) = BucketOf(t, x)[x] /\ Get(m, x) = BucketOf(m, x)[x]
    BY <1>10, GetType
  <2>2. CASE x = k
    BY <2>1, <2>2, <1>3, <1>11
  <2>3. CASE x # k
    BY <2>1, <2>3, <1>3, <1>11
  <2> QED BY <2>2, <2>3
<1> QED BY <1>6, <1>10, <1>12 DEF t

LEMMA DoubleKeeps ==
    ASSUME NEW m, Valid(m), m.oldCap = 0
    PROVE  /\ Valid(Double(m))
           /\ \A k \in Key : Get(Double(m), k) = Get(m, k)
<1> DEFINE t == Double(m)
<1>1. /\ m.newCap \in Nat \ {0} /\ m.n \in Int
      /\ m.new \in [0..(m.newCap-1) -> Bucket \cup {Junk}]
      /\ \A i \in 0..(m.newCap-1) : m.new[i] \in Bucket
  BY DEF Valid, MapType, Initialised
<1>2. /\ t.old = m.new /\ t.oldCap = m.newCap /\ t.progress = 0
      /\ t.newCap = 2 * m.newCap /\ t.n = m.n
      /\ t.new = [i \in 0..(2 * m.newCap - 1) |-> Junk]
      /\ t = [old |-> t.old, oldCap |-> t.oldCap, progress |-> t.progress,
              new |-> t.new, newCap |-> t.newCap, n |-> t.n]
  BY DEF Double
<1>3. MapType(t)
  BY <1>1, <1>2 DEF MapType
<1>4. Doubled(t) /\ Initialised(t)
  BY <1>1, <1>2 DEF Doubled, Initialised
<1>5. Valid(t)
  BY <1>3, <1>4 DEF Valid
<1>6. ASSUME NEW k \in Key PROVE Get(t, k) = Get(m, k)
  <2>1. InOld(t, k) /\ ~InOld(m, k)
    BY <1>1, <1>2, IndexType DEF InOld
  <2>2. BucketOf(t, k) = BucketOf(m, k)
    BY <1>2, <2>1 DEF BucketOf
  <2> QED BY <1>5, <2>2, GetType
<1> QED BY <1>5, <1>6

-----------------------------------------------------------------------------
(* The inductive invariant: MapInv and the count of what can be found.       *)

Stored(m) == {k \in Key : Get(m, k) # Missing}

GoodMap(m) == /\ Valid(m) /\ KeepsPace(m)
              /\ IsFiniteSet(Stored(m)) /\ m.n = Cardinality(Stored(m))

Inv == GoodMap(map) /\ failed = {}

LEMMA InitStored == Init => Inv /\ Stored(map) = {}
<1> SUFFICES ASSUME Init PROVE Inv /\ Stored(map) = {}
  OBVIOUS
<1>1. EmptyBucket \in Bucket /\ NoTable \in [0..(0-1) -> Bucket \cup {Junk}]
  BY DEF EmptyBucket, Bucket, NoTable
<1>2. /\ map.old = NoTable /\ map.oldCap = 0 /\ map.progress = 0
      /\ map.new = [i \in 0..(InitCapacity-1) |-> EmptyBucket]
      /\ map.newCap = InitCapacity /\ map.n = 0
      /\ map = [old |-> map.old, oldCap |-> map.oldCap,
                progress |-> map.progress, new |-> map.new,
                newCap |-> map.newCap, n |-> map.n]
  BY DEF Init
<1>3. MapType(map) /\ Doubled(map) /\ Initialised(map) /\ KeepsPace(map)
  BY <1>1, <1>2, HashMapAssumption
  DEF MapType, Doubled, Initialised, KeepsPace
<1>4. Valid(map)
  BY <1>3 DEF Valid
<1>5. ASSUME NEW k \in Key PROVE Get(map, k) = Missing
  <2>1. Index(k, map.newCap) \in 0..(InitCapacity-1)
    BY <1>2, IndexType, HashMapAssumption
  <2>2. BucketOf(map, k) = EmptyBucket
    BY <1>2, <2>1 DEF BucketOf, InOld
  <2> QED BY <1>4, <2>2, GetType DEF EmptyBucket
<1>6. Stored(map) = {}
  BY <1>5 DEF Stored
<1> QED BY <1>2, <1>3, <1>4, <1>6, FS_EmptySet DEF Inv, GoodMap, Init

LEMMA InitInv == Init => Inv
  BY InitStored

(* maybe_grow keeps what is stored, and its assert holds, when the map had   *)
(* kept pace before the element that was just added.                         *)
LEMMA GrowKeeps ==
    ASSUME NEW m, Valid(m),
           m.n <= IF m.oldCap = 0 THEN 2 * m.newCap + 1
                                  ELSE 2 * m.oldCap + m.progress
    PROVE  LET t == MaybeGrow(m)
           IN /\ Valid(t) /\ KeepsPace(t) /\ t.n = m.n
              /\ ~(Crowded(m) /\ m.oldCap > 0)
              /\ \A k \in Key : Get(t, k) = Get(m, k)
<1> DEFINE t == MaybeGrow(m)
<1>1. /\ m.oldCap \in Nat /\ m.progress \in Nat /\ m.newCap \in Nat \ {0}
      /\ m.n \in Int
      /\ m.oldCap > 0 => m.newCap = 2 * m.oldCap /\ m.progress < m.oldCap
  BY DEF Valid, MapType, Doubled
<1>2. ~(Crowded(m) /\ m.oldCap > 0)
  BY <1>1 DEF Crowded
<1>3. CASE ~Crowded(m)
  <2>1. t = m
    BY <1>3 DEF MaybeGrow
  <2>2. KeepsPace(m)
    BY <1>1, <1>3 DEF Crowded, KeepsPace
  <2> HIDE DEF t
  <2> QED BY <1>2, <2>1, <2>2 DEF t
<1>4. CASE Crowded(m)
  <2> DEFINE d == Double(m)
  <2>1. m.oldCap = 0 /\ m.n <= 2 * m.newCap + 1
    BY <1>1, <1>2, <1>4
  <2>2. /\ Valid(d) /\ \A k \in Key : Get(d, k) = Get(m, k)
    BY <2>1, DoubleKeeps
  <2>3. /\ d.oldCap = m.newCap /\ d.progress = 0 /\ d.n = m.n
        /\ d.newCap = 2 * m.newCap
    BY DEF Double
  <2>4. t = RehashSome(d)
    BY <1>4 DEF MaybeGrow
  <2> HIDE DEF d, t
  <2>5. /\ Valid(t) /\ t.n = d.n /\ t.newCap = d.newCap
        /\ t.oldCap > 0 => t.oldCap = d.oldCap /\ t.progress = d.progress + Step
        /\ \A k \in Key : Get(t, k) = Get(d, k)
    BY <2>2, <2>4, RehashKeeps
  <2>6. KeepsPace(t)
    <3>1. t.oldCap \in Nat /\ Step \in Nat \ {0}
      BY <2>5, HashMapAssumption DEF Valid, MapType
    <3> QED BY <1>1, <2>1, <2>3, <2>5, <3>1 DEF KeepsPace
  <2> QED BY <1>2, <2>2, <2>3, <2>5, <2>6 DEF t
<1> QED BY <1>3, <1>4

LEMMA SlotInUse ==
    ASSUME NEW m, Valid(m), NEW k \in Key
    PROVE  BucketOf(m, k) # Junk /\ Get(m, k) # Junk
  BY GetType, HashMapAssumption

(* rehash_some, seen from the operation that calls it first.                 *)
LEMMA RehashGood ==
    ASSUME NEW m, GoodMap(m)
    PROVE  LET t == RehashSome(m)
           IN /\ GoodMap(t)
              /\ t.n + 1 <= IF t.oldCap = 0 THEN 2 * t.newCap + 1
                                            ELSE 2 * t.oldCap + t.progress
              /\ \A k \in Key : Get(t, k) = Get(m, k)
<1> DEFINE t == RehashSome(m)
<1>1. Valid(m) /\ KeepsPace(m)
  BY DEF GoodMap
<1>2. /\ Valid(t) /\ t.n = m.n /\ t.newCap = m.newCap
      /\ t.oldCap > 0 => t.oldCap = m.oldCap /\ t.progress = m.progress + Step
      /\ \A k \in Key : Get(t, k) = Get(m, k)
  BY <1>1, RehashKeeps
<1>3. /\ m.oldCap \in Nat /\ m.progress \in Nat /\ m.newCap \in Nat \ {0}
      /\ m.n \in Int /\ t.oldCap \in Nat /\ Step \in Nat \ {0}
      /\ m.oldCap > 0 => m.newCap = 2 * m.oldCap /\ m.progress < m.oldCap
  BY <1>1, <1>2, HashMapAssumption DEF Valid, MapType, Doubled
<1> HIDE DEF t
<1>4. t.n + 1 <= IF t.oldCap = 0 THEN 2 * t.newCap + 1
                                 ELSE 2 * t.oldCap + t.progress
  BY <1>1, <1>2, <1>3 DEF KeepsPace
<1>5. KeepsPace(t)
  BY <1>2, <1>3, <1>4 DEF KeepsPace
<1>6. Stored(t) = Stored(m)
  BY <1>2 DEF Stored
<1>7. GoodMap(t)
  BY <1>2, <1>5, <1>6 DEF GoodMap
<1> QED BY <1>2, <1>4, <1>7 DEF t

-----------------------------------------------------------------------------
(* The two operations.                                                       *)

LEMMA InsertStep ==
    ASSUME Inv, NEW k \in Key, NEW v \in Val, Insert(k, v)
    PROVE  Inv' /\ \A x \in Key : Get(map, x)' = IF x = k THEN v ELSE Get(map, x)
<1> DEFINE m1 == RehashSome(map)
           p  == Put(m1, k, v)
           m2 == [p EXCEPT !.n = @ + 1]
<1>1. /\ GoodMap(m1)
      /\ m1.n + 1 <= IF m1.oldCap = 0 THEN 2 * m1.newCap + 1
                                      ELSE 2 * m1.oldCap + m1.progress
      /\ \A x \in Key : Get(m1, x) = Get(map, x)
  BY RehashGood DEF Inv
<1>2. /\ Get(map, k) = Missing /\ map' = MaybeGrow(m2)
      /\ failed' = Failing("slot is in use", BucketOf(m1, k) = Junk)
              \cup Failing("key is new", Get(m1, k) # Missing)
              \cup Failing("old table gone", Crowded(m2) /\ m2.oldCap > 0)
  BY DEF Insert
<1>3. Valid(m1) /\ v # Missing /\ v \in Val \cup {Missing}
  BY <1>1, HashMapAssumption DEF GoodMap
<1> HIDE DEF m1
<1>4. /\ Valid(p) /\ p.n = m1.n /\ p.oldCap = m1.oldCap
      /\ p.progress = m1.progress /\ p.newCap = m1.newCap
      /\ \A x \in Key : Get(p, x) = IF x = k THEN v ELSE Get(m1, x)
  BY <1>3, PutKeeps
<1> HIDE DEF p
<1>5. /\ m2.old = p.old /\ m2.oldCap = p.oldCap /\ m2.progress = p.progress
      /\ m2.new = p.new /\ m2.newCap = p.newCap /\ m2.n = p.n + 1
      /\ m2 = [old |-> m2.old, oldCap |-> m2.oldCap, progress |-> m2.progress,
               new |-> m2.new, newCap |-> m2.newCap, n |-> m2.n]
  <2>1. p = [old |-> p.old, oldCap |-> p.oldCap, progress |-> p.progress,
             new |-> p.new, newCap |-> p.newCap, n |-> p.n]
    BY <1>4 DEF Valid, MapType
  <2> QED BY <2>1
<1> HIDE DEF m2
<1>6. Valid(m2)
  <2>1. MapType(m2) /\ Doubled(m2)
    BY <1>4, <1>5 DEF Valid, MapType, Doubled
  <2>2. \A j : Target(m2, j) = Target(p, j)
    BY <1>5 DEF Target
  <2>3. Initialised(m2)
    BY <1>4, <1>5, <2>2 DEF Valid, Initialised
  <2> QED BY <2>1, <2>3 DEF Valid
<1>7. \A x \in Key : Get(m2, x) = IF x = k THEN v ELSE Get(map, x)
  <2>1. \A x \in Key : BucketOf(m2, x) = BucketOf(p, x)
    BY <1>5 DEF BucketOf, InOld
  <2>2. \A x \in Key : Get(m2, x) = Get(p, x)
    BY <2>1 DEF Get
  <2> QED BY <2>2, <1>1, <1>4
<1>8. m2.n <= IF m2.oldCap = 0 THEN 2 * m2.newCap + 1
                               ELSE 2 * m2.oldCap + m2.progress
  BY <1>1, <1>4, <1>5
<1>9. /\ Valid(map') /\ KeepsPace(map') /\ map'.n = m2.n
      /\ ~(Crowded(m2) /\ m2.oldCap > 0)
      /\ \A x \in Key : Get(map', x) = Get(m2, x)
  BY <1>2, <1>6, <1>8, GrowKeeps
<1>10. failed' = {}
  <2>1. BucketOf(m1, k) # Junk /\ Get(m1, k) = Missing
    BY <1>1, <1>2, <1>3, SlotInUse
  <2> QED BY <1>2, <1>9, <2>1 DEF Failing
<1>11. \A x \in Key : Get(map', x) = IF x = k THEN v ELSE Get(map, x)
  BY <1>7, <1>9
<1>12. IsFiniteSet(Stored(map')) /\ map'.n = Cardinality(Stored(map'))
  <2>1. Stored(map') = Stored(m1) \cup {k} /\ k \notin Stored(m1)
    BY <1>1, <1>2, <1>3, <1>11 DEF Stored
  <2>2. IsFiniteSet(Stored(m1)) /\ m1.n = Cardinality(Stored(m1))
    BY <1>1 DEF GoodMap
  <2> QED BY <1>4, <1>5, <1>9, <2>1, <2>2, FS_AddElement
<1> QED BY <1>9, <1>10, <1>11, <1>12 DEF Inv, GoodMap

LEMMA RemoveStep ==
    ASSUME Inv, NEW k \in Key, RemoveKey(k)
    PROVE  Inv' /\ \A x \in Key : Get(map, x)' = IF x = k THEN Missing
                                                         ELSE Get(map, x)
<1> DEFINE m1 == RehashSome(map)
           p  == Put(m1, k, Missing)
           m2 == [p EXCEPT !.n = @ - 1]
<1>1. /\ GoodMap(m1)
      /\ \A x \in Key : Get(m1, x) = Get(map, x)
  BY RehashGood DEF Inv
<1>2. /\ map' = IF Get(m1, k) \in {Missing, Junk} THEN m1 ELSE m2
      /\ failed' = Failing("slot is in use", BucketOf(m1, k) = Junk)
  BY DEF RemoveKey
<1>3. Valid(m1)
  BY <1>1 DEF GoodMap
<1> HIDE DEF m1
<1>4. failed' = {} /\ Get(m1, k) # Junk
  BY <1>2, <1>3, SlotInUse DEF Failing
<1>5. CASE Get(m1, k) = Missing
  BY <1>1, <1>2, <1>4, <1>5 DEF Inv
<1>6. CASE Get(m1, k) # Missing
  <2>1. /\ Valid(p) /\ p.n = m1.n /\ p.oldCap = m1.oldCap
        /\ p.progress = m1.progress /\ p.newCap = m1.newCap
        /\ \A x \in Key : Get(p, x) = IF x = k THEN Missing ELSE Get(m1, x)
    BY <1>3, PutKeeps
  <2> HIDE DEF p
  <2>2. /\ m2.old = p.old /\ m2.oldCap = p.oldCap /\ m2.progress = p.progress
        /\ m2.new = p.new /\ m2.newCap = p.newCap /\ m2.n = p.n - 1
        /\ m2 = [old |-> m2.old, oldCap |-> m2.oldCap, progress |-> m2.progress,
                 new |-> m2.new, newCap |-> m2.newCap, n |-> m2.n]
    <3>1. p = [old |-> p.old, oldCap |-> p.oldCap, progress |-> p.progress,
               new |-> p.new, newCap |-> p.newCap, n |-> p.n]
      BY <2>1 DEF Valid, MapType
    <3> QED BY <3>1
  <2> HIDE DEF m2
  <2>3. map' = m2
    BY <1>2, <1>4, <1>6
  <2>4. Valid(m2)
    <3>1. MapType(m2) /\ Doubled(m2)
      BY <2>1, <2>2 DEF Valid, MapType, Doubled
    <3>2. \A j : Target(m2, j) = Target(p, j)
      BY <2>2 DEF Target
    <3>3. Initialised(m2)
      BY <2>1, <2>2, <3>2 DEF Valid, Initialised
    <3> QED BY <3>1, <3>3 DEF Valid
  <2>5. \A x \in Key : Get(m2, x) = IF x = k THEN Missing ELSE Get(map, x)
    <3>1. \A x \in Key : BucketOf(m2, x) = BucketOf(p, x)
      BY <2>2 DEF BucketOf, InOld
    <3>2. \A x \in Key : Get(m2, x) = Get(p, x)
      BY <3>1 DEF Get
    <3> QED BY <3>2, <1>1, <2>1
  <2>6. KeepsPace(m2)
    <3>1. KeepsPace(m1) /\ m1.n \in Int /\ m1.oldCap \in Nat
          /\ m1.newCap \in Nat /\ m1.progress \in Nat
      BY <1>1 DEF GoodMap, Valid, MapType
    <3> QED BY <2>1, <2>2, <3>1 DEF KeepsPace
  <2>7. IsFiniteSet(Stored(m2)) /\ m2.n = Cardinality(Stored(m2))
    <3>1. Stored(m2) = Stored(m1) \ {k} /\ k \in Stored(m1)
      BY <1>1, <1>6, <2>5 DEF Stored
    <3>2. IsFiniteSet(Stored(m1)) /\ m1.n = Cardinality(Stored(m1))
      BY <1>1 DEF GoodMap
    <3> QED BY <2>1, <2>2, <3>1, <3>2, FS_RemoveElement
  <2> QED BY <1>4, <2>3, <2>4, <2>5, <2>6, <2>7 DEF Inv, GoodMap
<1> QED BY <1>5, <1>6

-----------------------------------------------------------------------------
LEMMA NextInv == Inv /\ [Next]_vars => Inv'
<1> SUFFICES ASSUME Inv, [Next]_vars PROVE Inv'
  OBVIOUS
<1>1. CASE \E k \in Key, v \in Val : Insert(k, v)
  BY <1>1, InsertStep
<1>2. CASE \E k \in Key : RemoveKey(k)
  BY <1>2, RemoveStep
<1>3. CASE UNCHANGED vars
  BY <1>3 DEF vars, Inv
<1> QED BY <1>1, <1>2, <1>3 DEF Next

(* The fields of the map and its two tables keep fitting each other.         *)
THEOREM TypeCorrect == Spec => []TypeOK
<1>1. Inv => TypeOK
  BY DEF Inv, GoodMap, Valid, TypeOK, Asserts
<1> QED BY <1>1, InitInv, NextInv, PTL DEF Spec

(* No assert of db_hashmap.c fails: in particular, the old table has always  *)
(* been emptied when the next doubling is due, whatever Step >= 1 is.        *)
THEOREM AssertsHold == Spec => []NoAssertFails
<1>1. Inv => NoAssertFails
  BY DEF Inv, NoAssertFails
<1> QED BY <1>1, InitInv, NextInv, PTL DEF Spec

(* The reason: tables double, live slots are initialised, progress keeps up. *)
THEOREM Inductive == Spec => []MapInv
<1>1. Inv => MapInv
  BY DEF Inv, GoodMap, Valid, MapInv
<1> QED BY <1>1, InitInv, NextInv, PTL DEF Spec

(* number_of_elements is the number of keys a lookup finds.                  *)
THEOREM CountIsRight == Spec => []Counted
<1>1. Inv => Counted
  BY DEF Inv, GoodMap, Stored, Counted
<1> QED BY <1>1, InitInv, NextInv, PTL DEF Spec

(* The map with its half-moved tables implements a dictionary.               *)
THEOREM ImplementsDictionary == Spec => DictSpec
<1> DEFINE content == [k \in Key |-> Get(map, k)]
<1>1. Init => Dict!Init
  <2> SUFFICES ASSUME Init PROVE Dict!Init
    OBVIOUS
  <2>1. Stored(map) = {}
    BY InitStored
  <2> QED BY <2>1 DEF Dict!Init, Stored
<1>2. Inv /\ [Next]_vars => [Dict!Next]_content
  <2> SUFFICES ASSUME Inv, [Next]_vars PROVE [Dict!Next]_content
    OBVIOUS
  <2>1. ASSUME NEW k \in Key, NEW v \in Val, Insert(k, v) PROVE Dict!Insert(k, v)
    <3>1. \A x \in Key : Get(map, x)' = IF x = k THEN v ELSE Get(map, x)
      BY <2>1, InsertStep
    <3>2. Get(map, k) = Missing
      BY <2>1 DEF Insert
    <3> QED BY <3>1, <3>2 DEF Dict!Insert
  <2>2. ASSUME NEW k \in Key, RemoveKey(k) PROVE Dict!Remove(k)
    <3>1. \A x \in Key : Get(map, x)' = IF x = k THEN Missing ELSE Get(map, x)
      BY <2>2, RemoveStep
    <3> QED BY <3>1 DEF Dict!Remove
  <2>3. CASE UNCHANGED vars
    BY <2>3 DEF vars
  <2> QED BY <2>1, <2>2, <2>3 DEF Next, Dict!Next
<1>3. Spec => []Inv
  BY InitInv, NextInv, PTL DEF Spec
<1> QED BY <1>1, <1>2, <1>3, PTL DEF Spec, DictSpec, Dict!Spec

-----------------------------------------------------------------------------
(* BuddyAlloc. *)
Growing   == INSTANCE Folding WITH Op <- GrowTurn
Splitting == INSTANCE Folding WITH Op <- SplitTurn
Merging   == INSTANCE Folding WITH Op <- MergeTurn


BucketRecord == [order : Order, free : BOOLEAN, next : Int, prev : Int]

Memory == [size : {0}, count : 0..MaxCount + 4, heads : [Order -> Int],
           bucket : UNION {[D -> BucketRecord] : D \in SUBSET Nat}]

WorkDone(w) == /\ DOMAIN w = {"mem", "dirty", "ok"} /\ w = [x \in DOMAIN w |-> w[x]]
               /\ w.mem \in Memory /\ w.ok \in BOOLEAN

(* q[1], ..., q[n] are the free buckets of order o, those of out excepted,   *)
(* in the order of their list, and q[0] and q[n + 1] are no buckets.         *)
Chain(m, o, n, q, out) ==
    /\ q[0] = Nil /\ q[n + 1] = Nil
    /\ m.heads[o] = q[1]
    /\ \A i \in 1..n : /\ q[i] \in DOMAIN m.bucket /\ q[i] \notin out
                       /\ m.bucket[q[i]].free = TRUE
                       /\ m.bucket[q[i]].order = o
                       /\ m.bucket[q[i]].next = q[i + 1]
                       /\ m.bucket[q[i]].prev = q[i - 1]
    /\ \A i, j \in 1..n : q[i] = q[j] => i = j
    /\ \A b \in DOMAIN m.bucket :
          b \notin out /\ m.bucket[b].free = TRUE /\ m.bucket[b].order = o
             => \E i \in 1..n : q[i] = b

Chained(m, o, out) == \E n \in Nat : \E q \in [0..n + 1 -> Int] : Chain(m, o, n, q, out)

Chains(m, out) == \A o \in Order : Chained(m, o, out)

(* What is in m, the buckets of out excepted, is in the file k or reported.  *)
Covered(k, m, d, out) ==
    /\ <<"count", 0>> \in d \/ m.count = k.count
    /\ \A o \in Order : <<"head", o>> \in d \/ m.heads[o] = k.heads[o]
    /\ \A b \in DOMAIN m.bucket :
          \/ b \in out
          \/ <<"bucket", b>> \in d
          \/ b \in DOMAIN k.bucket /\ m.bucket[b] = k.bucket[b]
          \/ b \notin DOMAIN k.bucket /\ m.bucket[b] = Zero

Good(w, k, out) == /\ WorkDone(w) /\ w.ok = TRUE
                   /\ Chains(w.mem, out)
                   /\ Covered(k, w.mem, w.dirty, out)

SameShape(m, v) ==
    /\ v.count = m.count
    /\ DOMAIN v.bucket = DOMAIN m.bucket
    /\ \A x \in DOMAIN m.bucket : /\ v.bucket[x].order = m.bucket[x].order
                                  /\ v.bucket[x].free = m.bucket[x].free

-----------------------------------------------------------------------------
(* One bucket leaves its list.                                               *)

Extracted(w, b, v) ==
    LET k == w.mem.bucket[b]
    IN /\ WorkDone(v)
       /\ SameShape(w.mem, v.mem)
       /\ \A x \in DOMAIN w.mem.bucket :
             /\ v.mem.bucket[x].next =
                   IF x = b THEN Nil ELSE IF x = k.prev THEN k.next ELSE w.mem.bucket[x].next
             /\ v.mem.bucket[x].prev =
                   IF x = b THEN Nil ELSE IF x = k.next THEN k.prev ELSE w.mem.bucket[x].prev
             /\ x # b /\ x # k.prev /\ x # k.next => v.mem.bucket[x] = w.mem.bucket[x]
       /\ \A o \in Order : v.mem.heads[o] = IF o = k.order /\ w.mem.heads[o] = b
                                              THEN k.next ELSE w.mem.heads[o]
       /\ w.ok = TRUE /\ k.free = TRUE /\ (w.mem.heads[k.order] = b => k.prev = Nil)
             => v.ok = TRUE
       /\ w.dirty \subseteq v.dirty
       /\ \A x \in {b, k.prev, k.next} \ {Nil} : <<"bucket", x>> \in v.dirty
       /\ <<"head", k.order>> \in v.dirty

\* What db_invalidate_region adds.
LEMMA DirtiedIs ==
    ASSUME NEW w, WorkDone(w), NEW B \in SUBSET Int, NEW H \in SUBSET Int
    PROVE  /\ WorkDone(Dirtied(w, B, H))
           /\ Dirtied(w, B, H).mem = w.mem
           /\ Dirtied(w, B, H).ok = w.ok
           /\ w.dirty \subseteq Dirtied(w, B, H).dirty
           /\ \A b \in B \ {Nil} : <<"bucket", b>> \in Dirtied(w, B, H).dirty
           /\ \A o \in H : <<"head", o>> \in Dirtied(w, B, H).dirty
    BY DEF Dirtied, WorkDone, Memory

\* What the fields of the allocator hold.
LEMMA Buckets ==
    ASSUME NEW w, WorkDone(w)
    PROVE  /\ DOMAIN w.mem.bucket \subseteq Nat
           /\ w.mem.bucket \in [DOMAIN w.mem.bucket -> BucketRecord]
           /\ \A b \in DOMAIN w.mem.bucket :
                 /\ w.mem.bucket[b] \in BucketRecord
                 /\ w.mem.bucket[b].order \in Order /\ w.mem.bucket[b].free \in BOOLEAN
                 /\ w.mem.bucket[b].next \in Int /\ w.mem.bucket[b].prev \in Int
           /\ w.mem.heads \in [Order -> Int]
           /\ w.mem.count \in Nat /\ w.mem.size = 0 /\ w.mem \in Memory
           /\ w.ok \in BOOLEAN
<1>1. PICK D \in SUBSET Nat : w.mem.bucket \in [D -> BucketRecord]
    BY DEF WorkDone, Memory
<1>2. \A b \in DOMAIN w.mem.bucket : w.mem.bucket[b] \in BucketRecord
    BY <1>1
<1>3. w.mem.count \in Nat
    BY AllocAssumption DEF WorkDone, Memory
<1> QED
    BY <1>1, <1>2, <1>3 DEF WorkDone, Memory, BucketRecord

Relinked(k, i, j) == [k EXCEPT !.next = i, !.prev = j]

\* A bucket has its fields and no others.
LEMMA BucketFields ==
    ASSUME NEW k \in BucketRecord, NEW i \in Int, NEW j \in Int, NEW l, l = Relinked(k, i, j)
    PROVE  /\ l \in BucketRecord /\ l.order = k.order /\ l.free = k.free
           /\ l.next = i /\ l.prev = j
           /\ i = k.next /\ j = k.prev => l = k
    BY DEF BucketRecord, Relinked

\* extract_bucket, field by field.
LEMMA ExtractIs ==
    ASSUME NEW w, WorkDone(w), NEW b \in DOMAIN w.mem.bucket
    PROVE  Extracted(w, b, ExtractBucket(w, b))
<1>1. PICK B : B = w.mem.bucket
    OBVIOUS
<1>2. PICK H : H = w.mem.heads
    OBVIOUS
<1>3. PICK k : k = B[b]
    OBVIOUS
<1> DEFINE first == H[k.order] = b
<1>4. PICK linked : linked = [x \in DOMAIN B |->
                     [B[x] EXCEPT
                        !.next = IF x = b THEN Nil ELSE IF x = k.prev THEN k.next ELSE @,
                        !.prev = IF x = b THEN Nil ELSE IF x = k.next THEN k.prev ELSE @]]
    OBVIOUS
<1>5. PICK u : u = [w EXCEPT !.mem.bucket = linked,
                         !.mem.heads[k.order] = IF first THEN k.next ELSE @,
                         !.ok = @ /\ k.free /\ (first => k.prev = Nil)]
    OBVIOUS
<1>6. k \in BucketRecord /\ k.order \in Order /\ k.next \in Int /\ k.prev \in Int
      /\ DOMAIN B \subseteq Nat /\ b \in DOMAIN B /\ H \in [Order -> Int]
      /\ \A x \in DOMAIN B : B[x] \in BucketRecord
    BY <1>1, <1>2, <1>3, Buckets
<1>7. ASSUME NEW x \in DOMAIN B
      PROVE  /\ linked[x] \in BucketRecord
             /\ linked[x].order = B[x].order
             /\ linked[x].free = B[x].free
             /\ linked[x].next = IF x = b THEN Nil ELSE IF x = k.prev THEN k.next ELSE B[x].next
             /\ linked[x].prev = IF x = b THEN Nil ELSE IF x = k.next THEN k.prev ELSE B[x].prev
             /\ x # b /\ x # k.prev /\ x # k.next => linked[x] = B[x]
    <2>1. PICK i : i = IF x = b THEN Nil ELSE IF x = k.prev THEN k.next ELSE B[x].next
        OBVIOUS
    <2>2. PICK j : j = IF x = b THEN Nil ELSE IF x = k.next THEN k.prev ELSE B[x].prev
        OBVIOUS
    <2>3. B[x] \in BucketRecord /\ i \in Int /\ j \in Int
        BY <1>6, <2>1, <2>2 DEF BucketRecord, Nil
    <2>a. PICK c : c = B[x]
        OBVIOUS
    <2>b. PICK l : l = linked[x]
        OBVIOUS
    <2>4. c \in BucketRecord /\ i \in Int /\ j \in Int /\ l = Relinked(c, i, j)
        BY <1>4, <2>1, <2>2, <2>3, <2>a, <2>b DEF Relinked
    <2>c. /\ l \in BucketRecord /\ l.order = c.order /\ l.free = c.free
          /\ l.next = i /\ l.prev = j
          /\ i = c.next /\ j = c.prev => l = c
        BY ONLY <2>4, BucketFields
    <2>5. /\ linked[x] \in BucketRecord /\ linked[x].order = B[x].order /\ linked[x].free = B[x].free
          /\ linked[x].next = i /\ linked[x].prev = j
          /\ i = B[x].next /\ j = B[x].prev => linked[x] = B[x]
        BY ONLY <2>a, <2>b, <2>c
    <2> QED
        BY <2>1, <2>2, <2>5
<1>8. linked \in [DOMAIN B -> BucketRecord]
    BY <1>4, <1>7
<1>9. PICK G : G = [H EXCEPT ![k.order] = IF first THEN k.next ELSE @]
    OBVIOUS
<1>10. PICK m : m = [w.mem EXCEPT !.bucket = linked, !.heads = G]
    OBVIOUS
<1>11. /\ G \in [Order -> Int]
       /\ \A o \in Order : G[o] = IF o = k.order /\ H[o] = b THEN k.next ELSE H[o]
    BY <1>6, <1>9
<1>12. m \in Memory /\ m.count = w.mem.count /\ m.bucket = linked /\ m.heads = G
    <2>1. linked \in UNION {[D -> BucketRecord] : D \in SUBSET Nat}
        BY <1>6, <1>8
    <2>2. w.mem \in Memory
        BY DEF WorkDone
    <2> QED
        BY <2>1, <2>2, <1>10, <1>11 DEF Memory
<1>13. /\ DOMAIN u = {"mem", "dirty", "ok"} /\ u = [x \in DOMAIN u |-> u[x]]
       /\ u.mem = m /\ u.dirty = w.dirty
       /\ u.ok = (w.ok /\ k.free /\ (first => k.prev = Nil))
    BY <1>5, <1>9, <1>10, <1>2 DEF WorkDone, Memory
<1>14. WorkDone(u) /\ (w.ok = TRUE /\ k.free = TRUE /\ (first => k.prev = Nil) => u.ok = TRUE)
    BY <1>6, <1>12, <1>13 DEF WorkDone, BucketRecord
<1>15. ExtractBucket(w, b) = Dirtied(u, {b, k.prev, k.next}, {k.order})
    BY <1>4, <1>5, <1>1, <1>2, <1>3 DEF ExtractBucket
<1>16. {b, k.prev, k.next} \in SUBSET Int /\ {k.order} \in SUBSET Int
    BY <1>6 DEF Order
<1>17. PICK v : v = ExtractBucket(w, b)
    OBVIOUS
<1>18. /\ WorkDone(v) /\ v.mem = m /\ v.ok = u.ok
       /\ w.dirty \subseteq v.dirty
       /\ \A x \in {b, k.prev, k.next} \ {Nil} : <<"bucket", x>> \in v.dirty
       /\ <<"head", k.order>> \in v.dirty
    <2>1. /\ WorkDone(v) /\ v.mem = u.mem /\ v.ok = u.ok
          /\ u.dirty \subseteq v.dirty
          /\ \A x \in {b, k.prev, k.next} \ {Nil} : <<"bucket", x>> \in v.dirty
          /\ \A x \in {k.order} : <<"head", x>> \in v.dirty
        BY ONLY <1>14, <1>15, <1>16, <1>17, DirtiedIs
    <2> QED
        BY <1>13, <2>1
<1>19. SameShape(w.mem, m)
    BY <1>7, <1>8, <1>12, <1>1 DEF SameShape
<1> QED
    BY <1>6, <1>7, <1>11, <1>12, <1>14, <1>17, <1>18, <1>19, <1>1, <1>2, <1>3 DEF Extracted

\* What a list says of the bucket in its place p.
Placed(m, o, n, q, p) ==
    /\ m.bucket[q[p]].next = q[p + 1] /\ m.bucket[q[p]].prev = q[p - 1]
    /\ m.heads[o] = q[p] <=> p = 1
    /\ p = 1 => q[p - 1] = Nil
    /\ p # 1 => q[p - 1] \in DOMAIN m.bucket
    /\ p = n => q[p + 1] = Nil
    /\ p # n => q[p + 1] \in DOMAIN m.bucket

\* A free bucket has a place in the list of its order.
LEMMA Place ==
    ASSUME NEW m, NEW o, NEW n \in Nat, NEW q, NEW out, Chain(m, o, n, q, out),
           NEW p \in 1..n
    PROVE  Placed(m, o, n, q, p)
<1>1. 1 \in 1..n /\ (p # 1 => p - 1 \in 1..n) /\ (p # n => p + 1 \in 1..n)
    OBVIOUS
<1> QED
    BY <1>1 DEF Chain, Placed

\* The list of the bucket closes over its place.
LEMMA ExtractSameList ==
    ASSUME NEW w, WorkDone(w), NEW b \in DOMAIN w.mem.bucket, NEW v, Extracted(w, b, v),
           NEW out, b \notin out, w.mem.bucket[b].free = TRUE, Chains(w.mem, out)
    PROVE  /\ w.mem.heads[w.mem.bucket[b].order] = b => w.mem.bucket[b].prev = Nil
           /\ Chained(v.mem, w.mem.bucket[b].order, out \cup {b})
<1>1. PICK m : m = w.mem
    OBVIOUS
<1>2. PICK u : u = v.mem
    OBVIOUS
<1>3. PICK k : k = m.bucket[b]
    OBVIOUS
<1>4. PICK o : o = k.order
    OBVIOUS
<1>5. o \in Order /\ DOMAIN m.bucket \subseteq Nat /\ b \in DOMAIN m.bucket /\ b \in Nat
      /\ k.free = TRUE /\ \A x \in DOMAIN m.bucket : m.bucket[x].free \in BOOLEAN
    BY <1>1, <1>3, <1>4, Buckets
<1>6. PICK n \in Nat : \E q \in [0..n + 1 -> Int] : Chain(m, o, n, q, out)
    BY <1>1, <1>5 DEF Chains, Chained
<1>7. PICK q \in [0..n + 1 -> Int] : Chain(m, o, n, q, out)
    BY <1>6
<1>8. PICK p \in 1..n : q[p] = b
    BY <1>3, <1>4, <1>5, <1>7 DEF Chain
<1>9. /\ k.next = q[p + 1] /\ k.prev = q[p - 1]
      /\ m.heads[o] = b <=> p = 1
      /\ p = 1 => q[p - 1] = Nil
      /\ p # 1 => q[p - 1] \in DOMAIN m.bucket
      /\ p = n => q[p + 1] = Nil
      /\ p # n => q[p + 1] \in DOMAIN m.bucket
    <2>1. /\ n \in Nat /\ p \in 1..n /\ Chain(m, o, n, q, out) /\ q[p] = b
        BY <1>5, <1>7, <1>8
    <2>2. Placed(m, o, n, q, p)
        BY ONLY <2>1, Place
    <2> QED
        BY <1>3, <2>1, <2>2 DEF Placed
<1>10. PICK r : r = [i \in 0..n |-> IF i < p THEN q[i] ELSE q[i + 1]]
    OBVIOUS
<1>11. n - 1 \in Nat /\ (n - 1) + 1 = n /\ r \in [0..n -> Int]
    BY <1>8, <1>10
<1>12. /\ DOMAIN u.bucket = DOMAIN m.bucket
       /\ u.heads[o] = IF m.heads[o] = b THEN k.next ELSE m.heads[o]
       /\ \A x \in DOMAIN m.bucket :
             /\ u.bucket[x].order = m.bucket[x].order /\ u.bucket[x].free = m.bucket[x].free
             /\ u.bucket[x].next = IF x = b THEN Nil ELSE IF x = k.prev THEN k.next ELSE m.bucket[x].next
             /\ u.bucket[x].prev = IF x = b THEN Nil ELSE IF x = k.next THEN k.prev ELSE m.bucket[x].prev
    BY <1>1, <1>2, <1>3, <1>4, <1>5 DEF Extracted, SameShape
<1>13. Chain(u, o, n - 1, r, out \cup {b})
    <2>1. r[0] = Nil /\ r[(n - 1) + 1] = Nil /\ u.heads[o] = r[1]
        <3>1. q[0] = Nil /\ q[n + 1] = Nil /\ m.heads[o] = q[1]
            BY <1>7 DEF Chain
        <3>2. r[0] = Nil /\ r[n] = Nil
            BY <1>8, <1>10, <3>1
        <3>3. CASE p = 1
            <4>1. u.heads[o] = q[2]
                BY <1>9, <1>12, <3>3
            <4>2. r[1] = q[2]
                BY <1>8, <1>10, <3>3
            <4> QED
                BY <1>11, <3>2, <4>1, <4>2
        <3>4. CASE p # 1
            <4>1. r[1] = q[1]
                BY <1>8, <1>10, <3>4
            <4> QED
                BY <1>9, <1>11, <1>12, <3>1, <3>2, <3>4, <4>1
        <3> QED
            BY <3>3, <3>4
    <2>2. ASSUME NEW i \in 1..n - 1
          PROVE  /\ r[i] \in DOMAIN u.bucket /\ r[i] \notin out \cup {b}
                 /\ u.bucket[r[i]].free = TRUE
                 /\ u.bucket[r[i]].order = o
                 /\ u.bucket[r[i]].next = r[i + 1]
                 /\ u.bucket[r[i]].prev = r[i - 1]
        <3>1. PICK j \in 1..n : j = IF i < p THEN i ELSE i + 1
            BY <1>8
        <3>2. PICK x : x = r[i]
            OBVIOUS
        <3>3. x = q[j] /\ j # p
            BY <1>8, <1>10, <3>1, <3>2
        <3>4. /\ x \in DOMAIN m.bucket /\ x \notin out
              /\ m.bucket[x].free = TRUE /\ m.bucket[x].order = o
              /\ m.bucket[x].next = q[j + 1] /\ m.bucket[x].prev = q[j - 1]
              /\ x # b
            BY <1>7, <1>8, <3>1, <3>3 DEF Chain
        <3>5. x = k.prev <=> j = p - 1
            <4>1. x # Nil
                BY <1>5, <3>4 DEF Nil
            <4>2. CASE p # 1
                <5>1. p - 1 \in 1..n
                    BY <1>8, <4>2
                <5>2. q[j] = q[p - 1] <=> j = p - 1
                    BY <1>7, <3>1, <5>1 DEF Chain
                <5> QED
                    BY <1>9, <3>3, <5>2
            <4>3. CASE ~(p # 1)
                BY <1>8, <1>9, <3>1, <4>1, <4>3
            <4> QED
                BY <4>2, <4>3
        <3>6. x = k.next <=> j = p + 1
            <4>1. x # Nil
                BY <1>5, <3>4 DEF Nil
            <4>2. CASE p # n
                <5>1. p + 1 \in 1..n
                    BY <1>8, <4>2
                <5>2. q[j] = q[p + 1] <=> j = p + 1
                    BY <1>7, <3>1, <5>1 DEF Chain
                <5> QED
                    BY <1>9, <3>3, <5>2
            <4>3. CASE ~(p # n)
                BY <1>8, <1>9, <3>1, <4>1, <4>3
            <4> QED
                BY <4>2, <4>3
        <3>7. u.bucket[x].next = r[i + 1]
            <4>1. u.bucket[x].next = IF j = p - 1 THEN q[p + 1] ELSE q[j + 1]
                BY <1>9, <1>12, <3>4, <3>5
            <4>2. i + 1 \in 0..n
                OBVIOUS
            <4>3. r[i + 1] = IF i + 1 < p THEN q[i + 1] ELSE q[(i + 1) + 1]
                BY <1>10, <4>2
            <4>4. CASE i + 1 = p
                BY <3>1, <4>1, <4>3, <4>4
            <4>5. CASE i + 1 # p
                BY <1>8, <3>1, <4>1, <4>3, <4>5
            <4> QED
                BY <4>4, <4>5
        <3>8. u.bucket[x].prev = r[i - 1]
            <4>1. u.bucket[x].prev = IF j = p + 1 THEN q[p - 1] ELSE q[j - 1]
                BY <1>9, <1>12, <3>4, <3>6
            <4>2. r[i - 1] = IF i - 1 < p THEN q[i - 1] ELSE q[i]
                BY <1>8, <1>10
            <4>3. n \in Nat /\ p \in 1..n /\ i \in 1..n - 1
                BY <1>8
            <4>4. CASE i < p
                <5>1. j = i /\ j # p + 1 /\ i - 1 < p
                    BY ONLY <3>1, <4>3, <4>4
                <5> QED
                    BY ONLY <4>1, <4>2, <5>1
            <4>5. CASE i = p
                <5>1. j = p + 1 /\ i - 1 < p /\ i - 1 = p - 1
                    BY ONLY <3>1, <4>3, <4>5
                <5> QED
                    BY ONLY <4>1, <4>2, <5>1
            <4>6. CASE i > p
                <5>1. j # p + 1 /\ ~(i - 1 < p) /\ j - 1 = i
                    BY ONLY <3>1, <4>3, <4>6
                <5> QED
                    BY ONLY <4>1, <4>2, <5>1
            <4> QED
                BY ONLY <4>3, <4>4, <4>5, <4>6
        <3> QED
            BY <1>12, <3>2, <3>4, <3>7, <3>8
    <2>3. ASSUME NEW i \in 1..n - 1, NEW j \in 1..n - 1, r[i] = r[j] PROVE i = j
        <3>1. PICK s \in 1..n : s = IF i < p THEN i ELSE i + 1
            BY <1>8
        <3>2. PICK t \in 1..n : t = IF j < p THEN j ELSE j + 1
            BY <1>8
        <3>3. r[i] = q[s] /\ r[j] = q[t]
            BY <1>8, <1>10, <3>1, <3>2
        <3>4. q[s] = q[t]
            BY <2>3, <3>3
        <3>5. \A x, y \in 1..n : q[x] = q[y] => x = y
            BY <1>7 DEF Chain
        <3>6. s = t
            BY <3>4, <3>5
        <3> QED
            BY <1>8, <3>1, <3>2, <3>6
    <2>4. ASSUME NEW x \in DOMAIN u.bucket, x \notin out \cup {b},
                 u.bucket[x].free = TRUE, u.bucket[x].order = o
          PROVE  \E i \in 1..n - 1 : r[i] = x
        <3>1. x \in DOMAIN m.bucket /\ x \notin out /\ m.bucket[x].free = TRUE /\ m.bucket[x].order = o
            BY <1>12, <2>4
        <3>2. PICK j \in 1..n : q[j] = x
            BY <1>7, <3>1 DEF Chain
        <3>3. j # p
            BY <1>8, <2>4, <3>2
        <3>4. PICK i \in 1..n - 1 : i = IF j < p THEN j ELSE j - 1
            BY <1>8, <3>3
        <3>5. r[i] = q[j]
            BY <1>8, <1>10, <3>3, <3>4
        <3> QED
            BY <3>2, <3>4, <3>5
    <2> QED
        BY <2>1, <2>2, <2>3, <2>4 DEF Chain
<1>14. Chained(u, o, out \cup {b})
    <2>1. \E s \in [0..(n - 1) + 1 -> Int] : Chain(u, o, n - 1, s, out \cup {b})
        BY ONLY <1>11, <1>13
    <2> QED
        BY ONLY <1>11, <2>1 DEF Chained
<1> QED
    BY <1>1, <1>2, <1>3, <1>4, <1>9, <1>14

\* The other lists have no pointer to the bucket.
LEMMA ExtractOtherList ==
    ASSUME NEW w, WorkDone(w), NEW b \in DOMAIN w.mem.bucket, NEW v, Extracted(w, b, v),
           NEW out, b \notin out, w.mem.bucket[b].free = TRUE, Chains(w.mem, out),
           NEW o \in Order, o # w.mem.bucket[b].order
    PROVE  Chained(v.mem, o, out \cup {b})
<1>1. PICK m : m = w.mem
    OBVIOUS
<1>2. PICK u : u = v.mem
    OBVIOUS
<1>3. PICK k : k = m.bucket[b]
    OBVIOUS
<1>4. PICK c : c = k.order
    OBVIOUS
<1>5. c \in Order /\ c # o /\ DOMAIN m.bucket \subseteq Nat /\ b \in DOMAIN m.bucket
      /\ k.free = TRUE
    BY <1>1, <1>3, <1>4, Buckets
<1>6. PICK n \in Nat : \E q \in [0..n + 1 -> Int] : Chain(m, o, n, q, out)
    BY <1>1 DEF Chains, Chained
<1>7. PICK q \in [0..n + 1 -> Int] : Chain(m, o, n, q, out)
    BY <1>6
<1>8. PICK n2 \in Nat : \E q2 \in [0..n2 + 1 -> Int] : Chain(m, c, n2, q2, out)
    BY <1>1, <1>5 DEF Chains, Chained
<1>9. PICK q2 \in [0..n2 + 1 -> Int] : Chain(m, c, n2, q2, out)
    BY <1>8
<1>10. PICK p \in 1..n2 : q2[p] = b
    BY <1>3, <1>4, <1>5, <1>9 DEF Chain
<1>11. /\ k.prev # Nil => k.prev \in DOMAIN m.bucket /\ m.bucket[k.prev].order = c
       /\ k.next # Nil => k.next \in DOMAIN m.bucket /\ m.bucket[k.next].order = c
    <2>1. /\ k.next = q2[p + 1] /\ k.prev = q2[p - 1]
          /\ p = 1 => q2[p - 1] = Nil
          /\ p = n2 => q2[p + 1] = Nil
        <3>1. /\ n2 \in Nat /\ p \in 1..n2 /\ Chain(m, c, n2, q2, out) /\ q2[p] = b
            BY <1>5, <1>9, <1>10
        <3>2. Placed(m, c, n2, q2, p)
            BY ONLY <3>1, Place
        <3> QED
            BY <1>3, <3>1, <3>2 DEF Placed
    <2>2. ASSUME k.prev # Nil PROVE k.prev \in DOMAIN m.bucket /\ m.bucket[k.prev].order = c
        <3>1. p - 1 \in 1..n2
            BY <1>8, <1>10, <2>1, <2>2
        <3>2. q2[p - 1] \in DOMAIN m.bucket /\ m.bucket[q2[p - 1]].order = c
            BY <1>9, <3>1 DEF Chain
        <3> QED
            BY <2>1, <3>2
    <2>3. ASSUME k.next # Nil PROVE k.next \in DOMAIN m.bucket /\ m.bucket[k.next].order = c
        <3>1. p + 1 \in 1..n2
            BY <1>8, <1>10, <2>1, <2>3
        <3>2. q2[p + 1] \in DOMAIN m.bucket /\ m.bucket[q2[p + 1]].order = c
            BY <1>9, <3>1 DEF Chain
        <3> QED
            BY <2>1, <3>2
    <2> QED
        BY <2>2, <2>3
<1>12. /\ DOMAIN u.bucket = DOMAIN m.bucket
       /\ u.heads[o] = m.heads[o]
       /\ \A x \in DOMAIN m.bucket :
             /\ u.bucket[x].order = m.bucket[x].order /\ u.bucket[x].free = m.bucket[x].free
             /\ x # b /\ x # k.prev /\ x # k.next => u.bucket[x] = m.bucket[x]
    BY <1>1, <1>2, <1>3, <1>4, <1>5 DEF Extracted, SameShape
<1>13. ASSUME NEW i \in 1..n
       PROVE  q[i] # b /\ u.bucket[q[i]] = m.bucket[q[i]]
    <2>1. q[i] \in DOMAIN m.bucket /\ m.bucket[q[i]].order = o
        BY <1>7 DEF Chain
    <2>2. q[i] # b /\ q[i] # k.prev /\ q[i] # k.next
        BY <1>3, <1>4, <1>5, <1>11, <2>1 DEF Nil
    <2> QED
        BY <1>12, <2>1, <2>2
<1>14. Chain(u, o, n, q, out \cup {b})
    <2>1. q[0] = Nil /\ q[n + 1] = Nil /\ u.heads[o] = q[1]
        BY <1>7, <1>12 DEF Chain
    <2>2. ASSUME NEW i \in 1..n
          PROVE  /\ q[i] \in DOMAIN u.bucket /\ q[i] \notin out \cup {b}
                 /\ u.bucket[q[i]].free = TRUE
                 /\ u.bucket[q[i]].order = o
                 /\ u.bucket[q[i]].next = q[i + 1]
                 /\ u.bucket[q[i]].prev = q[i - 1]
        <3>1. q[i] # b /\ u.bucket[q[i]] = m.bucket[q[i]]
            BY <1>13
        <3> QED
            BY <1>7, <1>12, <3>1 DEF Chain
    <2>3. \A i, j \in 1..n : q[i] = q[j] => i = j
        BY <1>7 DEF Chain
    <2>4. ASSUME NEW x \in DOMAIN u.bucket, x \notin out \cup {b},
                 u.bucket[x].free = TRUE, u.bucket[x].order = o
          PROVE  \E i \in 1..n : q[i] = x
        BY <1>7, <1>12, <2>4 DEF Chain
    <2> QED
        BY <2>1, <2>2, <2>3, <2>4 DEF Chain
<1> QED
    BY <1>2, <1>14 DEF Chained

TakenOut(w, b, v, k, out) ==
    /\ Good(v, k, out \cup {b})
    /\ SameShape(w.mem, v.mem)
    /\ <<"bucket", b>> \in v.dirty

\* A free bucket that leaves its list, its neighbours reported.
LEMMA ExtractKeeps ==
    ASSUME NEW w, NEW k, NEW out, Good(w, k, out),
           NEW b \in DOMAIN w.mem.bucket, b \notin out, w.mem.bucket[b].free = TRUE,
           NEW v, v = ExtractBucket(w, b)
    PROVE  TakenOut(w, b, v, k, out)
<1>1. WorkDone(w) /\ w.ok = TRUE /\ Chains(w.mem, out)
    BY DEF Good
<1>2. Extracted(w, b, v)
    BY <1>1, ExtractIs
<1>3. w.mem.heads[w.mem.bucket[b].order] = b => w.mem.bucket[b].prev = Nil
    BY <1>1, <1>2, ExtractSameList
<1>4. Chains(v.mem, out \cup {b})
    <2>1. ASSUME NEW o \in Order PROVE Chained(v.mem, o, out \cup {b})
        <3>1. CASE o = w.mem.bucket[b].order
            BY <1>1, <1>2, <3>1, ExtractSameList
        <3>2. CASE o # w.mem.bucket[b].order
            BY <1>1, <1>2, <3>2, ExtractOtherList
        <3> QED
            BY <3>1, <3>2
    <2> QED
        BY <2>1 DEF Chains
<1>5. /\ WorkDone(v) /\ v.ok = TRUE /\ SameShape(w.mem, v.mem)
      /\ <<"bucket", b>> \in v.dirty
    <2>1. b # Nil
        BY <1>1, Buckets DEF Nil
    <2> QED
        BY <1>1, <1>2, <1>3, <2>1 DEF Extracted
<1>6. Covered(k, v.mem, v.dirty, out \cup {b})
    <2>1. PICK d : d = w.dirty /\ Covered(k, w.mem, d, out)
        BY DEF Good
    <2>2. d \subseteq v.dirty /\ v.mem.count = w.mem.count
        BY <1>2, <2>1 DEF Extracted, SameShape
    <2>3. ASSUME NEW o \in Order PROVE <<"head", o>> \in v.dirty \/ v.mem.heads[o] = k.heads[o]
        <3>1. CASE o = w.mem.bucket[b].order
            BY <1>2, <3>1 DEF Extracted
        <3>2. CASE o # w.mem.bucket[b].order
            <4>1. v.mem.heads[o] = w.mem.heads[o]
                BY <1>2, <3>2 DEF Extracted
            <4> QED
                BY <2>1, <2>2, <4>1 DEF Covered
        <3> QED
            BY <3>1, <3>2
    <2>4. ASSUME NEW x \in DOMAIN v.mem.bucket
          PROVE  \/ x \in out \cup {b}
                 \/ <<"bucket", x>> \in v.dirty
                 \/ x \in DOMAIN k.bucket /\ v.mem.bucket[x] = k.bucket[x]
                 \/ x \notin DOMAIN k.bucket /\ v.mem.bucket[x] = Zero
        <3>1. x \in DOMAIN w.mem.bucket /\ x # Nil
            BY <1>1, <1>5, Buckets DEF SameShape, Nil
        <3>2. CASE x = b \/ x = w.mem.bucket[b].prev \/ x = w.mem.bucket[b].next
            BY <1>2, <3>1, <3>2 DEF Extracted
        <3>3. CASE ~(x = b \/ x = w.mem.bucket[b].prev \/ x = w.mem.bucket[b].next)
            <4>1. v.mem.bucket[x] = w.mem.bucket[x]
                BY <1>2, <3>1, <3>3 DEF Extracted
            <4> QED
                BY <2>1, <2>2, <3>1, <4>1 DEF Covered
        <3> QED
            BY <3>2, <3>3
    <2>5. <<"count", 0>> \in v.dirty \/ v.mem.count = k.count
        BY <2>1, <2>2 DEF Covered
    <2> QED
        BY <2>3, <2>4, <2>5 DEF Covered
<1> QED
    BY <1>4, <1>5, <1>6 DEF Good, TakenOut

-----------------------------------------------------------------------------
(* One bucket becomes the first of its list.                                 *)

Inserted(w, b, v) ==
    LET c == w.mem.bucket[b].order
        f == w.mem.heads[c]
    IN /\ WorkDone(v)
       /\ SameShape(w.mem, v.mem)
       /\ \A x \in DOMAIN w.mem.bucket :
             /\ v.mem.bucket[x].next = IF x = b THEN f ELSE w.mem.bucket[x].next
             /\ v.mem.bucket[x].prev =
                   IF x = f THEN b ELSE IF x = b THEN Nil ELSE w.mem.bucket[x].prev
             /\ x # b /\ x # f => v.mem.bucket[x] = w.mem.bucket[x]
       /\ \A o \in Order : v.mem.heads[o] = IF o = c THEN b ELSE w.mem.heads[o]
       /\ w.ok = TRUE /\ w.mem.bucket[b].free = TRUE
             /\ (f # Nil => w.mem.bucket[f].prev = Nil) => v.ok = TRUE
       /\ w.dirty \subseteq v.dirty
       /\ \A x \in {b, f} \ {Nil} : <<"bucket", x>> \in v.dirty
       /\ <<"head", c>> \in v.dirty

\* insert_bucket, field by field.
LEMMA InsertIs ==
    ASSUME NEW w, WorkDone(w), NEW b \in DOMAIN w.mem.bucket
    PROVE  Inserted(w, b, InsertBucket(w, b))
<1>1. PICK B : B = w.mem.bucket
    OBVIOUS
<1>2. PICK H : H = w.mem.heads
    OBVIOUS
<1>3. PICK k : k = B[b]
    OBVIOUS
<1>4. PICK f : f = H[k.order]
    OBVIOUS
<1>5. PICK linked : linked = [x \in DOMAIN B |->
                     [B[x] EXCEPT
                        !.next = IF x = b THEN f ELSE @,
                        !.prev = IF x = f THEN b ELSE IF x = b THEN Nil ELSE @]]
    OBVIOUS
<1>6. PICK u : u = [w EXCEPT !.mem.bucket = linked,
                         !.mem.heads[k.order] = b,
                         !.ok = /\ @ /\ k.free
                                /\ f # Nil => B[f].prev = Nil]
    OBVIOUS
<1>7. k \in BucketRecord /\ k.order \in Order /\ k.next \in Int /\ k.prev \in Int
      /\ DOMAIN B \subseteq Nat /\ b \in DOMAIN B /\ H \in [Order -> Int] /\ b \in Int /\ f \in Int
      /\ \A x \in DOMAIN B : B[x] \in BucketRecord
    BY <1>1, <1>2, <1>3, <1>4, Buckets
<1>8. ASSUME NEW x \in DOMAIN B
      PROVE  /\ linked[x] \in BucketRecord
             /\ linked[x].order = B[x].order
             /\ linked[x].free = B[x].free
             /\ linked[x].next = IF x = b THEN f ELSE B[x].next
             /\ linked[x].prev = IF x = f THEN b ELSE IF x = b THEN Nil ELSE B[x].prev
             /\ x # b /\ x # f => linked[x] = B[x]
    <2>1. PICK i : i = IF x = b THEN f ELSE B[x].next
        OBVIOUS
    <2>2. PICK j : j = IF x = f THEN b ELSE IF x = b THEN Nil ELSE B[x].prev
        OBVIOUS
    <2>3. B[x] \in BucketRecord /\ i \in Int /\ j \in Int
        BY <1>7, <2>1, <2>2 DEF BucketRecord, Nil
    <2>a. PICK c : c = B[x]
        OBVIOUS
    <2>b. PICK l : l = linked[x]
        OBVIOUS
    <2>4. c \in BucketRecord /\ i \in Int /\ j \in Int /\ l = Relinked(c, i, j)
        BY <1>5, <2>1, <2>2, <2>3, <2>a, <2>b DEF Relinked
    <2>c. /\ l \in BucketRecord /\ l.order = c.order /\ l.free = c.free
          /\ l.next = i /\ l.prev = j
          /\ i = c.next /\ j = c.prev => l = c
        BY ONLY <2>4, BucketFields
    <2>5. /\ linked[x] \in BucketRecord /\ linked[x].order = B[x].order /\ linked[x].free = B[x].free
          /\ linked[x].next = i /\ linked[x].prev = j
          /\ i = B[x].next /\ j = B[x].prev => linked[x] = B[x]
        BY ONLY <2>a, <2>b, <2>c
    <2> QED
        BY <2>1, <2>2, <2>5
<1>9. linked \in [DOMAIN B -> BucketRecord]
    BY <1>5, <1>8
<1>10. PICK G : G = [H EXCEPT ![k.order] = b]
    OBVIOUS
<1>11. PICK m : m = [w.mem EXCEPT !.bucket = linked, !.heads = G]
    OBVIOUS
<1>12. /\ G \in [Order -> Int]
       /\ \A o \in Order : G[o] = IF o = k.order THEN b ELSE H[o]
    BY <1>7, <1>10
<1>13. m \in Memory /\ m.count = w.mem.count /\ m.bucket = linked /\ m.heads = G
    <2>1. linked \in UNION {[D -> BucketRecord] : D \in SUBSET Nat}
        BY <1>7, <1>9
    <2>2. w.mem \in Memory
        BY DEF WorkDone
    <2> QED
        BY <2>1, <2>2, <1>11, <1>12 DEF Memory
<1>14. /\ DOMAIN u = {"mem", "dirty", "ok"} /\ u = [x \in DOMAIN u |-> u[x]]
       /\ u.mem = m /\ u.dirty = w.dirty
       /\ u.ok = (w.ok /\ k.free /\ (f # Nil => B[f].prev = Nil))
    BY <1>6, <1>10, <1>11, <1>2 DEF WorkDone, Memory
<1>15. WorkDone(u) /\ (w.ok = TRUE /\ k.free = TRUE /\ (f # Nil => B[f].prev = Nil) => u.ok = TRUE)
    BY <1>7, <1>13, <1>14 DEF WorkDone, BucketRecord
<1>16. InsertBucket(w, b) = Dirtied(u, {b, f}, {k.order})
    BY <1>5, <1>6, <1>1, <1>2, <1>3, <1>4 DEF InsertBucket
<1>17. {b, f} \in SUBSET Int /\ {k.order} \in SUBSET Int
    BY <1>7 DEF Order
<1>18. PICK v : v = InsertBucket(w, b)
    OBVIOUS
<1>19. /\ WorkDone(v) /\ v.mem = m /\ v.ok = u.ok
       /\ w.dirty \subseteq v.dirty
       /\ \A x \in {b, f} \ {Nil} : <<"bucket", x>> \in v.dirty
       /\ <<"head", k.order>> \in v.dirty
    <2>1. /\ WorkDone(v) /\ v.mem = u.mem /\ v.ok = u.ok
          /\ u.dirty \subseteq v.dirty
          /\ \A x \in {b, f} \ {Nil} : <<"bucket", x>> \in v.dirty
          /\ \A x \in {k.order} : <<"head", x>> \in v.dirty
        BY ONLY <1>15, <1>16, <1>17, <1>18, DirtiedIs
    <2> QED
        BY <1>14, <2>1
<1>20. SameShape(w.mem, m)
    BY <1>8, <1>9, <1>13, <1>1 DEF SameShape
<1>21. /\ v.mem.bucket = linked /\ v.mem.heads = G /\ w.mem.bucket = B /\ w.mem.heads = H
       /\ w.mem.bucket[b].order = k.order /\ w.mem.heads[k.order] = f
       /\ WorkDone(v) /\ SameShape(w.mem, v.mem)
    BY <1>19, <1>20, <1>13, <1>1, <1>2, <1>3, <1>4
<1>22. w.ok = TRUE /\ B[b].free = TRUE /\ (f # Nil => B[f].prev = Nil) => v.ok = TRUE
    BY <1>15, <1>19, <1>3
<1> QED
    BY ONLY <1>8, <1>12, <1>21, <1>22, <1>18, <1>19 DEF Inserted

\* The list of the bucket's order has it in front.
LEMMA InsertSameList ==
    ASSUME NEW w, WorkDone(w), NEW b \in DOMAIN w.mem.bucket, NEW v, Inserted(w, b, v),
           NEW out, b \in out, w.mem.bucket[b].free = TRUE, Chains(w.mem, out)
    PROVE  LET c == w.mem.bucket[b].order
               f == w.mem.heads[c]
           IN /\ f # Nil => /\ f \in DOMAIN w.mem.bucket /\ f # b
                            /\ w.mem.bucket[f].order = c
                            /\ w.mem.bucket[f].prev = Nil
              /\ Chained(v.mem, c, out \ {b})
<1>1. PICK m : m = w.mem
    OBVIOUS
<1>2. PICK u : u = v.mem
    OBVIOUS
<1>3. PICK o : o = m.bucket[b].order
    OBVIOUS
<1>4. PICK f : f = m.heads[o]
    OBVIOUS
<1>5. o \in Order /\ DOMAIN m.bucket \subseteq Nat /\ b \in DOMAIN m.bucket /\ b \in Nat
      /\ m.bucket[b].free = TRUE
    BY <1>1, <1>3, Buckets
<1>6. PICK n \in Nat : \E q \in [0..n + 1 -> Int] : Chain(m, o, n, q, out)
    BY <1>1, <1>5 DEF Chains, Chained
<1>7. PICK q \in [0..n + 1 -> Int] : Chain(m, o, n, q, out)
    BY <1>6
<1>8. /\ q[0] = Nil /\ q[n + 1] = Nil /\ f = q[1]
      /\ \A i \in 1..n : /\ q[i] \in DOMAIN m.bucket /\ q[i] \notin out /\ q[i] # b
                         /\ m.bucket[q[i]].free = TRUE
                         /\ m.bucket[q[i]].order = o
                         /\ m.bucket[q[i]].next = q[i + 1]
                         /\ m.bucket[q[i]].prev = q[i - 1]
      /\ \A i, j \in 1..n : q[i] = q[j] => i = j
    BY <1>4, <1>7 DEF Chain
<1>9. ASSUME f # Nil
      PROVE  1 \in 1..n /\ f \in DOMAIN m.bucket /\ f # b /\ m.bucket[f].order = o /\ m.bucket[f].prev = Nil
    <2>1. n # 0
        BY <1>8, <1>9
    <2>2. 1 \in 1..n /\ 1 - 1 = 0
        BY <1>6, <2>1
    <2>3. q[1] \in DOMAIN m.bucket /\ q[1] # b /\ m.bucket[q[1]].order = o /\ m.bucket[q[1]].prev = q[1 - 1]
        BY <1>8, <2>2
    <2> QED
        BY <1>8, <2>2, <2>3
<1>10. PICK r : r = [i \in 0..n + 2 |-> IF i = 0 THEN Nil ELSE IF i = 1 THEN b ELSE q[i - 1]]
    OBVIOUS
<1>11. n + 1 \in Nat /\ (n + 1) + 1 = n + 2 /\ r \in [0..n + 2 -> Int]
    BY <1>5, <1>6, <1>10 DEF Nil
<1>12. /\ DOMAIN u.bucket = DOMAIN m.bucket
       /\ u.heads[o] = b
       /\ \A x \in DOMAIN m.bucket :
             /\ u.bucket[x].order = m.bucket[x].order /\ u.bucket[x].free = m.bucket[x].free
             /\ u.bucket[x].next = IF x = b THEN f ELSE m.bucket[x].next
             /\ u.bucket[x].prev = IF x = f THEN b ELSE IF x = b THEN Nil ELSE m.bucket[x].prev
    BY <1>1, <1>2, <1>3, <1>4, <1>5 DEF Inserted, SameShape
<1>13. Chain(u, o, n + 1, r, out \ {b})
    <2>1. r[0] = Nil /\ r[(n + 1) + 1] = Nil /\ u.heads[o] = r[1]
        BY <1>6, <1>8, <1>10, <1>12
    <2>2. ASSUME NEW i \in 1..n + 1
          PROVE  /\ r[i] \in DOMAIN u.bucket /\ r[i] \notin out \ {b}
                 /\ u.bucket[r[i]].free = TRUE
                 /\ u.bucket[r[i]].order = o
                 /\ u.bucket[r[i]].next = r[i + 1]
                 /\ u.bucket[r[i]].prev = r[i - 1]
        <3>1. CASE i = 1
            <4>1. r[1] = b /\ r[1 - 1] = Nil /\ r[1 + 1] = q[1]
                BY <1>6, <1>10
            <4>2. b # f
                BY <1>5, <1>9 DEF Nil
            <4>3. u.bucket[b].next = q[1] /\ u.bucket[b].prev = Nil
                BY <1>5, <1>8, <1>12, <4>2
            <4> QED
                BY <1>3, <1>5, <1>12, <3>1, <4>1, <4>3
        <3>2. CASE i # 1
            <4>1. PICK j \in 1..n : j = i - 1
                BY <1>6, <3>2
            <4>2. PICK x : x = r[i]
                OBVIOUS
            <4>3. x = q[j] /\ i - 1 = j
                BY <1>6, <1>10, <3>2, <4>1, <4>2
            <4>4. /\ x \in DOMAIN m.bucket /\ x \notin out /\ x # b
                  /\ m.bucket[x].free = TRUE /\ m.bucket[x].order = o
                  /\ m.bucket[x].next = q[j + 1] /\ m.bucket[x].prev = q[j - 1]
                BY <1>8, <4>1, <4>3
            <4>5. x = f <=> j = 1
                <5>1. 1 \in 1..n
                    BY <1>6, <4>1
                <5> QED
                    BY <1>8, <4>1, <4>3, <5>1
            <4>6. r[i + 1] = q[j + 1]
                BY <1>6, <1>10, <3>2, <4>1
            <4>7. r[i - 1] = IF j = 1 THEN b ELSE q[j - 1]
                BY <1>6, <1>10, <3>2, <4>1
            <4> QED
                BY <1>12, <4>2, <4>4, <4>5, <4>6, <4>7
        <3> QED
            BY <3>1, <3>2
    <2>3. ASSUME NEW i \in 1..n + 1, NEW j \in 1..n + 1, r[i] = r[j] PROVE i = j
        <3>1. \A t \in 1..n + 1 : t # 1 => t - 1 \in 1..n /\ r[t] = q[t - 1] /\ r[t] # b
            BY <1>6, <1>8, <1>10
        <3>2. r[1] = b
            BY <1>6, <1>10
        <3>3. CASE i = 1 \/ j = 1
            BY <2>3, <3>1, <3>2, <3>3
        <3>4. CASE i # 1 /\ j # 1
            <4>1. i - 1 \in 1..n /\ j - 1 \in 1..n /\ q[i - 1] = q[j - 1]
                BY <2>3, <3>1, <3>4
            <4>2. i - 1 = j - 1
                BY <1>8, <4>1
            <4> QED
                BY <4>2
        <3> QED
            BY <3>3, <3>4
    <2>4. ASSUME NEW x \in DOMAIN u.bucket, x \notin out \ {b},
                 u.bucket[x].free = TRUE, u.bucket[x].order = o
          PROVE  \E i \in 1..n + 1 : r[i] = x
        <3>1. CASE x = b
            <4>1. 1 \in 1..n + 1 /\ r[1] = b
                BY <1>6, <1>10
            <4> QED
                BY <3>1, <4>1
        <3>2. CASE x # b
            <4>1. x \in DOMAIN m.bucket /\ x \notin out /\ m.bucket[x].free = TRUE /\ m.bucket[x].order = o
                BY <1>12, <2>4, <3>2
            <4>2. PICK j \in 1..n : q[j] = x
                BY <1>7, <4>1 DEF Chain
            <4>3. j + 1 \in 1..n + 1 /\ r[j + 1] = q[j]
                BY <1>6, <1>10, <4>2
            <4>4. r[j + 1] = x
                BY <4>2, <4>3
            <4> QED
                BY ONLY <4>3, <4>4
        <3> QED
            BY <3>1, <3>2
    <2> QED
        BY <2>1, <2>2, <2>3, <2>4 DEF Chain
<1>14. Chained(u, o, out \ {b})
    <2>1. \E s \in [0..(n + 1) + 1 -> Int] : Chain(u, o, n + 1, s, out \ {b})
        BY ONLY <1>11, <1>13
    <2> QED
        BY ONLY <1>11, <2>1 DEF Chained
<1> QED
    BY <1>1, <1>2, <1>3, <1>4, <1>9, <1>14

\* The other lists have no pointer to the bucket that comes first.
LEMMA InsertOtherList ==
    ASSUME NEW w, WorkDone(w), NEW b \in DOMAIN w.mem.bucket, NEW v, Inserted(w, b, v),
           NEW out, b \in out, w.mem.bucket[b].free = TRUE, Chains(w.mem, out),
           NEW o \in Order, o # w.mem.bucket[b].order
    PROVE  Chained(v.mem, o, out \ {b})
<1>1. PICK m : m = w.mem
    OBVIOUS
<1>2. PICK u : u = v.mem
    OBVIOUS
<1>3. PICK c : c = m.bucket[b].order
    OBVIOUS
<1>4. PICK f : f = m.heads[c]
    OBVIOUS
<1>5. c \in Order /\ c # o /\ DOMAIN m.bucket \subseteq Nat /\ b \in DOMAIN m.bucket
    BY <1>1, <1>3, Buckets
<1>6. f # Nil => f \in DOMAIN m.bucket /\ m.bucket[f].order = c
    BY <1>1, <1>3, <1>4, InsertSameList
<1>7. PICK n \in Nat : \E q \in [0..n + 1 -> Int] : Chain(m, o, n, q, out)
    BY <1>1 DEF Chains, Chained
<1>8. PICK q \in [0..n + 1 -> Int] : Chain(m, o, n, q, out)
    BY <1>7
<1>9. /\ DOMAIN u.bucket = DOMAIN m.bucket
      /\ u.heads[o] = m.heads[o]
      /\ \A x \in DOMAIN m.bucket :
            /\ u.bucket[x].order = m.bucket[x].order /\ u.bucket[x].free = m.bucket[x].free
            /\ x # b /\ x # f => u.bucket[x] = m.bucket[x]
    BY <1>1, <1>2, <1>3, <1>4, <1>5 DEF Inserted, SameShape
<1>10. ASSUME NEW i \in 1..n
       PROVE  q[i] # b /\ u.bucket[q[i]] = m.bucket[q[i]]
    <2>1. q[i] \in DOMAIN m.bucket /\ m.bucket[q[i]].order = o
        BY <1>8 DEF Chain
    <2>2. q[i] # b /\ q[i] # f
        BY <1>3, <1>5, <1>6, <2>1 DEF Nil
    <2> QED
        BY <1>9, <2>1, <2>2
<1>11. Chain(u, o, n, q, out \ {b})
    <2>1. q[0] = Nil /\ q[n + 1] = Nil /\ u.heads[o] = q[1]
        BY <1>8, <1>9 DEF Chain
    <2>2. ASSUME NEW i \in 1..n
          PROVE  /\ q[i] \in DOMAIN u.bucket /\ q[i] \notin out \ {b}
                 /\ u.bucket[q[i]].free = TRUE
                 /\ u.bucket[q[i]].order = o
                 /\ u.bucket[q[i]].next = q[i + 1]
                 /\ u.bucket[q[i]].prev = q[i - 1]
        <3>1. q[i] # b /\ u.bucket[q[i]] = m.bucket[q[i]]
            BY <1>10
        <3> QED
            BY <1>8, <1>9, <3>1 DEF Chain
    <2>3. \A i, j \in 1..n : q[i] = q[j] => i = j
        BY <1>8 DEF Chain
    <2>4. ASSUME NEW x \in DOMAIN u.bucket, x \notin out \ {b},
                 u.bucket[x].free = TRUE, u.bucket[x].order = o
          PROVE  \E i \in 1..n : q[i] = x
        <3>1. x # b
            BY <1>3, <1>5, <1>9, <2>4
        <3> QED
            BY <1>8, <1>9, <2>4, <3>1 DEF Chain
    <2> QED
        BY <2>1, <2>2, <2>3, <2>4 DEF Chain
<1> QED
    BY <1>2, <1>11 DEF Chained

PutFirst(w, b, v, k, out) ==
    /\ Good(v, k, out \ {b})
    /\ SameShape(w.mem, v.mem)
    /\ \A o \in Order : v.mem.heads[o] =
                           IF o = w.mem.bucket[b].order THEN b ELSE w.mem.heads[o]

\* A free bucket outside the lists joins its list, the old first one reported.
LEMMA InsertKeeps ==
    ASSUME NEW w, NEW k, NEW out, Good(w, k, out),
           NEW b \in DOMAIN w.mem.bucket, b \in out, w.mem.bucket[b].free = TRUE,
           NEW v, v = InsertBucket(w, b)
    PROVE  PutFirst(w, b, v, k, out)
<1>1. WorkDone(w) /\ w.ok = TRUE /\ Chains(w.mem, out)
    BY DEF Good
<1>2. Inserted(w, b, v)
    BY <1>1, InsertIs
<1>3. PICK c : c = w.mem.bucket[b].order
    OBVIOUS
<1>4. PICK f : f = w.mem.heads[c]
    OBVIOUS
<1>5. (f # Nil => w.mem.bucket[f].prev = Nil) /\ Chained(v.mem, c, out \ {b})
    BY <1>1, <1>2, <1>3, <1>4, InsertSameList
<1>6. Chains(v.mem, out \ {b})
    <2>1. ASSUME NEW o \in Order PROVE Chained(v.mem, o, out \ {b})
        <3>1. CASE o = w.mem.bucket[b].order
            BY <1>5, <1>3, <3>1
        <3>2. CASE o # w.mem.bucket[b].order
            BY <1>1, <1>2, <3>2, InsertOtherList
        <3> QED
            BY <3>1, <3>2
    <2> QED
        BY <2>1 DEF Chains
<1>7. /\ WorkDone(v) /\ v.ok = TRUE /\ SameShape(w.mem, v.mem)
      /\ <<"bucket", b>> \in v.dirty
      /\ \A o \in Order : v.mem.heads[o] = IF o = c THEN b ELSE w.mem.heads[o]
    <2>1. b # Nil
        BY <1>1, Buckets DEF Nil
    <2> QED
        BY <1>1, <1>2, <1>5, <1>3, <1>4, <2>1 DEF Inserted
<1>8. Covered(k, v.mem, v.dirty, out \ {b})
    <2>1. PICK d : d = w.dirty /\ Covered(k, w.mem, d, out)
        BY DEF Good
    <2>2. d \subseteq v.dirty /\ v.mem.count = w.mem.count
        BY <1>2, <2>1 DEF Inserted, SameShape
    <2>3. ASSUME NEW o \in Order PROVE <<"head", o>> \in v.dirty \/ v.mem.heads[o] = k.heads[o]
        <3>1. CASE o = c
            BY <1>2, <1>3, <3>1 DEF Inserted
        <3>2. CASE o # c
            BY <2>1, <2>2, <1>7, <3>2 DEF Covered
        <3> QED
            BY <3>1, <3>2
    <2>4. ASSUME NEW x \in DOMAIN v.mem.bucket
          PROVE  \/ x \in out \ {b}
                 \/ <<"bucket", x>> \in v.dirty
                 \/ x \in DOMAIN k.bucket /\ v.mem.bucket[x] = k.bucket[x]
                 \/ x \notin DOMAIN k.bucket /\ v.mem.bucket[x] = Zero
        <3>1. x \in DOMAIN w.mem.bucket /\ x # Nil
            BY <1>1, <1>7, Buckets DEF SameShape, Nil
        <3>2. CASE x = b \/ x = f
            BY <1>2, <1>3, <1>4, <3>1, <3>2 DEF Inserted
        <3>3. CASE ~(x = b \/ x = f)
            <4>1. v.mem.bucket[x] = w.mem.bucket[x]
                BY <1>2, <1>3, <1>4, <3>1, <3>3 DEF Inserted
            <4> QED
                BY <2>1, <2>2, <3>1, <3>3, <4>1 DEF Covered
        <3> QED
            BY <3>2, <3>3
    <2>5. <<"count", 0>> \in v.dirty \/ v.mem.count = k.count
        BY <2>1, <2>2 DEF Covered
    <2> QED
        BY <2>3, <2>4, <2>5 DEF Covered
<1> QED
    BY <1>6, <1>7, <1>8, <1>3 DEF Good, PutFirst

-----------------------------------------------------------------------------
(* Powers of two, and the file as they cut it.                               *)

\* Powers of two.
LEMMA ShiftIs ==
    /\ Shift[0] = 1
    /\ \A n \in Nat : Shift[n] \in Nat /\ Shift[n] >= 1 /\ Shift[n + 1] = 2 * Shift[n]
    BY ONLY Growing!ShiftIs, Zenon DEF Shift, Growing!Shift

End(m, b) == b + Shift[m.bucket[b].order]

FileEnd(m) == IF m.count = 0 THEN 0 ELSE Shift[m.count - 1]

(* Each unit lies in one bucket.                                             *)
Tiles(m) ==
    /\ \A b \in DOMAIN m.bucket : End(m, b) <= FileEnd(m)
    /\ \A b, c \in DOMAIN m.bucket : b < c => End(m, b) <= c
    /\ \A pos \in 0..FileEnd(m) - 1 : \E b \in DOMAIN m.bucket : b <= pos /\ pos < End(m, b)

\* A bucket ends behind its start.
LEMMA Ends ==
    ASSUME NEW w, WorkDone(w)
    PROVE  /\ \A b \in DOMAIN w.mem.bucket : b \in Nat /\ End(w.mem, b) \in Nat /\ b < End(w.mem, b)
           /\ FileEnd(w.mem) \in Nat
<1>1. \A b \in DOMAIN w.mem.bucket : b \in Nat /\ w.mem.bucket[b].order \in Nat
    BY Buckets DEF Order
<1>2. w.mem.count \in Nat
    BY Buckets
<1>3. w.mem.count # 0 => w.mem.count - 1 \in Nat
    BY <1>2
<1> QED
    BY <1>1, <1>3, ShiftIs DEF End, FileEnd

\* Which unit lies in which bucket depends on orders alone.
LEMMA TilesSame ==
    ASSUME NEW m, NEW v, Tiles(m), v.count = m.count, DOMAIN v.bucket = DOMAIN m.bucket,
           \A x \in DOMAIN m.bucket : v.bucket[x].order = m.bucket[x].order
    PROVE  Tiles(v)
<1>1. FileEnd(v) = FileEnd(m) /\ \A b \in DOMAIN m.bucket : End(v, b) = End(m, b)
    BY DEF FileEnd, End
<1> QED
    BY <1>1 DEF Tiles

-----------------------------------------------------------------------------
(* A bucket outside the lists is changed.                                    *)

\* The chains do not see a bucket outside the lists.
LEMMA ChainsOff ==
    ASSUME NEW m, NEW v, NEW out, NEW b, Chains(m, out),
           v.heads = m.heads,
           \A x : x # b => (x \in DOMAIN v.bucket <=> x \in DOMAIN m.bucket),
           \A x \in DOMAIN m.bucket : x # b => v.bucket[x] = m.bucket[x],
           b \in out \/ b \notin DOMAIN m.bucket \/ m.bucket[b].free = FALSE
    PROVE  Chains(v, out \cup {b})
<1>1. SUFFICES ASSUME NEW o \in Order PROVE Chained(v, o, out \cup {b})
    BY DEF Chains
<1>2. PICK n \in Nat : \E q \in [0..n + 1 -> Int] : Chain(m, o, n, q, out)
    BY DEF Chains, Chained
<1>3. PICK q \in [0..n + 1 -> Int] : Chain(m, o, n, q, out)
    BY <1>2
<1>4. ASSUME NEW i \in 1..n PROVE q[i] # b
    BY <1>3 DEF Chain
<1>5. Chain(v, o, n, q, out \cup {b})
    <2>1. q[0] = Nil /\ q[n + 1] = Nil /\ v.heads[o] = q[1]
        BY <1>3 DEF Chain
    <2>2. ASSUME NEW i \in 1..n
          PROVE  /\ q[i] \in DOMAIN v.bucket /\ q[i] \notin out \cup {b}
                 /\ v.bucket[q[i]].free = TRUE
                 /\ v.bucket[q[i]].order = o
                 /\ v.bucket[q[i]].next = q[i + 1]
                 /\ v.bucket[q[i]].prev = q[i - 1]
        <3>1. q[i] # b /\ q[i] \in DOMAIN m.bucket
            BY <1>3, <1>4 DEF Chain
        <3>2. q[i] \in DOMAIN v.bucket /\ v.bucket[q[i]] = m.bucket[q[i]]
            BY <3>1
        <3> QED
            BY <1>3, <3>1, <3>2 DEF Chain
    <2>3. \A i, j \in 1..n : q[i] = q[j] => i = j
        BY <1>3 DEF Chain
    <2>4. ASSUME NEW x \in DOMAIN v.bucket, x \notin out \cup {b},
                 v.bucket[x].free = TRUE, v.bucket[x].order = o
          PROVE  \E i \in 1..n : q[i] = x
        <3>1. x # b /\ x \notin out
            BY <2>4
        <3>2. x \in DOMAIN m.bucket /\ v.bucket[x] = m.bucket[x]
            BY <3>1
        <3> QED
            BY <1>3, <2>4, <3>1, <3>2 DEF Chain
    <2> QED
        BY <2>1, <2>2, <2>3, <2>4 DEF Chain
<1> QED
    BY <1>5 DEF Chained

\* A bucket that is not free belongs to no list.
LEMMA ChainsUsed ==
    ASSUME NEW m, NEW out, NEW b, Chains(m, out), b \in DOMAIN m.bucket, m.bucket[b].free = FALSE
    PROVE  Chains(m, out \ {b})
<1>1. SUFFICES ASSUME NEW o \in Order PROVE Chained(m, o, out \ {b})
    BY DEF Chains
<1>2. PICK n \in Nat : \E q \in [0..n + 1 -> Int] : Chain(m, o, n, q, out)
    BY DEF Chains, Chained
<1>3. PICK q \in [0..n + 1 -> Int] : Chain(m, o, n, q, out)
    BY <1>2
<1>4. Chain(m, o, n, q, out \ {b})
    <2>1. q[0] = Nil /\ q[n + 1] = Nil /\ m.heads[o] = q[1]
        BY <1>3 DEF Chain
    <2>2. ASSUME NEW i \in 1..n
          PROVE  /\ q[i] \in DOMAIN m.bucket /\ q[i] \notin out \ {b}
                 /\ m.bucket[q[i]].free = TRUE
                 /\ m.bucket[q[i]].order = o
                 /\ m.bucket[q[i]].next = q[i + 1]
                 /\ m.bucket[q[i]].prev = q[i - 1]
        BY <1>3 DEF Chain
    <2>3. \A i, j \in 1..n : q[i] = q[j] => i = j
        BY <1>3 DEF Chain
    <2>4. ASSUME NEW x \in DOMAIN m.bucket, x \notin out \ {b},
                 m.bucket[x].free = TRUE, m.bucket[x].order = o
          PROVE  \E i \in 1..n : q[i] = x
        <3>1. x \notin out
            BY <2>4
        <3> QED
            BY <1>3, <2>4, <3>1 DEF Chain
    <2> QED
        BY <2>1, <2>2, <2>3, <2>4 DEF Chain
<1> QED
    BY <1>4 DEF Chained

(* v is w with another bucket at b and nothing else different.               *)
Altered(w, b, v) ==
    /\ WorkDone(v)
    /\ v.mem.count = w.mem.count /\ v.mem.heads = w.mem.heads
    /\ DOMAIN v.mem.bucket = DOMAIN w.mem.bucket \cup {b}
    /\ \A x \in DOMAIN w.mem.bucket : x # b => v.mem.bucket[x] = w.mem.bucket[x]
    /\ v.dirty = w.dirty

\* Lists and journal when a bucket outside the lists is changed.
LEMMA AlteredKeeps ==
    ASSUME NEW w, NEW k, NEW out, Good(w, k, out), NEW b, NEW v, Altered(w, b, v), v.ok = TRUE,
           b \in out \/ b \notin DOMAIN w.mem.bucket \/ w.mem.bucket[b].free = FALSE
    PROVE  Good(v, k, out \cup {b})
<1>1. Chains(v.mem, out \cup {b})
    <2>1. PICK m : m = w.mem
        OBVIOUS
    <2>2. PICK u : u = v.mem
        OBVIOUS
    <2>3. /\ Chains(m, out) /\ u.heads = m.heads
          /\ \A x : x # b => (x \in DOMAIN u.bucket <=> x \in DOMAIN m.bucket)
          /\ \A x \in DOMAIN m.bucket : x # b => u.bucket[x] = m.bucket[x]
          /\ b \in out \/ b \notin DOMAIN m.bucket \/ m.bucket[b].free = FALSE
        BY <2>1, <2>2 DEF Good, Altered
    <2>4. Chains(u, out \cup {b})
        BY ONLY <2>3, ChainsOff
    <2> QED
        BY <2>2, <2>4
<1>2. Covered(k, v.mem, v.dirty, out \cup {b})
    <2>1. Covered(k, w.mem, w.dirty, out)
        BY DEF Good
    <2>2. ASSUME NEW x \in DOMAIN v.mem.bucket
          PROVE  \/ x \in out \cup {b}
                 \/ <<"bucket", x>> \in v.dirty
                 \/ x \in DOMAIN k.bucket /\ v.mem.bucket[x] = k.bucket[x]
                 \/ x \notin DOMAIN k.bucket /\ v.mem.bucket[x] = Zero
        <3>1. CASE x = b
            BY <3>1
        <3>2. CASE x # b
            <4>1. x \in DOMAIN w.mem.bucket /\ v.mem.bucket[x] = w.mem.bucket[x] /\ v.dirty = w.dirty
                BY <3>2 DEF Altered
            <4> QED
                BY <2>1, <4>1 DEF Covered
        <3> QED
            BY <3>1, <3>2
    <2>3. /\ <<"count", 0>> \in v.dirty \/ v.mem.count = k.count
          /\ \A o \in Order : <<"head", o>> \in v.dirty \/ v.mem.heads[o] = k.heads[o]
        BY <2>1 DEF Altered, Covered
    <2> QED
        BY <2>2, <2>3 DEF Covered
<1> QED
    BY <1>1, <1>2 DEF Good, Altered

\* The order of a bucket.
LEMMA RelabelKeeps ==
    ASSUME NEW w, NEW k, NEW out, Good(w, k, out),
           NEW b \in DOMAIN w.mem.bucket, b \in out, NEW p \in Order,
           NEW v, v = [w EXCEPT !.mem.bucket[b].order = p]
    PROVE  /\ Good(v, k, out) /\ Altered(w, b, v)
           /\ v.mem.bucket[b].order = p /\ v.mem.bucket[b].free = w.mem.bucket[b].free
<1>1. PICK B : B = w.mem.bucket
    OBVIOUS
<1>2. WorkDone(w) /\ B \in [DOMAIN B -> BucketRecord] /\ DOMAIN B \subseteq Nat /\ b \in DOMAIN B
    BY <1>1, Buckets DEF Good
<1>3. PICK C : C = [B EXCEPT ![b] = [@ EXCEPT !.order = p]]
    OBVIOUS
<1>4. /\ C \in [DOMAIN B -> BucketRecord] /\ DOMAIN C = DOMAIN B
      /\ C[b].order = p /\ C[b].free = B[b].free
      /\ \A x \in DOMAIN B : x # b => C[x] = B[x]
    BY <1>2, <1>3 DEF BucketRecord
<1>5. PICK m : m = [w.mem EXCEPT !.bucket = C]
    OBVIOUS
<1>6. m \in Memory /\ m.count = w.mem.count /\ m.heads = w.mem.heads /\ m.bucket = C
    <2>1. C \in UNION {[D -> BucketRecord] : D \in SUBSET Nat}
        BY <1>2, <1>4
    <2>2. w.mem \in Memory
        BY <1>2 DEF WorkDone
    <2> QED
        BY <2>1, <2>2, <1>5 DEF Memory
<1>7. /\ DOMAIN v = {"mem", "dirty", "ok"} /\ v = [x \in DOMAIN v |-> v[x]]
      /\ v.mem = m /\ v.dirty = w.dirty /\ v.ok = w.ok
    BY <1>1, <1>2, <1>3, <1>5 DEF WorkDone, Memory
<1>8. WorkDone(v) /\ v.ok = TRUE
    BY <1>6, <1>7 DEF Good, WorkDone
<1>9. Altered(w, b, v)
    BY <1>1, <1>2, <1>4, <1>6, <1>7, <1>8 DEF Altered
<1>10. Good(v, k, out \cup {b})
    BY <1>8, <1>9, AlteredKeeps
<1>11. out \cup {b} = out
    OBVIOUS
<1> QED
    BY <1>1, <1>4, <1>6, <1>7, <1>9, <1>10, <1>11

\* A bucket where there was none.
PutDown(w, b, p, v, k, out) ==
    /\ Good(v, k, out \cup {b}) /\ Altered(w, b, v)
    /\ v.mem.bucket[b].order = p /\ v.mem.bucket[b].free = TRUE

LEMMA BucketPutKeeps ==
    ASSUME NEW w, NEW k, NEW out, Good(w, k, out),
           NEW b \in Nat, b \notin DOMAIN w.mem.bucket, NEW p \in Order,
           NEW v, v = PutBucket(w, b, p)
    PROVE  PutDown(w, b, p, v, k, out)
<1>1. PICK B : B = w.mem.bucket
    OBVIOUS
<1>2. WorkDone(w) /\ B \in [DOMAIN B -> BucketRecord] /\ DOMAIN B \subseteq Nat /\ b \notin DOMAIN B
    BY <1>1, Buckets DEF Good
<1>3. PICK new : new = [Zero EXCEPT !.order = p, !.free = TRUE]
    OBVIOUS
<1>4. new \in BucketRecord /\ new.order = p /\ new.free = TRUE
    <2>1. new = [order |-> p, free |-> TRUE, next |-> 0, prev |-> 0]
        BY <1>3 DEF Zero
    <2> QED
        BY <2>1 DEF BucketRecord
<1>5. PICK C : C = [x \in DOMAIN B \cup {b} |-> IF x = b THEN new ELSE B[x]]
    OBVIOUS
<1>6. /\ C \in [DOMAIN B \cup {b} -> BucketRecord] /\ DOMAIN C = DOMAIN B \cup {b}
      /\ C[b] = new
      /\ \A x \in DOMAIN B : x # b => C[x] = B[x]
    BY <1>2, <1>5, <1>4
<1>7. PICK m : m = [w.mem EXCEPT !.bucket = C]
    OBVIOUS
<1>8. m \in Memory /\ m.count = w.mem.count /\ m.heads = w.mem.heads /\ m.bucket = C
    <2>1. C \in UNION {[D -> BucketRecord] : D \in SUBSET Nat}
        BY <1>2, <1>6
    <2>2. w.mem \in Memory
        BY <1>2 DEF WorkDone
    <2> QED
        BY <2>1, <2>2, <1>7 DEF Memory
<1>9. v = [w EXCEPT !.mem.bucket = C]
    BY <1>1, <1>2, <1>5, <1>3 DEF PutBucket
<1>10. /\ DOMAIN v = {"mem", "dirty", "ok"} /\ v = [x \in DOMAIN v |-> v[x]]
       /\ v.mem = m /\ v.dirty = w.dirty /\ v.ok = w.ok
    BY <1>9, <1>2, <1>7 DEF WorkDone, Memory
<1>11. WorkDone(v) /\ v.ok = TRUE
    BY <1>8, <1>10 DEF Good, WorkDone
<1>12. Altered(w, b, v)
    BY <1>1, <1>2, <1>6, <1>8, <1>10, <1>11 DEF Altered
<1>13. Good(v, k, out \cup {b})
    BY <1>11, <1>12, AlteredKeeps
<1> QED
    BY <1>4, <1>6, <1>8, <1>10, <1>12, <1>13 DEF PutDown

-----------------------------------------------------------------------------
(* What is in use stays as it is.                                            *)
Survive(m, v) ==
    \A x \in DOMAIN m.bucket : m.bucket[x].free = FALSE =>
        x \in DOMAIN v.bucket /\ v.bucket[x].free = FALSE /\ v.bucket[x].order = m.bucket[x].order

Whole(w, k) == Good(w, k, {}) /\ Tiles(w.mem)

(* v is m with the bucket b cut in halves.                                   *)
Halved(m, b, p, buddy, v) ==
    /\ v.count = m.count
    /\ DOMAIN v.bucket = DOMAIN m.bucket \cup {buddy}
    /\ v.bucket[b].order = p /\ v.bucket[b].free = TRUE
    /\ v.bucket[buddy].order = p /\ v.bucket[buddy].free = TRUE
    /\ \A x \in DOMAIN m.bucket : x # b => /\ v.bucket[x].order = m.bucket[x].order
                                           /\ v.bucket[x].free = m.bucket[x].free

\* A bucket and its buddy cover what the bucket covered.
LEMMA HalvesTile ==
    ASSUME NEW w, WorkDone(w), Tiles(w.mem), NEW b \in DOMAIN w.mem.bucket,
           NEW p \in Nat, w.mem.bucket[b].order = p + 1,
           NEW buddy, buddy = b + Shift[p], buddy \notin DOMAIN w.mem.bucket,
           NEW v, Halved(w.mem, b, p, buddy, v)
    PROVE  Tiles(v)
<1>1. PICK m : m = w.mem
    OBVIOUS
<1>2. /\ \A x \in DOMAIN m.bucket : x \in Nat /\ End(m, x) \in Nat /\ x < End(m, x)
      /\ FileEnd(m) \in Nat
    BY <1>1, Ends
<1>3. PICK s \in Nat : s = Shift[p] /\ s >= 1 /\ Shift[p + 1] = 2 * s
    BY ShiftIs
<1>4. b \in DOMAIN m.bucket /\ b \in Nat /\ buddy \in Nat /\ buddy # b
    BY <1>1, <1>2, <1>3
<1>5. End(m, b) = b + 2 * s
    BY <1>1, <1>3 DEF End
<1>6. /\ FileEnd(v) = FileEnd(m)
      /\ End(v, b) = b + s /\ End(v, buddy) = b + 2 * s
      /\ \A x \in DOMAIN m.bucket : x # b => End(v, x) = End(m, x)
      /\ DOMAIN v.bucket = DOMAIN m.bucket \cup {buddy}
    <2>1. FileEnd(v) = FileEnd(m)
        BY <1>1 DEF Halved, FileEnd
    <2>2. End(v, b) = b + s
        BY <1>3 DEF Halved, End
    <2>3. End(v, buddy) = b + 2 * s
        BY <1>3, <1>4 DEF Halved, End
    <2>4. ASSUME NEW x \in DOMAIN m.bucket, x # b PROVE End(v, x) = End(m, x)
        BY <1>1, <2>4 DEF Halved, End
    <2> QED
        BY <1>1, <2>1, <2>2, <2>3, <2>4 DEF Halved
<1>7. /\ \A x \in DOMAIN m.bucket : End(m, x) <= FileEnd(m)
      /\ \A x, y \in DOMAIN m.bucket : x < y => End(m, x) <= y
      /\ \A pos \in 0..FileEnd(m) - 1 : \E x \in DOMAIN m.bucket : x <= pos /\ pos < End(m, x)
    BY <1>1 DEF Tiles
<1>8. ASSUME NEW x \in DOMAIN v.bucket PROVE End(v, x) <= FileEnd(v)
    <2>1. End(m, b) <= FileEnd(m)
        BY <1>4, <1>7
    <2>2. CASE x = b \/ x = buddy
        BY <1>2, <1>3, <1>4, <1>5, <1>6, <2>1, <2>2
    <2>3. CASE x # b /\ x # buddy
        BY <1>6, <1>7, <2>3
    <2> QED
        BY <2>2, <2>3
<1>9. ASSUME NEW x \in DOMAIN v.bucket, NEW y \in DOMAIN v.bucket, x < y PROVE End(v, x) <= y
    <2>1. CASE x # buddy /\ y # buddy
        <3>1. x \in DOMAIN m.bucket /\ y \in DOMAIN m.bucket /\ End(m, x) <= y
            BY <1>6, <1>7, <1>9, <2>1
        <3>2. CASE x = b
            BY <1>2, <1>3, <1>4, <1>5, <1>6, <3>1, <3>2
        <3>3. CASE x # b
            BY <1>6, <3>1, <3>3
        <3> QED
            BY <3>2, <3>3
    <2>2. CASE x = buddy
        <3>1. y \in DOMAIN m.bucket /\ y \in Nat /\ y # b /\ b < y
            BY <1>2, <1>3, <1>4, <1>6, <1>9, <2>2
        <3>2. End(m, b) <= y
            BY <1>4, <1>7, <3>1
        <3> QED
            BY <1>5, <1>6, <2>2, <3>2
    <2>3. CASE y = buddy /\ x # buddy
        <3>1. x \in DOMAIN m.bucket /\ x \in Nat
            BY <1>2, <1>6, <2>3
        <3>2. CASE x = b
            BY <1>3, <1>4, <1>6, <2>3, <3>2
        <3>3. CASE x < b
            <4>1. End(m, x) <= b /\ End(v, x) = End(m, x)
                BY <1>4, <1>6, <1>7, <3>1, <3>3
            <4> QED
                BY <1>2, <1>3, <1>4, <2>3, <3>1, <4>1
        <3>4. CASE x > b
            <4>1. End(m, b) <= x
                BY <1>4, <1>7, <3>1, <3>4
            <4> QED
                BY <1>3, <1>4, <1>5, <1>9, <2>3, <3>1, <4>1
        <3> QED
            BY <1>4, <3>1, <3>2, <3>3, <3>4
    <2> QED
        BY <2>1, <2>2, <2>3
<1>10. ASSUME NEW pos \in 0..FileEnd(v) - 1
       PROVE  \E x \in DOMAIN v.bucket : x <= pos /\ pos < End(v, x)
    <2>1. PICK x \in DOMAIN m.bucket : x <= pos /\ pos < End(m, x)
        BY <1>6, <1>7
    <2>2. CASE x # b
        BY <1>6, <2>1, <2>2
    <2>3. CASE x = b /\ pos < buddy
        <3>1. b \in DOMAIN v.bucket /\ b <= pos /\ pos < End(v, b)
            BY <1>3, <1>4, <1>6, <2>1, <2>3
        <3> QED
            BY <3>1
    <2>4. CASE x = b /\ ~(pos < buddy)
        <3>1. buddy \in DOMAIN v.bucket /\ buddy <= pos /\ pos < End(v, buddy)
            BY <1>2, <1>4, <1>5, <1>6, <2>1, <2>4
        <3> QED
            BY <3>1
    <2> QED
        BY <2>2, <2>3, <2>4
<1> QED
    BY <1>8, <1>9, <1>10 DEF Tiles

\* split_bucket: the halves in their list, what is in use untouched.
LEMMA SplitKeeps ==
    ASSUME NEW w, NEW k, Whole(w, k), NEW b \in DOMAIN w.mem.bucket,
           w.mem.bucket[b].free = TRUE, NEW p \in Nat, w.mem.bucket[b].order = p + 1
    PROVE  /\ Whole(SplitAt(w, b), k)
           /\ SplitAt(w, b).mem.count = w.mem.count
           /\ b \in DOMAIN SplitAt(w, b).mem.bucket
           /\ SplitAt(w, b).mem.bucket[b].free = TRUE
           /\ SplitAt(w, b).mem.bucket[b].order = p
           /\ Survive(w.mem, SplitAt(w, b).mem)
<1>1. PICK o : o = w.mem.bucket[b].order
    OBVIOUS
<1>2. /\ WorkDone(w) /\ Tiles(w.mem) /\ Good(w, k, {})
      /\ o \in Order /\ o - 1 = p /\ p \in Order /\ b \in Nat
      /\ \A x \in DOMAIN w.mem.bucket : x \in Nat
    <2>1. WorkDone(w) /\ Tiles(w.mem) /\ Good(w, k, {})
        BY DEF Whole, Good
    <2>2. o \in Order /\ b \in Nat /\ \A x \in DOMAIN w.mem.bucket : x \in Nat
        BY <1>1, <2>1, Buckets
    <2>3. o - 1 = p /\ p \in Order
        BY <1>1, <2>2, AllocAssumption DEF Order
    <2> QED
        BY <2>1, <2>2, <2>3
<1>3. PICK s \in Nat : s = Shift[p] /\ s >= 1 /\ Shift[p + 1] = 2 * s
    BY ShiftIs
<1>4. PICK buddy \in Nat : buddy = b + s
    BY <1>2, <1>3
<1>5. buddy # b /\ buddy \notin DOMAIN w.mem.bucket
    <2>1. buddy # b /\ b < buddy
        BY <1>2, <1>3, <1>4
    <2>2. ASSUME buddy \in DOMAIN w.mem.bucket PROVE FALSE
        <3>1. End(w.mem, b) <= buddy
            BY <1>2, <2>1, <2>2 DEF Tiles
        <3> QED
            BY <1>2, <1>3, <1>4, <3>1 DEF End
    <2> QED
        BY <2>1, <2>2
<1>6. PICK w1 : w1 = ExtractBucket(w, b)
    OBVIOUS
<1>7. PICK none : none = {}
    OBVIOUS
<1>8. PICK one : one = {b}
    OBVIOUS
<1>9. PICK out : out = {b, buddy}
    OBVIOUS
<1>10. Good(w1, k, one) /\ SameShape(w.mem, w1.mem)
    <2>1. /\ b \notin none /\ Good(w, k, none)
          /\ b \in DOMAIN w.mem.bucket /\ w.mem.bucket[b].free = TRUE
        BY <1>2, <1>7
    <2>2. TakenOut(w, b, w1, k, none)
        BY ONLY <1>6, <2>1, ExtractKeeps
    <2>3. none \cup {b} = one
        BY <1>7, <1>8
    <2> QED
        BY <2>2, <2>3 DEF TakenOut
<1>11. PICK w2 : w2 = [w1 EXCEPT !.mem.bucket[b].order = p]
    OBVIOUS
<1>12. b \in DOMAIN w1.mem.bucket /\ b \in one
    BY <1>10, <1>8 DEF SameShape
<1>13. /\ Good(w2, k, one) /\ Altered(w1, b, w2)
       /\ w2.mem.bucket[b].order = p /\ w2.mem.bucket[b].free = w1.mem.bucket[b].free
    BY ONLY <1>2, <1>10, <1>11, <1>12, RelabelKeeps
<1>14. buddy \notin DOMAIN w2.mem.bucket
    BY <1>5, <1>10, <1>13 DEF Altered, SameShape
<1>15. PICK w3 : w3 = PutBucket(w2, buddy, p)
    OBVIOUS
<1>16. /\ Good(w3, k, out) /\ Altered(w2, buddy, w3)
       /\ w3.mem.bucket[buddy].order = p /\ w3.mem.bucket[buddy].free = TRUE
    <2>1. PutDown(w2, buddy, p, w3, k, one)
        BY ONLY <1>2, <1>4, <1>13, <1>14, <1>15, BucketPutKeeps
    <2>2. one \cup {buddy} = out
        BY <1>9, <1>8
    <2> QED
        BY <2>1, <2>2 DEF PutDown
<1>17. Good(w3, k, out)
    BY <1>16
<1>18. Halved(w.mem, b, p, buddy, w3.mem)
    BY <1>5, <1>10, <1>13, <1>16 DEF Altered, SameShape, Halved
<1>19. PICK w4 : w4 = InsertBucket(w3, b)
    OBVIOUS
<1>20. Good(w4, k, out \ {b}) /\ SameShape(w3.mem, w4.mem)
    <2>1. b \in DOMAIN w3.mem.bucket /\ b \in out /\ w3.mem.bucket[b].free = TRUE
        BY <1>9, <1>18 DEF Halved
    <2>2. PutFirst(w3, b, w4, k, out)
        BY ONLY <1>17, <1>19, <2>1, InsertKeeps
    <2> QED
        BY <2>2 DEF PutFirst
<1>21. PICK w5 : w5 = InsertBucket(w4, buddy)
    OBVIOUS
<1>22. Good(w5, k, (out \ {b}) \ {buddy}) /\ SameShape(w4.mem, w5.mem)
    <2>1. buddy \in DOMAIN w4.mem.bucket /\ buddy \in out \ {b} /\ w4.mem.bucket[buddy].free = TRUE
        BY <1>5, <1>9, <1>18, <1>20 DEF Halved, SameShape
    <2>2. PutFirst(w4, buddy, w5, k, out \ {b})
        BY ONLY <1>20, <1>21, <2>1, InsertKeeps
    <2> QED
        BY <2>2 DEF PutFirst
<1>23. Good(w5, k, {})
    <2>1. (out \ {b}) \ {buddy} = {}
        BY <1>9
    <2> QED
        BY <1>22, <2>1
<1>24. Halved(w.mem, b, p, buddy, w5.mem)
    BY <1>18, <1>20, <1>22 DEF Halved, SameShape
<1>25. Tiles(w5.mem)
    <2>1. buddy = b + Shift[p] /\ w.mem.bucket[b].order = p + 1
        BY <1>3, <1>4
    <2> QED
        BY <1>2, <1>5, <1>24, <2>1, HalvesTile
<1>26. SplitAt(w, b) = w5
    <2>1. PICK start : start = [w EXCEPT !.ok = @ /\ o > 0]
        OBVIOUS
    <2>2. start = w
        <3>1. w.ok = TRUE /\ o > 0
            BY <1>1, <1>2 DEF Good
        <3> QED
            BY <1>2, <2>1, <3>1 DEF WorkDone
    <2>3. w1 = ExtractBucket(start, b)
        BY ONLY <1>6, <2>2
    <2>4. o - 1 = p /\ b + Shift[o - 1] = buddy
        BY <1>2, <1>3, <1>4
    <2> QED
        BY ONLY <1>1, <1>11, <1>15, <1>19, <1>21, <2>1, <2>3, <2>4 DEF SplitAt
<1>27. Survive(w.mem, w5.mem)
    BY <1>24 DEF Survive, Halved
<1> QED
    BY <1>23, <1>24, <1>25, <1>26, <1>27 DEF Whole, Halved

-----------------------------------------------------------------------------
(* No bucket is ever merged, since header->size ends before the first one.   *)

\* The loop of merge_buckets, turn by turn.
LEMMA MergeRun ==
    ASSUME NEW base, NEW n \in Nat
    PROVE  \E f : /\ f[0] = base
                  /\ \A i \in 1..n : f[i] = MergeTurn(f[i - 1], i)
                  /\ FoldLeft(MergeTurn, base, [i \in 1..n |-> i]) = f[n]
<1>1. PICK q : q = [i \in 1..n |-> i]
    OBVIOUS
<1>2. PICK v : v = FoldLeft(MergeTurn, base, q)
    OBVIOUS
<1>3. DOMAIN q = 1..Len(q) /\ Len(q) \in Nat /\ Len(q) = n /\ \A i \in 1..n : q[i] = i
    <2>1. q \in Seq(Nat)
        BY <1>1
    <2> QED
        BY <1>1, <2>1
<1>4. v = Merging!FoldLeft(MergeTurn, base, q)
    BY ONLY <1>2, Zenon DEF FoldLeft, Merging!FoldLeft, MapThenFoldSet, Merging!MapThenFoldSet, Max, Merging!Max
<1>5. \E f : /\ f[0] = base
             /\ \A k \in 1..Len(q) : f[k] = MergeTurn(f[k - 1], q[k])
             /\ Merging!FoldLeft(MergeTurn, base, q) = f[Len(q)]
    BY ONLY <1>3, Merging!Steps, ZenonT(60)
<1> QED
    BY <1>1, <1>2, <1>3, <1>4, <1>5

\* merge_buckets changes nothing.
LEMMA MergeNothing ==
    ASSUME NEW w, WorkDone(w), NEW b \in DOMAIN w.mem.bucket
    PROVE  MergeBuckets(w, b) = w
<1>1. PICK s : s = [w |-> w, b |-> b]
    OBVIOUS
<1>2. s.w = w /\ s.b = b
    BY <1>1
<1>3. PICK o : o = w.mem.bucket[b].order
    OBVIOUS
<1>4. o \in Nat /\ b \in Nat /\ w.mem.size = 0
    BY <1>3, Buckets DEF Order
<1>5. BuddyPos(b, o) >= 0
    <2>1. PICK d \in Nat : d = Shift[o] /\ d >= 1
        BY <1>4, ShiftIs
    <2>2. CASE (b \div d) % 2 = 0
        BY <1>4, <2>1, <2>2 DEF BuddyPos
    <2>3. CASE (b \div d) % 2 # 0
        <3>1. b >= d
            <4>1. SUFFICES ASSUME b < d PROVE FALSE
                BY <1>4, <2>1
            <4>2. b \div d = 0
                BY <1>4, <2>1, <4>1
            <4> QED
                BY <2>3, <4>2
        <3> QED
            BY <1>4, <2>1, <2>3, <3>1 DEF BuddyPos
    <2> QED
        BY <2>2, <2>3
<1>6. BucketAtPosition(w, BuddyPos(b, o)) = Nil
    BY <1>4, <1>5 DEF BucketAtPosition
<1>7. \A t : MergeTurn(s, t) = s
    BY <1>2, <1>3, <1>6 DEF MergeTurn
<1>8. PICK n \in Nat : n = MaxCount
    BY AllocAssumption
<1>9. PICK f : /\ f[0] = s
               /\ \A i \in 1..n : f[i] = MergeTurn(f[i - 1], i)
               /\ FoldLeft(MergeTurn, s, [i \in 1..n |-> i]) = f[n]
    BY ONLY <1>8, MergeRun, Zenon
<1>10. PICK S : S = {i \in Nat : i <= n => f[i] = s}
    OBVIOUS
<1>11. S \subseteq Nat /\ 0 \in S
    BY <1>9, <1>10
<1>12. ASSUME NEW i \in S PROVE i + 1 \in S
    <2>1. i \in Nat /\ i + 1 \in Nat /\ (i + 1) - 1 = i
        BY <1>10
    <2>2. ASSUME i + 1 <= n PROVE f[i + 1] = s
        <3>1. i + 1 \in 1..n /\ f[i] = s
            BY <1>8, <1>10, <2>1, <2>2
        <3>2. f[i + 1] = MergeTurn(f[i], i + 1)
            BY <1>9, <2>1, <3>1
        <3> QED
            BY <1>7, <3>1, <3>2
    <2> QED
        BY <1>10, <2>1, <2>2
<1>13. S = Nat
    BY ONLY <1>11, <1>12, Merging!Induction, Zenon
<1>14. FoldLeft(MergeTurn, s, [i \in 1..n |-> i]) = s
    BY <1>8, <1>9, <1>10, <1>13
<1> QED
    BY <1>1, <1>2, <1>8, <1>14 DEF MergeBuckets

-----------------------------------------------------------------------------
(* The file grows.                                                           *)

\* Lists depend on the first buckets and on the buckets alone.
LEMMA ChainsEq ==
    ASSUME NEW m, NEW v, NEW out, Chains(m, out), v.heads = m.heads, v.bucket = m.bucket
    PROVE  Chains(v, out)
    BY DEF Chains, Chained, Chain

(* v is m with a bucket b after the last one.                                *)
Doubling(m, b, p, v) ==
    /\ p = IF m.count = 0 THEN 0 ELSE m.count - 1
    /\ b = FileEnd(m)
    /\ v.count = m.count + 1
    /\ DOMAIN v.bucket = DOMAIN m.bucket \cup {b}
    /\ v.bucket[b].order = p
    /\ \A x \in DOMAIN m.bucket : x # b => v.bucket[x].order = m.bucket[x].order

\* A bucket as large as the file, put behind it, covers the doubled file.
LEMMA DoubleTiles ==
    ASSUME NEW w, WorkDone(w), Tiles(w.mem), NEW b, NEW p, NEW v, Doubling(w.mem, b, p, v)
    PROVE  Tiles(v)
<1>1. PICK m : m = w.mem
    OBVIOUS
<1>2. /\ \A x \in DOMAIN m.bucket : x \in Nat /\ End(m, x) \in Nat /\ x < End(m, x)
      /\ FileEnd(m) \in Nat /\ m.count \in Nat
    BY <1>1, Ends, Buckets
<1>3. p \in Nat /\ b = FileEnd(m) /\ v.count = m.count + 1
    BY <1>1, <1>2 DEF Doubling
<1>4. PICK s \in Nat : s = Shift[p] /\ s >= 1 /\ Shift[p + 1] = 2 * s
    BY <1>3, ShiftIs
<1>5. FileEnd(v) = b + s
    <2>1. CASE m.count = 0
        BY <1>1, <1>3, <1>4, <2>1, ShiftIs DEF FileEnd, Doubling
    <2>2. CASE m.count # 0
        <3>1. p = m.count - 1 /\ p + 1 = m.count
            BY <1>1, <1>2, <2>2 DEF Doubling
        <3>2. b = s
            BY <1>3, <1>4, <2>2, <3>1 DEF FileEnd
        <3>3. FileEnd(v) = Shift[p + 1]
            <4>1. v.count - 1 = p + 1 /\ v.count # 0
                BY <1>2, <1>3, <3>1
            <4> QED
                BY <4>1 DEF FileEnd
        <3> QED
            BY <1>4, <3>2, <3>3
    <2> QED
        BY <2>1, <2>2
<1>6. /\ \A x \in DOMAIN m.bucket : End(m, x) <= b
      /\ \A x, y \in DOMAIN m.bucket : x < y => End(m, x) <= y
      /\ \A pos \in 0..b - 1 : \E x \in DOMAIN m.bucket : x <= pos /\ pos < End(m, x)
    BY <1>1, <1>3 DEF Tiles
<1>7. b \notin DOMAIN m.bucket
    BY <1>2, <1>3, <1>6
<1>8. /\ End(v, b) = b + s
      /\ \A x \in DOMAIN m.bucket : End(v, x) = End(m, x)
      /\ DOMAIN v.bucket = DOMAIN m.bucket \cup {b}
    BY <1>1, <1>4, <1>7 DEF Doubling, End
<1>9. ASSUME NEW x \in DOMAIN v.bucket PROVE End(v, x) <= FileEnd(v)
    BY <1>2, <1>3, <1>4, <1>5, <1>6, <1>8
<1>10. ASSUME NEW x \in DOMAIN v.bucket, NEW y \in DOMAIN v.bucket, x < y PROVE End(v, x) <= y
    <2>1. CASE y = b
        BY <1>2, <1>3, <1>6, <1>8, <1>10, <2>1
    <2>2. CASE y # b
        <3>1. y \in DOMAIN m.bucket /\ y < b
            <4>1. y \in DOMAIN m.bucket
                BY <1>8, <2>2
            <4>2. y < End(m, y) /\ End(m, y) <= b /\ y \in Nat /\ End(m, y) \in Nat
                BY <1>2, <1>6, <4>1
            <4> QED
                BY <1>2, <1>3, <4>1, <4>2
        <3>2. x # b
            BY <1>2, <1>3, <1>10, <3>1
        <3> QED
            BY <1>6, <1>8, <1>10, <3>1, <3>2
    <2> QED
        BY <2>1, <2>2
<1>11. ASSUME NEW pos \in 0..FileEnd(v) - 1
       PROVE  \E x \in DOMAIN v.bucket : x <= pos /\ pos < End(v, x)
    <2>1. CASE pos < b
        <3>1. pos \in 0..b - 1
            BY <1>2, <1>3, <1>4, <1>5, <2>1
        <3>2. PICK x \in DOMAIN m.bucket : x <= pos /\ pos < End(m, x)
            BY <1>6, <3>1
        <3> QED
            BY <1>8, <3>2
    <2>2. CASE ~(pos < b)
        <3>1. b \in DOMAIN v.bucket /\ b <= pos /\ pos < End(v, b)
            BY <1>2, <1>3, <1>4, <1>5, <1>8, <2>2
        <3> QED
            BY <3>1
    <2> QED
        BY <2>1, <2>2
<1> QED
    BY <1>9, <1>10, <1>11 DEF Tiles

GrowsTo(w, p, v) ==
    /\ v.mem.count = w.mem.count + 1
    /\ \A o \in Order : o # p => v.mem.heads[o] = w.mem.heads[o]
    /\ v.mem.heads[p] # Nil
    /\ Survive(w.mem, v.mem)

\* db_grow.
LEMMA FileGrowKeeps ==
    ASSUME NEW w, NEW k, Whole(w, k), w.mem.count < MaxCount + 4,
           NEW p, p = IF w.mem.count = 0 THEN 0 ELSE w.mem.count - 1
    PROVE  Whole(Grow(w), k) /\ GrowsTo(w, p, Grow(w))
<1>1. PICK n : n = w.mem.count
    OBVIOUS
<1>2. /\ WorkDone(w) /\ Tiles(w.mem) /\ Good(w, k, {})
      /\ n \in Nat /\ n + 1 \in 0..MaxCount + 4 /\ p \in Order
      /\ MaxCount \in Nat
    BY <1>1, Buckets, AllocAssumption DEF Whole, Good, Order
<1>3. PICK b \in Nat : b = FileEnd(w.mem)
    BY <1>2, Ends
<1>4. b \notin DOMAIN w.mem.bucket
    <2>1. SUFFICES ASSUME b \in DOMAIN w.mem.bucket PROVE FALSE
        OBVIOUS
    <2>2. End(w.mem, b) <= FileEnd(w.mem) /\ b < End(w.mem, b) /\ End(w.mem, b) \in Nat
        BY <1>2, <2>1, Ends DEF Tiles
    <2> QED
        BY <1>3, <2>2
<1>5. PICK w1 : w1 = PutBucket(w, b, p)
    OBVIOUS
<1>6. PICK none : none = {}
    OBVIOUS
<1>7. PICK one : one = {b}
    OBVIOUS
<1>8. /\ Good(w1, k, one) /\ Altered(w, b, w1)
      /\ w1.mem.bucket[b].order = p /\ w1.mem.bucket[b].free = TRUE
    <2>1. Good(w, k, none)
        BY <1>2, <1>6
    <2>2. PutDown(w, b, p, w1, k, none)
        BY ONLY <1>2, <1>3, <1>4, <1>5, <2>1, BucketPutKeeps
    <2>3. none \cup {b} = one
        BY <1>6, <1>7
    <2> QED
        BY <2>2, <2>3 DEF PutDown
<1>9. PICK w2 : w2 = InsertBucket(w1, b)
    OBVIOUS
<1>10. /\ Good(w2, k, one \ {b}) /\ SameShape(w1.mem, w2.mem)
       /\ \A o \in Order : w2.mem.heads[o] = IF o = w1.mem.bucket[b].order THEN b ELSE w1.mem.heads[o]
    <2>1. b \in DOMAIN w1.mem.bucket /\ b \in one /\ w1.mem.bucket[b].free = TRUE
        BY <1>8, <1>7 DEF Altered
    <2>2. PutFirst(w1, b, w2, k, one)
        BY ONLY <1>8, <1>9, <2>1, InsertKeeps
    <2> QED
        BY <2>2 DEF PutFirst
<1>11. Good(w2, k, {})
    <2>1. one \ {b} = {}
        BY <1>7
    <2> QED
        BY <1>10, <2>1
<1>12. /\ WorkDone(w2) /\ b \in DOMAIN w2.mem.bucket
    BY <1>8, <1>10, <1>11 DEF Good, Altered, SameShape
<1>13. PICK v : v = [w2 EXCEPT !.mem.count = n + 1,
                               !.dirty = @ \cup {<<"count", 0>>} \cup {<<"head", o>> : o \in Order}]
    OBVIOUS
<1>14. Grow(w) = v
    <2>1. b = (IF n = 0 THEN 0 ELSE Shift[n - 1]) /\ p = (IF n = 0 THEN 0 ELSE n - 1)
        BY <1>1, <1>3 DEF FileEnd
    <2>2. w2 = IF n = 0 THEN w2 ELSE MergeBuckets(w2, b)
        BY <1>12, MergeNothing
    <2> QED
        BY ONLY <1>1, <1>5, <1>9, <1>13, <2>1, <2>2 DEF Grow
<1>15. PICK m : m = [w2.mem EXCEPT !.count = n + 1]
    OBVIOUS
<1>16. m \in Memory /\ m.count = n + 1 /\ m.heads = w2.mem.heads /\ m.bucket = w2.mem.bucket
    <2>1. w2.mem \in Memory
        BY <1>12 DEF WorkDone
    <2> QED
        BY <1>2, <1>15, <2>1 DEF Memory
<1>17. /\ DOMAIN v = {"mem", "dirty", "ok"} /\ v = [x \in DOMAIN v |-> v[x]]
       /\ v.mem = m /\ v.ok = w2.ok
       /\ v.dirty = w2.dirty \cup {<<"count", 0>>} \cup {<<"head", o>> : o \in Order}
    BY <1>12, <1>13, <1>15 DEF WorkDone, Memory
<1>18. Good(v, k, {})
    <2>1. WorkDone(v) /\ v.ok = TRUE
        BY <1>11, <1>16, <1>17 DEF Good, WorkDone
    <2>2. Chains(v.mem, {})
        <3>1. Chains(w2.mem, {})
            BY <1>11 DEF Good
        <3> QED
            BY <1>16, <1>17, <3>1, ChainsEq
    <2>3. Covered(k, v.mem, v.dirty, {})
        <3>1. Covered(k, w2.mem, w2.dirty, {})
            BY <1>11 DEF Good
        <3>2. <<"count", 0>> \in v.dirty /\ \A o \in Order : <<"head", o>> \in v.dirty
            BY <1>17
        <3> QED
            BY <1>16, <1>17, <3>1, <3>2 DEF Covered
    <2> QED
        BY <2>1, <2>2, <2>3 DEF Good
<1>19. Doubling(w.mem, b, p, v.mem)
    <2>1. p = IF w.mem.count = 0 THEN 0 ELSE w.mem.count - 1
        OBVIOUS
    <2> QED
        BY <1>1, <1>3, <1>8, <1>10, <1>16, <1>17, <2>1 DEF Doubling, Altered, SameShape
<1>20. Tiles(v.mem)
    BY <1>2, <1>19, DoubleTiles
<1>21. GrowsTo(w, p, v)
    <2>1. Survive(w.mem, v.mem)
        BY <1>4, <1>8, <1>10, <1>16, <1>17 DEF Survive, Altered, SameShape
    <2>2. v.mem.heads[p] = b /\ b # Nil
        BY <1>2, <1>8, <1>10, <1>16, <1>17 DEF Nil
    <2>3. \A o \in Order : o # p => v.mem.heads[o] = w.mem.heads[o]
        BY <1>8, <1>10, <1>16, <1>17 DEF Altered
    <2> QED
        BY <1>1, <1>16, <1>17, <2>1, <2>2, <2>3 DEF GrowsTo
<1> QED
    BY <1>14, <1>18, <1>20, <1>21 DEF Whole

-----------------------------------------------------------------------------
(* The loops of db_alloc.                                                    *)

\* The loop that grows the file, turn by turn.
LEMMA GrowRun ==
    ASSUME NEW base, NEW n \in Nat
    PROVE  \E f : /\ f[0] = base
                  /\ \A i \in 1..n : f[i] = GrowTurn(f[i - 1], i)
                  /\ FoldLeft(GrowTurn, base, [i \in 1..n |-> i]) = f[n]
<1>1. PICK q : q = [i \in 1..n |-> i]
    OBVIOUS
<1>2. PICK v : v = FoldLeft(GrowTurn, base, q)
    OBVIOUS
<1>3. DOMAIN q = 1..Len(q) /\ Len(q) \in Nat /\ Len(q) = n /\ \A i \in 1..n : q[i] = i
    <2>1. q \in Seq(Nat)
        BY <1>1
    <2> QED
        BY <1>1, <2>1
<1>4. v = Growing!FoldLeft(GrowTurn, base, q)
    BY ONLY <1>2, Zenon DEF FoldLeft, Growing!FoldLeft, MapThenFoldSet, Growing!MapThenFoldSet, Max, Growing!Max
<1>5. \E f : /\ f[0] = base
             /\ \A k \in 1..Len(q) : f[k] = GrowTurn(f[k - 1], q[k])
             /\ Growing!FoldLeft(GrowTurn, base, q) = f[Len(q)]
    BY ONLY <1>3, Growing!Steps, ZenonT(60)
<1> QED
    BY <1>1, <1>2, <1>3, <1>4, <1>5

\* The loop that splits the bucket, turn by turn.
LEMMA SplitRun ==
    ASSUME NEW base, NEW n \in Nat
    PROVE  \E f : /\ f[0] = base
                  /\ \A i \in 1..n : f[i] = SplitTurn(f[i - 1], i)
                  /\ FoldLeft(SplitTurn, base, [i \in 1..n |-> i]) = f[n]
<1>1. PICK q : q = [i \in 1..n |-> i]
    OBVIOUS
<1>2. PICK v : v = FoldLeft(SplitTurn, base, q)
    OBVIOUS
<1>3. DOMAIN q = 1..Len(q) /\ Len(q) \in Nat /\ Len(q) = n /\ \A i \in 1..n : q[i] = i
    <2>1. q \in Seq(Nat)
        BY <1>1
    <2> QED
        BY <1>1, <2>1
<1>4. v = Splitting!FoldLeft(SplitTurn, base, q)
    BY ONLY <1>2, Zenon DEF FoldLeft, Splitting!FoldLeft, MapThenFoldSet, Splitting!MapThenFoldSet, Max, Splitting!Max
<1>5. \E f : /\ f[0] = base
             /\ \A k \in 1..Len(q) : f[k] = SplitTurn(f[k - 1], q[k])
             /\ Splitting!FoldLeft(SplitTurn, base, q) = f[Len(q)]
    BY ONLY <1>3, Splitting!Steps, ZenonT(60)
<1> QED
    BY <1>1, <1>2, <1>3, <1>4, <1>5


GrownBy(w, n, v, k) ==
    /\ Whole(v, k) /\ v.mem.count = w.mem.count + n /\ Survive(w.mem, v.mem)

\* What is in use after two steps.
LEMMA SurviveOn ==
    ASSUME NEW l, NEW m, NEW v, Survive(l, m), Survive(m, v)
    PROVE  Survive(l, v)
    BY DEF Survive

\* What is in use when nothing is done.
LEMMA SurviveSelf ==
    ASSUME NEW m
    PROVE  Survive(m, m)
    BY DEF Survive

\* The loop that grows the file, as a whole.
LEMMA GrowLoop ==
    ASSUME NEW w, NEW k, Whole(w, k), NEW n \in Nat, w.mem.count + n <= MaxCount + 4,
           NEW v, v = FoldLeft(GrowTurn, w, [i \in 1..n |-> i])
    PROVE  GrownBy(w, n, v, k)
<1>1. PICK f : /\ f[0] = w
               /\ \A i \in 1..n : f[i] = GrowTurn(f[i - 1], i)
               /\ FoldLeft(GrowTurn, w, [i \in 1..n |-> i]) = f[n]
    BY ONLY n \in Nat, GrowRun, Zenon
<1>2. w.mem.count \in Nat /\ MaxCount \in Nat
    BY Buckets, AllocAssumption DEF Whole, Good
<1>3. PICK S : S = {i \in Nat : i <= n => GrownBy(w, i, f[i], k)}
    OBVIOUS
<1>4. S \subseteq Nat /\ 0 \in S
    <2>1. GrownBy(w, 0, f[0], k)
        BY <1>1, <1>2, SurviveSelf DEF GrownBy
    <2> QED
        BY <1>3, <2>1
<1>5. ASSUME NEW i \in S PROVE i + 1 \in S
    <2>1. i \in Nat /\ i + 1 \in Nat /\ (i + 1) - 1 = i
        BY <1>3
    <2>2. ASSUME i + 1 <= n PROVE GrownBy(w, i + 1, f[i + 1], k)
        <3>1. PICK u : u = f[i]
            OBVIOUS
        <3>2. PICK x : x = f[i + 1]
            OBVIOUS
        <3>3. GrownBy(w, i, u, k)
            BY <1>3, <2>1, <2>2, <3>1
        <3>4. x = Grow(u)
            <4>1. i + 1 \in 1..n
                BY <2>1, <2>2
            <4> QED
                BY <1>1, <2>1, <3>1, <3>2, <4>1 DEF GrowTurn
        <3>5. u.mem.count = w.mem.count + i /\ u.mem.count < MaxCount + 4
            BY <1>2, <2>1, <2>2, <3>3 DEF GrownBy
        <3>6. PICK p : p = IF u.mem.count = 0 THEN 0 ELSE u.mem.count - 1
            OBVIOUS
        <3>7. Whole(u, k)
            BY <3>3 DEF GrownBy
        <3>8. Whole(Grow(u), k) /\ GrowsTo(u, p, Grow(u))
            BY ONLY <3>5, <3>6, <3>7, FileGrowKeeps
        <3>9. Survive(w.mem, x.mem)
            <4>1. Survive(w.mem, u.mem) /\ Survive(u.mem, x.mem)
                BY <3>3, <3>4, <3>8 DEF GrownBy, GrowsTo
            <4> QED
                BY ONLY <4>1, SurviveOn
        <3>10. x.mem.count = w.mem.count + (i + 1)
            BY <1>2, <2>1, <3>4, <3>5, <3>8 DEF GrowsTo
        <3> QED
            BY <3>2, <3>4, <3>8, <3>9, <3>10 DEF GrownBy
    <2> QED
        BY <1>3, <2>1, <2>2
<1>6. S = Nat
    BY ONLY <1>4, <1>5, Growing!Induction, Zenon
<1> QED
    BY <1>1, <1>3, <1>6

SplitTo(w, b, j, v, k) ==
    /\ Whole(v, k) /\ v.mem.count = w.mem.count /\ Survive(w.mem, v.mem)
    /\ b \in DOMAIN v.mem.bucket
    /\ v.mem.bucket[b].free = TRUE
    /\ v.mem.bucket[b].order = j

\* The loop that splits the bucket, as a whole.
LEMMA SplitLoop ==
    ASSUME NEW w, NEW k, NEW b, NEW j \in Nat, NEW n \in Nat, SplitTo(w, b, j + n, w, k),
           NEW v, v = FoldLeft(SplitTurn, [w |-> w, b |-> b], [i \in 1..n |-> i]).w
    PROVE  SplitTo(w, b, j, v, k)
<1>1. PICK base : base = [w |-> w, b |-> b]
    OBVIOUS
<1>2. PICK f : /\ f[0] = base
               /\ \A i \in 1..n : f[i] = SplitTurn(f[i - 1], i)
               /\ FoldLeft(SplitTurn, base, [i \in 1..n |-> i]) = f[n]
    BY ONLY n \in Nat, SplitRun, Zenon
<1>3. base.w = w /\ base.b = b /\ DOMAIN base = {"w", "b"}
    BY <1>1
<1>4. PICK S : S = {i \in Nat : i <= n => /\ DOMAIN f[i] = {"w", "b"} /\ f[i].b = b
                                          /\ SplitTo(w, b, j + (n - i), f[i].w, k)}
    OBVIOUS
<1>5. S \subseteq Nat /\ 0 \in S
    <2>1. n - 0 = n
        OBVIOUS
    <2> QED
        BY <1>2, <1>3, <1>4, <2>1
<1>6. ASSUME NEW i \in S PROVE i + 1 \in S
    <2>1. i \in Nat /\ i + 1 \in Nat /\ (i + 1) - 1 = i
        BY <1>4
    <2>2. ASSUME i + 1 <= n
          PROVE  /\ DOMAIN f[i + 1] = {"w", "b"} /\ f[i + 1].b = b
                 /\ SplitTo(w, b, j + (n - (i + 1)), f[i + 1].w, k)
        <3>1. PICK u : u = f[i].w
            OBVIOUS
        <3>3. DOMAIN f[i] = {"w", "b"} /\ f[i].b = b /\ SplitTo(w, b, j + (n - i), u, k)
            BY <1>4, <2>1, <2>2, <3>1
        <3>4. f[i + 1] = [f[i] EXCEPT !.w = SplitAt(u, b)]
            <4>1. i + 1 \in 1..n
                BY <2>1, <2>2
            <4> QED
                BY <1>2, <2>1, <3>1, <3>3, <4>1 DEF SplitTurn
        <3>2. PICK x : x = SplitAt(u, b)
            OBVIOUS
        <3>5. DOMAIN f[i + 1] = {"w", "b"} /\ f[i + 1].b = b /\ f[i + 1].w = x
            BY <3>2, <3>3, <3>4
        <3>6. PICK p \in Nat : p = j + (n - (i + 1)) /\ p + 1 = j + (n - i)
            BY <2>1, <2>2
        <3>7. /\ Whole(u, k) /\ b \in DOMAIN u.mem.bucket
              /\ u.mem.bucket[b].free = TRUE /\ u.mem.bucket[b].order = p + 1
              /\ u.mem.count = w.mem.count /\ Survive(w.mem, u.mem)
            BY <3>3, <3>6 DEF SplitTo
        <3>8. /\ Whole(x, k) /\ x.mem.count = u.mem.count /\ b \in DOMAIN x.mem.bucket
              /\ x.mem.bucket[b].free = TRUE /\ x.mem.bucket[b].order = p
              /\ Survive(u.mem, x.mem)
            BY ONLY <3>2, <3>6, <3>7, SplitKeeps
        <3>9. Survive(w.mem, x.mem)
            BY ONLY <3>7, <3>8, SurviveOn
        <3> QED
            BY <3>5, <3>6, <3>7, <3>8, <3>9 DEF SplitTo
    <2> QED
        BY <1>4, <2>1, <2>2
<1>7. S = Nat
    BY ONLY <1>5, <1>6, Growing!Induction, Zenon
<1>8. SplitTo(w, b, j + (n - n), f[n].w, k) /\ j + (n - n) = j
    BY <1>4, <1>7
<1> QED
    BY <1>1, <1>2, <1>8

\* A set of natural numbers under a bound has a least one.
LEMMA HasMin ==
    ASSUME NEW n \in Nat, NEW T \in SUBSET (0..n), T # {}
    PROVE  Min(T) \in T /\ \A y \in T : Min(T) <= y
<1>1. PICK U : U = {i \in 1..n + 1 : (n + 1) - i \in T}
    OBVIOUS
<1>2. PICK t \in T : t \in 0..n
    OBVIOUS
<1>3. (n + 1) - t \in U
    <2>1. (n + 1) - t \in 1..n + 1 /\ (n + 1) - ((n + 1) - t) = t
        BY <1>2
    <2> QED
        BY <1>1, <1>2, <2>1
<1>4. n + 1 \in Nat /\ U \in SUBSET (1..n + 1) /\ U # {}
    <2>1. U \subseteq 1..n + 1
        BY ONLY <1>1
    <2> QED
        BY <1>3, <2>1
<1>5. Growing!Max(U) \in U /\ \A y \in U : y <= Growing!Max(U)
    BY ONLY <1>4, Growing!HasMax
<1>6. PICK x : x \in U /\ \A y \in U : y <= x
    BY <1>5
<1>7. (n + 1) - x \in T
    BY <1>1, <1>6
<1>8. ASSUME NEW y \in T PROVE (n + 1) - x <= y
    <2>1. y \in 0..n /\ (n + 1) - y \in U
        BY <1>1
    <2>2. (n + 1) - y <= x /\ x \in 1..n + 1
        BY <1>1, <1>6, <2>1
    <2> QED
        BY <2>1, <2>2
<1>9. \E z \in T : \A y \in T : z <= y
    BY <1>7, <1>8
<1> QED
    BY ONLY <1>9, Zenon DEF Min

\* There is a bucket size for each size asked for.
LEMMA SizeFits ==
    ASSUME NEW size \in Size
    PROVE  BucketForSize(size) \in Order /\ BucketForSize(size) <= MaxCount + 1
<1>1. MaxCount \in Nat /\ size \in Nat /\ size <= 16 * Shift[MaxCount]
    BY AllocAssumption, ShiftIs
<1>2. PICK T : T = {o \in Order : NetBucketSize(o) >= size}
    OBVIOUS
<1>3. MaxCount + 1 \in T
    <2>1. PICK s \in Nat : s = Shift[MaxCount] /\ s >= 1 /\ Shift[MaxCount + 1] = 2 * s
        BY <1>1, ShiftIs
    <2>2. NetBucketSize(MaxCount + 1) >= size
        BY <1>1, <2>1 DEF NetBucketSize
    <2>3. MaxCount + 1 \in Order
        BY <1>1 DEF Order
    <2> QED
        BY <1>2, <2>2, <2>3
<1>4. MaxCount + 4 \in Nat /\ T \in SUBSET (0..MaxCount + 4) /\ T # {}
    BY <1>1, <1>2, <1>3 DEF Order
<1>5. Min(T) \in T /\ \A y \in T : Min(T) <= y
    BY ONLY <1>4, HasMin
<1>6. BucketForSize(size) = Min(T)
    BY <1>2 DEF BucketForSize
<1> QED
    BY <1>2, <1>3, <1>5, <1>6

\* A list that starts somewhere starts at a free bucket of its order.
LEMMA HeadIs ==
    ASSUME NEW w, NEW k, Whole(w, k), NEW o \in Order, NEW b, b = w.mem.heads[o], b # Nil
    PROVE  SplitTo(w, b, o, w, k)
<1>1. PICK m : m = w.mem
    OBVIOUS
<1>2. Chains(m, {})
    BY <1>1 DEF Whole, Good
<1>3. PICK n \in Nat : \E q \in [0..n + 1 -> Int] : Chain(m, o, n, q, {})
    BY <1>2 DEF Chains, Chained
<1>4. PICK q \in [0..n + 1 -> Int] : Chain(m, o, n, q, {})
    BY <1>3
<1>5. b = q[1] /\ q[n + 1] = Nil
    BY <1>1, <1>4 DEF Chain
<1>6. 1 \in 1..n
    BY <1>3, <1>5
<1>7. b \in DOMAIN m.bucket /\ m.bucket[b].free = TRUE /\ m.bucket[b].order = o
    BY <1>4, <1>5, <1>6 DEF Chain
<1> QED
    BY <1>1, <1>7, SurviveSelf DEF SplitTo

Found(w, o, v, k) ==
    /\ Whole(v, k) /\ v.mem.count <= MaxCount + 4 /\ Survive(w.mem, v.mem)
    /\ Larger(v, o) # {}

\* The search for a larger bucket finds one.
LEMMA SearchGrows ==
    ASSUME NEW w, NEW k, Whole(w, k), NEW o \in Order,
           o + 1 <= w.mem.count, w.mem.count <= MaxCount + 2,
           NEW v, v = GrowUnless(GrowUnless(w, o), o)
    PROVE  Found(w, o, v, k)
<1>1. /\ w.mem.count \in Nat /\ MaxCount \in Nat /\ o \in Nat
      /\ o + 1 \in Order /\ Survive(w.mem, w.mem)
    BY Buckets, AllocAssumption, SurviveSelf DEF Whole, Good, Order
<1>2. CASE Larger(w, o) # {}
    BY <1>1, <1>2 DEF Found, GrowUnless
<1>3. CASE Larger(w, o) = {}
    <2>1. PICK u : u = Grow(w)
        OBVIOUS
    <2>2. GrowUnless(w, o) = u
        BY <1>3, <2>1 DEF GrowUnless
    <2>3. PICK p : p = w.mem.count - 1
        OBVIOUS
    <2>4. /\ p = (IF w.mem.count = 0 THEN 0 ELSE w.mem.count - 1)
          /\ w.mem.count < MaxCount + 4 /\ p \in Order /\ p >= o /\ p \in Nat
        BY <1>1, <2>3 DEF Order
    <2>5. Whole(u, k) /\ GrowsTo(w, p, u)
        BY <2>1, <2>4, FileGrowKeeps
    <2>6. u.mem.count = w.mem.count + 1 /\ u.mem.heads[p] # Nil /\ Survive(w.mem, u.mem)
        BY <2>5 DEF GrowsTo
    <2>7. CASE Larger(u, o) # {}
        BY <1>1, <2>2, <2>5, <2>6, <2>7 DEF Found, GrowUnless
    <2>8. CASE Larger(u, o) = {}
        <3>1. p = o
            BY <1>1, <2>4, <2>6, <2>8 DEF Larger
        <3>2. PICK x : x = Grow(u)
            OBVIOUS
        <3>3. v = x
            BY <2>2, <2>8, <3>2 DEF GrowUnless
        <3>4. PICK z : z = o + 1
            OBVIOUS
        <3>5. /\ z = (IF u.mem.count = 0 THEN 0 ELSE u.mem.count - 1)
              /\ u.mem.count < MaxCount + 4 /\ z \in Order /\ z > o
            BY <1>1, <2>3, <2>6, <3>1, <3>4
        <3>6. Whole(x, k) /\ GrowsTo(u, z, x)
            BY <2>5, <3>2, <3>5, FileGrowKeeps
        <3>7. z \in Larger(x, o)
            BY <3>5, <3>6 DEF Larger, GrowsTo
        <3>8. Survive(w.mem, x.mem)
            BY <2>6, <3>6, SurviveOn DEF GrowsTo
        <3>9. x.mem.count <= MaxCount + 4
            BY <1>1, <2>6, <3>6 DEF GrowsTo
        <3> QED
            BY <3>3, <3>6, <3>7, <3>8, <3>9 DEF Found
    <2> QED
        BY <2>7, <2>8
<1> QED
    BY <1>2, <1>3

-----------------------------------------------------------------------------
(* The operations.                                                           *)

Done(w, v, k) ==
    /\ Whole(v, k) /\ v.mem.count <= MaxCount + 4 /\ Survive(w.mem, v.mem)

HandedOut(w, v, k) == Whole(v, k) /\ v.mem.count = w.mem.count /\ Survive(w.mem, v.mem)

\* A bucket taken out of its list is handed out.
LEMMA HandOut ==
    ASSUME NEW w, NEW k, NEW b, NEW o \in Order, SplitTo(w, b, o, w, k),
           NEW x, x = ExtractBucket(w, b),
           NEW v, v = Used(x, b, o)
    PROVE  HandedOut(w, v, k)
<1>1. /\ Whole(w, k) /\ b \in DOMAIN w.mem.bucket
      /\ w.mem.bucket[b].free = TRUE /\ w.mem.bucket[b].order = o
    BY DEF SplitTo
<1>2. PICK none : none = {}
    OBVIOUS
<1>3. PICK one : one = {b}
    OBVIOUS
<1>4. /\ Good(w, k, none) /\ b \notin none /\ b \in DOMAIN w.mem.bucket
      /\ w.mem.bucket[b].free = TRUE /\ Tiles(w.mem)
    BY <1>1, <1>2 DEF Whole
<1>5. TakenOut(w, b, x, k, none)
    BY ONLY <1>4, x = ExtractBucket(w, b), ExtractKeeps
<1>6. Good(x, k, one) /\ SameShape(w.mem, x.mem) /\ <<"bucket", b>> \in x.dirty
    <2>1. none \cup {b} = one
        BY <1>2, <1>3
    <2> QED
        BY <1>5, <2>1 DEF TakenOut
<1>7. WorkDone(x) /\ x.ok = TRUE /\ b \in DOMAIN x.mem.bucket
    BY <1>4, <1>6 DEF Good, SameShape
<1>8. PICK B : B = x.mem.bucket
    OBVIOUS
<1>9. B \in [DOMAIN B -> BucketRecord] /\ DOMAIN B \subseteq Nat /\ b \in DOMAIN B
    BY <1>7, <1>8, Buckets
<1>10. PICK new : new = [order |-> o, free |-> FALSE, next |-> Written, prev |-> Written]
    OBVIOUS
<1>11. new \in BucketRecord /\ new.order = o /\ new.free = FALSE
    BY <1>10 DEF BucketRecord, Written
<1>12. PICK C : C = [B EXCEPT ![b] = new]
    OBVIOUS
<1>13. /\ C \in [DOMAIN B -> BucketRecord] /\ DOMAIN C = DOMAIN B /\ C[b] = new
       /\ \A y \in DOMAIN B : y # b => C[y] = B[y]
    BY <1>9, <1>11, <1>12
<1>14. PICK m : m = [x.mem EXCEPT !.bucket = C]
    OBVIOUS
<1>15. m \in Memory /\ m.count = x.mem.count /\ m.heads = x.mem.heads /\ m.bucket = C
    <2>1. C \in UNION {[D -> BucketRecord] : D \in SUBSET Nat}
        BY <1>9, <1>13
    <2>2. x.mem \in Memory
        BY <1>7 DEF WorkDone
    <2> QED
        BY <2>1, <2>2, <1>14 DEF Memory
<1>16. v = [x EXCEPT !.mem.bucket[b] = new]
    BY <1>10 DEF Used
<1>17. /\ DOMAIN v = {"mem", "dirty", "ok"} /\ v = [y \in DOMAIN v |-> v[y]]
       /\ v.mem = m /\ v.dirty = x.dirty /\ v.ok = x.ok
    BY ONLY <1>7, <1>8, <1>12, <1>14, <1>16 DEF WorkDone, Memory
<1>18. WorkDone(v) /\ v.ok = TRUE
    BY <1>7, <1>15, <1>17 DEF WorkDone
<1>19. Altered(x, b, v)
    <2>1. v.mem.count = x.mem.count /\ v.mem.heads = x.mem.heads /\ v.dirty = x.dirty
        BY <1>15, <1>17
    <2>2. v.mem.bucket = C /\ DOMAIN C = DOMAIN B \cup {b}
        BY ONLY <1>9, <1>13, <1>15, <1>17
    <2>3. \A y \in DOMAIN B : y # b => v.mem.bucket[y] = B[y]
        BY ONLY <1>13, <2>2
    <2> QED
        BY ONLY <1>8, <1>18, <2>1, <2>2, <2>3 DEF Altered
<1>20. Good(v, k, one)
    <2>1. b \in one /\ one \cup {b} = one
        BY <1>3
    <2>2. Good(v, k, one \cup {b})
        BY <1>6, <1>18, <1>19, <2>1, AlteredKeeps
    <2> QED
        BY <2>1, <2>2
<1>21. b \in DOMAIN v.mem.bucket /\ v.mem.bucket[b].free = FALSE /\ v.mem.bucket[b].order = o
    BY <1>9, <1>11, <1>13, <1>15, <1>17
<1>22. Good(v, k, {})
    <2>1. Chains(v.mem, {})
        <3>1. Chains(v.mem, one \ {b})
            BY <1>20, <1>21, ChainsUsed DEF Good
        <3>2. one \ {b} = {}
            BY <1>3
        <3> QED
            BY <3>1, <3>2
    <2>2. Covered(k, v.mem, v.dirty, {})
        <3>1. Covered(k, v.mem, v.dirty, one) /\ <<"bucket", b>> \in v.dirty
            BY <1>6, <1>17, <1>20 DEF Good
        <3> QED
            BY <1>3, <3>1 DEF Covered
    <2> QED
        BY <1>18, <2>1, <2>2 DEF Good
<1>23. /\ v.mem.count = w.mem.count /\ DOMAIN v.mem.bucket = DOMAIN w.mem.bucket
       /\ \A y \in DOMAIN w.mem.bucket : /\ v.mem.bucket[y].order = w.mem.bucket[y].order
                                         /\ y # b => v.mem.bucket[y].free = w.mem.bucket[y].free
    BY <1>1, <1>6, <1>9, <1>19, <1>21 DEF Altered, SameShape
<1>24. Tiles(v.mem)
    BY <1>4, <1>23, TilesSame
<1>25. Survive(w.mem, v.mem)
    BY <1>1, <1>23 DEF Survive
<1> QED
    BY <1>22, <1>23, <1>24, <1>25 DEF Whole, HandedOut

\* db_alloc.
LEMMA AllocKeeps ==
    ASSUME NEW w, NEW k, Whole(w, k), w.mem.count <= MaxCount, NEW size \in Size,
           NEW v, v = DbAlloc(w, size).w
    PROVE  Done(w, v, k)
<1>1. PICK o : o = BucketForSize(size)
    OBVIOUS
<1>2. /\ o \in Order /\ o \in Nat /\ o <= MaxCount + 1
      /\ w.mem.count \in Nat /\ MaxCount \in Nat
    BY <1>1, SizeFits, Buckets, AllocAssumption DEF Whole, Good, Order
<1>3. PICK n \in Nat : n = IF w.mem.count >= o + 1 THEN 0 ELSE o + 1 - w.mem.count
    BY <1>2
<1>4. PICK g : g = o + 1 - w.mem.count
    OBVIOUS
<1>5. PICK w1 : w1 = GrowBy(w, g)
    OBVIOUS
<1>6. Whole(w, k) /\ n \in Nat /\ w.mem.count + n <= MaxCount + 4
    BY <1>2, <1>3
<1>7. GrownBy(w, n, w1, k)
    <2>1. 1..g = 1..n
        BY <1>2, <1>3, <1>4
    <2>2. w1 = FoldLeft(GrowTurn, w, [i \in 1..n |-> i])
        BY ONLY <1>5, <2>1 DEF GrowBy
    <2> QED
        BY ONLY <1>6, <2>2, GrowLoop
<1>8. /\ Whole(w1, k) /\ Survive(w.mem, w1.mem)
      /\ o + 1 <= w1.mem.count /\ w1.mem.count <= MaxCount + 2
    BY <1>2, <1>3, <1>7 DEF GrownBy
<1>9. PICK first : first = w1.mem.heads[o]
    OBVIOUS
<1>10. PICK w2 : w2 = IF first # Nil THEN w1 ELSE GrowUnless(GrowUnless(w1, o), o)
    OBVIOUS
<1>11. PICK from : from = IF first # Nil THEN o ELSE Min(Larger(w2, o))
    OBVIOUS
<1>12. PICK b : b = w2.mem.heads[from]
    OBVIOUS
<1>13. /\ Whole(w2, k) /\ w2.mem.count <= MaxCount + 4 /\ Survive(w.mem, w2.mem)
       /\ from \in Order /\ from >= o /\ b # Nil
    <2>1. CASE first # Nil
        <3>1. w2 = w1 /\ from = o
            BY <1>10, <1>11, <2>1
        <3>2. b = first
            BY <1>9, <1>12, <3>1
        <3>3. w1.mem.count <= MaxCount + 4
            BY <1>2, <1>6, <1>7 DEF GrownBy
        <3> QED
            BY <1>2, <1>8, <2>1, <3>1, <3>2, <3>3
    <2>2. CASE first = Nil
        <3>1. w2 = GrowUnless(GrowUnless(w1, o), o)
            BY <1>10, <2>2
        <3>2. Found(w1, o, w2, k)
            BY ONLY <1>2, <1>8, <3>1, SearchGrows
        <3>3. PICK T : T = Larger(w2, o)
            OBVIOUS
        <3>4. MaxCount + 4 \in Nat /\ T \in SUBSET (0..MaxCount + 4) /\ T # {}
            BY <1>2, <3>2, <3>3 DEF Found, Larger, Order
        <3>5. Min(T) \in T
            BY ONLY <3>4, HasMin
        <3>6. from \in T
            BY <1>11, <2>2, <3>3, <3>5
        <3>7. from \in Order /\ from > o /\ b # Nil
            BY ONLY <1>12, <3>3, <3>6 DEF Larger
        <3>8. Survive(w.mem, w2.mem)
            BY ONLY <1>8, <3>2, SurviveOn DEF Found
        <3>9. Whole(w2, k) /\ w2.mem.count <= MaxCount + 4
            BY <3>2 DEF Found
        <3>10. from >= o
            BY <1>2, <3>7 DEF Order
        <3> QED
            BY ONLY <3>7, <3>8, <3>9, <3>10
    <2> QED
        BY <2>1, <2>2
<1>14. PICK d \in Nat : d = from - o /\ from = o + d
    BY <1>2, <1>13 DEF Order
<1>15. SplitTo(w2, b, o + d, w2, k)
    BY <1>12, <1>13, <1>14, HeadIs
<1>16. PICK w3 : w3 = SplitBy(w2, b, from - o)
    OBVIOUS
<1>17. SplitTo(w2, b, o, w3, k)
    <2>1. w3 = FoldLeft(SplitTurn, [w |-> w2, b |-> b], [i \in 1..d |-> i]).w
        BY ONLY <1>14, <1>16 DEF SplitBy
    <2> QED
        BY ONLY <1>2, <1>14, <1>15, <2>1, SplitLoop
<1>18. SplitTo(w3, b, o, w3, k) /\ w3.mem.count = w2.mem.count /\ Survive(w2.mem, w3.mem)
    BY <1>17, SurviveSelf DEF SplitTo
<1>19. PICK x : x = ExtractBucket(w3, b)
    OBVIOUS
<1>20. PICK u : u = Used(x, b, o)
    OBVIOUS
<1>21. v = u
    <2>1. DbAlloc(w, size) = [b |-> b, w |-> u]
        BY ONLY <1>1, <1>4, <1>5, <1>9, <1>10, <1>11, <1>12, <1>16, <1>19, <1>20 DEF DbAlloc
    <2> QED
        BY <2>1
<1>22. HandedOut(w3, u, k)
    BY ONLY <1>2, <1>18, <1>19, <1>20, HandOut
<1>23. Survive(w.mem, u.mem)
    <2>1. Survive(w.mem, w3.mem)
        BY ONLY <1>13, <1>18, SurviveOn
    <2>2. Survive(w3.mem, u.mem)
        BY <1>22 DEF HandedOut
    <2> QED
        BY ONLY <2>1, <2>2, SurviveOn
<1> QED
    BY <1>13, <1>18, <1>21, <1>22, <1>23 DEF Done, HandedOut

\* db_free.
LEMMA FreeKeeps ==
    ASSUME NEW w, NEW k, Whole(w, k), NEW b \in DOMAIN w.mem.bucket,
           w.mem.bucket[b].free = FALSE,
           NEW v, v = DbFree(w, b)
    PROVE  Whole(v, k) /\ v.mem.count = w.mem.count
<1>1. PICK none : none = {}
    OBVIOUS
<1>2. PICK one : one = {b}
    OBVIOUS
<1>3. /\ Good(w, k, none) /\ Tiles(w.mem) /\ WorkDone(w) /\ w.ok = TRUE
    BY <1>1 DEF Whole, Good
<1>4. PICK x : x = [w EXCEPT !.mem.bucket[b].free = TRUE, !.ok = @ /\ ~w.mem.bucket[b].free]
    OBVIOUS
<1>5. PICK B : B = w.mem.bucket
    OBVIOUS
<1>6. B \in [DOMAIN B -> BucketRecord] /\ DOMAIN B \subseteq Nat /\ b \in DOMAIN B
    BY <1>3, <1>5, Buckets
<1>7. PICK C : C = [B EXCEPT ![b] = [@ EXCEPT !.free = TRUE]]
    OBVIOUS
<1>8. /\ C \in [DOMAIN B -> BucketRecord] /\ DOMAIN C = DOMAIN B
      /\ C[b].free = TRUE /\ C[b].order = B[b].order
      /\ \A y \in DOMAIN B : y # b => C[y] = B[y]
    BY <1>6, <1>7 DEF BucketRecord
<1>9. PICK m : m = [w.mem EXCEPT !.bucket = C]
    OBVIOUS
<1>10. m \in Memory /\ m.count = w.mem.count /\ m.heads = w.mem.heads /\ m.bucket = C
    <2>1. C \in UNION {[D -> BucketRecord] : D \in SUBSET Nat}
        BY <1>6, <1>8
    <2>2. w.mem \in Memory
        BY <1>3 DEF WorkDone
    <2> QED
        BY <2>1, <2>2, <1>9 DEF Memory
<1>11. /\ DOMAIN x = {"mem", "dirty", "ok"} /\ x = [y \in DOMAIN x |-> x[y]]
       /\ x.mem = m /\ x.dirty = w.dirty /\ x.ok = (w.ok /\ ~w.mem.bucket[b].free)
    BY <1>3, <1>4, <1>5, <1>7, <1>9 DEF WorkDone, Memory
<1>12. WorkDone(x) /\ x.ok = TRUE
    BY <1>3, <1>10, <1>11 DEF WorkDone
<1>13. Altered(w, b, x)
    BY <1>5, <1>6, <1>8, <1>10, <1>11, <1>12 DEF Altered
<1>14. Good(x, k, one)
    <2>1. none \cup {b} = one
        BY <1>1, <1>2
    <2>2. Good(x, k, none \cup {b})
        BY <1>3, <1>12, <1>13, AlteredKeeps
    <2> QED
        BY <2>1, <2>2
<1>15. b \in DOMAIN x.mem.bucket /\ x.mem.bucket[b].free = TRUE /\ b \in one
    BY <1>2, <1>6, <1>8, <1>10, <1>11
<1>16. PICK u : u = InsertBucket(x, b)
    OBVIOUS
<1>17. PutFirst(x, b, u, k, one)
    BY ONLY <1>14, <1>15, <1>16, InsertKeeps
<1>18. Good(u, k, {}) /\ SameShape(x.mem, u.mem)
    <2>1. one \ {b} = {}
        BY <1>2
    <2> QED
        BY <1>17, <2>1 DEF PutFirst
<1>19. v = u
    <2>1. v = MergeBuckets(u, b)
        BY ONLY <1>4, <1>16, v = DbFree(w, b) DEF DbFree
    <2>2. WorkDone(u) /\ b \in DOMAIN u.mem.bucket
        BY <1>15, <1>18 DEF Good, SameShape
    <2> QED
        BY <2>1, <2>2, MergeNothing
<1>20. /\ u.mem.count = w.mem.count /\ DOMAIN u.mem.bucket = DOMAIN w.mem.bucket
       /\ \A y \in DOMAIN w.mem.bucket : u.mem.bucket[y].order = w.mem.bucket[y].order
    BY <1>5, <1>8, <1>10, <1>11, <1>18 DEF SameShape
<1>21. Tiles(u.mem)
    BY <1>3, <1>20, TilesSame
<1> QED
    BY <1>18, <1>19, <1>20, <1>21 DEF Whole

\* db_realloc.
LEMMA ReallocKeeps ==
    ASSUME NEW w, NEW k, Whole(w, k), w.mem.count <= MaxCount, NEW size \in Size,
           NEW b \in DOMAIN w.mem.bucket, w.mem.bucket[b].free = FALSE,
           NEW v, v = DbRealloc(w, b, size)
    PROVE  Whole(v, k)
<1>1. CASE NetBucketSize(w.mem.bucket[b].order) >= size
    BY <1>1 DEF DbRealloc
<1>2. CASE ~(NetBucketSize(w.mem.bucket[b].order) >= size)
    <2>1. PICK x : x = DbAlloc(w, size).w
        OBVIOUS
    <2>2. Done(w, x, k)
        BY <2>1, AllocKeeps
    <2>3. Whole(x, k) /\ b \in DOMAIN x.mem.bucket /\ x.mem.bucket[b].free = FALSE
        BY <2>2 DEF Done, Survive
    <2>4. v = DbFree(x, b)
        BY <1>2, <2>1 DEF DbRealloc
    <2> QED
        BY ONLY <2>3, <2>4, FreeKeeps
<1> QED
    BY <1>1, <1>2

-----------------------------------------------------------------------------
(* The invariant.                                                            *)

Fit(m) == /\ m \in Memory /\ m.count <= MaxCount
          /\ Chains(m, {}) /\ Tiles(m)

AllocInv == /\ Fit(mem) /\ Fit(disk)
            /\ Covered(disk, mem, dirty, {})
            /\ sound = TRUE

\* The dirty cells are all a commit needs to write.
LEMMA CoveredOverlay ==
    ASSUME NEW k, NEW m \in Memory, NEW d, Covered(k, m, d, {})
    PROVE  Overlay(k, m, d) = m
<1>1. PICK h : h = [o \in Order |-> IF <<"head", o>> \in d THEN m.heads[o] ELSE k.heads[o]]
    OBVIOUS
<1>2. PICK u : u = [b \in DOMAIN m.bucket |->
                       IF <<"bucket", b>> \in d THEN m.bucket[b]
                       ELSE IF b \in DOMAIN k.bucket THEN k.bucket[b] ELSE Zero]
    OBVIOUS
<1>3. PICK c : c = IF <<"count", 0>> \in d THEN m.count ELSE k.count
    OBVIOUS
<1>4. h = m.heads
    BY <1>1 DEF Covered, Memory
<1>5. u = m.bucket
    <2>1. PICK D \in SUBSET Nat : m.bucket \in [D -> BucketRecord]
        BY DEF Memory
    <2>2. \A b \in DOMAIN m.bucket : u[b] = m.bucket[b]
        BY <1>2 DEF Covered
    <2> QED
        BY <1>2, <2>1, <2>2
<1>6. c = m.count
    BY <1>3 DEF Covered
<1>7. Overlay(k, m, d) = [size |-> m.size, count |-> c, heads |-> h, bucket |-> u]
    BY <1>1, <1>2, <1>3 DEF Overlay
<1>8. m = [size |-> m.size, count |-> m.count, heads |-> m.heads, bucket |-> m.bucket]
    BY DEF Memory
<1> QED
    BY <1>4, <1>5, <1>6, <1>7, <1>8

\* A file as it has just been written or mapped needs nothing reported.
LEMMA CoveredSelf ==
    ASSUME NEW m
    PROVE  Covered(m, m, {}, {})
    BY DEF Covered

\* An empty file.
LEMMA AllocStart ==
    ASSUME AllocInit
    PROVE  AllocInv
<1>1. /\ mem \in Memory /\ mem.count = 0 /\ DOMAIN mem.bucket = {}
      /\ \A o \in Order : mem.heads[o] = Nil
    <2>1. mem.size \in {0} /\ mem.count \in 0..MaxCount + 4 /\ mem.heads \in [Order -> Int]
        BY AllocAssumption DEF AllocInit, Nil
    <2>2. mem.bucket \in [{} -> BucketRecord] /\ {} \in SUBSET Nat
        BY DEF AllocInit
    <2>3. mem = [size |-> mem.size, count |-> mem.count, heads |-> mem.heads,
                 bucket |-> mem.bucket]
        BY DEF AllocInit
    <2>4. mem \in Memory
        BY <2>1, <2>2, <2>3 DEF Memory
    <2> QED
        BY <2>4 DEF AllocInit
<1>2. Chains(mem, {})
    <2>1. ASSUME NEW o \in Order PROVE Chained(mem, o, {})
        <3>1. PICK q : q = [i \in 0..0 + 1 |-> Nil]
            OBVIOUS
        <3>2. q \in [0..0 + 1 -> Int] /\ q[0] = Nil /\ q[0 + 1] = Nil /\ q[1] = Nil
            BY <3>1 DEF Nil
        <3>3. Chain(mem, o, 0, q, {})
            BY <1>1, <3>2 DEF Chain
        <3>4. 0 \in Nat
            OBVIOUS
        <3> QED
            BY <3>2, <3>3, <3>4 DEF Chained
    <2> QED
        BY <2>1 DEF Chains
<1>3. Tiles(mem)
    BY <1>1 DEF Tiles, FileEnd
<1>4. mem.count <= MaxCount
    BY <1>1, AllocAssumption
<1>5. disk = mem /\ dirty = {} /\ sound = TRUE
    BY DEF AllocInit
<1> QED
    BY <1>1, <1>2, <1>3, <1>4, <1>5, CoveredSelf DEF AllocInv, Fit

\* What an operation starts from.
LEMMA WorkWhole ==
    ASSUME AllocInv
    PROVE  /\ Whole(Work, disk) /\ Work.mem = mem /\ Work.mem.count <= MaxCount
<1>1. PICK w : w = Work
    OBVIOUS
<1>2. DOMAIN w = {"mem", "dirty", "ok"} /\ w = [x \in DOMAIN w |-> w[x]]
      /\ w.mem = mem /\ w.dirty = dirty /\ w.ok = sound
    BY <1>1 DEF Work
<1>3. WorkDone(w) /\ w.ok = TRUE
    BY <1>2 DEF WorkDone, AllocInv, Fit
<1> QED
    BY <1>1, <1>2, <1>3 DEF AllocInv, Fit, Whole, Good

\* What it leaves.
LEMMA DoesKeeps ==
    ASSUME AllocInv, NEW v, Whole(v, disk), Does(v)
    PROVE  AllocInv'
<1>1. mem' = v.mem /\ dirty' = v.dirty /\ sound' = v.ok /\ disk' = disk /\ v.mem.count <= MaxCount
    BY DEF Does
<1>2. /\ v.mem \in Memory /\ v.ok = TRUE /\ Chains(v.mem, {}) /\ Tiles(v.mem)
      /\ Covered(disk, v.mem, v.dirty, {})
    BY DEF Whole, Good, WorkDone
<1>3. Fit(mem')
    BY <1>1, <1>2 DEF Fit
<1>4. Fit(disk')
    BY <1>1 DEF AllocInv
<1>5. Covered(disk', mem', dirty', {})
    BY <1>1, <1>2
<1> QED
    BY <1>1, <1>2, <1>3, <1>4, <1>5 DEF AllocInv, Fit, Covered, Tiles, FileEnd, End, Chains, Chained, Chain

\* Every step of the allocator keeps the invariant.
LEMMA AllocStep ==
    ASSUME AllocInv, [AllocNext]_allocVars
    PROVE  AllocInv'
<1>1. PICK w : w = Work /\ Whole(w, disk) /\ w.mem = mem /\ w.mem.count <= MaxCount
    BY WorkWhole
<1>2. ASSUME NEW size \in Size, Alloc(size) PROVE AllocInv'
    <2>1. PICK v : v = DbAlloc(w, size).w
        OBVIOUS
    <2>2. Does(v)
        BY <1>1, <1>2, <2>1 DEF Alloc
    <2>3. Done(w, v, disk)
        BY ONLY <1>1, <2>1, AllocKeeps
    <2> QED
        BY <2>2, <2>3, DoesKeeps DEF Done
<1>3. ASSUME NEW b \in Live(mem), Release(b) PROVE AllocInv'
    <2>1. PICK v : v = DbFree(w, b)
        OBVIOUS
    <2>2. Does(v)
        BY <1>1, <1>3, <2>1 DEF Release
    <2>3. b \in DOMAIN w.mem.bucket /\ w.mem.bucket[b].free = FALSE
        BY <1>1, Buckets DEF Live, Whole, Good
    <2>4. Whole(v, disk)
        BY ONLY <1>1, <2>1, <2>3, FreeKeeps
    <2> QED
        BY <2>2, <2>4, DoesKeeps
<1>4. ASSUME NEW b \in Live(mem), NEW size \in Size, Realloc(b, size) PROVE AllocInv'
    <2>1. PICK v : v = DbRealloc(w, b, size)
        OBVIOUS
    <2>2. Does(v)
        BY <1>1, <1>4, <2>1 DEF Realloc
    <2>3. b \in DOMAIN w.mem.bucket /\ w.mem.bucket[b].free = FALSE
        BY <1>1, Buckets DEF Live, Whole, Good
    <2>4. Whole(v, disk)
        BY ONLY <1>1, <2>1, <2>3, ReallocKeeps
    <2> QED
        BY <2>2, <2>4, DoesKeeps
<1>5. CASE Commit
    <2>1. Overlay(disk, mem, dirty) = mem
        BY CoveredOverlay DEF AllocInv, Fit
    <2>2. disk' = mem /\ mem' = mem /\ dirty' = {} /\ sound' = sound
        BY <1>5, <2>1 DEF Commit
    <2> QED
        BY <2>2, CoveredSelf DEF AllocInv
<1>6. CASE Kill
    <2>1. disk' = disk /\ mem' = disk /\ dirty' = {} /\ sound' = sound
        BY <1>6 DEF Kill
    <2> QED
        BY <2>1, CoveredSelf DEF AllocInv
<1>7. CASE UNCHANGED allocVars
    BY <1>7 DEF allocVars, AllocInv
<1> QED
    BY <1>2, <1>3, <1>4, <1>5, <1>6, <1>7 DEF AllocNext

\* db.c, the allocator, in memory and in the file at once: the free buckets of each
\* order form one list, followed the same both ways, the buckets tile the file, all that
\* differs from the file was reported, and no assert has failed.
THEOREM AllocKept == AllocSpec => []AllocInv
<1>1. AllocInit => AllocInv
    BY AllocStart
<1>2. AllocInv /\ [AllocNext]_allocVars => AllocInv'
    BY AllocStep
<1> QED
    BY <1>1, <1>2, PTL DEF AllocSpec

\* db.c, db_invalidate_region in extract_bucket, insert_bucket and db_grow: what the
\* allocator changed has all been reported, so a commit leaves in the file what is in memory.
THEOREM AlwaysJournaled == AllocSpec => []Journaled
<1>1. AllocInv => Journaled
    BY CoveredOverlay DEF AllocInv, Fit, Journaled
<1> QED
    BY <1>1, AllocKept, PTL

-----------------------------------------------------------------------------
(* What the runs check, from the invariant.                                  *)

\* Buckets that tile the file do not overlap.
LEMMA TilesOnce ==
    ASSUME Fit(mem), NEW pos \in 0..FileEnd(mem) - 1
    PROVE  Cardinality({b \in DOMAIN mem.bucket :
                          b <= pos /\ pos < b + Shift[mem.bucket[b].order]}) = 1
<1>1. PICK w : w = [mem |-> mem, dirty |-> {}, ok |-> TRUE]
    OBVIOUS
<1>2. WorkDone(w) /\ w.mem = mem
    BY <1>1 DEF WorkDone, Fit
<1>3. PICK m : m = mem
    OBVIOUS
<1>4. /\ \A b \in DOMAIN m.bucket : b \in Nat /\ End(m, b) \in Nat /\ b < End(m, b)
      /\ FileEnd(m) \in Nat
    BY <1>2, <1>3, Ends
<1>5. PICK T : T = {b \in DOMAIN m.bucket : b <= pos /\ pos < End(m, b)}
    OBVIOUS
<1>6. pos \in 0..FileEnd(m) - 1 /\ Tiles(m)
    BY <1>3 DEF Fit
<1>7. PICK b \in DOMAIN m.bucket : b <= pos /\ pos < End(m, b)
    BY <1>6 DEF Tiles
<1>8. ASSUME NEW c \in T PROVE c = b
    <2>1. c \in DOMAIN m.bucket /\ c <= pos /\ pos < End(m, c)
        BY <1>5
    <2>2. b < c => End(m, b) <= c
        BY <1>6, <2>1 DEF Tiles
    <2>3. c < b => End(m, c) <= b
        BY <1>6, <2>1 DEF Tiles
    <2> QED
        BY <1>4, <1>6, <1>7, <2>1, <2>2, <2>3
<1>9. T = {b}
    BY <1>5, <1>7, <1>8
<1>10. Cardinality({b}) = 1
    BY FS_Singleton
<1>11. T = {y \in DOMAIN mem.bucket : y <= pos /\ pos < y + Shift[mem.bucket[y].order]}
    BY <1>3, <1>5 DEF End
<1> QED
    BY <1>9, <1>10, <1>11

\* db.c, split_bucket and db_grow: each unit of the file lies in one bucket, whatever is
\* asked for, freed and rolled back, and no assert of the allocator fails.
THEOREM AlwaysTiled == AllocSpec => []Tiled
<1>1. AllocInv => Tiled
    <2>1. ASSUME AllocInv PROVE Tiled
        <3>1. Fit(mem) /\ sound = TRUE
            BY <2>1 DEF AllocInv
        <3> QED
            BY <3>1, TilesOnce DEF Tiled, FileEnd
    <2> QED
        BY <2>1
<1> QED
    BY <1>1, AllocKept, PTL

\* The definition of Listed, unfolded.
LEMMA ListedStep ==
    ASSUME NEW o
    PROVE  /\ Listed(o, 1) = mem.heads[o]
           /\ \A n \in Nat \ {0} : Listed(o, n + 1) =
                  IF Listed(o, n) = Nil THEN Nil
                  ELSE [b \in DOMAIN mem.bucket |-> mem.bucket[b].next][Listed(o, n)]
<1>1. PICK link : link = [b \in DOMAIN mem.bucket |-> mem.bucket[b].next]
    OBVIOUS
<1>2. PICK start : start = mem.heads[o]
    OBVIOUS
<1>3. PICK at : Growing!Follows(at, start, link, Nil)
    BY ONLY Growing!Following, Zenon
<1>4. ASSUME NEW k \in Nat \ {0}
      PROVE  at[k] = IF k = 1 THEN start
                     ELSE IF at[k - 1] = Nil THEN Nil ELSE link[at[k - 1]]
    <2>1. CASE k = 1
        BY <1>3, <2>1 DEF Growing!Follows
    <2>2. CASE k # 1
        <3>1. k - 1 \in Nat \ {0} /\ (k - 1) + 1 = k
            BY <2>2
        <3> QED
            BY <1>3, <2>2, <3>1 DEF Growing!Follows
    <2> QED
        BY <2>1, <2>2
<1>5. at = [k \in Nat \ {0} |->
                        IF k = 1 THEN start
                        ELSE IF at[k - 1] = Nil THEN Nil ELSE link[at[k - 1]]]
    BY <1>3, <1>4 DEF Growing!Follows
<1>6. at = [k \in Nat \ {0} |->
                        IF k = 1 THEN mem.heads[o]
                        ELSE IF at[k - 1] = Nil THEN Nil
                        ELSE [b \in DOMAIN mem.bucket |-> mem.bucket[b].next][at[k - 1]]]
    BY ONLY <1>1, <1>2, <1>5, Zenon
<1>7. PICK bt : /\ bt = [k \in Nat \ {0} |->
                        IF k = 1 THEN mem.heads[o]
                        ELSE IF bt[k - 1] = Nil THEN Nil
                        ELSE [b \in DOMAIN mem.bucket |-> mem.bucket[b].next][bt[k - 1]]]
                /\ \A n : Listed(o, n) = bt[n]
    BY ONLY <1>6, Zenon DEF Listed
<1>8. bt[1] = mem.heads[o]
    BY <1>7
<1>9. ASSUME NEW n \in Nat \ {0}
      PROVE  bt[n + 1] = IF bt[n] = Nil THEN Nil
                         ELSE [b \in DOMAIN mem.bucket |-> mem.bucket[b].next][bt[n]]
    <2>1. n + 1 \in Nat \ {0} /\ n + 1 # 1 /\ (n + 1) - 1 = n
        OBVIOUS
    <2> QED
        BY <1>7, <2>1
<1>10. Listed(o, 1) = mem.heads[o]
    BY ONLY <1>7, <1>8
<1>11. ASSUME NEW n \in Nat \ {0}
       PROVE  Listed(o, n + 1) =
                  IF Listed(o, n) = Nil THEN Nil
                  ELSE [b \in DOMAIN mem.bucket |-> mem.bucket[b].next][Listed(o, n)]
    <2>1. Listed(o, n) = bt[n] /\ Listed(o, n + 1) = bt[n + 1]
        BY ONLY <1>7
    <2>2. PICK link2 : link2 = [b \in DOMAIN mem.bucket |-> mem.bucket[b].next]
        OBVIOUS
    <2>3. bt[n + 1] = IF bt[n] = Nil THEN Nil ELSE link2[bt[n]]
        BY ONLY <1>9, <2>2, n \in Nat \ {0}, Zenon
    <2>4. Listed(o, n + 1) = IF Listed(o, n) = Nil THEN Nil ELSE link2[Listed(o, n)]
        BY ONLY <2>1, <2>3
    <2> QED
        BY ONLY <2>2, <2>4, Zenon
<1> QED
    BY ONLY <1>10, <1>11, Zenon

\* The list of an order is followed along its chain.
LEMMA ListedAlong ==
    ASSUME Fit(mem), NEW o \in Order, NEW n \in Nat, NEW q \in [0..n + 1 -> Int],
           Chain(mem, o, n, q, {})
    PROVE  \A k \in 1..n + 1 : Listed(o, k) = q[k]
<1>1. PICK S : S = {k \in Nat : k + 1 \in 1..n + 1 => Listed(o, k + 1) = q[k + 1]}
    OBVIOUS
<1>2. S \subseteq Nat /\ 0 \in S
    <2>1. Listed(o, 1) = q[1]
        BY ListedStep DEF Chain
    <2>2. 0 + 1 = 1
        OBVIOUS
    <2> QED
        BY <1>1, <2>1, <2>2
<1>3. ASSUME NEW k \in S PROVE k + 1 \in S
    <2>1. k \in Nat /\ (k + 1 \in 1..n + 1 => Listed(o, k + 1) = q[k + 1])
        BY <1>1
    <2>2. SUFFICES ASSUME (k + 1) + 1 \in 1..n + 1
                   PROVE  Listed(o, (k + 1) + 1) = q[(k + 1) + 1]
        BY <1>1, <2>1
    <2>3. k + 1 \in 1..n /\ k + 1 \in Nat \ {0} /\ k + 1 \in 1..n + 1
        BY <2>1, <2>2
    <2>4. q[k + 1] \in DOMAIN mem.bucket /\ mem.bucket[q[k + 1]].next = q[(k + 1) + 1]
        BY <2>3 DEF Chain
    <2>5. q[k + 1] # Nil
        <3>1. DOMAIN mem.bucket \subseteq Nat
            BY DEF Fit, Memory
        <3> QED
            BY <2>4, <3>1 DEF Nil
    <2>6. Listed(o, (k + 1) + 1) =
              IF Listed(o, k + 1) = Nil THEN Nil
              ELSE [b \in DOMAIN mem.bucket |-> mem.bucket[b].next][Listed(o, k + 1)]
        BY ONLY <2>3, ListedStep
    <2>7. Listed(o, k + 1) = q[k + 1]
        BY <2>1, <2>3
    <2> QED
        BY <2>4, <2>5, <2>6, <2>7
<1>4. S = Nat
    BY ONLY <1>2, <1>3, Growing!Induction, Zenon
<1>5. ASSUME NEW k \in 1..n + 1 PROVE Listed(o, k) = q[k]
    <2>1. k - 1 \in S /\ (k - 1) + 1 = k
        BY <1>4
    <2> QED
        BY <1>1, <2>1
<1> QED
    BY <1>5

(* The list of order o holds the n buckets of want, as the runs check it.    *)
FreeOf(o) == {b \in DOMAIN mem.bucket : mem.bucket[b].free /\ mem.bucket[b].order = o}

ListHolds(o, want, n) ==
    /\ Cardinality(want) = n
    /\ {Listed(o, k) : k \in 1..n} = want
    /\ Listed(o, n + 1) = Nil
    /\ \A k \in 1..n : mem.bucket[Listed(o, k)].prev
                        = IF k = 1 THEN Nil ELSE Listed(o, k - 1)

\* A chain is a list as the runs follow it.
LEMMA ChainLists ==
    ASSUME Fit(mem), NEW o \in Order, NEW n \in Nat, NEW q \in [0..n + 1 -> Int],
           Chain(mem, o, n, q, {}),
           NEW want, want = FreeOf(o)
    PROVE  ListHolds(o, want, n)
<1>1. \A k \in 1..n + 1 : Listed(o, k) = q[k]
    BY ListedAlong
<1>2. \A b \in DOMAIN mem.bucket : mem.bucket[b].free \in BOOLEAN
    <2>1. PICK D \in SUBSET Nat : mem.bucket \in [D -> BucketRecord]
        BY DEF Fit, Memory
    <2>2. \A b \in D : mem.bucket[b] \in BucketRecord /\ DOMAIN mem.bucket = D
        BY <2>1
    <2> QED
        BY <2>1, <2>2 DEF BucketRecord
<1>3. \A k \in 1..n : q[k] \in want
    BY DEF Chain, FreeOf
<1>4. \A b \in want : \E k \in 1..n : q[k] = b
    BY <1>2 DEF Chain, FreeOf
<1>5. \A i, j \in 1..n : q[i] = q[j] => i = j
    BY DEF Chain
<1>6. Cardinality(want) = n
    <2>1. PICK s : s = [k \in 1..n |-> q[k]]
        OBVIOUS
    <2>2. s \in Bijection(1..n, want)
        BY <1>3, <1>4, <1>5, <2>1 DEF Bijection, Injection, Surjection, IsInjective
    <2>3. IsFiniteSet(1..n) /\ Cardinality(1..n) = n
        BY FS_Interval
    <2> QED
        BY <2>2, <2>3, FS_Bijection DEF ExistsBijection
<1>7. {Listed(o, k) : k \in 1..n} = want
    <2>1. \A k \in 1..n : k \in 1..n + 1
        OBVIOUS
    <2> QED
        BY <1>1, <1>3, <1>4, <2>1
<1>8. Listed(o, n + 1) = Nil
    <2>1. n + 1 \in 1..n + 1
        OBVIOUS
    <2> QED
        BY <1>1, <2>1 DEF Chain
<1>9. ASSUME NEW k \in 1..n
      PROVE  mem.bucket[Listed(o, k)].prev = IF k = 1 THEN Nil ELSE Listed(o, k - 1)
    <2>1. mem.bucket[q[k]].prev = q[k - 1] /\ q[0] = Nil
        BY DEF Chain
    <2>2. Listed(o, k) = q[k] /\ (k # 1 => Listed(o, k - 1) = q[k - 1])
        BY <1>1
    <2>3. k = 1 => k - 1 = 0
        OBVIOUS
    <2> QED
        BY <2>1, <2>2, <2>3
<1> QED
    BY <1>6, <1>7, <1>8, <1>9 DEF ListHolds

\* db.c, insert_bucket and extract_bucket: the list of each order holds the free buckets
\* of that order, each once, and its prev pointers lead back.
THEOREM AlwaysFreeLists == AllocSpec => []FreeLists
<1>1. ASSUME AllocInv PROVE FreeLists
    <2>1. ASSUME NEW o \in Order
          PROVE  LET want == {b \in DOMAIN mem.bucket :
                                mem.bucket[b].free /\ mem.bucket[b].order = o}
                     n    == Cardinality(want)
                 IN /\ {Listed(o, k) : k \in 1..n} = want
                    /\ Listed(o, n + 1) = Nil
                    /\ \A k \in 1..n : mem.bucket[Listed(o, k)].prev
                                        = IF k = 1 THEN Nil ELSE Listed(o, k - 1)
        <3>1. Fit(mem) /\ Chained(mem, o, {})
            BY <1>1 DEF AllocInv, Fit, Chains
        <3>2. PICK n \in Nat : \E q \in [0..n + 1 -> Int] : Chain(mem, o, n, q, {})
            BY <3>1 DEF Chained
        <3>3. PICK q \in [0..n + 1 -> Int] : Chain(mem, o, n, q, {})
            BY <3>2
        <3>4. PICK want : want = FreeOf(o)
            OBVIOUS
        <3>5. ListHolds(o, want, n)
            BY ONLY <3>1, <3>3, <3>4, o \in Order, ChainLists
        <3>6. want = {b \in DOMAIN mem.bucket :
                         mem.bucket[b].free /\ mem.bucket[b].order = o}
            BY <3>4 DEF FreeOf
        <3> QED
            BY <3>5, <3>6 DEF ListHolds
    <2> QED
        BY <2>1 DEF FreeLists
<1>2. AllocInv => FreeLists
    BY <1>1
<1> QED
    BY <1>2, AllocKept, PTL

=============================================================================
