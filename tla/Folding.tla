------------------------------- MODULE Folding ------------------------------
(***************************************************************************)
(* Facts about loops, for any operator Op that one turn applies: FoldLeft  *)
(* over a sequence reaches its value step by step, pointers are followed,  *)
(* and the elements of a finite set are used up one after the other.  Each *)
(* says that a function with its recursive equation exists, so that proofs *)
(* elsewhere go from one turn to the next.  Induction is said of sets, not *)
(* of predicates: no theorem here takes an operator as a parameter.        *)
(***************************************************************************)
EXTENDS Integers, Sequences, SequencesExt, FiniteSets, FiniteSetsExt,
        FiniteSetTheorems, WellFoundedInduction, Powers, TLAPS

CONSTANT Op(_, _)

\* Induction, said of a set of natural numbers.
LEMMA Induction ==
    ASSUME NEW S, S \subseteq Nat, 0 \in S, \A n \in S : n + 1 \in S
    PROVE  S = Nat
<1>1. SUFFICES ASSUME NEW n \in Nat, n \notin S PROVE FALSE
    OBVIOUS
<1>2. PICK Bad : Bad = {B \in SUBSET (0..n) : \E m \in 0..n : B = 0..m /\ m \notin S}
    OBVIOUS
<1>3. Bad # {} /\ Bad \subseteq FiniteSubsetsOf(0..n)
    <2>1. 0..n \in Bad
        BY <1>1, <1>2
    <2>2. ASSUME NEW B \in Bad PROVE IsFiniteSet(B)
        BY <1>2, FS_Interval, FS_Subset
    <2> QED
        BY <1>2, <2>1, <2>2 DEF FiniteSubsetsOf
<1>4. PICK B \in Bad : \A C \in Bad : ~(<<C, B>> \in StrictSubsetOrdering(0..n))
    BY ONLY <1>3, FS_StrictSubsetOrderingWellFounded, WFMin, Zenon
<1>5. PICK m \in 0..n : B = 0..m /\ m \notin S
    BY <1>2
<1>6. m # 0 /\ m - 1 \in Nat /\ m - 1 \notin S
    BY <1>1, <1>5
<1>7. 0..(m - 1) \in Bad
    BY <1>2, <1>6
<1>8. <<0..(m - 1), B>> \in StrictSubsetOrdering(0..n)
    BY <1>5, <1>6 DEF StrictSubsetOrdering
<1> QED
    BY <1>4, <1>7, <1>8

\* Induction on a finite set, said of a set of its subsets.
LEMMA FiniteInduction ==
    ASSUME NEW X, IsFiniteSet(X), NEW F, F \subseteq SUBSET X,
           \A T \in SUBSET X : (\A x \in T : T \ {x} \in F) => T \in F
    PROVE  F = SUBSET X
<1>1. SUFFICES ASSUME (SUBSET X) \ F # {} PROVE FALSE
    OBVIOUS
<1>2. (SUBSET X) \ F \subseteq FiniteSubsetsOf(X)
    BY FS_Subset DEF FiniteSubsetsOf
<1>3. PICK T \in (SUBSET X) \ F : \A U \in (SUBSET X) \ F : ~(<<U, T>> \in StrictSubsetOrdering(X))
    BY ONLY <1>1, <1>2, FS_StrictSubsetOrderingWellFounded, WFMin, Zenon
<1>4. PICK x \in T : T \ {x} \notin F
    BY <1>3
<1>5. <<T \ {x}, T>> \in StrictSubsetOrdering(X)
    BY <1>3, <1>4 DEF StrictSubsetOrdering
<1> QED
    BY <1>3, <1>4, <1>5

\* A set of numbers up to n has a largest one.
LEMMA HasMax ==
    ASSUME NEW n \in Nat, NEW T \in SUBSET (1..n), T # {}
    PROVE  Max(T) \in T /\ \A y \in T : y <= Max(T)
<1>1. PICK S : S = {m \in Nat : \A U \in SUBSET (1..m) : U # {} => \E x \in U : \A y \in U : x >= y}
    OBVIOUS
<1>2. S \subseteq Nat /\ 0 \in S
    <2>1. \A U \in SUBSET (1..0) : U = {}
        OBVIOUS
    <2> QED
        BY <1>1, <2>1
<1>3. ASSUME NEW m \in S PROVE m + 1 \in S
    <2>1. m + 1 \in Nat
        BY <1>1
    <2>2. ASSUME NEW U \in SUBSET (1..m + 1), U # {}, m + 1 \notin U
          PROVE  \E x \in U : \A y \in U : x >= y
        <3>1. U \in SUBSET (1..m)
            BY <1>1, <2>2
        <3> QED
            BY <1>1, <2>2, <3>1
    <2>3. ASSUME NEW U \in SUBSET (1..m + 1), m + 1 \in U
          PROVE  \E x \in U : \A y \in U : x >= y
        BY <1>1, <2>3
    <2> QED
        BY <1>1, <2>1, <2>2, <2>3
<1>4. S = Nat
    BY ONLY <1>2, <1>3, Induction, Zenon
<1>5. \E x \in T : \A y \in T : x >= y
    BY <1>1, <1>4
<1>6. Max(T) \in T /\ \A y \in T : Max(T) >= y
    BY ONLY <1>5, Zenon DEF Max
<1> QED
    BY <1>6

\* FoldLeft(Op, base, q) is reached step by step along q.
THEOREM Steps ==
    ASSUME NEW base, NEW q, DOMAIN q = 1..Len(q), Len(q) \in Nat
    PROVE  \E f : /\ f[0] = base
                  /\ \A k \in 1..Len(q) : f[k] = Op(f[k - 1], q[k])
                  /\ FoldLeft(Op, base, q) = f[Len(q)]
<1>1. PICK S : S = {n \in Nat :
                \E it : it = [s \in SUBSET (1..n) |->
                               IF s = {} THEN base ELSE Op(it[s \ {Max(s)}], q[Max(s)])]}
    OBVIOUS
<1>2. S \subseteq Nat /\ 0 \in S
    <2>1. PICK it : it = [s \in SUBSET (1..0) |-> base]
        OBVIOUS
    <2>2. it = [s \in SUBSET (1..0) |-> IF s = {} THEN base ELSE Op(it[s \ {Max(s)}], q[Max(s)])]
        <3>1. \A s \in SUBSET (1..0) : s = {}
            OBVIOUS
        <3> QED
            BY <2>1, <3>1
    <2> QED
        BY <1>1, <2>2
<1>3. ASSUME NEW n \in S PROVE n + 1 \in S
    <2>1. n \in Nat
        BY <1>1
    <2>2. PICK it : it = [s \in SUBSET (1..n) |->
                             IF s = {} THEN base ELSE Op(it[s \ {Max(s)}], q[Max(s)])]
        BY <1>1
    <2>3. PICK jt : jt = [s \in SUBSET (1..n + 1) |->
                             IF n + 1 \in s THEN Op(it[s \ {n + 1}], q[n + 1]) ELSE it[s]]
        OBVIOUS
    <2>4. ASSUME NEW s \in SUBSET (1..n + 1)
          PROVE  jt[s] = IF s = {} THEN base ELSE Op(jt[s \ {Max(s)}], q[Max(s)])
        <3>1. CASE n + 1 \in s
            <4>1. Max(s) = n + 1
                <5>1. n + 1 \in Nat /\ s # {}
                    BY <2>1, <3>1
                <5>2. Max(s) \in s /\ \A y \in s : y <= Max(s)
                    BY ONLY <5>1, <2>4, HasMax
                <5>3. Max(s) \in 1..n + 1 /\ n + 1 <= Max(s)
                    BY <3>1, <5>2
                <5> QED
                    BY <2>1, <5>3
            <4>2. s \ {n + 1} \in SUBSET (1..n)
                BY <2>1
            <4>3. jt[s \ {n + 1}] = it[s \ {n + 1}]
                BY <2>1, <2>3, <4>2
            <4>4. jt[s] = Op(it[s \ {n + 1}], q[n + 1])
                BY <2>3, <3>1
            <4> QED
                BY ONLY <3>1, <4>1, <4>3, <4>4, Zenon
        <3>2. CASE n + 1 \notin s
            <4>1. s \in SUBSET (1..n) /\ s \ {Max(s)} \in SUBSET (1..n)
                <5>1. \A y \in s : y \in 1..n
                    BY <2>1, <3>2
                <5> QED
                    BY ONLY <5>1, Zenon
            <4>2. jt[s] = it[s] /\ jt[s \ {Max(s)}] = it[s \ {Max(s)}]
                BY <2>1, <2>3, <3>2, <4>1
            <4>3. it[s] = IF s = {} THEN base ELSE Op(it[s \ {Max(s)}], q[Max(s)])
                BY ONLY <2>2, <4>1, Zenon
            <4> QED
                BY ONLY <4>2, <4>3, Zenon
        <3> QED
            BY <3>1, <3>2
    <2>5. jt = [s \in SUBSET (1..n + 1) |->
                             IF s = {} THEN base ELSE Op(jt[s \ {Max(s)}], q[Max(s)])]
        BY <2>3, <2>4
    <2>6. n + 1 \in Nat
        BY <2>1
    <2> QED
        BY ONLY <1>1, <2>5, <2>6, Zenon
<1>4. S = Nat
    BY ONLY <1>2, <1>3, Induction, Zenon
<1>5. \E it : it = [s \in SUBSET DOMAIN q |->
                               IF s = {} THEN base ELSE Op(it[s \ {Max(s)}], q[Max(s)])]
    <2>1. Len(q) \in S
        BY <1>4
    <2> QED
        BY ONLY <1>1, <2>1, DOMAIN q = 1..Len(q), Zenon
<1>6. PICK it : /\ it = [s \in SUBSET DOMAIN q |->
                               IF s = {} THEN base ELSE Op(it[s \ {Max(s)}], q[Max(s)])]
                /\ FoldLeft(Op, base, q) = it[DOMAIN q]
    BY ONLY <1>5, Zenon DEF FoldLeft, MapThenFoldSet
<1>7. PICK f : f = [k \in 0..Len(q) |-> it[1..k]]
    OBVIOUS
<1>8. f[0] = base
    BY <1>6, <1>7
<1>9. ASSUME NEW k \in 1..Len(q) PROVE f[k] = Op(f[k - 1], q[k])
    <2>1. Max(1..k) = k
        <3>1. k \in Nat /\ 1..k \in SUBSET (1..k) /\ k \in 1..k
            OBVIOUS
        <3>2. Max(1..k) \in 1..k /\ \A y \in 1..k : y <= Max(1..k)
            BY ONLY <3>1, HasMax
        <3> QED
            BY <3>1, <3>2
    <2>2. (1..k) \ {k} = 1..k - 1 /\ 1..k \in SUBSET DOMAIN q /\ 1..k # {}
        OBVIOUS
    <2>3. it[1..k] = Op(it[1..k - 1], q[k])
        BY ONLY <1>6, <2>1, <2>2, Zenon
    <2>4. f[k] = it[1..k] /\ f[k - 1] = it[1..k - 1]
        BY <1>7
    <2> QED
        BY <2>3, <2>4
<1>10. FoldLeft(Op, base, q) = f[Len(q)]
    BY <1>6, <1>7
<1> QED
    BY <1>8, <1>9, <1>10

\* at[1], at[2], ... is what is met along the pointers of link from a start.
Follows(at, start, link, nil) ==
    /\ at = [k \in Nat \ {0} |-> at[k]]
    /\ at[1] = start
    /\ \A k \in Nat \ {0} : at[k + 1] = IF at[k] = nil THEN nil ELSE link[at[k]]

\* Such a function exists, so that a recursive definition of it means what it says.
THEOREM Following ==
    ASSUME NEW start, NEW link, NEW nil
    PROVE  \E at : Follows(at, start, link, nil)
<1> DEFINE Part(at, n) == at = [k \in 1..n |->
                            IF k = 1 THEN start
                            ELSE IF at[k - 1] = nil THEN nil ELSE link[at[k - 1]]]
<1>1. ASSUME NEW n \in Nat, NEW m \in Nat, NEW g, NEW h, Part(g, n), Part(h, m)
      PROVE  \A k \in 1..n : k <= m => g[k] = h[k]
    <2>1. PICK S : S = {k \in Nat : k \in 1..n /\ k <= m => g[k] = h[k]}
        OBVIOUS
    <2>2. S \subseteq Nat /\ 0 \in S
        BY <2>1
    <2>3. ASSUME NEW k \in S PROVE k + 1 \in S
        <3>1. k \in Nat /\ (k \in 1..n /\ k <= m => g[k] = h[k])
            BY <2>1
        <3>2. SUFFICES ASSUME k + 1 \in 1..n, k + 1 <= m PROVE g[k + 1] = h[k + 1]
            BY <2>1, <3>1
        <3>3. CASE k = 0
            BY <1>1, <3>2, <3>3
        <3>4. CASE k # 0
            <4>1. g[k] = h[k] /\ k + 1 \in 1..m /\ k + 1 # 1 /\ (k + 1) - 1 = k
                BY <3>1, <3>2, <3>4
            <4>2. g[k + 1] = IF g[k] = nil THEN nil ELSE link[g[k]]
                BY ONLY <1>1, <3>1, <3>2, <4>1
            <4>3. h[k + 1] = IF h[k] = nil THEN nil ELSE link[h[k]]
                BY ONLY <1>1, <3>1, <4>1
            <4> QED
                BY ONLY <4>1, <4>2, <4>3, Zenon
        <3> QED
            BY <3>3, <3>4
    <2>4. S = Nat
        BY ONLY <2>2, <2>3, Induction, Zenon
    <2> QED
        BY <2>1, <2>4
<1>2. PICK S : S = {n \in Nat : \E at : Part(at, n)}
    OBVIOUS
<1>3. S \subseteq Nat /\ 0 \in S
    <2>1. PICK at : at = [k \in 1..0 |-> start]
        OBVIOUS
    <2>2. Part(at, 0)
        BY <2>1
    <2> QED
        BY <1>2, <2>2
<1>4. ASSUME NEW n \in S PROVE n + 1 \in S
    <2>1. n \in Nat
        BY <1>2
    <2>2. PICK at : Part(at, n)
        BY <1>2
    <2>3. PICK bt : bt = [k \in 1..n + 1 |->
                            IF k = 1 THEN start
                            ELSE IF at[k - 1] = nil THEN nil ELSE link[at[k - 1]]]
        OBVIOUS
    <2>4. \A k \in 1..n : bt[k] = at[k]
        BY <2>1, <2>2, <2>3
    <2>5. \A k \in 1..n + 1 : k # 1 => k - 1 \in 1..n
        BY <2>1
    <2>6. Part(bt, n + 1)
        BY <2>3, <2>4, <2>5
    <2> QED
        BY <1>2, <2>1, <2>6, SMTT(40)
<1>5. S = Nat
    BY ONLY <1>3, <1>4, Induction, Zenon
<1>6. \A n \in Nat : \E at : Part(at, n)
    BY <1>2, <1>5
<1>7. PICK bt : bt = [n \in Nat |-> CHOOSE at : Part(at, n)]
    OBVIOUS
<1>8. ASSUME NEW n \in Nat PROVE Part(bt[n], n)
    BY <1>6, <1>7
<1>9. PICK ft : ft = [k \in Nat \ {0} |-> bt[k][k]]
    OBVIOUS
<1>10. ASSUME NEW k \in Nat \ {0}
       PROVE  ft[k] = IF k = 1 THEN start ELSE IF ft[k - 1] = nil THEN nil ELSE link[ft[k - 1]]
    <2>1. k \in 1..k /\ k \in Nat /\ Part(bt[k], k)
        BY <1>8
    <2>2. ft[k] = IF k = 1 THEN start
                  ELSE IF bt[k][k - 1] = nil THEN nil ELSE link[bt[k][k - 1]]
        BY <1>9, <2>1
    <2>3. CASE k = 1
        BY <2>2, <2>3
    <2>4. CASE k # 1
        <3>1. k - 1 \in Nat \ {0} /\ k - 1 \in Nat /\ k - 1 \in 1..k /\ k - 1 <= k - 1
            BY <2>4
        <3>2. Part(bt[k - 1], k - 1)
            BY <1>8, <3>1
        <3>3. bt[k][k - 1] = bt[k - 1][k - 1]
            BY <1>1, <2>1, <3>1, <3>2
        <3> QED
            BY <1>9, <2>2, <2>4, <3>1, <3>3
    <2> QED
        BY <2>3, <2>4
<1>11. ft = [k \in Nat \ {0} |-> ft[k]] /\ ft[1] = start
    BY <1>9, <1>10
<1>12. ASSUME NEW k \in Nat \ {0}
       PROVE  ft[k + 1] = IF ft[k] = nil THEN nil ELSE link[ft[k]]
    <2>1. k + 1 \in Nat \ {0} /\ k + 1 # 1 /\ (k + 1) - 1 = k
        OBVIOUS
    <2> QED
        BY <1>10, <2>1
<1> QED
    BY <1>11, <1>12 DEF Follows

\* A set is used up, one chosen element after the other: what at[T] is when T is used up.
UsesUp(at, X, base, pick) ==
    at = [T \in SUBSET X |->
             IF T = {} THEN base
             ELSE Op(at[T \ {pick[T]}], pick[T])]

\* Such a function exists for a finite set.
THEOREM UsingUp ==
    ASSUME NEW X, IsFiniteSet(X), NEW base, NEW pick,
           \A T \in SUBSET X : T # {} => pick[T] \in T
    PROVE  \E at : UsesUp(at, X, base, pick)
<1> DEFINE Small(n) == {T \in SUBSET X : Cardinality(T) <= n}
           Part(at, n) == at = [T \in Small(n) |->
             IF T = {} THEN base
             ELSE Op(at[T \ {pick[T]}], pick[T])]
<1>1. ASSUME NEW T \in SUBSET X
      PROVE  /\ Cardinality(T) \in Nat /\ (Cardinality(T) = 0 <=> T = {})
             /\ T # {} => /\ T \ {pick[T]} \in SUBSET X
                          /\ Cardinality(T \ {pick[T]}) = Cardinality(T) - 1
    <2>1. IsFiniteSet(T)
        BY FS_Subset
    <2>2. Cardinality(T) \in Nat /\ (Cardinality(T) = 0 <=> T = {})
        BY <2>1, FS_CardinalityType, FS_EmptySet
    <2>3. T # {} => pick[T] \in T
        OBVIOUS
    <2>4. PICK c : c = pick[T]
        OBVIOUS
    <2>5. T # {} => Cardinality(T \ {c}) = Cardinality(T) - 1
        BY <2>1, <2>3, <2>4, FS_RemoveElement
    <2>6. T \ {c} \in SUBSET X
        OBVIOUS
    <2> QED
        BY ONLY <2>2, <2>4, <2>5, <2>6, Zenon
<1>2. PICK S : S = {n \in Nat : \E at : Part(at, n)}
    OBVIOUS
<1>3. S \subseteq Nat /\ 0 \in S
    <2>1. PICK at : at = [T \in Small(0) |-> base]
        OBVIOUS
    <2>2. ASSUME NEW T \in Small(0) PROVE T = {}
        <3>1. T \in SUBSET X /\ Cardinality(T) <= 0
            OBVIOUS
        <3>2. Cardinality(T) \in Nat /\ (Cardinality(T) = 0 <=> T = {})
            BY ONLY <1>1, <3>1, Zenon
        <3> QED
            BY ONLY <3>1, <3>2
    <2>3. Part(at, 0)
        BY <2>1, <2>2
    <2> QED
        BY <1>2, <2>3
<1>4. ASSUME NEW n \in S PROVE n + 1 \in S
    <2>1. n \in Nat
        BY <1>2
    <2>2. PICK at : Part(at, n)
        BY <1>2
    <2>3. PICK bt : bt = [T \in Small(n + 1) |->
             IF Cardinality(T) <= n THEN at[T]
             ELSE Op(at[T \ {pick[T]}], pick[T])]
        OBVIOUS
    <2>4. ASSUME NEW T \in Small(n + 1)
          PROVE  bt[T] = IF T = {} THEN base
                         ELSE Op(bt[T \ {pick[T]}], pick[T])
        <3>1. PICK c, R : c = pick[T] /\ R = T \ {c}
            OBVIOUS
        <3>2. T \in Small(n + 1) /\ T \in SUBSET X /\ Cardinality(T) <= n + 1
            OBVIOUS
        <3>3. bt[T] = IF Cardinality(T) <= n THEN at[T] ELSE Op(at[R], c)
            <4>1. bt[T] = IF Cardinality(T) <= n THEN at[T]
                          ELSE Op(at[T \ {pick[T]}], pick[T])
                BY ONLY <2>3, <3>2
            <4> QED
                BY ONLY <3>1, <4>1, Zenon
        <3>4. T # {} => R \in SUBSET X /\ Cardinality(R) = Cardinality(T) - 1 /\ Cardinality(R) \in Nat
            <4>1. T # {} => R \in SUBSET X /\ Cardinality(R) = Cardinality(T) - 1
                BY ONLY <1>1, <3>1, <3>2, Zenon
            <4>2. T # {} => Cardinality(R) \in Nat
                BY ONLY <1>1, <4>1, Zenon
            <4> QED
                BY <4>1, <4>2
        <3>5. Cardinality(T) \in Nat /\ (Cardinality(T) = 0 <=> T = {})
            BY <1>1, <3>2
        <3>6. T # {} => R \in Small(n + 1) /\ Cardinality(R) <= n
            BY <2>1, <3>2, <3>4, <3>5
        <3>7. T # {} => bt[R] = at[R]
            BY ONLY <2>3, <3>6, Zenon
        <3>8. CASE Cardinality(T) <= n
            <4>1. T \in Small(n)
                BY <3>2, <3>8
            <4>2. at[T] = IF T = {} THEN base ELSE Op(at[R], c)
                BY ONLY <2>2, <3>1, <4>1, Zenon
            <4> QED
                BY ONLY <3>1, <3>3, <3>7, <3>8, <4>2, Zenon
        <3>9. CASE ~(Cardinality(T) <= n)
            <4>1. T # {}
                BY <2>1, <3>5, <3>9
            <4> QED
                BY ONLY <3>1, <3>3, <3>7, <3>9, <4>1, Zenon
        <3> QED
            BY <3>8, <3>9
    <2>5. Part(bt, n + 1)
        <3>1. bt = [T \in Small(n + 1) |-> bt[T]]
            BY ONLY <2>3
        <3> QED
            BY ONLY <2>4, <3>1
    <2>6. n + 1 \in Nat
        BY <2>1
    <2> QED
        BY ONLY <1>2, <2>5, <2>6, Zenon
<1>5. S = Nat
    BY ONLY <1>3, <1>4, Induction, Zenon
<1>6. Cardinality(X) \in S
    BY <1>5, FS_CardinalityType
<1>7. Small(Cardinality(X)) = SUBSET X
    <2>1. \A T \in SUBSET X : Cardinality(T) <= Cardinality(X)
        BY FS_Subset
    <2> QED
        BY <2>1
<1>8. PICK at : Part(at, Cardinality(X))
    BY ONLY <1>2, <1>6, Zenon
<1>9. UsesUp(at, X, base, pick)
    BY ONLY <1>7, <1>8, Zenon DEF UsesUp
<1> QED
    BY <1>9

\* Powers of two.
THEOREM ShiftIs ==
    /\ Shift[0] = 1
    /\ \A n \in Nat : Shift[n] \in Nat /\ Shift[n] >= 1 /\ Shift[n + 1] = 2 * Shift[n]
<1>1. PICK link : link = [x \in Nat |-> 2 * x]
    OBVIOUS
<1>2. PICK at : Follows(at, 1, link, -1)
    BY ONLY Following, Zenon
<1>3. /\ at[1] = 1
      /\ \A k \in Nat \ {0} : at[k + 1] = IF at[k] = -1 THEN -1 ELSE link[at[k]]
    BY <1>2 DEF Follows
<1>4. PICK S : S = {n \in Nat : at[n + 1] \in Nat /\ at[n + 1] >= 1}
    OBVIOUS
<1>5. S \subseteq Nat /\ 0 \in S
    BY <1>3, <1>4
<1>6. ASSUME NEW n \in S PROVE n + 1 \in S
    <2>1. n + 1 \in Nat \ {0} /\ at[n + 1] \in Nat /\ at[n + 1] >= 1
        BY <1>4
    <2>2. at[(n + 1) + 1] = 2 * at[n + 1]
        BY <1>1, <1>3, <2>1
    <2> QED
        BY <1>4, <2>1, <2>2
<1>7. S = Nat
    BY ONLY <1>5, <1>6, Induction, Zenon
<1>8. PICK f : f = [n \in Nat |-> at[n + 1]]
    OBVIOUS
<1>9. f = [n \in Nat |-> IF n = 0 THEN 1 ELSE 2 * f[n - 1]]
    <2>1. ASSUME NEW n \in Nat PROVE f[n] = IF n = 0 THEN 1 ELSE 2 * f[n - 1]
        <3>1. CASE n = 0
            BY <1>3, <1>8, <3>1
        <3>2. CASE n # 0
            <4>1. n - 1 \in Nat /\ (n - 1) + 1 = n /\ n \in Nat \ {0}
                BY <3>2
            <4>2. f[n] = at[n + 1] /\ f[n - 1] = at[n]
                BY <1>8, <4>1
            <4>3. at[n] \in Nat /\ at[n] >= 1
                <5>1. n - 1 \in S
                    BY <1>7, <4>1
                <5>2. at[(n - 1) + 1] \in Nat /\ at[(n - 1) + 1] >= 1
                    BY <1>4, <5>1
                <5> QED
                    BY <4>1, <5>2
            <4> QED
                BY <1>1, <1>3, <3>2, <4>1, <4>2, <4>3
        <3> QED
            BY <3>1, <3>2
    <2> QED
        BY <1>8, <2>1
<1>10. Shift = [n \in Nat |-> IF n = 0 THEN 1 ELSE 2 * Shift[n - 1]]
    BY ONLY <1>9, Zenon DEF Shift
<1>11. Shift[0] = 1
    BY <1>10
<1>12. ASSUME NEW n \in Nat PROVE Shift[n + 1] = 2 * Shift[n]
    <2>1. n + 1 \in Nat /\ n + 1 # 0 /\ (n + 1) - 1 = n
        OBVIOUS
    <2> QED
        BY <1>10, <2>1
<1>13. PICK T : T = {n \in Nat : Shift[n] \in Nat /\ Shift[n] >= 1}
    OBVIOUS
<1>14. T \subseteq Nat /\ 0 \in T
    BY <1>11, <1>13
<1>15. ASSUME NEW n \in T PROVE n + 1 \in T
    BY <1>12, <1>13
<1>16. T = Nat
    BY ONLY <1>14, <1>15, Induction, Zenon
<1> QED
    BY <1>11, <1>12, <1>13, <1>16
=============================================================================
