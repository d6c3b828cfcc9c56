----------------------------- MODULE ListProofs -----------------------------
(***************************************************************************)
(* What the operators of LinkedList do to a list that holds its nodes in   *)
(* some order, for the proofs about the lists of boards, users, sessions,  *)
(* bans, threads and posts.                                                *)
(***************************************************************************)
EXTENDS LinkedList, Integers, FiniteSetTheorems, TLAPS

\* Induction needs no operator of its own.
Fold == INSTANCE Folding WITH Op <- +

\* The list l holds the nodes s[1], ..., s[n], in this order.
Holds(l, s, n) ==
    /\ n \in Nat /\ Nil \notin Nodes(l)
    /\ s \in [1..n -> Nodes(l)]
    /\ l \in [first : Nodes(l) \cup {Nil}, last : Nodes(l) \cup {Nil},
              next : [Nodes(l) -> Nodes(l) \cup {Nil}],
              prev : [Nodes(l) -> Nodes(l) \cup {Nil}]]
    /\ \A x \in Nodes(l) : \E i \in 1..n : s[i] = x
    /\ \A i, j \in 1..n : s[i] = s[j] => i = j
    /\ l.first = IF n = 0 THEN Nil ELSE s[1]
    /\ \A i \in 1..n : l.next[s[i]] = IF i = n THEN Nil ELSE s[i + 1]
    /\ \A i \in 1..n : l.prev[s[i]] = IF i = 1 THEN Nil ELSE s[i - 1]

\* Induction, said of a set of natural numbers.
LEMMA Induction ==
    ASSUME NEW S, S \subseteq Nat, 0 \in S, \A n \in S : n + 1 \in S
    PROVE  S = Nat
BY ONLY Fold!Induction, S \subseteq Nat, 0 \in S, \A n \in S : n + 1 \in S, Zenon

\* The definition of Nth, unfolded.
LEMMA NthStep ==
    ASSUME NEW start, NEW link
    PROVE  /\ Nth(start, link, 1) = start
           /\ \A n \in Nat \ {0} : Nth(start, link, n + 1) =
                  IF Nth(start, link, n) = Nil THEN Nil ELSE link[Nth(start, link, n)]
<1>1. PICK at : Fold!Follows(at, start, link, Nil)
    BY ONLY Fold!Following, Zenon
<1>2. ASSUME NEW k \in Nat \ {0}
      PROVE  at[k] = IF k = 1 THEN start
                     ELSE IF at[k - 1] = Nil THEN Nil ELSE link[at[k - 1]]
    <2>1. CASE k = 1
        BY <1>1, <2>1 DEF Fold!Follows
    <2>2. CASE k # 1
        <3>1. k - 1 \in Nat \ {0} /\ (k - 1) + 1 = k
            BY <2>2
        <3> QED
            BY <1>1, <2>2, <3>1 DEF Fold!Follows
    <2> QED
        BY <2>1, <2>2
<1>3. at = [k \in Nat \ {0} |->
                        IF k = 1 THEN start
                        ELSE IF at[k - 1] = Nil THEN Nil ELSE link[at[k - 1]]]
    BY <1>1, <1>2 DEF Fold!Follows
<1>4. PICK bt : /\ bt = [k \in Nat \ {0} |->
                        IF k = 1 THEN start
                        ELSE IF bt[k - 1] = Nil THEN Nil ELSE link[bt[k - 1]]]
                /\ \A n : Nth(start, link, n) = bt[n]
    BY ONLY <1>3, Zenon DEF Nth
<1>5. bt[1] = start
    BY <1>4
<1>6. ASSUME NEW n \in Nat \ {0}
      PROVE  bt[n + 1] = IF bt[n] = Nil THEN Nil ELSE link[bt[n]]
    <2>1. n + 1 \in Nat \ {0} /\ n + 1 # 1 /\ (n + 1) - 1 = n
        OBVIOUS
    <2> QED
        BY <1>4, <2>1
<1> QED
    BY <1>4, <1>5, <1>6

\* The nodes of a list are met in their order along pointers that agree with its own.
LEMMA NthAlong ==
    ASSUME NEW l, NEW s, NEW n, Holds(l, s, n),
           NEW link, \A x \in Nodes(l) : link[x] = l.next[x]
    PROVE  \A k \in Nat \ {0} : Nth(l.first, link, k) = IF k <= n THEN s[k] ELSE Nil
<1>1. PICK S : S = {k \in Nat : Nth(l.first, link, k + 1) = IF k + 1 <= n THEN s[k + 1] ELSE Nil}
    OBVIOUS
<1>2. S \subseteq Nat /\ 0 \in S
    <2>1. Nth(l.first, link, 1) = l.first
        BY NthStep
    <2>2. l.first = IF 1 <= n THEN s[1] ELSE Nil
        BY DEF Holds
    <2> QED
        BY <1>1, <2>1, <2>2
<1>3. ASSUME NEW k \in S PROVE k + 1 \in S
    <2>1. k \in Nat /\ Nth(l.first, link, k + 1) = IF k + 1 <= n THEN s[k + 1] ELSE Nil
        BY <1>1
    <2>2. k + 1 \in Nat \ {0}
        BY <2>1
    <2>3. Nth(l.first, link, (k + 1) + 1) =
              IF Nth(l.first, link, k + 1) = Nil THEN Nil ELSE link[Nth(l.first, link, k + 1)]
        BY ONLY <2>2, NthStep
    <2>4. n \in Nat /\ (k + 1 <= n => s[k + 1] # Nil /\ l.next[s[k + 1]] = IF k + 1 = n THEN Nil ELSE s[(k + 1) + 1])
        BY <2>1 DEF Holds
    <2>5. k + 1 <= n => link[s[k + 1]] = l.next[s[k + 1]]
        <3>1. k + 1 <= n => s[k + 1] \in Nodes(l)
            BY <2>1, <2>4 DEF Holds
        <3> QED
            BY <3>1
    <2>6. Nth(l.first, link, (k + 1) + 1) = IF (k + 1) + 1 <= n THEN s[(k + 1) + 1] ELSE Nil
        BY <2>1, <2>3, <2>4, <2>5
    <2> QED
        BY <1>1, <2>1, <2>6
<1>4. S = Nat
    BY ONLY <1>2, <1>3, Induction, Zenon
<1>5. ASSUME NEW k \in Nat \ {0}
      PROVE  Nth(l.first, link, k) = IF k <= n THEN s[k] ELSE Nil
    <2>1. k - 1 \in S /\ (k - 1) + 1 = k
        BY <1>4
    <2> QED
        BY <1>1, <2>1
<1> QED
    BY <1>5

\* The loop along next meets the nodes of a list in their order, and then ends.
LEMMA NthIs ==
    ASSUME NEW l, NEW s, NEW n, Holds(l, s, n)
    PROVE  \A k \in Nat \ {0} : Nth(l.first, l.next, k) = IF k <= n THEN s[k] ELSE Nil
BY NthAlong

\* A list has as many nodes as places.
LEMMA HoldsCard ==
    ASSUME NEW l, NEW s, NEW n, Holds(l, s, n)
    PROVE  IsFiniteSet(Nodes(l)) /\ Cardinality(Nodes(l)) = n
<1>1. s \in Bijection(1..n, Nodes(l))
    BY DEF Holds, Bijection, Injection, Surjection, IsInjective
<1>2. IsFiniteSet(1..n) /\ Cardinality(1..n) = n
    BY FS_Interval DEF Holds
<1> QED
    BY <1>1, <1>2, FS_Bijection DEF ExistsBijection

\* The loop meets all nodes of a list.
LEMMA HoldsReached ==
    ASSUME NEW l, NEW s, NEW n, Holds(l, s, n)
    PROVE  Reached(l) = Nodes(l)
<1>1. Cardinality(Nodes(l)) = n
    BY HoldsCard
<1>2. \A k \in 1..n : Nth(l.first, l.next, k) = s[k]
    <2>1. n \in Nat
        BY DEF Holds
    <2> QED
        BY <2>1, NthIs
<1>3. \A k \in 1..n : s[k] \in Nodes(l) /\ s[k] # Nil
    BY DEF Holds
<1>4. \A x \in Nodes(l) : \E k \in 1..n : s[k] = x
    BY DEF Holds
<1> QED
    BY <1>1, <1>2, <1>3, <1>4 DEF Reached

\* A list that holds its nodes in some order is linked as the runs check it.
LEMMA HoldsLinked ==
    ASSUME NEW l, NEW s, NEW n, Holds(l, s, n)
    PROVE  Linked(l)
<1>1. Cardinality(Nodes(l)) = n /\ Reached(l) = Nodes(l)
    BY HoldsCard, HoldsReached
<1>2. n \in Nat /\ n + 1 \in Nat \ {0} /\ \A k \in 1..n : k \in Nat \ {0}
    BY DEF Holds
<1>3. \A k \in 1..n : Nth(l.first, l.next, k) = s[k]
    BY NthIs, <1>2
<1>4. Nth(l.first, l.next, n + 1) = Nil
    BY NthIs, <1>2
<1>5. ASSUME NEW k \in 1..n
      PROVE  l.prev[Nth(l.first, l.next, k)] =
                IF k = 1 THEN Nil ELSE Nth(l.first, l.next, k - 1)
    <2>1. l.prev[s[k]] = IF k = 1 THEN Nil ELSE s[k - 1]
        BY DEF Holds
    <2>2. k # 1 => k - 1 \in 1..n
        BY <1>2
    <2> QED
        BY <1>3, <2>1, <2>2
<1> QED
    BY <1>1, <1>4, <1>5 DEF Linked

\* A node that is added to a list that has some comes last.
LEMMA AppendHolds ==
    ASSUME NEW l, NEW s, NEW n, Holds(l, s, n), n # 0, l.last = s[n],
           NEW x, x \notin Nodes(l), x # Nil
    PROVE  LET m == AppendNode(l, x)
           IN /\ Holds(m, [i \in 1..n + 1 |-> IF i = n + 1 THEN x ELSE s[i]], n + 1)
              /\ m.last = x /\ Nodes(m) = Nodes(l) \cup {x}
<1>1. PICK m : m = AppendNode(l, x)
    OBVIOUS
<1>2. PICK t : t = [i \in 1..n + 1 |-> IF i = n + 1 THEN x ELSE s[i]]
    OBVIOUS
<1>3. n \in Nat /\ s[n] \in Nodes(l) /\ Nil \notin Nodes(l) /\ DOMAIN l.prev = Nodes(l)
    BY DEF Holds
<1>4. m = [first |-> l.first, last |-> x, next |-> Set(Set(l.next, x, Nil), s[n], x),
           prev |-> Set(l.prev, x, s[n])]
    BY <1>1 DEF AppendNode, Holds
<1>5. Nodes(m) = Nodes(l) \cup {x} /\ DOMAIN m.prev = Nodes(l) \cup {x}
    BY <1>3, <1>4 DEF Nodes, Set
<1>6. \A y \in Nodes(l) \cup {x} :
          /\ m.next[y] = IF y = s[n] THEN x ELSE IF y = x THEN Nil ELSE l.next[y]
          /\ m.prev[y] = IF y = x THEN s[n] ELSE l.prev[y]
    BY <1>3, <1>4 DEF Nodes, Set
<1>7. m \in [first : Nodes(m) \cup {Nil}, last : Nodes(m) \cup {Nil},
              next : [Nodes(m) -> Nodes(m) \cup {Nil}],
              prev : [Nodes(m) -> Nodes(m) \cup {Nil}]]
    <2>1. m.next \in [Nodes(m) -> Nodes(m) \cup {Nil}]
        BY <1>3, <1>4, <1>5, <1>6 DEF Holds, Nodes, Set
    <2>2. m.prev \in [Nodes(m) -> Nodes(m) \cup {Nil}]
        BY <1>3, <1>4, <1>5, <1>6 DEF Holds, Nodes, Set
    <2> QED
        BY <1>3, <1>4, <1>5, <2>1, <2>2 DEF Holds
<1>8. t \in [1..n + 1 -> Nodes(m)]
    BY <1>2, <1>3, <1>5 DEF Holds
<1>9. \A y \in Nodes(m) : \E i \in 1..n + 1 : t[i] = y
    BY <1>2, <1>3, <1>5 DEF Holds
<1>10. \A i, j \in 1..n + 1 : t[i] = t[j] => i = j
    BY <1>2, <1>3 DEF Holds
<1>11. ASSUME NEW i \in 1..n + 1
       PROVE  m.next[t[i]] = IF i = n + 1 THEN Nil ELSE t[i + 1]
    <2>1. CASE i = n + 1
        BY <1>2, <1>3, <1>6, <2>1
    <2>2. CASE i = n
        BY <1>2, <1>3, <1>6, <2>2
    <2>3. CASE i \in 1..n /\ i # n
        <3>1. s[i] \in Nodes(l) /\ s[i] # s[n] /\ l.next[s[i]] = s[i + 1] /\ t[i] = s[i] /\ t[i + 1] = s[i + 1]
            BY <1>2, <1>3, <2>3 DEF Holds
        <3>2. s[i] # x /\ i # n + 1
            BY <1>3, <2>3, <3>1
        <3> QED
            BY <1>6, <3>1, <3>2
    <2> QED
        BY <1>3, <2>1, <2>2, <2>3
<1>12. ASSUME NEW i \in 1..n + 1
       PROVE  m.prev[t[i]] = IF i = 1 THEN Nil ELSE t[i - 1]
    <2>1. CASE i = n + 1
        BY <1>2, <1>3, <1>6, <2>1
    <2>2. CASE i \in 1..n
        <3>1. s[i] \in Nodes(l) /\ l.prev[s[i]] = IF i = 1 THEN Nil ELSE s[i - 1]
            BY <2>2 DEF Holds
        <3>2. t[i] = s[i] /\ (i # 1 => t[i - 1] = s[i - 1])
            BY <1>2, <1>3, <2>2
        <3> QED
            BY <1>6, <3>1, <3>2
    <2> QED
        BY <1>3, <2>1, <2>2
<1>13. m.first = t[1]
    BY <1>2, <1>3, <1>4 DEF Holds
<1>14. Holds(m, t, n + 1)
    <2>1. n + 1 \in Nat /\ n + 1 # 0 /\ Nil \notin Nodes(m)
        BY <1>3, <1>5
    <2> QED
        BY ONLY <1>7, <1>8, <1>9, <1>10, <1>11, <1>12, <1>13, <2>1 DEF Holds
<1> QED
    BY <1>1, <1>2, <1>4, <1>5, <1>14

\* A node that is pushed comes first.
LEMMA PushHolds ==
    ASSUME NEW l, NEW s, NEW n, Holds(l, s, n), NEW x, x \notin Nodes(l), x # Nil
    PROVE  LET m == PushNode(l, x)
           IN /\ Holds(m, [i \in 1..n + 1 |-> IF i = 1 THEN x ELSE s[i - 1]], n + 1)
              /\ m.last = l.last /\ Nodes(m) = Nodes(l) \cup {x}
<1>1. PICK m : m = PushNode(l, x)
    OBVIOUS
<1>2. PICK t : t = [i \in 1..n + 1 |-> IF i = 1 THEN x ELSE s[i - 1]]
    OBVIOUS
<1>3. n \in Nat /\ Nil \notin Nodes(l) /\ DOMAIN l.prev = Nodes(l) /\ l.first \in Nodes(l) \cup {Nil}
    BY DEF Holds
<1>4. m = [first |-> x, last |-> l.last, next |-> Set(l.next, x, l.first),
           prev |-> Set(Set(l.prev, x, Nil), l.first, x)]
    BY <1>1 DEF PushNode, Holds
<1>5. Nodes(m) = Nodes(l) \cup {x} /\ DOMAIN m.prev = Nodes(l) \cup {x}
    BY <1>3, <1>4 DEF Nodes, Set
<1>6. \A y \in Nodes(l) \cup {x} :
          /\ m.next[y] = IF y = x THEN l.first ELSE l.next[y]
          /\ m.prev[y] = IF y = l.first THEN x ELSE IF y = x THEN Nil ELSE l.prev[y]
    BY <1>3, <1>4 DEF Nodes, Set
<1>7. m \in [first : Nodes(m) \cup {Nil}, last : Nodes(m) \cup {Nil},
              next : [Nodes(m) -> Nodes(m) \cup {Nil}],
              prev : [Nodes(m) -> Nodes(m) \cup {Nil}]]
    <2>1. m.next \in [Nodes(m) -> Nodes(m) \cup {Nil}]
        BY <1>3, <1>4, <1>5, <1>6 DEF Holds, Nodes, Set
    <2>2. m.prev \in [Nodes(m) -> Nodes(m) \cup {Nil}]
        BY <1>3, <1>4, <1>5, <1>6 DEF Holds, Nodes, Set
    <2> QED
        BY <1>3, <1>4, <1>5, <2>1, <2>2 DEF Holds
<1>8. t \in [1..n + 1 -> Nodes(m)]
    BY <1>2, <1>3, <1>5 DEF Holds
<1>9. \A y \in Nodes(m) : \E i \in 1..n + 1 : t[i] = y
    <2>1. t[1] = x /\ 1 \in 1..n + 1
        BY <1>2, <1>3
    <2>2. ASSUME NEW y \in Nodes(l) PROVE \E i \in 1..n + 1 : t[i] = y
        <3>1. PICK i \in 1..n : s[i] = y
            BY DEF Holds
        <3>2. i + 1 \in 1..n + 1 /\ t[i + 1] = y
            BY <1>2, <1>3, <3>1
        <3> QED
            BY <3>2
    <2> QED
        BY <1>5, <2>1, <2>2
<1>10. \A i, j \in 1..n + 1 : t[i] = t[j] => i = j
    <2>1. \A i \in 1..n + 1 : i # 1 => i - 1 \in 1..n /\ t[i] = s[i - 1] /\ s[i - 1] \in Nodes(l)
        BY <1>2, <1>3 DEF Holds
    <2>2. t[1] = x
        BY <1>2, <1>3
    <2>3. \A i, j \in 1..n : s[i] = s[j] => i = j
        BY DEF Holds
    <2> QED
        BY <1>3, <2>1, <2>2, <2>3
<1>11. ASSUME NEW i \in 1..n + 1
       PROVE  m.next[t[i]] = IF i = n + 1 THEN Nil ELSE t[i + 1]
    <2>1. CASE i = 1
        <3>1. m.next[t[1]] = l.first
            BY <1>2, <1>3, <1>6
        <3>2. l.first = IF n = 0 THEN Nil ELSE s[1]
            BY DEF Holds
        <3> QED
            BY <1>2, <1>3, <2>1, <3>1, <3>2
    <2>2. CASE i # 1
        <3>1. i - 1 \in 1..n /\ t[i] = s[i - 1] /\ (i # n + 1 => t[i + 1] = s[i])
            BY <1>2, <1>3, <2>2
        <3>2. s[i - 1] \in Nodes(l) /\ l.next[s[i - 1]] = IF i - 1 = n THEN Nil ELSE s[(i - 1) + 1]
            BY <3>1 DEF Holds
        <3> QED
            BY <1>3, <1>6, <3>1, <3>2
    <2> QED
        BY <2>1, <2>2
<1>12. ASSUME NEW i \in 1..n + 1
       PROVE  m.prev[t[i]] = IF i = 1 THEN Nil ELSE t[i - 1]
    <2>1. CASE i = 1
        BY <1>2, <1>3, <1>6, <2>1
    <2>2. CASE i # 1
        <3>1. i - 1 \in 1..n /\ t[i] = s[i - 1] /\ s[i - 1] \in Nodes(l)
              /\ t[i - 1] = IF i - 1 = 1 THEN x ELSE s[(i - 1) - 1]
            BY <1>2, <1>3, <2>2 DEF Holds
        <3>2. l.prev[s[i - 1]] = IF i - 1 = 1 THEN Nil ELSE s[(i - 1) - 1]
            BY <3>1 DEF Holds
        <3>3. s[i - 1] = l.first <=> i - 1 = 1
            BY <1>3, <3>1 DEF Holds
        <3> QED
            BY <1>3, <1>6, <2>2, <3>1, <3>2, <3>3
    <2> QED
        BY <2>1, <2>2
<1>13. m.first = t[1]
    BY <1>2, <1>3, <1>4
<1>14. Holds(m, t, n + 1)
    <2>1. n + 1 \in Nat /\ n + 1 # 0 /\ Nil \notin Nodes(m)
        BY <1>3, <1>5
    <2> QED
        BY ONLY <1>7, <1>8, <1>9, <1>10, <1>11, <1>12, <1>13, <2>1 DEF Holds
<1> QED
    BY <1>1, <1>2, <1>4, <1>5, <1>14

\* A node that is taken out leaves the others in their order.
LEMMA UnlinkHolds ==
    ASSUME NEW l, NEW s, NEW n, Holds(l, s, n), NEW k \in 1..n
    PROVE  LET m == Unlink(l, s[k])
           IN /\ Holds(m, [i \in 1..n - 1 |-> IF i < k THEN s[i] ELSE s[i + 1]], n - 1)
              /\ m.last = (IF l.last # s[k] THEN l.last ELSE IF k = 1 THEN Nil ELSE s[k - 1])
              /\ Nodes(m) = Nodes(l) \ {s[k]}
<1>1. PICK m : m = Unlink(l, s[k])
    OBVIOUS
<1>2. PICK t : t = [i \in 1..n - 1 |-> IF i < k THEN s[i] ELSE s[i + 1]]
    OBVIOUS
<1>3. PICK x : x = s[k]
    OBVIOUS
<1>4. n \in Nat /\ n - 1 \in Nat /\ Nil \notin Nodes(l) /\ x \in Nodes(l)
      /\ DOMAIN l.prev = Nodes(l) /\ DOMAIN l.next = Nodes(l)
    BY <1>3 DEF Holds, Nodes
<1>5. /\ l.next[x] = IF k = n THEN Nil ELSE s[k + 1]
      /\ l.prev[x] = IF k = 1 THEN Nil ELSE s[k - 1]
      /\ l.next[x] \in Nodes(l) \cup {Nil} /\ l.prev[x] \in Nodes(l) \cup {Nil}
    BY <1>3, <1>4 DEF Holds
<1>6. /\ m.first = IF x = l.first THEN l.next[x] ELSE l.first
      /\ m.last = IF x = l.last THEN l.prev[x] ELSE l.last
      /\ m.next = [y \in Nodes(l) \ {x} |-> Set(l.next, l.prev[x], l.next[x])[y]]
      /\ m.prev = [y \in Nodes(l) \ {x} |-> Set(l.prev, l.next[x], l.prev[x])[y]]
      /\ m = [first |-> m.first, last |-> m.last, next |-> m.next, prev |-> m.prev]
    BY <1>1, <1>3 DEF Unlink
<1>7. \A y \in Nodes(l) \ {x} :
          /\ m.next[y] = IF y = l.prev[x] THEN l.next[x] ELSE l.next[y]
          /\ m.prev[y] = IF y = l.next[x] THEN l.prev[x] ELSE l.prev[y]
    BY <1>4, <1>5, <1>6 DEF Set
<1>8. Nodes(m) = Nodes(l) \ {x} /\ DOMAIN m.prev = Nodes(l) \ {x}
    BY <1>6 DEF Nodes
<1>9. \A i \in 1..n : s[i] \in Nodes(l) /\ (s[i] = x => i = k)
    BY <1>3 DEF Holds
<1>10. \A i \in 1..n - 1 : /\ i < k => t[i] = s[i] /\ i \in 1..n /\ i # k
                           /\ ~(i < k) => t[i] = s[i + 1] /\ i + 1 \in 1..n /\ i + 1 # k
    BY <1>2, <1>4
<1>11. t \in [1..n - 1 -> Nodes(m)]
    <2>1. \A i \in 1..n - 1 : t[i] \in Nodes(m)
        BY <1>8, <1>9, <1>10
    <2> QED
        BY <1>2, <2>1
<1>12. ASSUME NEW y \in Nodes(m) PROVE \E i \in 1..n - 1 : t[i] = y
    <2>1. PICK j \in 1..n : s[j] = y
        BY <1>8 DEF Holds
    <2>2. j # k
        BY <1>3, <1>8, <2>1
    <2>3. CASE j < k
        <3>1. j \in 1..n - 1 /\ t[j] = y
            BY <1>2, <1>4, <2>1, <2>3
        <3> QED
            BY <3>1
    <2>4. CASE j > k
        <3>1. j - 1 \in 1..n - 1 /\ ~(j - 1 < k) /\ (j - 1) + 1 = j
            BY <1>4, <2>4
        <3>2. t[j - 1] = y
            BY <1>10, <2>1, <3>1
        <3> QED
            BY <3>1, <3>2
    <2> QED
        BY <1>4, <2>2, <2>3, <2>4
<1>13. \A i, j \in 1..n - 1 : t[i] = t[j] => i = j
    <2>1. \A i, j \in 1..n : s[i] = s[j] => i = j
        BY DEF Holds
    <2> QED
        BY <1>4, <1>10, <2>1
<1>14. ASSUME NEW i \in 1..n - 1
       PROVE  m.next[t[i]] = IF i = n - 1 THEN Nil ELSE t[i + 1]
    <2>1. t[i] \in Nodes(l) \ {x}
        BY <1>8, <1>11
    <2>2. CASE i < k - 1
        <3>1. t[i] = s[i] /\ t[i + 1] = s[i + 1] /\ i # n - 1 /\ i \in 1..n /\ i # n
            BY <1>4, <1>10, <2>2
        <3>2. l.next[s[i]] = s[i + 1]
            BY <3>1 DEF Holds
        <3>3. s[i] # l.prev[x]
            <4>1. k # 1 /\ k - 1 \in 1..n /\ i # k - 1
                BY <1>4, <2>2
            <4> QED
                BY <1>5, <3>1, <4>1 DEF Holds
        <3> QED
            BY <1>7, <2>1, <3>1, <3>2, <3>3
    <2>3. CASE i = k - 1
        <3>1. t[i] = s[i] /\ l.prev[x] = s[i] /\ (k = n <=> i = n - 1)
            BY <1>4, <1>5, <1>10, <2>3
        <3>2. k # n => t[i + 1] = s[k + 1]
            BY <1>2, <1>4, <2>3
        <3> QED
            BY <1>5, <1>7, <2>1, <3>1, <3>2
    <2>4. CASE i >= k
        <3>1. t[i] = s[i + 1] /\ i + 1 \in 1..n /\ (i + 1 = n <=> i = n - 1)
            BY <1>4, <1>10, <2>4
        <3>2. l.next[s[i + 1]] = IF i + 1 = n THEN Nil ELSE s[(i + 1) + 1]
            BY <3>1 DEF Holds
        <3>3. s[i + 1] # l.prev[x]
            <4>1. k # 1 => k - 1 \in 1..n /\ i + 1 # k - 1
                BY <1>4, <2>4
            <4>2. s[i + 1] # Nil
                BY <1>4, <1>9, <3>1
            <4>3. \A a, b \in 1..n : s[a] = s[b] => a = b
                BY DEF Holds
            <4> QED
                BY <1>5, <3>1, <4>1, <4>2, <4>3
        <3>4. i # n - 1 => t[i + 1] = s[(i + 1) + 1]
            BY <1>2, <1>4, <2>4
        <3> QED
            BY <1>7, <2>1, <3>1, <3>2, <3>3, <3>4
    <2> QED
        BY <1>4, <2>2, <2>3, <2>4
<1>15. ASSUME NEW i \in 1..n - 1
       PROVE  m.prev[t[i]] = IF i = 1 THEN Nil ELSE t[i - 1]
    <2>1. t[i] \in Nodes(l) \ {x}
        BY <1>8, <1>11
    <2>2. CASE i < k
        <3>1. t[i] = s[i] /\ (i # 1 => t[i - 1] = s[i - 1]) /\ i \in 1..n
            BY <1>2, <1>4, <2>2
        <3>2. l.prev[s[i]] = IF i = 1 THEN Nil ELSE s[i - 1]
            BY <3>1 DEF Holds
        <3>3. s[i] # l.next[x]
            <4>1. k # n => k + 1 \in 1..n /\ i # k + 1
                BY <1>4, <2>2
            <4>2. s[i] # Nil
                BY <1>4, <1>9, <3>1
            <4>3. \A a, b \in 1..n : s[a] = s[b] => a = b
                BY DEF Holds
            <4> QED
                BY <1>5, <3>1, <4>1, <4>2, <4>3
        <3> QED
            BY <1>7, <2>1, <3>1, <3>2, <3>3
    <2>3. CASE i = k
        <3>1. t[i] = s[i + 1] /\ l.next[x] = s[i + 1]
            BY <1>4, <1>5, <1>10, <2>3
        <3>2. k # 1 => t[i - 1] = s[k - 1]
            BY <1>2, <1>4, <2>3
        <3> QED
            BY <1>5, <1>7, <2>1, <2>3, <3>1, <3>2
    <2>4. CASE i > k
        <3>1. t[i] = s[i + 1] /\ i + 1 \in 1..n /\ t[i - 1] = s[i] /\ i # 1 /\ i + 1 # 1
            BY <1>2, <1>4, <2>4, SMTT(40)
        <3>2. l.prev[s[i + 1]] = s[(i + 1) - 1]
            BY <3>1 DEF Holds
        <3>3. s[i + 1] # l.next[x]
            <4>1. k # n /\ k + 1 \in 1..n /\ i + 1 # k + 1
                BY <1>4, <2>4
            <4>2. \A a, b \in 1..n : s[a] = s[b] => a = b
                BY DEF Holds
            <4> QED
                BY <1>5, <3>1, <4>1, <4>2
        <3> QED
            BY <1>4, <1>7, <2>1, <3>1, <3>2, <3>3
    <2> QED
        BY <1>4, <2>2, <2>3, <2>4
<1>16. m.first = IF n - 1 = 0 THEN Nil ELSE t[1]
    <2>1. l.first = s[1] /\ (x = s[1] <=> k = 1)
        BY <1>3, <1>4 DEF Holds
    <2> QED
        BY <1>2, <1>4, <1>5, <1>6, <2>1
<1>17. m \in [first : Nodes(m) \cup {Nil}, last : Nodes(m) \cup {Nil},
               next : [Nodes(m) -> Nodes(m) \cup {Nil}],
               prev : [Nodes(m) -> Nodes(m) \cup {Nil}]]
    <2>1. \A a, b \in 1..n : s[a] = s[b] => a = b
        BY DEF Holds
    <2>2. l.next[x] # x /\ l.prev[x] # x
        <3>1. k # n => k + 1 \in 1..n /\ k + 1 # k
            BY <1>4
        <3>2. k # 1 => k - 1 \in 1..n /\ k - 1 # k
            BY <1>4
        <3> QED
            BY <1>3, <1>4, <1>5, <2>1, <3>1, <3>2
    <2>3. \A y \in Nodes(l) : l.next[y] = x => y = l.prev[x]
        <3>1. ASSUME NEW j \in 1..n, l.next[s[j]] = x PROVE s[j] = l.prev[x]
            <4>1. l.next[s[j]] = IF j = n THEN Nil ELSE s[j + 1]
                BY DEF Holds
            <4>2. j + 1 \in 1..n /\ s[j + 1] = s[k]
                BY <1>3, <1>4, <3>1, <4>1
            <4>3. j + 1 = k
                BY <2>1, <4>2
            <4>4. k # 1 /\ k - 1 = j
                BY <4>3
            <4> QED
                BY <1>5, <4>4
        <3> QED
            BY <3>1 DEF Holds
    <2>4. \A y \in Nodes(l) : l.prev[y] = x => y = l.next[x]
        <3>1. ASSUME NEW j \in 1..n, l.prev[s[j]] = x PROVE s[j] = l.next[x]
            <4>1. l.prev[s[j]] = IF j = 1 THEN Nil ELSE s[j - 1]
                BY DEF Holds
            <4>2. j - 1 \in 1..n /\ s[j - 1] = s[k]
                BY <1>3, <1>4, <3>1, <4>1
            <4>3. j - 1 = k
                BY <2>1, <4>2
            <4>4. k # n /\ k + 1 = j
                BY <4>3, <1>4
            <4> QED
                BY <1>5, <4>4
        <3> QED
            BY <3>1 DEF Holds
    <2>5. \A y \in Nodes(l) : l.next[y] \in Nodes(l) \cup {Nil} /\ l.prev[y] \in Nodes(l) \cup {Nil}
        BY DEF Holds
    <2>6. \A y \in Nodes(m) : m.next[y] \in Nodes(m) \cup {Nil} /\ m.prev[y] \in Nodes(m) \cup {Nil}
        BY <1>5, <1>7, <1>8, <2>2, <2>3, <2>4, <2>5
    <2>7. m.first \in Nodes(m) \cup {Nil}
        BY <1>4, <1>11, <1>16
    <2>8. m.last \in Nodes(m) \cup {Nil}
        <3>1. l.last \in Nodes(l) \cup {Nil}
            BY DEF Holds
        <3> QED
            BY <1>5, <1>6, <1>8, <2>2, <3>1
    <2>9. m.next \in [Nodes(m) -> Nodes(m) \cup {Nil}]
        BY <1>6, <1>8, <2>6
    <2>10. m.prev \in [Nodes(m) -> Nodes(m) \cup {Nil}]
        BY <1>6, <1>8, <2>6
    <2> QED
        BY <1>6, <2>7, <2>8, <2>9, <2>10
<1>18. Holds(m, t, n - 1)
    BY <1>4, <1>8, <1>11, <1>12, <1>13, <1>14, <1>15, <1>16, <1>17 DEF Holds
<1> QED
    BY <1>1, <1>2, <1>3, <1>5, <1>6, <1>8, <1>18

-----------------------------------------------------------------------------
\* A list that ends where its pointer to the last node says.
Whole(l) == \E s, n : Holds(l, s, n) /\ n # 0 /\ l.last = s[n]

\* The loop meets all nodes of a whole list, and they are no null pointers.
LEMMA WholeReached ==
    ASSUME NEW l, Whole(l)
    PROVE  Reached(l) = Nodes(l) /\ Nil \notin Nodes(l)
<1>1. PICK s, n : Holds(l, s, n)
    BY DEF Whole
<1>2. Reached(l) = Nodes(l)
    BY <1>1, HoldsReached
<1> QED
    BY <1>1, <1>2 DEF Holds

\* The fields of a list after a push.
LEMMA PushRecord ==
    ASSUME NEW l, NEW f, NEW a, NEW e, NEW p, l = [first |-> f, last |-> a, next |-> e, prev |-> p], NEW x
    PROVE  PushNode(l, x) = [first |-> x, last |-> a, next |-> Set(e, x, f), prev |-> Set(Set(p, x, Nil), f, x)]
<1>1. PICK m, en, pn : m = PushNode(l, x) /\ en = Set(e, x, f) /\ pn = Set(Set(p, x, Nil), f, x)
    OBVIOUS
<1>2. m = [l EXCEPT !.next = en, !.prev = pn, !.first = x]
    <2>1. l.first = f /\ l.next = e /\ l.prev = p
        OBVIOUS
    <2>2. m = [l EXCEPT !.next = Set(l.next, x, l.first), !.prev = Set(Set(l.prev, x, Nil), l.first, x), !.first = x]
        BY ONLY <1>1, Zenon DEF PushNode
    <2> QED
        BY ONLY <1>1, <2>1, <2>2, Zenon
<1>3. m = [first |-> x, last |-> a, next |-> en, prev |-> pn]
    BY <1>2
<1> QED
    BY <1>1, <1>3

\* The list of boards (and of users) that the program starts with: its first
\* node is pushed, and the pointer to the last one set by hand.
LEMMA OneNodeHolds ==
    ASSUME 1 # Nil
    PROVE  LET l == PushNode([EmptyList EXCEPT !.last = 1], 1)
           IN Whole(l) /\ Nodes(l) = {1}
<1>1. PICK l : l = PushNode([EmptyList EXCEPT !.last = 1], 1)
    OBVIOUS
<1>2. l = [first |-> 1, last |-> 1, next |-> [x \in {1} |-> Nil], prev |-> [x \in {1} |-> Nil]]
    <2>1. PICK e, p : e = EmptyList.next /\ p = EmptyList.prev
        OBVIOUS
    <2>2. DOMAIN e = {} /\ DOMAIN p = {}
        BY <2>1 DEF EmptyList
    <2>3. EmptyList = [first |-> Nil, last |-> Nil, next |-> e, prev |-> p]
        BY <2>1 DEF EmptyList
    <2>4. PICK k : k = [EmptyList EXCEPT !.last = 1]
        OBVIOUS
    <2>5. k = [first |-> Nil, last |-> 1, next |-> e, prev |-> p]
        BY <2>3, <2>4
    <2>6. l = [first |-> 1, last |-> 1, next |-> Set(e, 1, Nil), prev |-> Set(Set(p, 1, Nil), Nil, 1)]
        <3>1. l = PushNode(k, 1)
            BY <1>1, <2>4, Zenon
        <3> QED
            BY ONLY <2>5, <3>1, PushRecord
    <2>7. Set(e, 1, Nil) = [x \in {1} |-> Nil]
        BY <2>2 DEF Set
    <2>8. Set(p, 1, Nil) = [x \in {1} |-> Nil]
        BY <2>2 DEF Set
    <2>9. Set([x \in {1} |-> Nil], Nil, 1) = [x \in {1} |-> Nil]
        BY DEF Set
    <2> QED
        BY <2>6, <2>7, <2>8, <2>9
<1>3. PICK s : s = [i \in 1..1 |-> 1]
    OBVIOUS
<1>4. Nodes(l) = {1} /\ l.last = s[1] /\ l.first = s[1] /\ l.next[s[1]] = Nil /\ l.prev[s[1]] = Nil
      /\ s \in [1..1 -> Nodes(l)]
    BY <1>2, <1>3 DEF Nodes
<1>5. l \in [first : Nodes(l) \cup {Nil}, last : Nodes(l) \cup {Nil},
             next : [Nodes(l) -> Nodes(l) \cup {Nil}],
             prev : [Nodes(l) -> Nodes(l) \cup {Nil}]]
    BY <1>2, <1>4
<1>6. \A i \in 1..1 : i = 1
    OBVIOUS
<1>7. Holds(l, s, 1)
    BY <1>3, <1>4, <1>5, <1>6 DEF Holds
<1> QED
    BY <1>1, <1>4, <1>7 DEF Whole

\* A whole list stays whole when a new node is added.
LEMMA WholeAppend ==
    ASSUME NEW l, Whole(l), NEW x, x \notin Nodes(l), x # Nil
    PROVE  Whole(AppendNode(l, x)) /\ Nodes(AppendNode(l, x)) = Nodes(l) \cup {x}
<1>1. PICK s, n : Holds(l, s, n) /\ n # 0 /\ l.last = s[n]
    BY DEF Whole
<1>2. PICK t : t = [i \in 1..n + 1 |-> IF i = n + 1 THEN x ELSE s[i]]
    OBVIOUS
<1>3. Holds(AppendNode(l, x), t, n + 1) /\ AppendNode(l, x).last = x
      /\ Nodes(AppendNode(l, x)) = Nodes(l) \cup {x}
    BY <1>1, <1>2, AppendHolds
<1>4. n \in Nat
    BY <1>1 DEF Holds
<1>5. n + 1 # 0 /\ t[n + 1] = x
    BY <1>2, <1>4
<1> QED
    BY <1>3, <1>5 DEF Whole

\* A whole list stays whole when a node that is not its only one is freed.
LEMMA WholeUnlink ==
    ASSUME NEW l, Whole(l), NEW x \in Nodes(l), Cardinality(Nodes(l)) > 1
    PROVE  Whole(Unlink(l, x)) /\ Nodes(Unlink(l, x)) = Nodes(l) \ {x}
<1>1. PICK s, n : Holds(l, s, n) /\ n # 0 /\ l.last = s[n]
    BY DEF Whole
<1>2. n > 1 /\ n \in Nat
    <2>1. Cardinality(Nodes(l)) = n
        BY <1>1, HoldsCard
    <2>2. n \in Nat
        BY <1>1 DEF Holds
    <2> QED
        BY <2>1, <2>2
<1>3. PICK k \in 1..n : s[k] = x
    BY <1>1 DEF Holds
<1>4. PICK t : t = [i \in 1..n - 1 |-> IF i < k THEN s[i] ELSE s[i + 1]]
    OBVIOUS
<1>5. Holds(Unlink(l, x), t, n - 1) /\ Nodes(Unlink(l, x)) = Nodes(l) \ {x}
      /\ Unlink(l, x).last = (IF l.last # s[k] THEN l.last ELSE IF k = 1 THEN Nil ELSE s[k - 1])
    BY <1>1, <1>3, <1>4, UnlinkHolds
<1>6. s[n] = s[k] => n = k
    BY <1>1, <1>2 DEF Holds
<1>7. Unlink(l, x).last = t[n - 1]
    BY <1>1, <1>2, <1>4, <1>5, <1>6
<1>8. n - 1 # 0
    BY <1>2
<1> QED
    BY <1>5, <1>7, <1>8 DEF Whole
=============================================================================
