----------------------------- MODULE ThreadProofs ---------------------------
(***************************************************************************)
(* Proofs about Threads: whatever is posted, bumped, pinned, deleted and   *)
(* reported, the board's list and the posts of each thread read the same   *)
(* in both directions, their lengths are the ones that are counted, posts  *)
(* are found exactly if they are in a thread, and the threads are in the   *)
(* order of their bumps.                                                   *)
(*                                                                         *)
(* A list is described by a sequence: Ends(l, s, n) says that it holds     *)
(* s[1], ..., s[n] and that its last pointer is right, and each function   *)
(* of persistence.c is what it makes of s.  Good is the inductive          *)
(* invariant: BoardOk of the board and ReportsOk of the reports.           *)
(***************************************************************************)
EXTENDS Threads, ListProofs, SequenceTheorems, WellFoundedInduction

-----------------------------------------------------------------------------
(* Lists that end where they say. *)

\* The list l holds s[1], ..., s[n], and its last pointer says where it ends.
Ends(l, s, n) == Holds(l, s, n) /\ l.last = IF n = 0 THEN Nil ELSE s[n]

\* The sequence s with x behind its first k members.
PutIn(s, n, k, x) ==
    [i \in 1..n + 1 |-> IF i <= k THEN s[i] ELSE IF i = k + 1 THEN x ELSE s[i - 1]]

\* "Reinsert": the node stands behind the one it was put after.
LEMMA InsertHolds ==
    ASSUME NEW l, NEW s, NEW n, Ends(l, s, n), NEW k \in 0..n,
           NEW x, x \notin Nodes(l), x # Nil
    PROVE  LET m == InsertAfter(l, IF k = 0 THEN Nil ELSE s[k], x)
           IN Ends(m, PutIn(s, n, k, x), n + 1) /\ Nodes(m) = Nodes(l) \cup {x}
<1>1. PICK prev, next : /\ prev = IF k = 0 THEN Nil ELSE s[k]
                        /\ next = IF k = n THEN Nil ELSE s[k + 1]
    OBVIOUS
<1>2. PICK m : m = InsertAfter(l, prev, x)
    OBVIOUS
<1>3. PICK t : t = PutIn(s, n, k, x)
    OBVIOUS
<1>4. /\ n \in Nat /\ Nil \notin Nodes(l) /\ DOMAIN l.prev = Nodes(l) /\ DOMAIN l.next = Nodes(l)
      /\ s \in [1..n -> Nodes(l)] /\ l.first = IF n = 0 THEN Nil ELSE s[1]
      /\ l.last = IF n = 0 THEN Nil ELSE s[n]
      /\ \A i, j \in 1..n : s[i] = s[j] => i = j
      /\ \A y \in Nodes(l) : \E i \in 1..n : s[i] = y
      /\ \A y \in Nodes(l) : l.next[y] \in Nodes(l) \cup {Nil} /\ l.prev[y] \in Nodes(l) \cup {Nil}
    BY DEF Ends, Holds, Nodes
<1>5. /\ \A i \in 1..n : l.next[s[i]] = IF i = n THEN Nil ELSE s[i + 1]
      /\ \A i \in 1..n : l.prev[s[i]] = IF i = 1 THEN Nil ELSE s[i - 1]
    BY DEF Ends, Holds
<1>6. /\ k # 0 => k \in 1..n /\ prev \in Nodes(l)
      /\ k # n => k + 1 \in 1..n /\ next \in Nodes(l)
      /\ k = 0 => prev = Nil
      /\ k = n => next = Nil
    BY <1>1, <1>4
<1>7. next = IF prev = Nil THEN l.first ELSE l.next[prev]
    <2>1. CASE k = 0
        BY <1>1, <1>4, <2>1
    <2>2. CASE k # 0
        BY <1>1, <1>4, <1>5, <1>6, <2>2
    <2> QED
        BY <2>1, <2>2
<1>8. m = [first |-> IF prev = Nil THEN x ELSE l.first,
           last |-> IF next = Nil THEN x ELSE l.last,
           next |-> Set(Set(l.next, x, next), prev, x),
           prev |-> Set(Set(l.prev, x, prev), next, x)]
    BY <1>2, <1>7 DEF InsertAfter
<1>9. Nodes(m) = Nodes(l) \cup {x} /\ DOMAIN m.prev = Nodes(l) \cup {x}
    BY <1>4, <1>6, <1>8 DEF Nodes, Set
<1>10. \A y \in Nodes(l) \cup {x} :
          /\ m.next[y] = IF y = prev THEN x ELSE IF y = x THEN next ELSE l.next[y]
          /\ m.prev[y] = IF y = next THEN x ELSE IF y = x THEN prev ELSE l.prev[y]
    BY <1>4, <1>6, <1>8 DEF Nodes, Set
<1>11. m \in [first : Nodes(m) \cup {Nil}, last : Nodes(m) \cup {Nil},
               next : [Nodes(m) -> Nodes(m) \cup {Nil}],
               prev : [Nodes(m) -> Nodes(m) \cup {Nil}]]
    <2>1. \A y \in Nodes(m) : m.next[y] \in Nodes(m) \cup {Nil} /\ m.prev[y] \in Nodes(m) \cup {Nil}
        BY <1>4, <1>6, <1>9, <1>10
    <2>2. m.next = [y \in Nodes(m) |-> m.next[y]] /\ m.prev = [y \in Nodes(m) |-> m.prev[y]]
        BY <1>8, <1>9 DEF Set, Nodes
    <2>3. m.next \in [Nodes(m) -> Nodes(m) \cup {Nil}] /\ m.prev \in [Nodes(m) -> Nodes(m) \cup {Nil}]
        BY <2>1, <2>2
    <2>4. m.first \in Nodes(m) \cup {Nil} /\ m.last \in Nodes(m) \cup {Nil}
        BY <1>4, <1>8, <1>9
    <2> QED
        BY <1>8, <2>3, <2>4
<1>12. /\ \A i \in 1..n + 1 : i <= k => t[i] = s[i] /\ i \in 1..n
       /\ t[k + 1] = x /\ k + 1 \in 1..n + 1
       /\ \A i \in 1..n + 1 : i > k + 1 => t[i] = s[i - 1] /\ i - 1 \in 1..n
    BY <1>3, <1>4 DEF PutIn
<1>13. \A i \in 1..n + 1 : i <= k \/ i = k + 1 \/ i > k + 1
    BY <1>4
<1>14. t \in [1..n + 1 -> Nodes(m)]
    <2>1. \A i \in 1..n + 1 : t[i] \in Nodes(m)
        BY <1>4, <1>9, <1>12, <1>13
    <2> QED
        BY <1>3, <2>1 DEF PutIn
<1>15. ASSUME NEW y \in Nodes(m) PROVE \E i \in 1..n + 1 : t[i] = y
    <2>1. CASE y = x
        BY <1>12, <2>1
    <2>2. CASE y # x
        <3>1. PICK i \in 1..n : s[i] = y
            BY <1>4, <1>9, <2>2
        <3>2. CASE i <= k
            BY <1>4, <1>12, <3>1, <3>2
        <3>3. CASE i > k
            <4>1. i + 1 \in 1..n + 1 /\ i + 1 > k + 1 /\ (i + 1) - 1 = i
                BY <1>4, <3>3
            <4> QED
                BY <1>12, <3>1, <4>1
        <3> QED
            BY <1>4, <3>2, <3>3
    <2> QED
        BY <2>1, <2>2
<1>16. ASSUME NEW i \in 1..n + 1, NEW j \in 1..n + 1, t[i] = t[j] PROVE i = j
    <2>1. \A e \in 1..n : s[e] # x
        BY <1>4
    <2> QED
        BY <1>4, <1>12, <1>13, <1>16, <2>1
<1>17. m.first = t[1] /\ m.last = t[n + 1]
    <2>1. m.first = t[1]
        BY <1>4, <1>6, <1>8, <1>12
    <2>2. m.last = t[n + 1]
        <3>1. CASE k = n
            BY <1>4, <1>6, <1>8, <1>12, <3>1
        <3>2. CASE k # n
            <4>1. n + 1 \in 1..n + 1 /\ n + 1 > k + 1 /\ (n + 1) - 1 = n
                BY <1>4, <3>2
            <4> QED
                BY <1>4, <1>6, <1>8, <1>12, <3>2, <4>1
        <3> QED
            BY <3>1, <3>2
    <2> QED
        BY <2>1, <2>2
<1>18. ASSUME NEW i \in 1..n + 1
       PROVE  m.next[t[i]] = IF i = n + 1 THEN Nil ELSE t[i + 1]
    <2>1. CASE i < k
        <3>1. i \in 1..n /\ t[i] = s[i] /\ i # n /\ i + 1 <= k /\ i + 1 \in 1..n + 1 /\ t[i + 1] = s[i + 1]
            BY <1>4, <1>12, <2>1
        <3>2. s[i] # prev /\ s[i] # x
            BY <1>1, <1>4, <1>6, <2>1, <3>1
        <3> QED
            BY <1>4, <1>5, <1>10, <3>1, <3>2
    <2>2. CASE i = k
        BY <1>1, <1>4, <1>6, <1>10, <1>12, <2>2
    <2>3. CASE i = k + 1
        <3>1. k # n => t[i + 1] = s[k + 1]
            <4>1. k # n => i + 1 \in 1..n + 1 /\ i + 1 > k + 1 /\ (i + 1) - 1 = k + 1
                BY <1>4, <2>3
            <4> QED
                BY <1>12, <4>1
        <3>2. x # prev
            BY <1>4, <1>6
        <3> QED
            BY <1>1, <1>4, <1>6, <1>10, <1>12, <2>3, <3>1, <3>2
    <2>4. CASE i > k + 1
        <3>1. i - 1 \in 1..n /\ t[i] = s[i - 1] /\ (i - 1) + 1 = i /\ (i = n + 1 <=> i - 1 = n)
            BY <1>4, <1>12, <2>4
        <3>2. i # n + 1 => t[i + 1] = s[i]
            <4>1. i # n + 1 => i + 1 \in 1..n + 1 /\ i + 1 > k + 1 /\ (i + 1) - 1 = i
                BY <1>4, <2>4
            <4> QED
                BY <1>12, <4>1
        <3>3. s[i - 1] # prev /\ s[i - 1] # x
            <4>1. i - 1 # k
                BY <1>4, <2>4
            <4> QED
                BY <1>1, <1>4, <1>6, <3>1, <4>1
        <3>4. l.next[s[i - 1]] = IF i - 1 = n THEN Nil ELSE s[i]
            BY <1>5, <3>1
        <3> QED
            BY <1>4, <1>10, <3>1, <3>2, <3>3, <3>4
    <2> QED
        BY <1>4, <2>1, <2>2, <2>3, <2>4
<1>19. ASSUME NEW i \in 1..n + 1
       PROVE  m.prev[t[i]] = IF i = 1 THEN Nil ELSE t[i - 1]
    <2>1. CASE i <= k
        <3>1. i \in 1..n /\ t[i] = s[i] /\ (i # 1 => i - 1 \in 1..n + 1 /\ i - 1 <= k /\ t[i - 1] = s[i - 1])
            BY <1>4, <1>12, <2>1
        <3>2. s[i] # next /\ s[i] # x
            <4>1. i # k + 1
                BY <1>4, <2>1
            <4> QED
                BY <1>1, <1>4, <1>6, <3>1, <4>1
        <3> QED
            BY <1>4, <1>5, <1>10, <3>1, <3>2
    <2>2. CASE i = k + 1
        <3>1. x # next
            BY <1>4, <1>6
        <3>2. k # 0 => i # 1 /\ i - 1 = k /\ t[i - 1] = s[k]
            BY <1>4, <1>12, <2>2
        <3> QED
            BY <1>1, <1>4, <1>6, <1>10, <1>12, <2>2, <3>1, <3>2
    <2>3. CASE i = k + 2
        <3>1. t[i] = s[k + 1] /\ i # 1 /\ i - 1 = k + 1 /\ t[i - 1] = x /\ k # n
            BY <1>4, <1>12, <2>3
        <3> QED
            BY <1>1, <1>4, <1>6, <1>10, <3>1
    <2>4. CASE i > k + 2
        <3>1. /\ i - 1 \in 1..n /\ t[i] = s[i - 1] /\ i # 1 /\ i - 1 # 1 /\ i - 1 # k + 1
              /\ i - 1 \in 1..n + 1 /\ i - 1 > k + 1 /\ t[i - 1] = s[(i - 1) - 1]
            BY <1>4, <1>12, <2>4, SMTT(40)
        <3>2. s[i - 1] # next /\ s[i - 1] # x
            BY <1>1, <1>4, <1>6, <3>1
        <3>3. l.prev[s[i - 1]] = s[(i - 1) - 1]
            BY <1>5, <3>1
        <3> QED
            BY <1>4, <1>10, <3>1, <3>2, <3>3
    <2> QED
        BY <1>4, <2>1, <2>2, <2>3, <2>4
<1>20. Holds(m, t, n + 1)
    <2>1. n + 1 \in Nat /\ n + 1 # 0 /\ Nil \notin Nodes(m)
        BY <1>4, <1>9
    <2> QED
        BY <1>11, <1>14, <1>15, <1>16, <1>17, <1>18, <1>19, <2>1 DEF Holds
<1>21. n + 1 # 0
    BY <1>4
<1> QED
    BY <1>1, <1>2, <1>3, <1>9, <1>17, <1>20, <1>21 DEF Ends

\* The sequence s without its k-th member.
Left(s, n, k) == [i \in 1..n - 1 |-> IF i < k THEN s[i] ELSE s[i + 1]]

\* A node that is unlinked leaves a list that ends where it says.
LEMMA UnlinkEnds ==
    ASSUME NEW l, NEW s, NEW n, Ends(l, s, n), NEW k \in 1..n
    PROVE  LET m == Unlink(l, s[k])
           IN Ends(m, Left(s, n, k), n - 1) /\ Nodes(m) = Nodes(l) \ {s[k]}
<1>1. PICK t, m : t = Left(s, n, k) /\ m = Unlink(l, s[k])
    OBVIOUS
<1>2. Holds(l, s, n) /\ n \in Nat /\ n - 1 \in Nat /\ l.last = s[n] /\ n \in 1..n
    BY DEF Ends, Holds
<1>3. /\ Holds(m, t, n - 1)
      /\ m.last = (IF l.last # s[k] THEN l.last ELSE IF k = 1 THEN Nil ELSE s[k - 1])
      /\ Nodes(m) = Nodes(l) \ {s[k]}
    BY <1>1, <1>2, UnlinkHolds DEF Left
<1>4. s[n] = s[k] => n = k
    BY <1>2 DEF Holds
<1>5. m.last = IF n - 1 = 0 THEN Nil ELSE t[n - 1]
    <2>1. CASE n = k
        BY <1>1, <1>2, <1>3, <2>1 DEF Left
    <2>2. CASE n # k
        <3>1. n - 1 # 0 /\ n - 1 \in 1..n - 1 /\ ~(n - 1 < k) /\ (n - 1) + 1 = n
            BY <1>2, <2>2
        <3>2. t[n - 1] = s[n]
            BY <1>1, <3>1 DEF Left
        <3> QED
            BY <1>2, <1>3, <1>4, <2>2, <3>1, <3>2
    <2> QED
        BY <2>1, <2>2
<1> QED
    BY <1>1, <1>3, <1>5 DEF Ends

\* A node that is linked nowhere is not missed when it is unlinked.
LEMMA StrayUnlink ==
    ASSUME NEW l, NEW s, NEW n, Holds(l, s, n), NEW x, x \notin Nodes(l), x # Nil
    PROVE  Unlink(Stray(l, x), x) = l /\ Nodes(Stray(l, x)) = Nodes(l) \cup {x}
<1>1. PICK first, last, e, p : l = [first |-> first, last |-> last, next |-> e, prev |-> p]
    BY DEF Holds
<1>2. /\ Nil \notin DOMAIN e /\ DOMAIN p = DOMAIN e /\ x \notin DOMAIN e
      /\ first # x /\ last # x
      /\ e = [y \in DOMAIN e |-> e[y]] /\ p = [y \in DOMAIN e |-> p[y]]
    <2>1. Nodes(l) = DOMAIN e /\ l.next = e /\ l.prev = p /\ l.first = first /\ l.last = last
        BY <1>1 DEF Nodes
    <2>2. e \in [DOMAIN e -> DOMAIN e \cup {Nil}] /\ p \in [DOMAIN e -> DOMAIN e \cup {Nil}]
          /\ first \in DOMAIN e \cup {Nil} /\ last \in DOMAIN e \cup {Nil}
        BY <2>1 DEF Holds
    <2> QED
        BY <2>1, <2>2 DEF Holds
<1>3. PICK f, q : f = Set(e, x, Nil) /\ q = Set(p, x, Nil)
    OBVIOUS
<1>4. PICK m : m = Stray(l, x)
    OBVIOUS
<1>5. m = [first |-> first, last |-> last, next |-> f, prev |-> q]
    <2>1. PICK k : k = [l EXCEPT !.next = f]
        OBVIOUS
    <2>2. k = [first |-> first, last |-> last, next |-> f, prev |-> p]
        BY <1>1, <2>1
    <2>3. m = [k EXCEPT !.prev = q]
        <3>1. l.next = e /\ l.prev = p
            BY <1>1
        <3>2. m = [l EXCEPT !.next = Set(l.next, x, Nil), !.prev = Set(l.prev, x, Nil)]
            BY ONLY <1>4, Zenon DEF Stray
        <3>3. m = [l EXCEPT !.next = f, !.prev = q]
            BY ONLY <1>3, <3>1, <3>2, Zenon
        <3>4. [l EXCEPT !.next = f, !.prev = q] = [[l EXCEPT !.next = f] EXCEPT !.prev = q]
            OBVIOUS
        <3> QED
            BY ONLY <2>1, <3>3, <3>4, Zenon
    <2> QED
        BY <2>2, <2>3
<1>6. /\ f = [y \in DOMAIN e \cup {x} |-> IF y = x THEN Nil ELSE e[y]]
      /\ q = [y \in DOMAIN e \cup {x} |-> IF y = x THEN Nil ELSE p[y]]
    BY <1>2, <1>3 DEF Set
<1>7. /\ m.first = first /\ m.last = last /\ m.next = f /\ m.prev = q
      /\ Nodes(m) = DOMAIN e \cup {x} /\ m.next[x] = Nil /\ m.prev[x] = Nil
    BY <1>5, <1>6 DEF Nodes
<1>8. Set(f, Nil, Nil) = f /\ Set(q, Nil, Nil) = q
    BY <1>2, <1>6 DEF Set
<1>9. Unlink(m, x) = [first |-> first, last |-> last,
                      next |-> [y \in DOMAIN e |-> f[y]], prev |-> [y \in DOMAIN e |-> q[y]]]
    <2>1. Nodes(m) \ {x} = DOMAIN e
        BY <1>2, <1>7
    <2> QED
        BY <1>2, <1>7, <1>8, <2>1 DEF Unlink
<1>10. [y \in DOMAIN e |-> f[y]] = e /\ [y \in DOMAIN e |-> q[y]] = p
    <2>1. \A y \in DOMAIN e : f[y] = e[y] /\ q[y] = p[y]
        BY <1>2, <1>6
    <2> QED
        BY <1>2, <2>1
<1> QED
    BY <1>1, <1>4, <1>7, <1>9, <1>10 DEF Nodes

\* The loop along a list meets what it holds.
LEMMA OrderIs ==
    ASSUME NEW l, NEW s, NEW n, Holds(l, s, n)
    PROVE  /\ Order(l) = s /\ n \in Nat
           /\ Len(Order(l)) = n /\ DOMAIN Order(l) = 1..n /\ Order(l) \in Seq(Nodes(l))
<1>1. Cardinality(Nodes(l)) = n /\ n \in Nat /\ s \in [1..n -> Nodes(l)]
    <2>1. Cardinality(Nodes(l)) = n
        BY HoldsCard
    <2> QED
        BY <2>1 DEF Holds
<1>2. \A i \in 1..n : Nth(l.first, l.next, i) = s[i]
    BY <1>1, NthIs
<1>3. Order(l) = [i \in 1..n |-> s[i]]
    BY <1>1, <1>2 DEF Order
<1>4. Order(l) = s
    BY <1>1, <1>3
<1>5. s \in Seq(Nodes(l)) /\ Len(s) = n /\ DOMAIN s = 1..n
    BY <1>1
<1> QED
    BY <1>1, <1>4, <1>5

\* A list of one node.
LEMMA AloneHolds ==
    ASSUME NEW p, p # Nil
    PROVE  LET l == PushNode([EmptyList EXCEPT !.last = p], p)
           IN Ends(l, [i \in 1..1 |-> p], 1) /\ Nodes(l) = {p} /\ l.first = p
<1>1. PICK l : l = PushNode([EmptyList EXCEPT !.last = p], p)
    OBVIOUS
<1>2. l = [first |-> p, last |-> p, next |-> [x \in {p} |-> Nil], prev |-> [x \in {p} |-> Nil]]
    <2>1. PICK e, v : e = EmptyList.next /\ v = EmptyList.prev
        OBVIOUS
    <2>2. DOMAIN e = {} /\ DOMAIN v = {}
        BY <2>1 DEF EmptyList
    <2>3. EmptyList = [first |-> Nil, last |-> Nil, next |-> e, prev |-> v]
        BY <2>1 DEF EmptyList
    <2>4. PICK k : k = [EmptyList EXCEPT !.last = p]
        OBVIOUS
    <2>5. k = [first |-> Nil, last |-> p, next |-> e, prev |-> v]
        BY <2>3, <2>4
    <2>6. l = [first |-> p, last |-> p, next |-> Set(e, p, Nil), prev |-> Set(Set(v, p, Nil), Nil, p)]
        <3>1. l = PushNode(k, p)
            BY <1>1, <2>4, Zenon
        <3> QED
            BY ONLY <2>5, <3>1, PushRecord
    <2>7. Set(e, p, Nil) = [x \in {p} |-> Nil] /\ Set(v, p, Nil) = [x \in {p} |-> Nil]
        BY <2>2 DEF Set
    <2>8. Set([x \in {p} |-> Nil], Nil, p) = [x \in {p} |-> Nil]
        BY DEF Set
    <2> QED
        BY <2>6, <2>7, <2>8
<1>3. PICK s : s = [i \in 1..1 |-> p]
    OBVIOUS
<1>4. Nodes(l) = {p} /\ l.last = s[1] /\ l.first = s[1] /\ l.next[s[1]] = Nil /\ l.prev[s[1]] = Nil
      /\ s \in [1..1 -> Nodes(l)] /\ l.first = p
    BY <1>2, <1>3 DEF Nodes
<1>5. l \in [first : Nodes(l) \cup {Nil}, last : Nodes(l) \cup {Nil},
             next : [Nodes(l) -> Nodes(l) \cup {Nil}],
             prev : [Nodes(l) -> Nodes(l) \cup {Nil}]]
    BY <1>2, <1>4
<1>6. \A i \in 1..1 : i = 1
    OBVIOUS
<1>7. Holds(l, s, 1)
    BY <1>3, <1>4, <1>5, <1>6 DEF Holds
<1> QED
    BY <1>1, <1>3, <1>4, <1>7 DEF Ends

\* A node that is added to a list that has some comes last.
LEMMA AppendEnds ==
    ASSUME NEW l, NEW s, NEW n, Ends(l, s, n), n # 0, NEW x, x \notin Nodes(l), x # Nil
    PROVE  LET m == AppendNode(l, x)
               t == [i \in 1..n + 1 |-> IF i = n + 1 THEN x ELSE s[i]]
           IN Ends(m, t, n + 1) /\ Nodes(m) = Nodes(l) \cup {x} /\ t[1] = s[1]
<1>1. PICK m, t : m = AppendNode(l, x) /\ t = [i \in 1..n + 1 |-> IF i = n + 1 THEN x ELSE s[i]]
    OBVIOUS
<1>2. Holds(l, s, n) /\ l.last = s[n]
    BY DEF Ends
<1>3. Holds(m, t, n + 1) /\ m.last = x /\ Nodes(m) = Nodes(l) \cup {x}
    BY ONLY <1>1, <1>2, n # 0, x \notin Nodes(l), x # Nil, AppendHolds
<1>4. n \in Nat
    BY <1>2 DEF Holds
<1>5. n + 1 # 0 /\ t[n + 1] = x /\ t[1] = s[1]
    BY <1>1, <1>4
<1> QED
    BY ONLY <1>1, <1>3, <1>5, Zenon DEF Ends

\* A list that ends where it says is one as the runs check it.
LEMMA EndsLinked ==
    ASSUME NEW l, NEW s, NEW n, Ends(l, s, n)
    PROVE  LinkedUp(l, n) /\ Order(l) = s /\ n \in Nat /\ s \in [1..n -> Nodes(l)]
           /\ l.first = (IF n = 0 THEN Nil ELSE s[1]) /\ Cardinality(Nodes(l)) = n
           /\ Nil \notin Nodes(l) /\ (\A x \in Nodes(l) : \E i \in 1..n : s[i] = x)
           /\ (\A i, j \in 1..n : s[i] = s[j] => i = j)
<1>1. Holds(l, s, n) /\ l.last = IF n = 0 THEN Nil ELSE s[n]
    BY DEF Ends
<1>2. Order(l) = s /\ Linked(l) /\ Cardinality(Nodes(l)) = n
    BY <1>1, OrderIs, HoldsLinked, HoldsCard
<1>3. n \in Nat /\ s \in [1..n -> Nodes(l)] /\ l.first = (IF n = 0 THEN Nil ELSE s[1])
      /\ Nil \notin Nodes(l) /\ (\A x \in Nodes(l) : \E i \in 1..n : s[i] = x)
      /\ (\A i, j \in 1..n : s[i] = s[j] => i = j)
    BY <1>1 DEF Holds
<1> QED
    BY <1>1, <1>2, <1>3 DEF LinkedUp

-----------------------------------------------------------------------------
\* Threads s[1], ..., s[n], with their data in f, are in the order in which they were last
\* bumped, but for those that were pinned; pinned ones are first, unless r says that a pin
\* was changed in place.
Ranked(f, s, n, r) ==
    \A i, j \in 1..n : i < j =>
        /\ ~f[s[i]].wasPinned /\ ~f[s[j]].wasPinned => f[s[i]].bumped > f[s[j]].bumped
        /\ ~r /\ f[s[j]].pinned => f[s[i]].pinned

\* One of them goes.
LEMMA RankedLeft ==
    ASSUME NEW f, NEW s, NEW n \in Nat, NEW r, Ranked(f, s, n, r), NEW k \in 1..n
    PROVE  Ranked(f, Left(s, n, k), n - 1, r)
<1>1. PICK t : t = Left(s, n, k)
    OBVIOUS
<1>2. ASSUME NEW i \in 1..n - 1, NEW j \in 1..n - 1, i < j
      PROVE  /\ ~f[t[i]].wasPinned /\ ~f[t[j]].wasPinned => f[t[i]].bumped > f[t[j]].bumped
             /\ ~r /\ f[t[j]].pinned => f[t[i]].pinned
    <2>1. PICK a \in 1..n, b \in 1..n : t[i] = s[a] /\ t[j] = s[b] /\ a < b
        <3>1. CASE j < k
            BY <1>1, <1>2, <3>1 DEF Left
        <3>2. CASE i < k /\ j >= k
            <4>1. i \in 1..n /\ j + 1 \in 1..n /\ t[i] = s[i] /\ t[j] = s[j + 1] /\ i < j + 1
                BY <1>1, <1>2, <3>2 DEF Left
            <4> QED
                BY <4>1
        <3>3. CASE i >= k
            <4>1. i + 1 \in 1..n /\ j + 1 \in 1..n /\ t[i] = s[i + 1] /\ t[j] = s[j + 1] /\ i + 1 < j + 1
                BY <1>1, <1>2, <3>3 DEF Left
            <4> QED
                BY <4>1
        <3> QED
            BY <3>1, <3>2, <3>3
    <2> QED
        BY <2>1 DEF Ranked
<1> QED
    BY <1>1, <1>2 DEF Ranked

\* One comes in, below k pinned ones: it is pinned or above one that is not, and it was
\* bumped last or was pinned.
LEMMA RankedPutIn ==
    ASSUME NEW f, NEW s, NEW n \in Nat, NEW r, Ranked(f, s, n, r), NEW k \in 0..n, NEW x,
           \A i \in 1..n : f[s[i]].pinned => f[s[i]].wasPinned,
           \A i \in 1..k : f[s[i]].pinned,
           f[x].pinned \/ (k < n => ~f[s[k + 1]].pinned),
           \A i \in 1..n : ~f[x].wasPinned /\ ~f[s[i]].wasPinned => f[s[i]].bumped < f[x].bumped
    PROVE  Ranked(f, PutIn(s, n, k, x), n + 1, r)
<1>1. PICK t : t = PutIn(s, n, k, x)
    OBVIOUS
<1>2. ASSUME NEW i \in 1..n + 1, NEW j \in 1..n + 1, i < j
      PROVE  /\ ~f[t[i]].wasPinned /\ ~f[t[j]].wasPinned => f[t[i]].bumped > f[t[j]].bumped
             /\ ~r /\ f[t[j]].pinned => f[t[i]].pinned
    <2>1. /\ i <= k => i \in 1..n /\ t[i] = s[i]
          /\ i = k + 1 => t[i] = x
          /\ i > k + 1 => i - 1 \in 1..n /\ t[i] = s[i - 1]
        BY <1>1 DEF PutIn
    <2>2. /\ j <= k => j \in 1..n /\ t[j] = s[j]
          /\ j = k + 1 => t[j] = x
          /\ j > k + 1 => j - 1 \in 1..n /\ t[j] = s[j - 1]
        BY <1>1 DEF PutIn
    <2>3. CASE j = k + 1
        <3>1. i \in 1..k /\ i \in 1..n /\ t[i] = s[i] /\ t[j] = x
            BY <1>2, <2>1, <2>2, <2>3
        <3> QED
            BY <3>1
    <2>4. CASE i = k + 1
        <3>1. j - 1 \in 1..n /\ t[j] = s[j - 1] /\ t[i] = x /\ k < n /\ k + 1 \in 1..n /\ k + 1 <= j - 1
            BY <1>2, <2>1, <2>2, <2>4
        <3>2. ~r /\ f[s[j - 1]].pinned => f[s[k + 1]].pinned
            <4>1. CASE j - 1 = k + 1
                BY <4>1
            <4>2. CASE j - 1 # k + 1
                <5>1. k + 1 < j - 1
                    BY <3>1, <4>2
                <5> QED
                    BY <3>1, <5>1 DEF Ranked
            <4> QED
                BY <4>1, <4>2
        <3> QED
            BY <3>1, <3>2
    <2>5. CASE i # k + 1 /\ j # k + 1
        <3>1. PICK a \in 1..n, b \in 1..n : t[i] = s[a] /\ t[j] = s[b] /\ a < b
            <4>1. CASE j <= k
                BY <1>2, <2>1, <2>2, <4>1
            <4>2. CASE i <= k /\ j > k + 1
                <5>1. i < j - 1
                    BY <4>2
                <5> QED
                    BY <2>1, <2>2, <4>2, <5>1
            <4>3. CASE i > k + 1
                <5>1. i - 1 < j - 1 /\ j > k + 1
                    BY <1>2, <4>3
                <5> QED
                    BY <2>1, <2>2, <4>3, <5>1
            <4> QED
                BY <1>2, <2>5, <4>1, <4>2, <4>3
        <3> QED
            BY <3>1 DEF Ranked
    <2> QED
        BY <2>3, <2>4, <2>5
<1> QED
    BY <1>1, <1>2 DEF Ranked

\* The data g rank threads as f do.
Alike(f, g, s, n, r, q) ==
    \A i \in 1..n : /\ f[s[i]].wasPinned => g[s[i]].wasPinned
                    /\ g[s[i]].bumped = f[s[i]].bumped
                    /\ ~q => ~r /\ g[s[i]].pinned = f[s[i]].pinned

LEMMA RankedAlike ==
    ASSUME NEW f, NEW g, NEW s, NEW n \in Nat, NEW r, NEW q, Ranked(f, s, n, r), Alike(f, g, s, n, r, q)
    PROVE  Ranked(g, s, n, q)
<1>1. ASSUME NEW i \in 1..n, NEW j \in 1..n, i < j
      PROVE  /\ ~g[s[i]].wasPinned /\ ~g[s[j]].wasPinned => g[s[i]].bumped > g[s[j]].bumped
             /\ ~q /\ g[s[j]].pinned => g[s[i]].pinned
    <2>1. /\ ~f[s[i]].wasPinned /\ ~f[s[j]].wasPinned => f[s[i]].bumped > f[s[j]].bumped
          /\ ~r /\ f[s[j]].pinned => f[s[i]].pinned
        BY <1>1 DEF Ranked
    <2> QED
        BY <1>1, <2>1 DEF Alike
<1> QED
    BY <1>1 DEF Ranked

\* A sequence has a longest start of members of a kind.
LEMMA LongestStart ==
    ASSUME NEW n \in Nat, NEW P
    PROVE  \E k \in 0..n : (\A i \in 1..k : i \in P) /\ (k < n => k + 1 \notin P)
<1> DEFINE Found == \E k \in 0..n : (\A i \in 1..k : i \in P) /\ (k < n => k + 1 \notin P)
<1> DEFINE S == {m \in Nat : m <= n => Found \/ \A i \in 1..m : i \in P}
<1>1. S \subseteq Nat /\ 0 \in S
    OBVIOUS
<1>2. \A m \in S : m + 1 \in S
  <2> SUFFICES ASSUME NEW m \in S, m + 1 <= n, ~Found
               PROVE  \A i \in 1..m + 1 : i \in P
      OBVIOUS
  <2>1. m \in Nat /\ \A i \in 1..m : i \in P
      OBVIOUS
  <2>2. m + 1 \in P
      BY <2>1
  <2> HIDE DEF Found
  <2> QED
      BY <2>1, <2>2
<1> HIDE DEF S
<1>3. S = Nat
    BY ONLY <1>1, <1>2, Induction, Zenon
<1>4. n \in S
    BY <1>3
<1>5. Found \/ \A i \in 1..n : i \in P
    BY <1>4 DEF S
<1> QED
    BY <1>5

\* bump_thread links the thread below the pinned threads at the front, or at the front if
\* it is pinned.
LEMMA BumpIs ==
    ASSUME NEW d, NEW t, NEW s, NEW n, Ends(Unlink(d.threads, t), s, n),
           t \notin Nodes(Unlink(d.threads, t)), t # Nil
    PROVE  \E m : \E k \in 0..n :
              /\ bump_thread(d, t) = [d EXCEPT !.threads = m]
              /\ Ends(m, PutIn(s, n, k, t), n + 1)
              /\ Nodes(m) = Nodes(Unlink(d.threads, t)) \cup {t}
              /\ \A i \in 1..k : d.info[s[i]].pinned
              /\ d.info[t].pinned \/ (k < n => ~d.info[s[k + 1]].pinned)
<1>1. PICK rest : rest = Unlink(d.threads, t)
    OBVIOUS
<1>2. Ends(rest, s, n) /\ t \notin Nodes(rest)
    BY <1>1
<1>3. Holds(rest, s, n)
    BY <1>2 DEF Ends
<1>4. Order(rest) = s /\ n \in Nat /\ Len(s) = n
    BY <1>3, OrderIs
<1>5. PICK skipped : skipped = IF d.info[t].pinned THEN 0 ELSE Skipped(d, s)
    OBVIOUS
<1>6. /\ skipped \in 0..n /\ \A i \in 1..skipped : d.info[s[i]].pinned
      /\ d.info[t].pinned \/ (skipped < n => ~d.info[s[skipped + 1]].pinned)
  <2>1. CASE d.info[t].pinned
      BY <1>4, <1>5, <2>1
  <2>2. CASE ~d.info[t].pinned
    <3> DEFINE P == {i \in Nat : d.info[s[i]].pinned}
    <3>1. PICK k \in 0..n : (\A i \in 1..k : i \in P) /\ (k < n => k + 1 \notin P)
        BY <1>4, LongestStart
    <3>2. /\ \A i \in 1..k : d.info[s[i]].pinned
          /\ k < n => ~d.info[s[k + 1]].pinned
        BY <1>4, <3>1
    <3>3. skipped = CHOOSE j \in 0..n : /\ \A i \in 1..j : d.info[s[i]].pinned
                                        /\ j < n => ~d.info[s[j + 1]].pinned
        BY <1>4, <1>5, <2>2 DEF Skipped
    <3>4. \E j \in 0..n : /\ \A i \in 1..j : d.info[s[i]].pinned
                          /\ j < n => ~d.info[s[j + 1]].pinned
        BY <3>2
    <3> QED
        BY ONLY <3>3, <3>4, Zenon
  <2> QED
      BY <2>1, <2>2
<1>7. PICK prev : prev = IF skipped = 0 THEN Nil ELSE s[skipped]
    OBVIOUS
<1>8. PICK m : m = InsertAfter(rest, prev, t)
    OBVIOUS
<1>9. Ends(m, PutIn(s, n, skipped, t), n + 1) /\ Nodes(m) = Nodes(rest) \cup {t}
    BY <1>2, <1>6, <1>7, <1>8, InsertHolds
<1>10. bump_thread(d, t) = [d EXCEPT !.threads = m]
    BY ONLY <1>1, <1>4, <1>5, <1>7, <1>8, Zenon DEF bump_thread
<1> QED
    BY <1>1, <1>6, <1>9, <1>10

-----------------------------------------------------------------------------
(* bump_thread. *)

\* The data f become g as thread t moves up: it was bumped last, or it was pinned.
MovesUp(f, g, t, s, n) ==
    \A i \in 1..n : s[i] # t =>
        /\ g[s[i]] = f[s[i]]
        /\ f[s[i]].pinned => f[s[i]].wasPinned
        /\ ~g[t].wasPinned /\ ~f[s[i]].wasPinned => f[s[i]].bumped < g[t].bumped

\* What bump_thread sees while it does: h, with the thread's pin as it is or was.
Placing(h, f, g, t, s, n) ==
    /\ \A i \in 1..n : s[i] # t => h[s[i]] = f[s[i]]
    /\ h[t].pinned => g[t].pinned

\* A thread of the board that is bumped keeps the board in order.
LEMMA Moved ==
    ASSUME NEW d, NEW t, NEW s, NEW n, Ends(d.threads, s, n), NEW j \in 1..n, t = s[j],
           NEW f, NEW g, NEW r, Ranked(f, s, n, r), MovesUp(f, g, t, s, n),
           Placing(d.info, f, g, t, s, n)
    PROVE  \E m, u : /\ bump_thread(d, t) = [d EXCEPT !.threads = m]
                     /\ Nodes(m) = Nodes(d.threads) /\ Ends(m, u, n) /\ Ranked(g, u, n, r)
<1>1. n \in Nat /\ s \in [1..n -> Nodes(d.threads)] /\ Nil \notin Nodes(d.threads)
      /\ \A i, k \in 1..n : s[i] = s[k] => i = k
    BY EndsLinked
<1>2. t \in Nodes(d.threads) /\ t # Nil
    BY <1>1
<1>3. PICK rest : rest = Unlink(d.threads, t)
    OBVIOUS
<1>4. PICK q : q = Left(s, n, j)
    OBVIOUS
<1>5. Ends(rest, q, n - 1) /\ Nodes(rest) = Nodes(d.threads) \ {t}
    BY <1>3, <1>4, UnlinkEnds
<1>6. PICK a : a = n - 1
    OBVIOUS
<1>7. a \in Nat /\ a + 1 = n
    BY <1>1, <1>6
<1>8. \A i \in 1..a : \E k \in 1..n : q[i] = s[k] /\ s[k] # t
  <2> SUFFICES ASSUME NEW i \in 1..a
               PROVE  \E k \in 1..n : q[i] = s[k] /\ s[k] # t
      OBVIOUS
  <2>1. CASE i < j
    <3>1. i \in 1..n /\ i # j /\ q[i] = s[i]
        BY <1>1, <1>4, <1>6, <2>1 DEF Left
    <3> QED
        BY <1>1, <3>1
  <2>2. CASE ~(i < j)
    <3>1. i + 1 \in 1..n /\ i + 1 # j /\ q[i] = s[i + 1]
        BY <1>1, <1>4, <1>6, <2>2 DEF Left
    <3> QED
        BY <1>1, <3>1
  <2> QED
      BY <2>1, <2>2
<1>9. Ranked(f, q, a, r)
    BY <1>1, <1>4, <1>6, RankedLeft
<1>10. \A i \in 1..a : /\ g[q[i]] = f[q[i]] /\ d.info[q[i]] = f[q[i]]
                       /\ f[q[i]].pinned => f[q[i]].wasPinned
                       /\ ~g[t].wasPinned /\ ~f[q[i]].wasPinned => f[q[i]].bumped < g[t].bumped
  <2> SUFFICES ASSUME NEW i \in 1..a
               PROVE  /\ g[q[i]] = f[q[i]] /\ d.info[q[i]] = f[q[i]]
                      /\ f[q[i]].pinned => f[q[i]].wasPinned
                      /\ ~g[t].wasPinned /\ ~f[q[i]].wasPinned => f[q[i]].bumped < g[t].bumped
      OBVIOUS
  <2>1. PICK k \in 1..n : q[i] = s[k] /\ s[k] # t
      BY <1>8
  <2> QED
      BY <2>1 DEF MovesUp, Placing
<1>11. Ranked(g, q, a, r)
  <2>1. Alike(f, g, q, a, r, r)
      BY <1>10 DEF Alike
  <2> QED
      BY ONLY <1>7, <1>9, <2>1, RankedAlike
<1>12. Ends(Unlink(d.threads, t), q, a) /\ t \notin Nodes(Unlink(d.threads, t))
    BY <1>3, <1>5, <1>6
<1>13. PICK m : \E k \in 0..a :
                  /\ bump_thread(d, t) = [d EXCEPT !.threads = m]
                  /\ Ends(m, PutIn(q, a, k, t), a + 1)
                  /\ Nodes(m) = Nodes(Unlink(d.threads, t)) \cup {t}
                  /\ \A i \in 1..k : d.info[q[i]].pinned
                  /\ d.info[t].pinned \/ (k < a => ~d.info[q[k + 1]].pinned)
    BY ONLY <1>2, <1>12, BumpIs
<1>14. PICK k \in 0..a :
                  /\ bump_thread(d, t) = [d EXCEPT !.threads = m]
                  /\ Ends(m, PutIn(q, a, k, t), a + 1)
                  /\ Nodes(m) = Nodes(Unlink(d.threads, t)) \cup {t}
                  /\ \A i \in 1..k : d.info[q[i]].pinned
                  /\ d.info[t].pinned \/ (k < a => ~d.info[q[k + 1]].pinned)
    BY ONLY <1>13
<1>15. Ranked(g, PutIn(q, a, k, t), a + 1, r)
  <2>1. \A i \in 1..a : g[q[i]].pinned => g[q[i]].wasPinned
      BY <1>10
  <2>2. \A i \in 1..k : g[q[i]].pinned
      BY <1>7, <1>10, <1>14
  <2>3. g[t].pinned \/ (k < a => ~g[q[k + 1]].pinned)
    <3>1. k < a => k + 1 \in 1..a
        BY <1>7
    <3> QED
        BY <1>10, <1>14, <3>1 DEF Placing
  <2>4. \A i \in 1..a : ~g[t].wasPinned /\ ~g[q[i]].wasPinned => g[q[i]].bumped < g[t].bumped
      BY <1>10
  <2>5. k \in 0..a
      OBVIOUS
  <2> QED
      BY ONLY <1>7, <1>11, <2>1, <2>2, <2>3, <2>4, <2>5, RankedPutIn
<1>16. Nodes(m) = Nodes(d.threads)
    BY <1>2, <1>3, <1>5, <1>14
<1> QED
    BY <1>7, <1>14, <1>15, <1>16

\* A new thread is bumped to where it belongs.
LEMMA Placed ==
    ASSUME NEW d, NEW l, NEW t, NEW s, NEW n, d.threads = Stray(l, t), Ends(l, s, n),
           t \notin Nodes(l), t # Nil, ~d.info[t].pinned
    PROVE  \E m : \E k \in 0..n :
              /\ bump_thread(d, t) = [d EXCEPT !.threads = m]
              /\ Ends(m, PutIn(s, n, k, t), n + 1) /\ Nodes(m) = Nodes(l) \cup {t}
              /\ \A i \in 1..k : d.info[s[i]].pinned
              /\ k < n => ~d.info[s[k + 1]].pinned
<1>1. Unlink(d.threads, t) = l
    BY StrayUnlink DEF Ends
<1>2. \E m : \E k \in 0..n :
                  /\ bump_thread(d, t) = [d EXCEPT !.threads = m]
                  /\ Ends(m, PutIn(s, n, k, t), n + 1)
                  /\ Nodes(m) = Nodes(Unlink(d.threads, t)) \cup {t}
                  /\ \A i \in 1..k : d.info[s[i]].pinned
                  /\ d.info[t].pinned \/ (k < n => ~d.info[s[k + 1]].pinned)
    BY <1>1, BumpIs
<1> QED
    BY ONLY <1>1, <1>2, ~d.info[t].pinned, Zenon

\* The first k of the threads are pinned, and the next one is not.
Leading(f, s, n, k) == /\ k \in 0..n /\ \A i \in 1..k : f[s[i]].pinned
                       /\ k < n => ~f[s[k + 1]].pinned

\* It is in order there.
LEMMA PlacedRanked ==
    ASSUME NEW f, NEW g, NEW s, NEW n \in Nat, NEW k, NEW t, NEW r, Ranked(f, s, n, r),
           MovesUp(f, g, t, s, n), Leading(f, s, n, k), \A i \in 1..n : s[i] # t
    PROVE  Ranked(g, PutIn(s, n, k, t), n + 1, r)
<1>1. \A i \in 1..n : /\ g[s[i]] = f[s[i]]
                      /\ f[s[i]].pinned => f[s[i]].wasPinned
                      /\ ~g[t].wasPinned /\ ~f[s[i]].wasPinned => f[s[i]].bumped < g[t].bumped
    BY DEF MovesUp
<1>2. k \in 0..n
    BY DEF Leading
<1>3. Ranked(g, s, n, r)
  <2>1. Alike(f, g, s, n, r, r)
      BY <1>1 DEF Alike
  <2> QED
      BY <2>1, RankedAlike
<1>4. \A i \in 1..n : g[s[i]].pinned => g[s[i]].wasPinned
    BY <1>1
<1>5. \A i \in 1..k : g[s[i]].pinned
    BY <1>1, <1>2 DEF Leading
<1>6. g[t].pinned \/ (k < n => ~g[s[k + 1]].pinned)
  <2>1. k < n => k + 1 \in 1..n
      BY <1>2
  <2> QED
      BY <1>1, <2>1 DEF Leading
<1>7. \A i \in 1..n : ~g[t].wasPinned /\ ~g[s[i]].wasPinned => g[s[i]].bumped < g[t].bumped
    BY <1>1
<1> QED
    BY ONLY <1>2, <1>3, <1>4, <1>5, <1>6, <1>7, n \in Nat, RankedPutIn

-----------------------------------------------------------------------------
(* The board as a record, and the loop of delete_thread. *)

\* The folds of persistence.c, mod.c and the list of reports.
DeletingPosts == INSTANCE Folding WITH Op <- delete_post

\* The board is a record of these fields.
Board(th, co, in, po, of, ta, cr, re) ==
    [threads |-> th, count |-> co, info |-> in, posts |-> po,
     of |-> of, table |-> ta, crashed |-> cr, reordered |-> re]

Shape(d) == d = Board(d.threads, d.count, d.info, d.posts, d.of, d.table, d.crashed, d.reordered)

\* Its fields.
LEMMA BoardIs ==
    ASSUME NEW th, NEW co, NEW in, NEW po, NEW of, NEW ta, NEW cr, NEW re, NEW d,
           d = Board(th, co, in, po, of, ta, cr, re)
    PROVE  /\ d.threads = th /\ d.count = co /\ d.info = in /\ d.posts = po
           /\ d.of = of /\ d.table = ta /\ d.crashed = cr /\ d.reordered = re
           /\ Shape(d)
BY DEF Board, Shape

\* delete_post, for a post that is in a thread.
LEMMA DeletePostIs ==
    ASSUME NEW d, Shape(d), NEW p, NEW t, t = d.of[p], t # Nil
    PROVE  delete_post(d, p) =
              Board(d.threads, d.count, [d.info EXCEPT ![t].count = @ - 1],
                    [d.posts EXCEPT ![t] = [Unlink(d.posts[t], p) EXCEPT !.first = d.posts[t].first]],
                    [d.of EXCEPT ![p] = Nil], d.table \ {p}, d.crashed, d.reordered)
<1>1. PICK l, f, b, o : /\ l = [d.posts EXCEPT ![t] = [Unlink(d.posts[t], p) EXCEPT !.first = d.posts[t].first]]
                        /\ f = [d.info EXCEPT ![t].count = @ - 1]
                        /\ b = d.table \ {p} /\ o = [d.of EXCEPT ![p] = Nil]
    OBVIOUS
<1>2. PICK x, y, z, w : /\ x = [d EXCEPT !.table = b] /\ y = [x EXCEPT !.of = o]
                        /\ z = [y EXCEPT !.posts = l] /\ w = [z EXCEPT !.info = f]
    OBVIOUS
<1>3. d = Board(d.threads, d.count, d.info, d.posts, d.of, d.table, d.crashed, d.reordered)
    BY DEF Shape
<1>4. x = Board(d.threads, d.count, d.info, d.posts, d.of, b, d.crashed, d.reordered)
    BY ONLY <1>2, <1>3 DEF Board
<1>5. y = Board(d.threads, d.count, d.info, d.posts, o, b, d.crashed, d.reordered)
    BY ONLY <1>2, <1>4 DEF Board
<1>6. z = Board(d.threads, d.count, d.info, l, o, b, d.crashed, d.reordered)
    BY ONLY <1>2, <1>5 DEF Board
<1>7. w = Board(d.threads, d.count, f, l, o, b, d.crashed, d.reordered)
    BY ONLY <1>2, <1>6 DEF Board
<1>8. [d EXCEPT !.table = b, !.of = o, !.posts = l, !.info = f] =
          [[[[d EXCEPT !.table = b] EXCEPT !.of = o] EXCEPT !.posts = l] EXCEPT !.info = f]
    OBVIOUS
<1>9. w = [d EXCEPT !.table = b, !.of = o, !.posts = l, !.info = f]
    BY ONLY <1>2, <1>8, Zenon
<1>10. delete_post(d, p) = [d EXCEPT !.table = b, !.of = o, !.posts = l, !.info = f]
    BY <1>1 DEF delete_post
<1> QED
    BY ONLY <1>1, <1>7, <1>9, <1>10, Zenon

\* After delete_post for each of the posts gone of a thread, only this thread's posts and
\* data have changed.
Emptied(d, e, t, gone) ==
    /\ Shape(e) /\ e.threads = d.threads /\ e.count = d.count
    /\ e.crashed = d.crashed /\ e.reordered = d.reordered
    /\ DOMAIN e.info = DOMAIN d.info /\ DOMAIN e.posts = DOMAIN d.posts
    /\ \A u \in DOMAIN d.info : u # t => e.info[u] = d.info[u]
    /\ \A u \in DOMAIN d.posts : u # t => e.posts[u] = d.posts[u]
    /\ e.of = [p \in Post |-> IF p \in gone THEN Nil ELSE d.of[p]]
    /\ e.table = d.table \ gone

LEMMA EmptiedStep ==
    ASSUME NEW d, NEW e, NEW t, NEW gone, Emptied(d, e, t, gone), t # Nil,
           NEW p \in Post, p \notin gone, d.of[p] = t
    PROVE  Emptied(d, delete_post(e, p), t, gone \cup {p})
<1>1. Shape(e) /\ e.of[p] = t
    BY DEF Emptied
<1>2. PICK a : a = delete_post(e, p)
    OBVIOUS
<1>3. PICK l, f : /\ l = [e.posts EXCEPT ![t] = [Unlink(e.posts[t], p) EXCEPT !.first = e.posts[t].first]]
                  /\ f = [e.info EXCEPT ![t].count = @ - 1]
    OBVIOUS
<1>4. a = Board(e.threads, e.count, f, l, [e.of EXCEPT ![p] = Nil], e.table \ {p}, e.crashed, e.reordered)
    BY ONLY <1>1, <1>2, <1>3, t # Nil, DeletePostIs
<1>10. /\ a.threads = e.threads /\ a.count = e.count /\ a.info = f /\ a.posts = l
       /\ a.of = [e.of EXCEPT ![p] = Nil] /\ a.table = e.table \ {p}
       /\ a.crashed = e.crashed /\ a.reordered = e.reordered /\ Shape(a)
    BY ONLY <1>4, BoardIs
<1>5. /\ DOMAIN f = DOMAIN e.info /\ \A u \in DOMAIN e.info : u # t => f[u] = e.info[u]
      /\ DOMAIN l = DOMAIN e.posts /\ \A u \in DOMAIN e.posts : u # t => l[u] = e.posts[u]
    BY <1>3
<1>6. a.of = [q \in Post |-> IF q \in gone \cup {p} THEN Nil ELSE d.of[q]]
    BY <1>10 DEF Emptied
<1>8. a.table = d.table \ (gone \cup {p})
    BY <1>10 DEF Emptied
<1>9. Emptied(d, a, t, gone \cup {p})
    BY ONLY Emptied(d, e, t, gone), <1>10, <1>5, <1>6, <1>8 DEF Emptied
<1> QED
    BY <1>2, <1>9

\* The loop of delete_thread, over the posts q[1], ..., q[m] of thread t.
LEMMA ThreadEmptied ==
    ASSUME NEW d, Shape(d), NEW t, t # Nil, d.of \in [Post -> Post \cup {Nil}],
           NEW q, NEW m, q \in Seq(Post), m = Len(q),
           \A i, j \in 1..m : q[i] = q[j] => i = j, \A i \in 1..m : d.of[q[i]] = t
    PROVE  Emptied(d, FoldLeft(delete_post, d, q), t, {q[i] : i \in 1..m})
<1>1. m \in Nat /\ DOMAIN q = 1..m /\ \A i \in 1..m : q[i] \in Post
    OBVIOUS
<1>2. PICK v : v = FoldLeft(delete_post, d, q)
    OBVIOUS
<1>3. PICK f : /\ f[0] = d
               /\ \A k \in 1..Len(q) : f[k] = delete_post(f[k - 1], q[k])
               /\ v = f[Len(q)]
    <2>1. v = DeletingPosts!FoldLeft(delete_post, d, q)
        BY ONLY <1>2, Zenon DEF FoldLeft, DeletingPosts!FoldLeft, MapThenFoldSet,
                                DeletingPosts!MapThenFoldSet, Max, DeletingPosts!Max
    <2>2. DOMAIN q = 1..Len(q) /\ Len(q) \in Nat
        BY <1>1
    <2>3. \E f : /\ f[0] = d
                 /\ \A k \in 1..Len(q) : f[k] = delete_post(f[k - 1], q[k])
                 /\ DeletingPosts!FoldLeft(delete_post, d, q) = f[Len(q)]
        BY ONLY <2>2, DeletingPosts!Steps, ZenonT(60)
    <2> QED
        BY ONLY <2>1, <2>3, Zenon
<1>4. PICK S : S = {k \in Nat : k <= m => Emptied(d, f[k], t, {q[i] : i \in 1..k})}
    OBVIOUS
<1>5. S \subseteq Nat /\ 0 \in S
  <2>1. {q[i] : i \in 1..0} = {}
      OBVIOUS
  <2>2. d.of = [p \in Post |-> IF p \in {} THEN Nil ELSE d.of[p]] /\ d.table = d.table \ {}
      OBVIOUS
  <2>3. Emptied(d, d, t, {})
      BY <2>2 DEF Emptied
  <2> QED
      BY <1>3, <1>4, <2>1, <2>3
<1>6. ASSUME NEW k \in S PROVE k + 1 \in S
  <2>1. k \in Nat
      BY <1>4
  <2>2. SUFFICES ASSUME k + 1 <= m
                 PROVE  Emptied(d, f[k + 1], t, {q[i] : i \in 1..k + 1})
      BY <1>4, <2>1
  <2>3. PICK gone, p : gone = {q[i] : i \in 1..k} /\ p = q[k + 1]
      OBVIOUS
  <2>4. Emptied(d, f[k], t, gone)
      BY <1>1, <1>4, <2>1, <2>2, <2>3
  <2>5. p \in Post /\ d.of[p] = t /\ p \notin gone
      BY <1>1, <2>1, <2>2, <2>3
  <2>6. Emptied(d, delete_post(f[k], p), t, gone \cup {p})
      BY ONLY <2>4, <2>5, t # Nil, EmptiedStep
  <2>7. f[k + 1] = delete_post(f[k], p)
      <3>1. k + 1 \in 1..Len(q) /\ (k + 1) - 1 = k
          BY <1>1, <2>1, <2>2
      <3>2. f[k + 1] = delete_post(f[(k + 1) - 1], q[k + 1])
          BY ONLY <1>3, <3>1, Zenon
      <3> QED
          BY ONLY <2>3, <3>1, <3>2, Zenon
  <2>8. {q[i] : i \in 1..k + 1} = gone \cup {p}
      BY <2>1, <2>3
  <2> QED
      BY <2>6, <2>7, <2>8
<1>7. S = Nat
    BY ONLY <1>5, <1>6, Induction, Zenon
<1>8. Emptied(d, f[m], t, {q[i] : i \in 1..m})
  <2>1. m \in S /\ m <= m
      BY <1>1, <1>7
  <2> QED
      BY ONLY <1>4, <2>1
<1> QED
    BY <1>2, <1>3, <1>8

\* delete_thread, for a thread whose posts know it.
LEMMA DeleteThreadIs ==
    ASSUME NEW d, Shape(d), d.crashed = FALSE, d.of \in [Post -> Post \cup {Nil}],
           d.table \subseteq Post, NEW t, t # Nil, NEW q, NEW m, Ends(d.posts[t], q, m),
           Nodes(d.posts[t]) = {p \in Post : d.of[p] = t}
    PROVE  delete_thread(d, t) =
              Board(Unlink(d.threads, t), d.count - 1, Without(d.info, t), Without(d.posts, t),
                    [p \in Post |-> IF d.of[p] = t THEN Nil ELSE d.of[p]],
                    {p \in d.table : d.of[p] # t}, FALSE, d.reordered)
<1>1. PICK nodes : nodes = Nodes(d.posts[t])
    OBVIOUS
<1>2. Holds(d.posts[t], q, m)
    BY DEF Ends
<1>3. /\ Order(d.posts[t]) = q /\ m = Len(q) /\ m \in Nat /\ q \in Seq(nodes) /\ q \in [1..m -> nodes]
      /\ \A x \in nodes : \E i \in 1..m : q[i] = x
      /\ \A i, j \in 1..m : q[i] = q[j] => i = j
  <2>1. Order(d.posts[t]) = q /\ m \in Nat /\ Len(q) = m /\ q \in Seq(nodes)
      BY <1>1, <1>2, OrderIs
  <2>2. q \in [1..m -> nodes] /\ (\A x \in nodes : \E i \in 1..m : q[i] = x)
        /\ \A i, j \in 1..m : q[i] = q[j] => i = j
      BY <1>1, EndsLinked
  <2> QED
      BY <2>1, <2>2
<1>4. nodes \subseteq Post /\ \A i \in 1..m : d.of[q[i]] = t
    BY <1>1, <1>3
<1>5. q \in Seq(Post)
    BY <1>3, <1>4
<1>6. PICK e : e = FoldLeft(delete_post, d, q)
    OBVIOUS
<1>7. PICK gone : gone = {q[i] : i \in 1..m}
    OBVIOUS
<1>8. Emptied(d, e, t, gone)
    BY ONLY Shape(d), t # Nil, d.of \in [Post -> Post \cup {Nil}], <1>3, <1>4, <1>5, <1>6, <1>7, ThreadEmptied
<1>9. gone = nodes
    BY <1>3, <1>7
<1>10. /\ Shape(e) /\ e.threads = d.threads /\ e.count = d.count
       /\ e.crashed = FALSE /\ e.reordered = d.reordered
       /\ Without(e.info, t) = Without(d.info, t) /\ Without(e.posts, t) = Without(d.posts, t)
    BY <1>8 DEF Emptied, Without
<1>11. /\ e.of = [p \in Post |-> IF d.of[p] = t THEN Nil ELSE d.of[p]]
       /\ e.table = {p \in d.table : d.of[p] # t}
  <2>1. \A p \in Post : p \in gone <=> d.of[p] = t
      BY <1>1, <1>9
  <2> QED
      BY <1>8, <2>1 DEF Emptied
<1>12. PICK th, co, in, po : /\ th = Unlink(e.threads, t) /\ co = e.count - 1
                             /\ in = Without(e.info, t) /\ po = Without(e.posts, t)
    OBVIOUS
<1>13. delete_thread(d, t) = [e EXCEPT !.threads = th, !.count = co, !.info = in, !.posts = po]
    BY <1>3, <1>6, <1>10, <1>12 DEF delete_thread
<1>14. PICK x, y, z, w : /\ x = [e EXCEPT !.threads = th] /\ y = [x EXCEPT !.count = co]
                         /\ z = [y EXCEPT !.info = in] /\ w = [z EXCEPT !.posts = po]
    OBVIOUS
<1>15. e = Board(e.threads, e.count, e.info, e.posts, e.of, e.table, e.crashed, e.reordered)
    BY <1>10 DEF Shape
<1>16. x = Board(th, e.count, e.info, e.posts, e.of, e.table, e.crashed, e.reordered)
    BY ONLY <1>14, <1>15 DEF Board
<1>17. y = Board(th, co, e.info, e.posts, e.of, e.table, e.crashed, e.reordered)
    BY ONLY <1>14, <1>16 DEF Board
<1>18. z = Board(th, co, in, e.posts, e.of, e.table, e.crashed, e.reordered)
    BY ONLY <1>14, <1>17 DEF Board
<1>19. w = Board(th, co, in, po, e.of, e.table, e.crashed, e.reordered)
    BY ONLY <1>14, <1>18 DEF Board
<1>20. [e EXCEPT !.threads = th, !.count = co, !.info = in, !.posts = po] =
          [[[[e EXCEPT !.threads = th] EXCEPT !.count = co] EXCEPT !.info = in] EXCEPT !.posts = po]
    OBVIOUS
<1>21. w = [e EXCEPT !.threads = th, !.count = co, !.info = in, !.posts = po]
    BY ONLY <1>14, <1>20, Zenon
<1> QED
    BY ONLY <1>10, <1>11, <1>12, <1>13, <1>19, <1>21, Zenon

\* It follows a null pointer if the thread's only post has no thread yet.
LEMMA CrashIs ==
    ASSUME NEW d, Shape(d), NEW t, d.of[t] = Nil, NEW q, Ends(d.posts[t], q, 1), q[1] = t
    PROVE  delete_thread(d, t).crashed = TRUE
<1>1. Holds(d.posts[t], q, 1)
    BY DEF Ends
<1>2. Order(d.posts[t]) = q /\ DOMAIN q = 1..1 /\ Len(q) = 1
    BY <1>1, OrderIs
<1>3. PICK v : v = FoldLeft(delete_post, d, q)
    OBVIOUS
<1>4. PICK f : /\ f[0] = d
               /\ \A k \in 1..Len(q) : f[k] = delete_post(f[k - 1], q[k])
               /\ v = f[Len(q)]
    <2>1. v = DeletingPosts!FoldLeft(delete_post, d, q)
        BY ONLY <1>3, Zenon DEF FoldLeft, DeletingPosts!FoldLeft, MapThenFoldSet,
                                DeletingPosts!MapThenFoldSet, Max, DeletingPosts!Max
    <2>2. DOMAIN q = 1..Len(q) /\ Len(q) \in Nat
        BY <1>2
    <2>3. \E f : /\ f[0] = d
                 /\ \A k \in 1..Len(q) : f[k] = delete_post(f[k - 1], q[k])
                 /\ DeletingPosts!FoldLeft(delete_post, d, q) = f[Len(q)]
        BY ONLY <2>2, DeletingPosts!Steps, ZenonT(60)
    <2> QED
        BY ONLY <2>1, <2>3, Zenon
<1>5. v = delete_post(d, t)
  <2>1. 1 \in 1..Len(q) /\ 1 - 1 = 0
      BY <1>2
  <2>2. f[1] = delete_post(f[1 - 1], q[1])
      BY ONLY <1>4, <2>1, Zenon
  <2> QED
      BY ONLY <1>2, <1>4, <2>1, <2>2, q[1] = t, Zenon
<1>6. v = [d EXCEPT !.crashed = TRUE]
    BY ONLY <1>5, d.of[t] = Nil, Zenon DEF delete_post
<1>7. v.crashed = TRUE
    BY <1>6, BoardIs DEF Shape, Board
<1> QED
    BY ONLY <1>2, <1>3, <1>7, Zenon DEF delete_thread

-----------------------------------------------------------------------------
(* The invariant of the board, and what a new post does to it. *)

\* struct thread, but for its pointers, when c posts have been made.
Info(c) == [count : Nat, pinned : BOOLEAN, closed : BOOLEAN, saged : BOOLEAN,
            bumped : 1..c, wasPinned : BOOLEAN]

\* The board lists its threads, in the right order.
Ranking(d) == \E s, n : Ends(d.threads, s, n) /\ n = d.count /\ Ranked(d.info, s, n, d.reordered)

\* Their data.
Infos(d, c) ==
    /\ Live(d) \subseteq 1..c /\ DOMAIN d.info = Live(d)
    /\ d.info = [t \in Live(d) |-> d.info[t]]
    /\ \A t \in Live(d) : /\ d.info[t] \in Info(c)
                          /\ d.info[t].pinned => d.info[t].wasPinned
                          /\ ~d.reordered /\ d.info[t].wasPinned => d.info[t].pinned

\* The list l holds the posts of thread t, beginning with its first, and has this length.
Posts(l, t, posts, count) ==
    /\ Nodes(l) = posts
    /\ \E s, n : Ends(l, s, n) /\ n = count /\ n # 0 /\ s[1] = t

OwnPosts(d, t) == Posts(d.posts[t], t, {p \in Post : d.of[p] = t}, d.info[t].count)

Lists(d) == DOMAIN d.posts = Live(d) /\ \A t \in Live(d) : OwnPosts(d, t)

\* The post p has been linked to thread t, but is not counted yet.
HalfAdded(d, t, p) ==
    /\ d.of[p] = Nil
    /\ Posts(d.posts[t], t, {q \in Post : d.of[q] = t} \cup {p}, d.info[t].count + 1)

\* Posts are found exactly if they are in a thread of the board.
Index(d, c) ==
    /\ d.of \in [Post -> Live(d) \cup {Nil}]
    /\ \A p \in Post : d.of[p] # Nil => p <= c
    /\ d.table = {p \in Post : d.of[p] # Nil}

BoardOk(d, c) ==
    /\ Shape(d) /\ d.reordered \in BOOLEAN
    /\ Ranking(d) /\ Infos(d, c) /\ Lists(d) /\ Index(d, c)

\* The post p is counted in thread t, whose data become i; pin says whether it is pinned.
Counted(d, e, t, p, i, pin) ==
    /\ i.count = d.info[t].count + 1 /\ i.bumped = d.info[t].bumped
    /\ i.pinned <=> d.info[t].pinned \/ pin
    /\ i.wasPinned <=> d.info[t].wasPinned \/ pin
    /\ e = Board(d.threads, d.count, [d.info EXCEPT ![t] = i], d.posts,
                 [d.of EXCEPT ![p] = t], d.table \cup {p}, d.crashed, d.reordered)

\* What post_page_finish does at its end.
LEMMA AddPostIs ==
    ASSUME NEW d, Shape(d), NEW t, NEW p, NEW c, d.info[t] \in Info(c),
           NEW pin \in BOOLEAN, NEW close \in BOOLEAN
    PROVE  \E i \in Info(c) : Counted(d, AddPost(d, t, p, pin, close), t, p, i, pin)
<1>1. PICK a : a = d.info[t]
    OBVIOUS
<1>2. /\ a = [count |-> a.count, pinned |-> a.pinned, closed |-> a.closed, saged |-> a.saged,
              bumped |-> a.bumped, wasPinned |-> a.wasPinned]
      /\ a.count \in Nat /\ a.pinned \in BOOLEAN /\ a.closed \in BOOLEAN /\ a.saged \in BOOLEAN
      /\ a.bumped \in 1..c /\ a.wasPinned \in BOOLEAN
    BY <1>1 DEF Info
<1>3. PICK co, sa, cl, pi, wa : /\ co = a.count + 1 /\ sa = (a.saged \/ co = BumpLimit - 1)
                                /\ cl = (a.closed \/ co = PostLimit - 1 \/ close)
                                /\ pi = (a.pinned \/ pin) /\ wa = (a.wasPinned \/ pin)
    OBVIOUS
<1>4. PICK i : i = [count |-> co, pinned |-> pi, closed |-> cl, saged |-> sa,
                    bumped |-> a.bumped, wasPinned |-> wa]
    OBVIOUS
<1>5. co \in Nat /\ sa \in BOOLEAN /\ cl \in BOOLEAN /\ pi \in BOOLEAN /\ wa \in BOOLEAN
  <2>1. co \in Nat
      BY <1>2, <1>3
  <2>2. sa \in BOOLEAN /\ cl \in BOOLEAN /\ pi \in BOOLEAN /\ wa \in BOOLEAN
      BY ONLY <1>3, Zenon
  <2> QED
      BY <2>1, <2>2
<1>6. [a EXCEPT !.count = co, !.saged = sa, !.closed = cl, !.pinned = pi, !.wasPinned = wa] = i
  <2>1. PICK g, h, k, l, m : /\ g = [a EXCEPT !.count = co] /\ h = [g EXCEPT !.saged = sa]
                            /\ k = [h EXCEPT !.closed = cl] /\ l = [k EXCEPT !.pinned = pi]
                            /\ m = [l EXCEPT !.wasPinned = wa]
      OBVIOUS
  <2>2. g = [count |-> co, pinned |-> a.pinned, closed |-> a.closed, saged |-> a.saged,
             bumped |-> a.bumped, wasPinned |-> a.wasPinned]
      BY ONLY <1>2, <2>1
  <2>3. h = [count |-> co, pinned |-> a.pinned, closed |-> a.closed, saged |-> sa,
             bumped |-> a.bumped, wasPinned |-> a.wasPinned]
      BY ONLY <2>1, <2>2
  <2>4. k = [count |-> co, pinned |-> a.pinned, closed |-> cl, saged |-> sa,
             bumped |-> a.bumped, wasPinned |-> a.wasPinned]
      BY ONLY <2>1, <2>3
  <2>5. l = [count |-> co, pinned |-> pi, closed |-> cl, saged |-> sa,
             bumped |-> a.bumped, wasPinned |-> a.wasPinned]
      BY ONLY <2>1, <2>4
  <2>6. m = [count |-> co, pinned |-> pi, closed |-> cl, saged |-> sa,
             bumped |-> a.bumped, wasPinned |-> wa]
      BY ONLY <2>1, <2>5
  <2>7. [a EXCEPT !.count = co, !.saged = sa, !.closed = cl, !.pinned = pi, !.wasPinned = wa] =
            [[[[[a EXCEPT !.count = co] EXCEPT !.saged = sa] EXCEPT !.closed = cl]
                 EXCEPT !.pinned = pi] EXCEPT !.wasPinned = wa]
      OBVIOUS
  <2> QED
      BY ONLY <1>4, <2>1, <2>6, <2>7, Zenon
<1>7. PICK f, o, b : /\ f = [d.info EXCEPT ![t] = i] /\ o = [d.of EXCEPT ![p] = t]
                     /\ b = d.table \cup {p}
    OBVIOUS
<1>8. PICK x, y, w : x = [d EXCEPT !.table = b] /\ y = [x EXCEPT !.of = o] /\ w = [y EXCEPT !.info = f]
    OBVIOUS
<1>9. d = Board(d.threads, d.count, d.info, d.posts, d.of, d.table, d.crashed, d.reordered)
    BY DEF Shape
<1>10. x = Board(d.threads, d.count, d.info, d.posts, d.of, b, d.crashed, d.reordered)
    BY ONLY <1>8, <1>9 DEF Board
<1>11. y = Board(d.threads, d.count, d.info, d.posts, o, b, d.crashed, d.reordered)
    BY ONLY <1>8, <1>10 DEF Board
<1>12. w = Board(d.threads, d.count, f, d.posts, o, b, d.crashed, d.reordered)
    BY ONLY <1>8, <1>11 DEF Board
<1>13. [d EXCEPT !.table = b, !.of = o, !.info = f] =
          [[[d EXCEPT !.table = b] EXCEPT !.of = o] EXCEPT !.info = f]
    OBVIOUS
<1>14. w = [d EXCEPT !.table = b, !.of = o, !.info = f]
    BY ONLY <1>8, <1>13, Zenon
<1>15. AddPost(d, t, p, pin, close) = [d EXCEPT !.table = b, !.of = o, !.info = f]
  <2>1. AddPost(d, t, p, pin, close) =
            [d EXCEPT !.table = @ \cup {p}, !.of[p] = t,
                      !.info[t] = [a EXCEPT !.count = co,
                                            !.saged = @ \/ co = BumpLimit - 1,
                                            !.closed = @ \/ co = PostLimit - 1 \/ close,
                                            !.pinned = @ \/ pin,
                                            !.wasPinned = @ \/ pin]]
      BY ONLY <1>1, <1>3, Zenon DEF AddPost
  <2>2. [a EXCEPT !.count = co,
                  !.saged = @ \/ co = BumpLimit - 1,
                  !.closed = @ \/ co = PostLimit - 1 \/ close,
                  !.pinned = @ \/ pin,
                  !.wasPinned = @ \/ pin] = i
      BY ONLY <1>3, <1>6, Zenon
  <2> QED
      BY ONLY <2>1, <2>2, <1>7, Zenon
<1>16. i \in Info(c)
    BY <1>2, <1>4, <1>5 DEF Info
<1>17. i.count = a.count + 1 /\ i.bumped = a.bumped /\ i.pinned = pi /\ i.wasPinned = wa
    BY <1>3, <1>4
<1> QED
    BY ONLY <1>1, <1>3, <1>7, <1>12, <1>14, <1>15, <1>16, <1>17, Zenon DEF Counted

\* The post that is counted now is found and listed.
LEMMA AddedLists ==
    ASSUME NEW d, NEW e, NEW t \in Live(d), NEW c \in Nat, c + 1 \in Post, Nil \notin Live(d),
           DOMAIN d.info = Live(d), DOMAIN d.posts = Live(d), Index(d, c),
           \A u \in Live(d) \ {t} : OwnPosts(d, u), HalfAdded(d, t, c + 1),
           NEW i, i.count = d.info[t].count + 1,
           e.threads = d.threads, e.posts = d.posts, e.info = [d.info EXCEPT ![t] = i],
           e.of = [d.of EXCEPT ![c + 1] = t], e.table = d.table \cup {c + 1}
    PROVE  Lists(e) /\ Index(e, c + 1)
<1>1. PICK p : p = c + 1
    OBVIOUS
<1>2. Live(e) = Live(d)
    BY DEF Live
<1>3. /\ d.of \in [Post -> Live(d) \cup {Nil}] /\ \A q \in Post : d.of[q] # Nil => q <= c
      /\ d.table = {q \in Post : d.of[q] # Nil} /\ d.of[p] = Nil /\ p \in Post
    BY <1>1 DEF Index, HalfAdded
<1>4. \A q \in Post : e.of[q] = IF q = p THEN t ELSE d.of[q]
    BY <1>1, <1>3
<1>5. ASSUME NEW u \in Live(d), u # t
      PROVE  OwnPosts(e, u)
  <2>1. e.info[u] = d.info[u] /\ e.posts[u] = d.posts[u]
      BY <1>5
  <2>2. {q \in Post : e.of[q] = u} = {q \in Post : d.of[q] = u}
      BY <1>3, <1>4, <1>5
  <2>3. OwnPosts(d, u)
      BY <1>5
  <2> QED
      BY <2>1, <2>2, <2>3 DEF OwnPosts
<1>6. OwnPosts(e, t)
  <2>1. e.info[t].count = d.info[t].count + 1 /\ e.posts[t] = d.posts[t]
      OBVIOUS
  <2>2. {q \in Post : e.of[q] = t} = {q \in Post : d.of[q] = t} \cup {p}
      BY <1>3, <1>4
  <2> QED
      BY <1>1, <2>1, <2>2 DEF OwnPosts, HalfAdded
<1>7. Lists(e)
    BY <1>2, <1>5, <1>6 DEF Lists
<1>8. Index(e, c + 1)
  <2>1. e.of \in [Post -> Live(e) \cup {Nil}]
      BY <1>2, <1>3
  <2>2. \A q \in Post : e.of[q] # Nil => q <= p
      BY <1>1, <1>3, <1>4
  <2>3. e.table = {q \in Post : e.of[q] # Nil}
      BY <1>1, <1>3, <1>4
  <2> QED
      BY <1>1, <2>1, <2>2, <2>3 DEF Index
<1> QED
    BY <1>7, <1>8

\* A reply is linked behind the last post of its thread.
LEMMA ReplyLinked ==
    ASSUME NEW d, NEW e, NEW t, OwnPosts(d, t), t # Nil, NEW p \in Post, p # Nil, d.of[p] = Nil,
           e.of = d.of, e.posts[t] = AppendNode(d.posts[t], p), e.info[t].count = d.info[t].count
    PROVE  HalfAdded(e, t, p)
<1>1. PICK l, posts : l = d.posts[t] /\ posts = {q \in Post : d.of[q] = t}
    OBVIOUS
<1>2. Nodes(l) = posts /\ p \notin posts
    BY <1>1 DEF OwnPosts, Posts
<1>3. PICK s, n : Ends(l, s, n) /\ n = d.info[t].count /\ n # 0 /\ s[1] = t
    BY <1>1 DEF OwnPosts, Posts
<1>4. PICK q : q = [i \in 1..n + 1 |-> IF i = n + 1 THEN p ELSE s[i]]
    OBVIOUS
<1>5. PICK m : m = AppendNode(l, p)
    OBVIOUS
<1>6. Ends(m, q, n + 1) /\ Nodes(m) = Nodes(l) \cup {p} /\ q[1] = s[1]
    BY <1>2, <1>3, <1>4, <1>5, AppendEnds
<1>7. n \in Nat /\ n + 1 # 0
    BY <1>3, EndsLinked
<1>8. Posts(m, t, posts \cup {p}, n + 1)
    BY <1>2, <1>3, <1>6, <1>7 DEF Posts
<1> QED
    BY <1>1, <1>3, <1>5, <1>8 DEF HalfAdded

\* The other threads keep their posts when a thread is deleted.
Deleted(d, e, u) ==
    /\ e.threads = Unlink(d.threads, u) /\ e.count = d.count - 1
    /\ e.info = Without(d.info, u) /\ e.posts = Without(d.posts, u)
    /\ e.of = [p \in Post |-> IF d.of[p] = u THEN Nil ELSE d.of[p]]
    /\ e.table = {p \in d.table : d.of[p] # u}
    /\ e.crashed = FALSE /\ e.reordered = d.reordered /\ Shape(e)

LEMMA DeletedLists ==
    ASSUME NEW d, NEW e, NEW u, Deleted(d, e, u), u # Nil,
           NEW t, t # u, t # Nil, t \in DOMAIN d.info, t \in DOMAIN d.posts
    PROVE  /\ e.info[t] = d.info[t] /\ e.posts[t] = d.posts[t]
           /\ OwnPosts(d, t) => OwnPosts(e, t)
           /\ \A p \in Post : HalfAdded(d, t, p) => HalfAdded(e, t, p)
<1>1. e.info[t] = d.info[t] /\ e.posts[t] = d.posts[t]
    BY DEF Deleted, Without
<1>2. {q \in Post : e.of[q] = t} = {q \in Post : d.of[q] = t}
    BY DEF Deleted
<1>3. \A p \in Post : d.of[p] = Nil => e.of[p] = Nil
    BY DEF Deleted
<1> QED
    BY <1>1, <1>2, <1>3 DEF OwnPosts, HalfAdded

LEMMA DeletedIndex ==
    ASSUME NEW d, NEW e, NEW u, Deleted(d, e, u), Live(e) = Live(d) \ {u}, u # Nil,
           NEW c, Index(d, c)
    PROVE  Index(e, c)
<1>1. /\ d.of \in [Post -> Live(d) \cup {Nil}] /\ \A q \in Post : d.of[q] # Nil => q <= c
      /\ d.table = {q \in Post : d.of[q] # Nil}
    BY DEF Index
<1>2. e.of = [p \in Post |-> IF d.of[p] = u THEN Nil ELSE d.of[p]]
      /\ e.table = {p \in d.table : d.of[p] # u}
    BY DEF Deleted
<1>3. e.of \in [Post -> Live(e) \cup {Nil}]
    BY <1>1, <1>2
<1>4. \A q \in Post : e.of[q] # Nil => q <= c
    BY <1>1, <1>2
<1>5. e.table = {q \in Post : e.of[q] # Nil}
    BY <1>1, <1>2
<1> QED
    BY <1>3, <1>4, <1>5 DEF Index

\* A post that is not the first of its thread is deleted.
LEMMA PostUnlinked ==
    ASSUME NEW d, NEW e, NEW t, OwnPosts(d, t), t # Nil, t \in DOMAIN d.info, t \in DOMAIN d.posts,
           NEW p \in Post, d.of[p] = t, p # d.posts[t].first, d.info[t].count \in Nat,
           d.of \in [Post -> Post \cup {Nil}], e.of = [d.of EXCEPT ![p] = Nil],
           e.posts = [d.posts EXCEPT ![t] = [Unlink(d.posts[t], p) EXCEPT !.first = d.posts[t].first]],
           e.info[t].count = d.info[t].count - 1
    PROVE  OwnPosts(e, t)
<1>1. PICK l, posts : l = d.posts[t] /\ posts = {q \in Post : d.of[q] = t}
    OBVIOUS
<1>2. Nodes(l) = posts /\ p \in posts
    BY <1>1 DEF OwnPosts, Posts
<1>3. PICK s, n : Ends(l, s, n) /\ n = d.info[t].count /\ n # 0 /\ s[1] = t
    BY <1>1 DEF OwnPosts, Posts
<1>4. n \in Nat /\ l.first = s[1] /\ \E k \in 1..n : s[k] = p
    BY <1>2, <1>3, EndsLinked
<1>5. PICK k \in 1..n : s[k] = p
    BY <1>4
<1>6. k # 1
    BY <1>1, <1>4, <1>5
<1>7. PICK q, m : q = Left(s, n, k) /\ m = Unlink(l, p)
    OBVIOUS
<1>8. Ends(m, q, n - 1) /\ Nodes(m) = Nodes(l) \ {p}
    BY <1>3, <1>5, <1>7, UnlinkEnds
<1>9. q[1] = t /\ n - 1 # 0
    BY <1>3, <1>4, <1>5, <1>6, <1>7, SMTT(40) DEF Left
<1>10. m.first = l.first
    BY <1>1, <1>7 DEF Unlink
<1>11. [m EXCEPT !.first = l.first] = m
  <2>1. m = [first |-> m.first, last |-> m.last, next |-> m.next, prev |-> m.prev]
      BY <1>7 DEF Unlink
  <2> QED
      BY ONLY <1>10, <2>1, SMTT(40)
<1>12. {x \in Post : e.of[x] = t} = posts \ {p}
    BY <1>1
<1>13. e.posts[t] = m
    BY ONLY <1>1, <1>7, <1>11, t \in DOMAIN d.posts,
       e.posts = [d.posts EXCEPT ![t] = [Unlink(d.posts[t], p) EXCEPT !.first = d.posts[t].first]]
<1>14. Posts(m, t, posts \ {p}, n - 1)
    BY <1>2, <1>8, <1>9 DEF Posts
<1> QED
    BY <1>3, <1>12, <1>13, <1>14 DEF OwnPosts

LEMMA InfoGrows ==
    ASSUME NEW c \in Nat, NEW i \in Info(c)
    PROVE  /\ i \in Info(c + 1) /\ i.count \in Nat /\ i.bumped \in 1..c
           /\ i.pinned \in BOOLEAN /\ i.wasPinned \in BOOLEAN
BY DEF Info

\* The posts there were are still in their threads, or in none.
Kept(d, e, c) == \A q \in 1..c : e.of[q] \in {d.of[q], Nil}

\* What a reply makes of board d.
Replied(d, t, p, bump, pin, close) ==
    AddPost(IF bump THEN bump_thread(WithReply(d, t, p, bump, pin), t)
                    ELSE WithReply(d, t, p, bump, pin), t, p, pin, close)

\* The next post is made: e is the board before it is counted, and a after that.
Posted(d, e, a, c) ==
    /\ BoardOk(a, c + 1) /\ Live(a) = Live(e) /\ a.count = e.count
    /\ a.crashed = d.crashed /\ Kept(d, a, c)

\* A reply.
LEMMA ReplyOk ==
    ASSUME NEW d, NEW c \in Nat, c + 1 \in Post, Nil \notin Post, BoardOk(d, c), NEW t \in Live(d),
           NEW pin \in BOOLEAN, NEW close \in BOOLEAN, NEW bump \in BOOLEAN,
           NEW e, e = Replied(d, t, c + 1, bump, pin, close)
    PROVE  Posted(d, d, e, c)
<1>0. PICK x : x = WithReply(d, t, c + 1, bump, pin)
    OBVIOUS
<1>1. /\ Shape(d) /\ d.reordered \in BOOLEAN
      /\ Ranking(d) /\ Infos(d, c) /\ Lists(d) /\ Index(d, c)
    BY DEF BoardOk
<1>2. PICK s, n : Ends(d.threads, s, n) /\ n = d.count /\ Ranked(d.info, s, n, d.reordered)
    BY <1>1 DEF Ranking
<1>3. /\ n \in Nat /\ s \in [1..n -> Live(d)] /\ (\A u \in Live(d) : \E k \in 1..n : s[k] = u)
      /\ Nil \notin Live(d) /\ \A k, h \in 1..n : s[k] = s[h] => k = h
    BY <1>2, EndsLinked DEF Live
<1>4. /\ Live(d) \subseteq 1..c /\ DOMAIN d.info = Live(d) /\ DOMAIN d.posts = Live(d)
      /\ \A u \in Live(d) : /\ d.info[u] \in Info(c)
                            /\ d.info[u].pinned => d.info[u].wasPinned
                            /\ ~d.reordered /\ d.info[u].wasPinned => d.info[u].pinned
                            /\ OwnPosts(d, u)
    BY <1>1 DEF Infos, Lists
<1>5. PICK p, b, a : /\ p = c + 1 /\ b = (IF bump THEN p ELSE d.info[t].bumped)
                     /\ a = [d.info[t] EXCEPT !.bumped = b]
    OBVIOUS
<1>6. /\ a \in Info(p) /\ a.bumped = b /\ a.pinned = d.info[t].pinned
      /\ a.wasPinned = d.info[t].wasPinned /\ a.count = d.info[t].count
      /\ a.pinned \in BOOLEAN /\ a.wasPinned \in BOOLEAN
  <2>1. d.info[t] \in Info(c)
      BY <1>4
  <2>2. b \in 1..p
      BY <1>5, <2>1 DEF Info
  <2> QED
      BY <1>5, <2>1, <2>2 DEF Info
<1>7. PICK f, l, r : /\ f = [d.info EXCEPT ![t] = a] /\ l = [d.posts EXCEPT ![t] = AppendNode(d.posts[t], p)]
                     /\ r = (d.reordered \/ (pin /\ ~bump /\ ~d.info[t].pinned))
    OBVIOUS
<1>8. x = Board(d.threads, d.count, f, l, d.of, d.table, d.crashed, r)
  <2>1. x = [d EXCEPT !.posts = l, !.info = f, !.reordered = r]
      BY ONLY <1>0, <1>5, <1>7, Zenon DEF WithReply
  <2>2. PICK v, w : v = [d EXCEPT !.posts = l] /\ w = [v EXCEPT !.info = f]
      OBVIOUS
  <2>3. d = Board(d.threads, d.count, d.info, d.posts, d.of, d.table, d.crashed, d.reordered)
      BY <1>1 DEF Shape
  <2>4. v = Board(d.threads, d.count, d.info, l, d.of, d.table, d.crashed, d.reordered)
      BY ONLY <2>2, <2>3 DEF Board
  <2>5. w = Board(d.threads, d.count, f, l, d.of, d.table, d.crashed, d.reordered)
      BY ONLY <2>2, <2>4 DEF Board
  <2>6. [w EXCEPT !.reordered = r] = Board(d.threads, d.count, f, l, d.of, d.table, d.crashed, r)
      BY ONLY <2>5 DEF Board
  <2>7. [d EXCEPT !.posts = l, !.info = f, !.reordered = r] =
            [[[d EXCEPT !.posts = l] EXCEPT !.info = f] EXCEPT !.reordered = r]
      OBVIOUS
  <2> QED
      BY ONLY <2>1, <2>2, <2>6, <2>7, Zenon
<1>9. /\ x.threads = d.threads /\ x.info = f /\ Shape(x)
    BY ONLY <1>8, BoardIs
<1>10. r \in BOOLEAN /\ (bump => r = d.reordered) /\ (~r => ~d.reordered /\ (pin => bump \/ d.info[t].pinned))
    BY ONLY <1>1, <1>7, Zenon
<1>11. PICK y : y = IF bump THEN bump_thread(x, t) ELSE x
    OBVIOUS
<1>12. \A u \in Live(d) : u # t => f[u] = d.info[u]
    BY <1>4, <1>7
<1>13. f[t] = a /\ DOMAIN f = Live(d)
    BY <1>4, <1>7
<1>14. PICK k \in 1..n : s[k] = t
    BY <1>3
<1>15. ASSUME bump, NEW g, \A u \in Live(d) : u # t => g[u] = d.info[u],
              a.pinned => g[t].pinned, g[t].bumped = b
       PROVE  \E m, u : /\ bump_thread(x, t) = [x EXCEPT !.threads = m]
                        /\ Nodes(m) = Live(d) /\ Ends(m, u, n) /\ Ranked(g, u, n, r)
  <2>1. MovesUp(d.info, g, t, s, n)
    <3> SUFFICES ASSUME NEW h \in 1..n, s[h] # t
                 PROVE  /\ g[s[h]] = d.info[s[h]]
                        /\ d.info[s[h]].pinned => d.info[s[h]].wasPinned
                        /\ ~g[t].wasPinned /\ ~d.info[s[h]].wasPinned => d.info[s[h]].bumped < g[t].bumped
        BY DEF MovesUp
    <3>1. s[h] \in Live(d)
        BY <1>3
    <3>2. d.info[s[h]].bumped \in 1..c
        BY <1>4, <3>1, InfoGrows
    <3>3. g[t].bumped = c + 1
        BY <1>5, <1>15
    <3>4. d.info[s[h]].bumped < g[t].bumped
        BY <3>2, <3>3
    <3> QED
        BY <1>4, <1>15, <3>1, <3>4
  <2>2. Placing(x.info, d.info, g, t, s, n)
      BY <1>3, <1>9, <1>12, <1>13, <1>15 DEF Placing
  <2>4. Ends(x.threads, s, n) /\ Ranked(d.info, s, n, r)
      BY <1>2, <1>9, <1>10, <1>15
  <2>5. k \in 1..n /\ t = s[k]
      BY <1>14
  <2>6. \E m, u : /\ bump_thread(x, t) = [x EXCEPT !.threads = m]
                  /\ Nodes(m) = Nodes(x.threads) /\ Ends(m, u, n) /\ Ranked(g, u, n, r)
      BY ONLY <2>1, <2>2, <2>4, <2>5, Moved
  <2> QED
      BY <1>9, <2>6 DEF Live
<1>16. PICK th : /\ y = Board(th, d.count, f, l, d.of, d.table, d.crashed, r) /\ Nodes(th) = Live(d)
  <2>1. CASE ~bump
      BY <1>8, <1>11, <2>1 DEF Live
  <2>2. CASE bump
    <3>1. f[t].bumped = b /\ a.pinned => f[t].pinned
        BY <1>6, <1>13
    <3>2. \E m, u : /\ bump_thread(x, t) = [x EXCEPT !.threads = m]
                    /\ Nodes(m) = Live(d) /\ Ends(m, u, n) /\ Ranked(f, u, n, r)
        BY <1>6, <1>12, <1>13, <1>15, <2>2, <3>1
    <3>3. PICK m : bump_thread(x, t) = [x EXCEPT !.threads = m] /\ Nodes(m) = Live(d)
        BY <3>2
    <3>4. [x EXCEPT !.threads = m] = Board(m, d.count, f, l, d.of, d.table, d.crashed, r)
        BY ONLY <1>8 DEF Board
    <3> QED
        BY ONLY <1>11, <2>2, <3>3, <3>4, Zenon
  <2> QED
      BY <2>1, <2>2
<1>17. /\ y.threads = th /\ y.count = d.count /\ y.info = f /\ y.posts = l /\ y.of = d.of
       /\ y.table = d.table /\ y.crashed = d.crashed /\ y.reordered = r /\ Shape(y)
    BY <1>16, BoardIs
<1>18. PICK i \in Info(p) :
              /\ i.count = a.count + 1 /\ i.bumped = a.bumped
              /\ i.pinned <=> a.pinned \/ pin
              /\ i.wasPinned <=> a.wasPinned \/ pin
              /\ e = Board(th, d.count, [f EXCEPT ![t] = i], l,
                           [d.of EXCEPT ![p] = t], d.table \cup {p}, d.crashed, r)
  <2>1. y.info[t] \in Info(p)
      BY <1>6, <1>13, <1>17
  <2>2. \E i \in Info(p) : Counted(y, AddPost(y, t, p, pin, close), t, p, i, pin)
      BY <1>17, <2>1, AddPostIs
  <2>3. e = AddPost(y, t, p, pin, close)
      BY ONLY <1>0, <1>5, <1>11, e = Replied(d, t, c + 1, bump, pin, close), Zenon DEF Replied
  <2> QED
      BY ONLY <1>13, <1>17, <2>2, <2>3, Zenon DEF Counted
<1>19. PICK g : g = [f EXCEPT ![t] = i]
    OBVIOUS
<1>20. /\ e.threads = th /\ e.count = d.count /\ e.info = g /\ e.posts = l
       /\ e.of = [d.of EXCEPT ![p] = t] /\ e.table = d.table \cup {p}
       /\ e.crashed = d.crashed /\ e.reordered = r /\ Shape(e)
    BY <1>18, <1>19, BoardIs
<1>21. /\ g[t] = i /\ DOMAIN g = Live(d) /\ \A u \in Live(d) : u # t => g[u] = d.info[u]
    BY <1>12, <1>13, <1>19
<1>22. Live(e) = Live(d) /\ Live(y) = Live(d)
    BY <1>16, <1>17, <1>20 DEF Live
<1>23. Ranking(e)
  <2>1. CASE bump
    <3>1. g[t].bumped = b /\ a.pinned => g[t].pinned
        BY <1>6, <1>18, <1>21
    <3>2. \E m, u : /\ bump_thread(x, t) = [x EXCEPT !.threads = m]
                    /\ Nodes(m) = Live(d) /\ Ends(m, u, n) /\ Ranked(g, u, n, r)
        BY <1>6, <1>15, <1>18, <1>21, <2>1, <3>1
    <3>3. PICK m, u : /\ bump_thread(x, t) = [x EXCEPT !.threads = m]
                      /\ Ends(m, u, n) /\ Ranked(g, u, n, r)
        BY <3>2
    <3>4. [x EXCEPT !.threads = m] = Board(m, d.count, f, l, d.of, d.table, d.crashed, r)
        BY ONLY <1>8 DEF Board
    <3>5. y = Board(m, d.count, f, l, d.of, d.table, d.crashed, r)
        BY ONLY <1>11, <2>1, <3>3, <3>4, Zenon
    <3>6. m = th
        BY ONLY <1>17, <3>5, BoardIs
    <3> QED
      <4>1. Ends(e.threads, u, n) /\ n = e.count /\ Ranked(e.info, u, n, e.reordered)
          BY ONLY <1>2, <1>20, <3>3, <3>6, Zenon
      <4> QED
          BY ONLY <4>1, Zenon DEF Ranking
  <2>2. CASE ~bump
    <3>1. th = d.threads
        BY ONLY <1>8, <1>11, <1>17, <2>2, BoardIs
    <3>2. Alike(d.info, g, s, n, d.reordered, r)
      <4> SUFFICES ASSUME NEW h \in 1..n
                   PROVE  /\ d.info[s[h]].wasPinned => g[s[h]].wasPinned
                          /\ g[s[h]].bumped = d.info[s[h]].bumped
                          /\ ~r => ~d.reordered /\ g[s[h]].pinned = d.info[s[h]].pinned
          BY DEF Alike
      <4>1. s[h] \in Live(d)
          BY <1>3
      <4>2. CASE s[h] # t
          BY <1>10, <1>21, <4>1, <4>2
      <4>3. CASE s[h] = t
        <5>1. g[s[h]] = i
            BY ONLY <1>21, <4>3
        <5>2. i.bumped = d.info[t].bumped
            BY <1>5, <1>6, <1>18, <2>2
        <5>3. i.pinned \in BOOLEAN
            BY <1>18 DEF Info
        <5>4. d.info[t].wasPinned => i.wasPinned
            BY ONLY <1>6, <1>18, Zenon
        <5>5. ~r => ~d.reordered /\ i.pinned = d.info[t].pinned
          <6>1. ~r => ~d.reordered /\ (i.pinned <=> a.pinned)
              BY ONLY <1>6, <1>10, <1>18, <2>2, Zenon
          <6> QED
              BY <1>6, <5>3, <6>1
        <5> QED
            BY <4>3, <5>1, <5>2, <5>4, <5>5
      <4> QED
          BY <4>2, <4>3
    <3>3. Ranked(g, s, n, r)
      <4>1. n \in Nat /\ Ranked(d.info, s, n, d.reordered)
          BY <1>2, <1>3
      <4> QED
          BY ONLY <4>1, <3>2, RankedAlike
    <3>4. Ends(e.threads, s, n) /\ n = e.count /\ Ranked(e.info, s, n, e.reordered)
        BY ONLY <1>2, <1>20, <3>1, <3>3, Zenon
    <3> QED
        BY ONLY <3>4, Zenon DEF Ranking
  <2> QED
      BY <2>1, <2>2
<1>24. Infos(e, p)
  <2>1. Live(e) \subseteq 1..p /\ DOMAIN e.info = Live(e)
    <3>1. 1..c \subseteq 1..p
        BY <1>5
    <3>2. Live(e) \subseteq 1..c
        BY ONLY <1>4, <1>22
    <3> QED
        BY ONLY <1>20, <1>21, <1>22, <3>1, <3>2
  <2>2. ASSUME NEW u \in Live(e)
        PROVE  /\ e.info[u] \in Info(p)
               /\ e.info[u].pinned => e.info[u].wasPinned
               /\ ~e.reordered /\ e.info[u].wasPinned => e.info[u].pinned
    <3>1. CASE u # t
      <4>1. e.info[u] = d.info[u] /\ u \in Live(d)
          BY <1>20, <1>21, <1>22, <3>1
      <4>2. e.info[u] \in Info(p)
          BY <1>4, <1>5, <4>1, InfoGrows
      <4> QED
          BY <1>4, <1>10, <1>20, <4>1, <4>2
    <3>2. CASE u = t
      <4>1. e.info[u] = i
          BY <1>20, <1>21, <3>2
      <4>2. a.pinned => a.wasPinned
          BY <1>4, <1>6
      <4>3. ~d.reordered /\ a.wasPinned => a.pinned
          BY <1>4, <1>6
      <4>4. (i.pinned => i.wasPinned) /\ (~r /\ i.wasPinned => i.pinned)
          BY ONLY <1>10, <1>18, <4>2, <4>3, Zenon
      <4> QED
          BY <1>18, <1>20, <4>1, <4>4
    <3> QED
        BY <3>1, <3>2
  <2>3. e.info = [u \in Live(e) |-> e.info[u]]
      BY ONLY <1>19, <1>20, <1>21, <1>22
  <2> QED
      BY <2>1, <2>2, <2>3 DEF Infos
<1>25. Lists(e) /\ Index(e, p)
  <2>1. d.of[p] = Nil /\ p \in Post /\ p # Nil
      BY <1>1, <1>5 DEF Index
  <2>2. HalfAdded(y, t, p)
    <3>1. OwnPosts(d, t) /\ t # Nil
        BY <1>3, <1>4
    <3>2. y.of = d.of /\ y.posts[t] = AppendNode(d.posts[t], p) /\ y.info[t].count = d.info[t].count
        BY <1>4, <1>6, <1>7, <1>13, <1>17
    <3> QED
        BY ONLY <2>1, <3>1, <3>2, ReplyLinked
  <2>3. \A u \in Live(y) \ {t} : OwnPosts(y, u)
    <3> SUFFICES ASSUME NEW u \in Live(d), u # t
                 PROVE  OwnPosts(y, u)
        BY <1>22
    <3>1. y.posts[u] = d.posts[u] /\ y.info[u] = d.info[u] /\ y.of = d.of
        BY <1>4, <1>7, <1>12, <1>17
    <3>2. OwnPosts(d, u)
        BY <1>4
    <3> QED
        BY ONLY <3>1, <3>2 DEF OwnPosts
  <2>4. Index(y, c)
      BY <1>1, <1>17, <1>22 DEF Index
  <2>5. DOMAIN y.info = Live(y) /\ DOMAIN y.posts = Live(y) /\ Nil \notin Live(y) /\ t \in Live(y)
      BY <1>3, <1>4, <1>7, <1>13, <1>17, <1>22
  <2>6. i.count = y.info[t].count + 1 /\ e.info = [y.info EXCEPT ![t] = i]
      BY <1>13, <1>17, <1>18, <1>19, <1>20
  <2>7. e.threads = y.threads /\ e.posts = y.posts /\ e.of = [y.of EXCEPT ![p] = t]
        /\ e.table = y.table \cup {p}
      BY <1>17, <1>20
  <2>8. c \in Nat /\ p \in Post
      BY <2>1
  <2> QED
      BY ONLY <1>5, <2>2, <2>3, <2>4, <2>5, <2>6, <2>7, <2>8, AddedLists
<1>26. BoardOk(e, p)
    BY <1>10, <1>20, <1>23, <1>24, <1>25 DEF BoardOk
<1>27. Kept(d, e, c)
  <2>1. p \in Nat /\ MaxPosts \in Nat /\ p <= MaxPosts
      BY <1>5, ThreadsAssumption DEF Post
  <2>2. \A q \in 1..c : q \in Post /\ q # p
      BY <1>5, <2>1 DEF Post
  <2> QED
      BY <1>1, <1>20, <2>2 DEF Kept, Index
<1> QED
    BY <1>5, <1>20, <1>22, <1>26, <1>27 DEF Posted

-----------------------------------------------------------------------------
(* A new thread. *)

\* The new thread p has its place on the board e, but its post is not counted; d is the board
\* before.
Ready(d, e, c, p) ==
    /\ Shape(e) /\ e.crashed = FALSE /\ e.reordered = d.reordered
    /\ p \in Live(e) /\ DOMAIN e.info = Live(e) /\ DOMAIN e.posts = Live(e)
    /\ e.info[p] = [NewInfo EXCEPT !.bumped = p]
    /\ HalfAdded(e, p, p)
    /\ \A t \in Live(e) \ {p} : t \in Live(d) /\ e.info[t] = d.info[t] /\ OwnPosts(e, t)
    /\ Index(e, c) /\ Kept(d, e, c)
    /\ \E s, n : /\ Ends(e.threads, s, n) /\ n = e.count
                 /\ \A i : i.bumped = p => Ranked([e.info EXCEPT ![p] = i], s, n, e.reordered)

LEMMA NewInfoIs ==
    ASSUME NEW c \in Nat, NEW i, i = [NewInfo EXCEPT !.bumped = c + 1]
    PROVE  /\ i \in Info(c + 1) /\ i.bumped = c + 1 /\ i.count = 0
           /\ i.pinned = FALSE /\ i.wasPinned = FALSE
<1>1. PICK no : no = FALSE
    OBVIOUS
<1>2. NewInfo = [count |-> 0, pinned |-> no, closed |-> no, saged |-> no, bumped |-> 0, wasPinned |-> no]
    BY ONLY <1>1, Zenon DEF NewInfo
<1>3. i = [count |-> 0, pinned |-> no, closed |-> no, saged |-> no, bumped |-> c + 1, wasPinned |-> no]
    BY ONLY <1>2, i = [NewInfo EXCEPT !.bumped = c + 1]
<1>4. i.bumped = c + 1 /\ i.count = 0 /\ i.pinned = no /\ i.wasPinned = no
    BY ONLY <1>3
<1>5. no \in BOOLEAN /\ c + 1 \in 1..c + 1 /\ 0 \in Nat
  <2>1. c + 1 \in 1..c + 1 /\ 0 \in Nat
      OBVIOUS
  <2>2. no \in BOOLEAN
      BY ONLY <1>1
  <2> QED
      BY <2>1, <2>2
<1>6. i \in Info(c + 1)
    BY ONLY <1>3, <1>5 DEF Info
<1> QED
    BY ONLY <1>1, <1>4, <1>6, Zenon

\* The first post of a new thread is counted.
LEMMA ReadyOk ==
    ASSUME NEW d, NEW c \in Nat, c + 1 \in Post, Nil \notin Post, BoardOk(d, c), d.crashed = FALSE,
           NEW e, Ready(d, e, c, c + 1), NEW pin \in BOOLEAN, NEW close \in BOOLEAN,
           NEW a, a = AddPost(e, c + 1, c + 1, pin, close)
    PROVE  Posted(d, e, a, c)
<1>1. PICK p : p = c + 1
    OBVIOUS
<1>2. /\ Shape(e) /\ e.crashed = FALSE /\ e.reordered = d.reordered
      /\ p \in Live(e) /\ DOMAIN e.info = Live(e) /\ DOMAIN e.posts = Live(e)
      /\ e.info[p] = [NewInfo EXCEPT !.bumped = p]
      /\ HalfAdded(e, p, p)
      /\ \A t \in Live(e) \ {p} : t \in Live(d) /\ e.info[t] = d.info[t] /\ OwnPosts(e, t)
      /\ Index(e, c) /\ Kept(d, e, c)
    BY <1>1 DEF Ready
<1>3. PICK s, n : /\ Ends(e.threads, s, n) /\ n = e.count
                  /\ \A i : i.bumped = p => Ranked([e.info EXCEPT ![p] = i], s, n, e.reordered)
    BY <1>1 DEF Ready
<1>4. e.info[p] \in Info(p) /\ e.info[p].bumped = p /\ e.info[p].count = 0
      /\ e.info[p].pinned = FALSE /\ e.info[p].wasPinned = FALSE
    BY <1>1, <1>2, NewInfoIs
<1>5. \E i \in Info(p) : Counted(e, AddPost(e, p, p, pin, close), p, p, i, pin)
    BY <1>2, <1>4, AddPostIs
<1>6. PICK i \in Info(p) :
              /\ i.count = e.info[p].count + 1 /\ i.bumped = e.info[p].bumped
              /\ i.pinned <=> e.info[p].pinned \/ pin
              /\ i.wasPinned <=> e.info[p].wasPinned \/ pin
              /\ a = Board(e.threads, e.count, [e.info EXCEPT ![p] = i], e.posts,
                           [e.of EXCEPT ![p] = p], e.table \cup {p}, e.crashed, e.reordered)
    BY ONLY <1>1, <1>5, a = AddPost(e, c + 1, c + 1, pin, close), Zenon DEF Counted
<1>7. PICK g : g = [e.info EXCEPT ![p] = i]
    OBVIOUS
<1>8. /\ a.threads = e.threads /\ a.count = e.count /\ a.info = g /\ a.posts = e.posts
      /\ a.of = [e.of EXCEPT ![p] = p] /\ a.table = e.table \cup {p}
      /\ a.crashed = e.crashed /\ a.reordered = e.reordered /\ Shape(a)
    BY ONLY <1>6, <1>7, BoardIs
<1>9. Live(a) = Live(e)
    BY <1>8 DEF Live
<1>10. /\ d.reordered \in BOOLEAN /\ Live(d) \subseteq 1..c
       /\ \A t \in Live(d) : /\ d.info[t] \in Info(c)
                             /\ d.info[t].pinned => d.info[t].wasPinned
                             /\ ~d.reordered /\ d.info[t].wasPinned => d.info[t].pinned
    BY DEF BoardOk, Infos
<1>11. Ranking(a)
  <2>1. Ranked(g, s, n, e.reordered)
      BY <1>3, <1>4, <1>6, <1>7
  <2>2. Ends(a.threads, s, n) /\ n = a.count /\ Ranked(a.info, s, n, a.reordered)
      BY ONLY <1>3, <1>8, <2>1, Zenon
  <2> QED
      BY ONLY <2>2, Zenon DEF Ranking
<1>12. Infos(a, p)
  <2>1. Live(a) \subseteq 1..p
    <3>1. 1..c \subseteq 1..p /\ p \in 1..p
        BY <1>1
    <3> QED
        BY ONLY <1>2, <1>9, <1>10, <3>1
  <2>2. DOMAIN a.info = Live(a)
      BY <1>2, <1>7, <1>8, <1>9
  <2>3. ASSUME NEW u \in Live(a)
        PROVE  /\ a.info[u] \in Info(p)
               /\ a.info[u].pinned => a.info[u].wasPinned
               /\ ~a.reordered /\ a.info[u].wasPinned => a.info[u].pinned
    <3>1. CASE u # p
      <4>1. a.info[u] = d.info[u] /\ u \in Live(d)
          BY <1>2, <1>7, <1>8, <1>9, <3>1
      <4>2. a.info[u] \in Info(p)
          BY <1>1, <1>10, <4>1, InfoGrows
      <4> QED
          BY <1>2, <1>8, <1>10, <4>1, <4>2
    <3>2. CASE u = p
      <4>1. a.info[u] = i
          BY <1>2, <1>7, <1>8, <3>2
      <4>2. (i.pinned => i.wasPinned) /\ (i.wasPinned => i.pinned)
          BY ONLY <1>4, <1>6, Zenon
      <4> QED
          BY <4>1, <4>2
    <3> QED
        BY <3>1, <3>2
  <2>4. a.info = [u \in Live(a) |-> a.info[u]]
      BY ONLY <1>7, <1>8, <2>2
  <2> QED
      BY <2>1, <2>2, <2>3, <2>4 DEF Infos
<1>13. Lists(a) /\ Index(a, p)
  <2>1. Nil \notin Live(e)
      BY <1>3, EndsLinked DEF Live
  <2>2. \A u \in Live(e) \ {p} : OwnPosts(e, u)
      BY <1>2
  <2>3. c \in Nat /\ p \in Post
      BY <1>1
  <2>4. i.count = e.info[p].count + 1
      BY <1>6
  <2>5. /\ p \in Live(e) /\ DOMAIN e.info = Live(e) /\ DOMAIN e.posts = Live(e)
        /\ HalfAdded(e, p, c + 1) /\ Index(e, c)
      BY <1>1, <1>2
  <2>6. /\ a.threads = e.threads /\ a.posts = e.posts /\ a.info = [e.info EXCEPT ![p] = i]
        /\ a.of = [e.of EXCEPT ![c + 1] = p] /\ a.table = e.table \cup {c + 1} /\ c + 1 \in Post
      BY <1>1, <1>7, <1>8
  <2>7. Lists(a) /\ Index(a, c + 1)
      BY ONLY <2>1, <2>2, <2>3, <2>4, <2>5, <2>6, AddedLists
  <2> QED
      BY <1>1, <2>7
<1>14. BoardOk(a, p)
    BY <1>2, <1>8, <1>10, <1>11, <1>12, <1>13 DEF BoardOk
<1>15. Kept(d, a, c)
  <2>1. p \in Nat /\ MaxPosts \in Nat /\ p <= MaxPosts
      BY <1>1, ThreadsAssumption DEF Post
  <2>2. \A q \in 1..c : q \in Post /\ q # p
      BY <1>1, <2>1 DEF Post
  <2>3. \A q \in 1..c : a.of[q] = e.of[q]
      BY <1>2, <1>8, <2>2 DEF Index
  <2> QED
      BY <1>2, <2>3 DEF Kept
<1> QED
    BY <1>1, <1>2, <1>8, <1>9, <1>14, <1>15 DEF Posted

\* The board x holds the new thread p below the pinned threads at the front of board d.
PutBelow(d, x, p, s, n, k) ==
    /\ Ends(d.threads, s, n) /\ n = d.count /\ Ranked(d.info, s, n, d.reordered)
    /\ Leading(d.info, s, n, k) /\ Ends(x.threads, PutIn(s, n, k, p), n + 1)

\* thread_new, bump_thread and the count of the board's threads.
LEMMA ThreadMade ==
    ASSUME NEW d, NEW c \in Nat, c + 1 \in Post, Nil \notin Post, BoardOk(d, c), d.crashed = FALSE,
           NEW x, x = Started(d, c + 1)
    PROVE  /\ Ready(d, x, c, c + 1) /\ x.count = d.count + 1
           /\ Live(x) = Live(d) \cup {c + 1} /\ c + 1 \notin Live(d)
           /\ Ends(x.posts[c + 1], [i \in 1..1 |-> c + 1], 1)
           /\ \E s, n, k : PutBelow(d, x, c + 1, s, n, k)
<1>1. /\ Shape(d) /\ d.reordered \in BOOLEAN
      /\ Ranking(d) /\ Infos(d, c) /\ Lists(d) /\ Index(d, c)
    BY DEF BoardOk
<1>2. PICK s, n : Ends(d.threads, s, n) /\ n = d.count /\ Ranked(d.info, s, n, d.reordered)
    BY <1>1 DEF Ranking
<1>3. /\ n \in Nat /\ s \in [1..n -> Live(d)] /\ Nil \notin Live(d)
    BY <1>2, EndsLinked DEF Live
<1>4. /\ Live(d) \subseteq 1..c /\ DOMAIN d.info = Live(d) /\ DOMAIN d.posts = Live(d)
      /\ \A u \in Live(d) : /\ d.info[u] \in Info(c)
                            /\ d.info[u].pinned => d.info[u].wasPinned
                            /\ OwnPosts(d, u)
    BY <1>1 DEF Infos, Lists
<1>5. PICK p : p = c + 1
    OBVIOUS
<1>6. p \in Post /\ p # Nil /\ p \notin Live(d)
  <2>1. p \notin 1..c
      BY <1>5
  <2> QED
      BY <1>4, <1>5, <2>1
<1>7. PICK new, own : /\ new = [NewInfo EXCEPT !.bumped = p]
                      /\ own = PushNode([EmptyList EXCEPT !.last = p], p)
    OBVIOUS
<1>8. Ends(own, [i \in 1..1 |-> p], 1) /\ Nodes(own) = {p} /\ own.first = p
    BY <1>6, <1>7, AloneHolds
<1>9. /\ new.bumped = p /\ new.count = 0 /\ new.pinned = FALSE /\ new.wasPinned = FALSE
    BY <1>5, <1>7, NewInfoIs
<1>10. PICK f, po, th : f = Set(d.info, p, new) /\ po = Set(d.posts, p, own) /\ th = Stray(d.threads, p)
    OBVIOUS
<1>11. PICK w : w = WithThread(d, p)
    OBVIOUS
<1>12. w = Board(th, d.count, f, po, d.of, d.table, d.crashed, d.reordered)
  <2>1. w = [d EXCEPT !.threads = th, !.info = f, !.posts = po]
      BY ONLY <1>7, <1>10, <1>11, Zenon DEF WithThread
  <2>2. PICK a, b : a = [d EXCEPT !.threads = th] /\ b = [a EXCEPT !.info = f]
      OBVIOUS
  <2>3. d = Board(d.threads, d.count, d.info, d.posts, d.of, d.table, d.crashed, d.reordered)
      BY <1>1 DEF Shape
  <2>4. a = Board(th, d.count, d.info, d.posts, d.of, d.table, d.crashed, d.reordered)
      BY ONLY <2>2, <2>3 DEF Board
  <2>5. b = Board(th, d.count, f, d.posts, d.of, d.table, d.crashed, d.reordered)
      BY ONLY <2>2, <2>4 DEF Board
  <2>6. [b EXCEPT !.posts = po] = Board(th, d.count, f, po, d.of, d.table, d.crashed, d.reordered)
      BY ONLY <2>5 DEF Board
  <2>7. [d EXCEPT !.threads = th, !.info = f, !.posts = po] =
            [[[d EXCEPT !.threads = th] EXCEPT !.info = f] EXCEPT !.posts = po]
      OBVIOUS
  <2> QED
      BY ONLY <2>1, <2>2, <2>6, <2>7, Zenon
<1>13. w.threads = Stray(d.threads, p) /\ w.info = f
  <2>1. w.threads = th /\ w.info = f
      BY ONLY <1>12, BoardIs
  <2> QED
      BY <1>10, <2>1
<1>14. /\ DOMAIN f = Live(d) \cup {p} /\ f[p] = new /\ \A u \in Live(d) : f[u] = d.info[u]
       /\ DOMAIN po = Live(d) \cup {p} /\ po[p] = own /\ \A u \in Live(d) : po[u] = d.posts[u]
    BY <1>3, <1>4, <1>6, <1>10 DEF Set
<1>15. PICK m : \E k \in 0..n :
              /\ bump_thread(w, p) = [w EXCEPT !.threads = m]
              /\ Ends(m, PutIn(s, n, k, p), n + 1) /\ Nodes(m) = Nodes(d.threads) \cup {p}
              /\ \A i \in 1..k : w.info[s[i]].pinned
              /\ k < n => ~w.info[s[k + 1]].pinned
  <2>1. p \notin Nodes(d.threads) /\ ~w.info[p].pinned
      BY <1>6, <1>9, <1>13, <1>14 DEF Live
  <2> QED
      BY ONLY <1>2, <1>6, <1>13, <2>1, Placed
<1>16. PICK k \in 0..n :
              /\ bump_thread(w, p) = [w EXCEPT !.threads = m]
              /\ Ends(m, PutIn(s, n, k, p), n + 1) /\ Nodes(m) = Nodes(d.threads) \cup {p}
              /\ \A i \in 1..k : w.info[s[i]].pinned
              /\ k < n => ~w.info[s[k + 1]].pinned
    BY ONLY <1>15
<1>17. Leading(d.info, s, n, k)
  <2>1. \A i \in 1..n : w.info[s[i]] = d.info[s[i]]
      BY <1>3, <1>13, <1>14
  <2>2. (k < n => k + 1 \in 1..n) /\ \A i \in 1..k : i \in 1..n
      BY <1>3
  <2> QED
      BY <1>16, <2>1, <2>2 DEF Leading
<1>18. x = Board(m, d.count + 1, f, po, d.of, d.table, d.crashed, d.reordered)
  <2>1. PICK v : v = bump_thread(w, p)
      OBVIOUS
  <2>2. v = [w EXCEPT !.threads = m]
      BY <1>16, <2>1
  <2>3. v = Board(m, d.count, f, po, d.of, d.table, d.crashed, d.reordered)
      BY ONLY <1>12, <2>2 DEF Board
  <2>4. v.count = d.count
      BY ONLY <2>3, BoardIs
  <2>5. x = [v EXCEPT !.count = d.count + 1]
      BY ONLY <1>5, <1>11, <2>1, <2>4, x = Started(d, c + 1), Zenon DEF Started
  <2>6. PICK co : co = d.count + 1
      OBVIOUS
  <2>7. x = Board(m, co, f, po, d.of, d.table, d.crashed, d.reordered)
      BY ONLY <2>3, <2>5, <2>6 DEF Board
  <2> QED
      BY <2>6, <2>7
<1>19. /\ x.threads = m /\ x.count = d.count + 1 /\ x.info = f /\ x.posts = po
       /\ x.of = d.of /\ x.table = d.table /\ x.crashed = d.crashed /\ x.reordered = d.reordered
       /\ Shape(x)
    BY ONLY <1>18, BoardIs
<1>20. Live(x) = Live(d) \cup {p}
    BY <1>16, <1>19 DEF Live
<1>21. PutBelow(d, x, p, s, n, k)
    BY <1>2, <1>16, <1>17, <1>19 DEF PutBelow
<1>22. d.of \in [Post -> Live(d) \cup {Nil}] /\ (\A q \in Post : d.of[q] # Nil => q <= c)
       /\ d.table = {q \in Post : d.of[q] # Nil}
    BY <1>1 DEF Index
<1>23. \A u \in Live(x) \ {p} : u \in Live(d) /\ x.info[u] = d.info[u] /\ OwnPosts(x, u)
  <2> SUFFICES ASSUME NEW u \in Live(d)
               PROVE  x.info[u] = d.info[u] /\ OwnPosts(x, u)
      BY <1>20
  <2>1. x.info[u] = d.info[u] /\ x.posts[u] = d.posts[u] /\ x.of = d.of
      BY <1>14, <1>19
  <2>2. OwnPosts(d, u)
      BY <1>4
  <2>3. OwnPosts(x, u)
      BY ONLY <2>1, <2>2 DEF OwnPosts
  <2> QED
      BY <2>1, <2>3
<1>24. HalfAdded(x, p, p)
  <2>1. x.of[p] = Nil
      BY <1>5, <1>6, <1>19, <1>22
  <2>2. {q \in Post : x.of[q] = p} \cup {p} = Nodes(own)
      BY <1>6, <1>8, <1>19, <1>22
  <2>3. x.posts[p] = own /\ x.info[p].count + 1 = 1
      BY <1>9, <1>14, <1>19
  <2>4. [i \in 1..1 |-> p][1] = p
      OBVIOUS
  <2>5. Posts(own, p, Nodes(own), 1)
      BY <1>8, <2>4 DEF Posts
  <2> QED
      BY <2>1, <2>2, <2>3, <2>5 DEF HalfAdded
<1>25. Index(x, c)
    BY <1>19, <1>20, <1>22 DEF Index
<1>26. Kept(d, x, c)
    BY <1>19 DEF Kept
<1>27. ASSUME NEW i, i.bumped = p
       PROVE  Ranked([x.info EXCEPT ![p] = i], PutIn(s, n, k, p), n + 1, x.reordered)
  <2>1. PICK g : g = [x.info EXCEPT ![p] = i]
      OBVIOUS
  <2>2. g[p] = i /\ \A u \in Live(d) : g[u] = d.info[u]
      BY <1>6, <1>14, <1>19, <2>1
  <2>3. MovesUp(d.info, g, p, s, n)
    <3> SUFFICES ASSUME NEW h \in 1..n
                 PROVE  /\ g[s[h]] = d.info[s[h]]
                        /\ d.info[s[h]].pinned => d.info[s[h]].wasPinned
                        /\ d.info[s[h]].bumped < g[p].bumped
        BY DEF MovesUp
    <3>1. s[h] \in Live(d)
        BY <1>3
    <3>2. d.info[s[h]].bumped \in 1..c
        BY <1>4, <3>1, InfoGrows
    <3>3. d.info[s[h]].bumped < g[p].bumped
        BY <1>5, <1>27, <2>2, <3>2
    <3> QED
        BY <1>4, <2>2, <3>1, <3>3
  <2>4. \A h \in 1..n : s[h] # p
      BY <1>3, <1>6
  <2>5. n \in Nat /\ Ranked(d.info, s, n, d.reordered)
      BY <1>2, <1>3
  <2>6. Ranked(g, PutIn(s, n, k, p), n + 1, d.reordered)
      BY ONLY <1>17, <2>3, <2>4, <2>5, PlacedRanked
  <2> QED
      BY <1>19, <2>1, <2>6
<1>28. \E q, a : /\ Ends(x.threads, q, a) /\ a = x.count
                 /\ \A i : i.bumped = p => Ranked([x.info EXCEPT ![p] = i], q, a, x.reordered)
  <2>1. Ends(x.threads, PutIn(s, n, k, p), n + 1) /\ n + 1 = x.count
      BY <1>2, <1>16, <1>19
  <2> QED
      BY <1>27, <2>1
<1>29. Ready(d, x, c, p)
  <2>1. x.crashed = FALSE /\ p \in Live(x) /\ DOMAIN x.info = Live(x) /\ DOMAIN x.posts = Live(x)
        /\ x.info[p] = [NewInfo EXCEPT !.bumped = p]
      BY <1>7, <1>14, <1>19, <1>20
  <2> QED
      BY ONLY <1>19, <1>23, <1>24, <1>25, <1>26, <1>28, <2>1, Zenon DEF Ready
<1> QED
    BY <1>5, <1>6, <1>8, <1>14, <1>19, <1>20, <1>21, <1>29

\* A thread of board d that is not on board e was never pinned, and none that was never
\* pinned was bumped before it.
OldestGone(d, e) ==
    \A t \in Live(d) \ Live(e) : ~d.reordered =>
        /\ ~d.info[t].wasPinned
        /\ \A u \in Live(d) : d.info[u].wasPinned \/ d.info[t].bumped <= d.info[u].bumped

\* The last thread that is not pinned is the oldest.
LEMMA LastIsOldest ==
    ASSUME NEW d, NEW c, BoardOk(d, c), NEW s, NEW n, NEW k,
           Ends(d.threads, s, n), Ranked(d.info, s, n, d.reordered), Leading(d.info, s, n, k), k < n,
           ~d.reordered
    PROVE  /\ ~d.info[s[n]].wasPinned
           /\ \A u \in Live(d) : d.info[u].wasPinned \/ d.info[s[n]].bumped <= d.info[u].bumped
<1>1. /\ n \in Nat /\ s \in [1..n -> Live(d)] /\ \A u \in Live(d) : \E i \in 1..n : s[i] = u
    BY EndsLinked DEF Live
<1>2. \A t \in Live(d) : /\ d.info[t] \in Info(c)
                         /\ d.info[t].wasPinned => d.info[t].pinned
    BY DEF BoardOk, Infos
<1>3. k \in 0..n /\ ~d.info[s[k + 1]].pinned /\ k + 1 \in 1..n /\ n \in 1..n
    BY <1>1 DEF Leading
<1>4. ~d.info[s[n]].pinned
  <2>1. CASE k + 1 = n
      BY <1>3, <2>1
  <2>2. CASE k + 1 < n
      BY <1>3, <2>2 DEF Ranked
  <2> QED
      BY <1>1, <1>3, <2>1, <2>2
<1>5. ~d.info[s[n]].wasPinned
    BY <1>1, <1>2, <1>3, <1>4
<1>6. ASSUME NEW u \in Live(d), ~d.info[u].wasPinned
      PROVE  d.info[s[n]].bumped <= d.info[u].bumped
  <2>1. PICK i \in 1..n : s[i] = u
      BY <1>1
  <2>2. d.info[u].bumped \in 1..c /\ d.info[s[n]].bumped \in 1..c
      BY <1>1, <1>2, <1>3 DEF Info
  <2>3. CASE i = n
      BY <2>1, <2>2, <2>3
  <2>4. CASE i < n
    <3>1. d.info[s[i]].bumped > d.info[s[n]].bumped
        BY <1>3, <1>5, <1>6, <2>1, <2>4 DEF Ranked
    <3> QED
        BY <2>1, <2>2, <3>1
  <2> QED
      BY <1>1, <2>3, <2>4
<1> QED
    BY <1>5, <1>6

\* "Prune oldest thread", when the new one is not the last.
LEMMA ReadyWithout ==
    ASSUME NEW d, NEW c \in Nat, c + 1 \in Post, Nil \notin Post, BoardOk(d, c),
           NEW x, Ready(d, x, c, c + 1), Live(x) \subseteq Post, x.count # 0,
           NEW u, u = x.threads.last, u # c + 1, NEW e, e = delete_thread(x, u)
    PROVE  /\ Ready(d, e, c, c + 1) /\ e.count = x.count - 1 /\ Live(e) = Live(x) \ {u}
<1>1. PICK p : p = c + 1
    OBVIOUS
<1>2. /\ Shape(x) /\ x.crashed = FALSE /\ x.reordered = d.reordered
      /\ p \in Live(x) /\ DOMAIN x.info = Live(x) /\ DOMAIN x.posts = Live(x)
      /\ x.info[p] = [NewInfo EXCEPT !.bumped = p]
      /\ HalfAdded(x, p, p)
      /\ \A t \in Live(x) \ {p} : t \in Live(d) /\ x.info[t] = d.info[t] /\ OwnPosts(x, t)
      /\ Index(x, c) /\ Kept(d, x, c)
    BY <1>1 DEF Ready
<1>3. PICK s, n : /\ Ends(x.threads, s, n) /\ n = x.count
                  /\ \A i : i.bumped = p => Ranked([x.info EXCEPT ![p] = i], s, n, x.reordered)
    BY <1>1 DEF Ready
<1>4. /\ n \in Nat /\ s \in [1..n -> Live(x)] /\ Nil \notin Live(x)
      /\ \A i, j \in 1..n : s[i] = s[j] => i = j
    BY <1>3, EndsLinked DEF Live
<1>5. n \in 1..n /\ u = s[n]
    BY <1>3, <1>4 DEF Ends
<1>6. u \in Live(x) /\ u # Nil /\ u # p
    BY <1>1, <1>4, <1>5
<1>7. OwnPosts(x, u)
    BY <1>2, <1>6
<1>8. /\ Nodes(x.posts[u]) = {q \in Post : x.of[q] = u} /\ \E q, m : Ends(x.posts[u], q, m)
    BY <1>7 DEF OwnPosts, Posts
<1>9. /\ x.of \in [Post -> Post \cup {Nil}] /\ x.table \subseteq Post
    BY <1>2 DEF Index
<1>10. e = Board(Unlink(x.threads, u), x.count - 1, Without(x.info, u), Without(x.posts, u),
                 [q \in Post |-> IF x.of[q] = u THEN Nil ELSE x.of[q]],
                 {q \in x.table : x.of[q] # u}, FALSE, x.reordered)
  <2>1. PICK q, m : Ends(x.posts[u], q, m)
      BY <1>8
  <2>2. Shape(x) /\ x.crashed = FALSE /\ u # Nil /\ Nodes(x.posts[u]) = {h \in Post : x.of[h] = u}
      BY <1>2, <1>6, <1>8
  <2> QED
      BY ONLY <1>9, <2>1, <2>2, e = delete_thread(x, u), DeleteThreadIs
<1>11. Deleted(x, e, u)
  <2>1. PICK th, co, in, po, of, ta, no :
           /\ no = FALSE /\ th = Unlink(x.threads, u) /\ co = x.count - 1 /\ in = Without(x.info, u)
           /\ po = Without(x.posts, u) /\ ta = {q \in x.table : x.of[q] # u}
           /\ of = [q \in Post |-> IF x.of[q] = u THEN Nil ELSE x.of[q]]
      OBVIOUS
  <2>2. e = Board(th, co, in, po, of, ta, no, x.reordered)
      BY ONLY <1>10, <2>1, Zenon
  <2>3. /\ e.threads = th /\ e.count = co /\ e.info = in /\ e.posts = po
        /\ e.of = of /\ e.table = ta /\ e.crashed = no /\ e.reordered = x.reordered /\ Shape(e)
      BY ONLY <2>2, BoardIs
  <2> QED
      BY ONLY <2>1, <2>3, Zenon DEF Deleted
<1>12. PICK q : q = Left(s, n, n)
    OBVIOUS
<1>13. Ends(e.threads, q, n - 1) /\ Nodes(e.threads) = Nodes(x.threads) \ {u}
    BY <1>3, <1>5, <1>11, <1>12, UnlinkEnds DEF Deleted
<1>14. Live(e) = Live(x) \ {u}
    BY <1>13 DEF Live
<1>15. e.count = n - 1
    BY <1>3, <1>11 DEF Deleted
<1>16. \A i \in 1..n - 1 : q[i] = s[i] /\ i \in 1..n /\ s[i] \in Live(x) /\ s[i] # u
    BY <1>4, <1>5, <1>12 DEF Left
<1>17. ASSUME NEW i, i.bumped = p
       PROVE  Ranked([e.info EXCEPT ![p] = i], q, n - 1, e.reordered)
  <2>1. PICK f, g : f = [x.info EXCEPT ![p] = i] /\ g = [e.info EXCEPT ![p] = i]
      OBVIOUS
  <2>2. Ranked(f, s, n, x.reordered)
      BY <1>3, <1>17, <2>1
  <2>3. Ranked(f, q, n - 1, x.reordered)
      BY <1>4, <1>5, <1>12, <2>2, RankedLeft
  <2>4. \A h \in Live(x) : h # u => f[h] = g[h]
      BY <1>2, <1>6, <1>11, <2>1 DEF Deleted, Without
  <2>5. Alike(f, g, q, n - 1, x.reordered, x.reordered)
      BY <1>16, <2>4 DEF Alike
  <2>6. n - 1 \in Nat
      BY <1>4, <1>5
  <2>7. Ranked(g, q, n - 1, x.reordered)
      BY ONLY <2>3, <2>5, <2>6, RankedAlike
  <2>8. e.reordered = x.reordered
      BY <1>11 DEF Deleted
  <2> QED
      BY ONLY <2>1, <2>7, <2>8, Zenon
<1>18. Ready(d, e, c, p)
  <2>1. Shape(e) /\ e.crashed = FALSE /\ e.reordered = d.reordered
      BY <1>2, <1>11 DEF Deleted
  <2>2. p \in Live(e) /\ DOMAIN e.info = Live(e) /\ DOMAIN e.posts = Live(e)
      BY <1>2, <1>6, <1>11, <1>14 DEF Deleted, Without
  <2>3. p # u /\ p # Nil /\ p \in DOMAIN x.info /\ p \in DOMAIN x.posts /\ p \in Post
      BY <1>1, <1>2, <1>6
  <2>4. e.info[p] = x.info[p] /\ HalfAdded(e, p, p)
      BY ONLY <1>2, <1>6, <1>11, <2>3, DeletedLists
  <2>5. ASSUME NEW t \in Live(e) \ {p}
        PROVE  t \in Live(d) /\ e.info[t] = d.info[t] /\ OwnPosts(e, t)
    <3>1. t # u /\ t # Nil /\ t \in DOMAIN x.info /\ t \in DOMAIN x.posts
        BY <1>2, <1>4, <1>14
    <3>2. t \in Live(d) /\ x.info[t] = d.info[t] /\ OwnPosts(x, t)
        BY <1>2, <1>14
    <3>3. e.info[t] = x.info[t] /\ OwnPosts(e, t)
        BY ONLY <1>6, <1>11, <3>1, <3>2, DeletedLists
    <3> QED
        BY <3>2, <3>3
  <2>6. Index(e, c)
      BY ONLY <1>2, <1>6, <1>11, <1>14, DeletedIndex
  <2>7. Kept(d, e, c)
    <3>1. p \in Nat /\ MaxPosts \in Nat /\ p <= MaxPosts
        BY <1>1, ThreadsAssumption DEF Post
    <3>2. \A h \in 1..c : h \in Post
        BY <1>1, <3>1 DEF Post
    <3> QED
        BY <1>2, <1>11, <3>2 DEF Kept, Deleted
  <2>8. \E r, m : /\ Ends(e.threads, r, m) /\ m = e.count
                  /\ \A i : i.bumped = p => Ranked([e.info EXCEPT ![p] = i], r, m, e.reordered)
      BY <1>13, <1>15, <1>17
  <2>9. e.info[p] = [NewInfo EXCEPT !.bumped = p]
      BY ONLY <1>2, <2>4
  <2> QED
      BY ONLY <2>1, <2>2, <2>4, <2>5, <2>6, <2>7, <2>8, <2>9, Zenon DEF Ready
<1> QED
    BY <1>1, <1>3, <1>14, <1>15, <1>18

\* A new thread pushes out the oldest one, or itself if all others are pinned.
LEMMA NewThreadOk ==
    ASSUME NEW d, NEW c \in Nat, c + 1 \in Post, Nil \notin Post, BoardOk(d, c), d.crashed = FALSE,
           MaxThreads \in Nat, d.count <= MaxThreads,
           NEW e, e = Pruned(Started(d, c + 1))
    PROVE  \/ e.crashed = TRUE /\ d.count = MaxThreads /\ \A t \in Live(d) : d.info[t].pinned
           \/ Ready(d, e, c, c + 1) /\ e.count <= MaxThreads /\ OldestGone(d, e)
<1>1. PICK p, x : p = c + 1 /\ x = Started(d, c + 1)
    OBVIOUS
<1>2. /\ Ready(d, x, c, p) /\ x.count = d.count + 1
      /\ Live(x) = Live(d) \cup {p} /\ p \notin Live(d)
      /\ Ends(x.posts[p], [i \in 1..1 |-> p], 1)
      /\ \E s, n, k : PutBelow(d, x, p, s, n, k)
    BY <1>1, ThreadMade
<1>3. PICK s, n, k : PutBelow(d, x, p, s, n, k)
    BY <1>2
<1>4. /\ Ends(d.threads, s, n) /\ n = d.count /\ Ranked(d.info, s, n, d.reordered)
      /\ Leading(d.info, s, n, k) /\ Ends(x.threads, PutIn(s, n, k, p), n + 1)
    BY <1>3 DEF PutBelow
<1>5. /\ n \in Nat /\ s \in [1..n -> Live(d)] /\ k \in 0..n
      /\ \A u \in Live(d) : \E i \in 1..n : s[i] = u
    BY <1>4, EndsLinked DEF Live, Leading
<1>6. e = IF x.count > MaxThreads THEN delete_thread(x, x.threads.last) ELSE x
    BY <1>1 DEF Pruned
<1>7. CASE ~(x.count > MaxThreads)
  <2>1. e = x
      BY <1>6, <1>7
  <2>2. OldestGone(d, e)
      BY <1>2, <2>1 DEF OldestGone
  <2>3. e.count <= MaxThreads
      BY <1>2, <1>4, <1>5, <1>7, <2>1
  <2> QED
      BY <1>1, <1>2, <2>1, <2>2, <2>3
<1>8. CASE x.count > MaxThreads
  <2>1. n = MaxThreads /\ x.count = n + 1
      BY <1>2, <1>4, <1>5, <1>8
  <2>2. PICK u : u = x.threads.last
      OBVIOUS
  <2>3. e = delete_thread(x, u)
      BY <1>6, <1>8, <2>2
  <2>4. u = PutIn(s, n, k, p)[n + 1]
      BY <1>4, <1>5, <2>2 DEF Ends
  <2>5. CASE k = n
    <3>1. u = p
        BY <1>5, <2>4, <2>5 DEF PutIn
    <3>2. Shape(x) /\ x.of[p] = Nil
        BY <1>1, <1>2 DEF Ready, HalfAdded
    <3>3. [i \in 1..1 |-> p][1] = p
        OBVIOUS
    <3>4. e.crashed = TRUE
        BY ONLY <1>2, <2>3, <3>1, <3>2, <3>3, CrashIs
    <3>5. \A t \in Live(d) : d.info[t].pinned
        BY <1>4, <1>5, <2>5 DEF Leading
    <3> QED
        BY <1>4, <2>1, <3>4, <3>5
  <2>6. CASE k < n
    <3>1. u = s[n] /\ n \in 1..n
        BY <1>5, <2>4, <2>6 DEF PutIn
    <3>2. u \in Live(d) /\ u # p
        BY <1>2, <1>5, <3>1
    <3>3. Live(x) \subseteq Post
      <4>1. c \in Nat /\ p = c + 1 /\ p \in Post
          BY <1>1
      <4>2. p \in Nat /\ MaxPosts \in Nat /\ p <= MaxPosts
          BY <4>1, ThreadsAssumption DEF Post
      <4>3. 1..c \subseteq Post
          BY <4>1, <4>2 DEF Post
      <4>4. Live(d) \subseteq 1..c
          BY DEF BoardOk, Infos
      <4> QED
          BY ONLY <1>2, <4>1, <4>3, <4>4
    <3>4. x.count # 0
        BY <1>5, <2>1
    <3>5. /\ Ready(d, e, c, c + 1) /\ e.count = x.count - 1 /\ Live(e) = Live(x) \ {u}
        BY <1>1, <1>2, <2>2, <2>3, <3>2, <3>3, <3>4, ReadyWithout
    <3>6. e.count <= MaxThreads
        BY <1>5, <2>1, <3>5
    <3>7. OldestGone(d, e)
      <4>1. Live(d) \ Live(e) = {u}
          BY <1>2, <3>2, <3>5
      <4>2. ~d.reordered =>
               /\ ~d.info[u].wasPinned
               /\ \A v \in Live(d) : d.info[v].wasPinned \/ d.info[u].bumped <= d.info[v].bumped
          BY <1>4, <2>6, <3>1, LastIsOldest
      <4> QED
          BY <4>1, <4>2 DEF OldestGone
    <3> QED
        BY <3>5, <3>6, <3>7
  <2> QED
    <3>1. k = n \/ k < n
        BY <1>5
    <3> QED
        BY ONLY <2>5, <2>6, <3>1, Zenon
<1> QED
    BY <1>7, <1>8

-----------------------------------------------------------------------------
(* The requests of moderators. *)

\* A request of a moderator makes e of board d.
Moderated(d, e, c) ==
    BoardOk(e, c) /\ e.crashed = d.crashed /\ e.count <= d.count /\ Kept(d, e, c)

LEMMA ModeratedTwice ==
    ASSUME NEW d, NEW e, NEW a, NEW c, Moderated(d, e, c), Moderated(e, a, c),
           d.count \in Nat, e.count \in Nat, a.count \in Nat
    PROVE  Moderated(d, a, c)
BY DEF Moderated, Kept

\* The board counts its threads.
LEMMA Counts ==
    ASSUME NEW d, NEW c, BoardOk(d, c)
    PROVE  /\ d.count \in Nat /\ Nil \notin Live(d) /\ Live(d) \subseteq 1..c
           /\ \A p \in d.table : p \in Post /\ d.of[p] \in Live(d) /\ d.of[p] # Nil
<1>1. d.count \in Nat /\ Nil \notin Live(d)
    BY EndsLinked DEF BoardOk, Ranking, Live
<1>2. \A p \in d.table : p \in Post /\ d.of[p] \in Live(d) /\ d.of[p] # Nil
    BY <1>1 DEF BoardOk, Index
<1> QED
    BY <1>1, <1>2 DEF BoardOk, Infos

LEMMA Unmoderated ==
    ASSUME NEW d, NEW c, BoardOk(d, c)
    PROVE  Moderated(d, d, c)
BY Counts DEF Moderated, Kept

\* Thread t has the data i and the board's list is th, with the same threads.
Label(d, t, i, r, c) ==
    /\ t \in Live(d) /\ i \in Info(c) /\ i.count = d.info[t].count
    /\ r \in BOOLEAN /\ (~r => ~d.reordered)
    /\ (i.pinned => i.wasPinned) /\ (~r /\ i.wasPinned => i.pinned)

Relabels(d, e, t, i, r, th) ==
    /\ Nodes(th) = Live(d)
    /\ \E g : /\ g = [d.info EXCEPT ![t] = i]
              /\ \E s, n : Ends(th, s, n) /\ n = d.count /\ Ranked(g, s, n, r)
              /\ e = Board(th, d.count, g, d.posts, d.of, d.table, d.crashed, r)

LEMMA Relabelled ==
    ASSUME NEW d, NEW c, BoardOk(d, c), NEW t, NEW i, NEW r, Label(d, t, i, r, c),
           NEW th, NEW e, Relabels(d, e, t, i, r, th)
    PROVE  Moderated(d, e, c)
<1> PICK g : /\ g = [d.info EXCEPT ![t] = i]
             /\ \E s, n : Ends(th, s, n) /\ n = d.count /\ Ranked(g, s, n, r)
             /\ e = Board(th, d.count, g, d.posts, d.of, d.table, d.crashed, r)
    BY DEF Relabels
<1>0. /\ t \in Live(d) /\ i \in Info(c) /\ i.count = d.info[t].count
      /\ r \in BOOLEAN /\ (~r => ~d.reordered)
      /\ (i.pinned => i.wasPinned) /\ (~r /\ i.wasPinned => i.pinned)
      /\ Nodes(th) = Live(d)
    BY DEF Label, Relabels
<1>1. /\ d.reordered \in BOOLEAN /\ DOMAIN d.posts = Live(d)
      /\ Live(d) \subseteq 1..c /\ DOMAIN d.info = Live(d)
      /\ \A u \in Live(d) : /\ d.info[u] \in Info(c)
                            /\ d.info[u].pinned => d.info[u].wasPinned
                            /\ ~d.reordered /\ d.info[u].wasPinned => d.info[u].pinned
                            /\ OwnPosts(d, u)
    BY DEF BoardOk, Infos, Lists
<1>2. /\ e.threads = th /\ e.count = d.count /\ e.info = g /\ e.posts = d.posts
      /\ e.of = d.of /\ e.table = d.table /\ e.crashed = d.crashed /\ e.reordered = r /\ Shape(e)
    BY ONLY e = Board(th, d.count, g, d.posts, d.of, d.table, d.crashed, r), BoardIs
<1>3. /\ DOMAIN g = Live(d) /\ g[t] = i /\ \A u \in Live(d) : u # t => g[u] = d.info[u]
    BY <1>0, <1>1
<1>4. Live(e) = Live(d)
    BY <1>0, <1>2 DEF Live
<1>5. Ranking(e)
  <2>1. PICK s, n : Ends(th, s, n) /\ n = d.count /\ Ranked(g, s, n, r)
      OBVIOUS
  <2>2. Ends(e.threads, s, n) /\ n = e.count /\ Ranked(e.info, s, n, e.reordered)
      BY ONLY <1>2, <2>1, Zenon
  <2> QED
      BY ONLY <2>2, Zenon DEF Ranking
<1>6. Infos(e, c)
  <2>1. Live(e) \subseteq 1..c /\ DOMAIN e.info = Live(e)
      BY ONLY <1>1, <1>2, <1>3, <1>4
  <2>2. ASSUME NEW u \in Live(e)
        PROVE  /\ e.info[u] \in Info(c)
               /\ e.info[u].pinned => e.info[u].wasPinned
               /\ ~e.reordered /\ e.info[u].wasPinned => e.info[u].pinned
    <3>1. CASE u = t
      <4>1. e.info[u] = i /\ e.reordered = r
          BY ONLY <1>2, <1>3, <3>1
      <4> QED
          BY ONLY <1>0, <4>1
    <3>2. CASE u # t
      <4>1. e.info[u] = d.info[u] /\ e.reordered = r /\ u \in Live(d)
          BY ONLY <1>2, <1>3, <1>4, <3>2, u \in Live(e)
      <4> QED
          BY ONLY <1>0, <1>1, <4>1
    <3> QED
        BY <3>1, <3>2
  <2>3. e.info = [u \in Live(e) |-> e.info[u]]
      BY ONLY g = [d.info EXCEPT ![t] = i], <1>2, <2>1
  <2> QED
      BY <2>1, <2>2, <2>3 DEF Infos
<1>7. Lists(e)
  <2>1. ASSUME NEW u \in Live(d)
        PROVE  OwnPosts(e, u)
    <3>1. e.posts[u] = d.posts[u] /\ e.info[u].count = d.info[u].count /\ e.of = d.of
        BY <1>0, <1>2, <1>3
    <3>2. OwnPosts(d, u)
        BY <1>1
    <3> QED
        BY ONLY <3>1, <3>2 DEF OwnPosts
  <2> QED
      BY <1>1, <1>2, <1>4, <2>1 DEF Lists
<1>8. Index(e, c)
  <2>1. Index(d, c)
      BY DEF BoardOk
  <2> QED
      BY ONLY <1>2, <1>4, <2>1 DEF Index
<1>9. BoardOk(e, c)
    BY <1>0, <1>2, <1>5, <1>6, <1>7, <1>8 DEF BoardOk
<1>10. e.count <= d.count
    BY <1>2, Counts
<1> QED
    BY <1>2, <1>9, <1>10 DEF Moderated, Kept

\* A moderator closes or opens a thread.
LEMMA ToggleClosedOk ==
    ASSUME NEW d, NEW c, BoardOk(d, c), NEW p \in d.table
    PROVE  Moderated(d, ToggleClosed(d, p), c)
<1>1. PICK t, e : t = d.of[p] /\ e = ToggleClosed(d, p)
    OBVIOUS
<1>2. t \in Live(d)
    BY <1>1, Counts
<1>3. CASE p # d.posts[t].first
    BY <1>1, <1>3, Unmoderated DEF ToggleClosed
<1>4. CASE p = d.posts[t].first
  <2>1. PICK a, v : a = d.info[t] /\ v = ~a.closed /\ v \in BOOLEAN
      OBVIOUS
  <2>1a. PICK i, g : i = [a EXCEPT !.closed = v] /\ g = [d.info EXCEPT ![t] = i]
      OBVIOUS
  <2>2. /\ a \in Info(c) /\ (a.pinned => a.wasPinned)
        /\ (~d.reordered /\ a.wasPinned => a.pinned)
        /\ d.reordered \in BOOLEAN /\ Shape(d) /\ DOMAIN d.info = Live(d)
      BY <1>2, <2>1 DEF BoardOk, Infos
  <2>3. /\ i \in Info(c) /\ i.count = a.count /\ i.pinned = a.pinned
        /\ i.wasPinned = a.wasPinned /\ i.bumped = a.bumped
      BY ONLY <2>1, <2>1a, <2>2 DEF Info
  <2>4. e = Board(d.threads, d.count, g, d.posts, d.of, d.table, d.crashed, d.reordered)
    <3>1. e = [d EXCEPT !.info = g]
        BY ONLY <1>1, <1>4, <2>1, <2>1a, Zenon DEF ToggleClosed
    <3>2. d = Board(d.threads, d.count, d.info, d.posts, d.of, d.table, d.crashed, d.reordered)
        BY <2>2 DEF Shape
    <3> QED
        BY ONLY <3>1, <3>2 DEF Board
  <2>5. \E s, n : Ends(d.threads, s, n) /\ n = d.count /\ Ranked(g, s, n, d.reordered)
    <3>1. PICK s, n : Ends(d.threads, s, n) /\ n = d.count /\ Ranked(d.info, s, n, d.reordered)
        BY DEF BoardOk, Ranking
    <3>2. n \in Nat /\ s \in [1..n -> Live(d)]
        BY <3>1, EndsLinked DEF Live
    <3>3. Alike(d.info, g, s, n, d.reordered, d.reordered)
        BY <1>2, <2>1, <2>1a, <2>2, <2>3, <3>2 DEF Alike
    <3>4. Ranked(g, s, n, d.reordered)
        BY ONLY <3>1, <3>2, <3>3, RankedAlike
    <3> QED
        BY <3>1, <3>4
  <2>6. Nodes(d.threads) = Live(d)
      BY DEF Live
  <2>7. Label(d, t, i, d.reordered, c)
      BY ONLY <1>2, <2>1, <2>2, <2>3 DEF Label
  <2>8. Relabels(d, e, t, i, d.reordered, d.threads)
      BY ONLY <2>1a, <2>4, <2>5, <2>6, Zenon DEF Relabels
  <2>9. Moderated(d, e, c)
      BY ONLY BoardOk(d, c), <2>7, <2>8, Relabelled
  <2> QED
      BY <1>1, <2>9
<1> QED
    BY <1>3, <1>4

\* A moderator pins a thread, which moves it up, or unpins it where it is.
LEMMA TogglePinnedOk ==
    ASSUME NEW d, NEW c, BoardOk(d, c), NEW p \in d.table
    PROVE  Moderated(d, TogglePinned(d, p), c)
<1>1. PICK t, a, v, yes, o : /\ t = d.of[p] /\ a = d.info[t] /\ v = ~a.pinned /\ v \in BOOLEAN
                             /\ yes = TRUE /\ o = TogglePinned(d, p)
    OBVIOUS
<1>2. t \in Live(d)
    BY <1>1, Counts
<1>3. PICK i : i = [a EXCEPT !.pinned = v, !.wasPinned = yes]
    OBVIOUS
<1>4. PICK g, e : g = [d.info EXCEPT ![t] = i] /\ e = [d EXCEPT !.info = g]
    OBVIOUS
<1>5. o = IF p # d.posts[t].first THEN d
          ELSE IF i.pinned THEN bump_thread(e, t) ELSE [e EXCEPT !.reordered = yes]
    BY ONLY <1>1, <1>3, <1>4, Zenon DEF TogglePinned
<1>6. /\ a \in Info(c) /\ (a.pinned => a.wasPinned)
      /\ d.reordered \in BOOLEAN /\ Shape(d) /\ DOMAIN d.info = Live(d)
      /\ \A u \in Live(d) : d.info[u].pinned => d.info[u].wasPinned
    BY <1>1, <1>2 DEF BoardOk, Infos
<1>7. i \in Info(c) /\ i.count = a.count /\ i.pinned = v /\ i.wasPinned = TRUE /\ i.bumped = a.bumped
  <2>1. /\ a = [count |-> a.count, pinned |-> a.pinned, closed |-> a.closed, saged |-> a.saged,
                bumped |-> a.bumped, wasPinned |-> a.wasPinned]
        /\ a.count \in Nat /\ a.closed \in BOOLEAN /\ a.saged \in BOOLEAN /\ a.bumped \in 1..c
      BY ONLY <1>6, SMT DEF Info
  <2>2. PICK m, f, z, b : /\ m = a.count /\ f = a.closed /\ z = a.saged /\ b = a.bumped
                          /\ \E q, w : a = [count |-> m, pinned |-> q, closed |-> f, saged |-> z,
                                           bumped |-> b, wasPinned |-> w]
      BY ONLY <2>1
  <2>3. i = [count |-> m, pinned |-> v, closed |-> f, saged |-> z, bumped |-> b, wasPinned |-> yes]
    <3>1. PICK q, w : a = [count |-> m, pinned |-> q, closed |-> f, saged |-> z,
                           bumped |-> b, wasPinned |-> w]
        BY ONLY <2>2
    <3> QED
        BY ONLY <1>3, <3>1
  <2>4. m \in Nat /\ v \in BOOLEAN /\ f \in BOOLEAN /\ z \in BOOLEAN /\ b \in 1..c /\ yes \in BOOLEAN
      BY ONLY <1>1, <2>1, <2>2, Zenon
  <2>5. i \in Info(c)
      BY ONLY <2>3, <2>4, Zenon DEF Info
  <2>6. i.count = m /\ i.pinned = v /\ i.wasPinned = yes /\ i.bumped = b
      BY ONLY <2>3, Zenon
  <2> QED
      BY ONLY <1>1, <2>2, <2>5, <2>6, Zenon
<1>8. e = Board(d.threads, d.count, g, d.posts, d.of, d.table, d.crashed, d.reordered)
  <2>1. d = Board(d.threads, d.count, d.info, d.posts, d.of, d.table, d.crashed, d.reordered)
      BY <1>6 DEF Shape
  <2> QED
      BY ONLY <1>4, <2>1 DEF Board
<1>9. PICK s, n : Ends(d.threads, s, n) /\ n = d.count /\ Ranked(d.info, s, n, d.reordered)
    BY DEF BoardOk, Ranking
<1>10. /\ n \in Nat /\ s \in [1..n -> Live(d)] /\ (\E j \in 1..n : s[j] = t)
       /\ \A k, j \in 1..n : s[k] = s[j] => k = j
    BY <1>2, <1>9, EndsLinked DEF Live
<1>11. e.threads = d.threads /\ e.info = g
    BY ONLY <1>8, BoardIs
<1>12. CASE p # d.posts[t].first
    BY <1>1, <1>5, <1>12, Unmoderated
<1>13. CASE p = d.posts[t].first /\ i.pinned
  <2>1. PICK j \in 1..n : t = s[j]
      BY <1>10
  <2>2. MovesUp(d.info, g, t, s, n)
      BY <1>2, <1>4, <1>6, <1>7, <1>10 DEF MovesUp
  <2>3. Placing(e.info, d.info, g, t, s, n)
      BY <1>2, <1>4, <1>6, <1>10, <1>11 DEF Placing
  <2>4. Ends(e.threads, s, n)
      BY <1>9, <1>11
  <2>5. \E m, u : /\ bump_thread(e, t) = [e EXCEPT !.threads = m]
                  /\ Nodes(m) = Nodes(e.threads) /\ Ends(m, u, n) /\ Ranked(g, u, n, d.reordered)
      BY ONLY <1>9, <2>1, <2>2, <2>3, <2>4, Moved
  <2>6. PICK m, u : /\ bump_thread(e, t) = [e EXCEPT !.threads = m]
                    /\ Nodes(m) = Nodes(e.threads) /\ Ends(m, u, n) /\ Ranked(g, u, n, d.reordered)
      BY <2>5
  <2>7. o = [e EXCEPT !.threads = m]
      BY ONLY <1>5, <1>13, <2>6, Zenon
  <2>8. o = Board(m, d.count, g, d.posts, d.of, d.table, d.crashed, d.reordered)
      BY ONLY <1>8, <2>7 DEF Board
  <2>9. Nodes(m) = Live(d)
      BY ONLY <1>11, <2>6 DEF Live
  <2>10. Label(d, t, i, d.reordered, c)
      BY ONLY <1>1, <1>2, <1>6, <1>7, <1>13 DEF Label
  <2>11. Relabels(d, o, t, i, d.reordered, m)
      BY ONLY <1>4, <1>9, <2>6, <2>8, <2>9, Zenon DEF Relabels
  <2>12. Moderated(d, o, c)
      BY ONLY BoardOk(d, c), <2>10, <2>11, Relabelled
  <2> QED
      BY <1>1, <2>12
<1>14. CASE p = d.posts[t].first /\ ~i.pinned
  <2>1. o = [e EXCEPT !.reordered = yes]
      BY ONLY <1>5, <1>14, Zenon
  <2>2. o = Board(d.threads, d.count, g, d.posts, d.of, d.table, d.crashed, yes)
      BY ONLY <1>8, <2>1 DEF Board
  <2>3. Alike(d.info, g, s, n, d.reordered, yes)
      BY <1>1, <1>2, <1>4, <1>6, <1>7, <1>10 DEF Alike
  <2>4. Ranked(g, s, n, yes)
      BY ONLY <1>9, <1>10, <2>3, RankedAlike
  <2>5. Label(d, t, i, yes, c)
      BY ONLY <1>1, <1>2, <1>6, <1>7 DEF Label
  <2>6. Relabels(d, o, t, i, yes, d.threads)
      BY ONLY <1>4, <1>9, <2>2, <2>4, Zenon DEF Relabels, Live
  <2>7. Moderated(d, o, c)
      BY ONLY BoardOk(d, c), <2>5, <2>6, Relabelled
  <2> QED
      BY <1>1, <2>7
<1> QED
    BY <1>12, <1>13, <1>14

\* A moderator deletes a thread with its first post.
LEMMA ThreadDeletedOk ==
    ASSUME NEW d, NEW c, BoardOk(d, c), d.crashed = FALSE, 1..c \subseteq Post,
           NEW u \in Live(d), NEW e, e = delete_thread(d, u)
    PROVE  Moderated(d, e, c)
<1>1. /\ Shape(d) /\ d.reordered \in BOOLEAN /\ DOMAIN d.posts = Live(d) /\ DOMAIN d.info = Live(d)
      /\ Live(d) \subseteq 1..c /\ Index(d, c)
      /\ \A t \in Live(d) : /\ d.info[t] \in Info(c)
                            /\ (d.info[t].pinned => d.info[t].wasPinned)
                            /\ (~d.reordered /\ d.info[t].wasPinned => d.info[t].pinned)
                            /\ OwnPosts(d, t)
    BY DEF BoardOk, Infos, Lists
<1>2. PICK s, n : Ends(d.threads, s, n) /\ n = d.count /\ Ranked(d.info, s, n, d.reordered)
    BY DEF BoardOk, Ranking
<1>3. /\ n \in Nat /\ s \in [1..n -> Live(d)] /\ Nil \notin Live(d) /\ (\E j \in 1..n : s[j] = u)
      /\ \A i, j \in 1..n : s[i] = s[j] => i = j
    BY <1>2, EndsLinked DEF Live
<1>4. PICK k \in 1..n : s[k] = u
    BY <1>3
<1>5. u # Nil /\ OwnPosts(d, u)
    BY <1>1, <1>3
<1>6. /\ Nodes(d.posts[u]) = {q \in Post : d.of[q] = u} /\ \E q, m : Ends(d.posts[u], q, m)
    BY <1>5 DEF OwnPosts, Posts
<1>7. /\ d.of \in [Post -> Post \cup {Nil}] /\ d.table \subseteq Post
    BY <1>1 DEF Index
<1>8. e = Board(Unlink(d.threads, u), d.count - 1, Without(d.info, u), Without(d.posts, u),
                [q \in Post |-> IF d.of[q] = u THEN Nil ELSE d.of[q]],
                {q \in d.table : d.of[q] # u}, FALSE, d.reordered)
  <2>1. PICK q, m : Ends(d.posts[u], q, m)
      BY <1>6
  <2>2. Shape(d) /\ d.crashed = FALSE /\ u # Nil /\ Nodes(d.posts[u]) = {h \in Post : d.of[h] = u}
      BY <1>1, <1>5, <1>6
  <2> QED
      BY ONLY <1>7, <2>1, <2>2, e = delete_thread(d, u), DeleteThreadIs
<1>9. Deleted(d, e, u)
  <2>1. PICK th, co, in, po, of, ta, no :
           /\ no = FALSE /\ th = Unlink(d.threads, u) /\ co = d.count - 1 /\ in = Without(d.info, u)
           /\ po = Without(d.posts, u) /\ ta = {q \in d.table : d.of[q] # u}
           /\ of = [q \in Post |-> IF d.of[q] = u THEN Nil ELSE d.of[q]]
      OBVIOUS
  <2>2. e = Board(th, co, in, po, of, ta, no, d.reordered)
      BY ONLY <1>8, <2>1, Zenon
  <2>3. /\ e.threads = th /\ e.count = co /\ e.info = in /\ e.posts = po
        /\ e.of = of /\ e.table = ta /\ e.crashed = no /\ e.reordered = d.reordered /\ Shape(e)
      BY ONLY <2>2, BoardIs
  <2> QED
      BY ONLY <2>1, <2>3, Zenon DEF Deleted
<1>10. PICK q : q = Left(s, n, k)
    OBVIOUS
<1>11. Ends(e.threads, q, n - 1) /\ Nodes(e.threads) = Nodes(d.threads) \ {u}
  <2>1. Ends(Unlink(d.threads, u), q, n - 1) /\ Nodes(Unlink(d.threads, u)) = Nodes(d.threads) \ {u}
      BY <1>2, <1>4, <1>10, UnlinkEnds
  <2> QED
      BY <1>9, <2>1 DEF Deleted
<1>12. Live(e) = Live(d) \ {u}
    BY <1>11 DEF Live
<1>13. e.count = n - 1 /\ e.reordered = d.reordered /\ e.crashed = FALSE /\ Shape(e)
    BY <1>2, <1>9 DEF Deleted
<1>14. \A t \in Live(e) : /\ t \in Live(d) /\ t # u /\ t # Nil
                          /\ e.info[t] = d.info[t] /\ OwnPosts(e, t)
  <2>1. ASSUME NEW t \in Live(e)
        PROVE  /\ t \in Live(d) /\ t # u /\ t # Nil
               /\ e.info[t] = d.info[t] /\ OwnPosts(e, t)
    <3>1. t # u /\ t # Nil /\ t \in DOMAIN d.info /\ t \in DOMAIN d.posts /\ t \in Live(d)
        BY <1>1, <1>3, <1>12
    <3>2. OwnPosts(d, t)
        BY <1>1, <3>1
    <3>3. e.info[t] = d.info[t] /\ OwnPosts(e, t)
        BY ONLY <1>5, <1>9, <3>1, <3>2, DeletedLists
    <3> QED
        BY <3>1, <3>3
  <2> QED
      BY <2>1
<1>15. Ranking(e)
  <2>1. Ranked(d.info, q, n - 1, d.reordered)
      BY <1>2, <1>3, <1>4, <1>10, RankedLeft
  <2>2. n - 1 \in Nat /\ q \in [1..n - 1 -> Live(e)]
      BY <1>3, <1>11, EndsLinked DEF Live
  <2>3. Alike(d.info, e.info, q, n - 1, d.reordered, d.reordered)
      BY <1>14, <2>2 DEF Alike
  <2>4. Ranked(e.info, q, n - 1, d.reordered)
      BY ONLY <2>1, <2>2, <2>3, RankedAlike
  <2> QED
      BY ONLY <1>11, <1>13, <2>4 DEF Ranking
<1>16. Infos(e, c)
  <2>1. DOMAIN e.info = Live(e)
      BY <1>1, <1>9, <1>12 DEF Deleted, Without
  <2>2. e.info = [t \in Live(e) |-> e.info[t]]
    <3>1. e.info = Without(d.info, u)
        BY <1>9 DEF Deleted
    <3> QED
        BY ONLY <2>1, <3>1 DEF Without
  <2> QED
      BY ONLY <1>1, <1>12, <1>13, <1>14, <2>1, <2>2 DEF Infos
<1>17. Lists(e)
  <2>1. DOMAIN e.posts = Live(e)
      BY <1>1, <1>9, <1>12 DEF Deleted, Without
  <2> QED
      BY ONLY <1>14, <2>1 DEF Lists
<1>18. Index(e, c)
    BY ONLY <1>1, <1>5, <1>9, <1>12, DeletedIndex
<1>19. BoardOk(e, c)
    BY ONLY <1>1, <1>13, <1>15, <1>16, <1>17, <1>18 DEF BoardOk
<1>20. Kept(d, e, c)
    BY <1>9 DEF Kept, Deleted
<1>21. e.count <= d.count
    BY ONLY <1>2, <1>3, <1>13
<1> QED
    BY <1>13, <1>19, <1>20, <1>21 DEF Moderated

\* A moderator deletes a post that is not the first of its thread.
LEMMA PostDeletedOk ==
    ASSUME NEW d, NEW c, BoardOk(d, c), 1..c \subseteq Post,
           NEW p \in d.table, NEW t, t = d.of[p], p # d.posts[t].first,
           NEW e, e = delete_post(d, p)
    PROVE  Moderated(d, e, c)
<1>1. /\ Shape(d) /\ d.reordered \in BOOLEAN /\ DOMAIN d.posts = Live(d) /\ DOMAIN d.info = Live(d)
      /\ Live(d) \subseteq 1..c /\ Index(d, c)
      /\ \A u \in Live(d) : /\ d.info[u] \in Info(c)
                            /\ (d.info[u].pinned => d.info[u].wasPinned)
                            /\ (~d.reordered /\ d.info[u].wasPinned => d.info[u].pinned)
                            /\ OwnPosts(d, u)
    BY DEF BoardOk, Infos, Lists
<1>2. p \in Post /\ t \in Live(d) /\ t # Nil
    BY Counts
<1>3. PICK a, co : a = d.info[t] /\ co = a.count - 1
    OBVIOUS
<1>4. PICK i : i = [a EXCEPT !.count = co]
    OBVIOUS
<1>5. PICK f : f = [d.info EXCEPT ![t] = i]
    OBVIOUS
<1>6. f = [d.info EXCEPT ![t].count = @ - 1]
    BY ONLY <1>3, <1>4, <1>5, Zenon
<1>7. PICK po, of, ta : /\ po = [d.posts EXCEPT ![t] = [Unlink(d.posts[t], p) EXCEPT !.first = d.posts[t].first]]
                        /\ of = [d.of EXCEPT ![p] = Nil] /\ ta = d.table \ {p}
    OBVIOUS
<1>8. e = Board(d.threads, d.count, f, po, of, ta, d.crashed, d.reordered)
  <2>1. delete_post(d, p) =
              Board(d.threads, d.count, [d.info EXCEPT ![t].count = @ - 1],
                    [d.posts EXCEPT ![t] = [Unlink(d.posts[t], p) EXCEPT !.first = d.posts[t].first]],
                    [d.of EXCEPT ![p] = Nil], d.table \ {p}, d.crashed, d.reordered)
      BY <1>1, <1>2, DeletePostIs
  <2> QED
      BY ONLY <1>6, <1>7, <2>1, e = delete_post(d, p), Zenon
<1>9. /\ e.threads = d.threads /\ e.count = d.count /\ e.info = f /\ e.posts = po
      /\ e.of = of /\ e.table = ta /\ e.crashed = d.crashed /\ e.reordered = d.reordered /\ Shape(e)
    BY ONLY <1>8, BoardIs
<1>10. Live(e) = Live(d)
    BY <1>9 DEF Live
<1>11. OwnPosts(d, t) /\ a \in Info(c) /\ a.count \in Nat
    BY <1>1, <1>2, <1>3 DEF Info
<1>12. a.count # 0
    BY <1>3, <1>11 DEF OwnPosts, Posts
<1>13. /\ i \in Info(c) /\ i.count = co /\ i.pinned = a.pinned /\ i.wasPinned = a.wasPinned
       /\ i.bumped = a.bumped
  <2>1. co \in Nat
      BY <1>3, <1>11, <1>12
  <2> QED
      BY ONLY <1>4, <1>11, <2>1 DEF Info
<1>14. f[t] = i /\ DOMAIN f = Live(d) /\ \A u \in Live(d) : u # t => f[u] = d.info[u]
    BY <1>1, <1>2, <1>5
<1>15. d.of \in [Post -> Post \cup {Nil}] /\ d.of \in [Post -> Live(d) \cup {Nil}]
       /\ (\A q \in Post : d.of[q] # Nil => q <= c) /\ d.table = {q \in Post : d.of[q] # Nil}
    BY <1>1 DEF Index
<1>16. ASSUME NEW u \in Live(d)
       PROVE  OwnPosts(e, u)
  <2>1. CASE u = t
    <3>1. e.of = [d.of EXCEPT ![p] = Nil]
        BY <1>7, <1>9
    <3>2. e.posts = [d.posts EXCEPT ![t] = [Unlink(d.posts[t], p) EXCEPT !.first = d.posts[t].first]]
        BY ONLY <1>7, <1>9, Zenon
    <3>3. d.info[t].count \in Nat /\ e.info[t].count = d.info[t].count - 1
        BY <1>3, <1>9, <1>11, <1>13, <1>14
    <3>4. /\ t \in DOMAIN d.info /\ t \in DOMAIN d.posts /\ t # Nil /\ d.of[p] = t
          /\ p # d.posts[t].first /\ p \in Post /\ OwnPosts(d, t)
        BY <1>1, <1>2, <1>11
    <3>5. OwnPosts(e, t)
        BY ONLY <1>15, <3>1, <3>2, <3>3, <3>4, PostUnlinked
    <3> QED
        BY <2>1, <3>5
  <2>2. CASE u # t
    <3>1. {q \in Post : e.of[q] = u} = {q \in Post : d.of[q] = u}
      <4>1. u # Nil /\ \A q \in Post : e.of[q] = IF q = p THEN Nil ELSE d.of[q]
          BY <1>7, <1>9, <1>15, Counts
      <4> QED
          BY <2>2, <4>1
    <3>2. e.posts[u] = d.posts[u] /\ e.info[u] = d.info[u]
        BY <1>7, <1>9, <1>14, <2>2
    <3>3. OwnPosts(d, u)
        BY <1>1
    <3> QED
        BY ONLY <3>1, <3>2, <3>3 DEF OwnPosts
  <2> QED
      BY <2>1, <2>2
<1>17. Ranking(e)
  <2>1. PICK s, n : Ends(d.threads, s, n) /\ n = d.count /\ Ranked(d.info, s, n, d.reordered)
      BY DEF BoardOk, Ranking
  <2>2. n \in Nat /\ s \in [1..n -> Live(d)]
      BY <2>1, EndsLinked DEF Live
  <2>3. Alike(d.info, f, s, n, d.reordered, d.reordered)
      BY <1>3, <1>13, <1>14, <2>2 DEF Alike
  <2>4. Ranked(f, s, n, d.reordered)
      BY ONLY <2>1, <2>2, <2>3, RankedAlike
  <2>5. Ends(e.threads, s, n) /\ n = e.count /\ Ranked(e.info, s, n, e.reordered)
      BY ONLY <1>9, <2>1, <2>4, Zenon
  <2> QED
      BY ONLY <2>5, Zenon DEF Ranking
<1>18. Infos(e, c)
  <2>1. ASSUME NEW u \in Live(e)
        PROVE  /\ e.info[u] \in Info(c)
               /\ e.info[u].pinned => e.info[u].wasPinned
               /\ ~e.reordered /\ e.info[u].wasPinned => e.info[u].pinned
    <3>1. u \in Live(d) /\ e.reordered = d.reordered /\ e.info[u] = f[u]
        BY ONLY <1>9, <1>10, u \in Live(e)
    <3>2. CASE u = t
        BY ONLY <1>1, <1>2, <1>3, <1>13, <1>14, <3>1, <3>2
    <3>3. CASE u # t
        BY ONLY <1>1, <1>14, <3>1, <3>3
    <3> QED
        BY <3>2, <3>3
  <2>2. Live(e) \subseteq 1..c /\ DOMAIN e.info = Live(e)
      BY ONLY <1>1, <1>9, <1>10, <1>14
  <2>3. e.info = [u \in Live(e) |-> e.info[u]]
      BY ONLY <1>5, <1>9, <2>2
  <2> QED
      BY ONLY <2>1, <2>2, <2>3 DEF Infos
<1>19. Lists(e)
    BY <1>1, <1>2, <1>7, <1>9, <1>10, <1>16 DEF Lists
<1>20. \A q \in Post : e.of[q] = IF q = p THEN Nil ELSE d.of[q]
    BY <1>2, <1>7, <1>9, <1>15
<1>21. Index(e, c)
  <2>1. e.of \in [Post -> Live(e) \cup {Nil}]
      BY <1>7, <1>9, <1>10, <1>15
  <2>2. \A q \in Post : e.of[q] # Nil => q <= c
      BY <1>15, <1>20
  <2>3. e.table = {q \in Post : e.of[q] # Nil}
      BY <1>7, <1>9, <1>15, <1>20
  <2> QED
      BY ONLY <2>1, <2>2, <2>3 DEF Index
<1>22. BoardOk(e, c)
    BY ONLY <1>1, <1>9, <1>17, <1>18, <1>19, <1>21 DEF BoardOk
<1>23. Kept(d, e, c)
    BY <1>20 DEF Kept
<1>24. e.count <= d.count
    BY <1>9, Counts
<1> QED
    BY ONLY <1>9, <1>22, <1>23, <1>24 DEF Moderated

\* What a moderator does with one post.
LEMMA DeleteOk ==
    ASSUME NEW d, NEW c, BoardOk(d, c), d.crashed = FALSE, 1..c \subseteq Post, NEW p \in d.table
    PROVE  Moderated(d, Delete(d, p), c)
<1>1. PICK t, e : t = d.of[p] /\ e = Delete(d, p)
    OBVIOUS
<1>2. t \in Live(d)
    BY <1>1, Counts
<1>3. CASE p = d.posts[t].first
  <2>1. e = delete_thread(d, t)
      BY ONLY <1>1, <1>3, Zenon DEF Delete
  <2> QED
      BY <1>1, <1>2, <2>1, ThreadDeletedOk
<1>4. CASE p # d.posts[t].first
  <2>1. e = delete_post(d, p)
      BY ONLY <1>1, <1>4, Zenon DEF Delete
  <2> QED
      BY <1>1, <1>4, <2>1, PostDeletedOk
<1> QED
    BY <1>3, <1>4

\* The loops of mod_page_finish over the posts that a request names.
PinFold    == INSTANCE Folding WITH Op <- Pinning
CloseFold  == INSTANCE Folding WITH Op <- Closing
DeleteFold == INSTANCE Folding WITH Op <- Deleting

\* One of their turns makes b of board a.
Turn(a, b, c) == BoardOk(a, c) /\ a.crashed = FALSE => Moderated(a, b, c)

LEMMA Turns ==
    ASSUME NEW c, 1..c \subseteq Post, NEW d, NEW p
    PROVE  Turn(d, Pinning(d, p), c) /\ Turn(d, Closing(d, p), c) /\ Turn(d, Deleting(d, p), c)
<1> SUFFICES ASSUME BoardOk(d, c), d.crashed = FALSE
             PROVE  /\ Moderated(d, Pinning(d, p), c) /\ Moderated(d, Closing(d, p), c)
                    /\ Moderated(d, Deleting(d, p), c)
    BY DEF Turn
<1>1. CASE p \in d.table
  <2>1. Moderated(d, TogglePinned(d, p), c) /\ Moderated(d, ToggleClosed(d, p), c)
      BY <1>1, TogglePinnedOk, ToggleClosedOk
  <2>2. Moderated(d, Delete(d, p), c)
      BY <1>1, DeleteOk
  <2> QED
      BY ONLY <1>1, <2>1, <2>2, Zenon DEF Pinning, Closing, Deleting
<1>2. CASE p \notin d.table
  <2>1. Moderated(d, d, c)
      BY Unmoderated
  <2> QED
      BY ONLY <1>2, <2>1, Zenon DEF Pinning, Closing, Deleting
<1> QED
    BY <1>1, <1>2

LEMMA AllTurns ==
    ASSUME NEW c, NEW d, BoardOk(d, c), d.crashed = FALSE, NEW m \in Nat, NEW f, f[0] = d,
           \A k \in 1..m : Turn(f[k - 1], f[k], c)
    PROVE  Moderated(d, f[m], c)
<1>1. PICK S : S = {k \in Nat : k <= m => Moderated(d, f[k], c)}
    OBVIOUS
<1>2. S \subseteq Nat /\ 0 \in S
    BY <1>1, Unmoderated
<1>3. ASSUME NEW k \in S PROVE k + 1 \in S
  <2>1. k \in Nat
      BY <1>1
  <2>2. SUFFICES ASSUME k + 1 <= m PROVE Moderated(d, f[k + 1], c)
      BY <1>1, <2>1
  <2>3. Moderated(d, f[k], c)
      BY <1>1, <2>1, <2>2
  <2>4. k + 1 \in 1..m /\ (k + 1) - 1 = k
      BY <2>1, <2>2
  <2>5. Turn(f[k], f[k + 1], c)
      BY <2>4
  <2>6. BoardOk(f[k], c) /\ f[k].crashed = FALSE
      BY <2>3 DEF Moderated
  <2>7. Moderated(f[k], f[k + 1], c)
      BY ONLY <2>5, <2>6 DEF Turn
  <2>8. d.count \in Nat /\ f[k].count \in Nat /\ f[k + 1].count \in Nat
    <3>1. BoardOk(f[k + 1], c)
        BY ONLY <2>7 DEF Moderated
    <3> QED
        BY <2>6, <3>1, Counts
  <2> QED
      BY ONLY <2>3, <2>7, <2>8, ModeratedTwice
<1>4. S = Nat
    BY ONLY <1>2, <1>3, Induction, Zenon
<1> QED
    BY <1>1, <1>4

\* A request that names the posts q.
LEMMA RequestOk ==
    ASSUME NEW d, NEW c, BoardOk(d, c), d.crashed = FALSE, 1..c \subseteq Post,
           NEW q, NEW m \in Nat, DOMAIN q = 1..m, m = Len(q)
    PROVE  /\ Moderated(d, FoldLeft(Pinning, d, q), c) /\ Moderated(d, FoldLeft(Closing, d, q), c)
           /\ Moderated(d, FoldLeft(Deleting, d, q), c)
<1>0. DOMAIN q = 1..Len(q) /\ Len(q) \in Nat
    OBVIOUS
<1>1. PICK v, w, x : /\ v = FoldLeft(Pinning, d, q) /\ w = FoldLeft(Closing, d, q)
                     /\ x = FoldLeft(Deleting, d, q)
    OBVIOUS
<1>2. Moderated(d, v, c)
  <2>1. v = PinFold!FoldLeft(Pinning, d, q)
      BY ONLY <1>1, Zenon DEF FoldLeft, PinFold!FoldLeft, MapThenFoldSet,
                              PinFold!MapThenFoldSet, Max, PinFold!Max
  <2>2. \E f : /\ f[0] = d
               /\ \A k \in 1..Len(q) : f[k] = Pinning(f[k - 1], q[k])
               /\ PinFold!FoldLeft(Pinning, d, q) = f[Len(q)]
      BY ONLY <1>0, PinFold!Steps, ZenonT(60)
  <2>3. PICK f : /\ f[0] = d
                 /\ \A k \in 1..Len(q) : f[k] = Pinning(f[k - 1], q[k])
                 /\ v = f[Len(q)]
      BY ONLY <2>1, <2>2, Zenon
  <2>4. \A k \in 1..m : Turn(f[k - 1], f[k], c)
      BY <2>3, Turns
  <2>5. Moderated(d, f[m], c)
      BY ONLY BoardOk(d, c), d.crashed = FALSE, m \in Nat, <2>3, <2>4, AllTurns
  <2> QED
      BY ONLY <2>3, <2>5, m = Len(q), Zenon
<1>3. Moderated(d, w, c)
  <2>1. w = CloseFold!FoldLeft(Closing, d, q)
      BY ONLY <1>1, Zenon DEF FoldLeft, CloseFold!FoldLeft, MapThenFoldSet,
                              CloseFold!MapThenFoldSet, Max, CloseFold!Max
  <2>2. \E f : /\ f[0] = d
               /\ \A k \in 1..Len(q) : f[k] = Closing(f[k - 1], q[k])
               /\ CloseFold!FoldLeft(Closing, d, q) = f[Len(q)]
      BY ONLY <1>0, CloseFold!Steps, ZenonT(60)
  <2>3. PICK f : /\ f[0] = d
                 /\ \A k \in 1..Len(q) : f[k] = Closing(f[k - 1], q[k])
                 /\ w = f[Len(q)]
      BY ONLY <2>1, <2>2, Zenon
  <2>4. \A k \in 1..m : Turn(f[k - 1], f[k], c)
      BY <2>3, Turns
  <2>5. Moderated(d, f[m], c)
      BY ONLY BoardOk(d, c), d.crashed = FALSE, m \in Nat, <2>3, <2>4, AllTurns
  <2> QED
      BY ONLY <2>3, <2>5, m = Len(q), Zenon
<1>4. Moderated(d, x, c)
  <2>1. x = DeleteFold!FoldLeft(Deleting, d, q)
      BY ONLY <1>1, Zenon DEF FoldLeft, DeleteFold!FoldLeft, MapThenFoldSet,
                              DeleteFold!MapThenFoldSet, Max, DeleteFold!Max
  <2>2. \E f : /\ f[0] = d
               /\ \A k \in 1..Len(q) : f[k] = Deleting(f[k - 1], q[k])
               /\ DeleteFold!FoldLeft(Deleting, d, q) = f[Len(q)]
      BY ONLY <1>0, DeleteFold!Steps, ZenonT(60)
  <2>3. PICK f : /\ f[0] = d
                 /\ \A k \in 1..Len(q) : f[k] = Deleting(f[k - 1], q[k])
                 /\ x = f[Len(q)]
      BY ONLY <2>1, <2>2, Zenon
  <2>4. \A k \in 1..m : Turn(f[k - 1], f[k], c)
      BY <2>3, Turns
  <2>5. Moderated(d, f[m], c)
      BY ONLY BoardOk(d, c), d.crashed = FALSE, m \in Nat, <2>3, <2>4, AllTurns
  <2> QED
      BY ONLY <2>3, <2>5, m = Len(q), Zenon
<1> QED
    BY ONLY <1>1, <1>2, <1>3, <1>4, Zenon

-----------------------------------------------------------------------------
(* Reports. *)

ReportFold == INSTANCE Folding WITH Op <- Report

\* The list of reports w is right for board d, on which c posts have been made.
ReportsOk(d, c, w) ==
    /\ w.reported \subseteq 1..c /\ w.counter \in Nat
    /\ \A r \in w.reports : /\ r \in [id : 1..w.counter, post : Post, thread : Post]
                            /\ r.post \in w.reported
                            /\ r.post \in d.table => r.thread = d.of[r.post]
    /\ \A r, q \in w.reports : r.post = q.post => r = q

\* The posts there were stay in their threads: their reports stay right.
LEMMA ReportsKept ==
    ASSUME NEW d, NEW e, NEW c \in Nat, NEW c2 \in Nat, c <= c2, NEW w, ReportsOk(d, c, w),
           BoardOk(d, c), BoardOk(e, c2), Kept(d, e, c)
    PROVE  ReportsOk(e, c2, w)
<1>1. /\ d.table = {q \in Post : d.of[q] # Nil} /\ e.table = {q \in Post : e.of[q] # Nil}
    BY DEF BoardOk, Index
<1>2. w.reported \subseteq 1..c2
    BY DEF ReportsOk
<1>3. ASSUME NEW r \in w.reports, r.post \in e.table
      PROVE  r.thread = e.of[r.post]
  <2>1. r.post \in 1..c /\ r.post \in Post /\ e.of[r.post] # Nil
      BY <1>1, <1>3 DEF ReportsOk
  <2>2. e.of[r.post] = d.of[r.post]
      BY <2>1 DEF Kept
  <2>3. r.post \in d.table
      BY <1>1, <2>1, <2>2
  <2> QED
      BY <2>2, <2>3 DEF ReportsOk
<1> QED
    BY <1>2, <1>3 DEF ReportsOk

\* A post is reported.
LEMMA ReportOk ==
    ASSUME NEW c \in Nat, 1..c \subseteq Post, BoardOk(db, c), NEW w, ReportsOk(db, c, w), NEW p
    PROVE  ReportsOk(db, c, Report(w, p))
<1>1. CASE p \notin db.table \/ p \in w.reported
  <2>1. Report(w, p) = w
      BY ONLY <1>1, Zenon DEF Report
  <2> QED
      BY <2>1
<1>2. CASE p \in db.table /\ p \notin w.reported
  <2>1. PICK t, k, r : /\ t = db.posts[db.of[p]].first /\ k = w.counter + 1
                       /\ r = [id |-> k, post |-> p, thread |-> t]
      OBVIOUS
  <2>2. PICK v : v = [reported |-> w.reported \cup {p}, counter |-> k, reports |-> w.reports \cup {r}]
      OBVIOUS
  <2>3. Report(w, p) = v
      BY ONLY <1>2, <2>1, <2>2, Zenon DEF Report
  <2>4. p \in Post /\ db.of[p] \in Live(db) /\ db.of[p] # Nil
      BY <1>2, Counts
  <2>5. t = db.of[p]
    <3>1. OwnPosts(db, db.of[p])
        BY <2>4 DEF BoardOk, Lists
    <3>2. PICK s, n : Ends(db.posts[db.of[p]], s, n) /\ n # 0 /\ s[1] = db.of[p]
        BY <3>1 DEF OwnPosts, Posts
    <3> QED
        BY <2>1, <3>2, EndsLinked
  <2>6. t \in Post /\ p \in 1..c
    <3>1. Index(db, c)
        BY DEF BoardOk
    <3>2. db.of[p] \in Post /\ p <= c
        BY <2>4, <3>1, Counts DEF Index
    <3>3. p \in Nat /\ p >= 1
        BY <2>4, ThreadsAssumption DEF Post
    <3> QED
        BY <2>5, <3>2, <3>3
  <2>7. w.counter \in Nat /\ k \in Nat /\ w.counter <= k /\ k \in 1..k
      BY <2>1 DEF ReportsOk
  <2>8. r \in [id : 1..k, post : Post, thread : Post]
      BY ONLY <2>1, <2>4, <2>6, <2>7
  <2>9. \A q \in w.reports : q \in [id : 1..k, post : Post, thread : Post]
    <3>1. 1..w.counter \subseteq 1..k
        BY <2>7
    <3>2. \A q \in w.reports : q \in [id : 1..w.counter, post : Post, thread : Post]
        BY DEF ReportsOk
    <3> QED
        BY ONLY <3>1, <3>2
  <2>10. v.reported = w.reported \cup {p} /\ v.counter = k /\ v.reports = w.reports \cup {r}
      BY ONLY <2>2
  <2>11. r.post = p /\ r.thread = db.of[p]
      BY ONLY <2>1, <2>5
  <2>12. /\ w.reported \subseteq 1..c
         /\ \A q \in w.reports : q.post \in w.reported /\ (q.post \in db.table => q.thread = db.of[q.post])
         /\ \A q, h \in w.reports : q.post = h.post => q = h
      BY DEF ReportsOk
  <2>13. ReportsOk(db, c, v)
    <3>1. v.reported \subseteq 1..c /\ v.counter \in Nat
        BY ONLY <2>6, <2>7, <2>10, <2>12
    <3>2. \A q \in v.reports : q \in [id : 1..v.counter, post : Post, thread : Post]
        BY ONLY <2>8, <2>9, <2>10
    <3>3. \A q \in v.reports : q.post \in v.reported /\ (q.post \in db.table => q.thread = db.of[q.post])
        BY ONLY <2>10, <2>11, <2>12
    <3>4. \A q, h \in v.reports : q.post = h.post => q = h
        BY ONLY <1>2, <2>10, <2>11, <2>12
    <3> QED
        BY ONLY <3>1, <3>2, <3>3, <3>4 DEF ReportsOk
  <2> QED
      BY <2>3, <2>13
<1> QED
    BY <1>1, <1>2

\* A request reports the posts q.
LEMMA AllReported ==
    ASSUME NEW c \in Nat, 1..c \subseteq Post, BoardOk(db, c), NEW w, ReportsOk(db, c, w),
           NEW q, NEW m \in Nat, DOMAIN q = 1..m, m = Len(q)
    PROVE  ReportsOk(db, c, FoldLeft(Report, w, q))
<1>1. PICK v : v = FoldLeft(Report, w, q)
    OBVIOUS
<1>2. v = ReportFold!FoldLeft(Report, w, q)
    BY ONLY <1>1, Zenon DEF FoldLeft, ReportFold!FoldLeft, MapThenFoldSet,
                            ReportFold!MapThenFoldSet, Max, ReportFold!Max
<1>3. DOMAIN q = 1..Len(q) /\ Len(q) \in Nat
    OBVIOUS
<1>4. \E f : /\ f[0] = w
             /\ \A k \in 1..Len(q) : f[k] = Report(f[k - 1], q[k])
             /\ ReportFold!FoldLeft(Report, w, q) = f[Len(q)]
    BY ONLY <1>3, ReportFold!Steps, ZenonT(60)
<1>5. PICK f : /\ f[0] = w
               /\ \A k \in 1..Len(q) : f[k] = Report(f[k - 1], q[k])
               /\ v = f[Len(q)]
    BY ONLY <1>2, <1>4, Zenon
<1>6. PICK S : S = {k \in Nat : k <= m => ReportsOk(db, c, f[k])}
    OBVIOUS
<1>7. S \subseteq Nat /\ 0 \in S
    BY <1>5, <1>6
<1>8. ASSUME NEW k \in S PROVE k + 1 \in S
  <2>1. k \in Nat
      BY <1>6
  <2>2. SUFFICES ASSUME k + 1 <= m PROVE ReportsOk(db, c, f[k + 1])
      BY <1>6, <2>1
  <2>3. ReportsOk(db, c, f[k])
      BY <1>6, <2>1, <2>2
  <2>4. k + 1 \in 1..Len(q) /\ (k + 1) - 1 = k
      BY <2>1, <2>2
  <2>5. f[k + 1] = Report(f[k], q[k + 1])
    <3>1. f[k + 1] = Report(f[(k + 1) - 1], q[k + 1])
        BY ONLY <1>5, <2>4, Zenon
    <3> QED
        BY ONLY <2>4, <3>1, Zenon
  <2> QED
      BY <2>3, <2>5, ReportOk
<1>9. S = Nat
    BY ONLY <1>7, <1>8, Induction, Zenon
<1>10. ReportsOk(db, c, f[m])
    BY <1>6, <1>9
<1> QED
    BY ONLY <1>1, <1>5, <1>10, m = Len(q), Zenon

-----------------------------------------------------------------------------
(* The inductive invariant and its steps. *)

\* The list of reports, as ReportAll works on it.
Listed == [reported |-> reported, reports |-> reports, counter |-> reportCounter]

\* The inductive invariant, of a board, the number of its posts, and the reports.
Good(d, c, w) ==
    /\ c \in 0..MaxPosts /\ BoardOk(d, c) /\ d.crashed \in BOOLEAN /\ d.count <= MaxThreads
    /\ d.crashed => d.count = MaxThreads /\ \A t \in Live(d) : d.info[t].pinned
    /\ ReportsOk(d, c, w)

LEMMA Bounds ==
    /\ MaxPosts \in Nat /\ MaxThreads \in Nat /\ Nil \notin Post
    /\ \A c \in 0..MaxPosts : c \in Nat /\ 1..c \subseteq Post
    /\ \A c \in 0..MaxPosts : c < MaxPosts => c + 1 \in Post /\ c + 1 \in 0..MaxPosts
BY ThreadsAssumption DEF Post

\* db_init
LEMMA InitGood ==
    ASSUME ThreadInit
    PROVE  Good(db, counter, Listed)
<1>1. PICK l, in, po, of, no : /\ l = EmptyList /\ in = [t \in {} |-> NewInfo] /\ no = FALSE
                               /\ po = [t \in {} |-> EmptyList] /\ of = [p \in Post |-> Nil]
    OBVIOUS
<1>2. db = Board(l, 0, in, po, of, {}, no, no)
    BY <1>1 DEF ThreadInit, Board
<1>3. /\ db.threads = l /\ db.count = 0 /\ db.info = in /\ db.posts = po
      /\ db.of = of /\ db.table = {} /\ db.crashed = no /\ db.reordered = no /\ Shape(db)
    BY ONLY <1>2, BoardIs
<1>4. Nodes(l) = {} /\ Live(db) = {}
    BY <1>1, <1>3 DEF Live, Nodes, EmptyList
<1>5. \E s : Ends(l, s, 0)
  <2>1. PICK s : s = [i \in 1..0 |-> Nil]
      OBVIOUS
  <2>2. l \in [first : {Nil}, last : {Nil}, next : [{} -> {Nil}], prev : [{} -> {Nil}]]
      BY <1>1 DEF EmptyList
  <2>3. l.first = Nil /\ l.last = Nil
      BY <1>1 DEF EmptyList
  <2>4. s \in [1..0 -> {}]
      BY <2>1
  <2> QED
      BY <1>4, <2>2, <2>3, <2>4 DEF Ends, Holds
<1>6. Ranking(db)
  <2>1. PICK s : Ends(l, s, 0)
      BY <1>5
  <2>2. Ranked(db.info, s, 0, db.reordered)
      BY DEF Ranked
  <2>3. Ends(db.threads, s, 0) /\ 0 = db.count
      BY ONLY <1>3, <2>1, Zenon
  <2> QED
      BY ONLY <2>2, <2>3, Zenon DEF Ranking
<1>7. Infos(db, 0) /\ Lists(db)
    BY <1>1, <1>3, <1>4 DEF Infos, Lists
<1>8. Index(db, 0)
    BY <1>1, <1>3, <1>4 DEF Index
<1>9. BoardOk(db, 0) /\ db.crashed = FALSE
    BY <1>1, <1>3, <1>6, <1>7, <1>8 DEF BoardOk
<1>10. counter = 0 /\ reported = {} /\ reports = {} /\ reportCounter = 0
    BY DEF ThreadInit
<1>11. ReportsOk(db, counter, Listed)
    BY <1>10 DEF ReportsOk, Listed
<1>12. counter \in 0..MaxPosts /\ 0 <= MaxThreads
    BY <1>10, Bounds
<1>13. BoardOk(db, counter) /\ db.crashed = FALSE /\ db.count <= MaxThreads
    BY ONLY <1>3, <1>9, <1>10, <1>12
<1> QED
    BY ONLY <1>11, <1>12, <1>13 DEF Good

\* A new thread crashes before it is complete only on a board that is full of pinned
\* threads; else only the oldest of the others can go.
LEMMA NewThreadGood ==
    ASSUME Good(db, counter, Listed), NEW pin \in BOOLEAN, NEW close \in BOOLEAN,
           NewThread(pin, close)
    PROVE  Good(db', counter', Listed') /\ OldestGone(db, db')
<1>1. /\ counter \in 0..MaxPosts /\ BoardOk(db, counter) /\ db.crashed \in BOOLEAN
      /\ db.count <= MaxThreads /\ ReportsOk(db, counter, Listed)
    BY DEF Good
<1>2. db.crashed = FALSE /\ counter < MaxPosts
    BY <1>1 DEF NewThread, Running
<1>3. counter \in Nat /\ counter + 1 \in Post /\ Nil \notin Post /\ MaxThreads \in Nat
      /\ counter + 1 \in 0..MaxPosts /\ counter <= counter + 1 /\ counter + 1 \in Nat
    BY <1>1, <1>2, Bounds
<1>4. PICK p, d : p = counter + 1 /\ d = Pruned(Started(db, p))
    OBVIOUS
<1>5. /\ db' = IF d.crashed THEN [db EXCEPT !.crashed = TRUE] ELSE AddPost(d, p, p, pin, close)
      /\ counter' = IF d.crashed THEN counter ELSE p
      /\ reported' = reported /\ reports' = reports /\ reportCounter' = reportCounter
    BY <1>4 DEF NewThread
<1>6. Listed' = Listed
    BY <1>5 DEF Listed
<1>7. \/ d.crashed = TRUE /\ db.count = MaxThreads /\ \A t \in Live(db) : db.info[t].pinned
      \/ Ready(db, d, counter, p) /\ d.count <= MaxThreads /\ OldestGone(db, d)
    BY ONLY <1>1, <1>2, <1>3, <1>4, NewThreadOk
<1>8. CASE d.crashed = TRUE /\ db.count = MaxThreads /\ \A t \in Live(db) : db.info[t].pinned
  <2>1. PICK yes : yes = TRUE
      OBVIOUS
  <2>2. db' = [db EXCEPT !.crashed = yes] /\ counter' = counter
      BY ONLY <1>5, <1>8, <2>1, Zenon
  <2>3. db = Board(db.threads, db.count, db.info, db.posts, db.of, db.table, db.crashed, db.reordered)
      BY <1>1 DEF BoardOk, Shape
  <2>4. db' = Board(db.threads, db.count, db.info, db.posts, db.of, db.table, yes, db.reordered)
      BY ONLY <2>2, <2>3 DEF Board
  <2>5. /\ db'.threads = db.threads /\ db'.count = db.count /\ db'.info = db.info
        /\ db'.posts = db.posts /\ db'.of = db.of /\ db'.table = db.table
        /\ db'.crashed = yes /\ db'.reordered = db.reordered /\ Shape(db')
      BY ONLY <2>4, BoardIs
  <2>6. Live(db') = Live(db)
      BY <2>5 DEF Live
  <2>7. BoardOk(db', counter)
    <3>1. Ranking(db')
        BY ONLY <1>1, <2>5, Zenon DEF BoardOk, Ranking
    <3>2. Infos(db', counter)
        BY ONLY <1>1, <2>5, <2>6 DEF BoardOk, Infos
    <3>3. Lists(db')
        BY ONLY <1>1, <2>5, <2>6, Zenon DEF BoardOk, Lists, OwnPosts
    <3>4. Index(db', counter)
        BY ONLY <1>1, <2>5, <2>6, Zenon DEF BoardOk, Index
    <3> QED
        BY ONLY <1>1, <2>5, <3>1, <3>2, <3>3, <3>4 DEF BoardOk
  <2>8. ReportsOk(db', counter, Listed)
      BY ONLY <1>1, <2>5, Zenon DEF ReportsOk
  <2>9. db'.count = MaxThreads /\ \A t \in Live(db') : db'.info[t].pinned
      BY ONLY <1>8, <2>5, <2>6
  <2>10. Good(db', counter, Listed)
      BY ONLY <1>1, <2>1, <2>5, <2>7, <2>8, <2>9 DEF Good
  <2>11. OldestGone(db, db')
      BY ONLY <2>6 DEF OldestGone
  <2> QED
      BY ONLY <1>6, <2>2, <2>10, <2>11, Zenon
<1>9. CASE Ready(db, d, counter, p) /\ d.count <= MaxThreads /\ OldestGone(db, d)
  <2>1. d.crashed = FALSE
      BY <1>9 DEF Ready
  <2>2. PICK a : a = AddPost(d, p, p, pin, close)
      OBVIOUS
  <2>3. db' = a /\ counter' = p
      BY ONLY <1>5, <2>1, <2>2, Zenon
  <2>4. /\ BoardOk(a, p) /\ Live(a) = Live(d) /\ a.count = d.count
        /\ a.crashed = FALSE /\ Kept(db, a, counter)
    <3>1. Ready(db, d, counter, counter + 1) /\ a = AddPost(d, counter + 1, counter + 1, pin, close)
        BY ONLY <1>4, <1>9, <2>2, Zenon
    <3>2. /\ counter \in Nat /\ counter + 1 \in Post /\ Nil \notin Post /\ BoardOk(db, counter)
          /\ pin \in BOOLEAN /\ close \in BOOLEAN
        BY <1>1, <1>3
    <3>3. Posted(db, d, a, counter)
        BY ONLY <1>2, <3>1, <3>2, ReadyOk
    <3> QED
        BY ONLY <1>2, <1>4, <3>3 DEF Posted
  <2>5. ReportsOk(a, p, Listed)
    <3>1. p \in Nat /\ counter <= p /\ counter \in Nat
        BY <1>3, <1>4
    <3> QED
        BY ONLY <1>1, <2>4, <3>1, ReportsKept
  <2>6. Good(a, p, Listed)
      BY ONLY <1>3, <1>4, <1>9, <2>4, <2>5 DEF Good
  <2>7. OldestGone(db, a)
      BY ONLY <1>9, <2>4 DEF OldestGone
  <2> QED
      BY ONLY <1>6, <2>3, <2>6, <2>7, Zenon
<1> QED
    BY <1>7, <1>8, <1>9

\* A reply.
LEMMA ReplyGood ==
    ASSUME Good(db, counter, Listed), NEW t, NEW sage \in BOOLEAN, NEW asMod \in BOOLEAN,
           NEW pin \in BOOLEAN, NEW close \in BOOLEAN, Reply(t, sage, asMod, pin, close)
    PROVE  Good(db', counter', Listed') /\ Live(db') = Live(db)
<1>1. /\ counter \in 0..MaxPosts /\ BoardOk(db, counter) /\ db.crashed \in BOOLEAN
      /\ db.count <= MaxThreads /\ ReportsOk(db, counter, Listed)
    BY DEF Good
<1>2. db.crashed = FALSE /\ counter < MaxPosts /\ t \in Live(db)
    BY <1>1 DEF Reply, Running
<1>3. counter \in Nat /\ counter + 1 \in Post /\ Nil \notin Post
      /\ counter + 1 \in 0..MaxPosts /\ counter <= counter + 1 /\ counter + 1 \in Nat
    BY <1>1, <1>2, Bounds
<1> DEFINE bump == ~sage /\ ~db.info[t].saged
<1>4. bump \in BOOLEAN
    OBVIOUS
<1>5. db' = Replied(db, t, counter + 1, bump, pin, close)
    BY ONLY Reply(t, sage, asMod, pin, close), Zenon DEF Reply, Replied
<1> HIDE DEF bump
<1>6. PICK e : e = Replied(db, t, counter + 1, bump, pin, close)
    OBVIOUS
<1>7. counter' = counter + 1 /\ Listed' = Listed /\ db' = e
    BY <1>5, <1>6 DEF Reply, Listed
<1>8. Posted(db, db, e, counter)
    BY ONLY <1>1, <1>2, <1>3, <1>4, <1>6, pin \in BOOLEAN, close \in BOOLEAN, ReplyOk
<1>9. /\ BoardOk(e, counter + 1) /\ Live(e) = Live(db) /\ e.count = db.count
      /\ e.crashed = db.crashed /\ Kept(db, e, counter)
    BY ONLY <1>8 DEF Posted
<1>10. ReportsOk(e, counter + 1, Listed)
    BY ONLY <1>1, <1>3, <1>9, ReportsKept
<1>11. Good(e, counter + 1, Listed)
    BY ONLY <1>1, <1>2, <1>3, <1>9, <1>10 DEF Good
<1> QED
    BY ONLY <1>7, <1>9, <1>11, Zenon

\* A request names posts that there were.
LEMMA Selected ==
    ASSUME NEW posts \in Selections
    PROVE  Len(posts) \in Nat /\ DOMAIN posts = 1..Len(posts)
<1>1. PICK n \in 1..MaxSelected : posts \in [1..n -> 1..counter]
    BY DEF Selections
<1>2. n \in Nat
    BY ThreadsAssumption
<1> QED
    BY <1>1, <1>2

\* The board after a moderator's request.
LEMMA ActGood ==
    ASSUME Good(db, counter, Listed), ~db.crashed, NEW posts \in Selections, NEW action,
           Act(action, posts)
    PROVE  Good(db', counter, Listed)
<1>1. /\ counter \in 0..MaxPosts /\ BoardOk(db, counter) /\ db.crashed = FALSE
      /\ db.count <= MaxThreads /\ ReportsOk(db, counter, Listed)
    BY DEF Good
<1>2. counter \in Nat /\ 1..counter \subseteq Post /\ counter <= counter /\ MaxThreads \in Nat
    BY <1>1, Bounds
<1>3. Len(posts) \in Nat /\ DOMAIN posts = 1..Len(posts)
    BY Selected
<1>4. PICK m : m = Len(posts) /\ m \in Nat /\ DOMAIN posts = 1..m
    BY <1>3
<1>5. /\ Moderated(db, FoldLeft(Pinning, db, posts), counter)
      /\ Moderated(db, FoldLeft(Closing, db, posts), counter)
      /\ Moderated(db, FoldLeft(Deleting, db, posts), counter)
    BY ONLY <1>1, <1>2, <1>4, RequestOk
<1>6. Moderated(db, db, counter)
    BY <1>1, Unmoderated
<1>7. Moderated(db, db', counter)
    BY ONLY <1>5, <1>6, Act(action, posts), Zenon DEF Act
<1>8. PICK e : e = db' /\ Moderated(db, e, counter)
    BY <1>7
<1>9. /\ BoardOk(e, counter) /\ e.crashed = FALSE /\ e.count <= db.count /\ Kept(db, e, counter)
    BY <1>1, <1>8 DEF Moderated
<1>10. ReportsOk(e, counter, Listed)
    BY ONLY <1>1, <1>2, <1>9, ReportsKept
<1>11. e.count <= MaxThreads
    BY <1>1, <1>2, <1>9, Counts
<1>12. Good(e, counter, Listed)
    BY ONLY <1>1, <1>9, <1>10, <1>11 DEF Good
<1> QED
    BY ONLY <1>8, <1>12, Zenon

\* A request of a moderator.
LEMMA ModerateGood ==
    ASSUME Good(db, counter, Listed), NEW posts \in Selections, NEW action, Moderate(action, posts)
    PROVE  Good(db', counter', Listed')
<1>1. /\ ~db.crashed /\ Act(action, posts) /\ counter' = counter /\ reported' = reported
      /\ reports' = reports /\ reportCounter' = reportCounter
    BY DEF Moderate
<1>2. Good(db', counter, Listed)
    BY <1>1, ActGood
<1>3. Listed' = Listed
    BY <1>1 DEF Listed
<1> QED
    BY ONLY <1>1, <1>2, <1>3, Zenon

\* Reports that go leave the others right.
LEMMA HandleGood ==
    ASSUME Good(db, counter, Listed), NEW posts \in Selections, NEW action, Handle(action, posts)
    PROVE  Good(db', counter', Listed')
<1>1. /\ ~db.crashed /\ Act(action, posts) /\ counter' = counter /\ reported' = reported
      /\ reports' = {r \in reports : r.post \notin ToSet(posts)} /\ reportCounter' = reportCounter
    BY DEF Handle
<1>2. Good(db', counter, Listed)
    BY <1>1, ActGood
<1>3. PICK v, w : v = Listed /\ w = Listed'
    OBVIOUS
<1>4. w.reported = v.reported /\ w.counter = v.counter /\ w.reports \subseteq v.reports
    BY ONLY <1>1, <1>3 DEF Listed
<1>5. ReportsOk(db', counter, v)
    BY ONLY <1>2, <1>3, Zenon DEF Good
<1>6. ReportsOk(db', counter, w)
    BY ONLY <1>4, <1>5 DEF ReportsOk
<1>7. Good(db', counter, w)
    BY ONLY <1>2, <1>6, Zenon DEF Good
<1> QED
    BY ONLY <1>1, <1>3, <1>7, Zenon

\* Posts are reported.
LEMMA ReportAllGood ==
    ASSUME Good(db, counter, Listed), NEW posts \in Selections, ReportAll(posts)
    PROVE  Good(db', counter', Listed')
<1>1. PICK v, w : /\ v = Listed /\ w = FoldLeft(Report, v, posts)
    OBVIOUS
<1>2. /\ reported' = w.reported /\ reports' = w.reports /\ reportCounter' = w.counter
      /\ db' = db /\ counter' = counter
    BY ONLY <1>1, ReportAll(posts), Zenon DEF ReportAll, Listed
<1>3. counter \in 0..MaxPosts /\ BoardOk(db, counter) /\ ReportsOk(db, counter, v)
    BY <1>1 DEF Good
<1>4. counter \in Nat /\ 1..counter \subseteq Post
    BY <1>3, Bounds
<1>5. PICK m : m = Len(posts) /\ m \in Nat /\ DOMAIN posts = 1..m
    BY Selected
<1>6. ReportsOk(db, counter, w)
    BY ONLY <1>1, <1>3, <1>4, <1>5, AllReported
<1>7. PICK u : u = Listed'
    OBVIOUS
<1>8. u.reported = w.reported /\ u.reports = w.reports /\ u.counter = w.counter
    BY ONLY <1>2, <1>7 DEF Listed
<1>9. ReportsOk(db, counter, u)
    BY ONLY <1>6, <1>8, Zenon DEF ReportsOk
<1>10. Good(db, counter, u)
    BY ONLY Good(db, counter, Listed), <1>9, Zenon DEF Good
<1> QED
    BY ONLY <1>2, <1>7, <1>10, Zenon

-----------------------------------------------------------------------------
(* The theorems. *)

InOrder == Good(db, counter, Listed)

\* A thread goes while a post is made only as the oldest one.
OnlyOldestGoes == counter # counter' => OldestGone(db, db')

LEMMA InOrderStep ==
    ASSUME InOrder, [ThreadNext]_threadVars
    PROVE  InOrder' /\ OnlyOldestGoes
<1> USE DEF InOrder
<1>1. CASE UNCHANGED threadVars
    BY <1>1 DEF threadVars, Good, Listed, OnlyOldestGoes
<1>2. ASSUME NEW p \in BOOLEAN, NEW c \in BOOLEAN, NewThread(p, c)
      PROVE  InOrder' /\ OnlyOldestGoes
    BY <1>2, NewThreadGood DEF OnlyOldestGoes
<1>3. ASSUME NEW t \in Post, NEW sage \in BOOLEAN, NEW asMod \in BOOLEAN,
             NEW p \in BOOLEAN, NEW c \in BOOLEAN, Reply(t, sage, asMod, p, c)
      PROVE  InOrder' /\ OnlyOldestGoes
  <2>1. Good(db', counter', Listed') /\ Live(db') = Live(db)
      BY <1>3, ReplyGood
  <2>2. OldestGone(db, db')
      BY ONLY <2>1 DEF OldestGone
  <2> QED
      BY ONLY <2>1, <2>2, Zenon DEF OnlyOldestGoes, InOrder
<1>4. ASSUME NEW posts \in Selections, ReportAll(posts)
      PROVE  InOrder' /\ OnlyOldestGoes
    BY <1>4, ReportAllGood DEF ReportAll, OnlyOldestGoes
<1>5. ASSUME NEW posts \in Selections, NEW action, Moderate(action, posts)
      PROVE  InOrder' /\ OnlyOldestGoes
    BY <1>5, ModerateGood DEF Moderate, OnlyOldestGoes
<1>6. ASSUME NEW posts \in Selections, NEW action, Handle(action, posts)
      PROVE  InOrder' /\ OnlyOldestGoes
    BY <1>6, HandleGood DEF Handle, OnlyOldestGoes
<1> QED
    BY <1>1, <1>2, <1>3, <1>4, <1>5, <1>6 DEF ThreadNext

\* The threads and their posts are in order in every state.
THEOREM BoardInOrder == ThreadSpec => []InOrder
<1>1. ThreadInit => InOrder
    BY InitGood DEF InOrder
<1>2. InOrder /\ [ThreadNext]_threadVars => InOrder'
    BY InOrderStep
<1> QED
    BY <1>1, <1>2, PTL DEF ThreadSpec

LEMMA InOrderTypes ==
    ASSUME InOrder
    PROVE  TypeOK
<1>1. /\ counter \in 0..MaxPosts /\ BoardOk(db, counter) /\ db.crashed \in BOOLEAN
      /\ db.count <= MaxThreads /\ ReportsOk(db, counter, Listed)
    BY DEF InOrder, Good
<1>2. db.count \in Nat /\ counter \in Nat /\ MaxThreads \in Nat /\ 1..counter \subseteq Post
    BY <1>1, Counts, Bounds
<1>3. PICK w : w = Listed
    OBVIOUS
<1>4. w.reported = reported /\ w.reports = reports /\ w.counter = reportCounter
    BY ONLY <1>3 DEF Listed
<1>5. /\ reported \subseteq 1..counter
      /\ reports \subseteq [id : 1..reportCounter, post : Post, thread : Post]
    BY ONLY <1>1, <1>3, <1>4 DEF ReportsOk
<1>6. /\ Live(db) \subseteq 1..counter /\ db.info = [t \in Live(db) |-> db.info[t]]
      /\ \A t \in Live(db) : db.info[t] \in Info(counter)
      /\ DOMAIN db.posts = Live(db) /\ Index(db, counter) /\ db.reordered \in BOOLEAN
    BY <1>1 DEF BoardOk, Infos, Lists
<1>7. db.table \subseteq 1..counter /\ db.of \in [Post -> Ptr]
  <2>1. ASSUME NEW p \in db.table
        PROVE  p \in 1..counter
    <3>1. p \in Post /\ p <= counter
        BY <1>6 DEF Index
    <3> QED
        BY <1>2, <3>1, ThreadsAssumption DEF Post
  <2>2. db.of \in [Post -> Live(db) \cup {Nil}] /\ Live(db) \subseteq Post
      BY <1>2, <1>6 DEF Index
  <2> QED
      BY <2>1, <2>2 DEF Ptr
<1>8. db.info \in [Live(db) -> [count : Nat, pinned : BOOLEAN, closed : BOOLEAN,
                                saged : BOOLEAN, bumped : Post, wasPinned : BOOLEAN]]
  <2>1. \A t \in Live(db) : db.info[t] \in [count : Nat, pinned : BOOLEAN, closed : BOOLEAN,
                                            saged : BOOLEAN, bumped : Post, wasPinned : BOOLEAN]
      BY <1>2, <1>6 DEF Info
  <2> QED
      BY ONLY <1>6, <2>1
<1> QED
    BY <1>1, <1>2, <1>5, <1>6, <1>7, <1>8 DEF TypeOK

\* The board's list of threads is what thread_count and the pointers say.
LEMMA InOrderThreads ==
    ASSUME InOrder
    PROVE  ThreadsLinked
<1>1. PICK s, n : Ends(db.threads, s, n) /\ n = db.count
    BY DEF InOrder, Good, BoardOk, Ranking
<1>2. LinkedUp(db.threads, db.count)
    BY <1>1, EndsLinked
<1> QED
    BY <1>2, InOrderTypes DEF ThreadsLinked

LEMMA InOrderPosts ==
    ASSUME InOrder
    PROVE  PostsLinked
<1>1. BoardOk(db, counter) /\ ReportsOk(db, counter, Listed)
    BY DEF InOrder, Good
<1>2. \A t \in Live(db) : OwnPosts(db, t)
    BY <1>1 DEF BoardOk, Lists
<1>3. ASSUME NEW t \in Live(db)
      PROVE  /\ LinkedUp(db.posts[t], db.info[t].count) /\ db.posts[t].first = t
             /\ Nodes(db.posts[t]) = {p \in Post : db.of[p] = t}
  <2>1. PICK s, n : Ends(db.posts[t], s, n) /\ n = db.info[t].count /\ n # 0 /\ s[1] = t
      BY <1>2 DEF OwnPosts, Posts
  <2>2. LinkedUp(db.posts[t], db.info[t].count) /\ db.posts[t].first = t
      BY <2>1, EndsLinked
  <2> QED
      BY <1>2, <2>2 DEF OwnPosts, Posts
<1>4. db.table = UNION {Nodes(db.posts[t]) : t \in Live(db)}
  <2>1. /\ db.of \in [Post -> Live(db) \cup {Nil}] /\ db.table = {p \in Post : db.of[p] # Nil}
        /\ Nil \notin Live(db)
      BY <1>1, Counts DEF BoardOk, Index
  <2> QED
      BY <1>3, <2>1
<1>5. Reported
  <2>1. PICK w : w = Listed
      OBVIOUS
  <2>2. w.reports = reports
      BY ONLY <2>1 DEF Listed
  <2> QED
      BY ONLY <1>1, <2>1, <2>2 DEF ReportsOk, Reported
<1> QED
    BY <1>3, <1>4, <1>5 DEF PostsLinked

LEMMA InOrderSorted ==
    ASSUME InOrder
    PROVE  Sorted /\ PinnedFirst
<1>1. PICK s, n : Ends(db.threads, s, n) /\ Ranked(db.info, s, n, db.reordered)
    BY DEF InOrder, Good, BoardOk, Ranking
<1>2. PICK order : order = Order(db.threads)
    OBVIOUS
<1>3. order = s /\ DOMAIN order = 1..n
  <2>1. Holds(db.threads, s, n)
      BY <1>1 DEF Ends
  <2> QED
      BY <1>2, <2>1, OrderIs
<1>4. /\ \A i, j \in DOMAIN order : i < j => 
            /\ ~db.info[order[i]].wasPinned /\ ~db.info[order[j]].wasPinned
                  => db.info[order[i]].bumped > db.info[order[j]].bumped
            /\ ~db.reordered /\ db.info[order[j]].pinned => db.info[order[i]].pinned
    BY ONLY <1>1, <1>3 DEF Ranked
<1>5. Sorted
    BY ONLY <1>2, <1>4 DEF Sorted
<1>6. PinnedFirst
    BY ONLY <1>2, <1>4 DEF PinnedFirst
<1> QED
    BY <1>5, <1>6

\* thread_count, the pointers of the list and its end agree (bump_thread, delete_thread).
THEOREM ThreadsStayLinked == ThreadSpec => []ThreadsLinked
<1>1. InOrder => ThreadsLinked
    BY InOrderThreads
<1> QED
    BY <1>1, BoardInOrder, PTL

\* The same for posts, post_tbl and reports (delete_post, mod_page_finish).
THEOREM PostsStayLinked == ThreadSpec => []PostsLinked
<1>1. InOrder => PostsLinked
    BY InOrderPosts
<1> QED
    BY <1>1, BoardInOrder, PTL

\* bump_thread keeps the order in which threads were last bumped.
THEOREM BumpOrderStays == ThreadSpec => []Sorted
<1>1. InOrder => Sorted
    BY InOrderSorted
<1> QED
    BY <1>1, BoardInOrder, PTL

\* Pinned threads stay first, but for a pin that is changed in place.
THEOREM PinnedStayFirst == ThreadSpec => []PinnedFirst
<1>1. InOrder => PinnedFirst
    BY InOrderSorted
<1> QED
    BY <1>1, BoardInOrder, PTL

\* "Prune oldest thread" deletes the new one only on a board full of pinned threads.
THEOREM NewThreadsStay == ThreadSpec => []NewThreadStays
<1>1. InOrder => NewThreadStays
    BY DEF InOrder, Good, NewThreadStays
<1> QED
    BY <1>1, BoardInOrder, PTL

\* "Prune oldest thread" deletes the oldest.
THEOREM OldestIsPruned == ThreadSpec => PrunesOldest
<1>1. InOrder /\ [ThreadNext]_threadVars =>
         [\A t \in Live(db) \ Live(db') :
             counter # counter' /\ ~db.reordered =>
                /\ ~db.info[t].wasPinned
                /\ \A u \in Live(db) : db.info[u].wasPinned
                                          \/ db.info[t].bumped <= db.info[u].bumped]_threadVars
    BY InOrderStep DEF OnlyOldestGoes, OldestGone
<1> QED
    BY <1>1, BoardInOrder, PTL DEF ThreadSpec, PrunesOldest
=============================================================================
