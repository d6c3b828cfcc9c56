---------------------------- MODULE AdminProofs -----------------------------
(***************************************************************************)
(* Proofs about what moderators administrate: the lists of BoardList and   *)
(* Accounts, the bans of Moderation and their index, the flood limit of    *)
(* BanChecks and the prefixes it compares: an inductive invariant of each  *)
(* component, with one lemma for every action.                             *)
(***************************************************************************)
EXTENDS BoardList, Accounts, Moderation, BanChecks, ListProofs, WellFoundedInduction

-----------------------------------------------------------------------------
(* BoardList. *)

\* In a list that is linked on both sides edit_board has nothing to mend.
LEMMA SettleNothing ==
    ASSUME NEW l, NEW s, NEW n, Holds(l, s, n), l.last = s[n], NEW k \in 1..n
    PROVE  Settle(l, s[k]) = l
<1>1. PICK b : b = s[k]
    OBVIOUS
<1>2. n \in Nat /\ b \in Nodes(l) /\ Nil \notin Nodes(l) /\ DOMAIN l.next = Nodes(l)
      /\ l.next \in [Nodes(l) -> Nodes(l) \cup {Nil}] /\ l.prev \in [Nodes(l) -> Nodes(l) \cup {Nil}]
      /\ l = [first |-> l.first, last |-> l.last, next |-> l.next, prev |-> l.prev]
    BY <1>1 DEF Holds, Nodes
<1>3. /\ l.next[b] = IF k = n THEN Nil ELSE s[k + 1]
      /\ l.prev[b] = IF k = 1 THEN Nil ELSE s[k - 1]
      /\ l.next[b] \in Nodes(l) \cup {Nil} /\ l.prev[b] \in Nodes(l) \cup {Nil}
      /\ (l.next[b] = Nil <=> k = n) /\ (l.prev[b] = Nil <=> k = 1)
    BY <1>1, <1>2 DEF Holds
<1>4. l.first = s[1] /\ (b = s[1] <=> k = 1) /\ (b = s[n] <=> k = n)
    BY <1>1, <1>2, SMTT(40) DEF Holds
<1>5. k # n => l.prev[s[k + 1]] = b
    <2>1. k # n => k + 1 \in 1..n /\ k + 1 # 1 /\ (k + 1) - 1 = k
        BY <1>2
    <2> QED
        BY <1>1, <2>1 DEF Holds
<1>6. k # 1 => l.next[s[k - 1]] = b
    <2>1. k # 1 => k - 1 \in 1..n /\ k - 1 # n /\ (k - 1) + 1 = k
        BY <1>2
    <2> QED
        BY <1>1, <2>1 DEF Holds
<1>7. Set(l.prev, l.next[b], b) = l.prev
    BY <1>2, <1>3, <1>5 DEF Set
<1>8. Set(l.next, l.prev[b], b) = l.next
    BY <1>2, <1>3, <1>6 DEF Set
<1>9. Settle(l, b) = [first |-> l.first, last |-> l.last, prev |-> l.prev, next |-> l.next]
    BY <1>3, <1>4, <1>7, <1>8 DEF Settle
<1> QED
    BY <1>1, <1>2, <1>9

\* Set makes a function.
LEMMA SetIsFunction ==
    \A f, x, v : Set(f, x, v) = [y \in DOMAIN Set(f, x, v) |-> Set(f, x, v)[y]]
BY DEF Set

\* "down" of the first board swaps it with the second one.
LEMMA FirstDown ==
    ASSUME NEW l, NEW s, NEW n, Holds(l, s, n), l.last = s[n], n > 1
    PROVE  LET m == Settle(Down(l, s[1]), s[1])
           IN Whole(m) /\ Nodes(m) = Nodes(l)
<1>1. PICK m : m = Settle(Down(l, s[1]), s[1])
    OBVIOUS
<1>2. PICK t : t = [i \in 1..n |-> IF i = 1 THEN s[2] ELSE IF i = 2 THEN s[1] ELSE s[i]]
    OBVIOUS
<1>3. PICK b, y, z : b = s[1] /\ y = s[2] /\ z = l.next[y]
    OBVIOUS
<1>4. n \in Nat /\ b \in Nodes(l) /\ y \in Nodes(l) /\ b # y /\ Nil \notin Nodes(l) /\ DOMAIN l.next = Nodes(l)
      /\ DOMAIN l.prev = Nodes(l)
    BY <1>3 DEF Holds, Nodes
<1>5. /\ l.next[b] = y /\ l.prev[b] = Nil /\ l.first = b
      /\ z = IF n = 2 THEN Nil ELSE s[3]
      /\ z \in Nodes(l) \cup {Nil} /\ z # b /\ z # y
    <2>1. l.next[s[1]] = s[2] /\ l.prev[s[1]] = Nil /\ l.first = s[1]
        BY <1>4 DEF Holds
    <2>2. l.next[s[2]] = IF n = 2 THEN Nil ELSE s[3]
        BY <1>4 DEF Holds
    <2>3. n # 2 => s[3] \in Nodes(l) /\ s[3] # s[1] /\ s[3] # s[2]
        BY <1>4 DEF Holds
    <2> QED
        BY <1>3, <1>4, <2>1, <2>2, <2>3
<1>6. PICK d : d = Down(l, b)
    OBVIOUS
<1>7. d = [first |-> b, last |-> l.last, next |-> Set(l.next, b, z),
           prev |-> Set(Set(l.prev, y, Nil), b, y)]
    <2>1. l = [first |-> l.first, last |-> l.last, next |-> l.next, prev |-> l.prev]
        BY DEF Holds
    <2>2. PICK e, p : e = Set(l.next, b, z) /\ p = Set(Set(l.prev, y, Nil), b, y)
        OBVIOUS
    <2>3. l.next[b] = y /\ y # Nil /\ l.prev[b] = Nil /\ l.next[y] = z
        BY <1>3, <1>4, <1>5
    <2>4. d = [l EXCEPT !.prev = p, !.next = e]
        BY ONLY <1>6, <2>2, <2>3, Zenon DEF Down
    <2>5. l.first = b
        BY <1>3, <1>4, <1>5 DEF Holds
    <2> QED
        BY ONLY <2>1, <2>2, <2>4, <2>5
<1>8. d.next[b] = z /\ d.prev[b] = y
    BY <1>4, <1>7 DEF Set
<1>9. m = [first |-> y, last |-> IF z = Nil THEN b ELSE IF l.last = b THEN z ELSE l.last,
           prev |-> Set(d.prev, z, b), next |-> Set(d.next, y, b)]
    BY <1>1, <1>3, <1>4, <1>6, <1>7, <1>8 DEF Settle
<1>10. Nodes(m) = Nodes(l) /\ DOMAIN m.prev = Nodes(l)
    BY <1>4, <1>5, <1>7, <1>9 DEF Nodes, Set
<1>11. \A x \in Nodes(l) :
          /\ m.next[x] = IF x = y THEN b ELSE IF x = b THEN z ELSE l.next[x]
          /\ m.prev[x] = IF x = z THEN b ELSE IF x = b THEN y ELSE IF x = y THEN Nil ELSE l.prev[x]
    BY <1>4, <1>5, <1>7, <1>9 DEF Set
<1>12. m.last = t[n] /\ t[n] \in Nodes(l)
    <2>1. l.last = s[n] /\ s[n] \in Nodes(l) /\ (n # 2 => s[n] # s[1] /\ s[3] \in Nodes(l))
        BY <1>4 DEF Holds
    <2> QED
        BY <1>2, <1>3, <1>4, <1>5, <1>9, <2>1
<1>13. m \in [first : Nodes(m) \cup {Nil}, last : Nodes(m) \cup {Nil},
              next : [Nodes(m) -> Nodes(m) \cup {Nil}],
              prev : [Nodes(m) -> Nodes(m) \cup {Nil}]]
    <2>1. \A x \in Nodes(l) : l.next[x] \in Nodes(l) \cup {Nil} /\ l.prev[x] \in Nodes(l) \cup {Nil}
        BY DEF Holds
    <2>2. m.next = [x \in Nodes(m) |-> m.next[x]] /\ m.prev = [x \in Nodes(m) |-> m.prev[x]]
        BY <1>9, <1>10, SetIsFunction DEF Nodes
    <2>3. \A x \in Nodes(m) : m.next[x] \in Nodes(m) \cup {Nil} /\ m.prev[x] \in Nodes(m) \cup {Nil}
        BY <1>4, <1>5, <1>10, <1>11, <2>1
    <2> QED
        BY <1>4, <1>9, <1>10, <1>12, <2>2, <2>3
<1>14. t \in [1..n -> Nodes(m)]
    BY <1>2, <1>3, <1>4, <1>10 DEF Holds
<1>15. ASSUME NEW x \in Nodes(m) PROVE \E i \in 1..n : t[i] = x
    <2>1. PICK j \in 1..n : s[j] = x
        BY <1>10 DEF Holds
    <2>2. t[IF j = 1 THEN 2 ELSE IF j = 2 THEN 1 ELSE j] = x /\ (IF j = 1 THEN 2 ELSE IF j = 2 THEN 1 ELSE j) \in 1..n
        BY <1>2, <1>4, <2>1
    <2> QED
        BY <2>2
<1>16. \A i, j \in 1..n : t[i] = t[j] => i = j
    <2>1. \A i, j \in 1..n : s[i] = s[j] => i = j
        BY DEF Holds
    <2> QED
        BY <1>2, <1>4, <2>1
<1>17. ASSUME NEW i \in 1..n
       PROVE  m.next[t[i]] = IF i = n THEN Nil ELSE t[i + 1]
    <2>1. CASE i = 1
        BY <1>2, <1>3, <1>4, <1>11, <2>1
    <2>2. CASE i = 2
        BY <1>2, <1>3, <1>4, <1>5, <1>11, <2>2
    <2>3. CASE i > 2
        <3>1. t[i] = s[i] /\ (i # n => t[i + 1] = s[i + 1])
            BY <1>2, <1>4, <2>3
        <3>2. s[i] \in Nodes(l) /\ s[i] # b /\ s[i] # y
            BY <1>3, <1>4, <2>3 DEF Holds
        <3>3. l.next[s[i]] = IF i = n THEN Nil ELSE s[i + 1]
            BY DEF Holds
        <3> QED
            BY <1>11, <3>1, <3>2, <3>3
    <2> QED
        BY <1>4, <2>1, <2>2, <2>3
<1>18. ASSUME NEW i \in 1..n
       PROVE  m.prev[t[i]] = IF i = 1 THEN Nil ELSE t[i - 1]
    <2>1. CASE i = 1
        BY <1>2, <1>3, <1>4, <1>5, <1>11, <2>1
    <2>2. CASE i = 2
        BY <1>2, <1>3, <1>4, <1>5, <1>11, <2>2
    <2>3. CASE i > 2
        <3>1. t[i] = s[i] /\ t[i - 1] = IF i = 3 THEN b ELSE s[i - 1]
            BY <1>2, <1>3, <1>4, <2>3
        <3>2. s[i] \in Nodes(l) /\ s[i] # b /\ s[i] # y
            BY <1>3, <1>4, <2>3 DEF Holds
        <3>3. l.prev[s[i]] = s[i - 1]
            BY <2>3 DEF Holds
        <3>4. s[i] = z <=> i = 3
            <4>1. i # 3 /\ n # 2 => s[i] # s[3]
                BY <1>4 DEF Holds
            <4> QED
                BY <1>4, <1>5, <2>3, <3>2, <4>1
        <3> QED
            BY <1>11, <2>3, <3>1, <3>2, <3>3, <3>4
    <2> QED
        BY <1>4, <2>1, <2>2, <2>3
<1>19. m.first = t[1]
    BY <1>2, <1>3, <1>4, <1>9
<1>20. Holds(m, t, n)
    BY ONLY <1>4, <1>10, <1>13, <1>14, <1>15, <1>16, <1>17, <1>18, <1>19, n > 1 DEF Holds
<1> QED
    BY <1>1, <1>4, <1>10, <1>12, <1>20 DEF Whole

\* "up" of the last board swaps it with the one before.
LEMMA LastUp ==
    ASSUME NEW l, NEW s, NEW n, Holds(l, s, n), l.last = s[n], n > 1
    PROVE  LET m == Settle(Up(l, s[n]), s[n])
           IN Whole(m) /\ Nodes(m) = Nodes(l)
<1>1. PICK m : m = Settle(Up(l, s[n]), s[n])
    OBVIOUS
<1>2. PICK t : t = [i \in 1..n |-> IF i = n THEN s[n - 1] ELSE IF i = n - 1 THEN s[n] ELSE s[i]]
    OBVIOUS
<1>3. PICK b, y, z : b = s[n] /\ y = s[n - 1] /\ z = l.prev[y]
    OBVIOUS
<1>4. n \in Nat /\ b \in Nodes(l) /\ y \in Nodes(l) /\ b # y /\ Nil \notin Nodes(l) /\ DOMAIN l.next = Nodes(l)
      /\ DOMAIN l.prev = Nodes(l)
    BY <1>3 DEF Holds, Nodes
<1>5. /\ l.prev[b] = y /\ l.next[b] = Nil /\ l.first = s[1]
      /\ z = IF n = 2 THEN Nil ELSE s[n - 2]
      /\ z \in Nodes(l) \cup {Nil} /\ z # b /\ z # y
    <2>1. l.prev[s[n]] = s[n - 1] /\ l.next[s[n]] = Nil /\ l.first = s[1]
        BY <1>4 DEF Holds
    <2>2. l.prev[s[n - 1]] = IF n = 2 THEN Nil ELSE s[n - 2]
        <3>1. n - 1 \in 1..n /\ (n - 1 = 1 <=> n = 2) /\ (n - 1) - 1 = n - 2
            BY <1>4
        <3> QED
            BY <3>1 DEF Holds
    <2>3. n # 2 => s[n - 2] \in Nodes(l) /\ s[n - 2] # s[n] /\ s[n - 2] # s[n - 1]
        BY <1>4 DEF Holds
    <2> QED
        BY <1>3, <1>4, <2>1, <2>2, <2>3
<1>6. PICK d : d = Up(l, b)
    OBVIOUS
<1>7. d = [first |-> l.first, last |-> l.last, next |-> Set(Set(l.next, y, Nil), b, y),
           prev |-> Set(l.prev, b, z)]
    <2>1. l = [first |-> l.first, last |-> l.last, next |-> l.next, prev |-> l.prev]
        BY DEF Holds
    <2>2. d = [l EXCEPT !.next = Set(Set(l.next, y, Nil), b, y), !.prev = Set(l.prev, b, z)]
        BY <1>3, <1>4, <1>5, <1>6 DEF Up
    <2> QED
        BY <2>1, <2>2
<1>8. d.next[b] = y /\ d.prev[b] = z
    BY <1>4, <1>7 DEF Set
<1>9. m = [first |-> IF z = Nil THEN b ELSE IF l.first = b THEN z ELSE l.first, last |-> y,
           prev |-> Set(d.prev, y, b), next |-> Set(d.next, z, b)]
    BY <1>1, <1>3, <1>4, <1>6, <1>7, <1>8 DEF Settle
<1>10. Nodes(m) = Nodes(l) /\ DOMAIN m.prev = Nodes(l)
    BY <1>4, <1>5, <1>7, <1>9 DEF Nodes, Set
<1>11. \A x \in Nodes(l) :
          /\ m.next[x] = IF x = z THEN b ELSE IF x = b THEN y ELSE IF x = y THEN Nil ELSE l.next[x]
          /\ m.prev[x] = IF x = y THEN b ELSE IF x = b THEN z ELSE l.prev[x]
    BY <1>4, <1>5, <1>7, <1>9 DEF Set
<1>12. m.last = t[n] /\ t[n] \in Nodes(l)
    BY <1>2, <1>3, <1>4, <1>9
<1>13. m \in [first : Nodes(m) \cup {Nil}, last : Nodes(m) \cup {Nil},
              next : [Nodes(m) -> Nodes(m) \cup {Nil}],
              prev : [Nodes(m) -> Nodes(m) \cup {Nil}]]
    <2>1. \A x \in Nodes(l) : l.next[x] \in Nodes(l) \cup {Nil} /\ l.prev[x] \in Nodes(l) \cup {Nil}
        BY DEF Holds
    <2>2. m.next = [x \in Nodes(m) |-> m.next[x]] /\ m.prev = [x \in Nodes(m) |-> m.prev[x]]
        BY <1>9, <1>10, SetIsFunction DEF Nodes
    <2>3. \A x \in Nodes(m) : m.next[x] \in Nodes(m) \cup {Nil} /\ m.prev[x] \in Nodes(m) \cup {Nil}
        BY <1>4, <1>5, <1>10, <1>11, <2>1
    <2>4. l.first \in Nodes(l) \cup {Nil}
        BY DEF Holds
    <2> QED
        BY <1>4, <1>5, <1>9, <1>10, <1>12, <2>2, <2>3, <2>4
<1>14. t \in [1..n -> Nodes(m)]
    BY <1>2, <1>3, <1>4, <1>10 DEF Holds
<1>15. ASSUME NEW x \in Nodes(m) PROVE \E i \in 1..n : t[i] = x
    <2>1. PICK j \in 1..n : s[j] = x
        BY <1>10 DEF Holds
    <2>2. t[IF j = n THEN n - 1 ELSE IF j = n - 1 THEN n ELSE j] = x
          /\ (IF j = n THEN n - 1 ELSE IF j = n - 1 THEN n ELSE j) \in 1..n
        BY <1>2, <1>4, <2>1
    <2> QED
        BY <2>2
<1>16. \A i, j \in 1..n : t[i] = t[j] => i = j
    <2>1. \A i, j \in 1..n : s[i] = s[j] => i = j
        BY DEF Holds
    <2> QED
        BY <1>2, <1>4, <2>1
<1>17. ASSUME NEW i \in 1..n
       PROVE  m.next[t[i]] = IF i = n THEN Nil ELSE t[i + 1]
    <2>1. CASE i = n
        BY <1>2, <1>3, <1>4, <1>5, <1>11, <2>1
    <2>2. CASE i = n - 1
        BY <1>2, <1>3, <1>4, <1>5, <1>11, <2>2
    <2>3. CASE i < n - 1
        <3>1. t[i] = s[i] /\ t[i + 1] = IF i = n - 2 THEN b ELSE s[i + 1]
            BY <1>2, <1>3, <1>4, <2>3
        <3>2. s[i] \in Nodes(l) /\ s[i] # b /\ s[i] # y
            BY <1>3, <1>4, <2>3 DEF Holds
        <3>3. l.next[s[i]] = s[i + 1]
            BY <1>4, <2>3 DEF Holds
        <3>4. s[i] = z <=> i = n - 2
            <4>1. i # n - 2 /\ n # 2 => s[i] # s[n - 2]
                <5>1. n # 2 => n - 2 \in 1..n
                    BY <1>4
                <5> QED
                    BY <5>1 DEF Holds
            <4> QED
                BY <1>4, <1>5, <2>3, <3>2, <4>1
        <3> QED
            BY <1>4, <1>11, <2>3, <3>1, <3>2, <3>3, <3>4
    <2> QED
        BY <1>4, <2>1, <2>2, <2>3
<1>18. ASSUME NEW i \in 1..n
       PROVE  m.prev[t[i]] = IF i = 1 THEN Nil ELSE t[i - 1]
    <2>1. CASE i = n
        BY <1>2, <1>3, <1>4, <1>5, <1>11, <2>1
    <2>2. CASE i = n - 1
        <3>1. t[i] = b /\ (i # 1 => t[i - 1] = s[n - 2])
            BY <1>2, <1>3, <1>4, <2>2
        <3> QED
            BY <1>4, <1>5, <1>11, <2>2, <3>1
    <2>3. CASE i < n - 1
        <3>1. t[i] = s[i] /\ (i # 1 => t[i - 1] = s[i - 1])
            BY <1>2, <1>4, <2>3
        <3>2. s[i] \in Nodes(l) /\ s[i] # b /\ s[i] # y
            BY <1>3, <1>4, <2>3 DEF Holds
        <3>3. l.prev[s[i]] = IF i = 1 THEN Nil ELSE s[i - 1]
            BY DEF Holds
        <3> QED
            BY <1>11, <3>1, <3>2, <3>3
    <2> QED
        BY <1>4, <2>1, <2>2, <2>3
<1>19. m.first = t[1]
    <2>1. n # 2 => s[1] # b /\ z # Nil
        <3>1. n # 2 => n - 2 \in 1..n /\ n # 1
            BY <1>4
        <3> QED
            BY <1>3, <1>4, <1>5, <3>1, SMTT(40) DEF Holds
    <2> QED
        BY <1>2, <1>3, <1>4, <1>5, <1>9, <2>1
<1>20. Holds(m, t, n)
    BY ONLY <1>4, <1>10, <1>13, <1>14, <1>15, <1>16, <1>17, <1>18, <1>19, n > 1 DEF Holds
<1> QED
    BY <1>1, <1>4, <1>10, <1>12, <1>20 DEF Whole

\* The boards are a whole list, each with a name of its own, and reports are on them.
BoardInv ==
    /\ Whole(list)
    /\ boardCounter \in 1..MaxBoards
    /\ Nodes(list) \subseteq 1..boardCounter
    /\ name \in [Nodes(list) -> BoardName]
    /\ \A b, c \in Nodes(list) : name[b] = name[c] => b = c
    /\ reports \subseteq [report : Report, board : Nodes(list)]

\* The first board is made by master_new.
LEMMA BoardInvInit == BoardInit => BoardInv
<1>1. SUFFICES ASSUME BoardInit PROVE BoardInv
    OBVIOUS
<1>2. 1 # Nil /\ 1 \in 1..MaxBoards
    BY BoardAssumption
<1>3. Whole(list) /\ Nodes(list) = {1}
    BY <1>1, <1>2, OneNodeHolds DEF BoardInit
<1> QED
    BY <1>1, <1>2, <1>3 DEF BoardInit, BoardInv

\* edit_board of a new board.
LEMMA AddKeeps == ASSUME BoardInv, NEW n \in BoardName, Add(n) PROVE BoardInv'
<1>1. PICK b : b = boardCounter + 1 /\ boardCounter' = b /\ list' = AppendNode(list, b)
              /\ name' = Set(name, b, n)
    BY DEF Add
<1>2. b \in 1..MaxBoards /\ b \notin Nodes(list) /\ b # Nil
    BY <1>1, BoardAssumption DEF BoardInv, Add
<1>3. Whole(list') /\ Nodes(list') = Nodes(list) \cup {b}
    BY <1>1, <1>2, WholeAppend DEF BoardInv
<1>4. Nodes(list') \subseteq 1..boardCounter'
    BY <1>1, <1>2, <1>3 DEF BoardInv
<1>5. Reached(list) = Nodes(list) /\ Nil \notin Nodes(list)
    BY WholeReached DEF BoardInv
<1>6. \A c \in Nodes(list) : name[c] # n
    <2>1. ASSUME NEW c \in Nodes(list), name[c] = n PROVE FALSE
        <3>1. FindByName(n) \in Reached(list)
            BY <1>5, <2>1, Zenon DEF FindByName
        <3> QED
            BY <1>5, <3>1 DEF Add
    <2> QED
        BY <2>1
<1>7. name' \in [Nodes(list') -> BoardName] /\ \A c \in Nodes(list') : name'[c] = IF c = b THEN n ELSE name[c]
    BY <1>1, <1>2, <1>3, <1>5 DEF Set, BoardInv
<1>8. \A c, d \in Nodes(list') : name'[c] = name'[d] => c = d
    BY <1>3, <1>6, <1>7 DEF BoardInv
<1>9. reports' \subseteq [report : Report, board : Nodes(list')]
    BY <1>3 DEF BoardInv, Add
<1> QED
    BY <1>1, <1>2, <1>3, <1>4, <1>7, <1>8, <1>9 DEF BoardInv

\* edit_board of a board that stays where it is.
LEMMA EditKeeps == ASSUME BoardInv, NEW b, NEW n \in BoardName, Edit(b, n) PROVE BoardInv'
<1>1. Reached(list) = Nodes(list) /\ Nil \notin Nodes(list)
    BY WholeReached DEF BoardInv
<1>2. name[b] = n
    <2>1. \E c \in Reached(list) : name[c] = n
        BY <1>1 DEF FindByName, Edit
    <2>2. name[FindByName(n)] = n
        BY <2>1, Zenon DEF FindByName
    <2> QED
        BY <2>2 DEF Edit
<1>3. name' = name
    BY <1>2 DEF Edit, BoardInv
<1>4. list' = list /\ boardCounter' = boardCounter /\ reports' = reports
    BY DEF Edit
<1> QED
    BY <1>3, <1>4 DEF BoardInv

\* edit_board with "up" or "down", at an end of the list.
LEMMA MoveKeeps ==
    ASSUME "inside" \notin Moves, BoardInv, NEW b, NEW down \in BOOLEAN, Move(b, down)
    PROVE  BoardInv'
<1>1. PICK s, n : Holds(list, s, n) /\ n # 0 /\ list.last = s[n]
    BY DEF BoardInv, Whole
<1>2. n \in Nat /\ Nil \notin Nodes(list)
    BY <1>1 DEF Holds
<1>3. PICK k \in 1..n : s[k] = b
    <2>1. b \in Nodes(list)
        BY WholeReached DEF BoardInv, Move
    <2> QED
        BY <1>1, <2>1 DEF Holds
<1>4. list.next[b] = (IF k = n THEN Nil ELSE s[k + 1]) /\ list.prev[b] = (IF k = 1 THEN Nil ELSE s[k - 1])
    BY <1>1, <1>3 DEF Holds
<1>5. k = 1 \/ k = n
    <2>1. list.next[b] = Nil \/ list.prev[b] = Nil
        BY DEF Move
    <2>2. k # n => s[k + 1] # Nil
        BY <1>1, <1>2 DEF Holds
    <2>3. k # 1 => s[k - 1] # Nil
        <3>1. k # 1 => k - 1 \in 1..n
            BY <1>2
        <3> QED
            BY <1>1, <1>2, <3>1 DEF Holds
    <2> QED
        BY <1>4, <2>1, <2>2, <2>3
<1>6. list' = Settle(IF down THEN Down(list, b) ELSE Up(list, b), b)
    BY DEF Move
<1>7. Whole(list') /\ Nodes(list') = Nodes(list)
    <2>1. CASE down /\ k = n
        <3>1. list' = Settle(list, s[k])
            BY <1>3, <1>4, <1>6, <2>1 DEF Down
        <3>2. list' = list
            BY <1>1, <3>1, SettleNothing
        <3> QED
            BY <3>2 DEF BoardInv
    <2>2. CASE down /\ k = 1 /\ n # 1
        <3>1. n > 1 /\ list' = Settle(Down(list, s[1]), s[1])
            BY <1>1, <1>2, <1>3, <1>6, <2>2
        <3> QED
            BY <1>1, <3>1, FirstDown
    <2>3. CASE ~down /\ k = 1
        <3>1. list' = Settle(list, s[k])
            BY <1>3, <1>4, <1>6, <2>3 DEF Up
        <3>2. list' = list
            BY <1>1, <3>1, SettleNothing
        <3> QED
            BY <3>2 DEF BoardInv
    <2>4. CASE ~down /\ k = n /\ n # 1
        <3>1. n > 1 /\ list' = Settle(Up(list, s[n]), s[n])
            BY <1>1, <1>2, <1>3, <1>6, <2>4
        <3> QED
            BY <1>1, <3>1, LastUp
    <2> QED
        BY <1>5, <2>1, <2>2, <2>3, <2>4
<1>8. name' = name /\ boardCounter' = boardCounter /\ reports' = reports
    BY DEF Move
<1> QED
    BY <1>7, <1>8 DEF BoardInv

\* delete_board: its reports go with it.
LEMMA DeleteKeeps == ASSUME BoardInv, NEW b \in BoardIds, Delete(b) PROVE BoardInv'
<1>1. b \in Nodes(list)
    BY WholeReached DEF BoardInv, Delete
<1>2. Whole(list') /\ Nodes(list') = Nodes(list) \ {b}
    BY <1>1, WholeUnlink DEF BoardInv, Delete
<1>3. reports' = {}
    <2>1. b # 0 /\ \A r \in reports : r.board # 0
        BY <1>1 DEF BoardInv
    <2> QED
        BY <2>1 DEF Delete
<1>4. name' = [x \in Nodes(list') |-> name[x]] /\ boardCounter' = boardCounter
    BY <1>2 DEF Delete
<1>5. name' \in [Nodes(list') -> BoardName] /\ \A c, d \in Nodes(list') : name'[c] = name'[d] => c = d
    BY <1>2, <1>4 DEF BoardInv
<1> QED
    BY <1>2, <1>3, <1>4, <1>5 DEF BoardInv

\* A report is made.
LEMMA FileKeeps == ASSUME BoardInv, NEW b, NEW r \in Report, File(r, b) PROVE BoardInv'
<1>1. b \in Nodes(list)
    BY WholeReached DEF BoardInv, File
<1>2. reports' \subseteq [report : Report, board : Nodes(list)]
    BY <1>1 DEF BoardInv, File
<1>3. list' = list /\ name' = name /\ boardCounter' = boardCounter
    BY DEF File
<1> QED
    BY <1>2, <1>3 DEF BoardInv

\* Whatever is done to boards, BoardInv holds after it.
LEMMA BoardInvStep ==
    ASSUME "inside" \notin Moves
    PROVE  BoardInv /\ [BoardNext]_boardVars => BoardInv'
<1>1. SUFFICES ASSUME BoardInv, [BoardNext]_boardVars PROVE BoardInv'
    OBVIOUS
<1>2. CASE \E n \in BoardName : Add(n)
    BY <1>1, <1>2, AddKeeps
<1>3. CASE \E b \in BoardIds, n \in BoardName : Edit(b, n)
    BY <1>1, <1>3, EditKeeps
<1>4. CASE \E b \in BoardIds, down \in BOOLEAN : Move(b, down)
    BY <1>1, <1>4, MoveKeeps
<1>5. CASE \E b \in BoardIds : Delete(b)
    BY <1>1, <1>5, DeleteKeeps
<1>6. CASE \E b \in BoardIds, r \in Report : File(r, b)
    BY <1>1, <1>6, FileKeeps
<1>7. CASE UNCHANGED boardVars
    BY <1>1, <1>7 DEF boardVars, BoardInv
<1> QED
    BY <1>1, <1>2, <1>3, <1>4, <1>5, <1>6, <1>7 DEF BoardNext

\* What the runs check of the boards follows.
LEMMA BoardInvGives == BoardInv => BoardsLinked
<1>1. SUFFICES ASSUME BoardInv PROVE BoardsLinked
    OBVIOUS
<1>2. PICK s, n : Holds(list, s, n) /\ n # 0 /\ list.last = s[n]
    BY <1>1 DEF BoardInv, Whole
<1>3. Linked(list) /\ Cardinality(Nodes(list)) = n
    BY <1>2, HoldsLinked, HoldsCard
<1>4. n \in Nat \ {0} /\ n <= n
    BY <1>2 DEF Holds
<1>5. Nth(list.first, list.next, n) = s[n]
    BY <1>2, <1>4, NthIs
<1> QED
    BY <1>1, <1>2, <1>3, <1>5 DEF BoardInv, BoardsLinked

\* insert_board, edit_board, delete_board: the list of boards meets each board once
\* from either side, two boards never share a name, and a report is on a board that
\* exists.  This needs that no board inside the list is moved: one that
\* has neighbours on both sides is left out of reach of one of them.
THEOREM BoardsStayLinked ==
    ASSUME "inside" \notin Moves
    PROVE  BoardSpec => []BoardsLinked
<1>1. BoardInit => BoardInv
    BY BoardInvInit
<1>2. BoardInv /\ [BoardNext]_boardVars => BoardInv'
    BY BoardInvStep
<1>3. BoardInv => BoardsLinked
    BY BoardInvGives
<1> QED
    BY <1>1, <1>2, <1>3, PTL DEF BoardSpec

-----------------------------------------------------------------------------
(* Accounts. *)

\* session_destroy of one session after the other.
Destroying == INSTANCE Folding WITH Op <- SessionDestroy

\* The users are a whole list, and each has a name of his own, ...
UsersSound(m) ==
    /\ Whole(m.users)
    /\ Nodes(m.users) \subseteq 1..m.counter
    /\ m.account \in [Nodes(m.users) -> [name : UserName, admin : BOOLEAN]]
    /\ \A u, v \in Nodes(m.users) : m.account[u].name = m.account[v].name => u = v

\* ... until the last one has been deleted; sessions are a list, and each has its data.
Sound(m) ==
    /\ m = [users |-> m.users, account |-> m.account, counter |-> m.counter,
            sessions |-> m.sessions, of |-> m.of, seen |-> m.seen]
    /\ m.users = [first |-> m.users.first, last |-> m.users.last,
                  next |-> m.users.next, prev |-> m.users.prev]
    /\ m.users.first # Nil => UsersSound(m)
    /\ m.counter \in 1..MaxUsers
    /\ \E s, n : Holds(m.sessions, s, n)
    /\ DOMAIN m.of = Nodes(m.sessions)
    /\ m.seen \in [Nodes(m.sessions) -> Nat]

UserInv ==
    /\ now \in Nat
    /\ Sound(mem) /\ Sound(disk)
    /\ Nodes(mem.sessions) \cup Nodes(disk.sessions) \cup closing \cup ended \subseteq used
    /\ used \subseteq Sid
    /\ Nodes(mem.sessions) \cap (closing \cup ended) = {}
    /\ Nodes(disk.sessions) \cap ended = {}

\* m differs from l in the sessions alone.
SameUsers(l, m) == m.users = l.users /\ m.account = l.account /\ m.counter = l.counter

\* Sessions change, users stay.
LEMMA SoundFrom ==
    ASSUME NEW l, Sound(l), NEW m, SameUsers(l, m),
           m = [users |-> m.users, account |-> m.account, counter |-> m.counter,
                sessions |-> m.sessions, of |-> m.of, seen |-> m.seen],
           \E s, n : Holds(m.sessions, s, n),
           DOMAIN m.of = Nodes(m.sessions),
           m.seen \in [Nodes(m.sessions) -> Nat]
    PROVE  Sound(m)
<1>1. UsersSound(l) => UsersSound(m)
    BY Zenon DEF UsersSound, SameUsers
<1>2. m.users = l.users /\ m.counter = l.counter
    BY DEF SameUsers
<1> QED
    BY <1>1, <1>2 DEF Sound

\* The loop meets all sessions.
LEMMA SessionsReached ==
    ASSUME NEW m, Sound(m)
    PROVE  Reached(m.sessions) = Nodes(m.sessions) /\ Nil \notin Nodes(m.sessions)
<1>1. PICK s, n : Holds(m.sessions, s, n)
    BY DEF Sound
<1>2. Reached(m.sessions) = Nodes(m.sessions)
    BY <1>1, HoldsReached
<1> QED
    BY <1>1, <1>2 DEF Holds

\* session_destroy takes one session out.
LEMMA SessionDestroyed ==
    ASSUME NEW l, Sound(l), NEW s \in Nodes(l.sessions)
    PROVE  /\ Sound(SessionDestroy(l, s)) /\ SameUsers(l, SessionDestroy(l, s))
           /\ Nodes(SessionDestroy(l, s).sessions) = Nodes(l.sessions) \ {s}
<1>1. PICK m, q, o, e : /\ m = SessionDestroy(l, s)
                        /\ q = Unlink(l.sessions, s)
                        /\ o = [x \in Nodes(l.sessions) \ {s} |-> l.of[x]]
                        /\ e = [x \in Nodes(l.sessions) \ {s} |-> l.seen[x]]
    OBVIOUS
<1>2. m = [l EXCEPT !.sessions = q, !.of = o, !.seen = e]
    BY ONLY <1>1, Zenon DEF SessionDestroy
<1>3. m = [users |-> l.users, account |-> l.account, counter |-> l.counter,
           sessions |-> q, of |-> o, seen |-> e]
    BY <1>2 DEF Sound
<1>4. PICK t, n : Holds(l.sessions, t, n)
    BY DEF Sound
<1>5. PICK k \in 1..n : t[k] = s
    BY <1>4 DEF Holds
<1>6. PICK r : r = [i \in 1..n - 1 |-> IF i < k THEN t[i] ELSE t[i + 1]]
    OBVIOUS
<1>7. Holds(q, r, n - 1) /\ Nodes(q) = Nodes(l.sessions) \ {s}
    BY <1>1, <1>4, <1>5, <1>6, UnlinkHolds
<1>8. SameUsers(l, m) /\ m.sessions = q /\ m.of = o /\ m.seen = e
    BY <1>3 DEF SameUsers
<1>9. DOMAIN o = Nodes(q) /\ e \in [Nodes(q) -> Nat]
    BY <1>1, <1>7 DEF Sound
<1>10. m = [users |-> m.users, account |-> m.account, counter |-> m.counter,
            sessions |-> m.sessions, of |-> m.of, seen |-> m.seen]
    BY <1>3
<1>11. Sound(m)
    BY <1>7, <1>8, <1>9, <1>10, SoundFrom
<1> QED
    BY <1>1, <1>7, <1>8, <1>11

\* session_update of a session that has not expired writes its time.
LEMMA SessionSeen ==
    ASSUME NEW l, Sound(l), NEW s \in Nodes(l.sessions), now \in Nat, ~Expired(l, s)
    PROVE  /\ Sound(SessionUpdate(l, s)) /\ SameUsers(l, SessionUpdate(l, s))
           /\ SessionUpdate(l, s).sessions = l.sessions
           /\ SessionUpdate(l, s).of = l.of
<1>1. PICK m, e : m = SessionUpdate(l, s) /\ e = [l.seen EXCEPT ![s] = now]
    OBVIOUS
<1>2. m = [l EXCEPT !.seen = e]
    BY <1>1 DEF SessionUpdate
<1>3. m = [users |-> l.users, account |-> l.account, counter |-> l.counter,
           sessions |-> l.sessions, of |-> l.of, seen |-> e]
    BY <1>2 DEF Sound
<1>4. SameUsers(l, m) /\ m.sessions = l.sessions /\ m.of = l.of /\ m.seen = e
    BY <1>3 DEF SameUsers
<1>5. m.seen \in [Nodes(m.sessions) -> Nat]
    BY <1>1, <1>4 DEF Sound
<1>6. m = [users |-> m.users, account |-> m.account, counter |-> m.counter,
            sessions |-> m.sessions, of |-> m.of, seen |-> m.seen]
    BY <1>3
<1>7. DOMAIN m.of = Nodes(m.sessions) /\ \E t, n : Holds(m.sessions, t, n)
    BY <1>4 DEF Sound
<1>8. Sound(m)
    BY <1>4, <1>5, <1>6, <1>7, SoundFrom
<1> QED
    BY <1>1, <1>4, <1>8

\* session_update, expired or not.
LEMMA SessionUpdated ==
    ASSUME NEW l, Sound(l), NEW s \in Nodes(l.sessions), now \in Nat
    PROVE  /\ Sound(SessionUpdate(l, s)) /\ SameUsers(l, SessionUpdate(l, s))
           /\ Nodes(SessionUpdate(l, s).sessions) =
                  Nodes(l.sessions) \ (IF Expired(l, s) THEN {s} ELSE {})
<1>1. CASE Expired(l, s)
    <2>1. SessionUpdate(l, s) = SessionDestroy(l, s)
        BY <1>1 DEF SessionUpdate
    <2> QED
        BY <1>1, <2>1, SessionDestroyed
<1>2. CASE ~Expired(l, s)
    BY <1>2, SessionSeen
<1> QED
    BY <1>1, <1>2

\* Whatever order they are destroyed in, the expired sessions go and the others stay.
LEMMA SessionsPurged ==
    ASSUME NEW l, Sound(l), Nodes(l.sessions) \subseteq Sid
    PROVE  /\ Sound(PurgeSessions(l)) /\ SameUsers(l, PurgeSessions(l))
           /\ Nodes(PurgeSessions(l).sessions) =
                  Nodes(l.sessions) \ {s \in Nodes(l.sessions) : Expired(l, s)}
<1>1. PICK X : X = {s \in Reached(l.sessions) : Expired(l, s)}
    OBVIOUS
<1>2. X = {s \in Nodes(l.sessions) : Expired(l, s)}
    BY <1>1, SessionsReached
<1>3. PICK pick : pick = [S \in SUBSET Sid |-> CHOOSE x \in S : TRUE]
    OBVIOUS
<1>10. PICK at : Destroying!UsesUp(at, Sid, l, pick)
    <2>1. IsFiniteSet(Sid)
        BY AccountsAssumption
    <2>2. ASSUME NEW T \in SUBSET Sid, T # {} PROVE pick[T] \in T
        <3>1. (CHOOSE x \in T : TRUE) \in T
            BY <2>2, Zenon
        <3> QED
            BY <1>3, <3>1
    <2> QED
        BY ONLY <2>1, <2>2, Destroying!UsingUp, Zenon DEF IsFiniteSet, Destroying!IsFiniteSet
<1>4. at = [S \in SUBSET Sid |->
              IF S = {} THEN l ELSE SessionDestroy(at[S \ {CHOOSE x \in S : TRUE}], CHOOSE x \in S : TRUE)]
    BY ONLY <1>3, <1>10 DEF Destroying!UsesUp
<1>5. PICK bt : /\ bt = [S \in SUBSET Sid |->
                          IF S = {} THEN l
                          ELSE SessionDestroy(bt[S \ {CHOOSE x \in S : TRUE}], CHOOSE x \in S : TRUE)]
                /\ PurgeSessions(l) = bt[X]
    BY ONLY <1>1, <1>4, Zenon DEF PurgeSessions
<1>6. PICK G : G = {T \in SUBSET Nodes(l.sessions) :
                      /\ Sound(bt[T]) /\ SameUsers(l, bt[T])
                      /\ Nodes(bt[T].sessions) = Nodes(l.sessions) \ T}
    OBVIOUS
<1>7. ASSUME NEW T \in SUBSET Nodes(l.sessions), \A x \in T : T \ {x} \in G
      PROVE  T \in G
    <2>1. CASE T = {}
        <3>1. bt[T] = l
            BY <1>5, <2>1
        <3> QED
            BY <1>6, <2>1, <3>1 DEF SameUsers
    <2>2. CASE T # {}
        <3>1. PICK x : x = CHOOSE y \in T : TRUE
            OBVIOUS
        <3>2. x \in T
            BY ONLY <2>2, <3>1, Zenon
        <3>3. T \in SUBSET Sid
            OBVIOUS
        <3>4. bt[T] = SessionDestroy(bt[T \ {x}], x)
            BY ONLY <1>5, <2>2, <3>1, <3>3, Zenon
        <3>5. PICK k : k = bt[T \ {x}]
            OBVIOUS
        <3>6. Sound(k) /\ SameUsers(l, k) /\ Nodes(k.sessions) = Nodes(l.sessions) \ (T \ {x})
            BY <1>6, <1>7, <3>2, <3>5
        <3>7. x \in Nodes(k.sessions)
            BY <3>2, <3>6
        <3>8. bt[T] = SessionDestroy(k, x)
            BY <3>4, <3>5
        <3>9. Sound(bt[T]) /\ SameUsers(k, bt[T]) /\ Nodes(bt[T].sessions) = Nodes(k.sessions) \ {x}
            BY <3>6, <3>7, <3>8, SessionDestroyed
        <3>10. Nodes(bt[T].sessions) = Nodes(l.sessions) \ T
            BY <3>2, <3>6, <3>9
        <3>11. SameUsers(l, bt[T])
            BY <3>6, <3>9 DEF SameUsers
        <3> QED
            BY <1>6, <3>9, <3>10, <3>11
    <2> QED
        BY <2>1, <2>2
<1>8. G = SUBSET Nodes(l.sessions)
    <2>1. IsFiniteSet(Nodes(l.sessions))
        BY AccountsAssumption, FS_Subset
    <2>2. G \subseteq SUBSET Nodes(l.sessions)
        BY <1>6
    <2>3. \A T \in SUBSET Nodes(l.sessions) : (\A x \in T : T \ {x} \in G) => T \in G
        BY <1>7
    <2> QED
        BY ONLY <2>1, <2>2, <2>3, Destroying!FiniteInduction, Zenon DEF IsFiniteSet, Destroying!IsFiniteSet
<1>9. X \in G
    BY <1>2, <1>8
<1> QED
    BY <1>2, <1>5, <1>6, <1>9

\* The program starts with one user and no session.
LEMMA UserInvInit == UserInit => UserInv
<1>1. SUFFICES ASSUME UserInit PROVE UserInv
    OBVIOUS
<1>2. 1 # Nil /\ 1 \in 1..MaxUsers
    BY AccountsAssumption
<1>3. PICK n \in UserName :
         mem = [users    |-> PushNode([EmptyList EXCEPT !.last = 1], 1),
                account  |-> [u \in {1} |-> [name |-> n, admin |-> TRUE]],
                counter  |-> 1,
                sessions |-> EmptyList,
                of       |-> [s \in {} |-> 0],
                seen     |-> [s \in {} |-> 0]]
    BY <1>1 DEF UserInit
<1>4. Whole(mem.users) /\ Nodes(mem.users) = {1}
    BY <1>2, <1>3, OneNodeHolds
<1>5. mem.sessions = EmptyList /\ Nodes(mem.sessions) = {}
    BY <1>3 DEF Nodes, EmptyList
<1>6. \E t, k : Holds(mem.sessions, t, k)
    <2>1. PICK t : t = [i \in 1..0 |-> 0]
        OBVIOUS
    <2>2. EmptyList \in [first : {Nil}, last : {Nil}, next : [{} -> {Nil}], prev : [{} -> {Nil}]]
        BY DEF EmptyList
    <2>3. EmptyList.first = Nil
        BY DEF EmptyList
    <2>4. t \in [1..0 -> {}] /\ \A i \in 1..0 : FALSE
        BY <2>1
    <2>5. Holds(mem.sessions, t, 0)
        BY <1>5, <2>2, <2>3, <2>4 DEF Holds
    <2> QED
        BY <2>5
<1>7. mem.account = [u \in {1} |-> [name |-> n, admin |-> TRUE]] /\ mem.counter = 1
      /\ mem.of = [s \in {} |-> 0] /\ mem.seen = [s \in {} |-> 0]
      /\ mem = [users |-> mem.users, account |-> mem.account, counter |-> mem.counter,
                sessions |-> mem.sessions, of |-> mem.of, seen |-> mem.seen]
    BY <1>3
<1>8. UsersSound(mem)
    BY <1>4, <1>7 DEF UsersSound
<1>9. mem.users = [first |-> mem.users.first, last |-> mem.users.last,
                   next |-> mem.users.next, prev |-> mem.users.prev]
    BY <1>4 DEF Whole, Holds
<1>10. DOMAIN mem.of = {} /\ mem.seen \in [{} -> Nat]
    BY <1>7
<1>11. Sound(mem)
    BY ONLY <1>2, <1>5, <1>6, <1>7, <1>8, <1>9, <1>10 DEF Sound
<1> QED
    BY <1>1, <1>5, <1>11 DEF UserInit, UserInv

\* What Commit leaves holds if what is committed does.
LEMMA CommitKeeps ==
    ASSUME UserInv, NEW m, NEW end, Commit(m, end), Sound(m),
           Nodes(m.sessions) \cap (closing \cup ended \cup end) = {},
           Nodes(m.sessions) \cup end \subseteq used', used \subseteq used', used' \subseteq Sid,
           now' = now
    PROVE  UserInv'
BY DEF UserInv, Commit

\* The headers of a request with a session.
LEMMA HeadersKeep == ASSUME UserInv, NEW c, NEW s \in Sid, Headers(c, s) PROVE UserInv'
<1>1. s \in Nodes(mem.sessions)
    BY SessionsReached DEF UserInv, Headers
<1>2. PICK m, end : m = SessionUpdate(mem, s) /\ end = IF Expired(mem, s) THEN {s} ELSE {}
    OBVIOUS
<1>3. Sound(m) /\ Nodes(m.sessions) = Nodes(mem.sessions) \ end
    BY <1>1, <1>2, SessionUpdated DEF UserInv
<1>4. Commit(m, end) /\ used' = used /\ now' = now
    <2>1. end = IF ~Expired(mem, s) THEN {} ELSE {s}
        BY <1>2
    <2> QED
        BY ONLY <1>2, <2>1, Headers(c, s), Zenon DEF Headers
<1>5. end \subseteq used
    BY <1>1, <1>2 DEF UserInv
<1> QED
    BY <1>3, <1>4, <1>5, CommitKeeps DEF UserInv

\* login_page_finish: expired sessions go, a new one comes.
LEMMA LoginKeeps == ASSUME UserInv, NEW s \in Sid, NEW u, Login(s, u) PROVE UserInv'
<1>1. PICK X : X = {x \in Nodes(mem.sessions) : Expired(mem, x)}
    OBVIOUS
<1>2. PICK l : l = PurgeSessions(mem)
    OBVIOUS
<1>3. Sound(l) /\ Nodes(l.sessions) = Nodes(mem.sessions) \ X
    BY <1>1, <1>2, SessionsPurged DEF UserInv
<1>4. PICK m, q, o, e : /\ m = [l EXCEPT !.sessions = q, !.of = o, !.seen = e]
                        /\ q = PushNode(l.sessions, s) /\ o = Set(l.of, s, u) /\ e = Set(l.seen, s, now)
                        /\ m = [l EXCEPT !.sessions = PushNode(@, s),
                                          !.of   = Set(@, s, u),
                                          !.seen = Set(@, s, now)]
    BY Zenon
<1>5. m = [users |-> l.users, account |-> l.account, counter |-> l.counter,
           sessions |-> q, of |-> o, seen |-> e]
    BY <1>3, <1>4 DEF Sound
<1>6. SameUsers(l, m) /\ m.sessions = q /\ m.of = o /\ m.seen = e
    BY <1>5 DEF SameUsers
<1>7. s \notin used /\ used' = used \cup {s} /\ now' = now
    BY DEF Login
<1>8. s \notin Nodes(l.sessions) /\ s # Nil /\ Nil \notin Nodes(l.sessions)
    BY <1>3, <1>7, AccountsAssumption, SessionsReached DEF UserInv
<1>9. PICK t, n : Holds(l.sessions, t, n)
    BY <1>3 DEF Sound
<1>10. PICK r : r = [i \in 1..n + 1 |-> IF i = 1 THEN s ELSE t[i - 1]]
    OBVIOUS
<1>11. Holds(q, r, n + 1) /\ Nodes(q) = Nodes(l.sessions) \cup {s}
    BY <1>4, <1>8, <1>9, <1>10, PushHolds
<1>12. DOMAIN o = Nodes(q) /\ e \in [Nodes(q) -> Nat]
    BY <1>3, <1>4, <1>8, <1>11 DEF Sound, Set, UserInv
<1>13. m = [users |-> m.users, account |-> m.account, counter |-> m.counter,
            sessions |-> m.sessions, of |-> m.of, seen |-> m.seen]
    BY <1>5
<1>14. Sound(m)
    BY <1>3, <1>6, <1>11, <1>12, <1>13, SoundFrom
<1>15. Commit(m, X)
    <2>1. X = {x \in Reached(mem.sessions) : Expired(mem, x)}
        BY <1>1, SessionsReached DEF UserInv
    <2> QED
        BY ONLY <1>2, <1>4, <2>1, Login(s, u), Zenon DEF Login
<1>16. Nodes(m.sessions) \cap (closing \cup ended \cup X) = {}
    BY <1>1, <1>3, <1>6, <1>7, <1>11 DEF UserInv
<1>17. Nodes(m.sessions) \cup X \subseteq used' /\ used' \subseteq Sid
    BY <1>1, <1>3, <1>6, <1>7, <1>11 DEF UserInv
<1> QED
    BY <1>7, <1>14, <1>15, <1>16, <1>17, CommitKeeps

\* A kill loses what was not committed.
LEMMA KillKeeps == ASSUME UserInv, Kill PROVE UserInv'
BY DEF Kill, UserInv

\* "logout"
LEMMA LogoutKeeps == ASSUME UserInv, NEW c, Logout(c) PROVE UserInv'
<1>1. PICK s : s = pages[c].session
    OBVIOUS
<1>2. CASE s \in Nodes(mem.sessions)
    <2>1. /\ mem' = SessionDestroy(mem, s) /\ closing' = closing \cup {s}
          /\ disk' = disk /\ now' = now /\ used' = used /\ ended' = ended
        BY ONLY <1>1, <1>2, Logout(c), Zenon DEF Logout
    <2>2. Sound(mem') /\ Nodes(mem'.sessions) = Nodes(mem.sessions) \ {s}
        BY <1>2, <2>1, SessionDestroyed DEF UserInv
    <2> QED
        BY <1>2, <2>1, <2>2 DEF UserInv
<1>3. CASE s \notin Nodes(mem.sessions)
    BY <1>1, <1>3, KillKeeps DEF Logout
<1> QED
    BY <1>2, <1>3

\* A handler changes the users and leaves the sessions.
LEMMA UsersKeep ==
    ASSUME UserInv, NEW m, Commit(m, {}), Sound(m), m.sessions = mem.sessions,
           used' = used, now' = now
    PROVE  UserInv'
BY CommitKeeps DEF UserInv

\* Without a first user the loop ends at once.
LEMMA NoneReached ==
    ASSUME NEW l, l.first = Nil
    PROVE  Reached(l) = {}
<1>1. PICK S : S = {k \in Nat : Nth(l.first, l.next, k + 1) = Nil}
    OBVIOUS
<1>2. S \subseteq Nat /\ 0 \in S
    BY <1>1, NthStep
<1>3. ASSUME NEW k \in S PROVE k + 1 \in S
    <2>1. k \in Nat /\ Nth(l.first, l.next, k + 1) = Nil /\ k + 1 \in Nat \ {0}
        BY <1>1
    <2>2. Nth(l.first, l.next, (k + 1) + 1) = Nil
        BY ONLY <2>1, NthStep
    <2> QED
        BY <1>1, <2>1, <2>2
<1>4. S = Nat
    BY ONLY <1>2, <1>3, Induction, Zenon
<1>5. ASSUME NEW k \in 1..Cardinality(Nodes(l)) PROVE Nth(l.first, l.next, k) = Nil
    <2>1. k - 1 \in S /\ (k - 1) + 1 = k
        BY <1>4
    <2> QED
        BY <1>1, <2>1
<1> QED
    BY <1>5 DEF Reached

\* edit_user of a new user.
LEMMA AddUserKeeps ==
    ASSUME UserInv, NEW c, NEW n \in UserName, NEW admin \in BOOLEAN, AddUser(c, n, admin)
    PROVE  UserInv'
<1>1. used' = used /\ now' = now /\ mem.counter < MaxUsers /\ FindUserByName(n) = {} /\ Sound(mem)
    BY DEF AddUser, UserInv
<1>2. PICK l, k : l = mem.users /\ k = mem.account
    OBVIOUS
<1>3. PICK u : u = mem.counter + 1
    OBVIOUS
<1>4. PICK m, q, a : /\ q = AppendNode(l, u) /\ a = Set(k, u, [name |-> n, admin |-> admin])
                     /\ m = [mem EXCEPT !.counter = u, !.users = q, !.account = a]
                     /\ m = [mem EXCEPT !.counter = u, !.users = AppendNode(@, u),
                                        !.account = Set(@, u, [name |-> n, admin |-> admin])]
    BY ONLY <1>2, Zenon
<1>5. m = [users |-> q, account |-> a, counter |-> u,
           sessions |-> mem.sessions, of |-> mem.of, seen |-> mem.seen]
    BY <1>1, <1>4 DEF Sound
<1>6. m.users = q /\ m.account = a /\ m.counter = u
      /\ m.sessions = mem.sessions /\ m.of = mem.of /\ m.seen = mem.seen
      /\ m = [users |-> m.users, account |-> m.account, counter |-> m.counter,
              sessions |-> m.sessions, of |-> m.of, seen |-> m.seen]
    BY <1>5
<1>7. u \in 1..MaxUsers /\ u # Nil /\ mem.counter \in Nat /\ u \notin 1..mem.counter
    BY <1>1, <1>3, AccountsAssumption DEF Sound
<1>8. q.first = l.first
      /\ q = [first |-> q.first, last |-> q.last, next |-> q.next, prev |-> q.prev]
    <2>1. l = [first |-> l.first, last |-> l.last, next |-> l.next, prev |-> l.prev]
        BY <1>1, <1>2 DEF Sound
    <2>2. PICK e, p : e = Set(Set(l.next, u, Nil), l.last, u) /\ p = Set(l.prev, u, l.last)
        OBVIOUS
    <2>3. q = [l EXCEPT !.next = e, !.prev = p, !.last = u]
        BY ONLY <1>4, <2>2, Zenon DEF AppendNode
    <2> QED
        BY <2>1, <2>3
<1>9. ASSUME q.first # Nil PROVE UsersSound(m)
    <2>1. /\ Whole(l) /\ Nodes(l) \subseteq 1..mem.counter
          /\ k \in [Nodes(l) -> [name : UserName, admin : BOOLEAN]]
          /\ \A v, w \in Nodes(l) : k[v].name = k[w].name => v = w
        BY <1>1, <1>2, <1>8, <1>9 DEF Sound, UsersSound
    <2>2. u \notin Nodes(l)
        BY <1>7, <2>1
    <2>3. Whole(q) /\ Nodes(q) = Nodes(l) \cup {u}
        BY <1>4, <1>7, <2>1, <2>2, WholeAppend
    <2>4. Nodes(q) \subseteq 1..u
        BY <1>3, <1>7, <2>1, <2>3
    <2>5. Nil \notin Nodes(l) /\ Reached(mem.users) = Nodes(l)
        BY <1>2, <2>1, WholeReached
    <2>6. \A v \in Nodes(l) : k[v].name # n
        BY <1>1, <1>2, <2>5 DEF FindUserByName
    <2>7. a \in [Nodes(q) -> [name : UserName, admin : BOOLEAN]]
          /\ \A v \in Nodes(q) : a[v] = IF v = u THEN [name |-> n, admin |-> admin] ELSE k[v]
        BY <1>4, <1>7, <2>1, <2>3, <2>5 DEF Set
    <2>8. \A v, w \in Nodes(q) : a[v].name = a[w].name => v = w
        BY <2>1, <2>2, <2>3, <2>6, <2>7
    <2> QED
        BY ONLY <1>6, <2>3, <2>4, <2>7, <2>8 DEF UsersSound
<1>10. /\ \E t, j : Holds(m.sessions, t, j)
       /\ DOMAIN m.of = Nodes(m.sessions) /\ m.seen \in [Nodes(m.sessions) -> Nat]
    BY <1>1, <1>6 DEF Sound
<1>11. Sound(m)
    BY ONLY <1>6, <1>7, <1>8, <1>9, <1>10 DEF Sound
<1>12. Commit(m, {})
    BY ONLY <1>3, <1>4, AddUser(c, n, admin), Zenon DEF AddUser
<1> QED
    BY <1>1, <1>6, <1>11, <1>12, UsersKeep

\* edit_user of a user that exists.
LEMMA EditUserKeeps ==
    ASSUME UserInv, NEW c, NEW u, NEW n \in UserName, NEW admin \in BOOLEAN,
           EditUser(c, u, n, admin)
    PROVE  UserInv'
<1>1. used' = used /\ now' = now /\ FindUserByName(n) = {u} /\ Sound(mem)
    BY DEF EditUser, UserInv
<1>2. PICK l, k : l = mem.users /\ k = mem.account
    OBVIOUS
<1>3. PICK m, a : /\ a = [k EXCEPT ![u] = [name |-> n, admin |-> admin]]
                  /\ m = [mem EXCEPT !.account = a]
                  /\ m = [mem EXCEPT !.account[u] = [name |-> n, admin |-> admin]]
    BY <1>2
<1>4. m = [users |-> l, account |-> a, counter |-> mem.counter,
           sessions |-> mem.sessions, of |-> mem.of, seen |-> mem.seen]
    BY <1>1, <1>2, <1>3 DEF Sound
<1>5. m.users = l /\ m.account = a /\ m.counter = mem.counter
      /\ m.sessions = mem.sessions /\ m.of = mem.of /\ m.seen = mem.seen
      /\ m = [users |-> m.users, account |-> m.account, counter |-> m.counter,
              sessions |-> m.sessions, of |-> m.of, seen |-> m.seen]
    BY <1>4
<1>6. l.first # Nil /\ UsersSound(mem)
    BY <1>1, <1>2, NoneReached DEF FindUserByName, Sound
<1>7. /\ Whole(l) /\ Nodes(l) \subseteq 1..mem.counter
      /\ k \in [Nodes(l) -> [name : UserName, admin : BOOLEAN]]
      /\ \A v, w \in Nodes(l) : k[v].name = k[w].name => v = w
    BY <1>2, <1>6 DEF UsersSound
<1>8. u \in Nodes(l) /\ k[u].name = n
    <2>1. Reached(mem.users) = Nodes(l)
        BY <1>2, <1>7, WholeReached
    <2> QED
        BY <1>1, <1>2, <2>1 DEF FindUserByName
<1>9. a \in [Nodes(l) -> [name : UserName, admin : BOOLEAN]]
      /\ \A v \in Nodes(l) : a[v].name = k[v].name
    <2>1. a \in [Nodes(l) -> [name : UserName, admin : BOOLEAN]]
        BY <1>3, <1>7
    <2>2. \A v \in Nodes(l) : a[v] = IF v = u THEN [name |-> n, admin |-> admin] ELSE k[v]
        BY <1>3, <1>7
    <2> QED
        BY <1>8, <2>1, <2>2
<1>10. UsersSound(m)
    BY <1>5, <1>7, <1>9 DEF UsersSound
<1>11. Sound(m)
    BY <1>1, <1>2, <1>5, <1>10 DEF Sound
<1>12. Commit(m, {})
    BY ONLY <1>3, EditUser(c, u, n, admin), Zenon DEF EditUser
<1> QED
    BY <1>1, <1>5, <1>11, <1>12, UsersKeep

\* A whole list that has still a first node after a deletion is whole.
LEMMA UnlinkLeaves ==
    ASSUME NEW l, Whole(l), NEW x \in Nodes(l), Unlink(l, x).first # Nil
    PROVE  Whole(Unlink(l, x)) /\ Nodes(Unlink(l, x)) = Nodes(l) \ {x}
<1>1. PICK s, n : Holds(l, s, n)
    BY DEF Whole
<1>2. PICK k \in 1..n : s[k] = x
    BY <1>1 DEF Holds
<1>3. PICK t : t = [i \in 1..n - 1 |-> IF i < k THEN s[i] ELSE s[i + 1]]
    OBVIOUS
<1>4. Holds(Unlink(l, x), t, n - 1)
    BY <1>1, <1>2, <1>3, UnlinkHolds
<1>5. n > 1
    <2>1. n - 1 # 0
        BY <1>4 DEF Holds
    <2>2. n \in Nat /\ n >= 1
        BY <1>1, <1>2 DEF Holds
    <2> QED
        BY <2>1, <2>2
<1>6. Cardinality(Nodes(l)) = n
    BY <1>1, HoldsCard
<1> QED
    BY <1>5, <1>6, WholeUnlink

\* delete_user leaves a whole list, or none.
LEMMA DeleteUserKeeps ==
    ASSUME UserInv, NEW c, NEW u, DeleteUser(c, u)
    PROVE  UserInv'
<1>1. used' = used /\ now' = now /\ u \in Reached(mem.users) /\ Sound(mem)
    BY DEF DeleteUser, UserInv
<1>2. PICK l, k : l = mem.users /\ k = mem.account
    OBVIOUS
<1>3. PICK m, q, a : /\ q = Unlink(l, u) /\ a = [x \in Nodes(l) \ {u} |-> k[x]]
                     /\ m = [mem EXCEPT !.users = q, !.account = a]
                     /\ m = [mem EXCEPT !.users = Unlink(@, u),
                                        !.account = [x \in Nodes(mem.users) \ {u} |-> mem.account[x]]]
    BY ONLY <1>2, Zenon
<1>4. m = [users |-> q, account |-> a, counter |-> mem.counter,
           sessions |-> mem.sessions, of |-> mem.of, seen |-> mem.seen]
    BY <1>1, <1>3 DEF Sound
<1>5. m.users = q /\ m.account = a /\ m.counter = mem.counter
      /\ m.sessions = mem.sessions /\ m.of = mem.of /\ m.seen = mem.seen
      /\ m = [users |-> m.users, account |-> m.account, counter |-> m.counter,
              sessions |-> m.sessions, of |-> m.of, seen |-> m.seen]
    BY <1>4
<1>6. l.first # Nil /\ UsersSound(mem)
    BY <1>1, <1>2, NoneReached DEF Sound
<1>7. /\ Whole(l) /\ Nodes(l) \subseteq 1..mem.counter
      /\ k \in [Nodes(l) -> [name : UserName, admin : BOOLEAN]]
      /\ \A v, w \in Nodes(l) : k[v].name = k[w].name => v = w
    BY <1>2, <1>6 DEF UsersSound
<1>8. u \in Nodes(l)
    BY <1>1, <1>2, <1>7, WholeReached
<1>9. q = [first |-> q.first, last |-> q.last, next |-> q.next, prev |-> q.prev]
    BY <1>3 DEF Unlink
<1>10. ASSUME q.first # Nil PROVE UsersSound(m)
    <2>1. Whole(q) /\ Nodes(q) = Nodes(l) \ {u}
        BY <1>3, <1>7, <1>8, <1>10, UnlinkLeaves
    <2>2. a = [x \in Nodes(q) |-> k[x]]
        BY <1>3, <2>1
    <2>3. a \in [Nodes(q) -> [name : UserName, admin : BOOLEAN]]
          /\ \A v, w \in Nodes(q) : a[v].name = a[w].name => v = w
        BY <1>7, <2>1, <2>2
    <2> QED
        BY <1>5, <1>7, <2>1, <2>3 DEF UsersSound
<1>11. /\ \E t, j : Holds(m.sessions, t, j)
       /\ DOMAIN m.of = Nodes(m.sessions) /\ m.seen \in [Nodes(m.sessions) -> Nat]
    BY <1>1, <1>5 DEF Sound
<1>12. Sound(m)
    BY ONLY <1>1, <1>5, <1>9, <1>10, <1>11 DEF Sound
<1>13. Commit(m, {})
    BY ONLY <1>3, DeleteUser(c, u), Zenon DEF DeleteUser
<1> QED
    BY <1>1, <1>5, <1>12, <1>13, UsersKeep

\* Whatever is done to users and sessions, UserInv holds after it.
LEMMA UserInvStep == UserInv /\ [UserNext]_userVars => UserInv'
<1>1. SUFFICES ASSUME UserInv, [UserNext]_userVars PROVE UserInv'
    OBVIOUS
<1>2. CASE \E c \in Conn, s \in Sid : Headers(c, s)
    BY <1>1, <1>2, HeadersKeep
<1>3. CASE \E s \in Sid, u \in UserIds : Login(s, u)
    BY <1>1, <1>3, LoginKeeps
<1>4. CASE \E c \in Conn, n \in UserName, admin \in BOOLEAN : AddUser(c, n, admin)
    BY <1>1, <1>4, AddUserKeeps
<1>5. CASE \E c \in Conn, n \in UserName, admin \in BOOLEAN, u \in UserIds : EditUser(c, u, n, admin)
    BY <1>1, <1>5, EditUserKeeps
<1>9. CASE \E c \in Conn, u \in UserIds : DeleteUser(c, u)
    BY <1>1, <1>9, DeleteUserKeeps
<1>10. CASE \E c \in Conn : Logout(c)
    BY <1>1, <1>10, LogoutKeeps
<1>11. CASE \E c \in Conn : Leave(c)
    BY <1>1, <1>11 DEF Leave, UserInv
<1>6. CASE Tick
    BY <1>1, <1>6 DEF Tick, UserInv
<1>7. CASE Kill
    BY <1>1, <1>7, KillKeeps
<1>8. CASE UNCHANGED userVars
    BY <1>1, <1>8 DEF userVars, UserInv
<1> QED
    BY <1>1, <1>2, <1>3, <1>4, <1>5, <1>6, <1>7, <1>8, <1>9, <1>10, <1>11, Zenon DEF UserNext

\* What the runs check of one image of the database follows.
LEMMA SoundGives ==
    ASSUME NEW m, Sound(m)
    PROVE  /\ Linked(m.sessions)
           /\ m.users.first # Nil => Linked(m.users)
<1>1. PICK t, k : Holds(m.sessions, t, k)
    BY DEF Sound
<1>2. ASSUME m.users.first # Nil PROVE Linked(m.users)
    BY <1>2, HoldsLinked DEF Sound, UsersSound, Whole
<1> QED
    BY <1>1, <1>2, HoldsLinked

\* What the runs check of users and sessions follows.
LEMMA UserInvGives == UserInv => AccountsLinked /\ EndedForGood
<1>1. SUFFICES ASSUME UserInv PROVE AccountsLinked /\ EndedForGood
    OBVIOUS
<1>2. ASSUME NEW m, Sound(m)
      PROVE  /\ Linked(m.sessions)
             /\ Reached(m.sessions) = Nodes(m.sessions)
             /\ m.users.first # Nil =>
                  /\ Linked(m.users)
                  /\ Nodes(m.users) \subseteq 1..m.counter
                  /\ \A u, v \in Nodes(m.users) : m.account[u].name = m.account[v].name => u = v
    BY <1>2, SoundGives, SessionsReached DEF Sound, UsersSound
<1> QED
    BY <1>1, <1>2 DEF UserInv, AccountsLinked, EndedForGood

\* delete_user, session_destroy, purge_expired_sessions and the pages that add users and
\* sessions: in memory and in the file the list of sessions meets each of them once, and
\* so does that of the users until the last of them is deleted, also when requests act
\* for a user who was deleted after their headers had come.
THEOREM AccountsStayLinked == UserSpec => []AccountsLinked
<1>1. UserInit => UserInv
    BY UserInvInit
<1>2. UserInv /\ [UserNext]_userVars => UserInv'
    BY UserInvStep
<1>3. UserInv => AccountsLinked
    BY UserInvGives
<1> QED
    BY <1>1, <1>2, <1>3, PTL DEF UserSpec

\* session_destroy, "logout": a session that has ended is never found again, neither in
\* memory nor, after its transaction, in a process that starts from the file.
THEOREM EndedStayEnded == UserSpec => []EndedForGood
<1>1. UserInit => UserInv
    BY UserInvInit
<1>2. UserInv /\ [UserNext]_userVars => UserInv'
    BY UserInvStep
<1>3. UserInv => EndedForGood
    BY UserInvGives
<1> QED
    BY <1>1, <1>2, <1>3, PTL DEF UserSpec

-----------------------------------------------------------------------------
(* BanChecks. *)

FloodBan(a, t) == [range |-> [ip |-> a, len |-> Longest("v4")], board |-> None,
                   type |-> "flood", until |-> t + FloodLimit]

CheckInv ==
    /\ clock \in Nat /\ ~flooded
    /\ DOMAIN last \subseteq Addr /\ \A a \in DOMAIN last : last[a] \in Nat
    /\ \A a \in DOMAIN last : clock <= last[a] + FloodLimit => FloodBan(a, last[a]) \in made

\* find_bans finds the ban that a post has left on its address.
LEMMA FloodBanFound ==
    ASSUME NEW a \in Addr, NEW t, FloodBan(a, t) \in made
    PROVE  FloodBan(a, t) \in FindBans(a)
<1>1. PICK r, x : r = [ip |-> a, len |-> Longest("v4")] /\ x = FloodBan(a, t)
    OBVIOUS
<1>2. x.range = r /\ x \in made
    BY <1>1 DEF FloodBan
<1>3. Longest("v4") \in 0..Longest(a.version)
    <2>1. a.version \in {"v4", "v6"} /\ Bits \in Nat /\ Size["v4"] \in Nat /\ Size["v6"] \in Nat
          /\ Size["v4"] <= Size["v6"] /\ DOMAIN Size = {"v4", "v6"}
        BY ChecksAssumption
    <2>2. Bits * Size["v4"] <= Bits * Size["v6"] /\ Bits * Size["v4"] \in Nat
        BY <2>1
    <2>3. CASE a.version = "v4"
        BY <2>2, <2>3 DEF Longest
    <2>4. CASE a.version = "v6"
        BY <2>1, <2>2, <2>4 DEF Longest
    <2> QED
        BY <2>1, <2>3, <2>4
<1>4. Normalized(x.range) \in {Normalized([ip |-> a, len |-> n]) : n \in 0..Longest(a.version)}
    BY ONLY <1>1, <1>2, <1>3, Zenon
<1> QED
    BY ONLY <1>1, <1>2, <1>4, Zenon DEF FindBans

\* At the start nobody has posted.
LEMMA CheckInvInit == CheckInit => CheckInv
BY DEF CheckInit, CheckInv

\* A post that is let through finds no flood ban of its address, so the last one is over.
LEMMA PostKeeps == ASSUME CheckInv, NEW a \in Addr, NEW ips, NEW b, Post(a, ips, b) PROVE CheckInv'
<1>1. FloodLimit \in Nat /\ clock \in Nat
    BY ChecksAssumption DEF CheckInv
<1>2. ~(a \in DOMAIN last /\ clock <= last[a] + FloodLimit)
    <2>1. SUFFICES ASSUME a \in DOMAIN last, clock <= last[a] + FloodLimit PROVE FALSE
        OBVIOUS
    <2>2. PICK x : x = FloodBan(a, last[a])
        OBVIOUS
    <2>3. x \in FindBans(a)
        BY <2>1, <2>2, FloodBanFound DEF CheckInv
    <2>4. x.type = "flood" /\ x.until = last[a] + FloodLimit /\ x.board = None
        BY <2>2 DEF FloodBan
    <2>5. Banned(a, b, "flood")
        BY <2>1, <2>3, <2>4 DEF Banned, InTime
    <2>6. AnyIpAffected(ips \cup {a}, b, "flood")
        BY <2>5 DEF AnyIpAffected
    <2> QED
        BY <2>6 DEF Post
<1>3. flooded' = FALSE /\ clock' = clock
    BY <1>2 DEF Post, CheckInv
<1>4. DOMAIN last' = DOMAIN last \cup {a} /\ \A y \in DOMAIN last' : last'[y] = IF y = a THEN clock ELSE last[y]
    BY DEF Post
<1>5. made' = Purged \cup {FloodBan(a, clock)}
    BY DEF Post, FloodBan
<1>6. ASSUME NEW y \in DOMAIN last, y # a, clock <= last[y] + FloodLimit
      PROVE  FloodBan(y, last[y]) \in Purged
    <2>1. FloodBan(y, last[y]) \in made
        BY <1>6 DEF CheckInv
    <2>2. FloodBan(y, last[y]).until = last[y] + FloodLimit
        BY DEF FloodBan
    <2> QED
        BY <1>6, <2>1, <2>2 DEF Purged
<1> QED
    BY <1>1, <1>3, <1>4, <1>5, <1>6 DEF CheckInv

\* Whatever happens to bans and clock, CheckInv holds after it.
LEMMA CheckInvStep == CheckInv /\ [CheckNext]_checkVars => CheckInv'
<1>1. SUFFICES ASSUME CheckInv, [CheckNext]_checkVars PROVE CheckInv'
    OBVIOUS
<1>2. FloodLimit \in Nat
    BY ChecksAssumption
<1>3. CASE \E a, proxy \in Addr, b \in BoardId : Post(a, {proxy}, b)
    BY <1>1, <1>3, PostKeeps
<1>4. CASE \E range \in BanRanges, b \in BoardId \cup {None}, d \in Duration : MakeBan(range, b, d)
    BY <1>1, <1>4 DEF MakeBan, CheckInv
<1>5. ASSUME NEW x \in made, Unban(x) PROVE CheckInv'
    <2>1. made' = made \ {x} /\ clock' = clock /\ flooded' = flooded
          /\ last' = [a \in {y \in DOMAIN last : x.type = "flood" => x \notin FindBans(y)} |-> last[a]]
        BY <1>5 DEF Unban
    <2>2. ASSUME NEW a \in DOMAIN last'
          PROVE  a \in DOMAIN last /\ last'[a] = last[a] /\ x # FloodBan(a, last[a])
        <3>1. a \in DOMAIN last /\ last'[a] = last[a] /\ (x.type = "flood" => x \notin FindBans(a))
            BY <2>1
        <3>2. a \in Addr
            BY <1>1, <3>1 DEF CheckInv
        <3>3. FloodBan(a, last[a]).type = "flood"
            BY DEF FloodBan
        <3>4. x = FloodBan(a, last[a]) => x \in FindBans(a)
            BY <1>5, <3>2, FloodBanFound
        <3> QED
            BY <3>1, <3>3, <3>4
    <2> QED
        BY <1>1, <2>1, <2>2 DEF CheckInv
<1>6. CASE TickClock
    BY <1>1, <1>2, <1>6 DEF TickClock, CheckInv
<1>7. CASE UNCHANGED checkVars
    BY <1>1, <1>7 DEF checkVars, CheckInv
<1> QED
    BY <1>1, <1>3, <1>4, <1>5, <1>6, <1>7 DEF CheckNext

\* post_page_finish, "Flood limit": an address that posts is kept from posting again for
\* FLOOD_LIMIT seconds, whatever addresses its proxies forward, unless a moderator takes
\* the ban away.
THEOREM FloodsLimited == CheckSpec => []FloodLimited
<1>1. CheckInit => CheckInv
    BY CheckInvInit
<1>2. CheckInv /\ [CheckNext]_checkVars => CheckInv'
    BY CheckInvStep
<1>3. CheckInv => FloodLimited
    BY DEF CheckInv, FloodLimited
<1> QED
    BY <1>1, <1>2, <1>3, PTL DEF CheckSpec

-----------------------------------------------------------------------------
(* BanChecks: prefixes of addresses, bit by bit and byte by byte. *)

\* Powers of two are positive, and each is twice the one before.
LEMMA PowersOfTwo ==
    /\ Shift[0] = 1
    /\ \A n \in Nat : Shift[n] \in Nat \ {0} /\ Shift[n + 1] = 2 * Shift[n]
<1>1. /\ Shift[0] = 1
      /\ \A n \in Nat : Shift[n] \in Nat /\ Shift[n] >= 1 /\ Shift[n + 1] = 2 * Shift[n]
    BY ONLY Fold!ShiftIs, Zenon DEF Shift, Fold!Shift
<1> QED
    BY <1>1

\* Division with a remainder ...
LEMMA Division ==
    ASSUME NEW x \in Nat, NEW d \in Nat \ {0}
    PROVE  x \div d \in Nat /\ x % d \in 0..d - 1 /\ x = d * (x \div d) + (x % d)
    OBVIOUS

\* ... which there is only one of.
LEMMA Quotient ==
    ASSUME NEW d \in Nat \ {0}, NEW q \in Nat, NEW r \in 0..d - 1, NEW x \in Nat, x = d * q + r
    PROVE  x \div d = q /\ x % d = r
    OBVIOUS

\* x / d is twice x / 2d, and a bit.
LEMMA Halves ==
    ASSUME NEW x \in Nat, NEW d \in Nat \ {0}
    PROVE  x \div d = 2 * (x \div (2 * d)) + ((x \div d) % 2)
<1>1. PICK q \in Nat, r \in 0..d - 1 : q = x \div d /\ x = d * q + r
    BY Division
<1>2. PICK h \in Nat, b \in 0..1 : q = 2 * h + b /\ b = q % 2
    BY Division
<1>3. d * q = (2 * d) * h + d * b
    BY <1>2
<1>4. PICK e \in Nat \ {0} : e = 2 * d
    OBVIOUS
<1>5. PICK s \in Nat : s = d * b + r
    BY <1>1, <1>2
<1>6. s \in 0..e - 1
    <2>1. CASE b = 0
        BY <1>4, <1>5, <2>1
    <2>2. CASE b = 1
        BY <1>4, <1>5, <2>2
    <2> QED
        BY <1>2, <2>1, <2>2
<1>7. x = e * h + s
    BY <1>1, <1>3, <1>4, <1>5
<1>8. x \div e = h
    BY ONLY <1>4, <1>5, <1>6, <1>7, x \in Nat, h \in Nat, Quotient
<1> QED
    BY <1>1, <1>2, <1>4, <1>8

\* The bit of x with the value 2^j.
BitOf(x, j) == (x \div Shift[j]) % 2

\* Numbers agree from bit s on if they agree in each of those bits.
LEMMA BitsAbove ==
    ASSUME NEW x \in 0..Shift[Bits] - 1, NEW y \in 0..Shift[Bits] - 1, NEW s \in 0..Bits
    PROVE  x \div Shift[s] = y \div Shift[s] <=> \A j \in s..Bits - 1 : BitOf(x, j) = BitOf(y, j)
<1>1. Bits \in Nat /\ x \in Nat /\ y \in Nat /\ s \in Nat
      /\ \A n \in Nat : Shift[n] \in Nat \ {0} /\ Shift[n + 1] = 2 * Shift[n]
    BY PowersOfTwo, ChecksAssumption
<1>2. \A n \in Nat : /\ x \div Shift[n] = 2 * (x \div Shift[n + 1]) + BitOf(x, n)
                     /\ y \div Shift[n] = 2 * (y \div Shift[n + 1]) + BitOf(y, n)
    <2>1. ASSUME NEW n \in Nat
          PROVE  /\ x \div Shift[n] = 2 * (x \div Shift[n + 1]) + BitOf(x, n)
                 /\ y \div Shift[n] = 2 * (y \div Shift[n + 1]) + BitOf(y, n)
        <3>1. PICK d \in Nat \ {0} : d = Shift[n] /\ 2 * d = Shift[n + 1]
            BY <1>1
        <3>2. /\ x \div d = 2 * (x \div (2 * d)) + ((x \div d) % 2)
              /\ y \div d = 2 * (y \div (2 * d)) + ((y \div d) % 2)
            BY ONLY <1>1, <3>1, Halves
        <3> QED
            BY <3>1, <3>2 DEF BitOf
    <2> QED
        BY <2>1
<1>3. \A n \in Nat : /\ x \div Shift[n] \in Nat /\ y \div Shift[n] \in Nat
                     /\ BitOf(x, n) \in 0..1 /\ BitOf(y, n) \in 0..1
    <2>1. ASSUME NEW n \in Nat, NEW z \in Nat PROVE z \div Shift[n] \in Nat /\ BitOf(z, n) \in 0..1
        <3>1. Shift[n] \in Nat \ {0}
            BY <1>1
        <3>2. PICK w \in Nat : w = z \div Shift[n]
            BY <3>1, Division
        <3>3. w % 2 \in 0..1
            OBVIOUS
        <3> QED
            BY <3>2, <3>3 DEF BitOf
    <2> QED
        BY <1>1, <2>1
<1>4. ASSUME \A j \in s..Bits - 1 : BitOf(x, j) = BitOf(y, j)
      PROVE  x \div Shift[s] = y \div Shift[s]
    <2>1. PICK S : S = {i \in Nat : i <= Bits - s => x \div Shift[Bits - i] = y \div Shift[Bits - i]}
        OBVIOUS
    <2>2. S \subseteq Nat /\ 0 \in S
        <3>1. PICK p \in Nat \ {0} : p = Shift[Bits]
            BY <1>1
        <3>2. x \div p = 0 /\ y \div p = 0
            BY <3>1, Quotient
        <3>3. Bits - 0 = Bits
            BY <1>1
        <3> QED
            BY <2>1, <3>1, <3>2, <3>3
    <2>3. ASSUME NEW i \in S PROVE i + 1 \in S
        <3>1. SUFFICES ASSUME i + 1 <= Bits - s
                       PROVE  x \div Shift[Bits - (i + 1)] = y \div Shift[Bits - (i + 1)]
            BY <2>1
        <3>2. PICK n \in Nat : n = Bits - (i + 1) /\ n + 1 = Bits - i /\ n \in s..Bits - 1
            BY <1>1, <2>1, <3>1
        <3>3. x \div Shift[n + 1] = y \div Shift[n + 1]
            <4>1. i \in Nat /\ i <= Bits - s
                BY <1>1, <2>1, <3>1
            <4> QED
                BY <2>1, <3>2, <4>1
        <3>4. BitOf(x, n) = BitOf(y, n)
            BY <1>4, <3>2
        <3> QED
            BY <1>2, <3>2, <3>3, <3>4
    <2>4. S = Nat
        BY ONLY <2>2, <2>3, Fold!Induction, Zenon
    <2>5. Bits - s \in S /\ Bits - (Bits - s) = s
        BY <1>1, <2>4
    <2> QED
        BY <2>1, <2>5
<1>5. ASSUME x \div Shift[s] = y \div Shift[s]
      PROVE  \A j \in s..Bits - 1 : BitOf(x, j) = BitOf(y, j)
    <2>1. PICK S : S = {i \in Nat : x \div Shift[s + i] = y \div Shift[s + i]}
        OBVIOUS
    <2>2. S \subseteq Nat /\ 0 \in S
        BY <1>1, <1>5, <2>1
    <2>3. ASSUME NEW i \in S PROVE i + 1 \in S
        <3>1. PICK n \in Nat : n = s + i /\ n + 1 = s + (i + 1)
            BY <1>1, <2>1
        <3>2. x \div Shift[n] = y \div Shift[n]
            BY <2>1, <3>1
        <3>3. PICK X, Y, u, v : /\ X = x \div Shift[n + 1] /\ Y = y \div Shift[n + 1]
                                /\ u = BitOf(x, n) /\ v = BitOf(y, n)
            OBVIOUS
        <3>4. /\ X \in Nat /\ Y \in Nat /\ u \in 0..1 /\ v \in 0..1
              /\ 2 * X + u = 2 * Y + v
            <4>1. n + 1 \in Nat
                OBVIOUS
            <4> QED
                BY <1>2, <1>3, <3>2, <3>3, <4>1
        <3>5. X = Y
            BY ONLY <3>4
        <3> QED
            BY <2>1, <3>1, <3>3, <3>5
    <2>4. S = Nat
        BY ONLY <2>2, <2>3, Fold!Induction, Zenon
    <2>5. ASSUME NEW j \in s..Bits - 1 PROVE BitOf(x, j) = BitOf(y, j)
        <3>1. j - s \in S /\ s + (j - s) = j
            BY <1>1, <2>4
        <3>2. x \div Shift[j] = y \div Shift[j]
            BY <2>1, <3>1
        <3> QED
            BY <3>2 DEF BitOf
    <2> QED
        BY <2>5
<1> QED
    BY <1>4, <1>5

\* Masked bytes are equal if the bits that the mask leaves are.
LEMMA MaskedAgree ==
    ASSUME NEW x \in 0..Shift[Bits] - 1, NEW y \in 0..Shift[Bits] - 1, NEW r \in 0..Bits
    PROVE  Masked(x, Bits - r) = Masked(y, Bits - r)
             <=> \A t \in 0..r - 1 : BitOf(x, Bits - 1 - t) = BitOf(y, Bits - 1 - t)
<1>1. PICK s \in 0..Bits : s = Bits - r
    BY ChecksAssumption
<1>2. PICK p \in Nat \ {0} : p = Shift[s]
    BY PowersOfTwo, ChecksAssumption
<1>3. x \in Nat /\ y \in Nat /\ Bits \in Nat
    BY PowersOfTwo, ChecksAssumption
<1>4. PICK a, b : a = x \div p /\ b = y \div p
    OBVIOUS
<1>5. a \in Nat /\ b \in Nat /\ Masked(x, s) = p * a /\ Masked(y, s) = p * b
    <2>1. ASSUME NEW z \in Nat, NEW c, c = z \div p PROVE c \in Nat /\ Masked(z, s) = p * c
        <3>1. PICK m : m = z % p
            OBVIOUS
        <3>2. c \in Nat /\ m \in 0..p - 1 /\ z = p * c + m
            BY <1>2, <2>1, <3>1, Division
        <3>3. PICK u \in Nat : u = p * c
            BY <1>2, <3>2
        <3>4. Masked(z, s) = z - m
            BY <1>2, <3>1 DEF Masked
        <3>5. z - m = u
            BY ONLY <1>2, <3>2, <3>3
        <3> QED
            BY <3>2, <3>3, <3>4, <3>5
    <2> QED
        BY <1>3, <1>4, <2>1
<1>6. p * a = p * b => a = b
    <2>1. ASSUME NEW c \in Nat PROVE (p * c) \div p = c
        <3>1. PICK u \in Nat : u = p * c
            BY <1>2
        <3>2. u = p * c + 0 /\ 0 \in 0..p - 1
            BY <1>2, <3>1
        <3>3. u \div p = c
            BY ONLY <1>2, <3>1, <3>2, c \in Nat, Quotient
        <3> QED
            BY <3>1, <3>3
    <2> QED
        BY <1>5, <2>1
<1>7. Masked(x, s) = Masked(y, s) <=> \A j \in s..Bits - 1 : BitOf(x, j) = BitOf(y, j)
    <2>1. x \div Shift[s] = y \div Shift[s] <=> \A j \in s..Bits - 1 : BitOf(x, j) = BitOf(y, j)
        BY BitsAbove
    <2> QED
        BY <1>2, <1>4, <1>5, <1>6, <2>1
<1>8. /\ \A t \in 0..r - 1 : Bits - 1 - t \in s..Bits - 1
      /\ \A j \in s..Bits - 1 : Bits - 1 - j \in 0..r - 1 /\ Bits - 1 - (Bits - 1 - j) = j
    BY <1>1, <1>3
<1> QED
    BY <1>1, <1>7, <1>8

\* How many bits of the byte i a prefix of n bits has, and the bytes that it fills.
Filled(n) == n \div Bits
InByte(n, i) == IF i < Filled(n) THEN Bits ELSE n - Filled(n) * Bits

\* The bytes of two addresses agree in the bits of the prefix.
Matched(y, n, a) ==
    /\ a.version = y.version
    /\ \A i \in 0..Filled(n) :
          Masked(Byte(a, i), Bits - InByte(n, i)) = Masked(Byte(y, i), Bits - InByte(n, i))

\* What addresses are.
LEMMA AddrIs ==
    ASSUME NEW a \in Addr
    PROVE  /\ a = [version |-> a.version, bytes |-> a.bytes]
           /\ a.version \in {"v4", "v6"} /\ Size[a.version] \in Nat
           /\ a.bytes \in [1..Size[a.version] -> 0..Shift[Bits] - 1]
           /\ \A i \in Nat : Byte(a, i) \in 0..Shift[Bits] - 1
<1>1. /\ DOMAIN a = {"version", "bytes"} /\ a = [x \in DOMAIN a |-> a[x]]
      /\ a.version \in DOMAIN Size /\ Size \in [{"v4", "v6"} -> Nat] /\ Bits \in Nat
      /\ a.bytes \in [1..Size[a.version] -> 0..Shift[Bits] - 1]
    BY ChecksAssumption
<1>2. a = [version |-> a.version, bytes |-> a.bytes]
    BY <1>1
<1>3. a.version \in {"v4", "v6"} /\ Size[a.version] \in Nat
    BY <1>1
<1>4. 0 \in 0..Shift[Bits] - 1
    BY <1>1, PowersOfTwo
<1>5. ASSUME NEW i \in Nat PROVE Byte(a, i) \in 0..Shift[Bits] - 1
    <2>1. i < Size[a.version] => i + 1 \in 1..Size[a.version]
        BY <1>3
    <2> QED
        BY <1>1, <1>4, <2>1 DEF Byte
<1> QED
    BY <1>1, <1>2, <1>3, <1>5

\* Products keep an order.
LEMMA Product ==
    ASSUME NEW c \in Nat, NEW i \in Nat, NEW j \in Nat, i <= j
    PROVE  c * i \in Nat /\ c * i <= c * j /\ c * (i + 1) = c * i + c
<1>1. PICK d \in Nat : j = i + d
    <2>1. j - i \in Nat /\ j = i + (j - i)
        OBVIOUS
    <2> QED
        BY <2>1
<1>2. c * j = c * i + c * d /\ c * i \in Nat /\ c * d \in Nat
    BY <1>1
<1> QED
    BY <1>2

\* A prefix and its bytes.
LEMMA PrefixIs ==
    ASSUME NEW n \in Nat
    PROVE  /\ Bits \in Nat \ {0} /\ Filled(n) \in Nat
           /\ n - Filled(n) * Bits \in 0..Bits - 1
           /\ n = Bits * Filled(n) + (n - Filled(n) * Bits)
           /\ \A i \in Nat : InByte(n, i) \in 0..Bits
<1>1. Bits \in Nat \ {0}
    BY ChecksAssumption
<1>2. PICK w \in Nat, r \in 0..Bits - 1 : w = Filled(n) /\ n = Bits * w + r
    BY <1>1, Division DEF Filled
<1>3. w * Bits = Bits * w /\ Bits * w \in Nat
    BY <1>1, <1>2
<1>4. n - w * Bits = r
    BY <1>1, <1>2, <1>3
<1>5. \A i \in Nat : InByte(n, i) \in 0..Bits
    BY <1>1, <1>2, <1>4 DEF InByte
<1> QED
    BY <1>1, <1>2, <1>4, <1>5

\* The bits of a prefix: k is bit t of byte i.
LEMMA BitPlace ==
    ASSUME NEW n \in Nat, NEW k \in Nat, NEW i \in Nat, NEW t \in 0..Bits - 1, k = Bits * i + t
    PROVE  /\ k \div Bits = i /\ k % Bits = t
           /\ k < n <=> i <= Filled(n) /\ t < InByte(n, i)
<1>1. Bits \in Nat \ {0}
    BY ChecksAssumption
<1>2. k \div Bits = i /\ k % Bits = t
    BY ONLY <1>1, k \in Nat, i \in Nat, t \in 0..Bits - 1, k = Bits * i + t, Quotient
<1>3. PICK w \in Nat, r \in 0..Bits - 1 : w = Filled(n) /\ r = n - w * Bits /\ n = Bits * w + r
    BY PrefixIs
<1>4. CASE i < w
    <2>1. Bits * (i + 1) <= Bits * w /\ Bits * (i + 1) = Bits * i + Bits
        <3>1. i + 1 \in Nat /\ i + 1 <= w /\ i <= i
            BY <1>3, <1>4
        <3>2. Bits * (i + 1) <= Bits * w
            BY ONLY <1>1, <1>3, <3>1, Product
        <3>3. Bits * (i + 1) = Bits * i + Bits
            BY ONLY <1>1, <3>1, i \in Nat, Product
        <3> QED
            BY <3>2, <3>3
    <2>2. Bits * i \in Nat /\ Bits * w \in Nat
        BY <1>1, <1>3
    <2>3. k < n
        BY <1>1, <1>3, <2>1, <2>2
    <2> QED
        BY <1>1, <1>2, <1>3, <1>4, <2>3 DEF InByte
<1>5. CASE i = w
    <2>1. PICK u \in Nat : u = Bits * w
        BY <1>1, <1>3
    <2>2. k = u + t /\ n = u + r
        BY <1>3, <1>5, <2>1
    <2>3. k < n <=> t < r
        BY ONLY <2>1, <2>2, <1>1, <1>3, t \in 0..Bits - 1
    <2>4. ~(w < w) /\ i <= w
        BY ONLY w \in Nat, <1>5
    <2>5. InByte(n, i) = r
        BY ONLY <1>3, <1>5, <2>4, Zenon DEF InByte
    <2> QED
        BY ONLY <1>2, <1>3, <2>3, <2>4, <2>5
<1>6. CASE i > w
    <2>1. Bits * (w + 1) <= Bits * i /\ Bits * (w + 1) = Bits * w + Bits
        <3>1. w + 1 \in Nat /\ w + 1 <= i /\ w <= w
            BY <1>3, <1>6
        <3>2. Bits * (w + 1) <= Bits * i
            BY ONLY <1>1, <3>1, i \in Nat, Product
        <3>3. Bits * (w + 1) = Bits * w + Bits
            BY ONLY <1>1, <1>3, <3>1, Product
        <3> QED
            BY <3>2, <3>3
    <2>2. Bits * i \in Nat /\ Bits * w \in Nat
        BY <1>1, <1>3
    <2>3. ~(k < n)
        BY <1>1, <1>3, <2>1, <2>2
    <2> QED
        BY <1>2, <1>3, <1>6, <2>3
<1> QED
    BY <1>3, <1>4, <1>5, <1>6

\* Bit by bit and byte by byte are the same.
LEMMA CoversMatched ==
    ASSUME NEW a \in Addr, NEW y \in Addr, NEW n \in 0..Longest(y.version)
    PROVE  Covers([ip |-> y, len |-> n], a) <=> Matched(y, n, a)
<1>1. PICK B : B = Bits
    OBVIOUS
<1>2. /\ B \in Nat \ {0} /\ n \in Nat
      /\ Size[a.version] \in Nat /\ Size[y.version] \in Nat
      /\ \A i \in Nat : /\ Byte(a, i) \in 0..Shift[Bits] - 1
                        /\ Byte(y, i) \in 0..Shift[Bits] - 1
                        /\ InByte(n, i) \in 0..Bits
    <2>1. B \in Nat \ {0} /\ Size[y.version] \in Nat /\ B * Size[y.version] \in Nat
        BY <1>1, AddrIs, ChecksAssumption
    <2>2. n \in Nat
        BY <1>1, <2>1 DEF Longest
    <2> QED
        BY <2>1, <2>2, AddrIs, PrefixIs
<1>3. SUFFICES ASSUME a.version = y.version
               PROVE  Covers([ip |-> y, len |-> n], a) <=> Matched(y, n, a)
    BY DEF Covers, Matched
<1>4. Matched(y, n, a) <=>
        \A i \in 0..Filled(n) : \A t \in 0..InByte(n, i) - 1 :
            BitOf(Byte(a, i), B - 1 - t) = BitOf(Byte(y, i), B - 1 - t)
    <2>1. Filled(n) \in Nat
        BY <1>2, PrefixIs
    <2>2. ASSUME NEW i \in 0..Filled(n)
          PROVE  Masked(Byte(a, i), Bits - InByte(n, i)) = Masked(Byte(y, i), Bits - InByte(n, i))
                   <=> \A t \in 0..InByte(n, i) - 1 :
                         BitOf(Byte(a, i), B - 1 - t) = BitOf(Byte(y, i), B - 1 - t)
        <3>1. PICK p, q, r : p = Byte(a, i) /\ q = Byte(y, i) /\ r = InByte(n, i)
            OBVIOUS
        <3>2. p \in 0..Shift[Bits] - 1 /\ q \in 0..Shift[Bits] - 1 /\ r \in 0..Bits
            BY <1>2, <2>1, <3>1
        <3>3. Masked(p, Bits - r) = Masked(q, Bits - r)
                <=> \A t \in 0..r - 1 : BitOf(p, Bits - 1 - t) = BitOf(q, Bits - 1 - t)
            BY ONLY <3>2, MaskedAgree
        <3> QED
            BY ONLY <1>1, <3>1, <3>3
    <2> QED
        BY <1>3, <2>2 DEF Matched
<1>5. Covers([ip |-> y, len |-> n], a) <=>
        \A k \in 0..n - 1 : BitOf(a.bytes[k \div B + 1], B - 1 - (k % B))
                          = BitOf(y.bytes[k \div B + 1], B - 1 - (k % B))
    BY <1>1, <1>3 DEF Covers, BitOf
<1>6. \A k \in 0..n - 1 : /\ k \div B \in Nat /\ k % B \in 0..B - 1 /\ k = B * (k \div B) + (k % B)
                          /\ k \div B < Size[a.version]
    <2>1. ASSUME NEW k \in 0..n - 1
          PROVE  /\ k \div B \in Nat /\ k % B \in 0..B - 1 /\ k = B * (k \div B) + (k % B)
                 /\ k \div B < Size[a.version]
        <3>1. PICK i, t : i = k \div B /\ t = k % B
            OBVIOUS
        <3>0. i \in Nat /\ t \in 0..B - 1 /\ k = B * i + t
            <4>1. k \in Nat
                BY <1>2
            <4>2. k \div B \in Nat /\ k % B \in 0..B - 1 /\ k = B * (k \div B) + (k % B)
                BY ONLY <1>2, <4>1, Division
            <4> QED
                BY ONLY <3>1, <4>2
        <3>2. PICK s \in Nat : s = Size[a.version]
            BY <1>2
        <3>3. k < B * s
            BY <1>1, <1>2, <1>3, <3>2 DEF Longest
        <3>4. i < s
            <4>1. SUFFICES ASSUME s <= i PROVE FALSE
                BY <3>1, <3>2
            <4>2. B * s <= B * i /\ B * s \in Nat /\ B * i \in Nat
                BY ONLY <1>2, <3>1, <3>2, <4>1, Product
            <4> QED
                BY <1>2, <3>1, <3>3, <4>2
        <3> QED
            BY ONLY <3>0, <3>1, <3>2, <3>4
    <2> QED
        BY <2>1
<1>7. ASSUME NEW i \in Nat, NEW t \in 0..B - 1
      PROVE  /\ B * i + t \in Nat /\ (B * i + t) \div B = i /\ (B * i + t) % B = t
             /\ B * i + t < n <=> i <= Filled(n) /\ t < InByte(n, i)
    <2>1. PICK k \in Nat : k = B * i + t
        BY <1>2
    <2>2. /\ k \div Bits = i /\ k % Bits = t
          /\ k < n <=> i <= Filled(n) /\ t < InByte(n, i)
        BY ONLY <1>1, <1>2, <2>1, i \in Nat, t \in 0..B - 1, BitPlace
    <2> QED
        BY <1>1, <2>1, <2>2
<1>8. \A i \in Nat : i < Size[a.version] => Byte(a, i) = a.bytes[i + 1] /\ Byte(y, i) = y.bytes[i + 1]
    BY <1>3 DEF Byte
<1>9. ASSUME Matched(y, n, a), NEW k \in 0..n - 1
      PROVE  BitOf(a.bytes[k \div B + 1], B - 1 - (k % B)) = BitOf(y.bytes[k \div B + 1], B - 1 - (k % B))
    <2>1. PICK i \in Nat, t \in 0..B - 1 : i = k \div B /\ t = k % B /\ k = B * i + t /\ i < Size[a.version]
        BY <1>6
    <2>2. i <= Filled(n) /\ t < InByte(n, i)
        <3>1. B * i + t < n
            BY <1>2, <2>1
        <3> QED
            BY ONLY <1>7, <2>1, <3>1
    <2>3. i \in 0..Filled(n) /\ t \in 0..InByte(n, i) - 1
        <3>1. Filled(n) \in Nat /\ InByte(n, i) \in 0..Bits
            BY <1>2, <2>1, PrefixIs
        <3>2. PICK w, r : w = Filled(n) /\ r = InByte(n, i)
            OBVIOUS
        <3> QED
            BY ONLY <1>1, <1>2, <2>1, <2>2, <3>1, <3>2
    <2>4. BitOf(Byte(a, i), B - 1 - t) = BitOf(Byte(y, i), B - 1 - t)
        BY <1>4, <1>9, <2>3
    <2> QED
        BY <1>8, <2>1, <2>4
<1>10. ASSUME Covers([ip |-> y, len |-> n], a), NEW i \in 0..Filled(n), NEW t \in 0..InByte(n, i) - 1
       PROVE  BitOf(Byte(a, i), B - 1 - t) = BitOf(Byte(y, i), B - 1 - t)
    <2>1. i \in Nat /\ t \in 0..B - 1 /\ i <= Filled(n) /\ t < InByte(n, i)
        <3>1. Filled(n) \in Nat
            BY <1>2, PrefixIs
        <3>2. i \in Nat /\ i <= Filled(n)
            BY ONLY <3>1, i \in 0..Filled(n)
        <3>3. InByte(n, i) \in 0..Bits
            BY <1>2, <3>2
        <3> QED
            BY ONLY <1>1, <1>2, <3>2, <3>3, t \in 0..InByte(n, i) - 1
    <2>2. PICK k \in 0..n - 1 : k = B * i + t
        BY <1>2, <1>7, <2>1
    <2>3. k \div B = i /\ k % B = t
        BY <1>7, <2>1, <2>2
    <2>4. i < Size[a.version]
        BY <1>6, <2>3
    <2> QED
        BY <1>5, <1>8, <1>10, <2>1, <2>2, <2>3, <2>4
<1> QED
    BY <1>4, <1>5, <1>9, <1>10

\* The bits that ip_in_range masks out.
LEMMA LowIs ==
    ASSUME NEW n \in Nat, NEW i \in 0..Filled(n)
    PROVE  (IF i * Bits + Bits < n THEN 0 ELSE Bits - (n - i * Bits)) = Bits - InByte(n, i)
<1>1. Bits \in Nat \ {0}
    BY ChecksAssumption
<1>2. PICK w \in Nat, r \in 0..Bits - 1 : w = Filled(n) /\ r = n - w * Bits /\ n = Bits * w + r
    BY PrefixIs
<1>3. i \in Nat /\ i <= w
    BY <1>2
<1>4. PICK u \in Nat, v \in Nat : u = Bits * i /\ v = Bits * w
    <2>1. i <= i /\ w <= w
        BY ONLY <1>3, w \in Nat
    <2>2. Bits * i \in Nat /\ Bits * w \in Nat
        BY ONLY <1>1, <1>3, <2>1, w \in Nat, Product
    <2> QED
        BY ONLY <2>2, Zenon
<1>5. i * Bits = u
    BY <1>1, <1>3, <1>4
<1>6. CASE i < w
    <2>1. u + Bits <= v
        <3>1. i + 1 \in Nat /\ i + 1 <= w /\ i <= i
            BY <1>2, <1>3, <1>6
        <3>2. Bits * (i + 1) <= Bits * w
            BY ONLY <1>1, <1>2, <3>1, Product
        <3>3. Bits * (i + 1) = Bits * i + Bits
            BY ONLY <1>1, <1>3, <3>1, Product
        <3> QED
            BY <1>4, <3>2, <3>3
    <2>2. InByte(n, i) = Bits
        BY <1>2, <1>6 DEF InByte
    <2>3. n = v + r
        BY <1>2, <1>4
    <2>4. (IF u + Bits < n THEN 0 ELSE Bits - (n - u)) = 0
        BY ONLY <1>1, <1>4, <2>1, <2>3, r \in 0..Bits - 1, n \in Nat
    <2> QED
        BY ONLY <1>1, <1>5, <2>2, <2>4
<1>7. CASE i = w
    <2>1. ~(w < w)
        BY ONLY w \in Nat, <1>7
    <2>2. InByte(n, i) = r
        BY ONLY <1>2, <1>7, <2>1, Zenon DEF InByte
    <2>3. u = v /\ n = v + r
        BY <1>2, <1>4, <1>7
    <2>4. (IF u + Bits < n THEN 0 ELSE Bits - (n - u)) = Bits - r
        BY ONLY <1>1, <1>4, <2>3, r \in 0..Bits - 1, n \in Nat
    <2> QED
        BY ONLY <1>5, <2>2, <2>4
<1> QED
    BY ONLY <1>2, <1>3, <1>6, <1>7

\* ip_in_range compares the bits of the prefix.
LEMMA InRangeMatched ==
    ASSUME NEW a, NEW y, NEW n \in Nat
    PROVE  InRange([ip |-> y, len |-> n], a) <=> Matched(y, n, a)
<1>1. ASSUME NEW i \in 0..Filled(n)
      PROVE  (LET low == IF i * Bits + Bits < n THEN 0 ELSE Bits - (n - i * Bits)
              IN Masked(Byte(a, i), low) = Masked(Byte(y, i), low))
               <=> Masked(Byte(a, i), Bits - InByte(n, i)) = Masked(Byte(y, i), Bits - InByte(n, i))
    <2>1. (IF i * Bits + Bits < n THEN 0 ELSE Bits - (n - i * Bits)) = Bits - InByte(n, i)
        BY LowIs
    <2> QED
        BY ONLY <2>1, Zenon
<1>2. PICK rg : rg = [ip |-> y, len |-> n]
    OBVIOUS
<1>3. rg.ip = y /\ rg.len = n
    BY ONLY <1>2
<1>4. InRange(rg, a) <=>
        /\ a.version = y.version
        /\ \A i \in 0..Filled(n) :
              LET low == IF i * Bits + Bits < n THEN 0 ELSE Bits - (n - i * Bits)
              IN Masked(Byte(a, i), low) = Masked(Byte(y, i), low)
    BY ONLY <1>3, Zenon DEF InRange, Filled
<1>5. InRange(rg, a) <=> Matched(y, n, a)
    BY ONLY <1>1, <1>4, Zenon DEF Matched
<1> QED
    BY ONLY <1>2, <1>5, Zenon

\* The bytes of a normalised prefix.
NormalBytes(y, n) ==
    [i \in 1..Size[y.version] |->
        IF i <= Filled(n) THEN y.bytes[i]
        ELSE IF i = Filled(n) + 1 THEN Masked(y.bytes[i], Bits - (n - Filled(n) * Bits)) ELSE 0]

\* normalize_ip_range leaves the version and the length alone.
LEMMA NormalizedIs ==
    ASSUME NEW y \in Addr, NEW n
    PROVE  Normalized([ip |-> y, len |-> n])
             = [ip |-> [version |-> y.version, bytes |-> NormalBytes(y, n)], len |-> n]
<1>1. PICK v, b : v = y.version /\ b = y.bytes
    OBVIOUS
<1>2. y = [version |-> v, bytes |-> b] /\ DOMAIN b = 1..Size[v]
    BY <1>1, AddrIs
<1>3. PICK rg : rg = [ip |-> [version |-> v, bytes |-> b], len |-> n]
    OBVIOUS
<1>4. rg.len = n /\ rg.ip.bytes = b
    BY <1>3
<1>5. Normalized(rg) = [rg EXCEPT !.ip.bytes = NormalBytes(y, n)]
    <2>1. Normalized(rg) =
            [rg EXCEPT !.ip.bytes =
                [i \in DOMAIN @ |-> IF i <= Filled(n) THEN @[i]
                                    ELSE IF i = Filled(n) + 1 THEN Masked(@[i], Bits - (n - Filled(n) * Bits)) ELSE 0]]
        BY ONLY <1>4 DEF Normalized, Filled
    <2>2. NormalBytes(y, n) =
            [i \in DOMAIN b |-> IF i <= Filled(n) THEN b[i]
                                ELSE IF i = Filled(n) + 1 THEN Masked(b[i], Bits - (n - Filled(n) * Bits)) ELSE 0]
        BY ONLY <1>1, <1>2 DEF NormalBytes
    <2> QED
        BY ONLY <1>4, <2>1, <2>2
<1>6. [rg EXCEPT !.ip.bytes = NormalBytes(y, n)]
        = [ip |-> [version |-> v, bytes |-> NormalBytes(y, n)], len |-> n]
    BY ONLY <1>3
<1> QED
    BY ONLY <1>1, <1>2, <1>3, <1>5, <1>6

\* Normalised prefixes are equal if they are as long and their bits agree.
LEMMA NormalizedMatched ==
    ASSUME NEW a \in Addr, NEW y \in Addr, NEW m \in Nat, NEW n \in Nat
    PROVE  Normalized([ip |-> a, len |-> m]) = Normalized([ip |-> y, len |-> n])
             <=> m = n /\ Matched(y, n, a)
<1>1. Normalized([ip |-> a, len |-> m]) = Normalized([ip |-> y, len |-> n])
        <=> m = n /\ a.version = y.version /\ NormalBytes(a, m) = NormalBytes(y, n)
    <2>1. PICK f, g, v, u : f = NormalBytes(a, m) /\ g = NormalBytes(y, n) /\ v = a.version /\ u = y.version
        OBVIOUS
    <2>2. /\ Normalized([ip |-> a, len |-> m]) = [ip |-> [version |-> v, bytes |-> f], len |-> m]
          /\ Normalized([ip |-> y, len |-> n]) = [ip |-> [version |-> u, bytes |-> g], len |-> n]
        BY ONLY <2>1, NormalizedIs, a \in Addr, y \in Addr, Zenon
    <2>3. [ip |-> [version |-> v, bytes |-> f], len |-> m] = [ip |-> [version |-> u, bytes |-> g], len |-> n]
            <=> m = n /\ v = u /\ f = g
        BY ONLY TRUE
    <2> QED
        BY ONLY <2>1, <2>2, <2>3, Zenon
<1>2. SUFFICES ASSUME m = n, a.version = y.version
               PROVE  NormalBytes(a, n) = NormalBytes(y, n) <=> Matched(y, n, a)
    BY <1>1 DEF Matched
<1>3. PICK w \in Nat : w = Filled(n)
    BY PrefixIs
<1>4. PICK s \in Nat : s = Size[a.version] /\ s = Size[y.version]
    BY <1>2, AddrIs
<1>5. PICK l : l = Bits - (n - w * Bits)
    OBVIOUS
<1>6. Bits - InByte(n, w) = l
    <2>1. ~(w < w)
        BY <1>3
    <2> QED
        BY ONLY <1>3, <1>5, <2>1, Zenon DEF InByte
<1>7. \A i \in Nat : i < w => Bits - InByte(n, i) = 0
    BY <1>3, ChecksAssumption DEF InByte
<1>8. ASSUME NEW x \in 0..Shift[Bits] - 1 PROVE Masked(x, 0) = x
    <2>1. x \in Nat /\ x % 1 = 0
        BY PowersOfTwo, ChecksAssumption
    <2>2. Shift[0] = 1
        BY PowersOfTwo
    <2> QED
        BY ONLY <2>1, <2>2 DEF Masked
<1>9. \A i \in Nat : /\ i < s => i + 1 \in 1..s /\ Byte(a, i) = a.bytes[i + 1] /\ Byte(y, i) = y.bytes[i + 1]
                     /\ ~(i < s) => Byte(a, i) = 0 /\ Byte(y, i) = 0
                     /\ Byte(a, i) \in 0..Shift[Bits] - 1 /\ Byte(y, i) \in 0..Shift[Bits] - 1
    <2>1. ASSUME NEW i \in Nat
          PROVE  i < s => i + 1 \in 1..s /\ Byte(a, i) = a.bytes[i + 1] /\ Byte(y, i) = y.bytes[i + 1]
        BY <1>4 DEF Byte
    <2>2. ASSUME NEW i \in Nat PROVE ~(i < s) => Byte(a, i) = 0 /\ Byte(y, i) = 0
        BY ONLY <1>4, <2>2 DEF Byte
    <2>3. ASSUME NEW i \in Nat
          PROVE  Byte(a, i) \in 0..Shift[Bits] - 1 /\ Byte(y, i) \in 0..Shift[Bits] - 1
        BY AddrIs
    <2> QED
        BY ONLY <2>1, <2>2, <2>3, Zenon
<1>10. Matched(y, n, a) <=> \A i \in 0..w : IF i < w THEN Byte(a, i) = Byte(y, i)
                                            ELSE Masked(Byte(a, i), l) = Masked(Byte(y, i), l)
    <2>1. ASSUME NEW i \in 0..w
          PROVE  Masked(Byte(a, i), Bits - InByte(n, i)) = Masked(Byte(y, i), Bits - InByte(n, i))
                   <=> IF i < w THEN Byte(a, i) = Byte(y, i)
                       ELSE Masked(Byte(a, i), l) = Masked(Byte(y, i), l)
        <3>1. i \in Nat /\ (~(i < w) => i = w)
            BY <1>3
        <3>2. CASE i < w
            <4>1. Bits - InByte(n, i) = 0
                BY <1>7, <3>1, <3>2
            <4>2. Masked(Byte(a, i), 0) = Byte(a, i) /\ Masked(Byte(y, i), 0) = Byte(y, i)
                BY <1>8, <1>9, <3>1
            <4> QED
                BY ONLY <3>2, <4>1, <4>2, Zenon
        <3>3. CASE ~(i < w)
            BY ONLY <1>6, <3>1, <3>3, Zenon
        <3> QED
            BY ONLY <3>2, <3>3
    <2> QED
        BY ONLY <1>2, <1>3, <2>1, Zenon DEF Matched
<1>11. NormalBytes(a, n) = NormalBytes(y, n) <=>
         \A j \in 1..s : /\ j <= w => a.bytes[j] = y.bytes[j]
                         /\ j = w + 1 => Masked(a.bytes[j], l) = Masked(y.bytes[j], l)
    <2>1. PICK f, g : f = NormalBytes(a, n) /\ g = NormalBytes(y, n)
        OBVIOUS
    <2>2. /\ f = [j \in 1..s |-> IF j <= w THEN a.bytes[j]
                                 ELSE IF j = w + 1 THEN Masked(a.bytes[j], l) ELSE 0]
          /\ g = [j \in 1..s |-> IF j <= w THEN y.bytes[j]
                                 ELSE IF j = w + 1 THEN Masked(y.bytes[j], l) ELSE 0]
        BY ONLY <1>3, <1>4, <1>5, <2>1 DEF NormalBytes
    <2>3. f = g <=> \A j \in 1..s : f[j] = g[j]
        BY ONLY <2>2
    <2>4. ASSUME NEW j \in 1..s
          PROVE  f[j] = g[j] <=> /\ j <= w => a.bytes[j] = y.bytes[j]
                                 /\ j = w + 1 => Masked(a.bytes[j], l) = Masked(y.bytes[j], l)
        <3>1. ~(j <= w /\ j = w + 1)
            BY <1>3
        <3> QED
            BY ONLY <2>2, <3>1, j \in 1..s
    <2> QED
        BY ONLY <2>1, <2>3, <2>4
<1>12. ASSUME NormalBytes(a, n) = NormalBytes(y, n), NEW i \in 0..w
       PROVE  IF i < w THEN Byte(a, i) = Byte(y, i) ELSE Masked(Byte(a, i), l) = Masked(Byte(y, i), l)
    <2>1. i \in Nat /\ (~(i < w) => i = w) /\ (i < w => i + 1 <= w)
        BY <1>3
    <2>2. CASE i < s
        BY ONLY <1>9, <1>11, <1>12, <2>1, <2>2
    <2>3. CASE ~(i < s)
        BY ONLY <1>9, <2>1, <2>3
    <2> QED
        BY ONLY <2>2, <2>3
<1>13. ASSUME Matched(y, n, a), NEW j \in 1..s
       PROVE  /\ j <= w => a.bytes[j] = y.bytes[j]
              /\ j = w + 1 => Masked(a.bytes[j], l) = Masked(y.bytes[j], l)
    <2>1. PICK i \in Nat : i = j - 1 /\ i + 1 = j /\ i < s
        BY <1>4
    <2>2. (j <= w => i \in 0..w /\ i < w) /\ (j = w + 1 => i \in 0..w /\ ~(i < w))
        BY <1>3, <2>1
    <2>3. Byte(a, i) = a.bytes[j] /\ Byte(y, i) = y.bytes[j]
        BY <1>9, <2>1
    <2> QED
        BY ONLY <1>10, <1>13, <2>2, <2>3
<1> QED
    BY ONLY <1>10, <1>11, <1>12, <1>13

\* Bans are of addresses and of prefixes of any length.
RangesOfBans == \A x \in made : \E y \in Addr : \E n \in Nat : x.range = [ip |-> y, len |-> n]

\* The prefix of the flood ban is none too long for an address, of either version.
LEMMA LongestIs ==
    ASSUME NEW a \in Addr
    PROVE  Longest("v4") \in 0..Longest(a.version) /\ Longest(a.version) \in Nat
<1>1. Bits \in Nat /\ Size["v4"] \in Nat /\ Size[a.version] \in Nat /\ Size["v4"] <= Size[a.version]
    BY AddrIs, ChecksAssumption
<1>2. PICK s, t : s = Size["v4"] /\ t = Size[a.version]
    OBVIOUS
<1>3. s \in Nat /\ t \in Nat /\ s <= t
    BY <1>1, <1>2
<1>4. Bits * s \in Nat /\ Bits * s <= Bits * t /\ Bits * t \in Nat
    BY ONLY <1>1, <1>3, Product
<1> QED
    BY ONLY <1>2, <1>4 DEF Longest

\* Nobody makes another ban than that.
LEMMA RangesKept == CheckSpec => []RangesOfBans
<1>1. CheckInit => RangesOfBans
    BY DEF CheckInit, RangesOfBans
<1>2. RangesOfBans /\ [CheckNext]_checkVars => RangesOfBans'
    <2>1. SUFFICES ASSUME RangesOfBans, [CheckNext]_checkVars
                   PROVE  RangesOfBans'
        OBVIOUS
    <2>2. CASE \E a, proxy \in Addr, b \in BoardId : Post(a, {proxy}, b)
        <3>1. PICK a \in Addr : \E proxy \in Addr, b \in BoardId : Post(a, {proxy}, b)
            BY <2>2
        <3>2. PICK n : n = Longest("v4")
            OBVIOUS
        <3>3. n \in Nat
            BY <3>2, LongestIs
        <3>4. \A x \in made' : x \in made \/ x.range = [ip |-> a, len |-> n]
            BY <3>1, <3>2 DEF Post, Purged
        <3> QED
            BY <2>1, <3>3, <3>4 DEF RangesOfBans
    <2>3. CASE \E range \in BanRanges, b \in BoardId \cup {None}, d \in Duration : MakeBan(range, b, d)
        <3>1. PICK range \in BanRanges : \A x \in made' : x \in made \/ x.range = range
            BY <2>3 DEF MakeBan
        <3>2. \E y \in Addr : \E n \in Nat : range = [ip |-> y, len |-> n]
            BY DEF BanRanges
        <3> QED
            BY <2>1, <3>1, <3>2 DEF RangesOfBans
    <2>4. CASE \E x \in made : Unban(x)
        BY <2>1, <2>4 DEF Unban, RangesOfBans
    <2>5. CASE TickClock
        BY <2>1, <2>5 DEF TickClock, RangesOfBans
    <2>6. CASE UNCHANGED checkVars
        BY <2>1, <2>6 DEF checkVars, RangesOfBans
    <2> QED
        BY <2>1, <2>2, <2>3, <2>4, <2>5, <2>6 DEF CheckNext
<1> QED
    BY <1>1, <1>2, PTL DEF CheckSpec

\* The bans found for an address are those whose bits are its first ones, and ip_in_range
\* finds the same (find_bans, normalize_ip_range, ip_in_range); a ban whose prefix is
\* longer than its address is found for none.
THEOREM BansEnforced == CheckSpec => []Enforced
<1>1. RangesOfBans => Enforced
    <2>1. SUFFICES ASSUME RangesOfBans, NEW a \in Addr
                   PROVE  /\ FindBans(a) = {x \in made : Fits(x.range) /\ Covers(x.range, a)}
                          /\ \A x \in made : Fits(x.range) => (InRange(x.range, a) <=> Covers(x.range, a))
        BY DEF Enforced
    <2>2. ASSUME NEW x \in made
          PROVE  /\ Fits(x.range) => (InRange(x.range, a) <=> Covers(x.range, a))
                 /\ x \in FindBans(a) <=> Fits(x.range) /\ Covers(x.range, a)
        <3>0. PICK y \in Addr : \E n \in Nat : x.range = [ip |-> y, len |-> n]
            BY <2>1 DEF RangesOfBans
        <3>1. PICK n \in Nat : x.range = [ip |-> y, len |-> n]
            BY <3>0
        <3>2. PICK rg : rg = [ip |-> y, len |-> n]
            OBVIOUS
        <3>3. Fits(rg) <=> n \in 0..Longest(y.version)
            <4>1. rg.ip = y /\ rg.len = n
                BY <3>2
            <4>2. Fits(rg) <=> n <= Longest(y.version)
                BY ONLY <4>1, Zenon DEF Fits
            <4>3. Longest(y.version) \in Nat
                BY LongestIs
            <4> QED
                BY <4>2, <4>3
        <3>4. Fits(rg) => (Covers(rg, a) <=> Matched(y, n, a))
            <4>1. SUFFICES ASSUME n \in 0..Longest(y.version) PROVE Covers(rg, a) <=> Matched(y, n, a)
                BY <3>3
            <4> QED
                BY ONLY <3>2, <4>1, a \in Addr, y \in Addr, CoversMatched
        <3>5. InRange(rg, a) <=> Matched(y, n, a)
            BY ONLY <3>2, n \in Nat, InRangeMatched
        <3>6. x \in FindBans(a) <=>
                \E m \in 0..Longest(a.version) : Normalized(rg) = Normalized([ip |-> a, len |-> m])
            BY ONLY <3>1, <3>2, x \in made, Zenon DEF FindBans
        <3>7. ASSUME NEW m \in 0..Longest(a.version)
              PROVE  Normalized(rg) = Normalized([ip |-> a, len |-> m]) <=> m = n /\ Matched(y, n, a)
            <4>1. m \in Nat
                BY LongestIs
            <4>2. Normalized([ip |-> a, len |-> m]) = Normalized([ip |-> y, len |-> n])
                    <=> m = n /\ Matched(y, n, a)
                BY ONLY <4>1, a \in Addr, y \in Addr, n \in Nat, NormalizedMatched
            <4> QED
                BY ONLY <3>2, <4>2, Zenon
        <3>8. Matched(y, n, a) => (n \in 0..Longest(a.version) <=> Fits(rg))
            <4>1. Matched(y, n, a) => a.version = y.version
                BY DEF Matched
            <4> QED
                BY ONLY <3>3, <4>1, Zenon
        <3>9. x \in FindBans(a) <=> Fits(rg) /\ Matched(y, n, a)
            BY ONLY <3>6, <3>7, <3>8
        <3> QED
            BY ONLY <3>1, <3>2, <3>4, <3>5, <3>9
    <2>3. FindBans(a) \subseteq made
        BY DEF FindBans
    <2> QED
        BY <2>2, <2>3
<1> QED
    BY <1>1, RangesKept, PTL

-----------------------------------------------------------------------------
(* BanIndex and Moderation. *)

\* delete_ban_from_hashmap of one ban after the other.
Deleting == INSTANCE Folding WITH Op <- DeleteFromHashmap

\* The bans of L that have the range r.
OfRange(i, L, r) == {b \in L : i.range[b] = r}

\* The bans of one range, as a list without a pointer to the last.
RangeList(i, L, r) == [first |-> Get(i, r), last |-> Nil,
                       next  |-> [b \in OfRange(i, L, r) |-> i.next[b]],
                       prev  |-> [b \in OfRange(i, L, r) |-> i.prev[b]]]

\* The shape of the index, of bans among which are those of L.
Shaped(i, L) ==
    /\ i = [tbl |-> i.tbl, range |-> i.range, prev |-> i.prev, next |-> i.next]
    /\ L \subseteq Ban /\ L \subseteq DOMAIN i.range
    /\ i.range \in [DOMAIN i.range -> IpRange]
    /\ i.next \in [DOMAIN i.range -> Ban \cup {Nil}]
    /\ i.prev \in [DOMAIN i.range -> Ban \cup {Nil}]
    /\ \A e \in i.tbl : e.ban \in L /\ e = [slot |-> i.range[e.ban], ban |-> e.ban]
    /\ \A e, f \in i.tbl : e.slot = f.slot => e = f

\* The index i is of the bans of L.
Indexed(i, L) ==
    /\ Shaped(i, L)
    /\ \A r \in IpRange : \E s, n : Holds(RangeList(i, L, r), s, n)

\* The fields of the list of one range.
LEMMA RangeListIs ==
    ASSUME NEW i, NEW L, NEW r
    PROVE  LET l == RangeList(i, L, r)
           IN /\ Nodes(l) = OfRange(i, L, r) /\ DOMAIN l.next = OfRange(i, L, r)
              /\ DOMAIN l.prev = OfRange(i, L, r)
              /\ l.first = Get(i, r) /\ l.last = Nil
              /\ \A b \in OfRange(i, L, r) : l.next[b] = i.next[b] /\ l.prev[b] = i.prev[b]
BY DEF RangeList, Nodes

\* What is found under a range is its only entry.
LEMMA GetIs ==
    ASSUME NEW i, NEW L, Shaped(i, L), NEW r
    PROVE  /\ Hits(i, r) = {e \in i.tbl : e.slot = r}
           /\ Get(i, r) = Nil => Hits(i, r) = {}
           /\ Get(i, r) # Nil => /\ Get(i, r) \in OfRange(i, L, r)
                                 /\ Hits(i, r) = {[slot |-> r, ban |-> Get(i, r)]}
           /\ \A b : [slot |-> r, ban |-> b] \in i.tbl => Get(i, r) = b
<1>1. Hits(i, r) = {e \in i.tbl : e.slot = r}
    BY DEF Hits, Shaped
<1>2. ASSUME NEW e \in Hits(i, r) PROVE Hits(i, r) = {e} /\ Get(i, r) = e.ban
                                        /\ e = [slot |-> r, ban |-> e.ban]
    <2>1. Hits(i, r) = {e}
        BY <1>1 DEF Shaped
    <2>2. (CHOOSE x \in Hits(i, r) : TRUE) = e
        BY <2>1
    <2>3. Get(i, r) = e.ban
        BY <2>1, <2>2 DEF Get
    <2>4. e = [slot |-> i.range[e.ban], ban |-> e.ban] /\ e.slot = r
        BY <1>1 DEF Shaped
    <2> QED
        BY <2>1, <2>3, <2>4
<1>3. CASE Hits(i, r) = {}
    <2>1. Get(i, r) = Nil
        BY <1>3 DEF Get
    <2>2. \A b : [slot |-> r, ban |-> b] \notin i.tbl
        BY <1>1, <1>3
    <2> QED
        BY <1>1, <1>3, <2>1, <2>2
<1>4. CASE Hits(i, r) # {}
    <2>1. PICK e \in Hits(i, r) : TRUE
        BY <1>4
    <2>2. Hits(i, r) = {e} /\ Get(i, r) = e.ban /\ e = [slot |-> r, ban |-> e.ban]
        BY <1>2
    <2>3. e.ban \in L /\ e.slot = i.range[e.ban] /\ e.ban \in Ban
        <3>1. e \in i.tbl /\ e = [slot |-> i.range[e.ban], ban |-> e.ban] /\ e.ban \in L /\ L \subseteq Ban
            BY <1>1 DEF Shaped
        <3> QED
            BY <3>1
    <2>4. e.ban # Nil
        BY <2>3, BanAssumption
    <2>5. e.slot = r
        BY <2>2
    <2>6. e.ban \in OfRange(i, L, r)
        BY <2>3, <2>5 DEF OfRange
    <2>7. \A b : [slot |-> r, ban |-> b] \in i.tbl => [slot |-> r, ban |-> b] = e
        BY <1>1, <2>2
    <2> QED
        BY <1>1, <2>2, <2>4, <2>6, <2>7
<1> QED
    BY <1>3, <1>4

\* The index that the program starts with.
LEMMA NoBansIndexed == Indexed(NoBans, {})
<1>1. PICK i : i = NoBans
    OBVIOUS
<1>2. i = [tbl |-> {}, range |-> [b \in {} |-> Nil], prev |-> [b \in {} |-> Nil], next |-> [b \in {} |-> Nil]]
    BY <1>1 DEF NoBans
<1>3. DOMAIN i.range = {} /\ DOMAIN i.prev = {} /\ DOMAIN i.next = {} /\ i.tbl = {}
      /\ i.range = [b \in {} |-> Nil]
    BY <1>2
<1>4. i = [tbl |-> i.tbl, range |-> i.range, prev |-> i.prev, next |-> i.next]
    BY <1>2
<1>5. Shaped(i, {})
    <2>1. i.next \in [{} -> Ban \cup {Nil}] /\ i.prev \in [{} -> Ban \cup {Nil}]
        BY <1>2
    <2> QED
        BY <1>3, <1>4, <2>1 DEF Shaped
<1>6. ASSUME NEW r \in IpRange PROVE \E s, n : Holds(RangeList(i, {}, r), s, n)
    <2>1. PICK l, s : l = RangeList(i, {}, r) /\ s = [k \in 1..0 |-> 0]
        OBVIOUS
    <2>2. OfRange(i, {}, r) = {} /\ Get(i, r) = Nil
        BY <1>3 DEF OfRange, Get, Hits
    <2>3. l = [first |-> Nil, last |-> Nil, next |-> [b \in {} |-> i.next[b]], prev |-> [b \in {} |-> i.prev[b]]]
        BY <2>1, <2>2 DEF RangeList
    <2>4. Nodes(l) = {} /\ l.first = Nil
        BY <2>3 DEF Nodes
    <2>5. l \in [first : Nodes(l) \cup {Nil}, last : Nodes(l) \cup {Nil},
                 next : [Nodes(l) -> Nodes(l) \cup {Nil}], prev : [Nodes(l) -> Nodes(l) \cup {Nil}]]
        BY <2>3, <2>4
    <2>6. s \in [1..0 -> {}] /\ \A k \in 1..0 : FALSE
        BY <2>1
    <2>7. Holds(l, s, 0)
        BY <2>4, <2>5, <2>6 DEF Holds
    <2> QED
        BY <2>1, <2>7
<1> QED
    BY <1>1, <1>5, <1>6 DEF Indexed

\* The index of a list whose other lists are as they were.
LEMMA IndexedFrom ==
    ASSUME NEW i, NEW L, Indexed(i, L), NEW j, NEW M, Shaped(j, M), NEW r,
           \A q \in IpRange : q # r => RangeList(j, M, q) = RangeList(i, L, q),
           \E s, n : Holds(RangeList(j, M, r), s, n)
    PROVE  Indexed(j, M)
BY DEF Indexed

\* A range whose bans and entry stay keeps its list.
LEMMA SameRangeList ==
    ASSUME NEW i, NEW L, NEW j, NEW M, NEW q,
           OfRange(j, M, q) = OfRange(i, L, q), Get(j, q) = Get(i, q),
           \A b \in OfRange(i, L, q) : j.next[b] = i.next[b] /\ j.prev[b] = i.prev[b]
    PROVE  RangeList(j, M, q) = RangeList(i, L, q)
BY DEF RangeList

\* A ban that is not in the index gets in it.
LEMMA InsertIndexes ==
    ASSUME NEW i, NEW L, Indexed(i, L), NEW b \in Ban, b \notin L, b \in DOMAIN i.range,
           i.prev[b] = Nil, Get(i, i.range[b]) = Nil => i.next[b] = Nil
    PROVE  LET j == InsertIntoHashmap(i, b)
           IN Indexed(j, L \cup {b}) /\ j.range = i.range
<1>1. PICK j : j = InsertIntoHashmap(i, b)
    OBVIOUS
<1>2. PICK r, item : r = i.range[b] /\ item = Get(i, r)
    OBVIOUS
<1>3. Shaped(i, L) /\ r \in IpRange /\ b # Nil /\ Nil \notin L
    BY <1>2, BanAssumption DEF Indexed, Shaped
<1>4. PICK t, nx, pv : /\ t = (i.tbl \ Hits(i, r)) \cup {[slot |-> r, ban |-> b]}
                       /\ nx = [i.next EXCEPT ![b] = item]
                       /\ pv = IF item = Nil THEN i.prev ELSE [i.prev EXCEPT ![item] = b]
    OBVIOUS
<1>5. item # Nil => item \in OfRange(i, L, r) /\ item \in L /\ i.range[item] = r /\ item # b
    BY <1>2, <1>3, GetIs DEF OfRange
<1>6. j = [tbl |-> t, range |-> i.range, prev |-> pv, next |-> nx]
    <2>1. i = [tbl |-> i.tbl, range |-> i.range, prev |-> i.prev, next |-> i.next]
        BY <1>3 DEF Shaped
    <2>2. CASE item = Nil
        <3>1. j = Put(i, b)
            BY <1>1, <1>2, <2>2 DEF InsertIntoHashmap
        <3>2. Hits(i, r) = {}
            BY <1>2, <1>3, <2>2, GetIs
        <3>3. j = [i EXCEPT !.tbl = i.tbl \cup {[slot |-> r, ban |-> b]}]
            BY <1>2, <3>1 DEF Put
        <3>4. nx = i.next /\ pv = i.prev /\ t = i.tbl \cup {[slot |-> r, ban |-> b]}
            BY <1>2, <1>3, <1>4, <2>2, <3>2 DEF Shaped
        <3> QED
            BY <2>1, <3>3, <3>4
    <2>3. CASE item # Nil
        <3>1. PICK k : k = Take(i, item)
            OBVIOUS
        <3>2. k = [i EXCEPT !.tbl = i.tbl \ Hits(i, r)]
            BY <1>5, <2>3, <3>1 DEF Take
        <3>3. k = [tbl |-> i.tbl \ Hits(i, r), range |-> i.range, prev |-> i.prev, next |-> i.next]
            BY <2>1, <3>2
        <3>4. PICK m : m = [k EXCEPT !.prev[item] = b, !.next[b] = item]
            OBVIOUS
        <3>5. m = [tbl |-> i.tbl \ Hits(i, r), range |-> i.range, prev |-> pv, next |-> nx]
            BY <1>4, <2>3, <3>3, <3>4
        <3>6. j = Put(m, b)
            BY ONLY <1>1, <1>2, <2>3, <3>1, <3>4, Zenon DEF InsertIntoHashmap
        <3>7. m.range[b] = r /\ m.tbl = i.tbl \ Hits(i, r)
            BY <1>2, <3>5
        <3>8. j = [m EXCEPT !.tbl = t]
            BY <1>4, <3>6, <3>7 DEF Put
        <3> QED
            BY <3>5, <3>8
    <2> QED
        BY <2>2, <2>3
<1>7. j.tbl = t /\ j.range = i.range /\ j.prev = pv /\ j.next = nx
      /\ j = [tbl |-> j.tbl, range |-> j.range, prev |-> j.prev, next |-> j.next]
    BY <1>6
<1>8. t = {e \in i.tbl : e.slot # r} \cup {[slot |-> r, ban |-> b]}
    <2>1. Hits(i, r) = {e \in i.tbl : e.slot = r}
        BY <1>3, GetIs
    <2> QED
        BY <1>4, <2>1
<1>9. Shaped(j, L \cup {b})
    <2>1. nx \in [DOMAIN i.range -> Ban \cup {Nil}]
        BY <1>3, <1>4, <1>5 DEF Shaped
    <2>2. pv \in [DOMAIN i.range -> Ban \cup {Nil}]
        BY <1>3, <1>4, <1>5 DEF Shaped
    <2>3. \A e \in t : e.ban \in L \cup {b} /\ e = [slot |-> i.range[e.ban], ban |-> e.ban]
        <3>1. ASSUME NEW e \in i.tbl PROVE e.ban \in L /\ e = [slot |-> i.range[e.ban], ban |-> e.ban]
            BY <1>3 DEF Shaped
        <3> QED
            BY <1>2, <1>8, <3>1
    <2>4. \A e, f \in t : e.slot = f.slot => e = f
        <3>1. \A e, f \in i.tbl : e.slot = f.slot => e = f
            BY <1>3 DEF Shaped
        <3> QED
            BY <1>8, <3>1
    <2> QED
        BY <1>3, <1>7, <2>1, <2>2, <2>3, <2>4 DEF Shaped
<1>10. ASSUME NEW q \in IpRange, q # r
       PROVE  RangeList(j, L \cup {b}, q) = RangeList(i, L, q)
    <2>1. OfRange(j, L \cup {b}, q) = OfRange(i, L, q)
        BY <1>2, <1>7, <1>10 DEF OfRange
    <2>2. Hits(j, q) = Hits(i, q)
        BY <1>7, <1>8, <1>10 DEF Hits
    <2>3. Get(j, q) = Get(i, q)
        BY <2>2 DEF Get
    <2>4. \A c \in OfRange(i, L, q) : c # b /\ c # item /\ c \in DOMAIN i.range
        BY <1>2, <1>3, <1>5, <1>10 DEF OfRange, Shaped
    <2>5. \A c \in OfRange(i, L, q) : j.next[c] = i.next[c] /\ j.prev[c] = i.prev[c]
        BY <1>3, <1>4, <1>7, <2>4 DEF Shaped
    <2> QED
        BY <2>1, <2>3, <2>5, SameRangeList
<1>11. PICK l, m : l = RangeList(i, L, r) /\ m = RangeList(j, L \cup {b}, r)
    OBVIOUS
<1>12. m = PushNode(l, b)
    <2>1. OfRange(j, L \cup {b}, r) = OfRange(i, L, r) \cup {b}
        BY <1>2, <1>7 DEF OfRange
    <2>2. Get(j, r) = b
        <3>1. [slot |-> r, ban |-> b] \in j.tbl
            BY <1>7, <1>8
        <3> QED
            BY <1>9, <3>1, GetIs
    <2>3. PICK n, p : /\ n = [c \in OfRange(i, L, r) |-> i.next[c]]
                      /\ p = [c \in OfRange(i, L, r) |-> i.prev[c]]
        OBVIOUS
    <2>4. l = [first |-> item, last |-> Nil, next |-> n, prev |-> p]
        BY <1>2, <1>11, <2>3 DEF RangeList
    <2>5. PushNode(l, b) = [first |-> b, last |-> Nil, next |-> Set(n, b, item),
                            prev |-> Set(Set(p, b, Nil), item, b)]
        BY ONLY <2>4, PushRecord
    <2>6. Nil \notin OfRange(i, L, r) /\ OfRange(i, L, r) \subseteq DOMAIN i.range /\ b \notin OfRange(i, L, r)
        BY <1>3 DEF OfRange, Shaped
    <2>7. Set(n, b, item) = [c \in OfRange(i, L, r) \cup {b} |-> nx[c]]
        BY <1>3, <1>4, <2>3, <2>6 DEF Set, Shaped
    <2>8. Set(Set(p, b, Nil), item, b) = [c \in OfRange(i, L, r) \cup {b} |-> pv[c]]
        <3>1. PICK d : d = Set(p, b, Nil)
            OBVIOUS
        <3>2. DOMAIN d = OfRange(i, L, r) \cup {b} /\ \A c \in DOMAIN d : d[c] = IF c = b THEN Nil ELSE i.prev[c]
            BY <1>3, <2>3, <2>6, <3>1 DEF Set
        <3>3. DOMAIN Set(d, item, b) = OfRange(i, L, r) \cup {b}
              /\ \A c \in OfRange(i, L, r) \cup {b} : Set(d, item, b)[c] = IF c = item THEN b ELSE d[c]
            BY <1>3, <1>5, <2>6, <3>2 DEF Set
        <3>4. \A c \in OfRange(i, L, r) \cup {b} : pv[c] = IF c = item THEN b ELSE i.prev[c]
            BY <1>3, <1>4, <1>5, <2>6 DEF Shaped
        <3>5. Set(d, item, b) = [c \in DOMAIN Set(d, item, b) |-> Set(d, item, b)[c]]
            BY SetIsFunction
        <3> QED
            BY <1>5, <3>1, <3>2, <3>3, <3>4, <3>5
    <2>9. m = [first |-> b, last |-> Nil, next |-> [c \in OfRange(i, L, r) \cup {b} |-> nx[c]],
               prev |-> [c \in OfRange(i, L, r) \cup {b} |-> pv[c]]]
        BY <1>7, <1>11, <2>1, <2>2 DEF RangeList
    <2> QED
        BY <2>5, <2>7, <2>8, <2>9
<1>13. \E s, n : Holds(m, s, n)
    <2>1. PICK s, n : Holds(l, s, n)
        BY <1>3, <1>11 DEF Indexed
    <2>2. b \notin Nodes(l)
        BY <1>11, RangeListIs DEF OfRange
    <2>3. PICK v : v = [k \in 1..n + 1 |-> IF k = 1 THEN b ELSE s[k - 1]]
        OBVIOUS
    <2>4. Holds(m, v, n + 1)
        BY <1>3, <1>12, <2>1, <2>2, <2>3, PushHolds
    <2> QED
        BY <2>4
<1>14. Indexed(j, L \cup {b})
    BY ONLY Indexed(i, L), <1>9, <1>10, <1>11, <1>13, IndexedFrom
<1> QED
    BY <1>1, <1>7, <1>14

\* A ban is taken out of the index.
LEMMA DeleteIndexes ==
    ASSUME NEW i, NEW L, Indexed(i, L), NEW b \in L
    PROVE  LET j == DeleteFromHashmap(i, b)
           IN /\ Indexed(j, L \ {b}) /\ j.range = i.range
              /\ j.prev[b] = i.prev[b] /\ j.next[b] = i.next[b]
              /\ Get(i, i.range[b]) = b => Get(j, i.range[b]) = i.next[b] /\ i.prev[b] = Nil
<1>1. PICK j : j = DeleteFromHashmap(i, b)
    OBVIOUS
<1>2. PICK r, prev, next : r = i.range[b] /\ prev = i.prev[b] /\ next = i.next[b]
    OBVIOUS
<1>3. Shaped(i, L) /\ r \in IpRange /\ b # Nil /\ Nil \notin L /\ b \in OfRange(i, L, r) /\ b \in Ban
    BY <1>2, BanAssumption DEF Indexed, Shaped, OfRange
<1>4. PICK l : l = RangeList(i, L, r)
    OBVIOUS
<1>5. PICK s, n : Holds(l, s, n)
    BY <1>3, <1>4 DEF Indexed
<1>6. Nodes(l) = OfRange(i, L, r) /\ l.next[b] = next /\ l.prev[b] = prev /\ l.first = Get(i, r) /\ l.last = Nil
    BY <1>2, <1>3, <1>4, RangeListIs
<1>7. PICK k \in 1..n : s[k] = b
    BY <1>3, <1>5, <1>6 DEF Holds
<1>8. /\ prev = IF k = 1 THEN Nil ELSE s[k - 1]
      /\ next = IF k = n THEN Nil ELSE s[k + 1]
      /\ n \in Nat /\ n # 0 /\ l.first = s[1] /\ (Get(i, r) = b <=> k = 1)
    <2>1. n \in Nat /\ n # 0
        BY <1>5 DEF Holds
    <2>2. l.prev[s[k]] = (IF k = 1 THEN Nil ELSE s[k - 1]) /\ l.next[s[k]] = (IF k = n THEN Nil ELSE s[k + 1])
        BY <1>5 DEF Holds
    <2>3. l.first = s[1] /\ (s[k] = s[1] <=> k = 1)
        BY <1>5, <2>1 DEF Holds
    <2> QED
        BY <1>6, <1>7, <2>1, <2>2, <2>3
<1>9. /\ prev # Nil => prev \in OfRange(i, L, r) /\ prev \in DOMAIN i.range /\ prev # b
      /\ next # Nil => next \in OfRange(i, L, r) /\ next \in DOMAIN i.range /\ next # b /\ i.range[next] = r
    <2>1. k # 1 => k - 1 \in 1..n /\ k - 1 # k
        BY <1>8
    <2>2. k # n => k + 1 \in 1..n /\ k + 1 # k
        BY <1>8
    <2>3. \A a \in 1..n : s[a] \in OfRange(i, L, r) /\ (s[a] = b => a = k)
        BY <1>5, <1>6, <1>7 DEF Holds
    <2>4. \A c \in OfRange(i, L, r) : c \in DOMAIN i.range /\ i.range[c] = r
        BY <1>3 DEF OfRange, Shaped
    <2> QED
        BY <1>8, <2>1, <2>2, <2>3, <2>4
<1>10. PICK t, nx, pv :
          /\ t = IF Get(i, r) # b THEN i.tbl
                 ELSE IF next = Nil THEN i.tbl \ Hits(i, r)
                 ELSE (i.tbl \ Hits(i, r)) \cup {[slot |-> r, ban |-> next]}
          /\ nx = IF prev = Nil THEN i.next ELSE [i.next EXCEPT ![prev] = next]
          /\ pv = IF next = Nil THEN i.prev ELSE [i.prev EXCEPT ![next] = prev]
    OBVIOUS
<1>11. i = [tbl |-> i.tbl, range |-> i.range, prev |-> i.prev, next |-> i.next]
    BY <1>3 DEF Shaped
<1>12. j = [tbl |-> t, range |-> i.range, prev |-> pv, next |-> nx]
    <2>1. PICK before : before = IF prev = Nil THEN i ELSE [i EXCEPT !.next[prev] = next]
        OBVIOUS
    <2>2. before = [tbl |-> i.tbl, range |-> i.range, prev |-> i.prev, next |-> nx]
        BY <1>10, <1>11, <2>1
    <2>3. PICK after : after = IF next = Nil THEN before ELSE [before EXCEPT !.prev[next] = prev]
        OBVIOUS
    <2>4. after = [tbl |-> i.tbl, range |-> i.range, prev |-> pv, next |-> nx]
        BY <1>10, <2>2, <2>3
    <2>5. j = IF Get(i, r) # b THEN after
              ELSE IF next = Nil THEN Take(after, b)
              ELSE Put(Take(after, b), next)
        BY ONLY <1>1, <1>2, <2>1, <2>3, SMTT(20) DEF DeleteFromHashmap
    <2>6. after.range[b] = r /\ after.range = i.range /\ after.tbl = i.tbl
        BY <1>2, <2>4
    <2>7. Hits(after, r) = Hits(i, r)
        BY <2>6 DEF Hits
    <2>8. PICK taken : taken = Take(after, b)
        OBVIOUS
    <2>9. taken = [after EXCEPT !.tbl = i.tbl \ Hits(i, r)]
        BY <2>6, <2>7, <2>8 DEF Take
    <2>10. taken = [tbl |-> i.tbl \ Hits(i, r), range |-> i.range, prev |-> pv, next |-> nx]
        BY <2>4, <2>9
    <2>11. CASE Get(i, r) # b
        BY <1>10, <2>4, <2>5, <2>11
    <2>12. CASE Get(i, r) = b /\ next = Nil
        BY <1>10, <2>5, <2>8, <2>10, <2>12
    <2>13. CASE Get(i, r) = b /\ next # Nil
        <3>1. j = Put(taken, next)
            BY <2>5, <2>8, <2>13
        <3>2. taken.range[next] = r /\ taken.tbl = i.tbl \ Hits(i, r)
            BY <1>9, <2>10, <2>13
        <3>3. j = [taken EXCEPT !.tbl = t]
            BY <1>10, <2>13, <3>1, <3>2 DEF Put
        <3> QED
            BY <2>10, <3>3
    <2> QED
        BY <2>11, <2>12, <2>13
<1>13. j.tbl = t /\ j.range = i.range /\ j.prev = pv /\ j.next = nx
       /\ j = [tbl |-> j.tbl, range |-> j.range, prev |-> j.prev, next |-> j.next]
    BY <1>12
<1>14. /\ Hits(i, r) = {e \in i.tbl : e.slot = r}
       /\ \A e \in i.tbl : e.slot = r => e.ban = Get(i, r)
       /\ \A e \in i.tbl : e.ban = b => e.slot = r
       /\ \A e \in i.tbl : e.ban \in L /\ e = [slot |-> i.range[e.ban], ban |-> e.ban]
       /\ \A e, f \in i.tbl : e.slot = f.slot => e = f
    <2>1. Hits(i, r) = {e \in i.tbl : e.slot = r}
        BY <1>3, GetIs
    <2>2. \A e \in i.tbl : e.ban \in L /\ e = [slot |-> i.range[e.ban], ban |-> e.ban]
        BY <1>3 DEF Shaped
    <2>3. \A e, f \in i.tbl : e.slot = f.slot => e = f
        BY <1>3 DEF Shaped
    <2>4. ASSUME NEW e \in i.tbl, e.slot = r PROVE e.ban = Get(i, r)
        <3>1. e = [slot |-> r, ban |-> e.ban]
            BY <2>2, <2>4
        <3>2. [slot |-> r, ban |-> e.ban] \in i.tbl
            BY <3>1
        <3> QED
            BY ONLY <1>3, <3>2, GetIs
    <2>5. ASSUME NEW e \in i.tbl, e.ban = b PROVE e.slot = r
        <3>1. e = [slot |-> i.range[e.ban], ban |-> e.ban]
            BY <2>2
        <3> QED
            BY <1>2, <2>5, <3>1
    <2> QED
        BY <2>1, <2>2, <2>3, <2>4, <2>5
<1>15. Shaped(j, L \ {b})
    <2>1. nx \in [DOMAIN i.range -> Ban \cup {Nil}] /\ next \in Ban \cup {Nil} /\ prev \in Ban \cup {Nil}
        BY <1>2, <1>3, <1>9, <1>10 DEF Shaped
    <2>2. pv \in [DOMAIN i.range -> Ban \cup {Nil}]
        BY <1>3, <1>9, <1>10, <2>1 DEF Shaped
    <2>3. \A e \in t : e.ban \in L \ {b} /\ e = [slot |-> i.range[e.ban], ban |-> e.ban]
        <3>1. CASE Get(i, r) # b
            BY <1>10, <1>14, <3>1
        <3>2. CASE Get(i, r) = b
            <4>1. \A e \in i.tbl \ Hits(i, r) : e.ban # b
                BY <1>14
            <4>2. next # Nil => next \in L \ {b}
                BY <1>9 DEF OfRange
            <4>3. next # Nil => [slot |-> r, ban |-> next] = [slot |-> i.range[next], ban |-> next]
                BY <1>9
            <4> QED
                BY <1>10, <1>14, <3>2, <4>1, <4>2, <4>3
        <3> QED
            BY <3>1, <3>2
    <2>4. \A e, f \in t : e.slot = f.slot => e = f
        BY <1>10, <1>14
    <2>5. L \ {b} \subseteq Ban /\ L \ {b} \subseteq DOMAIN i.range /\ i.range \in [DOMAIN i.range -> IpRange]
        BY <1>3 DEF Shaped
    <2> QED
        BY <1>13, <2>1, <2>2, <2>3, <2>4, <2>5 DEF Shaped
<1>16. ASSUME NEW q \in IpRange, q # r
       PROVE  RangeList(j, L \ {b}, q) = RangeList(i, L, q)
    <2>1. OfRange(j, L \ {b}, q) = OfRange(i, L, q)
        BY <1>2, <1>13, <1>16 DEF OfRange
    <2>2. Hits(j, q) = Hits(i, q)
        <3>1. \A e : e \in t /\ e.slot = q <=> e \in i.tbl /\ e.slot = q
            BY <1>10, <1>14, <1>16
        <3> QED
            BY <1>13, <3>1 DEF Hits
    <2>3. Get(j, q) = Get(i, q)
        BY <2>2 DEF Get
    <2>4. \A c \in OfRange(i, L, q) : c # next /\ c # prev /\ c \in DOMAIN i.range
        <3>1. \A c \in OfRange(i, L, q) : c \in DOMAIN i.range /\ i.range[c] = q /\ c # Nil
            BY <1>3 DEF OfRange, Shaped
        <3>2. prev # Nil => i.range[prev] = r
            BY <1>9 DEF OfRange
        <3> QED
            BY <1>9, <1>16, <3>1, <3>2
    <2>5. \A c \in OfRange(i, L, q) : j.next[c] = i.next[c] /\ j.prev[c] = i.prev[c]
        BY <1>3, <1>10, <1>13, <2>4 DEF Shaped
    <2> QED
        BY <2>1, <2>3, <2>5, SameRangeList
<1>17. Get(j, r) = IF Get(i, r) = b THEN next ELSE Get(i, r)
    <2>1. CASE Get(i, r) # b
        <3>1. Hits(j, r) = Hits(i, r)
            BY <1>10, <1>13, <2>1 DEF Hits
        <3> QED
            BY <2>1, <3>1 DEF Get
    <2>2. CASE Get(i, r) = b /\ next = Nil
        <3>1. Hits(j, r) = {}
            BY <1>10, <1>13, <1>14, <2>2 DEF Hits
        <3> QED
            BY <2>2, <3>1 DEF Get
    <2>3. CASE Get(i, r) = b /\ next # Nil
        <3>1. [slot |-> r, ban |-> next] \in j.tbl
            BY <1>10, <1>13, <2>3
        <3> QED
            BY ONLY <1>15, <2>3, <3>1, GetIs
    <2> QED
        BY <2>1, <2>2, <2>3
<1>18. PICK m : m = RangeList(j, L \ {b}, r)
    OBVIOUS
<1>19. m = Unlink(l, b)
    <2>1. OfRange(j, L \ {b}, r) = OfRange(i, L, r) \ {b}
        BY <1>2, <1>13 DEF OfRange
    <2>2. m = [first |-> Get(j, r), last |-> Nil,
               next |-> [c \in OfRange(i, L, r) \ {b} |-> nx[c]],
               prev |-> [c \in OfRange(i, L, r) \ {b} |-> pv[c]]]
        BY <1>13, <1>18, <2>1 DEF RangeList
    <2>3. Unlink(l, b) = [first |-> IF b = Get(i, r) THEN next ELSE Get(i, r), last |-> Nil,
               next |-> [c \in OfRange(i, L, r) \ {b} |-> Set(l.next, prev, next)[c]],
               prev |-> [c \in OfRange(i, L, r) \ {b} |-> Set(l.prev, next, prev)[c]]]
        BY <1>3, <1>6 DEF Unlink
    <2>4. DOMAIN l.next = OfRange(i, L, r) /\ DOMAIN l.prev = OfRange(i, L, r)
          /\ \A c \in OfRange(i, L, r) : l.next[c] = i.next[c] /\ l.prev[c] = i.prev[c]
        BY <1>4, RangeListIs
    <2>5. \A c \in OfRange(i, L, r) : c # Nil /\ c \in DOMAIN i.range
        BY <1>3 DEF OfRange, Shaped
    <2>6. DOMAIN i.next = DOMAIN i.range /\ DOMAIN i.prev = DOMAIN i.range
        BY <1>3 DEF Shaped
    <2>7. \A c \in OfRange(i, L, r) \ {b} : Set(l.next, prev, next)[c] = nx[c]
        BY <1>9, <1>10, <2>4, <2>5, <2>6 DEF Set
    <2>8. \A c \in OfRange(i, L, r) \ {b} : Set(l.prev, next, prev)[c] = pv[c]
        BY <1>9, <1>10, <2>4, <2>5, <2>6 DEF Set
    <2> QED
        BY <1>17, <2>2, <2>3, <2>7, <2>8
<1>20. \E v, a : Holds(m, v, a)
    <2>1. PICK v : v = [a \in 1..n - 1 |-> IF a < k THEN s[a] ELSE s[a + 1]]
        OBVIOUS
    <2>2. Holds(m, v, n - 1)
        BY <1>5, <1>7, <1>19, <2>1, UnlinkHolds
    <2> QED
        BY <2>2
<1>21. Indexed(j, L \ {b})
    BY ONLY Indexed(i, L), <1>15, <1>16, <1>18, <1>20, IndexedFrom
<1>22. j.prev[b] = i.prev[b] /\ j.next[b] = i.next[b]
    <2>1. b \in DOMAIN i.next /\ b \in DOMAIN i.prev
        BY <1>3 DEF Shaped
    <2> QED
        BY <1>9, <1>10, <1>13, <2>1
<1> QED
    BY <1>1, <1>2, <1>8, <1>13, <1>17, <1>21, <1>22

\* A new ban gets in the index.
LEMMA InsertedIndexes ==
    ASSUME NEW i, NEW L, Indexed(i, L), NEW b \in Ban, b \notin DOMAIN i.range, NEW r \in IpRange
    PROVE  LET j == Inserted(i, b, r)
           IN Indexed(j, L \cup {b}) /\ j.range = Set(i.range, b, r)
<1>1. PICK rg, pv, nx : rg = Set(i.range, b, r) /\ pv = Set(i.prev, b, Nil) /\ nx = Set(i.next, b, Nil)
    OBVIOUS
<1>2. PICK e : e = [i EXCEPT !.range = rg, !.prev = pv, !.next = nx]
    OBVIOUS
<1>3. Shaped(i, L) /\ b # Nil /\ b \notin L
    BY BanAssumption DEF Indexed, Shaped
<1>4. e = [tbl |-> i.tbl, range |-> rg, prev |-> pv, next |-> nx]
    BY <1>2, <1>3 DEF Shaped
<1>5. e.tbl = i.tbl /\ e.range = rg /\ e.prev = pv /\ e.next = nx
      /\ e = [tbl |-> e.tbl, range |-> e.range, prev |-> e.prev, next |-> e.next]
    BY <1>4
<1>6. PICK D : D = DOMAIN i.range
    OBVIOUS
<1>7. D \subseteq DOMAIN i.range /\ L \subseteq D /\ L \subseteq Ban /\ b \notin D
      /\ i.range \in [D -> IpRange] /\ i.next \in [D -> Ban \cup {Nil}] /\ i.prev \in [D -> Ban \cup {Nil}]
    BY <1>3, <1>6 DEF Shaped
<1>8. PICK N : N = (D \cup {b}) \ {Nil}
    OBVIOUS
<1>9. /\ rg = [x \in N |-> IF x = b THEN r ELSE i.range[x]]
      /\ pv = [x \in N |-> IF x = b THEN Nil ELSE i.prev[x]]
      /\ nx = [x \in N |-> IF x = b THEN Nil ELSE i.next[x]]
    <2>1. DOMAIN i.range = D /\ DOMAIN i.prev = D /\ DOMAIN i.next = D
        BY <1>7
    <2> QED
        BY ONLY <1>1, <1>8, <2>1, Zenon DEF Set
<1>10. L \subseteq N /\ b \in N /\ DOMAIN e.range = N
    BY <1>3, <1>5, <1>7, <1>8, <1>9, BanAssumption
<1>11. \A x \in L : e.range[x] = i.range[x] /\ e.prev[x] = i.prev[x] /\ e.next[x] = i.next[x]
    BY <1>3, <1>5, <1>9, <1>10
<1>12. Shaped(e, L)
    <2>1. rg \in [N -> IpRange] /\ pv \in [N -> Ban \cup {Nil}] /\ nx \in [N -> Ban \cup {Nil}]
        BY <1>7, <1>8, <1>9
    <2>2. \A x \in i.tbl : x.ban \in L /\ x = [slot |-> i.range[x.ban], ban |-> x.ban]
        BY <1>3 DEF Shaped
    <2>3. \A x, y \in i.tbl : x.slot = y.slot => x = y
        BY <1>3 DEF Shaped
    <2> QED
        BY <1>5, <1>7, <1>10, <1>11, <2>1, <2>2, <2>3 DEF Shaped
<1>13. ASSUME NEW q PROVE RangeList(e, L, q) = RangeList(i, L, q)
    <2>1. OfRange(e, L, q) = OfRange(i, L, q)
        BY <1>11 DEF OfRange
    <2>2. Hits(e, q) = {x \in e.tbl : x.slot = q} /\ Hits(i, q) = {x \in i.tbl : x.slot = q}
        BY <1>3, <1>12, GetIs
    <2>3. Get(e, q) = Get(i, q)
        BY <1>5, <2>2 DEF Get
    <2>4. \A x \in OfRange(i, L, q) : e.next[x] = i.next[x] /\ e.prev[x] = i.prev[x]
        BY <1>11 DEF OfRange
    <2> QED
        BY <2>1, <2>3, <2>4, SameRangeList
<1>14. Indexed(e, L)
    BY ONLY Indexed(i, L), <1>12, <1>13, Zenon DEF Indexed
<1>15. e.range[b] = r /\ e.prev[b] = Nil /\ e.next[b] = Nil
    BY <1>5, <1>9, <1>10
<1>16. PICK j : j = InsertIntoHashmap(e, b)
    OBVIOUS
<1>17. Indexed(j, L \cup {b}) /\ j.range = e.range
    BY <1>3, <1>10, <1>14, <1>15, <1>16, InsertIndexes
<1>18. j = Inserted(i, b, r)
    BY ONLY <1>1, <1>2, <1>16, Zenon DEF Inserted
<1> QED
    BY <1>1, <1>5, <1>17, <1>18

\* The newest ban of a range is edited and keeps the range.
LEMMA UpdatedIndexes ==
    ASSUME NEW i, NEW L, Indexed(i, L), NEW b \in L, NEW r, r = i.range[b], Get(i, r) = b
    PROVE  LET j == Updated(i, b, r)
           IN Indexed(j, L) /\ j.range = i.range
<1>1. PICK d : d = DeleteFromHashmap(i, b)
    OBVIOUS
<1>2. /\ Indexed(d, L \ {b}) /\ d.range = i.range
      /\ d.prev[b] = Nil /\ d.next[b] = Get(d, r)
    BY <1>1, DeleteIndexes
<1>3. [i EXCEPT !.range[b] = r] = i
    <2>1. Shaped(i, L)
        BY DEF Indexed
    <2>2. i = [tbl |-> i.tbl, range |-> i.range, prev |-> i.prev, next |-> i.next]
          /\ i.range \in [DOMAIN i.range -> IpRange]
        BY <2>1 DEF Shaped
    <2>3. PICK f : f = [i.range EXCEPT ![b] = r]
        OBVIOUS
    <2>4. f = i.range
        BY <2>2, <2>3
    <2>5. [i EXCEPT !.range[b] = r] = [i EXCEPT !.range = f]
        BY <2>2, <2>3
    <2> QED
        BY <2>2, <2>4, <2>5
<1>4. PICK j : j = InsertIntoHashmap(d, b)
    OBVIOUS
<1>5. b \in Ban /\ b \in DOMAIN d.range /\ b \notin L \ {b} /\ (L \ {b}) \cup {b} = L
    BY <1>2 DEF Indexed, Shaped
<1>6. Indexed(j, L) /\ j.range = i.range
    <2>1. d.range[b] = r /\ Get(d, d.range[b]) = Nil => d.next[b] = Nil
        BY <1>2
    <2>2. Indexed(j, (L \ {b}) \cup {b}) /\ j.range = d.range
        BY <1>2, <1>4, <1>5, <2>1, InsertIndexes
    <2> QED
        BY <1>2, <1>5, <2>2
<1>7. j = Updated(i, b, r)
    <2>1. Updated(i, b, r) = InsertIntoHashmap(DeleteFromHashmap([i EXCEPT !.range[b] = r], b), b)
        BY ONLY Zenon DEF Updated
    <2> QED
        BY ONLY <1>1, <1>3, <1>4, <2>1, Zenon
<1> QED
    BY <1>6, <1>7

\* Any bans are taken out of the index.
LEMMA DeletedIndexes ==
    ASSUME NEW i, NEW L, Indexed(i, L), NEW B \in SUBSET L
    PROVE  LET j == Deleted(i, B) IN Indexed(j, L \ B) /\ j.range = i.range
<1>1. PICK pick : pick = [T \in SUBSET Ban |-> Max(T)]
    OBVIOUS
<1>2. ASSUME NEW T \in SUBSET Ban, T # {} PROVE Max(T) \in T
    <2>1. Cardinality(Ban) \in Nat /\ T \in SUBSET (1..Cardinality(Ban))
        BY BanAssumption, FS_CardinalityType
    <2> QED
        BY ONLY <1>2, <2>1, Fold!HasMax DEF Max, Fold!Max
<1>3. \A T \in SUBSET Ban : T # {} => pick[T] \in T
    BY <1>1, <1>2
<1>4. Deleting!IsFiniteSet(Ban)
    BY BanAssumption DEF IsFiniteSet, Deleting!IsFiniteSet
<1>5. \E at : Deleting!UsesUp(at, Ban, i, pick)
    BY ONLY <1>3, <1>4, Deleting!UsingUp, Zenon
<1>6. PICK at : at = [T \in SUBSET Ban |->
                        IF T = {} THEN i ELSE DeleteFromHashmap(at[T \ {Max(T)}], Max(T))]
    <2>1. PICK at : at = [T \in SUBSET Ban |->
                        IF T = {} THEN i ELSE DeleteFromHashmap(at[T \ {pick[T]}], pick[T])]
        BY ONLY <1>5, Zenon DEF Deleting!UsesUp
    <2>2. \A T \in SUBSET Ban : pick[T] = Max(T)
        BY <1>1
    <2>3. at = [T \in SUBSET Ban |->
                        IF T = {} THEN i ELSE DeleteFromHashmap(at[T \ {Max(T)}], Max(T))]
        BY ONLY <2>1, <2>2
    <2> QED
        BY <2>3
<1>7. PICK bt : /\ bt = [S \in SUBSET Ban |->
                        IF S = {} THEN i ELSE DeleteFromHashmap(bt[S \ {Max(S)}], Max(S))]
                /\ Deleted(i, B) = bt[B]
    BY ONLY <1>6, Zenon DEF Deleted
<1>8. PICK F : F = {T \in SUBSET Ban : T \subseteq L => Indexed(bt[T], L \ T) /\ bt[T].range = i.range}
    OBVIOUS
<1>9. ASSUME NEW T \in SUBSET Ban, \A x \in T : T \ {x} \in F PROVE T \in F
    <2>1. CASE T = {}
        <3>1. bt[T] = i /\ L \ T = L
            BY <1>7, <2>1
        <3> QED
            BY <1>8, <3>1
    <2>2. CASE T # {} /\ T \subseteq L
        <3>1. PICK x : x = Max(T)
            OBVIOUS
        <3>2. x \in T /\ T \ {x} \in F /\ T \ {x} \subseteq L /\ x \in L \ (T \ {x})
            BY <1>2, <1>9, <2>2, <3>1
        <3>3. Indexed(bt[T \ {x}], L \ (T \ {x})) /\ bt[T \ {x}].range = i.range
            BY ONLY <1>8, <3>2
        <3>4. bt[T] = DeleteFromHashmap(bt[T \ {x}], x)
            BY <1>7, <2>2, <3>1
        <3>5. (L \ (T \ {x})) \ {x} = L \ T
            BY <3>2
        <3>6. Indexed(bt[T], (L \ (T \ {x})) \ {x}) /\ bt[T].range = bt[T \ {x}].range
            <4>1. PICK k, M : k = bt[T \ {x}] /\ M = L \ (T \ {x})
                OBVIOUS
            <4>2. Indexed(k, M) /\ x \in M /\ bt[T] = DeleteFromHashmap(k, x)
                BY <3>2, <3>3, <3>4, <4>1
            <4>3. Indexed(DeleteFromHashmap(k, x), M \ {x}) /\ DeleteFromHashmap(k, x).range = k.range
                BY ONLY <4>2, DeleteIndexes, Zenon
            <4> QED
                BY ONLY <4>1, <4>2, <4>3, Zenon
        <3> QED
            BY <1>8, <3>3, <3>5, <3>6
    <2>3. CASE ~(T \subseteq L)
        BY <1>8, <2>3
    <2> QED
        BY <2>1, <2>2, <2>3
<1>10. IsFiniteSet(Ban)
    BY BanAssumption
<1>11. F \subseteq SUBSET Ban
    BY <1>8
<1>12. F = SUBSET Ban
    BY ONLY <1>9, <1>10, <1>11, Fold!FiniteInduction, Zenon DEF IsFiniteSet, Fold!IsFiniteSet
<1>13. L \subseteq Ban
    BY DEF Indexed, Shaped
<1>14. Indexed(bt[B], L \ B) /\ bt[B].range = i.range
    BY <1>8, <1>12, <1>13
<1> QED
    BY <1>7, <1>14

\* "Create bans for all ranges", one range after the other.
Turn == INSTANCE Folding WITH Op <- BanRange

\* The bans B with the index i and the boards f, after c numbers were given.
Held(B, i, f, c) ==
    /\ Indexed(i, B)
    /\ DOMAIN i.range = B \cup freed /\ B \cap freed = {}
    /\ c \in Nat /\ B \cup freed \subseteq 1..c
    /\ f \in [DOMAIN f -> (SUBSET Board) \cup {Nil}] /\ B \subseteq DOMAIN f

\* What BanRange works on: a ban that is edited is the newest of its range.
Work(w) ==
    /\ w = [user |-> w.user, asked |-> w.asked, ban |-> w.ban, new |-> w.new, bans |-> w.bans,
            ix |-> w.ix, boards |-> w.boards, counter |-> w.counter, wrecked |-> w.wrecked]
    /\ w.user \in User /\ w.asked \in (SUBSET boards) \cup {Nil}
    /\ Held(w.bans, w.ix, w.boards, w.counter)

Edited(w, r) == w.ban # Nil => w.ban \in w.bans /\ w.ix.range[w.ban] = r /\ Get(w.ix, r) = w.ban

\* A ban of the range is in force on the board, by the bans B, their index i and boards f.
Binds(B, i, f, r, b) == \E x \in B : i.range[x] = r /\ (f[x] = Nil \/ b \in f[x])

Other(u, b) == b \in boards /\ ~IsModForBoard(u, b)

\* The boards of others are as before.
Spares(u, w, v) ==
    userBoards[u] # Nil =>
        \A q, b : Other(u, b) =>
            (Binds(v.bans, v.ix, v.boards, q, b) <=> Binds(w.bans, w.ix, w.boards, q, b))

BanInv ==
    /\ Held(bans, ix, banBoards, counter)
    /\ counter <= Cardinality(Ban)
    /\ boards \subseteq Board
    /\ userBoards \in [User -> (SUBSET Board) \cup {Nil}]

\* "Check if user can edit the entire ban": the boards of others stay with the ban.
LEMMA SplitKeeps ==
    ASSUME BanInv, NEW w, Work(w), NEW r, Edited(w, r)
    PROVE  LET v == Split(w, w.user)
           IN /\ Work(v)
              /\ v.user = w.user /\ v.asked = w.asked /\ v.ban = w.ban /\ v.bans = w.bans /\ v.ix = w.ix
              /\ v.counter = w.counter
              /\ v.new \in BOOLEAN /\ (w.ban = Nil => v.new)
              /\ userBoards[w.user] # Nil =>
                    (~v.new => \A b : Other(w.user, b) => v.boards[w.ban] # Nil /\ b \notin v.boards[w.ban])
              /\ Spares(w.user, w, v)
<1>1. PICK u, v : u = w.user /\ v = Split(w, u)
    OBVIOUS
<1>2. PICK bids : bids = IF w.boards[w.ban] = Nil THEN boards ELSE w.boards[w.ban]
    OBVIOUS
<1>3. PICK keep : keep = {b \in bids : ~IsModForBoard(u, b)}
    OBVIOUS
<1>4. v = IF w.ban = Nil THEN [w EXCEPT !.new = TRUE]
          ELSE IF userBoards[u] = Nil THEN [w EXCEPT !.new = FALSE]
          ELSE [w EXCEPT !.wrecked = w.wrecked \/ ~(bids \subseteq boards),
                         !.boards[w.ban] = keep, !.new = keep # {}]
    BY ONLY <1>1, <1>2, <1>3, Zenon DEF Split
<1>5. /\ w = [user |-> u, asked |-> w.asked, ban |-> w.ban, new |-> w.new, bans |-> w.bans,
            ix |-> w.ix, boards |-> w.boards, counter |-> w.counter, wrecked |-> w.wrecked]
      /\ u \in User /\ w.asked \in (SUBSET boards) \cup {Nil}
      /\ Held(w.bans, w.ix, w.boards, w.counter)
    BY <1>1 DEF Work
<1>6. CASE w.ban = Nil
    <2>1. PICK yes : yes = TRUE
        OBVIOUS
    <2>2. v = [w EXCEPT !.new = yes]
        BY ONLY <1>4, <1>6, <2>1, Zenon
    <2>3. v = [user |-> u, asked |-> w.asked, ban |-> w.ban, new |-> yes, bans |-> w.bans,
            ix |-> w.ix, boards |-> w.boards, counter |-> w.counter, wrecked |-> w.wrecked]
        BY <1>5, <2>2
    <2>4. Work(v)
        BY <1>5, <2>3 DEF Work
    <2>5. v.new = TRUE
        BY ONLY <2>1, <2>3
    <2>6. Spares(u, w, v)
        BY <2>3 DEF Spares
    <2> QED
        BY <1>1, <2>3, <2>4, <2>5, <2>6
<1>7. CASE w.ban # Nil /\ userBoards[u] = Nil
    <2>1. PICK no : no = FALSE
        OBVIOUS
    <2>2. v = [w EXCEPT !.new = no]
        BY ONLY <1>4, <1>7, <2>1, Zenon
    <2>3. v = [user |-> u, asked |-> w.asked, ban |-> w.ban, new |-> no, bans |-> w.bans,
            ix |-> w.ix, boards |-> w.boards, counter |-> w.counter, wrecked |-> w.wrecked]
        BY <1>5, <2>2
    <2>4. Work(v)
        BY <1>5, <2>3 DEF Work
    <2>5. v.user = u /\ v.asked = w.asked /\ v.ban = w.ban /\ v.bans = w.bans /\ v.ix = w.ix
          /\ v.counter = w.counter /\ v.new = no
        BY <2>3
    <2>6. v.new \in BOOLEAN
        BY ONLY <2>1, <2>5, Zenon
    <2>7. Spares(u, w, v)
        BY <1>7 DEF Spares
    <2> QED
        BY ONLY <1>1, <1>7, <2>4, <2>5, <2>6, <2>7, Zenon
<1>8. CASE w.ban # Nil /\ userBoards[u] # Nil
    <2>1. PICK f : f = [w.boards EXCEPT ![w.ban] = keep]
        OBVIOUS
    <2>2. PICK bad, nw : bad = (w.wrecked \/ ~(bids \subseteq boards)) /\ nw = (keep # {})
        OBVIOUS
    <2>3. v = [user |-> u, asked |-> w.asked, ban |-> w.ban, new |-> nw, bans |-> w.bans,
            ix |-> w.ix, boards |-> f, counter |-> w.counter, wrecked |-> bad]
        <3>1. v = [w EXCEPT !.wrecked = bad, !.boards[w.ban] = keep, !.new = nw]
            BY ONLY <1>4, <1>8, <2>2, Zenon
        <3>2. v = [w EXCEPT !.wrecked = bad, !.boards = f, !.new = nw]
            BY ONLY <2>1, <3>1
        <3>3. PICK k : k = [w EXCEPT !.wrecked = bad]
            OBVIOUS
        <3>4. PICK m : m = [k EXCEPT !.boards = f]
            OBVIOUS
        <3>5. k = [user |-> u, asked |-> w.asked, ban |-> w.ban, new |-> w.new, bans |-> w.bans,
                   ix |-> w.ix, boards |-> w.boards, counter |-> w.counter, wrecked |-> bad]
            BY ONLY <1>5, <3>3
        <3>6. m = [user |-> u, asked |-> w.asked, ban |-> w.ban, new |-> w.new, bans |-> w.bans,
                   ix |-> w.ix, boards |-> f, counter |-> w.counter, wrecked |-> bad]
            BY ONLY <3>4, <3>5
        <3>7. v = [m EXCEPT !.new = nw]
            BY ONLY <3>2, <3>3, <3>4
        <3> QED
            BY ONLY <3>6, <3>7
    <2>4. w.ban \in w.bans /\ w.bans \subseteq DOMAIN w.boards
          /\ w.boards \in [DOMAIN w.boards -> (SUBSET Board) \cup {Nil}]
        BY <1>5, <1>8 DEF Edited, Held
    <2>5. keep \subseteq bids /\ keep \in SUBSET Board
        <3>1. boards \in SUBSET Board /\ w.boards[w.ban] \in (SUBSET Board) \cup {Nil}
            BY <2>4 DEF BanInv
        <3>2. bids \in SUBSET Board
            BY ONLY <1>2, <3>1
        <3> QED
            BY ONLY <1>3, <3>2
    <2>6. DOMAIN f = DOMAIN w.boards /\ f \in [DOMAIN f -> (SUBSET Board) \cup {Nil}]
          /\ f[w.ban] = keep /\ \A x \in DOMAIN f : x # w.ban => f[x] = w.boards[x]
        BY <2>1, <2>4, <2>5
    <2>7. Held(w.bans, w.ix, f, w.counter)
        BY <1>5, <2>4, <2>6 DEF Held
    <2>8. Work(v)
        BY <1>5, <2>3, <2>7 DEF Work
    <2>9. keep # Nil
        BY <2>5, ModerationAssumption
    <2>10. ASSUME NEW q, NEW b, Other(u, b)
           PROVE  Binds(w.bans, w.ix, f, q, b) <=> Binds(w.bans, w.ix, w.boards, q, b)
        <3>1. b \in boards /\ ~IsModForBoard(u, b)
            BY <2>10 DEF Other
        <3>2. f[w.ban] # Nil /\ (b \in f[w.ban] <=> w.boards[w.ban] = Nil \/ b \in w.boards[w.ban])
            BY <1>2, <1>3, <2>6, <2>9, <3>1
        <3>3. \A x \in w.bans : (f[x] = Nil \/ b \in f[x]) <=> (w.boards[x] = Nil \/ b \in w.boards[x])
            BY <2>4, <2>6, <3>2
        <3> QED
            BY <3>3 DEF Binds
    <2>11. v.user = u /\ v.asked = w.asked /\ v.ban = w.ban /\ v.bans = w.bans /\ v.ix = w.ix
           /\ v.counter = w.counter /\ v.boards = f /\ v.new = nw
        BY <2>3
    <2>12. ~nw => f[w.ban] = {}
        BY <2>2, <2>6
    <2>13. Spares(u, w, v)
        BY <2>10, <2>11 DEF Spares
    <2>14. ~v.new => \A b : v.boards[w.ban] # Nil /\ b \notin v.boards[w.ban]
        <3>1. ~nw => f[w.ban] # Nil /\ \A b : b \notin f[w.ban]
            BY <2>6, <2>9, <2>12
        <3> QED
            BY ONLY <2>11, <3>1, Zenon
    <2>15. v.new \in BOOLEAN
        BY ONLY <2>2, <2>11, Zenon
    <2> QED
        BY ONLY <1>1, <1>8, <2>8, <2>11, <2>13, <2>14, <2>15, Zenon
<1> QED
    BY <1>6, <1>7, <1>8

\* The fields that one turn of the loop sets, when a ban is made or edited.
LEMMA WorkWith ==
    ASSUME NEW w, NEW u, NEW a, NEW n, NEW z, NEW wb, NEW wc, NEW wf, NEW wB, NEW wi,
           w = [user |-> u, asked |-> a, ban |-> wb, new |-> n, bans |-> wB, ix |-> wi,
                boards |-> wf, counter |-> wc, wrecked |-> z],
           NEW c, NEW f, NEW B, NEW i
    PROVE  [w EXCEPT !.ban = Nil, !.counter = c, !.boards = f, !.bans = B, !.ix = i] =
           [user |-> u, asked |-> a, ban |-> Nil, new |-> n, bans |-> B, ix |-> i,
            boards |-> f, counter |-> c, wrecked |-> z]
<1>1. PICK w1 : w1 = [w EXCEPT !.ban = Nil]
    OBVIOUS
<1>2. PICK w2 : w2 = [w1 EXCEPT !.counter = c]
    OBVIOUS
<1>3. PICK w3 : w3 = [w2 EXCEPT !.boards = f]
    OBVIOUS
<1>4. PICK w4 : w4 = [w3 EXCEPT !.bans = B]
    OBVIOUS
<1>5. PICK w5 : w5 = [w4 EXCEPT !.ix = i]
    OBVIOUS
<1>6. w1 = [user |-> u, asked |-> a, ban |-> Nil, new |-> n, bans |-> wB, ix |-> wi,
            boards |-> wf, counter |-> wc, wrecked |-> z]
    BY <1>1
<1>7. w2 = [user |-> u, asked |-> a, ban |-> Nil, new |-> n, bans |-> wB, ix |-> wi,
            boards |-> wf, counter |-> c, wrecked |-> z]
    BY ONLY <1>2, <1>6
<1>8. w3 = [user |-> u, asked |-> a, ban |-> Nil, new |-> n, bans |-> wB, ix |-> wi,
            boards |-> f, counter |-> c, wrecked |-> z]
    BY ONLY <1>3, <1>7
<1>9. w4 = [user |-> u, asked |-> a, ban |-> Nil, new |-> n, bans |-> B, ix |-> wi,
            boards |-> f, counter |-> c, wrecked |-> z]
    BY ONLY <1>4, <1>8
<1>10. w5 = [user |-> u, asked |-> a, ban |-> Nil, new |-> n, bans |-> B, ix |-> i,
             boards |-> f, counter |-> c, wrecked |-> z]
    BY ONLY <1>5, <1>9
<1>11. [w EXCEPT !.ban = Nil, !.counter = c, !.boards = f, !.bans = B, !.ix = i] = w5
    BY ONLY <1>1, <1>2, <1>3, <1>4, <1>5
<1> QED
    BY <1>10, <1>11

\* The fields that one turn of the loop sets, when no board is left for the ban.
LEMMA WorkWithout ==
    ASSUME NEW w, NEW u, NEW a, NEW n, NEW wz, NEW wb, NEW wc, NEW f, NEW B, NEW i,
           w = [user |-> u, asked |-> a, ban |-> wb, new |-> n, bans |-> B, ix |-> i,
                boards |-> f, counter |-> wc, wrecked |-> wz],
           NEW c, NEW z
    PROVE  [w EXCEPT !.ban = Nil, !.counter = c, !.wrecked = z] =
           [user |-> u, asked |-> a, ban |-> Nil, new |-> n, bans |-> B, ix |-> i,
            boards |-> f, counter |-> c, wrecked |-> z]
<1>1. PICK w1 : w1 = [w EXCEPT !.ban = Nil]
    OBVIOUS
<1>2. PICK w2 : w2 = [w1 EXCEPT !.counter = c]
    OBVIOUS
<1>3. PICK w3 : w3 = [w2 EXCEPT !.wrecked = z]
    OBVIOUS
<1>4. w1 = [user |-> u, asked |-> a, ban |-> Nil, new |-> n, bans |-> B, ix |-> i,
            boards |-> f, counter |-> wc, wrecked |-> wz]
    BY <1>1
<1>5. w2 = [user |-> u, asked |-> a, ban |-> Nil, new |-> n, bans |-> B, ix |-> i,
            boards |-> f, counter |-> c, wrecked |-> wz]
    BY ONLY <1>2, <1>4
<1>6. w3 = [user |-> u, asked |-> a, ban |-> Nil, new |-> n, bans |-> B, ix |-> i,
            boards |-> f, counter |-> c, wrecked |-> z]
    BY ONLY <1>3, <1>5
<1>7. [w EXCEPT !.ban = Nil, !.counter = c, !.wrecked = z] = w3
    BY ONLY <1>1, <1>2, <1>3
<1> QED
    BY <1>6, <1>7

\* The boards asked for are boards of the user, unless he is global.
LEMMA RestrictedIs ==
    ASSUME BanInv, NEW u \in User, NEW a \in (SUBSET boards) \cup {Nil}
    PROVE  LET to == Restricted(u, a)
           IN /\ to \in (SUBSET Board) \cup {Nil}
              /\ userBoards[u] # Nil => to # Nil /\ \A b : Other(u, b) => b \notin to
<1>1. PICK to : to = Restricted(u, a)
    OBVIOUS
<1>2. userBoards[u] \in (SUBSET Board) \cup {Nil} /\ boards \in SUBSET Board
    BY DEF BanInv
<1>3. CASE a = Nil
    <2>1. to = userBoards[u]
        BY ONLY <1>1, <1>3, Zenon DEF Restricted
    <2>2. \A b : Other(u, b) => b \notin to
        BY <2>1 DEF Other, IsModForBoard
    <2> QED
        BY <1>1, <1>2, <2>1, <2>2
<1>4. CASE a # Nil
    <2>1. to = {b \in a : IsModForBoard(u, b)}
        BY ONLY <1>1, <1>4, Zenon DEF Restricted
    <2>2. to \in SUBSET Board
        BY <1>2, <1>4, <2>1
    <2>3. \A b : Other(u, b) => b \notin to
        BY <2>1 DEF Other
    <2>4. to # Nil
        BY <2>2, ModerationAssumption
    <2> QED
        BY <1>1, <2>2, <2>3, <2>4
<1> QED
    BY <1>3, <1>4

\* One turn of "Create bans for all ranges".
LEMMA BanRangeKeeps ==
    ASSUME BanInv, NEW w, Work(w), NEW r \in IpRange, Edited(w, r), w.counter < Cardinality(Ban)
    PROVE  LET v == BanRange(w, r)
           IN /\ Work(v)
              /\ v.user = w.user /\ v.asked = w.asked /\ v.ban = Nil
              /\ v.counter \in {w.counter, w.counter + 1}
              /\ Spares(w.user, w, v)
<1>1. PICK v, x : v = BanRange(w, r) /\ x = Split(w, w.user)
    OBVIOUS
<1>2. PICK u, b, c, to : /\ u = w.user /\ b = IF x.new THEN x.counter + 1 ELSE x.ban
                         /\ c = IF x.new THEN b ELSE x.counter
                         /\ to = Restricted(u, w.asked)
    OBVIOUS
<1>3. /\ Work(x)
      /\ x.user = u /\ x.asked = w.asked /\ x.ban = w.ban /\ x.bans = w.bans /\ x.ix = w.ix
      /\ x.counter = w.counter
      /\ x.new \in BOOLEAN /\ (w.ban = Nil => x.new)
      /\ userBoards[u] # Nil =>
            (~x.new => \A bd : Other(u, bd) => x.boards[w.ban] # Nil /\ bd \notin x.boards[w.ban])
      /\ Spares(u, w, x)
    BY ONLY <1>1, <1>2, SplitKeeps, BanInv, Work(w), Edited(w, r), Zenon
<1>4. u \in User /\ w.asked \in (SUBSET boards) \cup {Nil}
    BY <1>2 DEF Work
<1>5. /\ to \in (SUBSET Board) \cup {Nil}
      /\ userBoards[u] # Nil => to # Nil /\ \A bd : Other(u, bd) => bd \notin to
    BY ONLY <1>2, <1>4, RestrictedIs, BanInv, Zenon
<1>6. PICK ok, odd : ok = x.new /\ odd = (x.wrecked \/ ~x.new)
    OBVIOUS
<1>7. x = [user |-> u, asked |-> w.asked, ban |-> w.ban, new |-> ok, bans |-> x.bans, ix |-> x.ix,
           boards |-> x.boards, counter |-> x.counter, wrecked |-> x.wrecked]
    BY <1>3, <1>6 DEF Work
<1>12. Held(x.bans, x.ix, x.boards, x.counter)
    BY <1>3 DEF Work
<1>8. x.counter \in Nat /\ x.counter < Cardinality(Ban) /\ Cardinality(Ban) \in Nat
    BY <1>3, <1>12, BanAssumption, FS_CardinalityType DEF Held
<1>9. c \in {x.counter, x.counter + 1}
    BY <1>2
<1>10. CASE to = {}
    <2>1. v = [x EXCEPT !.ban = Nil, !.counter = c, !.wrecked = odd]
        BY ONLY <1>1, <1>2, <1>3, <1>6, <1>10, Zenon DEF BanRange
    <2>2. v = [user |-> u, asked |-> w.asked, ban |-> Nil, new |-> ok, bans |-> x.bans, ix |-> x.ix,
               boards |-> x.boards, counter |-> c, wrecked |-> odd]
        <3>1. PICK a, wb, wB, wi, wf, wc, z :
                 x = [user |-> u, asked |-> a, ban |-> wb, new |-> ok, bans |-> wB, ix |-> wi,
                      boards |-> wf, counter |-> wc, wrecked |-> z]
                 /\ a = w.asked /\ wB = x.bans /\ wi = x.ix /\ wf = x.boards
            BY ONLY <1>7, Zenon
        <3>2. v = [user |-> u, asked |-> a, ban |-> Nil, new |-> ok, bans |-> wB, ix |-> wi,
                   boards |-> wf, counter |-> c, wrecked |-> odd]
            BY ONLY <2>1, <3>1, WorkWithout, Zenon
        <3> QED
            BY ONLY <3>1, <3>2, Zenon
    <2>3. Held(x.bans, x.ix, x.boards, c)
        <3>1. c \in Nat /\ \A y \in 1..x.counter : y \in 1..c
            BY <1>8, <1>9
        <3> QED
            BY <1>12, <3>1 DEF Held
    <2>4. v.user = u /\ v.asked = w.asked /\ v.ban = Nil /\ v.bans = x.bans /\ v.ix = x.ix
          /\ v.boards = x.boards /\ v.counter = c
        BY <2>2
    <2>5. Work(v)
        BY <1>4, <2>2, <2>3 DEF Work
    <2>6. Spares(u, w, v)
        BY <1>3, <2>4 DEF Spares
    <2> QED
        BY ONLY <1>1, <1>2, <1>3, <1>9, <2>4, <2>5, <2>6, Zenon
<1>11. CASE to # {}
    <2>1. PICK f, B, i : /\ f = Set(x.boards, b, to) /\ B = x.bans \cup {b}
                         /\ i = IF x.new THEN Inserted(x.ix, b, r) ELSE Updated(x.ix, b, r)
        OBVIOUS
    <2>2. v = [x EXCEPT !.ban = Nil, !.counter = c, !.boards = f, !.bans = B, !.ix = i]
        BY ONLY <1>1, <1>2, <1>3, <1>11, <2>1, Zenon DEF BanRange
    <2>3. v = [user |-> u, asked |-> w.asked, ban |-> Nil, new |-> ok, bans |-> B, ix |-> i,
               boards |-> f, counter |-> c, wrecked |-> x.wrecked]
        <3>1. PICK a, wb, wB, wi, wf, wc, z :
                 x = [user |-> u, asked |-> a, ban |-> wb, new |-> ok, bans |-> wB, ix |-> wi,
                      boards |-> wf, counter |-> wc, wrecked |-> z]
                 /\ a = w.asked /\ z = x.wrecked
            BY ONLY <1>7, Zenon
        <3>2. v = [user |-> u, asked |-> a, ban |-> Nil, new |-> ok, bans |-> B, ix |-> i,
                   boards |-> f, counter |-> c, wrecked |-> z]
            BY ONLY <2>2, <3>1, WorkWith, Zenon
        <3> QED
            BY ONLY <3>1, <3>2, Zenon
    <2>4. /\ Indexed(x.ix, x.bans)
          /\ DOMAIN x.ix.range = x.bans \cup freed /\ x.bans \cap freed = {}
          /\ x.bans \cup freed \subseteq 1..x.counter /\ x.bans \subseteq DOMAIN x.boards
          /\ x.boards \in [DOMAIN x.boards -> (SUBSET Board) \cup {Nil}]
        BY <1>12 DEF Held
    <2>5. Nil \notin x.bans \cup freed \cup {x.counter + 1} /\ x.counter + 1 \in Ban
        BY <1>8, <2>4, BanAssumption
    <2>6. b # Nil /\ b \in B /\ x.bans \subseteq B /\ B \cap freed = {} /\ c \in Nat /\ B \cup freed \subseteq 1..c
        <3>1. CASE x.new
            BY <1>2, <1>8, <2>1, <2>4, <2>5, <3>1
        <3>2. CASE ~x.new
            <4>1. b = w.ban /\ w.ban # Nil /\ b \in x.bans /\ c = x.counter
                BY <1>2, <1>3, <3>2 DEF Edited
            <4> QED
                BY <1>8, <2>1, <2>4, <4>1
        <3> QED
            BY <3>1, <3>2
    <2>7. /\ Indexed(i, B) /\ DOMAIN i.range = B \cup freed
          /\ \A y \in x.bans : i.range[y] = x.ix.range[y]
        <3>1. CASE x.new
            <4>1. b = x.counter + 1 /\ b \in Ban /\ b \notin DOMAIN x.ix.range /\ i = Inserted(x.ix, b, r)
                BY <1>2, <1>8, <2>1, <2>4, <2>5, <3>1
            <4>2. Indexed(i, B) /\ i.range = Set(x.ix.range, b, r)
                BY <2>1, <2>4, <4>1, InsertedIndexes
            <4>3. DOMAIN i.range = (x.bans \cup freed \cup {b}) \ {Nil}
                  /\ \A y \in DOMAIN i.range : i.range[y] = IF y = b THEN r ELSE x.ix.range[y]
                BY <2>4, <4>2 DEF Set
            <4> QED
                BY <2>1, <2>4, <2>5, <2>6, <4>1, <4>2, <4>3
        <3>2. CASE ~x.new
            <4>1. b = w.ban /\ w.ban # Nil /\ b \in x.bans /\ x.ix.range[b] = r /\ Get(x.ix, r) = b
                BY <1>2, <1>3, <3>2 DEF Edited
            <4>2. i = Updated(x.ix, b, r) /\ B = x.bans
                BY <2>1, <3>2, <4>1
            <4>3. Indexed(i, x.bans) /\ i.range = x.ix.range
                BY <2>4, <4>1, <4>2, UpdatedIndexes
            <4> QED
                BY <2>4, <4>2, <4>3
        <3> QED
            BY <3>1, <3>2
    <2>8. /\ f \in [DOMAIN f -> (SUBSET Board) \cup {Nil}] /\ B \subseteq DOMAIN f
          /\ f[b] = to /\ \A y \in x.bans : y # b => f[y] = x.boards[y]
        <3>1. f = [y \in (DOMAIN x.boards \cup {b}) \ {Nil} |-> IF y = b THEN to ELSE x.boards[y]]
            BY ONLY <2>1, Zenon DEF Set
        <3> QED
            BY <1>5, <2>1, <2>4, <2>5, <2>6, <3>1
    <2>9. Held(B, i, f, c)
        BY <2>6, <2>7, <2>8 DEF Held
    <2>10. v.user = u /\ v.asked = w.asked /\ v.ban = Nil /\ v.bans = B /\ v.ix = i
          /\ v.boards = f /\ v.counter = c
        BY <2>3
    <2>11. Work(v)
        BY <1>4, <2>3, <2>9 DEF Work
    <2>12. ASSUME userBoards[u] # Nil, NEW q, NEW bd, Other(u, bd)
           PROVE  Binds(B, i, f, q, bd) <=> Binds(x.bans, x.ix, x.boards, q, bd)
        <3>1. ~(f[b] = Nil \/ bd \in f[b])
            BY <1>5, <2>8, <2>12
        <3>2. b \in x.bans => ~(x.boards[b] = Nil \/ bd \in x.boards[b])
            <4>1. CASE x.new
                BY <1>2, <1>8, <2>4, <4>1
            <4>2. CASE ~x.new
                BY <1>2, <1>3, <2>12, <4>2
            <4> QED
                BY <4>1, <4>2
        <3> QED
            BY <2>1, <2>7, <2>8, <3>1, <3>2 DEF Binds
    <2>13. Spares(u, w, v)
        BY <1>3, <2>10, <2>12 DEF Spares
    <2> QED
        BY ONLY <1>1, <1>2, <1>3, <1>9, <2>10, <2>11, <2>13, Zenon
<1> QED
    BY <1>10, <1>11

\* "Create bans for all ranges": what is left of the request after k ranges.
Turned(u, base, w, k) ==
    /\ Work(w) /\ w.user = u
    /\ IF k = 0 THEN w = base ELSE w.ban = Nil
    /\ w.counter <= counter + k
    /\ Spares(u, base, w)

\* The whole loop "Create bans for all ranges".
LEMMA TurnsKeep ==
    ASSUME BanInv, NEW u, NEW base, NEW ranges \in Ranges, Turned(u, base, base, 0),
           Edited(base, ranges[1]), counter + Len(ranges) <= Cardinality(Ban)
    PROVE  LET w == FoldLeft(BanRange, base, ranges)
           IN Turned(u, base, w, Len(ranges)) /\ Len(ranges) \in Nat \ {0}
<1>1. PICK n \in 1..MaxRanges : ranges \in [1..n -> IpRange]
    BY DEF Ranges
<1>2. n \in Nat \ {0} /\ Len(ranges) = n /\ DOMAIN ranges = 1..n /\ counter \in Nat /\ Cardinality(Ban) \in Nat
    BY <1>1, ModerationAssumption, BanAssumption, FS_CardinalityType DEF BanInv, Held
<1>3. PICK w : w = FoldLeft(BanRange, base, ranges)
    OBVIOUS
<1>4. DOMAIN ranges = 1..Len(ranges) /\ Len(ranges) \in Nat
    BY <1>2
<1>5. PICK f : /\ f[0] = base
               /\ \A k \in 1..Len(ranges) : f[k] = BanRange(f[k - 1], ranges[k])
               /\ w = f[Len(ranges)]
    <2>1. w = Turn!FoldLeft(BanRange, base, ranges)
        BY ONLY <1>3, Zenon DEF FoldLeft, Turn!FoldLeft, MapThenFoldSet, Turn!MapThenFoldSet, Max, Turn!Max
    <2>2. DOMAIN ranges = 1..Len(ranges)
        BY <1>2
    <2>3. Len(ranges) \in Nat
        BY <1>2
    <2>4. \E f : /\ f[0] = base
                 /\ \A k \in 1..Len(ranges) : f[k] = BanRange(f[k - 1], ranges[k])
                 /\ Turn!FoldLeft(BanRange, base, ranges) = f[Len(ranges)]
        BY ONLY <2>2, <2>3, Turn!Steps, ZenonT(60)
    <2> QED
        BY ONLY <2>1, <2>4, Zenon
<1>6. PICK S : S = {k \in Nat : k <= n => Turned(u, base, f[k], k)}
    OBVIOUS
<1>7. S \subseteq Nat /\ 0 \in S
    BY <1>5, <1>6
<1>8. ASSUME NEW k \in S PROVE k + 1 \in S
    <2>1. k \in Nat /\ (k <= n => Turned(u, base, f[k], k))
        BY <1>6
    <2>2. SUFFICES ASSUME k + 1 <= n PROVE Turned(u, base, f[k + 1], k + 1)
        BY <1>6, <2>1
    <2>3. k + 1 \in 1..Len(ranges) /\ (k + 1) - 1 = k /\ k <= n
        BY <1>2, <2>1, <2>2
    <2>4. PICK w0, v, r : w0 = f[k] /\ v = f[k + 1] /\ r = ranges[k + 1]
        OBVIOUS
    <2>5. v = BanRange(w0, r) /\ Turned(u, base, w0, k) /\ r \in IpRange
        BY <1>1, <1>2, <1>5, <2>1, <2>3, <2>4
    <2>6. Edited(w0, r)
        <3>1. CASE k = 0
            <4>1. w0 = base /\ r = ranges[1]
                BY <2>4, <2>5, <3>1 DEF Turned
            <4> QED
                BY <4>1
        <3>2. CASE k # 0
            BY <2>5, <3>2 DEF Turned, Edited
        <3> QED
            BY <3>1, <3>2
    <2>7. Work(w0) /\ w0.user = u /\ w0.counter <= counter + k /\ Spares(u, base, w0) /\ w0.counter \in Nat
        BY <2>5 DEF Turned, Work, Held
    <2>8. w0.counter < Cardinality(Ban)
        BY <1>2, <2>1, <2>2, <2>7
    <2>9. /\ Work(v)
          /\ v.user = w0.user /\ v.ban = Nil
          /\ v.counter \in {w0.counter, w0.counter + 1}
          /\ Spares(w0.user, w0, v)
        BY ONLY <2>5, <2>6, <2>7, <2>8, BanRangeKeeps, BanInv, Zenon
    <2>10. Spares(u, base, v)
        BY <2>7, <2>9 DEF Spares
    <2>11. v.counter <= counter + (k + 1) /\ k + 1 # 0
        BY <1>2, <2>1, <2>7, <2>9
    <2> QED
        BY <2>4, <2>7, <2>9, <2>10, <2>11 DEF Turned
<1>9. S = Nat
    BY ONLY <1>7, <1>8, Induction, Zenon
<1> QED
    BY <1>2, <1>3, <1>5, <1>6, <1>9

\* "ban" and "edit_ban"
LEMMA DoBanKeeps ==
    ASSUME Edits \subseteq {"newest"}, BanInv,
           NEW u \in User, NEW ban, NEW asked \in {Nil} \cup ParseBoards, NEW ranges \in Ranges,
           DoBan(u, ban, asked, ranges)
    PROVE  /\ BanInv'
           /\ userBoards[u] # Nil =>
                 \A r, b : Other(u, b) => (InForce(r, b) <=> InForce(r, b)')
<1>1. PICK base : base = [user |-> u, asked |-> asked, ban |-> ban, new |-> FALSE,
                          bans |-> bans, ix |-> ix, boards |-> banBoards,
                          counter |-> counter, wrecked |-> FALSE]
    OBVIOUS
<1>2. PICK w : w = FoldLeft(BanRange, base, ranges)
    OBVIOUS
<1>3. /\ wrecked' = w.wrecked
      /\ IF w.wrecked THEN UNCHANGED <<bans, ix, banBoards, counter>>
         ELSE /\ bans' = w.bans /\ ix' = w.ix /\ counter' = w.counter
              /\ banBoards' = w.boards
    BY ONLY <1>1, <1>2, DoBan(u, ban, asked, ranges), Zenon DEF DoBan
<1>4. /\ freed' = freed /\ boards' = boards /\ userBoards' = userBoards
      /\ counter + Len(ranges) <= Cardinality(Ban)
      /\ ban \in {Nil} \cup {b \in bans : CanSeeBan(u, b) /\ MayEdit(b, ranges[1])}
    BY DEF DoBan
<1>5. Held(bans, ix, banBoards, counter) /\ counter \in Nat /\ Cardinality(Ban) \in Nat
    BY BanAssumption, FS_CardinalityType DEF BanInv, Held
<1>6. /\ base.user = u /\ base.asked = asked /\ base.ban = ban /\ base.bans = bans /\ base.ix = ix
      /\ base.boards = banBoards /\ base.counter = counter
      /\ base = [user |-> base.user, asked |-> base.asked, ban |-> base.ban, new |-> base.new,
                 bans |-> base.bans, ix |-> base.ix, boards |-> base.boards,
                 counter |-> base.counter, wrecked |-> base.wrecked]
    BY <1>1
<1>7. Turned(u, base, base, 0)
    <2>1. Work(base)
        BY <1>5, <1>6 DEF Work, ParseBoards
    <2>2. Spares(u, base, base)
        BY DEF Spares
    <2> QED
        BY <1>5, <1>6, <2>1, <2>2 DEF Turned
<1>8. Edited(base, ranges[1])
    <2>1. ban # Nil => ban \in bans /\ MayEdit(ban, ranges[1])
        BY <1>4
    <2>2. "older" \notin Edits /\ "moved" \notin Edits
        OBVIOUS
    <2>3. ban # Nil => ban \in bans /\ ranges[1] = ix.range[ban] /\ Get(ix, ranges[1]) = ban
        BY <2>1, <2>2 DEF MayEdit
    <2> QED
        BY <1>6, <2>3 DEF Edited
<1>9. Turned(u, base, w, Len(ranges)) /\ Len(ranges) \in Nat \ {0}
    BY ONLY <1>2, <1>4, <1>7, <1>8, TurnsKeep, BanInv, ranges \in Ranges, Zenon
<1>10. /\ Held(w.bans, w.ix, w.boards, w.counter) /\ w.counter <= counter + Len(ranges)
       /\ Spares(u, base, w) /\ w.counter \in Nat
    BY <1>9 DEF Turned, Work, Held
<1>11. CASE w.wrecked
    <2>1. bans' = bans /\ ix' = ix /\ banBoards' = banBoards /\ counter' = counter
        BY ONLY <1>3, <1>11, Zenon
    <2> QED
        BY <1>4, <2>1 DEF BanInv, Held, InForce
<1>12. CASE ~w.wrecked
    <2>1. bans' = w.bans /\ ix' = w.ix /\ banBoards' = w.boards /\ counter' = w.counter
        BY ONLY <1>3, <1>12, Zenon
    <2>2. Held(bans', ix', banBoards', counter')
        BY <1>10, <2>1
    <2>3. Held(bans, ix, banBoards, counter)'
        BY <1>4, <2>2 DEF Held
    <2>4. counter' <= Cardinality(Ban)
        BY <1>4, <1>5, <1>9, <1>10, <2>1
    <2>5. BanInv'
        BY <1>4, <2>3, <2>4 DEF BanInv
    <2>6. ASSUME userBoards[u] # Nil, NEW r, NEW b, Other(u, b)
          PROVE  InForce(r, b) <=> InForce(r, b)'
        <3>1. Binds(w.bans, w.ix, w.boards, r, b) <=> Binds(bans, ix, banBoards, r, b)
            BY <1>6, <1>10, <2>6 DEF Spares
        <3> QED
            BY <2>1, <3>1 DEF Binds, InForce
    <2> QED
        BY <2>5, <2>6
<1> QED
    BY <1>11, <1>12

\* find_bans meets the bans of a range, by the order of their list.
LEMMA IndexedFound ==
    ASSUME Indexed(ix, bans), NEW r \in IpRange
    PROVE  LET want == OfRange(ix, bans, r)
               n    == Cardinality(want)
           IN {Met(r, k) : k \in 1..n} = want /\ Met(r, n + 1) = Nil
<1>1. PICK want, l : want = OfRange(ix, bans, r) /\ l = RangeList(ix, bans, r)
    OBVIOUS
<1>2. PICK s, n : Holds(l, s, n)
    BY <1>1 DEF Indexed
<1>3. Nodes(l) = want /\ l.first = Get(ix, r) /\ \A x \in Nodes(l) : ix.next[x] = l.next[x]
    BY <1>1, RangeListIs
<1>4. \A k \in Nat \ {0} : Nth(l.first, ix.next, k) = IF k <= n THEN s[k] ELSE Nil
    BY <1>2, <1>3, NthAlong
<1>5. \A k \in Nat \ {0} : Met(r, k) = IF k <= n THEN s[k] ELSE Nil
    BY <1>3, <1>4 DEF Met
<1>6. Cardinality(want) = n
    BY <1>2, <1>3, HoldsCard
<1>7. n \in Nat /\ (\A k \in 1..n : s[k] \in want) /\ \A x \in want : \E k \in 1..n : s[k] = x
    BY <1>2, <1>3 DEF Holds
<1>8. \A k \in 1..n : Met(r, k) = s[k]
    BY <1>5, <1>7
<1>9. Met(r, n + 1) = Nil
    BY <1>5, <1>7
<1>10. {Met(r, k) : k \in 1..n} = want
    BY <1>7, <1>8
<1> QED
    BY <1>1, <1>6, <1>9, <1>10

\* The pointers of a ban lead to bans of its range, or nowhere.
LEMMA IndexedPoints ==
    ASSUME NEW i, NEW L, Indexed(i, L), NEW b \in L
    PROVE  i.next[b] \in L \cup {Nil} /\ i.prev[b] \in L \cup {Nil}
<1>1. PICK r, l : r = i.range[b] /\ l = RangeList(i, L, r)
    OBVIOUS
<1>2. r \in IpRange /\ b \in OfRange(i, L, r)
    BY <1>1 DEF Indexed, Shaped, OfRange
<1>3. PICK s, n : Holds(l, s, n)
    BY <1>1, <1>2 DEF Indexed
<1>4. Nodes(l) = OfRange(i, L, r) /\ l.next[b] = i.next[b] /\ l.prev[b] = i.prev[b]
    BY <1>1, <1>2, RangeListIs
<1>5. l.next \in [Nodes(l) -> Nodes(l) \cup {Nil}] /\ l.prev \in [Nodes(l) -> Nodes(l) \cup {Nil}]
    BY <1>3 DEF Holds
<1>6. l.next[b] \in Nodes(l) \cup {Nil} /\ l.prev[b] \in Nodes(l) \cup {Nil}
    BY <1>2, <1>4, <1>5
<1> QED
    BY <1>4, <1>6 DEF OfRange

\* What the runs check of the bans follows.
LEMMA BanInvGives ==
    ASSUME BanInv
    PROVE  FoundExactly /\ NothingDangles
<1>1. /\ Indexed(ix, bans) /\ DOMAIN ix.range = bans \cup freed /\ bans \cap freed = {}
      /\ counter \in Nat /\ bans \cup freed \subseteq 1..counter /\ counter <= Cardinality(Ban)
    BY DEF BanInv, Held
<1>2. bans \subseteq Ban /\ freed \subseteq Ban
    <2>1. Cardinality(Ban) \in Nat
        BY BanAssumption, FS_CardinalityType
    <2>2. \A b \in 1..counter : b \in 1..Cardinality(Ban)
        BY <1>1, <2>1
    <2> QED
        BY <1>1, <2>2, BanAssumption
<1>3. FoundExactly
    BY <1>1, IndexedFound DEF FoundExactly, OfRange
<1>4. Shaped(ix, bans)
    BY <1>1 DEF Indexed
<1>5. \A e \in ix.tbl : e.ban \in bans /\ e = [slot |-> ix.range[e.ban], ban |-> e.ban]
    BY <1>4 DEF Shaped
<1>6. /\ ix.range \in [bans \cup freed -> IpRange]
      /\ ix.prev \in [bans \cup freed -> Ban \cup {Nil}]
      /\ ix.next \in [bans \cup freed -> Ban \cup {Nil}]
    BY <1>1, <1>4 DEF Shaped
<1>7. ix.tbl \subseteq [slot : IpRange, ban : bans \cup freed]
    <2>1. ASSUME NEW e \in ix.tbl PROVE e \in [slot : IpRange, ban : bans \cup freed]
        BY <1>5, <1>6
    <2> QED
        BY <2>1
<1>8. Nil \notin freed
    BY <1>2, BanAssumption
<1>9. \A b \in bans : ix.prev[b] \notin freed /\ ix.next[b] \notin freed
    BY <1>1, <1>8, IndexedPoints
<1> QED
    BY <1>1, <1>2, <1>3, <1>5, <1>6, <1>7, <1>9 DEF NothingDangles, TypeOK

\* At the start there are no bans.
LEMMA BanInvInit == Init => BanInv
<1>1. SUFFICES ASSUME Init PROVE BanInv
    OBVIOUS
<1>2. bans = {} /\ freed = {} /\ ix = NoBans /\ boards = Board /\ counter = 0
      /\ banBoards = [b \in {} |-> Nil] /\ userBoards = [u \in User |-> Nil]
    BY <1>1 DEF Init
<1>3. DOMAIN ix.range = {}
    BY <1>2 DEF NoBans
<1>4. Indexed(ix, bans)
    BY <1>2, NoBansIndexed
<1>5. Held(bans, ix, banBoards, counter)
    BY <1>2, <1>3, <1>4 DEF Held
<1>6. Cardinality(Ban) \in Nat
    BY BanAssumption, FS_CardinalityType
<1> QED
    BY <1>2, <1>5, <1>6 DEF BanInv

\* Some bans are deleted.
LEMMA DeleteAllKeeps ==
    ASSUME BanInv, NEW B \in SUBSET bans, DeleteAll(B),
           UNCHANGED <<boards, banBoards, userBoards, counter>>
    PROVE  BanInv' /\ bans' = bans \ B /\ ix'.range = ix.range
<1>1. bans' = bans \ B /\ freed' = freed \cup B /\ ix' = Deleted(ix, B)
    BY DEF DeleteAll
<1>2. Held(bans, ix, banBoards, counter)
    BY DEF BanInv
<1>3. Indexed(ix', bans') /\ ix'.range = ix.range
    BY <1>1, <1>2, DeletedIndexes DEF Held
<1>4. Held(bans, ix, banBoards, counter)'
    BY <1>1, <1>2, <1>3 DEF Held
<1> QED
    BY <1>1, <1>3, <1>4 DEF BanInv

\* Whatever moderators and time do to the bans, BanInv holds after it.
LEMMA BanInvStep ==
    ASSUME Edits \subseteq {"newest"}, BanInv, [Next]_vars
    PROVE  BanInv'
<1>1. ASSUME NEW u \in User, NEW ban \in bans \cup {Nil}, NEW asked \in {Nil} \cup ParseBoards,
             NEW ranges \in Ranges, DoBan(u, ban, asked, ranges)
      PROVE  BanInv'
    BY <1>1, DoBanKeeps
<1>2. ASSUME NEW u \in User, NEW b \in Ban, DoDeleteBan(u, b) PROVE BanInv'
    BY <1>2, DeleteAllKeeps DEF DoDeleteBan
<1>3. ASSUME NEW u \in User, NEW b \in Ban, DoDeleteNoBan(u, b) PROVE BanInv'
    BY <1>3 DEF DoDeleteNoBan, BanInv, Held, banVars
<1>4. ASSUME NEW expired \in SUBSET bans, PurgeBans(expired) PROVE BanInv'
    BY <1>4, DeleteAllKeeps DEF PurgeBans
<1>5. ASSUME NEW b \in Board, DeleteBoard(b) PROVE BanInv'
    BY <1>5 DEF DeleteBoard, BanInv, Held, banVars
<1>6. ASSUME NEW u \in User, NEW B \in ParseBoards, EditBoardsOf(u, B) PROVE BanInv'
    <2>1. UNCHANGED <<bans, freed, ix, boards, banBoards, counter>>
        BY <1>6 DEF EditBoardsOf, banVars
    <2>2. userBoards' \in [User -> (SUBSET Board) \cup {Nil}]
        BY <1>6 DEF EditBoardsOf, BanInv, ParseBoards
    <2> QED
        BY <2>1, <2>2 DEF BanInv, Held
<1>7. CASE UNCHANGED vars
    BY <1>7 DEF vars, BanInv, Held, banVars
<1> QED
    BY <1>1, <1>2, <1>3, <1>4, <1>5, <1>6, <1>7 DEF Next

\* One step of a moderator with a list, seen from a board that is not on his list.
LEMMA OthersStep ==
    ASSUME Edits \subseteq {"newest"}, BanInv, [Next]_vars, NEW u \in User, by' = u,
           NEW r \in IpRange, NEW b \in boards, ~IsModForBoard(u, b)
    PROVE  vars' = vars \/ (InForce(r, b) <=> InForce(r, b)')
<1>1. userBoards[u] # Nil /\ Other(u, b) /\ Nil \notin User
    BY ModerationAssumption DEF IsModForBoard, Other
<1>2. ASSUME NEW v \in User, by' = Limited(v) PROVE v = u
    BY <1>1, <1>2 DEF Limited
<1>3. ASSUME NEW v \in User, NEW ban \in bans \cup {Nil}, NEW asked \in {Nil} \cup ParseBoards,
             NEW ranges \in Ranges, DoBan(v, ban, asked, ranges)
      PROVE  InForce(r, b) <=> InForce(r, b)'
    <2>1. v = u
        BY <1>2, <1>3 DEF DoBan
    <2> QED
        BY <1>1, <1>3, <2>1, DoBanKeeps
<1>4. ASSUME NEW v \in User, NEW x \in Ban, DoDeleteBan(v, x)
      PROVE  InForce(r, b) <=> InForce(r, b)'
    <2>1. v = u /\ x \in bans /\ CanDeleteBan(u, x)
        BY <1>2, <1>4 DEF DoDeleteBan
    <2>2. bans' = bans \ {x} /\ ix'.range = ix.range /\ banBoards' = banBoards
        BY <1>4, <2>1, DeleteAllKeeps DEF DoDeleteBan
    <2>3. ~(banBoards[x] = Nil \/ b \in banBoards[x])
        BY <1>1, <2>1 DEF CanDeleteBan
    <2> QED
        BY <2>2, <2>3 DEF InForce
<1>5. ASSUME NEW v \in User, NEW x \in Ban, DoDeleteNoBan(v, x)
      PROVE  InForce(r, b) <=> InForce(r, b)'
    BY <1>5 DEF DoDeleteNoBan, InForce, banVars
<1>6. ASSUME NEW expired \in SUBSET bans, PurgeBans(expired) PROVE FALSE
    BY <1>1, <1>6 DEF PurgeBans
<1>7. ASSUME NEW x \in Board, DeleteBoard(x) PROVE FALSE
    BY <1>1, <1>7 DEF DeleteBoard
<1>8. ASSUME NEW v \in User, NEW B \in ParseBoards, EditBoardsOf(v, B) PROVE FALSE
    BY <1>1, <1>8 DEF EditBoardsOf
<1> QED
    BY <1>3, <1>4, <1>5, <1>6, <1>7, <1>8 DEF Next

\* insert_ban, update_ban, delete_ban, find_bans: a ban is met by find_bans for its range
\* from the moment it is made until it is deleted, once, and nothing else is.  This needs
\* that only the newest ban of a range is edited and keeps its range: the run ban_older
\* shows what editing an older one does to the index.
THEOREM BansFoundExactly ==
    ASSUME Edits \subseteq {"newest"}
    PROVE  Spec => []FoundExactly
<1>1. Init => BanInv
    BY BanInvInit
<1>2. BanInv /\ [Next]_vars => BanInv'
    BY BanInvStep
<1>3. BanInv => FoundExactly
    BY BanInvGives
<1> QED
    BY <1>1, <1>2, <1>3, PTL DEF Spec

\* delete_ban_from_hashmap, "Remove from hashmap": neither ban_tbl nor a ban that exists
\* points to a ban that was freed, under the same condition.
THEOREM NoBanDangles ==
    ASSUME Edits \subseteq {"newest"}
    PROVE  Spec => []NothingDangles
<1>1. Init => BanInv
    BY BanInvInit
<1>2. BanInv /\ [Next]_vars => BanInv'
    BY BanInvStep
<1>3. BanInv => NothingDangles
    BY BanInvGives
<1> QED
    BY <1>1, <1>2, <1>3, PTL DEF Spec

\* mod_page_finish, "Remove all the boards for which the user has mod rights": what a
\* moderator with a list of boards does changes no ban on a board that is not on it, for
\* any number of boards, users and ranges in the request.
THEOREM BansOfOthersStay ==
    ASSUME Edits \subseteq {"newest"}
    PROVE  Spec => OthersBansStay
<1>1. Init => BanInv
    BY BanInvInit
<1>2. BanInv /\ [Next]_vars => BanInv'
    BY BanInvStep
<1>3. BanInv /\ [Next]_vars =>
         [\A u \in User :
          by' = u => \A r \in IpRange, b \in boards :
                        ~IsModForBoard(u, b) => InForce(r, b) = InForce(r, b)']_vars
    <2>1. SUFFICES ASSUME BanInv, [Next]_vars, vars' # vars, NEW u \in User, by' = u,
                          NEW r \in IpRange, NEW b \in boards, ~IsModForBoard(u, b)
                   PROVE  InForce(r, b) = InForce(r, b)'
        OBVIOUS
    <2>2. InForce(r, b) <=> InForce(r, b)'
        BY <2>1, OthersStep
    <2>3. InForce(r, b) \in BOOLEAN /\ InForce(r, b)' \in BOOLEAN
        BY DEF InForce
    <2> QED
        BY <2>2, <2>3
<1> QED
    BY <1>1, <1>2, <1>3, PTL DEF Spec, OthersBansStay
=============================================================================
