----------------------------- MODULE LinkedList -----------------------------
(***************************************************************************)
(* The doubly linked lists of persistence.h: boards, users and sessions,   *)
(* which start in struct master, the threads of a board and the posts of a *)
(* thread.  A list is a record of its first and last pointer and of the    *)
(* next and prev of every node; a node that was freed has neither.         *)
(***************************************************************************)
EXTENDS Naturals, FiniteSets

CONSTANT Nil   \* the null pointer

EmptyList == [first |-> Nil, last |-> Nil,
              next |-> [x \in {} |-> Nil], prev |-> [x \in {} |-> Nil]]

Nodes(l) == DOMAIN l.next

\* f with the value v at x, if x is no null pointer.
Set(f, x, v) == [y \in (DOMAIN f \cup {x}) \ {Nil} |-> IF y = x THEN v ELSE f[y]]

\* The node is added after the last one.  The pointer to the first node is not set,
\* so a list that was empty keeps none.
AppendNode(l, x) ==
    [l EXCEPT !.next = Set(Set(@, x, Nil), l.last, x),
              !.prev = Set(@, x, l.last),
              !.last = x]

\* The node is put before the first one; this list has no pointer to the last.
PushNode(l, x) ==
    [l EXCEPT !.next = Set(@, x, l.first),
              !.prev = Set(Set(@, x, Nil), l.first, x),
              !.first = x]

\* The node is taken out and freed.
Unlink(l, x) ==
    LET next == Set(l.next, l.prev[x], l.next[x])
        prev == Set(l.prev, l.next[x], l.prev[x])
    IN [first |-> IF x = l.first THEN l.next[x] ELSE l.first,
        last  |-> IF x = l.last THEN l.prev[x] ELSE l.last,
        next  |-> [y \in Nodes(l) \ {x} |-> next[y]],
        prev  |-> [y \in Nodes(l) \ {x} |-> prev[y]]]

\* The n-th node met from the start along the pointers of link.
Nth(start, link, n) ==
    LET at[k \in Nat \ {0}] == IF k = 1 THEN start
                              ELSE IF at[k - 1] = Nil THEN Nil ELSE link[at[k - 1]]
    IN at[n]

\* What a loop "for x = first; x; x = next" meets.
Reached(l) == {Nth(l.first, l.next, n) : n \in 1..Cardinality(Nodes(l))} \ {Nil}

\* Along next the loop meets every node once and ends, and prev leads back.
Linked(l) == LET n == Cardinality(Nodes(l))
             IN /\ Reached(l) = Nodes(l)
                /\ Nth(l.first, l.next, n + 1) = Nil
                /\ \A k \in 1..n : l.prev[Nth(l.first, l.next, k)] =
                                      IF k = 1 THEN Nil ELSE Nth(l.first, l.next, k - 1)
=============================================================================
