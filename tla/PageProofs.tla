------------------------------ MODULE PageProofs ----------------------------
(***************************************************************************)
(* Proofs about what pages print.                                          *)
(*                                                                         *)
(* bbcode.c: however tags overlap, the elements of the page are closed in  *)
(* the order in which they were opened, for any set of tags and any depth. *)
(* The loops of CLOSE_TAG, CLOSE_ALL and of the levels of a quote are      *)
(* folds; each is a lemma about what one turn of it keeps.                 *)
(*                                                                         *)
(* context.c, print.c: a client gets the bytes that were printed for it,   *)
(* for any number of connections and chunks of any size.  Right says of    *)
(* one context how its chunks, its buffer and its batch belong together;   *)
(* it is kept by each operation on a context (Writing), then by each turn  *)
(* of the loops of context_write_data and _print_esc_html, and at last, as *)
(* OutputInv, by every step of every connection.                           *)
(***************************************************************************)
EXTENDS Bbcode, Output, SequenceTheorems, FiniteSetTheorems, WellFoundedInduction, TLAPS

-----------------------------------------------------------------------------
(* Bbcode. *)

\* Each tag that is closed, and each that is opened, one after the other.
Closing     == INSTANCE Folding WITH Op <- Closed
Opening     == INSTANCE Folding WITH Op <- Opened
ClosingTags == INSTANCE Folding WITH Op <- CloseTag
OpeningTags == INSTANCE Folding WITH Op <- OpenTag

Element == Tag \cup {"code", ">"}

\* The work of a step, while no element was closed out of turn.
Untorn(w) == /\ w = [stack |-> w.stack, html |-> w.html, torn |-> w.torn]
             /\ w.stack \in Seq(Element) /\ w.html \in Seq(Element)
             /\ w.torn = FALSE

\* CLOSE_TAG and CLOSE_ALL close what is innermost, and go on to what was around it.
LEMMA ClosedRun ==
    ASSUME NEW w, Untorn(w), NEW q \in Seq(Element), Len(q) <= Len(w.html),
           \A k \in 1..Len(q) : q[k] = w.html[Len(w.html) + 1 - k]
    PROVE  LET v == FoldLeft(Closed, w, q)
           IN /\ Untorn(v) /\ v.stack = w.stack
              /\ v.html = SubSeq(w.html, 1, Len(w.html) - Len(q))
<1>1. PICK h, n, m : h = w.html /\ n = Len(h) /\ m = Len(q)
    OBVIOUS
<1>2. /\ h \in Seq(Element) /\ n \in Nat /\ m \in Nat /\ DOMAIN q = 1..m /\ Len(h) = n /\ m <= n
      /\ \A k \in 1..m : q[k] = h[n + 1 - k]
    BY <1>1 DEF Untorn
<1>3. PICK v : v = FoldLeft(Closed, w, q)
    OBVIOUS
<1>4. PICK f : /\ f[0] = w
               /\ \A k \in 1..Len(q) : f[k] = Closed(f[k - 1], q[k])
               /\ v = f[Len(q)]
    <2>1. v = Closing!FoldLeft(Closed, w, q)
        BY ONLY <1>3, Zenon DEF FoldLeft, Closing!FoldLeft, MapThenFoldSet, Closing!MapThenFoldSet, Max, Closing!Max
    <2>2. DOMAIN q = 1..Len(q)
        BY <1>1, <1>2
    <2>3. Len(q) \in Nat
        BY <1>1, <1>2
    <2>4. \E f : /\ f[0] = w
                 /\ \A k \in 1..Len(q) : f[k] = Closed(f[k - 1], q[k])
                 /\ Closing!FoldLeft(Closed, w, q) = f[Len(q)]
        BY ONLY <2>2, <2>3, Closing!Steps, ZenonT(60)
    <2> QED
        BY ONLY <2>1, <2>4, Zenon
<1>5. PICK S : S = {k \in Nat : k <= m => /\ Untorn(f[k]) /\ f[k].stack = w.stack
                                          /\ f[k].html = SubSeq(h, 1, n - k)}
    OBVIOUS
<1>6. S \subseteq Nat /\ 0 \in S
    <2>1. SubSeq(h, 1, n - 0) = h
        BY <1>2, SubSeqFull
    <2> QED
        BY <1>1, <1>4, <1>5, <2>1
<1>7. ASSUME NEW k \in S PROVE k + 1 \in S
    <2>1. k \in Nat
        BY <1>5
    <2>2. SUFFICES ASSUME k + 1 <= m
                   PROVE  /\ Untorn(f[k + 1]) /\ f[k + 1].stack = w.stack
                          /\ f[k + 1].html = SubSeq(h, 1, n - (k + 1))
        BY <1>5, <2>1
    <2>3. PICK a, b, t, g : a = f[k] /\ b = f[k + 1] /\ t = q[k + 1] /\ g = SubSeq(h, 1, n - k)
        OBVIOUS
    <2>4. Untorn(a) /\ a.stack = w.stack /\ a.html = g
        BY <1>2, <1>5, <2>1, <2>2, <2>3
    <2>5. b = Closed(a, t)
        <3>1. k + 1 \in 1..Len(q) /\ (k + 1) - 1 = k
            BY <1>1, <1>2, <2>1, <2>2
        <3>2. f[k + 1] = Closed(f[(k + 1) - 1], q[k + 1])
            BY ONLY <1>4, <3>1, Zenon
        <3> QED
            BY ONLY <2>3, <3>1, <3>2, Zenon
    <2>6. /\ g \in Seq(Element) /\ Len(g) = n - k /\ n - k >= 1
          /\ \A i \in 1..n - k : g[i] = h[i]
        <3>1. \A i \in 1..n - k : h[i] \in Element
            BY <1>2, <2>1
        <3>2. 1 \in Int /\ n - k \in Int /\ 1 <= n - k
            BY <1>2, <2>1, <2>2
        <3>3. g \in Seq(Element) /\ Len(g) = (n - k) - 1 + 1 /\ \A i \in 1..(n - k) - 1 + 1 : g[i] = h[1 + i - 1]
            BY ONLY <2>3, <3>1, <3>2, SubSeqProperties
        <3> QED
            BY <3>2, <3>3
    <2>7. t = g[Len(g)] /\ g # <<>>
        <3>1. k + 1 \in 1..m /\ n - k \in 1..n - k /\ n + 1 - (k + 1) = n - k
            BY <1>2, <2>1, <2>2
        <3> QED
            BY <1>2, <2>3, <2>6, <3>1
    <2>8. Closed(a, t) = [a EXCEPT !.html = Front(@)]
        BY ONLY <2>4, <2>7, Zenon DEF Closed, Last
    <2>9. PICK e : e = SubSeq(h, 1, n - (k + 1))
        OBVIOUS
    <2>10. Front(g) = e /\ e \in Seq(Element)
        <3>1. \A i \in 1..n - (k + 1) : h[i] \in Element
            BY <1>2, <2>1
        <3>2. \A i \in 1..n - (k + 1) : g[i] \in Element
            BY <1>2, <2>1, <2>6, <3>1
        <3>3. 1 \in Int /\ n - (k + 1) \in Int
            BY <1>2, <2>1
        <3>4. Front(g) = SubSeq(g, 1, n - (k + 1))
            BY <1>2, <2>1, <2>6 DEF Front
        <3>5. /\ e \in Seq(Element)
              /\ Len(e) = (IF 1 <= n - (k + 1) THEN n - (k + 1) - 1 + 1 ELSE 0)
              /\ \A i \in 1..n - (k + 1) - 1 + 1 : e[i] = h[1 + i - 1]
            BY ONLY <2>9, <3>1, <3>3, SubSeqProperties
        <3>6. PICK d : d = Front(g)
            OBVIOUS
        <3>7. /\ d \in Seq(Element)
              /\ Len(d) = (IF 1 <= n - (k + 1) THEN n - (k + 1) - 1 + 1 ELSE 0)
              /\ \A i \in 1..n - (k + 1) - 1 + 1 : d[i] = g[1 + i - 1]
            BY ONLY <3>2, <3>3, <3>4, <3>6, SubSeqProperties
        <3>8. \A i \in 1..Len(d) : d[i] = e[i]
            BY <1>2, <2>1, <2>2, <2>6, <3>5, <3>7
        <3>9. d = e
            BY ONLY <3>5, <3>7, <3>8, SeqEqual
        <3> QED
            BY <3>5, <3>6, <3>9
    <2>11. b = [a EXCEPT !.html = e]
        BY ONLY <2>4, <2>5, <2>8, <2>10, Zenon
    <2>12. Untorn(b) /\ b.stack = w.stack /\ b.html = e
        BY <2>4, <2>10, <2>11 DEF Untorn
    <2> QED
        BY <2>3, <2>9, <2>12
<1>8. S = Nat
    BY ONLY <1>6, <1>7, Closing!Induction, Zenon
<1>9. Untorn(v) /\ v.stack = w.stack /\ v.html = SubSeq(h, 1, n - m)
    BY <1>1, <1>2, <1>4, <1>5, <1>8
<1> QED
    BY <1>1, <1>3, <1>9

\* Tags are opened again in the order of the stack.
LEMMA OpenedRun ==
    ASSUME NEW w, Untorn(w), NEW q \in Seq(Element)
    PROVE  LET v == FoldLeft(Opened, w, q)
           IN Untorn(v) /\ v.stack = w.stack /\ v.html = w.html \o q
<1>1. PICK h, m : h = w.html /\ m = Len(q)
    OBVIOUS
<1>2. h \in Seq(Element) /\ m \in Nat /\ DOMAIN q = 1..m /\ \A k \in 1..m : q[k] \in Element
    BY <1>1 DEF Untorn
<1>3. PICK v : v = FoldLeft(Opened, w, q)
    OBVIOUS
<1>4. PICK f : /\ f[0] = w
               /\ \A k \in 1..Len(q) : f[k] = Opened(f[k - 1], q[k])
               /\ v = f[Len(q)]
    <2>1. v = Opening!FoldLeft(Opened, w, q)
        BY ONLY <1>3, Zenon DEF FoldLeft, Opening!FoldLeft, MapThenFoldSet, Opening!MapThenFoldSet, Max, Opening!Max
    <2>2. DOMAIN q = 1..Len(q)
        BY <1>1, <1>2
    <2>3. Len(q) \in Nat
        BY <1>1, <1>2
    <2>4. \E f : /\ f[0] = w
                 /\ \A k \in 1..Len(q) : f[k] = Opened(f[k - 1], q[k])
                 /\ Opening!FoldLeft(Opened, w, q) = f[Len(q)]
        BY ONLY <2>2, <2>3, Opening!Steps, ZenonT(60)
    <2> QED
        BY ONLY <2>1, <2>4, Zenon
<1>5. PICK S : S = {k \in Nat : k <= m => /\ Untorn(f[k]) /\ f[k].stack = w.stack
                                          /\ f[k].html = h \o SubSeq(q, 1, k)}
    OBVIOUS
<1>6. S \subseteq Nat /\ 0 \in S
    <2>1. SubSeq(q, 1, 0) = <<>> /\ h \o <<>> = h
        BY <1>2, SubSeqEmpty, ConcatEmptySeq
    <2> QED
        BY <1>1, <1>4, <1>5, <2>1
<1>7. ASSUME NEW k \in S PROVE k + 1 \in S
    <2>1. k \in Nat
        BY <1>5
    <2>2. SUFFICES ASSUME k + 1 <= m
                   PROVE  /\ Untorn(f[k + 1]) /\ f[k + 1].stack = w.stack
                          /\ f[k + 1].html = h \o SubSeq(q, 1, k + 1)
        BY <1>5, <2>1
    <2>3. PICK a, b, t, g : a = f[k] /\ b = f[k + 1] /\ t = q[k + 1] /\ g = SubSeq(q, 1, k)
        OBVIOUS
    <2>4. Untorn(a) /\ a.stack = w.stack /\ a.html = h \o g
        BY <1>2, <1>5, <2>1, <2>2, <2>3
    <2>5. b = Opened(a, t)
        <3>1. k + 1 \in 1..Len(q) /\ (k + 1) - 1 = k
            BY <1>1, <1>2, <2>1, <2>2
        <3>2. f[k + 1] = Opened(f[(k + 1) - 1], q[k + 1])
            BY ONLY <1>4, <3>1, Zenon
        <3> QED
            BY ONLY <2>3, <3>1, <3>2, Zenon
    <2>6. t \in Element /\ g \in Seq(Element)
        <3>1. \A i \in 1..k : q[i] \in Element
            BY <1>2, <2>1, <2>2
        <3>2. 1 \in Int /\ k \in Int
            BY <2>1
        <3> QED
            BY <1>2, <2>1, <2>2, <2>3, <3>1, <3>2, SubSeqProperties
    <2>7. SubSeq(q, 1, k + 1) = g \o <<t>>
        <3>1. 1 \in 1..Len(q) /\ k + 1 \in 1..Len(q) /\ (k + 1) - 1 = k
            BY <1>1, <1>2, <2>1, <2>2
        <3>2. SubSeq(q, 1, k + 1) = SubSeq(q, 1, (k + 1) - 1) \o <<q[k + 1]>>
            BY ONLY <3>1, q \in Seq(Element), SubSeqRecursiveSecond
        <3> QED
            BY ONLY <2>3, <3>1, <3>2, Zenon
    <2>8. PICK e : e = h \o SubSeq(q, 1, k + 1)
        OBVIOUS
    <2>9. Append(a.html, t) = e /\ e \in Seq(Element)
        <3>1. <<t>> \in Seq(Element) /\ h \o g \in Seq(Element)
            BY <1>2, <2>6, ConcatProperties
        <3>2. Append(h \o g, t) = (h \o g) \o <<t>>
            BY ONLY <2>6, <3>1, AppendIsConcat
        <3>3. (h \o g) \o <<t>> = h \o (g \o <<t>>)
            BY ONLY <1>2, <2>6, <3>1, ConcatAssociative, SMTT(40)
        <3>4. Append(a.html, t) = e
            BY ONLY <2>4, <2>7, <2>8, <3>2, <3>3, Zenon
        <3>5. Append(h \o g, t) \in Seq(Element)
            BY ONLY <2>6, <3>1, AppendProperties
        <3> QED
            BY ONLY <2>4, <3>4, <3>5, Zenon
    <2>10. b = [a EXCEPT !.html = e]
        BY ONLY <2>5, <2>9, Zenon DEF Opened
    <2>11. Untorn(b) /\ b.stack = w.stack /\ b.html = e
        BY <2>4, <2>9, <2>10 DEF Untorn
    <2> QED
        BY <2>3, <2>8, <2>11
<1>8. S = Nat
    BY ONLY <1>6, <1>7, Closing!Induction, Zenon
<1>9. Untorn(v) /\ v.stack = w.stack /\ v.html = h \o q
    <2>1. SubSeq(q, 1, m) = q
        BY <1>1, SubSeqFull
    <2> QED
        BY <1>1, <1>2, <1>4, <1>5, <1>8, <2>1, SMTT(40)
<1> QED
    BY <1>1, <1>3, <1>9

\* The part of a sequence.
LEMMA PartIs ==
    ASSUME NEW s \in Seq(Element), NEW i \in 1..Len(s) + 1, NEW j \in i - 1..Len(s)
    PROVE  /\ SubSeq(s, i, j) \in Seq(Element) /\ Len(SubSeq(s, i, j)) = j - i + 1
           /\ \A k \in 1..j - i + 1 : SubSeq(s, i, j)[k] = s[i + k - 1]
<1>1. Len(s) \in Nat /\ i \in Int /\ j \in Int
    OBVIOUS
<1>2. \A k \in i..j : s[k] \in Element
    <2>1. \A k \in i..j : k \in 1..Len(s)
        BY <1>1
    <2> QED
        BY ONLY <2>1, s \in Seq(Element), ElementOfSeq
<1>3. PICK p : p = SubSeq(s, i, j)
    OBVIOUS
<1>4. /\ p \in Seq(Element) /\ Len(p) = (IF i <= j THEN j - i + 1 ELSE 0)
      /\ \A k \in 1..j - i + 1 : p[k] = s[i + k - 1]
    BY ONLY <1>1, <1>2, <1>3, SubSeqProperties, SMTT(40)
<1> QED
    BY <1>1, <1>3, <1>4

\* All that is open, the innermost first.
LEMMA ReverseIs ==
    ASSUME NEW s \in Seq(Element)
    PROVE  /\ Reverse(s) \in Seq(Element) /\ Len(Reverse(s)) = Len(s)
           /\ \A k \in 1..Len(s) : Reverse(s)[k] = s[Len(s) + 1 - k]
<1>1. Len(s) \in Nat /\ \A k \in 1..Len(s) : s[k] \in Element
    BY ElementOfSeq
<1>2. PICK n : n = Len(s)
    OBVIOUS
<1>3. PICK r : r = [k \in 1..n |-> s[(n - k) + 1]]
    OBVIOUS
<1>4. r = Reverse(s)
    BY <1>2, <1>3 DEF Reverse
<1>5. \A k \in 1..n : n - k + 1 \in 1..n /\ n - k + 1 = n + 1 - k
    BY <1>1, <1>2
<1>6. r \in [1..n -> Element] /\ \A k \in 1..n : r[k] = s[n + 1 - k]
    BY <1>1, <1>2, <1>3, <1>5
<1>7. r \in Seq(Element) /\ Len(r) = n
    BY <1>1, <1>2, <1>6
<1> QED
    BY <1>2, <1>4, <1>6, <1>7

\* CLOSE_TAG leaves the elements nested as the tags of the stack are, and opens no
\* other tags than were open.
LEMMA CloseTagKeeps ==
    ASSUME NEW w, Untorn(w), w.html = w.stack, NEW t \in Element
    PROVE  LET v == CloseTag(w, t)
           IN /\ Untorn(v) /\ v.html = v.stack
              /\ \A i \in DOMAIN v.stack : \E j \in DOMAIN w.stack : v.stack[i] = w.stack[j]
              /\ w.stack = <<t>> => v.stack = <<>>
<1>1. PICK s, n, where : s = w.stack /\ n = Len(s) /\ where = {i \in DOMAIN s : s[i] = t}
    OBVIOUS
<1>2. s \in Seq(Element) /\ n \in Nat /\ DOMAIN s = 1..n /\ w.html = s /\ Len(s) = n
    BY <1>1 DEF Untorn
<1>3. CASE where = {}
    <2>1. CloseTag(w, t) = w
        BY ONLY <1>1, <1>3, Zenon DEF CloseTag
    <2>2. s # <<t>>
        <3>1. s = <<t>> => 1 \in where
            BY <1>1, <1>2
        <3> QED
            BY <1>3, <3>1
    <2> QED
        BY <1>1, <2>1, <2>2
<1>4. CASE where # {}
    <2>1. PICK top : top = CHOOSE i \in where : \A j \in where : j <= i
        OBVIOUS
    <2>2. top \in where
        <3>1. where \in SUBSET (1..n) /\ n \in Nat
            BY <1>1, <1>2
        <3>2. Closing!Max(where) \in where /\ \A j \in where : j <= Closing!Max(where)
            BY ONLY <1>4, <3>1, Closing!HasMax, Zenon
        <3> QED
            BY ONLY <2>1, <3>2, Zenon
    <2>3. top \in 1..n /\ s[top] = t
        BY <1>1, <1>2, <2>2
    <2>4. PICK above, outer : above = SubSeq(s, top + 1, n) /\ outer = SubSeq(s, 1, top - 1)
        OBVIOUS
    <2>5. /\ above \in Seq(Element) /\ Len(above) = n - top
          /\ \A k \in 1..n - top : above[k] = s[top + k]
        <3>1. top + 1 \in 1..Len(s) + 1 /\ n \in (top + 1) - 1..Len(s)
            BY <1>2, <2>3
        <3>2. /\ above \in Seq(Element) /\ Len(above) = n - (top + 1) + 1
              /\ \A k \in 1..n - (top + 1) + 1 : above[k] = s[top + 1 + k - 1]
            BY ONLY <1>2, <2>4, <3>1, PartIs
        <3> QED
            BY <1>2, <2>3, <3>2
    <2>6. /\ outer \in Seq(Element) /\ Len(outer) = top - 1
          /\ \A k \in 1..top - 1 : outer[k] = s[k]
        <3>1. 1 \in 1..Len(s) + 1 /\ top - 1 \in 1 - 1..Len(s)
            BY <1>2, <2>3
        <3>2. /\ outer \in Seq(Element) /\ Len(outer) = (top - 1) - 1 + 1
              /\ \A k \in 1..(top - 1) - 1 + 1 : outer[k] = s[1 + k - 1]
            BY ONLY <1>2, <2>4, <3>1, PartIs
        <3> QED
            BY <1>2, <2>3, <3>2
    <2>7. PICK q : q = Reverse(above) \o <<t>>
        OBVIOUS
    <2>8. /\ q \in Seq(Element) /\ Len(q) = n - top + 1
          /\ \A k \in 1..Len(q) : q[k] = s[n + 1 - k]
        <3>1. PICK r : r = Reverse(above)
            OBVIOUS
        <3>2. r \in Seq(Element) /\ Len(r) = n - top /\ \A k \in 1..n - top : r[k] = above[n - top + 1 - k]
            BY ONLY <2>5, <3>1, ReverseIs
        <3>3. <<t>> \in Seq(Element) /\ Len(<<t>>) = 1
            OBVIOUS
        <3>4. /\ q \in Seq(Element) /\ Len(q) = Len(r) + Len(<<t>>)
              /\ \A k \in 1..Len(r) + Len(<<t>>) : q[k] = IF k <= Len(r) THEN r[k] ELSE <<t>>[k - Len(r)]
            BY ONLY <2>7, <3>1, <3>2, <3>3, ConcatProperties
        <3>5. Len(q) = n - top + 1 /\ n - top \in Nat
            BY <1>2, <2>3, <3>2, <3>3, <3>4
        <3>6. ASSUME NEW k \in 1..n - top + 1 PROVE q[k] = s[n + 1 - k]
            <4>1. CASE k <= n - top
                <5>1. k \in 1..n - top /\ n - top + 1 - k \in 1..n - top
                    BY <1>2, <2>3, <4>1
                <5>2. q[k] = above[n - top + 1 - k]
                    BY <3>2, <3>4, <3>5, <5>1
                <5>3. above[n - top + 1 - k] = s[top + (n - top + 1 - k)]
                    BY <2>5, <5>1
                <5>4. top + (n - top + 1 - k) = n + 1 - k
                    BY <1>2, <2>3
                <5> QED
                    BY <5>2, <5>3, <5>4
            <4>2. CASE ~(k <= n - top)
                <5>1. k = n - top + 1 /\ n + 1 - k = top /\ k - Len(r) = 1
                    BY <1>2, <2>3, <3>2, <4>2
                <5>2. q[k] = <<t>>[1]
                    BY <3>2, <3>3, <3>4, <3>5, <4>2, <5>1
                <5> QED
                    BY <2>3, <5>1, <5>2
            <4> QED
                BY <4>1, <4>2
        <3> QED
            BY <3>4, <3>5, <3>6
    <2>9. PICK below : below = FoldLeft(Closed, w, q)
        OBVIOUS
    <2>10. Untorn(below) /\ below.stack = s /\ below.html = outer
        <3>1. Len(q) <= Len(w.html) /\ \A k \in 1..Len(q) : q[k] = w.html[Len(w.html) + 1 - k]
            BY <1>2, <2>3, <2>8
        <3>2. Untorn(below) /\ below.stack = w.stack /\ below.html = SubSeq(w.html, 1, Len(w.html) - Len(q))
            BY ONLY <2>8, <2>9, <3>1, Untorn(w), ClosedRun
        <3>3. Len(w.html) - Len(q) = top - 1
            BY <1>2, <2>3, <2>8
        <3> QED
            BY <1>1, <1>2, <2>4, <3>2, <3>3
    <2>11. PICK rest : rest = outer \o above
        OBVIOUS
    <2>12. /\ rest \in Seq(Element) /\ Len(rest) = n - 1
           /\ \A k \in 1..n - 1 : \E j \in 1..n : rest[k] = s[j]
        <3>1. /\ rest \in Seq(Element) /\ Len(rest) = Len(outer) + Len(above)
              /\ \A k \in 1..Len(outer) + Len(above) :
                     rest[k] = IF k <= Len(outer) THEN outer[k] ELSE above[k - Len(outer)]
            BY ONLY <2>5, <2>6, <2>11, ConcatProperties
        <3>2. Len(outer) + Len(above) = n - 1
            BY <1>2, <2>3, <2>5, <2>6
        <3>3. ASSUME NEW k \in 1..n - 1 PROVE \E j \in 1..n : rest[k] = s[j]
            <4>1. CASE k <= top - 1
                <5>1. k \in 1..top - 1 /\ k \in 1..n
                    BY <1>2, <2>3, <4>1
                <5> QED
                    BY <2>6, <3>1, <3>2, <4>1, <5>1
            <4>2. CASE ~(k <= top - 1)
                <5>1. k - (top - 1) \in 1..n - top /\ top + (k - (top - 1)) \in 1..n
                    BY <1>2, <2>3, <4>2
                <5>2. rest[k] = above[k - (top - 1)]
                    BY <2>6, <3>1, <3>2, <4>2
                <5> QED
                    BY <2>5, <5>1, <5>2
            <4> QED
                BY <4>1, <4>2
        <3> QED
            BY <3>1, <3>2, <3>3
    <2>13. PICK cut : cut = [below EXCEPT !.stack = rest]
        OBVIOUS
    <2>14. Untorn(cut) /\ cut.stack = rest /\ cut.html = outer
        BY <2>10, <2>12, <2>13 DEF Untorn
    <2>15. PICK v : v = FoldLeft(Opened, cut, above)
        OBVIOUS
    <2>16. Untorn(v) /\ v.stack = rest /\ v.html = rest
        <3>1. Untorn(v) /\ v.stack = cut.stack /\ v.html = cut.html \o above
            BY ONLY <2>5, <2>14, <2>15, OpenedRun
        <3> QED
            BY ONLY <2>11, <2>14, <3>1, Zenon
    <2>17. CloseTag(w, t) = v
        <3>1. RemoveAt(s, top) = rest
            BY ONLY <1>1, <2>4, <2>11, Zenon DEF RemoveAt
        <3>2. [below EXCEPT !.stack = RemoveAt(@, top)] = cut
            BY ONLY <2>10, <2>13, <3>1, Zenon
        <3>3. CloseTag(w, t) =
                 LET a == SubSeq(w.stack, top + 1, Len(w.stack))
                     b == FoldLeft(Closed, w, Reverse(a) \o <<t>>)
                 IN FoldLeft(Opened, [b EXCEPT !.stack = RemoveAt(@, top)], a)
            BY ONLY <1>1, <1>4, <2>1, Zenon DEF CloseTag
        <3> QED
            BY ONLY <1>1, <2>4, <2>7, <2>9, <2>15, <3>2, <3>3, Zenon
    <2>18. s = <<t>> => rest = <<>>
        <3>1. s = <<t>> => n = 1
            BY <1>1
        <3> QED
            BY <2>12, <3>1, EmptySeq
    <2>19. DOMAIN rest = 1..n - 1
        BY <2>12, LenProperties
    <2> QED
        BY <1>1, <1>2, <2>12, <2>16, <2>17, <2>18, <2>19
<1> QED
    BY <1>3, <1>4

\* What is open is what the stack says.
Neat(w) == Untorn(w) /\ w.html = w.stack

\* [code] is not opened by v.
NoCode(v) == \A i \in DOMAIN v.stack : v.stack[i] # "code"

\* OPEN_TAG.
LEMMA OpenTagKeeps ==
    ASSUME NEW w, Neat(w), NEW t \in Element
    PROVE  LET v == OpenTag(w, t)
           IN /\ Neat(v) /\ v.stack = Append(w.stack, t)
              /\ NoCode(w) /\ t # "code" => NoCode(v)
<1>1. PICK s, e : s = w.stack /\ e = Append(s, t)
    OBVIOUS
<1>2. s \in Seq(Element) /\ w.html = s /\ w.stack = s
    BY <1>1 DEF Neat, Untorn
<1>3. e \in Seq(Element) /\ Len(e) = Len(s) + 1 /\ (\A i \in 1..Len(s) : e[i] = s[i]) /\ e[Len(s) + 1] = t
    BY ONLY <1>1, <1>2, t \in Element, AppendProperties
<1>4. PICK u : u = [w EXCEPT !.stack = e]
    OBVIOUS
<1>5. u = [stack |-> e, html |-> s, torn |-> w.torn] /\ w.torn = FALSE
    BY <1>2, <1>4 DEF Neat, Untorn
<1>6. PICK v : v = [u EXCEPT !.html = e]
    OBVIOUS
<1>7. v = [stack |-> e, html |-> e, torn |-> w.torn]
    BY <1>5, <1>6
<1>8. OpenTag(w, t) = v
    <2>1. [w EXCEPT !.stack = Append(@, t)] = u
        BY ONLY <1>1, <1>2, <1>4, Zenon
    <2>2. Append(u.html, t) = e
        BY <1>1, <1>5
    <2> QED
        BY ONLY <1>6, <2>1, <2>2, Zenon DEF OpenTag, Opened
<1>9. Neat(v) /\ v.stack = e
    <2>1. v.stack = e /\ v.html = e /\ v.torn = w.torn
        BY <1>7
    <2>2. v = [stack |-> v.stack, html |-> v.html, torn |-> v.torn]
        BY ONLY <1>7, <2>1
    <2> QED
        BY ONLY <1>3, <1>5, <2>1, <2>2, Zenon DEF Neat, Untorn
<1>10. NoCode(w) /\ t # "code" => NoCode(v)
    <2>1. DOMAIN e = 1..Len(s) + 1 /\ DOMAIN s = 1..Len(s) /\ Len(s) \in Nat
        BY <1>2, <1>3, LenProperties
    <2> QED
        BY <1>2, <1>3, <1>9, <2>1 DEF NoCode
<1> QED
    BY ONLY <1>1, <1>8, <1>9, <1>10, Zenon

\* A line that is quoted deeper.
LEMMA QuotesOpened ==
    ASSUME NEW w, Neat(w), NoCode(w), NEW m \in Nat
    PROVE  LET v == FoldLeft(OpenTag, w, [j \in 1..m |-> ">"])
           IN Neat(v) /\ NoCode(v)
<1>1. PICK q : q = [j \in 1..m |-> ">"]
    OBVIOUS
<1>2. DOMAIN q = 1..m /\ Len(q) = m /\ \A j \in 1..m : q[j] = ">"
    BY <1>1
<1>3. PICK v : v = FoldLeft(OpenTag, w, q)
    OBVIOUS
<1>4. PICK f : /\ f[0] = w
               /\ \A k \in 1..Len(q) : f[k] = OpenTag(f[k - 1], q[k])
               /\ v = f[Len(q)]
    <2>1. v = OpeningTags!FoldLeft(OpenTag, w, q)
        BY ONLY <1>3, Zenon DEF FoldLeft, OpeningTags!FoldLeft, MapThenFoldSet, OpeningTags!MapThenFoldSet, Max, OpeningTags!Max
    <2>2. DOMAIN q = 1..Len(q)
        BY <1>2
    <2>3. Len(q) \in Nat
        BY <1>2
    <2>4. \E f : /\ f[0] = w
                 /\ \A k \in 1..Len(q) : f[k] = OpenTag(f[k - 1], q[k])
                 /\ OpeningTags!FoldLeft(OpenTag, w, q) = f[Len(q)]
        BY ONLY <2>2, <2>3, OpeningTags!Steps, ZenonT(60)
    <2> QED
        BY ONLY <2>1, <2>4, Zenon
<1>5. PICK S : S = {k \in Nat : k <= m => Neat(f[k]) /\ NoCode(f[k])}
    OBVIOUS
<1>6. S \subseteq Nat /\ 0 \in S
    BY <1>4, <1>5
<1>7. ASSUME NEW k \in S PROVE k + 1 \in S
    <2>1. k \in Nat
        BY <1>5
    <2>2. SUFFICES ASSUME k + 1 <= m PROVE Neat(f[k + 1]) /\ NoCode(f[k + 1])
        BY <1>5, <2>1
    <2>3. k + 1 \in 1..Len(q) /\ (k + 1) - 1 = k /\ k <= m /\ q[k + 1] = ">"
        BY <1>2, <2>1, <2>2
    <2>4. f[k + 1] = OpenTag(f[k], ">")
        BY ONLY <1>4, <2>3, Zenon
    <2>5. Neat(f[k]) /\ NoCode(f[k])
        BY <1>5, <2>3
    <2>6. ">" \in Element /\ ">" # "code"
        BY DEF Element
    <2> QED
        BY ONLY <2>4, <2>5, <2>6, OpenTagKeeps, Zenon
<1>8. S = Nat
    BY ONLY <1>6, <1>7, Closing!Induction, Zenon
<1>9. Neat(v) /\ NoCode(v)
    BY <1>2, <1>4, <1>5, <1>8
<1> QED
    BY ONLY <1>1, <1>3, <1>9, Zenon

\* A line that is quoted less deep.
LEMMA QuotesClosed ==
    ASSUME NEW w, Neat(w), NoCode(w), NEW m \in Nat
    PROVE  LET v == FoldLeft(CloseTag, w, [j \in 1..m |-> ">"])
           IN Neat(v) /\ NoCode(v)
<1>1. PICK q : q = [j \in 1..m |-> ">"]
    OBVIOUS
<1>2. DOMAIN q = 1..m /\ Len(q) = m /\ \A j \in 1..m : q[j] = ">"
    BY <1>1
<1>3. PICK v : v = FoldLeft(CloseTag, w, q)
    OBVIOUS
<1>4. PICK f : /\ f[0] = w
               /\ \A k \in 1..Len(q) : f[k] = CloseTag(f[k - 1], q[k])
               /\ v = f[Len(q)]
    <2>1. v = ClosingTags!FoldLeft(CloseTag, w, q)
        BY ONLY <1>3, Zenon DEF FoldLeft, ClosingTags!FoldLeft, MapThenFoldSet, ClosingTags!MapThenFoldSet, Max, ClosingTags!Max
    <2>2. DOMAIN q = 1..Len(q)
        BY <1>2
    <2>3. Len(q) \in Nat
        BY <1>2
    <2>4. \E f : /\ f[0] = w
                 /\ \A k \in 1..Len(q) : f[k] = CloseTag(f[k - 1], q[k])
                 /\ ClosingTags!FoldLeft(CloseTag, w, q) = f[Len(q)]
        BY ONLY <2>2, <2>3, ClosingTags!Steps, ZenonT(60)
    <2> QED
        BY ONLY <2>1, <2>4, Zenon
<1>5. PICK S : S = {k \in Nat : k <= m => Neat(f[k]) /\ NoCode(f[k])}
    OBVIOUS
<1>6. S \subseteq Nat /\ 0 \in S
    BY <1>4, <1>5
<1>7. ASSUME NEW k \in S PROVE k + 1 \in S
    <2>1. k \in Nat
        BY <1>5
    <2>2. SUFFICES ASSUME k + 1 <= m PROVE Neat(f[k + 1]) /\ NoCode(f[k + 1])
        BY <1>5, <2>1
    <2>3. k + 1 \in 1..Len(q) /\ (k + 1) - 1 = k /\ k <= m /\ q[k + 1] = ">"
        BY <1>2, <2>1, <2>2
    <2>4. PICK a, b : a = f[k] /\ b = f[k + 1]
        OBVIOUS
    <2>5. b = CloseTag(a, ">")
        BY ONLY <1>4, <2>3, <2>4, Zenon
    <2>6. Untorn(a) /\ a.html = a.stack /\ NoCode(a) /\ ">" \in Element
        BY <1>5, <2>3, <2>4 DEF Neat, Element
    <2>7. /\ Untorn(b) /\ b.html = b.stack
          /\ \A i \in DOMAIN b.stack : \E j \in DOMAIN a.stack : b.stack[i] = a.stack[j]
        BY ONLY <2>5, <2>6, CloseTagKeeps, Zenon
    <2>8. Neat(b) /\ NoCode(b)
        BY ONLY <2>6, <2>7, Zenon DEF Neat, NoCode
    <2> QED
        BY ONLY <2>4, <2>8, Zenon
<1>8. S = Nat
    BY ONLY <1>6, <1>7, Closing!Induction, Zenon
<1>9. Neat(v) /\ NoCode(v)
    BY <1>2, <1>4, <1>5, <1>8
<1> QED
    BY ONLY <1>1, <1>3, <1>9, Zenon

\* CLOSE_ALL leaves nothing open.
LEMMA CloseAllKeeps ==
    ASSUME NEW w, Neat(w)
    PROVE  Neat(CloseAll(w)) /\ CloseAll(w).stack = <<>>
<1>1. PICK s, q : s = w.stack /\ q = Reverse(s)
    OBVIOUS
<1>2. s \in Seq(Element) /\ w.html = s /\ w.stack = s /\ w.torn = FALSE /\ Len(s) \in Nat
    BY <1>1 DEF Neat, Untorn
<1>3. q \in Seq(Element) /\ Len(q) = Len(s) /\ \A k \in 1..Len(s) : q[k] = s[Len(s) + 1 - k]
    BY ONLY <1>1, <1>2, ReverseIs
<1>4. PICK u : u = [w EXCEPT !.stack = <<>>]
    OBVIOUS
<1>5. Untorn(u) /\ u.stack = <<>> /\ u.html = s
    <2>1. PICK e : e = <<>>
        OBVIOUS
    <2>2. e \in Seq(Element)
        BY <2>1
    <2>3. u = [w EXCEPT !.stack = e]
        BY <1>4, <2>1
    <2>4. Untorn(u) /\ u.stack = e /\ u.html = s
        BY <1>2, <2>2, <2>3 DEF Neat, Untorn
    <2> QED
        BY <2>1, <2>4
<1>6. PICK v : v = FoldLeft(Closed, u, q)
    OBVIOUS
<1>7. Untorn(v) /\ v.stack = <<>> /\ v.html = <<>>
    <2>1. Len(q) <= Len(u.html) /\ \A k \in 1..Len(q) : q[k] = u.html[Len(u.html) + 1 - k]
        BY <1>2, <1>3, <1>5
    <2>2. Untorn(v) /\ v.stack = u.stack /\ v.html = SubSeq(u.html, 1, Len(u.html) - Len(q))
        BY ONLY <1>3, <1>5, <1>6, <2>1, ClosedRun
    <2>3. SubSeq(u.html, 1, Len(u.html) - Len(q)) = <<>>
        BY <1>2, <1>3, <1>5, SubSeqEmpty
    <2> QED
        BY ONLY <1>5, <2>2, <2>3, Zenon
<1>8. CloseAll(w) = v
    BY ONLY <1>1, <1>4, <1>6, Zenon DEF CloseAll
<1> QED
    BY ONLY <1>7, <1>8, Zenon DEF Neat

\* What holds between two turns of the loop.
TextInv ==
    /\ stack \in Seq(Element) /\ html = stack /\ torn = FALSE
    /\ depth \in Nat /\ code \in BOOLEAN /\ newline \in BOOLEAN /\ done \in BOOLEAN
    /\ code => ~newline
    /\ done => stack = <<>>
    /\ (\E i \in DOMAIN stack : stack[i] = "code") => code /\ stack = <<"code">>

\* A step begins with the elements nested as the tags of the stack.
LEMMA WorkNeat ==
    ASSUME TextInv
    PROVE  Neat(Work) /\ Work.stack = stack
<1>1. PICK no : no = FALSE
    OBVIOUS
<1>2. PICK w : w = [stack |-> stack, html |-> stack, torn |-> no]
    OBVIOUS
<1>3. w.stack = stack /\ w.html = stack /\ w.torn = no
    BY <1>2
<1>4. w = [stack |-> w.stack, html |-> w.html, torn |-> w.torn]
    BY ONLY <1>2, <1>3, Zenon
<1>5. Work = w
    BY ONLY TextInv, <1>1, <1>2, Zenon DEF Work, TextInv
<1> QED
    BY ONLY <1>1, <1>3, <1>4, <1>5, TextInv, Zenon DEF Neat, Untorn, TextInv

\* What is written keeps the invariant, if it leaves [code] alone in its place.
LEMMA WritesKeep ==
    ASSUME TextInv, NEW w, Neat(w), Writes(w),
           depth' \in Nat, code' \in BOOLEAN, newline' \in BOOLEAN, done' \in BOOLEAN,
           code' => ~newline', done' => w.stack = <<>>,
           NoCode(w) \/ (code' /\ w.stack = <<"code">>)
    PROVE  TextInv'
<1>1. stack' = w.stack /\ html' = w.stack /\ torn' = FALSE /\ stack' \in Seq(Element)
    BY DEF Writes, Neat, Untorn
<1> QED
    BY <1>1 DEF TextInv, NoCode, Element

\* Every turn of the loop, and the end of the text, keeps the invariant.
LEMMA TextInvStep ==
    ASSUME TextInv, [TextNext]_textVars
    PROVE  TextInv'
<1>1. CASE UNCHANGED textVars
    BY <1>1 DEF textVars, TextInv, Element
<1>2. ASSUME NEW d \in 0..MaxOpen, StartLine(d) PROVE TextInv'
    <2>1. ~code /\ depth \in Nat /\ d \in Nat /\ ~done /\ depth' = d /\ newline' = FALSE /\ UNCHANGED <<code, done>>
        BY <1>2, BbcodeAssumption DEF StartLine, TextInv
    <2>2. PICK w : w = Work
        OBVIOUS
    <2>3. Neat(w) /\ w.stack = stack
        BY ONLY <2>2, TextInv, WorkNeat, Zenon
    <2>4. NoCode(w)
        BY <2>1, <2>3 DEF TextInv, NoCode
    <2>5. PICK v : v = IF d < depth THEN FoldLeft(CloseTag, w, [j \in 1..depth - d |-> ">"])
                                    ELSE FoldLeft(OpenTag, w, [j \in 1..d - depth |-> ">"])
        OBVIOUS
    <2>6. Neat(v) /\ NoCode(v)
        <3>1. CASE d < depth
            <4>1. depth - d \in Nat
                BY <2>1, <3>1
            <4> QED
                BY ONLY <2>3, <2>4, <2>5, <3>1, <4>1, QuotesClosed, Zenon
        <3>2. CASE ~(d < depth)
            <4>1. d - depth \in Nat
                BY <2>1, <3>2
            <4> QED
                BY ONLY <2>3, <2>4, <2>5, <3>2, <4>1, QuotesOpened, Zenon
        <3> QED
            BY <3>1, <3>2
    <2>7. Writes(v)
        BY ONLY <1>2, <2>2, <2>5, Zenon DEF StartLine
    <2>8. depth' \in Nat /\ code' \in BOOLEAN /\ newline' \in BOOLEAN /\ done' \in BOOLEAN /\ ~code' /\ ~done'
        BY <2>1 DEF TextInv
    <2> QED
        BY ONLY TextInv, <2>6, <2>7, <2>8, WritesKeep, Zenon
<1>3. CASE EndLine
    BY <1>3 DEF EndLine, TextInv, Element
<1>4. ASSUME NEW t \in Tag \cup {"code"}, NEW open \in BOOLEAN, Bracket(t, open) PROVE TextInv'
    <2>1. /\ ~done /\ ~newline /\ (code => t = "code" /\ ~open) /\ t \in Element
          /\ newline' = (t = "code" /\ ~open /\ code)
          /\ code' = (IF t = "code" THEN open ELSE code)
          /\ UNCHANGED <<depth, done>>
        BY <1>4 DEF Bracket, Element
    <2>2. PICK w : w = Work
        OBVIOUS
    <2>3. Neat(w) /\ w.stack = stack
        BY ONLY <2>2, TextInv, WorkNeat, Zenon
    <2>4. /\ depth' \in Nat /\ code' \in BOOLEAN /\ newline' \in BOOLEAN /\ done' \in BOOLEAN /\ ~done'
          /\ (code' => ~newline')
        <3>1. depth' \in Nat /\ done' \in BOOLEAN /\ ~done'
            BY <2>1 DEF TextInv
        <3>2. code' \in BOOLEAN /\ newline' \in BOOLEAN /\ (code' => ~newline')
            BY ONLY <2>1, TextInv, Zenon DEF TextInv
        <3> QED
            BY <3>1, <3>2
    <2>5. CASE ~open
        <3>1. PICK v : v = CloseTag(w, t)
            OBVIOUS
        <3>2. /\ Untorn(v) /\ v.html = v.stack
              /\ \A i \in DOMAIN v.stack : \E j \in DOMAIN w.stack : v.stack[i] = w.stack[j]
              /\ w.stack = <<t>> => v.stack = <<>>
            BY ONLY <2>1, <2>3, <3>1, CloseTagKeeps, Zenon DEF Neat
        <3>3. Writes(v)
            BY ONLY <1>4, <2>2, <2>5, <3>1, Zenon DEF Bracket
        <3>4. NoCode(v)
            <4>1. CASE \E i \in DOMAIN stack : stack[i] = "code"
                <5>1. code /\ stack = <<"code">>
                    BY ONLY <4>1, TextInv, Zenon DEF TextInv
                <5>2. t = "code"
                    BY ONLY <2>1, <5>1, Zenon
                <5>3. v.stack = <<>>
                    BY ONLY <2>3, <3>2, <5>1, <5>2, Zenon
                <5> QED
                    BY <5>3 DEF NoCode
            <4>2. CASE ~(\E i \in DOMAIN stack : stack[i] = "code")
                BY ONLY <2>3, <3>2, <4>2, Zenon DEF NoCode
            <4> QED
                BY <4>1, <4>2
        <3> QED
            BY ONLY TextInv, <2>4, <3>2, <3>3, <3>4, WritesKeep, Zenon DEF Neat
    <2>6. CASE open
        <3>1. ~code
            BY ONLY <2>1, <2>6, Zenon
        <3>2. NoCode(w)
            BY ONLY <2>3, <3>1, TextInv, Zenon DEF TextInv, NoCode
        <3>3. PICK u : u = IF t = "code" /\ open THEN CloseAll(w) ELSE w
            OBVIOUS
        <3>4. Neat(u) /\ NoCode(u) /\ (t = "code" => u.stack = <<>>)
            <4>1. CASE t = "code"
                <5>1. Neat(u) /\ u.stack = <<>>
                    BY ONLY <2>3, <2>6, <3>3, <4>1, CloseAllKeeps, Zenon
                <5> QED
                    BY <5>1 DEF NoCode
            <4>2. CASE t # "code"
                BY ONLY <2>3, <3>2, <3>3, <4>2, Zenon
            <4> QED
                BY <4>1, <4>2
        <3>5. PICK v : v = OpenTag(u, t)
            OBVIOUS
        <3>6. Neat(v) /\ v.stack = Append(u.stack, t) /\ (t # "code" => NoCode(v))
            BY ONLY <2>1, <3>4, <3>5, OpenTagKeeps, Zenon
        <3>7. t = "code" => v.stack = <<"code">>
            <4>1. Append(<<>>, "code") = <<"code">>
                OBVIOUS
            <4> QED
                BY ONLY <3>4, <3>6, <4>1, Zenon
        <3>8. Writes(v)
            BY ONLY <1>4, <2>2, <2>6, <3>3, <3>5, Zenon DEF Bracket
        <3>9. NoCode(v) \/ (code' /\ v.stack = <<"code">>)
            BY ONLY <2>1, <2>6, <3>6, <3>7, Zenon
        <3> QED
            BY ONLY TextInv, <2>4, <3>6, <3>8, <3>9, WritesKeep, Zenon
    <2> QED
        BY <2>5, <2>6
<1>5. CASE End
    <2>1. PICK w, v : w = Work /\ v = CloseAll(w)
        OBVIOUS
    <2>2. Neat(w)
        BY ONLY <2>1, TextInv, WorkNeat, Zenon
    <2>3. Neat(v) /\ v.stack = <<>>
        BY ONLY <2>1, <2>2, CloseAllKeeps, Zenon
    <2>4. NoCode(v)
        BY <2>3 DEF NoCode
    <2>5. Writes(v) /\ done' = TRUE /\ UNCHANGED <<code, depth, newline>>
        BY ONLY <1>5, <2>1, Zenon DEF End
    <2>6. /\ depth' \in Nat /\ code' \in BOOLEAN /\ newline' \in BOOLEAN /\ done' \in BOOLEAN
          /\ (code' => ~newline')
        BY <2>5 DEF TextInv
    <2> QED
        BY ONLY TextInv, <2>3, <2>4, <2>5, <2>6, WritesKeep, Zenon
<1> QED
    BY <1>1, <1>2, <1>3, <1>4, <1>5 DEF TextNext

\* bbcode.c, "Close overlapping tags": for any tags, in any order and nested to any depth,
\* elements are closed from the innermost outwards, all of them in the end.
THEOREM TextsAreNested == TextSpec => []WellNested
<1>1. TextInit => TextInv
    <2>1. SUFFICES ASSUME TextInit PROVE TextInv
        OBVIOUS
    <2>2. stack = <<>> /\ html = <<>> /\ depth \in Nat
        BY <2>1 DEF TextInit
    <2>3. stack \in Seq(Element) /\ ~(\E i \in DOMAIN stack : stack[i] = "code")
        BY <2>2
    <2> QED
        BY ONLY <2>1, <2>2, <2>3, Zenon DEF TextInit, TextInv
<1>2. TextInv /\ [TextNext]_textVars => TextInv'
    BY TextInvStep
<1>3. TextInv => WellNested
    <2>1. SUFFICES ASSUME TextInv PROVE WellNested
        OBVIOUS
    <2>2. ~torn /\ html = stack /\ (done => html = <<>>)
        BY <2>1 DEF TextInv
    <2>3. "code" \in ToSet(html) => code /\ html = <<"code">>
        BY <2>1 DEF TextInv, ToSet
    <2> QED
        BY <2>2, <2>3 DEF WellNested
<1> QED
    BY <1>1, <1>2, <1>3, PTL DEF TextSpec

-----------------------------------------------------------------------------
(* Output. *)

\* What a chunk holds, and what a batch refers to.
Cell     == {<<>>} \cup (Conn \X Nat)
Bytes    == [1..ChunkSize -> Cell]
Place    == Nat \X Nat

\* The chunks ch of a context, the free ones f and those of others, in the memory m.
\* The frame z says what a write does not change: the connection c, its context x but
\* for the buffer and batch, the number r of bytes sent, the chunks of others and what
\* the memory was.
ChunksOk(z, f, m, ch) ==
    /\ m \in Seq(Bytes) /\ f \in Seq(1..Len(m)) /\ ch \in Seq(1..Len(m))
    /\ \A i, j \in 1..Len(f) : f[i] = f[j] => i = j
    /\ \A i, j \in 1..Len(ch) : ch[i] = ch[j] => i = j
    /\ \A i \in 1..Len(f), j \in 1..Len(ch) : f[i] # ch[j]
    /\ \A y \in z.others : /\ y \in 1..Len(m) /\ m[y] = z.memory[y]
                           /\ \A i \in 1..Len(f) : f[i] # y
                           /\ \A i \in 1..Len(ch) : ch[i] # y

\* The buffer is what is left of the newest chunk.
BufferOk(ch, o, size) ==
    /\ o \in Nat /\ o <= size
    /\ size # 0 => size = ChunkSize /\ Len(ch) # 0

\* The batch b refers to chunks of the context, but not to the buffer.
BatchOk(ch, size, b) ==
    /\ b \in Seq(Place)
    /\ \A i \in 1..Len(b) :
          b[i][1] # 0 => /\ \E j \in 1..Len(ch) : b[i][1] = ch[j] /\ (size # 0 => j # Len(ch))
                         /\ b[i][2] \in 1..ChunkSize

\* What was sent, is in the batch and is in the buffer are the bytes printed.
BytesOk(z, m, ch, o, b, n) ==
    /\ n = z.r + Len(b) + o
    /\ \A i \in 1..Len(b) : Byte(m, z.c, b[i]) = <<z.c, z.r + i>>
    /\ \A i \in 1..o : m[ch[Len(ch)]][i] = <<z.c, z.r + Len(b) + i>>

Right(z, f, m, ch, o, size, b, n) ==
    /\ ChunksOk(z, f, m, ch) /\ BufferOk(ch, o, size) /\ BatchOk(ch, size, b)
    /\ BytesOk(z, m, ch, o, b, n)

-----------------------------------------------------------------------------
LEMMA Sizes == ChunkSize \in Nat \ {0} /\ Esc \in Nat \ {0} /\ Grab \in Nat \ {0}
BY OutputAssumption

\* The sequence u is s with t behind it, which has n members.
Joined(u, s, n, t, S) ==
    /\ u \in Seq(S) /\ Len(s) \in Nat /\ Len(u) = Len(s) + n
    /\ \A i \in 1..Len(s) : i \in 1..Len(u) /\ u[i] = s[i] /\ s[i] \in S
    /\ \A i \in 1..n : Len(s) + i \in 1..Len(u) /\ u[Len(s) + i] = t[i]
    /\ \A i \in 1..Len(u) : i \notin 1..Len(s) => \E j \in 1..n : i = Len(s) + j

LEMMA ConcatIs ==
    ASSUME NEW S, NEW s \in Seq(S), NEW n \in Nat, NEW t \in [1..n -> S], NEW u, u = s \o t
    PROVE  Joined(u, s, n, t, S)
<1>1. t \in Seq(S) /\ Len(t) = n
    OBVIOUS
<1>2. /\ u \in Seq(S) /\ Len(u) = Len(s) + Len(t)
      /\ \A i \in 1..Len(s) + Len(t) : u[i] = IF i <= Len(s) THEN s[i] ELSE t[i - Len(s)]
    BY ONLY <1>1, s \in Seq(S), u = s \o t, ConcatProperties
<1>3. Len(s) \in Nat /\ \A i \in 1..Len(s) : s[i] \in S
    OBVIOUS
<1>4. ASSUME NEW i \in 1..Len(u), i \notin 1..Len(s) PROVE \E j \in 1..n : i = Len(s) + j
  <2>1. i - Len(s) \in 1..n /\ i = Len(s) + (i - Len(s))
      BY ONLY <1>1, <1>2, <1>3, <1>4, n \in Nat
  <2> QED
      BY ONLY <2>1
<1>5. ASSUME NEW i \in 1..n PROVE Len(s) + i \in 1..Len(u) /\ u[Len(s) + i] = t[i]
  <2>1. /\ Len(s) + i \in 1..Len(s) + Len(t) /\ ~(Len(s) + i <= Len(s))
        /\ Len(s) + i - Len(s) = i
      BY ONLY <1>1, <1>3, n \in Nat, i \in 1..n
  <2> QED
      BY ONLY <1>2, <2>1
<1>6. \A i \in 1..Len(s) : i \in 1..Len(u) /\ u[i] = s[i]
    BY ONLY <1>1, <1>2, <1>3, n \in Nat
<1> QED
    BY ONLY <1>1, <1>2, <1>3, <1>4, <1>5, <1>6 DEF Joined

\* What is put behind the free chunks, the memory and a batch.
NewChunks(m)     == [i \in 1..Grab |-> Len(m) + i]
NewMemory        == [i \in 1..Grab |-> Unwritten]
PlacesIn(l, o)   == [i \in 1..o |-> <<l, i>>]

\* allocate_more_chunks
LEMMA RightAllocated ==
    ASSUME NEW z, NEW f, NEW m, NEW ch, NEW o, NEW size, NEW b, NEW n,
           Right(z, f, m, ch, o, size, b, n),
           NEW f2, f2 = f \o NewChunks(m), NEW m2, m2 = m \o NewMemory
    PROVE  Right(z, f2, m2, ch, o, size, b, n) /\ f2 # <<>>
<1>1. /\ m \in Seq(Bytes) /\ f \in Seq(1..Len(m)) /\ ch \in Seq(1..Len(m))
      /\ Len(m) \in Nat /\ Len(f) \in Nat /\ Len(ch) \in Nat
    BY LenProperties DEF Right, ChunksOk
<1>2. PICK g : g = Grab /\ g \in Nat /\ g # 0
    BY Sizes
<1>3. /\ m2 \in Seq(Bytes) /\ Len(m2) = Len(m) + g
      /\ \A i \in 1..Len(m) : i \in 1..Len(m2) /\ m2[i] = m[i]
  <2>1. Unwritten \in Bytes
      BY DEF Bytes, Unwritten, Cell
  <2>2. PICK t : t = [i \in 1..g |-> Unwritten]
      OBVIOUS
  <2>3. t \in [1..g -> Bytes]
      BY ONLY <2>1, <2>2
  <2>4. m2 = m \o t
      BY ONLY <1>2, <2>2, m2 = m \o NewMemory, Zenon DEF NewMemory
  <2>5. PICK S : S = Bytes
      OBVIOUS
  <2>6. m \in Seq(S) /\ t \in [1..g -> S] /\ g \in Nat
      BY ONLY <1>1, <1>2, <2>3, <2>5
  <2>7. Joined(m2, m, g, t, S)
      BY ONLY <2>4, <2>6, ConcatIs
  <2> QED
      BY ONLY <2>5, <2>7 DEF Joined
<1>4. 1..Len(m) \subseteq 1..Len(m2)
    BY ONLY <1>3
<1>5. ch \in Seq(1..Len(m2)) /\ f \in Seq(1..Len(m2))
    BY ONLY <1>1, <1>4, SeqMonotonic
<1>6. PICK t : t = [i \in 1..g |-> Len(m) + i]
    OBVIOUS
<1>7. t \in [1..g -> 1..Len(m2)]
    BY ONLY <1>1, <1>2, <1>3, <1>6
<1>8. /\ f2 \in Seq(1..Len(m2)) /\ Len(f2) = Len(f) + g
      /\ \A i \in 1..Len(f) : f2[i] = f[i]
      /\ \A i \in 1..g : f2[Len(f) + i] = t[i]
      /\ \A i \in 1..Len(f2) : i \notin 1..Len(f) => \E j \in 1..g : i = Len(f) + j
  <2>1. f2 = f \o t
      BY ONLY <1>2, <1>6, f2 = f \o NewChunks(m), Zenon DEF NewChunks
  <2>2. PICK S : S = 1..Len(m2)
      OBVIOUS
  <2>3. f \in Seq(S) /\ t \in [1..g -> S] /\ g \in Nat
      BY ONLY <1>2, <1>5, <1>7, <2>2
  <2>4. Joined(f2, f, g, t, S)
      BY ONLY <2>1, <2>3, ConcatIs
  <2> QED
      BY ONLY <2>2, <2>4 DEF Joined
<1>9. \A i \in 1..Len(f2) : \/ i \in 1..Len(f) /\ f2[i] = f[i]
                            \/ \E j \in 1..g : i = Len(f) + j /\ f2[i] = Len(m) + j
    BY ONLY <1>6, <1>8
<1>10. /\ \A i \in 1..Len(f) : f[i] \in 1..Len(m)
       /\ \A i \in 1..Len(ch) : ch[i] \in 1..Len(m)
    BY ONLY <1>1
<1>11. \A x \in 1..Len(m), j \in 1..g : x # Len(m) + j
    BY ONLY <1>1
<1>12. ChunksOk(z, f2, m2, ch)
  <2>1. ASSUME NEW i \in 1..Len(f2), NEW j \in 1..Len(f2), f2[i] = f2[j] PROVE i = j
    <3>1. CASE i \in 1..Len(f) /\ f2[i] = f[i] /\ j \in 1..Len(f) /\ f2[j] = f[j]
      <4>1. \A a, d \in 1..Len(f) : f[a] = f[d] => a = d
          BY DEF Right, ChunksOk
      <4> QED
          BY ONLY <2>1, <3>1, <4>1
    <3>2. CASE (i \in 1..Len(f) /\ f2[i] = f[i]) /\ \E k \in 1..g : f2[j] = Len(m) + k
        BY ONLY <1>10, <1>11, <2>1, <3>2
    <3>3. CASE (j \in 1..Len(f) /\ f2[j] = f[j]) /\ \E k \in 1..g : f2[i] = Len(m) + k
        BY ONLY <1>10, <1>11, <2>1, <3>3
    <3>4. CASE /\ \E k \in 1..g : i = Len(f) + k /\ f2[i] = Len(m) + k
               /\ \E k \in 1..g : j = Len(f) + k /\ f2[j] = Len(m) + k
        BY ONLY <1>1, <2>1, <3>4
    <3> QED
        BY ONLY <1>9, <3>1, <3>2, <3>3, <3>4
  <2>2. ASSUME NEW i \in 1..Len(f2), NEW j \in 1..Len(ch) PROVE f2[i] # ch[j]
    <3>1. CASE i \in 1..Len(f) /\ f2[i] = f[i]
      <4>1. \A x \in 1..Len(f), y \in 1..Len(ch) : f[x] # ch[y]
          BY Zenon DEF Right, ChunksOk
      <4> QED
          BY ONLY <3>1, <4>1, j \in 1..Len(ch)
    <3>2. CASE \E k \in 1..g : f2[i] = Len(m) + k
      <4>1. PICK k \in 1..g : f2[i] = Len(m) + k
          BY ONLY <3>2
      <4>2. PICK p, e : p = ch[j] /\ e = Len(m)
          OBVIOUS
      <4>3. p \in 1..e /\ e \in Nat
          BY ONLY <1>1, <1>10, <4>2, j \in 1..Len(ch)
      <4>4. p # e + k
          BY ONLY <4>3, k \in 1..g
      <4> QED
          BY ONLY <4>1, <4>2, <4>4
    <3> QED
        BY ONLY <1>9, <3>1, <3>2
  <2>3. \A y \in z.others : y \in 1..Len(m2) /\ m2[y] = z.memory[y]
      BY <1>3 DEF Right, ChunksOk
  <2>4. ASSUME NEW y \in z.others, NEW i \in 1..Len(f2) PROVE f2[i] # y
    <3>1. y \in 1..Len(m)
        BY DEF Right, ChunksOk
    <3>2. CASE i \in 1..Len(f) /\ f2[i] = f[i]
        BY <3>2 DEF Right, ChunksOk
    <3>3. CASE \E k \in 1..g : f2[i] = Len(m) + k
        BY ONLY <1>11, <3>1, <3>3
    <3> QED
        BY ONLY <1>9, <3>2, <3>3
  <2>5. \A y \in z.others : \A i \in 1..Len(ch) : ch[i] # y
      BY DEF Right, ChunksOk
  <2>6. /\ \A i, j \in 1..Len(ch) : ch[i] = ch[j] => i = j
      BY DEF Right, ChunksOk
  <2> QED
      BY ONLY <1>3, <1>5, <1>8, <2>1, <2>2, <2>3, <2>4, <2>5, <2>6 DEF ChunksOk
<1>13. BytesOk(z, m2, ch, o, b, n)
  <2>1. \A i \in 1..Len(b) : Byte(m2, z.c, b[i]) = Byte(m, z.c, b[i])
      BY <1>3, <1>10 DEF Right, BatchOk, Byte
  <2>2. ASSUME NEW i \in 1..o PROVE m2[ch[Len(ch)]] = m[ch[Len(ch)]]
    <3>1. Len(ch) # 0
        BY DEF Right, BufferOk
    <3>2. Len(ch) \in 1..Len(ch)
        BY ONLY <1>1, <3>1
    <3> QED
        BY ONLY <1>3, <1>10, <3>2
  <2> QED
      BY <2>1, <2>2 DEF Right, BytesOk
<1>14. f2 # <<>>
    BY ONLY <1>1, <1>2, <1>8, EmptySeq
<1> QED
    BY <1>12, <1>13, <1>14 DEF Right

\* get_chunk, when there is one.
LEMMA RightTaken ==
    ASSUME NEW z, NEW f, NEW m, NEW ch, NEW b, NEW n,
           Right(z, f, m, ch, 0, 0, b, n), f # <<>>,
           NEW ch2, ch2 = Append(ch, Head(f))
    PROVE  Right(z, Tail(f), m, ch2, 0, ChunkSize, b, n)
<1>1. PICK S : S = 1..Len(m)
    OBVIOUS
<1>2. /\ m \in Seq(Bytes) /\ f \in Seq(S) /\ ch \in Seq(S)
      /\ Len(m) \in Nat /\ Len(f) \in Nat /\ Len(ch) \in Nat
    BY <1>1, LenProperties DEF Right, ChunksOk
<1>3. PICK g, x : g = Tail(f) /\ x = f[1]
    OBVIOUS
<1>4. /\ g \in Seq(S) /\ Len(f) = Len(g) + 1 /\ Len(g) \in Nat /\ x \in S
      /\ \A i \in 1..Len(g) : i + 1 \in 1..Len(f) /\ i + 1 # 1 /\ g[i] = f[i + 1]
      /\ 1 \in 1..Len(f)
    BY ONLY <1>2, <1>3, f # <<>>
<1>5. ch2 = Append(ch, x)
    BY ONLY <1>2, <1>3, f # <<>>, ch2 = Append(ch, Head(f))
<1>6. /\ ch2 \in Seq(S) /\ Len(ch2) = Len(ch) + 1 /\ ch2[Len(ch2)] = x
      /\ \A i \in 1..Len(ch) : i \in 1..Len(ch2) /\ i # Len(ch2) /\ ch2[i] = ch[i]
      /\ \A i \in 1..Len(ch2) : i \in 1..Len(ch) \/ i = Len(ch2)
    BY ONLY <1>2, <1>4, <1>5
<1>7. /\ \A i, j \in 1..Len(f) : f[i] = f[j] => i = j
      /\ \A i, j \in 1..Len(ch) : ch[i] = ch[j] => i = j
      /\ \A i \in 1..Len(f), j \in 1..Len(ch) : f[i] # ch[j]
      /\ \A y \in z.others : /\ y \in 1..Len(m) /\ m[y] = z.memory[y]
                             /\ \A i \in 1..Len(f) : f[i] # y
                             /\ \A i \in 1..Len(ch) : ch[i] # y
    BY DEF Right, ChunksOk
<1>8. ChunksOk(z, g, m, ch2)
  <2>1. \A i, j \in 1..Len(g) : g[i] = g[j] => i = j
    <3>1. ASSUME NEW i \in 1..Len(g), NEW j \in 1..Len(g), g[i] = g[j] PROVE i = j
      <4>1. i + 1 = j + 1
          BY ONLY <1>4, <1>7, <3>1
      <4> QED
          BY ONLY <1>4, <4>1
    <3> QED
        BY ONLY <3>1
  <2>2. \A i, j \in 1..Len(ch2) : ch2[i] = ch2[j] => i = j
      BY ONLY <1>3, <1>4, <1>6, <1>7
  <2>3. \A i \in 1..Len(g), j \in 1..Len(ch2) : g[i] # ch2[j]
      BY ONLY <1>3, <1>4, <1>6, <1>7
  <2>4. \A y \in z.others : \A i \in 1..Len(g) : g[i] # y
      BY ONLY <1>4, <1>7
  <2>5. \A y \in z.others : \A i \in 1..Len(ch2) : ch2[i] # y
      BY ONLY <1>3, <1>4, <1>6, <1>7
  <2> QED
      BY ONLY <1>1, <1>2, <1>4, <1>6, <1>7, <2>1, <2>2, <2>3, <2>4, <2>5 DEF ChunksOk
<1>9. BufferOk(ch2, 0, ChunkSize)
    BY ONLY <1>2, <1>6, Sizes DEF BufferOk
<1>10. BatchOk(ch2, ChunkSize, b)
  <2>1. BatchOk(ch, 0, b)
      BY DEF Right
  <2>2. ASSUME NEW i \in 1..Len(b), b[i][1] # 0
        PROVE  /\ \E j \in 1..Len(ch2) : b[i][1] = ch2[j] /\ j # Len(ch2)
               /\ b[i][2] \in 1..ChunkSize
      BY ONLY <1>6, <2>1, <2>2 DEF BatchOk
  <2> QED
      BY ONLY <2>1, <2>2 DEF BatchOk
<1>11. BytesOk(z, m, ch2, 0, b, n)
    BY DEF Right, BytesOk
<1> QED
    BY ONLY <1>3, <1>8, <1>9, <1>10, <1>11 DEF Right

\* memcpy, and what context_consume_buffer counts.
LEMMA RightFilled ==
    ASSUME NEW z, z.c \in Conn, z.r \in Nat,
           NEW f, NEW m, NEW ch, NEW o, NEW size, NEW b, NEW n,
           Right(z, f, m, ch, o, size, b, n), size # 0, NEW k \in Nat, o + k <= size,
           NEW chunk, chunk = [p \in 1..ChunkSize |-> IF p \in o + 1..o + k THEN <<z.c, n + p - o>>
                                                      ELSE m[ch[Len(ch)]][p]],
           NEW m2, m2 = [m EXCEPT ![ch[Len(ch)]] = chunk]
    PROVE  Right(z, f, m2, ch, o + k, size, b, n + k)
<1>1. /\ m \in Seq(Bytes) /\ f \in Seq(1..Len(m)) /\ ch \in Seq(1..Len(m)) /\ b \in Seq(Place)
      /\ Len(m) \in Nat /\ Len(f) \in Nat /\ Len(ch) \in Nat /\ Len(b) \in Nat
      /\ o \in Nat /\ size = ChunkSize /\ Len(ch) # 0 /\ n = z.r + Len(b) + o /\ n \in Nat
  <2>1. m \in Seq(Bytes) /\ f \in Seq(1..Len(m)) /\ ch \in Seq(1..Len(m)) /\ b \in Seq(Place)
      BY DEF Right, ChunksOk, BatchOk
  <2>2. Len(m) \in Nat /\ Len(f) \in Nat /\ Len(ch) \in Nat /\ Len(b) \in Nat
      BY ONLY <2>1, LenProperties
  <2>3. o \in Nat /\ size = ChunkSize /\ Len(ch) # 0 /\ n = z.r + Len(b) + o
      BY DEF Right, BufferOk, BytesOk
  <2> QED
      BY ONLY <2>1, <2>2, <2>3, z.r \in Nat
<1>2. PICK l : l = ch[Len(ch)]
    OBVIOUS
<1>3. l \in 1..Len(m) /\ Len(ch) \in 1..Len(ch)
    BY ONLY <1>1, <1>2
<1>4. /\ \A i, j \in 1..Len(f) : f[i] = f[j] => i = j
      /\ \A i, j \in 1..Len(ch) : ch[i] = ch[j] => i = j
      /\ \A i \in 1..Len(f), j \in 1..Len(ch) : f[i] # ch[j]
      /\ \A y \in z.others : /\ y \in 1..Len(m) /\ m[y] = z.memory[y]
                             /\ \A i \in 1..Len(f) : f[i] # y
                             /\ \A i \in 1..Len(ch) : ch[i] # y
    BY DEF Right, ChunksOk
<1>5. m[l] \in Bytes
    BY ONLY <1>1, <1>3, ElementOfSeq
<1>6. chunk \in Bytes
  <2>1. \A p \in 1..ChunkSize : m[l][p] \in Cell
      BY ONLY <1>5 DEF Bytes
  <2>2. \A p \in 1..ChunkSize : p \in o + 1..o + k => n + p - o \in Nat
      BY ONLY <1>1, k \in Nat, Sizes
  <2>3. \A p \in 1..ChunkSize : p \in o + 1..o + k => <<z.c, n + p - o>> \in Cell
      BY ONLY <2>2, z.c \in Conn DEF Cell
  <2> QED
      BY ONLY <1>2, <2>1, <2>3, chunk = [p \in 1..ChunkSize |->
                 IF p \in o + 1..o + k THEN <<z.c, n + p - o>> ELSE m[ch[Len(ch)]][p]] DEF Bytes
<1>7. /\ m2 \in Seq(Bytes) /\ Len(m2) = Len(m)
      /\ \A y \in 1..Len(m) : m2[y] = IF y = l THEN chunk ELSE m[y]
  <2>1. PICK S : S = Bytes
      OBVIOUS
  <2>2. m \in Seq(S) /\ l \in 1..Len(m) /\ chunk \in S /\ m2 = [m EXCEPT ![l] = chunk]
      BY ONLY <1>1, <1>2, <1>3, <1>6, <2>1, m2 = [m EXCEPT ![ch[Len(ch)]] = chunk]
  <2>3. /\ m2 \in Seq(S) /\ Len(m2) = Len(m)
        /\ \A y \in 1..Len(m) : m2[y] = IF y = l THEN chunk ELSE m[y]
      BY ONLY <2>2, ExceptSeq
  <2> QED
      BY ONLY <2>1, <2>3
<1>8. ChunksOk(z, f, m2, ch)
    BY ONLY <1>1, <1>2, <1>3, <1>4, <1>7 DEF ChunksOk
<1>9. BufferOk(ch, o + k, size)
    BY ONLY <1>1, k \in Nat, o + k <= size, Sizes DEF BufferOk
<1>10. BatchOk(ch, size, b)
    BY DEF Right
<1>11. BytesOk(z, m2, ch, o + k, b, n + k)
  <2>1. BytesOk(z, m, ch, o, b, n)
      BY DEF Right
  <2>2. ASSUME NEW i \in 1..Len(b) PROVE Byte(m2, z.c, b[i]) = Byte(m, z.c, b[i])
    <3>1. CASE b[i][1] = 0
        BY ONLY <3>1 DEF Byte
    <3>2. CASE b[i][1] # 0
      <4>1. PICK j \in 1..Len(ch) : b[i][1] = ch[j] /\ j # Len(ch)
          BY ONLY <1>10, <3>2, size # 0, i \in 1..Len(b) DEF BatchOk
      <4>2. ch[j] \in 1..Len(m)
          BY ONLY <1>1
      <4>3. ch[j] # l
          BY ONLY <1>2, <1>3, <1>4, <4>1, Zenon
      <4>4. m2[b[i][1]] = m[b[i][1]]
          BY ONLY <1>7, <4>1, <4>2, <4>3
      <4> QED
          BY ONLY <4>4 DEF Byte
    <3> QED
        BY ONLY <3>1, <3>2
  <2>3. m2[l] = chunk
      BY ONLY <1>3, <1>7
  <2>4. ASSUME NEW i \in 1..o + k PROVE chunk[i] = <<z.c, z.r + Len(b) + i>>
    <3>1. i \in 1..ChunkSize /\ (i \in 1..o \/ i \in o + 1..o + k) /\ ~(i \in 1..o /\ i \in o + 1..o + k)
        BY ONLY <1>1, k \in Nat, i \in 1..o + k, o + k <= size, Sizes
    <3>2. chunk[i] = IF i \in o + 1..o + k THEN <<z.c, n + i - o>> ELSE m[l][i]
        BY ONLY <1>2, <3>1, chunk = [p \in 1..ChunkSize |->
                 IF p \in o + 1..o + k THEN <<z.c, n + p - o>> ELSE m[ch[Len(ch)]][p]]
    <3>3. n + i - o = z.r + Len(b) + i
        BY ONLY <1>1, k \in Nat, i \in 1..o + k, z.r \in Nat, SMTT(40)
    <3>4. i \in 1..o => m[l][i] = <<z.c, z.r + Len(b) + i>>
        BY ONLY <1>2, <2>1 DEF BytesOk
    <3> QED
        BY ONLY <3>1, <3>2, <3>3, <3>4
  <2>5. n + k = z.r + Len(b) + (o + k)
      BY ONLY <1>1, k \in Nat, z.r \in Nat, SMTT(40)
  <2> QED
      BY ONLY <1>2, <2>1, <2>2, <2>3, <2>4, <2>5 DEF BytesOk
<1> QED
    BY ONLY <1>8, <1>9, <1>10, <1>11 DEF Right

\* iob_addbuf: the buffer becomes a part of the batch.
LEMMA RightBatched ==
    ASSUME NEW z, z.r \in Nat, NEW f, NEW m, NEW ch, NEW o, NEW size, NEW b, NEW n,
           Right(z, f, m, ch, o, size, b, n), Len(ch) # 0,
           NEW b2, b2 = b \o PlacesIn(ch[Len(ch)], o)
    PROVE  Right(z, f, m, ch, 0, 0, b2, n)
<1>1. /\ ch \in Seq(1..Len(m)) /\ b \in Seq(Place)
      /\ Len(m) \in Nat /\ Len(ch) \in Nat /\ Len(b) \in Nat /\ o \in Nat /\ n = z.r + Len(b) + o
      /\ o <= ChunkSize
  <2>1. m \in Seq(Bytes) /\ ch \in Seq(1..Len(m)) /\ b \in Seq(Place)
      BY DEF Right, ChunksOk, BatchOk
  <2>2. Len(m) \in Nat /\ Len(ch) \in Nat /\ Len(b) \in Nat
      BY ONLY <2>1, LenProperties
  <2>3. o \in Nat /\ n = z.r + Len(b) + o
      BY DEF Right, BufferOk, BytesOk
  <2>4. o <= ChunkSize
      BY Sizes DEF Right, BufferOk
  <2> QED
      BY ONLY <2>1, <2>2, <2>3, <2>4
<1>2. PICK l, t : l = ch[Len(ch)] /\ t = [i \in 1..o |-> <<l, i>>]
    OBVIOUS
<1>3. l \in 1..Len(m) /\ l \in Nat /\ l # 0 /\ Len(ch) \in 1..Len(ch)
    BY ONLY <1>1, <1>2, Len(ch) # 0
<1>4. Joined(b2, b, o, t, Place)
  <2>1. PICK S : S = Place
      OBVIOUS
  <2>2. t \in [1..o -> S]
      BY ONLY <1>1, <1>2, <1>3, <2>1 DEF Place
  <2>3. b \in Seq(S) /\ b2 = b \o t
      BY ONLY <1>1, <1>2, <2>1, b2 = b \o PlacesIn(ch[Len(ch)], o), Zenon DEF PlacesIn
  <2>4. Joined(b2, b, o, t, S)
      BY ONLY <1>1, <2>2, <2>3, ConcatIs
  <2> QED
      BY ONLY <2>1, <2>4
<1>5. \A i \in 1..Len(b2) : \/ i \in 1..Len(b) /\ b2[i] = b[i]
                            \/ \E j \in 1..o : i = Len(b) + j /\ b2[i] = <<l, j>>
    BY ONLY <1>2, <1>4 DEF Joined
<1>6. BatchOk(ch, 0, b2)
  <2>1. BatchOk(ch, size, b)
      BY DEF Right
  <2>2. ASSUME NEW i \in 1..Len(b2), b2[i][1] # 0
        PROVE  /\ \E j \in 1..Len(ch) : b2[i][1] = ch[j]
               /\ b2[i][2] \in 1..ChunkSize
    <3>1. CASE i \in 1..Len(b) /\ b2[i] = b[i]
        BY ONLY <2>1, <2>2, <3>1 DEF BatchOk
    <3>2. CASE \E j \in 1..o : b2[i] = <<l, j>>
        BY ONLY <1>1, <1>2, <1>3, <3>2, Sizes
    <3> QED
        BY ONLY <1>5, <3>1, <3>2
  <2>3. b2 \in Seq(Place)
      BY ONLY <1>4 DEF Joined
  <2> QED
      BY ONLY <2>2, <2>3 DEF BatchOk
<1>7. BytesOk(z, m, ch, 0, b2, n)
  <2>1. BytesOk(z, m, ch, o, b, n)
      BY DEF Right
  <2>2. ASSUME NEW i \in 1..Len(b2) PROVE Byte(m, z.c, b2[i]) = <<z.c, z.r + i>>
    <3>1. CASE i \in 1..Len(b) /\ b2[i] = b[i]
        BY ONLY <2>1, <3>1 DEF BytesOk
    <3>2. CASE \E j \in 1..o : i = Len(b) + j /\ b2[i] = <<l, j>>
      <4>1. PICK j \in 1..o : i = Len(b) + j /\ b2[i] = <<l, j>>
          BY ONLY <3>2
      <4>2. Byte(m, z.c, b2[i]) = m[l][j]
          BY ONLY <1>3, <4>1 DEF Byte
      <4>3. m[l][j] = <<z.c, z.r + Len(b) + j>>
          BY ONLY <1>2, <2>1, j \in 1..o DEF BytesOk
      <4>4. z.r + Len(b) + j = z.r + i
          BY ONLY <1>1, <4>1, z.r \in Nat
      <4> QED
          BY ONLY <4>2, <4>3, <4>4
    <3> QED
        BY ONLY <1>5, <3>1, <3>2
  <2>3. n = z.r + Len(b2) + 0
      BY ONLY <1>1, <1>4, z.r \in Nat DEF Joined
  <2> QED
      BY ONLY <2>2, <2>3 DEF BytesOk
<1> QED
    BY <1>4, <1>6, <1>7 DEF Right, BufferOk, Joined

-----------------------------------------------------------------------------
(* One write. *)

Fields     == {"open", "chunks", "offset", "size", "batch", "eof", "error", "wantwrite"}
WorkFields == {"free", "memory", "c", "x", "n"}

\* The context x is y but for its buffer and batch.
SameFlags(x, y) == /\ DOMAIN x = Fields
                   /\ x.open = y.open /\ x.eof = y.eof
                   /\ x.error = y.error /\ x.wantwrite = y.wantwrite

\* A write in the frame z has come to w, and between two calls there is room in a buffer.
RightWork(z, w) ==
    /\ DOMAIN w = WorkFields /\ w.c = z.c /\ SameFlags(w.x, z.x)
    /\ Right(z, w.free, w.memory, w.x.chunks, w.x.offset, w.x.size, w.x.batch, w.n)

Room(w)    == w.x.size # 0 /\ w.x.offset < w.x.size
Writing(z, w) == RightWork(z, w) /\ (w.x.size # 0 => Room(w))

IsFrame(z) == z.c \in Conn /\ z.r \in Nat

\* get_chunk
LEMMA GetChunkKeeps ==
    ASSUME NEW z, NEW w, RightWork(z, w), w.x.offset = 0, w.x.size = 0
    PROVE  LET v == GetChunk(w)
           IN /\ DOMAIN v = WorkFields /\ v.c = z.c /\ SameFlags(v.x, z.x)
              /\ Right(z, v.free, v.memory, v.x.chunks, 0, ChunkSize, v.x.batch, v.n)
              /\ v.n = w.n
<1>1. PICK v : v = IF w.free = <<>> THEN AllocateMoreChunks(w) ELSE w
    OBVIOUS
<1>2. RightWork(z, v) /\ v.x = w.x /\ v.free # <<>> /\ v.n = w.n
  <2>1. CASE w.free # <<>>
      BY ONLY <1>1, <2>1, RightWork(z, w)
  <2>2. CASE w.free = <<>>
    <3>1. PICK f2, m2 : /\ f2 = w.free \o [i \in 1..Grab |-> Len(w.memory) + i]
                        /\ m2 = w.memory \o [i \in 1..Grab |-> Unwritten]
        OBVIOUS
    <3>2. v = [w EXCEPT !.free = f2, !.memory = m2]
        BY ONLY <1>1, <2>2, <3>1, Zenon DEF AllocateMoreChunks
    <3>3. DOMAIN w = WorkFields
        BY DEF RightWork
    <3>4. /\ DOMAIN v = WorkFields /\ v.free = f2 /\ v.memory = m2 /\ v.c = w.c
          /\ v.x = w.x /\ v.n = w.n
        BY ONLY <3>2, <3>3 DEF WorkFields
    <3>5. Right(z, w.free, w.memory, w.x.chunks, w.x.offset, w.x.size, w.x.batch, w.n)
        BY DEF RightWork
    <3>6. /\ Right(z, f2, m2, w.x.chunks, w.x.offset, w.x.size, w.x.batch, w.n)
          /\ f2 # <<>>
      <4>1. PICK f, m, ch, o, s, b, n :
                /\ f = w.free /\ m = w.memory /\ ch = w.x.chunks /\ o = w.x.offset
                /\ s = w.x.size /\ b = w.x.batch /\ n = w.n
          OBVIOUS
      <4>2. Right(z, f, m, ch, o, s, b, n)
          BY ONLY <3>5, <4>1, Zenon
      <4>3. f2 = f \o NewChunks(m) /\ m2 = m \o NewMemory
          BY ONLY <3>1, <4>1, Zenon DEF NewChunks, NewMemory
      <4>4. Right(z, f2, m2, ch, o, s, b, n) /\ f2 # <<>>
          BY ONLY <4>2, <4>3, RightAllocated, Zenon
      <4> QED
          BY ONLY <4>1, <4>4, Zenon
    <3> QED
        BY <3>4, <3>6 DEF RightWork
  <2> QED
      BY ONLY <2>1, <2>2
<1>3. PICK u : u = GetChunk(w)
    OBVIOUS
<1>4. u = [v EXCEPT !.free = Tail(@), !.x.chunks = Append(@, Head(v.free))]
    BY ONLY <1>1, <1>3, Zenon DEF GetChunk
<1>5. DOMAIN v = WorkFields /\ DOMAIN v.x = Fields
    BY ONLY <1>2 DEF RightWork, SameFlags
<1>6. PICK g, y, h : /\ g = Tail(v.free) /\ h = Append(v.x.chunks, Head(v.free))
                     /\ y = [v.x EXCEPT !.chunks = h]
    OBVIOUS
<1>7. u = [v EXCEPT !.free = g, !.x = y]
    BY ONLY <1>4, <1>5, <1>6 DEF WorkFields
<1>8. DOMAIN u = WorkFields /\ u.free = g /\ u.x = y /\ u.memory = v.memory /\ u.c = v.c /\ u.n = v.n
    BY ONLY <1>5, <1>7 DEF WorkFields
<1>9. /\ DOMAIN y = Fields /\ y.chunks = h /\ y.batch = v.x.batch
      /\ y.open = v.x.open /\ y.eof = v.x.eof /\ y.error = v.x.error /\ y.wantwrite = v.x.wantwrite
    BY ONLY <1>5, <1>6 DEF Fields
<1>10. Right(z, v.free, v.memory, v.x.chunks, 0, 0, v.x.batch, v.n)
    BY ONLY <1>2, w.x.offset = 0, w.x.size = 0, Zenon DEF RightWork
<1>11. Right(z, g, v.memory, h, 0, ChunkSize, v.x.batch, v.n)
    BY ONLY <1>2, <1>6, <1>10, RightTaken, Zenon
<1>12. v.c = z.c /\ SameFlags(v.x, z.x)
    BY ONLY <1>2 DEF RightWork
<1>13. SameFlags(u.x, z.x)
    BY ONLY <1>8, <1>9, <1>12 DEF SameFlags
<1> QED
    BY ONLY <1>2, <1>3, <1>8, <1>9, <1>11, <1>12, <1>13, Zenon

\* context_get_buffer
LEMMA GetBufferKeeps ==
    ASSUME NEW z, NEW w, Writing(z, w), NEW v, v = GetBuffer(w)
    PROVE  RightWork(z, v) /\ Room(v) /\ v.n = w.n
<1>1. CASE w.x.offset # w.x.size
  <2>1. v = w
      BY ONLY <1>1, v = GetBuffer(w) DEF GetBuffer
  <2>2. w.x.size # 0
      BY <1>1 DEF Writing, RightWork, Right, BufferOk
  <2> QED
      BY <2>1, <2>2 DEF Writing
<1>2. CASE w.x.offset = w.x.size
  <2>1. w.x.offset = 0 /\ w.x.size = 0
    <3>1. w.x.size # 0 => w.x.offset < w.x.size
        BY DEF Writing, Room
    <3>2. w.x.offset \in Nat
        BY DEF Writing, RightWork, Right, BufferOk
    <3> QED
        BY ONLY <1>2, <3>1, <3>2
  <2>2. PICK g : g = GetChunk(w)
      OBVIOUS
  <2>3. /\ DOMAIN g = WorkFields /\ g.c = z.c /\ SameFlags(g.x, z.x)
        /\ Right(z, g.free, g.memory, g.x.chunks, 0, ChunkSize, g.x.batch, g.n)
        /\ g.n = w.n
    <3>1. RightWork(z, w)
        BY DEF Writing
    <3> QED
        BY ONLY <2>1, <2>2, <3>1, GetChunkKeeps, Zenon
  <2>4. v = [g EXCEPT !.x.offset = 0, !.x.size = ChunkSize]
      BY ONLY <1>2, <2>2, v = GetBuffer(w), Zenon DEF GetBuffer
  <2>5. DOMAIN g.x = Fields
      BY ONLY <2>3 DEF SameFlags
  <2>6. PICK y : y = [g.x EXCEPT !.offset = 0, !.size = ChunkSize]
      OBVIOUS
  <2>7. v = [g EXCEPT !.x = y]
      BY ONLY <2>3, <2>4, <2>5, <2>6 DEF WorkFields, Fields
  <2>8. DOMAIN v = WorkFields /\ v.free = g.free /\ v.x = y /\ v.memory = g.memory /\ v.c = g.c /\ v.n = g.n
      BY ONLY <2>3, <2>7 DEF WorkFields
  <2>9. /\ DOMAIN y = Fields /\ y.chunks = g.x.chunks /\ y.batch = g.x.batch
        /\ y.offset = 0 /\ y.size = ChunkSize
        /\ y.open = g.x.open /\ y.eof = g.x.eof /\ y.error = g.x.error /\ y.wantwrite = g.x.wantwrite
      BY ONLY <2>5, <2>6 DEF Fields
  <2>10. SameFlags(v.x, z.x)
      BY ONLY <2>3, <2>8, <2>9 DEF SameFlags
  <2>11. Room(v)
      BY ONLY <2>8, <2>9, Sizes DEF Room
  <2>12. Right(z, v.free, v.memory, v.x.chunks, v.x.offset, v.x.size, v.x.batch, v.n)
      BY ONLY <2>3, <2>8, <2>9, Zenon
  <2> QED
      BY ONLY <2>3, <2>8, <2>10, <2>11, <2>12, Zenon DEF RightWork
<1> QED
    BY ONLY <1>1, <1>2

\* context_flush_buffer
LEMMA BatchedKeeps ==
    ASSUME NEW z, IsFrame(z), NEW w, RightWork(z, w), NEW y, y = Batched(w.x)
    PROVE  /\ SameFlags(y, z.x) /\ y.chunks = w.x.chunks
           /\ y.offset = 0 /\ y.size = 0 /\ Len(y.batch) = Len(w.x.batch) + w.x.offset
           /\ Right(z, w.free, w.memory, y.chunks, 0, 0, y.batch, w.n)
<1>1. Right(z, w.free, w.memory, w.x.chunks, w.x.offset, w.x.size, w.x.batch, w.n)
    BY DEF RightWork
<1>2. SameFlags(w.x, z.x) /\ DOMAIN w.x = Fields
    BY DEF RightWork, SameFlags
<1>3. w.x.chunks \in Seq(1..Len(w.memory)) /\ w.x.batch \in Seq(Place)
    BY ONLY <1>1 DEF Right, ChunksOk, BatchOk
<1>4. CASE w.x.chunks = <<>>
  <2>1. y = w.x
      BY ONLY <1>4, y = Batched(w.x) DEF Batched
  <2>2. w.x.size = 0 /\ w.x.offset = 0
      BY ONLY <1>1, <1>4, EmptySeq DEF Right, BufferOk
  <2>3. Len(w.x.batch) \in Nat
      BY ONLY <1>3, LenProperties
  <2>4. Right(z, w.free, w.memory, y.chunks, 0, 0, y.batch, w.n)
      BY ONLY <1>1, <2>1, <2>2, Zenon
  <2> QED
      BY ONLY <1>2, <2>1, <2>2, <2>3, <2>4
<1>5. CASE w.x.chunks # <<>>
  <2>1. PICK b : b = w.x.batch \o [i \in 1..w.x.offset |-> <<Last(w.x.chunks), i>>]
      OBVIOUS
  <2>2. y = [w.x EXCEPT !.batch = b, !.offset = 0, !.size = 0]
      BY ONLY <1>5, <2>1, y = Batched(w.x), Zenon DEF Batched
  <2>3. /\ DOMAIN y = Fields /\ y.batch = b /\ y.offset = 0 /\ y.size = 0 /\ y.chunks = w.x.chunks
        /\ y.open = w.x.open /\ y.eof = w.x.eof /\ y.error = w.x.error /\ y.wantwrite = w.x.wantwrite
      BY ONLY <1>2, <2>2 DEF Fields
  <2>4. Len(w.x.chunks) # 0
      BY ONLY <1>3, <1>5, EmptySeq
  <2>5. b = w.x.batch \o [i \in 1..w.x.offset |-> <<w.x.chunks[Len(w.x.chunks)], i>>]
      BY ONLY <2>1, Zenon DEF Last
  <2>6. /\ Right(z, w.free, w.memory, w.x.chunks, 0, 0, b, w.n)
        /\ Len(b) = Len(w.x.batch) + w.x.offset
    <3>1. z.r \in Nat
        BY DEF IsFrame
    <3>2. PICK f, m, ch, o, s, d, n :
              /\ f = w.free /\ m = w.memory /\ ch = w.x.chunks /\ o = w.x.offset
              /\ s = w.x.size /\ d = w.x.batch /\ n = w.n
        OBVIOUS
    <3>3. Right(z, f, m, ch, o, s, d, n) /\ Len(ch) # 0
        BY ONLY <1>1, <2>4, <3>2, Zenon
    <3>4. b = d \o PlacesIn(ch[Len(ch)], o)
        BY ONLY <2>5, <3>2, Zenon DEF PlacesIn
    <3>5. Right(z, f, m, ch, 0, 0, b, n)
        BY ONLY <3>1, <3>3, <3>4, RightBatched, Zenon
    <3>6. Len(b) = Len(d) + o
      <4>1. b \in Seq(Place) /\ d \in Seq(Place) /\ o \in Nat
          BY ONLY <3>3, <3>5 DEF Right, BatchOk, BufferOk
      <4>2. Len(b) \in Nat /\ Len(d) \in Nat
          BY ONLY <4>1, LenProperties
      <4>3. n = z.r + Len(d) + o /\ n = z.r + Len(b) + 0
          BY ONLY <3>3, <3>5 DEF Right, BytesOk
      <4> QED
          BY ONLY <3>1, <4>1, <4>2, <4>3
    <3> QED
        BY ONLY <3>2, <3>5, <3>6, Zenon
  <2>7. SameFlags(y, z.x)
      BY ONLY <1>2, <2>3 DEF SameFlags
  <2> QED
      BY ONLY <2>3, <2>6, <2>7, Zenon
<1> QED
    BY ONLY <1>4, <1>5

\* memcpy and context_consume_buffer
LEMMA ConsumeKeeps ==
    ASSUME NEW z, IsFrame(z), NEW w, RightWork(z, w), Room(w), NEW k \in Nat, w.x.offset + k <= w.x.size,
           NEW u, u = Consume(w, k)
    PROVE  Writing(z, u) /\ u.n = w.n + k
<1>1. Right(z, w.free, w.memory, w.x.chunks, w.x.offset, w.x.size, w.x.batch, w.n)
    BY DEF RightWork
<1>2. w.c = z.c /\ SameFlags(w.x, z.x) /\ DOMAIN w.x = Fields /\ DOMAIN w = WorkFields
    BY DEF RightWork, SameFlags
<1>3. PICK l : l = w.x.chunks[Len(w.x.chunks)]
    OBVIOUS
<1>4. PICK chunk, m2, n2, y : /\ chunk = Filled(w.memory[l], w, k)
                              /\ m2 = [w.memory EXCEPT ![l] = chunk]
                              /\ n2 = w.n + k
                              /\ y = [w.x EXCEPT !.offset = @ + k]
    OBVIOUS
<1>5. PICK v : v = [w EXCEPT !.memory[Last(w.x.chunks)] = Filled(@, w, k),
                             !.n = @ + k, !.x.offset = @ + k]
    OBVIOUS
<1>6. v = [w EXCEPT !.memory = m2, !.n = n2, !.x = y]
  <2>1. Last(w.x.chunks) = l
      BY ONLY <1>3, Zenon DEF Last
  <2>2. v = [w EXCEPT !.memory[l] = Filled(w.memory[l], w, k), !.n = @ + k, !.x.offset = @ + k]
      BY ONLY <1>5, <2>1, <1>2 DEF WorkFields
  <2>3. v = [w EXCEPT !.memory[l] = chunk, !.n = @ + k, !.x.offset = @ + k]
      BY ONLY <1>4, <2>2, Zenon
  <2> QED
      BY ONLY <1>2, <1>4, <2>3 DEF WorkFields, Fields
<1>7. DOMAIN v = WorkFields /\ v.free = w.free /\ v.x = y /\ v.memory = m2 /\ v.c = w.c /\ v.n = n2
    BY ONLY <1>2, <1>6 DEF WorkFields
<1>8. /\ DOMAIN y = Fields /\ y.offset = w.x.offset + k /\ y.size = w.x.size
      /\ y.chunks = w.x.chunks /\ y.batch = w.x.batch
      /\ y.open = w.x.open /\ y.eof = w.x.eof /\ y.error = w.x.error /\ y.wantwrite = w.x.wantwrite
    BY ONLY <1>2, <1>4 DEF Fields
<1>9. RightWork(z, v)
  <2>1. Right(z, w.free, m2, w.x.chunks, w.x.offset + k, w.x.size, w.x.batch, n2)
    <3>1. chunk = [p \in 1..ChunkSize |-> IF p \in w.x.offset + 1..w.x.offset + k
                       THEN <<z.c, w.n + p - w.x.offset>> ELSE w.memory[l][p]]
        BY ONLY <1>2, <1>4, Zenon DEF Filled
    <3>2. z.c \in Conn /\ z.r \in Nat /\ w.x.size # 0
        BY DEF IsFrame, Room
    <3>3. PICK o, s, b, ch, f, m, n :
              /\ o = w.x.offset /\ s = w.x.size /\ b = w.x.batch /\ ch = w.x.chunks
              /\ f = w.free /\ m = w.memory /\ n = w.n
        OBVIOUS
    <3>4. Right(z, f, m, ch, o, s, b, n)
        BY ONLY <1>1, <3>3, Zenon
    <3>5. chunk = [p \in 1..ChunkSize |-> IF p \in o + 1..o + k
                       THEN <<z.c, n + p - o>> ELSE m[ch[Len(ch)]][p]]
        BY ONLY <1>3, <3>1, <3>3, Zenon
    <3>6. m2 = [m EXCEPT ![ch[Len(ch)]] = chunk] /\ s # 0 /\ o + k <= s
        BY ONLY <1>3, <1>4, <3>2, <3>3, w.x.offset + k <= w.x.size, Zenon
    <3>7. Right(z, f, m2, ch, o + k, s, b, n + k)
        BY ONLY <3>2, <3>4, <3>5, <3>6, k \in Nat, RightFilled, Zenon
    <3> QED
        BY ONLY <1>4, <3>3, <3>7, Zenon
  <2>2. SameFlags(v.x, z.x)
      BY ONLY <1>2, <1>7, <1>8 DEF SameFlags
  <2>3. Right(z, v.free, v.memory, v.x.chunks, v.x.offset, v.x.size, v.x.batch, v.n)
      BY ONLY <1>7, <1>8, <2>1, Zenon
  <2> QED
      BY ONLY <1>2, <1>7, <2>2, <2>3, Zenon DEF RightWork
<1>10. u = IF v.x.offset = v.x.size THEN [v EXCEPT !.x = Batched(@)] ELSE v
    BY ONLY <1>5, u = Consume(w, k), Zenon DEF Consume
<1>11. CASE v.x.offset # v.x.size
  <2>1. u = v
      BY ONLY <1>10, <1>11
  <2>2. w.x.offset \in Nat /\ w.x.size \in Nat
      BY ONLY <1>1, Sizes DEF Right, BufferOk
  <2>3. v.x.offset < v.x.size
      BY ONLY <1>7, <1>8, <1>11, <2>2, k \in Nat, w.x.offset + k <= w.x.size
  <2> QED
      BY ONLY <1>4, <1>7, <1>9, <2>1, <2>3 DEF Writing, Room
<1>12. CASE v.x.offset = v.x.size
  <2>1. PICK g : g = Batched(v.x)
      OBVIOUS
  <2>2. u = [v EXCEPT !.x = g]
      BY ONLY <1>7, <1>10, <1>12, <2>1 DEF WorkFields
  <2>3. DOMAIN u = WorkFields /\ u.free = v.free /\ u.x = g /\ u.memory = v.memory /\ u.c = v.c /\ u.n = v.n
      BY ONLY <1>7, <2>2 DEF WorkFields
  <2>4. /\ SameFlags(g, z.x) /\ g.offset = 0 /\ g.size = 0
        /\ Right(z, v.free, v.memory, g.chunks, 0, 0, g.batch, v.n)
      BY ONLY <1>9, <2>1, IsFrame(z), BatchedKeeps, Zenon
  <2>5. RightWork(z, u)
      BY ONLY <1>2, <1>7, <2>3, <2>4, Zenon DEF RightWork
  <2> QED
      BY ONLY <1>4, <1>7, <2>3, <2>4, <2>5 DEF Writing
<1> QED
    BY ONLY <1>11, <1>12

-----------------------------------------------------------------------------
(* The loops. *)

Turns  == INSTANCE Folding WITH Op <- WriteTurn
Pieces == INSTANCE Folding WITH Op <- PrintTurn
Adding == INSTANCE Folding WITH Op <- +

LEMMA CountsAre ==
    ASSUME NEW z, IsFrame(z), NEW w, RightWork(z, w)
    PROVE  w.n \in Nat /\ w.x.offset \in Nat /\ w.x.size \in Nat
<1>1. Right(z, w.free, w.memory, w.x.chunks, w.x.offset, w.x.size, w.x.batch, w.n)
    BY DEF RightWork
<1>2. w.x.offset \in Nat /\ w.x.size \in Nat
    BY ONLY <1>1, Sizes DEF Right, BufferOk
<1>3. Len(w.x.batch) \in Nat
    BY ONLY <1>1, LenProperties DEF Right, BatchOk
<1>4. w.n = z.r + Len(w.x.batch) + w.x.offset
    BY ONLY <1>1 DEF Right, BytesOk
<1>5. z.r \in Nat
    BY DEF IsFrame
<1> QED
    BY ONLY <1>2, <1>3, <1>4, <1>5

\* A turn of context_write_data ends it or leaves fewer bytes.
LEMMA WriteTurnKeeps ==
    ASSUME NEW z, IsFrame(z), NEW s, Writing(z, s.w), s.left \in Nat, ~s.done,
           NEW i, NEW u, u = WriteTurn(s, i)
    PROVE  /\ Writing(z, u.w) /\ u.left \in Nat /\ u.w.n + u.left = s.w.n + s.left
           /\ (u.done /\ u.left = 0) \/ (~u.done /\ u.left < s.left)
<1>1. PICK g : g = GetBuffer(s.w)
    OBVIOUS
<1>2. RightWork(z, g) /\ Room(g) /\ g.n = s.w.n
    BY ONLY <1>1, Writing(z, s.w), GetBufferKeeps, Zenon
<1>3. g.n \in Nat /\ g.x.offset \in Nat /\ g.x.size \in Nat /\ g.x.offset < g.x.size
    BY ONLY <1>2, IsFrame(z), CountsAre DEF Room
<1>4. PICK a : a = g.x.size - g.x.offset
    OBVIOUS
<1>5. a \in Nat /\ a # 0 /\ g.x.offset + a <= g.x.size
    BY ONLY <1>3, <1>4
<1>6. CASE a > s.left
  <2>1. PICK v : v = Consume(g, s.left)
      OBVIOUS
  <2>2. u = [w |-> v, left |-> 0, done |-> TRUE]
      BY ONLY <1>1, <1>4, <1>6, <2>1, u = WriteTurn(s, i), ~s.done, Zenon DEF WriteTurn
  <2>3. g.x.offset + s.left <= g.x.size
      BY ONLY <1>3, <1>5, <1>6, s.left \in Nat
  <2>4. Writing(z, v) /\ v.n = g.n + s.left
    <3>1. PICK k \in Nat : k = s.left
        BY s.left \in Nat
    <3>2. Writing(z, v) /\ v.n = g.n + k
      <4>1. v = Consume(g, k) /\ g.x.offset + k <= g.x.size
          BY ONLY <2>1, <2>3, <3>1, Zenon
      <4> QED
        BY ONLY <1>2, <4>1, k \in Nat, IsFrame(z), ConsumeKeeps, ZenonT(60)
    <3> QED
        BY ONLY <3>1, <3>2
  <2> QED
      BY ONLY <1>2, <1>3, <2>2, <2>4, s.left \in Nat
<1>7. CASE ~(a > s.left)
  <2>1. PICK v : v = Consume(g, a)
      OBVIOUS
  <2>2. u = [w |-> v, left |-> s.left - a, done |-> FALSE]
      BY ONLY <1>1, <1>4, <1>7, <2>1, u = WriteTurn(s, i), ~s.done, Zenon DEF WriteTurn
  <2>3. Writing(z, v) /\ v.n = g.n + a
      BY ONLY <1>2, <1>5, <2>1, IsFrame(z), ConsumeKeeps, ZenonT(60)
  <2>4. s.left - a \in Nat /\ s.left - a < s.left
      BY ONLY <1>5, <1>7, s.left \in Nat
  <2> QED
      BY ONLY <1>2, <1>3, <1>5, <2>2, <2>3, <2>4, s.left \in Nat
<1> QED
    BY ONLY <1>6, <1>7

\* context_write_data puts all the bytes into buffers.
LEMMA WriteDataKeeps ==
    ASSUME NEW z, IsFrame(z), NEW w, Writing(z, w), NEW length \in Nat,
           NEW v, v = WriteData(w, length)
    PROVE  Writing(z, v) /\ v.n = w.n + length
<1>1. PICK q : q = [i \in 1..length + 1 |-> i]
    OBVIOUS
<1>2. DOMAIN q = 1..length + 1 /\ Len(q) = length + 1 /\ Len(q) \in Nat
    BY ONLY <1>1, length \in Nat
<1>3. PICK s0 : s0 = [w |-> w, left |-> length, done |-> FALSE]
    OBVIOUS
<1>4. v = FoldLeft(WriteTurn, s0, q).w
    BY ONLY <1>1, <1>3, v = WriteData(w, length), Zenon DEF WriteData
<1>5. PICK f : /\ f[0] = s0
               /\ \A k \in 1..Len(q) : f[k] = WriteTurn(f[k - 1], q[k])
               /\ FoldLeft(WriteTurn, s0, q) = f[Len(q)]
  <2>1. FoldLeft(WriteTurn, s0, q) = Turns!FoldLeft(WriteTurn, s0, q)
      BY ONLY Zenon DEF FoldLeft, Turns!FoldLeft, MapThenFoldSet, Turns!MapThenFoldSet, Max, Turns!Max
  <2>2. DOMAIN q = 1..Len(q) /\ Len(q) \in Nat
      BY ONLY <1>2, Zenon
  <2>3. \E f : /\ f[0] = s0
               /\ \A k \in 1..Len(q) : f[k] = WriteTurn(f[k - 1], q[k])
               /\ Turns!FoldLeft(WriteTurn, s0, q) = f[Len(q)]
      BY ONLY <2>2, Turns!Steps, ZenonT(60)
  <2> QED
      BY ONLY <2>1, <2>3, Zenon
<1>6. PICK S : S = {k \in Nat : k <= length + 1 =>
                      /\ Writing(z, f[k].w) /\ f[k].left \in Nat
                      /\ f[k].w.n + f[k].left = w.n + length
                      /\ \/ f[k].done /\ f[k].left = 0
                         \/ ~f[k].done /\ f[k].left + k <= length}
    OBVIOUS
<1>7. S \subseteq Nat /\ 0 \in S
    BY ONLY <1>3, <1>5, <1>6, Writing(z, w), length \in Nat
<1>8. ASSUME NEW k \in S PROVE k + 1 \in S
  <2>1. PICK m \in Nat : m = k + 1 /\ k \in Nat
      BY ONLY <1>7, k \in S
  <2>2. SUFFICES ASSUME m <= length + 1
                 PROVE  /\ Writing(z, f[m].w) /\ f[m].left \in Nat
                        /\ f[m].w.n + f[m].left = w.n + length
                        /\ \/ f[m].done /\ f[m].left = 0
                           \/ ~f[m].done /\ f[m].left + m <= length
    <3>1. m \in S
        BY ONLY <1>6, <2>2
    <3> QED
        BY ONLY <2>1, <3>1
  <2>3. k <= length + 1 /\ m \in 1..Len(q) /\ m - 1 = k
      BY ONLY <1>2, <2>1, <2>2, length \in Nat
  <2>4. /\ Writing(z, f[k].w) /\ f[k].left \in Nat
        /\ f[k].w.n + f[k].left = w.n + length
        /\ \/ f[k].done /\ f[k].left = 0
           \/ ~f[k].done /\ f[k].left + k <= length
      BY ONLY <1>6, <2>3, k \in S
  <2>5. PICK s, u, i : s = f[k] /\ u = f[m] /\ i = q[m]
      OBVIOUS
  <2>6. u = WriteTurn(s, i)
      BY ONLY <1>5, <2>3, <2>5, Zenon
  <2>7. CASE s.done
    <3>1. u = s
        BY ONLY <2>6, <2>7, Zenon DEF WriteTurn
    <3>2. s.done /\ s.left = 0
        BY ONLY <2>4, <2>5, <2>7
    <3> QED
        BY ONLY <2>4, <2>5, <3>1, <3>2, Zenon
  <2>8. CASE ~s.done
    <3>1. /\ Writing(z, u.w) /\ u.left \in Nat /\ u.w.n + u.left = s.w.n + s.left
          /\ (u.done /\ u.left = 0) \/ (~u.done /\ u.left < s.left)
      <4>1. Writing(z, s.w) /\ s.left \in Nat
          BY ONLY <2>4, <2>5
      <4> QED
          BY ONLY <2>6, <2>8, <4>1, IsFrame(z), WriteTurnKeeps, Zenon
    <3>2. s.left + k <= length /\ s.left \in Nat /\ s.w.n + s.left = w.n + length
        BY ONLY <2>4, <2>5, <2>8
    <3>3. u.left < s.left => u.left + m <= length
        BY ONLY <2>1, <3>1, <3>2, length \in Nat
    <3> QED
        BY ONLY <2>5, <3>1, <3>2, <3>3
  <2> QED
      BY ONLY <2>7, <2>8
<1>9. S = Nat
    BY ONLY <1>7, <1>8, Turns!Induction, Zenon
<1>10. /\ Writing(z, v) /\ f[length + 1].left = 0 /\ v.n + f[length + 1].left = w.n + length
  <2>1. length + 1 \in S /\ length + 1 <= length + 1
      BY ONLY <1>9, length \in Nat
  <2>2. v = f[length + 1].w
      BY ONLY <1>2, <1>4, <1>5
  <2>3. \A l \in Nat : ~(l + (length + 1) <= length)
      BY ONLY length \in Nat
  <2> QED
      BY ONLY <1>6, <2>1, <2>2, <2>3
<1> QED
  <2>1. v.n \in Nat
      BY <1>10, CountsAre DEF Writing
  <2> QED
      BY ONLY <1>10, <2>1

-----------------------------------------------------------------------------
(* Escaped text. *)

\* The sums f of the widths in q, starting with any number.
Sums(f, q) == f[0] \in Nat /\ \A k \in 1..Len(q) : f[k] = f[k - 1] + q[k]

\* The sequence p is the part of q behind its first a members and up to the b-th.
Piece(p, q, a, b, S) == /\ p \in Seq(S) /\ Len(p) = b - a
                        /\ \A k \in 1..b - a : p[k] = q[a + k]

LEMMA PieceIs ==
    ASSUME NEW S, NEW q \in Seq(S), NEW a \in 0..Len(q), NEW b \in a..Len(q),
           NEW p, p = SubSeq(q, a + 1, b)
    PROVE  Piece(p, q, a, b, S)
<1>1. Len(q) \in Nat /\ a \in Nat /\ b \in Nat /\ a <= b /\ b <= Len(q)
  <2>1. Len(q) \in Nat
      BY LenProperties
  <2> QED
      BY ONLY <2>1, a \in 0..Len(q), b \in a..Len(q)
<1>2. PICK e : e = a + 1
    OBVIOUS
<1>3. e \in Int /\ b \in Int /\ \A i \in e..b : i \in 1..Len(q)
    BY ONLY <1>1, <1>2
<1>4. \A i \in e..b : q[i] \in S
    BY ONLY <1>3, q \in Seq(S), ElementOfSeq
<1>5. p = SubSeq(q, e, b)
    BY ONLY <1>2, p = SubSeq(q, a + 1, b), Zenon
<1>6. /\ p \in Seq(S) /\ Len(p) = (IF e <= b THEN b - e + 1 ELSE 0)
      /\ \A k \in 1..b - e + 1 : p[k] = q[e + k - 1]
    BY ONLY <1>3, <1>4, <1>5, SubSeqProperties, SMTT(40)
<1>7. (IF e <= b THEN b - e + 1 ELSE 0) = b - a /\ b - e + 1 = b - a
    BY ONLY <1>1, <1>2
<1>8. \A k \in 1..b - a : e + k - 1 = a + k
    BY ONLY <1>1, <1>2
<1> QED
    BY ONLY <1>6, <1>7, <1>8 DEF Piece

LEMMA SumsAreNat ==
    ASSUME NEW q \in Seq(Nat), NEW f, Sums(f, q)
    PROVE  \A k \in 0..Len(q) : f[k] \in Nat
<1>1. Len(q) \in Nat /\ \A k \in 1..Len(q) : q[k] \in Nat
    BY LenProperties
<1>2. PICK S : S = {k \in Nat : k <= Len(q) => f[k] \in Nat}
    OBVIOUS
<1>3. S \subseteq Nat /\ 0 \in S
    BY <1>2 DEF Sums
<1>4. ASSUME NEW k \in S PROVE k + 1 \in S
  <2>1. PICK m \in Nat : m = k + 1 /\ k \in Nat
      BY ONLY <1>3, k \in S
  <2>2. SUFFICES ASSUME m <= Len(q) PROVE f[m] \in Nat
    <3>1. m \in S
        BY ONLY <1>2, <2>2
    <3> QED
        BY ONLY <2>1, <3>1
  <2>3. m \in 1..Len(q) /\ m - 1 = k /\ k <= Len(q)
      BY ONLY <1>1, <2>1, <2>2
  <2>4. f[m] = f[k] + q[m] /\ q[m] \in Nat
      BY <1>1, <2>3 DEF Sums
  <2>5. f[k] \in Nat
      BY ONLY <1>2, <2>3, k \in S
  <2> QED
      BY ONLY <2>4, <2>5
<1>5. S = Nat
    BY ONLY <1>3, <1>4, Adding!Induction, Zenon
<1> QED
    BY ONLY <1>1, <1>2, <1>5

LEMMA WidthIs ==
    ASSUME NEW q \in Seq(Nat), NEW f, Sums(f, q)
    PROVE  Width(q) = f[Len(q)] - f[0]
<1>1. Len(q) \in Nat /\ DOMAIN q = 1..Len(q) /\ \A k \in 1..Len(q) : q[k] \in Nat
    BY LenProperties
<1>2. PICK g : /\ g[0] = 0 /\ \A k \in 1..Len(q) : g[k] = g[k - 1] + q[k]
               /\ Width(q) = g[Len(q)]
  <2>1. Width(q) = Adding!FoldLeft(+, 0, q)
      BY ONLY Zenon DEF Width, FoldLeft, Adding!FoldLeft, MapThenFoldSet, Adding!MapThenFoldSet, Max, Adding!Max
  <2>2. \E g : /\ g[0] = 0
               /\ \A k \in 1..Len(q) : g[k] = g[k - 1] + q[k]
               /\ Adding!FoldLeft(+, 0, q) = g[Len(q)]
      BY ONLY <1>1, Adding!Steps, ZenonT(60)
  <2> QED
      BY ONLY <2>1, <2>2, Zenon
<1>3. PICK S : S = {k \in Nat : k <= Len(q) => g[k] \in Nat /\ g[k] = f[k] - f[0]}
    OBVIOUS
<1>4. \A k \in 0..Len(q) : f[k] \in Nat
    BY SumsAreNat
<1>5. S \subseteq Nat /\ 0 \in S
    BY ONLY <1>1, <1>2, <1>3, <1>4
<1>6. ASSUME NEW k \in S PROVE k + 1 \in S
  <2>1. PICK m \in Nat : m = k + 1 /\ k \in Nat
      BY ONLY <1>5, k \in S
  <2>2. SUFFICES ASSUME m <= Len(q) PROVE g[m] \in Nat /\ g[m] = f[m] - f[0]
    <3>1. m \in S
        BY ONLY <1>3, <2>2
    <3> QED
        BY ONLY <2>1, <3>1
  <2>3. m \in 1..Len(q) /\ m - 1 = k /\ k <= Len(q) /\ k \in 0..Len(q) /\ 0 \in 0..Len(q)
      BY ONLY <1>1, <2>1, <2>2
  <2>4. g[m] = g[k] + q[m] /\ f[m] = f[k] + q[m] /\ q[m] \in Nat /\ f[k] \in Nat /\ f[0] \in Nat
      BY <1>1, <1>2, <1>4, <2>3 DEF Sums
  <2>5. g[k] \in Nat /\ g[k] = f[k] - f[0]
      BY ONLY <1>3, <2>3, k \in S
  <2> QED
      BY ONLY <2>4, <2>5
<1>7. S = Nat
    BY ONLY <1>5, <1>6, Adding!Induction, Zenon
<1> QED
    BY ONLY <1>1, <1>2, <1>3, <1>7

\* There are such sums, and the width of each part is a difference of them.
LEMMA Widths ==
    ASSUME NEW q \in Seq(Nat)
    PROVE  \E f : /\ f[0] = 0 /\ \A k \in 0..Len(q) : f[k] \in Nat
                  /\ \A k \in 1..Len(q) : f[k] = f[k - 1] + q[k]
                  /\ Width(q) = f[Len(q)]
                  /\ \A a \in 0..Len(q) : \A b \in a..Len(q) :
                        Width(SubSeq(q, a + 1, b)) = f[b] - f[a]
<1>1. Len(q) \in Nat /\ DOMAIN q = 1..Len(q)
    BY LenProperties
<1>2. PICK f : /\ f[0] = 0 /\ \A k \in 1..Len(q) : f[k] = f[k - 1] + q[k]
  <2>1. \E f : /\ f[0] = 0
               /\ \A k \in 1..Len(q) : f[k] = f[k - 1] + q[k]
               /\ Adding!FoldLeft(+, 0, q) = f[Len(q)]
      BY ONLY <1>1, Adding!Steps, ZenonT(60)
  <2> QED
      BY ONLY <2>1, Zenon
<1>3. Sums(f, q)
    BY ONLY <1>2 DEF Sums
<1>4. \A k \in 0..Len(q) : f[k] \in Nat
    BY <1>3, SumsAreNat
<1>5. Width(q) = f[Len(q)]
  <2>1. Width(q) = f[Len(q)] - f[0]
      BY <1>3, WidthIs
  <2> QED
      BY ONLY <1>1, <1>2, <1>4, <2>1
<1>6. ASSUME NEW a \in 0..Len(q), NEW b \in a..Len(q)
      PROVE  Width(SubSeq(q, a + 1, b)) = f[b] - f[a]
  <2>1. PICK p, h : p = SubSeq(q, a + 1, b) /\ h = [k \in 0..b - a |-> f[a + k]]
      OBVIOUS
  <2>2. a \in Nat /\ b \in Nat /\ a <= b /\ b <= Len(q)
      BY ONLY <1>1, a \in 0..Len(q), b \in a..Len(q)
  <2>3. /\ p \in Seq(Nat) /\ Len(p) = b - a
        /\ \A k \in 1..Len(p) : p[k] = q[a + k]
    <3>1. Piece(p, q, a, b, Nat)
        BY ONLY <2>1, a \in 0..Len(q), b \in a..Len(q), q \in Seq(Nat), PieceIs, Zenon
    <3> QED
        BY ONLY <3>1 DEF Piece
  <2>4. h[0] = f[a] /\ h[b - a] = f[b] /\ h[0] \in Nat
    <3>1. 0 \in 0..b - a /\ b - a \in 0..b - a /\ a + 0 = a /\ a + (b - a) = b
        BY ONLY <2>2
    <3>2. h[0] = f[a + 0] /\ h[b - a] = f[a + (b - a)]
        BY ONLY <2>1, <3>1
    <3> QED
        BY ONLY <1>4, <3>1, <3>2, a \in 0..Len(q)
  <2>5. ASSUME NEW k \in 1..Len(p) PROVE h[k] = h[k - 1] + p[k]
    <3>1. /\ k \in 0..b - a /\ k - 1 \in 0..b - a
          /\ a + k \in 1..Len(q) /\ a + (k - 1) = (a + k) - 1
        BY ONLY <1>1, <2>2, <2>3, k \in 1..Len(p)
    <3>2. h[k] = f[a + k] /\ h[k - 1] = f[a + (k - 1)]
        BY ONLY <2>1, <3>1
    <3> QED
        BY ONLY <1>2, <2>3, <3>1, <3>2, k \in 1..Len(p)
  <2>6. Sums(h, p)
      BY ONLY <2>4, <2>5 DEF Sums
  <2>7. Width(p) = h[Len(p)] - h[0]
      BY ONLY <2>3, <2>6, WidthIs
  <2> QED
      BY ONLY <2>1, <2>3, <2>4, <2>7
<1> QED
    BY ONLY <1>2, <1>4, <1>5, <1>6

\* What is put straight into a buffer fits.
LEMMA DirectFits ==
    ASSUME NEW q \in Seq(0..Esc), NEW a \in Nat, NEW d, d = Direct(q, a)
    PROVE  d \in 0..Len(q) /\ Width(SubSeq(q, 1, d)) \in Nat /\ Width(SubSeq(q, 1, d)) <= a
<1>1. Len(q) \in Nat /\ q \in Seq(Nat) /\ \A k \in 1..Len(q) : q[k] \in Nat /\ q[k] <= Esc
  <2>1. 0..Esc \subseteq Nat
      BY Sizes
  <2>2. q \in Seq(Nat)
      BY ONLY <2>1, q \in Seq(0..Esc), SeqMonotonic
  <2>3. \A k \in 1..Len(q) : q[k] \in 0..Esc
    <3>1. PICK S : S = 0..Esc
        OBVIOUS
    <3>2. q \in Seq(S)
        BY ONLY <3>1, q \in Seq(0..Esc)
    <3>3. \A k \in 1..Len(q) : q[k] \in S
        BY ONLY <3>2
    <3> QED
        BY ONLY <3>1, <3>3
  <2> QED
      BY ONLY <2>2, <2>3, Sizes, LenProperties
<1>2. PICK Full : Full = {k \in Nat : k <= Len(q) => HasRoom(q, a, k)}
    OBVIOUS
<1>3. Full \subseteq Nat /\ 0 \in Full
  <2>1. HasRoom(q, a, 0)
      BY DEF HasRoom
  <2> QED
      BY ONLY <1>2, <2>1
<1>4. \E k \in 0..Len(q) : HasRoom(q, a, k) /\ (k < Len(q) => ~HasRoom(q, a, k + 1))
  <2>1. CASE \A k \in Full : k + 1 \in Full
    <3>1. Full = Nat
        BY ONLY <1>3, <2>1, Adding!Induction, Zenon
    <3>2. HasRoom(q, a, Len(q)) /\ Len(q) \in 0..Len(q) /\ ~(Len(q) < Len(q))
        BY ONLY <1>1, <1>2, <3>1
    <3> QED
        BY ONLY <3>2
  <2>2. CASE \E k \in Full : k + 1 \notin Full
    <3>1. PICK k \in Full : k + 1 \notin Full
        BY ONLY <2>2
    <3>2. k \in Nat /\ k + 1 \in Nat /\ k + 1 <= Len(q) /\ ~HasRoom(q, a, k + 1)
        BY ONLY <1>2, <1>3, <3>1
    <3>3. k \in 0..Len(q)
        BY ONLY <1>1, <3>2
    <3>4. HasRoom(q, a, k)
        BY ONLY <1>2, <3>1, <3>3
    <3> QED
        BY ONLY <3>2, <3>3, <3>4
  <2> QED
      BY ONLY <2>1, <2>2
<1>5. d \in 0..Len(q) /\ HasRoom(q, a, d)
    BY ONLY <1>4, d = Direct(q, a), Zenon DEF Direct
<1>6. PICK f : /\ f[0] = 0 /\ \A k \in 0..Len(q) : f[k] \in Nat
               /\ \A k \in 1..Len(q) : f[k] = f[k - 1] + q[k]
               /\ \A i \in 0..Len(q) : \A j \in i..Len(q) : Width(SubSeq(q, i + 1, j)) = f[j] - f[i]
    BY ONLY <1>1, Widths, Zenon
<1>7. \A k \in 0..Len(q) : Width(SubSeq(q, 1, k)) = f[k]
  <2>1. SUFFICES ASSUME NEW k \in 0..Len(q) PROVE Width(SubSeq(q, 1, k)) = f[k]
      OBVIOUS
  <2>2. 0 \in 0..Len(q) /\ k \in 0..Len(q) /\ 0 + 1 = 1
      BY ONLY <1>1, k \in 0..Len(q)
  <2>3. Width(SubSeq(q, 0 + 1, k)) = f[k] - f[0]
      BY ONLY <1>6, <2>2, Zenon
  <2>4. f[k] - f[0] = f[k]
      BY ONLY <1>6, k \in 0..Len(q)
  <2> QED
      BY ONLY <2>2, <2>3, <2>4, Zenon
<1>8. CASE d = 0
  <2>1. Width(SubSeq(q, 1, d)) = 0
      BY ONLY <1>5, <1>6, <1>7, <1>8
  <2> QED
      BY ONLY <1>5, <2>1, a \in Nat
<1>9. CASE d # 0
  <2>1. d \in 1..Len(q) /\ d - 1 \in 0..Len(q) /\ d \in 1..d
      BY ONLY <1>1, <1>5, <1>9
  <2>2. a - Width(SubSeq(q, 1, d - 1)) >= Esc
      BY ONLY <1>5, <2>1, Zenon DEF HasRoom
  <2>3. Width(SubSeq(q, 1, d - 1)) = f[d - 1] /\ Width(SubSeq(q, 1, d)) = f[d]
      BY ONLY <1>5, <1>7, <2>1, Zenon
  <2>4. f[d] = f[d - 1] + q[d] /\ q[d] \in Nat /\ q[d] <= Esc /\ f[d - 1] \in Nat
      BY ONLY <1>1, <1>6, <2>1
  <2> QED
      BY ONLY <1>5, <2>2, <2>3, <2>4, Sizes, a \in Nat
<1> QED
    BY ONLY <1>8, <1>9

\* A turn of _print_esc_html leaves fewer characters.
LEMMA PrintTurnKeeps ==
    ASSUME NEW z, IsFrame(z), NEW s, Writing(z, s.w), s.left \in Seq(0..Esc), s.left # <<>>,
           NEW i, NEW u, u = PrintTurn(s, i)
    PROVE  /\ Writing(z, u.w) /\ u.left \in Seq(0..Esc) /\ Len(u.left) < Len(s.left)
           /\ u.w.n + Width(u.left) = s.w.n + Width(s.left)
<1>1. PICK q, W : q = s.left /\ W = 0..Esc
    OBVIOUS
<1>2. q \in Seq(W) /\ Len(q) \in Nat /\ Len(q) # 0 /\ q \in Seq(Nat) /\ W \subseteq Nat
  <2>1. W \subseteq Nat
      BY ONLY <1>1, Sizes
  <2>2. q \in Seq(W) /\ q # <<>>
      BY ONLY <1>1, s.left \in Seq(0..Esc), s.left # <<>>
  <2> QED
      BY ONLY <2>1, <2>2, SeqMonotonic, EmptySeq, LenProperties
<1>3. PICK g : g = GetBuffer(s.w)
    OBVIOUS
<1>4. RightWork(z, g) /\ Room(g) /\ g.n = s.w.n
    BY ONLY <1>3, Writing(z, s.w), GetBufferKeeps, Zenon
<1>5. g.n \in Nat /\ g.x.offset \in Nat /\ g.x.size \in Nat /\ g.x.offset < g.x.size
    BY ONLY <1>4, IsFrame(z), CountsAre DEF Room
<1>6. PICK a \in Nat : a = g.x.size - g.x.offset
    BY ONLY <1>5
<1>7. PICK d : d = Direct(q, a)
    OBVIOUS
<1>8. PICK k \in Nat : /\ k = Width(SubSeq(q, 1, d)) /\ k <= a /\ d \in 0..Len(q)
    BY ONLY <1>1, <1>2, <1>7, DirectFits
<1>9. PICK v, rest : v = Consume(g, k) /\ rest = SubSeq(q, d + 1, Len(q))
    OBVIOUS
<1>10. Writing(z, v) /\ v.n = g.n + k
  <2>1. g.x.offset + k <= g.x.size
      BY ONLY <1>5, <1>6, <1>8
  <2>2. v = Consume(g, k)
      BY ONLY <1>9
  <2>3. RightWork(z, g) /\ Room(g)
      BY ONLY <1>4
  <2> QED
      BY ONLY <2>1, <2>2, <2>3, k \in Nat, IsFrame(z), ConsumeKeeps, ZenonT(60)
<1>11. rest \in Seq(W) /\ Len(rest) = Len(q) - d /\ Len(rest) \in Nat /\ rest \in Seq(Nat)
  <2>1. Len(q) \in d..Len(q)
      BY ONLY <1>2, <1>8
  <2>2. Piece(rest, q, d, Len(q), W)
      BY ONLY <1>2, <1>8, <1>9, <2>1, PieceIs, Zenon
  <2>3. rest \in Seq(W) /\ Len(rest) = Len(q) - d
      BY ONLY <2>2 DEF Piece
  <2>4. rest \in Seq(Nat) /\ Len(rest) \in Nat
      BY ONLY <1>2, <2>3, SeqMonotonic, LenProperties
  <2> QED
      BY ONLY <2>3, <2>4
<1>12. Width(q) = k + Width(rest) /\ Width(rest) \in Nat
  <2>1. PICK f : /\ f[0] = 0 /\ \A j \in 0..Len(q) : f[j] \in Nat
                 /\ Width(q) = f[Len(q)]
                 /\ \A b \in 0..Len(q) : \A e \in b..Len(q) :
                       Width(SubSeq(q, b + 1, e)) = f[e] - f[b]
      BY ONLY <1>2, Widths, Zenon
  <2>2. 0 \in 0..Len(q) /\ Len(q) \in d..Len(q) /\ d \in 0..Len(q) /\ 0 + 1 = 1 /\ Len(q) \in 0..Len(q)
      BY ONLY <1>2, <1>8
  <2>3. Width(SubSeq(q, 0 + 1, d)) = f[d] - f[0] /\ Width(rest) = f[Len(q)] - f[d]
      BY ONLY <1>9, <2>1, <2>2, Zenon
  <2>4. k = f[d] - f[0]
      BY ONLY <1>8, <2>2, <2>3, Zenon
  <2>5. Width(rest) \in Nat
    <3>1. PICK h : /\ \A j \in 0..Len(rest) : h[j] \in Nat
                   /\ Width(rest) = h[Len(rest)]
        BY ONLY <1>11, Widths, Zenon
    <3>2. Len(rest) \in 0..Len(rest)
        BY ONLY <1>11
    <3> QED
        BY ONLY <3>1, <3>2
  <2>6. f[0] = 0 /\ f[d] \in Nat /\ f[Len(q)] \in Nat /\ Width(q) = f[Len(q)]
      BY ONLY <2>1, <2>2
  <2>7. Width(rest) = f[Len(q)] - f[d]
      BY ONLY <2>3
  <2> QED
      BY ONLY <2>4, <2>5, <2>6, <2>7
<1>13. u = IF rest = <<>> THEN [w |-> v, left |-> <<>>]
           ELSE LET next == IF Len(rest) < Esc THEN Len(rest) ELSE Esc
                IN [w    |-> WriteData(v, Width(SubSeq(rest, 1, next))),
                    left |-> SubSeq(rest, next + 1, Len(rest))]
    BY ONLY <1>1, <1>3, <1>6, <1>7, <1>8, <1>9, u = PrintTurn(s, i), s.left # <<>>, Zenon DEF PrintTurn
<1>14. CASE rest = <<>>
  <2>1. u = [w |-> v, left |-> <<>>]
      BY ONLY <1>13, <1>14
  <2>2. Width(<<>>) = Width(rest) /\ Len(rest) = 0
      BY ONLY <1>14, EmptySeq
  <2>3. Width(rest) = 0
    <3>1. PICK h : /\ h[0] = 0 /\ Width(rest) = h[Len(rest)]
        BY ONLY <1>11, Widths, Zenon
    <3> QED
        BY ONLY <2>2, <3>1
  <2>4. Len(<<>>) = 0 /\ <<>> \in Seq(W)
      BY ONLY EmptySeq
  <2> QED
      BY ONLY <1>1, <1>2, <1>4, <1>5, <1>10, <1>12, <2>1, <2>2, <2>3, <2>4
<1>15. CASE rest # <<>>
  <2>1. PICK n : n = IF Len(rest) < Esc THEN Len(rest) ELSE Esc
      OBVIOUS
  <2>2. n \in Nat /\ n # 0 /\ n <= Len(rest) /\ Len(rest) # 0
      BY ONLY <1>11, <1>15, <2>1, Sizes, EmptySeq
  <2>3. PICK l, t : l = Width(SubSeq(rest, 1, n)) /\ t = SubSeq(rest, n + 1, Len(rest))
      OBVIOUS
  <2>4. u = [w |-> WriteData(v, l), left |-> t]
      BY ONLY <1>13, <1>15, <2>1, <2>3, Zenon
  <2>5. t \in Seq(W) /\ Len(t) = Len(rest) - n
    <3>1. n \in 0..Len(rest) /\ Len(rest) \in n..Len(rest)
        BY ONLY <1>11, <2>2
    <3>2. t = SubSeq(rest, n + 1, Len(rest)) /\ rest \in Seq(W)
        BY ONLY <1>11, <2>3
    <3>3. Piece(t, rest, n, Len(rest), W)
        BY ONLY <3>1, <3>2, PieceIs, Zenon
    <3> QED
        BY ONLY <3>3 DEF Piece
  <2>6. l \in Nat /\ Width(rest) = l + Width(t) /\ Width(t) \in Nat
    <3>1. PICK f : /\ f[0] = 0 /\ \A j \in 0..Len(rest) : f[j] \in Nat
                   /\ \A j \in 1..Len(rest) : f[j] = f[j - 1] + rest[j]
                   /\ Width(rest) = f[Len(rest)]
                   /\ \A b \in 0..Len(rest) : \A e \in b..Len(rest) :
                         Width(SubSeq(rest, b + 1, e)) = f[e] - f[b]
        BY ONLY <1>11, Widths, Zenon
    <3>2. /\ 0 \in 0..Len(rest) /\ n \in 0..Len(rest) /\ Len(rest) \in n..Len(rest)
          /\ Len(rest) \in 0..Len(rest) /\ 0 + 1 = 1
        BY ONLY <1>11, <2>2
    <3>3. Width(SubSeq(rest, 0 + 1, n)) = f[n] - f[0] /\ Width(t) = f[Len(rest)] - f[n]
        BY ONLY <2>3, <3>1, <3>2, Zenon
    <3>4. l = f[n] - f[0]
        BY ONLY <2>3, <3>2, <3>3, Zenon
    <3>5. t \in Seq(Nat)
        BY ONLY <1>2, <2>5, SeqMonotonic
    <3>6. PICK h : /\ \A j \in 0..Len(t) : h[j] \in Nat
                   /\ Width(t) = h[Len(t)]
        BY ONLY <3>5, Widths, Zenon
    <3>7. Len(t) \in 0..Len(t)
        BY ONLY <1>11, <2>2, <2>5
    <3>8. /\ f[0] = 0 /\ f[n] \in Nat /\ f[Len(rest)] \in Nat /\ Width(rest) = f[Len(rest)]
          /\ Width(t) \in Nat
        BY ONLY <3>1, <3>2, <3>6, <3>7
    <3>9. Width(t) = f[Len(rest)] - f[n]
        BY ONLY <3>3
    <3> QED
        BY ONLY <3>4, <3>8, <3>9
  <2>7. PICK y : y = WriteData(v, l)
      OBVIOUS
  <2>8. Writing(z, y) /\ y.n = v.n + l
      BY ONLY <1>10, <2>6, <2>7, IsFrame(z), WriteDataKeeps, ZenonT(60)
  <2>9. u.w = y /\ u.left = t
      BY ONLY <2>4, <2>7
  <2>10. Len(t) < Len(q)
      BY ONLY <1>2, <1>8, <1>11, <2>2, <2>5
  <2>11. y.n + Width(t) = s.w.n + Width(q)
      BY ONLY <1>4, <1>5, <1>10, <1>12, <2>6, <2>8
  <2> QED
      BY ONLY <1>1, <2>5, <2>8, <2>9, <2>10, <2>11, Zenon
<1> QED
    BY ONLY <1>14, <1>15

\* _print_esc_html puts all the characters into buffers.
LEMMA PrintEscapedKeeps ==
    ASSUME NEW z, IsFrame(z), NEW w, Writing(z, w), NEW widths \in Seq(0..Esc),
           NEW v, v = PrintEscaped(w, widths)
    PROVE  Writing(z, v) /\ v.n = w.n + Width(widths)
<1>1. PICK q : q = [i \in 1..Len(widths) |-> i]
    OBVIOUS
<1>2. PICK N \in Nat : N = Len(widths)
    BY LenProperties
<1>3. DOMAIN q = 1..N /\ Len(q) = N
    BY ONLY <1>1, <1>2
<1>4. PICK s0 : s0 = [w |-> w, left |-> widths]
    OBVIOUS
<1>5. v = FoldLeft(PrintTurn, s0, q).w
    BY ONLY <1>1, <1>4, v = PrintEscaped(w, widths), Zenon DEF PrintEscaped
<1>6. PICK f : /\ f[0] = s0
               /\ \A k \in 1..Len(q) : f[k] = PrintTurn(f[k - 1], q[k])
               /\ FoldLeft(PrintTurn, s0, q) = f[Len(q)]
  <2>1. FoldLeft(PrintTurn, s0, q) = Pieces!FoldLeft(PrintTurn, s0, q)
      BY ONLY Zenon DEF FoldLeft, Pieces!FoldLeft, MapThenFoldSet, Pieces!MapThenFoldSet, Max, Pieces!Max
  <2>2. DOMAIN q = 1..Len(q) /\ Len(q) \in Nat
      BY ONLY <1>3, N \in Nat, Zenon
  <2>3. \E f : /\ f[0] = s0
               /\ \A k \in 1..Len(q) : f[k] = PrintTurn(f[k - 1], q[k])
               /\ Pieces!FoldLeft(PrintTurn, s0, q) = f[Len(q)]
      BY ONLY <2>2, Pieces!Steps, ZenonT(60)
  <2> QED
      BY ONLY <2>1, <2>3, Zenon
<1>7. PICK W, total : W = Seq(0..Esc) /\ total = w.n + Width(widths)
    OBVIOUS
<1>8. PICK S : S = {k \in Nat : k <= N =>
                      /\ Writing(z, f[k].w) /\ f[k].left \in W /\ Len(f[k].left) + k <= N
                      /\ f[k].w.n + Width(f[k].left) = total}
    OBVIOUS
<1>9. S \subseteq Nat /\ 0 \in S
    BY ONLY <1>2, <1>4, <1>6, <1>7, <1>8, Writing(z, w), widths \in Seq(0..Esc)
<1>10. \A t \in W : Len(t) \in Nat /\ (Len(t) = 0 => t = <<>>)
  <2>1. PICK X : X = 0..Esc
      OBVIOUS
  <2>2. \A t \in Seq(X) : Len(t) \in Nat /\ (Len(t) = 0 => t = <<>>)
      BY ONLY LenProperties, EmptySeq
  <2> QED
      BY ONLY <1>7, <2>1, <2>2
<1>11. ASSUME NEW k \in S PROVE k + 1 \in S
  <2>1. PICK m \in Nat : m = k + 1 /\ k \in Nat
      BY ONLY <1>9, k \in S
  <2>2. SUFFICES ASSUME m <= N
                 PROVE  /\ Writing(z, f[m].w) /\ f[m].left \in W /\ Len(f[m].left) + m <= N
                        /\ f[m].w.n + Width(f[m].left) = total
    <3>1. m \in S
        BY ONLY <1>8, <2>2
    <3> QED
        BY ONLY <2>1, <3>1
  <2>3. k <= N /\ m \in 1..Len(q) /\ m - 1 = k
      BY ONLY <1>3, <2>1, <2>2, N \in Nat
  <2>4. /\ Writing(z, f[k].w) /\ f[k].left \in W /\ Len(f[k].left) + k <= N
        /\ f[k].w.n + Width(f[k].left) = total
      BY ONLY <1>8, <2>3, k \in S
  <2>5. PICK s, u, i : s = f[k] /\ u = f[m] /\ i = q[m]
      OBVIOUS
  <2>6. u = PrintTurn(s, i)
      BY ONLY <1>6, <2>3, <2>5, Zenon
  <2>7. CASE s.left = <<>>
    <3>1. u = s
        BY ONLY <2>6, <2>7, Zenon DEF PrintTurn
    <3>2. Len(s.left) = 0
        BY ONLY <2>7, EmptySeq
    <3> QED
        BY ONLY <2>1, <2>2, <2>4, <2>5, <3>1, <3>2, N \in Nat
  <2>8. CASE s.left # <<>>
    <3>1. /\ Writing(z, u.w) /\ u.left \in Seq(0..Esc) /\ Len(u.left) < Len(s.left)
          /\ u.w.n + Width(u.left) = s.w.n + Width(s.left)
      <4>1. Writing(z, s.w) /\ s.left \in Seq(0..Esc)
          BY ONLY <1>7, <2>4, <2>5, Zenon
      <4> QED
          BY ONLY <2>6, <2>8, <4>1, IsFrame(z), PrintTurnKeeps, Zenon
    <3>2. Len(u.left) \in Nat /\ Len(s.left) \in Nat /\ Len(s.left) + k <= N
        BY ONLY <1>7, <1>10, <2>4, <2>5, <3>1
    <3>3. Len(u.left) + m <= N
      <4>1. PICK a, b \in Nat : a = Len(u.left) /\ b = Len(s.left)
          BY ONLY <3>2
      <4>2. a < b /\ b + k <= N
          BY ONLY <3>1, <3>2, <4>1
      <4>3. a + m <= N
          BY ONLY <2>1, <4>2, N \in Nat
      <4> QED
          BY ONLY <4>1, <4>3
    <3> QED
        BY ONLY <1>7, <2>4, <2>5, <3>1, <3>3, Zenon
  <2> QED
      BY ONLY <2>7, <2>8
<1>12. S = Nat
    BY ONLY <1>9, <1>11, Pieces!Induction, Zenon
<1>13. /\ Writing(z, v) /\ f[N].left = <<>> /\ v.n + Width(f[N].left) = total
  <2>1. N \in S /\ N <= N
      BY ONLY <1>12, N \in Nat
  <2>2. v = f[N].w
      BY ONLY <1>3, <1>5, <1>6
  <2>3. Writing(z, v) /\ f[N].left \in W /\ Len(f[N].left) + N <= N /\ v.n + Width(f[N].left) = total
      BY ONLY <1>8, <2>1, <2>2
  <2>4. Len(f[N].left) = 0
      BY ONLY <1>10, <2>3, N \in Nat
  <2> QED
      BY ONLY <1>10, <2>3, <2>4
<1>14. Width(<<>>) = 0
  <2>1. <<>> \in Seq(Nat) /\ Len(<<>>) = 0
      BY ONLY EmptySeq
  <2>2. PICK h : h[0] = 0 /\ Width(<<>>) = h[Len(<<>>)]
      BY ONLY <2>1, Widths, Zenon
  <2> QED
      BY ONLY <2>1, <2>2
<1> QED
  <2>1. v.n \in Nat
      BY <1>13, CountsAre DEF Writing
  <2> QED
      BY ONLY <1>7, <1>13, <1>14, <2>1

\* The places of n bytes of a file, behind the k-th byte printed.
FilePlaces(k, n) == [i \in 1..n |-> <<0, k + i>>]

\* iob_addfile_close, after what was in the buffer.
LEMMA RightFile ==
    ASSUME NEW z, z.r \in Nat, NEW f, NEW m, NEW ch, NEW b, NEW n,
           Right(z, f, m, ch, 0, 0, b, n), NEW k \in Nat,
           NEW b2, b2 = b \o FilePlaces(n, k)
    PROVE  Right(z, f, m, ch, 0, 0, b2, n + k)
<1>1. b \in Seq(Place) /\ Len(b) \in Nat /\ n = z.r + Len(b) /\ n \in Nat
  <2>1. b \in Seq(Place) /\ n = z.r + Len(b) + 0
      BY DEF Right, BatchOk, BytesOk
  <2>2. Len(b) \in Nat
      BY ONLY <2>1, LenProperties
  <2> QED
      BY ONLY <2>1, <2>2, z.r \in Nat
<1>2. PICK t : t = [i \in 1..k |-> <<0, n + i>>]
    OBVIOUS
<1>3. Joined(b2, b, k, t, Place)
  <2>1. PICK S : S = Place
      OBVIOUS
  <2>2. t \in [1..k -> S]
      BY ONLY <1>1, <1>2, <2>1 DEF Place
  <2>3. b \in Seq(S) /\ b2 = b \o t
      BY ONLY <1>1, <1>2, <2>1, b2 = b \o FilePlaces(n, k), Zenon DEF FilePlaces
  <2>4. Joined(b2, b, k, t, S)
      BY ONLY <2>2, <2>3, k \in Nat, ConcatIs
  <2> QED
      BY ONLY <2>1, <2>4
<1>4. \A i \in 1..Len(b2) : \/ i \in 1..Len(b) /\ b2[i] = b[i]
                            \/ \E j \in 1..k : i = Len(b) + j /\ b2[i] = <<0, n + j>>
    BY ONLY <1>2, <1>3 DEF Joined
<1>5. BatchOk(ch, 0, b2)
  <2>1. BatchOk(ch, 0, b)
      BY DEF Right
  <2>2. ASSUME NEW i \in 1..Len(b2), b2[i][1] # 0
        PROVE  /\ \E j \in 1..Len(ch) : b2[i][1] = ch[j]
               /\ b2[i][2] \in 1..ChunkSize
    <3>1. i \in 1..Len(b) /\ b2[i] = b[i]
      <4>1. ASSUME NEW j \in 1..k, b2[i] = <<0, n + j>> PROVE FALSE
          BY ONLY <2>2, <4>1
      <4> QED
          BY ONLY <1>4, <4>1, i \in 1..Len(b2), Zenon
    <3> QED
        BY ONLY <2>1, <2>2, <3>1 DEF BatchOk
  <2>3. b2 \in Seq(Place)
      BY ONLY <1>3 DEF Joined
  <2> QED
      BY ONLY <2>2, <2>3 DEF BatchOk
<1>6. BytesOk(z, m, ch, 0, b2, n + k)
  <2>1. BytesOk(z, m, ch, 0, b, n)
      BY DEF Right
  <2>2. ASSUME NEW i \in 1..Len(b2) PROVE Byte(m, z.c, b2[i]) = <<z.c, z.r + i>>
    <3>1. CASE i \in 1..Len(b) /\ b2[i] = b[i]
        BY ONLY <2>1, <3>1 DEF BytesOk
    <3>2. CASE \E j \in 1..k : i = Len(b) + j /\ b2[i] = <<0, n + j>>
      <4>1. PICK j \in 1..k : i = Len(b) + j /\ b2[i] = <<0, n + j>>
          BY ONLY <3>2
      <4>2. Byte(m, z.c, b2[i]) = <<z.c, n + j>>
          BY ONLY <4>1 DEF Byte
      <4>3. n + j = z.r + i
          BY ONLY <1>1, <4>1, z.r \in Nat
      <4> QED
          BY ONLY <4>2, <4>3
    <3> QED
        BY ONLY <1>4, <3>1, <3>2
  <2>3. n + k = z.r + Len(b2) + 0
      BY ONLY <1>1, <1>3, k \in Nat, z.r \in Nat DEF Joined
  <2> QED
      BY ONLY <2>2, <2>3 DEF BytesOk
<1> QED
    BY <1>5, <1>6 DEF Right

\* context_write_file
LEMMA PrintFileKeeps ==
    ASSUME NEW z, IsFrame(z), NEW w, Writing(z, w), NEW k \in Nat, NEW v, v = PrintFile(w, k)
    PROVE  Writing(z, v) /\ v.n = w.n + k
<1>1. PICK y : y = Batched(w.x)
    OBVIOUS
<1>2. RightWork(z, w) /\ DOMAIN w = WorkFields /\ w.c = z.c
    BY DEF Writing, RightWork
<1>3. /\ SameFlags(y, z.x) /\ y.offset = 0 /\ y.size = 0
      /\ Right(z, w.free, w.memory, y.chunks, 0, 0, y.batch, w.n)
    BY ONLY <1>1, <1>2, IsFrame(z), BatchedKeeps, Zenon
<1>4. PICK b, g, n2 : b = y.batch \o FilePlaces(w.n, k) /\ g = [y EXCEPT !.batch = b] /\ n2 = w.n + k
    OBVIOUS
<1>5. v = [w EXCEPT !.x = g, !.n = n2]
  <2>1. g = [y EXCEPT !.batch = @ \o [i \in 1..k |-> <<0, w.n + i>>]]
      BY ONLY <1>4, Zenon DEF FilePlaces
  <2>2. v = [w EXCEPT !.x = g, !.n = @ + k]
      BY ONLY <1>1, <2>1, v = PrintFile(w, k), Zenon DEF PrintFile
  <2> QED
      BY ONLY <1>2, <1>4, <2>2 DEF WorkFields
<1>6. DOMAIN v = WorkFields /\ v.free = w.free /\ v.x = g /\ v.memory = w.memory /\ v.c = w.c /\ v.n = n2
    BY ONLY <1>2, <1>5 DEF WorkFields
<1>7. DOMAIN y = Fields
    BY ONLY <1>3 DEF SameFlags
<1>8. /\ DOMAIN g = Fields /\ g.batch = b /\ g.offset = y.offset /\ g.size = y.size
      /\ g.chunks = y.chunks
      /\ g.open = y.open /\ g.eof = y.eof /\ g.error = y.error /\ g.wantwrite = y.wantwrite
    BY ONLY <1>4, <1>7 DEF Fields
<1>9. Right(z, w.free, w.memory, y.chunks, 0, 0, b, w.n + k)
  <2>1. PICK f, m, ch, d, n : /\ f = w.free /\ m = w.memory /\ ch = y.chunks /\ d = y.batch
                              /\ n = w.n /\ z.r \in Nat
      BY DEF IsFrame
  <2>2. Right(z, f, m, ch, 0, 0, d, n) /\ b = d \o FilePlaces(n, k)
      BY ONLY <1>3, <1>4, <2>1, Zenon
  <2>3. Right(z, f, m, ch, 0, 0, b, n + k)
      BY ONLY <2>1, <2>2, k \in Nat, RightFile, Zenon
  <2> QED
      BY ONLY <2>1, <2>3, Zenon
<1>10. SameFlags(g, z.x)
    BY ONLY <1>3, <1>8 DEF SameFlags
<1>11. RightWork(z, v)
  <2>1. Right(z, v.free, v.memory, v.x.chunks, v.x.offset, v.x.size, v.x.batch, v.n)
      BY ONLY <1>3, <1>4, <1>6, <1>8, <1>9, Zenon
  <2> QED
      BY ONLY <1>2, <1>6, <1>10, <2>1, Zenon DEF RightWork
<1> QED
    BY ONLY <1>3, <1>4, <1>6, <1>8, <1>11 DEF Writing

-----------------------------------------------------------------------------
(* All connections. *)

Others(c) == UNION {ToSet(ctx[d].chunks) : d \in Conn \ {c}}

\* What a write on the connection c starts from.
Frame(c) == [c |-> c, r |-> Len(received[c]), memory |-> memory, others |-> Others(c), x |-> ctx[c]]

\* The context of c is right, and what is left of the newest chunk is not nothing.
Sound(c) == /\ DOMAIN ctx[c] = Fields
            /\ Right(Frame(c), free, memory, ctx[c].chunks, ctx[c].offset, ctx[c].size,
                     ctx[c].batch, written[c])
            /\ ctx[c].size # 0 => ctx[c].offset < ctx[c].size

\* What was sent on c, and what is left of an answer that was ended.
Honest(c) == /\ \A i \in 1..Len(received[c]) : received[c][i] = <<c, i>>
             /\ ctx[c].eof => ctx[c].offset = 0
             /\ ctx[c].eof /\ ~ctx[c].error => (ctx[c].batch # <<>> <=> ctx[c].wantwrite)
             /\ ~ctx[c].open => /\ ctx[c] = [NewContext EXCEPT !.open = FALSE]
                                /\ written[c] = 0 /\ received[c] = <<>>

OutputTypeOK == /\ DOMAIN ctx = Conn
                /\ written \in [Conn -> Nat] /\ received \in [Conn -> Seq(Conn \X Nat)]

OutputInv == OutputTypeOK /\ \A c \in Conn : Sound(c) /\ Honest(c)

LEMMA FrameHas ==
    ASSUME NEW c \in Conn
    PROVE  /\ Frame(c).c = c /\ Frame(c).r = Len(received[c]) /\ Frame(c).memory = memory
           /\ Frame(c).others = Others(c) /\ Frame(c).x = ctx[c]
BY DEF Frame

LEMMA FrameIsFrame ==
    ASSUME OutputTypeOK, NEW c \in Conn
    PROVE  IsFrame(Frame(c)) /\ Len(received[c]) \in Nat
<1>1. received[c] \in Seq(Conn \X Nat)
    BY DEF OutputTypeOK
<1>2. Len(received[c]) \in Nat
    BY ONLY <1>1, LenProperties
<1> QED
    BY ONLY <1>2, FrameHas, c \in Conn DEF IsFrame

\* A write starts from a sound context.
LEMMA PrintingStarts ==
    ASSUME NEW c \in Conn, Sound(c)
    PROVE  Writing(Frame(c), Printing(c)) /\ Printing(c).n = written[c]
<1>1. PICK w : w = Printing(c)
    OBVIOUS
<1>2. /\ DOMAIN w = WorkFields /\ w.free = free /\ w.memory = memory /\ w.c = c
      /\ w.x = ctx[c] /\ w.n = written[c]
    BY ONLY <1>1 DEF Printing, WorkFields
<1>3. PICK z : z = Frame(c)
    OBVIOUS
<1>4. z.c = c /\ z.x = ctx[c]
    BY ONLY <1>3, FrameHas, c \in Conn
<1>5. SameFlags(w.x, z.x)
    BY <1>2, <1>4 DEF SameFlags, Sound
<1>6. Right(z, w.free, w.memory, w.x.chunks, w.x.offset, w.x.size, w.x.batch, w.n)
    BY ONLY <1>2, <1>3, Sound(c), Zenon DEF Sound
<1>7. w.x.size # 0 => w.x.offset < w.x.size
    BY ONLY <1>2, Sound(c), Zenon DEF Sound
<1> QED
    BY ONLY <1>1, <1>2, <1>3, <1>4, <1>5, <1>6, <1>7 DEF Writing, RightWork, Room

\* The frame says of its context and memory only what it compares with.
LEMMA RightFrame ==
    ASSUME NEW z, NEW f, NEW m, NEW ch, NEW o, NEW size, NEW b, NEW n,
           Right(z, f, m, ch, o, size, b, n),
           NEW y, y.c = z.c, y.r = z.r, y.others = z.others, y.memory = m
    PROVE  Right(y, f, m, ch, o, size, b, n)
<1>1. ChunksOk(y, f, m, ch)
    BY DEF Right, ChunksOk
<1>2. BytesOk(y, m, ch, o, b, n)
    BY DEF Right, BytesOk
<1> QED
    BY <1>1, <1>2 DEF Right

\* The chunks ch keep what they have of m in l, where g are free and the others are y's.
Elsewhere(y, g, l, m, ch) ==
    /\ l \in Seq(Bytes) /\ g \in Seq(1..Len(l)) /\ y.memory = l
    /\ \A i, j \in 1..Len(g) : g[i] = g[j] => i = j
    /\ \A i \in 1..Len(ch) : ch[i] \in 1..Len(l) /\ l[ch[i]] = m[ch[i]]
    /\ \A i \in 1..Len(g), j \in 1..Len(ch) : g[i] # ch[j]
    /\ \A p \in y.others : /\ p \in 1..Len(l)
                           /\ \A i \in 1..Len(g) : g[i] # p
                           /\ \A i \in 1..Len(ch) : ch[i] # p

\* What another connection does leaves a context right.
LEMMA RightElsewhere ==
    ASSUME NEW z, NEW f, NEW m, NEW ch, NEW o, NEW size, NEW b, NEW n,
           Right(z, f, m, ch, o, size, b, n),
           NEW g, NEW l, NEW y, y.c = z.c, y.r = z.r, Elsewhere(y, g, l, m, ch)
    PROVE  Right(y, g, l, ch, o, size, b, n)
<1>1. /\ ch \in Seq(1..Len(m)) /\ Len(ch) \in Nat
      /\ \A i, j \in 1..Len(ch) : ch[i] = ch[j] => i = j
  <2>1. ch \in Seq(1..Len(m)) /\ \A i, j \in 1..Len(ch) : ch[i] = ch[j] => i = j
      BY DEF Right, ChunksOk
  <2> QED
      BY ONLY <2>1, LenProperties
<1>2. ch \in Seq(1..Len(l))
  <2>1. PICK S : S = 1..Len(l)
      OBVIOUS
  <2>2. \A i \in 1..Len(ch) : ch[i] \in S
      BY ONLY <2>1, Elsewhere(y, g, l, m, ch) DEF Elsewhere
  <2>3. DOMAIN ch = 1..Len(ch) /\ ch = [i \in 1..Len(ch) |-> ch[i]]
      BY ONLY <1>1
  <2>4. ch \in Seq(S)
      BY ONLY <1>1, <2>2, <2>3
  <2> QED
      BY ONLY <2>1, <2>4
<1>3. ChunksOk(y, g, l, ch)
    BY ONLY <1>1, <1>2, Elsewhere(y, g, l, m, ch) DEF ChunksOk, Elsewhere
<1>4. BytesOk(y, l, ch, o, b, n)
  <2>1. BytesOk(z, m, ch, o, b, n) /\ BatchOk(ch, size, b) /\ BufferOk(ch, o, size)
      BY DEF Right
  <2>2. ASSUME NEW i \in 1..Len(b) PROVE Byte(l, y.c, b[i]) = <<y.c, y.r + i>>
    <3>1. Byte(m, z.c, b[i]) = <<z.c, z.r + i>>
        BY ONLY <2>1, i \in 1..Len(b) DEF BytesOk
    <3>2. b[i][1] # 0 => l[b[i][1]] = m[b[i][1]]
      <4>1. b[i][1] # 0 => \E j \in 1..Len(ch) : b[i][1] = ch[j]
          BY ONLY <2>1, i \in 1..Len(b) DEF BatchOk
      <4>2. \A j \in 1..Len(ch) : l[ch[j]] = m[ch[j]]
          BY ONLY Elsewhere(y, g, l, m, ch) DEF Elsewhere
      <4> QED
          BY ONLY <4>1, <4>2
    <3>3. Byte(l, y.c, b[i]) = Byte(m, z.c, b[i])
        BY ONLY <3>2, y.c = z.c DEF Byte
    <3> QED
        BY ONLY <3>1, <3>3, y.c = z.c, y.r = z.r
  <2>3. ASSUME NEW i \in 1..o PROVE l[ch[Len(ch)]][i] = <<y.c, y.r + Len(b) + i>>
    <3>1. Len(ch) # 0
        BY ONLY <2>1, i \in 1..o, Sizes DEF BufferOk
    <3>2. Len(ch) \in 1..Len(ch)
        BY ONLY <1>1, <3>1
    <3>3. l[ch[Len(ch)]] = m[ch[Len(ch)]]
        BY ONLY <3>2, Elsewhere(y, g, l, m, ch) DEF Elsewhere
    <3>4. m[ch[Len(ch)]][i] = <<z.c, z.r + Len(b) + i>>
        BY ONLY <2>1, i \in 1..o DEF BytesOk
    <3> QED
        BY ONLY <3>3, <3>4, y.c = z.c, y.r = z.r
  <2>4. n = y.r + Len(b) + o
      BY ONLY <2>1, y.r = z.r DEF BytesOk
  <2> QED
      BY ONLY <2>2, <2>3, <2>4 DEF BytesOk
<1> QED
    BY <1>3, <1>4 DEF Right

\* Chunks of two connections.
LEMMA InOthers ==
    ASSUME NEW c \in Conn
    PROVE  /\ \A d \in Conn \ {c} : ToSet(ctx[d].chunks) \subseteq Others(c)
           /\ \A y \in Others(c) : \E d \in Conn \ {c} : y \in ToSet(ctx[d].chunks)
BY DEF Others

\* The members of a sequence.
LEMMA ToSetIs ==
    ASSUME NEW S, NEW s \in Seq(S)
    PROVE  /\ \A i \in 1..Len(s) : s[i] \in ToSet(s)
           /\ \A y \in ToSet(s) : \E i \in 1..Len(s) : s[i] = y
BY DEF ToSet

\* When the chunks of the others stay, so does what a frame says of them.
LEMMA OthersStay ==
    ASSUME NEW c \in Conn, \A d \in Conn \ {c} : ctx'[d].chunks = ctx[d].chunks
    PROVE  Others(c)' = Others(c)
BY DEF Others

\* How a context is sound, in its parts.
LEMMA SoundHas ==
    ASSUME NEW c \in Conn, Sound(c)
    PROVE  LET ch == ctx[c].chunks
           IN /\ memory \in Seq(Bytes) /\ free \in Seq(1..Len(memory)) /\ ch \in Seq(1..Len(memory))
              /\ \A i, j \in 1..Len(free) : free[i] = free[j] => i = j
              /\ \A i, j \in 1..Len(ch) : ch[i] = ch[j] => i = j
              /\ \A i \in 1..Len(free), j \in 1..Len(ch) : free[i] # ch[j]
              /\ \A y \in Others(c) : /\ y \in 1..Len(memory)
                                      /\ \A i \in 1..Len(free) : free[i] # y
                                      /\ \A i \in 1..Len(ch) : ch[i] # y
<1>1. ChunksOk(Frame(c), free, memory, ctx[c].chunks) /\ Frame(c).others = Others(c)
    BY FrameHas DEF Sound, Right
<1> QED
    BY ONLY <1>1 DEF ChunksOk

\* What a write on c leaves.
LEMMA PrintsKeeps ==
    ASSUME OutputInv, NEW c \in Conn, NEW n \in Nat, NEW w, Writing(Frame(c), w),
           w.n = written[c] + n, Prints(c, n, w)
    PROVE  OutputInv'
<1>1. OutputTypeOK /\ Sound(c) /\ Honest(c) /\ \A d \in Conn : Sound(d) /\ Honest(d)
    BY DEF OutputInv
<1>2. /\ DOMAIN ctx = Conn /\ written \in [Conn -> Nat] /\ received \in [Conn -> Seq(Conn \X Nat)]
      /\ written[c] \in Nat
    BY <1>1 DEF OutputTypeOK
<1>3. /\ ctx[c].open /\ ~ctx[c].eof /\ free' = w.free /\ memory' = w.memory
      /\ ctx' = [ctx EXCEPT ![c] = w.x] /\ written' = [written EXCEPT ![c] = @ + n]
      /\ received' = received
    BY DEF Prints
<1>4. DOMAIN ctx' = Conn /\ ctx'[c] = w.x /\ \A d \in Conn \ {c} : ctx'[d] = ctx[d]
    BY ONLY <1>2, <1>3
<1>5. /\ written' \in [Conn -> Nat] /\ written'[c] = w.n
      /\ \A d \in Conn \ {c} : written'[d] = written[d]
    BY ONLY <1>2, <1>3, n \in Nat, c \in Conn, w.n = written[c] + n
<1>6. OutputTypeOK'
    BY ONLY <1>2, <1>3, <1>4, <1>5 DEF OutputTypeOK
<1>7. PICK z : z = Frame(c)
    OBVIOUS
<1>8. /\ z.c = c /\ z.r = Len(received[c]) /\ z.others = Others(c) /\ z.x = ctx[c]
    BY ONLY <1>7, FrameHas, c \in Conn
<1>9. RightWork(z, w) /\ (w.x.size # 0 => w.x.offset < w.x.size)
    BY <1>7 DEF Writing, Room
<1>10. /\ SameFlags(w.x, z.x)
       /\ Right(z, w.free, w.memory, w.x.chunks, w.x.offset, w.x.size, w.x.batch, w.n)
    BY ONLY <1>9 DEF RightWork
<1>11. /\ w.memory \in Seq(Bytes) /\ w.free \in Seq(1..Len(w.memory))
       /\ w.x.chunks \in Seq(1..Len(w.memory))
       /\ \A i, j \in 1..Len(w.free) : w.free[i] = w.free[j] => i = j
       /\ \A i \in 1..Len(w.free), j \in 1..Len(w.x.chunks) : w.free[i] # w.x.chunks[j]
       /\ \A y \in Others(c) : /\ y \in 1..Len(w.memory) /\ w.memory[y] = memory[y]
                               /\ \A i \in 1..Len(w.free) : w.free[i] # y
                               /\ \A i \in 1..Len(w.x.chunks) : w.x.chunks[i] # y
  <2>1. z.memory = memory
      BY ONLY <1>7, FrameHas, c \in Conn
  <2>2. ChunksOk(z, w.free, w.memory, w.x.chunks)
      BY ONLY <1>10 DEF Right
  <2> QED
      BY ONLY <1>8, <2>1, <2>2 DEF ChunksOk
<1>12. Sound(c)'
  <2>1. Others(c)' = Others(c)
      BY ONLY <1>4, c \in Conn, OthersStay
  <2>2. PICK y : y = Frame(c)'
      OBVIOUS
  <2>3. y.c = z.c /\ y.r = z.r /\ y.others = z.others /\ y.memory = w.memory
    <3>1. y = [c |-> c, r |-> Len(received'[c]), memory |-> memory', others |-> Others(c)', x |-> ctx'[c]]
        BY ONLY <2>2, Zenon DEF Frame
    <3> QED
        BY ONLY <1>3, <1>8, <2>1, <3>1
  <2>4. Right(y, w.free, w.memory, w.x.chunks, w.x.offset, w.x.size, w.x.batch, w.n)
    <3>1. PICK f, m, ch, o, s, b, k :
              /\ f = w.free /\ m = w.memory /\ ch = w.x.chunks /\ o = w.x.offset
              /\ s = w.x.size /\ b = w.x.batch /\ k = w.n
        OBVIOUS
    <3>2. Right(z, f, m, ch, o, s, b, k) /\ y.memory = m
        BY ONLY <1>10, <2>3, <3>1, Zenon
    <3>3. Right(y, f, m, ch, o, s, b, k)
        BY ONLY <2>3, <3>2, RightFrame, Zenon
    <3> QED
        BY ONLY <3>1, <3>3, Zenon
  <2>5. Right(y, free', memory', ctx'[c].chunks, ctx'[c].offset, ctx'[c].size, ctx'[c].batch, written'[c])
      BY ONLY <1>3, <1>4, <1>5, <2>4, Zenon
  <2>6. DOMAIN ctx'[c] = Fields
      BY ONLY <1>4, <1>10 DEF SameFlags
  <2> QED
      BY ONLY <1>4, <1>9, <2>2, <2>5, <2>6, Zenon DEF Sound
<1>13. ASSUME NEW d \in Conn \ {c} PROVE Sound(d)'
  <2>1. Sound(d) /\ d \in Conn /\ c \in Conn \ {d}
      BY ONLY <1>1, c \in Conn, d \in Conn \ {c}
  <2>2. PICK ch : ch = ctx[d].chunks
      OBVIOUS
  <2>3. /\ ch \in Seq(1..Len(memory)) /\ \A i, j \in 1..Len(ch) : ch[i] = ch[j] => i = j
        /\ \A y \in Others(d) : \A i \in 1..Len(ch) : ch[i] # y
      BY ONLY <2>1, <2>2, SoundHas, Zenon
  <2>4. \A i \in 1..Len(ch) : ch[i] \in Others(c)
    <3>1. ToSet(ch) \subseteq Others(c)
        BY ONLY <2>2, InOthers, c \in Conn, d \in Conn \ {c}
    <3> QED
        BY ONLY <2>3, <3>1 DEF ToSet
  <2>5. PICK z2, y : z2 = Frame(d) /\ y = Frame(d)'
      OBVIOUS
  <2>6. y.c = z2.c /\ y.r = z2.r /\ y.memory = w.memory /\ y.others = Others(d)'
    <3>1. z2.c = d /\ z2.r = Len(received[d])
        BY ONLY <2>1, <2>5, FrameHas
    <3>2. y = [c |-> d, r |-> Len(received'[d]), memory |-> memory', others |-> Others(d)', x |-> ctx'[d]]
        BY ONLY <2>5, Zenon DEF Frame
    <3> QED
        BY ONLY <1>3, <3>1, <3>2
  <2>7. ASSUME NEW p \in Others(d)'
        PROVE  /\ p \in 1..Len(w.memory)
               /\ \A i \in 1..Len(w.free) : w.free[i] # p
               /\ \A i \in 1..Len(ch) : ch[i] # p
    <3>1. PICK e \in Conn \ {d} : p \in ToSet(ctx'[e].chunks)
        BY ONLY p \in Others(d)', Zenon DEF Others
    <3>2. CASE e = c
      <4>1. PICK j \in 1..Len(w.x.chunks) : w.x.chunks[j] = p
        <5>1. PICK S, q : S = 1..Len(w.memory) /\ q = w.x.chunks
            OBVIOUS
        <5>2. q \in Seq(S) /\ p \in ToSet(q)
            BY ONLY <1>4, <1>11, <3>1, <3>2, <5>1
        <5>3. \E j \in 1..Len(q) : q[j] = p
            BY ONLY <5>2, ToSetIs, Zenon
        <5> QED
            BY ONLY <5>1, <5>3
      <4>2. w.x.chunks[j] \in 1..Len(w.memory)
          BY ONLY <1>11, j \in 1..Len(w.x.chunks), ElementOfSeq
      <4>3. \A i \in 1..Len(ch) : ch[i] # w.x.chunks[j]
          BY ONLY <1>11, <2>4, j \in 1..Len(w.x.chunks), Zenon
      <4>4. \A i \in 1..Len(w.free) : w.free[i] # w.x.chunks[j]
          BY ONLY <1>11, j \in 1..Len(w.x.chunks), Zenon
      <4> QED
          BY ONLY <4>1, <4>2, <4>3, <4>4
    <3>3. CASE e # c
      <4>1. p \in ToSet(ctx[e].chunks)
          BY ONLY <1>4, <3>1, <3>3
      <4>2. p \in Others(c) /\ p \in Others(d)
          BY ONLY <2>1, <3>3, <4>1, InOthers, c \in Conn, d \in Conn \ {c}, e \in Conn \ {d}
      <4> QED
          BY ONLY <1>11, <2>3, <4>2, Zenon
    <3> QED
        BY ONLY <3>2, <3>3
  <2>8. PICK o, s, b, k, f, m, g, l :
            /\ o = ctx[d].offset /\ s = ctx[d].size /\ b = ctx[d].batch /\ k = written[d]
            /\ f = free /\ m = memory /\ g = w.free /\ l = w.memory
      OBVIOUS
  <2>9. Right(z2, f, m, ch, o, s, b, k)
      BY ONLY <2>1, <2>2, <2>5, <2>8, Zenon DEF Sound
  <2>10. Right(y, g, l, ch, o, s, b, k)
    <3>1. l \in Seq(Bytes) /\ g \in Seq(1..Len(l)) /\ \A i, j \in 1..Len(g) : g[i] = g[j] => i = j
        BY ONLY <1>11, <2>8, Zenon
    <3>2. /\ \A i \in 1..Len(ch) : ch[i] \in 1..Len(l) /\ l[ch[i]] = m[ch[i]]
          /\ \A i \in 1..Len(g), j \in 1..Len(ch) : g[i] # ch[j]
        BY ONLY <1>11, <2>4, <2>8, Zenon
    <3>3. /\ y.c = z2.c /\ y.r = z2.r /\ y.memory = l
          /\ \A p \in y.others : /\ p \in 1..Len(l)
                                 /\ \A i \in 1..Len(g) : g[i] # p
                                 /\ \A i \in 1..Len(ch) : ch[i] # p
        BY ONLY <2>6, <2>7, <2>8
    <3>4. y.c = z2.c /\ y.r = z2.r /\ Elsewhere(y, g, l, m, ch)
        BY ONLY <3>1, <3>2, <3>3, Zenon DEF Elsewhere
    <3> QED
        BY ONLY <2>9, <3>4, RightElsewhere, Zenon
  <2>11. ctx'[d] = ctx[d] /\ written'[d] = written[d]
      BY ONLY <1>4, <1>5, d \in Conn \ {c}
  <2>12. Right(y, free', memory', ctx'[d].chunks, ctx'[d].offset, ctx'[d].size, ctx'[d].batch, written'[d])
      BY ONLY <1>3, <2>2, <2>8, <2>10, <2>11, Zenon
  <2> QED
      BY ONLY <2>1, <2>5, <2>11, <2>12, Zenon DEF Sound
<1>14. Honest(c)'
  <2>1. ctx'[c].open /\ ~ctx'[c].eof
      BY ONLY <1>3, <1>4, <1>8, <1>10 DEF SameFlags
  <2>2. \A i \in 1..Len(received'[c]) : received'[c][i] = <<c, i>>
      BY ONLY <1>1, <1>3, Zenon DEF Honest
  <2> QED
      BY ONLY <2>1, <2>2, Zenon DEF Honest
<1>15. ASSUME NEW d \in Conn \ {c} PROVE Honest(d)'
  <2>1. ctx'[d] = ctx[d] /\ written'[d] = written[d] /\ received'[d] = received[d] /\ Honest(d)
      BY ONLY <1>1, <1>3, <1>4, <1>5, d \in Conn \ {c}
  <2> QED
      BY ONLY <2>1, Zenon DEF Honest
<1> QED
    BY ONLY <1>6, <1>12, <1>13, <1>14, <1>15 DEF OutputInv

\* iob_send has sent the first k bytes of the batch.
LEMMA RightSent ==
    ASSUME NEW z, z.r \in Nat, NEW f, NEW m, NEW ch, NEW b, NEW n, Right(z, f, m, ch, 0, 0, b, n),
           NEW k \in 0..Len(b), NEW b2, b2 = SubSeq(b, k + 1, Len(b)),
           NEW y, y.c = z.c, y.r = z.r + k, y.others = z.others, y.memory = z.memory
    PROVE  Right(y, f, m, ch, 0, 0, b2, n)
<1>1. b \in Seq(Place) /\ Len(b) \in Nat /\ n = z.r + Len(b) + 0
  <2>1. b \in Seq(Place) /\ n = z.r + Len(b) + 0
      BY DEF Right, BatchOk, BytesOk
  <2> QED
      BY ONLY <2>1, LenProperties
<1>2. Piece(b2, b, k, Len(b), Place)
  <2>1. Len(b) \in k..Len(b)
      BY ONLY <1>1, k \in 0..Len(b)
  <2> QED
      BY ONLY <1>1, <2>1, b2 = SubSeq(b, k + 1, Len(b)), k \in 0..Len(b), PieceIs, Zenon
<1>3. /\ b2 \in Seq(Place) /\ Len(b2) = Len(b) - k
      /\ \A i \in 1..Len(b2) : b2[i] = b[k + i] /\ k + i \in 1..Len(b)
    BY ONLY <1>1, <1>2, k \in 0..Len(b) DEF Piece
<1>4. BatchOk(ch, 0, b2)
  <2>1. BatchOk(ch, 0, b)
      BY DEF Right
  <2>2. ASSUME NEW i \in 1..Len(b2), b2[i][1] # 0
        PROVE  /\ \E j \in 1..Len(ch) : b2[i][1] = ch[j]
               /\ b2[i][2] \in 1..ChunkSize
    <3>1. b2[i] = b[k + i] /\ k + i \in 1..Len(b)
        BY ONLY <1>3, i \in 1..Len(b2)
    <3>2. b[k + i][1] # 0
        BY ONLY <2>2, <3>1
    <3>3. (\E j \in 1..Len(ch) : b[k + i][1] = ch[j]) /\ b[k + i][2] \in 1..ChunkSize
        BY ONLY <2>1, <3>1, <3>2 DEF BatchOk
    <3> QED
        BY ONLY <3>1, <3>3
  <2> QED
      BY ONLY <1>3, <2>2 DEF BatchOk
<1>5. BytesOk(y, m, ch, 0, b2, n)
  <2>1. BytesOk(z, m, ch, 0, b, n)
      BY DEF Right
  <2>2. ASSUME NEW i \in 1..Len(b2) PROVE Byte(m, y.c, b2[i]) = <<y.c, y.r + i>>
    <3>1. Byte(m, z.c, b[k + i]) = <<z.c, z.r + (k + i)>>
        BY ONLY <1>3, <2>1, i \in 1..Len(b2) DEF BytesOk
    <3>2. z.r + (k + i) = y.r + i
        BY ONLY <1>1, <1>3, z.r \in Nat, y.r = z.r + k, k \in 0..Len(b), i \in 1..Len(b2)
    <3> QED
        BY ONLY <1>3, <3>1, <3>2, y.c = z.c, i \in 1..Len(b2)
  <2>3. n = y.r + Len(b2) + 0
      BY ONLY <1>1, <1>3, z.r \in Nat, y.r = z.r + k, k \in 0..Len(b)
  <2> QED
      BY ONLY <2>2, <2>3, Sizes DEF BytesOk
<1>6. ChunksOk(y, f, m, ch)
  <2>1. ChunksOk(z, f, m, ch)
      BY DEF Right
  <2> QED
      BY ONLY <2>1, y.others = z.others, y.memory = z.memory DEF ChunksOk
<1>7. BufferOk(ch, 0, 0)
    BY DEF Right
<1> QED
    BY ONLY <1>4, <1>5, <1>6, <1>7 DEF Right

\* A context that was sound still is when it and all that it shares stay.
LEMMA SoundStays ==
    ASSUME NEW d \in Conn, Sound(d), free' = free, memory' = memory, ctx'[d] = ctx[d],
           written'[d] = written[d], received'[d] = received[d], Others(d)' = Others(d)
    PROVE  Sound(d)'
<1>1. Frame(d)' = Frame(d)
    BY Zenon DEF Frame
<1> QED
    BY <1>1, Zenon DEF Sound

LEMMA HonestStays ==
    ASSUME NEW d \in Conn, Honest(d), ctx'[d] = ctx[d],
           written'[d] = written[d], received'[d] = received[d]
    PROVE  Honest(d)'
BY Zenon DEF Honest

\* context_flush, for the context x of c that may just have been ended.
LEMMA FlushKeeps ==
    ASSUME OutputInv, NEW c \in Conn, NEW x, DOMAIN x = Fields, x.open, ctx[c].open,
           x.chunks = ctx[c].chunks, x.offset = ctx[c].offset, x.size = ctx[c].size,
           x.batch = ctx[c].batch, NEW k \in Nat, NEW failing \in BOOLEAN, Flush(c, x, k, failing)
    PROVE  OutputInv'
<1>1. OutputTypeOK /\ Sound(c) /\ Honest(c) /\ \A d \in Conn : Sound(d) /\ Honest(d)
    BY DEF OutputInv
<1>2. /\ DOMAIN ctx = Conn /\ written \in [Conn -> Nat] /\ received \in [Conn -> Seq(Conn \X Nat)]
      /\ received[c] \in Seq(Conn \X Nat)
    BY <1>1 DEF OutputTypeOK
<1>3. PICK y, t, b, v :
          /\ y = Batched(x) /\ t = [i \in 1..k |-> Byte(memory, c, y.batch[i])]
          /\ b = SubSeq(y.batch, k + 1, Len(y.batch))
          /\ v = [y EXCEPT !.batch = b, !.error = failing,
                           !.wantwrite = ~failing /\ ~(k = Len(y.batch) /\ y.eof)]
    OBVIOUS
<1>4. /\ k <= Len(y.batch) /\ received' = [received EXCEPT ![c] = @ \o t]
      /\ ctx' = [ctx EXCEPT ![c] = v] /\ free' = free /\ memory' = memory /\ written' = written
    BY ONLY <1>3, Flush(c, x, k, failing), Zenon DEF Flush
<1>5. PICK z, w : /\ z = [c |-> c, r |-> Len(received[c]), memory |-> memory, others |-> Others(c), x |-> x]
                  /\ w = [free |-> free, memory |-> memory, c |-> c, x |-> x, n |-> written[c]]
    OBVIOUS
<1>6. /\ z.c = c /\ z.r = Len(received[c]) /\ z.memory = memory /\ z.others = Others(c) /\ z.x = x
      /\ DOMAIN w = WorkFields /\ w.free = free /\ w.memory = memory /\ w.c = c /\ w.x = x
      /\ w.n = written[c]
    BY ONLY <1>5 DEF WorkFields
<1>7. IsFrame(z) /\ z.r \in Nat
    BY ONLY <1>1, <1>6, FrameIsFrame, c \in Conn DEF IsFrame
<1>8. RightWork(z, w)
  <2>1. PICK u : u = Frame(c)
      OBVIOUS
  <2>2. u.c = c /\ u.r = z.r /\ u.memory = memory /\ u.others = Others(c)
      BY ONLY <1>6, <2>1, FrameHas, c \in Conn
  <2>3. PICK f, m, ch, o, s, d, n :
            /\ f = free /\ m = memory /\ ch = x.chunks /\ o = x.offset
            /\ s = x.size /\ d = x.batch /\ n = written[c]
      OBVIOUS
  <2>4. Right(u, f, m, ch, o, s, d, n)
    <3>1. /\ ch = ctx[c].chunks /\ o = ctx[c].offset /\ s = ctx[c].size /\ d = ctx[c].batch
        BY ONLY <2>3, x.chunks = ctx[c].chunks, x.offset = ctx[c].offset, x.size = ctx[c].size,
                x.batch = ctx[c].batch
    <3> QED
        BY ONLY <1>1, <2>1, <2>3, <3>1, Zenon DEF Sound
  <2>5. z.c = u.c /\ z.r = u.r /\ z.others = u.others /\ z.memory = m
      BY ONLY <1>6, <2>2, <2>3
  <2>6. Right(z, f, m, ch, o, s, d, n)
      BY ONLY <2>4, <2>5, RightFrame, Zenon
  <2>7. SameFlags(w.x, z.x)
      BY ONLY <1>6, DOMAIN x = Fields DEF SameFlags
  <2>8. Right(z, w.free, w.memory, w.x.chunks, w.x.offset, w.x.size, w.x.batch, w.n)
      BY ONLY <1>6, <2>3, <2>6, Zenon
  <2> QED
      BY ONLY <1>6, <2>7, <2>8 DEF RightWork
<1>9. /\ SameFlags(y, x) /\ y.chunks = x.chunks /\ y.offset = 0 /\ y.size = 0
      /\ Right(z, free, memory, y.chunks, 0, 0, y.batch, written[c])
  <2>1. y = Batched(w.x)
      BY ONLY <1>3, <1>6
  <2>2. /\ SameFlags(y, z.x) /\ y.chunks = w.x.chunks
        /\ y.offset = 0 /\ y.size = 0 /\ Len(y.batch) = Len(w.x.batch) + w.x.offset
        /\ Right(z, w.free, w.memory, y.chunks, 0, 0, y.batch, w.n)
      BY ONLY <1>7, <1>8, <2>1, BatchedKeeps, Zenon
  <2>3. z.x = x /\ w.x = x /\ w.free = free /\ w.memory = memory /\ w.n = written[c]
      BY ONLY <1>6
  <2>4. Right(z, free, memory, y.chunks, 0, 0, y.batch, written[c])
      BY ONLY <2>2, <2>3, Zenon
  <2>5. SameFlags(y, x) /\ y.chunks = x.chunks
      BY ONLY <2>2, <2>3, Zenon
  <2> QED
      BY ONLY <2>2, <2>4, <2>5, Zenon
<1>10. /\ DOMAIN v = Fields /\ v.batch = b /\ v.error = failing
       /\ v.wantwrite = (~failing /\ ~(k = Len(y.batch) /\ y.eof))
       /\ v.chunks = x.chunks /\ v.offset = 0 /\ v.size = 0 /\ v.open = x.open /\ v.eof = x.eof
  <2>1. DOMAIN y = Fields /\ y.open = x.open /\ y.eof = x.eof
      BY ONLY <1>9 DEF SameFlags
  <2> QED
      BY ONLY <1>3, <1>9, <2>1 DEF Fields
<1>11. /\ DOMAIN ctx' = Conn /\ ctx'[c] = v /\ \A d \in Conn \ {c} : ctx'[d] = ctx[d]
       /\ received'[c] = received[c] \o t /\ \A d \in Conn \ {c} : received'[d] = received[d]
    BY ONLY <1>2, <1>4, c \in Conn
<1>12. /\ y.batch \in Seq(Place) /\ Len(y.batch) \in Nat /\ k \in 0..Len(y.batch)
       /\ \A i \in 1..Len(y.batch) : Byte(memory, c, y.batch[i]) = <<c, z.r + i>>
  <2>1. y.batch \in Seq(Place) /\ \A i \in 1..Len(y.batch) : Byte(memory, c, y.batch[i]) = <<c, z.r + i>>
      BY ONLY <1>6, <1>9 DEF Right, BatchOk, BytesOk
  <2>2. Len(y.batch) \in Nat
      BY ONLY <2>1, LenProperties
  <2> QED
      BY ONLY <1>4, <2>1, <2>2, k \in Nat
<1>13. \A i \in 1..k : t[i] = <<c, z.r + i>>
    BY ONLY <1>3, <1>12
<1>14. Joined(received'[c], received[c], k, t, Conn \X Nat)
  <2>1. t \in [1..k -> Conn \X Nat]
    <3>1. \A i \in 1..k : <<c, z.r + i>> \in Conn \X Nat
        BY ONLY <1>7, c \in Conn, k \in Nat
    <3>2. DOMAIN t = 1..k /\ t = [i \in 1..k |-> t[i]]
        BY ONLY <1>3
    <3> QED
        BY ONLY <1>13, <3>1, <3>2
  <2>2. PICK S, s, u : S = Conn \X Nat /\ s = received[c] /\ u = received'[c]
      OBVIOUS
  <2>3. s \in Seq(S) /\ t \in [1..k -> S] /\ u = s \o t
      BY ONLY <1>2, <1>11, <2>1, <2>2, Zenon
  <2>4. Joined(u, s, k, t, S)
      BY ONLY <2>3, k \in Nat, ConcatIs
  <2> QED
      BY ONLY <2>2, <2>4, Zenon
<1>15. received'[c] \in Seq(Conn \X Nat) /\ Len(received'[c]) = z.r + k
    BY ONLY <1>6, <1>14 DEF Joined
<1>16. OutputTypeOK'
  <2>1. received' \in [Conn -> Seq(Conn \X Nat)]
    <3>1. PICK S : S = Seq(Conn \X Nat)
        OBVIOUS
    <3>2. received \in [Conn -> S] /\ received[c] \o t \in S
        BY ONLY <1>2, <1>11, <1>15, <3>1
    <3> QED
        BY ONLY <1>4, <3>1, <3>2
  <2> QED
      BY ONLY <1>2, <1>4, <1>11, <2>1 DEF OutputTypeOK
<1>17. Others(c)' = Others(c)
    BY ONLY <1>11, OthersStay, c \in Conn
<1>18. Sound(c)'
  <2>1. PICK u : u = Frame(c)'
      OBVIOUS
  <2>2. u.c = z.c /\ u.r = z.r + k /\ u.others = z.others /\ u.memory = z.memory
    <3>1. u = [c |-> c, r |-> Len(received'[c]), memory |-> memory', others |-> Others(c)', x |-> ctx'[c]]
        BY ONLY <2>1, Zenon DEF Frame
    <3> QED
        BY ONLY <1>4, <1>6, <1>15, <1>17, <3>1
  <2>3. Right(u, free, memory, y.chunks, 0, 0, b, written[c])
    <3>1. PICK f, m, ch, d, n : /\ f = free /\ m = memory /\ ch = y.chunks /\ d = y.batch
                                /\ n = written[c]
        OBVIOUS
    <3>2. /\ Right(z, f, m, ch, 0, 0, d, n) /\ z.r \in Nat /\ k \in 0..Len(d)
          /\ b = SubSeq(d, k + 1, Len(d))
        BY ONLY <1>3, <1>7, <1>9, <1>12, <3>1, Zenon
    <3>3. Right(u, f, m, ch, 0, 0, b, n)
        BY ONLY <2>2, <3>2, RightSent, Zenon
    <3> QED
        BY ONLY <3>1, <3>3, Zenon
  <2>4. /\ ctx'[c].chunks = y.chunks /\ ctx'[c].offset = 0 /\ ctx'[c].size = 0
        /\ ctx'[c].batch = b /\ written'[c] = written[c] /\ DOMAIN ctx'[c] = Fields
      BY ONLY <1>4, <1>9, <1>10, <1>11
  <2>5. Right(u, free', memory', ctx'[c].chunks, ctx'[c].offset, ctx'[c].size, ctx'[c].batch, written'[c])
      BY ONLY <1>4, <2>3, <2>4, Zenon
  <2> QED
      BY ONLY <2>1, <2>4, <2>5, Zenon DEF Sound
<1>19. ASSUME NEW d \in Conn \ {c} PROVE Sound(d)' /\ Honest(d)'
  <2>1. /\ ctx'[d] = ctx[d] /\ received'[d] = received[d] /\ written'[d] = written[d]
        /\ Sound(d) /\ Honest(d) /\ d \in Conn
      BY ONLY <1>1, <1>4, <1>11, d \in Conn \ {c}
  <2>2. Others(d)' = Others(d)
    <3>1. \A e \in Conn \ {d} : ctx'[e].chunks = ctx[e].chunks
        BY ONLY <1>10, <1>11, x.chunks = ctx[c].chunks
    <3> QED
        BY ONLY <2>1, <3>1, OthersStay
  <2> QED
      BY ONLY <1>4, <2>1, <2>2, SoundStays, HonestStays, Zenon
<1>20. Honest(c)'
  <2>1. ASSUME NEW i \in 1..Len(received'[c]) PROVE received'[c][i] = <<c, i>>
    <3>1. CASE i \in 1..Len(received[c])
      <4>1. received[c][i] = <<c, i>>
          BY ONLY <1>1, <3>1, Zenon DEF Honest
      <4> QED
          BY ONLY <1>14, <3>1, <4>1 DEF Joined
    <3>2. CASE i \notin 1..Len(received[c])
      <4>1. PICK j \in 1..k : i = Len(received[c]) + j
          BY ONLY <1>14, <3>2, i \in 1..Len(received'[c]) DEF Joined
      <4>2. received'[c][i] = t[j]
          BY ONLY <1>14, <4>1 DEF Joined
      <4> QED
          BY ONLY <1>6, <1>13, <4>1, <4>2
    <3> QED
        BY ONLY <3>1, <3>2
  <2>2. ctx'[c].offset = 0 /\ ctx'[c].open
      BY ONLY <1>10, <1>11, x.open
  <2>3. ASSUME ctx'[c].eof, ~ctx'[c].error PROVE ctx'[c].batch # <<>> <=> ctx'[c].wantwrite
    <3>1. ~failing /\ y.eof
      <4>1. y.eof = x.eof
          BY ONLY <1>9 DEF SameFlags
      <4> QED
          BY ONLY <1>10, <1>11, <2>3, <4>1
    <3>2. ctx'[c].wantwrite = ~(k = Len(y.batch))
        BY ONLY <1>10, <1>11, <3>1, Zenon
    <3>3. ctx'[c].batch = b /\ Len(b) = Len(y.batch) - k /\ b \in Seq(Place)
      <4>1. Len(y.batch) \in k..Len(y.batch)
          BY ONLY <1>12
      <4>2. PICK q : q = y.batch
          OBVIOUS
      <4>3. q \in Seq(Place) /\ k \in 0..Len(q) /\ Len(q) \in k..Len(q) /\ b = SubSeq(q, k + 1, Len(q))
          BY ONLY <1>3, <1>12, <4>1, <4>2
      <4>4. Piece(b, q, k, Len(q), Place)
          BY ONLY <4>3, PieceIs, Zenon
      <4> QED
          BY ONLY <1>10, <1>11, <4>2, <4>4 DEF Piece
    <3>4. b # <<>> <=> ~(k = Len(y.batch))
        BY ONLY <1>12, <3>3, EmptySeq
    <3> QED
        BY ONLY <3>2, <3>3, <3>4, Zenon
  <2> QED
      BY ONLY <2>1, <2>2, <2>3, Zenon DEF Honest
<1> QED
  <2>1. \A d \in Conn : Sound(d)' /\ Honest(d)'
      BY ONLY <1>18, <1>19, <1>20
  <2> QED
      BY ONLY <1>16, <2>1, Zenon DEF OutputInv

\* The sequence g has no member twice, and only those of f and ch.
Drawn(g, S, f, ch) ==
    /\ g \in Seq(S) /\ \A i, j \in 1..Len(g) : g[i] = g[j] => i = j
    /\ \A i \in 1..Len(g) : \/ \E j \in 1..Len(f) : g[i] = f[j]
                            \/ \E j \in 1..Len(ch) : g[i] = ch[j]

\* chunk_sentinel after the chunks ch were put behind f.
LEMMA GivenBackIs ==
    ASSUME NEW S, NEW f \in Seq(S), NEW ch \in Seq(S), Len(ch) # 0,
           \A i, j \in 1..Len(f) : f[i] = f[j] => i = j,
           \A i, j \in 1..Len(ch) : ch[i] = ch[j] => i = j,
           \A i \in 1..Len(f), j \in 1..Len(ch) : f[i] # ch[j],
           NEW g, g = GivenBack(f, ch)
    PROVE  Drawn(g, S, f, ch)
<1>1. Len(f) \in Nat /\ Len(ch) \in Nat
    BY LenProperties
<1>2. PICK a, e, n : a = <<ch[Len(ch)]>> /\ e = SubSeq(ch, 1, Len(ch) - 1) /\ n = Len(ch) - 1
    OBVIOUS
<1>3. n \in Nat /\ n < Len(ch) /\ Len(ch) \in 1..Len(ch) /\ Len(ch) = n + 1
    BY ONLY <1>1, <1>2, Len(ch) # 0
<1>4. e \in [1..n -> S] /\ \A i \in 1..n : e[i] = ch[i]
  <2>1. 0 \in 0..Len(ch) /\ n \in 0..Len(ch) /\ e = SubSeq(ch, 0 + 1, n)
      BY ONLY <1>1, <1>2, <1>3
  <2>2. Piece(e, ch, 0, n, S)
      BY ONLY <2>1, ch \in Seq(S), PieceIs, Zenon
  <2>3. e \in Seq(S) /\ Len(e) = n - 0 /\ \A i \in 1..n - 0 : e[i] = ch[0 + i]
      BY ONLY <2>2 DEF Piece
  <2>4. n - 0 = n /\ \A i \in 1..n : 0 + i = i
      BY ONLY <1>3
  <2> QED
      BY ONLY <2>3, <2>4
<1>5. a \in [1..1 -> S] /\ a[1] = ch[Len(ch)]
    BY ONLY <1>2, <1>3, ch \in Seq(S)
<1>6. PICK h : h = f \o a
    OBVIOUS
<1>7. Joined(h, f, 1, a, S)
    BY ONLY <1>5, <1>6, f \in Seq(S), ConcatIs
<1>8. g = h \o e
    BY ONLY <1>2, <1>6, g = GivenBack(f, ch), Zenon DEF GivenBack, Last, Front
<1>9. h \in Seq(S)
    BY ONLY <1>7 DEF Joined
<1>10. Joined(g, h, n, e, S)
    BY ONLY <1>3, <1>4, <1>8, <1>9, ConcatIs
<1>11. \A i \in 1..Len(g) : \/ i \in 1..Len(f) /\ g[i] = f[i]
                            \/ i = Len(f) + 1 /\ g[i] = ch[n + 1]
                            \/ \E j \in 1..n : i = Len(f) + 1 + j /\ g[i] = ch[j]
  <2>1. SUFFICES ASSUME NEW i \in 1..Len(g)
                 PROVE  \/ i \in 1..Len(f) /\ g[i] = f[i]
                        \/ i = Len(f) + 1 /\ g[i] = ch[n + 1]
                        \/ \E j \in 1..n : i = Len(f) + 1 + j /\ g[i] = ch[j]
      OBVIOUS
  <2>2. Len(h) = Len(f) + 1
      BY ONLY <1>7 DEF Joined
  <2>3. CASE i \in 1..Len(h)
    <3>1. g[i] = h[i]
        BY ONLY <1>10, <2>3 DEF Joined
    <3>2. CASE i \in 1..Len(f)
        BY ONLY <1>7, <3>1, <3>2 DEF Joined
    <3>3. CASE i \notin 1..Len(f)
      <4>1. i = Len(f) + 1
          BY ONLY <1>1, <2>2, <2>3, <3>3
      <4>2. h[Len(f) + 1] = a[1]
          BY ONLY <1>7 DEF Joined
      <4> QED
          BY ONLY <1>3, <1>5, <3>1, <4>1, <4>2
    <3> QED
        BY ONLY <3>2, <3>3
  <2>4. CASE i \notin 1..Len(h)
    <3>1. PICK j \in 1..n : i = Len(h) + j
        BY ONLY <1>10, <2>4, i \in 1..Len(g) DEF Joined
    <3>2. g[Len(h) + j] = e[j]
        BY ONLY <1>10 DEF Joined
    <3> QED
        BY ONLY <1>4, <2>2, <3>1, <3>2
  <2> QED
      BY ONLY <2>3, <2>4
<1>12. ASSUME NEW i \in 1..Len(g), NEW j \in 1..Len(g), g[i] = g[j] PROVE i = j
  <2>1. PICK p, q : p = g[i] /\ q = g[j]
      OBVIOUS
  <2>2. /\ n + 1 \in 1..Len(ch) /\ \A l \in 1..n : l \in 1..Len(ch) /\ l # n + 1
      BY ONLY <1>1, <1>3
  <2>3. CASE i \in 1..Len(f) /\ g[i] = f[i]
    <3>1. ~\E l \in 1..Len(ch) : g[j] = ch[l]
        BY ONLY <2>3, <1>12, \A x \in 1..Len(f), y \in 1..Len(ch) : f[x] # ch[y]
    <3>2. j \in 1..Len(f) /\ g[j] = f[j]
        BY ONLY <1>11, <2>2, <3>1, j \in 1..Len(g)
    <3> QED
        BY ONLY <1>12, <2>3, <3>2, \A x, y \in 1..Len(f) : f[x] = f[y] => x = y
  <2>4. CASE i = Len(f) + 1 /\ g[i] = ch[n + 1]
    <3>1. ~\E l \in 1..Len(f) : g[j] = f[l]
        BY ONLY <1>12, <2>2, <2>4, \A x \in 1..Len(f), y \in 1..Len(ch) : f[x] # ch[y]
    <3>2. \A l \in 1..n : g[j] # ch[l]
        BY ONLY <1>12, <2>2, <2>4, \A x, y \in 1..Len(ch) : ch[x] = ch[y] => x = y
    <3> QED
        BY ONLY <1>11, <2>4, <3>1, <3>2, j \in 1..Len(g)
  <2>5. CASE \E l \in 1..n : i = Len(f) + 1 + l /\ g[i] = ch[l]
    <3>1. PICK l \in 1..n : i = Len(f) + 1 + l /\ g[i] = ch[l]
        BY ONLY <2>5
    <3>2. ~\E x \in 1..Len(f) : g[j] = f[x]
        BY ONLY <1>12, <2>2, <3>1, \A x \in 1..Len(f), y \in 1..Len(ch) : f[x] # ch[y]
    <3>3. g[j] # ch[n + 1] /\ \A x \in 1..n : g[j] = ch[x] => x = l
        BY ONLY <1>12, <2>2, <3>1, \A x, y \in 1..Len(ch) : ch[x] = ch[y] => x = y
    <3> QED
        BY ONLY <1>11, <3>1, <3>2, <3>3, j \in 1..Len(g)
  <2> QED
      BY ONLY <1>11, <2>3, <2>4, <2>5, i \in 1..Len(g)
<1>13. \A l \in 1..n : l \in 1..Len(ch)
    BY ONLY <1>1, <1>3
<1>14. \A i \in 1..Len(g) : \/ \E j \in 1..Len(f) : g[i] = f[j]
                            \/ \E j \in 1..Len(ch) : g[i] = ch[j]
    BY ONLY <1>3, <1>11, <1>13
<1>15. g \in Seq(S)
    BY ONLY <1>10 DEF Joined
<1> QED
    BY ONLY <1>12, <1>14, <1>15 DEF Drawn

\* A context that has not been used.
LEMMA NothingPrinted ==
    ASSUME NEW z, z.r = 0, NEW f, NEW m, m \in Seq(Bytes), f \in Seq(1..Len(m)),
           \A i, j \in 1..Len(f) : f[i] = f[j] => i = j, z.memory = m,
           \A y \in z.others : y \in 1..Len(m) /\ \A i \in 1..Len(f) : f[i] # y
    PROVE  Right(z, f, m, <<>>, 0, 0, <<>>, 0)
<1>1. Len(<<>>) = 0 /\ <<>> \in Seq(1..Len(m)) /\ <<>> \in Seq(Place)
    BY ONLY EmptySeq
<1>2. ChunksOk(z, f, m, <<>>)
    BY <1>1 DEF ChunksOk
<1>3. BufferOk(<<>>, 0, 0) /\ BatchOk(<<>>, 0, <<>>)
    BY ONLY <1>1 DEF BufferOk, BatchOk
<1>4. BytesOk(z, m, <<>>, 0, <<>>, 0)
    BY ONLY <1>1, z.r = 0 DEF BytesOk
<1> QED
    BY ONLY <1>2, <1>3, <1>4 DEF Right

\* The chunks of a context, the free ones and those of the other connections, o.
Apart(o, f, m, ch) ==
    /\ m \in Seq(Bytes) /\ f \in Seq(1..Len(m)) /\ ch \in Seq(1..Len(m))
    /\ \A i, j \in 1..Len(f) : f[i] = f[j] => i = j
    /\ \A i, j \in 1..Len(ch) : ch[i] = ch[j] => i = j
    /\ \A i \in 1..Len(f), j \in 1..Len(ch) : f[i] # ch[j]
    /\ \A y \in o : /\ y \in 1..Len(m)
                    /\ \A i \in 1..Len(f) : f[i] # y
                    /\ \A i \in 1..Len(ch) : ch[i] # y

LEMMA SoundApart ==
    ASSUME NEW c \in Conn, Sound(c)
    PROVE  Apart(Others(c), free, memory, ctx[c].chunks)
BY ONLY SoundHas, c \in Conn, Sound(c) DEF Apart

LEMMA NewContextIs ==
    /\ NewContext.chunks = <<>> /\ NewContext.offset = 0 /\ NewContext.size = 0
    /\ NewContext.batch = <<>> /\ NewContext.eof = FALSE /\ DOMAIN NewContext = Fields
    /\ NewContext.open
BY DEF NewContext, Fields

LEMMA ClosedContextIs ==
    LET x == [NewContext EXCEPT !.open = FALSE]
    IN /\ x.chunks = <<>> /\ x.offset = 0 /\ x.size = 0
       /\ x.batch = <<>> /\ x.eof = FALSE /\ DOMAIN x = Fields /\ ~x.open
BY DEF NewContext, Fields

\* context_unref
LEMMA UnrefKeeps ==
    ASSUME OutputInv, NEW c \in Conn, Unref(c)
    PROVE  OutputInv'
<1>1. OutputTypeOK /\ Sound(c) /\ Honest(c) /\ \A d \in Conn : Sound(d) /\ Honest(d)
    BY DEF OutputInv
<1>2. /\ DOMAIN ctx = Conn /\ written \in [Conn -> Nat] /\ received \in [Conn -> Seq(Conn \X Nat)]
    BY <1>1 DEF OutputTypeOK
<1>3. PICK ch, x : ch = ctx[c].chunks /\ x = [NewContext EXCEPT !.open = FALSE]
    OBVIOUS
<1>4. /\ free' = IF ch = <<>> THEN free ELSE GivenBack(free, ch)
      /\ ctx' = [ctx EXCEPT ![c] = x]
      /\ memory' = [i \in DOMAIN memory |-> IF i \in ToSet(ch) THEN Unwritten ELSE memory[i]]
      /\ written' = [written EXCEPT ![c] = 0] /\ received' = [received EXCEPT ![c] = <<>>]
    BY ONLY <1>3, Unref(c), Zenon DEF Unref
<1>5. /\ x.chunks = <<>> /\ x.offset = 0 /\ x.size = 0
      /\ x.batch = <<>> /\ x.eof = FALSE /\ DOMAIN x = Fields /\ ~x.open
    BY ONLY <1>3, ClosedContextIs
<1>6. /\ DOMAIN ctx' = Conn /\ ctx'[c] = x /\ \A d \in Conn \ {c} : ctx'[d] = ctx[d]
      /\ written'[c] = 0 /\ \A d \in Conn \ {c} : written'[d] = written[d]
      /\ received'[c] = <<>> /\ \A d \in Conn \ {c} : received'[d] = received[d]
    BY ONLY <1>2, <1>4, c \in Conn
<1>7. OutputTypeOK'
  <2>1. written' \in [Conn -> Nat]
      BY ONLY <1>2, <1>4
  <2>2. received' \in [Conn -> Seq(Conn \X Nat)]
    <3>1. PICK S : S = Seq(Conn \X Nat)
        OBVIOUS
    <3>2. <<>> \in S
        BY ONLY <3>1, EmptySeq
    <3>3. received' \in [Conn -> S]
        BY ONLY <1>2, <1>4, <3>1, <3>2
    <3> QED
        BY ONLY <3>1, <3>3
  <2> QED
      BY ONLY <1>6, <2>1, <2>2 DEF OutputTypeOK
<1>8. PICK f, m, g, l : f = free /\ m = memory /\ g = free' /\ l = memory'
    OBVIOUS
<1>9. /\ m \in Seq(Bytes) /\ f \in Seq(1..Len(m)) /\ ch \in Seq(1..Len(m))
      /\ \A i, j \in 1..Len(f) : f[i] = f[j] => i = j
      /\ \A i, j \in 1..Len(ch) : ch[i] = ch[j] => i = j
      /\ \A i \in 1..Len(f), j \in 1..Len(ch) : f[i] # ch[j]
      /\ \A y \in Others(c) : /\ y \in 1..Len(m)
                              /\ \A i \in 1..Len(f) : f[i] # y
                              /\ \A i \in 1..Len(ch) : ch[i] # y
  <2>1. Apart(Others(c), free, memory, ctx[c].chunks)
      BY ONLY <1>1, SoundApart, c \in Conn, Zenon
  <2>2. Apart(Others(c), f, m, ch)
      BY ONLY <1>3, <1>8, <2>1, Zenon
  <2> QED
      BY ONLY <2>2, Zenon DEF Apart
<1>10. /\ l \in Seq(Bytes) /\ Len(l) = Len(m)
       /\ \A y \in 1..Len(m) : y \notin ToSet(ch) => l[y] = m[y]
  <2>1. Unwritten \in Bytes
      BY DEF Bytes, Unwritten, Cell
  <2>2. DOMAIN m = 1..Len(m) /\ Len(m) \in Nat /\ \A y \in 1..Len(m) : m[y] \in Bytes
    <3>1. DOMAIN m = 1..Len(m) /\ Len(m) \in Nat
        BY ONLY <1>9, LenProperties
    <3> QED
        BY ONLY <1>9, <3>1, ElementOfSeq
  <2>3. l = [i \in 1..Len(m) |-> IF i \in ToSet(ch) THEN Unwritten ELSE m[i]]
      BY ONLY <1>4, <1>8, <2>2, Zenon
  <2>4. l \in [1..Len(m) -> Bytes]
      BY ONLY <2>1, <2>2, <2>3
  <2>5. PICK S : S = Bytes
      OBVIOUS
  <2>6. l \in Seq(S) /\ Len(l) = Len(m)
      BY ONLY <2>2, <2>4, <2>5
  <2> QED
      BY ONLY <2>3, <2>5, <2>6
<1>11. /\ g \in Seq(1..Len(l)) /\ \A i, j \in 1..Len(g) : g[i] = g[j] => i = j
       /\ \A i \in 1..Len(g) : \/ \E j \in 1..Len(f) : g[i] = f[j]
                               \/ \E j \in 1..Len(ch) : g[i] = ch[j]
  <2>1. PICK S : S = 1..Len(m)
      OBVIOUS
  <2>2. f \in Seq(S) /\ ch \in Seq(S) /\ S = 1..Len(l)
      BY ONLY <1>9, <1>10, <2>1
  <2>3. CASE ch = <<>>
    <3>1. g = f
        BY ONLY <1>4, <1>8, <2>3
    <3> QED
        BY ONLY <1>9, <2>2, <3>1
  <2>4. CASE ch # <<>>
    <3>1. g = GivenBack(f, ch)
        BY ONLY <1>4, <1>8, <2>4
    <3>2. Len(ch) # 0
        BY ONLY <2>2, <2>4, EmptySeq
    <3>3. Drawn(g, S, f, ch)
      <4>1. /\ \A i, j \in 1..Len(f) : f[i] = f[j] => i = j
            /\ \A i, j \in 1..Len(ch) : ch[i] = ch[j] => i = j
            /\ \A i \in 1..Len(f), j \in 1..Len(ch) : f[i] # ch[j]
          BY ONLY <1>9, Zenon
      <4>2. f \in Seq(S) /\ ch \in Seq(S)
          BY ONLY <2>2
      <4> QED
          BY ONLY <4>2, <3>1, <3>2, <4>1, GivenBackIs, Zenon
    <3> QED
        BY ONLY <2>2, <3>3 DEF Drawn
  <2> QED
      BY ONLY <2>3, <2>4
<1>12. \A y \in Others(c) : y \in 1..Len(l) /\ \A i \in 1..Len(g) : g[i] # y
  <2>1. SUFFICES ASSUME NEW y \in Others(c)
                 PROVE  y \in 1..Len(l) /\ \A i \in 1..Len(g) : g[i] # y
      OBVIOUS
  <2>2. /\ y \in 1..Len(m) /\ \A i \in 1..Len(f) : f[i] # y
        /\ \A i \in 1..Len(ch) : ch[i] # y
      BY ONLY <1>9, y \in Others(c), Zenon
  <2>3. \A i \in 1..Len(g) : \/ \E j \in 1..Len(f) : g[i] = f[j]
                             \/ \E j \in 1..Len(ch) : g[i] = ch[j]
      BY ONLY <1>11, Zenon
  <2>4. \A i \in 1..Len(g) : g[i] # y
      BY ONLY <2>2, <2>3, Zenon
  <2> QED
      BY ONLY <1>10, <2>2, <2>4
<1>13. Sound(c)'
  <2>1. Others(c)' = Others(c)
      BY ONLY <1>6, OthersStay, c \in Conn
  <2>2. PICK y : y = Frame(c)'
      OBVIOUS
  <2>3. y.r = 0 /\ y.memory = l /\ y.others = Others(c)
    <3>1. y = [c |-> c, r |-> Len(received'[c]), memory |-> memory', others |-> Others(c)', x |-> ctx'[c]]
        BY ONLY <2>2, Zenon DEF Frame
    <3>2. Len(received'[c]) = 0
        BY ONLY <1>6, EmptySeq
    <3> QED
        BY ONLY <1>8, <2>1, <3>1, <3>2
  <2>4. Right(y, g, l, <<>>, 0, 0, <<>>, 0)
      BY ONLY <1>10, <1>11, <1>12, <2>3, NothingPrinted
  <2>5. Right(y, free', memory', ctx'[c].chunks, ctx'[c].offset, ctx'[c].size, ctx'[c].batch, written'[c])
      BY ONLY <1>5, <1>6, <1>8, <2>4, Zenon
  <2>6. DOMAIN ctx'[c] = Fields /\ ctx'[c].size = 0
      BY ONLY <1>5, <1>6
  <2> QED
      BY ONLY <2>2, <2>5, <2>6, Zenon DEF Sound
<1>14. ASSUME NEW d \in Conn \ {c} PROVE Sound(d)' /\ Honest(d)'
  <2>1. /\ ctx'[d] = ctx[d] /\ received'[d] = received[d] /\ written'[d] = written[d]
        /\ Sound(d) /\ Honest(d) /\ d \in Conn /\ c \in Conn \ {d}
      BY ONLY <1>1, <1>6, c \in Conn, d \in Conn \ {c}
  <2>2. PICK q : q = ctx[d].chunks
      OBVIOUS
  <2>3. /\ q \in Seq(1..Len(m))
        /\ \A i \in 1..Len(f), j \in 1..Len(q) : f[i] # q[j]
        /\ \A y \in Others(d) : /\ y \in 1..Len(m)
                                /\ \A i \in 1..Len(f) : f[i] # y
                                /\ \A i \in 1..Len(q) : q[i] # y
    <3>1. Apart(Others(d), free, memory, ctx[d].chunks)
        BY ONLY <2>1, SoundApart, Zenon
    <3>2. Apart(Others(d), f, m, q)
        BY ONLY <1>8, <2>2, <3>1, Zenon
    <3> QED
        BY ONLY <3>2, Zenon DEF Apart
  <2>4. \A i \in 1..Len(q) : q[i] \in Others(c)
    <3>1. ToSet(q) \subseteq Others(c)
        BY ONLY <2>2, InOthers, c \in Conn, d \in Conn \ {c}
    <3> QED
        BY ONLY <2>3, <3>1 DEF ToSet
  <2>5. ToSet(ch) \subseteq Others(d)
      BY ONLY <1>3, <2>1, InOthers
  <2>6. \A i \in 1..Len(q) : q[i] \in 1..Len(l) /\ l[q[i]] = m[q[i]]
    <3>1. \A i \in 1..Len(q) : q[i] \notin ToSet(ch) /\ q[i] \in 1..Len(m)
        BY ONLY <1>9, <2>3, <2>4, <2>5
    <3> QED
        BY ONLY <1>10, <3>1
  <2>7. \A i \in 1..Len(g), j \in 1..Len(q) : g[i] # q[j]
      BY ONLY <1>12, <2>4
  <2>8. \A p \in Others(d)' : p \in Others(d) /\ \A i \in 1..Len(ch) : ch[i] # p
    <3>1. SUFFICES ASSUME NEW p \in Others(d)' PROVE p \in Others(d) /\ \A i \in 1..Len(ch) : ch[i] # p
        OBVIOUS
    <3>2. PICK e \in Conn \ {d} : p \in ToSet(ctx'[e].chunks)
        BY ONLY p \in Others(d)', Zenon DEF Others
    <3>3. e # c
      <4>1. ToSet(<<>>) = {}
          BY DEF ToSet
      <4> QED
          BY ONLY <1>5, <1>6, <3>2, <4>1
    <3>4. p \in ToSet(ctx[e].chunks)
        BY ONLY <1>6, <3>2, <3>3
    <3>5. p \in Others(c) /\ p \in Others(d)
        BY ONLY <2>1, <3>3, <3>4, InOthers, c \in Conn, e \in Conn \ {d}
    <3> QED
        BY ONLY <1>9, <3>5, Zenon
  <2>9. \A p \in Others(d)' : /\ p \in 1..Len(l)
                              /\ \A i \in 1..Len(g) : g[i] # p
                              /\ \A i \in 1..Len(q) : q[i] # p
    <3>1. SUFFICES ASSUME NEW p \in Others(d)'
                   PROVE  /\ p \in 1..Len(l)
                          /\ \A i \in 1..Len(g) : g[i] # p
                          /\ \A i \in 1..Len(q) : q[i] # p
        BY Zenon
    <3>2. /\ p \in 1..Len(m) /\ \A i \in 1..Len(f) : f[i] # p
          /\ \A i \in 1..Len(ch) : ch[i] # p
        BY ONLY <2>3, <2>8, p \in Others(d)', Zenon
    <3>3. \A i \in 1..Len(g) : g[i] # p
      <4>1. \A i \in 1..Len(g) : \/ \E j \in 1..Len(f) : g[i] = f[j]
                                 \/ \E j \in 1..Len(ch) : g[i] = ch[j]
          BY ONLY <1>11, Zenon
      <4> QED
          BY ONLY <3>2, <4>1, Zenon
    <3>4. \A i \in 1..Len(q) : q[i] # p
        BY ONLY <2>3, <2>8, p \in Others(d)', Zenon
    <3> QED
        BY ONLY <1>10, <3>2, <3>3, <3>4
  <2>10. PICK z, y : z = Frame(d) /\ y = Frame(d)'
      OBVIOUS
  <2>11. y.c = z.c /\ y.r = z.r /\ y.memory = l /\ y.others = Others(d)'
    <3>1. z.c = d /\ z.r = Len(received[d])
        BY ONLY <2>1, <2>10, FrameHas
    <3>2. y = [c |-> d, r |-> Len(received'[d]), memory |-> memory', others |-> Others(d)', x |-> ctx'[d]]
        BY ONLY <2>10, Zenon DEF Frame
    <3> QED
        BY ONLY <1>8, <2>1, <3>1, <3>2
  <2>12. PICK o, s, b, k : /\ o = ctx[d].offset /\ s = ctx[d].size /\ b = ctx[d].batch
                           /\ k = written[d]
      OBVIOUS
  <2>13. Right(z, f, m, q, o, s, b, k)
      BY ONLY <1>8, <2>1, <2>2, <2>10, <2>12, Zenon DEF Sound
  <2>14. Right(y, g, l, q, o, s, b, k)
    <3>1. /\ l \in Seq(Bytes) /\ g \in Seq(1..Len(l)) /\ \A i, j \in 1..Len(g) : g[i] = g[j] => i = j
          /\ \A i \in 1..Len(q) : q[i] \in 1..Len(l) /\ l[q[i]] = m[q[i]]
          /\ \A i \in 1..Len(g), j \in 1..Len(q) : g[i] # q[j]
        BY ONLY <1>10, <1>11, <2>6, <2>7
    <3>2. \A p \in y.others : /\ p \in 1..Len(l)
                              /\ \A i \in 1..Len(g) : g[i] # p
                              /\ \A i \in 1..Len(q) : q[i] # p
        BY ONLY <2>9, <2>11
    <3>3. y.c = z.c /\ y.r = z.r /\ y.memory = l
        BY ONLY <2>11
    <3>4. Elsewhere(y, g, l, m, q)
        BY ONLY <3>1, <3>2, <3>3, Zenon DEF Elsewhere
    <3> QED
        BY ONLY <2>13, <3>3, <3>4, RightElsewhere, Zenon
  <2>15. Right(y, free', memory', ctx'[d].chunks, ctx'[d].offset, ctx'[d].size, ctx'[d].batch, written'[d])
      BY ONLY <1>8, <2>1, <2>2, <2>12, <2>14, Zenon
  <2>16. Sound(d)'
      BY ONLY <2>1, <2>10, <2>15, Zenon DEF Sound
  <2> QED
      BY ONLY <2>1, <2>16, HonestStays, Zenon
<1>15. Honest(c)'
  <2>1. Len(received'[c]) = 0
      BY ONLY <1>6, EmptySeq
  <2>2. \A i \in 1..Len(received'[c]) : received'[c][i] = <<c, i>>
      BY ONLY <2>1
  <2>3. ~ctx'[c].eof /\ ctx'[c] = [NewContext EXCEPT !.open = FALSE]
      BY ONLY <1>3, <1>5, <1>6
  <2> QED
      BY ONLY <1>6, <2>2, <2>3, Zenon DEF Honest
<1> QED
  <2>1. \A d \in Conn : Sound(d)' /\ Honest(d)'
      BY ONLY <1>13, <1>14, <1>15
  <2> QED
      BY ONLY <1>7, <2>1, Zenon DEF OutputInv

\* http_new
LEMMA AcceptKeeps ==
    ASSUME OutputInv, NEW c \in Conn, Accept(c)
    PROVE  OutputInv'
<1>1. OutputTypeOK /\ Sound(c) /\ Honest(c) /\ \A d \in Conn : Sound(d) /\ Honest(d)
    BY DEF OutputInv
<1>2. /\ ~ctx[c].open /\ ctx' = [ctx EXCEPT ![c] = NewContext]
      /\ free' = free /\ memory' = memory /\ written' = written /\ received' = received
    BY DEF Accept
<1>3. DOMAIN ctx = Conn
    BY <1>1 DEF OutputTypeOK
<1>4. DOMAIN ctx' = Conn /\ ctx'[c] = NewContext /\ \A d \in Conn \ {c} : ctx'[d] = ctx[d]
    BY ONLY <1>2, <1>3, c \in Conn
<1>5. ctx[c] = [NewContext EXCEPT !.open = FALSE] /\ written[c] = 0 /\ received[c] = <<>>
    BY ONLY <1>1, <1>2 DEF Honest
<1>6. /\ ctx[c].chunks = <<>> /\ ctx[c].offset = 0 /\ ctx[c].size = 0 /\ ctx[c].batch = <<>>
    BY ONLY <1>5, ClosedContextIs
<1>7. /\ ctx'[c].chunks = <<>> /\ ctx'[c].offset = 0 /\ ctx'[c].size = 0 /\ ctx'[c].batch = <<>>
      /\ ~ctx'[c].eof /\ DOMAIN ctx'[c] = Fields /\ ctx'[c].open
    BY ONLY <1>4, NewContextIs
<1>8. OutputTypeOK'
    BY ONLY <1>1, <1>2, <1>4 DEF OutputTypeOK
<1>9. \A d \in Conn : Others(d)' = Others(d)
    BY ONLY <1>4, <1>6, <1>7, OthersStay
<1>10. ASSUME NEW d \in Conn \ {c} PROVE Sound(d)' /\ Honest(d)'
  <2>1. ctx'[d] = ctx[d] /\ Sound(d) /\ Honest(d) /\ d \in Conn /\ Others(d)' = Others(d)
      BY ONLY <1>1, <1>4, <1>9, d \in Conn \ {c}
  <2> QED
      BY ONLY <1>2, <2>1, SoundStays, HonestStays, Zenon
<1>11. Sound(c)'
  <2>1. PICK z, y : z = Frame(c) /\ y = Frame(c)'
      OBVIOUS
  <2>2. y.c = z.c /\ y.r = z.r /\ y.others = z.others /\ y.memory = memory
    <3>1. y = [c |-> c, r |-> Len(received'[c]), memory |-> memory', others |-> Others(c)', x |-> ctx'[c]]
        BY ONLY <2>1, Zenon DEF Frame
    <3>2. z = [c |-> c, r |-> Len(received[c]), memory |-> memory, others |-> Others(c), x |-> ctx[c]]
        BY ONLY <2>1, Zenon DEF Frame
    <3> QED
        BY ONLY <1>2, <1>9, <3>1, <3>2, c \in Conn
  <2>3. Right(z, free, memory, <<>>, 0, 0, <<>>, written[c])
      BY ONLY <1>1, <1>6, <2>1, Zenon DEF Sound
  <2>4. Right(y, free, memory, <<>>, 0, 0, <<>>, written[c])
    <3>1. PICK f, m, e, o, n : f = free /\ m = memory /\ e = <<>> /\ o = 0 /\ n = written[c]
        OBVIOUS
    <3>2. Right(z, f, m, e, o, o, e, n) /\ y.memory = m
        BY ONLY <2>2, <2>3, <3>1, Zenon
    <3>3. Right(y, f, m, e, o, o, e, n)
        BY ONLY <2>2, <3>2, RightFrame, Zenon
    <3> QED
        BY ONLY <3>1, <3>3, Zenon
  <2>5. Right(y, free', memory', ctx'[c].chunks, ctx'[c].offset, ctx'[c].size, ctx'[c].batch, written'[c])
      BY ONLY <1>2, <1>7, <2>4, Zenon
  <2> QED
      BY ONLY <1>7, <2>1, <2>5, Zenon DEF Sound
<1>12. Honest(c)'
  <2>1. \A i \in 1..Len(received'[c]) : received'[c][i] = <<c, i>>
      BY ONLY <1>1, <1>2, Zenon DEF Honest
  <2> QED
      BY ONLY <1>7, <2>1, Zenon DEF Honest
<1> QED
  <2>1. \A d \in Conn : Sound(d)' /\ Honest(d)'
      BY ONLY <1>10, <1>11, <1>12
  <2> QED
      BY ONLY <1>8, <2>1, Zenon DEF OutputInv

LEMMA OutputInitInv == OutputInit => OutputInv
<1>1. SUFFICES ASSUME OutputInit PROVE OutputInv
    OBVIOUS
<1>2. /\ free = <<>> /\ memory = <<>> /\ ctx = [c \in Conn |-> NewContext]
      /\ written = [c \in Conn |-> 0] /\ received = [c \in Conn |-> <<>>]
    BY <1>1 DEF OutputInit
<1>3. OutputTypeOK
    BY ONLY <1>2 DEF OutputTypeOK
<1>4. ASSUME NEW c \in Conn PROVE Sound(c) /\ Honest(c)
  <2>1. /\ ctx[c].chunks = <<>> /\ ctx[c].offset = 0 /\ ctx[c].size = 0 /\ ctx[c].batch = <<>>
        /\ ~ctx[c].eof /\ DOMAIN ctx[c] = Fields /\ ctx[c].open
      BY ONLY <1>2, c \in Conn, NewContextIs
  <2>2. written[c] = 0 /\ received[c] = <<>> /\ Len(received[c]) = 0
      BY ONLY <1>2, c \in Conn, EmptySeq
  <2>3. Others(c) = {}
    <3>1. \A d \in Conn : ctx[d].chunks = <<>>
        BY ONLY <1>2, NewContextIs
    <3> QED
        BY ONLY <3>1 DEF Others, ToSet
  <2>4. PICK z : z = Frame(c)
      OBVIOUS
  <2>5. z.r = 0 /\ z.memory = memory /\ z.others = {}
      BY ONLY <2>2, <2>3, <2>4, FrameHas, c \in Conn
  <2>6. Right(z, free, memory, <<>>, 0, 0, <<>>, 0)
    <3>1. PICK f, m : f = free /\ m = memory
        OBVIOUS
    <3>2. m \in Seq(Bytes) /\ f \in Seq(1..Len(m)) /\ Len(f) = 0
        BY ONLY <1>2, <3>1, EmptySeq
    <3>3. /\ \A i, j \in 1..Len(f) : f[i] = f[j] => i = j
          /\ \A y \in z.others : y \in 1..Len(m) /\ \A i \in 1..Len(f) : f[i] # y
        BY ONLY <2>5, <3>2
    <3>4. z.r = 0 /\ z.memory = m
        BY ONLY <2>5, <3>1
    <3>5. Right(z, f, m, <<>>, 0, 0, <<>>, 0)
        BY ONLY <3>2, <3>3, <3>4, NothingPrinted, Zenon
    <3> QED
        BY ONLY <3>1, <3>5, Zenon
  <2>7. Sound(c)
      BY ONLY <2>1, <2>2, <2>4, <2>6, Zenon DEF Sound
  <2>8. \A i \in 1..Len(received[c]) : received[c][i] = <<c, i>>
      BY ONLY <2>2
  <2> QED
      BY ONLY <2>1, <2>7, <2>8, Zenon DEF Honest
<1> QED
    BY ONLY <1>3, <1>4 DEF OutputInv

\* What is printed is a number of bytes.
LEMMA WidthsPrinted ==
    ASSUME NEW widths \in Texts
    PROVE  widths \in Seq(0..Esc) /\ Width(widths) \in Nat
<1>1. PICK S, T, N : S = 1..Esc /\ T = 0..Esc /\ N = Nat
    OBVIOUS
<1>2. widths \in Seq(S) /\ S \subseteq T /\ S \subseteq N
    BY <1>1, OutputAssumption
<1>3. widths \in Seq(T) /\ widths \in Seq(N)
  <2>1. Len(widths) \in Nat /\ widths \in [1..Len(widths) -> S]
      BY ONLY <1>2, LenProperties
  <2>2. widths \in [1..Len(widths) -> T] /\ widths \in [1..Len(widths) -> N]
      BY ONLY <1>2, <2>1
  <2> QED
      BY ONLY <2>1, <2>2
<1>4. widths \in Seq(0..Esc) /\ widths \in Seq(Nat) /\ Len(widths) \in Nat
    BY ONLY <1>1, <1>3, LenProperties
<1>5. PICK f : (\A k \in 0..Len(widths) : f[k] \in Nat) /\ Width(widths) = f[Len(widths)]
    BY ONLY <1>4, Widths, Zenon
<1> QED
    BY ONLY <1>4, <1>5

\* Every step keeps the invariant.
LEMMA OutputStep ==
    ASSUME OutputInv, [OutputNext]_outputVars
    PROVE  OutputInv'
<1>1. OutputTypeOK /\ \A c \in Conn : Sound(c) /\ Honest(c)
    BY DEF OutputInv
<1>2. ASSUME NEW c \in Conn
      PROVE  /\ IsFrame(Frame(c)) /\ Writing(Frame(c), Printing(c))
             /\ Printing(c).n = written[c] /\ DOMAIN ctx[c] = Fields
  <2>1. Sound(c)
      BY ONLY <1>1
  <2>2. DOMAIN ctx[c] = Fields
      BY ONLY <2>1 DEF Sound
  <2> QED
      BY ONLY <1>1, <2>1, <2>2, FrameIsFrame, PrintingStarts, c \in Conn, Zenon
<1>3. ASSUME NEW c \in Conn, NEW length \in Lengths, Write(c, length)
      PROVE  OutputInv'
  <2>1. length \in Nat
      BY OutputAssumption
  <2>2. PICK w, v : w = Printing(c) /\ v = WriteData(w, length)
      OBVIOUS
  <2>3. Prints(c, length, v)
      BY ONLY <1>3, <2>2, Zenon DEF Write
  <2>4. PICK z : z = Frame(c)
      OBVIOUS
  <2>5. IsFrame(z) /\ Writing(z, w) /\ w.n = written[c]
      BY ONLY <1>2, <2>2, <2>4, c \in Conn, Zenon
  <2>6. Writing(z, v) /\ v.n = w.n + length
      BY ONLY <2>1, <2>2, <2>5, WriteDataKeeps, Zenon
  <2>7. Writing(Frame(c), v) /\ v.n = written[c] + length
      BY ONLY <2>4, <2>5, <2>6, Zenon
  <2> QED
      BY ONLY OutputInv, <2>1, <2>3, <2>7, PrintsKeeps, c \in Conn, Zenon
<1>4. ASSUME NEW c \in Conn, NEW length \in Lengths, WriteFile(c, length)
      PROVE  OutputInv'
  <2>1. length \in Nat
      BY OutputAssumption
  <2>2. PICK w, v : w = Printing(c) /\ v = PrintFile(w, length)
      OBVIOUS
  <2>3. Prints(c, length, v)
      BY ONLY <1>4, <2>2, Zenon DEF WriteFile
  <2>4. PICK z : z = Frame(c)
      OBVIOUS
  <2>5. IsFrame(z) /\ Writing(z, w) /\ w.n = written[c]
      BY ONLY <1>2, <2>2, <2>4, c \in Conn, Zenon
  <2>6. Writing(z, v) /\ v.n = w.n + length
      BY ONLY <2>1, <2>2, <2>5, PrintFileKeeps, Zenon
  <2>7. Writing(Frame(c), v) /\ v.n = written[c] + length
      BY ONLY <2>4, <2>5, <2>6, Zenon
  <2> QED
      BY ONLY OutputInv, <2>1, <2>3, <2>7, PrintsKeeps, c \in Conn, Zenon
<1>5. ASSUME NEW c \in Conn, NEW widths \in Texts, Escaped(c, widths)
      PROVE  OutputInv'
  <2>1. widths \in Seq(0..Esc) /\ Width(widths) \in Nat
      BY WidthsPrinted
  <2>2. PICK w, v, n : w = Printing(c) /\ v = PrintEscaped(w, widths) /\ n = Width(widths)
      OBVIOUS
  <2>3. Prints(c, n, v)
      BY ONLY <1>5, <2>2, Zenon DEF Escaped
  <2>4. PICK z : z = Frame(c)
      OBVIOUS
  <2>5. IsFrame(z) /\ Writing(z, w) /\ w.n = written[c]
      BY ONLY <1>2, <2>2, <2>4, c \in Conn, Zenon
  <2>6. Writing(z, v) /\ v.n = w.n + Width(widths)
      BY ONLY <2>1, <2>2, <2>5, PrintEscapedKeeps, Zenon
  <2>7. Writing(Frame(c), v) /\ v.n = written[c] + n /\ n \in Nat
      BY ONLY <2>1, <2>2, <2>4, <2>5, <2>6, Zenon
  <2> QED
      BY ONLY OutputInv, <2>3, <2>7, PrintsKeeps, c \in Conn, Zenon
<1>6. ASSUME NEW c \in Conn, NEW k \in 0..MaxWritten, NEW failing \in BOOLEAN,
             CanWrite(c, k, failing)
      PROVE  OutputInv'
  <2>1. k \in Nat
      BY OutputAssumption
  <2>2. PICK x : x = ctx[c]
      OBVIOUS
  <2>3. DOMAIN x = Fields /\ x.open /\ ctx[c].open /\ Flush(c, x, k, failing)
      BY ONLY <1>2, <1>6, <2>2, c \in Conn, Zenon DEF CanWrite
  <2>4. /\ x.chunks = ctx[c].chunks /\ x.offset = ctx[c].offset /\ x.size = ctx[c].size
        /\ x.batch = ctx[c].batch
      BY ONLY <2>2
  <2> QED
      BY ONLY OutputInv, <2>1, <2>3, <2>4, FlushKeeps, c \in Conn, failing \in BOOLEAN, Zenon
<1>7. ASSUME NEW c \in Conn, NEW k \in 0..MaxWritten, NEW failing \in BOOLEAN, Eof(c, k, failing)
      PROVE  OutputInv'
  <2>1. k \in Nat
      BY OutputAssumption
  <2>2. PICK x, y : y = ctx[c] /\ x = [y EXCEPT !.eof = TRUE]
      OBVIOUS
  <2>3. DOMAIN y = Fields /\ y.open /\ Flush(c, x, k, failing)
      BY ONLY <1>2, <1>7, <2>2, c \in Conn, Zenon DEF Eof
  <2>4. /\ DOMAIN x = Fields /\ x.open = y.open /\ x.chunks = y.chunks /\ x.offset = y.offset
        /\ x.size = y.size /\ x.batch = y.batch
      BY ONLY <2>2, <2>3 DEF Fields
  <2>5. /\ x.chunks = ctx[c].chunks /\ x.offset = ctx[c].offset /\ x.size = ctx[c].size
        /\ x.batch = ctx[c].batch /\ x.open /\ ctx[c].open
      BY ONLY <2>2, <2>3, <2>4
  <2> QED
      BY ONLY OutputInv, <2>1, <2>3, <2>4, <2>5, FlushKeeps, c \in Conn, failing \in BOOLEAN, Zenon
<1>8. CASE UNCHANGED outputVars
  <2>1. /\ free' = free /\ memory' = memory /\ ctx' = ctx /\ written' = written
        /\ received' = received
      BY ONLY <1>8 DEF outputVars
  <2>2. OutputTypeOK'
      BY ONLY <1>1, <2>1 DEF OutputTypeOK
  <2>3. ASSUME NEW c \in Conn PROVE Sound(c)' /\ Honest(c)'
    <3>1. /\ ctx'[c] = ctx[c] /\ written'[c] = written[c] /\ received'[c] = received[c]
          /\ Others(c)' = Others(c) /\ Sound(c) /\ Honest(c)
        BY ONLY <1>1, <2>1, OthersStay, c \in Conn
    <3> QED
        BY ONLY <2>1, <3>1, c \in Conn, SoundStays, HonestStays, Zenon
  <2> QED
      BY ONLY <2>2, <2>3 DEF OutputInv
<1>9. ASSUME NEW c \in Conn, Unref(c) \/ Accept(c) PROVE OutputInv'
    BY ONLY OutputInv, <1>9, c \in Conn, UnrefKeeps, AcceptKeeps, Zenon
<1> QED
    BY ONLY <1>3, <1>4, <1>5, <1>6, <1>7, <1>8, <1>9, [OutputNext]_outputVars, Zenon DEF OutputNext

\* Two sequences that agree at every place.
LEMMA SameBytes ==
    ASSUME NEW S, NEW u \in Seq(S), NEW n \in Nat, NEW c, Len(u) = n,
           \A i \in 1..n : u[i] = <<c, i>>
    PROVE  u = [k \in 1..n |-> <<c, k>>]
<1>1. DOMAIN u = 1..n /\ u = [k \in 1..n |-> u[k]]
    OBVIOUS
<1> QED
    BY ONLY <1>1, \A i \in 1..n : u[i] = <<c, i>>

\* The invariant says what was promised.
LEMMA OutputInvPromises == OutputInv => SentAsWritten
<1>1. SUFFICES ASSUME OutputInv PROVE SentAsWritten
    OBVIOUS
<1>2. OutputTypeOK /\ \A c \in Conn : Sound(c) /\ Honest(c)
    BY <1>1 DEF OutputInv
<1>3. ASSUME NEW c \in Conn PROVE IsInjective(free \o ctx[c].chunks)
  <2>1. Apart(Others(c), free, memory, ctx[c].chunks)
      BY ONLY <1>2, SoundApart, c \in Conn
  <2>2. PICK f, ch, S, u : f = free /\ ch = ctx[c].chunks /\ S = 1..Len(memory) /\ u = f \o ch
      OBVIOUS
  <2>3. /\ f \in Seq(S) /\ ch \in Seq(S)
        /\ \A i, j \in 1..Len(f) : f[i] = f[j] => i = j
        /\ \A i, j \in 1..Len(ch) : ch[i] = ch[j] => i = j
        /\ \A i \in 1..Len(f), j \in 1..Len(ch) : f[i] # ch[j]
      BY ONLY <2>1, <2>2 DEF Apart
  <2>4. Len(ch) \in Nat /\ ch \in [1..Len(ch) -> S]
      BY ONLY <2>3, LenProperties
  <2>5. Joined(u, f, Len(ch), ch, S)
      BY ONLY <2>2, <2>3, <2>4, ConcatIs
  <2>6. ASSUME NEW i \in 1..Len(u), NEW j \in 1..Len(u), u[i] = u[j] PROVE i = j
    <3>1. CASE i \in 1..Len(f) /\ j \in 1..Len(f)
        BY ONLY <2>3, <2>5, <2>6, <3>1 DEF Joined
    <3>2. CASE i \in 1..Len(f) /\ j \notin 1..Len(f)
      <4>1. PICK l \in 1..Len(ch) : j = Len(f) + l
          BY ONLY <2>5, <3>2, j \in 1..Len(u) DEF Joined
      <4> QED
          BY ONLY <2>3, <2>5, <2>6, <3>2, <4>1 DEF Joined
    <3>3. CASE i \notin 1..Len(f) /\ j \in 1..Len(f)
      <4>1. PICK l \in 1..Len(ch) : i = Len(f) + l
          BY ONLY <2>5, <3>3, i \in 1..Len(u) DEF Joined
      <4> QED
          BY ONLY <2>3, <2>5, <2>6, <3>3, <4>1 DEF Joined
    <3>4. CASE i \notin 1..Len(f) /\ j \notin 1..Len(f)
      <4>1. PICK l \in 1..Len(ch) : i = Len(f) + l
          BY ONLY <2>5, <3>4, i \in 1..Len(u) DEF Joined
      <4>2. PICK k \in 1..Len(ch) : j = Len(f) + k
          BY ONLY <2>5, <3>4, j \in 1..Len(u) DEF Joined
      <4>3. ch[l] = ch[k]
          BY ONLY <2>5, <2>6, <4>1, <4>2 DEF Joined
      <4> QED
          BY ONLY <2>3, <4>1, <4>2, <4>3
    <3> QED
        BY ONLY <3>1, <3>2, <3>3, <3>4
  <2>7. DOMAIN u = 1..Len(u)
      BY ONLY <2>5 DEF Joined
  <2>8. IsInjective(u)
      BY ONLY <2>6, <2>7 DEF IsInjective
  <2> QED
      BY ONLY <2>2, <2>8, Zenon
<1>4. ASSUME NEW c \in Conn, NEW d \in Conn \ {c}
      PROVE  ToSet(ctx[c].chunks) \cap ToSet(ctx[d].chunks) = {}
  <2>1. Apart(Others(c), free, memory, ctx[c].chunks)
      BY ONLY <1>2, SoundApart, c \in Conn
  <2>2. ToSet(ctx[d].chunks) \subseteq Others(c)
      BY ONLY InOthers, c \in Conn, d \in Conn \ {c}
  <2>3. PICK ch, o : ch = ctx[c].chunks /\ o = Others(c)
      OBVIOUS
  <2>4. ch \in Seq(1..Len(memory)) /\ \A y \in o : \A i \in 1..Len(ch) : ch[i] # y
      BY ONLY <2>1, <2>3 DEF Apart
  <2>5. \A y \in o : y \notin ToSet(ch)
      BY ONLY <2>4 DEF ToSet
  <2> QED
      BY ONLY <2>2, <2>3, <2>5
<1>5. ASSUME NEW c \in Conn
      PROVE  LET places == Batched(ctx[c]).batch
             IN received[c] \o [i \in DOMAIN places |-> Byte(memory, c, places[i])]
                   = [k \in 1..written[c] |-> <<c, k>>]
  <2>1. PICK z, w, y, p, t, r, n, u :
            /\ z = Frame(c) /\ w = Printing(c) /\ y = Batched(w.x) /\ p = y.batch
            /\ t = [i \in DOMAIN p |-> Byte(memory, c, p[i])]
            /\ r = received[c] /\ n = written[c] /\ u = r \o t
      OBVIOUS
  <2>2. w.x = ctx[c] /\ w.free = free /\ w.memory = memory /\ w.n = n
      BY ONLY <2>1 DEF Printing
  <2>3. IsFrame(z) /\ RightWork(z, w)
    <3>1. Sound(c) /\ IsFrame(Frame(c))
        BY ONLY <1>2, FrameIsFrame, c \in Conn
    <3>2. Writing(Frame(c), Printing(c))
        BY ONLY <3>1, PrintingStarts, c \in Conn
    <3> QED
        BY ONLY <2>1, <3>1, <3>2 DEF Writing
  <2>4. Right(z, w.free, w.memory, y.chunks, 0, 0, p, w.n)
      BY ONLY <2>1, <2>3, BatchedKeeps, Zenon
  <2>5. z.c = c /\ z.r = Len(r)
      BY ONLY <2>1, FrameHas, c \in Conn
  <2>6. /\ p \in Seq(Place) /\ n = Len(r) + Len(p) + 0
        /\ \A i \in 1..Len(p) : Byte(memory, c, p[i]) = <<c, Len(r) + i>>
      BY ONLY <2>2, <2>4, <2>5 DEF Right, BatchOk, BytesOk
  <2>7. /\ r \in Seq(Conn \X Nat) /\ n \in Nat /\ \A i \in 1..Len(r) : r[i] = <<c, i>>
    <3>1. received \in [Conn -> Seq(Conn \X Nat)] /\ written \in [Conn -> Nat] /\ Honest(c)
        BY ONLY <1>2, c \in Conn DEF OutputTypeOK
    <3>2. \A i \in 1..Len(received[c]) : received[c][i] = <<c, i>>
        BY ONLY <3>1, Zenon DEF Honest
    <3> QED
        BY ONLY <2>1, <3>1, <3>2, c \in Conn
  <2>8. DOMAIN p = 1..Len(p) /\ Len(p) \in Nat /\ Len(r) \in Nat
      BY ONLY <2>6, <2>7, LenProperties
  <2>9. \A i \in 1..Len(p) : t[i] = <<c, Len(r) + i>>
      BY ONLY <2>1, <2>6, <2>8
  <2>10. t \in [1..Len(p) -> Conn \X Nat]
    <3>1. \A i \in 1..Len(p) : <<c, Len(r) + i>> \in Conn \X Nat
        BY ONLY <2>8, c \in Conn
    <3>2. DOMAIN t = 1..Len(p) /\ t = [i \in 1..Len(p) |-> t[i]]
        BY ONLY <2>1, <2>8
    <3> QED
        BY ONLY <2>9, <3>1, <3>2
  <2>11. Joined(u, r, Len(p), t, Conn \X Nat)
    <3>1. PICK S : S = Conn \X Nat
        OBVIOUS
    <3>2. Joined(u, r, Len(p), t, S)
        BY ONLY <2>1, <2>7, <2>8, <2>10, <3>1, ConcatIs
    <3> QED
        BY ONLY <3>1, <3>2
  <2>12. u \in Seq(Conn \X Nat) /\ Len(u) = n
      BY ONLY <2>6, <2>8, <2>11 DEF Joined
  <2>13. ASSUME NEW i \in 1..n PROVE u[i] = <<c, i>>
    <3>1. CASE i \in 1..Len(r)
        BY ONLY <2>7, <2>11, <3>1 DEF Joined
    <3>2. CASE i \notin 1..Len(r)
      <4>1. PICK j \in 1..Len(p) : i = Len(r) + j
          BY ONLY <2>11, <2>12, <3>2, i \in 1..n DEF Joined
      <4>2. u[Len(r) + j] = t[j]
          BY ONLY <2>11 DEF Joined
      <4> QED
          BY ONLY <2>9, <4>1, <4>2
    <3> QED
        BY ONLY <3>1, <3>2
  <2>14. u = [k \in 1..n |-> <<c, k>>]
      BY ONLY <2>7, <2>12, <2>13, SameBytes
  <2>15. y = Batched(ctx[c])
      BY ONLY <2>1, <2>2
  <2> QED
      BY ONLY <2>1, <2>14, <2>15, Zenon
<1>6. ASSUME NEW c \in Conn, ctx[c].eof, ~ctx[c].error PROVE ctx[c].batch # <<>> <=> ctx[c].wantwrite
    BY ONLY <1>2, <1>6, c \in Conn, Zenon DEF Honest
<1>7. \A c \in Conn : /\ IsInjective(free \o ctx[c].chunks)
                      /\ \A d \in Conn \ {c} :
                            ToSet(ctx[c].chunks) \cap ToSet(ctx[d].chunks) = {}
    BY ONLY <1>3, <1>4
<1>8. \A c \in Conn : ctx[c].eof /\ ~ctx[c].error => (ctx[c].batch # <<>> <=> ctx[c].wantwrite)
    BY ONLY <1>6
<1> QED
    BY ONLY <1>5, <1>7, <1>8, Zenon DEF SentAsWritten

\* print.c, context.c: for any number of connections, any sizes and any texts, a client
\* gets what was printed for it and in that order, however its socket stops and goes on;
\* no chunk is used by two connections or both used and free; and what is left of an
\* answer that was ended is waiting for the socket.
THEOREM ClientsGetWhatWasPrinted == OutputSpec => []SentAsWritten
<1>1. OutputInit => OutputInv
    BY OutputInitInv
<1>2. OutputInv /\ [OutputNext]_outputVars => OutputInv'
    BY OutputStep
<1>3. OutputInv => SentAsWritten
    BY OutputInvPromises
<1> QED
    BY <1>1, <1>2, <1>3, PTL DEF OutputSpec
=============================================================================
