----------------------------- MODULE BuddyAlloc -----------------------------
(***************************************************************************)
(* db.c: the allocator inside the database file.  The file is cut into     *)
(* buckets of 2^order units; the free buckets of each order are in a       *)
(* doubly linked list that starts in the header.  Everything changed is    *)
(* reported to the journal by db_invalidate_region.  A position counts     *)
(* units of MIN_BUCKET_SIZE from bucket0.  Left out: the payload and       *)
(* fallocate.                                                              *)
(***************************************************************************)
EXTENDS Integers, FiniteSets, Sequences, SequencesExt, FiniteSetsExt, Powers

CONSTANTS Size,      \* sizes asked for, in bytes
          MaxCount,  \* bound: header->bucket_count
          MaxLive,   \* bound: objects alive
          MaxOps     \* bound: operations in a transaction

ASSUME AllocAssumption == /\ MaxCount \in Nat \ {0}
                          /\ MaxLive \in Nat /\ MaxOps \in Nat
                          /\ Size \subseteq 1..16 * Shift[MaxCount]

VARIABLES mem,    \* the private mapping: the header and the buckets
          disk,   \* the same as of the last commit
          dirty,  \* dirty_regions, as the set of the cells they cover
          sound,  \* no assert has failed
          ops     \* operations since the last commit

allocVars == <<mem, disk, dirty, sound, ops>>

Nil     == -1   \* the null pointer
Written == -2   \* next and prev of a bucket its owner has written over
Order   == 0..MaxCount + 4   \* more than an operation grows the file to

NetBucketSize(o) == 16 * Shift[o] - 1
BucketForSize(s) == Min({o \in Order : NetBucketSize(o) >= s})

\* A byte range never written is zero.
Zero == [order |-> 0, free |-> FALSE, next |-> 0, prev |-> 0]

-----------------------------------------------------------------------------
\* The functions below take and return the work done so far: memory, cells
\* invalidated and whether every assert held.
Dirtied(w, B, H) == [w EXCEPT !.dirty = @ \cup {<<"bucket", b>> : b \in B \ {Nil}}
                                          \cup {<<"head", o>> : o \in H}]

\* Mutant of ExtractBucket: the next bucket is not reported to the journal.
ExtractBucket_Unreported(w, b) ==
    LET k == w.mem.bucket[b]
        first == w.mem.heads[k.order] = b
        linked == [x \in DOMAIN w.mem.bucket |->
                     [w.mem.bucket[x] EXCEPT
                        !.next = IF x = b THEN Nil ELSE IF x = k.prev THEN k.next ELSE @,
                        !.prev = IF x = b THEN Nil ELSE IF x = k.next THEN k.prev ELSE @]]
    IN Dirtied([w EXCEPT !.mem.bucket = linked,
                         !.mem.heads[k.order] = IF first THEN k.next ELSE @],
               {b, k.prev}, {k.order})

ExtractBucket(w, b) ==
    LET k == w.mem.bucket[b]
        first == w.mem.heads[k.order] = b
        linked == [x \in DOMAIN w.mem.bucket |->
                     [w.mem.bucket[x] EXCEPT
                        !.next = IF x = b THEN Nil ELSE IF x = k.prev THEN k.next ELSE @,
                        !.prev = IF x = b THEN Nil ELSE IF x = k.next THEN k.prev ELSE @]]
    IN Dirtied([w EXCEPT !.mem.bucket = linked,
                         !.mem.heads[k.order] = IF first THEN k.next ELSE @,
                         !.ok = @ /\ k.free /\ (first => k.prev = Nil)],
               {b, k.prev, k.next}, {k.order})

\* Mutant of InsertBucket: the old first bucket gets no prev.
InsertBucket_OneWay(w, b) ==
    LET o == w.mem.bucket[b].order
    IN Dirtied([w EXCEPT !.mem.bucket[b].next = w.mem.heads[o],
                         !.mem.bucket[b].prev = Nil,
                         !.mem.heads[o] = b], {b, w.mem.heads[o]}, {o})

InsertBucket(w, b) ==
    LET o == w.mem.bucket[b].order
        next == w.mem.heads[o]
        linked == [x \in DOMAIN w.mem.bucket |->
                     [w.mem.bucket[x] EXCEPT
                        !.next = IF x = b THEN next ELSE @,
                        !.prev = IF x = next THEN b ELSE IF x = b THEN Nil ELSE @]]
    IN Dirtied([w EXCEPT !.mem.bucket = linked,
                         !.mem.heads[o] = b,
                         !.ok = /\ @ /\ w.mem.bucket[b].free
                                /\ next # Nil => w.mem.bucket[next].prev = Nil],
               {b, next}, {o})

\* A new free bucket: its order and free bits are set, the rest is what it was.
PutBucket(w, b, o) ==
    LET old == IF b \in DOMAIN w.mem.bucket THEN w.mem.bucket[b] ELSE Zero
    IN [w EXCEPT !.mem.bucket =
          [x \in DOMAIN @ \cup {b} |->
             IF x = b THEN [old EXCEPT !.order = o, !.free = TRUE] ELSE @[x]]]

\* Mutant of SplitAt: the buddy starts where a bucket of the old order ends.
SplitAt_TooFar(w, b) ==
    LET o == w.mem.bucket[b].order
        half == [ExtractBucket([w EXCEPT !.ok = @ /\ o > 0], b)
                   EXCEPT !.mem.bucket[b].order = o - 1]
        buddy == b + Shift[o]
    IN InsertBucket(InsertBucket(PutBucket(half, buddy, o - 1), b), buddy)

SplitAt(w, b) ==
    LET o == w.mem.bucket[b].order
        half == [ExtractBucket([w EXCEPT !.ok = @ /\ o > 0], b)
                   EXCEPT !.mem.bucket[b].order = o - 1]
        buddy == b + Shift[o - 1]
    IN InsertBucket(InsertBucket(PutBucket(half, buddy, o - 1), b), buddy)

\* header->size is written by db_init alone: in units after the header it is 0,
\* and there is no bucket at any position.
BucketAtPosition(w, pos) == IF pos >= w.mem.size THEN Nil ELSE pos

BuddyPos(b, o) == IF (b \div Shift[o]) % 2 = 0 THEN b + Shift[o] ELSE b - Shift[o]

\* One turn of merge_buckets; once it does not merge, further turns do not either.
MergeTurn(s, turn) ==
    LET k == s.w.mem.bucket[s.b]
        buddy == BucketAtPosition(s.w, BuddyPos(s.b, k.order))
        low == Min({s.b, buddy})
        apart == ExtractBucket(ExtractBucket(s.w, s.b), buddy)
    IN IF buddy = Nil \/ ~s.w.mem.bucket[buddy].free
                      \/ s.w.mem.bucket[buddy].order # k.order
         THEN s
         ELSE [b |-> low,
               w |-> InsertBucket([apart EXCEPT !.mem.bucket[low].order = @ + 1], low)]

MergeBuckets(w, b) == FoldLeft(MergeTurn, [w |-> w, b |-> b], [turn \in 1..MaxCount |-> turn]).w

\* db_grow: the second half of the file doubled; the whole header is reported.
Grow(w) ==
    LET n == w.mem.count
        b == IF n = 0 THEN 0 ELSE Shift[n - 1]
        new == InsertBucket(PutBucket(w, b, IF n = 0 THEN 0 ELSE n - 1), b)
        merged == IF n = 0 THEN new ELSE MergeBuckets(new, b)
    IN [merged EXCEPT !.mem.count = n + 1,
                      !.dirty = @ \cup {<<"count", 0>>} \cup {<<"head", o>> : o \in Order}]

Larger(w, o) == {p \in Order : p > o /\ w.mem.heads[p] # Nil}

\* The search for a larger bucket grows the file until there is one, which takes at
\* most two turns.
GrowUnless(w, o) == IF Larger(w, o) # {} THEN w ELSE Grow(w)

\* A turn of each loop of db_alloc: the file grows; the bucket found is split.
GrowTurn(w, turn)  == Grow(w)
SplitTurn(s, turn) == [s EXCEPT !.w = SplitAt(s.w, s.b)]
GrowBy(w, n)       == FoldLeft(GrowTurn, w, [turn \in 1..n |-> turn])
SplitBy(w, b, n)   == FoldLeft(SplitTurn, [w |-> w, b |-> b], [turn \in 1..n |-> turn]).w

\* The bucket is its owner's, who may write over all but its order and free bits.
Used(w, b, o) == [w EXCEPT !.mem.bucket[b] = [order |-> o, free |-> FALSE,
                                              next |-> Written, prev |-> Written]]

DbAlloc(w0, size) ==
    LET o == BucketForSize(size)
        w1 == GrowBy(w0, o + 1 - w0.mem.count)
        fits == w1.mem.heads[o] # Nil
        w2 == IF fits THEN w1 ELSE GrowUnless(GrowUnless(w1, o), o)
        from == IF fits THEN o ELSE Min(Larger(w2, o))
        b == w2.mem.heads[from]
        w3 == SplitBy(w2, b, from - o)
    IN [b |-> b, w |-> Used(ExtractBucket(w3, b), b, o)]

DbFree(w, b) ==
    MergeBuckets(InsertBucket([w EXCEPT !.mem.bucket[b].free = TRUE,
                                        !.ok = @ /\ ~w.mem.bucket[b].free], b), b)

\* db_realloc: the old bucket is copied, then freed.
DbRealloc(w, b, size) ==
    IF NetBucketSize(w.mem.bucket[b].order) >= size THEN w
    ELSE DbFree(DbAlloc(w, size).w, b)

-----------------------------------------------------------------------------
\* db_init, and the commit it ends with.
AllocInit == /\ mem = [size |-> 0, count |-> 0, heads |-> [o \in Order |-> Nil],
                       bucket |-> [b \in {} |-> Zero]]
             /\ disk = mem
             /\ dirty = {} /\ sound = TRUE /\ ops = 0

Live(m) == {b \in DOMAIN m.bucket : ~m.bucket[b].free}

Does(w) == /\ ops < MaxOps /\ w.mem.count <= MaxCount /\ Cardinality(Live(w.mem)) <= MaxLive
           /\ mem' = w.mem /\ dirty' = w.dirty /\ sound' = w.ok
           /\ ops' = ops + 1
           /\ UNCHANGED disk

Work == [mem |-> mem, dirty |-> dirty, ok |-> sound]

Alloc(size)      == Does(DbAlloc(Work, size).w)
Realloc(b, size) == b \in Live(mem) /\ Does(DbRealloc(Work, b, size))
Release(b)       == b \in Live(mem) /\ Does(DbFree(Work, b))

\* The old bytes of the file with those of the dirty cells written over them.
Overlay(old, new, cells) ==
    [size   |-> new.size,
     count  |-> IF <<"count", 0>> \in cells THEN new.count ELSE old.count,
     heads  |-> [o \in Order |-> IF <<"head", o>> \in cells THEN new.heads[o]
                                                             ELSE old.heads[o]],
     bucket |-> [b \in DOMAIN new.bucket |->
                   IF <<"bucket", b>> \in cells THEN new.bucket[b]
                   ELSE IF b \in DOMAIN old.bucket THEN old.bucket[b] ELSE Zero]]

\* db_commit, as JournalStore shows it: the dirty cells reach the file as one.
Commit == /\ disk' = Overlay(disk, mem, dirty)
          /\ dirty' = {} /\ ops' = 0
          /\ UNCHANGED <<mem, sound>>

\* The process is killed; the next one maps the file.
Kill == /\ mem' = disk
        /\ dirty' = {} /\ ops' = 0
        /\ UNCHANGED <<disk, sound>>

AllocNext == \/ \E size \in Size : Alloc(size)
             \/ \E b \in Live(mem) : Release(b)
             \/ \E b \in Live(mem), size \in Size : Realloc(b, size)
             \/ Commit
             \/ Kill

AllocSpec == AllocInit /\ [][AllocNext]_allocVars

-----------------------------------------------------------------------------
\* Every unit of the file lies in one bucket, so no two objects that are alive share
\* a byte; and no assert of the allocator fails (a block is never freed twice and
\* only free ones are split, linked and unlinked).
Tiled ==
    /\ sound
    /\ \A pos \in 0..(IF mem.count = 0 THEN 0 ELSE Shift[mem.count - 1]) - 1 :
          Cardinality({b \in DOMAIN mem.bucket :
                         b <= pos /\ pos < b + Shift[mem.bucket[b].order]}) = 1

\* The n-th bucket of the list of order o, and Nil past its end.
Listed(o, n) ==
    LET next == [b \in DOMAIN mem.bucket |-> mem.bucket[b].next]
        at[k \in Nat \ {0}] == IF k = 1 THEN mem.heads[o]
                              ELSE IF at[k - 1] = Nil THEN Nil ELSE next[at[k - 1]]
    IN at[n]

\* The lists hold the free buckets, each once and under its own order, and can be
\* followed backwards: no free space is lost, none that is in use is handed out.
FreeLists ==
    \A o \in Order :
        LET want == {b \in DOMAIN mem.bucket : mem.bucket[b].free /\ mem.bucket[b].order = o}
            n    == Cardinality(want)
        IN /\ {Listed(o, k) : k \in 1..n} = want
           /\ Listed(o, n + 1) = Nil
           /\ \A k \in 1..n : mem.bucket[Listed(o, k)].prev
                               = IF k = 1 THEN Nil ELSE Listed(o, k - 1)

\* Whatever the allocator changed has been reported to the journal: a commit now
\* leaves in the file what is in memory, so the next process has the same buckets.
\* What an owner writes over a bucket is for the owner to report.
Journaled == Overlay(disk, mem, dirty) = mem
=============================================================================
