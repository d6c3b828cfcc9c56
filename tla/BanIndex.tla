------------------------------ MODULE BanIndex ------------------------------
(***************************************************************************)
(* persistence.c, bans.c: the index of the bans by ip range.  ban_tbl holds *)
(* the newest ban of each range; the older bans of that range hang off it   *)
(* in the list next_in_bucket/prev_in_bucket.  The key of an entry is a     *)
(* pointer to the range inside the ban, so ban_set_range changes the key of *)
(* an entry and leaves it in the bucket of the old range.  Two ranges share *)
(* no bucket here, and no rehash moves an entry.                            *)
(***************************************************************************)
EXTENDS LinkedList, FiniteSetsExt

CONSTANTS Ban,      \* struct ban by its id, never used twice
          IpRange,    \* ip ranges, normalised
          Edits     \* which bans a moderator edits, of Editable

Editable == {"newest", \* the newest ban of a range, which it keeps
             "older",  \* another ban of a range, which it keeps
             "moved"}  \* any ban, which is given another range

ASSUME BanAssumption == /\ IsFiniteSet(Ban) /\ Ban = 1..Cardinality(Ban)
                        /\ Nil \notin Ban /\ Edits \subseteq Editable

VARIABLES bans,   \* from master_first_ban to master_last_ban, in the order of their ids
          freed,  \* bans that went through ban_free
          ix      \* ban_tbl, and ban_range and the bucket pointers of each ban

banVars == <<bans, freed, ix>>

\* db_hashmap_get(&ban_tbl, r): what is in the bucket of r and has r as its key.
Hits(i, r) == {e \in i.tbl : e.slot = r /\ i.range[e.ban] = r}
Get(i, r)  == IF Hits(i, r) = {} THEN Nil ELSE (CHOOSE e \in Hits(i, r) : TRUE).ban

Put(i, b)  == [i EXCEPT !.tbl = @ \cup {[slot |-> i.range[b], ban |-> b]}]
Take(i, b) == [i EXCEPT !.tbl = @ \ Hits(i, i.range[b])]

InsertIntoHashmap(i, b) ==
    LET item == Get(i, i.range[b])
    IN IF item = Nil THEN Put(i, b)
       ELSE Put([Take(i, item) EXCEPT !.prev[item] = b, !.next[b] = item], b)

\* Mutant of DeleteFromHashmap: the older bans of the range are not put back.
DeleteFromHashmap_DropsOlder(i, b) ==
    IF Get(i, i.range[b]) = b THEN Take(i, b)
    ELSE [i EXCEPT !.next[i.prev[b]] = i.next[b]]

\* Mutant of DeleteFromHashmap: the previous ban of the next one is not reset.
DeleteFromHashmap_KeepsPrev(i, b) ==
    LET prev == i.prev[b]
        next == i.next[b]
        before == IF prev = Nil THEN i ELSE [i EXCEPT !.next[prev] = next]
    IN IF Get(i, i.range[b]) # b THEN before
       ELSE IF next = Nil THEN Take(before, b)
       ELSE Put(Take(before, b), next)

DeleteFromHashmap(i, b) ==
    LET prev   == i.prev[b]
        next   == i.next[b]
        before == IF prev = Nil THEN i ELSE [i EXCEPT !.next[prev] = next]
        after  == IF next = Nil THEN before ELSE [before EXCEPT !.prev[next] = prev]
    IN IF Get(i, i.range[b]) # b THEN after
       ELSE IF next = Nil THEN Take(after, b)
       ELSE Put(Take(after, b), next)

NoBans == [tbl   |-> {},
           range |-> [b \in {} |-> Nil],
           prev  |-> [b \in {} |-> Nil],
           next  |-> [b \in {} |-> Nil]]

\* ban_new and ban_set_range of a new ban, and the part of insert_ban for the table.
Inserted(i, b, r) == InsertIntoHashmap([i EXCEPT !.range = Set(@, b, r),
                                                 !.prev  = Set(@, b, Nil),
                                                 !.next  = Set(@, b, Nil)], b)

\* ban_set_range and update_ban, which takes the ban out and puts it in again.
\* The bucket pointers of the ban are not reset.
Updated(i, b, r) ==
    InsertIntoHashmap(DeleteFromHashmap([i EXCEPT !.range[b] = r], b), b)

\* Which edits of a ban are made in this instance.
MayEdit(b, r) == \/ "newest" \in Edits /\ r = ix.range[b] /\ Get(ix, r) = b
                 \/ "older"  \in Edits /\ r = ix.range[b] /\ Get(ix, r) # b
                 \/ "moved"  \in Edits /\ r # ix.range[b]

\* delete_ban for each ban of a set, in the order of the list.
Deleted(i, B) ==
    LET deleted[S \in SUBSET Ban] ==
            IF S = {} THEN i ELSE DeleteFromHashmap(deleted[S \ {Max(S)}], Max(S))
    IN deleted[B]

DeleteAll(B) ==
    /\ ix' = Deleted(ix, B)
    /\ bans' = bans \ B
    /\ freed' = freed \cup B

-----------------------------------------------------------------------------
\* The n-th ban that the loop of find_bans meets for the range r, if it has one.
Met(r, n) == Nth(Get(ix, r), ix.next, n)

\* The list, the bans that are gone and the index.
TypeOK == /\ bans \subseteq Ban /\ freed \subseteq Ban
          /\ ix.tbl \subseteq [slot : IpRange, ban : bans \cup freed]
          /\ ix.range \in [bans \cup freed -> IpRange]
          /\ ix.prev \in [bans \cup freed -> Ban \cup {Nil}]
          /\ ix.next \in [bans \cup freed -> Ban \cup {Nil}]

\* find_bans meets every ban of a range once and then ends, and it meets no other:
\* a ban is enforced from insert_ban to delete_ban, and not after it.
FoundExactly ==
    \A r \in IpRange :
        LET want == {b \in bans : ix.range[b] = r}
            n    == Cardinality(want)
        IN {Met(r, k) : k \in 1..n} = want /\ Met(r, n + 1) = Nil

\* delete_ban_from_hashmap, "Remove from hashmap": neither the table nor a ban that
\* is still there points to a ban that is gone.
NothingDangles ==
    /\ TypeOK
    /\ \A e \in ix.tbl : e.ban \notin freed
    /\ \A b \in bans : ix.prev[b] \notin freed /\ ix.next[b] \notin freed
=============================================================================
