---------------------------- MODULE DirtyRegions ----------------------------
(***************************************************************************)
(* db.c: db_invalidate_region notes where a region of memory that was      *)
(* changed starts and where it ends; db_commit sorts these boundaries and  *)
(* writes what lies between them to the journal.  Boundaries at the same   *)
(* position end up in any order: region_boundary_comp answers "less" for   *)
(* both orders of a START and an END.                                      *)
(***************************************************************************)
EXTENDS Integers, FiniteSets, Sequences, SequencesExt

CONSTANTS Top,         \* positions are 0..Top
          MaxRegions   \* bound: regions in a transaction

ASSUME RegionsAssumption == Top \in Nat /\ MaxRegions \in Nat

VARIABLES boundaries,  \* db->dirty_regions
          asked,       \* history: the bytes reported in this transaction
          written,     \* the entries of the journal, as [first, size]
          broken       \* an assert of db_commit has failed

regionVars == <<boundaries, asked, written, broken>>

Position == 0..Top
Boundary == [type : {"START", "END"}, position : Position]

RegionInit == boundaries = <<>> /\ asked = {} /\ written = <<>> /\ broken = FALSE

\* "assert(size > 0)": no caller passes an empty region.
InvalidateRegion(ptr, size) ==
    /\ Len(boundaries) < 2 * MaxRegions
    /\ size > 0 /\ ptr + size <= Top
    /\ boundaries' = boundaries \o <<[type |-> "START", position |-> ptr],
                                     [type |-> "END", position |-> ptr + size]>>
    /\ asked' = asked \cup ptr..(ptr + size - 1)
    /\ UNCHANGED <<written, broken>>

\* One more boundary in sorted sequences: it may go anywhere that keeps the order.
Arrange(sequences, x) ==
    UNION {{InsertAt(s, i, x) : i \in {i \in 1..Len(s) + 1 :
                /\ \A j \in 1..i - 1 : s[j].position <= x.position
                /\ \A j \in i..Len(s) : s[j].position >= x.position}} : s \in sequences}

\* qsort with region_boundary_comp: all that it may make of b.
Sorted(b) == FoldLeft(Arrange, {<<>>}, b)

\* Mutant of Scan: every START begins a new region.
Scan_Restarts(s, x) ==
    IF x.type = "START"
      THEN [s EXCEPT !.nesting = @ + 1, !.first = x.position]
    ELSE [s EXCEPT !.nesting = @ - 1,
                   !.failed = @ \/ s.nesting = 0,
                   !.out = IF s.nesting # 1 THEN @
                           ELSE Append(@, [first |-> s.first, size |-> x.position - s.first])]

\* One turn of the loop of db_commit.
Scan(s, x) ==
    IF x.type = "START"
      THEN [s EXCEPT !.nesting = @ + 1,
                     !.first = IF s.nesting = 0 THEN x.position ELSE @]
    ELSE [s EXCEPT !.nesting = @ - 1,
                   !.failed = @ \/ s.nesting = 0,
                   !.out = IF s.nesting # 1 THEN @
                           ELSE Append(@, [first |-> s.first, size |-> x.position - s.first])]

\* db_commit up to the write of the last entry.
CommitRegions ==
    /\ boundaries # <<>>
    /\ \E sorted \in Sorted(boundaries) :
         LET end == FoldLeft(Scan, [nesting |-> 0, first |-> 0, out |-> <<>>,
                                    failed |-> FALSE], sorted)
         IN written' = end.out /\ broken' = (end.failed \/ end.nesting # 0)
    /\ boundaries' = <<>>
    /\ UNCHANGED asked

\* The transaction has ended and the journal is empty again.
Finish == /\ boundaries = <<>> /\ written # <<>>
          /\ asked' = {} /\ written' = <<>>
          /\ UNCHANGED <<boundaries, broken>>

RegionNext == \/ written = <<>> /\ \E ptr, size \in Position : InvalidateRegion(ptr, size)
              \/ CommitRegions
              \/ Finish

RegionSpec == RegionInit /\ [][RegionNext]_regionVars

-----------------------------------------------------------------------------
Bytes(entry) == entry.first..(entry.first + entry.size - 1)

\* "Write changes to log, skip duplicate regions": in whatever order equal positions
\* were sorted, no assert fails, the entries hold just the bytes that were reported,
\* and no byte is in two of them.
WrittenExactly ==
    /\ boundaries \in Seq(Boundary) /\ ~broken
    /\ written # <<>> =>
         /\ UNION {Bytes(written[i]) : i \in DOMAIN written} = asked
         /\ \A i, j \in DOMAIN written :
              i # j => Bytes(written[i]) \cap Bytes(written[j]) = {}
=============================================================================
