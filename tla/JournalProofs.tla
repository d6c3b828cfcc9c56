--------------------------- MODULE JournalProofs ---------------------------
(***************************************************************************)
(* Proofs about the journal of db.c, for every value of the constants.     *)
(*                                                                         *)
(* Journal: a transaction reaches the data file as a whole or not at all.  *)
(*                                                                         *)
(* DirtyRegions: what db_commit writes to the journal is just what was     *)
(* reported, each byte once, for any number of regions and any order in    *)
(* which qsort leaves equal positions.  The argument counts boundaries:    *)
(* behind each END there is its START, and a byte was reported when more   *)
(* regions have started than ended at it.  Sorting keeps the counts, and   *)
(* one turn of the loop goes from one position to the next.                *)
(***************************************************************************)
EXTENDS JournalInv, DirtyRegions, FiniteSetTheorems, SequenceTheorems, TLAPS

-----------------------------------------------------------------------------
(* Journal. *)

(* The three kinds of record, told apart by their kind. *)
LEMMA RecordKinds ==
    ASSUME NEW r \in Records
    PROVE  /\ r.kind \in {"write", "torn", "commit"}
           /\ r.kind = "write" => r.at \in Loc /\ r.val \in Cells
           /\ r.kind = "torn" => r.at \in Loc /\ r.miss \in {1, 2}
           /\ r.kind = "commit" <=> r = CommitMark
  BY DEF Records, CommitMark

LEMMA NewRecords ==
    ASSUME NEW l \in Loc
    PROVE  /\ \A v \in Cells : WriteRecord(l, v) \in Records
           /\ \A n \in {1, 2} : TornRecord(l, n) \in Records
           /\ CommitMark \in Records
  BY DEF Records, WriteRecord, TornRecord, CommitMark

LEMMA ViewType == RestType => View \in [Loc -> Cells]
  BY DEF RestType, View, Cells

LEMMA EmptyJournal == <<>> \in Seq(Records)
  OBVIOUS

LEMMA RecordsIncludeMark == CommitMark \in Records
  BY DEF Records

LEMMA ForgetType ==
    ASSUME RestType, Forget
    PROVE  RestType'
<1>1. changed' \in BOOLEAN
  BY DEF Forget
<1>2. private' \in [Loc -> Val]
  BY JournalAssumption DEF Forget
<1>3. crashes' \in 0..MaxCrashes /\ nesting' \in 0..MaxNesting
  BY JournalAssumption DEF Forget, RestType
<1> QED BY <1>1, <1>2, <1>3 DEF RestType, Forget

LEMMA ReplayEndType ==
    ASSUME RestType, ReplayRecord, offset >= Len(journal)
    PROVE  RestType'
  BY DEF RestType, ReplayRecord, ReplayDone, files, memory, history

LEMMA ReplayStepType ==
    ASSUME journal \in Seq(Records), RestType, ReplayRecord,
           offset < Len(journal)
    PROVE  RestType'
<1> DEFINE r == journal[offset + 1]
<1>1. r \in Records
  BY DEF RestType
<1>2. CASE r.kind = "torn"
  BY <1>1, <1>2, RecordKinds
     DEF RestType, ReplayRecord, ReplayDone, Cells, memory, history
<1>3. CASE r.kind # "torn"
  BY <1>1, <1>3, RecordKinds DEF RestType, ReplayRecord, memory, history
<1> QED BY <1>2, <1>3

LEMMA InitType == Init => TypeOK
<1> SUFFICES ASSUME Init PROVE TypeOK
  OBVIOUS
<1>1. RestType
  <2>1. changed \in BOOLEAN
    BY DEF Init
  <2> QED BY <2>1, JournalAssumption DEF Init, RestType, Cells
<1>2. journal \in Seq(Records)
  BY EmptyJournal DEF Init
<1> QED BY <1>1, <1>2 DEF TypeOK

LEMMA NextType == TypeOK /\ [Next]_vars => TypeOK'
<1> SUFFICES ASSUME TypeOK, [Next]_vars PROVE TypeOK'
  OBVIOUS
<1>0. journal \in Seq(Records) /\ RestType
  BY DEF TypeOK
<1> USE JournalAssumption DEF files, memory, history
<1>1. CASE Begin
  <2>1. RestType'  BY <1>0, <1>1 DEF RestType, Begin
  <2>2. journal' = journal  BY <1>1 DEF Begin
  <2> QED BY <1>0, <2>1, <2>2 DEF TypeOK
<1>2. ASSUME NEW l \in Loc, NEW v \in Val, Update(l, v) PROVE TypeOK'
  <2>1. RestType'  BY <1>0, <1>2 DEF RestType, Update
  <2>2. journal' = journal  BY <1>2 DEF Update
  <2> QED BY <1>0, <2>1, <2>2 DEF TypeOK
<1>3. CASE Commit
  <2>1. RestType'
    <3>1. faults' \subseteq Faults
      BY <1>0, <1>3 DEF RestType, Commit, Faults
    <3>2. nesting' \in 0..MaxNesting
      BY <1>0, <1>3 DEF RestType, Commit
    <3> QED BY <1>0, <1>3, <3>1, <3>2 DEF RestType, Commit
  <2>2. journal' = journal  BY <1>3 DEF Commit
  <2> QED BY <1>0, <2>1, <2>2 DEF TypeOK
<1>4. ASSUME NEW l \in Loc, WriteRegion(l) PROVE TypeOK'
  <2>1. RestType'  BY <1>0, <1>4 DEF RestType, WriteRegion
  <2>2. journal' \in Seq(Records)
    BY <1>0, <1>4, ViewType, NewRecords DEF WriteRegion
  <2> QED BY <2>1, <2>2 DEF TypeOK
<1>5. ASSUME NEW l \in Loc, WriteFails(l) PROVE TypeOK'
  <2>1. RestType'  BY <1>0, <1>5 DEF RestType, WriteFails
  <2>2. journal' \in Seq(Records)
    BY <1>0, <1>5, NewRecords, SMTT(40) DEF WriteFails
  <2> QED BY <2>1, <2>2 DEF TypeOK
<1>6. CASE Fsync
  <2>1. RestType'  BY <1>0, <1>6 DEF RestType, Fsync
  <2>2. journal' = journal  BY <1>6 DEF Fsync
  <2> QED BY <1>0, <2>1, <2>2 DEF TypeOK
<1>7. CASE WriteMark
  <2>1. RestType'
    <3>1. durable' \in [Loc -> Cells]
      BY <1>0, <1>7, ViewType DEF WriteMark
    <3>2. faults' \subseteq Faults
      BY <1>0, <1>7 DEF RestType, WriteMark, Faults
    <3> QED BY <1>0, <1>7, <3>1, <3>2 DEF RestType, WriteMark
  <2>2. journal' \in Seq(Records)
    <3>1. journal' \in {journal, Append(journal, CommitMark)}
      BY <1>7 DEF WriteMark
    <3>2. Append(journal, CommitMark) \in Seq(Records)
      BY <1>0, RecordsIncludeMark
    <3> QED BY <1>0, <3>1, <3>2
  <2> QED BY <2>1, <2>2 DEF TypeOK
<1>8. CASE ReplayRecord
  <2>1. journal' = journal  BY <1>8 DEF ReplayRecord
  <2>2. CASE offset >= Len(journal)
    BY <1>0, <1>8, <2>2, <2>1, ReplayEndType DEF TypeOK
  <2>3. CASE offset < Len(journal)
    BY <1>0, <1>8, <2>3, <2>1, ReplayStepType DEF TypeOK
  <2> QED BY <1>0, <2>2, <2>3 DEF RestType
<1>9. CASE Sync
  <2>1. RestType'  BY <1>0, <1>9 DEF RestType, Sync
  <2>2. journal' \in Seq(Records)
    BY <1>0, <1>9, EmptyJournal DEF Sync
  <2> QED BY <2>1, <2>2 DEF TypeOK
<1>10. CASE Crash
  <2>1. RestType'  BY <1>0, <1>10, ForgetType DEF Crash
  <2>2. journal' = journal  BY <1>10 DEF Crash
  <2> QED BY <1>0, <2>1, <2>2 DEF TypeOK
<1>11. ASSUME NEW l \in Loc, CrashInRecord(l) PROVE TypeOK'
  <2>1. RestType'  BY <1>0, <1>11, ForgetType DEF CrashInRecord
  <2>2. journal' \in Seq(Records)
    BY <1>0, <1>11, NewRecords DEF CrashInRecord
  <2> QED BY <2>1, <2>2 DEF TypeOK
<1>12. CASE Open
  <2>1. RestType'  BY <1>0, <1>12 DEF RestType, Open
  <2>2. journal' = journal  BY <1>12 DEF Open
  <2> QED BY <1>0, <2>1, <2>2 DEF TypeOK
<1>13. CASE CheckRecord
  <2> DEFINE r == journal[offset + 1]
  <2>1. r \in Records
    BY <1>0, <1>13 DEF RestType, CheckRecord
  <2>2. offset' \in Nat /\ verdict' \in {-1, 0, 1}
    BY <1>0, <1>13, <2>1, RecordKinds DEF RestType, CheckRecord
  <2>3. RestType'
    BY <1>0, <1>13, <2>2 DEF RestType, CheckRecord
  <2>4. journal' = journal  BY <1>13 DEF CheckRecord
  <2> QED BY <1>0, <2>3, <2>4 DEF TypeOK
<1>14. CASE CheckDone
  <2>1. RestType'  BY <1>0, <1>14 DEF RestType, CheckDone
  <2>2. journal' = journal  BY <1>14 DEF CheckDone
  <2> QED BY <1>0, <2>1, <2>2 DEF TypeOK
<1>15. CASE UNCHANGED vars
  BY <1>15 DEF TypeOK, RestType, vars
<1> QED
  BY <1>1, <1>2, <1>3, <1>4, <1>5, <1>6, <1>7, <1>8, <1>9, <1>10, <1>11,
     <1>12, <1>13, <1>14, <1>15 DEF Next, Work

(* Type correctness: every variable of the transaction layer keeps its type. *)
THEOREM TypeCorrect == Spec => []TypeOK
  BY InitType, NextType, PTL DEF Spec

-----------------------------------------------------------------------------
(* The inductive invariant.  A fault is never forgotten, so it is enough to  *)
(* look at steps into fault-free states.                                     *)

LEMMA InitInv == Init => IInv
<1> SUFFICES ASSUME Init PROVE CleanInv
  BY DEF IInv
<1> USE DEF Init
<1>1. Len(journal) = 0 /\ journal = <<>> /\ ~Leftover
  BY DEF Leftover
<1>2. TornLast /\ Marked /\ FileCurrent /\ ReplayScan
  BY <1>1 DEF TornLast, Marked, FileCurrent, ReplayScan
<1>3. LastIsCommitted /\ StillToReplay /\ Written
  BY <1>1 DEF LastIsCommitted, StillToReplay, Written
<1>4. DirtyTracked
  BY DEF DirtyTracked
<1> QED BY <1>2, <1>3, <1>4 DEF CleanInv

(* The journal only grows at its end. *)
LEMMA AppendFacts ==
    ASSUME NEW r \in Records, journal \in Seq(Records),
           journal' = Append(journal, r)
    PROVE  /\ Len(journal) \in Nat
           /\ Len(journal') = Len(journal) + 1
           /\ \A i \in 1..Len(journal) : journal'[i] = journal[i]
           /\ journal'[Len(journal')] = r
           /\ journal' # <<>>
           /\ Leftover' <=> r # CommitMark
  BY DEF Leftover

LEMMA AppendRecs ==
    ASSUME NEW r \in Records, journal \in Seq(Records),
           journal' = Append(journal, r)
    PROVE  \A i, l : Rec(i, l)' <=>
              \/ Rec(i, l)
              \/ i = Len(journal) + 1 /\ r.kind = "write" /\ r.at = l
  BY AppendFacts DEF Rec

LEMMA SameRecs ==
    ASSUME journal' = journal
    PROVE  /\ \A i, l : Rec(i, l)' <=> Rec(i, l)
           /\ \A i, l : LastRec(i, l)' <=> LastRec(i, l)
           /\ Leftover' <=> Leftover
  BY DEF Rec, LastRec, Leftover

(* A journal that ends in a COMMIT marker has no cut record in it. *)
LEMMA NoTorn ==
    ASSUME TornLast, ~Leftover
    PROVE  \A i \in 1..Len(journal) : journal[i].kind # "torn"
  BY DEF TornLast, Leftover, CommitMark

LEMMA EmptyIsEmpty ==
    ASSUME TypeOK
    PROVE  /\ Len(journal) \in Nat
           /\ Len(journal) = 0 <=> journal = <<>>
           /\ \A i \in 1..Len(journal) : journal[i] \in Records
  BY DEF TypeOK

LEMMA BeginInv == TypeOK /\ CleanInv /\ Begin => CleanInv'
<1> SUFFICES ASSUME TypeOK, CleanInv, Begin PROVE CleanInv'
  OBVIOUS
<1> USE SameRecs DEF Begin, files, memory, history
<1>1. TornLast' /\ Marked' /\ FileCurrent' /\ ReplayScan'
  BY DEF CleanInv, TornLast, Marked, FileCurrent, ReplayScan
<1>2. LastIsCommitted' /\ StillToReplay' /\ Written'
  BY DEF CleanInv, LastIsCommitted, StillToReplay, Written
<1>3. DirtyTracked'
  BY DEF CleanInv, DirtyTracked
<1> QED BY <1>1, <1>2, <1>3 DEF CleanInv

LEMMA UpdateInv ==
    ASSUME TypeOK, CleanInv, NEW l \in Loc, NEW v \in Val, Update(l, v)
    PROVE  CleanInv'
<1> USE SameRecs DEF Update, files, memory, history
<1>1. TornLast' /\ Marked' /\ FileCurrent' /\ ReplayScan'
  BY DEF CleanInv, TornLast, Marked, FileCurrent, ReplayScan
<1>2. LastIsCommitted' /\ StillToReplay' /\ Written'
  BY DEF CleanInv, LastIsCommitted, StillToReplay, Written
<1>3. DirtyTracked'
  BY DEF CleanInv, DirtyTracked
<1> QED BY <1>1, <1>2, <1>3 DEF CleanInv

LEMMA CommitInv ==
    ASSUME TypeOK, CleanInv, faults' = {}, Commit
    PROVE  CleanInv'
<1> USE SameRecs DEF Commit, files, memory, history
<1>1. TornLast'
  <2>1. CASE pc' = pc
    BY <2>1 DEF CleanInv, TornLast
  <2>2. CASE pc' # pc
    <3>1. ~Leftover
      BY <2>2
    <3> QED BY <3>1, NoTorn DEF CleanInv, TornLast
  <2> QED BY <2>1, <2>2
<1>2. Marked'
  BY DEF CleanInv, Marked
<1>3. FileCurrent'
  BY DEF CleanInv, FileCurrent
<1>4. LastIsCommitted'
  BY DEF CleanInv, LastIsCommitted
<1>5. StillToReplay'
  BY DEF CleanInv, StillToReplay
<1>6. Written'
  <2>1. CASE pc' = pc
    BY <2>1 DEF CleanInv, Written
  <2>2. CASE pc' # pc
    <3>1. ~Leftover /\ pc = "idle" /\ todo' = dirty' /\ dirty' = dirty
      BY <2>2
    <3>2. \A l \in Loc : \A i \in 1..Len(journal) :
             LastRec(i, l) => journal[i].val = durable[l]
      BY <3>1 DEF CleanInv, LastIsCommitted
    <3> QED BY <2>2, <3>1, <3>2 DEF Written
  <2> QED BY <2>1, <2>2
<1>7. DirtyTracked'
  BY DEF CleanInv, DirtyTracked
<1>8. ReplayScan'
  BY DEF CleanInv, ReplayScan
<1> QED BY <1>1, <1>2, <1>3, <1>4, <1>5, <1>6, <1>7, <1>8 DEF CleanInv

LEMMA FsyncInv ==
    ASSUME TypeOK, CleanInv, Fsync
    PROVE  CleanInv'
<1> USE SameRecs DEF Fsync, files, memory, history
<1>1. TornLast'
  BY DEF CleanInv, TornLast
<1>2. Marked'
  BY DEF CleanInv, Marked
<1>3. FileCurrent'
  BY DEF CleanInv, FileCurrent
<1>4. LastIsCommitted'
  <2>1. ~Leftover => dirty \ todo = {}
    BY DEF CleanInv, Written
  <2>2. ~Leftover => \A l \in Loc : \A i \in 1..Len(journal) :
           LastRec(i, l) => journal[i].val = durable[l]
    BY <2>1 DEF CleanInv, Written
  <2> QED BY <2>2 DEF LastIsCommitted
<1>5. StillToReplay'
  BY DEF CleanInv, StillToReplay
<1>6. Written'
  BY DEF CleanInv, Written
<1>7. DirtyTracked'
  BY DEF CleanInv, DirtyTracked
<1>8. ReplayScan'
  BY DEF CleanInv, ReplayScan
<1> QED BY <1>1, <1>2, <1>3, <1>4, <1>5, <1>6, <1>7, <1>8 DEF CleanInv

LEMMA OpenInv ==
    ASSUME TypeOK, CleanInv, Open
    PROVE  CleanInv'
<1> USE SameRecs DEF Open, files, memory, history
<1>1. TornLast'
  BY DEF CleanInv, TornLast
<1>2. Marked'
  BY DEF CleanInv, Marked
<1>3. FileCurrent'
  BY DEF CleanInv, FileCurrent
<1>4. LastIsCommitted'
  BY DEF CleanInv, LastIsCommitted
<1>5. StillToReplay'
  BY DEF CleanInv, StillToReplay
<1>6. Written'
  BY DEF CleanInv, Written
<1>7. DirtyTracked'
  BY DEF CleanInv, DirtyTracked
<1>8. ReplayScan'
  <2>1. offset = 0 /\ verdict = 0
    BY DEF CleanInv, ReplayScan
  <2> QED BY <2>1 DEF ReplayScan
<1> QED BY <1>1, <1>2, <1>3, <1>4, <1>5, <1>6, <1>7, <1>8 DEF CleanInv

LEMMA CheckDoneInv ==
    ASSUME TypeOK, CleanInv, CheckDone
    PROVE  CleanInv'
<1> USE SameRecs DEF CheckDone, files, memory, history
<1>0. IF verdict = 1 THEN journal # <<>> /\ ~Leftover
      ELSE journal = <<>> \/ Leftover
  <2>1. CASE offset = 0 /\ verdict = 0
    BY <2>1, EmptyIsEmpty
  <2>2. CASE offset \in 1..Len(journal) /\ (verdict = 1 <=> journal[offset] = CommitMark)
    BY <2>2, EmptyIsEmpty DEF Leftover
  <2>3. CASE offset > Len(journal) /\ verdict = -1 /\ Leftover
    BY <2>3
  <2> QED BY <2>1, <2>2, <2>3 DEF CleanInv, ReplayScan
<1>1. TornLast'
  <2>1. CASE verdict = 1
    BY <1>0, <2>1, NoTorn DEF CleanInv, TornLast
  <2>2. CASE verdict # 1
    BY <2>2 DEF CleanInv, TornLast
  <2> QED BY <2>1, <2>2
<1>2. Marked'
  BY <1>0 DEF CleanInv, Marked, Leftover
<1>3. FileCurrent'
  BY <1>0 DEF CleanInv, FileCurrent
<1>4. LastIsCommitted'
  BY DEF CleanInv, LastIsCommitted
<1>5. StillToReplay'
  BY <1>0, EmptyIsEmpty DEF CleanInv, StillToReplay
<1>6. Written'
  BY DEF CleanInv, Written
<1>7. DirtyTracked'
  BY DEF CleanInv, DirtyTracked
<1>8. ReplayScan'
  BY DEF CleanInv, ReplayScan
<1> QED BY <1>1, <1>2, <1>3, <1>4, <1>5, <1>6, <1>7, <1>8 DEF CleanInv

LEMMA CheckRecordInv ==
    ASSUME TypeOK, CleanInv, CheckRecord
    PROVE  CleanInv'
<1> USE SameRecs DEF CheckRecord, files, memory, history
<1>1. TornLast'
  BY DEF CleanInv, TornLast
<1>2. Marked'
  BY DEF CleanInv, Marked
<1>3. FileCurrent'
  BY DEF CleanInv, FileCurrent
<1>4. LastIsCommitted'
  BY DEF CleanInv, LastIsCommitted
<1>5. StillToReplay'
  BY DEF CleanInv, StillToReplay
<1>6. Written'
  BY DEF CleanInv, Written
<1>7. DirtyTracked'
  BY DEF CleanInv, DirtyTracked
<1>8. ReplayScan'
  <2> DEFINE r == journal[offset + 1]
  <2>1. /\ offset + 1 \in 1..Len(journal)
        /\ r \in Records
        /\ offset \in Nat
    BY EmptyIsEmpty DEF TypeOK, RestType
  <2>2. CASE r.kind = "torn"
    <3>1. offset + 1 = Len(journal)
      BY <2>1, <2>2 DEF CleanInv, TornLast
    <3>2. Leftover
      BY <3>1, <2>1, <2>2, EmptyIsEmpty DEF Leftover, CommitMark
    <3>3. offset' > Len(journal) /\ verdict' = -1
      BY <2>1, <2>2, <3>1, RecordKinds
    <3> QED BY <3>2, <3>3 DEF ReplayScan
  <2>3. CASE r.kind # "torn"
    <3>1. /\ offset' = offset + 1
          /\ verdict' = 1 <=> r = CommitMark
      BY <2>1, <2>3, RecordKinds
    <3> QED BY <2>1, <3>1 DEF ReplayScan
  <2> QED BY <2>2, <2>3
<1> QED BY <1>1, <1>2, <1>3, <1>4, <1>5, <1>6, <1>7, <1>8 DEF CleanInv

LEMMA CrashInv ==
    ASSUME TypeOK, CleanInv, Crash
    PROVE  CleanInv'
<1> USE SameRecs DEF Crash, Forget, files, memory, history
<1>1. TornLast'
  BY DEF CleanInv, TornLast
<1>2. Marked'
  BY DEF CleanInv, Marked
<1>3. FileCurrent' /\ StillToReplay'
  <2>1. CASE pc \in {"idle", "write", "mark", "sync"}
    BY <2>1 DEF CleanInv, FileCurrent, StillToReplay
  <2>2. CASE pc \in {"replay", "recover"}
    <3>1. journal # <<>> /\ ~Leftover
      BY <2>2 DEF CleanInv, Marked, Leftover
    <3>2. \A l \in Loc : (\E i \in 1..Len(journal) : Rec(i, l))
                            \/ shared[l] = durable[l]
      BY <2>2 DEF CleanInv, StillToReplay, Rec
    <3> QED BY <3>1, <3>2 DEF FileCurrent, StillToReplay
  <2>3. CASE pc = "check"
    BY <2>3 DEF CleanInv, FileCurrent, StillToReplay
  <2> QED BY <2>1, <2>2, <2>3 DEF TypeOK, RestType
<1>4. LastIsCommitted'
  <2>1. CASE pc \in {"write", "mark"}
    <3>1. ~Leftover => dirty \ todo = {}
      BY <2>1 DEF CleanInv, Written
    <3>2. ~Leftover => \A l \in Loc : \A i \in 1..Len(journal) :
             LastRec(i, l) => journal[i].val = durable[l]
      BY <2>1, <3>1 DEF CleanInv, Written
    <3> QED BY <3>2 DEF LastIsCommitted
  <2>2. CASE pc \notin {"write", "mark"}
    BY <2>2 DEF CleanInv, LastIsCommitted
  <2> QED BY <2>1, <2>2
<1>5. Written' /\ DirtyTracked' /\ ReplayScan'
  BY DEF Written, DirtyTracked, ReplayScan
<1> QED BY <1>1, <1>2, <1>3, <1>4, <1>5 DEF CleanInv

LEMMA WriteRegionInv ==
    ASSUME TypeOK, CleanInv, NEW l \in Loc, WriteRegion(l)
    PROVE  CleanInv'
<1> USE DEF WriteRegion, files, memory, history
<1> DEFINE r == WriteRecord(l, View[l])
<1>0. /\ r \in Records
      /\ r.kind = "write" /\ r.at = l /\ r.val = View[l]
      /\ l \in todo /\ l \in dirty /\ l \in copied
      /\ View[l] = private[l]
      /\ r # CommitMark
  <2>1. View[l] \in Cells
    BY ViewType DEF TypeOK
  <2>2. l \in todo /\ l \in dirty /\ l \in copied
    BY DEF CleanInv, Written, DirtyTracked, NextRegion
  <2>3. View[l] = private[l]
    BY <2>2 DEF View
  <2> QED BY <2>1, <2>2, <2>3, NewRecords DEF WriteRecord, CommitMark
<1>1. /\ journal' = Append(journal, r)
      /\ journal \in Seq(Records)
      /\ Len(journal) \in Nat
      /\ Len(journal') = Len(journal) + 1
      /\ \A i \in 1..Len(journal) : journal'[i] = journal[i]
      /\ journal'[Len(journal) + 1] = r
      /\ Leftover'
  <2>1. journal' = Append(journal, r) /\ journal \in Seq(Records)
    BY DEF TypeOK
  <2> QED BY <2>1, <1>0, AppendFacts
<1>2. \A i, k : Rec(i, k)' <=> Rec(i, k) \/ (i = Len(journal) + 1 /\ k = l)
  BY <1>0, <1>1, AppendRecs
<1>3. TornLast'
  BY <1>0, <1>1 DEF CleanInv, TornLast
<1>4. Marked' /\ FileCurrent' /\ LastIsCommitted' /\ StillToReplay' /\ ReplayScan'
  BY DEF CleanInv, Marked, FileCurrent, LastIsCommitted, StillToReplay, ReplayScan
<1>5. DirtyTracked'
  BY DEF CleanInv, DirtyTracked
<1>6. Written'
  <2>1. todo' \subseteq dirty' /\ Leftover' /\ pc' = "write"
    BY <1>1 DEF CleanInv, Written
  <2>2. ASSUME NEW k \in dirty' \ todo'
        PROVE  \E i \in 1..Len(journal') : Rec(i, k)'
    <3>1. CASE k = l
      BY <3>1, <1>1, <1>2
    <3>2. CASE k # l
      <4>1. PICK i \in 1..Len(journal) : Rec(i, k)
        BY <3>2, <2>2 DEF CleanInv, Written
      <4> QED BY <4>1, <1>1, <1>2
    <3> QED BY <3>1, <3>2
  <2>3. ASSUME NEW k \in Loc, NEW i \in 1..Len(journal'), LastRec(i, k)'
        PROVE  journal'[i].val = IF k \in dirty' \ todo' THEN private'[k]
                                 ELSE durable'[k]
    <3>1. Rec(i, k)' /\ \A n \in (i+1)..Len(journal') : ~Rec(n, k)'
      BY <2>3 DEF LastRec
    <3>2. CASE i = Len(journal) + 1
      BY <3>1, <3>2, <1>0, <1>1, <1>2 DEF Rec
    <3>3. CASE i # Len(journal) + 1
      <4>1. k # l
        BY <3>1, <3>3, <1>1, <1>2
      <4>2. LastRec(i, k) /\ i \in 1..Len(journal)
        BY <3>1, <3>3, <1>1, <1>2 DEF LastRec
      <4> QED BY <4>1, <4>2, <1>1 DEF CleanInv, Written
    <3> QED BY <3>2, <3>3
  <2> QED BY <2>1, <2>2, <2>3 DEF Written
<1> QED BY <1>3, <1>4, <1>5, <1>6 DEF CleanInv

(* A record that is cut short ends the commit: nothing will be replayed. *)
LEMMA TornFacts ==
    ASSUME TypeOK, CleanInv, NEW l \in Loc, NEW n \in {1, 2}, pc = "write",
           journal' = Append(journal, TornRecord(l, n)),
           pc' \in {"idle", "down"}
    PROVE  TornLast' /\ Leftover' /\ shared = durable
<1>1. TornRecord(l, n) \in Records /\ TornRecord(l, n) # CommitMark
  BY NewRecords DEF TornRecord, CommitMark
<1>2. journal \in Seq(Records)
  BY DEF TypeOK
<1>3. Leftover' /\ TornLast'
  BY <1>1, <1>2, AppendFacts DEF CleanInv, TornLast
<1>4. shared = durable
  BY DEF CleanInv, FileCurrent
<1> QED BY <1>3, <1>4

LEMMA WriteFailsInv ==
    ASSUME TypeOK, CleanInv, NEW l \in Loc, WriteFails(l)
    PROVE  CleanInv'
<1> USE DEF WriteFails, files, memory, history
<1>1. CASE journal' = journal
  <2> USE <1>1, SameRecs
  <2>1. TornLast' /\ Marked' /\ FileCurrent' /\ StillToReplay' /\ Written' /\ ReplayScan'
    BY DEF CleanInv, TornLast, Marked, FileCurrent, StillToReplay, Written, ReplayScan
  <2>2. DirtyTracked'
    BY DEF CleanInv, DirtyTracked
  <2>3. LastIsCommitted'
    <3>1. ~Leftover => dirty \ todo = {}
      BY DEF CleanInv, Written
    <3>2. ~Leftover => \A k \in Loc : \A i \in 1..Len(journal) :
             LastRec(i, k) => journal[i].val = durable[k]
      BY <3>1 DEF CleanInv, Written
    <3> QED BY <3>2 DEF LastIsCommitted
  <2> QED BY <2>1, <2>2, <2>3 DEF CleanInv
<1>2. ASSUME NEW n \in {1, 2}, journal' = Append(journal, TornRecord(l, n))
      PROVE  CleanInv'
  <2>1. TornLast' /\ Leftover' /\ shared = durable
    BY <1>2, TornFacts
  <2>2. Marked' /\ FileCurrent' /\ LastIsCommitted' /\ StillToReplay' /\ Written' /\ ReplayScan'
    BY <2>1 DEF Marked, FileCurrent, LastIsCommitted, StillToReplay, Written, ReplayScan
  <2>3. DirtyTracked'
    BY DEF CleanInv, DirtyTracked
  <2> QED BY <2>1, <2>2, <2>3 DEF CleanInv
<1> QED BY <1>1, <1>2

LEMMA CrashInRecordInv ==
    ASSUME TypeOK, CleanInv, NEW l \in Loc, CrashInRecord(l)
    PROVE  CleanInv'
<1> USE DEF CrashInRecord, Forget
<1>1. PICK n \in {1, 2} : journal' = Append(journal, TornRecord(l, n))
  OBVIOUS
<1>2. TornLast' /\ Leftover' /\ shared = durable
  BY <1>1, TornFacts
<1>3. Marked' /\ FileCurrent' /\ LastIsCommitted' /\ StillToReplay' /\ Written' /\ ReplayScan'
  BY <1>2 DEF Marked, FileCurrent, LastIsCommitted, StillToReplay, Written, ReplayScan
<1>4. DirtyTracked'
  BY DEF DirtyTracked
<1> QED BY <1>2, <1>3, <1>4 DEF CleanInv

LEMMA WriteMarkInv ==
    ASSUME TypeOK, CleanInv, WriteMark, faults' = {}
    PROVE  CleanInv'
<1> USE DEF files, memory, history
<1>0. /\ journal' = Append(journal, CommitMark)
      /\ pc = "mark" /\ pc' = "replay" /\ offset' = 0
      /\ durable' = View
      /\ UNCHANGED <<shared, private, copied, dirty, changed, todo>>
  BY DEF WriteMark
<1>1. /\ journal \in Seq(Records)
      /\ Len(journal) \in Nat
      /\ Len(journal') = Len(journal) + 1
      /\ \A i \in 1..Len(journal) : journal'[i] = journal[i]
      /\ journal'[Len(journal')] = CommitMark
      /\ journal' # <<>> /\ ~Leftover'
  BY <1>0, AppendFacts, RecordsIncludeMark DEF TypeOK
<1>2. \A i, k : Rec(i, k)' <=> Rec(i, k)
  BY <1>0, <1>1, AppendRecs, RecordsIncludeMark DEF CommitMark
<1>3. \A k \in Loc : durable'[k] = IF k \in dirty THEN private[k] ELSE durable[k]
  BY <1>0 DEF View, CleanInv, DirtyTracked, FileCurrent
<1>4. TornLast'
  BY <1>0, <1>1 DEF CleanInv, TornLast, CommitMark
<1>5. Marked' /\ FileCurrent' /\ Written' /\ ReplayScan'
  BY <1>0, <1>1 DEF Marked, FileCurrent, Written, ReplayScan
<1>6. LastIsCommitted'
  <2> SUFFICES ASSUME NEW k \in Loc, NEW i \in 1..Len(journal'), LastRec(i, k)'
               PROVE  journal'[i].val = durable'[k]
    BY DEF LastIsCommitted
  <2>1. i \in 1..Len(journal) /\ LastRec(i, k)
    <3>1. Rec(i, k)' /\ \A n \in (i+1)..Len(journal') : ~Rec(n, k)'
      BY DEF LastRec
    <3>2. Rec(i, k) /\ \A n \in (i+1)..Len(journal) : ~Rec(n, k)
      BY <3>1, <1>1, <1>2
    <3>3. i \in 1..Len(journal)
      BY <3>2 DEF Rec
    <3> QED BY <3>2, <3>3 DEF LastRec
  <2> QED BY <2>1, <1>0, <1>1, <1>3 DEF CleanInv, Written
<1>7. StillToReplay'
  <2> SUFFICES ASSUME NEW k \in Loc, shared'[k] # durable'[k]
               PROVE  \E i \in 1..Len(journal') : Rec(i, k)'
    BY <1>0, <1>1 DEF StillToReplay
  <2>1. k \in dirty \ todo
    BY <1>0, <1>3 DEF CleanInv, FileCurrent, Written
  <2>2. PICK i \in 1..Len(journal) : Rec(i, k)
    BY <2>1, <1>0 DEF CleanInv, Written
  <2> QED BY <2>2, <1>1, <1>2
<1>8. DirtyTracked'
  BY <1>0, <1>3 DEF CleanInv, DirtyTracked, View, TypeOK, RestType
<1> QED BY <1>4, <1>5, <1>6, <1>7, <1>8 DEF CleanInv

LEMMA ReplayRecordInv ==
    ASSUME TypeOK, CleanInv, ReplayRecord
    PROVE  CleanInv'
<1> USE SameRecs DEF files, memory, history
<1> DEFINE r == journal[offset + 1]
<1>0. /\ pc \in {"replay", "recover"}
      /\ journal' = journal /\ durable' = durable
      /\ UNCHANGED <<private, copied, dirty, changed, todo, verdict>>
  BY DEF ReplayRecord
<1>1. journal # <<>> /\ ~Leftover
  BY <1>0 DEF CleanInv, Marked, Leftover
<1>2. \A i \in 1..Len(journal) : journal[i].kind # "torn"
  BY <1>1, NoTorn DEF CleanInv
<1>3. offset \in Nat /\ offset <= Len(journal) /\ Len(journal) \in Nat
  BY <1>0, EmptyIsEmpty DEF CleanInv, StillToReplay, TypeOK, RestType
<1>4. CASE offset >= Len(journal)
  <2>1. offset = Len(journal)
    BY <1>3, <1>4
  <2>2. \A k \in Loc : shared[k] = durable[k]
    BY <1>0, <1>3, <2>1 DEF CleanInv, StillToReplay
  <2>3. shared = durable
    BY <2>2 DEF TypeOK, RestType
  <2>4. /\ shared' = shared
        /\ pc' = IF pc = "replay" THEN "sync" ELSE "idle"
    BY <1>3, <1>4 DEF ReplayRecord, ReplayDone
  <2>5. TornLast' /\ Marked' /\ FileCurrent'
    BY <1>0, <1>1, <1>2, <2>3, <2>4 DEF TornLast, Marked, FileCurrent, Leftover
  <2>6. LastIsCommitted' /\ StillToReplay' /\ Written' /\ ReplayScan'
    BY <1>0, <2>4 DEF CleanInv, LastIsCommitted, StillToReplay, Written, ReplayScan
  <2>7. DirtyTracked'
    BY <1>0, <2>4 DEF CleanInv, DirtyTracked
  <2> QED BY <2>5, <2>6, <2>7 DEF CleanInv
<1>5. CASE offset < Len(journal)
  <2>1. offset + 1 \in 1..Len(journal) /\ r \in Records /\ r.kind \in {"write", "commit"}
    BY <1>2, <1>3, <1>5, EmptyIsEmpty, RecordKinds
  <2>2. pc' = pc /\ offset' = offset + 1
    BY <1>3, <1>5, <2>1 DEF ReplayRecord
  <2>3. \A k \in Loc : Rec(offset + 1, k) => shared'[k] = durable[k] \/
                          \E i \in (offset+2)..Len(journal) : Rec(i, k)
    <3> SUFFICES ASSUME NEW k \in Loc, Rec(offset + 1, k),
                        ~ \E i \in (offset+2)..Len(journal) : Rec(i, k)
                 PROVE  shared'[k] = durable[k]
      OBVIOUS
    <3>1. LastRec(offset + 1, k)
      BY <1>3 DEF LastRec
    <3>2. r.val = durable[k]
      BY <1>0, <1>1, <2>1, <3>1 DEF CleanInv, LastIsCommitted
    <3>3. r.kind = "write" /\ r.at = k
      BY DEF Rec
    <3>4. shared' = [shared EXCEPT ![r.at] = r.val]
      BY <1>3, <1>5, <3>3 DEF ReplayRecord
    <3> QED BY <3>2, <3>3, <3>4 DEF TypeOK, RestType
  <2>4. \A k \in Loc : ~Rec(offset + 1, k) => shared'[k] = shared[k]
    <3> SUFFICES ASSUME NEW k \in Loc, ~Rec(offset + 1, k)
                 PROVE  shared'[k] = shared[k]
      OBVIOUS
    <3>1. r.kind = "commit" \/ r.at # k
      BY <2>1 DEF Rec
    <3>2. shared' = shared \/ shared' = [shared EXCEPT ![r.at] = r.val]
      BY <1>3, <1>5, <2>1 DEF ReplayRecord
    <3>3. r.kind = "commit" => shared' = shared
      BY <1>3, <1>5 DEF ReplayRecord
    <3> QED BY <3>1, <3>2, <3>3 DEF TypeOK, RestType
  <2>5. StillToReplay'
    <3> SUFFICES ASSUME NEW k \in Loc, shared'[k] # durable[k]
                 PROVE  \E i \in (offset+2)..Len(journal) : Rec(i, k)
      BY <1>0, <1>3, <2>1, <2>2 DEF StillToReplay
    <3>1. CASE Rec(offset + 1, k)
      BY <2>3, <3>1
    <3>2. CASE ~Rec(offset + 1, k)
      <4>1. shared[k] # durable[k]
        BY <2>4, <3>2
      <4>2. PICK i \in (offset+1)..Len(journal) : Rec(i, k)
        BY <4>1, <1>0 DEF CleanInv, StillToReplay
      <4>3. i # offset + 1
        BY <3>2, <4>2
      <4> QED BY <4>2, <4>3, <1>3
    <3> QED BY <3>1, <3>2
  <2>6. TornLast' /\ Marked' /\ FileCurrent' /\ LastIsCommitted' /\ Written' /\ ReplayScan'
    BY <1>0, <1>2, <2>2
       DEF CleanInv, TornLast, Marked, FileCurrent, LastIsCommitted, Written, ReplayScan
  <2>7. DirtyTracked'
    BY <1>0, <2>2 DEF CleanInv, DirtyTracked
  <2> QED BY <2>5, <2>6, <2>7 DEF CleanInv
<1> QED BY <1>3, <1>4, <1>5

LEMMA SyncInv ==
    ASSUME TypeOK, CleanInv, Sync
    PROVE  CleanInv'
<1> USE SameRecs DEF files, memory, history
<1>0. /\ pc = "sync" /\ pc' = "idle" /\ dirty' = {}
      /\ shared' = shared /\ durable' = durable
      /\ private' = private /\ copied' = copied /\ todo' = todo
      /\ journal' = <<>> \/ journal' = journal
  BY DEF Sync
<1>1. shared = durable /\ ~Leftover /\ \A i \in 1..Len(journal) : journal[i].kind # "torn"
  BY <1>0, NoTorn DEF CleanInv, FileCurrent, Marked, Leftover
<1>2. TornLast' /\ LastIsCommitted'
  <2>1. CASE journal' = <<>>
    <3>1. Len(journal') = 0
      BY <2>1
    <3> QED BY <3>1 DEF TornLast, LastIsCommitted
  <2>2. CASE journal' = journal
    BY <1>0, <1>1, <2>2 DEF CleanInv, TornLast, LastIsCommitted
  <2> QED BY <1>0, <2>1, <2>2
<1>3. Marked' /\ FileCurrent' /\ StillToReplay' /\ Written' /\ ReplayScan'
  BY <1>0, <1>1 DEF Marked, FileCurrent, StillToReplay, Written, ReplayScan
<1>4. DirtyTracked'
  BY <1>0 DEF CleanInv, DirtyTracked
<1> QED BY <1>2, <1>3, <1>4 DEF CleanInv

LEMMA NextInv == TypeOK /\ IInv /\ [Next]_vars => IInv'
<1> SUFFICES ASSUME TypeOK, IInv, [Next]_vars, faults' = {} PROVE CleanInv'
  BY DEF IInv
<1>0. CleanInv
  <2>1. faults = {}
    BY DEF Next, Work, Begin, Update, Commit, WriteRegion, WriteFails, Fsync,
           WriteMark, ReplayRecord, Sync, Crash, CrashInRecord, Forget, Open,
           CheckRecord, CheckDone, history, vars
  <2> QED BY <2>1 DEF IInv
<1>1. CASE Begin
  BY <1>0, <1>1, BeginInv
<1>2. ASSUME NEW l \in Loc, NEW v \in Val, Update(l, v) PROVE CleanInv'
  BY <1>0, <1>2, UpdateInv
<1>3. CASE Commit
  BY <1>0, <1>3, CommitInv
<1>4. ASSUME NEW l \in Loc, WriteRegion(l) PROVE CleanInv'
  BY <1>0, <1>4, WriteRegionInv
<1>5. ASSUME NEW l \in Loc, WriteFails(l) PROVE CleanInv'
  BY <1>0, <1>5, WriteFailsInv
<1>6. CASE Fsync
  BY <1>0, <1>6, FsyncInv
<1>7. CASE WriteMark
  BY <1>0, <1>7, WriteMarkInv
<1>8. CASE ReplayRecord
  BY <1>0, <1>8, ReplayRecordInv
<1>9. CASE Sync
  BY <1>0, <1>9, SyncInv
<1>10. CASE Crash
  BY <1>0, <1>10, CrashInv
<1>11. ASSUME NEW l \in Loc, CrashInRecord(l) PROVE CleanInv'
  BY <1>0, <1>11, CrashInRecordInv
<1>12. CASE Open
  BY <1>0, <1>12, OpenInv
<1>13. CASE CheckRecord
  BY <1>0, <1>13, CheckRecordInv
<1>14. CASE CheckDone
  BY <1>0, <1>14, CheckDoneInv
<1>15. CASE UNCHANGED vars
  BY <1>0, <1>15, SameRecs DEF vars, CleanInv, TornLast, Marked, FileCurrent,
     LastIsCommitted, StillToReplay, Written, DirtyTracked, ReplayScan
<1> QED
  BY <1>1, <1>2, <1>3, <1>4, <1>5, <1>6, <1>7, <1>8, <1>9, <1>10, <1>11,
     <1>12, <1>13, <1>14, <1>15 DEF Next, Work

(* Types and the inductive invariant hold in every reachable state.          *)
THEOREM Inductive == Spec => [](TypeOK /\ IInv)
  BY InitType, InitInv, NextType, NextInv, PTL DEF Spec

(* Atomicity: whenever the program runs, the data file holds what the last   *)
(* COMMIT marker made durable, whatever was killed or failed before, until   *)
(* the first fault.                                                          *)
THEOREM Atomicity == Spec => []Atomic
<1>1. IInv => Atomic
  BY DEF IInv, CleanInv, FileCurrent, Atomic
<1> QED BY <1>1, Inductive, PTL

(* What the private mapping shows differently from the committed contents is *)
(* in the dirty regions of the next commit.                                  *)
THEOREM NothingIsForgotten == Spec => []NothingForgotten
<1>1. IInv => NothingForgotten
  BY DEF IInv, CleanInv, FileCurrent, DirtyTracked, NothingForgotten, View
<1> QED BY <1>1, Inductive, PTL

-----------------------------------------------------------------------------
(* Write-ahead logging, which survives uncommitted and cut records too.      *)

LEMMA MarkStep == TypeOK /\ MarkInv /\ [Next]_vars => MarkInv'
<1> SUFFICES ASSUME TypeOK, MarkInv, [Next]_vars PROVE MarkInv'
  OBVIOUS
<1> USE DEF files, memory, history
<1>1. CASE WriteMark
  <2>1. "lost mark" \notin faults' => journal' = Append(journal, CommitMark)
    BY <1>1 DEF WriteMark
  <2>2. journal' = Append(journal, CommitMark) => EndsInMark'
    BY RecordsIncludeMark, AppendFacts DEF TypeOK, EndsInMark
  <2>3. pc' = "replay"
    BY <1>1 DEF WriteMark
  <2> QED BY <2>1, <2>2, <2>3 DEF MarkInv
<1>2. CASE CheckDone
  <2>1. verdict = 1 => EndsInMark
    BY <1>2, EmptyIsEmpty DEF MarkInv, EndsInMark, CheckDone
  <2> QED BY <1>2, <2>1 DEF MarkInv, EndsInMark, CheckDone
<1>3. CASE CheckRecord
  <2> DEFINE r == journal[offset + 1]
  <2>1. offset + 1 \in 1..Len(journal) /\ r \in Records
    BY <1>3, EmptyIsEmpty DEF CheckRecord, TypeOK, RestType
  <2>2. verdict' = 1 => offset' = offset + 1 /\ r = CommitMark
    BY <1>3, <2>1, RecordKinds DEF CheckRecord
  <2>3. pc' = "check" /\ journal' = journal
    BY <1>3 DEF CheckRecord
  <2> QED BY <2>1, <2>2, <2>3 DEF MarkInv
<1>4. CASE ReplayRecord
  <2>1. /\ pc \in {"replay", "recover"}
        /\ pc' \in {pc, "sync", "idle"}
        /\ pc' = "sync" => pc = "replay"
        /\ journal' = journal /\ faults' = faults
    BY <1>4 DEF ReplayRecord, ReplayDone
  <2> QED BY <2>1 DEF MarkInv, EndsInMark
<1>5. CASE Sync
  <2>1. pc' = "idle"
    BY <1>5 DEF Sync
  <2> QED BY <2>1 DEF MarkInv
<1>6. CASE Crash \/ \E l \in Loc : CrashInRecord(l)
  <2>1. pc' = "down" /\ verdict' = 0
    BY <1>6 DEF Crash, CrashInRecord, Forget
  <2> QED BY <2>1 DEF MarkInv
<1>7. CASE Open
  <2>1. pc = "down" /\ pc' = "check" /\ verdict' = verdict
    BY <1>7 DEF Open
  <2> QED BY <2>1 DEF MarkInv
<1>8. CASE \/ Begin \/ Commit \/ Fsync
           \/ \E l \in Loc, v \in Val : Update(l, v)
           \/ \E l \in Loc : WriteRegion(l) \/ WriteFails(l)
  <2>1. pc' \in {"idle", "write", "mark"}
    BY <1>8 DEF Begin, Commit, Fsync, Update, WriteRegion, WriteFails
  <2> QED BY <2>1 DEF MarkInv
<1>9. CASE UNCHANGED vars
  BY <1>9 DEF vars, MarkInv, EndsInMark
<1> QED
  BY <1>1, <1>2, <1>3, <1>4, <1>5, <1>6, <1>7, <1>8, <1>9 DEF Next, Work

(* The data file changes only while the journal ends in a COMMIT marker,     *)
(* except after a commit whose marker could not be written.                  *)
THEOREM WriteAheadLogging == Spec => WriteAhead
<1>1. Init => MarkInv
  BY DEF Init, MarkInv
<1>2. MarkInv /\ [Next]_vars =>
         [shared' # shared /\ "lost mark" \notin faults =>
             journal # <<>> /\ journal[Len(journal)] = CommitMark]_vars
  <2> SUFFICES ASSUME MarkInv, Next, shared' # shared, "lost mark" \notin faults
               PROVE  journal # <<>> /\ journal[Len(journal)] = CommitMark
    OBVIOUS
  <2>1. ReplayRecord
    BY DEF Next, Work, Begin, Update, Commit, WriteRegion, WriteFails, Fsync,
           WriteMark, Sync, Crash, CrashInRecord, Forget, Open, CheckRecord,
           CheckDone, files
  <2>2. pc \in {"replay", "recover"}
    BY <2>1 DEF ReplayRecord
  <2> QED BY <2>2 DEF MarkInv, EndsInMark
<1> QED
  BY <1>1, <1>2, InitType, NextType, MarkStep, PTL DEF Spec, WriteAhead

-----------------------------------------------------------------------------
(* Refinement of AtomicStore.                                                *)

LEMMA StoreStep ==
    ASSUME TypeOK, CleanInv, CleanInv', Next, faults' = {}
    PROVE  Store!Next \/ UNCHANGED <<durable, Observed>>
<1> USE DEF files, memory, history
<1>1. ASSUME NEW l \in Loc, NEW v \in Val, Update(l, v)
      PROVE  Store!Update(l, v)
  <2>1. /\ pc = "idle" /\ pc' = "idle"
        /\ private' = [private EXCEPT ![l] = v]
        /\ copied' = copied \cup {l}
        /\ shared' = shared /\ durable' = durable
    BY <1>1 DEF Update
  <2>2. \A k \in Loc : Observed'[k] = IF k = l THEN v ELSE Observed[k]
    BY <2>1 DEF Observed, TypeOK, RestType
  <2>3. Observed' = [Observed EXCEPT ![l] = v]
    BY <2>2 DEF Observed
  <2> QED BY <2>1, <2>3 DEF Store!Update
<1>2. CASE WriteMark
  <2>1. durable' = View /\ pc = "mark" /\ pc' = "replay"
    BY <1>2 DEF WriteMark
  <2>2. View = Observed
    BY <2>1 DEF View, Observed
  <2>3. Observed' = Observed
    BY <1>2, <2>1 DEF WriteMark, View, Observed
  <2> QED BY <2>1, <2>2, <2>3 DEF Store!Next, Store!Commit
<1>3. CASE Crash \/ \E l \in Loc : CrashInRecord(l)
  <2>1. copied' = {} /\ pc' = "down" /\ durable' = durable
    BY <1>3 DEF Crash, CrashInRecord, Forget
  <2>2. Observed' = durable
    BY <2>1 DEF Observed, TypeOK, RestType
  <2> QED BY <2>1, <2>2 DEF Store!Next, Store!Restart
<1>4. CASE \/ Begin \/ Commit \/ Fsync
           \/ \E l \in Loc : WriteRegion(l) \/ WriteFails(l)
  <2>1. /\ pc \in {"idle", "write", "mark"}
        /\ pc' \in {"idle", "write", "mark"}
        /\ UNCHANGED <<private, copied, shared, durable>>
    BY <1>4 DEF Begin, Commit, Fsync, WriteRegion, WriteFails
  <2> QED BY <2>1 DEF Observed
<1>5. CASE ReplayRecord \/ Sync \/ Open \/ CheckRecord \/ CheckDone
  <2>1. /\ pc \notin {"idle", "write", "mark"}
        /\ pc' \notin {"write", "mark"}
        /\ UNCHANGED <<private, copied, durable>>
    BY <1>5 DEF ReplayRecord, ReplayDone, Sync, Open, CheckRecord, CheckDone
  <2>2. pc' = "idle" => shared' = durable'
    BY DEF CleanInv, FileCurrent
  <2> QED BY <2>1, <2>2 DEF Observed
<1>6. Val \subseteq Cells
  BY DEF Cells
<1> QED
  BY <1>1, <1>2, <1>3, <1>4, <1>5, <1>6 DEF Next, Work, Store!Next

(* db.c implements a store that changes atomically: every step of a fault-   *)
(* free behaviour is an update, a commit, a restart, or invisible.           *)
THEOREM Refinement == CleanSpec => StoreSpec
<1>1. Init => Store!Init
  BY DEF Init, Store!Init, Observed
<1>2. [Next /\ faults' = {}]_vars => [Next]_vars
  OBVIOUS
<1>3. TypeOK /\ IInv /\ IInv' /\ faults = {} /\ [Next /\ faults' = {}]_vars
         => [Store!Next]_<<durable, Observed>>
  <2> SUFFICES ASSUME TypeOK, IInv, IInv', faults = {},
                      [Next /\ faults' = {}]_vars
               PROVE  Store!Next \/ UNCHANGED <<durable, Observed>>
    BY DEF Store!svars
  <2>1. CASE Next /\ faults' = {}
    BY <2>1, StoreStep DEF IInv
  <2>2. CASE UNCHANGED vars
    BY <2>2 DEF vars, Observed
  <2> QED BY <2>1, <2>2
<1>4. Init => faults = {}
  BY DEF Init
<1>5. faults = {} /\ [Next /\ faults' = {}]_vars => (faults = {})'
  BY DEF vars
<1> QED
  BY <1>1, <1>2, <1>3, <1>4, <1>5, InitType, InitInv, NextType, NextInv, PTL
     DEF CleanSpec, StoreSpec, Store!Spec, Store!svars
-----------------------------------------------------------------------------
(* DirtyRegions. *)

\* A boundary that is put in its place, and a turn of the loop of db_commit.
Arranging == INSTANCE Folding WITH Op <- Arrange
Scanning  == INSTANCE Folding WITH Op <- Scan

\* Those of the first k boundaries that are of one type and at x or before it.
Below(b, k, type, x) == {i \in 1..k : b[i].type = type /\ b[i].position <= x}
Count(b, k, type, x) == Cardinality(Below(b, k, type, x))

\* There are finitely many.
LEMMA BelowFinite ==
    ASSUME NEW b, NEW k \in Nat, NEW type, NEW x
    PROVE  /\ IsFiniteSet(Below(b, k, type, x)) /\ Count(b, k, type, x) \in Nat
           /\ Below(b, k, type, x) \subseteq 1..k
<1>1. IsFiniteSet(1..k) /\ Below(b, k, type, x) \in SUBSET (1..k)
    BY FS_Interval DEF Below
<1> QED
    BY <1>1, FS_Subset, FS_CardinalityType DEF Count

\* One more boundary.
LEMMA CountNext ==
    ASSUME NEW b, NEW k \in Nat, NEW type, NEW x
    PROVE  /\ b[k + 1].type = type /\ b[k + 1].position <= x
                => Count(b, k + 1, type, x) = Count(b, k, type, x) + 1
           /\ ~(b[k + 1].type = type /\ b[k + 1].position <= x)
                => Count(b, k + 1, type, x) = Count(b, k, type, x)
<1>1. PICK A, B : A = Below(b, k, type, x) /\ B = Below(b, k + 1, type, x)
    OBVIOUS
<1>2. IsFiniteSet(A) /\ A \subseteq 1..k
    BY <1>1, BelowFinite
<1>3. k + 1 \notin A
    BY <1>2
<1>4. 1..k + 1 = (1..k) \cup {k + 1}
    OBVIOUS
<1>5. CASE b[k + 1].type = type /\ b[k + 1].position <= x
    <2>1. B = A \cup {k + 1}
        BY ONLY <1>1, <1>4, <1>5, Zenon DEF Below
    <2>2. Cardinality(A \cup {k + 1}) = Cardinality(A) + 1
        BY ONLY <1>2, <1>3, FS_AddElement
    <2> QED
        BY ONLY <1>1, <1>5, <2>1, <2>2, Zenon DEF Count
<1>6. CASE ~(b[k + 1].type = type /\ b[k + 1].position <= x)
    <2>1. B = A
        BY ONLY <1>1, <1>4, <1>6, Zenon DEF Below
    <2> QED
        BY ONLY <1>1, <1>6, <2>1, Zenon DEF Count
<1> QED
    BY ONLY <1>5, <1>6, Zenon

\* No more boundaries are counted in a part than in the whole.
LEMMA CountLess ==
    ASSUME NEW b, NEW c, NEW k \in Nat, NEW n \in Nat, NEW type, NEW x, NEW y,
           \A i \in Below(b, k, type, x) : i \in Below(c, n, type, y)
    PROVE  Count(b, k, type, x) <= Count(c, n, type, y)
<1>1. IsFiniteSet(Below(c, n, type, y)) /\ Below(b, k, type, x) \in SUBSET Below(c, n, type, y)
    BY BelowFinite
<1> QED
    BY <1>1, FS_Subset DEF Count

\* t is what s was with n elements, and x at place i.
Inserted(t, s, n, i, x) == /\ \A j \in 1..i - 1 : t[j] = s[j]
                           /\ t[i] = x
                           /\ \A j \in i..n : t[j + 1] = s[j]

\* A sequence that got one more element.
LEMMA InsertIs ==
    ASSUME NEW s \in Seq(Boundary), NEW i \in 1..Len(s) + 1, NEW x \in Boundary
    PROVE  LET t == InsertAt(s, i, x)
           IN t \in Seq(Boundary) /\ Len(t) = Len(s) + 1 /\ Inserted(t, s, Len(s), i, x)
<1>1. PICK n : n = Len(s)
    OBVIOUS
<1>2. n \in Nat /\ i \in 1..n + 1 /\ \A k \in 1..n : s[k] \in Boundary
    BY <1>1, ElementOfSeq
<1>3. PICK p, q, o : p = SubSeq(s, 1, i - 1) /\ q = SubSeq(s, i, n) /\ o = <<x>>
    OBVIOUS
<1>4. p \in Seq(Boundary) /\ Len(p) = i - 1 /\ \A j \in 1..i - 1 : p[j] = s[j]
    <2>1. \A k \in 1..i - 1 : s[k] \in Boundary
        BY <1>2
    <2>2. 1 \in Int /\ i - 1 \in Int
        BY <1>2
    <2>3. /\ p \in Seq(Boundary) /\ Len(p) = (IF 1 <= i - 1 THEN i - 1 - 1 + 1 ELSE 0)
          /\ \A j \in 1..i - 1 - 1 + 1 : p[j] = s[1 + j - 1]
        BY ONLY <1>3, <2>1, <2>2, SubSeqProperties
    <2> QED
        BY <1>2, <2>3
<1>5. q \in Seq(Boundary) /\ Len(q) = n - i + 1 /\ \A j \in 1..n - i + 1 : q[j] = s[i + j - 1]
    <2>1. \A k \in i..n : s[k] \in Boundary
        BY <1>2
    <2>2. i \in Int /\ n \in Int
        BY <1>2
    <2>3. /\ q \in Seq(Boundary) /\ Len(q) = (IF i <= n THEN n - i + 1 ELSE 0)
          /\ \A j \in 1..n - i + 1 : q[j] = s[i + j - 1]
        BY ONLY <1>3, <2>1, <2>2, SubSeqProperties
    <2> QED
        BY <1>2, <2>3
<1>6. o \in Seq(Boundary) /\ Len(o) = 1 /\ o[1] = x
    BY <1>3
<1>7. PICK r, t : r = p \o o /\ t = r \o q
    OBVIOUS
<1>8. r \in Seq(Boundary) /\ Len(r) = i /\ (\A j \in 1..i - 1 : r[j] = s[j]) /\ r[i] = x
    <2>1. /\ r \in Seq(Boundary) /\ Len(r) = Len(p) + Len(o)
          /\ \A j \in 1..Len(p) + Len(o) : r[j] = IF j <= Len(p) THEN p[j] ELSE o[j - Len(p)]
        BY ONLY <1>4, <1>6, <1>7, ConcatProperties
    <2> QED
        BY <1>2, <1>4, <1>6, <2>1
<1>9. /\ t \in Seq(Boundary) /\ Len(t) = n + 1 /\ (\A j \in 1..i : t[j] = r[j])
      /\ \A j \in i + 1..n + 1 : t[j] = q[j - i]
    <2>1. /\ t \in Seq(Boundary) /\ Len(t) = Len(r) + Len(q)
          /\ \A j \in 1..Len(r) + Len(q) : t[j] = IF j <= Len(r) THEN r[j] ELSE q[j - Len(r)]
        <3>1. t = r \o q
            BY ONLY <1>7, Zenon
        <3> QED
            BY ONLY <1>5, <1>8, <3>1, ConcatProperties
    <2> QED
        BY <1>2, <1>5, <1>8, <2>1
<1>10. \A j \in i..n : t[j + 1] = s[j]
    <2>1. SUFFICES ASSUME NEW j \in i..n PROVE t[j + 1] = s[j]
        OBVIOUS
    <2>2. j + 1 \in i + 1..n + 1 /\ (j + 1) - i \in 1..n - i + 1 /\ i + ((j + 1) - i) - 1 = j
        BY <1>2
    <2> QED
        BY <1>5, <1>9, <2>2
<1>11. t[i] = x /\ \A j \in 1..i - 1 : t[j] = s[j]
    BY <1>2, <1>8, <1>9
<1>12. InsertAt(s, i, x) = t
    BY ONLY <1>1, <1>3, <1>7, Zenon DEF InsertAt
<1> QED
    BY ONLY <1>1, <1>9, <1>10, <1>11, <1>12, Zenon DEF Inserted

\* What it adds to the counts.
LEMMA InsertCounts ==
    ASSUME NEW s, NEW n \in Nat, NEW i \in 1..n + 1, NEW x, NEW t,
           Inserted(t, s, n, i, x), NEW type, NEW y
    PROVE  /\ x.type = type /\ x.position <= y => Count(t, n + 1, type, y) = Count(s, n, type, y) + 1
           /\ ~(x.type = type /\ x.position <= y) => Count(t, n + 1, type, y) = Count(s, n, type, y)
<1>1. PICK A, B, C : A = Below(s, n, type, y) /\ B = Below(t, n + 1, type, y) /\ C = B \ {i}
    OBVIOUS
<1>2. IsFiniteSet(A) /\ A \subseteq 1..n /\ IsFiniteSet(B) /\ B \subseteq 1..n + 1
    <2>1. n + 1 \in Nat
        OBVIOUS
    <2> QED
        BY ONLY <1>1, <2>1, n \in Nat, BelowFinite
<1>3. PICK g : g = [j \in A |-> IF j < i THEN j ELSE j + 1]
    OBVIOUS
<1>4. \A j \in 1..n : /\ j < i => (j \in A <=> j \in B)
                      /\ j >= i => (j \in A <=> j + 1 \in B)
    BY <1>1 DEF Below, Inserted
<1>5. g \in Bijection(A, C)
    <2>1. \A j \in A : g[j] \in C
        BY <1>1, <1>2, <1>3, <1>4
    <2>2. \A k \in C : \E j \in A : g[j] = k
        <3>1. SUFFICES ASSUME NEW k \in C PROVE \E j \in A : g[j] = k
            OBVIOUS
        <3>2. k \in 1..n + 1 /\ k # i /\ k \in B
            BY <1>1, <1>2
        <3>3. CASE k < i
            <4>1. k \in 1..n
                BY <3>2, <3>3
            <4>2. k \in A
                BY <1>4, <3>2, <3>3, <4>1
            <4> QED
                BY <1>3, <3>3, <4>2
        <3>4. CASE ~(k < i)
            <4>1. k - 1 \in 1..n /\ k - 1 >= i /\ (k - 1) + 1 = k
                BY <3>2, <3>4
            <4>2. k - 1 \in A
                BY <1>4, <3>2, <4>1
            <4>3. g[k - 1] = k
                BY <1>3, <4>1, <4>2
            <4> QED
                BY <4>2, <4>3
        <3> QED
            BY <3>3, <3>4
    <2>3. \A j, k \in A : g[j] = g[k] => j = k
        BY <1>2, <1>3
    <2>4. g \in [A -> C]
        BY <1>3, <2>1
    <2> QED
        BY <2>2, <2>3, <2>4 DEF Bijection, Injection, Surjection, IsInjective
<1>6. IsFiniteSet(C) /\ Cardinality(C) = Cardinality(A)
    BY <1>2, <1>5, FS_Bijection DEF ExistsBijection
<1>7. CASE x.type = type /\ x.position <= y
    <2>1. B = C \cup {i} /\ i \notin C
        BY <1>1, <1>7 DEF Below, Inserted
    <2>2. Cardinality(C \cup {i}) = Cardinality(C) + 1
        BY ONLY <1>6, <2>1, FS_AddElement
    <2> QED
        BY ONLY <1>1, <1>6, <1>7, <2>1, <2>2, Zenon DEF Count
<1>8. CASE ~(x.type = type /\ x.position <= y)
    <2>1. B = C
        BY <1>1, <1>8 DEF Below, Inserted
    <2> QED
        BY ONLY <1>1, <1>6, <1>8, <2>1, Zenon DEF Count
<1> QED
    BY ONLY <1>7, <1>8, Zenon

\* The positions never get smaller.
Ordered(s) == \A i, j \in DOMAIN s : i < j => s[i].position <= s[j].position

\* The first k boundaries of b, sorted.
Arranged(s, b, k) ==
    /\ s \in Seq(Boundary) /\ Len(s) = k /\ Ordered(s)
    /\ \A type \in {"START", "END"}, x \in Int : Count(s, k, type, x) = Count(b, k, type, x)

\* Putting one more in its place.
LEMMA ArrangeNext ==
    ASSUME NEW b \in Seq(Boundary), NEW k \in Nat, k + 1 <= Len(b),
           NEW S, \A s \in S : Arranged(s, b, k), NEW t \in Arrange(S, b[k + 1])
    PROVE  Arranged(t, b, k + 1)
<1>1. PICK x : x = b[k + 1]
    OBVIOUS
<1>2. x \in Boundary
    BY <1>1
<1>3. PICK s \in S : \E i \in 1..Len(s) + 1 :
                            /\ t = InsertAt(s, i, x)
                            /\ \A j \in 1..i - 1 : s[j].position <= x.position
                            /\ \A j \in i..Len(s) : s[j].position >= x.position
    BY ONLY <1>1, t \in Arrange(S, b[k + 1]), Zenon DEF Arrange
<1>4. PICK i \in 1..Len(s) + 1 : /\ t = InsertAt(s, i, x)
                                 /\ \A j \in 1..i - 1 : s[j].position <= x.position
                                 /\ \A j \in i..Len(s) : s[j].position >= x.position
    BY <1>3
<1>5. s \in Seq(Boundary) /\ Len(s) = k /\ DOMAIN s = 1..k /\ Ordered(s) /\ i \in 1..Len(s) + 1 /\ i \in 1..k + 1
    BY DEF Arranged
<1>6. t \in Seq(Boundary) /\ Len(t) = k + 1 /\ Inserted(t, s, k, i, x)
    <2>1. LET u == InsertAt(s, i, x)
          IN u \in Seq(Boundary) /\ Len(u) = Len(s) + 1 /\ Inserted(u, s, Len(s), i, x)
        BY ONLY <1>2, <1>5, InsertIs
    <2> QED
        BY ONLY <1>4, <1>5, <2>1, Zenon
<1>7. /\ \A j \in 1..i - 1 : t[j] = s[j]
      /\ t[i] = x
      /\ \A j \in i..k : t[j + 1] = s[j]
    BY <1>6 DEF Inserted
<1>8. \A j \in 1..k + 1 : j > i => t[j] = s[j - 1] /\ j - 1 \in i..k
    <2>1. SUFFICES ASSUME NEW j \in 1..k + 1, j > i PROVE t[j] = s[j - 1] /\ j - 1 \in i..k
        OBVIOUS
    <2>2. j - 1 \in i..k /\ (j - 1) + 1 = j
        BY <1>5, <2>1
    <2> QED
        BY <1>7, <2>2
<1>9. Ordered(t)
    <2>1. SUFFICES ASSUME NEW j \in 1..k + 1, NEW m \in 1..k + 1, j < m
                   PROVE  t[j].position <= t[m].position
        BY <1>6 DEF Ordered
    <2>2. /\ \A a \in 1..i - 1 : s[a].position <= x.position
          /\ \A a \in i..k : x.position <= s[a].position
        <3>1. \A a \in i..k : s[a].position >= x.position
            BY ONLY <1>4, <1>5
        <3>2. x.position \in Int /\ \A a \in 1..k : s[a].position \in Int
            <4>1. \A a \in 1..k : s[a] \in Boundary
                BY <1>5, ElementOfSeq
            <4> QED
                BY <1>2, <4>1, SMTT(40) DEF Boundary, Position
        <3> QED
            BY <1>4, <1>5, <3>1, <3>2
    <2>3. \A a, c \in 1..k : a < c => s[a].position <= s[c].position
        BY <1>5 DEF Ordered
    <2>4. CASE m < i
        <3>1. j \in 1..i - 1 /\ m \in 1..i - 1 /\ j \in 1..k /\ m \in 1..k
            BY <1>5, <2>1, <2>4
        <3> QED
            BY <1>7, <2>1, <2>3, <3>1
    <2>5. CASE m = i
        <3>1. j \in 1..i - 1
            BY <1>5, <2>1, <2>5
        <3> QED
            BY <1>7, <2>2, <2>5, <3>1
    <2>6. CASE m > i /\ j < i
        <3>1. j \in 1..i - 1 /\ j \in 1..k /\ m - 1 \in 1..k /\ (j < m - 1 \/ j = m - 1) /\ m - 1 >= i
            BY <1>5, <1>8, <2>1, <2>6
        <3>2. j < m - 1
            BY <1>5, <2>1, <2>6, <3>1
        <3> QED
            BY <1>7, <1>8, <2>3, <2>6, <3>1, <3>2
    <2>7. CASE m > i /\ j = i
        BY <1>7, <1>8, <2>2, <2>7
    <2>8. CASE m > i /\ j > i
        <3>1. j - 1 \in 1..k /\ m - 1 \in 1..k /\ j - 1 < m - 1
            BY <1>5, <2>1, <2>8
        <3>2. t[j] = s[j - 1] /\ t[m] = s[m - 1]
            BY <1>8, <2>8
        <3> QED
            BY ONLY <2>3, <3>1, <3>2
    <2> QED
        BY <1>5, <2>1, <2>4, <2>5, <2>6, <2>7, <2>8
<1>10. ASSUME NEW type \in {"START", "END"}, NEW y \in Int
      PROVE  Count(t, k + 1, type, y) = Count(b, k + 1, type, y)
    <2>1. Count(s, k, type, y) = Count(b, k, type, y)
        BY DEF Arranged
    <2>2. /\ x.type = type /\ x.position <= y => Count(t, k + 1, type, y) = Count(s, k, type, y) + 1
          /\ ~(x.type = type /\ x.position <= y) => Count(t, k + 1, type, y) = Count(s, k, type, y)
        <3>1. k \in Nat /\ i \in 1..k + 1
            BY <1>5
        <3> QED
            BY ONLY <1>6, <3>1, InsertCounts
    <2>3. /\ x.type = type /\ x.position <= y => Count(b, k + 1, type, y) = Count(b, k, type, y) + 1
          /\ ~(x.type = type /\ x.position <= y) => Count(b, k + 1, type, y) = Count(b, k, type, y)
        BY ONLY <1>1, k \in Nat, CountNext
    <2> QED
        BY ONLY <2>1, <2>2, <2>3, Zenon
<1> QED
    BY <1>6, <1>9, <1>10 DEF Arranged

\* qsort leaves the counts as they are, however it orders equal positions.
LEMMA SortedIs ==
    ASSUME NEW b \in Seq(Boundary), NEW s \in Sorted(b)
    PROVE  Arranged(s, b, Len(b))
<1>1. PICK n, base : n = Len(b) /\ base = {<<>>}
    OBVIOUS
<1>2. n \in Nat /\ DOMAIN b = 1..n
    BY <1>1
<1>3. PICK v : v = FoldLeft(Arrange, base, b)
    OBVIOUS
<1>4. PICK f : /\ f[0] = base
               /\ \A k \in 1..Len(b) : f[k] = Arrange(f[k - 1], b[k])
               /\ v = f[Len(b)]
    <2>1. v = Arranging!FoldLeft(Arrange, base, b)
        BY ONLY <1>3, Zenon DEF FoldLeft, Arranging!FoldLeft, MapThenFoldSet, Arranging!MapThenFoldSet, Max, Arranging!Max
    <2>2. DOMAIN b = 1..Len(b) /\ Len(b) \in Nat
        BY <1>1, <1>2
    <2>3. \E f : /\ f[0] = base
                 /\ \A k \in 1..Len(b) : f[k] = Arrange(f[k - 1], b[k])
                 /\ Arranging!FoldLeft(Arrange, base, b) = f[Len(b)]
        BY ONLY <2>2, Arranging!Steps, ZenonT(60)
    <2> QED
        BY ONLY <2>1, <2>3, Zenon
<1>5. PICK S : S = {k \in Nat : k <= n => \A t \in f[k] : Arranged(t, b, k)}
    OBVIOUS
<1>6. S \subseteq Nat /\ 0 \in S
    <2>1. PICK e : e = <<>>
        OBVIOUS
    <2>2. e \in Seq(Boundary) /\ Len(e) = 0 /\ DOMAIN e = {}
        BY <2>1
    <2>3. \A type, x : Count(e, 0, type, x) = Count(b, 0, type, x)
        BY DEF Count, Below
    <2>4. Arranged(e, b, 0)
        BY ONLY <2>2, <2>3, Zenon DEF Arranged, Ordered
    <2> QED
        BY <1>1, <1>4, <1>5, <2>1, <2>4
<1>7. ASSUME NEW k \in S PROVE k + 1 \in S
    <2>1. k \in Nat
        BY <1>5
    <2>2. SUFFICES ASSUME k + 1 <= n, NEW t \in f[k + 1] PROVE Arranged(t, b, k + 1)
        BY <1>5, <2>1
    <2>3. k + 1 \in 1..Len(b) /\ (k + 1) - 1 = k /\ k <= n /\ k + 1 <= Len(b)
        BY <1>1, <1>2, <2>1, <2>2
    <2>4. \A u \in f[k] : Arranged(u, b, k)
        BY <1>5, <2>3
    <2>5. f[k + 1] = Arrange(f[k], b[k + 1])
        BY ONLY <1>4, <2>3, Zenon
    <2>6. PICK F : F = f[k]
        OBVIOUS
    <2>7. t \in Arrange(F, b[k + 1]) /\ \A u \in F : Arranged(u, b, k)
        BY ONLY t \in f[k + 1], <2>4, <2>5, <2>6, Zenon
    <2> QED
        BY ONLY <2>1, <2>3, <2>7, b \in Seq(Boundary), ArrangeNext
<1>8. S = Nat
    BY ONLY <1>6, <1>7, Arranging!Induction, Zenon
<1>9. n \in S /\ n <= n
    BY <1>2, <1>8
<1>10. s \in v
    BY ONLY <1>1, <1>3, s \in Sorted(b), Zenon DEF Sorted
<1> QED
    BY ONLY <1>1, <1>4, <1>5, <1>9, <1>10, Zenon

\* Each region ends behind its start, and what lies between is what was asked for.
Balanced(b, n, bytes) ==
    /\ \A x \in Int : Count(b, n, "END", x) <= Count(b, n, "START", x - 1)
    /\ \A x \in Int : x \in bytes <=> Count(b, n, "END", x) < Count(b, n, "START", x)
    /\ Count(b, n, "END", Top) = Count(b, n, "START", Top)

\* It speaks of nothing but the counts.
LEMMA BalancedAlike ==
    ASSUME NEW b, NEW c, NEW n, NEW bytes, Balanced(b, n, bytes), Top \in Nat,
           \A type \in {"START", "END"}, x \in Int : Count(c, n, type, x) = Count(b, n, type, x)
    PROVE  Balanced(c, n, bytes)
<1>1. \A x \in Int : x - 1 \in Int
    OBVIOUS
<1>2. Top \in Int /\ "START" \in {"START", "END"} /\ "END" \in {"START", "END"}
    OBVIOUS
<1> QED
    BY <1>1, <1>2 DEF Balanced

\* A region is reported.
LEMMA RegionBalanced ==
    ASSUME NEW b \in Seq(Boundary), NEW bytes, Balanced(b, Len(b), bytes),
           NEW ptr \in Int, NEW size \in Int, size > 0, ptr >= 0, ptr + size <= Top, Top \in Nat
    PROVE  LET c == b \o <<[type |-> "START", position |-> ptr], [type |-> "END", position |-> ptr + size]>>
           IN /\ c \in Seq(Boundary) /\ Len(c) = Len(b) + 2
              /\ Balanced(c, Len(b) + 2, bytes \cup ptr..(ptr + size - 1))
<1>1. PICK u, v, n : /\ u = [type |-> "START", position |-> ptr]
                     /\ v = [type |-> "END", position |-> ptr + size]
                     /\ n = Len(b)
    OBVIOUS
<1>2. /\ u \in Boundary /\ v \in Boundary /\ n \in Nat
      /\ u.type = "START" /\ u.position = ptr /\ v.type = "END" /\ v.position = ptr + size
    BY <1>1 DEF Boundary, Position
<1>3. PICK c, new : c = b \o <<u, v>> /\ new = bytes \cup ptr..(ptr + size - 1)
    OBVIOUS
<1>4. /\ c \in Seq(Boundary) /\ Len(c) = n + 2 /\ (\A i \in 1..n : c[i] = b[i])
      /\ c[n + 1] = u /\ c[n + 2] = v
    <2>1. PICK o : o = <<u, v>>
        OBVIOUS
    <2>2. o \in Seq(Boundary) /\ Len(o) = 2 /\ o[1] = u /\ o[2] = v
        BY <1>2, <2>1
    <2>3. c = b \o o
        BY <1>3, <2>1
    <2>4. /\ c \in Seq(Boundary) /\ Len(c) = Len(b) + Len(o)
          /\ \A i \in 1..Len(b) + Len(o) : c[i] = IF i <= Len(b) THEN b[i] ELSE o[i - Len(b)]
        BY ONLY <2>2, <2>3, b \in Seq(Boundary), ConcatProperties
    <2>5. \A i \in 1..n + 2 : c[i] = IF i <= n THEN b[i] ELSE o[i - n]
        BY ONLY <1>1, <2>2, <2>4
    <2>6. n + 1 \in 1..n + 2 /\ ~(n + 1 <= n) /\ (n + 1) - n = 1
        BY <1>2
    <2>7. n + 2 \in 1..n + 2 /\ ~(n + 2 <= n) /\ (n + 2) - n = 2
        BY <1>2
    <2>8. c[n + 1] = u /\ c[n + 2] = v
        BY ONLY <2>2, <2>5, <2>6, <2>7
    <2>9. \A i \in 1..n : c[i] = b[i]
        BY ONLY <1>2, <2>5
    <2> QED
        BY ONLY <1>1, <2>2, <2>4, <2>8, <2>9
<1>5. ASSUME NEW x \in Int
      PROVE  /\ Count(b, n, "START", x) \in Nat /\ Count(b, n, "END", x) \in Nat
             /\ ptr <= x => Count(c, n + 2, "START", x) = Count(b, n, "START", x) + 1
             /\ ~(ptr <= x) => Count(c, n + 2, "START", x) = Count(b, n, "START", x)
             /\ ptr + size <= x => Count(c, n + 2, "END", x) = Count(b, n, "END", x) + 1
             /\ ~(ptr + size <= x) => Count(c, n + 2, "END", x) = Count(b, n, "END", x)
    <2>1. "START" # "END"
        OBVIOUS
    <2>2. ASSUME NEW type
          PROVE  /\ Count(b, n, type, x) \in Nat /\ Count(c, n, type, x) = Count(b, n, type, x)
                 /\ u.type = type /\ u.position <= x => Count(c, n + 1, type, x) = Count(c, n, type, x) + 1
                 /\ ~(u.type = type /\ u.position <= x) => Count(c, n + 1, type, x) = Count(c, n, type, x)
                 /\ v.type = type /\ v.position <= x => Count(c, n + 2, type, x) = Count(c, n + 1, type, x) + 1
                 /\ ~(v.type = type /\ v.position <= x) => Count(c, n + 2, type, x) = Count(c, n + 1, type, x)
        <3>1. Count(b, n, type, x) \in Nat
            BY ONLY <1>2, BelowFinite
        <3>2. Count(c, n, type, x) = Count(b, n, type, x)
            BY ONLY <1>4, Zenon DEF Count, Below
        <3>3. n + 1 \in Nat /\ (n + 1) + 1 = n + 2
            BY <1>2
        <3>4. /\ c[n + 1].type = type /\ c[n + 1].position <= x => Count(c, n + 1, type, x) = Count(c, n, type, x) + 1
              /\ ~(c[n + 1].type = type /\ c[n + 1].position <= x) => Count(c, n + 1, type, x) = Count(c, n, type, x)
            BY ONLY <1>2, CountNext
        <3>5. /\ c[(n + 1) + 1].type = type /\ c[(n + 1) + 1].position <= x
                    => Count(c, (n + 1) + 1, type, x) = Count(c, n + 1, type, x) + 1
              /\ ~(c[(n + 1) + 1].type = type /\ c[(n + 1) + 1].position <= x)
                    => Count(c, (n + 1) + 1, type, x) = Count(c, n + 1, type, x)
            BY ONLY <3>3, CountNext
        <3> QED
            BY ONLY <1>4, <3>1, <3>2, <3>3, <3>4, <3>5, Zenon
    <2>3. /\ Count(c, n + 2, "START", x) = Count(c, n + 1, "START", x)
          /\ Count(c, n + 1, "END", x) = Count(c, n, "END", x)
        BY ONLY <1>2, <2>1, <2>2, Zenon
    <2> QED
        BY ONLY <1>2, <2>2, <2>3, Zenon
<1>6. ASSUME NEW x \in Int
      PROVE  /\ Count(b, n, "END", x) <= Count(b, n, "START", x - 1)
             /\ Count(b, n, "START", x - 1) <= Count(b, n, "START", x)
             /\ x \in bytes <=> Count(b, n, "END", x) < Count(b, n, "START", x)
    <2>1. \A i \in 1..n : b[i].position \in Int
        <3>1. \A i \in 1..n : b[i] \in Boundary
            BY <1>1, ElementOfSeq
        <3> QED
            BY <3>1 DEF Boundary, Position
    <2>2. \A i \in Below(b, n, "START", x - 1) : i \in Below(b, n, "START", x)
        BY <2>1 DEF Below
    <2>3. Count(b, n, "START", x - 1) <= Count(b, n, "START", x)
        BY ONLY <1>2, <2>2, CountLess
    <2> QED
        BY <1>1, <2>3 DEF Balanced
<1>7. ASSUME NEW x \in Int
      PROVE  Count(c, n + 2, "END", x) <= Count(c, n + 2, "START", x - 1)
    <2>1. PICK y : y = x - 1
        OBVIOUS
    <2>2. y \in Int /\ Count(b, n, "END", x) <= Count(b, n, "START", y)
        BY <1>6, <2>1
    <2>3. /\ Count(b, n, "START", y) \in Nat
          /\ ptr <= y => Count(c, n + 2, "START", y) = Count(b, n, "START", y) + 1
          /\ ~(ptr <= y) => Count(c, n + 2, "START", y) = Count(b, n, "START", y)
        BY <1>5, <2>2
    <2>4. /\ Count(b, n, "END", x) \in Nat
          /\ ptr + size <= x => Count(c, n + 2, "END", x) = Count(b, n, "END", x) + 1
          /\ ~(ptr + size <= x) => Count(c, n + 2, "END", x) = Count(b, n, "END", x)
        BY <1>5
    <2>5. PICK e, s, cs, ce : e = Count(b, n, "END", x) /\ s = Count(b, n, "START", y)
                              /\ cs = Count(c, n + 2, "START", y) /\ ce = Count(c, n + 2, "END", x)
        OBVIOUS
    <2>6. ce <= cs
        BY <2>1, <2>2, <2>3, <2>4, <2>5
    <2> QED
        BY <2>1, <2>5, <2>6
<1>8. ASSUME NEW x \in Int
      PROVE  x \in new <=> Count(c, n + 2, "END", x) < Count(c, n + 2, "START", x)
    <2>1. PICK e, s, r, cs, ce : e = Count(b, n, "END", x) /\ s = Count(b, n, "START", x)
                              /\ r = Count(b, n, "START", x - 1)
                              /\ cs = Count(c, n + 2, "START", x) /\ ce = Count(c, n + 2, "END", x)
        OBVIOUS
    <2>2. e <= r /\ r <= s /\ (x \in bytes <=> e < s) /\ r \in Nat /\ e \in Nat /\ s \in Nat
        <3>1. x - 1 \in Int
            OBVIOUS
        <3> QED
            BY <1>5, <1>6, <2>1, <3>1
    <2>3. /\ ptr <= x => cs = s + 1
          /\ ~(ptr <= x) => cs = s
          /\ ptr + size <= x => ce = e + 1
          /\ ~(ptr + size <= x) => ce = e
        BY <1>5, <2>1
    <2>4. x \in new <=> x \in bytes \/ (ptr <= x /\ ~(ptr + size <= x))
        BY <1>3
    <2>5. x \in new <=> ce < cs
        BY ONLY <2>2, <2>3, <2>4, size > 0, ptr \in Int, size \in Int, x \in Int
    <2> QED
        BY ONLY <2>1, <2>5, Zenon
<1>9. Count(c, n + 2, "END", Top) = Count(c, n + 2, "START", Top)
    <2>1. Top \in Int /\ Count(b, n, "END", Top) = Count(b, n, "START", Top) /\ ptr <= Top
        BY <1>1 DEF Balanced
    <2> QED
        BY <1>5, <2>1
<1>10. Balanced(c, n + 2, new)
    BY <1>7, <1>8, <1>9 DEF Balanced
<1> QED
    BY <1>1, <1>3, <1>4, <1>10

Entry == [first : Int, size : Int]

\* The bytes in the entries, none of them in two.
Held(out)     == UNION {Bytes(out[i]) : i \in DOMAIN out}
Disjoint(out) == \A i, j \in DOMAIN out : i # j => Bytes(out[i]) \cap Bytes(out[j]) = {}

\* How far the first k boundaries reach.
Reached(s, k) == IF k = 0 THEN 0 ELSE s[k].position

\* Before the next turn of the loop: what lies before its position and was asked for is
\* in the entries or in the one that is being made.
ScanInv(w, s, k, bytes) ==
    /\ w = [nesting |-> w.nesting, first |-> w.first, out |-> w.out, failed |-> w.failed]
    /\ w.nesting \in Nat /\ w.nesting + Count(s, k, "END", Top) = Count(s, k, "START", Top)
    /\ w.failed = FALSE /\ w.first \in Int /\ w.out \in Seq(Entry) /\ Disjoint(w.out)
    /\ w.nesting > 0 => w.first <= Reached(s, k) /\ \A y \in Held(w.out) : y < w.first
    /\ \A y \in Int : y \in bytes /\ y < Reached(s, k)
                      <=> y \in Held(w.out) \/ (w.nesting > 0 /\ w.first <= y /\ y < Reached(s, k))

\* One more entry.
LEMMA HeldAppend ==
    ASSUME NEW out \in Seq(Entry), NEW e \in Entry
    PROVE  /\ Append(out, e) \in Seq(Entry)
           /\ Held(Append(out, e)) = Held(out) \cup Bytes(e)
           /\ Disjoint(out) /\ Held(out) \cap Bytes(e) = {} => Disjoint(Append(out, e))
<1>1. PICK n, a : n = Len(out) /\ a = Append(out, e)
    OBVIOUS
<1>2. /\ n \in Nat /\ DOMAIN out = 1..n /\ a \in Seq(Entry) /\ DOMAIN a = (1..n) \cup {n + 1}
      /\ (\A i \in 1..n : a[i] = out[i]) /\ a[n + 1] = e
    BY <1>1
<1>3. Held(a) = Held(out) \cup Bytes(e)
    BY ONLY <1>2, Zenon DEF Held
<1>4. ASSUME Disjoint(out), Held(out) \cap Bytes(e) = {} PROVE Disjoint(a)
    <2>1. \A i \in DOMAIN out : Bytes(out[i]) \cap Bytes(e) = {}
        BY ONLY <1>4, Zenon DEF Held
    <2>2. SUFFICES ASSUME NEW i \in DOMAIN a, NEW j \in DOMAIN a, i # j
                   PROVE  Bytes(a[i]) \cap Bytes(a[j]) = {}
        BY DEF Disjoint
    <2>3. CASE i \in DOMAIN out /\ j \in DOMAIN out
        <3>1. Bytes(out[i]) \cap Bytes(out[j]) = {}
            BY ONLY <1>4, <2>2, <2>3, Zenon DEF Disjoint
        <3>2. a[i] = out[i] /\ a[j] = out[j]
            BY <1>2, <2>3
        <3> QED
            BY ONLY <3>1, <3>2, Zenon
    <2>4. CASE i \in DOMAIN out /\ j = n + 1
        BY ONLY <1>2, <2>1, <2>4, Zenon
    <2>5. CASE i = n + 1 /\ j \in DOMAIN out
        BY ONLY <1>2, <2>1, <2>5, Zenon
    <2>6. DOMAIN a = DOMAIN out \cup {n + 1}
        BY ONLY <1>2, Zenon
    <2> QED
        BY ONLY <2>2, <2>3, <2>4, <2>5, <2>6, Zenon
<1> QED
    BY ONLY <1>1, <1>2, <1>3, <1>4, Zenon

\* What the counts say of the next boundary.
LEMMA NextBoundary ==
    ASSUME NEW s \in Seq(Boundary), Ordered(s), NEW bytes, Balanced(s, Len(s), bytes),
           NEW k \in Nat, k + 1 <= Len(s), Top \in Nat
    PROVE  /\ Count(s, k, "START", Top) \in Nat /\ Count(s, k, "END", Top) \in Nat
           /\ s[k + 1].position \in Int /\ Reached(s, k) \in Int /\ Reached(s, k) <= s[k + 1].position
           /\ s[k + 1].type = "START"
                => /\ Count(s, k + 1, "START", Top) = Count(s, k, "START", Top) + 1
                   /\ Count(s, k + 1, "END", Top) = Count(s, k, "END", Top)
           /\ s[k + 1].type # "START"
                => /\ Count(s, k + 1, "START", Top) = Count(s, k, "START", Top)
                   /\ Count(s, k + 1, "END", Top) = Count(s, k, "END", Top) + 1
                   /\ Count(s, k, "END", Top) < Count(s, k, "START", Top)
           /\ \A y \in Int : Reached(s, k) <= y /\ y < s[k + 1].position
                => (y \in bytes <=> Count(s, k, "END", Top) < Count(s, k, "START", Top))
<1>1. PICK n, x, c, d : n = Len(s) /\ x = s[k + 1] /\ c = x.position /\ d = Reached(s, k)
    OBVIOUS
<1>2. /\ n \in Nat /\ DOMAIN s = 1..n /\ k + 1 \in 1..n /\ x \in Boundary
      /\ \A i \in 1..n : s[i].type \in {"START", "END"} /\ s[i].position \in 0..Top
    <2>1. \A i \in 1..Len(s) : s[i] \in Boundary
        BY ElementOfSeq
    <2> QED
        BY <1>1, <2>1 DEF Boundary, Position
<1>3. \A i \in 1..n : s[i].position \in Int /\ 0 <= s[i].position /\ s[i].position <= Top
    BY <1>2
<1>4. c \in Int /\ d \in Int /\ d <= c /\ x.type \in {"START", "END"} /\ c <= Top
    <2>1. CASE k = 0
        BY <1>1, <1>2, <1>3, <2>1 DEF Reached
    <2>2. CASE k # 0
        <3>1. k \in 1..n /\ k < k + 1
            BY <1>2, <2>2
        <3> QED
            BY <1>1, <1>2, <1>3, <2>2, <3>1 DEF Reached, Ordered
    <2> QED
        BY <2>1, <2>2
<1>5. \A i \in 1..k : i \in 1..n /\ s[i].position <= d
    <2>1. SUFFICES ASSUME NEW i \in 1..k PROVE i \in 1..n /\ s[i].position <= d
        OBVIOUS
    <2>2. i \in 1..n /\ k \in 1..n /\ k # 0 /\ (i < k \/ i = k)
        BY <1>2
    <2>3. d = s[k].position
        BY ONLY <1>1, <2>2, Zenon DEF Reached
    <2>4. i < k => s[i].position <= s[k].position
        BY ONLY <1>2, <2>2, Ordered(s), Zenon DEF Ordered
    <2> QED
        BY ONLY <1>3, <2>2, <2>3, <2>4
<1>6. \A i \in 1..n : ~(i \in 1..k) => s[i].position >= c
    <2>1. SUFFICES ASSUME NEW i \in 1..n, ~(i \in 1..k) PROVE s[i].position >= c
        OBVIOUS
    <2>2. k + 1 < i \/ k + 1 = i
        BY <1>2, <2>1
    <2> QED
        BY <1>1, <1>2, <1>3, <2>2, SMTT(40) DEF Ordered
<1>7. PICK p, e : p = Count(s, k, "START", Top) /\ e = Count(s, k, "END", Top)
    OBVIOUS
<1>8. p \in Nat /\ e \in Nat
    BY <1>7, BelowFinite
<1>9. /\ x.type = "START" => Count(s, k + 1, "START", Top) = p + 1 /\ Count(s, k + 1, "END", Top) = e
      /\ x.type # "START" => Count(s, k + 1, "START", Top) = p /\ Count(s, k + 1, "END", Top) = e + 1
    <2>1. \A type : /\ x.type = type => Count(s, k + 1, type, Top) = Count(s, k, type, Top) + 1
                    /\ x.type # type => Count(s, k + 1, type, Top) = Count(s, k, type, Top)
        <3>1. SUFFICES ASSUME NEW type
                       PROVE  /\ x.type = type => Count(s, k + 1, type, Top) = Count(s, k, type, Top) + 1
                              /\ x.type # type => Count(s, k + 1, type, Top) = Count(s, k, type, Top)
            OBVIOUS
        <3>2. /\ s[k + 1].type = type /\ s[k + 1].position <= Top
                    => Count(s, k + 1, type, Top) = Count(s, k, type, Top) + 1
              /\ ~(s[k + 1].type = type /\ s[k + 1].position <= Top)
                    => Count(s, k + 1, type, Top) = Count(s, k, type, Top)
            BY ONLY k \in Nat, CountNext
        <3> QED
            BY ONLY <1>1, <1>4, <3>2, Zenon
    <2>2. "START" # "END"
        OBVIOUS
    <2>3. x.type = "START" \/ x.type = "END"
        BY <1>4
    <2> QED
        BY ONLY <1>7, <2>1, <2>2, <2>3, Zenon
<1>10. x.type # "START" => e < p
    <2>1. SUFFICES ASSUME x.type = "END" PROVE e < p
        BY <1>4
    <2>2. PICK y : y = c - 1
        OBVIOUS
    <2>3. y \in Int /\ Count(s, n, "END", c) <= Count(s, n, "START", y)
        <3>1. \A z \in Int : Count(s, n, "END", z) <= Count(s, n, "START", z - 1)
            BY ONLY <1>1, Balanced(s, Len(s), bytes), Zenon DEF Balanced
        <3>2. Count(s, n, "END", c) <= Count(s, n, "START", c - 1)
            BY ONLY <1>4, <3>1, Zenon
        <3>3. y \in Int
            BY <1>4, <2>2
        <3> QED
            BY ONLY <2>2, <3>2, <3>3, Zenon
    <2>4. Count(s, k + 1, "END", Top) <= Count(s, n, "END", c)
        <3>1. \A i \in Below(s, k + 1, "END", Top) : i \in Below(s, n, "END", c)
            <4>1. SUFFICES ASSUME NEW i \in 1..k + 1, s[i].type = "END" PROVE i \in 1..n /\ s[i].position <= c
                BY DEF Below
            <4>2. i \in 1..k \/ i = k + 1
                OBVIOUS
            <4> QED
                BY <1>1, <1>2, <1>3, <1>4, <1>5, <4>2
        <3>2. k + 1 \in Nat
            OBVIOUS
        <3> QED
            BY ONLY <1>2, <3>1, <3>2, CountLess
    <2>5. Count(s, n, "START", y) <= Count(s, k, "START", Top)
        <3>1. \A i \in Below(s, n, "START", y) : i \in Below(s, k, "START", Top)
            BY <1>2, <1>3, <1>4, <1>6, <2>2 DEF Below
        <3> QED
            BY ONLY <1>2, k \in Nat, <3>1, CountLess
    <2>6. Count(s, n, "END", c) \in Nat /\ Count(s, n, "START", y) \in Nat
        BY ONLY <1>2, BelowFinite
    <2>7. Count(s, k + 1, "END", Top) = e + 1
        BY <1>9, <2>1
    <2> QED
        BY ONLY <1>7, <1>8, <2>3, <2>4, <2>5, <2>6, <2>7
<1>11. ASSUME NEW y \in Int, d <= y, y < c PROVE y \in bytes <=> e < p
    <2>1. ASSUME NEW type PROVE Below(s, n, type, y) = Below(s, k, type, Top)
        <3>1. \A i \in 1..k : i \in 1..n /\ s[i].position <= y /\ s[i].position <= Top
            BY <1>3, <1>4, <1>5, <1>11
        <3>2. \A i \in 1..n : s[i].position <= y => i \in 1..k
            BY <1>3, <1>4, <1>6, <1>11
        <3> QED
            BY ONLY <3>1, <3>2, Zenon DEF Below
    <2>2. y \in bytes <=> Count(s, n, "END", y) < Count(s, n, "START", y)
        BY <1>1 DEF Balanced
    <2>3. Count(s, n, "START", y) = p /\ Count(s, n, "END", y) = e
        BY ONLY <1>7, <2>1, Zenon DEF Count
    <2> QED
        BY ONLY <2>2, <2>3
<1> QED
    BY ONLY <1>1, <1>4, <1>7, <1>8, <1>9, <1>10, <1>11, Zenon

\* The state of the loop.
State(m, f, o, no) == [nesting |-> m, first |-> f, out |-> o, failed |-> no]

\* The state of the loop, put together from its parts.
LEMMA ScanParts ==
    ASSUME NEW s, NEW k, NEW bytes, NEW m \in Nat, NEW f \in Int, NEW o \in Seq(Entry), NEW no, no = FALSE,
           m + Count(s, k, "END", Top) = Count(s, k, "START", Top), Disjoint(o),
           m > 0 => f <= Reached(s, k) /\ \A y \in Held(o) : y < f,
           \A y \in Int : y \in bytes /\ y < Reached(s, k)
                      <=> y \in Held(o) \/ (m > 0 /\ f <= y /\ y < Reached(s, k)),
           NEW w, w = State(m, f, o, no)
    PROVE  ScanInv(w, s, k, bytes)
<1>1. w.nesting = m /\ w.first = f /\ w.out = o /\ w.failed = no
    BY DEF State
<1>2. w = [nesting |-> w.nesting, first |-> w.first, out |-> w.out, failed |-> w.failed]
    BY ONLY <1>1, w = State(m, f, o, no), Zenon DEF State
<1> QED
    BY ONLY <1>1, <1>2, no = FALSE, m \in Nat, f \in Int, o \in Seq(Entry),
            m + Count(s, k, "END", Top) = Count(s, k, "START", Top), Disjoint(o),
            m > 0 => f <= Reached(s, k) /\ \A y \in Held(o) : y < f,
            \A y \in Int : y \in bytes /\ y < Reached(s, k)
                      <=> y \in Held(o) \/ (m > 0 /\ f <= y /\ y < Reached(s, k)), Zenon
       DEF ScanInv

\* A turn of the loop of db_commit.
LEMMA ScanTurn ==
    ASSUME NEW s \in Seq(Boundary), Ordered(s), NEW bytes, Balanced(s, Len(s), bytes),
           NEW k \in Nat, k + 1 <= Len(s), Top \in Nat, NEW w, ScanInv(w, s, k, bytes)
    PROVE  ScanInv(Scan(w, s[k + 1]), s, k + 1, bytes)
<1>1. PICK x, c, d, p, e : /\ x = s[k + 1] /\ c = x.position /\ d = Reached(s, k)
                           /\ p = Count(s, k, "START", Top) /\ e = Count(s, k, "END", Top)
    OBVIOUS
<1>2. /\ p \in Nat /\ e \in Nat /\ c \in Int /\ d \in Int /\ d <= c
      /\ x.type = "START" => /\ Count(s, k + 1, "START", Top) = p + 1
                             /\ Count(s, k + 1, "END", Top) = e
      /\ x.type # "START" => /\ Count(s, k + 1, "START", Top) = p
                             /\ Count(s, k + 1, "END", Top) = e + 1
                             /\ e < p
      /\ \A y \in Int : d <= y /\ y < c => (y \in bytes <=> e < p)
    <2>1. /\ Count(s, k, "START", Top) \in Nat /\ Count(s, k, "END", Top) \in Nat
          /\ s[k + 1].position \in Int /\ Reached(s, k) \in Int /\ Reached(s, k) <= s[k + 1].position
          /\ s[k + 1].type = "START"
               => /\ Count(s, k + 1, "START", Top) = Count(s, k, "START", Top) + 1
                  /\ Count(s, k + 1, "END", Top) = Count(s, k, "END", Top)
          /\ s[k + 1].type # "START"
               => /\ Count(s, k + 1, "START", Top) = Count(s, k, "START", Top)
                  /\ Count(s, k + 1, "END", Top) = Count(s, k, "END", Top) + 1
                  /\ Count(s, k, "END", Top) < Count(s, k, "START", Top)
          /\ \A y \in Int : Reached(s, k) <= y /\ y < s[k + 1].position
               => (y \in bytes <=> Count(s, k, "END", Top) < Count(s, k, "START", Top))
        BY NextBoundary
    <2> QED
        BY ONLY <1>1, <2>1, Zenon
<1>3. PICK no : no = FALSE
    OBVIOUS
<1>4. PICK m, f, o : m = w.nesting /\ f = w.first /\ o = w.out
    OBVIOUS
<1>5. /\ w = State(m, f, o, no)
      /\ m \in Nat /\ m + e = p /\ f \in Int /\ o \in Seq(Entry) /\ Disjoint(o)
      /\ m > 0 => f <= d /\ \A y \in Held(o) : y < f
      /\ \A y \in Int : y \in bytes /\ y < d <=> y \in Held(o) \/ (m > 0 /\ f <= y /\ y < d)
    BY ONLY <1>1, <1>3, <1>4, ScanInv(w, s, k, bytes), Zenon DEF ScanInv, State
<1>6. Reached(s, k + 1) = c /\ k + 1 # 0
    BY <1>1 DEF Reached
<1>7. \A y \in Held(o) : y \in Int
    <2>1. \A i \in DOMAIN o : o[i] \in Entry
        BY <1>5
    <2>2. \A i \in DOMAIN o : Bytes(o[i]) \subseteq Int
        BY <2>1 DEF Bytes, Entry
    <2> QED
        BY ONLY <2>2, Zenon DEF Held
<1>8. ASSUME NEW y \in Int
      PROVE  y \in bytes /\ y < c <=> y \in Held(o) \/ (m > 0 /\ f <= y /\ y < c)
    <2>1. /\ y \in bytes /\ y < d <=> y \in Held(o) \/ (m > 0 /\ f <= y /\ y < d)
          /\ d <= y /\ y < c => (y \in bytes <=> e < p)
          /\ m > 0 => f <= d /\ (y \in Held(o) => y < f)
        BY <1>2, <1>5
    <2>2. e < p <=> m > 0
        BY <1>2, <1>5
    <2> QED
        BY ONLY <1>2, <1>5, <2>1, <2>2
<1>9. \A y \in Held(o) : y < c
    BY ONLY <1>7, <1>8, Zenon
<1>10. CASE x.type = "START"
    <2>1. PICK g : g = IF m = 0 THEN c ELSE f
        OBVIOUS
    <2>2. Scan(w, x) = State(m + 1, g, o, no)
        <3>1. PICK z : z = IF w.nesting = 0 THEN x.position ELSE w.first
            OBVIOUS
        <3>2. Scan(w, x) = [w EXCEPT !.nesting = w.nesting + 1, !.first = z]
            BY ONLY <1>10, <3>1, Zenon DEF Scan
        <3>3. z = g
            BY ONLY <1>1, <1>4, <2>1, <3>1, Zenon
        <3>4. PICK u, r : r = m + 1 /\ u = State(r, g, o, no)
            OBVIOUS
        <3>5. [w EXCEPT !.nesting = r, !.first = g] = u
            <4>1. w = State(m, f, o, no)
                BY ONLY <1>5, Zenon
            <4>2. u = State(r, g, o, no)
                BY ONLY <3>4, Zenon
            <4>3. PICK v : v = State(r, f, o, no)
                OBVIOUS
            <4>4. [w EXCEPT !.nesting = r] = v
                BY ONLY <4>1, <4>3 DEF State
            <4>5. [v EXCEPT !.first = g] = u
                BY ONLY <4>2, <4>3 DEF State
            <4>6. [w EXCEPT !.nesting = r, !.first = g] = [[w EXCEPT !.nesting = r] EXCEPT !.first = g]
                OBVIOUS
            <4> QED
                BY ONLY <4>4, <4>5, <4>6, Zenon
        <3> QED
            BY ONLY <1>4, <3>2, <3>3, <3>4, <3>5, Zenon
    <2>3. m + 1 \in Nat /\ g \in Int /\ m + 1 + Count(s, k + 1, "END", Top) = Count(s, k + 1, "START", Top)
        <3>1. Count(s, k + 1, "START", Top) = p + 1 /\ Count(s, k + 1, "END", Top) = e
            BY ONLY <1>2, <1>10, Zenon
        <3> QED
            BY ONLY <1>2, <1>5, <2>1, <3>1
    <2>4. m + 1 > 0 /\ g <= c /\ \A y \in Held(o) : y < g
        <3>1. CASE m = 0
            BY ONLY <1>2, <1>5, <1>9, <2>1, <3>1
        <3>2. CASE m # 0
            <4>1. m > 0 /\ g = f
                BY <1>5, <2>1, <3>2
            <4> QED
                BY ONLY <1>2, <1>5, <4>1
        <3> QED
            BY ONLY <3>1, <3>2, Zenon
    <2>5. ASSUME NEW y \in Int
          PROVE  y \in bytes /\ y < c <=> y \in Held(o) \/ (m + 1 > 0 /\ g <= y /\ y < c)
        <3>1. y \in bytes /\ y < c <=> y \in Held(o) \/ (m > 0 /\ f <= y /\ y < c)
            BY ONLY <1>8, Zenon
        <3>2. m = 0 => g = c
            BY <2>1
        <3>3. m # 0 => g = f
            BY <2>1
        <3> QED
            BY ONLY <1>2, <1>5, <2>3, <3>1, <3>2, <3>3
    <2>6. PICK v, r : v = Scan(w, x) /\ r = m + 1
        OBVIOUS
    <2>7. /\ v = State(r, g, o, no)
          /\ r \in Nat /\ g \in Int /\ r + Count(s, k + 1, "END", Top) = Count(s, k + 1, "START", Top)
          /\ r > 0 => g <= Reached(s, k + 1) /\ \A y \in Held(o) : y < g
          /\ \A y \in Int : y \in bytes /\ y < Reached(s, k + 1)
                      <=> y \in Held(o) \/ (r > 0 /\ g <= y /\ y < Reached(s, k + 1))
        BY ONLY <1>6, <2>2, <2>3, <2>4, <2>5, <2>6, Zenon
    <2>8. ScanInv(v, s, k + 1, bytes)
        BY ONLY <1>3, <1>5, <2>7, ScanParts
    <2> QED
        BY ONLY <1>1, <2>6, <2>8, Zenon
<1>11. CASE x.type # "START"
    <2>1. m - 1 \in Nat /\ m > 0 /\ m # 0 /\ m - 1 + Count(s, k + 1, "END", Top) = Count(s, k + 1, "START", Top)
        BY ONLY <1>2, <1>5, <1>11
    <2>2. PICK en, q : en = [first |-> f, size |-> c - f] /\ q = IF m = 1 THEN Append(o, en) ELSE o
        OBVIOUS
    <2>3. en \in Entry /\ \A y \in Int : y \in Bytes(en) <=> f <= y /\ y < c
        BY <1>2, <1>5, <2>2 DEF Entry, Bytes
    <2>4. Bytes(en) \subseteq Int
        BY <1>2, <1>5, <2>2 DEF Bytes
    <2>5. Scan(w, x) = State(m - 1, f, q, no)
        <3>1. PICK z, t : /\ z = (w.failed \/ w.nesting = 0)
                          /\ t = IF w.nesting # 1 THEN w.out
                                 ELSE Append(w.out, [first |-> w.first, size |-> x.position - w.first])
            OBVIOUS
        <3>2. Scan(w, x) = [w EXCEPT !.nesting = w.nesting - 1, !.failed = z, !.out = t]
            BY ONLY <1>11, <3>1, Zenon DEF Scan
        <3>3. t = q
            BY ONLY <1>1, <1>4, <2>2, <3>1, Zenon
        <3>4. w.failed = no
            BY ONLY <1>5 DEF State
        <3>5. z = no
            BY ONLY <1>3, <1>4, <2>1, <3>1, <3>4, Zenon
        <3>6. PICK u, r : r = m - 1 /\ u = State(r, f, q, no)
            OBVIOUS
        <3>7. [w EXCEPT !.nesting = r, !.failed = no, !.out = q] = u
            <4>1. w = State(m, f, o, no)
                BY ONLY <1>5, Zenon
            <4>2. u = State(r, f, q, no)
                BY ONLY <3>6, Zenon
            <4>3. PICK v : v = State(r, f, o, no)
                OBVIOUS
            <4>4. [w EXCEPT !.nesting = r] = v
                BY ONLY <4>1, <4>3 DEF State
            <4>5. [v EXCEPT !.failed = no] = v
                BY ONLY <4>3 DEF State
            <4>6. [v EXCEPT !.out = q] = u
                BY ONLY <4>2, <4>3 DEF State
            <4>7. [w EXCEPT !.nesting = r, !.failed = no, !.out = q]
                    = [[[w EXCEPT !.nesting = r] EXCEPT !.failed = no] EXCEPT !.out = q]
                OBVIOUS
            <4> QED
                BY ONLY <4>4, <4>5, <4>6, <4>7, Zenon
        <3> QED
            BY ONLY <1>4, <3>2, <3>3, <3>5, <3>6, <3>7, Zenon
    <2>6. q \in Seq(Entry) /\ Disjoint(q) /\ Held(q) = (IF m = 1 THEN Held(o) \cup Bytes(en) ELSE Held(o))
        <3>1. Held(o) \cap Bytes(en) = {}
            <4>1. \A y \in Held(o) : y < f
                BY ONLY <1>5, <2>1
            <4> QED
                BY ONLY <1>5, <1>7, <2>3, <4>1
        <3>2. /\ Append(o, en) \in Seq(Entry)
              /\ Held(Append(o, en)) = Held(o) \cup Bytes(en)
              /\ Disjoint(Append(o, en))
            BY ONLY <1>5, <2>3, <3>1, HeldAppend
        <3> QED
            BY ONLY <1>5, <2>2, <3>2, Zenon
    <2>7. m - 1 > 0 => f <= c /\ \A y \in Held(q) : y < f
        <3>1. SUFFICES ASSUME m - 1 > 0 PROVE f <= c /\ \A y \in Held(q) : y < f
            OBVIOUS
        <3>2. m # 1
            BY <1>5, <3>1
        <3>3. Held(q) = Held(o)
            BY ONLY <2>6, <3>2, Zenon
        <3> QED
            BY ONLY <1>2, <1>5, <2>1, <3>3
    <2>8. ASSUME NEW y \in Int
          PROVE  y \in bytes /\ y < c <=> y \in Held(q) \/ (m - 1 > 0 /\ f <= y /\ y < c)
        <3>1. y \in bytes /\ y < c <=> y \in Held(o) \/ (f <= y /\ y < c)
            BY ONLY <1>8, <2>1, Zenon
        <3>2. CASE m = 1
            <4>1. y \in Held(q) <=> y \in Held(o) \/ (f <= y /\ y < c)
                BY ONLY <2>3, <2>6, <3>2, Zenon
            <4>2. ~(m - 1 > 0)
                BY <3>2
            <4> QED
                BY ONLY <3>1, <4>1, <4>2, Zenon
        <3>3. CASE m # 1
            <4>1. Held(q) = Held(o)
                BY ONLY <2>6, <3>3, Zenon
            <4>2. m - 1 > 0
                BY <1>5, <2>1, <3>3
            <4> QED
                BY ONLY <3>1, <4>1, <4>2, Zenon
        <3> QED
            BY ONLY <3>2, <3>3, Zenon
    <2>9. PICK v, r : v = Scan(w, x) /\ r = m - 1
        OBVIOUS
    <2>10. /\ v = State(r, f, q, no)
           /\ r \in Nat /\ r + Count(s, k + 1, "END", Top) = Count(s, k + 1, "START", Top)
           /\ r > 0 => f <= Reached(s, k + 1) /\ \A y \in Held(q) : y < f
           /\ \A y \in Int : y \in bytes /\ y < Reached(s, k + 1)
                      <=> y \in Held(q) \/ (r > 0 /\ f <= y /\ y < Reached(s, k + 1))
        BY ONLY <1>6, <2>1, <2>5, <2>7, <2>8, <2>9, Zenon
    <2>11. ScanInv(v, s, k + 1, bytes)
        BY ONLY <1>3, <1>5, <2>6, <2>10, ScanParts
    <2> QED
        BY ONLY <1>1, <2>9, <2>11, Zenon
<1> QED
    BY ONLY <1>10, <1>11, Zenon

\* Where nothing lies, nothing is counted.
LEMMA NoneCounted ==
    ASSUME NEW b, NEW k, NEW type, NEW x, \A i \in 1..k : ~(b[i].type = type /\ b[i].position <= x)
    PROVE  Count(b, k, type, x) = 0
<1>1. Below(b, k, type, x) = {}
    BY ONLY \A i \in 1..k : ~(b[i].type = type /\ b[i].position <= x), Zenon DEF Below
<1> QED
    BY <1>1, FS_EmptySet DEF Count

\* A transaction begins with nothing reported.
LEMMA NoneBalanced == Balanced(<<>>, 0, {})
<1>1. PICK b : b = <<>>
    OBVIOUS
<1>2. \A i \in 1..0 : FALSE
    OBVIOUS
<1>3. \A type, x : Count(b, 0, type, x) = 0
    BY ONLY <1>2, NoneCounted, Zenon
<1>4. Balanced(b, 0, {})
    BY ONLY <1>3 DEF Balanced
<1> QED
    BY ONLY <1>1, <1>4, Zenon

\* The loop of db_commit makes entries of just what was asked for.
LEMMA ScanAll ==
    ASSUME NEW s \in Seq(Boundary), Ordered(s), NEW bytes \in SUBSET Int, Balanced(s, Len(s), bytes), Top \in Nat
    PROVE  LET end == FoldLeft(Scan, [nesting |-> 0, first |-> 0, out |-> <<>>, failed |-> FALSE], s)
           IN /\ end.failed = FALSE /\ end.nesting = 0 /\ end.out \in Seq(Entry)
              /\ Held(end.out) = bytes /\ Disjoint(end.out)
<1>1. PICK n, no, none : n = Len(s) /\ no = FALSE /\ none = <<>>
    OBVIOUS
<1>2. /\ n \in Nat /\ DOMAIN s = 1..n
      /\ \A i \in 1..n : s[i].position \in Int /\ 0 <= s[i].position /\ s[i].position <= Top
    <2>1. \A i \in 1..Len(s) : s[i] \in Boundary
        BY ElementOfSeq
    <2> QED
        BY <1>1, <2>1 DEF Boundary, Position
<1>3. PICK base : base = State(0, 0, none, no)
    OBVIOUS
<1>4. PICK v : v = FoldLeft(Scan, base, s)
    OBVIOUS
<1>5. PICK f : /\ f[0] = base
               /\ \A k \in 1..Len(s) : f[k] = Scan(f[k - 1], s[k])
               /\ v = f[Len(s)]
    <2>1. v = Scanning!FoldLeft(Scan, base, s)
        BY ONLY <1>4, Zenon DEF FoldLeft, Scanning!FoldLeft, MapThenFoldSet, Scanning!MapThenFoldSet, Max, Scanning!Max
    <2>2. DOMAIN s = 1..Len(s) /\ Len(s) \in Nat
        BY <1>1, <1>2
    <2>3. \E f : /\ f[0] = base
                 /\ \A k \in 1..Len(s) : f[k] = Scan(f[k - 1], s[k])
                 /\ Scanning!FoldLeft(Scan, base, s) = f[Len(s)]
        BY ONLY <2>2, Scanning!Steps, ZenonT(60)
    <2> QED
        BY ONLY <2>1, <2>3, Zenon
<1>6. \A y \in Int : y \in bytes <=> Count(s, n, "END", y) < Count(s, n, "START", y)
    BY ONLY <1>1, Balanced(s, Len(s), bytes), Zenon DEF Balanced
<1>7. ScanInv(base, s, 0, bytes)
    <2>1. none \in Seq(Entry) /\ Held(none) = {} /\ Disjoint(none)
        BY <1>1 DEF Held, Disjoint
    <2>2. Count(s, 0, "END", Top) = 0 /\ Count(s, 0, "START", Top) = 0
        <3>1. \A i \in 1..0 : FALSE
            OBVIOUS
        <3> QED
            BY ONLY <3>1, NoneCounted, Zenon
    <2>3. Reached(s, 0) = 0
        BY DEF Reached
    <2>4. \A y \in Int : y \in bytes /\ y < 0 => FALSE
        <3>1. SUFFICES ASSUME NEW y \in Int, y < 0 PROVE ~(y \in bytes)
            OBVIOUS
        <3>2. \A i \in 1..n : ~(s[i].position <= y)
            BY <1>2, <3>1
        <3>3. Count(s, n, "END", y) = 0 /\ Count(s, n, "START", y) = 0
            BY ONLY <3>2, NoneCounted, Zenon
        <3> QED
            BY <1>6, <3>3
    <2>5. PICK zero : zero = 0
        OBVIOUS
    <2>6. /\ base = State(zero, zero, none, no)
          /\ zero \in Nat /\ zero \in Int /\ zero + Count(s, 0, "END", Top) = Count(s, 0, "START", Top)
          /\ zero > 0 => zero <= Reached(s, 0) /\ \A y \in Held(none) : y < zero
          /\ \A y \in Int : y \in bytes /\ y < Reached(s, 0)
                      <=> y \in Held(none) \/ (zero > 0 /\ zero <= y /\ y < Reached(s, 0))
        BY ONLY <1>3, <2>1, <2>2, <2>3, <2>4, <2>5
    <2> QED
        BY ONLY <1>1, <2>1, <2>6, ScanParts
<1>8. PICK S : S = {k \in Nat : k <= n => ScanInv(f[k], s, k, bytes)}
    OBVIOUS
<1>9. S \subseteq Nat /\ 0 \in S
    BY <1>5, <1>7, <1>8
<1>10. ASSUME NEW k \in S PROVE k + 1 \in S
    <2>1. k \in Nat
        BY <1>8
    <2>2. SUFFICES ASSUME k + 1 <= n PROVE ScanInv(f[k + 1], s, k + 1, bytes)
        BY <1>8, <2>1
    <2>3. k + 1 \in 1..Len(s) /\ (k + 1) - 1 = k /\ k <= n /\ k + 1 <= Len(s)
        BY <1>1, <1>2, <2>1, <2>2
    <2>4. PICK w : w = f[k]
        OBVIOUS
    <2>5. ScanInv(w, s, k, bytes)
        BY <1>8, <2>3, <2>4
    <2>6. f[k + 1] = Scan(w, s[k + 1])
        BY ONLY <1>5, <2>3, <2>4, Zenon
    <2>7. ScanInv(Scan(w, s[k + 1]), s, k + 1, bytes)
        BY ONLY <2>1, <2>3, <2>5, s \in Seq(Boundary), Ordered(s), Balanced(s, Len(s), bytes), Top \in Nat, ScanTurn
    <2> QED
        BY ONLY <2>6, <2>7, Zenon
<1>11. S = Nat
    BY ONLY <1>9, <1>10, Scanning!Induction, Zenon
<1>12. ScanInv(v, s, n, bytes)
    BY <1>1, <1>2, <1>5, <1>8, <1>11
<1>13. PICK m, o, p, e : /\ m = v.nesting /\ o = v.out
                         /\ p = Count(s, n, "START", Top) /\ e = Count(s, n, "END", Top)
    OBVIOUS
<1>14. /\ v.failed = FALSE /\ m \in Nat /\ m + e = p /\ o \in Seq(Entry) /\ Disjoint(o)
       /\ \A y \in Int : y \in bytes /\ y < Reached(s, n)
                 <=> y \in Held(o) \/ (m > 0 /\ v.first <= y /\ y < Reached(s, n))
    BY ONLY <1>12, <1>13, Zenon DEF ScanInv
<1>15. e = p /\ p \in Nat
    <2>1. e = p
        BY ONLY <1>1, <1>13, Balanced(s, Len(s), bytes), Zenon DEF Balanced
    <2>2. p \in Nat
        BY ONLY <1>2, <1>13, BelowFinite
    <2> QED
        BY <2>1, <2>2
<1>16. m = 0
    BY ONLY <1>14, <1>15
<1>17. \A y \in Int : y \in bytes => y < Reached(s, n)
    <2>1. SUFFICES ASSUME NEW y \in Int, ~(y < Reached(s, n)) PROVE ~(y \in bytes)
        OBVIOUS
    <2>2. \A i \in 1..n : s[i].position <= y
        <3>1. SUFFICES ASSUME NEW i \in 1..n PROVE s[i].position <= y
            OBVIOUS
        <3>2. n \in 1..n /\ n # 0 /\ (i < n \/ i = n)
            BY <1>2
        <3>3. Reached(s, n) = s[n].position
            BY ONLY <3>2, Zenon DEF Reached
        <3>4. i < n => s[i].position <= s[n].position
            BY ONLY <1>2, <3>2, Ordered(s) DEF Ordered
        <3> QED
            BY ONLY <1>2, <2>1, <3>2, <3>3, <3>4, y \in Int
    <2>3. \A type : Below(s, n, type, y) = Below(s, n, type, Top)
        BY ONLY <1>2, <2>2, Zenon DEF Below
    <2>4. Count(s, n, "START", y) = p /\ Count(s, n, "END", y) = e
        BY ONLY <1>13, <2>3, Zenon DEF Count
    <2> QED
        BY <1>6, <1>15, <2>4
<1>18. Held(o) = bytes
    <2>1. \A y \in Int : y \in bytes <=> y \in Held(o)
        BY <1>14, <1>16, <1>17
    <2>2. \A i \in DOMAIN o : o[i] \in Entry
        BY <1>14
    <2>3. \A i \in DOMAIN o : Bytes(o[i]) \subseteq Int
        BY <2>2 DEF Bytes, Entry
    <2>4. \A y \in Held(o) : y \in Int
        BY ONLY <2>3, Zenon DEF Held
    <2> QED
        BY <2>1, <2>4
<1>19. v = FoldLeft(Scan, [nesting |-> 0, first |-> 0, out |-> <<>>, failed |-> FALSE], s)
    BY ONLY <1>1, <1>3, <1>4, Zenon DEF State
<1> QED
    BY ONLY <1>13, <1>14, <1>16, <1>18, <1>19, Zenon

\* What holds between two steps of a transaction.
RegionInv ==
    /\ boundaries \in Seq(Boundary) /\ broken = FALSE /\ asked \in SUBSET Int
    /\ written = <<>> => /\ Balanced(boundaries, Len(boundaries), asked)
                         /\ boundaries # <<>> => asked # {}
    /\ written # <<>> => boundaries = <<>> /\ Held(written) = asked /\ Disjoint(written)

\* Each step of a transaction keeps it.
LEMMA RegionInvStep ==
    ASSUME RegionInv, [RegionNext]_regionVars
    PROVE  RegionInv'
<1>1. CASE UNCHANGED regionVars
    BY <1>1 DEF regionVars, RegionInv
<1>2. ASSUME written = <<>>, NEW ptr \in Position, NEW size \in Position, InvalidateRegion(ptr, size)
      PROVE  RegionInv'
    <2>1. /\ size > 0 /\ ptr + size <= Top /\ ptr \in Int /\ size \in Int /\ ptr >= 0 /\ Top \in Nat
          /\ UNCHANGED <<written, broken>>
        BY <1>2, RegionsAssumption DEF InvalidateRegion, Position
    <2>2. PICK b, new, c : /\ b = boundaries /\ new = asked \cup ptr..(ptr + size - 1)
                           /\ c = b \o <<[type |-> "START", position |-> ptr],
                                         [type |-> "END", position |-> ptr + size]>>
        OBVIOUS
    <2>3. boundaries' = c /\ asked' = new
        BY ONLY <1>2, <2>2, Zenon DEF InvalidateRegion
    <2>4. b \in Seq(Boundary) /\ Balanced(b, Len(b), asked) /\ asked \in SUBSET Int /\ broken = FALSE
        BY ONLY <1>2, <2>2, RegionInv, Zenon DEF RegionInv
    <2>5. c \in Seq(Boundary) /\ Len(c) = Len(b) + 2 /\ Balanced(c, Len(b) + 2, new)
        <3>1. LET d == b \o <<[type |-> "START", position |-> ptr], [type |-> "END", position |-> ptr + size]>>
              IN /\ d \in Seq(Boundary) /\ Len(d) = Len(b) + 2
                 /\ Balanced(d, Len(b) + 2, asked \cup ptr..(ptr + size - 1))
            BY ONLY <2>1, <2>4, RegionBalanced
        <3> QED
            BY ONLY <2>2, <3>1, Zenon
    <2>6. new \in SUBSET Int /\ new # {}
        <3>1. ptr \in new /\ new \in SUBSET Int
            BY <2>1, <2>2, <2>4
        <3> QED
            BY <3>1
    <2> QED
        BY ONLY <1>2, <2>1, <2>3, <2>4, <2>5, <2>6, Zenon DEF RegionInv
<1>3. CASE CommitRegions
    <2>1. PICK b : b = boundaries
        OBVIOUS
    <2>2. b # <<>> /\ boundaries' = <<>> /\ asked' = asked
        BY <1>3, <2>1 DEF CommitRegions
    <2>3. written = <<>>
        BY ONLY <2>1, <2>2, RegionInv, Zenon DEF RegionInv
    <2>4. b \in Seq(Boundary) /\ Balanced(b, Len(b), asked) /\ asked \in SUBSET Int /\ asked # {}
        BY ONLY <2>1, <2>2, <2>3, RegionInv, Zenon DEF RegionInv
    <2>5. PICK sorted \in Sorted(b) :
         LET end == FoldLeft(Scan, [nesting |-> 0, first |-> 0, out |-> <<>>, failed |-> FALSE], sorted)
         IN written' = end.out /\ broken' = (end.failed \/ end.nesting # 0)
        BY ONLY <1>3, <2>1, Zenon DEF CommitRegions
    <2>6. PICK end : end = FoldLeft(Scan, [nesting |-> 0, first |-> 0, out |-> <<>>, failed |-> FALSE], sorted)
        OBVIOUS
    <2>7. written' = end.out /\ broken' = (end.failed \/ end.nesting # 0)
        BY ONLY <2>5, <2>6, Zenon
    <2>8. Arranged(sorted, b, Len(b))
        BY ONLY <2>4, <2>5, SortedIs, Zenon
    <2>9. sorted \in Seq(Boundary) /\ Len(sorted) = Len(b) /\ Ordered(sorted)
        BY ONLY <2>8, Zenon DEF Arranged
    <2>10. Balanced(sorted, Len(sorted), asked)
        <3>1. \A type \in {"START", "END"}, x \in Int : Count(sorted, Len(b), type, x) = Count(b, Len(b), type, x)
            BY ONLY <2>8, Zenon DEF Arranged
        <3>2. Balanced(sorted, Len(b), asked)
            BY ONLY <2>4, <3>1, RegionsAssumption, BalancedAlike
        <3> QED
            BY ONLY <2>9, <3>2, Zenon
    <2>11. /\ end.failed = FALSE /\ end.nesting = 0 /\ end.out \in Seq(Entry)
           /\ Held(end.out) = asked /\ Disjoint(end.out)
        BY ONLY <2>4, <2>6, <2>9, <2>10, RegionsAssumption, ScanAll
    <2>12. written' # <<>> /\ Held(written') = asked /\ Disjoint(written')
        <3>1. Held(<<>>) = {}
            BY DEF Held
        <3> QED
            BY ONLY <2>4, <2>7, <2>11, <3>1, Zenon
    <2>13. broken' = FALSE
        <3>1. ~(end.failed \/ end.nesting # 0)
            BY <2>11
        <3> QED
            BY ONLY <2>7, <3>1, Zenon
    <2>14. boundaries' \in Seq(Boundary)
        BY <2>2
    <2> QED
        BY ONLY <2>2, <2>4, <2>12, <2>13, <2>14, Zenon DEF RegionInv, Held, Disjoint
<1>4. CASE Finish
    <2>1. /\ boundaries' = <<>> /\ written' = <<>> /\ asked' = {} /\ broken' = broken /\ broken = FALSE
        BY ONLY <1>4, RegionInv, Zenon DEF Finish, RegionInv
    <2>2. <<>> \in Seq(Boundary) /\ Len(<<>>) = 0 /\ {} \in SUBSET Int
        OBVIOUS
    <2> QED
        BY ONLY <2>1, <2>2, NoneBalanced, Zenon DEF RegionInv
<1> QED
    BY <1>1, <1>2, <1>3, <1>4 DEF RegionNext

\* db.c, "Write changes to log, skip duplicate regions": for regions of any number,
\* overlapping in any way and sorted by qsort in any order it may choose, no assert of
\* db_commit fails and each byte that was reported is in one entry.
THEOREM RegionsWrittenExactly == RegionSpec => []WrittenExactly
<1>1. RegionInit => RegionInv
    <2>1. SUFFICES ASSUME RegionInit PROVE RegionInv
        OBVIOUS
    <2>2. boundaries = <<>> /\ written = <<>> /\ asked = {} /\ broken = FALSE
        BY <2>1 DEF RegionInit
    <2>3. <<>> \in Seq(Boundary) /\ Len(<<>>) = 0 /\ {} \in SUBSET Int
        OBVIOUS
    <2> QED
        BY ONLY <2>2, <2>3, NoneBalanced, Zenon DEF RegionInv
<1>2. RegionInv /\ [RegionNext]_regionVars => RegionInv'
    BY RegionInvStep
<1>3. RegionInv => WrittenExactly
    BY Zenon DEF RegionInv, WrittenExactly, Held, Disjoint
<1> QED
    BY <1>1, <1>2, <1>3, PTL DEF RegionSpec
=============================================================================
