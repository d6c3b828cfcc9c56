------------------------------ MODULE Journal ------------------------------
(***************************************************************************)
(* The transaction layer of db.c: edits of the private mapping, the set of *)
(* dirty regions, the write-ahead journal with its COMMIT marker, the      *)
(* replay of the journal into the shared mapping, and recovery at the next *)
(* start.  The process may be killed between any two system calls, and a   *)
(* write to the journal may fall short; the page cache survives (loss of   *)
(* power is not in this module).                                           *)
(*                                                                         *)
(* A cell of Loc stands for one region of the file that db_commit writes   *)
(* as one record, and for the page it lies in.                             *)
(***************************************************************************)
EXTENDS Integers, Sequences, FiniteSets

CONSTANTS Loc,         \* file positions of the regions
          Val,         \* contents the program stores
          InitVal,     \* contents of every region of a fresh database
          Garbage,     \* what a record read at the wrong place puts there
          MaxJournal,  \* bound: records the journal may hold
          MaxCrashes,  \* bound: times the process is killed
          MaxNesting   \* bound: nested transactions

ASSUME JournalAssumption ==
    /\ Loc \subseteq Int
    /\ IsFiniteSet(Loc)
    /\ InitVal \in Val
    /\ Garbage \notin Val
    /\ MaxJournal \in Nat
    /\ MaxCrashes \in Nat
    /\ MaxNesting \in Nat

Cells == Val \cup {Garbage}

WriteRecord(l, v) == [kind |-> "write", at |-> l, val |-> v]
\* A record cut short: the reader takes the next `miss` records for its data.
TornRecord(l, n)  == [kind |-> "torn", at |-> l, miss |-> n]
CommitMark        == [kind |-> "commit"]

Records == [kind : {"write"}, at : Loc, val : Cells]
             \cup [kind : {"torn"}, at : Loc, miss : {1, 2}]
             \cup {CommitMark}

VARIABLES
    journal,   \* the journal file
    shared,    \* the data file, as the shared mapping shows it
    private,   \* the private mapping's own copies ...
    copied,    \* ... of these pages; the others still show the file
    dirty,     \* db->dirty_regions
    changed,   \* db->changed
    nesting,   \* db->transactions
    pc,        \* where db_commit or db_open is; "idle": the program runs
    todo,      \* regions db_commit has still to write
    offset,    \* records the reader of the journal has consumed
    verdict,   \* `commit` in db_check_journal
    durable,   \* history: contents at the last COMMIT marker
    faults,    \* history: what has broken the protocol so far, see Faults
    crashes    \* times the process was killed (bounded)

files   == <<journal, shared>>
memory  == <<private, copied, dirty, changed, nesting>>
history == <<durable, faults, crashes>>
vars    == <<journal, shared, private, copied, dirty, changed, nesting, pc,
             todo, offset, verdict, durable, faults, crashes>>

\* What the program reads: its own copy of a page it wrote to, else the file.
View == [l \in Loc |-> IF l \in copied THEN private[l] ELSE shared[l]]

\* "leftover": db_commit appended its records to uncommitted ones;
\* "lost mark": the COMMIT marker was not written, and db_commit went on.
Faults == {"leftover", "lost mark"}

\* The journal ends in records that no COMMIT marker follows.
Leftover == /\ journal # <<>>
            /\ journal[Len(journal)] # CommitMark

Init ==
    /\ journal = <<>>
    /\ shared  = [l \in Loc |-> InitVal]
    /\ private = [l \in Loc |-> InitVal]
    /\ copied  = {}
    /\ dirty   = {}
    /\ changed = FALSE
    /\ nesting = 0
    /\ pc = "idle"
    /\ todo = {}
    /\ offset = 0
    /\ verdict = 0
    /\ durable = shared
    /\ faults = {}
    /\ crashes = 0

-----------------------------------------------------------------------------
(* The program, between two commits. *)

Begin ==
    /\ pc = "idle"
    /\ nesting < MaxNesting
    /\ nesting' = nesting + 1
    /\ UNCHANGED <<files, private, copied, dirty, changed, pc, todo, offset,
                   verdict, history>>

\* Mutant of Update: the store is not followed by db_invalidate_region.
Update_NotInvalidated(l, v) ==
    /\ pc = "idle"
    /\ private' = [private EXCEPT ![l] = v]
    /\ copied'  = copied \cup {l}
    /\ UNCHANGED <<files, dirty, changed, nesting, pc, todo, offset, verdict, history>>

\* A store through the private mapping, followed by db_invalidate_region; also
\* outside a transaction, as the logout page and invalidate_captcha do.
Update(l, v) ==
    /\ pc = "idle"
    /\ private' = [private EXCEPT ![l] = v]
    /\ copied'  = copied \cup {l}
    /\ dirty'   = dirty \cup {l}
    /\ changed' = TRUE
    /\ UNCHANGED <<files, nesting, pc, todo, offset, verdict, history>>

\* db_commit up to its first write; callers pair it with a Begin.
Commit ==
    /\ pc = "idle"
    /\ nesting > 0
    /\ Len(journal) + Cardinality(dirty) < MaxJournal   \* bound
    /\ nesting' = nesting - 1
    /\ IF nesting' > 0 \/ ~changed
         THEN UNCHANGED <<pc, todo, faults>>
         ELSE /\ pc' = "write"
              /\ todo' = dirty
              /\ faults' = faults \cup IF Leftover THEN {"leftover"} ELSE {}
    /\ UNCHANGED <<files, private, copied, dirty, changed, offset, verdict,
                   durable, crashes>>

-----------------------------------------------------------------------------
(* db_commit, one step per group of system calls. *)

\* The dirty regions are written in the order of their positions.
NextRegion(l) == l \in todo /\ \A k \in todo : l <= k

WriteRegion(l) ==
    /\ pc = "write"
    /\ NextRegion(l)
    /\ journal' = Append(journal, WriteRecord(l, View[l]))
    /\ todo' = todo \ {l}
    /\ UNCHANGED <<shared, memory, pc, offset, verdict, history>>

\* A short write: "Error writing journal".  Before the record, or inside it.
WriteFails(l) ==
    /\ pc = "write"
    /\ NextRegion(l)
    /\ \/ UNCHANGED journal
       \/ \E n \in {1, 2} : journal' = Append(journal, TornRecord(l, n))
    /\ pc' = "idle"
    /\ todo' = {}
    /\ UNCHANGED <<shared, memory, offset, verdict, history>>

\* Mutant of Fsync: no COMMIT marker is written.
Fsync_NoMark ==
    /\ pc = "write"
    /\ todo = {}
    /\ pc' \in {"replay", "idle"}
    /\ UNCHANGED <<files, memory, todo, offset, verdict, history>>

Fsync ==
    /\ pc = "write"
    /\ todo = {}
    /\ pc' \in {"mark", "idle"}   \* "idle": "FAIL, COULD NOT FSYNC"
    /\ UNCHANGED <<files, memory, todo, offset, verdict, history>>

\* The COMMIT marker.  The result of this write is not looked at.
WriteMark ==
    /\ pc = "mark"
    /\ \/ /\ Len(journal) < MaxJournal
          /\ journal' = Append(journal, CommitMark)
          /\ UNCHANGED faults
       \/ /\ UNCHANGED journal
          /\ faults' = faults \cup {"lost mark"}
    /\ pc' = "replay"
    /\ offset' = 0
    /\ durable' = View
    /\ UNCHANGED <<shared, memory, todo, verdict, crashes>>

\* The replay is over: back in db_commit, or in db_open.
ReplayDone ==
    /\ pc' = IF pc = "replay" THEN "sync" ELSE "idle"
    /\ offset' = 0

\* db_replay_journal: one record of the journal goes into the shared mapping.
ReplayRecord ==
    /\ pc \in {"replay", "recover"}
    /\ LET r == journal[offset + 1] IN
       \/ /\ offset >= Len(journal)
          /\ ReplayDone
          /\ UNCHANGED shared
       \/ /\ offset < Len(journal)
          /\ r.kind = "write"
          /\ shared' = [shared EXCEPT ![r.at] = r.val]
          /\ offset' = offset + 1
          /\ UNCHANGED pc
       \/ /\ offset < Len(journal)
          /\ r.kind = "commit"
          /\ offset' = offset + 1
          /\ UNCHANGED <<pc, shared>>
       \/ /\ offset < Len(journal)
          /\ r.kind = "torn"
          /\ shared' = [shared EXCEPT ![r.at] = Garbage]
          /\ IF offset + 1 + r.miss > Len(journal)
               THEN ReplayDone        \* "Could not replay journal"
               ELSE /\ offset' = offset + 1 + r.miss
                    /\ UNCHANGED pc
    /\ UNCHANGED <<journal, memory, todo, verdict, history>>

\* msync, then the journal is emptied; if msync fails it is kept.
Sync ==
    /\ pc = "sync"
    /\ \/ /\ journal' = <<>>
          /\ changed' = FALSE
       \/ UNCHANGED <<journal, changed>>
    /\ dirty' = {}
    /\ pc' = "idle"
    /\ UNCHANGED <<shared, private, copied, nesting, todo, offset, verdict,
                   history>>

-----------------------------------------------------------------------------
(* The process is killed, and started again. *)

Forget ==
    /\ crashes < MaxCrashes
    /\ crashes' = crashes + 1
    /\ private' = [l \in Loc |-> InitVal]
    /\ copied' = {}
    /\ dirty' = {}
    /\ changed' = FALSE
    /\ nesting' = 0
    /\ todo' = {}
    /\ offset' = 0
    /\ verdict' = 0
    /\ pc' = "down"
    /\ UNCHANGED <<shared, durable, faults>>

Crash ==
    /\ pc # "down"
    /\ UNCHANGED journal
    /\ Forget

\* Killed between the write() calls of one record.
CrashInRecord(l) ==
    /\ pc = "write"
    /\ NextRegion(l)
    /\ \E n \in {1, 2} : journal' = Append(journal, TornRecord(l, n))
    /\ Forget

\* db_open: both mappings are made, nothing of the journal is read yet.
Open ==
    /\ pc = "down"
    /\ pc' = "check"
    /\ UNCHANGED <<files, memory, todo, offset, verdict, history>>

\* db_check_journal: one record of the journal is scanned.
CheckRecord ==
    /\ pc = "check"
    /\ offset < Len(journal)
    /\ LET r == journal[offset + 1] IN
       \/ /\ r.kind = "write"
          /\ verdict' = -1
          /\ offset' = offset + 1
       \/ /\ r.kind = "torn"
          /\ verdict' = -1
          /\ offset' = offset + 1 + r.miss
       \/ /\ r.kind = "commit"
          /\ verdict' = 1
          /\ offset' = offset + 1
    /\ UNCHANGED <<files, memory, pc, todo, history>>

\* Mutant of CheckDone: `if (db_check_journal(db))` replays a rejected journal too.
CheckDone_Eager ==
    /\ pc = "check"
    /\ offset >= Len(journal)
    /\ pc' = IF verdict # 0 THEN "recover" ELSE "idle"
    /\ offset' = 0
    /\ verdict' = 0
    /\ UNCHANGED <<files, memory, todo, history>>

\* Mutant of CheckDone: db_open does not replay the journal.
CheckDone_NoReplay ==
    /\ pc = "check"
    /\ offset >= Len(journal)
    /\ pc' = "idle"
    /\ offset' = 0
    /\ verdict' = 0
    /\ UNCHANGED <<files, memory, todo, history>>

\* The end of the scan.  The journal is replayed on 1, ignored on 0 and -1, and
\* emptied in neither case.
CheckDone ==
    /\ pc = "check"
    /\ offset >= Len(journal)
    /\ pc' = IF verdict = 1 THEN "recover" ELSE "idle"
    /\ offset' = 0
    /\ verdict' = 0
    /\ UNCHANGED <<files, memory, todo, history>>

-----------------------------------------------------------------------------
Work == \/ \E l \in Loc : WriteRegion(l) \/ WriteFails(l)
        \/ Fsync
        \/ WriteMark
        \/ ReplayRecord
        \/ Sync
        \/ Open
        \/ CheckRecord
        \/ CheckDone

Next == \/ Begin
        \/ \E l \in Loc, v \in Val : Update(l, v)
        \/ Commit
        \/ Work
        \/ Crash
        \/ \E l \in Loc : CrashInRecord(l)

Spec == Init /\ [][Next]_vars

\* The behaviours without a fault.
CleanSpec == Init /\ [][Next /\ faults' = {}]_vars

\* The thread runs db_commit and db_open to their end, and a supervisor starts
\* the process again; kills are bounded by MaxCrashes.
FairCleanSpec == CleanSpec /\ WF_vars(Work)

-----------------------------------------------------------------------------
RestType ==
    /\ shared \in [Loc -> Cells]
    /\ private \in [Loc -> Val]
    /\ copied \in SUBSET Loc
    /\ dirty \in SUBSET Loc
    /\ changed \in BOOLEAN
    /\ nesting \in 0..MaxNesting
    /\ pc \in {"idle", "write", "mark", "replay", "sync", "down", "check",
               "recover"}
    /\ todo \in SUBSET Loc
    /\ offset \in Nat
    /\ verdict \in {-1, 0, 1}
    /\ durable \in [Loc -> Cells]
    /\ faults \subseteq Faults
    /\ crashes \in 0..MaxCrashes

\* Every variable of the transaction layer keeps its type.
TypeOK == journal \in Seq(Records) /\ RestType

\* Whenever the program runs, the data file holds exactly what was committed
\* last: no part of an unfinished transaction, and all of a finished one, however
\* often the process was killed in db_commit or in db_open - as long as no commit
\* was appended to uncommitted records and no COMMIT marker was lost.
Atomic == pc = "idle" /\ faults = {} => shared = durable

\* Records that db_check_journal rejected at a start stay without effect: the
\* replay of a later commit changes no region that the running process has not
\* stored to.  What a torn record puts into the file is left aside; whole records
\* are enough.
RejectedIsIgnored ==
    [][pc = "replay" /\ "lost mark" \notin faults =>
          \A l \in Loc \ copied : shared'[l] \in {shared[l], Garbage}]_vars

\* Write-ahead: the data file is touched only while the journal ends in a COMMIT
\* marker, so that a kill in the middle of the replay can be repaired.
WriteAhead ==
    [][shared' # shared /\ "lost mark" \notin faults =>
          journal # <<>> /\ journal[Len(journal)] = CommitMark]_vars

\* What the program has committed is never lost by a kill: a region the private
\* mapping shows differently from the data file is in the set that the next
\* commit writes.
NothingForgotten ==
    pc = "idle" /\ faults = {} =>
        \A l \in Loc : View[l] # durable[l] => l \in dirty /\ changed

\* A commit that has written its marker reaches the data file, kills included.
Applied == shared # durable ~> shared = durable

-----------------------------------------------------------------------------
(* db.c implements AtomicStore, up to the first fault. *)

\* Inside db_commit and db_open nobody reads; the pages that are not copied
\* pass through the replay.
Observed ==
    [l \in Loc |-> IF l \in copied THEN private[l]
                   ELSE IF pc \in {"idle", "write", "mark"} THEN shared[l]
                   ELSE durable[l]]

Store == INSTANCE AtomicStore WITH durable <- durable, view <- Observed

StoreSpec == Store!Spec
=============================================================================
