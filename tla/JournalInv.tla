----------------------------- MODULE JournalInv -----------------------------
(* The inductive invariant behind Atomic, WriteAhead and the refinement of   *)
(* AtomicStore.  All of it speaks of fault-free states only.                 *)
EXTENDS Journal

Rec(i, l) == /\ i \in 1..Len(journal)
             /\ journal[i].kind = "write"
             /\ journal[i].at = l

LastRec(i, l) == Rec(i, l) /\ \A k \in (i+1)..Len(journal) : ~Rec(k, l)

\* A cut record is the end of the journal, and the commit that left it is over.
TornLast ==
    \A i \in 1..Len(journal) :
        journal[i].kind = "torn" => /\ i = Len(journal)
                                    /\ pc \in {"idle", "down", "check"}

\* Replay, recovery and truncation follow a COMMIT marker.
Marked == pc \in {"replay", "recover", "sync"} =>
             journal # <<>> /\ journal[Len(journal)] = CommitMark

\* The data file is behind the last commit only inside a replay, or between a
\* kill and the end of the recovery.
FileCurrent ==
    /\ pc \in {"idle", "write", "mark", "sync"} => shared = durable
    /\ pc \in {"down", "check"} /\ (journal = <<>> \/ Leftover)
          => shared = durable

\* A journal that will be replayed ends, for each region, in the committed value.
LastIsCommitted ==
    pc \notin {"write", "mark"} /\ ~Leftover =>
        \A l \in Loc : \A i \in 1..Len(journal) :
            LastRec(i, l) => journal[i].val = durable[l]

\* A region the data file shows wrongly is still to be replayed.
StillToReplay ==
    /\ pc \in {"down", "check"} /\ ~Leftover =>
          \A l \in Loc : (\E i \in 1..Len(journal) : Rec(i, l))
                            \/ shared[l] = durable[l]
    /\ pc \in {"replay", "recover"} =>
          /\ offset <= Len(journal)
          /\ \A l \in Loc : (\E i \in (offset+1)..Len(journal) : Rec(i, l))
                               \/ shared[l] = durable[l]

\* While db_commit writes, the journal ends in the new value of the regions
\* written so far, and in the committed value of the others.
Written ==
    pc \in {"write", "mark"} =>
        /\ todo \subseteq dirty
        /\ pc = "mark" => todo = {}
        /\ todo # dirty => Leftover
        /\ \A l \in dirty \ todo : \E i \in 1..Len(journal) : Rec(i, l)
        /\ \A l \in Loc : \A i \in 1..Len(journal) :
              LastRec(i, l) =>
                 journal[i].val = IF l \in dirty \ todo THEN private[l]
                                  ELSE durable[l]

\* What the program sees and has not marked dirty is what is committed.
DirtyTracked ==
    /\ dirty \subseteq copied
    /\ dirty # {} => changed
    /\ pc \in {"idle", "write", "mark"} =>
          \A l \in copied \ dirty : private[l] = durable[l]
    /\ pc \in {"replay", "sync"} => \A l \in copied : private[l] = durable[l]
    /\ pc \in {"down", "check", "recover"} => copied = {}

\* What db_check_journal has found so far.
ReplayScan ==
    /\ pc = "down" => offset = 0 /\ verdict = 0
    /\ pc = "check" =>
        \/ offset = 0 /\ verdict = 0
        \/ /\ offset \in 1..Len(journal)
           /\ verdict = 1 <=> journal[offset] = CommitMark
        \/ offset > Len(journal) /\ verdict = -1 /\ Leftover

CleanInv == /\ TornLast
            /\ Marked
            /\ FileCurrent
            /\ LastIsCommitted
            /\ StillToReplay
            /\ Written
            /\ DirtyTracked
            /\ ReplayScan

IInv == faults = {} => CleanInv

\* The same discipline of the marker, faulty journals included.
EndsInMark == journal # <<>> /\ journal[Len(journal)] = CommitMark

MarkInv ==
    /\ pc \in {"replay", "sync"} /\ "lost mark" \notin faults => EndsInMark
    /\ pc = "recover" => EndsInMark
    /\ pc = "check" /\ verdict = 1 =>
          offset \in 1..Len(journal) /\ journal[offset] = CommitMark
    /\ pc = "down" => verdict = 0
=============================================================================
