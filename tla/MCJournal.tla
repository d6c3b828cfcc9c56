----------------------------- MODULE MCJournal -----------------------------
(* Instances of Journal for TLC. *)
EXTENDS JournalInv

MCLoc == {10, 20}
MCLoc3 == {10, 20, 30}

CONSTANTS a, b, junk
MCVal == {a, b}
=============================================================================
