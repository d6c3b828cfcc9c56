---------------------------- MODULE AtomicStore ----------------------------
(* What db.c promises to the rest of dietchan: one map of memory cells that *)
(* the single thread edits in place, and a durable copy of it that changes  *)
(* only as a whole, when a transaction commits.  A restart brings back the  *)
(* last committed copy.                                                     *)
CONSTANTS Loc,      \* memory cells (regions of the mapped file)
          Cells,    \* the contents a cell may have
          InitVal   \* the contents of every cell of a fresh database

VARIABLES durable,  \* what a restart would bring back
          view      \* what the program reads

svars == <<durable, view>>

Init == /\ durable = [l \in Loc |-> InitVal]
        /\ view = durable

Update(l, v) == /\ view' = [view EXCEPT ![l] = v]
                /\ UNCHANGED durable

Commit == /\ durable' = view
          /\ UNCHANGED view

Restart == /\ view' = durable
           /\ UNCHANGED durable

Next == \/ \E l \in Loc, v \in Cells : Update(l, v)
        \/ Commit
        \/ Restart

Spec == Init /\ [][Next]_svars
=============================================================================
