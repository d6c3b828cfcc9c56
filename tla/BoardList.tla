------------------------------ MODULE BoardList -----------------------------
(***************************************************************************)
(* pages/edit_board.c, persistence.c: the list of boards and the reports   *)
(* filed on posts of a board.  Each handler is one transaction.  Left out: *)
(* titles, the threads of a board, and the forms that precede an action.   *)
(***************************************************************************)
EXTENDS LinkedList

CONSTANTS BoardName,   \* names of boards
          Report,      \* struct report, never used twice
          MaxBoards,   \* bound: boards ever created
          Moves        \* which boards an administrator moves, of Movable

Movable == {"end",     \* the first one down or the last one up, or where it cannot go
            "inside"}  \* any other

ASSUME BoardAssumption == /\ Moves \subseteq Movable /\ MaxBoards \in Nat \ {0}
                          /\ Nil \notin 1..MaxBoards

VARIABLES list,      \* the boards, by their ids
          name,      \* board_name
          boardCounter,   \* master_board_counter
          reports    \* [report, board]: master_first_report and on

boardVars == <<list, name, boardCounter, reports>>

BoardIds == 1..MaxBoards

\* find_board_by_name
FindByName(n) == IF \E b \in Reached(list) : name[b] = n
                   THEN CHOOSE b \in Reached(list) : name[b] = n ELSE Nil

\* db_init has created one board.
BoardInit == /\ list = PushNode([EmptyList EXCEPT !.last = 1], 1)
             /\ name \in [{1} -> BoardName]
             /\ boardCounter = 1
             /\ reports = {}

\* edit_board_page_finish, "add": the name must be new.
Add(n) ==
    /\ boardCounter < MaxBoards
    /\ FindByName(n) = Nil
    /\ LET b == boardCounter + 1
       IN /\ boardCounter' = b
          /\ list' = AppendNode(list, b)
          /\ name' = Set(name, b, n)
    /\ UNCHANGED reports

\* "edit": a name that no board has is refused like one that another board has, since
\* neither is the board's own.
Edit(b, n) ==
    /\ b \in Reached(list) /\ FindByName(n) = b
    /\ name' = [name EXCEPT ![b] = n]
    /\ UNCHANGED <<list, boardCounter, reports>>

\* The tail of "move", which makes the neighbours point to the board.
Settle(l, b) ==
    LET next == l.next[b]
        prev == l.prev[b]
    IN [first |-> IF prev = Nil THEN b ELSE IF l.first = b THEN prev ELSE l.first,
        last  |-> IF next = Nil THEN b ELSE IF l.last = b THEN next ELSE l.last,
        prev  |-> Set(l.prev, next, b),
        next  |-> Set(l.next, prev, b)]

\* "move" down.  What pointed to the board from before still does.
Down(l, b) ==
    LET next == l.next[b]
    IN IF next = Nil THEN l
       ELSE [l EXCEPT !.prev = Set(Set(@, next, l.prev[b]), b, next),
                      !.next = Set(@, b, l.next[next])]

\* "move" up.  What pointed to the board from behind still does.
Up(l, b) ==
    LET prev == l.prev[b]
    IN IF prev = Nil THEN l
       ELSE [l EXCEPT !.next = Set(Set(@, prev, l.next[b]), b, prev),
                      !.prev = Set(@, b, l.prev[prev])]

\* Mutant of Move: the master's pointers are not looked at.
Move_KeepsEnds(b, down) ==
    /\ b \in Reached(list)
    /\ LET inside == list.next[b] # Nil /\ list.prev[b] # Nil
       IN (IF inside THEN "inside" ELSE "end") \in Moves
    /\ list' = [Settle(IF down THEN Down(list, b) ELSE Up(list, b), b)
                  EXCEPT !.first = list.first, !.last = list.last]
    /\ UNCHANGED <<name, boardCounter, reports>>

Move(b, down) ==
    /\ b \in Reached(list)
    /\ LET inside == list.next[b] # Nil /\ list.prev[b] # Nil
       IN (IF inside THEN "inside" ELSE "end") \in Moves
    /\ list' = Settle(IF down THEN Down(list, b) ELSE Up(list, b), b)
    /\ UNCHANGED <<name, boardCounter, reports>>

\* delete_board: "report_board_id(report) && board_id(board)" holds for every report.
\* The last board is kept here: a board added to an empty list is never found.
Delete(b) ==
    /\ b \in Reached(list) /\ Cardinality(Nodes(list)) > 1
    /\ reports' = {r \in reports : ~(r.board # 0 /\ b # 0)}
    /\ list' = Unlink(list, b)
    /\ name' = [x \in Nodes(list) \ {b} |-> name[x]]
    /\ UNCHANGED boardCounter

\* mod_page_finish, "report", of a post of the board.
File(r, b) ==
    /\ b \in Reached(list)
    /\ \A x \in reports : x.report # r
    /\ reports' = reports \cup {[report |-> r, board |-> b]}
    /\ UNCHANGED <<list, name, boardCounter>>

BoardNext == \/ \E n \in BoardName : Add(n)
             \/ \E b \in BoardIds, n \in BoardName : Edit(b, n)
             \/ \E b \in BoardIds, down \in BOOLEAN : Move(b, down)
             \/ \E b \in BoardIds : Delete(b)
             \/ \E b \in BoardIds, r \in Report : File(r, b)

BoardSpec == BoardInit /\ [][BoardNext]_boardVars

-----------------------------------------------------------------------------
\* Boards stay reachable: the list holds every board once, both ways, from the master's
\* first board to its last; no two have the same name; no report is of a deleted board.
BoardsLinked ==
    /\ Linked(list)
    /\ list.last = Nth(list.first, list.next, Cardinality(Nodes(list)))
    /\ \A b, c \in Nodes(list) : name[b] = name[c] => b = c
    /\ \A r \in reports : r.board \in Nodes(list)
=============================================================================
