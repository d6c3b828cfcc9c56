----------------------------- MODULE Moderation -----------------------------
(***************************************************************************)
(* pages/mod.c, permissions.c, pages/edit_user.c: bans as moderators make, *)
(* edit and delete them.  A moderator is global or has a list of boards;   *)
(* one with a list who edits a ban splits it, so that the boards of others *)
(* keep the old ban.  Each request is one transaction.  Left out: ban      *)
(* types, targets, durations and messages; a list is the set of its ids.   *)
(***************************************************************************)
EXTENDS BanIndex, Sequences, SequencesExt

CONSTANTS User,      \* moderators and administrators
          Admins,    \* those of them that are administrators
          Board,     \* boards
          MaxRanges  \* bound: ranges in one request

ASSUME ModerationAssumption == /\ Admins \subseteq User /\ Nil \notin User
                               /\ (\A B \in SUBSET Board : B # Nil) /\ MaxRanges \in Nat \ {0}

VARIABLES boards,      \* the boards that exist
          banBoards,   \* ban_boards: a set of ids, or Nil if the ban is global
          userBoards,  \* user_boards: a set of ids, or Nil if the user is global
          counter,     \* master_ban_counter
          wrecked,     \* the process has used a null or a dangling pointer
          by           \* history: the user with a list whose request was the last step

vars == <<banVars, boards, banBoards, userBoards, counter, wrecked, by>>

Init == /\ bans = {} /\ freed = {} /\ ix = NoBans
        /\ boards = Board
        /\ banBoards = [b \in {} |-> Nil]
        /\ userBoards = [u \in User |-> Nil]
        /\ counter = 0 /\ wrecked = FALSE /\ by = Nil

Limited(u) == IF userBoards[u] = Nil THEN Nil ELSE u

IsModForBoard(u, b) == userBoards[u] = Nil \/ b \in userBoards[u]

\* "Ignore boards that no longer exist".
CanSeeBan(u, b) ==
    \/ u \in Admins \/ banBoards[b] = Nil \/ userBoards[u] = Nil
    \/ banBoards[b] \cap boards \cap userBoards[u] # {}

CanDeleteBan(u, b) ==
    \/ userBoards[u] = Nil
    \/ banBoards[b] # Nil /\ \A x \in banBoards[b] \cap boards : IsModForBoard(u, x)

\* Mutant of Split: all boards of the ban are taken from it.
Split_TakesAll(w, u) ==
    LET bids == IF w.boards[w.ban] = Nil THEN boards ELSE w.boards[w.ban]
        keep == {b \in bids : userBoards[u] = {}}
    IN IF w.ban = Nil THEN [w EXCEPT !.new = TRUE]
       ELSE IF userBoards[u] = Nil THEN [w EXCEPT !.new = FALSE]
       ELSE [w EXCEPT !.wrecked = @ \/ ~(bids \subseteq boards),
                      !.boards[w.ban] = keep,
                      !.new = keep # {}]

\* "Check if user can edit the entire ban or if we have to split it into two bans".
\* A board of the ban that was deleted is asked for as a null pointer.
Split(w, u) ==
    LET bids == IF w.boards[w.ban] = Nil THEN boards ELSE w.boards[w.ban]
        keep == {b \in bids : ~IsModForBoard(u, b)}
    IN IF w.ban = Nil THEN [w EXCEPT !.new = TRUE]
       ELSE IF userBoards[u] = Nil THEN [w EXCEPT !.new = FALSE]
       ELSE [w EXCEPT !.wrecked = @ \/ ~(bids \subseteq boards),
                      !.boards[w.ban] = keep,
                      !.new = keep # {}]

\* The boards of the ban that is made or edited: those asked for (Nil for "global") as
\* far as the user is a moderator of them.
Restricted(u, asked) == IF asked = Nil THEN userBoards[u]
                        ELSE {b \in asked : IsModForBoard(u, b)}

\* One turn of "Create bans for all ranges".  A ban that is left without boards is freed,
\* also when it is one that was edited.
BanRange(w0, r) ==
    LET w     == Split(w0, w0.user)
        b     == IF w.new THEN w.counter + 1 ELSE w.ban
        count == IF w.new THEN b ELSE w.counter
        to    == Restricted(w.user, w.asked)
    IN IF to = {} THEN [w EXCEPT !.ban = Nil, !.counter = count,
                                 !.wrecked = @ \/ ~w.new]
       ELSE [w EXCEPT !.ban     = Nil,
                      !.counter = count,
                      !.boards  = Set(@, b, to),
                      !.bans    = @ \cup {b},
                      !.ix      = IF w.new THEN Inserted(@, b, r) ELSE Updated(@, b, r)]

\* mod_page_finish, "ban" and "edit_ban": ban is Nil if none is edited.
DoBan(u, ban, asked, ranges) ==
    /\ ~wrecked
    /\ ban \in {Nil} \cup {b \in bans : CanSeeBan(u, b) /\ MayEdit(b, ranges[1])}
    /\ asked # {}
    /\ counter + Len(ranges) <= Cardinality(Ban)
    /\ LET end == FoldLeft(BanRange, [user |-> u, asked |-> asked, ban |-> ban, new |-> FALSE,
                                      bans |-> bans, ix |-> ix, boards |-> banBoards,
                                      counter |-> counter, wrecked |-> FALSE], ranges)
       IN /\ wrecked' = end.wrecked
          /\ IF end.wrecked THEN UNCHANGED <<bans, ix, banBoards, counter>>
             ELSE /\ bans' = end.bans /\ ix' = end.ix /\ counter' = end.counter
                  /\ banBoards' = end.boards
    /\ by' = Limited(u)
    /\ UNCHANGED <<freed, boards, userBoards>>

\* "delete_ban"
DoDeleteBan(u, b) ==
    /\ ~wrecked
    /\ b \in {x \in bans : CanSeeBan(u, x) /\ CanDeleteBan(u, x)}
    /\ DeleteAll({b})
    /\ by' = Limited(u)
    /\ UNCHANGED <<boards, banBoards, userBoards, counter, wrecked>>

\* "delete_ban" of a ban that is gone: can_delete_ban reads the boards of no ban, unless
\* the user is global.
DoDeleteNoBan(u, b) ==
    /\ ~wrecked
    /\ b \in freed /\ userBoards[u] # Nil
    /\ wrecked' = TRUE /\ by' = Limited(u)
    /\ UNCHANGED <<banVars, boards, banBoards, userBoards, counter>>

\* purge_expired_bans: any set of bans may have expired.
PurgeBans(expired) ==
    /\ ~wrecked
    /\ expired # {} /\ expired \subseteq bans
    /\ DeleteAll(expired)
    /\ by' = Nil
    /\ UNCHANGED <<boards, banBoards, userBoards, counter, wrecked>>

\* delete_board: lists of users and bans keep the id.
DeleteBoard(b) ==
    /\ ~wrecked
    /\ b \in boards /\ boards' = boards \ {b}
    /\ by' = Nil
    /\ UNCHANGED <<banVars, banBoards, userBoards, counter, wrecked>>

\* edit_user_page_finish: no board makes the user global.  Administrators stay global
\* here.
EditBoardsOf(u, B) ==
    /\ ~wrecked /\ u \notin Admins
    /\ userBoards' = [userBoards EXCEPT ![u] = IF B = {} THEN Nil ELSE B]
    /\ by' = Nil
    /\ UNCHANGED <<banVars, boards, banBoards, counter, wrecked>>

\* parse_boards: boards that exist, each once.
ParseBoards == SUBSET boards

Ranges == UNION {[1..n -> IpRange] : n \in 1..MaxRanges}

Next == \/ \E u \in User, ban \in bans \cup {Nil}, asked \in {Nil} \cup ParseBoards,
              ranges \in Ranges : DoBan(u, ban, asked, ranges)
        \/ \E u \in User, b \in Ban : DoDeleteBan(u, b) \/ DoDeleteNoBan(u, b)
        \/ \E expired \in SUBSET bans : PurgeBans(expired)
        \/ \E b \in Board : DeleteBoard(b)
        \/ \E u \in User, B \in ParseBoards : EditBoardsOf(u, B)

Spec == Init /\ [][Next]_vars

-----------------------------------------------------------------------------
\* Whether a ban of the range is in force on the board.
InForce(r, b) == \E x \in bans : /\ ix.range[x] = r
                                 /\ banBoards[x] = Nil \/ b \in banBoards[x]

\* "Remove all the boards for which the user has mod rights.  Keep remaining boards":
\* whatever a moderator of some boards does to a ban, no other board gains a ban or
\* loses one.
OthersBansStay ==
    [][\A u \in User :
          by' = u => \A r \in IpRange, b \in boards :
                        ~IsModForBoard(u, b) => InForce(r, b) = InForce(r, b)']_vars
=============================================================================
