------------------------------ MODULE Accounts ------------------------------
(***************************************************************************)
(* pages/edit_user.c, pages/login.c, session.c, persistence.c: the users   *)
(* and their sessions.  The headers of a request lead to its session and   *)
(* to the user of that session, and the page keeps both pointers until the *)
(* body has come; requests of others are handled in between and may free   *)
(* what they point to.  All handlers commit what they do, except a logout, *)
(* which leaves it to the next commit of any request.  Left out:           *)
(* passwords, e-mail, ip addresses, the boards of a user (Moderation has   *)
(* them) and the forms that precede an action.                             *)
(***************************************************************************)
EXTENDS LinkedList

CONSTANTS UserName, Sid,      \* names of users, session ids (random, so always new)
          Conn,               \* connections
          Timeout,            \* session_timeout, a day in the code
          MaxUsers, MaxTime   \* bounds: users ever created, time

ASSUME AccountsAssumption == /\ Timeout \in Nat /\ MaxTime \in Nat /\ IsFiniteSet(Sid)
                             /\ MaxUsers \in Nat \ {0} /\ Nil \notin Sid \cup 1..MaxUsers
                             /\ IsFiniteSet(Conn)

VARIABLES mem,      \* users, accounts, counter, sessions and what they hold, in memory
          disk,     \* the same as of the last commit
          now,      \* time(0)
          pages,    \* page->session and page->user of the request on a connection
          used,     \* history: session ids that were given out
          closing,  \* history: sessions logged out since the last commit
          ended     \* history: sessions whose end has been committed

userVars == <<mem, disk, now, pages, used, closing, ended>>

UserIds == 1..MaxUsers

\* Nobody is logged in.  `admin` is what the memory of a user who has been deleted
\* since still says of him.
NoPage == [session |-> Nil, user |-> Nil, admin |-> FALSE]
NoPages == [c \in Conn |-> NoPage]

\* db_init has created one administrator.
UserInit == /\ \E n \in UserName :
                 mem = [users    |-> PushNode([EmptyList EXCEPT !.last = 1], 1),
                        account  |-> [u \in {1} |-> [name |-> n, admin |-> TRUE]],
                        counter  |-> 1,
                        sessions |-> EmptyList,
                        of       |-> [s \in {} |-> 0],
                        seen     |-> [s \in {} |-> 0]]
            /\ disk = mem
            /\ now = 0 /\ pages = NoPages
            /\ used = {} /\ closing = {} /\ ended = {}

Expired(m, s) == now > m.seen[s] + Timeout

FindUserByName(n) == {u \in Reached(mem.users) : mem.account[u].name = n}

SessionDestroy(m, s) ==
    LET left == Nodes(m.sessions) \ {s}
    IN [m EXCEPT !.sessions = Unlink(@, s),
                 !.of   = [x \in left |-> m.of[x]],
                 !.seen = [x \in left |-> m.seen[x]]]

\* purge_expired_sessions: the next session is read before one is destroyed.
PurgeSessions(m) ==
    LET purged[S \in SUBSET Sid] ==
            IF S = {} THEN m
            ELSE LET s == CHOOSE x \in S : TRUE
                 IN SessionDestroy(purged[S \ {s}], s)
    IN purged[{s \in Reached(m.sessions) : Expired(m, s)}]

\* Mutant of SessionUpdate: the session is refreshed before its age is looked at.
SessionUpdate_Refreshes(m, s) == [m EXCEPT !.seen[s] = now]

SessionUpdate(m, s) == IF Expired(m, s) THEN SessionDestroy(m, s)
                       ELSE [m EXCEPT !.seen[s] = now]

Commit(m, end) == /\ mem' = m /\ disk' = m
                  /\ ended' = ended \cup closing \cup end
                  /\ closing' = {}

Dangling(page) == page.user # Nil /\ page.user \notin Nodes(mem.users)

\* The same request goes on after memory was allocated, which may have been that of a
\* deleted user.
Overwritten(p) ==
    {[c \in Conn |-> IF Dangling(p[c]) THEN [p[c] EXCEPT !.admin = says[c]] ELSE p[c]] :
        says \in [Conn -> BOOLEAN]}

\* PARAM_SESSION of a request that sends the id of a session.
Headers(c, s) ==
    LET alive == ~Expired(mem, s)
        users == {mem.of[s]} \cap Reached(mem.users)
        user  == IF users = {} THEN Nil ELSE mem.of[s]
    IN /\ s \in Reached(mem.sessions)
       /\ Commit(SessionUpdate(mem, s), IF alive THEN {} ELSE {s})
       /\ pages' = [pages EXCEPT ![c] = IF alive THEN [NoPage EXCEPT !.session = s,
                                                                     !.user = user]
                                                ELSE NoPage]
       /\ UNCHANGED <<now, used>>

\* The end of a request that changes nothing, or of its connection.
Leave(c) == /\ pages[c] # NoPage /\ pages' = [pages EXCEPT ![c] = NoPage]
            /\ UNCHANGED <<mem, disk, now, used, closing, ended>>

\* login_page_finish with the right password.
Login(s, u) ==
    /\ s \notin used /\ u \in Reached(mem.users)
    /\ LET m == PurgeSessions(mem)
       IN Commit([m EXCEPT !.sessions = PushNode(@, s),
                           !.of   = Set(@, s, u),
                           !.seen = Set(@, s, now)],
                 {x \in Reached(mem.sessions) : Expired(mem, x)})
    /\ pages' \in Overwritten(pages)
    /\ used' = used \cup {s}
    /\ UNCHANGED now

\* The process is killed and started again.
Kill == /\ mem' = disk /\ closing' = {} /\ pages' = NoPages
        /\ UNCHANGED <<disk, now, used, ended>>

\* login_page_finish with "logout": session_destroy is in no transaction.  For a session
\* that has been freed since, the assert of db_free stops the process.
Logout(c) ==
    LET s == pages[c].session
    IN \/ /\ s \in Nodes(mem.sessions)
          /\ mem' = SessionDestroy(mem, s)
          /\ closing' = closing \cup {s}
          /\ pages' = [pages EXCEPT ![c] = NoPage]
          /\ UNCHANGED <<disk, now, used, ended>>
       \/ /\ s # Nil /\ s \notin Nodes(mem.sessions)
          /\ Kill

\* edit_user_page_finish: what user_type says of page->user, who may be gone.
Admin(c) == LET page == pages[c]
            IN /\ page.user # Nil
               /\ IF Dangling(page) THEN page.admin ELSE mem.account[page.user].admin

\* Mutant of AddUser: the name is not looked up.
AddUser_AnyName(c, n, admin) ==
    /\ pages[c].user # Nil /\ mem.counter < MaxUsers
    /\ LET u == mem.counter + 1
       IN Commit([mem EXCEPT !.counter = u,
                             !.users   = AppendNode(@, u),
                             !.account = Set(@, u, [name |-> n, admin |-> admin])], {})
    /\ pages' \in Overwritten([pages EXCEPT ![c] = NoPage])
    /\ UNCHANGED <<now, used>>

\* "add".  One who is no administrator gets this far if the user_id he sends is his own,
\* and nothing asks him again.
AddUser(c, n, admin) ==
    /\ pages[c].user # Nil /\ mem.counter < MaxUsers
    /\ FindUserByName(n) = {}
    /\ LET u == mem.counter + 1
       IN Commit([mem EXCEPT !.counter = u,
                             !.users   = AppendNode(@, u),
                             !.account = Set(@, u, [name |-> n, admin |-> admin])], {})
    /\ pages' \in Overwritten([pages EXCEPT ![c] = NoPage])
    /\ UNCHANGED <<now, used>>

\* "edit".  As for boards, the name must be the one the user has.  One who is no
\* administrator edits himself alone, and his e-mail and password alone.
EditUser(c, u, n, admin) ==
    /\ Admin(c)
    /\ FindUserByName(n) = {u}
    /\ Commit([mem EXCEPT !.account[u] = [name |-> n, admin |-> admin]], {})
    /\ pages' = [pages EXCEPT ![c] = NoPage]
    /\ UNCHANGED <<now, used>>

\* "delete".  The sessions of the user stay, with the id of a user that is not found, and
\* so do the requests of his whose headers have come.
DeleteUser(c, u) ==
    /\ Admin(c)
    /\ u \in Reached(mem.users) /\ u # pages[c].user
    /\ Commit([mem EXCEPT !.users   = Unlink(@, u),
                          !.account = [x \in Nodes(mem.users) \ {u} |-> mem.account[x]]], {})
    /\ pages' = [d \in Conn |->
                    IF d = c THEN NoPage
                    ELSE IF pages[d].user = u
                         THEN [pages[d] EXCEPT !.admin = mem.account[u].admin]
                    ELSE pages[d]]
    /\ UNCHANGED <<now, used>>

Tick == /\ now < MaxTime /\ now' = now + 1
        /\ UNCHANGED <<mem, disk, pages, used, closing, ended>>

UserNext == \/ \E c \in Conn : \/ Leave(c) \/ Logout(c)
                               \/ \E s \in Sid : Headers(c, s)
                               \/ \E u \in UserIds : DeleteUser(c, u)
                               \/ \E n \in UserName, admin \in BOOLEAN :
                                     \/ AddUser(c, n, admin)
                                     \/ \E u \in UserIds : EditUser(c, u, n, admin)
            \/ \E s \in Sid, u \in UserIds : Login(s, u)
            \/ Tick \/ Kill

UserSpec == UserInit /\ [][UserNext]_userVars

-----------------------------------------------------------------------------
\* Whenever the process is killed, the sessions in memory and in the file are whole
\* lists, and as long as a user is left so are the users: each can be found, by a name
\* no other user has and under an id that is not given out again.  (When the last one
\* has been deleted, see OnlyAdmins, a new one is not found: first_user is not set.)
AccountsLinked ==
    \A m \in {mem, disk} :
        /\ Linked(m.sessions)
        /\ m.users.first # Nil =>
              /\ Linked(m.users)
              /\ Nodes(m.users) \subseteq 1..m.counter
              /\ \A u, v \in Nodes(m.users) :
                    m.account[u].name = m.account[v].name => u = v

\* A session that was logged out or has expired is over: it is not found again, not even
\* after a kill once its end was committed.
EndedForGood == /\ Reached(mem.sessions) \cap (closing \cup ended) = {}
                /\ Reached(disk.sessions) \cap ended = {}

\* "Only admins are allowed to change usernames and roles" (edit_user.c:86): a user is
\* changed or deleted by the request of an administrator who exists.
OnlyAdmins ==
    [][(\E u \in DOMAIN mem.account : \/ u \notin DOMAIN mem'.account
                                      \/ mem'.account[u] # mem.account[u])
         => \E c \in Conn : /\ pages[c] # NoPage /\ pages'[c] = NoPage
                            /\ pages[c].user \in Nodes(mem.users)
                            /\ mem.account[pages[c].user].admin]_userVars
=============================================================================
