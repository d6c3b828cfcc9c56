------------------------------ MODULE Threads ------------------------------
(***************************************************************************)
(* The threads of one board and their posts, doubly linked through pointers *)
(* in the database (persistence.c), and the requests that change them: a    *)
(* post (the end of post_page_finish in pages/post.c) and moderation        *)
(* (mod_page_finish in pages/mod.c: pin, close, report, delete).            *)
(*                                                                         *)
(* The board is one record; each C function is a function from records to   *)
(* records.  A post is named by its id, a thread by its first post's id, as *)
(* in find_thread_by_id.  Left out: what posts contain, their files, who    *)
(* may do what: a post a moderator may not touch is skipped like one that   *)
(* is not found.                                                            *)
(***************************************************************************)
EXTENDS LinkedList, Integers, Sequences, SequencesExt

CONSTANTS MaxThreads,   \* MAX_PAGES * THREADS_PER_PAGE
          BumpLimit,    \* BUMP_LIMIT
          PostLimit,    \* POST_LIMIT
          MaxPosts,     \* bound: how many posts are ever made
          MaxSelected,  \* bound: how many posts or reports a request names
          MaxReported   \* bound: no post with a larger id is reported

ASSUME ThreadsAssumption ==
    /\ {MaxThreads, BumpLimit, PostLimit, MaxPosts, MaxSelected, MaxReported} \subseteq Nat \ {0}
    /\ Nil \notin 1..MaxPosts

VARIABLES db,              \* the board, its threads and their posts
          counter,         \* master.post_counter
          reported,        \* post_reported
          reports,         \* master's list of reports
          reportCounter    \* master.report_counter

threadVars == <<db, counter, reported, reports, reportCounter>>

Post == 1..MaxPosts
Ptr  == Post \cup {Nil}

\* struct thread, but for its pointers.
NewInfo == [count |-> 0, pinned |-> FALSE, closed |-> FALSE, saged |-> FALSE,
            bumped |-> 0,             \* history: the last post that moved it up
            wasPinned |-> FALSE]      \* history

\* db_init
ThreadInit ==
    /\ db = [threads |-> EmptyList,     \* board_first_thread and what follows
             count |-> 0,               \* board_thread_count
             info |-> [t \in {} |-> NewInfo],
             posts |-> [t \in {} |-> EmptyList],   \* thread_first_post and what follows
             of |-> [p \in Post |-> Nil],          \* post_thread
             table |-> {},              \* the keys of post_tbl
             crashed |-> FALSE,
             reordered |-> FALSE]       \* history: a pin was changed in place
    /\ counter = 0 /\ reported = {} /\ reports = {} /\ reportCounter = 0

Live(d) == Nodes(d.threads)

\* What a loop along the next pointers meets.
Order(l) == [i \in 1..Cardinality(Nodes(l)) |-> Nth(l.first, l.next, i)]

-----------------------------------------------------------------------------
\* Mutant of InsertAfter: the board's last thread is not updated.
InsertAfter_KeepsLast(l, prev, x) ==
    LET next == IF prev = Nil THEN l.first ELSE l.next[prev]
    IN [first |-> IF prev = Nil THEN x ELSE l.first,
        last  |-> l.last,
        next  |-> Set(Set(l.next, x, next), prev, x),
        prev  |-> Set(Set(l.prev, x, prev), next, x)]

\* "Reinsert": the node is linked behind another, or at the front.
InsertAfter(l, prev, x) ==
    LET next == IF prev = Nil THEN l.first ELSE l.next[prev]
    IN [first |-> IF prev = Nil THEN x ELSE l.first,
        last  |-> IF next = Nil THEN x ELSE l.last,
        next  |-> Set(Set(l.next, x, next), prev, x),
        prev  |-> Set(Set(l.prev, x, prev), next, x)]

\* Mutant of Skipped: pinned threads are not skipped.
Skipped_None(d, order) == 0

\* Mutant of Skipped: all threads are.
Skipped_All(d, order) == Len(order)

\* "Find insertion position": how many pinned threads are at the front.
Skipped(d, order) ==
    CHOOSE k \in 0..Len(order) : /\ \A i \in 1..k : d.info[order[i]].pinned
                                 /\ k < Len(order) => ~d.info[order[k + 1]].pinned

\* bump_thread: below the pinned threads at the front, unless it is pinned itself.
bump_thread(d, t) ==
    LET rest    == Unlink(d.threads, t)
        order   == Order(rest)
        skipped == IF d.info[t].pinned THEN 0 ELSE Skipped(d, order)
    IN [d EXCEPT !.threads = InsertAfter(rest, IF skipped = 0 THEN Nil ELSE order[skipped], t)]

\* Mutant of delete_post: the thread's last post is not updated.
delete_post_KeepsLast(d, p) ==
    LET t == d.of[p]
        l == d.posts[t]
    IN IF t = Nil THEN [d EXCEPT !.crashed = TRUE]
       ELSE [d EXCEPT !.table = @ \ {p},
                      !.of[p] = Nil,
                      !.posts[t] = [Unlink(l, p) EXCEPT !.first = l.first, !.last = l.last],
                      !.info[t].count = @ - 1]

\* delete_post.  The thread's first post is not updated.  A post that has no thread yet
\* makes it follow a null pointer.
delete_post(d, p) ==
    LET t == d.of[p]
        l == d.posts[t]
    IN IF t = Nil THEN [d EXCEPT !.crashed = TRUE]
       ELSE [d EXCEPT !.table = @ \ {p},
                      !.of[p] = Nil,
                      !.posts[t] = [Unlink(l, p) EXCEPT !.first = l.first],
                      !.info[t].count = @ - 1]

Without(f, x) == [y \in DOMAIN f \ {x} |-> f[y]]

delete_thread(d, t) ==
    LET e == FoldLeft(delete_post, d, Order(d.posts[t]))
    IN IF e.crashed THEN e
       ELSE [e EXCEPT !.threads = Unlink(@, t), !.count = @ - 1,
                      !.info = Without(@, t), !.posts = Without(@, t)]

-----------------------------------------------------------------------------
\* What post_page_finish does after the new post p has been linked to thread t.
AddPost(d, t, p, pin, close) ==
    LET i     == d.info[t]
        count == i.count + 1
    IN [d EXCEPT !.table = @ \cup {p},
                 !.of[p] = t,
                 !.info[t] = [i EXCEPT !.count = count,
                                       !.saged = @ \/ count = BumpLimit - 1,
                                       !.closed = @ \/ count = PostLimit - 1 \/ close,
                                       !.pinned = @ \/ pin,
                                       !.wasPinned = @ \/ pin]]

Running == ~db.crashed /\ counter < MaxPosts

\* A node that is linked nowhere yet.
Stray(l, x) == [l EXCEPT !.next = Set(@, x, Nil), !.prev = Set(@, x, Nil)]

\* thread_new and post_new: p is the first and last post of the thread.
WithThread(d, p) ==
    [d EXCEPT !.threads = Stray(@, p),
              !.info    = Set(@, p, [NewInfo EXCEPT !.bumped = p]),
              !.posts   = Set(@, p, PushNode([EmptyList EXCEPT !.last = p], p))]

\* It is linked to its board and counted.
Started(d, p) == [bump_thread(WithThread(d, p), p) EXCEPT !.count = @ + 1]

\* Mutant of Pruned: the newest thread is deleted.
Pruned_WrongEnd(d) == IF d.count > MaxThreads THEN delete_thread(d, d.threads.first) ELSE d

\* "Prune oldest thread"
Pruned(d) == IF d.count > MaxThreads THEN delete_thread(d, d.threads.last) ELSE d

NewThread(pin, close) ==
    /\ Running
    /\ LET p == counter + 1
           d == Pruned(Started(db, p))
       IN /\ db' = IF d.crashed THEN [db EXCEPT !.crashed = TRUE]
                   ELSE AddPost(d, p, p, pin, close)
          /\ counter' = IF d.crashed THEN counter ELSE p
    /\ UNCHANGED <<reported, reports, reportCounter>>

\* post_new: p is the last post of the thread.
WithReply(d, t, p, bump, pin) ==
    [d EXCEPT !.posts[t] = AppendNode(@, p),
              !.info[t].bumped = IF bump THEN p ELSE @,
              !.reordered = @ \/ (pin /\ ~bump /\ ~d.info[t].pinned)]

\* A reply.  Only moderators reply to a closed thread, pin it and close it.
Reply(t, sage, asMod, pin, close) ==
    /\ Running /\ t \in Live(db)
    /\ db.info[t].closed \/ pin \/ close => asMod
    /\ LET p    == counter + 1
           bump == ~sage /\ ~db.info[t].saged
           d    == WithReply(db, t, p, bump, pin)
       IN db' = AddPost(IF bump THEN bump_thread(d, t) ELSE d, t, p, pin, close)
    /\ counter' = counter + 1
    /\ UNCHANGED <<reported, reports, reportCounter>>

-----------------------------------------------------------------------------
\* What mod_page_finish does with one post, for each action.
TogglePinned(d, p) ==
    LET t == d.of[p]
        i == [d.info[t] EXCEPT !.pinned = ~@, !.wasPinned = TRUE]
        e == [d EXCEPT !.info[t] = i]
    IN IF p # d.posts[t].first THEN d
       ELSE IF i.pinned THEN bump_thread(e, t)
       ELSE [e EXCEPT !.reordered = TRUE]

ToggleClosed(d, p) ==
    LET t == d.of[p]
    IN IF p # d.posts[t].first THEN d ELSE [d EXCEPT !.info[t].closed = ~@]

Delete(d, p) ==
    LET t == d.of[p]
    IN IF p = d.posts[t].first THEN delete_thread(d, t) ELSE delete_post(d, p)

\* Posts that are "not found" are passed over.
Pinning(d, p)  == IF p \in d.table THEN TogglePinned(d, p) ELSE d
Closing(d, p)  == IF p \in d.table THEN ToggleClosed(d, p) ELSE d
Deleting(d, p) == IF p \in d.table THEN Delete(d, p) ELSE d

\* The posts that a request names, one after the other in one transaction.  "none" is
\* the request that deletes reports only.
Act(action, posts) ==
    \/ action = "pin"    /\ db' = FoldLeft(Pinning, db, posts)
    \/ action = "close"  /\ db' = FoldLeft(Closing, db, posts)
    \/ action = "delete" /\ db' = FoldLeft(Deleting, db, posts)
    \/ action = "none"   /\ db' = db

Moderate(action, posts) ==
    /\ ~db.crashed /\ action # "none"
    /\ Act(action, posts)
    /\ UNCHANGED <<counter, reported, reports, reportCounter>>

\* The same for reported posts, whose reports are deleted afterwards.
Handle(action, posts) ==
    /\ ~db.crashed
    /\ ToSet(posts) \subseteq {r.post : r \in reports}
    /\ Act(action, posts)
    /\ reports' = {r \in reports : r.post \notin ToSet(posts)}
    /\ UNCHANGED <<counter, reported, reportCounter>>

\* The list of reports is worked on as [reported, reports, counter].
Report(w, p) ==
    IF p \notin db.table \/ p \in w.reported THEN w
    ELSE [reported |-> w.reported \cup {p},
          counter  |-> w.counter + 1,
          reports  |-> w.reports \cup {[id |-> w.counter + 1, post |-> p,
                                        thread |-> db.posts[db.of[p]].first]}]

ReportAll(posts) ==
    /\ ~db.crashed /\ ToSet(posts) \subseteq 1..MaxReported
    /\ LET w == FoldLeft(Report, [reported |-> reported, reports |-> reports,
                                  counter |-> reportCounter], posts)
       IN reported' = w.reported /\ reports' = w.reports /\ reportCounter' = w.counter
    /\ UNCHANGED <<db, counter>>

Selections == {s \in UNION {[1..n -> 1..counter] : n \in 1..MaxSelected} : IsInjective(s)}

ThreadNext ==
    \/ \E p, c \in BOOLEAN : NewThread(p, c)
    \/ \E t \in Post, sage, asMod, p, c \in BOOLEAN : Reply(t, sage, asMod, p, c)
    \/ \E posts \in Selections : ReportAll(posts)
    \/ \E action \in {"pin", "close", "delete", "none"}, posts \in Selections :
          Moderate(action, posts) \/ Handle(action, posts)

ThreadSpec == ThreadInit /\ [][ThreadNext]_threadVars

-----------------------------------------------------------------------------
\* struct thread, struct post and struct board.
TypeOK ==
    /\ db.count \in 0..MaxThreads
    /\ counter \in 0..MaxPosts /\ db.table \subseteq 1..counter /\ reported \subseteq 1..counter
    /\ db.info \in [Live(db) -> [count : Nat, pinned : BOOLEAN, closed : BOOLEAN,
                                 saged : BOOLEAN, bumped : Post, wasPinned : BOOLEAN]]
    /\ DOMAIN db.posts = Live(db)
    /\ db.of \in [Post -> Ptr]
    /\ reports \subseteq [id : 1..reportCounter, post : Post, thread : Post]
    /\ db.crashed \in BOOLEAN /\ db.reordered \in BOOLEAN

\* A list that ends where its last pointer says, with this many nodes.
LinkedUp(l, count) ==
    /\ Linked(l) /\ Cardinality(Nodes(l)) = count
    /\ l.last = IF count = 0 THEN Nil ELSE Order(l)[count]

\* The board's list holds each of its threads once, reads the same backwards, and is
\* as long as thread_count says (board_page_finish counts pages with it).
ThreadsLinked == TypeOK /\ LinkedUp(db.threads, db.count)

\* The reports and their posts.
Reported ==
    /\ \A r, q \in reports : r.post = q.post => r = q
    /\ \A r \in reports : r.post \in db.table => r.thread = db.of[r.post]

\* The same for the posts of each thread, and a post can be found by its id exactly
\* if it is in the list of a thread: none outlives its thread.  A post has at most one
\* report, which names the post's own thread.
PostsLinked ==
    /\ \A t \in Live(db) :
          LET l == db.posts[t]
          IN /\ LinkedUp(l, db.info[t].count) /\ l.first = t
             /\ \A p \in Nodes(l) : db.of[p] = t
    /\ db.table = UNION {Nodes(db.posts[t]) : t \in Live(db)}
    /\ Reported

\* Threads that have never been pinned are in the order in which they were last bumped.
Sorted ==
    LET order == Order(db.threads)
    IN \A i, j \in DOMAIN order :
          i < j /\ ~db.info[order[i]].wasPinned /\ ~db.info[order[j]].wasPinned
             => db.info[order[i]].bumped > db.info[order[j]].bumped

\* Pinned threads come first, until a moderator unpins a thread or pins one with a
\* saged reply: both leave it where it is.
PinnedFirst ==
    LET order == Order(db.threads)
    IN ~db.reordered =>
          \A i, j \in DOMAIN order :
             i < j /\ db.info[order[j]].pinned => db.info[order[i]].pinned

\* "Prune oldest thread": a thread that a new one pushes out was bumped before all
\* others that were never pinned, and was never pinned itself.
PrunesOldest ==
    [][\A t \in Live(db) \ Live(db') :
          counter # counter' /\ ~db.reordered =>
             /\ ~db.info[t].wasPinned
             /\ \A u \in Live(db) : db.info[u].wasPinned
                                       \/ db.info[t].bumped <= db.info[u].bumped]_threadVars

\* A new thread is itself pushed out, before it is complete, only if every other
\* thread on a full board is pinned.
NewThreadStays ==
    db.crashed => /\ db.count = MaxThreads
                  /\ \A t \in Live(db) : db.info[t].pinned
=============================================================================
