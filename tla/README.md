# dietchan in TLA+

dietchan is an imageboard in C: one process, one thread, an event loop over
non-blocking sockets and pipes, and a database that is a memory-mapped file
changed in place inside transactions.  These modules model the parts of it whose
correctness depends on the order of things: what survives a kill, what happens
while a hash table is being moved, what a request finds when its jobs end, where
a byte stream may be cut, what long sequences of legal requests do to linked lists
and bans, and whether what is printed reaches the client as it was printed.  Paths below are relative to `src/dietchan/src/`.

## The system

| part | state | operations | what is hard | what makes it correct |
|---|---|---|---|---|
| transactions and journal (`db.c`) | shared mapping (the file), private mapping (what the program sees), dirty regions, journal file | begin, invalidate, commit, open with recovery | killed between any two system calls; short writes; nested transactions | the file always leads back to the last commit, as a whole |
| hash map (`db_hashmap.c`) | old and new array of buckets, progress of the move, count | insert, get, remove; each moves a few buckets | operations in the middle of a move; memory of the new array is not cleared | a dictionary; its asserts hold |
| allocator (`db.c`) | buckets of powers of two in the file, a free list per size | alloc, realloc, free, grow | splitting and merging; killed between transactions | buckets tile the file, free lists are whole, every change is reported to the journal |
| http parser (`http.c`) | read buffer, search offset, states of request and multipart | one read per piece of input, callbacks to the page | any cutting of the bytes; end of the connection | the callbacks depend on the bytes alone |
| event loop and contexts (`dietchan.c`, `context.c`) | reference counts, eof and error flags | accept, read, flush, unref, eof | close while jobs run | freed once, when nobody points to it; one answer |
| responses (`context.c`, `print.c`) | chunks of memory shared by all connections, batches that refer to them | print, escape, send a file, flush | partial sends, clients that leave, chunks used again | a client gets just what was printed for it |
| texts (`bbcode.c`) | stack of open tags, quote depth, `[code]` | one pass over the text | overlapping tags, texts that break off | elements are nested |
| posting and uploads (`pages/post.c`, `upload_job.c`, `job.c`) | the fields read, files, jobs, pending | callbacks of the parser, ends of jobs | jobs end while the body is still read; several fail | one answer, only processed files, nothing left |
| threads, posts, reports (`persistence.c`, `pages/post.c`, `pages/mod.c`) | doubly linked lists, counters, `post_tbl` | post, reply, bump, prune, pin, close, report, delete | long sequences; several posts in one request | lists, counts and table agree; the oldest thread goes |
| bans (`persistence.c`, `bans.c`) | list of bans, `ban_tbl` by range, bucket lists | insert, update, delete, purge, find | the key lies inside the ban and is changed | exactly the live bans of a range are found |
| moderation of bans (`pages/mod.c`, `permissions.c`) | boards of a ban, boards of a user | make, edit, split, delete | rights and boards change between requests | a moderator changes nothing on the boards of others |
| ban checks (`bans.c`, `ip.c`) | prefixes, times | find, purge, flood ban | bits behind the prefix, multiples of 8, prefixes longer than the address, seconds | a ban that covers an address is found |
| captcha pool (`captcha.c`) | array, `captcha_tbl`, `in_flight` | generate, job end, replace, invalidate | jobs fail; the array is compacted | array and table agree; the pool is refilled |
| boards (`pages/edit_board.c`) | list of boards, reports | add, rename, move, delete | pointers set in five places | linked both ways; reports of others stay |
| users and sessions (`session.c`, `pages/login.c`, `pages/edit_user.c`) | two lists | log in and out, time out, add, rename, delete | requests that keep pointers to users and sessions until their body has come; stores outside transactions; kills | lists are whole; a session that ended stays ended; only administrators administrate |
| display, templates, import/export, helpers | none | print, parse | - | not modelled |

The loop calls `http_read` with what a socket has; the parser calls the page; a page
with files starts jobs and holds a reference to its context for each; a job's end
calls the page again.  A page that writes wraps its stores in a transaction, which
`db_commit` makes durable.  Handlers never interleave inside: the interleavings are
those of events (pieces of input, ends of jobs, closes) and of kills.  A request has
two such events at least, the end of its headers and of its body, and its page keeps
what the first one has found.

## Modules

| module | code | content |
|---|---|---|
| `Journal` | `db.c:48-118, 365-609` | one action per step between two system calls of `db_commit`, `db_open`, `db_check_journal`, `db_replay_journal`; `Crash` between any two; torn and lost writes |
| `JournalInv` | | the inductive invariant of `Journal` |
| `AtomicStore` | `db.h` | what the journal promises: durable memory changes as a whole |
| `JournalProofs` | | proofs about `Journal` and `DirtyRegions` |
| `DirtyRegions` | `db.c:20-46, 376-393, 535-583` | boundaries of the reported regions, put in place one by one in every order that the comparator allows, and the entries written for them |
| `Powers` | `db.c:128-132` | powers of two, for the next and for `BanChecks` |
| `BuddyAlloc` | `db.c:128-352, 426-451` | the allocator on memory and file, with `Commit` and `Kill`; each C function takes and returns memory, cells reported and asserts |
| `HashMap`, `Dictionary` | `db_hashmap.c` | the table while it moves; a plain dictionary |
| `DatabaseProofs` | | proofs about `HashMap` and `BuddyAlloc` |
| `HttpMessage` | | requests as forms, their encoding, and the callbacks they stand for, said without the parser |
| `HttpParser` | `http.c`, `read_data` | the parser, one function per C function; `Receive(n)` for a piece of any length |
| `UploadPost` | `pages/post.c`, `upload_job.c`, `context.c` | one request to `/post` and the jobs of its files |
| `Threads` | `persistence.c`, `pages/post.c:504-570`, `pages/mod.c:577-722` | the threads of one board with all pointers, one action per kind of request |
| `ThreadProofs` | | proofs about `Threads` |
| `BanIndex` | `persistence.c:436-512`, `bans.c` | the table of bans and its bucket lists |
| `Moderation` | `pages/mod.c:199-574, 723-730, 918-933`, `permissions.c`, `params.c` | extends `BanIndex`: who makes, edits, splits and deletes bans, for several ranges in a request, while boards and rights change |
| `BanChecks` | `bans.c`, `ip.c`, `pages/post.c:662-681` | prefixes byte by byte, bans in time, the flood ban |
| `LinkedList` | `persistence.h` | the doubly linked lists of `struct master`, of boards and of threads: for `Threads` and the next two |
| `ListProofs` | | lemmas on those lists, for `ThreadProofs` and `AdminProofs` |
| `BoardList` | `pages/edit_board.c`, `delete_board` | the boards and the reports on them |
| `Accounts` | `session.c`, `pages/login.c`, `pages/edit_user.c` | users and sessions, in memory and as last committed; the headers of a request (`Headers`), and what it does when its body has come |
| `AdminProofs` | | proofs about `BoardList`, `Accounts`, `BanIndex`, `Moderation` and `BanChecks` |
| `Output` | `context.c`, `print.c` | chunks, batches and sockets of the connections |
| `Bbcode` | `bbcode.c` | the stack of tags; a step is a turn of the loop |
| `PageProofs` | | proofs about `Output` and `Bbcode` |
| `CaptchaPool` | `captcha.c` | the pool, its index, the jobs |
| `JobProofs` | | proofs about `UploadPost` and `CaptchaPool`, which wait for other programs |
| `Folding` | | what loops leave behind, for the proofs: a fold is a sequence of steps, a pointer that is followed names its nodes, a choice repeated uses up a finite set |
| `MCJournal`, `MCDatabase`, `MCAdmin`, `MCWire` | | instances for TLC |

`MCDatabase`, `MCAdmin` and `MCWire` each hold several components: the first state
picks one (`part`), and the behaviour moves that one alone, so that a run explores the
sum and not the product of their states.  (Where they extend a component they share its
variables and assumptions, so `TextInit`, `RegionSpec`, `BoardNext` and the like carry the
name of their part.)  Components interact through operations that
are modelled where they are used: `Moderation` composes `BanIndex` with rights and
boards, `UploadPost` the page with contexts and jobs, `BuddyAlloc` the allocator with
commit and kill (as one step, which `JournalStore` justifies).

`Journal` keeps its state in one variable per C object.  The modules whose handlers
are sequences of calls (`UploadPost`, `Threads`, `HttpParser`, `HashMap`) keep one
record, and each C function is an operator from records to records, so that an action
is the composition of calls that the handler makes.  Variables marked "history" are
not in the code.  Operators called `<Definition>_<Suffix>` with the comment
"Mutant of" are faulty variants: with the definition replaced by one of them TLC
finds the property it is meant for violated.

## Runs

| run | question | bounds | result |
|---|---|---|---|
| `Journal` | is the file the last commit after any kills, short writes, failing fsyncs? | 2 regions, 2 values, 4 journal records (two transactions, or one and its leftovers), 1 kill, nesting 2 | holds, 2.0 million states |
| `JournalStore` | does it implement `AtomicStore`, and does a marked commit reach the file? | journal 7, 2 kills | holds, 310 thousand |
| `JournalLeftover` | does a journal rejected at a start stay without effect? | journal 6, 1 kill | **violated** |
| `Database` | hash map: a dictionary through two doublings | 9 keys, capacity 2 to 8, 1 bucket per step, hashes that collide and part | holds |
| | captchas: index and refill | 5 captchas, 2 parallel jobs, any failures and restarts | holds |
| | allocator: tiles, free lists, journal | 3 sizes, file of up to 8 units, 4 live objects, 2 operations per transaction, any kills | holds |
| | commit: are just the reported bytes written? | 3 regions anywhere in 4 bytes, every order of equal positions | holds |
| `CaptchaLast` | does a right answer ever end the process? | the same pool | **violated** |
| `Wire` | requests: do the pieces matter? | every file of up to 4 bytes of CR, LF, `-`, boundary letter, in front of the boundary; fields; url-encoded bodies; bad and too long lines; every cutting; close at any point | holds |
| | texts: are elements nested? | 2 tags, `[code]`, quotes, 4 open at a time | holds |
| | responses: does each client get what was printed? | 2 connections used again and again, chunks of 2 bytes, prints and files of 0 to 2 bytes (`Lengths`), escaped texts with a short and a long character (`Texts`), 3 bytes unanswered, 3 chunks; sockets that stop anywhere | holds |
| `UploadPost` | references, files, answers | 3 files allowed, 4 sent, any order of fields, job ends and close | holds, 72 thousand |
| `UploadAnswers` | is there one answer? | 2 files | **violated** |
| `Threads` | lists, order, pruning | 3 threads on a board, 4 posts ever, 2 posts per moderation request, 1 post reported | holds, 106 thousand |
| `Admin` | bans: found exactly, and a moderator's reach | 3 bans ever, 2 ranges, 2 boards, an administrator and a moderator, 2 ranges per request; edits of the newest ban of a range | holds |
| | checks: prefixes and floods | bytes of 2 bits, 2 and 3 of them, addresses that differ in the last byte, every prefix length up to the last before the mask overflows; 3 posts, 3 seconds | holds |
| | boards: links and reports | 5 boards ever, 3 names, 2 reports; moves at the ends of the list | holds |
| | users and sessions, with requests between headers and body | 3 users ever, 2 names, 3 sessions, 2 connections, 3 seconds (a session ends in the second after it was seen), any kills | holds; 192 thousand in all |
| `BanOlder` | bans, when an older ban of a range is edited? | the same | **violated** |
| `StaleAdmin` | are users changed and deleted by administrators only? | 2 users ever, 4 seconds | **violated** |

Why the bounds are enough.  A journal record is written and replayed independently of
the others except through order and repetition, which two regions and several records
per region show; what matters about a kill is where it falls, and TLC tries each
place.  The full boundary is five symbols in the model: four-byte files reach
every proper prefix of it, with every cut; longer ones repeat them.  A list of three threads has a first, a
middle and a last, and the fourth post is a prune, a bump of the middle, or the reply
that fills a thread.  The captcha pool's shape is decided by last, first and other
positions.  Three regions can nest, overlap and touch in every way that two boundaries
at a place can; three blocks in a free list are a first, a middle and a last one.  A
byte of two bits has a prefix that ends before, inside and behind it.  Two connections are one that
acts and one whose page has been overtaken.  Three bytes on
chunks of two fill a chunk and start the next, so a ring of two chunks is given back
and taken by the other connection.  The proofs below need no bounds.

Runs check for deadlock except where the system may stop: a request that is over
(`UploadPost`, `Wire`), a bound that is used up (`Threads`, `Admin`).

### Fairness

`JournalStore` assumes weak fairness of the steps of `db_commit` and `db_open`: the
process, once started, runs, and a killed one is started again; nothing is assumed
about transactions being begun or committed.  The bound on kills makes them finite.
`UploadPost` assumes that a job ends (external programs that convert files) and that
a connection whose answer is complete is closed (`context_flush` shuts it down).
Nothing is assumed of clients: they need not send the rest, nor leave.

## What is proved

`JournalProofs`, `DatabaseProofs`, `JobProofs`, `ThreadProofs`, `AdminProofs` and
`PageProofs` are checked by TLAPS for all values of the constants, from
the assumptions named in the modules they extend only: regions are a finite set of
integers, contents contain the initial one, capacities, limits, the step and the numbers of
captchas, jobs, files, boards, users and posts are positive, hashes, positions and times are
natural numbers, the null pointer is not an object, bans are numbered from 1 as
`master_ban_counter` does, an address has as many bytes as its version says, tags are
neither `code` nor the mark of a quote, chunks and escaped characters are not empty.

* `JournalProofs`, on `Journal`: `TypeCorrect`; `Inductive`, the invariant `IInv`; from it
  `Atomicity`, `NothingIsForgotten` and `Refinement` (of `AtomicStore`); and
  `WriteAheadLogging`.  *Argument.*  While the program runs, the file equals the last
  committed state, so the claim about the file is simple there; the difficult states
  are those behind a COMMIT marker, where the file is partly new.  `IInv` says of them
  that the last record of each region in the journal is the committed value
  (`LastIsCommitted`) and that a region the file shows wrongly still has a record
  ahead of the reader (`StillToReplay`), so starting the replay again from the
  beginning is harmless.  `Written` carries this through the writing of the records,
  `DirtyTracked` ties the dirty set to what the program sees, `ReplayScan` says what the
  reader of the journal has found.  `IInv` is claimed up to the first fault: a commit
  appended to leftovers, or a lost marker (`faults`); `WriteAhead` needs less and
  covers journals with leftovers too.
* `JournalProofs`, on `DirtyRegions`: `RegionsWrittenExactly`.  *Argument.*  Boundaries are counted: up to any
  position as many regions have ended as had started one byte before at most, and a byte
  was reported exactly if more have started than ended there (`Balanced`).  Each report
  keeps this (`RegionBalanced`), and sorting keeps the counts in whatever order equal
  positions are left (`Arranged`, `SortedIs`), which is all that is used of `qsort`.  The
  loop of `db_commit` goes from a position to the next: `ScanInv` says that its nesting is
  the number of regions open at this place, and that the entries written hold just the
  reported bytes before it, each once (`ScanTurn`); behind the last boundary nothing is
  open, so nothing is missing and the assert holds.
* `DatabaseProofs`, on `HashMap`: `TypeCorrect`, `AssertsHold`, `Inductive`, `CountIsRight`,
  `ImplementsDictionary`.  *Argument.*  `MapInv` is inductive: the new table is twice
  the old one, the slots still in use are initialised although the others are not,
  and the move keeps pace with the insertions (`KeepsPace`), which is why the old
  table is gone when the next doubling is due, whatever `Step` is.
* `DatabaseProofs`, on `BuddyAlloc`: `AllocKept`, the invariant `AllocInv`; from it `AlwaysTiled`,
  `AlwaysFreeLists` and `AlwaysJournaled`.  *Argument.*  The free buckets of an order are
  a chain `q[1], ..., q[n]` (`Chain`): the header leads to `q[1]`, next and prev of `q[i]` are
  its neighbours, and each free bucket of the order is in it once.  While a C function
  works, the buckets it has taken out and not yet put back are named (`Chains(m, out)`), so
  `extract_bucket` adds one to `out` (`ExtractKeeps`), `insert_bucket` removes one
  (`InsertKeeps`), and a bucket in `out` may be changed at will (`AlteredKeeps`).  `Tiles` says
  that each bucket ends before the next one starts and each unit lies in one: a bucket
  and its buddy cover what the bucket did (`HalvesTile`), a new one the second half
  (`DoubleTiles`).  `Covered` says of each cell that it is reported, or in the file as it is
  in memory; so what `Commit` writes over the file makes it equal to memory
  (`CoveredOverlay`), and `Kill` finds a file that is as good.  The loops of `db_alloc` end
  where they should: two turns of growth find a larger bucket (`SearchGrows`), and
  splitting ends at the order asked for with the bucket found still free (`SplitLoop`).
  `merge_buckets` does nothing (`MergeNothing`), as no position is inside `header->size`; a
  proof for a build that merges would need more.
* `JobProofs`, on `UploadPost`: `RequestIsGood`, the invariant `Good` and `Kept`; from it `ReferencesCounted`,
  `AnswersOnce`, `FilesAreProcessed` and `NothingIsLeft`.  *Argument.*  `pending` counts
  the jobs that run or were refused (`Holders`), and `refcount` those and the connection.
  `Staged` says which stages the jobs can be in: only the last may still be received, and
  a job that has failed has aborted the request; so when `post_page_finish` finds nothing
  pending and no abort, every file has been converted (`Filed`).  An answer is given
  when nothing is pending, or aborts the request (`Settled`), so there is no second one.
  `Kept` follows the temporary files: once there is a post, whatever aborts or ends the
  request again has answered twice, so a file left over was still being received.
  The calls of a handler are lemmas of their own (`Alike` says what they leave alone).
* `ThreadProofs`: `BoardInOrder`, the invariant `InOrder`; from it `ThreadsStayLinked`,
  `PostsStayLinked`, `BumpOrderStays`, `PinnedStayFirst`, `NewThreadsStay` and
  `OldestIsPruned`.  *Argument.*  A list is a sequence again, and its last pointer is right
  (`Ends`); `Ranked` says that the sequence of the board is in the right order, and
  `bump_thread` takes a thread out of it and puts it behind the pinned ones (`Moved`,
  `Placed`).  `BoardOk` adds the data of the threads, the posts of each and the table of
  posts.  It does not hold between the calls of a handler: there a post is linked and not
  yet counted (`HalfAdded`), or a thread is on the board and its only post has no thread,
  which is where the code crashes if the pruning takes that thread (`CrashIs`).  It
  takes it only if all others are pinned, for the new thread stands right behind the pinned
  ones; otherwise the last thread is the one that was bumped first (`LastIsOldest`).  A deletion empties the thread post by post (`ThreadEmptied`).  Each
  turn of a moderator's loop leaves a board as good as before, with no thread or post
  that was not there (`Moderated`), and so does the loop (`AllTurns`).  `Good`
  adds the reports (`ReportsOk`), which outlive their posts but never name another thread.
* `AdminProofs`: `BoardsStayLinked`, `AccountsStayLinked`, `EndedStayEnded`,
  `FloodsLimited`, `BansEnforced`, `BansFoundExactly`, `NoBanDangles`, `BansOfOthersStay`.  *Argument.*
  As for threads, `Holds(l, s, n)` says that a list holds the nodes `s[1]`, ..., `s[n]` in this
  order and that all its pointers say so; `ListProofs` has a lemma for each operator that gives
  the sequence it leaves, with a case for each place a node can have.  `BoardInv` and `UserInv` put such
  lists together with what belongs to each node; `UserInv` claims it for memory and for
  the file, as a kill goes back to the file, and keeps apart sessions that were found,
  that are being closed and that have ended.  What a page still points to is not in it:
  every action is shown to keep the lists whoever it acts for, the users until the
  last one is deleted (`UsersSound`).  `Indexed` makes each range's bans such a list that
  starts in `ban_tbl` and says that the key is the ban's own range (`Shaped`), from
  which follow what `find_bans` meets and that nothing freed is pointed to; `BanInv` adds
  the boards of each ban.  That others keep their bans (`Spares`) goes through
  `mod_page_finish` range by range: what `Split` leaves with the old ban is what the new
  one does not take (`Work`, `Edited`).  `CheckInv` says that the ban an
  address left behind is among the bans made until its time is over.
  For `BansEnforced` every ban is of an address and a prefix of any length (`RangesOfBans`); the bits of a
  prefix are those of its full bytes and the first ones of the next (`BitPlace`), and a byte with
  its lowest bits masked out is known by the bits left (`MaskedAgree`).  So `Covers`, `ip_in_range`
  and `normalize_ip_range`, one bit by bit and two byte by byte, each in its own way, all
  say `Matched` (`CoversMatched`, `InRangeMatched`, `NormalizedMatched`).
  *Conditions.*  `BoardsStayLinked` is about boards that are not moved past neighbours on both sides
  (`"inside" \notin Moves`), the theorems on bans about edits of the newest ban
  of a range that keep the range (`Edits \subseteq {"newest"}`): otherwise the code breaks the
  lists, as the next section says.  Everything else that the modules can do is covered.
* `PageProofs`, on `Bbcode`: `TextsAreNested`.  *Argument.*  Between two turns of the loop the elements of
  the page are the stack (`TextInv`), and a `[code]` is alone on it.  `CLOSE_TAG` takes
  the elements above the tag off, closes it and opens them again; each of the three runs is
  a lemma (`ClosedRun`, `OpenedRun`), and so are the levels of a quote and `CLOSE_ALL`.
  `Untorn` holds in the middle of a turn, `Neat` at its end.
* `PageProofs`, on `Output`: `ClientsGetWhatWasPrinted`.  *Argument.*  `Right` relates the parts of one
  context: the chunks it holds, no two alike and none of them free or another's
  (`ChunksOk`); the buffer, what is left of the newest (`BufferOk`); the batch, which
  refers to those chunks but not to the buffer (`BatchOk`); and the bytes, where what was
  sent, the batch and the buffer are together the bytes printed (`BytesOk`).  That the
  batch stays away from the buffer is what makes the invariant inductive: otherwise the next print could
  overwrite bytes that were not sent yet.  Each operation on a context keeps `Right` (`RightTaken`,
  `RightFilled`, `RightBatched`, `RightFile`, `RightSent`).  A print starts from what does not change
  meanwhile (`Frame`): the loops of `context_write_data` and `_print_esc_html` keep `Writing`
  (`WriteDataKeeps`, `PrintEscapedKeeps`), and have put into chunks just as many bytes as they were
  given, however many turns they need.  `OutputInv` says `Right` of every connection; a step of one
  leaves the others right because memory only changes in its own chunks (`RightElsewhere`), also
  when a client leaves and the ring of chunks goes to the free list (`GivenBackIs`).
* `JobProofs`, on `CaptchaPool`: `PoolIsSound`, `IndexIsRight`, `NeverTooMany`, `JobsGoOn`.  *Argument.*
  `PoolInv` says that the index of each captcha leads back to it in the array, so that
  the array is a bijection onto the table (`AsManyAsIndexed`), and that running and lost
  jobs together are those in flight, which fit into the room that is left.  Every start
  of jobs is measured by that room (`StartsFit`).

Loops are folds in the models.  `Folding` proves once that a fold has a sequence of
intermediate values, each made from the one before (`Steps`), so that a lemma about one
turn gives, by induction, one about the loop.  It is instantiated for each operator, as a
theorem cannot take one; induction is said of sets of numbers for the same reason.

`TypeOK`, `IInv`, `MapInv`, `InOrder` and the invariants of the other proofs hold by these theorems and are
in no run.

Only model-checked: liveness (`Applied`, `Answered`, `Freed`, which the prover cannot
state), and `HttpParser`, which has a recursive operator for the loop of `http_read`.

## Where the code departs from what it says

Runs that show it:

* `JournalLeftover`: a process is killed after it has written a record and before the
  COMMIT marker.  The next one rejects the journal (`db_check_journal` returns -1) and
  runs on the old contents, but does not empty it; its first commit, of another region,
  appends a record and a marker, and the replay writes the abandoned record as well, to a
  region the process never stored to.
* `UploadAnswers`: a request that has been answered for one error is answered again
  when a job fails (or the type of a second file is refused); `assert(!ctx->eof)` in
  `context_eof` then stops the process.
* `BanOlder`: editing and deleting an older ban of a range leaves a cycle in its bucket
  list, in which `find_bans` does not end.
* `StaleAdmin`: a page keeps the user of its session from the headers to the end of the
  body.  Two administrators have sent their headers; the body of the first deletes the
  second, then the body of the second comes: the freed user still reads as an
  administrator, since `db_free` leaves the type in place, and the first is deleted.
  Nobody is left, although nobody can delete his own account.
* `CaptchaLast`: replacing the last captcha of the array looks up the captcha that has
  just been removed.

Seen while modelling, and written into the properties as the exceptions they name:

* A file whose type is refused never gives back `pending` and its reference: the
  context and its temporary files stay (`Counted`, `NothingLeft`, `Freed`).
* If the board is named before the files, the end of the first file's job makes the post while later
  files are still being received (`PostedAreProcessed`).  If the client then leaves, the
  temporary file of the one it was sending stays for ever: `post_page_finalize` aborts
  jobs only if there is no post, and `upload_job_finalize` deletes the files of aborted jobs
  only (`NothingLeft` names it).
* A captcha job that fails is counted as in flight for ever (`KeepsGenerating`), and
  each solved captcha starts up to four more jobs, whatever is running.
* Deleting a board deletes every report, on whatever board ("Delete all reports belonging
  to this board", `persistence.c:147`): the condition `report_board_id(report) &&
  board_id(board)` compares nothing.
* Moving a board that has neighbours on both sides leaves it out of reach of one of
  them (`Moves = {"inside"}`), and a board added after the last one was deleted is not
  found: `first_board` is not set.  A board or user cannot be renamed, as the new name
  must belong to the board itself.
* A logout destroys the session outside a transaction: it is durable with the next
  commit only (`EndedForGood` says so).  Sessions of a deleted user stay.  A logout
  whose session was freed between headers and body runs into the assert of `db_free`.
* After the last user was deleted (`StaleAdmin`), a new one is not found: `first_user` is
  not set (`AccountsLinked` claims the users as long as one is left).
* Adding a user asks for an administrator or for one who names himself in `user_id`, and
  `can_edit_everything` is not asked: `OnlyAdmins` is about changes and deletions.
* A ban with a prefix longer than its address is accepted (`mod.c:327`) and stored, but
  `find_bans` asks for the lengths up to 32 or 128 only: it is found for nobody
  (`Enforced` says so).  From length 136 on `normalize_ip_range` writes behind its mask.
* Deleting a ban that is gone, by a moderator with a list of boards, editing one that
  names a deleted board, and an edit that leaves a ban without boards follow a null
  pointer or leave a freed ban in the lists: these end a behaviour of `Moderation`
  (`wrecked`).
* `any_ip_affected` ignores its target: bans on reports are never asked for.  The flood
  ban of an IPv6 client has the prefix 32 and so holds back its whole network.
* The allocator never merges buddies: `get_bucket_at_position` compares with
  `header->size`, which `db_grow` leaves alone.
* The pages for boards and users do not end the answer for one that is gone
  (`edit_board.c:133`, `edit_user.c:206`), and nothing is sent before `context_eof`.
* A ban given another range stays in the bucket of the old one (`Edits = {"moved"}`).
* Unpinning a thread, or pinning it with a saged reply, leaves it where it is
  (`PinnedFirst`).  When all threads of a full board are pinned, a new thread is the
  last one and prunes itself before it is complete (`NewThreadStays`).
* `BUMP_LIMIT` and `POST_LIMIT` take effect one post early, and a thread that was
  reopened beyond the limit is never closed again.
* The length of a line or a parameter is compared with its maximum only while its end
  is missing, so a longer one that arrives in one piece is accepted (`Fits`).
* `http_read_body` has a case for a connection that ends inside the body, which is
  never reached: `http_read` sets the state to EOF first.

## Limits of the models

* `Journal`: the page cache survives, as it does when a process is killed.  Loss of
  power is not modelled: nothing in the code says which pages it may lose.  A region
  is one cell; `DirtyRegions` has the merge of overlapping ones.
* `HashMap`: a bucket is a map; the order of pairs and the memory of buckets are left out.
* `BuddyAlloc`: orders end at `MaxCount + 4`, more than an operation that starts within
  `MaxCount` grows the file to (`AllocKeeps`), where the header has 56; a transaction is
  committed as one step, what owners write over their
  buckets is theirs to report, and `fallocate` never fails.
* `HttpParser`: a line is one symbol with padding; url and percent decoding, cookies
  and parameters of headers are left out; callbacks never refuse.
* `UploadPost`: one request at a time; the checks against the database (bans, flood,
  captcha, lengths) are one verdict; other requests do not change the database
  while it waits.
* `Threads`: one board, no uploads, and nobody is denied anything (a post that may not
  be touched is skipped like one that does not exist).  A post keeps its memory name: reuse
  of freed memory is left out.
* `BanIndex`, `Moderation`: two ranges share no bucket; expiry is nondeterministic; types,
  targets, durations and messages of bans are left out.
* `BanChecks`: the table is a set of ranges (`BanIndex` shows that all bans of a range are
  found); captchas that a ban asks for are left out, and so are prefixes of 136 bits and
  more (behaviour is undefined), that is, those behind `Longest("v6") + Bits - 1`.
* `BoardList`, `Accounts`: titles, passwords, e-mail and addresses are left out, and so are the
  forms that precede an action.  Memory of a freed user says what it said until memory is
  allocated for another user or session (`Overwritten`), then anything; a session is logged out
  through its own memory, which nothing else has been given by then (what a logout does
  to memory that was given away is undefined).
* `Moderation` looks up the user and his boards in the step that acts, where `mod.c` keeps
  `page->user` from the headers on as well; `BoardList`, `Threads` and `UploadPost` leave the
  user out.  What a page does for a user who is gone is in `Accounts`.
* `Output`: characters are their width; `iob_send` sends any number of the bytes it has.
* `Bbcode`: what stands next in the text is anything; the text printed is left out.
* `CaptchaPool`: token and solution are left out.

Not modelled, and why: `export.c` and `import.c` are programs of their own that pass once
over a file; the pages that only display, `tpl.c` and the helpers of `util.c` and
`mime_types.c` keep no state between requests; `arc4random.c` is a vendored generator;
`fork`, `exec` and the pipes of `job.c` are the operating system's.  Exhaustion of
processes, descriptors and memory is left out: the program has no answer to it.

## Plan

Done, in this order: `Journal` and its proofs, `HashMap` and its proofs, `UploadPost`
and its proofs, `CaptchaPool` and its proofs, `BanIndex`, `HttpParser`, `Threads`; then `DirtyRegions`, `BuddyAlloc`,
`Moderation`, `BoardList`, `Accounts`, `BanChecks`, `Output` and `Bbcode`; then the proofs about
`DirtyRegions`, `Bbcode`, all that `MCAdmin` holds, `Threads`, `Output` and `BuddyAlloc`.  What could be
modelled next: users and boards that are deleted while `UploadPost` waits for its jobs;
descriptors and their reuse (`upload_job.c:94`); a variant of `Journal` with loss of power.

Every safety property of the passing runs that the prover can reach is now a theorem.
What is left would need `http_read` said without recursion: its states as a chain of
turns, as `Folding` has them for folds.
