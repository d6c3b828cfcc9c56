----------------------------- MODULE UploadPost -----------------------------
(***************************************************************************)
(* One request to /post (pages/post.c) and the jobs that check and convert *)
(* the files it uploads (upload_job.c, job.c).  The event loop reads the    *)
(* body while the jobs of the files it has already read run; the http       *)
(* context (context.c) is shared by the connection and by every job.        *)
(*                                                                         *)
(* The request is one record, and each C function a function from records   *)
(* to records, so that an action is the sequence of calls the handler       *)
(* makes.  Left out: the text of fields, answers and files.                 *)
(***************************************************************************)
EXTENDS Integers, Sequences, FiniteSets

CONSTANT FileLimit    \* MAX_FILES_PER_POST, 4 in the code

ASSUME UploadAssumption == FileLimit \in Nat \ {0}

VARIABLE req

Stages == {"UPLOADING", "MIMECHECKING", "MIMECHECKED", "EXTRACTING_META",
           "THUMBNAILING", "THUMBNAILED"}
Verdicts == {"post", "reject"}
Outcomes == {"accept", "refuse", "fail"}   \* how a job ends; the mime type is refused

\* upload_job_init
NewJob == [stage |-> "UPLOADING", ok |-> TRUE, empty |-> TRUE,
           running |-> FALSE, file |-> "none"]

\* http_init and post_page_init, once the headers have been read.
Init == req = [open      |-> TRUE,    \* no close notification yet
               refcount  |-> 1,
               eof       |-> FALSE,   \* the answer is complete
               error     |-> FALSE,   \* context.error: nothing more is read
               status    |-> FALSE,   \* http.error_status is set
               state     |-> "BODY",
               part      |-> "none",  \* the multipart part being read
               aborted   |-> FALSE,
               isBot     |-> FALSE,
               addressed |-> FALSE,   \* a board or a thread has been named
               pending   |-> 0,
               success   |-> FALSE,
               jobs      |-> <<>>,    \* page.upload_jobs
               failed    |-> FALSE,   \* the assert of context_eof
               early     |-> FALSE,   \* history: a job ended inside the body
               lateFile  |-> FALSE]   \* history: a file came after Address

-----------------------------------------------------------------------------
\* context_eof, with its assert.
PrintEof(r) == IF r.eof THEN [r EXCEPT !.failed = TRUE]
                        ELSE [r EXCEPT !.eof = TRUE]

\* HTTP_FAIL sets error_status; when the callback's ERROR reaches http_read, an
\* answer is printed if error_status is set, by this failure or by an earlier one.
HttpFail(r) == [r EXCEPT !.status = TRUE]

ReadError(r) == [(IF r.status THEN PrintEof(r) ELSE r) EXCEPT !.error = TRUE]

\* upload_job_abort and the flag that its callers in post.c set with it.
Abort(r, i) == [r EXCEPT !.jobs[i].ok = FALSE, !.aborted = TRUE]

\* post_page_finalize and upload_job_finalize: the files of aborted jobs, and
\* all of them if there is no post, are deleted.
Deleted(job) == [job EXCEPT !.ok = FALSE,
                            !.file = IF @ = "temp" THEN "none" ELSE @]

\* Mutant of Finalize: only the files of aborted jobs are deleted.
Finalize_AbortedOnly(r) ==
    [r EXCEPT !.jobs = [i \in DOMAIN @ |-> IF @[i].ok THEN @[i] ELSE Deleted(@[i])]]

Finalize(r) ==
    [r EXCEPT !.jobs = [i \in DOMAIN @ |-> IF r.success /\ @[i].ok THEN @[i]
                                           ELSE Deleted(@[i])]]

Unref(r) == LET s == [r EXCEPT !.refcount = @ - 1]
            IN IF s.refcount = 0 THEN Finalize(s) ELSE s

-----------------------------------------------------------------------------
\* The end of post_page_finish: the files of the post get their final names.
MakePost(r) ==
    [r EXCEPT !.success = TRUE,
              !.jobs = [i \in DOMAIN @ |-> IF @[i].ok /\ ~@[i].empty
                                           THEN [@[i] EXCEPT !.file = "final"]
                                           ELSE @[i]]]

\* Mutant of Finish: page->pending is not looked at.
Finish_Early(r, verdict) ==
    IF r.aborted THEN r ELSE IF r.addressed THEN PrintEof(MakePost(r)) ELSE HttpFail(r)

\* post_page_finish; the verdict stands for the checks against the database.
Finish(r, verdict) ==
    CASE r.aborted \/ r.pending > 0 -> r
      [] OTHER -> IF r.isBot THEN PrintEof(r)
                  ELSE IF ~r.addressed THEN HttpFail(r)
                  ELSE IF verdict = "reject" THEN PrintEof(r)
                  ELSE PrintEof(MakePost(r))

FinishFails(r, verdict) ==
    \/ r.aborted
    \/ r.pending = 0 /\ ~r.isBot /\ (~r.addressed \/ verdict = "reject")

-----------------------------------------------------------------------------
\* What the connection brings: http_read and the callbacks of post.c.
Reading == /\ req.open /\ ~req.error /\ ~req.failed
           /\ req.state = "BODY"

Last == Len(req.jobs)

\* post_page_file_begin.  Bound: one file more than the limit.
FileBegin ==
    /\ Reading /\ req.part = "none" /\ Last <= FileLimit
    /\ req' = IF req.aborted THEN ReadError(req)
              ELSE IF req.isBot THEN [req EXCEPT !.part = "ignored"]
              ELSE [req EXCEPT !.part = "file", !.jobs = Append(@, NewJob),
                               !.lateFile = @ \/ req.addressed]

\* upload_job_write_content
Received(job) == [job EXCEPT !.empty = FALSE,
                             !.file = IF @ = "none" THEN "temp" ELSE @]

\* post_page_file_content
FileContent(tooLarge) ==
    /\ Reading /\ req.part \in {"file", "ignored"}
    /\ req' = IF req.aborted THEN ReadError(req)
              ELSE IF req.part = "ignored" THEN req
              ELSE IF Last > FileLimit \/ tooLarge
                   THEN ReadError(Abort(PrintEof(req), Last))
              ELSE [req EXCEPT !.jobs[Last] = Received(@)]

\* upload_job_write_eof: the mime type is looked at first.
Started(job) == [job EXCEPT !.stage = "MIMECHECKING", !.running = TRUE]

\* Mutant of FileEnd: context_addref is forgotten.
FileEnd_NoRef ==
    /\ Reading /\ req.part = "file" /\ ~req.jobs[Last].empty
    /\ req' = [req EXCEPT !.part = "none",
                          !.jobs[Last] = Started(@),
                          !.pending = @ + 1]

\* post_page_file_end: an empty field is dropped, a file's first job started.
FileEnd ==
    /\ Reading /\ req.part \in {"file", "ignored"}
    /\ LET r == [req EXCEPT !.part = "none"]
       IN req' = IF req.part = "ignored" THEN r
                 ELSE IF req.jobs[Last].empty
                      THEN [r EXCEPT !.jobs = SubSeq(@, 1, Last - 1)]
                 ELSE [r EXCEPT !.jobs[Last] = Started(@),
                                !.pending = @ + 1,
                                !.refcount = @ + 1]

\* post_page_post_param
Address  == /\ Reading /\ req.part = "none" /\ ~req.addressed
            /\ req' = [req EXCEPT !.addressed = TRUE]

BotField == /\ Reading /\ req.part = "none" /\ ~req.isBot
            /\ req' = [req EXCEPT !.isBot = TRUE]

UnknownField == /\ Reading /\ req.part = "none"
                /\ req' = ReadError(HttpFail(req))

\* http_read_body, when content_length bytes have come, be it inside a part.
EndOfBody(verdict) ==
    /\ Reading
    /\ LET r == Finish([req EXCEPT !.state = "EOF"], verdict)
       IN req' = IF FinishFails(req, verdict) THEN ReadError(r) ELSE r

\* read_data sees the end of the connection: the client has left, or the
\* answer is complete and context_flush has shut the socket down.
Close == /\ req.open /\ ~req.failed
         /\ req' = Unref([req EXCEPT !.open = FALSE, !.state = "EOF",
                                     !.part = "none"])

-----------------------------------------------------------------------------
\* What a job's exit brings: job_read, upload_job_job_finish and its callbacks.
NextStage == [MIMECHECKING    |-> "EXTRACTING_META",
              EXTRACTING_META |-> "THUMBNAILING",
              THUMBNAILING    |-> "THUMBNAILED"]

Stopped(r, i, stage) ==
    [r EXCEPT !.jobs[i] = [r.jobs[i] EXCEPT !.running = FALSE, !.stage = stage]]

\* Mutant of Settle: context_unref is forgotten.
Settle_NoUnref(r, verdict) == Finish([r EXCEPT !.pending = @ - 1], verdict)

\* Mutant of Settle: post_page_finish is called before page->pending is decremented.
Settle_Swapped(r, verdict) ==
    LET s == Finish(r, verdict) IN Unref([s EXCEPT !.pending = @ - 1])

\* The last three calls of post_page_upload_job_finish and ..._error.
Settle(r, verdict) ==
    Unref(Finish([r EXCEPT !.pending = @ - 1], verdict))

JobAccepts(r, i, verdict) ==
    LET next == NextStage[r.jobs[i].stage]
    IN IF next = "THUMBNAILED" THEN Settle(Stopped(r, i, next), verdict)
       ELSE [r EXCEPT !.jobs[i].stage = next]

\* post_page_upload_job_mime and finished_mime_check_job
JobRefuses(r, i) == Abort(PrintEof(Stopped(r, i, "MIMECHECKED")), i)

\* Mutant of JobFails: each failing job prints an answer.
JobFails_Again(r, i, verdict) ==
    Settle(Abort(PrintEof(Stopped(r, i, r.jobs[i].stage)), i), verdict)

\* post_page_upload_job_error
JobFails(r, i, verdict) ==
    LET s == Stopped(r, i, r.jobs[i].stage)
    IN Settle(Abort(IF s.aborted THEN s ELSE PrintEof(s), i), verdict)

JobExit(i, outcome, verdict) ==
    /\ ~req.failed /\ i <= Last /\ req.jobs[i].running
    /\ outcome = "refuse" => req.jobs[i].stage = "MIMECHECKING"
    /\ LET r == [req EXCEPT !.early = @ \/ (req.state = "BODY" /\ ~req.error)]
       IN \/ outcome = "accept" /\ req' = JobAccepts(r, i, verdict)
          \/ outcome = "refuse" /\ req' = JobRefuses(r, i)
          \/ outcome = "fail"   /\ req' = JobFails(r, i, verdict)

-----------------------------------------------------------------------------
Read == \/ FileBegin \/ FileEnd \/ Address \/ BotField \/ UnknownField
        \/ \E tooLarge \in BOOLEAN : FileContent(tooLarge)
        \/ \E verdict \in Verdicts : EndOfBody(verdict)

SomeExit(i) == \E outcome \in Outcomes, verdict \in Verdicts :
                   JobExit(i, outcome, verdict)

Jobs == 1..(FileLimit + 1)

Next == Read \/ Close \/ \E i \in Jobs : SomeExit(i)

Spec == Init /\ [][Next]_req

\* Jobs end, and a socket that has been shut down is closed; clients need not
\* send the rest of their request, nor leave.
FairSpec == /\ Spec
            /\ WF_req(req.eof /\ Close)
            /\ \A i \in Jobs : WF_req(SomeExit(i))

-----------------------------------------------------------------------------
Job == [stage : Stages, ok : BOOLEAN, empty : BOOLEAN, running : BOOLEAN,
        file : {"none", "temp", "final"}]

\* The fields of http_context and post_page.
TypeOK ==
    req \in [open : BOOLEAN, refcount : 0..(FileLimit + 2), eof : BOOLEAN,
             error : BOOLEAN, status : BOOLEAN, state : {"BODY", "EOF"},
             part : {"none", "file", "ignored"}, aborted : BOOLEAN,
             isBot : BOOLEAN, addressed : BOOLEAN, pending : 0..(FileLimit + 1),
             success : BOOLEAN, jobs : Seq(Job), failed : BOOLEAN,
             early : BOOLEAN, lateFile : BOOLEAN]

Running == {i \in DOMAIN req.jobs : req.jobs[i].running}
Refused == {i \in DOMAIN req.jobs : req.jobs[i].stage = "MIMECHECKED"}

\* Every reference has an owner: the connection, a running job, or a job whose mime
\* type was refused (which never gives its reference back).  So the context outlives
\* the jobs that point to it: "If we didn't increment the reference count, the closing
\* of the connection would cause the http_context to be destroyed, leading to a crash
\* later" (post_page_file_end).
Counted == /\ TypeOK
           /\ req.pending = Cardinality(Running) + Cardinality(Refused)
           /\ req.refcount = req.pending + (IF req.open THEN 1 ELSE 0)

\* assert(!ctx->eof): a request is answered at most once.
AnsweredOnce == ~req.failed

\* It is, unless the type of a file is refused (which prints an answer whatever has
\* been printed), a job ends while the body is still being read, or a field or
\* the lack of one is answered with HTTP_FAIL while jobs are running.
OneAnswer == Refused = {} /\ ~req.early /\ ~req.status => AnsweredOnce

\* However the body is cut into fields, a post has no more files than allowed.  If the
\* fields come in the order of the site's own form, files before board and thread, it has
\* none that is still to be received, checked or converted ("We are still waiting for
\* uploads to be processed").
PostedAreProcessed ==
    /\ Cardinality({i \in DOMAIN req.jobs : ~req.jobs[i].empty}) <= FileLimit
    /\ ~req.lateFile =>
          \A i \in DOMAIN req.jobs : req.jobs[i].file = "final"
                                         => req.jobs[i].stage = "THUMBNAILED"

\* When the client has gone and no job is running, the context has been freed and
\* no temporary file is left ("Aborted or error occured, clean up").  Two exceptions:
\* the type of a file was refused, and the file that is being received when a post
\* is made before the body ends, which takes a board that was named before it; its
\* job is neither aborted nor part of the post, so nobody deletes it.  (Nor does a
\* process that the assert of context_eof has stopped.)
NothingLeft ==
    ~req.open /\ Running = {} /\ Refused = {} /\ ~req.failed
        => /\ req.refcount = 0
           /\ \A i \in DOMAIN req.jobs : req.jobs[i].file = "temp" =>
                  /\ req.success /\ req.lateFile
                  /\ req.jobs[i].stage = "UPLOADING"

\* A request that has come completely is answered, unless its client leaves, or
\* post_page_finish failed when a job called it: nobody prints that error.
Answered ==
    (req.state = "EOF" /\ req.open)
        ~> (req.eof \/ ~req.open \/ req.status \/ req.failed)

\* An answered request is closed and freed, unless the type of a file was refused.
Freed == req.eof ~> (req.refcount = 0 \/ Refused # {} \/ req.failed)
=============================================================================
