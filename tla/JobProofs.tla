------------------------------- MODULE JobProofs ------------------------------
(***************************************************************************)
(* Proofs about what waits for programs that run beside the server.        *)
(*                                                                         *)
(* upload_job.c, post.c: for every limit on the number of files, who holds *)
(* the references to the context, how often the request is answered, and   *)
(* what becomes of its files.                                              *)
(*                                                                         *)
(* captcha.c: for pools and numbers of jobs of any size the index and the  *)
(* array agree, and the counters of jobs leave room for every captcha that *)
(* is still on its way (PoolInv).                                          *)
(***************************************************************************)
EXTENDS UploadPost, CaptchaPool, SequenceTheorems, FiniteSetTheorems, TLAPS

-----------------------------------------------------------------------------
(* UploadPost. *)

\* The type of a request, without the bounds of TypeOK.
Request == [open : BOOLEAN, refcount : Int, eof : BOOLEAN,
            error : BOOLEAN, status : BOOLEAN, state : {"BODY", "EOF"},
            part : {"none", "file", "ignored"}, aborted : BOOLEAN,
            isBot : BOOLEAN, addressed : BOOLEAN, pending : Int,
            success : BOOLEAN, jobs : Seq(Job), failed : BOOLEAN,
            early : BOOLEAN, lateFile : BOOLEAN]

\* The stages of a job whose program runs, or has failed.
Middle == {"MIMECHECKING", "EXTRACTING_META", "THUMBNAILING"}

\* The jobs that hold a reference.
Holders(r) == {i \in 1..Len(r.jobs) : \/ r.jobs[i].running
                                      \/ r.jobs[i].stage = "MIMECHECKED"}

\* Jobs and the fields of the form, in the order in which they come.
Staged(r) ==
    /\ Len(r.jobs) <= FileLimit + 1
    /\ r.part = "file" => Len(r.jobs) > 0 /\ r.jobs[Len(r.jobs)].stage = "UPLOADING"
    /\ \A i \in 1..Len(r.jobs) :
          LET job == r.jobs[i]
          IN /\ job.running => job.stage \in Middle
             /\ job.stage \in Middle /\ ~job.running => r.aborted
             /\ job.stage = "UPLOADING" =>
                   /\ i = Len(r.jobs)
                   /\ r.part = "file" \/ ~r.open
                   /\ r.addressed => r.lateFile
             /\ ~job.empty => i <= FileLimit
             /\ job.file # "none" => ~job.empty

\* What becomes of the files.
Filed(r) ==
    /\ r.success => r.addressed
    /\ ~r.lateFile =>
          \A i \in 1..Len(r.jobs) :
             /\ r.jobs[i].file = "final" => r.jobs[i].stage = "THUMBNAILED"
             /\ r.success /\ r.jobs[i].file = "temp" => ~r.jobs[i].ok
             /\ r.refcount = 0 => r.jobs[i].file # "temp"

\* The answer: once there is one, the request is over but for jobs of an aborted one.
Quiet(r) == /\ ~r.early /\ ~r.status
            /\ \A i \in 1..Len(r.jobs) : r.jobs[i].stage # "MIMECHECKED"

Settled(r) == Quiet(r) => /\ ~r.failed
                          /\ r.eof => \/ r.aborted
                                      \/ r.pending = 0 /\ (r.state = "EOF" \/ r.error)

Sound(r) == /\ r \in Request /\ Staged(r) /\ Filed(r) /\ Settled(r)
            /\ r.pending = Cardinality(Holders(r))

Good(r) == Sound(r) /\ r.refcount = r.pending + (IF r.open THEN 1 ELSE 0)

\* Also between the calls of a handler: a post has its answer, so a request that is
\* aborted after it gets a second one; a job that has failed is not kept.
Lasting(r) ==
    /\ r.success => r.eof
    /\ r.success /\ r.aborted => r.failed
    /\ \A i \in 1..Len(r.jobs) :
          r.jobs[i].stage \in Middle /\ ~r.jobs[i].running => ~r.jobs[i].ok

\* The temporary files: a converted one that no post has taken waits for other jobs,
\* and the end of the context leaves those of jobs that are still ok.
Kept(r) ==
    /\ Lasting(r)
    /\ r.success /\ ~r.failed =>
          \A i \in 1..Len(r.jobs) :
             /\ r.jobs[i].file = "temp" /\ r.jobs[i].ok
             /\ r.jobs[i].stage = "THUMBNAILED"
             => r.pending > 0
    /\ r.refcount = 0 =>
          \A i \in 1..Len(r.jobs) :
             r.jobs[i].file = "temp" => r.success /\ r.jobs[i].ok

-----------------------------------------------------------------------------
\* Holders are finitely many.
LEMMA HoldersFinite ==
    ASSUME NEW r \in Request
    PROVE  /\ IsFiniteSet(Holders(r)) /\ Cardinality(Holders(r)) \in Nat
           /\ Cardinality(Holders(r)) = 0 => Holders(r) = {}
           /\ Cardinality(Holders(r)) <= Len(r.jobs)
<1>1. Len(r.jobs) \in Nat
  BY DEF Request
<1>2. IsFiniteSet(1..Len(r.jobs)) /\ Cardinality(1..Len(r.jobs)) = Len(r.jobs)
  BY <1>1, FS_Interval, SMT
<1>3. Holders(r) \in SUBSET (1..Len(r.jobs))
  BY DEF Holders
<1>4. IsFiniteSet(Holders(r)) /\ Cardinality(Holders(r)) <= Len(r.jobs)
  BY <1>2, <1>3, FS_Subset
<1> QED BY <1>4, FS_CardinalityType, FS_EmptySet

\* s is r after calls that change nothing but the answer and the files.
Alike(r, s) == /\ s \in Request /\ Len(s.jobs) = Len(r.jobs)
               /\ s.refcount = r.refcount /\ s.open = r.open /\ s.pending = r.pending
               /\ s.part = r.part /\ s.state = r.state /\ s.addressed = r.addressed
               /\ s.early = r.early /\ s.lateFile = r.lateFile
               /\ \A i \in 1..Len(r.jobs) : /\ s.jobs[i].stage = r.jobs[i].stage
                                            /\ s.jobs[i].running = r.jobs[i].running
                                            /\ s.jobs[i].empty = r.jobs[i].empty

\* No reference changes hands.
LEMMA AlikeHolders ==
    ASSUME NEW r \in Request, NEW s, Alike(r, s)
    PROVE  Holders(s) = Holders(r)
BY DEF Alike, Holders

\* Two calls after each other.
LEMMA AlikeTwice ==
    ASSUME NEW r, NEW s, NEW t, Alike(r, s), Alike(s, t)
    PROVE  Alike(r, t)
BY DEF Alike

\* context.error is set.
LEMMA ErrorAlike ==
    ASSUME NEW r \in Request, NEW s, s = [r EXCEPT !.error = TRUE]
    PROVE  /\ Alike(r, s) /\ s.jobs = r.jobs /\ s.error
           /\ s.aborted = r.aborted /\ s.success = r.success /\ s.status = r.status
           /\ s.eof = r.eof /\ s.failed = r.failed
BY DEF Alike, Request

\* context_eof touches the answer only; the assert fails at the second one.
LEMMA PrintEofAlike ==
    ASSUME NEW r \in Request
    PROVE  /\ Alike(r, PrintEof(r)) /\ PrintEof(r).jobs = r.jobs
           /\ PrintEof(r).eof /\ (PrintEof(r).failed <=> r.failed \/ r.eof)
           /\ PrintEof(r).aborted = r.aborted /\ PrintEof(r).status = r.status
           /\ PrintEof(r).error = r.error /\ PrintEof(r).success = r.success
BY DEF Request, PrintEof, Alike

\* The end of http_read: an answer is added only where none is claimed to be the first.
LEMMA ReadErrorSound ==
    ASSUME NEW r, Sound(r)
    PROVE  Sound(ReadError(r)) /\ Alike(r, ReadError(r))
<1> DEFINE p == IF r.status THEN PrintEof(r) ELSE r
<1>1. r \in Request
  BY DEF Sound
<1>2. /\ Alike(r, p) /\ p.jobs = r.jobs /\ p.aborted = r.aborted /\ p.success = r.success
      /\ p.status = r.status
      /\ ~r.status => p = r
  BY <1>1, PrintEofAlike DEF Alike
<1>3. p \in Request /\ ReadError(r) = [p EXCEPT !.error = TRUE]
  BY <1>2 DEF Alike, ReadError
<1> HIDE DEF p
<1>4. /\ Alike(r, ReadError(r)) /\ ReadError(r).jobs = r.jobs
      /\ ReadError(r).aborted = r.aborted /\ ReadError(r).success = r.success
      /\ ReadError(r).status = r.status /\ ReadError(r).error
      /\ ~r.status => ReadError(r).eof = r.eof /\ ReadError(r).failed = r.failed
  <2>1. /\ Alike(p, ReadError(r)) /\ ReadError(r).jobs = p.jobs
        /\ ReadError(r).aborted = p.aborted /\ ReadError(r).success = p.success
        /\ ReadError(r).status = p.status /\ ReadError(r).error
        /\ ReadError(r).eof = p.eof /\ ReadError(r).failed = p.failed
    BY <1>3, ErrorAlike
  <2>2. Alike(r, ReadError(r))
    BY <1>2, <2>1, AlikeTwice
  <2> QED BY <1>2, <2>1, <2>2
<1>5. Staged(ReadError(r)) /\ Filed(ReadError(r))
  BY <1>4 DEF Sound, Staged, Filed, Alike
<1>6. Settled(ReadError(r))
  BY <1>4 DEF Sound, Settled, Quiet, Alike
<1>7. Holders(ReadError(r)) = Holders(r)
  BY <1>1, <1>4, AlikeHolders
<1> QED BY <1>4, <1>5, <1>6, <1>7 DEF Sound, Alike

\* HTTP_FAIL leaves nothing to be claimed about answers.
LEMMA HttpFailSound ==
    ASSUME NEW r, Sound(r)
    PROVE  Sound(HttpFail(r)) /\ Alike(r, HttpFail(r))
<1>1. r \in Request /\ HttpFail(r) = [r EXCEPT !.status = TRUE]
  BY DEF Sound, HttpFail
<1>2. /\ Alike(r, HttpFail(r)) /\ HttpFail(r).jobs = r.jobs /\ HttpFail(r).status
      /\ HttpFail(r).aborted = r.aborted /\ HttpFail(r).success = r.success
  BY <1>1 DEF Alike, Request
<1>3. Staged(HttpFail(r)) /\ Filed(HttpFail(r)) /\ Settled(HttpFail(r))
  BY <1>2 DEF Sound, Staged, Filed, Settled, Quiet, Alike
<1>4. Holders(HttpFail(r)) = Holders(r)
  BY <1>1, <1>2, AlikeHolders
<1> QED BY <1>2, <1>3, <1>4 DEF Sound, Alike

\* The first answer, to a request for which nothing is running.
LEMMA PrintEofSound ==
    ASSUME NEW r, Sound(r), r.pending = 0,
           Quiet(r) => ~r.eof /\ (r.state = "EOF" \/ r.error)
    PROVE  Sound(PrintEof(r)) /\ Alike(r, PrintEof(r))
<1>1. r \in Request
  BY DEF Sound
<1>2. /\ Alike(r, PrintEof(r)) /\ PrintEof(r).jobs = r.jobs
      /\ PrintEof(r).eof /\ (PrintEof(r).failed <=> r.failed \/ r.eof)
      /\ PrintEof(r).aborted = r.aborted /\ PrintEof(r).status = r.status
      /\ PrintEof(r).error = r.error /\ PrintEof(r).success = r.success
  BY <1>1, PrintEofAlike
<1>3. Staged(PrintEof(r)) /\ Filed(PrintEof(r))
  BY <1>2 DEF Sound, Staged, Filed, Alike
<1>4. Settled(PrintEof(r))
  BY <1>2 DEF Sound, Settled, Quiet, Alike
<1>5. Holders(PrintEof(r)) = Holders(r)
  BY <1>1, <1>2, AlikeHolders
<1> QED BY <1>2, <1>3, <1>4, <1>5 DEF Sound, Alike

\* A job whose file gets its final name.
LEMMA FinalName ==
    ASSUME NEW job \in Job, NEW new,
           new = IF job.ok /\ ~job.empty THEN [job EXCEPT !.file = "final"] ELSE job
    PROVE  /\ new \in Job /\ new.stage = job.stage /\ new.running = job.running
           /\ new.empty = job.empty /\ new.ok = job.ok
           /\ new.file = IF job.ok /\ ~job.empty THEN "final" ELSE job.file
BY DEF Job

\* No job runs and none has failed: in a form filled in order all files are processed.
LEMMA MakePostSound ==
    ASSUME NEW r, Sound(r), r.pending = 0, ~r.aborted, r.addressed, r.refcount # 0
    PROVE  /\ Sound(MakePost(r)) /\ Alike(r, MakePost(r))
           /\ MakePost(r).eof = r.eof /\ MakePost(r).error = r.error
           /\ Quiet(MakePost(r)) = Quiet(r)
<1> DEFINE s == MakePost(r)
<1>1. r \in Request /\ Len(r.jobs) \in Nat
  BY DEF Sound, Request
<1>2. \A i \in 1..Len(r.jobs) :
         /\ s.jobs[i] = IF r.jobs[i].ok /\ ~r.jobs[i].empty
                          THEN [r.jobs[i] EXCEPT !.file = "final"] ELSE r.jobs[i]
         /\ r.jobs[i] \in Job
  BY <1>1 DEF MakePost, Request
<1>3. \A i \in 1..Len(r.jobs) :
         /\ s.jobs[i] \in Job
         /\ s.jobs[i].stage = r.jobs[i].stage /\ s.jobs[i].running = r.jobs[i].running
         /\ s.jobs[i].empty = r.jobs[i].empty /\ s.jobs[i].ok = r.jobs[i].ok
         /\ s.jobs[i].file = IF r.jobs[i].ok /\ ~r.jobs[i].empty THEN "final"
                             ELSE r.jobs[i].file
  <2> SUFFICES ASSUME NEW i \in 1..Len(r.jobs)
               PROVE  /\ s.jobs[i] \in Job
                      /\ s.jobs[i].stage = r.jobs[i].stage
                      /\ s.jobs[i].running = r.jobs[i].running
                      /\ s.jobs[i].empty = r.jobs[i].empty /\ s.jobs[i].ok = r.jobs[i].ok
                      /\ s.jobs[i].file = IF r.jobs[i].ok /\ ~r.jobs[i].empty THEN "final"
                                          ELSE r.jobs[i].file
      OBVIOUS
  <2>1. PICK job : job = r.jobs[i]
    OBVIOUS
  <2>2. PICK new : new = s.jobs[i]
    OBVIOUS
  <2>3. job \in Job /\ new = IF job.ok /\ ~job.empty
                               THEN [job EXCEPT !.file = "final"] ELSE job
    BY <1>2, <2>1, <2>2
  <2>4. /\ new \in Job /\ new.stage = job.stage /\ new.running = job.running
        /\ new.empty = job.empty /\ new.ok = job.ok
        /\ new.file = IF job.ok /\ ~job.empty THEN "final" ELSE job.file
    BY <2>3, FinalName
  <2> HIDE DEF s
  <2> QED BY <2>1, <2>2, <2>4
<1>4. s.jobs \in Seq(Job) /\ Len(s.jobs) = Len(r.jobs)
  <2>1. s.jobs = [i \in 1..Len(r.jobs) |-> s.jobs[i]]
    BY <1>1 DEF MakePost, Request
  <2> QED BY <1>1, <1>3, <2>1
<1>5. /\ s \in Request /\ s.success
      /\ s.refcount = r.refcount /\ s.open = r.open /\ s.pending = r.pending
      /\ s.part = r.part /\ s.state = r.state /\ s.addressed = r.addressed
      /\ s.early = r.early /\ s.lateFile = r.lateFile /\ s.status = r.status
      /\ s.eof = r.eof /\ s.error = r.error /\ s.failed = r.failed /\ s.aborted = r.aborted
  BY <1>1, <1>4 DEF MakePost, Request
<1> HIDE DEF s
<1>6. Alike(r, s)
  BY <1>3, <1>4, <1>5 DEF Alike
<1>7. Holders(r) = {} /\ Holders(s) = Holders(r)
  BY <1>1, <1>6, AlikeHolders, HoldersFinite DEF Sound
<1>8. Staged(s)
  BY <1>3, <1>4, <1>5 DEF Sound, Staged
<1>9. ~r.lateFile => \A i \in 1..Len(r.jobs) :
         ~r.jobs[i].empty => r.jobs[i].stage = "THUMBNAILED"
  <2> SUFFICES ASSUME ~r.lateFile, NEW i \in 1..Len(r.jobs), ~r.jobs[i].empty
               PROVE  r.jobs[i].stage = "THUMBNAILED"
      OBVIOUS
  <2>1. ~r.jobs[i].running /\ r.jobs[i].stage # "MIMECHECKED"
    BY <1>7 DEF Holders
  <2>2. r.jobs[i].stage \notin Middle /\ r.jobs[i].stage # "UPLOADING"
    BY <2>1 DEF Sound, Staged
  <2> QED BY <1>2, <2>1, <2>2 DEF Job, Stages, Middle
<1>10. Filed(s)
  BY <1>3, <1>4, <1>5, <1>9 DEF Sound, Filed, Staged
<1>11. Quiet(s) = Quiet(r) /\ Settled(s)
  BY <1>3, <1>4, <1>5 DEF Sound, Settled, Quiet
<1> QED BY <1>5, <1>6, <1>7, <1>8, <1>10, <1>11 DEF Sound, s

\* post_page_finish, for one that is not answered yet or aborted.
LEMMA FinishSound ==
    ASSUME NEW r, Sound(r), NEW v \in Verdicts, r.refcount # 0,
           Quiet(r) => (r.eof => r.aborted) /\ (r.state = "EOF" \/ r.error)
    PROVE  Sound(Finish(r, v)) /\ Alike(r, Finish(r, v))
<1>0. r \in Request
  BY DEF Sound
<1>1. CASE r.aborted \/ r.pending > 0
  <2>1. Finish(r, v) = r
    BY <1>1 DEF Finish
  <2> QED BY <1>0, <2>1 DEF Alike
<1>2. CASE ~r.aborted /\ ~(r.pending > 0)
  <2>0. r.pending = 0
    BY <1>0, <1>2, HoldersFinite DEF Sound
  <2>1. CASE r.isBot
    BY <1>2, <2>0, <2>1, PrintEofSound DEF Finish
  <2>2. CASE ~r.isBot /\ ~r.addressed
    BY <1>2, <2>2, HttpFailSound DEF Finish
  <2>3. CASE ~r.isBot /\ r.addressed /\ v = "reject"
    BY <1>2, <2>0, <2>3, PrintEofSound DEF Finish
  <2>4. CASE ~r.isBot /\ r.addressed /\ v # "reject"
    <3> DEFINE m == MakePost(r)
    <3>1. /\ Sound(m) /\ Alike(r, m) /\ m.eof = r.eof /\ m.error = r.error
          /\ Quiet(m) = Quiet(r)
      BY <1>2, <2>0, <2>4, MakePostSound
    <3>2. Finish(r, v) = PrintEof(m)
      BY <1>2, <2>4 DEF Finish
    <3> HIDE DEF m
    <3>3. m.pending = 0 /\ m.state = r.state
      BY <2>0, <3>1 DEF Alike
    <3>4. Sound(PrintEof(m)) /\ Alike(m, PrintEof(m))
      BY <1>2, <3>1, <3>3, PrintEofSound
    <3>5. Alike(r, PrintEof(m))
      BY <3>1, <3>4 DEF Alike
    <3> QED BY <3>2, <3>4, <3>5
  <2> QED BY <2>1, <2>2, <2>3, <2>4
<1> QED BY <1>1, <1>2

\* The end of http_read leaves the counters alone.
LEMMA ReadErrorGood ==
    ASSUME NEW r, Good(r)
    PROVE  Good(ReadError(r))
BY ReadErrorSound DEF Good, Alike

\* Calls that leave files, jobs and counters alone.
LEMMA KeptSame ==
    ASSUME NEW r, NEW s, Kept(r), s.jobs = r.jobs, s.success = r.success,
           s.aborted = r.aborted, s.pending = r.pending, s.refcount = r.refcount,
           r.eof => s.eof, r.failed => s.failed
    PROVE  Kept(s)
BY DEF Kept, Lasting

\* The end of http_read is one.
LEMMA ReadErrorKept ==
    ASSUME NEW r \in Request, Kept(r)
    PROVE  Kept(ReadError(r))
<1> PICK p : p = IF r.status THEN PrintEof(r) ELSE r
  OBVIOUS
<1>1. /\ p \in Request /\ p.jobs = r.jobs /\ p.success = r.success
      /\ p.aborted = r.aborted /\ p.pending = r.pending /\ p.refcount = r.refcount
      /\ (r.eof => p.eof) /\ (r.failed => p.failed)
  BY PrintEofAlike DEF Alike
<1>2. ReadError(r) = [p EXCEPT !.error = TRUE]
  BY DEF ReadError
<1> PICK s : s = ReadError(r)
  OBVIOUS
<1>3. /\ s.jobs = p.jobs /\ s.success = p.success /\ s.aborted = p.aborted
      /\ s.pending = p.pending /\ s.refcount = p.refcount
      /\ s.eof = p.eof /\ s.failed = p.failed
  BY <1>1, <1>2, ErrorAlike DEF Alike
<1> QED BY <1>1, <1>3, KeptSame

\* post_page_finish makes a post of all files that can be kept, answers a second
\* time, or leaves things to the jobs that are pending.
LEMMA FinishKept ==
    ASSUME NEW r \in Request, Staged(r), Filed(r), Lasting(r), r.refcount # 0,
           NEW v \in Verdicts
    PROVE  Kept(Finish(r, v))
<1> PICK s : s = Finish(r, v)
  OBVIOUS
<1>1. CASE r.aborted \/ r.pending > 0
  <2>1. s = r
    BY <1>1 DEF Finish
  <2> QED BY <1>1, <2>1 DEF Kept, Lasting
<1>2. CASE ~(r.aborted \/ r.pending > 0) /\ (r.isBot \/ (r.addressed /\ v = "reject"))
  <2>1. s = PrintEof(r)
    BY <1>2 DEF Finish
  <2>2. /\ s.jobs = r.jobs /\ s.success = r.success /\ s.aborted = r.aborted
        /\ s.refcount = r.refcount /\ s.eof /\ (s.failed <=> r.failed \/ r.eof)
    BY <2>1, PrintEofAlike DEF Alike
  <2> QED BY <2>2 DEF Kept, Lasting
<1>3. CASE ~(r.aborted \/ r.pending > 0) /\ ~r.isBot /\ ~r.addressed
  <2>1. s = [r EXCEPT !.status = TRUE]
    BY <1>3 DEF Finish, HttpFail
  <2>2. /\ s.jobs = r.jobs /\ s.success = r.success /\ s.aborted = r.aborted
        /\ s.refcount = r.refcount /\ s.eof = r.eof /\ s.failed = r.failed
    BY <2>1 DEF Request
  <2>3. ~r.success
    BY <1>3 DEF Filed
  <2> QED BY <2>2, <2>3 DEF Kept, Lasting
<1>4. CASE ~(r.aborted \/ r.pending > 0) /\ ~r.isBot /\ r.addressed /\ v # "reject"
  <2> PICK m : m = MakePost(r)
    OBVIOUS
  <2>1. s = PrintEof(m)
    BY <1>4 DEF Finish
  <2>2. /\ Len(m.jobs) = Len(r.jobs) /\ m.success /\ m.aborted = r.aborted
        /\ m.refcount = r.refcount
        /\ s.jobs = m.jobs /\ s.success = m.success /\ s.aborted = m.aborted
        /\ s.refcount = m.refcount /\ s.eof
    BY <2>1 DEF Request, MakePost, PrintEof
  <2>3. ASSUME NEW i \in 1..Len(r.jobs)
        PROVE  /\ m.jobs[i].stage = r.jobs[i].stage
               /\ m.jobs[i].running = r.jobs[i].running
               /\ m.jobs[i].ok = r.jobs[i].ok
               /\ m.jobs[i].file = "temp" => ~m.jobs[i].ok
    <3>1. PICK job \in Job : job = r.jobs[i]
      BY DEF Request
    <3>2. PICK new : new = m.jobs[i]
      OBVIOUS
    <3>3. new = IF job.ok /\ ~job.empty THEN [job EXCEPT !.file = "final"] ELSE job
      BY <3>1, <3>2 DEF MakePost, Request
    <3>4. /\ new.stage = job.stage /\ new.running = job.running /\ new.ok = job.ok
          /\ new.file = IF job.ok /\ ~job.empty THEN "final" ELSE job.file
      BY <3>3, FinalName
    <3>5. job.file # "none" => ~job.empty
      BY <3>1 DEF Staged
    <3> QED BY <3>1, <3>2, <3>4, <3>5
  <2>4. Lasting(s)
    BY <1>4, <2>2, <2>3 DEF Lasting
  <2> QED BY <2>2, <2>3, <2>4 DEF Kept
<1> QED BY <1>1, <1>2, <1>3, <1>4 DEF Verdicts

\* A request that is aborted after its post was made has been answered twice.
LEMMA AbortLasting ==
    ASSUME NEW p \in Request, NEW i \in 1..Len(p.jobs), p.success => p.eof /\ p.failed,
           \A j \in 1..Len(p.jobs) : j # i /\ p.jobs[j].stage \in Middle
                                        /\ ~p.jobs[j].running => ~p.jobs[j].ok
    PROVE  /\ Lasting(Abort(p, i))
           /\ Abort(p, i).refcount # 0 => Kept(Abort(p, i))
<1> PICK s : s = Abort(p, i)
  OBVIOUS
<1>1. /\ s.success = p.success /\ s.eof = p.eof /\ s.failed = p.failed
      /\ s.refcount = p.refcount /\ Len(s.jobs) = Len(p.jobs)
  BY DEF Abort, Request
<1>2. ~s.jobs[i].ok
  <2>1. PICK job \in Job : job = p.jobs[i]
    BY DEF Request
  <2>2. PICK new : new = [job EXCEPT !.ok = FALSE]
    OBVIOUS
  <2>3. s = [p EXCEPT !.jobs = [p.jobs EXCEPT ![i] = new], !.aborted = TRUE]
    BY <2>1, <2>2 DEF Abort
  <2>4. s.jobs[i] = new
    BY <2>3 DEF Request
  <2>5. ~new.ok
    BY <2>2 DEF Job
  <2> QED BY <2>4, <2>5
<1>3. \A j \in 1..Len(p.jobs) : j # i => s.jobs[j] = p.jobs[j]
  BY DEF Abort, Request
<1>4. Lasting(s)
  BY <1>1, <1>2, <1>3 DEF Lasting
<1> QED BY <1>1, <1>4 DEF Kept

\* upload_job_abort: r may be a request whose job has just stopped,
LEMMA AbortAlike ==
    ASSUME NEW r \in Request, NEW i \in 1..Len(r.jobs), Filed(r),
           Staged([r EXCEPT !.aborted = TRUE])
    PROVE  /\ Staged(Abort(r, i)) /\ Filed(Abort(r, i)) /\ Alike(r, Abort(r, i))
           /\ Abort(r, i).aborted /\ (Quiet(Abort(r, i)) => Quiet(r))
           /\ Abort(r, i).failed = r.failed /\ Abort(r, i).error = r.error
<1> DEFINE s == Abort(r, i)
<1>1. Len(r.jobs) \in Nat /\ \A j \in 1..Len(r.jobs) : r.jobs[j] \in Job
  BY DEF Request
<1>2. PICK new : new = [r.jobs[i] EXCEPT !.ok = FALSE]
  OBVIOUS
<1>3. /\ new \in Job /\ new.stage = r.jobs[i].stage /\ new.running = r.jobs[i].running
      /\ new.empty = r.jobs[i].empty /\ new.file = r.jobs[i].file /\ ~new.ok
  <2> PICK job \in Job : job = r.jobs[i]
    BY <1>1
  <2>1. new = [job EXCEPT !.ok = FALSE]
    BY <1>2
  <2>2. /\ new \in Job /\ new.stage = job.stage /\ new.running = job.running
        /\ new.empty = job.empty /\ new.file = job.file /\ ~new.ok
    BY <2>1 DEF Job
  <2> QED BY <2>2
<1>4. s = [r EXCEPT !.jobs = [r.jobs EXCEPT ![i] = new], !.aborted = TRUE]
  BY <1>2 DEF Abort
<1>5. /\ s.jobs \in Seq(Job) /\ Len(s.jobs) = Len(r.jobs)
      /\ \A j \in 1..Len(r.jobs) : s.jobs[j] = IF j = i THEN new ELSE r.jobs[j]
  BY <1>1, <1>3, <1>4 DEF Request
<1>6. /\ s \in Request /\ s.aborted
      /\ s.refcount = r.refcount /\ s.open = r.open /\ s.pending = r.pending
      /\ s.part = r.part /\ s.state = r.state /\ s.addressed = r.addressed
      /\ s.early = r.early /\ s.lateFile = r.lateFile /\ s.status = r.status
      /\ s.eof = r.eof /\ s.error = r.error /\ s.failed = r.failed
      /\ s.success = r.success
  BY <1>4, <1>5 DEF Request
<1>7. \A j \in 1..Len(r.jobs) :
         /\ s.jobs[j].stage = r.jobs[j].stage /\ s.jobs[j].running = r.jobs[j].running
         /\ s.jobs[j].empty = r.jobs[j].empty /\ s.jobs[j].file = r.jobs[j].file
         /\ s.jobs[j].ok => r.jobs[j].ok
  BY <1>3, <1>5
<1>8. LET t == [r EXCEPT !.aborted = TRUE]
      IN /\ t.jobs = r.jobs /\ t.part = r.part /\ t.open = r.open /\ t.aborted
         /\ t.addressed = r.addressed /\ t.lateFile = r.lateFile
  BY DEF Request
<1> HIDE DEF s
<1>9. Staged(s)
  BY <1>5, <1>6, <1>7, <1>8 DEF Staged
<1>10. Filed(s)
  BY <1>5, <1>6, <1>7 DEF Filed
<1>11. Quiet(s) => Quiet(r)
  BY <1>5, <1>6, <1>7 DEF Quiet
<1>12. Alike(r, s)
  BY <1>5, <1>6, <1>7 DEF Alike
<1> QED BY <1>6, <1>9, <1>10, <1>11, <1>12 DEF s

\* ... or one that is sound, and stays so.
LEMMA AbortSound ==
    ASSUME NEW r \in Request, NEW i \in 1..Len(r.jobs), Filed(r),
           Staged([r EXCEPT !.aborted = TRUE]),
           r.pending = Cardinality(Holders(r)), Quiet(r) => ~r.failed
    PROVE  /\ Sound(Abort(r, i)) /\ Alike(r, Abort(r, i)) /\ Abort(r, i).aborted
<1> PICK s : s = Abort(r, i)
  OBVIOUS
<1>1. /\ Staged(s) /\ Filed(s) /\ Alike(r, s) /\ s.aborted
      /\ (Quiet(s) => Quiet(r)) /\ s.failed = r.failed
  BY AbortAlike
<1>2. Settled(s)
  BY <1>1 DEF Settled
<1>3. Holders(s) = Holders(r)
  BY <1>1, AlikeHolders
<1> QED BY <1>1, <1>2, <1>3 DEF Sound, Alike

\* What post_page_finalize and upload_job_finalize leave of a job.
LEMMA Cleaned ==
    ASSUME NEW job \in Job, NEW success, NEW new,
           new = IF success /\ job.ok THEN job ELSE Deleted(job)
    PROVE  /\ new \in Job /\ new.stage = job.stage /\ new.running = job.running
           /\ new.empty = job.empty /\ (new.ok => job.ok)
           /\ new.file \in {"none", job.file}
           /\ new.file = "temp" => success /\ job.ok /\ job.file = "temp"
BY DEF Job, Deleted

\* context_unref, with post_page_finalize when the last reference is given back.
LEMMA UnrefGood ==
    ASSUME NEW r, Sound(r), Kept(r),
           r.refcount = r.pending + (IF r.open THEN 1 ELSE 0) + 1
    PROVE  Good(Unref(r)) /\ Kept(Unref(r))
<1>1. r \in Request /\ Len(r.jobs) \in Nat
  BY DEF Sound, Request
<1> DEFINE s == [r EXCEPT !.refcount = @ - 1]
<1>2. /\ s \in Request /\ s.refcount = r.pending + (IF r.open THEN 1 ELSE 0)
      /\ s.jobs = r.jobs /\ s.open = r.open /\ s.pending = r.pending
      /\ s.part = r.part /\ s.state = r.state /\ s.addressed = r.addressed
      /\ s.early = r.early /\ s.lateFile = r.lateFile /\ s.status = r.status
      /\ s.eof = r.eof /\ s.error = r.error /\ s.failed = r.failed
      /\ s.success = r.success /\ s.aborted = r.aborted
  BY <1>1 DEF Sound, Request
<1>3. Unref(r) = IF s.refcount = 0 THEN Finalize(s) ELSE s
  BY DEF Unref
<1> HIDE DEF s
<1>4. CASE s.refcount # 0
  <2>1. Staged(s) /\ Settled(s)
    BY <1>2 DEF Sound, Staged, Settled, Quiet
  <2>2. Filed(s)
    BY <1>2, <1>4 DEF Sound, Filed
  <2>3. Holders(s) = Holders(r)
    BY <1>2 DEF Holders
  <2>4. Kept(s)
    BY <1>2, <1>4 DEF Kept, Lasting
  <2> QED BY <1>2, <1>3, <1>4, <2>1, <2>2, <2>3, <2>4 DEF Good, Sound
<1>5. CASE s.refcount = 0
  <2> DEFINE t == Finalize(s)
  <2>1. /\ t = [s EXCEPT !.jobs = t.jobs]
        /\ t.jobs = [i \in 1..Len(r.jobs) |-> IF s.success /\ r.jobs[i].ok THEN r.jobs[i]
                                               ELSE Deleted(r.jobs[i])]
    BY <1>1, <1>2 DEF Finalize, Request
  <2> HIDE DEF t
  <2>2. \A i \in 1..Len(r.jobs) :
           /\ t.jobs[i] \in Job
           /\ t.jobs[i].stage = r.jobs[i].stage /\ t.jobs[i].running = r.jobs[i].running
           /\ t.jobs[i].empty = r.jobs[i].empty /\ (t.jobs[i].ok => r.jobs[i].ok)
           /\ t.jobs[i].file \in {"none", r.jobs[i].file}
           /\ t.jobs[i].file = "temp" => s.success /\ r.jobs[i].ok /\ r.jobs[i].file = "temp"
    <3> SUFFICES ASSUME NEW i \in 1..Len(r.jobs)
                 PROVE  /\ t.jobs[i] \in Job
                        /\ t.jobs[i].stage = r.jobs[i].stage
                        /\ t.jobs[i].running = r.jobs[i].running
                        /\ t.jobs[i].empty = r.jobs[i].empty
                        /\ t.jobs[i].ok => r.jobs[i].ok
                        /\ t.jobs[i].file \in {"none", r.jobs[i].file}
                        /\ t.jobs[i].file = "temp" =>
                              s.success /\ r.jobs[i].ok /\ r.jobs[i].file = "temp"
        OBVIOUS
    <3>1. PICK job \in Job : job = r.jobs[i]
      BY <1>1 DEF Request
    <3>2. PICK new : new = t.jobs[i]
      OBVIOUS
    <3>3. PICK success : success = s.success
      OBVIOUS
    <3>4. new = IF success /\ job.ok THEN job ELSE Deleted(job)
      BY <2>1, <3>1, <3>2, <3>3
    <3>5. /\ new \in Job /\ new.stage = job.stage /\ new.running = job.running
          /\ new.empty = job.empty /\ (new.ok => job.ok)
          /\ new.file \in {"none", job.file}
          /\ new.file = "temp" => success /\ job.ok /\ job.file = "temp"
      BY <3>4, Cleaned
    <3> QED BY <3>1, <3>2, <3>3, <3>5
  <2>3. t.jobs \in Seq(Job) /\ Len(t.jobs) = Len(r.jobs)
    <3>1. t.jobs = [i \in 1..Len(r.jobs) |-> t.jobs[i]]
      BY <2>1
    <3> QED BY <1>1, <2>2, <3>1
  <2>4. /\ t \in Request /\ t.refcount = s.refcount /\ t.open = r.open
        /\ t.pending = r.pending
        /\ t.part = r.part /\ t.state = r.state /\ t.addressed = r.addressed
        /\ t.early = r.early /\ t.lateFile = r.lateFile /\ t.status = r.status
        /\ t.eof = r.eof /\ t.error = r.error /\ t.failed = r.failed
        /\ t.success = r.success /\ t.aborted = r.aborted
    BY <1>2, <2>1, <2>3 DEF Request
  <2>5. Staged(t)
    BY <2>2, <2>3, <2>4 DEF Sound, Staged
  <2>6. Filed(t)
    BY <1>2, <2>2, <2>3, <2>4 DEF Sound, Filed
  <2>7. Settled(t)
    BY <2>2, <2>3, <2>4 DEF Sound, Settled, Quiet
  <2>8. Holders(t) = Holders(r)
    BY <2>2, <2>3 DEF Holders
  <2>9. Kept(t)
    <3>1. Lasting(t)
      BY <2>2, <2>3, <2>4 DEF Kept, Lasting
    <3>2. \A i \in 1..Len(t.jobs) : t.jobs[i].file = "temp" => t.success /\ t.jobs[i].ok
      <4> SUFFICES ASSUME NEW i \in 1..Len(r.jobs), t.jobs[i].file = "temp"
                   PROVE  t.success /\ t.jobs[i].ok
          BY <2>3
      <4>1. s.success /\ r.jobs[i].ok
        BY <2>2
      <4>2. t.jobs[i] = r.jobs[i]
        BY <2>1, <4>1
      <4> QED BY <1>2, <2>4, <4>1, <4>2
    <3> QED BY <2>2, <2>3, <2>4, <3>1, <3>2 DEF Kept
  <2> QED BY <1>2, <1>3, <1>5, <2>4, <2>5, <2>6, <2>7, <2>8, <2>9 DEF Good, Sound, t
<1> QED BY <1>4, <1>5

-----------------------------------------------------------------------------
\* The request as it comes.
LEMMA InitGood == Init => Good(req) /\ Kept(req)
<1> SUFFICES ASSUME Init PROVE Good(req) /\ Kept(req)
    OBVIOUS
<1>1. req \in Request
  BY DEF Init, Request
<1>2. Len(req.jobs) = 0 /\ Holders(req) = {}
  BY DEF Init, Holders
<1>3. req.pending = Cardinality(Holders(req))
  BY <1>2, FS_EmptySet DEF Init
<1> QED BY <1>1, <1>2, <1>3, UploadAssumption
        DEF Good, Sound, Init, Staged, Filed, Settled, Quiet, Kept, Lasting

-----------------------------------------------------------------------------
\* What the connection brings.  While the body is read, the request is not answered
\* unless it is aborted.
LEMMA StillOpen ==
    ASSUME Good(req), Reading
    PROVE  /\ req \in Request /\ Len(req.jobs) \in Nat /\ req.open /\ ~req.failed
           /\ ~req.error /\ req.state = "BODY"
           /\ req.refcount # 0 /\ req.pending \in Nat
           /\ Quiet(req) => (req.eof => req.aborted)
           /\ req.part # "file" => \A i \in 1..Len(req.jobs) : req.jobs[i].stage # "UPLOADING"
<1>1. req \in Request
  BY DEF Good, Sound
<1>2. req.pending \in Nat /\ req.refcount = req.pending + 1
  BY <1>1, HoldersFinite DEF Good, Sound, Reading
<1>3. Quiet(req) => (req.eof => req.aborted)
  BY DEF Good, Sound, Settled, Reading
<1>4. req.part # "file" => \A i \in 1..Len(req.jobs) : req.jobs[i].stage # "UPLOADING"
  BY DEF Good, Sound, Staged, Reading
<1>5. Len(req.jobs) \in Nat
  BY <1>1 DEF Request
<1> QED BY <1>1, <1>2, <1>3, <1>4, <1>5 DEF Reading

\* post_page_file_begin: a new job is the last one, and is still being received.
LEMMA FileBeginGood ==
    ASSUME Good(req), Kept(req), FileBegin
    PROVE  Good(req') /\ Kept(req')
<1>1. /\ req \in Request /\ Len(req.jobs) \in Nat /\ req.open /\ req.refcount # 0
      /\ Quiet(req) => (req.eof => req.aborted)
      /\ req.part = "none" /\ Len(req.jobs) <= FileLimit
      /\ \A i \in 1..Len(req.jobs) : req.jobs[i].stage # "UPLOADING"
  BY StillOpen DEF FileBegin, Last
<1>2. CASE req.aborted
  BY <1>1, <1>2, ReadErrorGood, ReadErrorKept DEF FileBegin
<1>3. CASE ~req.aborted /\ req.isBot
  <2>1. req' = [req EXCEPT !.part = "ignored"]
    BY <1>3 DEF FileBegin
  <2>2. /\ req' \in Request /\ req'.jobs = req.jobs /\ req'.part = "ignored"
        /\ req'.refcount = req.refcount /\ req'.open = req.open
        /\ req'.pending = req.pending /\ req'.state = req.state
        /\ req'.addressed = req.addressed /\ req'.early = req.early
        /\ req'.lateFile = req.lateFile /\ req'.status = req.status
        /\ req'.eof = req.eof /\ req'.error = req.error /\ req'.failed = req.failed
        /\ req'.success = req.success /\ req'.aborted = req.aborted
    BY <1>1, <2>1 DEF Request
  <2>3. Staged(req')
    BY <1>1, <2>2 DEF Good, Sound, Staged
  <2>4. Filed(req') /\ Settled(req')
    BY <2>2 DEF Good, Sound, Filed, Settled, Quiet
  <2>5. Holders(req') = Holders(req)
    BY <2>2 DEF Holders
  <2>6. Kept(req')
    BY <2>2, KeptSame
  <2> QED BY <2>2, <2>3, <2>4, <2>5, <2>6 DEF Good, Sound
<1>4. CASE ~req.aborted /\ ~req.isBot
  <2>1. req' = [req EXCEPT !.part = "file", !.jobs = Append(@, NewJob),
                           !.lateFile = @ \/ req.addressed]
    BY <1>4 DEF FileBegin
  <2>2. NewJob \in Job /\ NewJob.stage = "UPLOADING" /\ ~NewJob.running
        /\ NewJob.empty /\ NewJob.file = "none"
    BY DEF NewJob, Job, Stages
  <2>3. /\ Append(req.jobs, NewJob) \in Seq(Job)
        /\ Len(Append(req.jobs, NewJob)) = Len(req.jobs) + 1
        /\ \A i \in 1..Len(req.jobs) : Append(req.jobs, NewJob)[i] = req.jobs[i]
        /\ Append(req.jobs, NewJob)[Len(req.jobs) + 1] = NewJob
    BY <1>1, <2>2 DEF Request
  <2>4. /\ req' \in Request /\ req'.jobs = Append(req.jobs, NewJob) /\ req'.part = "file"
        /\ req'.refcount = req.refcount /\ req'.open = req.open
        /\ req'.pending = req.pending /\ req'.state = req.state
        /\ req'.addressed = req.addressed /\ req'.early = req.early
        /\ (req'.lateFile <=> req.lateFile \/ req.addressed)
        /\ req'.status = req.status
        /\ req'.eof = req.eof /\ req'.error = req.error /\ req'.failed = req.failed
        /\ req'.success = req.success /\ req'.aborted = req.aborted
    BY <1>1, <2>1, <2>3 DEF Request
  <2>5. /\ Len(req'.jobs) = Len(req.jobs) + 1
        /\ \A i \in 1..Len(req.jobs) : req'.jobs[i] = req.jobs[i]
        /\ req'.jobs[Len(req.jobs) + 1] = NewJob
    BY <2>3, <2>4
  <2>6. Staged(req')
    BY <1>1, <2>2, <2>4, <2>5, UploadAssumption DEF Good, Sound, Staged, Middle
  <2>7. Filed(req')
    BY <1>1, <2>2, <2>4, <2>5 DEF Good, Sound, Filed
  <2>8. Settled(req')
    BY <1>1, <2>2, <2>4, <2>5 DEF Good, Sound, Settled, Quiet
  <2>9. Holders(req') = Holders(req)
    BY <1>1, <2>2, <2>5 DEF Holders
  <2>10. Kept(req')
    <3>1. \A i \in 1..Len(req'.jobs) :
             \/ i \in 1..Len(req.jobs) /\ req'.jobs[i] = req.jobs[i]
             \/ req'.jobs[i].stage = "UPLOADING"
      BY <1>1, <2>2, <2>5
    <3>2. Lasting(req')
      BY <2>4, <3>1 DEF Kept, Lasting, Middle
    <3> QED BY <1>1, <2>4, <3>1, <3>2 DEF Kept
  <2> QED BY <2>4, <2>6, <2>7, <2>8, <2>9, <2>10 DEF Good, Sound
<1> QED BY <1>2, <1>3, <1>4

\* post_page_file_content: past the limit, and when too large, the request is aborted.
LEMMA FileContentGood ==
    ASSUME Good(req), Kept(req), NEW tooLarge \in BOOLEAN, FileContent(tooLarge)
    PROVE  Good(req') /\ Kept(req')
<1>1. /\ req \in Request /\ Len(req.jobs) \in Nat /\ req.open /\ ~req.failed
      /\ req.refcount # 0
      /\ Quiet(req) => (req.eof => req.aborted)
      /\ req.part \in {"file", "ignored"}
  BY StillOpen DEF FileContent
<1>2. req.part = "file" =>
      /\ Len(req.jobs) \in 1..Len(req.jobs) /\ req.jobs[Len(req.jobs)].stage = "UPLOADING"
      /\ Len(req.jobs) <= FileLimit + 1
  BY <1>1 DEF Good, Sound, Staged
<1> DEFINE last == Len(req.jobs)
<1>3. CASE req.aborted
  BY <1>1, <1>3, ReadErrorGood, ReadErrorKept DEF FileContent
<1>6. CASE ~req.aborted /\ req.part = "ignored"
  BY <1>6 DEF FileContent
<1>4. CASE ~req.aborted /\ req.part = "file" /\ (last > FileLimit \/ tooLarge)
  <2> DEFINE p == PrintEof(req)
  <2>1. req' = ReadError(Abort(p, last))
    BY <1>4 DEF FileContent, Last
  <2>2. /\ Alike(req, p) /\ p.jobs = req.jobs /\ (p.failed <=> req.failed \/ req.eof)
        /\ p.eof /\ p.aborted = req.aborted /\ p.status = req.status /\ p.success = req.success
    BY <1>1, PrintEofAlike
  <2> HIDE DEF p
  <2>3. p \in Request /\ Filed(p) /\ p.pending = Cardinality(Holders(p))
    BY <1>1, <2>2, AlikeHolders, ZenonT(60) DEF Good, Sound, Filed, Alike
  <2>4. Quiet(p) => ~p.failed
    BY <1>1, <1>4, <2>2 DEF Quiet, Alike
  <2>5. LET t == [p EXCEPT !.aborted = TRUE]
        IN /\ t.jobs = req.jobs /\ t.part = req.part /\ t.open = req.open /\ t.aborted
           /\ t.addressed = req.addressed /\ t.lateFile = req.lateFile
    BY <2>2, <2>3 DEF Request, Alike
  <2>6. Staged([p EXCEPT !.aborted = TRUE])
    BY <2>5 DEF Good, Sound, Staged
  <2>7. Sound(Abort(p, last)) /\ Alike(p, Abort(p, last))
    BY <1>2, <1>4, <2>2, <2>3, <2>4, <2>6, AbortSound
  <2>8. Good(Abort(p, last))
    BY <2>2, <2>7 DEF Good, Alike
  <2>9. Abort(p, last) \in Request /\ Abort(p, last).refcount # 0
    BY <1>1, <2>2, <2>7 DEF Alike
  <2>10. /\ last \in 1..Len(p.jobs)
         /\ p.success => p.eof /\ p.failed
         /\ \A j \in 1..Len(p.jobs) :
               p.jobs[j].stage \in Middle /\ ~p.jobs[j].running => ~p.jobs[j].ok
    BY <1>2, <1>4, <2>2 DEF Kept, Lasting
  <2>11. Kept(Abort(p, last))
    BY <2>3, <2>9, <2>10, AbortLasting
  <2> QED BY <2>1, <2>8, <2>9, <2>11, ReadErrorGood, ReadErrorKept
<1>5. CASE ~req.aborted /\ req.part = "file" /\ ~(last > FileLimit \/ tooLarge)
  <2>1. PICK job \in Job : job = req.jobs[last]
    BY <1>1, <1>2, <1>5 DEF Request
  <2>2. PICK new : new = Received(job)
    OBVIOUS
  <2>3. /\ new \in Job /\ new.stage = job.stage /\ new.running = job.running
        /\ ~new.empty /\ new.ok = job.ok
        /\ new.file = IF job.file = "none" THEN "temp" ELSE job.file
    BY <2>2 DEF Received, Job
  <2>4. req' = [req EXCEPT !.jobs = [req.jobs EXCEPT ![last] = new]]
    BY <1>5, <2>1, <2>2 DEF FileContent, Last
  <2>5. /\ [req.jobs EXCEPT ![last] = new] \in Seq(Job)
        /\ Len([req.jobs EXCEPT ![last] = new]) = last
        /\ \A i \in 1..last : [req.jobs EXCEPT ![last] = new][i] =
                                 IF i = last THEN new ELSE req.jobs[i]
    BY <1>1, <1>2, <1>5, <2>3 DEF Request
  <2>6. /\ req' \in Request /\ req'.jobs = [req.jobs EXCEPT ![last] = new]
        /\ req'.part = req.part
        /\ req'.refcount = req.refcount /\ req'.open = req.open
        /\ req'.pending = req.pending /\ req'.state = req.state
        /\ req'.addressed = req.addressed /\ req'.early = req.early
        /\ req'.lateFile = req.lateFile /\ req'.status = req.status
        /\ req'.eof = req.eof /\ req'.error = req.error /\ req'.failed = req.failed
        /\ req'.success = req.success /\ req'.aborted = req.aborted
    BY <1>1, <2>4, <2>5 DEF Request
  <2>7. /\ Len(req'.jobs) = last
        /\ \A i \in 1..last : req'.jobs[i] = IF i = last THEN new ELSE req.jobs[i]
    BY <2>5, <2>6
  <2>8. Staged(req')
    BY <1>1, <1>2, <1>5, <2>1, <2>3, <2>6, <2>7, UploadAssumption
    DEF Good, Sound, Staged, Middle
  <2>9. Filed(req')
    <3>1. ~req.lateFile => ~req.success
      BY <1>2, <1>5 DEF Good, Sound, Staged, Filed
    <3> QED BY <1>1, <1>2, <1>5, <2>1, <2>3, <2>6, <2>7, <3>1 DEF Good, Sound, Filed
  <2>10. Settled(req')
    BY <1>1, <1>2, <1>5, <2>1, <2>3, <2>6, <2>7 DEF Good, Sound, Settled, Quiet
  <2>11. Holders(req') = Holders(req)
    BY <1>1, <2>1, <2>3, <2>7 DEF Holders
  <2>12. Kept(req')
    <3>1. \A i \in 1..last : \/ req'.jobs[i] = req.jobs[i]
                              \/ req'.jobs[i].stage = "UPLOADING"
      BY <1>2, <1>5, <2>1, <2>3, <2>7
    <3>2. Lasting(req')
      BY <2>6, <2>7, <3>1 DEF Kept, Lasting, Middle
    <3> QED BY <1>1, <2>6, <2>7, <3>1, <3>2 DEF Kept
  <2> QED BY <2>6, <2>8, <2>9, <2>10, <2>11, <2>12 DEF Good, Sound
<1> QED BY <1>1, <1>3, <1>4, <1>5, <1>6

\* A sequence without its last element.
LEMMA ButLast ==
    ASSUME NEW S, NEW s \in Seq(S), NEW n \in Nat, n = Len(s), n > 0
    PROVE  /\ SubSeq(s, 1, n - 1) \in Seq(S)
           /\ Len(SubSeq(s, 1, n - 1)) = n - 1
           /\ \A i \in 1..(n - 1) : SubSeq(s, 1, n - 1)[i] = s[i]
OBVIOUS

\* post_page_file_end: an empty field is dropped; the job of a file gets a reference.
LEMMA FileEndGood ==
    ASSUME Good(req), Kept(req), FileEnd
    PROVE  Good(req') /\ Kept(req')
<1> DEFINE last == Len(req.jobs)
<1>1. /\ req \in Request /\ last \in Nat /\ req.open /\ req.pending \in Nat
      /\ req.refcount # 0
      /\ Quiet(req) => (req.eof => req.aborted)
      /\ req.part # "file" => \A i \in 1..last : req.jobs[i].stage # "UPLOADING"
      /\ req.part \in {"file", "ignored"}
  BY StillOpen DEF FileEnd
<1>2. CASE req.part = "ignored"
  <2>1. req' = [req EXCEPT !.part = "none"]
    BY <1>2 DEF FileEnd
  <2>2. /\ req' \in Request /\ req'.jobs = req.jobs /\ req'.part = "none"
        /\ req'.refcount = req.refcount /\ req'.open = req.open
        /\ req'.pending = req.pending /\ req'.state = req.state
        /\ req'.addressed = req.addressed /\ req'.early = req.early
        /\ req'.lateFile = req.lateFile /\ req'.status = req.status
        /\ req'.eof = req.eof /\ req'.error = req.error /\ req'.failed = req.failed
        /\ req'.success = req.success /\ req'.aborted = req.aborted
    BY <1>1, <2>1 DEF Request
  <2>3. Staged(req')
    BY <1>1, <1>2, <2>2 DEF Good, Sound, Staged
  <2>4. Filed(req') /\ Settled(req')
    BY <2>2 DEF Good, Sound, Filed, Settled, Quiet
  <2>5. Holders(req') = Holders(req)
    BY <2>2 DEF Holders
  <2>6. Kept(req')
    BY <2>2, KeptSame
  <2> QED BY <2>2, <2>3, <2>4, <2>5, <2>6 DEF Good, Sound
<1>3. CASE req.part = "file"
  <2>1. /\ last \in 1..last /\ req.jobs[last].stage = "UPLOADING"
        /\ ~req.jobs[last].running /\ req.jobs[last] \in Job
        /\ \A i \in 1..last : i # last => req.jobs[i].stage # "UPLOADING"
        /\ last <= FileLimit + 1
    BY <1>1, <1>3 DEF Good, Sound, Staged, Middle, Request
  <2>2. CASE req.jobs[last].empty
    <3>0. PICK jobs : jobs = SubSeq(req.jobs, 1, last - 1)
      OBVIOUS
    <3>1. req' = [req EXCEPT !.part = "none", !.jobs = jobs]
      BY <1>1, <1>3, <2>2, <3>0 DEF FileEnd, Last, Request
    <3>2. /\ jobs \in Seq(Job) /\ Len(jobs) = last - 1
          /\ \A i \in 1..(last - 1) : jobs[i] = req.jobs[i]
      <4>1. last > 0 /\ req.jobs \in Seq(Job)
        BY <1>1, <2>1 DEF Request
      <4> QED BY <1>1, <3>0, <4>1, ButLast
    <3>3. /\ req' \in Request /\ req'.jobs = jobs
          /\ req'.part = "none"
          /\ req'.refcount = req.refcount /\ req'.open = req.open
          /\ req'.pending = req.pending /\ req'.state = req.state
          /\ req'.addressed = req.addressed /\ req'.early = req.early
          /\ req'.lateFile = req.lateFile /\ req'.status = req.status
          /\ req'.eof = req.eof /\ req'.error = req.error /\ req'.failed = req.failed
          /\ req'.success = req.success /\ req'.aborted = req.aborted
      BY <1>1, <3>1, <3>2 DEF Request
    <3>4. /\ Len(req'.jobs) \in Nat /\ Len(req'.jobs) <= FileLimit + 1
          /\ \A i \in 1..Len(req'.jobs) :
                req'.jobs[i] = req.jobs[i] /\ i \in 1..last /\ i # last
          /\ \A i \in 1..last : i # last => i \in 1..Len(req'.jobs)
      BY <1>1, <2>1, <3>2, <3>3, UploadAssumption
    <3>5. Staged(req')
      BY <1>1, <2>1, <3>3, <3>4 DEF Good, Sound, Staged
    <3>6. Filed(req')
      BY <1>1, <3>3, <3>4 DEF Good, Sound, Filed
    <3>7. Quiet(req') => Quiet(req)
      BY <1>1, <2>1, <3>3, <3>4 DEF Quiet
    <3>8. Settled(req')
      BY <3>3, <3>7 DEF Good, Sound, Settled
    <3>9. Holders(req') = Holders(req)
      BY <1>1, <2>1, <3>4 DEF Holders
    <3>10. Kept(req')
      BY <1>1, <3>3, <3>4 DEF Kept, Lasting
    <3> QED BY <3>3, <3>5, <3>6, <3>8, <3>9, <3>10 DEF Good, Sound
  <2>3. CASE ~req.jobs[last].empty
    <3>0. PICK new : new = Started(req.jobs[last])
      OBVIOUS
    <3>1. /\ new \in Job /\ new.stage = "MIMECHECKING" /\ new.running
          /\ new.empty = req.jobs[last].empty /\ new.ok = req.jobs[last].ok
          /\ new.file = req.jobs[last].file
      <4> PICK job \in Job : job = req.jobs[last]
        BY <2>1
      <4>1. new = [job EXCEPT !.stage = "MIMECHECKING", !.running = TRUE]
        BY <3>0 DEF Started
      <4>2. /\ new \in Job /\ new.stage = "MIMECHECKING" /\ new.running
            /\ new.empty = job.empty /\ new.ok = job.ok /\ new.file = job.file
        BY <4>1 DEF Job, Stages
      <4> QED BY <4>2
    <3> PICK jobs : jobs = [req.jobs EXCEPT ![last] = new]
      OBVIOUS
    <3> PICK pending \in Int, refcount \in Int :
            pending = req.pending + 1 /\ refcount = req.refcount + 1
      BY <1>1 DEF Request
    <3>2. req' = [req EXCEPT !.part = "none", !.jobs = jobs,
                             !.pending = pending, !.refcount = refcount]
      BY <1>1, <1>3, <2>3, <3>0 DEF FileEnd, Last, Request
    <3>3. /\ jobs \in Seq(Job) /\ Len(jobs) = last
          /\ \A i \in 1..last : jobs[i] = IF i = last THEN new ELSE req.jobs[i]
      BY <1>1, <2>1, <3>1 DEF Request
    <3>4. /\ req' \in Request /\ req'.jobs = jobs
          /\ req'.part = "none"
          /\ req'.refcount = refcount /\ req'.open = req.open
          /\ req'.pending = pending /\ req'.state = req.state
          /\ req'.addressed = req.addressed /\ req'.early = req.early
          /\ req'.lateFile = req.lateFile /\ req'.status = req.status
          /\ req'.eof = req.eof /\ req'.error = req.error /\ req'.failed = req.failed
          /\ req'.success = req.success /\ req'.aborted = req.aborted
      BY <1>1, <3>2, <3>3 DEF Request
    <3>5. /\ Len(req'.jobs) = last
          /\ \A i \in 1..last : req'.jobs[i] = IF i = last THEN new ELSE req.jobs[i]
      BY <3>3, <3>4
    <3>6. Staged(req')
      BY <1>1, <2>1, <2>3, <3>1, <3>4, <3>5, UploadAssumption
      DEF Good, Sound, Staged, Middle
    <3>7. req.refcount = req.pending + 1
      BY <1>1 DEF Good
    <3>8. Filed(req')
      BY <1>1, <2>1, <3>1, <3>4, <3>5, <3>7 DEF Good, Sound, Filed
    <3>9. Quiet(req') => Quiet(req)
      BY <1>1, <2>1, <3>4, <3>5 DEF Quiet
    <3>10. Settled(req')
      BY <1>1, <3>4, <3>9 DEF Good, Sound, Settled
    <3>11. Holders(req') = Holders(req) \cup {last} /\ last \notin Holders(req)
      BY <1>1, <2>1, <3>1, <3>5 DEF Holders
    <3>12. Cardinality(Holders(req')) = Cardinality(Holders(req)) + 1
      BY <1>1, <3>11, HoldersFinite, FS_AddElement
    <3>13. Kept(req')
      <4>1. req'.refcount # 0 /\ req'.pending > 0
        BY <1>1, <3>4, <3>7
      <4>2. Lasting(req')
        BY <3>1, <3>4, <3>5 DEF Kept, Lasting
      <4> QED BY <4>1, <4>2 DEF Kept
    <3> QED BY <1>1, <3>4, <3>6, <3>7, <3>8, <3>10, <3>12, <3>13 DEF Good, Sound
  <2> QED BY <2>2, <2>3
<1> QED BY <1>1, <1>2, <1>3

\* The fields of the form besides files.
LEMMA FieldGood ==
    ASSUME Good(req), Kept(req), Address \/ BotField
    PROVE  Good(req') /\ Kept(req')
<1>1. /\ req \in Request /\ Reading /\ req.part = "none"
      /\ \A i \in 1..Len(req.jobs) : req.jobs[i].stage # "UPLOADING"
  BY StillOpen DEF Address, BotField
<1>2. \/ req' = [req EXCEPT !.addressed = TRUE]
      \/ req' = [req EXCEPT !.isBot = TRUE]
  BY DEF Address, BotField
<1>3. /\ req' \in Request /\ req'.jobs = req.jobs /\ req'.part = req.part
      /\ req'.refcount = req.refcount /\ req'.open = req.open
      /\ req'.pending = req.pending /\ req'.state = req.state
      /\ req'.early = req.early
      /\ req'.lateFile = req.lateFile /\ req'.status = req.status
      /\ req'.eof = req.eof /\ req'.error = req.error /\ req'.failed = req.failed
      /\ req'.success = req.success /\ req'.aborted = req.aborted
      /\ req.addressed => req'.addressed
  BY <1>1, <1>2 DEF Request
<1>4. Staged(req')
  BY <1>1, <1>3 DEF Good, Sound, Staged
<1>5. Filed(req') /\ Settled(req')
  BY <1>3 DEF Good, Sound, Filed, Settled, Quiet
<1>6. Holders(req') = Holders(req)
  BY <1>3 DEF Holders
<1>7. Kept(req')
  BY <1>3, KeptSame
<1> QED BY <1>3, <1>4, <1>5, <1>6, <1>7 DEF Good, Sound

\* post_page_post_param, HTTP_FAIL.
LEMMA UnknownFieldGood ==
    ASSUME Good(req), Kept(req), UnknownField
    PROVE  Good(req') /\ Kept(req')
<1> PICK s : s = HttpFail(req)
  OBVIOUS
<1>1. Good(s) /\ s \in Request /\ req \in Request
  BY HttpFailSound DEF Good, Sound, Alike
<1>2. /\ s.jobs = req.jobs /\ s.success = req.success /\ s.aborted = req.aborted
      /\ s.pending = req.pending /\ s.refcount = req.refcount
      /\ s.eof = req.eof /\ s.failed = req.failed
  BY <1>1 DEF HttpFail, Request
<1>3. Kept(s)
  BY <1>2, KeptSame
<1> QED BY <1>1, <1>3, ReadErrorGood, ReadErrorKept DEF UnknownField

\* http_read_body, and post_page_finish: jobs may still be running.
LEMMA EndOfBodyGood ==
    ASSUME Good(req), Kept(req), NEW v \in Verdicts, EndOfBody(v)
    PROVE  Good(req') /\ Kept(req')
<1> DEFINE r == [req EXCEPT !.state = "EOF"]
<1>1. /\ req \in Request /\ req.refcount # 0
      /\ Quiet(req) => (req.eof => req.aborted)
  BY StillOpen DEF EndOfBody
<1>2. /\ r \in Request /\ r.jobs = req.jobs /\ r.part = req.part
      /\ r.refcount = req.refcount /\ r.open = req.open
      /\ r.pending = req.pending /\ r.state = "EOF"
      /\ r.addressed = req.addressed /\ r.early = req.early
      /\ r.lateFile = req.lateFile /\ r.status = req.status
      /\ r.eof = req.eof /\ r.error = req.error /\ r.failed = req.failed
      /\ r.success = req.success /\ r.aborted = req.aborted
  BY <1>1 DEF Request
<1>3. req' \in {Finish(r, v), ReadError(Finish(r, v))}
  BY DEF EndOfBody
<1> HIDE DEF r
<1>4. Staged(r) /\ Filed(r) /\ Settled(r) /\ Quiet(r) = Quiet(req)
  BY <1>2 DEF Good, Sound, Staged, Filed, Settled, Quiet
<1>5. Holders(r) = Holders(req)
  BY <1>2 DEF Holders
<1>6. Sound(r)
  BY <1>2, <1>4, <1>5 DEF Good, Sound
<1>7. Sound(Finish(r, v)) /\ Alike(r, Finish(r, v))
  BY <1>1, <1>2, <1>4, <1>6, FinishSound
<1>8. Good(Finish(r, v)) /\ Finish(r, v) \in Request
  BY <1>2, <1>7 DEF Good, Alike
<1>9. Lasting(r)
  BY <1>2 DEF Kept, Lasting
<1>10. Kept(Finish(r, v))
  BY <1>1, <1>2, <1>4, <1>9, FinishKept
<1> QED BY <1>3, <1>8, <1>10, ReadErrorGood, ReadErrorKept

\* read_data at the end of the connection: its reference is given back.
LEMMA CloseGood ==
    ASSUME Good(req), Kept(req), Close
    PROVE  Good(req') /\ Kept(req')
<1> DEFINE r == [req EXCEPT !.open = FALSE, !.state = "EOF", !.part = "none"]
<1>1. req \in Request /\ req.open /\ req' = Unref(r)
  BY DEF Good, Sound, Close
<1>2. /\ r \in Request /\ r.jobs = req.jobs /\ r.part = "none"
      /\ r.refcount = req.refcount /\ ~r.open
      /\ r.pending = req.pending /\ r.state = "EOF"
      /\ r.addressed = req.addressed /\ r.early = req.early
      /\ r.lateFile = req.lateFile /\ r.status = req.status
      /\ r.eof = req.eof /\ r.error = req.error /\ r.failed = req.failed
      /\ r.success = req.success /\ r.aborted = req.aborted
  BY <1>1 DEF Request
<1> HIDE DEF r
<1>3. Staged(r) /\ Filed(r) /\ Settled(r)
  BY <1>2 DEF Good, Sound, Staged, Filed, Settled, Quiet
<1>4. Holders(r) = Holders(req)
  BY <1>2 DEF Holders
<1>5. Sound(r)
  BY <1>2, <1>3, <1>4 DEF Good, Sound
<1>6. r.refcount = r.pending + (IF r.open THEN 1 ELSE 0) + 1
  BY <1>1, <1>2 DEF Good, Request
<1>7. Kept(r)
  BY <1>2, KeptSame
<1> QED BY <1>1, <1>5, <1>6, <1>7, UnrefGood

-----------------------------------------------------------------------------
\* What the end of a job brings.

\* The last three calls: s is r with job i stopped, and what was done about that.
LEMMA SettleGood ==
    ASSUME NEW r, Good(r), NEW i \in Holders(r), NEW s \in Request, NEW v \in Verdicts,
           Holders(s) = Holders(r) \ {i}, Staged(s), Filed(s), Lasting(s),
           s.pending = r.pending, s.refcount = r.refcount, s.open = r.open,
           Quiet(s) => /\ ~s.failed /\ (s.eof => s.aborted)
                       /\ s.state = "EOF" \/ s.error
    PROVE  Good(Settle(s, v)) /\ Kept(Settle(s, v))
<1> DEFINE u == [s EXCEPT !.pending = @ - 1]
<1>1. /\ r \in Request /\ r.pending \in Nat /\ r.pending # 0
      /\ r.refcount = r.pending + (IF r.open THEN 1 ELSE 0)
      /\ Cardinality(Holders(s)) = r.pending - 1
  <2>1. r \in Request /\ r.pending = Cardinality(Holders(r))
    BY DEF Good, Sound
  <2>2. IsFiniteSet(Holders(r)) /\ r.pending \in Nat /\ r.pending # 0
    BY <2>1, HoldersFinite
  <2>3. Cardinality(Holders(r) \ {i}) = Cardinality(Holders(r)) - 1
    BY <2>2, FS_RemoveElement
  <2> QED BY <2>1, <2>2, <2>3 DEF Good
<1>2. /\ u \in Request /\ u.jobs = s.jobs /\ u.part = s.part
      /\ u.refcount = s.refcount /\ u.open = s.open
      /\ u.pending = s.pending - 1 /\ u.state = s.state
      /\ u.addressed = s.addressed /\ u.early = s.early
      /\ u.lateFile = s.lateFile /\ u.status = s.status
      /\ u.eof = s.eof /\ u.error = s.error /\ u.failed = s.failed
      /\ u.success = s.success /\ u.aborted = s.aborted
  BY DEF Request
<1>3. Settle(s, v) = Unref(Finish(u, v))
  BY DEF Settle
<1> HIDE DEF u
<1>4. Staged(u) /\ Filed(u) /\ (Quiet(u) <=> Quiet(s)) /\ Settled(u)
  BY <1>2 DEF Staged, Filed, Settled, Quiet
<1>5. Holders(u) = Holders(s)
  BY <1>2 DEF Holders
<1>6. Sound(u)
  BY <1>1, <1>2, <1>4, <1>5 DEF Sound
<1>7. /\ u.refcount # 0 /\ u.refcount = u.pending + (IF u.open THEN 1 ELSE 0) + 1
      /\ Quiet(u) => (u.eof => u.aborted) /\ (u.state = "EOF" \/ u.error)
  BY <1>1, <1>2, <1>4
<1>8. Sound(Finish(u, v)) /\ Alike(u, Finish(u, v))
  BY <1>6, <1>7, FinishSound
<1>9. Finish(u, v).refcount =
        Finish(u, v).pending + (IF Finish(u, v).open THEN 1 ELSE 0) + 1
  BY <1>7, <1>8 DEF Alike
<1>10. Lasting(u)
  BY <1>2 DEF Lasting
<1>11. Kept(Finish(u, v))
  BY <1>2, <1>4, <1>7, <1>10, FinishKept
<1> QED BY <1>3, <1>8, <1>9, <1>11, UnrefGood

\* s is r with another stage, or another state, of job i.
Restaged(r, s, i, stage, runs) ==
    /\ s \in Request /\ Len(s.jobs) = Len(r.jobs)
    /\ s.part = r.part /\ s.refcount = r.refcount /\ s.open = r.open
    /\ s.pending = r.pending /\ s.state = r.state
    /\ s.addressed = r.addressed /\ s.early = r.early
    /\ s.lateFile = r.lateFile /\ s.status = r.status
    /\ s.eof = r.eof /\ s.error = r.error /\ s.failed = r.failed
    /\ s.success = r.success /\ s.aborted = r.aborted
    /\ \A j \in 1..Len(r.jobs) :
          /\ s.jobs[j].stage = IF j = i THEN stage ELSE r.jobs[j].stage
          /\ s.jobs[j].running <=> IF j = i THEN runs ELSE r.jobs[j].running
          /\ s.jobs[j].empty <=> r.jobs[j].empty
          /\ s.jobs[j].ok <=> r.jobs[j].ok
          /\ s.jobs[j].file = r.jobs[j].file

\* Job i of a request is replaced.
LEMMA ChangedJob ==
    ASSUME NEW r \in Request, NEW i \in 1..Len(r.jobs), NEW stage \in Stages,
           NEW runs \in BOOLEAN, NEW s, NEW new \in Job,
           s = [r EXCEPT !.jobs = [r.jobs EXCEPT ![i] = new]],
           new.stage = stage, new.running <=> runs,
           new.empty = r.jobs[i].empty, new.ok = r.jobs[i].ok, new.file = r.jobs[i].file
    PROVE  Restaged(r, s, i, stage, runs)
<1> PICK jobs : jobs = [r.jobs EXCEPT ![i] = new]
  OBVIOUS
<1>1. /\ jobs \in Seq(Job) /\ Len(jobs) = Len(r.jobs)
      /\ \A j \in 1..Len(r.jobs) : jobs[j] = IF j = i THEN new ELSE r.jobs[j]
  BY DEF Request
<1>2. s = [r EXCEPT !.jobs = jobs]
  OBVIOUS
<1>3. /\ s \in Request /\ s.jobs = jobs
      /\ s.part = r.part /\ s.refcount = r.refcount /\ s.open = r.open
      /\ s.pending = r.pending /\ s.state = r.state
      /\ s.addressed = r.addressed /\ s.early = r.early
      /\ s.lateFile = r.lateFile /\ s.status = r.status
      /\ s.eof = r.eof /\ s.error = r.error /\ s.failed = r.failed
      /\ s.success = r.success /\ s.aborted = r.aborted
  BY <1>1, <1>2 DEF Request
<1> QED BY <1>1, <1>3 DEF Restaged

\* upload_job_job_finish: job i has ended.
LEMMA StoppedJob ==
    ASSUME NEW r \in Request, NEW i \in 1..Len(r.jobs), NEW stage \in Stages
    PROVE  Restaged(r, Stopped(r, i, stage), i, stage, FALSE)
<1>1. PICK job \in Job : job = r.jobs[i]
  BY DEF Request
<1>2. PICK new : new = [job EXCEPT !.running = FALSE, !.stage = stage]
  OBVIOUS
<1>3. /\ new \in Job /\ new.stage = stage /\ ~new.running
      /\ new.empty = job.empty /\ new.ok = job.ok /\ new.file = job.file
  BY <1>2 DEF Job
<1>4. Stopped(r, i, stage) = [r EXCEPT !.jobs = [r.jobs EXCEPT ![i] = new]]
  BY <1>1, <1>2 DEF Stopped
<1> QED BY <1>1, <1>3, <1>4, ChangedJob

\* The next program of job i is started.
LEMMA NextJob ==
    ASSUME NEW r \in Request, NEW i \in 1..Len(r.jobs), NEW stage \in Stages
    PROVE  Restaged(r, [r EXCEPT !.jobs[i].stage = stage], i, stage, r.jobs[i].running)
<1>1. PICK job \in Job : job = r.jobs[i]
  BY DEF Request
<1>2. PICK new : new = [job EXCEPT !.stage = stage]
  OBVIOUS
<1>3. /\ new \in Job /\ new.stage = stage /\ new.running = job.running
      /\ new.empty = job.empty /\ new.ok = job.ok /\ new.file = job.file
  BY <1>2 DEF Job
<1>4. [r EXCEPT !.jobs[i].stage = stage] = [r EXCEPT !.jobs = [r.jobs EXCEPT ![i] = new]]
  BY <1>1, <1>2
<1>5. PICK runs \in BOOLEAN : runs = r.jobs[i].running
  BY <1>1 DEF Job
<1>6. PICK s : s = [r EXCEPT !.jobs[i].stage = stage]
  OBVIOUS
<1>7. s = [r EXCEPT !.jobs = [r.jobs EXCEPT ![i] = new]]
  BY <1>4, <1>6
<1>8. Restaged(r, s, i, stage, runs)
  BY <1>1, <1>3, <1>5, <1>7, ChangedJob
<1> QED BY <1>5, <1>6, <1>8

\* r is the request, with the end of job i noted.
LEMMA JobExitGood ==
    ASSUME Good(req), Kept(req), NEW i \in Nat \ {0}, NEW outcome \in Outcomes,
           NEW v \in Verdicts, JobExit(i, outcome, v)
    PROVE  Good(req') /\ Kept(req')
<1> DEFINE r == [req EXCEPT !.early = @ \/ (req.state = "BODY" /\ ~req.error)]
<1>1. /\ req \in Request /\ ~req.failed /\ i \in 1..Len(req.jobs) /\ req.jobs[i].running
      /\ outcome = "refuse" => req.jobs[i].stage = "MIMECHECKING"
  <2>1. req \in Request /\ Len(req.jobs) \in Nat
    BY DEF Good, Sound, Request
  <2> QED BY <2>1 DEF JobExit, Last
<1>2. /\ r \in Request /\ r.jobs = req.jobs /\ r.part = req.part
      /\ r.refcount = req.refcount /\ r.open = req.open
      /\ r.pending = req.pending /\ r.state = req.state
      /\ r.addressed = req.addressed
      /\ (r.early <=> req.early \/ (req.state = "BODY" /\ ~req.error))
      /\ r.lateFile = req.lateFile /\ r.status = req.status
      /\ r.eof = req.eof /\ r.error = req.error /\ r.failed = req.failed
      /\ r.success = req.success /\ r.aborted = req.aborted
  BY <1>1 DEF Request
<1>3. \/ outcome = "accept" /\ req' = JobAccepts(r, i, v)
      \/ outcome = "refuse" /\ req' = JobRefuses(r, i)
      \/ outcome = "fail"   /\ req' = JobFails(r, i, v)
  BY DEF JobExit
<1> HIDE DEF r
<1>4. Staged(r) /\ Filed(r) /\ Settled(r)
  BY <1>2 DEF Good, Sound, Staged, Filed, Settled, Quiet
<1>5. Holders(r) = Holders(req) /\ i \in Holders(r)
  BY <1>1, <1>2 DEF Holders
<1>6. Good(r) /\ Kept(r)
  BY <1>2, <1>4, <1>5, KeptSame DEF Good, Sound
<1>7. /\ r.pending # 0 /\ r.pending \in Nat /\ r.refcount # 0
      /\ i \in 1..Len(r.jobs) /\ r.jobs[i].running /\ r.jobs[i].stage \in Middle
  <2>1. r.pending \in Nat /\ r.pending # 0
    BY <1>2, <1>5, <1>6, HoldersFinite DEF Good, Sound
  <2>2. r.jobs[i].stage \in Middle
    BY <1>1, <1>2, <1>4 DEF Staged
  <2> QED BY <1>1, <1>2, <1>6, <2>1, <2>2 DEF Good
<1>8. Quiet(r) => /\ ~r.failed /\ (r.eof => r.aborted)
                  /\ r.state = "EOF" \/ r.error
  BY <1>2, <1>4, <1>7 DEF Settled, Quiet, Request
<1>9. CASE outcome = "accept"
  <2>0. PICK next : next = NextStage[r.jobs[i].stage]
    OBVIOUS
  <2>1. /\ next \in Stages /\ next \in Middle \cup {"THUMBNAILED"}
        /\ next # "MIMECHECKED" /\ next # "UPLOADING"
    BY <1>7, <2>0 DEF NextStage, Middle, Stages
  <2>2. CASE next = "THUMBNAILED"
    <3> PICK s : s = Stopped(r, i, next)
      OBVIOUS
    <3>1. req' = Settle(s, v)
      BY <1>3, <1>9, <2>0, <2>2 DEF JobAccepts
    <3>2. Restaged(r, s, i, "THUMBNAILED", FALSE)
      BY <1>2, <1>7, <2>1, <2>2, StoppedJob
    <3>3. Holders(s) = Holders(r) \ {i}
      BY <1>7, <3>2 DEF Holders, Restaged
    <3>4. Staged(s)
      BY <1>4, <1>7, <3>2 DEF Staged, Restaged, Middle
    <3>5. Filed(s)
      BY <1>4, <1>7, <3>2 DEF Filed, Restaged
    <3>6. Quiet(s) => Quiet(r)
      BY <1>7, <3>2 DEF Quiet, Restaged, Middle
    <3>7. Lasting(s)
      BY <1>6, <3>2 DEF Kept, Lasting, Restaged, Middle
    <3> QED BY <1>5, <1>6, <1>8, <3>1, <3>2, <3>3, <3>4, <3>5, <3>6, <3>7, SettleGood
            DEF Restaged
  <2>3. CASE next # "THUMBNAILED"
    <3>1. req' = [r EXCEPT !.jobs[i].stage = next]
      BY <1>3, <1>9, <2>0, <2>3 DEF JobAccepts
    <3>2. Restaged(r, req', i, next, r.jobs[i].running)
      BY <1>2, <1>7, <2>1, <3>1, NextJob
    <3>3. Holders(req') = Holders(r)
      BY <1>7, <2>1, <3>2 DEF Holders, Restaged
    <3>4. Staged(req')
      BY <1>4, <1>7, <2>1, <2>3, <3>2, SMTT(40) DEF Staged, Restaged, Middle
    <3>5. Filed(req')
      BY <1>4, <1>7, <2>1, <3>2 DEF Filed, Restaged, Middle
    <3>6. Quiet(req') => Quiet(r)
      BY <1>7, <3>2 DEF Quiet, Restaged, Middle
    <3>7. Settled(req')
      BY <1>4, <3>2, <3>6 DEF Settled, Restaged
    <3>8. Kept(req')
      <4>1. Lasting(req')
        BY <1>6, <1>7, <3>2 DEF Kept, Lasting, Restaged
      <4> QED BY <1>6, <1>7, <2>3, <3>2, <4>1 DEF Kept, Restaged
    <3> QED BY <1>6, <3>2, <3>3, <3>4, <3>5, <3>7, <3>8 DEF Good, Sound, Restaged
  <2> QED BY <2>2, <2>3
<1>10. CASE outcome = "refuse"
  <2> PICK s : s = Stopped(r, i, "MIMECHECKED")
    OBVIOUS
  <2> PICK p : p = PrintEof(s)
    OBVIOUS
  <2>1. req' = Abort(p, i)
    BY <1>3, <1>10 DEF JobRefuses
  <2>2. Restaged(r, s, i, "MIMECHECKED", FALSE)
    BY <1>2, <1>7, StoppedJob DEF Stages
  <2>3. /\ Alike(s, p) /\ p.jobs = s.jobs /\ p.success = s.success
        /\ p \in Request /\ s \in Request
    BY <2>2, PrintEofAlike DEF Restaged, Alike
  <2>4. Holders(p) = Holders(r)
    BY <1>7, <2>2, <2>3 DEF Holders, Restaged
  <2>5. Filed(p)
    BY <1>4, <1>7, <2>2, <2>3, SMTT(40) DEF Filed, Restaged, Alike, Middle
  <2>6. ~Quiet(p)
    BY <1>7, <2>2, <2>3 DEF Quiet, Restaged
  <2>7. LET t == [p EXCEPT !.aborted = TRUE]
        IN /\ t.jobs = s.jobs /\ t.part = s.part /\ t.open = s.open /\ t.aborted
           /\ t.addressed = s.addressed /\ t.lateFile = s.lateFile
    BY <2>3 DEF Request, Alike
  <2>8. Staged([p EXCEPT !.aborted = TRUE])
    BY <1>4, <1>7, <2>2, <2>7, SMTT(40) DEF Staged, Restaged, Middle
  <2>9. p.pending = Cardinality(Holders(p)) /\ i \in 1..Len(p.jobs)
    BY <1>6, <1>7, <2>2, <2>3, <2>4 DEF Good, Sound, Restaged, Alike
  <2>10. Sound(Abort(p, i)) /\ Alike(p, Abort(p, i))
    BY <2>3, <2>5, <2>6, <2>8, <2>9, AbortSound
  <2>11. p.eof /\ (p.failed <=> s.failed \/ s.eof) /\ s.success = r.success /\ s.eof = r.eof
    BY <2>2, <2>3, PrintEofAlike DEF Restaged
  <2>12. /\ p.success => p.eof /\ p.failed
         /\ \A j \in 1..Len(p.jobs) : j # i /\ p.jobs[j].stage \in Middle
                                        /\ ~p.jobs[j].running => ~p.jobs[j].ok
    BY <1>6, <2>2, <2>3, <2>11 DEF Kept, Lasting, Restaged
  <2>13. Abort(p, i).refcount # 0
    BY <1>7, <2>2, <2>3, <2>10 DEF Restaged, Alike
  <2>14. Kept(Abort(p, i))
    BY <2>3, <2>9, <2>12, <2>13, AbortLasting
  <2> QED BY <1>6, <2>1, <2>2, <2>3, <2>10, <2>14 DEF Good, Restaged, Alike
<1>11. CASE outcome = "fail"
  <2>1. PICK s : s = Stopped(r, i, r.jobs[i].stage)
    OBVIOUS
  <2>2. PICK p : p = IF s.aborted THEN s ELSE PrintEof(s)
    OBVIOUS
  <2>3. req' = Settle(Abort(p, i), v)
    BY <1>3, <1>11, <2>1, <2>2 DEF JobFails
  <2>4. Restaged(r, s, i, r.jobs[i].stage, FALSE) /\ s \in Request
    <3>1. r.jobs[i].stage \in Stages
      BY <1>7 DEF Middle, Stages
    <3>2. Restaged(r, s, i, r.jobs[i].stage, FALSE)
      BY <1>2, <1>7, <3>1, <2>1, StoppedJob
    <3> QED BY <3>2 DEF Restaged
  <2>5. /\ Alike(s, p) /\ p.jobs = s.jobs /\ p.success = s.success
        /\ p.status = s.status /\ p.error = s.error
        /\ (p.failed => s.failed \/ (s.eof /\ ~s.aborted))
    <3>1. Alike(s, s)
      BY <2>4 DEF Alike
    <3> QED BY <2>2, <2>4, <3>1, PrintEofAlike
  <2>6. p \in Request
    BY <2>5 DEF Alike
  <2>7. /\ Len(p.jobs) = Len(r.jobs) /\ p.part = r.part /\ p.open = r.open
        /\ p.refcount = r.refcount /\ p.pending = r.pending /\ p.state = r.state
        /\ p.addressed = r.addressed /\ p.early = r.early /\ p.lateFile = r.lateFile
        /\ p.status = r.status /\ p.error = r.error /\ p.success = r.success
    BY <2>4, <2>5 DEF Restaged, Alike
  <2>8. p.failed => r.failed \/ (r.eof /\ ~r.aborted)
    BY <2>4, <2>5 DEF Restaged
  <2>9. \A j \in 1..Len(r.jobs) :
              /\ p.jobs[j].stage = r.jobs[j].stage
              /\ p.jobs[j].file = r.jobs[j].file
    BY <2>4, <2>5 DEF Restaged
  <2>10. \A j \in 1..Len(r.jobs) :
              /\ p.jobs[j].running <=> (j # i /\ r.jobs[j].running)
              /\ p.jobs[j].empty <=> r.jobs[j].empty
              /\ p.jobs[j].ok <=> r.jobs[j].ok
    BY <2>4, <2>5 DEF Restaged
  <2>11. Holders(p) = Holders(r) \ {i}
    BY <1>7, <2>7, <2>9, <2>10 DEF Holders, Middle
  <2>12. Filed(p)
    BY <1>4, <2>7, <2>9, <2>10 DEF Filed
  <2>13. Quiet(p) => ~p.failed /\ (p.state = "EOF" \/ p.error)
    BY <1>8, <2>7, <2>8, <2>9 DEF Quiet
  <2>14. PICK t : t = [p EXCEPT !.aborted = TRUE]
    OBVIOUS
  <2>15. /\ t.jobs = p.jobs /\ t.part = p.part /\ t.open = p.open /\ t.aborted
         /\ t.addressed = p.addressed /\ t.lateFile = p.lateFile
    BY <2>6, <2>14 DEF Request
  <2>16. Staged(t)
    BY <1>4, <1>7, <2>7, <2>15, <2>9, <2>10, SMTT(40) DEF Staged
  <2>17. PICK a : a = Abort(p, i)
    OBVIOUS
  <2>18. /\ Staged(a) /\ Filed(a) /\ Alike(p, a) /\ a.aborted
         /\ (Quiet(a) => Quiet(p)) /\ a.failed = p.failed /\ a.error = p.error
    BY <1>7, <2>6, <2>7, <2>12, <2>14, <2>16, <2>17, AbortAlike
  <2>19. Holders(a) = Holders(r) \ {i}
    BY <2>6, <2>11, <2>18, AlikeHolders
  <2>20. /\ a \in Request /\ a.pending = r.pending /\ a.refcount = r.refcount
         /\ a.open = r.open /\ a.state = p.state
    BY <2>7, <2>18 DEF Alike
  <2>21. p.success => p.eof /\ p.failed
    <3>1. s.success = r.success /\ s.eof = r.eof /\ s.failed = r.failed
          /\ s.aborted = r.aborted
      BY <2>4 DEF Restaged
    <3>2. CASE s.aborted
      BY <1>6, <2>2, <2>5, <3>1, <3>2 DEF Kept, Lasting
    <3>3. CASE ~s.aborted
      BY <1>6, <2>2, <2>4, <2>5, <3>1, <3>3, PrintEofAlike DEF Kept, Lasting
    <3> QED BY <3>2, <3>3
  <2>22. \A j \in 1..Len(p.jobs) : j # i /\ p.jobs[j].stage \in Middle
                                   /\ ~p.jobs[j].running => ~p.jobs[j].ok
    BY <1>6, <2>7, <2>9, <2>10 DEF Kept, Lasting
  <2>23. Lasting(a)
    BY <1>7, <2>6, <2>7, <2>17, <2>21, <2>22, AbortLasting
  <2> QED BY <1>5, <1>6, <2>3, <2>13, <2>17, <2>18, <2>19, <2>20, <2>23, SettleGood
<1> QED BY <1>9, <1>10, <1>11 DEF Outcomes

-----------------------------------------------------------------------------
\* Every action keeps a request good, for every limit.
LEMMA StepGood ==
    ASSUME Good(req), Kept(req), [Next]_req
    PROVE  Good(req') /\ Kept(req')
<1>1. CASE FileBegin
  BY <1>1, FileBeginGood
<1>2. CASE FileEnd
  BY <1>2, FileEndGood
<1>3. CASE Address \/ BotField
  BY <1>3, FieldGood
<1>4. CASE UnknownField
  BY <1>4, UnknownFieldGood
<1>5. ASSUME NEW tooLarge \in BOOLEAN, FileContent(tooLarge)
      PROVE  Good(req') /\ Kept(req')
  BY <1>5, FileContentGood
<1>6. ASSUME NEW v \in Verdicts, EndOfBody(v)
      PROVE  Good(req') /\ Kept(req')
  BY <1>6, EndOfBodyGood
<1>7. CASE Close
  BY <1>7, CloseGood
<1>8. ASSUME NEW i \in Jobs, SomeExit(i)
      PROVE  Good(req') /\ Kept(req')
  <2>1. i \in Nat \ {0}
    BY UploadAssumption DEF Jobs
  <2>2. PICK outcome \in Outcomes, v \in Verdicts : JobExit(i, outcome, v)
    BY <1>8 DEF SomeExit
  <2> QED BY <2>1, <2>2, JobExitGood
<1>9. CASE UNCHANGED req
  BY <1>9
<1> QED BY <1>1, <1>2, <1>3, <1>4, <1>5, <1>6, <1>7, <1>8, <1>9 DEF Next, Read

\* The inductive invariant behind the theorems below.
THEOREM RequestIsGood == Spec => [](Good(req) /\ Kept(req))
<1>1. Init => Good(req) /\ Kept(req)
  BY InitGood
<1>2. Good(req) /\ Kept(req) /\ [Next]_req => (Good(req) /\ Kept(req))'
  BY StepGood
<1> QED BY <1>1, <1>2, PTL DEF Spec

\* The holders are the jobs that run and those whose type was refused.
LEMMA TwoKinds ==
    ASSUME Good(req)
    PROVE  /\ Holders(req) = Running \cup Refused
           /\ Cardinality(Holders(req)) = Cardinality(Running) + Cardinality(Refused)
<1>1. req \in Request /\ DOMAIN req.jobs = 1..Len(req.jobs) /\ Len(req.jobs) \in Nat
  BY DEF Good, Sound, Request
<1>2. Holders(req) = Running \cup Refused
  BY <1>1 DEF Holders, Running, Refused
<1>3. Running \cap Refused = {}
  BY <1>1 DEF Good, Sound, Staged, Running, Refused, Middle
<1>4. IsFiniteSet(Running) /\ IsFiniteSet(Refused)
  <2>1. IsFiniteSet(Holders(req))
    BY <1>1, HoldersFinite
  <2>2. Running \subseteq Holders(req) /\ Refused \subseteq Holders(req)
    BY <1>2
  <2> QED BY <2>1, <2>2, FS_Subset
<1>5. Cardinality(Running \cup Refused) =
        Cardinality(Running) + Cardinality(Refused) - Cardinality(Running \cap Refused)
  BY <1>4, FS_Union
<1>6. Cardinality(Running \cap Refused) = 0
  BY <1>3, FS_EmptySet
<1>7. Cardinality(Running) \in Nat /\ Cardinality(Refused) \in Nat
  BY <1>4, FS_CardinalityType
<1> QED BY <1>2, <1>5, <1>6, <1>7

\* The counters fit: at most one job for each file, and the connection.
LEMMA Bounded ==
    ASSUME Good(req)
    PROVE  TypeOK
<1>1. /\ req \in Request /\ Len(req.jobs) \in Nat /\ Len(req.jobs) <= FileLimit + 1
      /\ FileLimit \in Nat
  BY UploadAssumption DEF Good, Sound, Request, Staged
<1>2. req.pending \in Nat /\ req.pending <= Len(req.jobs)
  BY <1>1, HoldersFinite DEF Good, Sound
<1>3. req.pending \in 0..(FileLimit + 1)
  BY <1>1, <1>2
<1>4. req.refcount \in 0..(FileLimit + 2)
  BY <1>1, <1>3 DEF Good
<1> QED BY <1>1, <1>3, <1>4 DEF TypeOK, Request

\* Every reference to the context has an owner, whatever the order in which the body
\* is read, the jobs end and the client leaves: upload_job.c and post.c take and
\* give them back in pairs, but for the job whose mime type was refused.
THEOREM ReferencesCounted == Spec => []Counted
<1>1. Good(req) => Counted
  BY TwoKinds, Bounded DEF Good, Sound, Counted
<1> QED BY <1>1, RequestIsGood, PTL

\* post.c prints one answer, and its assert holds, as long as no file's type is
\* refused, no job ends inside the body and HTTP_FAIL is not used.
THEOREM AnswersOnce == Spec => []OneAnswer
<1>1. Good(req) => OneAnswer
  <2> SUFFICES ASSUME Good(req), Refused = {}, ~req.early, ~req.status
               PROVE  ~req.failed
      BY DEF OneAnswer, AnsweredOnce
  <2>1. DOMAIN req.jobs = 1..Len(req.jobs)
    BY DEF Good, Sound, Request
  <2>2. Quiet(req)
    BY <2>1 DEF Quiet, Refused
  <2> QED BY <2>2 DEF Good, Sound, Settled
<1> QED BY <1>1, RequestIsGood, PTL

\* A post has no more files than MAX_FILES_PER_POST, and in a form filled in order
\* all of them have been checked and converted.
THEOREM FilesAreProcessed == Spec => []PostedAreProcessed
<1>1. Good(req) => PostedAreProcessed
  <2> SUFFICES ASSUME Good(req)
               PROVE  PostedAreProcessed
      OBVIOUS
  <2>1. PICK full : full = {i \in DOMAIN req.jobs : ~req.jobs[i].empty}
    OBVIOUS
  <2>2. DOMAIN req.jobs = 1..Len(req.jobs) /\ Len(req.jobs) \in Nat /\ FileLimit \in Nat
    BY UploadAssumption DEF Good, Sound, Request
  <2>3. full \subseteq 1..FileLimit
    BY <2>1, <2>2 DEF Good, Sound, Staged
  <2>4. IsFiniteSet(1..FileLimit) /\ Cardinality(1..FileLimit) = FileLimit
    BY <2>2, FS_Interval, SMTT(40)
  <2>5. Cardinality(full) <= FileLimit
    BY <2>3, <2>4, FS_Subset
  <2>6. ~req.lateFile => \A i \in DOMAIN req.jobs :
           req.jobs[i].file = "final" => req.jobs[i].stage = "THUMBNAILED"
    BY <2>2 DEF Good, Sound, Filed
  <2> QED BY <2>1, <2>5, <2>6 DEF PostedAreProcessed
<1> QED BY <1>1, RequestIsGood, PTL

\* When the client and the jobs are gone the context is freed and post_page_finalize
\* has removed the temporary files, but for the one that was being received when a
\* job's end made the post.
THEOREM NothingIsLeft == Spec => []NothingLeft
<1>1. Good(req) /\ Kept(req) => NothingLeft
  <2> SUFFICES ASSUME Good(req), Kept(req), ~req.open, Running = {}, Refused = {},
                      ~req.failed
               PROVE  /\ req.refcount = 0
                      /\ \A i \in DOMAIN req.jobs : req.jobs[i].file = "temp" =>
                            /\ req.success /\ req.lateFile
                            /\ req.jobs[i].stage = "UPLOADING"
      BY DEF NothingLeft
  <2>1. DOMAIN req.jobs = 1..Len(req.jobs) /\ req \in Request
    BY DEF Good, Sound, Request
  <2>2. Holders(req) = {}
    BY TwoKinds
  <2>3. req.refcount = 0 /\ req.pending = 0
    BY <2>2, FS_EmptySet DEF Good, Sound
  <2>4. ASSUME NEW i \in 1..Len(req.jobs), req.jobs[i].file = "temp"
        PROVE  /\ req.success /\ req.lateFile
               /\ req.jobs[i].stage = "UPLOADING"
    <3>1. req.success /\ req.jobs[i].ok
      BY <2>3, <2>4 DEF Kept
    <3>2. req.lateFile
      BY <2>3, <2>4 DEF Good, Sound, Filed
    <3>3. req.jobs[i].stage # "THUMBNAILED"
      BY <2>3, <2>4, <3>1 DEF Kept
    <3>4. ~req.jobs[i].running /\ req.jobs[i].stage # "MIMECHECKED"
      BY <2>2 DEF Holders
    <3>5. req.jobs[i].stage \notin Middle
      BY <3>1, <3>4 DEF Kept, Lasting
    <3>6. req.jobs[i].stage \in Stages
      <4>1. PICK job \in Job : job = req.jobs[i]
        BY <2>1, <2>4 DEF Request
      <4> QED BY <4>1 DEF Job
    <3> QED BY <3>1, <3>2, <3>3, <3>4, <3>5, <3>6 DEF Stages, Middle
  <2> QED BY <2>1, <2>3, <2>4
<1> QED BY <1>1, RequestIsGood, PTL

-----------------------------------------------------------------------------
(* CaptchaPool. *)

\* The counters, and how they limit each other.
Counters == /\ inFlight \in Nat /\ running \in Nat /\ lost \in Nat
            /\ running + lost = inFlight
            /\ Len(pool) + inFlight <= Wanted
            /\ Len(pool) + lost < Wanted => running > 0

\* The array and the hash table.
Shape == /\ pool \in Seq(Id) /\ Captchas \subseteq Id
         /\ idx \in [Captchas -> 1..Len(pool)]
         /\ \A i \in 1..Len(pool) : pool[i] \in Captchas /\ idx[pool[i]] = i
         /\ \A c \in Captchas : pool[idx[c]] = c

PoolInv == Shape /\ Counters /\ segv \in BOOLEAN

-----------------------------------------------------------------------------
\* generate_captchas starts no more jobs than there is room for, and at least one if
\* there is any.
LEMMA StartsFit ==
    ASSUME NEW n \in Nat, NEW f \in Nat, n + f <= Wanted
    PROVE  /\ Starts(n, f) \in Nat
           /\ n + f + Starts(n, f) <= Wanted
           /\ n + f < Wanted => Starts(n, f) > 0
BY CaptchaAssumption DEF Starts

\* With array and table agreeing, the table has as many captchas as the array.
LEMMA AsManyAsIndexed == Shape => Len(pool) = Cardinality(Captchas)
<1> SUFFICES ASSUME Shape PROVE Len(pool) = Cardinality(Captchas)
    OBVIOUS
<1> DEFINE f == [i \in 1..Len(pool) |-> pool[i]]
<1>1. Len(pool) \in Nat
  BY DEF Shape
<1>2. f \in Bijection(1..Len(pool), Captchas)
  <2>1. f \in [1..Len(pool) -> Captchas]
    BY DEF Shape
  <2>2. \A i, j \in 1..Len(pool) : f[i] = f[j] => i = j
    BY DEF Shape
  <2>3. \A c \in Captchas : idx[c] \in 1..Len(pool) /\ f[idx[c]] = c
    BY DEF Shape
  <2> QED BY <2>1, <2>2, <2>3 DEF Bijection, Injection, Surjection, IsInjective
<1>3. IsFiniteSet(1..Len(pool)) /\ Cardinality(1..Len(pool)) = Len(pool)
  <2>1. \A n \in Nat : IsFiniteSet(1..n) /\ Cardinality(1..n) = n
    <3> SUFFICES ASSUME NEW n \in Nat PROVE IsFiniteSet(1..n) /\ Cardinality(1..n) = n
        OBVIOUS
    <3>1. IsFiniteSet(1..n) /\ Cardinality(1..n) = IF 1 > n THEN 0 ELSE n - 1 + 1
      BY ONLY n \in Nat, FS_Interval
    <3>2. (IF 1 > n THEN 0 ELSE n - 1 + 1) = n
      BY ONLY n \in Nat, SMT
    <3> QED BY ONLY <3>1, <3>2
  <2> QED BY ONLY <1>1, <2>1, Zenon
<1>4. Cardinality(Captchas) = Cardinality(1..Len(pool))
  BY <1>2, <1>3, FS_Bijection DEF ExistsBijection
<1> QED BY <1>3, <1>4

\* Nothing is in the pool at first.
LEMMA InitPool ==
    ASSUME CaptchaInit
    PROVE  PoolInv
<1>1. Len(pool) = 0 /\ Captchas = {}
  BY DEF CaptchaInit, Captchas
<1>2. Shape
  BY <1>1 DEF CaptchaInit, Shape
<1>3. Counters
  BY <1>1, StartsFit, CaptchaAssumption DEF CaptchaInit, Counters
<1> QED BY <1>2, <1>3 DEF CaptchaInit, PoolInv

\* Every step keeps the invariant.
LEMMA DonePool ==
    ASSUME PoolInv, NEW c \in Id, JobDone(c)
    PROVE  PoolInv'
<1>1. Shape'
  <2>1. /\ Len(pool) \in Nat /\ Len(pool') = Len(pool) + 1
        /\ pool' \in Seq(Id) /\ pool'[Len(pool) + 1] = c
        /\ \A i \in 1..Len(pool) : pool'[i] = pool[i]
    BY DEF PoolInv, Shape, JobDone
  <2>2. /\ Captchas' = Captchas \cup {c} /\ c \notin Captchas
        /\ \A x \in Captchas' : idx'[x] = IF x = c THEN Len(pool) + 1 ELSE idx[x]
    BY DEF JobDone, Captchas
  <2>3. idx' \in [Captchas' -> 1..Len(pool')]
    BY <2>1, <2>2 DEF PoolInv, Shape, JobDone
  <2>4. \A i \in 1..Len(pool') : pool'[i] \in Captchas' /\ idx'[pool'[i]] = i
    BY <2>1, <2>2 DEF PoolInv, Shape
  <2>5. \A x \in Captchas' : pool'[idx'[x]] = x
    BY <2>1, <2>2 DEF PoolInv, Shape
  <2> QED BY <2>1, <2>2, <2>3, <2>4, <2>5 DEF PoolInv, Shape
<1>2. Counters'
  <2>1. Len(pool) \in Nat /\ Len(pool') = Len(pool) + 1
    BY DEF PoolInv, Shape, JobDone
  <2> QED BY <2>1, CaptchaAssumption DEF PoolInv, Counters, JobDone, KeepGenerating
<1> QED BY <1>1, <1>2 DEF PoolInv, JobDone

LEMMA FailedPool ==
    ASSUME PoolInv, JobFailed
    PROVE  PoolInv'
<1>1. Shape'
  BY DEF PoolInv, Shape, JobFailed, Captchas
<1>2. Counters'
  <2>1. Len(pool) \in Nat
    BY DEF PoolInv, Shape
  <2> QED BY <2>1, CaptchaAssumption DEF PoolInv, Counters, JobFailed, KeepGenerating
<1> QED BY <1>1, <1>2 DEF PoolInv, JobFailed

LEMMA ReplacedPool ==
    ASSUME PoolInv, NEW c \in Id, Replace(c)
    PROVE  PoolInv'
<1> DEFINE n == Len(pool)
           other == pool[n]
<1>1. /\ n \in Nat /\ pool \in Seq(Id) /\ Captchas \subseteq Id
      /\ c \in Captchas /\ idx[c] \in 1..n /\ pool[idx[c]] = c
      /\ \A x \in Captchas : idx[x] \in 1..n /\ pool[idx[x]] = x
      /\ \A i \in 1..n : pool[i] \in Captchas /\ idx[pool[i]] = i
  BY DEF PoolInv, Shape, Replace
<1>2. CASE other \notin Captchas \ {c}
  <2>1. UNCHANGED <<pool, idx, inFlight, running, lost>> /\ segv' = TRUE
    BY <1>2 DEF Replace
  <2> QED BY <2>1 DEF PoolInv, Shape, Counters, Captchas
<1>3. CASE other \in Captchas \ {c}
  <2>1. /\ pool' = Shrunk([pool EXCEPT ![idx[c]] = other])
        /\ idx' = [x \in Captchas \ {c} |-> IF x = other THEN idx[c] ELSE idx[x]]
        /\ inFlight' = inFlight + Starts(n - 1, inFlight)
        /\ running' = running + Starts(n - 1, inFlight)
        /\ UNCHANGED <<lost, segv>>
    BY <1>3 DEF Replace
  <2>2. n \in 1..n /\ idx[other] = n /\ idx[c] \in 1..(n - 1)
    BY <1>1, <1>3
  <2>3. /\ pool' \in Seq(Id) /\ Len(pool') = n - 1
        /\ \A i \in 1..(n - 1) : pool'[i] = IF i = idx[c] THEN other ELSE pool[i]
    <3> DEFINE p == [pool EXCEPT ![idx[c]] = other]
    <3>1. /\ p \in Seq(Id) /\ Len(p) = n
          /\ \A i \in 1..n : p[i] = IF i = idx[c] THEN other ELSE pool[i]
      BY <1>1, <1>3
    <3>2. pool' = SubSeq(p, 1, n - 1)
      BY <2>1, <3>1 DEF Shrunk
    <3> HIDE DEF p
    <3> QED BY <1>1, <3>1, <3>2
  <2>4. /\ Captchas' = Captchas \ {c}
        /\ \A x \in Captchas' : idx'[x] = IF x = other THEN idx[c] ELSE idx[x]
    BY <2>1 DEF Captchas
  <2>5. \A x \in Captchas' : idx'[x] \in 1..(n - 1) /\ pool'[idx'[x]] = x
    BY <1>1, <1>3, <2>2, <2>3, <2>4, SMTT(40)
  <2>6. \A i \in 1..(n - 1) : pool'[i] \in Captchas' /\ idx'[pool'[i]] = i
    BY <1>1, <1>3, <2>2, <2>3, <2>4, SMTT(40)
  <2>7. idx' \in [Captchas' -> 1..Len(pool')]
    BY <2>1, <2>3, <2>4, <2>5
  <2>8. Shape'
    BY <1>1, <2>3, <2>4, <2>5, <2>6, <2>7 DEF Shape
  <2>9. Counters'
    <3>1. n - 1 \in Nat /\ inFlight \in Nat /\ (n - 1) + inFlight <= Wanted
      BY <1>1, <2>2, CaptchaAssumption DEF PoolInv, Counters
    <3>2. /\ Starts(n - 1, inFlight) \in Nat
          /\ (n - 1) + inFlight + Starts(n - 1, inFlight) <= Wanted
          /\ (n - 1) + inFlight < Wanted => Starts(n - 1, inFlight) > 0
      BY <3>1, StartsFit
    <3>3. /\ inFlight \in Nat /\ running \in Nat /\ lost \in Nat
          /\ running + lost = inFlight /\ n + inFlight <= Wanted /\ Wanted \in Nat
      BY CaptchaAssumption DEF PoolInv, Counters
    <3>4. /\ Len(pool') = n - 1 /\ lost' = lost
          /\ inFlight' = inFlight + Starts(n - 1, inFlight)
          /\ running' = running + Starts(n - 1, inFlight)
      BY <2>1, <2>3
    <3> DEFINE more == Starts(n - 1, inFlight)
    <3>5. /\ n \in Nat /\ more \in Nat /\ more > 0 /\ (n - 1) + inFlight + more <= Wanted
          /\ Len(pool') = n - 1 /\ lost' = lost
          /\ inFlight' = inFlight + more /\ running' = running + more
      BY <1>1, <3>2, <3>3, <3>4
    <3> HIDE DEF n, more
    <3> QED BY <3>3, <3>5 DEF Counters
  <2> QED BY <2>1, <2>8, <2>9 DEF PoolInv
<1> QED BY <1>2, <1>3

LEMMA RestartedPool ==
    ASSUME PoolInv, Restart
    PROVE  PoolInv'
<1>1. Shape'
  BY DEF PoolInv, Shape, Restart, Captchas
<1>2. Counters'
  <2>1. Len(pool) \in Nat /\ Len(pool) + 0 <= Wanted
    BY CaptchaAssumption DEF PoolInv, Shape, Counters
  <2>2. /\ Starts(Len(pool), 0) \in Nat
        /\ Len(pool) + 0 + Starts(Len(pool), 0) <= Wanted
        /\ Len(pool) + 0 < Wanted => Starts(Len(pool), 0) > 0
    BY <2>1, StartsFit
  <2> QED BY <2>1, <2>2, CaptchaAssumption DEF Counters, Restart
<1> QED BY <1>1, <1>2 DEF PoolInv, Restart

LEMMA StepPool ==
    ASSUME PoolInv, [CaptchaNext]_captchaVars
    PROVE  PoolInv'
<1>1. ASSUME NEW c \in Id, JobDone(c) PROVE PoolInv'
  BY <1>1, DonePool
<1>2. CASE JobFailed
  BY <1>2, FailedPool
<1>3. ASSUME NEW c \in Id, Replace(c) PROVE PoolInv'
  BY <1>3, ReplacedPool
<1>4. CASE Restart
  BY <1>4, RestartedPool
<1>5. CASE UNCHANGED captchaVars
  BY <1>5 DEF PoolInv, Shape, Counters, Captchas, captchaVars
<1> QED BY <1>1, <1>2, <1>3, <1>4, <1>5 DEF CaptchaNext

-----------------------------------------------------------------------------
\* Through any jobs, failures, right answers and restarts, table and array agree and
\* the counters are right.
THEOREM PoolIsSound == CaptchaSpec => []PoolInv
<1>1. CaptchaInit => PoolInv
  BY InitPool
<1>2. PoolInv /\ [CaptchaNext]_captchaVars => PoolInv'
  BY StepPool
<1> QED BY <1>1, <1>2, PTL DEF CaptchaSpec

\* random_captcha and replace_captcha find what the indices promise: for every size of
\* the pool, array and table hold the same captchas, each under its own index.
THEOREM IndexIsRight == CaptchaSpec => []Indexed
<1>1. PoolInv => Indexed
  <2> SUFFICES ASSUME PoolInv PROVE Indexed
      OBVIOUS
  <2>1. Len(pool) \in Nat /\ Len(pool) = Cardinality(Captchas)
    BY AsManyAsIndexed DEF PoolInv, Shape
  <2>2. CaptchaTypeOK
    BY <2>1, CaptchaAssumption DEF PoolInv, Shape, Counters, CaptchaTypeOK
  <2> QED BY <2>1, <2>2 DEF PoolInv, Shape, Indexed
<1> QED BY <1>1, PoolIsSound, PTL

\* "Generate up to 1000 captchas": in_flight counts the jobs that run and those that
\* failed, and the pool has room for all of them.
THEOREM NeverTooMany == CaptchaSpec => []NotOverfull
<1>1. PoolInv => NotOverfull
  BY DEF PoolInv, Counters, NotOverfull
<1> QED BY <1>1, PoolIsSound, PTL

\* "Keep generating captchas": a job runs while captchas are missing, except for as many
\* as jobs have failed.
THEOREM JobsGoOn == CaptchaSpec => []KeepsGenerating
<1>1. PoolInv => KeepsGenerating
  BY DEF PoolInv, Counters, KeepsGenerating
<1> QED BY <1>1, PoolIsSound, PTL
=============================================================================
