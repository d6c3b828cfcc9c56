---------------------------- MODULE CaptchaPool ----------------------------
(***************************************************************************)
(* captcha.c: the pool of captchas kept in the database, the jobs that     *)
(* generate new ones, and the replacement of a captcha that was solved.    *)
(* Each handler is one transaction, so a kill between two actions keeps    *)
(* the pool and loses the jobs.  Left out: images, solutions and tokens.   *)
(***************************************************************************)
EXTENDS Integers, FiniteSets, Sequences

CONSTANTS Id,         \* captcha ids (64 random bits, so always new)
          Wanted,     \* captchas wanted, 1000 in the code
          Parallel    \* jobs started at a time, 4 in the code

ASSUME CaptchaAssumption == Wanted \in Nat \ {0} /\ Parallel \in Nat \ {0}

VARIABLES pool,     \* master_captchas: ids, in the order of their indices
          idx,      \* captcha_idx, for the captchas in captcha_tbl
          inFlight, \* in_flight
          running,  \* jobs that have not ended
          lost,     \* history: jobs that have failed since the start
          segv      \* the process has used a null pointer

captchaVars == <<pool, idx, inFlight, running, lost, segv>>

Captchas == DOMAIN idx

\* generate_captchas, when the pool has n captchas and f jobs are in flight.
Starts(n, f) == LET room == Wanted - n - f
                IN IF room <= 0 THEN 0
                   ELSE IF room < Parallel THEN room ELSE Parallel

CaptchaInit ==
    /\ pool = <<>>
    /\ idx = [c \in {} |-> 0]
    /\ inFlight = Starts(0, 0)
    /\ running = Starts(0, 0)
    /\ lost = 0
    /\ segv = FALSE

\* Mutant of KeepGenerating: <= for <.
KeepGenerating_OneMore(n, f) ==
    LET more == IF n + f <= Wanted THEN 1 ELSE 0
    IN inFlight' = f + more /\ running' = running - 1 + more

\* Mutant of KeepGenerating: no job is started when one ends.
KeepGenerating_Not(n, f) == inFlight' = f /\ running' = running - 1

\* The last lines of captcha_job_finish: "Keep generating captchas".
KeepGenerating(n, f) ==
    LET more == IF n + f < Wanted THEN 1 ELSE 0
    IN /\ inFlight' = f + more
       /\ running' = running - 1 + more

\* captcha_job_finish of a job that has made an image.
JobDone(c) ==
    /\ ~segv /\ running > 0 /\ c \notin Captchas
    /\ pool' = Append(pool, c)
    /\ idx' = [x \in Captchas \cup {c} |-> IF x = c THEN Len(pool) + 1 ELSE idx[x]]
    /\ KeepGenerating(Len(pool) + 1, inFlight - 1)
    /\ UNCHANGED <<lost, segv>>

\* captcha_job_finish of one that has not: in_flight stays as it is.
JobFailed ==
    /\ ~segv /\ running > 0
    /\ KeepGenerating(Len(pool), inFlight)
    /\ lost' = lost + 1
    /\ UNCHANGED <<pool, idx, segv>>

\* The array without its last element.
Shrunk(p) == SubSeq(p, 1, Len(p) - 1)

\* Mutant of Replace: captcha_set_idx is forgotten.
Replace_KeepsIndex(c) ==
    /\ ~segv /\ c \in Captchas /\ c # pool[Len(pool)]
    /\ pool' = Shrunk([pool EXCEPT ![idx[c]] = pool[Len(pool)]])
    /\ idx' = [x \in Captchas \ {c} |-> idx[x]]
    /\ UNCHANGED <<inFlight, running, lost, segv>>

\* replace_captcha: the last captcha takes the index of the solved one.  The
\* hash table, from which the solved one is gone by then, is asked for it.
Replace(c) ==
    /\ ~segv /\ c \in Captchas
    /\ LET other == pool[Len(pool)]
           rest  == Captchas \ {c}
           more  == Starts(Len(pool) - 1, inFlight)
       IN IF other \notin rest
            THEN /\ segv' = TRUE
                 /\ UNCHANGED <<pool, idx, inFlight, running, lost>>
            ELSE /\ pool' = Shrunk([pool EXCEPT ![idx[c]] = other])
                 /\ idx' = [x \in rest |-> IF x = other THEN idx[c] ELSE idx[x]]
                 /\ inFlight' = inFlight + more
                 /\ running' = running + more
                 /\ UNCHANGED <<lost, segv>>

\* The process is killed, or has died, and main starts again.
Restart ==
    /\ segv' = FALSE
    /\ lost' = 0
    /\ inFlight' = Starts(Len(pool), 0)
    /\ running' = Starts(Len(pool), 0)
    /\ UNCHANGED <<pool, idx>>

CaptchaNext == \/ \E c \in Id : JobDone(c) \/ Replace(c)
               \/ JobFailed
               \/ Restart

CaptchaSpec == CaptchaInit /\ [][CaptchaNext]_captchaVars

-----------------------------------------------------------------------------
\* The pool, its index and its counters.
CaptchaTypeOK ==
    /\ pool \in Seq(Id) /\ Captchas \subseteq Id
    /\ idx \in [Captchas -> 1..Len(pool)]
    /\ inFlight \in 0..Wanted /\ running \in 0..Wanted
    /\ lost \in 0..Wanted /\ segv \in BOOLEAN

\* master_captchas and the hash table hold the same captchas, each once and under
\* its own index: random_captcha always finds what it draws (its assert), and
\* replace_captcha moves the right one.
Indexed == /\ CaptchaTypeOK
           /\ Len(pool) = Cardinality(Captchas)
           /\ \A i \in DOMAIN pool : pool[i] \in Captchas /\ idx[pool[i]] = i

\* "Generate up to 1000 captchas": in_flight counts the jobs that run and those that
\* have failed, and however jobs and solutions interleave, the jobs on their way
\* will not overfill the pool.
NotOverfull == running + lost = inFlight /\ Len(pool) + inFlight <= Wanted

\* "Keep generating captchas": while captchas are missing a job is running, until
\* as many are missing as jobs have failed since the process was started.
KeepsGenerating == Len(pool) + lost < Wanted => running > 0

\* "Answer is valid -> remove captcha and replace with new one": a right answer
\* never ends the process.
NeverDies == ~segv
=============================================================================
