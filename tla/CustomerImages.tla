--------------------------- MODULE CustomerImages ---------------------------
(***************************************************************************)
(* The archive of the images customers send                                *)
(* (backend/app/services/customer_images.py): one row per image, with a    *)
(* durable capture job written in the transaction of its message, and one  *)
(* consumer that downloads.                                                *)
(*                                                                         *)
(* A login or access error of one download is a circuit breaker: its job   *)
(* and every waiting one are blocked, and nothing is downloaded until the  *)
(* user imports the history of a conversation, which re-arms its images.   *)
(* The user may delete an image, and the process may stop or crash, while  *)
(* it is downloaded.                                                       *)
(*                                                                         *)
(* An image is known by its message: one image per message, one channel.   *)
(* The key that encrypts the references is there.                          *)
(***************************************************************************)
EXTENDS Integers, Sequences, FiniteSets

CONSTANTS
    Images,       \* messages that carry an image
    MaxAttempts   \* MAX_ATTEMPTS

ASSUME ImagesAssumption == MaxAttempts \in Nat \ {0}

VARIABLES
    archive,   \* image -> capture_status of its row ("deleted": deleted_at set)
    job,       \* image -> row of customer_image_capture_jobs
    batch,     \* images drain_pending selected and has not come to yet
    fetching   \* images whose download is awaited

imageVars == <<archive, job, batch, fetching>>

-----------------------------------------------------------------------------
Open == {"pending", "retry", "running"}

Job ==
    [status   : Open \cup {"none", "completed", "failed", "blocked", "deleted"},
     error    : {"none", "manual", "unavailable", "other"},  \* last_error
     attempts : 0..MaxAttempts,
     ref      : BOOLEAN,   \* the encrypted reference has a locator
     due      : BOOLEAN]   \* neither next_attempt_at nor lease_until lies ahead

NoJob == [status |-> "none", error |-> "none", attempts |-> 0, ref |-> FALSE, due |-> TRUE]

Armed(error, ref) ==
    [status |-> "pending", error |-> error, attempts |-> 0, ref |-> ref, due |-> TRUE]

Blocked == {i \in Images : job[i].status = "blocked"}

ImagesTypeOK ==
    /\ archive \in [Images -> {"none", "pending", "failed", "stored", "deleted"}]
    /\ job \in [Images -> Job]
    /\ batch \subseteq Images
    /\ fetching \subseteq Images

ImagesInit ==
    /\ archive = [i \in Images |-> "none"]
    /\ job = [i \in Images |-> NoJob]
    /\ batch = {}
    /\ fetching = {}

-----------------------------------------------------------------------------
\* persist_message_jobs, for one image.  A replay with a usable reference re-arms
\* a job that failed for want of one; a confirmed import re-arms every job that
\* neither runs nor ended well.
Refreshed(i, ref) ==
    IF job[i].status = "none" THEN Armed("none", ref)
    ELSE IF job[i].status \in {"completed", "deleted", "blocked"} THEN job[i]
    ELSE IF job[i].status = "failed" /\ job[i].error = "unavailable" /\ ref
         THEN Armed("none", ref)
    ELSE [job[i] EXCEPT !.ref = ref]

Persisted(i, ref, imported) ==
    IF archive[i] \in {"stored", "deleted"} THEN job[i]
    ELSE IF imported /\ Refreshed(i, ref).status \notin {"completed", "deleted", "running"}
         THEN Armed("manual", ref)
    ELSE Refreshed(i, ref)

\* The messages of a transaction are stored or met again, their references usable
\* or not.
PersistJobs(messages, imported) ==
    \E refs \in SUBSET (messages \cap Images) :
        /\ job' = [i \in Images |->
                      IF i \in messages THEN Persisted(i, i \in refs, imported) ELSE job[i]]
        /\ archive' = [i \in Images |->
                          IF /\ i \in messages
                             /\ archive[i] = "none" \/ job'[i].status = "pending"
                             /\ archive[i] \notin {"stored", "deleted"}
                          THEN "pending" ELSE archive[i]]
        /\ UNCHANGED <<batch, fetching>>

-----------------------------------------------------------------------------
\* drain_pending selects the due jobs, under the lock of the one consumer.
Due == {i \in Images : job[i].status \in Open /\ job[i].due}

Drain ==
    /\ batch = {} /\ fetching = {}
    /\ Due # {}
    /\ batch' = Due
    /\ UNCHANGED <<archive, job, fetching>>

\* _capture_job comes to an image of the selection.
Comes(i) == i \in batch /\ fetching = {} /\ batch' = batch \ {i}

Ends(i, status, row) ==
    /\ job' = [job EXCEPT ![i].status = status]
    /\ archive' = [archive EXCEPT ![i] = row]
    /\ UNCHANGED fetching

\* A successful manual capture retires the circuit breaker, not the failed work.
Released(jobs) ==
    [j \in Images |-> IF jobs[j].status = "blocked"
                      THEN [jobs[j] EXCEPT !.status = "failed", !.due = TRUE] ELSE jobs[j]]

\* The job ended, or its image is gone.
Leave(i) ==
    /\ Comes(i)
    /\ \/ job[i].status \notin Open /\ UNCHANGED <<archive, job, fetching>>
       \/ job[i].status \in Open /\ archive[i] = "deleted" /\ Ends(i, "deleted", "deleted")

\* The process went down after the image was stored and before its job ended.
Settle(i) ==
    /\ Comes(i)
    /\ job[i].status \in Open
    /\ archive[i] = "stored"
    /\ LET jobs == IF job[i].error = "manual" THEN Released(job) ELSE job IN
          job' = [jobs EXCEPT ![i].status = "completed", ![i].due = TRUE]
    /\ UNCHANGED <<archive, fetching>>

Protected(i) == Blocked # {} /\ job[i].error # "manual"

Protect(i) ==
    /\ Comes(i)
    /\ job[i].status \in Open
    /\ archive[i] \notin {"stored", "deleted"}
    /\ Protected(i)
    /\ job' = [job EXCEPT ![i].status = "blocked", ![i].error = "other"]
    /\ archive' = [archive EXCEPT ![i] = "failed"]
    /\ UNCHANGED fetching

\* Mutant: one attempt too many.
SpentTwice(i) == job[i].attempts > MaxAttempts

Spent(i) == job[i].attempts >= MaxAttempts

Exhaust(i) ==
    /\ Comes(i)
    /\ job[i].status \in Open
    /\ archive[i] \notin {"stored", "deleted"}
    /\ ~Protected(i)
    /\ Spent(i)
    /\ Ends(i, "failed", "failed")

\* An attempt begins; without a usable reference it ends at once.
NoSource(i) ==
    /\ Comes(i)
    /\ job[i].status \in Open
    /\ archive[i] \notin {"stored", "deleted"}
    /\ ~Protected(i)
    /\ ~Spent(i)
    /\ ~job[i].ref
    /\ job' = [job EXCEPT ![i].status = "failed", ![i].error = "unavailable",
                          ![i].attempts = @ + 1]
    /\ archive' = [archive EXCEPT ![i] = "failed"]
    /\ UNCHANGED fetching

Fetch(i) ==
    /\ Comes(i)
    /\ job[i].status \in Open
    /\ archive[i] \notin {"stored", "deleted"}
    /\ ~Protected(i)
    /\ ~Spent(i)
    /\ job[i].ref
    /\ job' = [job EXCEPT ![i].status = "running", ![i].attempts = @ + 1, ![i].due = FALSE]
    /\ fetching' = {i}
    /\ UNCHANGED archive

-----------------------------------------------------------------------------
\* The download ended; an image that was deleted meanwhile stays deleted.  A replay
\* may have taken the reference away, which the download no longer needs.
Returns(i) == i \in fetching /\ fetching' = {} /\ UNCHANGED batch

Gone(i) == [job EXCEPT ![i].status = "deleted", ![i].due = TRUE]

Fetched(i) ==
    /\ Returns(i)
    /\ IF archive[i] = "deleted"
       THEN job' = Gone(i) /\ UNCHANGED archive
       ELSE /\ archive' = [archive EXCEPT ![i] = "stored"]
            /\ LET jobs == IF job[i].error = "manual" THEN Released(job) ELSE job IN
                  job' = [jobs EXCEPT ![i].status = "completed", ![i].error = "none",
                                      ![i].due = TRUE]

\* Mutant: the row is not read again after the download.
FailingBlindly(i, status, error) ==
    /\ job' = [job EXCEPT ![i].status = status, ![i].error = error,
                          ![i].due = status # "retry"]
    /\ archive' = [archive EXCEPT ![i] = "failed"]

Failing(i, status, error) ==
    /\ job' = IF archive[i] = "deleted" THEN Gone(i)
              ELSE [job EXCEPT ![i].status = status, ![i].error = error,
                               ![i].due = status # "retry"]
    /\ archive' = [archive EXCEPT ![i] = IF @ = "deleted" THEN @ ELSE "failed"]

\* The source is gone or the file refused, or the network failed.
FetchFailed(i) ==
    /\ Returns(i)
    /\ \/ Failing(i, "failed", "other")
       \/ Failing(i, IF Spent(i) THEN "failed" ELSE "retry", "other")

\* Login or access verification is required: the waiting jobs are blocked too.
FetchBlocked(i) ==
    LET others == {j \in Images \ {i} : job[j].status \in {"pending", "retry"}} IN
    /\ Returns(i)
    /\ job' = [j \in Images |->
                  IF j = i
                  THEN IF archive[i] = "deleted" THEN Gone(i)[i]
                       ELSE [job[i] EXCEPT !.status = "blocked", !.error = "other", !.due = TRUE]
                  ELSE IF j \in others
                       THEN [job[j] EXCEPT !.status = "blocked", !.error = "other"]
                       ELSE job[j]]
    /\ archive' = [j \in Images |->
                      IF j \in others \cup {i} /\ archive[j] # "deleted" THEN "failed"
                      ELSE archive[j]]

\* The pause before a retry, or the lease of an interrupted download, is over.
Elapse(i) ==
    /\ job[i].status \in Open /\ ~job[i].due
    /\ i \notin fetching
    /\ job' = [job EXCEPT ![i].due = TRUE]
    /\ UNCHANGED <<archive, batch, fetching>>

\* The user deletes an image, stored or not.
Delete(i) ==
    /\ archive[i] \notin {"none", "deleted"}
    /\ archive' = [archive EXCEPT ![i] = "deleted"]
    /\ job' = [job EXCEPT ![i].status = "deleted"]
    /\ UNCHANGED <<batch, fetching>>

-----------------------------------------------------------------------------
\* Mutant: the job of the cancelled download fails, and its row is left alone.
StopCaptureFailed ==
    /\ job' = [i \in Images |->
                  IF i \in fetching THEN [job[i] EXCEPT !.status = "failed", !.due = TRUE]
                  ELSE job[i]]
    /\ batch' = {} /\ fetching' = {}
    /\ UNCHANGED archive

\* stop() cancels the consumer: the job of its download is to be retried.
StopCapture ==
    /\ job' = [i \in Images |->
                  IF i \in fetching THEN [job[i] EXCEPT !.status = "retry", !.due = TRUE]
                  ELSE job[i]]
    /\ batch' = {} /\ fetching' = {}
    /\ UNCHANGED archive

\* A crash leaves the job running with its lease, and maybe the image stored.
CrashCapture ==
    /\ \/ UNCHANGED archive
       \/ \E i \in fetching : /\ archive[i] # "deleted"
                              /\ archive' = [archive EXCEPT ![i] = "stored"]
    /\ batch' = {} /\ fetching' = {}
    /\ UNCHANGED job

Capture ==
    \/ Drain
    \/ \E i \in Images :
          \/ Leave(i) \/ Settle(i) \/ Protect(i) \/ Exhaust(i) \/ NoSource(i) \/ Fetch(i)
          \/ Fetched(i) \/ FetchFailed(i) \/ FetchBlocked(i)
=============================================================================
