---------------------------- MODULE IntakeProofs ----------------------------
(***************************************************************************)
(* Proofs about MessageIntake and CustomerImages, for every value of their *)
(* constants.                                                              *)
(***************************************************************************)
EXTENDS IntakeProps, FiniteSetTheorems, SequenceTheorems, TLAPS

\* The sizes, apart from what the setups are.
LEMMA Sizes ==
  /\ MaxAttempts \in Nat \ {0} /\ MaxMessages \in Nat /\ MaxRuns \in Nat \ {0}
  /\ Images \subseteq MessageIds
BY ImagesAssumption, IntakeAssumption

USE Sizes

-----------------------------------------------------------------------------
(* The inductive invariants.                                               *)

\* An image's row and its job, whether its download is awaited, and whether the
\* process was ever stopped.
Fits(row, status, awaited, stopped) ==
    /\ awaited => \/ status = "running" /\ row \in {"pending", "failed"}
                  \/ status = "deleted" /\ row = "deleted"
    /\ row = "none" => status = "none"
    /\ row = "pending" => status \in Open
    /\ row = "stored" => status = "completed" \/ (status = "running" /\ stopped)
    /\ status = "completed" => row = "stored"

ImagesFit ==
    \A i \in Images : Fits(archive[i], job[i].status, i \in fetching, restarts > 0)

\* Only the supervised run is alive, or the one whose end is awaited; while nothing
\* is alive nothing is reconciled, and a paused assistant has no run once its
\* operations have returned.  After shutdown() no operation begins any more.
OneRun ==
    /\ \A r \in RunIds :
          run[r] # "none" => r = supervised \/ (step = "unwinding" /\ r = cancelled)
    /\ step = "unwinding" => supervised = NoRun
    /\ step # "check" => ops # <<>> /\ Head(ops).do # "resume"
    /\ proc = "down" => Alive = {} /\ ops = <<>> /\ step = "check" /\ recovering = "no"
    /\ Alive = {} => recon.pc = "off"
    /\ paused /\ proc = "up" /\ step = "check" => Alive = {}
    /\ shutting /\ proc = "up" => step # "check" /\ Head(ops).do = "shutdown"

\* The replacement of a login has at most one operation waiting, the one it awaits.
OneReplacement ==
    /\ \A k \in 1..Len(ops) : ops[k].by = "recovery" =>
          \/ recovering = "pausing" /\ ops[k].do = "pause"
          \/ recovering = "reconnecting" /\ ops[k].do = "reconnect"
    /\ \A j, k \in 1..Len(ops) : ops[j].by = "recovery" /\ ops[k].by = "recovery" => j = k

\* Outside a replacement a connection has the current login.
CurrentLogin ==
    recovering = "no" =>
        \A r \in RunIds : run[r] \in {"connecting", "connected"} => session = login

SupervisorTypeOK ==
    /\ run \in [RunIds -> {"none", "starting", "connecting", "connected", "waiting",
                           "cancelled"}]
    /\ supervised \in 0..MaxRuns
    /\ paused \in BOOLEAN /\ shutting \in BOOLEAN
    /\ ops \in Seq(Operation)
    /\ step \in {"check", "unwinding", "draining"}
    /\ recovering \in {"no", "pausing", "replacing", "reconnecting"}
    /\ login \in Nat /\ session \in 0..login
    /\ proc \in {"up", "down"}
    /\ setup \in Setups

SupervisorInv == SupervisorTypeOK /\ OneRun /\ OneReplacement /\ CurrentLogin

\* What is on its way comes in the order it was written, and after every message
\* that was stored live.
Ascending(s) == \A i, j \in 1..Len(s) : i < j => s[i] <= s[j]
Above(n, s) == \A i \in 1..Len(s) : n <= s[i]

OnTheWay ==
    /\ Ascending(tasks) /\ Ascending(wire)
    /\ \A i \in 1..Len(tasks) : Above(tasks[i], wire)
    /\ \A m \in MessageIds : stored[m] = "live" => Above(m, tasks) /\ Above(m, wire)

RowsInOrder ==
    /\ \A m \in MessageIds : stored[m] # "none" => m <= written
    /\ \A i \in 1..Len(rows) : stored[rows[i]] # "none"
    /\ \A i, j \in 1..Len(rows) :
          i < j /\ stored[rows[i]] = "live" /\ stored[rows[j]] = "live" => rows[i] <= rows[j]

HydrationsAt(n) == [of : 1..n, at : 0..n]

ReconAt(n) ==
    {r \in [pc : {"off", "sleeping", "asking", "handling", "announcing"},
            batch : Seq(1..n), of : 0..n] :
        r.pc = "announcing" => r.of # 0}

FlowTypeOK ==
    /\ setup \in Setups
    /\ written \in 0..setup.messages
    /\ aged \in 0..written
    /\ wire \in Seq(1..written) /\ rows \in Seq(1..written) /\ tasks \in Seq(1..written)
    /\ stored \in [MessageIds -> {"none", "live", "reconcile", "history"}]
    /\ announcing \subseteq 1..written
    /\ hydrations \subseteq HydrationsAt(written)
    /\ recon \in ReconAt(written)

FlowInv == FlowTypeOK /\ OnTheWay /\ RowsInOrder

-----------------------------------------------------------------------------
(* What the steps do to the images.                                        *)

\* Every step leaves the images alone, brings them with messages, is the work of
\* the archive or of the user on them, or stops the process.
LEMMA ImageKinds ==
  ASSUME [Next]_vars
  PROVE  \/ UNCHANGED <<imageVars, restarts>>
         \/ /\ UNCHANGED restarts
            /\ \/ \E messages, imported : PersistJobs(messages, imported)
               \/ Drain
               \/ \E i \in Images :
                     \/ Leave(i) \/ Settle(i) \/ Protect(i) \/ Exhaust(i) \/ NoSource(i)
                     \/ Fetch(i) \/ Fetched(i) \/ FetchFailed(i) \/ FetchBlocked(i)
                     \/ Elapse(i) \/ Delete(i)
         \/ restarts' = restarts + 1 /\ (StopCapture \/ CrashCapture)
<1>1. CASE Write \/ Age \/ Receive \/ (\E m \in announcing : Announce(m)) \/ Ask \/ Newest
           \/ Reconciled \/ (\E h \in hydrations : Answered(h)) \/ Boot
  BY <1>1 DEF Write, Age, Receive, Announce, Ask, Newest, Reconciled, Answered, Boot,
              ReconStep, process
<1>2. CASE Listening
  BY <1>2 DEF Listening, Dial, Connect, Break, Verify, Unwind, Runs, process
<1>3. CASE Supervising
  BY <1>3 DEF Supervising, UserRequest, Request, Resume, Pause, Reconnect, Shutdown, Unwound,
              Recover, Replace, Elsewhere, process
<1>4. CASE Process
  BY <1>4 DEF Process, Ingest, process
<1>5. CASE \E h \in hydrations : Hydrate(h)
  BY <1>5 DEF Hydrate, Merge, process
<1>6. CASE \E c \in Conversations : Import(c)
  BY <1>6 DEF Import, Merge, process
<1>7. CASE \E m \in Images : Restore(m)
  BY <1>7 DEF Restore, process
<1>8. CASE Reconcile
  BY <1>8 DEF Reconcile, Ingest, ReconStep, process
<1>9. CASE ImageStep
  BY <1>9 DEF ImageStep, Capture, process
<1>10. CASE Drained \/ Crash
  BY <1>10 DEF Drained, Crash, Halt
<1>11. CASE UNCHANGED vars
  BY <1>11 DEF vars, process
<1> QED
  BY <1>1, <1>2, <1>3, <1>4, <1>5, <1>6, <1>7, <1>8, <1>9, <1>10, <1>11
     DEF Next, Taking

-----------------------------------------------------------------------------
(* Types of the images, and that their rows fit their jobs.                *)

ImageInv == ImagesTypeOK /\ ImagesFit /\ restarts \in Nat

\* A change of a job that keeps its attempts or adds one leaves a job.
LEMMA JobChange ==
  ASSUME NEW r \in Job,
         NEW s \in Open \cup {"none", "completed", "failed", "blocked", "deleted"},
         NEW e \in {"none", "manual", "unavailable", "other"}, NEW n \in 0..MaxAttempts,
         NEW ref \in BOOLEAN, NEW d \in BOOLEAN
  PROVE  [status |-> s, error |-> e, attempts |-> n, ref |-> ref, due |-> d] \in Job
BY DEF Job

LEMMA JobFields ==
  ASSUME NEW r \in Job
  PROVE  /\ r.status \in Open \cup {"none", "completed", "failed", "blocked", "deleted"}
         /\ r.error \in {"none", "manual", "unavailable", "other"}
         /\ r.attempts \in 0..MaxAttempts
         /\ r.ref \in BOOLEAN /\ r.due \in BOOLEAN
         /\ r = [status |-> r.status, error |-> r.error, attempts |-> r.attempts,
                 ref |-> r.ref, due |-> r.due]
BY DEF Job

LEMMA ArmedIs ==
  ASSUME NEW e \in {"none", "manual", "unavailable", "other"}, NEW ref \in BOOLEAN
  PROVE  Armed(e, ref) \in Job /\ Armed(e, ref).status = "pending"
BY DEF Armed, Job, Open

LEMMA PersistedIs ==
  ASSUME ImagesTypeOK, NEW i \in Images, NEW ref \in BOOLEAN, NEW imported
  PROVE  /\ Persisted(i, ref, imported) \in Job
         /\ \/ /\ Persisted(i, ref, imported).status = job[i].status
               /\ job[i].status # "none" \/ archive[i] \in {"stored", "deleted"}
            \/ /\ Persisted(i, ref, imported).status = "pending"
               /\ archive[i] \notin {"stored", "deleted"}
               /\ job[i].status \notin {"completed", "deleted", "running"}
<1>1. job[i] \in Job
  BY DEF ImagesTypeOK
<1>2. [job[i] EXCEPT !.ref = ref] \in Job /\ [job[i] EXCEPT !.ref = ref].status = job[i].status
  BY <1>1 DEF Job
<1>3. /\ Armed("none", ref) \in Job /\ Armed("none", ref).status = "pending"
      /\ Armed("manual", ref) \in Job /\ Armed("manual", ref).status = "pending"
  BY ArmedIs
<1>4. Refreshed(i, ref) \in Job
  BY <1>1, <1>2, <1>3 DEF Refreshed
<1>5. \/ Refreshed(i, ref).status = job[i].status /\ job[i].status # "none"
      \/ /\ Refreshed(i, ref).status = "pending"
         /\ job[i].status \notin {"completed", "deleted", "running"}
  BY <1>2, <1>3 DEF Refreshed
<1> QED
  BY <1>1, <1>3, <1>4, <1>5 DEF Persisted

LEMMA PersistKeeps ==
  ASSUME ImageInv, UNCHANGED restarts, NEW messages, NEW imported,
         PersistJobs(messages, imported)
  PROVE  ImageInv'
<1>1. PICK refs \in SUBSET (messages \cap Images) :
         /\ job' = [i \in Images |->
                      IF i \in messages THEN Persisted(i, i \in refs, imported) ELSE job[i]]
         /\ archive' = [i \in Images |->
                          IF /\ i \in messages
                             /\ archive[i] = "none" \/ job'[i].status = "pending"
                             /\ archive[i] \notin {"stored", "deleted"}
                          THEN "pending" ELSE archive[i]]
         /\ UNCHANGED <<batch, fetching>>
  BY DEF PersistJobs
<1>2. ASSUME NEW i \in Images
      PROVE  /\ Persisted(i, i \in refs, imported) \in Job
             /\ \/ /\ Persisted(i, i \in refs, imported).status = job[i].status
                   /\ job[i].status # "none" \/ archive[i] \in {"stored", "deleted"}
                \/ /\ Persisted(i, i \in refs, imported).status = "pending"
                   /\ archive[i] \notin {"stored", "deleted"}
                   /\ job[i].status \notin {"completed", "deleted", "running"}
  BY PersistedIs, (i \in refs) \in BOOLEAN DEF ImageInv
<1>3. job' \in [Images -> Job]
  BY <1>1, <1>2 DEF ImageInv, ImagesTypeOK
<1>4. ImagesTypeOK'
  BY <1>1, <1>3 DEF ImageInv, ImagesTypeOK
<1>5. ASSUME NEW i \in Images
      PROVE  Fits(archive[i], job[i].status, i \in fetching, restarts > 0)'
  <2>1. Fits(archive[i], job[i].status, i \in fetching, restarts > 0)
    BY DEF ImageInv, ImagesFit
  <2>2. /\ archive'[i] = IF /\ i \in messages
                            /\ archive[i] = "none" \/ job'[i].status = "pending"
                            /\ archive[i] \notin {"stored", "deleted"}
                         THEN "pending" ELSE archive[i]
        /\ job'[i] = IF i \in messages THEN Persisted(i, i \in refs, imported) ELSE job[i]
        /\ fetching' = fetching /\ restarts' = restarts
    BY <1>1
  <2> QED
    BY <1>2, <2>1, <2>2 DEF Fits, Open
<1> QED
  BY <1>4, <1>5 DEF ImageInv, ImagesFit

\* A job is changed as its row is: what changes of the other images is that the
\* circuit breaker opens or is retired.
LEMMA OthersFit ==
  ASSUME ImageInv, NEW k \in Images,
         job' \in [Images -> Job],
         archive' \in [Images -> {"none", "pending", "failed", "stored", "deleted"}],
         batch' \subseteq Images, fetching' \subseteq Images, UNCHANGED restarts,
         \A i \in Images \ {k} :
            /\ i \in fetching' => i \in fetching
            /\ \/ archive'[i] = archive[i] /\ job'[i].status = job[i].status
               \/ /\ archive'[i] = archive[i]
                  /\ job[i].status = "blocked" /\ job'[i].status = "failed"
               \/ /\ archive'[i] = IF archive[i] = "deleted" THEN "deleted" ELSE "failed"
                  /\ i \notin fetching'
                  /\ job[i].status \in {"pending", "retry"} /\ job'[i].status = "blocked",
         Fits(archive[k], job[k].status, k \in fetching, restarts > 0)'
  PROVE  ImageInv'
<1>1. ASSUME NEW i \in Images
      PROVE  Fits(archive[i], job[i].status, i \in fetching, restarts > 0)'
  <2>1. Fits(archive[i], job[i].status, i \in fetching, restarts > 0)
    BY DEF ImageInv, ImagesFit
  <2>2. CASE i = k
    BY <2>2
  <2>3. CASE i # k
    BY <2>1, <2>3 DEF Fits, Open
  <2> QED
    BY <2>2, <2>3
<1> QED
  BY <1>1 DEF ImageInv, ImagesFit, ImagesTypeOK

\* A step that changes one image only.
LEMMA OneImage ==
  ASSUME ImageInv, UNCHANGED restarts, NEW k \in Images, NEW r \in Job,
         NEW row \in {"none", "pending", "failed", "stored", "deleted"},
         job' = [job EXCEPT ![k] = r], archive' = [archive EXCEPT ![k] = row],
         batch' \subseteq Images, fetching' \subseteq fetching \cup {k},
         Fits(row, r.status, k \in fetching', restarts > 0)
  PROVE  ImageInv'
<1>1. /\ job' \in [Images -> Job] /\ job'[k] = r
      /\ archive' \in [Images -> {"none", "pending", "failed", "stored", "deleted"}]
      /\ archive'[k] = row
      /\ fetching' \subseteq Images
      /\ \A i \in Images \ {k} : job'[i] = job[i] /\ archive'[i] = archive[i]
  BY DEF ImageInv, ImagesTypeOK
<1>2. Fits(archive[k], job[k].status, k \in fetching, restarts > 0)'
  BY <1>1
<1> QED
  BY <1>1, <1>2, OthersFit

\* The consumer selects, skips, protects, gives up or begins a download.
LEMMA TakingKeeps ==
  ASSUME ImageInv, UNCHANGED restarts, NEW k \in Images,
         \/ Leave(k) \/ Protect(k) \/ Exhaust(k) \/ NoSource(k) \/ Fetch(k) \/ Elapse(k)
         \/ Delete(k)
  PROVE  ImageInv'
<1>1. /\ job[k] \in Job /\ archive[k] \in {"none", "pending", "failed", "stored", "deleted"}
      /\ Fits(archive[k], job[k].status, k \in fetching, restarts > 0)
      /\ job \in [Images -> Job]
      /\ archive \in [Images -> {"none", "pending", "failed", "stored", "deleted"}]
      /\ batch \subseteq Images /\ fetching \subseteq Images
      /\ restarts \in Nat
  BY DEF ImageInv, ImagesTypeOK, ImagesFit
<1>2. /\ job[k].status \in Open \cup {"none", "completed", "failed", "blocked", "deleted"}
      /\ job[k].error \in {"none", "manual", "unavailable", "other"}
      /\ job[k].attempts \in 0..MaxAttempts /\ job[k].ref \in BOOLEAN /\ job[k].due \in BOOLEAN
  BY <1>1, JobFields
<1>3. CASE Leave(k)
  <2>1. CASE job[k].status \notin Open /\ UNCHANGED <<archive, job, fetching>>
    <3>1. batch' \subseteq Images
      BY <1>1, <1>3 DEF Leave, Comes
    <3> QED
      BY <2>1, <3>1 DEF ImageInv, ImagesFit, ImagesTypeOK
  <2>2. CASE job[k].status \in Open /\ archive[k] = "deleted" /\ Ends(k, "deleted", "deleted")
    <3> DEFINE r == [job[k] EXCEPT !.status = "deleted"]
    <3>1. r \in Job /\ r.status = "deleted"
      BY <1>1 DEF Job
    <3>2. /\ batch' \subseteq Images /\ fetching' = fetching /\ fetching = {}
          /\ job' = [job EXCEPT ![k] = r] /\ archive' = [archive EXCEPT ![k] = "deleted"]
      BY <1>1, <1>3, <2>2 DEF Leave, Comes, Ends
    <3>3. Fits("deleted", r.status, k \in fetching', restarts > 0)
      BY <3>1, <3>2 DEF Fits
    <3> HIDE DEF r
    <3> QED
      BY <3>1, <3>2, <3>3, OneImage
  <2> QED
    BY <1>3, <2>1, <2>2 DEF Leave
<1>4. CASE Protect(k)
  <2> DEFINE r == [job[k] EXCEPT !.status = "blocked", !.error = "other"]
  <2>1. r \in Job /\ r.status = "blocked"
    BY <1>1 DEF Job
  <2>2. /\ batch' \subseteq Images /\ fetching' = fetching /\ fetching = {}
        /\ job' = [job EXCEPT ![k] = r] /\ archive' = [archive EXCEPT ![k] = "failed"]
    BY <1>1, <1>4 DEF Protect, Comes
  <2>3. Fits("failed", r.status, k \in fetching', restarts > 0)
    BY <2>1, <2>2 DEF Fits
  <2> HIDE DEF r
  <2> QED
    BY <2>1, <2>2, <2>3, OneImage
<1>5. CASE Exhaust(k)
  <2> DEFINE r == [job[k] EXCEPT !.status = "failed"]
  <2>1. r \in Job /\ r.status = "failed"
    BY <1>1 DEF Job
  <2>2. /\ batch' \subseteq Images /\ fetching' = fetching /\ fetching = {}
        /\ job' = [job EXCEPT ![k] = r] /\ archive' = [archive EXCEPT ![k] = "failed"]
    BY <1>1, <1>5 DEF Exhaust, Comes, Ends
  <2>3. Fits("failed", r.status, k \in fetching', restarts > 0)
    BY <2>1, <2>2 DEF Fits
  <2> HIDE DEF r
  <2> QED
    BY <2>1, <2>2, <2>3, OneImage
<1>6. CASE NoSource(k)
  <2> DEFINE r == [job[k] EXCEPT !.status = "failed", !.error = "unavailable",
                                 !.attempts = @ + 1]
  <2>0. job[k].attempts + 1 \in 0..MaxAttempts
    BY <1>2, <1>6 DEF NoSource, Spent
  <2>1. r \in Job /\ r.status = "failed"
    BY <1>1, <2>0 DEF Job
  <2>2. /\ batch' \subseteq Images /\ fetching' = fetching /\ fetching = {}
        /\ job' = [job EXCEPT ![k] = r] /\ archive' = [archive EXCEPT ![k] = "failed"]
    BY <1>1, <1>6 DEF NoSource, Comes
  <2>3. Fits("failed", r.status, k \in fetching', restarts > 0)
    BY <2>1, <2>2 DEF Fits
  <2> HIDE DEF r
  <2> QED
    BY <2>1, <2>2, <2>3, OneImage
<1>7. CASE Fetch(k)
  <2> DEFINE r == [job[k] EXCEPT !.status = "running", !.attempts = @ + 1, !.due = FALSE]
  <2>0. job[k].attempts + 1 \in 0..MaxAttempts
    BY <1>2, <1>7 DEF Fetch, Spent
  <2>1. r \in Job /\ r.status = "running"
    BY <1>1, <2>0 DEF Job, Open
  <2>2. /\ batch' \subseteq Images /\ fetching' = {k}
        /\ job' = [job EXCEPT ![k] = r] /\ archive' = archive
        /\ archive' = [archive EXCEPT ![k] = archive[k]]
    BY <1>1, <1>7 DEF Fetch, Comes
  <2>3. archive[k] \in {"pending", "failed"}
    BY <1>1, <1>7 DEF Fetch, Fits, Open
  <2>4. Fits(archive[k], r.status, k \in fetching', restarts > 0)
    BY <2>1, <2>2, <2>3 DEF Fits, Open
  <2> HIDE DEF r
  <2> QED
    BY <1>1, <2>1, <2>2, <2>4, OneImage
<1>8. CASE Elapse(k)
  <2> DEFINE r == [job[k] EXCEPT !.due = TRUE]
  <2>1. r \in Job /\ r.status = job[k].status
    BY <1>1 DEF Job
  <2>2. /\ batch' \subseteq Images /\ fetching' = fetching
        /\ job' = [job EXCEPT ![k] = r] /\ archive' = [archive EXCEPT ![k] = archive[k]]
    BY <1>1, <1>8 DEF Elapse
  <2>3. Fits(archive[k], r.status, k \in fetching', restarts > 0)
    BY <1>1, <2>1, <2>2
  <2> HIDE DEF r
  <2> QED
    BY <1>1, <2>1, <2>2, <2>3, OneImage
<1>9. CASE Delete(k)
  <2> DEFINE r == [job[k] EXCEPT !.status = "deleted"]
  <2>1. r \in Job /\ r.status = "deleted"
    BY <1>1 DEF Job
  <2>2. /\ batch' \subseteq Images /\ fetching' = fetching
        /\ job' = [job EXCEPT ![k] = r] /\ archive' = [archive EXCEPT ![k] = "deleted"]
    BY <1>1, <1>9 DEF Delete
  <2>3. Fits("deleted", r.status, k \in fetching', restarts > 0)
    BY <2>1, <2>2 DEF Fits
  <2> HIDE DEF r
  <2> QED
    BY <2>1, <2>2, <2>3, OneImage
<1> QED
  BY <1>3, <1>4, <1>5, <1>6, <1>7, <1>8, <1>9

\* The circuit breaker is retired: what it held back has failed.
LEMMA ReleasedIs ==
  ASSUME NEW jobs \in [Images -> Job]
  PROVE  /\ Released(jobs) \in [Images -> Job]
         /\ \A i \in Images :
               \/ Released(jobs)[i] = jobs[i] /\ jobs[i].status # "blocked"
               \/ jobs[i].status = "blocked" /\ Released(jobs)[i].status = "failed"
<1>1. ASSUME NEW i \in Images, jobs[i].status = "blocked"
      PROVE  /\ [jobs[i] EXCEPT !.status = "failed", !.due = TRUE] \in Job
             /\ [jobs[i] EXCEPT !.status = "failed", !.due = TRUE].status = "failed"
  <2>1. jobs[i] \in Job
    OBVIOUS
  <2> QED
    BY <2>1 DEF Job
<1> QED
  BY <1>1 DEF Released

\* A download that succeeded, or had when the process went down, completes its job.
LEMMA CompletingKeeps ==
  ASSUME ImageInv, UNCHANGED restarts, NEW k \in Images, Settle(k) \/ Fetched(k)
  PROVE  ImageInv'
<1>1. /\ job[k] \in Job /\ archive[k] \in {"none", "pending", "failed", "stored", "deleted"}
      /\ Fits(archive[k], job[k].status, k \in fetching, restarts > 0)
      /\ job \in [Images -> Job]
      /\ archive \in [Images -> {"none", "pending", "failed", "stored", "deleted"}]
      /\ batch \subseteq Images /\ fetching \subseteq Images
      /\ restarts \in Nat
  BY DEF ImageInv, ImagesTypeOK, ImagesFit
<1> DEFINE jobs == IF job[k].error = "manual" THEN Released(job) ELSE job
<1>2. /\ jobs \in [Images -> Job]
      /\ \A i \in Images : \/ jobs[i] = job[i]
                           \/ job[i].status = "blocked" /\ jobs[i].status = "failed"
  BY <1>1, ReleasedIs
<1> HIDE DEF jobs
<1>3. CASE Settle(k)
  <2> DEFINE r == [jobs[k] EXCEPT !.status = "completed", !.due = TRUE]
  <2>1. r \in Job /\ r.status = "completed"
    <3>1. jobs[k] \in Job
      BY <1>2
    <3> QED
      BY <3>1 DEF Job
  <2>2. /\ job' = [jobs EXCEPT ![k] = r] /\ UNCHANGED <<archive, fetching>>
        /\ batch' \subseteq Images /\ fetching = {} /\ archive[k] = "stored"
    BY <1>1, <1>3 DEF Settle, Comes, jobs
  <2> HIDE DEF r
  <2>3. /\ job' \in [Images -> Job] /\ job'[k] = r
        /\ \A i \in Images \ {k} : job'[i] = jobs[i] /\ archive'[i] = archive[i]
    BY <1>2, <2>1, <2>2
  <2>4. \A i \in Images \ {k} :
            \/ archive'[i] = archive[i] /\ job'[i].status = job[i].status
            \/ /\ archive'[i] = archive[i]
               /\ job[i].status = "blocked" /\ job'[i].status = "failed"
    BY <1>2, <2>3
  <2>5. Fits(archive[k], job[k].status, k \in fetching, restarts > 0)'
    BY <2>1, <2>2, <2>3 DEF Fits
  <2> QED
    BY <1>1, <2>2, <2>3, <2>4, <2>5, OthersFit
<1>4. CASE Fetched(k) /\ archive[k] = "deleted"
  <2> DEFINE r == [job[k] EXCEPT !.status = "deleted", !.due = TRUE]
  <2>1. r \in Job /\ r.status = "deleted"
    BY <1>1 DEF Job
  <2>2. /\ batch' \subseteq Images /\ fetching' = {}
        /\ job' = [job EXCEPT ![k] = r] /\ archive' = [archive EXCEPT ![k] = "deleted"]
    BY <1>1, <1>4 DEF Fetched, Returns, Gone
  <2>3. Fits("deleted", r.status, k \in fetching', restarts > 0)
    BY <2>1, <2>2 DEF Fits
  <2> HIDE DEF r
  <2> QED
    BY <2>1, <2>2, <2>3, OneImage
<1>5. CASE Fetched(k) /\ archive[k] # "deleted"
  <2> DEFINE r == [jobs[k] EXCEPT !.status = "completed", !.error = "none", !.due = TRUE]
  <2>1. r \in Job /\ r.status = "completed"
    <3>1. jobs[k] \in Job
      BY <1>2
    <3> QED
      BY <3>1 DEF Job
  <2>2. /\ job' = [jobs EXCEPT ![k] = r] /\ archive' = [archive EXCEPT ![k] = "stored"]
        /\ batch' \subseteq Images /\ fetching' = {}
    BY <1>1, <1>5 DEF Fetched, Returns, jobs
  <2> HIDE DEF r
  <2>3. /\ job' \in [Images -> Job] /\ job'[k] = r /\ archive'[k] = "stored"
        /\ archive' \in [Images -> {"none", "pending", "failed", "stored", "deleted"}]
        /\ \A i \in Images \ {k} : job'[i] = jobs[i] /\ archive'[i] = archive[i]
    BY <1>1, <1>2, <2>1, <2>2
  <2>4. \A i \in Images \ {k} :
            /\ i \in fetching' => i \in fetching
            /\ \/ archive'[i] = archive[i] /\ job'[i].status = job[i].status
               \/ /\ archive'[i] = archive[i]
                  /\ job[i].status = "blocked" /\ job'[i].status = "failed"
    BY <1>2, <2>2, <2>3
  <2>5. Fits(archive[k], job[k].status, k \in fetching, restarts > 0)'
    BY <2>1, <2>2, <2>3 DEF Fits
  <2> QED
    BY <1>1, <2>2, <2>3, <2>4, <2>5, OthersFit
<1> QED
  BY <1>3, <1>4, <1>5

\* A download that failed, for good or for now, or for want of a login.
LEMMA FailingKeeps ==
  ASSUME ImageInv, UNCHANGED restarts, NEW k \in Images, FetchFailed(k) \/ FetchBlocked(k)
  PROVE  ImageInv'
<1>1. /\ job[k] \in Job /\ archive[k] \in {"none", "pending", "failed", "stored", "deleted"}
      /\ Fits(archive[k], job[k].status, k \in fetching, restarts > 0)
      /\ job \in [Images -> Job]
      /\ archive \in [Images -> {"none", "pending", "failed", "stored", "deleted"}]
      /\ batch \subseteq Images /\ fetching \subseteq Images
      /\ restarts \in Nat
  BY DEF ImageInv, ImagesTypeOK, ImagesFit
<1>2. /\ fetching' = {} /\ batch' \subseteq Images /\ k \in fetching
  BY <1>1 DEF FetchFailed, FetchBlocked, Returns
<1>3. archive[k] # "stored"
  BY <1>1, <1>2 DEF Fits
<1>4. ASSUME NEW status \in {"failed", "retry"}, Failing(k, status, "other")
      PROVE  ImageInv'
  <2> DEFINE r == IF archive[k] = "deleted"
                  THEN [job[k] EXCEPT !.status = "deleted", !.due = TRUE]
                  ELSE [job[k] EXCEPT !.status = status, !.error = "other",
                                      !.due = status # "retry"]
             row == IF archive[k] = "deleted" THEN "deleted" ELSE "failed"
  <2>0. [job[k] EXCEPT !.status = "deleted", !.due = TRUE] \in Job
    BY <1>1 DEF Job
  <2>01. [job[k] EXCEPT !.status = status, !.error = "other", !.due = status # "retry"] \in Job
    <3>1. (status # "retry") \in BOOLEAN
      OBVIOUS
    <3> QED
      BY <1>1, <3>1 DEF Job, Open
  <2>1. /\ r \in Job
        /\ r.status = IF archive[k] = "deleted" THEN "deleted" ELSE status
    <3>1. job[k] = [status |-> job[k].status, error |-> job[k].error,
                    attempts |-> job[k].attempts, ref |-> job[k].ref, due |-> job[k].due]
      BY <1>1, JobFields
    <3> QED
      BY <2>0, <2>01, <3>1
  <2>2. /\ job' = [job EXCEPT ![k] = r] /\ archive' = [archive EXCEPT ![k] = row]
    BY <1>1, <1>4 DEF Failing, Gone
  <2>3. Fits(row, r.status, k \in fetching', restarts > 0)
    BY <1>2, <2>1 DEF Fits
  <2>4. row \in {"none", "pending", "failed", "stored", "deleted"}
    OBVIOUS
  <2> HIDE DEF r, row
  <2> QED
    BY <1>2, <2>1, <2>2, <2>3, <2>4, OneImage
<1>5. CASE FetchFailed(k)
  BY <1>4, <1>5 DEF FetchFailed
<1>6. CASE FetchBlocked(k)
  <2> DEFINE others == {j \in Images \ {k} : job[j].status \in {"pending", "retry"}}
  <2>1. /\ job' = [j \in Images |->
                  IF j = k
                  THEN IF archive[k] = "deleted" THEN Gone(k)[k]
                       ELSE [job[k] EXCEPT !.status = "blocked", !.error = "other", !.due = TRUE]
                  ELSE IF j \in others
                       THEN [job[j] EXCEPT !.status = "blocked", !.error = "other"]
                       ELSE job[j]]
        /\ archive' = [j \in Images |->
                      IF j \in others \cup {k} /\ archive[j] # "deleted" THEN "failed"
                      ELSE archive[j]]
    BY <1>6 DEF FetchBlocked
  <2>2. ASSUME NEW j \in Images
        PROVE  /\ [job[j] EXCEPT !.status = "blocked", !.error = "other"] \in Job
               /\ [job[j] EXCEPT !.status = "blocked", !.error = "other"].status = "blocked"
    <3>1. job[j] \in Job
      BY <1>1
    <3> QED
      BY <3>1 DEF Job
  <2>3. /\ [job[k] EXCEPT !.status = "blocked", !.error = "other", !.due = TRUE] \in Job
        /\ [job[k] EXCEPT !.status = "blocked", !.error = "other", !.due = TRUE].status
              = "blocked"
    BY <1>1 DEF Job
  <2>4. Gone(k)[k] \in Job /\ Gone(k)[k].status = "deleted"
    <3>1. Gone(k)[k] = [job[k] EXCEPT !.status = "deleted", !.due = TRUE]
      BY <1>1 DEF Gone
    <3> QED
      BY <1>1, <3>1 DEF Job
  <2>5. /\ job' \in [Images -> Job]
        /\ archive' \in [Images -> {"none", "pending", "failed", "stored", "deleted"}]
    BY <1>1, <2>1, <2>2, <2>3, <2>4
  <2>6. \A i \in Images \ {k} :
            /\ i \in fetching' => i \in fetching
            /\ \/ archive'[i] = archive[i] /\ job'[i].status = job[i].status
               \/ /\ archive'[i] = IF archive[i] = "deleted" THEN "deleted" ELSE "failed"
                  /\ i \notin fetching'
                  /\ job[i].status \in {"pending", "retry"} /\ job'[i].status = "blocked"
    BY <1>2, <2>1, <2>2
  <2>7. Fits(archive[k], job[k].status, k \in fetching, restarts > 0)'
    BY <1>1, <1>2, <1>3, <2>1, <2>3, <2>4 DEF Fits
  <2> HIDE DEF others
  <2> QED
    BY <1>1, <1>2, <2>5, <2>6, <2>7, OthersFit
<1> QED
  BY <1>5, <1>6

\* A stop leaves the job of the download to be retried, a crash as it is.
LEMMA StoppingKeeps ==
  ASSUME ImageInv, restarts' = restarts + 1, StopCapture \/ CrashCapture
  PROVE  ImageInv'
<1>1. /\ job \in [Images -> Job]
      /\ archive \in [Images -> {"none", "pending", "failed", "stored", "deleted"}]
      /\ batch' = {} /\ fetching' = {} /\ fetching \subseteq Images
  BY DEF ImageInv, ImagesTypeOK, StopCapture, CrashCapture
<1>0. restarts \in Nat /\ restarts' \in Nat /\ restarts' > 0
  BY DEF ImageInv
<1>2. \A i \in Images : Fits(archive[i], job[i].status, i \in fetching, restarts > 0)
  BY DEF ImageInv, ImagesFit
<1>3. CASE StopCapture
  <2>1. ASSUME NEW i \in Images
        PROVE  /\ [job[i] EXCEPT !.status = "retry", !.due = TRUE] \in Job
               /\ [job[i] EXCEPT !.status = "retry", !.due = TRUE].status = "retry"
    <3>1. job[i] \in Job
      BY <1>1
    <3> QED
      BY <3>1 DEF Job, Open
  <2>2. /\ archive' = archive /\ job' \in [Images -> Job]
        /\ \A i \in Images : job'[i].status = IF i \in fetching THEN "retry"
                                              ELSE job[i].status
    BY <1>1, <1>3, <2>1 DEF StopCapture
  <2>3. ASSUME NEW i \in Images
        PROVE  Fits(archive[i], job[i].status, i \in fetching, restarts > 0)'
    BY <1>0, <1>1, <1>2, <2>2 DEF Fits, Open
  <2> QED
    BY <1>0, <1>1, <2>2, <2>3 DEF ImageInv, ImagesTypeOK, ImagesFit
<1>4. CASE CrashCapture
  <2>1. /\ job' = job
        /\ archive' \in [Images -> {"none", "pending", "failed", "stored", "deleted"}]
        /\ \A i \in Images : \/ archive'[i] = archive[i]
                             \/ /\ i \in fetching /\ archive[i] # "deleted"
                                /\ archive'[i] = "stored"
    BY <1>1, <1>4 DEF CrashCapture
  <2>2. ASSUME NEW i \in Images
        PROVE  Fits(archive[i], job[i].status, i \in fetching, restarts > 0)'
    BY <1>0, <1>1, <1>2, <2>1 DEF Fits, Open
  <2> QED
    BY <1>0, <1>1, <2>1, <2>2 DEF ImageInv, ImagesTypeOK, ImagesFit
<1> QED
  BY <1>3, <1>4

\* Every step keeps the types of the images, and that rows fit their jobs.
LEMMA ImagesStep ==
  ASSUME ImageInv, [Next]_vars
  PROVE  ImageInv'
<1>1. CASE UNCHANGED <<imageVars, restarts>>
  BY <1>1 DEF imageVars, ImageInv, ImagesTypeOK, ImagesFit
<1>2. CASE Drain /\ UNCHANGED restarts
  BY <1>2 DEF Drain, Due, ImageInv, ImagesTypeOK, ImagesFit
<1> QED
  BY <1>1, <1>2, ImageKinds, PersistKeeps, TakingKeeps, CompletingKeeps, FailingKeeps,
     StoppingKeeps

-----------------------------------------------------------------------------
(* The protection of the channel.                                          *)

LEMMA CircuitLasts ==
  ASSUME CircuitHolds, fetching' \subseteq fetching, fetching \subseteq Images,
         \A i \in fetching' : job'[i].error = job[i].error,
         \A i \in Images : job'[i].status = "blocked" => job[i].status = "blocked"
  PROVE  CircuitHolds'
BY DEF CircuitHolds, Blocked

LEMMA CircuitStep ==
  ASSUME ImageInv, CircuitHolds, [Next]_vars
  PROVE  CircuitHolds'
<1>1. /\ job \in [Images -> Job] /\ fetching \subseteq Images
      /\ \A i \in Images : Fits(archive[i], job[i].status, i \in fetching, restarts > 0)
  BY DEF ImageInv, ImagesTypeOK, ImagesFit
<1>2. CASE UNCHANGED <<imageVars, restarts>>
  BY <1>2 DEF imageVars, CircuitHolds, Blocked
<1>3. ASSUME fetching' = {} PROVE CircuitHolds'
  BY <1>3 DEF CircuitHolds
<1>4. CASE StopCapture \/ CrashCapture \/ Drain
  BY <1>3, <1>4 DEF StopCapture, CrashCapture, Drain
<1>5. ASSUME NEW messages, NEW imported, PersistJobs(messages, imported)
      PROVE  CircuitHolds'
  <2>1. PICK refs \in SUBSET (messages \cap Images) :
           /\ job' = [i \in Images |->
                        IF i \in messages THEN Persisted(i, i \in refs, imported) ELSE job[i]]
           /\ fetching' = fetching
    BY <1>5 DEF PersistJobs
  <2>2. ASSUME NEW i \in Images
        PROVE  Persisted(i, i \in refs, imported).status = "blocked"
                  => job[i].status = "blocked"
    BY PersistedIs, (i \in refs) \in BOOLEAN DEF ImageInv
  <2>3. ASSUME NEW i \in fetching
        PROVE  Persisted(i, i \in refs, imported).error = job[i].error
    <3>1. i \in Images /\ job[i].status \in {"running", "deleted"}
      BY <1>1 DEF Fits
    <3>2. job[i] \in Job
      BY <1>1, <3>1
    <3>3. [job[i] EXCEPT !.ref = i \in refs].error = job[i].error
          /\ [job[i] EXCEPT !.ref = i \in refs].status = job[i].status
      BY <3>2 DEF Job
    <3>4. Refreshed(i, i \in refs) = job[i]
            \/ Refreshed(i, i \in refs) = [job[i] EXCEPT !.ref = i \in refs]
      BY <3>1 DEF Refreshed
    <3> QED
      BY <3>1, <3>3, <3>4 DEF Persisted
  <2> QED
    BY <1>1, <2>1, <2>2, <2>3, CircuitLasts
<1>6. ASSUME NEW k \in Images,
             \/ Leave(k) \/ Settle(k) \/ Protect(k) \/ Exhaust(k) \/ NoSource(k)
             \/ Fetched(k) \/ FetchFailed(k) \/ FetchBlocked(k)
      PROVE  CircuitHolds'
  <2>1. fetching' = {}
    BY <1>6 DEF Leave, Settle, Protect, Exhaust, NoSource, Fetched, FetchFailed, FetchBlocked,
                Comes, Ends, Returns
  <2> QED
    BY <1>3, <2>1
<1>7. ASSUME NEW k \in Images, Elapse(k) \/ Delete(k)
      PROVE  CircuitHolds'
  <2>1. job[k] \in Job
    BY <1>1
  <2>2. /\ [job[k] EXCEPT !.due = TRUE].error = job[k].error
        /\ [job[k] EXCEPT !.due = TRUE].status = job[k].status
        /\ [job[k] EXCEPT !.status = "deleted"].error = job[k].error
        /\ [job[k] EXCEPT !.status = "deleted"].status = "deleted"
    BY <2>1 DEF Job
  <2>3. /\ fetching' = fetching
        /\ \/ job' = [job EXCEPT ![k] = [job[k] EXCEPT !.due = TRUE]]
           \/ job' = [job EXCEPT ![k] = [job[k] EXCEPT !.status = "deleted"]]
    BY <1>7 DEF Elapse, Delete
  <2>4. \A i \in Images : /\ job'[i].error = job[i].error
                          /\ job'[i].status = "blocked" => job[i].status = "blocked"
    BY <1>1, <2>2, <2>3
  <2> QED
    BY <1>1, <2>3, <2>4, CircuitLasts
<1>8. ASSUME NEW k \in Images, Fetch(k)
      PROVE  CircuitHolds'
  <2>1. job[k] \in Job
    BY <1>1
  <2> DEFINE r == [job[k] EXCEPT !.status = "running", !.attempts = @ + 1, !.due = FALSE]
  <2>2. r.error = job[k].error /\ r.status = "running"
    BY <2>1 DEF Job
  <2>3. fetching' = {k} /\ job' = [job EXCEPT ![k] = r]
    BY <1>8 DEF Fetch
  <2>4. Blocked # {} => job[k].error = "manual"
    BY <1>8 DEF Fetch, Protected
  <2> HIDE DEF r
  <2>5. \A i \in Images : /\ job'[i].error = job[i].error
                          /\ job'[i].status = "blocked" => job[i].status = "blocked"
    BY <1>1, <2>2, <2>3
  <2> QED
    BY <2>3, <2>4, <2>5 DEF CircuitHolds, Blocked
<1> QED
  BY <1>2, <1>4, <1>5, <1>6, <1>7, <1>8, ImageKinds

-----------------------------------------------------------------------------
(* What becomes of the images.                                             *)

LEMMA ImagesStart == Init => ImageInv /\ CircuitHolds
<1>1. NoJob \in Job /\ NoJob.status = "none"
  BY DEF NoJob, Job
<1> QED
  BY <1>1 DEF Init, ImagesInit, ImageInv, ImagesTypeOK, ImagesFit, Fits, CircuitHolds

LEMMA ImagesAlways == Spec => [](ImageInv /\ CircuitHolds)
<1>1. ImageInv /\ CircuitHolds /\ [Next]_vars => (ImageInv /\ CircuitHolds)'
  BY ImagesStep, CircuitStep
<1> QED
  BY <1>1, ImagesStart, PTL DEF Spec

\* No image is downloaded against the protection of the channel, and none is
\* forgotten, over any deliveries, imports, deletions, failures, stops and crashes.
THEOREM ImagesAreKept == Spec => []ImagesKept
<1>1. ImageInv /\ CircuitHolds => ImagesKept
  <2> SUFFICES ASSUME ImageInv, CircuitHolds PROVE NoImageForgotten
    BY DEF ImagesKept
  <2>1. \A i \in Images : Fits(archive[i], job[i].status, i \in fetching, restarts > 0)
    BY DEF ImageInv, ImagesFit
  <2> QED
    BY <2>1 DEF NoImageForgotten, Fits
<1> QED
  BY <1>1, ImagesAlways, PTL

\* The row of a deleted image stays deleted, and its download does not begin again.
LEMMA DeletedStep ==
  ASSUME ImageInv, [Next]_vars, NEW i \in Images, archive[i] = "deleted"
  PROVE  archive'[i] = "deleted" /\ (i \in fetching' => i \in fetching)
<1>1. archive \in [Images -> {"none", "pending", "failed", "stored", "deleted"}]
  BY DEF ImageInv, ImagesTypeOK
<1>2. CASE UNCHANGED <<imageVars, restarts>>
  BY <1>2 DEF imageVars
<1>3. CASE StopCapture \/ CrashCapture \/ Drain
  BY <1>1, <1>3 DEF StopCapture, CrashCapture, Drain
<1>4. CASE \E messages, imported : PersistJobs(messages, imported)
  BY <1>1, <1>4 DEF PersistJobs
<1>5. ASSUME NEW k \in Images,
             \/ Leave(k) \/ Settle(k) \/ Protect(k) \/ Exhaust(k) \/ NoSource(k) \/ Fetch(k)
      PROVE  archive'[i] = "deleted" /\ (i \in fetching' => i \in fetching)
  BY <1>1, <1>5 DEF Leave, Settle, Protect, Exhaust, NoSource, Fetch, Ends
<1>6. ASSUME NEW k \in Images,
             \/ Fetched(k) \/ FetchFailed(k) \/ FetchBlocked(k) \/ Elapse(k) \/ Delete(k)
      PROVE  archive'[i] = "deleted" /\ (i \in fetching' => i \in fetching)
  BY <1>1, <1>6 DEF Fetched, FetchFailed, Failing, FetchBlocked, Elapse, Delete, Returns
<1> QED
  BY <1>2, <1>3, <1>4, <1>5, <1>6, ImageKinds

\* A deleted image stays deleted and is never downloaded again.
THEOREM DeletedStays == Spec => DeletedForGood
<1>1. ImageInv /\ [Next]_vars =>
         [\A i \in Images :
             archive[i] = "deleted" => /\ archive'[i] = "deleted"
                                       /\ i \in fetching' => i \in fetching]_vars
  BY DeletedStep
<1> QED
  BY <1>1, ImagesAlways, PTL DEF Spec, DeletedForGood

-----------------------------------------------------------------------------
(* The supervisor, its runs and the login.                                 *)

\* While nothing is alive a run is started under the first name.
LEMMA StartRunIs ==
  ASSUME SupervisorTypeOK, Alive = {}, StartRun
  PROVE  /\ supervised' \in RunIds /\ supervised' \in 0..MaxRuns
         /\ run' = [r \in RunIds |-> IF r = supervised' THEN "starting" ELSE "none"]
         /\ recon'.pc = "sleeping" /\ paused' = FALSE
<1>1. \A r \in RunIds : run[r] = "none"
  BY DEF Alive
<1>2. Min(RunIds) = 1 /\ 1 \in RunIds
  <2>1. 1 \in RunIds /\ \A y \in RunIds : 1 <= y
    BY DEF RunIds
  <2>2. Min(RunIds) \in RunIds /\ \A y \in RunIds : Min(RunIds) <= y
    BY <2>1 DEF Min
  <2> QED
    BY <2>1, <2>2 DEF RunIds
<1>3. RunIds \ Alive = RunIds
  OBVIOUS
<1>4. supervised' = 1 /\ run' = [run EXCEPT ![supervised'] = "starting"]
      /\ recon' = NewRecon /\ paused' = FALSE
  BY <1>2, <1>3 DEF StartRun
<1>5. run' = [r \in RunIds |-> IF r = supervised' THEN "starting" ELSE "none"]
  BY <1>1, <1>2, <1>4 DEF SupervisorTypeOK
<1>6. supervised' \in RunIds /\ supervised' \in 0..MaxRuns
  BY <1>2, <1>4 DEF RunIds
<1>7. recon'.pc = "sleeping"
  BY <1>4 DEF NewRecon, NoRecon
<1> QED
  BY <1>4, <1>5, <1>6, <1>7

\* The operation that holds the lock returns.
LEMMA ReturnIs ==
  ASSUME SupervisorTypeOK, OneReplacement, ops # <<>>, Return
  PROVE  /\ ops' \in Seq(Operation) /\ step' = "check" /\ OneReplacement'
         /\ recovering' \in {"no", "pausing", "replacing", "reconnecting"}
         /\ recovering' = "no" => \/ recovering = "no"
                                  \/ Head(ops).do = "reconnect"
<1>1. /\ ops' = Tail(ops) /\ step' = "check"
      /\ recovering' = IF Head(ops).by = "user" THEN recovering
                       ELSE IF recovering = "pausing" THEN "replacing" ELSE "no"
  BY DEF Return
<1>2. /\ ops \in Seq(Operation) /\ Len(ops) \in Nat \ {0} /\ Head(ops) = ops[1]
      /\ Head(ops) \in Operation
      /\ Tail(ops) \in Seq(Operation) /\ Len(Tail(ops)) = Len(ops) - 1
      /\ \A k \in 1..Len(Tail(ops)) : Tail(ops)[k] = ops[k + 1]
  BY DEF SupervisorTypeOK
<1>3. Head(ops).by \in {"user", "recovery"}
  BY <1>2 DEF Operation
<1>4. \A k \in 1..Len(ops') : k + 1 \in 1..Len(ops) /\ ops'[k] = ops[k + 1]
  BY <1>1, <1>2
<1>5. CASE Head(ops).by = "recovery"
  <2>1. \A k \in 1..Len(ops') : ops'[k].by # "recovery"
    <3> SUFFICES ASSUME NEW k \in 1..Len(ops'), ops'[k].by = "recovery" PROVE FALSE
      OBVIOUS
    <3>1. k + 1 \in 1..Len(ops) /\ ops[k + 1].by = "recovery" /\ ops[1].by = "recovery"
          /\ 1 \in 1..Len(ops) /\ k \in Nat /\ k > 0
      BY <1>1, <1>2, <1>4, <1>5
    <3>2. k + 1 = 1
      BY <3>1 DEF OneReplacement
    <3> QED
      BY <3>1, <3>2
  <2>2. \/ recovering = "pausing" /\ Head(ops).do = "pause"
        \/ recovering = "reconnecting" /\ Head(ops).do = "reconnect"
    <3>1. 1 \in 1..Len(ops) /\ ops[1].by = "recovery"
      BY <1>2, <1>5
    <3>2. \/ recovering = "pausing" /\ ops[1].do = "pause"
          \/ recovering = "reconnecting" /\ ops[1].do = "reconnect"
      BY <3>1, Zenon DEF OneReplacement
    <3>3. Head(ops) = ops[1]
      BY <1>2
    <3> QED
      BY <3>2, <3>3
  <2> QED
    BY <1>1, <1>2, <1>5, <2>1, <2>2 DEF OneReplacement
<1>6. CASE Head(ops).by = "user"
  <2>1. recovering' = recovering
    BY <1>1, <1>6
  <2>2. \A k \in 1..Len(ops') : ops'[k].by = "recovery" =>
          \/ recovering' = "pausing" /\ ops'[k].do = "pause"
          \/ recovering' = "reconnecting" /\ ops'[k].do = "reconnect"
    BY <1>4, <2>1 DEF OneReplacement
  <2>3. ASSUME NEW j \in 1..Len(ops'), NEW k \in 1..Len(ops'),
               ops'[j].by = "recovery", ops'[k].by = "recovery"
        PROVE  j = k
    <3>1. j + 1 \in 1..Len(ops) /\ k + 1 \in 1..Len(ops)
          /\ ops[j + 1].by = "recovery" /\ ops[k + 1].by = "recovery"
      BY <1>4, <2>3
    <3>2. j + 1 = k + 1
      BY <3>1 DEF OneReplacement
    <3> QED
      BY <3>2
  <2>4. OneReplacement'
    BY <2>2, <2>3 DEF OneReplacement
  <2> QED
    BY <1>1, <1>2, <2>1, <2>4 DEF SupervisorTypeOK
<1> QED
  BY <1>3, <1>5, <1>6

\* An operation is put behind the others.
LEMMA RequestIs ==
  ASSUME SupervisorTypeOK, OneReplacement, NEW op \in Operation, ops' = Append(ops, op),
         \/ op.by = "user" /\ recovering' = recovering
         \/ /\ op.by = "recovery" /\ recovering \in {"no", "replacing"}
            /\ \/ recovering' = "pausing" /\ op.do = "pause"
               \/ recovering' = "reconnecting" /\ op.do = "reconnect"
  PROVE  /\ ops' \in Seq(Operation) /\ ops' # <<>> /\ OneReplacement'
         /\ recovering' \in {"no", "pausing", "replacing", "reconnecting"}
         /\ ops # <<>> => Head(ops') = Head(ops)
         /\ recovering' = "no" => recovering = "no"
<1>1. /\ ops \in Seq(Operation) /\ Len(ops) \in Nat
      /\ ops' \in Seq(Operation) /\ Len(ops') = Len(ops) + 1
      /\ \A k \in 1..Len(ops) : ops'[k] = ops[k]
      /\ ops'[Len(ops) + 1] = op
  BY DEF SupervisorTypeOK
<1>2. ops # <<>> => Head(ops') = Head(ops)
  <2>1. ops # <<>> => Len(ops) > 0 /\ Head(ops) = ops[1] /\ Head(ops') = ops'[1]
    BY <1>1
  <2> QED
    BY <1>1, <2>1
<1>3. \A k \in 1..Len(ops') : k \in 1..Len(ops) \/ k = Len(ops) + 1
  BY <1>1
<1>4. CASE op.by = "user" /\ recovering' = recovering
  <2>1. \A k \in 1..Len(ops') : ops'[k].by = "recovery" =>
           k \in 1..Len(ops) /\ ops[k].by = "recovery" /\ ops'[k] = ops[k]
    BY <1>1, <1>3, <1>4
  <2>2. OneReplacement'
    BY <1>4, <2>1 DEF OneReplacement
  <2> QED
    BY <1>1, <1>2, <1>4, <2>2 DEF SupervisorTypeOK
<1>5. CASE /\ op.by = "recovery" /\ recovering \in {"no", "replacing"}
           /\ \/ recovering' = "pausing" /\ op.do = "pause"
              \/ recovering' = "reconnecting" /\ op.do = "reconnect"
  <2>1. \A k \in 1..Len(ops) : ops[k].by # "recovery"
    BY <1>5 DEF OneReplacement
  <2>2. \A k \in 1..Len(ops') : ops'[k].by = "recovery" => k = Len(ops) + 1 /\ ops'[k] = op
    BY <1>1, <1>3, <2>1
  <2>3. OneReplacement'
    BY <1>5, <2>2 DEF OneReplacement
  <2> QED
    BY <1>1, <1>2, <1>5, <2>3
<1> QED
  BY <1>4, <1>5

\* What an action that leaves the supervisor and its runs alone does to them.
SupervisorRests ==
    /\ UNCHANGED <<run, supervised, paused, shutting, ops, step, cancelled, recovering,
                   login, session, proc, setup>>
    /\ recon.pc = "off" => recon'.pc = "off"

LEMMA SupervisorKinds ==
  ASSUME [Next]_vars
  PROVE  \/ SupervisorRests
         \/ Listening \/ Supervising
         \/ Halt \/ Boot
<1> USE DEF SupervisorRests, supervisor, accounts, process, listener, intake
<1>1. CASE Write \/ Age
  BY <1>1 DEF Write, Age
<1>2. CASE Receive \/ (\E m \in announcing : Announce(m)) \/ (\E h \in hydrations : Answered(h))
  BY <1>2 DEF Receive, Announce, Answered
<1>3. CASE Ask \/ Newest \/ Reconcile \/ Reconciled
  BY <1>3 DEF Ask, Newest, Reconcile, Reconciled, ReconStep
<1>4. CASE Process \/ \E h \in hydrations : Hydrate(h)
  BY <1>4 DEF Process, Hydrate
<1>5. CASE (\E c \in Conversations : Import(c)) \/ (\E m \in Images : Restore(m)) \/ ImageStep
  BY <1>5 DEF Import, Restore, ImageStep
<1>6. CASE Drained \/ Crash
  BY <1>6 DEF Drained, Crash
<1>7. CASE UNCHANGED vars
  BY <1>7 DEF vars
<1> QED
  BY <1>1, <1>2, <1>3, <1>4, <1>5, <1>6, <1>7 DEF Next, Taking

LEMMA RestsKeeps ==
  ASSUME SupervisorInv, SupervisorRests
  PROVE  SupervisorInv'
BY DEF SupervisorInv, SupervisorRests, SupervisorTypeOK, OneRun, OneReplacement, CurrentLogin,
       Alive

\* The runs connect, lose their connection, and end.
LEMMA ListeningKeeps ==
  ASSUME SupervisorInv, Listening
  PROVE  SupervisorInv'
<1>1. PICK r \in RunIds : Dial(r) \/ Connect(r) \/ Break(r) \/ Verify(r) \/ Unwind(r)
  BY DEF Listening
<1>2. PICK to \in {"none", "connecting", "connected", "waiting"} :
         /\ run' = [run EXCEPT ![r] = to] /\ run[r] # "none"
         /\ UNCHANGED <<supervised, paused, shutting, ops, step, cancelled, recovering,
                        login, proc, setup>>
         /\ to = "none" => recon'.pc = "off"
         /\ to # "none" => recon' = recon
         /\ session' = IF to = "connecting" THEN login ELSE session
         /\ to = "connected" => run[r] = "connecting"
  <2> USE DEF Runs, supervisor, accounts, process, NoRecon
  <2>1. CASE Dial(r)
    BY <2>1 DEF Dial
  <2>2. CASE Connect(r)
    BY <2>2 DEF Connect
  <2>3. CASE Break(r)
    BY <2>3 DEF Break
  <2>4. CASE Verify(r)
    BY <2>4 DEF Verify
  <2>5. CASE Unwind(r)
    BY <2>5 DEF Unwind
  <2> QED
    BY <1>1, <2>1, <2>2, <2>3, <2>4, <2>5
<1>3. /\ SupervisorTypeOK /\ OneRun /\ OneReplacement /\ CurrentLogin
      /\ run \in [RunIds -> {"none", "starting", "connecting", "connected", "waiting",
                             "cancelled"}]
  BY DEF SupervisorInv, SupervisorTypeOK
<1>4. \A q \in RunIds : run'[q] = IF q = r THEN to ELSE run[q]
  BY <1>2, <1>3
<1>5. run' \in [RunIds -> {"none", "starting", "connecting", "connected", "waiting",
                           "cancelled"}]
  BY <1>2, <1>3
<1>6. session' \in 0..login'
  BY <1>2, <1>3 DEF SupervisorTypeOK
<1>7. SupervisorTypeOK'
  <2>1. UNCHANGED <<supervised, paused, shutting, ops, step, recovering, login, proc, setup>>
    BY <1>2
  <2>2. SupervisorTypeOK
    BY <1>3
  <2> QED
    BY <1>5, <1>6, <2>1, <2>2 DEF SupervisorTypeOK
<1>8. \A q \in RunIds : q # r => run[q] = "none"
  BY <1>2, <1>3 DEF OneRun, NoRun, RunIds
<1>9. Alive' = IF to = "none" THEN {} ELSE {r}
  BY <1>4, <1>8 DEF Alive
<1>10. r \in Alive
  BY <1>2 DEF Alive
<1>11. OneRun'
  BY <1>2, <1>3, <1>4, <1>8, <1>9, <1>10 DEF OneRun
<1>12. OneReplacement'
  BY <1>2, <1>3 DEF OneReplacement
<1>13. CurrentLogin'
  BY <1>2, <1>3, <1>4, <1>8 DEF CurrentLogin
<1> QED
  BY <1>7, <1>11, <1>12, <1>13 DEF SupervisorInv

\* A stop and a crash end everything; a start begins with one run.
LEMMA HaltKeeps ==
  ASSUME SupervisorInv, Halt
  PROVE  SupervisorInv'
<1>1. /\ SupervisorTypeOK
      /\ run' = [r \in RunIds |-> "none"] /\ supervised' = NoRun /\ recon' = NoRecon
      /\ proc' = "down" /\ ops' = <<>> /\ step' = "check" /\ recovering' = "no"
      /\ UNCHANGED <<session, login, paused, shutting, setup>>
  BY DEF SupervisorInv, Halt
<1>2. SupervisorTypeOK'
  BY <1>1 DEF SupervisorTypeOK, NoRun
<1>3. OneRun'
  BY <1>1 DEF OneRun, Alive, NoRecon
<1>4. OneReplacement' /\ CurrentLogin'
  BY <1>1 DEF OneReplacement, CurrentLogin
<1> QED
  BY <1>2, <1>3, <1>4 DEF SupervisorInv

LEMMA BootKeeps ==
  ASSUME SupervisorInv, Boot
  PROVE  SupervisorInv'
<1>1. /\ SupervisorTypeOK /\ Alive = {} /\ ops = <<>> /\ step = "check" /\ StartRun
      /\ proc' = "up" /\ shutting' = FALSE
      /\ UNCHANGED <<ops, step, recovering, login, session, setup>>
  BY DEF SupervisorInv, OneRun, Boot, accounts
<1>2. /\ supervised' \in RunIds /\ supervised' \in 0..MaxRuns
      /\ run' = [r \in RunIds |-> IF r = supervised' THEN "starting" ELSE "none"]
      /\ recon'.pc = "sleeping" /\ paused' = FALSE
  BY <1>1, StartRunIs
<1>3. SupervisorTypeOK'
  BY <1>1, <1>2 DEF SupervisorTypeOK
<1>4. OneRun'
  BY <1>1, <1>2 DEF OneRun, Alive
<1>5. OneReplacement' /\ CurrentLogin'
  BY <1>1, <1>2 DEF OneReplacement, CurrentLogin
<1> QED
  BY <1>3, <1>4, <1>5 DEF SupervisorInv

\* What the operations leave alone.
LEMMA ElsewhereIs ==
  ASSUME Elsewhere
  PROVE  UNCHANGED <<session, login, proc, setup>>
BY DEF Elsewhere, process

\* The run is cancelled, and the operation waits for its end.
LEMMA CancelKeeps ==
  ASSUME SupervisorInv, Cancel, Running, ops # <<>>, step = "check",
         paused' \in BOOLEAN, shutting' \in BOOLEAN,
         shutting' => Head(ops).do = "shutdown", Head(ops).do # "resume",
         UNCHANGED <<session, login, proc, setup>>
  PROVE  SupervisorInv'
<1>1. /\ SupervisorTypeOK /\ OneRun /\ OneReplacement /\ CurrentLogin
      /\ run \in [RunIds -> {"none", "starting", "connecting", "connected", "waiting",
                             "cancelled"}]
      /\ supervised \in RunIds /\ run[supervised] # "none"
  BY DEF SupervisorInv, SupervisorTypeOK, Running, NoRun, RunIds
<1>2. /\ run' = [run EXCEPT ![supervised] = "cancelled"]
      /\ cancelled' = supervised /\ supervised' = NoRun /\ step' = "unwinding"
      /\ UNCHANGED <<ops, recon, recovering>>
  BY DEF Cancel
<1>3. /\ run' \in [RunIds -> {"none", "starting", "connecting", "connected", "waiting",
                              "cancelled"}]
      /\ \A q \in RunIds : run'[q] = IF q = supervised THEN "cancelled" ELSE run[q]
  BY <1>1, <1>2
<1>4. SupervisorTypeOK'
  <2>1. UNCHANGED <<ops, recovering, login, session, proc, setup>> /\ supervised' \in 0..MaxRuns
        /\ step' \in {"check", "unwinding", "draining"}
    BY <1>2 DEF NoRun
  <2>2. SupervisorTypeOK
    BY <1>1
  <2> QED
    BY <1>3, <2>1, <2>2 DEF SupervisorTypeOK
<1>5. supervised \in Alive' /\ Alive # {}
  BY <1>1, <1>3 DEF Alive
<1>6. proc = "up"
  BY <1>1, <1>5 DEF OneRun, SupervisorTypeOK
<1>7. OneRun'
  BY <1>1, <1>2, <1>3, <1>5, <1>6 DEF OneRun
<1>8. OneReplacement'
  BY <1>1, <1>2 DEF OneReplacement
<1>9. CurrentLogin'
  BY <1>1, <1>2, <1>3 DEF CurrentLogin
<1> QED
  BY <1>4, <1>7, <1>8, <1>9 DEF SupervisorInv

\* A run is started where none is alive, and the operation returns.
LEMMA StartKeeps ==
  ASSUME SupervisorInv, Alive = {}, StartRun, Return, ops # <<>>, ~shutting, shutting' = shutting,
         proc = "up", UNCHANGED <<session, login, proc, setup>>
  PROVE  SupervisorInv'
<1>1. SupervisorTypeOK /\ OneReplacement
  BY DEF SupervisorInv
<1>2. /\ supervised' \in RunIds /\ supervised' \in 0..MaxRuns
      /\ run' = [r \in RunIds |-> IF r = supervised' THEN "starting" ELSE "none"]
      /\ recon'.pc = "sleeping" /\ paused' = FALSE
  BY <1>1, StartRunIs
<1>3. /\ ops' \in Seq(Operation) /\ step' = "check" /\ OneReplacement'
      /\ recovering' \in {"no", "pausing", "replacing", "reconnecting"}
  BY <1>1, ReturnIs
<1>4. SupervisorTypeOK'
  BY <1>1, <1>2, <1>3 DEF SupervisorTypeOK
<1>5. OneRun'
  BY <1>2, <1>3 DEF OneRun, Alive
<1>6. CurrentLogin'
  BY <1>2 DEF CurrentLogin
<1> QED
  BY <1>3, <1>4, <1>5, <1>6 DEF SupervisorInv

\* An operation that has nothing to start returns.
LEMMA ReturnKeeps ==
  ASSUME SupervisorInv, Return, ops # <<>>, proc = "up",
         UNCHANGED <<run, recon, shutting, session, login, proc, setup>>, ~shutting,
         \/ supervised' = supervised /\ step = "check"
         \/ supervised' = supervised /\ Alive = {}
         \/ supervised' = NoRun /\ Alive = {},
         paused' \in BOOLEAN, paused' => Alive = {},
         Head(ops).do # "reconnect"
  PROVE  SupervisorInv'
<1>1. SupervisorTypeOK /\ OneRun /\ OneReplacement /\ CurrentLogin
  BY DEF SupervisorInv
<1>2. /\ ops' \in Seq(Operation) /\ step' = "check" /\ OneReplacement'
      /\ recovering' \in {"no", "pausing", "replacing", "reconnecting"}
      /\ recovering' = "no" => recovering = "no"
  BY <1>1, ReturnIs
<1>3. supervised' \in 0..MaxRuns
  BY <1>1 DEF SupervisorTypeOK, NoRun
<1>4. SupervisorTypeOK'
  BY <1>1, <1>2, <1>3 DEF SupervisorTypeOK
<1>5. OneRun'
  BY <1>1, <1>2 DEF OneRun, Alive
<1>6. CurrentLogin'
  BY <1>1, <1>2 DEF CurrentLogin
<1> QED
  BY <1>2, <1>4, <1>5, <1>6 DEF SupervisorInv

\* shutdown() goes on to drain the listener.
LEMMA DrainKeeps ==
  ASSUME SupervisorInv, ops # <<>>, step' = "draining", Alive = {}, Head(ops).do = "shutdown",
         shutting' \in BOOLEAN, proc = "up",
         UNCHANGED <<run, recon, paused, ops, recovering, session, login, proc, setup>>,
         supervised' = NoRun \/ supervised' = supervised
  PROVE  SupervisorInv'
<1>1. SupervisorTypeOK /\ OneRun /\ OneReplacement /\ CurrentLogin
  BY DEF SupervisorInv
<1>2. supervised' \in 0..MaxRuns
  BY <1>1 DEF SupervisorTypeOK, NoRun
<1>3. SupervisorTypeOK'
  BY <1>1, <1>2 DEF SupervisorTypeOK
<1>4. OneRun'
  BY <1>1 DEF OneRun, Alive
<1>5. OneReplacement' /\ CurrentLogin'
  BY <1>1 DEF OneReplacement, CurrentLogin
<1> QED
  BY <1>3, <1>4, <1>5 DEF SupervisorInv

\* A request waits for the lock.
LEMMA WaitingKeeps ==
  ASSUME SupervisorInv, NEW op \in Operation, ops' = Append(ops, op), proc = "up",
         UNCHANGED <<run, recon, supervised, paused, shutting, step, cancelled, session, proc,
                     setup>>,
         login' \in {login, login + 1}, login' # login => recovering' # "no",
         \/ op.by = "user" /\ recovering' = recovering
         \/ /\ op.by = "recovery" /\ recovering \in {"no", "replacing"}
            /\ \/ recovering' = "pausing" /\ op.do = "pause"
               \/ recovering' = "reconnecting" /\ op.do = "reconnect"
  PROVE  SupervisorInv'
<1>1. SupervisorTypeOK /\ OneRun /\ OneReplacement /\ CurrentLogin
  BY DEF SupervisorInv
<1>2. /\ ops' \in Seq(Operation) /\ ops' # <<>> /\ OneReplacement'
      /\ recovering' \in {"no", "pausing", "replacing", "reconnecting"}
      /\ ops # <<>> => Head(ops') = Head(ops)
      /\ recovering' = "no" => recovering = "no"
  BY <1>1, RequestIs
<1>3. login' \in Nat /\ session' \in 0..login'
  BY <1>1 DEF SupervisorTypeOK
<1>4. SupervisorTypeOK'
  BY <1>1, <1>2, <1>3 DEF SupervisorTypeOK
<1>5. OneRun'
  BY <1>1, <1>2 DEF OneRun, Alive
<1>6. CurrentLogin'
  BY <1>1, <1>2 DEF CurrentLogin
<1> QED
  BY <1>2, <1>4, <1>5, <1>6 DEF SupervisorInv

LEMMA SupervisingKeeps ==
  ASSUME SupervisorInv, Supervising
  PROVE  SupervisorInv'
<1>1. /\ SupervisorTypeOK /\ OneRun /\ OneReplacement /\ CurrentLogin
      /\ paused \in BOOLEAN /\ shutting \in BOOLEAN /\ TRUE \in BOOLEAN
      /\ step \in {"check", "unwinding", "draining"} /\ proc \in {"up", "down"}
  BY DEF SupervisorInv, SupervisorTypeOK
<1>2. /\ step # "check" => ops # <<>>
      /\ ops # <<>> => proc = "up"
      /\ shutting /\ proc = "up" => step # "check" /\ Head(ops).do = "shutdown"
      /\ paused /\ proc = "up" /\ step = "check" => Alive = {}
  BY <1>1 DEF OneRun
<1>3. step = "check" /\ ~Running => Alive = {}
  BY <1>1 DEF OneRun, Running, Alive, NoRun, RunIds
<1>4. ASSUME NEW do \in {"pause", "resume", "reconnect", "shutdown"}, UserRequest(do)
      PROVE  SupervisorInv'
  <2> DEFINE op == [do |-> do, by |-> "user"]
  <2>1. op \in Operation /\ op.by = "user"
    BY DEF Operation
  <2>2. /\ proc = "up" /\ ops' = Append(ops, op) /\ recovering' = recovering
        /\ UNCHANGED <<run, recon, supervised, paused, shutting, step, cancelled, session,
                       proc, setup, login>>
    BY <1>4 DEF UserRequest, Request, intake, listener, process
  <2> HIDE DEF op
  <2> QED
    BY <2>1, <2>2, WaitingKeeps
<1>5. CASE Recover
  <2> DEFINE op == [do |-> "pause", by |-> "recovery"]
  <2>1. op \in Operation /\ op.by = "recovery" /\ op.do = "pause"
    BY DEF Operation
  <2>2. /\ proc = "up" /\ ops' = Append(ops, op) /\ recovering = "no"
        /\ recovering' = "pausing"
        /\ UNCHANGED <<run, recon, supervised, paused, shutting, step, cancelled, session,
                       proc, setup, login>>
    BY <1>5 DEF Recover, Request, intake, listener, process
  <2> HIDE DEF op
  <2> QED
    BY <2>1, <2>2, WaitingKeeps
<1>6. CASE Replace
  <2> DEFINE op == [do |-> "reconnect", by |-> "recovery"]
  <2>1. op \in Operation /\ op.by = "recovery" /\ op.do = "reconnect"
    BY DEF Operation
  <2>2. /\ ops' = Append(ops, op) /\ recovering = "replacing"
        /\ recovering' = "reconnecting" /\ login' = login + 1
        /\ UNCHANGED <<run, recon, supervised, paused, shutting, step, cancelled, session,
                       proc, setup>>
    BY <1>6 DEF Replace, intake, listener, process
  <2>3. proc = "up"
    BY <1>1, <2>2 DEF OneRun
  <2> HIDE DEF op
  <2> QED
    BY <2>1, <2>2, <2>3, WaitingKeeps
<1>7. CASE Resume
  <2>1. /\ ops # <<>> /\ step = "check" /\ Head(ops).do = "resume" /\ Return
        /\ UNCHANGED <<session, login, proc, setup, shutting>>
    BY <1>7, ElsewhereIs DEF Resume, Turn
  <2>2. proc = "up" /\ ~shutting
    BY <1>1, <1>2, <2>1
  <2>3. CASE Running
    <3>1. UNCHANGED <<run, supervised, recon, paused>>
      BY <1>7, <2>3 DEF Resume
    <3> QED
      BY <1>1, <1>2, <2>1, <2>2, <3>1, ReturnKeeps
  <2>4. CASE ~Running
    <3>1. StartRun
      BY <1>7, <2>2, <2>4 DEF Resume
    <3> QED
      BY <1>1, <1>3, <2>1, <2>2, <2>4, <3>1, StartKeeps
  <2> QED
    BY <2>3, <2>4
<1>8. CASE Pause
  <2>1. /\ ops # <<>> /\ step = "check" /\ Head(ops).do = "pause" /\ paused' = TRUE
        /\ UNCHANGED <<session, login, proc, setup, shutting>>
    BY <1>8, ElsewhereIs DEF Pause, Turn
  <2>2. proc = "up" /\ ~shutting
    BY <1>1, <1>2, <2>1
  <2>3. CASE Running
    <3>1. Cancel
      BY <1>8, <2>3 DEF Pause
    <3> QED
      BY <1>1, <2>1, <2>2, <2>3, <3>1, CancelKeeps
  <2>4. CASE ~Running
    <3>1. supervised' = NoRun /\ Return /\ UNCHANGED <<run, recon>>
      BY <1>8, <2>4 DEF Pause
    <3> QED
      BY <1>1, <1>3, <2>1, <2>2, <2>4, <3>1, ReturnKeeps
  <2> QED
    BY <2>3, <2>4
<1>9. CASE Reconnect
  <2>1. /\ ops # <<>> /\ step = "check" /\ Head(ops).do = "reconnect"
        /\ UNCHANGED <<session, login, proc, setup, shutting>>
    BY <1>9, ElsewhereIs DEF Reconnect, Turn
  <2>2. proc = "up" /\ ~shutting
    BY <1>1, <1>2, <2>1
  <2>3. CASE Running
    <3>1. Cancel /\ UNCHANGED paused
      BY <1>9, <2>2, <2>3 DEF Reconnect
    <3> QED
      BY <1>1, <2>1, <2>2, <2>3, <3>1, CancelKeeps
  <2>4. CASE ~Running
    <3>1. StartRun /\ Return
      BY <1>9, <2>2, <2>4 DEF Reconnect
    <3> QED
      BY <1>1, <1>3, <2>1, <2>2, <2>4, <3>1, StartKeeps
  <2> QED
    BY <2>3, <2>4
<1>10. CASE Shutdown
  <2>1. /\ ops # <<>> /\ step = "check" /\ Head(ops).do = "shutdown" /\ shutting' = TRUE
        /\ UNCHANGED <<session, login, proc, setup, paused>>
    BY <1>10, ElsewhereIs DEF Shutdown, Turn
  <2>2. proc = "up"
    BY <1>2, <2>1
  <2>3. CASE Running
    <3>1. Cancel
      BY <1>10, <2>3 DEF Shutdown
    <3> QED
      BY <1>1, <2>1, <2>3, <3>1, CancelKeeps
  <2>4. CASE ~Running
    <3>1. /\ supervised' = NoRun /\ step' = "draining"
          /\ UNCHANGED <<run, recon, ops, cancelled, recovering>>
      BY <1>10, <2>4 DEF Shutdown
    <3> QED
      BY <1>1, <1>3, <2>1, <2>2, <2>4, <3>1, DrainKeeps
  <2> QED
    BY <2>3, <2>4
<1>11. CASE Unwound
  <2>1. /\ step = "unwinding" /\ run[cancelled] = "none"
        /\ UNCHANGED <<session, login, proc, setup, shutting>>
    BY <1>11, ElsewhereIs DEF Unwound
  <2>2. ops # <<>> /\ proc = "up" /\ supervised = NoRun
    BY <1>1, <1>2, <2>1 DEF OneRun
  <2>3. Alive = {}
    BY <1>1, <2>1, <2>2 DEF OneRun, Alive, NoRun, RunIds
  <2>4. Head(ops).do \in {"pause", "resume", "reconnect", "shutdown"}
    <3>1. Head(ops) \in Operation
      BY <1>1, <2>2 DEF SupervisorTypeOK
    <3> QED
      BY <3>1 DEF Operation
  <2>5. CASE Head(ops).do = "reconnect"
    <3>1. StartRun /\ Return
      BY <1>11, <2>5 DEF Unwound
    <3>2. ~shutting
      BY <1>1, <1>2, <2>2, <2>5
    <3> QED
      BY <2>1, <2>2, <2>3, <3>1, <3>2, StartKeeps
  <2>6. CASE Head(ops).do = "pause"
    <3>1. Return /\ UNCHANGED <<run, supervised, recon, paused>>
      BY <1>11, <2>6 DEF Unwound
    <3>2. ~shutting
      BY <1>1, <1>2, <2>2, <2>6
    <3> QED
      BY <1>1, <2>1, <2>2, <2>3, <2>6, <3>1, <3>2, ReturnKeeps
  <2>7. CASE Head(ops).do = "shutdown"
    <3>1. /\ step' = "draining"
          /\ UNCHANGED <<run, supervised, recon, paused, ops, cancelled, recovering>>
      BY <1>11, <2>7 DEF Unwound
    <3> QED
      BY <1>1, <2>1, <2>2, <2>3, <2>7, <3>1, DrainKeeps
  <2> QED
    BY <1>1, <2>1, <2>4, <2>5, <2>6, <2>7 DEF OneRun
<1> QED
  BY <1>4, <1>5, <1>6, <1>7, <1>8, <1>9, <1>10, <1>11 DEF Supervising

-----------------------------------------------------------------------------
(* Messages on their way and in the database.                              *)

LEMMA SetupType ==
  ASSUME NEW s \in Setups
  PROVE  s.messages \in Nat /\ s.messages <= MaxMessages
<1>1. s \in [user : SUBSET {"pause", "resume", "reconnect", "recover", "shutdown", "delete",
                            "restore"},
             answers : SUBSET {"repeat", "newest", "history"}, images : SUBSET Images,
             trouble : BOOLEAN, messages : 0..MaxMessages, imports : Nat,
             requests : Nat, logins : Nat, restarts : Nat]
  BY IntakeAssumption, Zenon
<1>2. s.messages \in 0..MaxMessages
  BY <1>1
<1> QED
  BY <1>2

LEMMA WrittenType ==
  ASSUME FlowTypeOK
  PROVE  written \in Nat /\ written <= MaxMessages /\ 1..written \subseteq MessageIds
<1>1. setup.messages \in Nat /\ setup.messages <= MaxMessages
  BY SetupType DEF FlowTypeOK
<1> QED
  BY <1>1 DEF FlowTypeOK, MessageIds

\* What InOrder lists of a set are sequences of its members.
LEMMA InOrderSeq ==
  ASSUME NEW n \in Nat, NEW S \in SUBSET (1..n), NEW s \in InOrder(S)
  PROVE  s \in Seq(S) /\ s \in Seq(1..n)
<1>1. Cardinality(S) \in Nat
  <2>1. IsFiniteSet(1..n)
    BY FS_Interval
  <2>2. IsFiniteSet(S)
    BY <2>1, FS_Subset
  <2> QED
    BY <2>2, FS_CardinalityType
<1>2. s \in [1..Cardinality(S) -> S]
  BY DEF InOrder
<1>3. s \in Seq(S) /\ Len(s) = Cardinality(S)
  BY <1>1, <1>2
<1>4. \A i \in 1..Len(s) : s[i] \in 1..n
  BY <1>2, <1>3
<1> QED
  BY <1>3, <1>4

\* A sequence of the messages so far is one when there are more.
LEMMA SeqGrows ==
  ASSUME NEW n \in Nat, NEW s \in Seq(1..n)
  PROVE  s \in Seq(1..(n + 1))
<1>1. \A i \in 1..Len(s) : s[i] \in 1..(n + 1)
  OBVIOUS
<1> QED
  BY <1>1

\* Rows are added behind the others, live ones only after what is stored live.
LEMMA RowsGrow ==
  ASSUME RowsInOrder, written \in Nat, written <= MaxMessages, UNCHANGED written,
         rows \in Seq(1..written), rows' \in Seq(1..written),
         stored \in [MessageIds -> {"none", "live", "reconcile", "history"}],
         Len(rows) <= Len(rows'), \A i \in 1..Len(rows) : rows'[i] = rows[i],
         \A m \in MessageIds : stored[m] # "none" => stored'[m] = stored[m],
         \A m \in MessageIds : stored'[m] # "none" => m <= written',
         \A j \in 1..Len(rows') : j > Len(rows) =>
            /\ stored'[rows'[j]] # "none"
            /\ stored'[rows'[j]] = "live" =>
                  /\ j = Len(rows) + 1 /\ j = Len(rows')
                  /\ \A i \in 1..Len(rows) : stored[rows[i]] = "live" => rows[i] <= rows'[j]
  PROVE  RowsInOrder'
<1>1. Len(rows) \in Nat /\ Len(rows') \in Nat
  OBVIOUS
<1>2. \A i \in 1..Len(rows) : /\ rows[i] \in MessageIds /\ stored[rows[i]] # "none"
                              /\ stored'[rows[i]] = stored[rows[i]]
  <2>1. \A i \in 1..Len(rows) : rows[i] \in MessageIds
    BY DEF MessageIds
  <2> QED
    BY <2>1 DEF RowsInOrder
<1>3. ASSUME NEW i \in 1..Len(rows')
      PROVE  stored'[rows'[i]] # "none"
  <2>1. CASE i \in 1..Len(rows)
    BY <1>2, <2>1
  <2>2. CASE i > Len(rows)
    BY <2>2
  <2> QED
    BY <1>1, <2>1, <2>2
<1>4. ASSUME NEW i \in 1..Len(rows'), NEW j \in 1..Len(rows'), i < j,
             stored'[rows'[i]] = "live", stored'[rows'[j]] = "live"
      PROVE  rows'[i] <= rows'[j]
  <2>1. i \in 1..Len(rows)
    BY <1>1, <1>4
  <2>2. rows'[i] = rows[i] /\ stored[rows[i]] = "live"
    BY <1>2, <1>4, <2>1
  <2>3. CASE j \in 1..Len(rows)
    <3>1. rows'[j] = rows[j] /\ stored[rows[j]] = "live"
      BY <1>2, <1>4, <2>3
    <3> QED
      BY <1>4, <2>1, <2>2, <2>3, <3>1 DEF RowsInOrder
  <2>4. CASE j > Len(rows)
    BY <1>4, <2>1, <2>2, <2>4
  <2> QED
    BY <1>1, <2>3, <2>4
<1> QED
  BY <1>3, <1>4 DEF RowsInOrder

\* The messages of a set are merged as context.
LEMMA MergeKeeps ==
  ASSUME FlowInv, NEW messages \in SUBSET (1..written), NEW imported,
         Merge(messages, imported), UNCHANGED <<tasks, wire, written>>
  PROVE  /\ rows' \in Seq(1..written)
         /\ stored' \in [MessageIds -> {"none", "live", "reconcile", "history"}]
         /\ OnTheWay' /\ RowsInOrder'
<1>1. /\ FlowTypeOK /\ OnTheWay /\ RowsInOrder
      /\ written \in Nat /\ written <= MaxMessages /\ 1..written \subseteq MessageIds
      /\ rows \in Seq(1..written)
      /\ stored \in [MessageIds -> {"none", "live", "reconcile", "history"}]
  BY WrittenType DEF FlowInv, FlowTypeOK
<1>2. PICK new \in InOrder(New(messages)) : rows' = rows \o new
  BY DEF Merge
<1>3. New(messages) \in SUBSET (1..written) /\ \A k \in New(messages) : stored[k] = "none"
  BY DEF New
<1>4. new \in Seq(New(messages)) /\ new \in Seq(1..written)
  BY <1>1, <1>2, <1>3, InOrderSeq
<1>5. stored' = [k \in MessageIds |-> IF k \in New(messages) THEN "history" ELSE stored[k]]
  BY DEF Merge
<1>6. /\ rows' \in Seq(1..written) /\ Len(rows) \in Nat /\ Len(new) \in Nat
      /\ Len(rows') = Len(rows) + Len(new)
      /\ \A i \in 1..Len(rows) : rows'[i] = rows[i]
  BY <1>1, <1>2, <1>4
<1>7. \A j \in 1..Len(rows') : j > Len(rows) => rows'[j] \in New(messages)
  <2> SUFFICES ASSUME NEW j \in 1..Len(rows'), j > Len(rows)
               PROVE  rows'[j] \in New(messages)
    OBVIOUS
  <2>1. j - Len(rows) \in 1..Len(new)
    BY <1>6
  <2>2. rows'[j] = new[j - Len(rows)]
    BY <1>1, <1>2, <1>4, <2>1
  <2> QED
    BY <1>4, <2>1, <2>2
<1>8. stored' \in [MessageIds -> {"none", "live", "reconcile", "history"}]
  BY <1>1, <1>5
<1>9. /\ \A m \in MessageIds : stored[m] # "none" => stored'[m] = stored[m]
      /\ \A m \in MessageIds : stored'[m] = "live" => stored[m] = "live"
      /\ \A m \in MessageIds : stored'[m] # "none" => m <= written'
  <2>1. \A m \in MessageIds : stored[m] # "none" => m <= written
    BY <1>1 DEF RowsInOrder
  <2> QED
    BY <1>1, <1>3, <1>5, <2>1
<1>10. \A j \in 1..Len(rows') : j > Len(rows) =>
            /\ stored'[rows'[j]] # "none"
            /\ stored'[rows'[j]] = "live" =>
                  /\ j = Len(rows) + 1 /\ j = Len(rows')
                  /\ \A i \in 1..Len(rows) : stored[rows[i]] = "live" => rows[i] <= rows'[j]
  <2>1. \A k \in New(messages) : stored'[k] = "history"
    BY <1>1, <1>3, <1>5
  <2> QED
    BY <1>7, <2>1
<1>11. RowsInOrder'
  <2>1. Len(rows) <= Len(rows')
    BY <1>6
  <2> QED
    BY <1>1, <1>6, <1>9, <1>10, <2>1, RowsGrow
<1>12. OnTheWay'
  BY <1>1, <1>9 DEF OnTheWay
<1> QED
  BY <1>6, <1>8, <1>11, <1>12

\* A message is ingested.
LEMMA IngestKeeps ==
  ASSUME FlowInv, NEW m \in 1..written, NEW source \in {"live", "reconcile"},
         Ingest(m, source), UNCHANGED written,
         source = "live" => \A k \in MessageIds : stored[k] = "live" => k <= m
  PROVE  /\ rows' \in Seq(1..written)
         /\ stored' \in [MessageIds -> {"none", "live", "reconcile", "history"}]
         /\ \A k \in MessageIds :
               stored'[k] = "live" => stored[k] = "live" \/ (source = "live" /\ k = m)
         /\ RowsInOrder'
<1>1. /\ FlowTypeOK /\ OnTheWay /\ RowsInOrder
      /\ written \in Nat /\ written <= MaxMessages /\ 1..written \subseteq MessageIds
      /\ rows \in Seq(1..written)
      /\ stored \in [MessageIds -> {"none", "live", "reconcile", "history"}]
  BY WrittenType DEF FlowInv, FlowTypeOK
<1>2. CASE stored[m] # "none"
  <2>1. stored' = stored /\ rows' = rows
    BY <1>2 DEF Ingest
  <2>2. RowsInOrder'
    BY <1>1, <2>1 DEF RowsInOrder
  <2> QED
    BY <1>1, <2>1, <2>2
<1>3. CASE stored[m] = "none"
  <2>1. stored' = [stored EXCEPT ![m] = source] /\ rows' = Append(rows, m)
    BY <1>3 DEF Ingest
  <2>2. /\ m \in MessageIds
        /\ stored' \in [MessageIds -> {"none", "live", "reconcile", "history"}]
        /\ \A k \in MessageIds : stored'[k] = IF k = m THEN source ELSE stored[k]
    BY <1>1, <2>1
  <2>3. /\ rows' \in Seq(1..written) /\ Len(rows) \in Nat /\ Len(rows') = Len(rows) + 1
        /\ \A i \in 1..Len(rows) : rows'[i] = rows[i]
        /\ rows'[Len(rows) + 1] = m
    BY <1>1, <2>1
  <2>4. \A k \in MessageIds : stored'[k] # "none" => k <= written'
    BY <1>1, <2>2 DEF RowsInOrder
  <2>5. \A i \in 1..Len(rows) : rows[i] \in MessageIds
    BY <1>1
  <2>6. \A j \in 1..Len(rows') : j > Len(rows) =>
            /\ stored'[rows'[j]] # "none"
            /\ stored'[rows'[j]] = "live" =>
                  /\ j = Len(rows) + 1 /\ j = Len(rows')
                  /\ \A i \in 1..Len(rows) : stored[rows[i]] = "live" => rows[i] <= rows'[j]
    <3> SUFFICES ASSUME NEW j \in 1..Len(rows'), j > Len(rows)
                 PROVE  /\ stored'[rows'[j]] # "none"
                        /\ stored'[rows'[j]] = "live" =>
                              /\ j = Len(rows) + 1 /\ j = Len(rows')
                              /\ \A i \in 1..Len(rows) :
                                    stored[rows[i]] = "live" => rows[i] <= rows'[j]
      OBVIOUS
    <3>1. j = Len(rows) + 1 /\ j = Len(rows') /\ rows'[j] = m
      BY <2>3
    <3>2. stored'[m] = source
      BY <2>2
    <3> QED
      BY <2>5, <3>1, <3>2
  <2>7. RowsInOrder'
    <3>1. \A k \in MessageIds : stored[k] # "none" => stored'[k] = stored[k]
      BY <1>3, <2>2
    <3>2. Len(rows) <= Len(rows')
      BY <2>3
    <3> QED
      BY <1>1, <2>3, <2>4, <2>6, <3>1, <3>2, RowsGrow
  <2> QED
    BY <2>2, <2>3, <2>7
<1> QED
  BY <1>2, <1>3

\* A step that stores nothing, and loses what is on its way or leaves it alone.
LEMMA QuietKeeps ==
  ASSUME FlowInv, UNCHANGED <<written, stored, rows, setup>>, aged' \in 0..written,
         tasks' \in {tasks, <<>>}, wire' \in {wire, <<>>},
         announcing' \subseteq 1..written, hydrations' \subseteq HydrationsAt(written),
         recon' \in ReconAt(written)
  PROVE  FlowInv'
<1>1. FlowTypeOK /\ OnTheWay /\ RowsInOrder
  BY DEF FlowInv
<1>2. tasks' \in Seq(1..written) /\ wire' \in Seq(1..written)
  <2>1. tasks \in Seq(1..written) /\ wire \in Seq(1..written)
    BY <1>1 DEF FlowTypeOK
  <2>2. <<>> \in Seq(1..written)
    OBVIOUS
  <2> QED
    BY <2>1, <2>2
<1>3. FlowTypeOK'
  BY <1>1, <1>2 DEF FlowTypeOK
<1>4. /\ \A i \in 1..Len(tasks') : i \in 1..Len(tasks) /\ tasks'[i] = tasks[i]
      /\ \A i \in 1..Len(wire') : i \in 1..Len(wire) /\ wire'[i] = wire[i]
  OBVIOUS
<1>5. OnTheWay'
  BY <1>1, <1>4 DEF OnTheWay, Ascending, Above
<1>6. RowsInOrder'
  BY <1>1 DEF RowsInOrder
<1> QED
  BY <1>3, <1>5, <1>6 DEF FlowInv

LEMMA ReconTypes ==
  ASSUME NEW n \in Nat
  PROVE  NoRecon \in ReconAt(n) /\ NewRecon \in ReconAt(n)
<1>1. <<>> \in Seq(1..n)
  OBVIOUS
<1>2. NoRecon \in ReconAt(n)
  BY <1>1 DEF NoRecon, ReconAt
<1>3. NewRecon = [pc |-> "sleeping", batch |-> <<>>, of |-> 0]
  BY DEF NewRecon, NoRecon
<1> QED
  BY <1>1, <1>2, <1>3 DEF ReconAt

LEMMA WriteKeeps ==
  ASSUME FlowInv, Write
  PROVE  FlowInv'
<1>1. /\ FlowTypeOK /\ OnTheWay /\ RowsInOrder /\ written \in Nat
      /\ wire \in Seq(1..written) /\ tasks \in Seq(1..written) /\ rows \in Seq(1..written)
  BY WrittenType DEF FlowInv, FlowTypeOK
<1>2. /\ written' = written + 1 /\ written < setup.messages
      /\ wire' \in {wire, Append(wire, written + 1), wire \o <<written + 1, written + 1>>}
      /\ UNCHANGED <<aged, stored, rows, tasks, announcing, hydrations, recon, setup>>
  BY DEF Write, database, intake, process
<1>3. /\ Len(wire) \in Nat /\ wire' \in Seq(1..(written + 1))
      /\ Len(wire') \in Nat
      /\ \A i \in 1..Len(wire') : \/ i \in 1..Len(wire) /\ wire'[i] = wire[i]
                                  \/ i > Len(wire) /\ wire'[i] = written + 1
  <2>1. wire \in Seq(1..(written + 1)) /\ written + 1 \in 1..(written + 1)
    BY <1>1, SeqGrows
  <2>2. CASE wire' = wire
    BY <1>1, <2>1, <2>2
  <2>3. CASE wire' = Append(wire, written + 1)
    BY <1>1, <2>1, <2>3
  <2>4. CASE wire' = wire \o <<written + 1, written + 1>>
    <3>1. <<written + 1, written + 1>> \in Seq(1..(written + 1))
      BY <2>1
    <3> DEFINE twice == <<written + 1, written + 1>>
    <3>2. /\ Len(twice) = 2 /\ twice[1] = written + 1 /\ twice[2] = written + 1
      OBVIOUS
    <3> HIDE DEF twice
    <3>3. /\ wire' \in Seq(1..(written + 1)) /\ Len(wire') = Len(wire) + 2
          /\ Len(wire) \in Nat
          /\ \A i \in 1..Len(wire) : wire'[i] = wire[i]
          /\ wire'[Len(wire) + 1] = twice[1] /\ wire'[Len(wire) + 2] = twice[2]
      BY <2>1, <2>4, <3>1, <3>2 DEF twice
    <3>4. \A i \in 1..Len(wire') : i \in 1..Len(wire) \/ i = Len(wire) + 1 \/ i = Len(wire) + 2
      BY <3>3
    <3> QED
      BY <3>2, <3>3, <3>4
  <2> QED
    BY <1>2, <2>2, <2>3, <2>4
<1>4. rows' \in Seq(1..(written + 1)) /\ tasks' \in Seq(1..(written + 1))
  BY <1>1, <1>2, SeqGrows
<1>5. recon' \in ReconAt(written + 1)
  <2>1. \A s \in Seq(1..written) : s \in Seq(1..(written + 1))
    BY <1>1, SeqGrows
  <2>2. recon \in ReconAt(written)
    BY <1>1 DEF FlowTypeOK
  <2> QED
    BY <1>1, <1>2, <2>1, <2>2 DEF ReconAt
<1>6. announcing' \subseteq 1..(written + 1) /\ hydrations' \subseteq HydrationsAt(written + 1)
  <2>1. announcing \subseteq 1..written /\ hydrations \subseteq HydrationsAt(written)
    BY <1>1 DEF FlowTypeOK
  <2>2. HydrationsAt(written) \subseteq HydrationsAt(written + 1)
    BY <1>1 DEF HydrationsAt
  <2> QED
    BY <1>1, <1>2, <2>1, <2>2
<1>7. /\ setup' \in Setups /\ written' \in 0..setup'.messages /\ aged' \in 0..written'
      /\ stored' \in [MessageIds -> {"none", "live", "reconcile", "history"}]
  <2>1. setup \in Setups /\ setup.messages \in Nat /\ aged \in 0..written
    BY <1>1, SetupType DEF FlowTypeOK
  <2>2. stored \in [MessageIds -> {"none", "live", "reconcile", "history"}]
    BY <1>1 DEF FlowTypeOK
  <2> QED
    BY <1>1, <1>2, <2>1, <2>2
<1>8. FlowTypeOK'
  BY <1>2, <1>3, <1>4, <1>5, <1>6, <1>7 DEF FlowTypeOK
<1>9. \A m \in MessageIds : stored[m] # "none" => m <= written
  BY <1>1 DEF RowsInOrder
<1>10. RowsInOrder'
  BY <1>1, <1>2, <1>9 DEF RowsInOrder, MessageIds
<1>11. Ascending(wire)'
  <2> SUFFICES ASSUME NEW i \in 1..Len(wire'), NEW j \in 1..Len(wire'), i < j
               PROVE  wire'[i] <= wire'[j]
    BY DEF Ascending
  <2>1. i \in 1..Len(wire) => wire[i] \in 1..written
    BY <1>1
  <2>2. Ascending(wire)
    BY <1>1 DEF OnTheWay
  <2>3. i \in 1..Len(wire) /\ j \in 1..Len(wire) => wire[i] <= wire[j]
    BY <2>2 DEF Ascending
  <2>4. /\ \/ i \in 1..Len(wire) /\ wire'[i] = wire[i]
           \/ i > Len(wire) /\ wire'[i] = written + 1
        /\ \/ j \in 1..Len(wire) /\ wire'[j] = wire[j]
           \/ j > Len(wire) /\ wire'[j] = written + 1
    BY <1>3
  <2>5. Len(wire) \in Nat /\ i \in Nat /\ j \in Nat
    BY <1>3
  <2> QED
    BY <1>1, <2>1, <2>3, <2>4, <2>5
<1>12. ASSUME NEW n \in Int, n <= written, Above(n, wire)
       PROVE  Above(n, wire')
  <2> SUFFICES ASSUME NEW i \in 1..Len(wire') PROVE n <= wire'[i]
    BY DEF Above
  <2>1. \/ i \in 1..Len(wire) /\ wire'[i] = wire[i]
        \/ i > Len(wire) /\ wire'[i] = written + 1
    BY <1>3
  <2>2. i \in 1..Len(wire) => n <= wire[i]
    BY <1>12 DEF Above
  <2> QED
    BY <1>1, <1>12, <2>1, <2>2
<1>13. \A i \in 1..Len(tasks) : tasks[i] \in Int /\ tasks[i] <= written /\ Above(tasks[i], wire)
  BY <1>1 DEF OnTheWay
<1>14. \A m \in MessageIds : stored[m] = "live" =>
          m \in Int /\ m <= written /\ Above(m, tasks) /\ Above(m, wire)
  BY <1>1, <1>9 DEF OnTheWay, MessageIds
<1>15. OnTheWay'
  <2>1. tasks' = tasks /\ stored' = stored /\ Ascending(tasks)
    BY <1>1, <1>2 DEF OnTheWay
  <2>2. \A i \in 1..Len(tasks) : Above(tasks[i], wire')
    BY <1>12, <1>13
  <2>3. \A m \in MessageIds : stored[m] = "live" => Above(m, tasks) /\ Above(m, wire')
    BY <1>12, <1>14
  <2> QED
    BY <1>11, <2>1, <2>2, <2>3 DEF OnTheWay
<1> QED
  BY <1>8, <1>10, <1>15 DEF FlowInv

LEMMA ReceiveKeeps ==
  ASSUME FlowInv, Receive
  PROVE  FlowInv'
<1>1. /\ FlowTypeOK /\ OnTheWay /\ RowsInOrder /\ written \in Nat
      /\ wire \in Seq(1..written) /\ tasks \in Seq(1..written)
  BY WrittenType DEF FlowInv, FlowTypeOK
<1>2. /\ wire # <<>> /\ tasks' = Append(tasks, Head(wire)) /\ wire' = Tail(wire)
      /\ UNCHANGED <<written, aged, stored, rows, announcing, hydrations, recon, setup>>
  BY DEF Receive, platform, database, process
<1>3. /\ wire' \in Seq(1..written) /\ Len(wire) \in Nat \ {0} /\ Len(wire') = Len(wire) - 1
      /\ \A i \in 1..Len(wire') : wire'[i] = wire[i + 1]
      /\ Head(wire) = wire[1] /\ wire[1] \in 1..written
  BY <1>1, <1>2
<1>4. /\ tasks' \in Seq(1..written) /\ Len(tasks) \in Nat /\ Len(tasks') = Len(tasks) + 1
      /\ \A i \in 1..Len(tasks) : tasks'[i] = tasks[i]
      /\ tasks'[Len(tasks) + 1] = wire[1]
  BY <1>1, <1>2, <1>3
<1>5. FlowTypeOK'
  BY <1>1, <1>2, <1>3, <1>4 DEF FlowTypeOK
<1>6. RowsInOrder'
  BY <1>1, <1>2 DEF RowsInOrder
<1>7. /\ Ascending(tasks) /\ Ascending(wire)
      /\ \A i \in 1..Len(tasks) : Above(tasks[i], wire)
      /\ \A m \in MessageIds : stored[m] = "live" => Above(m, tasks) /\ Above(m, wire)
  BY <1>1 DEF OnTheWay
<1>8. \A i \in 1..Len(wire') : i + 1 \in 1..Len(wire) /\ 1 \in 1..Len(wire) /\ wire[1] <= wire[i + 1]
  BY <1>3, <1>7 DEF Ascending
<1>9. Ascending(wire)'
  <2> SUFFICES ASSUME NEW i \in 1..Len(wire'), NEW j \in 1..Len(wire'), i < j
               PROVE  wire'[i] <= wire'[j]
    BY DEF Ascending
  <2>1. i + 1 \in 1..Len(wire) /\ j + 1 \in 1..Len(wire) /\ i + 1 < j + 1
    BY <1>3
  <2>2. wire[i + 1] <= wire[j + 1]
    BY <1>7, <2>1 DEF Ascending
  <2> QED
    BY <1>3, <2>2
<1>10. \A i \in 1..Len(tasks') : i \in 1..Len(tasks) \/ i = Len(tasks) + 1
  BY <1>4
<1>11. Ascending(tasks)'
  <2> SUFFICES ASSUME NEW i \in 1..Len(tasks'), NEW j \in 1..Len(tasks'), i < j
               PROVE  tasks'[i] <= tasks'[j]
    BY DEF Ascending
  <2>1. i \in 1..Len(tasks)
    BY <1>4
  <2>2. CASE j \in 1..Len(tasks)
    <3>1. tasks[i] <= tasks[j]
      BY <1>7, <2>1, <2>2 DEF Ascending
    <3> QED
      BY <1>4, <2>1, <2>2, <3>1
  <2>3. CASE j = Len(tasks) + 1
    <3>1. tasks[i] <= wire[1] /\ 1 \in 1..Len(wire)
      BY <1>3, <1>7, <2>1 DEF Above
    <3> QED
      BY <1>4, <2>1, <2>3, <3>1
  <2> QED
    BY <1>10, <2>2, <2>3
<1>12. ASSUME NEW n, Above(n, wire)
       PROVE  Above(n, wire') /\ n <= wire[1]
  BY <1>3, <1>12 DEF Above
<1>13. Above(wire[1], wire')
  BY <1>3, <1>8 DEF Above
<1>14. \A i \in 1..Len(tasks') : Above(tasks'[i], wire')
  BY <1>4, <1>7, <1>10, <1>12, <1>13
<1>15. ASSUME NEW m \in MessageIds, stored[m] = "live"
       PROVE  Above(m, tasks') /\ Above(m, wire')
  <2>1. Above(m, tasks) /\ Above(m, wire') /\ m <= wire[1]
    BY <1>7, <1>12, <1>15
  <2> QED
    BY <1>4, <1>10, <2>1 DEF Above
<1>16. OnTheWay'
  BY <1>2, <1>9, <1>11, <1>14, <1>15 DEF OnTheWay
<1> QED
  BY <1>5, <1>6, <1>16 DEF FlowInv

LEMMA ProcessKeeps ==
  ASSUME FlowInv, Process
  PROVE  FlowInv'
<1>1. /\ FlowTypeOK /\ OnTheWay /\ RowsInOrder /\ written \in Nat
      /\ tasks \in Seq(1..written) /\ wire \in Seq(1..written) /\ announcing \subseteq 1..written
  BY WrittenType DEF FlowInv, FlowTypeOK
<1> DEFINE m == tasks[1]
<1>2. /\ tasks # <<>> /\ Ingest(Head(tasks), "live") /\ tasks' = Tail(tasks)
      /\ announcing' \subseteq announcing \cup {Head(tasks)}
      /\ UNCHANGED <<written, aged, wire, hydrations, recon, setup>>
  BY DEF Process, platform, listener, process
<1>3. /\ tasks' \in Seq(1..written) /\ Len(tasks) \in Nat \ {0} /\ Len(tasks') = Len(tasks) - 1
      /\ \A i \in 1..Len(tasks') : tasks'[i] = tasks[i + 1]
      /\ Head(tasks) = m /\ m \in 1..written
  BY <1>1, <1>2
<1>4. /\ Ascending(tasks) /\ Ascending(wire)
      /\ \A i \in 1..Len(tasks) : Above(tasks[i], wire)
      /\ \A k \in MessageIds : stored[k] = "live" => Above(k, tasks) /\ Above(k, wire)
  BY <1>1 DEF OnTheWay
<1>5. 1 \in 1..Len(tasks) /\ \A i \in 1..Len(tasks') : i + 1 \in 1..Len(tasks)
  BY <1>3
<1>6. \A k \in MessageIds : stored[k] = "live" => k <= m
  BY <1>4, <1>5 DEF Above
<1>7. /\ rows' \in Seq(1..written)
      /\ stored' \in [MessageIds -> {"none", "live", "reconcile", "history"}]
      /\ \A k \in MessageIds : stored'[k] = "live" => stored[k] = "live" \/ k = m
      /\ RowsInOrder'
  <2>1. Ingest(m, "live") /\ m \in 1..written /\ UNCHANGED written
    BY <1>2, <1>3
  <2> HIDE DEF m
  <2> QED
    BY <1>6, <2>1, IngestKeeps
<1>8. FlowTypeOK'
  <2>1. announcing' \subseteq 1..written
    BY <1>1, <1>2, <1>3
  <2> HIDE DEF m
  <2> QED
    BY <1>1, <1>2, <1>3, <1>7, <2>1 DEF FlowTypeOK
<1>9. Ascending(tasks)'
  <2> SUFFICES ASSUME NEW i \in 1..Len(tasks'), NEW j \in 1..Len(tasks'), i < j
               PROVE  tasks'[i] <= tasks'[j]
    BY DEF Ascending
  <2>1. i + 1 \in 1..Len(tasks) /\ j + 1 \in 1..Len(tasks) /\ i + 1 < j + 1
    BY <1>3
  <2>2. tasks[i + 1] <= tasks[j + 1]
    BY <1>4, <2>1 DEF Ascending
  <2> QED
    BY <1>3, <2>2
<1>10. \A i \in 1..Len(tasks') : Above(tasks'[i], wire)
  BY <1>3, <1>4, <1>5
<1>11. Above(m, wire) /\ Above(m, tasks')
  <2>1. \A i \in 1..Len(tasks') : tasks[1] <= tasks[i + 1]
    <3> SUFFICES ASSUME NEW i \in 1..Len(tasks') PROVE tasks[1] <= tasks[i + 1]
      OBVIOUS
    <3>1. 1 < i + 1 /\ i + 1 \in 1..Len(tasks) /\ 1 \in 1..Len(tasks)
      BY <1>3
    <3> QED
      BY <1>4, <3>1 DEF Ascending
  <2> QED
    BY <1>3, <1>4, <1>5, <2>1 DEF Above
<1>12. ASSUME NEW k, Above(k, tasks)
       PROVE  Above(k, tasks')
  BY <1>3, <1>5, <1>12 DEF Above
<1>13. \A k \in MessageIds : stored'[k] = "live" => Above(k, tasks') /\ Above(k, wire)
  BY <1>4, <1>7, <1>11, <1>12
<1>14. OnTheWay'
  BY <1>2, <1>4, <1>9, <1>10, <1>13 DEF OnTheWay
<1> QED
  BY <1>7, <1>8, <1>14 DEF FlowInv

LEMMA ContextKeeps ==
  ASSUME FlowInv, (\E h \in hydrations : Hydrate(h)) \/ (\E c \in Conversations : Import(c))
  PROVE  FlowInv'
<1>1. FlowTypeOK /\ written \in Nat
  BY WrittenType DEF FlowInv
<1>2. /\ UNCHANGED <<written, aged, tasks, wire, announcing, recon, setup>>
      /\ hydrations' \subseteq hydrations
      /\ \E messages \in SUBSET (1..written) : \E imported \in BOOLEAN : Merge(messages, imported)
  <2>1. ASSUME NEW h \in hydrations, Hydrate(h)
        PROVE  /\ UNCHANGED <<written, aged, tasks, wire, announcing, recon, setup>>
               /\ hydrations' \subseteq hydrations
               /\ \E messages \in SUBSET (1..written) : \E imported \in BOOLEAN : Merge(messages, imported)
    <3>1. History(h.of, h.at) \in SUBSET (1..written)
      BY DEF History, InConversation
    <3> QED
      BY <2>1, <3>1 DEF Hydrate, platform, listener, process
  <2>2. ASSUME NEW c \in Conversations, Import(c)
        PROVE  /\ UNCHANGED <<written, aged, tasks, wire, announcing, recon, setup>>
               /\ hydrations' \subseteq hydrations
               /\ \E messages \in SUBSET (1..written) : \E imported \in BOOLEAN : Merge(messages, imported)
    <3>1. PICK n \in 1..written : Merge({m \in InConversation(n) : m <= n}, TRUE)
      BY <2>2 DEF Import
    <3>2. {m \in InConversation(n) : m <= n} \in SUBSET (1..written)
      BY DEF InConversation
    <3> QED
      BY <2>2, <3>1, <3>2 DEF Import, platform, intake, listener, process
  <2> QED
    BY <2>1, <2>2
<1>3. /\ rows' \in Seq(1..written)
      /\ stored' \in [MessageIds -> {"none", "live", "reconcile", "history"}]
      /\ OnTheWay' /\ RowsInOrder'
  BY <1>2, MergeKeeps
<1>4. FlowTypeOK'
  BY <1>1, <1>2, <1>3 DEF FlowTypeOK
<1> QED
  BY <1>3, <1>4 DEF FlowInv

\* What is left of a sequence behind one of its elements.
LEMMA RestType ==
  ASSUME NEW S, NEW s \in Seq(S), NEW k \in 1..Len(s)
  PROVE  s[k] \in S /\ SubSeq(s, k + 1, Len(s)) \in Seq(S)
<1>1. /\ k + 1 \in Int /\ Len(s) \in Int
      /\ \A i \in 1..Len(s) : s[i] \in S
      /\ \A i \in (k + 1)..Len(s) : i \in 1..Len(s)
  OBVIOUS
<1> QED
  BY <1>1, SubSeqProperties

\* A hydration that starts after the notification of a message.
LEMMA HydratingType ==
  ASSUME NEW m \in 1..written, written \in Nat
  PROVE  Hydrating(m) \subseteq HydrationsAt(written)
BY DEF Hydrating, HydrationsAt

LEMMA ReconcileKeeps ==
  ASSUME FlowInv, Ask \/ Newest \/ Reconcile \/ Reconciled
  PROVE  FlowInv'
<1>1. /\ FlowTypeOK /\ OnTheWay /\ RowsInOrder /\ written \in Nat
      /\ recon \in ReconAt(written) /\ aged \in 0..written
      /\ announcing \subseteq 1..written /\ hydrations \subseteq HydrationsAt(written)
      /\ NoRecon \in ReconAt(written) /\ NewRecon \in ReconAt(written)
  BY WrittenType, ReconTypes DEF FlowInv, FlowTypeOK
<1>2. UNCHANGED <<written, aged, tasks, wire, announcing, setup>>
  BY DEF Ask, Newest, Reconcile, Reconciled, ReconStep, platform, listener, process
<1>3. CASE Ask
  <2>1. recon' = [recon EXCEPT !.pc = "asking"] /\ UNCHANGED <<stored, rows, hydrations>>
    BY <1>3 DEF Ask, ReconStep, database
  <2>2. recon' \in ReconAt(written)
    BY <1>1, <2>1 DEF ReconAt
  <2> QED
    BY <1>1, <1>2, <2>1, <2>2, QuietKeeps
<1>4. CASE Newest
  <2>1. UNCHANGED <<stored, rows, hydrations>>
    BY <1>4 DEF Newest, database
  <2>2. ASSUME NEW newest \in InOrder(NewestOfAll),
               recon' = [recon EXCEPT !.pc = "handling", !.batch = newest]
        PROVE  recon' \in ReconAt(written)
    <3>1. NewestOfAll \in SUBSET (1..written)
      BY DEF NewestOfAll
    <3>2. newest \in Seq(1..written)
      BY <1>1, <3>1, InOrderSeq
    <3> QED
      BY <1>1, <2>2, <3>2 DEF ReconAt
  <2>3. recon' \in ReconAt(written)
    BY <1>1, <1>4, <2>2 DEF Newest, ReconStep
  <2> QED
    BY <1>1, <1>2, <2>1, <2>3, QuietKeeps
<1>5. CASE Reconciled
  <2>1. /\ recon.pc = "announcing" /\ UNCHANGED <<stored, rows>>
        /\ hydrations' = hydrations \cup Hydrating(recon.of)
        /\ recon' = [recon EXCEPT !.pc = "handling", !.of = 0]
    BY <1>5 DEF Reconciled, ReconStep, database
  <2>2. /\ recon.of \in 1..written
        /\ recon = [pc |-> recon.pc, batch |-> recon.batch, of |-> recon.of]
        /\ recon.batch \in Seq(1..written)
    BY <1>1, <2>1 DEF ReconAt
  <2>3. recon' = [pc |-> "handling", batch |-> recon.batch, of |-> 0]
    BY <2>1, <2>2
  <2>4. recon' \in ReconAt(written)
    BY <1>1, <2>2, <2>3 DEF ReconAt
  <2>5. hydrations' \subseteq HydrationsAt(written)
    <3>1. Hydrating(recon.of) \subseteq HydrationsAt(written)
      BY <1>1, <2>2, HydratingType
    <3> QED
      BY <1>1, <2>1, <3>1
  <2> QED
    BY <1>1, <1>2, <2>1, <2>4, <2>5, QuietKeeps
<1>6. CASE Reconcile
  <2> DEFINE news == recon.batch
             missing == {k \in 1..Len(news) : news[k] > aged /\ stored[news[k]] = "none"}
  <2>1. hydrations' = hydrations
    BY <1>6 DEF Reconcile
  <2>2. CASE ReconStep(NewRecon) /\ UNCHANGED <<database, imageVars>>
    BY <1>1, <1>2, <2>1, <2>2, QuietKeeps DEF ReconStep, database
  <2>3. ASSUME NEW k \in missing, Ingest(news[k], "reconcile"),
               ReconStep([pc |-> "announcing", of |-> news[k],
                          batch |-> SubSeq(news, k + 1, Len(news))])
        PROVE  FlowInv'
    <3>1. news \in Seq(1..written) /\ k \in 1..Len(news)
      BY <1>1 DEF ReconAt
    <3>2. news[k] \in 1..written /\ SubSeq(news, k + 1, Len(news)) \in Seq(1..written)
      <4> HIDE DEF news, missing
      <4> QED
        BY <3>1, RestType
    <3>3. recon' \in ReconAt(written)
      <4>1. news[k] \in 0..written /\ news[k] # 0
        BY <1>1, <3>2
      <4>2. recon' = [pc |-> "announcing", of |-> news[k],
                      batch |-> SubSeq(news, k + 1, Len(news))]
        BY <2>3 DEF ReconStep
      <4>3. ASSUME NEW of \in 0..written, of # 0, NEW rest \in Seq(1..written)
            PROVE  [pc |-> "announcing", of |-> of, batch |-> rest] \in ReconAt(written)
        BY <4>3 DEF ReconAt
      <4> QED
        BY <3>2, <4>1, <4>2, <4>3
    <3>4. /\ rows' \in Seq(1..written)
          /\ stored' \in [MessageIds -> {"none", "live", "reconcile", "history"}]
          /\ \A j \in MessageIds : stored'[j] = "live" => stored[j] = "live"
          /\ RowsInOrder'
      BY <1>2, <2>3, <3>2, IngestKeeps
    <3>5. FlowTypeOK'
      BY <1>1, <1>2, <2>1, <3>3, <3>4 DEF FlowTypeOK
    <3>6. OnTheWay'
      BY <1>1, <1>2, <3>4 DEF OnTheWay
    <3> QED
      BY <3>4, <3>5, <3>6 DEF FlowInv
  <2> QED
    BY <1>6, <2>2, <2>3 DEF Reconcile
<1> QED
  BY <1>3, <1>4, <1>5, <1>6

\* The steps that store no message.
LEMMA StillKeeps ==
  ASSUME FlowInv,
         \/ Age \/ (\E m \in announcing : Announce(m)) \/ (\E h \in hydrations : Answered(h))
         \/ (\E m \in Images : Restore(m)) \/ ImageStep
         \/ Listening \/ Supervising \/ Drained \/ Crash \/ Boot \/ UNCHANGED vars
  PROVE  FlowInv'
<1>1. /\ written \in Nat /\ recon \in ReconAt(written) /\ aged \in 0..written
      /\ announcing \subseteq 1..written /\ hydrations \subseteq HydrationsAt(written)
      /\ NoRecon \in ReconAt(written) /\ NewRecon \in ReconAt(written)
  BY WrittenType, ReconTypes DEF FlowInv, FlowTypeOK
<1> USE DEF platform, database, intake, listener, supervisor, process
<1>2. CASE Age
  <2>1. aged' \in 0..written
    BY <1>1, <1>2 DEF Age
  <2> QED
    BY <1>1, <1>2, <2>1, QuietKeeps DEF Age
<1>3. ASSUME NEW m \in announcing, Announce(m) PROVE FlowInv'
  <2>1. announcing' \subseteq 1..written /\ hydrations' \subseteq HydrationsAt(written)
    BY <1>1, <1>3, HydratingType DEF Announce
  <2> QED
    BY <1>1, <1>3, <2>1, QuietKeeps DEF Announce
<1>4. ASSUME NEW h \in hydrations, Answered(h) PROVE FlowInv'
  <2>1. h \in HydrationsAt(written)
    BY <1>1
  <2>2. [h EXCEPT !.at = written] \in HydrationsAt(written)
    BY <1>1, <2>1 DEF HydrationsAt
  <2>3. hydrations' \subseteq HydrationsAt(written)
    BY <1>1, <1>4, <2>2 DEF Answered
  <2> QED
    BY <1>1, <1>4, <2>3, QuietKeeps DEF Answered
<1>5. CASE (\E m \in Images : Restore(m)) \/ ImageStep \/ UNCHANGED vars
  BY <1>1, <1>5, QuietKeeps DEF Restore, ImageStep, vars
<1>6. CASE Listening
  BY <1>1, <1>6, QuietKeeps DEF Listening, Dial, Connect, Break, Verify, Unwind, Runs
<1>7. CASE Supervising
  <2>1. /\ UNCHANGED <<written, aged, stored, rows, setup, tasks, wire, announcing, hydrations>>
        /\ recon' \in {recon, NewRecon}
    BY <1>7 DEF Supervising, UserRequest, Request, Resume, Pause, Reconnect, Shutdown, Unwound,
                Recover, Replace, Elsewhere, Cancel, StartRun
  <2> QED
    BY <1>1, <2>1, QuietKeeps
<1>8. CASE Drained \/ Crash
  <2>1. /\ UNCHANGED <<written, aged, stored, rows, setup>>
        /\ tasks' = <<>> /\ wire' = <<>> /\ announcing' = {} /\ hydrations' = {}
        /\ recon' = NoRecon
    BY <1>8 DEF Drained, Crash, Halt
  <2> QED
    BY <1>1, <2>1, QuietKeeps
<1>9. CASE Boot
  BY <1>1, <1>9, QuietKeeps DEF Boot, StartRun
<1> QED
  BY <1>2, <1>3, <1>4, <1>5, <1>6, <1>7, <1>8, <1>9

LEMMA FlowStep ==
  ASSUME FlowInv, [Next]_vars
  PROVE  FlowInv'
BY WriteKeeps, ReceiveKeeps, ProcessKeeps, ContextKeeps, ReconcileKeeps, StillKeeps
   DEF Next, Taking

LEMMA SupervisorStep ==
  ASSUME SupervisorInv, [Next]_vars
  PROVE  SupervisorInv'
BY SupervisorKinds, RestsKeeps, ListeningKeeps, SupervisingKeeps, HaltKeeps, BootKeeps

LEMMA IntakeStart == Init => SupervisorInv /\ FlowInv
<1> SUFFICES ASSUME Init PROVE SupervisorInv /\ FlowInv
  OBVIOUS
<1>1. /\ setup \in Setups /\ setup.messages \in Nat
  BY SetupType DEF Init
<1>2. supervised \in RunIds
  BY DEF Init, RunIds
<1>3. SupervisorTypeOK
  <2>1. run \in [RunIds -> {"none", "starting", "connecting", "connected", "waiting",
                            "cancelled"}]
    BY DEF Init
  <2>2. supervised \in 0..MaxRuns /\ ops \in Seq(Operation)
    BY DEF Init
  <2>3. /\ paused = FALSE /\ shutting = FALSE /\ step = "check" /\ recovering = "no"
        /\ login = 1 /\ session = 0 /\ proc = "up"
    BY DEF Init
  <2>4. paused \in BOOLEAN /\ shutting \in BOOLEAN
    BY <2>3
  <2>5. /\ login \in Nat /\ session \in 0..login
        /\ step \in {"check", "unwinding", "draining"} /\ proc \in {"up", "down"}
        /\ recovering \in {"no", "pausing", "replacing", "reconnecting"}
    BY <2>3
  <2> QED
    BY <1>1, <2>1, <2>2, <2>4, <2>5 DEF SupervisorTypeOK
<1>4. \A r \in RunIds : run[r] = IF r = supervised THEN "starting" ELSE "none"
  BY DEF Init
<1>5. OneRun /\ OneReplacement /\ CurrentLogin
  <2>1. Alive # {}
    BY <1>2, <1>4 DEF Alive
  <2>2. OneRun
    BY <1>4, <2>1 DEF Init, OneRun
  <2>3. OneReplacement
    BY DEF Init, OneReplacement
  <2>4. CurrentLogin
    BY <1>4 DEF CurrentLogin
  <2> QED
    BY <2>2, <2>3, <2>4
<1>6. recon \in ReconAt(0)
  BY ReconTypes DEF Init
<1>7. /\ written = 0 /\ aged = 0 /\ wire = <<>> /\ rows = <<>> /\ tasks = <<>>
      /\ announcing = {} /\ hydrations = {} /\ stored = [m \in MessageIds |-> "none"]
  BY DEF Init
<1>8. <<>> \in Seq(1..0)
  OBVIOUS
<1>9. FlowTypeOK
  BY <1>1, <1>6, <1>7, <1>8 DEF FlowTypeOK
<1>10. OnTheWay /\ RowsInOrder
  BY <1>7 DEF OnTheWay, RowsInOrder, Ascending, Above
<1> QED
  BY <1>3, <1>5, <1>9, <1>10 DEF SupervisorInv, FlowInv

LEMMA IntakeAlways == Spec => [](SupervisorInv /\ FlowInv)
<1>1. SupervisorInv /\ FlowInv /\ [Next]_vars => (SupervisorInv /\ FlowInv)'
  BY SupervisorStep, FlowStep
<1> QED
  BY <1>1, IntakeStart, PTL DEF Spec

-----------------------------------------------------------------------------
(* What the intake guarantees.                                             *)

\* Every reachable state is well typed, for any messages, conversations, runs,
\* images and attempts, and any setup.
THEOREM TypesHold == Spec => []TypeOK
<1>1. ImageInv /\ SupervisorInv /\ FlowInv => TypeOK
  <2> SUFFICES ASSUME ImageInv, SupervisorInv, FlowInv PROVE TypeOK
    OBVIOUS
  <2>1. ImagesTypeOK /\ SupervisorTypeOK /\ FlowTypeOK
    BY DEF ImageInv, SupervisorInv, FlowInv
  <2>2. /\ recon.pc \in {"off", "sleeping", "asking", "handling", "announcing"}
        /\ recon.batch \in Seq(1..written) /\ recon.of \in 0..written
    BY <2>1 DEF FlowTypeOK, ReconAt
  <2>3. hydrations \subseteq [of : 1..written, at : 0..written]
    BY <2>1 DEF FlowTypeOK, HydrationsAt
  <2>4. IntakeTypeOK
    BY <2>1, <2>2, <2>3 DEF IntakeTypeOK, SupervisorTypeOK, FlowTypeOK
  <2> QED
    BY <2>1, <2>4 DEF TypeOK
<1> QED
  BY <1>1, ImagesAlways, IntakeAlways, PTL

\* One run_forever is alive, none of a paused assistant, and its connection has the
\* current login; and the live messages of a conversation get their rows in the
\* order they were written.
THEOREM ListenerIsSafe == Spec => []ListenerHolds
<1>1. SupervisorInv /\ FlowInv => ListenerHolds
  <2> SUFFICES ASSUME SupervisorInv, FlowInv PROVE ListenerHolds
    OBVIOUS
  <2>1. SupervisorTypeOK /\ OneRun /\ CurrentLogin /\ RowsInOrder
    BY DEF SupervisorInv, FlowInv
  <2>2. Cardinality(Alive) <= 1
    <3>1. CASE Alive = {}
      BY <3>1, FS_EmptySet
    <3>2. ASSUME NEW r \in Alive
          PROVE  Alive = {r}
      BY <2>1, <3>2 DEF OneRun, Alive, NoRun, RunIds
    <3>3. ASSUME NEW r \in Alive
          PROVE  Cardinality(Alive) <= 1
      <4>1. Cardinality({r}) = 1
        BY FS_Singleton
      <4> QED
        BY <3>2, <4>1
    <3> QED
      BY <3>1, <3>3
  <2>3. \A r \in Alive : r = supervised \/ (step = "unwinding" /\ r = cancelled)
    BY <2>1 DEF OneRun, Alive
  <2>4. paused /\ proc = "up" /\ ops = <<>> => Alive = {} /\ recon.pc = "off"
    BY <2>1 DEF OneRun
  <2>5. OneListener
    BY <2>1, <2>2, <2>3, <2>4 DEF OneListener, CurrentLogin
  <2>6. \A i \in 1..Len(rows) : rows[i] \in Int
    <3>1. rows \in Seq(1..written) /\ written \in Nat
      BY WrittenType DEF FlowInv, FlowTypeOK
    <3>2. \A i \in 1..Len(rows) : rows[i] \in 1..written
      BY <3>1
    <3> QED
      BY <3>2
  <2>7. LiveInOrder
    <3> SUFFICES ASSUME NEW i \in 1..Len(rows), NEW j \in 1..Len(rows), i < j,
                        rows[j] < rows[i], {stored[rows[i]], stored[rows[j]]} = {"live"}
                 PROVE  FALSE
      BY DEF LiveInOrder
    <3>1. stored[rows[i]] = "live" /\ stored[rows[j]] = "live"
      OBVIOUS
    <3>2. rows[i] <= rows[j]
      BY <2>1, <3>1 DEF RowsInOrder
    <3> QED
      BY <2>6, <3>2
  <2> QED
    BY <2>5, <2>7 DEF ListenerHolds
<1> QED
  BY <1>1, IntakeAlways, PTL
=============================================================================
