----------------------------- MODULE IntakeProps -----------------------------
(***************************************************************************)
(* What MessageIntake and CustomerImages must guarantee.                   *)
(***************************************************************************)
EXTENDS MessageIntake

TypeOK == IntakeTypeOK /\ ImagesTypeOK

\* However pauses, resumes, reconnections, replacements of the login and the
\* shutdown meet: one run_forever is alive, and it is the supervised one unless
\* the operation that holds the lock waits for its end; and once the operations
\* have returned, a paused assistant talks to the platform no more: no connection,
\* and no reconciliation left from the run that was cancelled.  No connection
\* outlives the login it was made with: once a replacement of the login is over,
\* what is connected uses the new one, also when the user resumed the listener
\* between its steps (listener_supervisor.py, the end of run_forever, _apply_xianyu).
OneListener ==
    /\ Cardinality(Alive) <= 1
    /\ \A r \in Alive : r = supervised \/ (step = "unwinding" /\ r = cancelled)
    /\ paused /\ proc = "up" /\ ops = <<>> => Alive = {} /\ recon.pc = "off"
    /\ recovering = "no" =>
          \A r \in RunIds : run[r] \in {"connecting", "connected"} => session = login

\* The live messages of a conversation get their rows in the order they were
\* written, although each is processed by a task of its own.  A reconciliation, a
\* hydration or an import may store a newer one before them (run_forever, process).
LiveInOrder ==
    \A i, j \in 1..Len(rows) :
        /\ i < j
        /\ Conversation[rows[i]] = Conversation[rows[j]]
        /\ rows[j] < rows[i]
        => {stored[rows[i]], stored[rows[j]]} # {"live"}

\* One listener with the current login, and the live messages in their order.
ListenerHolds == OneListener /\ LiveInOrder

\* The newest message of a conversation is stored in the end even when its push
\* was missed, as long as the connection holds, the platform answers and
\* the message is not too old (_reconcile_loop).
NewestStored ==
    \A m \in MessageIds :
        m <= written /\ stored[m] = "none" ~>
            \/ stored[m] # "none"
            \/ ~Connected \/ "newest" \notin setup.answers
            \/ m <= aged
            \/ \E k \in InConversation(m) : k > m

\* A deleted image stays deleted and is not downloaded again, whatever download,
\* replay, import or restart comes after (store_original, persist_message_jobs,
\* delete_local_copy).
DeletedForGood ==
    [][\A i \in Images :
          archive[i] = "deleted" => /\ archive'[i] = "deleted"
                                    /\ i \in fetching' => i \in fetching]_vars

\* While the channel is protected only what the user asked for is downloaded, also
\* after a crash or a stop in the middle of a download (_capture_job).
CircuitHolds ==
    \A i \in fetching : Blocked # {} => job[i].error = "manual"

\* No image is forgotten: one that is said to be on its way has a job that will
\* come to it, and one that was stored keeps no open job, except for a crash
\* between the two commits (persist_message_jobs, _capture_job).
NoImageForgotten ==
    \A i \in Images :
        /\ archive[i] = "pending" => job[i].status \in Open
        /\ archive[i] = "stored" => job[i].status = "completed" \/ restarts > 0
        /\ job[i].status = "completed" => archive[i] = "stored"

\* The archive respects the protection of the channel and loses nothing to it.
ImagesKept == CircuitHolds /\ NoImageForgotten

\* An open job ends - stored, failed, blocked or deleted - as long as the process
\* stays up: leases run out and attempts are bounded.
ImageSettled ==
    \A i \in Images :
        job[i].status \in Open ~> job[i].status \notin Open \/ proc = "down"

\* What the platform has is stored in the end: the newest messages by the
\* reconciliation, the images by their jobs.
IntakeSettles == NewestStored /\ ImageSettled
=============================================================================
