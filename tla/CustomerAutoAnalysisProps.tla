---------------------- MODULE CustomerAutoAnalysisProps ----------------------
(***************************************************************************)
(* What CustomerAutoAnalysis must guarantee.                               *)
(***************************************************************************)
EXTENDS CustomerAutoAnalysis

\* The task works on a run it claimed.
InFlight == task.pc \notin {"idle", "ready"}

Running == {r \in RunIds : runs[r].status = "running"}

\* Single flight.  A run that is running is the newest one, and as long as the
\* process is up the task is working on it; an event is being processed only
\* by that run, and the subscription says "analyzing" only while it lives.
\* (_claim_run, _recover_interrupted: a crash between any two commits leaves
\* nothing claimed by a run that nobody will ever end.)
OneRunInFlight ==
    /\ Running \subseteq {lastRun}
    /\ InFlight => Running = {lastRun}
    /\ proc # "down" /\ Running # {} => InFlight
    /\ \A m \in MessageIds :
          event[m] = "processing" => eventRun[m] \in Running
    /\ sub.state = "analyzing" => Running # {}

\* The artifacts form one chain: version v was written by a run of its own
\* that started where version v - 1 ended, and the watermark of the
\* subscription is where the last one ended (_complete_run).
ArtifactChain ==
    /\ \A v \in RunIds :
          IF v > sub.version THEN artifacts[v] = 0
          ELSE /\ artifacts[v] \in RunIds
               /\ runs[artifacts[v]].status = "completed"
               /\ runs[artifacts[v]].before =
                     IF v = 1 THEN 0 ELSE runs[artifacts[v - 1]].after
    /\ \A v, w \in 1..sub.version : v < w => artifacts[v] < artifacts[w]
    /\ sub.mark = IF sub.version = 0 THEN 0
                  ELSE runs[artifacts[sub.version]].after

\* A batch is settled once: the last event of a completed run's window stays
\* completed, and a completed event belongs to a completed run that reached
\* its message.  Hence _claim_run never meets a completed attempt.
BatchesSettleOnce ==
    /\ \A r \in RunIds :
          runs[r].status = "completed" =>
             /\ event[runs[r].after] = "completed"
             /\ eventRun[runs[r].after] = r
    /\ \A m \in MessageIds :
          event[m] = "completed" =>
             /\ eventRun[m] \in RunIds
             /\ runs[eventRun[m]].status = "completed"
             /\ m <= runs[eventRun[m]].after

\* An OpenAI request whose outcome is unknown is never repeated on the same
\* window by itself: a later run on that window exists only after an explicit
\* retry has marked the earlier response (_claim_run, retry).
UncertainNeedsRetry ==
    \A i, j \in 1..lastRun :
        /\ i < j
        /\ runs[i].before = runs[j].before
        /\ runs[i].after = runs[j].after
        => runs[i].resp # "uncertain"

\* Messages that keep arriving cannot put a pending batch off beyond the longest
\* wait after its first message: whatever sets a due time cuts the debounce to
\* what is left of the pace in force, or makes the batch due at once, and only
\* then may it count as younger.  Everything else, an edit of the pace included,
\* leaves the due time where it was or lets it come nearer
\* (_persist_event_row, upsert_subscription, _complete_run).
DeadlineStep ==
    sub'.state = "pending" =>
        /\ sub'.age # None
        /\ sub'.wait # None
        /\ \/ sub'.wait = 0
           \/ sub'.wait + sub'.age <= sub'.pace.maxWait
           \/ sub.state = "pending" /\ sub'.wait + sub'.age <= sub.wait + sub.age
        /\ sub.state = "pending" => sub'.wait = 0 \/ sub'.age >= sub.age
HardDeadline == [][DeadlineStep]_vars

\* On an active subscription no message received from the customer is
\* forgotten: the message, or one after it, has an event as long as it is above
\* the watermark, also when it arrived during a pause.
NothingForgotten ==
    sub.status = "active" =>
        \A m \in Inbound :
            msgs[m].status = "new" /\ m > sub.mark =>
                \E k \in m..Len(msgs) : event[k] # "none"

\* On an active subscription an event above the watermark that waits is never
\* forgotten: the state is one from which it is picked up, or which tells the
\* user to act.
NothingStranded ==
    sub.status = "active" /\ (\E m \in Pending : m > sub.mark) =>
        sub.state \in {"pending", "analyzing", "failed", "configuration_required"}

\* The text of every event that a run takes from above its watermark is in the
\* run's prompt: the character budget ends the batch before it would push one out
\* (_bounded_incremental_watermark, _bounded_messages).
BatchIsInPrompt ==
    \A m \in MessageIds :
        LET r == eventRun[m]
        IN  r # 0 /\ event[m] # "pending" /\ runs[r].before > 0
                /\ runs[r].before < m /\ msgs[m].size > 0
            => m \in runs[r].ctx

\* A request leaves, and an artifact is written, only while the subscription is
\* active and unchanged since the run was claimed, whatever the user did during
\* the awaits before it; the prompt sent was built under the current scope.
ConsentStep ==
    /\ \A r \in RunIds :
          runs[r].resp # "creating" /\ runs'[r].resp = "creating" =>
             /\ sub.status = "active"
             /\ sub.rev = runs[r].rev
             /\ sub.scope = runs[r].scope
    /\ artifacts' # artifacts =>
          sub.status = "active" /\ sub.rev = runs[lastRun].rev
ConsentHeld == [][ConsentStep]_vars

\* The process is restarted as often as it ends and stays up at last.
StaysUp == <>[](proc = "up")

\* If so, no event is left in processing: every claimed batch is settled, be it
\* by the answer, an error, a pause or the recovery after a crash.
ProcessingSettles ==
    StaysUp =>
        \A m \in MessageIds :
            event[m] = "processing" ~> event[m] # "processing"

\* If so, a pending event of a subscription that is due, now or after its wait,
\* is taken into a run, unless something the user is told about stops it: a
\* pause, a failed gate, a missing configuration (or the bound on runs).
PendingServed ==
    StaysUp =>
        \A m \in MessageIds :
            event[m] = "pending" /\ sub.state = "pending" ~>
                \/ event[m] # "pending"
                \/ sub.status = "paused"
                \/ sub.state \in {"failed", "configuration_required"}
                \/ ~configured
                \/ lastRun = MaxRuns

-----------------------------------------------------------------------------
(* What a comment, an error message or a test says, and the code does not.  *)

\* upsert_subscription refuses to change the scope of a run that is calling
\* OpenAI ("stop it first"), and a test notes that the authorisation may be
\* neither widened nor narrowed during a run.
ScopeFrozenStep ==
    sub'.scope # sub.scope => ~ (InFlight /\ sub.status = "active")
ScopeFrozenInFlight == [][ScopeFrozenStep]_vars

\* _persist_event_row: a new message cannot implicitly retry a failed batch,
\* only the explicit retry releases its gate.
FailedNotResentStep ==
    lastRun' # lastRun =>
        \A m \in runs'[lastRun'].ctx : event[m] # "failed"
FailedNotResent == [][FailedNotResentStep]_vars

\* A request whose outcome is uncertain needs a manual confirmation, also after
\* a pause: no later request carries its messages before that.
UncertainNotResent ==
    \A i, j \in 1..lastRun :
        i < j /\ runs[i].resp = "uncertain" /\ runs[j].resp # "" =>
            runs[i].ctx \cap runs[j].ctx = {}

\* _bounded_incremental_watermark: the watermark does not advance past inbound
\* text that was not sent.
NothingUnsentSkipped ==
    \A r \in RunIds :
        runs[r].status = "completed" /\ runs[r].before > 0 =>
            \A m \in Inbound :
                runs[r].before < m /\ m <= runs[r].after => m \in runs[r].ctx

-----------------------------------------------------------------------------
\* The outbox promise, whatever the process does.
Outbox == INSTANCE AnalysisOutbox WITH MaxMessages <- MaxMessages, event <- event
OutboxSpec == Outbox!Spec
=============================================================================
