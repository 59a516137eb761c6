------------------------- MODULE ReplyPipelineProps -------------------------
(***************************************************************************)
(* What ReplyPipeline must guarantee.                                      *)
(***************************************************************************)
EXTENDS ReplyPipeline

DraftQueue == INSTANCE DraftTasks WITH
    status <- [t \in TaskIds |-> tasks[t].status],
    owner <- [t \in TaskIds |-> ConversationOf(t)]

\* Whatever the priorities, the cancellations and the restarts: the tasks of a
\* conversation run one at a time and in order, and no task runs after it ended
\* (_worker, _run_task, recover_generation_tasks).
ServedInOrder == DraftQueue!Spec

InQueue(t) == \E auto \in BOOLEAN : \E i \in 1..Len(queue[auto]) : queue[auto][i] = t

\* As long as the process is up, a pending task is in the queue or about to be put
\* there, and a running task is generated by one worker, whose task is running.
TasksInHand ==
    proc # "down" =>
        /\ \A t \in TaskIds :
              tasks[t].status = "pending" =>
                  \/ InQueue(t)
                  \/ t \in putting
                  \/ \E i \in 1..Len(recovered) : recovered[i] = t
        /\ \A t \in TaskIds :
              tasks[t].status = "running" =>
                  \E w \in Workers : worker[w].pc = "generating" /\ worker[w].task = t
        /\ \A w \in Workers :
              worker[w].pc = "generating" => tasks[worker[w].task].status = "running"

\* A message that says it is queued or generating has a task that will tell its
\* end, except one whose cancelled task was running when the process went down:
\* the recovery ends such a task and leaves its message.
WaitingHasTask ==
    \A m \in MessageIds :
        msg[m] \in {"ai_queued", "ai_generating"} =>
            \E t \in TaskIds :
                /\ tasks[t].msg = m
                /\ Active(t) \/ (tasks[t].status = "cancelled" /\ restarts > 0)

\* No task is lost or run by two, and no message waits for a task that is not
\* there, whatever is cancelled, put back, requeued or recovered (_put, _worker,
\* start, recover_generation_tasks).
NoTaskLost == TasksInHand /\ WaitingHasTask

\* A worker that generates, waits for the debounce or sends is alone with its
\* conversation (_reserve_conversation held over on_completed).
OneWorkerPerConversation ==
    \A v, w \in Holding :
        v # w => ConversationOf(worker[v].task) # ConversationOf(worker[w].task)

\* Workers that finish together do not exceed the replies of a day: the count is
\* read and the reply sent under one lock (handle_completed, _record_failure),
\* and an armed mode has not failed too often.
UnattendedBounded ==
    /\ dailySent <= DailyLimit
    /\ \A w \in Workers : worker[w].pc = "sending" => dailySent < DailyLimit
    /\ armed # "off" => failures < MaxFailures

\* Replies are generated and sent one at a time in a conversation, and without a
\* person only within the limits.
RepliesBounded == OneWorkerPerConversation /\ UnattendedBounded

\* The queue loses no task and no limit.
QueueHolds == NoTaskLost /\ RepliesBounded

\* A later automatic task hides an earlier manual one of its conversation: it is
\* always next in the queue, and always put back.
Inverted ==
    \E t, u \in TaskIds :
        /\ t < u /\ ConversationOf(t) = ConversationOf(u)
        /\ tasks[t].status = "pending" /\ ~tasks[t].auto
        /\ tasks[u].status = "pending" /\ tasks[u].auto

\* A later task was put while an earlier one of its conversation waits for room:
\* in a full queue it is put back into the very place the earlier one waits for.
Overtaken ==
    \E t \in putting, u \in TaskIds :
        /\ t < u /\ ConversationOf(t) = ConversationOf(u)
        /\ tasks[u].status = "pending" /\ InQueue(u)

\* A pending task is served or cancelled as long as the process stays up, except
\* in the two situations above, in which the workers may turn for ever.
TaskServed ==
    \A t \in TaskIds :
        tasks[t].status = "pending" ~>
            \/ tasks[t].status # "pending"
            \/ proc = "down"
            \/ Inverted
            \/ Overtaken
=============================================================================
