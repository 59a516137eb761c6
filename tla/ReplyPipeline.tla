--------------------------- MODULE ReplyPipeline ---------------------------
(***************************************************************************)
(* From an inbound message to an answer: the AI draft queue                *)
(* (backend/app/services/ai_queue.py), the human actions (actions.py) and  *)
(* the unattended replies (automation.py), over the messages of the        *)
(* conversations and their generation tasks (repository.py).               *)
(*                                                                         *)
(* The draft queue is a bounded priority queue in memory with a fixed set  *)
(* of workers; the tasks themselves are rows of the database.  A completed *)
(* draft is handed to the unattended replies by the worker that generated  *)
(* it, which keeps the conversation reserved meanwhile.  The user asks for *)
(* drafts, cancels, sends, ignores, imports and switches the unattended    *)
(* mode at any await of a worker; the process may stop or crash.           *)
(*                                                                         *)
(* Everything runs on one event loop: an action is the code between two    *)
(* awaits that suspend.  A put into a queue with room, and a lock nobody   *)
(* holds across an await, do not suspend.                                  *)
(***************************************************************************)
EXTENDS Integers, Sequences, FiniteSets, FiniteSetsExt

CONSTANTS
    MaxMessages,    \* bound: inbound messages
    Conversations,  \* conversations
    Conversation,   \* message id -> its conversation
    MaxTasks,       \* bound: rows of ai_generation_tasks
    Workers,        \* codex_max_concurrency workers
    QueueSize,      \* capacity of the queue
    MaxFailures,    \* auto_reply_max_failures
    DailyLimit,     \* auto_reply_daily_limit
    MaxInFlight,    \* bound: human sends of one message in flight
    Setups          \* what to explore together: auto_reply_feature_enabled, what
                    \* the user does, bounds of messages, tasks and restarts

MessageIds == 1..MaxMessages
TaskIds == 1..MaxTasks

ASSUME PipelineAssumption ==
    /\ MaxMessages \in Nat \ {0}
    /\ MaxTasks \in Nat \ {0}
    /\ Conversation \in [MessageIds -> Conversations]
    /\ QueueSize \in Nat \ {0}
    /\ MaxFailures \in Nat \ {0}
    /\ DailyLimit \in Nat \ {0}
    /\ MaxInFlight \in Nat \ {0}
    /\ Setups \subseteq [feature : BOOLEAN, user : SUBSET {"send", "cancel", "import"},
                        messages : 0..MaxMessages, tasks : 0..MaxTasks,
                        restarts : Nat]

VARIABLES
    msg,        \* message id -> status of the message ("none": not there yet)
    tasks,      \* task id -> row of ai_generation_tasks
    lastTask,   \* the newest task id (0: none)
    queue,      \* automatic? -> task ids in the queue, oldest first
    putting,    \* tasks whose request waits for room in the queue
    recovered,  \* pending tasks start() has still to put, in order
    worker,     \* worker -> what it does and for which task
    inFlight,   \* message id -> human sends waiting for the platform
    armed,      \* the unattended mode: off, on, or on past enabled_until
    failures,   \* consecutive_failures
    dailySent,  \* auto_reply_sent operations of today
    proc,       \* the process: down, starting (in ai_queue.start) or up
    restarts,   \* stops and crashes so far
    setup       \* the setup explored, chosen once

unattended == <<armed, failures, dailySent>>
process == <<proc, restarts, setup>>
memory == <<queue, putting, recovered, inFlight>>
vars == <<msg, tasks, lastTask, worker, memory, unattended, process>>

-----------------------------------------------------------------------------
\* Statuses in which the message is the user's, not the queue's.
Decided == {"sent", "sending", "ignored"}

MessageStatus == Decided \cup
    {"none", "new", "ai_queued", "ai_generating", "drafted", "ai_failed",
     "ai_cancelled", "send_failed"}

Task ==
    [status : {"none", "pending", "running", "completed", "failed", "cancelled"},
     msg    : MessageIds,
     auto   : BOOLEAN,    \* trigger_key ends with ":automatic"
     cancel : BOOLEAN]    \* cancel_requested

NoTask == [status |-> "none", msg |-> 1, auto |-> FALSE, cancel |-> FALSE]

\* idle: waiting for the queue, or in the pause after it put a task back;
\* generating: in provider.generate; settling: in the debounce of
\* handle_completed or waiting for its lock; sending: in auto_send.
Worker == [pc : {"idle", "generating", "settling", "sending"},
           task : 0..MaxTasks]

Idle == [pc |-> "idle", task |-> 0]

Arrived(m) == msg[m] # "none"

ConversationOf(t) == Conversation[tasks[t].msg]

Active(t) == tasks[t].status \in {"pending", "running"}

\* Mutant: only the earlier tasks that run.
EarlierRunning(t) ==
    {u \in TaskIds : /\ u < t /\ tasks[u].status = "running"
                     /\ ConversationOf(u) = ConversationOf(t)}

\* Earlier tasks of the conversation that are not over.
Earlier(t) ==
    {u \in TaskIds : u < t /\ Active(u) /\ ConversationOf(u) = ConversationOf(t)}

\* Workers that hold a reservation of a conversation (_busy_conversations).
Holding == {w \in Workers : worker[w].pc \in {"generating", "settling", "sending"}}

\* Mutant: a conversation that was reserved is never released.
BusyForEver ==
    {ConversationOf(t) : t \in {u \in TaskIds : tasks[u].status \in {"running", "completed", "failed"}}}

Busy == {ConversationOf(worker[w].task) : w \in Holding}

HasRoom == Len(queue[TRUE]) + Len(queue[FALSE]) < QueueSize

Enter(t) == [queue EXCEPT ![tasks'[t].auto] = Append(@, t)]

\* The queue gives automatic tasks first, each priority in order of arrival.
NextClass == queue[TRUE] # <<>>
NextTask == Head(queue[NextClass])
Popped == [queue EXCEPT ![NextClass] = Tail(@)]

\* The message takes a status unless it is the user's.
Marked(m, status) ==
    IF msg[m] \in Decided THEN msg ELSE [msg EXCEPT ![m] = status]

Newest(m) ==
    \A k \in MessageIds :
        k > m /\ Arrived(k) => Conversation[k] # Conversation[m]

\* The state snapshot() leaves: an authorisation that ended, or the day's last
\* reply, switches the unattended mode off.
Checked ==
    IF armed = "expired" \/ (armed = "on" /\ dailySent >= DailyLimit)
    THEN "off" ELSE armed

Enabled == Checked = "on"

\* What _eligibility relates to the rest of the state.  The listener, the channel,
\* the risk of the texts and the cooldown, like the rate of the sending, are left
\* to the choice between the two actions that use it.
Eligible(m, status) == Enabled /\ status = "drafted" /\ Newest(m)

TypeOK ==
    /\ msg \in [MessageIds -> MessageStatus]
    /\ tasks \in [TaskIds -> Task]
    /\ lastTask \in 0..MaxTasks
    /\ \A t \in TaskIds : t > lastTask <=> tasks[t].status = "none"
    /\ queue \in [BOOLEAN -> Seq(1..lastTask)]
    /\ putting \subseteq 1..lastTask
    /\ recovered \in Seq(1..lastTask)
    /\ worker \in [Workers -> Worker]
    /\ \A w \in Holding : worker[w].task \in 1..lastTask
    /\ inFlight \in [MessageIds -> 0..MaxInFlight]
    /\ armed \in {"off", "on", "expired"}
    /\ failures \in Nat
    /\ dailySent \in Nat
    /\ proc \in {"down", "starting", "up"}
    /\ setup \in Setups
    /\ restarts \in 0..setup.restarts

Init ==
    /\ msg = [m \in MessageIds |-> "none"]
    /\ tasks = [t \in TaskIds |-> NoTask]
    /\ lastTask = 0
    /\ queue = [auto \in BOOLEAN |-> <<>>]
    /\ putting = {}
    /\ recovered = <<>>
    /\ worker = [w \in Workers |-> Idle]
    /\ inFlight = [m \in MessageIds |-> 0]
    /\ armed = "off"
    /\ failures = 0
    /\ dailySent = 0
    /\ proc = "up"
    /\ restarts = 0
    /\ setup \in Setups

-----------------------------------------------------------------------------
\* The customer writes; the message is stored.
Arrive ==
    /\ proc = "up"
    /\ \E m \in 1..setup.messages :
          /\ ~Arrived(m)
          /\ \A k \in MessageIds : k < m => Arrived(k)
          /\ msg' = [msg EXCEPT ![m] = "new"]
    /\ UNCHANGED <<tasks, lastTask, worker, memory, unattended, process>>

\* A history import commits with mark_latest_pending: the newest inbound message
\* it read is to be answered, whatever its status was.
Import ==
    /\ proc = "up"
    /\ "import" \in setup.user
    /\ \E m \in 1..setup.messages :
          /\ \A k \in MessageIds : k < m => Arrived(k)
          /\ msg' = [msg EXCEPT ![m] = "new"]
    /\ UNCHANGED <<tasks, lastTask, worker, memory, unattended, process>>

\* create_generation_task and the put of the new task.
Create(m, auto) ==
    LET t == lastTask + 1 IN
    /\ lastTask < setup.tasks
    /\ lastTask' = t
    /\ tasks' = [tasks EXCEPT ![t] =
                    [NoTask EXCEPT !.status = "pending", !.msg = m, !.auto = auto]]
    /\ msg' = [msg EXCEPT ![m] = "ai_queued"]
    /\ IF HasRoom
       THEN queue' = Enter(t) /\ UNCHANGED putting
       ELSE putting' = putting \cup {t} /\ UNCHANGED queue

\* The user asks for drafts of a message; an open task of it is reused.
Regenerate(m) ==
    /\ proc = "up"
    /\ Arrived(m)
    /\ msg[m] \notin Decided
    /\ ~ \E t \in TaskIds : Active(t) /\ tasks[t].msg = m
    /\ Create(m, FALSE)
    /\ UNCHANGED <<worker, recovered, inFlight, unattended, process>>

\* An import asks for the draft of its message, any time after its commit (it
\* archives images first): one automatic task per message, ever.
DraftImported(m) ==
    /\ proc = "up"
    /\ Arrived(m)
    /\ msg[m] \notin Decided
    /\ ~ \E t \in 1..lastTask : tasks[t].msg = m /\ tasks[t].auto
    /\ Create(m, TRUE)
    /\ UNCHANGED <<worker, recovered, inFlight, unattended, process>>

\* A request that waited for room puts its task.
Put(t) ==
    /\ t \in putting
    /\ HasRoom
    /\ queue' = [queue EXCEPT ![tasks[t].auto] = Append(@, t)]
    /\ putting' = putting \ {t}
    /\ UNCHANGED <<msg, tasks, lastTask, recovered, worker, inFlight,
                   unattended, process>>

-----------------------------------------------------------------------------
\* A worker is given the next task.
Takes(w) ==
    /\ proc \in {"starting", "up"}
    /\ worker[w].pc = "idle"
    /\ queue # [auto \in BOOLEAN |-> <<>>]

\* The task was cancelled meanwhile.
TakeStale(w) ==
    /\ Takes(w)
    /\ tasks[NextTask].status # "pending"
    /\ queue' = Popped
    /\ UNCHANGED <<msg, tasks, lastTask, putting, recovered, worker, inFlight,
                   unattended, process>>

\* An earlier task of the conversation is open, or another worker holds the
\* conversation: the task goes back to the end of its priority.
PutBack(w) ==
    /\ Takes(w)
    /\ tasks[NextTask].status = "pending"
    /\ Earlier(NextTask) # {} \/ ConversationOf(NextTask) \in Busy
    /\ queue' = [queue EXCEPT ![NextClass] = Append(Tail(@), NextTask)]
    /\ UNCHANGED <<msg, tasks, lastTask, putting, recovered, worker, inFlight,
                   unattended, process>>

\* The worker reserves the conversation and _run_task starts to generate.
Begin(w) ==
    /\ Takes(w)
    /\ tasks[NextTask].status = "pending"
    /\ Earlier(NextTask) = {}
    /\ ConversationOf(NextTask) \notin Busy
    /\ queue' = Popped
    /\ tasks' = [tasks EXCEPT ![NextTask].status = "running"]
    /\ msg' = Marked(tasks[NextTask].msg, "ai_generating")
    /\ worker' = [worker EXCEPT ![w] = [pc |-> "generating", task |-> NextTask]]
    /\ UNCHANGED <<lastTask, putting, recovered, inFlight, unattended,
                   process>>

\* The provider answered, but the user had asked to cancel.
DropAnswer(w) ==
    LET t == worker[w].task IN
    /\ worker[w].pc = "generating"
    /\ tasks[t].cancel
    /\ tasks' = [tasks EXCEPT ![t].status = "cancelled"]
    /\ msg' = Marked(tasks[t].msg, "ai_cancelled")
    /\ worker' = [worker EXCEPT ![w] = Idle]
    /\ UNCHANGED <<lastTask, memory, unattended, process>>

\* The drafts are saved, whatever the message has become meanwhile, and
\* handle_completed decides whether to wait for the debounce or to stop there.
Complete(w) ==
    LET t == worker[w].task
        m == tasks[t].msg
    IN
    /\ worker[w].pc = "generating"
    /\ ~tasks[t].cancel
    /\ tasks' = [tasks EXCEPT ![t].status = "completed"]
    /\ msg' = [msg EXCEPT ![m] = "drafted"]
    /\ armed' = Checked
    /\ \/ worker' = [worker EXCEPT ![w] = Idle]
       \/ /\ Eligible(m, "drafted")
          /\ worker' = [worker EXCEPT ![w].pc = "settling"]
    /\ UNCHANGED <<lastTask, memory, failures, dailySent, process>>

\* The provider failed.  An unexpected error ends a cancelled task as failed.
Fail(w) ==
    LET t == worker[w].task IN
    /\ worker[w].pc = "generating"
    /\ \/ /\ tasks' = [tasks EXCEPT ![t].status = "failed"]
          /\ msg' = Marked(tasks[t].msg, "ai_failed")
       \/ /\ tasks[t].cancel
          /\ tasks' = [tasks EXCEPT ![t].status = "cancelled"]
          /\ msg' = Marked(tasks[t].msg, "ai_cancelled")
    /\ worker' = [worker EXCEPT ![w] = Idle]
    /\ UNCHANGED <<lastTask, memory, unattended, process>>

\* The user cancels a task: a pending one is over, a running one when its
\* provider has answered.
Cancel(t) ==
    /\ proc = "up"
    /\ "cancel" \in setup.user
    /\ Active(t)
    /\ ~tasks[t].cancel
    /\ IF tasks[t].status = "pending"
       THEN /\ tasks' = [tasks EXCEPT ![t].cancel = TRUE, ![t].status = "cancelled"]
            /\ msg' = Marked(tasks[t].msg, "ai_cancelled")
       ELSE /\ tasks' = [tasks EXCEPT ![t].cancel = TRUE]
            /\ UNCHANGED msg
    /\ UNCHANGED <<lastTask, worker, memory, unattended, process>>

-----------------------------------------------------------------------------
\* Mutant: no lock.
NoLock == TRUE

\* The rest of handle_completed runs under _lock, which a worker in auto_send
\* holds.
LockFree == \A v \in Workers : worker[v].pc # "sending"

\* The gate is checked again after the debounce, and auto_send marks the message
\* before it awaits the platform.
AutoSend(w) ==
    LET m == tasks[worker[w].task].msg IN
    /\ worker[w].pc = "settling"
    /\ LockFree
    /\ Eligible(m, msg[m])
    /\ msg' = [msg EXCEPT ![m] = "sending"]
    /\ worker' = [worker EXCEPT ![w].pc = "sending"]
    /\ UNCHANGED <<tasks, lastTask, memory, unattended, process>>

\* The gate is closed: by the database, the listener, the risk rules or the
\* sending rate.
AutoSkip(w) ==
    /\ worker[w].pc = "settling"
    /\ LockFree
    /\ armed' = Checked
    /\ worker' = [worker EXCEPT ![w] = Idle]
    /\ UNCHANGED <<msg, tasks, lastTask, memory, failures, dailySent, process>>

AutoSent(w) ==
    LET m == tasks[worker[w].task].msg IN
    /\ worker[w].pc = "sending"
    /\ msg' = [msg EXCEPT ![m] = "sent"]
    /\ dailySent' = dailySent + 1
    /\ failures' = 0
    /\ worker' = [worker EXCEPT ![w] = Idle]
    /\ UNCHANGED <<tasks, lastTask, memory, armed, process>>

AutoSendFailed(w) ==
    LET m == tasks[worker[w].task].msg IN
    /\ worker[w].pc = "sending"
    /\ msg' = [msg EXCEPT ![m] = "send_failed"]
    /\ failures' = failures + 1
    /\ armed' = IF failures + 1 >= MaxFailures THEN "off" ELSE armed
    /\ worker' = [worker EXCEPT ![w] = Idle]
    /\ UNCHANGED <<tasks, lastTask, memory, dailySent, process>>

-----------------------------------------------------------------------------
\* The user confirms a reply; the platform's answer is awaited.
HumanSend(m) ==
    /\ proc = "up"
    /\ "send" \in setup.user
    /\ Arrived(m)
    /\ msg[m] \notin Decided
    /\ inFlight[m] < MaxInFlight
    /\ msg' = [msg EXCEPT ![m] = "sending"]
    /\ inFlight' = [inFlight EXCEPT ![m] = @ + 1]
    /\ UNCHANGED <<tasks, lastTask, worker, queue, putting, recovered,
                   unattended, process>>

HumanSent(m) ==
    /\ inFlight[m] > 0
    /\ msg' = [msg EXCEPT ![m] = "sent"]
    /\ inFlight' = [inFlight EXCEPT ![m] = @ - 1]
    /\ UNCHANGED <<tasks, lastTask, worker, queue, putting, recovered,
                   unattended, process>>

HumanSendFailed(m) ==
    /\ inFlight[m] > 0
    /\ msg' = [msg EXCEPT ![m] = "send_failed"]
    /\ inFlight' = [inFlight EXCEPT ![m] = @ - 1]
    /\ UNCHANGED <<tasks, lastTask, worker, queue, putting, recovered,
                   unattended, process>>

Ignore(m) ==
    /\ proc = "up"
    /\ "send" \in setup.user
    /\ Arrived(m)
    /\ msg[m] \notin Decided
    /\ msg' = [msg EXCEPT ![m] = "ignored"]
    /\ UNCHANGED <<tasks, lastTask, worker, memory, unattended, process>>

\* snapshot(), by a status request or within enable and disable.
Poll ==
    /\ proc = "up"
    /\ armed # Checked
    /\ armed' = Checked
    /\ UNCHANGED <<msg, tasks, lastTask, worker, memory, failures, dailySent,
                   process>>

Enable ==
    /\ proc = "up"
    /\ setup.feature
    /\ dailySent < DailyLimit
    /\ armed' = "on"
    /\ failures' = 0
    /\ UNCHANGED <<msg, tasks, lastTask, worker, memory, dailySent, process>>

Disable ==
    /\ proc = "up"
    /\ armed' = "off"
    /\ UNCHANGED <<msg, tasks, lastTask, worker, memory, failures, dailySent,
                   process>>

\* Time passes: the authorisation ends, a day begins.
Expire ==
    /\ armed = "on"
    /\ armed' = "expired"
    /\ UNCHANGED <<msg, tasks, lastTask, worker, memory, failures, dailySent,
                   process>>

NewDay ==
    /\ dailySent' = 0
    /\ UNCHANGED <<msg, tasks, lastTask, worker, memory, armed, failures,
                   process>>

-----------------------------------------------------------------------------
\* What a stop and a crash do to the memory of the process.
Halt ==
    /\ restarts < setup.restarts
    /\ restarts' = restarts + 1
    /\ proc' = "down"
    /\ queue' = [auto \in BOOLEAN |-> <<>>]
    /\ putting' = {}
    /\ recovered' = <<>>
    /\ worker' = [w \in Workers |-> Idle]
    /\ inFlight' = [m \in MessageIds |-> 0]

\* Tasks whose generation is interrupted and goes back to the queue.
Returning == {t \in TaskIds : tasks[t].status = "running" /\ ~tasks[t].cancel}

\* Mutant: the message takes the status of its task.
RequeuedPending ==
    [m \in MessageIds |->
        IF msg[m] \notin Decided /\ \E t \in Returning : tasks[t].msg = m
        THEN "pending" ELSE msg[m]]

\* Their messages are queued again, unless they are the user's.
Requeued ==
    [m \in MessageIds |->
        IF msg[m] \notin Decided /\ \E t \in Returning : tasks[t].msg = m
        THEN "ai_queued" ELSE msg[m]]

\* stop(), once the requests are served: every worker is cancelled where it
\* waits.  _return_to_pending leaves a task alone whose cancellation was asked.
Stop ==
    /\ proc = "up"
    /\ putting = {} /\ \A m \in MessageIds : inFlight[m] = 0
    /\ tasks' = [t \in TaskIds |->
                    IF t \in Returning THEN [tasks[t] EXCEPT !.status = "pending"]
                    ELSE tasks[t]]
    /\ msg' = Requeued
    /\ Halt
    /\ UNCHANGED <<lastTask, unattended, setup>>

Crash ==
    /\ proc # "down"
    /\ Halt
    /\ UNCHANGED <<msg, tasks, lastTask, unattended, setup>>

\* Mutant: only the tasks a stop returned are looked for.
NotRecovered == tasks

\* The rows recover_generation_tasks leaves.
Recovered ==
    [t \in TaskIds |->
        IF tasks[t].status # "running" THEN tasks[t]
        ELSE [tasks[t] EXCEPT !.status = IF tasks[t].cancel THEN "cancelled" ELSE "pending"]]

\* The tasks of a set in the order of their creation.
InOrder(S) ==
    {s \in [1..Cardinality(S) -> S] :
        /\ \A i, j \in DOMAIN s : i < j => s[i] < s[j]
        /\ \A t \in S : \E i \in DOMAIN s : s[i] = t}

\* start(): running tasks return to the queue, or are cancelled when that had
\* been asked; the pending ones are put in order as far as there is room.
Start ==
    LET pending == {t \in 1..lastTask : Recovered[t].status = "pending"}
        fits == {t \in pending : Cardinality({u \in pending : u < t}) < QueueSize}
    IN
    /\ proc = "down"
    /\ tasks' = Recovered
    /\ msg' = Requeued
    /\ \E automatic \in InOrder({t \in fits : tasks[t].auto}),
          manual \in InOrder({t \in fits : ~tasks[t].auto}) :
          queue' = [auto \in BOOLEAN |-> IF auto THEN automatic ELSE manual]
    /\ recovered' \in InOrder(pending \ fits)
    /\ proc' = IF recovered' = <<>> THEN "up" ELSE "starting"
    /\ UNCHANGED <<lastTask, putting, worker, inFlight, unattended,
                   restarts, setup>>

\* start() goes on when the workers have made room.
PutRecovered ==
    /\ proc = "starting"
    /\ HasRoom
    /\ queue' = [queue EXCEPT ![tasks[Head(recovered)].auto] =
                    Append(@, Head(recovered))]
    /\ recovered' = Tail(recovered)
    /\ proc' = IF recovered' = <<>> THEN "up" ELSE "starting"
    /\ UNCHANGED <<msg, tasks, lastTask, putting, worker, inFlight, unattended,
                   restarts, setup>>

-----------------------------------------------------------------------------
Work(w) ==
    \/ TakeStale(w) \/ PutBack(w) \/ Begin(w)
    \/ DropAnswer(w) \/ Complete(w) \/ Fail(w)
    \/ AutoSend(w) \/ AutoSkip(w) \/ AutoSent(w) \/ AutoSendFailed(w)

Requests ==
    \/ Import
    \/ \E m \in MessageIds :
          \/ Regenerate(m) \/ DraftImported(m) \/ Ignore(m)
          \/ HumanSend(m) \/ HumanSent(m) \/ HumanSendFailed(m)
    \/ \E t \in TaskIds : Cancel(t)
    \/ Poll \/ Enable \/ Disable

Puts == PutRecovered \/ \E t \in TaskIds : Put(t)

Clock == Expire \/ NewDay

Next ==
    \/ Arrive \/ Requests \/ Puts \/ Clock
    \/ \E w \in Workers : Work(w)
    \/ Stop \/ Crash \/ Start

Spec == Init /\ [][Next]_vars

\* The event loop runs every worker and every put that can go on; providers and
\* platforms answer or time out.  Nothing is assumed of the user, the customer,
\* the clock or a restart.
Fairness ==
    /\ \A w \in Workers : WF_vars(Work(w))
    /\ WF_vars(PutRecovered)
    /\ \A t \in TaskIds : WF_vars(Put(t))

FairSpec == Spec /\ Fairness
=============================================================================
