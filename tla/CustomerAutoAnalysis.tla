------------------------ MODULE CustomerAutoAnalysis ------------------------
(***************************************************************************)
(* Continuous OpenAI analysis of ONE customer conversation                 *)
(* (backend/app/services/customer_auto_analysis.py).                       *)
(*                                                                         *)
(* An inbound message and its outbox event are committed together.  A loop *)
(* claims the pending events of a due subscription as one run, sends the   *)
(* messages of the run's window to OpenAI and appends an artifact, moving  *)
(* the subscription's watermark.  The user may pause, resume, edit or      *)
(* retry the subscription at any await of the run; the process may stop or *)
(* crash.                                                                  *)
(*                                                                         *)
(* The methods of this service are synchronous and its HTTP handlers are   *)
(* "async def", so they all run on one event loop: an action is the code   *)
(* between two awaits.  A mutation whose expected revision is stale, or    *)
(* whose request id was already recorded, changes nothing and is no action.*)
(* Times are kept relative to now, so no clock value is unbounded.         *)
(***************************************************************************)
EXTENDS Integers, Sequences, FiniteSets, FiniteSetsExt

CONSTANTS
    MaxMessages,   \* bound: messages of the conversation
    MaxRuns,       \* bound: rows of customer_analysis_runs
    MaxRevision,   \* bound: revisions of the subscription
    Sizes,         \* lengths a message's text may have
    MaxChars,      \* customer_analysis_max_context_chars
    InitialLimit,  \* customer_analysis_initial_message_limit
    Paces,         \* debounce_seconds and max_wait_seconds a user may pick
    MaxAge,        \* bound: how long ago pending_since is told apart
    DailyLimit,    \* customer_analysis_daily_run_limit
    Scopes,        \* authorisation scopes (model, include_images) a user may pick
    Configurations \* values OPENAI_API_KEY and the model may have: set or not

ASSUME BoundsAssumption ==
    /\ MaxMessages \in Nat \ {0}
    /\ MaxRuns \in Nat \ {0}
    /\ MaxRevision \in Nat \ {0}

ASSUME SettingsAssumption ==
    /\ Sizes \subseteq Nat
    /\ MaxChars \in Nat \ {0}
    /\ InitialLimit \in Nat \ {0}
    /\ MaxAge \in Nat
    /\ \A pace \in Paces :
          /\ pace \in [debounce : Nat, maxWait : Nat]
          /\ pace.debounce <= pace.maxWait
          /\ pace.maxWait <= MaxAge
    /\ DailyLimit \in Nat \ {0}
    /\ Configurations \subseteq BOOLEAN

VARIABLES
    msgs,        \* the conversation's messages; a message's id is its index
    sub,         \* the row of customer_analysis_threads
    event,       \* message id -> status of its outbox event
    eventRun,    \* message id -> run_id of its outbox event (0: NULL)
    runs,        \* run id -> row of customer_analysis_runs
    lastRun,     \* the newest run id (0: none)
    artifacts,   \* version -> run id of the artifact (0: none)
    runsToday,   \* rows of customer_analysis_runs created today
    task,        \* the run task of this subscription in _runs
    proc,        \* the process: up, stopping (stop() was called) or down
    configured   \* whether OpenAI is configured in this process

vars == <<msgs, sub, event, eventRun, runs, lastRun, artifacts, runsToday,
          task, proc, configured>>

-----------------------------------------------------------------------------
MessageIds == 1..MaxMessages
RunIds == 1..MaxRuns
None == -1          \* a NULL time

\* new: received from the customer; history: from the customer, but merged from
\* what the platform kept; sent: the seller's.
Message == [status : {"new", "history", "sent"}, size : Sizes]

Subscription ==
    [status  : {"none", "active", "paused"},
     state   : {"waiting", "pending", "analyzing", "completed", "failed",
                "configuration_required"},
     rev     : 0..MaxRevision,
     mark    : 0..MaxMessages,       \* last_analyzed_message_id (0: NULL)
     version : 0..MaxRuns,           \* latest_artifact_version
     wait    : -1..MaxAge,           \* next_run_at - now, 0 when overdue
     age     : -1..MaxAge,           \* now - pending_since, capped at MaxAge
     convo   : {"none", "creating", "uncertain", "ready"},
     scope   : Scopes,
     pace    : Paces]

EventStatus == {"none", "pending", "processing", "failed", "completed"}

Run ==
    [status : {"none", "running", "completed", "failed", "cancelled"},
     rev    : 0..MaxRevision,
     before : 0..MaxMessages,
     after  : 0..MaxMessages,
     resp   : {"", "creating", "uncertain", "retry-authorized", "response"},
     ctx    : SUBSET MessageIds,     \* the messages of the prompt
     scope  : Scopes]                \* the scope the prompt was built under

\* At "ready", "creating" and "analyzing" the task waits for the event loop, the
\* creation of the conversation and the analysis; at the other values it is
\* between two commits, where only the end of the process can come between.
Task == [pc : {"idle", "ready", "claimed", "creating", "created", "analyzing",
               "answered", "failing", "cancelled"},
         cancel : BOOLEAN]
IdleTask == [pc |-> "idle", cancel |-> FALSE]

TypeOK ==
    /\ msgs \in Seq(Message) /\ Len(msgs) <= MaxMessages
    /\ sub \in Subscription
    /\ event \in [MessageIds -> EventStatus]
    /\ eventRun \in [MessageIds -> 0..MaxRuns]
    /\ runs \in [RunIds -> Run]
    /\ lastRun \in 0..MaxRuns
    /\ artifacts \in [RunIds -> 0..MaxRuns]
    /\ runsToday \in 0..MaxRuns
    /\ task \in Task
    /\ proc \in {"up", "stopping", "down"}
    /\ configured \in BOOLEAN

NoRun(scope) ==
    [status |-> "none", rev |-> 0, before |-> 0, after |-> 0, resp |-> "",
     ctx |-> {}, scope |-> scope]

Init ==
    /\ msgs = <<>>
    /\ \E scope \in Scopes, pace \in Paces :
          /\ sub = [status |-> "none", state |-> "waiting", rev |-> 0,
                    mark |-> 0, version |-> 0, wait |-> None, age |-> None,
                    convo |-> "none", scope |-> scope, pace |-> pace]
          /\ runs = [r \in RunIds |-> NoRun(scope)]
    /\ event = [m \in MessageIds |-> "none"]
    /\ eventRun = [m \in MessageIds |-> 0]
    /\ lastRun = 0
    /\ artifacts = [v \in RunIds |-> 0]
    /\ runsToday = 0
    /\ task = IdleTask
    /\ proc = "up"
    /\ configured \in Configurations

\* The event loop runs a handler: the process is up and the run task is not
\* in the middle of its own step.
Listening ==
    /\ proc = "up"
    /\ task.pc \in {"idle", "ready", "creating", "analyzing"}

-----------------------------------------------------------------------------
(* The outbox.                                                             *)

HasEvent(e, status) == \E m \in MessageIds : e[m] = status

\* Mutant: the debounce whatever the deadline is.
DebounceOnly(pace, age) == pace.debounce

\* The time to the due time of a batch that waits since age: the debounce, cut
\* to what is left of the longest wait.
DueIn(pace, age) ==
    IF pace.debounce <= pace.maxWait - age THEN pace.debounce
    ELSE IF age <= pace.maxWait THEN pace.maxWait - age
    ELSE 0

\* _persist_event_row, for an event it does insert: the subscription row s
\* after the insertion, e being the events with the new one.
Enqueued(s, e, immediate) ==
    LET age == IF s.age = None THEN 0 ELSE s.age
    IN  IF HasEvent(e, "failed") \/ s.state = "failed"
        THEN [s EXCEPT !.age = age, !.wait = None, !.state = "failed"]
        ELSE IF configured
        THEN [s EXCEPT !.age = age, !.state = "pending",
                       !.wait = IF immediate THEN 0
                                ELSE DueIn(s.pace, age)]
        ELSE [s EXCEPT !.age = age, !.wait = None,
                       !.state = "configuration_required"]

\* ingest_message with persist_message_event as its callback: the message and
\* its event become visible in one commit.
ReceiveMessage ==
    /\ Listening
    /\ Len(msgs) < MaxMessages
    /\ \E message \in Message :
          LET id == Len(msgs) + 1
          IN  /\ message.status # "history"
              /\ msgs' = Append(msgs, message)
              /\ IF message.status = "new" /\ sub.status = "active"
                 THEN /\ event' = [event EXCEPT ![id] = "pending"]
                      /\ sub' = Enqueued(sub, event', FALSE)
                 ELSE UNCHANGED <<event, sub>>
    /\ UNCHANGED <<eventRun, runs, lastRun, artifacts, runsToday, task, proc,
                   configured>>

\* _merge_conversation_context of a background hydration, an import of the
\* conversation's history, and the sender's own reply store messages without
\* the callback.
MergeMessage ==
    /\ Listening
    /\ Len(msgs) < MaxMessages
    /\ \E message \in Message :
          /\ message.status # "new"
          /\ msgs' = Append(msgs, message)
    /\ UNCHANGED <<sub, event, eventRun, runs, lastRun, artifacts, runsToday,
                   task, proc, configured>>

-----------------------------------------------------------------------------
(* The user's mutations.                                                   *)

Inbound == {m \in 1..Len(msgs) : msgs[m].status # "sent"}

\* latest is the newest inbound message (0: none).
IsLatestInbound(latest) ==
    IF Inbound = {} THEN latest = 0
    ELSE latest \in Inbound /\ \A m \in Inbound : m <= latest

\* Mutant: only a new subscription is bootstrapped.
BootstrapOnce(latest) == latest # 0 /\ sub.status = "none"

\* Whether an upsert must bootstrap an event for the newest inbound message.
NeedsBootstrap(latest) ==
    /\ latest # 0
    /\ latest > sub.mark
    /\ event[latest] = "none"

\* Mutant: a resumed row does not look at its pending events.
ResumedIdle(s, e) ==
    [s EXCEPT !.state = IF s.version > 0 THEN "completed" ELSE "waiting"]

\* The tail of upsert_subscription for a row that was paused.
Resumed(s, e) ==
    IF s.state = "failed" THEN s
    ELSE IF HasEvent(e, "pending")
    THEN IF configured
         THEN [s EXCEPT !.state = "pending", !.age = 0, !.wait = 0]
         ELSE [s EXCEPT !.state = "configuration_required", !.wait = None]
    ELSE [s EXCEPT !.state = IF s.version > 0 THEN "completed" ELSE "waiting"]

\* The row s of an upsert, after its bootstrap event if it needs one.
Bootstrapped(s, e, latest) ==
    IF NeedsBootstrap(latest) THEN Enqueued(s, e, TRUE)
    ELSE IF latest <= s.mark /\ s.state \notin {"configuration_required", "failed"}
    THEN [s EXCEPT !.state = "waiting"]
    ELSE s

\* upsert_subscription: create, edit or resume the subscription.  The due time of
\* a batch that is pending is not computed again for the new pace.
Upsert(scope, pace) ==
    /\ Listening
    /\ sub.rev < MaxRevision
    /\ ~ (sub.status # "none" /\ sub.state = "analyzing")
    /\ \E latest \in 0..Len(msgs) :
          LET edited == [sub EXCEPT
                  !.status = "active", !.rev = @ + 1, !.scope = scope,
                  !.pace = pace,
                  !.state = IF sub.status # "none" THEN @
                            ELSE IF configured THEN "waiting"
                            ELSE "configuration_required"]
              started(e) == Bootstrapped(edited, e, latest)
          IN  /\ IsLatestInbound(latest)
              /\ event' = IF NeedsBootstrap(latest)
                          THEN [event EXCEPT ![latest] = "pending"] ELSE event
              /\ sub' = IF sub.status = "paused"
                        THEN Resumed(started(event'), event')
                        ELSE started(event')
    /\ UNCHANGED <<msgs, eventRun, runs, lastRun, artifacts, runsToday, task,
                   proc, configured>>

\* pause_subscription, which also cancels the run task if there is one.
Pause ==
    /\ Listening
    /\ sub.status # "none"
    /\ sub.rev < MaxRevision
    /\ sub' = [sub EXCEPT !.status = "paused", !.state = "waiting",
                          !.wait = None, !.age = None, !.rev = @ + 1]
    /\ task' = [task EXCEPT !.cancel = task.pc # "idle"]
    /\ UNCHANGED <<msgs, event, eventRun, runs, lastRun, artifacts, runsToday,
                   proc, configured>>

\* retry: the explicit confirmation that a failed batch, an uncertain response
\* and an uncertain conversation may be attempted again.
Retry ==
    /\ Listening
    /\ sub.status = "active"
    /\ sub.rev < MaxRevision
    /\ sub' = [sub EXCEPT
          !.convo = IF @ \in {"creating", "uncertain"} THEN "none" ELSE @,
          !.state = IF configured THEN "pending" ELSE "configuration_required",
          !.wait = IF configured THEN 0 ELSE None,
          !.age = 0,
          !.rev = @ + 1]
    /\ runs' = [r \in RunIds |->
          IF runs[r].resp = "uncertain"
          THEN [runs[r] EXCEPT !.resp = "retry-authorized"] ELSE runs[r]]
    /\ event' = [m \in MessageIds |->
          IF event[m] = "failed" THEN "pending" ELSE event[m]]
    /\ eventRun' = [m \in MessageIds |->
          IF event[m] = "failed" THEN 0 ELSE eventRun[m]]
    /\ UNCHANGED <<msgs, lastRun, artifacts, runsToday, task, proc, configured>>

-----------------------------------------------------------------------------
(* The window of a run.                                                    *)

Pending == {m \in MessageIds : event[m] = "pending"}

Load(lo, hi) == MapThenSumSet(LAMBDA m : msgs[m].size, lo..hi)

\* Mutant: the batch goes on after its first event until the budget is spent.
ExaminedFreely(m) ==
    /\ m > sub.mark
    /\ \A k \in (sub.mark + 1)..(m - 1) : Load(sub.mark + 1, k) < MaxChars

\* The loop of _bounded_incremental_watermark examines message m: no earlier
\* message exhausted the budget, and once a pending event is included every
\* further message had to fit.
Examined(m) ==
    /\ m > sub.mark
    /\ \A k \in (sub.mark + 1)..(m - 1) : Load(sub.mark + 1, k) < MaxChars
    /\ \A k \in (sub.mark + 1)..m :
          (\E p \in Pending : sub.mark < p /\ p < k) =>
              Load(sub.mark + 1, k) <= MaxChars

\* _bounded_incremental_watermark, as the set of values it may return (one).
IsBatchEnd(after) ==
    /\ after \in Pending
    /\ IF sub.mark = 0 THEN \A m \in Pending : m <= after
       ELSE IF \E m \in Pending : Examined(m)
       THEN Examined(after) /\ \A m \in Pending : Examined(m) => m <= after
       ELSE \A m \in Pending : after <= m

\* _build_context and _bounded_messages: the newest messages of the window
\* until the budget is spent.  A first run has no lower mark but reads only
\* InitialLimit messages.
Selected(after) ==
    LET first == IF sub.mark > 0 THEN sub.mark + 1
                 ELSE IF after > InitialLimit THEN after - InitialLimit + 1
                 ELSE 1
    IN  {m \in first..after : Load(m + 1, after) < MaxChars}

-----------------------------------------------------------------------------
(* The run task.                                                           *)

\* _run_loop: reap a finished task and start one for a due subscription.
Dispatch ==
    /\ proc = "up"
    /\ configured
    /\ task.pc = "idle"
    /\ sub.status = "active" /\ sub.state = "pending" /\ sub.wait = 0
    /\ runsToday < DailyLimit
    /\ lastRun < MaxRuns
    /\ task' = [pc |-> "ready", cancel |-> FALSE]
    /\ UNCHANGED <<msgs, sub, event, eventRun, runs, lastRun, artifacts,
                   runsToday, proc, configured>>

\* The await at pc ends normally: no pause has cancelled the task.
Resuming(pc) == task.pc = pc /\ ~task.cancel /\ proc # "down"

Claimable == /\ runsToday < DailyLimit
             /\ sub.status = "active" /\ sub.state = "pending" /\ sub.wait = 0

\* _claim_run returns None: what the loop saw no longer holds.
ClaimRefused ==
    /\ Resuming("ready")
    /\ ~Claimable
    /\ task' = IdleTask
    /\ UNCHANGED <<msgs, sub, event, eventRun, runs, lastRun, artifacts,
                   runsToday, proc, configured>>

\* _claim_run finds no pending event.
ClaimNothing ==
    /\ Resuming("ready")
    /\ Claimable
    /\ Pending = {}
    /\ sub' = [sub EXCEPT !.state = "waiting", !.wait = None, !.age = None]
    /\ task' = IdleTask
    /\ UNCHANGED <<msgs, event, eventRun, runs, lastRun, artifacts, runsToday,
                   proc, configured>>

\* Mutant: an attempt under an earlier revision is not seen.
AttemptsNow(after) ==
    {r \in 1..lastRun : /\ runs[r].before = sub.mark
                        /\ runs[r].after = after
                        /\ runs[r].rev = sub.rev}

\* The earlier runs on the window that ends at after.  _claim_run also returns
\* early when one of them is completed or running: BatchesSettleOnce and
\* OneRunInFlight say that none ever is.
Attempts(after) ==
    {r \in 1..lastRun : runs[r].before = sub.mark /\ runs[r].after = after}

\* _claim_run meets an earlier attempt on the window whose response is
\* uncertain: it closes the gate until retry.
ClaimUncertain ==
    /\ Resuming("ready")
    /\ Claimable
    /\ \E after \in MessageIds :
          /\ IsBatchEnd(after)
          /\ \E r \in Attempts(after) : runs[r].resp = "uncertain"
    /\ sub' = [sub EXCEPT !.state = "failed", !.wait = None, !.age = None]
    /\ task' = IdleTask
    /\ UNCHANGED <<msgs, event, eventRun, runs, lastRun, artifacts, runsToday,
                   proc, configured>>

\* _claim_run inserts the run and takes the pending events up to its end;
\* _build_context then selects the messages of its prompt.
Claim ==
    /\ Resuming("ready")
    /\ Claimable
    /\ \E after \in MessageIds :
          LET batch == {m \in Pending : m <= after}
          IN  /\ IsBatchEnd(after)
              /\ \A r \in Attempts(after) : runs[r].resp # "uncertain"
              /\ runs' = [runs EXCEPT ![lastRun + 1] =
                     [status |-> "running", rev |-> sub.rev,
                      before |-> sub.mark, after |-> after, resp |-> "",
                      ctx |-> Selected(after), scope |-> sub.scope]]
              /\ event' = [m \in MessageIds |->
                     IF m \in batch THEN "processing" ELSE event[m]]
              /\ eventRun' = [m \in MessageIds |->
                     IF m \in batch THEN lastRun + 1 ELSE eventRun[m]]
    /\ lastRun' = lastRun + 1
    /\ sub' = [sub EXCEPT !.state = "analyzing", !.wait = None, !.age = None]
    /\ runsToday' = runsToday + 1
    /\ task' = [task EXCEPT !.pc = "claimed"]
    /\ UNCHANGED <<msgs, artifacts, proc, configured>>

\* What an action of the task leaves alone once its run is claimed.
Unclaimed == <<msgs, lastRun, runsToday, proc, configured>>

\* Mutants: every event that is not settled moves, or only the last of a batch.
MoveOpenEvents(status) ==
    event' = [m \in MessageIds |->
        IF event[m] \in {"pending", "processing"} THEN status ELSE event[m]]
MoveLastEvent(status) ==
    event' = [m \in MessageIds |->
        IF event[m] = "processing" /\ m = runs[lastRun].after
        THEN status ELSE event[m]]

\* The events of the running run, moved to another status.
MoveEvents(status) ==
    event' = [m \in MessageIds |->
        IF event[m] = "processing" /\ eventRun[m] = lastRun
        THEN status ELSE event[m]]

\* _fail_run: the batch waits for an explicit retry.
FailRun ==
    /\ runs' = [runs EXCEPT ![lastRun].status = "failed"]
    /\ MoveEvents("failed")
    /\ sub' = [sub EXCEPT
          !.state = IF sub.status = "active" THEN "failed" ELSE "waiting",
          !.wait = None, !.age = None]
    /\ task' = IdleTask
    /\ UNCHANGED <<eventRun, artifacts>>

\* _cancel_run_rows: the events of the run become claimable again.
CancelRun ==
    /\ runs' = [runs EXCEPT ![lastRun].status = "cancelled"]
    /\ MoveEvents("pending")
    /\ eventRun' = [m \in MessageIds |->
          IF event[m] = "processing" /\ eventRun[m] = lastRun
          THEN 0 ELSE eventRun[m]]
    /\ sub' = IF sub.status = "active"
              THEN [sub EXCEPT !.state = "pending", !.wait = 0, !.age = 0]
              ELSE [sub EXCEPT !.state = "waiting", !.wait = None, !.age = None]
    /\ task' = IdleTask
    /\ UNCHANGED artifacts

\* The subscription is still the one the run was claimed under.
SameLease == sub.status = "active" /\ sub.rev = runs[lastRun].rev

\* Mutant: the revision is not compared.
AuthorizedAnyRevision ==
    runs[lastRun].status = "running" /\ sub.status = "active"

\* _run_authorized and _start_response_lease, before the request is sent.
Authorized == runs[lastRun].status = "running" /\ SameLease

\* The lease of the request is stored, and the request is sent.
SendRequest ==
    /\ runs' = [runs EXCEPT ![lastRun].resp = "creating"]
    /\ task' = [task EXCEPT !.pc = "analyzing"]
    /\ UNCHANGED <<sub, event, eventRun, artifacts>>

\* _ensure_external_conversation up to its await, for a run just claimed.  A
\* creation nobody saw the end of fails the run.
EnsureConversation ==
    /\ task.pc = "claimed"
    /\ CASE ~Authorized -> CancelRun
         [] Authorized /\ sub.convo = "ready" -> SendRequest
         [] Authorized /\ sub.convo \in {"creating", "uncertain"} -> FailRun
         [] OTHER -> /\ sub' = [sub EXCEPT !.convo = "creating"]
                     /\ task' = [task EXCEPT !.pc = "creating"]
                     /\ UNCHANGED <<event, eventRun, runs, artifacts>>
    /\ UNCHANGED Unclaimed

\* create_conversation returned an id: store it if the lease is still ours.
CreateReturns ==
    /\ Resuming("creating")
    /\ IF sub.convo = "creating"
       THEN /\ sub' = [sub EXCEPT !.convo = "ready"]
            /\ task' = [task EXCEPT !.pc = "created"]
            /\ UNCHANGED <<event, eventRun, runs, artifacts>>
       ELSE FailRun
    /\ UNCHANGED Unclaimed

\* The authorisation is checked again before the request is sent.
CheckAfterCreate ==
    /\ task.pc = "created"
    /\ IF Authorized THEN SendRequest ELSE CancelRun
    /\ UNCHANGED Unclaimed

\* create_conversation raised: the conversation may or may not exist.
CreateFails ==
    /\ Resuming("creating")
    /\ sub' = [sub EXCEPT !.convo = IF @ = "creating" THEN "uncertain" ELSE @]
    /\ task' = [task EXCEPT !.pc = "failing"]
    /\ UNCHANGED <<event, eventRun, runs, artifacts>>
    /\ UNCHANGED Unclaimed

\* analyze returned: _finish_response_lease stores the response id.
AnalyzeReturns ==
    /\ Resuming("analyzing")
    /\ runs' = [runs EXCEPT ![lastRun].resp = "response"]
    /\ task' = [task EXCEPT !.pc = "answered"]
    /\ UNCHANGED <<sub, event, eventRun, artifacts>>
    /\ UNCHANGED Unclaimed

\* analyze raised: _mark_response_uncertain.
AnalyzeFails ==
    /\ Resuming("analyzing")
    /\ runs' = [runs EXCEPT ![lastRun].resp = "uncertain"]
    /\ task' = [task EXCEPT !.pc = "failing"]
    /\ UNCHANGED <<sub, event, eventRun, artifacts>>
    /\ UNCHANGED Unclaimed

\* Mutants: the watermark moves to the newest message of the conversation, or to
\* the message after the window.
NewestMessage == Len(msgs)
AfterWindow == runs[lastRun].after + 1

\* Where the watermark moves: the end of the run's window.
Watermark == runs[lastRun].after

\* Mutant: events that arrived during the run are not looked at.
CompletedIdle(e) ==
    [sub EXCEPT !.mark = Watermark, !.version = @ + 1,
                !.state = "completed", !.age = None, !.wait = None]

\* The row after a completed run, e being the events by then.
CompletedRow(e) ==
    LET done == [sub EXCEPT !.mark = Watermark, !.version = @ + 1]
    IN  IF HasEvent(e, "pending")
        THEN [done EXCEPT !.state = "pending",
                          !.age = IF @ = None THEN 0 ELSE @,
                          !.wait = IF @ = None THEN 0 ELSE @]
        ELSE [done EXCEPT !.state = "completed", !.age = None, !.wait = None]

\* _complete_run: a result that passed _validate_result, under the lease of
\* the run, becomes the next artifact and moves the watermark.
Complete ==
    /\ task.pc = "answered"
    /\ SameLease
    /\ runs' = [runs EXCEPT ![lastRun].status = "completed"]
    /\ MoveEvents("completed")
    /\ artifacts' = [artifacts EXCEPT ![sub.version + 1] = lastRun]
    /\ sub' = CompletedRow(event')
    /\ task' = IdleTask
    /\ UNCHANGED eventRun
    /\ UNCHANGED Unclaimed

\* _complete_run under a revision that is no longer the run's.
Discard ==
    /\ task.pc = "answered"
    /\ ~SameLease
    /\ CancelRun
    /\ UNCHANGED Unclaimed

\* _validate_result refuses the evidence of the answer, or _run_thread reaches
\* _fail_run after a failed call.
Fail ==
    /\ task.pc \in {"answered", "failing"}
    /\ FailRun
    /\ UNCHANGED Unclaimed

\* A pause or stop() cancels the task: one that has not started is gone, one
\* that waits for an analysis marks its response uncertain.
Interrupt ==
    /\ task.pc \in {"ready", "creating", "analyzing"}
    /\ task.cancel \/ proc = "stopping"
    /\ task' = IF task.pc = "ready" THEN IdleTask
               ELSE [pc |-> "cancelled", cancel |-> FALSE]
    /\ runs' = IF task.pc = "analyzing"
               THEN [runs EXCEPT ![lastRun].resp = "uncertain"] ELSE runs
    /\ UNCHANGED <<sub, event, eventRun, artifacts>>
    /\ UNCHANGED Unclaimed

\* The handler of CancelledError: a stop fails the run, a pause releases it.
Unwind ==
    /\ task.pc = "cancelled"
    /\ IF proc = "stopping" THEN FailRun ELSE CancelRun
    /\ UNCHANGED Unclaimed

-----------------------------------------------------------------------------
(* The process and time.                                                   *)

\* stop(): no more dispatch; the task is cancelled and waited for.
Stop ==
    /\ Listening
    /\ proc' = "stopping"
    /\ UNCHANGED <<msgs, sub, event, eventRun, runs, lastRun, artifacts,
                   runsToday, task, configured>>

Stopped ==
    /\ proc = "stopping"
    /\ task.pc = "idle"
    /\ proc' = "down"
    /\ UNCHANGED <<msgs, sub, event, eventRun, runs, lastRun, artifacts,
                   runsToday, task, configured>>

\* The process dies: the task is gone, the rows stay.
Crash ==
    /\ proc # "down"
    /\ proc' = "down"
    /\ task' = IdleTask
    /\ UNCHANGED <<msgs, sub, event, eventRun, runs, lastRun, artifacts,
                   runsToday, configured>>

\* Mutant: recovery finds no interrupted run.
NoneInterrupted == {}

\* The runs a dead process left running.
Interrupted == {r \in RunIds : runs[r].status = "running"}

\* start(): _recover_interrupted, possibly under another configuration.
Start ==
    /\ proc = "down"
    /\ proc' = "up"
    /\ configured' \in Configurations
    /\ runs' = [r \in RunIds |->
          IF r \in Interrupted THEN [runs[r] EXCEPT !.status = "failed"]
          ELSE runs[r]]
    /\ event' = [m \in MessageIds |->
          IF event[m] = "processing" /\ eventRun[m] \in Interrupted
          THEN "failed" ELSE event[m]]
    /\ sub' = IF sub.status # "active" THEN sub
              ELSE IF HasEvent(event', "failed")
              THEN [sub EXCEPT !.state = "failed", !.wait = None, !.age = None]
              ELSE IF sub.state = "analyzing" THEN [sub EXCEPT !.state = "waiting"]
              ELSE sub
    /\ UNCHANGED <<msgs, eventRun, lastRun, artifacts, runsToday, task>>

Tick ==
    /\ sub.wait > 0 \/ (sub.age # None /\ sub.age < MaxAge)
    /\ sub' = [sub EXCEPT
          !.wait = IF @ > 0 THEN @ - 1 ELSE @,
          !.age = IF @ # None /\ @ < MaxAge THEN @ + 1 ELSE @]
    /\ UNCHANGED <<msgs, event, eventRun, runs, lastRun, artifacts, runsToday,
                   task, proc, configured>>

\* Midnight in Beijing: _daily_run_count starts again from zero.
NewDay ==
    /\ runsToday > 0
    /\ runsToday' = 0
    /\ UNCHANGED <<msgs, sub, event, eventRun, runs, lastRun, artifacts, task,
                   proc, configured>>

TaskStep == \/ ClaimRefused \/ ClaimNothing \/ ClaimUncertain \/ Claim
            \/ EnsureConversation
            \/ CreateReturns \/ CheckAfterCreate \/ CreateFails
            \/ AnalyzeReturns \/ AnalyzeFails
            \/ Complete \/ Discard \/ Fail \/ Interrupt \/ Unwind

UserStep == \/ \E scope \in Scopes, pace \in Paces : Upsert(scope, pace)
            \/ Pause
            \/ Retry

ProcessStep == Stop \/ Stopped \/ Crash \/ Start

Next ==
    \/ ReceiveMessage
    \/ MergeMessage
    \/ UserStep
    \/ Dispatch
    \/ TaskStep
    \/ ProcessStep
    \/ Tick
    \/ NewDay

Spec == Init /\ [][Next]_vars

\* The loop polls at an interval, so a due subscription is seen; the run task
\* is scheduled by the event loop and its HTTP calls have timeouts; time and
\* days pass.  Nothing obliges a user, a customer or the process to act.
Fairness ==
    /\ WF_vars(Dispatch)
    /\ WF_vars(TaskStep)
    /\ WF_vars(Tick)
    /\ WF_vars(NewDay)

FairSpec == Spec /\ Fairness
=============================================================================
