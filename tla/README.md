# TLA+ verification of the 循营 workbench

The repository is a local-first workbench for one seller: a FastAPI service
(`backend/app`), a React client (`src/`), SQLite as the authoritative store.
This directory models the parts of the service whose correctness depends on the
order of events: awaits, callbacks, restarts, late answers, stale copies. It has
six models, each a small family of modules with its properties, its TLC
configuration and its runs, and each with a proof module in which the TLA+ proof
system checks its main properties for every value of the constants.

## 1. Inventory

Service methods that touch the database are synchronous, and the loops, the tasks
and most HTTP handlers are `async def` on one event loop. What one of those does
between two awaits is atomic among them; everything else may come between two
awaits. Some handlers are plain `def` and run in a thread pool: in
`codex_verification_api.py` (points, decisions, hours),
`requirement_proposal_api.py`, `ledger_api.py:601-711` (attachments, exports),
`phrase_library_api.py`, and reads in others. Of these the deletion of an attachment
is modelled in three steps and the confirmation of a proposal, which begins with
`BEGIN IMMEDIATE`, is one; the decisions, hours and privacy marks are taken as one
step too, although their reads before the first write are not isolated from the
event loop. `main.py` starts the AI queue, the image archive, the analysis, the
requirements, the product collection and the listener in this order, and stops the
listener first.

| Component | State it keeps | Operations | Hard behaviour | Correct when | Model |
| --- | --- | --- | --- | --- | --- |
| Continuous analysis (`services/customer_auto_analysis.py`) | rows of `customer_analysis_threads`, `_events`, `_runs`, `_artifacts`; the tasks in `_runs` | upsert, pause, retry, record an event, claim, lease, complete, cancel, fail, recover | pause or edit during a request, answer after a pause, crash between two commits, unknown outcome of a paid request | one run in flight, batches settled once and whole, no repeated uncertain request, no message forgotten, only consented data leaves | `CustomerAutoAnalysis` |
| AI draft queue (`services/ai_queue.py`) | `ai_generation_tasks`, a bounded priority queue, busy conversations | enqueue, cancel, regenerate, run, recover | cancellation against a late answer, full queue, restart | every task ends, tasks of a conversation in order and one at a time | `ReplyPipeline` |
| Sending (`services/actions.py`, `automation.py`, `rate_limit.py`) | `messages.status`, `client_send_uuid`, automation state | send, auto send, ignore, arm, disarm | ambiguous delivery, crash while sending, two senders | unattended replies stay within their limits | `ReplyPipeline` |
| Ingestion (`services/processor.py`, `repository.py`, `conversation_history_import.py`) | `messages`, `conversations`, hydration tasks | process, hydrate, reconcile, import | the same message from four sources in any order | a message is stored once, live messages in order, the newest one in the end | `MessageIntake` |
| Listener (`services/listener*.py`, `connection_recovery.py`) | the listener task, pause flag, login | pause, resume, reconnect, replace the login, shut down | recovery against a user's pause or resume | one listener, with the current login; a pause is respected | `MessageIntake` |
| Customer images (`services/customer_images.py`) | capture jobs, archives | capture, retry, block, restore, delete | job lease after a crash, channel protection, a deletion during a download | bounded attempts, a block stops the channel, nothing deleted comes back | `CustomerImages` |
| Context gateway (`services/customer_context_gateway.py`, `_groups`, `_mcp`) | grants, tunnel binding, keys, OAuth bindings, groups, audits | grant, replace, revoke, expire, bind, read | credentials of four kinds that replace each other while threads move | nothing read without the one current grant | `ContextAccess` |
| Context sync (`services/customer_context_sync.py`, `_reader`) | sync states, read batches | text and image batches, links, confirm | replayed batch, late message, second key | every text confirmed once, nothing acknowledged unread | `ContextSync` |
| Ledger (`ledger.py`, the browser's copy) | projects, payment nodes, change orders, settlement issues, revision | confirm a payment, change order, settlement issue, save, quick accounting | repeated request, refund after write-off, a stale copy saved | the sums hold | `ProjectLedger` |
| Plans, task drafts, verification (`services/codex_plans.py`, `project_task_drafts.py`, `codex_verification.py`, `project_progress.py`) | plans, tasks, points, previews, progress, hours | generate, update, confirm, preview, report, test, decide | a plan confirmed while work goes on, a late test or event | one plan in force, decisions of a person stand | `ProjectDelivery` |
| Codex development (`services/codex_development.py`, `codex_sync.py`, `codex_runtime/`) | runs, approvals, intervals, the app server, its events | create, launch, pause, resume, cancel, decide, ingest | answers and notifications in any order, the app server or the backend exits | hours only while running, approvals as sent, no run starts for ever | `CodexRuns` |
| Paid exposure (`services/product_intelligence.py`, `product_traffic_domain.py`) | monitors, batches, checkpoints, jobs, expenses, collection runs, the collection lock | record, complete, change mode, retry, collect, schedule, restore | one lock for all readings, a reading that fails half-way, crash between commits, time passing while waiting | a purchase booked once, no reading oftener than asked, decisions on comparable batches | `ProductTraffic` |
| Requirements and proposals, relationships (`services/requirements.py`, `requirement_exchange.py`, `requirement_proposals.py`, `customer_identity.py`) | customers, leads, cases, document versions, previews, proposals, the analysis queue | import, edit, transfer, propose, confirm here or from outside, analyse, cancel | relations, grants and cases that change between a preview and its commit; a worker that stops | versions of a case without gaps, one version per request, nothing written outside the scope | `Requirements` |
| Materials (`services/requirement_materials.py`) | attachment rows and the file they share | upload, delete, review | two threads without a lock | no row without its file, no file without a row | `RequirementMaterials` |
| Global agent (`agents/global_agent/service.py`, `tools.py`) | threads, runs with steps and tool calls, summaries, tasks in memory | bind, submit, the nodes of the graph, cancel, confirm, recover | worker threads that read while messages arrive, cancellation and shutdown at every await, two threads about one conversation | one answer per thread, ended traces, summaries that cover what was read | `GlobalAgent` |
| Sales agents, intake forms | proposals | submit, confirm | mostly prompts and validation | a request has one effect | only `OpenLead`, `ConvertLead`, `ConfirmSalesAnalysis` in `Requirements` |
| Registration of listings, operating plans, market references, growth experiments, business analysis, prediction | snapshots, statistics | calculation | mostly data | numbers | not modelled |
| Event hub, notifier, status, backup, migrations | none that another part relies on | output | none | | not modelled |

How they meet. Ingestion calls `persist_message_event` and
`persist_message_jobs` as callbacks of `ingest_message`, so a message, its outbox
event and its image jobs share one commit; messages stored on other paths do not
have the first. A stored message asks the draft queue for a draft, whose
completion is handed to the unattended replies by the worker that generated it.
The read batches of the context gateway are over stored messages and archived
images. Plans, drafts, saves of the browser and Codex events all write the same
tasks and acceptance points. The product scheduler and the user's readings meet
at one lock. All hazards, with the line where each bites, are in `PROJECT.json`.

## 2. Modules

| Module | Contents |
| --- | --- |
| `CustomerAutoAnalysis` | the analysis: variables, one action per operation, `Spec`, `FairSpec` |
| `AnalysisOutbox` | the abstract promise of its outbox: record, take, settle as a whole, release |
| `CustomerAutoAnalysisProps`, `MCCustomerAutoAnalysis` | its properties with the instance of `AnalysisOutbox`; values for TLC |
| `CustomerAutoAnalysisProofs` | proofs: types, runs, events, artifacts; prompts; promises to the user and the refinement |
| `ReplyPipeline` | draft queue, human actions, unattended replies |
| `DraftTasks` | the abstract promise of the queue: tasks of a conversation one at a time, in order, and never after their end |
| `ReplyPipelineProps`, `MCReplyPipeline` | properties with the instance of `DraftTasks`; values |
| `ReplyPipelineProofs` | proofs: types; the queue and the limits; the refinement |
| `CustomerImages` | the image archive: jobs, leases, protection of the channel |
| `MessageIntake` | extends it with the listener, its supervisor, the replacement of the login, and the four sources of messages |
| `IntakeProps`, `MCIntake` | properties; values |
| `IntakeProofs` | proofs: types; the listener and the order of the rows; the images |
| `ContextAccess` | grants, keys, the tunnel slot, OAuth bindings, groups, resolution |
| `ContextSync` | extends it with the text and image batches its readers confirm |
| `Requirements` | extends it with customers, leads, cases, versions, previews, proposals and the analysis queue |
| `RequirementMaterials` | extends it with the pictures a user attaches |
| `GlobalAgent` | extends it with the runs of the global agent and the summaries they write |
| `ContextProps`, `MCContext` | properties; values |
| `ContextProofs` | proofs: grants and credentials; answers, traces and summaries; batches |
| `RequirementsProofs` | proofs: cases, versions, analyses and pictures; the types of the whole context family |
| `ProjectLedger` | the money of one project and the copies browsers hold |
| `ProjectDelivery` | extends it with plans, drafts, tasks, points, tests, decisions |
| `CodexRuns` | extends it with the runs, their launches, approvals and events |
| `DeliveryProps`, `MCDelivery` | properties; values |
| `FiniteSums` | lemmas about sums over finite sets, for the budget of a prompt and the money |
| `DeliveryProofs` | proofs: plans, tasks, decisions and runs; the money; types |
| `ProductTraffic` | purchases, checkpoints, the scheduler, the daily and the manual reading |
| `TrafficProps`, `MCTraffic` | properties; values |
| `TrafficProofs` | proofs: types and the lock; purchases, readings and decisions |

Parts that change the same rows extend each other, so that their actions
interleave in one specification; parts that only meet through a finished row are
separate models. No module has a recursive operator: all of them can be proved
about.

### How to read a model

An action is the code between two awaits. Where such a stretch commits more
than once the positions between the commits are states too, in which only a
crash may come between (`Listening`, `InGap` or `proc` in the guards say so). A
request that is refused, that repeats a request id or that was decided on a stale
revision changes nothing and is not an action.

Most models are a wide program over small data, and no single bound fits all of
it. `Setups` is a set of records, one of which is chosen in `Init` and never
changes: it bounds the counters and says which users' operations and which
answers of the outside may occur. One run then covers several small scenarios,
each with the bounds its own question needs, and every property is checked in
all of them. The operators `All...` of the MC modules list the setups with what each is for.

### Continuous analysis

| Variable | Code |
| --- | --- |
| `msgs` | the messages of one conversation; the id is the index; `new`, `history` (merged from the platform) or `sent` |
| `sub` | the row of `customer_analysis_threads`: `state` is `analysis_state`, `mark` is `last_analyzed_message_id`, `wait` is `next_run_at - now`, `age` is `now - pending_since`, `convo` is `external_conversation_id` by its prefix, `scope` is the authorised model and image choice, `pace` is `debounce_seconds` with `max_wait_seconds`, which an edit may change while a batch waits |
| `event`, `eventRun` | the rows of `customer_analysis_events` by message |
| `runs`, `lastRun` | the rows of `customer_analysis_runs`; `resp` is `external_response_id` by its prefix. `ctx` and `scope` are history: the messages of the prompt and the scope it was built under |
| `artifacts` | `customer_analysis_artifacts` by version |
| `runsToday` | what `_daily_run_count` counts |
| `task` | the run task; its `pc` is the await, or the gap between two commits, it is in |
| `proc`, `configured` | the process; whether the API key and the model are set |

| Code | Actions |
| --- | --- |
| `ingest_message` with `persist_message_event` | `ReceiveMessage` |
| hydration, import, the seller's reply | `MergeMessage` |
| `upsert_subscription`, `pause_subscription`, `retry` | `Upsert`, `Pause`, `Retry` |
| `_run_loop`, `_due_thread_ids` | `Dispatch` |
| `_claim_run`, `_build_context` | `ClaimRefused`, `ClaimNothing`, `ClaimUncertain`, `Claim` |
| `_ensure_external_conversation` | `EnsureConversation`, `CreateReturns`, `CreateFails` |
| `_run_authorized`, `_start_response_lease` | `CheckAfterCreate`, `SendRequest` |
| the call of `analyze` | `AnalyzeReturns`, `AnalyzeFails` |
| `_validate_result`, `_complete_run`, `_fail_run`, `_cancel_run_rows` | `Complete`, `Discard`, `Fail`, `FailRun`, `CancelRun` |
| `CancelledError` in `_run_thread` | `Interrupt`, `Unwind` |
| `stop`, `start`, `_recover_interrupted` | `Stop`, `Stopped`, `Crash`, `Start` |

Abstracted:

- One subscription. Subscriptions share the limit of two concurrent runs and
  the daily limit only: the first delays a dispatch, the second is `DailyLimit`.
- A message is its origin and the length of its text. Prompts, artifacts,
  hashes, evidence ids and token usage are left out; `_validate_result` accepts
  or refuses.
- Images: a failure to load one is swallowed by the code
  (`_build_context`), so only the scope that admits them is kept.
- Ids returned by OpenAI never begin with the prefixes the service uses for its
  own leases, and never repeat: the two branches that check this are left out.
- The API key and the model are missing together (`configured`); they change only
  with a restart.
- A row is never deleted under the service: the "not found" branches are left out.
- An import merges its messages one at a time.
- `_claim_run` returns early for a completed or running attempt on the same
  window. `BatchesSettleOnce` and `OneRunInFlight` show this never happens.
- A crash between `_run_authorized` and `_start_response_lease` leaves the same
  rows as one just before them.

### Drafts and replies

`msg` is `messages.status`, `tasks` the rows of `ai_generation_tasks`. The heap of
the queue is two sequences, manual tasks after automatic ones (`queue[TRUE]` is
served first); `putting` are the awaits in `put` of a full queue, `recovered` what
`start` has still to put. `worker` is what `_worker` awaits: the provider, the
debounce, the platform, or room for a task it puts back. `inFlight` are human
sends that wait for the platform. `armed`, `failures`, `dailySent` are the
automation state. Abstracted: risk words, the cool-down of the rate limit and the
clock make a reply eligible or not (`Eligible`); what a draft says; the platform
answers or fails, and whether it delivered a message whose answer was lost is
not seen. WeCom pushes are left out.

### Intake

`stored` tells by which of the four paths (live, hydrated, reconciled, imported) a
message came into the database, `rows` the order of the rows; `wire` what was pushed and not
read; `tasks` and `announcing` the tasks of `run_forever` before and after
`process` took the lock, `hydrations` and `recon` those that wait for the platform.
`run` are the `run_forever` tasks that are alive, `supervised` and `ops` the
supervisor with its lock, `recovering` and `login` the replacement of the login.
`archive`, `job`, `batch` and `fetching` are the image archive. Abstracted: one
channel, one image per message; what ages is a prefix of the messages (the
window of the reconciliation); an import is one step, its previews are left
out. Outbound messages, item details, a missing encryption key, the order
within one drain, `fetcher_unavailable` and the receipt of a restore are not
modelled.

### Context access and sync

`grant`, `slot`, `key`, `group`, `tokenGrant` are the rows of the tables;
`revision` and `bound` belong to the threads, `audits` is the history of the reads
that were authorised, by credential and grant. `sync` and `batch` are the sync
states and read batches, `image` what the archive says of an image. A resolution
and the tool call it serves have no await in between and are one action
(`CapabilityRead`, `SlotRead`, `KeyRead`, `TokenRead` over `Called`). Abstracted:
signatures, rate limits and the clock (a grant expires when it likes, `Expire`; a
token knows how many grants had been confirmed when it was issued); a summary
is what it covers.

### Requirements and materials

`customers` and `lead` are the rows that relate a conversation, `case` and `docs`
the cases with their sources and the versions of documents, `preview` and `proposal`
what waits for a confirmation, `task`, `queue`, `worker` the analyses (rows, the
queue in memory, the one worker), `attached`, `file`, `upload`, `removal` the
pictures: rows, the file they share, and the uploads and deletions in progress. An
operation runs without an await or in one transaction, so it is one action; a
deletion runs in a thread of its own and is three (`BeginRemoval`, `CommitRemoval`,
`RemoveFile`). Two consequences of the code that the model keeps:

- The unique index on conversation and version is shared by the analysis, which
  numbers per conversation, and by cases, which number per case: a conversation
  whose first version came from elsewhere cannot be the source of a new case's
  first import (`Free`).
- A transfer of a case moves the identities of all its sources; another case
  with one of these sources leaves the conversation in conflict until it is
  transferred too.

Abstracted: the content of documents and their validation, one file per
conversation, the project-level index, and a worker that dies with an
exception of its notifier (`requirements.py:288`), after which tasks wait for the
next start.

### Global agent

`run` carries the row of a run with its current step and tool call, `done` the nodes
behind it; `turn` is the asyncio task (between two nodes, or waiting),
`reading` what its worker thread has read of the conversation, `summary` the
versions of a conversation's summary. `PrepareRun` to `PublishCompleted` are the
nodes of the graph that await or write; `ReadTop` and `ReadTexts` are the two queries of the
worker thread; `Halted`, `HaltedInCancel` and `Recovered` are what a shutdown, a crash
inside a cancellation and a start do to runs. Abstracted: prompts, planning, retrieval,
profiles, threads without a conversation or over external access, the counts
that guard a rebinding, and a second cancellation of a cancelled run.

### Ledger, delivery and Codex

`rows`, `orders`, `issues`, `total` are one project; `current` says whose copy has
the latest revision, which is all a revision number is compared for. `tasks`,
`points`, `plans`, `preview` are rows; `staged` and `listed` distinguish a task's
row from its entry in the snapshot. `orders` and `issues` carry the ids of the
requests that booked them: each operation looks for its id among its own kind of row
only (`Paid`, `Ordered`, `Settled`). A plan belongs to a requirement case and, when
confirmed, supersedes those of its case (`Superseded`). `runs` carries the row and
the open interval of a run, `launch` and `acting` the requests that wait for the app
server, `working` the turns the app server works on, `events` its notifications not
yet read. `methods` are the request ids the adapter still knows, also of an app
server that has exited; `asked` says whose request the living app server gave an id
to; `approvals` are the rows with the run an answer went `to` and what it was told
(`sent`). That one app server process does not give an id twice is assumed of it
(external). `RunCompleted` is three commits without an await; `CrashCompleting` is a
crash behind the first or the second. Other events of two commits (the turn's id,
then the event) are one step. Abstracted: whole amounts; one acceptance point per
planned task; the blueprint of requirement version v estimates v hours; a closed
interval is one hour; text, worktrees, Git links and redaction. A run has one
operation of each kind in flight. Expenses, project acceptance and outcome freezes,
manually created points and the `blocked` event, which no code emits, are not
modelled.

### Paid exposure

`batches`, `jobs`, `values`, `expenses`, `monitor`, `daily` are rows; `task` is what
the scheduler and each HTTP request await, `queue` who holds and awaits
`_collection_lock`, `due` the checkpoints the scheduler's round has still to take
up; which of those due together come first is open. `clock` counts hours, `day` the
local day. Abstracted: the counters are one number; the user sees the current
revision; the reminder window of seven days is not left; a round looks at the first
`ReminderLimit` open batches for reminders (50 in the code), in an order that is
left open where starting times are equal; a reading whose day changes before it is
stored counts as failed. A lost login fails a job like any error, and stops a
collection. Planned batches and the preparation, start and replanning of one (the
route answers 410), the correction of a start, the invalidation in the scheduler,
operating and market plans, recommendations and views are not modelled; nor is a
save of the browser's whole ledger, which can change or remove the expense of a
purchase afterwards (`ledger.py:1365-1375`): `PaidOnce` speaks of what the purchase
books.

## 3. Runs

| Run | Properties | What it shows |
| --- | --- | --- |
| `analysis_runs` | `OneRunInFlight`, `ArtifactChain`, `BatchesSettleOnce`, `UncertainNeedsRetry`, `NothingForgotten`, `NothingStranded`, `ConsentHeld`, `OutboxSpec` | the protocol of runs under all interleavings of the user, the customer, OpenAI and the process |
| `analysis_windows` | `TypeOK`, `BatchIsInPrompt` | the batch window against the character budget |
| `analysis_liveness` | `ProcessingSettles`, `PendingServed`, `HardDeadline` | batches settle and due events are served; the debounce against its deadline while the user edits both |
| `analysis_scope_frozen`, `analysis_failed_resent`, `analysis_uncertain_resent`, `analysis_unsent_skipped` | `ScopeFrozenInFlight`, `FailedNotResent`, `UncertainNotResent`, `NothingUnsentSkipped` (violated) | section 4 |
| `reply_pipeline` | `TypeOK`, `QueueHolds`, `ServedInOrder`, `TaskServed` | queue, workers, human actions, unattended replies and restarts together; the tasks implement `DraftTasks` |
| `context` | `TypeOK`, `GrantsApart`, `BatchesHold`, `RequirementsHold`, `AnswersHold`, `EndedForGood`, `VersionsInScope`, `WorkEnds` | who may read while grants replace each other, that what is confirmed was read, what a case's versions rest on, and what the answers about a conversation cover |
| `message_intake` | `TypeOK`, `ListenerHolds`, `ImagesKept`, `DeletedForGood`, `IntakeSettles` | one listener, four sources of messages, images under deletion, protection and crashes |
| `delivery` | `TypeOK`, `MoneyAddsUp`, `WorkHolds`, `HumanWorkStands`, `StartingSettles` | money, plans, drafts, decisions and runs over the same rows |
| `product_traffic` | `TypeOK`, `PaidOnce`, `ReadingsHold`, `DecisionsHold`, `TrafficSettles` | purchases and their readings through one lock, with failures, demands for verification, lost logins and crashes |

### Bounds

- Analysis. `MaxMessages`, `MaxRuns` and `MaxRevision` cap the three counters and
  stand in the guards. `analysis_runs` has two messages (one in a batch, one that
  arrives in flight), three runs (an attempt, its repetition, the next window), four
  revisions (create, pause, resume, retry), two scopes that only matter by being
  different, hence the symmetry, and a daily limit of one, so that every further run
  waits for the next day. `analysis_windows` needs long conversations and few
  mutations: four messages of sizes 0 (an empty text), 1 and 2, a budget of 2 and an
  initial limit of 2, so first runs are cut, incremental batches end early, and a
  single message may exceed what is left. `analysis_liveness` has two paces, one
  tick of debounce against a longest wait of one or two, so an edit may shorten or
  extend the wait of a pending batch. Deadlock is checked: there is always a crash
  or a start to take.
- `reply_pipeline`. Two workers, a queue for one task and three tasks of two
  conversations: enough for a full queue, a task put back, a manual task behind
  an automatic one, and two replies that finish together against a daily limit
  of one.
- `context`. Three grants: one replaced, one replacing, one of another kind. Four
  texts in pages of two: a bootstrap, a full page, a partial one and a late
  message. Two identities that can claim a key. Two customers, two imports beside
  an edit or a proposal, two analyses over two stops; three uploads of one picture to
  two messages. Two answers: of two threads about one conversation while two
  messages arrive; of one thread with four messages against a full window of
  three and a recheck after two; of a thread that moves, with a stop.
- `message_intake`. Three messages of two conversations, a hydration of two, two
  images with two attempts, two runs of the listener (a cancelled one that unwinds
  and its successor), two requests in flight, two logins, up to two restarts.
- `delivery`. Two task keys, two plans over two requirement versions and three over two
  cases, three payment nodes, two request ids and two bookings, two runs, one fault, two
  approvals with one or two request ids, one browser tab beside the backend's own
  changes (the copy is current or stale).
- `product_traffic`. Two listings, three purchases whose windows meet or not, two
  checkpoints, two requests beside the scheduler, two days, one repetition, one
  crash.

`CHECK_DEADLOCK FALSE` in the last five: users are promised nothing, so a model
whose bounded counters are used up may stop, as the system may rest.

### Fairness

- Analysis. `Dispatch` is weakly fair: `_run_loop` polls at an interval and is
  never blocked by a run. `TaskStep` is weakly fair: the event loop resumes a
  ready task, the client's HTTP calls have timeouts, and a cancelled task is
  cancelled at its next await. `Tick` and `NewDay` are weakly fair: time passes.
  The liveness properties are conditional on the process staying up
  (`StaysUp`), and `PendingServed` excuses exactly the states the user interface
  reports (pause, failed gate, missing configuration) and the bound on runs.
- `ReplyPipeline`. The workers, the puts that wait for room and those of `start`
  are weakly fair: the provider and the platform answer or time out.
  `TaskServed` excuses two situations in which the workers may turn for ever,
  `Inverted` and `Overtaken` (section 4).
- `GlobalAgent`. The process is started again, its worker takes a task and the
  analysis answers (`Start`, `TakeTask`, `Answer`), and each run's task and thread go
  on (`RunStep`): calls of the model end within their timeout. `WorkEnds` can be one
  formula because a bounded number of asks is made.
- `MessageIntake`. Receiving, processing, the reconciliation loop, the image jobs
  and their back-off are weakly fair. That connections hold is not assumed:
  `NewestStored` asks for it.
- `CodexRuns`. The steps of a launch are weakly fair: a request is answered,
  refused or times out.
- `ProductTraffic`. Each task's steps are weakly fair. The scheduler's wake-up is
  strongly fair: it is disabled while another task is between two commits, which
  may happen again and again, yet the loop sleeps for a fixed time and then runs.

Nothing is assumed of the user, the customers, the choice among the platform's
answers, or, outside the context run, a start after a crash.

## 4. Where the code does not do what it says

Each of the first four is a run that TLC must find violated; the quotes are in
`PROJECT.json`.

1. **The scope can change in flight.** The upsert's guard looks at
   `analysis_state = "analyzing"`. A message that arrives during the request
   sets the state to `pending`; the edit is then accepted. The answer is
   discarded (`ConsentHeld`), so nothing is written under the old scope, but the
   request was paid for.
2. **A failed batch can be sent again without the explicit retry.** A pause
   overwrites the `failed` state and the resume does not look at failed events. If
   a message had arrived behind the failed batch, it is due at once, and its
   window starts at the watermark, before the failed messages.
3. **An uncertain request can be repeated on a wider window.** `_claim_run`
   recognises the attempt only by identical watermarks. `UncertainNeedsRetry` is
   what does hold.
4. **The watermark can pass text that was in no prompt.** Before the first
   pending event of a batch the budget does not stop the window, and
   `_bounded_messages` keeps the newest part. `BatchIsInPrompt` is what does
   hold: an incremental run's prompt has the text of every event that the run takes
   from above the watermark (an empty text may be left out). The watermark can also
   pass a failed batch: after a pause and a resume a later run may complete with a
   window that starts before it and a prompt that was cut. An explicit retry then
   makes its events pending below the watermark, and the next incremental run
   settles them although its prompt starts after them.

Others the models show, with what still holds stated as the property:

- **The backend may not come up again.** A run whose task a later plan retired is
  paused by `start`, which closes its interval and counts the hours on a task that
  is no longer in the snapshot (`codex_verification.py:312-317`,
  `codex_plans.py:556-563`, `codex_development.py:77-83`); nothing guards the call
  in `main.py:96`, while `tests/test_codex_managed_runtime.py:195` and `:213`
  expect a paused run. In the model this is `proc = "failed"`.
- **A full draft queue may turn for ever.** A manual task behind a later automatic
  one of its conversation is always put back (`Inverted`); a request that waits
  for room can be overtaken by a later task that is put back into the room it
  waits for (`Overtaken`).
- **A message may stay `sending`** after a crash: nothing recovers it. A repeated
  send relies on the client id being honoured by the platform.
- **A shortened longest wait does not reach a pending batch**: an accepted edit stores
  the new times and leaves `next_run_at` (`customer_auto_analysis.py:351-352`), so the
  batch keeps the due time of the old pace until the next message. `HardDeadline`
  speaks of the pace in force when a due time is set.
- **Two plans of one project can both stay confirmed** when they belong to different
  cases (`codex_plans.py:635-642`); the one confirmed last is in force. The routes
  that link a case or import a blueprint refuse a second case of a project, so it
  takes older data, or a project that is removed from the ledger and entered again
  under its id. The model has the two cases all the same.
- **A decision on an approval of an app server that has exited may answer another
  run's request.** The adapter keeps its ids (`app_server.py:124`, `:133-138`, `:218-221`),
  and the next app server may give the same one. A request under an id that a row has
  violates the unique column (`models.py:991`) and ends the consumer. `ApprovalsHold`
  excuses the stale row and nothing else. (An id of 0 is read as a notification,
  `app_server.py:115-131`; not modelled.)
- **A crash while a completion is recorded** can leave the run `running`, reopened by
  the report of its task (`codex_development.py:526-533`, `:544-562`); the next start
  pauses it.
- **Batches that never close can starve the reminders of newer ones**: a round looks at
  50 open batches by their planned time (`product_intelligence.py:1244-1252`).
  `TrafficSettles` promises a reminder only to a batch among the first.
- **A quick accounting after a settlement issue** books a row the sums do not
  know; `MoneyAddsUp` holds of every project without such a row (`late`).
- **The delay of a late automatic reading is only computed when its job is
  finalised**: until then, and for ever after a crash just there, a batch that was
  counted late takes part in decisions. `DecisionsHold` says exactly this.
- **A repetition has no due check**: the last checkpoint can be read early and
  close the batch, which the manual path refuses.
- **A verification during the last reading, or a crash between the last reading and
  its end**, leaves a job whose repetition is refused as having nothing to read; a
  crash in the daily reading leaves its row running and the day blocked.
- **A text batch linked to a superseded image batch is never confirmed**:
  the link is never renewed (`customer_context_sync.py:213-214`) and the
  confirmation refuses it (`:257`), although the comment at `:187` says that
  nothing unreadable is left pending.
- **A shutdown leaves traces that run.** Its tasks' handlers set their runs to
  interrupted first, so its own last update finds none and a tool call that ran
  stays `running` (`agents/global_agent/service.py:2793`); a crash between the two
  commits of a cancellation leaves a running step of a cancelled run, which
  `recover_orphaned_runs` does not look at. `TraceEnds` says exactly this.
- **A cancelled run can keep its answer**: after `persist_answer` the answer and the
  summary stand, and its proposal of a customer can still be confirmed.
- **More texts than a full window** between two summaries are passed by the
  watermark unread (the exemption in `SummaryCoversRead`).
- **An upload beside a deletion can lose the file of its row, and two deletions can
  leave the file without a row** (`requirement_materials.py:425-442`); `mixed` records
  that it happened.
- **An import re-arms every image of a conversation**, so importing or deleting the
  one blocked job ends the protection of the channel.

## 5. Proofs

A theorem holds for every value of the constants that meets the assumptions of its
modules. TLC evaluates each of them in a run. They say what the code or its
schemas enforce and what a bound is:

- `BoundsAssumption`, `SettingsAssumption`: positive bounds; sizes are numbers,
  budgets and limits are positive, and no pace has a debounce above its longest
  wait, which the schema of the request enforces.
- `PipelineAssumption`, `IntakeAssumption`, `ImagesAssumption`: positive bounds and
  limits; each message has a conversation.
- `AccessAssumption`, `SyncAssumption`, `RequirementsAssumption`, `AgentAssumption`:
  positive bounds and pages; threads of the agent are no conversations; the
  words that stand for nobody are no names.
- `LedgerAssumption`: a contract's payment nodes add up to no more than its total,
  none is written off and none was booked by a request. `DeliveryAssumption`:
  finitely many task keys, and at least one case. `RunAssumption`: runs are
  numbered, and notifications are those that `events.py` knows.
- `TrafficAssumption`: a purchase names a listing and a cost, the hours of the
  checkpoints ascend, delays and limits are numbers, at least one batch is looked at for
  reminders, and a setup offers what the
  routes and the platform can do.

Every invariant was first checked with TLC on the bounds of its run.

| Module | Theorem | States | Argument |
| --- | --- | --- | --- |
| `CustomerAutoAnalysisProofs` | `TypesHold` | `[]TypeOK` | `TypeInv` adds `RunBounds`: a task between dispatch and claim still has a run left; without it `lastRun + 1` could leave its type. One lemma per group of actions |
| | `SingleFlight` | `[]OneRunInFlight` | `FlightInv`: what the rows say in each position of the task, also in a process that is down |
| | `SettleOnce` | `[]BatchesSettleOnce` | `BatchInv`: the events of the run in flight lie in its window and its last event is among them; needs `FlightInv` |
| | `ArtifactsChain` | `[]ArtifactChain` | `ChainInv`: the run in flight starts at the watermark and every artifact is older than it; needs `FlightInv` |
| | `NoUncertainRepeat` | `[]UncertainNeedsRetry` | only the newest response becomes uncertain, a claim checks the older ones |
| | `Deadline` | `HardDeadline` | `DueInv`: a pending row has its times, and a run whose lease holds finds a due time only on a pending row, so that `_complete_run` takes over none that an edit left; needs `LeaseInv` |
| | `Remembered` | `[]NothingForgotten` | `CoveredInv`: what was received under a subscription has an event, a resume covers the rest, the watermark only passes a settled event |
| | `NoneStranded` | `[]NothingStranded` | `StrandedInv`, with `FlightInv` for the states in which a run lives |
| | `Consent` | `ConsentHeld` | `LeaseInv`: the prompt's scope is the scope of the run's revision, as long as the revision is unchanged |
| | `PromptsHoldBatches` | `[]BatchIsInPrompt` | `PromptInv`: also, only an event names a run. The sums are as the budget is counted: what follows a pending event in its window is lighter than the window (`LoadWithout`), and the window of a batch that goes on after the event fits the budget (`BatchFits`) |
| | `ImplementsOutbox` | `OutboxSpec` | each action maps to one abstract step or a stutter; needs `FlightInv` and `BatchInv` for the settlement as a whole |
| `ReplyPipelineProofs` | `TypesHold` | `[]TypeOK` | `TypeInv` adds `Resting`: a process that is down or starting has an empty memory |
| | `QueueIsSafe` | `[]QueueHolds` | no task lost and none twice (`TasksInHand`: queue, workers, puts and `recovered` hold disjoint tasks), one worker per conversation, the limits (`OneSender`: the lock of `auto_send`) |
| | `ImplementsDraftTasks` | `ServedInOrder` | each action maps to a step of `DraftTasks` or a stutter: a task is taken only when no earlier one of its conversation is before it in the queue |
| `IntakeProofs` | `TypesHold` | `[]TypeOK` | `ImageInv`, `SupervisorInv`, `FlowInv` together |
| | `ListenerIsSafe` | `[]ListenerHolds` | `OneRun`, `OneReplacement`, `CurrentLogin` for the listener; for the order, `OnTheWay`: wire and tasks ascend and lie above every live row |
| | `ImagesAreKept` | `[]ImagesKept` | `ImagesFit`: each pair of archive status and job status that can occur, with downloads and crashes; the circuit is as `CircuitHolds` says |
| | `DeletedStays` | `DeletedForGood` | from `ImageInv`, step by step |
| `ContextProofs` | `GrantsStayApart` | `[]GrantsApart` | `GrantsInv`: revisions and keys fit the grants, a credential's audits lie on its grant |
| | `EndedStays` | `EndedForGood` | every step goes `Onward`: what a grant's validity rests on only falls |
| | `AnswersAreKept` | `[]AnswersHold` | `AnswersInv`: what each node leaves in the row (`RunsFit`), what a worker thread has read of the texts by then (`ReadingsFit`), the chain of summary versions (`SummariesFit`) |
| | `BatchesAreAcknowledged` | `[]BatchesHold` | `BatchesInv`, for each scope: a pending batch is for the version of the scope's state and every other for an older one, so that two of a kind never share a base (`BasesFit`); the confirmed texts have no gap and end at the watermark, and the ones past the summary fit a page (`DoneFit`, `TextsFit`); an image that counts as seen is in a batch that was read, and a text batch is confirmed only when the batch it links is (`SeenFit`, `LinksFit`). Every step that is not the scope's own only appends rows that end at a new base (`RowsGo`) |
| `RequirementsProofs` | `RequirementsAreKept` | `[]RequirementsHold` | `ReqInv`: a case has the versions up to its current one, each once (`VersionsFit`); its sources are the conversations of its versions and the scopes of the proposals that came to it (`SourcesFit`); who wrote a version is closed, has a result or is completed, so that none writes again (`AuthorsFit`); one analysis of a conversation is in work (`TasksFit`). `MaterialsInv`: which rows a removal counts on while an upload or another removal is under way |
| | `TypesHold` | `[]TypeOK` | the types of `ContextAccess`, `ContextSync`, `Requirements`, `RequirementMaterials` and `GlobalAgent`, from the invariants above: counters stay below their bounds because the steps that count ask for it (`CountsFit`), and a setup never changes |
| | `VersionsStayInScope` | `VersionsInScope` | from `ReqInv` and `GrantsInv`: what `StillFits` and `SourceHolds` look at again holds of the rows that are written (`WrittenLinks`) |
| `DeliveryProofs` | `WorkIsKept` | `[]WorkHolds` | `DeliveryInv`: only created runs are launched, acted on, worked and reported on; an interval is open only while the run runs; while the app server that asked is there, a decision being recorded is out of the adapter and equals what was sent to the run that asked; the dates of the plans are the ranks of their confirmations; a key without a row is blank, and what a current preview calls new has no row. Most steps are gentle (no plan, row, listing or human decision changes); the six others are proved one by one |
| | `HumanStands` | `HumanWorkStands` | from `DeliveryInv` |
| | `MoneyIsKept` | `[]MoneyAddsUp` | `MoneyInv`: no request is carried twice by rows of one kind; in a ledger without a late row received and written off stay below the total and what is pending below the rest. Sums over rows by induction over their subsets; the write-off by a waterfall over the order of due dates; the quick accounting raises the total |
| | `TypesHold` | `[]TypeOK` | the two together; progress is a percentage because it is the rounded share of a part of the weights |
| `TrafficProofs` | `TypesHold` | `[]TypeOK` | `TrafficInv`: rows and tasks fit each other, the queue of the lock holds exactly the tasks that await or hold it, each once, and at most one task is between two of its commits |
| | `PurchasesAreOnce` | `[]PaidOnce` | `FullInv`, which is `TrafficInv` and `Promises`: an interrupted or repeated purchase finds the batch of its request |
| | `ReadingsAreKept` | `[]ReadingsHold` | `Attempts`: a job that can be started, or that a task is about to begin, has a reading left; one that is about to begin and is due in the round again has two. `Counted`: a row is completed only with its value |
| | `DecisionsAreSound` | `[]DecisionsHold` | `OnTime`: a checkpoint that is due or taken up has reached its hour, or a repetition was asked for. `Dated`: without a crash, the delay of a completed checkpoint that nobody reads covers all its values; then the windows follow from the starts |

Two techniques recur. The installed provers cannot instantiate the library's
induction theorems, so an induction is done by the least counterexample (`WFMin`
over the numbers) in the lemmas about sums and subsets. And a step that changes many
fields is first reduced to a small named predicate (`Gentle`, `Onward`,
`GroundKept`, `AgentsRest`, `Calm`), so that most actions are dealt with by one
lemma.

Only model-checked: the liveness properties and `WorkEnds`, because fairness and
ENABLED are out of the prover's reach. Every invariant, every action property and
both refinements that a passing run checks are also proved.

## 6. Plan

Every component above that is marked as modelled in part can be widened; its note in
`PROJECT.json` says what is left out. The safety properties that the runs check are
all proved.

Not modelled, and why: the reply strategy and the sales agent are prompts and
retrieval around a sequential graph; registration, market references, operating
plans, growth experiments, prediction and business analysis calculate over
snapshots; migrations run once before anything else; the event hub, the
notifier, status and backup are output on which no modelled state depends; the
frontend beyond its copy of the ledger shows what the API returns.
