------------------------------ MODULE CodexRuns ------------------------------
(***************************************************************************)
(* The managed development runs of Codex (codex_development.py) with the   *)
(* app server they talk to (codex_runtime/app_server.py), the ingestion of *)
(* its events (codex_sync.py) and the intervals their hours come from      *)
(* (codex_verification.py), over the delivery of the project.              *)
(*                                                                         *)
(* The runs and their events are handled on one event loop: what lies      *)
(* between two awaits is one step.  So is a decision or an hour booked in  *)
(* codex_verification_api.py, whose handlers run in threads: their reads   *)
(* and their commit are not told apart.  The app server answers a request, *)
(* or the request fails or times out; the notifications of a turn may be   *)
(* read before or after the answer that began it.  Every closed interval   *)
(* counts one hour.  The notice that a turn was interrupted changes        *)
(* nothing and is left out.                                                *)
(***************************************************************************)
EXTENDS ProjectDelivery

CONSTANTS
    RunIds,       \* runs, numbered in the order of their creation
    RequestIds    \* ids an app server gives its requests; the next one gives them again

Reports == {"task_started", "test_passed", "test_failed", "completed", "failed"}

ASSUME RunAssumption ==
    /\ IsFiniteSet(RunIds) /\ RunIds = 1..Cardinality(RunIds)
    /\ 0 \notin RequestIds
    /\ \A s \in Setups : s.says \subseteq Reports /\ s.ids \subseteq RequestIds

VARIABLES
    proc,          \* "up", "down", or "failed": the start of the backend raised
    server,        \* the app server process is alive
    consumer,      \* _consume_events is alive
    runs,          \* row and open interval of each run
    launch,        \* what _launch of the run waits for
    acting,        \* operations of the user that wait for the app server
    working,       \* runs whose turn is in progress in the app server
    methods,       \* _approval_methods: the request ids the adapter holds
    asked,         \* request id -> run whose request the living app server gave it to
    approvals,     \* approval rows, oldest first, with the answers that were sent
    events,        \* queue of the app server's notifications
    emitted,       \* how many notifications there were
    faults         \* how often the app server or the backend went down

requests == <<methods, asked>>

runVars == <<proc, server, consumer, runs, launch, acting, working, requests, approvals,
             events, emitted, faults>>

deliveryRest == <<setup, ledgerVars, version, plans, preview, progress, weights, testing>>

vars == <<setup, ledgerVars, current, deliveryVars, runVars>>

NoRun == [task |-> "none", status |-> "none", thread |-> FALSE, turn |-> FALSE, open |-> FALSE]

Created == {r \in RunIds : runs[r].status # "none"}

Ongoing == {"starting", "running", "waiting_approval"}       \* ACTIVE_STATUSES

Locked == Ongoing \cup {"paused"}                            \* TASK_LOCK_STATUSES

-----------------------------------------------------------------------------
(* Intervals.                                                              *)

\* The hours of a closed interval go to the task's entry in the snapshot; without
\* the entry the close raises and its transaction is rolled back.
CanClose(r) == runs[r].open => tasks[runs[r].task].listed

Closed(r, status) == [runs EXCEPT ![r].open = FALSE, ![r].status = status]

Opened(r) == [runs EXCEPT ![r].open = TRUE, ![r].status = "running"]

TimedBy(r) == IF runs[r].open THEN Timed(tasks, runs[r].task) ELSE tasks

SavedBy(r) == IF runs[r].open THEN Saved({}) ELSE UNCHANGED current

\* The interval of run r is closed and the runs become rs.
Closes(r, rs) ==
    /\ CanClose(r)
    /\ runs' = rs
    /\ tasks' = TimedBy(r)
    /\ SavedBy(r)
    /\ UNCHANGED <<deliveryRest, points>>

Still == UNCHANGED <<deliveryRest, current, tasks, points>>

-----------------------------------------------------------------------------
(* Creation and launch.                                                    *)

\* A task may have one ongoing run; one that is paused does not count.
Create(r, k) ==
    /\ proc = "up"
    /\ r \in 1..setup.runs /\ r - 1 \in Created \cup {0} /\ r \notin Created
    /\ tasks[k].row # "none"
    /\ \E p \in DOMAIN plans : plans[p].status = "confirmed"
    /\ \A s \in Created : runs[s].task = k => runs[s].status \notin Ongoing
    /\ runs' = [runs EXCEPT ![r] = [NoRun EXCEPT !.task = k, !.status = "starting"]]
    /\ launch' = [launch EXCEPT ![r] = "creating"]
    /\ Still
    /\ UNCHANGED <<proc, server, consumer, acting, working, requests, approvals, events,
                   emitted, faults>>

\* The thread is there: unless it was cancelled, the run is running, whatever the
\* user did to it meanwhile.
ThreadCreated(r) ==
    /\ launch[r] = "creating"
    /\ server' = TRUE
    /\ IF runs[r].status = "cancelled"
       THEN launch' = [launch EXCEPT ![r] = "off"] /\ UNCHANGED runs
       ELSE /\ launch' = [launch EXCEPT ![r] = "turning"]
            /\ runs' = [Opened(r) EXCEPT ![r].thread = TRUE]
    /\ Still
    /\ UNCHANGED <<proc, consumer, acting, working, requests, approvals, events, emitted,
                   faults>>

\* The app server begins the turn.
TurnBegins(r) ==
    /\ server
    /\ launch[r] = "turning"
    /\ launch' = [launch EXCEPT ![r] = "begun"]
    /\ working' = working \cup {r}
    /\ Still
    /\ UNCHANGED <<proc, server, consumer, runs, acting, requests, approvals, events,
                   emitted, faults>>

TurnRecorded(r) ==
    /\ launch[r] = "begun"
    /\ launch' = [launch EXCEPT ![r] = "off"]
    /\ runs' = IF runs[r].status = "cancelled" THEN runs
               ELSE [runs EXCEPT ![r].turn = TRUE]
    /\ Still
    /\ UNCHANGED <<proc, server, consumer, acting, working, requests, approvals, events,
                   emitted, faults>>

\* Mutant: the failure is not recorded.
LaunchDropped(r) ==
    /\ launch[r] # "off"
    /\ launch' = [launch EXCEPT ![r] = "off"]
    /\ UNCHANGED runs
    /\ Still
    /\ UNCHANGED <<proc, server, consumer, acting, working, requests, approvals, events,
                   emitted, faults>>

\* An answer that says no, or none in time, ends the launch with run_failed; if that
\* raises, the launch ends without it.
LaunchFails(r) ==
    /\ launch[r] # "off"
    /\ launch' = [launch EXCEPT ![r] = "off"]
    /\ \/ Closes(r, Closed(r, "failed"))
       \/ ~CanClose(r) /\ UNCHANGED runs /\ Still
    /\ UNCHANGED <<proc, server, consumer, acting, working, requests, approvals, events,
                   emitted, faults>>

-----------------------------------------------------------------------------
(* The user's pause, cancel and resume (_action).                          *)

Stopped(op) == IF op = "pause" THEN "paused" ELSE "cancelled"

\* Without a turn id there is nothing to interrupt, and nothing is awaited.
StopAtOnce(r, op) ==
    /\ proc = "up"
    /\ runs[r].status \in Ongoing
    /\ ~runs[r].turn
    /\ Closes(r, Closed(r, Stopped(op)))
    /\ UNCHANGED <<proc, server, consumer, launch, acting, working, requests, approvals,
                   events, emitted, faults>>

Ask(r, op) ==
    /\ proc = "up"
    /\ op \notin acting[r]
    /\ IF op = "resume"
       THEN /\ runs[r].status \in {"paused", "failed"} /\ runs[r].thread
            /\ tasks[runs[r].task].hours < setup.hours
       ELSE runs[r].status \in Ongoing /\ runs[r].turn
    /\ acting' = [acting EXCEPT ![r] = @ \cup {op}]
    /\ Still
    /\ UNCHANGED <<proc, server, consumer, runs, launch, working, requests, approvals,
                   events, emitted, faults>>

\* The turn is interrupted, and the run is paused or cancelled whatever became of
\* it meanwhile; when the interval cannot be closed the run stays as it is.
StopAnswered(r, op) ==
    /\ op \in acting[r] \cap {"pause", "cancel"}
    /\ server
    /\ acting' = [acting EXCEPT ![r] = @ \ {op}]
    /\ working' = working \ {r}
    /\ \/ Closes(r, Closed(r, Stopped(op)))
       \/ ~CanClose(r) /\ UNCHANGED runs /\ Still
    /\ UNCHANGED <<proc, server, consumer, launch, requests, approvals, events, emitted,
                   faults>>

\* A resumed thread begins a turn, in a new app server if the old one is gone.
TurnResumes(r) ==
    /\ "resume" \in acting[r]
    /\ server' = TRUE
    /\ acting' = [acting EXCEPT ![r] = (@ \ {"resume"}) \cup {"resumed"}]
    /\ working' = working \cup {r}
    /\ Still
    /\ UNCHANGED <<proc, consumer, runs, launch, requests, approvals, events, emitted,
                   faults>>

ResumeAnswered(r) ==
    /\ "resumed" \in acting[r]
    /\ acting' = [acting EXCEPT ![r] = @ \ {"resumed"}]
    /\ runs' = [Opened(r) EXCEPT ![r].turn = TRUE]
    /\ Still
    /\ UNCHANGED <<proc, server, consumer, launch, working, requests, approvals, events,
                   emitted, faults>>

\* A request that fails changes nothing; it may have started an app server.
RequestFails(r, op) ==
    /\ op \in acting[r]
    /\ acting' = [acting EXCEPT ![r] = @ \ {op}]
    /\ server' \in {server, TRUE}
    /\ Still
    /\ UNCHANGED <<proc, consumer, runs, launch, working, requests, approvals, events,
                   emitted, faults>>

-----------------------------------------------------------------------------
(* Approvals.                                                              *)

\* Mutant: the request stays with the adapter.
AnswerApprovalKept(a, d) ==
    LET i == approvals[a].id IN
    /\ proc = "up" /\ server
    /\ approvals[a].status = "pending"
    /\ i \in methods
    /\ approvals' = [approvals EXCEPT ![a] =
                        [@ EXCEPT !.to = IF @ = 0 THEN asked[i] ELSE @,
                                  !.sent = IF @ = "none" THEN d ELSE @,
                                  !.recording = @ \cup {d}]]
    /\ Still
    /\ UNCHANGED <<proc, server, consumer, runs, launch, acting, working, requests, events,
                   emitted, faults>>

\* The adapter takes the request out before it sends the answer: a second decision
\* finds none.  It knows a request by its id alone and keeps it when the app server
\* exits: the answer goes to the run that the living app server gave this id to, if
\* to any.  An answer to an app server that is gone is lost.
AnswerApproval(a, d) ==
    LET i == approvals[a].id IN
    /\ proc = "up"
    /\ approvals[a].status = "pending"
    /\ i \in methods
    /\ methods' = methods \ {i}
    /\ IF server
       THEN /\ approvals' = [approvals EXCEPT ![a] =
                   [@ EXCEPT !.to = asked[i], !.sent = d,
                             !.recording = approvals[a].recording \cup {d}]]
            /\ working' = IF d = "cancelled" THEN working \ {asked[i]} ELSE working
       ELSE UNCHANGED <<approvals, working>>
    /\ Still
    /\ UNCHANGED <<proc, server, consumer, runs, launch, acting, asked, events, emitted,
                   faults>>

\* The decision is recorded, and a run that waited for it goes on or is cancelled.
DecisionRecorded(a, d) ==
    LET r == approvals[a].run IN
    /\ d \in approvals[a].recording
    /\ approvals' = [approvals EXCEPT ![a] =
                        [@ EXCEPT !.status = d,
                                  !.recording = approvals[a].recording \ {d}]]
    /\ runs' = IF runs[r].status # "waiting_approval" THEN runs
               ELSE IF d = "cancelled" THEN [runs EXCEPT ![r].status = "cancelled"]
               ELSE Opened(r)
    /\ Still
    /\ UNCHANGED <<proc, server, consumer, launch, acting, working, requests, events,
                   emitted, faults>>

-----------------------------------------------------------------------------
(* The app server's notifications and their consumer.                      *)

AskedFor == Len(approvals)
              + Cardinality({i \in DOMAIN events : events[i].type = "approval"})

\* A turn in progress reports; a completed or failed one is over.
Notify(r, type) ==
    /\ r \in working
    /\ emitted < setup.events
    /\ events' = Append(events, [run |-> r, type |-> type, id |-> 0])
    /\ working' = IF type \in {"completed", "failed"} THEN working \ {r} ELSE working
    /\ emitted' = emitted + 1
    /\ Still
    /\ UNCHANGED <<proc, server, consumer, runs, launch, acting, requests, approvals,
                   faults>>

\* A turn in progress asks for an approval; the reader of the adapter keeps the
\* request before its event is consumed.
RequestApproval(r, i) ==
    /\ r \in working
    /\ emitted < setup.events
    /\ AskedFor < setup.approvals
    /\ asked[i] = 0
    /\ asked' = [asked EXCEPT ![i] = r]
    /\ methods' = methods \cup {i}
    /\ events' = Append(events, [run |-> r, type |-> "approval", id |-> i])
    /\ emitted' = emitted + 1
    /\ Still
    /\ UNCHANGED <<proc, server, consumer, runs, launch, acting, working, approvals,
                   faults>>

\* Which run an event belongs to: the run of its thread, or the newest ongoing run
\* if the event has no thread; 0 if there is none.
RunOf(e) ==
    IF e.run # 0 THEN e.run
    ELSE Max({r \in Created : runs[r].status \in Ongoing} \cup {0})

Heard == events # <<>> /\ proc = "up" /\ consumer /\ events' = Tail(events)

Ignored ==
    /\ Heard
    /\ RunOf(Head(events)) = 0
    /\ Still
    /\ UNCHANGED <<proc, server, consumer, runs, launch, acting, working, requests,
                   approvals, emitted, faults>>

\* Progress and tests make the run a running one, also when it is over or waits;
\* no interval is opened for that (ingest).
Progressed(r, type) ==
    /\ Heard
    /\ r = RunOf(Head(events)) /\ type = Head(events).type
    /\ type \in {"task_started", "test_passed", "test_failed"}
    /\ runs' = [runs EXCEPT ![r].status = "running", ![r].turn = TRUE]
    /\ Event(runs[r].task, type)
    /\ UNCHANGED <<deliveryRest, current>>
    /\ UNCHANGED <<proc, server, consumer, launch, acting, working, requests, approvals,
                   emitted, faults>>

\* The column of the request id is unique, over all app servers there were.
Taken(i) == \E a \in DOMAIN approvals : approvals[a].id = i

ApprovalAsked(r) ==
    /\ Heard
    /\ r = RunOf(Head(events)) /\ Head(events).type = "approval"
    /\ ~Taken(Head(events).id)
    /\ Closes(r, [Closed(r, "waiting_approval") EXCEPT ![r].turn = TRUE])
    /\ approvals' = Append(approvals, [run |-> r, id |-> Head(events).id, status |-> "pending",
                                       stale |-> asked[Head(events).id] # r, to |-> 0,
                                       sent |-> "none", recording |-> {}])
    /\ UNCHANGED <<proc, server, consumer, launch, acting, working, requests, emitted,
                   faults>>

RunFailed(r) ==
    /\ Heard
    /\ r = RunOf(Head(events)) /\ r # 0 /\ Head(events).type = "failed"
    /\ Closes(r, Closed(r, "failed"))
    /\ UNCHANGED <<proc, server, consumer, launch, acting, working, requests, approvals,
                   emitted, faults>>

\* The task counts as implemented, but not as verified.
Implemented(r) ==
    LET k == runs[r].task IN
    /\ tasks' = [TimedBy(r) EXCEPT ![k].codex = "implemented"]
    /\ points' = [points EXCEPT ![k] = EventPoint(k, "task_implemented")]

\* Three commits without an await between them; see CrashCompleting.
RunCompleted(r) ==
    /\ Heard
    /\ r = RunOf(Head(events)) /\ Head(events).type = "completed"
    /\ CanClose(r)
    /\ runs' = [Closed(r, "completed") EXCEPT ![r].turn = TRUE]
    /\ Implemented(r)
    /\ SavedBy(r)
    /\ UNCHANGED <<deliveryRest>>
    /\ UNCHANGED <<proc, server, consumer, launch, acting, working, requests, approvals,
                   emitted, faults>>

\* An event that raises ends the consumer, for all runs.
ConsumerDies ==
    /\ Heard
    /\ Head(events).type \in {"approval", "failed", "completed"}
    /\ LET r == RunOf(Head(events)) IN
          /\ r # 0
          /\ ~CanClose(r) \/ (Head(events).type = "approval" /\ Taken(Head(events).id))
    /\ consumer' = FALSE
    /\ Still
    /\ UNCHANGED <<proc, server, runs, launch, acting, working, requests, approvals,
                   emitted, faults>>

-----------------------------------------------------------------------------
(* The app server exits; the backend stops or crashes, and starts again.   *)

\* The exit is told by an event without a thread.  The adapter keeps its requests.
ServerExits ==
    /\ server
    /\ faults < setup.faults
    /\ faults' = faults + 1
    /\ server' = FALSE
    /\ asked' = [i \in RequestIds |-> 0]
    /\ working' = {}
    /\ events' = Append(events, [run |-> 0, type |-> "failed", id |-> 0])
    /\ approvals' = [a \in DOMAIN approvals |->
                        IF approvals[a].status = "pending"
                        THEN [approvals[a] EXCEPT !.stale = TRUE] ELSE approvals[a]]
    /\ Still
    /\ UNCHANGED <<proc, consumer, runs, launch, acting, methods, emitted>>

\* The backend goes down, and the app server with it.
GoesDown ==
    /\ proc = "up"
    /\ faults < setup.faults
    /\ faults' = faults + 1
    /\ proc' = "down"
    /\ server' = FALSE
    /\ consumer' = FALSE
    /\ launch' = [r \in RunIds |-> "off"]
    /\ acting' = [r \in RunIds |-> {}]
    /\ working' = {}
    /\ methods' = {}
    /\ asked' = [i \in RequestIds |-> 0]
    /\ approvals' = [a \in DOMAIN approvals |-> [approvals[a] EXCEPT !.recording = {}]]
    /\ events' = <<>>
    /\ testing' = {}
    /\ UNCHANGED <<setup, ledgerVars, version, plans, preview, progress, weights, emitted>>

Crash == GoesDown /\ UNCHANGED <<current, tasks, points, runs>>

\* It goes down while a completion is recorded, behind the first commit, which ends
\* the run, or the second, which reports the task and makes the run a running one.
CrashCompleting(r, commits) ==
    /\ GoesDown
    /\ consumer /\ events # <<>>
    /\ r = RunOf(Head(events)) /\ Head(events).type = "completed"
    /\ CanClose(r)
    /\ IF commits = 1
       THEN /\ runs' = [Closed(r, "completed") EXCEPT ![r].turn = TRUE]
            /\ tasks' = TimedBy(r)
            /\ UNCHANGED points
       ELSE /\ runs' = [Closed(r, "running") EXCEPT ![r].turn = TRUE]
            /\ Implemented(r)
    /\ SavedBy(r)

\* What the start closes, pauses and expires, in one transaction.
Interrupted == {r \in Created : runs[r].status \in Locked}

Start ==
    /\ proc = "down"
    /\ \A r \in Interrupted : CanClose(r)
    /\ proc' = "up"
    /\ consumer' = TRUE
    /\ runs' = [r \in RunIds |-> IF r \in Interrupted THEN Closed(r, "paused")[r] ELSE runs[r]]
    /\ tasks' = [k \in Keys |->
                    [tasks[k] EXCEPT !.hours = @ +
                        Cardinality({r \in Interrupted : runs[r].open /\ runs[r].task = k})]]
    /\ IF \E r \in Interrupted : runs[r].open THEN Saved({}) ELSE UNCHANGED current
    /\ approvals' = [a \in DOMAIN approvals |->
                        IF approvals[a].status = "pending"
                        THEN [approvals[a] EXCEPT !.status = "expired"] ELSE approvals[a]]
    /\ UNCHANGED <<deliveryRest, points, server, launch, acting, working, requests, events, emitted,
                   faults>>

\* One interval that cannot be closed fails the start of the backend.
StartRaises ==
    /\ proc = "down"
    /\ \E r \in Interrupted : ~CanClose(r)
    /\ proc' = "failed"
    /\ Still
    /\ UNCHANGED <<server, consumer, runs, launch, acting, working, requests, approvals,
                   events, emitted, faults>>

-----------------------------------------------------------------------------
RunInit ==
    /\ proc = "up"
    /\ server = FALSE
    /\ consumer = TRUE
    /\ runs = [r \in RunIds |-> NoRun]
    /\ launch = [r \in RunIds |-> "off"]
    /\ acting = [r \in RunIds |-> {}]
    /\ working = {}
    /\ methods = {}
    /\ asked = [i \in RequestIds |-> 0]
    /\ approvals = <<>>
    /\ events = <<>>
    /\ emitted = 0
    /\ faults = 0

Init == LedgerInit /\ DeliveryInit /\ RunInit

Launching(r) ==
    ThreadCreated(r) \/ TurnBegins(r) \/ TurnRecorded(r) \/ LaunchFails(r)

UserActs(r) ==
    \/ \E k \in Keys : Create(r, k)
    \/ /\ "stop" \in setup.ops
       /\ \/ \E op \in {"pause", "cancel"} : StopAtOnce(r, op)
          \/ \E op \in {"pause", "cancel", "resume"} : Ask(r, op)

Answered(r) ==
    \/ \E op \in {"pause", "cancel"} : StopAnswered(r, op)
    \/ TurnResumes(r)
    \/ ResumeAnswered(r)
    \/ \E op \in {"pause", "cancel", "resume", "resumed"} : RequestFails(r, op)

Consume ==
    \/ Ignored
    \/ \E r \in RunIds :
          \/ \E type \in {"task_started", "test_passed", "test_failed"} : Progressed(r, type)
          \/ ApprovalAsked(r)
          \/ RunFailed(r)
          \/ RunCompleted(r)
    \/ ConsumerDies

Approving ==
    \E a \in DOMAIN approvals :
        \E d \in {"approved", "rejected", "cancelled"} :
            AnswerApproval(a, d) \/ DecisionRecorded(a, d)

RunStep ==
    \/ \E r \in RunIds : Launching(r) \/ UserActs(r) \/ Answered(r)
    \/ \E r \in RunIds, type \in setup.says : Notify(r, type)
    \/ \E r \in RunIds, i \in setup.ids : RequestApproval(r, i)
    \/ Consume
    \/ Approving
    \/ ServerExits
    \/ Crash
    \/ \E r \in RunIds, commits \in {1, 2} : CrashCompleting(r, commits)
    \/ Start
    \/ StartRaises

\* The ledger and the delivery are served by the same process.
Next ==
    \/ /\ proc = "up"
       /\ \E b \in setup.tabs : Reload(b) \/ Money(b)
       /\ UNCHANGED <<deliveryVars, runVars>>
    \/ /\ proc = "up"
       /\ \E b \in setup.tabs : Planning(b) \/ Delivering(b)
       /\ UNCHANGED runVars
    \/ RunStep

Spec == Init /\ [][Next]_vars

\* A request of a launch is answered, refused or timed out.
FairSpec == Spec /\ \A r \in RunIds : WF_vars(Launching(r))

RunsTypeOK ==
    /\ proc \in {"up", "down", "failed"}
    /\ \A r \in RunIds :
          /\ runs[r].status \in Locked \cup {"none", "cancelled", "failed", "completed"}
          /\ runs[r].open => runs[r].task \in Keys
          /\ launch[r] \in {"off", "creating", "turning", "begun"}
          /\ acting[r] \subseteq {"pause", "cancel", "resume", "resumed"}
    /\ \A a \in DOMAIN approvals :
          approvals[a].status \in {"pending", "approved", "rejected", "cancelled", "expired"}
    /\ working \subseteq Created
    /\ methods \subseteq RequestIds /\ asked \in [RequestIds -> {0} \cup RunIds]
=============================================================================
