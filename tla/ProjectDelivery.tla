--------------------------- MODULE ProjectDelivery ---------------------------
(***************************************************************************)
(* The delivery of the project: requirement versions, development plans,   *)
(* task drafts, tasks and their acceptance points, tests, decisions and    *)
(* the verified progress (codex_plans.py, project_task_drafts.py,          *)
(* codex_verification.py, project_progress.py, save_in_session).           *)
(*                                                                         *)
(* A plan task has one acceptance point with an automated test.  The       *)
(* generation of a plan checks the requirement version before and after    *)
(* the provider is asked, so it is one step.  Titles and other text of     *)
(* tasks are left out; the estimate stands for what an update may change.  *)
(***************************************************************************)
EXTENDS ProjectLedger

CONSTANT Keys      \* task keys

\* The preview remembers the revision it was made at, as a browser does.
Draft == "draft"

ASSUME DeliveryAssumption ==
    /\ Draft \notin Browsers
    /\ IsFiniteSet(Keys)
    /\ \A s \in Setups :
          /\ s.tabs \subseteq Browsers /\ s.planned \subseteq Keys /\ s.estimates \subseteq Nat
          /\ s.cases \in Nat \ {0}

VARIABLES
    version,       \* current version of the requirement
    plans,         \* development plans, oldest first
    tasks,         \* row of each key, and its entry in the snapshot
    points,        \* acceptance point of each key
    preview,       \* preview of the task drafts
    progress,      \* verified progress of the project, in percent
    weights,       \* the estimates it was computed with
    testing        \* keys whose test runs

deliveryVars == <<version, plans, tasks, points, preview, progress, weights, testing>>

NoTask == [row |-> "none", est |-> 0, hours |-> 0, listed |-> FALSE, staged |-> FALSE,
           done |-> FALSE, codex |-> "todo"]

NoPoint == [status |-> "none", active |-> FALSE, counts |-> FALSE]

NoPreview == [open |-> FALSE, version |-> 0, class |-> [k \in Keys |-> "none"]]

Active == {k \in Keys : tasks[k].row = "active"}

-----------------------------------------------------------------------------
(* project_progress.py                                                     *)

Verified(ps, k) ==
    ps[k].active /\ (ps[k].status = "verified" \/ (ps[k].status = "waived" /\ ps[k].counts))

\* The estimates of the active tasks; the others do not count.
Weights(ts) == [k \in {j \in Keys : ts[j].row = "active"} |-> ts[k].est]

\* The share of the weights whose points are verified; without estimates all tasks
\* weigh the same.
Share(ws, done) ==
    LET weight(ks) == MapThenSumSet(LAMBDA k : ws[k], ks)
        share(part, all) == IF all = 0 THEN 0 ELSE (200 * part + all) \div (2 * all)
    IN
    IF weight(DOMAIN ws) = 0 THEN share(Cardinality(done), Cardinality(DOMAIN ws))
    ELSE share(weight(done), weight(DOMAIN ws))

Percent(ws, ps) == Share(ws, {k \in DOMAIN ws : Verified(ps, k)})

\* sync_verified_progress
Synced(ts, ps) == progress' = Percent(Weights(ts), ps) /\ weights' = Weights(ts)

-----------------------------------------------------------------------------
(* Requirements and plans.                                                 *)

\* A blueprint is imported: the requirement gets its next version.  The import and
\* the task drafts refuse a project with several requirement cases; plans do not.
Import(b) ==
    /\ b \in current
    /\ setup.cases = 1
    /\ version < setup.versions
    /\ version' = version + 1
    /\ Saved({b})
    /\ UNCHANGED <<setup, ledgerVars, plans, tasks, points, preview, progress, weights, testing>>

\* A draft plan is generated for the current version of one of the requirement cases.
Generate(c, keys, est) ==
    /\ Len(plans) < setup.plans
    /\ plans' = Append(plans, [case |-> c, status |-> "draft", at |-> 0, version |-> version,
                               keys |-> keys, est |-> est])
    /\ UNCHANGED <<setup, ledgerVars, current, version, tasks, points, preview, progress,
                   weights, testing>>

\* The user selects other tasks of a draft plan.
UpdateDraft(p, keys) ==
    /\ plans[p].status = "draft"
    /\ keys # plans[p].keys
    /\ plans' = [plans EXCEPT ![p].keys = keys]
    /\ UNCHANGED <<setup, ledgerVars, current, version, tasks, points, preview, progress,
                   weights, testing>>

\* A selected key whose row is not the one of a staged entry of the snapshot gets a
\* second row; the unique key of the table refuses it and the plan is not confirmed.
Clash(keys) ==
    \E k \in keys : tasks[k].row # "none" /\ ~(tasks[k].staged /\ tasks[k].listed)

\* The tasks after the confirmation of a plan: keyed tasks that are not selected are
\* retired, and leave the snapshot if a plan put them there.
PlannedTask(p, k) ==
    IF k \in plans[p].keys
    THEN [tasks[k] EXCEPT !.row = "active", !.listed = TRUE, !.staged = TRUE,
                          !.est = IF tasks[k].done THEN @ ELSE plans[p].est]
    ELSE IF tasks[k].row = "none" THEN tasks[k]
    ELSE [tasks[k] EXCEPT !.row = "retired", !.listed = @ /\ ~tasks[k].staged]

PlannedPoint(p, k) ==
    IF k \in plans[p].keys
    THEN [points[k] EXCEPT !.active = TRUE, !.status = IF @ = "none" THEN "pending" ELSE @]
    ELSE [points[k] EXCEPT !.active = FALSE]

Confirmed == {p \in DOMAIN plans : plans[p].status = "confirmed"}

\* confirmed_at, as the rank among the confirmations; 0 for a draft.
Dated == {p \in DOMAIN plans : plans[p].at > 0}

NextAt == Cardinality(Dated) + 1

\* Mutant: only the plan of the same version is superseded.
SupersededSame(p) ==
    [q \in DOMAIN plans |->
        IF q = p THEN [plans[q] EXCEPT !.status = "confirmed", !.at = NextAt]
        ELSE IF q \in Confirmed /\ plans[q].case = plans[p].case
                /\ plans[q].version = plans[p].version
             THEN [plans[q] EXCEPT !.status = "superseded"]
        ELSE plans[q]]

\* Plan p is confirmed and takes the place of the one of its requirement case; a
\* plan of another case stays confirmed.
Superseded(p) ==
    [q \in DOMAIN plans |->
        IF q = p THEN [plans[q] EXCEPT !.status = "confirmed", !.at = NextAt]
        ELSE IF q \in Confirmed /\ plans[q].case = plans[p].case
             THEN [plans[q] EXCEPT !.status = "superseded"]
        ELSE plans[q]]

\* The plan the runs and the verification go by: the one confirmed last.
InForce(p) == p \in Confirmed /\ \A q \in Confirmed : plans[q].at <= plans[p].at

\* The confirmation of a draft plan.  The browser sends the current version of the
\* requirement, and the code compares no other: the plan may be of an older one.
ConfirmPlan(b, p) ==
    /\ b \in current
    /\ plans[p].status = "draft"
    /\ plans[p].keys # {}
    /\ ~Clash(plans[p].keys)
    /\ tasks' = [k \in Keys |-> PlannedTask(p, k)]
    /\ points' = [k \in Keys |-> PlannedPoint(p, k)]
    /\ plans' = Superseded(p)
    /\ Synced(tasks', points')
    /\ Saved({b})
    /\ UNCHANGED <<setup, ledgerVars, version, preview, testing>>

-----------------------------------------------------------------------------
(* The browser's snapshot: what a save takes over of tasks.                *)

\* An edit of a listed task.  Progress and hours are set back to the rows, and an
\* active task the browser left out is put in again (_preserve_derived_delivery_fields).
EditTask(b, k, est, done) ==
    /\ b \in current
    /\ tasks[k].listed
    /\ <<est, done>> # <<tasks[k].est, tasks[k].done>>
    /\ tasks' = [tasks EXCEPT ![k].est = est, ![k].done = done]
    /\ Saved({b})
    /\ UNCHANGED <<setup, ledgerVars, version, plans, points, preview, progress, weights, testing>>

\* The tasks after a save without task k: only one that was retired can go.
Dropped(k) ==
    IF tasks[k].row = "active" THEN tasks ELSE [tasks EXCEPT ![k].listed = FALSE]

DropTask(b, k) ==
    /\ b \in current
    /\ tasks[k].listed
    /\ tasks' = Dropped(k)
    /\ Saved({b})
    /\ UNCHANGED <<setup, ledgerVars, version, plans, points, preview, progress, weights, testing>>

-----------------------------------------------------------------------------
(* project_task_drafts.py                                                  *)

\* What the drafts may not touch: work has begun, or there are acceptance points.
Protected(k) ==
    tasks[k].done \/ tasks[k].hours > 0 \/ tasks[k].staged \/ tasks[k].codex # "todo"

\* The blueprint of a version estimates every task with the version's number.
Class(k) ==
    IF tasks[k].row = "none" THEN "new"
    ELSE IF Protected(k) THEN "protected"
    ELSE IF tasks[k].est = version THEN "unchanged"
    ELSE "update_allowed"

CreatePreview(b) ==
    /\ b \in current
    /\ setup.cases = 1
    /\ "draft" \in setup.ops
    /\ preview' = [open |-> TRUE, version |-> version, class |-> [k \in Keys |-> Class(k)]]
    /\ current' = current \cup {Draft}
    /\ UNCHANGED <<setup, ledgerVars, version, plans, tasks, points, progress, weights, testing>>

\* Mutant: the preview is trusted, as its revision has not changed.
StillListed(k) == preview.class[k] = "update_allowed" => tasks[k].listed

\* What a selected task is checked for again, because Codex marks a task as begun
\* without a new revision.
StillAllowed(k) ==
    preview.class[k] = "update_allowed" => tasks[k].listed /\ ~Protected(k)

\* The confirmation of selected drafts; an update leaves a retired task retired.
ConfirmDraft(b, keys) ==
    /\ {b, Draft} \subseteq current
    /\ preview.open
    /\ preview.version = version
    /\ keys # {}
    /\ \A k \in keys : preview.class[k] \in {"new", "update_allowed"} /\ StillAllowed(k)
    /\ tasks' = [k \in Keys |->
                    IF k \notin keys THEN tasks[k]
                    ELSE IF tasks[k].row = "none"
                    THEN [NoTask EXCEPT !.row = "active", !.listed = TRUE, !.est = version]
                    ELSE [tasks[k] EXCEPT !.est = version]]
    /\ preview' = NoPreview
    /\ Saved({b})
    /\ UNCHANGED <<setup, ledgerVars, version, plans, points, progress, weights, testing>>

\* A preview is good for thirty minutes.
ExpirePreview ==
    /\ preview.open
    /\ preview' = NoPreview
    /\ current' = current \ {Draft}
    /\ UNCHANGED <<setup, ledgerVars, version, plans, tasks, points, progress, weights, testing>>

-----------------------------------------------------------------------------
(* codex_verification.py: events, tests, decisions.                        *)

Human == {"verified", "waived"}

\* What an event of a run says of a task and does to its point; no new revision.
EventTask(k, type) ==
    IF tasks[k].row = "none" THEN tasks[k]
    ELSE CASE type = "task_started" -> [tasks[k] EXCEPT !.codex = "in_progress"]
           [] type = "task_implemented" -> [tasks[k] EXCEPT !.codex = "implemented"]
           [] OTHER -> tasks[k]

EventPoint(k, type) ==
    LET kept == IF type = "task_implemented" THEN Human \cup {"test_passed"} ELSE Human
        status == CASE type = "task_implemented" -> "implemented"
                    [] type = "test_passed" -> "test_passed"
                    [] type = "test_failed" -> "failed"
                    [] OTHER -> points[k].status
    IN
    IF points[k].active /\ points[k].status \notin kept
    THEN [points[k] EXCEPT !.status = status] ELSE points[k]

Event(k, type) ==
    /\ tasks' = [tasks EXCEPT ![k] = EventTask(k, type)]
    /\ points' = [points EXCEPT ![k] = EventPoint(k, type)]

\* Codex outside the assistant reports through its hooks.
Reported(k, type) ==
    /\ "report" \in setup.ops
    /\ tasks[k].row # "none"
    /\ Event(k, type)
    /\ UNCHANGED <<setup, ledgerVars, current, version, plans, preview, progress, weights, testing>>

\* The user runs the test of a point in the worktree of its last run.
RunTest(b, k) ==
    /\ b \in current
    /\ points[k].active
    /\ k \notin testing
    /\ testing' = testing \cup {k}
    /\ UNCHANGED <<setup, ledgerVars, current, version, plans, tasks, points, preview, progress, weights>>

\* The point may be retired by now; its status is read again.
TestEnds(k, passed) ==
    /\ k \in testing
    /\ testing' = testing \ {k}
    /\ points' = IF points[k].status \in Human THEN points
                 ELSE [points EXCEPT ![k].status = IF passed THEN "test_passed" ELSE "failed"]
    /\ Saved({})
    /\ UNCHANGED <<setup, ledgerVars, version, plans, tasks, preview, progress, weights>>

\* A person decides on a point, or opens it again.
Decide(b, k, status, counts) ==
    /\ b \in current
    /\ points[k].active
    /\ counts => status = "waived"
    /\ points' = [points EXCEPT ![k].status = status, ![k].counts = counts]
    /\ Synced(tasks, points')
    /\ Saved({b})
    /\ UNCHANGED <<setup, ledgerVars, version, plans, tasks, preview, testing>>

-----------------------------------------------------------------------------
(* Hours: what the closed intervals of runs and manual entries add up to.  *)

\* The hours of a task are written to its entry in the snapshot, which must be
\* there (_sync_task_time).
Timed(ts, k) == [ts EXCEPT ![k].hours = @ + 1]

AddTime(b, k) ==
    /\ b \in current
    /\ tasks[k].listed
    /\ tasks[k].hours < setup.hours
    /\ tasks' = Timed(tasks, k)
    /\ Saved({b})
    /\ UNCHANGED <<setup, ledgerVars, version, plans, points, preview, progress, weights, testing>>

\* A correction is an entry of its own; what the task adds up to stays positive.
AdjustTime(b, k) ==
    /\ b \in current
    /\ tasks[k].listed
    /\ setup.hours > 0
    /\ tasks[k].hours > 0
    /\ tasks' = [tasks EXCEPT ![k].hours = @ - 1]
    /\ Saved({b})
    /\ UNCHANGED <<setup, ledgerVars, version, plans, points, preview, progress, weights, testing>>

-----------------------------------------------------------------------------
\* A project starts without tasks, or with a plan that was confirmed.
DeliveryInit ==
    /\ version = 1
    /\ plans = IF setup.planned = {} THEN <<>>
               ELSE <<[case |-> 1, status |-> "confirmed", at |-> 1, version |-> 1,
                       keys |-> setup.planned, est |-> 1]>>
    /\ tasks = [k \in Keys |->
                  IF k \in setup.planned
                  THEN [NoTask EXCEPT !.row = "active", !.est = 1, !.listed = TRUE, !.staged = TRUE]
                  ELSE NoTask]
    /\ points = [k \in Keys |->
                    IF k \in setup.planned THEN [NoPoint EXCEPT !.status = "pending", !.active = TRUE]
                    ELSE NoPoint]
    /\ preview = NoPreview
    /\ weights = Weights(tasks)
    /\ progress = Percent(weights, points)
    /\ testing = {}

Planning(b) ==
    \/ Import(b)
    \/ \E c \in 1..setup.cases, keys \in SUBSET Keys, est \in setup.estimates :
          keys # {} /\ Generate(c, keys, est)
    \/ \E p \in DOMAIN plans : \/ \E keys \in SUBSET Keys : UpdateDraft(p, keys)
                               \/ ConfirmPlan(b, p)

Delivering(b) ==
    \/ \E k \in Keys :
          \/ /\ "edit" \in setup.ops
             /\ \/ \E est \in setup.estimates, done \in BOOLEAN : EditTask(b, k, est, done)
                \/ DropTask(b, k)
          \/ \E type \in {"task_started", "task_implemented", "test_passed", "test_failed"} :
                Reported(k, type)
          \/ "test" \in setup.ops /\ RunTest(b, k)
          \/ \E passed \in BOOLEAN : TestEnds(k, passed)
          \/ /\ "decide" \in setup.ops
             /\ \E status \in {"pending", "failed"} \cup Human, counts \in BOOLEAN :
                   Decide(b, k, status, counts)
          \/ AddTime(b, k)
          \/ AdjustTime(b, k)
    \/ CreatePreview(b)
    \/ \E keys \in SUBSET Keys : ConfirmDraft(b, keys)
    \/ ExpirePreview

DeliveryTypeOK ==
    /\ version \in Nat
    /\ \A p \in DOMAIN plans :
          /\ plans[p].status \in {"draft", "confirmed", "superseded"}
          /\ plans[p].version \in 1..version
          /\ plans[p].case \in 1..setup.cases
          /\ plans[p].at \in 0..Len(plans)
    /\ \A k \in Keys :
          /\ tasks[k].row \in {"none", "active", "retired"}
          /\ tasks[k].hours \in Nat
          /\ tasks[k].codex \in {"todo", "in_progress", "implemented"}
          /\ points[k].status \in {"none", "pending", "implemented", "test_passed", "failed"} \cup Human
    /\ progress \in 0..100
    /\ testing \subseteq Keys
    /\ preview.open => preview.version \in 1..version
    /\ current \subseteq Browsers \cup {Draft}
=============================================================================
