---------------------------- MODULE DeliveryProps ----------------------------
(***************************************************************************)
(* What ProjectLedger, ProjectDelivery and CodexRuns must guarantee.       *)
(***************************************************************************)
EXTENDS CodexRuns

TypeOK == LedgerTypeOK /\ DeliveryTypeOK /\ RunsTypeOK

\* Whatever order receipts, change orders, write-offs, refunds and repeated requests
\* come in: no request is booked twice as a payment, as an order or as an issue,
\* though the same id may come as two of them; nothing is collected twice, the open
\* nodes never ask for more than is outstanding, no more is paid back than was
\* received, and a project that was terminated asks for nothing.  A row of the quick
\* accounting that was booked after a settlement issue breaks the sums
\* (confirm_payment, create_project_change_order, record_settlement_issue,
\* _write_off_pending_nodes).
MoneyAddsUp ==
    /\ (\A i \in DOMAIN rows : ~rows[i].late) =>
          /\ Receipts + Uncollectible <= total
          /\ Pending <= Outstanding
          /\ Terminated => Outstanding = 0
    /\ Refunded <= Receipts
    /\ \A i, j \in DOMAIN rows : rows[i].req = rows[j].req /\ rows[i].req # 0 => i = j
    /\ \A i, j \in DOMAIN orders : orders[i] = orders[j] => i = j
    /\ \A x, y \in issues : x.req = y.req => x = y

\* What a person decided stands: no event, late test or plan changes the status of a
\* verified or waived point, and no draft changes a task on which work has begun,
\* although Codex begins without a new revision (apply_persisted_event, run_test,
\* confirm of project_task_drafts.py).
HumanWorkStands ==
    [][\A k \in Keys :
          /\ points[k].status \in Human /\ points'[k].status # points[k].status =>
                \E b \in Browsers, status \in {"pending", "failed"} \cup Human, counts \in BOOLEAN :
                    Decide(b, k, status, counts)
          /\ Protected(k) /\ tasks'[k].est # tasks[k].est => ~preview.open \/ preview'.open]_vars

\* Each requirement case has one confirmed plan at most, and of all of them the one
\* that was confirmed last is in force: its tasks are the planned tasks that count,
\* also those it shares with the plan of another case.  Each task that counts is in
\* the snapshot, and what was retired has no points; the progress is the verified
\* share of the estimates it was computed with, whatever plans, saves, drafts, late
\* tests and events came since (confirm of codex_plans.py, save_in_session,
\* sync_verified_progress).
ScopeIsPlan ==
    /\ \A p, q \in Confirmed : plans[p].case = plans[q].case => p = q
    /\ \A p \in Confirmed :
          InForce(p) => plans[p].keys = {k \in Active : tasks[k].staged}
    /\ \A k \in Keys :
          /\ k \in Active => tasks[k].listed
          /\ points[k].active => k \in Active
          /\ tasks[k].staged /\ tasks[k].listed => k \in Active
    /\ progress = Percent(weights, points)

\* Hours are counted only while a run is running: none while it waits for an
\* approval, is paused or is over, and none over a restart, whatever order the
\* answers, the notifications and the user come in (open_active_interval,
\* close_active_interval, _persist_event, _action, start).
TimeOnlyRunning ==
    proc = "up" => \A r \in RunIds : runs[r].open => runs[r].status = "running"

\* A decision that is shown is the one the app server was sent for the run that asked,
\* although two may be made at the same time, unless the app server that asked was
\* gone before; and a run that waits has an approval that is shown as pending
\* (decide_approval, _answer_approval, _persist_event, start).
ApprovalsHold ==
    /\ \A a \in DOMAIN approvals :
          approvals[a].status \in {"approved", "rejected", "cancelled"} /\ ~approvals[a].stale =>
              approvals[a].sent = approvals[a].status /\ approvals[a].to = approvals[a].run
    /\ proc = "up" =>
          \A r \in RunIds :
              runs[r].status = "waiting_approval" =>
                  \E a \in DOMAIN approvals :
                      approvals[a].run = r /\ approvals[a].status = "pending"

\* What a project says of its work is what was planned and what its runs do, whatever
\* order plans, drafts, saves, answers, notifications and a restart come in.
WorkHolds == ScopeIsPlan /\ TimeOnlyRunning /\ ApprovalsHold

\* A run does not start for ever: it runs, fails, is paused or cancelled, unless the
\* backend goes down (_launch).
StartingSettles ==
    \A r \in RunIds :
        runs[r].status = "starting" ~> runs[r].status # "starting" \/ proc # "up"
=============================================================================
