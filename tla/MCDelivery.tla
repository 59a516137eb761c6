----------------------------- MODULE MCDelivery -----------------------------
(***************************************************************************)
(* Values for the constants of the delivery modules.                       *)
(***************************************************************************)
EXTENDS DeliveryProps, TLC

CONSTANTS k1, k2

Contract(amount, ps) == [total |-> amount, rows |-> ps]

Base ==
    [tabs |-> Browsers,
     contracts |-> {Contract(4, <<>>)}, requests |-> 0, bookings |-> 0, rows |-> 0, quick |-> 1,
     versions |-> 1, cases |-> 1, plans |-> 0, estimates |-> {1}, planned |-> {}, ops |-> {}, hours |-> 0,
     runs |-> 0, events |-> 0, approvals |-> 0, ids |-> {1}, faults |-> 0,
     says |-> {"task_started", "completed", "failed"}]

\* Payments: a contract without a plan, one with two nodes due on one day and one
\* due later, and one with a legacy refund.
Paying == [Base EXCEPT !.requests = 2, !.bookings = 2, !.rows = 3,
    !.contracts = {Contract(3, <<>>),
                   Contract(4, <<Row(2, "pending", 1, 0), Row(1, "pending", 2, 0),
                                 Row(1, "pending", 1, 0)>>),
                   Contract(3, <<Row(1, "refunded", 1, 0), Row(1, "pending", 1, 0)>>)}]

\* Plans of several requirement versions and browser edits; reports, tests and
\* decisions over two plans; drafts with reports, edits and hours, and with plans.
Scoping == [Base EXCEPT !.versions = 2, !.plans = 2, !.estimates = {1, 2}, !.ops = {"edit"}]
Verifying == [Base EXCEPT !.plans = 2, !.planned = {k1}, !.ops = {"report", "test", "decide"}]
Drafting == [Base EXCEPT !.versions = 2, !.ops = {"draft", "report", "edit"}, !.hours = 1]
Casing == [Base EXCEPT !.cases = 2, !.plans = 3, !.planned = {k1}]
Mixing == [Base EXCEPT !.plans = 2, !.ops = {"draft", "report"}]

\* One run with its approvals, also resumed; two runs that share the app server; a run whose task
\* a later plan retires, with its events and with a restart; two runs that ask at the
\* same time, or under the same request id before and after an exit.
Running == [Base EXCEPT !.tabs = {}, !.planned = {k1}, !.ops = {"stop"}, !.runs = 1,
                        !.events = 2, !.approvals = 1, !.hours = 1, !.faults = 1]
Resuming == [Running EXCEPT !.events = 1, !.hours = 2]
Sharing == [Base EXCEPT !.tabs = {}, !.planned = {k1, k2}, !.ops = {"stop"}, !.runs = 2,
                        !.events = 1, !.hours = 1, !.faults = 1,
                        !.says = {"test_failed", "completed"}]
Retiring == [Base EXCEPT !.planned = {k1}, !.ops = {"stop"}, !.plans = 2, !.runs = 1,
                         !.events = 1, !.hours = 1, !.says = {"completed", "failed"}]
Restarting == [Base EXCEPT !.planned = {k1}, !.ops = {"stop"}, !.plans = 2, !.runs = 1,
                           !.hours = 1, !.faults = 1]
Asking == [Base EXCEPT !.tabs = {}, !.planned = {k1, k2}, !.runs = 2, !.events = 2,
                       !.approvals = 2, !.ids = {1, 2}, !.says = {}]
Reusing == [Base EXCEPT !.tabs = {}, !.planned = {k1, k2}, !.runs = 2, !.events = 2,
                        !.approvals = 2, !.faults = 1, !.says = {}]

AllSetups == {Paying, Scoping, Verifying, Drafting, Casing, Mixing, Running, Resuming, Sharing,
              Retiring, Restarting, Asking, Reusing}
=============================================================================
