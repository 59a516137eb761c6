---------------------------- MODULE TrafficProps ----------------------------
(***************************************************************************)
(* What ProductTraffic must guarantee.                                     *)
(***************************************************************************)
EXTENDS ProductTraffic

TypeOK == TrafficTypeOK

\* A purchase is recorded once and costs what it cost, although the request is
\* repeated while it waits for the lock or reads, and also when no observation
\* comes of it (record_traffic_batch_now, complete_traffic_batch).
PaidOnce ==
    /\ \A a, b \in BatchIds : batches[a].req = batches[b].req => a = b
    /\ \A b \in BatchIds : expenses[b] = batches[b].cost

\* The platform is asked for a checkpoint once, and once more for every repetition
\* the user asked for, whatever restarts, changes of the mode and lost connections
\* come between; and what is called completed or closed was counted for every
\* listing, although readings fail after the user has recorded them
\* (mark_job_interrupted, begin_automatic_job, update_checkpoint_collection_mode,
\* finalize_checkpoint_job).
ReadingsHold ==
    \A b \in BatchIds :
        /\ \A c \in DOMAIN jobs[b] :
              /\ jobs[b][c].attempts <= 1 + jobs[b][c].asked
              /\ jobs[b][c].status = "completed" => \A p \in Items(b) : Has(b, c, p)
        /\ batches[b].status = "closed" => \A p \in Items(b) : Has(b, Terminal, p)

\* The job of the checkpoint is over and nothing reads it any more.
Ended(b, c) ==
    /\ jobs[b][c].status = "completed"
    /\ ~\E t \in Tasks : task[t].kind = "job" /\ task[t].of = b /\ task[t].cp = c

\* Decisions rest on what can be compared: a batch that takes part in them shares no
\* listing with another whose window meets its own, recorded before or after it; and
\* every listing was counted at the end of the window, neither later than allowed -
\* unless a crash came before the delay was computed - nor, unless the user asked for
\* a repetition, earlier (_traffic_batch_view, classify, finalize_checkpoint_job,
\* record_checkpoint_in_session).
DecisionsHold ==
    \A b \in BatchIds :
        Eligible(b) =>
            /\ \A k \in BatchIds \ {b} :
                  Items(b) \cap Items(k) # {} =>
                      \/ batches[k].started - batches[b].started >= Hours[Terminal]
                      \/ batches[b].started - batches[k].started >= Hours[Terminal]
            /\ \A p \in Items(b) :
                  LET at == values[b][Terminal][p].at IN
                  /\ at >= DueAt(b, Terminal) \/ jobs[b][Terminal].asked > 0
                  /\ Ended(b, Terminal) /\ restarts = 0 =>
                        at <= DueAt(b, Terminal) + MaxDelay[Terminal]

Due(r, c) ==
    /\ proc = "up"
    /\ r \in BatchIds /\ Observed(r) /\ batches[r].mode = "auto" /\ connected
    /\ DueAt(r, c) <= clock
    /\ jobs[r][c].status \in {"scheduled", "waiting_connection"}

Collecting(r, c) ==
    /\ proc = "up"
    /\ r \in BatchIds /\ c \in DOMAIN jobs[r] /\ jobs[r][c].status = "collecting"

Queued(t) == proc = "up" /\ task[t].pc \in {"lock", "fetch"}

\* Whatever the order of those started together, the round looks at this batch.
AmongFirst(r) ==
    Cardinality({k \in OpenBatches(batches) : batches[k].started <= batches[r].started})
        <= ReminderLimit

Unreminded(r, c) ==
    /\ proc = "up"
    /\ <<r, c>> \in Reminders(batches, OpenBatches(batches)) \ reminded
    /\ AmongFirst(r)

\* As long as the process is up nothing waits for ever: a due checkpoint of a
\* connected automatic batch is taken up, a collection ends, the lock is handed on,
\* and the user is reminded of a checkpoint to record once at most ReminderLimit
\* batches started no later are still open; a batch behind more of them, which may
\* never close, is promised nothing (_scheduler_loop, _run_traffic_checkpoint_job,
\* _dispatch_due_traffic_reminders).
TrafficSettles ==
    /\ \A r \in Requests, c \in Cps :
          /\ []<>~Due(r, c)
          /\ []<>~Collecting(r, c)
          /\ []<>~Unreminded(r, c)
    /\ \A t \in Tasks : []<>~Queued(t)
=============================================================================
