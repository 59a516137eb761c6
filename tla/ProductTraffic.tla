---------------------------- MODULE ProductTraffic ----------------------------
(***************************************************************************)
(* The paid exposure of the seller's listings and the reading of them:     *)
(* services/product_intelligence.py with its rules in                      *)
(* product_traffic_domain.py.                                              *)
(*                                                                         *)
(* The seller buys exposure for a few listings on the platform and records *)
(* the purchase: the counters of every listing are read at once (T0), the  *)
(* batch and its expense are written, and checkpoints are scheduled at     *)
(* fixed hours.  A scheduler reads the counters when a checkpoint is due;  *)
(* the seller may instead record them, repeat a failed reading or change   *)
(* the mode.  The same scheduler, or the seller, reads every listing once  *)
(* a day.  All reading goes through _collection_lock, one request at a     *)
(* time, and stops at the first demand for an access verification.         *)
(*                                                                         *)
(* An action is the code between two awaits; where it commits more than    *)
(* once, the position between two commits is a step in which only a crash  *)
(* may come between (InGap).                                               *)
(***************************************************************************)
EXTENDS Integers, FiniteSetsExt, SequencesExt

CONSTANTS
    MaxProducts,   \* bound: listings, by id
    Registered,    \* listings whose monitor has the source "manual"
    Purchases,     \* request id -> [items, mode, cost] of a purchase to record
    Hours,         \* checkpoint -> hours after the start; the last one closes
    MaxDelay,      \* checkpoint -> delay after which its capture is late
    DueLimit,      \* jobs dispatched by one round of the scheduler
    ReminderLimit, \* open batches one round looks at for a reminder
    Clients,       \* HTTP requests that may be under way together
    Setups         \* what to explore together: what the user does, what the
                   \* platform answers and how high its counters are, bounds of
                   \* hours, days, purchases, repetitions, corrections and restarts

Products == 1..MaxProducts
Cps == 1..Len(Hours)
Terminal == Len(Hours)
Requests == DOMAIN Purchases
Scheduler == 0
Tasks == {Scheduler} \cup Clients
None == -1

ASSUME TrafficAssumption ==
    /\ MaxProducts \in Nat \ {0}
    /\ Registered \subseteq Products
    /\ Purchases \in Seq([items : (SUBSET Products) \ {{}}, mode : {"auto", "manual"},
                          cost : Nat])
    /\ Hours \in Seq(Nat) /\ Hours # <<>>
    /\ \A c, k \in Cps : c < k => Hours[c] < Hours[k]
    /\ MaxDelay \in [Cps -> Nat]
    /\ DueLimit \in Nat \ {0}
    /\ ReminderLimit \in Nat \ {0}
    /\ Clients \subseteq Nat \ {0}
    /\ Setups \subseteq [user : SUBSET {"manual", "retry", "mode", "complete",
                                       "connect", "monitor", "collect", "daily"},
                        answers : SUBSET {"owned", "excluded", "pending", "error",
                                          "login", "verification"},
                        counts : Nat, hours : Nat, days : Nat, purchases : SUBSET Requests,
                        costs : SUBSET Nat,
                        clients : SUBSET Clients, retries : Nat, restarts : Nat]

VARIABLES
    monitor,    \* listing -> its ownership and whether it is monitored
    batches,    \* the recorded purchases, oldest first
    expenses,   \* batch -> the amount in the ledger
    jobs,       \* batch -> checkpoint -> its job
    values,     \* batch -> checkpoint -> listing -> what was counted
    reminded,   \* checkpoints the user was reminded of
    daily,      \* day -> how its collection run ended
    day,        \* today
    clock,      \* hours since the beginning
    connected,  \* xianyu_configured
    task,       \* the scheduler and the requests -> what they do
    due,        \* jobs the scheduler's round still has to run
    queue,      \* holder of _collection_lock and who waits for it
    proc,       \* the process: up or down
    restarts,   \* crashes so far
    setup       \* the setup explored, chosen once

traffic == <<batches, expenses, jobs, values, reminded>>
world == <<day, clock, connected>>
vars == <<monitor, traffic, daily, world, task, due, queue, proc, restarts, setup>>

-----------------------------------------------------------------------------
BatchIds == 1..Len(batches)
Items(b) == batches[b].items
Observed(b) == batches[b].status \in {"running", "observing"}
DueAt(b, c) == batches[b].started + Hours[c]
Allowed(p) == monitor[p].own = "owned" /\ monitor[p].enabled

Idle == [kind |-> "none", pc |-> "idle", of |-> 0, cp |-> 0, left |-> {}, open |-> {},
         got |-> [p \in Products |-> None], start |-> 0, late |-> FALSE, bad |-> FALSE]

\* Code that runs on without an await, between two of its commits: only a crash can
\* come before it continues.
InGap(t) == task[t].pc \in {"begin", "finish"}

Quiet == proc = "up" /\ \A t \in Tasks : ~InGap(t)

NewJob(items) == [status |-> "scheduled", attempts |-> 0, asked |-> 0, delay |-> None,
                  rows |-> [p \in items |-> "pending"]]

NoValue == [n |-> None, at |-> None]

Job == [status : {"scheduled", "waiting_connection", "waiting_manual", "collecting",
                  "partial", "circuit_open", "completed"},
        attempts : Nat, asked : Nat, delay : Nat \cup {None}]

TrafficTypeOK ==
    /\ monitor \in [Products -> [own : {"owned", "excluded", "pending"}, enabled : BOOLEAN]]
    /\ \A b \in BatchIds :
          /\ batches[b].req \in Requests
          /\ batches[b].status \in {"running", "observing", "closed", "invalidated"}
          /\ batches[b].started \in 0..clock
          /\ batches[b].base \in [Items(b) -> Nat \cup {None}]
          /\ DOMAIN jobs[b] = IF batches[b].status = "invalidated" THEN {} ELSE Cps
          /\ \A c \in DOMAIN jobs[b] :
                /\ [f \in {"status", "attempts", "asked", "delay"} |-> jobs[b][c][f]] \in Job
                /\ jobs[b][c].rows \in
                      [Items(b) -> {"pending", "completed", "failed", "protection_skipped"}]
          /\ values[b] \in [Cps -> [Items(b) -> [n : Nat \cup {None}, at : {None} \cup 0..clock]]]
    /\ Len(expenses) = Len(batches) /\ Len(jobs) = Len(batches) /\ Len(values) = Len(batches)
    /\ reminded \subseteq BatchIds \X Cps
    /\ daily \in [1..setup.days -> {"none", "running", "success", "partial", "failed"}]
    /\ \A t \in Tasks :
          /\ task[t].kind \in {"none", "job", "record", "daily", "all", "single"}
          /\ task[t].pc \in {"idle", "begin", "lock", "fetch", "finish", "notify"}
          /\ task[t].left \subseteq Products
          /\ (task[t].pc \in {"lock", "fetch", "finish"}) <=> t \in ToSet(queue)
          /\ task[t].pc \in {"fetch", "finish"} => t = Head(queue)
          /\ task[t].pc = "fetch" => task[t].left # {}
    /\ due \subseteq BatchIds \X Cps
    /\ proc \in {"up", "down"}

Init ==
    /\ monitor = [p \in Products |-> [own |-> "owned", enabled |-> TRUE]]
    /\ batches = <<>> /\ expenses = <<>> /\ jobs = <<>> /\ values = <<>>
    /\ reminded = {}
    /\ setup \in Setups
    /\ daily = [d \in 1..setup.days |-> "none"]
    /\ day = 1 /\ clock = 0 /\ connected = TRUE
    /\ task = [t \in Tasks |-> Idle]
    /\ due = {} /\ queue = <<>>
    /\ proc = "up" /\ restarts = 0

-----------------------------------------------------------------------------
(* The lock and the reading of one listing.                                *)

\* A task asks for the lock; it is served in the order of asking.
Ask(t, what) ==
    /\ task' = [task EXCEPT ![t] = [what EXCEPT !.pc = "lock"]]
    /\ queue' = Append(queue, t)

Holds(t) == queue # <<>> /\ Head(queue) = t

\* Listings are read in the order of their ids.
NextOf(t) == Min(task[t].left)
After(t) == task[t].left \ {NextOf(t)}

\* The monitor after a listing was read; a manual one is enabled again.
AfterRead(t, p, is) ==
    LET own == IF is = "pending" /\ monitor[p].own = "owned" THEN "owned" ELSE is IN
    [own |-> own,
     enabled |-> own = "owned" /\ (monitor[p].enabled \/ p \in Registered
                                   \/ task[t].kind = "single")]

Reading(t, is, n) ==
    /\ Quiet
    /\ task[t].pc = "fetch"
    /\ is \in setup.answers
    /\ n \in IF is \in {"owned", "pending"} THEN 0..setup.counts ELSE {0}
    /\ monitor' = IF is \in {"owned", "excluded", "pending"}
                  THEN [monitor EXCEPT ![NextOf(t)] = AfterRead(t, NextOf(t), is)]
                  ELSE monitor

\* Mutant: a task that has read its last listing goes on to read.
OnwardReading(t, rest) == [task[t] EXCEPT !.left = rest, !.pc = "fetch"]

\* What is left to read for a task that goes on, or stops.
Onward(t, rest) ==
    [task[t] EXCEPT !.left = rest, !.pc = IF rest = {} THEN "finish" ELSE "fetch"]

-----------------------------------------------------------------------------
(* Recording a purchase.                                                   *)

\* record_traffic_batch_now: everything happens under the lock.
AskRecord(t, q) ==
    /\ Quiet
    /\ q \in setup.purchases
    /\ t \in setup.clients /\ task[t].pc = "idle"
    /\ Ask(t, [Idle EXCEPT !.kind = "record", !.of = q])
    /\ UNCHANGED <<monitor, traffic, daily, world, due, proc, restarts, setup>>

\* Mutant: a purchase is known only in the hour it was recorded for.
RecordedNow(q) ==
    \E b \in BatchIds : batches[b].req = q /\ batches[b].started = clock

Recorded(q) == \E b \in BatchIds : batches[b].req = q

BeginRecord(t) ==
    LET q == task[t].of IN
    /\ Quiet
    /\ task[t].kind = "record" /\ task[t].pc = "lock" /\ Holds(t)
    /\ IF ~Recorded(q) /\ \A p \in Purchases[q].items : Allowed(p)
       THEN /\ task' = [task EXCEPT ![t].pc = "fetch", ![t].start = clock,
                                    ![t].left = Purchases[q].items,
                                    ![t].open = Purchases[q].items]
            /\ UNCHANGED queue
       ELSE /\ task' = [task EXCEPT ![t] = Idle]
            /\ queue' = Tail(queue)
    /\ UNCHANGED <<monitor, traffic, daily, world, due, proc, restarts, setup>>

\* One listing of T0.  An unclear or foreign owner ends the recording; a failure is
\* noted; a demand for verification stops the reading.
ReadT0(t, is, n) ==
    LET p == NextOf(t) IN
    /\ Reading(t, is, n)
    /\ task[t].kind = "record"
    /\ IF is \in {"owned", "pending", "excluded"} /\ monitor'[p].own # "owned"
       THEN /\ task' = [task EXCEPT ![t] = Idle]
            /\ queue' = Tail(queue)
       ELSE /\ task' = [task EXCEPT ![t] =
                  IF monitor'[p].own = "owned" /\ is \in {"owned", "pending"}
                  THEN [Onward(t, After(t)) EXCEPT !.got[p] = n,
                                                       !.late = \/ task[t].late
                                                               \/ clock > task[t].start]
                  ELSE [Onward(t, IF is = "verification" THEN {} ELSE After(t))
                            EXCEPT !.bad = TRUE]]
            /\ UNCHANGED queue
    /\ UNCHANGED <<traffic, daily, world, due, proc, restarts, setup>>

\* Two purchases whose observation windows meet on a listing.
Meet(items, at, b) ==
    /\ items \cap Items(b) # {}
    /\ at - batches[b].started < Hours[Terminal]
    /\ batches[b].started - at < Hours[Terminal]

NewBatch(t) ==
    LET q == task[t].of
        buy == Purchases[q]
    IN [req |-> q, items |-> buy.items, mode |-> buy.mode, cost |-> buy.cost,
        started |-> task[t].start, completed |-> FALSE,
        base |-> [p \in buy.items |-> IF task[t].bad THEN None ELSE task[t].got[p]],
        overlap |-> \E b \in BatchIds : /\ batches[b].started <= task[t].start
                                       /\ Meet(buy.items, task[t].start, b),
        status |-> IF task[t].bad \/ task[t].late THEN "invalidated" ELSE "running"]

\* One transaction for the batch, its expense and its jobs.  A T0 that is missing
\* or younger than the start ends the observation; the purchase stays.
FinishRecord(t) ==
    LET q == task[t].of
        new == NewBatch(t)
    IN
    /\ proc = "up"
    /\ task[t].kind = "record" /\ task[t].pc = "finish"
    /\ IF ~Recorded(q) /\ \A p \in Purchases[q].items : Allowed(p)
       THEN /\ batches' = Append(batches, new)
            /\ expenses' = Append(expenses, new.cost)
            /\ jobs' = Append(jobs, IF new.status = "running"
                                    THEN [c \in Cps |-> NewJob(new.items)]
                                    ELSE <<>>)
            /\ values' = Append(values, [c \in Cps |-> [p \in new.items |-> NoValue]])
       ELSE UNCHANGED <<batches, expenses, jobs, values>>
    /\ task' = [task EXCEPT ![t] = Idle]
    /\ queue' = Tail(queue)
    /\ UNCHANGED <<monitor, reminded, daily, world, due, proc, restarts, setup>>

\* complete_traffic_batch: the exposure has run out and its cost is known.
Complete(b, cost) ==
    /\ Quiet
    /\ "complete" \in setup.user /\ cost \in setup.costs
    /\ batches[b].status # "invalidated"
    /\ batches' = [batches EXCEPT ![b].completed = TRUE, ![b].cost = cost,
                                  ![b].status = IF @ = "closed" THEN @ ELSE "observing"]
    /\ expenses' = [expenses EXCEPT ![b] = cost]
    /\ UNCHANGED <<monitor, jobs, values, reminded, daily, world, task, due, queue, proc,
                   restarts, setup>>

Has(b, c, p) == values[b][c][p] # NoValue

-----------------------------------------------------------------------------
(* What a batch is good for: _traffic_batch_view and classify.             *)

Whole(b, c) == \A p \in Items(b) : Has(b, c, p)

\* Mutant: only batches recorded before it.
OverlappingBefore(b) == \E k \in 1..(b - 1) : Meet(Items(b), batches[b].started, k)

\* Other batches of its listings, recorded before or after, invalidated ones too.
Overlapping(b) == \E k \in BatchIds \ {b} : Meet(Items(b), batches[b].started, k)

\* A counter below T0 or below an earlier checkpoint.
Inconsistent(b) ==
    \E p \in Items(b), c \in Cps :
        /\ Has(b, c, p)
        /\ \/ values[b][c][p].n < batches[b].base[p]
           \/ \E k \in 1..(c - 1) : Has(b, k, p) /\ values[b][c][p].n < values[b][k][p].n

CapturedLate(b, c) == jobs[b][c].delay # None /\ jobs[b][c].delay > MaxDelay[c]

\* The data quality is "mature": the batch takes part in decisions.
Eligible(b) ==
    /\ batches[b].status # "invalidated"
    /\ ~batches[b].overlap /\ ~Overlapping(b)
    /\ Whole(b, Terminal)
    /\ ~Inconsistent(b) /\ ~CapturedLate(b, Terminal)

-----------------------------------------------------------------------------
(* Checkpoints: the user's own readings, the mode, a repetition.           *)

\* record_checkpoint_in_session: all listings at once, counted at some hour since
\* the checkpoint was due, between what stands before and after.
RecordCheckpoint(b, c, at, n) ==
    /\ Quiet
    /\ "manual" \in setup.user
    /\ batches[b].status # "invalidated"
    /\ at \in DueAt(b, c)..clock
    /\ n \in [Items(b) -> 0..setup.counts]
    /\ \A p \in Items(b) :
          /\ n[p] >= batches[b].base[p]
          /\ \A k \in Cps : Has(b, k, p) =>
                /\ k < c => n[p] >= values[b][k][p].n
                /\ k > c => n[p] <= values[b][k][p].n
    /\ values' = [values EXCEPT ![b][c] = [p \in Items(b) |-> [n |-> n[p], at |-> at]]]
    /\ jobs' = [jobs EXCEPT ![b][c] =
                   [@ EXCEPT !.status = "completed", !.delay = at - DueAt(b, c),
                             !.rows = [p \in Items(b) |-> "completed"]]]
    /\ batches' = [batches EXCEPT ![b].status =
                      IF c = Terminal THEN "closed" ELSE IF @ = "running" THEN "observing" ELSE @]
    /\ UNCHANGED <<monitor, expenses, reminded, daily, world, task, due, queue, proc,
                   restarts, setup>>

\* Mutant: a job that was interrupted or failed is automatic again as well.
ResumedAny(b, c) == jobs[b][c].status = "waiting_manual"

\* A job that was never begun is automatic again.
Resumed(b, c) == jobs[b][c].status = "waiting_manual" /\ jobs[b][c].attempts = 0

\* update_checkpoint_collection_mode, which accepts the mode the batch already has.
ChangeMode(b, mode) ==
    /\ Quiet
    /\ "mode" \in setup.user
    /\ Observed(b)
    /\ batches' = [batches EXCEPT ![b].mode = mode]
    /\ jobs' = [jobs EXCEPT ![b] = [c \in Cps |->
           CASE mode = "manual" /\ DueAt(b, c) <= clock /\ @[c].status # "completed" ->
                    [@[c] EXCEPT !.status = "waiting_manual"]
             [] mode = "auto" /\ Resumed(b, c) -> [@[c] EXCEPT !.status = "scheduled"]
             [] OTHER -> @[c]]]
    /\ UNCHANGED <<monitor, expenses, values, reminded, daily, world, task, due, queue, proc,
                   restarts, setup>>

\* retry_traffic_checkpoint_collection: what is missing is read again, also before
\* the checkpoint is due.
Retry(t, b, c) ==
    LET missing == {p \in Items(b) : jobs[b][c].rows[p] # "completed"} IN
    /\ Quiet
    /\ "retry" \in setup.user /\ jobs[b][c].asked < setup.retries
    /\ t \in setup.clients /\ task[t].pc = "idle"
    /\ Observed(b) /\ batches[b].mode = "auto"
    /\ jobs[b][c].status # "completed" /\ missing # {}
    /\ jobs' = [jobs EXCEPT ![b][c] =
                   [@ EXCEPT !.status = "scheduled", !.asked = jobs[b][c].asked + 1,
                             !.rows = [p \in Items(b) |->
                                 IF p \in missing THEN "pending"
                                 ELSE jobs[b][c].rows[p]]]]
    /\ task' = [task EXCEPT ![t] = [Idle EXCEPT !.kind = "job", !.pc = "begin",
                                               !.of = b, !.cp = c]]
    /\ UNCHANGED <<monitor, batches, expenses, values, reminded, daily, world, due, queue,
                   proc, restarts, setup>>

-----------------------------------------------------------------------------
(* The scheduler and the automatic reading of a checkpoint.                *)

\* _restore_traffic_checkpoint_jobs: what is being collected is called interrupted.
Restored ==
    [b \in BatchIds |-> [c \in DOMAIN jobs[b] |->
        IF jobs[b][c].status = "collecting"
        THEN [jobs[b][c] EXCEPT !.status = "waiting_manual"]
        ELSE jobs[b][c]]]

\* Mutant: a job that waited for the connection is not taken up again.
StartableOnce(b, c) == jobs[b][c].status = "scheduled"

Startable(b, c) == jobs[b][c].status \in {"scheduled", "waiting_connection"}

Ready ==
    {j \in BatchIds \X Cps :
        Observed(j[1]) /\ DueAt(j[1], j[2]) <= clock /\ Startable(j[1], j[2])}

Sooner(i, j) == DueAt(i[1], i[2]) < DueAt(j[1], j[2])

\* The jobs one round takes up: those due first, up to the limit.  Which of the jobs
\* due together come first is not said.
DueJobs ==
    {js \in SUBSET Ready :
        /\ Cardinality(js) = Min({DueLimit, Cardinality(Ready)})
        /\ \A j \in js, i \in Ready \ js : ~Sooner(i, j)}

OpenBatches(bs) == {b \in BatchIds : bs[b].status \in {"running", "observing"}}

\* The open batches one round looks at for reminders: those started first, up to the
\* limit, automatic ones too.  Which of two started together comes first is not said.
LookedAt(bs) ==
    {s \in SUBSET OpenBatches(bs) :
        /\ Cardinality(s) = Min({ReminderLimit, Cardinality(OpenBatches(bs))})
        /\ \A b \in s, k \in OpenBatches(bs) \ s : bs[b].started <= bs[k].started}

\* The first checkpoint of a manual batch without any reading, once it is due.
Reminders(bs, looked) ==
    {j \in BatchIds \X Cps :
        /\ j[1] \in looked /\ bs[j[1]].mode = "manual"
        /\ DueAt(j[1], j[2]) <= clock
        /\ \A k \in 1..j[2] :
              (\E p \in Items(j[1]) : Has(j[1], k, p)) <=> k # j[2]}

\* What the scheduler does after a job, or with none: the next one, or
\* _dispatch_due_traffic_reminders, which writes them down and awaits the notifier.
Following(rest) ==
    /\ IF rest = {}
       THEN \E looked \in LookedAt(batches') :
                reminded' = reminded \cup Reminders(batches', looked)
       ELSE reminded' = reminded
    /\ \/ /\ rest = {} /\ due' = {}
          /\ task' = [task EXCEPT ![Scheduler] = [Idle EXCEPT !.pc = "notify"]]
       \/ \E j \in rest :
             /\ \A i \in rest : ~Sooner(i, j)
             /\ due' = rest \ {j}
             /\ task' = [task EXCEPT ![Scheduler] =
                            [Idle EXCEPT !.kind = "job", !.pc = "begin", !.of = j[1], !.cp = j[2]]]

\* A round of _scheduler_loop, as far as the first job.
Poll ==
    \E js \in DueJobs :
        LET byHand == {j \in js : batches[j[1]].mode = "manual"} IN
        /\ Quiet
        /\ task[Scheduler].pc = "idle"
        /\ jobs' = [b \in BatchIds |-> [c \in DOMAIN jobs[b] |->
                       IF <<b, c>> \in byHand
                       THEN [jobs[b][c] EXCEPT !.status = "waiting_manual"]
                       ELSE Restored[b][c]]]
        /\ UNCHANGED batches
        /\ Following({j \in js \ byHand :
                         connected \/ jobs[j[1]][j[2]].status # "waiting_connection"})
        /\ UNCHANGED <<monitor, expenses, values, daily, world, queue, proc, restarts, setup>>

\* A task is done with its job: the request returns, the scheduler takes the next.
Done(t) ==
    IF t = Scheduler THEN Following(due)
    ELSE task' = [task EXCEPT ![t] = Idle] /\ UNCHANGED <<due, reminded>>

\* _run_traffic_checkpoint_job up to the lock: which listings may be read is
\* decided here, before waiting for it.
Begin(t) ==
    LET b == task[t].of
        c == task[t].cp
        begun == Startable(b, c) /\ Observed(b)
    IN
    /\ proc = "up"
    /\ task[t].kind = "job" /\ task[t].pc = "begin"
    /\ UNCHANGED batches
    /\ IF connected /\ begun /\ batches[b].mode = "auto"
       THEN /\ jobs' = [jobs EXCEPT ![b][c] =
                           [@ EXCEPT !.status = "collecting",
                                     !.attempts = jobs[b][c].attempts + 1]]
            /\ Ask(t, [task[t] EXCEPT
                   !.left = {p \in Items(b) : jobs[b][c].rows[p] = "pending"},
                   !.open = {p \in Items(b) : Allowed(p)}])
            /\ UNCHANGED <<due, reminded>>
       ELSE /\ jobs' = CASE ~connected /\ jobs[b][c].status # "completed" ->
                                [jobs EXCEPT ![b][c].status = "waiting_connection"]
                         [] connected /\ begun ->
                                [jobs EXCEPT ![b][c].status = "waiting_manual"]
                         [] OTHER -> jobs
            /\ Done(t)
            /\ UNCHANGED queue
    /\ UNCHANGED <<monitor, expenses, values, daily, world, proc, restarts, setup>>

Enter(t) ==
    /\ Quiet
    /\ task[t].kind = "job" /\ task[t].pc = "lock" /\ Holds(t)
    /\ task' = [task EXCEPT ![t] = Onward(t, task[t].left)]
    /\ UNCHANGED <<monitor, traffic, daily, world, due, queue, proc, restarts, setup>>

\* The counters of a listing fit what stands before them (not what stands after).
Fits(b, c, p, n) ==
    /\ n >= batches[b].base[p]
    /\ \A k \in 1..(c - 1) : Has(b, k, p) => n >= values[b][k][p].n

RowSet(b, c, p, to) == [jobs EXCEPT ![b][c].rows[p] = to]

\* One listing that may not be read any more is passed over.
PassOver(t) ==
    LET p == NextOf(t) IN
    /\ Quiet
    /\ task[t].kind = "job" /\ task[t].pc = "fetch" /\ p \notin task[t].open
    /\ jobs' = RowSet(task[t].of, task[t].cp, p, "failed")
    /\ task' = [task EXCEPT ![t] = Onward(t, After(t))]
    /\ UNCHANGED <<monitor, batches, expenses, values, reminded, daily, world, due, queue,
                   proc, restarts, setup>>

\* One listing is read and stored, or fails.
ReadJob(t, is, n) ==
    LET b == task[t].of
        c == task[t].cp
        p == NextOf(t)
        fits == is \in {"owned", "pending"} /\ monitor'[p].own = "owned" /\ Fits(b, c, p, n)
    IN
    /\ Reading(t, is, n)
    /\ task[t].kind = "job" /\ p \in task[t].open /\ is # "verification"
    /\ values' = IF fits THEN [values EXCEPT ![b][c][p] = [n |-> n, at |-> clock]] ELSE values
    /\ jobs' = RowSet(b, c, p, IF fits THEN "completed" ELSE "failed")
    /\ task' = [task EXCEPT ![t] = Onward(t, After(t))]
    /\ UNCHANGED <<batches, expenses, reminded, daily, world, due, queue, proc, restarts,
                   setup>>

\* A demand for verification: no listing of the job is read any more.
BreakJob(t) ==
    LET b == task[t].of
        c == task[t].cp
        p == NextOf(t)
        skipped == {q \in After(t) : jobs[b][c].rows[q] = "pending"}
    IN
    /\ Reading(t, "verification", 0)
    /\ task[t].kind = "job" /\ p \in task[t].open
    /\ jobs' = [jobs EXCEPT ![b][c] =
                   [@ EXCEPT !.status = "circuit_open",
                             !.rows = [q \in Items(b) |->
                                 IF q = p THEN "failed"
                                 ELSE IF q \in skipped THEN "protection_skipped"
                                 ELSE jobs[b][c].rows[q]]]]
    /\ task' = [task EXCEPT ![t] = Onward(t, {})]
    /\ UNCHANGED <<batches, expenses, values, reminded, daily, world, due, queue, proc,
                   restarts, setup>>

AllRead(b, c) == \A p \in Items(b) : jobs[b][c].rows[p] = "completed"

\* finalize_checkpoint_job, after the lock: the delay is the one of the end.
FinishJob(t) ==
    LET b == task[t].of
        c == task[t].cp
        some == \E p \in Items(b) : jobs[b][c].rows[p] = "completed"
    IN
    /\ proc = "up"
    /\ task[t].kind = "job" /\ task[t].pc = "finish"
    /\ IF AllRead(b, c)
       THEN /\ jobs' = [jobs EXCEPT ![b][c] =
                           [@ EXCEPT !.status = "completed",
                                     !.delay = Max({0, clock - DueAt(b, c)})]]
            /\ batches' = [batches EXCEPT ![b].status =
                              IF c = Terminal THEN "closed" ELSE "observing"]
       ELSE /\ jobs' = [jobs EXCEPT ![b][c].status =
                           IF @ = "circuit_open" THEN @
                           ELSE IF some THEN "partial" ELSE "waiting_manual"]
            /\ UNCHANGED batches
    /\ queue' = Tail(queue)
    /\ Done(t)
    /\ UNCHANGED <<monitor, expenses, values, daily, world, proc, restarts, setup>>

\* The round ends with the collection of the day, when its hour has come.
Notified ==
    /\ Quiet
    /\ task[Scheduler].pc = "notify"
    /\ \/ /\ "collect" \in setup.user /\ connected /\ daily[day] = "none"
          /\ Ask(Scheduler, [Idle EXCEPT !.kind = "daily"])
       \/ task' = [task EXCEPT ![Scheduler] = Idle] /\ UNCHANGED queue
    /\ UNCHANGED <<monitor, traffic, daily, world, due, proc, restarts, setup>>

-----------------------------------------------------------------------------
(* Reading all listings, or one.                                           *)

\* collect_manual, for all listings or for one, and collect_today.
AskCollect(t, kind, p) ==
    /\ Quiet
    /\ (IF kind = "daily" THEN "daily" ELSE "collect") \in setup.user
    /\ t \in setup.clients /\ task[t].pc = "idle"
    /\ kind # "single" => p = 1
    /\ Ask(t, [Idle EXCEPT !.kind = kind, !.of = p])
    /\ UNCHANGED <<monitor, traffic, daily, world, due, proc, restarts, setup>>

Targets(t) ==
    CASE task[t].kind = "single" -> {task[t].of}
      [] task[t].kind = "all" -> {p \in Products : Allowed(p)}
      [] OTHER -> {p \in Products : Allowed(p) \/ (monitor[p].own = "pending" /\ p \in Registered)}

Uncollected(d) == daily[d] = "none"

\* collect_today and collect_manual once they have the lock.
BeginCollect(t) ==
    LET kind == task[t].kind IN
    /\ Quiet
    /\ kind \in {"daily", "all", "single"} /\ task[t].pc = "lock" /\ Holds(t)
    /\ IF connected /\ (kind = "daily" => Uncollected(day))
                    /\ (kind = "single" => monitor[task[t].of].own # "excluded")
       THEN /\ task' = [task EXCEPT ![t] =
                  [Onward(t, Targets(t)) EXCEPT !.start = day]]
            /\ daily' = IF kind = "daily" THEN [daily EXCEPT ![day] = "running"] ELSE daily
            /\ UNCHANGED queue
       ELSE /\ task' = [task EXCEPT ![t] = Idle]
            /\ queue' = Tail(queue)
            /\ UNCHANGED daily
    /\ UNCHANGED <<monitor, traffic, world, due, proc, restarts, setup>>

\* A failure is noted; a lost login or a demand for verification stops the reading.
ReadCollect(t, is, n) ==
    LET p == NextOf(t)
        read == is \in {"owned", "excluded", "pending"}
    IN
    /\ Reading(t, is, n)
    /\ task[t].kind \in {"daily", "all", "single"}
    /\ task' = [task EXCEPT ![t] =
           IF read THEN [Onward(t, After(t)) EXCEPT !.got[p] = 0]
           ELSE [Onward(t, IF is = "error" THEN After(t) ELSE {}) EXCEPT !.bad = TRUE]]
    /\ UNCHANGED <<traffic, daily, world, due, queue, proc, restarts, setup>>

FinishCollect(t) ==
    /\ proc = "up"
    /\ task[t].kind \in {"daily", "all", "single"} /\ task[t].pc = "finish"
    /\ daily' = IF task[t].kind = "daily"
                THEN [daily EXCEPT ![task[t].start] =
                         IF ~task[t].bad THEN "success"
                         ELSE IF \E p \in Products : task[t].got[p] # None THEN "partial"
                         ELSE "failed"]
                ELSE daily
    /\ task' = [task EXCEPT ![t] = Idle]
    /\ queue' = Tail(queue)
    /\ UNCHANGED <<monitor, traffic, world, due, proc, restarts, setup>>

\* update_monitor and disable_monitors.
SetMonitor(p, on) ==
    /\ Quiet
    /\ "monitor" \in setup.user
    /\ on => monitor[p].own = "owned"
    /\ monitor' = [monitor EXCEPT ![p].enabled = on]
    /\ UNCHANGED <<traffic, daily, world, task, due, queue, proc, restarts, setup>>

-----------------------------------------------------------------------------
(* The world, the process and the specification.                           *)

Connect ==
    /\ Quiet
    /\ "connect" \in setup.user
    /\ connected' = ~connected
    /\ UNCHANGED <<monitor, traffic, daily, day, clock, task, due, queue, proc, restarts, setup>>

Tick ==
    /\ proc = "up" => Quiet
    /\ clock < setup.hours
    /\ clock' = clock + 1
    /\ UNCHANGED <<monitor, traffic, daily, day, connected, task, due, queue, proc, restarts,
                   setup>>

NewDay ==
    /\ proc = "up" => Quiet
    /\ day < setup.days
    /\ day' = day + 1
    /\ UNCHANGED <<monitor, traffic, daily, clock, connected, task, due, queue, proc, restarts,
                   setup>>

Crash ==
    /\ proc = "up" /\ restarts < setup.restarts
    /\ proc' = "down" /\ restarts' = restarts + 1
    /\ task' = [t \in Tasks |-> Idle]
    /\ due' = {} /\ queue' = <<>>
    /\ UNCHANGED <<monitor, traffic, daily, world, setup>>

Start ==
    /\ proc = "down"
    /\ proc' = "up"
    /\ jobs' = Restored
    /\ UNCHANGED <<monitor, batches, expenses, values, reminded, daily, world, task, due, queue,
                   restarts, setup>>

\* What a task does until it is idle again; the platform answers or times out.
Step(t) ==
    \/ BeginRecord(t) \/ FinishRecord(t)
    \/ Begin(t) \/ Enter(t) \/ PassOver(t) \/ FinishJob(t)
    \/ BeginCollect(t) \/ FinishCollect(t)
    \/ \E is \in {"owned", "excluded", "pending", "error", "login", "verification"},
          n \in 0..setup.counts :
              ReadT0(t, is, n) \/ ReadJob(t, is, n) \/ ReadCollect(t, is, n)
    \/ BreakJob(t)

Scheduling == Poll \/ Notified

User ==
    \/ \E t \in Clients, q \in Requests : AskRecord(t, q)
    \/ \E b \in BatchIds, cost \in setup.costs : Complete(b, cost)
    \/ \E b \in BatchIds, c \in Cps, at \in 0..clock :
          \E n \in [Items(b) -> 0..setup.counts] : RecordCheckpoint(b, c, at, n)
    \/ \E b \in BatchIds, mode \in {"auto", "manual"} : ChangeMode(b, mode)
    \/ \E t \in Clients, b \in BatchIds : \E c \in DOMAIN jobs[b] : Retry(t, b, c)
    \/ \E t \in Clients, kind \in {"daily", "all", "single"}, p \in Products :
              AskCollect(t, kind, p)
    \/ \E p \in Products, on \in BOOLEAN : SetMonitor(p, on)

Next ==
    \/ \E t \in Tasks : Step(t)
    \/ Scheduling
    \/ User
    \/ Connect \/ Tick \/ NewDay \/ Crash \/ Start

Spec == Init /\ [][Next]_vars

\* The loop goes on after an exception, reads end in a timeout and the lock is handed
\* on; the scheduler wakes up although requests run through their gaps again and again.
\* The user, time and a start are not promised.
FairSpec == Spec /\ SF_vars(Scheduling) /\ \A t \in Tasks : WF_vars(Step(t))
=============================================================================
