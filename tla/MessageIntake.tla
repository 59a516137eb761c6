---------------------------- MODULE MessageIntake ----------------------------
(***************************************************************************)
(* From the platform to the database: the listener (listener.py, the       *)
(* connection of adapters/xianyu.py), its supervisor                       *)
(* (listener_supervisor.py) and the recovery of its login                  *)
(* (connection_recovery.py), the ingestion, hydration and reconciliation   *)
(* of messages (processor.py, repository.py), and with them the images of  *)
(* CustomerImages.                                                         *)
(*                                                                         *)
(* The platform pushes a customer's message over the connection, once,     *)
(* twice or never.  A message that is received fetches the history of its  *)
(* conversation, which is merged as context; a loop asks for the newest    *)
(* message of every conversation and processes the ones that are missing.  *)
(* The user pauses, resumes and reconnects the listener, replaces the      *)
(* login, imports a history and deletes images meanwhile.                  *)
(*                                                                         *)
(* Everything runs on one event loop: an action is the code between two    *)
(* awaits that suspend.  No code awaits under _ingest_lock, so taking it   *)
(* never does.                                                             *)
(***************************************************************************)
EXTENDS CustomerImages, FiniteSetsExt

CONSTANTS
    MaxMessages,    \* bound: messages the customers write
    Conversations,  \* their conversations
    Conversation,   \* message -> its conversation
    HistoryLimit,   \* messages fetched by a hydration
    MaxRuns,        \* names for the tasks of run_forever that are alive
    Setups          \* what to explore together: what the user does, what the
                    \* platform answers besides its pushes, which messages carry
                    \* images, whether connections break and messages grow old,
                    \* bounds of messages, imports, requests in flight, logins and
                    \* restarts

MessageIds == 1..MaxMessages
RunIds == 1..MaxRuns
NoRun == 0

ASSUME IntakeAssumption ==
    /\ MaxMessages \in Nat
    /\ Conversation \in [MessageIds -> Conversations]
    /\ Images \subseteq MessageIds
    /\ HistoryLimit \in Nat \ {0}
    /\ MaxRuns \in Nat \ {0}
    /\ Setups \subseteq [user : SUBSET {"pause", "resume", "reconnect", "recover",
                                       "shutdown", "delete", "restore"},
                        answers : SUBSET {"repeat", "newest", "history"},
                        images : SUBSET Images,
                        trouble : BOOLEAN, messages : 0..MaxMessages, imports : Nat,
                        requests : Nat, logins : Nat, restarts : Nat]

VARIABLES
    written,     \* messages the customers have written
    aged,        \* messages up to this one are too old to be reconciled
    wire,        \* messages pushed over the connection and not read yet
    stored,      \* message -> how it came into the database
    rows,        \* messages in the order of their rows
    tasks,       \* live messages whose process() has not run yet
    announcing,  \* live messages whose process() awaits the notifier
    hydrations,  \* hydrations under way
    recon,       \* the reconciliation loop
    run,         \* run id -> what that run_forever does
    supervised,  \* _task of the supervisor
    paused,      \* _paused
    shutting,    \* _shutting_down
    ops,         \* the supervisor's operations: the first holds _lock
    step,        \* how far the first one is
    cancelled,   \* the run it waits for
    recovering,  \* how far a replacement of the login is
    login,       \* the login of the adapter
    session,     \* the login the connection was made with
    proc,        \* the process: up or down
    restarts,    \* stops and crashes so far
    imports,     \* imports so far
    setup        \* the setup explored, chosen once

platform == <<written, aged>>
database == <<stored, rows>>
intake == <<tasks, announcing, hydrations, recon>>
listener == <<wire, run, session>>
supervisor == <<supervised, paused, shutting, ops, step, cancelled>>
accounts == <<recovering, login>>
process == <<proc, restarts, setup>>
vars == <<platform, database, intake, listener, supervisor, accounts, process,
          imports, imageVars>>

-----------------------------------------------------------------------------
Alive == {r \in RunIds : run[r] # "none"}

Connected == \E r \in RunIds : run[r] = "connected"

InConversation(m) == {k \in 1..written : Conversation[k] = Conversation[m]}

\* Messages a hydration answered when `at' messages were written merges.
History(m, at) ==
    LET all == {k \in InConversation(m) : k <= at} IN
    {k \in all : Cardinality({j \in all : j > k}) < HistoryLimit}

\* The messages of a set in the order they were written.
InOrder(S) ==
    {s \in [1..Cardinality(S) -> S] :
        /\ \A i, j \in DOMAIN s : i < j => s[i] < s[j]
        /\ \A m \in S : \E i \in DOMAIN s : s[i] = m}

\* Mutant: only the conversation that changed last.
NewestOfOne == IF written = 0 THEN {} ELSE {written}

\* The answer to the request for the newest messages, oldest first.
NewestOfAll == {m \in 1..written : m = Max(InConversation(m))}

NoRecon == [pc |-> "off", batch |-> <<>>, of |-> 0]
NewRecon == [NoRecon EXCEPT !.pc = "sleeping"]

Operation == [do : {"pause", "resume", "reconnect", "shutdown"}, by : {"user", "recovery"}]

IntakeTypeOK ==
    /\ written \in 0..setup.messages
    /\ aged \in 0..written
    /\ wire \in Seq(1..written)
    /\ stored \in [MessageIds -> {"none", "live", "reconcile", "history"}]
    /\ rows \in Seq(1..written)
    /\ tasks \in Seq(1..written)
    /\ announcing \subseteq 1..written
    /\ hydrations \subseteq [of : 1..written, at : 0..written]
    /\ recon.pc \in {"off", "sleeping", "asking", "handling", "announcing"}
    /\ recon.batch \in Seq(1..written) /\ recon.of \in 0..written
    /\ run \in [RunIds -> {"none", "starting", "connecting", "connected", "waiting",
                           "cancelled"}]
    /\ supervised \in 0..MaxRuns
    /\ {paused, shutting} \subseteq BOOLEAN
    /\ ops \in Seq(Operation)
    /\ step \in {"check", "unwinding", "draining"}
    /\ recovering \in {"no", "pausing", "replacing", "reconnecting"}
    /\ session \in 0..login
    /\ proc \in {"up", "down"}
    /\ setup \in Setups

Init ==
    /\ written = 0 /\ aged = 0
    /\ stored = [m \in MessageIds |-> "none"]
    /\ rows = <<>>
    /\ tasks = <<>> /\ announcing = {} /\ hydrations = {}
    /\ recon = NewRecon
    /\ wire = <<>> /\ session = 0
    /\ supervised = 1
    /\ run = [r \in RunIds |-> IF r = supervised THEN "starting" ELSE "none"]
    /\ paused = FALSE /\ shutting = FALSE
    /\ ops = <<>> /\ step = "check" /\ cancelled = NoRun
    /\ recovering = "no"
    /\ login = 1
    /\ proc = "up"
    /\ restarts = 0
    /\ imports = 0
    /\ setup \in Setups
    /\ ImagesInit

-----------------------------------------------------------------------------
\* A customer writes; the platform pushes the message, or does not, or repeats it.
Write ==
    /\ written < setup.messages
    /\ written' = written + 1
    /\ wire' \in IF Connected
                 THEN {wire, Append(wire, written')} \cup
                      (IF "repeat" \in setup.answers
                       THEN {wire \o <<written', written'>>} ELSE {})
                 ELSE {wire}
    /\ UNCHANGED <<aged, database, intake, run, session, supervisor, accounts,
                   process, imports, imageVars>>

Age ==
    /\ aged < written
    /\ setup.trouble
    /\ aged' = aged + 1
    /\ UNCHANGED <<written, database, intake, listener, supervisor, accounts,
                   process, imports, imageVars>>

-----------------------------------------------------------------------------
\* ingest_message: a message that is there already only brings its images.
Ingest(m, source) ==
    /\ stored' = IF stored[m] = "none" THEN [stored EXCEPT ![m] = source] ELSE stored
    /\ rows' = IF stored[m] = "none" THEN Append(rows, m) ELSE rows
    /\ PersistJobs({m} \cap setup.images, FALSE)

New(messages) == {k \in messages : stored[k] = "none"}

\* Messages merged as context (_merge_conversation_context, the import).
Merge(messages, imported) ==
    /\ stored' = [k \in MessageIds |-> IF k \in New(messages) THEN "history" ELSE stored[k]]
    /\ \E new \in InOrder(New(messages)) : rows' = rows \o new
    /\ PersistJobs(messages \cap setup.images, imported)

\* The listener reads the next pushed message and makes a task of it.
Receive ==
    /\ Connected
    /\ wire # <<>>
    /\ tasks' = Append(tasks, Head(wire))
    /\ wire' = Tail(wire)
    /\ UNCHANGED <<platform, database, announcing, hydrations, recon, run, session,
                   supervisor, accounts, process, imports, imageVars>>

\* Mutant: the newest task runs first.
ProcessLast ==
    /\ tasks # <<>>
    /\ Ingest(tasks[Len(tasks)], "live")
    /\ tasks' = SubSeq(tasks, 1, Len(tasks) - 1)
    /\ announcing' = IF stored[tasks[Len(tasks)]] = "none"
                     THEN announcing \cup {tasks[Len(tasks)]} ELSE announcing
    /\ UNCHANGED <<platform, hydrations, recon, listener, supervisor, accounts,
                   process, imports>>

\* process() up to its first await: tasks start in the order they were made.
Process ==
    /\ tasks # <<>>
    /\ Ingest(Head(tasks), "live")
    /\ tasks' = Tail(tasks)
    /\ announcing' = IF stored[Head(tasks)] = "none"
                     THEN announcing \cup {Head(tasks)} ELSE announcing
    /\ UNCHANGED <<platform, hydrations, recon, listener, supervisor, accounts,
                   process, imports>>

Hydrating(m) == IF "history" \in setup.answers THEN {[of |-> m, at |-> 0]} ELSE {}

\* The user has been notified: the hydration starts.
Announce(m) ==
    /\ m \in announcing
    /\ announcing' = announcing \ {m}
    /\ hydrations' = hydrations \cup Hydrating(m)
    /\ UNCHANGED <<platform, database, tasks, recon, listener, supervisor, accounts,
                   process, imports, imageVars>>

\* The history is read on the platform and on its way; without a connection there
\* is none.
Answered(h) ==
    /\ h \in hydrations
    /\ h.at = 0
    /\ hydrations' = (hydrations \ {h}) \cup
                        (IF Connected THEN {[h EXCEPT !.at = written]} ELSE {})
    /\ UNCHANGED <<platform, database, tasks, announcing, recon, listener, supervisor,
                   accounts, process, imports, imageVars>>

Hydrate(h) ==
    /\ h \in hydrations
    /\ h.at # 0
    /\ Merge(History(h.of, h.at), FALSE)
    /\ hydrations' = hydrations \ {h}
    /\ UNCHANGED <<platform, tasks, announcing, recon, listener, supervisor, accounts,
                   process, imports>>

\* The user imports the history of a conversation, up to the preview's moment.
Import(c) ==
    /\ proc = "up"
    /\ imports < setup.imports
    /\ \E n \in 1..written :
          /\ Conversation[n] = c
          /\ Merge({m \in InConversation(n) : m <= n}, TRUE)
    /\ imports' = imports + 1
    /\ UNCHANGED <<platform, intake, listener, supervisor, accounts, process>>

\* recover_xianyu_history: a stored message whose image is missing is read again on
\* the platform and replayed, which only brings its image.
Restore(m) ==
    /\ "restore" \in setup.user
    /\ Connected
    /\ stored[m] # "none" /\ m \in setup.images
    /\ archive[m] \in {"pending", "failed"}
    /\ PersistJobs({m}, FALSE)
    /\ UNCHANGED <<platform, database, intake, listener, supervisor, accounts,
                   process, imports>>

-----------------------------------------------------------------------------
\* _reconcile_loop and reconcile_recent_conversations.
ReconStep(next) ==
    /\ recon' = next
    /\ UNCHANGED <<platform, tasks, announcing, listener, supervisor, accounts,
                   process, imports>>

Ask ==
    /\ recon.pc = "sleeping"
    /\ Connected
    /\ "newest" \in setup.answers
    /\ ReconStep([recon EXCEPT !.pc = "asking"])
    /\ UNCHANGED <<database, hydrations, imageVars>>

Newest ==
    /\ recon.pc = "asking"
    /\ IF Connected
       THEN \E newest \in InOrder(NewestOfAll) :
               ReconStep([recon EXCEPT !.pc = "handling", !.batch = newest])
       ELSE ReconStep(NewRecon)
    /\ UNCHANGED <<database, hydrations, imageVars>>

\* The next message that is neither old nor there is processed up to its await.
Reconcile ==
    LET news == recon.batch
        missing == {k \in 1..Len(news) : news[k] > aged /\ stored[news[k]] = "none"}
    IN
    /\ recon.pc = "handling"
    /\ \/ missing = {} /\ ReconStep(NewRecon) /\ UNCHANGED <<database, imageVars>>
       \/ \E k \in missing :
             /\ \A j \in missing : k <= j
             /\ Ingest(news[k], "reconcile")
             /\ ReconStep([pc |-> "announcing", of |-> news[k],
                           batch |-> SubSeq(news, k + 1, Len(news))])
    /\ UNCHANGED hydrations

Reconciled ==
    /\ recon.pc = "announcing"
    /\ hydrations' = hydrations \cup Hydrating(recon.of)
    /\ ReconStep([recon EXCEPT !.pc = "handling", !.of = 0])
    /\ UNCHANGED <<database, imageVars>>

-----------------------------------------------------------------------------
\* run_forever and the connection.
Runs(r, from, to) ==
    /\ run[r] = from
    /\ run' = [run EXCEPT ![r] = to]
    /\ UNCHANGED <<platform, database, tasks, announcing, hydrations, supervisor,
                   accounts, process, imports, imageVars>>

Dial(r) ==
    /\ Runs(r, "starting", "connecting") \/ Runs(r, "waiting", "connecting")
    /\ session' = login
    /\ UNCHANGED <<wire, recon>>

Connect(r) ==
    /\ Runs(r, "connecting", "connected")
    /\ UNCHANGED <<wire, recon, session>>

\* The connection failed or broke: it is tried again after a pause.
Break(r) ==
    /\ setup.trouble
    /\ \E from \in {"connecting", "connected"} : Runs(r, from, "waiting")
    /\ wire' = <<>>
    /\ UNCHANGED <<recon, session>>

\* The platform asks for a verification: the run ends, and its loop with it.
Verify(r) ==
    /\ setup.trouble
    /\ \E from \in {"connecting", "connected"} : Runs(r, from, "none")
    /\ wire' = <<>>
    /\ recon' = NoRecon
    /\ UNCHANGED session

\* A cancelled run closes its connection and its loop, and ends.
Unwind(r) ==
    /\ Runs(r, "cancelled", "none")
    /\ wire' = <<>>
    /\ recon' = NoRecon
    /\ UNCHANGED session

-----------------------------------------------------------------------------
\* The operations of the supervisor take their turns at _lock.
Request(do, by) ==
    /\ proc = "up"
    /\ Len(ops) < setup.requests
    /\ ops' = Append(ops, [do |-> do, by |-> by])
    /\ UNCHANGED <<platform, database, intake, listener, supervised, paused, shutting,
                   step, cancelled, login, process, imports, imageVars>>

UserRequest(do) ==
    /\ do \in setup.user
    /\ ~shutting
    /\ Request(do, "user")
    /\ UNCHANGED recovering

\* Mutant: a run that is not connected counts as ended.
RunningConnected == supervised # NoRun /\ run[supervised] = "connected"

Running == supervised # NoRun /\ run[supervised] # "none"

StartRun ==
    /\ RunIds # Alive
    /\ supervised' = Min(RunIds \ Alive)
    /\ run' = [run EXCEPT ![supervised'] = "starting"]
    /\ recon' = NewRecon
    /\ paused' = FALSE

\* The operation is over; a replacement of the login goes on.
Return ==
    /\ ops' = Tail(ops)
    /\ step' = "check"
    /\ cancelled' = NoRun
    /\ recovering' = IF Head(ops).by = "user" THEN recovering
                     ELSE IF recovering = "pausing" THEN "replacing" ELSE "no"

Cancel ==
    /\ run' = [run EXCEPT ![supervised] = "cancelled"]
    /\ cancelled' = supervised
    /\ supervised' = NoRun
    /\ step' = "unwinding"
    /\ UNCHANGED <<ops, recon, recovering>>

Turn(do) == ops # <<>> /\ Head(ops).do = do /\ step = "check"

Elsewhere ==
    UNCHANGED <<platform, database, tasks, announcing, wire, session, login, process,
                imports>>

Resume ==
    /\ Turn("resume")
    /\ IF shutting \/ Running
       THEN UNCHANGED <<run, supervised, recon, paused>>
       ELSE StartRun
    /\ Return
    /\ Elsewhere
    /\ UNCHANGED <<shutting, hydrations, imageVars>>

Pause ==
    /\ Turn("pause")
    /\ paused' = TRUE
    /\ IF Running THEN Cancel
       ELSE supervised' = NoRun /\ Return /\ UNCHANGED <<run, recon>>
    /\ Elsewhere
    /\ UNCHANGED <<shutting, hydrations, imageVars>>

Reconnect ==
    /\ Turn("reconnect")
    /\ IF shutting THEN Return /\ UNCHANGED <<run, supervised, recon, paused>>
       ELSE IF Running THEN Cancel /\ UNCHANGED paused
       ELSE StartRun /\ Return
    /\ Elsewhere
    /\ UNCHANGED <<shutting, hydrations, imageVars>>

Shutdown ==
    /\ Turn("shutdown")
    /\ shutting' = TRUE
    /\ IF Running THEN Cancel
       ELSE /\ supervised' = NoRun /\ step' = "draining"
            /\ UNCHANGED <<run, recon, ops, cancelled, recovering>>
    /\ Elsewhere
    /\ UNCHANGED <<paused, hydrations, imageVars>>

\* The run that was cancelled has ended.
Unwound ==
    /\ step = "unwinding"
    /\ run[cancelled] = "none"
    /\ CASE Head(ops).do = "reconnect" -> StartRun /\ Return
         [] Head(ops).do = "pause" -> Return /\ UNCHANGED <<run, supervised, recon, paused>>
         [] OTHER -> /\ step' = "draining"
                     /\ UNCHANGED <<run, supervised, recon, paused, ops, cancelled, recovering>>
    /\ Elsewhere
    /\ UNCHANGED <<shutting, hydrations, imageVars>>

\* recover_xianyu and reload, after the new login was validated.
Recover ==
    /\ recovering = "no"
    /\ login < setup.logins
    /\ ~shutting
    /\ Request("pause", "recovery")
    /\ recovering' = "pausing"

Replace ==
    /\ recovering = "replacing"
    /\ login' = login + 1
    /\ ops' = Append(ops, [do |-> "reconnect", by |-> "recovery"])
    /\ recovering' = "reconnecting"
    /\ UNCHANGED <<platform, database, intake, listener, supervised, paused, shutting,
                   step, cancelled, process, imports, imageVars>>

-----------------------------------------------------------------------------
\* stop() of the listener: what was received is processed, hydrations and the
\* image worker are cancelled, and the process ends.
Halt ==
    /\ restarts < setup.restarts
    /\ restarts' = restarts + 1
    /\ proc' = "down"
    /\ run' = [r \in RunIds |-> "none"]
    /\ supervised' = NoRun
    /\ recon' = NoRecon
    /\ tasks' = <<>> /\ announcing' = {} /\ hydrations' = {}
    /\ wire' = <<>>
    /\ ops' = <<>> /\ step' = "check" /\ cancelled' = NoRun
    /\ recovering' = "no"
    /\ UNCHANGED <<platform, database, session, login, paused, shutting, setup, imports>>

Drained ==
    /\ step = "draining"
    /\ tasks = <<>> /\ announcing = {}
    /\ Halt
    /\ StopCapture

Crash ==
    /\ proc = "up"
    /\ Halt
    /\ CrashCapture

\* start() of the supervisor.
Boot ==
    /\ proc = "down"
    /\ proc' = "up"
    /\ StartRun
    /\ shutting' = FALSE
    /\ UNCHANGED <<platform, database, tasks, announcing, hydrations, wire, session,
                   ops, step, cancelled, accounts, restarts, setup, imports, imageVars>>

-----------------------------------------------------------------------------
\* What CustomerImages does by itself, and what the user does to an image.
ImageStep ==
    /\ proc = "up"
    /\ \/ Capture
       \/ \E i \in Images : Elapse(i)
       \/ "delete" \in setup.user /\ \E i \in Images : Delete(i)
    /\ UNCHANGED <<platform, database, intake, listener, supervisor, accounts,
                   process, imports>>

Listening ==
    \E r \in RunIds : Dial(r) \/ Connect(r) \/ Break(r) \/ Verify(r) \/ Unwind(r)

Supervising ==
    \/ \E do \in {"pause", "resume", "reconnect", "shutdown"} : UserRequest(do)
    \/ Resume \/ Pause \/ Reconnect \/ Shutdown \/ Unwound
    \/ Recover \/ Replace

Taking ==
    \/ Receive \/ Process
    \/ \E m \in announcing : Announce(m)
    \/ \E h \in hydrations : Answered(h) \/ Hydrate(h)
    \/ \E c \in Conversations : Import(c)
    \/ \E m \in Images : Restore(m)
    \/ Ask \/ Newest \/ Reconcile \/ Reconciled

Next ==
    \/ Write \/ Age \/ Taking \/ Listening \/ Supervising
    \/ ImageStep
    \/ Drained \/ Crash \/ Boot

Spec == Init /\ [][Next]_vars

\* The event loop runs the tasks that can go on, and every download, notification
\* and request ends.  Nothing is assumed of customers, users, connections,
\* restarts and the age of messages.
Fairness ==
    /\ WF_vars(Receive) /\ WF_vars(Process)
    /\ WF_vars(Ask \/ Newest \/ Reconcile \/ Reconciled)
    /\ WF_vars(proc = "up" /\ Capture /\ UNCHANGED <<platform, database, intake, listener,
                                                    supervisor, accounts, process, imports>>)
    /\ \A i \in Images :
          WF_vars(proc = "up" /\ Elapse(i) /\ UNCHANGED <<platform, database, intake, listener,
                                                        supervisor, accounts, process, imports>>)

FairSpec == Spec /\ Fairness
=============================================================================
