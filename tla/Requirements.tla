---------------------------- MODULE Requirements ----------------------------
(***************************************************************************)
(* Requirement documents and the customer they belong to                   *)
(* (backend/app/services/requirements.py, requirement_exchange.py,         *)
(* requirement_proposals.py, customer_identity.py, with the operations of  *)
(* customer_intake.py, ledger_api.py and sales_agent.py that relate a      *)
(* conversation to a customer).                                            *)
(*                                                                         *)
(* A conversation is related to customers by its channel identity, its     *)
(* lead and the cases it is a source of.  A case gets its versions from    *)
(* imports that were previewed, from edits, and from proposals made over   *)
(* the external access of ContextAccess and confirmed by the user, here or *)
(* from outside.  An analysis of the queue writes documents of its         *)
(* conversation, without a case.                                           *)
(*                                                                         *)
(* An operation runs on the event loop without an await or in a            *)
(* transaction of its own: one action each.  A request that is refused, or *)
(* repeated with its request id, changes nothing and is no action.         *)
(***************************************************************************)
EXTENDS ContextSync

CONSTANTS MaxTasks  \* bound: analyses

ASSUME RequirementsAssumption ==
    /\ MaxTasks \in Nat
    /\ "none" \notin Conversations
    /\ \A s \in Setups : s.tasks <= MaxTasks

VARIABLES
    customers,  \* customers that exist
    lead,       \* conversation -> row of sales_leads
    case,       \* rows of requirement_cases, with their sources
    docs,       \* rows of requirement_document_versions
    preview,    \* previews of imports, kept in memory
    proposal,   \* proposals
    task,       \* rows of requirement_analysis_tasks
    queue,      \* ids of tasks, in memory
    worker,     \* the task the worker runs (0: none)
    up,         \* the process runs
    stops       \* times it stopped

relations == <<customers, lead>>
records == <<case, docs>>
analysis == <<task, queue, worker, up, stops>>
reqVars == <<relations, records, preview, proposal, analysis>>

-----------------------------------------------------------------------------
Cases == 1..Len(case)
Tasks == 1..Len(task)

Someone == Customers \cup {"none"}

\* Who wrote a version: an import, an edit, a proposal or an analysis.
Author == [kind : {"import", "edit", "proposal", "task"}, id : Nat]

Doc == [conv : Conversations \cup {"none"}, case : Nat, num : Nat, by : Author]

ReqTypeOK ==
    /\ customers \subseteq Customers
    /\ lead \in [Conversations -> [status : {"none", "open", "won"}, customer : Someone]]
    /\ \A i \in Cases :
          case[i] \in [customer : customers, current : Nat, sources : SUBSET Conversations,
                       lead : Conversations \cup {"none"}, project : BOOLEAN]
    /\ docs \subseteq Doc
    /\ \A k \in 1..Len(preview) :
          preview[k] \in [conv : Conversations, customer : customers, case : 0..Len(case),
                          expected : Nat, open : BOOLEAN]
    /\ \A p \in 1..Len(proposal) :
          proposal[p] \in [grant : Granted, customer : customers, case : 0..Len(case),
                           expected : Nat, images : SUBSET Images, expired : BOOLEAN,
                           result : 0..Len(case)]
    /\ \A t \in Tasks :
          task[t] \in [conv : Conversations, cancel : BOOLEAN, base : Nat,
                       status : {"pending", "running", "completed", "failed", "cancelled"}]
    /\ queue \in Seq(Tasks)
    /\ worker \in 0..Len(task)
    /\ up \in BOOLEAN
    /\ stops \in 0..setup.stops

ReqInit ==
    /\ customers = {Home}
    /\ lead = [c \in Conversations |-> [status |-> "none", customer |-> "none"]]
    /\ case = <<>>
    /\ docs = {}
    /\ preview = <<>>
    /\ proposal = <<>>
    /\ task = <<>>
    /\ queue = <<>>
    /\ worker = 0
    /\ up = TRUE
    /\ stops = 0

-----------------------------------------------------------------------------
\* linked_customer_ids: every relation of a conversation.
LinkedIds(c) ==
    ({owner[c], lead[c].customer} \ {"none"})
        \cup {case[i].customer : i \in {j \in Cases : c \in case[j].sources}}

Newcomers == Customers \ customers

\* The customer u becomes the owner of the channel identities of the conversations.
Own(convs, u) ==
    /\ customers' = customers \cup {u}
    /\ owner' = [c \in Conversations |-> IF c \in convs THEN u ELSE owner[c]]

AccessKept ==
    UNCHANGED <<threads, rights, group, cutoff, tokenGrant, mode, audits, setup,
                content, horizon, progress>>

\* create_customer, for a conversation without a customer.
CreateCustomer(c) ==
    /\ LinkedIds(c) = {}
    /\ \E u \in Newcomers : Own({c}, u)
    /\ UNCHANGED <<lead, records, preview, proposal, analysis>>
    /\ AccessKept

\* The one customer of the conversation is confirmed, or a new one created.
ConfirmRequirementCustomer(c) ==
    \/ CreateCustomer(c)
    \/ /\ \E u \in LinkedIds(c) : LinkedIds(c) = {u} /\ Own({c}, u)
       /\ UNCHANGED <<lead, records, preview, proposal, analysis>>
       /\ AccessKept

\* create_or_get_lead
OpenLead(c) ==
    /\ lead[c].status = "none"
    /\ lead' = [lead EXCEPT ![c].status = "open"]
    /\ UNCHANGED <<customers, owner, records, preview, proposal, analysis>>
    /\ AccessKept

\* confirm_analysis of the sales agent: the identity goes before the lead.
ConfirmSalesAnalysis(c) ==
    /\ \E u \in Customers :
          /\ IF owner[c] # "none" THEN u = owner[c]
             ELSE IF lead[c].customer # "none" THEN u = lead[c].customer
             ELSE u \in Newcomers
          /\ Own({c}, u)
          /\ lead' = [lead EXCEPT ![c].customer = u,
                                  ![c].status = IF @ = "won" THEN @ ELSE "open"]
    /\ UNCHANGED <<records, preview, proposal, analysis>>
    /\ AccessKept

\* convert_lead: the user names the customer, whoever was related before.
ConvertLead(c) ==
    /\ lead[c].status = "open"
    /\ \E u \in Customers :
          /\ Own({c}, u)
          /\ lead' = [lead EXCEPT ![c] = [status |-> "won", customer |-> u]]
    /\ UNCHANGED <<records, preview, proposal, analysis>>
    /\ AccessKept

-----------------------------------------------------------------------------
\* The constraints of the table: a number once in a case and once in a conversation.
Free(d) ==
    \A e \in docs :
        /\ e.case = d.case /\ d.case # 0 => e.num # d.num
        /\ e.conv = d.conv /\ d.conv # "none" => e.num # d.num

CurrentOf(i) == IF i = 0 THEN 0 ELSE case[i].current

NewCase(u) ==
    [customer |-> u, current |-> 0, sources |-> {}, lead |-> "none", project |-> FALSE]

\* The version of case i after base, of a new case of u when i is 0; the case gets
\* more sources and a lead.
Write(i, u, base, conv, by, sources, itsLead) ==
    LET rows == IF i = 0 THEN Append(case, NewCase(u)) ELSE case
        j == IF i = 0 THEN Len(rows) ELSE i
        d == [conv |-> conv, case |-> j, num |-> base + 1, by |-> by]
    IN
    /\ Free(d)
    /\ d.num <= setup.versions
    /\ docs' = docs \cup {d}
    /\ case' = [rows EXCEPT ![j].current = d.num,
                            ![j].sources = @ \cup sources,
                            ![j].lead = IF itsLead = "none" THEN @ ELSE itsLead]

PreviewImport(c, u, i) ==
    /\ Len(preview) < setup.imports
    /\ u \in customers
    /\ LinkedIds(c) \subseteq {u}
    /\ i # 0 => case[i].customer = u
    /\ preview' = Append(preview, [conv |-> c, customer |-> u, case |-> i,
                                   expected |-> CurrentOf(i), open |-> TRUE])
    /\ UNCHANGED <<owner, relations, records, proposal, analysis>>
    /\ AccessKept

\* What commit_import looks at again.
StillFits(k) ==
    /\ LinkedIds(preview[k].conv) \subseteq {preview[k].customer}
    /\ preview[k].case # 0 =>
          /\ case[preview[k].case].customer = preview[k].customer
          /\ case[preview[k].case].current = preview[k].expected

\* An import; the lead of its conversation becomes the case's.
CommitImport(k) ==
    LET c == preview[k].conv IN
    /\ preview[k].open
    /\ StillFits(k)
    /\ Write(preview[k].case, preview[k].customer, CurrentOf(preview[k].case), c,
             [kind |-> "import", id |-> k], {c}, IF lead[c].status = "none" THEN "none" ELSE c)
    /\ Own({c}, preview[k].customer)
    /\ preview' = [preview EXCEPT ![k].open = FALSE]
    /\ UNCHANGED <<lead, proposal, analysis>>
    /\ AccessKept

\* 15 minutes passed.
ExpirePreview(k) ==
    /\ preview[k].open
    /\ preview' = [preview EXCEPT ![k].open = FALSE]
    /\ UNCHANGED <<owner, relations, records, proposal, analysis>>
    /\ AccessKept

\* An edit keeps the conversation of the version it follows.
EditCase(i) ==
    /\ \E d \in docs :
          /\ d.case = i
          /\ d.num = case[i].current
          /\ Write(i, case[i].customer, d.num, d.conv, [kind |-> "edit", id |-> d.num], {}, "none")
    /\ UNCHANGED <<owner, relations, preview, proposal, analysis>>
    /\ AccessKept

\* A case moves to another customer, and with it the channel identities of its
\* sources and its lead.
TransferCase(i, u) ==
    LET l == case[i].lead IN
    /\ ~case[i].project
    /\ u # case[i].customer
    /\ Own(case[i].sources, u)
    /\ lead' = IF l # "none" /\ lead[l].status # "won"
               THEN [lead EXCEPT ![l].customer = u] ELSE lead
    /\ case' = [case EXCEPT ![i].customer = u]
    /\ UNCHANGED <<docs, preview, proposal, analysis>>
    /\ AccessKept

\* The case of a project of its customer.
LinkProject(i) ==
    /\ ~case[i].project
    /\ case' = [case EXCEPT ![i].project = TRUE]
    /\ UNCHANGED <<owner, relations, docs, preview, proposal, analysis>>
    /\ AccessKept

-----------------------------------------------------------------------------
\* _source: every conversation of the grant belongs to u and to nobody else.
SourceIs(g, u) ==
    /\ Valid(g)
    /\ ScopeOpen(g)
    /\ \A c \in grant[g].scope : LinkedIds(c) = {u}

\* Images a proposal may rest on.
Evidence(g) == {i \in Manifest(ScopeOf(g)) : image[i] = "stored"}

Propose(g, by, i) ==
    /\ Len(proposal) < setup.proposals
    /\ Called(g, by)
    /\ \E u \in customers, images \in SUBSET Evidence(g) :
          /\ SourceIs(g, u)
          /\ i # 0 =>
                /\ case[i].customer = u
                /\ case[i].sources # {}
                /\ case[i].sources \subseteq grant[g].scope
          /\ proposal' = Append(proposal,
                [grant |-> g, customer |-> u, case |-> i, expected |-> CurrentOf(i),
                 images |-> images, expired |-> FALSE, result |-> 0])
    /\ UNCHANGED <<owner, relations, records, preview, analysis, content, horizon, progress>>

\* What confirm looks at again of the case.
CaseUnchanged(p) ==
    LET i == proposal[p].case IN
    i # 0 => /\ case[i].current = proposal[p].expected
             /\ case[i].customer = proposal[p].customer
             /\ case[i].sources \subseteq grant[proposal[p].grant].scope

\* Mutant: the relations of the sources are those of the preview.
GrantHolds(p) == Valid(proposal[p].grant) /\ ScopeOpen(proposal[p].grant)

SourceHolds(p) == SourceIs(proposal[p].grant, proposal[p].customer)

\* The version a confirmed proposal becomes, once.
Confirmed(p) ==
    /\ proposal[p].result = 0
    /\ ~proposal[p].expired
    /\ SourceHolds(p)
    /\ CaseUnchanged(p)
    /\ \A i \in proposal[p].images : image[i] = "stored"
    /\ Write(proposal[p].case, proposal[p].customer, proposal[p].expected, "none",
             [kind |-> "proposal", id |-> p], grant[proposal[p].grant].scope, "none")
    /\ proposal' = [proposal EXCEPT ![p].result =
                       IF proposal[p].case = 0 THEN Len(case) + 1 ELSE proposal[p].case]
    /\ UNCHANGED <<owner, relations, preview, analysis, content, horizon, progress>>

\* confirm with the review token.
ConfirmHere(p) ==
    /\ Confirmed(p)
    /\ UNCHANGED <<threads, rights, group, cutoff, tokenGrant, mode, audits, setup>>

\* confirm from outside, with the key of the same grant.
ConfirmOutside(p, by) == Called(proposal[p].grant, by) /\ Confirmed(p)

ExpireProposal(p) ==
    /\ ~proposal[p].expired
    /\ proposal[p].result = 0
    /\ proposal' = [proposal EXCEPT ![p].expired = TRUE]
    /\ UNCHANGED <<owner, relations, records, preview, analysis>>
    /\ AccessKept

-----------------------------------------------------------------------------
ActiveTasks(c) ==
    {t \in Tasks : task[t].conv = c /\ task[t].status \in {"pending", "running"}}

\* The newest version of a conversation (0: none).
Latest(c) == Max({d.num : d \in {e \in docs : e.conv = c}} \cup {0})

AnalysisStep ==
    /\ UNCHANGED <<owner, relations, case, proposal>>
    /\ AccessKept

Enqueue(c) ==
    /\ up
    /\ Len(task) < setup.tasks
    /\ ActiveTasks(c) = {}
    /\ task' = Append(task, [conv |-> c, cancel |-> FALSE, base |-> Latest(c),
                             status |-> "pending"])
    /\ queue' = Append(queue, Len(task) + 1)
    /\ UNCHANGED <<docs, preview, worker, up, stops>>
    /\ AnalysisStep

\* A running task is cancelled by its worker, later.
Cancel(t) ==
    /\ up
    /\ ~task[t].cancel
    /\ task[t].status \in {"pending", "running"}
    /\ task' = [task EXCEPT ![t].cancel = TRUE,
                            ![t].status = IF @ = "pending" THEN "cancelled" ELSE @]
    /\ UNCHANGED <<docs, preview, queue, worker, up, stops>>
    /\ AnalysisStep

\* _run_task up to the call of the model; a task that is no longer pending is
\* dropped.
TakeTask ==
    /\ up
    /\ worker = 0
    /\ queue # <<>>
    /\ queue' = Tail(queue)
    /\ LET t == Head(queue) IN
          IF task[t].status = "pending"
          THEN worker' = t /\ task' = [task EXCEPT ![t].status = "running"]
          ELSE UNCHANGED <<worker, task>>
    /\ UNCHANGED <<docs, preview, up, stops>>
    /\ AnalysisStep

\* Mutant: a cancellation while the model worked is not seen.
EndedAs(t, outcome) == outcome

\* What becomes of a running task when the model has answered or failed.
Outcome(t, answer) == IF task[t].cancel THEN "cancelled" ELSE answer

\* _complete, _fail and _mark_cancelled
EndTask(answer) ==
    /\ up
    /\ worker # 0
    /\ worker' = 0
    /\ task' = [task EXCEPT ![worker].status = Outcome(worker, answer)]
    /\ docs' = IF task'[worker].status = "completed"
               THEN docs \cup {[conv |-> task[worker].conv, case |-> 0,
                                num |-> Latest(task[worker].conv) + 1,
                                by |-> [kind |-> "task", id |-> worker]]}
               ELSE docs
    /\ UNCHANGED <<preview, queue, up, stops>>
    /\ AnalysisStep

Answer == \E answer \in {"completed", "failed"} : EndTask(answer)

\* The process ends in an orderly way, which returns the running task unless it is
\* to be cancelled, or dies.
Stop(orderly) ==
    /\ up
    /\ stops < setup.stops
    /\ up' = FALSE
    /\ stops' = stops + 1
    /\ queue' = <<>>
    /\ worker' = 0
    /\ task' = IF orderly /\ worker # 0 /\ ~task[worker].cancel
               THEN [task EXCEPT ![worker].status = "pending"] ELSE task
    /\ preview' = [k \in 1..Len(preview) |-> [preview[k] EXCEPT !.open = FALSE]]
    /\ UNCHANGED docs
    /\ AnalysisStep

\* Mutant: tasks to be cancelled are left as they are.
ResumedTask(row) ==
    IF row.status \in {"pending", "running"} /\ ~row.cancel
    THEN [row EXCEPT !.status = "pending"] ELSE row

\* start: what a row becomes.
Resumed(row) ==
    IF row.status \notin {"pending", "running"} THEN row
    ELSE [row EXCEPT !.status = IF row.cancel THEN "cancelled" ELSE "pending"]

Start ==
    /\ ~up
    /\ up' = TRUE
    /\ task' = [t \in Tasks |-> Resumed(task[t])]
    /\ LET waiting == {t \in Tasks : task'[t].status = "pending"} IN
          queue' \in {q \in [1..Cardinality(waiting) -> waiting] :
                         \A i, j \in DOMAIN q : i < j => q[i] < q[j]}
    /\ UNCHANGED <<docs, preview, worker, stops>>
    /\ AnalysisStep

-----------------------------------------------------------------------------
\* What ContextSync does by itself.
Outside == up /\ SyncNext /\ UNCHANGED reqVars

Relating ==
    \E c \in setup.relates :
        \/ ConfirmRequirementCustomer(c) \/ ConfirmSalesAnalysis(c)
        \/ OpenLead(c) \/ ConvertLead(c)

Importing ==
    \/ \E c \in Conversations, u \in Customers, i \in 0..Len(case) : PreviewImport(c, u, i)
    \/ \E k \in 1..Len(preview) : CommitImport(k) \/ ExpirePreview(k)

CaseWork ==
    \E i \in Cases :
        \/ EditCase(i) \/ LinkProject(i)
        \/ \E u \in Customers : TransferCase(i, u)

Proposing ==
    \/ \E g \in Granted, by \in Identities \cup {"tunnel"}, i \in 0..Len(case) :
          Propose(g, by, i)
    \/ \E p \in 1..Len(proposal) :
          \/ ConfirmHere(p) \/ ExpireProposal(p)
          \/ \E by \in Identities \cup {"tunnel"} : ConfirmOutside(p, by)

Analysing ==
    \/ \E c \in Conversations : Enqueue(c)
    \/ \E t \in Tasks : Cancel(t)
    \/ TakeTask
    \/ Answer
    \/ Start
    \/ \E orderly \in BOOLEAN : Stop(orderly)

ReqNext ==
    \/ Outside
    \/ up /\ (Relating \/ Importing \/ CaseWork \/ Proposing)
    \/ Analysing
=============================================================================
