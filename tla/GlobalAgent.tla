---------------------------- MODULE GlobalAgent ----------------------------
(***************************************************************************)
(* The global agent (backend/app/agents/global_agent/service.py with the   *)
(* text context of tools.py): threads bound to a conversation, one answer  *)
(* at a time in a thread.                                                  *)
(*                                                                         *)
(* An answer is a run of a fixed graph of nodes, each traced by a step.    *)
(* Between two nodes, while a worker thread reads the conversation and     *)
(* while the model answers, everything else goes on: the user cancels the  *)
(* run, messages arrive, another thread answers about the same             *)
(* conversation.  The text context is the last summary and the texts after *)
(* it; the answer brings the next version of the summary.                  *)
(***************************************************************************)
EXTENDS RequirementMaterials

CONSTANTS
    MaxAnswers,  \* bound: runs
    Window,      \* texts of a full reading (200)
    Recheck      \* new texts that ask for a full reading (50)

ASSUME AgentAssumption ==
    /\ MaxAnswers \in Nat
    /\ Window \in Nat \ {0}
    /\ Recheck \in Nat \ {0}
    /\ \A s \in Setups : s.answers <= MaxAnswers

VARIABLES
    run,      \* rows of global_agent_runs, with their steps and tool call
    reading,  \* run -> what its worker thread has read
    turn,     \* run -> the asyncio task: "none", "next" between two nodes, "waits"
    summary,  \* conversation -> versions of its summary
    deleted   \* threads that were deleted

agentVars == <<run, reading, turn, summary, deleted>>
vars == <<caseVars, agentVars>>

-----------------------------------------------------------------------------
\* GLOBAL_AGENT_GRAPH_NODE_ORDER, without the nodes between that only compute.
Nodes == <<"prepare_run", "execute_tools", "generate_answer", "persist_answer",
           "publish_completed">>

Runs == 1..Len(run)

Ends == {"completed", "failed", "cancelled", "interrupted"}

ActiveRuns == {r \in Runs : run[r].status \in {"pending", "running"}}

\* Mutant: a run that has not begun does not count.
NotRunning(t) == \A r \in Runs : run[r].status = "running" => run[r].thread # t

\* No run of the thread is pending or running.
Idle(t) == \A r \in ActiveRuns : run[r].thread # t

NewRun(t, full) ==
    [thread |-> t, asked |-> bound[t],   \* asked: history, what was bound then
     full   |-> full,                    \* recheck_full_context
     conv   |-> "none",                  \* the conversation prepare_run found
     status |-> "pending",
     done   |-> 0,                       \* steps completed
     step   |-> "pending",               \* the step after them
     tool   |-> "none",                  \* the call that reads the conversation
     proposes |-> FALSE,                 \* customer_create_proposal of the answer
     answer |-> FALSE]                   \* assistant_message_id

NoReading == [pc |-> "none", base |-> 0, mark |-> 0, top |-> 0, texts |-> {}]

AgentTypeOK ==
    /\ \A r \in Runs :
          run[r] \in [thread : setup.threads \cap AgentThreads, asked : Conversations,
                      full : BOOLEAN, conv : Conversations \cup {"none"},
                      status : {"pending", "running"} \cup Ends, done : 0..Len(Nodes),
                      step : {"pending", "running"} \cup Ends,
                      tool : {"none", "running"} \cup Ends, proposes : BOOLEAN,
                      answer : BOOLEAN]
    /\ Len(run) <= setup.answers
    /\ reading \in [Runs -> [pc : {"none", "begun", "topped", "done"}, base : Nat,
                             mark : 0..lastMsg, top : 0..lastMsg, texts : SUBSET (1..lastMsg)]]
    /\ turn \in [Runs -> {"none", "next", "waits"}]
    /\ \A c \in Conversations : \A v \in 1..Len(summary[c]) :
          summary[c][v] \in [by : Runs, mark : 1..lastMsg, texts : SUBSET (1..lastMsg)]
    /\ deleted \subseteq AgentThreads

Init ==
    /\ CaseInit
    /\ run = <<>>
    /\ reading = <<>>
    /\ turn = <<>>
    /\ summary = [c \in Conversations |-> <<>>]
    /\ deleted = {}

-----------------------------------------------------------------------------
\* update_thread_context, update_thread_profile and delete_thread, which move the
\* revision of an idle thread.
UpdateThread(t, c) ==
    /\ up
    /\ setup.moves
    /\ t \notin deleted
    /\ Idle(t)
    /\ Rescope(t, c)
    /\ UNCHANGED <<content, horizon, progress, reqVars, materials, agentVars>>

DeleteThread(t) ==
    /\ up
    /\ setup.moves
    /\ t \in setup.threads \ deleted
    /\ Idle(t)
    /\ Bump(t)
    /\ deleted' = deleted \cup {t}
    /\ UNCHANGED <<bound, rights, group, owner, cutoff, tokenGrant, mode, audits, setup,
                   content, horizon, progress, reqVars, materials, run, reading, turn, summary>>

SubmitMessage(t, full) ==
    /\ up
    /\ Len(run) < setup.answers
    /\ t \in setup.threads \ deleted
    /\ Idle(t)
    /\ run' = Append(run, NewRun(t, full))
    /\ reading' = Append(reading, NoReading)
    /\ turn' = Append(turn, "next")
    /\ UNCHANGED <<caseVars, summary, deleted>>

-----------------------------------------------------------------------------
Node(r) == Nodes[run[r].done + 1]

\* _finish_run_step of a step that ran, and the next one is there.
Passed(row) == [row EXCEPT !.done = @ + 1, !.step = "pending"]

\* A node raised: its step failed, then the run (_traced_graph_node, _fail_run).
Failed(row) == [row EXCEPT !.step = "failed", !.status = "failed"]

Becomes(r, row, pc) ==
    /\ run' = [run EXCEPT ![r] = row]
    /\ turn' = [turn EXCEPT ![r] = pc]

\* _start_run_step begins a node while the run is active.
AtNode(r, node) ==
    /\ up
    /\ turn[r] = "next"
    /\ r \in ActiveRuns
    /\ run[r].done < Len(Nodes)
    /\ Node(r) = node

PrepareRun(r) ==
    /\ AtNode(r, "prepare_run")
    /\ Becomes(r, [Passed(run[r]) EXCEPT !.status = "running", !.conv = bound[run[r].thread]],
               "next")
    /\ UNCHANGED <<caseVars, reading, summary, deleted>>

ExecuteTools(r) ==
    /\ AtNode(r, "execute_tools")
    /\ Becomes(r, [run[r] EXCEPT !.step = "running", !.tool = "running"], "waits")
    /\ reading' = [reading EXCEPT ![r].pc = "begun"]
    /\ UNCHANGED <<caseVars, summary, deleted>>

\* Texts of a conversation.
TextsOf(c) == {m \in 1..lastMsg : SourceOf[m] = c}

Newest(S) == Max(S \cup {0})

\* customer_conversation_context: the last summary and the newest text first ...
ReadTop(r) ==
    LET past == summary[run[r].conv] IN
    /\ up
    /\ reading[r].pc = "begun"
    /\ reading' = [reading EXCEPT ![r] =
          [pc |-> "topped", base |-> Len(past), top |-> Newest(TextsOf(run[r].conv)),
           mark |-> IF past = <<>> THEN 0 ELSE past[Len(past)].mark, texts |-> {}]]
    /\ UNCHANGED <<caseVars, run, turn, summary, deleted>>

\* ... then the texts: the last ones, or those after the summary.
ContextTexts(r) ==
    LET texts == TextsOf(run[r].conv)
        new == {m \in texts : m > reading[r].mark}
    IN
    IF reading[r].base = 0 \/ run[r].full \/ Cardinality(new) >= Recheck
    THEN Highest(Window, texts) ELSE new

ReadTexts(r) ==
    /\ up
    /\ reading[r].pc = "topped"
    /\ reading' = [reading EXCEPT ![r].pc = "done", ![r].texts = ContextTexts(r)]
    /\ UNCHANGED <<caseVars, run, turn, summary, deleted>>

\* _finish_tool writes into a call that still runs; a failed reading fails the run.
ToolReturns(r) ==
    /\ up
    /\ turn[r] = "waits"
    /\ run[r].step = "running"
    /\ Node(r) = "execute_tools"
    /\ \/ /\ reading[r].pc = "done"
          /\ Becomes(r, [Passed(run[r]) EXCEPT !.tool = "completed"], "next")
       \/ /\ reading[r].pc # "none"
          /\ Becomes(r, [Failed(run[r]) EXCEPT !.tool = "failed"], "none")
    /\ UNCHANGED <<caseVars, reading, summary, deleted>>

GenerateAnswer(r) ==
    /\ AtNode(r, "generate_answer")
    /\ Becomes(r, [run[r] EXCEPT !.step = "running"], "waits")
    /\ UNCHANGED <<caseVars, reading, summary, deleted>>

\* The model answers, and its evidence is accepted; or it fails, takes too long or
\* is refused.
ModelReturns(r) ==
    /\ up
    /\ turn[r] = "waits"
    /\ run[r].step = "running"
    /\ Node(r) = "generate_answer"
    /\ \/ \E proposes \in BOOLEAN :
             Becomes(r, [Passed(run[r]) EXCEPT !.proposes = proposes], "next")
       \/ Becomes(r, Failed(run[r]), "none")
    /\ UNCHANGED <<caseVars, reading, summary, deleted>>

\* Mutant: the version the context was read from is not compared.
AnyVersion(r) == TRUE

\* No other answer has summarised the conversation meanwhile.
SameVersion(r) == Len(summary[run[r].conv]) = reading[r].base

\* The answer has a new summary, unless everything was summarised or there is none.
Summarises(r) == reading[r].top # 0 /\ (reading[r].base = 0 \/ reading[r].texts # {} \/ run[r].full)

\* Mutant: the newest text when the answer is stored.
NewestNow(r) == Newest(TextsOf(run[r].conv))

\* summarized_through_message_id
Through(r) == reading[r].top

PersistAnswer(r) ==
    LET c == run[r].conv IN
    /\ AtNode(r, "persist_answer")
    /\ IF Summarises(r) /\ ~SameVersion(r)
       THEN Becomes(r, Failed(run[r]), "none") /\ UNCHANGED summary
       ELSE /\ Becomes(r, [Passed(run[r]) EXCEPT !.answer = TRUE], "next")
            /\ summary' = IF Summarises(r)
                          THEN [summary EXCEPT ![c] =
                                   Append(@, [by |-> r, mark |-> Through(r),
                                              texts |-> reading[r].texts])]
                          ELSE summary
    /\ UNCHANGED <<caseVars, reading, deleted>>

\* _complete_run_after_trace
PublishCompleted(r) ==
    /\ AtNode(r, "publish_completed")
    /\ Becomes(r, [Passed(run[r]) EXCEPT !.status = "completed"], "none")
    /\ UNCHANGED <<caseVars, reading, summary, deleted>>

-----------------------------------------------------------------------------
Cancelled(row) == [row EXCEPT !.status = "cancelled"]

\* _terminalize_inflight_trace: the step that runs, or the next one, and the call.
Terminal(row) ==
    [row EXCEPT !.step = IF row.done < Len(Nodes) THEN "cancelled" ELSE @,
                !.tool = IF @ = "running" THEN "cancelled" ELSE @]

\* cancel_run; its task ends at the next await.
CancelRun(r) ==
    /\ up
    /\ r \in ActiveRuns
    /\ Becomes(r, Terminal(Cancelled(run[r])), "none")
    /\ reading' = [reading EXCEPT ![r] = NoReading]
    /\ UNCHANGED <<caseVars, summary, deleted>>

\* confirm_customer_create: the thread is still bound to what the proposal is for.
ConfirmCustomerCreate(r) ==
    /\ up
    /\ run[r].answer
    /\ run[r].proposes
    /\ run[r].thread \notin deleted
    /\ bound[run[r].thread] = run[r].conv
    /\ CreateCustomer(run[r].conv)
    /\ UNCHANGED <<materials, agentVars>>

\* shutdown ends the tasks, which leave the calls of their worker threads as they
\* are; a process that dies leaves everything, also between the two commits of a
\* cancellation.
Halted(orderly) ==
    /\ turn' = [r \in Runs |-> "none"]
    /\ reading' = [r \in Runs |-> NoReading]
    /\ run' = [r \in Runs |->
                  IF orderly /\ r \in ActiveRuns
                  THEN [run[r] EXCEPT !.status = "interrupted",
                                      !.step = IF @ = "running" THEN "interrupted" ELSE @]
                  ELSE run[r]]

HaltedInCancel ==
    \E r \in ActiveRuns :
        /\ turn' = [q \in Runs |-> "none"]
        /\ reading' = [q \in Runs |-> NoReading]
        /\ run' = [run EXCEPT ![r] = Cancelled(@)]

\* Mutant: only runs that had begun are ended.
RecoveredBegun(row) ==
    IF row.status # "running" THEN row
    ELSE [row EXCEPT !.status = "interrupted",
                     !.step = IF @ = "running" THEN "interrupted" ELSE @,
                     !.tool = IF @ = "running" THEN "interrupted" ELSE @]

\* recover_orphaned_runs
Recovered(row) ==
    IF row.status \notin {"pending", "running"} THEN row
    ELSE [row EXCEPT !.status = "interrupted",
                     !.step = IF @ = "running" THEN "interrupted" ELSE @,
                     !.tool = IF @ = "running" THEN "interrupted" ELSE @]

-----------------------------------------------------------------------------
\* One step of the task of a run, or of its worker thread.
RunStep(r) ==
    \/ PrepareRun(r) \/ ExecuteTools(r) \/ ReadTop(r) \/ ReadTexts(r) \/ ToolReturns(r)
    \/ GenerateAnswer(r) \/ ModelReturns(r) \/ PersistAnswer(r) \/ PublishCompleted(r)

\* Everything else; a deleted thread gets no grant.
Elsewhere ==
    /\ CaseNext
    /\ \A g \in 1..lastGrant' : g \notin Granted => grant'[g].thread \notin deleted
    /\ UNCHANGED <<summary, deleted>>
    /\ \/ up /\ ~up' /\ \/ Stop(TRUE) /\ Halted(TRUE)
                        \/ Stop(FALSE) /\ (Halted(FALSE) \/ HaltedInCancel)
       \/ ~up /\ up' /\ run' = [r \in Runs |-> Recovered(run[r])] /\ UNCHANGED <<reading, turn>>
       \/ up' = up /\ UNCHANGED <<run, reading, turn>>

Asking ==
    \/ \E t \in AgentThreads, c \in Conversations : UpdateThread(t, c)
    \/ \E t \in AgentThreads :
          DeleteThread(t) \/ (\E full \in BOOLEAN : SubmitMessage(t, full))
    \/ \E r \in Runs : CancelRun(r) \/ ConfirmCustomerCreate(r)

Next == Elsewhere \/ Asking \/ (\E r \in Runs : RunStep(r))

\* The process is started again; its worker, the tasks of the runs and their threads
\* go on, and a call of the model ends within its timeout.
Fairness ==
    /\ WF_vars(Start /\ Elsewhere)
    /\ WF_vars(TakeTask /\ Elsewhere)
    /\ WF_vars(Answer /\ Elsewhere)
    /\ \A r \in 1..MaxAnswers : WF_vars(r \in Runs /\ RunStep(r))

Spec == Init /\ [][Next]_vars /\ Fairness
=============================================================================
