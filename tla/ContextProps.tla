---------------------------- MODULE ContextProps ----------------------------
(***************************************************************************)
(* What ContextAccess, ContextSync, Requirements, RequirementMaterials and *)
(* GlobalAgent must guarantee.                                             *)
(***************************************************************************)
EXTENDS GlobalAgent

TypeOK == AccessTypeOK /\ SyncTypeOK /\ ReqTypeOK /\ MaterialsTypeOK
          /\ AgentTypeOK

\* However grants, keys and the slot replace each other: a thread has at most one
\* active grant, which for a direct thread has the thread's revision.  What was
\* replaced is not left behind: an active tunnel grant is the one in the slot, a
\* keyed grant is active only with its key, and a grant over a group only while its
\* members are in the group (replace_tunnel_binding, create_thread_binding,
\* revoke_thread_binding, change).
OneGrantPerThread ==
    /\ \A g, h \in Granted :
          Active(g) /\ Active(h) /\ grant[g].thread = grant[h].thread => g = h
    /\ \A g \in Granted :
          Active(g) /\ grant[g].thread \in Conversations =>
              grant[g].rev = revision[grant[g].thread]
    /\ \A g \in Granted :
        Active(g) =>
            /\ grant[g].way = "tunnel" => g = slot
            /\ grant[g].way \in {"key", "group"} => key[g].status = "active"
            /\ grant[g].way = "group" => grant[g].scope \subseteq group.members

\* A capability, a key and an OAuth token never read with a second grant, and a
\* key never serves a second identity, whatever was granted meanwhile; a grant
\* made for a key is read with the key, unless the endpoint changed its
\* authentication since (resolve_access, resolve_key).
CredentialsApart ==
    \A a, b \in audits :
        /\ a.by.kind = b.by.kind /\ a.by.id = b.by.id /\ a.by.kind # "slot" =>
              a.grant = b.grant
        /\ a.by.kind = "key" /\ b.by.kind = "key" /\ a.grant = b.grant =>
              a.by.by = b.by.by
        /\ grant[a.grant].way \in {"key", "group"} =>
              a.by.kind = "key" \/ key[a.grant].mode = "tunnel"

\* Who may read what is decided by one grant per thread and one per credential.
GrantsApart == OneGrantPerThread /\ CredentialsApart

\* A grant that is no longer in force never is again: neither a new revision, a
\* new grant, a member that returns to the group nor a thread that returns to its
\* conversation brings it back.
EndedForGood ==
    [][\A g \in Granted :
          ~Valid(g) \/ (Active(g) /\ grant[g].way = "group"
                           /\ ~(grant[g].scope \subseteq group.members)) => ~Valid(g)']_vars

\* Every text of the scope from the first page on was confirmed once, and none is
\* skipped by the watermark, whatever replays, new keys and late messages; the
\* texts no summary covers always fit, so that no read is refused for them; and no
\* read is refused by the unique version of the table either, a kind having one
\* pending batch (text, images, confirm, _reserve).
EveryTextOnce ==
    /\ \A s \in DOMAIN sync :
          LET done == {b \in Batches : batch[b].scope = s /\ batch[b].status = "confirmed"}
              texts == UNION {batch[b].texts : b \in done}
          IN
          /\ \A a, b \in done : a # b => batch[a].texts \cap batch[b].texts = {}
          /\ texts # {} => texts = {m \in Texts(s) : Min(texts) <= m /\ m <= sync[s].mark}
          /\ Cardinality(Unsummarised(s)) <= PageSize
    /\ \A a, b \in Batches :
          /\ a # b
          /\ batch[a].scope = batch[b].scope
          /\ batch[a].kind = batch[b].kind
          => /\ batch[a].base # batch[b].base
             /\ {batch[a].status, batch[b].status} # {"pending"}

\* What a state says it has seen, some reader of its owner was given: a stored
\* image in a confirmed image batch, and the images linked to a confirmed text.
SeenWasDelivered ==
    /\ \A s \in DOMAIN sync, i \in Images :
          sync[s].acked[i] = "stored" =>
              \E b \in Batches : batch[b].scope = s /\ i \in batch[b].read
    /\ \A b \in Batches :
          batch[b].status = "confirmed" /\ batch[b].link # 0 => AllRead(batch[b].link)

BatchesHold == EveryTextOnce /\ SeenWasDelivered

\* However imports, edits, proposals and analyses meet: a case has each version up
\* to its current one once; a preview, a proposal and an analysis write one version
\* at most, an analysis only when it was not cancelled; and the sources of a case
\* are the conversations its imports came from and those its proposals were granted
\* (commit_import, edit_case, confirm, _complete).
CasesHold ==
    /\ \A i \in Cases :
          LET versions == {d \in docs : d.case = i} IN
          /\ {d.num : d \in versions} = 1..case[i].current
          /\ Cardinality(versions) = case[i].current
          /\ case[i].sources =
                {d.conv : d \in {e \in versions : e.conv # "none"}}
                    \cup UNION {grant[proposal[p].grant].scope :
                                   p \in {q \in 1..Len(proposal) : proposal[q].result = i}}
    /\ \A d, e \in docs : d.by = e.by /\ d.by.kind # "edit" => d = e
    /\ \A t \in Tasks :
          /\ (\E d \in docs : d.by = [kind |-> "task", id |-> t]) <=> task[t].status = "completed"
          /\ task[t].cancel => task[t].status # "completed"
    /\ \A c \in Conversations : Cardinality(ActiveTasks(c)) <= 1

\* A picture that is attached can be read, unless an upload ran beside a deletion;
\* and its file goes with the last row, unless two deletions did or the process
\* stopped (add_attachment, delete_attachment).
AttachmentsHold ==
    /\ "upload" \notin mixed /\ Rows # {} => file
    /\ mixed = {} /\ stops = 0 /\ file =>
          \/ Rows # {}
          \/ upload # NoUpload
          \/ \E s \in Spots : removal[s] = "unlink"

RequirementsHold == CasesHold /\ AttachmentsHold

\* A version of a case is written only where the relations are clear, whatever
\* happened since its preview to the grant, the group, the leads and the other cases:
\* an imported conversation is left with the case's customer alone, and so are all
\* sources of a case a proposal goes to, whose grant is in force and covers them
\* (commit_import, _source, confirm).
VersionsInScope ==
    [][\A d \in docs' \ docs :
          LET mine == {c \in Conversations : LinkedIds(c)' = {case'[d.case].customer}} IN
          /\ d.by.kind = "import" => d.conv \in mine
          /\ d.by.kind = "proposal" =>
                /\ Valid(proposal[d.by.id].grant)
                /\ case'[d.case].sources \subseteq mine \cap grant[proposal[d.by.id].grant].scope]_vars

\* A thread has one answer at a time, about the conversation it was bound to when
\* the user asked and still is, until the run has ended; and an answer is complete
\* only with all its steps (submit_message, _graph_prepare_run, update_thread_context,
\* _complete_run_after_trace).
OneAnswerPerThread ==
    /\ \A r, q \in ActiveRuns : run[r].thread = run[q].thread => r = q
    /\ \A r \in ActiveRuns : bound[run[r].thread] = run[r].asked /\ run[r].thread \notin deleted
    /\ \A r \in Runs :
          /\ run[r].conv \in {"none", run[r].asked}
          /\ run[r].status = "completed" => run[r].done = Len(Nodes) /\ run[r].answer

\* What has ended shows nothing that runs: no step, unless the process died within a
\* cancellation, and no call, unless it stopped (_terminalize_inflight_trace,
\* _finish_run_step, shutdown, recover_orphaned_runs).
TraceEnds ==
    \A r \in Runs \ ActiveRuns :
        /\ run[r].step = "running" => run[r].status = "cancelled" /\ stops > 0
        /\ run[r].tool = "running" => run[r].status \in {"cancelled", "interrupted"} /\ stops > 0

\* Whichever threads answer about a conversation: the versions of its summary go
\* forward, one answer writes one version, and every text a version claims to cover
\* was read for it, or the version before covers it, or it was older than a full
\* window (customer_conversation_context, _graph_persist_answer).
SummaryCoversRead ==
    \A c \in Conversations : \A v \in 1..Len(summary[c]) :
        LET past == IF v = 1 THEN 0 ELSE summary[c][v - 1].mark
            this == summary[c][v]
        IN
        /\ past <= this.mark
        /\ \/ {m \in TextsOf(c) : past < m /\ m <= this.mark} \subseteq this.texts
           \/ Cardinality(this.texts) >= Window
        /\ \A w \in 1..(v - 1) : summary[c][w].by # this.by

AnswersHold == OneAnswerPerThread /\ TraceEnds /\ SummaryCoversRead

\* What was asked for ends, in one of its ends: as the user asks a bounded number of
\* times, there is always a time again at which no analysis and no answer waits or
\* runs, also when the process stopped under it (start, _worker, _return_to_pending,
\* _execute_run, recover_orphaned_runs).
WorkEnds ==
    []<>(/\ \A t \in Tasks : task[t].status \in {"completed", "failed", "cancelled"}
         /\ ActiveRuns = {})
=============================================================================
