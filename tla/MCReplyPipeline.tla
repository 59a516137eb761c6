-------------------------- MODULE MCReplyPipeline --------------------------
(***************************************************************************)
(* Values for the constants of ReplyPipeline.                              *)
(***************************************************************************)
EXTENDS ReplyPipelineProps, TLC

CONSTANTS c1, c2, w1, w2

ByConversation == <<c1, c2, c1>>

\* Three tasks and a restart; the unattended replies of two workers; and one task
\* with everything the user may do.
Drafting == [feature |-> FALSE, user |-> {"cancel"}, messages |-> 2, tasks |-> 3,
             restarts |-> 1]
Sending == [feature |-> TRUE, user |-> {}, messages |-> 3, tasks |-> 2,
            restarts |-> 0]
Deciding == [feature |-> TRUE, user |-> {"send", "cancel", "import"},
             messages |-> 1, tasks |-> 1, restarts |-> 1]
AllSetups == {Drafting, Sending, Deciding}
=============================================================================
