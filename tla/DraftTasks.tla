----------------------------- MODULE DraftTasks -----------------------------
(***************************************************************************)
(* What the AI draft queue promises of its tasks, whatever its priorities, *)
(* workers, cancellations and restarts do: the tasks of one conversation   *)
(* are served one at a time and in the order they were asked for, and a    *)
(* task that ended never runs again.                                       *)
(***************************************************************************)
EXTENDS Integers

CONSTANTS MaxTasks, Conversations

VARIABLES
    status,  \* task -> none, pending, running, completed, failed, cancelled
    owner    \* task -> the conversation it was created for

TaskIds == 1..MaxTasks

Open(t) == status[t] \in {"pending", "running"}

\* The earlier tasks of t's conversation that are not over.
Ahead(t) == {u \in TaskIds : u < t /\ owner[u] = owner[t] /\ Open(u)}

Init ==
    /\ status = [t \in TaskIds |-> "none"]
    /\ owner \in [TaskIds -> Conversations]

Create ==
    \E t \in TaskIds, c \in Conversations :
        /\ status[t] = "none"
        /\ \A u \in TaskIds : u > t => status[u] = "none"
        /\ status' = [status EXCEPT ![t] = "pending"]
        /\ owner' = [owner EXCEPT ![t] = c]

Begin ==
    \E t \in TaskIds :
        /\ status[t] = "pending"
        /\ Ahead(t) = {}
        /\ status' = [status EXCEPT ![t] = "running"]
        /\ UNCHANGED owner

Finish ==
    \E t \in TaskIds, end \in {"completed", "failed", "cancelled"} :
        /\ status[t] = "running" \/ (status[t] = "pending" /\ end = "cancelled")
        /\ status' = [status EXCEPT ![t] = end]
        /\ UNCHANGED owner

\* The process stopped or came back: running tasks return to the queue, or end
\* when their cancellation had been asked for.
Interrupt ==
    /\ status' \in [TaskIds -> {"none", "pending", "running", "completed",
                                "failed", "cancelled"}]
    /\ \A t \in TaskIds :
          \/ status'[t] = status[t]
          \/ /\ status[t] = "running"
             /\ status'[t] \in {"pending", "cancelled"}
    /\ UNCHANGED owner

Next == Create \/ Begin \/ Finish \/ Interrupt

Spec == Init /\ [][Next]_<<status, owner>>
=============================================================================
