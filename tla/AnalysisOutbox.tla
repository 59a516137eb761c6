--------------------------- MODULE AnalysisOutbox ---------------------------
(***************************************************************************)
(* What the outbox of customer_analysis_events promises, whatever the      *)
(* runs, leases, timers and restarts around it do: an event is recorded    *)
(* once, events are taken in message order as one batch, no second batch   *)
(* is taken before the first is settled, and a batch settles as a whole:   *)
(* completed, failed or returned.  A failed batch waits for a release.     *)
(***************************************************************************)
EXTENDS Integers

CONSTANT MaxMessages   \* a positive number

VARIABLE event   \* message id -> none, pending, processing, failed, completed

Ids == 1..MaxMessages

With(status) == {m \in Ids : event[m] = status}

Init == event = [m \in Ids |-> "none"]

\* The events of the set change to a status, all at once.
Move(changed, status) ==
    event' = [m \in Ids |-> IF m \in changed THEN status ELSE event[m]]

Record == \E m \in With("none") : Move({m}, "pending")

Take ==
    /\ With("processing") = {}
    /\ \E last \in With("pending") :
          Move({m \in With("pending") : m <= last}, "processing")

Settle ==
    /\ With("processing") # {}
    /\ \E status \in {"completed", "failed", "pending"} :
          Move(With("processing"), status)

Release == With("failed") # {} /\ Move(With("failed"), "pending")

Next == Record \/ Take \/ Settle \/ Release

Spec == Init /\ [][Next]_event
=============================================================================
