------------------------------ MODULE MCTraffic ------------------------------
(***************************************************************************)
(* Values for the constants of ProductTraffic.                             *)
(***************************************************************************)
EXTENDS TrafficProps, TLC

Buy(items, mode, cost) == [items |-> items, mode |-> mode, cost |-> cost]

SomePurchases == <<Buy({1, 2}, "auto", 2), Buy({2}, "manual", 1), Buy({1}, "auto", 1)>>

AfterHours == <<1, 2>>
Delays == <<0, 0>>

Base == [user |-> {}, answers |-> {"owned"}, counts |-> 0, hours |-> 2, days |-> 1,
         purchases |-> {1}, costs |-> {}, clients |-> {1}, retries |-> 0, restarts |-> 0]

\* Two purchases recorded at the same time, and again after a crash; two whose windows
\* meet; two whose checkpoints are due together, one of them recorded by hand.
Buying == [Base EXCEPT !.user = {"complete", "monitor"}, !.purchases = {1, 2},
                       !.answers = {"owned", "excluded", "error", "verification"},
                       !.hours = 0, !.costs = {1}, !.clients = {1, 2}, !.restarts = 1]
Meeting == [Base EXCEPT !.purchases = {1, 3}]
Queueing == [Base EXCEPT !.purchases = {2, 3}]

\* One purchase: counters recorded by hand; a reading repeated, with changes of the
\* mode and a crash; with a lost connection; broken by a verification; in a race with
\* the user's own record.
Counting == [Base EXCEPT !.user = {"manual"}, !.counts = 1]
Repeating == [Base EXCEPT !.user = {"retry", "mode"}, !.purchases = {3},
                          !.answers = {"owned", "error"}, !.retries = 1, !.restarts = 1]
Connecting == [Base EXCEPT !.user = {"retry", "connect"}, !.purchases = {3},
                           !.answers = {"owned", "verification"}, !.retries = 1]
Breaking == [Base EXCEPT !.answers = {"owned", "error", "verification"}, !.restarts = 1]
Skipping == [Base EXCEPT !.user = {"retry"}, !.answers = {"owned", "verification"},
                         !.hours = 1, !.retries = 1]
Racing == [Base EXCEPT !.user = {"retry", "manual"}, !.purchases = {3},
                       !.answers = {"owned", "error"}, !.hours = 3, !.retries = 1]

\* Listings read every day and on request while they are enabled and disabled, without
\* and with a purchase.
Managing == [Base EXCEPT !.user = {"monitor", "collect", "daily"}, !.purchases = {},
                         !.days = 2, !.hours = 0, !.restarts = 1,
                         !.answers = {"owned", "excluded", "pending", "error", "login",
                                      "verification"}]
Losing == [Base EXCEPT !.user = {"monitor", "collect"}, !.purchases = {3},
                       !.answers = {"owned", "excluded"}, !.hours = 1]

AllSetups == {Buying, Meeting, Queueing, Counting, Repeating, Connecting, Breaking, Skipping,
              Racing, Managing, Losing}
=============================================================================
