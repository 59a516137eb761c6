---------------------------- MODULE DeliveryProofs ----------------------------
(***************************************************************************)
(* Proofs about ProjectLedger, ProjectDelivery and CodexRuns, for every    *)
(* value of their constants.                                               *)
(***************************************************************************)
EXTENDS DeliveryProps, FiniteSums, SequenceTheorems

-----------------------------------------------------------------------------
(* Invariants of the delivery and of the runs.                             *)

TaskRow ==
    [row : {"none", "active", "retired"}, est : Nat, hours : Nat, listed : BOOLEAN,
     staged : BOOLEAN, done : BOOLEAN, codex : {"todo", "in_progress", "implemented"}]

PointRow ==
    [status : {"none", "pending", "implemented", "test_passed", "failed", "verified", "waived"},
     active : BOOLEAN, counts : BOOLEAN]

PlanRow ==
    [case : Nat, status : {"draft", "confirmed", "superseded"}, at : Nat, version : Nat,
     keys : SUBSET Keys, est : Nat]

PreviewRow ==
    [open : BOOLEAN, version : Nat,
     class : [Keys -> {"none", "new", "protected", "unchanged", "update_allowed"}]]

RunRow ==
    [task : Keys \cup {"none"},
     status : Locked \cup {"none", "cancelled", "failed", "completed"},
     thread : BOOLEAN, turn : BOOLEAN, open : BOOLEAN]

Decisions == {"approved", "rejected", "cancelled"}

ApprovalRow ==
    [run : RunIds, id : RequestIds, status : Decisions \cup {"pending", "expired"},
     stale : BOOLEAN, to : RunIds \cup {0}, sent : Decisions \cup {"none"},
     recording : SUBSET Decisions]

EventTypes == Reports \cup {"approval"}

\* A request for an approval has an id of the app server.
Notice ==
    {e \in [run : RunIds \cup {0}, type : EventTypes, id : RequestIds \cup {0}] :
        e.type = "approval" => e.id \in RequestIds}

RunTypes ==
    /\ proc \in {"up", "down", "failed"}
    /\ runs \in [RunIds -> RunRow]
    /\ launch \in [RunIds -> {"off", "creating", "turning", "begun"}]
    /\ acting \in [RunIds -> SUBSET {"pause", "cancel", "resume", "resumed"}]
    /\ approvals \in Seq(ApprovalRow)
    /\ events \in Seq(Notice)
    /\ working \subseteq Created
    /\ methods \subseteq RequestIds
    /\ asked \in [RequestIds -> RunIds \cup {0}]

\* Only a run that was created is launched, acted on, working or reported on.
RunRefs ==
    /\ \A r \in RunIds :
          IF runs[r].status = "none" THEN launch[r] = "off" /\ acting[r] = {}
          ELSE runs[r].task \in Keys
    /\ \A i \in DOMAIN events : events[i].run \in Created \cup {0}

\* While the app server that asked is there, its request id stands for the run that
\* asked; a request that is being decided is out of the adapter, and no second one
\* with its id can come.
Answers(x, up, given, held) ==
    \/ x.stale
    \/ /\ \A d \in x.recording \cup ({x.status} \cap Decisions) : x.sent = d /\ x.to = x.run
       /\ up /\ x.status = "pending" =>
             given[x.id] = x.run /\ (x.recording # {} => x.id \notin held)

Answering == \A a \in DOMAIN approvals : Answers(approvals[a], proc = "up", asked, methods)

WaitsFor ==
    proc = "up" =>
        \A r \in RunIds :
            runs[r].status = "waiting_approval" =>
                \E a \in DOMAIN approvals :
                    approvals[a].run = r /\ approvals[a].status = "pending"

RunsInv ==
    /\ RunTypes
    /\ RunRefs
    /\ \A r \in RunIds : runs[r].open => runs[r].status = "running"
    /\ Answering
    /\ WaitsFor

\* A draft has no date, and the dates are the ranks of the confirmations.
DatesInv ==
    /\ IsFiniteSet(Dated)
    /\ \A p \in DOMAIN plans :
          /\ plans[p].status = "draft" => plans[p].at = 0
          /\ plans[p].at <= Cardinality(Dated)

WorkTypes ==
    /\ setup \in Setups
    /\ version \in Nat \ {0}
    /\ plans \in Seq(PlanRow)
    /\ \A p \in DOMAIN plans : plans[p].version \in 1..version /\ plans[p].case \in 1..setup.cases
    /\ DatesInv
    /\ tasks \in [Keys -> TaskRow]
    /\ points \in [Keys -> PointRow]
    /\ preview \in PreviewRow
    /\ preview.open => preview.version \in 1..version
    /\ DOMAIN weights \subseteq Keys
    /\ testing \subseteq Keys
    /\ current \subseteq Browsers \cup {Draft}

Blank == \A k \in Keys : tasks[k].row = "none" => tasks[k] = NoTask

\* Who has seen the latest revision with the preview knows which tasks are new.
NewIsNew ==
    preview.open /\ Draft \in current =>
        \A k \in Keys : preview.class[k] = "new" => tasks[k].row = "none"

RunsKnow == \A r \in RunIds : runs[r].status # "none" => tasks[runs[r].task].row # "none"

WorkInv == WorkTypes /\ ScopeIsPlan /\ Blank /\ NewIsNew
-----------------------------------------------------------------------------
(* Steps that leave the plans alone.                                       *)

\* A step that changes no plan and neither brings a task into the project nor takes
\* one out, and leaves what a person decided.
GentleTasks ==
    /\ tasks' \in [Keys -> TaskRow]
    /\ \A k \in Keys :
          /\ tasks'[k].row = tasks[k].row
          /\ tasks'[k].staged = tasks[k].staged
          /\ tasks'[k].listed => tasks[k].listed
          /\ tasks[k].listed /\ tasks[k].row = "active" => tasks'[k].listed
          /\ tasks[k].row = "none" => tasks'[k] = tasks[k]

GentlePoints ==
    /\ points' \in [Keys -> PointRow]
    /\ \A k \in Keys :
          /\ points'[k].active = points[k].active
          /\ points'[k].counts = points[k].counts
          /\ points'[k].status \in Human <=> points[k].status \in Human
          /\ points[k].status \in Human => points'[k].status = points[k].status

GentleRest ==
    /\ setup' = setup /\ plans' = plans /\ progress' = progress /\ weights' = weights
    /\ version' \in {version, version + 1}
    /\ \/ preview' = preview
       \/ preview' = NoPreview /\ tasks' = tasks
    /\ testing' \subseteq Keys
    /\ current' \subseteq Browsers \cup {Draft}
    /\ Draft \in current' => Draft \in current

Gentle == GentleTasks /\ GentlePoints /\ GentleRest

LEMMA NoPreviewIsOne == NoPreview \in PreviewRow /\ ~NoPreview.open
BY DEF NoPreview, PreviewRow

LEMMA GentleTypes ==
    ASSUME WorkTypes, Gentle
    PROVE  WorkTypes'
<1>1. version' \in Nat \ {0} /\ version' >= version /\ version \in Nat
  BY DEF WorkTypes, Gentle, GentleRest
<1>2. /\ \A p \in DOMAIN plans' :
            plans'[p].version \in 1..version' /\ plans'[p].case \in 1..setup'.cases
      /\ DatesInv'
  <2>1. plans' = plans /\ setup' = setup
    BY DEF Gentle, GentleRest
  <2>2. DatesInv'
    BY <2>1 DEF WorkTypes, DatesInv, Dated
  <2> QED
    BY <1>1, <2>1, <2>2 DEF WorkTypes
<1>3. preview' \in PreviewRow /\ (preview'.open => preview'.version \in 1..version')
  <2>1. CASE preview' = preview
    BY <1>1, <2>1 DEF WorkTypes
  <2>2. CASE preview' = NoPreview
    BY <2>2, NoPreviewIsOne
  <2> QED
    BY <2>1, <2>2 DEF Gentle, GentleRest
<1>4. /\ setup' \in Setups /\ plans' \in Seq(PlanRow) /\ tasks' \in [Keys -> TaskRow]
      /\ points' \in [Keys -> PointRow] /\ DOMAIN weights' \subseteq Keys
      /\ testing' \subseteq Keys /\ current' \subseteq Browsers \cup {Draft}
  BY DEF WorkTypes, Gentle, GentleRest, GentleTasks, GentlePoints
<1> QED
  BY <1>1, <1>2, <1>3, <1>4 DEF WorkTypes

LEMMA GentleScope ==
    ASSUME WorkInv, Gentle
    PROVE  ScopeIsPlan'
<1> USE DEF Gentle
<1>1. plans' = plans /\ weights' = weights /\ progress' = progress
  BY DEF GentleRest
<1>2. Active' = Active
  BY DEF GentleTasks, Active
<1>3. {k \in Active' : tasks'[k].staged} = {k \in Active : tasks[k].staged}
  BY <1>2 DEF GentleTasks, Active
<1>4. \A k \in Keys :
          /\ k \in Active' => tasks'[k].listed
          /\ points'[k].active => k \in Active'
          /\ tasks'[k].staged /\ tasks'[k].listed => k \in Active'
  BY <1>2 DEF WorkInv, ScopeIsPlan, GentleTasks, GentlePoints, Active
<1>5. \A k \in Keys : Verified(points', k) = Verified(points, k)
  BY DEF GentlePoints, Verified, Human
<1>6. {k \in DOMAIN weights : Verified(points', k)} = {k \in DOMAIN weights : Verified(points, k)}
  BY <1>5 DEF WorkInv, WorkTypes
<1>7. progress' = Percent(weights', points')
  BY <1>1, <1>6 DEF Percent, WorkInv, ScopeIsPlan
<1>8. /\ \A p, q \in Confirmed' : plans'[p].case = plans'[q].case => p = q
      /\ \A p \in Confirmed' :
            InForce(p)' => plans'[p].keys = {k \in Active' : tasks'[k].staged}
  <2>1. Confirmed' = Confirmed /\ \A p : InForce(p)' <=> InForce(p)
    BY <1>1 DEF Confirmed, InForce
  <2> QED
    BY <1>1, <1>3, <2>1 DEF WorkInv, ScopeIsPlan
<1> QED
  BY <1>4, <1>7, <1>8 DEF ScopeIsPlan

LEMMA GentleKeeps ==
    ASSUME WorkInv, Gentle
    PROVE  WorkInv'
<1>1. Blank'
  BY DEF Blank, WorkInv, Gentle, GentleTasks
<1>2. NewIsNew'
  <2>1. CASE preview' = preview
    BY <2>1 DEF WorkInv, NewIsNew, Gentle, GentleRest, GentleTasks
  <2>2. CASE preview' = NoPreview
    BY <2>2, NoPreviewIsOne DEF NewIsNew
  <2> QED
    BY <2>1, <2>2 DEF Gentle, GentleRest
<1>3. WorkTypes' /\ ScopeIsPlan'
  BY GentleTypes, GentleScope DEF WorkInv
<1> QED
  BY <1>1, <1>2, <1>3 DEF WorkInv

\* What a person decided stands after a step.
Stands ==
    \A k \in Keys :
        /\ points[k].status \in Human /\ points'[k].status # points[k].status =>
              \E b \in Browsers, status \in {"pending", "failed"} \cup Human, counts \in BOOLEAN :
                  Decide(b, k, status, counts)
        /\ Protected(k) /\ tasks'[k].est # tasks[k].est => ~preview.open \/ preview'.open

LEMMA GentleStands ==
    ASSUME WorkInv, Gentle
    PROVE  Stands
BY DEF Stands, Gentle, GentleRest, GentlePoints, GentleTasks
LEMMA SetupFacts ==
    ASSUME setup \in Setups
    PROVE  /\ setup.tabs \subseteq Browsers
           /\ setup.planned \subseteq Keys
           /\ setup.estimates \subseteq Nat
           /\ setup.cases \in Nat \ {0}
           /\ Draft \notin Browsers
BY DeliveryAssumption

\* One task that has a row takes another one.
LEMMA OneTask ==
    ASSUME tasks \in [Keys -> TaskRow], NEW k \in Keys, tasks[k].row # "none", NEW row \in TaskRow,
           tasks' = [tasks EXCEPT ![k] = row], row.row = tasks[k].row,
           row.staged = tasks[k].staged, row.listed => tasks[k].listed,
           tasks[k].listed /\ tasks[k].row = "active" => row.listed
    PROVE  GentleTasks
<1>1. tasks' \in [Keys -> TaskRow] /\ tasks'[k] = row /\ \A j \in Keys \ {k} : tasks'[j] = tasks[j]
  OBVIOUS
<1>2. \A j \in Keys :
          /\ tasks'[j].row = tasks[j].row
          /\ tasks'[j].staged = tasks[j].staged
          /\ tasks'[j].listed => tasks[j].listed
          /\ tasks[j].listed /\ tasks[j].row = "active" => tasks'[j].listed
          /\ tasks[j].row = "none" => tasks'[j] = tasks[j]
  BY <1>1
<1> QED
  BY <1>1, <1>2 DEF GentleTasks

LEMMA OnePoint ==
    ASSUME points \in [Keys -> PointRow], NEW k \in Keys, NEW row \in PointRow,
           points' = [points EXCEPT ![k] = row], row.active = points[k].active,
           row.counts = points[k].counts,
           points[k].status \in Human => row = points[k],
           points[k].status \notin Human => row.status \notin Human
    PROVE  GentlePoints
<1>1. points' \in [Keys -> PointRow] /\ points'[k] = row /\ \A j \in Keys \ {k} : points'[j] = points[j]
  OBVIOUS
<1> QED
  BY <1>1 DEF GentlePoints

LEMMA SameTasks ==
    ASSUME tasks \in [Keys -> TaskRow], UNCHANGED tasks
    PROVE  GentleTasks
BY DEF GentleTasks

LEMMA SamePoints ==
    ASSUME points \in [Keys -> PointRow], UNCHANGED points
    PROVE  GentlePoints
BY DEF GentlePoints

\* What is true of the rest when the plans, the preview and the progress stay.
LEMMA SameRest ==
    ASSUME WorkTypes, NEW A \in SUBSET Browsers, current' = A \/ current' = current \cup A,
           UNCHANGED deliveryRest
    PROVE  GentleRest
BY SetupFacts DEF GentleRest, WorkTypes, deliveryRest

\* The rows of a task and of a point, with one field changed.
LEMMA TaskRows ==
    ASSUME NEW row \in TaskRow
    PROVE  /\ \A e \in Nat : [row EXCEPT !.est = e] \in TaskRow
           /\ \A h \in Nat : [row EXCEPT !.hours = h] \in TaskRow
           /\ \A c \in {"todo", "in_progress", "implemented"} : [row EXCEPT !.codex = c] \in TaskRow
           /\ [row EXCEPT !.listed = FALSE] \in TaskRow
           /\ \A e \in Nat, d \in BOOLEAN : [row EXCEPT !.est = e, !.done = d] \in TaskRow
           /\ row.hours \in Nat /\ row.est \in Nat
BY DEF TaskRow

LEMMA PointRows ==
    ASSUME NEW row \in PointRow
    PROVE  \A s \in {"none", "pending", "implemented", "test_passed", "failed"} :
               [row EXCEPT !.status = s] \in PointRow
BY DEF PointRow
LEMMA LedgerGentle ==
    ASSUME WorkInv, NEW b \in setup.tabs, Reload(b) \/ Money(b), UNCHANGED deliveryVars
    PROVE  Gentle
<1>1. b \in Browsers
  BY SetupFacts DEF WorkInv, WorkTypes
<1>2. UNCHANGED <<version, plans, tasks, points, preview, progress, weights, testing>>
  BY DEF deliveryVars
<1>3. setup' = setup /\ (current' = {b} \/ current' = current \cup {b})
  <2>1. CASE Reload(b)
    BY <2>1 DEF Reload
  <2>2. CASE Money(b)
    BY <2>2 DEF Money, ConfirmNode, ConfirmUnplanned, CreateChangeOrder, RecordIssue, QuickAccount,
                Saved
  <2> QED
    BY <2>1, <2>2
<1>4. GentleRest
  BY <1>1, <1>2, <1>3, SetupFacts DEF GentleRest, WorkInv, WorkTypes
<1> QED
  BY <1>2, <1>4, SameTasks, SamePoints DEF Gentle, WorkInv, WorkTypes

LEMMA ImportGentle ==
    ASSUME WorkInv, NEW b \in Browsers, Import(b)
    PROVE  Gentle
<1>1. GentleRest
  BY SetupFacts DEF Import, Saved, GentleRest, WorkInv, WorkTypes
<1> QED
  BY <1>1, SameTasks, SamePoints DEF Gentle, WorkInv, WorkTypes, Import

LEMMA EditGentle ==
    ASSUME WorkInv, NEW b \in Browsers, NEW k \in Keys, NEW est \in setup.estimates,
           NEW done \in BOOLEAN, EditTask(b, k, est, done)
    PROVE  Gentle
<1>1. WorkTypes /\ tasks \in [Keys -> TaskRow] /\ points \in [Keys -> PointRow] /\ est \in Nat
  BY SetupFacts DEF WorkInv, WorkTypes
<1>2. tasks[k].row # "none" /\ tasks[k] \in TaskRow
  BY <1>1 DEF EditTask, WorkInv, Blank, NoTask
<1> DEFINE row == [tasks[k] EXCEPT !.est = est, !.done = done]
<1>3. /\ row \in TaskRow /\ row.row = tasks[k].row /\ row.staged = tasks[k].staged
      /\ row.listed = tasks[k].listed
  <2>1. row \in TaskRow
    BY <1>1, <1>2, TaskRows
  <2>2. row.row = tasks[k].row /\ row.staged = tasks[k].staged /\ row.listed = tasks[k].listed
    BY <1>2 DEF TaskRow
  <2> QED
    BY <2>1, <2>2
<1>4. tasks' = [tasks EXCEPT ![k] = row]
  BY <1>1 DEF EditTask
<1> HIDE DEF row
<1>5. GentleTasks
  BY <1>1, <1>2, <1>3, <1>4, OneTask
<1>6. GentlePoints /\ GentleRest
  BY <1>1, SamePoints, SameRest DEF EditTask, Saved, deliveryRest
<1> QED
  BY <1>5, <1>6 DEF Gentle

LEMMA DropGentle ==
    ASSUME WorkInv, NEW b \in Browsers, NEW k \in Keys, DropTask(b, k)
    PROVE  Gentle
<1>1. WorkTypes /\ tasks \in [Keys -> TaskRow] /\ points \in [Keys -> PointRow]
  BY DEF WorkInv, WorkTypes
<1>2. tasks[k].row # "none" /\ tasks[k] \in TaskRow
  BY <1>1 DEF DropTask, WorkInv, Blank, NoTask
<1>3. ASSUME tasks[k].row = "active" PROVE GentleTasks
  BY <1>1, <1>3, SameTasks DEF DropTask, Dropped
<1>4. ASSUME tasks[k].row # "active" PROVE GentleTasks
  <2> DEFINE row == [tasks[k] EXCEPT !.listed = FALSE]
  <2>1. /\ row \in TaskRow /\ row.row = tasks[k].row /\ row.staged = tasks[k].staged
        /\ row.listed = FALSE
    <3> DEFINE old == tasks[k]
    <3>1. old \in TaskRow
      BY <1>2
    <3> HIDE DEF old
    <3>2. /\ [old EXCEPT !.listed = FALSE] \in TaskRow
          /\ \A f \in {"row", "staged"} : [old EXCEPT !.listed = FALSE][f] = old[f]
          /\ [old EXCEPT !.listed = FALSE].listed = FALSE
      BY ONLY <3>1 DEF TaskRow
    <3> QED
      BY <3>2 DEF old
  <2>2. tasks' = [tasks EXCEPT ![k] = row]
    BY <1>1, <1>4 DEF DropTask, Dropped
  <2> HIDE DEF row
  <2> QED
    BY <1>1, <1>2, <1>4, <2>1, <2>2, OneTask
<1>5. GentlePoints /\ GentleRest
  BY <1>1, SamePoints, SameRest DEF DropTask, Saved, deliveryRest
<1> QED
  BY <1>3, <1>4, <1>5 DEF Gentle

LEMMA ExpireGentle ==
    ASSUME WorkInv, ExpirePreview
    PROVE  Gentle
<1>1. GentleRest
  BY SetupFacts DEF ExpirePreview, GentleRest, WorkInv, WorkTypes
<1> QED
  BY <1>1, SameTasks, SamePoints DEF Gentle, WorkInv, WorkTypes, ExpirePreview

\* What an event says of a task and of a point.
LEMMA EventRows ==
    ASSUME tasks \in [Keys -> TaskRow], points \in [Keys -> PointRow], NEW k \in Keys,
           NEW type \in {"task_started", "task_implemented", "test_passed", "test_failed"}
    PROVE  /\ EventTask(k, type) \in TaskRow
           /\ EventTask(k, type).row = tasks[k].row
           /\ EventTask(k, type).staged = tasks[k].staged
           /\ EventTask(k, type).listed = tasks[k].listed
           /\ tasks[k].row = "none" => EventTask(k, type) = tasks[k]
           /\ EventPoint(k, type) \in PointRow
           /\ EventPoint(k, type).active = points[k].active
           /\ EventPoint(k, type).counts = points[k].counts
           /\ points[k].status \in Human => EventPoint(k, type) = points[k]
           /\ points[k].status \notin Human => EventPoint(k, type).status \notin Human
<1>1. tasks[k] \in TaskRow /\ points[k] \in PointRow
  OBVIOUS
<1>2. \/ EventTask(k, type) = tasks[k]
      \/ /\ tasks[k].row # "none"
         /\ \E c \in {"todo", "in_progress", "implemented"} :
               EventTask(k, type) = [tasks[k] EXCEPT !.codex = c]
  BY DEF EventTask
<1>3. \/ EventPoint(k, type) = points[k]
      \/ /\ points[k].status \notin Human
         /\ \E s \in {"implemented", "test_passed", "failed"} :
               EventPoint(k, type) = [points[k] EXCEPT !.status = s]
  <2>1. CASE points[k].active /\ points[k].status \notin Human
    <3>1. CASE type = "task_started"
      <4>1. [points[k] EXCEPT !.status = points[k].status] = points[k]
        BY <1>1 DEF PointRow
      <4> QED
        BY <2>1, <3>1, <4>1 DEF EventPoint, Human
    <3>2. CASE type # "task_started"
      BY <2>1, <3>2 DEF EventPoint, Human
    <3> QED
      BY <3>1, <3>2
  <2>2. CASE ~(points[k].active /\ points[k].status \notin Human)
    BY <2>2 DEF EventPoint, Human
  <2> QED
    BY <2>1, <2>2
<1>4. \A c \in {"todo", "in_progress", "implemented"} :
          LET row == [tasks[k] EXCEPT !.codex = c] IN
          row.row = tasks[k].row /\ row.staged = tasks[k].staged /\ row.listed = tasks[k].listed
  BY <1>1 DEF TaskRow
<1>5. \A s \in {"implemented", "test_passed", "failed"} :
          LET row == [points[k] EXCEPT !.status = s] IN
          row.active = points[k].active /\ row.counts = points[k].counts /\ row.status \notin Human
  BY <1>1 DEF PointRow, Human
<1>6. EventTask(k, type) \in TaskRow /\ EventPoint(k, type) \in PointRow
  BY <1>1, <1>2, <1>3, TaskRows, PointRows
<1> QED
  BY <1>2, <1>3, <1>4, <1>5, <1>6

LEMMA EventGentle ==
    ASSUME WorkTypes, NEW k \in Keys, tasks[k].row # "none",
           NEW type \in {"task_started", "task_implemented", "test_passed", "test_failed"},
           Event(k, type)
    PROVE  GentleTasks /\ GentlePoints
<1>1. tasks \in [Keys -> TaskRow] /\ points \in [Keys -> PointRow]
  BY DEF WorkTypes
<1>2. /\ tasks' = [tasks EXCEPT ![k] = EventTask(k, type)]
      /\ points' = [points EXCEPT ![k] = EventPoint(k, type)]
  BY DEF Event
<1>3. GentleTasks
  <2> DEFINE row == EventTask(k, type)
  <2>1. /\ row \in TaskRow /\ row.row = tasks[k].row /\ row.staged = tasks[k].staged
        /\ row.listed = tasks[k].listed
    BY <1>1, EventRows
  <2>2. tasks' = [tasks EXCEPT ![k] = row]
    BY <1>2
  <2> HIDE DEF row
  <2> QED
    BY <1>1, <2>1, <2>2, OneTask
<1>4. GentlePoints
  <2> DEFINE row == EventPoint(k, type)
  <2>1. /\ row \in PointRow /\ row.active = points[k].active /\ row.counts = points[k].counts
        /\ points[k].status \in Human => row = points[k]
        /\ points[k].status \notin Human => row.status \notin Human
    BY <1>1, EventRows
  <2>2. points' = [points EXCEPT ![k] = row]
    BY <1>2
  <2> HIDE DEF row
  <2> QED
    BY <1>1, <2>1, <2>2, OnePoint
<1> QED
  BY <1>3, <1>4

LEMMA ReportedGentle ==
    ASSUME WorkInv, NEW k \in Keys, NEW type \in {"task_started", "task_implemented", "test_passed", "test_failed"},
           Reported(k, type)
    PROVE  Gentle
<1>1. WorkTypes
  BY DEF WorkInv
<1>2. GentleTasks /\ GentlePoints
  BY <1>1, EventGentle DEF Reported
<1>3. GentleRest
  BY <1>1, SetupFacts DEF Reported, GentleRest, WorkTypes
<1> QED
  BY <1>2, <1>3 DEF Gentle

LEMMA TestGentle ==
    ASSUME WorkInv, NEW b \in Browsers, NEW k \in Keys,
           RunTest(b, k) \/ \E passed \in BOOLEAN : TestEnds(k, passed)
    PROVE  Gentle
<1>1. WorkTypes /\ tasks \in [Keys -> TaskRow] /\ points \in [Keys -> PointRow]
  BY DEF WorkInv, WorkTypes
<1>2. GentleTasks
  BY <1>1, SameTasks DEF RunTest, TestEnds
<1>3. GentleRest
  BY <1>1, SetupFacts DEF RunTest, TestEnds, Saved, GentleRest, WorkTypes
<1>4. GentlePoints
  <2>1. CASE UNCHANGED points
    BY <1>1, <2>1, SamePoints
  <2>2. CASE ~UNCHANGED points
    <3>1. PICK passed \in BOOLEAN : TestEnds(k, passed)
      BY <2>2 DEF RunTest
    <3> DEFINE status == IF passed THEN "test_passed" ELSE "failed"
               row == [points[k] EXCEPT !.status = status]
    <3>2. points[k] \in PointRow /\ points[k].status \notin Human
      BY <1>1, <2>2, <3>1 DEF TestEnds
    <3>3. points' = [points EXCEPT ![k] = row]
      BY <3>1, <3>2 DEF TestEnds
    <3>4. /\ row \in PointRow /\ row.active = points[k].active /\ row.counts = points[k].counts
          /\ row.status \notin Human
      BY <3>2, PointRows DEF PointRow, Human
    <3> HIDE DEF row
    <3> QED
      BY <1>1, <3>2, <3>3, <3>4, OnePoint
  <2> QED
    BY <2>1, <2>2
<1> QED
  BY <1>2, <1>3, <1>4 DEF Gentle

\* The hours of a task with an entry in the snapshot.
LEMMA HoursGentle ==
    ASSUME WorkInv, NEW k \in Keys, tasks[k].listed, NEW h \in Nat,
           tasks' = [tasks EXCEPT ![k].hours = h]
    PROVE  GentleTasks
<1>1. tasks \in [Keys -> TaskRow]
  BY DEF WorkInv, WorkTypes
<1>2. tasks[k].row # "none" /\ tasks[k] \in TaskRow
  BY <1>1 DEF WorkInv, Blank, NoTask
<1> DEFINE row == [tasks[k] EXCEPT !.hours = h]
<1>3. /\ row \in TaskRow /\ row.row = tasks[k].row /\ row.staged = tasks[k].staged
      /\ row.listed = tasks[k].listed
  BY <1>1, <1>2, TaskRows, ZenonT(40) DEF TaskRow
<1>4. tasks' = [tasks EXCEPT ![k] = row]
  BY <1>1
<1> HIDE DEF row
<1> QED
  BY <1>1, <1>2, <1>3, <1>4, OneTask

LEMMA TimeGentle ==
    ASSUME WorkInv, NEW b \in Browsers, NEW k \in Keys, AddTime(b, k) \/ AdjustTime(b, k)
    PROVE  Gentle
<1>1. WorkTypes /\ points \in [Keys -> PointRow] /\ tasks[k].hours \in Nat
  BY TaskRows DEF WorkInv, WorkTypes
<1>2. tasks[k].listed
  BY DEF AddTime, AdjustTime
<1>3. \E h \in Nat : tasks' = [tasks EXCEPT ![k].hours = h]
  <2>1. CASE AddTime(b, k)
    <3>1. tasks[k].hours + 1 \in Nat
      BY <1>1
    <3>2. tasks' = [tasks EXCEPT ![k].hours = tasks[k].hours + 1]
      BY <2>1 DEF AddTime, Timed
    <3> QED
      BY <3>1, <3>2
  <2>2. CASE AdjustTime(b, k)
    <3>1. tasks[k].hours - 1 \in Nat
      BY <1>1, <2>2 DEF AdjustTime
    <3> QED
      BY <2>2, <3>1 DEF AdjustTime
  <2> QED
    BY <2>1, <2>2
<1>4. GentleTasks
  BY <1>2, <1>3, HoursGentle
<1>5. GentlePoints /\ GentleRest
  BY <1>1, SamePoints, SameRest DEF AddTime, AdjustTime, Saved, deliveryRest
<1> QED
  BY <1>4, <1>5 DEF Gentle
-----------------------------------------------------------------------------
(* Plans.                                                                  *)

\* A row that differs only in the tasks a draft selects, and one that was just generated.
SamePlan(x, y) ==
    /\ y.case = x.case /\ y.status = x.status /\ y.at = x.at /\ y.version = x.version
    /\ x.status # "draft" => y.keys = x.keys

NewPlan(x) ==
    x.status = "draft" /\ x.at = 0 /\ x.version = version /\ x.case \in 1..setup.cases

\* A step that changes nothing but the plans, and no confirmed one.
LEMMA DraftsOnly ==
    ASSUME WorkInv, UNCHANGED <<setup, current, version, tasks, points, preview, progress, weights, testing>>,
           plans' \in Seq(PlanRow), DOMAIN plans \subseteq DOMAIN plans',
           \A p \in DOMAIN plans : SamePlan(plans[p], plans'[p]),
           \A p \in DOMAIN plans' \ DOMAIN plans : NewPlan(plans'[p])
    PROVE  WorkInv' /\ Stands
<1>1. Dated' = Dated /\ Confirmed' = Confirmed
  BY DEF SamePlan, NewPlan, Dated, Confirmed
<1>2. DatesInv'
  <2>1. Cardinality(Dated) \in Nat
    BY FS_CardinalityType DEF WorkInv, WorkTypes, DatesInv
  <2>2. \A p \in DOMAIN plans' : /\ plans'[p].status = "draft" => plans'[p].at = 0
                                /\ plans'[p].at <= Cardinality(Dated)
    BY <2>1 DEF SamePlan, NewPlan, WorkInv, WorkTypes, DatesInv
  <2> QED
    BY <1>1, <2>2 DEF DatesInv, WorkInv, WorkTypes
<1>3. WorkTypes'
  <2>1. \A p \in DOMAIN plans' : plans'[p].version \in 1..version /\ plans'[p].case \in 1..setup.cases
    BY DEF SamePlan, NewPlan, WorkInv, WorkTypes
  <2> QED
    BY <1>2, <2>1 DEF WorkInv, WorkTypes
<1>4. Active' = Active
  BY DEF Active
<1>5. ScopeIsPlan'
  <2>1. \A p \in Confirmed : /\ plans'[p].case = plans[p].case
                             /\ plans'[p].keys = plans[p].keys
                             /\ plans'[p].at = plans[p].at
    BY DEF SamePlan, Confirmed
  <2>2. \A p \in Confirmed' : InForce(p)' => InForce(p)
    BY <1>1, <2>1 DEF InForce
  <2>3. /\ \A p, q \in Confirmed' : plans'[p].case = plans'[q].case => p = q
        /\ \A p \in Confirmed' :
              InForce(p)' => plans'[p].keys = {k \in Active' : tasks'[k].staged}
    BY <1>1, <1>4, <2>1, <2>2 DEF WorkInv, ScopeIsPlan
  <2> QED
    BY <1>4, <2>3 DEF WorkInv, ScopeIsPlan, Percent
<1>6. Blank' /\ NewIsNew'
  BY DEF WorkInv, Blank, NewIsNew
<1>7. Stands
  BY DEF Stands
<1> QED
  BY <1>3, <1>5, <1>6, <1>7 DEF WorkInv

LEMMA GenerateKeeps ==
    ASSUME WorkInv, NEW c \in 1..setup.cases, NEW keys \in SUBSET Keys, NEW est \in setup.estimates,
           Generate(c, keys, est)
    PROVE  WorkInv' /\ Stands
<1> DEFINE row == [case |-> c, status |-> "draft", at |-> 0, version |-> version, keys |-> keys,
                   est |-> est]
<1>1. plans \in Seq(PlanRow) /\ version \in 1..version /\ est \in Nat /\ c \in Nat
  BY SetupFacts DEF WorkInv, WorkTypes
<1>2. row \in PlanRow /\ NewPlan(row)
  BY <1>1 DEF PlanRow, NewPlan
<1>3. plans' = Append(plans, row)
  BY DEF Generate
<1> HIDE DEF row
<1>4. /\ plans' \in Seq(PlanRow) /\ DOMAIN plans' = 1..(Len(plans) + 1)
      /\ DOMAIN plans = 1..Len(plans) /\ Len(plans) \in Nat
      /\ plans'[Len(plans) + 1] = row /\ \A p \in DOMAIN plans : plans'[p] = plans[p]
  <2>1. /\ plans' \in Seq(PlanRow) /\ Len(plans') = Len(plans) + 1
        /\ plans'[Len(plans) + 1] = row /\ \A p \in 1..Len(plans) : plans'[p] = plans[p]
    BY <1>1, <1>2, <1>3
  <2> QED
    BY <1>1, <2>1, LenProperties
<1>5. DOMAIN plans \subseteq DOMAIN plans' /\ \A p \in DOMAIN plans' \ DOMAIN plans : p = Len(plans) + 1
  BY <1>4
<1>6. \A p \in DOMAIN plans : SamePlan(plans[p], plans'[p])
  BY <1>4 DEF SamePlan
<1>7. \A p \in DOMAIN plans' \ DOMAIN plans : NewPlan(plans'[p])
  BY <1>2, <1>4, <1>5
<1>8. UNCHANGED <<setup, current, version, tasks, points, preview, progress, weights, testing>>
  BY DEF Generate
<1> QED
  BY <1>4, <1>5, <1>6, <1>7, <1>8, DraftsOnly

LEMMA UpdateDraftKeeps ==
    ASSUME WorkInv, NEW p \in DOMAIN plans, NEW keys \in SUBSET Keys, UpdateDraft(p, keys)
    PROVE  WorkInv' /\ Stands
<1> DEFINE row == [plans[p] EXCEPT !.keys = keys]
<1>1. plans \in Seq(PlanRow) /\ p \in 1..Len(plans) /\ plans[p] \in PlanRow
  BY LenProperties DEF WorkInv, WorkTypes
<1>2. row \in PlanRow /\ SamePlan(plans[p], row)
  BY <1>1 DEF PlanRow, UpdateDraft, SamePlan
<1>3. plans' = [plans EXCEPT ![p] = row]
  BY DEF UpdateDraft
<1> HIDE DEF row
<1>4. /\ plans' \in Seq(PlanRow) /\ DOMAIN plans' = DOMAIN plans
      /\ plans'[p] = row /\ \A q \in DOMAIN plans \ {p} : plans'[q] = plans[q]
  <2>1. plans' \in Seq(PlanRow)
    BY <1>1, <1>2, <1>3, ExceptSeq
  <2>2. /\ DOMAIN plans' = DOMAIN plans
        /\ plans'[p] = row /\ \A q \in DOMAIN plans \ {p} : plans'[q] = plans[q]
    BY <1>1, <1>3, LenProperties
  <2> QED
    BY <2>1, <2>2
<1>5. \A q \in DOMAIN plans : SamePlan(plans[q], plans'[q])
  BY <1>2, <1>4 DEF SamePlan
<1>6. UNCHANGED <<setup, current, version, tasks, points, preview, progress, weights, testing>>
  BY DEF UpdateDraft
<1> QED
  BY <1>4, <1>5, <1>6, DraftsOnly

LEMMA PlanRows ==
    ASSUME WorkTypes, NEW p \in DOMAIN plans
    PROVE  plans[p] \in PlanRow /\ plans[p].keys \in SUBSET Keys /\ plans[p].est \in Nat
<1>1. plans \in Seq(PlanRow)
  BY DEF WorkTypes
<1>2. plans[p] \in PlanRow
  BY <1>1, LenProperties
<1> QED
  BY <1>2 DEF PlanRow

\* What the confirmation of a plan makes of a task and of its point.
LEMMA PlannedRows ==
    ASSUME WorkInv, NEW p \in DOMAIN plans, NEW k \in Keys
    PROVE  /\ PlannedTask(p, k) \in TaskRow
           /\ PlannedPoint(p, k) \in PointRow
           /\ k \in plans[p].keys =>
                 PlannedTask(p, k).row = "active" /\ PlannedTask(p, k).listed
                   /\ PlannedTask(p, k).staged /\ PlannedPoint(p, k).active
           /\ k \notin plans[p].keys =>
                 /\ PlannedTask(p, k).row # "active"
                 /\ ~(PlannedTask(p, k).listed /\ PlannedTask(p, k).staged)
                 /\ PlannedTask(p, k).row = "none" => PlannedTask(p, k) = NoTask
                 /\ ~PlannedPoint(p, k).active
                 /\ PlannedTask(p, k).est = tasks[k].est
           /\ points[k].status \in Human => PlannedPoint(p, k).status = points[k].status
<1>1. tasks[k] \in TaskRow /\ points[k] \in PointRow
  BY DEF WorkInv, WorkTypes
<1>2. plans[p] \in PlanRow /\ plans[p].est \in Nat
  BY PlanRows DEF WorkInv
<1>3. tasks[k].row = "none" => tasks[k] = NoTask
  BY DEF WorkInv, Blank
<1>4. CASE k \in plans[p].keys
  <2> DEFINE e == IF tasks[k].done THEN tasks[k].est ELSE plans[p].est
             s == IF points[k].status = "none" THEN "pending" ELSE points[k].status
  <2>1. PlannedTask(p, k) = [tasks[k] EXCEPT !.row = "active", !.listed = TRUE, !.staged = TRUE, !.est = e]
    BY <1>4 DEF PlannedTask
  <2>2. PlannedPoint(p, k) = [points[k] EXCEPT !.active = TRUE, !.status = s]
    BY <1>4 DEF PlannedPoint
  <2>3. e \in Nat
    BY <1>1, <1>2 DEF TaskRow
  <2>4. s \in {"pending", "implemented", "test_passed", "failed", "verified", "waived"}
    BY <1>1 DEF PointRow
  <2>5. points[k].status \in Human => s = points[k].status
    BY DEF Human
  <2> HIDE DEF e, s
  <2>6. /\ PlannedTask(p, k) \in TaskRow /\ PlannedTask(p, k).row = "active"
        /\ PlannedTask(p, k).listed /\ PlannedTask(p, k).staged
    BY <1>1, <2>1, <2>3 DEF TaskRow
  <2>7. /\ PlannedPoint(p, k) \in PointRow /\ PlannedPoint(p, k).active
        /\ PlannedPoint(p, k).status = s
    BY <1>1, <2>2, <2>4 DEF PointRow
  <2> QED
    BY <1>4, <2>5, <2>6, <2>7
<1>5. CASE k \notin plans[p].keys
  <2>1. PlannedPoint(p, k) = [points[k] EXCEPT !.active = FALSE]
    BY <1>5 DEF PlannedPoint
  <2>2. /\ PlannedPoint(p, k) \in PointRow /\ ~PlannedPoint(p, k).active
        /\ PlannedPoint(p, k).status = points[k].status
    BY <1>1, <2>1 DEF PointRow
  <2>3. CASE tasks[k].row = "none"
    <3>1. PlannedTask(p, k) = NoTask
      BY <1>3, <1>5, <2>3 DEF PlannedTask
    <3>2. NoTask.row = "none" /\ ~NoTask.listed
      BY DEF NoTask
    <3>3. PlannedTask(p, k) = tasks[k]
      BY <1>3, <2>3, <3>1
    <3> QED
      BY <1>1, <1>5, <2>2, <3>1, <3>2, <3>3
  <2>4. CASE tasks[k].row # "none"
    <3> DEFINE l == tasks[k].listed /\ ~tasks[k].staged
    <3>1. PlannedTask(p, k) = [tasks[k] EXCEPT !.row = "retired", !.listed = l]
      BY <1>5, <2>4 DEF PlannedTask
    <3>2. l \in BOOLEAN /\ ~(l /\ tasks[k].staged)
      OBVIOUS
    <3> HIDE DEF l
    <3>3. /\ PlannedTask(p, k) \in TaskRow /\ PlannedTask(p, k).row = "retired"
          /\ PlannedTask(p, k).listed = l /\ PlannedTask(p, k).staged = tasks[k].staged
          /\ PlannedTask(p, k).est = tasks[k].est
      BY <1>1, <3>1, <3>2 DEF TaskRow
    <3> QED
      BY <1>5, <2>2, <3>2, <3>3
  <2> QED
    BY <2>3, <2>4
<1> QED
  BY <1>4, <1>5

\* What becomes of plan q when plan p is confirmed.
SupersededBy(p, q, x) ==
    /\ x.case = plans[q].case /\ x.version = plans[q].version /\ x.keys = plans[q].keys
    /\ x.at = IF q = p THEN NextAt ELSE plans[q].at
    /\ x.status = "confirmed" <=>
          q = p \/ (q \in Confirmed /\ plans[q].case # plans[p].case)
    /\ x.status = "draft" => q # p /\ plans[q].status = "draft"

LEMMA SupersededRows ==
    ASSUME plans \in Seq(PlanRow), NEW p \in DOMAIN plans, NextAt \in Nat
    PROVE  /\ Superseded(p) \in Seq(PlanRow) /\ DOMAIN Superseded(p) = DOMAIN plans
           /\ \A q \in DOMAIN plans : SupersededBy(p, q, Superseded(p)[q])
<1>1. DOMAIN plans = 1..Len(plans) /\ Len(plans) \in Nat
  BY LenProperties
<1>2. \A q \in DOMAIN plans : plans[q] \in PlanRow
  BY <1>1, LenProperties
<1>3. DOMAIN Superseded(p) = DOMAIN plans
  BY DEF Superseded
<1>4. ASSUME NEW q \in DOMAIN plans
      PROVE  Superseded(p)[q] \in PlanRow /\ SupersededBy(p, q, Superseded(p)[q])
  <2>1. plans[q] \in PlanRow
    BY <1>2
  <2>2. CASE q = p
    <3> DEFINE n == NextAt
               row == [plans[q] EXCEPT !.status = "confirmed", !.at = n]
    <3>1. Superseded(p)[q] = row
      BY <2>2 DEF Superseded
    <3>2. n \in Nat
      OBVIOUS
    <3>3. n = NextAt
      OBVIOUS
    <3> HIDE DEF n
    <3>4. /\ row \in PlanRow /\ row.case = plans[q].case /\ row.version = plans[q].version
          /\ row.keys = plans[q].keys /\ row.at = n /\ row.status = "confirmed"
      BY <2>1, <3>2 DEF PlanRow
    <3> HIDE DEF row
    <3> QED
      BY <2>2, <3>1, <3>3, <3>4 DEF SupersededBy
  <2>3. CASE q # p /\ q \in Confirmed /\ plans[q].case = plans[p].case
    <3> DEFINE row == [plans[q] EXCEPT !.status = "superseded"]
    <3>1. Superseded(p)[q] = row
      BY <2>3 DEF Superseded
    <3>2. /\ row \in PlanRow /\ row.case = plans[q].case /\ row.version = plans[q].version
          /\ row.keys = plans[q].keys /\ row.at = plans[q].at /\ row.status = "superseded"
      BY <2>1 DEF PlanRow
    <3> HIDE DEF row
    <3> QED
      BY <2>3, <3>1, <3>2 DEF SupersededBy
  <2>4. CASE q # p /\ ~(q \in Confirmed /\ plans[q].case = plans[p].case)
    <3>1. Superseded(p)[q] = plans[q]
      BY <2>4 DEF Superseded
    <3> QED
      BY <2>1, <2>4, <3>1 DEF SupersededBy, Confirmed
  <2> QED
    BY <2>2, <2>3, <2>4
<1>5. Superseded(p) \in [1..Len(plans) -> PlanRow]
  <2>1. Superseded(p) = [q \in 1..Len(plans) |-> Superseded(p)[q]]
    BY <1>1, <1>3 DEF Superseded
  <2> QED
    BY <1>1, <1>4, <2>1
<1>6. Superseded(p) \in Seq(PlanRow)
  BY <1>1, <1>5
<1> QED
  BY <1>3, <1>4, <1>6

\* The confirmed plan has the latest date.
LEMMA NextDate ==
    ASSUME WorkTypes
    PROVE  /\ Cardinality(Dated) \in Nat /\ NextAt \in Nat /\ NextAt = Cardinality(Dated) + 1
           /\ \A q \in DOMAIN plans : plans[q].at \in Nat /\ plans[q].at < NextAt
<1>1. Cardinality(Dated) \in Nat
  BY FS_CardinalityType DEF WorkTypes, DatesInv
<1>2. \A q \in DOMAIN plans : plans[q].at \in Nat
  BY PlanRows DEF PlanRow
<1> QED
  BY <1>1, <1>2 DEF WorkTypes, DatesInv, NextAt

LEMMA DatesAfter ==
    ASSUME WorkTypes, NEW p \in DOMAIN plans, plans[p].status = "draft",
           plans' \in Seq(PlanRow), DOMAIN plans' = DOMAIN plans,
           \A q \in DOMAIN plans : SupersededBy(p, q, plans'[q])
    PROVE  DatesInv'
<1>1. p \notin Dated
  <2>1. plans[p].at = 0
    BY DEF WorkTypes, DatesInv
  <2> QED
    BY <2>1 DEF Dated
<1>2. Dated' = Dated \cup {p}
  BY NextDate DEF SupersededBy, Dated
<1>3. IsFiniteSet(Dated') /\ Cardinality(Dated') = NextAt
  BY <1>1, <1>2, FS_AddElement, NextDate DEF WorkTypes, DatesInv
<1>4. ASSUME NEW q \in DOMAIN plans'
      PROVE  /\ plans'[q].status = "draft" => plans'[q].at = 0
             /\ plans'[q].at <= Cardinality(Dated')
  <2>1. CASE q = p
    BY <1>3, <2>1, NextDate DEF SupersededBy
  <2>2. CASE q # p
    BY <1>3, <2>2, NextDate DEF SupersededBy, WorkTypes, DatesInv
  <2> QED
    BY <2>1, <2>2
<1> QED
  BY <1>3, <1>4 DEF DatesInv

LEMMA ConfirmPlanKeeps ==
    ASSUME WorkInv, NEW b \in Browsers, NEW p \in DOMAIN plans, ConfirmPlan(b, p)
    PROVE  WorkInv' /\ Stands
<1>1. /\ tasks' = [k \in Keys |-> PlannedTask(p, k)]
      /\ points' = [k \in Keys |-> PlannedPoint(p, k)]
      /\ plans' = Superseded(p)
      /\ progress' = Percent(Weights(tasks'), points') /\ weights' = Weights(tasks')
      /\ current' = {b}
      /\ UNCHANGED <<setup, version, preview, testing>>
  BY DEF ConfirmPlan, Synced, Saved
<1>2. /\ tasks' \in [Keys -> TaskRow] /\ points' \in [Keys -> PointRow]
      /\ \A k \in Keys : tasks'[k] = PlannedTask(p, k) /\ points'[k] = PlannedPoint(p, k)
  BY <1>1, PlannedRows
<1>3. plans[p].keys \in SUBSET Keys
  BY PlanRows DEF WorkInv
<1>4. Active' = plans[p].keys /\ \A k \in plans[p].keys : tasks'[k].staged
  BY <1>2, <1>3, PlannedRows DEF Active
<1>5. /\ plans' \in Seq(PlanRow) /\ DOMAIN plans' = DOMAIN plans
      /\ \A q \in DOMAIN plans : SupersededBy(p, q, plans'[q])
  BY <1>1, SupersededRows, NextDate DEF WorkInv, WorkTypes
<1>6. WorkTypes'
  <2>1. DOMAIN weights' \subseteq Keys
    BY <1>1 DEF Weights
  <2>2. \A q \in DOMAIN plans' : plans'[q].version \in 1..version' /\ plans'[q].case \in 1..setup'.cases
    BY <1>1, <1>5 DEF WorkInv, WorkTypes, SupersededBy
  <2>4. DatesInv'
    BY <1>5, DatesAfter DEF WorkInv, ConfirmPlan
  <2>3. /\ setup' \in Setups /\ version' \in Nat \ {0} /\ preview' \in PreviewRow
        /\ (preview'.open => preview'.version \in 1..version') /\ testing' \subseteq Keys
        /\ current' \subseteq Browsers \cup {Draft}
    BY <1>1 DEF WorkInv, WorkTypes
  <2> QED
    BY <1>2, <1>5, <2>1, <2>2, <2>3, <2>4 DEF WorkTypes
<1>7. ScopeIsPlan'
  <2>1. /\ p \in Confirmed' /\ plans'[p].at = NextAt /\ plans'[p].case = plans[p].case
        /\ plans'[p].keys = plans[p].keys
        /\ \A q \in Confirmed' \ {p} : /\ q \in Confirmed /\ plans'[q].at = plans[q].at
                                       /\ plans'[q].case = plans[q].case
                                       /\ plans[q].case # plans[p].case
    BY <1>5 DEF SupersededBy, Confirmed
  <2>5. \A q, r \in Confirmed' : plans'[q].case = plans'[r].case => q = r
    BY <2>1 DEF WorkInv, ScopeIsPlan
  <2>6. \A q \in Confirmed' : InForce(q)' => q = p
    <3>1. \A q \in Confirmed : plans[q].at \in Nat /\ plans[q].at < NextAt
      BY NextDate DEF WorkInv, Confirmed
    <3>2. NextAt \in Nat
      BY NextDate DEF WorkInv
    <3> QED
      BY <2>1, <3>1, <3>2 DEF InForce
  <2>2. \A q \in Confirmed' : InForce(q)' => plans'[q].keys = {k \in Active' : tasks'[k].staged}
    BY <1>4, <2>1, <2>6
  <2>3. \A k \in Keys :
            /\ k \in Active' => tasks'[k].listed
            /\ points'[k].active => k \in Active'
            /\ tasks'[k].staged /\ tasks'[k].listed => k \in Active'
    BY <1>2, <1>4, PlannedRows
  <2>4. progress' = Percent(weights', points')
    BY <1>1
  <2> QED
    BY <2>2, <2>5, <2>3, <2>4 DEF ScopeIsPlan
<1>8. Blank' /\ NewIsNew'
  <2>1. \A k \in Keys : tasks'[k].row = "none" => tasks'[k] = NoTask
    BY <1>2, PlannedRows
  <2>2. Draft \notin current'
    BY <1>1, DeliveryAssumption
  <2> QED
    BY <2>1, <2>2 DEF Blank, NewIsNew
<1>9. Stands
  <2>1. \A k \in Keys : points[k].status \in Human => points'[k].status = points[k].status
    BY <1>2, PlannedRows
  <2>2. preview'.open = preview.open
    BY <1>1
  <2> QED
    BY <2>1, <2>2 DEF Stands
<1> QED
  BY <1>6, <1>7, <1>8, <1>9 DEF WorkInv

-----------------------------------------------------------------------------
(* Drafts and decisions.                                                   *)

\* What is said of the plans stays when they do.
LEMMA SamePlans ==
    ASSUME WorkInv, UNCHANGED <<plans, setup, version>>,
           {k \in Active' : tasks'[k].staged} = {k \in Active : tasks[k].staged}
    PROVE  /\ DatesInv'
           /\ \A p \in DOMAIN plans' :
                 plans'[p].version \in 1..version' /\ plans'[p].case \in 1..setup'.cases
           /\ \A p, q \in Confirmed' : plans'[p].case = plans'[q].case => p = q
           /\ \A p \in Confirmed' :
                 InForce(p)' => plans'[p].keys = {k \in Active' : tasks'[k].staged}
<1>1. Dated' = Dated /\ Confirmed' = Confirmed
  BY DEF Dated, Confirmed
<1>2. DatesInv'
  BY <1>1 DEF WorkInv, WorkTypes, DatesInv
<1>3. \A p \in DOMAIN plans' :
          plans'[p].version \in 1..version' /\ plans'[p].case \in 1..setup'.cases
  BY DEF WorkInv, WorkTypes
<1>4. \A p \in Confirmed : InForce(p)' => InForce(p)
  BY <1>1 DEF InForce
<1> QED
  BY <1>1, <1>2, <1>3, <1>4 DEF WorkInv, ScopeIsPlan

LEMMA CreatePreviewKeeps ==
    ASSUME WorkInv, NEW b \in Browsers, CreatePreview(b)
    PROVE  WorkInv' /\ Stands
<1>1. /\ preview' = [open |-> TRUE, version |-> version, class |-> [k \in Keys |-> Class(k)]]
      /\ current' = current \cup {Draft}
      /\ UNCHANGED <<setup, version, plans, tasks, points, progress, weights, testing>>
  BY DEF CreatePreview
<1>2. \A k \in Keys : Class(k) \in {"none", "new", "protected", "unchanged", "update_allowed"}
  BY DEF Class
<1>3. \A k \in Keys : Class(k) = "new" => tasks[k].row = "none"
  BY DEF Class
<1>4. preview' \in PreviewRow /\ preview'.version \in 1..version /\ preview'.open
  <2>1. version \in Nat \ {0}
    BY DEF WorkInv, WorkTypes
  <2>2. [k \in Keys |-> Class(k)] \in
            [Keys -> {"none", "new", "protected", "unchanged", "update_allowed"}]
    BY <1>2
  <2> QED
    BY <1>1, <2>1, <2>2 DEF PreviewRow
<1>6. Active' = Active
  BY <1>1 DEF Active
<1>10. {k \in Active' : tasks'[k].staged} = {k \in Active : tasks[k].staged}
  BY <1>1, <1>6
<1>5. WorkTypes'
  <2>1. current' \subseteq Browsers \cup {Draft}
    BY <1>1 DEF WorkInv, WorkTypes
  <2>2. plans' \in Seq(PlanRow) /\ DatesInv'
    BY <1>1, <1>10, SamePlans DEF WorkInv, WorkTypes
  <2>3. \A p \in DOMAIN plans' :
            plans'[p].version \in 1..version' /\ plans'[p].case \in 1..setup'.cases
    BY <1>1, <1>10, SamePlans
  <2> QED
    BY <1>1, <1>4, <2>1, <2>2, <2>3 DEF WorkInv, WorkTypes
<1>7. ScopeIsPlan'
  <2>1. /\ \A p, q \in Confirmed' : plans'[p].case = plans'[q].case => p = q
        /\ \A p \in Confirmed' :
              InForce(p)' => plans'[p].keys = {k \in Active' : tasks'[k].staged}
    BY <1>1, <1>10, SamePlans
  <2>2. \A k \in Keys :
            /\ k \in Active' => tasks'[k].listed
            /\ points'[k].active => k \in Active'
            /\ tasks'[k].staged /\ tasks'[k].listed => k \in Active'
    BY <1>1, <1>6 DEF WorkInv, ScopeIsPlan
  <2>3. progress' = Percent(weights', points')
    BY <1>1 DEF WorkInv, ScopeIsPlan, Percent
  <2> QED
    BY <2>1, <2>2, <2>3 DEF ScopeIsPlan
<1>8. Blank' /\ NewIsNew'
  BY <1>1, <1>3 DEF WorkInv, Blank, NewIsNew
<1>9. Stands
  BY <1>1 DEF Stands
<1> QED
  BY <1>5, <1>7, <1>8, <1>9 DEF WorkInv

LEMMA ConfirmDraftKeeps ==
    ASSUME WorkInv, NEW b \in Browsers, NEW keys \in SUBSET Keys, ConfirmDraft(b, keys)
    PROVE  WorkInv' /\ Stands
<1> DEFINE row(k) == IF k \notin keys THEN tasks[k]
                     ELSE IF tasks[k].row = "none"
                     THEN [NoTask EXCEPT !.row = "active", !.listed = TRUE, !.est = version]
                     ELSE [tasks[k] EXCEPT !.est = version]
<1>1. /\ Draft \in current /\ preview.open
      /\ \A k \in keys : preview.class[k] \in {"new", "update_allowed"} /\ StillAllowed(k)
      /\ tasks' = [k \in Keys |-> row(k)]
      /\ preview' = NoPreview
      /\ current' = {b}
      /\ UNCHANGED <<setup, version, plans, points, progress, weights, testing>>
  BY DEF ConfirmDraft, Saved
<1>2. version \in Nat /\ \A k \in Keys : tasks[k] \in TaskRow
  BY DEF WorkInv, WorkTypes
<1>3. ASSUME NEW k \in Keys
      PROVE  /\ row(k) \in TaskRow
             /\ tasks[k].row # "none" =>
                   row(k).row = tasks[k].row /\ row(k).listed = tasks[k].listed
             /\ row(k).staged = tasks[k].staged
             /\ tasks[k].row = "none" => ~tasks[k].staged
             /\ row(k).row = "active" /\ tasks[k].row = "none" => row(k).listed
             /\ row(k).row # tasks[k].row => row(k).row = "active"
             /\ row(k).row = "none" => row(k) = NoTask
             /\ Protected(k) => row(k).est = tasks[k].est
  <2>1. CASE k \notin keys
    <3>1. row(k) = tasks[k]
      BY <2>1
    <3>2. tasks[k].row = "none" => tasks[k] = NoTask /\ ~NoTask.staged
      BY DEF WorkInv, Blank, NoTask
    <3>3. ~(row(k).row = "active" /\ tasks[k].row = "none")
      BY <3>1
    <3> HIDE DEF row
    <3> QED
      BY <1>2, <3>1, <3>2, <3>3
  <2>2. CASE k \in keys /\ tasks[k].row = "none"
    <3> DEFINE new == [NoTask EXCEPT !.row = "active", !.listed = TRUE, !.est = version]
    <3>1. row(k) = new
      BY <2>2
    <3>2. new \in TaskRow /\ new.row = "active" /\ new.listed /\ ~new.staged
      BY <1>2 DEF NoTask, TaskRow
    <3>3. tasks[k] = NoTask
      BY <2>2 DEF WorkInv, Blank
    <3>4. ~NoTask.staged /\ NoTask.staged = FALSE /\ new.staged = FALSE
      BY DEF NoTask
    <3>5. ~Protected(k)
      BY <3>3 DEF Protected, NoTask
    <3> HIDE DEF row, new
    <3> QED
      BY <2>2, <3>1, <3>2, <3>3, <3>4, <3>5
  <2>3. CASE k \in keys /\ tasks[k].row # "none"
    <3> DEFINE new == [tasks[k] EXCEPT !.est = version]
    <3>1. row(k) = new
      BY <2>3
    <3>2. new \in TaskRow /\ new.row = tasks[k].row /\ new.listed = tasks[k].listed
            /\ new.staged = tasks[k].staged
      BY <1>2 DEF TaskRow
    <3>3. preview.class[k] # "new"
      BY <1>1, <2>3 DEF WorkInv, NewIsNew
    <3>4. ~Protected(k)
      BY <1>1, <2>3, <3>3 DEF StillAllowed
    <3> HIDE DEF row, new
    <3> QED
      BY <2>3, <3>1, <3>2, <3>4
  <2> QED
    BY <2>1, <2>2, <2>3
<1>4. /\ tasks' \in [Keys -> TaskRow]
      /\ \A k \in Keys :
            /\ tasks[k].row # "none" =>
                   tasks'[k].row = tasks[k].row /\ tasks'[k].listed = tasks[k].listed
            /\ tasks'[k].staged = tasks[k].staged
            /\ tasks[k].row = "none" => ~tasks[k].staged
            /\ tasks'[k].row = "active" /\ tasks[k].row = "none" => tasks'[k].listed
            /\ tasks'[k].row = "none" => tasks'[k] = NoTask
            /\ Protected(k) => tasks'[k].est = tasks[k].est
  BY <1>1, <1>3
<1> HIDE DEF row
<1>6. Active \subseteq Active'
  BY <1>4 DEF Active
<1>7. {k \in Active' : tasks'[k].staged} = {k \in Active : tasks[k].staged}
  BY <1>4 DEF Active
<1>5. WorkTypes'
  <2>1. plans' \in Seq(PlanRow) /\ DatesInv'
    BY <1>1, <1>7, SamePlans DEF WorkInv, WorkTypes
  <2>2. \A p \in DOMAIN plans' :
            plans'[p].version \in 1..version' /\ plans'[p].case \in 1..setup'.cases
    BY <1>1, <1>7, SamePlans
  <2>3. preview' \in PreviewRow /\ ~preview'.open
    BY <1>1, NoPreviewIsOne
  <2> QED
    BY <1>1, <1>4, <2>1, <2>2, <2>3 DEF WorkInv, WorkTypes
<1>8. ScopeIsPlan'
  <2>1. \A k \in Keys :
            /\ k \in Active' => tasks'[k].listed
            /\ points'[k].active => k \in Active'
            /\ tasks'[k].staged /\ tasks'[k].listed => k \in Active'
    BY <1>1, <1>4, <1>6 DEF WorkInv, ScopeIsPlan, Active
  <2>2. progress' = Percent(weights', points')
    BY <1>1 DEF WorkInv, ScopeIsPlan
  <2>3. /\ \A p, q \in Confirmed' : plans'[p].case = plans'[q].case => p = q
        /\ \A p \in Confirmed' :
              InForce(p)' => plans'[p].keys = {k \in Active' : tasks'[k].staged}
    BY <1>1, <1>7, SamePlans
  <2> QED
    BY <2>1, <2>2, <2>3 DEF ScopeIsPlan
<1>9. Blank' /\ NewIsNew'
  BY <1>1, <1>4, NoPreviewIsOne DEF Blank, NewIsNew
<1>10. Stands
  BY <1>1, <1>4 DEF Stands
<1> QED
  BY <1>5, <1>8, <1>9, <1>10 DEF WorkInv

LEMMA DecideKeeps ==
    ASSUME WorkInv, NEW b \in Browsers, NEW k \in Keys,
           NEW status \in {"pending", "failed"} \cup Human, NEW counts \in BOOLEAN,
           Decide(b, k, status, counts)
    PROVE  WorkInv' /\ Stands
<1> DEFINE row == [points[k] EXCEPT !.status = status, !.counts = counts]
<1>1. /\ points[k].active
      /\ points' = [points EXCEPT ![k] = row]
      /\ progress' = Percent(Weights(tasks), points') /\ weights' = Weights(tasks)
      /\ current' = {b}
      /\ UNCHANGED <<setup, version, plans, tasks, preview, testing>>
  BY DEF Decide, Synced, Saved
<1>2. points \in [Keys -> PointRow] /\ points[k] \in PointRow
  BY DEF WorkInv, WorkTypes
<1>3. row \in PointRow /\ row.active = points[k].active
  BY <1>2 DEF PointRow, Human
<1> HIDE DEF row
<1>4. /\ points' \in [Keys -> PointRow] /\ \A j \in Keys : points'[j].active = points[j].active
      /\ \A j \in Keys \ {k} : points'[j] = points[j]
  BY <1>1, <1>2, <1>3
<1>6. Active' = Active
  BY <1>1 DEF Active
<1>10. {j \in Active' : tasks'[j].staged} = {j \in Active : tasks[j].staged}
  BY <1>1, <1>6
<1>5. WorkTypes'
  <2>1. DOMAIN weights' \subseteq Keys
    BY <1>1 DEF Weights
  <2>2. plans' \in Seq(PlanRow) /\ DatesInv'
    BY <1>1, <1>10, SamePlans DEF WorkInv, WorkTypes
  <2>3. \A p \in DOMAIN plans' :
            plans'[p].version \in 1..version' /\ plans'[p].case \in 1..setup'.cases
    BY <1>1, <1>10, SamePlans
  <2> QED
    BY <1>1, <1>4, <2>1, <2>2, <2>3 DEF WorkInv, WorkTypes
<1>7. ScopeIsPlan'
  <2>1. \A j \in Keys :
            /\ j \in Active' => tasks'[j].listed
            /\ points'[j].active => j \in Active'
            /\ tasks'[j].staged /\ tasks'[j].listed => j \in Active'
    BY <1>1, <1>4, <1>6 DEF WorkInv, ScopeIsPlan
  <2>2. progress' = Percent(weights', points')
    BY <1>1
  <2>3. /\ \A p, q \in Confirmed' : plans'[p].case = plans'[q].case => p = q
        /\ \A p \in Confirmed' :
              InForce(p)' => plans'[p].keys = {j \in Active' : tasks'[j].staged}
    BY <1>1, <1>10, SamePlans
  <2> QED
    BY <2>1, <2>2, <2>3 DEF ScopeIsPlan
<1>8. Blank' /\ NewIsNew'
  BY <1>1, DeliveryAssumption DEF WorkInv, Blank, NewIsNew
<1>9. Stands
  <2>1. \A j \in Keys : points'[j].status # points[j].status => j = k
    BY <1>4
  <2>2. \A j \in Keys : tasks'[j].est = tasks[j].est
    BY <1>1
  <2> QED
    BY <2>1, <2>2 DEF Stands
<1> QED
  BY <1>5, <1>7, <1>8, <1>9 DEF WorkInv
-----------------------------------------------------------------------------
(* Runs.                                                                   *)

Statuses == Locked \cup {"none", "cancelled", "failed", "completed"}

\* rs is runs with another row for run r: of the same task, with that status, and
\* with or without an open interval.
Becomes(r, rs, status, open) ==
    /\ rs \in [RunIds -> RunRow]
    /\ \A s \in RunIds \ {r} : rs[s] = runs[s]
    /\ rs[r].task = runs[r].task
    /\ rs[r].status = status
    /\ rs[r].open = open

LEMMA RunForms ==
    ASSUME runs \in [RunIds -> RunRow], NEW r \in RunIds
    PROVE  /\ \A s \in Statuses :
                 /\ Becomes(r, Closed(r, s), s, FALSE)
                 /\ Becomes(r, [Closed(r, s) EXCEPT ![r].turn = TRUE], s, FALSE)
           /\ Becomes(r, Opened(r), "running", TRUE)
           /\ Becomes(r, [Opened(r) EXCEPT ![r].thread = TRUE], "running", TRUE)
           /\ Becomes(r, [Opened(r) EXCEPT ![r].turn = TRUE], "running", TRUE)
           /\ Becomes(r, [runs EXCEPT ![r].turn = TRUE], runs[r].status, runs[r].open)
           /\ Becomes(r, [runs EXCEPT ![r].status = "running", ![r].turn = TRUE], "running", runs[r].open)
           /\ Becomes(r, [runs EXCEPT ![r].status = "cancelled"], "cancelled", runs[r].open)
<1>1. runs[r] \in RunRow
  OBVIOUS
<1>2. ASSUME NEW row \in RunRow, row.task = runs[r].task
      PROVE  Becomes(r, [runs EXCEPT ![r] = row], row.status, row.open)
  BY <1>2 DEF Becomes
<1>3. ASSUME NEW s \in Statuses
      PROVE  /\ Becomes(r, Closed(r, s), s, FALSE)
             /\ Becomes(r, [Closed(r, s) EXCEPT ![r].turn = TRUE], s, FALSE)
  <2> DEFINE row == [runs[r] EXCEPT !.open = FALSE, !.status = s]
             next == [row EXCEPT !.turn = TRUE]
  <2>1. /\ row \in RunRow /\ row.task = runs[r].task /\ row.status = s /\ row.open = FALSE
    BY <1>1 DEF RunRow, Statuses
  <2>2. Closed(r, s) = [runs EXCEPT ![r] = row]
    BY DEF Closed
  <2> HIDE DEF row
  <2>3. next \in RunRow /\ next.task = runs[r].task /\ next.status = s /\ next.open = FALSE
    BY <2>1 DEF RunRow
  <2>4. [Closed(r, s) EXCEPT ![r].turn = TRUE] = [runs EXCEPT ![r] = next]
    BY <2>2
  <2> HIDE DEF next
  <2>5. Becomes(r, [runs EXCEPT ![r] = row], s, FALSE)
    BY <1>2, <2>1
  <2>6. Becomes(r, [runs EXCEPT ![r] = next], s, FALSE)
    BY <1>2, <2>3
  <2> QED
    BY <2>2, <2>4, <2>5, <2>6
<1>4. /\ Becomes(r, Opened(r), "running", TRUE)
      /\ Becomes(r, [Opened(r) EXCEPT ![r].thread = TRUE], "running", TRUE)
      /\ Becomes(r, [Opened(r) EXCEPT ![r].turn = TRUE], "running", TRUE)
  <2> DEFINE row == [runs[r] EXCEPT !.open = TRUE, !.status = "running"]
             known == [row EXCEPT !.thread = TRUE]
             next == [row EXCEPT !.turn = TRUE]
  <2>1. /\ row \in RunRow /\ row.task = runs[r].task /\ row.status = "running" /\ row.open = TRUE
    BY <1>1 DEF RunRow, Locked, Ongoing
  <2>2. Opened(r) = [runs EXCEPT ![r] = row]
    BY DEF Opened
  <2> HIDE DEF row
  <2>3. next \in RunRow /\ next.task = runs[r].task /\ next.status = "running" /\ next.open = TRUE
    BY <2>1 DEF RunRow
  <2>4. known \in RunRow /\ known.task = runs[r].task /\ known.status = "running" /\ known.open = TRUE
    BY <2>1 DEF RunRow
  <2>5. [Opened(r) EXCEPT ![r].turn = TRUE] = [runs EXCEPT ![r] = next]
    BY <2>2
  <2>6. [Opened(r) EXCEPT ![r].thread = TRUE] = [runs EXCEPT ![r] = known]
    BY <2>2
  <2> HIDE DEF next, known
  <2>7. /\ Becomes(r, [runs EXCEPT ![r] = row], "running", TRUE)
        /\ Becomes(r, [runs EXCEPT ![r] = next], "running", TRUE)
        /\ Becomes(r, [runs EXCEPT ![r] = known], "running", TRUE)
    BY <1>2, <2>1, <2>3, <2>4
  <2> QED
    BY <2>2, <2>5, <2>6, <2>7
<1>5. Becomes(r, [runs EXCEPT ![r].turn = TRUE], runs[r].status, runs[r].open)
  <2> DEFINE row == [runs[r] EXCEPT !.turn = TRUE]
  <2>1. /\ row \in RunRow /\ row.task = runs[r].task /\ row.status = runs[r].status
        /\ row.open = runs[r].open
    BY <1>1 DEF RunRow
  <2>2. Becomes(r, [runs EXCEPT ![r] = row], row.status, row.open)
    BY <1>2, <2>1
  <2> QED
    BY <2>1, <2>2
<1>6. Becomes(r, [runs EXCEPT ![r].status = "running", ![r].turn = TRUE], "running", runs[r].open)
  <2> DEFINE row == [runs[r] EXCEPT !.status = "running", !.turn = TRUE]
  <2>1. /\ row \in RunRow /\ row.task = runs[r].task /\ row.status = "running"
        /\ row.open = runs[r].open
    BY <1>1 DEF RunRow, Locked, Ongoing
  <2>2. Becomes(r, [runs EXCEPT ![r] = row], row.status, row.open)
    BY <1>2, <2>1
  <2>3. [runs EXCEPT ![r].status = "running", ![r].turn = TRUE] = [runs EXCEPT ![r] = row]
    OBVIOUS
  <2> HIDE DEF row
  <2> QED
    BY <2>1, <2>2, <2>3
<1>7. Becomes(r, [runs EXCEPT ![r].status = "cancelled"], "cancelled", runs[r].open)
  <2> DEFINE row == [runs[r] EXCEPT !.status = "cancelled"]
  <2>1. /\ row \in RunRow /\ row.task = runs[r].task /\ row.status = "cancelled"
        /\ row.open = runs[r].open
    BY <1>1 DEF RunRow
  <2>2. Becomes(r, [runs EXCEPT ![r] = row], row.status, row.open)
    BY <1>2, <2>1
  <2> QED
    BY <2>1, <2>2
<1> QED
  BY <1>3, <1>4, <1>5, <1>6, <1>7

\* A step of one run: its row, and what refers to it.
RunMoves(r) ==
    /\ runs' \in [RunIds -> RunRow]
    /\ \A s \in RunIds \ {r} : runs'[s] = runs[s]
    /\ runs'[r].task \in Keys
    /\ runs[r].status # "none" => runs'[r].task = runs[r].task
    /\ runs'[r].status # "none"
    /\ runs'[r].open => runs'[r].status = "running"
    /\ runs'[r].status = "waiting_approval" => runs[r].status = "waiting_approval"

RefsMove(r) ==
    /\ launch' \in [RunIds -> {"off", "creating", "turning", "begun"}]
    /\ acting' \in [RunIds -> SUBSET {"pause", "cancel", "resume", "resumed"}]
    /\ \A s \in RunIds \ {r} : launch'[s] = launch[s] /\ acting'[s] = acting[s]
    /\ working' \subseteq working \cup {r}
    /\ events' \in Seq(Notice)
    /\ \A i \in DOMAIN events' : events'[i].run \in Created \cup {r, 0}
    /\ approvals' = approvals
    /\ requests' = requests
    /\ proc' = proc

LEMMA MovesKeep ==
    ASSUME RunsInv, NEW r \in RunIds, RunMoves(r), RefsMove(r)
    PROVE  RunsInv'
<1>1. Created' = Created \cup {r}
  BY DEF RunMoves, Created
<1>2. RunTypes'
  BY <1>1 DEF RunsInv, RunTypes, RunMoves, RefsMove, requests
<1>3. RunRefs'
  <2>1. \A s \in RunIds :
            IF runs'[s].status = "none" THEN launch'[s] = "off" /\ acting'[s] = {}
            ELSE runs'[s].task \in Keys
    BY DEF RunsInv, RunRefs, RunMoves, RefsMove
  <2>2. \A i \in DOMAIN events' : events'[i].run \in Created' \cup {0}
    BY <1>1 DEF RefsMove
  <2> QED
    BY <2>1, <2>2 DEF RunRefs
<1>4. \A s \in RunIds : runs'[s].open => runs'[s].status = "running"
  BY DEF RunsInv, RunMoves
<1>5. Answering'
  BY DEF RunsInv, Answering, Answers, RefsMove, requests
<1>6. WaitsFor'
  BY DEF RunsInv, WaitsFor, RunMoves, RefsMove
<1> QED
  BY <1>2, <1>3, <1>4, <1>5, <1>6 DEF RunsInv

LEMMA SameRuns ==
    ASSUME RunsInv, NEW r \in RunIds, runs[r].status # "none", UNCHANGED runs
    PROVE  RunMoves(r)
BY DEF RunsInv, RunTypes, RunRefs, RunMoves

LEMMA BecomesMoves ==
    ASSUME RunsInv, NEW r \in RunIds, runs[r].status # "none", NEW status, NEW open,
           Becomes(r, runs', status, open), status # "none", open => status = "running",
           status # "waiting_approval"
    PROVE  RunMoves(r)
<1>1. runs[r].task \in Keys
  BY DEF RunsInv, RunRefs
<1> QED
  BY <1>1 DEF Becomes, RunMoves

\* Which run an event belongs to.
LEMMA RunOfCreated ==
    ASSUME RunsInv, events # <<>>
    PROVE  /\ RunOf(Head(events)) \in Created \cup {0}
           /\ Head(events).type \in EventTypes
           /\ Head(events).type = "approval" => Head(events).id \in RequestIds
           /\ Tail(events) \in Seq(Notice)
           /\ \A i \in DOMAIN Tail(events) : Tail(events)[i].run \in Created \cup {0}
<1>1. events \in Seq(Notice)
  BY DEF RunsInv, RunTypes
<1>2. /\ Head(events) = events[1] /\ 1 \in DOMAIN events /\ events[1] \in Notice
      /\ Tail(events) \in Seq(Notice)
      /\ \A i \in DOMAIN Tail(events) : i + 1 \in DOMAIN events /\ Tail(events)[i] = events[i + 1]
  <2>1. Len(events) \in Nat \ {0} /\ DOMAIN events = 1..Len(events)
    BY <1>1, EmptySeq, LenProperties
  <2>2. events[1] \in Notice
    BY <1>1, <2>1, ElementOfSeq
  <2>3. Tail(events) \in Seq(Notice) /\ Len(Tail(events)) = Len(events) - 1
    BY <1>1, HeadTailProperties
  <2>4. DOMAIN Tail(events) = 1..(Len(events) - 1)
    BY <2>3, LenProperties
  <2>5. \A i \in 1..(Len(events) - 1) : Tail(events)[i] = events[i + 1]
    BY <1>1, <2>1
  <2> QED
    BY <1>1, <2>1, <2>2, <2>3, <2>4, <2>5
<1>3. events[1].run \in Created \cup {0}
  BY <1>2 DEF RunsInv, RunRefs
<1>4. /\ Head(events).type \in EventTypes
      /\ Head(events).type = "approval" => Head(events).id \in RequestIds
  BY <1>2 DEF Notice
<1>5. RunOf(Head(events)) \in Created \cup {0}
  <2>1. CASE Head(events).run # 0
    BY <1>2, <1>3, <2>1 DEF RunOf
  <2>2. CASE Head(events).run = 0
    <3> DEFINE S == {s \in Created : runs[s].status \in Ongoing} \cup {0}
    <3>1. S \in SUBSET (0..Cardinality(RunIds)) /\ S # {} /\ Cardinality(RunIds) \in Nat
      <4>1. Cardinality(RunIds) \in Nat /\ RunIds = 1..Cardinality(RunIds)
        BY RunAssumption, FS_CardinalityType
      <4> QED
        BY <4>1 DEF Created
    <3>2. S \subseteq Created \cup {0}
      OBVIOUS
    <3> HIDE DEF S
    <3>3. Max(S) \in S
      BY <3>1, Largest
    <3>4. RunOf(Head(events)) = Max(S)
      BY <2>2 DEF RunOf, S
    <3> QED
      BY <3>2, <3>3, <3>4
  <2> QED
    BY <2>1, <2>2
<1>6. \A i \in DOMAIN Tail(events) : Tail(events)[i].run \in Created \cup {0}
  BY <1>2 DEF RunsInv, RunRefs
<1> QED
  BY <1>2, <1>4, <1>5, <1>6
-----------------------------------------------------------------------------
(* What the steps of the runs do to the delivery.                          *)

LEMMA RestStays ==
    ASSUME WorkTypes, current' = current \/ current' = {}, UNCHANGED deliveryRest
    PROVE  GentleRest
BY DEF GentleRest, WorkTypes, deliveryRest

LEMMA HoursCounted ==
    ASSUME tasks \in [Keys -> TaskRow], NEW k \in Keys
    PROVE  tasks[k].hours + 1 \in Nat
<1>1. tasks[k].hours \in Nat
  BY DEF TaskRow
<1> QED
  BY <1>1

LEMMA StillGentle ==
    ASSUME WorkInv, Still
    PROVE  Gentle
<1>1. WorkTypes /\ tasks \in [Keys -> TaskRow] /\ points \in [Keys -> PointRow]
  BY DEF WorkInv, WorkTypes
<1>2. GentleRest
  BY <1>1, RestStays DEF Still
<1> QED
  BY <1>1, <1>2, SameTasks, SamePoints DEF Gentle, Still

LEMMA TimedGentle ==
    ASSUME WorkInv, RunsInv, NEW r \in Created, CanClose(r), tasks' = TimedBy(r)
    PROVE  GentleTasks
<1>1. runs[r].task \in Keys /\ tasks \in [Keys -> TaskRow]
  BY DEF RunsInv, RunRefs, Created, WorkInv, WorkTypes
<1>2. CASE runs[r].open
  <2>1. tasks[runs[r].task].listed /\ tasks[runs[r].task].hours + 1 \in Nat
    BY <1>1, <1>2, HoursCounted DEF CanClose
  <2>2. tasks' = [tasks EXCEPT ![runs[r].task].hours = tasks[runs[r].task].hours + 1]
    BY <1>2 DEF TimedBy, Timed
  <2> QED
    BY <1>1, <2>1, <2>2, HoursGentle
<1>3. CASE ~runs[r].open
  BY <1>1, <1>3, SameTasks DEF TimedBy
<1> QED
  BY <1>2, <1>3

LEMMA SavedGentle ==
    ASSUME WorkInv, NEW r \in Created, SavedBy(r), UNCHANGED deliveryRest
    PROVE  GentleRest
<1>1. current' = current \/ current' = {}
  BY DEF SavedBy, Saved
<1> QED
  BY <1>1, RestStays DEF WorkInv

LEMMA ClosesGentle ==
    ASSUME WorkInv, RunsInv, NEW r \in Created, NEW rs, Closes(r, rs)
    PROVE  Gentle /\ runs' = rs
<1>1. GentleTasks
  BY TimedGentle DEF Closes
<1>2. GentleRest
  BY SavedGentle DEF Closes
<1>3. GentlePoints
  BY SamePoints DEF Closes, WorkInv, WorkTypes
<1> QED
  BY <1>1, <1>2, <1>3 DEF Gentle, Closes

-----------------------------------------------------------------------------
(* The steps of a run.                                                     *)

LEMMA CreateRuns ==
    ASSUME RunsInv, WorkInv, NEW r \in RunIds, NEW k \in Keys, Create(r, k)
    PROVE  RunsInv' /\ Gentle
<1> DEFINE row == [NoRun EXCEPT !.task = k, !.status = "starting"]
<1>1. row \in RunRow /\ row.task = k /\ row.status = "starting" /\ ~row.open
  BY DEF NoRun, RunRow, Locked, Ongoing
<1>2. runs' = [runs EXCEPT ![r] = row] /\ runs[r].status = "none"
  BY DEF Create, Created
<1> HIDE DEF row
<1>3. RunMoves(r)
  BY <1>1, <1>2 DEF RunMoves, RunsInv, RunTypes
<1>4. RefsMove(r)
  BY DEF Create, RefsMove, RunsInv, RunTypes, RunRefs
<1> QED
  BY <1>3, <1>4, MovesKeep, StillGentle DEF Create

LEMMA LaunchRuns ==
    ASSUME RunsInv, WorkInv, NEW r \in RunIds, Launching(r)
    PROVE  RunsInv' /\ Gentle
<1>1. launch[r] # "off"
  BY DEF Launching, ThreadCreated, TurnBegins, TurnRecorded, LaunchFails
<1>2. runs[r].status # "none" /\ r \in Created /\ runs \in [RunIds -> RunRow]
  BY <1>1 DEF RunsInv, RunRefs, RunTypes, Created
<1>3. RefsMove(r)
  <2>1. /\ launch' \in [RunIds -> {"off", "creating", "turning", "begun"}]
        /\ \A s \in RunIds \ {r} : launch'[s] = launch[s]
    BY DEF Launching, ThreadCreated, TurnBegins, TurnRecorded, LaunchFails, RunsInv, RunTypes
  <2>2. /\ UNCHANGED <<proc, acting, requests, approvals, events>>
        /\ working' \subseteq working \cup {r}
    BY DEF Launching, ThreadCreated, TurnBegins, TurnRecorded, LaunchFails
  <2> QED
    BY <2>1, <2>2 DEF RefsMove, RunsInv, RunTypes, RunRefs
<1>4. RunMoves(r) /\ Gentle
  <2>1. CASE UNCHANGED runs /\ Still
    BY <1>2, <2>1, SameRuns, StillGentle
  <2>2. CASE ThreadCreated(r) /\ ~UNCHANGED runs
    <3>1. runs' = [Opened(r) EXCEPT ![r].thread = TRUE]
      BY <2>2 DEF ThreadCreated
    <3>2. Becomes(r, runs', "running", TRUE)
      BY <1>2, <3>1, RunForms
    <3> QED
      BY <1>2, <2>2, <3>2, BecomesMoves, StillGentle DEF ThreadCreated
  <2>3. CASE TurnRecorded(r) /\ ~UNCHANGED runs
    <3>1. runs' = [runs EXCEPT ![r].turn = TRUE]
      BY <2>3 DEF TurnRecorded
    <3>2. Becomes(r, runs', runs[r].status, runs[r].open)
      BY <1>2, <3>1, RunForms
    <3>3. RunMoves(r)
      BY <1>2, <3>2 DEF Becomes, RunMoves, RunsInv, RunRefs
    <3> QED
      BY <2>3, <3>3, StillGentle DEF TurnRecorded
  <2>4. CASE LaunchFails(r) /\ Closes(r, Closed(r, "failed"))
    <3>1. Gentle /\ runs' = Closed(r, "failed")
      BY <1>2, <2>4, ClosesGentle
    <3>2. Becomes(r, runs', "failed", FALSE)
      BY <1>2, <3>1, RunForms DEF Statuses
    <3> QED
      BY <1>2, <3>1, <3>2, BecomesMoves
  <2>5. CASE TurnBegins(r)
    BY <2>1, <2>5 DEF TurnBegins
  <2> QED
    BY <2>1, <2>2, <2>3, <2>4, <2>5
       DEF Launching, ThreadCreated, TurnBegins, TurnRecorded, LaunchFails
<1> QED
  BY <1>3, <1>4, MovesKeep

LEMMA StopRuns ==
    ASSUME RunsInv, WorkInv, NEW r \in RunIds, NEW op \in {"pause", "cancel"},
           StopAtOnce(r, op) \/ StopAnswered(r, op)
    PROVE  RunsInv' /\ Gentle
<1>1. runs[r].status # "none" /\ r \in Created /\ runs \in [RunIds -> RunRow]
  BY DEF StopAtOnce, StopAnswered, RunsInv, RunRefs, RunTypes, Created, Ongoing
<1>2. RefsMove(r)
  <2>1. /\ acting' \in [RunIds -> SUBSET {"pause", "cancel", "resume", "resumed"}]
        /\ \A s \in RunIds \ {r} : acting'[s] = acting[s]
    BY DEF StopAtOnce, StopAnswered, RunsInv, RunTypes
  <2>2. /\ UNCHANGED <<proc, launch, requests, approvals, events>>
        /\ working' \subseteq working \cup {r}
    BY DEF StopAtOnce, StopAnswered
  <2> QED
    BY <2>1, <2>2 DEF RefsMove, RunsInv, RunTypes, RunRefs
<1>3. RunMoves(r) /\ Gentle
  <2>1. CASE UNCHANGED runs /\ Still
    BY <1>1, <2>1, SameRuns, StillGentle
  <2>2. CASE Closes(r, Closed(r, Stopped(op)))
    <3>1. Gentle /\ runs' = Closed(r, Stopped(op))
      BY <1>1, <2>2, ClosesGentle
    <3>2. Stopped(op) \in Statuses \ {"none", "waiting_approval"}
      BY DEF Stopped, Statuses, Locked
    <3>3. Becomes(r, runs', Stopped(op), FALSE)
      BY <1>1, <3>1, <3>2, RunForms
    <3> QED
      BY <1>1, <3>1, <3>2, <3>3, BecomesMoves
  <2> QED
    BY <2>1, <2>2 DEF StopAtOnce, StopAnswered
<1> QED
  BY <1>2, <1>3, MovesKeep

LEMMA AskRuns ==
    ASSUME RunsInv, WorkInv, NEW r \in RunIds, NEW op \in {"pause", "cancel", "resume", "resumed"},
           (Ask(r, op) /\ op # "resumed") \/ TurnResumes(r) \/ RequestFails(r, op)
    PROVE  RunsInv' /\ Gentle
<1>1. runs[r].status # "none"
  BY DEF Ask, TurnResumes, RequestFails, RunsInv, RunRefs, Ongoing
<1>2. /\ acting' \in [RunIds -> SUBSET {"pause", "cancel", "resume", "resumed"}]
      /\ \A s \in RunIds \ {r} : acting'[s] = acting[s]
  <2>1. acting \in [RunIds -> SUBSET {"pause", "cancel", "resume", "resumed"}]
    BY DEF RunsInv, RunTypes
  <2>2. PICK ops \in SUBSET {"pause", "cancel", "resume", "resumed"} :
            acting' = [acting EXCEPT ![r] = ops]
    <3>1. /\ acting[r] \cup {op} \in SUBSET {"pause", "cancel", "resume", "resumed"}
          /\ acting[r] \ {op} \in SUBSET {"pause", "cancel", "resume", "resumed"}
          /\ (acting[r] \ {"resume"}) \cup {"resumed"}
                \in SUBSET {"pause", "cancel", "resume", "resumed"}
      BY <2>1
    <3> QED
      BY <3>1 DEF Ask, TurnResumes, RequestFails
  <2> QED
    BY <2>1, <2>2
<1>3. /\ UNCHANGED <<proc, runs, launch, requests, approvals, events>> /\ Still
      /\ working' \subseteq working \cup {r}
  BY DEF Ask, TurnResumes, RequestFails
<1>4. RefsMove(r)
  BY <1>2, <1>3 DEF RefsMove, RunsInv, RunTypes, RunRefs
<1> QED
  BY <1>1, <1>3, <1>4, SameRuns, MovesKeep, StillGentle

LEMMA ResumeRuns ==
    ASSUME RunsInv, WorkInv, NEW r \in RunIds, ResumeAnswered(r)
    PROVE  RunsInv' /\ Gentle
<1>1. runs[r].status # "none" /\ runs \in [RunIds -> RunRow]
  BY DEF ResumeAnswered, RunsInv, RunRefs, RunTypes
<1>2. RefsMove(r)
  BY DEF ResumeAnswered, RefsMove, RunsInv, RunTypes, RunRefs
<1>3. runs' = [Opened(r) EXCEPT ![r].turn = TRUE] /\ Still
  BY DEF ResumeAnswered
<1>4. Becomes(r, runs', "running", TRUE)
  BY <1>1, <1>3, RunForms
<1>5. RunMoves(r)
  BY <1>1, <1>4, BecomesMoves
<1> QED
  BY <1>2, <1>3, <1>5, MovesKeep, StillGentle

\* A notification is put behind the others.
LEMMA Told ==
    ASSUME RunsInv, NEW e \in Notice, e.run \in Created \cup {0}, events' = Append(events, e)
    PROVE  /\ events' \in Seq(Notice)
           /\ \A i \in DOMAIN events' : events'[i].run \in Created \cup {0}
<1>1. events \in Seq(Notice)
  BY DEF RunsInv, RunTypes
<1>2. /\ events' \in Seq(Notice) /\ Len(events') = Len(events) + 1 /\ Len(events) \in Nat
      /\ events'[Len(events) + 1] = e /\ \A i \in 1..Len(events) : events'[i] = events[i]
  BY <1>1
<1>3. DOMAIN events' = 1..(Len(events) + 1) /\ DOMAIN events = 1..Len(events)
  BY <1>1, <1>2, LenProperties
<1>4. \A i \in DOMAIN events' : i \in DOMAIN events \/ i = Len(events) + 1
  BY <1>2, <1>3
<1> QED
  BY <1>2, <1>3, <1>4 DEF RunsInv, RunRefs

LEMMA NotifyRuns ==
    ASSUME RunsInv, WorkInv, NEW r \in RunIds, NEW type \in setup.says, Notify(r, type)
    PROVE  RunsInv' /\ Gentle
<1>1. runs[r].status # "none" /\ r \in working /\ r \in Created
  BY DEF Notify, RunsInv, RunTypes, Created
<1>2. type \in Reports
  BY RunAssumption DEF WorkInv, WorkTypes
<1> DEFINE e == [run |-> r, type |-> type, id |-> 0]
<1>3. e \in Notice /\ e.run = r /\ events' = Append(events, e)
  BY <1>2 DEF Notice, Notify, EventTypes, Reports
<1> HIDE DEF e
<1>4. /\ events' \in Seq(Notice)
      /\ \A i \in DOMAIN events' : events'[i].run \in Created \cup {0}
  BY <1>1, <1>3, Told
<1>5. RefsMove(r)
  BY <1>1, <1>4 DEF Notify, RefsMove, RunsInv, RunTypes
<1> QED
  BY <1>1, <1>5, SameRuns, MovesKeep, StillGentle DEF Notify

LEMMA RunNotNone == 0 \notin RunIds
BY RunAssumption, FS_CardinalityType

LEMMA ApprovalRowOf ==
    ASSUME RunsInv, NEW a \in DOMAIN approvals
    PROVE  approvals \in Seq(ApprovalRow) /\ approvals[a] \in ApprovalRow
<1>1. approvals \in Seq(ApprovalRow)
  BY DEF RunsInv, RunTypes
<1>2. DOMAIN approvals = 1..Len(approvals)
  BY <1>1, LenProperties
<1> QED
  BY <1>1, <1>2, ElementOfSeq

LEMMA RequestRuns ==
    ASSUME RunsInv, WorkInv, NEW r \in RunIds, NEW i \in setup.ids, RequestApproval(r, i)
    PROVE  RunsInv' /\ Gentle
<1>1. /\ r \in Created /\ asked[i] = 0 /\ asked' = [asked EXCEPT ![i] = r]
      /\ methods' = methods \cup {i}
      /\ Still /\ UNCHANGED <<proc, runs, launch, acting, working, approvals>>
  BY DEF RequestApproval, RunsInv, RunTypes
<1>2. i \in RequestIds
  BY RunAssumption DEF WorkInv, WorkTypes
<1> DEFINE e == [run |-> r, type |-> "approval", id |-> i]
<1>3. e \in Notice /\ e.run = r /\ events' = Append(events, e)
  BY <1>2 DEF Notice, RequestApproval, EventTypes
<1> HIDE DEF e
<1>4. /\ events' \in Seq(Notice)
      /\ \A j \in DOMAIN events' : events'[j].run \in Created \cup {0}
  BY <1>1, <1>3, Told
<1>5. Created' = Created
  BY <1>1 DEF Created
<1>6. RunTypes' /\ RunRefs'
  <2>1. methods' \subseteq RequestIds /\ asked' \in [RequestIds -> RunIds \cup {0}]
    BY <1>1, <1>2 DEF RunsInv, RunTypes
  <2> QED
    BY <1>1, <1>4, <1>5, <2>1 DEF RunsInv, RunTypes, RunRefs
<1>7. (\A s \in RunIds : runs'[s].open => runs'[s].status = "running") /\ WaitsFor'
  BY <1>1 DEF RunsInv, WaitsFor
<1>8. Answering'
  <2> SUFFICES ASSUME NEW a \in DOMAIN approvals
               PROVE  Answers(approvals[a], proc' = "up", asked', methods')
    BY <1>1 DEF Answering
  <2>1. Answers(approvals[a], proc = "up", asked, methods) /\ approvals[a] \in ApprovalRow
    BY ApprovalRowOf DEF RunsInv, Answering
  <2>2. CASE approvals[a].stale \/ proc # "up" \/ approvals[a].status # "pending"
    BY <1>1, <2>1, <2>2 DEF Answers
  <2>3. CASE ~approvals[a].stale /\ proc = "up" /\ approvals[a].status = "pending"
    <3>1. asked[approvals[a].id] = approvals[a].run /\ approvals[a].run \in RunIds
      BY <2>1, <2>3 DEF Answers, ApprovalRow
    <3>2. approvals[a].id # i
      BY <1>1, <3>1, RunNotNone
    <3>3. /\ asked'[approvals[a].id] = asked[approvals[a].id]
          /\ approvals[a].id \in methods' <=> approvals[a].id \in methods
      BY <1>1, <3>2 DEF RunsInv, RunTypes
    <3> QED
      BY <1>1, <2>1, <2>3, <3>3 DEF Answers
  <2> QED
    BY <2>2, <2>3
<1> QED
  BY <1>1, <1>6, <1>7, <1>8, StillGentle DEF RunsInv
-----------------------------------------------------------------------------
(* The consumer of the notifications.                                      *)

LEMMA HeardRefs ==
    ASSUME RunsInv, NEW r \in RunIds, Heard,
           UNCHANGED <<proc, launch, acting, working, requests, approvals>>
    PROVE  RefsMove(r)
<1>1. events # <<>> /\ events' = Tail(events)
  BY DEF Heard
<1>2. /\ events' \in Seq(Notice)
      /\ \A i \in DOMAIN events' : events'[i].run \in Created \cup {0}
  BY <1>1, RunOfCreated
<1> QED
  BY <1>2 DEF RefsMove, RunsInv, RunTypes

\* The run that is heard of exists.
Heads(r) == events # <<>> /\ r = RunOf(Head(events))

LEMMA HeadRun ==
    ASSUME RunsInv, NEW r \in RunIds, Heads(r)
    PROVE  r \in Created /\ runs[r].status # "none"
<1>1. RunOf(Head(events)) \in Created \cup {0}
  BY RunOfCreated DEF Heads
<1> QED
  BY <1>1, RunNotNone DEF Created, Heads

LEMMA HeardRun ==
    ASSUME RunsInv, Heard, NEW r \in RunIds, r = RunOf(Head(events))
    PROVE  r \in Created /\ runs[r].status # "none"
BY HeadRun DEF Heads, Heard

LEMMA QuietRuns ==
    ASSUME RunsInv, WorkInv, Ignored \/ ConsumerDies
    PROVE  RunsInv' /\ Gentle
<1>1. UNCHANGED <<proc, runs, launch, acting, working, requests, approvals>> /\ Still /\ Heard
  BY DEF Ignored, ConsumerDies
<1>2. /\ events' \in Seq(Notice)
      /\ \A i \in DOMAIN events' : events'[i].run \in Created \cup {0}
  BY <1>1, RunOfCreated DEF Heard
<1>3. Created' = Created
  BY <1>1 DEF Created
<1>4. RunTypes' /\ RunRefs'
  BY <1>1, <1>2, <1>3 DEF RunsInv, RunTypes, RunRefs, requests
<1>5. (\A r \in RunIds : runs'[r].open => runs'[r].status = "running") /\ Answering' /\ WaitsFor'
  BY <1>1 DEF RunsInv, Answering, Answers, WaitsFor, requests
<1> QED
  BY <1>1, <1>4, <1>5, StillGentle DEF RunsInv

LEMMA ProgressedRuns ==
    ASSUME RunsInv, WorkInv, RunsKnow, NEW r \in RunIds,
           NEW type \in {"task_started", "test_passed", "test_failed"}, Progressed(r, type)
    PROVE  RunsInv' /\ Gentle
<1>1. Heard /\ r = RunOf(Head(events)) /\ UNCHANGED <<proc, launch, acting, working, requests, approvals>>
  BY DEF Progressed
<1>2. r \in Created /\ runs[r].status # "none" /\ runs \in [RunIds -> RunRow]
  BY <1>1, HeardRun DEF RunsInv, RunTypes
<1>3. RefsMove(r)
  BY <1>1, HeardRefs
<1>4. runs' = [runs EXCEPT ![r].status = "running", ![r].turn = TRUE]
  BY DEF Progressed
<1>5. Becomes(r, runs', "running", runs[r].open)
  BY <1>2, <1>4, RunForms
<1>6. RunMoves(r)
  BY <1>2, <1>5, BecomesMoves
<1>7. GentleTasks /\ GentlePoints
  <2>1. runs[r].task \in Keys /\ tasks[runs[r].task].row # "none"
    BY <1>2 DEF RunsKnow, RunsInv, RunRefs
  <2>2. Event(runs[r].task, type)
    BY DEF Progressed
  <2> QED
    BY <2>1, <2>2, EventGentle DEF WorkInv
<1>8. GentleRest
  BY RestStays DEF Progressed, WorkInv
<1> QED
  BY <1>3, <1>6, <1>7, <1>8, MovesKeep DEF Gentle

LEMMA FailedRuns ==
    ASSUME RunsInv, WorkInv, NEW r \in RunIds, RunFailed(r)
    PROVE  RunsInv' /\ Gentle
<1>1. Heard /\ r = RunOf(Head(events)) /\ UNCHANGED <<proc, launch, acting, working, requests, approvals>>
  BY DEF RunFailed
<1>2. r \in Created /\ runs[r].status # "none" /\ runs \in [RunIds -> RunRow]
  BY <1>1, HeardRun DEF RunsInv, RunTypes
<1>3. RefsMove(r)
  BY <1>1, HeardRefs
<1>4. Gentle /\ runs' = Closed(r, "failed")
  BY <1>2, ClosesGentle DEF RunFailed
<1>5. Becomes(r, runs', "failed", FALSE)
  BY <1>2, <1>4, RunForms DEF Statuses
<1> QED
  BY <1>2, <1>3, <1>4, <1>5, BecomesMoves, MovesKeep

\* The task of a run that ends: its hours, and what Codex says of it.
LEMMA CompletedTask ==
    ASSUME WorkInv, RunsInv, RunsKnow, NEW r \in Created, CanClose(r),
           tasks' = [TimedBy(r) EXCEPT ![runs[r].task].codex = "implemented"]
    PROVE  GentleTasks
<1> DEFINE k == runs[r].task
<1>1. k \in Keys /\ tasks \in [Keys -> TaskRow] /\ tasks[k] \in TaskRow /\ tasks[k].row # "none"
  BY DEF RunsKnow, RunsInv, RunRefs, Created, WorkInv, WorkTypes
<1>2. tasks[k].hours + 1 \in Nat
  BY <1>1, HoursCounted
<1> DEFINE timed == IF runs[r].open THEN [tasks[k] EXCEPT !.hours = tasks[k].hours + 1] ELSE tasks[k]
           row == [timed EXCEPT !.codex = "implemented"]
<1>3. /\ timed \in TaskRow /\ timed.row = tasks[k].row /\ timed.staged = tasks[k].staged
      /\ timed.listed = tasks[k].listed
  <2>1. [tasks[k] EXCEPT !.hours = tasks[k].hours + 1] \in TaskRow
    BY <1>1, <1>2, TaskRows
  <2>2. LET t == [tasks[k] EXCEPT !.hours = tasks[k].hours + 1] IN
            t.row = tasks[k].row /\ t.staged = tasks[k].staged /\ t.listed = tasks[k].listed
    BY <1>1 DEF TaskRow
  <2> QED
    BY <1>1, <2>1, <2>2
<1>4. tasks' = [tasks EXCEPT ![k] = row]
  <2>1. CASE runs[r].open
    BY <1>1, <2>1 DEF TimedBy, Timed
  <2>2. CASE ~runs[r].open
    BY <1>1, <2>2 DEF TimedBy
  <2> QED
    BY <2>1, <2>2
<1> HIDE DEF timed
<1>5. /\ row \in TaskRow /\ row.row = tasks[k].row /\ row.staged = tasks[k].staged
      /\ row.listed = tasks[k].listed
  <2>1. row \in TaskRow
    BY <1>3, TaskRows
  <2>2. row.row = timed.row /\ row.staged = timed.staged /\ row.listed = timed.listed
    BY <1>3 DEF TaskRow
  <2> QED
    BY <1>3, <2>1, <2>2
<1> HIDE DEF row, k
<1> QED
  BY <1>1, <1>4, <1>5, OneTask

LEMMA ImplementedGentle ==
    ASSUME WorkInv, RunsInv, RunsKnow, NEW r \in Created, CanClose(r), Implemented(r)
    PROVE  GentleTasks /\ GentlePoints
<1>1. GentleTasks
  BY CompletedTask DEF Implemented
<1>2. GentlePoints
  <2> DEFINE k == runs[r].task
             row == EventPoint(k, "task_implemented")
  <2>1. k \in Keys /\ tasks \in [Keys -> TaskRow] /\ points \in [Keys -> PointRow]
    BY DEF RunsInv, RunRefs, Created, WorkInv, WorkTypes
  <2>2. /\ row \in PointRow /\ row.active = points[k].active /\ row.counts = points[k].counts
        /\ points[k].status \in Human => row = points[k]
        /\ points[k].status \notin Human => row.status \notin Human
    BY <2>1, EventRows
  <2>3. points' = [points EXCEPT ![k] = row]
    BY DEF Implemented
  <2> HIDE DEF row, k
  <2> QED
    BY <2>1, <2>2, <2>3, OnePoint
<1> QED
  BY <1>1, <1>2

LEMMA CompletedRuns ==
    ASSUME RunsInv, WorkInv, RunsKnow, NEW r \in RunIds, RunCompleted(r)
    PROVE  RunsInv' /\ Gentle
<1>1. /\ Heard /\ r = RunOf(Head(events)) /\ CanClose(r) /\ SavedBy(r)
      /\ UNCHANGED <<proc, launch, acting, working, requests, approvals>> /\ UNCHANGED deliveryRest
      /\ runs' = [Closed(r, "completed") EXCEPT ![r].turn = TRUE]
  BY DEF RunCompleted
<1>2. r \in Created /\ runs[r].status # "none" /\ runs \in [RunIds -> RunRow]
  BY <1>1, HeardRun DEF RunsInv, RunTypes
<1>3. RefsMove(r)
  BY <1>1, HeardRefs
<1>4. Becomes(r, runs', "completed", FALSE)
  BY <1>1, <1>2, RunForms DEF Statuses
<1>5. RunMoves(r)
  BY <1>2, <1>4, BecomesMoves
<1>6. GentleTasks /\ GentlePoints
  BY <1>1, <1>2, ImplementedGentle DEF RunCompleted
<1>7. GentleRest
  BY <1>1, <1>2, SavedGentle
<1> QED
  BY <1>3, <1>5, <1>6, <1>7, MovesKeep DEF Gentle

LEMMA ApprovalRuns ==
    ASSUME RunsInv, WorkInv, NEW r \in RunIds, ApprovalAsked(r)
    PROVE  RunsInv' /\ Gentle
<1> DEFINE rs == [Closed(r, "waiting_approval") EXCEPT ![r].turn = TRUE]
           i == Head(events).id
           row == [run |-> r, id |-> i, status |-> "pending", stale |-> asked[i] # r, to |-> 0,
                   sent |-> "none", recording |-> {}]
<1>1. /\ Heard /\ r = RunOf(Head(events)) /\ Closes(r, rs) /\ Head(events).type = "approval"
      /\ approvals' = Append(approvals, row)
      /\ UNCHANGED <<proc, launch, acting, working, requests>>
  BY DEF ApprovalAsked
<1>2. r \in Created /\ runs[r].status # "none" /\ runs \in [RunIds -> RunRow]
  BY <1>1, HeardRun DEF RunsInv, RunTypes
<1>3. Gentle /\ runs' = rs
  BY <1>1, <1>2, ClosesGentle
<1>4. Becomes(r, runs', "waiting_approval", FALSE)
  BY <1>2, <1>3, RunForms DEF Statuses, Locked, Ongoing
<1>14. i \in RequestIds
  BY <1>1, RunOfCreated DEF Heard
<1>5. /\ row \in ApprovalRow /\ row.run = r /\ row.status = "pending" /\ row.recording = {}
      /\ row.id = i /\ (row.stale \/ asked[i] = r)
  BY <1>14 DEF ApprovalRow
<1> HIDE DEF rs, row, i
<1>6. /\ approvals' \in Seq(ApprovalRow) /\ DOMAIN approvals' = 1..(Len(approvals) + 1)
      /\ DOMAIN approvals = 1..Len(approvals) /\ Len(approvals) \in Nat
      /\ approvals'[Len(approvals) + 1] = row
      /\ \A a \in DOMAIN approvals : approvals'[a] = approvals[a]
  <2>1. approvals \in Seq(ApprovalRow)
    BY DEF RunsInv, RunTypes
  <2>2. /\ approvals' \in Seq(ApprovalRow) /\ Len(approvals') = Len(approvals) + 1
        /\ approvals'[Len(approvals) + 1] = row
        /\ \A a \in 1..Len(approvals) : approvals'[a] = approvals[a]
    BY <1>1, <1>5, <2>1
  <2> QED
    BY <2>1, <2>2, LenProperties
<1>7. \A a \in DOMAIN approvals' : a \in DOMAIN approvals \/ a = Len(approvals) + 1
  BY <1>6
<1>8. /\ events' \in Seq(Notice)
      /\ \A j \in DOMAIN events' : events'[j].run \in Created \cup {0}
  BY <1>1, RunOfCreated DEF Heard
<1>9. Created' = Created
  BY <1>2, <1>4 DEF Becomes, Created
<1>10. RunTypes' /\ RunRefs'
  BY <1>1, <1>2, <1>4, <1>6, <1>8, <1>9 DEF Becomes, RunsInv, RunTypes, RunRefs, requests
<1>11. \A s \in RunIds : runs'[s].open => runs'[s].status = "running"
  BY <1>4 DEF Becomes, RunsInv
<1>12. Answering'
  <2>1. \A a \in DOMAIN approvals : Answers(approvals[a], proc' = "up", asked', methods')
    BY <1>1 DEF RunsInv, Answering, Answers, requests
  <2>2. Answers(row, proc' = "up", asked', methods')
    BY <1>1, <1>5 DEF Answers, Decisions, requests
  <2> QED
    BY <1>6, <1>7, <2>1, <2>2 DEF Answering
<1>13. WaitsFor'
  <2> SUFFICES ASSUME proc' = "up", NEW s \in RunIds, runs'[s].status = "waiting_approval"
               PROVE  \E a \in DOMAIN approvals' :
                          approvals'[a].run = s /\ approvals'[a].status = "pending"
    BY DEF WaitsFor
  <2>1. CASE s = r
    BY <1>5, <1>6, <2>1
  <2>2. CASE s # r
    <3>1. runs[s].status = "waiting_approval" /\ proc = "up"
      BY <1>1, <1>4, <2>2 DEF Becomes
    <3>2. PICK a \in DOMAIN approvals : approvals[a].run = s /\ approvals[a].status = "pending"
      BY <3>1 DEF RunsInv, WaitsFor
    <3>3. a \in DOMAIN approvals' /\ approvals'[a] = approvals[a]
      BY <1>6
    <3> QED
      BY <3>2, <3>3
  <2> QED
    BY <2>1, <2>2
<1> QED
  BY <1>3, <1>10, <1>11, <1>12, <1>13 DEF RunsInv

-----------------------------------------------------------------------------
(* Decisions on approvals.                                                 *)

\* The approvals keep their runs; runs stays, or one run that waited goes on.
LEMMA ApprovalRows ==
    ASSUME approvals \in Seq(ApprovalRow), NEW a \in DOMAIN approvals, NEW row \in ApprovalRow,
           approvals' = [approvals EXCEPT ![a] = row]
    PROVE  /\ approvals' \in Seq(ApprovalRow) /\ DOMAIN approvals' = DOMAIN approvals
           /\ approvals'[a] = row
           /\ \A i \in DOMAIN approvals \ {a} : approvals'[i] = approvals[i]
<1>1. DOMAIN approvals = 1..Len(approvals)
  BY LenProperties
<1>2. approvals' \in Seq(ApprovalRow)
  BY <1>1, ExceptSeq
<1> QED
  BY <1>2

LEMMA AnswerRuns ==
    ASSUME RunsInv, WorkInv, NEW a \in DOMAIN approvals,
           NEW d \in {"approved", "rejected", "cancelled"}, AnswerApproval(a, d)
    PROVE  RunsInv' /\ Gentle
<1>1. approvals \in Seq(ApprovalRow) /\ approvals[a] \in ApprovalRow
  BY ApprovalRowOf
<1> DEFINE x == approvals[a]
           n == asked[x.id]
           row == [x EXCEPT !.to = n, !.sent = d, !.recording = x.recording \cup {d}]
<1>2. /\ proc = "up" /\ x.status = "pending" /\ x.id \in methods /\ methods' = methods \ {x.id}
      /\ \/ approvals' = [approvals EXCEPT ![a] = row]
         \/ approvals' = approvals
      /\ working' \subseteq working
      /\ Still /\ UNCHANGED <<proc, runs, launch, acting, asked, events>>
  BY DEF AnswerApproval
<1>3. x \in ApprovalRow /\ n \in RunIds \cup {0} /\ Answers(x, proc = "up", asked, methods)
  BY <1>1 DEF ApprovalRow, RunsInv, RunTypes, Answering
<1>4. /\ row \in ApprovalRow /\ row.status = x.status /\ row.run = x.run /\ row.id = x.id
      /\ row.stale = x.stale /\ row.sent = d /\ row.to = n /\ row.recording = x.recording \cup {d}
  BY <1>3 DEF ApprovalRow, Decisions
<1> HIDE DEF row
<1>5. /\ approvals' \in Seq(ApprovalRow) /\ DOMAIN approvals' = DOMAIN approvals
      /\ approvals'[a] \in {x, row}
      /\ \A i \in DOMAIN approvals \ {a} : approvals'[i] = approvals[i]
  <2>1. CASE approvals' = [approvals EXCEPT ![a] = row]
    BY <1>1, <1>4, <2>1, ApprovalRows
  <2>2. CASE approvals' = approvals
    BY <1>1, <2>2
  <2> QED
    BY <1>2, <2>1, <2>2
<1>6. Created' = Created
  BY <1>2 DEF Created
<1>7. RunTypes' /\ RunRefs'
  BY <1>2, <1>5, <1>6 DEF RunsInv, RunTypes, RunRefs
<1>8. \A r \in RunIds : runs'[r].open => runs'[r].status = "running"
  BY <1>2 DEF RunsInv
<1>9. Answering'
  <2>1. \A i \in DOMAIN approvals : Answers(approvals[i], proc' = "up", asked', methods')
    BY <1>2 DEF RunsInv, Answering, Answers
  <2>2. Answers(row, proc' = "up", asked', methods')
    <3>1. CASE x.stale
      BY <1>4, <3>1 DEF Answers
    <3>2. CASE ~x.stale
      <4>1. n = x.run /\ x.recording = {}
        BY <1>2, <1>3, <3>2 DEF Answers
      <4>2. \A e \in row.recording \cup ({row.status} \cap Decisions) :
                row.sent = e /\ row.to = row.run
        BY <1>2, <1>4, <4>1 DEF Decisions
      <4>3. asked'[row.id] = row.run /\ row.id \notin methods'
        BY <1>2, <1>4, <4>1
      <4> QED
        BY <4>2, <4>3 DEF Answers
    <3> QED
      BY <3>1, <3>2
  <2> HIDE DEF x
  <2> QED
    BY <1>5, <2>1, <2>2 DEF Answering, x
<1>10. WaitsFor'
  <2>1. \A i \in DOMAIN approvals :
            approvals'[i].run = approvals[i].run /\ approvals'[i].status = approvals[i].status
    BY <1>4, <1>5
  <2> QED
    BY <1>2, <1>5, <2>1 DEF RunsInv, WaitsFor
<1> QED
  BY <1>2, <1>7, <1>8, <1>9, <1>10, StillGentle DEF RunsInv

LEMMA RecordedRuns ==
    ASSUME RunsInv, WorkInv, NEW a \in DOMAIN approvals,
           NEW d \in {"approved", "rejected", "cancelled"}, DecisionRecorded(a, d)
    PROVE  RunsInv' /\ Gentle
<1>1. approvals \in Seq(ApprovalRow) /\ approvals[a] \in ApprovalRow
  BY ApprovalRowOf
<1> DEFINE r == approvals[a].run
           row == [approvals[a] EXCEPT !.status = d, !.recording = approvals[a].recording \ {d}]
<1>2. /\ d \in approvals[a].recording /\ approvals' = [approvals EXCEPT ![a] = row]
      /\ runs' = IF runs[r].status # "waiting_approval" THEN runs
                 ELSE IF d = "cancelled" THEN [runs EXCEPT ![r].status = "cancelled"]
                 ELSE Opened(r)
      /\ Still /\ UNCHANGED <<proc, launch, acting, working, requests, events>>
  BY DEF DecisionRecorded
<1>3. r \in RunIds /\ Answers(approvals[a], proc = "up", asked, methods)
  BY <1>1 DEF ApprovalRow, RunsInv, Answering
<1>4. /\ row \in ApprovalRow /\ row.status = d /\ row.run = r
      /\ row.recording = approvals[a].recording \ {d} /\ row.sent = approvals[a].sent
      /\ row.to = approvals[a].to /\ row.stale = approvals[a].stale
  BY <1>1 DEF ApprovalRow, Decisions
<1>15. Answers(row, proc' = "up", asked', methods')
  BY <1>2, <1>3, <1>4 DEF Answers
<1> HIDE DEF row, r
<1>5. /\ approvals' \in Seq(ApprovalRow) /\ DOMAIN approvals' = DOMAIN approvals
      /\ approvals'[a] = row
      /\ \A i \in DOMAIN approvals \ {a} : approvals'[i] = approvals[i]
  BY <1>1, <1>2, <1>4, ApprovalRows
<1>6. runs \in [RunIds -> RunRow]
  BY DEF RunsInv, RunTypes
<1>7. \/ runs' = runs /\ runs[r].status # "waiting_approval"
      \/ runs[r].status = "waiting_approval" /\ Becomes(r, runs', "cancelled", runs[r].open)
      \/ runs[r].status = "waiting_approval" /\ Becomes(r, runs', "running", TRUE)
  BY <1>2, <1>3, <1>6, RunForms
<1>8. runs[r].status = "waiting_approval" => ~runs[r].open
  BY <1>3, <1>6 DEF RunsInv, RunRow
<1>9. /\ runs' \in [RunIds -> RunRow] /\ \A s \in RunIds \ {r} : runs'[s] = runs[s]
      /\ runs'[r].task = runs[r].task
      /\ runs'[r].status = "none" <=> runs[r].status = "none"
      /\ runs'[r].open => runs'[r].status = "running"
      /\ runs'[r].status # "waiting_approval"
  BY <1>3, <1>6, <1>7, <1>8 DEF Becomes, RunsInv
<1>10. Created' = Created
  BY <1>3, <1>9 DEF Created
<1>11. RunTypes' /\ RunRefs'
  <2>1. RunTypes'
    BY <1>2, <1>5, <1>9, <1>10 DEF RunsInv, RunTypes, requests
  <2>2. RunRefs'
    BY <1>2, <1>3, <1>9, <1>10 DEF RunsInv, RunRefs
  <2> QED
    BY <2>1, <2>2
<1>12. \A s \in RunIds : runs'[s].open => runs'[s].status = "running"
  BY <1>9 DEF RunsInv
<1>13. Answering'
  <2>1. \A i \in DOMAIN approvals : Answers(approvals[i], proc' = "up", asked', methods')
    BY <1>2 DEF RunsInv, Answering, Answers, requests
  <2> QED
    BY <1>5, <1>15, <2>1 DEF Answering
<1>14. WaitsFor'
  <2> SUFFICES ASSUME proc' = "up", NEW s \in RunIds, runs'[s].status = "waiting_approval"
               PROVE  \E i \in DOMAIN approvals' :
                          approvals'[i].run = s /\ approvals'[i].status = "pending"
    BY DEF WaitsFor
  <2>1. s # r /\ runs[s].status = "waiting_approval" /\ proc = "up"
    BY <1>2, <1>9
  <2>2. PICK i \in DOMAIN approvals : approvals[i].run = s /\ approvals[i].status = "pending"
    BY <2>1 DEF RunsInv, WaitsFor
  <2>3. i # a
    BY <2>1, <2>2 DEF r
  <2> QED
    BY <1>5, <2>2, <2>3
<1> QED
  BY <1>2, <1>11, <1>12, <1>13, <1>14, StillGentle DEF RunsInv
-----------------------------------------------------------------------------
(* The app server exits; the backend goes down and starts.                 *)

\* The same approvals with what the adapter holds, or their state, changed.
LEMMA ApprovalsMapped ==
    ASSUME approvals \in Seq(ApprovalRow), DOMAIN approvals' = DOMAIN approvals,
           approvals' = [a \in DOMAIN approvals |-> approvals'[a]],
           \A a \in DOMAIN approvals : approvals'[a] \in ApprovalRow
    PROVE  approvals' \in Seq(ApprovalRow)
<1>1. DOMAIN approvals = 1..Len(approvals) /\ Len(approvals) \in Nat
  BY LenProperties
<1>2. approvals' \in [1..Len(approvals) -> ApprovalRow]
  BY <1>1
<1> QED
  BY <1>1, <1>2

LEMMA ExitRuns ==
    ASSUME RunsInv, WorkInv, ServerExits
    PROVE  RunsInv' /\ Gentle
<1> DEFINE e == [run |-> 0, type |-> "failed", id |-> 0]
           row(a) == IF approvals[a].status = "pending"
                     THEN [approvals[a] EXCEPT !.stale = TRUE] ELSE approvals[a]
<1>1. /\ working' = {} /\ events' = Append(events, e)
      /\ approvals' = [a \in DOMAIN approvals |-> row(a)]
      /\ asked' = [i \in RequestIds |-> 0]
      /\ Still /\ UNCHANGED <<proc, runs, launch, acting, methods>>
  BY DEF ServerExits
<1>2. approvals \in Seq(ApprovalRow)
  BY DEF RunsInv, RunTypes
<1>3. e \in Notice /\ e.run = 0
  BY DEF Notice, EventTypes, Reports
<1>4. ASSUME NEW a \in DOMAIN approvals
      PROVE  /\ row(a) \in ApprovalRow /\ row(a).run = approvals[a].run
             /\ row(a).status = approvals[a].status
             /\ row(a).stale \/ (row(a) = approvals[a] /\ approvals[a].status # "pending")
  <2>1. approvals[a] \in ApprovalRow
    BY ApprovalRowOf
  <2> DEFINE new == [approvals[a] EXCEPT !.stale = TRUE]
  <2>2. /\ new \in ApprovalRow /\ new.run = approvals[a].run
        /\ new.status = approvals[a].status /\ new.stale
    BY <2>1 DEF ApprovalRow
  <2>3. \/ approvals[a].status = "pending" /\ row(a) = new
        \/ approvals[a].status # "pending" /\ row(a) = approvals[a]
    OBVIOUS
  <2> HIDE DEF row, new
  <2> QED
    BY <2>1, <2>2, <2>3
<1> HIDE DEF e, row
<1>5. /\ DOMAIN approvals' = DOMAIN approvals
      /\ \A a \in DOMAIN approvals : approvals'[a] = row(a)
  BY <1>1
<1>6. approvals' \in Seq(ApprovalRow)
  BY <1>1, <1>2, <1>4, <1>5, ApprovalsMapped
<1>7. /\ events' \in Seq(Notice)
      /\ \A i \in DOMAIN events' : events'[i].run \in Created \cup {0}
  BY <1>1, <1>3, Told
<1>8. Created' = Created
  BY <1>1 DEF Created
<1>9. RunTypes' /\ RunRefs'
  BY <1>1, <1>6, <1>7, <1>8 DEF RunsInv, RunTypes, RunRefs
<1>10. \A r \in RunIds : runs'[r].open => runs'[r].status = "running"
  BY <1>1 DEF RunsInv
<1>11. Answering'
  <2>1. ASSUME NEW a \in DOMAIN approvals PROVE Answers(row(a), proc' = "up", asked', methods')
    BY <1>1, <1>4 DEF RunsInv, Answering, Answers
  <2> QED
    BY <1>5, <2>1 DEF Answering
<1>12. WaitsFor'
  BY <1>1, <1>4, <1>5 DEF RunsInv, WaitsFor
<1> QED
  BY <1>1, <1>9, <1>10, <1>11, <1>12, StillGentle DEF RunsInv

\* What is left of the runs, which the step may change, when the backend goes down.
LEMMA DownRuns ==
    ASSUME RunsInv, WorkInv, GoesDown, runs' \in [RunIds -> RunRow],
           \A r \in RunIds : /\ runs'[r].open => runs'[r].status = "running"
                             /\ runs'[r].status # "none" => runs'[r].task \in Keys
    PROVE  RunsInv'
<1> DEFINE row(a) == [approvals[a] EXCEPT !.recording = {}]
<1>1. /\ proc' = "down" /\ launch' = [r \in RunIds |-> "off"]
      /\ acting' = [r \in RunIds |-> {}] /\ working' = {} /\ events' = <<>>
      /\ methods' = {} /\ asked' = [i \in RequestIds |-> 0]
      /\ approvals' = [a \in DOMAIN approvals |-> row(a)]
  BY DEF GoesDown
<1>2. approvals \in Seq(ApprovalRow)
  BY DEF RunsInv, RunTypes
<1>3. ASSUME NEW a \in DOMAIN approvals
      PROVE  /\ row(a) \in ApprovalRow /\ row(a).run = approvals[a].run
             /\ row(a).status = approvals[a].status /\ row(a).sent = approvals[a].sent
             /\ row(a).to = approvals[a].to /\ row(a).stale = approvals[a].stale
             /\ row(a).recording = {}
  <2>1. approvals[a] \in ApprovalRow
    BY ApprovalRowOf
  <2> QED
    BY <2>1 DEF ApprovalRow
<1> HIDE DEF row
<1>4. /\ DOMAIN approvals' = DOMAIN approvals
      /\ \A a \in DOMAIN approvals : approvals'[a] = row(a)
  BY <1>1
<1>5. approvals' \in Seq(ApprovalRow)
  BY <1>1, <1>2, <1>3, <1>4, ApprovalsMapped
<1>6. events' \in Seq(Notice) /\ DOMAIN events' = {}
  <2>1. events' \in Seq(Notice) /\ Len(events') = 0
    BY <1>1, EmptySeq
  <2>2. DOMAIN events' = 1..0
    BY <2>1, LenProperties
  <2> QED
    BY <2>1, <2>2
<1>7. RunTypes'
  BY <1>1, <1>5, <1>6 DEF RunTypes
<1>8. RunRefs'
  BY <1>1, <1>6 DEF RunRefs
<1>9. (\A r \in RunIds : runs'[r].open => runs'[r].status = "running") /\ WaitsFor'
  BY <1>1 DEF WaitsFor
<1>10. Answering'
  <2>1. ASSUME NEW a \in DOMAIN approvals PROVE Answers(row(a), proc' = "up", asked', methods')
    BY <1>1, <1>3 DEF RunsInv, Answering, Answers
  <2> QED
    BY <1>4, <2>1 DEF Answering
<1> QED
  BY <1>7, <1>8, <1>9, <1>10 DEF RunsInv

LEMMA CrashRuns ==
    ASSUME RunsInv, WorkInv, Crash
    PROVE  RunsInv' /\ Gentle
<1>1. RunsInv'
  BY DownRuns DEF Crash, RunsInv, RunTypes, RunRefs
<1>2. Gentle
  <2>1. GentleRest
    BY DEF Crash, GoesDown, GentleRest, WorkInv, WorkTypes
  <2> QED
    BY <2>1, SameTasks, SamePoints DEF Crash, Gentle, WorkInv, WorkTypes
<1> QED
  BY <1>1, <1>2

LEMMA CrashCompletingRuns ==
    ASSUME RunsInv, WorkInv, RunsKnow, NEW r \in RunIds, NEW commits \in {1, 2},
           CrashCompleting(r, commits)
    PROVE  /\ RunsInv' /\ Gentle
           /\ \E status \in {"completed", "running"} : Becomes(r, runs', status, FALSE)
<1>1. /\ GoesDown /\ Heads(r) /\ CanClose(r) /\ SavedBy(r)
      /\ \/ /\ runs' = [Closed(r, "completed") EXCEPT ![r].turn = TRUE]
            /\ tasks' = TimedBy(r) /\ UNCHANGED points
         \/ /\ runs' = [Closed(r, "running") EXCEPT ![r].turn = TRUE]
            /\ Implemented(r)
  BY DEF CrashCompleting, Heads
<1>2. r \in Created /\ runs[r].status # "none" /\ runs \in [RunIds -> RunRow]
  BY <1>1, HeadRun DEF RunsInv, RunTypes
<1>3. \E status \in {"completed", "running"} : Becomes(r, runs', status, FALSE)
  <2>1. "completed" \in Statuses /\ "running" \in Statuses
    BY DEF Statuses, Locked, Ongoing
  <2>2. \A s \in Statuses : Becomes(r, [Closed(r, s) EXCEPT ![r].turn = TRUE], s, FALSE)
    BY <1>2, RunForms
  <2>3. PICK s \in {"completed", "running"} : runs' = [Closed(r, s) EXCEPT ![r].turn = TRUE]
    BY <1>1
  <2>4. Becomes(r, runs', s, FALSE)
    BY <2>1, <2>2, <2>3
  <2> QED
    BY <2>4
<1>4. /\ runs' \in [RunIds -> RunRow]
      /\ \A s \in RunIds : /\ runs'[s].open => runs'[s].status = "running"
                           /\ runs'[s].status # "none" => runs'[s].task \in Keys
  BY <1>2, <1>3 DEF Becomes, RunsInv, RunRefs
<1>5. RunsInv'
  BY <1>1, <1>4, DownRuns
<1>6. GentleTasks /\ GentlePoints
  BY <1>1, <1>2, TimedGentle, SamePoints, ImplementedGentle DEF WorkInv, WorkTypes
<1>7. GentleRest
  BY <1>1 DEF GoesDown, SavedBy, Saved, GentleRest, WorkInv, WorkTypes
<1> QED
  BY <1>3, <1>5, <1>6, <1>7 DEF Gentle

LEMMA RaisesRuns ==
    ASSUME RunsInv, WorkInv, StartRaises
    PROVE  RunsInv' /\ Gentle
<1>1. /\ proc' = "failed" /\ Still
      /\ UNCHANGED <<runs, launch, acting, working, requests, approvals, events>>
  BY DEF StartRaises
<1>2. Created' = Created
  BY <1>1 DEF Created
<1>3. RunTypes' /\ RunRefs'
  BY <1>1, <1>2 DEF RunsInv, RunTypes, RunRefs, requests
<1>4. (\A r \in RunIds : runs'[r].open => runs'[r].status = "running") /\ WaitsFor' /\ Answering'
  BY <1>1 DEF RunsInv, WaitsFor, Answering, Answers
<1> QED
  BY <1>1, <1>3, <1>4, StillGentle DEF RunsInv

LEMMA StartRuns ==
    ASSUME RunsInv, WorkInv, Start
    PROVE  RunsInv' /\ Gentle
<1> DEFINE row(a) == IF approvals[a].status = "pending"
                     THEN [approvals[a] EXCEPT !.status = "expired"] ELSE approvals[a]
           hours(k) == tasks[k].hours
                         + Cardinality({r \in Interrupted : runs[r].open /\ runs[r].task = k})
<1>1. /\ \A r \in Interrupted : CanClose(r)
      /\ proc' = "up"
      /\ runs' = [r \in RunIds |-> IF r \in Interrupted THEN Closed(r, "paused")[r] ELSE runs[r]]
      /\ tasks' = [k \in Keys |-> [tasks[k] EXCEPT !.hours = hours(k)]]
      /\ current' = {} \/ current' = current
      /\ approvals' = [a \in DOMAIN approvals |-> row(a)]
      /\ UNCHANGED <<deliveryRest, points, launch, acting, working, requests, events>>
  BY DEF Start, Saved
<1>2. approvals \in Seq(ApprovalRow) /\ runs \in [RunIds -> RunRow] /\ tasks \in [Keys -> TaskRow]
  BY DEF RunsInv, RunTypes, WorkInv, WorkTypes
<1>3. ASSUME NEW a \in DOMAIN approvals
      PROVE  /\ row(a) \in ApprovalRow /\ row(a).sent = approvals[a].sent
             /\ row(a).to = approvals[a].to /\ row(a).run = approvals[a].run
             /\ row(a).stale = approvals[a].stale /\ row(a).recording = approvals[a].recording
             /\ row(a).status # "pending"
             /\ row(a).status \in Decisions => row(a).status = approvals[a].status
  <2>1. approvals[a] \in ApprovalRow
    BY ApprovalRowOf
  <2> DEFINE new == [approvals[a] EXCEPT !.status = "expired"]
  <2>2. /\ new \in ApprovalRow /\ new.sent = approvals[a].sent /\ new.to = approvals[a].to
        /\ new.run = approvals[a].run /\ new.stale = approvals[a].stale
        /\ new.recording = approvals[a].recording /\ new.status = "expired"
    BY <2>1 DEF ApprovalRow, Decisions
  <2>4. "expired" \notin Decisions
    BY DEF Decisions
  <2>3. row(a) = new \/ (row(a) = approvals[a] /\ approvals[a].status # "pending")
    OBVIOUS
  <2> HIDE DEF row, new
  <2> QED
    BY <2>1, <2>2, <2>3, <2>4
<1> HIDE DEF row
<1>4. /\ DOMAIN approvals' = DOMAIN approvals
      /\ \A a \in DOMAIN approvals : approvals'[a] = row(a)
  BY <1>1
<1>5. approvals' \in Seq(ApprovalRow)
  BY <1>1, <1>2, <1>3, <1>4, ApprovalsMapped
<1>6. ASSUME NEW r \in RunIds
      PROVE  /\ r \in Interrupted => Becomes(r, Closed(r, "paused"), "paused", FALSE)
             /\ runs'[r] \in RunRow /\ runs'[r].task = runs[r].task
             /\ runs'[r].status = "none" <=> runs[r].status = "none"
             /\ ~runs'[r].open
             /\ runs'[r].status # "waiting_approval"
  <2>1. Becomes(r, Closed(r, "paused"), "paused", FALSE)
    BY <1>2, RunForms DEF Statuses, Locked
  <2>2. CASE r \in Interrupted
    <3>1. runs'[r] = Closed(r, "paused")[r]
      BY <1>1, <2>2
    <3>2. runs[r].status # "none"
      BY <2>2 DEF Interrupted, Created
    <3> QED
      BY <2>1, <3>1, <3>2 DEF Becomes
  <2>3. CASE r \notin Interrupted
    <3>1. runs'[r] = runs[r]
      BY <1>1, <2>3
    <3>2. runs[r].status \notin Locked
      BY <2>3 DEF Interrupted, Created, Locked, Ongoing
    <3>3. runs[r].status # "running" /\ runs[r].status # "waiting_approval"
      BY <3>2 DEF Locked, Ongoing
    <3>4. ~runs[r].open
      BY <3>3 DEF RunsInv
    <3> QED
      BY <1>2, <2>3, <3>1, <3>3, <3>4
  <2> QED
    BY <2>1, <2>2, <2>3
<1>7. runs' \in [RunIds -> RunRow]
  <2>1. runs' = [r \in RunIds |-> runs'[r]]
    BY <1>1
  <2> QED
    BY <1>6, <2>1
<1>8. Created' = Created
  BY <1>6 DEF Created
<1>9. RunTypes' /\ RunRefs'
  <2>1. RunTypes'
    BY <1>1, <1>5, <1>7, <1>8 DEF RunsInv, RunTypes, requests
  <2>2. RunRefs'
    BY <1>1, <1>6, <1>8 DEF RunsInv, RunRefs
  <2> QED
    BY <2>1, <2>2
<1>10. (\A r \in RunIds : runs'[r].open => runs'[r].status = "running") /\ WaitsFor'
  BY <1>6 DEF WaitsFor
<1>11. Answering'
  <2>1. ASSUME NEW a \in DOMAIN approvals PROVE Answers(row(a), proc' = "up", asked', methods')
    BY <1>3 DEF RunsInv, Answering, Answers
  <2> QED
    BY <1>4, <2>1 DEF Answering
<1>12. GentleTasks
  <2>1. ASSUME NEW k \in Keys
        PROVE  /\ hours(k) \in Nat
               /\ tasks[k].row = "none" => hours(k) = tasks[k].hours
    <3> DEFINE S == {r \in Interrupted : runs[r].open /\ runs[r].task = k}
    <3>1. S \in SUBSET RunIds /\ IsFiniteSet(RunIds)
      BY RunAssumption DEF Interrupted, Created
    <3>2. IsFiniteSet(S) /\ Cardinality(S) \in Nat
      BY <3>1, FS_Subset, FS_CardinalityType
    <3>3. tasks[k].row = "none" => S = {}
      <4>1. \A r \in S : tasks[k].listed
        BY <1>1 DEF CanClose
      <4>2. tasks[k].row = "none" => ~tasks[k].listed
        BY DEF WorkInv, Blank, NoTask
      <4> QED
        BY <4>1, <4>2
    <3>4. S = {} => Cardinality(S) = 0
      BY FS_EmptySet
    <3>5. tasks[k].hours \in Nat
      BY <1>2, TaskRows
    <3>6. hours(k) = tasks[k].hours + Cardinality(S)
      OBVIOUS
    <3> HIDE DEF S, hours
    <3> QED
      BY <3>2, <3>3, <3>4, <3>5, <3>6
  <2> HIDE DEF hours
  <2>2. ASSUME NEW k \in Keys
        PROVE  /\ tasks'[k] \in TaskRow /\ tasks'[k].row = tasks[k].row
               /\ tasks'[k].staged = tasks[k].staged /\ tasks'[k].listed = tasks[k].listed
               /\ tasks[k].row = "none" => tasks'[k] = tasks[k]
    <3>1. tasks'[k] = [tasks[k] EXCEPT !.hours = hours(k)] /\ tasks[k] \in TaskRow
      BY <1>1, <1>2
    <3>2. [tasks[k] EXCEPT !.hours = tasks[k].hours] = tasks[k]
      BY <3>1 DEF TaskRow
    <3>3. /\ tasks'[k].row = tasks[k].row /\ tasks'[k].staged = tasks[k].staged
          /\ tasks'[k].listed = tasks[k].listed
      BY <3>1 DEF TaskRow
    <3>4. tasks'[k] \in TaskRow
      <4>1. \A h \in Nat : [tasks[k] EXCEPT !.hours = h] \in TaskRow
        BY <3>1 DEF TaskRow
      <4> QED
        BY <2>1, <3>1, <4>1
    <3>5. tasks[k].row = "none" => tasks'[k] = tasks[k]
      BY <2>1, <3>1, <3>2
    <3> QED
      BY <3>3, <3>4, <3>5
  <2>3. tasks' = [k \in Keys |-> tasks'[k]]
    BY <1>1
  <2>4. tasks' \in [Keys -> TaskRow]
    BY <2>2, <2>3
  <2> QED
    BY <2>2, <2>4 DEF GentleTasks
<1>13. GentleRest /\ GentlePoints
  BY <1>1, RestStays, SamePoints DEF WorkInv, WorkTypes
<1> QED
  BY <1>9, <1>10, <1>11, <1>12, <1>13, <1>7 DEF RunsInv, Gentle
-----------------------------------------------------------------------------
(* All steps.                                                              *)

LEMMA RunStepKeeps ==
    ASSUME RunsInv, WorkInv, RunsKnow, RunStep
    PROVE  RunsInv' /\ Gentle
<1>1. ASSUME NEW r \in RunIds, Launching(r) \/ UserActs(r) \/ Answered(r)
      PROVE  RunsInv' /\ Gentle
  <2>1. CASE Launching(r)
    BY <2>1, LaunchRuns
  <2>2. CASE UserActs(r)
    <3>1. CASE \E k \in Keys : Create(r, k)
      BY <3>1, CreateRuns
    <3>2. CASE \E op \in {"pause", "cancel"} : StopAtOnce(r, op)
      BY <3>2, StopRuns
    <3>3. CASE \E op \in {"pause", "cancel", "resume"} : Ask(r, op)
      BY <3>3, AskRuns
    <3> QED
      BY <2>2, <3>1, <3>2, <3>3 DEF UserActs
  <2>3. CASE Answered(r)
    <3>1. CASE \E op \in {"pause", "cancel"} : StopAnswered(r, op)
      BY <3>1, StopRuns
    <3>2. CASE TurnResumes(r) \/ \E op \in {"pause", "cancel", "resume", "resumed"} : RequestFails(r, op)
      BY <3>2, AskRuns
    <3>3. CASE ResumeAnswered(r)
      BY <3>3, ResumeRuns
    <3> QED
      BY <2>3, <3>1, <3>2, <3>3 DEF Answered
  <2> QED
    BY <1>1, <2>1, <2>2, <2>3
<1>2. CASE \E r \in RunIds, type \in setup.says : Notify(r, type)
  BY <1>2, NotifyRuns
<1>6. CASE \E r \in RunIds, i \in setup.ids : RequestApproval(r, i)
  BY <1>6, RequestRuns
<1>7. CASE \E r \in RunIds, commits \in {1, 2} : CrashCompleting(r, commits)
  BY <1>7, CrashCompletingRuns
<1>3. CASE Consume
  <2>1. CASE Ignored \/ ConsumerDies
    BY <2>1, QuietRuns
  <2>2. ASSUME NEW r \in RunIds,
               \/ \E type \in {"task_started", "test_passed", "test_failed"} : Progressed(r, type)
               \/ ApprovalAsked(r) \/ RunFailed(r) \/ RunCompleted(r)
        PROVE  RunsInv' /\ Gentle
    BY <2>2, ProgressedRuns, ApprovalRuns, FailedRuns, CompletedRuns
  <2> QED
    BY <1>3, <2>1, <2>2 DEF Consume
<1>4. CASE Approving
  BY <1>4, AnswerRuns, RecordedRuns DEF Approving
<1>5. CASE ServerExits \/ Crash \/ Start \/ StartRaises
  BY <1>5, ExitRuns, CrashRuns, StartRuns, RaisesRuns
<1> QED
  BY <1>1, <1>2, <1>3, <1>4, <1>5, <1>6, <1>7 DEF RunStep

LEMMA DeliveryStepKeeps ==
    ASSUME WorkInv, NEW b \in setup.tabs, Planning(b) \/ Delivering(b)
    PROVE  WorkInv' /\ Stands
<1>1. b \in Browsers
  BY SetupFacts DEF WorkInv, WorkTypes
<1>2. ASSUME Gentle PROVE WorkInv' /\ Stands
  BY <1>2, GentleKeeps, GentleStands
<1>3. CASE Planning(b)
  <2>1. CASE Import(b)
    BY <1>1, <1>2, <2>1, ImportGentle
  <2>2. CASE \E c \in 1..setup.cases, keys \in SUBSET Keys, est \in setup.estimates :
               keys # {} /\ Generate(c, keys, est)
    BY <2>2, GenerateKeeps
  <2>3. CASE \E p \in DOMAIN plans : \/ \E keys \in SUBSET Keys : UpdateDraft(p, keys)
                                     \/ ConfirmPlan(b, p)
    BY <1>1, <2>3, UpdateDraftKeeps, ConfirmPlanKeeps
  <2> QED
    BY <1>3, <2>1, <2>2, <2>3 DEF Planning
<1>4. CASE Delivering(b)
  <2>1. CASE CreatePreview(b)
    BY <1>1, <2>1, CreatePreviewKeeps
  <2>2. CASE \E keys \in SUBSET Keys : ConfirmDraft(b, keys)
    BY <1>1, <2>2, ConfirmDraftKeeps
  <2>3. CASE ExpirePreview
    BY <1>2, <2>3, ExpireGentle
  <2>4. ASSUME NEW k \in Keys,
               \/ \E est \in setup.estimates, done \in BOOLEAN : EditTask(b, k, est, done)
               \/ DropTask(b, k)
               \/ \E type \in {"task_started", "task_implemented", "test_passed", "test_failed"} :
                     Reported(k, type)
               \/ RunTest(b, k)
               \/ \E passed \in BOOLEAN : TestEnds(k, passed)
               \/ AddTime(b, k)
               \/ AdjustTime(b, k)
        PROVE  Gentle
    BY <1>1, <2>4, EditGentle, DropGentle, ReportedGentle, TestGentle, TimeGentle
  <2>5. ASSUME NEW k \in Keys,
               \E status \in {"pending", "failed"} \cup Human, counts \in BOOLEAN :
                   Decide(b, k, status, counts)
        PROVE  WorkInv' /\ Stands
    BY <1>1, <2>5, DecideKeeps
  <2> QED
    BY <1>2, <1>4, <2>1, <2>2, <2>3, <2>4, <2>5 DEF Delivering
<1> QED
  BY <1>3, <1>4

\* A row that a run works on stays, and a run keeps its task.
LEMMA RowsStay ==
    ASSUME WorkInv, NEW b \in setup.tabs, Planning(b) \/ Delivering(b)
    PROVE  \A k \in Keys : tasks[k].row # "none" => tasks'[k].row # "none"
<1>1. b \in Browsers
  BY SetupFacts DEF WorkInv, WorkTypes
<1> SUFFICES ASSUME NEW k \in Keys, tasks[k].row # "none"
             PROVE  tasks'[k].row # "none"
  OBVIOUS
<1>2. ASSUME Gentle PROVE tasks'[k].row # "none"
  BY <1>2 DEF Gentle, GentleTasks
<1>3. ASSUME UNCHANGED tasks PROVE tasks'[k].row # "none"
  BY <1>3
<1>4. tasks \in [Keys -> TaskRow] /\ tasks[k] \in TaskRow
  BY DEF WorkInv, WorkTypes
<1>5. CASE Planning(b)
  <2>1. CASE UNCHANGED tasks
    BY <1>3, <2>1
  <2>2. ASSUME NEW p \in DOMAIN plans, ConfirmPlan(b, p)
        PROVE  tasks'[k].row # "none"
    <3>1. tasks'[k] = PlannedTask(p, k)
      BY <2>2 DEF ConfirmPlan
    <3>2. CASE k \in plans[p].keys
      BY <3>1, <3>2, PlannedRows
    <3>3. CASE k \notin plans[p].keys
      <4>1. \E l \in BOOLEAN : tasks'[k] = [tasks[k] EXCEPT !.row = "retired", !.listed = l]
        BY <3>1, <3>3 DEF PlannedTask
      <4> QED
        BY <1>4, <4>1 DEF TaskRow
    <3> QED
      BY <3>2, <3>3
  <2> QED
    BY <1>5, <2>1, <2>2 DEF Planning, Import, Generate, UpdateDraft
<1>6. CASE Delivering(b)
  <2>1. CASE UNCHANGED tasks
    BY <1>3, <2>1
  <2>2. ASSUME NEW keys \in SUBSET Keys, ConfirmDraft(b, keys)
        PROVE  tasks'[k].row # "none"
    <3>1. tasks'[k] = tasks[k] \/ tasks'[k] = [tasks[k] EXCEPT !.est = version]
      BY <2>2 DEF ConfirmDraft
    <3>2. [tasks[k] EXCEPT !.est = version].row = tasks[k].row
      BY <1>4 DEF TaskRow
    <3> QED
      BY <3>1, <3>2
  <2>3. ASSUME NEW j \in Keys,
               \/ \E est \in setup.estimates, done \in BOOLEAN : EditTask(b, j, est, done)
               \/ DropTask(b, j)
               \/ \E type \in {"task_started", "task_implemented", "test_passed", "test_failed"} :
                     Reported(j, type)
               \/ RunTest(b, j)
               \/ \E passed \in BOOLEAN : TestEnds(j, passed)
               \/ AddTime(b, j)
               \/ AdjustTime(b, j)
        PROVE  Gentle
    BY <1>1, <2>3, EditGentle, DropGentle, ReportedGentle, TestGentle, TimeGentle
  <2> QED
    BY <1>2, <1>6, <2>1, <2>2, <2>3 DEF Delivering, CreatePreview, ExpirePreview, Decide
<1> QED
  BY <1>5, <1>6

LEMMA KnownTasks ==
    ASSUME RunsInv, RunsKnow, \A k \in Keys : tasks[k].row # "none" => tasks'[k].row # "none",
           \A r \in RunIds : runs[r].status # "none" => runs'[r].task = runs[r].task,
           \A r \in RunIds : runs[r].status = "none" /\ runs'[r].status # "none" =>
               runs'[r].task \in Keys /\ tasks[runs'[r].task].row # "none"
    PROVE  RunsKnow'
BY DEF RunsKnow, RunsInv, RunRefs
\* A run keeps its task, and begins with one that has a row.
RunsKeepTasks ==
    \A r \in RunIds :
        /\ runs[r].status # "none" => runs'[r].task = runs[r].task
        /\ runs[r].status = "none" /\ runs'[r].status # "none" =>
              runs'[r].task \in Keys /\ tasks[runs'[r].task].row # "none"

\* Only the row of run r is another one, and of the same task.
Follows(r, rs) == (\A s \in RunIds \ {r} : rs[s] = runs[s]) /\ rs[r].task = runs[r].task

LEMMA OneKeeps ==
    ASSUME NEW r \in RunIds, Follows(r, runs'), runs[r].status # "none"
    PROVE  RunsKeepTasks
BY DEF Follows, RunsKeepTasks

LEMMA Followed ==
    ASSUME runs \in [RunIds -> RunRow], NEW r \in RunIds
    PROVE  /\ \A s \in Statuses :
                 /\ Follows(r, Closed(r, s))
                 /\ Follows(r, [Closed(r, s) EXCEPT ![r].turn = TRUE])
           /\ Follows(r, Opened(r))
           /\ Follows(r, [Opened(r) EXCEPT ![r].thread = TRUE])
           /\ Follows(r, [Opened(r) EXCEPT ![r].turn = TRUE])
           /\ Follows(r, [runs EXCEPT ![r].turn = TRUE])
           /\ Follows(r, [runs EXCEPT ![r].status = "running", ![r].turn = TRUE])
           /\ Follows(r, [runs EXCEPT ![r].status = "cancelled"])
<1>1. ASSUME NEW rs, NEW status, NEW open, Becomes(r, rs, status, open)
      PROVE  Follows(r, rs)
  BY <1>1 DEF Becomes, Follows
<1>2. \A s \in Statuses :
          /\ Follows(r, Closed(r, s))
          /\ Follows(r, [Closed(r, s) EXCEPT ![r].turn = TRUE])
  BY <1>1, RunForms, Zenon
<1>3. /\ Follows(r, Opened(r))
      /\ Follows(r, [Opened(r) EXCEPT ![r].thread = TRUE])
      /\ Follows(r, [Opened(r) EXCEPT ![r].turn = TRUE])
  BY <1>1, RunForms, Zenon
<1>4. /\ Follows(r, [runs EXCEPT ![r].turn = TRUE])
      /\ Follows(r, [runs EXCEPT ![r].status = "running", ![r].turn = TRUE])
      /\ Follows(r, [runs EXCEPT ![r].status = "cancelled"])
  BY <1>1, RunForms, Zenon
<1> QED
  BY <1>2, <1>3, <1>4

LEMMA TasksOfRuns ==
    ASSUME RunsInv, WorkInv, RunsKnow, RunStep
    PROVE  RunsKeepTasks
<1>1. runs \in [RunIds -> RunRow]
  BY DEF RunsInv, RunTypes
<1>2. ASSUME UNCHANGED runs PROVE RunsKeepTasks
  BY <1>2 DEF RunsKeepTasks
<1>3. ASSUME NEW r \in RunIds, Launching(r) \/ Answered(r) \/ \E op \in {"pause", "cancel"} : StopAtOnce(r, op)
      PROVE  RunsKeepTasks
  <2>1. CASE UNCHANGED runs
    BY <1>2, <2>1
  <2>2. CASE ~UNCHANGED runs
    <3>1. runs[r].status # "none"
      <4>1. launch[r] # "off" \/ acting[r] # {} \/ runs[r].status \in Ongoing
        BY <1>3, <2>2 DEF Launching, ThreadCreated, TurnBegins, TurnRecorded, LaunchFails, Answered,
                          StopAnswered, TurnResumes, ResumeAnswered, RequestFails, StopAtOnce
      <4> QED
        BY <4>1 DEF RunsInv, RunRefs, Ongoing
    <3>2. \/ \E op \in {"pause", "cancel"} : runs' = Closed(r, Stopped(op))
          \/ runs' = Closed(r, "failed")
          \/ runs' = [Opened(r) EXCEPT ![r].thread = TRUE]
          \/ runs' = [runs EXCEPT ![r].turn = TRUE]
          \/ runs' = [Opened(r) EXCEPT ![r].turn = TRUE]
      BY <1>3, <2>2 DEF Launching, ThreadCreated, TurnBegins, TurnRecorded, LaunchFails, Answered,
                        StopAnswered, TurnResumes, ResumeAnswered, RequestFails, StopAtOnce, Closes
    <3>3. \A op \in {"pause", "cancel"} : Stopped(op) \in Statuses
      BY DEF Stopped, Statuses, Locked
    <3>4. "failed" \in Statuses
      BY DEF Statuses
    <3>5. Follows(r, runs')
      BY <1>1, <3>2, <3>3, <3>4, Followed, Zenon
    <3> QED
      BY <3>1, <3>5, OneKeeps
  <2> QED
    BY <2>1, <2>2
<1>4. ASSUME NEW r \in RunIds, NEW k \in Keys, Create(r, k)
      PROVE  RunsKeepTasks
  <2> DEFINE row == [NoRun EXCEPT !.task = k, !.status = "starting"]
  <2>1. row.task = k
    BY DEF NoRun
  <2>2. runs' = [runs EXCEPT ![r] = row] /\ runs[r].status = "none" /\ tasks[k].row # "none"
    BY <1>4 DEF Create, Created
  <2> HIDE DEF row
  <2>3. runs'[r].task = k /\ \A s \in RunIds \ {r} : runs'[s] = runs[s]
    BY <1>1, <2>1, <2>2
  <2> QED
    BY <2>2, <2>3 DEF RunsKeepTasks
<1>5. ASSUME NEW r \in RunIds, Heard, r = RunOf(Head(events)),
             \/ \E type \in {"task_started", "test_passed", "test_failed"} : Progressed(r, type)
             \/ ApprovalAsked(r) \/ RunFailed(r) \/ RunCompleted(r)
      PROVE  RunsKeepTasks
  <2>1. runs[r].status # "none"
    BY <1>5, HeardRun
  <2>2. \/ runs' = [runs EXCEPT ![r].status = "running", ![r].turn = TRUE]
        \/ runs' = [Closed(r, "waiting_approval") EXCEPT ![r].turn = TRUE]
        \/ runs' = Closed(r, "failed")
        \/ runs' = [Closed(r, "completed") EXCEPT ![r].turn = TRUE]
    BY <1>5 DEF Progressed, ApprovalAsked, RunFailed, RunCompleted, Closes
  <2>3. "waiting_approval" \in Statuses /\ "failed" \in Statuses /\ "completed" \in Statuses
    BY DEF Statuses, Locked, Ongoing
  <2>4. Follows(r, runs')
    BY <1>1, <2>2, <2>3, Followed, Zenon
  <2> QED
    BY <2>1, <2>4, OneKeeps
<1>6. CASE Consume
  <2>1. Ignored \/ ConsumerDies => UNCHANGED runs
    BY DEF Ignored, ConsumerDies
  <2>2. ASSUME NEW r \in RunIds,
               \/ \E type \in {"task_started", "test_passed", "test_failed"} : Progressed(r, type)
               \/ ApprovalAsked(r) \/ RunFailed(r) \/ RunCompleted(r)
        PROVE  RunsKeepTasks
    <3>1. Heard /\ r = RunOf(Head(events))
      BY <2>2 DEF Progressed, ApprovalAsked, RunFailed, RunCompleted
    <3> QED
      BY <1>5, <2>2, <3>1
  <2> QED
    BY <1>2, <1>6, <2>1, <2>2 DEF Consume
<1>7. CASE Approving
  <2>1. PICK a \in DOMAIN approvals, d \in {"approved", "rejected", "cancelled"} :
            AnswerApproval(a, d) \/ DecisionRecorded(a, d)
    BY <1>7 DEF Approving
  <2>2. CASE UNCHANGED runs
    BY <1>2, <2>2
  <2>3. CASE ~UNCHANGED runs
    <3> DEFINE r == approvals[a].run
    <3>1. DecisionRecorded(a, d)
      BY <2>1, <2>3 DEF AnswerApproval, Still
    <3>2. /\ runs[r].status = "waiting_approval"
          /\ runs' = [runs EXCEPT ![r].status = "cancelled"] \/ runs' = Opened(r)
      BY <2>3, <3>1 DEF DecisionRecorded
    <3>3. r \in RunIds
      BY ApprovalRowOf DEF ApprovalRow
    <3> HIDE DEF r
    <3>4. Follows(r, runs')
      BY <1>1, <3>2, <3>3, Followed, Zenon
    <3> QED
      BY <3>2, <3>3, <3>4, OneKeeps
  <2> QED
    BY <2>2, <2>3
<1>8. CASE Start
  <2>1. ASSUME NEW r \in RunIds
        PROVE  /\ runs'[r].task = runs[r].task
               /\ runs[r].status = "none" => runs'[r] = runs[r]
    <3>1. runs'[r] = IF r \in Interrupted THEN Closed(r, "paused")[r] ELSE runs[r]
      BY <1>8 DEF Start
    <3>2. Becomes(r, Closed(r, "paused"), "paused", FALSE)
      BY <1>1, RunForms DEF Statuses, Locked
    <3>3. runs[r].status = "none" => r \notin Interrupted
      BY DEF Interrupted, Created
    <3> QED
      BY <3>1, <3>2, <3>3 DEF Becomes
  <2> QED
    BY <2>1 DEF RunsKeepTasks
<1>9. /\ \A r \in RunIds, op \in {"pause", "cancel", "resume"} : Ask(r, op) => UNCHANGED runs
      /\ \A r \in RunIds, type \in setup.says : Notify(r, type) => UNCHANGED runs
      /\ \A r \in RunIds, n \in setup.ids : RequestApproval(r, n) => UNCHANGED runs
      /\ ServerExits \/ Crash \/ StartRaises => UNCHANGED runs
  BY DEF Ask, Notify, RequestApproval, ServerExits, Crash, StartRaises
<1>10. ASSUME NEW r \in RunIds, NEW commits \in {1, 2}, CrashCompleting(r, commits)
       PROVE  RunsKeepTasks
  <2>1. PICK status : Becomes(r, runs', status, FALSE)
    BY <1>10, CrashCompletingRuns
  <2>2. runs[r].status # "none"
    BY <1>10, HeadRun DEF CrashCompleting, Heads
  <2>3. Follows(r, runs')
    BY <2>1 DEF Becomes, Follows
  <2> QED
    BY <2>2, <2>3, OneKeeps
<1> QED
  BY <1>2, <1>3, <1>4, <1>6, <1>7, <1>8, <1>9, <1>10 DEF RunStep, UserActs

DeliveryInv == RunsInv /\ WorkInv /\ RunsKnow

LEMMA DeliveryStarts ==
    ASSUME Init
    PROVE  DeliveryInv
<1>1. setup \in Setups /\ current = {}
  BY DEF Init, LedgerInit
<1>2. setup.planned \in SUBSET Keys /\ 1 \in 1..setup.cases
  BY <1>1, SetupFacts
<1>3. RunsInv
  <2>1. NoRun \in RunRow /\ NoRun.status = "none" /\ ~NoRun.open
    BY DEF NoRun, RunRow
  <2>2. RunTypes
    BY <2>1, EmptySeq DEF Init, RunInit, RunTypes
  <2>3. DOMAIN events = {} /\ DOMAIN approvals = {}
    BY DEF Init, RunInit
  <2> QED
    BY <2>1, <2>2, <2>3 DEF Init, RunInit, RunsInv, RunRefs, Answering, WaitsFor
<1> DEFINE planned == setup.planned
           first == [case |-> 1, status |-> "confirmed", at |-> 1, version |-> 1, keys |-> planned,
                    est |-> 1]
           task == [NoTask EXCEPT !.row = "active", !.est = 1, !.listed = TRUE, !.staged = TRUE]
           point == [NoPoint EXCEPT !.status = "pending", !.active = TRUE]
<1>4. /\ version = 1
      /\ plans = IF planned = {} THEN <<>> ELSE <<first>>
      /\ tasks = [k \in Keys |-> IF k \in planned THEN task ELSE NoTask]
      /\ points = [k \in Keys |-> IF k \in planned THEN point ELSE NoPoint]
      /\ preview = NoPreview /\ weights = Weights(tasks) /\ progress = Percent(weights, points)
      /\ testing = {}
  BY DEF Init, DeliveryInit
<1>5. /\ task \in TaskRow /\ task.row = "active" /\ task.listed /\ task.staged
      /\ NoTask \in TaskRow /\ NoTask.row = "none" /\ ~NoTask.listed /\ ~NoTask.staged
  BY DEF NoTask, TaskRow
<1>6. /\ point \in PointRow /\ NoPoint \in PointRow /\ ~NoPoint.active
  BY DEF NoPoint, PointRow
<1>7. /\ first \in PlanRow /\ first.version = 1 /\ first.keys = planned /\ first.case = 1
      /\ first.at = 1 /\ first.status = "confirmed"
  BY <1>2 DEF PlanRow
<1>8. planned \in SUBSET Keys
  BY <1>2
<1> HIDE DEF planned, first, task, point
<1>9. /\ plans \in Seq(PlanRow)
      /\ \A p \in DOMAIN plans : p = 1 /\ plans[p] = first
  <2>1. CASE planned = {}
    BY <1>4, <2>1, EmptySeq
  <2>2. CASE planned # {}
    BY <1>4, <1>7, <2>2
  <2> QED
    BY <2>1, <2>2
<1>10. /\ tasks \in [Keys -> TaskRow] /\ points \in [Keys -> PointRow]
       /\ \A k \in Keys : tasks[k] = IF k \in planned THEN task ELSE NoTask
       /\ \A k \in Keys : points[k] = IF k \in planned THEN point ELSE NoPoint
  BY <1>4, <1>5, <1>6
<1>11. WorkTypes
  <2>1. \A p \in DOMAIN plans : plans[p].version \in 1..version /\ plans[p].case \in 1..setup.cases
    BY <1>2, <1>4, <1>7, <1>9
  <2>2. DOMAIN weights \subseteq Keys
    BY <1>4 DEF Weights
  <2>3. preview \in PreviewRow /\ ~preview.open
    BY <1>4, NoPreviewIsOne
  <2>4. DatesInv
    <3>1. Dated = DOMAIN plans /\ (Dated = {} \/ Dated = {1})
      <4>1. \A p \in DOMAIN plans : p = 1 /\ plans[p].at > 0
        BY <1>7, <1>9
      <4> QED
        BY <4>1 DEF Dated
    <3>2. IsFiniteSet(Dated) /\ (DOMAIN plans # {} => Cardinality(Dated) = 1)
      <4>1. IsFiniteSet({}) /\ IsFiniteSet({1}) /\ Cardinality({1}) = 1
        BY FS_EmptySet, FS_Singleton
      <4> QED
        BY <3>1, <4>1
    <3> QED
      BY <1>7, <1>9, <3>2 DEF DatesInv
  <2> QED
    BY <1>1, <1>4, <1>9, <1>10, <2>1, <2>2, <2>3, <2>4 DEF WorkTypes
<1>12. Active = planned
  BY <1>5, <1>8, <1>10 DEF Active
<1>13. ScopeIsPlan
  <2>1. \A p, q \in Confirmed : plans[p].case = plans[q].case => p = q
    BY <1>9 DEF Confirmed
  <2>2. \A p \in Confirmed :
            InForce(p) => plans[p].keys = {k \in Active : tasks[k].staged}
    BY <1>5, <1>7, <1>8, <1>9, <1>10, <1>12 DEF Confirmed
  <2>3. \A k \in Keys :
            /\ k \in Active => tasks[k].listed
            /\ points[k].active => k \in Active
            /\ tasks[k].staged /\ tasks[k].listed => k \in Active
    BY <1>5, <1>6, <1>10, <1>12
  <2> QED
    BY <1>4, <2>1, <2>2, <2>3 DEF ScopeIsPlan
<1>14. Blank /\ NewIsNew
  BY <1>4, <1>5, <1>10, NoPreviewIsOne DEF Blank, NewIsNew
<1>15. RunsKnow
  BY DEF Init, RunInit, RunsKnow, NoRun
<1> QED
  BY <1>3, <1>11, <1>13, <1>14, <1>15 DEF DeliveryInv, WorkInv

LEMMA DeliveryStays ==
    ASSUME DeliveryInv, [Next]_vars
    PROVE  DeliveryInv' /\ Stands
<1> USE DEF DeliveryInv
<1>1. CASE RunStep
  <2>1. RunsInv' /\ Gentle
    BY <1>1, RunStepKeeps
  <2>2. WorkInv' /\ Stands
    BY <2>1, GentleKeeps, GentleStands
  <2>3. RunsKeepTasks
    BY <1>1, TasksOfRuns
  <2>4. \A k \in Keys : tasks[k].row # "none" => tasks'[k].row # "none"
    BY <2>1 DEF Gentle, GentleTasks
  <2>5. RunsKnow'
    BY <2>3, <2>4, KnownTasks DEF RunsKeepTasks
  <2> QED
    BY <2>1, <2>2, <2>5
<1>2. ASSUME UNCHANGED runVars
      PROVE  RunsInv'
  BY <1>2 DEF RunsInv, RunTypes, RunRefs, Answering, Answers, WaitsFor, Created, runVars, requests
<1>3. ASSUME UNCHANGED runVars, \A k \in Keys : tasks[k].row # "none" => tasks'[k].row # "none"
      PROVE  RunsKnow'
  BY <1>3 DEF RunsKnow, RunsInv, RunRefs, runVars
<1>4. ASSUME NEW b \in setup.tabs, Reload(b) \/ Money(b), UNCHANGED <<deliveryVars, runVars>>
      PROVE  DeliveryInv' /\ Stands
  <2>1. Gentle
    BY <1>4, LedgerGentle
  <2>2. \A k \in Keys : tasks[k].row # "none" => tasks'[k].row # "none"
    BY <2>1 DEF Gentle, GentleTasks
  <2>3. RunsInv' /\ RunsKnow'
    BY <1>2, <1>3, <1>4, <2>2
  <2> QED
    BY <2>1, <2>3, GentleKeeps, GentleStands
<1>5. ASSUME NEW b \in setup.tabs, Planning(b) \/ Delivering(b), UNCHANGED runVars
      PROVE  DeliveryInv' /\ Stands
  <2>1. WorkInv' /\ Stands
    BY <1>5, DeliveryStepKeeps
  <2>2. \A k \in Keys : tasks[k].row # "none" => tasks'[k].row # "none"
    BY <1>5, RowsStay
  <2> QED
    BY <1>2, <1>3, <1>5, <2>1, <2>2
<1>6. CASE UNCHANGED vars
  <2>1. Gentle
    BY <1>6, StillGentle DEF vars, deliveryVars, Still, deliveryRest
  <2>2. RunsInv' /\ RunsKnow'
    BY <1>2, <1>3, <1>6 DEF vars, deliveryVars
  <2> QED
    BY <2>1, <2>2, GentleKeeps, GentleStands
<1> QED
  BY <1>1, <1>4, <1>5, <1>6 DEF Next

-----------------------------------------------------------------------------
(* Sums over payment nodes.                                                *)

LEMMA AmountIs ==
    ASSUME NEW rs, NEW is \in SUBSET DOMAIN rs
    PROVE  MapThenSumSet(LAMBDA i : rs[i].amount, is) = Sum([i \in DOMAIN rs |-> rs[i].amount], is)
<1> DEFINE f == [i \in DOMAIN rs |-> rs[i].amount]
           Direct(g) == g = [s \in SUBSET is |-> IF s = {} THEN 0
                                ELSE rs[Picked(s)].amount + g[s \ {Picked(s)}]]
<1>1. MapThenSumSet(LAMBDA i : rs[i].amount, is) = (CHOOSE g : Direct(g))[is]
  BY DEF MapThenSumSet, MapThenFoldSet, Picked
<1>2. ASSUME NEW g PROVE Direct(g) <=> Adds(f, SUBSET is, g)
  <2>1. \A s \in SUBSET is : s # {} => f[Picked(s)] = rs[Picked(s)].amount
    BY DEF Picked
  <2> HIDE DEF f
  <2>2. [s \in SUBSET is |-> IF s = {} THEN 0 ELSE rs[Picked(s)].amount + g[s \ {Picked(s)}]]
        = [s \in SUBSET is |-> IF s = {} THEN 0 ELSE f[Picked(s)] + g[s \ {Picked(s)}]]
    BY <2>1
  <2> QED
    BY <2>2 DEF Adds
<1> HIDE DEF Direct, f
<1>3. (CHOOSE g : Direct(g)) = (CHOOSE g : Adds(f, SUBSET is, g))
  BY <1>2, Zenon
<1>4. Sum(f, is) = (CHOOSE g : Adds(f, SUBSET is, g))[is]
  BY SumIs
<1> QED
  BY <1>1, <1>3, <1>4 DEF f

\* What a row adds to the rows of some kinds, and what a sequence of rows does.
Counted(r, kinds) == IF r.status \in kinds THEN r.amount ELSE 0

Worth(rs, kinds) == Sum([i \in DOMAIN rs |-> Counted(rs[i], kinds)], DOMAIN rs)

LEMMA CountedIsNat ==
    ASSUME NEW r \in MoneyRow, NEW kinds
    PROVE  Counted(r, kinds) \in Nat
BY DEF MoneyRow, Counted

LEMMA RowsFacts ==
    ASSUME NEW rs \in Seq(MoneyRow)
    PROVE  /\ IsFiniteSet(DOMAIN rs) /\ DOMAIN rs = 1..Len(rs) /\ Len(rs) \in Nat
           /\ \A i \in DOMAIN rs : rs[i] \in MoneyRow
<1>1. DOMAIN rs = 1..Len(rs) /\ Len(rs) \in Nat
  BY LenProperties
<1>2. IsFiniteSet(1..Len(rs))
  BY <1>1, FS_Interval
<1> QED
  BY <1>1, <1>2, ElementOfSeq

LEMMA WorthIsNat ==
    ASSUME NEW rs \in Seq(MoneyRow), NEW kinds
    PROVE  Worth(rs, kinds) \in Nat
<1> DEFINE f == [i \in DOMAIN rs |-> Counted(rs[i], kinds)]
<1>1. \A i \in DOMAIN rs : f[i] \in Nat
  BY RowsFacts, CountedIsNat
<1> HIDE DEF f
<1>2. Sum(f, DOMAIN rs) \in Nat
  BY <1>1, RowsFacts, SumIsNat
<1> QED
  BY <1>2 DEF Worth, f

LEMMA AmountIsWorth ==
    ASSUME NEW rs \in Seq(MoneyRow), NEW kinds, NEW is,
           is = {i \in DOMAIN rs : rs[i].status \in kinds}
    PROVE  MapThenSumSet(LAMBDA i : rs[i].amount, is) = Worth(rs, kinds)
<1> DEFINE f == [i \in DOMAIN rs |-> rs[i].amount]
           g == [i \in DOMAIN rs |-> IF i \in is THEN f[i] ELSE 0]
           h == [i \in DOMAIN rs |-> Counted(rs[i], kinds)]
<1>1. MapThenSumSet(LAMBDA i : rs[i].amount, is) = Sum(f, is)
  BY AmountIs
<1>2. \A i \in DOMAIN rs : rs[i].amount \in Nat
  BY RowsFacts DEF MoneyRow
<1>3. \A i \in is : f[i] \in Nat
  BY <1>2
<1>4. is \in SUBSET DOMAIN rs
  OBVIOUS
<1> HIDE DEF f
<1>5. Sum(f, is) = Sum(g, DOMAIN rs)
  BY <1>3, <1>4, RowsFacts, SumOfPart
<1>6. \A i \in DOMAIN rs : g[i] = h[i]
  BY DEF Counted, f
<1> HIDE DEF g, h
<1>7. Sum(g, DOMAIN rs) = Sum(h, DOMAIN rs)
  BY <1>6, RowsFacts, SumSame
<1> QED
  BY <1>1, <1>5, <1>7 DEF Worth, h

LEMMA WorthOfNone ==
    ASSUME NEW rs, rs = <<>>, NEW kinds
    PROVE  Worth(rs, kinds) = 0
<1> DEFINE f == [i \in DOMAIN rs |-> Counted(rs[i], kinds)]
<1>1. DOMAIN rs = {}
  OBVIOUS
<1> HIDE DEF f
<1>2. Sum(f, {}) = 0
  BY SumStep, FS_EmptySet
<1>3. Sum(f, DOMAIN rs) = 0
  BY <1>1, <1>2
<1> QED
  BY <1>3 DEF Worth, f

LEMMA WorthOfOne ==
    ASSUME NEW r \in MoneyRow, NEW kinds
    PROVE  Worth(<<r>>, kinds) = Counted(r, kinds)
<1> DEFINE f == [i \in DOMAIN <<r>> |-> Counted(<<r>>[i], kinds)]
<1>1. DOMAIN <<r>> = {1} /\ f[1] = Counted(r, kinds)
  OBVIOUS
<1>2. IsFiniteSet({1}) /\ Counted(r, kinds) \in Nat
  BY FS_Singleton, CountedIsNat
<1>3. {1} \ {1} = {}
  OBVIOUS
<1>4. \A i \in {1} : f[i] \in Nat
  BY <1>1, <1>2
<1> HIDE DEF f
<1>5. Sum(f, {1}) = f[1] + Sum(f, {1} \ {1})
  BY <1>2, <1>4, SumRemove
<1>6. Sum(f, {}) = 0
  BY FS_EmptySet, SumStep
<1>7. Sum(f, {1}) = Counted(r, kinds)
  BY <1>1, <1>2, <1>3, <1>5, <1>6
<1> QED
  BY <1>1, <1>7 DEF Worth, f

LEMMA WorthOfBoth ==
    ASSUME NEW rs \in Seq(MoneyRow), NEW ps \in Seq(MoneyRow), NEW kinds
    PROVE  Worth(rs \o ps, kinds) = Worth(rs, kinds) + Worth(ps, kinds)
<1> DEFINE all == rs \o ps
           n == Len(rs)
           f == [i \in DOMAIN rs |-> Counted(rs[i], kinds)]
           g == [i \in DOMAIN ps |-> Counted(ps[i], kinds)]
           h == [i \in DOMAIN all |-> Counted(all[i], kinds)]
<1>1. /\ all \in Seq(MoneyRow) /\ Len(all) = Len(rs) + Len(ps)
      /\ \A i \in 1..(Len(rs) + Len(ps)) :
            all[i] = IF i <= Len(rs) THEN rs[i] ELSE ps[i - Len(rs)]
  BY ConcatProperties
<1>2. /\ DOMAIN rs = 1..n /\ DOMAIN ps = 1..Len(ps) /\ DOMAIN all = 1..(n + Len(ps))
      /\ n \in Nat /\ Len(ps) \in Nat
  BY <1>1, RowsFacts
<1> HIDE DEF all
<1>3. DOMAIN all = DOMAIN rs \cup Moved(DOMAIN ps, n)
  <2>1. \A i \in DOMAIN all : i \notin DOMAIN rs => i - n \in DOMAIN ps /\ i = (i - n) + n
    BY <1>2
  <2>2. \A i \in DOMAIN ps : i + n \in DOMAIN all
    BY <1>2
  <2>3. \A i \in DOMAIN rs : i \in DOMAIN all
    BY <1>2
  <2>4. \A i \in DOMAIN all : i \notin DOMAIN rs => i \in Moved(DOMAIN ps, n)
    BY <2>1 DEF Moved
  <2> HIDE DEF n
  <2>5. \A i \in Moved(DOMAIN ps, n) : i \in DOMAIN all
    BY <2>2 DEF Moved
  <2> QED
    BY <2>3, <2>4, <2>5
<1>4. DOMAIN rs \cap Moved(DOMAIN ps, n) = {}
  BY <1>2 DEF Moved
<1>5. IsFiniteSet(DOMAIN rs) /\ IsFiniteSet(DOMAIN ps) /\ IsFiniteSet(DOMAIN all)
  BY <1>1, RowsFacts
<1>6. IsFiniteSet(Moved(DOMAIN ps, n))
  BY <1>3, <1>5, FS_Subset
<1>7. /\ \A i \in DOMAIN all : h[i] \in Nat
      /\ \A i \in DOMAIN ps : g[i] \in Nat
  BY <1>1, RowsFacts, CountedIsNat
<1>8. \A i \in DOMAIN rs : i \in DOMAIN all /\ h[i] = f[i]
  BY <1>1, <1>2
<1>9. \A i \in DOMAIN ps : i + n \in DOMAIN all /\ h[i + n] = g[i]
  <2>1. \A i \in DOMAIN ps : i + n \in 1..(n + Len(ps)) /\ ~(i + n <= n) /\ (i + n) - n = i
    BY <1>2
  <2> QED
    BY <1>1, <1>2, <2>1
<1> HIDE DEF f, g, h, n
<1>10. Sum(h, DOMAIN all) = Sum(h, DOMAIN rs) + Sum(h, Moved(DOMAIN ps, n))
  BY <1>3, <1>4, <1>5, <1>6, <1>7, SumSplit
<1>11. Sum(h, DOMAIN rs) = Sum(f, DOMAIN rs)
  BY <1>5, <1>8, SumSame
<1>12. Sum(h, Moved(DOMAIN ps, n)) = Sum(g, DOMAIN ps)
  <2> DEFINE D == DOMAIN ps
  <2>1. D \in SUBSET Nat
    BY <1>2
  <2>2. n \in Nat
    BY <1>2
  <2>3. IsFiniteSet(D)
    BY <1>5
  <2>4. \A i \in D : g[i] \in Nat /\ h[i + n] = g[i]
    BY <1>7, <1>9
  <2> HIDE DEF D
  <2>5. Sum(h, Moved(D, n)) = Sum(g, D)
    BY ONLY <2>1, <2>2, <2>3, <2>4, SumMoved
  <2> QED
    BY <2>5 DEF D
<1>13. Sum(h, DOMAIN all) = Sum(f, DOMAIN rs) + Sum(g, DOMAIN ps)
  BY <1>10, <1>11, <1>12
<1> QED
  BY <1>13 DEF Worth, f, g, h, all

LEMMA WorthOfKinds ==
    ASSUME NEW rs \in Seq(MoneyRow), NEW kinds, NEW others, kinds \cap others = {}
    PROVE  Worth(rs, kinds \cup others) = Worth(rs, kinds) + Worth(rs, others)
<1> DEFINE f == [i \in DOMAIN rs |-> Counted(rs[i], kinds \cup others)]
           g == [i \in DOMAIN rs |-> Counted(rs[i], kinds)]
           h == [i \in DOMAIN rs |-> Counted(rs[i], others)]
<1>1. ASSUME NEW i \in DOMAIN rs PROVE g[i] \in Nat /\ h[i] \in Nat /\ f[i] = g[i] + h[i]
  <2>1. rs[i].amount \in Nat
    BY RowsFacts DEF MoneyRow
  <2> QED
    BY <2>1 DEF Counted
<1> HIDE DEF f, g, h
<1>2. Sum(f, DOMAIN rs) = Sum(g, DOMAIN rs) + Sum(h, DOMAIN rs)
  BY <1>1, RowsFacts, SumAdds
<1> QED
  BY <1>2 DEF Worth, f, g, h

\* The row at i is exchanged for r.
Exchanged(rs, ps, i, r) ==
    /\ ps \in Seq(MoneyRow) /\ Len(ps) = Len(rs) /\ DOMAIN ps = DOMAIN rs
    /\ \A kinds : Worth(ps, kinds) + Counted(rs[i], kinds) = Worth(rs, kinds) + Counted(r, kinds)
    /\ \A j \in DOMAIN rs : ps[j] = IF j = i THEN r ELSE rs[j]

LEMMA WorthOfChange ==
    ASSUME NEW rs \in Seq(MoneyRow), NEW i \in DOMAIN rs, NEW r \in MoneyRow,
           NEW ps, ps = [rs EXCEPT ![i] = r]
    PROVE  Exchanged(rs, ps, i, r)
<1>0. SUFFICES ASSUME NEW kinds
      PROVE  /\ ps \in Seq(MoneyRow) /\ Len(ps) = Len(rs)
             /\ Worth(ps, kinds) + Counted(rs[i], kinds) = Worth(rs, kinds) + Counted(r, kinds)
  BY DEF Exchanged
<1> DEFINE f == [j \in DOMAIN rs |-> Counted(rs[j], kinds)]
           g == [j \in DOMAIN ps |-> Counted(ps[j], kinds)]
           D == DOMAIN rs
<1>1. i \in 1..Len(rs)
  BY RowsFacts
<1>2. ps \in Seq(MoneyRow) /\ Len(ps) = Len(rs)
  BY <1>1, ExceptSeq
<1>3. DOMAIN ps = D
  OBVIOUS
<1>4. \A j \in D : f[j] \in Nat /\ g[j] \in Nat
  BY <1>2, <1>3, RowsFacts, CountedIsNat
<1>5. f[i] = Counted(rs[i], kinds) /\ g[i] = Counted(r, kinds)
  OBVIOUS
<1>6. \A j \in D \ {i} : g[j] = f[j]
  OBVIOUS
<1>7. IsFiniteSet(D) /\ IsFiniteSet(D \ {i}) /\ i \in D
  BY RowsFacts, FS_Subset
<1> HIDE DEF f, g, D
<1>8. Sum(f, D) = f[i] + Sum(f, D \ {i}) /\ Sum(g, D) = g[i] + Sum(g, D \ {i})
  BY <1>4, <1>7, SumRemove
<1>9. Sum(g, D \ {i}) = Sum(f, D \ {i})
  BY <1>6, <1>7, SumSame
<1>10. Sum(f, D \ {i}) \in Nat
  BY <1>4, <1>7, SumIsNat
<1>11. Sum(g, D) + f[i] = Sum(f, D) + g[i]
  BY <1>4, <1>7, <1>8, <1>9, <1>10
<1> QED
  BY <1>2, <1>5, <1>11 DEF Worth, f, g, D

LEMMA Greater ==
    ASSUME NEW a \in Int, NEW b \in Int
    PROVE  Max({a, b}) = IF a >= b THEN a ELSE b
<1> DEFINE m == IF a >= b THEN a ELSE b
<1>1. m \in {a, b} /\ \A y \in {a, b} : m >= y
  OBVIOUS
<1>2. \A x \in {a, b} : (\A y \in {a, b} : x >= y) => x = m
  OBVIOUS
<1> HIDE DEF m
<1>3. Max({a, b}) = m
  BY <1>1, <1>2 DEF Max
<1> QED
  BY <1>3 DEF m

LEMMA Lesser ==
    ASSUME NEW a \in Int, NEW b \in Int
    PROVE  Min({a, b}) = IF a <= b THEN a ELSE b
<1> DEFINE m == IF a <= b THEN a ELSE b
<1>1. m \in {a, b} /\ \A y \in {a, b} : m <= y
  OBVIOUS
<1>2. \A x \in {a, b} : (\A y \in {a, b} : x <= y) => x = m
  OBVIOUS
<1> HIDE DEF m
<1>3. Min({a, b}) = m
  BY <1>1, <1>2 DEF Min
<1> QED
  BY <1>3 DEF m

\* An amount m that is taken from positions with amounts a, those that are due late
\* first and those before others on the same day.
Spread(P, m, a, late, before, takes) ==
    \A i \in P :
        /\ a[i] \in Nat /\ late[i] \in Nat
        /\ before[i] = {j \in P : late[j] > late[i] \/ (late[j] = late[i] /\ j < i)}
        /\ takes[i] = IF m <= Sum(a, before[i]) THEN 0
                      ELSE IF m - Sum(a, before[i]) <= a[i] THEN m - Sum(a, before[i])
                      ELSE a[i]

\* What is taken from the positions is the amount, or all of them.
Covers(P, m, a, takes) == Sum(takes, P) = IF m <= Sum(a, P) THEN m ELSE Sum(a, P)

\* An amount that is spread over positions in their order of precedence is spread
\* whole, or covers everything.
LEMMA Waterfall ==
    ASSUME NEW n \in Nat, NEW P \in SUBSET (1..n), NEW m \in Nat,
           NEW a, NEW late, NEW before, NEW takes, Spread(P, m, a, late, before, takes)
    PROVE  Covers(P, m, a, takes)
<1> USE DEF Covers
<1> DEFINE Downward(T) == \A i \in T : before[i] \subseteq T
           Takes(T) == Sum(takes, T) = IF m <= Sum(a, T) THEN m ELSE Sum(a, T)
           Good == {T \in SUBSET P : Downward(T) => Takes(T)}
<1>1. IsFiniteSet(P)
  <2>1. IsFiniteSet(1..n)
    BY FS_Interval
  <2> QED
    BY <2>1, FS_Subset
<1>8. \A i \in P : a[i] \in Nat /\ late[i] \in Nat
  BY DEF Spread
<1>9. \A i \in P : before[i] = {j \in P : late[j] > late[i] \/ (late[j] = late[i] /\ j < i)}
  BY DEF Spread
<1>10. \A i \in P : takes[i] = IF m <= Sum(a, before[i]) THEN 0
                            ELSE IF m - Sum(a, before[i]) <= a[i] THEN m - Sum(a, before[i])
                            ELSE a[i]
  BY DEF Spread
<1>2. {} \in Good
  <2>1. Sum(takes, {}) = 0 /\ Sum(a, {}) = 0
    BY SumStep, FS_EmptySet
  <2> QED
    BY <2>1
<1>3. ASSUME NEW T \in SUBSET P, T # {}, \A x \in T : T \ {x} \in Good
      PROVE  T \in Good
  <2> SUFFICES ASSUME Downward(T) PROVE Takes(T)
    OBVIOUS
  <2>1. \E i \in T : \A j \in T \ {i} : j \in before[i]
    <3> DEFINE Lates == {late[j] : j \in T}
    <3>1. Lates \in SUBSET Nat
      BY <1>8
    <3>6. Lates # {}
      <4>1. PICK j \in T : TRUE
        BY <1>3
      <4>2. late[j] \in Lates
        OBVIOUS
      <4> QED
        BY <4>2
    <3>2. PICK l \in Lates : \A k \in Lates : l <= k
      BY <3>1, <3>6, Smallest
    <3> DEFINE Final == {j \in T : late[j] = l}
    <3>3. Final \in SUBSET (0..n) /\ Final # {}
      <4>1. Final # {}
        OBVIOUS
      <4>2. Final \in SUBSET (1..n)
        OBVIOUS
      <4>3. 1..n \subseteq 0..n
        OBVIOUS
      <4> QED
        BY <4>1, <4>2, <4>3
    <3>4. PICK i \in Final : \A k \in Final : k <= i
      BY <3>3, Largest
    <3>5. ASSUME NEW j \in T \ {i} PROVE j \in before[i]
      <4>5. i \in P /\ j \in P /\ late[i] = l
        OBVIOUS
      <4>6. late[j] \in Lates
        OBVIOUS
      <4>7. i \in Nat /\ j \in Nat
        BY <4>5
      <4>1. /\ i \in P /\ j \in P /\ late[i] = l /\ late[j] \in Lates
            /\ late[i] \in Nat /\ late[j] \in Nat /\ i \in Nat /\ j \in Nat
        BY <1>8, <4>5, <4>6, <4>7
      <4>2. l <= late[j]
        BY <3>2, <4>1
      <4>3. late[j] = l => j <= i
        BY <3>4
      <4>4. late[j] > late[i] \/ (late[j] = late[i] /\ j < i)
        BY <4>1, <4>2, <4>3
      <4> QED
        BY <1>9, <4>1, <4>4
    <3>7. i \in T
      OBVIOUS
    <3> QED
      BY <3>5, <3>7
  <2>2. PICK i \in T : \A j \in T \ {i} : j \in before[i]
    BY <2>1
  <2> DEFINE R == T \ {i}
  <2>3. i \in P /\ i \notin before[i] /\ before[i] \subseteq T
    <3>1. i \in P /\ i \in Nat
      OBVIOUS
    <3>2. late[i] \in Nat
      BY <1>8, <3>1
    <3>3. i \notin before[i]
      BY <1>9, <3>1, <3>2
    <3> QED
      BY <3>1, <3>3
  <2>4. before[i] = R
    BY <2>2, <2>3
  <2>5. Downward(R)
    <3>1. ASSUME NEW j \in R PROVE i \notin before[j]
      <4>1. j \in before[i] /\ j \in P /\ i \in P
        BY <2>4
      <4>5. i \in Nat /\ j \in Nat
        BY <4>1
      <4>6. late[i] \in Nat /\ late[j] \in Nat
        BY <1>8, <4>1
      <4>2. i \in Nat /\ j \in Nat /\ late[i] \in Nat /\ late[j] \in Nat
        BY <4>5, <4>6
      <4>3. late[j] > late[i] \/ (late[j] = late[i] /\ j < i)
        BY <1>9, <4>1
      <4> QED
        BY <1>9, <4>1, <4>2, <4>3
    <3>2. ASSUME NEW j \in R PROVE before[j] \subseteq T
      OBVIOUS
    <3> QED
      BY <3>1, <3>2
  <2>6. Takes(R)
    BY <1>3, <2>5
  <2>7. IsFiniteSet(T) /\ IsFiniteSet(R)
    BY <1>1, FS_Subset
  <2>8. takes[i] = IF m <= Sum(a, R) THEN 0
                   ELSE IF m - Sum(a, R) <= a[i] THEN m - Sum(a, R) ELSE a[i]
    BY <1>10, <2>3, <2>4
  <2>9. \A x \in P : a[x] \in Nat
    BY <1>8
  <2>10. \A x \in P : takes[x] \in Nat
    <3> SUFFICES ASSUME NEW x \in P PROVE takes[x] \in Nat
      OBVIOUS
    <3>4. before[x] \in SUBSET P
      BY <1>9
    <3>1. IsFiniteSet(before[x])
      BY <1>1, <3>4, FS_Subset
    <3>2. Sum(a, before[x]) \in Nat /\ a[x] \in Nat
      BY <2>9, <3>1, <3>4, SumIsNat
    <3>3. takes[x] = IF m <= Sum(a, before[x]) THEN 0
                     ELSE IF m - Sum(a, before[x]) <= a[x] THEN m - Sum(a, before[x])
                     ELSE a[x]
      BY <1>10
    <3> QED
      BY <3>2, <3>3
  <2>11. /\ \A x \in T : a[x] \in Nat
         /\ \A x \in T : takes[x] \in Nat
         /\ \A x \in R : a[x] \in Nat
    BY <2>9, <2>10
  <2>14. Sum(a, T) = a[i] + Sum(a, R)
    BY <2>7, <2>11, SumRemove
  <2>15. Sum(takes, T) = takes[i] + Sum(takes, R)
    <3>1. IsFiniteSet(T)
      BY <2>7
    <3>2. \A x \in T : takes[x] \in Nat
      BY <2>11
    <3>3. \A y \in T : Sum(takes, T) = takes[y] + Sum(takes, T \ {y})
      BY ONLY <3>1, <3>2, SumRemove, ZenonT(40)
    <3> QED
      BY <3>3
  <2>12. Sum(a, T) = a[i] + Sum(a, R) /\ Sum(takes, T) = takes[i] + Sum(takes, R)
    BY <2>14, <2>15
  <2>13. Sum(a, R) \in Nat /\ a[i] \in Nat
    BY <2>7, <2>11, SumIsNat
  <2> HIDE DEF R, Downward
  <2> QED
    BY <2>6, <2>8, <2>12, <2>13
<1>4. Good \in SUBSET (SUBSET P)
  OBVIOUS
<1>5. Downward(P)
  BY <1>9
<1> HIDE DEF Good, Downward
<1>6. \A T \in SUBSET P : T \in Good
  BY <1>1, <1>2, <1>3, <1>4, SubsetInduction
<1>7. P \in Good
  BY <1>6
<1> QED
  BY <1>5, <1>7 DEF Good

LEMMA ImpactIs ==
    ASSUME NEW is
    PROVE  MapThenSumSet(LAMBDA i : i.impact, is) = Sum([i \in is |-> i.impact], is)
<1> DEFINE f == [i \in is |-> i.impact]
           Direct(g) == g = [s \in SUBSET is |-> IF s = {} THEN 0
                                ELSE Picked(s).impact + g[s \ {Picked(s)}]]
<1>1. MapThenSumSet(LAMBDA i : i.impact, is) = (CHOOSE g : Direct(g))[is]
  BY DEF MapThenSumSet, MapThenFoldSet, Picked
<1>2. ASSUME NEW g PROVE Direct(g) <=> Adds(f, SUBSET is, g)
  <2>1. \A s \in SUBSET is : s # {} => f[Picked(s)] = Picked(s).impact
    BY DEF Picked
  <2> HIDE DEF f
  <2>2. [s \in SUBSET is |-> IF s = {} THEN 0 ELSE Picked(s).impact + g[s \ {Picked(s)}]]
        = [s \in SUBSET is |-> IF s = {} THEN 0 ELSE f[Picked(s)] + g[s \ {Picked(s)}]]
    BY <2>1
  <2> QED
    BY <2>2 DEF Adds
<1> HIDE DEF Direct, f
<1>3. (CHOOSE g : Direct(g)) = (CHOOSE g : Adds(f, SUBSET is, g))
  BY <1>2, Zenon
<1>4. Sum(f, is) = (CHOOSE g : Adds(f, SUBSET is, g))[is]
  BY SumIs
<1> QED
  BY <1>1, <1>3, <1>4 DEF f

LEMMA RefundIs ==
    ASSUME NEW is
    PROVE  MapThenSumSet(LAMBDA i : i.refund, is) = Sum([i \in is |-> i.refund], is)
<1> DEFINE f == [i \in is |-> i.refund]
           Direct(g) == g = [s \in SUBSET is |-> IF s = {} THEN 0
                                ELSE Picked(s).refund + g[s \ {Picked(s)}]]
<1>1. MapThenSumSet(LAMBDA i : i.refund, is) = (CHOOSE g : Direct(g))[is]
  BY DEF MapThenSumSet, MapThenFoldSet, Picked
<1>2. ASSUME NEW g PROVE Direct(g) <=> Adds(f, SUBSET is, g)
  <2>1. \A s \in SUBSET is : s # {} => f[Picked(s)] = Picked(s).refund
    BY DEF Picked
  <2> HIDE DEF f
  <2>2. [s \in SUBSET is |-> IF s = {} THEN 0 ELSE Picked(s).refund + g[s \ {Picked(s)}]]
        = [s \in SUBSET is |-> IF s = {} THEN 0 ELSE f[Picked(s)] + g[s \ {Picked(s)}]]
    BY <2>1
  <2> QED
    BY <2>2 DEF Adds
<1> HIDE DEF Direct, f
<1>3. (CHOOSE g : Direct(g)) = (CHOOSE g : Adds(f, SUBSET is, g))
  BY <1>2, Zenon
<1>4. Sum(f, is) = (CHOOSE g : Adds(f, SUBSET is, g))[is]
  BY SumIs
<1> QED
  BY <1>1, <1>3, <1>4 DEF f

IssueRow == [req : Nat, terminal : BOOLEAN, impact : Nat, refund : Nat]

Impacts(is) == Sum([i \in is |-> i.impact], is)

Refunds(is) == Sum([i \in is |-> i.refund], is)

LEMMA IssueSums ==
    ASSUME NEW is \in SUBSET IssueRow, IsFiniteSet(is)
    PROVE  /\ Impacts(is) \in Nat /\ Refunds(is) \in Nat
           /\ Impacts({}) = 0 /\ Refunds({}) = 0
           /\ \A x \in IssueRow : x \notin is =>
                 /\ IsFiniteSet(is \cup {x})
                 /\ Impacts(is \cup {x}) = Impacts(is) + x.impact
                 /\ Refunds(is \cup {x}) = Refunds(is) + x.refund
<1>1. ASSUME NEW f, \A i \in is : f[i] \in Nat
      PROVE  Sum(f, is) \in Nat
  BY <1>1, SumIsNat
<1>2. ASSUME NEW f, NEW g, NEW x, x \notin is, \A i \in is \cup {x} : g[i] \in Nat,
             \A i \in is : f[i] = g[i]
      PROVE  Sum(g, is \cup {x}) = Sum(f, is) + g[x]
  <2> DEFINE all == is \cup {x}
  <2>1. IsFiniteSet(all) /\ x \in all /\ all \ {x} = is
    BY <1>2, FS_AddElement
  <2>2. Sum(g, all) = g[x] + Sum(g, is)
    <3>1. Sum(g, all) = g[x] + Sum(g, all \ {x})
      BY <1>2, <2>1, SumRemove
    <3> HIDE DEF all
    <3> QED
      BY <2>1, <3>1
  <2>3. Sum(g, is) = Sum(f, is)
    BY <1>2, SumSame
  <2>4. Sum(g, is) \in Nat /\ g[x] \in Nat
    BY <1>2, SumIsNat
  <2> HIDE DEF all
  <2>5. Sum(g, all) = Sum(f, is) + g[x]
    BY <2>1, <2>2, <2>3, <2>4
  <2> QED
    BY <2>5 DEF all
<1>3. Impacts({}) = 0 /\ Refunds({}) = 0
  <2>1. ASSUME NEW f PROVE Sum(f, {}) = 0
    BY SumStep, FS_EmptySet
  <2> QED
    BY <2>1 DEF Impacts, Refunds
<1>4. Impacts(is) \in Nat /\ Refunds(is) \in Nat
  <2>1. \A i \in is : [j \in is |-> j.impact][i] \in Nat /\ [j \in is |-> j.refund][i] \in Nat
    BY DEF IssueRow
  <2> QED
    BY <1>1, <2>1 DEF Impacts, Refunds
<1>5. ASSUME NEW x \in IssueRow, x \notin is
      PROVE  /\ IsFiniteSet(is \cup {x})
             /\ Impacts(is \cup {x}) = Impacts(is) + x.impact
             /\ Refunds(is \cup {x}) = Refunds(is) + x.refund
  <2> DEFINE f1 == [i \in is |-> i.impact]
             g1 == [i \in is \cup {x} |-> i.impact]
             f2 == [i \in is |-> i.refund]
             g2 == [i \in is \cup {x} |-> i.refund]
  <2>1. /\ \A i \in is \cup {x} : g1[i] \in Nat /\ g2[i] \in Nat
        /\ \A i \in is : f1[i] = g1[i] /\ f2[i] = g2[i]
        /\ g1[x] = x.impact /\ g2[x] = x.refund
    BY DEF IssueRow
  <2> HIDE DEF f1, g1, f2, g2
  <2>2. Sum(g1, is \cup {x}) = Sum(f1, is) + x.impact
    <3>1. \A i \in is \cup {x} : g1[i] \in Nat
      BY <2>1
    <3>2. \A i \in is : f1[i] = g1[i]
      BY <2>1
    <3>3. Sum(g1, is \cup {x}) = Sum(f1, is) + g1[x]
      BY <1>2, <1>5, <3>1, <3>2
    <3> QED
      BY <2>1, <3>3
  <2>3. Sum(g2, is \cup {x}) = Sum(f2, is) + x.refund
    <3>1. \A i \in is \cup {x} : g2[i] \in Nat
      BY <2>1
    <3>2. \A i \in is : f2[i] = g2[i]
      BY <2>1
    <3>3. Sum(g2, is \cup {x}) = Sum(f2, is) + g2[x]
      BY <1>2, <1>5, <3>1, <3>2
    <3> QED
      BY <2>1, <3>3
  <2> QED
    BY <1>5, <2>2, <2>3, FS_AddElement DEF Impacts, Refunds, f1, g1, f2, g2
<1> QED
  BY <1>3, <1>4, <1>5

LEMMA RowIsOne ==
    ASSUME NEW amount \in Nat \ {0}, NEW due \in Dues, NEW req \in Nat,
           NEW status \in {"pending", "confirmed", "refunded", "written_off"}
    PROVE  /\ Row(amount, status, due, req) \in MoneyRow
           /\ Row(amount, status, due, req).amount = amount
           /\ Row(amount, status, due, req).status = status
           /\ Row(amount, status, due, req).req = req
           /\ ~Row(amount, status, due, req).late
BY DEF Row, MoneyRow

\* The row r, or nothing when its amount is none.
AtMostRow(more, r, amount, status) ==
    /\ more \in Seq(MoneyRow)
    /\ \A kinds : Worth(more, kinds) = IF status \in kinds THEN amount ELSE 0
    /\ Len(more) = IF amount = 0 THEN 0 ELSE 1
    /\ \A j \in 1..Len(more) : more[j] = r
    /\ amount # 0 => more = <<r>>

LEMMA SomeRow ==
    ASSUME NEW amount \in Nat, NEW due, amount = 0 \/ due \in Dues, NEW req \in Nat,
           NEW status \in {"pending", "confirmed", "refunded", "written_off"},
           NEW r, r = Row(amount, status, due, req), NEW more, more = Some(r)
    PROVE  AtMostRow(more, r, amount, status)
<1>1. r.amount = amount
  BY DEF Row
<1>2. CASE amount = 0
  <2>1. more = <<>>
    BY <1>1, <1>2 DEF Some
  <2>2. \A kinds : Worth(more, kinds) = 0
    BY <2>1, WorthOfNone
  <2>3. more \in Seq(MoneyRow) /\ Len(more) = 0
    BY <2>1, EmptySeq
  <2> QED
    BY <1>2, <2>2, <2>3 DEF AtMostRow
<1>3. CASE amount # 0
  <2>1. more = <<r>>
    BY <1>1, <1>3 DEF Some
  <2>2. r \in MoneyRow /\ r.status = status
    BY <1>3, RowIsOne
  <2>3. \A kinds : Worth(<<r>>, kinds) = Counted(r, kinds)
    BY <2>2, WorthOfOne
  <2>4. \A kinds : Counted(r, kinds) = IF status \in kinds THEN amount ELSE 0
    BY <1>1, <2>2 DEF Counted
  <2>5. <<r>> \in Seq(MoneyRow) /\ Len(<<r>>) = 1 /\ <<r>>[1] = r
    BY <2>2
  <2>6. /\ more \in Seq(MoneyRow) /\ Len(more) = 1
        /\ \A j \in 1..Len(more) : more[j] = r
        /\ \A kinds : Worth(more, kinds) = IF status \in kinds THEN amount ELSE 0
    BY <2>1, <2>3, <2>4, <2>5
  <2> QED
    BY <1>3, <2>1, <2>6 DEF AtMostRow
<1> QED
  BY <1>2, <1>3

\* The rows rs with a row of an amount behind them, or nothing when there is none.
Lengthened(rs, ps, amount, status, req) ==
    /\ ps \in Seq(MoneyRow) /\ Len(ps) = IF amount = 0 THEN Len(rs) ELSE Len(rs) + 1
    /\ \A kinds : Worth(ps, kinds) = Worth(rs, kinds) + (IF status \in kinds THEN amount ELSE 0)
    /\ \A j \in 1..Len(ps) :
          IF j <= Len(rs) THEN ps[j] = rs[j]
          ELSE j = Len(rs) + 1 /\ ps[j].req = req /\ ~ps[j].late

LEMMA RowBehind ==
    ASSUME NEW rs \in Seq(MoneyRow), NEW amount \in Nat,
           NEW due, amount = 0 \/ due \in Dues, NEW req \in Nat,
           NEW status \in {"pending", "confirmed", "refunded", "written_off"}, NEW ps,
           ps = rs \o Some(Row(amount, status, due, req))
    PROVE  Lengthened(rs, ps, amount, status, req)
<1> DEFINE r == Row(amount, status, due, req)
           more == Some(r)
<1>7. r = Row(amount, status, due, req) /\ more = Some(r)
  OBVIOUS
<1> HIDE DEF more, r
<1>8. AtMostRow(more, r, amount, status)
  BY <1>7, SomeRow
<1>2. /\ more \in Seq(MoneyRow)
      /\ \A kinds : Worth(more, kinds) = IF status \in kinds THEN amount ELSE 0
      /\ Len(more) = IF amount = 0 THEN 0 ELSE 1
      /\ \A j \in 1..Len(more) : more[j] = r
  BY <1>8 DEF AtMostRow
<1>1. /\ more \in Seq(MoneyRow) /\ Len(more) \in {0, 1}
      /\ \A j \in 1..Len(more) : more[j] = r
  BY <1>2
<1>3. /\ ps \in Seq(MoneyRow) /\ Len(ps) = Len(rs) + Len(more)
      /\ \A j \in 1..(Len(rs) + Len(more)) : ps[j] = IF j <= Len(rs) THEN rs[j] ELSE more[j - Len(rs)]
  BY <1>1, <1>7, ConcatProperties
<1>4. \A kinds : Worth(ps, kinds) = Worth(rs, kinds) + Worth(more, kinds)
  BY <1>1, <1>7, WorthOfBoth
<1>5. Len(rs) \in Nat
  BY LenProperties
<1>6. \A j \in 1..Len(ps) :
         IF j <= Len(rs) THEN ps[j] = rs[j]
         ELSE j = Len(rs) + 1 /\ ps[j].req = req /\ ~ps[j].late
  <2> SUFFICES ASSUME NEW j \in 1..Len(ps), ~(j <= Len(rs))
               PROVE  j = Len(rs) + 1 /\ ps[j].req = req /\ ~ps[j].late
    BY <1>1, <1>3, <1>5
  <2>5. \A n \in Nat, k \in {0, 1} : \A i \in 1..(n + k) : ~(i <= n) => i = n + 1 /\ k = 1
    OBVIOUS
  <2>6. Len(more) \in {0, 1} /\ Len(rs) \in Nat /\ j \in 1..(Len(rs) + Len(more))
    BY <1>1, <1>3, <1>5
  <2>1. j = Len(rs) + 1 /\ Len(more) = 1
    BY <2>5, <2>6
  <2>2. ps[j] = more[1]
    BY <1>3, <1>5, <2>1
  <2>3. more[1] = r
    BY <1>1, <2>1
  <2>4. r.req = req /\ ~r.late
    BY <1>7 DEF Row
  <2> QED
    BY <2>1, <2>2, <2>3, <2>4
<1> QED
  <2>1. Len(ps) = IF amount = 0 THEN Len(rs) ELSE Len(rs) + 1
    BY <1>2, <1>3
  <2>2. \A kinds : Worth(ps, kinds) = Worth(rs, kinds) + (IF status \in kinds THEN amount ELSE 0)
    BY <1>2, <1>4
  <2> QED
    BY <1>3, <1>6, <2>1, <2>2 DEF Lengthened

-----------------------------------------------------------------------------
(* The invariant of the money.                                             *)

MoneyTypes ==
    /\ setup \in Setups
    /\ total \in Nat
    /\ rows \in Seq(MoneyRow)
    /\ issues \in SUBSET IssueRow /\ IsFiniteSet(issues)
    /\ orders \in Seq(1..setup.requests)
    /\ \A i \in DOMAIN rows : rows[i].req \in 0..setup.requests
    /\ \A x \in issues : x.req \in 1..setup.requests

\* No two of a kind carry the same request.
Unique ==
    /\ \A i, j \in DOMAIN rows : rows[i].req = rows[j].req /\ rows[i].req # 0 => i = j
    /\ \A i, j \in DOMAIN orders : orders[i] = orders[j] => i = j
    /\ \A x, y \in issues : x.req = y.req => x = y

Clean == \A i \in DOMAIN rows : ~rows[i].late

Received == Worth(rows, {"confirmed"}) + Worth(rows, {"refunded"})

Sums ==
    /\ Clean =>
          /\ Received + Impacts(issues) <= total
          /\ Worth(rows, {"pending"}) <= total - Received - Impacts(issues)
          /\ (\E x \in issues : x.terminal) => total - Received - Impacts(issues) = 0
    /\ Worth(rows, {"refunded"}) + Refunds(issues) <= Received

MoneyInv == MoneyTypes /\ Unique /\ Sums

LEMMA MoneyIs ==
    MoneyTypes =>
        /\ Receipts = Received /\ Received \in Nat
        /\ Worth(rows, {"pending"}) \in Nat /\ Worth(rows, {"refunded"}) \in Nat
        /\ Pending = Worth(rows, {"pending"})
        /\ Uncollectible = Impacts(issues) /\ Impacts(issues) \in Nat
        /\ Refunded = Worth(rows, {"refunded"}) + Refunds(issues) /\ Refunds(issues) \in Nat
        /\ Outstanding = IF total - Received - Impacts(issues) >= 0
                         THEN total - Received - Impacts(issues) ELSE 0
<1> SUFFICES ASSUME MoneyTypes
             PROVE  /\ Receipts = Received /\ Received \in Nat
                    /\ Worth(rows, {"pending"}) \in Nat /\ Worth(rows, {"refunded"}) \in Nat
                    /\ Pending = Worth(rows, {"pending"})
                    /\ Uncollectible = Impacts(issues) /\ Impacts(issues) \in Nat
                    /\ Refunded = Worth(rows, {"refunded"}) + Refunds(issues)
                    /\ Refunds(issues) \in Nat
                    /\ Outstanding = IF total - Received - Impacts(issues) >= 0
                                     THEN total - Received - Impacts(issues) ELSE 0
  OBVIOUS
<1>1. rows \in Seq(MoneyRow)
  BY DEF MoneyTypes
<1>2. ASSUME NEW status PROVE Amount(With(status)) = Worth(rows, {status})
  <2>1. With(status) = {i \in DOMAIN rows : rows[i].status \in {status}}
    BY DEF With
  <2>2. MapThenSumSet(LAMBDA i : rows[i].amount, With(status)) = Worth(rows, {status})
    BY <1>1, <2>1, AmountIsWorth
  <2> QED
    BY <2>2 DEF Amount
<1>3. \A kinds : Worth(rows, kinds) \in Nat
  BY <1>1, WorthIsNat
<1>4. Receipts = Received /\ Received \in Nat /\ Pending = Worth(rows, {"pending"})
  BY <1>2, <1>3 DEF Receipts, Received, Pending
<1>5. Uncollectible = Impacts(issues) /\ Impacts(issues) \in Nat /\ Refunds(issues) \in Nat
  BY ImpactIs, IssueSums DEF Uncollectible, Impacts, MoneyTypes
<1>6. Refunded = Worth(rows, {"refunded"}) + Refunds(issues)
  BY <1>2, RefundIs DEF Refunded, Refunds
<1>7. total - Received - Impacts(issues) \in Int
  BY <1>4, <1>5 DEF MoneyTypes
<1>8. Outstanding = IF total - Received - Impacts(issues) >= 0
                    THEN total - Received - Impacts(issues) ELSE 0
  <2> DEFINE left == total - Received - Impacts(issues)
  <2>1. Outstanding = Max({0, left})
    BY <1>4, <1>5 DEF Outstanding
  <2>2. left \in Int
    BY <1>7
  <2> HIDE DEF left
  <2>3. Max({0, left}) = IF left >= 0 THEN left ELSE 0
    <3>1. Max({0, left}) = IF 0 >= left THEN 0 ELSE left
      BY <2>2, Greater
    <3> QED
      BY <2>2, <3>1
  <2> QED
    BY <2>1, <2>3 DEF left
<1> QED
  BY <1>3, <1>4, <1>5, <1>6, <1>8

\* The row at a position carries no request, or the one it carried before.
Carried(rs, ps, j) == ps[j].req = 0 \/ (j \in DOMAIN rs /\ ps[j].req = rs[j].req)

LEMMA FreshFacts ==
    ASSUME MoneyTypes, NEW q, NEW ids, Fresh(q, ids)
    PROVE  setup.requests \in Nat /\ q \in 1..setup.requests /\ q # 0 /\ q \notin ids
<1>1. setup.requests \in Nat
  BY LedgerAssumption DEF MoneyTypes
<1>2. q \in 1..setup.requests /\ q \notin ids
  BY DEF Fresh
<1>3. q # 0
  BY <1>1, <1>2
<1> QED
  BY <1>1, <1>2, <1>3

\* One of the rows carries the request q, the others carry what they did.
BookedBy(rs, ps, q) ==
    \E j \in DOMAIN ps : /\ ps[j].req = q
                         /\ \A k \in DOMAIN ps : k # j => Carried(rs, ps, k)

LEMMA UniqueByRow ==
    ASSUME MoneyTypes, Unique, NEW q, Fresh(q, Paid), BookedBy(rows, rows', q),
           UNCHANGED <<setup, orders, issues>>
    PROVE  Unique' /\ \A j \in DOMAIN rows' : rows'[j].req \in 0..setup'.requests
<1>1. /\ setup.requests \in Nat /\ q \in 1..setup.requests /\ q # 0
      /\ \A i \in DOMAIN rows : rows[i].req # q
  BY FreshFacts DEF Paid
<1>2. PICK i \in DOMAIN rows' : /\ rows'[i].req = q
                                /\ \A j \in DOMAIN rows' : j # i => Carried(rows, rows', j)
  BY DEF BookedBy
<1>3. \A j \in DOMAIN rows : rows[j].req \in 0..setup.requests
  BY DEF MoneyTypes
<1>4. \A j, k \in DOMAIN rows' : rows'[j].req = rows'[k].req /\ rows'[j].req # 0 => j = k
  BY <1>1, <1>2 DEF Unique, Carried
<1>5. \A j \in DOMAIN rows' : rows'[j].req \in 0..setup'.requests
  BY <1>1, <1>2, <1>3 DEF Carried
<1> QED
  BY <1>4, <1>5 DEF Unique

\* No row is booked by the step.
LEMMA UniqueRows ==
    ASSUME MoneyTypes, Unique, \A j \in DOMAIN rows' : Carried(rows, rows', j), UNCHANGED setup
    PROVE  /\ \A i, j \in DOMAIN rows' : rows'[i].req = rows'[j].req /\ rows'[i].req # 0 => i = j
           /\ \A j \in DOMAIN rows' : rows'[j].req \in 0..setup'.requests
<1>1. setup.requests \in Nat /\ \A j \in DOMAIN rows : rows[j].req \in 0..setup.requests
  BY LedgerAssumption DEF MoneyTypes
<1> QED
  BY <1>1 DEF Unique, Carried

LEMMA UniqueOrders ==
    ASSUME MoneyTypes, Unique, NEW q, Fresh(q, Ordered), orders' = Append(orders, q),
           UNCHANGED setup
    PROVE  /\ orders' \in Seq(1..setup'.requests)
           /\ \A i, j \in DOMAIN orders' : orders'[i] = orders'[j] => i = j
<1>1. orders \in Seq(1..setup.requests) /\ q \in 1..setup.requests
  BY FreshFacts DEF MoneyTypes
<1>2. \A i \in DOMAIN orders : orders[i] # q
  BY FreshFacts DEF Ordered, ToSet
<1>3. /\ Len(orders) \in Nat /\ DOMAIN orders = 1..Len(orders)
      /\ orders' \in Seq(1..setup.requests) /\ DOMAIN orders' = 1..(Len(orders) + 1)
      /\ orders'[Len(orders) + 1] = q
      /\ \A i \in 1..Len(orders) : orders'[i] = orders[i]
  <2>1. /\ orders' \in Seq(1..setup.requests) /\ Len(orders') = Len(orders) + 1
        /\ orders'[Len(orders) + 1] = q /\ \A i \in 1..Len(orders) : orders'[i] = orders[i]
    BY <1>1
  <2> QED
    BY <1>1, <2>1, LenProperties
<1>4. \A i \in DOMAIN orders' : i \in DOMAIN orders \/ i = Len(orders) + 1
  BY <1>3
<1>5. \A i, j \in DOMAIN orders' : orders'[i] = orders'[j] => i = j
  BY <1>2, <1>3, <1>4 DEF Unique
<1> QED
  BY <1>3, <1>5

\* The rows after a receipt: what is confirmed and what is pending changes by the
\* amounts, and no row that was there is marked or loses its mark.
Booked(rs, ps, confirmed, pending) ==
    /\ ps \in Seq(MoneyRow) /\ DOMAIN rs \subseteq DOMAIN ps
    /\ Worth(ps, {"confirmed"}) = Worth(rs, {"confirmed"}) + confirmed
    /\ Worth(ps, {"refunded"}) = Worth(rs, {"refunded"})
    /\ Worth(ps, {"pending"}) = Worth(rs, {"pending"}) + pending
    /\ \A j \in DOMAIN rs : ps[j].late = rs[j].late

\* The row r is the row of a receipt.
BecameReceipt(row, amount, q, r) ==
    r = [row EXCEPT !.amount = amount, !.status = "confirmed", !.req = q]

Confirms(row, amount, q, r) ==
    /\ r \in MoneyRow /\ r.amount = amount /\ r.status = "confirmed" /\ r.req = q
    /\ r.late = row.late

Replaced(rs, i, r) == [rs EXCEPT ![i] = r]

Behind(rs, amount, due) == rs \o Some(Row(amount, "pending", due, 0))

LEMMA ConfirmedRow ==
    ASSUME NEW row \in MoneyRow, NEW amount \in Nat \ {0}, NEW q \in Nat, NEW r,
           BecameReceipt(row, amount, q, r)
    PROVE  Confirms(row, amount, q, r)
<1>1. row = [amount |-> row.amount, status |-> row.status, due |-> row.due, req |-> row.req,
             late |-> row.late]
  BY DEF MoneyRow
<1>2. r = [amount |-> amount, status |-> "confirmed", due |-> row.due, req |-> q,
           late |-> row.late]
  BY <1>1 DEF BecameReceipt
<1>3. row.due \in Dues /\ row.late \in BOOLEAN
  BY DEF MoneyRow
<1> QED
  BY <1>2, <1>3 DEF MoneyRow, Confirms

LEMMA NodeConfirmed ==
    ASSUME NEW rs \in Seq(MoneyRow), NEW i \in DOMAIN rs, rs[i].status = "pending",
           NEW amount \in Nat \ {0}, NEW q \in Nat \ {0}, NEW left \in Nat,
           NEW r, Confirms(rs[i], amount, q, r),
           NEW ps, ps = Behind(Replaced(rs, i, r), left, rs[i].due)
    PROVE  Booked(rs, ps, amount, left - rs[i].amount) /\ BookedBy(rs, ps, q)
<1> DEFINE mid == Replaced(rs, i, r)
<1>2. mid = [rs EXCEPT ![i] = r]
  BY DEF Replaced
<1>3. rs[i] \in MoneyRow /\ rs[i].due \in Dues /\ rs[i].amount \in Nat
  BY RowsFacts DEF MoneyRow
<1>4. /\ r \in MoneyRow /\ r.amount = amount /\ r.status = "confirmed" /\ r.req = q
      /\ r.late = rs[i].late
  BY DEF Confirms
<1>5. ps = mid \o Some(Row(left, "pending", rs[i].due, 0))
  BY DEF Behind
<1> HIDE DEF mid
<1>6. Exchanged(rs, mid, i, r)
  BY <1>2, <1>4, WorthOfChange
<1>7. mid \in Seq(MoneyRow) /\ Len(mid) = Len(rs) /\ Len(rs) \in Nat /\ DOMAIN rs = 1..Len(rs)
  BY <1>6, RowsFacts DEF Exchanged
<1>8. Lengthened(mid, ps, left, "pending", 0)
  BY <1>3, <1>5, <1>7, RowBehind
<1>9. ps \in Seq(MoneyRow) /\ Len(ps) \in {Len(rs), Len(rs) + 1}
  <2>1. ps \in Seq(MoneyRow) /\ Len(ps) = IF left = 0 THEN Len(rs) ELSE Len(rs) + 1
    BY <1>7, <1>8 DEF Lengthened
  <2> QED
    BY <1>7, <2>1
<1>10. DOMAIN ps = 1..Len(ps) /\ DOMAIN rs \subseteq DOMAIN ps
  <2>1. \A n \in Nat : 1..n \subseteq 1..(n + 1)
    OBVIOUS
  <2> QED
    BY <1>7, <1>9, <2>1, RowsFacts
<1>11. ASSUME NEW j \in DOMAIN ps
       PROVE  IF j \in DOMAIN rs THEN ps[j] = IF j = i THEN r ELSE rs[j]
              ELSE ps[j].req = 0
  <2>1. IF j <= Len(rs) THEN ps[j] = mid[j] ELSE ps[j].req = 0
    BY <1>7, <1>8, <1>10 DEF Lengthened
  <2>2. ASSUME j \in DOMAIN rs PROVE ps[j] = IF j = i THEN r ELSE rs[j]
    <3>1. j <= Len(rs)
      BY <1>7, <2>2
    <3>2. mid[j] = IF j = i THEN r ELSE rs[j]
      BY <1>6, <2>2 DEF Exchanged
    <3> QED
      BY <2>1, <3>1, <3>2
  <2>3. j \notin DOMAIN rs => ~(j <= Len(rs))
    BY <1>7, <1>10
  <2> QED
    BY <2>1, <2>2, <2>3
<1>12. /\ Worth(ps, {"confirmed"}) = Worth(rs, {"confirmed"}) + amount
       /\ Worth(ps, {"refunded"}) = Worth(rs, {"refunded"})
       /\ Worth(ps, {"pending"}) = Worth(rs, {"pending"}) + (left - rs[i].amount)
  <2>1. /\ Counted(rs[i], {"confirmed"}) = 0 /\ Counted(r, {"confirmed"}) = amount
        /\ Counted(rs[i], {"refunded"}) = 0 /\ Counted(r, {"refunded"}) = 0
        /\ Counted(rs[i], {"pending"}) = rs[i].amount /\ Counted(r, {"pending"}) = 0
    BY <1>4 DEF Counted
  <2>2. /\ Worth(mid, {"confirmed"}) + 0 = Worth(rs, {"confirmed"}) + amount
        /\ Worth(mid, {"refunded"}) + 0 = Worth(rs, {"refunded"}) + 0
        /\ Worth(mid, {"pending"}) + rs[i].amount = Worth(rs, {"pending"}) + 0
    BY <1>6, <2>1 DEF Exchanged
  <2>3. /\ Worth(ps, {"confirmed"}) = Worth(mid, {"confirmed"}) + 0
        /\ Worth(ps, {"refunded"}) = Worth(mid, {"refunded"}) + 0
        /\ Worth(ps, {"pending"}) = Worth(mid, {"pending"}) + left
    BY <1>8 DEF Lengthened
  <2>4. \A kinds : Worth(rs, kinds) \in Nat /\ Worth(mid, kinds) \in Nat
    BY <1>7, WorthIsNat
  <2>5. /\ Worth(rs, {"confirmed"}) \in Nat /\ Worth(rs, {"refunded"}) \in Nat
        /\ Worth(rs, {"pending"}) \in Nat /\ Worth(mid, {"confirmed"}) \in Nat
        /\ Worth(mid, {"refunded"}) \in Nat /\ Worth(mid, {"pending"}) \in Nat
        /\ rs[i].amount \in Nat /\ amount \in Nat /\ left \in Nat
    BY <1>3, <2>4
  <2> QED
    BY ONLY <2>2, <2>3, <2>5
<1>13. \A j \in DOMAIN rs : ps[j].late = rs[j].late
  BY <1>4, <1>10, <1>11
<1>14. Booked(rs, ps, amount, left - rs[i].amount)
  BY <1>9, <1>10, <1>12, <1>13 DEF Booked
<1>15. i \in DOMAIN ps /\ ps[i].req = q /\ \A k \in DOMAIN ps : k # i => Carried(rs, ps, k)
  BY <1>4, <1>10, <1>11 DEF Carried
<1> QED
  BY <1>14, <1>15 DEF BookedBy

\* The sums after a step that receives an amount and leaves so much pending.
LEMMA SumsAfter ==
    ASSUME MoneyTypes, Sums, NEW got \in Nat, NEW more \in Int, NEW scope \in Nat,
           Booked(rows, rows', got, more), total' = total + scope, UNCHANGED issues,
           scope = 0 \/ ~Terminated,
           got <= Outstanding + scope,
           Clean => Worth(rows, {"pending"}) + more <= Outstanding + scope - got
    PROVE  Sums'
<1>1. /\ Received \in Nat /\ Worth(rows, {"refunded"}) \in Nat
      /\ Impacts(issues) \in Nat /\ Refunds(issues) \in Nat
      /\ Outstanding = IF total - Received - Impacts(issues) >= 0
                       THEN total - Received - Impacts(issues) ELSE 0
  BY MoneyIs
<1>2. /\ Worth(rows', {"confirmed"}) = Worth(rows, {"confirmed"}) + got
      /\ Worth(rows', {"refunded"}) = Worth(rows, {"refunded"})
      /\ Worth(rows', {"pending"}) = Worth(rows, {"pending"}) + more
      /\ DOMAIN rows \subseteq DOMAIN rows' /\ \A j \in DOMAIN rows : rows'[j].late = rows[j].late
  BY DEF Booked
<1>3. \A kinds : Worth(rows, kinds) \in Nat
  BY WorthIsNat DEF MoneyTypes
<1>4. Received' = Received + got
  BY <1>2, <1>3 DEF Received
<1>5. Clean' => Clean
  BY <1>2 DEF Clean
<1>6. total \in Nat /\ total' = total + scope
  BY DEF MoneyTypes
<1>7. ASSUME Clean'
      PROVE  /\ Received' + Impacts(issues') <= total'
             /\ Worth(rows', {"pending"}) <= total' - Received' - Impacts(issues')
             /\ (\E x \in issues' : x.terminal) => total' - Received' - Impacts(issues') = 0
  <2> DEFINE R == Received  I == Impacts(issues)  P == Worth(rows, {"pending"})
             O == Outstanding
  <2>1. R + I <= total /\ P <= total - R - I /\ (Terminated => total - R - I = 0)
    BY <1>5, <1>7 DEF Sums, Terminated
  <2>2. P + more <= O + scope - got
    BY <1>5, <1>7
  <2>3. O = IF total - R - I >= 0 THEN total - R - I ELSE 0
    BY <1>1
  <2>4. R \in Nat /\ I \in Nat /\ P \in Nat
    BY <1>1, <1>3
  <2>5. got <= O + scope
    OBVIOUS
  <2>6. Worth(rows', {"pending"}) = P + more
    BY <1>2
  <2>8. Received' = R + got
    BY <1>4
  <2>7. Impacts(issues') = I
    OBVIOUS
  <2> HIDE DEF R, I, P, O
  <2>9. O = total - R - I
    BY <1>6, <2>1, <2>3, <2>4
  <2>10. Received' + Impacts(issues') <= total'
    BY ONLY <1>6, <2>4, <2>5, <2>7, <2>8, <2>9, got \in Nat, scope \in Nat
  <2>11. Worth(rows', {"pending"}) <= total' - Received' - Impacts(issues')
    BY ONLY <1>6, <2>2, <2>4, <2>6, <2>7, <2>8, <2>9, got \in Nat, scope \in Nat, more \in Int
  <2>12. ASSUME \E x \in issues' : x.terminal
         PROVE  total' - Received' - Impacts(issues') = 0
    <3>1. Terminated
      BY <2>12 DEF Terminated
    <3>2. scope = 0 /\ total - R - I = 0
      BY <2>1, <3>1
    <3>3. got <= 0
      BY <2>5, <2>9, <3>2
    <3> QED
      BY ONLY <1>6, <2>4, <2>7, <2>8, <3>2, <3>3, got \in Nat
  <2> QED
    BY <2>10, <2>11, <2>12
<1>8. Worth(rows', {"refunded"}) + Refunds(issues') <= Received'
  <2>1. Worth(rows, {"refunded"}) + Refunds(issues) <= Received
    BY DEF Sums
  <2> QED
    BY <1>1, <1>2, <1>4, <2>1
<1> QED
  BY <1>7, <1>8 DEF Sums

LEMMA ConfirmNodeAddsUp ==
    ASSUME MoneyInv, NEW b, NEW q, NEW i, NEW amount, ConfirmNode(b, q, i, amount)
    PROVE  MoneyInv'
<1> USE DEF MoneyInv
<1> DEFINE A == rows[i].amount
           left == Min({A, Outstanding}) - amount
           r == [rows[i] EXCEPT !.amount = amount, !.status = "confirmed", !.req = q]
           mid == Replaced(rows, i, r)
<1>1. rows \in Seq(MoneyRow) /\ \A j \in DOMAIN rows : rows[j] \in MoneyRow
  BY RowsFacts DEF MoneyTypes
<1>2. /\ i \in DOMAIN rows /\ rows[i].status = "pending" /\ Fresh(q, Paid)
      /\ amount \in 1..Min({Outstanding, A})
      /\ UNCHANGED <<setup, total, orders, issues>>
  BY DEF ConfirmNode, With
<1>3. rows' = [rows EXCEPT ![i].amount = amount, ![i].status = "confirmed", ![i].req = q]
                  \o Some(Row(left, "pending", rows[i].due, 0))
  BY DEF ConfirmNode
<1>16. [rows EXCEPT ![i].amount = amount, ![i].status = "confirmed", ![i].req = q] = mid
  BY <1>1, <1>2 DEF Replaced
<1>18. BecameReceipt(rows[i], amount, q, r)
  BY DEF BecameReceipt
<1>19. rows' = Behind(mid, left, rows[i].due)
  <2> HIDE DEF mid, left
  <2> QED
    BY ONLY <1>3, <1>16 DEF Behind
<1>17. mid = Replaced(rows, i, r)
  OBVIOUS
<1> HIDE DEF r, mid
<1>4. A \in Nat /\ Outstanding \in Nat
  <2>1. A \in Nat
    BY <1>1, <1>2 DEF MoneyRow
  <2>2. Outstanding \in Nat
    BY MoneyIs DEF MoneyTypes
  <2> QED
    BY <2>1, <2>2
<1>5. /\ Min({Outstanding, A}) = IF Outstanding <= A THEN Outstanding ELSE A
      /\ Min({A, Outstanding}) = IF A <= Outstanding THEN A ELSE Outstanding
  BY <1>4, Lesser
<1>6. amount \in 1..Min({Outstanding, A})
  BY <1>2
<1>7. left = Min({A, Outstanding}) - amount
  OBVIOUS
<1> HIDE DEF A, left
<1>8. /\ amount \in Nat \ {0} /\ amount <= Outstanding /\ amount <= A
      /\ left \in Nat /\ left <= A - amount /\ left <= Outstanding - amount
  BY ONLY <1>4, <1>5, <1>6, <1>7
<1>9. q \in Nat \ {0}
  BY <1>2, FreshFacts
<1>20. Confirms(rows[i], amount, q, r)
  <2>1. rows[i] \in MoneyRow /\ amount \in Nat \ {0} /\ q \in Nat
    BY <1>1, <1>2, <1>8, <1>9
  <2> QED
    BY ONLY <2>1, <1>18, ConfirmedRow
<1>10. Booked(rows, rows', amount, left - A) /\ BookedBy(rows, rows', q)
  <2>1. /\ rows \in Seq(MoneyRow) /\ i \in DOMAIN rows /\ rows[i].status = "pending"
        /\ amount \in Nat \ {0} /\ q \in Nat \ {0} /\ left \in Nat
    BY <1>1, <1>2, <1>8, <1>9
  <2> QED
    BY ONLY <2>1, <1>17, <1>19, <1>20, NodeConfirmed DEF A
<1>11. rows' \in Seq(MoneyRow)
  BY <1>10 DEF Booked
<1>12. Unique' /\ \A j \in DOMAIN rows' : rows'[j].req \in 0..setup'.requests
  BY <1>2, <1>10, UniqueByRow
<1>13. MoneyTypes'
  BY <1>2, <1>11, <1>12 DEF MoneyTypes
<1>14. Clean => Worth(rows, {"pending"}) + (left - A) <= Outstanding + 0 - amount
  <2> SUFFICES ASSUME Clean
               PROVE  Worth(rows, {"pending"}) + (left - A) <= Outstanding + 0 - amount
    OBVIOUS
  <2>1. Worth(rows, {"pending"}) <= total - Received - Impacts(issues)
    BY DEF Sums
  <2>2. Worth(rows, {"pending"}) \in Nat /\ Received \in Nat /\ Impacts(issues) \in Nat
    BY MoneyIs
  <2>3. Worth(rows, {"pending"}) <= Outstanding
    BY <2>1, <2>2, MoneyIs DEF MoneyTypes
  <2> QED
    BY ONLY <1>4, <1>8, <2>2, <2>3
<1>15. Sums'
  <2>1. amount \in Nat /\ left - A \in Int /\ amount <= Outstanding + 0
    BY <1>4, <1>8
  <2>2. total' = total + 0
    BY <1>2 DEF MoneyTypes
  <2> QED
    BY <1>2, <1>10, <1>14, <2>1, <2>2, SumsAfter
<1> QED
  BY <1>12, <1>13, <1>15

\* Two rows of amounts are put behind the others.
LEMMA TwoBehind ==
    ASSUME NEW rs \in Seq(MoneyRow), NEW x \in Nat, NEW y \in Nat, NEW q \in Nat, NEW mid, NEW ps,
           Lengthened(rs, mid, x, "confirmed", q), Lengthened(mid, ps, y, "pending", 0)
    PROVE  /\ Booked(rs, ps, x, y)
           /\ q = 0 => \A j \in DOMAIN ps : Carried(rs, ps, j)
           /\ x # 0 => BookedBy(rs, ps, q)
<1>1. /\ mid \in Seq(MoneyRow) /\ ps \in Seq(MoneyRow)
      /\ Len(mid) = IF x = 0 THEN Len(rs) ELSE Len(rs) + 1
      /\ Len(ps) = IF y = 0 THEN Len(mid) ELSE Len(mid) + 1
  BY DEF Lengthened
<1>2. /\ DOMAIN rs = 1..Len(rs) /\ DOMAIN ps = 1..Len(ps)
      /\ Len(rs) \in Nat /\ Len(mid) \in Nat /\ Len(ps) \in Nat
  BY <1>1, RowsFacts
<1>3. Len(rs) <= Len(mid) /\ Len(mid) <= Len(ps)
  <2>1. \A m, n \in Nat : n = m \/ n = m + 1 => m <= n
    OBVIOUS
  <2>2. Len(mid) = Len(rs) \/ Len(mid) = Len(rs) + 1
    BY <1>1, <1>2
  <2>3. Len(ps) = Len(mid) \/ Len(ps) = Len(mid) + 1
    BY <1>1, <1>2
  <2> QED
    BY <1>2, <2>1, <2>2, <2>3
<1>4. ASSUME NEW j \in DOMAIN ps
      PROVE  IF j \in DOMAIN rs THEN ps[j] = rs[j]
             ELSE ps[j].req = 0 \/ (j = Len(rs) + 1 /\ ps[j].req = q)
  <2>1. j \in Nat /\ j >= 1 /\ j \in 1..Len(ps)
    BY <1>2
  <2>2. IF j <= Len(mid) THEN ps[j] = mid[j] ELSE ps[j].req = 0
    BY <2>1 DEF Lengthened
  <2>3. ASSUME j <= Len(mid)
        PROVE  IF j <= Len(rs) THEN mid[j] = rs[j] ELSE j = Len(rs) + 1 /\ mid[j].req = q
    <3>1. j \in 1..Len(mid)
      BY <1>2, <2>1, <2>3
    <3> QED
      BY <3>1 DEF Lengthened
  <2>4. j \in DOMAIN rs <=> j <= Len(rs)
    BY <1>2, <2>1
  <2>5. j <= Len(rs) => j <= Len(mid)
    BY <1>2, <1>3, <2>1
  <2> QED
    BY <2>2, <2>3, <2>4, <2>5
<1>5. DOMAIN rs \subseteq DOMAIN ps
  BY <1>2, <1>3
<1>6. /\ Worth(ps, {"confirmed"}) = Worth(rs, {"confirmed"}) + x
      /\ Worth(ps, {"refunded"}) = Worth(rs, {"refunded"})
      /\ Worth(ps, {"pending"}) = Worth(rs, {"pending"}) + y
  <2>1. /\ Worth(mid, {"confirmed"}) = Worth(rs, {"confirmed"}) + x
        /\ Worth(mid, {"refunded"}) = Worth(rs, {"refunded"}) + 0
        /\ Worth(mid, {"pending"}) = Worth(rs, {"pending"}) + 0
    BY DEF Lengthened
  <2>2. /\ Worth(ps, {"confirmed"}) = Worth(mid, {"confirmed"}) + 0
        /\ Worth(ps, {"refunded"}) = Worth(mid, {"refunded"}) + 0
        /\ Worth(ps, {"pending"}) = Worth(mid, {"pending"}) + y
    BY DEF Lengthened
  <2>3. /\ Worth(rs, {"confirmed"}) \in Nat /\ Worth(rs, {"refunded"}) \in Nat
        /\ Worth(rs, {"pending"}) \in Nat /\ Worth(mid, {"confirmed"}) \in Nat
        /\ Worth(mid, {"refunded"}) \in Nat /\ Worth(mid, {"pending"}) \in Nat
    BY <1>1, WorthIsNat
  <2> QED
    BY ONLY <2>1, <2>2, <2>3, x \in Nat, y \in Nat
<1>7. Booked(rs, ps, x, y)
  <2>1. \A j \in DOMAIN rs : ps[j].late = rs[j].late
    BY <1>4, <1>5
  <2> QED
    BY <1>1, <1>5, <1>6, <2>1 DEF Booked
<1>8. ASSUME q = 0, NEW j \in DOMAIN ps PROVE Carried(rs, ps, j)
  BY <1>4, <1>8 DEF Carried
<1>9. ASSUME x # 0 PROVE BookedBy(rs, ps, q)
  <2> DEFINE n == Len(rs) + 1
  <2>1. Len(mid) = n
    BY <1>1, <1>9
  <2>2. n \in DOMAIN ps /\ n \in 1..Len(mid) /\ n \in 1..Len(ps) /\ ~(n <= Len(rs))
    BY <1>2, <1>3, <2>1
  <2>6. /\ \A j \in 1..Len(ps) : j <= Len(mid) => ps[j] = mid[j]
        /\ \A j \in 1..Len(mid) : ~(j <= Len(rs)) => mid[j].req = q
    BY DEF Lengthened
  <2>7. n <= Len(mid)
    BY <1>2, <2>1
  <2> HIDE DEF n
  <2>3. ps[n] = mid[n]
    BY <2>2, <2>6, <2>7
  <2>4. mid[n].req = q
    BY <2>2, <2>6
  <2>5. \A k \in DOMAIN ps : k # n => Carried(rs, ps, k)
    BY <1>4 DEF Carried, n
  <2> QED
    BY <2>2, <2>3, <2>4, <2>5 DEF BookedBy
<1> QED
  BY <1>7, <1>8, <1>9

LEMMA ConfirmUnplannedAddsUp ==
    ASSUME MoneyInv, NEW b, NEW q, NEW amount, NEW due \in Dues,
           ConfirmUnplanned(b, q, amount, due)
    PROVE  MoneyInv'
<1> USE DEF MoneyInv
<1> DEFINE left == Outstanding - amount
           got == Row(amount, "confirmed", due, q)
           mid == rows \o <<got>>
<1>1. rows \in Seq(MoneyRow) /\ total \in Nat
  BY DEF MoneyTypes
<1>2. /\ Fresh(q, Paid) /\ With("pending") = {} /\ amount \in 1..Outstanding
      /\ UNCHANGED <<setup, total, orders, issues>>
  BY DEF ConfirmUnplanned
<1>3. rows' = mid \o Some(Row(left, "pending", due, 0))
  BY DEF ConfirmUnplanned
<1>4. Outstanding \in Nat
  BY MoneyIs DEF MoneyTypes
<1>5. amount \in Nat \ {0} /\ left \in Nat /\ amount <= Outstanding
  BY <1>2, <1>4
<1>6. q \in Nat \ {0}
  BY <1>2, FreshFacts
<1>7. Some(got) = <<got>>
  <2>1. AtMostRow(Some(got), got, amount, "confirmed")
    BY <1>5, <1>6, SomeRow
  <2> HIDE DEF got
  <2> QED
    BY <1>5, <2>1 DEF AtMostRow
<1>8. mid = rows \o Some(Row(amount, "confirmed", due, q))
  BY <1>7
<1>9. left = Outstanding - amount
  OBVIOUS
<1> HIDE DEF mid, left, got
<1>10. Lengthened(rows, mid, amount, "confirmed", q)
  BY <1>1, <1>5, <1>6, <1>8, RowBehind
<1>11. Lengthened(mid, rows', left, "pending", 0)
  <2>1. mid \in Seq(MoneyRow)
    BY <1>10 DEF Lengthened
  <2> QED
    BY <1>3, <1>5, <2>1, RowBehind
<1>12. Booked(rows, rows', amount, left) /\ BookedBy(rows, rows', q)
  BY <1>1, <1>5, <1>6, <1>10, <1>11, TwoBehind
<1>13. rows' \in Seq(MoneyRow)
  BY <1>12 DEF Booked
<1>14. Unique' /\ \A j \in DOMAIN rows' : rows'[j].req \in 0..setup'.requests
  BY <1>2, <1>12, UniqueByRow
<1>15. MoneyTypes'
  BY <1>2, <1>13, <1>14 DEF MoneyTypes
<1>16. Worth(rows, {"pending"}) = 0
  <2>1. Pending = Worth(rows, {"pending"})
    BY MoneyIs
  <2>2. Pending = Amount({})
    BY <1>2 DEF Pending
  <2>3. Amount({}) = Sum([i \in DOMAIN rows |-> rows[i].amount], {})
    BY AmountIs DEF Amount
  <2>4. Amount({}) = 0
    BY <2>3, SumStep, FS_EmptySet
  <2> QED
    BY <2>1, <2>2, <2>4
<1>17. Sums'
  <2>1. amount \in Nat /\ left \in Int /\ amount <= Outstanding + 0 /\ 0 \in Nat
    BY <1>4, <1>5
  <2>2. total' = total + 0
    BY <1>1, <1>2
  <2>3. Worth(rows, {"pending"}) + left <= Outstanding + 0 - amount
    BY <1>4, <1>5, <1>9, <1>16
  <2> QED
    BY <1>2, <1>12, <2>1, <2>2, <2>3, SumsAfter
<1> QED
  BY <1>14, <1>15, <1>17

LEMMA ChangeOrderAddsUp ==
    ASSUME MoneyInv, NEW b, NEW q, NEW paid \in Nat, NEW planned \in Nat, NEW due \in Dues,
           CreateChangeOrder(b, q, paid, planned, due)
    PROVE  MoneyInv'
<1> USE DEF MoneyInv
<1> DEFINE mid == rows \o Some(Row(paid, "confirmed", due, 0))
<1>1. rows \in Seq(MoneyRow) /\ total \in Nat
  BY DEF MoneyTypes
<1>2. /\ Fresh(q, Ordered) /\ ~Terminated /\ total' = total + paid + planned
      /\ orders' = Append(orders, q) /\ UNCHANGED <<setup, issues>>
  BY DEF CreateChangeOrder
<1>3. rows' = mid \o Some(Row(planned, "pending", due, 0))
  BY DEF CreateChangeOrder
<1>4. mid = rows \o Some(Row(paid, "confirmed", due, 0))
  OBVIOUS
<1> HIDE DEF mid
<1>5. Lengthened(rows, mid, paid, "confirmed", 0)
  BY <1>1, <1>4, RowBehind
<1>6. Lengthened(mid, rows', planned, "pending", 0)
  <2>1. mid \in Seq(MoneyRow)
    BY <1>5 DEF Lengthened
  <2> QED
    BY <1>3, <2>1, RowBehind
<1>7. Booked(rows, rows', paid, planned) /\ \A j \in DOMAIN rows' : Carried(rows, rows', j)
  BY <1>1, <1>5, <1>6, TwoBehind
<1>8. rows' \in Seq(MoneyRow)
  BY <1>7 DEF Booked
<1>9. /\ Unique' /\ orders' \in Seq(1..setup'.requests)
      /\ \A j \in DOMAIN rows' : rows'[j].req \in 0..setup'.requests
  BY <1>2, <1>7, UniqueRows, UniqueOrders DEF Unique
<1>10. MoneyTypes'
  <2>1. total' \in Nat
    BY <1>1, <1>2
  <2> QED
    BY <1>2, <1>8, <1>9, <2>1 DEF MoneyTypes
<1>11. Sums'
  <2> DEFINE scope == paid + planned
  <2>1. scope \in Nat /\ planned \in Int /\ total' = total + scope
    BY <1>1, <1>2
  <2>2. /\ Outstanding \in Nat /\ Worth(rows, {"pending"}) \in Nat
        /\ Received \in Nat /\ Impacts(issues) \in Nat
        /\ Outstanding = IF total - Received - Impacts(issues) >= 0
                         THEN total - Received - Impacts(issues) ELSE 0
    BY <1>1, MoneyIs
  <2>3. paid <= Outstanding + scope
    BY <2>2
  <2>4. Clean => Worth(rows, {"pending"}) <= total - Received - Impacts(issues)
    BY DEF Sums
  <2>5. Clean => Worth(rows, {"pending"}) + planned <= Outstanding + scope - paid
    BY ONLY <1>1, <2>2, <2>4, paid \in Nat, planned \in Nat
  <2> HIDE DEF scope
  <2> QED
    BY <1>2, <1>7, <2>1, <2>3, <2>5, SumsAfter
<1> QED
  BY <1>9, <1>10, <1>11

-----------------------------------------------------------------------------
(* The quick accounting puts a row in front.                               *)

\* The row r is in front of the others.
InFront(rs, ps, r) ==
    /\ ps \in Seq(MoneyRow)
    /\ \A kinds : Worth(ps, kinds) = Counted(r, kinds) + Worth(rs, kinds)
    /\ 1 \in DOMAIN ps /\ ps[1] = r
    /\ \A j \in DOMAIN rs : j + 1 \in DOMAIN ps /\ ps[j + 1] = rs[j]
    /\ \A j \in DOMAIN ps : j # 1 => j - 1 \in DOMAIN rs /\ ps[j] = rs[j - 1]

LEMMA RowInFront ==
    ASSUME NEW rs \in Seq(MoneyRow), NEW r \in MoneyRow, NEW ps, ps = <<r>> \o rs
    PROVE  InFront(rs, ps, r)
<1> DEFINE one == <<r>>
<1>1. one \in Seq(MoneyRow) /\ Len(one) = 1 /\ one[1] = r
  OBVIOUS
<1>2. \A kinds : Worth(one, kinds) = Counted(r, kinds)
  BY WorthOfOne
<1>3. ps = one \o rs
  OBVIOUS
<1> HIDE DEF one
<1>4. /\ ps \in Seq(MoneyRow) /\ Len(ps) = 1 + Len(rs)
      /\ \A i \in 1..(1 + Len(rs)) : ps[i] = IF i <= 1 THEN one[i] ELSE rs[i - 1]
  BY <1>1, <1>3, ConcatProperties
<1>5. \A kinds : Worth(ps, kinds) = Counted(r, kinds) + Worth(rs, kinds)
  BY <1>1, <1>2, <1>3, WorthOfBoth
<1>6. /\ DOMAIN ps = 1..(1 + Len(rs)) /\ DOMAIN rs = 1..Len(rs) /\ Len(rs) \in Nat
  BY <1>4, RowsFacts
<1>7. 1 \in DOMAIN ps /\ ps[1] = r
  BY <1>1, <1>4, <1>6
<1>8. ASSUME NEW j \in DOMAIN rs PROVE j + 1 \in DOMAIN ps /\ ps[j + 1] = rs[j]
  <2>1. j \in Nat /\ j + 1 \in 1..(1 + Len(rs)) /\ ~(j + 1 <= 1) /\ (j + 1) - 1 = j
    BY <1>6
  <2> QED
    BY <1>4, <1>6, <2>1
<1>9. ASSUME NEW j \in DOMAIN ps, j # 1 PROVE j - 1 \in DOMAIN rs /\ ps[j] = rs[j - 1]
  <2>1. j - 1 \in 1..Len(rs) /\ ~(j <= 1)
    BY <1>6, <1>9
  <2> QED
    BY <1>4, <1>6, <2>1
<1> QED
  BY <1>4, <1>5, <1>7, <1>8, <1>9 DEF InFront

\* A row that no request booked is in front of the others.
LEMMA UniqueInFront ==
    ASSUME MoneyTypes, Unique, NEW r, InFront(rows, rows', r), r.req = 0,
           UNCHANGED <<setup, orders, issues>>
    PROVE  Unique' /\ \A j \in DOMAIN rows' : rows'[j].req \in 0..setup'.requests
<1>1. setup.requests \in Nat /\ \A j \in DOMAIN rows : rows[j].req \in 0..setup.requests
  BY LedgerAssumption DEF MoneyTypes
<1>2. \A j \in DOMAIN rows' :
         rows'[j].req = 0 \/ (j - 1 \in DOMAIN rows /\ rows'[j].req = rows[j - 1].req)
  BY DEF InFront
<1>3. DOMAIN rows' \subseteq Nat
  BY RowsFacts DEF InFront
<1>4. \A j, k \in DOMAIN rows' : rows'[j].req = rows'[k].req /\ rows'[j].req # 0 => j = k
  <2> SUFFICES ASSUME NEW j \in DOMAIN rows', NEW k \in DOMAIN rows',
                      rows'[j].req = rows'[k].req, rows'[j].req # 0
               PROVE  j = k
    OBVIOUS
  <2>1. j - 1 = k - 1
    BY <1>2 DEF Unique
  <2> QED
    BY <1>3, <2>1
<1>5. \A j \in DOMAIN rows' : rows'[j].req \in 0..setup'.requests
  BY <1>1, <1>2
<1> QED
  BY <1>4, <1>5 DEF Unique

\* The row of the quick accounting.
QuickRow(row, late, r) == r = [row EXCEPT !.late = late]

IsQuick(row, late, r) ==
    /\ r \in MoneyRow /\ r.amount = row.amount /\ r.status = row.status /\ r.req = row.req
    /\ r.late = late

LEMMA QuickRowIs ==
    ASSUME NEW row \in MoneyRow, NEW late \in BOOLEAN, NEW r, QuickRow(row, late, r)
    PROVE  IsQuick(row, late, r)
<1>1. row = [amount |-> row.amount, status |-> row.status, due |-> row.due, req |-> row.req,
             late |-> row.late]
  BY DEF MoneyRow
<1>2. r = [amount |-> row.amount, status |-> row.status, due |-> row.due, req |-> row.req,
           late |-> late]
  BY <1>1 DEF QuickRow
<1> QED
  BY <1>2 DEF MoneyRow, IsQuick

\* What the rows add up to that are not written off.
LEMMA NotWrittenOff ==
    ASSUME MoneyTypes
    PROVE  Amount(DOMAIN rows \ With("written_off")) = Worth(rows, {"pending"}) + Received
<1> DEFINE is == DOMAIN rows \ With("written_off")
           all == {"confirmed"} \cup {"refunded"}
<1>1. rows \in Seq(MoneyRow) /\ \A i \in DOMAIN rows : rows[i] \in MoneyRow
  BY RowsFacts DEF MoneyTypes
<1>2. \A i \in DOMAIN rows : rows[i].status \in {"pending", "confirmed", "refunded", "written_off"}
  BY <1>1 DEF MoneyRow
<1>3. is = {i \in DOMAIN rows : rows[i].status \in {"pending"} \cup all}
  BY <1>2 DEF With
<1>4. MapThenSumSet(LAMBDA i : rows[i].amount, is) = Worth(rows, {"pending"} \cup all)
  BY <1>1, <1>3, AmountIsWorth
<1>5. Worth(rows, {"pending"} \cup all) = Worth(rows, {"pending"}) + Worth(rows, all)
  BY <1>1, WorthOfKinds
<1>6. Worth(rows, all) = Received
  BY <1>1, WorthOfKinds DEF Received
<1> QED
  BY <1>4, <1>5, <1>6 DEF Amount

LEMMA QuickAccountAddsUp ==
    ASSUME MoneyInv, NEW b, NEW status \in {"confirmed", "pending"}, NEW amount \in Nat \ {0},
           NEW due \in Dues, QuickAccount(b, status, amount, due)
    PROVE  MoneyInv'
<1> USE DEF MoneyInv
<1> DEFINE row == Row(amount, status, due, 0)
           late == issues # {}
           r == [row EXCEPT !.late = late]
<1>1. rows \in Seq(MoneyRow) /\ total \in Nat
  BY DEF MoneyTypes
<1>2. /\ total' = Max({total, Amount(DOMAIN rows \ With("written_off")) + amount})
      /\ rows' = <<r>> \o rows
      /\ UNCHANGED <<setup, orders, issues>>
  BY DEF QuickAccount
<1>3. row \in MoneyRow /\ row.amount = amount /\ row.status = status /\ row.req = 0
  BY RowIsOne
<1>4. QuickRow(row, late, r)
  BY DEF QuickRow
<1>5. late \in BOOLEAN /\ late = (issues # {})
  OBVIOUS
<1> HIDE DEF row, late, r
<1>6. IsQuick(row, late, r)
  BY <1>3, <1>4, <1>5, QuickRowIs
<1>7. r \in MoneyRow /\ r.amount = amount /\ r.status = status /\ r.req = 0 /\ r.late = late
  BY <1>3, <1>6 DEF IsQuick
<1>8. InFront(rows, rows', r)
  BY <1>1, <1>2, <1>7, RowInFront
<1>9. Unique' /\ \A j \in DOMAIN rows' : rows'[j].req \in 0..setup'.requests
  BY <1>2, <1>7, <1>8, UniqueInFront
<1>10. /\ Received \in Nat /\ Worth(rows, {"pending"}) \in Nat /\ Worth(rows, {"refunded"}) \in Nat
       /\ Worth(rows, {"confirmed"}) \in Nat /\ Refunds(issues) \in Nat
  BY <1>1, MoneyIs, WorthIsNat
<1>11. /\ total' = IF total >= Worth(rows, {"pending"}) + Received + amount THEN total
                   ELSE Worth(rows, {"pending"}) + Received + amount
       /\ total' \in Nat
  <2> DEFINE sum == Worth(rows, {"pending"}) + Received + amount
  <2>1. sum \in Nat
    BY <1>10
  <2>2. total' = Max({total, sum})
    BY <1>2, NotWrittenOff
  <2> HIDE DEF sum
  <2>3. total' = IF total >= sum THEN total ELSE sum
    BY <1>1, <2>1, <2>2, Greater
  <2>4. total' \in Nat
    BY <1>1, <2>1, <2>3
  <2> QED
    BY <2>3, <2>4 DEF sum
<1>12. MoneyTypes'
  <2>1. rows' \in Seq(MoneyRow)
    BY <1>8 DEF InFront
  <2> QED
    BY <1>2, <1>9, <1>11, <2>1 DEF MoneyTypes
<1>13. /\ Worth(rows', {"refunded"}) = Worth(rows, {"refunded"})
       /\ Received' = Received + Counted(r, {"confirmed"})
       /\ Worth(rows', {"pending"}) = Counted(r, {"pending"}) + Worth(rows, {"pending"})
       /\ Counted(r, {"confirmed"}) \in Nat /\ Counted(r, {"pending"}) \in Nat
       /\ Counted(r, {"confirmed"}) + Counted(r, {"pending"}) = amount
  <2>1. /\ Counted(r, {"refunded"}) = 0
        /\ Counted(r, {"confirmed"}) \in Nat /\ Counted(r, {"pending"}) \in Nat
        /\ Counted(r, {"confirmed"}) + Counted(r, {"pending"}) = amount
    BY <1>7 DEF Counted
  <2>2. /\ Worth(rows', {"confirmed"}) = Counted(r, {"confirmed"}) + Worth(rows, {"confirmed"})
        /\ Worth(rows', {"refunded"}) = Counted(r, {"refunded"}) + Worth(rows, {"refunded"})
        /\ Worth(rows', {"pending"}) = Counted(r, {"pending"}) + Worth(rows, {"pending"})
    BY <1>8 DEF InFront
  <2> QED
    BY <1>10, <2>1, <2>2 DEF Received
<1>14. Sums'
  <2>1. Worth(rows', {"refunded"}) + Refunds(issues') <= Received'
    <3>1. Worth(rows, {"refunded"}) + Refunds(issues) <= Received
      BY DEF Sums
    <3>2. Refunds(issues') = Refunds(issues)
      BY <1>2
    <3> QED
      BY ONLY <1>10, <1>13, <3>1, <3>2
  <2>2. ASSUME Clean'
        PROVE  /\ Received' + Impacts(issues') <= total'
               /\ Worth(rows', {"pending"}) <= total' - Received' - Impacts(issues')
               /\ (\E x \in issues' : x.terminal) => total' - Received' - Impacts(issues') = 0
    <3>1. ~late
      BY <1>7, <1>8, <2>2 DEF Clean, InFront
    <3>2. issues = {} /\ issues' = {}
      BY <1>2, <1>5, <3>1
    <3>3. Impacts(issues') = 0
      BY <3>2, FS_EmptySet, IssueSums
    <3>4. Received' + Worth(rows', {"pending"}) = Worth(rows, {"pending"}) + Received + amount
      BY ONLY <1>10, <1>13, amount \in Nat
    <3>5. Received' + Worth(rows', {"pending"}) <= total'
      BY ONLY <1>1, <1>10, <1>11, <3>4, amount \in Nat
    <3>6. Received' \in Nat /\ Worth(rows', {"pending"}) \in Nat
      BY ONLY <1>10, <1>13
    <3>7. /\ Received' + Impacts(issues') <= total'
          /\ Worth(rows', {"pending"}) <= total' - Received' - Impacts(issues')
      BY ONLY <1>11, <3>3, <3>5, <3>6
    <3> QED
      BY <3>2, <3>7
  <2> QED
    BY <2>1, <2>2 DEF Sums
<1> QED
  BY <1>9, <1>12, <1>14

-----------------------------------------------------------------------------
(* A settlement issue writes off what is due last.                         *)

\* A row of which x is written off.
Struck(row, x, r) ==
    r = IF row.status = "pending" /\ x = row.amount THEN [row EXCEPT !.status = "written_off"]
        ELSE [row EXCEPT !.amount = @ - x]

IsStruck(row, x, r) ==
    /\ r \in MoneyRow /\ r.req = row.req /\ r.late = row.late
    /\ Counted(r, {"pending"}) + x = Counted(row, {"pending"})
    /\ Counted(r, {"confirmed"}) = Counted(row, {"confirmed"})
    /\ Counted(r, {"refunded"}) = Counted(row, {"refunded"})

LEMMA StruckRow ==
    ASSUME NEW row \in MoneyRow, NEW x \in 0..row.amount, row.status # "pending" => x = 0,
           NEW r, Struck(row, x, r)
    PROVE  IsStruck(row, x, r)
<1>1. row = [amount |-> row.amount, status |-> row.status, due |-> row.due, req |-> row.req,
             late |-> row.late]
  BY DEF MoneyRow
<1>2. /\ row.amount \in Nat \ {0} /\ row.due \in Dues /\ row.req \in Nat /\ row.late \in BOOLEAN
      /\ row.status \in {"pending", "confirmed", "refunded", "written_off"}
  BY DEF MoneyRow
<1>3. CASE row.status = "pending" /\ x = row.amount
  <2>1. r = [amount |-> row.amount, status |-> "written_off", due |-> row.due, req |-> row.req,
             late |-> row.late]
    BY <1>1, <1>3 DEF Struck
  <2> QED
    BY <1>2, <1>3, <2>1 DEF MoneyRow, IsStruck, Counted
<1>4. CASE ~(row.status = "pending" /\ x = row.amount)
  <2>1. r = [amount |-> row.amount - x, status |-> row.status, due |-> row.due, req |-> row.req,
             late |-> row.late]
    BY <1>1, <1>4 DEF Struck
  <2>2. row.amount - x \in Nat \ {0}
    BY <1>2, <1>4
  <2>3. r \in MoneyRow
    BY <1>2, <2>1, <2>2 DEF MoneyRow
  <2>4. /\ r.status = row.status /\ r.amount = row.amount - x
        /\ r.req = row.req /\ r.late = row.late
    BY <2>1
  <2>5. /\ Counted(r, {"confirmed"}) = Counted(row, {"confirmed"})
        /\ Counted(r, {"refunded"}) = Counted(row, {"refunded"})
    BY <1>2, <2>4 DEF Counted
  <2>6. Counted(r, {"pending"}) + x = Counted(row, {"pending"})
    BY <1>2, <2>4 DEF Counted
  <2> QED
    BY <2>3, <2>4, <2>5, <2>6 DEF IsStruck
<1> QED
  BY <1>3, <1>4

\* What an amount takes from the pending rows, as a function of their positions.
Takes(m) == [i \in DOMAIN rows |-> Applied(i, m)]

Amounts == [i \in DOMAIN rows |-> rows[i].amount]

LEMMA AppliedIs ==
    ASSUME MoneyTypes, NEW m \in Nat, NEW i \in DOMAIN rows
    PROVE  /\ Applied(i, m) \in 0..rows[i].amount
           /\ i \notin With("pending") => Applied(i, m) = 0
           /\ i \in With("pending") =>
                 Applied(i, m) = IF m <= Sum(Amounts, Before(i)) THEN 0
                                 ELSE IF m - Sum(Amounts, Before(i)) <= rows[i].amount
                                 THEN m - Sum(Amounts, Before(i)) ELSE rows[i].amount
<1> DEFINE s == Sum(Amounts, Before(i))
           A == rows[i].amount
           rest == Max({0, m - s})
<1>1. \A j \in DOMAIN rows : rows[j].amount \in Nat
  BY RowsFacts DEF MoneyTypes, MoneyRow
<1>2. Before(i) \in SUBSET DOMAIN rows /\ IsFiniteSet(DOMAIN rows)
  BY RowsFacts DEF Before, With, MoneyTypes
<1>3. s \in Nat
  <2>1. IsFiniteSet(Before(i)) /\ \A j \in Before(i) : Amounts[j] \in Nat
    BY <1>1, <1>2, FS_Subset DEF Amounts
  <2> QED
    BY <2>1, SumIsNat
<1>4. Amount(Before(i)) = s
  BY <1>2, AmountIs DEF Amount, Amounts
<1>5. A \in Nat
  BY <1>1
<1>6. Applied(i, m) = IF i \notin With("pending") THEN 0 ELSE Min({A, Max({0, m - s})})
  BY <1>4 DEF Applied
<1> HIDE DEF s, A
<1>7. rest = IF 0 >= m - s THEN 0 ELSE m - s
  BY <1>3, Greater
<1>8. rest \in Nat
  BY <1>3, <1>7
<1>10. Applied(i, m) = IF i \notin With("pending") THEN 0 ELSE Min({A, rest})
  BY <1>6
<1> HIDE DEF rest
<1>9. Min({A, rest}) = IF A <= rest THEN A ELSE rest
  BY <1>5, <1>8, Lesser
<1>11. /\ Min({A, rest}) \in 0..A
       /\ Min({A, rest}) = IF m <= s THEN 0 ELSE IF m - s <= A THEN m - s ELSE A
  BY ONLY <1>3, <1>5, <1>7, <1>8, <1>9, m \in Nat
<1>12. 0 \in 0..A
  BY <1>5
<1> HIDE DEF s, A
<1>13. /\ Applied(i, m) \in 0..A
       /\ i \notin With("pending") => Applied(i, m) = 0
       /\ i \in With("pending") =>
             Applied(i, m) = IF m <= s THEN 0 ELSE IF m - s <= A THEN m - s ELSE A
  BY <1>10, <1>11, <1>12
<1> QED
  BY <1>13 DEF s, A

\* All of the amount is taken, or all that is pending.
LEMMA TakenIs ==
    ASSUME MoneyTypes, NEW m \in Nat
    PROVE  Sum(Takes(m), DOMAIN rows)
           = IF m <= Worth(rows, {"pending"}) THEN m ELSE Worth(rows, {"pending"})
<1> DEFINE P == With("pending")
           lates == [i \in DOMAIN rows |-> rows[i].due]
           befores == [i \in DOMAIN rows |-> Before(i)]
           D == DOMAIN rows
<1>1. /\ D = 1..Len(rows) /\ Len(rows) \in Nat /\ IsFiniteSet(D)
      /\ \A i \in D : rows[i] \in MoneyRow
  BY RowsFacts DEF MoneyTypes
<1>2. P \in SUBSET D /\ P \in SUBSET (1..Len(rows))
  BY <1>1 DEF With
<1>3. \A i \in D : rows[i].amount \in Nat /\ rows[i].due \in Nat
  BY <1>1, LedgerAssumption DEF MoneyRow
<1>4. Spread(P, m, Amounts, lates, befores, Takes(m))
  <2> SUFFICES ASSUME NEW i \in P
               PROVE  /\ Amounts[i] \in Nat /\ lates[i] \in Nat
                      /\ befores[i] = {j \in P : lates[j] > lates[i]
                                                 \/ (lates[j] = lates[i] /\ j < i)}
                      /\ Takes(m)[i] = IF m <= Sum(Amounts, befores[i]) THEN 0
                            ELSE IF m - Sum(Amounts, befores[i]) <= Amounts[i]
                            THEN m - Sum(Amounts, befores[i]) ELSE Amounts[i]
    BY DEF Spread
  <2>1. i \in D
    BY <1>2
  <2>2. Amounts[i] = rows[i].amount /\ lates[i] = rows[i].due /\ befores[i] = Before(i)
        /\ Takes(m)[i] = Applied(i, m)
    BY <2>1 DEF Amounts, Takes
  <2>3. \A j \in P : lates[j] = rows[j].due
    BY <1>2
  <2>4. befores[i] = {j \in P : lates[j] > lates[i] \/ (lates[j] = lates[i] /\ j < i)}
    BY <2>2, <2>3 DEF Before
  <2>5. Applied(i, m) = IF m <= Sum(Amounts, Before(i)) THEN 0
                        ELSE IF m - Sum(Amounts, Before(i)) <= rows[i].amount
                        THEN m - Sum(Amounts, Before(i)) ELSE rows[i].amount
    BY <2>1, AppliedIs
  <2> HIDE DEF lates, befores, P
  <2> QED
    BY <1>3, <2>1, <2>2, <2>4, <2>5
<1>5. Sum(Amounts, P) = Worth(rows, {"pending"})
  <2>1. P = {i \in DOMAIN rows : rows[i].status \in {"pending"}}
    BY DEF With
  <2>2. MapThenSumSet(LAMBDA i : rows[i].amount, P) = Worth(rows, {"pending"})
    BY <2>1, AmountIsWorth DEF MoneyTypes
  <2>3. MapThenSumSet(LAMBDA i : rows[i].amount, P) = Sum(Amounts, P)
    BY <1>2, AmountIs DEF Amounts
  <2> QED
    BY <2>2, <2>3
<1> HIDE DEF lates, befores
<1>6. Sum(Takes(m), P) = IF m <= Sum(Amounts, P) THEN m ELSE Sum(Amounts, P)
  <2> DEFINE n == Len(rows)  f == Takes(m)  a == Amounts
  <2>1. n \in Nat /\ P \in SUBSET (1..n) /\ m \in Nat
    BY <1>1, <1>2
  <2>2. Spread(P, m, a, lates, befores, f)
    BY <1>4
  <2> HIDE DEF P, n, f, a
  <2>3. Covers(P, m, a, f)
    BY ONLY <2>1, <2>2, Waterfall
  <2> QED
    BY <2>3 DEF f, a, Covers
<1>7. Sum(Takes(m), P) = Sum(Takes(m), D)
  <2> DEFINE f == Takes(m)
             g == [i \in D |-> IF i \in P THEN f[i] ELSE 0]
  <2>1. \A i \in D : f[i] \in 0..rows[i].amount /\ (i \notin P => f[i] = 0)
    BY AppliedIs DEF Takes
  <2>2. \A i \in D : f[i] \in Nat
    BY <1>3, <2>1
  <2>3. \A i \in D : g[i] = f[i]
    BY <2>1
  <2> HIDE DEF f, P, D
  <2>4. Sum(f, P) = Sum(g, D)
    <3>1. IsFiniteSet(D) /\ P \in SUBSET D
      BY <1>1, <1>2
    <3>2. \A i \in P : f[i] \in Nat
      BY <2>2, <3>1
    <3> QED
      BY ONLY <3>1, <3>2, SumOfPart
  <2> HIDE DEF g
  <2>5. Sum(g, D) = Sum(f, D)
    BY <1>1, <2>3, SumSame
  <2> QED
    BY <2>4, <2>5 DEF f
<1> QED
  BY <1>5, <1>6, <1>7

\* Every row is struck by what is taken from it.
StruckRows(rs, takes, ps) ==
    /\ ps \in Seq(MoneyRow) /\ DOMAIN ps = DOMAIN rs
    /\ \A i \in DOMAIN rs : IsStruck(rs[i], takes[i], ps[i])

LEMMA StruckWorth ==
    ASSUME NEW rs \in Seq(MoneyRow), NEW takes, \A i \in DOMAIN rs : takes[i] \in Nat,
           NEW ps, StruckRows(rs, takes, ps)
    PROVE  /\ Worth(ps, {"pending"}) + Sum(takes, DOMAIN rs) = Worth(rs, {"pending"})
           /\ Worth(ps, {"confirmed"}) = Worth(rs, {"confirmed"})
           /\ Worth(ps, {"refunded"}) = Worth(rs, {"refunded"})
<1> DEFINE D == DOMAIN rs
           f(kinds) == [i \in D |-> Counted(rs[i], kinds)]
           g(kinds) == [i \in DOMAIN ps |-> Counted(ps[i], kinds)]
<1>1. DOMAIN ps = D /\ IsFiniteSet(D) /\ ps \in Seq(MoneyRow)
  BY RowsFacts DEF StruckRows
<1>2. \A kinds : \A i \in D : f(kinds)[i] \in Nat /\ g(kinds)[i] \in Nat
  <2> SUFFICES ASSUME NEW kinds, NEW i \in D
               PROVE  f(kinds)[i] \in Nat /\ g(kinds)[i] \in Nat
    OBVIOUS
  <2>1. rs[i] \in MoneyRow /\ ps[i] \in MoneyRow
    BY <1>1, RowsFacts
  <2>2. Counted(rs[i], kinds) \in Nat /\ Counted(ps[i], kinds) \in Nat
    BY <2>1, CountedIsNat
  <2> QED
    BY <1>1, <2>2
<1>3. \A i \in D : /\ g({"pending"})[i] + takes[i] = f({"pending"})[i]
                   /\ g({"confirmed"})[i] = f({"confirmed"})[i]
                   /\ g({"refunded"})[i] = f({"refunded"})[i]
  BY <1>1 DEF StruckRows, IsStruck
<1>4. \A kinds : Worth(rs, kinds) = Sum(f(kinds), D) /\ Worth(ps, kinds) = Sum(g(kinds), D)
  BY <1>1 DEF Worth
<1>5. \A i \in D : takes[i] \in Nat
  OBVIOUS
<1> HIDE DEF f, g, D
<1>6. Sum(f({"pending"}), D) = Sum(g({"pending"}), D) + Sum(takes, D)
  <2> DEFINE F == f({"pending"})  G == g({"pending"})
  <2>1. \A i \in D : G[i] \in Nat /\ takes[i] \in Nat /\ F[i] = G[i] + takes[i]
    BY <1>2, <1>3, <1>5
  <2> HIDE DEF F, G
  <2>2. Sum(F, D) = Sum(G, D) + Sum(takes, D)
    BY ONLY <1>1, <2>1, SumAdds
  <2> QED
    BY <2>2 DEF F, G
<1>7. /\ Sum(g({"confirmed"}), D) = Sum(f({"confirmed"}), D)
      /\ Sum(g({"refunded"}), D) = Sum(f({"refunded"}), D)
  <2> DEFINE F == f({"confirmed"})  G == g({"confirmed"})
             H == f({"refunded"})  K == g({"refunded"})
  <2>1. /\ \A i \in D : G[i] = F[i]
        /\ \A i \in D : K[i] = H[i]
    BY <1>3
  <2> HIDE DEF F, G, H, K
  <2>2. Sum(G, D) = Sum(F, D) /\ Sum(K, D) = Sum(H, D)
    BY ONLY <1>1, <2>1, SumSame
  <2> QED
    BY <2>2 DEF F, G, H, K
<1> QED
  BY <1>4, <1>6, <1>7 DEF D

\* The rows and, behind them, at most one row that is written off.
LEMMA StruckBooked ==
    ASSUME NEW rs \in Seq(MoneyRow), NEW takes, \A i \in DOMAIN rs : takes[i] \in Nat,
           NEW mid, StruckRows(rs, takes, mid), NEW taken \in Nat,
           Sum(takes, DOMAIN rs) = taken,
           NEW x \in Nat, NEW due, x = 0 \/ due \in Dues,
           NEW ps, ps = mid \o Some(Row(x, "written_off", due, 0))
    PROVE  /\ Booked(rs, ps, 0, 0 - taken)
           /\ \A j \in DOMAIN ps : Carried(rs, ps, j)
<1>1. mid \in Seq(MoneyRow) /\ DOMAIN mid = DOMAIN rs
  BY DEF StruckRows
<1>2. Lengthened(mid, ps, x, "written_off", 0)
  BY <1>1, RowBehind
<1>3. /\ ps \in Seq(MoneyRow)
      /\ Len(ps) = IF x = 0 THEN Len(mid) ELSE Len(mid) + 1
  BY <1>2 DEF Lengthened
<1>4. /\ DOMAIN mid = 1..Len(mid) /\ DOMAIN ps = 1..Len(ps)
      /\ Len(mid) \in Nat /\ Len(ps) \in Nat
  BY <1>1, <1>3, RowsFacts
<1>5. DOMAIN mid \subseteq DOMAIN ps
  <2>1. \A n \in Nat : 1..n \subseteq 1..(n + 1)
    OBVIOUS
  <2>2. Len(ps) = Len(mid) \/ Len(ps) = Len(mid) + 1
    BY <1>3
  <2> QED
    BY <1>4, <2>1, <2>2
<1>6. ASSUME NEW j \in DOMAIN ps
      PROVE  IF j \in DOMAIN mid THEN ps[j] = mid[j] ELSE ps[j].req = 0
  <2>1. IF j <= Len(mid) THEN ps[j] = mid[j] ELSE ps[j].req = 0
    BY <1>4, <1>2 DEF Lengthened
  <2>2. j \in DOMAIN mid <=> j <= Len(mid)
    BY <1>4
  <2> QED
    BY <2>1, <2>2
<1>7. \A j \in DOMAIN rs : mid[j].req = rs[j].req /\ mid[j].late = rs[j].late
  BY DEF StruckRows, IsStruck
<1>8. /\ Worth(mid, {"pending"}) + taken = Worth(rs, {"pending"})
      /\ Worth(mid, {"confirmed"}) = Worth(rs, {"confirmed"})
      /\ Worth(mid, {"refunded"}) = Worth(rs, {"refunded"})
  BY StruckWorth
<1>9. \A kinds : Worth(rs, kinds) \in Nat /\ Worth(mid, kinds) \in Nat
  BY <1>1, WorthIsNat
<1>10. /\ Worth(ps, {"confirmed"}) = Worth(mid, {"confirmed"}) + 0
       /\ Worth(ps, {"refunded"}) = Worth(mid, {"refunded"}) + 0
       /\ Worth(ps, {"pending"}) = Worth(mid, {"pending"}) + 0
  BY <1>2 DEF Lengthened
<1>11. /\ Worth(ps, {"confirmed"}) = Worth(rs, {"confirmed"}) + 0
       /\ Worth(ps, {"refunded"}) = Worth(rs, {"refunded"})
       /\ Worth(ps, {"pending"}) = Worth(rs, {"pending"}) + (0 - taken)
  <2>1. /\ Worth(rs, {"confirmed"}) \in Nat /\ Worth(rs, {"refunded"}) \in Nat
        /\ Worth(rs, {"pending"}) \in Nat /\ Worth(mid, {"pending"}) \in Nat
    BY <1>9
  <2> QED
    BY ONLY <1>8, <1>10, <2>1, taken \in Nat
<1>12. \A j \in DOMAIN rs : j \in DOMAIN ps /\ ps[j].late = rs[j].late
  BY <1>1, <1>5, <1>6, <1>7
<1>13. \A j \in DOMAIN ps : Carried(rs, ps, j)
  BY <1>1, <1>6, <1>7 DEF Carried
<1> QED
  BY <1>3, <1>11, <1>12, <1>13 DEF Booked

\* Writing off takes the amount from what is pending, or all of it.
LEMMA WrittenOffBooked ==
    ASSUME MoneyTypes, NEW m \in Nat, NEW taken,
           taken = IF m <= Worth(rows, {"pending"}) THEN m ELSE Worth(rows, {"pending"})
    PROVE  /\ Booked(rows, WrittenOff(m), 0, 0 - taken)
           /\ \A j \in DOMAIN WrittenOff(m) : Carried(rows, WrittenOff(m), j)
<1> DEFINE whole == {i \in With("pending") : Applied(i, m) = rows[i].amount}
           part == {i \in With("pending") : Applied(i, m) \in 1..(rows[i].amount - 1)}
           mid == [i \in DOMAIN rows |->
                      IF i \in whole THEN [rows[i] EXCEPT !.status = "written_off"]
                      ELSE [rows[i] EXCEPT !.amount = @ - Applied(i, m)]]
           at == CHOOSE i \in part : TRUE
           last == Row(Applied(at, m), "written_off", rows[at].due, 0)
           takes == Takes(m)
<1>1. /\ rows \in Seq(MoneyRow) /\ DOMAIN rows = 1..Len(rows) /\ Len(rows) \in Nat
      /\ \A i \in DOMAIN rows : rows[i] \in MoneyRow
  BY RowsFacts DEF MoneyTypes
<1>2. \A i \in DOMAIN rows : rows[i].amount \in Nat \ {0} /\ rows[i].due \in Dues
  BY <1>1 DEF MoneyRow
<1>3. ASSUME NEW i \in DOMAIN rows
      PROVE  takes[i] \in 0..rows[i].amount /\ (i \notin With("pending") => takes[i] = 0)
             /\ takes[i] = Applied(i, m)
  BY AppliedIs DEF Takes
<1>4. \A i \in DOMAIN rows : takes[i] \in Nat
  BY <1>2, <1>3
<1>5. StruckRows(rows, takes, mid)
  <2>1. ASSUME NEW i \in DOMAIN rows PROVE IsStruck(rows[i], takes[i], mid[i])
    <3> DEFINE row == rows[i]  x == takes[i]  r == mid[i]
    <3>1. i \in whole <=> row.status = "pending" /\ x = row.amount
      BY <1>3 DEF With
    <3>2. r = IF i \in whole THEN [row EXCEPT !.status = "written_off"]
              ELSE [row EXCEPT !.amount = @ - x]
      BY <1>3
    <3>3. row \in MoneyRow /\ x \in 0..row.amount /\ (row.status # "pending" => x = 0)
      BY <1>1, <1>3 DEF With
    <3> HIDE DEF row, x, r, whole
    <3>4. Struck(row, x, r)
      BY <3>1, <3>2 DEF Struck
    <3>5. IsStruck(row, x, r)
      BY <3>3, <3>4, StruckRow
    <3> QED
      BY <3>5 DEF row, x, r
  <2>2. DOMAIN mid = DOMAIN rows
    OBVIOUS
  <2> HIDE DEF mid, takes
  <2>3. \A i \in DOMAIN rows : mid[i] \in MoneyRow
    BY <2>1 DEF IsStruck
  <2>4. mid \in Seq(MoneyRow)
    <3>1. mid = [i \in 1..Len(rows) |-> mid[i]]
      BY <1>1 DEF mid
    <3> QED
      BY <1>1, <2>3, <3>1
  <2> QED
    BY <2>1, <2>2, <2>4 DEF StruckRows
<1>6. Sum(takes, DOMAIN rows) = taken /\ taken \in Nat
  <2>1. Worth(rows, {"pending"}) \in Nat
    BY <1>1, WorthIsNat
  <2> QED
    BY <2>1, TakenIs
<1>7. WrittenOff(m) = mid \o (IF part = {} THEN <<>> ELSE <<last>>)
  BY DEF WrittenOff
<1>8. \E x, due :
         /\ x \in Nat
         /\ x = 0 \/ due \in Dues
         /\ WrittenOff(m) = mid \o Some(Row(x, "written_off", due, 0))
  <2>1. CASE part # {}
    <3>1. at \in part
      BY <2>1
    <3>2. at \in DOMAIN rows /\ Applied(at, m) \in Nat \ {0}
      <4>1. at \in DOMAIN rows /\ Applied(at, m) \in 1..(rows[at].amount - 1)
        BY <3>1 DEF With
      <4> QED
        BY <1>2, <4>1
    <3>3. rows[at].due \in Dues
      BY <1>2, <3>2
    <3>4. last.amount > 0
      BY <3>2 DEF Row
    <3> HIDE DEF last, mid, part
    <3>5. WrittenOff(m) = mid \o Some(last)
      BY <1>7, <2>1, <3>4 DEF Some
    <3> QED
      BY <3>2, <3>3, <3>5 DEF last
  <2>2. CASE part = {}
    <3>1. Some(Row(0, "written_off", 0, 0)) = <<>>
      BY DEF Some, Row
    <3> HIDE DEF last, mid, part
    <3> QED
      BY <1>7, <2>2, <3>1
  <2> QED
    BY <2>1, <2>2
<1> QED
  <2> HIDE DEF mid, takes
  <2>1. PICK x, due :
           /\ x \in Nat
           /\ x = 0 \/ due \in Dues
           /\ WrittenOff(m) = mid \o Some(Row(x, "written_off", due, 0))
    BY <1>8
  <2> DEFINE ps == WrittenOff(m)
  <2>2. x \in Nat /\ (x = 0 \/ due \in Dues) /\ ps = mid \o Some(Row(x, "written_off", due, 0))
    BY <2>1
  <2>4. \A i \in DOMAIN rows : takes[i] \in Nat
    BY <1>4
  <2> HIDE DEF ps
  <2>3. Booked(rows, ps, 0, 0 - taken) /\ \A j \in DOMAIN ps : Carried(rows, ps, j)
    BY <1>1, <1>5, <1>6, <2>2, <2>4, StruckBooked
  <2> QED
    BY <2>3 DEF ps

LEMMA RecordIssueAddsUp ==
    ASSUME MoneyInv, NEW b, NEW q, NEW terminal \in BOOLEAN, NEW impact, NEW refund,
           RecordIssue(b, q, terminal, impact, refund)
    PROVE  MoneyInv'
<1> USE DEF MoneyInv
<1> DEFINE P == Worth(rows, {"pending"})
           taken == IF impact <= P THEN impact ELSE P
           x == [req |-> q, terminal |-> terminal, impact |-> impact, refund |-> refund]
           left == total - Received - Impacts(issues)
<1>1. /\ rows \in Seq(MoneyRow) /\ total \in Nat /\ issues \in SUBSET IssueRow
      /\ IsFiniteSet(issues) /\ setup \in Setups
  BY DEF MoneyTypes
<1>2. /\ Fresh(q, Settled) /\ impact \in 0..Outstanding /\ (terminal => impact = Outstanding)
      /\ refund \in 0..Max({0, Receipts - Refunded})
      /\ rows' = WrittenOff(impact) /\ issues' = issues \cup {x}
      /\ UNCHANGED <<setup, total, orders>>
  BY DEF RecordIssue
<1>3. /\ Receipts = Received /\ Received \in Nat /\ P \in Nat
      /\ Worth(rows, {"refunded"}) \in Nat /\ Worth(rows, {"confirmed"}) \in Nat
      /\ Impacts(issues) \in Nat
      /\ Refunded = Worth(rows, {"refunded"}) + Refunds(issues) /\ Refunds(issues) \in Nat
      /\ Outstanding = IF left >= 0 THEN left ELSE 0
  BY <1>1, MoneyIs, WorthIsNat
<1>4. Outstanding \in Nat
  BY <1>1, <1>3
<1>5. impact \in Nat /\ impact <= Outstanding
  BY <1>2, <1>4
<1>6. Refunded <= Received
  BY <1>3 DEF Sums
<1>7. refund \in Nat /\ refund <= Received - Refunded
  <2> DEFINE d == Received - Refunded
  <2>1. d \in Nat
    BY <1>3, <1>6
  <2>2. refund \in 0..Max({0, d})
    BY <1>2, <1>3
  <2> HIDE DEF d
  <2>3. Max({0, d}) = IF 0 >= d THEN 0 ELSE d
    BY <2>1, Greater
  <2> QED
    BY <2>1, <2>2, <2>3 DEF d
<1>8. /\ setup.requests \in Nat /\ q \in 1..setup.requests /\ q # 0
      /\ \A y \in issues : y.req # q
  BY <1>2, FreshFacts DEF Settled
<1>9. x \in IssueRow /\ x \notin issues /\ x.req = q /\ x.impact = impact /\ x.refund = refund
      /\ x.terminal = terminal
  BY <1>5, <1>7, <1>8 DEF IssueRow
<1> HIDE DEF x
<1>10. /\ IsFiniteSet(issues') /\ issues' \in SUBSET IssueRow
       /\ Impacts(issues') = Impacts(issues) + impact
       /\ Refunds(issues') = Refunds(issues) + refund
  BY <1>1, <1>2, <1>9, IssueSums
<1> HIDE DEF P
<1>11. taken \in Nat /\ taken = IF impact <= P THEN impact ELSE P
  BY <1>3, <1>5
<1> HIDE DEF taken
<1>12. Booked(rows, rows', 0, 0 - taken) /\ \A j \in DOMAIN rows' : Carried(rows, rows', j)
  BY <1>2, <1>5, <1>11, WrittenOffBooked DEF P
<1>13. Unique' /\ \A j \in DOMAIN rows' : rows'[j].req \in 0..setup'.requests
  <2>1. \A y, z \in issues' : y.req = z.req => y = z
    BY <1>2, <1>8, <1>9 DEF Unique
  <2> QED
    BY <1>2, <1>12, <2>1, UniqueRows DEF Unique
<1>14. MoneyTypes'
  <2>1. rows' \in Seq(MoneyRow)
    BY <1>12 DEF Booked
  <2>2. \A y \in issues' : y.req \in 1..setup'.requests
    BY <1>2, <1>8, <1>9 DEF MoneyTypes
  <2> QED
    BY <1>2, <1>10, <1>13, <2>1, <2>2 DEF MoneyTypes
<1>15. /\ Worth(rows', {"refunded"}) = Worth(rows, {"refunded"})
       /\ Received' = Received
       /\ Worth(rows', {"pending"}) = P - taken
       /\ Clean' => Clean
  <2>1. /\ Worth(rows', {"confirmed"}) = Worth(rows, {"confirmed"}) + 0
        /\ Worth(rows', {"refunded"}) = Worth(rows, {"refunded"})
        /\ Worth(rows', {"pending"}) = P + (0 - taken)
        /\ \A j \in DOMAIN rows : j \in DOMAIN rows' /\ rows'[j].late = rows[j].late
    BY <1>12 DEF Booked, P
  <2> QED
    BY <1>3, <1>11, <2>1 DEF Received, Clean
<1>16. ASSUME Clean'
       PROVE  /\ Received' + Impacts(issues') <= total'
              /\ Worth(rows', {"pending"}) <= total' - Received' - Impacts(issues')
              /\ (\E y \in issues' : y.terminal) => total' - Received' - Impacts(issues') = 0
  <2>1. /\ Received + Impacts(issues) <= total /\ P <= left
        /\ (\E y \in issues : y.terminal) => left = 0
    BY <1>15, <1>16 DEF Sums, P
  <2>2. left \in Nat /\ Outstanding = left
    BY <1>1, <1>3, <2>1
  <2>3. left = total - Received - Impacts(issues)
    OBVIOUS
  <2>6. total' = total
    BY <1>2
  <2> HIDE DEF left
  <2>4. /\ Received' + Impacts(issues') <= total'
        /\ total' - Received' - Impacts(issues') = left - impact
    BY ONLY <1>1, <1>3, <1>5, <1>10, <1>15, <2>2, <2>3, <2>6, SMTT(30)
  <2>5. Worth(rows', {"pending"}) <= left - impact
    BY ONLY <1>3, <1>5, <1>11, <1>15, <2>1, <2>2
  <2>7. (\E y \in issues' : y.terminal) => left - impact = 0
    <3>1. x.terminal => impact = left
      BY <1>2, <1>9, <2>2
    <3>2. (\E y \in issues : y.terminal) => left = 0 /\ impact = 0
      BY <1>5, <2>1, <2>2
    <3> QED
      BY <1>2, <2>2, <3>1, <3>2
  <2> QED
    BY <2>4, <2>5, <2>7
<1>17. Worth(rows', {"refunded"}) + Refunds(issues') <= Received'
  BY <1>3, <1>7, <1>10, <1>15
<1>18. Sums'
  BY <1>16, <1>17 DEF Sums
<1> QED
  BY <1>13, <1>14, <1>18

\* No other step touches what the sums are made of.
LEMMA MoneyStands ==
    MoneyInv /\ UNCHANGED <<setup, ledgerVars>> => MoneyInv'
BY DEF MoneyInv, MoneyTypes, Unique, Sums, Clean, Received, ledgerVars

LEMMA MoneyStep ==
    ASSUME MoneyInv, NEW b, Money(b)
    PROVE  MoneyInv'
<1>1. setup.requests \in Nat /\ setup.rows \in Nat /\ setup.quick \in Nat
  BY LedgerAssumption DEF MoneyInv, MoneyTypes
<1>2. ASSUME NEW q, NEW i, NEW amount, ConfirmNode(b, q, i, amount) PROVE MoneyInv'
  BY <1>2, ConfirmNodeAddsUp
<1>3. ASSUME NEW q, NEW amount, NEW due \in Dues, ConfirmUnplanned(b, q, amount, due)
      PROVE  MoneyInv'
  BY <1>3, ConfirmUnplannedAddsUp
<1>4. ASSUME NEW q, NEW paid \in 0..1, NEW planned \in 0..1, NEW due \in Dues,
             CreateChangeOrder(b, q, paid, planned, due)
      PROVE  MoneyInv'
  <2>1. paid \in Nat /\ planned \in Nat
    OBVIOUS
  <2> QED
    BY <1>4, <2>1, ChangeOrderAddsUp
<1>5. ASSUME NEW q, NEW terminal \in BOOLEAN, NEW impact, NEW refund,
             RecordIssue(b, q, terminal, impact, refund)
      PROVE  MoneyInv'
  BY <1>5, RecordIssueAddsUp
<1>6. ASSUME NEW status \in {"confirmed", "pending"}, NEW amount \in 1..setup.quick,
             NEW due \in Dues, QuickAccount(b, status, amount, due)
      PROVE  MoneyInv'
  <2>1. amount \in Nat \ {0}
    BY <1>1
  <2> QED
    BY <1>6, <2>1, QuickAccountAddsUp
<1> QED
  BY <1>2, <1>3, <1>4, <1>5, <1>6 DEF Money

LEMMA LedgerStarts ==
    ASSUME LedgerInit
    PROVE  MoneyInv
<1>1. setup \in Setups /\ orders = <<>> /\ issues = {}
  BY DEF LedgerInit
<1>2. PICK c \in setup.contracts : total = c.total /\ rows = c.rows
  BY DEF LedgerInit
<1>3. /\ setup.requests \in Nat /\ total \in Nat /\ rows \in Seq(ContractRow)
      /\ MapThenSumSet(LAMBDA i : rows[i].amount, DOMAIN rows) <= total
  <2>1. /\ setup.requests \in Nat /\ c.total \in Nat /\ c.rows \in Seq(ContractRow)
        /\ MapThenSumSet(LAMBDA i : c.rows[i].amount, DOMAIN c.rows) <= c.total
    BY <1>1, <1>2, LedgerAssumption
  <2> DEFINE rs == c.rows
             f == [i \in DOMAIN rs |-> rs[i].amount]
             g == [i \in DOMAIN rows |-> rows[i].amount]
  <2>2. MapThenSumSet(LAMBDA i : rs[i].amount, DOMAIN rs) = Sum(f, DOMAIN rs)
    BY AmountIs
  <2>3. MapThenSumSet(LAMBDA i : rows[i].amount, DOMAIN rows) = Sum(g, DOMAIN rows)
    BY AmountIs
  <2>4. f = g /\ rows = rs
    BY <1>2
  <2> QED
    BY <1>2, <2>1, <2>2, <2>3, <2>4
<1>4. /\ rows \in Seq(MoneyRow)
      /\ \A i \in DOMAIN rows : rows[i] \in ContractRow
  <2>1. ContractRow \subseteq MoneyRow
    BY DEF ContractRow
  <2>2. \A i \in 1..Len(rows) : rows[i] \in ContractRow
    BY <1>3, ElementOfSeq
  <2>3. rows = [i \in 1..Len(rows) |-> rows[i]] /\ Len(rows) \in Nat /\ DOMAIN rows = 1..Len(rows)
    BY <1>3
  <2>4. rows \in Seq(MoneyRow)
    BY <2>1, <2>2, <2>3
  <2> QED
    BY <2>2, <2>3, <2>4
<1>5. \A i \in DOMAIN rows : /\ rows[i].req = 0 /\ ~rows[i].late
                             /\ rows[i].status \in {"pending", "confirmed", "refunded"}
  BY <1>4 DEF ContractRow, MoneyRow
<1>6. MoneyTypes
  BY <1>1, <1>3, <1>4, <1>5, FS_EmptySet DEF MoneyTypes
<1>7. Unique
  BY <1>1, <1>5 DEF Unique
<1>8. /\ Received \in Nat /\ Worth(rows, {"pending"}) \in Nat /\ Worth(rows, {"refunded"}) \in Nat
      /\ Worth(rows, {"confirmed"}) \in Nat
      /\ Impacts(issues) = 0 /\ Refunds(issues) = 0
  <2>1. Impacts({}) = 0 /\ Refunds({}) = 0
    BY FS_EmptySet, IssueSums
  <2> QED
    BY <1>1, <1>4, <1>6, <2>1, MoneyIs, WorthIsNat
<1>9. Worth(rows, {"pending"}) + Received <= total
  <2>1. DOMAIN rows \ With("written_off") = DOMAIN rows
    BY <1>5 DEF With
  <2>2. Amount(DOMAIN rows) = Worth(rows, {"pending"}) + Received
    BY <1>6, <2>1, NotWrittenOff
  <2> QED
    BY <1>3, <2>2 DEF Amount
<1>10. /\ Received + 0 <= total
       /\ Worth(rows, {"pending"}) <= total - Received - 0
       /\ Worth(rows, {"refunded"}) + 0 <= Received
  BY <1>3, <1>8, <1>9 DEF Received
<1>11. Sums
  BY <1>1, <1>8, <1>10 DEF Sums
<1> QED
  BY <1>6, <1>7, <1>11 DEF MoneyInv

\* The sums say what MoneyAddsUp says.
LEMMA MoneyInvAddsUp ==
    MoneyInv => MoneyAddsUp
<1> SUFFICES ASSUME MoneyInv PROVE MoneyAddsUp
  OBVIOUS
<1> USE DEF MoneyInv
<1>1. /\ Receipts = Received /\ Received \in Nat
      /\ Worth(rows, {"pending"}) \in Nat /\ Worth(rows, {"refunded"}) \in Nat
      /\ Pending = Worth(rows, {"pending"})
      /\ Uncollectible = Impacts(issues) /\ Impacts(issues) \in Nat
      /\ Refunded = Worth(rows, {"refunded"}) + Refunds(issues) /\ Refunds(issues) \in Nat
      /\ Outstanding = IF total - Received - Impacts(issues) >= 0
                       THEN total - Received - Impacts(issues) ELSE 0
      /\ total \in Nat
  BY MoneyIs DEF MoneyTypes
<1>2. ASSUME \A i \in DOMAIN rows : ~rows[i].late
      PROVE  /\ Receipts + Uncollectible <= total
             /\ Pending <= Outstanding
             /\ Terminated => Outstanding = 0
  <2>1. /\ Received + Impacts(issues) <= total
        /\ Worth(rows, {"pending"}) <= total - Received - Impacts(issues)
        /\ Terminated => total - Received - Impacts(issues) = 0
    BY <1>2 DEF Sums, Clean, Terminated
  <2> QED
    BY <1>1, <2>1
<1>3. Refunded <= Receipts
  BY <1>1 DEF Sums
<1>4. Unique
  OBVIOUS
<1> QED
  BY <1>2, <1>3, <1>4 DEF MoneyAddsUp, Unique

\* No step but one of the ledger changes the ledger.
LEMMA LedgerFrame ==
    ASSUME NEW b, Planning(b) \/ Delivering(b) \/ RunStep \/ Reload(b)
    PROVE  UNCHANGED <<setup, ledgerVars>>
<1> USE DEF deliveryRest
<1>1. Planning(b) => UNCHANGED <<setup, ledgerVars>>
  BY DEF Planning, Import, Generate, UpdateDraft, ConfirmPlan
<1>2. Delivering(b) => UNCHANGED <<setup, ledgerVars>>
  BY DEF Delivering, CreatePreview, ConfirmDraft, ExpirePreview, EditTask, DropTask, Reported,
         RunTest, TestEnds, Decide, AddTime, AdjustTime
<1>3. ASSUME NEW r \in RunIds, Launching(r) \/ UserActs(r) \/ Answered(r)
      PROVE  UNCHANGED <<setup, ledgerVars>>
  BY <1>3 DEF Launching, ThreadCreated, TurnBegins, TurnRecorded, LaunchFails, UserActs, Create,
              StopAtOnce, Ask, Answered, StopAnswered, TurnResumes, ResumeAnswered, RequestFails,
              Closes, Still
<1>4. Consume => UNCHANGED <<setup, ledgerVars>>
  BY DEF Consume, Ignored, Progressed, ApprovalAsked, RunFailed, RunCompleted, ConsumerDies, Closes,
         Still
<1>5. Approving => UNCHANGED <<setup, ledgerVars>>
  BY DEF Approving, AnswerApproval, DecisionRecorded, Closes, Still
<1>6. /\ \A r \in RunIds, type \in setup.says : Notify(r, type) => UNCHANGED <<setup, ledgerVars>>
      /\ \A r \in RunIds, i \in setup.ids : RequestApproval(r, i) => UNCHANGED <<setup, ledgerVars>>
      /\ ServerExits \/ Start \/ StartRaises => UNCHANGED <<setup, ledgerVars>>
  BY DEF Notify, RequestApproval, ServerExits, Start, StartRaises, Still
<1>8. /\ Crash => UNCHANGED <<setup, ledgerVars>>
      /\ \A r \in RunIds, n \in {1, 2} : CrashCompleting(r, n) => UNCHANGED <<setup, ledgerVars>>
  BY DEF Crash, CrashCompleting, GoesDown
<1>7. Reload(b) => UNCHANGED <<setup, ledgerVars>>
  BY DEF Reload
<1> QED
  BY <1>1, <1>2, <1>3, <1>4, <1>5, <1>6, <1>7, <1>8 DEF RunStep

LEMMA MoneyStays ==
    ASSUME MoneyInv, [Next]_vars
    PROVE  MoneyInv'
<1>1. ASSUME NEW b, Money(b) PROVE MoneyInv'
  BY <1>1, MoneyStep
<1>2. ASSUME NEW b, Planning(b) \/ Delivering(b) \/ RunStep \/ Reload(b) PROVE MoneyInv'
  BY <1>2, LedgerFrame, MoneyStands
<1>3. CASE UNCHANGED vars
  BY <1>3, MoneyStands DEF vars
<1> QED
  BY <1>1, <1>2, <1>3 DEF Next

-----------------------------------------------------------------------------
(* Types.                                                                  *)

LEMMA ShareOfAll ==
    ASSUME NEW all \in Nat \ {0}, NEW part \in 0..all
    PROVE  (200 * part + all) \div (2 * all) \in 0..100
<1> DEFINE q == (200 * part + all) \div (2 * all)
<1>1. /\ q \in Int
      /\ (2 * all) * q <= 200 * part + all
      /\ 200 * part + all < (2 * all) * (q + 1)
  OBVIOUS
<1> HIDE DEF q
<1>2. part \in Nat /\ part <= all
  OBVIOUS
<1>3. q >= 0
  <2> SUFFICES ASSUME q + 1 <= 0 PROVE FALSE
    BY <1>1
  <2>1. (2 * all) * (q + 1) <= 0
    BY <1>1
  <2> QED
    BY <1>1, <1>2, <2>1
<1>4. q <= 100
  <2> SUFFICES ASSUME q >= 101 PROVE FALSE
    BY <1>1
  <2>1. (2 * all) * q >= (2 * all) * 101
    BY <1>1
  <2> QED
    BY <1>1, <1>2, <2>1
<1> QED
  BY <1>1, <1>3, <1>4 DEF q

\* The verified share of the weights is a percentage.
LEMMA PercentIs ==
    ASSUME NEW ws, DOMAIN ws \subseteq Keys, \A k \in DOMAIN ws : ws[k] \in Nat, NEW ps
    PROVE  Percent(ws, ps) \in 0..100
<1> DEFINE D == DOMAIN ws
           done == {k \in D : Verified(ps, k)}
           share(part, all) == IF all = 0 THEN 0 ELSE (200 * part + all) \div (2 * all)
<1>1. IsFiniteSet(D) /\ IsFiniteSet(done) /\ done \subseteq D
  BY DeliveryAssumption, FS_Subset
<1>3. ASSUME NEW all \in Nat, NEW part \in 0..all PROVE share(part, all) \in 0..100
  <2>1. CASE all = 0
    BY <2>1
  <2>2. CASE all # 0
    BY <2>2, ShareOfAll
  <2> QED
    BY <2>1, <2>2
<1>4. Percent(ws, ps) = IF Sum(ws, D) = 0 THEN share(Cardinality(done), Cardinality(D))
                        ELSE share(Sum(ws, done), Sum(ws, D))
  BY DEF Percent, Share, Sum
<1> HIDE DEF share, D, done
<1>5. Cardinality(D) \in Nat /\ Cardinality(done) \in 0..Cardinality(D)
  <2>1. /\ Cardinality(done) \in Nat /\ Cardinality(D) \in Nat
        /\ Cardinality(done) <= Cardinality(D)
    BY <1>1, FS_Subset, FS_CardinalityType
  <2> QED
    BY <2>1
<1>6. Sum(ws, D) \in Nat /\ Sum(ws, done) \in 0..Sum(ws, D)
  <2> DEFINE rest == D \ done
  <2>1. IsFiniteSet(rest) /\ done \cap rest = {} /\ done \cup rest = D
    BY <1>1, FS_Subset
  <2>2. \A k \in done \cup rest : ws[k] \in Nat
    BY <2>1 DEF D
  <2> HIDE DEF rest
  <2>3. Sum(ws, done) \in Nat /\ Sum(ws, rest) \in Nat
    BY <1>1, <2>1, <2>2, SumIsNat
  <2>4. Sum(ws, D) = Sum(ws, done) + Sum(ws, rest)
    BY <1>1, <2>1, <2>2, SumSplit
  <2> QED
    BY <2>3, <2>4
<1> QED
  BY <1>3, <1>4, <1>5, <1>6

\* The estimates the progress was computed with.
WeightTypes == \A k \in DOMAIN weights : weights[k] \in Nat

LEMMA WeightsAre ==
    ASSUME NEW ts \in [Keys -> TaskRow]
    PROVE  \A k \in DOMAIN Weights(ts) : Weights(ts)[k] \in Nat
BY DEF Weights, TaskRow

LEMMA WeightsFrame ==
    ASSUME [Next]_vars
    PROVE  weights' = weights \/ weights' = Weights(tasks) \/ weights' = Weights(tasks')
<1> USE DEF deliveryRest, deliveryVars
<1>1. ASSUME NEW b, Planning(b)
      PROVE  weights' = weights \/ weights' = Weights(tasks')
  BY <1>1 DEF Planning, Import, Generate, UpdateDraft, ConfirmPlan, Synced
<1>2. ASSUME NEW b, Delivering(b)
      PROVE  weights' = weights \/ weights' = Weights(tasks)
  BY <1>2 DEF Delivering, CreatePreview, ConfirmDraft, ExpirePreview, EditTask, DropTask, Reported,
              RunTest, TestEnds, Decide, Synced, AddTime, AdjustTime
<1>3. ASSUME NEW r \in RunIds, Launching(r) \/ UserActs(r) \/ Answered(r)
      PROVE  weights' = weights
  BY <1>3 DEF Launching, ThreadCreated, TurnBegins, TurnRecorded, LaunchFails, UserActs, Create,
              StopAtOnce, Ask, Answered, StopAnswered, TurnResumes, ResumeAnswered, RequestFails,
              Closes, Still
<1>4. Consume => weights' = weights
  BY DEF Consume, Ignored, Progressed, ApprovalAsked, RunFailed, RunCompleted, ConsumerDies, Closes,
         Still
<1>5. Approving => weights' = weights
  BY DEF Approving, AnswerApproval, DecisionRecorded, Closes, Still
<1>6. /\ \A r \in RunIds, type \in setup.says : Notify(r, type) => weights' = weights
      /\ \A r \in RunIds, i \in setup.ids : RequestApproval(r, i) => weights' = weights
      /\ ServerExits \/ Start \/ StartRaises => weights' = weights
  BY DEF Notify, RequestApproval, ServerExits, Start, StartRaises, Still
<1>9. /\ Crash => weights' = weights
      /\ \A r \in RunIds, n \in {1, 2} : CrashCompleting(r, n) => weights' = weights
  BY DEF Crash, CrashCompleting, GoesDown
<1>7. RunStep => weights' = weights
  BY <1>3, <1>4, <1>5, <1>6, <1>9 DEF RunStep
<1>8. UNCHANGED vars \/ UNCHANGED deliveryVars => weights' = weights
  BY DEF vars
<1> QED
  BY <1>1, <1>2, <1>7, <1>8 DEF Next

TypesInv == MoneyInv /\ DeliveryInv /\ WeightTypes

LEMMA TypesInvHolds ==
    TypesInv => TypeOK
<1> SUFFICES ASSUME TypesInv PROVE TypeOK
  OBVIOUS
<1> USE DEF TypesInv
<1>1. LedgerTypeOK
  <2>1. \A i \in DOMAIN rows : rows[i] \in MoneyRow
    BY RowsFacts DEF MoneyInv, MoneyTypes
  <2>2. ToSet(orders) \subseteq 1..setup.requests
    <3>1. orders \in Seq(1..setup.requests)
      BY DEF MoneyInv, MoneyTypes
    <3>2. \A i \in DOMAIN orders : orders[i] \in 1..setup.requests
      BY <3>1, LenProperties, ElementOfSeq
    <3> QED
      BY <3>2 DEF ToSet
  <2> QED
    BY <2>1, <2>2 DEF LedgerTypeOK, MoneyInv, MoneyTypes, MoneyRow, IssueRow
<1>2. progress \in 0..100
  BY PercentIs DEF WeightTypes, DeliveryInv, WorkInv, WorkTypes, ScopeIsPlan
<1>3. DeliveryTypeOK
  <2>1. WorkTypes
    BY DEF DeliveryInv, WorkInv
  <2>2. \A p \in DOMAIN plans :
            /\ plans[p].status \in {"draft", "confirmed", "superseded"}
            /\ plans[p].at \in 0..Len(plans)
    <3>1. \A p \in DOMAIN plans : plans[p] \in PlanRow
      BY <2>1 DEF WorkTypes
    <3>2. DOMAIN plans = 1..Len(plans) /\ Len(plans) \in Nat
      BY <2>1, LenProperties DEF WorkTypes
    <3>3. Dated \subseteq DOMAIN plans
      BY DEF Dated
    <3>4. IsFiniteSet(1..Len(plans)) /\ Cardinality(1..Len(plans)) = Len(plans)
      <4> DEFINE n == Len(plans)
      <4>1. n \in Nat
        BY <3>2
      <4> HIDE DEF n
      <4>2. IsFiniteSet(1..n) /\ Cardinality(1..n) = IF 1 > n THEN 0 ELSE n - 1 + 1
        BY <4>1, FS_Interval
      <4>3. Cardinality(1..n) = n
        BY <4>1, <4>2
      <4> QED
        BY <4>2, <4>3 DEF n
    <3>5. Cardinality(Dated) <= Len(plans) /\ Cardinality(Dated) \in Nat
      BY <3>2, <3>3, <3>4, FS_Subset, FS_CardinalityType
    <3>6. \A p \in DOMAIN plans : plans[p].at \in Nat /\ plans[p].at <= Cardinality(Dated)
      BY <2>1, <3>1 DEF WorkTypes, DatesInv, PlanRow
    <3> QED
      BY <3>1, <3>2, <3>5, <3>6 DEF PlanRow
  <2>3. ASSUME NEW k \in Keys
        PROVE  /\ tasks[k].row \in {"none", "active", "retired"}
               /\ tasks[k].hours \in Nat
               /\ tasks[k].codex \in {"todo", "in_progress", "implemented"}
               /\ points[k].status \in
                     {"none", "pending", "implemented", "test_passed", "failed"} \cup Human
    BY <2>1 DEF WorkTypes, TaskRow, PointRow, Human
  <2> QED
    BY <1>2, <2>1, <2>2, <2>3 DEF DeliveryTypeOK, WorkTypes
<1>4. RunsTypeOK
  <2>1. RunTypes /\ RunRefs
    BY DEF DeliveryInv, RunsInv
  <2>2. \A a \in DOMAIN approvals :
           approvals[a].status \in {"approved", "rejected", "cancelled", "pending", "expired"}
    <3>1. \A a \in DOMAIN approvals : approvals[a] \in ApprovalRow
      BY <2>1 DEF RunTypes
    <3> QED
      BY <3>1 DEF ApprovalRow, Decisions
  <2>3. ASSUME NEW r \in RunIds
        PROVE  /\ runs[r].status \in Locked \cup {"none", "cancelled", "failed", "completed"}
               /\ runs[r].open => runs[r].task \in Keys
               /\ launch[r] \in {"off", "creating", "turning", "begun"}
               /\ acting[r] \subseteq {"pause", "cancel", "resume", "resumed"}
    <3>1. runs[r] \in RunRow
      BY <2>1 DEF RunTypes
    <3>2. runs[r].open => runs[r].status # "none"
      BY DEF DeliveryInv, RunsInv
    <3> QED
      BY <2>1, <3>1, <3>2 DEF RunTypes, RunRefs, RunRow
  <2> QED
    BY <2>1, <2>2, <2>3 DEF RunsTypeOK, RunTypes
<1> QED
  BY <1>1, <1>3, <1>4 DEF TypeOK

-----------------------------------------------------------------------------
(* What is proved.                                                         *)

\* The variables of the ledger, of the delivery and of the runs have their types; the
\* progress is a percentage.
THEOREM TypesHold == Spec => []TypeOK
<1>1. Init => TypesInv
  <2> SUFFICES ASSUME Init PROVE TypesInv
    OBVIOUS
  <2>1. MoneyInv /\ DeliveryInv
    BY LedgerStarts, DeliveryStarts DEF Init
  <2>2. weights = Weights(tasks)
    BY DEF Init, DeliveryInit
  <2>3. WeightTypes
    BY <2>1, <2>2, WeightsAre DEF WeightTypes, DeliveryInv, WorkInv, WorkTypes
  <2> QED
    BY <2>1, <2>3 DEF TypesInv
<1>2. TypesInv /\ [Next]_vars => TypesInv'
  <2> SUFFICES ASSUME TypesInv, [Next]_vars PROVE TypesInv'
    OBVIOUS
  <2>1. MoneyInv' /\ DeliveryInv'
    BY MoneyStays, DeliveryStays DEF TypesInv
  <2>2. tasks \in [Keys -> TaskRow] /\ tasks' \in [Keys -> TaskRow]
    BY <2>1 DEF TypesInv, DeliveryInv, WorkInv, WorkTypes
  <2>3. WeightTypes'
    BY <2>2, WeightsFrame, WeightsAre DEF TypesInv, WeightTypes
  <2> QED
    BY <2>1, <2>3 DEF TypesInv
<1>3. TypesInv => TypeOK
  BY TypesInvHolds
<1> QED
  BY <1>1, <1>2, <1>3, PTL DEF Spec

\* The plan in force, its tasks, their points and the progress agree, hours are
\* counted only for running runs, and a decision that is shown is the one that was
\* sent (confirm of codex_plans.py, sync_verified_progress, _persist_event,
\* decide_approval, start).
THEOREM WorkIsKept == Spec => []WorkHolds
<1>1. Init => DeliveryInv
  BY DeliveryStarts
<1>2. DeliveryInv /\ [Next]_vars => DeliveryInv'
  BY DeliveryStays
<1>3. DeliveryInv => WorkHolds
  <2> SUFFICES ASSUME DeliveryInv PROVE WorkHolds
    OBVIOUS
  <2>1. ScopeIsPlan
    BY DEF DeliveryInv, WorkInv
  <2>2. TimeOnlyRunning
    BY DEF DeliveryInv, RunsInv, TimeOnlyRunning
  <2>3. ApprovalsHold
    <3>1. ASSUME NEW a \in DOMAIN approvals, approvals[a].status \in Decisions,
                 ~approvals[a].stale
          PROVE  approvals[a].sent = approvals[a].status /\ approvals[a].to = approvals[a].run
      BY <3>1 DEF DeliveryInv, RunsInv, Answering, Answers
    <3> QED
      BY <3>1 DEF DeliveryInv, RunsInv, WaitsFor, ApprovalsHold, Decisions
  <2> QED
    BY <2>1, <2>2, <2>3 DEF WorkHolds
<1> QED
  BY <1>1, <1>2, <1>3, PTL DEF Spec

\* Only a person's decision changes the status of a verified or waived point, and no
\* confirmed draft changes a task on which work has begun (apply_persisted_event,
\* run_test, confirm of project_task_drafts.py).
THEOREM HumanStands == Spec => HumanWorkStands
<1>1. Init => DeliveryInv
  BY DeliveryStarts
<1>2. DeliveryInv /\ [Next]_vars => DeliveryInv'
  BY DeliveryStays
<1>3. DeliveryInv /\ [Next]_vars => [Stands]_vars
  BY DeliveryStays
<1>4. [][Stands]_vars => HumanWorkStands
  BY DEF HumanWorkStands, Stands
<1> QED
  BY <1>1, <1>2, <1>3, <1>4, PTL DEF Spec

\* Whatever receipts, change orders, issues and rows of the quick accounting a project
\* has, and whatever plans, drafts and runs come between them: nothing is collected
\* twice, open nodes ask for no more than is outstanding, refunds stay below receipts
\* and a terminated project asks for nothing (confirm_payment,
\* create_project_change_order, record_settlement_issue, _write_off_pending_nodes).
THEOREM MoneyIsKept == Spec => []MoneyAddsUp
<1>1. Init => MoneyInv
  BY LedgerStarts DEF Init
<1>2. MoneyInv /\ [Next]_vars => MoneyInv'
  BY MoneyStays
<1>3. MoneyInv => MoneyAddsUp
  BY MoneyInvAddsUp
<1> QED
  BY <1>1, <1>2, <1>3, PTL DEF Spec
=============================================================================
