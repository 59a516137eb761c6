--------------------- MODULE CustomerAutoAnalysisProofs ---------------------
(***************************************************************************)
(* Proofs about CustomerAutoAnalysis, for every value of its constants.    *)
(*                                                                         *)
(* The actions of the run task fall into a few kinds: the claim is given   *)
(* up, a run is claimed, goes on, ends without a result, or completes.     *)
(* TaskStepKinds says so once, and the invariance proofs have one case per *)
(* kind.  Then come the safety properties: lemmas say what each action     *)
(* does to the fields the invariants speak of, and the invariants build on *)
(* one another - which runs may be running, what the batch of a run is,    *)
(* how the watermark follows the artifacts.  What the component promises   *)
(* to the user and to the rest of the program comes after that: no         *)
(* uncertain request is repeated by itself, a pending batch is not put off *)
(* for ever, no message is forgotten and no event stranded, what leaves    *)
(* has the user's current consent, the text of a batch is in its prompt,   *)
(* and the rows of the outbox change as AnalysisOutbox says.               *)
(*                                                                         *)
(* Records are updated field by field: a leaf about the value of a field   *)
(* goes to SMT, a leaf about the set a whole record belongs to goes to     *)
(* Zenon, after the arithmetic it needs has been proved.                   *)
(***************************************************************************)
EXTENDS CustomerAutoAnalysisProps, FiniteSums

-----------------------------------------------------------------------------
(* The kinds of steps of the run task.                                     *)

\* The task ends before it has a run.
ClaimGivenUp ==
    /\ task.pc = "ready"
    /\ task' = IdleTask
    /\ \/ sub' = sub
       \/ /\ Pending = {}
          /\ sub' = [sub EXCEPT !.state = "waiting", !.wait = None, !.age = None]
       \/ sub' = [sub EXCEPT !.state = "failed", !.wait = None, !.age = None]
    /\ UNCHANGED <<msgs, event, eventRun, runs, lastRun, artifacts, runsToday,
                   proc, configured>>

\* The run in flight goes on: its conversation or its response is noted.
RunGoesOn ==
    /\ InFlight
    /\ \/ sub' = sub
       \/ \E convo \in {"creating", "uncertain", "ready"} :
             sub' = [sub EXCEPT !.convo = convo]
    /\ \/ runs' = runs
       \/ \E resp \in {"creating", "uncertain", "response"} :
             /\ resp = "creating" => Authorized
             /\ runs' = [runs EXCEPT ![lastRun].resp = resp]
    /\ InFlight' /\ task' \in Task
    /\ UNCHANGED <<event, eventRun, artifacts>>
    /\ UNCHANGED Unclaimed

\* The run in flight ends without a result.
RunEnds ==
    /\ InFlight
    /\ FailRun \/ CancelRun
    /\ UNCHANGED Unclaimed

\* Every step of the task is of one of these kinds.
LEMMA TaskStepKinds ==
  ASSUME TypeOK, TaskStep
  PROVE  ClaimGivenUp \/ Claim \/ RunGoesOn \/ RunEnds \/ Complete
<1> USE DEF ClaimGivenUp, RunGoesOn, RunEnds, InFlight
<1>1. CASE ClaimRefused
  BY <1>1 DEF ClaimRefused, Resuming
<1>2. CASE ClaimNothing
  BY <1>2 DEF ClaimNothing, Resuming
<1>3. CASE ClaimUncertain
  BY <1>3 DEF ClaimUncertain, Resuming, TypeOK, Subscription
<1>4. CASE EnsureConversation
  BY <1>4 DEF EnsureConversation, SendRequest, TypeOK, Task
<1>5. CASE CreateReturns
  BY <1>5 DEF CreateReturns, Resuming, TypeOK, Task
<1>6. CASE CheckAfterCreate
  BY <1>6 DEF CheckAfterCreate, SendRequest, TypeOK, Task
<1>7. CASE CreateFails
  <2>1. sub' = sub \/ sub' = [sub EXCEPT !.convo = "uncertain"]
    BY <1>7 DEF CreateFails, TypeOK, Subscription
  <2> QED
    BY <1>7, <2>1 DEF CreateFails, Resuming, TypeOK, Task
<1>8. CASE AnalyzeReturns
  BY <1>8 DEF AnalyzeReturns, Resuming, TypeOK, Task
<1>9. CASE AnalyzeFails
  BY <1>9 DEF AnalyzeFails, Resuming, TypeOK, Task
<1>10. CASE Discard
  BY <1>10 DEF Discard
<1>11. CASE Fail
  BY <1>11 DEF Fail
<1>12. CASE Interrupt
  BY <1>12 DEF Interrupt, TypeOK, Task, Unclaimed
<1>13. CASE Unwind
  BY <1>13 DEF Unwind
<1> QED
  BY <1>1, <1>2, <1>3, <1>4, <1>5, <1>6, <1>7, <1>8, <1>9, <1>10, <1>11,
     <1>12, <1>13 DEF TaskStep

-----------------------------------------------------------------------------
(* Types.                                                                  *)

\* What keeps the counters of rows within their bounds: an artifact is written
\* by a run of its own, and a task starts only if there is room for its run.
RunBounds ==
    /\ runsToday <= lastRun
    /\ sub.version <= lastRun
    /\ InFlight => sub.version < lastRun
    /\ task.pc = "ready" => lastRun < MaxRuns

TypeInv == TypeOK /\ RunBounds

LEMMA Times ==
    /\ None \in -1..MaxAge /\ None \notin Nat
    /\ 0 \in -1..MaxAge
BY SettingsAssumption DEF None

LEMMA NoRunType ==
  ASSUME NEW scope \in Scopes
  PROVE  NoRun(scope) \in Run
<1>1. {} \in SUBSET MessageIds
  OBVIOUS
<1> QED
  BY <1>1, BoundsAssumption DEF NoRun, Run

\* The initial rows have the declared types.
LEMMA TypeInit == Init => TypeInv
<1> SUFFICES ASSUME Init PROVE TypeInv
    OBVIOUS
<1> USE BoundsAssumption, SettingsAssumption DEF Init
<1>1. PICK scope \in Scopes, pace \in Paces :
        /\ sub = [status |-> "none", state |-> "waiting", rev |-> 0,
                  mark |-> 0, version |-> 0, wait |-> None, age |-> None,
                  convo |-> "none", scope |-> scope, pace |-> pace]
        /\ runs = [r \in RunIds |-> NoRun(scope)]
  OBVIOUS
<1>2. msgs \in Seq(Message) /\ Len(msgs) <= MaxMessages
  OBVIOUS
<1>3. sub \in Subscription
  BY <1>1, Times DEF Subscription
<1>4. runs \in [RunIds -> Run]
  BY <1>1, NoRunType
<1>5. /\ event \in [MessageIds -> EventStatus]
      /\ eventRun \in [MessageIds -> 0..MaxRuns]
      /\ artifacts \in [RunIds -> 0..MaxRuns]
  BY DEF EventStatus
<1>6. /\ lastRun \in 0..MaxRuns
      /\ runsToday \in 0..MaxRuns
      /\ task \in Task
      /\ proc \in {"up", "stopping", "down"}
      /\ configured \in BOOLEAN
  BY DEF IdleTask, Task
<1>7. RunBounds
  BY <1>1 DEF RunBounds, InFlight, IdleTask
<1> QED
  BY <1>2, <1>3, <1>4, <1>5, <1>6, <1>7 DEF TypeInv, TypeOK

\* A due time that is set is not in the past, and lies within the longest wait.
LEMMA DueInType ==
  ASSUME NEW pace \in Paces, NEW age \in 0..MaxAge
  PROVE  /\ DueIn(pace, age) \in 0..MaxAge
         /\ DueIn(pace, age) = 0 \/ DueIn(pace, age) + age <= pace.maxWait
BY SettingsAssumption DEF DueIn

\* A row with a new event is still a row.
LEMMA EnqueuedType ==
  ASSUME NEW s \in Subscription, NEW e, NEW immediate
  PROVE  Enqueued(s, e, immediate) \in Subscription
<1> DEFINE age == IF s.age = None THEN 0 ELSE s.age
           wait == DueIn(s.pace, age)
<1>1. Enqueued(s, e, immediate) =
        IF HasEvent(e, "failed") \/ s.state = "failed"
        THEN [s EXCEPT !.age = age, !.wait = None, !.state = "failed"]
        ELSE IF configured
        THEN [s EXCEPT !.age = age, !.state = "pending",
                       !.wait = IF immediate THEN 0 ELSE wait]
        ELSE [s EXCEPT !.age = age, !.wait = None,
                       !.state = "configuration_required"]
  BY Zenon DEF Enqueued
<1>2. age \in 0..MaxAge /\ s.pace \in Paces
  BY SettingsAssumption DEF Subscription, None
<1> HIDE DEF age
<1>3. wait \in 0..MaxAge
  BY <1>2, DueInType
<1> HIDE DEF wait
<1>4. age \in -1..MaxAge /\ wait \in -1..MaxAge
  BY <1>2, <1>3, SettingsAssumption
<1> QED
  BY <1>1, <1>4, Times, ZenonT(40) DEF Subscription

\* It keeps every field but the state and the times.
LEMMA EnqueuedKeeps ==
  ASSUME NEW s \in Subscription, NEW e, NEW immediate, NEW t,
         t = Enqueued(s, e, immediate)
  PROVE  /\ t.status = s.status /\ t.rev = s.rev /\ t.mark = s.mark
         /\ t.version = s.version /\ t.convo = s.convo
         /\ t.scope = s.scope /\ t.pace = s.pace
         /\ t.state \in {"pending", "failed", "configuration_required"}
BY Zenon DEF Enqueued, Subscription

\* The rows an upsert may leave.
LEMMA UpsertType ==
  ASSUME TypeOK, NEW scope \in Scopes, NEW pace \in Paces, Upsert(scope, pace)
  PROVE  sub' \in Subscription
<1> DEFINE edited == [sub EXCEPT
             !.status = "active", !.rev = @ + 1, !.scope = scope,
             !.pace = pace,
             !.state = IF sub.status # "none" THEN @
                       ELSE IF configured THEN "waiting"
                       ELSE "configuration_required"]
           started(e, latest) == Bootstrapped(edited, e, latest)
<1>1. PICK latest \in 0..Len(msgs) :
        sub' = IF sub.status = "paused"
               THEN Resumed(started(event', latest), event')
               ELSE started(event', latest)
  BY Zenon DEF Upsert
<1>2. edited \in Subscription
  <2>1. sub.rev + 1 \in 0..MaxRevision
    BY BoundsAssumption, SMTT(30) DEF Upsert, TypeOK, Subscription
  <2> QED
    BY <2>1, Zenon DEF TypeOK, Subscription
<1> HIDE DEF edited
<1>3. started(event', latest) \in Subscription
  BY <1>2, EnqueuedType, Zenon DEF Bootstrapped, Subscription
<1> HIDE DEF started
<1>4. Resumed(started(event', latest), event') \in Subscription
  BY <1>3, Times, Zenon DEF Resumed, Subscription
<1> QED
  BY <1>1, <1>3, <1>4

\* A completed run moves the mark and the version, and only says otherwise in
\* the state and the times.
LEMMA CompletedRowType ==
  ASSUME sub \in Subscription, sub.version + 1 \in 0..MaxRuns,
         Watermark \in 0..MaxMessages, NEW e
  PROVE  LET t == CompletedRow(e)
         IN  /\ t \in Subscription
             /\ t.mark = Watermark /\ t.version = sub.version + 1
             /\ t.status = sub.status /\ t.rev = sub.rev /\ t.scope = sub.scope
             /\ t.state \in {"pending", "completed"}
<1> DEFINE done == [sub EXCEPT !.mark = Watermark, !.version = @ + 1]
<1>1. /\ done \in Subscription
      /\ done.mark = Watermark /\ done.version = sub.version + 1
      /\ done.status = sub.status /\ done.rev = sub.rev
      /\ done.scope = sub.scope
  BY Zenon DEF Subscription
<1>2. CompletedRow(e) =
        IF HasEvent(e, "pending")
        THEN [done EXCEPT !.state = "pending",
                          !.age = IF done.age = None THEN 0 ELSE done.age,
                          !.wait = IF done.wait = None THEN 0 ELSE done.wait]
        ELSE [done EXCEPT !.state = "completed", !.age = None, !.wait = None]
  BY Zenon DEF CompletedRow
<1> HIDE DEF done
<1>3. /\ done.age \in -1..MaxAge /\ done.wait \in -1..MaxAge
  BY <1>1, Zenon DEF Subscription
<1>4. ASSUME NEW state \in {"pending", "completed"},
             NEW age \in -1..MaxAge, NEW wait \in -1..MaxAge,
             NEW t, t = [done EXCEPT !.state = state, !.age = age, !.wait = wait]
      PROVE  /\ t \in Subscription
             /\ t.mark = Watermark /\ t.version = sub.version + 1
             /\ t.status = sub.status /\ t.rev = sub.rev /\ t.scope = sub.scope
             /\ t.state \in {"pending", "completed"}
  BY <1>1, <1>4, Zenon DEF Subscription
<1>5. CASE HasEvent(e, "pending")
  <2>1. PICK age \in -1..MaxAge : age = IF done.age = None THEN 0 ELSE done.age
    BY <1>3, Times, Zenon
  <2>2. PICK wait \in -1..MaxAge : wait = IF done.wait = None THEN 0 ELSE done.wait
    BY <1>3, Times, Zenon
  <2>3. CompletedRow(e) =
          [done EXCEPT !.state = "pending", !.age = age, !.wait = wait]
    BY <1>2, <1>5, <2>1, <2>2, Zenon
  <2> QED
    BY <1>4, <2>3, Zenon
<1>6. CASE ~HasEvent(e, "pending")
  <2>1. CompletedRow(e) =
          [done EXCEPT !.state = "completed", !.age = None, !.wait = None]
    BY <1>2, <1>6, Zenon
  <2> QED
    BY <1>4, <2>1, Times, ZenonT(40)
<1> QED
  BY <1>5, <1>6, Zenon

\* The mark and the version of a completed run have room in their rows.
LEMMA CompletedBounds ==
  ASSUME TypeInv, InFlight
  PROVE  /\ lastRun \in RunIds
         /\ sub.version + 1 \in 0..MaxRuns
         /\ Watermark \in 0..MaxMessages
<1> USE DEF TypeInv, TypeOK
<1>1. lastRun \in RunIds /\ sub.version + 1 \in 0..MaxRuns
  BY BoundsAssumption, SMTT(30) DEF RunBounds, Subscription, RunIds
<1> QED
  BY <1>1, Zenon DEF Watermark, Run

LEMMA SubType ==
  ASSUME TypeInv, [Next]_vars
  PROVE  sub' \in Subscription
<1> USE DEF TypeInv, TypeOK
<1>1. CASE ReceiveMessage
  <2>1. sub' = sub \/ sub' = Enqueued(sub, event', FALSE)
    BY <1>1 DEF ReceiveMessage
  <2> QED
    BY <2>1, EnqueuedType
<1>2. ASSUME NEW scope \in Scopes, NEW pace \in Paces, Upsert(scope, pace)
      PROVE  sub' \in Subscription
  BY <1>2, UpsertType
<1>3. CASE Pause
  <2>1. sub.rev + 1 \in 0..MaxRevision
    BY <1>3, BoundsAssumption DEF Pause, Subscription
  <2> QED
    BY <1>3, <2>1, Times, Zenon DEF Pause, Subscription
<1>4. CASE Retry
  <2>1. sub.rev + 1 \in 0..MaxRevision
    BY <1>4, BoundsAssumption DEF Retry, Subscription
  <2> QED
    BY <1>4, <2>1, Times, ZenonT(30) DEF Retry, Subscription
<1>5. CASE ClaimGivenUp
  BY <1>5, Times, ZenonT(40) DEF ClaimGivenUp, Subscription
<1>6. CASE Claim
  BY <1>6, Times, Zenon DEF Claim, Subscription
<1>7. CASE RunGoesOn
  BY <1>7, Zenon DEF RunGoesOn, Subscription
<1>8. CASE RunEnds
  BY <1>8, Times, ZenonT(40) DEF RunEnds, FailRun, CancelRun, Subscription
<1>9. CASE Complete
  <2>1. sub' = CompletedRow(event') /\ InFlight
    BY <1>9 DEF Complete, InFlight
  <2> QED
    BY <2>1, CompletedBounds, CompletedRowType, Zenon
<1>10. CASE Start
  BY <1>10, Times, Zenon DEF Start, Subscription
<1>11. CASE Tick
  <2>1. /\ sub.wait > 0 => sub.wait - 1 \in -1..MaxAge
        /\ sub.age # None /\ sub.age < MaxAge => sub.age + 1 \in -1..MaxAge
    BY SettingsAssumption, SMTT(30) DEF Subscription, None
  <2> QED
    BY <1>11, <2>1, Zenon DEF Tick, Subscription
<1>12. CASE UNCHANGED sub
  BY <1>12
<1> QED
  BY <1>1, <1>2, <1>3, <1>4, <1>5, <1>6, <1>7, <1>8, <1>9, <1>10, <1>11,
     <1>12, TaskStepKinds
  DEF Next, UserStep, ProcessStep, MergeMessage, Dispatch, Stop, Stopped,
      Crash, NewDay, vars

\* A run in flight is a row of the table.
LEMMA InFlightRun ==
  ASSUME TypeInv, InFlight
  PROVE  lastRun \in RunIds
BY BoundsAssumption DEF TypeInv, TypeOK, RunBounds, Subscription, RunIds

\* A claim inserts the next row, and there is room for it.
LEMMA ClaimedRun ==
  ASSUME TypeInv, Claim
  PROVE  /\ lastRun' = lastRun + 1
         /\ lastRun + 1 \in RunIds
         /\ runsToday' = runsToday + 1
         /\ runsToday + 1 \in 0..MaxRuns
         /\ task' = [task EXCEPT !.pc = "claimed"]
         /\ task.pc = "ready"
<1>1. /\ lastRun' = lastRun + 1
      /\ runsToday' = runsToday + 1
      /\ task' = [task EXCEPT !.pc = "claimed"]
      /\ task.pc = "ready"
  BY Zenon DEF Claim, Resuming
<1> QED
  BY <1>1, BoundsAssumption DEF TypeInv, TypeOK, RunBounds, RunIds

\* The run in flight takes another status or response.
LEMMA RunUpdate ==
  ASSUME TypeInv, InFlight
  PROVE  /\ \A status \in {"failed", "cancelled", "completed"} :
               [runs EXCEPT ![lastRun].status = status] \in [RunIds -> Run]
         /\ \A resp \in {"creating", "uncertain", "response"} :
               [runs EXCEPT ![lastRun].resp = resp] \in [RunIds -> Run]
<1>1. runs \in [RunIds -> Run] /\ runs[lastRun] \in Run
  BY InFlightRun, Zenon DEF TypeInv, TypeOK
<1>2. ASSUME NEW status \in {"failed", "cancelled", "completed"}
      PROVE  [runs EXCEPT ![lastRun].status = status] \in [RunIds -> Run]
  <2>1. [runs[lastRun] EXCEPT !.status = status] \in Run
    BY <1>1, Zenon DEF Run
  <2> QED
    BY <1>1, <2>1, Zenon
<1>3. ASSUME NEW resp \in {"creating", "uncertain", "response"}
      PROVE  [runs EXCEPT ![lastRun].resp = resp] \in [RunIds -> Run]
  <2>1. [runs[lastRun] EXCEPT !.resp = resp] \in Run
    BY <1>1, Zenon DEF Run
  <2> QED
    BY <1>1, <2>1, Zenon
<1> QED
  BY <1>2, <1>3

LEMMA RunsType ==
  ASSUME TypeInv, [Next]_vars
  PROVE  runs' \in [RunIds -> Run] /\ lastRun' \in 0..MaxRuns
<1> USE DEF TypeInv, TypeOK
<1>1. CASE Retry
  BY <1>1, ZenonT(40) DEF Retry, Run
<1>2. CASE Claim
  <2>1. PICK after \in MessageIds :
          runs' = [runs EXCEPT ![lastRun + 1] =
                     [status |-> "running", rev |-> sub.rev,
                      before |-> sub.mark, after |-> after, resp |-> "",
                      ctx |-> Selected(after), scope |-> sub.scope]]
    BY <1>2 DEF Claim
  <2>2. Selected(after) \in SUBSET MessageIds
    <3>1. sub.mark \in 0..MaxMessages
      BY Zenon DEF Subscription
    <3> QED
      BY <3>1, BoundsAssumption, SettingsAssumption, SMTT(30) DEF Selected, MessageIds
  <2>3. after \in 0..MaxMessages
    BY DEF MessageIds
  <2>4. [status |-> "running", rev |-> sub.rev, before |-> sub.mark,
         after |-> after, resp |-> "", ctx |-> Selected(after),
         scope |-> sub.scope] \in Run
    BY <2>2, <2>3, Zenon DEF Run, Subscription
  <2>5. lastRun' \in 0..MaxRuns
    BY <1>2, ClaimedRun, BoundsAssumption DEF RunIds
  <2> QED
    BY <2>1, <2>4, <2>5, Zenon
<1>3. CASE RunGoesOn
  <2>1. \/ runs' = runs
        \/ \E resp \in {"creating", "uncertain", "response"} :
              runs' = [runs EXCEPT ![lastRun].resp = resp]
    BY <1>3, Zenon DEF RunGoesOn
  <2>2. lastRun' = lastRun
    BY <1>3, Zenon DEF RunGoesOn, Unclaimed
  <2>3. InFlight
    BY <1>3, Zenon DEF RunGoesOn
  <2>4. runs' \in [RunIds -> Run]
    <3>1. CASE runs' = runs
      BY <3>1
    <3>2. ASSUME NEW resp \in {"creating", "uncertain", "response"},
                 runs' = [runs EXCEPT ![lastRun].resp = resp]
          PROVE  runs' \in [RunIds -> Run]
      <4> HIDE DEF TypeInv, TypeOK
      <4> QED
        BY <2>3, <3>2, RunUpdate, Zenon
    <3> QED
      BY <2>1, <3>1, <3>2
  <2> QED
    BY <2>2, <2>4
<1>4. CASE RunEnds
  <2>1. \/ runs' = [runs EXCEPT ![lastRun].status = "failed"]
        \/ runs' = [runs EXCEPT ![lastRun].status = "cancelled"]
    BY <1>4, Zenon DEF RunEnds, FailRun, CancelRun
  <2>2. lastRun' = lastRun
    BY <1>4, Zenon DEF RunEnds, Unclaimed
  <2>3. InFlight
    BY <1>4, Zenon DEF RunEnds
  <2>4. runs' \in [RunIds -> Run]
    <3> HIDE DEF TypeInv, TypeOK
    <3>1. CASE runs' = [runs EXCEPT ![lastRun].status = "failed"]
      BY <2>3, <3>1, RunUpdate, Zenon
    <3>2. CASE runs' = [runs EXCEPT ![lastRun].status = "cancelled"]
      BY <2>3, <3>2, RunUpdate, Zenon
    <3> QED
      BY <2>1, <3>1, <3>2
  <2> QED
    BY <2>2, <2>4
<1>5. CASE Complete
  BY <1>5, ZenonT(40) DEF Complete, Unclaimed, Run
<1>6. CASE Start
  BY <1>6, ZenonT(40) DEF Start, Run
<1>7. CASE UNCHANGED <<runs, lastRun>>
  BY <1>7
<1> QED
  BY <1>1, <1>2, <1>3, <1>4, <1>5, <1>6, <1>7, TaskStepKinds
  DEF Next, UserStep, ProcessStep, ReceiveMessage, MergeMessage, Upsert,
      Pause, Dispatch,
      ClaimGivenUp, Stop, Stopped, Crash, Tick, NewDay, vars

LEMMA EventsType ==
  ASSUME TypeInv, [Next]_vars
  PROVE  /\ event' \in [MessageIds -> EventStatus]
         /\ eventRun' \in [MessageIds -> 0..MaxRuns]
<1> USE DEF TypeInv, TypeOK, EventStatus
<1>1. CASE ReceiveMessage
  BY <1>1 DEF ReceiveMessage
<1>2. ASSUME NEW scope \in Scopes, NEW pace \in Paces, Upsert(scope, pace)
      PROVE  /\ event' \in [MessageIds -> EventStatus]
             /\ eventRun' \in [MessageIds -> 0..MaxRuns]
  BY <1>2 DEF Upsert
<1>3. CASE Retry
  BY <1>3, BoundsAssumption DEF Retry
<1>4. CASE Claim
  <2>1. lastRun + 1 \in 0..MaxRuns
    BY <1>4, ClaimedRun, BoundsAssumption DEF RunIds
  <2> QED
    BY <1>4, <2>1, ZenonT(40) DEF Claim
<1>5. CASE RunEnds
  BY <1>5, BoundsAssumption DEF RunEnds, FailRun, CancelRun, MoveEvents
<1>6. CASE Complete
  BY <1>6 DEF Complete, MoveEvents
<1>7. CASE Start
  BY <1>7 DEF Start
<1>8. CASE UNCHANGED <<event, eventRun>>
  BY <1>8
<1> QED
  BY <1>1, <1>2, <1>3, <1>4, <1>5, <1>6, <1>7, <1>8, TaskStepKinds
  DEF Next, UserStep, ProcessStep, MergeMessage, Pause, Dispatch,
      ClaimGivenUp, RunGoesOn,
      Stop, Stopped, Crash, Tick, NewDay, vars

LEMMA ProcessType ==
  ASSUME TypeInv, [Next]_vars
  PROVE  /\ task' \in Task
         /\ proc' \in {"up", "stopping", "down"}
         /\ configured' \in BOOLEAN
<1> USE DEF TypeInv, TypeOK
<1>1. task' \in Task
  <2>1. IdleTask \in Task
    BY DEF IdleTask, Task
  <2>2. CASE Pause
    BY <2>2, Zenon DEF Pause, Task
  <2>3. CASE Dispatch
    BY <2>3, Zenon DEF Dispatch, Task
  <2>4. CASE Claim
    BY <2>4, ClaimedRun, Zenon DEF Task
  <2>5. CASE task' \in {task, IdleTask}
    BY <2>1, <2>5
  <2>6. CASE RunGoesOn
    BY <2>6 DEF RunGoesOn
  <2> QED
    BY <2>2, <2>3, <2>4, <2>5, <2>6, TaskStepKinds
    DEF Next, UserStep, ProcessStep, ReceiveMessage, MergeMessage,
        Upsert, Retry,
        ClaimGivenUp, RunEnds, FailRun, CancelRun, Complete, Stop, Stopped,
        Crash, Start, Tick, NewDay, vars
<1>2. proc' \in {"up", "stopping", "down"} /\ configured' \in BOOLEAN
  <2>1. CASE ProcessStep
    BY <2>1, SettingsAssumption DEF ProcessStep, Stop, Stopped, Crash, Start
  <2>2. CASE UNCHANGED <<proc, configured>>
    BY <2>2
  <2> QED
    BY <2>1, <2>2, TaskStepKinds, Zenon
    DEF Next, UserStep, ReceiveMessage, MergeMessage, Upsert, Pause, Retry,
        Dispatch,
        ClaimGivenUp, Claim, RunGoesOn, RunEnds, Complete, Unclaimed, Tick,
        NewDay, vars
<1> QED
  BY <1>1, <1>2

LEMMA RowsType ==
  ASSUME TypeInv, [Next]_vars
  PROVE  /\ msgs' \in Seq(Message) /\ Len(msgs') <= MaxMessages
         /\ artifacts' \in [RunIds -> 0..MaxRuns]
         /\ runsToday' \in 0..MaxRuns
<1> USE BoundsAssumption DEF TypeInv, TypeOK
<1>1. CASE ReceiveMessage \/ MergeMessage
  <2>1. /\ Len(msgs) < MaxMessages
        /\ UNCHANGED <<artifacts, runsToday>>
        /\ \E message \in Message : msgs' = Append(msgs, message)
    BY <1>1, Zenon DEF ReceiveMessage, MergeMessage
  <2>2. PICK message \in Message : msgs' = Append(msgs, message)
    BY <2>1
  <2> QED
    BY <2>1, <2>2
<1>2. CASE Claim
  <2>1. UNCHANGED <<msgs, artifacts>>
    BY <1>2, Zenon DEF Claim
  <2> QED
    BY <1>2, <2>1, ClaimedRun
<1>3. CASE Complete
  BY <1>3 DEF Complete, Unclaimed
<1>4. CASE NewDay
  BY <1>4 DEF NewDay
<1>5. CASE UNCHANGED <<msgs, artifacts, runsToday>>
  BY <1>5
<1> QED
  BY <1>1, <1>2, <1>3, <1>4, <1>5, TaskStepKinds
  DEF Next, UserStep, ProcessStep, Upsert, Pause, Retry, Dispatch,
      ClaimGivenUp, RunGoesOn, RunEnds, FailRun, CancelRun, Unclaimed,
      Stop, Stopped, Crash, Start, Tick, vars

LEMMA BoundsStep ==
  ASSUME TypeInv, [Next]_vars
  PROVE  RunBounds'
<1>1. /\ lastRun \in Nat /\ runsToday \in Nat /\ sub.version \in Nat
      /\ RunBounds
  BY BoundsAssumption DEF TypeInv, TypeOK, Subscription
<1>2. CASE Dispatch
  BY <1>1, <1>2 DEF Dispatch, RunBounds, InFlight
<1>3. CASE Claim
  <2>1. sub'.version = sub.version
    BY <1>3, Zenon DEF Claim, TypeInv, TypeOK, Subscription
  <2>2. task'.pc = "claimed"
    BY <1>3, ClaimedRun, Zenon DEF TypeInv, TypeOK, Task
  <2> QED
    BY <1>1, <1>3, <2>1, <2>2, ClaimedRun DEF RunBounds, InFlight
<1>4. CASE RunGoesOn
  <2>1. sub'.version = sub.version
    BY <1>4 DEF RunGoesOn, TypeInv, TypeOK, Subscription
  <2> QED
    BY <1>1, <1>4, <2>1 DEF RunGoesOn, Unclaimed, RunBounds, InFlight
<1>5. CASE Complete
  <2>1. sub'.version = sub.version + 1
    <3>1. sub' = CompletedRow(event') /\ InFlight
      BY <1>5 DEF Complete, InFlight
    <3> QED
      BY <3>1, CompletedBounds, CompletedRowType, Zenon DEF TypeInv, TypeOK
  <2> QED
    BY <1>1, <1>5, <2>1
    DEF Complete, Unclaimed, RunBounds, InFlight, IdleTask
<1>6. CASE NewDay
  BY <1>1, <1>6 DEF NewDay, RunBounds, InFlight
<1>7. ASSUME sub'.version = sub.version, UNCHANGED <<lastRun, runsToday>>,
             task'.pc \in {task.pc, "idle"}
      PROVE  RunBounds'
  BY <1>1, <1>7 DEF RunBounds, InFlight
<1>8. CASE ReceiveMessage
  <2>1. sub'.version = sub.version
    BY <1>8 DEF ReceiveMessage, Enqueued, TypeInv, TypeOK, Subscription
  <2> QED
    BY <1>7, <1>8, <2>1 DEF ReceiveMessage
<1>9. ASSUME NEW scope \in Scopes, NEW pace \in Paces, Upsert(scope, pace)
      PROVE  RunBounds'
  BY <1>7, <1>9 DEF Upsert, Resumed, Bootstrapped, Enqueued
<1>10. CASE Pause \/ Retry
  BY <1>7, <1>10 DEF Pause, Retry, TypeInv, TypeOK, Task, Subscription
<1>11. CASE ClaimGivenUp
  BY <1>7, <1>11 DEF ClaimGivenUp, IdleTask, TypeInv, TypeOK, Subscription
<1>12. CASE RunEnds
  <2>1. sub'.version = sub.version /\ task' = IdleTask
    BY <1>12, Zenon
    DEF RunEnds, FailRun, CancelRun, TypeInv, TypeOK, Subscription
  <2>2. UNCHANGED <<lastRun, runsToday>>
    BY <1>12, Zenon DEF RunEnds, Unclaimed
  <2> QED
    BY <1>7, <2>1, <2>2 DEF IdleTask
<1>13. CASE MergeMessage \/ Stop \/ Stopped \/ Crash \/ UNCHANGED vars
  BY <1>7, <1>13 DEF MergeMessage, Stop, Stopped, Crash, vars, IdleTask
<1>14. CASE Start
  BY <1>7, <1>14 DEF Start, TypeInv, TypeOK, Subscription
<1>15. CASE Tick
  BY <1>7, <1>15 DEF Tick, TypeInv, TypeOK, Subscription
<1> QED
  BY <1>2, <1>3, <1>4, <1>5, <1>6, <1>8, <1>9, <1>10, <1>11, <1>12, <1>13,
     <1>14, <1>15, TaskStepKinds DEF TypeInv, Next, UserStep, ProcessStep

LEMMA TypeStep == TypeInv /\ [Next]_vars => TypeInv'
<1> SUFFICES ASSUME TypeInv, [Next]_vars PROVE TypeInv'
    OBVIOUS
<1> QED
  BY SubType, RunsType, EventsType, ProcessType, RowsType, BoundsStep, Zenon
  DEF TypeInv, TypeOK, RunIds, MessageIds

\* Every reachable state has the declared types, and the bounds of the model
\* hold without being tested by the actions of the run task.
THEOREM TypeCorrect == Spec => []TypeInv
BY TypeInit, TypeStep, PTL DEF Spec

\* In particular, every reachable state has the declared types.
THEOREM TypesHold == Spec => []TypeOK
<1>1. TypeInv => TypeOK
  BY DEF TypeInv
<1> QED
  BY <1>1, TypeCorrect, PTL

-----------------------------------------------------------------------------
(* What the actions do, field by field.                                    *)

\* The runs' and artifacts' side of a step that does not touch them.
NoRunChange == UNCHANGED <<runs, lastRun, eventRun, artifacts>>

\* The columns of the subscription that say where the analysis is.
Progress == <<sub.mark, sub.version>>

\* The columns a run's lease is compared with.
Lease == <<sub.status, sub.rev, sub.scope>>

\* A message reaches the conversation.
Arrival == ReceiveMessage \/ MergeMessage

\* A message or an upsert records at most one event, and never says that a
\* run is in flight.
LEMMA ReceiveValues ==
  ASSUME TypeInv, Arrival
  PROVE  /\ UNCHANGED <<Progress, Lease, task, proc>> /\ NoRunChange
         /\ sub'.state = sub.state
              \/ sub'.state \in {"pending", "failed", "configuration_required"}
         /\ Len(msgs') = Len(msgs) + 1
         /\ \/ event' = event
            \/ event' = [event EXCEPT ![Len(msgs) + 1] = "pending"]
<1>1. sub \in Subscription /\ msgs \in Seq(Message)
  BY DEF TypeInv, TypeOK
<1>2. /\ UNCHANGED <<task, proc>> /\ NoRunChange
      /\ \/ event' = event
         \/ event' = [event EXCEPT ![Len(msgs) + 1] = "pending"]
  BY Zenon DEF Arrival, ReceiveMessage, MergeMessage, NoRunChange
<1>3. Len(msgs') = Len(msgs) + 1
  <2>1. \E message \in Message : msgs' = Append(msgs, message)
    BY Zenon DEF Arrival, ReceiveMessage, MergeMessage
  <2> QED
    BY <1>1, <2>1
<1>4. /\ UNCHANGED <<Progress, Lease>>
      /\ sub'.state = sub.state
           \/ sub'.state \in {"pending", "failed", "configuration_required"}
  BY <1>1 DEF Arrival, ReceiveMessage, MergeMessage, Enqueued, Subscription,
            Progress, Lease
<1> QED
  BY <1>2, <1>3, <1>4

LEMMA UpsertValues ==
  ASSUME TypeInv, NEW scope \in Scopes, NEW pace \in Paces, Upsert(scope, pace)
  PROVE  /\ UNCHANGED <<Progress, task, proc, msgs>> /\ NoRunChange
         /\ sub'.status = "active" /\ sub'.rev = sub.rev + 1
         /\ sub'.scope = scope
         /\ sub'.state # "analyzing"
         /\ \/ event' = event
            \/ \E m \in 1..Len(msgs) :
                  event[m] = "none" /\ event' = [event EXCEPT ![m] = "pending"]
<1>1. sub \in Subscription /\ msgs \in Seq(Message)
  BY DEF TypeInv, TypeOK
<1>2. UNCHANGED <<task, proc, msgs>> /\ NoRunChange
  BY Zenon DEF Upsert, NoRunChange
<1>3. \/ event' = event
      \/ \E m \in 1..Len(msgs) :
            event[m] = "none" /\ event' = [event EXCEPT ![m] = "pending"]
  <2>1. PICK latest \in 0..Len(msgs) :
          event' = IF NeedsBootstrap(latest)
                   THEN [event EXCEPT ![latest] = "pending"] ELSE event
    BY Zenon DEF Upsert
  <2>2. NeedsBootstrap(latest) => latest # 0 /\ event[latest] = "none"
    BY DEF NeedsBootstrap
  <2>3. latest # 0 => latest \in 1..Len(msgs)
    BY <1>1
  <2> QED
    BY <2>1, <2>2, <2>3, Zenon
<1>4. /\ UNCHANGED Progress
      /\ sub'.status = "active" /\ sub'.rev = sub.rev + 1
      /\ sub'.scope = scope
      /\ sub'.state # "analyzing"
  BY <1>1 DEF Upsert, Resumed, Bootstrapped, Enqueued, Subscription, Progress
<1> QED
  BY <1>2, <1>3, <1>4

LEMMA PauseValues ==
  ASSUME TypeInv, Pause
  PROVE  /\ UNCHANGED <<Progress, event, proc, msgs, sub.scope, task.pc>>
         /\ NoRunChange
         /\ sub'.status = "paused" /\ sub'.rev = sub.rev + 1
         /\ sub'.state = "waiting"
BY DEF Pause, TypeInv, TypeOK, Subscription, Task, Progress, NoRunChange

LEMMA RetryValues ==
  ASSUME TypeInv, Retry
  PROVE  /\ UNCHANGED <<Progress, task, proc, msgs, sub.scope, sub.status,
                        artifacts, lastRun>>
         /\ sub'.rev = sub.rev + 1
         /\ sub'.state \in {"pending", "configuration_required"}
         /\ \A r \in RunIds :
               IF runs[r].resp = "uncertain"
               THEN runs'[r] = [runs[r] EXCEPT !.resp = "retry-authorized"]
               ELSE runs'[r] = runs[r]
         /\ \A m \in MessageIds :
               IF event[m] = "failed" THEN event'[m] = "pending" /\ eventRun'[m] = 0
               ELSE event'[m] = event[m] /\ eventRun'[m] = eventRun[m]
<1>1. sub \in Subscription
  BY DEF TypeInv, TypeOK
<1>2. /\ UNCHANGED <<Progress, task, proc, msgs, sub.scope, sub.status,
                     artifacts, lastRun>>
      /\ sub'.rev = sub.rev + 1
      /\ sub'.state \in {"pending", "configuration_required"}
  BY <1>1 DEF Retry, Subscription, Progress
<1>3. \A r \in RunIds :
         IF runs[r].resp = "uncertain"
         THEN runs'[r] = [runs[r] EXCEPT !.resp = "retry-authorized"]
         ELSE runs'[r] = runs[r]
  BY Zenon DEF Retry
<1>4. \A m \in MessageIds :
         IF event[m] = "failed" THEN event'[m] = "pending" /\ eventRun'[m] = 0
         ELSE event'[m] = event[m] /\ eventRun'[m] = eventRun[m]
  BY DEF Retry
<1> QED
  BY <1>2, <1>3, <1>4

LEMMA GivenUpValues ==
  ASSUME TypeInv, ClaimGivenUp
  PROVE  /\ UNCHANGED <<Progress, Lease, event, proc, msgs>> /\ NoRunChange
         /\ task.pc = "ready" /\ task' = IdleTask
         /\ sub'.state \in {sub.state, "waiting", "failed"}
BY DEF ClaimGivenUp, TypeInv, TypeOK, Subscription, Progress, Lease, NoRunChange

\* A claim appends a row and takes the pending events up to its end.
LEMMA ClaimValues ==
  ASSUME TypeInv, Claim
  PROVE  /\ UNCHANGED <<Progress, Lease, proc, msgs, artifacts>>
         /\ proc # "down"
         /\ sub.status = "active"
         /\ sub.state = "pending" /\ sub'.state = "analyzing"
         /\ task.pc = "ready" /\ task'.pc = "claimed"
         /\ lastRun' = lastRun + 1 /\ lastRun + 1 \in RunIds
         /\ \E after \in MessageIds :
               /\ event[after] = "pending"
               /\ \A r \in Attempts(after) : runs[r].resp # "uncertain"
               /\ runs' = [runs EXCEPT ![lastRun + 1] =
                     [status |-> "running", rev |-> sub.rev,
                      before |-> sub.mark, after |-> after, resp |-> "",
                      ctx |-> Selected(after), scope |-> sub.scope]]
               /\ \A m \in MessageIds :
                     IF event[m] = "pending" /\ m <= after
                     THEN event'[m] = "processing" /\ eventRun'[m] = lastRun + 1
                     ELSE event'[m] = event[m] /\ eventRun'[m] = eventRun[m]
<1>1. sub \in Subscription /\ task \in Task
  BY DEF TypeInv, TypeOK
<1>2. /\ UNCHANGED <<proc, msgs, artifacts>>
      /\ proc # "down"
      /\ sub.status = "active" /\ sub.state = "pending"
      /\ sub' = [sub EXCEPT !.state = "analyzing", !.wait = None, !.age = None]
  BY Zenon DEF Claim, Resuming, Claimable
<1>3. UNCHANGED <<Progress, Lease>> /\ sub'.state = "analyzing"
  BY <1>1, <1>2 DEF Subscription, Progress, Lease
<1>4. task'.pc = "claimed"
  BY <1>1, ClaimedRun DEF Task
<1>5. PICK after \in MessageIds :
        LET batch == {m \in Pending : m <= after}
        IN  /\ IsBatchEnd(after)
            /\ \A r \in Attempts(after) : runs[r].resp # "uncertain"
            /\ runs' = [runs EXCEPT ![lastRun + 1] =
                   [status |-> "running", rev |-> sub.rev,
                    before |-> sub.mark, after |-> after, resp |-> "",
                    ctx |-> Selected(after), scope |-> sub.scope]]
            /\ event' = [m \in MessageIds |->
                   IF m \in batch THEN "processing" ELSE event[m]]
            /\ eventRun' = [m \in MessageIds |->
                   IF m \in batch THEN lastRun + 1 ELSE eventRun[m]]
  BY Zenon DEF Claim
<1>6. event[after] = "pending"
  BY <1>5, Zenon DEF IsBatchEnd, Pending
<1>7. \A m \in MessageIds :
         IF event[m] = "pending" /\ m <= after
         THEN event'[m] = "processing" /\ eventRun'[m] = lastRun + 1
         ELSE event'[m] = event[m] /\ eventRun'[m] = eventRun[m]
  BY <1>5, Zenon DEF Pending
<1>8. /\ \A r \in Attempts(after) : runs[r].resp # "uncertain"
      /\ runs' = [runs EXCEPT ![lastRun + 1] =
            [status |-> "running", rev |-> sub.rev,
             before |-> sub.mark, after |-> after, resp |-> "",
             ctx |-> Selected(after), scope |-> sub.scope]]
  BY <1>5, Zenon
<1> QED
  BY <1>2, <1>3, <1>4, <1>6, <1>7, <1>8, ClaimedRun

LEMMA GoesOnValues ==
  ASSUME TypeInv, RunGoesOn
  PROVE  /\ UNCHANGED <<Progress, Lease, sub.state, event, eventRun, artifacts,
                        proc, msgs, lastRun>>
         /\ InFlight /\ InFlight'
         /\ \/ runs' = runs
            \/ \E resp \in {"creating", "uncertain", "response"} :
                  /\ resp = "creating" => Authorized
                  /\ runs' = [runs EXCEPT ![lastRun].resp = resp]
<1>1. sub \in Subscription
  BY DEF TypeInv, TypeOK
<1>2. /\ UNCHANGED <<event, eventRun, artifacts, proc, msgs, lastRun>>
      /\ InFlight /\ InFlight'
      /\ \/ sub' = sub
         \/ \E convo \in {"creating", "uncertain", "ready"} :
               sub' = [sub EXCEPT !.convo = convo]
      /\ \/ runs' = runs
         \/ \E resp \in {"creating", "uncertain", "response"} :
               /\ resp = "creating" => Authorized
               /\ runs' = [runs EXCEPT ![lastRun].resp = resp]
  BY Zenon DEF RunGoesOn, Unclaimed
<1>3. UNCHANGED <<Progress, Lease, sub.state>>
  BY <1>1, <1>2 DEF Subscription, Progress, Lease
<1> QED
  BY <1>2, <1>3

\* The events of the run in flight.
Batch == {m \in MessageIds : event[m] = "processing" /\ eventRun[m] = lastRun}

LEMMA EndsValues ==
  ASSUME TypeInv, RunEnds
  PROVE  /\ UNCHANGED <<Progress, Lease, artifacts, proc, msgs, lastRun>>
         /\ InFlight /\ lastRun \in RunIds /\ task' = IdleTask
         /\ sub'.state \in {"failed", "pending", "waiting"}
         /\ \E status \in {"failed", "cancelled"} :
               runs' = [runs EXCEPT ![lastRun].status = status]
         /\ \A m \in MessageIds \ Batch :
               event'[m] = event[m] /\ eventRun'[m] = eventRun[m]
         /\ \E status \in {"failed", "pending"} :
               \A m \in Batch :
                  event'[m] = status /\ eventRun'[m] \in {0, eventRun[m]}
<1>1. sub \in Subscription
  BY DEF TypeInv, TypeOK
<1>2. /\ InFlight /\ lastRun \in RunIds /\ task' = IdleTask
      /\ UNCHANGED <<artifacts, proc, msgs, lastRun>>
      /\ \E status \in {"failed", "cancelled"} :
            runs' = [runs EXCEPT ![lastRun].status = status]
  BY InFlightRun, Zenon DEF RunEnds, FailRun, CancelRun, Unclaimed
<1>3. CASE FailRun
  <2>1. UNCHANGED <<Progress, Lease>> /\ sub'.state \in {"failed", "waiting"}
    BY <1>1, <1>3 DEF FailRun, Subscription, Progress, Lease
  <2>2. \A m \in MessageIds :
           /\ eventRun'[m] = eventRun[m]
           /\ event'[m] = IF m \in Batch THEN "failed" ELSE event[m]
    BY <1>3, Zenon DEF FailRun, MoveEvents, Batch
  <2> QED
    BY <1>2, <2>1, <2>2 DEF Batch
<1>4. CASE CancelRun
  <2>1. UNCHANGED <<Progress, Lease>> /\ sub'.state \in {"pending", "waiting"}
    BY <1>1, <1>4 DEF CancelRun, Subscription, Progress, Lease
  <2>2. \A m \in MessageIds :
           /\ eventRun'[m] = IF m \in Batch THEN 0 ELSE eventRun[m]
           /\ event'[m] = IF m \in Batch THEN "pending" ELSE event[m]
    BY <1>4, Zenon DEF CancelRun, MoveEvents, Batch
  <2> QED
    BY <1>2, <2>1, <2>2 DEF Batch
<1> QED
  BY <1>3, <1>4, Zenon DEF RunEnds

LEMMA CompleteValues ==
  ASSUME TypeInv, Complete
  PROVE  /\ UNCHANGED <<Lease, proc, msgs, lastRun, eventRun>>
         /\ InFlight /\ lastRun \in RunIds /\ task' = IdleTask
         /\ SameLease
         /\ sub'.state \in {"pending", "completed"}
         /\ sub'.mark = runs[lastRun].after
         /\ sub'.version = sub.version + 1 /\ sub.version + 1 \in RunIds
         /\ artifacts' = [artifacts EXCEPT ![sub.version + 1] = lastRun]
         /\ runs' = [runs EXCEPT ![lastRun].status = "completed"]
         /\ \A m \in MessageIds :
               event'[m] = IF m \in Batch THEN "completed" ELSE event[m]
<1>1. /\ UNCHANGED <<proc, msgs, lastRun, eventRun>>
      /\ SameLease /\ task' = IdleTask
      /\ artifacts' = [artifacts EXCEPT ![sub.version + 1] = lastRun]
      /\ runs' = [runs EXCEPT ![lastRun].status = "completed"]
      /\ sub' = CompletedRow(event')
      /\ \A m \in MessageIds :
            event'[m] = IF m \in Batch THEN "completed" ELSE event[m]
  BY Zenon DEF Complete, MoveEvents, Unclaimed, Batch
<1>2. InFlight
  BY DEF Complete, InFlight
<1>3. sub \in Subscription
  BY DEF TypeInv, TypeOK
<1>4. /\ UNCHANGED Lease
      /\ sub'.mark = Watermark /\ sub'.version = sub.version + 1
      /\ sub'.state \in {"pending", "completed"}
  BY <1>1, <1>2, <1>3, CompletedBounds, CompletedRowType, Zenon DEF Lease
<1>5. lastRun \in RunIds /\ sub.version + 1 \in RunIds
  BY <1>2, <1>3, CompletedBounds, BoundsAssumption DEF Subscription, RunIds
<1> QED
  BY <1>1, <1>2, <1>4, <1>5 DEF Watermark

LEMMA StartValues ==
  ASSUME TypeInv, Start
  PROVE  /\ UNCHANGED <<Progress, Lease, msgs, lastRun, eventRun, artifacts, task>>
         /\ proc = "down" /\ proc' = "up"
         /\ sub.status = "active" => sub'.state # "analyzing"
         /\ sub.status # "active" => sub'.state = sub.state
         /\ \A r \in RunIds :
               runs'[r] = IF r \in Running THEN [runs[r] EXCEPT !.status = "failed"]
                          ELSE runs[r]
         /\ \A m \in MessageIds :
               event'[m] = IF event[m] = "processing" /\ eventRun[m] \in Running
                           THEN "failed" ELSE event[m]
<1>1. sub \in Subscription
  BY DEF TypeInv, TypeOK
<1>2. /\ UNCHANGED <<Progress, Lease>>
      /\ sub.status = "active" => sub'.state # "analyzing"
      /\ sub.status # "active" => sub'.state = sub.state
  BY <1>1 DEF Start, Subscription, Progress, Lease
<1>3. /\ \A r \in RunIds :
            runs'[r] = IF r \in Running THEN [runs[r] EXCEPT !.status = "failed"]
                       ELSE runs[r]
      /\ \A m \in MessageIds :
            event'[m] = IF event[m] = "processing" /\ eventRun[m] \in Running
                        THEN "failed" ELSE event[m]
  BY Zenon DEF Start, Interrupted, Running
<1>4. /\ UNCHANGED <<msgs, lastRun, eventRun, artifacts, task>>
      /\ proc = "down" /\ proc' = "up"
  BY Zenon DEF Start
<1> QED
  BY <1>2, <1>3, <1>4

\* The recovery changes nothing of a run but its status.
LEMMA StartKeeps ==
  ASSUME TypeInv, Start, NEW r \in RunIds
  PROVE  /\ runs'[r].before = runs[r].before /\ runs'[r].after = runs[r].after
         /\ runs'[r].resp = runs[r].resp /\ runs'[r].ctx = runs[r].ctx
         /\ runs'[r].rev = runs[r].rev /\ runs'[r].scope = runs[r].scope
<1>1. runs[r] \in Run
  BY DEF TypeInv, TypeOK
<1>2. runs'[r] = runs[r] \/ runs'[r] = [runs[r] EXCEPT !.status = "failed"]
  BY StartValues
<1>3. ASSUME runs'[r] = [runs[r] EXCEPT !.status = "failed"]
      PROVE  /\ runs'[r].before = runs[r].before /\ runs'[r].after = runs[r].after
             /\ runs'[r].resp = runs[r].resp /\ runs'[r].ctx = runs[r].ctx
             /\ runs'[r].rev = runs[r].rev /\ runs'[r].scope = runs[r].scope
  BY <1>1, <1>3, ZenonT(40) DEF Run
<1> QED
  BY <1>2, <1>3, Zenon

\* The other steps leave the runs, the events and the lease alone.
LEMMA OtherValues ==
  ASSUME TypeInv,
         Dispatch \/ Stop \/ Stopped \/ Crash \/ Tick \/ NewDay \/ UNCHANGED vars
  PROVE  /\ UNCHANGED <<Progress, Lease, sub.state, event, msgs>> /\ NoRunChange
         /\ \/ task.pc = "idle" /\ task'.pc = "ready" /\ proc = "up" /\ proc' = proc
            \/ task' = task /\ proc' = proc
            \/ task' = task /\ proc' # "down" /\ proc # "down"
            \/ task' = IdleTask /\ proc' = "down"
            \/ task.pc = "idle" /\ task'.pc = "idle" /\ proc' = "down"
<1> USE DEF TypeInv, TypeOK, Subscription, Progress, Lease, NoRunChange
<1>1. CASE Dispatch
  BY <1>1 DEF Dispatch
<1>2. CASE Stop \/ Stopped \/ Crash
  BY <1>2 DEF Stop, Stopped, Crash, Listening
<1>3. CASE Tick
  BY <1>3 DEF Tick
<1>4. CASE NewDay \/ UNCHANGED vars
  BY <1>4 DEF NewDay, vars
<1> QED
  BY <1>1, <1>2, <1>3, <1>4

\* Every step is one of those.
LEMMA StepKinds ==
  ASSUME TypeInv, [Next]_vars
  PROVE  \/ Arrival \/ (\E scope \in Scopes, pace \in Paces : Upsert(scope, pace))
         \/ Pause \/ Retry
         \/ ClaimGivenUp \/ Claim \/ RunGoesOn \/ RunEnds \/ Complete
         \/ Start
         \/ Dispatch \/ Stop \/ Stopped \/ Crash \/ Tick \/ NewDay
         \/ UNCHANGED vars
BY TaskStepKinds DEF TypeInv, Next, Arrival, UserStep, ProcessStep
-----------------------------------------------------------------------------
(* Single flight.                                                          *)

\* OneRunInFlight says nothing of what a later claim finds: the rows that are
\* not inserted yet, no task in a dead process, and that only an active
\* subscription is analyzing (so that recovery clears it).
FlightInv ==
    /\ OneRunInFlight
    /\ \A r \in RunIds : r > lastRun => runs[r].status = "none" /\ runs[r].resp = ""
    /\ \A m \in MessageIds : eventRun[m] <= lastRun
    /\ proc = "down" => task.pc = "idle"
    /\ sub.state = "analyzing" => sub.status = "active"

LEMMA FlightInit == Init => FlightInv
<1> SUFFICES ASSUME Init PROVE FlightInv
    OBVIOUS
<1>1. /\ task = IdleTask /\ proc = "up" /\ lastRun = 0
      /\ \A m \in MessageIds : event[m] = "none" /\ eventRun[m] = 0
  BY DEF Init
<1>2. PICK scope \in Scopes, pace \in Paces :
        /\ sub = [status |-> "none", state |-> "waiting", rev |-> 0,
                  mark |-> 0, version |-> 0, wait |-> None, age |-> None,
                  convo |-> "none", scope |-> scope, pace |-> pace]
        /\ runs = [r \in RunIds |-> NoRun(scope)]
  BY DEF Init
<1>3. sub.state = "waiting"
  BY <1>2
<1>4. \A r \in RunIds : runs[r].status = "none" /\ runs[r].resp = ""
  BY <1>2 DEF NoRun
<1>5. Running = {} /\ ~InFlight
  BY <1>1, <1>4 DEF Running, InFlight, IdleTask
<1>6. OneRunInFlight
  BY <1>1, <1>3, <1>5, Zenon DEF OneRunInFlight
<1>7. \A m \in MessageIds : eventRun[m] <= lastRun
  BY <1>1
<1> QED
  BY <1>1, <1>3, <1>4, <1>6, <1>7, Zenon DEF FlightInv

\* A step that leaves every run's status and the flight alone.
LEMMA FlightKept ==
  ASSUME TypeInv, FlightInv,
         \A r \in RunIds : runs'[r].status = runs[r].status,
         \A r \in RunIds : r > lastRun => runs'[r].resp = runs[r].resp,
         lastRun' = lastRun,
         InFlight' = InFlight, proc' = "down" => task'.pc = "idle",
         proc # "down" \/ proc' = "down",
         \A m \in MessageIds :
            \/ event'[m] = event[m] /\ eventRun'[m] = eventRun[m]
            \/ /\ event'[m] # "processing"
               /\ eventRun'[m] \in {0, eventRun[m]},
         sub'.state = sub.state \/ sub'.state # "analyzing",
         sub'.state = "analyzing" => sub'.status = sub.status
  PROVE  FlightInv'
<1>1. Running' = Running
  BY DEF Running
<1>2. /\ \A r \in RunIds : r > lastRun' =>
            runs'[r].status = "none" /\ runs'[r].resp = ""
      /\ \A m \in MessageIds :
            event'[m] = "processing" => eventRun'[m] \in Running'
      /\ proc' = "down" => task'.pc = "idle"
  BY <1>1 DEF FlightInv, OneRunInFlight
<1>3. \A m \in MessageIds : eventRun'[m] <= lastRun'
  <2>1. lastRun \in Nat
    BY BoundsAssumption DEF TypeInv, TypeOK
  <2>2. \A m \in MessageIds : eventRun[m] <= lastRun
    BY Zenon DEF FlightInv
  <2> QED
    BY <2>1, <2>2
<1>4. /\ sub'.state = "analyzing" => Running' # {} /\ sub'.status = "active"
      /\ Running' \subseteq {lastRun'}
  BY <1>1 DEF FlightInv, OneRunInFlight
<1>5. InFlight' => Running' = {lastRun'}
  BY <1>1, Zenon DEF FlightInv, OneRunInFlight
<1>6. proc' # "down" /\ Running' # {} => InFlight'
  BY <1>1, Zenon DEF FlightInv, OneRunInFlight
<1> QED
  BY <1>2, <1>3, <1>4, <1>5, <1>6, Zenon DEF FlightInv, OneRunInFlight

LEMMA FlightStep ==
  ASSUME TypeInv, TypeInv', FlightInv, [Next]_vars
  PROVE  FlightInv'
<1> USE DEF NoRunChange
<1>1. /\ runs \in [RunIds -> Run] /\ lastRun \in 0..MaxRuns
      /\ event \in [MessageIds -> EventStatus] /\ task \in Task
      /\ proc \in {"up", "stopping", "down"}
      /\ \A m \in MessageIds : eventRun[m] \in Nat
      /\ MaxRuns \in Nat
  BY BoundsAssumption DEF TypeInv, TypeOK
<1>14. \A m \in MessageIds : eventRun[m] <= lastRun
  BY Zenon DEF FlightInv
<1>15. \A r \in RunIds : r > lastRun => runs[r].status = "none" /\ runs[r].resp = ""
  BY Zenon DEF FlightInv
<1>16. proc = "down" => task.pc = "idle"
  BY Zenon DEF FlightInv
<1>2. CASE Arrival
  <2>1. InFlight' = InFlight
    BY <1>2, ReceiveValues DEF InFlight
  <2> QED
    BY <1>1, <1>2, <2>1, ReceiveValues, FlightKept DEF FlightInv, Lease
<1>3. ASSUME NEW scope \in Scopes, NEW pace \in Paces, Upsert(scope, pace)
      PROVE  FlightInv'
  <2>1. InFlight' = InFlight
    BY <1>3, UpsertValues DEF InFlight
  <2> QED
    BY <1>1, <1>3, <2>1, UpsertValues, FlightKept DEF FlightInv
<1>4. CASE Pause
  <2>1. InFlight' = InFlight
    BY <1>4, PauseValues DEF InFlight
  <2> QED
    BY <1>1, <1>4, <2>1, PauseValues, FlightKept DEF FlightInv
<1>5. CASE Retry
  <2>1. InFlight' = InFlight
    BY <1>5, RetryValues DEF InFlight
  <2>2. \A r \in RunIds : /\ runs'[r].status = runs[r].status
                          /\ r > lastRun => runs'[r].resp = runs[r].resp
    BY <1>1, <1>5, RetryValues DEF FlightInv, Run
  <2> QED
    BY <1>1, <1>5, <2>1, <2>2, RetryValues, FlightKept DEF FlightInv
<1>6. CASE ClaimGivenUp
  <2>1. InFlight' = InFlight
    BY <1>6, GivenUpValues DEF InFlight, IdleTask
  <2> QED
    BY <1>1, <1>6, <2>1, GivenUpValues, FlightKept DEF FlightInv, IdleTask, Lease
<1>7. CASE Claim
  <2>1. PICK after \in MessageIds :
          /\ runs' = [runs EXCEPT ![lastRun + 1] =
                [status |-> "running", rev |-> sub.rev,
                 before |-> sub.mark, after |-> after, resp |-> "",
                 ctx |-> Selected(after), scope |-> sub.scope]]
          /\ \A m \in MessageIds :
                IF event[m] = "pending" /\ m <= after
                THEN event'[m] = "processing" /\ eventRun'[m] = lastRun + 1
                ELSE event'[m] = event[m] /\ eventRun'[m] = eventRun[m]
    BY <1>7, ClaimValues, Zenon
  <2>2. Running = {} /\ ~InFlight
    BY <1>7, ClaimValues DEF FlightInv, OneRunInFlight, InFlight
  <2>3. \A m \in MessageIds : event[m] # "processing"
    BY <2>2 DEF FlightInv, OneRunInFlight
  <2>4. lastRun' = lastRun + 1 /\ lastRun + 1 \in RunIds /\ task'.pc = "claimed"
        /\ proc' # "down" /\ sub'.status = "active"
    BY <1>7, ClaimValues DEF Lease
  <2>5. \A r \in RunIds : /\ r # lastRun + 1 => runs'[r] = runs[r]
                          /\ r = lastRun + 1 => runs'[r].status = "running"
    BY <1>1, <2>1, <2>4
  <2>6. Running' = {lastRun'}
    BY <2>2, <2>4, <2>5 DEF Running
  <2>7. InFlight'
    BY <2>4 DEF InFlight
  <2>8. \A m \in MessageIds :
           event'[m] = "processing" => eventRun'[m] \in Running'
    BY <2>1, <2>3, <2>4, <2>6
  <2>9. OneRunInFlight'
    BY <2>6, <2>7, <2>8 DEF OneRunInFlight
  <2>10. \A m \in MessageIds : eventRun'[m] <= lastRun'
    <3>1. \A m \in MessageIds :
             eventRun'[m] = lastRun + 1 \/ eventRun'[m] = eventRun[m]
      BY <2>1, Zenon
    <3> QED
      BY <1>1, <1>14, <2>4, <3>1
  <2>11. \A r \in RunIds : r > lastRun' =>
            runs'[r].status = "none" /\ runs'[r].resp = ""
    <3>1. \A r \in RunIds : r > lastRun' => r # lastRun + 1 /\ r > lastRun
      BY <1>1, <2>4 DEF RunIds
    <3> QED
      BY <1>15, <2>5, <3>1, Zenon
  <2> QED
    BY <2>4, <2>9, <2>10, <2>11, Zenon DEF FlightInv
<1>8. CASE RunGoesOn
  <2>1. InFlight' = InFlight
    BY <1>8, GoesOnValues
  <2>2. lastRun \in RunIds
    BY <1>8, InFlightRun, GoesOnValues
  <2>3. \A r \in RunIds : /\ runs'[r].status = runs[r].status
                          /\ r > lastRun => runs'[r].resp = runs[r].resp
    <3>1. \/ runs' = runs
          \/ \E resp \in {"creating", "uncertain", "response"} :
                runs' = [runs EXCEPT ![lastRun].resp = resp]
      BY <1>8, GoesOnValues, Zenon
    <3>2. ASSUME NEW r \in RunIds, NEW resp,
                 runs' = [runs EXCEPT ![lastRun].resp = resp]
          PROVE  /\ runs'[r].status = runs[r].status
                 /\ r # lastRun => runs'[r].resp = runs[r].resp
      BY <1>1, <2>2, <3>2, Zenon DEF Run
    <3>3. \A r \in RunIds : r > lastRun => r # lastRun
      BY <1>1 DEF RunIds
    <3> QED
      BY <3>1, <3>2, <3>3, Zenon
  <2>4. proc' = "down" => FALSE
    BY <1>8, <2>1, GoesOnValues DEF FlightInv, InFlight
  <2> QED
    BY <1>1, <1>8, <2>1, <2>3, <2>4, GoesOnValues, FlightKept DEF Lease
<1>9. ASSUME InFlight, lastRun \in RunIds, task' = IdleTask, proc' = proc,
             lastRun' = lastRun, sub'.state # "analyzing",
             NEW status \in {"failed", "cancelled", "completed"},
             runs' = [runs EXCEPT ![lastRun].status = status],
             \A m \in Batch : event'[m] # "processing",
             \A m \in MessageIds : /\ m \in Batch \/ event'[m] = event[m]
                                   /\ eventRun'[m] \in {0, eventRun[m]}
      PROVE  FlightInv'
  <2>1. Running = {lastRun}
    BY <1>9 DEF FlightInv, OneRunInFlight
  <2>2. \A r \in RunIds :
           /\ r # lastRun => runs'[r] = runs[r]
           /\ r = lastRun => runs'[r].status # "running"
    BY <1>1, <1>9 DEF Run
  <2>3. Running' = {}
    BY <2>1, <2>2 DEF Running
  <2>4. \A m \in MessageIds : event'[m] # "processing"
    BY <1>9, <2>1 DEF FlightInv, OneRunInFlight, Batch
  <2>5. OneRunInFlight'
    BY <1>9, <2>3, <2>4 DEF OneRunInFlight, InFlight, IdleTask
  <2>6. \A m \in MessageIds : eventRun'[m] <= lastRun'
    BY <1>1, <1>9, <1>14
  <2>7. \A r \in RunIds : r > lastRun' =>
            runs'[r].status = "none" /\ runs'[r].resp = ""
    <3>1. \A r \in RunIds : r > lastRun' => r # lastRun /\ r > lastRun
      BY <1>1, <1>9 DEF RunIds
    <3> QED
      BY <1>15, <2>2, <3>1, Zenon
  <2>8. task'.pc = "idle"
    BY <1>9 DEF IdleTask
  <2> QED
    BY <1>9, <2>5, <2>6, <2>7, <2>8, Zenon DEF FlightInv
<1>10. CASE RunEnds
  BY <1>9, <1>10, EndsValues DEF Batch
<1>11. CASE Complete
  <2>1. \A m \in MessageIds :
           event'[m] = IF m \in Batch THEN "completed" ELSE event[m]
    BY <1>11, CompleteValues
  <2>2. /\ \A m \in Batch : event'[m] # "processing"
        /\ \A m \in MessageIds : m \in Batch \/ event'[m] = event[m]
    BY <2>1 DEF Batch
  <2>3. sub'.state # "analyzing" /\ \A m \in MessageIds : eventRun'[m] = eventRun[m]
    BY <1>11, CompleteValues
  <2>4. /\ InFlight /\ lastRun \in RunIds /\ task' = IdleTask /\ proc' = proc
        /\ lastRun' = lastRun
        /\ runs' = [runs EXCEPT ![lastRun].status = "completed"]
    BY <1>11, CompleteValues
  <2> QED
    BY <1>9, <2>2, <2>3, <2>4
<1>12. CASE Start
  <2>1. \A r \in RunIds : runs'[r].status # "running"
                            /\ (r > lastRun => runs'[r] = runs[r])
    BY <1>1, <1>12, StartValues DEF Running, Run, FlightInv
  <2>2. Running' = {}
    BY <2>1 DEF Running
  <2>3. \A m \in MessageIds : event'[m] # "processing"
    BY <1>12, StartValues DEF FlightInv, OneRunInFlight
  <2>4. /\ sub'.state # "analyzing" /\ proc' = "up"
        /\ UNCHANGED <<lastRun, eventRun>> /\ ~InFlight'
    BY <1>12, StartValues DEF FlightInv, InFlight
  <2> QED
    BY <1>1, <2>1, <2>2, <2>3, <2>4 DEF FlightInv, OneRunInFlight
<1>13. CASE Dispatch \/ Stop \/ Stopped \/ Crash \/ Tick \/ NewDay \/ UNCHANGED vars
  <2>1. /\ UNCHANGED <<Lease, sub.state, event>> /\ NoRunChange
        /\ \/ task.pc = "idle" /\ task'.pc = "ready" /\ proc = "up" /\ proc' = proc
           \/ task' = task /\ proc' = proc
           \/ task' = task /\ proc' # "down" /\ proc # "down"
           \/ task' = IdleTask /\ proc' = "down"
           \/ task.pc = "idle" /\ task'.pc = "idle" /\ proc' = "down"
    BY <1>13, OtherValues
  <2>2. Running' = Running
    BY <2>1 DEF Running
  <2>3. InFlight' => InFlight
    BY <2>1 DEF InFlight, IdleTask
  <2>4. proc' # "down" /\ Running' # {} => InFlight'
    BY <2>1, <2>2 DEF FlightInv, OneRunInFlight, InFlight, IdleTask
  <2>5. proc' = "down" => task'.pc = "idle"
    <3>1. proc' = "down" => \/ proc = "down" /\ task' = task
                            \/ task' = IdleTask \/ task'.pc = "idle"
      BY <2>1
    <3>2. IdleTask.pc = "idle"
      BY DEF IdleTask
    <3> QED
      BY <1>16, <3>1, <3>2, Zenon
  <2>6. OneRunInFlight'
    BY <2>1, <2>2, <2>3, <2>4 DEF FlightInv, OneRunInFlight
  <2> QED
    BY <2>1, <2>5, <2>6 DEF FlightInv, Lease
<1> QED
  BY <1>2, <1>3, <1>4, <1>5, <1>6, <1>7, <1>8, <1>10, <1>11, <1>12, <1>13, StepKinds

\* At most one run is in flight, it is the newest, and what is claimed by a run
\* is claimed by that one, whatever the user, the network and the process do.
THEOREM SingleFlight == Spec => []OneRunInFlight
<1>1. TypeInv /\ FlightInv /\ [Next]_vars => (TypeInv /\ FlightInv)'
  BY TypeStep, FlightStep
<1>2. Init => TypeInv /\ FlightInv
  BY TypeInit, FlightInit
<1>3. FlightInv => OneRunInFlight
  BY DEF FlightInv
<1> QED
  BY <1>1, <1>2, <1>3, PTL DEF Spec
-----------------------------------------------------------------------------
(* Batches.                                                                *)

\* A running run holds the event its window ends with, which is the last one
\* it holds; and events exist for messages only.
BatchInv ==
    /\ BatchesSettleOnce
    /\ \A r \in RunIds : runs[r].status # "none" => runs[r].after \in MessageIds
    /\ \A r \in Running :
          event[runs[r].after] = "processing" /\ eventRun[runs[r].after] = r
    /\ \A m \in MessageIds :
          event[m] = "processing" => m <= runs[eventRun[m]].after
    /\ \A m \in MessageIds : m > Len(msgs) => event[m] = "none"

LEMMA BatchInit == Init => BatchInv
<1> SUFFICES ASSUME Init PROVE BatchInv
    OBVIOUS
<1>1. \A m \in MessageIds : event[m] = "none"
  BY DEF Init
<1>2. PICK scope \in Scopes : runs = [r \in RunIds |-> NoRun(scope)]
  BY DEF Init
<1>3. \A r \in RunIds : runs[r].status = "none"
  BY <1>2 DEF NoRun
<1> QED
  BY <1>1, <1>3 DEF BatchInv, BatchesSettleOnce, Running

\* A step that moves no event into or out of a run, and keeps the rows.
LEMMA BatchKept ==
  ASSUME TypeInv, FlightInv, BatchInv,
         \A r \in RunIds : /\ runs'[r].status = runs[r].status
                           /\ runs'[r].after = runs[r].after,
         \A m \in MessageIds :
            \/ event'[m] = event[m] /\ eventRun'[m] = eventRun[m]
            \/ /\ event[m] \notin {"processing", "completed"}
               /\ event'[m] \notin {"processing", "completed"},
         \A m \in MessageIds : m > Len(msgs') => event'[m] = "none"
  PROVE  BatchInv'
<1>1. Running' = Running
  BY DEF Running
<1>2. Running \subseteq RunIds /\ \A m \in MessageIds : event[m] = "processing" =>
         eventRun[m] \in RunIds
  BY DEF FlightInv, OneRunInFlight, Running
<1>3. BatchesSettleOnce'
  <2>1. ASSUME NEW r \in RunIds, runs'[r].status = "completed"
        PROVE  event'[runs'[r].after] = "completed" /\ eventRun'[runs'[r].after] = r
    BY <2>1 DEF BatchInv, BatchesSettleOnce
  <2>2. ASSUME NEW m \in MessageIds, event'[m] = "completed"
        PROVE  /\ eventRun'[m] \in RunIds
               /\ runs'[eventRun'[m]].status = "completed"
               /\ m <= runs'[eventRun'[m]].after
    BY <2>2 DEF BatchInv, BatchesSettleOnce
  <2> QED
    BY <2>1, <2>2 DEF BatchesSettleOnce
<1>4. \A r \in Running' :
         event'[runs'[r].after] = "processing" /\ eventRun'[runs'[r].after] = r
  BY <1>1, <1>2 DEF BatchInv, Running
<1>5. \A m \in MessageIds :
         event'[m] = "processing" => m <= runs'[eventRun'[m]].after
  BY <1>2 DEF BatchInv
<1> QED
  BY <1>3, <1>4, <1>5 DEF BatchInv

LEMMA BatchStep ==
  ASSUME TypeInv, TypeInv', FlightInv, BatchInv, [Next]_vars
  PROVE  BatchInv'
<1> USE DEF NoRunChange
<1>1. /\ runs \in [RunIds -> Run] /\ lastRun \in 0..MaxRuns
      /\ event \in [MessageIds -> EventStatus]
      /\ MaxRuns \in Nat /\ Len(msgs) \in Nat
  BY BoundsAssumption DEF TypeInv, TypeOK
<1>2. \A m \in MessageIds : m > Len(msgs) => event[m] = "none"
  BY Zenon DEF BatchInv
<1>3. CASE Arrival
  <2>1. \A m \in MessageIds : m = Len(msgs) + 1 => event[m] = "none"
    BY <1>1, <1>2 DEF MessageIds
  <2>2. /\ \A m \in MessageIds :
              \/ event'[m] = event[m]
              \/ /\ event[m] = "none" /\ event'[m] = "pending"
                 /\ m = Len(msgs) + 1
        /\ Len(msgs') = Len(msgs) + 1
    BY <1>1, <1>3, <2>1, ReceiveValues
  <2>3. \A m \in MessageIds : m > Len(msgs') => event'[m] = "none"
    BY <1>1, <1>2, <2>2 DEF MessageIds
  <2>4. UNCHANGED <<runs, eventRun>>
    BY <1>3, ReceiveValues
  <2> QED
    BY <2>2, <2>3, <2>4, BatchKept
<1>4. ASSUME NEW scope \in Scopes, NEW pace \in Paces, Upsert(scope, pace)
      PROVE  BatchInv'
  <2>1. UNCHANGED <<runs, eventRun, msgs>>
    BY <1>4, UpsertValues
  <2>2. \/ event' = event
        \/ \E m \in 1..Len(msgs) :
              event[m] = "none" /\ event' = [event EXCEPT ![m] = "pending"]
    BY <1>4, UpsertValues
  <2>3. \A m \in MessageIds :
           \/ event'[m] = event[m]
           \/ event[m] = "none" /\ event'[m] = "pending" /\ m <= Len(msgs)
    BY <1>1, <2>2
  <2>4. \A m \in MessageIds : m > Len(msgs') => event'[m] = "none"
    BY <1>1, <1>2, <2>1, <2>3 DEF MessageIds
  <2> QED
    BY <2>1, <2>3, <2>4, BatchKept
<1>5. CASE Retry
  <2>1. \A r \in RunIds : /\ runs'[r].status = runs[r].status
                          /\ runs'[r].after = runs[r].after
    BY <1>1, <1>5, RetryValues DEF Run
  <2>2. \A m \in MessageIds :
           \/ event'[m] = event[m] /\ eventRun'[m] = eventRun[m]
           \/ event[m] = "failed" /\ event'[m] = "pending"
    BY <1>5, RetryValues
  <2>3. \A m \in MessageIds : m > Len(msgs') => event'[m] = "none"
    BY <1>2, <1>5, <2>2, RetryValues
  <2> QED
    BY <2>1, <2>2, <2>3, BatchKept
<1>6. CASE Claim
  <2>1. PICK after \in MessageIds :
          /\ event[after] = "pending"
          /\ runs' = [runs EXCEPT ![lastRun + 1] =
                [status |-> "running", rev |-> sub.rev,
                 before |-> sub.mark, after |-> after, resp |-> "",
                 ctx |-> Selected(after), scope |-> sub.scope]]
          /\ \A m \in MessageIds :
                IF event[m] = "pending" /\ m <= after
                THEN event'[m] = "processing" /\ eventRun'[m] = lastRun + 1
                ELSE event'[m] = event[m] /\ eventRun'[m] = eventRun[m]
    BY <1>6, ClaimValues, Zenon
  <2>2. /\ Running = {} /\ lastRun + 1 \in RunIds /\ msgs' = msgs
        /\ runs[lastRun + 1].status = "none"
    <3>1. lastRun + 1 \in RunIds /\ msgs' = msgs /\ ~InFlight /\ proc # "down"
      BY <1>6, ClaimValues DEF InFlight
    <3>2. Running = {}
      BY <3>1 DEF FlightInv, OneRunInFlight
    <3>3. \A r \in RunIds : r > lastRun => runs[r].status = "none"
      BY Zenon DEF FlightInv
    <3>4. lastRun + 1 > lastRun
      BY <1>1
    <3> QED
      BY <3>1, <3>2, <3>3, <3>4
  <2>3. /\ \A r \in RunIds : r # lastRun + 1 => runs'[r] = runs[r]
        /\ runs'[lastRun + 1].status = "running"
        /\ runs'[lastRun + 1].after = after
    BY <1>1, <2>1, <2>2
  <2>4. \A m \in MessageIds : event[m] # "processing"
    BY <2>2 DEF FlightInv, OneRunInFlight
  <2>5. \A m \in MessageIds :
           \/ /\ event[m] = "pending" /\ m <= after
              /\ event'[m] = "processing" /\ eventRun'[m] = lastRun + 1
           \/ event'[m] = event[m] /\ eventRun'[m] = eventRun[m]
    BY <2>1
  <2>6. \A r \in Running' : r = lastRun + 1
    BY <2>2, <2>3 DEF Running
  <2>7. event'[after] = "processing" /\ eventRun'[after] = lastRun + 1
    <3>1. after <= after
      BY DEF MessageIds
    <3> QED
      BY <2>1, <3>1
  <2>8. BatchesSettleOnce'
    <3>1. ASSUME NEW r \in RunIds, runs'[r].status = "completed"
          PROVE  event'[runs'[r].after] = "completed" /\ eventRun'[runs'[r].after] = r
      BY <2>3, <2>5, <3>1 DEF BatchInv, BatchesSettleOnce
    <3>2. ASSUME NEW m \in MessageIds, event'[m] = "completed"
          PROVE  /\ eventRun'[m] \in RunIds
                 /\ runs'[eventRun'[m]].status = "completed"
                 /\ m <= runs'[eventRun'[m]].after
      BY <2>2, <2>3, <2>5, <3>2 DEF BatchInv, BatchesSettleOnce
    <3> QED
      BY <3>1, <3>2 DEF BatchesSettleOnce
  <2>9. \A r \in RunIds : runs'[r].status # "none" => runs'[r].after \in MessageIds
    BY <2>3 DEF BatchInv
  <2>10. \A m \in MessageIds :
            event'[m] = "processing" => m <= runs'[eventRun'[m]].after
    BY <2>3, <2>4, <2>5
  <2>11. \A m \in MessageIds : m > Len(msgs') => event'[m] = "none"
    BY <1>2, <2>2, <2>5
  <2> QED
    BY <2>3, <2>6, <2>7, <2>8, <2>9, <2>10, <2>11 DEF BatchInv
<1>7. CASE RunGoesOn
  <2>1. UNCHANGED <<event, eventRun, msgs>> /\ lastRun \in RunIds
    BY <1>7, GoesOnValues, InFlightRun
  <2>2. \/ runs' = runs
        \/ \E resp \in {"creating", "uncertain", "response"} :
              runs' = [runs EXCEPT ![lastRun].resp = resp]
    BY <1>7, GoesOnValues, Zenon
  <2>3. ASSUME NEW r \in RunIds, NEW resp,
               runs' = [runs EXCEPT ![lastRun].resp = resp]
        PROVE  runs'[r].status = runs[r].status /\ runs'[r].after = runs[r].after
    BY <1>1, <2>1, <2>3, Zenon DEF Run
  <2>4. \A r \in RunIds : /\ runs'[r].status = runs[r].status
                          /\ runs'[r].after = runs[r].after
    BY <2>2, <2>3, Zenon
  <2> QED
    BY <1>2, <2>1, <2>4, BatchKept
<1>8. \A m \in MessageIds : m \in Batch <=> event[m] = "processing"
  BY DEF FlightInv, OneRunInFlight, Batch
<1>9. CASE RunEnds
  <2>1. PICK status \in {"failed", "cancelled"} :
          runs' = [runs EXCEPT ![lastRun].status = status]
    BY <1>9, EndsValues, Zenon
  <2>2. lastRun \in RunIds /\ msgs' = msgs /\ Running = {lastRun}
    BY <1>9, EndsValues DEF FlightInv, OneRunInFlight
  <2>3. /\ \A r \in RunIds : /\ r # lastRun => runs'[r].status = runs[r].status
                             /\ runs'[r].after = runs[r].after
        /\ runs'[lastRun].status \in {"failed", "cancelled"}
    BY <1>1, <2>1, <2>2, Zenon DEF Run
  <2>4. \A m \in MessageIds :
           \/ event'[m] = event[m] /\ eventRun'[m] = eventRun[m]
                /\ event[m] # "processing"
           \/ event[m] = "processing" /\ event'[m] \in {"failed", "pending"}
    BY <1>8, <1>9, EndsValues
  <2>5. Running' = {} /\ runs[lastRun].status = "running"
    BY <2>2, <2>3 DEF Running
  <2>6. \A m \in MessageIds : event'[m] # "processing"
    BY <2>4
  <2>7. BatchesSettleOnce'
    BY <2>3, <2>4, <2>5 DEF BatchInv, BatchesSettleOnce
  <2>8. \A m \in MessageIds : m > Len(msgs') => event'[m] = "none"
    BY <1>2, <2>2, <2>4
  <2>9. \A r \in RunIds : runs'[r].status # "none" => runs'[r].after \in MessageIds
    BY <2>3, <2>5 DEF BatchInv
  <2> QED
    BY <2>5, <2>6, <2>7, <2>8, <2>9 DEF BatchInv
<1>10. CASE Complete
  <2>1. /\ lastRun \in RunIds /\ msgs' = msgs /\ eventRun' = eventRun
        /\ Running = {lastRun}
        /\ runs' = [runs EXCEPT ![lastRun].status = "completed"]
    BY <1>10, CompleteValues DEF FlightInv, OneRunInFlight
  <2>2. /\ \A r \in RunIds : /\ r # lastRun => runs'[r].status = runs[r].status
                             /\ runs'[r].after = runs[r].after
        /\ runs'[lastRun].status = "completed"
    BY <1>1, <2>1, Zenon DEF Run
  <2>3. \A m \in MessageIds :
           \/ event'[m] = event[m] /\ event[m] # "processing"
           \/ event[m] = "processing" /\ event'[m] = "completed"
    BY <1>8, <1>10, CompleteValues
  <2>4. Running' = {} /\ runs[lastRun].status = "running"
    BY <2>1, <2>2 DEF Running
  <2>5. \A m \in MessageIds : event[m] = "processing" =>
           eventRun[m] = lastRun /\ m <= runs[lastRun].after
    BY <2>1 DEF FlightInv, OneRunInFlight, BatchInv
  <2>6. /\ runs[lastRun].after \in MessageIds
        /\ event[runs[lastRun].after] = "processing"
        /\ eventRun[runs[lastRun].after] = lastRun
    BY <2>1, <2>4 DEF BatchInv
  <2>7. BatchesSettleOnce'
    <3>1. ASSUME NEW r \in RunIds, runs'[r].status = "completed"
          PROVE  event'[runs'[r].after] = "completed" /\ eventRun'[runs'[r].after] = r
      BY <2>1, <2>2, <2>3, <2>6, <3>1 DEF BatchInv, BatchesSettleOnce
    <3>2. ASSUME NEW m \in MessageIds, event'[m] = "completed"
          PROVE  /\ eventRun'[m] \in RunIds
                 /\ runs'[eventRun'[m]].status = "completed"
                 /\ m <= runs'[eventRun'[m]].after
      BY <2>1, <2>2, <2>3, <2>4, <2>5, <3>2 DEF BatchInv, BatchesSettleOnce
    <3> QED
      BY <3>1, <3>2 DEF BatchesSettleOnce
  <2>8. \A m \in MessageIds : m > Len(msgs') => event'[m] = "none"
    BY <1>2, <2>1, <2>3
  <2>9. \A r \in RunIds : runs'[r].status # "none" => runs'[r].after \in MessageIds
    BY <2>2, <2>4 DEF BatchInv
  <2> QED
    BY <2>3, <2>4, <2>7, <2>8, <2>9 DEF BatchInv
<1>11. CASE Start
  <2>1. UNCHANGED <<msgs, eventRun>>
    BY <1>11, StartValues
  <2>2. \A r \in RunIds : /\ r \notin Running => runs'[r].status = runs[r].status
                          /\ r \in Running => runs'[r].status = "failed"
                          /\ runs'[r].after = runs[r].after
    BY <1>1, <1>11, StartValues, ZenonT(40) DEF Run
  <2>3. \A m \in MessageIds :
           \/ event'[m] = event[m] /\ event[m] # "processing"
           \/ event[m] = "processing" /\ event'[m] = "failed"
    BY <1>11, StartValues DEF FlightInv, OneRunInFlight
  <2>4. Running' = {}
    BY <2>2 DEF Running
  <2>5. BatchesSettleOnce'
    BY <2>1, <2>2, <2>3 DEF BatchInv, BatchesSettleOnce, Running
  <2>6. \A m \in MessageIds : m > Len(msgs') => event'[m] = "none"
    BY <1>2, <2>1, <2>3
  <2>7. \A r \in RunIds : runs'[r].status # "none" => runs'[r].after \in MessageIds
    BY <2>2 DEF BatchInv, Running
  <2> QED
    BY <2>3, <2>4, <2>5, <2>6, <2>7 DEF BatchInv
<1>12. CASE UNCHANGED <<runs, event, eventRun, msgs>>
  BY <1>2, <1>12, BatchKept
<1> QED
  BY <1>3, <1>4, <1>5, <1>6, <1>7, <1>9, <1>10, <1>11, <1>12, StepKinds,
     PauseValues, GivenUpValues, OtherValues

\* No batch is settled twice: what a completed run answered stays completed.
THEOREM SettleOnce == Spec => []BatchesSettleOnce
<1>1. TypeInv /\ FlightInv /\ BatchInv /\ [Next]_vars
        => (TypeInv /\ FlightInv /\ BatchInv)'
  BY TypeStep, FlightStep, BatchStep
<1>2. Init => TypeInv /\ FlightInv /\ BatchInv
  BY TypeInit, FlightInit, BatchInit
<1>3. BatchInv => BatchesSettleOnce
  BY DEF BatchInv
<1> QED
  BY <1>1, <1>2, <1>3, PTL DEF Spec
-----------------------------------------------------------------------------
(* Artifacts and the watermark.                                            *)

\* The run in flight starts where the watermark is, so that its artifact
\* continues the chain; and every artifact is older than the next run.
ChainInv ==
    /\ ArtifactChain
    /\ InFlight => runs[lastRun].before = sub.mark
    /\ \A v \in RunIds : artifacts[v] <= lastRun

LEMMA ChainInit == Init => ChainInv
<1> SUFFICES ASSUME Init PROVE ChainInv
    OBVIOUS
<1>1. /\ \A v \in RunIds : artifacts[v] = 0 /\ v > 0
      /\ lastRun = 0 /\ task = IdleTask
  BY BoundsAssumption DEF Init, RunIds
<1>2. PICK scope \in Scopes, pace \in Paces :
        sub = [status |-> "none", state |-> "waiting", rev |-> 0,
               mark |-> 0, version |-> 0, wait |-> None, age |-> None,
               convo |-> "none", scope |-> scope, pace |-> pace]
  BY DEF Init
<1>3. sub.mark = 0 /\ sub.version = 0
  BY <1>2
<1> QED
  BY <1>1, <1>3 DEF ChainInv, ArtifactChain, InFlight, IdleTask

\* A step that keeps the windows of the runs, the completed ones and the
\* watermark, and starts no run.
LEMMA ChainKept ==
  ASSUME TypeInv, ChainInv,
         \A r \in RunIds :
            /\ runs'[r].before = runs[r].before /\ runs'[r].after = runs[r].after
            /\ runs[r].status = "completed" => runs'[r].status = "completed",
         UNCHANGED <<Progress, artifacts, lastRun>>,
         InFlight' => InFlight,
         InFlight' => lastRun \in RunIds
  PROVE  ChainInv'
<1>1. /\ sub.version \in 0..MaxRuns /\ MaxRuns \in Nat
      /\ UNCHANGED <<sub.version, sub.mark>>
  BY BoundsAssumption DEF TypeInv, TypeOK, Subscription, Progress
<1>2. \A v \in 1..sub.version : artifacts[v] \in RunIds
  BY <1>1 DEF ChainInv, ArtifactChain, RunIds
<1>3. ASSUME NEW v \in RunIds
      PROVE  IF v > sub.version' THEN artifacts'[v] = 0
             ELSE /\ artifacts'[v] \in RunIds
                  /\ runs'[artifacts'[v]].status = "completed"
                  /\ runs'[artifacts'[v]].before =
                        IF v = 1 THEN 0 ELSE runs'[artifacts'[v - 1]].after
  <2>1. CASE v > sub.version
    BY <1>1, <2>1 DEF ChainInv, ArtifactChain
  <2>2. CASE ~(v > sub.version)
    <3>1. v # 1 => artifacts[v - 1] \in RunIds
      BY <1>1, <1>2, <2>2 DEF RunIds
    <3>2. /\ artifacts[v] \in RunIds
          /\ runs[artifacts[v]].status = "completed"
          /\ runs[artifacts[v]].before =
                IF v = 1 THEN 0 ELSE runs[artifacts[v - 1]].after
      BY <2>2 DEF ChainInv, ArtifactChain
    <3>3. ~(v > sub.version') /\ artifacts' = artifacts
      BY <1>1, <2>2
    <3> QED
      BY <3>1, <3>2, <3>3, Zenon
  <2> QED
    BY <2>1, <2>2
<1>4. sub'.mark = IF sub'.version = 0 THEN 0
                  ELSE runs'[artifacts'[sub'.version]].after
  BY <1>1, <1>2 DEF ChainInv, ArtifactChain
<1>5. \A v, w \in 1..sub'.version : v < w => artifacts'[v] < artifacts'[w]
  BY <1>1 DEF ChainInv, ArtifactChain
<1>6. ArtifactChain'
  BY <1>1, <1>3, <1>4, <1>5 DEF ArtifactChain
<1>7. InFlight' => runs'[lastRun'].before = sub'.mark
  BY <1>1 DEF ChainInv
<1>8. \A v \in RunIds : artifacts'[v] <= lastRun'
  BY DEF ChainInv
<1> QED
  BY <1>6, <1>7, <1>8, Zenon DEF ChainInv

\* A completed run writes the next link.
LEMMA ChainCompleted ==
  ASSUME TypeInv, FlightInv, ChainInv, Complete
  PROVE  ChainInv'
<1>1. /\ runs \in [RunIds -> Run] /\ artifacts \in [RunIds -> 0..MaxRuns]
      /\ sub.version \in 0..MaxRuns /\ MaxRuns \in Nat
  BY BoundsAssumption DEF TypeInv, TypeOK, Subscription
<1>2. /\ InFlight /\ lastRun \in RunIds /\ task' = IdleTask
      /\ sub'.mark = runs[lastRun].after
      /\ sub'.version = sub.version + 1 /\ sub.version + 1 \in RunIds
      /\ artifacts' = [artifacts EXCEPT ![sub.version + 1] = lastRun]
      /\ runs' = [runs EXCEPT ![lastRun].status = "completed"]
      /\ lastRun' = lastRun
  BY CompleteValues
<1>3. /\ \A r \in RunIds : /\ r # lastRun => runs'[r] = runs[r]
                           /\ runs'[r].before = runs[r].before
                           /\ runs'[r].after = runs[r].after
      /\ runs'[lastRun].status = "completed"
      /\ runs[lastRun].status = "running"
  <2>1. runs[lastRun].status = "running"
    BY <1>2 DEF FlightInv, OneRunInFlight, Running
  <2> QED
    BY <1>1, <1>2, <2>1, Zenon DEF Run
<1>4. \A v \in 1..sub.version :
         /\ artifacts'[v] = artifacts[v] /\ artifacts[v] \in RunIds
         /\ runs[artifacts[v]].status = "completed"
         /\ artifacts[v] # lastRun /\ artifacts[v] < lastRun
         /\ runs'[artifacts[v]] = runs[artifacts[v]]
  <2>1. ASSUME NEW v \in 1..sub.version
        PROVE  /\ artifacts'[v] = artifacts[v] /\ artifacts[v] \in RunIds
               /\ runs[artifacts[v]].status = "completed"
    <3>1. v \in RunIds /\ ~(v > sub.version) /\ v # sub.version + 1
      BY <1>1 DEF RunIds
    <3> QED
      BY <1>1, <1>2, <3>1 DEF ChainInv, ArtifactChain
  <2>2. ASSUME NEW v \in 1..sub.version
        PROVE  artifacts[v] # lastRun /\ artifacts[v] < lastRun
    <3>1. artifacts[v] # lastRun
      BY <1>3, <2>1
    <3>2. artifacts[v] <= lastRun
      BY <1>1 DEF ChainInv, RunIds
    <3> QED
      BY <1>1, <1>2, <2>1, <3>1, <3>2 DEF RunIds
  <2> QED
    BY <1>3, <2>1, <2>2
<1>5. artifacts'[sub.version + 1] = lastRun
  BY <1>1, <1>2
<1>6. runs[lastRun].before = IF sub.version = 0 THEN 0
                             ELSE runs[artifacts[sub.version]].after
  BY <1>2 DEF ChainInv, ArtifactChain
<1>7. ASSUME NEW v \in RunIds
      PROVE  IF v > sub'.version THEN artifacts'[v] = 0
             ELSE /\ artifacts'[v] \in RunIds
                  /\ runs'[artifacts'[v]].status = "completed"
                  /\ runs'[artifacts'[v]].before =
                        IF v = 1 THEN 0 ELSE runs'[artifacts'[v - 1]].after
  <2>1. CASE v > sub.version + 1
    <3>1. v > sub.version /\ v # sub.version + 1
      BY <1>1, <2>1 DEF RunIds
    <3>2. artifacts[v] = 0
      BY <3>1 DEF ChainInv, ArtifactChain
    <3> QED
      BY <1>1, <1>2, <2>1, <3>1, <3>2
  <2>2. CASE v = sub.version + 1
    <3>1. sub.version # 0 => v - 1 = sub.version /\ sub.version \in 1..sub.version
      BY <1>1, <2>2
    <3>2. sub.version # 0 => runs'[artifacts'[v - 1]].after = runs[artifacts[sub.version]].after
      BY <1>4, <3>1
    <3>3. v = 1 <=> sub.version = 0
      BY <1>1, <2>2
    <3>4. artifacts'[v] = lastRun
      BY <1>5, <2>2
    <3>5. ~(v > sub'.version)
      BY <1>1, <1>2, <2>2
    <3> QED
      BY <1>2, <1>3, <1>6, <3>2, <3>3, <3>4, <3>5, ZenonT(40)
  <2>3. CASE v <= sub.version
    <3>1. v \in 1..sub.version /\ (v # 1 => v - 1 \in 1..sub.version)
      BY <1>1, <2>3 DEF RunIds
    <3>2. ~(v > sub'.version) /\ ~(v > sub.version)
      BY <1>1, <1>2, <3>1
    <3>3. runs[artifacts[v]].before = IF v = 1 THEN 0 ELSE runs[artifacts[v - 1]].after
      BY <3>2 DEF ChainInv, ArtifactChain
    <3> QED
      BY <1>4, <3>1, <3>2, <3>3, ZenonT(40)
  <2> QED
    BY <1>1, <2>1, <2>2, <2>3 DEF RunIds
<1>8. \A v, w \in 1..sub'.version : v < w => artifacts'[v] < artifacts'[w]
  <2>1. ASSUME NEW v \in 1..sub'.version, NEW w \in 1..sub'.version, v < w
        PROVE  artifacts'[v] < artifacts'[w]
    <3>1. v \in 1..sub.version
      BY <1>1, <1>2, <2>1
    <3>2. CASE w = sub.version + 1
      BY <1>4, <1>5, <3>1, <3>2
    <3>3. CASE w \in 1..sub.version
      BY <1>4, <2>1, <3>1, <3>3 DEF ChainInv, ArtifactChain
    <3> QED
      BY <1>1, <1>2, <3>2, <3>3
  <2> QED
    BY <2>1
<1>9. sub'.mark = IF sub'.version = 0 THEN 0
                  ELSE runs'[artifacts'[sub'.version]].after
  BY <1>1, <1>2, <1>3, <1>5
<1>10. ArtifactChain'
  BY <1>7, <1>8, <1>9 DEF ArtifactChain
<1>11. \A v \in RunIds : artifacts'[v] <= lastRun'
  BY <1>1, <1>2 DEF ChainInv, RunIds
<1>12. ~InFlight'
  BY <1>2 DEF InFlight, IdleTask
<1> QED
  BY <1>10, <1>11, <1>12, Zenon DEF ChainInv

LEMMA ChainStep ==
  ASSUME TypeInv, TypeInv', FlightInv, ChainInv, [Next]_vars
  PROVE  ChainInv'
<1> USE DEF NoRunChange
<1>1. /\ runs \in [RunIds -> Run] /\ lastRun \in 0..MaxRuns /\ MaxRuns \in Nat
      /\ InFlight => lastRun \in RunIds
  BY BoundsAssumption, InFlightRun DEF TypeInv, TypeOK
<1>2. CASE /\ UNCHANGED <<Progress, artifacts, lastRun, runs>>
           /\ InFlight' => InFlight
  BY <1>1, <1>2, ChainKept
<1>3. CASE Arrival
  BY <1>2, <1>3, ReceiveValues DEF InFlight
<1>4. ASSUME NEW scope \in Scopes, NEW pace \in Paces, Upsert(scope, pace)
      PROVE  ChainInv'
  BY <1>2, <1>4, UpsertValues DEF InFlight
<1>5. CASE Pause
  BY <1>2, <1>5, PauseValues DEF InFlight
<1>6. CASE Retry
  <2>1. \A r \in RunIds :
           /\ runs'[r].before = runs[r].before /\ runs'[r].after = runs[r].after
           /\ runs'[r].status = runs[r].status
    BY <1>1, <1>6, RetryValues DEF Run
  <2>2. InFlight' => InFlight
    BY <1>6, RetryValues DEF InFlight
  <2> QED
    BY <1>1, <1>6, <2>1, <2>2, RetryValues, ChainKept
<1>7. CASE ClaimGivenUp
  BY <1>2, <1>7, GivenUpValues DEF InFlight, IdleTask
<1>8. CASE Claim
  <2>1. PICK after \in MessageIds :
          runs' = [runs EXCEPT ![lastRun + 1] =
                [status |-> "running", rev |-> sub.rev,
                 before |-> sub.mark, after |-> after, resp |-> "",
                 ctx |-> Selected(after), scope |-> sub.scope]]
    BY <1>8, ClaimValues, Zenon
  <2>2. /\ lastRun' = lastRun + 1 /\ lastRun + 1 \in RunIds
        /\ UNCHANGED <<Progress, artifacts>>
    BY <1>8, ClaimValues
  <2>3. \A r \in RunIds : r <= lastRun => runs'[r] = runs[r]
    <3>1. \A r \in RunIds : r <= lastRun => r # lastRun + 1
      BY <1>1 DEF RunIds
    <3> QED
      BY <1>1, <2>1, <3>1, Zenon
  <2>4. runs'[lastRun'].before = sub'.mark
    BY <1>1, <2>1, <2>2 DEF Progress
  <2>5. /\ sub.version \in 0..MaxRuns /\ artifacts \in [RunIds -> 0..MaxRuns]
        /\ UNCHANGED <<sub.version, sub.mark>>
    BY <2>2 DEF TypeInv, TypeOK, Subscription, Progress
  <2>6. \A v \in RunIds : artifacts[v] <= lastRun
    BY Zenon DEF ChainInv
  <2>7. \A v \in 1..sub.version :
           artifacts[v] \in RunIds /\ runs'[artifacts[v]] = runs[artifacts[v]]
    <3>1. \A v \in 1..sub.version : v \in RunIds /\ ~(v > sub.version)
      BY <1>1, <2>5 DEF RunIds
    <3>2. \A v \in 1..sub.version : artifacts[v] \in RunIds
      BY <3>1 DEF ChainInv, ArtifactChain
    <3> QED
      BY <2>3, <2>6, <3>1, <3>2
  <2>8. ASSUME NEW v \in RunIds
        PROVE  IF v > sub.version' THEN artifacts'[v] = 0
               ELSE /\ artifacts'[v] \in RunIds
                    /\ runs'[artifacts'[v]].status = "completed"
                    /\ runs'[artifacts'[v]].before =
                          IF v = 1 THEN 0 ELSE runs'[artifacts'[v - 1]].after
    <3>1. v <= sub.version => v \in 1..sub.version
                              /\ (v # 1 => v - 1 \in 1..sub.version)
      BY <1>1, <2>5 DEF RunIds
    <3>2. v <= sub.version \/ v > sub.version
      BY <1>1, <2>5 DEF RunIds
    <3> QED
      BY <2>2, <2>5, <2>7, <3>1, <3>2 DEF ChainInv, ArtifactChain
  <2>9. sub'.mark = IF sub'.version = 0 THEN 0
                    ELSE runs'[artifacts'[sub'.version]].after
    <3>1. sub.version # 0 => sub.version \in 1..sub.version
      BY <1>1, <2>5
    <3> QED
      BY <2>2, <2>5, <2>7, <3>1 DEF ChainInv, ArtifactChain
  <2>10. \A v, w \in 1..sub'.version : v < w => artifacts'[v] < artifacts'[w]
    BY <2>2, <2>5 DEF ChainInv, ArtifactChain
  <2>11. ArtifactChain'
    BY <2>8, <2>9, <2>10 DEF ArtifactChain
  <2>12. \A v \in RunIds : artifacts'[v] <= lastRun'
    BY <1>1, <2>2, <2>5, <2>6
  <2> QED
    BY <2>4, <2>11, <2>12, Zenon DEF ChainInv
<1>9. CASE RunGoesOn
  <2>1. \/ runs' = runs
        \/ \E resp \in {"creating", "uncertain", "response"} :
              runs' = [runs EXCEPT ![lastRun].resp = resp]
    BY <1>9, GoesOnValues, Zenon
  <2>2. lastRun \in RunIds /\ InFlight /\ InFlight'
        /\ UNCHANGED <<Progress, artifacts, lastRun>>
    BY <1>1, <1>9, GoesOnValues
  <2>3. ASSUME NEW r \in RunIds, NEW resp,
               runs' = [runs EXCEPT ![lastRun].resp = resp]
        PROVE  /\ runs'[r].before = runs[r].before
               /\ runs'[r].after = runs[r].after
               /\ runs'[r].status = runs[r].status
    BY <1>1, <2>2, <2>3, Zenon DEF Run
  <2>4. \A r \in RunIds :
           /\ runs'[r].before = runs[r].before /\ runs'[r].after = runs[r].after
           /\ runs'[r].status = runs[r].status
    BY <2>1, <2>3, Zenon
  <2> QED
    BY <2>2, <2>4, ChainKept
<1>10. CASE RunEnds
  <2>1. PICK status \in {"failed", "cancelled"} :
          runs' = [runs EXCEPT ![lastRun].status = status]
    BY <1>10, EndsValues, Zenon
  <2>2. /\ lastRun \in RunIds /\ UNCHANGED <<Progress, artifacts, lastRun>>
        /\ runs[lastRun].status = "running"
    BY <1>10, EndsValues DEF FlightInv, OneRunInFlight, Running
  <2>3. \A r \in RunIds :
           /\ runs'[r].before = runs[r].before /\ runs'[r].after = runs[r].after
           /\ r # lastRun => runs'[r].status = runs[r].status
    BY <1>1, <2>1, <2>2, Zenon DEF Run
  <2>4. ~InFlight'
    BY <1>10, EndsValues DEF InFlight, IdleTask
  <2> QED
    BY <2>2, <2>3, <2>4, ChainKept
<1>11. CASE Complete
  BY <1>11, ChainCompleted
<1>12. CASE Start
  <2>1. \A r \in RunIds :
           /\ runs'[r].before = runs[r].before /\ runs'[r].after = runs[r].after
           /\ runs[r].status = "completed" => runs'[r].status = "completed"
    BY <1>1, <1>12, StartValues DEF Run, Running
  <2>2. InFlight' => InFlight
    BY <1>12, StartValues DEF InFlight
  <2> QED
    BY <1>1, <1>12, <2>1, <2>2, StartValues, ChainKept
<1>13. CASE Dispatch \/ Stop \/ Stopped \/ Crash \/ Tick \/ NewDay \/ UNCHANGED vars
  <2>1. InFlight' => InFlight
    BY <1>13, OtherValues DEF InFlight, IdleTask
  <2> QED
    BY <1>2, <1>13, <2>1, OtherValues
<1> QED
  BY <1>3, <1>4, <1>5, <1>6, <1>7, <1>8, <1>9, <1>10, <1>11, <1>12, <1>13, StepKinds

\* The artifacts are one chain of windows, each starting where the one before
\* ended, and the watermark is the end of the last.
THEOREM ArtifactsChain == Spec => []ArtifactChain
<1>1. TypeInv /\ FlightInv /\ ChainInv /\ [Next]_vars
        => (TypeInv /\ FlightInv /\ ChainInv)'
  BY TypeStep, FlightStep, ChainStep
<1>2. Init => TypeInv /\ FlightInv /\ ChainInv
  BY TypeInit, FlightInit, ChainInit
<1>3. ChainInv => ArtifactChain
  BY DEF ChainInv
<1> QED
  BY <1>1, <1>2, <1>3, PTL DEF Spec
-----------------------------------------------------------------------------
(* Uncertain responses.                                                    *)

\* A step that keeps the rows' windows, inserts none and makes at most the
\* newest response uncertain.
LEMMA UncertainKept ==
  ASSUME TypeInv, UncertainNeedsRetry, lastRun' = lastRun,
         \A r \in RunIds :
            /\ runs'[r].before = runs[r].before /\ runs'[r].after = runs[r].after
            /\ r # lastRun /\ runs'[r].resp = "uncertain"
                 => runs[r].resp = "uncertain"
  PROVE  UncertainNeedsRetry'
<1>1. lastRun \in 0..MaxRuns /\ MaxRuns \in Nat
  BY BoundsAssumption DEF TypeInv, TypeOK
<1>2. ASSUME NEW i \in 1..lastRun, NEW j \in 1..lastRun, i < j,
             runs'[i].before = runs'[j].before, runs'[i].after = runs'[j].after
      PROVE  runs'[i].resp # "uncertain"
  <2>1. i \in RunIds /\ j \in RunIds /\ i # lastRun
    BY <1>1, <1>2 DEF RunIds
  <2>2. runs[i].before = runs[j].before /\ runs[i].after = runs[j].after
    BY <1>2, <2>1, Zenon
  <2>3. runs[i].resp # "uncertain"
    BY <1>2, <2>2 DEF UncertainNeedsRetry
  <2> QED
    BY <2>1, <2>3, Zenon
<1> QED
  BY <1>2 DEF UncertainNeedsRetry

LEMMA UncertainStep ==
  ASSUME TypeInv, UncertainNeedsRetry, [Next]_vars
  PROVE  UncertainNeedsRetry'
<1> USE DEF NoRunChange
<1>1. /\ runs \in [RunIds -> Run] /\ lastRun \in 0..MaxRuns /\ MaxRuns \in Nat
      /\ InFlight => lastRun \in RunIds
  BY BoundsAssumption, InFlightRun DEF TypeInv, TypeOK
<1>2. CASE UNCHANGED <<runs, lastRun>>
  BY <1>2, UncertainKept
<1>3. ASSUME NEW status, lastRun \in RunIds, lastRun' = lastRun,
             runs' = [runs EXCEPT ![lastRun].status = status]
      PROVE  UncertainNeedsRetry'
  <2>1. \A r \in RunIds :
           /\ runs'[r].before = runs[r].before /\ runs'[r].after = runs[r].after
           /\ runs'[r].resp = runs[r].resp
    BY <1>1, <1>3, Zenon DEF Run
  <2> QED
    BY <1>3, <2>1, UncertainKept
<1>4. CASE Retry
  <2>1. \A r \in RunIds :
           /\ runs'[r].before = runs[r].before /\ runs'[r].after = runs[r].after
           /\ runs'[r].resp = "uncertain" => runs[r].resp = "uncertain"
    BY <1>1, <1>4, RetryValues DEF Run
  <2> QED
    BY <1>4, <2>1, RetryValues, UncertainKept
<1>5. CASE Claim
  <2>1. PICK after \in MessageIds :
          /\ \A r \in Attempts(after) : runs[r].resp # "uncertain"
          /\ runs' = [runs EXCEPT ![lastRun + 1] =
                [status |-> "running", rev |-> sub.rev,
                 before |-> sub.mark, after |-> after, resp |-> "",
                 ctx |-> Selected(after), scope |-> sub.scope]]
    BY <1>5, ClaimValues, Zenon
  <2>2. lastRun' = lastRun + 1 /\ lastRun + 1 \in RunIds
    BY <1>5, ClaimValues
  <2>3. /\ \A r \in 1..lastRun : runs'[r] = runs[r]
        /\ runs'[lastRun + 1].before = sub.mark
        /\ runs'[lastRun + 1].after = after
    <3>1. \A r \in 1..lastRun : r \in RunIds /\ r # lastRun + 1
      BY <1>1 DEF RunIds
    <3> QED
      BY <1>1, <2>1, <2>2, <3>1
  <2>4. ASSUME NEW i \in 1..lastRun', NEW j \in 1..lastRun', i < j,
               runs'[i].before = runs'[j].before, runs'[i].after = runs'[j].after
        PROVE  runs'[i].resp # "uncertain"
    <3>1. i \in 1..lastRun
      BY <1>1, <2>2, <2>4
    <3>2. CASE j = lastRun + 1
      <4>1. runs[i].before = sub.mark /\ runs[i].after = after
        BY <2>3, <2>4, <3>1, <3>2
      <4>2. i \in Attempts(after)
        BY <3>1, <4>1 DEF Attempts
      <4> QED
        BY <2>1, <2>3, <3>1, <4>2
    <3>3. CASE j \in 1..lastRun
      BY <2>3, <2>4, <3>1, <3>3 DEF UncertainNeedsRetry
    <3> QED
      BY <1>1, <2>2, <3>2, <3>3
  <2> QED
    BY <2>4 DEF UncertainNeedsRetry
<1>6. CASE RunGoesOn
  <2>1. \/ runs' = runs
        \/ \E resp \in {"creating", "uncertain", "response"} :
              runs' = [runs EXCEPT ![lastRun].resp = resp]
    BY <1>6, GoesOnValues, Zenon
  <2>2. lastRun \in RunIds /\ lastRun' = lastRun
    BY <1>1, <1>6, GoesOnValues
  <2>3. ASSUME NEW r \in RunIds, NEW resp,
               runs' = [runs EXCEPT ![lastRun].resp = resp]
        PROVE  /\ runs'[r].before = runs[r].before
               /\ runs'[r].after = runs[r].after
               /\ r # lastRun => runs'[r].resp = runs[r].resp
    BY <1>1, <2>2, <2>3, Zenon DEF Run
  <2>4. \A r \in RunIds :
           /\ runs'[r].before = runs[r].before /\ runs'[r].after = runs[r].after
           /\ r # lastRun => runs'[r].resp = runs[r].resp
    BY <2>1, <2>3, Zenon
  <2> QED
    BY <2>2, <2>4, UncertainKept
<1>7. CASE RunEnds
  BY <1>3, <1>7, EndsValues
<1>8. CASE Complete
  BY <1>3, <1>8, CompleteValues
<1>9. CASE Start
  <2>1. \A r \in RunIds :
           /\ runs'[r].before = runs[r].before /\ runs'[r].after = runs[r].after
           /\ runs'[r].resp = runs[r].resp
    BY <1>9, StartKeeps
  <2> QED
    BY <1>9, <2>1, StartValues, UncertainKept
<1> QED
  BY <1>2, <1>4, <1>5, <1>6, <1>7, <1>8, <1>9, StepKinds, ReceiveValues,
     UpsertValues, PauseValues, GivenUpValues, OtherValues

\* A request whose outcome is unknown is repeated on its window only after the
\* explicit retry.
THEOREM NoUncertainRepeat == Spec => []UncertainNeedsRetry
<1>1. TypeInv /\ UncertainNeedsRetry /\ [Next]_vars
        => (TypeInv /\ UncertainNeedsRetry)'
  BY TypeStep, UncertainStep
<1>2. Init => TypeInv /\ UncertainNeedsRetry
  <2>1. Init => UncertainNeedsRetry
    BY DEF Init, UncertainNeedsRetry
  <2> QED
    BY <2>1, TypeInit
<1> QED
  BY <1>1, <1>2, PTL DEF Spec

-----------------------------------------------------------------------------
(* No message is forgotten.                                                *)

\* The message, or one after it, has an event.
Covered(m) == \E k \in MessageIds : m <= k /\ event[k] # "none"

\* NothingForgotten whatever the watermark is: it may also move back, when an
\* older failed batch is retried.
CoveredInv ==
    sub.status = "active" =>
        \A m \in Inbound : msgs[m].status = "new" => Covered(m)

\* The watermark, if there is one, is a message whose event is completed.
LEMMA MarkIsCovered ==
  ASSUME TypeInv, BatchInv, ChainInv, sub.mark # 0
  PROVE  sub.mark \in MessageIds /\ event[sub.mark] = "completed"
<1>1. /\ sub.version \in 0..MaxRuns /\ sub.version # 0
      /\ sub.mark = runs[artifacts[sub.version]].after
  BY DEF TypeInv, TypeOK, Subscription, ChainInv, ArtifactChain
<1>2. sub.version \in RunIds
  BY <1>1, BoundsAssumption DEF RunIds
<1>3. /\ artifacts[sub.version] \in RunIds
      /\ runs[artifacts[sub.version]].status = "completed"
  BY <1>1, <1>2 DEF ChainInv, ArtifactChain
<1> QED
  BY <1>1, <1>3 DEF BatchInv, BatchesSettleOnce

\* A recorded event is never erased.
LEMMA EventsStay ==
  ASSUME TypeInv, [Next]_vars, NEW m \in MessageIds, event[m] # "none"
  PROVE  event'[m] # "none"
<1>1. event \in [MessageIds -> EventStatus]
  BY DEF TypeInv, TypeOK
<1>2. CASE Arrival
  BY <1>1, <1>2, ReceiveValues
<1>3. ASSUME NEW scope \in Scopes, NEW pace \in Paces, Upsert(scope, pace)
      PROVE  event'[m] # "none"
  BY <1>1, <1>3, UpsertValues
<1>4. CASE RunEnds
  BY <1>4, EndsValues
<1>5. CASE Claim
  BY <1>5, ClaimValues
<1> QED
  BY <1>2, <1>3, <1>4, <1>5, StepKinds, PauseValues, RetryValues,
     GivenUpValues, GoesOnValues, CompleteValues, StartValues, OtherValues

\* A step that brings no message and does not activate the subscription.
LEMMA CoveredKept ==
  ASSUME TypeInv, CoveredInv, [Next]_vars, msgs' = msgs,
         sub'.status = "active" => sub.status = "active"
  PROVE  CoveredInv'
<1> SUFFICES ASSUME sub'.status = "active", NEW m \in Inbound,
                    msgs[m].status = "new"
             PROVE  Covered(m)'
    BY DEF CoveredInv, Inbound
<1>1. PICK k \in MessageIds : m <= k /\ event[k] # "none"
  BY DEF CoveredInv, Covered
<1> QED
  BY <1>1, EventsStay DEF Covered

LEMMA CoveredArrival ==
  ASSUME TypeInv, CoveredInv, [Next]_vars, Arrival
  PROVE  CoveredInv'
<1>1. /\ msgs \in Seq(Message) /\ sub \in Subscription
      /\ event \in [MessageIds -> EventStatus]
  BY DEF TypeInv, TypeOK
<1>2. PICK message \in Message :
         /\ msgs' = Append(msgs, message)
         /\ message.status = "new" /\ sub.status = "active"
              => event' = [event EXCEPT ![Len(msgs) + 1] = "pending"]
  BY Zenon DEF Arrival, ReceiveMessage, MergeMessage
<1>3. sub'.status = sub.status
  BY ReceiveValues DEF Lease
<1>4. Len(msgs) + 1 \in MessageIds
  <2>1. Len(msgs) < MaxMessages
    BY Zenon DEF Arrival, ReceiveMessage, MergeMessage
  <2> QED
    BY <1>1, <2>1, BoundsAssumption DEF MessageIds
<1> SUFFICES ASSUME sub'.status = "active", NEW m \in 1..Len(msgs'),
                    msgs'[m].status = "new"
             PROVE  Covered(m)'
    BY DEF CoveredInv, Inbound
<1>5. CASE m = Len(msgs) + 1
  <2>1. message.status = "new"
    BY <1>1, <1>2, <1>5
  <2>2. event'[m] = "pending"
    BY <1>1, <1>2, <1>3, <1>4, <1>5, <2>1
  <2> QED
    BY <1>4, <1>5, <2>2 DEF Covered, MessageIds
<1>6. CASE m # Len(msgs) + 1
  <2>1. m \in 1..Len(msgs) /\ msgs[m].status = "new"
    BY <1>1, <1>2, <1>6
  <2>2. Covered(m)
    BY <1>3, <2>1 DEF CoveredInv, Inbound
  <2>3. PICK k \in MessageIds : m <= k /\ event[k] # "none"
    BY <2>2 DEF Covered
  <2> QED
    BY <2>3, EventsStay DEF Covered
<1> QED
  BY <1>5, <1>6

\* An upsert records an event for the newest inbound message, unless the
\* watermark is beyond it.
LEMMA CoveredUpsert ==
  ASSUME TypeInv, BatchInv, ChainInv, [Next]_vars,
         NEW scope \in Scopes, NEW pace \in Paces, Upsert(scope, pace)
  PROVE  CoveredInv'
<1>1. /\ msgs \in Seq(Message) /\ sub \in Subscription
      /\ event \in [MessageIds -> EventStatus]
      /\ Len(msgs) \in Nat /\ Len(msgs) <= MaxMessages
  BY DEF TypeInv, TypeOK
<1>2. PICK latest \in 0..Len(msgs) :
         /\ IsLatestInbound(latest)
         /\ event' = IF NeedsBootstrap(latest)
                     THEN [event EXCEPT ![latest] = "pending"] ELSE event
  BY Zenon DEF Upsert
<1>3. msgs' = msgs
  BY UpsertValues
<1> SUFFICES ASSUME NEW m \in Inbound PROVE Covered(m)'
    BY <1>3 DEF CoveredInv, Inbound
<1>4. m \in 1..Len(msgs)
  BY DEF Inbound
<1>5. latest \in Inbound /\ m <= latest
  BY <1>2 DEF IsLatestInbound
<1>6. latest \in MessageIds /\ latest # 0
  BY <1>1, <1>4, <1>5, BoundsAssumption DEF MessageIds
<1>7. CASE latest <= sub.mark
  <2>1. sub.mark # 0 /\ m <= sub.mark
    BY <1>1, <1>4, <1>5, <1>7 DEF Subscription
  <2>2. sub.mark \in MessageIds /\ event[sub.mark] # "none"
    BY <2>1, MarkIsCovered
  <2> QED
    BY <2>1, <2>2, EventsStay DEF Covered
<1>8. CASE event[latest] # "none"
  BY <1>5, <1>6, <1>8, EventsStay DEF Covered
<1>9. CASE ~(latest <= sub.mark) /\ event[latest] = "none"
  <2>1. NeedsBootstrap(latest)
    BY <1>1, <1>6, <1>9, BoundsAssumption DEF NeedsBootstrap, Subscription
  <2>2. event'[latest] = "pending"
    BY <1>1, <1>2, <1>6, <2>1
  <2> QED
    BY <1>5, <1>6, <2>2 DEF Covered
<1> QED
  BY <1>7, <1>8, <1>9

LEMMA CoveredStep ==
  ASSUME TypeInv, BatchInv, ChainInv, CoveredInv, [Next]_vars
  PROVE  CoveredInv'
<1>1. CASE Arrival
  BY <1>1, CoveredArrival
<1>2. ASSUME NEW scope \in Scopes, NEW pace \in Paces, Upsert(scope, pace)
      PROVE  CoveredInv'
  BY <1>2, CoveredUpsert
<1>3. CASE Pause
  BY <1>3, PauseValues DEF CoveredInv
<1> DEFINE Quiet == msgs' = msgs /\ sub'.status = sub.status
<1>4. CASE Retry \/ Claim \/ ClaimGivenUp
  <2>1. Quiet
    BY <1>4, RetryValues, ClaimValues, GivenUpValues DEF Lease
  <2> QED
    BY <2>1, CoveredKept
<1>5. CASE RunGoesOn \/ RunEnds \/ Complete
  <2>1. Quiet
    BY <1>5, GoesOnValues, EndsValues, CompleteValues DEF Lease
  <2> QED
    BY <2>1, CoveredKept
<1>6. CASE Start \/ Dispatch \/ Stop \/ Stopped \/ Crash \/ Tick \/ NewDay
           \/ UNCHANGED vars
  <2>1. Quiet
    BY <1>6, StartValues, OtherValues DEF Lease
  <2> QED
    BY <2>1, CoveredKept
<1> QED
  BY <1>1, <1>2, <1>3, <1>4, <1>5, <1>6, StepKinds

\* No message received from the customer is forgotten by an active
\* subscription, also when it arrived during a pause.
THEOREM Remembered == Spec => []NothingForgotten
<1> DEFINE Inv == TypeInv /\ FlightInv /\ BatchInv /\ ChainInv /\ CoveredInv
<1>1. Inv /\ [Next]_vars => Inv'
  BY TypeStep, FlightStep, BatchStep, ChainStep, CoveredStep
<1>2. Init => Inv
  <2>1. Init => CoveredInv
    BY DEF Init, CoveredInv, Inbound
  <2> QED
    BY <2>1, TypeInit, FlightInit, BatchInit, ChainInit
<1>3. Inv => NothingForgotten
  <2> SUFFICES ASSUME Inv, sub.status = "active", NEW m \in Inbound,
                      msgs[m].status = "new"
               PROVE  \E k \in m..Len(msgs) : event[k] # "none"
      BY DEF NothingForgotten
  <2>1. PICK k \in MessageIds : m <= k /\ event[k] # "none"
    BY DEF CoveredInv, Covered
  <2>2. ~(k > Len(msgs))
    BY <2>1 DEF BatchInv
  <2>3. k \in m..Len(msgs)
    BY <2>1, <2>2, BoundsAssumption
    DEF TypeInv, TypeOK, MessageIds, Inbound
  <2> QED
    BY <2>1, <2>3
<1> QED
  BY <1>1, <1>2, <1>3, PTL DEF Spec

-----------------------------------------------------------------------------
(* No event is stranded.                                                   *)

\* Only messages from the customer have events, so that none is above the
\* newest of them, and only a subscription records them.
StrandedInv ==
    /\ NothingStranded
    /\ \A m \in MessageIds :
          event[m] # "none" => m \in Inbound /\ sub.status # "none"

\* The states in which pending events are picked up, or the user is told.
Awake(state) ==
    state \in {"pending", "analyzing", "failed", "configuration_required"}

\* The messages that have events stay the customer's.
LEMMA EventsInbound ==
  ASSUME TypeInv, StrandedInv, [Next]_vars, NEW m \in MessageIds,
         event'[m] # "none"
  PROVE  m \in Inbound' /\ sub'.status # "none"
<1>1. /\ msgs \in Seq(Message) /\ event \in [MessageIds -> EventStatus]
      /\ Len(msgs) \in Nat
  BY DEF TypeInv, TypeOK
<1>2. event[m] # "none" =>
        /\ m \in 1..Len(msgs) /\ msgs[m].status # "sent"
        /\ sub.status # "none"
  BY DEF StrandedInv, Inbound
<1>3. CASE Arrival
  <2>1. PICK message \in Message :
           /\ msgs' = Append(msgs, message)
           /\ \/ event' = event
              \/ /\ message.status = "new" /\ sub.status = "active"
                 /\ event' = [event EXCEPT ![Len(msgs) + 1] = "pending"]
    BY <1>3, Zenon DEF Arrival, ReceiveMessage, MergeMessage
  <2> sub'.status = sub.status
    BY <1>3, ReceiveValues DEF Lease
  <2>2. CASE event[m] # "none"
    BY <1>1, <1>2, <2>1, <2>2 DEF Inbound
  <2>3. CASE event[m] = "none"
    <3>1. /\ m = Len(msgs) + 1 /\ message.status = "new"
          /\ sub.status = "active"
      BY <1>1, <2>1, <2>3
    <3> QED
      BY <1>1, <2>1, <3>1 DEF Inbound
  <2> QED
    BY <2>2, <2>3
<1>4. ASSUME NEW scope \in Scopes, NEW pace \in Paces, Upsert(scope, pace)
      PROVE  m \in Inbound' /\ sub'.status # "none"
  <2>1. PICK latest \in 0..Len(msgs) :
           /\ IsLatestInbound(latest)
           /\ event' = IF NeedsBootstrap(latest)
                       THEN [event EXCEPT ![latest] = "pending"] ELSE event
    BY <1>4, Zenon DEF Upsert
  <2>2. msgs' = msgs /\ sub'.status = "active"
    BY <1>4, UpsertValues
  <2>3. CASE event[m] # "none"
    BY <1>2, <2>2, <2>3 DEF Inbound
  <2>4. CASE event[m] = "none"
    <3>1. m = latest /\ latest # 0
      BY <1>1, <2>1, <2>4 DEF NeedsBootstrap
    <3>2. m \in Inbound
      BY <2>1, <3>1 DEF IsLatestInbound
    <3> QED
      BY <2>2, <3>2 DEF Inbound
  <2> QED
    BY <2>3, <2>4
<1>5. ASSUME msgs' = msgs, event[m] # "none",
             sub'.status = sub.status \/ sub'.status = "paused"
      PROVE  m \in Inbound' /\ sub'.status # "none"
  BY <1>2, <1>5 DEF Inbound
<1>6. CASE Claim
  BY <1>5, <1>6, ClaimValues DEF Lease
<1>7. CASE RunEnds
  <2>1. event[m] = "none" => m \notin Batch
    BY DEF Batch
  <2> QED
    BY <1>5, <1>7, <2>1, EndsValues DEF Lease
<1>8. CASE Complete
  <2>1. event[m] = "none" => m \notin Batch
    BY DEF Batch
  <2> QED
    BY <1>5, <1>8, <2>1, CompleteValues DEF Lease
<1> QED
  BY <1>3, <1>4, <1>5, <1>6, <1>7, <1>8, StepKinds, PauseValues, RetryValues,
     GivenUpValues, GoesOnValues, StartValues, OtherValues DEF Lease

\* After an upsert the row is awake, or it has no pending event, or only the
\* state is what it was.
LEMMA UpsertAwake ==
  ASSUME TypeInv, StrandedInv,
         NEW scope \in Scopes, NEW pace \in Paces, Upsert(scope, pace),
         NEW p \in MessageIds, event'[p] = "pending", p > sub'.mark
  PROVE  Awake(sub'.state)
<1> DEFINE edited == [sub EXCEPT
             !.status = "active", !.rev = @ + 1, !.scope = scope,
             !.pace = pace,
             !.state = IF sub.status # "none" THEN @
                       ELSE IF configured THEN "waiting"
                       ELSE "configuration_required"]
           started(latest) == Bootstrapped(edited, event', latest)
<1>1. PICK latest \in 0..Len(msgs) :
        /\ IsLatestInbound(latest)
        /\ event' = IF NeedsBootstrap(latest)
                    THEN [event EXCEPT ![latest] = "pending"] ELSE event
        /\ sub' = IF sub.status = "paused"
                  THEN Resumed(started(latest), event')
                  ELSE started(latest)
  BY Zenon DEF Upsert
<1>2. /\ sub \in Subscription /\ msgs \in Seq(Message)
      /\ event \in [MessageIds -> EventStatus] /\ Len(msgs) \in Nat
  BY DEF TypeInv, TypeOK
<1>3. edited \in Subscription /\ edited.mark = sub.mark
  <2>1. sub.rev + 1 \in 0..MaxRevision
    <3>1. sub.rev < MaxRevision
      BY Zenon DEF Upsert
    <3>2. sub.rev \in 0..MaxRevision
      BY DEF TypeInv, TypeOK, Subscription
    <3> QED
      BY <3>1, <3>2, BoundsAssumption
  <2> QED
    BY <2>1, Zenon DEF TypeInv, TypeOK, Subscription
<1>4. sub'.mark = sub.mark
  BY UpsertValues DEF Progress
<1> HIDE DEF edited
<1>5. HasEvent(event', "pending")
  BY DEF HasEvent
<1>6. ASSUME NeedsBootstrap(latest) PROVE Awake(started(latest).state)
  <2>1. started(latest) = Enqueued(edited, event', TRUE)
    BY <1>6, Zenon DEF Bootstrapped
  <2>2. PICK t : t = started(latest)
    OBVIOUS
  <2>3. t = Enqueued(edited, event', TRUE)
    BY <2>1, <2>2
  <2>4. t.state \in {"pending", "failed", "configuration_required"}
    BY <1>3, <2>3, EnqueuedKeeps, Zenon
  <2> QED
    BY <2>2, <2>4 DEF Awake
<1>7. CASE sub.status = "paused"
  <2>1. started(latest) \in Subscription
    BY <1>3, EnqueuedType, Zenon DEF Bootstrapped, Subscription
  <2> HIDE DEF started
  <2> QED
    BY <1>1, <1>5, <1>7, <2>1 DEF Resumed, Awake, Subscription
<1>8. CASE sub.status # "paused" /\ ~NeedsBootstrap(latest)
  <2>1. event' = event /\ event[p] # "none"
    BY <1>1, <1>8
  <2>2. p \in Inbound
    BY <2>1 DEF StrandedInv
  <2>3. p <= latest
    BY <1>1, <2>2 DEF IsLatestInbound
  <2>4. ~(latest <= sub.mark)
    BY <1>2, <1>4, <2>2, <2>3 DEF Subscription, Inbound
  <2>5. started(latest) = edited
    BY <1>3, <1>8, <2>4, Zenon DEF Bootstrapped
  <2>6. sub.status # "none"
    BY <2>1 DEF StrandedInv
  <2>7. sub.status = "active"
    BY <1>2, <1>8, <2>1, <2>6 DEF Subscription
  <2>8. Awake(sub.state)
    BY <1>4, <2>1, <2>7 DEF StrandedInv, NothingStranded, Awake, Pending
  <2> QED
    BY <1>1, <1>2, <1>8, <2>5, <2>7, <2>8 DEF edited, Subscription
<1>9. CASE sub.status # "paused" /\ NeedsBootstrap(latest)
  BY <1>1, <1>6, <1>9
<1> QED
  BY <1>7, <1>8, <1>9

\* Who ends the run in flight leaves an active row awake.
LEMMA EndsAwake ==
  ASSUME TypeInv, RunEnds
  PROVE  sub.status = "active" => Awake(sub'.state)
<1>1. sub \in Subscription
  BY DEF TypeInv, TypeOK
<1>2. \/ sub' = [sub EXCEPT
             !.state = IF sub.status = "active" THEN "failed" ELSE "waiting",
             !.wait = None, !.age = None]
      \/ sub' = IF sub.status = "active"
                THEN [sub EXCEPT !.state = "pending", !.wait = 0, !.age = 0]
                ELSE [sub EXCEPT !.state = "waiting", !.wait = None,
                                 !.age = None]
  BY Zenon DEF RunEnds, FailRun, CancelRun
<1> QED
  BY <1>1, <1>2 DEF Awake, Subscription

\* Recovery finds the events of an interrupted run and fails them: a row that
\* was analyzing is failed.
LEMMA StartAwake ==
  ASSUME TypeInv, FlightInv, BatchInv, Start, sub.status = "active",
         Awake(sub.state)
  PROVE  Awake(sub'.state)
<1>1. sub \in Subscription
  BY DEF TypeInv, TypeOK
<1>2. sub.state = "analyzing" => HasEvent(event', "failed")
  <2>1. SUFFICES ASSUME sub.state = "analyzing"
                 PROVE  HasEvent(event', "failed")
    OBVIOUS
  <2>2. PICK r \in Running : TRUE
    BY <2>1 DEF FlightInv, OneRunInFlight
  <2>3. /\ runs[r].after \in MessageIds
        /\ event[runs[r].after] = "processing" /\ eventRun[runs[r].after] = r
    BY <2>2 DEF BatchInv, Running
  <2>4. event'[runs[r].after] = "failed"
    BY <2>2, <2>3, StartValues
  <2> QED
    BY <2>3, <2>4 DEF HasEvent
<1>3. sub' = IF HasEvent(event', "failed")
             THEN [sub EXCEPT !.state = "failed", !.wait = None, !.age = None]
             ELSE IF sub.state = "analyzing" THEN [sub EXCEPT !.state = "waiting"]
             ELSE sub
  BY Zenon DEF Start
<1> QED
  BY <1>1, <1>2, <1>3 DEF Awake, Subscription

\* A completed row with pending events is pending.
LEMMA CompleteAwake ==
  ASSUME TypeInv, Complete, NEW p \in MessageIds, event'[p] = "pending"
  PROVE  Awake(sub'.state)
<1>1. sub \in Subscription /\ sub' = CompletedRow(event')
  BY Zenon DEF TypeInv, TypeOK, Complete
<1>2. HasEvent(event', "pending")
  BY DEF HasEvent
<1>3. sub'.state = "pending"
  BY <1>1, <1>2, Zenon DEF CompletedRow, Subscription
<1> QED
  BY <1>3 DEF Awake

LEMMA StrandedStep ==
  ASSUME TypeInv, FlightInv, BatchInv, StrandedInv, [Next]_vars
  PROVE  StrandedInv'
<1>1. \A m \in MessageIds :
         event'[m] # "none" => m \in Inbound' /\ sub'.status # "none"
  BY EventsInbound
<1> SUFFICES ASSUME sub'.status = "active", NEW p \in MessageIds,
                    event'[p] = "pending", p > sub'.mark
             PROVE  Awake(sub'.state)
    BY <1>1 DEF StrandedInv, NothingStranded, Awake, Pending
<1>2. sub \in Subscription /\ event \in [MessageIds -> EventStatus]
  BY DEF TypeInv, TypeOK
<1>3. sub.status = "active" /\ event[p] = "pending" /\ p > sub.mark
        => Awake(sub.state)
  BY DEF StrandedInv, NothingStranded, Awake, Pending
<1>4. CASE Arrival
  <2>1. \/ event' = event /\ sub' = sub
        \/ sub' = Enqueued(sub, event', FALSE)
    BY <1>4, Zenon DEF Arrival, ReceiveMessage, MergeMessage
  <2>2. CASE event' = event /\ sub' = sub
    BY <1>3, <2>2
  <2>3. CASE sub' = Enqueued(sub, event', FALSE)
    <3>1. sub'.state \in {"pending", "failed", "configuration_required"}
      BY <1>2, <2>3, EnqueuedKeeps, Zenon
    <3> QED
      BY <3>1 DEF Awake
  <2> QED
    BY <2>1, <2>2, <2>3
<1>5. ASSUME NEW scope \in Scopes, NEW pace \in Paces, Upsert(scope, pace)
      PROVE  Awake(sub'.state)
  BY <1>5, UpsertAwake
<1>6. CASE Pause
  BY <1>6, PauseValues
<1>7. CASE Retry
  BY <1>7, RetryValues DEF Awake
<1>8. CASE ClaimGivenUp
  <2>1. /\ event' = event
        /\ \/ sub' = sub
           \/ Pending = {}
           \/ sub' = [sub EXCEPT !.state = "failed", !.wait = None,
                                 !.age = None]
    BY <1>8, Zenon DEF ClaimGivenUp
  <2>2. p \in Pending
    BY <2>1 DEF Pending
  <2> QED
    BY <1>2, <1>3, <2>1, <2>2 DEF Awake, Subscription
<1>9. CASE Claim
  BY <1>9, ClaimValues DEF Awake
<1>10. CASE RunGoesOn
  BY <1>3, <1>10, GoesOnValues DEF Progress, Lease
<1>11. CASE RunEnds
  BY <1>11, EndsValues, EndsAwake DEF Lease
<1>12. CASE Complete
  BY <1>12, CompleteAwake
<1>13. CASE Start
  <2>1. event[p] = "pending" /\ p > sub.mark /\ sub.status = "active"
    BY <1>2, <1>13, StartValues DEF Progress, Lease
  <2> QED
    BY <1>3, <1>13, <2>1, StartAwake
<1>14. CASE Dispatch \/ Stop \/ Stopped \/ Crash \/ Tick \/ NewDay
            \/ UNCHANGED vars
  BY <1>3, <1>14, OtherValues DEF Progress, Lease
<1> QED
  BY <1>4, <1>5, <1>6, <1>7, <1>8, <1>9, <1>10, <1>11, <1>12, <1>13, <1>14,
     StepKinds

\* An event that waits on an active subscription is picked up, or the user is
\* told what stops it.
THEOREM NoneStranded == Spec => []NothingStranded
<1> DEFINE Inv == TypeInv /\ FlightInv /\ BatchInv /\ StrandedInv
<1>1. Inv /\ [Next]_vars => Inv'
  BY TypeStep, FlightStep, BatchStep, StrandedStep
<1>2. Init => Inv
  <2>1. Init => StrandedInv
    BY DEF Init, StrandedInv, NothingStranded, Pending
  <2> QED
    BY <2>1, TypeInit, FlightInit, BatchInit
<1>3. Inv => NothingStranded
  BY DEF StrandedInv
<1> QED
  BY <1>1, <1>2, <1>3, PTL DEF Spec

-----------------------------------------------------------------------------
(* Consent.                                                                *)

\* Runs are claimed under revisions that exist, and a run in flight whose
\* revision is still current is in flight under the current scope.
LeaseInv ==
    /\ \A r \in 1..lastRun : runs[r].rev <= sub.rev
    /\ InFlight /\ runs[lastRun].rev = sub.rev => runs[lastRun].scope = sub.scope

\* A step that starts no run and changes the scope only with the revision.
LEMMA LeaseKept ==
  ASSUME TypeInv, TypeInv', LeaseInv, lastRun' = lastRun,
         \A r \in RunIds :
            runs'[r].rev = runs[r].rev /\ runs'[r].scope = runs[r].scope,
         \/ sub'.rev = sub.rev /\ sub'.scope = sub.scope
         \/ sub'.rev = sub.rev + 1,
         InFlight' => InFlight
  PROVE  LeaseInv'
<1>1. /\ lastRun \in 0..MaxRuns /\ MaxRuns \in Nat /\ sub.rev \in Nat
      /\ \A r \in RunIds : runs[r].rev \in Nat
      /\ InFlight => lastRun \in 1..lastRun /\ lastRun \in RunIds
  <2>1. /\ lastRun \in 0..MaxRuns /\ MaxRuns \in Nat /\ sub.rev \in Nat
        /\ \A r \in RunIds : runs[r].rev \in Nat
    <3>1. /\ lastRun \in 0..MaxRuns /\ runs \in [RunIds -> Run]
          /\ sub.rev \in 0..MaxRevision
      BY Zenon DEF TypeInv, TypeOK, Subscription
    <3>2. \A r \in RunIds : runs[r].rev \in 0..MaxRevision
      BY <3>1, Zenon DEF Run
    <3> QED
      BY <3>1, <3>2, BoundsAssumption
  <2>2. InFlight => lastRun \in RunIds
    BY InFlightRun
  <2> QED
    BY <2>1, <2>2 DEF RunIds
<1>2. \A r \in 1..lastRun : r \in RunIds /\ runs[r].rev <= sub.rev
  BY <1>1 DEF LeaseInv, RunIds
<1>3. \A r \in 1..lastRun' : runs'[r].rev <= sub'.rev
  BY <1>1, <1>2
<1>4. ASSUME InFlight', runs'[lastRun'].rev = sub'.rev
      PROVE  runs'[lastRun'].scope = sub'.scope
  <2>1. InFlight /\ lastRun \in RunIds /\ lastRun \in 1..lastRun
    BY <1>1, <1>4
  <2>2. runs[lastRun].rev = sub'.rev /\ runs[lastRun].rev <= sub.rev
    BY <1>2, <1>4, <2>1
  <2>3. sub'.rev = sub.rev /\ sub'.scope = sub.scope
    BY <1>1, <2>1, <2>2
  <2> QED
    BY <2>1, <2>2, <2>3 DEF LeaseInv
<1> QED
  BY <1>3, <1>4, Zenon DEF LeaseInv

LEMMA LeaseStep ==
  ASSUME TypeInv, TypeInv', LeaseInv, [Next]_vars
  PROVE  LeaseInv'
<1> USE DEF NoRunChange
<1>1. /\ runs \in [RunIds -> Run] /\ lastRun \in 0..MaxRuns /\ MaxRuns \in Nat
      /\ InFlight => lastRun \in RunIds
      /\ sub.rev \in 0..MaxRevision /\ MaxRevision \in Nat
  BY BoundsAssumption, InFlightRun DEF TypeInv, TypeOK, Subscription
<1>2. CASE /\ UNCHANGED <<runs, lastRun>>
           /\ InFlight' => InFlight
           /\ \/ UNCHANGED Lease
              \/ sub'.rev = sub.rev + 1
  <2>1. \/ sub'.rev = sub.rev /\ sub'.scope = sub.scope
        \/ sub'.rev = sub.rev + 1
    BY <1>2 DEF Lease
  <2>2. /\ lastRun' = lastRun
        /\ InFlight' => InFlight
        /\ \A r \in RunIds :
              runs'[r].rev = runs[r].rev /\ runs'[r].scope = runs[r].scope
    BY <1>2
  <2> QED
    BY <2>1, <2>2, LeaseKept, Zenon
<1>3. CASE Arrival
  BY <1>2, <1>3, ReceiveValues DEF InFlight
<1>4. ASSUME NEW scope \in Scopes, NEW pace \in Paces, Upsert(scope, pace)
      PROVE  LeaseInv'
  BY <1>2, <1>4, UpsertValues DEF InFlight
<1>5. CASE Pause
  BY <1>2, <1>5, PauseValues DEF InFlight
<1>6. CASE Retry
  <2>1. \A r \in RunIds :
           runs'[r].rev = runs[r].rev /\ runs'[r].scope = runs[r].scope
    BY <1>1, <1>6, RetryValues DEF Run
  <2>2. InFlight' => InFlight
    BY <1>6, RetryValues DEF InFlight
  <2> QED
    BY <1>6, <2>1, <2>2, RetryValues, LeaseKept
<1>7. CASE ClaimGivenUp
  BY <1>2, <1>7, GivenUpValues DEF InFlight, IdleTask
<1>8. CASE Claim
  <2>1. PICK after \in MessageIds :
          runs' = [runs EXCEPT ![lastRun + 1] =
                [status |-> "running", rev |-> sub.rev,
                 before |-> sub.mark, after |-> after, resp |-> "",
                 ctx |-> Selected(after), scope |-> sub.scope]]
    BY <1>8, ClaimValues, Zenon
  <2>2. lastRun' = lastRun + 1 /\ lastRun + 1 \in RunIds /\ UNCHANGED Lease
    BY <1>8, ClaimValues
  <2>3. \A r \in 1..lastRun : runs'[r] = runs[r]
    <3>1. \A r \in 1..lastRun : r \in RunIds /\ r # lastRun + 1
      BY <1>1 DEF RunIds
    <3> QED
      BY <1>1, <2>1, <3>1
  <2>4. /\ runs'[lastRun + 1].rev = sub.rev
        /\ runs'[lastRun + 1].scope = sub.scope
    BY <1>1, <2>1, <2>2
  <2>5. sub'.rev = sub.rev /\ sub'.scope = sub.scope
    BY <2>2 DEF Lease
  <2>6. \A r \in 1..lastRun' : runs'[r].rev <= sub'.rev
    <3>1. \A r \in 1..lastRun : runs'[r].rev <= sub'.rev
      BY <2>3, <2>5 DEF LeaseInv
    <3>2. runs'[lastRun + 1].rev <= sub'.rev
      BY <1>1, <2>4, <2>5
    <3> QED
      BY <1>1, <2>2, <3>1, <3>2
  <2> QED
    BY <2>2, <2>4, <2>5, <2>6, Zenon DEF LeaseInv
<1>9. ASSUME NEW value, lastRun \in RunIds, lastRun' = lastRun,
             \/ runs' = runs
             \/ runs' = [runs EXCEPT ![lastRun].status = value]
             \/ runs' = [runs EXCEPT ![lastRun].resp = value],
             UNCHANGED Lease, InFlight' => InFlight
      PROVE  LeaseInv'
  <2>1. ASSUME NEW r \in RunIds
        PROVE  runs'[r].rev = runs[r].rev /\ runs'[r].scope = runs[r].scope
    <3>1. CASE runs' = runs
      BY <3>1
    <3>2. CASE runs' = [runs EXCEPT ![lastRun].status = value]
      <4>1. /\ r # lastRun => runs'[r] = runs[r]
            /\ r = lastRun => runs'[r] = [runs[r] EXCEPT !.status = value]
        BY <1>1, <1>9, <3>2, Zenon
      <4>2. runs[r] \in Run
        BY <1>1
      <4> QED
        BY <4>1, <4>2, Zenon DEF Run
    <3>3. CASE runs' = [runs EXCEPT ![lastRun].resp = value]
      BY <1>1, <1>9, <3>3, Zenon DEF Run
    <3> QED
      BY <1>9, <3>1, <3>2, <3>3
  <2> QED
    BY <1>9, <2>1, LeaseKept DEF Lease
<1>10. CASE RunGoesOn
  BY <1>1, <1>9, <1>10, GoesOnValues
<1>11. CASE RunEnds
  <2>1. ~InFlight'
    BY <1>11, EndsValues DEF InFlight, IdleTask
  <2> QED
    BY <1>9, <1>11, <2>1, EndsValues
<1>12. CASE Complete
  <2>1. ~InFlight'
    BY <1>12, CompleteValues DEF InFlight, IdleTask
  <2> QED
    BY <1>9, <1>12, <2>1, CompleteValues
<1>13. CASE Start
  <2>1. \A r \in RunIds :
           runs'[r].rev = runs[r].rev /\ runs'[r].scope = runs[r].scope
    BY <1>13, StartKeeps
  <2>2. InFlight' => InFlight
    BY <1>13, StartValues DEF InFlight
  <2> QED
    BY <1>13, <2>1, <2>2, StartValues, LeaseKept DEF Lease
<1>14. CASE Dispatch \/ Stop \/ Stopped \/ Crash \/ Tick \/ NewDay \/ UNCHANGED vars
  <2>1. InFlight' => InFlight
    BY <1>14, OtherValues DEF InFlight, IdleTask
  <2> QED
    BY <1>2, <1>14, <2>1, OtherValues
<1> QED
  BY <1>3, <1>4, <1>5, <1>6, <1>7, <1>8, <1>10, <1>11, <1>12, <1>13, <1>14, StepKinds

\* A request leaves only in a step of the run in flight, which has compared its
\* lease in the same commit; an artifact is written only under the lease.
LEMMA ConsentOfStep ==
  ASSUME TypeInv, FlightInv, LeaseInv, [Next]_vars
  PROVE  ConsentStep
<1> USE DEF NoRunChange
<1>1. /\ runs \in [RunIds -> Run]
      /\ InFlight => lastRun \in RunIds
      /\ lastRun \in 0..MaxRuns
  BY InFlightRun DEF TypeInv, TypeOK
<1>2. CASE UNCHANGED <<artifacts, runs>>
  BY <1>2 DEF ConsentStep
<1>3. CASE /\ artifacts' = artifacts
           /\ \A r \in RunIds : runs'[r].resp = "creating" => runs[r].resp = "creating"
  BY <1>3 DEF ConsentStep
<1>4. CASE Retry
  <2>1. \A r \in RunIds : runs'[r].resp = "creating" => runs[r].resp = "creating"
    BY <1>1, <1>4, RetryValues DEF Run
  <2> QED
    BY <1>3, <1>4, <2>1, RetryValues
<1>5. CASE Claim
  <2>1. PICK after \in MessageIds :
          runs' = [runs EXCEPT ![lastRun + 1] =
                [status |-> "running", rev |-> sub.rev,
                 before |-> sub.mark, after |-> after, resp |-> "",
                 ctx |-> Selected(after), scope |-> sub.scope]]
    BY <1>5, ClaimValues, Zenon
  <2>2. lastRun + 1 \in RunIds /\ artifacts' = artifacts
    BY <1>5, ClaimValues
  <2>3. \A r \in RunIds : runs'[r].resp = "creating" => runs[r].resp = "creating"
    BY <1>1, <2>1, <2>2
  <2> QED
    BY <1>3, <2>2, <2>3
<1>6. CASE RunGoesOn
  <2>1. /\ InFlight /\ lastRun \in RunIds /\ artifacts' = artifacts
        /\ \/ runs' = runs
           \/ \E resp \in {"creating", "uncertain", "response"} :
                 /\ resp = "creating" => Authorized
                 /\ runs' = [runs EXCEPT ![lastRun].resp = resp]
    BY <1>1, <1>6, GoesOnValues
  <2>2. ASSUME NEW r \in RunIds, NEW resp \in {"creating", "uncertain", "response"},
               resp = "creating" => Authorized,
               runs' = [runs EXCEPT ![lastRun].resp = resp],
               runs[r].resp # "creating", runs'[r].resp = "creating"
        PROVE  /\ sub.status = "active"
               /\ sub.rev = runs[r].rev
               /\ sub.scope = runs[r].scope
    <3>1. r = lastRun
      BY <1>1, <2>1, <2>2, Zenon DEF Run
    <3>2. runs'[lastRun].resp = resp
      BY <1>1, <2>1, <2>2, ZenonT(40) DEF Run
    <3>3. Authorized
      BY <2>2, <3>1, <3>2
    <3> QED
      BY <2>1, <3>1, <3>3, Zenon DEF Authorized, SameLease, LeaseInv
  <2> QED
    BY <2>1, <2>2, Zenon DEF ConsentStep
<1>7. ASSUME NEW status, lastRun \in RunIds,
             runs' = [runs EXCEPT ![lastRun].status = status]
      PROVE  \A r \in RunIds : runs'[r].resp = "creating" => runs[r].resp = "creating"
  BY <1>1, <1>7, Zenon DEF Run
<1>8. CASE RunEnds
  BY <1>3, <1>7, <1>8, EndsValues
<1>9. CASE Complete
  <2>1. \A r \in RunIds : runs'[r].resp = "creating" => runs[r].resp = "creating"
    BY <1>7, <1>9, CompleteValues
  <2>2. sub.status = "active" /\ sub.rev = runs[lastRun].rev
    BY <1>9, CompleteValues DEF SameLease
  <2> QED
    BY <2>1, <2>2 DEF ConsentStep
<1>10. CASE Start
  <2>1. \A r \in RunIds : runs'[r].resp = "creating" => runs[r].resp = "creating"
    BY <1>1, <1>10, StartValues DEF Run
  <2> QED
    BY <1>3, <1>10, <2>1, StartValues
<1> QED
  BY <1>2, <1>4, <1>5, <1>6, <1>8, <1>9, <1>10, StepKinds, ReceiveValues,
     UpsertValues, PauseValues, GivenUpValues, OtherValues

\* Nothing is sent and nothing is written without the consent in force.
THEOREM Consent == Spec => ConsentHeld
<1>1. TypeInv /\ FlightInv /\ LeaseInv /\ [Next]_vars
        => (TypeInv /\ FlightInv /\ LeaseInv)'
  BY TypeStep, FlightStep, LeaseStep
<1>2. Init => TypeInv /\ FlightInv /\ LeaseInv
  <2>1. Init => LeaseInv
    BY DEF Init, LeaseInv, InFlight, IdleTask
  <2> QED
    BY <2>1, TypeInit, FlightInit
<1>3. TypeInv /\ FlightInv /\ LeaseInv /\ [Next]_vars => [ConsentStep]_vars
  BY ConsentOfStep
<1> QED
  BY <1>1, <1>2, <1>3, PTL DEF Spec, ConsentHeld
-----------------------------------------------------------------------------
(* The deadline.                                                           *)

\* A pending row has its times, and a run whose lease still holds can leave a due
\* time behind only on a row that is pending again: on any other row an edit, which
\* ends the lease, left it.
DueInv ==
    /\ sub.state = "pending" => sub.age # None /\ sub.wait # None
    /\ InFlight /\ SameLease => sub.state = "pending" \/ sub.wait = None

\* A row with a new event that is pending is due at once, or before the longest
\* wait of its pace is over, and it is no younger than it was.
LEMMA EnqueuedDue ==
  ASSUME NEW s \in Subscription, NEW e, NEW immediate \in BOOLEAN,
         NEW t, t = Enqueued(s, e, immediate)
  PROVE  /\ t.state = "pending" =>
                /\ t.age # None /\ t.wait # None
                /\ t.wait = 0 \/ t.wait + t.age <= t.pace.maxWait
                /\ s.age # None => t.age = s.age
                /\ immediate => t.wait = 0
         /\ t.state # "pending" => t.wait = None
<1> DEFINE age == IF s.age = None THEN 0 ELSE s.age
           wait == IF immediate THEN 0 ELSE DueIn(s.pace, age)
<1>1. age \in 0..MaxAge /\ s.pace \in Paces
  BY SettingsAssumption DEF Subscription, None
<1>2. Enqueued(s, e, immediate) =
        IF HasEvent(e, "failed") \/ s.state = "failed"
        THEN [s EXCEPT !.age = age, !.wait = None, !.state = "failed"]
        ELSE IF configured
        THEN [s EXCEPT !.age = age, !.state = "pending", !.wait = wait]
        ELSE [s EXCEPT !.age = age, !.wait = None,
                       !.state = "configuration_required"]
  BY Zenon DEF Enqueued
<1>3. s.age # None => age = s.age
  OBVIOUS
<1>4. immediate => wait = 0
  OBVIOUS
<1> HIDE DEF age
<1>5. /\ age # None /\ wait # None
      /\ wait = 0 \/ wait + age <= s.pace.maxWait
  BY <1>1, DueInType, Times, SettingsAssumption DEF None
<1> HIDE DEF wait
<1>6. \/ /\ t.state = "pending" /\ t.age = age /\ t.wait = wait
         /\ t.pace = s.pace
      \/ t.state # "pending" /\ t.wait = None
  BY <1>2, Zenon DEF Subscription
<1> QED
  BY <1>3, <1>4, <1>5, <1>6

\* After an upsert a pending row is due at once, or it was pending and keeps its
\* times whatever the new pace is.
LEMMA UpsertDue ==
  ASSUME TypeOK, NEW scope \in Scopes, NEW pace \in Paces, Upsert(scope, pace),
         sub'.state = "pending"
  PROVE  \/ sub'.wait = 0 /\ sub'.age # None
         \/ /\ sub.state = "pending"
            /\ sub'.wait = sub.wait /\ sub'.age = sub.age
<1> DEFINE edited == [sub EXCEPT
             !.status = "active", !.rev = @ + 1, !.scope = scope,
             !.pace = pace,
             !.state = IF sub.status # "none" THEN @
                       ELSE IF configured THEN "waiting"
                       ELSE "configuration_required"]
           started(e, latest) == Bootstrapped(edited, e, latest)
           Due(t) == t.state = "pending" =>
                        \/ t.wait = 0 /\ t.age # None
                        \/ /\ sub.state = "pending"
                           /\ t.wait = sub.wait /\ t.age = sub.age
<1>1. PICK latest \in 0..Len(msgs) :
        sub' = IF sub.status = "paused"
               THEN Resumed(started(event', latest), event')
               ELSE started(event', latest)
  BY Zenon DEF Upsert
<1>2. edited \in Subscription
  <2>1. sub.rev + 1 \in 0..MaxRevision
    BY BoundsAssumption, SMTT(30) DEF Upsert, TypeOK, Subscription
  <2> QED
    BY <2>1, Zenon DEF TypeOK, Subscription
<1>3. Due(edited)
  <2>1. /\ edited.wait = sub.wait /\ edited.age = sub.age
        /\ edited.state = "pending" => sub.state = "pending"
    BY Zenon DEF TypeOK, Subscription
  <2> QED
    BY <2>1, Zenon
<1> HIDE DEF edited
<1>4. started(event', latest) \in Subscription
  BY <1>2, EnqueuedType, Zenon DEF Bootstrapped, Subscription
<1>5. Due(started(event', latest))
  <2>1. Due(Enqueued(edited, event', TRUE))
    BY <1>2, EnqueuedDue, Zenon
  <2>2. Due([edited EXCEPT !.state = "waiting"])
    BY <1>2, Zenon DEF Subscription
  <2> QED
    BY <1>3, <2>1, <2>2, Zenon DEF Bootstrapped
<1> HIDE DEF started
<1>6. Due(Resumed(started(event', latest), event'))
  BY <1>4, <1>5, SettingsAssumption DEF Resumed, Subscription, None
<1> QED
  BY <1>1, <1>5, <1>6

\* A completed run leaves a pending row its due time, or makes it due at once.
LEMMA CompletedDue ==
  ASSUME sub \in Subscription, NEW e, NEW t, t = CompletedRow(e)
  PROVE  t.state = "pending" =>
            /\ t.age = IF sub.age = None THEN 0 ELSE sub.age
            /\ t.wait = IF sub.wait = None THEN 0 ELSE sub.wait
BY Zenon DEF CompletedRow, Subscription

\* Time brings the due time of a pending batch nearer as fast as the batch ages.
LEMMA TickDue ==
  ASSUME TypeOK, Tick, sub.age # None, sub.wait # None
  PROVE  /\ sub'.state = sub.state
         /\ sub'.age # None /\ sub'.wait # None /\ sub'.age >= sub.age
         /\ sub'.wait = 0 \/ sub'.wait + sub'.age <= sub.wait + sub.age
<1>1. /\ sub'.state = sub.state
      /\ sub'.wait = IF sub.wait > 0 THEN sub.wait - 1 ELSE sub.wait
      /\ sub'.age = IF sub.age # None /\ sub.age < MaxAge
                    THEN sub.age + 1 ELSE sub.age
  BY Zenon DEF Tick, TypeOK, Subscription
<1>2. sub.wait \in -1..MaxAge /\ sub.age \in -1..MaxAge
  BY Zenon DEF TypeOK, Subscription
<1> QED
  BY <1>1, <1>2, SettingsAssumption DEF None

\* Every step keeps what the rows know of their times, and what it does to the due
\* time of a batch keeps the deadline.
LEMMA DueStep ==
  ASSUME TypeInv, FlightInv, LeaseInv, DueInv, [Next]_vars
  PROVE  DueInv' /\ DeadlineStep
<1>1. /\ sub \in Subscription /\ runs \in [RunIds -> Run]
      /\ TypeOK /\ sub.rev \in Nat
      /\ sub.wait \in -1..MaxAge /\ sub.age \in -1..MaxAge
  <2>1. /\ sub \in Subscription /\ runs \in [RunIds -> Run] /\ TypeOK
    BY DEF TypeInv, TypeOK
  <2>2. /\ sub.rev \in 0..MaxRevision
        /\ sub.wait \in -1..MaxAge /\ sub.age \in -1..MaxAge
    BY <2>1, Zenon DEF Subscription
  <2> QED
    BY <2>1, <2>2, BoundsAssumption
<1>2. ASSUME sub'.state # "pending", sub'.wait = None
      PROVE  DueInv' /\ DeadlineStep
  BY <1>2 DEF DueInv, DeadlineStep
<1>3. ASSUME sub'.wait = 0, sub'.age # None, InFlight' => sub'.state = "pending"
      PROVE  DueInv' /\ DeadlineStep
  BY <1>3, Times DEF DueInv, DeadlineStep, None
<1>4. ASSUME sub'.state = sub.state, sub'.wait = sub.wait, sub'.age = sub.age,
             InFlight' /\ SameLease' => InFlight /\ SameLease
      PROVE  DueInv' /\ DeadlineStep
  BY <1>1, <1>4, SettingsAssumption DEF DueInv, DeadlineStep, None
<1>5. ASSUME runs' = runs, lastRun' = lastRun, UNCHANGED Lease
      PROVE  SameLease' => SameLease
  BY <1>5, Zenon DEF SameLease, Lease
<1>6. CASE Arrival
  <2>1. UNCHANGED <<Lease, task, runs, lastRun>>
    BY <1>6, ReceiveValues DEF NoRunChange
  <2>2. InFlight' /\ SameLease' => InFlight /\ SameLease
    BY <1>5, <2>1 DEF InFlight
  <2>3. CASE sub' = sub
    BY <1>4, <2>2, <2>3
  <2>4. CASE sub' = Enqueued(sub, event', FALSE)
    <3>1. /\ sub'.state = "pending" =>
                /\ sub'.age # None /\ sub'.wait # None
                /\ sub'.wait = 0 \/ sub'.wait + sub'.age <= sub'.pace.maxWait
                /\ sub.age # None => sub'.age = sub.age
          /\ sub'.state # "pending" => sub'.wait = None
      BY <1>1, <2>4, EnqueuedDue
    <3>2. sub'.state = "pending" /\ sub.state = "pending" => sub'.age >= sub.age
      BY <1>1, <3>1, SettingsAssumption DEF DueInv, None
    <3> QED
      BY <3>1, <3>2 DEF DueInv, DeadlineStep
  <2> QED
    BY <1>6, <2>3, <2>4, Zenon DEF Arrival, ReceiveMessage, MergeMessage
<1>7. ASSUME NEW scope \in Scopes, NEW pace \in Paces, Upsert(scope, pace)
      PROVE  DueInv' /\ DeadlineStep
  <2>1. UNCHANGED task /\ NoRunChange /\ sub'.rev = sub.rev + 1
    BY <1>7, UpsertValues
  <2>2. ~ (InFlight' /\ SameLease')
    <3>1. InFlight => lastRun \in 1..lastRun
      BY InFlightRun, BoundsAssumption DEF RunIds
    <3>2. InFlight => runs[lastRun].rev <= sub.rev /\ runs[lastRun].rev \in 0..MaxRevision
      BY <1>1, <3>1, InFlightRun DEF LeaseInv, Run
    <3>3. InFlight => sub'.rev # runs[lastRun].rev
      BY <1>1, <2>1, <3>2, BoundsAssumption
    <3> QED
      BY <2>1, <3>3 DEF InFlight, SameLease, NoRunChange
  <2>3. CASE sub'.state # "pending"
    BY <2>2, <2>3 DEF DueInv, DeadlineStep
  <2>4. CASE sub'.state = "pending"
    <3>1. \/ sub'.wait = 0 /\ sub'.age # None
          \/ /\ sub.state = "pending"
             /\ sub'.wait = sub.wait /\ sub'.age = sub.age
      BY <1>1, <1>7, <2>4, UpsertDue
    <3>2. CASE sub'.wait = 0 /\ sub'.age # None
      BY <1>3, <2>4, <3>2
    <3>3. CASE /\ sub.state = "pending"
               /\ sub'.wait = sub.wait /\ sub'.age = sub.age
      BY <1>4, <2>2, <2>4, <3>3
    <3> QED
      BY <3>1, <3>2, <3>3
  <2> QED
    BY <2>3, <2>4
<1>8. CASE Pause
  <2>1. sub'.state = "waiting" /\ sub'.wait = None
    BY <1>1, <1>8, Zenon DEF Pause, Subscription
  <2> QED
    BY <1>2, <2>1
<1>9. CASE Retry
  <2>1. \/ sub'.state = "pending" /\ sub'.wait = 0 /\ sub'.age = 0
        \/ sub'.state = "configuration_required" /\ sub'.wait = None
    BY <1>1, <1>9, Zenon DEF Retry, Subscription
  <2> QED
    BY <1>2, <1>3, <2>1, Times
<1>10. CASE ClaimGivenUp
  <2>1. ~InFlight'
    BY <1>10 DEF ClaimGivenUp, InFlight, IdleTask
  <2>2. \/ sub' = sub
        \/ sub'.state # "pending" /\ sub'.wait = None
    BY <1>1, <1>10, Zenon DEF ClaimGivenUp, Subscription
  <2> QED
    BY <1>2, <1>4, <2>1, <2>2
<1>11. CASE Claim
  <2>1. sub'.state = "analyzing" /\ sub'.wait = None
    BY <1>1, <1>11, Zenon DEF Claim, Subscription
  <2> QED
    BY <1>2, <2>1
<1>12. CASE RunGoesOn
  <2>1. sub'.state = sub.state /\ sub'.wait = sub.wait /\ sub'.age = sub.age
    BY <1>1, <1>12, Zenon DEF RunGoesOn, Subscription
  <2>2. /\ UNCHANGED <<Lease, lastRun>> /\ InFlight
        /\ \/ runs' = runs
           \/ \E resp \in {"creating", "uncertain", "response"} :
                 runs' = [runs EXCEPT ![lastRun].resp = resp]
    BY <1>12, GoesOnValues, Zenon
  <2>3. runs'[lastRun].rev = runs[lastRun].rev
    BY <1>1, <2>2, InFlightRun, Zenon DEF Run
  <2>4. SameLease' => SameLease
    BY <2>2, <2>3, Zenon DEF SameLease, Lease
  <2> QED
    BY <1>4, <2>1, <2>2, <2>4
<1>13. CASE RunEnds
  <2>1. ~InFlight'
    BY <1>13 DEF RunEnds, FailRun, CancelRun, InFlight, IdleTask
  <2>2. \/ sub'.state # "pending" /\ sub'.wait = None
        \/ sub'.wait = 0 /\ sub'.age = 0
    BY <1>1, <1>13, Zenon DEF RunEnds, FailRun, CancelRun, Subscription
  <2> QED
    BY <1>2, <1>3, <2>1, <2>2, Times
<1>14. CASE Complete
  <2>1. /\ InFlight /\ SameLease /\ ~InFlight'
        /\ sub'.state \in {"pending", "completed"}
    BY <1>14, CompleteValues DEF InFlight, IdleTask
  <2>2. sub' = CompletedRow(event')
    BY <1>14, Zenon DEF Complete
  <2>3. CASE sub'.state # "pending"
    BY <2>1, <2>3 DEF DueInv, DeadlineStep
  <2>4. CASE sub'.state = "pending"
    <3>1. /\ sub'.age = IF sub.age = None THEN 0 ELSE sub.age
          /\ sub'.wait = IF sub.wait = None THEN 0 ELSE sub.wait
      BY <1>1, <2>2, <2>4, CompletedDue
    <3>2. CASE sub.wait = None
      BY <1>3, <2>1, <3>1, <3>2, Times
    <3>3. CASE sub.wait # None
      <4>1. sub.state = "pending" /\ sub.age # None
        BY <2>1, <3>3 DEF DueInv
      <4> QED
        BY <1>4, <2>1, <2>4, <3>1, <3>3, <4>1
    <3> QED
      BY <3>2, <3>3
  <2> QED
    BY <2>3, <2>4
<1>15. CASE Start
  <2>1. ~InFlight'
    BY <1>15, StartValues DEF FlightInv, InFlight
  <2>2. \/ sub' = sub
        \/ sub'.state # "pending"
    BY <1>1, <1>15, Zenon DEF Start, Subscription
  <2>3. ASSUME sub'.state # "pending" PROVE DueInv' /\ DeadlineStep
    BY <2>1, <2>3 DEF DueInv, DeadlineStep
  <2> QED
    BY <1>4, <2>1, <2>2, <2>3
<1>16. CASE Dispatch \/ Stop \/ Stopped \/ Crash \/ Tick \/ NewDay \/ UNCHANGED vars
  <2>1. /\ UNCHANGED <<Lease, sub.state>> /\ runs' = runs /\ lastRun' = lastRun
        /\ InFlight' => InFlight
    BY <1>16, OtherValues DEF NoRunChange, InFlight, IdleTask
  <2>2. InFlight' /\ SameLease' => InFlight /\ SameLease
    BY <1>5, <2>1
  <2>3. CASE Tick
    <3>1. CASE sub.wait # None /\ sub.age # None
      <4>1. /\ sub'.age # None /\ sub'.wait # None /\ sub'.age >= sub.age
            /\ sub'.wait = 0 \/ sub'.wait + sub'.age <= sub.wait + sub.age
        BY <1>1, <2>3, <3>1, TickDue
      <4>2. InFlight' /\ SameLease' => sub.state = "pending"
        BY <2>2, <3>1 DEF DueInv
      <4> QED
        BY <2>1, <4>1, <4>2 DEF DueInv, DeadlineStep
    <3>2. CASE sub.wait = None \/ sub.age = None
      <4>1. sub.state # "pending"
        BY <3>2 DEF DueInv
      <4>2. sub.wait = None => sub'.wait = None
        <5>1. sub'.wait = IF sub.wait > 0 THEN sub.wait - 1 ELSE sub.wait
          BY <1>1, <2>3, Zenon DEF Tick, Subscription
        <5> QED
          BY <5>1 DEF None
      <4> QED
        BY <2>1, <2>2, <4>1, <4>2 DEF DueInv, DeadlineStep
    <3> QED
      BY <3>1, <3>2
  <2>4. CASE Dispatch \/ Stop \/ Stopped \/ Crash \/ NewDay \/ UNCHANGED vars
    <3>1. sub' = sub
      BY <2>4, Zenon DEF Dispatch, Stop, Stopped, Crash, NewDay, vars
    <3> QED
      BY <1>4, <2>2, <3>1
  <2> QED
    BY <1>16, <2>3, <2>4
<1> QED
  BY <1>6, <1>7, <1>8, <1>9, <1>10, <1>11, <1>12, <1>13, <1>14, <1>15, <1>16,
     StepKinds

\* However many messages follow it, a batch that waits is due within the longest
\* wait in force when its due time is set, counted from its first message; nothing
\* puts that time off afterwards.
THEOREM Deadline == Spec => HardDeadline
<1> DEFINE Inv == TypeInv /\ FlightInv /\ LeaseInv /\ DueInv
<1>1. Inv /\ [Next]_vars => Inv' /\ [DeadlineStep]_vars
  BY TypeStep, FlightStep, LeaseStep, DueStep
<1>2. Init => Inv
  <2>1. Init => LeaseInv
    BY DEF Init, LeaseInv, InFlight, IdleTask
  <2>2. Init => DueInv
    BY DEF Init, DueInv
  <2> QED
    BY <2>1, <2>2, TypeInit, FlightInit
<1> QED
  BY <1>1, <1>2, PTL DEF Spec, HardDeadline

-----------------------------------------------------------------------------
(* The prompt of a batch.                                                 *)

\* The lengths of the texts, as a function that Sum takes.
Lengths == [m \in 1..Len(msgs) |-> msgs[m].size]

LEMMA LoadIs ==
  ASSUME NEW lo \in Nat \ {0}, NEW hi \in 0..Len(msgs)
  PROVE  Load(lo, hi) = Sum(Lengths, lo..hi)
<1> DEFINE is == lo..hi
           Direct(g) == g = [s \in SUBSET is |-> IF s = {} THEN 0
                                ELSE msgs[Picked(s)].size + g[s \ {Picked(s)}]]
<1>1. Load(lo, hi) = (CHOOSE g : Direct(g))[is]
  BY DEF Load, MapThenSumSet, MapThenFoldSet, Picked
<1>2. \A m \in is : m \in 1..Len(msgs)
  OBVIOUS
<1> HIDE DEF is
<1>3. ASSUME NEW g PROVE Direct(g) <=> Adds(Lengths, SUBSET is, g)
  <2>1. \A s \in SUBSET is : s # {} => Lengths[Picked(s)] = msgs[Picked(s)].size
    BY <1>2 DEF Picked, Lengths
  <2>2. [s \in SUBSET is |-> IF s = {} THEN 0 ELSE msgs[Picked(s)].size + g[s \ {Picked(s)}]]
        = [s \in SUBSET is |-> IF s = {} THEN 0 ELSE Lengths[Picked(s)] + g[s \ {Picked(s)}]]
    BY <2>1
  <2> QED
    BY <2>2 DEF Adds
<1> HIDE DEF Direct
<1>4. (CHOOSE g : Direct(g)) = (CHOOSE g : Adds(Lengths, SUBSET is, g))
  BY <1>3, Zenon
<1>5. Sum(Lengths, is) = (CHOOSE g : Adds(Lengths, SUBSET is, g))[is]
  BY SumIs
<1> QED
  BY <1>1, <1>4, <1>5 DEF is

LEMMA LengthsAre ==
  ASSUME TypeInv
  PROVE  \A k \in 1..Len(msgs) : Lengths[k] = msgs[k].size /\ msgs[k].size \in Nat
<1>1. msgs \in Seq(Message) /\ Sizes \subseteq Nat
  BY SettingsAssumption DEF TypeInv, TypeOK
<1>2. ASSUME NEW k \in 1..Len(msgs)
      PROVE  Lengths[k] = msgs[k].size /\ msgs[k].size \in Nat
  <2>1. msgs[k] \in Message
    BY <1>1
  <2>2. msgs[k].size \in Sizes
    BY <2>1 DEF Message
  <2> QED
    BY <1>1, <2>2 DEF Lengths
<1> QED
  BY <1>2

\* The texts after a message and its own weigh no more than those of a window
\* that holds them.
LEMMA LoadWithout ==
  ASSUME TypeInv, NEW lo \in Nat \ {0}, NEW hi \in 1..Len(msgs), NEW m \in lo..hi
  PROVE  /\ Load(m + 1, hi) \in Nat /\ Load(lo, hi) \in Nat /\ msgs[m].size \in Nat
         /\ Load(m + 1, hi) + msgs[m].size <= Load(lo, hi)
<1>1. Len(msgs) \in Nat
  BY DEF TypeInv, TypeOK
<1>2. \A k \in 1..Len(msgs) : Lengths[k] = msgs[k].size /\ Lengths[k] \in Nat
  BY LengthsAre
<1>3. IsFiniteSet(m..hi) /\ IsFiniteSet(lo..hi) /\ IsFiniteSet((m + 1)..hi)
  <2>1. lo \in Int /\ hi \in Int /\ m \in Int /\ m + 1 \in Int
    BY <1>1
  <2> QED
    BY <2>1, FS_Interval
<1>4. /\ \A k \in lo..hi : k \in 1..Len(msgs)
      /\ m \in m..hi /\ (m..hi) \ {m} = (m + 1)..hi
      /\ m..hi \in SUBSET (lo..hi) /\ (m + 1)..hi \in SUBSET (lo..hi)
      /\ m \in 1..Len(msgs) /\ m \in Nat \ {0} /\ m + 1 \in Nat \ {0}
      /\ hi \in 0..Len(msgs)
  BY <1>1
<1>5. Sum(Lengths, m..hi) <= Sum(Lengths, lo..hi)
  BY <1>2, <1>3, <1>4, SumOfSubset
<1>6. Sum(Lengths, m..hi) = Lengths[m] + Sum(Lengths, (m + 1)..hi)
  <2>1. \A k \in m..hi : Lengths[k] \in Nat
    BY <1>2, <1>4
  <2> QED
    BY <1>3, <1>4, <2>1, SumRemove
<1>7. Sum(Lengths, (m + 1)..hi) \in Nat /\ Sum(Lengths, lo..hi) \in Nat
  BY <1>2, <1>3, <1>4, SumIsNat
<1>8. /\ Load(m + 1, hi) = Sum(Lengths, (m + 1)..hi)
      /\ Load(lo, hi) = Sum(Lengths, lo..hi)
  BY <1>4, LoadIs
<1> QED
  BY <1>2, <1>4, <1>5, <1>6, <1>7, <1>8

\* Above the watermark, the prompt of the batch that ends at after has every
\* pending event with a text.
LEMMA BatchFits ==
  ASSUME TypeInv, BatchInv, NEW after \in MessageIds, IsBatchEnd(after),
         NEW m \in Pending, sub.mark > 0, sub.mark < m, m <= after, msgs[m].size > 0
  PROVE  m \in Selected(after)
<1>1. /\ msgs \in Seq(Message) /\ sub.mark \in Nat /\ MaxChars \in Nat \ {0}
      /\ Sizes \subseteq Nat /\ MaxMessages \in Nat
  BY SettingsAssumption, BoundsAssumption
     DEF TypeInv, TypeOK, Subscription, MessageIds
<1>2. m \in Nat /\ after \in Nat /\ Len(msgs) \in Nat /\ m \in MessageIds
  BY <1>1 DEF MessageIds, Pending
<1>3. after \in 1..Len(msgs)
  <2>1. event[after] = "pending"
    BY DEF IsBatchEnd, Pending
  <2>2. ~(after > Len(msgs))
    BY <2>1 DEF BatchInv
  <2> QED
    BY <1>2, <2>2 DEF MessageIds
<1>4. m \in (sub.mark + 1)..after
  BY <1>1, <1>2
<1>5. Load(m + 1, after) < MaxChars
  <2>1. CASE m = after
    <3>1. Load(m + 1, after) = Sum(Lengths, (m + 1)..after)
      BY <1>2, <1>3, LoadIs
    <3>2. (m + 1)..after = {}
      BY <1>2, <2>1
    <3>3. Sum(Lengths, {}) = 0
      BY FS_EmptySet, SumStep
    <3>4. Load(m + 1, after) = 0
      BY <3>1, <3>2, <3>3
    <3> QED
      BY <1>1, <3>4
  <2>2. CASE m < after
    <3>1. Examined(after)
      <4>1. (\E p \in Pending : Examined(p)) \/ (\A p \in Pending : after <= p)
        BY <1>1 DEF IsBatchEnd
      <4>2. ~(\A p \in Pending : after <= p)
        BY <1>2, <2>2
      <4> QED
        BY <1>1, <4>1, <4>2 DEF IsBatchEnd
    <3>2. after \in (sub.mark + 1)..after
      BY <1>1, <1>2, <1>4
    <3>3. Load(sub.mark + 1, after) <= MaxChars
      BY <2>2, <3>1, <3>2 DEF Examined
    <3>4. /\ Load(m + 1, after) \in Nat /\ Load(sub.mark + 1, after) \in Nat
          /\ msgs[m].size \in Nat
          /\ Load(m + 1, after) + msgs[m].size <= Load(sub.mark + 1, after)
      <4>1. sub.mark + 1 \in Nat \ {0}
        BY <1>1
      <4> QED
        BY <1>3, <1>4, <4>1, LoadWithout
    <3> QED
      BY <1>1, <3>3, <3>4
  <2> QED
    BY <1>2, <2>1, <2>2
<1> QED
  BY <1>1, <1>4, <1>5 DEF Selected

\* The text of what a run took is in its prompt; and only events name a run.
PromptInv ==
    /\ BatchIsInPrompt
    /\ \A m \in MessageIds : eventRun[m] # 0 => event[m] # "none"

LEMMA PromptInit == Init => PromptInv
BY DEF Init, PromptInv, BatchIsInPrompt

\* A step that keeps the windows, the prompts and the texts, and neither names a
\* run nor takes an event.
LEMMA PromptKept ==
  ASSUME TypeInv, BatchInv, PromptInv, [Next]_vars,
         \A r \in RunIds : /\ runs'[r].before = runs[r].before
                           /\ runs'[r].ctx = runs[r].ctx,
         \A m \in 1..Len(msgs) : msgs'[m] = msgs[m],
         \A m \in MessageIds :
            \/ eventRun'[m] = 0
            \/ /\ eventRun'[m] = eventRun[m]
               /\ event[m] = "pending" => event'[m] = "pending"
  PROVE  PromptInv'
<1>1. eventRun \in [MessageIds -> 0..MaxRuns] /\ MaxRuns \in Nat
  BY BoundsAssumption DEF TypeInv, TypeOK
<1>2. ASSUME NEW m \in MessageIds, eventRun'[m] # 0 
      PROVE  /\ eventRun[m] = eventRun'[m] /\ eventRun[m] \in RunIds
             /\ event'[m] # "none" /\ event[m] # "none" /\ m \in 1..Len(msgs)
  <2>1. eventRun[m] = eventRun'[m] /\ eventRun[m] \in RunIds
    BY <1>1, <1>2 DEF RunIds
  <2>2. event[m] # "none"
    BY <1>2, <2>1 DEF PromptInv
  <2>3. event'[m] # "none"
    BY <2>2, EventsStay
  <2>4. m \in 1..Len(msgs)
    BY <2>2, BoundsAssumption DEF BatchInv, MessageIds, TypeInv, TypeOK
  <2> QED
    BY <2>1, <2>2, <2>3, <2>4
<1>3. ASSUME NEW m \in MessageIds, eventRun'[m] # 0, event'[m] # "pending",
             runs'[eventRun'[m]].before > 0, runs'[eventRun'[m]].before < m,
             msgs'[m].size > 0
      PROVE  m \in runs'[eventRun'[m]].ctx
  <2>1. event[m] # "pending"
    BY <1>2, <1>3
  <2> QED
    BY <1>2, <1>3, <2>1 DEF PromptInv, BatchIsInPrompt
<1> QED
  BY <1>2, <1>3 DEF PromptInv, BatchIsInPrompt

LEMMA PromptStep ==
  ASSUME TypeInv, FlightInv, BatchInv, PromptInv, [Next]_vars
  PROVE  PromptInv'
<1> USE DEF NoRunChange
<1>1. /\ runs \in [RunIds -> Run] /\ lastRun \in 0..MaxRuns /\ MaxRuns \in Nat
      /\ event \in [MessageIds -> EventStatus] /\ msgs \in Seq(Message)
  BY BoundsAssumption DEF TypeInv, TypeOK
<1>2. CASE Arrival
  <2>1. PICK message \in Message : msgs' = Append(msgs, message)
    BY <1>2, Zenon DEF Arrival, ReceiveMessage, MergeMessage
  <2>2. \A m \in 1..Len(msgs) : msgs'[m] = msgs[m]
    BY <1>1, <2>1
  <2>3. UNCHANGED <<runs, eventRun>>
    BY <1>2, ReceiveValues
  <2>4. \A m \in MessageIds : event[m] = "pending" => event'[m] = "pending"
    BY <1>1, <1>2, ReceiveValues
  <2> QED
    BY <2>2, <2>3, <2>4, PromptKept
<1>3. ASSUME NEW scope \in Scopes, NEW pace \in Paces, Upsert(scope, pace)
      PROVE  PromptInv'
  <2>1. UNCHANGED <<runs, eventRun, msgs>>
    BY <1>3, UpsertValues
  <2>2. \A m \in MessageIds : event[m] = "pending" => event'[m] = "pending"
    BY <1>1, <1>3, UpsertValues
  <2> QED
    BY <2>1, <2>2, PromptKept
<1>4. CASE Retry
  <2>1. \A r \in RunIds : /\ runs'[r].before = runs[r].before
                          /\ runs'[r].ctx = runs[r].ctx
    BY <1>1, <1>4, RetryValues DEF Run
  <2>2. msgs' = msgs /\ \A m \in MessageIds :
           eventRun'[m] = 0 \/ (eventRun'[m] = eventRun[m] /\ event'[m] = event[m])
    BY <1>4, RetryValues
  <2> QED
    BY <2>1, <2>2, PromptKept
<1>5. CASE Claim
  <2>1. PICK after \in MessageIds :
          LET batch == {m \in Pending : m <= after}
          IN  /\ IsBatchEnd(after)
              /\ runs' = [runs EXCEPT ![lastRun + 1] =
                     [status |-> "running", rev |-> sub.rev,
                      before |-> sub.mark, after |-> after, resp |-> "",
                      ctx |-> Selected(after), scope |-> sub.scope]]
              /\ event' = [m \in MessageIds |->
                     IF m \in batch THEN "processing" ELSE event[m]]
              /\ eventRun' = [m \in MessageIds |->
                     IF m \in batch THEN lastRun + 1 ELSE eventRun[m]]
    BY <1>5, Zenon DEF Claim
  <2>2. lastRun + 1 \in RunIds /\ msgs' = msgs
    BY <1>5, ClaimValues
  <2>3. /\ \A r \in RunIds : r # lastRun + 1 => runs'[r] = runs[r]
        /\ runs'[lastRun + 1].before = sub.mark
        /\ runs'[lastRun + 1].ctx = Selected(after)
    BY <1>1, <2>1, <2>2
  <2>4. \A m \in MessageIds :
           \/ /\ m \in Pending /\ m <= after
              /\ event'[m] = "processing" /\ eventRun'[m] = lastRun + 1
           \/ event'[m] = event[m] /\ eventRun'[m] = eventRun[m]
    BY <2>1, Zenon
  <2>5. ASSUME NEW m \in MessageIds, eventRun'[m] # 0, event'[m] # "pending",
               runs'[eventRun'[m]].before > 0, runs'[eventRun'[m]].before < m,
               msgs'[m].size > 0
        PROVE  m \in runs'[eventRun'[m]].ctx
    <3>1. CASE m \in Pending /\ m <= after /\ eventRun'[m] = lastRun + 1
      <4>1. m \in Selected(after)
        BY <2>1, <2>2, <2>3, <2>5, <3>1, BatchFits
      <4> QED
        BY <2>3, <3>1, <4>1
    <3>2. CASE event'[m] = event[m] /\ eventRun'[m] = eventRun[m]
      <4>1. eventRun[m] \in RunIds /\ eventRun[m] # lastRun + 1
        <5>1. eventRun[m] \in Nat /\ eventRun[m] <= MaxRuns
          BY <1>1 DEF TypeInv, TypeOK
        <5>2. eventRun[m] <= lastRun
          BY DEF FlightInv
        <5> QED
          BY <1>1, <2>5, <3>2, <5>1, <5>2 DEF RunIds
      <4>2. runs'[eventRun[m]] = runs[eventRun[m]]
        BY <2>3, <4>1
      <4> QED
        BY <2>2, <2>5, <3>2, <4>2 DEF PromptInv, BatchIsInPrompt
    <3> QED
      BY <2>4, <3>1, <3>2
  <2>6. \A m \in MessageIds : eventRun'[m] # 0 => event'[m] # "none"
    BY <2>4 DEF PromptInv
  <2> QED
    BY <2>5, <2>6 DEF PromptInv, BatchIsInPrompt
<1>6. CASE RunGoesOn
  <2>1. UNCHANGED <<event, eventRun, msgs>> /\ lastRun \in RunIds
    BY <1>6, GoesOnValues, InFlightRun
  <2>2. \/ runs' = runs
        \/ \E resp \in {"creating", "uncertain", "response"} :
              runs' = [runs EXCEPT ![lastRun].resp = resp]
    BY <1>6, GoesOnValues, Zenon
  <2>3. ASSUME NEW r \in RunIds, NEW resp,
               runs' = [runs EXCEPT ![lastRun].resp = resp]
        PROVE  runs'[r].before = runs[r].before /\ runs'[r].ctx = runs[r].ctx
    BY <1>1, <2>1, <2>3, Zenon DEF Run
  <2>4. \A r \in RunIds : /\ runs'[r].before = runs[r].before
                          /\ runs'[r].ctx = runs[r].ctx
    BY <2>2, <2>3, Zenon
  <2> QED
    BY <2>1, <2>4, PromptKept
<1>7. ASSUME NEW status, lastRun \in RunIds, runs' = [runs EXCEPT ![lastRun].status = status]
      PROVE  \A r \in RunIds : /\ runs'[r].before = runs[r].before
                               /\ runs'[r].ctx = runs[r].ctx
  BY <1>1, <1>7, Zenon DEF Run
<1>8. CASE RunEnds
  <2>1. \E status : runs' = [runs EXCEPT ![lastRun].status = status]
    BY <1>8, EndsValues, Zenon
  <2>2. lastRun \in RunIds /\ msgs' = msgs
    BY <1>8, EndsValues
  <2>3. \A r \in RunIds : /\ runs'[r].before = runs[r].before
                          /\ runs'[r].ctx = runs[r].ctx
    BY <1>7, <2>1, <2>2, Zenon
  <2>4. \A m \in MessageIds :
           \/ eventRun'[m] = 0
           \/ /\ eventRun'[m] = eventRun[m]
              /\ event[m] = "pending" => event'[m] = "pending"
    BY <1>8, EndsValues DEF Batch
  <2> QED
    BY <2>2, <2>3, <2>4, PromptKept
<1>9. CASE Complete
  <2>1. lastRun \in RunIds /\ msgs' = msgs /\ eventRun' = eventRun
    BY <1>9, CompleteValues
  <2>2. \A r \in RunIds : /\ runs'[r].before = runs[r].before
                          /\ runs'[r].ctx = runs[r].ctx
    BY <1>7, <1>9, <2>1, CompleteValues, Zenon
  <2>3. \A m \in MessageIds : event[m] = "pending" => event'[m] = "pending"
    BY <1>9, CompleteValues DEF Batch
  <2> QED
    BY <2>1, <2>2, <2>3, PromptKept
<1>10. CASE Start
  <2>1. UNCHANGED <<msgs, eventRun>>
    BY <1>10, StartValues
  <2>2. \A r \in RunIds : /\ runs'[r].before = runs[r].before
                          /\ runs'[r].ctx = runs[r].ctx
    BY <1>10, StartKeeps
  <2>3. \A m \in MessageIds : event[m] = "pending" => event'[m] = "pending"
    BY <1>10, StartValues
  <2> QED
    BY <2>1, <2>2, <2>3, PromptKept
<1>11. CASE UNCHANGED <<runs, event, eventRun, msgs>>
  BY <1>11, PromptKept
<1> QED
  BY <1>2, <1>3, <1>4, <1>5, <1>6, <1>8, <1>9, <1>10, <1>11, StepKinds,
     PauseValues, GivenUpValues, OtherValues

\* An event taken from above the watermark has its text in the prompt of the run
\* that took it, for every budget and every text length.
THEOREM PromptsHoldBatches == Spec => []BatchIsInPrompt
<1>1. TypeInv /\ FlightInv /\ BatchInv /\ PromptInv /\ [Next]_vars
        => (TypeInv /\ FlightInv /\ BatchInv /\ PromptInv)'
  BY TypeStep, FlightStep, BatchStep, PromptStep
<1>2. Init => TypeInv /\ FlightInv /\ BatchInv /\ PromptInv
  BY TypeInit, FlightInit, BatchInit, PromptInit
<1>3. PromptInv => BatchIsInPrompt
  BY DEF PromptInv
<1> QED
  BY <1>1, <1>2, <1>3, PTL DEF Spec

-----------------------------------------------------------------------------
(* The outbox.                                                             *)

\* The events that satisfy a condition change to a status, the others stay.
LEMMA OutboxMove ==
  ASSUME TypeInv, TypeInv', NEW changed \in SUBSET MessageIds, NEW status,
         \A m \in MessageIds :
            event'[m] = IF m \in changed THEN status ELSE event[m]
  PROVE  Outbox!Move(changed, status)
<1>1. event' \in [MessageIds -> EventStatus]
  BY DEF TypeInv, TypeOK
<1>2. event' = [m \in MessageIds |-> event'[m]]
  BY <1>1
<1> QED
  BY <1>2, Zenon DEF Outbox!Move, Outbox!Ids, MessageIds

LEMMA OutboxWith == \A status : /\ Outbox!With(status) \in SUBSET MessageIds
                                /\ \A m \in MessageIds :
                                      m \in Outbox!With(status) <=> event[m] = status
BY DEF Outbox!With, Outbox!Ids, MessageIds

\* Every step records, takes, settles or releases, or leaves the outbox alone.
LEMMA OutboxStep ==
  ASSUME TypeInv, TypeInv', FlightInv, BatchInv, [Next]_vars
  PROVE  [Outbox!Next]_event
<1> DEFINE With(status) == Outbox!With(status)
<1>1. \A status : /\ With(status) \in SUBSET MessageIds
                  /\ \A m \in MessageIds : m \in With(status) <=> event[m] = status
  BY OutboxWith
<1> HIDE DEF With
<1>2. /\ event \in [MessageIds -> EventStatus]
      /\ event' \in [MessageIds -> EventStatus]
      /\ Len(msgs) \in Nat
  BY DEF TypeInv, TypeOK
<1>3. \A m \in MessageIds : m \in Batch <=> event[m] = "processing"
  BY DEF FlightInv, OneRunInFlight, Batch
<1>4. CASE event' = event
  BY <1>4
<1>5. ASSUME NEW id, event[id] = "none" \/ id \notin MessageIds,
             event' = [event EXCEPT ![id] = "pending"]
      PROVE  [Outbox!Next]_event
  <2>1. CASE id \notin MessageIds
    BY <1>2, <1>4, <1>5, <2>1
  <2>2. CASE id \in MessageIds
    <3>1. {id} \in SUBSET MessageIds /\ id \in With("none")
      BY <1>1, <1>5, <2>2
    <3>2. \A m \in MessageIds :
             event'[m] = IF m \in {id} THEN "pending" ELSE event[m]
      BY <1>2, <1>5, <2>2
    <3>3. Outbox!Move({id}, "pending")
      BY <3>1, <3>2, OutboxMove
    <3> QED
      BY <3>1, <3>3 DEF Outbox!Next, Outbox!Record, With
  <2> QED
    BY <2>1, <2>2
<1>6. ASSUME NEW status \in {"completed", "failed", "pending"},
             \A m \in MessageIds :
                event'[m] = IF event[m] = "processing" THEN status ELSE event[m]
      PROVE  [Outbox!Next]_event
  <2>1. CASE With("processing") = {}
    <3>1. \A m \in MessageIds : event'[m] = event[m]
      BY <1>1, <1>6, <2>1
    <3> QED
      BY <1>2, <1>4, <3>1
  <2>2. CASE With("processing") # {}
    <3>1. \A m \in MessageIds :
             event'[m] = IF m \in With("processing") THEN status ELSE event[m]
      BY <1>1, <1>6
    <3>2. Outbox!Move(With("processing"), status)
      BY <1>1, <3>1, OutboxMove
    <3> QED
      BY <2>2, <3>2 DEF Outbox!Next, Outbox!Settle, With
  <2> QED
    BY <2>1, <2>2
<1>7. CASE Arrival
  <2>1. \/ event' = event
        \/ event' = [event EXCEPT ![Len(msgs) + 1] = "pending"]
    BY <1>7, ReceiveValues
  <2>2. \A m \in MessageIds : m > Len(msgs) => event[m] = "none"
    BY Zenon DEF BatchInv
  <2>3. event[Len(msgs) + 1] = "none" \/ Len(msgs) + 1 \notin MessageIds
    BY <1>2, <2>2 DEF MessageIds
  <2> QED
    BY <1>4, <1>5, <2>1, <2>3
<1>8. ASSUME NEW scope \in Scopes, NEW pace \in Paces, Upsert(scope, pace)
      PROVE  [Outbox!Next]_event
  BY <1>4, <1>5, <1>8, UpsertValues
<1>9. CASE Retry
  <2>1. \A m \in MessageIds :
           event'[m] = IF m \in With("failed") THEN "pending" ELSE event[m]
    BY <1>1, <1>9, RetryValues
  <2>2. CASE With("failed") = {}
    <3>1. \A m \in MessageIds : event'[m] = event[m]
      BY <2>1, <2>2
    <3> QED
      BY <1>2, <1>4, <3>1
  <2>3. CASE With("failed") # {}
    <3>1. Outbox!Move(With("failed"), "pending")
      BY <1>1, <2>1, OutboxMove
    <3> QED
      BY <2>3, <3>1 DEF Outbox!Next, Outbox!Release, With
  <2> QED
    BY <2>2, <2>3
<1>10. CASE Claim
  <2>1. PICK after \in MessageIds :
          /\ event[after] = "pending"
          /\ \A m \in MessageIds :
                IF event[m] = "pending" /\ m <= after
                THEN event'[m] = "processing" /\ eventRun'[m] = lastRun + 1
                ELSE event'[m] = event[m] /\ eventRun'[m] = eventRun[m]
    BY <1>10, ClaimValues, Zenon
  <2>2. With("processing") = {}
    <3>1. ~InFlight /\ proc # "down"
      BY <1>10, ClaimValues DEF InFlight
    <3>2. \A m \in MessageIds : event[m] # "processing"
      BY <3>1 DEF FlightInv, OneRunInFlight
    <3> QED
      BY <1>1, <3>2
  <2> DEFINE taken == {m \in With("pending") : m <= after}
  <2>3. after \in With("pending") /\ taken \in SUBSET MessageIds
    BY <1>1, <2>1
  <2>4. \A m \in MessageIds :
           event'[m] = IF m \in taken THEN "processing" ELSE event[m]
    BY <1>1, <2>1
  <2>5. Outbox!Move(taken, "processing")
    BY <2>3, <2>4, OutboxMove
  <2> QED
    BY <2>2, <2>3, <2>5, Zenon DEF Outbox!Next, Outbox!Take, With
<1>11. CASE RunEnds
  <2>1. PICK status \in {"failed", "pending"} :
          \A m \in Batch : event'[m] = status
    BY <1>11, EndsValues
  <2>2. \A m \in MessageIds \ Batch : event'[m] = event[m]
    BY <1>11, EndsValues
  <2>3. \A m \in MessageIds :
           event'[m] = IF event[m] = "processing" THEN status ELSE event[m]
    BY <1>3, <2>1, <2>2
  <2> QED
    BY <1>6, <2>3
<1>12. CASE Complete
  <2>1. \A m \in MessageIds :
           event'[m] = IF event[m] = "processing" THEN "completed" ELSE event[m]
    BY <1>3, <1>12, CompleteValues
  <2> QED
    BY <1>6, <2>1
<1>13. CASE Start
  <2>1. \A m \in MessageIds :
           event'[m] = IF event[m] = "processing" THEN "failed" ELSE event[m]
    BY <1>13, StartValues DEF FlightInv, OneRunInFlight
  <2> QED
    BY <1>6, <2>1
<1> QED
  BY <1>4, <1>7, <1>8, <1>9, <1>10, <1>11, <1>12, <1>13, StepKinds,
     PauseValues, GivenUpValues, GoesOnValues, OtherValues

\* The outbox is used as AnalysisOutbox promises.
THEOREM ImplementsOutbox == Spec => OutboxSpec
<1>1. TypeInv /\ FlightInv /\ BatchInv /\ [Next]_vars
        => (TypeInv /\ FlightInv /\ BatchInv)'
  BY TypeStep, FlightStep, BatchStep
<1>2. Init => TypeInv /\ FlightInv /\ BatchInv
  BY TypeInit, FlightInit, BatchInit
<1>3. TypeInv /\ TypeInv' /\ FlightInv /\ BatchInv /\ [Next]_vars
        => [Outbox!Next]_event
  BY OutboxStep
<1>4. Init => Outbox!Init
  BY DEF Init, Outbox!Init, Outbox!Ids, MessageIds
<1> QED
  BY <1>1, <1>2, <1>3, <1>4, PTL DEF Spec, OutboxSpec, Outbox!Spec
=============================================================================
