------------------------- MODULE ReplyPipelineProofs -------------------------
(***************************************************************************)
(* Proofs about ReplyPipeline, for every value of its constants.           *)
(***************************************************************************)
EXTENDS ReplyPipelineProps, FiniteSetTheorems, TLAPS

USE PipelineAssumption

-----------------------------------------------------------------------------
(* Sequences, and rows of tasks.                                           *)

\* The sequence holds y.
Has(s, y) == \E i \in 1..Len(s) : s[i] = y

\* An element is appended to a sequence.
LEMMA AppendHas ==
  ASSUME NEW S, NEW s \in Seq(S), NEW x \in S
  PROVE  /\ Append(s, x) \in Seq(S)
         /\ \A y : Has(Append(s, x), y) <=> Has(s, y) \/ y = x
<1>1. /\ Append(s, x) \in Seq(S) /\ Len(s) \in Nat /\ Len(Append(s, x)) = Len(s) + 1
      /\ \A i \in 1..Len(s) : Append(s, x)[i] = s[i]
      /\ Append(s, x)[Len(s) + 1] = x
  OBVIOUS
<1> QED
  BY <1>1 DEF Has

\* The head of a sequence is taken off.
LEMMA TailHas ==
  ASSUME NEW S, NEW s \in Seq(S), s # <<>>
  PROVE  /\ Tail(s) \in Seq(S) /\ Head(s) \in S
         /\ \A y : Has(s, y) <=> Has(Tail(s), y) \/ y = Head(s)
<1>1. /\ Tail(s) \in Seq(S) /\ Head(s) \in S /\ Head(s) = s[1]
      /\ Len(s) \in Nat \ {0} /\ Len(Tail(s)) = Len(s) - 1
      /\ \A i \in 1..Len(Tail(s)) : Tail(s)[i] = s[i + 1]
  OBVIOUS
<1>2. ASSUME NEW y, NEW i \in 1..Len(s), s[i] = y, y # Head(s)
      PROVE  \E j \in 1..Len(Tail(s)) : Tail(s)[j] = y
  <2>1. i - 1 \in 1..Len(Tail(s)) /\ Tail(s)[i - 1] = s[i]
    BY <1>1, <1>2
  <2> QED
    BY <2>1, <1>2
<1>3. ASSUME NEW y, NEW j \in 1..Len(Tail(s)), Tail(s)[j] = y
      PROVE  \E i \in 1..Len(s) : s[i] = y
  <2>1. j + 1 \in 1..Len(s) /\ s[j + 1] = y
    BY <1>1, <1>3
  <2> QED
    BY <2>1
<1>4. \E i \in 1..Len(s) : s[i] = Head(s)
  BY <1>1
<1> QED
  BY <1>1, <1>2, <1>3, <1>4 DEF Has

\* What InOrder lists of some tasks are sequences of exactly these tasks.
LEMMA InOrderHas ==
  ASSUME NEW n \in Nat, NEW S \in SUBSET (1..n), NEW s \in InOrder(S)
  PROVE  /\ s \in Seq(1..n)
         /\ \A t : (\E i \in 1..Len(s) : s[i] = t) <=> t \in S
<1>1. Cardinality(S) \in Nat
  <2>1. IsFiniteSet(1..n)
    BY FS_Interval
  <2>2. IsFiniteSet(S)
    BY <2>1, FS_Subset
  <2> QED
    BY <2>2, FS_CardinalityType
<1>2. s \in [1..Cardinality(S) -> S] /\ \A t \in S : \E i \in DOMAIN s : s[i] = t
  BY DEF InOrder
<1>3. s \in Seq(S) /\ Len(s) = Cardinality(S) /\ DOMAIN s = 1..Len(s)
  BY <1>1, <1>2
<1>4. s \in Seq(1..n)
  <2>1. \A i \in 1..Len(s) : s[i] \in 1..n
    BY <1>2, <1>3
  <2> QED
    BY <1>3, <2>1
<1>5. \A t : (\E i \in 1..Len(s) : s[i] = t) => t \in S
  BY <1>2, <1>3
<1>6. \A t : t \in S => \E i \in 1..Len(s) : s[i] = t
  BY <1>2, <1>3
<1> QED
  BY <1>4, <1>5, <1>6

\* A sequence of the tasks so far is one when there are more.
LEMMA SeqGrows ==
  ASSUME NEW n \in Nat, NEW s \in Seq(1..n)
  PROVE  s \in Seq(1..(n + 1))
<1>1. \A i \in 1..Len(s) : s[i] \in 1..(n + 1)
  OBVIOUS
<1> QED
  BY <1>1

-----------------------------------------------------------------------------
(* Types.                                                                  *)

\* While the process is down its memory is empty, and it was up before; start()
\* has tasks to put as long as it goes on.
Resting ==
    /\ proc = "down" =>
          /\ \A auto \in BOOLEAN : queue[auto] = <<>>
          /\ putting = {} /\ recovered = <<>>
          /\ \A w \in Workers : worker[w] = Idle
          /\ restarts > 0
    /\ proc = "starting" => recovered # <<>>

TypeInv == TypeOK /\ Resting

LEMMA NoTaskType == NoTask \in Task
<1>1. 1 \in MessageIds
  BY DEF MessageIds
<1> QED
  BY <1>1 DEF NoTask, Task

LEMMA TypeInit == Init => TypeInv
<1> SUFFICES ASSUME Init PROVE TypeInv
  OBVIOUS
<1> USE DEF Init
<1>1. NoTask \in Task
  BY NoTaskType
<1>2. tasks \in [TaskIds -> Task] /\ msg \in [MessageIds -> MessageStatus]
  BY <1>1 DEF MessageStatus
<1>3. Idle \in Worker
  BY DEF Idle, Worker
<1>4. worker \in [Workers -> Worker] /\ Holding = {}
  BY <1>3 DEF Holding, Idle
<1>5. \A t \in TaskIds : t > lastTask <=> tasks[t].status = "none"
  BY DEF NoTask, TaskIds
<1>6. /\ lastTask \in 0..MaxTasks /\ inFlight \in [MessageIds -> 0..MaxInFlight]
      /\ failures \in Nat /\ dailySent \in Nat /\ restarts \in 0..setup.restarts
  OBVIOUS
<1>7. queue \in [BOOLEAN -> Seq(1..lastTask)] /\ recovered \in Seq(1..lastTask)
  OBVIOUS
<1>8. Resting
  BY DEF Resting
<1> QED
  BY <1>2, <1>4, <1>5, <1>6, <1>7, <1>8 DEF TypeInv, TypeOK

LEMMA SetupType ==
  ASSUME NEW s \in Setups
  PROVE  /\ s.messages \in Nat /\ s.messages <= MaxMessages
         /\ s.tasks \in Nat /\ s.tasks <= MaxTasks /\ s.restarts \in Nat
<1>1. s \in [feature : BOOLEAN, user : SUBSET {"send", "cancel", "import"},
             messages : 0..MaxMessages, tasks : 0..MaxTasks, restarts : Nat]
  OBVIOUS
<1>2. s.messages \in 0..MaxMessages /\ s.tasks \in 0..MaxTasks /\ s.restarts \in Nat
  BY <1>1
<1> QED
  BY <1>2

\* The next task of the queue is one, and is gone when it is popped.
LEMMA NextTaskHas ==
  ASSUME TypeOK, queue # [auto \in BOOLEAN |-> <<>>]
  PROVE  /\ NextClass \in BOOLEAN /\ queue[NextClass] # <<>>
         /\ NextTask \in 1..lastTask /\ NextTask \in TaskIds
         /\ Popped \in [BOOLEAN -> Seq(1..lastTask)]
<1>1. NextClass \in BOOLEAN
  BY DEF NextClass
<1>2. queue[NextClass] # <<>>
  <2>1. CASE queue[TRUE] # <<>>
    BY <2>1 DEF NextClass
  <2>2. CASE queue[TRUE] = <<>>
    <3>1. queue[FALSE] # <<>>
      BY <2>2 DEF TypeOK
    <3> QED
      BY <2>2, <3>1 DEF NextClass
  <2> QED
    BY <2>1, <2>2
<1>3. queue[NextClass] \in Seq(1..lastTask)
  BY <1>1 DEF TypeOK
<1>4. NextTask \in 1..lastTask /\ Tail(queue[NextClass]) \in Seq(1..lastTask)
  BY <1>2, <1>3, TailHas DEF NextTask
<1>5. NextTask \in TaskIds
  BY <1>4 DEF TypeOK, TaskIds
<1> QED
  BY <1>1, <1>2, <1>4, <1>5 DEF TypeOK, Popped

\* What a new task does to the rows, and to the queue.
LEMMA CreateType ==
  ASSUME TypeOK, NEW m \in MessageIds, NEW auto \in BOOLEAN, Create(m, auto)
  PROVE  /\ lastTask' = lastTask + 1 /\ lastTask' \in TaskIds
         /\ tasks' \in [TaskIds -> Task]
         /\ tasks'[lastTask'].status = "pending" /\ tasks'[lastTask'].msg = m
         /\ tasks'[lastTask'].auto = auto /\ ~tasks'[lastTask'].cancel
         /\ \A t \in TaskIds : t # lastTask' => tasks'[t] = tasks[t]
         /\ queue' \in [BOOLEAN -> Seq(1..lastTask')]
         /\ putting' \subseteq 1..lastTask'
         /\ msg' \in [MessageIds -> MessageStatus]
<1> DEFINE new == [NoTask EXCEPT !.status = "pending", !.msg = m, !.auto = auto]
<1>1. lastTask' = lastTask + 1 /\ lastTask' \in TaskIds /\ lastTask \in Nat
  <2>1. setup.tasks <= MaxTasks /\ setup.tasks \in Nat
    <3>1. setup \in Setups
      BY DEF TypeOK
    <3> QED
      BY <3>1, SetupType
  <2>2. lastTask \in 0..MaxTasks
    BY DEF TypeOK
  <2>3. lastTask < setup.tasks /\ lastTask' = lastTask + 1
    BY DEF Create
  <2> QED
    BY <2>1, <2>2, <2>3 DEF TaskIds
<1>2. new \in Task
  BY NoTaskType DEF Task
<1>3. new.status = "pending" /\ new.msg = m /\ new.auto = auto /\ ~new.cancel
  BY DEF NoTask
<1> HIDE DEF new
<1>4. tasks' = [tasks EXCEPT ![lastTask'] = new]
  BY <1>1 DEF Create, new
<1>5. /\ tasks' \in [TaskIds -> Task] /\ tasks'[lastTask'] = new
      /\ \A t \in TaskIds : t # lastTask' => tasks'[t] = tasks[t]
  BY <1>1, <1>2, <1>4 DEF TypeOK
<1>6. \A a \in BOOLEAN : queue[a] \in Seq(1..lastTask')
  BY <1>1, SeqGrows DEF TypeOK
<1>7. queue' \in [BOOLEAN -> Seq(1..lastTask')]
  <2>1. queue \in [BOOLEAN -> Seq(1..lastTask')]
    BY <1>6 DEF TypeOK
  <2>2. CASE queue' = queue
    BY <2>1, <2>2
  <2>3. CASE queue' = [queue EXCEPT ![auto] = Append(queue[auto], lastTask')]
    <3>1. lastTask' \in 1..lastTask'
      BY <1>1
    <3>2. Append(queue[auto], lastTask') \in Seq(1..lastTask')
      BY <1>6, <3>1
    <3> QED
      BY <2>1, <2>3, <3>2
  <2> QED
    BY <1>1, <1>3, <1>5, <2>2, <2>3 DEF Create, Enter
<1>8. putting' \subseteq 1..lastTask'
  <2>1. 1..lastTask \subseteq 1..lastTask' /\ lastTask' \in 1..lastTask'
    BY <1>1
  <2>2. putting \subseteq 1..lastTask
    BY DEF TypeOK
  <2>3. putting' = putting \/ putting' = putting \cup {lastTask'}
    BY <1>1 DEF Create
  <2> QED
    BY <2>1, <2>2, <2>3
<1>9. msg' \in [MessageIds -> MessageStatus]
  BY DEF Create, TypeOK, MessageStatus
<1> QED
  BY <1>1, <1>3, <1>5, <1>7, <1>8, <1>9

\* The steps that leave the tasks, the queue and the workers alone.
Aside ==
    \/ Arrive \/ Import \/ Poll \/ Enable \/ Disable \/ Expire \/ NewDay
    \/ \E m \in MessageIds :
          Ignore(m) \/ HumanSend(m) \/ HumanSent(m) \/ HumanSendFailed(m)

queueing == <<tasks, lastTask, queue, putting, recovered, worker, process>>

LEMMA AsideType ==
  ASSUME TypeOK, Aside
  PROVE  /\ UNCHANGED queueing
         /\ msg' \in [MessageIds -> MessageStatus]
         /\ inFlight' \in [MessageIds -> 0..MaxInFlight]
         /\ armed' \in {"off", "on", "expired"} /\ failures' \in Nat /\ dailySent' \in Nat
<1> USE DEF queueing, memory, unattended, process
<1>1. CASE Arrive
  BY <1>1 DEF Arrive, TypeOK, MessageStatus
<1>2. CASE Import
  BY <1>2 DEF Import, TypeOK, MessageStatus
<1>3. CASE Poll
  BY <1>3 DEF Poll, Checked, TypeOK
<1>4. CASE Enable
  BY <1>4 DEF Enable, TypeOK
<1>5. CASE Disable
  BY <1>5 DEF Disable, TypeOK
<1>6. CASE Expire \/ NewDay
  BY <1>6 DEF Expire, NewDay, TypeOK
<1>7. ASSUME NEW m \in MessageIds, Ignore(m)
      PROVE  /\ UNCHANGED queueing /\ UNCHANGED <<inFlight, armed, failures, dailySent>>
             /\ msg' \in [MessageIds -> MessageStatus]
  BY <1>7 DEF Ignore, TypeOK, MessageStatus, Decided
<1>8. ASSUME NEW m \in MessageIds, HumanSend(m) \/ HumanSent(m) \/ HumanSendFailed(m)
      PROVE  /\ UNCHANGED queueing /\ UNCHANGED <<armed, failures, dailySent>>
             /\ msg' \in [MessageIds -> MessageStatus]
             /\ inFlight' \in [MessageIds -> 0..MaxInFlight]
  <2>1. inFlight[m] \in 0..MaxInFlight /\ MaxInFlight \in Nat
    BY DEF TypeOK
  <2>2. inFlight' \in [MessageIds -> 0..MaxInFlight]
    <3>1. CASE HumanSend(m)
      <4>1. inFlight[m] + 1 \in 0..MaxInFlight
        BY <2>1, <3>1 DEF HumanSend
      <4> QED
        BY <3>1, <4>1 DEF HumanSend, TypeOK
    <3>2. CASE HumanSent(m) \/ HumanSendFailed(m)
      <4>1. inFlight[m] - 1 \in 0..MaxInFlight
        BY <2>1, <3>2 DEF HumanSent, HumanSendFailed
      <4> QED
        BY <3>2, <4>1 DEF HumanSent, HumanSendFailed, TypeOK
    <3> QED
      BY <1>8, <3>1, <3>2
  <2>3. msg' \in [MessageIds -> MessageStatus]
    BY <1>8 DEF HumanSend, HumanSent, HumanSendFailed, TypeOK, MessageStatus, Decided
  <2> QED
    BY <1>8, <2>2, <2>3 DEF HumanSend, HumanSent, HumanSendFailed
<1> QED
  BY <1>1, <1>2, <1>3, <1>4, <1>5, <1>6, <1>7, <1>8 DEF Aside, TypeOK

\* What a worker's steps do to the rows of tasks.
LEMMA MarkedType ==
  ASSUME TypeOK, NEW m \in MessageIds, NEW status \in MessageStatus
  PROVE  Marked(m, status) \in [MessageIds -> MessageStatus]
BY DEF Marked, TypeOK

LEMMA StatusType ==
  ASSUME TypeOK, NEW t \in TaskIds,
         NEW status \in {"pending", "running", "completed", "failed", "cancelled"}
  PROVE  [tasks EXCEPT ![t].status = status] \in [TaskIds -> Task]
<1>1. tasks[t] \in Task
  BY DEF TypeOK
<1>2. [tasks[t] EXCEPT !.status = status] \in Task
  BY <1>1 DEF Task
<1> QED
  BY <1>2 DEF TypeOK

\* A worker that is not idle has one of the tasks so far.
LEMMA WorkerTask ==
  ASSUME TypeOK, NEW w \in Workers, worker[w].pc # "idle"
  PROVE  /\ w \in Holding
         /\ worker[w].task \in 1..lastTask /\ worker[w].task \in TaskIds
         /\ tasks[worker[w].task] \in Task /\ tasks[worker[w].task].msg \in MessageIds
         /\ tasks[worker[w].task].status # "none"
<1>1. worker[w] \in Worker
  BY DEF TypeOK
<1>2. w \in Holding
  BY <1>1 DEF Holding, Worker
<1>3. worker[w].task \in 1..lastTask /\ lastTask \in 0..MaxTasks
  BY <1>2 DEF TypeOK
<1>4. worker[w].task \in TaskIds
  BY <1>3 DEF TaskIds
<1>5. tasks[worker[w].task] \in Task
  BY <1>4 DEF TypeOK
<1>6. tasks[worker[w].task].msg \in MessageIds
  BY <1>5 DEF Task
<1>7. ~(worker[w].task > lastTask)
  BY <1>3
<1>8. tasks[worker[w].task].status # "none"
  BY <1>4, <1>7 DEF TypeOK
<1> QED
  BY <1>2, <1>3, <1>4, <1>5, <1>6, <1>8

\* A worker takes the next task and starts it, or gives it up for now.
LEMMA TakeType ==
  ASSUME TypeOK, NEW w \in Workers, TakeStale(w) \/ PutBack(w)
  PROVE  /\ queue' \in [BOOLEAN -> Seq(1..lastTask)]
         /\ UNCHANGED <<msg, tasks, lastTask, putting, recovered, worker, inFlight,
                        unattended, process>>
<1>1. CASE TakeStale(w)
  BY <1>1, NextTaskHas DEF TakeStale, Takes
<1>2. CASE PutBack(w)
  <2>1. /\ NextClass \in BOOLEAN /\ queue[NextClass] # <<>>
        /\ NextTask \in 1..lastTask /\ queue[NextClass] \in Seq(1..lastTask)
    BY <1>2, NextTaskHas DEF PutBack, Takes, TypeOK
  <2>2. Append(Tail(queue[NextClass]), NextTask) \in Seq(1..lastTask)
    BY <2>1, TailHas, AppendHas
  <2> QED
    BY <1>2, <2>1, <2>2 DEF PutBack, TypeOK
<1> QED
  BY <1>1, <1>2

LEMMA BeginType ==
  ASSUME TypeOK, NEW w \in Workers, Begin(w)
  PROVE  /\ worker[w].pc = "idle" /\ proc # "down"
         /\ NextTask \in TaskIds /\ NextTask \in 1..lastTask
         /\ tasks[NextTask].status = "pending" /\ tasks[NextTask].msg \in MessageIds
         /\ tasks' \in [TaskIds -> Task] /\ tasks'[NextTask].status = "running"
         /\ tasks'[NextTask].msg = tasks[NextTask].msg
         /\ tasks'[NextTask].cancel = tasks[NextTask].cancel
         /\ \A t \in TaskIds : t # NextTask => tasks'[t] = tasks[t]
         /\ queue' \in [BOOLEAN -> Seq(1..lastTask)]
         /\ worker' \in [Workers -> Worker]
         /\ worker'[w].pc = "generating" /\ worker'[w].task = NextTask
         /\ \A v \in Workers : v # w => worker'[v] = worker[v]
         /\ msg' \in [MessageIds -> MessageStatus]
<1>1. NextTask \in TaskIds /\ NextTask \in 1..lastTask /\ queue' \in [BOOLEAN -> Seq(1..lastTask)]
  BY NextTaskHas DEF Begin, Takes
<1>2. tasks[NextTask] \in Task /\ tasks[NextTask].msg \in MessageIds
  BY <1>1 DEF TypeOK, Task
<1>3. msg' \in [MessageIds -> MessageStatus]
  <2>1. "ai_generating" \in MessageStatus
    BY DEF MessageStatus
  <2> QED
    BY <1>2, <2>1, MarkedType DEF Begin
<1>4. tasks' \in [TaskIds -> Task]
  BY <1>1, StatusType DEF Begin
<1>5. /\ tasks'[NextTask].status = "running"
      /\ tasks'[NextTask].msg = tasks[NextTask].msg
      /\ tasks'[NextTask].cancel = tasks[NextTask].cancel
      /\ \A t \in TaskIds : t # NextTask => tasks'[t] = tasks[t]
  BY <1>1, <1>2 DEF Begin, TypeOK, Task
<1>6. worker' \in [Workers -> Worker]
  <2>1. NextTask \in 0..MaxTasks
    BY <1>1 DEF TaskIds
  <2>2. [pc |-> "generating", task |-> NextTask] \in Worker
    BY <2>1 DEF Worker
  <2> QED
    BY <2>2 DEF Begin, TypeOK
<1>7. /\ worker'[w].pc = "generating" /\ worker'[w].task = NextTask
      /\ \A v \in Workers : v # w => worker'[v] = worker[v]
  BY DEF Begin, TypeOK
<1>8. /\ worker[w].pc = "idle" /\ proc # "down" /\ tasks[NextTask].status = "pending"
  BY DEF Begin, Takes
<1> QED
  BY <1>1, <1>2, <1>3, <1>4, <1>5, <1>6, <1>7, <1>8

\* Generation ends: the task is over, its message is not queued any more, and the
\* worker is idle or waits to send the draft.
Ends(w) == DropAnswer(w) \/ Complete(w) \/ Fail(w)

LEMMA EndsType ==
  ASSUME TypeOK, NEW w \in Workers, Ends(w), NEW t, t = worker[w].task
  PROVE  /\ worker[w].pc = "generating" /\ t \in TaskIds /\ t \in 1..lastTask
         /\ tasks[t].msg \in MessageIds
         /\ tasks' \in [TaskIds -> Task]
         /\ tasks'[t].status \in {"completed", "failed", "cancelled"}
         /\ tasks'[t].msg = tasks[t].msg
         /\ \A u \in TaskIds : u # t => tasks'[u] = tasks[u]
         /\ worker' \in [Workers -> Worker]
         /\ worker'[w].pc \in {"idle", "settling"} /\ worker'[w].task \in {0, t}
         /\ worker'[w].pc = "settling" => worker'[w].task = t
         /\ \A v \in Workers : v # w => worker'[v] = worker[v]
         /\ msg' \in [MessageIds -> MessageStatus]
         /\ msg'[tasks[t].msg] \notin {"ai_queued", "ai_generating"}
         /\ \A m \in MessageIds : m # tasks[t].msg => msg'[m] = msg[m]
         /\ armed' \in {armed, "off"}
         /\ UNCHANGED <<lastTask, memory, failures, dailySent, process>>
<1>1. worker[w].pc = "generating"
  BY DEF Ends, DropAnswer, Complete, Fail
<1>2. /\ t \in TaskIds /\ t \in 1..lastTask
      /\ tasks[t] \in Task /\ tasks[t].msg \in MessageIds
  BY <1>1, WorkerTask
<1>3. PICK end \in {"completed", "failed", "cancelled"} :
        tasks' = [tasks EXCEPT ![t].status = end]
  BY DEF Ends, DropAnswer, Complete, Fail
<1>4. tasks' \in [TaskIds -> Task]
  BY <1>2, <1>3, StatusType
<1>5. /\ tasks'[t].status = end /\ tasks'[t].msg = tasks[t].msg
      /\ \A u \in TaskIds : u # t => tasks'[u] = tasks[u]
  BY <1>2, <1>3 DEF TypeOK, Task
<1>6. /\ msg' \in [MessageIds -> MessageStatus]
      /\ msg'[tasks[t].msg] \notin {"ai_queued", "ai_generating"}
      /\ \A m \in MessageIds : m # tasks[t].msg => msg'[m] = msg[m]
  <2>1. \/ msg' = [msg EXCEPT ![tasks[t].msg] = "drafted"]
        \/ \E status \in {"ai_cancelled", "ai_failed"} : msg' = Marked(tasks[t].msg, status)
    BY DEF Ends, DropAnswer, Complete, Fail
  <2>2. msg \in [MessageIds -> MessageStatus]
    BY DEF TypeOK
  <2> QED
    BY <1>2, <2>1, <2>2 DEF Marked, MessageStatus, Decided
<1>7. worker' = [worker EXCEPT ![w] = Idle] \/ worker' = [worker EXCEPT ![w].pc = "settling"]
  BY DEF Ends, DropAnswer, Complete, Fail
<1>8. worker' \in [Workers -> Worker]
  <2>1. Idle \in Worker
    BY DEF Idle, Worker
  <2>2. [worker[w] EXCEPT !.pc = "settling"] \in Worker
    BY SMTT(30) DEF TypeOK, Worker
  <2> QED
    BY <1>7, <2>1, <2>2 DEF TypeOK
<1>9. /\ worker'[w].pc \in {"idle", "settling"} /\ worker'[w].task \in {0, t}
      /\ worker'[w].pc = "settling" => worker'[w].task = t
      /\ \A v \in Workers : v # w => worker'[v] = worker[v]
  <2>1. worker \in [Workers -> Worker] /\ worker[w] \in Worker
    BY DEF TypeOK
  <2> QED
    BY <1>7, <2>1 DEF Idle, Worker
<1>10. /\ armed' \in {armed, "off"}
       /\ UNCHANGED <<lastTask, memory, failures, dailySent, process>>
  BY DEF Ends, DropAnswer, Complete, Fail, unattended, Checked
<1> QED
  BY <1>1, <1>2, <1>4, <1>5, <1>6, <1>8, <1>9, <1>10

\* The unattended reply: skipped, sent or failed.
Replies(w) == AutoSend(w) \/ AutoSkip(w) \/ AutoSent(w) \/ AutoSendFailed(w)

LEMMA RepliesType ==
  ASSUME TypeOK, NEW w \in Workers, Replies(w), NEW t, t = worker[w].task
  PROVE  /\ worker[w].pc \in {"settling", "sending"} /\ tasks[t].msg \in MessageIds
         /\ worker' \in [Workers -> Worker]
         /\ worker'[w] = Idle \/ (worker'[w].pc = "sending" /\ worker'[w].task = t)
         /\ \A v \in Workers : v # w => worker'[v] = worker[v]
         /\ msg' \in [MessageIds -> MessageStatus]
         /\ \A m \in MessageIds : msg'[m] = msg[m] \/ msg'[m] \in {"sending", "sent", "send_failed"}
         /\ armed' \in {"off", "on", "expired"} /\ failures' \in Nat /\ dailySent' \in Nat
         /\ UNCHANGED <<tasks, lastTask, memory, process>>
<1>1. worker[w].pc \in {"settling", "sending"}
  BY DEF Replies, AutoSend, AutoSkip, AutoSent, AutoSendFailed
<1>2. tasks[t].msg \in MessageIds /\ worker[w] \in Worker
  BY <1>1, WorkerTask DEF TypeOK
<1>3. worker' = [worker EXCEPT ![w] = Idle] \/ worker' = [worker EXCEPT ![w].pc = "sending"]
  BY DEF Replies, AutoSend, AutoSkip, AutoSent, AutoSendFailed
<1>4. worker' \in [Workers -> Worker]
  <2>1. Idle \in Worker
    BY DEF Idle, Worker
  <2>2. [worker[w] EXCEPT !.pc = "sending"] \in Worker
    BY DEF TypeOK, Worker
  <2> QED
    BY <1>3, <2>1, <2>2 DEF TypeOK
<1>5. /\ worker'[w] = Idle \/ (worker'[w].pc = "sending" /\ worker'[w].task = t)
      /\ \A v \in Workers : v # w => worker'[v] = worker[v]
  <2>1. worker \in [Workers -> Worker]
    BY DEF TypeOK
  <2> QED
    BY <1>2, <1>3, <2>1 DEF Worker
<1>6. /\ msg' \in [MessageIds -> MessageStatus]
      /\ \A m \in MessageIds : msg'[m] = msg[m] \/ msg'[m] \in {"sending", "sent", "send_failed"}
  <2>1. \/ msg' = msg
        \/ \E status \in {"sending", "sent", "send_failed"} :
              msg' = [msg EXCEPT ![tasks[t].msg] = status]
    BY DEF Replies, AutoSend, AutoSkip, AutoSent, AutoSendFailed
  <2>2. msg \in [MessageIds -> MessageStatus]
    BY DEF TypeOK
  <2> QED
    BY <1>2, <2>1, <2>2 DEF MessageStatus, Decided
<1>7. /\ armed' \in {"off", "on", "expired"} /\ failures' \in Nat /\ dailySent' \in Nat
      /\ UNCHANGED <<tasks, lastTask, memory, process>>
  BY SMTT(30) DEF Replies, AutoSend, AutoSkip, AutoSent, AutoSendFailed, unattended, Checked, TypeOK
<1> QED
  BY <1>1, <1>2, <1>4, <1>5, <1>6, <1>7

\* A cancellation ends a pending task at once and notes it in a running one.
LEMMA CancelType ==
  ASSUME TypeOK, NEW t \in TaskIds, Cancel(t)
  PROVE  /\ tasks' \in [TaskIds -> Task]
         /\ tasks'[t].msg = tasks[t].msg /\ tasks'[t].auto = tasks[t].auto
         /\ \A u \in TaskIds : u # t => tasks'[u] = tasks[u]
         /\ msg' \in [MessageIds -> MessageStatus]
         /\ \A m \in MessageIds : m # tasks[t].msg => msg'[m] = msg[m]
         /\ \/ /\ tasks[t].status = "pending" /\ tasks'[t].status = "cancelled"
               /\ msg'[tasks[t].msg] \notin {"ai_queued", "ai_generating"}
            \/ /\ tasks[t].status = "running" /\ tasks'[t].status = "running"
               /\ msg' = msg
         /\ UNCHANGED <<lastTask, worker, memory, unattended, process>>
<1>1. tasks[t] \in Task /\ tasks[t].msg \in MessageIds
  BY DEF TypeOK, Task
<1>2. tasks[t].status \in {"pending", "running"}
  BY DEF Cancel, Active
<1>3. [tasks EXCEPT ![t].cancel = TRUE] \in [TaskIds -> Task]
  <2>1. [tasks[t] EXCEPT !.cancel = TRUE] \in Task
    BY <1>1 DEF Task
  <2> QED
    BY <2>1 DEF TypeOK
<1>4. [tasks EXCEPT ![t].cancel = TRUE, ![t].status = "cancelled"] \in [TaskIds -> Task]
  <2>1. [[tasks[t] EXCEPT !.cancel = TRUE] EXCEPT !.status = "cancelled"] \in Task
    BY <1>1 DEF Task
  <2> QED
    BY <2>1 DEF TypeOK
<1>5. tasks' \in [TaskIds -> Task]
  BY <1>3, <1>4 DEF Cancel
<1>6. /\ tasks'[t].msg = tasks[t].msg /\ tasks'[t].auto = tasks[t].auto
      /\ \A u \in TaskIds : u # t => tasks'[u] = tasks[u]
      /\ tasks'[t].status = IF tasks[t].status = "pending" THEN "cancelled" ELSE tasks[t].status
  <2>1. tasks \in [TaskIds -> Task]
    BY DEF TypeOK
  <2> QED
    BY <1>1, <2>1 DEF Cancel, Task
<1>7. CASE tasks[t].status = "pending"
  <2>1. msg' = Marked(tasks[t].msg, "ai_cancelled") /\ msg \in [MessageIds -> MessageStatus]
    BY <1>7 DEF Cancel, TypeOK
  <2>2. /\ msg' \in [MessageIds -> MessageStatus]
        /\ \A m \in MessageIds : m # tasks[t].msg => msg'[m] = msg[m]
        /\ msg'[tasks[t].msg] \notin {"ai_queued", "ai_generating"}
    BY <1>1, <2>1 DEF Marked, MessageStatus, Decided
  <2> QED
    BY <1>5, <1>6, <1>7, <2>2 DEF Cancel
<1>8. CASE tasks[t].status = "running"
  BY <1>5, <1>6, <1>8 DEF Cancel, TypeOK
<1> QED
  BY <1>2, <1>7, <1>8

\* A stop and a restart give the rows and the messages back to the queue.
LEMMA RequeuedType ==
  ASSUME TypeOK
  PROVE  /\ Requeued \in [MessageIds -> MessageStatus]
         /\ \A m \in MessageIds :
               \/ Requeued[m] = msg[m]
               \/ Requeued[m] = "ai_queued" /\ \E t \in Returning : tasks[t].msg = m
BY DEF Requeued, TypeOK, MessageStatus

LEMMA HaltType ==
  ASSUME TypeOK, Halt, UNCHANGED setup
  PROVE  /\ queue' \in [BOOLEAN -> Seq(1..lastTask)] /\ \A auto \in BOOLEAN : queue'[auto] = <<>>
         /\ recovered' = <<>> /\ putting' = {} /\ proc' = "down"
         /\ worker' \in [Workers -> Worker] /\ \A w \in Workers : worker'[w] = Idle
         /\ inFlight' \in [MessageIds -> 0..MaxInFlight]
         /\ restarts' \in 0..setup.restarts /\ restarts' > 0
<1>1. Idle \in Worker
  BY DEF Idle, Worker
<1>2. worker' \in [Workers -> Worker] /\ \A w \in Workers : worker'[w] = Idle
  BY <1>1 DEF Halt
<1>3. restarts' \in 0..setup.restarts /\ restarts' > 0
  <2>1. setup.restarts \in Nat
    <3>1. setup \in Setups
      BY DEF TypeOK
    <3> QED
      BY <3>1, SetupType
  <2>2. restarts \in 0..setup.restarts
    BY DEF TypeOK
  <2> QED
    BY <2>1, <2>2 DEF Halt
<1>4. 0 \in 0..MaxInFlight
  OBVIOUS
<1> QED
  BY <1>2, <1>3, <1>4 DEF Halt

LEMMA StopType ==
  ASSUME TypeOK, Stop
  PROVE  /\ tasks' \in [TaskIds -> Task]
         /\ \A t \in TaskIds :
               /\ tasks'[t].msg = tasks[t].msg
               /\ tasks'[t].status = IF t \in Returning THEN "pending" ELSE tasks[t].status
         /\ msg' = Requeued /\ Halt /\ proc = "up" /\ UNCHANGED <<lastTask, unattended, setup>>
<1>1. ASSUME NEW t \in TaskIds
      PROVE  [tasks[t] EXCEPT !.status = "pending"] \in Task
  <2>1. tasks[t] \in Task
    BY DEF TypeOK
  <2> QED
    BY <2>1 DEF Task
<1>2. tasks' \in [TaskIds -> Task]
  BY <1>1 DEF Stop, TypeOK
<1>3. ASSUME NEW t \in TaskIds
      PROVE  /\ tasks'[t].msg = tasks[t].msg
             /\ tasks'[t].status = IF t \in Returning THEN "pending" ELSE tasks[t].status
  BY DEF Stop, TypeOK, Task
<1> QED
  BY <1>2, <1>3 DEF Stop

\* A restart: a running task is pending again, or cancelled when that was asked
\* for, and the pending tasks are in the queue or wait in recovered.
LEMMA RecoveredType ==
  ASSUME TypeOK
  PROVE  /\ Recovered \in [TaskIds -> Task]
         /\ \A t \in TaskIds :
               /\ Recovered[t].msg = tasks[t].msg /\ Recovered[t].auto = tasks[t].auto
               /\ Recovered[t].status = IF tasks[t].status # "running" THEN tasks[t].status
                                        ELSE IF tasks[t].cancel THEN "cancelled" ELSE "pending"
<1>1. ASSUME NEW t \in TaskIds
      PROVE  [tasks[t] EXCEPT !.status = IF tasks[t].cancel THEN "cancelled" ELSE "pending"] \in Task
  <2>1. tasks[t] \in Task
    BY DEF TypeOK
  <2>2. [tasks[t] EXCEPT !.status = "cancelled"] \in Task /\ [tasks[t] EXCEPT !.status = "pending"] \in Task
    BY <2>1 DEF Task
  <2> QED
    BY <2>2
<1>2. Recovered \in [TaskIds -> Task]
  BY <1>1 DEF Recovered, TypeOK
<1>3. ASSUME NEW t \in TaskIds
      PROVE  /\ Recovered[t].msg = tasks[t].msg /\ Recovered[t].auto = tasks[t].auto
             /\ Recovered[t].status = IF tasks[t].status # "running" THEN tasks[t].status
                                      ELSE IF tasks[t].cancel THEN "cancelled" ELSE "pending"
  BY DEF Recovered, TypeOK, Task
<1> QED
  BY <1>2, <1>3

LEMMA StartType ==
  ASSUME TypeOK, Start
  PROVE  /\ proc = "down" /\ tasks' = Recovered /\ msg' = Requeued
         /\ queue' \in [BOOLEAN -> Seq(1..lastTask)] /\ recovered' \in Seq(1..lastTask)
         /\ \A t \in 1..lastTask : tasks'[t].status = "pending" =>
               \/ \E auto \in BOOLEAN : \E i \in 1..Len(queue'[auto]) : queue'[auto][i] = t
               \/ \E i \in 1..Len(recovered') : recovered'[i] = t
         /\ proc' = IF recovered' = <<>> THEN "up" ELSE "starting"
         /\ UNCHANGED <<lastTask, putting, worker, inFlight, unattended, restarts, setup>>
<1> DEFINE pending == {t \in 1..lastTask : Recovered[t].status = "pending"}
           fits == {t \in pending : Cardinality({u \in pending : u < t}) < QueueSize}
           first == {t \in fits : tasks[t].auto}
           second == {t \in fits : ~tasks[t].auto}
           later == pending \ fits
<1>1. /\ proc = "down" /\ tasks' = Recovered /\ msg' = Requeued
      /\ proc' = IF recovered' = <<>> THEN "up" ELSE "starting"
      /\ UNCHANGED <<lastTask, putting, worker, inFlight, unattended, restarts, setup>>
      /\ recovered' \in InOrder(later)
      /\ \E automatic \in InOrder(first), manual \in InOrder(second) :
            queue' = [auto \in BOOLEAN |-> IF auto THEN automatic ELSE manual]
  BY Zenon DEF Start
<1>2. PICK automatic \in InOrder(first), manual \in InOrder(second) :
        queue' = [auto \in BOOLEAN |-> IF auto THEN automatic ELSE manual]
  BY <1>1
<1>3. /\ lastTask \in Nat /\ later \in SUBSET (1..lastTask)
      /\ first \in SUBSET (1..lastTask) /\ second \in SUBSET (1..lastTask)
      /\ \A t \in pending : t \in first \/ t \in second \/ t \in later
  BY DEF TypeOK
<1> HIDE DEF fits, first, second, later
<1>4. /\ automatic \in Seq(1..lastTask)
      /\ \A t \in first : \E i \in 1..Len(automatic) : automatic[i] = t
  BY <1>2, <1>3, InOrderHas
<1>5. /\ manual \in Seq(1..lastTask)
      /\ \A t \in second : \E i \in 1..Len(manual) : manual[i] = t
  BY <1>2, <1>3, InOrderHas
<1>6. /\ recovered' \in Seq(1..lastTask)
      /\ \A t \in later : \E i \in 1..Len(recovered') : recovered'[i] = t
  <2>1. recovered' \in InOrder(later)
    BY <1>1
  <2>2. lastTask \in Nat /\ later \in SUBSET (1..lastTask)
    BY <1>3
  <2> QED
    BY <2>1, <2>2, InOrderHas
<1>7. queue' \in [BOOLEAN -> Seq(1..lastTask)] /\ queue'[TRUE] = automatic /\ queue'[FALSE] = manual
  BY <1>2, <1>4, <1>5
<1>8. \A t \in 1..lastTask : tasks'[t].status = "pending" =>
         \/ \E auto \in BOOLEAN : \E i \in 1..Len(queue'[auto]) : queue'[auto][i] = t
         \/ \E i \in 1..Len(recovered') : recovered'[i] = t
  <2> SUFFICES ASSUME NEW t \in 1..lastTask, tasks'[t].status = "pending"
               PROVE  \/ \E auto \in BOOLEAN : \E i \in 1..Len(queue'[auto]) : queue'[auto][i] = t
                      \/ \E i \in 1..Len(recovered') : recovered'[i] = t
    OBVIOUS
  <2>1. t \in pending
    BY <1>1
  <2>2. CASE t \in first
    BY <1>4, <1>7, <2>2
  <2>3. CASE t \in second
    BY <1>5, <1>7, <2>3
  <2>4. CASE t \in later
    BY <1>6, <2>4
  <2> QED
    BY <1>3, <2>1, <2>2, <2>3, <2>4
<1> QED
  BY <1>1, <1>6, <1>7, <1>8

LEMMA PutRecoveredType ==
  ASSUME TypeOK, Resting, PutRecovered
  PROVE  /\ proc = "starting" /\ recovered # <<>>
         /\ Head(recovered) \in 1..lastTask /\ tasks[Head(recovered)].auto \in BOOLEAN
         /\ queue' \in [BOOLEAN -> Seq(1..lastTask)] /\ recovered' \in Seq(1..lastTask)
<1>1. proc = "starting" /\ recovered # <<>> /\ recovered \in Seq(1..lastTask)
  BY DEF PutRecovered, Resting, TypeOK
<1>2. Head(recovered) \in 1..lastTask /\ Tail(recovered) \in Seq(1..lastTask)
  BY <1>1, TailHas
<1>3. tasks[Head(recovered)].auto \in BOOLEAN
  <2>1. Head(recovered) \in TaskIds
    BY <1>2 DEF TypeOK, TaskIds
  <2> QED
    BY <2>1 DEF TypeOK, Task
<1>4. \A auto \in BOOLEAN : Append(queue[auto], Head(recovered)) \in Seq(1..lastTask)
  BY <1>2, AppendHas DEF TypeOK
<1> QED
  BY <1>1, <1>2, <1>3, <1>4 DEF PutRecovered, TypeOK

LEMMA PutType ==
  ASSUME TypeOK, NEW t \in TaskIds, Put(t)
  PROVE  /\ t \in 1..lastTask /\ tasks[t].auto \in BOOLEAN
         /\ queue' \in [BOOLEAN -> Seq(1..lastTask)] /\ putting' \subseteq 1..lastTask
<1>1. t \in 1..lastTask /\ putting' \subseteq 1..lastTask
  BY DEF Put, TypeOK
<1>2. tasks[t].auto \in BOOLEAN
  BY DEF TypeOK, Task
<1>3. \A auto \in BOOLEAN : Append(queue[auto], t) \in Seq(1..lastTask)
  BY <1>1, AppendHas DEF TypeOK
<1> QED
  BY <1>1, <1>2, <1>3 DEF Put, TypeOK

\* Every step is of one of these kinds.
LEMMA Kinds ==
  ASSUME Next
  PROVE  \/ Aside
         \/ \E m \in MessageIds, auto \in BOOLEAN :
               /\ Create(m, auto) /\ proc = "up"
               /\ UNCHANGED <<worker, recovered, inFlight, unattended, process>>
         \/ \E t \in TaskIds : Put(t) \/ Cancel(t)
         \/ PutRecovered \/ Stop \/ Crash \/ Start
         \/ \E w \in Workers :
               TakeStale(w) \/ PutBack(w) \/ Begin(w) \/ Ends(w) \/ Replies(w)
<1>1. ASSUME NEW m \in MessageIds, Regenerate(m)
      PROVE  /\ Create(m, FALSE) /\ proc = "up"
             /\ UNCHANGED <<worker, recovered, inFlight, unattended, process>>
  BY <1>1 DEF Regenerate
<1>2. ASSUME NEW m \in MessageIds, DraftImported(m)
      PROVE  /\ Create(m, TRUE) /\ proc = "up"
             /\ UNCHANGED <<worker, recovered, inFlight, unattended, process>>
  BY <1>2 DEF DraftImported
<1>3. CASE Requests
  BY <1>1, <1>2, <1>3 DEF Requests, Aside
<1>4. ASSUME NEW w \in Workers, Work(w)
      PROVE  TakeStale(w) \/ PutBack(w) \/ Begin(w) \/ Ends(w) \/ Replies(w)
  BY <1>4 DEF Work, Ends, Replies
<1> QED
  BY <1>3, <1>4 DEF Next, Puts, Clock, Aside

\* A step keeps the types when it keeps the parts of TypeOK one by one.
LEMMA TypeParts ==
  ASSUME msg' \in [MessageIds -> MessageStatus],
         tasks' \in [TaskIds -> Task], lastTask' \in 0..MaxTasks,
         \A t \in TaskIds : t > lastTask' <=> tasks'[t].status = "none",
         queue' \in [BOOLEAN -> Seq(1..lastTask')], putting' \subseteq 1..lastTask',
         recovered' \in Seq(1..lastTask'), worker' \in [Workers -> Worker],
         \A w \in Workers : worker'[w].pc # "idle" => worker'[w].task \in 1..lastTask',
         inFlight' \in [MessageIds -> 0..MaxInFlight],
         armed' \in {"off", "on", "expired"}, failures' \in Nat, dailySent' \in Nat,
         proc' \in {"down", "starting", "up"},
         setup' \in Setups, restarts' \in 0..setup'.restarts
  PROVE  TypeOK'
<1>1. \A w \in Holding' : worker'[w].task \in 1..lastTask'
  BY DEF Holding
<1> QED
  BY <1>1 DEF TypeOK

LEMMA TypeNow ==
  ASSUME TypeOK
  PROVE  /\ lastTask \in Nat /\ tasks \in [TaskIds -> Task] /\ worker \in [Workers -> Worker]
         /\ \A w \in Workers : worker[w].pc # "idle" => worker[w].task \in 1..lastTask
         /\ \A t \in TaskIds : t > lastTask <=> tasks[t].status = "none"
         /\ \A t \in TaskIds : Conversation[tasks[t].msg] \in Conversations
<1>1. \A w \in Workers : worker[w].pc # "idle" => worker[w].task \in 1..lastTask
  BY WorkerTask
<1>2. \A t \in TaskIds : tasks[t].msg \in MessageIds
  BY DEF TypeOK, Task
<1> QED
  BY <1>1, <1>2 DEF TypeOK

LEMMA TypeStep == TypeInv /\ [Next]_vars => TypeInv'
<1> SUFFICES ASSUME TypeInv, [Next]_vars PROVE TypeInv'
  OBVIOUS
<1> USE DEF TypeInv, memory, unattended, process
<1>1. CASE UNCHANGED vars
  <2>1. TypeOK'
    BY <1>1 DEF vars, TypeOK, Holding
  <2> QED
    BY <1>1, <2>1 DEF vars, Resting
<1>2. CASE Aside
  <2>1. TypeOK'
    BY <1>2, AsideType, TypeNow, TypeParts DEF TypeOK, queueing
  <2> QED
    BY <1>2, <2>1, AsideType DEF Resting, queueing
<1>3. ASSUME NEW m \in MessageIds, NEW auto \in BOOLEAN, Create(m, auto), proc = "up",
             UNCHANGED <<worker, recovered, inFlight, unattended, process>>
      PROVE  TypeInv'
  <2>1. /\ \A t \in TaskIds : t > lastTask' <=> tasks'[t].status = "none"
        /\ lastTask' \in 0..MaxTasks
    BY <1>3, CreateType, TypeNow DEF TaskIds
  <2>2. recovered' \in Seq(1..lastTask')
    BY <1>3, CreateType, TypeNow, SeqGrows DEF TypeOK
  <2>3. \A w \in Workers : worker'[w].pc # "idle" => worker'[w].task \in 1..lastTask'
    BY <1>3, CreateType, TypeNow
  <2>4. /\ worker' \in [Workers -> Worker] /\ inFlight' \in [MessageIds -> 0..MaxInFlight]
        /\ armed' \in {"off", "on", "expired"} /\ failures' \in Nat /\ dailySent' \in Nat
        /\ proc' \in {"down", "starting", "up"}
        /\ setup' \in Setups /\ restarts' \in 0..setup'.restarts
    BY <1>3 DEF TypeOK
  <2>5. /\ msg' \in [MessageIds -> MessageStatus] /\ tasks' \in [TaskIds -> Task]
        /\ queue' \in [BOOLEAN -> Seq(1..lastTask')] /\ putting' \subseteq 1..lastTask'
    BY <1>3, CreateType
  <2>6. TypeOK'
    BY <2>1, <2>2, <2>3, <2>4, <2>5, TypeParts
  <2> QED
    BY <1>3, <2>6 DEF Resting
<1>4. ASSUME NEW t \in TaskIds, Put(t) PROVE TypeInv'
  <2>1. TypeOK'
    BY <1>4, PutType, TypeNow, TypeParts DEF TypeOK, Put
  <2> QED
    BY <1>4, <2>1 DEF Resting, Put
<1>5. ASSUME NEW t \in TaskIds, Cancel(t) PROVE TypeInv'
  <2>1. \A u \in TaskIds : u > lastTask' <=> tasks'[u].status = "none"
    BY <1>5, CancelType, TypeNow
  <2>2. TypeOK'
    BY <1>5, <2>1, CancelType, TypeNow, TypeParts DEF TypeOK
  <2> QED
    BY <1>5, <2>2, CancelType DEF Resting
<1>6. CASE PutRecovered
  <2>1. TypeOK'
    BY <1>6, PutRecoveredType, TypeNow, TypeParts DEF TypeOK, PutRecovered
  <2> QED
    BY <1>6, <2>1 DEF Resting, PutRecovered
<1>7. CASE Stop
  <2>1. \A t \in TaskIds : t > lastTask' <=> tasks'[t].status = "none"
    BY <1>7, StopType, TypeNow DEF Returning
  <2>2. Halt /\ UNCHANGED setup
    BY <1>7, StopType
  <2>3. /\ msg' \in [MessageIds -> MessageStatus] /\ tasks' \in [TaskIds -> Task]
        /\ UNCHANGED <<lastTask, unattended, setup>>
    BY <1>7, StopType, RequeuedType
  <2>4. /\ lastTask' \in 0..MaxTasks /\ putting' \subseteq 1..lastTask'
        /\ armed' \in {"off", "on", "expired"} /\ failures' \in Nat /\ dailySent' \in Nat
        /\ proc' \in {"down", "starting", "up"}
        /\ setup' \in Setups /\ restarts' \in 0..setup'.restarts
        /\ inFlight' \in [MessageIds -> 0..MaxInFlight]
    BY <2>2, <2>3, HaltType DEF TypeOK
  <2>5. /\ queue' \in [BOOLEAN -> Seq(1..lastTask')] /\ recovered' \in Seq(1..lastTask')
        /\ worker' \in [Workers -> Worker] /\ \A w \in Workers : worker'[w].pc = "idle"
    BY <2>2, <2>3, HaltType DEF Idle
  <2>6. TypeOK'
    BY <2>1, <2>3, <2>4, <2>5, TypeParts
  <2> QED
    BY <2>2, <2>6, HaltType DEF Resting
<1>8. CASE Crash
  <2>1. Halt /\ UNCHANGED <<msg, tasks, lastTask, unattended, setup>>
    BY <1>8 DEF Crash
  <2>2. /\ lastTask' \in 0..MaxTasks /\ putting' \subseteq 1..lastTask'
        /\ armed' \in {"off", "on", "expired"} /\ failures' \in Nat /\ dailySent' \in Nat
        /\ proc' \in {"down", "starting", "up"}
        /\ setup' \in Setups /\ restarts' \in 0..setup'.restarts
        /\ inFlight' \in [MessageIds -> 0..MaxInFlight]
    BY <2>1, HaltType DEF TypeOK
  <2>3. /\ queue' \in [BOOLEAN -> Seq(1..lastTask')] /\ recovered' \in Seq(1..lastTask')
        /\ worker' \in [Workers -> Worker] /\ \A w \in Workers : worker'[w].pc = "idle"
    BY <2>1, HaltType DEF Idle
  <2>4. /\ msg' \in [MessageIds -> MessageStatus] /\ tasks' \in [TaskIds -> Task]
        /\ \A t \in TaskIds : t > lastTask' <=> tasks'[t].status = "none"
    BY <2>1 DEF TypeOK
  <2>5. TypeOK'
    BY <2>2, <2>3, <2>4, TypeParts
  <2> QED
    BY <2>1, <2>5, HaltType DEF Resting
<1>9. CASE Start
  <2>1. \A t \in TaskIds : t > lastTask' <=> tasks'[t].status = "none"
    BY <1>9, StartType, RecoveredType, TypeNow
  <2>2. /\ msg' \in [MessageIds -> MessageStatus] /\ tasks' \in [TaskIds -> Task]
        /\ queue' \in [BOOLEAN -> Seq(1..lastTask')] /\ recovered' \in Seq(1..lastTask')
        /\ proc' \in {"down", "starting", "up"}
    BY <1>9, StartType, RecoveredType, RequeuedType
  <2>3. UNCHANGED <<lastTask, putting, worker, inFlight, unattended, restarts, setup>>
    BY <1>9, StartType
  <2>4. /\ lastTask' \in 0..MaxTasks /\ putting' \subseteq 1..lastTask'
        /\ worker' \in [Workers -> Worker] /\ inFlight' \in [MessageIds -> 0..MaxInFlight]
        /\ armed' \in {"off", "on", "expired"} /\ failures' \in Nat /\ dailySent' \in Nat
        /\ setup' \in Setups /\ restarts' \in 0..setup'.restarts
    BY <2>3 DEF TypeOK
  <2>5. \A w \in Workers : worker'[w].pc # "idle" => worker'[w].task \in 1..lastTask'
    BY <2>3, TypeNow
  <2>6. TypeOK'
    BY <2>1, <2>2, <2>4, <2>5, TypeParts
  <2> QED
    BY <1>9, <2>6, StartType DEF Resting
<1>10. ASSUME NEW w \in Workers, TakeStale(w) \/ PutBack(w) PROVE TypeInv'
  <2>1. TypeOK'
    BY <1>10, TakeType, TypeNow, TypeParts DEF TypeOK
  <2> QED
    BY <1>10, <2>1, TakeType DEF Resting, TakeStale, PutBack, Takes
<1>11. ASSUME NEW w \in Workers, Begin(w) PROVE TypeInv'
  <2>1. \A t \in TaskIds : t > lastTask' <=> tasks'[t].status = "none"
    BY <1>11, BeginType, TypeNow DEF Begin
  <2>2. /\ msg' \in [MessageIds -> MessageStatus] /\ tasks' \in [TaskIds -> Task]
        /\ queue' \in [BOOLEAN -> Seq(1..lastTask)] /\ worker' \in [Workers -> Worker]
    BY <1>11, BeginType
  <2>3. UNCHANGED <<lastTask, putting, recovered, inFlight, unattended, process>>
    BY <1>11 DEF Begin
  <2>4. \A v \in Workers : worker'[v].pc # "idle" => worker'[v].task \in 1..lastTask'
    BY <1>11, <2>3, BeginType, TypeNow
  <2>5. /\ lastTask' \in 0..MaxTasks /\ putting' \subseteq 1..lastTask'
        /\ recovered' \in Seq(1..lastTask') /\ inFlight' \in [MessageIds -> 0..MaxInFlight]
        /\ armed' \in {"off", "on", "expired"} /\ failures' \in Nat /\ dailySent' \in Nat
        /\ proc' \in {"down", "starting", "up"}
        /\ setup' \in Setups /\ restarts' \in 0..setup'.restarts
    BY <2>3 DEF TypeOK
  <2>6. TypeOK'
    BY <2>1, <2>2, <2>3, <2>4, <2>5, TypeParts
  <2> QED
    BY <1>11, <2>3, <2>6, BeginType DEF Resting
<1>12. ASSUME NEW w \in Workers, Ends(w) PROVE TypeInv'
  <2>1. \A t \in TaskIds : t > lastTask' <=> tasks'[t].status = "none"
    BY <1>12, EndsType, TypeNow
  <2>2. /\ msg' \in [MessageIds -> MessageStatus] /\ tasks' \in [TaskIds -> Task]
        /\ worker' \in [Workers -> Worker] /\ armed' \in {armed, "off"}
    BY <1>12, EndsType
  <2>3. UNCHANGED <<lastTask, memory, failures, dailySent, process>>
    BY <1>12, EndsType
  <2>4. \A v \in Workers : worker'[v].pc # "idle" => worker'[v].task \in 1..lastTask'
    BY <1>12, <2>3, EndsType, TypeNow
  <2>5. /\ lastTask' \in 0..MaxTasks /\ putting' \subseteq 1..lastTask'
        /\ queue' \in [BOOLEAN -> Seq(1..lastTask')]
        /\ recovered' \in Seq(1..lastTask') /\ inFlight' \in [MessageIds -> 0..MaxInFlight]
        /\ armed' \in {"off", "on", "expired"} /\ failures' \in Nat /\ dailySent' \in Nat
        /\ proc' \in {"down", "starting", "up"}
        /\ setup' \in Setups /\ restarts' \in 0..setup'.restarts
    BY <2>2, <2>3 DEF TypeOK
  <2>6. TypeOK'
    BY <2>1, <2>2, <2>4, <2>5, TypeParts
  <2>7. proc # "down"
    BY <1>12, EndsType DEF Resting, Idle
  <2> QED
    BY <2>3, <2>6, <2>7 DEF Resting
<1>13. ASSUME NEW w \in Workers, Replies(w) PROVE TypeInv'
  <2>1. /\ msg' \in [MessageIds -> MessageStatus] /\ worker' \in [Workers -> Worker]
        /\ armed' \in {"off", "on", "expired"} /\ failures' \in Nat /\ dailySent' \in Nat
    BY <1>13, RepliesType
  <2>2. UNCHANGED <<tasks, lastTask, memory, process>>
    BY <1>13, RepliesType
  <2>3. \A v \in Workers : worker'[v].pc # "idle" => worker'[v].task \in 1..lastTask'
    BY <1>13, <2>2, RepliesType, TypeNow DEF Idle
  <2>4. /\ tasks' \in [TaskIds -> Task] /\ lastTask' \in 0..MaxTasks
        /\ putting' \subseteq 1..lastTask' /\ queue' \in [BOOLEAN -> Seq(1..lastTask')]
        /\ recovered' \in Seq(1..lastTask') /\ inFlight' \in [MessageIds -> 0..MaxInFlight]
        /\ proc' \in {"down", "starting", "up"}
        /\ setup' \in Setups /\ restarts' \in 0..setup'.restarts
        /\ \A t \in TaskIds : t > lastTask' <=> tasks'[t].status = "none"
    BY <2>2 DEF TypeOK
  <2>5. TypeOK'
    BY <2>1, <2>3, <2>4, TypeParts
  <2>6. proc # "down"
    BY <1>13, RepliesType DEF Resting, Idle
  <2> QED
    BY <2>2, <2>5, <2>6 DEF Resting
<1> QED
  BY <1>1, <1>2, <1>3, <1>4, <1>5, <1>6, <1>7, <1>8, <1>9, <1>10, <1>11, <1>12, <1>13, Kinds

LEMMA TypeInvariant == Spec => []TypeInv
<1>1. Init => TypeInv
  BY TypeInit
<1>2. TypeInv /\ [Next]_vars => TypeInv'
  BY TypeStep
<1> QED
  BY <1>1, <1>2, PTL DEF Spec

\* Rows, queue, workers and counters keep their types, whatever is asked, cancelled,
\* stopped and recovered (the handlers of ai_queue.py, actions.py, automation.py).
THEOREM TypesHold == Spec => []TypeOK
<1>1. TypeInv => TypeOK
  BY DEF TypeInv
<1> QED
  BY <1>1, TypeInvariant, PTL

-----------------------------------------------------------------------------
(* A conversation has one worker.                                          *)

\* A step that gives no worker a new task keeps the conversations apart.
LEMMA AloneKept ==
  ASSUME TypeOK, OneWorkerPerConversation,
         \A w \in Workers : worker'[w].pc # "idle" =>
               worker[w].pc # "idle" /\ worker'[w].task = worker[w].task,
         \A t \in TaskIds : t <= lastTask => tasks'[t].msg = tasks[t].msg
  PROVE  OneWorkerPerConversation'
<1> SUFFICES ASSUME NEW v \in Holding', NEW w \in Holding', v # w
             PROVE  ConversationOf(worker[v].task)' # ConversationOf(worker[w].task)'
  BY DEF OneWorkerPerConversation
<1>1. v \in Workers /\ w \in Workers /\ worker'[v].pc # "idle" /\ worker'[w].pc # "idle"
  BY DEF Holding
<1>2. /\ v \in Holding /\ w \in Holding
      /\ worker'[v].task = worker[v].task /\ worker'[w].task = worker[w].task
      /\ worker[v].task \in TaskIds /\ worker[v].task \in 1..lastTask
      /\ worker[w].task \in TaskIds /\ worker[w].task \in 1..lastTask
  BY <1>1, WorkerTask
<1>3. lastTask \in Nat
  BY DEF TypeOK
<1>4. /\ tasks'[worker[v].task].msg = tasks[worker[v].task].msg
      /\ tasks'[worker[w].task].msg = tasks[worker[w].task].msg
  BY <1>2, <1>3
<1>5. ConversationOf(worker[v].task) # ConversationOf(worker[w].task)
  BY <1>2 DEF OneWorkerPerConversation
<1> QED
  BY <1>2, <1>4, <1>5 DEF ConversationOf

LEMMA AloneStep ==
  TypeInv /\ OneWorkerPerConversation /\ [Next]_vars => OneWorkerPerConversation'
<1> SUFFICES ASSUME TypeOK, Resting, OneWorkerPerConversation, [Next]_vars
             PROVE  OneWorkerPerConversation'
  BY DEF TypeInv
<1> USE DEF memory, unattended, process
<1>1. CASE UNCHANGED vars
  BY <1>1, AloneKept DEF vars
<1>2. CASE Aside
  BY <1>2, AsideType, AloneKept DEF queueing
<1>3. ASSUME NEW m \in MessageIds, NEW auto \in BOOLEAN, Create(m, auto), UNCHANGED worker
      PROVE  OneWorkerPerConversation'
  <2>1. \A t \in TaskIds : t <= lastTask => tasks'[t].msg = tasks[t].msg
    BY <1>3, CreateType, TypeNow
  <2> QED
    BY <1>3, <2>1, AloneKept
<1>4. ASSUME NEW t \in TaskIds, Put(t) PROVE OneWorkerPerConversation'
  BY <1>4, AloneKept DEF Put
<1>5. ASSUME NEW t \in TaskIds, Cancel(t) PROVE OneWorkerPerConversation'
  <2>1. \A u \in TaskIds : u <= lastTask => tasks'[u].msg = tasks[u].msg
    BY <1>5, CancelType
  <2> QED
    BY <1>5, <2>1, CancelType, AloneKept
<1>6. CASE PutRecovered
  BY <1>6, AloneKept DEF PutRecovered
<1>7. CASE Stop
  BY <1>7, StopType, HaltType, AloneKept DEF Idle
<1>8. CASE Crash
  BY <1>8, HaltType, AloneKept DEF Crash, Idle
<1>9. CASE Start
  <2>1. \A u \in TaskIds : u <= lastTask => tasks'[u].msg = tasks[u].msg
    BY <1>9, StartType, RecoveredType
  <2> QED
    BY <1>9, <2>1, StartType, AloneKept
<1>10. ASSUME NEW w \in Workers, TakeStale(w) \/ PutBack(w) PROVE OneWorkerPerConversation'
  BY <1>10, TakeType, AloneKept
<1>11. ASSUME NEW w \in Workers, Begin(w) PROVE OneWorkerPerConversation'
  <2>1. \A u \in TaskIds : tasks'[u].msg = tasks[u].msg
    BY <1>11, BeginType
  <2>2. \A v \in Holding' : v = w \/ (v \in Holding /\ worker'[v] = worker[v])
    BY <1>11, BeginType DEF Holding
  <2>3. \A v \in Holding : ConversationOf(worker[v].task) # ConversationOf(NextTask)
    BY <1>11 DEF Begin, Busy
  <2>4. worker'[w].task = NextTask /\ NextTask \in TaskIds
    BY <1>11, BeginType
  <2>5. \A v \in Holding : worker[v].task \in TaskIds
    BY WorkerTask DEF Holding
  <2>6. \A u \in TaskIds : ConversationOf(u)' = ConversationOf(u)
    BY <2>1 DEF ConversationOf
  <2> QED
    BY <2>2, <2>3, <2>4, <2>5, <2>6, SMTT(30) DEF OneWorkerPerConversation, ConversationOf
<1>12. ASSUME NEW w \in Workers, Ends(w) PROVE OneWorkerPerConversation'
  <2>1. \A u \in TaskIds : tasks'[u].msg = tasks[u].msg
    BY <1>12, EndsType
  <2> QED
    BY <1>12, <2>1, EndsType, AloneKept
<1>13. ASSUME NEW w \in Workers, Replies(w) PROVE OneWorkerPerConversation'
  BY <1>13, RepliesType, AloneKept DEF Idle
<1> QED
  BY <1>1, <1>2, <1>3, <1>4, <1>5, <1>6, <1>7, <1>8, <1>9, <1>10, <1>11, <1>12, <1>13, Kinds

-----------------------------------------------------------------------------
(* Tasks are in hand.                                                      *)

LEMMA QueueHas ==
    /\ \A t : InQueue(t) <=> \E auto \in BOOLEAN : Has(queue[auto], t)
    /\ \A t : InQueue(t)' <=> \E auto \in BOOLEAN : Has(queue'[auto], t)
BY DEF InQueue, Has

\* A task is put into the queue.
LEMMA PutHas ==
  ASSUME TypeOK, NEW auto \in BOOLEAN, NEW t \in 1..lastTask',
         lastTask' \in {lastTask, lastTask + 1},
         queue' = [queue EXCEPT ![auto] = Append(@, t)]
  PROVE  \A u : InQueue(u) \/ u = t => InQueue(u)'
<1>1. \A a \in BOOLEAN : queue[a] \in Seq(1..lastTask')
  BY SeqGrows DEF TypeOK
<1>2. queue'[auto] = Append(queue[auto], t) /\ \A a \in BOOLEAN : a # auto => queue'[a] = queue[a]
  BY DEF TypeOK
<1>3. \A u : Has(queue'[auto], u) <=> Has(queue[auto], u) \/ u = t
  <2> DEFINE S == 1..lastTask'
  <2>1. queue[auto] \in Seq(S) /\ t \in S
    BY <1>1
  <2> HIDE DEF S
  <2>2. \A u : Has(Append(queue[auto], t), u) <=> Has(queue[auto], u) \/ u = t
    BY <2>1, AppendHas
  <2> QED
    BY <1>2, <2>2
<1> QED
  BY <1>1, <1>2, <1>3, QueueHas

\* The next task is taken from the queue.
LEMMA PopHas ==
  ASSUME TypeOK, queue # [auto \in BOOLEAN |-> <<>>], queue' = Popped
  PROVE  \A u : InQueue(u) /\ u # NextTask => InQueue(u)'
<1>1. NextClass \in BOOLEAN /\ queue[NextClass] # <<>> /\ queue[NextClass] \in Seq(1..lastTask)
  BY NextTaskHas DEF TypeOK
<1>2. queue'[NextClass] = Tail(queue[NextClass]) /\ NextTask = Head(queue[NextClass])
      /\ \A a \in BOOLEAN : a # NextClass => queue'[a] = queue[a]
  BY <1>1 DEF TypeOK, Popped, NextTask
<1>3. \A u : Has(queue[NextClass], u) <=> Has(queue'[NextClass], u) \/ u = NextTask
  BY <1>1, <1>2, TailHas
<1> QED
  BY <1>1, <1>2, <1>3, QueueHas

\* The next task goes back to the end.
LEMMA PutBackHas ==
  ASSUME TypeOK, NEW w \in Workers, PutBack(w)
  PROVE  \A u : InQueue(u) => InQueue(u)'
<1>1. NextClass \in BOOLEAN /\ queue[NextClass] # <<>> /\ queue[NextClass] \in Seq(1..lastTask)
      /\ NextTask \in 1..lastTask
  BY NextTaskHas DEF TypeOK, PutBack, Takes
<1>2. Tail(queue[NextClass]) \in Seq(1..lastTask) /\ NextTask = Head(queue[NextClass])
  BY <1>1, TailHas DEF NextTask
<1>3. queue'[NextClass] = Append(Tail(queue[NextClass]), NextTask)
      /\ \A a \in BOOLEAN : a # NextClass => queue'[a] = queue[a]
  BY <1>1 DEF TypeOK, PutBack
<1>4. \A u : Has(queue[NextClass], u) <=> Has(Tail(queue[NextClass]), u) \/ u = NextTask
  BY <1>1, <1>2, TailHas
<1>5. \A u : Has(queue'[NextClass], u) <=> Has(Tail(queue[NextClass]), u) \/ u = NextTask
  BY <1>1, <1>2, <1>3, AppendHas
<1> QED
  BY <1>1, <1>3, <1>4, <1>5, QueueHas

\* Where a pending task waits.
Waits(t) == InQueue(t) \/ t \in putting \/ \E i \in 1..Len(recovered) : recovered[i] = t

\* A step that moves no worker and loses no waiting task keeps the tasks in hand.
LEMMA HandKept ==
  ASSUME TypeOK, TasksInHand, proc # "down",
         \A t \in TaskIds : tasks'[t].status = "pending" =>
               Waits(t)' \/ (tasks[t].status = "pending" /\ (Waits(t) => Waits(t)')),
         \A t \in TaskIds : tasks'[t].status = "running" <=> tasks[t].status = "running",
         \A w \in Workers : worker'[w].pc = "generating" \/ worker[w].pc = "generating" =>
               worker'[w] = worker[w]
  PROVE  TasksInHand'
<1>1. ASSUME NEW t \in TaskIds, tasks'[t].status = "pending" PROVE Waits(t)'
  BY <1>1 DEF TasksInHand, Waits
<1>2. ASSUME NEW t \in TaskIds, tasks'[t].status = "running"
      PROVE  \E w \in Workers : worker'[w].pc = "generating" /\ worker'[w].task = t
  BY <1>2 DEF TasksInHand
<1>3. ASSUME NEW w \in Workers, worker'[w].pc = "generating"
      PROVE  tasks'[worker'[w].task].status = "running"
  <2>1. worker[w].pc = "generating" /\ worker'[w].task = worker[w].task
    BY <1>3
  <2>2. worker[w].task \in TaskIds
    BY <2>1, WorkerTask
  <2> QED
    BY <2>1, <2>2 DEF TasksInHand
<1> QED
  BY <1>1, <1>2, <1>3 DEF TasksInHand, Waits

LEMMA HandStep ==
  TypeInv /\ OneWorkerPerConversation /\ TasksInHand /\ [Next]_vars => TasksInHand'
<1> SUFFICES ASSUME TypeOK, Resting, OneWorkerPerConversation, TasksInHand, [Next]_vars,
                    proc' # "down"
             PROVE  TasksInHand'
  BY DEF TypeInv, TasksInHand
<1> USE DEF memory, unattended, process
<1>1. CASE UNCHANGED vars
  BY <1>1 DEF vars, TasksInHand, InQueue
<1>2. CASE Aside
  BY <1>2, AsideType DEF queueing, TasksInHand, InQueue
<1>3. ASSUME NEW m \in MessageIds, NEW auto \in BOOLEAN, Create(m, auto), proc = "up",
             UNCHANGED <<worker, recovered>>
      PROVE  TasksInHand'
  <2>1. lastTask' \in TaskIds /\ lastTask' \in 1..lastTask' /\ lastTask' = lastTask + 1
    BY <1>3, CreateType, TypeNow
  <2>2. tasks'[lastTask'].auto = auto
    BY <1>3, CreateType
  <2>3. \A t \in TaskIds : Waits(t) \/ t = lastTask' => Waits(t)'
    <3>1. CASE queue' = [queue EXCEPT ![auto] = Append(@, lastTask')] /\ UNCHANGED putting
      <4>1. \A u : InQueue(u) \/ u = lastTask' => InQueue(u)'
        BY <2>1, <3>1, PutHas
      <4> QED
        BY <1>3, <3>1, <4>1 DEF Waits
    <3>2. CASE putting' = putting \cup {lastTask'} /\ UNCHANGED queue
      BY <1>3, <3>2 DEF Waits, InQueue
    <3> QED
      BY <1>3, <2>1, <2>2, <3>1, <3>2 DEF Create, Enter
  <2>4. tasks[lastTask'].status = "none"
    BY <2>1, TypeNow
  <2>5. \A t \in TaskIds : tasks'[t].status = "running" <=> tasks[t].status = "running"
    BY <1>3, <2>4, CreateType
  <2>6. \A t \in TaskIds : tasks'[t].status = "pending" =>
               Waits(t)' \/ (tasks[t].status = "pending" /\ (Waits(t) => Waits(t)'))
    BY <1>3, <2>3, CreateType
  <2> QED
    BY <1>3, <2>5, <2>6, HandKept
<1>4. ASSUME NEW t \in TaskIds, Put(t) PROVE TasksInHand'
  <2>1. \A u : InQueue(u) \/ u = t => InQueue(u)'
    <3>1. t \in 1..lastTask' /\ lastTask' = lastTask /\ tasks[t].auto \in BOOLEAN
      BY <1>4, PutType DEF Put
    <3> QED
      BY <1>4, <3>1, PutHas DEF Put
  <2>2. \A u \in TaskIds : Waits(u) => Waits(u)'
    BY <1>4, <2>1 DEF Put, Waits
  <2> QED
    BY <1>4, <2>2, HandKept DEF Put
<1>5. ASSUME NEW t \in TaskIds, Cancel(t) PROVE TasksInHand'
  <2>1. \A u \in TaskIds : Waits(u) => Waits(u)'
    BY <1>5, CancelType DEF Waits, InQueue
  <2>2. proc # "down" /\ UNCHANGED worker
    BY <1>5, CancelType DEF Cancel
  <2>3. \A u \in TaskIds : /\ tasks'[u].status = "running" <=> tasks[u].status = "running"
                           /\ tasks'[u].status = "pending" => tasks[u].status = "pending"
    BY <1>5, CancelType
  <2> QED
    BY <2>1, <2>2, <2>3, HandKept
<1>6. CASE PutRecovered
  <2> DEFINE t == Head(recovered)
  <2>1. \A u : InQueue(u) \/ u = t => InQueue(u)'
    <3>1. t \in 1..lastTask' /\ lastTask' = lastTask /\ tasks[t].auto \in BOOLEAN
      BY <1>6, PutRecoveredType DEF PutRecovered
    <3>2. queue' = [queue EXCEPT ![tasks[t].auto] = Append(@, t)]
      BY <1>6 DEF PutRecovered
    <3> HIDE DEF t
    <3> QED
      BY <3>1, <3>2, PutHas
  <2>2. \A u : Has(recovered, u) <=> Has(recovered', u) \/ u = t
    <3>1. recovered \in Seq(1..lastTask) /\ recovered # <<>> /\ recovered' = Tail(recovered)
      BY <1>6, PutRecoveredType DEF PutRecovered, TypeOK
    <3> QED
      BY <3>1, TailHas
  <2>3. \A u \in TaskIds : Waits(u) => Waits(u)'
    BY <1>6, <2>1, <2>2 DEF PutRecovered, Waits, Has
  <2> QED
    BY <1>6, <2>3, HandKept DEF PutRecovered
<1>7. CASE Stop \/ Crash
  BY <1>7 DEF Stop, Crash, Halt
<1>8. CASE Start
  <2>1. \A u \in TaskIds : tasks'[u].status # "running"
    BY <1>8, StartType, RecoveredType
  <2>2. \A w \in Workers : worker'[w].pc # "generating"
    BY <1>8, StartType DEF Resting, Idle
  <2>3. \A u \in TaskIds : tasks'[u].status = "pending" => u \in 1..lastTask
    <3>1. \A u \in TaskIds : tasks'[u].status = "pending" => tasks[u].status # "none"
      BY <1>8, StartType, RecoveredType
    <3> QED
      BY <3>1, TypeNow DEF TaskIds
  <2> QED
    BY <1>8, <2>1, <2>2, <2>3, StartType DEF TasksInHand, InQueue
<1>9. ASSUME NEW w \in Workers, TakeStale(w) \/ PutBack(w) PROVE TasksInHand'
  <2>1. \A u \in TaskIds : tasks[u].status = "pending" /\ InQueue(u) => InQueue(u)'
    <3>1. CASE TakeStale(w)
      BY <3>1, PopHas DEF TakeStale, Takes
    <3>2. CASE PutBack(w)
      BY <3>2, PutBackHas
    <3> QED
      BY <1>9, <3>1, <3>2
  <2>2. UNCHANGED <<tasks, putting, recovered, worker, proc>>
    BY <1>9, TakeType
  <2> QED
    BY <2>1, <2>2 DEF TasksInHand
<1>10. ASSUME NEW w \in Workers, Begin(w) PROVE TasksInHand'
  <2>1. \A u \in TaskIds : InQueue(u) /\ u # NextTask => InQueue(u)'
    BY <1>10, PopHas DEF Begin, Takes
  <2>2. \A u \in TaskIds : tasks'[u].status = "pending" => u # NextTask /\ tasks[u].status = "pending"
    BY <1>10, BeginType
  <2>3. proc # "down" /\ UNCHANGED <<putting, recovered>>
    BY <1>10, BeginType DEF Begin
  <2>4. ASSUME NEW u \in TaskIds, tasks'[u].status = "running"
        PROVE  \E v \in Workers : worker'[v].pc = "generating" /\ worker'[v].task = u
    <3>1. CASE u = NextTask
      BY <1>10, <3>1, BeginType
    <3>2. CASE u # NextTask
      <4>1. PICK v \in Workers : worker[v].pc = "generating" /\ worker[v].task = u
        BY <1>10, <2>3, <2>4, <3>2, BeginType DEF TasksInHand
      <4>2. worker'[v] = worker[v]
        BY <1>10, <4>1, BeginType
      <4> QED
        BY <4>1, <4>2
    <3> QED
      BY <3>1, <3>2
  <2>5. ASSUME NEW v \in Workers, worker'[v].pc = "generating"
        PROVE  tasks'[worker'[v].task].status = "running"
    <3>1. CASE v = w
      BY <1>10, <3>1, BeginType
    <3>2. CASE v # w
      <4>1. worker'[v] = worker[v]
        BY <1>10, <3>2, BeginType
      <4>2. tasks[worker[v].task].status = "running" /\ worker[v].task \in TaskIds
        BY <2>3, <2>5, <4>1, WorkerTask DEF TasksInHand
      <4> QED
        BY <1>10, <4>1, <4>2, BeginType
    <3> QED
      BY <3>1, <3>2
  <2> QED
    BY <2>1, <2>2, <2>3, <2>4, <2>5 DEF TasksInHand
<1>11. ASSUME NEW w \in Workers, Ends(w) PROVE TasksInHand'
  <2> DEFINE t == worker[w].task
  <2>1. /\ worker[w].pc = "generating" /\ t \in TaskIds
        /\ tasks'[t].status \in {"completed", "failed", "cancelled"}
        /\ \A u \in TaskIds : u # t => tasks'[u] = tasks[u]
        /\ worker'[w].pc # "generating" /\ \A v \in Workers : v # w => worker'[v] = worker[v]
        /\ UNCHANGED memory
    BY <1>11, EndsType
  <2>2. proc # "down"
    BY <2>1 DEF Resting, Idle
  <2>3. \A v \in Workers : v # w /\ worker[v].pc = "generating" => worker[v].task # t
    BY <2>1 DEF OneWorkerPerConversation, Holding
  <2>4. ASSUME NEW u \in TaskIds, tasks'[u].status = "pending"
        PROVE  InQueue(u)' \/ u \in putting' \/ \E i \in 1..Len(recovered') : recovered'[i] = u
    <3>1. tasks[u].status = "pending"
      BY <2>1, <2>4
    <3> QED
      BY <2>1, <2>2, <3>1 DEF TasksInHand, InQueue
  <2>5. ASSUME NEW u \in TaskIds, tasks'[u].status = "running"
        PROVE  \E v \in Workers : worker'[v].pc = "generating" /\ worker'[v].task = u
    <3>1. u # t /\ tasks[u].status = "running"
      BY <2>1, <2>5
    <3>2. PICK v \in Workers : worker[v].pc = "generating" /\ worker[v].task = u
      BY <2>2, <3>1 DEF TasksInHand
    <3> QED
      BY <2>1, <3>1, <3>2
  <2>6. ASSUME NEW v \in Workers, worker'[v].pc = "generating"
        PROVE  tasks'[worker'[v].task].status = "running"
    <3>1. v # w /\ worker'[v] = worker[v] /\ worker[v].task # t
      BY <2>1, <2>3, <2>6
    <3>2. tasks[worker[v].task].status = "running" /\ worker[v].task \in TaskIds
      BY <2>2, <2>6, <3>1, WorkerTask DEF TasksInHand
    <3> QED
      BY <2>1, <3>1, <3>2
  <2> QED
    BY <2>4, <2>5, <2>6 DEF TasksInHand
<1>12. ASSUME NEW w \in Workers, Replies(w) PROVE TasksInHand'
  <2>1. /\ worker[w].pc \in {"settling", "sending"} /\ worker'[w].pc # "generating"
        /\ \A v \in Workers : v # w => worker'[v] = worker[v]
        /\ UNCHANGED <<tasks, memory>>
    BY <1>12, RepliesType DEF Idle
  <2>2. proc # "down"
    BY <2>1 DEF Resting, Idle
  <2> QED
    BY <2>1, <2>2, HandKept DEF Waits, InQueue
<1> QED
  BY <1>1, <1>2, <1>3, <1>4, <1>5, <1>6, <1>7, <1>8, <1>9, <1>10, <1>11, <1>12, Kinds

-----------------------------------------------------------------------------
(* No message waits for nothing.                                           *)

\* The task that will tell the end of a message that waits.
Awaited(m) ==
    \E t \in TaskIds :
        /\ tasks[t].msg = m
        /\ Active(t) \/ (tasks[t].status = "cancelled" /\ restarts > 0)

\* A step that makes no message wait and ends no task but of a message that does
\* not wait any more keeps that.
LEMMA WaitKept ==
  ASSUME TypeOK, WaitingHasTask,
         \A m \in MessageIds : msg'[m] \in {"ai_queued", "ai_generating"} =>
               \/ msg[m] \in {"ai_queued", "ai_generating"}
               \/ Awaited(m)',
         restarts > 0 => restarts' > 0,
         \A t \in TaskIds : tasks[t].status # "none" =>
               /\ tasks'[t].msg = tasks[t].msg
               /\ \/ tasks'[t].status = tasks[t].status
                  \/ tasks'[t].status \in {"pending", "running"}
                  \/ msg'[tasks[t].msg] \notin {"ai_queued", "ai_generating"}
                  \/ tasks'[t].status = "cancelled" /\ restarts' > 0
  PROVE  WaitingHasTask'
<1> SUFFICES ASSUME NEW m \in MessageIds, msg'[m] \in {"ai_queued", "ai_generating"}
             PROVE  Awaited(m)'
  BY DEF WaitingHasTask, Awaited
<1>1. CASE Awaited(m)'
  BY <1>1
<1>2. CASE msg[m] \in {"ai_queued", "ai_generating"}
  <2>1. PICK t \in TaskIds : /\ tasks[t].msg = m
                             /\ Active(t) \/ (tasks[t].status = "cancelled" /\ restarts > 0)
    BY <1>2 DEF WaitingHasTask
  <2>2. tasks[t].status # "none"
    BY <2>1 DEF Active
  <2>3. tasks'[t].msg = m
    BY <2>1, <2>2
  <2>4. Active(t)' \/ (tasks'[t].status = "cancelled" /\ restarts' > 0)
    BY <2>1, <2>2 DEF Active
  <2> QED
    BY <2>3, <2>4 DEF Awaited
<1> QED
  BY <1>1, <1>2

LEMMA WaitStep ==
  TypeInv /\ WaitingHasTask /\ [Next]_vars => WaitingHasTask'
<1> SUFFICES ASSUME TypeOK, Resting, WaitingHasTask, [Next]_vars
             PROVE  WaitingHasTask'
  BY DEF TypeInv
<1> USE DEF memory, unattended, process
<1>1. CASE UNCHANGED vars
  BY <1>1, WaitKept DEF vars
<1>2. CASE Aside
  <2>1. \A m \in MessageIds : msg'[m] \in {"ai_queued", "ai_generating"} => msg'[m] = msg[m]
    BY <1>2 DEF Aside, Arrive, Import, Poll, Enable, Disable, Expire, NewDay, Ignore,
                HumanSend, HumanSent, HumanSendFailed, TypeOK
  <2> QED
    BY <1>2, <2>1, AsideType, WaitKept DEF queueing
<1>3. ASSUME NEW m \in MessageIds, NEW auto \in BOOLEAN, Create(m, auto), UNCHANGED restarts
      PROVE  WaitingHasTask'
  <2>1. /\ lastTask' \in TaskIds /\ lastTask' > lastTask
        /\ tasks'[lastTask'].msg = m /\ tasks'[lastTask'].status = "pending"
        /\ \A t \in TaskIds : t # lastTask' => tasks'[t] = tasks[t]
    BY <1>3, CreateType, TypeNow
  <2>2. tasks[lastTask'].status = "none"
    BY <2>1, TypeNow
  <2>3. Awaited(m)'
    BY <2>1 DEF Awaited, Active
  <2>4. \A k \in MessageIds : k # m => msg'[k] = msg[k]
    BY <1>3 DEF Create, TypeOK
  <2> QED
    BY <1>3, <2>1, <2>2, <2>3, <2>4, WaitKept
<1>4. ASSUME NEW t \in TaskIds, Put(t) PROVE WaitingHasTask'
  BY <1>4, WaitKept DEF Put
<1>5. ASSUME NEW t \in TaskIds, Cancel(t) PROVE WaitingHasTask'
  <2>1. \A m \in MessageIds : msg'[m] \in {"ai_queued", "ai_generating"} => msg'[m] = msg[m]
    BY <1>5, CancelType
  <2> QED
    BY <1>5, <2>1, CancelType, WaitKept
<1>6. CASE PutRecovered
  BY <1>6, WaitKept DEF PutRecovered
<1>7. CASE Stop
  <2>1. /\ \A t \in TaskIds :
               /\ tasks'[t].msg = tasks[t].msg
               /\ tasks'[t].status = IF t \in Returning THEN "pending" ELSE tasks[t].status
        /\ msg' = Requeued /\ restarts' > 0
    BY <1>7, StopType, HaltType
  <2>2. \A m \in MessageIds : msg'[m] \in {"ai_queued", "ai_generating"} =>
               msg[m] \in {"ai_queued", "ai_generating"} \/ Awaited(m)'
    <3> SUFFICES ASSUME NEW m \in MessageIds, msg'[m] # msg[m] PROVE Awaited(m)'
      OBVIOUS
    <3>1. PICK t \in Returning : tasks[t].msg = m
      BY <2>1, RequeuedType
    <3>2. t \in TaskIds /\ tasks'[t].msg = m /\ tasks'[t].status = "pending"
      BY <2>1, <3>1 DEF Returning
    <3> QED
      BY <3>2 DEF Awaited, Active
  <2> QED
    BY <2>1, <2>2, WaitKept
<1>8. CASE Crash
  <2>1. restarts' > 0 /\ UNCHANGED <<tasks, msg>>
    BY <1>8, HaltType DEF Crash
  <2> QED
    BY <2>1, WaitKept
<1>9. CASE Start
  <2>1. /\ \A t \in TaskIds :
               /\ tasks'[t].msg = tasks[t].msg
               /\ tasks'[t].status = IF tasks[t].status # "running" THEN tasks[t].status
                                     ELSE IF tasks[t].cancel THEN "cancelled" ELSE "pending"
        /\ msg' = Requeued /\ UNCHANGED restarts
    BY <1>9, StartType, RecoveredType
  <2>2. restarts > 0
    BY <1>9, StartType DEF Resting
  <2>3. \A m \in MessageIds : msg'[m] \in {"ai_queued", "ai_generating"} =>
               msg[m] \in {"ai_queued", "ai_generating"} \/ Awaited(m)'
    <3> SUFFICES ASSUME NEW m \in MessageIds, msg'[m] # msg[m] PROVE Awaited(m)'
      OBVIOUS
    <3>1. PICK t \in Returning : tasks[t].msg = m
      BY <2>1, RequeuedType
    <3>2. t \in TaskIds /\ tasks'[t].msg = m /\ tasks'[t].status = "pending"
      BY <2>1, <3>1 DEF Returning
    <3> QED
      BY <3>2 DEF Awaited, Active
  <2> QED
    BY <2>1, <2>2, <2>3, WaitKept
<1>10. ASSUME NEW w \in Workers, TakeStale(w) \/ PutBack(w) PROVE WaitingHasTask'
  BY <1>10, TakeType, WaitKept
<1>11. ASSUME NEW w \in Workers, Begin(w) PROVE WaitingHasTask'
  <2>1. PICK t \in TaskIds, m \in MessageIds :
          /\ tasks[t].msg = m /\ tasks'[t].status = "running" /\ tasks'[t].msg = m
          /\ \A u \in TaskIds : u # t => tasks'[u] = tasks[u]
          /\ msg' = Marked(m, "ai_generating") /\ UNCHANGED restarts
    BY <1>11, BeginType DEF Begin
  <2>2. Awaited(m)'
    BY <2>1 DEF Awaited, Active
  <2>3. \A k \in MessageIds : k # m => msg'[k] = msg[k]
    BY <2>1 DEF Marked, TypeOK
  <2> QED
    BY <2>1, <2>2, <2>3, WaitKept
<1>12. ASSUME NEW w \in Workers, Ends(w) PROVE WaitingHasTask'
  <2>1. \A m \in MessageIds : msg'[m] \in {"ai_queued", "ai_generating"} => msg'[m] = msg[m]
    BY <1>12, EndsType
  <2> QED
    BY <1>12, <2>1, EndsType, WaitKept
<1>13. ASSUME NEW w \in Workers, Replies(w) PROVE WaitingHasTask'
  <2>1. \A m \in MessageIds : msg'[m] \in {"ai_queued", "ai_generating"} => msg'[m] = msg[m]
    BY <1>13, RepliesType
  <2> QED
    BY <1>13, <2>1, RepliesType, WaitKept
<1> QED
  BY <1>1, <1>2, <1>3, <1>4, <1>5, <1>6, <1>7, <1>8, <1>9, <1>10, <1>11, <1>12, <1>13, Kinds

-----------------------------------------------------------------------------
(* The limits of the unattended replies.                                   *)

\* One worker at a time is in auto_send, which holds the lock.
OneSender ==
    \A v, w \in Workers : worker[v].pc = "sending" /\ worker[w].pc = "sending" => v = w

Limits == UnattendedBounded /\ OneSender

\* A step that makes no worker send and leaves the counters keeps the limits.
LEMMA LimitsKept ==
  ASSUME Limits, \A w \in Workers : worker'[w].pc = "sending" => worker[w].pc = "sending",
         dailySent' = dailySent, failures' = failures, armed' # "off" => armed # "off"
  PROVE  Limits'
BY DEF Limits, UnattendedBounded, OneSender

LEMMA LimitsStep == TypeInv /\ Limits /\ [Next]_vars => Limits'
<1> SUFFICES ASSUME TypeOK, Resting, Limits, [Next]_vars PROVE Limits'
  BY DEF TypeInv
<1> USE DEF memory, unattended, process
<1>0. DailyLimit \in Nat \ {0} /\ MaxFailures \in Nat \ {0} /\ dailySent \in Nat /\ failures \in Nat
  BY DEF TypeOK
<1>1. CASE UNCHANGED vars
  BY <1>1, LimitsKept DEF vars
<1>2. CASE Aside
  <2>1. UNCHANGED worker
    BY <1>2, AsideType DEF queueing
  <2>2. CASE Enable
    BY <1>0, <2>1, <2>2 DEF Enable, Limits, UnattendedBounded, OneSender
  <2>3. CASE NewDay
    BY <1>0, <2>1, <2>3 DEF NewDay, Limits, UnattendedBounded, OneSender
  <2>4. CASE ~Enable /\ ~NewDay
    <3>1. /\ dailySent' = dailySent /\ failures' = failures
          /\ armed' # "off" => armed # "off"
      BY <1>2, <2>4 DEF Aside, Arrive, Import, Poll, Disable, Expire, Ignore,
                HumanSend, HumanSent, HumanSendFailed, Checked
    <3> QED
      BY <2>1, <3>1, LimitsKept
  <2> QED
    BY <2>2, <2>3, <2>4
<1>3. ASSUME UNCHANGED <<worker, unattended>> PROVE Limits'
  BY <1>3, LimitsKept
<1>4. ASSUME NEW t \in TaskIds, Put(t) \/ Cancel(t) PROVE Limits'
  BY <1>3, <1>4 DEF Put, Cancel
<1>5. CASE PutRecovered
  BY <1>3, <1>5 DEF PutRecovered
<1>6. CASE Stop
  BY <1>6, StopType, HaltType, LimitsKept DEF Idle
<1>7. CASE Crash
  BY <1>7, HaltType, LimitsKept DEF Crash, Idle
<1>8. CASE Start
  BY <1>3, <1>8, StartType
<1>9. ASSUME NEW w \in Workers, TakeStale(w) \/ PutBack(w) PROVE Limits'
  BY <1>3, <1>9, TakeType
<1>10. ASSUME NEW w \in Workers, Begin(w) PROVE Limits'
  BY <1>10, BeginType, LimitsKept DEF Begin
<1>11. ASSUME NEW w \in Workers, Ends(w) PROVE Limits'
  BY <1>11, EndsType, LimitsKept
<1>12. ASSUME NEW w \in Workers, Replies(w) PROVE Limits'
  <2>1. CASE AutoSkip(w)
    BY <2>1, LimitsKept DEF AutoSkip, Checked, Idle, TypeOK
  <2>2. CASE AutoSend(w)
    <3>1. dailySent < DailyLimit
      BY <1>0, <2>2 DEF AutoSend, Eligible, Enabled, Checked
    <3>2. \A v \in Workers : worker'[v].pc = "sending" => v = w
      BY <2>2 DEF AutoSend, LockFree, TypeOK
    <3>3. UNCHANGED unattended
      BY <2>2 DEF AutoSend
    <3> QED
      BY <3>1, <3>2, <3>3 DEF Limits, UnattendedBounded, OneSender
  <2>3. CASE AutoSent(w)
    <3>1. dailySent < DailyLimit /\ worker[w].pc = "sending"
      BY <2>3 DEF AutoSent, Limits, UnattendedBounded
    <3>2. \A v \in Workers : worker'[v].pc # "sending"
      BY <2>3, <3>1 DEF AutoSent, Limits, OneSender, Idle, TypeOK
    <3>3. dailySent' = dailySent + 1 /\ failures' = 0 /\ armed' = armed
      BY <2>3 DEF AutoSent
    <3> QED
      BY <1>0, <3>1, <3>2, <3>3 DEF Limits, UnattendedBounded, OneSender
  <2>4. CASE AutoSendFailed(w)
    <3>1. worker[w].pc = "sending"
      BY <2>4 DEF AutoSendFailed
    <3>2. \A v \in Workers : worker'[v].pc # "sending"
      BY <2>4, <3>1 DEF AutoSendFailed, Limits, OneSender, Idle, TypeOK
    <3>3. dailySent' = dailySent /\ failures' = failures + 1
          /\ armed' = IF failures + 1 >= MaxFailures THEN "off" ELSE armed
      BY <2>4 DEF AutoSendFailed
    <3> QED
      BY <1>0, <3>2, <3>3 DEF Limits, UnattendedBounded, OneSender
  <2> QED
    BY <1>12, <2>1, <2>2, <2>3, <2>4 DEF Replies
<1> QED
  BY <1>1, <1>2, <1>3, <1>4, <1>5, <1>6, <1>7, <1>8, <1>9, <1>10, <1>11, <1>12, Kinds

-----------------------------------------------------------------------------
\* No task is lost or run by two, no message waits for nothing, conversations are
\* served one at a time, and the unattended replies keep their limits.
THEOREM QueueIsSafe == Spec => []QueueHolds
<1> DEFINE Inv == TypeInv /\ OneWorkerPerConversation /\ TasksInHand /\ WaitingHasTask /\ Limits
<1>1. Init => Inv
  <2> SUFFICES ASSUME Init PROVE Inv
    OBVIOUS
  <2>1. /\ \A w \in Workers : worker[w].pc = "idle"
        /\ Holding = {}
        /\ \A t \in TaskIds : tasks[t].status = "none"
        /\ \A m \in MessageIds : msg[m] = "none"
        /\ dailySent = 0 /\ armed = "off"
    BY DEF Init, Holding, Idle, NoTask
  <2>2. OneWorkerPerConversation /\ WaitingHasTask
    BY <2>1 DEF OneWorkerPerConversation, WaitingHasTask
  <2>3. TasksInHand
    BY <2>1 DEF TasksInHand
  <2>4. Limits
    BY <2>1 DEF Limits, UnattendedBounded, OneSender
  <2> QED
    BY <2>2, <2>3, <2>4, TypeInit
<1>2. Inv /\ [Next]_vars => Inv'
  BY TypeStep, AloneStep, HandStep, WaitStep, LimitsStep
<1>3. Inv => QueueHolds
  BY DEF QueueHolds, NoTaskLost, RepliesBounded, Limits
<1> QED
  BY <1>1, <1>2, <1>3, PTL DEF Spec

-----------------------------------------------------------------------------
(* The tasks implement DraftTasks.                                         *)

\* The variables of DraftTasks.
StatusOf == [t \in TaskIds |-> tasks[t].status]
OwnerOf == [t \in TaskIds |-> ConversationOf(t)]

Statuses == {"none", "pending", "running", "completed", "failed", "cancelled"}

\* A task is moved from a status to another, and the others stay.
Moves(t, from, to) ==
    /\ tasks[t].status = from /\ tasks'[t].status = to
    /\ \A u \in TaskIds : u # t => tasks'[u].status = tasks[u].status

LEMMA Abstraction ==
  ASSUME TypeOK, TypeOK'
  PROVE  /\ \A t \in TaskIds : StatusOf[t] = tasks[t].status
         /\ \A t \in TaskIds : OwnerOf[t] = ConversationOf(t)
         /\ \A t \in TaskIds : StatusOf'[t] = tasks'[t].status /\ StatusOf'[t] \in Statuses
         /\ \A t \in TaskIds : OwnerOf'[t] = ConversationOf(t)'
         /\ \A t \in TaskIds : OwnerOf'[t] \in Conversations
         /\ StatusOf' \in [TaskIds -> Statuses]
<1>1. \A t \in TaskIds : tasks[t] \in Task /\ tasks'[t] \in Task
  BY DEF TypeOK
<1>2. \A t \in TaskIds : tasks'[t].status \in Statuses /\ tasks'[t].msg \in MessageIds
  BY <1>1 DEF Task, Statuses
<1> QED
  BY <1>2 DEF StatusOf, OwnerOf, ConversationOf

LEMMA MovesImplements ==
  ASSUME TypeOK, TypeOK', NEW t \in TaskIds, NEW from, NEW to, Moves(t, from, to),
         \A u \in TaskIds : tasks'[u].msg = tasks[u].msg
  PROVE  StatusOf' = [StatusOf EXCEPT ![t] = to] /\ OwnerOf' = OwnerOf
BY DEF Moves, StatusOf, OwnerOf, ConversationOf

LEMMA CreateImplements ==
  ASSUME TypeOK, TypeOK', NEW m \in MessageIds, NEW auto \in BOOLEAN, Create(m, auto)
  PROVE  DraftQueue!Create
<1> DEFINE t == lastTask'
           c == Conversation[m]
<1>1. /\ t \in TaskIds /\ t = lastTask + 1 /\ lastTask \in Nat /\ c \in Conversations
      /\ tasks'[t].status = "pending" /\ tasks'[t].msg = m
      /\ \A u \in TaskIds : u # t => tasks'[u] = tasks[u]
  BY CreateType, TypeNow
<1>2. \A u \in TaskIds : u >= t => tasks[u].status = "none"
  BY <1>1, TypeNow DEF TaskIds
<1> HIDE DEF t, c
<1>3. StatusOf[t] = "none" /\ \A u \in TaskIds : u > t => StatusOf[u] = "none"
  BY <1>1, <1>2 DEF StatusOf, TaskIds
<1>4. StatusOf' = [StatusOf EXCEPT ![t] = "pending"]
  BY <1>1 DEF StatusOf
<1>5. OwnerOf' = [OwnerOf EXCEPT ![t] = c]
  <2>1. \A u \in TaskIds : tasks'[u].msg = IF u = t THEN m ELSE tasks[u].msg
    BY <1>1
  <2> QED
    BY <1>1, <2>1 DEF OwnerOf, ConversationOf, c
<1>6. /\ t \in DraftQueue!TaskIds /\ c \in Conversations
      /\ \A u \in DraftQueue!TaskIds : u > t => StatusOf[u] = "none"
  BY <1>1, <1>3 DEF DraftQueue!TaskIds, TaskIds
<1> QED
  <2> DEFINE S == StatusOf
             Q == OwnerOf
             S1 == StatusOf'
             Q1 == OwnerOf'
  <2>1. /\ S[t] = "none" /\ \A u \in DraftQueue!TaskIds : u > t => S[u] = "none"
        /\ S1 = [S EXCEPT ![t] = "pending"] /\ Q1 = [Q EXCEPT ![t] = c]
    BY <1>3, <1>4, <1>5, <1>6
  <2> HIDE DEF S, Q, S1, Q1
  <2>2. \E i \in DraftQueue!TaskIds, o \in Conversations :
           /\ S[i] = "none" /\ \A u \in DraftQueue!TaskIds : u > i => S[u] = "none"
           /\ S1 = [S EXCEPT ![i] = "pending"] /\ Q1 = [Q EXCEPT ![i] = o]
    BY ONLY <1>6, <2>1
  <2> QED
    BY ONLY <2>2 DEF DraftQueue!Create, StatusOf, OwnerOf, S, Q, S1, Q1

LEMMA BeginImplements ==
  ASSUME TypeOK, TypeOK', NEW t \in TaskIds, Moves(t, "pending", "running"), Earlier(t) = {},
         \A u \in TaskIds : tasks'[u].msg = tasks[u].msg
  PROVE  DraftQueue!Begin
<1>1. StatusOf' = [StatusOf EXCEPT ![t] = "running"] /\ OwnerOf' = OwnerOf
  BY MovesImplements
<1>2. StatusOf[t] = "pending"
  BY DEF StatusOf, Moves
<1>3. \A u \in TaskIds : ~(u < t /\ OwnerOf[u] = OwnerOf[t] /\ StatusOf[u] \in {"pending", "running"})
  BY DEF Earlier, Active, StatusOf, OwnerOf
<1>4. DraftQueue!Ahead(t) = {}
  BY <1>3 DEF DraftQueue!Ahead, DraftQueue!Open, DraftQueue!TaskIds, TaskIds, StatusOf, OwnerOf
<1> QED
  BY <1>1, <1>2, <1>4 DEF DraftQueue!Begin, DraftQueue!TaskIds, TaskIds, StatusOf, OwnerOf

LEMMA FinishImplements ==
  ASSUME TypeOK, TypeOK', NEW t \in TaskIds, NEW end \in {"completed", "failed", "cancelled"},
         Moves(t, "running", end) \/ (Moves(t, "pending", end) /\ end = "cancelled"),
         \A u \in TaskIds : tasks'[u].msg = tasks[u].msg
  PROVE  DraftQueue!Finish
<1>1. StatusOf' = [StatusOf EXCEPT ![t] = end] /\ OwnerOf' = OwnerOf
  BY MovesImplements
<1>2. StatusOf[t] = "running" \/ (StatusOf[t] = "pending" /\ end = "cancelled")
  BY DEF StatusOf, Moves
<1> QED
  BY <1>1, <1>2 DEF DraftQueue!Finish, DraftQueue!TaskIds, TaskIds, StatusOf, OwnerOf

LEMMA InterruptImplements ==
  ASSUME TypeOK, TypeOK', \A u \in TaskIds : tasks'[u].msg = tasks[u].msg,
         \A u \in TaskIds :
            \/ tasks'[u].status = tasks[u].status
            \/ tasks[u].status = "running" /\ tasks'[u].status \in {"pending", "cancelled"}
  PROVE  DraftQueue!Interrupt
<1>1. StatusOf' \in [TaskIds -> Statuses] /\ OwnerOf' = OwnerOf
  BY Abstraction DEF OwnerOf, ConversationOf
<1>2. \A u \in TaskIds :
         \/ StatusOf'[u] = StatusOf[u]
         \/ StatusOf[u] = "running" /\ StatusOf'[u] \in {"pending", "cancelled"}
  BY Abstraction
<1> QED
  BY <1>1, <1>2 DEF DraftQueue!Interrupt, DraftQueue!TaskIds, TaskIds, StatusOf, OwnerOf, Statuses

LEMMA ServedStep ==
  ASSUME TypeInv, TypeInv', TasksInHand, [Next]_vars
  PROVE  [DraftQueue!Next]_<<StatusOf, OwnerOf>>
<1> USE DEF TypeInv, memory, unattended, process, DraftQueue!Next
<1>1. ASSUME UNCHANGED tasks PROVE UNCHANGED <<StatusOf, OwnerOf>>
  BY <1>1 DEF StatusOf, OwnerOf, ConversationOf
<1>2. CASE UNCHANGED vars
  BY <1>1, <1>2 DEF vars
<1>3. CASE Aside
  BY <1>1, <1>3, AsideType DEF queueing
<1>4. ASSUME NEW m \in MessageIds, NEW auto \in BOOLEAN, Create(m, auto)
      PROVE  DraftQueue!Next
  BY <1>4, CreateImplements
<1>5. ASSUME NEW t \in TaskIds, Put(t) PROVE UNCHANGED <<StatusOf, OwnerOf>>
  BY <1>1, <1>5 DEF Put
<1>6. ASSUME NEW t \in TaskIds, Cancel(t) PROVE [DraftQueue!Next]_<<StatusOf, OwnerOf>>
  <2>1. \A u \in TaskIds : tasks'[u].msg = tasks[u].msg /\ (u # t => tasks'[u] = tasks[u])
    BY <1>6, CancelType
  <2>2. CASE Moves(t, "pending", "cancelled")
    BY <2>1, <2>2, FinishImplements
  <2>3. CASE tasks'[t].status = tasks[t].status
    BY <2>1, <2>3 DEF StatusOf, OwnerOf, ConversationOf
  <2> QED
    BY <1>6, <2>1, <2>2, <2>3, CancelType DEF Moves
<1>7. CASE PutRecovered
  BY <1>1, <1>7 DEF PutRecovered
<1>8. CASE Stop
  <2>1. \A u \in TaskIds :
           /\ tasks'[u].msg = tasks[u].msg
           /\ \/ tasks'[u].status = tasks[u].status
              \/ tasks[u].status = "running" /\ tasks'[u].status \in {"pending", "cancelled"}
    BY <1>8, StopType DEF Returning
  <2> QED
    BY <2>1, InterruptImplements
<1>9. CASE Crash
  BY <1>1, <1>9 DEF Crash
<1>10. CASE Start
  <2>1. \A u \in TaskIds :
           /\ tasks'[u].msg = tasks[u].msg
           /\ \/ tasks'[u].status = tasks[u].status
              \/ tasks[u].status = "running" /\ tasks'[u].status \in {"pending", "cancelled"}
    BY <1>10, StartType, RecoveredType
  <2> QED
    BY <2>1, InterruptImplements
<1>11. ASSUME NEW w \in Workers, TakeStale(w) \/ PutBack(w) PROVE UNCHANGED <<StatusOf, OwnerOf>>
  BY <1>1, <1>11, TakeType
<1>12. ASSUME NEW w \in Workers, Begin(w) PROVE DraftQueue!Next
  <2>1. PICK t \in TaskIds :
          /\ t = NextTask /\ Earlier(t) = {} /\ Moves(t, "pending", "running")
          /\ \A u \in TaskIds : tasks'[u].msg = tasks[u].msg
    BY <1>12, BeginType DEF Begin, Moves
  <2> QED
    BY <2>1, BeginImplements
<1>13. ASSUME NEW w \in Workers, Ends(w) PROVE DraftQueue!Next
  <2>1. worker[w].pc = "generating"
    BY <1>13, EndsType
  <2>2. proc # "down"
    BY <2>1 DEF Resting, Idle
  <2>3. tasks[worker[w].task].status = "running"
    BY <2>1, <2>2 DEF TasksInHand
  <2>4. PICK t \in TaskIds, end \in {"completed", "failed", "cancelled"} :
          /\ Moves(t, "running", end)
          /\ \A u \in TaskIds : tasks'[u].msg = tasks[u].msg
    BY <1>13, <2>3, EndsType DEF Moves
  <2> QED
    BY <2>4, FinishImplements
<1>14. ASSUME NEW w \in Workers, Replies(w) PROVE UNCHANGED <<StatusOf, OwnerOf>>
  BY <1>1, <1>14, RepliesType
<1> QED
  BY <1>2, <1>3, <1>4, <1>5, <1>6, <1>7, <1>8, <1>9, <1>10, <1>11, <1>12, <1>13, <1>14, Kinds

\* The tasks of a conversation run one at a time and in order, and none runs after
\* it ended: the tasks implement DraftTasks.
THEOREM ImplementsDraftTasks == Spec => ServedInOrder
<1> DEFINE Inv == TypeInv /\ OneWorkerPerConversation /\ TasksInHand
<1>1. Init => Inv
  <2> SUFFICES ASSUME Init PROVE Inv
    OBVIOUS
  <2>1. /\ \A w \in Workers : worker[w].pc = "idle"
        /\ Holding = {}
        /\ \A t \in TaskIds : tasks[t].status = "none"
    BY DEF Init, Holding, Idle, NoTask
  <2>2. TasksInHand
    BY <2>1 DEF TasksInHand
  <2> QED
    BY <2>1, <2>2, TypeInit DEF OneWorkerPerConversation
<1>2. Inv /\ [Next]_vars => Inv'
  BY TypeStep, AloneStep, HandStep
<1>3. Inv /\ Inv' /\ [Next]_vars => [DraftQueue!Next]_<<StatusOf, OwnerOf>>
  BY ServedStep
<1>4. Init => DraftQueue!Init
  <2> SUFFICES ASSUME Init PROVE DraftQueue!Init
    OBVIOUS
  <2>1. \A t \in TaskIds : tasks[t].status = "none" /\ tasks[t].msg = 1
    BY DEF Init, NoTask
  <2>2. 1 \in MessageIds
    BY DEF MessageIds
  <2>3. \A t \in TaskIds : ConversationOf(t) \in Conversations
    BY <2>1, <2>2 DEF ConversationOf
  <2> QED
    BY <2>1, <2>3 DEF DraftQueue!Init, DraftQueue!TaskIds, TaskIds
<1> QED
  BY <1>1, <1>2, <1>3, <1>4, PTL DEF Spec, ServedInOrder, DraftQueue!Spec, StatusOf, OwnerOf
=============================================================================
