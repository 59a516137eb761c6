---------------------------- MODULE TrafficProofs ----------------------------
(***************************************************************************)
(* Proofs about ProductTraffic, for every value of its constants.          *)
(***************************************************************************)
EXTENDS TrafficProps, FiniteSetTheorems, SequenceTheorems, WellFoundedInduction, TLAPS

-----------------------------------------------------------------------------
(* Sequences as functions on 1..n, and the lock's queue.                   *)

IsSeq(s, n) == n \in Nat /\ s = [i \in 1..n |-> s[i]]

LEMMA SeqFacts ==
    ASSUME NEW n, NEW s, IsSeq(s, n)
    PROVE  /\ s \in Seq({s[i] : i \in 1..n})
           /\ Len(s) = n /\ DOMAIN s = 1..n
<1> DEFINE S == {s[i] : i \in 1..n}
<1>1. n \in Nat /\ s \in [1..n -> S]
  BY DEF IsSeq
<1>2. s \in Seq(S)
  BY <1>1
<1> QED
  BY <1>1, <1>2

LEMMA SeqIs ==
    ASSUME NEW S, NEW s \in Seq(S)
    PROVE  IsSeq(s, Len(s)) /\ \A i \in 1..Len(s) : s[i] \in S
BY DEF IsSeq

LEMMA SeqChange ==
    ASSUME NEW n, NEW s, IsSeq(s, n), NEW i, NEW e
    PROVE  /\ IsSeq([s EXCEPT ![i] = e], n)
           /\ \A k \in 1..n : [s EXCEPT ![i] = e][k] = IF k = i THEN e ELSE s[k]
BY DEF IsSeq

-----------------------------------------------------------------------------
(* Types.                                                                  *)

BatchStatus == {"running", "observing", "closed", "invalidated"}

BatchOf(S) ==
    [req : Requests, items : {S}, mode : {"auto", "manual"}, cost : Nat, started : Nat,
     completed : BOOLEAN, base : [S -> Nat \cup {None}], overlap : BOOLEAN,
     status : BatchStatus]

Batch == UNION {BatchOf(S) : S \in SUBSET Products}

JobStatus == {"scheduled", "waiting_connection", "waiting_manual", "collecting",
              "partial", "circuit_open", "completed"}

RowStatus == {"pending", "completed", "failed", "protection_skipped"}

JobRow(S) == [status : JobStatus, attempts : Nat, asked : Nat, delay : Nat \cup {None},
              rows : [S -> RowStatus]]

Value(h) == [n : Nat \cup {None}, at : {None} \cup 0..h]

Own == {"owned", "excluded", "pending"}

Monitor == [own : Own, enabled : BOOLEAN]

Held == {"lock", "fetch", "finish"}

Task == [kind : {"none", "job", "record", "daily", "all", "single"},
         pc : {"idle", "begin", "notify"} \cup Held, of : Int, cp : Int,
         left : SUBSET Products, open : SUBSET Products,
         got : [Products -> Nat \cup {None}], start : Int, late : BOOLEAN, bad : BOOLEAN]

\* The rows of the purchases.
JobsOf(b) == IF batches[b].status = "invalidated" THEN {} ELSE Cps

RowsTyped ==
    /\ IsSeq(batches, Len(batches)) /\ IsSeq(expenses, Len(batches))
    /\ IsSeq(jobs, Len(batches)) /\ IsSeq(values, Len(batches))
    /\ \A b \in BatchIds :
          /\ batches[b] \in Batch /\ batches[b].started \in 0..clock
          /\ jobs[b] \in [JobsOf(b) -> JobRow(Items(b))]
          /\ values[b] \in [Cps -> [Items(b) -> Value(clock)]]

\* The rest.
WorldTyped ==
    /\ monitor \in [Products -> Monitor]
    /\ reminded \subseteq BatchIds \X Cps
    /\ daily \in [1..setup.days -> {"none", "running", "success", "partial", "failed"}]
    /\ clock \in Nat /\ day \in Nat
    /\ setup \in Setups
    /\ proc \in {"up", "down"} /\ restarts \in Nat
    /\ task \in [Tasks -> Task]

\* What a task is about in each of its kinds.
Sound(x) ==
    /\ x.kind = "none" <=> x.pc \in {"idle", "notify"}
    /\ x.pc = "begin" => x.kind = "job"
    /\ x.kind = "job" =>
          /\ x.of \in BatchIds /\ x.cp \in Cps
          /\ batches[x.of].status # "invalidated"
    /\ x.kind = "record" => x.of \in Requests /\ x.start \in 0..clock
    /\ x.kind = "single" => x.of \in Products
    /\ x.pc = "fetch" => x.left # {}

DueFits ==
    /\ due \subseteq BatchIds \X Cps
    /\ \A j \in due : batches[j[1]].status # "invalidated"

TasksFit == DueFits /\ \A t \in Tasks : Sound(task[t])

QueueFits ==
    /\ queue \in Seq(Tasks)
    /\ \A i, j \in 1..Len(queue) : queue[i] = queue[j] => i = j
    /\ \A t \in Tasks : task[t].pc \in Held <=> \E i \in 1..Len(queue) : queue[i] = t
    /\ \A t \in Tasks : task[t].pc \in {"fetch", "finish"} => Holds(t)

\* At most one task is between two of its commits.
OneGap == \A t, u \in Tasks : InGap(t) /\ InGap(u) => t = u

TrafficInv == RowsTyped /\ WorldTyped /\ TasksFit /\ QueueFits /\ OneGap

-----------------------------------------------------------------------------
(* Steps and the lock.                                                     *)

LEMMA QueueHead ==
    ASSUME QueueFits, NEW t \in Tasks, task[t].pc \in {"fetch", "finish"} \/ Holds(t)
    PROVE  Holds(t) /\ queue # <<>> /\ Len(queue) \in Nat \ {0} /\ queue[1] = t /\ Head(queue) = t
<1>1. Holds(t)
  BY DEF QueueFits
<1> QED
  BY <1>1 DEF Holds, QueueFits

\* What a step may do with the lock: ask for it, hand it on, keep it, or do without.
Asks(t) == task[t].pc \notin Held /\ task'[t].pc = "lock" /\ queue' = Append(queue, t)
HandsOn(t) == Holds(t) /\ task'[t].pc \notin Held /\ queue' = Tail(queue)
Keeps(t) == Holds(t) /\ task'[t].pc \in Held /\ queue' = queue
Does(t) == task[t].pc \notin Held /\ task'[t].pc \notin Held /\ queue' = queue

Turn(t) ==
    /\ Quiet \/ InGap(t)
    /\ task' = [task EXCEPT ![t] = task'[t]]
    /\ Asks(t) \/ HandsOn(t) \/ Keeps(t) \/ Does(t)

LEMMA TurnCalls ==
    ASSUME NEW t \in Tasks, WorldTyped, QueueFits, OneGap, Turn(t)
    PROVE  QueueFits' /\ OneGap'
<1>1. \A u \in Tasks : u # t => task'[u] = task[u]
  BY DEF Turn, WorldTyped
<1>2. OneGap'
  <2>1. \A u \in Tasks : u # t => (InGap(u)' <=> InGap(u))
    BY <1>1 DEF InGap
  <2>2. CASE Quiet
    BY <2>1, <2>2 DEF Quiet, OneGap
  <2>3. CASE InGap(t)
    BY <2>1, <2>3 DEF OneGap
  <2> QED
    BY <2>2, <2>3 DEF Turn
<1>3. /\ queue \in Seq(Tasks) /\ Len(queue) \in Nat
      /\ \A i, j \in 1..Len(queue) : queue[i] = queue[j] => i = j
      /\ \A u \in Tasks : task[u].pc \in Held <=> \E i \in 1..Len(queue) : queue[i] = u
      /\ \A u \in Tasks : task[u].pc \in {"fetch", "finish"} => Len(queue) > 0 /\ queue[1] = u
  BY QueueHead DEF QueueFits
<1>4. CASE Asks(t)
  <2>1. /\ queue' \in Seq(Tasks) /\ Len(queue') = Len(queue) + 1
        /\ queue'[Len(queue) + 1] = t
        /\ \A i \in 1..Len(queue) : queue'[i] = queue[i]
    BY <1>3, <1>4 DEF Asks
  <2>2. \A i \in 1..Len(queue) : queue[i] # t
    BY <1>3, <1>4 DEF Asks
  <2>3. \A i, j \in 1..Len(queue') : queue'[i] = queue'[j] => i = j
    BY <2>1, <2>2, <1>3
  <2>4. \A u \in Tasks : task'[u].pc \in Held <=> \E i \in 1..Len(queue') : queue'[i] = u
    <3>1. task'[t].pc \in Held /\ Len(queue) + 1 \in 1..Len(queue')
      BY <1>3, <1>4, <2>1 DEF Asks, Held
    <3>2. ASSUME NEW u \in Tasks, u # t
          PROVE  (\E i \in 1..Len(queue') : queue'[i] = u) <=> \E i \in 1..Len(queue) : queue[i] = u
      BY <2>1, <3>2, <1>3
    <3> QED
      BY <3>1, <3>2, <2>1, <1>1, <1>3
  <2>5. ASSUME NEW u \in Tasks, task'[u].pc \in {"fetch", "finish"}
        PROVE  queue' # <<>> /\ Head(queue') = u
    <3>1. u # t /\ task[u].pc \in {"fetch", "finish"}
      BY <1>1, <1>4, <2>5 DEF Asks
    <3>2. Len(queue) > 0 /\ queue[1] = u
      BY <3>1, <1>3
    <3> QED
      BY <3>2, <2>1, <1>3
  <2> QED
    BY <1>2, <2>1, <2>3, <2>4, <2>5 DEF QueueFits, Holds
<1>5. CASE HandsOn(t)
  <2>1. Len(queue) > 0 /\ queue[1] = t
    BY <1>3, <1>5, QueueHead DEF HandsOn
  <2>2. /\ queue' \in Seq(Tasks) /\ Len(queue') = Len(queue) - 1
        /\ \A i \in 1..(Len(queue) - 1) : queue'[i] = queue[i + 1]
    BY <1>3, <1>5, <2>1 DEF HandsOn
  <2>3. \A i, j \in 1..Len(queue') : queue'[i] = queue'[j] => i = j
    BY <2>2, <1>3
  <2>4. \A u \in Tasks : task'[u].pc \in Held <=> \E i \in 1..Len(queue') : queue'[i] = u
    <3>1. task'[t].pc \notin Held
      BY <1>5 DEF HandsOn
    <3>2. \A i \in 1..Len(queue') : queue'[i] # t
      BY <2>1, <2>2, <1>3
    <3>3. ASSUME NEW u \in Tasks, u # t, NEW i \in 1..Len(queue), queue[i] = u
          PROVE  \E k \in 1..Len(queue') : queue'[k] = u
      <4>1. i # 1 /\ i - 1 \in 1..(Len(queue) - 1) /\ (i - 1) + 1 = i
        BY <2>1, <3>3, <1>3
      <4> QED
        BY <4>1, <2>2, <3>3
    <3>4. ASSUME NEW u \in Tasks, u # t, NEW i \in 1..Len(queue'), queue'[i] = u
          PROVE  \E k \in 1..Len(queue) : queue[k] = u
      <4>1. i + 1 \in 1..Len(queue) /\ queue[i + 1] = u
        BY <2>2, <3>4, <1>3
      <4> QED
        BY <4>1
    <3> QED
      BY <3>1, <3>2, <3>3, <3>4, <1>1, <1>3
  <2>5. \A u \in Tasks : task'[u].pc \notin {"fetch", "finish"}
    <3>1. \A u \in Tasks : u # t => task[u].pc \notin {"fetch", "finish"}
      BY <1>3, <2>1
    <3> QED
      BY <3>1, <1>1, <1>5 DEF HandsOn, Held
  <2> QED
    BY <1>2, <2>2, <2>3, <2>4, <2>5 DEF QueueFits, Holds
<1>6. CASE Keeps(t)
  <2>1. queue' = queue /\ task[t].pc \in Held /\ task'[t].pc \in Held
    <3>1. Len(queue) > 0 /\ queue[1] = t
      BY <1>3, <1>6, QueueHead DEF Keeps
    <3> QED
      BY <3>1, <1>3, <1>6 DEF Keeps
  <2>2. \A u \in Tasks : task'[u].pc \in Held <=> task[u].pc \in Held
    BY <2>1, <1>1
  <2>3. \A u \in Tasks : task'[u].pc \in {"fetch", "finish"} => Holds(u)
    BY <1>1, <1>3, <1>6 DEF Keeps, Holds
  <2> QED
    BY <1>2, <1>3, <2>1, <2>2, <2>3 DEF QueueFits, Holds
<1>7. CASE Does(t)
  <2>1. queue' = queue /\ task[t].pc \notin Held /\ task'[t].pc \notin Held
    BY <1>7 DEF Does
  <2>2. \A u \in Tasks : task'[u].pc \in Held <=> task[u].pc \in Held
    BY <2>1, <1>1
  <2>3. \A u \in Tasks : task'[u].pc \in {"fetch", "finish"} => Holds(u)
    BY <1>1, <1>3, <2>1 DEF Held, Holds, QueueFits
  <2> QED
    BY <1>2, <1>3, <2>1, <2>2, <2>3 DEF QueueFits, Holds
<1> QED
  BY <1>4, <1>5, <1>6, <1>7 DEF Turn

-----------------------------------------------------------------------------
(* Tasks.                                                                  *)

LEMMA Moved ==
    ASSUME WorldTyped, NEW t \in Tasks, NEW x \in Task, task' = [task EXCEPT ![t] = x]
    PROVE  /\ task'[t] = x /\ task' \in [Tasks -> Task]
           /\ task' = [task EXCEPT ![t] = task'[t]]
           /\ \A u \in Tasks : u # t => task'[u] = task[u]
BY DEF WorldTyped

LEMMA NextListing ==
    ASSUME NEW S \in SUBSET Products, S # {}
    PROVE  Min(S) \in S
<1>1. MaxProducts \in Nat /\ S \subseteq Nat
  BY TrafficAssumption DEF Products
<1> DEFINE R == OpToRel(<, Nat)
<1>2. IsWellFoundedOn(R, Nat)
  BY NatLessThanWellFounded
<1> HIDE DEF R
<1>3. \E x \in S : \A y \in S : <<y, x>> \notin R
  BY <1>1, <1>2, WFMin
<1>4. ASSUME NEW x \in Nat, NEW y \in Nat, y < x
      PROVE  <<y, x>> \in R
  BY <1>4 DEF R, OpToRel
<1>5. PICK x \in S : \A y \in S : <<y, x>> \notin R
  BY <1>3
<1>6. \A y \in S : x <= y
  <2>1. \A y \in S : x \in Nat /\ y \in Nat /\ ~(y < x)
    BY <1>1, <1>4, <1>5
  <2> QED
    BY <2>1
<1> QED
  BY <1>6 DEF Min

LEMMA IdleFacts ==
    /\ Idle \in Task /\ Idle.kind = "none" /\ Idle.pc = "idle" /\ Idle.left = {}
    /\ Idle.of = 0 /\ Idle.start = 0
    /\ Sound(Idle)
BY DEF Idle, Task, Held, None, Sound

\* What becomes of a task that goes on, or stops.
LEMMA OnwardFacts ==
    ASSUME WorldTyped, NEW t \in Tasks, NEW rest \in SUBSET Products
    PROVE  LET x == Onward(t, rest) IN
           /\ x \in Task
           /\ x.kind = task[t].kind /\ x.of = task[t].of /\ x.cp = task[t].cp
           /\ x.start = task[t].start /\ x.left = rest
           /\ x.pc = IF rest = {} THEN "finish" ELSE "fetch"
<1>1. task[t] \in Task
  BY DEF WorldTyped
<1> QED
  BY <1>1 DEF Onward, Task, Held

-----------------------------------------------------------------------------
(* Steps that leave the rows of the purchases alone.                       *)

RowsKept == UNCHANGED <<batches, expenses, jobs, values>>

\* No task takes up a job.
Calm ==
    /\ RowsKept
    /\ clock \in Nat /\ clock' \in Nat /\ clock <= clock'
    /\ due' \subseteq due
    /\ restarts' = 0 => restarts = 0
    /\ \A u \in Tasks :
          /\ task'[u].kind = "job" =>
                /\ task[u].kind = "job"
                /\ task'[u].of = task[u].of /\ task'[u].cp = task[u].cp
                /\ task'[u].pc = "begin" => task[u].pc = "begin"
          /\ restarts' = 0 /\ task[u].kind = "job" /\ task[u].pc \in Held =>
                /\ task'[u].kind = "job" /\ task'[u].pc \in Held
                /\ task'[u].of = task[u].of /\ task'[u].cp = task[u].cp

LEMMA RowsKeptTyped ==
    ASSUME RowsTyped, RowsKept, clock \in Nat, clock' \in Nat, clock <= clock'
    PROVE  RowsTyped'
<1>1. 0..clock \subseteq 0..clock'
  OBVIOUS
<1>2. Value(clock) \subseteq Value(clock')
  BY <1>1 DEF Value
<1>3. \A b \in BatchIds : values[b] \in [Cps -> [Items(b) -> Value(clock')]]
  BY <1>2 DEF RowsTyped
<1> QED
  BY <1>1, <1>3 DEF RowsTyped, RowsKept, BatchIds, Items, JobsOf

\* A task moves on without taking up a job.
Moves(t, x) ==
    /\ x \in Task /\ Sound(x)
    /\ task' = [task EXCEPT ![t] = x]
    /\ x.kind = "job" => task[t].kind = "job"
    /\ task[t].kind = "job" =>
          /\ x.kind = "job" /\ x.of = task[t].of /\ x.cp = task[t].cp
          /\ task[t].pc \in Held /\ x.pc \in Held

ElseKept == RowsKept /\ UNCHANGED <<clock, due, reminded, setup, proc, restarts>>

SideTyped ==
    /\ monitor \in [Products -> Monitor]
    /\ daily \in [1..setup.days -> {"none", "running", "success", "partial", "failed"}]
    /\ day \in Nat

LEMMA CalmMove ==
    ASSUME TrafficInv, NEW t \in Tasks, NEW x, Moves(t, x), ElseKept, SideTyped',
           Quiet \/ InGap(t), Asks(t) \/ HandsOn(t) \/ Keeps(t) \/ Does(t)
    PROVE  TrafficInv' /\ Calm
<1>0. /\ RowsTyped /\ WorldTyped /\ TasksFit /\ QueueFits /\ OneGap
      /\ x \in Task /\ task' = [task EXCEPT ![t] = x]
  BY DEF TrafficInv, Moves
<1>1. /\ task'[t] = x /\ task' \in [Tasks -> Task]
      /\ task' = [task EXCEPT ![t] = task'[t]]
      /\ \A u \in Tasks : u # t => task'[u] = task[u]
  BY <1>0, Moved
<1>2. QueueFits' /\ OneGap'
  BY <1>0, <1>1, TurnCalls DEF Turn
<1>3. RowsTyped'
  BY <1>0, RowsKeptTyped DEF ElseKept, WorldTyped
<1>4. WorldTyped'
  BY <1>0, <1>1 DEF WorldTyped, SideTyped, ElseKept, RowsKept, BatchIds
<1>5. TasksFit'
  <2>1. \A u \in Tasks : Sound(task'[u])
    BY <1>0, <1>1 DEF TasksFit, Moves
  <2> QED
    BY <1>0, <2>1 DEF TasksFit, DueFits, Sound, ElseKept, RowsKept, BatchIds
<1>6. Calm
  <2>1. clock \in Nat /\ clock' \in Nat /\ clock <= clock'
    BY <1>0 DEF WorldTyped, ElseKept
  <2>2. x.kind = "job" => task[t].kind = "job"
    BY DEF Moves
  <2>3. task[t].kind = "job" =>
          /\ x.kind = "job" /\ x.of = task[t].of /\ x.cp = task[t].cp
          /\ x.pc \in Held /\ x.pc # "begin"
    BY DEF Moves, Held
  <2>4. \A u \in Tasks : task'[u] = task[u] \/ (u = t /\ task'[u] = x)
    BY <1>1
  <2> QED
    BY <2>1, <2>2, <2>3, <2>4 DEF Calm, ElseKept
<1> QED
  BY <1>2, <1>3, <1>4, <1>5, <1>6 DEF TrafficInv

Collects == {"daily", "all", "single"}

LEMMA Aside ==
    ASSUME WorldTyped, UNCHANGED <<monitor, daily, day, setup>>
    PROVE  SideTyped'
BY DEF SideTyped, WorldTyped

\* A task that asks for the lock, and what it asks to do.
About(kind, o) == [Idle EXCEPT !.kind = kind, !.of = o]

LEMMA AboutFacts ==
    ASSUME NEW kind \in {"record"} \cup Collects, NEW o \in Int
    PROVE  LET x == [About(kind, o) EXCEPT !.pc = "lock"] IN
           x \in Task /\ x.kind = kind /\ x.of = o /\ x.pc = "lock" /\ x.start = 0
<1> DEFINE y == Idle
<1>1. y \in Task /\ y.start = 0
  BY IdleFacts
<1>2. About(kind, o) = [y EXCEPT !.kind = kind, !.of = o]
  BY DEF About
<1> HIDE DEF y
<1>3. /\ About(kind, o) \in Task /\ About(kind, o).kind = kind /\ About(kind, o).of = o
      /\ About(kind, o).start = 0
  BY <1>1, <1>2 DEF Task, Collects
<1> QED
  BY <1>3 DEF Task, Held

LEMMA Asking ==
    ASSUME TrafficInv, NEW t \in Tasks, task[t].pc \in {"idle", "notify"},
           NEW kind \in {"record"} \cup Collects, NEW o \in Int,
           kind = "record" => o \in Requests, kind = "single" => o \in Products,
           Ask(t, About(kind, o))
    PROVE  \E x : Moves(t, x) /\ Asks(t)
<1> DEFINE x == [About(kind, o) EXCEPT !.pc = "lock"]
<1>1. x \in Task /\ x.kind = kind /\ x.of = o /\ x.pc = "lock" /\ x.start = 0
  BY AboutFacts
<1>2. task' = [task EXCEPT ![t] = x] /\ queue' = Append(queue, t)
  BY DEF Ask
<1> HIDE DEF x
<1>3. WorldTyped /\ clock \in Nat /\ task[t].kind = "none"
  BY DEF TrafficInv, WorldTyped, TasksFit, Sound
<1>4. Sound(x)
  BY <1>1, <1>3 DEF Sound, Collects
<1>5. Moves(t, x)
  BY <1>1, <1>2, <1>3, <1>4 DEF Moves, Collects
<1>6. task'[t] = x
  BY <1>1, <1>2, <1>3, Moved
<1> QED
  BY <1>1, <1>2, <1>5, <1>6 DEF Asks, Held

LEMMA AskRecordStep ==
    ASSUME TrafficInv, NEW t \in Clients, NEW q \in Requests, AskRecord(t, q)
    PROVE  TrafficInv' /\ Calm
<1>1. /\ Quiet /\ task[t].pc = "idle" /\ Ask(t, About("record", q))
      /\ UNCHANGED <<monitor, batches, expenses, jobs, values, reminded, daily, day, clock,
                     connected, due, proc, restarts, setup>>
  BY DEF AskRecord, traffic, world, About
<1>2. t \in Tasks /\ q \in Int
  BY TrafficAssumption DEF Tasks, Requests
<1>3. \E x : Moves(t, x) /\ Asks(t)
  BY <1>1, <1>2, Asking
<1>4. ElseKept
  BY <1>1 DEF ElseKept, RowsKept
<1>5. SideTyped'
  BY <1>1, Aside DEF TrafficInv
<1> QED
  BY <1>1, <1>2, <1>3, <1>4, <1>5, CalmMove

LEMMA AskCollectStep ==
    ASSUME TrafficInv, NEW t \in Clients, NEW kind \in Collects, NEW p \in Products,
           AskCollect(t, kind, p)
    PROVE  TrafficInv' /\ Calm
<1>1. /\ Quiet /\ task[t].pc = "idle" /\ Ask(t, About(kind, p))
      /\ UNCHANGED <<monitor, batches, expenses, jobs, values, reminded, daily, day, clock,
                     connected, due, proc, restarts, setup>>
  BY DEF AskCollect, traffic, world, About
<1>2. t \in Tasks /\ p \in Int
  BY TrafficAssumption DEF Tasks, Products
<1>3. \E x : Moves(t, x) /\ Asks(t)
  BY <1>1, <1>2, Asking DEF Collects
<1>4. ElseKept
  BY <1>1 DEF ElseKept, RowsKept
<1>5. SideTyped'
  BY <1>1, Aside DEF TrafficInv
<1> QED
  BY <1>1, <1>2, <1>3, <1>4, <1>5, CalmMove

\* A purchase under way begins to be read.
Begun(t, n, S) == [task[t] EXCEPT !.pc = "fetch", !.start = n, !.left = S, !.open = S]

LEMMA BegunFacts ==
    ASSUME WorldTyped, NEW t \in Tasks, NEW S \in SUBSET Products, NEW n \in Nat
    PROVE  /\ Begun(t, n, S) \in Task
           /\ Begun(t, n, S).kind = task[t].kind /\ Begun(t, n, S).of = task[t].of
           /\ Begun(t, n, S).pc = "fetch" /\ Begun(t, n, S).start = n
           /\ Begun(t, n, S).left = S
<1> DEFINE y == task[t]
           z == [y EXCEPT !.pc = "fetch", !.start = n]
<1>1. y \in Task
  BY DEF WorldTyped
<1>2. Begun(t, n, S) = [z EXCEPT !.left = S, !.open = S]
  BY DEF Begun
<1> HIDE DEF y
<1>3. z \in Task /\ z.kind = y.kind /\ z.of = y.of /\ z.pc = "fetch" /\ z.start = n
  <2> DEFINE w == [y EXCEPT !.start = n]
  <2>1. w \in Task
    BY <1>1 DEF Task
  <2>2. w.kind = y.kind /\ w.of = y.of /\ w.start = n
    BY <1>1 DEF Task
  <2>3. z = [w EXCEPT !.pc = "fetch"]
    BY <1>1 DEF Task
  <2> HIDE DEF w
  <2>4. "fetch" \in {"idle", "begin", "notify"} \cup Held
    BY DEF Held
  <2>5. [w EXCEPT !.pc = "fetch"] \in Task
    BY <2>1, <2>4 DEF Task
  <2>6. LET v == [w EXCEPT !.pc = "fetch"] IN
        v.kind = w.kind /\ v.of = w.of /\ v.pc = "fetch" /\ v.start = w.start
    BY <2>1 DEF Task
  <2> HIDE DEF z
  <2> QED
    BY <2>2, <2>3, <2>5, <2>6
<1> HIDE DEF z
<1>4. Begun(t, n, S) \in Task
  BY <1>2, <1>3 DEF Task
<1>5. /\ Begun(t, n, S).kind = z.kind /\ Begun(t, n, S).of = z.of
      /\ Begun(t, n, S).pc = z.pc /\ Begun(t, n, S).start = z.start
      /\ Begun(t, n, S).left = S
  BY <1>2, <1>3 DEF Task
<1> QED
  BY <1>3, <1>4, <1>5 DEF y

LEMMA Purchased ==
    ASSUME NEW q \in Requests
    PROVE  /\ q \in Int
           /\ Purchases[q].items \in SUBSET Products /\ Purchases[q].items # {}
           /\ Purchases[q].mode \in {"auto", "manual"} /\ Purchases[q].cost \in Nat
<1> DEFINE P == [items : (SUBSET Products) \ {{}}, mode : {"auto", "manual"}, cost : Nat]
<1>1. Purchases \in Seq(P)
  BY TrafficAssumption
<1> HIDE DEF P
<1>2. q \in 1..Len(Purchases) /\ Purchases[q] \in P
  BY <1>1 DEF Requests
<1> QED
  BY <1>2 DEF P

\* A task that gives the lock back, or has none, is idle again.
LEMMA Resting ==
    ASSUME TrafficInv, NEW t \in Tasks, task[t].kind # "job", task' = [task EXCEPT ![t] = Idle],
           \/ Holds(t) /\ queue' = Tail(queue)
           \/ task[t].pc \notin Held /\ queue' = queue
    PROVE  Moves(t, Idle) /\ (HandsOn(t) \/ Does(t))
<1>1. task'[t] = Idle
  BY IdleFacts, Moved DEF TrafficInv
<1>2. Moves(t, Idle)
  BY IdleFacts DEF Moves
<1> QED
  BY <1>1, <1>2, IdleFacts DEF HandsOn, Does, Held

LEMMA NotifiedStep ==
    ASSUME TrafficInv, Notified
    PROVE  TrafficInv' /\ Calm
<1>1. /\ Quiet /\ task[Scheduler].pc = "notify" /\ Scheduler \in Tasks
      /\ \/ Ask(Scheduler, [Idle EXCEPT !.kind = "daily"])
         \/ task' = [task EXCEPT ![Scheduler] = Idle] /\ queue' = queue
      /\ UNCHANGED <<monitor, batches, expenses, jobs, values, reminded, daily, day, clock,
                     connected, due, proc, restarts, setup>>
  BY DEF Notified, traffic, world, Tasks
<1>2. ElseKept
  BY <1>1 DEF ElseKept, RowsKept
<1>3. SideTyped'
  BY <1>1, Aside DEF TrafficInv
<1>4. CASE Ask(Scheduler, [Idle EXCEPT !.kind = "daily"])
  <2>1. [Idle EXCEPT !.kind = "daily"] = About("daily", 0)
    BY IdleFacts DEF Task, About
  <2>2. Ask(Scheduler, About("daily", 0))
    BY <1>4, <2>1
  <2>3. \E x : Moves(Scheduler, x) /\ Asks(Scheduler)
    <3>1. "daily" \in {"record"} \cup Collects /\ 0 \in Int
      BY DEF Collects
    <3>2. task[Scheduler].pc \in {"idle", "notify"} /\ Scheduler \in Tasks
      BY <1>1
    <3> QED
      BY ONLY TrafficInv, <2>2, <3>1, <3>2, Asking
  <2> QED
    BY <1>1, <1>2, <1>3, <2>3, CalmMove
<1>5. CASE task' = [task EXCEPT ![Scheduler] = Idle] /\ queue' = queue
  <2>1. task[Scheduler].kind # "job" /\ task[Scheduler].pc \notin Held
    BY <1>1 DEF TrafficInv, TasksFit, Sound, Held
  <2>2. Moves(Scheduler, Idle) /\ (HandsOn(Scheduler) \/ Does(Scheduler))
    BY <1>1, <1>5, <2>1, Resting
  <2> QED
    BY <1>1, <1>2, <1>3, <2>2, CalmMove
<1> QED
  BY <1>1, <1>4, <1>5

LEMMA BeginRecordStep ==
    ASSUME TrafficInv, NEW t \in Tasks, BeginRecord(t)
    PROVE  TrafficInv' /\ Calm
<1> DEFINE q == task[t].of
           x == Begun(t, clock, Purchases[q].items)
<1>1. /\ Quiet /\ task[t].kind = "record" /\ task[t].pc = "lock" /\ Holds(t)
      /\ UNCHANGED <<monitor, batches, expenses, jobs, values, reminded, daily, day, clock,
                     connected, due, proc, restarts, setup>>
  BY DEF BeginRecord, traffic, world
<1>2. \/ /\ task' = [task EXCEPT ![t].pc = "fetch", ![t].start = clock,
                                 ![t].left = Purchases[q].items,
                                 ![t].open = Purchases[q].items]
         /\ queue' = queue
      \/ task' = [task EXCEPT ![t] = Idle] /\ queue' = Tail(queue)
  BY DEF BeginRecord
<1>3. ElseKept
  BY <1>1 DEF ElseKept, RowsKept
<1>4. SideTyped'
  BY <1>1, Aside DEF TrafficInv
<1>5. CASE task' = [task EXCEPT ![t] = Idle] /\ queue' = Tail(queue)
  BY <1>1, <1>3, <1>4, <1>5, Resting, CalmMove
<1>6. CASE /\ task' = [task EXCEPT ![t].pc = "fetch", ![t].start = clock,
                                   ![t].left = Purchases[q].items,
                                   ![t].open = Purchases[q].items]
           /\ queue' = queue
  <2>1. task \in [Tasks -> Task] /\ task[t] \in Task /\ clock \in Nat /\ WorldTyped
    BY DEF TrafficInv, WorldTyped
  <2>2. q \in Requests
    BY <1>1 DEF TrafficInv, TasksFit, Sound
  <2>3. Purchases[q].items \in SUBSET Products /\ Purchases[q].items # {}
    BY <2>2, Purchased
  <2>4. x \in Task /\ x.kind = "record" /\ x.of = q /\ x.pc = "fetch" /\ x.start = clock
        /\ x.left = Purchases[q].items
    BY <1>1, <2>1, <2>3, BegunFacts
  <2>5. task' = [task EXCEPT ![t] = x]
    BY <1>6, <2>1 DEF Task, Begun
  <2> HIDE DEF x
  <2>6. Sound(x)
    <3>1. clock \in 0..clock
      BY <2>1
    <3> QED
      BY <2>2, <2>3, <2>4, <3>1 DEF Sound
  <2>7. Moves(t, x)
    BY <1>1, <2>4, <2>5, <2>6 DEF Moves
  <2>8. Keeps(t)
    BY <1>1, <1>6, <2>1, <2>4, <2>5, Moved DEF Keeps, Held
  <2> QED
    BY <1>1, <1>3, <1>4, <2>7, <2>8, CalmMove
<1> QED
  BY <1>2, <1>5, <1>6

-----------------------------------------------------------------------------
(* Readings.                                                               *)

LEMMA Counts ==
    ASSUME WorldTyped
    PROVE  setup.counts \in Nat
BY TrafficAssumption DEF WorldTyped

LEMMA ReadingFacts ==
    ASSUME TrafficInv, NEW t \in Tasks, NEW is, NEW n, Reading(t, is, n)
    PROVE  /\ Quiet /\ task[t].pc = "fetch" /\ Holds(t) /\ WorldTyped
           /\ NextOf(t) \in task[t].left /\ task[t].left \in SUBSET Products
           /\ After(t) \in SUBSET Products
           /\ n \in Nat
           /\ monitor' \in [Products -> Monitor]
<1>1. /\ Quiet /\ task[t].pc = "fetch" /\ Holds(t) /\ WorldTyped /\ Sound(task[t])
  BY DEF Reading, TrafficInv, QueueFits, TasksFit
<1>2. task[t].left \in SUBSET Products /\ task[t].left # {}
  BY <1>1 DEF WorldTyped, Task, Sound
<1>3. NextOf(t) \in task[t].left /\ After(t) \in SUBSET Products
  BY <1>2, NextListing DEF NextOf, After
<1>4. n \in Nat
  <2>1. n \in 0..setup.counts \/ n = 0
    BY DEF Reading
  <2> QED
    BY <2>1, <1>1, Counts
<1>5. monitor' \in [Products -> Monitor]
  <2>1. CASE is \in Own
    <3> DEFINE m == AfterRead(t, NextOf(t), is)
    <3>1. monitor[NextOf(t)] \in Monitor /\ NextOf(t) \in Products
      BY <1>1, <1>2, <1>3 DEF WorldTyped
    <3>2. m \in Monitor
      BY <2>1, <3>1 DEF AfterRead, Monitor, Own
    <3>3. monitor' = [monitor EXCEPT ![NextOf(t)] = m]
      BY <2>1 DEF Reading, Own
    <3> HIDE DEF m
    <3> QED
      BY <1>1, <3>2, <3>3 DEF WorldTyped
  <2>2. CASE is \notin Own
    BY <1>1, <2>2 DEF Reading, Own, WorldTyped
  <2> QED
    BY <2>1, <2>2
<1> QED
  BY <1>1, <1>2, <1>3, <1>4, <1>5

\* A task that goes on, with or without a note of what it read.
LEMMA GoesOn ==
    ASSUME TrafficInv, NEW t \in Tasks, task[t].pc \in Held, task[t].kind # "none",
           NEW x \in Task, x.kind = task[t].kind, x.of = task[t].of, x.cp = task[t].cp,
           x.start = task[t].start \/ x.kind # "record", x.pc = IF x.left = {} THEN "finish" ELSE "fetch",
           task' = [task EXCEPT ![t] = x], queue' = queue, Holds(t)
    PROVE  Moves(t, x) /\ Keeps(t)
<1>1. x.pc \in Held /\ (x.pc = "fetch" => x.left # {})
  BY DEF Held
<1>2. WorldTyped /\ Sound(task[t])
  BY DEF TrafficInv, TasksFit
<1>3. Sound(x)
  BY <1>1, <1>2 DEF Sound, Held
<1>4. Moves(t, x)
  BY <1>1, <1>3 DEF Moves
<1>5. task'[t] = x
  BY <1>2, Moved
<1> QED
  BY <1>1, <1>4, <1>5 DEF Keeps

LEMMA EnterStep ==
    ASSUME TrafficInv, NEW t \in Tasks, Enter(t)
    PROVE  TrafficInv' /\ Calm
<1> DEFINE x == Onward(t, task[t].left)
<1>1. /\ Quiet /\ task[t].kind = "job" /\ task[t].pc = "lock" /\ Holds(t)
      /\ task' = [task EXCEPT ![t] = x] /\ queue' = queue
      /\ UNCHANGED <<monitor, batches, expenses, jobs, values, reminded, daily, day, clock,
                     connected, due, proc, restarts, setup>>
  BY DEF Enter, traffic, world
<1>2. WorldTyped /\ task[t].left \in SUBSET Products
  BY DEF TrafficInv, WorldTyped, Task
<1>3. /\ x \in Task /\ x.kind = task[t].kind /\ x.of = task[t].of /\ x.cp = task[t].cp
      /\ x.start = task[t].start /\ x.pc = IF x.left = {} THEN "finish" ELSE "fetch"
  BY <1>2, OnwardFacts
<1> HIDE DEF x
<1>4. Moves(t, x) /\ Keeps(t)
  BY <1>1, <1>3, GoesOn DEF Held
<1>5. ElseKept
  BY <1>1 DEF ElseKept, RowsKept
<1>6. SideTyped'
  BY <1>1, <1>2, Aside
<1> QED
  BY <1>1, <1>4, <1>5, <1>6, CalmMove

\* What a reading of a purchase or a collection makes of its task.
LEMMA ReadOn ==
    ASSUME TrafficInv, NEW t \in Tasks, task[t].pc = "fetch", task[t].kind # "none", Holds(t),
           NEW rest \in SUBSET Products, NEW p, NEW n \in Nat, NEW l \in BOOLEAN,
           NEW x \in {Onward(t, rest), [Onward(t, rest) EXCEPT !.bad = TRUE],
                      [Onward(t, rest) EXCEPT !.got[p] = n, !.late = l],
                      [Onward(t, rest) EXCEPT !.got[p] = n]},
           task' = [task EXCEPT ![t] = x], queue' = queue
    PROVE  Moves(t, x) /\ Keeps(t)
<1> DEFINE y == Onward(t, rest)
<1>1. WorldTyped
  BY DEF TrafficInv
<1>2. /\ y \in Task /\ y.kind = task[t].kind /\ y.of = task[t].of /\ y.cp = task[t].cp
      /\ y.start = task[t].start /\ y.pc = IF y.left = {} THEN "finish" ELSE "fetch"
  BY <1>1, OnwardFacts
<1> HIDE DEF y
<1>3. /\ x \in Task /\ x.kind = y.kind /\ x.of = y.of /\ x.cp = y.cp /\ x.start = y.start
      /\ x.left = y.left /\ x.pc = y.pc
  <2>1. x \in {y, [y EXCEPT !.bad = TRUE], [y EXCEPT !.got[p] = n, !.late = l],
               [y EXCEPT !.got[p] = n]}
    BY DEF y
  <2>2. CASE x = y
    BY <1>2, <2>2
  <2>3. CASE x = [y EXCEPT !.bad = TRUE]
    BY <1>2, <2>3 DEF Task
  <2>4. CASE x = [y EXCEPT !.got[p] = n, !.late = l]
    BY <1>2, <2>4 DEF Task
  <2>5. CASE x = [y EXCEPT !.got[p] = n]
    BY <1>2, <2>5 DEF Task
  <2> QED
    BY <2>1, <2>2, <2>3, <2>4, <2>5
<1> QED
  BY <1>2, <1>3, GoesOn DEF Held

LEMMA ReadT0Step ==
    ASSUME TrafficInv, NEW t \in Tasks, NEW is, NEW n, ReadT0(t, is, n)
    PROVE  TrafficInv' /\ Calm
<1> DEFINE p == NextOf(t)
           l == task[t].late \/ clock > task[t].start
           rest == IF is = "verification" THEN {} ELSE After(t)
<1>1. /\ Reading(t, is, n) /\ task[t].kind = "record"
      /\ \/ task' = [task EXCEPT ![t] = Idle] /\ queue' = Tail(queue)
         \/ /\ \/ task' = [task EXCEPT ![t] = [Onward(t, After(t)) EXCEPT !.got[p] = n,
                                                                          !.late = l]]
               \/ task' = [task EXCEPT ![t] = [Onward(t, rest) EXCEPT !.bad = TRUE]]
            /\ queue' = queue
      /\ UNCHANGED <<batches, expenses, jobs, values, reminded, daily, day, clock,
                     connected, due, proc, restarts, setup>>
  <2>1. (Onward(t, After(t))).late = task[t].late
    <3>1. task[t] \in Task
      BY DEF TrafficInv, WorldTyped
    <3> QED
      BY <3>1 DEF Onward, Task
  <2>2. [Onward(t, After(t)) EXCEPT !.got[p] = n, !.late = task[t].late \/ clock > task[t].start]
            = [Onward(t, After(t)) EXCEPT !.got[p] = n, !.late = l]
    BY <2>1
  <2>3. task \in [Tasks -> Task]
    BY DEF TrafficInv, WorldTyped
  <2> QED
    BY <2>2, <2>3 DEF ReadT0, traffic, world
<1>2. /\ Quiet /\ task[t].pc = "fetch" /\ Holds(t) /\ WorldTyped
      /\ After(t) \in SUBSET Products /\ n \in Nat
      /\ monitor' \in [Products -> Monitor]
  BY <1>1, ReadingFacts
<1>3. ElseKept
  BY <1>1 DEF ElseKept, RowsKept
<1>4. SideTyped'
  BY <1>1, <1>2 DEF SideTyped, WorldTyped
<1>5. rest \in SUBSET Products /\ l \in BOOLEAN
  BY <1>2 DEF WorldTyped, Task
<1> HIDE DEF l, rest
<1>6. CASE task' = [task EXCEPT ![t] = Idle] /\ queue' = Tail(queue)
  BY <1>1, <1>2, <1>3, <1>4, <1>6, Resting, CalmMove
<1>7. CASE /\ task' = [task EXCEPT ![t] = [Onward(t, After(t)) EXCEPT !.got[p] = n, !.late = l]]
           /\ queue' = queue
  <2> DEFINE x == [Onward(t, After(t)) EXCEPT !.got[p] = n, !.late = l]
  <2>1. Moves(t, x) /\ Keeps(t)
    BY <1>1, <1>2, <1>5, <1>7, ReadOn
  <2> QED
    BY <1>2, <1>3, <1>4, <2>1, CalmMove
<1>8. CASE /\ task' = [task EXCEPT ![t] = [Onward(t, rest) EXCEPT !.bad = TRUE]]
           /\ queue' = queue
  <2> DEFINE x == [Onward(t, rest) EXCEPT !.bad = TRUE]
  <2>1. Moves(t, x) /\ Keeps(t)
    BY <1>1, <1>2, <1>5, <1>8, ReadOn
  <2> QED
    BY <1>2, <1>3, <1>4, <2>1, CalmMove
<1> QED
  BY <1>1, <1>6, <1>7, <1>8

LEMMA ReadCollectStep ==
    ASSUME TrafficInv, NEW t \in Tasks, NEW is, NEW n, ReadCollect(t, is, n)
    PROVE  TrafficInv' /\ Calm
<1> DEFINE p == NextOf(t)
           rest == IF is = "error" THEN After(t) ELSE {}
<1>1. /\ Reading(t, is, n) /\ task[t].kind \in Collects
      /\ \/ task' = [task EXCEPT ![t] = [Onward(t, After(t)) EXCEPT !.got[p] = 0]]
         \/ task' = [task EXCEPT ![t] = [Onward(t, rest) EXCEPT !.bad = TRUE]]
      /\ queue' = queue
      /\ UNCHANGED <<batches, expenses, jobs, values, reminded, daily, day, clock,
                     connected, due, proc, restarts, setup>>
  <2>1. task \in [Tasks -> Task]
    BY DEF TrafficInv, WorldTyped
  <2> QED
    BY <2>1 DEF ReadCollect, traffic, world, Collects
<1>2. /\ Quiet /\ task[t].pc = "fetch" /\ Holds(t) /\ WorldTyped
      /\ After(t) \in SUBSET Products /\ n \in Nat
      /\ monitor' \in [Products -> Monitor]
  BY <1>1, ReadingFacts
<1>3. ElseKept
  BY <1>1 DEF ElseKept, RowsKept
<1>4. SideTyped'
  BY <1>1, <1>2 DEF SideTyped, WorldTyped
<1>5. rest \in SUBSET Products /\ task[t].kind # "none"
  BY <1>1, <1>2 DEF Collects
<1> HIDE DEF rest
<1>6. CASE task' = [task EXCEPT ![t] = [Onward(t, After(t)) EXCEPT !.got[p] = 0]]
  <2> DEFINE x == [Onward(t, After(t)) EXCEPT !.got[p] = 0]
  <2>1. Moves(t, x) /\ Keeps(t)
    BY <1>1, <1>2, <1>5, <1>6, ReadOn
  <2> QED
    BY <1>2, <1>3, <1>4, <2>1, CalmMove
<1>7. CASE task' = [task EXCEPT ![t] = [Onward(t, rest) EXCEPT !.bad = TRUE]]
  <2> DEFINE x == [Onward(t, rest) EXCEPT !.bad = TRUE]
  <2>1. Moves(t, x) /\ Keeps(t)
    BY <1>1, <1>2, <1>5, <1>7, ReadOn
  <2> QED
    BY <1>2, <1>3, <1>4, <2>1, CalmMove
<1> QED
  BY <1>1, <1>6, <1>7

LEMMA BeginCollectStep ==
    ASSUME TrafficInv, NEW t \in Tasks, BeginCollect(t)
    PROVE  TrafficInv' /\ Calm
<1> DEFINE S == Targets(t)
           x == [Onward(t, S) EXCEPT !.start = day]
<1>1. /\ Quiet /\ task[t].kind \in Collects /\ task[t].pc = "lock" /\ Holds(t)
      /\ daily' \in {daily, [daily EXCEPT ![day] = "running"]}
      /\ \/ task' = [task EXCEPT ![t] = x] /\ queue' = queue
         \/ task' = [task EXCEPT ![t] = Idle] /\ queue' = Tail(queue)
      /\ UNCHANGED <<monitor, batches, expenses, jobs, values, reminded, day, clock,
                     connected, due, proc, restarts, setup>>
  BY DEF BeginCollect, traffic, world, Collects
<1>2. ElseKept
  BY <1>1 DEF ElseKept, RowsKept
<1>3. WorldTyped /\ Sound(task[t]) /\ task[t].kind # "none" /\ task[t].kind # "job"
      /\ task[t].kind # "record"
  BY <1>1 DEF TrafficInv, TasksFit, Collects
<1>4. SideTyped'
  <2>1. daily' \in [1..setup.days -> {"none", "running", "success", "partial", "failed"}]
    BY <1>1, <1>3 DEF WorldTyped
  <2> QED
    BY <1>1, <1>3, <2>1 DEF SideTyped, WorldTyped
<1>5. CASE task' = [task EXCEPT ![t] = Idle] /\ queue' = Tail(queue)
  BY <1>1, <1>2, <1>3, <1>4, <1>5, Resting, CalmMove
<1>6. CASE task' = [task EXCEPT ![t] = x] /\ queue' = queue
  <2>1. S \in SUBSET Products
    BY <1>3 DEF Targets, Sound
  <2> DEFINE y == Onward(t, S)
  <2> HIDE DEF S
  <2>2. /\ y \in Task /\ y.kind = task[t].kind /\ y.of = task[t].of /\ y.cp = task[t].cp
        /\ y.pc = IF y.left = {} THEN "finish" ELSE "fetch"
    BY <1>3, <2>1, OnwardFacts
  <2>3. day \in Int
    BY <1>3 DEF WorldTyped
  <2> HIDE DEF y
  <2>4. /\ [y EXCEPT !.start = day] \in Task
        /\ \A f \in {"kind", "of", "cp", "left", "pc"} : [y EXCEPT !.start = day][f] = y[f]
    BY <2>2, <2>3 DEF Task
  <2>5. /\ x \in Task /\ x.kind = y.kind /\ x.of = y.of /\ x.cp = y.cp
        /\ x.left = y.left /\ x.pc = y.pc
    BY <2>4 DEF y
  <2> HIDE DEF x
  <2>6. Moves(t, x) /\ Keeps(t)
    BY <1>1, <1>3, <1>6, <2>2, <2>5, GoesOn DEF Held
  <2> QED
    BY <1>1, <1>2, <1>4, <2>6, CalmMove
<1> QED
  BY <1>1, <1>5, <1>6

LEMMA FinishCollectStep ==
    ASSUME TrafficInv, NEW t \in Tasks, FinishCollect(t)
    PROVE  TrafficInv' /\ Calm
<1>1. /\ task[t].kind \in Collects /\ task[t].pc = "finish"
      /\ task' = [task EXCEPT ![t] = Idle] /\ queue' = Tail(queue)
      /\ \/ daily' = daily
         \/ \E r \in {"success", "partial", "failed"} :
               daily' = [daily EXCEPT ![task[t].start] = r]
      /\ UNCHANGED <<monitor, batches, expenses, jobs, values, reminded, day, clock,
                     connected, due, proc, restarts, setup>>
  BY DEF FinishCollect, traffic, world, Collects
<1>2. ElseKept
  BY <1>1 DEF ElseKept, RowsKept
<1>3. WorldTyped /\ task[t].kind # "job" /\ Holds(t) /\ InGap(t)
  BY <1>1 DEF TrafficInv, QueueFits, Collects, InGap
<1>4. SideTyped'
  <2>1. daily' \in [1..setup.days -> {"none", "running", "success", "partial", "failed"}]
    BY <1>1, <1>3 DEF WorldTyped
  <2> QED
    BY <1>1, <1>3, <2>1 DEF SideTyped, WorldTyped
<1> QED
  BY <1>1, <1>2, <1>3, <1>4, Resting, CalmMove

\* Steps of the user and of the world that no task makes.
LEMMA WorldSteps ==
    ASSUME TrafficInv,
           \/ \E p \in Products, on \in BOOLEAN : SetMonitor(p, on)
           \/ Connect \/ Tick \/ NewDay
           \/ UNCHANGED vars
    PROVE  TrafficInv' /\ Calm
<1>0. RowsTyped /\ WorldTyped /\ TasksFit /\ QueueFits /\ OneGap
  BY DEF TrafficInv
<1>1. /\ UNCHANGED <<task, queue, due, reminded, setup, proc, restarts>> /\ RowsKept
      /\ clock' \in {clock, clock + 1}
  BY DEF SetMonitor, Connect, Tick, NewDay, vars, traffic, world, RowsKept
<1>2. SideTyped'
  <2>1. CASE \E p \in Products, on \in BOOLEAN : SetMonitor(p, on)
    <3>1. PICK p \in Products, on \in BOOLEAN : SetMonitor(p, on)
      BY <2>1
    <3>2. monitor' \in [Products -> Monitor]
      BY <1>0, <3>1 DEF WorldTyped, SetMonitor, Monitor
    <3> QED
      BY <1>0, <3>1, <3>2 DEF SetMonitor, SideTyped, WorldTyped, world
  <2>2. CASE Connect \/ Tick \/ NewDay \/ UNCHANGED vars
    <3>1. UNCHANGED <<monitor, daily, setup>> /\ day' \in {day, day + 1}
      BY <2>2 DEF Connect, Tick, NewDay, vars, world
    <3> QED
      BY <1>0, <3>1 DEF SideTyped, WorldTyped
  <2> QED
    BY <2>1, <2>2
<1>3. clock \in Nat /\ clock' \in Nat /\ clock <= clock'
  BY <1>0, <1>1 DEF WorldTyped
<1>4. Calm
  BY <1>1, <1>3 DEF Calm
<1>5. RowsTyped'
  BY <1>0, <1>1, <1>3, RowsKeptTyped
<1>6. WorldTyped'
  BY <1>0, <1>1, <1>2, <1>3 DEF WorldTyped, SideTyped, RowsKept, BatchIds
<1>7. TasksFit'
  <2>1. 0..clock \subseteq 0..clock'
    BY <1>3
  <2> QED
    BY <1>0, <1>1, <2>1 DEF TasksFit, DueFits, Sound, RowsKept, BatchIds
<1>8. QueueFits' /\ OneGap'
  BY <1>0, <1>1 DEF QueueFits, OneGap, InGap, Holds
<1> QED
  BY <1>4, <1>5, <1>6, <1>7, <1>8 DEF TrafficInv

LEMMA CrashStep ==
    ASSUME TrafficInv, Crash
    PROVE  TrafficInv' /\ Calm
<1>0. RowsTyped /\ WorldTyped /\ TasksFit /\ QueueFits /\ OneGap
  BY DEF TrafficInv
<1>1. /\ UNCHANGED <<reminded, setup, clock, day, monitor, daily>> /\ RowsKept
      /\ proc' = "down" /\ restarts' = restarts + 1
      /\ task' = [t \in Tasks |-> Idle] /\ due' = {} /\ queue' = <<>>
  BY DEF Crash, traffic, world, RowsKept
<1>2. clock \in Nat /\ restarts \in Nat
  BY <1>0 DEF WorldTyped
<1>3. \A t \in Tasks : task'[t] = Idle
  BY <1>1
<1>4. Calm
  <2>1. restarts' # 0 /\ clock \in Nat /\ clock' = clock
    BY <1>1, <1>2
  <2> QED
    BY <1>1, <1>3, <2>1, IdleFacts DEF Calm
<1>5. RowsTyped'
  BY <1>0, <1>1, <1>2, RowsKeptTyped
<1>6. WorldTyped'
  BY <1>0, <1>1, IdleFacts DEF WorldTyped, RowsKept, BatchIds
<1>7. TasksFit'
  <2>1. Sound(Idle)'
    BY <1>1, IdleFacts DEF Sound, RowsKept, BatchIds
  <2> QED
    BY <1>1, <1>3, <2>1 DEF TasksFit, DueFits
<1>8. QueueFits' /\ OneGap'
  <2>1. queue' \in Seq(Tasks) /\ Len(queue') = 0
    BY <1>1
  <2>2. \A t \in Tasks : task'[t].pc = "idle"
    BY <1>3, IdleFacts
  <2> QED
    BY <2>1, <2>2 DEF QueueFits, OneGap, InGap, Held
<1> QED
  BY <1>4, <1>5, <1>6, <1>7, <1>8 DEF TrafficInv

-----------------------------------------------------------------------------
(* Steps that change the rows of the recorded purchases.                   *)

\* What no step changes of a recorded purchase.
SameBatch(b) ==
    /\ batches'[b].req = batches[b].req /\ batches'[b].items = batches[b].items
    /\ batches'[b].started = batches[b].started
    /\ batches'[b].status = "invalidated" <=> batches[b].status = "invalidated"

RowsMove ==
    /\ IsSeq(batches', Len(batches)) /\ IsSeq(expenses', Len(batches))
    /\ IsSeq(jobs', Len(batches)) /\ IsSeq(values', Len(batches))
    /\ \A b \in BatchIds :
          /\ batches'[b] \in Batch /\ SameBatch(b)
          /\ jobs'[b] \in [JobsOf(b) -> JobRow(Items(b))]
          /\ values'[b] \in [Cps -> [Items(b) -> Value(clock)]]

LEMMA RowsMoved ==
    ASSUME RowsTyped, RowsMove, clock' = clock
    PROVE  /\ RowsTyped' /\ Len(batches') = Len(batches) /\ BatchIds' = BatchIds
           /\ \A b \in BatchIds : Items(b)' = Items(b) /\ JobsOf(b)' = JobsOf(b)
           /\ \A b \in BatchIds, c \in Cps : DueAt(b, c)' = DueAt(b, c)
<1>1. Len(batches') = Len(batches)
  BY SeqFacts DEF RowsMove
<1>2. BatchIds' = BatchIds
  BY <1>1 DEF BatchIds
<1>3. \A b \in BatchIds : Items(b)' = Items(b) /\ JobsOf(b)' = JobsOf(b)
  BY DEF RowsMove, SameBatch, Items, JobsOf
<1>4. \A b \in BatchIds : batches'[b].started \in 0..clock'
  BY DEF RowsTyped, RowsMove, SameBatch
<1>5. \A b \in BatchIds, c \in Cps : DueAt(b, c)' = DueAt(b, c)
  BY DEF RowsMove, SameBatch, DueAt
<1>6. RowsTyped'
  BY <1>1, <1>2, <1>3, <1>4 DEF RowsMove, RowsTyped
<1> QED
  BY <1>1, <1>2, <1>3, <1>5, <1>6

\* A step between two commits, or of the user, with what it leaves alone.
SideKept == SideTyped' /\ UNCHANGED <<clock, setup, restarts>>

DueAfter ==
    /\ due' \subseteq BatchIds \X Cps
    /\ \A j \in due' : batches[j[1]].status # "invalidated"
    /\ reminded' \subseteq BatchIds \X Cps

LEMMA WorldMoved ==
    ASSUME TrafficInv, RowsMove, SideKept, DueAfter, proc' \in {"up", "down"},
           task' \in [Tasks -> Task], \A u \in Tasks : Sound(task'[u])
    PROVE  RowsTyped' /\ WorldTyped' /\ TasksFit'
<1>0. RowsTyped /\ WorldTyped
  BY DEF TrafficInv
<1>1. /\ RowsTyped' /\ Len(batches') = Len(batches) /\ BatchIds' = BatchIds
      /\ \A b \in BatchIds : batches'[b].status = "invalidated" <=> batches[b].status = "invalidated"
  BY <1>0, RowsMoved DEF SideKept, RowsMove, SameBatch
<1>2. WorldTyped'
  BY <1>0, <1>1 DEF WorldTyped, SideKept, SideTyped, DueAfter
<1>3. DueFits'
  BY <1>1 DEF DueAfter, DueFits
<1>4. \A u \in Tasks : Sound(task[u])'
  BY <1>1 DEF Sound, SideKept
<1> QED
  BY <1>1, <1>2, <1>3, <1>4 DEF TasksFit

LEMMA WorkMove ==
    ASSUME TrafficInv, RowsMove, SideKept, DueAfter, proc' = proc,
           NEW t \in Tasks, NEW x \in Task, Sound(x), task' = [task EXCEPT ![t] = x],
           Quiet \/ InGap(t), Asks(t) \/ HandsOn(t) \/ Keeps(t) \/ Does(t)
    PROVE  TrafficInv'
<1>0. WorldTyped /\ QueueFits /\ OneGap /\ TasksFit
  BY DEF TrafficInv
<1>1. /\ task'[t] = x /\ task' \in [Tasks -> Task]
      /\ task' = [task EXCEPT ![t] = task'[t]]
      /\ \A u \in Tasks : u # t => task'[u] = task[u]
  BY <1>0, Moved
<1>2. QueueFits' /\ OneGap'
  BY <1>0, <1>1, TurnCalls DEF Turn
<1>3. \A u \in Tasks : Sound(task'[u])
  BY <1>0, <1>1 DEF TasksFit
<1>4. RowsTyped' /\ WorldTyped' /\ TasksFit'
  BY <1>0, <1>1, <1>3, WorldMoved DEF WorldTyped
<1> QED
  BY <1>2, <1>4 DEF TrafficInv

LEMMA WorkRest ==
    ASSUME TrafficInv, RowsMove, SideKept, UNCHANGED <<task, queue, due, reminded>>,
           proc' \in {"up", "down"}
    PROVE  TrafficInv'
<1>0. WorldTyped /\ QueueFits /\ OneGap /\ TasksFit
  BY DEF TrafficInv
<1>1. QueueFits' /\ OneGap'
  BY <1>0 DEF QueueFits, OneGap, InGap, Holds
<1>2. DueAfter
  BY <1>0 DEF DueAfter, TasksFit, DueFits, WorldTyped
<1>3. RowsTyped' /\ WorldTyped' /\ TasksFit'
  BY <1>0, <1>2, WorldMoved DEF WorldTyped, TasksFit
<1> QED
  BY <1>1, <1>3 DEF TrafficInv

\* One row of one batch is written.
Puts(g, f, b, c, r) == g = [f EXCEPT ![b] = [f[b] EXCEPT ![c] = r]]

JobPut(b, c, r) ==
    /\ IsSeq(jobs', Len(batches))
    /\ \A k \in BatchIds : jobs'[k] \in [JobsOf(k) -> JobRow(Items(k))]
    /\ jobs'[b][c] = r
    /\ \A k \in BatchIds : \A d \in JobsOf(k) : <<k, d>> # <<b, c>> => jobs'[k][d] = jobs[k][d]

LEMMA JobSet ==
    ASSUME RowsTyped, NEW b \in BatchIds, NEW c \in JobsOf(b), NEW r \in JobRow(Items(b)),
           Puts(jobs', jobs, b, c, r)
    PROVE  JobPut(b, c, r)
<1> DEFINE e == [jobs[b] EXCEPT ![c] = r]
<1>1. jobs' = [jobs EXCEPT ![b] = e]
  BY DEF Puts
<1>2. jobs[b] \in [JobsOf(b) -> JobRow(Items(b))] /\ IsSeq(jobs, Len(batches))
  BY DEF RowsTyped
<1>3. /\ e \in [JobsOf(b) -> JobRow(Items(b))] /\ e[c] = r
      /\ \A d \in JobsOf(b) : d # c => e[d] = jobs[b][d]
  BY <1>2
<1> HIDE DEF e
<1>4. /\ IsSeq(jobs', Len(batches))
      /\ \A k \in 1..Len(batches) : jobs'[k] = IF k = b THEN e ELSE jobs[k]
  <2>1. Len(batches) \in Nat /\ jobs = [i \in 1..Len(batches) |-> jobs[i]]
    BY <1>2 DEF IsSeq
  <2> QED
    BY <1>1, <2>1 DEF IsSeq
<1> QED
  BY <1>3, <1>4 DEF RowsTyped, BatchIds, JobPut

\* What a job becomes when some of its fields are written.
JobIs(S, r, s, n, a, d, rs) ==
    /\ r \in JobRow(S)
    /\ r.status = s /\ r.attempts = n /\ r.asked = a /\ r.delay = d /\ r.rows = rs

LEMMA JobField ==
    ASSUME NEW S, NEW j \in JobRow(S)
    PROVE  /\ \A s \in JobStatus :
                 JobIs(S, [j EXCEPT !.status = s], s, j.attempts, j.asked, j.delay, j.rows)
           /\ \A n \in Nat :
                 JobIs(S, [j EXCEPT !.attempts = n], j.status, n, j.asked, j.delay, j.rows)
           /\ \A n \in Nat :
                 JobIs(S, [j EXCEPT !.asked = n], j.status, j.attempts, n, j.delay, j.rows)
           /\ \A d \in Nat \cup {None} :
                 JobIs(S, [j EXCEPT !.delay = d], j.status, j.attempts, j.asked, d, j.rows)
           /\ \A rs \in [S -> RowStatus] :
                 JobIs(S, [j EXCEPT !.rows = rs], j.status, j.attempts, j.asked, j.delay, rs)
BY DEF JobIs, JobRow

LEMMA JobFields ==
    ASSUME NEW S, NEW j \in JobRow(S), NEW s \in JobStatus, NEW n \in Nat,
           NEW d \in Nat \cup {None}, NEW rs \in [S -> RowStatus]
    PROVE  /\ JobIs(S, [j EXCEPT !.status = s], s, j.attempts, j.asked, j.delay, j.rows)
           /\ JobIs(S, [j EXCEPT !.rows = rs], j.status, j.attempts, j.asked, j.delay, rs)
           /\ JobIs(S, [j EXCEPT !.status = s, !.attempts = n], s, n, j.asked, j.delay, j.rows)
           /\ JobIs(S, [j EXCEPT !.status = s, !.delay = d], s, j.attempts, j.asked, d, j.rows)
           /\ JobIs(S, [j EXCEPT !.status = s, !.rows = rs], s, j.attempts, j.asked, j.delay, rs)
           /\ JobIs(S, [j EXCEPT !.status = s, !.delay = d, !.rows = rs],
                    s, j.attempts, j.asked, d, rs)
           /\ JobIs(S, [j EXCEPT !.status = s, !.asked = n, !.rows = rs],
                    s, j.attempts, n, j.delay, rs)
<1> DEFINE k == [j EXCEPT !.status = s]
<1>1. JobIs(S, k, s, j.attempts, j.asked, j.delay, j.rows)
  BY JobField
<1>2. JobIs(S, [j EXCEPT !.rows = rs], j.status, j.attempts, j.asked, j.delay, rs)
  BY JobField
<1>3. k \in JobRow(S)
  BY <1>1 DEF JobIs
<1>4. JobIs(S, [k EXCEPT !.attempts = n], s, n, j.asked, j.delay, j.rows)
  <2> HIDE DEF k
  <2>1. JobIs(S, [k EXCEPT !.attempts = n], k.status, n, k.asked, k.delay, k.rows)
    BY <1>3, JobField
  <2> QED
    BY <1>1, <2>1 DEF JobIs
<1> DEFINE l == [k EXCEPT !.delay = d]
           m == [k EXCEPT !.asked = n]
<1>5. JobIs(S, l, s, j.attempts, j.asked, d, j.rows) /\ JobIs(S, m, s, j.attempts, n, j.delay, j.rows)
  <2> HIDE DEF k
  <2>1. JobIs(S, l, k.status, k.attempts, k.asked, d, k.rows)
    BY <1>3, JobField
  <2>2. JobIs(S, m, k.status, k.attempts, n, k.delay, k.rows)
    BY <1>3, JobField
  <2> QED
    BY <1>1, <2>1, <2>2 DEF JobIs
<1>6. ASSUME NEW y \in JobRow(S)
      PROVE  JobIs(S, [y EXCEPT !.rows = rs], y.status, y.attempts, y.asked, y.delay, rs)
  BY JobField
<1>7. /\ JobIs(S, [k EXCEPT !.rows = rs], s, j.attempts, j.asked, j.delay, rs)
      /\ JobIs(S, [l EXCEPT !.rows = rs], s, j.attempts, j.asked, d, rs)
      /\ JobIs(S, [m EXCEPT !.rows = rs], s, j.attempts, n, j.delay, rs)
  <2> HIDE DEF k, l, m
  <2>1. l \in JobRow(S) /\ m \in JobRow(S)
    BY <1>5 DEF JobIs
  <2> QED
    BY <1>1, <1>3, <1>5, <1>6, <2>1 DEF JobIs
<1> QED
  BY <1>1, <1>2, <1>4, <1>5, <1>7

-----------------------------------------------------------------------------
(* The invariants behind the promises.                                     *)

\* Every automatic reading of a checkpoint was asked for: by its schedule, or by a
\* repetition.  One that may still be taken up has a reading left.
Attempts ==
    /\ \A b \in BatchIds : \A c \in JobsOf(b) :
          /\ jobs[b][c].attempts <= 1 + jobs[b][c].asked
          /\ Startable(b, c) \/ <<b, c>> \in due => jobs[b][c].attempts <= jobs[b][c].asked
    /\ \A t \in Tasks : task[t].pc = "begin" =>
          LET b == task[t].of
              c == task[t].cp
          IN  /\ jobs[b][c].attempts <= jobs[b][c].asked
              /\ <<b, c>> \in due => jobs[b][c].attempts < jobs[b][c].asked

\* What counts as read was counted.
Counted ==
    \A b \in BatchIds :
        /\ \A c \in JobsOf(b), p \in Items(b) :
              jobs[b][c].rows[p] = "completed" \/ jobs[b][c].status = "completed" => Has(b, c, p)
        /\ batches[b].status = "closed" => \A p \in Items(b) : Has(b, Terminal, p)

\* Nothing is read before its hour, unless a repetition was asked for.
Timely(b, c) == DueAt(b, c) <= clock \/ jobs[b][c].asked > 0

OnTime ==
    /\ \A b \in BatchIds : \A c \in JobsOf(b), p \in Items(b) :
          Has(b, c, p) => values[b][c][p].at >= DueAt(b, c) \/ jobs[b][c].asked > 0
    /\ \A t \in Tasks : task[t].kind = "job" => Timely(task[t].of, task[t].cp)
    /\ \A j \in due : DueAt(j[1], j[2]) <= clock

\* Somebody reads the listings of a checkpoint.
Read(b, c) ==
    \E t \in Tasks :
        task[t].kind = "job" /\ task[t].pc \in Held /\ task[t].of = b /\ task[t].cp = c

\* The delay of a completed checkpoint covers every one of its readings.
Covered(b, c) ==
    /\ jobs[b][c].delay \in Nat
    /\ \A p \in Items(b) : values[b][c][p].at <= DueAt(b, c) + jobs[b][c].delay

Dated ==
    restarts = 0 =>
        \A b \in BatchIds : \A c \in JobsOf(b) :
            jobs[b][c].status = "completed" /\ ~Read(b, c) => Covered(b, c)

Promises == Attempts /\ Counted /\ OnTime /\ Dated /\ PaidOnce

FullInv == TrafficInv /\ Promises

-----------------------------------------------------------------------------
(* What becomes of the rows of a recorded purchase in any step.            *)

JobGoes(b, c) ==
    /\ jobs'[b][c].asked >= jobs[b][c].asked
    /\ \A p \in Items(b) :
          /\ jobs'[b][c].rows[p] = "completed" \/ jobs'[b][c].status = "completed" =>
                \/ jobs[b][c].rows[p] = "completed" \/ jobs[b][c].status = "completed"
                \/ Has(b, c, p)'
          /\ Has(b, c, p) => Has(b, c, p)'
          /\ Has(b, c, p)' =>
                \/ values'[b][c][p] = values[b][c][p]
                \/ values'[b][c][p].at >= DueAt(b, c)
                \/ jobs'[b][c].asked > 0
    /\ restarts' = 0 /\ jobs'[b][c].status = "completed" /\ ~Read(b, c)' =>
          \/ /\ jobs[b][c].status = "completed" /\ ~Read(b, c)
             /\ jobs'[b][c].delay = jobs[b][c].delay
             /\ values'[b][c] = values[b][c]
          \/ Covered(b, c)'

BatchGoes(b) ==
    /\ batches'[b].status = "closed" =>
          batches[b].status = "closed" \/ \A p \in Items(b) : Has(b, Terminal, p)'
    /\ expenses[b] = batches[b].cost => expenses'[b] = batches'[b].cost

\* No task takes up a checkpoint before its hour.
TasksGo ==
    /\ \A u \in Tasks : task'[u].kind = "job" =>
          \/ task[u].kind = "job" /\ task'[u].of = task[u].of /\ task'[u].cp = task[u].cp
          \/ Timely(task[u].of, task[u].cp)'
    /\ \A j \in due' : j \in due \/ DueAt(j[1], j[2]) <= clock

Work ==
    /\ RowsMove /\ clock' = clock /\ restarts' = restarts
    /\ \A b \in BatchIds : BatchGoes(b) /\ \A c \in JobsOf(b) : JobGoes(b, c)
    /\ TasksGo

LEMMA WorkKeeps ==
    ASSUME TrafficInv, TrafficInv', Work, Counted, OnTime, Dated, PaidOnce
    PROVE  Counted' /\ OnTime' /\ Dated' /\ PaidOnce'
<1>1. /\ BatchIds' = BatchIds
      /\ \A b \in BatchIds : Items(b)' = Items(b) /\ JobsOf(b)' = JobsOf(b)
      /\ \A b \in BatchIds, c \in Cps : DueAt(b, c)' = DueAt(b, c)
      /\ clock' = clock
  BY RowsMoved DEF Work, TrafficInv
<1>2. /\ \A b \in BatchIds : JobsOf(b) \subseteq Cps
      /\ \A b \in BatchIds : batches[b].status # "invalidated" => JobsOf(b) = Cps
      /\ Terminal \in Cps
  BY TrafficAssumption DEF JobsOf, Cps, Terminal
<1>3. \A b \in BatchIds : \A c \in JobsOf(b) : jobs[b][c].asked \in Nat /\ jobs'[b][c].asked \in Nat
  <2>1. \A b \in BatchIds : \A c \in JobsOf(b) : jobs'[b][c] \in JobRow(Items(b))
    BY DEF Work, RowsMove
  <2>2. \A b \in BatchIds : \A c \in JobsOf(b) : jobs[b][c] \in JobRow(Items(b))
    BY DEF TrafficInv, RowsTyped
  <2> QED
    BY <2>1, <2>2 DEF JobRow
<1>4. Counted'
  <2>1. ASSUME NEW b \in BatchIds, NEW c \in JobsOf(b), NEW p \in Items(b),
               jobs'[b][c].rows[p] = "completed" \/ jobs'[b][c].status = "completed"
        PROVE  Has(b, c, p)'
    BY <2>1 DEF Work, JobGoes, Counted
  <2>2. ASSUME NEW b \in BatchIds, batches'[b].status = "closed", NEW p \in Items(b)
        PROVE  Has(b, Terminal, p)'
    <3>1. CASE batches[b].status = "closed"
      <4>1. Has(b, Terminal, p) /\ Terminal \in JobsOf(b)
        BY <1>2, <3>1 DEF Counted
      <4> QED
        BY <4>1 DEF Work, JobGoes
    <3> QED
      BY <2>2, <3>1 DEF Work, BatchGoes
  <2> QED
    BY <1>1, <2>1, <2>2 DEF Counted
<1>5. OnTime'
  <2>1. ASSUME NEW b \in BatchIds, NEW c \in JobsOf(b), NEW p \in Items(b), Has(b, c, p)'
        PROVE  values'[b][c][p].at >= DueAt(b, c) \/ jobs'[b][c].asked > 0
    <3>1. JobGoes(b, c)
      BY DEF Work
    <3>2. CASE values'[b][c][p] = values[b][c][p]
      <4>1. Has(b, c, p)
        BY <2>1, <3>2 DEF Has, NoValue
      <4>2. values[b][c][p].at >= DueAt(b, c) \/ jobs[b][c].asked > 0
        BY <4>1 DEF OnTime
      <4> QED
        BY <1>3, <3>1, <3>2, <4>2 DEF JobGoes
    <3> QED
      BY <2>1, <3>1, <3>2 DEF JobGoes
  <2>2. ASSUME NEW u \in Tasks, task'[u].kind = "job"
        PROVE  Timely(task[u].of, task[u].cp)'
    <3>1. CASE task[u].kind = "job" /\ task'[u].of = task[u].of /\ task'[u].cp = task[u].cp
      <4>1. /\ task[u].of \in BatchIds /\ task[u].cp \in JobsOf(task[u].of)
            /\ Timely(task[u].of, task[u].cp)
        BY <1>2, <3>1 DEF OnTime, TrafficInv, TasksFit, Sound
      <4>2. ASSUME NEW b \in BatchIds, NEW c \in JobsOf(b), Timely(b, c)
            PROVE  Timely(b, c)'
        <5>1. JobGoes(b, c)
          BY DEF Work
        <5> QED
          BY <1>1, <1>2, <1>3, <4>2, <5>1 DEF Timely, JobGoes
      <4>3. ASSUME NEW b \in BatchIds, NEW c \in JobsOf(b), b = task[u].of, c = task[u].cp
            PROVE  Timely(task[u].of, task[u].cp)'
        <5>1. Timely(b, c)' /\ task'[u].of = b /\ task'[u].cp = c
          BY <3>1, <4>1, <4>2, <4>3
        <5> QED
          BY <5>1 DEF Timely, DueAt
      <4> QED
        BY <4>1, <4>3
    <3> QED
      BY <2>2, <3>1 DEF Work, TasksGo
  <2>3. ASSUME NEW j \in due'
        PROVE  DueAt(j[1], j[2])' <= clock'
    <3>1. j[1] \in BatchIds /\ j[2] \in Cps
      BY <1>1, <2>3 DEF TrafficInv, TasksFit, DueFits
    <3>2. DueAt(j[1], j[2]) <= clock
      BY <2>3 DEF Work, TasksGo, OnTime
    <3> QED
      BY <1>1, <3>1, <3>2
  <2> QED
    BY <1>1, <1>2, <2>1, <2>2, <2>3 DEF OnTime
<1>6. Dated'
  <2>1. ASSUME restarts' = 0, NEW b \in BatchIds, NEW c \in JobsOf(b),
               jobs'[b][c].status = "completed", ~Read(b, c)'
        PROVE  Covered(b, c)'
    <3>1. JobGoes(b, c) /\ restarts = 0
      BY <2>1 DEF Work
    <3>2. CASE /\ jobs[b][c].status = "completed" /\ ~Read(b, c)
               /\ jobs'[b][c].delay = jobs[b][c].delay
               /\ values'[b][c] = values[b][c]
      <4>1. Covered(b, c)
        BY <3>1, <3>2 DEF Dated
      <4>2. Items(b)' = Items(b) /\ DueAt(b, c)' = DueAt(b, c)
        BY <1>1, <1>2
      <4> QED
        BY <3>2, <4>1, <4>2 DEF Covered
    <3> QED
      BY <2>1, <3>1, <3>2 DEF JobGoes
  <2> QED
    BY <1>1, <2>1 DEF Dated
<1>7. PaidOnce'
  <2>1. \A b \in BatchIds : batches'[b].req = batches[b].req
    BY DEF Work, RowsMove, SameBatch
  <2>2. \A b \in BatchIds : expenses'[b] = batches'[b].cost
    BY DEF Work, BatchGoes, PaidOnce
  <2> QED
    BY <1>1, <2>1, <2>2 DEF PaidOnce
<1> QED
  BY <1>4, <1>5, <1>6, <1>7

\* When no reading is begun or asked for, only what may be taken up is to be looked at.
Startables ==
    /\ \A b \in BatchIds : \A c \in JobsOf(b) :
          /\ jobs'[b][c].attempts = jobs[b][c].attempts /\ jobs'[b][c].asked = jobs[b][c].asked
          /\ Startable(b, c)' => jobs[b][c].attempts <= jobs[b][c].asked
    /\ \A j \in due' : j \in due \/ Startable(j[1], j[2])
    /\ \A u \in Tasks : task'[u].pc = "begin" =>
          LET j == <<task'[u].of, task'[u].cp>> IN
          \/ task[u].pc = "begin" /\ task'[u] = task[u] /\ (j \in due' => j \in due)
          \/ j \in BatchIds \X Cps /\ j \notin due' /\ (j \in due \/ Startable(j[1], j[2]))

LEMMA AttemptsKept ==
    ASSUME TrafficInv, TrafficInv', Work, Startables, Attempts
    PROVE  Attempts'
<1>1. /\ BatchIds' = BatchIds
      /\ \A b \in BatchIds : JobsOf(b)' = JobsOf(b)
  BY RowsMoved DEF Work, TrafficInv
<1>2. \A b \in BatchIds : batches[b].status # "invalidated" => JobsOf(b) = Cps
  BY DEF JobsOf
<1>3. \A j \in due' : j = <<j[1], j[2]>> /\ j[1] \in BatchIds /\ j[2] \in JobsOf(j[1])
  BY <1>1, <1>2 DEF TrafficInv, TasksFit, DueFits, Work, RowsMove, SameBatch
<1>4. ASSUME NEW b \in BatchIds, NEW c \in JobsOf(b)
      PROVE  /\ jobs'[b][c].attempts <= 1 + jobs'[b][c].asked
             /\ Startable(b, c)' \/ <<b, c>> \in due' => jobs'[b][c].attempts <= jobs'[b][c].asked
  <2>1. jobs'[b][c].attempts <= 1 + jobs'[b][c].asked
    BY DEF Attempts, Startables
  <2>2. <<b, c>> \in due' => jobs'[b][c].attempts <= jobs'[b][c].asked
    <3>1. <<b, c>> \in due' => <<b, c>> \in due \/ Startable(b, c)
      BY DEF Startables
    <3> QED
      BY <3>1 DEF Attempts, Startables
  <2> QED
    BY <2>1, <2>2 DEF Startables
<1>5. ASSUME NEW u \in Tasks, task'[u].pc = "begin"
      PROVE  LET b == task'[u].of
                 c == task'[u].cp
             IN  /\ jobs'[b][c].attempts <= jobs'[b][c].asked
                 /\ <<b, c>> \in due' => jobs'[b][c].attempts < jobs'[b][c].asked
  <2> DEFINE b == task'[u].of
             c == task'[u].cp
  <2>1. task'[u].kind = "job" /\ b \in BatchIds /\ c \in JobsOf(b)
    <3>1. Sound(task[u])'
      BY DEF TrafficInv, TasksFit
    <3>2. b \in BatchIds /\ c \in Cps /\ batches'[b].status # "invalidated" /\ task'[u].kind = "job"
      BY <1>1, <1>5, <3>1 DEF Sound
    <3> QED
      BY <1>2, <3>2 DEF Work, RowsMove, SameBatch
  <2>2. jobs'[b][c].attempts = jobs[b][c].attempts /\ jobs'[b][c].asked = jobs[b][c].asked
    BY <2>1 DEF Startables
  <2>3. CASE task[u].pc = "begin" /\ task'[u] = task[u] /\ (<<b, c>> \in due' => <<b, c>> \in due)
    <3>1. /\ jobs[b][c].attempts <= jobs[b][c].asked
          /\ <<b, c>> \in due => jobs[b][c].attempts < jobs[b][c].asked
      BY <2>3 DEF Attempts
    <3> QED
      BY <2>2, <2>3, <3>1
  <2>4. CASE <<b, c>> \notin due' /\ (<<b, c>> \in due \/ Startable(b, c))
    BY <2>1, <2>2, <2>4 DEF Attempts
  <2> QED
    BY <1>5, <2>3, <2>4 DEF Startables
<1> QED
  BY <1>1, <1>4, <1>5 DEF Attempts

LEMMA DueIs ==
    ASSUME RowsTyped, clock \in Nat, NEW b \in BatchIds, NEW c \in Cps
    PROVE  DueAt(b, c) \in Nat
<1>1. batches[b].started \in Nat
  BY DEF RowsTyped
<1>2. Hours[c] \in Nat
  BY TrafficAssumption DEF Cps
<1> QED
  BY <1>1, <1>2 DEF DueAt

LEMMA CalmKeeps ==
    ASSUME TrafficInv, TrafficInv', Calm, Promises
    PROVE  Promises'
<1>1. /\ BatchIds' = BatchIds
      /\ \A b \in BatchIds : Items(b)' = Items(b) /\ JobsOf(b)' = JobsOf(b)
      /\ \A b, c : DueAt(b, c)' = DueAt(b, c)
      /\ \A b, c : Startable(b, c)' = Startable(b, c)
      /\ \A b, c, p : Has(b, c, p)' = Has(b, c, p)
      /\ UNCHANGED <<batches, jobs, values, expenses>>
  BY DEF Calm, RowsKept, BatchIds, Items, JobsOf, DueAt, Startable, Has
<1>2. Attempts'
  <2>1. ASSUME NEW u \in Tasks, task'[u].pc = "begin"
        PROVE  /\ task[u].pc = "begin"
               /\ task'[u].of = task[u].of /\ task'[u].cp = task[u].cp
    <3>1. task'[u].kind = "job"
      BY <2>1 DEF TrafficInv, TasksFit, Sound
    <3> QED
      BY <2>1, <3>1 DEF Calm
  <2> QED
    BY <1>1, <2>1 DEF Attempts, Calm, Promises
<1>3. Counted'
  BY <1>1 DEF Counted, Promises
<1>4. OnTime'
  <2>1. clock \in Nat /\ clock' \in Nat /\ clock <= clock' /\ due' \subseteq due
    BY DEF Calm
  <2>2. ASSUME NEW u \in Tasks, task'[u].kind = "job"
        PROVE  /\ task[u].kind = "job" /\ task'[u].of = task[u].of /\ task'[u].cp = task[u].cp
    BY <2>2 DEF Calm
  <2>3. ASSUME NEW b \in BatchIds, NEW c \in Cps
        PROVE  Timely(b, c) => Timely(b, c)'
    <3>1. DueAt(b, c) \in Nat /\ DueAt(b, c)' = DueAt(b, c)
      BY <1>1, <2>1, DueIs DEF TrafficInv
    <3> QED
      BY <1>1, <2>1, <3>1 DEF Timely
  <2>4. ASSUME NEW u \in Tasks, task'[u].kind = "job"
        PROVE  Timely(task[u].of, task[u].cp)'
    <3>1. /\ task[u].of \in BatchIds /\ task[u].cp \in Cps
          /\ Timely(task[u].of, task[u].cp)
      BY <2>2, <2>4 DEF TrafficInv, TasksFit, Sound, OnTime, Promises
    <3>2. ASSUME NEW b \in BatchIds, NEW c \in Cps, b = task[u].of, c = task[u].cp
          PROVE  Timely(task[u].of, task[u].cp)'
      <4>1. Timely(b, c)' /\ task'[u].of = b /\ task'[u].cp = c
        BY <2>2, <2>3, <2>4, <3>1, <3>2
      <4> QED
        BY <4>1 DEF Timely, DueAt
    <3> QED
      BY <3>1, <3>2
  <2>5. ASSUME NEW j \in due'
        PROVE  DueAt(j[1], j[2])' <= clock'
    <3>1. j \in due /\ j[1] \in BatchIds /\ j[2] \in Cps /\ DueAt(j[1], j[2]) <= clock
      BY <2>1, <2>5 DEF TrafficInv, TasksFit, DueFits, OnTime, Promises
    <3>2. DueAt(j[1], j[2]) \in Nat /\ DueAt(j[1], j[2])' = DueAt(j[1], j[2])
      BY <1>1, <2>1, <3>1, DueIs DEF TrafficInv
    <3> QED
      BY <2>1, <3>1, <3>2
  <2>6. \A b \in BatchIds : \A c \in JobsOf(b), p \in Items(b) :
          Has(b, c, p) => values[b][c][p].at >= DueAt(b, c) \/ jobs[b][c].asked > 0
    BY DEF OnTime, Promises
  <2>7. (\A b \in BatchIds : \A c \in JobsOf(b), p \in Items(b) :
          Has(b, c, p) => values[b][c][p].at >= DueAt(b, c) \/ jobs[b][c].asked > 0)'
    BY <1>1, <2>6
  <2> QED
    BY <2>4, <2>5, <2>7 DEF OnTime
<1>5. Dated'
  <2>1. ASSUME restarts' = 0, NEW b, NEW c, Read(b, c)
        PROVE  Read(b, c)'
    BY <2>1 DEF Calm, Read
  <2>2. restarts' = 0 => restarts = 0
    BY DEF Calm
  <2> QED
    BY <1>1, <2>1, <2>2 DEF Dated, Covered, Promises
<1>6. PaidOnce'
  BY <1>1 DEF PaidOnce, Promises
<1> QED
  BY <1>2, <1>3, <1>4, <1>5, <1>6 DEF Promises

\* A job whose readings are not added to, and which is not completed by the step.
Marked(b, c) ==
    /\ values'[b][c] = values[b][c]
    /\ jobs'[b][c].asked >= jobs[b][c].asked
    /\ \A p \in Items(b) :
          jobs'[b][c].rows[p] = "completed" => jobs[b][c].rows[p] = "completed"
    /\ jobs'[b][c].status = "completed" =>
          jobs[b][c].status = "completed" /\ jobs'[b][c].delay = jobs[b][c].delay

LEMMA MarkedGoes ==
    ASSUME NEW b, NEW c, Marked(b, c), Read(b, c) => Read(b, c)'
    PROVE  JobGoes(b, c)
BY DEF Marked, JobGoes, Has

\* How often a job was begun and asked for does not change, and it may be taken up
\* only if it has a reading left.
NotBegun(b, c) ==
    /\ jobs'[b][c].attempts = jobs[b][c].attempts /\ jobs'[b][c].asked = jobs[b][c].asked
    /\ Startable(b, c)' => jobs[b][c].attempts <= jobs[b][c].asked

LEMMA SameJobGoes ==
    ASSUME RowsTyped, Attempts, NEW b \in BatchIds, NEW c \in JobsOf(b),
           jobs'[b][c] = jobs[b][c]
    PROVE  /\ NotBegun(b, c)
           /\ values'[b][c] = values[b][c] => Marked(b, c)
<1>1. jobs[b][c] \in JobRow(Items(b))
  BY DEF RowsTyped
<1>2. jobs[b][c].asked \in Nat
  BY <1>1 DEF JobRow
<1>3. jobs[b][c].status \in {"scheduled", "waiting_connection"} =>
          jobs[b][c].attempts <= jobs[b][c].asked
  BY DEF Attempts, Startable
<1>4. NotBegun(b, c)
  BY <1>3 DEF NotBegun, Startable
<1>5. values'[b][c] = values[b][c] => Marked(b, c)
  BY <1>2 DEF Marked
<1> QED
  BY <1>4, <1>5

LEMMA RestStep ==
    ASSUME FullInv, RowsMove, SideKept, UNCHANGED <<task, queue, due, reminded>>,
           proc' \in {"up", "down"},
           \A b \in BatchIds :
              BatchGoes(b) /\ \A c \in JobsOf(b) : JobGoes(b, c) /\ NotBegun(b, c)
    PROVE  FullInv'
<1>1. TrafficInv'
  BY WorkRest DEF FullInv
<1>2. Work
  BY DEF Work, SideKept, TasksGo
<1>3. Startables
  BY DEF Startables, NotBegun
<1> QED
  BY <1>1, <1>2, <1>3, WorkKeeps, AttemptsKept DEF FullInv, Promises

\* A step of one task.
LEMMA TaskStep ==
    ASSUME FullInv, RowsMove, SideKept, DueAfter, proc' = proc,
           NEW t \in Tasks, NEW x \in Task, Sound(x), task' = [task EXCEPT ![t] = x],
           Quiet \/ InGap(t), Asks(t) \/ HandsOn(t) \/ Keeps(t) \/ Does(t),
           \A b \in BatchIds : BatchGoes(b) /\ \A c \in JobsOf(b) : JobGoes(b, c),
           TasksGo, Startables \/ Attempts'
    PROVE  FullInv'
<1>1. TrafficInv'
  BY WorkMove DEF FullInv
<1>2. Work
  BY DEF Work, SideKept
<1> QED
  BY <1>1, <1>2, WorkKeeps, AttemptsKept DEF FullInv, Promises

-----------------------------------------------------------------------------
(* The steps of the user.                                                  *)

\* What a batch becomes when some of its fields are written.
BatchIs(z, y, s, m, n) ==
    /\ z \in Batch /\ z.status = s /\ z.mode = m /\ z.cost = n
    /\ z.req = y.req /\ z.items = y.items /\ z.started = y.started

LEMMA BatchField ==
    ASSUME NEW y \in Batch
    PROVE  /\ \A s \in BatchStatus : BatchIs([y EXCEPT !.status = s], y, s, y.mode, y.cost)
           /\ \A m \in {"auto", "manual"} : BatchIs([y EXCEPT !.mode = m], y, y.status, m, y.cost)
           /\ \A n \in Nat : BatchIs([y EXCEPT !.cost = n], y, y.status, y.mode, n)
           /\ BatchIs([y EXCEPT !.completed = TRUE], y, y.status, y.mode, y.cost)
<1>1. PICK S \in SUBSET Products : y \in BatchOf(S)
  BY DEF Batch
<1>2. ASSUME NEW z \in BatchOf(S)
      PROVE  z \in Batch
  BY <1>2 DEF Batch
<1>3. ASSUME NEW s \in BatchStatus
      PROVE  BatchIs([y EXCEPT !.status = s], y, s, y.mode, y.cost)
  <2>1. [y EXCEPT !.status = s] \in BatchOf(S)
    BY <1>1 DEF BatchOf
  <2> QED
    BY <1>1, <1>2, <2>1 DEF BatchIs, BatchOf
<1>4. ASSUME NEW m \in {"auto", "manual"}
      PROVE  BatchIs([y EXCEPT !.mode = m], y, y.status, m, y.cost)
  <2>1. [y EXCEPT !.mode = m] \in BatchOf(S)
    BY <1>1 DEF BatchOf
  <2> QED
    BY <1>1, <1>2, <2>1 DEF BatchIs, BatchOf
<1>5. ASSUME NEW n \in Nat
      PROVE  BatchIs([y EXCEPT !.cost = n], y, y.status, y.mode, n)
  <2>1. [y EXCEPT !.cost = n] \in BatchOf(S)
    BY <1>1 DEF BatchOf
  <2> QED
    BY <1>1, <1>2, <2>1 DEF BatchIs, BatchOf
<1>6. BatchIs([y EXCEPT !.completed = TRUE], y, y.status, y.mode, y.cost)
  <2>1. [y EXCEPT !.completed = TRUE] \in BatchOf(S)
    BY <1>1 DEF BatchOf
  <2> QED
    BY <1>1, <1>2, <2>1 DEF BatchIs, BatchOf
<1> QED
  BY <1>3, <1>4, <1>5, <1>6

LEMMA BatchFacts ==
    ASSUME NEW y \in Batch
    PROVE  /\ y.status \in BatchStatus /\ y.mode \in {"auto", "manual"} /\ y.cost \in Nat
           /\ y.items \in SUBSET Products /\ y.base \in [y.items -> Nat \cup {None}]
           /\ y.req \in Requests
<1>1. PICK S \in SUBSET Products : y \in BatchOf(S)
  BY DEF Batch
<1> QED
  BY <1>1 DEF BatchOf

\* One batch is written.
LEMMA BatchSet ==
    ASSUME RowsTyped, NEW b \in BatchIds, NEW z, NEW s \in BatchStatus, NEW m, NEW n,
           BatchIs(z, batches[b], s, m, n),
           s = "invalidated" <=> batches[b].status = "invalidated",
           batches' = [batches EXCEPT ![b] = z]
    PROVE  /\ IsSeq(batches', Len(batches)) /\ batches'[b] = z
           /\ \A k \in BatchIds : batches'[k] \in Batch /\ SameBatch(k)
           /\ \A k \in BatchIds : k # b => batches'[k] = batches[k]
<1>1. Len(batches) \in Nat /\ batches = [i \in BatchIds |-> batches[i]] /\ BatchIds = 1..Len(batches)
  BY DEF RowsTyped, IsSeq, BatchIds
<1>2. /\ batches' = [i \in BatchIds |-> batches'[i]] /\ batches'[b] = z
      /\ \A k \in BatchIds : k # b => batches'[k] = batches[k]
  BY <1>1
<1>3. \A k \in BatchIds : batches'[k] \in Batch /\ SameBatch(k)
  BY <1>2 DEF RowsTyped, BatchIs, SameBatch
<1> QED
  BY <1>1, <1>2, <1>3 DEF IsSeq

LEMMA BatchesSame ==
    ASSUME RowsTyped, batches' = batches
    PROVE  /\ IsSeq(batches', Len(batches))
           /\ \A k \in BatchIds : batches'[k] \in Batch /\ SameBatch(k) /\ batches'[k] = batches[k]
BY DEF RowsTyped, SameBatch

LEMMA CompleteStep ==
    ASSUME FullInv, NEW b \in BatchIds, NEW cost \in setup.costs, Complete(b, cost)
    PROVE  FullInv'
<1> DEFINE y == batches[b]
           u == [y EXCEPT !.completed = TRUE]
           v == [u EXCEPT !.cost = cost]
           z == [v EXCEPT !.status = IF y.status = "closed" THEN y.status ELSE "observing"]
<1>1. /\ UNCHANGED <<monitor, jobs, values, reminded, daily, day, clock, setup, task, due,
                     queue, proc, restarts>>
      /\ y.status # "invalidated"
      /\ expenses' = [expenses EXCEPT ![b] = cost]
  BY DEF Complete, world
<1>2. RowsTyped /\ WorldTyped /\ Attempts /\ y \in Batch
  BY DEF FullInv, TrafficInv, Promises, RowsTyped
<1>3. y.status \in BatchStatus /\ cost \in Nat
  <2>1. setup.costs \subseteq Nat
    BY <1>2, TrafficAssumption DEF WorldTyped
  <2> QED
    BY <1>2, <2>1, BatchFacts
<1>4. BatchIs(u, y, y.status, y.mode, y.cost)
  BY <1>2, BatchField
<1>5. BatchIs(v, y, y.status, y.mode, cost)
  <2> HIDE DEF u
  <2>1. u \in Batch
    BY <1>4 DEF BatchIs
  <2>2. BatchIs(v, u, u.status, u.mode, cost)
    BY <1>3, <2>1, BatchField
  <2> QED
    BY <1>4, <2>2 DEF BatchIs
<1> DEFINE s == IF y.status = "closed" THEN y.status ELSE "observing"
<1>6. BatchIs(z, y, s, y.mode, cost)
  <2> HIDE DEF v
  <2>1. v \in Batch /\ s \in BatchStatus
    BY <1>3, <1>5 DEF BatchIs, BatchStatus
  <2>2. BatchIs([v EXCEPT !.status = s], v, s, v.mode, v.cost)
    BY <2>1, BatchField
  <2> QED
    BY <1>5, <2>2 DEF BatchIs
<1>7. batches' = [batches EXCEPT ![b] = z]
  <2>1. batches' = [batches EXCEPT ![b].completed = TRUE, ![b].cost = cost,
                                   ![b].status = IF @ = "closed" THEN @ ELSE "observing"]
    BY DEF Complete
  <2>2. v.status = y.status
    BY <1>5 DEF BatchIs
  <2>3. batches = [i \in 1..Len(batches) |-> batches[i]] /\ b \in 1..Len(batches)
    BY <1>2 DEF RowsTyped, IsSeq, BatchIds
  <2> QED
    BY <2>1, <2>2, <2>3
<1> HIDE DEF z
<1>8. /\ IsSeq(batches', Len(batches)) /\ batches'[b] = z
      /\ \A k \in BatchIds : batches'[k] \in Batch /\ SameBatch(k)
      /\ \A k \in BatchIds : k # b => batches'[k] = batches[k]
  <2>1. s \in BatchStatus /\ (s = "invalidated" <=> y.status = "invalidated")
    BY <1>1, <1>3 DEF BatchStatus
  <2> QED
    BY <1>2, <1>6, <1>7, <2>1, BatchSet
<1>9. /\ IsSeq(expenses', Len(batches)) /\ expenses'[b] = cost
      /\ \A k \in BatchIds : k # b => expenses'[k] = expenses[k]
  BY <1>1, <1>2 DEF RowsTyped, IsSeq, BatchIds
<1>10. RowsMove /\ SideKept
  BY <1>1, <1>2, <1>8, <1>9, Aside DEF RowsMove, RowsTyped, SideKept
<1>11. \A k \in BatchIds : BatchGoes(k)
  BY <1>6, <1>8, <1>9 DEF BatchGoes, BatchIs
<1>12. \A k \in BatchIds : \A c \in JobsOf(k) : JobGoes(k, c) /\ NotBegun(k, c)
  BY <1>1, <1>2, SameJobGoes, MarkedGoes DEF Read
<1> QED
  BY <1>1, <1>2, <1>10, <1>11, <1>12, RestStep DEF WorldTyped

LEMMA ChangeModeStep ==
    ASSUME FullInv, NEW b \in BatchIds, NEW mode \in {"auto", "manual"}, ChangeMode(b, mode)
    PROVE  FullInv'
<1> DEFINE y == batches[b]
           z == [y EXCEPT !.mode = mode]
           row(c) ==
               CASE mode = "manual" /\ DueAt(b, c) <= clock /\ jobs[b][c].status # "completed" ->
                        [jobs[b][c] EXCEPT !.status = "waiting_manual"]
                 [] mode = "auto" /\ Resumed(b, c) -> [jobs[b][c] EXCEPT !.status = "scheduled"]
                 [] OTHER -> jobs[b][c]
           rows == [c \in Cps |-> row(c)]
<1>1. /\ UNCHANGED <<monitor, expenses, values, reminded, daily, day, clock, setup, task, due,
                     queue, proc, restarts>>
      /\ Observed(b)
      /\ batches' = [batches EXCEPT ![b].mode = mode]
      /\ jobs' = [jobs EXCEPT ![b] = rows]
  BY DEF ChangeMode, world
<1>2. RowsTyped /\ WorldTyped /\ Attempts /\ y \in Batch
  BY DEF FullInv, TrafficInv, Promises, RowsTyped
<1>3. BatchIs(z, y, y.status, mode, y.cost) /\ y.status \in BatchStatus
  BY <1>2, BatchField, BatchFacts
<1>4. /\ IsSeq(batches', Len(batches)) /\ batches'[b] = z
      /\ \A k \in BatchIds : batches'[k] \in Batch /\ SameBatch(k)
      /\ \A k \in BatchIds : k # b => batches'[k] = batches[k]
  <2>1. batches' = [batches EXCEPT ![b] = z]
    BY <1>1
  <2> HIDE DEF z
  <2> QED
    BY <1>2, <1>3, <2>1, BatchSet
<1>5. JobsOf(b) = Cps
  BY <1>1 DEF JobsOf, Observed
<1>6. ASSUME NEW c \in Cps
      PROVE  /\ row(c) \in JobRow(Items(b))
             /\ row(c).attempts = jobs[b][c].attempts /\ row(c).asked = jobs[b][c].asked
             /\ row(c).rows = jobs[b][c].rows
             /\ row(c).status = "completed" => row(c) = jobs[b][c]
             /\ row(c).status \in {"scheduled", "waiting_connection"} =>
                   jobs[b][c].attempts <= jobs[b][c].asked
  <2> DEFINE j == jobs[b][c]
  <2>1. j \in JobRow(Items(b))
    BY <1>2, <1>5 DEF RowsTyped
  <2>2. j.asked \in Nat /\ j.attempts \in Nat
    BY <2>1 DEF JobRow
  <2>3. j.status \in {"scheduled", "waiting_connection"} => j.attempts <= j.asked
    BY <1>2, <1>5 DEF Attempts, Startable
  <2>4. /\ JobIs(Items(b), [j EXCEPT !.status = "waiting_manual"], "waiting_manual",
                 j.attempts, j.asked, j.delay, j.rows)
        /\ JobIs(Items(b), [j EXCEPT !.status = "scheduled"], "scheduled",
                 j.attempts, j.asked, j.delay, j.rows)
    BY <2>1, JobField DEF JobStatus
  <2> DEFINE u == [j EXCEPT !.status = "waiting_manual"]
             v == [j EXCEPT !.status = "scheduled"]
  <2>5. \/ row(c) = u
        \/ Resumed(b, c) /\ row(c) = v
        \/ row(c) = j
    OBVIOUS
  <2>6. Resumed(b, c) => j.attempts = 0
    BY DEF Resumed
  <2> HIDE DEF row, u, v
  <2>7. /\ JobIs(Items(b), u, "waiting_manual", j.attempts, j.asked, j.delay, j.rows)
        /\ JobIs(Items(b), v, "scheduled", j.attempts, j.asked, j.delay, j.rows)
    BY <2>4 DEF u, v
  <2> QED
    BY <2>1, <2>2, <2>3, <2>5, <2>6, <2>7 DEF JobIs
<1> HIDE DEF row
<1>7. /\ IsSeq(jobs', Len(batches)) /\ jobs'[b] = rows
      /\ \A k \in BatchIds : k # b => jobs'[k] = jobs[k]
  BY <1>1, <1>2 DEF RowsTyped, IsSeq, BatchIds
<1>8. RowsMove /\ SideKept
  <2>1. jobs'[b] \in [JobsOf(b) -> JobRow(Items(b))]
    BY <1>5, <1>6, <1>7
  <2> QED
    BY <1>1, <1>2, <1>4, <1>7, <2>1, Aside DEF RowsMove, RowsTyped, SideKept
<1>9. \A k \in BatchIds : BatchGoes(k)
  BY <1>1, <1>3, <1>4 DEF BatchGoes, BatchIs
<1>10. ASSUME NEW k \in BatchIds, NEW c \in JobsOf(k)
       PROVE  JobGoes(k, c) /\ NotBegun(k, c)
  <2>1. CASE k # b
    BY <1>1, <1>2, <1>7, <2>1, SameJobGoes, MarkedGoes DEF Read
  <2>2. CASE k = b
    <3>1. jobs'[b][c] = row(c) /\ c \in Cps
      BY <1>5, <1>7, <2>2
    <3>2. jobs[b][c].asked \in Nat
      <4>1. jobs[b][c] \in JobRow(Items(b))
        BY <1>2, <1>5, <3>1 DEF RowsTyped
      <4> QED
        BY <4>1 DEF JobRow
    <3>3. Marked(b, c) /\ NotBegun(b, c)
      BY <1>1, <1>6, <3>1, <3>2 DEF Marked, NotBegun, Startable
    <3> QED
      BY <1>1, <2>2, <3>3, MarkedGoes DEF Read
  <2> QED
    BY <2>1, <2>2
<1> QED
  BY <1>1, <1>2, <1>8, <1>9, <1>10, RestStep DEF WorldTyped

\* What was counted for one checkpoint is written.
ValuePut(b, c, v) ==
    /\ IsSeq(values', Len(batches))
    /\ \A k \in BatchIds : values'[k] \in [Cps -> [Items(k) -> Value(clock)]]
    /\ values'[b][c] = v
    /\ \A k \in BatchIds, d \in Cps : <<k, d>> # <<b, c>> => values'[k][d] = values[k][d]

LEMMA ValueSet ==
    ASSUME RowsTyped, NEW b \in BatchIds, NEW c \in Cps, NEW v \in [Items(b) -> Value(clock)],
           Puts(values', values, b, c, v)
    PROVE  ValuePut(b, c, v)
<1> DEFINE e == [values[b] EXCEPT ![c] = v]
<1>1. values' = [values EXCEPT ![b] = e]
  BY DEF Puts
<1>2. values[b] \in [Cps -> [Items(b) -> Value(clock)]] /\ IsSeq(values, Len(batches))
  BY DEF RowsTyped
<1>3. /\ e \in [Cps -> [Items(b) -> Value(clock)]] /\ e[c] = v
      /\ \A d \in Cps : d # c => e[d] = values[b][d]
  BY <1>2
<1> HIDE DEF e
<1>4. /\ IsSeq(values', Len(batches))
      /\ \A k \in 1..Len(batches) : values'[k] = IF k = b THEN e ELSE values[k]
  <2>1. Len(batches) \in Nat /\ values = [i \in 1..Len(batches) |-> values[i]]
    BY <1>2 DEF IsSeq
  <2> QED
    BY <1>1, <2>1 DEF IsSeq
<1> QED
  BY <1>3, <1>4 DEF RowsTyped, BatchIds, ValuePut

LEMMA RecordCheckpointStep ==
    ASSUME FullInv, NEW b \in BatchIds, NEW c \in Cps, NEW at \in 0..clock,
           NEW n \in [Items(b) -> 0..setup.counts], RecordCheckpoint(b, c, at, n)
    PROVE  FullInv'
<1> DEFINE y == batches[b]
           s == IF c = Terminal THEN "closed" ELSE IF y.status = "running" THEN "observing" ELSE y.status
           z == [y EXCEPT !.status = s]
           v == [p \in Items(b) |-> [n |-> n[p], at |-> at]]
           j == jobs[b][c]
           rs == [p \in Items(b) |-> "completed"]
           r == [j EXCEPT !.status = "completed", !.delay = at - DueAt(b, c), !.rows = rs]
<1>1. /\ UNCHANGED <<monitor, expenses, reminded, daily, day, clock, setup, task, due,
                     queue, proc, restarts>>
      /\ y.status # "invalidated" /\ DueAt(b, c) <= at
      /\ batches' = [batches EXCEPT ![b] = z]
      /\ Puts(values', values, b, c, v)
      /\ Puts(jobs', jobs, b, c, r)
  BY DEF RecordCheckpoint, world, Puts
<1>2. RowsTyped /\ WorldTyped /\ Attempts /\ y \in Batch /\ clock \in Nat
  BY DEF FullInv, TrafficInv, Promises, RowsTyped, WorldTyped
<1>3. c \in JobsOf(b) /\ j \in JobRow(Items(b))
  BY <1>1, <1>2 DEF JobsOf, RowsTyped
<1>4. /\ IsSeq(batches', Len(batches)) /\ batches'[b] = z /\ BatchIs(z, y, s, y.mode, y.cost)
      /\ \A k \in BatchIds : batches'[k] \in Batch /\ SameBatch(k)
      /\ \A k \in BatchIds : k # b => batches'[k] = batches[k]
  <2>1. y.status \in BatchStatus
    BY <1>2, BatchFacts
  <2>2. s \in BatchStatus /\ (s = "invalidated" <=> y.status = "invalidated")
    BY <1>1, <2>1 DEF BatchStatus
  <2> HIDE DEF s
  <2>3. BatchIs(z, y, s, y.mode, y.cost)
    BY <1>2, <2>2, BatchField
  <2> HIDE DEF z
  <2> QED
    BY <1>1, <1>2, <2>2, <2>3, BatchSet
<1>5. ValuePut(b, c, v)
  <2>1. setup.counts \in Nat
    BY <1>2, Counts
  <2>2. v \in [Items(b) -> Value(clock)]
    BY <2>1 DEF Value
  <2> HIDE DEF v
  <2> QED
    BY <1>1, <1>2, <2>2, ValueSet
<1>6. at - DueAt(b, c) \in Nat /\ DueAt(b, c) + (at - DueAt(b, c)) = at
  BY <1>1, <1>2, DueIs
<1>7. JobIs(Items(b), r, "completed", j.attempts, j.asked, at - DueAt(b, c), rs)
  <2>1. rs \in [Items(b) -> RowStatus] /\ "completed" \in JobStatus
    BY DEF RowStatus, JobStatus
  <2> HIDE DEF rs, j
  <2> QED
    BY <1>3, <1>6, <2>1, JobFields
<1> HIDE DEF r
<1>8. JobPut(b, c, r)
  BY <1>1, <1>2, <1>3, <1>7, JobSet DEF JobIs
<1>9. RowsMove /\ SideKept
  BY <1>1, <1>2, <1>4, <1>5, <1>8, Aside DEF RowsMove, RowsTyped, SideKept, JobPut, ValuePut
<1>10. \A p \in Items(b) : values'[b][c][p].at = at /\ Has(b, c, p)'
  <2>1. \A p \in Items(b) : n[p] # None
    <3>1. setup.counts \in Nat
      BY <1>2, Counts
    <3> QED
      BY <3>1 DEF None
  <2>2. \A p \in Items(b) : v[p] = [n |-> n[p], at |-> at]
    OBVIOUS
  <2>3. \A p \in Items(b) : v[p].n = n[p] /\ v[p].at = at /\ v[p] # NoValue
    BY <2>1, <2>2 DEF NoValue
  <2> HIDE DEF v
  <2> QED
    BY <1>5, <2>3 DEF Has, ValuePut
<1> HIDE DEF v, z
<1>11. ASSUME NEW k \in BatchIds
       PROVE  BatchGoes(k)
  <2>1. CASE k # b
    BY <1>1, <1>4, <2>1 DEF BatchGoes
  <2>2. CASE k = b
    BY <1>1, <1>4, <1>10, <2>2 DEF BatchGoes, BatchIs
  <2> QED
    BY <2>1, <2>2
<1>12. ASSUME NEW k \in BatchIds, NEW d \in JobsOf(k)
       PROVE  JobGoes(k, d) /\ NotBegun(k, d)
  <2>0. d \in Cps
    BY DEF JobsOf
  <2>1. CASE <<k, d>> # <<b, c>>
    BY <1>1, <1>2, <1>5, <1>8, <2>0, <2>1, SameJobGoes, MarkedGoes DEF Read, JobPut, ValuePut
  <2>2. CASE k = b /\ d = c
    <3>1. NotBegun(b, c)
      BY <1>7, <1>8 DEF JobIs, NotBegun, Startable, JobPut
    <3>2. j.asked \in Nat /\ DueAt(b, c) \in Nat
      BY <1>2, <1>3, DueIs DEF JobRow
    <3>3. Covered(b, c)'
      <4>1. DueAt(b, c)' = DueAt(b, c) /\ Items(b)' = Items(b)
        BY <1>9, RowsMoved, <1>1, <1>2
      <4>2. jobs'[b][c].delay = at - DueAt(b, c)
        BY <1>7, <1>8 DEF JobIs, JobPut
      <4>3. \A p \in Items(b) : values'[b][c][p].at = at
        BY <1>10
      <4> QED
        BY <1>6, <4>1, <4>2, <4>3 DEF Covered
    <3>4. \A p \in Items(b) : values'[b][c][p].at = at
      BY <1>10
    <3>5. JobGoes(b, c)
      BY <1>1, <1>7, <1>8, <1>10, <3>2, <3>3, <3>4 DEF JobGoes, JobIs, JobPut
    <3> QED
      BY <2>2, <3>1, <3>5
  <2> QED
    BY <2>1, <2>2
<1> QED
  BY <1>1, <1>2, <1>9, <1>11, <1>12, RestStep DEF WorldTyped

\* A job after a start: it is not completed unless it was, and begins nothing.
LEMMA RestoredFacts ==
    ASSUME RowsTyped, Attempts, NEW b \in BatchIds, NEW c \in JobsOf(b)
    PROVE  LET r == Restored[b][c]
               j == jobs[b][c]
           IN  /\ DOMAIN jobs[b] = JobsOf(b)
               /\ r \in JobRow(Items(b))
               /\ r.attempts = j.attempts /\ r.asked = j.asked /\ r.rows = j.rows
               /\ r.delay = j.delay /\ j.asked \in Nat
               /\ r.status = j.status \/ r.status = "waiting_manual"
<1> DEFINE j == jobs[b][c]
           u == [j EXCEPT !.status = "waiting_manual"]
<1>1. DOMAIN jobs[b] = JobsOf(b) /\ j \in JobRow(Items(b)) /\ j.asked \in Nat
  <2>1. jobs[b] \in [JobsOf(b) -> JobRow(Items(b))]
    BY DEF RowsTyped
  <2> QED
    BY <2>1 DEF JobRow
<1>2. Restored[b][c] = IF j.status = "collecting" THEN u ELSE j
  BY <1>1 DEF Restored
<1>3. JobIs(Items(b), u, "waiting_manual", j.attempts, j.asked, j.delay, j.rows)
  BY <1>1, JobField DEF JobStatus
<1> HIDE DEF j, u
<1>4. LET r == Restored[b][c] IN
      /\ r \in JobRow(Items(b))
      /\ r.attempts = j.attempts /\ r.asked = j.asked /\ r.rows = j.rows
      /\ r.delay = j.delay
      /\ r.status = j.status \/ r.status = "waiting_manual"
  BY <1>1, <1>2, <1>3 DEF JobIs
<1> QED
  BY <1>1, <1>4 DEF j

LEMMA StartStep ==
    ASSUME FullInv, Start
    PROVE  FullInv'
<1>1. /\ UNCHANGED <<monitor, batches, expenses, values, reminded, daily, day, clock, setup,
                     task, due, queue, restarts>>
      /\ proc' = "up" /\ jobs' = Restored
  BY DEF Start, world
<1>2. RowsTyped /\ WorldTyped /\ Attempts
  BY DEF FullInv, TrafficInv, Promises
<1>3. /\ IsSeq(jobs', Len(batches))
      /\ \A b \in BatchIds : jobs'[b] \in [JobsOf(b) -> JobRow(Items(b))]
  <2>1. ASSUME NEW b \in BatchIds
        PROVE  Restored[b] = [c \in JobsOf(b) |-> Restored[b][c]]
    <3>1. DOMAIN jobs[b] = JobsOf(b)
      BY <1>2 DEF RowsTyped
    <3> DEFINE e(c) == IF jobs[b][c].status = "collecting"
                       THEN [jobs[b][c] EXCEPT !.status = "waiting_manual"]
                       ELSE jobs[b][c]
    <3>2. Restored[b] = [c \in DOMAIN jobs[b] |-> e(c)]
      BY DEF Restored
    <3> HIDE DEF e
    <3>3. Restored[b] = [c \in JobsOf(b) |-> e(c)]
      BY <3>1, <3>2
    <3>4. \A c \in JobsOf(b) : Restored[b][c] = e(c)
      BY <3>3
    <3> QED
      BY <3>3, <3>4
  <2>2. IsSeq(jobs', Len(batches))
    BY <1>1, <1>2 DEF Restored, RowsTyped, IsSeq, BatchIds
  <2>3. \A b \in BatchIds : \A c \in JobsOf(b) : Restored[b][c] \in JobRow(Items(b))
    BY <1>2, RestoredFacts
  <2> QED
    BY <1>1, <2>1, <2>2, <2>3
<1>4. RowsMove /\ SideKept
  BY <1>1, <1>2, <1>3, BatchesSame, Aside DEF RowsMove, RowsTyped, SideKept
<1>5. \A b \in BatchIds : BatchGoes(b)
  BY <1>1 DEF BatchGoes
<1>6. ASSUME NEW b \in BatchIds, NEW c \in JobsOf(b)
      PROVE  JobGoes(b, c) /\ NotBegun(b, c)
  <2>1. jobs'[b][c] = Restored[b][c]
    BY <1>1
  <2>2. Marked(b, c) /\ NotBegun(b, c)
    <3> DEFINE r == jobs'[b][c]
               j == jobs[b][c]
    <3>1. /\ r.attempts = j.attempts /\ r.asked = j.asked /\ r.rows = j.rows
          /\ r.delay = j.delay /\ j.asked \in Nat
          /\ r.status = j.status \/ r.status = "waiting_manual"
      BY <1>2, <2>1, RestoredFacts
    <3>2. j.status \in {"scheduled", "waiting_connection"} => j.attempts <= j.asked
      BY <1>2 DEF Attempts, Startable
    <3>3. values'[b][c] = values[b][c]
      BY <1>1
    <3> QED
      BY <3>1, <3>2, <3>3 DEF Marked, NotBegun, Startable
  <2> QED
    BY <1>1, <2>2, MarkedGoes DEF Read
<1> QED
  BY <1>1, <1>2, <1>4, <1>5, <1>6, RestStep

-----------------------------------------------------------------------------
(* The steps of a reading.                                                 *)

\* A task that goes on reading keeps every reader a reader.
LEMMA ReadersStay ==
    ASSUME NEW t \in Tasks, NEW x, task'[t] = x, \A u \in Tasks : u # t => task'[u] = task[u],
           x.kind = task[t].kind, x.of = task[t].of, x.cp = task[t].cp, x.pc \in Held
    PROVE  \A b, c : Read(b, c) => Read(b, c)'
BY DEF Read

\* One listing is dealt with: what the job r and the readings v become.
Looks(t, rest, b, c, r, v) ==
    /\ Quiet /\ task[t].kind = "job" /\ task[t].pc = "fetch"
    /\ rest \in SUBSET Products /\ task' = [task EXCEPT ![t] = Onward(t, rest)]
    /\ b = task[t].of /\ c = task[t].cp
    /\ UNCHANGED <<batches, expenses, reminded, clock, setup, due, queue, proc, restarts>>
    /\ JobPut(b, c, r) /\ ValuePut(b, c, v)
    /\ r.attempts = jobs[b][c].attempts /\ r.asked = jobs[b][c].asked
    /\ r.status = jobs[b][c].status \/ r.status = "circuit_open"
    /\ \A p \in Items(b) :
          /\ v[p] = values[b][c][p] \/ (v[p].at = clock /\ v[p] # NoValue)
          /\ r.rows[p] = "completed" => jobs[b][c].rows[p] = "completed" \/ v[p] # NoValue

LEMMA ReaderStep ==
    ASSUME FullInv, NEW t \in Tasks, NEW rest, NEW b, NEW c, NEW r, NEW v,
           Looks(t, rest, b, c, r, v), SideTyped'
    PROVE  FullInv'
<1> DEFINE x == Onward(t, rest)
<1>1. /\ RowsTyped /\ WorldTyped /\ Attempts /\ OnTime /\ clock \in Nat /\ Holds(t)
      /\ Sound(task[t]) /\ DueFits
  BY DEF FullInv, TrafficInv, Promises, WorldTyped, QueueFits, TasksFit, Looks
<1>2. /\ x \in Task /\ x.kind = "job" /\ x.of = b /\ x.cp = c /\ x.left = rest
      /\ x.pc = IF rest = {} THEN "finish" ELSE "fetch"
  BY <1>1, OnwardFacts DEF Looks
<1>3. task' = [task EXCEPT ![t] = x]
  BY DEF Looks
<1> HIDE DEF x
<1>4. task'[t] = x /\ \A u \in Tasks : u # t => task'[u] = task[u]
  BY <1>1, <1>2, <1>3, Moved
<1>5. /\ b \in BatchIds /\ c \in Cps /\ c \in JobsOf(b) /\ Timely(b, c)
      /\ batches[b].status # "invalidated"
  BY <1>1 DEF Sound, JobsOf, OnTime, Looks
<1>6. Sound(x)
  BY <1>2, <1>5 DEF Sound
<1>7. RowsMove /\ SideKept /\ DueAfter
  <2>1. RowsMove
    BY <1>1, BatchesSame DEF RowsMove, RowsTyped, JobPut, ValuePut, Looks
  <2>2. DueAfter
    BY <1>1 DEF DueAfter, DueFits, WorldTyped, Looks
  <2> QED
    BY <2>1, <2>2 DEF SideKept, Looks
<1>8. Keeps(t)
  BY <1>1, <1>2, <1>4 DEF Keeps, Held, Looks
<1>9. \A k, d : Read(k, d) => Read(k, d)'
  <2>1. x.kind = task[t].kind /\ x.of = task[t].of /\ x.cp = task[t].cp /\ x.pc \in Held
    BY <1>2 DEF Held, Looks
  <2> QED
    BY <1>4, <2>1, ReadersStay
<1>10. Read(b, c)'
  BY <1>2, <1>4 DEF Read, Held, Looks
<1>11. \A k \in BatchIds : BatchGoes(k)
  BY DEF BatchGoes, Looks
<1>12. \A p : Has(b, c, p)' <=> v[p] # NoValue
  BY DEF ValuePut, Has, Looks
<1>13. jobs[b][c].asked \in Nat
  <2>1. jobs[b][c] \in JobRow(Items(b))
    BY <1>1, <1>5 DEF RowsTyped
  <2> QED
    BY <2>1 DEF JobRow
<1>14. JobGoes(b, c) /\ NotBegun(b, c)
  <2>1. ASSUME NEW p \in Items(b)
        PROVE  /\ r.rows[p] = "completed" \/ r.status = "completed" =>
                     \/ jobs[b][c].rows[p] = "completed" \/ jobs[b][c].status = "completed"
                     \/ v[p] # NoValue
               /\ Has(b, c, p) => v[p] # NoValue
               /\ \/ v[p] = values[b][c][p]
                  \/ v[p].at >= DueAt(b, c)
                  \/ r.asked > 0
    <3>1. v[p].at = clock => v[p].at >= DueAt(b, c) \/ r.asked > 0
      <4>1. DueAt(b, c) \in Nat
        BY <1>1, <1>5, DueIs
      <4> QED
        BY <1>1, <1>5, <4>1 DEF Timely, Looks
    <3> QED
      BY <3>1 DEF Has, Looks
  <2>2. /\ jobs'[b][c] = r /\ values'[b][c] = v /\ r.asked = jobs[b][c].asked
        /\ r.attempts = jobs[b][c].attempts
        /\ r.status = jobs[b][c].status \/ r.status = "circuit_open"
    BY DEF JobPut, ValuePut, Looks
  <2>3. JobGoes(b, c)
    <3>1. jobs'[b][c].asked >= jobs[b][c].asked
      BY <1>13, <2>2
    <3>2. ASSUME NEW p \in Items(b)
          PROVE  /\ jobs'[b][c].rows[p] = "completed" \/ jobs'[b][c].status = "completed" =>
                       \/ jobs[b][c].rows[p] = "completed" \/ jobs[b][c].status = "completed"
                       \/ Has(b, c, p)'
                 /\ Has(b, c, p) => Has(b, c, p)'
                 /\ \/ values'[b][c][p] = values[b][c][p]
                    \/ values'[b][c][p].at >= DueAt(b, c)
                    \/ jobs'[b][c].asked > 0
      BY <1>12, <2>1, <2>2
    <3> QED
      BY <1>10, <3>1, <3>2 DEF JobGoes
  <2>4. Startable(b, c) => jobs[b][c].attempts <= jobs[b][c].asked
    BY <1>1, <1>5 DEF Attempts
  <2>5. NotBegun(b, c)
    BY <2>2, <2>4 DEF NotBegun, Startable
  <2> QED
    BY <2>3, <2>5
<1>15. ASSUME NEW k \in BatchIds, NEW d \in JobsOf(k)
       PROVE  JobGoes(k, d) /\ NotBegun(k, d)
  <2>1. CASE <<k, d>> # <<b, c>>
    <3>1. jobs'[k][d] = jobs[k][d] /\ values'[k][d] = values[k][d]
      <4>1. d \in Cps
        BY DEF JobsOf
      <4> QED
        BY <2>1, <4>1 DEF JobPut, ValuePut, Looks
    <3> QED
      BY <1>1, <1>9, <3>1, SameJobGoes, MarkedGoes
  <2>2. CASE k = b /\ d = c
    BY <1>14, <2>2
  <2> QED
    BY <2>1, <2>2
<1>16. TasksGo
  BY <1>2, <1>4 DEF TasksGo, Looks
<1>17. Startables
  <2>1. \A u \in Tasks : task'[u].pc = "begin" => task'[u] = task[u] /\ task[u].pc = "begin"
    BY <1>2, <1>4
  <2> QED
    BY <1>15, <2>1 DEF Startables, NotBegun, Looks
<1> QED
  BY <1>2, <1>3, <1>6, <1>7, <1>8, <1>11, <1>15, <1>16, <1>17, TaskStep DEF Looks

LEMMA ValuesSame ==
    ASSUME RowsTyped, NEW b \in BatchIds, NEW c \in Cps, values' = values
    PROVE  ValuePut(b, c, values[b][c])
BY DEF RowsTyped, ValuePut

\* A task with a job: what it is about.
LEMMA JobAtHand ==
    ASSUME TrafficInv, NEW t \in Tasks, task[t].kind = "job"
    PROVE  LET b == task[t].of
               c == task[t].cp
           IN  /\ b \in BatchIds /\ c \in Cps /\ c \in JobsOf(b)
               /\ batches[b].status # "invalidated"
               /\ jobs[b][c] \in JobRow(Items(b)) /\ jobs[b] \in [JobsOf(b) -> JobRow(Items(b))]
               /\ jobs[b][c].rows \in [Items(b) -> RowStatus]
               /\ jobs[b][c].status \in JobStatus
               /\ jobs[b][c].attempts \in Nat /\ jobs[b][c].asked \in Nat
               /\ values[b][c] \in [Items(b) -> Value(clock)]
<1> DEFINE b == task[t].of
           c == task[t].cp
<1>1. b \in BatchIds /\ c \in Cps /\ c \in JobsOf(b) /\ batches[b].status # "invalidated"
  BY DEF TrafficInv, TasksFit, Sound, JobsOf
<1>2. /\ jobs[b] \in [JobsOf(b) -> JobRow(Items(b))]
      /\ values[b] \in [Cps -> [Items(b) -> Value(clock)]]
  BY <1>1 DEF TrafficInv, RowsTyped
<1> HIDE DEF b, c
<1>3. jobs[b][c] \in JobRow(Items(b)) /\ values[b][c] \in [Items(b) -> Value(clock)]
  BY <1>1, <1>2
<1>4. /\ jobs[b][c].rows \in [Items(b) -> RowStatus]
      /\ jobs[b][c].status \in JobStatus
      /\ jobs[b][c].attempts \in Nat /\ jobs[b][c].asked \in Nat
  BY <1>3 DEF JobRow
<1> QED
  BY <1>1, <1>2, <1>3, <1>4 DEF b, c

LEMMA PassOverStep ==
    ASSUME FullInv, NEW t \in Tasks, PassOver(t)
    PROVE  FullInv'
<1> DEFINE b == task[t].of
           c == task[t].cp
           p == NextOf(t)
           j == jobs[b][c]
           rs == [j.rows EXCEPT ![p] = "failed"]
           r == [j EXCEPT !.rows = rs]
<1>1. /\ Quiet /\ task[t].kind = "job" /\ task[t].pc = "fetch"
      /\ Puts(jobs', jobs, b, c, r)
      /\ task' = [task EXCEPT ![t] = Onward(t, After(t))]
      /\ UNCHANGED <<monitor, batches, expenses, values, reminded, daily, day, clock, setup, due,
                     queue, proc, restarts>>
  BY DEF PassOver, RowSet, Puts, world
<1>2. TrafficInv /\ RowsTyped /\ WorldTyped
  BY DEF FullInv, TrafficInv
<1>3. /\ b \in BatchIds /\ c \in Cps /\ c \in JobsOf(b) /\ j \in JobRow(Items(b))
      /\ j.rows \in [Items(b) -> RowStatus]
  BY <1>1, <1>2, JobAtHand
<1>4. After(t) \in SUBSET Products
  BY <1>2 DEF After, WorldTyped, Task
<1>5. rs \in [Items(b) -> RowStatus] /\ \A q \in Items(b) : rs[q] = j.rows[q] \/ rs[q] = "failed"
  BY <1>3 DEF RowStatus
<1>6. JobIs(Items(b), r, j.status, j.attempts, j.asked, j.delay, rs)
  <2> HIDE DEF rs, j
  <2> QED
    BY <1>3, <1>5, JobField
<1> HIDE DEF r
<1>7. JobPut(b, c, r)
  <2> HIDE DEF b, c
  <2> QED
    BY <1>1, <1>2, <1>3, <1>6, JobSet DEF JobIs
<1>8. ValuePut(b, c, values[b][c])
  BY <1>1, <1>2, <1>3, ValuesSame
<1>9. Looks(t, After(t), b, c, r, values[b][c])
  <2> HIDE DEF rs
  <2>1. \A q \in Items(b) : r.rows[q] = "completed" => j.rows[q] = "completed"
    BY <1>5, <1>6 DEF JobIs
  <2> QED
    BY <1>1, <1>4, <1>6, <1>7, <1>8, <2>1 DEF Looks, JobIs
<1>10. SideTyped'
  BY <1>1, <1>2, Aside
<1> QED
  BY <1>9, <1>10, ReaderStep

LEMMA ReadJobStep ==
    ASSUME FullInv, NEW t \in Tasks, NEW is, NEW n, ReadJob(t, is, n)
    PROVE  FullInv'
<1> DEFINE b == task[t].of
           c == task[t].cp
           p == NextOf(t)
           j == jobs[b][c]
           fits == /\ is \in {"owned", "pending"} /\ monitor'[p].own = "owned"
                   /\ Fits(b, c, p, n)
           to == IF fits THEN "completed" ELSE "failed"
           rs == [j.rows EXCEPT ![p] = to]
           r == [j EXCEPT !.rows = rs]
           new == [n |-> n, at |-> clock]
           v == [values[b][c] EXCEPT ![p] = new]
<1>1. /\ Reading(t, is, n) /\ task[t].kind = "job"
      /\ Puts(jobs', jobs, b, c, r)
      /\ IF fits THEN Puts(values', values, b, c, v) ELSE values' = values
      /\ task' = [task EXCEPT ![t] = Onward(t, After(t))]
      /\ UNCHANGED <<batches, expenses, reminded, daily, day, clock, setup, due,
                     queue, proc, restarts>>
  BY DEF ReadJob, RowSet, Puts, world
<1>2. TrafficInv /\ RowsTyped /\ WorldTyped /\ clock \in Nat
  BY DEF FullInv, TrafficInv, WorldTyped
<1>3. /\ b \in BatchIds /\ c \in Cps /\ c \in JobsOf(b) /\ j \in JobRow(Items(b))
      /\ j.rows \in [Items(b) -> RowStatus] /\ values[b][c] \in [Items(b) -> Value(clock)]
  BY <1>1, <1>2, JobAtHand
<1>4. /\ Quiet /\ task[t].pc = "fetch" /\ After(t) \in SUBSET Products /\ n \in Nat
      /\ monitor' \in [Products -> Monitor]
  BY <1>1, <1>2, ReadingFacts
<1> HIDE DEF fits
<1>5. /\ rs \in [Items(b) -> RowStatus]
      /\ \A q \in Items(b) : rs[q] = IF q = p THEN to ELSE j.rows[q]
  BY <1>3 DEF RowStatus
<1>6. JobIs(Items(b), r, j.status, j.attempts, j.asked, j.delay, rs)
  <2> HIDE DEF rs, j
  <2> QED
    BY <1>3, <1>5, JobField
<1> HIDE DEF r
<1>7. JobPut(b, c, r)
  <2> HIDE DEF b, c
  <2> QED
    BY <1>1, <1>2, <1>3, <1>6, JobSet DEF JobIs
<1>8. new \in Value(clock) /\ new.at = clock /\ new # NoValue
  BY <1>2, <1>4 DEF Value, NoValue, None
<1>9. /\ v \in [Items(b) -> Value(clock)]
      /\ \A q \in Items(b) : v[q] = IF q = p THEN new ELSE values[b][c][q]
  <2> HIDE DEF new
  <2> QED
    BY <1>3, <1>8
<1>10. SideTyped'
  BY <1>1, <1>2, <1>4 DEF SideTyped, WorldTyped
<1>11. CASE fits
  <2>1. ValuePut(b, c, v)
    <3> HIDE DEF b, c, v
    <3> QED
      BY <1>1, <1>2, <1>3, <1>9, <1>11, ValueSet
  <2>2. /\ \A q \in Items(b) : v[q] = values[b][c][q] \/ (v[q].at = clock /\ v[q] # NoValue)
        /\ \A q \in Items(b) : r.rows[q] = "completed" => j.rows[q] = "completed" \/ v[q] # NoValue
    <3> HIDE DEF v, new, rs
    <3> QED
      BY <1>5, <1>6, <1>8, <1>9 DEF JobIs
  <2>3. Looks(t, After(t), b, c, r, v)
    <3> HIDE DEF v, rs, to
    <3> QED
      BY <1>1, <1>4, <1>6, <1>7, <2>1, <2>2 DEF Looks, JobIs
  <2> QED
    BY <1>10, <2>3, ReaderStep
<1>12. CASE ~fits
  <2>1. ValuePut(b, c, values[b][c])
    BY <1>1, <1>2, <1>3, <1>12, ValuesSame
  <2>2. \A q \in Items(b) : r.rows[q] = "completed" => j.rows[q] = "completed"
    <3>1. \A q \in Items(b) : rs[q] = IF q = p THEN "failed" ELSE j.rows[q]
      BY <1>5, <1>12
    <3> HIDE DEF rs
    <3> QED
      BY <1>6, <3>1 DEF JobIs
  <2>3. Looks(t, After(t), b, c, r, values[b][c])
    <3> HIDE DEF v, rs, to
    <3> QED
      BY <1>1, <1>4, <1>6, <1>7, <2>1, <2>2 DEF Looks, JobIs
  <2> QED
    BY <1>10, <2>3, ReaderStep
<1> QED
  BY <1>11, <1>12

LEMMA BreakJobStep ==
    ASSUME FullInv, NEW t \in Tasks, BreakJob(t)
    PROVE  FullInv'
<1> DEFINE b == task[t].of
           c == task[t].cp
           p == NextOf(t)
           j == jobs[b][c]
           skipped == {q \in After(t) : j.rows[q] = "pending"}
           rs == [q \in Items(b) |-> IF q = p THEN "failed"
                                     ELSE IF q \in skipped THEN "protection_skipped" ELSE j.rows[q]]
           r == [j EXCEPT !.status = "circuit_open", !.rows = rs]
<1>1. /\ Reading(t, "verification", 0) /\ task[t].kind = "job"
      /\ Puts(jobs', jobs, b, c, r)
      /\ task' = [task EXCEPT ![t] = Onward(t, {})]
      /\ UNCHANGED <<batches, expenses, values, reminded, daily, day, clock, setup, due,
                     queue, proc, restarts>>
  BY DEF BreakJob, Puts, world
<1>2. TrafficInv /\ RowsTyped /\ WorldTyped
  BY DEF FullInv, TrafficInv
<1>3. /\ b \in BatchIds /\ c \in Cps /\ c \in JobsOf(b) /\ j \in JobRow(Items(b))
      /\ j.rows \in [Items(b) -> RowStatus]
  BY <1>1, <1>2, JobAtHand
<1>4. Quiet /\ task[t].pc = "fetch" /\ monitor' \in [Products -> Monitor]
  BY <1>1, <1>2, ReadingFacts
<1> HIDE DEF skipped
<1>5. /\ rs \in [Items(b) -> RowStatus]
      /\ \A q \in Items(b) : rs[q] = "completed" => j.rows[q] = "completed"
  BY <1>3 DEF RowStatus
<1>6. JobIs(Items(b), r, "circuit_open", j.attempts, j.asked, j.delay, rs)
  <2> HIDE DEF rs, j
  <2> QED
    BY <1>3, <1>5, JobFields DEF JobStatus
<1> HIDE DEF r
<1>7. JobPut(b, c, r)
  <2> HIDE DEF b, c
  <2> QED
    BY <1>1, <1>2, <1>3, <1>6, JobSet DEF JobIs
<1>8. ValuePut(b, c, values[b][c])
  BY <1>1, <1>2, <1>3, ValuesSame
<1>9. Looks(t, {}, b, c, r, values[b][c])
  <2> HIDE DEF rs
  <2>1. \A q \in Items(b) : r.rows[q] = "completed" => j.rows[q] = "completed"
    BY <1>5, <1>6 DEF JobIs
  <2> QED
    BY <1>1, <1>4, <1>6, <1>7, <1>8, <2>1 DEF Looks, JobIs
<1>10. SideTyped'
  BY <1>1, <1>2, <1>4 DEF SideTyped, WorldTyped
<1> QED
  BY <1>9, <1>10, ReaderStep

-----------------------------------------------------------------------------
(* The steps that take up a job or end it.                                 *)

\* What a task is that takes up a job, and what it may take up next.
Takes(b, c) == [Idle EXCEPT !.kind = "job", !.pc = "begin", !.of = b, !.cp = c]

LEMMA TakesFacts ==
    ASSUME NEW b \in BatchIds, NEW c \in Cps, batches[b].status # "invalidated"
    PROVE  LET x == Takes(b, c) IN
           /\ x \in Task /\ Sound(x)
           /\ x.kind = "job" /\ x.pc = "begin" /\ x.of = b /\ x.cp = c
<1> DEFINE y == Idle
           x == Takes(b, c)
<1>1. y \in Task
  BY IdleFacts
<1>2. x = [y EXCEPT !.kind = "job", !.pc = "begin", !.of = b, !.cp = c]
  BY DEF Takes
<1>3. b \in Int /\ c \in Int
  BY DEF BatchIds, Cps
<1> HIDE DEF y, x
<1>4. x \in Task /\ x.kind = "job" /\ x.pc = "begin" /\ x.of = b /\ x.cp = c
  BY <1>1, <1>2, <1>3 DEF Task
<1>5. Sound(x)
  BY <1>4 DEF Sound
<1> QED
  BY <1>4, <1>5 DEF x

\* A task that is done with a job, or takes the next one.
Resumes(t, x) ==
    /\ x \in Task /\ Sound(x) /\ x.pc \notin Held
    /\ task' = [task EXCEPT ![t] = x]
    /\ DueAfter /\ TasksGo
    /\ \A j \in due' : j \in due \/ Startable(j[1], j[2])
    /\ \A u \in Tasks : task'[u].pc = "begin" =>
          LET j == <<task'[u].of, task'[u].cp>> IN
          j \in BatchIds \X Cps /\ j \notin due' /\ (j \in due \/ Startable(j[1], j[2]))

\* What may be taken up.
Open(j) ==
    /\ j \in BatchIds \X Cps
    /\ batches[j[1]].status # "invalidated"
    /\ DueAt(j[1], j[2]) <= clock
    /\ j \in due \/ Startable(j[1], j[2])

LEMMA ResumesIf ==
    ASSUME FullInv, RowsMove, clock' = clock, NEW t \in Tasks, Quiet \/ InGap(t),
           NEW x \in Task, Sound(x), task' = [task EXCEPT ![t] = x], x.pc \notin Held,
           \A j \in due' : Open(j), reminded' \subseteq BatchIds \X Cps,
           x.kind = "job" => x.pc = "begin" /\ Open(<<x.of, x.cp>>) /\ <<x.of, x.cp>> \notin due'
    PROVE  Resumes(t, x)
<1>0. RowsTyped /\ WorldTyped /\ OneGap /\ (\A u \in Tasks : Sound(task[u]))
  BY DEF FullInv, TrafficInv, TasksFit
<1>1. task'[t] = x /\ \A u \in Tasks : u # t => task'[u] = task[u]
  BY <1>0, Moved
<1>2. DueAfter
  BY DEF DueAfter, Open
<1>3. \A u \in Tasks : u # t => task[u].pc # "begin"
  BY <1>0 DEF Quiet, OneGap, InGap
<1>4. x.pc = "begin" => x.kind = "job"
  BY DEF Sound
<1>5. TasksGo
  <2>1. x.kind = "job" => Timely(x.of, x.cp)'
    <3>1. x.kind = "job" => /\ x.of \in BatchIds /\ x.cp \in Cps /\ DueAt(x.of, x.cp) <= clock
      BY DEF Open
    <3>2. \A b \in BatchIds, c \in Cps : DueAt(b, c)' = DueAt(b, c)
      BY <1>0, RowsMoved
    <3>3. ASSUME NEW b \in BatchIds, NEW c \in Cps, DueAt(b, c) <= clock
          PROVE  Timely(b, c)'
      BY <3>2, <3>3 DEF Timely
    <3> QED
      BY <3>1, <3>3
  <2>2. ASSUME NEW u \in Tasks, task'[u].kind = "job", u = t
        PROVE  Timely(task[u].of, task[u].cp)'
    <3>1. task'[u] = x
      BY <1>1, <2>2
    <3> QED
      BY <2>1, <2>2, <3>1 DEF Timely, DueAt
  <2>3. \A u \in Tasks : u # t => task'[u] = task[u]
    BY <1>1
  <2>4. \A j \in due' : j \in due \/ DueAt(j[1], j[2]) <= clock
    BY DEF Open
  <2> QED
    BY <2>2, <2>3, <2>4 DEF TasksGo
<1>6. \A u \in Tasks : task'[u].pc = "begin" =>
          LET j == <<task'[u].of, task'[u].cp>> IN
          j \in BatchIds \X Cps /\ j \notin due' /\ (j \in due \/ Startable(j[1], j[2]))
  <2>1. \A u \in Tasks : task'[u].pc = "begin" => task'[u] = x /\ x.kind = "job"
    BY <1>1, <1>3, <1>4
  <2> QED
    BY <2>1 DEF Open
<1>7. \A j \in due' : j \in due \/ Startable(j[1], j[2])
  BY DEF Open
<1> QED
  BY <1>2, <1>5, <1>6, <1>7 DEF Resumes

LEMMA FollowingGoes ==
    ASSUME FullInv, RowsMove, clock' = clock, Quiet \/ InGap(Scheduler),
           NEW rest, \A j \in rest : Open(j), Following(rest)
    PROVE  \E x : Resumes(Scheduler, x)
<1>1. WorldTyped /\ Scheduler \in Tasks
  BY DEF FullInv, TrafficInv, Tasks
<1>2. reminded' \subseteq BatchIds \X Cps
  <2>1. \/ \E looked \in LookedAt(batches') :
               reminded' = reminded \cup Reminders(batches', looked)
        \/ reminded' = reminded
    BY DEF Following
  <2>2. \A looked : Reminders(batches', looked) \subseteq BatchIds \X Cps
    BY DEF Reminders
  <2> QED
    BY <1>1, <2>1, <2>2 DEF WorldTyped
<1>3. CASE rest = {} /\ due' = {} /\ task' = [task EXCEPT ![Scheduler] = [Idle EXCEPT !.pc = "notify"]]
  <2> DEFINE y == Idle
             x == [y EXCEPT !.pc = "notify"]
  <2>1. y \in Task /\ y.kind = "none"
    BY IdleFacts
  <2>2. task' = [task EXCEPT ![Scheduler] = x]
    BY <1>3
  <2> HIDE DEF y
  <2>3. x \in Task /\ x.kind = "none" /\ x.pc = "notify"
    BY <2>1 DEF Task
  <2> HIDE DEF x
  <2>4. Sound(x) /\ x.pc \notin Held
    BY <2>3 DEF Sound, Held
  <2> QED
    BY <1>1, <1>2, <1>3, <2>2, <2>3, <2>4, ResumesIf
<1>4. ASSUME NEW j \in rest, due' = rest \ {j}, task' = [task EXCEPT ![Scheduler] = Takes(j[1], j[2])]
      PROVE  \E x : Resumes(Scheduler, x)
  <2> DEFINE x == Takes(j[1], j[2])
  <2>1. Open(j) /\ j[1] \in BatchIds /\ j[2] \in Cps /\ j = <<j[1], j[2]>>
    BY <1>4 DEF Open
  <2>2. x \in Task /\ Sound(x) /\ x.kind = "job" /\ x.pc = "begin" /\ x.of = j[1] /\ x.cp = j[2]
    BY <2>1, TakesFacts DEF Open
  <2>3. task' = [task EXCEPT ![Scheduler] = x]
    BY <1>4
  <2> HIDE DEF x
  <2>4. x.pc \notin Held /\ <<x.of, x.cp>> = j /\ j \notin due' /\ \A i \in due' : Open(i)
    BY <1>4, <2>1, <2>2 DEF Held
  <2> QED
    BY <1>1, <1>2, <2>1, <2>2, <2>3, <2>4, ResumesIf
<1>5. \/ rest = {} /\ due' = {} /\ task' = [task EXCEPT ![Scheduler] = [Idle EXCEPT !.pc = "notify"]]
      \/ \E j \in rest :
            due' = rest \ {j} /\ task' = [task EXCEPT ![Scheduler] = Takes(j[1], j[2])]
  BY DEF Following, Takes
<1> QED
  BY <1>3, <1>4, <1>5

LEMMA DoneGoes ==
    ASSUME FullInv, RowsMove, clock' = clock, NEW t \in Tasks, InGap(t), Done(t)
    PROVE  \E x : Resumes(t, x)
<1>1. WorldTyped /\ \A j \in due : Open(j)
  BY DEF FullInv, TrafficInv, TasksFit, DueFits, Promises, OnTime, Open
<1>2. CASE t = Scheduler
  BY <1>1, <1>2, FollowingGoes DEF Done
<1>3. CASE t # Scheduler
  <2>1. task' = [task EXCEPT ![t] = Idle] /\ due' = due /\ reminded' = reminded
    BY <1>3 DEF Done
  <2>2. Idle \in Task /\ Sound(Idle) /\ Idle.pc \notin Held /\ Idle.kind # "job"
    BY IdleFacts DEF Held
  <2> QED
    BY <1>1, <2>1, <2>2, ResumesIf DEF WorldTyped
<1> QED
  BY <1>2, <1>3

LEMMA OthersGo ==
    ASSUME RowsTyped, Attempts, NEW b, NEW c, NEW r, JobPut(b, c, r), values' = values,
           \A k, d : <<k, d>> # <<b, c>> /\ Read(k, d) => Read(k, d)'
    PROVE  \A k \in BatchIds : \A d \in JobsOf(k) :
              <<k, d>> # <<b, c>> =>
                 JobGoes(k, d) /\ NotBegun(k, d) /\ jobs'[k][d] = jobs[k][d]
<1>1. ASSUME NEW k \in BatchIds, NEW d \in JobsOf(k), <<k, d>> # <<b, c>>
      PROVE  JobGoes(k, d) /\ NotBegun(k, d) /\ jobs'[k][d] = jobs[k][d]
  <2>1. jobs'[k][d] = jobs[k][d]
    BY <1>1 DEF JobPut
  <2>2. Marked(k, d) /\ NotBegun(k, d)
    BY <2>1, SameJobGoes
  <2> QED
    BY <1>1, <2>1, <2>2, MarkedGoes
<1> QED
  BY <1>1

\* A task that reads nothing when the step begins takes no reader away.
LEMMA NoReader ==
    ASSUME NEW t \in Tasks, task[t].pc \notin Held \/ task[t].kind # "job",
           \A u \in Tasks : u # t => task'[u] = task[u]
    PROVE  \A b, c : Read(b, c) => Read(b, c)'
<1>1. ASSUME NEW b, NEW c, Read(b, c)
      PROVE  Read(b, c)'
  <2>1. PICK u \in Tasks : /\ task[u].kind = "job" /\ task[u].pc \in Held
                          /\ task[u].of = b /\ task[u].cp = c
    BY <1>1 DEF Read
  <2>2. task'[u] = task[u]
    BY <2>1
  <2> QED
    BY <2>1, <2>2 DEF Read
<1> QED
  BY <1>1

LEMMA RetryStep ==
    ASSUME FullInv, NEW t \in Tasks, NEW b \in BatchIds, NEW c \in DOMAIN jobs[b], Retry(t, b, c)
    PROVE  FullInv'
<1> DEFINE j == jobs[b][c]
           missing == {p \in Items(b) : j.rows[p] # "completed"}
           rs == [p \in Items(b) |-> IF p \in missing THEN "pending" ELSE j.rows[p]]
           n == j.asked + 1
           r == [j EXCEPT !.status = "scheduled", !.asked = n, !.rows = rs]
           x == Takes(b, c)
<1>1. /\ Quiet /\ task[t].pc = "idle" /\ Observed(b)
      /\ Puts(jobs', jobs, b, c, r)
      /\ task' = [task EXCEPT ![t] = x]
      /\ UNCHANGED <<monitor, batches, expenses, values, reminded, daily, day, clock, setup, due,
                     queue, proc, restarts>>
  BY DEF Retry, Puts, world, Takes
<1>2. /\ TrafficInv /\ RowsTyped /\ WorldTyped /\ Attempts /\ DueFits
      /\ Sound(task[t]) /\ batches[b].status # "invalidated"
  BY <1>1 DEF FullInv, TrafficInv, TasksFit, Promises, Observed
<1>3. /\ jobs[b] \in [JobsOf(b) -> JobRow(Items(b))] /\ c \in JobsOf(b) /\ c \in Cps
  <2>1. jobs[b] \in [JobsOf(b) -> JobRow(Items(b))]
    BY <1>2 DEF RowsTyped
  <2> QED
    BY <2>1, <1>2 DEF JobsOf
<1>4. /\ j \in JobRow(Items(b)) /\ j.rows \in [Items(b) -> RowStatus]
      /\ j.asked \in Nat /\ j.attempts \in Nat
  <2>1. j \in JobRow(Items(b))
    BY <1>3
  <2> QED
    BY <2>1 DEF JobRow
<1>5. /\ rs \in [Items(b) -> RowStatus]
      /\ \A p \in Items(b) : rs[p] = "completed" => j.rows[p] = "completed"
  BY <1>4 DEF RowStatus
<1>6. n \in Nat /\ n >= j.asked /\ n > 0
  BY <1>4
<1>7. JobIs(Items(b), r, "scheduled", j.attempts, n, j.delay, rs)
  <2> HIDE DEF rs, j, n
  <2> QED
    BY <1>4, <1>5, <1>6, JobFields DEF JobStatus
<1> HIDE DEF r, x
<1>8. JobPut(b, c, r)
  BY <1>1, <1>2, <1>3, <1>7, JobSet DEF JobIs
<1>9. /\ x \in Task /\ Sound(x)
      /\ x.kind = "job" /\ x.pc = "begin" /\ x.of = b /\ x.cp = c
  BY <1>2, <1>3, TakesFacts DEF x
<1>10. task'[t] = x /\ \A u \in Tasks : u # t => task'[u] = task[u]
  BY <1>1, <1>2, <1>9, Moved
<1>11. RowsMove /\ SideKept /\ DueAfter
  <2>1. RowsMove
    BY <1>1, <1>2, <1>8, BatchesSame DEF RowsMove, RowsTyped, JobPut
  <2>2. SideKept /\ DueAfter
    BY <1>1, <1>2, Aside DEF SideKept, DueAfter, DueFits, WorldTyped
  <2> QED
    BY <2>1, <2>2
<1>12. \A k, d : Read(k, d) => Read(k, d)'
  BY <1>1, <1>10, NoReader DEF Held
<1>13. \A k \in BatchIds : \A d \in JobsOf(k) :
          <<k, d>> # <<b, c>> => JobGoes(k, d) /\ NotBegun(k, d) /\ jobs'[k][d] = jobs[k][d]
  BY <1>1, <1>2, <1>8, <1>12, OthersGo
<1>14. jobs'[b][c] = r /\ r.attempts = j.attempts /\ r.asked = n
  BY <1>7, <1>8 DEF JobIs, JobPut
<1>15. JobGoes(b, c)
  <2>1. Marked(b, c)
    <3> HIDE DEF rs, n
    <3> QED
      BY <1>1, <1>5, <1>6, <1>7, <1>14 DEF Marked, JobIs
  <2> QED
    BY <1>12, <2>1, MarkedGoes
<1>16. \A k \in BatchIds : BatchGoes(k)
  BY <1>1 DEF BatchGoes
<1>17. TasksGo
  <2>1. Timely(b, c)'
    BY <1>6, <1>14 DEF Timely
  <2>2. ASSUME NEW u \in Tasks, task'[u].kind = "job", u = t
        PROVE  Timely(task[u].of, task[u].cp)'
    <3>1. task'[u].of = b /\ task'[u].cp = c
      BY <1>9, <1>10, <2>2
    <3> QED
      BY <2>1, <3>1 DEF Timely, DueAt
  <2> QED
    BY <1>1, <1>10, <2>2 DEF TasksGo
<1>18. Attempts'
  <2>1. BatchIds' = BatchIds /\ \A k \in BatchIds : JobsOf(k)' = JobsOf(k)
    BY <1>1 DEF BatchIds, JobsOf
  <2>2. ASSUME NEW k \in BatchIds, NEW d \in JobsOf(k)
        PROVE  /\ jobs'[k][d].attempts <= 1 + jobs'[k][d].asked
               /\ Startable(k, d)' \/ <<k, d>> \in due' =>
                     jobs'[k][d].attempts <= jobs'[k][d].asked
    <3>1. /\ jobs[k][d].attempts <= 1 + jobs[k][d].asked
          /\ <<k, d>> \in due => jobs[k][d].attempts <= jobs[k][d].asked
      BY <1>2 DEF Attempts
    <3>2. CASE <<k, d>> # <<b, c>>
      BY <1>1, <1>13, <3>1, <3>2 DEF NotBegun
    <3>3. CASE k = b /\ d = c
      BY <1>4, <1>14, <3>1, <3>3
    <3> QED
      BY <3>2, <3>3
  <2>3. \A u \in Tasks : task'[u].pc = "begin" => task'[u] = x
    BY <1>1, <1>10 DEF Quiet, InGap
  <2>4. /\ jobs'[b][c].attempts <= jobs'[b][c].asked
        /\ <<b, c>> \in due' => jobs'[b][c].attempts < jobs'[b][c].asked
    <3>1. /\ j.attempts <= 1 + j.asked
          /\ <<b, c>> \in due => j.attempts <= j.asked
      BY <1>2, <1>3 DEF Attempts
    <3> QED
      BY <1>1, <1>4, <1>14, <3>1
  <2> QED
    BY <1>9, <2>1, <2>2, <2>3, <2>4 DEF Attempts
<1>19. Does(t)
  BY <1>1, <1>9, <1>10 DEF Does, Held
<1>20. \A k \in BatchIds : BatchGoes(k) /\ \A d \in JobsOf(k) : JobGoes(k, d)
  BY <1>13, <1>15, <1>16
<1> QED
  BY <1>1, <1>9, <1>11, <1>17, <1>18, <1>19, <1>20, TaskStep

LEMMA ResumeStep ==
    ASSUME FullInv, RowsMove, SideKept, proc' = proc, NEW t \in Tasks, NEW x, Resumes(t, x),
           Quiet \/ InGap(t), HandsOn(t) \/ Does(t),
           \A b \in BatchIds :
              BatchGoes(b) /\ \A c \in JobsOf(b) : JobGoes(b, c) /\ NotBegun(b, c)
    PROVE  FullInv'
<1>1. Startables
  <2>1. \A b \in BatchIds : \A c \in JobsOf(b) : NotBegun(b, c)
    OBVIOUS
  <2> QED
    BY <2>1 DEF Startables, NotBegun, Resumes
<1>2. x \in Task /\ Sound(x) /\ task' = [task EXCEPT ![t] = x] /\ DueAfter /\ TasksGo
  BY DEF Resumes
<1> QED
  BY <1>1, <1>2, TaskStep

\* A job of which only the status is written, or the number of attempts.
LEMMA MarkedIf ==
    ASSUME NEW b, NEW c, NEW r, jobs'[b][c] = r, values'[b][c] = values[b][c],
           r.asked = jobs[b][c].asked, jobs[b][c].asked \in Nat, r.rows = jobs[b][c].rows,
           r.delay = jobs[b][c].delay,
           r.status = "completed" => jobs[b][c].status = "completed"
    PROVE  Marked(b, c)
<1>1. r.asked >= jobs[b][c].asked
  OBVIOUS
<1> QED
  BY <1>1 DEF Marked

\* The job is begun: the attempt is counted and the lock asked for.
Begins(t, b, c, r, left, open) ==
    /\ task[t].kind = "job" /\ task[t].pc = "begin" /\ b = task[t].of /\ c = task[t].cp
    /\ r = [jobs[b][c] EXCEPT !.status = "collecting", !.attempts = jobs[b][c].attempts + 1]
    /\ Puts(jobs', jobs, b, c, r)
    /\ left \in SUBSET Products /\ open \in SUBSET Products
    /\ Ask(t, [task[t] EXCEPT !.left = left, !.open = open])
    /\ UNCHANGED <<monitor, batches, expenses, values, reminded, daily, day, clock, setup, due,
                   proc, restarts>>

LEMMA BegunStep ==
    ASSUME FullInv, NEW t \in Tasks, InGap(t), NEW b, NEW c, NEW r, NEW left, NEW open,
           Begins(t, b, c, r, left, open)
    PROVE  FullInv'
<1> DEFINE j == jobs[b][c]
           n == j.attempts + 1
           x == [task[t] EXCEPT !.left = left, !.open = open, !.pc = "lock"]
<1>1. /\ task[t].kind = "job" /\ task[t].pc = "begin" /\ b = task[t].of /\ c = task[t].cp
      /\ r = [j EXCEPT !.status = "collecting", !.attempts = n] /\ Puts(jobs', jobs, b, c, r)
      /\ left \in SUBSET Products /\ open \in SUBSET Products
      /\ Ask(t, [task[t] EXCEPT !.left = left, !.open = open])
      /\ UNCHANGED <<monitor, batches, expenses, values, reminded, daily, day, clock, setup, due,
                     proc, restarts>>
  BY DEF Begins
<1>2. /\ TrafficInv /\ RowsTyped /\ WorldTyped /\ Attempts /\ DueFits /\ OneGap
      /\ Sound(task[t]) /\ task[t] \in Task
  BY DEF FullInv, TrafficInv, TasksFit, Promises, WorldTyped
<1>3. /\ b \in BatchIds /\ c \in Cps /\ c \in JobsOf(b) /\ j \in JobRow(Items(b))
      /\ batches[b].status # "invalidated"
  BY <1>1, <1>2, JobAtHand
<1>4. j.attempts \in Nat /\ j.asked \in Nat /\ j.rows \in [Items(b) -> RowStatus]
  BY <1>3 DEF JobRow
<1>5. j.attempts <= j.asked /\ (<<b, c>> \in due => j.attempts < j.asked)
  <2> HIDE DEF j
  <2> QED
    BY <1>1, <1>2 DEF Attempts, j
<1>6. n \in Nat /\ n <= 1 + j.asked /\ (<<b, c>> \in due => n <= j.asked)
  <2> HIDE DEF j
  <2> QED
    BY <1>4, <1>5
<1>7. JobIs(Items(b), r, "collecting", n, j.asked, j.delay, j.rows)
  <2>1. "collecting" \in JobStatus
    BY DEF JobStatus
  <2>2. r = [j EXCEPT !.status = "collecting", !.attempts = n]
    BY <1>1
  <2> HIDE DEF j, n
  <2>3. j.delay \in Nat \cup {None}
    BY <1>3 DEF JobRow
  <2> QED
    BY <1>3, <1>4, <1>6, <2>1, <2>2, <2>3, JobFields
<1>8. JobPut(b, c, r)
  BY <1>1, <1>2, <1>3, <1>7, JobSet DEF JobIs
<1>9. task' = [task EXCEPT ![t] = x] /\ queue' = Append(queue, t)
  <2>1. [[task[t] EXCEPT !.left = left, !.open = open] EXCEPT !.pc = "lock"] = x
    BY <1>2 DEF Task
  <2> QED
    BY <1>1, <2>1 DEF Ask
<1>10. x \in Task /\ x.kind = "job" /\ x.pc = "lock" /\ x.of = b /\ x.cp = c
  BY <1>1, <1>2 DEF Task, Held
<1> HIDE DEF x
<1>11. Sound(x)
  BY <1>3, <1>10 DEF Sound
<1>12. task'[t] = x /\ \A u \in Tasks : u # t => task'[u] = task[u]
  BY <1>2, <1>9, <1>10, Moved
<1>13. RowsMove /\ SideKept /\ DueAfter
  <2>1. RowsMove
    BY <1>1, <1>2, <1>8, BatchesSame DEF RowsMove, RowsTyped, JobPut
  <2>2. SideKept /\ DueAfter
    BY <1>1, <1>2, Aside DEF SideKept, DueAfter, DueFits, WorldTyped
  <2> QED
    BY <2>1, <2>2
<1>14. \A k, d : Read(k, d) => Read(k, d)'
  BY <1>1, <1>12, NoReader DEF Held
<1>15. \A k \in BatchIds : \A d \in JobsOf(k) :
          <<k, d>> # <<b, c>> => JobGoes(k, d) /\ NotBegun(k, d) /\ jobs'[k][d] = jobs[k][d]
  <2>1. RowsTyped /\ Attempts /\ values' = values
    BY <1>1, <1>2
  <2>2. \A k, d : <<k, d>> # <<b, c>> /\ Read(k, d) => Read(k, d)'
    BY <1>14
  <2> HIDE DEF j, n
  <2> QED
    BY <1>8, <2>1, <2>2, OthersGo, Zenon
<1>16. /\ jobs'[b][c] = r /\ r.attempts = n /\ r.asked = j.asked /\ r.status = "collecting"
       /\ r.rows = j.rows /\ r.delay = j.delay
  BY <1>7, <1>8 DEF JobIs, JobPut
<1>17. JobGoes(b, c)
  <2>1. Marked(b, c)
    BY <1>1, <1>4, <1>16, MarkedIf, ZenonT(40)
  <2> QED
    BY <1>14, <2>1, MarkedGoes
<1>18. \A k \in BatchIds : BatchGoes(k) /\ \A d \in JobsOf(k) : JobGoes(k, d)
  BY <1>1, <1>15, <1>17 DEF BatchGoes
<1>19. TasksGo
  BY <1>1, <1>10, <1>12 DEF TasksGo
<1>20. Attempts'
  <2>1. BatchIds' = BatchIds /\ \A k \in BatchIds : JobsOf(k)' = JobsOf(k)
    BY <1>1 DEF BatchIds, JobsOf
  <2>2. ~Startable(b, c)'
    BY <1>16 DEF Startable
  <2>3. ASSUME NEW k \in BatchIds, NEW d \in JobsOf(k)
        PROVE  /\ jobs'[k][d].attempts <= 1 + jobs'[k][d].asked
               /\ Startable(k, d)' \/ <<k, d>> \in due' =>
                     jobs'[k][d].attempts <= jobs'[k][d].asked
    <3>1. /\ jobs[k][d].attempts <= 1 + jobs[k][d].asked
          /\ <<k, d>> \in due => jobs[k][d].attempts <= jobs[k][d].asked
      BY <1>2 DEF Attempts
    <3>2. CASE <<k, d>> # <<b, c>>
      BY <1>1, <1>15, <3>1, <3>2 DEF NotBegun
    <3>3. CASE k = b /\ d = c
      <4> HIDE DEF j, n
      <4> QED
        BY <1>1, <1>6, <1>16, <2>2, <3>3
    <3> QED
      BY <3>2, <3>3
  <2>4. \A u \in Tasks : task'[u].pc # "begin"
    <3>1. \A u \in Tasks : u # t => task[u].pc # "begin"
      BY <1>2 DEF OneGap, InGap
    <3> QED
      BY <1>10, <1>12, <3>1
  <2> QED
    BY <2>1, <2>3, <2>4 DEF Attempts
<1>21. Asks(t)
  BY <1>1, <1>9, <1>10, <1>12 DEF Asks, Held
<1> QED
  BY <1>1, <1>9, <1>10, <1>11, <1>13, <1>18, <1>19, <1>20, <1>21, TaskStep

LEMMA BeginStep ==
    ASSUME FullInv, NEW t \in Tasks, Begin(t)
    PROVE  FullInv'
<1> DEFINE b == task[t].of
           c == task[t].cp
           j == jobs[b][c]
           begun == Startable(b, c) /\ Observed(b)
           auto == connected /\ begun /\ batches[b].mode = "auto"
           left == {p \in Items(b) : j.rows[p] = "pending"}
           open == {p \in Items(b) : Allowed(p)}
<1>1. /\ task[t].kind = "job" /\ task[t].pc = "begin" /\ InGap(t)
      /\ UNCHANGED <<monitor, batches, expenses, values, daily, day, clock, setup, proc, restarts>>
  BY DEF Begin, InGap, world
<1>2. /\ TrafficInv /\ RowsTyped /\ WorldTyped /\ Attempts
  BY DEF FullInv, TrafficInv, Promises
<1>3. /\ b \in BatchIds /\ c \in Cps /\ c \in JobsOf(b) /\ j \in JobRow(Items(b))
      /\ j.rows \in [Items(b) -> RowStatus] /\ j.attempts \in Nat /\ j.asked \in Nat
  BY <1>1, <1>2, JobAtHand
<1>4. CASE auto
  <2> DEFINE r == [j EXCEPT !.status = "collecting", !.attempts = j.attempts + 1]
  <2>1. /\ Puts(jobs', jobs, b, c, r)
        /\ Ask(t, [task[t] EXCEPT !.left = left, !.open = open])
        /\ UNCHANGED <<due, reminded>>
    BY <1>4 DEF Begin, Puts
  <2>2. left \in SUBSET Products /\ open \in SUBSET Products
    <3>1. Items(b) \in SUBSET Products
      BY <1>2, <1>3, BatchFacts DEF RowsTyped, Items
    <3> QED
      BY <3>1
  <2> HIDE DEF left, open
  <2>3. Begins(t, b, c, r, left, open)
    BY <1>1, <2>1, <2>2 DEF Begins
  <2> HIDE DEF r, b, c
  <2> QED
    BY <1>1, <2>3, BegunStep
<1>5. CASE ~auto
  <2>1. /\ Done(t) /\ queue' = queue
        /\ \/ jobs' = jobs
           \/ \E s \in {"waiting_connection", "waiting_manual"} :
                 jobs' = [jobs EXCEPT ![b][c].status = s]
    BY <1>5 DEF Begin
  <2>2. PICK r : /\ JobPut(b, c, r)
                 /\ r.attempts = j.attempts /\ r.asked = j.asked /\ r.rows = j.rows
                 /\ r.delay = j.delay
                 /\ r.status = j.status \/ r.status \in {"waiting_connection", "waiting_manual"}
    <3>1. CASE jobs' = jobs
      <4>1. JobPut(b, c, j)
        BY <1>2, <3>1 DEF JobPut, RowsTyped
      <4> QED
        BY <4>1
    <3>2. ASSUME NEW s \in {"waiting_connection", "waiting_manual"},
                 jobs' = [jobs EXCEPT ![b][c].status = s]
          PROVE  \E r : /\ JobPut(b, c, r)
                        /\ r.attempts = j.attempts /\ r.asked = j.asked /\ r.rows = j.rows
                        /\ r.delay = j.delay
                        /\ r.status = j.status \/ r.status \in {"waiting_connection", "waiting_manual"}
      <4> DEFINE r == [j EXCEPT !.status = s]
      <4>1. JobIs(Items(b), r, s, j.attempts, j.asked, j.delay, j.rows)
        <5> HIDE DEF j
        <5> QED
          BY <1>3, JobField DEF JobStatus
      <4>2. Puts(jobs', jobs, b, c, r)
        BY <3>2 DEF Puts
      <4> HIDE DEF r
      <4>3. JobPut(b, c, r)
        <5> HIDE DEF b, c
        <5> QED
          BY <1>2, <1>3, <4>1, <4>2, JobSet DEF JobIs
      <4> QED
        BY <4>1, <4>3 DEF JobIs
    <3> QED
      BY <2>1, <3>1, <3>2
  <2>3. RowsMove /\ SideKept
    <3>1. RowsMove
      BY <1>1, <1>2, <2>2, BatchesSame DEF RowsMove, RowsTyped, JobPut
    <3> QED
      BY <1>1, <1>2, <3>1, Aside DEF SideKept
  <2>4. PICK x : Resumes(t, x)
    BY <1>1, <2>1, <2>3, DoneGoes
  <2>5. task'[t] = x /\ (\A u \in Tasks : u # t => task'[u] = task[u]) /\ x.pc \notin Held
    BY <1>2, <2>4, Moved DEF Resumes
  <2>6. \A k, d : Read(k, d) => Read(k, d)'
    BY <1>1, <2>5, NoReader DEF Held
  <2>7. \A k \in BatchIds : \A d \in JobsOf(k) :
          <<k, d>> # <<b, c>> => JobGoes(k, d) /\ NotBegun(k, d)
    BY <1>1, <1>2, <2>2, <2>6, OthersGo
  <2>8. jobs'[b][c] = r /\ values'[b][c] = values[b][c]
    BY <1>1, <2>2 DEF JobPut
  <2>9. JobGoes(b, c)
    <3>1. Marked(b, c)
      <4>1. j.asked \in Nat /\ (r.status = "completed" => j.status = "completed")
        BY <1>3, <2>2
      <4> HIDE DEF b, c
      <4> QED
        BY <2>2, <2>8, <4>1, MarkedIf
    <3> QED
      BY <2>6, <3>1, MarkedGoes
  <2>10. NotBegun(b, c)
    <3>1. j.attempts <= j.asked
      BY <1>1, <1>2 DEF Attempts
    <3> QED
      BY <2>2, <2>8, <3>1 DEF NotBegun
  <2>11. \A k \in BatchIds :
            BatchGoes(k) /\ \A d \in JobsOf(k) : JobGoes(k, d) /\ NotBegun(k, d)
    BY <1>1, <2>7, <2>9, <2>10 DEF BatchGoes
  <2>12. Does(t)
    BY <1>1, <2>1, <2>5 DEF Does, Held
  <2> QED
    BY <1>1, <2>3, <2>4, <2>11, <2>12, ResumeStep
<1> QED
  BY <1>4, <1>5

LEMMA NotNegative ==
    ASSUME NEW n \in Int
    PROVE  Max({0, n}) \in Nat /\ Max({0, n}) >= n
<1> DEFINE P(m) == m \in {0, n} /\ \A k \in {0, n} : m >= k
<1>1. \E m : P(m)
  <2>1. CASE n >= 0
    <3>1. P(n)
      BY <2>1
    <3> QED
      BY <3>1
  <2>2. CASE ~(n >= 0)
    <3>1. P(0)
      BY <2>2
    <3> QED
      BY <3>1
  <2> QED
    BY <2>1, <2>2
<1>2. Max({0, n}) \in {0, n} /\ \A k \in {0, n} : Max({0, n}) >= k
  <2>1. \E m \in {0, n} : \A k \in {0, n} : m >= k
    BY <1>1
  <2> QED
    BY <2>1 DEF Max
<1> QED
  BY <1>2

\* The job of a task is over: what its row r and its batch z become.
Ends(t, b, c, r) ==
    /\ task[t].kind = "job" /\ task[t].pc = "finish" /\ b = task[t].of /\ c = task[t].cp
    /\ JobPut(b, c, r)
    /\ r.attempts = jobs[b][c].attempts /\ r.asked = jobs[b][c].asked
    /\ r.rows = jobs[b][c].rows
    /\ r.status \notin {"scheduled", "waiting_connection"}
    /\ r.status = "completed" =>
          /\ \A p \in Items(b) : jobs[b][c].rows[p] = "completed"
          /\ r.delay \in Nat /\ clock <= DueAt(b, c) + r.delay
    /\ IsSeq(batches', Len(batches))
    /\ \A k \in BatchIds :
          /\ batches'[k] \in Batch /\ SameBatch(k)
          /\ batches'[k].cost = batches[k].cost
          /\ batches'[k].status = "closed" =>
                \/ batches[k].status = "closed"
                \/ k = b /\ c = Terminal /\ \A p \in Items(b) : jobs[b][c].rows[p] = "completed"
    /\ queue' = Tail(queue) /\ Done(t)
    /\ UNCHANGED <<monitor, expenses, values, daily, day, clock, setup, proc, restarts>>

LEMMA EndStep ==
    ASSUME FullInv, NEW t \in Tasks, NEW b, NEW c, NEW r, Ends(t, b, c, r)
    PROVE  FullInv'
<1>1. /\ TrafficInv /\ RowsTyped /\ WorldTyped /\ Attempts /\ Counted /\ QueueFits
      /\ task[t].kind = "job" /\ task[t].pc = "finish" /\ InGap(t) /\ clock \in Nat
  BY DEF FullInv, TrafficInv, Promises, InGap, Ends, WorldTyped
<1>2. /\ b \in BatchIds /\ c \in Cps /\ c \in JobsOf(b) /\ jobs[b][c].asked \in Nat
      /\ values[b][c] \in [Items(b) -> Value(clock)]
  BY <1>1, JobAtHand DEF Ends
<1>3. RowsMove /\ SideKept
  <2>1. RowsMove
    BY <1>1 DEF RowsMove, RowsTyped, JobPut, Ends
  <2> QED
    BY <1>1, <2>1, Aside DEF SideKept, Ends
<1>4. PICK x : Resumes(t, x)
  BY <1>1, <1>3, DoneGoes DEF Ends
<1>5. task'[t] = x /\ (\A u \in Tasks : u # t => task'[u] = task[u]) /\ x.pc \notin Held
  BY <1>1, <1>4, Moved DEF Resumes
<1>6. ASSUME NEW k, NEW d, <<k, d>> # <<b, c>>, Read(k, d)
      PROVE  Read(k, d)'
  <2>1. PICK u \in Tasks : /\ task[u].kind = "job" /\ task[u].pc \in Held
                          /\ task[u].of = k /\ task[u].cp = d
    BY <1>6 DEF Read
  <2>2. u # t
    BY <1>6, <2>1 DEF Ends
  <2>3. task'[u] = task[u]
    BY <1>5, <2>2
  <2> QED
    BY <2>1, <2>3 DEF Read
<1>7. values' = values /\ JobPut(b, c, r)
  BY DEF Ends
<1>8. \A k \in BatchIds : \A d \in JobsOf(k) :
          <<k, d>> # <<b, c>> => JobGoes(k, d) /\ NotBegun(k, d)
  BY <1>1, <1>6, <1>7, OthersGo
<1>9. /\ jobs'[b][c] = r /\ r.attempts = jobs[b][c].attempts /\ r.asked = jobs[b][c].asked
      /\ r.rows = jobs[b][c].rows
  BY <1>7 DEF JobPut, Ends
<1>10. \A p : Has(b, c, p)' = Has(b, c, p)
  BY <1>7 DEF Has
<1>11. r.status = "completed" => Covered(b, c)'
  <2>1. ASSUME r.status = "completed", NEW p \in Items(b)
        PROVE  values[b][c][p].at <= DueAt(b, c) + r.delay
    <3>1. values[b][c][p].at \in {None} \cup 0..clock
      BY <1>2 DEF Value
    <3>2. r.delay \in Nat /\ clock <= DueAt(b, c) + r.delay
      BY <2>1 DEF Ends
    <3>3. DueAt(b, c) \in Nat
      BY <1>1, <1>2, DueIs
    <3> QED
      BY <1>1, <3>1, <3>2, <3>3 DEF None
  <2>2. Items(b)' = Items(b) /\ DueAt(b, c)' = DueAt(b, c)
    BY <1>1, <1>2, <1>3, RowsMoved DEF SideKept
  <2>3. r.status = "completed" => r.delay \in Nat
    BY DEF Ends
  <2> QED
    BY <1>7, <1>9, <2>1, <2>2, <2>3 DEF Covered
<1>12. JobGoes(b, c)
  <2>1. jobs'[b][c].asked >= jobs[b][c].asked
    BY <1>2, <1>9
  <2>2. ASSUME NEW p \in Items(b)
        PROVE  /\ jobs'[b][c].rows[p] = "completed" \/ jobs'[b][c].status = "completed" =>
                     \/ jobs[b][c].rows[p] = "completed" \/ jobs[b][c].status = "completed"
                     \/ Has(b, c, p)'
               /\ Has(b, c, p) => Has(b, c, p)'
               /\ values'[b][c][p] = values[b][c][p]
    <3>1. r.status = "completed" => jobs[b][c].rows[p] = "completed"
      BY DEF Ends
    <3> QED
      BY <1>7, <1>9, <1>10, <3>1
  <2> QED
    BY <1>9, <1>11, <2>1, <2>2 DEF JobGoes
<1>13. NotBegun(b, c)
  <2>1. r.status \notin {"scheduled", "waiting_connection"}
    BY DEF Ends
  <2> QED
    BY <1>9, <2>1 DEF NotBegun, Startable
<1>14. ASSUME NEW k \in BatchIds
       PROVE  BatchGoes(k)
  <2>1. ASSUME batches'[k].status = "closed", batches[k].status # "closed"
        PROVE  \A p \in Items(k) : Has(k, Terminal, p)'
    <3>1. k = b /\ c = Terminal /\ \A p \in Items(b) : jobs[b][c].rows[p] = "completed"
      BY <2>1 DEF Ends
    <3>2. \A p \in Items(b) : Has(b, c, p)
      BY <1>1, <1>2, <3>1 DEF Counted
    <3> QED
      BY <1>10, <3>1, <3>2
  <2>2. expenses' = expenses /\ batches'[k].cost = batches[k].cost
    BY DEF Ends
  <2> QED
    BY <2>1, <2>2 DEF BatchGoes
<1>15. HandsOn(t)
  <2>1. Holds(t)
    BY <1>1 DEF QueueFits
  <2> QED
    BY <1>5, <2>1 DEF HandsOn, Ends
<1>16. \A k \in BatchIds :
          BatchGoes(k) /\ \A d \in JobsOf(k) : JobGoes(k, d) /\ NotBegun(k, d)
  BY <1>8, <1>12, <1>13, <1>14
<1>17. proc' = proc
  BY DEF Ends
<1> QED
  BY <1>1, <1>3, <1>4, <1>15, <1>16, <1>17, ResumeStep

LEMMA FinishJobStep ==
    ASSUME FullInv, NEW t \in Tasks, FinishJob(t)
    PROVE  FullInv'
<1> DEFINE b == task[t].of
           c == task[t].cp
           j == jobs[b][c]
           y == batches[b]
<1>1. /\ task[t].kind = "job" /\ task[t].pc = "finish" /\ queue' = Tail(queue) /\ Done(t)
      /\ UNCHANGED <<monitor, expenses, values, daily, day, clock, setup, proc, restarts>>
  BY DEF FinishJob, world
<1>2. TrafficInv /\ RowsTyped /\ clock \in Nat
  BY DEF FullInv, TrafficInv, WorldTyped
<1>3. /\ b \in BatchIds /\ c \in Cps /\ c \in JobsOf(b) /\ j \in JobRow(Items(b))
      /\ j.rows \in [Items(b) -> RowStatus] /\ y.status # "invalidated" /\ y \in Batch
      /\ j.status \in JobStatus
  BY <1>1, <1>2, JobAtHand DEF RowsTyped
<1>4. DueAt(b, c) \in Nat
  BY <1>2, <1>3, DueIs
<1>5. CASE AllRead(b, c)
  <2> DEFINE d == Max({0, clock - DueAt(b, c)})
             r == [j EXCEPT !.status = "completed", !.delay = d]
             s == IF c = Terminal THEN "closed" ELSE "observing"
             z == [y EXCEPT !.status = s]
  <2>1. Puts(jobs', jobs, b, c, r) /\ batches' = [batches EXCEPT ![b] = z]
    BY <1>5 DEF FinishJob, Puts
  <2>2. d \in Nat /\ clock <= DueAt(b, c) + d
    <3>1. clock - DueAt(b, c) \in Int
      BY <1>2, <1>4
    <3>2. d \in Nat /\ d >= clock - DueAt(b, c)
      BY <3>1, NotNegative
    <3> HIDE DEF d
    <3> QED
      BY <1>2, <1>4, <3>2
  <2> HIDE DEF d
  <2>3. JobIs(Items(b), r, "completed", j.attempts, j.asked, d, j.rows)
    <3>1. "completed" \in JobStatus /\ d \in Nat \cup {None}
      BY <2>2 DEF JobStatus
    <3>2. j.attempts \in Nat
      BY <1>3 DEF JobRow
    <3> HIDE DEF j
    <3> QED
      BY <1>3, <3>1, <3>2, JobFields
  <2>4. BatchIs(z, y, s, y.mode, y.cost)
    <3>1. s \in BatchStatus
      BY DEF BatchStatus
    <3> HIDE DEF y, s
    <3> QED
      BY <1>3, <3>1, BatchField
  <2>5. s \in BatchStatus /\ s # "invalidated"
    BY DEF BatchStatus
  <2> HIDE DEF r, z
  <2>6. JobPut(b, c, r)
    <3> HIDE DEF b, c
    <3> QED
      BY <1>2, <1>3, <2>1, <2>3, JobSet DEF JobIs
  <2>7. /\ IsSeq(batches', Len(batches)) /\ batches'[b] = z
        /\ \A k \in BatchIds : batches'[k] \in Batch /\ SameBatch(k)
        /\ \A k \in BatchIds : k # b => batches'[k] = batches[k]
    <3> HIDE DEF b, s
    <3> QED
      BY <1>2, <1>3, <2>1, <2>4, <2>5, BatchSet
  <2>8. \A p \in Items(b) : j.rows[p] = "completed"
    BY <1>5 DEF AllRead
  <2>9. Ends(t, b, c, r)
    <3>1. /\ r.attempts = j.attempts /\ r.asked = j.asked /\ r.rows = j.rows
          /\ r.status = "completed" /\ r.delay = d
      BY <2>3 DEF JobIs
    <3>2. \A k \in BatchIds :
             /\ batches'[k].cost = batches[k].cost
             /\ batches'[k].status = "closed" => batches[k].status = "closed" \/ (k = b /\ c = Terminal)
      BY <2>4, <2>7 DEF BatchIs
    <3> HIDE DEF s
    <3> QED
      BY <1>1, <2>2, <2>6, <2>7, <2>8, <3>1, <3>2 DEF Ends
  <2> QED
    BY <2>9, EndStep
<1>6. CASE ~AllRead(b, c)
  <2> DEFINE some == \E p \in Items(b) : j.rows[p] = "completed"
             s == IF j.status = "circuit_open" THEN j.status
                  ELSE IF some THEN "partial" ELSE "waiting_manual"
             r == [j EXCEPT !.status = s]
  <2>1. Puts(jobs', jobs, b, c, r) /\ batches' = batches
    BY <1>6 DEF FinishJob, Puts
  <2>2. s \in {"circuit_open", "partial", "waiting_manual"} /\ s \in JobStatus
    BY DEF JobStatus
  <2> HIDE DEF s
  <2>3. JobIs(Items(b), r, s, j.attempts, j.asked, j.delay, j.rows)
    <3> HIDE DEF j
    <3> QED
      BY <1>3, <2>2, JobField
  <2> HIDE DEF r
  <2>4. JobPut(b, c, r)
    <3> HIDE DEF b, c
    <3> QED
      BY <1>2, <1>3, <2>1, <2>3, JobSet DEF JobIs
  <2>5. /\ IsSeq(batches', Len(batches))
        /\ \A k \in BatchIds : batches'[k] \in Batch /\ SameBatch(k) /\ batches'[k] = batches[k]
    BY <1>2, <2>1, BatchesSame
  <2>6. Ends(t, b, c, r)
    <3>1. /\ r.attempts = j.attempts /\ r.asked = j.asked /\ r.rows = j.rows /\ r.status = s
      BY <2>3 DEF JobIs
    <3> QED
      BY <1>1, <2>2, <2>4, <2>5, <3>1 DEF Ends
  <2> QED
    BY <2>6, EndStep
<1> QED
  BY <1>5, <1>6

LEMMA PollStep ==
    ASSUME FullInv, Poll
    PROVE  FullInv'
<1> DEFINE byHand(js) == {j \in js : batches[j[1]].mode = "manual"}
           taken(js) == {j \in js \ byHand(js) :
                            connected \/ jobs[j[1]][j[2]].status # "waiting_connection"}
           hand(b, c) == [jobs[b][c] EXCEPT !.status = "waiting_manual"]
           row(js, b, c) == IF <<b, c>> \in byHand(js) THEN hand(b, c) ELSE Restored[b][c]
<1>1. PICK js \in DueJobs :
          /\ Quiet /\ task[Scheduler].pc = "idle"
          /\ jobs' = [b \in BatchIds |-> [c \in DOMAIN jobs[b] |-> row(js, b, c)]]
          /\ Following(taken(js))
          /\ UNCHANGED <<monitor, batches, expenses, values, daily, day, clock, setup, queue,
                         proc, restarts>>
  BY DEF Poll, world
<1>2. RowsTyped /\ WorldTyped /\ Attempts /\ Scheduler \in Tasks
  BY DEF FullInv, TrafficInv, Promises, Tasks
<1>3. \A j \in taken(js) : Open(j)
  <2>1. js \subseteq Ready
    BY DEF DueJobs
  <2> QED
    BY <2>1 DEF Ready, Open, Observed
<1> HIDE DEF taken
<1>4. ASSUME NEW b \in BatchIds, NEW c \in JobsOf(b)
      PROVE  LET r == row(js, b, c)
                 j == jobs[b][c]
             IN  /\ r \in JobRow(Items(b))
                 /\ r.attempts = j.attempts /\ r.asked = j.asked /\ r.rows = j.rows
                 /\ r.delay = j.delay /\ j.asked \in Nat
                 /\ r.status = j.status \/ r.status = "waiting_manual"
  <2> DEFINE j == jobs[b][c]
  <2>1. j \in JobRow(Items(b)) /\ j.asked \in Nat
    <3>1. j \in JobRow(Items(b))
      BY <1>2 DEF RowsTyped
    <3> QED
      BY <3>1 DEF JobRow
  <2>2. JobIs(Items(b), hand(b, c), "waiting_manual", j.attempts, j.asked, j.delay, j.rows)
    <3>1. hand(b, c) = [j EXCEPT !.status = "waiting_manual"]
      OBVIOUS
    <3> HIDE DEF j, hand
    <3> QED
      BY <2>1, <3>1, JobField, ZenonT(40) DEF JobStatus
  <2> HIDE DEF hand, byHand
  <2>3. CASE <<b, c>> \in byHand(js)
    BY <2>1, <2>2, <2>3 DEF JobIs
  <2>4. CASE <<b, c>> \notin byHand(js)
    BY <1>2, <2>4, RestoredFacts
  <2> QED
    BY <2>3, <2>4
<1>5. /\ IsSeq(jobs', Len(batches))
      /\ \A b \in BatchIds : jobs'[b] \in [JobsOf(b) -> JobRow(Items(b))]
      /\ \A b \in BatchIds : \A c \in JobsOf(b) : jobs'[b][c] = row(js, b, c)
  <2> HIDE DEF row
  <2>1. \A b \in BatchIds : DOMAIN jobs[b] = JobsOf(b)
    BY <1>2 DEF RowsTyped
  <2>2. \A b \in BatchIds : jobs'[b] = [c \in JobsOf(b) |-> row(js, b, c)]
    BY <1>1, <2>1
  <2>3. IsSeq(jobs', Len(batches))
    BY <1>1, <1>2 DEF RowsTyped, IsSeq, BatchIds
  <2>4. \A b \in BatchIds : \A c \in JobsOf(b) : row(js, b, c) \in JobRow(Items(b))
    BY <1>4
  <2> QED
    BY <2>2, <2>3, <2>4
<1>6. RowsMove /\ SideKept
  BY <1>1, <1>2, <1>5, BatchesSame, Aside DEF RowsMove, RowsTyped, SideKept
<1>7. PICK x : Resumes(Scheduler, x)
  BY <1>1, <1>3, <1>6, FollowingGoes
<1>8. /\ task'[Scheduler] = x /\ (\A u \in Tasks : u # Scheduler => task'[u] = task[u])
      /\ x.pc \notin Held
  BY <1>2, <1>7, Moved DEF Resumes
<1>9. \A k, d : Read(k, d) => Read(k, d)'
  BY <1>1, <1>2, <1>8, NoReader DEF Held
<1>10. ASSUME NEW b \in BatchIds, NEW c \in JobsOf(b)
       PROVE  JobGoes(b, c) /\ NotBegun(b, c)
  <2> DEFINE r == jobs'[b][c]
             j == jobs[b][c]
  <2> HIDE DEF row
  <2>1. /\ r.attempts = j.attempts /\ r.asked = j.asked /\ r.rows = j.rows
        /\ r.delay = j.delay /\ j.asked \in Nat
        /\ r.status = j.status \/ r.status = "waiting_manual"
    BY <1>4, <1>5
  <2>2. j.status \in {"scheduled", "waiting_connection"} => j.attempts <= j.asked
    BY <1>2 DEF Attempts, Startable
  <2>3. values'[b][c] = values[b][c]
    BY <1>1
  <2>4. Marked(b, c) /\ NotBegun(b, c)
    BY <2>1, <2>2, <2>3 DEF Marked, NotBegun, Startable
  <2> QED
    BY <1>9, <2>4, MarkedGoes
<1>11. \A b \in BatchIds :
          BatchGoes(b) /\ \A c \in JobsOf(b) : JobGoes(b, c) /\ NotBegun(b, c)
  BY <1>1, <1>10 DEF BatchGoes
<1>12. Does(Scheduler)
  BY <1>1, <1>8 DEF Does, Held
<1> QED
  BY <1>1, <1>2, <1>6, <1>7, <1>11, <1>12, ResumeStep

-----------------------------------------------------------------------------
(* A purchase is recorded.                                                 *)

\* One row is added.
Adds(g, f, e) == g = Append(f, e)

LEMMA SeqAdds ==
    ASSUME NEW n, NEW f, IsSeq(f, n), NEW g, NEW e, Adds(g, f, e)
    PROVE  /\ IsSeq(g, n + 1) /\ g[n + 1] = e
           /\ \A k \in 1..n : g[k] = f[k]
<1> DEFINE S == {f[i] : i \in 1..n} \cup {e}
<1>1. n \in Nat /\ f \in [1..n -> S]
  BY DEF IsSeq
<1>2. f \in Seq(S) /\ Len(f) = n /\ e \in S
  BY <1>1
<1>3. /\ g \in Seq(S) /\ Len(g) = n + 1 /\ g[n + 1] = e
      /\ \A k \in 1..n : g[k] = f[k]
  BY <1>2 DEF Adds
<1>4. IsSeq(g, Len(g))
  BY <1>3, SeqIs
<1> QED
  BY <1>3, <1>4

\* The row of the purchase z, of its jobs jr and of its readings vr.
RowsFor(q, z, jr, vr) ==
    /\ z \in Batch /\ z.req = q /\ z.started \in 0..clock /\ z.status # "closed"
    /\ jr \in [(IF z.status = "invalidated" THEN {} ELSE Cps) -> JobRow(z.items)]
    /\ \A c \in DOMAIN jr :
          /\ jr[c].attempts = 0 /\ jr[c].asked = 0 /\ jr[c].status = "scheduled"
          /\ \A p \in z.items : jr[c].rows[p] = "pending"
    /\ vr \in [Cps -> [z.items -> Value(clock)]]
    /\ \A c \in Cps, p \in z.items : vr[c][p] = NoValue

\* The purchase is added to what is recorded.
Records(t, q, z, jr, vr) ==
    /\ task[t].kind = "record" /\ task[t].pc = "finish"
    /\ RowsFor(q, z, jr, vr)
    /\ \A b \in BatchIds : batches[b].req # q
    /\ Adds(batches', batches, z) /\ Adds(expenses', expenses, z.cost)
    /\ Adds(jobs', jobs, jr) /\ Adds(values', values, vr)
    /\ task' = [task EXCEPT ![t] = Idle] /\ queue' = Tail(queue)
    /\ UNCHANGED <<monitor, reminded, daily, day, clock, due, setup, proc, restarts>>

\* What is recorded, with one row more.
AddedAt(n, z, jr, vr) ==
    /\ Len(batches') = n /\ BatchIds' = BatchIds \cup {n} /\ n \notin BatchIds
    /\ IsSeq(batches', n) /\ IsSeq(expenses', n) /\ IsSeq(jobs', n) /\ IsSeq(values', n)
    /\ batches'[n] = z /\ expenses'[n] = z.cost /\ jobs'[n] = jr /\ values'[n] = vr
    /\ \A b \in BatchIds :
          /\ batches'[b] = batches[b] /\ expenses'[b] = expenses[b]
          /\ jobs'[b] = jobs[b] /\ values'[b] = values[b]

LEMMA RecordedRows ==
    ASSUME RowsTyped, NEW t, NEW q, NEW z, NEW jr, NEW vr, Records(t, q, z, jr, vr)
    PROVE  \E n : AddedAt(n, z, jr, vr)
<1> DEFINE N == Len(batches)
<1>1. N \in Nat /\ IsSeq(batches, N) /\ IsSeq(expenses, N) /\ IsSeq(jobs, N) /\ IsSeq(values, N)
  BY DEF RowsTyped, IsSeq
<1>2. BatchIds = 1..N
  BY DEF BatchIds
<1> HIDE DEF N
<1>3. /\ Adds(batches', batches, z) /\ Adds(expenses', expenses, z.cost)
      /\ Adds(jobs', jobs, jr) /\ Adds(values', values, vr)
  BY DEF Records
<1>4. /\ IsSeq(batches', N + 1) /\ batches'[N + 1] = z
      /\ \A b \in 1..N : batches'[b] = batches[b]
  BY <1>1, <1>3, SeqAdds
<1>5. /\ IsSeq(expenses', N + 1) /\ expenses'[N + 1] = z.cost
      /\ \A b \in 1..N : expenses'[b] = expenses[b]
  BY <1>1, <1>3, SeqAdds
<1>6. /\ IsSeq(jobs', N + 1) /\ jobs'[N + 1] = jr
      /\ \A b \in 1..N : jobs'[b] = jobs[b]
  BY <1>1, <1>3, SeqAdds
<1>7. /\ IsSeq(values', N + 1) /\ values'[N + 1] = vr
      /\ \A b \in 1..N : values'[b] = values[b]
  BY <1>1, <1>3, SeqAdds
<1>8. Len(batches') = N + 1
  BY <1>4, SeqFacts
<1>9. BatchIds' = 1..(N + 1)
  BY <1>8 DEF BatchIds
<1>10. BatchIds' = BatchIds \cup {N + 1} /\ N + 1 \notin BatchIds
  BY <1>1, <1>2, <1>9
<1>11. AddedAt(N + 1, z, jr, vr)
  BY <1>2, <1>4, <1>5, <1>6, <1>7, <1>8, <1>10 DEF AddedAt
<1> QED
  BY <1>11

LEMMA RecordsTyped ==
    ASSUME TrafficInv, NEW t \in Tasks, NEW q, NEW z, NEW jr, NEW vr,
           Records(t, q, z, jr, vr)
    PROVE  TrafficInv'
<1>0. RowsTyped /\ WorldTyped /\ TasksFit /\ QueueFits /\ OneGap
  BY DEF TrafficInv
<1>1. PICK n : AddedAt(n, z, jr, vr)
  BY <1>0, RecordedRows
<1>rows. /\ Len(batches') = n /\ BatchIds' = BatchIds \cup {n} /\ n \notin BatchIds
      /\ IsSeq(batches', n) /\ IsSeq(expenses', n) /\ IsSeq(jobs', n) /\ IsSeq(values', n)
      /\ batches'[n] = z /\ expenses'[n] = z.cost /\ jobs'[n] = jr /\ values'[n] = vr
      /\ \A b \in BatchIds :
            /\ batches'[b] = batches[b] /\ expenses'[b] = expenses[b]
            /\ jobs'[b] = jobs[b] /\ values'[b] = values[b]
  BY <1>1 DEF AddedAt
<1>2. /\ task[t].kind = "record" /\ task[t].pc = "finish" /\ RowsFor(q, z, jr, vr)
      /\ task' = [task EXCEPT ![t] = Idle] /\ queue' = Tail(queue)
      /\ UNCHANGED <<monitor, reminded, daily, day, clock, due, setup, proc, restarts>>
  BY DEF Records
<1>3. RowsTyped'
  <2>1. ASSUME NEW b \in BatchIds
        PROVE  /\ batches'[b] \in Batch /\ batches'[b].started \in 0..clock'
               /\ jobs'[b] \in [JobsOf(b)' -> JobRow(Items(b)')]
               /\ values'[b] \in [Cps -> [Items(b)' -> Value(clock')]]
    <3>1. Items(b)' = Items(b) /\ JobsOf(b)' = JobsOf(b)
      BY <1>rows DEF Items, JobsOf
    <3> QED
      BY <1>0, <1>rows, <1>2, <3>1 DEF RowsTyped
  <2>2. ASSUME NEW b, b = n
        PROVE  /\ batches'[b] \in Batch /\ batches'[b].started \in 0..clock'
               /\ jobs'[b] \in [JobsOf(b)' -> JobRow(Items(b)')]
               /\ values'[b] \in [Cps -> [Items(b)' -> Value(clock')]]
    <3>1. Items(b)' = z.items /\ JobsOf(b)' = IF z.status = "invalidated" THEN {} ELSE Cps
      BY <1>rows, <2>2 DEF Items, JobsOf
    <3> QED
      BY <1>rows, <1>2, <2>2, <3>1 DEF RowsFor
  <2> QED
    BY <1>rows, <2>1, <2>2 DEF RowsTyped
<1>4. /\ task'[t] = Idle /\ task' \in [Tasks -> Task]
      /\ task' = [task EXCEPT ![t] = task'[t]]
      /\ \A u \in Tasks : u # t => task'[u] = task[u]
  BY <1>0, <1>2, IdleFacts, Moved
<1>5. QueueFits' /\ OneGap'
  <2>1. InGap(t) /\ HandsOn(t)
    BY <1>0, <1>2, <1>4, IdleFacts DEF InGap, HandsOn, QueueFits, Held
  <2> QED
    BY <1>0, <1>4, <2>1, TurnCalls DEF Turn
<1>6. WorldTyped'
  BY <1>0, <1>rows, <1>2, <1>4 DEF WorldTyped
<1>7. TasksFit'
  <2>1. DueFits'
    BY <1>0, <1>rows, <1>2 DEF TasksFit, DueFits
  <2>2. ASSUME NEW u \in Tasks
        PROVE  Sound(task[u])'
    <3>1. Sound(task'[u])
      BY <1>0, <1>4, IdleFacts DEF TasksFit
    <3> QED
      BY <1>rows, <1>2, <3>1 DEF Sound
  <2> QED
    BY <2>1, <2>2 DEF TasksFit
<1> QED
  BY <1>3, <1>5, <1>6, <1>7 DEF TrafficInv

LEMMA RecordsKeep ==
    ASSUME FullInv, TrafficInv', NEW t \in Tasks, NEW q, NEW z, NEW jr, NEW vr,
           Records(t, q, z, jr, vr)
    PROVE  Promises'
<1>0. /\ RowsTyped /\ WorldTyped /\ TasksFit /\ DueFits
      /\ Attempts /\ Counted /\ OnTime /\ Dated /\ PaidOnce
  BY DEF FullInv, TrafficInv, Promises, TasksFit
<1>1. PICK n : AddedAt(n, z, jr, vr)
  BY <1>0, RecordedRows
<1>rows. /\ BatchIds' = BatchIds \cup {n} /\ n \notin BatchIds
      /\ batches'[n] = z /\ expenses'[n] = z.cost /\ jobs'[n] = jr /\ values'[n] = vr
      /\ \A b \in BatchIds :
            /\ batches'[b] = batches[b] /\ expenses'[b] = expenses[b]
            /\ jobs'[b] = jobs[b] /\ values'[b] = values[b]
  BY <1>1 DEF AddedAt
<1>2. /\ task[t].kind = "record" /\ RowsFor(q, z, jr, vr)
      /\ task' = [task EXCEPT ![t] = Idle]
      /\ \A b \in BatchIds : batches[b].req # q
      /\ UNCHANGED <<clock, due, restarts>>
  BY DEF Records
<1>3. task'[t] = Idle /\ \A u \in Tasks : u # t => task'[u] = task[u]
  BY <1>0, <1>2, IdleFacts, Moved
<1>4. ASSUME NEW b \in BatchIds
      PROVE  /\ Items(b)' = Items(b) /\ JobsOf(b)' = JobsOf(b)
             /\ \A c : DueAt(b, c)' = DueAt(b, c) /\ Startable(b, c)' = Startable(b, c)
             /\ \A c, p : Has(b, c, p)' = Has(b, c, p)
             /\ batches'[b] = batches[b] /\ jobs'[b] = jobs[b] /\ values'[b] = values[b]
  BY <1>rows DEF Items, JobsOf, DueAt, Startable, Has
<1>5. ASSUME NEW c \in JobsOf(n)'
      PROVE  /\ jobs'[n][c].attempts = 0 /\ jobs'[n][c].asked = 0
             /\ jobs'[n][c].status = "scheduled"
             /\ \A p \in Items(n)' : jobs'[n][c].rows[p] = "pending" /\ ~Has(n, c, p)'
  <2>1. JobsOf(n)' = DOMAIN jr /\ Items(n)' = z.items /\ DOMAIN jr \subseteq Cps
    BY <1>rows, <1>2 DEF JobsOf, Items, RowsFor
  <2> QED
    BY <1>rows, <1>2, <2>1 DEF RowsFor, Has
<1>6. \A u \in Tasks : task'[u].kind = "job" =>
          task'[u] = task[u] /\ task[u].of \in BatchIds /\ task[u].cp \in Cps
  BY <1>0, <1>3, IdleFacts DEF TasksFit, Sound
<1>7. Attempts'
  <2>1. ASSUME NEW b \in BatchIds', NEW c \in JobsOf(b)'
        PROVE  /\ jobs'[b][c].attempts <= 1 + jobs'[b][c].asked
               /\ Startable(b, c)' \/ <<b, c>> \in due' =>
                     jobs'[b][c].attempts <= jobs'[b][c].asked
    <3>1. CASE b \in BatchIds
      BY <1>0, <1>2, <1>4, <3>1 DEF Attempts
    <3>2. CASE b = n
      BY <1>5, <3>2
    <3> QED
      BY <1>rows, <3>1, <3>2
  <2>2. ASSUME NEW u \in Tasks, task'[u].pc = "begin"
        PROVE  LET b == task'[u].of
                   c == task'[u].cp
               IN  /\ jobs'[b][c].attempts <= jobs'[b][c].asked
                   /\ <<b, c>> \in due' => jobs'[b][c].attempts < jobs'[b][c].asked
    <3>1. task'[u] = task[u] /\ task[u].kind = "job" /\ task[u].of \in BatchIds
      BY <1>0, <1>3, <1>6, <2>2, IdleFacts DEF TasksFit, Sound
    <3>2. jobs'[task[u].of] = jobs[task[u].of]
      BY <1>4, <3>1
    <3> QED
      BY <1>0, <1>2, <2>2, <3>1, <3>2, SMTT(30) DEF Attempts
  <2> QED
    BY <2>1, <2>2 DEF Attempts
<1>8. Counted'
  <2>1. ASSUME NEW b \in BatchIds', NEW c \in JobsOf(b)', NEW p \in Items(b)',
               jobs'[b][c].rows[p] = "completed" \/ jobs'[b][c].status = "completed"
        PROVE  Has(b, c, p)'
    <3>1. CASE b \in BatchIds
      BY <1>0, <1>4, <2>1, <3>1 DEF Counted
    <3>2. CASE b = n
      BY <1>5, <2>1, <3>2
    <3> QED
      BY <1>rows, <3>1, <3>2
  <2>2. ASSUME NEW b \in BatchIds', batches'[b].status = "closed"
        PROVE  \A p \in Items(b)' : Has(b, Terminal, p)'
    <3>1. b \in BatchIds
      BY <1>rows, <1>2, <2>2 DEF RowsFor
    <3> QED
      BY <1>0, <1>4, <2>2, <3>1 DEF Counted
  <2> QED
    BY <2>1, <2>2 DEF Counted
<1>9. OnTime'
  <2>1. ASSUME NEW b \in BatchIds', NEW c \in JobsOf(b)', NEW p \in Items(b)', Has(b, c, p)'
        PROVE  values'[b][c][p].at >= DueAt(b, c)' \/ jobs'[b][c].asked > 0
    <3>1. b \in BatchIds
      BY <1>rows, <1>5, <2>1
    <3> QED
      BY <1>0, <1>4, <2>1, <3>1 DEF OnTime
  <2>2. ASSUME NEW u \in Tasks, task'[u].kind = "job"
        PROVE  Timely(task[u].of, task[u].cp)'
    <3>1. task'[u] = task[u] /\ task[u].of \in BatchIds /\ Timely(task[u].of, task[u].cp)
      BY <1>0, <1>6, <2>2 DEF OnTime
    <3> QED
      BY <1>2, <1>4, <3>1 DEF Timely, DueAt
  <2>3. \A j \in due' : DueAt(j[1], j[2])' <= clock'
    <3>1. \A j \in due : j[1] \in BatchIds
      BY <1>0 DEF DueFits
    <3> QED
      BY <1>0, <1>2, <1>4, <3>1 DEF OnTime
  <2> QED
    BY <2>1, <2>2, <2>3 DEF OnTime
<1>10. Dated'
  <2>1. \A b, c : Read(b, c) => Read(b, c)'
    BY <1>2, <1>3, NoReader
  <2>2. ASSUME restarts' = 0, NEW b \in BatchIds', NEW c \in JobsOf(b)',
               jobs'[b][c].status = "completed", ~Read(b, c)'
        PROVE  Covered(b, c)'
    <3>1. b \in BatchIds
      BY <1>rows, <1>5, <2>2
    <3>2. Covered(b, c)
      BY <1>0, <1>2, <1>4, <2>1, <2>2, <3>1 DEF Dated
    <3> QED
      BY <1>4, <3>1, <3>2 DEF Covered
  <2> QED
    BY <2>2 DEF Dated
<1>11. PaidOnce'
  <2>1. \A a, b \in BatchIds' : batches'[a].req = batches'[b].req => a = b
    BY <1>0, <1>rows, <1>2 DEF PaidOnce, RowsFor
  <2>2. \A b \in BatchIds' : expenses'[b] = batches'[b].cost
    BY <1>0, <1>rows DEF PaidOnce
  <2> QED
    BY <2>1, <2>2 DEF PaidOnce
<1> QED
  BY <1>7, <1>8, <1>9, <1>10, <1>11 DEF Promises

LEMMA NewBatchFacts ==
    ASSUME TrafficInv, NEW t \in Tasks, task[t].kind = "record"
    PROVE  LET z == NewBatch(t) IN
           /\ z \in Batch /\ z.req = task[t].of /\ z.started \in 0..clock
           /\ z.status \in {"invalidated", "running"} /\ z.items \in SUBSET Products
<1> DEFINE q == task[t].of
           S == Purchases[q].items
           z == NewBatch(t)
<1>1. /\ q \in Requests /\ task[t].start \in 0..clock /\ task[t] \in Task /\ clock \in Nat
  BY DEF TrafficInv, TasksFit, Sound, WorldTyped
<1>2. /\ S \in SUBSET Products
      /\ Purchases[q].mode \in {"auto", "manual"} /\ Purchases[q].cost \in Nat
  BY <1>1, Purchased
<1>3. task[t].got \in [Products -> Nat \cup {None}] /\ task[t].start \in Nat
  BY <1>1 DEF Task
<1> DEFINE base == [p \in S |-> IF task[t].bad THEN None ELSE task[t].got[p]]
           overlap == \E b \in BatchIds : /\ batches[b].started <= task[t].start
                                          /\ Meet(S, task[t].start, b)
           status == IF task[t].bad \/ task[t].late THEN "invalidated" ELSE "running"
<1>4. z = [req |-> q, items |-> S, mode |-> Purchases[q].mode, cost |-> Purchases[q].cost,
           started |-> task[t].start, completed |-> FALSE, base |-> base,
           overlap |-> overlap, status |-> status]
  BY DEF NewBatch
<1>5. base \in [S -> Nat \cup {None}]
  BY <1>2, <1>3
<1>6. overlap \in BOOLEAN /\ status \in {"invalidated", "running"}
  OBVIOUS
<1> HIDE DEF S, q, z, base, overlap, status
<1>7. z \in BatchOf(S)
  BY <1>1, <1>2, <1>3, <1>4, <1>5, <1>6 DEF BatchOf, BatchStatus
<1>8. z \in Batch
  BY <1>2, <1>7 DEF Batch
<1>9. z.req = q /\ z.started = task[t].start /\ z.status = status /\ z.items = S
  BY <1>4
<1> QED
  BY <1>1, <1>2, <1>6, <1>8, <1>9 DEF z, q

LEMMA NewJobFacts ==
    ASSUME NEW S
    PROVE  /\ NewJob(S) \in JobRow(S)
           /\ NewJob(S).attempts = 0 /\ NewJob(S).asked = 0
           /\ NewJob(S).status = "scheduled"
           /\ \A p \in S : NewJob(S).rows[p] = "pending"
<1> DEFINE rs == [p \in S |-> "pending"]
<1>1. rs \in [S -> RowStatus] /\ \A p \in S : rs[p] = "pending"
  BY DEF RowStatus
<1>2. NewJob(S) = [status |-> "scheduled", attempts |-> 0, asked |-> 0, delay |-> None,
                   rows |-> rs]
  BY DEF NewJob
<1> HIDE DEF rs
<1> QED
  BY <1>1, <1>2 DEF JobRow, JobStatus

LEMMA FinishRecordStep ==
    ASSUME FullInv, NEW t \in Tasks, FinishRecord(t)
    PROVE  FullInv'
<1> DEFINE q == task[t].of
           z == NewBatch(t)
           jr == IF z.status = "running" THEN [c \in Cps |-> NewJob(z.items)] ELSE <<>>
           vr == [c \in Cps |-> [p \in z.items |-> NoValue]]
           adds == ~Recorded(q) /\ \A p \in Purchases[q].items : Allowed(p)
<1>1. /\ task[t].kind = "record" /\ task[t].pc = "finish"
      /\ IF adds
         THEN /\ Adds(batches', batches, z) /\ Adds(expenses', expenses, z.cost)
              /\ Adds(jobs', jobs, jr) /\ Adds(values', values, vr)
         ELSE UNCHANGED <<batches, expenses, jobs, values>>
      /\ task' = [task EXCEPT ![t] = Idle] /\ queue' = Tail(queue)
      /\ UNCHANGED <<monitor, reminded, daily, day, clock, due, proc, restarts, setup>>
  BY DEF FinishRecord, Adds, world
<1>2. TrafficInv /\ WorldTyped /\ InGap(t) /\ Holds(t)
  BY <1>1 DEF FullInv, TrafficInv, InGap, QueueFits
<1>3. CASE adds
  <2>1. /\ z \in Batch /\ z.req = q /\ z.started \in 0..clock
        /\ z.status \in {"invalidated", "running"} /\ z.items \in SUBSET Products
    BY <1>1, <1>2, NewBatchFacts
  <2> HIDE DEF z
  <2>2. NoValue \in Value(clock)
    BY DEF NoValue, Value
  <2>3. vr \in [Cps -> [z.items -> Value(clock)]] /\ \A c \in Cps, p \in z.items : vr[c][p] = NoValue
    BY <2>2
  <2>4. /\ jr \in [(IF z.status = "invalidated" THEN {} ELSE Cps) -> JobRow(z.items)]
        /\ \A c \in DOMAIN jr : jr[c] = NewJob(z.items)
    <3>1. CASE z.status = "running"
      BY <3>1, NewJobFacts
    <3>2. CASE z.status = "invalidated"
      <4>1. jr = <<>> /\ jr = [c \in {} |-> NewJob(z.items)] /\ DOMAIN jr = {}
        BY <3>2
      <4> QED
        BY <3>2, <4>1
    <3> QED
      BY <2>1, <3>1, <3>2
  <2>5. \A c \in DOMAIN jr :
          /\ jr[c].attempts = 0 /\ jr[c].asked = 0 /\ jr[c].status = "scheduled"
          /\ \A p \in z.items : jr[c].rows[p] = "pending"
    BY <2>4, NewJobFacts
  <2> HIDE DEF jr, vr
  <2>6. RowsFor(q, z, jr, vr)
    BY <2>1, <2>3, <2>4, <2>5 DEF RowsFor
  <2>7. Records(t, q, z, jr, vr)
    BY <1>1, <1>3, <2>6 DEF Records, Recorded
  <2>8. TrafficInv'
    BY <1>2, <2>7, RecordsTyped
  <2> QED
    BY <2>7, <2>8, RecordsKeep DEF FullInv
<1>4. CASE ~adds
  <2>1. ElseKept /\ SideTyped'
    BY <1>1, <1>2, <1>4, Aside DEF ElseKept, RowsKept
  <2>2. Moves(t, Idle) /\ (HandsOn(t) \/ Does(t))
    BY <1>1, <1>2, Resting
  <2>3. TrafficInv' /\ Calm
    BY <1>2, <2>1, <2>2, CalmMove
  <2> QED
    BY <1>2, <2>3, CalmKeeps DEF FullInv
<1> QED
  BY <1>3, <1>4

-----------------------------------------------------------------------------
(* Every step.                                                             *)

LEMMA TrafficStarts ==
    ASSUME Init
    PROVE  FullInv
<1>1. /\ batches = <<>> /\ expenses = <<>> /\ jobs = <<>> /\ values = <<>>
      /\ monitor = [p \in Products |-> [own |-> "owned", enabled |-> TRUE]]
      /\ reminded = {} /\ setup \in Setups /\ daily = [d \in 1..setup.days |-> "none"]
      /\ day = 1 /\ clock = 0 /\ task = [t \in Tasks |-> Idle]
      /\ due = {} /\ queue = <<>> /\ proc = "up" /\ restarts = 0
  BY DEF Init
<1>2. Len(batches) = 0 /\ BatchIds = {}
  BY <1>1 DEF BatchIds
<1>3. \A t \in Tasks : task[t] = Idle
  BY <1>1
<1>4. RowsTyped
  <2>1. IsSeq(<<>>, 0)
    <3>1. <<>> \in Seq({}) /\ Len(<<>>) = 0
      OBVIOUS
    <3> QED
      BY <3>1, SeqIs
  <2> QED
    BY <1>1, <1>2, <2>1 DEF RowsTyped
<1>5. WorldTyped
  BY <1>1, <1>2, IdleFacts DEF WorldTyped, Monitor, Own
<1>6. TasksFit /\ QueueFits /\ OneGap
  <2>1. TasksFit
    BY <1>1, <1>3, IdleFacts DEF TasksFit, DueFits
  <2>2. queue \in Seq(Tasks) /\ Len(queue) = 0
    BY <1>1
  <2> QED
    BY <1>3, <2>1, <2>2, IdleFacts DEF QueueFits, OneGap, InGap, Held
<1>7. Promises
  BY <1>1, <1>2, <1>3, IdleFacts DEF Promises, Attempts, Counted, OnTime, Dated, PaidOnce
<1> QED
  BY <1>4, <1>5, <1>6, <1>7 DEF FullInv, TrafficInv

\* What a task does until it is idle again.
LEMMA WorkSteps ==
    ASSUME FullInv, NEW t \in Tasks, Step(t)
    PROVE  FullInv'
<1>0. TrafficInv /\ Promises
  BY DEF FullInv
<1>1. CASE \/ BeginRecord(t) \/ Enter(t) \/ BeginCollect(t) \/ FinishCollect(t)
           \/ \E is, n : ReadT0(t, is, n) \/ ReadCollect(t, is, n)
  <2>1. TrafficInv' /\ Calm
    BY <1>0, <1>1, BeginRecordStep, EnterStep, BeginCollectStep, FinishCollectStep,
       ReadT0Step, ReadCollectStep
  <2> QED
    BY <1>0, <2>1, CalmKeeps DEF FullInv
<1>2. CASE FinishRecord(t)
  BY <1>2, FinishRecordStep
<1>3. CASE Begin(t)
  BY <1>3, BeginStep
<1>4. CASE PassOver(t)
  BY <1>4, PassOverStep
<1>5. CASE FinishJob(t)
  BY <1>5, FinishJobStep
<1>6. CASE \E is, n : ReadJob(t, is, n)
  BY <1>6, ReadJobStep
<1>7. CASE BreakJob(t)
  BY <1>7, BreakJobStep
<1>8. \/ BeginRecord(t) \/ Enter(t) \/ BeginCollect(t) \/ FinishCollect(t)
      \/ FinishRecord(t) \/ Begin(t) \/ PassOver(t) \/ FinishJob(t) \/ BreakJob(t)
      \/ \E is, n : ReadT0(t, is, n) \/ ReadJob(t, is, n) \/ ReadCollect(t, is, n)
  BY DEF Step
<1> QED
  BY <1>1, <1>2, <1>3, <1>4, <1>5, <1>6, <1>7, <1>8

\* What the user does.
LEMMA UserSteps ==
    ASSUME FullInv, User
    PROVE  FullInv'
<1>0. TrafficInv /\ Promises /\ Clients \subseteq Tasks
  BY DEF FullInv, Tasks
<1>1. ASSUME NEW t \in Clients, NEW q \in Requests, AskRecord(t, q)
      PROVE  FullInv'
  <2>1. TrafficInv' /\ Calm
    BY <1>0, <1>1, AskRecordStep
  <2> QED
    BY <1>0, <2>1, CalmKeeps DEF FullInv
<1>2. ASSUME NEW b \in BatchIds, NEW cost \in setup.costs, Complete(b, cost)
      PROVE  FullInv'
  BY <1>2, CompleteStep
<1>3. ASSUME NEW b \in BatchIds, NEW c \in Cps, NEW at \in 0..clock,
             NEW n \in [Items(b) -> 0..setup.counts], RecordCheckpoint(b, c, at, n)
      PROVE  FullInv'
  BY <1>3, RecordCheckpointStep
<1>4. ASSUME NEW b \in BatchIds, NEW mode \in {"auto", "manual"}, ChangeMode(b, mode)
      PROVE  FullInv'
  BY <1>4, ChangeModeStep
<1>5. ASSUME NEW t \in Clients, NEW b \in BatchIds, NEW c \in DOMAIN jobs[b], Retry(t, b, c)
      PROVE  FullInv'
  BY <1>0, <1>5, RetryStep
<1>6. ASSUME NEW t \in Clients, NEW kind \in Collects, NEW p \in Products, AskCollect(t, kind, p)
      PROVE  FullInv'
  <2>1. TrafficInv' /\ Calm
    BY <1>0, <1>6, AskCollectStep
  <2> QED
    BY <1>0, <2>1, CalmKeeps DEF FullInv
<1>7. ASSUME NEW p \in Products, NEW on \in BOOLEAN, SetMonitor(p, on)
      PROVE  FullInv'
  <2>1. TrafficInv' /\ Calm
    BY <1>0, <1>7, WorldSteps
  <2> QED
    BY <1>0, <2>1, CalmKeeps DEF FullInv
<1> QED
  BY <1>1, <1>2, <1>3, <1>4, <1>5, <1>6, <1>7 DEF User, Collects

LEMMA TrafficStays ==
    ASSUME FullInv, [Next]_vars
    PROVE  FullInv'
<1>0. TrafficInv /\ Promises
  BY DEF FullInv
<1>1. CASE Connect \/ Tick \/ NewDay \/ UNCHANGED vars \/ Crash \/ Notified
  <2>1. TrafficInv' /\ Calm
    BY <1>0, <1>1, WorldSteps, CrashStep, NotifiedStep
  <2> QED
    BY <1>0, <2>1, CalmKeeps DEF FullInv
<1>2. CASE \E t \in Tasks : Step(t)
  BY <1>2, WorkSteps
<1>3. CASE Poll
  BY <1>3, PollStep
<1>4. CASE User
  BY <1>4, UserSteps
<1>5. CASE Start
  BY <1>5, StartStep
<1> QED
  BY <1>1, <1>2, <1>3, <1>4, <1>5 DEF Next, Scheduling

-----------------------------------------------------------------------------
(* What is proved.                                                         *)

LEMMA TypesFollow ==
    ASSUME TrafficInv
    PROVE  TypeOK
<1>0. RowsTyped /\ WorldTyped /\ TasksFit /\ QueueFits
  BY DEF TrafficInv
<1>1. ASSUME NEW b \in BatchIds
      PROVE  /\ batches[b].req \in Requests
             /\ batches[b].status \in {"running", "observing", "closed", "invalidated"}
             /\ batches[b].started \in 0..clock
             /\ batches[b].base \in [Items(b) -> Nat \cup {None}]
             /\ DOMAIN jobs[b] = IF batches[b].status = "invalidated" THEN {} ELSE Cps
             /\ values[b] \in
                   [Cps -> [Items(b) -> [n : Nat \cup {None}, at : {None} \cup 0..clock]]]
  <2>1. batches[b] \in Batch
    BY <1>0 DEF RowsTyped
  <2> QED
    BY <1>0, <2>1, BatchFacts DEF RowsTyped, BatchStatus, Items, JobsOf, Value
<1>2. ASSUME NEW b \in BatchIds, NEW c \in DOMAIN jobs[b]
      PROVE  /\ [f \in {"status", "attempts", "asked", "delay"} |-> jobs[b][c][f]] \in Job
             /\ jobs[b][c].rows \in
                   [Items(b) -> {"pending", "completed", "failed", "protection_skipped"}]
  <2> DEFINE j == jobs[b][c]
  <2>1. j \in JobRow(Items(b))
    BY <1>0, <1>2 DEF RowsTyped
  <2> HIDE DEF j
  <2>2. /\ j.status \in JobStatus /\ j.attempts \in Nat /\ j.asked \in Nat
        /\ j.delay \in Nat \cup {None} /\ j.rows \in [Items(b) -> RowStatus]
    BY <2>1 DEF JobRow
  <2>3. [f \in {"status", "attempts", "asked", "delay"} |-> j[f]] \in Job
    BY <2>2 DEF Job, JobStatus
  <2> QED
    BY <2>2, <2>3 DEF j, RowStatus
<1>3. Len(expenses) = Len(batches) /\ Len(jobs) = Len(batches) /\ Len(values) = Len(batches)
  BY <1>0, SeqFacts DEF RowsTyped
<1>4. ASSUME NEW t \in Tasks
      PROVE  /\ task[t].kind \in {"none", "job", "record", "daily", "all", "single"}
             /\ task[t].pc \in {"idle", "begin", "lock", "fetch", "finish", "notify"}
             /\ task[t].left \subseteq Products
             /\ (task[t].pc \in {"lock", "fetch", "finish"}) <=> t \in ToSet(queue)
             /\ task[t].pc \in {"fetch", "finish"} => t = Head(queue)
             /\ task[t].pc = "fetch" => task[t].left # {}
  <2>1. task[t] \in Task /\ Sound(task[t])
    BY <1>0 DEF WorldTyped, TasksFit
  <2>2. t \in ToSet(queue) <=> \E i \in 1..Len(queue) : queue[i] = t
    <3>1. DOMAIN queue = 1..Len(queue)
      BY <1>0 DEF QueueFits
    <3> QED
      BY <3>1 DEF ToSet
  <2>3. task[t].pc \in {"lock", "fetch", "finish"} <=> t \in ToSet(queue)
    BY <1>0, <2>2 DEF QueueFits, Held
  <2>4. task[t].pc \in {"fetch", "finish"} => t = Head(queue)
    BY <1>0 DEF QueueFits, Holds
  <2> QED
    BY <2>1, <2>3, <2>4 DEF Task, Held, Sound
<1>5. /\ monitor \in [Products -> [own : {"owned", "excluded", "pending"}, enabled : BOOLEAN]]
      /\ reminded \subseteq BatchIds \X Cps
      /\ daily \in [1..setup.days -> {"none", "running", "success", "partial", "failed"}]
      /\ due \subseteq BatchIds \X Cps
      /\ proc \in {"up", "down"}
  BY <1>0 DEF WorldTyped, TasksFit, DueFits, Monitor, Own
<1> QED
  BY <1>1, <1>2, <1>3, <1>4, <1>5 DEF TypeOK, TrafficTypeOK

LEMMA ReadingsFollow ==
    ASSUME FullInv
    PROVE  ReadingsHold
<1>1. RowsTyped /\ Attempts /\ Counted
  BY DEF FullInv, TrafficInv, Promises
<1>2. \A b \in BatchIds : DOMAIN jobs[b] = JobsOf(b)
  BY <1>1 DEF RowsTyped
<1> QED
  BY <1>1, <1>2 DEF ReadingsHold, Attempts, Counted

LEMMA DecisionsFollow ==
    ASSUME FullInv
    PROVE  DecisionsHold
<1>0. RowsTyped /\ OnTime /\ Dated /\ clock \in Nat
  BY DEF FullInv, TrafficInv, Promises, WorldTyped
<1>1. Terminal \in Cps /\ Hours[Terminal] \in Nat /\ MaxDelay[Terminal] \in Nat
  <2>1. Hours \in Seq(Nat) /\ Hours # <<>> /\ MaxDelay \in [Cps -> Nat]
    BY TrafficAssumption
  <2>2. Len(Hours) \in 1..Len(Hours) /\ Hours[Len(Hours)] \in Nat
    BY <2>1
  <2> QED
    BY <2>1, <2>2 DEF Terminal, Cps
<1>2. ASSUME NEW b \in BatchIds, Eligible(b)
      PROVE  /\ \A k \in BatchIds \ {b} :
                   Items(b) \cap Items(k) # {} =>
                       \/ batches[k].started - batches[b].started >= Hours[Terminal]
                       \/ batches[b].started - batches[k].started >= Hours[Terminal]
             /\ \A p \in Items(b) :
                   LET at == values[b][Terminal][p].at IN
                   /\ at >= DueAt(b, Terminal) \/ jobs[b][Terminal].asked > 0
                   /\ Ended(b, Terminal) /\ restarts = 0 =>
                         at <= DueAt(b, Terminal) + MaxDelay[Terminal]
  <2>1. ASSUME NEW k \in BatchIds \ {b}, Items(b) \cap Items(k) # {}
        PROVE  \/ batches[k].started - batches[b].started >= Hours[Terminal]
               \/ batches[b].started - batches[k].started >= Hours[Terminal]
    <3>1. ~Meet(Items(b), batches[b].started, k)
      BY <1>2, <2>1 DEF Eligible, Overlapping
    <3>2. batches[b].started \in Nat /\ batches[k].started \in Nat
      BY <1>0 DEF RowsTyped
    <3> QED
      BY <1>1, <2>1, <3>1, <3>2 DEF Meet
  <2>2. ASSUME NEW p \in Items(b)
        PROVE  LET at == values[b][Terminal][p].at IN
               /\ at >= DueAt(b, Terminal) \/ jobs[b][Terminal].asked > 0
               /\ Ended(b, Terminal) /\ restarts = 0 =>
                     at <= DueAt(b, Terminal) + MaxDelay[Terminal]
    <3>1. Terminal \in JobsOf(b) /\ Has(b, Terminal, p) /\ ~CapturedLate(b, Terminal)
      BY <1>1, <1>2 DEF Eligible, JobsOf, Whole
    <3>2. values[b][Terminal][p].at >= DueAt(b, Terminal) \/ jobs[b][Terminal].asked > 0
      BY <1>0, <3>1 DEF OnTime
    <3>3. ASSUME Ended(b, Terminal), restarts = 0
          PROVE  values[b][Terminal][p].at <= DueAt(b, Terminal) + MaxDelay[Terminal]
      <4>1. jobs[b][Terminal].status = "completed" /\ ~Read(b, Terminal)
        BY <3>3 DEF Ended, Read
      <4>2. Covered(b, Terminal)
        BY <1>0, <3>1, <3>3, <4>1 DEF Dated
      <4> DEFINE at == values[b][Terminal][p].at
                 d == jobs[b][Terminal].delay
                 h == DueAt(b, Terminal)
                 m == MaxDelay[Terminal]
      <4>3. d \in Nat /\ at <= h + d
        BY <4>2 DEF Covered
      <4>4. d <= m
        BY <1>1, <3>1, <4>3 DEF CapturedLate, None
      <4>5. h \in Nat /\ m \in Nat
        BY <1>0, <1>1, DueIs
      <4>6. at \in Int
        <5>1. values[b][Terminal][p] \in Value(clock)
          BY <1>0, <1>1 DEF RowsTyped
        <5>2. at \in {None} \cup 0..clock
          BY <5>1 DEF Value
        <5> HIDE DEF at
        <5> QED
          BY <5>2 DEF None
      <4> HIDE DEF at, d, h, m
      <4>7. at <= h + m
        BY <4>3, <4>4, <4>5, <4>6
      <4> QED
        BY <4>7 DEF at, h, m
    <3> QED
      BY <3>2, <3>3
  <2> QED
    BY <2>1, <2>2
<1> QED
  BY <1>2 DEF DecisionsHold

\* Purchases, jobs, readings and tasks have their types; whoever reads holds the lock,
\* and whoever waits for it stands in its queue.
THEOREM TypesHold == Spec => []TypeOK
<1>1. Init => FullInv
  BY TrafficStarts
<1>2. FullInv /\ [Next]_vars => FullInv'
  BY TrafficStays
<1>3. FullInv => TypeOK
  BY TypesFollow DEF FullInv
<1> QED
  BY <1>1, <1>2, <1>3, PTL DEF Spec

\* Whatever purchases are asked for, repeated and interrupted: each is recorded once
\* and costs what it cost (record_traffic_batch_now, complete_traffic_batch).
THEOREM PurchasesAreOnce == Spec => []PaidOnce
<1>1. Init => FullInv
  BY TrafficStarts
<1>2. FullInv /\ [Next]_vars => FullInv'
  BY TrafficStays
<1>3. FullInv => PaidOnce
  BY DEF FullInv, Promises
<1> QED
  BY <1>1, <1>2, <1>3, PTL DEF Spec

\* A checkpoint is read once, and once more for every repetition; what is completed or
\* closed was counted for every listing (begin_automatic_job, mark_job_interrupted,
\* update_checkpoint_collection_mode, finalize_checkpoint_job).
THEOREM ReadingsAreKept == Spec => []ReadingsHold
<1>1. Init => FullInv
  BY TrafficStarts
<1>2. FullInv /\ [Next]_vars => FullInv'
  BY TrafficStays
<1>3. FullInv => ReadingsHold
  BY ReadingsFollow
<1> QED
  BY <1>1, <1>2, <1>3, PTL DEF Spec

\* The batches decisions rest on overlap with no other, and were counted at the end of
\* their window, no earlier and no later than allowed (_traffic_batch_view, classify,
\* finalize_checkpoint_job, record_checkpoint_in_session).
THEOREM DecisionsAreSound == Spec => []DecisionsHold
<1>1. Init => FullInv
  BY TrafficStarts
<1>2. FullInv /\ [Next]_vars => FullInv'
  BY TrafficStays
<1>3. FullInv => DecisionsHold
  BY DecisionsFollow
<1> QED
  BY <1>1, <1>2, <1>3, PTL DEF Spec

=============================================================================
