------------------------- MODULE RequirementsProofs -------------------------
(***************************************************************************)
(* Proofs about Requirements and RequirementMaterials, for every value of  *)
(* their constants: what a case gets its versions and sources from, that   *)
(* nothing writes twice, and when the file of a picture is there.          *)
(***************************************************************************)
EXTENDS ContextProofs, FunctionTheorems

-----------------------------------------------------------------------------
(* The inductive invariant.                                                *)

CaseRow == [customer : Customers, current : Nat, sources : SUBSET Conversations,
            lead : Conversations \cup {"none"}, project : BOOLEAN]

LeadRow == [status : {"none", "open", "won"}, customer : Someone]

PreviewRow == [conv : Conversations, customer : Customers, case : Nat, expected : Nat,
               open : BOOLEAN]

ProposalRow == [grant : Nat, customer : Customers, case : Nat, expected : Nat,
                images : SUBSET Images, expired : BOOLEAN, result : Nat]

TaskRow == [conv : Conversations, cancel : BOOLEAN, base : Nat,
            status : {"pending", "running", "completed", "failed", "cancelled"}]

\* Customers and the relations of conversations to them.
RelationsTyped ==
    /\ customers \subseteq Customers
    /\ lead \in [Conversations -> LeadRow]
    /\ owner \in [Conversations -> Someone]

\* The numbers of versions have a bound.
Numbered == \E n \in Nat : \A d \in docs : d.num <= n

CasesTyped ==
    /\ case \in Seq(CaseRow) /\ \A i \in Cases : case[i].customer \in customers
    /\ docs \subseteq Doc /\ Numbered

\* A proposal of a new case expects no version.
AskedTyped ==
    /\ preview \in Seq(PreviewRow)
    /\ \A k \in 1..Len(preview) :
          preview[k].customer \in customers /\ preview[k].case <= Len(case)
    /\ proposal \in Seq(ProposalRow)
    /\ \A p \in 1..Len(proposal) :
          /\ proposal[p].grant \in Granted /\ proposal[p].customer \in customers
          /\ proposal[p].case <= Len(case) /\ proposal[p].result <= Len(case)
          /\ proposal[p].case = 0 => proposal[p].expected = 0

TasksTyped ==
    /\ task \in Seq(TaskRow) /\ queue \in Seq(Tasks)
    /\ worker \in 0..Len(task) /\ up \in BOOLEAN

RowsTyped == RelationsTyped /\ CasesTyped /\ AskedTyped /\ TasksTyped

\* A case has each version up to its current one once.
VersionsFit ==
    /\ \A d \in docs : d.case <= Len(case) /\ (d.case # 0 => d.num \in 1..case[d.case].current)
    /\ \A i \in Cases : \A n \in 1..case[i].current : \E d \in docs : d.case = i /\ d.num = n
    /\ \A d, e \in docs : d.case = e.case /\ d.case # 0 /\ d.num = e.num => d = e

\* Where a conversation became a source of a case.
Imported(i, c) == \E d \in docs : d.case = i /\ d.conv = c
Proposed(i, c) ==
    \E p \in 1..Len(proposal) : proposal[p].result = i /\ c \in grant[proposal[p].grant].scope

SourcesFit ==
    \A i \in Cases : \A c \in Conversations :
        c \in case[i].sources <=> Imported(i, c) \/ Proposed(i, c)

\* What has written its version can write no other.
Settled(a) ==
    /\ a.kind = "import" => a.id \in 1..Len(preview) /\ ~preview[a.id].open
    /\ a.kind = "proposal" => a.id \in 1..Len(proposal) /\ proposal[a.id].result # 0
    /\ a.kind = "task" => a.id \in Tasks /\ task[a.id].status = "completed"

AuthorsFit ==
    /\ \A d, e \in docs : d.by = e.by /\ d.by.kind # "edit" => d = e
    /\ \A d \in docs : Settled(d.by)

InWork(t) == task[t].status \in {"pending", "running"}

TasksFit ==
    /\ \A t \in Tasks : task[t].status = "completed" =>
          ~task[t].cancel /\ \E d \in docs : d.by = [kind |-> "task", id |-> t]
    /\ \A t, u \in Tasks : InWork(t) /\ InWork(u) /\ task[t].conv = task[u].conv => t = u
    /\ worker # 0 => up /\ task[worker].status = "running"

ReqInv == RowsTyped /\ VersionsFit /\ SourcesFit /\ AuthorsFit /\ TasksFit

LEMMA ReqInit0 == Init => ReqInv
<1> SUFFICES ASSUME Init PROVE ReqInv
  OBVIOUS
<1>1. ReqInit /\ AccessInit
  BY DEF Init, CaseInit, SyncInit
<1>2. /\ customers = {Home} /\ case = <<>> /\ docs = {} /\ preview = <<>> /\ proposal = <<>>
      /\ task = <<>> /\ queue = <<>> /\ worker = 0 /\ up = TRUE
  BY <1>1 DEF ReqInit
<1>3. Cases = {} /\ Tasks = {} /\ Len(preview) = 0 /\ Len(proposal) = 0
      /\ 1..Len(preview) = {} /\ 1..Len(proposal) = {} /\ Len(task) = 0
  BY <1>2 DEF Cases, Tasks
<1>4. RelationsTyped
  <2>1. [status |-> "none", customer |-> "none"] \in LeadRow
    BY DEF LeadRow, Someone
  <2>2. lead \in [Conversations -> LeadRow]
    BY <1>1, <2>1 DEF ReqInit
  <2>3. owner \in [Conversations -> Someone]
    BY <1>1, AccessAssumption DEF AccessInit, Someone
  <2> QED
    BY <1>2, <2>2, <2>3, AccessAssumption DEF RelationsTyped
<1>5. CasesTyped
  BY <1>2, <1>3 DEF CasesTyped, Numbered
<1>6. AskedTyped
  BY <1>2, <1>3 DEF AskedTyped
<1>7. TasksTyped
  BY <1>2, <1>3 DEF TasksTyped
<1>8. VersionsFit /\ SourcesFit /\ AuthorsFit /\ TasksFit
  BY <1>2, <1>3 DEF VersionsFit, SourcesFit, AuthorsFit, TasksFit
<1> QED
  BY <1>4, <1>5, <1>6, <1>7, <1>8 DEF ReqInv, RowsTyped

-----------------------------------------------------------------------------
(* Sequences of rows.                                                      *)

LEMMA RowPut ==
    ASSUME NEW S, NEW s \in Seq(S), NEW i \in 1..Len(s), NEW e \in S, NEW t,
           t = [s EXCEPT ![i] = e]
    PROVE  /\ t \in Seq(S) /\ Len(t) = Len(s) /\ t[i] = e
           /\ \A k \in 1..Len(s) : k # i => t[k] = s[k]
<1>1. Len(s) \in Nat /\ s = [k \in 1..Len(s) |-> s[k]] /\ \A k \in 1..Len(s) : s[k] \in S
  OBVIOUS
<1>2. t = [k \in 1..Len(s) |-> IF k = i THEN e ELSE s[k]]
  BY <1>1
<1>3. t \in Seq(S) /\ Len(t) = Len(s)
  BY <1>1, <1>2
<1> QED
  BY <1>2, <1>3

LEMMA RowsMapped ==
    ASSUME NEW S, NEW s \in Seq(S), NEW t, DOMAIN t = 1..Len(s),
           t = [k \in 1..Len(s) |-> t[k]], \A k \in 1..Len(s) : t[k] \in S
    PROVE  t \in Seq(S) /\ Len(t) = Len(s)
<1>1. Len(s) \in Nat
  OBVIOUS
<1> QED
  BY <1>1

LEMMA RowAdded ==
    ASSUME NEW S, NEW s \in Seq(S), NEW e \in S, NEW t, t = Append(s, e)
    PROVE  /\ t \in Seq(S) /\ Len(t) = Len(s) + 1 /\ t[Len(s) + 1] = e
           /\ Len(s) \in Nat /\ \A k \in 1..Len(s) : t[k] = s[k]
OBVIOUS

LEMMA CaseTypes ==
    ASSUME CasesTyped
    PROVE  /\ Len(case) \in Nat /\ Cases = 1..Len(case)
           /\ \A i \in Cases :
                 /\ case[i] \in CaseRow /\ case[i].customer \in customers
                 /\ case[i].current \in Nat /\ case[i].sources \subseteq Conversations
                 /\ case[i].lead \in Conversations \cup {"none"}
           /\ \A d \in docs : d.case \in Nat /\ d.num \in Nat /\ d.by \in Author
                            /\ d.conv \in Conversations \cup {"none"}
<1>1. Len(case) \in Nat /\ Cases = 1..Len(case) /\ \A i \in Cases : case[i] \in CaseRow
  BY DEF CasesTyped, Cases
<1>2. \A i \in Cases :
         /\ case[i].current \in Nat /\ case[i].sources \subseteq Conversations
         /\ case[i].lead \in Conversations \cup {"none"}
  BY <1>1 DEF CaseRow
<1>3. \A d \in docs : d.case \in Nat /\ d.num \in Nat /\ d.by \in Author
                     /\ d.conv \in Conversations \cup {"none"}
  BY DEF CasesTyped, Doc
<1> QED
  BY <1>1, <1>2, <1>3 DEF CasesTyped

LEMMA AskedTypes ==
    ASSUME AskedTyped
    PROVE  /\ Len(preview) \in Nat /\ Len(proposal) \in Nat
           /\ \A k \in 1..Len(preview) :
                 /\ preview[k] \in PreviewRow /\ preview[k].conv \in Conversations
                 /\ preview[k].customer \in customers
                 /\ preview[k].case \in Nat /\ preview[k].case <= Len(case)
           /\ \A p \in 1..Len(proposal) :
                 /\ proposal[p] \in ProposalRow /\ proposal[p].grant \in Granted
                 /\ proposal[p].customer \in customers /\ proposal[p].expected \in Nat
                 /\ proposal[p].case \in Nat /\ proposal[p].case <= Len(case)
                 /\ proposal[p].result \in Nat /\ proposal[p].result <= Len(case)
                 /\ proposal[p].case = 0 => proposal[p].expected = 0
<1>1. /\ Len(preview) \in Nat /\ Len(proposal) \in Nat
      /\ \A k \in 1..Len(preview) : preview[k] \in PreviewRow
      /\ \A p \in 1..Len(proposal) : proposal[p] \in ProposalRow
  BY DEF AskedTyped
<1>2. \A k \in 1..Len(preview) : preview[k].conv \in Conversations /\ preview[k].case \in Nat
  BY <1>1 DEF PreviewRow
<1>3. \A p \in 1..Len(proposal) :
         /\ proposal[p].expected \in Nat /\ proposal[p].case \in Nat
         /\ proposal[p].result \in Nat
  BY <1>1 DEF ProposalRow
<1> QED
  BY <1>1, <1>2, <1>3 DEF AskedTyped

LEMMA TaskTypes ==
    ASSUME TasksTyped
    PROVE  /\ Len(task) \in Nat /\ Tasks = 1..Len(task) /\ DOMAIN task = Tasks
           /\ \A t \in Tasks :
                 /\ task[t] \in TaskRow /\ task[t].conv \in Conversations
                 /\ task[t].cancel \in BOOLEAN
           /\ worker # 0 => worker \in Tasks
<1>1. /\ Len(task) \in Nat /\ Tasks = 1..Len(task) /\ DOMAIN task = Tasks
      /\ \A t \in Tasks : task[t] \in TaskRow
  BY DEF TasksTyped, Tasks
<1>2. \A t \in Tasks : task[t].conv \in Conversations /\ task[t].cancel \in BOOLEAN
  BY <1>1 DEF TaskRow
<1> QED
  BY <1>1, <1>2 DEF TasksTyped

-----------------------------------------------------------------------------
(* What a step may do to the rows.                                         *)

\* Customers are not forgotten, and relations name those that exist or will.
RelationsGrow ==
    /\ customers \subseteq customers'
    /\ RelationsTyped'

\* A grant keeps what it was given for.
GrantsStand ==
    \A g \in Granted : g \in Granted' /\ grant'[g].scope = grant[g].scope

\* Cases keep their versions and sources, proposals their results.
RecordsStand ==
    /\ docs' = docs /\ Len(case') = Len(case)
    /\ \A i \in Cases : case'[i].current = case[i].current /\ case'[i].sources = case[i].sources

ResultsStand ==
    /\ \A p \in 1..Len(proposal) :
          /\ p \in 1..Len(proposal') /\ proposal'[p].result = proposal[p].result
          /\ proposal'[p].grant = proposal[p].grant
    /\ \A p \in 1..Len(proposal') : p \notin 1..Len(proposal) => proposal'[p].result = 0

\* What is settled stays settled.
SettledStands == \A a : Settled(a) => Settled(a)'

LEMMA RecordsKept ==
    ASSUME ReqInv, RecordsStand, ResultsStand, GrantsStand
    PROVE  VersionsFit' /\ SourcesFit'
<1>1. Cases' = Cases
  BY DEF RecordsStand, Cases
<1>2. VersionsFit'
  <2>1. \A d \in docs : d.case <= Len(case) /\ (d.case # 0 => d.case \in Cases)
    BY DEF ReqInv, VersionsFit, RowsTyped, CasesTyped, Doc, Cases
  <2> QED
    BY <1>1, <2>1 DEF ReqInv, VersionsFit, RecordsStand
<1>3. ASSUME NEW i \in Cases, NEW c \in Conversations
      PROVE  (Imported(i, c)' <=> Imported(i, c)) /\ (Proposed(i, c)' <=> Proposed(i, c))
  <2>1. Imported(i, c)' <=> Imported(i, c)
    BY DEF Imported, RecordsStand
  <2>2. i # 0
    BY DEF Cases
  <2>3. \A p \in 1..Len(proposal) :
            grant'[proposal[p].grant].scope = grant[proposal[p].grant].scope
    BY DEF ReqInv, RowsTyped, AskedTyped, GrantsStand
  <2>4. Proposed(i, c) => Proposed(i, c)'
    BY <2>3 DEF Proposed, ResultsStand
  <2>5. Proposed(i, c)' => Proposed(i, c)
    BY <2>2, <2>3 DEF Proposed, ResultsStand
  <2> QED
    BY <2>1, <2>4, <2>5
<1>4. SourcesFit'
  BY <1>1, <1>3 DEF ReqInv, SourcesFit, RecordsStand
<1> QED
  BY <1>2, <1>4

LEMMA AuthorsKept ==
    ASSUME ReqInv, docs' = docs, SettledStands
    PROVE  AuthorsFit'
BY DEF ReqInv, AuthorsFit, SettledStands

LEMMA TasksKept ==
    ASSUME ReqInv, docs \subseteq docs', UNCHANGED <<task, worker, up>>
    PROVE  TasksFit'
BY DEF ReqInv, TasksFit, Tasks, InWork

-----------------------------------------------------------------------------
(* A version is written.                                                   *)

Place(i) == IF i = 0 THEN Len(case) + 1 ELSE i

Version(i, base, conv, by) == [conv |-> conv, case |-> Place(i), num |-> base + 1, by |-> by]

\* What Write does to the rows.
Writes(i, u, base, conv, by, more) ==
    /\ docs' = docs \cup {Version(i, base, conv, by)}
    /\ \A e \in docs : e.case = Place(i) => e.num # base + 1
    /\ case' \in Seq(CaseRow)
    /\ Len(case') = IF i = 0 THEN Len(case) + 1 ELSE Len(case)
    /\ case'[Place(i)].current = base + 1
    /\ case'[Place(i)].sources = (IF i = 0 THEN {} ELSE case[i].sources) \cup more
    /\ case'[Place(i)].customer = IF i = 0 THEN u ELSE case[i].customer
    /\ \A k \in Cases \ {i} : case'[k] = case[k]

LEMMA PlaceIs ==
    ASSUME CasesTyped, NEW i \in 0..Len(case)
    PROVE  /\ Len(case) \in Nat /\ Place(i) \in Nat /\ Place(i) # 0
           /\ i = 0 => Place(i) = Len(case) + 1
           /\ i # 0 => Place(i) = i /\ i \in Cases
BY DEF CasesTyped, Place, Cases

LEMMA NewCaseRow ==
    ASSUME NEW u \in Customers
    PROVE  NewCase(u) \in CaseRow /\ NewCase(u).customer = u /\ NewCase(u).sources = {}
BY DEF NewCase, CaseRow

\* The row of a case with its next version.
Renewed(row, n, more, l) ==
    [row EXCEPT !.current = n, !.sources = row.sources \cup more,
                !.lead = IF l = "none" THEN row.lead ELSE l]

Renews(new, row, n, more) ==
    /\ new \in CaseRow /\ new.current = n /\ new.sources = row.sources \cup more
    /\ new.customer = row.customer

LEMMA VersionRow ==
    ASSUME NEW row \in CaseRow, NEW n \in Nat, NEW more \in SUBSET Conversations,
           NEW l \in Conversations \cup {"none"}
    PROVE  Renews(Renewed(row, n, more, l), row, n, more)
BY DEF CaseRow, Renewed, Renews

RowsRenewed(new, rows, j, n, more, l) ==
    new = [rows EXCEPT ![j].current = n, ![j].sources = rows[j].sources \cup more,
                       ![j].lead = IF l = "none" THEN rows[j].lead ELSE l]

LEMMA RenewedRow ==
    ASSUME NEW rows \in Seq(CaseRow), NEW j \in 1..Len(rows), NEW n, NEW more, NEW l, NEW new,
           RowsRenewed(new, rows, j, n, more, l)
    PROVE  new = [rows EXCEPT ![j] = Renewed(rows[j], n, more, l)]
<1>1. rows = [k \in 1..Len(rows) |-> rows[k]]
  OBVIOUS
<1> QED
  BY <1>1 DEF Renewed, RowsRenewed

LEMMA WriteWrites ==
    ASSUME RelationsTyped, CasesTyped, NEW i \in 0..Len(case), NEW u \in Customers,
           NEW base \in Nat, NEW conv, NEW by, NEW more \in SUBSET Conversations,
           NEW l \in Conversations \cup {"none"}, Write(i, u, base, conv, by, more, l)
    PROVE  Writes(i, u, base, conv, by, more)
<1> DEFINE rows == IF i = 0 THEN Append(case, NewCase(u)) ELSE case
           j == Place(i)
<1>1. case \in Seq(CaseRow) /\ NewCase(u) \in CaseRow
  BY NewCaseRow DEF CasesTyped
<1>2. /\ rows \in Seq(CaseRow) /\ Len(rows) = IF i = 0 THEN Len(case) + 1 ELSE Len(case)
      /\ \A k \in Cases : rows[k] = case[k]
      /\ i = 0 => rows[j] = NewCase(u)
      /\ j \in 1..Len(rows) /\ (i # 0 => j = i)
      /\ j = IF i = 0 THEN Len(rows) ELSE i
  <2>1. CASE i = 0
    BY <1>1, <2>1, PlaceIs, RowAdded DEF Cases
  <2>2. CASE i # 0
    BY <1>1, <2>2, PlaceIs DEF Cases
  <2> QED
    BY <2>1, <2>2
<1>3. /\ docs' = docs \cup {Version(i, base, conv, by)}
      /\ \A e \in docs : e.case = Place(i) => e.num # base + 1
      /\ RowsRenewed(case', rows, j, base + 1, more, l)
  <2>1. Place(i) # 0
    BY PlaceIs
  <2> QED
    BY <1>2, <2>1 DEF Write, Version, Free, RowsRenewed
<1> DEFINE new == Renewed(rows[j], base + 1, more, l)
<1> HIDE DEF rows, j
<1>4. rows[j] \in CaseRow /\ base + 1 \in Nat
  BY <1>2
<1>5. case' = [rows EXCEPT ![j] = new]
  BY <1>2, <1>3, RenewedRow
<1>6. Renews(new, rows[j], base + 1, more)
  BY <1>4, VersionRow
<1> HIDE DEF new
<1>7. /\ case' \in Seq(CaseRow) /\ Len(case') = Len(rows) /\ case'[j] = new
      /\ \A k \in 1..Len(rows) : k # j => case'[k] = rows[k]
  BY <1>2, <1>5, <1>6, RowPut DEF Renews
<1>8. rows[j].sources = (IF i = 0 THEN {} ELSE case[i].sources)
      /\ rows[j].customer = IF i = 0 THEN u ELSE case[i].customer
  BY <1>2, NewCaseRow, PlaceIs
<1>9. \A k \in Cases \ {i} : k \in 1..Len(rows) /\ k # j
  BY <1>2, PlaceIs DEF Cases, j
<1> QED
  BY <1>2, <1>3, <1>6, <1>7, <1>8, <1>9 DEF Writes, Renews, j

LEMMA OneMoreDoc ==
    ASSUME CasesTyped, NEW d \in Doc, docs' = docs \cup {d}
    PROVE  Numbered'
<1>1. PICK n \in Nat : \A e \in docs : e.num <= n
  BY DEF CasesTyped, Numbered
<1>2. d.num \in Nat /\ \A e \in docs : e.num \in Nat
  BY CaseTypes DEF Doc
<1>3. \A e \in docs' : e.num <= n + d.num
  BY <1>1, <1>2
<1>4. n + d.num \in Nat
  BY <1>2
<1> QED
  BY <1>3, <1>4 DEF Numbered

LEMMA WritesCases ==
    ASSUME RelationsTyped, CasesTyped, customers \subseteq customers', NEW i \in 0..Len(case),
           NEW u \in customers, NEW base \in Nat, NEW conv \in Conversations \cup {"none"},
           NEW by \in Author, NEW more, Writes(i, u, base, conv, by, more)
    PROVE  CasesTyped' /\ Len(case) <= Len(case')
<1>1. /\ Len(case) \in Nat /\ Len(case') = IF i = 0 THEN Len(case) + 1 ELSE Len(case)
      /\ \A k \in Cases \ {i} : case'[k] = case[k]
      /\ case'[Place(i)].customer \in customers
  BY PlaceIs DEF Writes, CasesTyped
<1>2. \A k \in Cases' : case'[k].customer \in customers'
  <2>1. ASSUME NEW k \in Cases', k # Place(i) PROVE k \in Cases \ {i}
    BY <1>1, <2>1, PlaceIs DEF Cases
  <2>2. \A k \in Cases : case[k].customer \in customers
    BY DEF CasesTyped
  <2> QED
    BY <1>1, <2>1, <2>2
<1>3. Version(i, base, conv, by) \in Doc
  <2>1. Place(i) \in Nat /\ base + 1 \in Nat
    BY PlaceIs
  <2> QED
    BY <2>1 DEF Version, Doc
<1>4. docs' \subseteq Doc /\ Numbered'
  BY <1>3, OneMoreDoc DEF Writes, CasesTyped
<1> QED
  BY <1>1, <1>2, <1>4 DEF CasesTyped, Writes

LEMMA WritesVersions ==
    ASSUME ReqInv, NEW i \in 0..Len(case), NEW u, NEW base, base = CurrentOf(i), NEW conv, NEW by,
           NEW more, Writes(i, u, base, conv, by, more)
    PROVE  VersionsFit'
<1> DEFINE j == Place(i)
           d == Version(i, base, conv, by)
<1>1. /\ CasesTyped /\ VersionsFit
      /\ Len(case) \in Nat /\ j \in Nat /\ j # 0
      /\ (i = 0 => j = Len(case) + 1) /\ (i # 0 => j = i /\ i \in Cases)
  BY PlaceIs DEF ReqInv, RowsTyped
<1>2. /\ docs' = docs \cup {d} /\ d.case = j /\ d.num = base + 1
      /\ Len(case') = (IF i = 0 THEN Len(case) + 1 ELSE Len(case))
      /\ case'[j].current = base + 1
      /\ \A k \in Cases \ {i} : case'[k] = case[k]
  BY DEF Writes, Version
<1>3. base \in Nat /\ (i = 0 => base = 0) /\ (i # 0 => base = case[i].current)
  BY <1>1, CaseTypes DEF CurrentOf
<1>4. \A e \in docs : e.case \in Nat /\ e.num \in Nat /\ e.case <= Len(case)
  BY <1>1 DEF CasesTyped, Doc, VersionsFit
<1>5. \A e \in docs : e.case = j => i # 0 /\ e.num \in 1..base
  BY <1>1, <1>3, <1>4 DEF VersionsFit
<1> HIDE DEF j, d
<1>6. \A e \in docs' : e.case <= Len(case') /\ (e.case # 0 => e.num \in 1..case'[e.case].current)
  <2>1. ASSUME NEW e \in docs, e.case # 0, e.case # j
        PROVE  e.case \in Cases \ {i}
    BY <1>1, <1>4, <2>1 DEF Cases
  <2>2. \A e \in docs : e.case # 0 => e.num \in 1..case'[e.case].current
    <3>1. ASSUME NEW e \in docs, e.case # 0, e.case # j
          PROVE  e.num \in 1..case'[e.case].current
      BY <1>1, <1>2, <2>1, <3>1 DEF VersionsFit
    <3>2. ASSUME NEW e \in docs, e.case = j
          PROVE  e.num \in 1..case'[e.case].current
      BY <1>2, <1>3, <1>5, <3>2
    <3> QED
      BY <3>1, <3>2
  <2>3. d.num \in 1..case'[d.case].current /\ d.case <= Len(case')
    BY <1>1, <1>2, <1>3 DEF Cases
  <2>4. \A e \in docs : e.case <= Len(case')
    BY <1>1, <1>2, <1>4
  <2> QED
    BY <1>2, <2>2, <2>3, <2>4
<1>7. ASSUME NEW k \in Cases', NEW n \in 1..case'[k].current
      PROVE  \E e \in docs' : e.case = k /\ e.num = n
  <2>1. CASE k # j
    <3>1. k \in Cases \ {i}
      BY <1>1, <1>2, <2>1 DEF Cases
    <3> QED
      BY <1>1, <1>2, <3>1 DEF VersionsFit
  <2>2. CASE k = j /\ n = base + 1
    BY <1>2, <2>2
  <2>3. CASE k = j /\ n # base + 1
    <3>1. n \in 1..base
      BY <1>2, <1>3, <2>3
    <3>2. i # 0 /\ i \in Cases /\ k = i /\ n \in 1..case[i].current
      BY <1>1, <1>3, <2>3, <3>1
    <3> QED
      BY <1>1, <1>2, <3>2 DEF VersionsFit
  <2> QED
    BY <2>1, <2>2, <2>3
<1>8. ASSUME NEW e \in docs', NEW f \in docs', e.case = f.case, e.case # 0, e.num = f.num
      PROVE  e = f
  <2>1. \A x \in docs : x.case = j => x.num # base + 1
    BY <1>3, <1>5
  <2>2. CASE e \in docs /\ f \in docs
    BY <1>1, <1>8, <2>2 DEF VersionsFit
  <2>3. CASE e = d \/ f = d
    BY <1>2, <1>8, <2>1, <2>3
  <2> QED
    BY <1>2, <2>2, <2>3
<1> QED
  BY <1>6, <1>7, <1>8 DEF VersionsFit

\* A version comes from a conversation, or over a proposal from those it was given:
\* they are the sources the case gets.
LEMMA WritesSources ==
    ASSUME ReqInv, NEW i \in 0..Len(case), NEW u, NEW base, NEW conv, NEW by, NEW more,
           Writes(i, u, base, conv, by, more), NEW given,
           \A k \in Nat \ {0} : \A c \in Conversations :
               Proposed(k, c)' <=> Proposed(k, c) \/ (k = Place(i) /\ c \in given),
           \A c \in Conversations :
               /\ c \in more => c = conv \/ c \in given
               /\ c = conv \/ c \in given => c \in more \/ (i # 0 /\ Imported(i, c))
    PROVE  SourcesFit'
<1> DEFINE j == Place(i)
           d == Version(i, base, conv, by)
<1>1. /\ CasesTyped /\ VersionsFit /\ SourcesFit /\ AskedTyped
      /\ Len(case) \in Nat /\ j \in Nat /\ j # 0
      /\ (i = 0 => j = Len(case) + 1) /\ (i # 0 => j = i /\ i \in Cases)
  BY PlaceIs DEF ReqInv, RowsTyped
<1>2. /\ docs' = docs \cup {d} /\ d.case = j /\ d.conv = conv
      /\ Len(case') = (IF i = 0 THEN Len(case) + 1 ELSE Len(case))
      /\ case'[j].sources = (IF i = 0 THEN {} ELSE case[i].sources) \cup more
      /\ \A k \in Cases \ {i} : case'[k] = case[k]
  BY DEF Writes, Version
<1>3. \A k, c : Imported(k, c)' <=> Imported(k, c) \/ (k = j /\ c = conv)
  BY <1>2 DEF Imported
<1>4. i = 0 => \A c : ~Imported(j, c) /\ ~Proposed(j, c)
  <2>1. \A e \in docs : e.case <= Len(case) /\ e.case \in Nat
    BY <1>1, CaseTypes DEF VersionsFit
  <2>2. \A p \in 1..Len(proposal) : proposal[p].result <= Len(case) /\ proposal[p].result \in Nat
    BY <1>1, AskedTypes
  <2>3. i = 0 => (\A e \in docs : e.case # j) /\ (\A p \in 1..Len(proposal) : proposal[p].result # j)
    BY <1>1, <2>1, <2>2
  <2> QED
    BY <2>3 DEF Imported, Proposed
<1>5. \A k \in Nat \ {0} : \A c \in Conversations :
          Proposed(k, c)' <=> Proposed(k, c) \/ (k = j /\ c \in given)
  OBVIOUS
<1> HIDE DEF j, d
<1>6. ASSUME NEW k \in Cases', NEW c \in Conversations
      PROVE  c \in case'[k].sources <=> Imported(k, c)' \/ Proposed(k, c)'
  <2>1. k \in Nat \ {0}
    BY DEF Cases
  <2>2. /\ Imported(k, c)' <=> Imported(k, c) \/ (k = j /\ c = conv)
        /\ Proposed(k, c)' <=> Proposed(k, c) \/ (k = j /\ c \in given)
    BY <1>3, <1>5, <2>1
  <2>3. CASE k # j
    <3>1. k \in Cases \ {i}
      BY <1>1, <1>2, <2>3 DEF Cases
    <3> QED
      BY <1>1, <1>2, <2>2, <2>3, <3>1 DEF SourcesFit
  <2>4. CASE k = j /\ i = 0
    <3>1. c \in case'[k].sources <=> c \in more
      BY <1>2, <2>4
    <3> QED
      BY <1>4, <2>2, <2>4, <3>1
  <2>5. CASE k = j /\ i # 0
    <3>1. c \in case[i].sources <=> Imported(i, c) \/ Proposed(i, c)
      BY <1>1, <2>5 DEF SourcesFit
    <3>2. c \in case'[k].sources <=> c \in case[i].sources \/ c \in more
      BY <1>2, <2>5
    <3> QED
      BY <1>1, <2>2, <2>5, <3>1, <3>2
  <2> QED
    BY <2>3, <2>4, <2>5
<1> QED
  BY <1>6 DEF SourcesFit

LEMMA ProposedKept ==
    ASSUME ReqInv, GrantsStand, ResultsStand
    PROVE  \A k \in Nat \ {0} : \A c \in Conversations : Proposed(k, c)' <=> Proposed(k, c)
<1>1. \A p \in 1..Len(proposal) :
          grant'[proposal[p].grant].scope = grant[proposal[p].grant].scope
  BY AskedTypes DEF GrantsStand, ReqInv, RowsTyped
<1>2. ASSUME NEW k \in Nat \ {0}, NEW c \in Conversations
      PROVE  (Proposed(k, c) => Proposed(k, c)') /\ (Proposed(k, c)' => Proposed(k, c))
  <2>1. Proposed(k, c) => Proposed(k, c)'
    BY <1>1 DEF Proposed, ResultsStand
  <2>2. Proposed(k, c)' => Proposed(k, c)
    BY <1>1 DEF Proposed, ResultsStand
  <2> QED
    BY <2>1, <2>2
<1> QED
  BY <1>2

LEMMA ProposedMore ==
    ASSUME ReqInv, GrantsStand, NEW i \in 0..Len(case), NEW p \in 1..Len(proposal),
           proposal[p].result = 0, proposal' = [proposal EXCEPT ![p].result = Place(i)]
    PROVE  \A k \in Nat \ {0} : \A c \in Conversations :
               Proposed(k, c)' <=>
                   Proposed(k, c) \/ (k = Place(i) /\ c \in grant[proposal[p].grant].scope)
<1>1. \A q \in 1..Len(proposal) :
          /\ proposal[q] \in ProposalRow
          /\ grant'[proposal[q].grant].scope = grant[proposal[q].grant].scope
  BY AskedTypes DEF GrantsStand, ReqInv, RowsTyped
<1>2. proposal \in Seq(ProposalRow)
  BY DEF ReqInv, RowsTyped, AskedTyped
<1>3. /\ Len(proposal') = Len(proposal)
      /\ proposal'[p] = [proposal[p] EXCEPT !.result = Place(i)]
      /\ \A q \in 1..Len(proposal) : q # p => proposal'[q] = proposal[q]
  BY <1>2
<1>4. proposal'[p].result = Place(i) /\ proposal'[p].grant = proposal[p].grant
  BY <1>1, <1>3 DEF ProposalRow
<1>5. ASSUME NEW k \in Nat \ {0}, NEW c \in Conversations
      PROVE  Proposed(k, c)' <=>
                 Proposed(k, c) \/ (k = Place(i) /\ c \in grant[proposal[p].grant].scope)
  <2>1. Proposed(k, c) => \E q \in 1..Len(proposal) :
            q # p /\ proposal[q].result = k /\ c \in grant[proposal[q].grant].scope
    BY DEF Proposed
  <2>2. Proposed(k, c)' <=> \E q \in 1..Len(proposal) :
            proposal'[q].result = k /\ c \in grant'[proposal'[q].grant].scope
    BY <1>3 DEF Proposed
  <2>3. \A q \in 1..Len(proposal) : q # p =>
            (proposal'[q].result = k /\ c \in grant'[proposal'[q].grant].scope
               <=> proposal[q].result = k /\ c \in grant[proposal[q].grant].scope)
    BY <1>1, <1>3
  <2>4. proposal'[p].result = k /\ c \in grant'[proposal'[p].grant].scope
            <=> k = Place(i) /\ c \in grant[proposal[p].grant].scope
    BY <1>1, <1>4
  <2>5. \A q \in 1..Len(proposal) :
            proposal[q].result = k /\ c \in grant[proposal[q].grant].scope => Proposed(k, c)
    BY DEF Proposed
  <2> QED
    BY <2>1, <2>2, <2>3, <2>4, <2>5
<1> QED
  BY <1>5

-----------------------------------------------------------------------------
(* Who wrote a version.                                                    *)

LEMMA AuthorsMore ==
    ASSUME ReqInv, NEW d, docs' = docs \cup {d}, SettledStands,
           d.by.kind = "edit" \/ ~Settled(d.by), Settled(d.by)'
    PROVE  AuthorsFit'
<1>1. \A e \in docs : e.by = d.by => d.by.kind = "edit"
  BY DEF ReqInv, AuthorsFit
<1>2. \A e \in docs' : Settled(e.by)'
  BY DEF ReqInv, AuthorsFit, SettledStands
<1>3. ASSUME NEW e \in docs', NEW f \in docs', e.by = f.by, e.by.kind # "edit"
      PROVE  e = f
  <2>1. CASE e \in docs /\ f \in docs
    BY <1>3, <2>1 DEF ReqInv, AuthorsFit
  <2>2. CASE e = d \/ f = d
    BY <1>1, <1>3, <2>2
  <2> QED
    BY <2>1, <2>2
<1> QED
  BY <1>2, <1>3 DEF AuthorsFit

-----------------------------------------------------------------------------
(* What a step leaves alone.                                               *)

LEMMA AskedSame ==
    ASSUME AskedTyped, GrantsStand, customers \subseteq customers', Len(case) \in Nat,
           Len(case') \in Nat, Len(case) <= Len(case'), UNCHANGED <<preview, proposal>>
    PROVE  AskedTyped'
<1>1. \A k \in 1..Len(preview) : preview[k].customer \in customers' /\ preview[k].case <= Len(case')
  BY AskedTypes
<1>2. \A p \in 1..Len(proposal) :
         /\ proposal[p].grant \in Granted' /\ proposal[p].customer \in customers'
         /\ proposal[p].case <= Len(case') /\ proposal[p].result <= Len(case')
         /\ proposal[p].case = 0 => proposal[p].expected = 0
  BY AskedTypes DEF GrantsStand
<1> QED
  BY <1>1, <1>2 DEF AskedTyped

LEMMA CasesSame ==
    ASSUME CasesTyped, customers \subseteq customers', UNCHANGED records
    PROVE  CasesTyped' /\ RecordsStand
BY DEF CasesTyped, Cases, records, RecordsStand, Numbered

LEMMA TasksSame ==
    ASSUME ReqInv, UNCHANGED analysis, docs \subseteq docs'
    PROVE  TasksTyped' /\ TasksFit'
BY TasksKept DEF ReqInv, RowsTyped, TasksTyped, Tasks, analysis

LEMMA PartsKept ==
    ASSUME RelationsGrow, CasesTyped', AskedTyped', TasksTyped',
           VersionsFit', SourcesFit', AuthorsFit', TasksFit'
    PROVE  ReqInv'
BY DEF ReqInv, RowsTyped, RelationsGrow

LEMMA ProposalsSame ==
    ASSUME proposal' = proposal
    PROVE  ResultsStand
BY DEF ResultsStand

LEMMA NothingAsked ==
    ASSUME UNCHANGED <<preview, proposal, task>>
    PROVE  SettledStands
BY DEF SettledStands, Settled, Tasks

\* The analyses go on and nothing else.
LEMMA BesideTasks ==
    ASSUME ReqInv, RelationsGrow, GrantsStand, UNCHANGED <<records, preview, proposal>>,
           TasksTyped', TasksFit',
           \A t \in Tasks : t \in Tasks' /\ (task[t].status = "completed" => task'[t].status = "completed")
    PROVE  ReqInv'
<1>1. /\ CasesTyped /\ AskedTyped /\ customers \subseteq customers'
      /\ UNCHANGED <<case, docs, preview, proposal>>
  BY DEF ReqInv, RowsTyped, RelationsGrow, records
<1>2. CasesTyped' /\ RecordsStand
  BY <1>1, CasesSame
<1>3. AskedTyped'
  BY <1>1, AskedSame, CaseTypes
<1>4. VersionsFit' /\ SourcesFit'
  BY <1>1, <1>2, ProposalsSame, RecordsKept
<1>5. AuthorsFit'
  <2>1. SettledStands
    BY <1>1 DEF SettledStands, Settled
  <2> QED
    BY <1>1, <2>1, AuthorsKept
<1> QED
  BY <1>2, <1>3, <1>4, <1>5, PartsKept

LEMMA RestKeepsReq ==
    ASSUME ReqInv, RelationsGrow, GrantsStand, UNCHANGED <<records, preview, proposal, analysis>>
    PROVE  ReqInv'
<1>1. TasksTyped' /\ TasksFit'
  BY TasksSame DEF records
<1>2. \A t \in Tasks : t \in Tasks' /\ (task[t].status = "completed" => task'[t].status = "completed")
  BY DEF analysis, Tasks
<1> QED
  BY <1>1, <1>2, BesideTasks

-----------------------------------------------------------------------------
(* Imports and edits.                                                      *)

\* The case and the analyses do not change; previews and proposals may.
LEMMA BesideCases ==
    ASSUME ReqInv, RelationsGrow, GrantsStand, UNCHANGED <<records, analysis>>,
           AskedTyped', ResultsStand, SettledStands
    PROVE  ReqInv'
<1>1. CasesTyped /\ customers \subseteq customers'
  BY DEF ReqInv, RowsTyped, RelationsGrow
<1>2. CasesTyped' /\ RecordsStand
  BY <1>1, CasesSame
<1>3. docs' = docs
  BY DEF records
<1> QED
  BY <1>2, <1>3, TasksSame, RecordsKept, AuthorsKept, PartsKept

LEMMA PreviewKeeps ==
    ASSUME ReqInv, RelationsGrow, GrantsStand,
           NEW c \in Conversations, NEW u \in Customers, NEW i \in 0..Len(case),
           PreviewImport(c, u, i)
    PROVE  ReqInv'
<1> DEFINE row == [conv |-> c, customer |-> u, case |-> i, expected |-> CurrentOf(i),
                   open |-> TRUE]
<1>1. /\ AskedTyped /\ CasesTyped /\ customers \subseteq customers' /\ u \in customers
      /\ preview' = Append(preview, row) /\ UNCHANGED <<records, analysis, proposal>>
  BY DEF PreviewImport, ReqInv, RowsTyped, RelationsGrow
<1>2. row \in PreviewRow
  <2>1. CurrentOf(i) \in Nat /\ i \in Nat
    BY <1>1, CaseTypes DEF CurrentOf
  <2> QED
    BY <2>1 DEF PreviewRow
<1>3. row.customer = u /\ row.case = i
  OBVIOUS
<1> HIDE DEF row
<1>4. /\ preview' \in Seq(PreviewRow) /\ Len(preview') = Len(preview) + 1
      /\ preview'[Len(preview) + 1] = row /\ Len(preview) \in Nat
      /\ \A k \in 1..Len(preview) : preview'[k] = preview[k]
  BY <1>1, <1>2, RowAdded DEF AskedTyped
<1>5. AskedTyped'
  <2>1. Len(case') = Len(case) /\ Len(case) \in Nat
    BY <1>1, CaseTypes DEF records
  <2>2. \A k \in 1..Len(preview') :
            preview'[k].customer \in customers' /\ preview'[k].case <= Len(case')
    <3>1. \A k \in 1..Len(preview') : k \in 1..Len(preview) \/ k = Len(preview) + 1
      BY <1>4
    <3>2. \A k \in 1..Len(preview) :
              preview'[k].customer \in customers' /\ preview'[k].case <= Len(case')
      BY <1>1, <1>4, <2>1, AskedTypes
    <3> QED
      BY <1>1, <1>3, <1>4, <2>1, <3>1, <3>2
  <2>3. \A p \in 1..Len(proposal') :
            /\ proposal'[p].grant \in Granted' /\ proposal'[p].customer \in customers'
            /\ proposal'[p].case <= Len(case') /\ proposal'[p].result <= Len(case')
            /\ proposal'[p].case = 0 => proposal'[p].expected = 0
    BY <1>1, <2>1, AskedTypes DEF GrantsStand
  <2> QED
    BY <1>1, <1>4, <2>2, <2>3 DEF AskedTyped
<1>6. SettledStands
  BY <1>1, <1>4 DEF SettledStands, Settled, analysis, Tasks
<1> QED
  BY <1>1, <1>5, <1>6, ProposalsSame, BesideCases

\* A preview that is closed.
Closes(k) == preview' = [preview EXCEPT ![k].open = FALSE]

LEMMA Closing ==
    ASSUME AskedTyped, NEW k \in 1..Len(preview), Closes(k)
    PROVE  /\ preview' \in Seq(PreviewRow) /\ Len(preview') = Len(preview)
           /\ ~preview'[k].open
           /\ \A m \in 1..Len(preview) :
                 /\ preview'[m].customer = preview[m].customer
                 /\ preview'[m].case = preview[m].case
                 /\ ~preview[m].open => ~preview'[m].open
<1>1. preview \in Seq(PreviewRow) /\ Len(preview) \in Nat /\ preview[k] \in PreviewRow
  BY AskedTypes DEF AskedTyped
<1> DEFINE row == [preview[k] EXCEPT !.open = FALSE]
<1>2. row \in PreviewRow /\ ~row.open /\ row.customer = preview[k].customer
      /\ row.case = preview[k].case
  BY <1>1 DEF PreviewRow
<1> HIDE DEF row
<1>3. preview' = [preview EXCEPT ![k] = row]
  BY DEF Closes, row
<1>4. /\ preview' \in Seq(PreviewRow) /\ Len(preview') = Len(preview) /\ preview'[k] = row
      /\ \A m \in 1..Len(preview) : m # k => preview'[m] = preview[m]
  BY <1>1, <1>2, <1>3, RowPut
<1> QED
  BY <1>2, <1>4

LEMMA ClosingAsked ==
    ASSUME AskedTyped, NEW k \in 1..Len(preview), Closes(k), GrantsStand, proposal' = proposal,
           customers \subseteq customers', Len(case) \in Nat, Len(case') \in Nat,
           Len(case) <= Len(case')
    PROVE  AskedTyped'
<1>1. \A m \in 1..Len(preview') :
          preview'[m].customer \in customers' /\ preview'[m].case <= Len(case')
  <2>1. Len(preview') = Len(preview) /\ \A m \in 1..Len(preview) :
            preview'[m].customer = preview[m].customer /\ preview'[m].case = preview[m].case
    BY Closing
  <2>2. \A m \in 1..Len(preview) :
            /\ preview[m].customer \in customers
            /\ preview[m].case \in Nat /\ preview[m].case <= Len(case)
    BY AskedTypes
  <2> QED
    BY <2>1, <2>2
<1>2. \A p \in 1..Len(proposal) :
         /\ proposal[p].grant \in Granted' /\ proposal[p].customer \in customers'
         /\ proposal[p].case <= Len(case') /\ proposal[p].result <= Len(case')
         /\ proposal[p].case = 0 => proposal[p].expected = 0
  BY AskedTypes DEF GrantsStand
<1>3. preview' \in Seq(PreviewRow)
  BY Closing
<1> QED
  BY <1>1, <1>2, <1>3 DEF AskedTyped

LEMMA ExpirePreviewKeeps ==
    ASSUME ReqInv, RelationsGrow, GrantsStand, NEW k \in 1..Len(preview), ExpirePreview(k)
    PROVE  ReqInv'
<1>1. /\ AskedTyped /\ CasesTyped /\ customers \subseteq customers'
      /\ Closes(k) /\ UNCHANGED <<records, analysis, proposal>>
  BY DEF ExpirePreview, ReqInv, RowsTyped, RelationsGrow, Closes
<1>2. AskedTyped'
  <2>1. Len(case') = Len(case) /\ Len(case) \in Nat
    BY <1>1, CaseTypes DEF records
  <2> QED
    BY <1>1, <2>1, ClosingAsked
<1>3. SettledStands
  <2>1. \A m \in 1..Len(preview) : ~preview[m].open => ~preview'[m].open
    BY <1>1, Closing
  <2>2. Len(preview') = Len(preview)
    BY <1>1, Closing
  <2> QED
    BY <1>1, <2>1, <2>2 DEF SettledStands, Settled, analysis, Tasks
<1> QED
  BY <1>1, <1>2, <1>3, ProposalsSame, BesideCases

\* What writing a version leaves to be shown: the rows it rests on and its author.
LEMMA VersionKeeps ==
    ASSUME ReqInv, RelationsGrow, GrantsStand, NEW i \in 0..Len(case), NEW u \in customers,
           NEW conv \in Conversations \cup {"none"}, NEW by \in Author,
           NEW more \in SUBSET Conversations, NEW l \in Conversations \cup {"none"},
           Write(i, u, CurrentOf(i), conv, by, more, l)
    PROVE  /\ Writes(i, u, CurrentOf(i), conv, by, more)
           /\ CasesTyped' /\ VersionsFit' /\ Len(case) \in Nat /\ Len(case') \in Nat
           /\ Len(case) <= Len(case') /\ docs' = docs \cup {Version(i, CurrentOf(i), conv, by)}
<1>1. /\ RelationsTyped /\ CasesTyped /\ customers \subseteq customers' /\ u \in Customers
  BY DEF ReqInv, RowsTyped, RelationsGrow, RelationsTyped
<1>2. CurrentOf(i) \in Nat
  BY <1>1, CaseTypes DEF CurrentOf, Cases
<1>3. Writes(i, u, CurrentOf(i), conv, by, more)
  BY <1>1, <1>2, WriteWrites
<1>4. CasesTyped' /\ Len(case) <= Len(case')
  BY <1>1, <1>2, <1>3, WritesCases
<1>5. VersionsFit'
  BY <1>3, WritesVersions
<1>6. Len(case) \in Nat /\ Len(case') \in Nat
  BY <1>1, <1>4 DEF CasesTyped
<1> QED
  BY <1>3, <1>4, <1>5, <1>6 DEF Writes

LEMMA CommitKeeps ==
    ASSUME ReqInv, RelationsGrow, GrantsStand, NEW k \in 1..Len(preview), CommitImport(k)
    PROVE  ReqInv'
<1> DEFINE i == preview[k].case
           u == preview[k].customer
           c == preview[k].conv
           l == IF lead[c].status = "none" THEN "none" ELSE c
           by == [kind |-> "import", id |-> k]
<1>1. /\ CasesTyped /\ AskedTyped /\ customers \subseteq customers'
  BY DEF ReqInv, RowsTyped, RelationsGrow
<1>2. /\ i \in 0..Len(case) /\ u \in customers /\ c \in Conversations
      /\ l \in Conversations \cup {"none"} /\ k \in Nat
  <2>1. Len(case) \in Nat /\ Len(preview) \in Nat
    BY <1>1, CaseTypes, AskedTypes
  <2>2. i \in Nat /\ i <= Len(case) /\ u \in customers /\ c \in Conversations
    BY <1>1, AskedTypes
  <2> QED
    BY <2>1, <2>2
<1>3. /\ preview[k].open /\ Write(i, u, CurrentOf(i), c, by, {c}, l) /\ Closes(k)
      /\ UNCHANGED analysis /\ proposal' = proposal
  BY DEF CommitImport, Closes
<1>4. by \in Author /\ by.kind = "import" /\ by.id = k
  BY <1>2 DEF Author
<1> HIDE DEF i, u, c, l, by
<1>5. /\ Writes(i, u, CurrentOf(i), c, by, {c})
      /\ CasesTyped' /\ VersionsFit' /\ Len(case) \in Nat /\ Len(case') \in Nat
      /\ Len(case) <= Len(case') /\ docs' = docs \cup {Version(i, CurrentOf(i), c, by)}
  BY <1>2, <1>3, <1>4, VersionKeeps
<1>6. SourcesFit'
  <2>1. \A n \in Nat \ {0} : \A x \in Conversations : Proposed(n, x)' <=> Proposed(n, x)
    BY <1>3, ProposalsSame, ProposedKept
  <2>2. \A n \in Nat \ {0} : \A x \in Conversations :
            Proposed(n, x)' <=> Proposed(n, x) \/ (n = Place(i) /\ x \in {})
    BY <2>1
  <2>3. \A x \in Conversations :
            /\ x \in {c} => x = c \/ x \in {}
            /\ x = c \/ x \in {} => x \in {c} \/ (i # 0 /\ Imported(i, x))
    OBVIOUS
  <2> DEFINE base == CurrentOf(i)
             more == {c}
             given == {}
  <2> HIDE DEF base, more, given
  <2>4. Writes(i, u, base, c, by, more)
    BY <1>5 DEF base, more
  <2>5. \A n \in Nat \ {0} : \A x \in Conversations :
            Proposed(n, x)' <=> Proposed(n, x) \/ (n = Place(i) /\ x \in given)
    BY <2>2 DEF given
  <2>6. \A x \in Conversations :
            /\ x \in more => x = c \/ x \in given
            /\ x = c \/ x \in given => x \in more \/ (i # 0 /\ Imported(i, x))
    BY <2>3 DEF given, more
  <2> QED
    BY <1>2, <2>4, <2>5, <2>6, WritesSources
<1>7. AskedTyped'
  BY <1>1, <1>3, <1>5, ClosingAsked
<1>8. SettledStands /\ ~Settled(by) /\ Settled(by)'
  <2>1. Len(preview') = Len(preview) /\ ~preview'[k].open
        /\ \A m \in 1..Len(preview) : ~preview[m].open => ~preview'[m].open
    BY <1>1, <1>3, Closing
  <2>2. SettledStands
    BY <1>3, <2>1 DEF SettledStands, Settled, analysis, Tasks
  <2>3. ~Settled(by) /\ Settled(by)'
    BY <1>3, <1>4, <2>1 DEF Settled
  <2> QED
    BY <2>2, <2>3
<1>9. AuthorsFit'
  <2>1. Version(i, CurrentOf(i), c, by).by = by
    BY DEF Version
  <2> QED
    BY <1>5, <1>8, <2>1, AuthorsMore
<1>10. TasksTyped' /\ TasksFit'
  BY <1>3, <1>5, TasksSame
<1> QED
  BY <1>5, <1>6, <1>7, <1>9, <1>10, PartsKept

LEMMA EditKeeps ==
    ASSUME ReqInv, RelationsGrow, GrantsStand, NEW i \in Cases, EditCase(i)
    PROVE  ReqInv'
<1>1. /\ CasesTyped /\ AskedTyped /\ customers \subseteq customers'
  BY DEF ReqInv, RowsTyped, RelationsGrow
<1>2. PICK d \in docs :
          /\ d.case = i /\ d.num = case[i].current
          /\ Write(i, case[i].customer, d.num, d.conv, [kind |-> "edit", id |-> d.num], {}, "none")
  BY DEF EditCase
<1> DEFINE u == case[i].customer
           c == d.conv
           by == [kind |-> "edit", id |-> d.num]
           base == CurrentOf(i)
           more == {}
           given == {}
           l == "none"
<1>3. /\ i \in 0..Len(case) /\ i # 0 /\ u \in customers /\ c \in Conversations \cup {"none"}
      /\ d.num \in Nat /\ base = d.num /\ more \in SUBSET Conversations
      /\ l \in Conversations \cup {"none"}
  <2>1. i \in 0..Len(case) /\ i # 0
    BY <1>1, CaseTypes
  <2> QED
    BY <1>1, <1>2, <2>1, CaseTypes DEF CurrentOf
<1>4. by \in Author /\ by.kind = "edit"
  BY <1>3 DEF Author
<1>5. Write(i, u, base, c, by, more, l) /\ UNCHANGED <<preview, proposal, analysis>>
  BY <1>2, <1>3 DEF EditCase
<1>6. \A x \in Conversations :
          /\ x \in more => x = c \/ x \in given
          /\ x = c \/ x \in given => x \in more \/ (i # 0 /\ Imported(i, x))
  BY <1>2, <1>3 DEF Imported
<1>7. \A x \in Conversations : x \notin given
  OBVIOUS
<1> HIDE DEF u, c, by, more, given, l
<1>8. /\ Writes(i, u, base, c, by, more)
      /\ CasesTyped' /\ VersionsFit' /\ Len(case) \in Nat /\ Len(case') \in Nat
      /\ Len(case) <= Len(case') /\ docs' = docs \cup {Version(i, base, c, by)}
  BY <1>3, <1>4, <1>5, VersionKeeps
<1> HIDE DEF base
<1>9. SourcesFit'
  <2>1. \A n \in Nat \ {0} : \A x \in Conversations : Proposed(n, x)' <=> Proposed(n, x)
    BY <1>5, ProposalsSame, ProposedKept
  <2>2. \A n \in Nat \ {0} : \A x \in Conversations :
            Proposed(n, x)' <=> Proposed(n, x) \/ (n = Place(i) /\ x \in given)
    BY <1>7, <2>1
  <2> QED
    BY <1>3, <1>6, <1>8, <2>2, WritesSources
<1>10. AskedTyped'
  BY <1>1, <1>5, <1>8, AskedSame
<1>11. AuthorsFit'
  <2>1. SettledStands
    BY <1>5, NothingAsked DEF analysis
  <2>2. Version(i, base, c, by).by = by
    BY DEF Version
  <2>3. Settled(by)'
    BY <1>4 DEF Settled
  <2> QED
    BY <1>4, <1>8, <2>1, <2>2, <2>3, AuthorsMore
<1>12. TasksTyped' /\ TasksFit'
  BY <1>5, <1>8, TasksSame
<1> QED
  BY <1>8, <1>9, <1>10, <1>11, <1>12, PartsKept

\* A case goes to another customer or gets a project.
Related(i, row) ==
    /\ row \in CaseRow /\ row.current = case[i].current /\ row.sources = case[i].sources
    /\ row.customer \in customers'
    /\ case' = [case EXCEPT ![i] = row]

LEMMA RelatedKeeps ==
    ASSUME ReqInv, RelationsGrow, GrantsStand, NEW i \in Cases, NEW row, Related(i, row),
           UNCHANGED <<docs, preview, proposal, analysis>>
    PROVE  ReqInv'
<1>1. /\ CasesTyped /\ AskedTyped /\ customers \subseteq customers' /\ case \in Seq(CaseRow)
      /\ i \in 1..Len(case)
  BY DEF ReqInv, RowsTyped, RelationsGrow, CasesTyped, Cases
<1>2. /\ case' \in Seq(CaseRow) /\ Len(case') = Len(case) /\ case'[i] = row
      /\ \A k \in 1..Len(case) : k # i => case'[k] = case[k]
  BY <1>1, RowPut DEF Related
<1>3. /\ \A k \in Cases : case'[k].customer \in customers'
      /\ \A k \in Cases : case'[k].current = case[k].current /\ case'[k].sources = case[k].sources
  <2>1. \A k \in Cases : case[k].customer \in customers /\ k \in 1..Len(case)
    BY <1>1, CaseTypes
  <2> QED
    BY <1>1, <1>2, <2>1 DEF Related
<1>4. CasesTyped' /\ RecordsStand
  BY <1>1, <1>2, <1>3 DEF CasesTyped, RecordsStand, Cases, Numbered
<1>5. AskedTyped'
  BY <1>1, <1>2, AskedSame, CaseTypes
<1>6. VersionsFit' /\ SourcesFit'
  BY <1>4, ProposalsSame, RecordsKept
<1>7. AuthorsFit'
  BY NothingAsked, AuthorsKept DEF analysis
<1>8. TasksTyped' /\ TasksFit'
  BY TasksSame
<1> QED
  BY <1>4, <1>5, <1>6, <1>7, <1>8, PartsKept

LEMMA CaseRelates ==
    ASSUME NEW row \in CaseRow, NEW u \in Customers
    PROVE  /\ [row EXCEPT !.customer = u] \in CaseRow
           /\ [row EXCEPT !.customer = u].customer = u
           /\ [row EXCEPT !.customer = u].current = row.current
           /\ [row EXCEPT !.customer = u].sources = row.sources
           /\ [row EXCEPT !.project = TRUE] \in CaseRow
           /\ [row EXCEPT !.project = TRUE].customer = row.customer
           /\ [row EXCEPT !.project = TRUE].current = row.current
           /\ [row EXCEPT !.project = TRUE].sources = row.sources
BY DEF CaseRow

LEMMA TransferKeeps ==
    ASSUME ReqInv, RelationsGrow, GrantsStand, NEW i \in Cases, NEW u \in Customers,
           TransferCase(i, u)
    PROVE  ReqInv'
<1> DEFINE row == [case[i] EXCEPT !.customer = u]
<1>1. case[i] \in CaseRow
  BY CaseTypes DEF ReqInv, RowsTyped
<1>2. /\ row \in CaseRow /\ row.current = case[i].current /\ row.sources = case[i].sources
      /\ row.customer = u
  BY <1>1, CaseRelates
<1>3. u \in customers' /\ case' = [case EXCEPT ![i] = row]
      /\ UNCHANGED <<docs, preview, proposal, analysis>>
  BY DEF TransferCase, Own
<1> HIDE DEF row
<1>4. Related(i, row)
  BY <1>2, <1>3 DEF Related
<1> QED
  BY <1>3, <1>4, RelatedKeeps

LEMMA LinkKeeps ==
    ASSUME ReqInv, RelationsGrow, GrantsStand, NEW i \in Cases, LinkProject(i)
    PROVE  ReqInv'
<1> DEFINE row == [case[i] EXCEPT !.project = TRUE]
<1>1. case[i] \in CaseRow /\ case[i].customer \in customers'
  BY CaseTypes DEF ReqInv, RowsTyped, RelationsGrow
<1>2. /\ row \in CaseRow /\ row.current = case[i].current /\ row.sources = case[i].sources
      /\ row.customer = case[i].customer
  <2>1. case[i].customer \in Customers
    BY <1>1 DEF CaseRow
  <2> QED
    BY <1>1, <2>1, CaseRelates
<1>3. case' = [case EXCEPT ![i] = row] /\ UNCHANGED <<docs, preview, proposal, analysis>>
  BY DEF LinkProject
<1> HIDE DEF row
<1>4. Related(i, row)
  BY <1>1, <1>2, <1>3 DEF Related
<1> QED
  BY <1>3, <1>4, RelatedKeeps

-----------------------------------------------------------------------------
(* Proposals.                                                              *)

\* Proposals keep what they are for; those at q keep their result too.
ProposalsStand(q) ==
    /\ proposal' \in Seq(ProposalRow) /\ Len(proposal') = Len(proposal)
    /\ \A m \in 1..Len(proposal) :
          /\ proposal'[m].grant = proposal[m].grant
          /\ proposal'[m].customer = proposal[m].customer
          /\ proposal'[m].case = proposal[m].case
          /\ proposal'[m].expected = proposal[m].expected
          /\ m \in q => proposal'[m].result = proposal[m].result

Results(p, j) == proposal' = [proposal EXCEPT ![p].result = j]

Expires(p) == proposal' = [proposal EXCEPT ![p].expired = TRUE]

LEMMA ProposalRows ==
    ASSUME NEW row \in ProposalRow, NEW j \in Nat, NEW new,
           new = [row EXCEPT !.result = j] \/ new = [row EXCEPT !.expired = TRUE]
    PROVE  /\ new \in ProposalRow /\ new.grant = row.grant /\ new.customer = row.customer
           /\ new.case = row.case /\ new.expected = row.expected
           /\ new = [row EXCEPT !.result = j] => new.result = j
           /\ new = [row EXCEPT !.expired = TRUE] => new.result = row.result
BY DEF ProposalRow

LEMMA ProposalPut ==
    ASSUME AskedTyped, NEW p \in 1..Len(proposal), NEW row \in ProposalRow,
           row.grant = proposal[p].grant, row.customer = proposal[p].customer,
           row.case = proposal[p].case, row.expected = proposal[p].expected,
           proposal' = [proposal EXCEPT ![p] = row]
    PROVE  ProposalsStand((1..Len(proposal)) \ {p}) /\ proposal'[p] = row
<1>1. proposal \in Seq(ProposalRow)
  BY DEF AskedTyped
<1>2. /\ proposal' \in Seq(ProposalRow) /\ Len(proposal') = Len(proposal) /\ proposal'[p] = row
      /\ \A m \in 1..Len(proposal) : m # p => proposal'[m] = proposal[m]
  BY <1>1, RowPut
<1> QED
  BY <1>2 DEF ProposalsStand

LEMMA Resulting ==
    ASSUME AskedTyped, NEW p \in 1..Len(proposal), NEW j \in Nat, Results(p, j)
    PROVE  ProposalsStand((1..Len(proposal)) \ {p}) /\ proposal'[p].result = j
<1> DEFINE row == [proposal[p] EXCEPT !.result = j]
<1>1. proposal[p] \in ProposalRow /\ proposal \in Seq(ProposalRow)
  BY AskedTypes DEF AskedTyped
<1>2. proposal' = [proposal EXCEPT ![p] = row]
  BY DEF Results
<1>3. /\ row \in ProposalRow /\ row.grant = proposal[p].grant
      /\ row.customer = proposal[p].customer /\ row.case = proposal[p].case
      /\ row.expected = proposal[p].expected /\ row.result = j
  BY <1>1, ProposalRows
<1> HIDE DEF row
<1> QED
  BY <1>2, <1>3, ProposalPut

LEMMA Expiring ==
    ASSUME AskedTyped, NEW p \in 1..Len(proposal), Expires(p)
    PROVE  ProposalsStand(1..Len(proposal))
<1> DEFINE row == [proposal[p] EXCEPT !.expired = TRUE]
<1>1. proposal[p] \in ProposalRow /\ proposal \in Seq(ProposalRow)
  BY AskedTypes DEF AskedTyped
<1>2. proposal' = [proposal EXCEPT ![p] = row]
  BY DEF Expires
<1>3. /\ row \in ProposalRow /\ row.grant = proposal[p].grant
      /\ row.customer = proposal[p].customer /\ row.case = proposal[p].case
      /\ row.expected = proposal[p].expected /\ row.result = proposal[p].result
  BY <1>1, ProposalRows
<1> HIDE DEF row
<1>4. ProposalsStand((1..Len(proposal)) \ {p}) /\ proposal'[p] = row
  BY <1>2, <1>3, ProposalPut
<1> QED
  BY <1>3, <1>4 DEF ProposalsStand

LEMMA StandingAsked ==
    ASSUME AskedTyped, NEW q, ProposalsStand(q), preview' = preview, GrantsStand,
           customers \subseteq customers', Len(case) \in Nat, Len(case') \in Nat,
           Len(case) <= Len(case'),
           \A m \in 1..Len(proposal) : m \in q \/ proposal'[m].result <= Len(case')
    PROVE  AskedTyped'
<1>1. \A k \in 1..Len(preview) : preview[k].customer \in customers' /\ preview[k].case <= Len(case')
  BY AskedTypes
<1>2. \A m \in 1..Len(proposal) :
         /\ proposal[m].grant \in Granted' /\ proposal[m].customer \in customers'
         /\ proposal[m].case <= Len(case') /\ proposal[m].result <= Len(case')
         /\ proposal[m].case = 0 => proposal[m].expected = 0
  BY AskedTypes DEF GrantsStand
<1>3. \A m \in 1..Len(proposal') :
         /\ proposal'[m].grant \in Granted' /\ proposal'[m].customer \in customers'
         /\ proposal'[m].case <= Len(case') /\ proposal'[m].result <= Len(case')
         /\ proposal'[m].case = 0 => proposal'[m].expected = 0
  BY <1>2 DEF ProposalsStand
<1>4. proposal' \in Seq(ProposalRow)
  BY DEF ProposalsStand
<1> QED
  BY <1>1, <1>3, <1>4 DEF AskedTyped

LEMMA ExpireProposalKeeps ==
    ASSUME ReqInv, RelationsGrow, GrantsStand, NEW p \in 1..Len(proposal), ExpireProposal(p)
    PROVE  ReqInv'
<1>1. /\ AskedTyped /\ CasesTyped /\ customers \subseteq customers'
      /\ Expires(p) /\ UNCHANGED <<records, analysis, preview>>
  BY DEF ExpireProposal, ReqInv, RowsTyped, RelationsGrow, Expires
<1>2. ProposalsStand(1..Len(proposal))
  BY <1>1, Expiring
<1>3. AskedTyped'
  <2>1. Len(case') = Len(case) /\ Len(case) \in Nat
    BY <1>1, CaseTypes DEF records
  <2> DEFINE q == 1..Len(proposal)
  <2>2. ProposalsStand(q) /\ \A m \in 1..Len(proposal) : m \in q
    BY <1>2
  <2> HIDE DEF q
  <2> QED
    BY <1>1, <2>1, <2>2, StandingAsked
<1>4. ResultsStand
  BY <1>2 DEF ProposalsStand, ResultsStand
<1>5. SettledStands
  BY <1>1, <1>2 DEF ProposalsStand, SettledStands, Settled, analysis, Tasks
<1> QED
  BY <1>1, <1>3, <1>4, <1>5, BesideCases

LEMMA ProposeKeeps ==
    ASSUME ReqInv, RelationsGrow, GrantsStand, NEW g \in Granted, NEW by, NEW i \in 0..Len(case),
           Propose(g, by, i)
    PROVE  ReqInv'
<1>1. /\ AskedTyped /\ CasesTyped /\ customers \subseteq customers'
      /\ customers \subseteq Customers /\ UNCHANGED <<records, analysis, preview>>
  BY DEF Propose, ReqInv, RowsTyped, RelationsGrow, RelationsTyped
<1>2. PICK u \in customers, images \in SUBSET Evidence(g) :
          proposal' = Append(proposal,
              [grant |-> g, customer |-> u, case |-> i, expected |-> CurrentOf(i),
               images |-> images, expired |-> FALSE, result |-> 0])
  BY DEF Propose
<1> DEFINE row == [grant |-> g, customer |-> u, case |-> i, expected |-> CurrentOf(i),
                   images |-> images, expired |-> FALSE, result |-> 0]
<1>3. row \in ProposalRow
  <2>1. CurrentOf(i) \in Nat /\ i \in Nat
    BY <1>1, CaseTypes DEF CurrentOf
  <2>2. g \in Nat
    BY DEF Granted
  <2>3. images \in SUBSET Images
    BY DEF Evidence, Manifest
  <2> QED
    BY <1>1, <2>1, <2>2, <2>3 DEF ProposalRow
<1>4. /\ row.grant = g /\ row.customer = u /\ row.case = i /\ row.result = 0
      /\ row.expected = CurrentOf(i) /\ proposal' = Append(proposal, row)
  BY <1>2
<1> HIDE DEF row
<1>5. /\ proposal' \in Seq(ProposalRow) /\ Len(proposal') = Len(proposal) + 1
      /\ proposal'[Len(proposal) + 1] = row /\ Len(proposal) \in Nat
      /\ \A m \in 1..Len(proposal) : proposal'[m] = proposal[m]
  BY <1>1, <1>3, <1>4, RowAdded DEF AskedTyped
<1>6. AskedTyped'
  <2>1. Len(case') = Len(case) /\ Len(case) \in Nat
    BY <1>1, CaseTypes DEF records
  <2>2. \A k \in 1..Len(preview) :
            preview[k].customer \in customers' /\ preview[k].case <= Len(case')
    BY <1>1, <2>1, AskedTypes
  <2>3. \A m \in 1..Len(proposal) :
            /\ proposal[m].grant \in Granted' /\ proposal[m].customer \in customers'
            /\ proposal[m].case <= Len(case') /\ proposal[m].result <= Len(case')
            /\ proposal[m].case = 0 => proposal[m].expected = 0
    BY <1>1, <2>1, AskedTypes DEF GrantsStand
  <2>4. /\ row.grant \in Granted' /\ row.customer \in customers'
        /\ row.case <= Len(case') /\ row.result <= Len(case')
        /\ row.case = 0 => row.expected = 0
    BY <1>1, <1>4, <2>1 DEF GrantsStand, CurrentOf
  <2>5. \A m \in 1..Len(proposal') : m \in 1..Len(proposal) \/ m = Len(proposal) + 1
    BY <1>5
  <2>6. \A m \in 1..Len(proposal') :
            /\ proposal'[m].grant \in Granted' /\ proposal'[m].customer \in customers'
            /\ proposal'[m].case <= Len(case') /\ proposal'[m].result <= Len(case')
            /\ proposal'[m].case = 0 => proposal'[m].expected = 0
    BY <1>5, <2>3, <2>4, <2>5
  <2> QED
    BY <1>1, <1>5, <2>2, <2>6 DEF AskedTyped
<1>7. ResultsStand
  <2>1. \A m \in 1..Len(proposal') : m \in 1..Len(proposal) \/ m = Len(proposal) + 1
    BY <1>5
  <2>2. 1..Len(proposal) \subseteq 1..Len(proposal')
    BY <1>5
  <2> QED
    BY <1>4, <1>5, <2>1, <2>2 DEF ResultsStand
<1>8. SettledStands
  <2>1. 1..Len(proposal) \subseteq 1..Len(proposal')
    BY <1>5
  <2> QED
    BY <1>1, <1>5, <2>1 DEF SettledStands, Settled, analysis, Tasks
<1> QED
  BY <1>1, <1>6, <1>7, <1>8, BesideCases

\* A confirmed proposal gives its case the conversations of its grant.
LEMMA ConfirmedKeeps ==
    ASSUME ReqInv, GrantsInv, RelationsGrow, GrantsStand, NEW p \in 1..Len(proposal), Confirmed(p)
    PROVE  ReqInv'
<1>1. /\ CasesTyped /\ AskedTyped /\ customers \subseteq customers'
  BY DEF ReqInv, RowsTyped, RelationsGrow
<1> DEFINE i == proposal[p].case
           u == proposal[p].customer
           c == "none"
           by == [kind |-> "proposal", id |-> p]
           base == CurrentOf(i)
           given == grant[proposal[p].grant].scope
           l == "none"
<1>2. /\ i \in 0..Len(case) /\ u \in customers /\ p \in Nat /\ given \in SUBSET Conversations
      /\ c \in Conversations \cup {"none"} /\ l \in Conversations \cup {"none"}
      /\ c \notin Conversations
  <2>1. Len(case) \in Nat /\ Len(proposal) \in Nat
    BY <1>1, CaseTypes, AskedTypes
  <2>2. i \in Nat /\ i <= Len(case) /\ u \in customers /\ proposal[p].grant \in Granted
    BY <1>1, AskedTypes
  <2>3. grant[proposal[p].grant] \in Grant
    BY <2>2, GrantsTypes
  <2>4. given \in SUBSET Conversations
    BY <2>3 DEF Grant
  <2> QED
    BY <2>1, <2>2, <2>4, RequirementsAssumption
<1>3. base = proposal[p].expected
  BY <1>1, AskedTypes DEF CurrentOf, Confirmed, CaseUnchanged
<1>4. Place(i) = IF i = 0 THEN Len(case) + 1 ELSE i
  BY DEF Place
<1>5. /\ proposal[p].result = 0 /\ Write(i, u, base, c, by, given, l)
      /\ Results(p, Place(i)) /\ proposal' = [proposal EXCEPT ![p].result = Place(i)]
      /\ UNCHANGED <<preview, analysis>>
  BY <1>3, <1>4 DEF Confirmed, Results
<1>6. by \in Author /\ by.kind = "proposal" /\ by.id = p
  BY <1>2 DEF Author
<1>7. \A n \in Nat \ {0} : \A x \in Conversations :
          Proposed(n, x)' <=> Proposed(n, x) \/ (n = Place(i) /\ x \in given)
  BY <1>2, <1>5, ProposedMore
<1> HIDE DEF i, u, c, by, given, l
<1>8. /\ Writes(i, u, base, c, by, given)
      /\ CasesTyped' /\ VersionsFit' /\ Len(case) \in Nat /\ Len(case') \in Nat
      /\ Len(case) <= Len(case') /\ docs' = docs \cup {Version(i, base, c, by)}
  BY <1>2, <1>5, <1>6, VersionKeeps
<1> HIDE DEF base
<1>9. Place(i) \in Nat /\ Place(i) # 0 /\ Place(i) <= Len(case')
  BY <1>1, <1>2, <1>8, PlaceIs DEF Writes
<1>10. ProposalsStand((1..Len(proposal)) \ {p}) /\ proposal'[p].result = Place(i)
  BY <1>1, <1>5, <1>9, Resulting
<1>11. SourcesFit'
  <2>1. \A x \in Conversations :
            /\ x \in given => x = c \/ x \in given
            /\ x = c \/ x \in given => x \in given \/ (i # 0 /\ Imported(i, x))
    BY <1>2
  <2> QED
    BY <1>2, <1>7, <1>8, <2>1, WritesSources
<1>12. AskedTyped'
  <2> DEFINE q == (1..Len(proposal)) \ {p}
  <2>1. ProposalsStand(q) /\ \A m \in 1..Len(proposal) : m \in q \/ proposal'[m].result <= Len(case')
    BY <1>9, <1>10
  <2> HIDE DEF q
  <2> QED
    BY <1>1, <1>5, <1>8, <2>1, StandingAsked
<1>13. SettledStands /\ ~Settled(by) /\ Settled(by)'
  <2>1. Len(proposal') = Len(proposal)
        /\ \A m \in 1..Len(proposal) : proposal[m].result # 0 => proposal'[m].result # 0
    BY <1>5, <1>10 DEF ProposalsStand
  <2>2. SettledStands
    BY <1>5, <2>1 DEF SettledStands, Settled, analysis, Tasks
  <2>3. ~Settled(by) /\ Settled(by)'
    BY <1>5, <1>6, <1>9, <1>10, <2>1 DEF Settled
  <2> QED
    BY <2>2, <2>3
<1>14. AuthorsFit'
  <2>1. Version(i, base, c, by).by = by
    BY DEF Version
  <2> QED
    BY <1>8, <1>13, <2>1, AuthorsMore
<1>15. TasksTyped' /\ TasksFit'
  BY <1>5, <1>8, TasksSame
<1> QED
  BY <1>8, <1>11, <1>12, <1>14, <1>15, PartsKept

-----------------------------------------------------------------------------
(* Analyses.                                                               *)

LEMMA LatestIs ==
    ASSUME CasesTyped, NEW c
    PROVE  Latest(c) \in Nat
<1> DEFINE S == {d.num : d \in {e \in docs : e.conv = c}} \cup {0}
<1>1. PICK n \in Nat : \A d \in docs : d.num <= n
  BY DEF CasesTyped, Numbered
<1>2. \A d \in docs : d.num \in Nat
  BY CaseTypes
<1>3. S \in SUBSET (0..n)
  BY <1>1, <1>2
<1>4. S # {} /\ Latest(c) = Max(S)
  BY DEF Latest
<1> HIDE DEF S
<1>5. Max(S) \in S
  BY <1>3, <1>4, Largest
<1>6. \A k \in S : k \in Nat
  BY <1>3
<1> QED
  BY <1>4, <1>5, <1>6

TaskBecomes(t, row) == task' = [task EXCEPT ![t] = row]

\* A row of an analysis after a step: work does not begin anew, and what is
\* completed has its version and was not cancelled.
Goes(t, row) ==
    /\ row \in TaskRow /\ row.conv = task[t].conv
    /\ row.status \in {"pending", "running"} => InWork(t)
    /\ row.status = "completed" =>
          ~row.cancel /\ \E d \in docs' : d.by = [kind |-> "task", id |-> t]
    /\ task[t].status = "completed" => row.status = "completed"

WorkerFits == worker' # 0 => up' /\ task'[worker'].status = "running"

LEMMA TaskRowPut ==
    ASSUME TasksTyped, NEW t \in Tasks, NEW row \in TaskRow, TaskBecomes(t, row)
    PROVE  /\ task' \in Seq(TaskRow) /\ Len(task') = Len(task) /\ Tasks' = Tasks
           /\ task'[t] = row /\ \A u \in Tasks : u # t => task'[u] = task[u]
<1>1. task \in Seq(TaskRow) /\ t \in 1..Len(task)
  BY DEF TasksTyped, Tasks
<1> QED
  BY <1>1, RowPut DEF TaskBecomes, Tasks

\* Every row goes on.
LEMMA TasksGo ==
    ASSUME ReqInv, task' \in Seq(TaskRow), Len(task') = Len(task),
           \A t \in Tasks : Goes(t, task'[t]), docs \subseteq docs', queue' \in Seq(Tasks),
           worker' \in 0..Len(task), up' \in BOOLEAN, WorkerFits
    PROVE  /\ TasksTyped' /\ TasksFit' /\ Tasks' = Tasks
           /\ \A t \in Tasks : t \in Tasks' /\ (task[t].status = "completed" => task'[t].status = "completed")
<1>1. Tasks' = Tasks
  BY DEF Tasks
<1>2. TasksTyped'
  BY <1>1 DEF TasksTyped
<1>3. \A t \in Tasks : task'[t].status = "completed" =>
          ~task'[t].cancel /\ \E d \in docs' : d.by = [kind |-> "task", id |-> t]
  BY DEF Goes
<1>4. ASSUME NEW t \in Tasks, NEW u \in Tasks, InWork(t)', InWork(u)', task'[t].conv = task'[u].conv
      PROVE  t = u
  <2>1. InWork(t) /\ InWork(u) /\ task[t].conv = task[u].conv
    BY <1>4 DEF Goes, InWork
  <2> QED
    BY <2>1 DEF ReqInv, TasksFit
<1>5. TasksFit'
  BY <1>1, <1>3, <1>4 DEF TasksFit, WorkerFits
<1> QED
  BY <1>1, <1>2, <1>5 DEF Goes

LEMMA GoesOn ==
    ASSUME ReqInv, NEW t \in Tasks, docs \subseteq docs'
    PROVE  Goes(t, task[t])
<1>1. task[t] \in TaskRow
  BY TaskTypes DEF ReqInv, RowsTyped
<1>2. task[t].status = "completed" =>
          ~task[t].cancel /\ \E d \in docs' : d.by = [kind |-> "task", id |-> t]
  BY DEF ReqInv, TasksFit
<1> QED
  BY <1>1, <1>2 DEF Goes, InWork

LEMMA OneGoes ==
    ASSUME ReqInv, NEW t \in Tasks, NEW row, Goes(t, row), TaskBecomes(t, row),
           docs \subseteq docs', queue' \in Seq(Tasks), worker' \in 0..Len(task),
           up' \in BOOLEAN,
           worker' # 0 => up' /\ (IF worker' = t THEN row.status ELSE task[worker'].status) = "running"
    PROVE  /\ TasksTyped' /\ TasksFit' /\ Tasks' = Tasks /\ task'[t] = row
           /\ \A u \in Tasks : u \in Tasks' /\ (task[u].status = "completed" => task'[u].status = "completed")
<1>1. row \in TaskRow /\ TasksTyped
  BY DEF Goes, ReqInv, RowsTyped
<1>2. /\ task' \in Seq(TaskRow) /\ Len(task') = Len(task) /\ Tasks' = Tasks
      /\ task'[t] = row /\ \A u \in Tasks : u # t => task'[u] = task[u]
  BY <1>1, TaskRowPut
<1>3. ASSUME NEW u \in Tasks PROVE Goes(u, task'[u])
  <2>1. CASE u = t
    BY <1>2, <2>1
  <2>2. CASE u # t
    BY <1>2, <2>2, GoesOn
  <2> QED
    BY <2>1, <2>2
<1>4. WorkerFits
  <2>1. worker' # 0 => worker' \in Tasks
    BY <1>1, TaskTypes DEF Tasks
  <2> QED
    BY <1>2, <2>1 DEF WorkerFits
<1> QED
  BY <1>2, <1>3, <1>4, TasksGo

LEMMA StatusRows ==
    ASSUME NEW row \in TaskRow,
           NEW s \in {"pending", "running", "completed", "failed", "cancelled"}
    PROVE  /\ [row EXCEPT !.status = s] \in TaskRow
           /\ [row EXCEPT !.status = s].status = s
           /\ [row EXCEPT !.status = s].conv = row.conv
           /\ [row EXCEPT !.status = s].cancel = row.cancel
BY DEF TaskRow

LEMMA EnqueueKeeps ==
    ASSUME ReqInv, RelationsGrow, GrantsStand, NEW c \in Conversations, Enqueue(c)
    PROVE  ReqInv'
<1> DEFINE row == [conv |-> c, cancel |-> FALSE, base |-> Latest(c), status |-> "pending"]
           n == Len(task) + 1
<1>1. /\ TasksTyped /\ TasksFit /\ CasesTyped
      /\ task' = Append(task, row) /\ queue' = Append(queue, n)
      /\ UNCHANGED <<records, preview, proposal, worker, up>>
      /\ ActiveTasks(c) = {}
  BY DEF ReqInv, RowsTyped, Enqueue, AnalysisStep, records
<1>2. row \in TaskRow
  BY <1>1, LatestIs DEF TaskRow
<1>3. row.status = "pending" /\ row.conv = c
  OBVIOUS
<1> HIDE DEF row
<1>4. /\ task' \in Seq(TaskRow) /\ Len(task') = n /\ task'[n] = row
      /\ Len(task) \in Nat /\ \A t \in 1..Len(task) : task'[t] = task[t]
  BY <1>1, <1>2, RowAdded DEF TasksTyped
<1>5. /\ Tasks' = Tasks \cup {n} /\ Tasks = 1..Len(task) /\ n \in Nat
      /\ \A t \in Tasks : task'[t] = task[t] /\ t \in Tasks'
  BY <1>4 DEF Tasks
<1>6. TasksTyped'
  <2>1. queue \in Seq(Tasks')
    BY <1>1, <1>5 DEF TasksTyped
  <2>2. queue' \in Seq(Tasks')
    BY <1>1, <1>5, <2>1
  <2>3. worker' \in 0..Len(task')
    BY <1>1, <1>4 DEF TasksTyped
  <2> QED
    BY <1>1, <1>4, <2>2, <2>3 DEF TasksTyped
<1>7. TasksFit'
  <2>1. ASSUME NEW t \in Tasks', task'[t].status = "completed"
        PROVE  ~task'[t].cancel /\ \E d \in docs' : d.by = [kind |-> "task", id |-> t]
    BY <1>1, <1>3, <1>4, <1>5, <2>1 DEF TasksFit, records
  <2>2. ASSUME NEW t \in Tasks, InWork(t) PROVE task[t].conv # c
    BY <1>1, <2>2 DEF ActiveTasks, InWork
  <2>3. ASSUME NEW t \in Tasks', NEW u \in Tasks', InWork(t)', InWork(u)',
               task'[t].conv = task'[u].conv
        PROVE  t = u
    <3>1. CASE t \in Tasks /\ u \in Tasks
      BY <1>1, <1>5, <2>3, <3>1 DEF TasksFit, InWork
    <3>2. CASE t = n /\ u = n
      BY <3>2
    <3>3. CASE t = n /\ u \in Tasks
      BY <1>3, <1>4, <1>5, <2>2, <2>3, <3>3 DEF InWork
    <3>4. CASE u = n /\ t \in Tasks
      BY <1>3, <1>4, <1>5, <2>2, <2>3, <3>4 DEF InWork
    <3> QED
      BY <1>5, <3>1, <3>2, <3>3, <3>4
  <2>4. worker' # 0 => up' /\ task'[worker'].status = "running"
    BY <1>1, <1>5, TaskTypes DEF TasksFit
  <2> QED
    BY <2>1, <2>3, <2>4 DEF TasksFit
<1> QED
  BY <1>1, <1>5, <1>6, <1>7, BesideTasks

\* The row of a task that is to be cancelled.
Cancelling(row) ==
    [row EXCEPT !.cancel = TRUE,
                !.status = IF row.status = "pending" THEN "cancelled" ELSE row.status]

LEMMA CancellingRow ==
    ASSUME NEW row \in TaskRow
    PROVE  /\ Cancelling(row) \in TaskRow /\ Cancelling(row).conv = row.conv
           /\ Cancelling(row).status =
                 IF row.status = "pending" THEN "cancelled" ELSE row.status
BY DEF TaskRow, Cancelling

LEMMA CancelTaskKeeps ==
    ASSUME ReqInv, RelationsGrow, GrantsStand, NEW t \in Tasks, Cancel(t)
    PROVE  ReqInv'
<1> DEFINE row == Cancelling(task[t])
<1>1. /\ TasksTyped /\ TasksFit
      /\ UNCHANGED <<records, preview, proposal, queue, worker, up>>
      /\ task[t].status \in {"pending", "running"}
  BY DEF ReqInv, RowsTyped, Cancel, AnalysisStep, records
<1>2. task[t] \in TaskRow
  BY <1>1, TaskTypes
<1>3. /\ row \in TaskRow /\ row.conv = task[t].conv
      /\ row.status = IF task[t].status = "pending" THEN "cancelled" ELSE task[t].status
  BY <1>2, CancellingRow
<1>4. TaskBecomes(t, row)
  <2>1. task = [u \in 1..Len(task) |-> task[u]]
    BY <1>1 DEF TasksTyped
  <2> QED
    BY <2>1 DEF Cancel, TaskBecomes, Cancelling
<1> HIDE DEF row
<1>5. Goes(t, row)
  BY <1>1, <1>3 DEF Goes, InWork
<1>6. /\ queue' \in Seq(Tasks) /\ worker' \in 0..Len(task) /\ up' \in BOOLEAN
      /\ docs \subseteq docs'
  BY <1>1 DEF TasksTyped, records
<1>7. worker' # 0 => up' /\ (IF worker' = t THEN row.status ELSE task[worker'].status) = "running"
  BY <1>1, <1>3 DEF TasksFit
<1>8. /\ TasksTyped' /\ TasksFit' /\ Tasks' = Tasks /\ task'[t] = row
      /\ \A u \in Tasks : u \in Tasks' /\ (task[u].status = "completed" => task'[u].status = "completed")
  BY <1>4, <1>5, <1>6, <1>7, OneGoes
<1> QED
  BY <1>1, <1>8, BesideTasks

LEMMA TakeKeeps ==
    ASSUME ReqInv, RelationsGrow, GrantsStand, TakeTask
    PROVE  ReqInv'
<1> DEFINE t == Head(queue)
           row == [task[t] EXCEPT !.status = "running"]
<1>1. /\ TasksTyped /\ TasksFit /\ up /\ worker = 0 /\ queue # <<>> /\ queue' = Tail(queue)
      /\ UNCHANGED <<records, preview, proposal, up>>
      /\ IF task[t].status = "pending"
         THEN worker' = t /\ task' = [task EXCEPT ![t].status = "running"]
         ELSE UNCHANGED <<worker, task>>
  BY DEF ReqInv, RowsTyped, TakeTask, AnalysisStep, records
<1>2. t \in Tasks /\ queue' \in Seq(Tasks)
  BY <1>1 DEF TasksTyped
<1>3. task[t] \in TaskRow /\ t \in 0..Len(task) /\ t # 0 /\ docs \subseteq docs'
  BY <1>1, <1>2, TaskTypes DEF records
<1>4. row \in TaskRow /\ row.conv = task[t].conv /\ row.status = "running"
  BY <1>3, StatusRows
<1>5. CASE task[t].status = "pending"
  <2>1. TaskBecomes(t, row) /\ worker' = t
    BY <1>1, <1>5 DEF TaskBecomes
  <2> HIDE DEF row, t
  <2>2. Goes(t, row)
    BY <1>4, <1>5 DEF Goes, InWork
  <2>3. worker' # 0 => up' /\ (IF worker' = t THEN row.status ELSE task[worker'].status) = "running"
    BY <1>1, <1>4, <2>1
  <2>4. /\ TasksTyped' /\ TasksFit'
        /\ \A u \in Tasks : u \in Tasks' /\ (task[u].status = "completed" => task'[u].status = "completed")
    BY <1>1, <1>2, <1>3, <2>1, <2>2, <2>3, OneGoes
  <2> QED
    BY <1>1, <2>4, BesideTasks
<1>6. CASE task[t].status # "pending"
  <2>1. UNCHANGED <<worker, task, up>>
    BY <1>1, <1>6
  <2> HIDE DEF row, t
  <2>2. TasksTyped'
    BY <1>1, <1>2, <2>1 DEF TasksTyped, Tasks
  <2>3. TasksFit'
    BY <1>3, <2>1, TasksKept
  <2>4. \A u \in Tasks : u \in Tasks' /\ (task[u].status = "completed" => task'[u].status = "completed")
    BY <2>1 DEF Tasks
  <2> QED
    BY <1>1, <2>2, <2>3, <2>4, BesideTasks
<1> QED
  BY <1>5, <1>6

\* A document of a conversation, without a case.
LEMMA DraftDoc ==
    ASSUME ReqInv, GrantsStand, ResultsStand, customers \subseteq customers', case' = case,
           NEW d \in Doc, d.case = 0, docs' = docs \cup {d}
    PROVE  CasesTyped' /\ VersionsFit' /\ SourcesFit'
<1>1. CasesTyped /\ VersionsFit /\ SourcesFit /\ Cases' = Cases /\ Len(case) \in Nat
      /\ \A i \in Cases : i \in Nat \ {0}
  BY CaseTypes DEF ReqInv, RowsTyped, Cases
<1>2. CasesTyped'
  <2>1. Numbered'
    BY <1>1, OneMoreDoc
  <2>2. \A i \in Cases' : case'[i].customer \in customers'
    BY <1>1, CaseTypes
  <2> QED
    BY <1>1, <2>1, <2>2 DEF CasesTyped
<1>3. VersionsFit'
  <2>1. \A e \in docs' : e.case <= Len(case) /\ (e.case # 0 => e.num \in 1..case[e.case].current)
    BY <1>1 DEF VersionsFit
  <2>2. \A i \in Cases : \A n \in 1..case[i].current : \E e \in docs' : e.case = i /\ e.num = n
    BY <1>1 DEF VersionsFit
  <2>3. \A e, f \in docs' : e.case = f.case /\ e.case # 0 /\ e.num = f.num => e = f
    BY <1>1 DEF VersionsFit
  <2> QED
    BY <1>1, <2>1, <2>2, <2>3 DEF VersionsFit
<1>4. SourcesFit'
  <2>1. ASSUME NEW i \in Cases, NEW c \in Conversations
        PROVE  (Imported(i, c)' <=> Imported(i, c)) /\ (Proposed(i, c)' <=> Proposed(i, c))
    <3>1. Imported(i, c)' <=> Imported(i, c)
      BY <1>1 DEF Imported
    <3> QED
      BY <1>1, <3>1, ProposedKept
  <2> QED
    BY <1>1, <2>1 DEF SourcesFit
<1> QED
  BY <1>2, <1>3, <1>4

LEMMA EndKeeps ==
    ASSUME ReqInv, RelationsGrow, GrantsStand, NEW answer \in {"completed", "failed"},
           EndTask(answer)
    PROVE  ReqInv'
<1>a. /\ TasksTyped /\ TasksFit /\ CasesTyped /\ AskedTyped /\ customers \subseteq customers'
      /\ worker # 0 /\ worker \in Tasks
      /\ UNCHANGED <<preview, queue, up, case, proposal>>
  BY TaskTypes DEF ReqInv, RowsTyped, RelationsGrow, EndTask, AnalysisStep
<1>b. PICK w \in Tasks : w = worker
  BY <1>a
<1>c. PICK s : s = Outcome(w, answer)
  OBVIOUS
<1>d. PICK by : by = [kind |-> "task", id |-> w]
  OBVIOUS
<1>e. PICK d : d = [conv |-> task[w].conv, case |-> 0, num |-> Latest(task[w].conv) + 1, by |-> by]
  OBVIOUS
<1>f. PICK row : row = [task[w] EXCEPT !.status = s]
  OBVIOUS
<1>1. /\ worker' = 0 /\ task' = [task EXCEPT ![w].status = s]
      /\ docs' = IF task'[w].status = "completed" THEN docs \cup {d} ELSE docs
  BY <1>b, <1>c, <1>d, <1>e DEF EndTask
<1>2. /\ task[w] \in TaskRow /\ task[w].conv \in Conversations
      /\ task[w].status = "running" /\ w \in Nat
  <2>1. w \in Nat
    BY DEF Tasks
  <2> QED
    BY <1>a, <1>b, <2>1, TaskTypes DEF TasksFit
<1>3. s \in {"completed", "failed", "cancelled"} /\ (s = "completed" => ~task[w].cancel)
  BY <1>c DEF Outcome
<1>4. /\ row \in TaskRow /\ row.conv = task[w].conv /\ row.status = s
      /\ row.cancel = task[w].cancel
  <2>1. s \in {"pending", "running", "completed", "failed", "cancelled"}
    BY <1>3
  <2> QED
    BY <1>2, <1>f, <2>1, StatusRows
<1>5. TaskBecomes(w, row)
  BY <1>1, <1>f DEF TaskBecomes
<1>6. d \in Doc /\ d.case = 0 /\ d.by = by /\ by.kind = "task" /\ by.id = w
  <2>1. Latest(task[w].conv) \in Nat
    BY <1>a, LatestIs
  <2>2. by \in Author /\ by.kind = "task" /\ by.id = w
    BY <1>2, <1>d DEF Author
  <2> QED
    BY <1>2, <1>e, <2>1, <2>2 DEF Doc
<1>7. task'[w] = row
  BY <1>a, <1>4, <1>5, TaskRowPut
<1>8. docs' = IF s = "completed" THEN docs \cup {d} ELSE docs
  BY <1>1, <1>4, <1>7
<1>9. Goes(w, row)
  <2>1. row.status = "completed" =>
            ~row.cancel /\ \E e \in docs' : e.by = [kind |-> "task", id |-> w]
    BY <1>3, <1>4, <1>6, <1>8, <1>d
  <2>2. row.status \notin {"pending", "running"}
    BY <1>3, <1>4
  <2> QED
    BY <1>2, <1>4, <2>1, <2>2 DEF Goes, InWork
<1>10. /\ docs \subseteq docs' /\ queue' \in Seq(Tasks) /\ worker' \in 0..Len(task)
       /\ up' \in BOOLEAN
       /\ worker' # 0 => up' /\ (IF worker' = w THEN row.status ELSE task[worker'].status) = "running"
  BY <1>a, <1>1, <1>8 DEF TasksTyped
<1>11. /\ TasksTyped' /\ TasksFit' /\ Tasks' = Tasks
       /\ \A u \in Tasks : u \in Tasks' /\ (task[u].status = "completed" => task'[u].status = "completed")
  BY <1>5, <1>9, <1>10, OneGoes
<1>12. CASE s # "completed"
  BY <1>a, <1>8, <1>11, <1>12, BesideTasks DEF records
<1>13. CASE s = "completed"
  <2>1. docs' = docs \cup {d}
    BY <1>8, <1>13
  <2>2. CasesTyped' /\ VersionsFit' /\ SourcesFit'
    BY <1>a, <1>6, <2>1, ProposalsSame, DraftDoc
  <2>3. AskedTyped'
    BY <1>a, AskedSame, CaseTypes
  <2>4. SettledStands
    BY <1>a, <1>11 DEF SettledStands, Settled
  <2>5. ~Settled(by) /\ Settled(by)'
    <3>1. ~Settled(by)
      BY <1>2, <1>6 DEF Settled
    <3>2. Settled(by)'
      BY <1>2, <1>4, <1>6, <1>7, <1>11, <1>13 DEF Settled
    <3> QED
      BY <3>1, <3>2
  <2>6. AuthorsFit'
    BY <1>6, <2>1, <2>4, <2>5, AuthorsMore
  <2> QED
    BY <1>11, <2>2, <2>3, <2>6, PartsKept
<1> QED
  BY <1>12, <1>13

LEMMA ClosedRow ==
    ASSUME NEW row \in PreviewRow
    PROVE  /\ [row EXCEPT !.open = FALSE] \in PreviewRow /\ ~[row EXCEPT !.open = FALSE].open
           /\ [row EXCEPT !.open = FALSE].customer = row.customer
           /\ [row EXCEPT !.open = FALSE].case = row.case
BY DEF PreviewRow

\* All previews are closed.
AllClosed == preview' = [k \in 1..Len(preview) |-> [preview[k] EXCEPT !.open = FALSE]]

LEMMA AllClosing ==
    ASSUME AskedTyped, AllClosed
    PROVE  /\ preview' \in Seq(PreviewRow) /\ Len(preview') = Len(preview)
           /\ \A k \in 1..Len(preview) :
                 /\ ~preview'[k].open /\ preview'[k].customer = preview[k].customer
                 /\ preview'[k].case = preview[k].case
<1>1. preview \in Seq(PreviewRow) /\ \A k \in 1..Len(preview) : preview[k] \in PreviewRow
  BY AskedTypes DEF AskedTyped
<1>2. /\ DOMAIN preview' = 1..Len(preview)
      /\ \A k \in 1..Len(preview) : preview'[k] = [preview[k] EXCEPT !.open = FALSE]
      /\ preview' = [k \in 1..Len(preview) |-> preview'[k]]
  BY DEF AllClosed
<1>3. \A k \in 1..Len(preview) :
          /\ preview'[k] \in PreviewRow /\ ~preview'[k].open
          /\ preview'[k].customer = preview[k].customer /\ preview'[k].case = preview[k].case
  BY <1>1, <1>2, ClosedRow
<1>4. preview' \in Seq(PreviewRow) /\ Len(preview') = Len(preview)
  BY <1>1, <1>2, <1>3, RowsMapped
<1> QED
  BY <1>3, <1>4

LEMMA StopKeeps ==
    ASSUME ReqInv, RelationsGrow, GrantsStand, NEW orderly \in BOOLEAN, Stop(orderly)
    PROVE  ReqInv'
<1>1. /\ TasksTyped /\ TasksFit /\ CasesTyped /\ AskedTyped /\ customers \subseteq customers'
      /\ worker' = 0 /\ queue' = <<>> /\ up' = FALSE /\ AllClosed
      /\ task' = IF orderly /\ worker # 0 /\ ~task[worker].cancel
                 THEN [task EXCEPT ![worker].status = "pending"] ELSE task
      /\ UNCHANGED <<records, proposal>>
  BY DEF ReqInv, RowsTyped, RelationsGrow, Stop, AnalysisStep, AllClosed, records
<1>2. CasesTyped' /\ RecordsStand /\ docs' = docs
  BY <1>1, CasesSame DEF records
<1>3. /\ preview' \in Seq(PreviewRow) /\ Len(preview') = Len(preview)
      /\ \A k \in 1..Len(preview) :
            /\ ~preview'[k].open /\ preview'[k].customer = preview[k].customer
            /\ preview'[k].case = preview[k].case
  BY <1>1, AllClosing
<1>4. AskedTyped'
  <2>1. Len(case') = Len(case) /\ Len(case) \in Nat
    BY <1>1, CaseTypes DEF records
  <2>2. \A k \in 1..Len(preview) :
            preview[k].customer \in customers /\ preview[k].case <= Len(case)
    BY <1>1, AskedTypes
  <2>3. \A k \in 1..Len(preview') :
            preview'[k].customer \in customers' /\ preview'[k].case <= Len(case')
    BY <1>1, <1>3, <2>1, <2>2
  <2>4. \A p \in 1..Len(proposal) :
            /\ proposal[p].grant \in Granted' /\ proposal[p].customer \in customers'
            /\ proposal[p].case <= Len(case') /\ proposal[p].result <= Len(case')
            /\ proposal[p].case = 0 => proposal[p].expected = 0
    BY <1>1, <2>1, AskedTypes DEF GrantsStand
  <2> QED
    BY <1>1, <1>3, <2>3, <2>4 DEF AskedTyped
<1>5. /\ TasksTyped' /\ TasksFit'
      /\ \A t \in Tasks : t \in Tasks' /\ (task[t].status = "completed" => task'[t].status = "completed")
  <2>1. docs \subseteq docs' /\ queue' \in Seq(Tasks) /\ worker' \in 0..Len(task) /\ up' \in BOOLEAN
    <3>1. Len(task) \in Nat
      BY <1>1, TaskTypes
    <3>2. worker' = 0 /\ up' = FALSE /\ queue' = <<>>
      BY <1>1
    <3>3. worker' \in 0..Len(task)
      BY <3>1, <3>2
    <3>5. up' \in BOOLEAN
      BY <3>2
    <3>4. queue' \in Seq(Tasks)
      BY <3>2
    <3> QED
      BY <1>2, <3>3, <3>4, <3>5
  <2>2. CASE task' = task
    <3>1. task' \in Seq(TaskRow) /\ Len(task') = Len(task) /\ WorkerFits
          /\ \A t \in Tasks : Goes(t, task'[t])
      BY <1>1, <2>1, <2>2, GoesOn DEF TasksTyped, WorkerFits
    <3> QED
      BY <2>1, <3>1, TasksGo
  <2>3. CASE task' = [task EXCEPT ![worker].status = "pending"] /\ worker # 0
    <3>1. worker \in Tasks /\ task[worker].status = "running"
      BY <1>1, <2>3, TaskTypes DEF TasksFit
    <3>2. PICK w \in Tasks : w = worker
      BY <3>1
    <3>3. PICK row : row = [task[w] EXCEPT !.status = "pending"]
      OBVIOUS
    <3>4. task[w] \in TaskRow
      BY <1>1, TaskTypes
    <3>5. row \in TaskRow /\ row.conv = task[w].conv /\ row.status = "pending"
      BY <3>3, <3>4, StatusRows
    <3>6. TaskBecomes(w, row) /\ Goes(w, row)
      BY <2>3, <3>1, <3>2, <3>3, <3>5 DEF TaskBecomes, Goes, InWork
    <3>7. worker' # 0 => up' /\ (IF worker' = w THEN row.status ELSE task[worker'].status) = "running"
      BY <1>1
    <3> QED
      BY <2>1, <3>6, <3>7, OneGoes
  <2> QED
    BY <1>1, <2>2, <2>3
<1>6. VersionsFit' /\ SourcesFit'
  BY <1>1, <1>2, ProposalsSame, RecordsKept
<1>7. AuthorsFit'
  <2>1. SettledStands
    BY <1>1, <1>3, <1>5 DEF SettledStands, Settled
  <2> QED
    BY <1>2, <2>1, AuthorsKept
<1> QED
  BY <1>2, <1>4, <1>5, <1>6, <1>7, PartsKept

LEMMA ResumedRow ==
    ASSUME NEW row \in TaskRow
    PROVE  /\ Resumed(row) \in TaskRow /\ Resumed(row).conv = row.conv
           /\ Resumed(row).cancel = row.cancel
           /\ Resumed(row).status \in {"pending", "running"} => row.status \in {"pending", "running"}
           /\ Resumed(row).status = "completed" <=> row.status = "completed"
BY DEF TaskRow, Resumed

LEMMA StartKeeps ==
    ASSUME ReqInv, RelationsGrow, GrantsStand, Start
    PROVE  ReqInv'
<1>1. /\ TasksTyped /\ TasksFit /\ ~up /\ up' /\ up' = TRUE
      /\ task' = [t \in Tasks |-> Resumed(task[t])]
      /\ UNCHANGED <<records, preview, proposal, worker>>
  BY DEF ReqInv, RowsTyped, Start, AnalysisStep, records
<1>2. worker' = 0 /\ docs' = docs
  BY <1>1 DEF TasksFit, records
<1>3. /\ Tasks = 1..Len(task) /\ task \in Seq(TaskRow) /\ \A t \in Tasks : task[t] \in TaskRow
  BY <1>1, TaskTypes DEF TasksTyped
<1>4. \A t \in Tasks :
          /\ task'[t] \in TaskRow /\ task'[t].conv = task[t].conv
          /\ task'[t].cancel = task[t].cancel
          /\ task'[t].status \in {"pending", "running"} => task[t].status \in {"pending", "running"}
          /\ task'[t].status = "completed" <=> task[t].status = "completed"
  BY <1>1, <1>3, ResumedRow
<1>5. task' \in Seq(TaskRow) /\ Len(task') = Len(task)
  <2>1. DOMAIN task' = 1..Len(task) /\ task' = [t \in 1..Len(task) |-> task'[t]]
    BY <1>1, <1>3
  <2> QED
    BY <1>3, <1>4, <2>1, RowsMapped
<1>6. \A t \in Tasks : Goes(t, task'[t])
  <2>1. \A t \in Tasks : task'[t].status = "completed" =>
            ~task'[t].cancel /\ \E d \in docs' : d.by = [kind |-> "task", id |-> t]
    BY <1>1, <1>2, <1>4 DEF TasksFit
  <2> QED
    BY <1>4, <2>1 DEF Goes, InWork
<1>7. queue' \in Seq(Tasks)
  <2> DEFINE waiting == {t \in Tasks : task'[t].status = "pending"}
             n == Cardinality(waiting)
  <2>1. queue' \in [1..n -> waiting]
    <3>1. {t \in Tasks : task'[t].status = "pending"} = waiting
      OBVIOUS
    <3> QED
      BY DEF Start
  <2>2. IsFiniteSet(Tasks)
    BY <1>1, TaskTypes, FS_Interval
  <2>3. IsFiniteSet(waiting)
    BY <2>2, FS_Subset
  <2>4. n \in Nat
    BY <2>3, FS_CardinalityType
  <2> HIDE DEF n
  <2>5. queue' \in [1..n -> Tasks]
    BY <2>1
  <2> QED
    BY <2>4, <2>5
<1>8. worker' \in 0..Len(task) /\ up' \in BOOLEAN /\ WorkerFits
  BY <1>1, <1>2, TaskTypes DEF WorkerFits
<1>9. /\ TasksTyped' /\ TasksFit'
      /\ \A t \in Tasks : t \in Tasks' /\ (task[t].status = "completed" => task'[t].status = "completed")
  BY <1>2, <1>5, <1>6, <1>7, <1>8, TasksGo
<1> QED
  BY <1>1, <1>9, BesideTasks

-----------------------------------------------------------------------------
(* The steps of the requirements.                                          *)

LEMMA OnwardStands ==
    ASSUME Onward
    PROVE  GrantsStand
BY DEF Onward, KeptFor, GrantsStand

LEMMA RelationsSame ==
    ASSUME RelationsTyped, owner' \in [Conversations -> Someone], UNCHANGED relations
    PROVE  RelationsGrow
BY DEF RelationsTyped, RelationsGrow, relations

LEMMA OwnGrows ==
    ASSUME RelationsTyped, NEW convs, NEW u \in Customers, Own(convs, u),
           lead' \in [Conversations -> LeadRow]
    PROVE  RelationsGrow
<1>1. customers' = customers \cup {u} /\ customers' \subseteq Customers
  BY DEF Own, RelationsTyped
<1>2. owner' \in [Conversations -> Someone]
  BY DEF Own, RelationsTyped, Someone
<1> QED
  BY <1>1, <1>2 DEF RelationsGrow, RelationsTyped

LEMMA LeadRows ==
    ASSUME RelationsTyped, NEW c \in Conversations, NEW row \in LeadRow,
           NEW s \in {"none", "open", "won"}, NEW u \in Customers
    PROVE  /\ lead[c] \in LeadRow
           /\ [row EXCEPT !.status = s] \in LeadRow
           /\ [row EXCEPT !.customer = u] \in LeadRow
           /\ [row EXCEPT !.customer = u, !.status = s] \in LeadRow
           /\ [status |-> s, customer |-> u] \in LeadRow
           /\ row.status \in {"none", "open", "won"}
BY DEF RelationsTyped, LeadRow, Someone

LeadPut(c, row) == lead' = [lead EXCEPT ![c] = row]

LEMMA LeadTyped ==
    ASSUME RelationsTyped, NEW c \in Conversations, NEW row \in LeadRow, LeadPut(c, row)
    PROVE  lead' \in [Conversations -> LeadRow]
BY DEF RelationsTyped, LeadPut

LEMMA RelatedOf ==
    ASSUME ReqInv, NEW c \in Conversations
    PROVE  LinkedIds(c) \subseteq Customers
<1>1. \A i \in Cases : case[i].customer \in Customers
  BY CaseTypes DEF ReqInv, RowsTyped, RelationsTyped
<1>2. owner[c] \in Customers \cup {"none"} /\ lead[c].customer \in Customers \cup {"none"}
  BY DEF ReqInv, RowsTyped, RelationsTyped, LeadRow, Someone
<1> QED
  BY <1>1, <1>2 DEF LinkedIds

LEMMA CreateGrows ==
    ASSUME ReqInv, NEW c, CreateCustomer(c)
    PROVE  RelationsGrow /\ UNCHANGED <<records, preview, proposal, analysis>>
<1>1. PICK u \in Newcomers : Own({c}, u)
  BY DEF CreateCustomer
<1>2. RelationsTyped /\ u \in Customers /\ UNCHANGED <<lead, records, preview, proposal, analysis>>
  BY DEF ReqInv, RowsTyped, CreateCustomer, Newcomers
<1>3. lead' \in [Conversations -> LeadRow]
  BY <1>2 DEF RelationsTyped
<1> QED
  BY <1>1, <1>2, <1>3, OwnGrows

LEMMA RelatingGrows ==
    ASSUME ReqInv, NEW c \in Conversations,
           ConfirmRequirementCustomer(c) \/ ConfirmSalesAnalysis(c) \/ OpenLead(c) \/ ConvertLead(c)
    PROVE  RelationsGrow /\ UNCHANGED <<records, preview, proposal, analysis>>
<1>1. RelationsTyped
  BY DEF ReqInv, RowsTyped
<1>2. CASE CreateCustomer(c)
  BY <1>2, CreateGrows
<1>3. CASE /\ \E u \in LinkedIds(c) : LinkedIds(c) = {u} /\ Own({c}, u)
           /\ UNCHANGED <<lead, records, preview, proposal, analysis>>
  <2>1. PICK u \in LinkedIds(c) : Own({c}, u)
    BY <1>3
  <2>2. u \in Customers /\ lead' \in [Conversations -> LeadRow]
    BY <1>1, <1>3, RelatedOf DEF RelationsTyped
  <2> QED
    BY <1>1, <1>3, <2>1, <2>2, OwnGrows
<1>4. CASE OpenLead(c)
  <2>1. PICK row : row = [lead[c] EXCEPT !.status = "open"]
    OBVIOUS
  <2>2. LeadPut(c, row)
    BY <1>4, <2>1 DEF OpenLead, LeadPut
  <2>3. lead[c] \in LeadRow
    BY <1>1 DEF RelationsTyped
  <2>4. row \in LeadRow
    BY <2>1, <2>3 DEF LeadRow
  <2>5. lead' \in [Conversations -> LeadRow]
    BY <1>1, <2>2, <2>4, LeadTyped
  <2>6. /\ UNCHANGED <<customers, owner>> /\ UNCHANGED <<records, preview, proposal, analysis>>
    BY <1>4 DEF OpenLead
  <2> QED
    BY <1>1, <2>5, <2>6 DEF RelationsGrow, RelationsTyped
<1>5. CASE ConfirmSalesAnalysis(c)
  <2>1. PICK u \in Customers :
            /\ Own({c}, u)
            /\ lead' = [lead EXCEPT ![c].customer = u,
                                    ![c].status = IF @ = "won" THEN @ ELSE "open"]
    BY <1>5 DEF ConfirmSalesAnalysis
  <2>2. PICK s : s = IF lead[c].status = "won" THEN "won" ELSE "open"
    OBVIOUS
  <2>3. PICK row : row = [lead[c] EXCEPT !.customer = u, !.status = s]
    OBVIOUS
  <2>4. lead[c] \in LeadRow /\ lead = [x \in Conversations |-> lead[x]]
    BY <1>1 DEF RelationsTyped
  <2>5. row \in LeadRow
    BY <2>2, <2>3, <2>4 DEF LeadRow, Someone
  <2>6. LeadPut(c, row)
    BY <2>1, <2>2, <2>3, <2>4 DEF LeadPut
  <2>7. lead' \in [Conversations -> LeadRow]
    BY <1>1, <2>5, <2>6, LeadTyped
  <2>8. UNCHANGED <<records, preview, proposal, analysis>>
    BY <1>5 DEF ConfirmSalesAnalysis
  <2> QED
    BY <1>1, <2>1, <2>7, <2>8, OwnGrows
<1>6. CASE ConvertLead(c)
  <2>1. PICK u \in Customers :
            Own({c}, u) /\ lead' = [lead EXCEPT ![c] = [status |-> "won", customer |-> u]]
    BY <1>6 DEF ConvertLead
  <2>2. PICK row : row = [status |-> "won", customer |-> u]
    OBVIOUS
  <2>3. row \in LeadRow /\ LeadPut(c, row)
    BY <2>1, <2>2 DEF LeadRow, Someone, LeadPut
  <2>4. lead' \in [Conversations -> LeadRow]
    BY <1>1, <2>3, LeadTyped
  <2>5. UNCHANGED <<records, preview, proposal, analysis>>
    BY <1>6 DEF ConvertLead
  <2> QED
    BY <1>1, <2>1, <2>4, <2>5, OwnGrows
<1> QED
  BY <1>2, <1>3, <1>4, <1>5, <1>6 DEF ConfirmRequirementCustomer

LEMMA CommitGrows ==
    ASSUME ReqInv, NEW k \in 1..Len(preview), CommitImport(k)
    PROVE  RelationsGrow
<1>1. RelationsTyped /\ AskedTyped
  BY DEF ReqInv, RowsTyped
<1>2. PICK u : u = preview[k].customer
  OBVIOUS
<1>3. u \in Customers
  BY <1>1, <1>2, AskedTypes DEF RelationsTyped
<1>4. Own({preview[k].conv}, u) /\ lead' = lead
  BY <1>2 DEF CommitImport
<1>5. lead' \in [Conversations -> LeadRow]
  BY <1>1, <1>4 DEF RelationsTyped
<1> QED
  BY <1>1, <1>3, <1>4, <1>5, OwnGrows

LEMMA TransferGrows ==
    ASSUME ReqInv, NEW i \in Cases, NEW u \in Customers, TransferCase(i, u)
    PROVE  RelationsGrow
<1>1. RelationsTyped /\ CasesTyped
  BY DEF ReqInv, RowsTyped
<1>2. PICK l : l = case[i].lead
  OBVIOUS
<1>3. l \in Conversations \cup {"none"}
  BY <1>1, <1>2, CaseTypes
<1>4. /\ Own(case[i].sources, u)
      /\ lead' = IF l # "none" /\ lead[l].status # "won"
                 THEN [lead EXCEPT ![l].customer = u] ELSE lead
  BY <1>2 DEF TransferCase
<1>5. lead' \in [Conversations -> LeadRow]
  <2>1. CASE lead' = lead
    BY <1>1, <2>1 DEF RelationsTyped
  <2>2. CASE l \in Conversations /\ lead' = [lead EXCEPT ![l].customer = u]
    <3>1. PICK row : row = [lead[l] EXCEPT !.customer = u]
      OBVIOUS
    <3>2. lead[l] \in LeadRow
      BY <1>1, <2>2 DEF RelationsTyped
    <3>3. row \in LeadRow
      BY <3>1, <3>2 DEF LeadRow, Someone
    <3>4. LeadPut(l, row)
      BY <2>2, <3>1 DEF LeadPut
    <3> QED
      BY <1>1, <2>2, <3>3, <3>4, LeadTyped
  <2> QED
    BY <1>3, <1>4, <2>1, <2>2
<1> QED
  BY <1>1, <1>4, <1>5, OwnGrows

\* What is not an operation of Requirements.
Still == UNCHANGED reqVars /\ owner' \in [Conversations -> Someone]

LEMMA CalledOwner ==
    ASSUME NEW g, NEW by, Called(g, by)
    PROVE  owner' = owner
BY DEF Called, KeyRead

LEMMA SyncOwner ==
    ASSUME RelationsTyped, SyncNext
    PROVE  owner' \in [Conversations -> Someone]
<1>1. owner \in [Conversations -> Someone]
  BY DEF RelationsTyped
<1>2. CASE \E c \in Conversations : Relink(c)
  <2>1. PICK c \in Conversations, u \in Customers : owner' = [owner EXCEPT ![c] = u]
    BY <1>2 DEF Relink
  <2> QED
    BY <1>1, <2>1 DEF Someone
<1>3. CASE owner' = owner
  BY <1>1, <1>3
<1>4. CASE Access
  <2>1. Grants => owner' = owner
    BY DEF Grants, CreateGrant, ReplaceTunnel, CreateKey
  <2>2. Endings => owner' = owner
    BY DEF Endings, RevokeGrant, RevokeKey, Expire, RevokeTunnel, ChangeGroup
  <2>3. Surroundings => owner' = owner \/ \E c \in Conversations : Relink(c)
    BY DEF Surroundings, IssueToken, Reconfigure
  <2>4. PlainReads => owner' = owner
    BY DEF PlainReads, SlotRead, CapabilityRead, KeyRead, TokenRead
  <2> QED
    BY <1>2, <1>3, <1>4, <2>1, <2>2, <2>3, <2>4 DEF Access, AccessNext
<1>5. CASE Message \/ \E i \in Images : Archive(i)
  BY <1>3, <1>5 DEF Message, Archive, accessVars
<1>6. CASE Reads
  <2>1. PICK g \in Granted, by \in Identities \cup {"tunnel"} :
            \/ ReadText(g, by) \/ ReadManifest(g, by) \/ ReadTimeline(g, by)
            \/ \E i \in Images : ReadImage(g, by, i)
            \/ \E b \in Batches :
                  \/ \E summed \in BOOLEAN : ConfirmText(g, by, b, summed)
                  \/ ConfirmImages(g, by, b)
    BY <1>6 DEF Reads
  <2>2. ReadText(g, by) => Called(g, by)
    BY DEF ReadText
  <2>3. ReadManifest(g, by) \/ ReadTimeline(g, by) => Called(g, by)
    BY DEF ReadManifest, ReadTimeline, ManifestRead
  <2>4. \A i \in Images : ReadImage(g, by, i) => Called(g, by)
    BY DEF ReadImage
  <2>5. \A b \in Batches : \A summed \in BOOLEAN : ConfirmText(g, by, b, summed) => Called(g, by)
    BY DEF ConfirmText
  <2>6. \A b \in Batches : ConfirmImages(g, by, b) => Called(g, by)
    BY DEF ConfirmImages
  <2>7. Called(g, by)
    BY <2>1, <2>2, <2>3, <2>4, <2>5, <2>6
  <2> QED
    BY <1>3, <2>7, CalledOwner
<1> QED
  BY <1>4, <1>5, <1>6 DEF SyncNext

\* The steps by which the requirements change.
ReqStep ==
    \/ Still
    \/ \E c \in Conversations :
          \/ ConfirmRequirementCustomer(c) \/ ConfirmSalesAnalysis(c)
          \/ OpenLead(c) \/ ConvertLead(c)
    \/ \E c : CreateCustomer(c)
    \/ Importing \/ CaseWork \/ Proposing \/ Analysing

LEMMA SetupRelates ==
    ASSUME setup \in Setups
    PROVE  setup.relates \subseteq Conversations
<1>1. setup \in [ways : SUBSET Ways, modes : SUBSET {"tunnel", "oauth"},
                 perms : SUBSET Permissions, ends : BOOLEAN,
                 relink : BOOLEAN, threads : SUBSET Threads, grants : 0..MaxGrants,
                 reads : Nat, messages : Nat, images : BOOLEAN,
                 batches : Nat, fresh : SUBSET Conversations,
                 relates : SUBSET Conversations, imports : Nat, proposals : Nat,
                 versions : Nat, tasks : Nat, stops : Nat, uploads : Nat,
                 answers : Nat, moves : BOOLEAN]
  BY AccessAssumption
<1>2. setup.relates \in SUBSET Conversations
  BY <1>1, SMT
<1> QED
  BY <1>2

LEMMA ReqSteps ==
    ASSUME ReqInv, GrantsInv, [Next]_vars
    PROVE  ReqStep
<1>1. RelationsTyped /\ owner \in [Conversations -> Someone]
  BY DEF ReqInv, RowsTyped, RelationsTyped
<1>2. CASE UNCHANGED <<syncVars, reqVars>>
  BY <1>1, <1>2 DEF syncVars, accessVars, Still, ReqStep
<1>3. CASE UNCHANGED caseVars
  BY <1>2, <1>3 DEF caseVars
<1>4. CASE UNCHANGED vars
  BY <1>3, <1>4 DEF vars
<1>5. CASE Elsewhere
  <2>1. CaseNext
    BY <1>5 DEF Elsewhere
  <2>2. CASE Work
    <3>1. ReqNext
      BY <2>2 DEF Work
    <3>2. Outside => Still
      BY <1>1, SyncOwner DEF Outside, Still
    <3>3. setup.relates \subseteq Conversations
      BY SetupRelates DEF GrantsInv, GrantsTypeOK
    <3>4. Relating => \E c \in Conversations :
              ConfirmRequirementCustomer(c) \/ ConfirmSalesAnalysis(c) \/ OpenLead(c) \/ ConvertLead(c)
      BY <3>3 DEF Relating
    <3> QED
      BY <3>1, <3>2, <3>4 DEF ReqNext, ReqStep
  <2> QED
    BY <1>2, <2>1, <2>2 DEF CaseNext
<1>6. CASE \E t \in AgentThreads, c \in Conversations : UpdateThread(t, c)
  <2>1. UNCHANGED reqVars /\ owner' = owner
    BY <1>6 DEF UpdateThread, Rescope
  <2> QED
    BY <1>1, <2>1 DEF Still, ReqStep
<1>7. CASE \E t \in AgentThreads : DeleteThread(t)
  <2>1. UNCHANGED reqVars /\ owner' = owner
    BY <1>7 DEF DeleteThread
  <2> QED
    BY <1>1, <2>1 DEF Still, ReqStep
<1>8. CASE \E t \in AgentThreads : \E full \in BOOLEAN : SubmitMessage(t, full)
  BY <1>3, <1>8 DEF SubmitMessage
<1>9. CASE \E r \in Runs : CancelRun(r)
  BY <1>3, <1>9 DEF CancelRun
<1>10. CASE \E r \in Runs : ConfirmCustomerCreate(r)
  BY <1>10 DEF ConfirmCustomerCreate, ReqStep
<1>11. CASE \E r \in Runs : RunStep(r)
  <2>1. UNCHANGED caseVars
    BY <1>11 DEF RunStep, PrepareRun, ExecuteTools, ReadTop, ReadTexts, ToolReturns,
                GenerateAnswer, ModelReturns, PersistAnswer, PublishCompleted
  <2> QED
    BY <1>3, <2>1
<1> QED
  BY <1>4, <1>5, <1>6, <1>7, <1>8, <1>9, <1>10, <1>11 DEF Next, Asking

LEMMA Unrelated ==
    ASSUME ReqInv, UNCHANGED <<owner, relations>>
    PROVE  RelationsGrow
BY RelationsSame DEF ReqInv, RowsTyped, RelationsTyped

LEMMA ReqKept ==
    ASSUME ReqInv, GrantsInv, [Next]_vars
    PROVE  ReqInv'
<1>1. GrantsStand
  BY AccessSteps, AllOnward, OnwardStands
<1>2. ReqStep
  BY ReqSteps
<1>3. CASE Still
  <2>1. /\ UNCHANGED <<relations, records, preview, proposal, analysis>>
        /\ owner' \in [Conversations -> Someone]
    BY <1>3 DEF Still, reqVars
  <2>2. RelationsGrow
    BY <2>1, RelationsSame DEF ReqInv, RowsTyped
  <2> QED
    BY <1>1, <2>1, <2>2, RestKeepsReq
<1>4. CASE \/ \E c : CreateCustomer(c)
           \/ \E c \in Conversations :
                 \/ ConfirmRequirementCustomer(c) \/ ConfirmSalesAnalysis(c)
                 \/ OpenLead(c) \/ ConvertLead(c)
  <2>1. RelationsGrow /\ UNCHANGED <<records, preview, proposal, analysis>>
    BY <1>4, CreateGrows, RelatingGrows
  <2> QED
    BY <1>1, <2>1, RestKeepsReq
<1>5. CASE Importing
  <2>1. ASSUME NEW c \in Conversations, NEW u \in Customers, NEW i \in 0..Len(case),
               PreviewImport(c, u, i)
        PROVE  ReqInv'
    <3>1. RelationsGrow
      BY <2>1, Unrelated DEF PreviewImport
    <3> QED
      BY <1>1, <2>1, <3>1, PreviewKeeps
  <2>2. ASSUME NEW k \in 1..Len(preview), CommitImport(k) PROVE ReqInv'
    BY <1>1, <2>2, CommitGrows, CommitKeeps
  <2>3. ASSUME NEW k \in 1..Len(preview), ExpirePreview(k) PROVE ReqInv'
    <3>1. RelationsGrow
      BY <2>3, Unrelated DEF ExpirePreview
    <3> QED
      BY <1>1, <2>3, <3>1, ExpirePreviewKeeps
  <2> QED
    BY <1>5, <2>1, <2>2, <2>3 DEF Importing
<1>6. CASE CaseWork
  <2>1. ASSUME NEW i \in Cases, EditCase(i) PROVE ReqInv'
    <3>1. RelationsGrow
      BY <2>1, Unrelated DEF EditCase
    <3> QED
      BY <1>1, <2>1, <3>1, EditKeeps
  <2>2. ASSUME NEW i \in Cases, LinkProject(i) PROVE ReqInv'
    <3>1. RelationsGrow
      BY <2>2, Unrelated DEF LinkProject
    <3> QED
      BY <1>1, <2>2, <3>1, LinkKeeps
  <2>3. ASSUME NEW i \in Cases, NEW u \in Customers, TransferCase(i, u) PROVE ReqInv'
    BY <1>1, <2>3, TransferGrows, TransferKeeps
  <2> QED
    BY <1>6, <2>1, <2>2, <2>3 DEF CaseWork
<1>7. CASE Proposing
  <2>1. ASSUME NEW g \in Granted, NEW by, NEW i \in 0..Len(case), Propose(g, by, i)
        PROVE  ReqInv'
    <3>1. RelationsGrow
      BY <2>1, Unrelated DEF Propose
    <3> QED
      BY <1>1, <2>1, <3>1, ProposeKeeps
  <2>2. ASSUME NEW p \in 1..Len(proposal), Confirmed(p) PROVE ReqInv'
    <3>1. RelationsGrow
      BY <2>2, Unrelated DEF Confirmed
    <3> QED
      BY <1>1, <2>2, <3>1, ConfirmedKeeps
  <2>3. ASSUME NEW p \in 1..Len(proposal), ExpireProposal(p) PROVE ReqInv'
    <3>1. RelationsGrow
      BY <2>3, Unrelated DEF ExpireProposal
    <3> QED
      BY <1>1, <2>3, <3>1, ExpireProposalKeeps
  <2> QED
    BY <1>7, <2>1, <2>2, <2>3 DEF Proposing, ConfirmHere, ConfirmOutside
<1>8. CASE Analysing
  <2>1. AnalysisStep
    BY <1>8 DEF Analysing, Enqueue, Cancel, TakeTask, Answer, EndTask, Start, Stop
  <2>2. RelationsGrow
    BY <2>1, Unrelated DEF AnalysisStep
  <2> QED
    BY <1>1, <1>8, <2>2, EnqueueKeeps, CancelTaskKeeps, TakeKeeps, EndKeeps, StopKeeps, StartKeeps
       DEF Analysing, Answer
<1> QED
  BY <1>2, <1>3, <1>4, <1>5, <1>6, <1>7, <1>8 DEF ReqStep

LEMMA ReqAlways == Spec => []ReqInv
<1>1. ReqInv /\ GrantsInv /\ [Next]_vars => ReqInv'
  BY ReqKept
<1> QED
  BY <1>1, ReqInit0, GrantsAlways, PTL DEF Spec

-----------------------------------------------------------------------------
(* What the invariant says of the cases.                                   *)

LEMMA CasesFollow ==
    ASSUME ReqInv, GrantsInv
    PROVE  CasesHold
<1>1. /\ CasesTyped /\ AskedTyped /\ TasksTyped /\ VersionsFit /\ SourcesFit /\ AuthorsFit
      /\ TasksFit
  BY DEF ReqInv, RowsTyped
<1>2. ASSUME NEW i \in Cases
      PROVE  LET versions == {d \in docs : d.case = i} IN
             /\ {d.num : d \in versions} = 1..case[i].current
             /\ Cardinality(versions) = case[i].current
             /\ case[i].sources =
                   {d.conv : d \in {e \in versions : e.conv # "none"}}
                       \cup UNION {grant[proposal[p].grant].scope :
                                      p \in {q \in 1..Len(proposal) : proposal[q].result = i}}
  <2> DEFINE versions == {d \in docs : d.case = i}
             n == case[i].current
             ways == {q \in 1..Len(proposal) : proposal[q].result = i}
  <2>1. i # 0 /\ n \in Nat
    BY <1>1, CaseTypes
  <2>2. \A d \in versions : d.num \in 1..n
    BY <1>1, <2>1 DEF VersionsFit
  <2>3. \A m \in 1..n : \E d \in versions : d.num = m
    BY <1>1 DEF VersionsFit
  <2>4. \A d, e \in versions : d.num = e.num => d = e
    BY <1>1, <2>1 DEF VersionsFit
  <2>5. {d.num : d \in versions} = 1..n
    BY <2>2, <2>3
  <2>6. Cardinality(versions) = n
    <3> DEFINE f == [d \in versions |-> d.num]
    <3>1. f \in [versions -> 1..n]
      BY <2>2
    <3>2. \A m \in 1..n : \E d \in versions : f[d] = m
      BY <2>3
    <3>3. \A d, e \in versions : f[d] = f[e] => d = e
      BY <2>4
    <3> HIDE DEF f, n, versions
    <3>4. f \in Bijection(versions, 1..n)
      <4>1. f \in Surjection(versions, 1..n)
        BY <3>1, <3>2 DEF Surjection
      <4>2. f \in Injection(versions, 1..n)
        BY <3>1, <3>3 DEF Injection, IsInjective
      <4> QED
        BY <4>1, <4>2 DEF Bijection
    <3>5. ExistsBijection(1..n, versions)
      BY <3>4, Fun_ExistsBijSymmetric DEF ExistsBijection
    <3> QED
      BY <2>1, <3>5, FS_CountingElements
  <2>7. case[i].sources = {d.conv : d \in {e \in versions : e.conv # "none"}}
                              \cup UNION {grant[proposal[p].grant].scope : p \in ways}
    <3> DEFINE taken == {d.conv : d \in {e \in versions : e.conv # "none"}}
               given == UNION {grant[proposal[p].grant].scope : p \in ways}
    <3>1. \A c : c \in taken <=> Imported(i, c) /\ c # "none"
      BY DEF Imported
    <3>2. \A c : c \in given <=> Proposed(i, c)
      BY DEF Proposed
    <3>3. given \subseteq Conversations
      <4>1. \A p \in ways : grant[proposal[p].grant] \in Grant
        BY <1>1, AskedTypes, GrantsTypes
      <4>2. \A p \in ways : grant[proposal[p].grant].scope \in SUBSET Conversations
        BY <4>1 DEF Grant
      <4> QED
        BY <4>2
    <3>4. \A c : Imported(i, c) => c \in Conversations \cup {"none"}
      BY <1>1, CaseTypes DEF Imported
    <3>5. case[i].sources \subseteq Conversations
      BY <1>1, CaseTypes
    <3>6. \A c \in Conversations : c \in case[i].sources <=> Imported(i, c) \/ Proposed(i, c)
      BY <1>1 DEF SourcesFit
    <3> HIDE DEF taken, given
    <3>7. \A c : c \in case[i].sources <=> c \in taken \/ c \in given
      BY <3>1, <3>2, <3>3, <3>4, <3>5, <3>6, RequirementsAssumption
    <3>8. case[i].sources = taken \cup given
      BY <3>7
    <3> QED
      BY <3>8 DEF taken, given
  <2> QED
    BY <2>5, <2>6, <2>7
<1>3. \A d, e \in docs : d.by = e.by /\ d.by.kind # "edit" => d = e
  BY <1>1 DEF AuthorsFit
<1>4. ASSUME NEW t \in Tasks
      PROVE  /\ (\E d \in docs : d.by = [kind |-> "task", id |-> t]) <=> task[t].status = "completed"
             /\ task[t].cancel => task[t].status # "completed"
  <2>1. ASSUME NEW d \in docs, d.by = [kind |-> "task", id |-> t]
        PROVE  task[t].status = "completed"
    <3>1. d.by.kind = "task" /\ d.by.id = t
      BY <2>1
    <3> QED
      BY <1>1, <3>1 DEF AuthorsFit, Settled
  <2> QED
    BY <1>1, <2>1 DEF TasksFit
<1>5. ASSUME NEW c \in Conversations
      PROVE  Cardinality(ActiveTasks(c)) <= 1
  <2>1. \A t, u \in ActiveTasks(c) : t = u
    BY <1>1 DEF ActiveTasks, TasksFit, InWork
  <2>2. ActiveTasks(c) = {} \/ \E t : ActiveTasks(c) = {t}
    BY <2>1
  <2>3. Cardinality(ActiveTasks(c)) \in {0, 1}
    BY <2>2, FS_EmptySet, FS_Singleton
  <2> QED
    BY <2>3
<1> QED
  BY <1>2, <1>3, <1>4, <1>5 DEF CasesHold

-----------------------------------------------------------------------------
(* Attached pictures: the inductive invariant.                             *)

Privacy == {"pending", "reviewed", "excluded"}

MaterialsTyped ==
    /\ attached \in [Spots -> {"none"} \cup Privacy]
    /\ removal \in [Spots -> {"none", "shared", "last", "unlink"}]
    /\ upload = NoUpload \/ upload.spot \in Spots
    /\ file \in BOOLEAN /\ stops \in Nat

\* A deletion that has counted its rows still has its own.
CountedFit == \A s \in Spots : removal[s] \in {"last", "shared"} => s \in Rows

\* While no upload ran beside a deletion, what each has seen of the rows and of the
\* file is still so.
UploadsFit ==
    "upload" \notin mixed =>
        /\ Rows # {} => file
        /\ upload # NoUpload => file
        /\ upload # NoUpload => Removing = {}
        /\ upload # NoUpload /\ upload.made => Rows = {}
        /\ \A s \in Spots : removal[s] = "last" => Rows \subseteq {s}
        /\ \A s \in Spots : removal[s] = "unlink" => Rows = {}

\* While no deletion ran beside another one either, somebody answers for the file.
FileFits ==
    mixed = {} =>
        /\ \A s, t \in Removing : s = t
        /\ \A s \in Spots : removal[s] = "shared" => Rows \ {s} # {}
        /\ upload # NoUpload /\ ~upload.made => Rows # {}
        /\ stops = 0 /\ file =>
              \/ Rows # {}
              \/ upload # NoUpload
              \/ \E s \in Spots : removal[s] = "unlink"

MaterialsInv == MaterialsTyped /\ CountedFit /\ UploadsFit /\ FileFits

LEMMA MaterialsInit0 == Init => MaterialsInv
<1> SUFFICES ASSUME Init PROVE MaterialsInv
  OBVIOUS
<1>1. /\ attached = [s \in Spots |-> "none"] /\ removal = [s \in Spots |-> "none"]
      /\ upload = NoUpload /\ file = FALSE /\ mixed = {} /\ stops = 0
  BY DEF Init, CaseInit, MaterialsInit, ReqInit
<1>2. Rows = {} /\ Removing = {}
  BY <1>1 DEF Rows, Removing
<1> QED
  BY <1>1, <1>2 DEF MaterialsInv, MaterialsTyped, CountedFit, UploadsFit, FileFits

\* What a step may do to the pictures: nothing, the end of the process, or one of
\* their own.
MaterialsHalt ==
    /\ upload' = NoUpload
    /\ removal' = [s \in Spots |-> "none"]
    /\ stops < setup.stops /\ stops' = stops + 1
    /\ UNCHANGED <<attached, file, uploads, mixed>>

MaterialsRest == UNCHANGED <<attached, file, upload, removal, uploads, mixed, stops>>

MaterialsStep == MaterialsRest \/ MaterialsHalt \/ (Attaching /\ stops' = stops)

LEMMA MaterialsSteps ==
    ASSUME [Next]_vars
    PROVE  MaterialsStep
<1>1. CASE UNCHANGED caseVars
  BY <1>1 DEF caseVars, reqVars, analysis, materials, MaterialsStep, MaterialsRest
<1>2. CASE UNCHANGED vars
  BY <1>1, <1>2 DEF vars
<1>3. CASE Elsewhere
  <2>1. CASE Work
    <3>1. /\ ReqNext
          /\ IF up /\ ~up'
             THEN /\ upload' = NoUpload
                  /\ removal' = [s \in Spots |-> "none"]
                  /\ UNCHANGED <<attached, file, uploads, mixed>>
             ELSE UNCHANGED materials
      BY <2>1 DEF Work
    <3>2. UNCHANGED <<up, stops>> \/ Start \/ (\E orderly \in BOOLEAN : Stop(orderly))
      BY <3>1, ReqGround
    <3>3. CASE \E orderly \in BOOLEAN : Stop(orderly)
      <4>1. up /\ ~up' /\ stops < setup.stops /\ stops' = stops + 1
        BY <3>3 DEF Stop
      <4> QED
        BY <3>1, <4>1 DEF MaterialsHalt, MaterialsStep
    <3>4. CASE UNCHANGED <<up, stops>> \/ Start
      <4>1. stops' = stops /\ ~(up /\ ~up')
        BY <3>4 DEF Start
      <4> QED
        BY <3>1, <4>1 DEF materials, MaterialsRest, MaterialsStep
    <3> QED
      BY <3>2, <3>3, <3>4
  <2>2. CASE Attaching /\ UNCHANGED <<syncVars, reqVars>>
    BY <2>2 DEF reqVars, analysis, MaterialsStep
  <2> QED
    BY <1>3, <2>1, <2>2 DEF Elsewhere, CaseNext
<1>4. CASE \E t \in AgentThreads, c \in Conversations : UpdateThread(t, c)
  BY <1>4 DEF UpdateThread, reqVars, analysis, materials, MaterialsStep, MaterialsRest
<1>5. CASE \E t \in AgentThreads : DeleteThread(t)
  BY <1>5 DEF DeleteThread, reqVars, analysis, materials, MaterialsStep, MaterialsRest
<1>6. CASE \E t \in AgentThreads : \E full \in BOOLEAN : SubmitMessage(t, full)
  BY <1>1, <1>6 DEF SubmitMessage
<1>7. CASE \E r \in Runs : CancelRun(r)
  BY <1>1, <1>7 DEF CancelRun
<1>8. CASE \E r \in Runs : ConfirmCustomerCreate(r)
  BY <1>8 DEF ConfirmCustomerCreate, CreateCustomer, analysis, materials, MaterialsStep, MaterialsRest
<1>9. CASE \E r \in Runs : RunStep(r)
  <2>1. UNCHANGED caseVars
    BY <1>9 DEF RunStep, PrepareRun, ExecuteTools, ReadTop, ReadTexts, ToolReturns,
                GenerateAnswer, ModelReturns, PersistAnswer, PublishCompleted
  <2> QED
    BY <1>1, <2>1
<1> QED
  BY <1>2, <1>3, <1>4, <1>5, <1>6, <1>7, <1>8, <1>9 DEF Next, Asking

LEMMA RestOfMaterials ==
    ASSUME MaterialsInv, MaterialsRest \/ MaterialsHalt
    PROVE  MaterialsInv'
<1>1. Rows' = Rows
  BY DEF MaterialsRest, MaterialsHalt, Rows
<1>2. CASE MaterialsRest
  BY <1>1, <1>2 DEF MaterialsInv, MaterialsTyped, CountedFit, UploadsFit, FileFits,
     MaterialsRest, Removing
<1>3. CASE MaterialsHalt
  <2>1. /\ Removing' = {} /\ upload' = NoUpload /\ \A s \in Spots : removal'[s] = "none"
        /\ UNCHANGED <<attached, file, mixed>> /\ stops' = stops + 1
    BY <1>3 DEF MaterialsHalt, Removing
  <2>2. stops \in Nat /\ stops' \in Nat /\ stops' # 0
    BY <2>1 DEF MaterialsInv, MaterialsTyped
  <2>3. MaterialsTyped'
    BY <1>3, <2>1, <2>2 DEF MaterialsInv, MaterialsTyped, MaterialsHalt
  <2>4. CountedFit' /\ UploadsFit' /\ FileFits'
    BY <1>1, <2>1, <2>2 DEF MaterialsInv, CountedFit, UploadsFit, FileFits
  <2> QED
    BY <2>3, <2>4 DEF MaterialsInv
<1> QED
  BY <1>2, <1>3

LEMMA BeginUploadKeeps ==
    ASSUME MaterialsInv, stops' = stops, NEW s \in Spots, BeginUpload(s)
    PROVE  MaterialsInv'
<1>1. /\ MaterialsTyped /\ CountedFit /\ UploadsFit /\ FileFits
      /\ upload = NoUpload /\ upload' = [spot |-> s, made |-> Rows = {} \/ ~file]
      /\ file' = TRUE /\ UNCHANGED <<attached, removal>>
      /\ mixed' = IF Removing = {} THEN mixed ELSE mixed \cup {"upload"}
  BY DEF MaterialsInv, BeginUpload
<1>2. Rows' = Rows /\ Removing' = Removing
      /\ upload'.spot = s /\ (upload'.made <=> Rows = {} \/ ~file)
  BY <1>1 DEF Rows, Removing
<1>3. MaterialsTyped'
  BY <1>1, <1>2 DEF MaterialsTyped
<1>4. CountedFit'
  BY <1>1, <1>2 DEF CountedFit
<1>5. CASE Removing = {}
  <2>1. mixed' = mixed /\ \A t \in Spots : removal[t] = "none"
    BY <1>1, <1>5 DEF Removing
  <2>2. UploadsFit'
    BY <1>1, <1>2, <1>5, <2>1 DEF UploadsFit
  <2>3. ~upload'.made => Rows # {}
    BY <1>2
  <2>4. Rows = {} => upload' # NoUpload
    <3>1. Rows = {} => upload'.made
      BY <1>2
    <3>2. ~NoUpload.made
      BY DEF NoUpload
    <3> QED
      BY <3>1, <3>2
  <2>5. /\ \A t, v \in Removing' : t = v
        /\ \A t \in Spots : removal'[t] # "shared"
    BY <1>1, <1>2, <1>5, <2>1
  <2>6. FileFits'
    BY <1>2, <2>3, <2>4, <2>5 DEF FileFits
  <2> QED
    BY <1>3, <1>4, <2>2, <2>6 DEF MaterialsInv
<1>6. CASE Removing # {}
  <2>1. "upload" \in mixed' /\ mixed' # {}
    BY <1>1, <1>6
  <2> QED
    BY <1>3, <1>4, <2>1 DEF MaterialsInv, UploadsFit, FileFits
<1> QED
  BY <1>5, <1>6

LEMMA EndUploadKeeps ==
    ASSUME MaterialsInv, stops' = stops, EndUpload
    PROVE  MaterialsInv'
<1>1. /\ MaterialsTyped /\ CountedFit /\ UploadsFit /\ FileFits
      /\ upload # NoUpload /\ upload' = NoUpload /\ UNCHANGED <<removal, mixed>>
      /\ upload.spot \in Spots /\ Removing' = Removing
  BY DEF MaterialsInv, MaterialsTyped, EndUpload, Removing
<1>2. CASE attached' = [attached EXCEPT ![upload.spot] = "pending"] /\ file' = file
  <2>1. /\ Rows' = Rows \cup {upload.spot}
        /\ attached' \in [Spots -> {"none"} \cup Privacy]
    BY <1>1, <1>2 DEF MaterialsTyped, Rows, Privacy
  <2>2. MaterialsTyped' /\ CountedFit'
    BY <1>1, <1>2, <2>1 DEF MaterialsTyped, CountedFit
  <2>3. UploadsFit'
    <3>1. "upload" \notin mixed => file /\ \A t \in Spots : removal[t] = "none"
      BY <1>1 DEF UploadsFit, Removing
    <3> QED
      BY <1>1, <1>2, <3>1 DEF UploadsFit
  <2>4. FileFits'
    BY <1>1, <2>1 DEF FileFits
  <2> QED
    BY <2>2, <2>3, <2>4 DEF MaterialsInv
<1>3. CASE file' = (file /\ ~upload.made) /\ attached' = attached
  <2>1. Rows' = Rows
    BY <1>3 DEF Rows
  <2>2. MaterialsTyped' /\ CountedFit'
    BY <1>1, <1>3, <2>1 DEF MaterialsTyped, CountedFit
  <2>3. UploadsFit'
    BY <1>1, <1>3, <2>1 DEF UploadsFit
  <2>4. FileFits'
    BY <1>1, <1>3, <2>1 DEF FileFits
  <2> QED
    BY <2>2, <2>3, <2>4 DEF MaterialsInv
<1> QED
  BY <1>2, <1>3 DEF EndUpload

LEMMA ReviewKeeps ==
    ASSUME MaterialsInv, stops' = stops, NEW s \in Spots, Review(s)
    PROVE  MaterialsInv'
<1>1. /\ MaterialsTyped /\ s \in Rows /\ UNCHANGED <<file, upload, removal, mixed>>
      /\ \E p \in Privacy : attached' = [attached EXCEPT ![s] = p]
  BY DEF MaterialsInv, Review, Privacy
<1>2. Rows' = Rows /\ Removing' = Removing /\ attached' \in [Spots -> {"none"} \cup Privacy]
  BY <1>1 DEF MaterialsTyped, Rows, Removing, Privacy
<1> QED
  BY <1>1, <1>2 DEF MaterialsInv, MaterialsTyped, CountedFit, UploadsFit, FileFits

LEMMA BeginRemovalKeeps ==
    ASSUME MaterialsInv, stops' = stops, NEW s \in Spots, BeginRemoval(s)
    PROVE  MaterialsInv'
<1> DEFINE seen == IF Rows \subseteq {s} THEN "last" ELSE "shared"
<1>1. /\ MaterialsTyped /\ CountedFit /\ UploadsFit /\ FileFits
      /\ s \in Rows /\ s \notin Removing /\ removal' = [removal EXCEPT ![s] = seen]
      /\ mixed' = mixed \cup (IF upload # NoUpload THEN {"upload"} ELSE {})
                        \cup (IF Removing # {} THEN {"deletion"} ELSE {})
      /\ UNCHANGED <<attached, file, upload>>
  BY DEF MaterialsInv, BeginRemoval, LastRow
<1>2. /\ Rows' = Rows /\ removal'[s] = seen
      /\ \A t \in Spots : t # s => removal'[t] = removal[t]
  BY <1>1 DEF MaterialsTyped, Rows
<1>3. Removing' = Removing \cup {s} /\ \A t \in Removing : t # s
  BY <1>1, <1>2 DEF Removing
<1>4. MaterialsTyped'
  BY <1>1 DEF MaterialsTyped
<1>5. CountedFit'
  BY <1>1, <1>2 DEF CountedFit
<1>6. UploadsFit'
  <2>1. "upload" \notin mixed' => "upload" \notin mixed /\ upload = NoUpload
    BY <1>1
  <2>2. \A t \in Spots : removal'[t] = "last" => (t = s /\ Rows \subseteq {s}) \/ (t # s /\ removal[t] = "last")
    BY <1>2
  <2>3. \A t \in Spots : removal'[t] = "unlink" => t # s /\ removal[t] = "unlink"
    BY <1>2
  <2> QED
    BY <1>1, <1>2, <2>1, <2>2, <2>3 DEF UploadsFit
<1>7. FileFits'
  <2>1. mixed' = {} => mixed = {} /\ upload = NoUpload /\ Removing = {}
    BY <1>1
  <2>2. \A t \in Spots : removal'[t] = "shared" => (t = s /\ Rows \ {s} # {}) \/ (t # s /\ removal[t] = "shared")
    BY <1>2
  <2> QED
    BY <1>1, <1>2, <1>3, <2>1, <2>2 DEF FileFits
<1> QED
  BY <1>4, <1>5, <1>6, <1>7 DEF MaterialsInv

LEMMA CommitRemovalKeeps ==
    ASSUME MaterialsInv, stops' = stops, NEW s \in Spots, CommitRemoval(s)
    PROVE  MaterialsInv'
<1>1. /\ MaterialsTyped /\ CountedFit /\ UploadsFit /\ FileFits
      /\ removal[s] \in {"last", "shared"} /\ attached' = [attached EXCEPT ![s] = "none"]
      /\ removal' = [removal EXCEPT ![s] = IF removal[s] = "last" THEN "unlink" ELSE "none"]
      /\ UNCHANGED <<file, upload, mixed>>
  BY DEF MaterialsInv, CommitRemoval
<1>2. /\ Rows' = Rows \ {s}
      /\ removal'[s] = IF removal[s] = "last" THEN "unlink" ELSE "none"
      /\ \A t \in Spots : t # s => removal'[t] = removal[t]
  BY <1>1 DEF MaterialsTyped, Rows
<1>3. Removing' \subseteq Removing /\ s \in Removing
  BY <1>1, <1>2 DEF Removing
<1>4. MaterialsTyped'
  BY <1>1 DEF MaterialsTyped
<1>5. CountedFit'
  BY <1>1, <1>2 DEF CountedFit
<1>6. UploadsFit'
  <2>1. \A t \in Spots : removal'[t] = "last" => removal[t] = "last"
    BY <1>2
  <2>2. \A t \in Spots : removal'[t] = "unlink" => (t = s /\ removal[s] = "last") \/ removal[t] = "unlink"
    BY <1>2
  <2> QED
    BY <1>1, <1>2, <1>3, <2>1, <2>2 DEF UploadsFit
<1>7. FileFits'
  <2> SUFFICES ASSUME mixed' = {} PROVE FileFits'
    BY DEF FileFits
  <2>1. mixed = {} /\ "upload" \notin mixed /\ \A t \in Removing : t = s
    BY <1>1, <1>3 DEF FileFits
  <2>2. upload = NoUpload
    BY <1>1, <1>3, <2>1 DEF UploadsFit
  <2>3. \A t \in Spots : removal'[t] # "shared"
    BY <1>2, <2>1 DEF Removing
  <2>4. removal[s] = "shared" => Rows' # {}
    BY <1>1, <1>2, <2>1 DEF FileFits
  <2>5. removal[s] = "last" => removal'[s] = "unlink"
    BY <1>2
  <2>6. Rows' # {} \/ \E t \in Spots : removal'[t] = "unlink"
    BY <1>1, <2>4, <2>5
  <2>7. \A t, x \in Removing' : t = x
    BY <1>3, <2>1
  <2>8. upload' = NoUpload
    BY <1>1, <2>2
  <2> QED
    BY <2>3, <2>6, <2>7, <2>8 DEF FileFits
<1> QED
  BY <1>4, <1>5, <1>6, <1>7 DEF MaterialsInv

LEMMA RemoveFileKeeps ==
    ASSUME MaterialsInv, stops' = stops, NEW s \in Spots, RemoveFile(s)
    PROVE  MaterialsInv'
<1>1. /\ MaterialsTyped /\ CountedFit /\ UploadsFit /\ FileFits
      /\ removal[s] = "unlink" /\ file' = FALSE /\ removal' = [removal EXCEPT ![s] = "none"]
      /\ UNCHANGED <<attached, upload, mixed>>
  BY DEF MaterialsInv, RemoveFile
<1>2. /\ Rows' = Rows /\ removal'[s] = "none"
      /\ \A t \in Spots : t # s => removal'[t] = removal[t]
  BY <1>1 DEF MaterialsTyped, Rows
<1>3. Removing' \subseteq Removing /\ s \in Removing
  BY <1>1, <1>2 DEF Removing
<1>4. MaterialsTyped' /\ CountedFit'
  BY <1>1, <1>2 DEF MaterialsTyped, CountedFit
<1>5. "upload" \notin mixed => Rows = {} /\ upload = NoUpload
  BY <1>1, <1>3 DEF UploadsFit
<1>6. UploadsFit'
  BY <1>1, <1>2, <1>5 DEF UploadsFit
<1>7. FileFits'
  BY <1>1, <1>2, <1>3, <1>5 DEF FileFits
<1> QED
  BY <1>4, <1>6, <1>7 DEF MaterialsInv

LEMMA MaterialsAlways == Spec => []MaterialsInv
<1>1. ASSUME MaterialsInv, [Next]_vars PROVE MaterialsInv'
  <2>1. MaterialsStep
    BY <1>1, MaterialsSteps
  <2> QED
    BY <1>1, <2>1, RestOfMaterials, BeginUploadKeeps, EndUploadKeeps, ReviewKeeps,
       BeginRemovalKeeps, CommitRemovalKeeps, RemoveFileKeeps DEF MaterialsStep, Attaching
<1> QED
  BY <1>1, MaterialsInit0, PTL DEF Spec

\* A case has each version once, from one author each, and its sources are where its
\* versions came from; what was cancelled has written nothing; and a picture that is
\* attached can be read (commit_import, edit_case, confirm, _complete,
\* delete_attachment).
THEOREM RequirementsAreKept == Spec => []RequirementsHold
<1>1. MaterialsInv => AttachmentsHold
  BY DEF MaterialsInv, UploadsFit, FileFits, AttachmentsHold
<1>2. ReqInv /\ GrantsInv /\ MaterialsInv => RequirementsHold
  BY <1>1, CasesFollow DEF RequirementsHold
<1> QED
  BY <1>2, ReqAlways, GrantsAlways, MaterialsAlways, PTL

-----------------------------------------------------------------------------
(* Where versions are written.                                             *)

\* A conversation that becomes a source is left with the customer of the case.
LEMMA WrittenLinks ==
    ASSUME CasesTyped, NEW i \in 0..Len(case), NEW u \in Customers, NEW base, NEW conv, NEW by,
           NEW more, Writes(i, u, base, conv, by, more), i # 0 => case[i].customer = u,
           NEW x \in more, LinkedIds(x) \subseteq {u}, lead' = lead, owner'[x] \in {owner[x], u}
    PROVE  case'[Place(i)].customer = u /\ LinkedIds(x)' = {u}
<1>1. /\ Len(case) \in Nat /\ Cases = 1..Len(case) /\ Cases' = 1..Len(case')
      /\ Len(case') = IF i = 0 THEN Len(case) + 1 ELSE Len(case)
      /\ Place(i) \in Cases' /\ case'[Place(i)].customer = u /\ x \in case'[Place(i)].sources
      /\ \A k \in Cases' : k # Place(i) => k \in Cases \ {i}
      /\ \A k \in Cases \ {i} : case'[k] = case[k]
  BY PlaceIs DEF Writes, Cases
<1>2. u \in LinkedIds(x)'
  BY <1>1 DEF LinkedIds
<1>3. \A k \in Cases' : x \in case'[k].sources => case'[k].customer = u
  <2>1. \A k \in Cases : x \in case[k].sources => case[k].customer \in LinkedIds(x)
    BY DEF LinkedIds
  <2> QED
    BY <1>1, <2>1
<1>4. /\ owner'[x] # "none" => owner'[x] = u
      /\ lead'[x].customer # "none" => lead'[x].customer = u
  BY DEF LinkedIds
<1>5. LinkedIds(x)' \subseteq {u}
  BY <1>3, <1>4 DEF LinkedIds
<1> QED
  BY <1>1, <1>2, <1>5

\* What VersionsInScope says of a new version d.
InScope(d) ==
    LET mine == {c \in Conversations : LinkedIds(c)' = {case'[d.case].customer}} IN
    /\ d.by.kind = "import" => d.conv \in mine
    /\ d.by.kind = "proposal" =>
          /\ Valid(proposal[d.by.id].grant)
          /\ case'[d.case].sources \subseteq mine \cap grant[proposal[d.by.id].grant].scope

LEMMA OneVersion ==
    ASSUME NEW i, NEW base, NEW conv, NEW by,
           docs' = docs \cup {Version(i, base, conv, by)}, NEW d \in docs' \ docs
    PROVE  d.case = Place(i) /\ d.by = by /\ d.conv = conv
BY DEF Version

LEMMA ImportInScope ==
    ASSUME ReqInv, GrantsStand, NEW k \in 1..Len(preview), CommitImport(k), NEW d \in docs' \ docs
    PROVE  InScope(d)
<1>1. /\ RelationsTyped /\ CasesTyped /\ AskedTyped /\ RelationsGrow
  BY CommitGrows DEF ReqInv, RowsTyped
<1>2. PICK i, u, c, l, by : /\ i = preview[k].case /\ u = preview[k].customer
                            /\ c = preview[k].conv
                            /\ l = (IF lead[c].status = "none" THEN "none" ELSE c)
                            /\ by = [kind |-> "import", id |-> k]
  OBVIOUS
<1>3. /\ i \in 0..Len(case) /\ u \in customers /\ c \in Conversations
      /\ l \in Conversations \cup {"none"} /\ k \in Nat /\ u \in Customers
  <2>1. Len(case) \in Nat /\ Len(preview) \in Nat
    BY <1>1, CaseTypes, AskedTypes
  <2>2. i \in Nat /\ i <= Len(case) /\ u \in customers /\ c \in Conversations
    BY <1>1, <1>2, AskedTypes
  <2> QED
    BY <1>1, <1>2, <2>1, <2>2 DEF RelationsTyped
<1>4. by \in Author /\ by.kind = "import"
  BY <1>2, <1>3 DEF Author
<1>5. /\ Write(i, u, CurrentOf(i), c, by, {c}, l) /\ Own({c}, u) /\ lead' = lead
      /\ LinkedIds(c) \subseteq {u} /\ (i # 0 => case[i].customer = u)
  BY <1>2 DEF CommitImport, StillFits
<1>6. /\ Writes(i, u, CurrentOf(i), c, by, {c})
      /\ docs' = docs \cup {Version(i, CurrentOf(i), c, by)}
  BY <1>1, <1>3, <1>4, <1>5, VersionKeeps
<1>7. owner'[c] = u
  BY <1>3, <1>5 DEF Own
<1>8. case'[Place(i)].customer = u /\ LinkedIds(c)' = {u}
  BY <1>1, <1>3, <1>5, <1>6, <1>7, WrittenLinks
<1>9. d.case = Place(i) /\ d.by = by /\ d.conv = c
  BY <1>6, OneVersion
<1> QED
  BY <1>3, <1>4, <1>8, <1>9 DEF InScope

LEMMA ConfirmedInScope ==
    ASSUME ReqInv, GrantsInv, GrantsStand, NEW p \in 1..Len(proposal), Confirmed(p),
           NEW d \in docs' \ docs
    PROVE  InScope(d)
<1>1. /\ RelationsTyped /\ CasesTyped /\ AskedTyped /\ RelationsGrow
      /\ UNCHANGED <<owner, lead>>
  BY Unrelated DEF ReqInv, RowsTyped, Confirmed, relations
<1>2. PICK i, u, g, by, given : /\ i = proposal[p].case /\ u = proposal[p].customer
                                /\ g = proposal[p].grant /\ given = grant[g].scope
                                /\ by = [kind |-> "proposal", id |-> p]
  OBVIOUS
<1>3. /\ i \in 0..Len(case) /\ u \in customers /\ p \in Nat /\ given \in SUBSET Conversations
      /\ u \in Customers
  <2>1. Len(case) \in Nat /\ Len(proposal) \in Nat
    BY <1>1, CaseTypes, AskedTypes
  <2>2. i \in Nat /\ i <= Len(case) /\ u \in customers /\ g \in Granted
    BY <1>1, <1>2, AskedTypes
  <2>3. grant[g] \in Grant
    BY <2>2, GrantsTypes
  <2>4. given \in SUBSET Conversations
    BY <1>2, <2>3 DEF Grant
  <2> QED
    BY <1>1, <2>1, <2>2, <2>4 DEF RelationsTyped
<1>4. by \in Author /\ by.kind = "proposal" /\ by.id = p
  BY <1>2, <1>3 DEF Author
<1>5. CurrentOf(i) = proposal[p].expected
  BY <1>1, <1>2, AskedTypes DEF CurrentOf, Confirmed, CaseUnchanged
<1>6. /\ Write(i, u, CurrentOf(i), "none", by, given, "none") /\ Valid(g)
      /\ \A c \in given : LinkedIds(c) = {u}
      /\ i # 0 => case[i].customer = u /\ case[i].sources \subseteq given
  BY <1>2, <1>5 DEF Confirmed, SourceHolds, SourceIs, CaseUnchanged
<1>7. /\ Writes(i, u, CurrentOf(i), "none", by, given)
      /\ docs' = docs \cup {Version(i, CurrentOf(i), "none", by)}
  <2>1. \A l \in Conversations \cup {"none"} : \A c \in Conversations \cup {"none"} :
            Write(i, u, CurrentOf(i), c, by, given, l) =>
                /\ Writes(i, u, CurrentOf(i), c, by, given)
                /\ docs' = docs \cup {Version(i, CurrentOf(i), c, by)}
    BY <1>1, <1>3, <1>4, VersionKeeps
  <2> QED
    BY <1>6, <2>1
<1>8. case'[Place(i)].sources \subseteq given
  BY <1>6, <1>7 DEF Writes
<1>9. \A c \in given : case'[Place(i)].customer = u /\ LinkedIds(c)' = {u}
  <2>1. ASSUME NEW c \in given PROVE case'[Place(i)].customer = u /\ LinkedIds(c)' = {u}
    <3>1. LinkedIds(c) \subseteq {u} /\ owner'[c] \in {owner[c], u}
      BY <1>1, <1>6
    <3> QED
      BY <1>1, <1>3, <1>6, <1>7, <3>1, WrittenLinks
  <2> QED
    BY <2>1
<1>10. d.case = Place(i) /\ d.by = by
  BY <1>7, OneVersion
<1> QED
  BY <1>2, <1>3, <1>4, <1>6, <1>8, <1>9, <1>10 DEF InScope

LEMMA EditInScope ==
    ASSUME NEW i, EditCase(i), NEW d \in docs' \ docs
    PROVE  InScope(d)
<1>1. PICK e \in docs : Write(i, case[i].customer, e.num, e.conv, [kind |-> "edit", id |-> e.num],
                              {}, "none")
  BY DEF EditCase
<1>2. d.by.kind = "edit"
  BY <1>1 DEF Write
<1> QED
  BY <1>2 DEF InScope

LEMMA EndInScope ==
    ASSUME NEW answer, EndTask(answer), NEW d \in docs' \ docs
    PROVE  InScope(d)
<1>1. d.by.kind = "task"
  BY DEF EndTask
<1> QED
  BY <1>1 DEF InScope

LEMMA NewInScope ==
    ASSUME ReqInv, GrantsInv, [Next]_vars, NEW d \in docs' \ docs
    PROVE  InScope(d)
<1>1. GrantsStand
  BY AccessSteps, AllOnward, OnwardStands
<1>2. ReqStep /\ docs' # docs
  BY ReqSteps
<1>3. CASE Still
  BY <1>2, <1>3 DEF Still, reqVars, records
<1>4. CASE \/ \E c : CreateCustomer(c)
           \/ \E c \in Conversations :
                 \/ ConfirmRequirementCustomer(c) \/ ConfirmSalesAnalysis(c)
                 \/ OpenLead(c) \/ ConvertLead(c)
  <2>1. UNCHANGED records
    BY <1>4, CreateGrows, RelatingGrows
  <2> QED
    BY <1>2, <2>1 DEF records
<1>5. CASE Importing
  <2>1. ASSUME NEW c, NEW u, NEW i, PreviewImport(c, u, i) PROVE docs' = docs
    BY <2>1 DEF PreviewImport, records
  <2>2. ASSUME NEW k, ExpirePreview(k) PROVE docs' = docs
    BY <2>2 DEF ExpirePreview, records
  <2>3. PICK k \in 1..Len(preview) : CommitImport(k)
    BY <1>2, <1>5, <2>1, <2>2 DEF Importing
  <2> QED
    BY <1>1, <2>3, ImportInScope
<1>6. CASE CaseWork
  <2>1. ASSUME NEW i, LinkProject(i) PROVE docs' = docs
    BY <2>1 DEF LinkProject
  <2>2. ASSUME NEW i, NEW u, TransferCase(i, u) PROVE docs' = docs
    BY <2>2 DEF TransferCase
  <2>3. PICK i \in Cases : EditCase(i)
    BY <1>2, <1>6, <2>1, <2>2 DEF CaseWork
  <2> QED
    BY <2>3, EditInScope
<1>7. CASE Proposing
  <2>1. ASSUME NEW g, NEW by, NEW i, Propose(g, by, i) PROVE docs' = docs
    BY <2>1 DEF Propose, records
  <2>2. ASSUME NEW p, ExpireProposal(p) PROVE docs' = docs
    BY <2>2 DEF ExpireProposal, records
  <2>3. PICK p \in 1..Len(proposal) : Confirmed(p)
    BY <1>2, <1>7, <2>1, <2>2 DEF Proposing, ConfirmHere, ConfirmOutside
  <2> QED
    BY <1>1, <2>3, ConfirmedInScope
<1>8. CASE Analysing
  <2>1. \/ docs' = docs
        \/ \E answer \in {"completed", "failed"} : EndTask(answer)
    BY <1>8 DEF Analysing, Enqueue, Cancel, TakeTask, Answer, Start, Stop
  <2> QED
    BY <1>2, <2>1, EndInScope
<1> QED
  BY <1>2, <1>3, <1>4, <1>5, <1>6, <1>7, <1>8 DEF ReqStep

\* Whatever happened since the preview, the proposal or the grant, a version is
\* written only where the relations are clear: an imported conversation is left with
\* the case's customer alone, and so are all sources of a case a proposal goes to,
\* whose grant is in force and covers them (commit_import, _source, confirm).
THEOREM VersionsStayInScope == Spec => VersionsInScope
<1>1. ASSUME ReqInv, GrantsInv, [Next]_vars
      PROVE  [\A d \in docs' \ docs :
                LET mine == {c \in Conversations : LinkedIds(c)' = {case'[d.case].customer}} IN
                /\ d.by.kind = "import" => d.conv \in mine
                /\ d.by.kind = "proposal" =>
                      /\ Valid(proposal[d.by.id].grant)
                      /\ case'[d.case].sources
                            \subseteq mine \cap grant[proposal[d.by.id].grant].scope]_vars
  BY <1>1, NewInScope DEF InScope
<1> QED
  BY <1>1, ReqAlways, GrantsAlways, PTL DEF Spec, VersionsInScope


-----------------------------------------------------------------------------
(* The types of the family.                                                *)

\* Stops and uploads are counted up to what the setup allows.
CountsFit ==
    /\ upload \in [spot : Spots \cup {"none"}, made : BOOLEAN]
    /\ uploads \in 0..setup.uploads /\ stops \in 0..setup.stops
    /\ mixed \subseteq {"upload", "deletion"}

LEMMA Limits ==
    ASSUME setup \in Setups
    PROVE  setup.stops \in Nat /\ setup.uploads \in Nat
<1>1. setup \in [ways : SUBSET Ways, modes : SUBSET {"tunnel", "oauth"},
                 perms : SUBSET Permissions, ends : BOOLEAN,
                 relink : BOOLEAN, threads : SUBSET Threads, grants : 0..MaxGrants,
                 reads : Nat, messages : Nat, images : BOOLEAN,
                 batches : Nat, fresh : SUBSET Conversations,
                 relates : SUBSET Conversations, imports : Nat, proposals : Nat,
                 versions : Nat, tasks : Nat, stops : Nat, uploads : Nat,
                 answers : Nat, moves : BOOLEAN]
  BY AccessAssumption
<1> QED
  BY <1>1

LEMMA CountsInit == Init => CountsFit
<1> SUFFICES ASSUME Init PROVE CountsFit
  OBVIOUS
<1>1. upload = NoUpload /\ uploads = 0 /\ stops = 0 /\ mixed = {} /\ setup \in Setups
  BY DEF Init, CaseInit, SyncInit, AccessInit, ReqInit, MaterialsInit
<1>2. NoUpload \in [spot : Spots \cup {"none"}, made : BOOLEAN]
  BY DEF NoUpload
<1> QED
  BY <1>1, <1>2, Limits DEF CountsFit

LEMMA CountsKept ==
    ASSUME CountsFit, setup \in Setups, setup' = setup, MaterialsStep
    PROVE  CountsFit'
<1>1. setup.stops \in Nat /\ setup.uploads \in Nat
  BY Limits
<1>2. NoUpload \in [spot : Spots \cup {"none"}, made : BOOLEAN]
  BY DEF NoUpload
<1>3. CASE MaterialsRest
  BY <1>3 DEF CountsFit, MaterialsRest
<1>4. CASE MaterialsHalt
  BY <1>1, <1>2, <1>4 DEF CountsFit, MaterialsHalt
<1>5. CASE stops' = stops /\ \E s \in Spots : BeginUpload(s)
  <2>1. PICK s \in Spots : BeginUpload(s)
    BY <1>5
  <2>2. upload' \in [spot : Spots \cup {"none"}, made : BOOLEAN]
    <3>1. (Rows = {} \/ ~file) \in BOOLEAN
      OBVIOUS
    <3> QED
      BY <2>1, <3>1 DEF BeginUpload
  <2>3. uploads' \in 0..setup.uploads /\ mixed' \subseteq {"upload", "deletion"}
    BY <1>1, <2>1 DEF BeginUpload, CountsFit
  <2> QED
    BY <1>5, <2>2, <2>3 DEF CountsFit
<1>6. CASE stops' = stops /\ EndUpload
  BY <1>2, <1>6 DEF CountsFit, EndUpload
<1>7. CASE stops' = stops /\ \E s \in Spots : BeginRemoval(s)
  BY <1>7 DEF CountsFit, BeginRemoval
<1>8. CASE stops' = stops /\ \E s \in Spots :
              Review(s) \/ CommitRemoval(s) \/ RemoveFile(s)
  BY <1>8 DEF CountsFit, Review, CommitRemoval, RemoveFile
<1> QED
  BY <1>3, <1>4, <1>5, <1>6, <1>7, <1>8 DEF MaterialsStep, Attaching

LEMMA SetupStays ==
    ASSUME [Next]_vars
    PROVE  setup' = setup
<1>1. AgentStep
  BY AgentSteps
<1>2. CASE AgentsRest \/ AgentsHalt \/ AgentsRecover
  BY <1>2 DEF AgentsRest, AgentsHalt, AgentsRecover, GroundKept
<1>3. CASE \E t \in AgentThreads, c \in Conversations : UpdateThread(t, c)
  BY <1>3 DEF UpdateThread, Rescope
<1>4. CASE \E t \in AgentThreads : DeleteThread(t)
  BY <1>4 DEF DeleteThread
<1>5. ASSUME UNCHANGED caseVars PROVE setup' = setup
  BY <1>5, CaseVarsGround DEF GroundKept
<1>6. CASE \E t \in AgentThreads : \E full \in BOOLEAN : SubmitMessage(t, full)
  BY <1>5, <1>6 DEF SubmitMessage
<1>7. CASE \E r \in Runs : CancelRun(r)
  BY <1>5, <1>7 DEF CancelRun
<1>8. CASE \E r \in Runs : RunStep(r)
  BY <1>5, <1>8 DEF RunStep, PrepareRun, ExecuteTools, ReadTop, ReadTexts, ToolReturns,
              GenerateAnswer, ModelReturns, PersistAnswer, PublishCompleted
<1> QED
  BY <1>1, <1>2, <1>3, <1>4, <1>6, <1>7, <1>8 DEF AgentStep

LEMMA CountsAlways == Spec => []CountsFit
<1>1. ASSUME CountsFit, GrantsInv, [Next]_vars PROVE CountsFit'
  <2>1. setup \in Setups /\ setup' = setup
    BY <1>1, SetupStays DEF GrantsInv, GrantsTypeOK
  <2> QED
    BY <1>1, <2>1, MaterialsSteps, CountsKept
<1> QED
  BY <1>1, CountsInit, GrantsAlways, PTL DEF Spec

LEMMA AccessTypes ==
    ASSUME GrantsInv, ReqInv
    PROVE  AccessTypeOK
BY DEF GrantsInv, GrantsTypeOK, ReqInv, RowsTyped, RelationsTyped, AccessTypeOK, Someone

LEMMA SyncTypes ==
    ASSUME BatchesInv, GrantsInv
    PROVE  SyncTypeOK
<1>1. /\ ContentTyped /\ StatesTyped /\ BatchesTyped
      /\ \A s \in DOMAIN sync : ScopeFits(s)
  BY DEF BatchesInv
<1>2. setup.messages \in Nat /\ setup.batches \in Nat
  BY SyncSizes DEF GrantsInv, GrantsTypeOK
<1>3. lastMsg \in 0..setup.messages /\ image \in [Images -> {"none", "pending", "stored", "deleted"}]
      /\ horizon \in [Granted -> 0..lastMsg]
  BY <1>1, <1>2 DEF ContentTyped, ImageStates
<1>4. lastBatch \in Nat /\ lastBatch \in 0..setup.batches /\ DOMAIN batch = Batches
  BY <1>1, <1>2 DEF BatchesTyped, Batches
<1>5. ASSUME NEW s \in DOMAIN sync
      PROVE  /\ sync[s].mark \in 0..lastMsg
             /\ sync[s].sumMark \in 0..sync[s].mark
             /\ sync[s].textV \in 0..lastBatch /\ sync[s].imageV \in Nat
  <2>1. /\ sync[s].mark \in Nat /\ sync[s].sumMark \in Nat /\ sync[s].textV \in Nat
        /\ sync[s].imageV \in Nat
    BY <1>1 DEF StatesTyped, StateRow
  <2> QED
    BY <1>1, <1>3, <1>4, <2>1 DEF StatesTyped
<1>6. ASSUME NEW b \in Batches
      PROVE  /\ batch[b].scope \in DOMAIN sync
             /\ batch[b].kind \in {"text", "image"}
             /\ batch[b].status \in {"pending", "confirmed", "superseded"}
             /\ batch[b].texts \subseteq 1..lastMsg
             /\ batch[b].read \subseteq Images
             /\ batch[b].link \in 0..lastBatch
  <2>1. batch[b] \in BatchRow
    BY <1>1 DEF BatchesTyped, Batches
  <2>2. /\ batch[b].kind \in {"text", "image"} /\ batch[b].read \subseteq Images
        /\ batch[b].status \in {"pending", "confirmed", "superseded"}
    BY <2>1 DEF BatchRow
  <2>3. CASE batch[b].kind = "text"
    <3>1. PICK s \in DOMAIN sync : s = batch[b].scope
      BY <1>1 DEF BatchesTyped
    <3>2. TextsFit(s) /\ b \in OfKind(s, "text")
      BY <1>1, <2>3, <3>1 DEF ScopeFits, TextSide, OfKind
    <3>3. batch[b].texts \subseteq Texts(s) /\ \A m \in Texts(s) : m \in 1..lastMsg
      BY <1>3, <3>2, TextsAre DEF TextsFit
    <3> QED
      BY <1>1, <2>2, <3>3 DEF BatchesTyped
  <2>4. CASE batch[b].kind = "image"
    BY <1>1, <2>2, <2>4 DEF BatchesTyped
  <2> QED
    BY <2>2, <2>3, <2>4
<1> QED
  BY <1>3, <1>4, <1>5, <1>6 DEF SyncTypeOK

LEMMA ReqTypes ==
    ASSUME ReqInv, CountsFit, GrantsInv
    PROVE  ReqTypeOK
<1>1. RelationsTyped /\ CasesTyped /\ AskedTyped /\ TasksTyped
  BY DEF ReqInv, RowsTyped
<1>2. /\ customers \subseteq Customers /\ docs \subseteq Doc
      /\ lead \in [Conversations -> [status : {"none", "open", "won"}, customer : Someone]]
  BY <1>1 DEF RelationsTyped, CasesTyped, LeadRow
<1>3. ASSUME NEW i \in Cases
      PROVE  case[i] \in [customer : customers, current : Nat, sources : SUBSET Conversations,
                          lead : Conversations \cup {"none"}, project : BOOLEAN]
  <2>1. case[i] \in CaseRow /\ case[i].customer \in customers
    BY <1>1 DEF CasesTyped, Cases
  <2> QED
    BY <2>1 DEF CaseRow
<1>4. Len(case) \in Nat /\ Len(preview) \in Nat /\ Len(proposal) \in Nat
  BY <1>1 DEF CasesTyped, AskedTyped
<1>5. ASSUME NEW k \in 1..Len(preview)
      PROVE  preview[k] \in [conv : Conversations, customer : customers, case : 0..Len(case),
                             expected : Nat, open : BOOLEAN]
  <2>1. preview[k] \in PreviewRow /\ preview[k].customer \in customers
        /\ preview[k].case <= Len(case)
    BY <1>1 DEF AskedTyped
  <2>2. preview[k].case \in 0..Len(case)
    BY <1>4, <2>1 DEF PreviewRow
  <2> QED
    BY <2>1, <2>2 DEF PreviewRow
<1>6. ASSUME NEW p \in 1..Len(proposal)
      PROVE  proposal[p] \in [grant : Granted, customer : customers, case : 0..Len(case),
                              expected : Nat, images : SUBSET Images, expired : BOOLEAN,
                              result : 0..Len(case)]
  <2>1. /\ proposal[p] \in ProposalRow
        /\ proposal[p].grant \in Granted /\ proposal[p].customer \in customers
        /\ proposal[p].case <= Len(case) /\ proposal[p].result <= Len(case)
    BY <1>1 DEF AskedTyped
  <2>2. proposal[p].case \in 0..Len(case) /\ proposal[p].result \in 0..Len(case)
    BY <1>4, <2>1 DEF ProposalRow
  <2> QED
    BY <2>1, <2>2 DEF ProposalRow
<1>7. ASSUME NEW t \in Tasks
      PROVE  task[t] \in [conv : Conversations, cancel : BOOLEAN, base : Nat,
                          status : {"pending", "running", "completed", "failed", "cancelled"}]
  <2>1. task \in Seq(TaskRow) /\ t \in 1..Len(task)
    BY <1>1 DEF TasksTyped, Tasks
  <2>2. task[t] \in TaskRow
    BY <2>1
  <2> QED
    BY <2>2 DEF TaskRow
<1>8. queue \in Seq(Tasks) /\ worker \in 0..Len(task) /\ up \in BOOLEAN
      /\ stops \in 0..setup.stops
  BY <1>1 DEF TasksTyped, CountsFit
<1> QED
  BY <1>2, <1>3, <1>5, <1>6, <1>7, <1>8 DEF ReqTypeOK

LEMMA MaterialsTypes ==
    ASSUME MaterialsInv, CountsFit
    PROVE  MaterialsTypeOK
<1>1. attached \in [Spots -> {"none", "pending", "reviewed", "excluded"}]
  <2>1. {"none"} \cup Privacy = {"none", "pending", "reviewed", "excluded"}
    BY DEF Privacy
  <2> QED
    BY <2>1 DEF MaterialsInv, MaterialsTyped
<1> QED
  BY <1>1 DEF MaterialsInv, MaterialsTyped, CountsFit, MaterialsTypeOK

LEMMA AgentTypes ==
    ASSUME AnswersInv
    PROVE  AgentTypeOK
<1>1. AnswersTypeOK
  BY DEF AnswersInv
<1>2. Len(Nodes) = 5
  BY DEF Nodes
<1>3. \A r \in Runs : run[r] \in RunRow
  BY <1>1 DEF AnswersTypeOK, Runs
<1>4. \A c \in Conversations : \A v \in 1..Len(summary[c]) : summary[c][v] \in SummaryRow
  BY <1>1 DEF AnswersTypeOK
<1> QED
  BY <1>1, <1>2, <1>3, <1>4 DEF AgentTypeOK, AnswersTypeOK, RunRow, ReadRow, SummaryRow

\* Every row that grants, batches, cases, analyses, pictures and answers leave is of
\* its table, and what it refers to exists.
THEOREM TypesHold == Spec => []TypeOK
<1>1. GrantsInv /\ BatchesInv /\ ReqInv /\ MaterialsInv /\ AnswersInv /\ CountsFit => TypeOK
  BY AccessTypes, SyncTypes, ReqTypes, MaterialsTypes, AgentTypes DEF TypeOK
<1> QED
  BY <1>1, GrantsAlways, BatchesAlways, ReqAlways, MaterialsAlways, AnswersAlways,
     CountsAlways, PTL
=============================================================================
