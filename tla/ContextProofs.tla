---------------------------- MODULE ContextProofs ----------------------------
(***************************************************************************)
(* Proofs about ContextAccess, ContextSync, Requirements,                  *)
(* RequirementMaterials and GlobalAgent, for every value of their          *)
(* constants.                                                              *)
(***************************************************************************)
EXTENDS ContextProps, FiniteSetTheorems, SequenceTheorems, WellFoundedInduction, TLAPS

-----------------------------------------------------------------------------
(* Sets of numbers.                                                        *)

LEMMA Smallest ==
    ASSUME NEW S \in SUBSET Nat, S # {}
    PROVE  \E m \in S : \A k \in S : m <= k
<1> DEFINE R == OpToRel(<, Nat)
<1>1. IsWellFoundedOn(R, Nat)
  BY NatLessThanWellFounded
<1> HIDE DEF R
<1>2. \E x \in S : \A y \in S : <<y, x>> \notin R
  BY <1>1, WFMin
<1>3. ASSUME NEW x \in Nat, NEW y \in Nat, y < x
      PROVE  <<y, x>> \in R
  BY <1>3 DEF R, OpToRel
<1>4. PICK x \in S : \A y \in S : <<y, x>> \notin R
  BY <1>2
<1>5. \A k \in S : k \in Nat /\ x \in Nat /\ ~(k < x)
  BY <1>3, <1>4
<1> QED
  BY <1>5

LEMMA Largest ==
    ASSUME NEW n \in Nat, NEW S \in SUBSET (0..n), S # {}
    PROVE  Max(S) \in S /\ \A k \in S : k <= Max(S)
<1> DEFINE T == {k \in Nat : n - k \in S}
<1>1. T \in SUBSET Nat
  OBVIOUS
<1>2. T # {}
  <2>1. PICK k \in S : TRUE
    OBVIOUS
  <2>2. n - k \in Nat /\ n - (n - k) = k
    OBVIOUS
  <2> QED
    BY <2>1, <2>2
<1>3. PICK m \in T : \A k \in T : m <= k
  BY <1>1, <1>2, Smallest
<1>4. ASSUME NEW k \in S PROVE k <= n - m
  <2>1. n - k \in T
    OBVIOUS
  <2> QED
    BY <2>1, <1>3
<1>5. \E x \in S : \A y \in S : x >= y
  BY <1>3, <1>4
<1> QED
  BY <1>5 DEF Max

-----------------------------------------------------------------------------
(* What a step may do to the access.                                       *)

\* The sizes and choices of a setup that the access rests on.
LEMMA Sizes ==
    ASSUME setup \in Setups
    PROVE  /\ setup.grants \in 0..MaxGrants
           /\ setup.perms \subseteq Permissions
           /\ setup.modes \subseteq {"tunnel", "oauth"}
           /\ setup.threads \subseteq Threads
           /\ setup.answers \in Nat
<1>1. setup \in [ways : SUBSET Ways, modes : SUBSET {"tunnel", "oauth"},
                 perms : SUBSET Permissions, ends : BOOLEAN,
                 relink : BOOLEAN, threads : SUBSET Threads, grants : 0..MaxGrants,
                 reads : Nat, messages : Nat, images : BOOLEAN,
                 batches : Nat, fresh : SUBSET Conversations,
                 relates : SUBSET Conversations, imports : Nat, proposals : Nat,
                 versions : Nat, tasks : Nat, stops : Nat, uploads : Nat,
                 answers : Nat, moves : BOOLEAN]
  BY AccessAssumption
<1>2. /\ setup.grants \in 0..MaxGrants
      /\ setup.perms \in SUBSET Permissions
  BY <1>1, SMT
<1>3. /\ setup.modes \in SUBSET {"tunnel", "oauth"}
      /\ setup.threads \in SUBSET Threads
  BY <1>1, SMT
<1>4. setup.answers \in Nat
  BY <1>1, SMT
<1> QED
  BY <1>2, <1>3, <1>4

\* The channel identities move to another customer.
OwnersChange ==
    /\ \E u : \E convs \in SUBSET Conversations :
          owner' = [c \in Conversations |-> IF c \in convs THEN u ELSE owner[c]]
    /\ UNCHANGED <<threads, rights, group, cutoff, tokenGrant, mode, audits, setup>>

\* A thread of the agent takes a new revision, perhaps with another conversation.
ThreadChanges ==
    /\ \E t \in AgentThreads :
          /\ Bump(t)
          /\ \/ bound' = bound
             \/ \E c \in Conversations : bound' = [bound EXCEPT ![t] = c]
    /\ UNCHANGED <<rights, group, owner, cutoff, tokenGrant, mode, audits, setup>>

\* An operation of ContextAccess, whatever the setup lets happen.
AccessOperation ==
    \/ Grants
    \/ \E g \in Granted : RevokeGrant(g) \/ RevokeKey(g) \/ Expire(g)
    \/ RevokeTunnel
    \/ \E members \in SUBSET Conversations : ChangeGroup(members)
    \/ Surroundings
    \/ PlainReads

AccessStep == AccessOperation \/ OwnersChange \/ ThreadChanges \/ UNCHANGED accessVars

LEMMA CalledReads ==
    ASSUME NEW g, NEW by \in Identities \cup {"tunnel"}, Called(g, by)
    PROVE  AccessStep
<1>1. g \in Granted /\ KeyRead(g, by)
  BY DEF Called, KeyRead, KeyResolved
<1> QED
  BY <1>1 DEF AccessStep, AccessOperation, PlainReads

LEMMA SyncStepsAccess ==
    ASSUME SyncNext
    PROVE  AccessStep
<1>1. CASE Access
  BY <1>1 DEF Access, AccessNext, Endings, AccessStep, AccessOperation
<1>2. CASE Message
  BY <1>2 DEF Message, AccessStep
<1>3. CASE \E i \in Images : Archive(i)
  BY <1>3 DEF Archive, AccessStep
<1>4. CASE Reads
  <2>1. PICK g \in Granted, by \in Identities \cup {"tunnel"} :
            \/ ReadText(g, by) \/ ReadManifest(g, by) \/ ReadTimeline(g, by)
            \/ \E i \in Images : ReadImage(g, by, i)
            \/ \E b \in Batches :
                  \/ \E summed \in BOOLEAN : ConfirmText(g, by, b, summed)
                  \/ ConfirmImages(g, by, b)
    BY <1>4 DEF Reads
  <2>2. ReadText(g, by) => Called(g, by)
    BY DEF ReadText
  <2>3. ReadManifest(g, by) \/ ReadTimeline(g, by) => Called(g, by)
    BY DEF ReadManifest, ReadTimeline, ManifestRead
  <2>4. \A i \in Images : ReadImage(g, by, i) => Called(g, by)
    BY DEF ReadImage
  <2>5. \A b \in Batches : \A summed \in BOOLEAN : ConfirmText(g, by, b, summed) => Called(g, by)
    BY DEF ConfirmText
  <2>6. \A b \in Batches : ConfirmImages(g, by, b) => Called(g, by)
    BY DEF ConfirmImages
  <2>7. Called(g, by)
    BY <2>1, <2>2, <2>3, <2>4, <2>5, <2>6
  <2> QED
    BY <2>7, CalledReads
<1> QED
  BY <1>1, <1>2, <1>3, <1>4 DEF SyncNext

LEMMA OwnChanges ==
    ASSUME NEW convs, NEW u, Own(convs, u), AccessKept
    PROVE  AccessStep
<1>1. owner' = [c \in Conversations |-> IF c \in convs \cap Conversations THEN u ELSE owner[c]]
  BY DEF Own
<1>2. OwnersChange
  BY <1>1 DEF OwnersChange, AccessKept
<1> QED
  BY <1>2 DEF AccessStep

LEMMA RelatingAccess ==
    ASSUME NEW c, ConfirmRequirementCustomer(c) \/ ConfirmSalesAnalysis(c)
                      \/ OpenLead(c) \/ ConvertLead(c)
    PROVE  AccessStep
<1>1. CASE OpenLead(c)
  BY <1>1 DEF OpenLead, AccessKept, AccessStep, accessVars
<1>2. CASE ~OpenLead(c)
  <2>1. PICK u : \E convs : Own(convs, u) /\ AccessKept
    BY <1>2 DEF ConfirmRequirementCustomer, CreateCustomer, ConfirmSalesAnalysis, ConvertLead
  <2> QED
    BY <2>1, OwnChanges
<1> QED
  BY <1>1, <1>2

LEMMA KeptAccess ==
    ASSUME AccessKept, UNCHANGED owner
    PROVE  AccessStep
BY DEF AccessKept, AccessStep, accessVars

LEMMA ReqStepsAccess ==
    ASSUME ReqNext
    PROVE  AccessStep
<1>1. CASE Outside
  BY <1>1, SyncStepsAccess DEF Outside
<1>2. CASE Relating
  BY <1>2, RelatingAccess DEF Relating
<1>3. CASE Importing
  <2>1. CASE \E k \in 1..Len(preview) : CommitImport(k)
    <3>1. PICK u : \E convs : Own(convs, u) /\ AccessKept
      BY <2>1 DEF CommitImport
    <3> QED
      BY <3>1, OwnChanges
  <2>2. CASE ~\E k \in 1..Len(preview) : CommitImport(k)
    BY <1>3, <2>2, KeptAccess DEF Importing, PreviewImport, ExpirePreview
  <2> QED
    BY <2>1, <2>2
<1>4. CASE CaseWork
  <2>1. CASE \E i \in Cases : \E u \in Customers : TransferCase(i, u)
    <3>1. PICK u : \E convs : Own(convs, u) /\ AccessKept
      BY <2>1 DEF TransferCase
    <3> QED
      BY <3>1, OwnChanges
  <2>2. CASE \E i \in Cases : EditCase(i) \/ LinkProject(i)
    BY <2>2, KeptAccess DEF EditCase, LinkProject
  <2> QED
    BY <1>4, <2>1, <2>2 DEF CaseWork
<1>5. CASE Proposing
  <2>1. CASE \E g \in Granted, by \in Identities \cup {"tunnel"}, i \in 0..Len(case) :
                Propose(g, by, i)
    BY <2>1, CalledReads DEF Propose
  <2>2. CASE \E p \in 1..Len(proposal) : \E by \in Identities \cup {"tunnel"} :
                ConfirmOutside(p, by)
    BY <2>2, CalledReads DEF ConfirmOutside
  <2>3. CASE \E p \in 1..Len(proposal) : ConfirmHere(p)
    BY <2>3 DEF ConfirmHere, Confirmed, AccessStep, accessVars
  <2>4. CASE \E p \in 1..Len(proposal) : ExpireProposal(p)
    BY <2>4, KeptAccess DEF ExpireProposal
  <2> QED
    BY <1>5, <2>1, <2>2, <2>3, <2>4 DEF Proposing
<1>6. CASE Analysing
  <2>1. AnalysisStep
    BY <1>6 DEF Analysing, Enqueue, Cancel, TakeTask, Answer, EndTask, Start, Stop
  <2> QED
    BY <2>1, KeptAccess DEF AnalysisStep
<1> QED
  BY <1>1, <1>2, <1>3, <1>4, <1>5, <1>6 DEF ReqNext

LEMMA AccessSteps ==
    ASSUME [Next]_vars
    PROVE  AccessStep
<1>1. CASE UNCHANGED vars
  BY <1>1 DEF vars, caseVars, syncVars, AccessStep
<1>2. CASE Elsewhere
  <2>1. CaseNext
    BY <1>2 DEF Elsewhere
  <2>2. CASE Work
    BY <2>2, ReqStepsAccess DEF Work
  <2>3. CASE UNCHANGED syncVars
    BY <2>3 DEF syncVars, AccessStep
  <2> QED
    BY <2>1, <2>2, <2>3 DEF CaseNext
<1>3. CASE \E t \in AgentThreads, c \in Conversations : UpdateThread(t, c)
  BY <1>3 DEF UpdateThread, Rescope, ThreadChanges, AccessStep
<1>4. CASE \E t \in AgentThreads : DeleteThread(t)
  BY <1>4 DEF DeleteThread, ThreadChanges, AccessStep
<1>5. CASE \E t \in AgentThreads : \E full \in BOOLEAN : SubmitMessage(t, full)
  BY <1>5 DEF SubmitMessage, caseVars, syncVars, AccessStep
<1>6. CASE \E r \in Runs : CancelRun(r)
  BY <1>6 DEF CancelRun, caseVars, syncVars, AccessStep
<1>7. CASE \E r \in Runs : ConfirmCustomerCreate(r)
  <2>1. PICK u : \E convs : Own(convs, u) /\ AccessKept
    BY <1>7 DEF ConfirmCustomerCreate, CreateCustomer
  <2> QED
    BY <2>1, OwnChanges
<1>8. CASE \E r \in Runs : RunStep(r)
  <2>1. UNCHANGED caseVars
    BY <1>8 DEF RunStep, PrepareRun, ExecuteTools, ReadTop, ReadTexts, ToolReturns,
                GenerateAnswer, ModelReturns, PersistAnswer, PublishCompleted
  <2> QED
    BY <2>1 DEF caseVars, syncVars, AccessStep
<1> QED
  BY <1>1, <1>2, <1>3, <1>4, <1>5, <1>6, <1>7, <1>8 DEF Next, Asking
-----------------------------------------------------------------------------
(* Grants and credentials: the inductive invariant.                        *)

\* AccessTypeOK without the channel identities.
GrantsTypeOK ==
    /\ revision \in [Threads -> Nat]
    /\ bound \in [Threads -> Conversations]
    /\ lastGrant \in 0..MaxGrants
    /\ DOMAIN grant = Granted /\ \A g \in Granted : grant[g] \in Grant
    /\ slot \in 0..lastGrant
    /\ key \in [Granted -> Key]
    /\ group \in [exists : BOOLEAN, members : SUBSET Conversations]
    /\ cutoff \in [Tokens -> -1..MaxGrants]
    /\ tokenGrant \in [Tokens -> 0..lastGrant]
    /\ mode \in {"tunnel", "oauth"}
    /\ audits \subseteq [by : Credential, grant : Granted]
    /\ setup \in Setups

\* The revision of a grant is not ahead of its thread's, and while it is the
\* thread's, the thread has the grant's conversation.
RevisionsFit ==
    \A g \in Granted :
        /\ grant[g].rev <= revision[grant[g].thread]
        /\ grant[g].rev = revision[grant[g].thread] => bound[grant[g].thread] = grant[g].conv

\* The slot holds tunnel grants, and the tunnel owns the keys of its mode.
OwnersFit ==
    /\ slot # 0 => grant[slot].way = "tunnel"
    /\ \A g \in Granted :
          key[g].status # "none" /\ key[g].mode = "tunnel" => key[g].owner = "tunnel"

\* What a read was authorised with.
AuditsFit ==
    \A a \in audits :
        /\ a.by.kind \in {"capability", "key"} => a.by.id = a.grant
        /\ a.by.kind = "token" => tokenGrant[a.by.id] = a.grant
        /\ a.by.kind = "key" => key[a.grant].status # "none" /\ key[a.grant].owner = a.by.by
        /\ grant[a.grant].way \in {"key", "group"} =>
              a.by.kind = "key" \/ key[a.grant].mode = "tunnel"

GrantsInv == GrantsTypeOK /\ RevisionsFit /\ OneGrantPerThread /\ OwnersFit /\ AuditsFit


LEMMA GrantsInit == Init => GrantsInv
<1> SUFFICES ASSUME Init PROVE GrantsInv
  OBVIOUS
<1>1. AccessInit
  BY DEF Init, CaseInit, SyncInit
<1>2. lastGrant = 0 /\ Granted = {} /\ slot = 0 /\ audits = {} /\ DOMAIN grant = {}
  BY <1>1 DEF AccessInit, Granted
<1>3. setup \in Setups /\ mode \in {"tunnel", "oauth"}
  BY <1>1, Sizes DEF AccessInit
<1>4. key \in [Granted -> Key] /\ tokenGrant \in [Tokens -> 0..lastGrant]
  BY <1>1, <1>2 DEF AccessInit
<1>5. bound \in [Threads -> Conversations]
  BY <1>1, AccessAssumption DEF AccessInit, Threads
<1>6. GrantsTypeOK
  BY <1>1, <1>2, <1>3, <1>4, <1>5, AccessAssumption DEF GrantsTypeOK, AccessInit
<1>7. RevisionsFit /\ OneGrantPerThread /\ OwnersFit /\ AuditsFit
  BY <1>2 DEF RevisionsFit, OneGrantPerThread, OwnersFit, AuditsFit
<1> QED
  BY <1>6, <1>7 DEF GrantsInv

\* A new grant, with a key or without.
LEMMA Granting ==
    ASSUME GrantsInv,
           NEW t \in Threads, NEW way \in Ways, NEW scope \in SUBSET Conversations,
           NEW perm \in Permissions, NEW revoked \in SUBSET Granted,
           NEW bumped \in SUBSET Threads,
           NewGrant(t, way, scope, perm, revoked, bumped),
           NEW row \in Key, NEW ended \in SUBSET Granted, key' = KeysAfter(row, ended),
           slot' = IF way = "tunnel" THEN lastGrant + 1 ELSE slot,
           UNCHANGED <<group, cutoff, tokenGrant, mode, audits, setup>>,
           \A g \in Granted : Active(g) /\ grant[g].thread \in bumped => g \in revoked,
           way = "tunnel" /\ Active(slot) => slot \in revoked \/ grant[slot].thread = t,
           \A g \in ended :
               key[g].status = "active" /\ (Active(g) => grant[g].thread = t),
           way \in {"key", "group"} => row.status = "active",
           way = "group" => scope \subseteq group.members,
           row.status # "none" /\ row.mode = "tunnel" => row.owner = "tunnel"
    PROVE  GrantsInv'
<1> DEFINE n == lastGrant + 1
<1>1. /\ lastGrant \in Nat /\ MaxGrants \in Nat
      /\ revision \in [Threads -> Nat] /\ bound \in [Threads -> Conversations]
      /\ slot \in 0..lastGrant /\ setup \in Setups
  BY AccessAssumption DEF GrantsInv, GrantsTypeOK
<1>2. lastGrant' = n /\ n \in 1..MaxGrants
  BY <1>1, Sizes DEF NewGrant
<1>3. Granted' = 1..n /\ n \notin Granted /\ Granted' = Granted \cup {n}
  BY <1>1, <1>2 DEF Granted
<1>4. /\ grant'[n] = [status |-> "active", thread |-> t, conv |-> bound[t],
                      rev |-> revision[t] + 1, way |-> way, scope |-> scope,
                      perm |-> perm, expired |-> FALSE]
      /\ DOMAIN grant' = Granted'
  BY <1>1, <1>2, <1>3 DEF NewGrant
<1>5. ASSUME NEW g \in Granted
      PROVE  /\ \/ grant'[g] = [grant[g] EXCEPT !.status = "revoked"]
                \/ grant'[g] = grant[g]
             /\ g \in ActiveOf(t) \cup revoked => grant'[g].status = "revoked"
             /\ g \notin ActiveOf(t) \cup revoked => grant'[g] = grant[g]
             /\ grant[g] \in Grant /\ grant'[g] \in Grant
  <2>1. grant[g] \in Grant
    BY DEF GrantsInv, GrantsTypeOK
  <2>2. grant'[g] = IF g \in ActiveOf(t) \cup revoked
                    THEN [grant[g] EXCEPT !.status = "revoked"] ELSE grant[g]
    BY <1>1, <1>2, <1>3 DEF NewGrant
  <2> QED
    BY <2>1, <2>2 DEF Grant
<1>6. ASSUME NEW g \in Granted
      PROVE  /\ grant'[g].thread = grant[g].thread /\ grant'[g].conv = grant[g].conv
             /\ grant'[g].rev = grant[g].rev /\ grant'[g].way = grant[g].way
             /\ grant'[g].scope = grant[g].scope
             /\ grant[g].thread \in Threads /\ grant[g].rev \in Nat
             /\ Active(g)' => Active(g) /\ g \notin revoked /\ grant[g].thread # t
  <2>1. /\ grant'[g].thread = grant[g].thread /\ grant'[g].conv = grant[g].conv
        /\ grant'[g].rev = grant[g].rev /\ grant'[g].way = grant[g].way
        /\ grant'[g].scope = grant[g].scope
        /\ grant[g].thread \in Threads /\ grant[g].rev \in Nat
    <3>1. /\ grant[g] \in Grant
          /\ \/ grant'[g] = [grant[g] EXCEPT !.status = "revoked"]
             \/ grant'[g] = grant[g]
      BY <1>5
    <3> QED
      BY <3>1 DEF Grant
  <2>2. ASSUME grant'[g].status = "active"
        PROVE  Active(g) /\ g \notin revoked /\ grant[g].thread # t
    BY <1>5, <2>2 DEF Active, ActiveOf
  <2> QED
    BY <2>1, <2>2 DEF Active
<1>7. ASSUME NEW u \in Threads
      PROVE  /\ revision'[u] = IF u = t \/ u \in bumped THEN revision[u] + 1 ELSE revision[u]
             /\ revision[u] \in Nat
  BY <1>1 DEF NewGrant
<1>8. /\ key'[n] = row
      /\ DOMAIN key' = Granted'
      /\ \A g \in Granted : key'[g] = IF g \in ended THEN [key[g] EXCEPT !.status = "revoked"]
                                      ELSE key[g]
  BY <1>1, <1>3 DEF KeysAfter
<1>9. ASSUME NEW g \in Granted
      PROVE  /\ key[g] \in Key /\ key'[g] \in Key
             /\ key'[g].mode = key[g].mode /\ key'[g].owner = key[g].owner
             /\ key'[g].status = "none" <=> key[g].status = "none" /\ g \notin ended
             /\ g \notin ended => key'[g] = key[g]
  <2>1. key[g] \in Key
    BY DEF GrantsInv, GrantsTypeOK
  <2> QED
    BY <1>8, <2>1 DEF Key
<1>10. bound' = bound
  BY DEF NewGrant
<1> HIDE DEF n
<1>11. GrantsTypeOK'
  <2>1. revision' \in [Threads -> Nat]
    BY <1>1, <1>7 DEF NewGrant
  <2>2. \A g \in Granted' : grant'[g] \in Grant
    <3>1. grant'[n] \in Grant
      BY <1>1, <1>4 DEF Grant
    <3> QED
      BY <1>3, <1>5, <3>1
  <2>3. key' \in [Granted' -> Key]
    <3>1. key' = [g \in Granted' |-> key'[g]]
      BY <1>2, <1>3, <1>8 DEF KeysAfter, n
    <3> QED
      BY <1>3, <1>8, <1>9, <3>1
  <2>4. slot' \in 0..lastGrant'
    BY <1>1, <1>2 DEF n
  <2>5. tokenGrant' \in [Tokens -> 0..lastGrant']
    <3>1. tokenGrant \in [Tokens -> 0..lastGrant]
      BY DEF GrantsInv, GrantsTypeOK
    <3>2. 0..lastGrant \subseteq 0..lastGrant'
      BY <1>1, <1>2 DEF n
    <3> QED
      BY <3>1, <3>2
  <2>6. audits' \subseteq [by : Credential', grant : Granted']
    <3>1. audits \subseteq [by : Credential, grant : Granted]
      BY DEF GrantsInv, GrantsTypeOK
    <3>2. Granted \subseteq Granted'
      BY <1>3
    <3>3. Credential' = Credential
      BY DEF Credential, GrantIds, Identities
    <3> QED
      BY <3>1, <3>2, <3>3
  <2>7. lastGrant' \in 0..MaxGrants
    BY <1>1, <1>2
  <2> QED
    BY <1>4, <1>10, <2>1, <2>2, <2>3, <2>4, <2>5, <2>6, <2>7 DEF GrantsTypeOK, GrantsInv
<1>12. RevisionsFit'
  <2> SUFFICES ASSUME NEW g \in Granted'
               PROVE  /\ grant'[g].rev <= revision'[grant'[g].thread]
                      /\ grant'[g].rev = revision'[grant'[g].thread] =>
                            bound'[grant'[g].thread] = grant'[g].conv
    BY DEF RevisionsFit
  <2>1. CASE g = n
    BY <1>1, <1>4, <1>7, <1>10, <2>1
  <2>2. CASE g \in Granted
    BY <1>6, <1>7, <1>10, <2>2 DEF GrantsInv, RevisionsFit
  <2> QED
    BY <1>3, <2>1, <2>2
<1>13. OneGrantPerThread'
  <2>1. ASSUME NEW g \in Granted', NEW h \in Granted', Active(g)', Active(h)',
               grant'[g].thread = grant'[h].thread
        PROVE  g = h
    <3>1. CASE g \in Granted /\ h \in Granted
      BY <1>6, <2>1, <3>1 DEF GrantsInv, OneGrantPerThread
    <3>2. CASE g = n \/ h = n
      BY <1>3, <1>4, <1>6, <2>1, <3>2
    <3> QED
      BY <1>3, <3>1, <3>2
  <2>2. ASSUME NEW g \in Granted', Active(g)', grant'[g].thread \in Conversations
        PROVE  grant'[g].rev = revision'[grant'[g].thread]
    <3>1. CASE g = n
      BY <1>4, <1>7, <3>1
    <3>2. CASE g \in Granted
      <4>1. Active(g) /\ g \notin revoked /\ grant[g].thread # t
        BY <1>6, <2>2, <3>2
      <4>2. grant[g].thread \notin bumped
        BY <4>1, <3>2
      <4> QED
        BY <1>6, <1>7, <2>2, <3>2, <4>1, <4>2 DEF GrantsInv, OneGrantPerThread
    <3> QED
      BY <1>3, <3>1, <3>2
  <2>3. ASSUME NEW g \in Granted', Active(g)'
        PROVE  /\ grant'[g].way = "tunnel" => g = slot'
               /\ grant'[g].way \in {"key", "group"} => key'[g].status = "active"
               /\ grant'[g].way = "group" => grant'[g].scope \subseteq group'.members
    <3>1. CASE g = n
      BY <1>4, <1>8, <3>1 DEF n
    <3>2. CASE g \in Granted
      <4>1. Active(g) /\ g \notin revoked /\ grant[g].thread # t
        BY <1>6, <2>3, <3>2
      <4>2. g \notin ended
        BY <4>1
      <4>3. /\ grant[g].way = "tunnel" => g = slot
            /\ grant[g].way \in {"key", "group"} => key[g].status = "active"
            /\ grant[g].way = "group" => grant[g].scope \subseteq group.members
        BY <3>2, <4>1 DEF GrantsInv, OneGrantPerThread
      <4>4. grant[g].way = "tunnel" => way # "tunnel"
        BY <4>1, <4>3
      <4> QED
        BY <1>6, <1>9, <3>2, <4>2, <4>3, <4>4
    <3> QED
      BY <1>3, <3>1, <3>2
  <2> QED
    BY <2>1, <2>2, <2>3 DEF OneGrantPerThread
<1>14. OwnersFit'
  <2>1. slot' # 0 => grant'[slot'].way = "tunnel"
    <3>1. CASE way = "tunnel"
      BY <1>4, <3>1 DEF n
    <3>2. CASE way # "tunnel" /\ slot # 0
      <4>1. slot \in Granted
        BY <1>1, <3>2 DEF Granted
      <4> QED
        BY <1>6, <3>2, <4>1 DEF GrantsInv, OwnersFit
    <3> QED
      BY <3>1, <3>2
  <2>2. ASSUME NEW g \in Granted', key'[g].status # "none", key'[g].mode = "tunnel"
        PROVE  key'[g].owner = "tunnel"
    <3>1. CASE g = n
      BY <1>8, <2>2, <3>1
    <3>2. CASE g \in Granted
      <4>1. key[g].status # "none"
        BY <1>9, <2>2, <3>2
      <4> QED
        BY <1>9, <2>2, <3>2, <4>1 DEF GrantsInv, OwnersFit
    <3> QED
      BY <1>3, <3>1, <3>2
  <2> QED
    BY <2>1, <2>2 DEF OwnersFit
<1>15. AuditsFit'
  <2> SUFFICES ASSUME NEW a \in audits
               PROVE  /\ a.by.kind \in {"capability", "key"} => a.by.id = a.grant
                      /\ a.by.kind = "token" => tokenGrant'[a.by.id] = a.grant
                      /\ a.by.kind = "key" => /\ key'[a.grant].status # "none"
                                              /\ key'[a.grant].owner = a.by.by
                      /\ grant'[a.grant].way \in {"key", "group"} =>
                            a.by.kind = "key" \/ key'[a.grant].mode = "tunnel"
    BY DEF AuditsFit
  <2>1. a.grant \in Granted
    BY DEF GrantsInv, GrantsTypeOK
  <2> QED
    BY <1>6, <1>9, <2>1 DEF GrantsInv, AuditsFit
<1> QED
  BY <1>11, <1>12, <1>13, <1>14, <1>15 DEF GrantsInv

\* Grants and keys end, threads and their surroundings change.
LEMMA Changing ==
    ASSUME GrantsInv,
           UNCHANGED <<lastGrant, slot, tokenGrant, audits, setup>>,
           DOMAIN grant' = Granted,
           \A g \in Granted :
               /\ grant'[g] \in Grant
               /\ grant'[g].thread = grant[g].thread /\ grant'[g].conv = grant[g].conv
               /\ grant'[g].rev = grant[g].rev /\ grant'[g].way = grant[g].way
               /\ grant'[g].scope = grant[g].scope
               /\ grant'[g].status = "active" => grant[g].status = "active",
           revision' \in [Threads -> Nat],
           bound' \in [Threads -> Conversations],
           \A u \in Threads :
               /\ revision[u] <= revision'[u]
               /\ revision'[u] = revision[u] => bound'[u] = bound[u],
           \A g \in Granted : Active(g)' /\ grant[g].thread \in Conversations =>
               revision'[grant[g].thread] = revision[grant[g].thread],
           key' \in [Granted -> Key],
           \A g \in Granted :
               /\ key'[g].mode = key[g].mode /\ key'[g].owner = key[g].owner
               /\ key'[g].status = "none" <=> key[g].status = "none"
               /\ Active(g)' => key'[g].status = key[g].status,
           group' \in [exists : BOOLEAN, members : SUBSET Conversations],
           \A g \in Granted : Active(g)' /\ grant[g].way = "group" =>
               grant[g].scope \subseteq group'.members,
           cutoff' \in [Tokens -> -1..MaxGrants],
           mode' \in {"tunnel", "oauth"}
    PROVE  GrantsInv'
<1>1. /\ Granted' = Granted
      /\ \A g \in Granted : Active(g)' => Active(g)
  BY DEF Granted, Active
<1>2. GrantsTypeOK'
  <2>1. Credential' = Credential
    BY DEF Credential, GrantIds, Identities
  <2> QED
    BY <1>1, <2>1 DEF GrantsInv, GrantsTypeOK
<1>3. RevisionsFit'
  <2> SUFFICES ASSUME NEW g \in Granted
               PROVE  /\ grant'[g].rev <= revision'[grant'[g].thread]
                      /\ grant'[g].rev = revision'[grant'[g].thread] =>
                            bound'[grant'[g].thread] = grant'[g].conv
    BY <1>1 DEF RevisionsFit
  <2> DEFINE u == grant[g].thread
  <2>1. u \in Threads /\ grant[g].rev \in Nat
    BY DEF GrantsInv, GrantsTypeOK, Grant
  <2>2. revision[u] \in Nat /\ revision'[u] \in Nat
    BY <2>1 DEF GrantsInv, GrantsTypeOK
  <2>3. /\ grant[g].rev <= revision[u]
        /\ grant[g].rev = revision[u] => bound[u] = grant[g].conv
    BY DEF GrantsInv, RevisionsFit
  <2> QED
    BY <2>1, <2>2, <2>3
<1>4. OneGrantPerThread'
  <2>1. ASSUME NEW g \in Granted, NEW h \in Granted, Active(g)', Active(h)',
               grant'[g].thread = grant'[h].thread
        PROVE  g = h
    BY <1>1, <2>1 DEF GrantsInv, OneGrantPerThread
  <2>2. ASSUME NEW g \in Granted, Active(g)', grant'[g].thread \in Conversations
        PROVE  grant'[g].rev = revision'[grant'[g].thread]
    BY <1>1, <2>2 DEF GrantsInv, OneGrantPerThread
  <2>3. ASSUME NEW g \in Granted, Active(g)'
        PROVE  /\ grant'[g].way = "tunnel" => g = slot'
               /\ grant'[g].way \in {"key", "group"} => key'[g].status = "active"
               /\ grant'[g].way = "group" => grant'[g].scope \subseteq group'.members
    BY <1>1, <2>3 DEF GrantsInv, OneGrantPerThread
  <2> QED
    BY <1>1, <2>1, <2>2, <2>3 DEF OneGrantPerThread
<1>5. OwnersFit'
  <2>1. slot \in 0..lastGrant /\ lastGrant \in Nat
    BY AccessAssumption DEF GrantsInv, GrantsTypeOK
  <2>2. slot # 0 => slot \in Granted
    BY <2>1 DEF Granted
  <2>3. slot' # 0 => grant'[slot'].way = "tunnel"
    BY <2>2 DEF GrantsInv, OwnersFit
  <2>4. ASSUME NEW g \in Granted, key'[g].status # "none", key'[g].mode = "tunnel"
        PROVE  key'[g].owner = "tunnel"
    BY <2>4 DEF GrantsInv, OwnersFit
  <2> QED
    BY <1>1, <2>3, <2>4 DEF OwnersFit
<1>6. AuditsFit'
  <2> SUFFICES ASSUME NEW a \in audits
               PROVE  /\ a.by.kind \in {"capability", "key"} => a.by.id = a.grant
                      /\ a.by.kind = "token" => tokenGrant'[a.by.id] = a.grant
                      /\ a.by.kind = "key" => /\ key'[a.grant].status # "none"
                                              /\ key'[a.grant].owner = a.by.by
                      /\ grant'[a.grant].way \in {"key", "group"} =>
                            a.by.kind = "key" \/ key'[a.grant].mode = "tunnel"
    BY DEF AuditsFit
  <2>1. a.grant \in Granted
    BY DEF GrantsInv, GrantsTypeOK
  <2>2. /\ a.by.kind \in {"capability", "key"} => a.by.id = a.grant
        /\ a.by.kind = "token" => tokenGrant[a.by.id] = a.grant
        /\ a.by.kind = "key" => /\ key[a.grant].status # "none"
                                /\ key[a.grant].owner = a.by.by
        /\ grant[a.grant].way \in {"key", "group"} =>
              a.by.kind = "key" \/ key[a.grant].mode = "tunnel"
    BY DEF GrantsInv, AuditsFit
  <2> QED
    BY <2>1, <2>2
<1> QED
  BY <1>2, <1>3, <1>4, <1>5, <1>6 DEF GrantsInv

\* A read that was authorised: a key may have got its owner, a token its grant.
LEMMA Reading ==
    ASSUME GrantsInv,
           UNCHANGED <<threads, grant, lastGrant, slot, group, cutoff, mode, setup>>,
           NEW by \in Credential, NEW h \in Granted, Audited(by, h),
           key' \in [Granted -> Key],
           \A g \in Granted :
               /\ key'[g].mode = key[g].mode /\ key'[g].status = key[g].status
               /\ key'[g].owner = key[g].owner \/
                     (g = h /\ key[g].mode = "oauth" /\ key[g].owner = "nobody"),
           tokenGrant' \in [Tokens -> 0..lastGrant],
           \A k \in Tokens : tokenGrant[k] # 0 => tokenGrant'[k] = tokenGrant[k],
           by.kind \in {"capability", "key"} => by.id = h,
           by.kind = "token" => tokenGrant'[by.id] = h,
           by.kind = "key" => key[h].status # "none" /\ key'[h].owner = by.by,
           grant[h].way \in {"key", "group"} => by.kind = "key" \/ key[h].mode = "tunnel"
    PROVE  GrantsInv'
<1>1. /\ Granted' = Granted
      /\ \A g \in Granted : Active(g)' = Active(g)
  BY DEF Granted, Active
<1>2. Credential' = Credential
  BY DEF Credential, GrantIds, Identities
<1>3. audits' \subseteq audits \cup {[by |-> by, grant |-> h]}
  BY DEF Audited
<1>4. \A a \in audits : a.by \in Credential /\ a.grant \in Granted
  BY DEF GrantsInv, GrantsTypeOK
<1>5. GrantsTypeOK'
  <2>1. audits' \subseteq [by : Credential, grant : Granted]
    BY <1>3 DEF GrantsInv, GrantsTypeOK
  <2> QED
    BY <1>1, <1>2, <2>1 DEF GrantsInv, GrantsTypeOK, threads
<1>6. RevisionsFit'
  BY <1>1 DEF GrantsInv, RevisionsFit, threads
<1>7. OneGrantPerThread'
  BY <1>1 DEF GrantsInv, OneGrantPerThread, threads
<1>8. OwnersFit'
  BY <1>1 DEF GrantsInv, OwnersFit
<1>9. AuditsFit'
  <2> SUFFICES ASSUME NEW a \in audits'
               PROVE  /\ a.by.kind \in {"capability", "key"} => a.by.id = a.grant
                      /\ a.by.kind = "token" => tokenGrant'[a.by.id] = a.grant
                      /\ a.by.kind = "key" => /\ key'[a.grant].status # "none"
                                              /\ key'[a.grant].owner = a.by.by
                      /\ grant'[a.grant].way \in {"key", "group"} =>
                            a.by.kind = "key" \/ key'[a.grant].mode = "tunnel"
    BY DEF AuditsFit
  <2>1. CASE a = [by |-> by, grant |-> h]
    BY <2>1
  <2>2. CASE a \in audits
    <3>1. /\ a.by.kind \in {"capability", "key"} => a.by.id = a.grant
          /\ a.by.kind = "token" => tokenGrant[a.by.id] = a.grant
          /\ a.by.kind = "key" => /\ key[a.grant].status # "none"
                                  /\ key[a.grant].owner = a.by.by
          /\ grant[a.grant].way \in {"key", "group"} =>
                a.by.kind = "key" \/ key[a.grant].mode = "tunnel"
      BY <2>2 DEF GrantsInv, AuditsFit
    <3>2. a.grant \in Granted /\ a.by \in Credential
      BY <1>4, <2>2
    <3>3. a.by.kind = "key" => a.by.by \in Identities \cup {"tunnel"}
      BY <3>2 DEF Credential
    <3>4. a.by.kind = "key" => key'[a.grant].owner = a.by.by
      BY <3>1, <3>2, <3>3, AccessAssumption
    <3>5. a.by.kind = "token" => a.by.id \in Tokens
      BY <3>2 DEF Credential
    <3>6. a.by.kind = "token" => tokenGrant'[a.by.id] = a.grant
      <4>1. a.grant # 0
        BY <3>2, AccessAssumption DEF GrantsInv, GrantsTypeOK, Granted
      <4> QED
        BY <3>1, <3>5, <4>1
    <3> QED
      BY <3>1, <3>2, <3>4, <3>6
  <2> QED
    BY <1>3, <2>1, <2>2
<1> QED
  BY <1>5, <1>6, <1>7, <1>8, <1>9 DEF GrantsInv

\* What the invariant says of the types.
LEMMA GrantsTypes ==
    ASSUME GrantsInv
    PROVE  /\ lastGrant \in Nat /\ MaxGrants \in Nat /\ lastGrant <= MaxGrants
           /\ revision \in [Threads -> Nat] /\ bound \in [Threads -> Conversations]
           /\ slot \in 0..lastGrant /\ setup \in Setups
           /\ DOMAIN grant = Granted /\ key \in [Granted -> Key]
           /\ group.members \subseteq Conversations
           /\ mode \in {"tunnel", "oauth"}
           /\ \A g \in Granted :
                 /\ grant[g] \in Grant /\ key[g] \in Key
                 /\ grant[g].thread \in Threads /\ grant[g].rev \in Nat
                 /\ grant[g].scope \in SUBSET Conversations
BY AccessAssumption DEF GrantsInv, GrantsTypeOK, Grant

LEMMA NoKeyIsKey == NoKey \in Key
BY DEF NoKey, Key

LEMMA CreateGrantKeeps ==
    ASSUME GrantsInv, NEW t \in Threads, NEW perm \in Permissions, CreateGrant(t, perm)
    PROVE  GrantsInv'
<1>1. NewGrant(t, "capability", {bound[t]}, perm, {}, {})
  BY DEF CreateGrant
<1>2. {bound[t]} \in SUBSET Conversations
  BY GrantsTypes
<1>3. /\ key' = KeysAfter(NoKey, {})
      /\ UNCHANGED <<slot, group, cutoff, tokenGrant, mode, audits, setup>>
  BY DEF CreateGrant
<1>4. "capability" \in Ways
  BY DEF Ways
<1>5. NoKey.status = "none"
  BY DEF NoKey
<1> QED
  BY <1>1, <1>2, <1>3, <1>4, <1>5, NoKeyIsKey, Granting

\* The grant in the slot that is active for another thread.
LEMMA SlotsThread ==
    ASSUME GrantsInv, NEW t, NEW old, old \subseteq SlotElsewhere(t)
    PROVE  /\ old \in SUBSET Granted
           /\ {grant[g].thread : g \in old} \in SUBSET Threads
           /\ \A g \in Granted :
                 Active(g) /\ grant[g].thread \in {grant[h].thread : h \in old} => g \in old
<1>1. \A g \in old : g \in Granted /\ Active(g) /\ g = slot
  BY DEF SlotElsewhere
<1>2. \A g \in old : grant[g].thread \in Threads
  BY <1>1, GrantsTypes
<1>3. \A g, h \in Granted : Active(g) /\ Active(h) /\ grant[g].thread = grant[h].thread => g = h
  BY DEF GrantsInv, OneGrantPerThread
<1> QED
  BY <1>1, <1>2, <1>3

LEMMA ReplaceTunnelKeeps ==
    ASSUME GrantsInv, NEW c \in Conversations, NEW perm \in Permissions, ReplaceTunnel(c, perm)
    PROVE  GrantsInv'
<1> DEFINE old == SlotElsewhere(c)
           moved == {grant[g].thread : g \in old}
<1>1. /\ NewGrant(c, "tunnel", {c}, perm, old, moved)
      /\ slot' = lastGrant + 1
      /\ key' = KeysAfter(NoKey, {})
      /\ UNCHANGED <<group, cutoff, tokenGrant, mode, audits, setup>>
  BY DEF ReplaceTunnel
<1>2. /\ old \in SUBSET Granted /\ moved \in SUBSET Threads
      /\ \A g \in Granted : Active(g) /\ grant[g].thread \in moved => g \in old
  <2>1. old \subseteq SlotElsewhere(c)
    OBVIOUS
  <2> HIDE DEF old
  <2> QED
    BY <2>1, SlotsThread
<1>3. Active(slot) => slot \in old \/ grant[slot].thread = c
  BY DEF SlotElsewhere, Active
<1>4. "tunnel" \in Ways /\ {c} \in SUBSET Conversations /\ c \in Threads
  BY DEF Ways, Threads
<1>5. NoKey.status = "none"
  BY DEF NoKey
<1> HIDE DEF old, moved
<1> QED
  BY <1>1, <1>2, <1>3, <1>4, <1>5, NoKeyIsKey, Granting

LEMMA CreateKeyKeeps ==
    ASSUME GrantsInv, NEW c \in Conversations, NEW scope \in SUBSET Conversations,
           NEW perm \in Permissions, CreateKey(c, scope, perm)
    PROVE  GrantsInv'
<1> DEFINE old == IF mode = "tunnel" THEN SlotElsewhere(c) ELSE {}
           Current == {h \in old : revision[grant[h].thread] = grant[h].rev}
           moved == {grant[g].thread : g \in Current}
           row == [status |-> "active", mode |-> mode,
                   owner |-> IF mode = "tunnel" THEN "tunnel" ELSE "nobody"]
           ended == {g \in Granted : key[g].status = "active" /\ grant[g].thread = c}
<1>1. PICK way \in {"key", "group"} :
          /\ IF way = "key" THEN scope = {c}
             ELSE c \in scope /\ scope \subseteq group.members \cap Linked
          /\ NewGrant(c, way, scope, perm, old, moved)
  BY DEF CreateKey
<1>2. /\ key' = KeysAfter(row, ended)
      /\ UNCHANGED <<slot, group, cutoff, tokenGrant, mode, audits, setup>>
  BY DEF CreateKey
<1>3. old \subseteq SlotElsewhere(c) /\ Current \subseteq SlotElsewhere(c) /\ Current \subseteq old
  OBVIOUS
<1>4. old \in SUBSET Granted
  BY <1>3, SlotsThread
<1>5. /\ moved \in SUBSET Threads
      /\ \A g \in Granted : Active(g) /\ grant[g].thread \in moved => g \in old
  <2> HIDE DEF Current, old
  <2> QED
    BY <1>3, SlotsThread
<1>6. row \in Key
  BY GrantsTypes DEF Key
<1>7. /\ ended \in SUBSET Granted
      /\ \A g \in ended : key[g].status = "active" /\ (Active(g) => grant[g].thread = c)
  OBVIOUS
<1>8. /\ row.status = "active"
      /\ row.status # "none" /\ row.mode = "tunnel" => row.owner = "tunnel"
  OBVIOUS
<1>9. way \in Ways /\ c \in Threads /\ way # "tunnel"
      /\ (way = "group" => scope \subseteq group.members)
  BY <1>1 DEF Ways, Threads
<1> HIDE DEF old, Current, moved, row, ended
<1>10. slot' = IF way = "tunnel" THEN lastGrant + 1 ELSE slot
  BY <1>2, <1>9
<1> QED
  BY <1>1, <1>2, <1>4, <1>5, <1>6, <1>7, <1>8, <1>9, <1>10, Granting

-----------------------------------------------------------------------------
\* A row that was revoked, or is past its time.
LEMMA EndedRow ==
    ASSUME NEW row \in Grant, NEW new,
           new = row \/ new = [row EXCEPT !.status = "revoked"]
               \/ new = [row EXCEPT !.expired = TRUE]
    PROVE  /\ new \in Grant
           /\ new.thread = row.thread /\ new.conv = row.conv /\ new.rev = row.rev
           /\ new.way = row.way /\ new.scope = row.scope
           /\ new.status = "active" => row.status = "active"
BY DEF Grant

\* A key ends whose grant is over.
KeyEnds(g) ==
    /\ key[g].status = "active"
    /\ key' = [key EXCEPT ![g].status = "revoked"]

\* Rows end while keys and threads may change with them.
LEMMA Ending ==
    ASSUME GrantsInv, NEW dead \in SUBSET Granted,
           UNCHANGED <<bound, lastGrant, slot, cutoff, tokenGrant, mode, audits, setup>>,
           DOMAIN grant' = Granted,
           \A g \in Granted :
               /\ g \in dead => grant'[g] = [grant[g] EXCEPT !.status = "revoked"]
               /\ g \notin dead => \/ grant'[g] = grant[g]
                                   \/ grant'[g] = [grant[g] EXCEPT !.expired = TRUE],
           \/ revision' = revision
           \/ \E d \in dead : Active(d) /\ Bump(grant[d].thread),
           \/ key' = key
           \/ \E g \in Granted : (g \in dead \/ ~Active(g)) /\ KeyEnds(g),
           group' \in [exists : BOOLEAN, members : SUBSET Conversations],
           \A g \in Granted : g \notin dead /\ Active(g) /\ grant[g].way = "group" =>
               grant[g].scope \subseteq group'.members
    PROVE  GrantsInv'
<1>1. ASSUME NEW g \in Granted
      PROVE  /\ grant'[g] \in Grant
             /\ grant'[g].thread = grant[g].thread /\ grant'[g].conv = grant[g].conv
             /\ grant'[g].rev = grant[g].rev /\ grant'[g].way = grant[g].way
             /\ grant'[g].scope = grant[g].scope
             /\ grant'[g].status = "active" => grant[g].status = "active"
  <2>1. grant[g] \in Grant
    BY GrantsTypes
  <2>2. \/ grant'[g] = grant[g]
        \/ grant'[g] = [grant[g] EXCEPT !.status = "revoked"]
        \/ grant'[g] = [grant[g] EXCEPT !.expired = TRUE]
    OBVIOUS
  <2> QED
    BY <2>1, <2>2, EndedRow
<1>2. ASSUME NEW g \in Granted, Active(g)'
      PROVE  Active(g) /\ g \notin dead
  <2>1. grant'[g].status = "active"
    BY <1>2 DEF Active
  <2>2. Active(g)
    BY <1>1, <2>1 DEF Active
  <2>3. grant[g] \in Grant
    BY GrantsTypes
  <2>4. g \in dead => grant'[g].status = "revoked"
    BY <2>3 DEF Grant
  <2> QED
    BY <2>1, <2>2, <2>4
<1>3. revision' \in [Threads -> Nat]
  BY GrantsTypes DEF Bump
<1>4. \A u \in Threads : /\ revision[u] <= revision'[u]
                         /\ revision'[u] = revision[u] => bound'[u] = bound[u]
  BY GrantsTypes DEF Bump
<1>5. ASSUME NEW g \in Granted, Active(g)'
      PROVE  revision'[grant[g].thread] = revision[grant[g].thread]
  <2>1. Active(g) /\ g \notin dead /\ grant[g].thread \in Threads
    BY <1>2, <1>5, GrantsTypes
  <2>2. CASE revision' = revision
    BY <2>2
  <2>3. CASE \E d \in dead : Active(d) /\ Bump(grant[d].thread)
    <3>1. PICK d \in dead : Active(d) /\ Bump(grant[d].thread)
      BY <2>3
    <3>2. grant[d].thread # grant[g].thread
      BY <2>1, <3>1 DEF GrantsInv, OneGrantPerThread
    <3> QED
      BY <2>1, <3>1, <3>2, GrantsTypes DEF Bump
  <2> QED
    BY <2>2, <2>3
<1>6. /\ key' \in [Granted -> Key]
      /\ \A g \in Granted :
               /\ key'[g].mode = key[g].mode /\ key'[g].owner = key[g].owner
               /\ key'[g].status = "none" <=> key[g].status = "none"
               /\ Active(g)' => key'[g].status = key[g].status
  <2>1. CASE key' = key
    BY <2>1, GrantsTypes
  <2>2. CASE key' # key
    <3>1. PICK h \in Granted : /\ h \in dead \/ ~Active(h)
                               /\ key[h].status = "active"
                               /\ key' = [key EXCEPT ![h].status = "revoked"]
      BY <2>2 DEF KeyEnds
    <3>2. key \in [Granted -> Key] /\ key[h] \in Key
      BY GrantsTypes
    <3>3. [key[h] EXCEPT !.status = "revoked"] \in Key
      BY <3>2 DEF Key
    <3>4. key'[h] = [key[h] EXCEPT !.status = "revoked"]
      BY <3>1, <3>2
    <3>5. /\ key'[h].mode = key[h].mode /\ key'[h].owner = key[h].owner
          /\ key'[h].status = "revoked"
      BY <3>2, <3>4 DEF Key
    <3>6. \A g \in Granted : g # h => key'[g] = key[g]
      BY <3>1, <3>2
    <3>7. key' \in [Granted -> Key]
      BY <3>1, <3>2, <3>3
    <3>8. ~Active(h)'
      BY <1>2, <3>1
    <3> QED
      BY <3>1, <3>5, <3>6, <3>7, <3>8
  <2> QED
    BY <2>1, <2>2
<1>7. bound' \in [Threads -> Conversations] /\ cutoff' \in [Tokens -> -1..MaxGrants]
      /\ mode' \in {"tunnel", "oauth"}
  BY DEF GrantsInv, GrantsTypeOK
<1>8. \A g \in Granted : Active(g)' /\ grant[g].way = "group" =>
               grant[g].scope \subseteq group'.members
  BY <1>2
<1> QED
  BY <1>1, <1>3, <1>4, <1>5, <1>6, <1>7, <1>8, Changing

LEMMA RevokedRows ==
    ASSUME GrantsInv, NEW g \in Granted, Revoke(g)
    PROVE  /\ DOMAIN grant' = Granted
           /\ grant'[g] = [grant[g] EXCEPT !.status = "revoked"]
           /\ \A h \in Granted : h # g => grant'[h] = grant[h]
BY GrantsTypes DEF Revoke

LEMMA RevokeGrantKeeps ==
    ASSUME GrantsInv, NEW g \in Granted, RevokeGrant(g)
    PROVE  GrantsInv'
<1> DEFINE dead == {g}
<1>1. /\ Active(g) /\ Revoke(g) /\ Bump(grant[g].thread)
      /\ UNCHANGED <<bound, lastGrant, slot, key, group, cutoff, tokenGrant, mode, audits, setup>>
  BY DEF RevokeGrant
<1>2. dead \in SUBSET Granted
  OBVIOUS
<1>3. /\ DOMAIN grant' = Granted
      /\ \A h \in Granted :
            /\ h \in dead => grant'[h] = [grant[h] EXCEPT !.status = "revoked"]
            /\ h \notin dead => grant'[h] = grant[h]
  BY <1>1, RevokedRows
<1>4. \E d \in dead : Active(d) /\ Bump(grant[d].thread)
  BY <1>1
<1>5. /\ group' \in [exists : BOOLEAN, members : SUBSET Conversations]
      /\ \A h \in Granted : Active(h) /\ grant[h].way = "group" =>
               grant[h].scope \subseteq group'.members
  BY <1>1 DEF GrantsInv, GrantsTypeOK, OneGrantPerThread
<1> HIDE DEF dead
<1> QED
  BY <1>1, <1>2, <1>3, <1>4, <1>5, Ending

LEMMA RevokeTunnelKeeps ==
    ASSUME GrantsInv, RevokeTunnel
    PROVE  GrantsInv'
<1>1. slot \in Granted /\ Active(slot)
  BY DEF RevokeTunnel, Valid, Active
<1>2. RevokeGrant(slot) \/ GrantsInv'
  BY <1>1 DEF RevokeTunnel, RevokeGrant
<1> QED
  BY <1>1, <1>2, RevokeGrantKeeps

LEMMA RevokeKeyKeeps ==
    ASSUME GrantsInv, NEW g \in Granted, RevokeKey(g)
    PROVE  GrantsInv'
<1> DEFINE dead == IF Active(g) THEN {g} ELSE {}
<1>1. /\ key[g].status = "active"
      /\ key' = [key EXCEPT ![g].status = "revoked"]
      /\ UNCHANGED <<bound, lastGrant, slot, group, cutoff, tokenGrant, mode, audits, setup>>
  BY DEF RevokeKey
<1>2. dead \in SUBSET Granted
  OBVIOUS
<1>3. /\ DOMAIN grant' = Granted
      /\ \A h \in Granted :
            /\ h \in dead => grant'[h] = [grant[h] EXCEPT !.status = "revoked"]
            /\ h \notin dead => grant'[h] = grant[h]
  <2>1. CASE Active(g)
    <3>1. Revoke(g)
      BY <2>1 DEF RevokeKey
    <3> QED
      BY <2>1, <3>1, RevokedRows
  <2>2. CASE ~Active(g)
    BY <2>2, GrantsTypes DEF RevokeKey
  <2> QED
    BY <2>1, <2>2
<1>4. \/ revision' = revision
      \/ \E d \in dead : Active(d) /\ Bump(grant[d].thread)
  BY DEF RevokeKey
<1>5. g \in dead \/ ~Active(g)
  OBVIOUS
<1>6. /\ group' \in [exists : BOOLEAN, members : SUBSET Conversations]
      /\ \A h \in Granted : Active(h) /\ grant[h].way = "group" =>
               grant[h].scope \subseteq group'.members
  BY <1>1 DEF GrantsInv, GrantsTypeOK, OneGrantPerThread
<1> HIDE DEF dead
<1>7. \E h \in Granted : (h \in dead \/ ~Active(h)) /\ KeyEnds(h)
  BY <1>1, <1>5 DEF KeyEnds
<1>8. \A h \in Granted : h \notin dead /\ Active(h) /\ grant[h].way = "group" =>
               grant[h].scope \subseteq group'.members
  BY <1>6
<1>9. group' \in [exists : BOOLEAN, members : SUBSET Conversations]
      /\ UNCHANGED <<bound, lastGrant, slot, cutoff, tokenGrant, mode, audits, setup>>
  BY <1>1, <1>6
<1> QED
  BY <1>2, <1>3, <1>4, <1>7, <1>8, <1>9, Ending

LEMMA ExpireKeeps ==
    ASSUME GrantsInv, NEW g \in Granted, Expire(g)
    PROVE  GrantsInv'
<1> DEFINE dead == {}
<1>1. /\ grant' = [grant EXCEPT ![g].expired = TRUE]
      /\ UNCHANGED <<threads, lastGrant, slot, key, group, cutoff, tokenGrant, mode, audits, setup>>
  BY DEF Expire
<1>2. /\ DOMAIN grant' = Granted
      /\ \A h \in Granted : \/ grant'[h] = grant[h]
                            \/ grant'[h] = [grant[h] EXCEPT !.expired = TRUE]
  BY <1>1, GrantsTypes
<1>3. /\ group' \in [exists : BOOLEAN, members : SUBSET Conversations]
      /\ \A h \in Granted : Active(h) /\ grant[h].way = "group" =>
               grant[h].scope \subseteq group'.members
  BY <1>1 DEF GrantsInv, GrantsTypeOK, OneGrantPerThread
<1>4. bound' = bound /\ revision' = revision
  BY <1>1 DEF threads
<1>5. dead \in SUBSET Granted /\ \A h : h \notin dead
  OBVIOUS
<1> HIDE DEF dead
<1> QED
  BY <1>1, <1>2, <1>3, <1>4, <1>5, Ending

LEMMA ChangeGroupKeeps ==
    ASSUME GrantsInv, NEW members \in SUBSET Conversations, ChangeGroup(members)
    PROVE  GrantsInv'
<1> DEFINE removed == group.members \ members
           dead == {g \in Granted : /\ Active(g) /\ grant[g].way = "group"
                                    /\ grant[g].scope \cap removed # {} \/ members = {}}
<1>1. /\ group' = [exists |-> TRUE, members |-> members]
      /\ grant' = [g \in Granted |->
                    IF g \in dead THEN [grant[g] EXCEPT !.status = "revoked"]
                    ELSE grant[g]]
      /\ UNCHANGED <<threads, lastGrant, slot, key, cutoff, tokenGrant, mode, audits, setup>>
  BY DEF ChangeGroup
<1>2. dead \in SUBSET Granted
  OBVIOUS
<1>3. \A g \in Granted : g \notin dead /\ Active(g) /\ grant[g].way = "group" =>
               grant[g].scope \subseteq group'.members
  <2> SUFFICES ASSUME NEW g \in Granted, g \notin dead, Active(g), grant[g].way = "group"
               PROVE  grant[g].scope \subseteq members
    BY <1>1
  <2>1. grant[g].scope \subseteq group.members
    BY DEF GrantsInv, OneGrantPerThread
  <2>2. grant[g].scope \cap removed = {}
    OBVIOUS
  <2> QED
    BY <2>1, <2>2
<1>4. group' \in [exists : BOOLEAN, members : SUBSET Conversations]
  BY <1>1
<1> HIDE DEF dead
<1>5. /\ DOMAIN grant' = Granted
      /\ \A h \in Granted :
            /\ h \in dead => grant'[h] = [grant[h] EXCEPT !.status = "revoked"]
            /\ h \notin dead => grant'[h] = grant[h]
  BY <1>1
<1>6. bound' = bound /\ revision' = revision
  BY <1>1 DEF threads
<1> QED
  BY <1>1, <1>2, <1>3, <1>4, <1>5, <1>6, Ending

-----------------------------------------------------------------------------
LEMMA SurroundingsKeep ==
    ASSUME GrantsInv,
           UNCHANGED <<rights, group, tokenGrant, audits, setup>>,
           \/ UNCHANGED <<threads, cutoff, mode>>
           \/ UNCHANGED mode /\ ThreadChanges
           \/ UNCHANGED threads /\ Surroundings
    PROVE  GrantsInv'
<1>1. /\ UNCHANGED <<lastGrant, slot, tokenGrant, audits, setup>>
      /\ grant' = grant /\ key' = key /\ group' = group
      /\ DOMAIN grant' = Granted
  BY GrantsTypes DEF rights
<1>2. \A g \in Granted : grant'[g] \in Grant /\ Active(g)' = Active(g)
  BY <1>1, GrantsTypes DEF Active, Granted
<1>3. /\ revision' \in [Threads -> Nat] /\ bound' \in [Threads -> Conversations]
      /\ \A u \in Threads : /\ revision[u] <= revision'[u]
                            /\ revision'[u] = revision[u] => bound'[u] = bound[u]
      /\ \A u \in Conversations : revision'[u] = revision[u]
  <2>1. CASE UNCHANGED threads
    BY <2>1, GrantsTypes DEF threads, Threads
  <2>2. CASE ThreadChanges
    <3>1. PICK t \in AgentThreads :
              /\ Bump(t)
              /\ bound' = bound \/ \E c \in Conversations : bound' = [bound EXCEPT ![t] = c]
      BY <2>2 DEF ThreadChanges
    <3>2. t \in Threads /\ t \notin Conversations
      BY AccessAssumption DEF Threads
    <3>3. /\ revision' \in [Threads -> Nat] /\ bound' \in [Threads -> Conversations]
          /\ \A u \in Threads : u # t => revision'[u] = revision[u] /\ bound'[u] = bound[u]
          /\ revision'[t] = revision[t] + 1
      BY <3>1, <3>2, GrantsTypes DEF Bump
    <3>4. \A u \in Threads : revision[u] \in Nat
      BY GrantsTypes
    <3> QED
      BY <3>2, <3>3, <3>4 DEF Threads
  <2> QED
    BY <2>1, <2>2
<1>4. cutoff' \in [Tokens -> -1..MaxGrants] /\ mode' \in {"tunnel", "oauth"}
  <2>1. cutoff \in [Tokens -> -1..MaxGrants] /\ mode \in {"tunnel", "oauth"}
    BY DEF GrantsInv, GrantsTypeOK
  <2>2. CASE \E c \in Conversations : Relink(c)
    BY <2>1, <2>2 DEF Relink
  <2>3. CASE \E k \in Tokens : IssueToken(k)
    <3>1. PICK k \in Tokens : IssueToken(k)
      BY <2>3
    <3>2. PICK newest \in lastGrant..setup.grants : cutoff' = [cutoff EXCEPT ![k] = newest]
      BY <3>1 DEF IssueToken
    <3>3. setup.grants \in 0..MaxGrants
      BY Sizes, GrantsTypes
    <3>4. newest \in -1..MaxGrants
      BY <3>2, <3>3, GrantsTypes
    <3> QED
      BY <2>1, <3>1, <3>2, <3>4 DEF IssueToken
  <2>4. CASE Reconfigure
    BY <2>1, <2>4, Sizes, GrantsTypes DEF Reconfigure
  <2>5. CASE ThreadChanges
    BY <2>1, <2>5 DEF ThreadChanges
  <2> QED
    BY <2>1, <2>2, <2>3, <2>4, <2>5 DEF Surroundings
<1>5. /\ group' \in [exists : BOOLEAN, members : SUBSET Conversations]
      /\ key' \in [Granted -> Key]
      /\ \A g \in Granted : Active(g)' /\ grant[g].way = "group" =>
               grant[g].scope \subseteq group'.members
  BY <1>1, <1>2 DEF GrantsInv, GrantsTypeOK, OneGrantPerThread
<1> QED
  BY <1>1, <1>2, <1>3, <1>4, <1>5, Changing

-----------------------------------------------------------------------------
LEMMA Readings ==
    ASSUME GrantsInv
    PROVE  /\ \A g \in Granted : Active(g) /\ grant[g].way \in {"key", "group"} =>
                  key[g].status = "active"
           /\ \A g \in Granted : Valid(g) => Active(g)
           /\ tokenGrant \in [Tokens -> 0..lastGrant]
BY DEF GrantsInv, GrantsTypeOK, OneGrantPerThread, Valid

LEMMA SlotReadKeeps ==
    ASSUME GrantsInv, SlotRead
    PROVE  GrantsInv'
<1> DEFINE by == [kind |-> "slot", id |-> 0]
<1>1. /\ slot # 0 /\ Audited(by, slot)
      /\ UNCHANGED <<threads, grant, lastGrant, slot, key, group, cutoff, mode, setup>>
      /\ tokenGrant' = tokenGrant
  BY DEF SlotRead, rights
<1>2. slot \in Granted
  BY <1>1, GrantsTypes DEF Granted
<1>3. grant[slot].way = "tunnel"
  BY <1>1 DEF GrantsInv, OwnersFit
<1>4. by \in Credential /\ by.kind = "slot"
  BY DEF Credential
<1>5. key' \in [Granted -> Key] /\ tokenGrant' \in [Tokens -> 0..lastGrant]
  BY <1>1, GrantsTypes, Readings
<1> HIDE DEF by
<1> QED
  BY <1>1, <1>2, <1>3, <1>4, <1>5, Reading

LEMMA CapabilityReadKeeps ==
    ASSUME GrantsInv, NEW g \in Granted, CapabilityRead(g)
    PROVE  GrantsInv'
<1> DEFINE by == [kind |-> "capability", id |-> g]
<1>1. /\ grant[g].way = "capability" /\ Audited(by, g)
      /\ UNCHANGED <<threads, grant, lastGrant, slot, key, group, cutoff, mode, setup>>
      /\ tokenGrant' = tokenGrant
  BY DEF CapabilityRead, rights
<1>2. g \in GrantIds
  BY GrantsTypes DEF Granted, GrantIds
<1>3. by \in Credential /\ by.kind = "capability" /\ by.id = g
  BY <1>2 DEF Credential
<1>4. key' \in [Granted -> Key] /\ tokenGrant' \in [Tokens -> 0..lastGrant]
  BY <1>1, GrantsTypes, Readings
<1> HIDE DEF by
<1> QED
  BY <1>1, <1>3, <1>4, Reading

LEMMA KeyReadKeeps ==
    ASSUME GrantsInv, NEW g \in Granted, NEW by \in Identities \cup {"tunnel"}, KeyRead(g, by)
    PROVE  GrantsInv'
<1> DEFINE with == [kind |-> "key", id |-> g, by |-> by]
<1>1. /\ key[g].status = "active" /\ key[g].mode = mode /\ Audited(with, g)
      /\ UNCHANGED <<threads, grant, lastGrant, slot, group, cutoff, tokenGrant, mode, setup>>
  BY DEF KeyRead, KeyResolved
<1>2. g \in GrantIds
  BY GrantsTypes DEF Granted, GrantIds
<1>3. with \in Credential /\ with.kind = "key" /\ with.id = g /\ with.by = by
  BY <1>2 DEF Credential
<1>4. key[g] \in Key /\ key \in [Granted -> Key]
  BY GrantsTypes
<1>5. /\ key' \in [Granted -> Key]
      /\ \A h \in Granted : h # g => key'[h] = key[h]
      /\ key'[g].mode = key[g].mode /\ key'[g].status = key[g].status
      /\ key'[g].owner = by
      /\ key'[g].owner = key[g].owner \/ (key[g].mode = "oauth" /\ key[g].owner = "nobody")
  <2>1. CASE mode = "oauth"
    <3>1. /\ key[g].owner \in {"nobody", by}
          /\ key' = [key EXCEPT ![g].owner = by]
          /\ by \in Identities
      BY <2>1 DEF KeyRead, KeyResolved, Identities
    <3>2. [key[g] EXCEPT !.owner = by] \in Key
      BY <1>4, <3>1 DEF Key
    <3>3. key'[g] = [key[g] EXCEPT !.owner = by]
      BY <1>4, <3>1
    <3>4. key'[g].mode = key[g].mode /\ key'[g].status = key[g].status /\ key'[g].owner = by
      BY <1>4, <3>3 DEF Key
    <3>5. key' \in [Granted -> Key] /\ \A h \in Granted : h # g => key'[h] = key[h]
      BY <1>4, <3>1, <3>2
    <3> QED
      BY <1>1, <2>1, <3>1, <3>4, <3>5
  <2>2. CASE mode # "oauth"
    <3>1. by = "tunnel" /\ key' = key
      BY <2>2 DEF KeyRead, KeyResolved
    <3>2. mode = "tunnel"
      BY <2>2, GrantsTypes
    <3>3. key[g].owner = "tunnel"
      BY <1>1, <3>2 DEF GrantsInv, OwnersFit
    <3> QED
      BY <1>4, <3>1, <3>3
  <2> QED
    BY <2>1, <2>2
<1>6. tokenGrant' \in [Tokens -> 0..lastGrant]
  BY <1>1, Readings
<1> HIDE DEF with
<1>7. /\ with.kind \in {"capability", "key"} => with.id = g
      /\ with.kind # "token"
      /\ with.kind = "key" => key[g].status # "none" /\ key'[g].owner = with.by
      /\ grant[g].way \in {"key", "group"} => with.kind = "key" \/ key[g].mode = "tunnel"
  BY <1>1, <1>3, <1>5
<1>8. \A h \in Granted :
               /\ key'[h].mode = key[h].mode /\ key'[h].status = key[h].status
               /\ key'[h].owner = key[h].owner \/
                     (h = g /\ key[h].mode = "oauth" /\ key[h].owner = "nobody")
  BY <1>5
<1> QED
  BY <1>1, <1>3, <1>5, <1>6, <1>7, <1>8, Reading

LEMMA TokenReadKeeps ==
    ASSUME GrantsInv, NEW k \in Tokens, TokenRead(k)
    PROVE  GrantsInv'
<1> DEFINE by == [kind |-> "token", id |-> k]
           g == IF tokenGrant[k] # 0 THEN tokenGrant[k] ELSE Max(Candidates(k))
<1>1. /\ mode = "oauth" /\ ~Keyed
      /\ tokenGrant' = [tokenGrant EXCEPT ![k] = g]
      /\ Audited(by, g)
      /\ UNCHANGED <<threads, grant, lastGrant, slot, key, group, cutoff, mode, setup>>
  BY DEF TokenRead, rights
<1>2. g \in Granted /\ Valid(g)
  <2>1. CASE tokenGrant[k] # 0
    BY <2>1 DEF TokenRead, Valid, Active
  <2>2. CASE tokenGrant[k] = 0
    <3>1. Candidates(k) # {}
      BY <2>2 DEF TokenRead
    <3>2. Candidates(k) \in SUBSET (0..lastGrant)
      BY GrantsTypes DEF Candidates, Granted
    <3>3. Max(Candidates(k)) \in Candidates(k)
      BY <3>1, <3>2, Largest, GrantsTypes
    <3> QED
      BY <2>2, <3>3 DEF Candidates
  <2> QED
    BY <2>1, <2>2
<1> HIDE DEF g
<1>3. by \in Credential /\ by.kind = "token" /\ by.id = k
  BY DEF Credential
<1>4. /\ tokenGrant' \in [Tokens -> 0..lastGrant]
      /\ tokenGrant'[k] = g
      /\ \A j \in Tokens : j # k => tokenGrant'[j] = tokenGrant[j]
  <2>1. g \in 0..lastGrant
    BY <1>2, GrantsTypes DEF Granted
  <2> QED
    BY <1>1, <2>1, Readings
<1>5. tokenGrant[k] # 0 => tokenGrant'[k] = tokenGrant[k]
  BY <1>4 DEF g
<1>6. grant[g].way \in {"key", "group"} => key[g].mode = "tunnel"
  <2> SUFFICES ASSUME grant[g].way \in {"key", "group"} PROVE key[g].mode = "tunnel"
    OBVIOUS
  <2>1. key[g].status = "active"
    BY <1>2, Readings
  <2>2. key[g].mode # mode
    BY <1>1, <1>2, <2>1 DEF Keyed
  <2>3. key[g] \in Key
    BY <1>2, GrantsTypes
  <2> QED
    BY <1>1, <2>2, <2>3 DEF Key
<1>7. key' \in [Granted -> Key]
  BY <1>1, GrantsTypes
<1>8. \A j \in Tokens : tokenGrant[j] # 0 => tokenGrant'[j] = tokenGrant[j]
  BY <1>4, <1>5
<1> HIDE DEF by
<1> QED
  BY <1>1, <1>2, <1>3, <1>4, <1>6, <1>7, <1>8, Reading

-----------------------------------------------------------------------------
LEMMA GrantsStep ==
    ASSUME GrantsInv, AccessStep
    PROVE  GrantsInv'
<1>1. CASE Grants
  <2>1. PICK perm \in setup.perms :
            \/ \E t \in Threads : CreateGrant(t, perm)
            \/ \E c \in Conversations :
                  \/ ReplaceTunnel(c, perm)
                  \/ \E scope \in SUBSET Conversations : CreateKey(c, scope, perm)
    BY <1>1 DEF Grants
  <2>2. perm \in Permissions
    BY Sizes, GrantsTypes
  <2> QED
    BY <2>1, <2>2, CreateGrantKeeps, ReplaceTunnelKeeps, CreateKeyKeeps
<1>2. CASE \E g \in Granted : RevokeGrant(g) \/ RevokeKey(g) \/ Expire(g)
  BY <1>2, RevokeGrantKeeps, RevokeKeyKeeps, ExpireKeeps
<1>3. CASE RevokeTunnel
  BY <1>3, RevokeTunnelKeeps
<1>4. CASE \E members \in SUBSET Conversations : ChangeGroup(members)
  BY <1>4, ChangeGroupKeeps
<1>5. CASE Surroundings
  <2>1. UNCHANGED <<threads, rights, group, tokenGrant, audits, setup>>
    BY <1>5 DEF Surroundings, Relink, IssueToken, Reconfigure
  <2> QED
    BY <1>5, <2>1, SurroundingsKeep
<1>6. CASE PlainReads
  BY <1>6, SlotReadKeeps, CapabilityReadKeeps, KeyReadKeeps, TokenReadKeeps DEF PlainReads
<1>7. CASE OwnersChange
  BY <1>7, SurroundingsKeep DEF OwnersChange
<1>8. CASE ThreadChanges
  <2>1. UNCHANGED <<rights, group, tokenGrant, audits, setup>> /\ UNCHANGED mode
    BY <1>8 DEF ThreadChanges
  <2> QED
    BY <1>8, <2>1, SurroundingsKeep
<1>9. CASE UNCHANGED accessVars
  BY <1>9, SurroundingsKeep DEF accessVars
<1> QED
  BY <1>1, <1>2, <1>3, <1>4, <1>5, <1>6, <1>7, <1>8, <1>9 DEF AccessStep, AccessOperation

LEMMA GrantsAlways == Spec => []GrantsInv
<1>1. GrantsInv /\ [Next]_vars => GrantsInv'
  BY AccessSteps, GrantsStep
<1> QED
  BY <1>1, GrantsInit, PTL DEF Spec

-----------------------------------------------------------------------------
(* Nothing brings a grant back.                                            *)

\* What a row is for stays, and what has ended of it; revisions go forward.
KeptFor(new, row) ==
    /\ new.thread = row.thread /\ new.conv = row.conv /\ new.rev = row.rev
    /\ new.scope = row.scope /\ new.perm = row.perm
    /\ new.status = "active" => row.status = "active"
    /\ row.expired => new.expired

Onward ==
    /\ \A g \in Granted : g \in Granted' /\ KeptFor(grant'[g], grant[g])
    /\ \A u \in Threads : revision[u] <= revision'[u]

\* The row keeps what it is for, whatever ends it.
LEMMA RowOnward ==
    ASSUME NEW row \in Grant, NEW new,
           new = row \/ new = [row EXCEPT !.status = "revoked"]
               \/ new = [row EXCEPT !.expired = TRUE]
    PROVE  KeptFor(new, row)
BY DEF Grant, KeptFor

LEMMA GrantingOnward ==
    ASSUME GrantsInv, NEW t, NEW way, NEW scope, NEW perm, NEW revoked, NEW bumped,
           NewGrant(t, way, scope, perm, revoked, bumped)
    PROVE  Onward
<1>1. lastGrant \in Nat /\ lastGrant' = lastGrant + 1 /\ revision \in [Threads -> Nat]
  BY GrantsTypes DEF NewGrant
<1>2. Granted \subseteq Granted' /\ lastGrant + 1 \notin Granted
      /\ Granted \subseteq 1..(lastGrant + 1)
  BY <1>1 DEF Granted
<1>3. ASSUME NEW g \in Granted
      PROVE  grant'[g] = grant[g] \/ grant'[g] = [grant[g] EXCEPT !.status = "revoked"]
  BY <1>2 DEF NewGrant
<1>4. \A g \in Granted : grant[g] \in Grant
  BY GrantsTypes
<1>5. \A u \in Threads : revision'[u] \in {revision[u], revision[u] + 1} /\ revision[u] \in Nat
  BY <1>1 DEF NewGrant
<1>6. \A u \in Threads : revision[u] <= revision'[u]
  BY <1>5
<1>7. \A g \in Granted : KeptFor(grant'[g], grant[g])
  BY <1>3, <1>4, RowOnward
<1> QED
  BY <1>2, <1>6, <1>7 DEF Onward

LEMMA EndingOnward ==
    ASSUME GrantsInv, lastGrant' = lastGrant,
           \A g \in Granted : \/ grant'[g] = grant[g]
                              \/ grant'[g] = [grant[g] EXCEPT !.status = "revoked"]
                              \/ grant'[g] = [grant[g] EXCEPT !.expired = TRUE],
           revision' = revision \/ \E t \in Threads : Bump(t)
    PROVE  Onward
<1>1. Granted' = Granted
  BY DEF Granted
<1>2. \A g \in Granted : grant[g] \in Grant
  BY GrantsTypes
<1>3. \A u \in Threads : revision[u] <= revision'[u]
  BY GrantsTypes DEF Bump
<1>4. \A g \in Granted : KeptFor(grant'[g], grant[g])
  BY <1>2, RowOnward
<1> QED
  BY <1>1, <1>3, <1>4 DEF Onward

LEMMA RevokingOnward ==
    ASSUME GrantsInv, lastGrant' = lastGrant, NEW g \in Granted, Revoke(g),
           revision' = revision \/ Bump(grant[g].thread)
    PROVE  Onward
<1>1. grant[g].thread \in Threads
  BY GrantsTypes
<1>2. \A h \in Granted : \/ grant'[h] = grant[h]
                         \/ grant'[h] = [grant[h] EXCEPT !.status = "revoked"]
  BY RevokedRows
<1> QED
  BY <1>1, <1>2, EndingOnward

LEMMA AllOnward ==
    ASSUME GrantsInv, AccessStep
    PROVE  Onward
<1>1. CASE Grants
  <2>1. CASE \E perm \in setup.perms : \E t \in Threads : CreateGrant(t, perm)
    BY <2>1, GrantingOnward DEF CreateGrant
  <2>2. CASE \E perm \in setup.perms : \E c \in Conversations : ReplaceTunnel(c, perm)
    BY <2>2, GrantingOnward DEF ReplaceTunnel
  <2>3. CASE \E perm \in setup.perms : \E c \in Conversations :
                \E scope \in SUBSET Conversations : CreateKey(c, scope, perm)
    BY <2>3, GrantingOnward DEF CreateKey
  <2> QED
    BY <1>1, <2>1, <2>2, <2>3 DEF Grants
<1>2. CASE \E g \in Granted : RevokeGrant(g)
  BY <1>2, RevokingOnward DEF RevokeGrant
<1>3. CASE RevokeTunnel
  <2>1. slot \in Granted
    BY <1>3 DEF RevokeTunnel, Valid, Active
  <2> QED
    BY <1>3, <2>1, RevokingOnward DEF RevokeTunnel
<1>4. CASE \E g \in Granted : RevokeKey(g)
  <2>1. PICK g \in Granted : RevokeKey(g)
    BY <1>4
  <2>2. CASE Active(g)
    BY <2>1, <2>2, RevokingOnward DEF RevokeKey
  <2>3. CASE ~Active(g)
    BY <2>1, <2>3, EndingOnward DEF RevokeKey
  <2> QED
    BY <2>2, <2>3
<1>5. CASE \E g \in Granted : Expire(g)
  <2>1. PICK g \in Granted : Expire(g)
    BY <1>5
  <2>2. /\ lastGrant' = lastGrant /\ revision' = revision
        /\ grant' = [grant EXCEPT ![g].expired = TRUE]
    BY <2>1 DEF Expire, threads
  <2>3. \A h \in Granted : \/ grant'[h] = grant[h]
                           \/ grant'[h] = [grant[h] EXCEPT !.expired = TRUE]
    BY <2>2, GrantsTypes
  <2> QED
    BY <2>2, <2>3, EndingOnward
<1>6. CASE \E members \in SUBSET Conversations : ChangeGroup(members)
  <2>1. /\ lastGrant' = lastGrant /\ revision' = revision
        /\ \A h \in Granted : \/ grant'[h] = grant[h]
                              \/ grant'[h] = [grant[h] EXCEPT !.status = "revoked"]
    BY <1>6 DEF ChangeGroup, threads
  <2> QED
    BY <2>1, EndingOnward
<1>7. CASE UNCHANGED <<grant, lastGrant>> /\ (revision' = revision \/ ThreadChanges)
  BY <1>7, EndingOnward DEF ThreadChanges, Threads
<1>8. CASE Surroundings \/ PlainReads \/ OwnersChange \/ ThreadChanges \/ UNCHANGED accessVars
  <2>1. CASE Surroundings
    BY <1>7, <2>1 DEF Surroundings, Relink, IssueToken, Reconfigure, threads, rights
  <2>2. CASE PlainReads
    BY <1>7, <2>2 DEF PlainReads, SlotRead, CapabilityRead, KeyRead, TokenRead, threads, rights
  <2>3. CASE OwnersChange \/ ThreadChanges \/ UNCHANGED accessVars
    BY <1>7, <2>3 DEF OwnersChange, ThreadChanges, accessVars, threads, rights
  <2> QED
    BY <1>8, <2>1, <2>2, <2>3
<1> QED
  BY <1>1, <1>2, <1>3, <1>4, <1>5, <1>6, <1>8 DEF AccessStep, AccessOperation

LEMMA NoneComesBack ==
    ASSUME GrantsInv, Onward, NEW g \in Granted, Valid(g)'
    PROVE  Valid(g)
<1> DEFINE u == grant[g].thread
<1>1. u \in Threads /\ grant[g].rev \in Nat /\ revision[u] \in Nat
  BY GrantsTypes
<1>2. /\ grant'[g].status = "active" /\ ~grant'[g].expired
      /\ bound'[grant'[g].thread] = grant'[g].conv
      /\ revision'[grant'[g].thread] = grant'[g].rev
  BY DEF Valid, Active
<1>3. Active(g) /\ ~grant[g].expired /\ revision'[u] = grant[g].rev
  BY <1>2 DEF Onward, KeptFor, Active
<1>4. revision[u] <= revision'[u] /\ grant[g].rev <= revision[u]
  BY <1>1 DEF Onward, KeptFor, GrantsInv, RevisionsFit
<1>5. revision[u] = grant[g].rev
  BY <1>1, <1>3, <1>4
<1>6. bound[u] = grant[g].conv
  BY <1>5 DEF GrantsInv, RevisionsFit
<1> QED
  BY <1>3, <1>5, <1>6 DEF Valid

-----------------------------------------------------------------------------
(* The theorems about grants and credentials.                              *)

\* However grants, keys and the slot replace each other, a thread has at most one
\* active grant, and a capability, a key and a token never read with a second one.
THEOREM GrantsStayApart == Spec => []GrantsApart
<1>1. GrantsInv => GrantsApart
  <2> SUFFICES ASSUME GrantsInv PROVE GrantsApart
    OBVIOUS
  <2>1. ASSUME NEW a \in audits, NEW b \in audits
        PROVE  /\ a.by.kind = b.by.kind /\ a.by.id = b.by.id /\ a.by.kind # "slot" =>
                     a.grant = b.grant
               /\ a.by.kind = "key" /\ b.by.kind = "key" /\ a.grant = b.grant =>
                     a.by.by = b.by.by
               /\ grant[a.grant].way \in {"key", "group"} =>
                     a.by.kind = "key" \/ key[a.grant].mode = "tunnel"
    <3>1. a.by \in Credential
      BY DEF GrantsInv, GrantsTypeOK
    <3>2. a.by.kind \in {"capability", "slot", "key", "token"}
      BY <3>1 DEF Credential
    <3> QED
      BY <3>2 DEF GrantsInv, AuditsFit
  <2>2. CredentialsApart
    BY <2>1 DEF CredentialsApart
  <2> QED
    BY <2>2 DEF GrantsInv, GrantsApart
<1> QED
  BY <1>1, GrantsAlways, PTL

\* A grant that is no longer in force never is again.
THEOREM EndedStays == Spec => EndedForGood
<1>1. ASSUME GrantsInv, [Next]_vars
      PROVE  [\A g \in Granted :
                ~Valid(g) \/ (Active(g) /\ grant[g].way = "group"
                                 /\ ~(grant[g].scope \subseteq group.members)) => ~Valid(g)']_vars
  <2>1. Onward
    BY <1>1, AccessSteps, AllOnward
  <2>2. ASSUME NEW g \in Granted, Valid(g)'
        PROVE  Valid(g) /\ (Active(g) /\ grant[g].way = "group" =>
                                grant[g].scope \subseteq group.members)
    BY <1>1, <2>1, <2>2, NoneComesBack DEF GrantsInv, OneGrantPerThread
  <2> QED
    BY <2>2
<1> QED
  BY <1>1, GrantsAlways, PTL DEF Spec, EndedForGood

-----------------------------------------------------------------------------
(* The answers of the global agent: the inductive invariant.               *)

RunRow ==
    [thread : setup.threads \cap AgentThreads, asked : Conversations,
     full : BOOLEAN, conv : Conversations \cup {"none"},
     status : {"pending", "running"} \cup Ends, done : 0..5,
     step : {"pending", "running"} \cup Ends,
     tool : {"none", "running"} \cup Ends, proposes : BOOLEAN, answer : BOOLEAN]

ReadRow ==
    [pc : {"none", "begun", "topped", "done"}, base : Nat, mark : 0..lastMsg,
     top : 0..lastMsg, texts : SUBSET (1..lastMsg)]

SummaryRow == [by : Runs, mark : 1..lastMsg, texts : SUBSET (1..lastMsg)]

AnswersTypeOK ==
    /\ lastMsg \in Nat /\ stops \in Nat /\ up \in BOOLEAN
    /\ run \in Seq(RunRow) /\ Len(run) <= setup.answers
    /\ reading \in [Runs -> ReadRow]
    /\ turn \in [Runs -> {"none", "next", "waits"}]
    /\ summary \in [Conversations -> Seq(SummaryRow)]
    /\ deleted \subseteq AgentThreads

\* What is active is active for the thread it was asked in, has not run through its
\* nodes and shows what it does; and only what is active has a task.
ProgressOf(row, pc, read) ==
    /\ row.done >= 1 => row.conv = row.asked
    /\ row.status \in {"pending", "running"} =>
          /\ row.done < 5
          /\ row.done >= 4 => row.answer
          /\ row.tool = "running" => row.done = 1 /\ row.step = "running"
          /\ row.done >= 2 /\ up => read = "done"
    /\ read # "none" => row.done >= 1
    /\ pc # "none" => up /\ row.status \in {"pending", "running"}
    /\ row.conv \in {"none", row.asked}
    /\ row.status = "completed" => row.done = 5 /\ row.answer
    /\ row.status \notin {"pending", "running"} =>
          /\ row.step = "running" => row.status = "cancelled" /\ stops > 0
          /\ row.tool = "running" => row.status \in {"cancelled", "interrupted"} /\ stops > 0

RunsFit ==
    /\ \A r \in Runs : ProgressOf(run[r], turn[r], reading[r].pc)
    /\ \A r, q \in ActiveRuns : run[r].thread = run[q].thread => r = q
    /\ \A r \in ActiveRuns : bound[run[r].thread] = run[r].asked /\ run[r].thread \notin deleted

\* What a version of a conversation's summary claims to cover was read for it.
Covers(c, past, mark, texts) ==
    \/ {m \in TextsOf(c) : past < m /\ m <= mark} \subseteq texts
    \/ Cardinality(texts) >= Window

MarkOf(c, v) == IF v = 0 THEN 0 ELSE summary[c][v].mark

\* What was read is the version it begins after, and the texts since then.
ReadFits(c, this) ==
    this.pc \in {"topped", "done"} =>
        /\ this.base <= Len(summary[c])
        /\ this.mark = MarkOf(c, this.base)
        /\ this.mark <= this.top
        /\ this.top \in TextsOf(c) \cup {0}
        /\ this.pc = "done" => Covers(c, this.mark, this.top, this.texts)

ReadingsFit == \A r \in Runs : ReadFits(run[r].conv, reading[r])

SummariesFit ==
    \A c \in Conversations : \A v \in 1..Len(summary[c]) :
        LET this == summary[c][v] IN
        /\ this.mark \in TextsOf(c)
        /\ MarkOf(c, v - 1) <= this.mark
        /\ Covers(c, MarkOf(c, v - 1), this.mark, this.texts)
        /\ run[this.by].done >= 4
        /\ \A w \in 1..(v - 1) : summary[c][w].by # this.by

AnswersInv == AnswersTypeOK /\ RunsFit /\ ReadingsFit /\ SummariesFit

-----------------------------------------------------------------------------
(* What a step may do to the answers.                                      *)

\* The threads and the texts an answer rests on.
GroundKept == UNCHANGED <<bound, setup>> /\ lastMsg' \in {lastMsg, lastMsg + 1}

\* Everything that leaves the answers alone.
AgentsRest == GroundKept /\ UNCHANGED <<up, stops, agentVars>>

\* The process ends.
AgentsHalt ==
    /\ GroundKept
    /\ up /\ ~up' /\ stops' = stops + 1
    /\ UNCHANGED <<summary, deleted>>
    /\ \/ \E orderly \in BOOLEAN : Halted(orderly)
       \/ HaltedInCancel

\* The process is started again.
AgentsRecover ==
    /\ GroundKept
    /\ ~up /\ up' /\ stops' = stops
    /\ run' = [r \in Runs |-> Recovered(run[r])]
    /\ UNCHANGED <<reading, turn, summary, deleted>>

AgentStep ==
    \/ AgentsRest \/ AgentsHalt \/ AgentsRecover
    \/ \E t \in AgentThreads, c \in Conversations : UpdateThread(t, c)
    \/ \E t \in AgentThreads :
          DeleteThread(t) \/ (\E full \in BOOLEAN : SubmitMessage(t, full))
    \/ \E r \in Runs : CancelRun(r)
    \/ \E r \in Runs : RunStep(r)

LEMMA CalledGround ==
    ASSUME NEW g, NEW by, Called(g, by), UNCHANGED content
    PROVE  GroundKept
BY DEF Called, KeyRead, threads, content, GroundKept

LEMMA SyncGround ==
    ASSUME SyncNext
    PROVE  GroundKept
<1>1. CASE Access
  <2>1. AccessNext /\ UNCHANGED content
    BY <1>1 DEF Access
  <2>2. Grants => UNCHANGED <<bound, setup>>
    BY ZenonT(40) DEF Grants, CreateGrant, ReplaceTunnel, CreateKey, NewGrant
  <2>3. Endings => UNCHANGED <<bound, setup>>
    BY DEF Endings, RevokeGrant, RevokeKey, Expire, RevokeTunnel, ChangeGroup, threads
  <2>4. Surroundings => UNCHANGED <<bound, setup>>
    BY DEF Surroundings, Relink, IssueToken, Reconfigure, threads
  <2>5. PlainReads => UNCHANGED <<bound, setup>>
    BY DEF PlainReads, SlotRead, CapabilityRead, KeyRead, TokenRead, threads
  <2> QED
    BY <2>1, <2>2, <2>3, <2>4, <2>5 DEF AccessNext, content, GroundKept
<1>2. CASE Message
  BY <1>2 DEF Message, accessVars, threads, GroundKept
<1>3. CASE \E i \in Images : Archive(i)
  BY <1>3 DEF Archive, accessVars, threads, GroundKept
<1>4. CASE Reads
  <2>1. PICK g \in Granted, by \in Identities \cup {"tunnel"} :
            \/ ReadText(g, by) \/ ReadManifest(g, by) \/ ReadTimeline(g, by)
            \/ \E i \in Images : ReadImage(g, by, i)
            \/ \E b \in Batches :
                  \/ \E summed \in BOOLEAN : ConfirmText(g, by, b, summed)
                  \/ ConfirmImages(g, by, b)
    BY <1>4 DEF Reads
  <2>2. ReadText(g, by) => Called(g, by) /\ UNCHANGED content
    BY DEF ReadText
  <2>3. ReadManifest(g, by) \/ ReadTimeline(g, by) => Called(g, by) /\ UNCHANGED content
    BY DEF ReadManifest, ReadTimeline, ManifestRead
  <2>4. \A i \in Images : ReadImage(g, by, i) => Called(g, by) /\ UNCHANGED content
    BY DEF ReadImage
  <2>5. \A b \in Batches : \A summed \in BOOLEAN :
            ConfirmText(g, by, b, summed) => Called(g, by) /\ UNCHANGED content
    BY DEF ConfirmText
  <2>6. \A b \in Batches : ConfirmImages(g, by, b) => Called(g, by) /\ UNCHANGED content
    BY DEF ConfirmImages
  <2>7. Called(g, by) /\ UNCHANGED content
    BY <2>1, <2>2, <2>3, <2>4, <2>5, <2>6
  <2> QED
    BY <2>7, CalledGround
<1> QED
  BY <1>1, <1>2, <1>3, <1>4 DEF SyncNext

LEMMA KeptGround ==
    ASSUME AccessKept
    PROVE  GroundKept
BY DEF AccessKept, threads, content, GroundKept

LEMMA ReqGround ==
    ASSUME ReqNext
    PROVE  /\ GroundKept
           /\ \/ UNCHANGED <<up, stops>>
              \/ Start
              \/ \E orderly \in BOOLEAN : Stop(orderly)
<1>1. CASE Outside
  BY <1>1, SyncGround DEF Outside, reqVars, analysis
<1>2. CASE Relating
  BY <1>2, KeptGround DEF Relating, ConfirmRequirementCustomer, CreateCustomer,
     ConfirmSalesAnalysis, OpenLead, ConvertLead, analysis
<1>3. CASE Importing
  BY <1>3, KeptGround DEF Importing, PreviewImport, CommitImport, ExpirePreview, analysis
<1>4. CASE CaseWork
  BY <1>4, KeptGround DEF CaseWork, EditCase, LinkProject, TransferCase, analysis
<1>5. CASE Proposing
  <2>1. CASE \E g \in Granted, by \in Identities \cup {"tunnel"}, i \in 0..Len(case) :
                Propose(g, by, i)
    BY <2>1, CalledGround DEF Propose, analysis
  <2>2. CASE \E p \in 1..Len(proposal) : \E by \in Identities \cup {"tunnel"} :
                ConfirmOutside(p, by)
    BY <2>2, CalledGround DEF ConfirmOutside, Confirmed, analysis
  <2>3. CASE \E p \in 1..Len(proposal) : ConfirmHere(p)
    BY <2>3 DEF ConfirmHere, Confirmed, GroundKept, content, threads, analysis
  <2>4. CASE \E p \in 1..Len(proposal) : ExpireProposal(p)
    BY <2>4, KeptGround DEF ExpireProposal, analysis
  <2> QED
    BY <1>5, <2>1, <2>2, <2>3, <2>4 DEF Proposing
<1>6. CASE Analysing
  <2>1. AnalysisStep
    BY <1>6 DEF Analysing, Enqueue, Cancel, TakeTask, Answer, EndTask, Start, Stop
  <2>2. \/ UNCHANGED <<up, stops>>
        \/ Start
        \/ \E orderly \in BOOLEAN : Stop(orderly)
    BY <1>6 DEF Analysing, Enqueue, Cancel, TakeTask, Answer, EndTask
  <2> QED
    BY <2>1, <2>2, KeptGround DEF AnalysisStep
<1> QED
  BY <1>1, <1>2, <1>3, <1>4, <1>5, <1>6 DEF ReqNext

LEMMA CaseGround ==
    ASSUME CaseNext
    PROVE  /\ GroundKept
           /\ \/ UNCHANGED <<up, stops>>
              \/ Start
              \/ \E orderly \in BOOLEAN : Stop(orderly)
<1>1. CASE Work
  BY <1>1, ReqGround DEF Work
<1>2. CASE UNCHANGED <<syncVars, reqVars>>
  BY <1>2 DEF syncVars, accessVars, threads, content, reqVars, analysis, GroundKept
<1> QED
  BY <1>1, <1>2 DEF CaseNext

LEMMA AgentSteps ==
    ASSUME [Next]_vars
    PROVE  AgentStep
<1>1. CASE UNCHANGED vars
  <2>1. UNCHANGED <<bound, setup, lastMsg, up, stops, agentVars>>
    BY <1>1 DEF vars, caseVars, syncVars, accessVars, threads, content, reqVars, analysis
  <2> QED
    BY <2>1 DEF AgentsRest, GroundKept, AgentStep
<1>2. CASE Elsewhere
  <2>1. /\ GroundKept
        /\ \/ UNCHANGED <<up, stops>>
           \/ Start
           \/ \E orderly \in BOOLEAN : Stop(orderly)
    BY <1>2, CaseGround DEF Elsewhere
  <2>2. UNCHANGED <<summary, deleted>>
    BY <1>2 DEF Elsewhere
  <2>3. CASE up /\ ~up' /\ \/ Stop(TRUE) /\ Halted(TRUE)
                           \/ Stop(FALSE) /\ (Halted(FALSE) \/ HaltedInCancel)
    <3>1. stops' = stops + 1
      BY <2>3 DEF Stop
    <3>2. (\E orderly \in BOOLEAN : Halted(orderly)) \/ HaltedInCancel
      BY <2>3
    <3> QED
      BY <2>1, <2>2, <2>3, <3>1, <3>2 DEF AgentsHalt, AgentStep
  <2>4. CASE ~up /\ up' /\ run' = [r \in Runs |-> Recovered(run[r])] /\ UNCHANGED <<reading, turn>>
    <3>1. stops' = stops
      BY <2>1, <2>4 DEF Start, Stop
    <3> QED
      BY <2>1, <2>2, <2>4, <3>1 DEF AgentsRecover, AgentStep
  <2>5. CASE up' = up /\ UNCHANGED <<run, reading, turn>>
    <3>1. UNCHANGED <<up, stops>>
      BY <2>1, <2>5 DEF Start, Stop
    <3> QED
      BY <2>1, <2>2, <2>5, <3>1 DEF AgentsRest, agentVars, AgentStep
  <2> QED
    BY <1>2, <2>3, <2>4, <2>5 DEF Elsewhere
<1>3. CASE \E r \in Runs : ConfirmCustomerCreate(r)
  <2>1. AccessKept /\ UNCHANGED <<analysis, agentVars>>
    BY <1>3 DEF ConfirmCustomerCreate, CreateCustomer
  <2> QED
    BY <2>1, KeptGround DEF AgentsRest, AgentStep, analysis
<1> QED
  BY <1>1, <1>2, <1>3 DEF Next, Asking, AgentStep

-----------------------------------------------------------------------------
(* The steps of the answers.                                               *)

LEMMA AnswersInit == Init => AnswersInv
<1> SUFFICES ASSUME Init PROVE AnswersInv
  OBVIOUS
<1>1. /\ run = <<>> /\ reading = <<>> /\ turn = <<>> /\ deleted = {}
      /\ summary = [c \in Conversations |-> <<>>]
      /\ lastMsg = 0 /\ up = TRUE /\ stops = 0 /\ setup \in Setups
  BY DEF Init, CaseInit, SyncInit, AccessInit, ReqInit
<1>2. Len(run) = 0 /\ Runs = {} /\ ActiveRuns = {}
  BY <1>1 DEF Runs, ActiveRuns
<1>3. setup.answers \in Nat
  BY <1>1, Sizes
<1>4. AnswersTypeOK
  <2>1. run \in Seq(RunRow) /\ \A c \in Conversations : summary[c] \in Seq(SummaryRow)
    BY <1>1
  <2>2. reading \in [Runs -> ReadRow] /\ turn \in [Runs -> {"none", "next", "waits"}]
    BY <1>1, <1>2
  <2> QED
    BY <1>1, <1>2, <1>3, <2>1, <2>2 DEF AnswersTypeOK
<1>5. \A c \in Conversations : Len(summary[c]) = 0
  BY <1>1
<1>6. RunsFit /\ ReadingsFit /\ SummariesFit
  BY <1>2, <1>5 DEF RunsFit, ReadingsFit, SummariesFit
<1> QED
  BY <1>4, <1>6 DEF AnswersInv

LEMMA AnswersTypes ==
    ASSUME AnswersInv
    PROVE  /\ lastMsg \in Nat /\ stops \in Nat /\ up \in BOOLEAN
           /\ Len(run) \in Nat /\ DOMAIN run = Runs /\ Runs = 1..Len(run)
           /\ \A r \in Runs :
                 /\ run[r] \in RunRow /\ reading[r] \in ReadRow
                 /\ turn[r] \in {"none", "next", "waits"}
                 /\ run[r].done \in Nat /\ run[r].thread \in AgentThreads
           /\ reading \in [Runs -> ReadRow]
           /\ turn \in [Runs -> {"none", "next", "waits"}]
           /\ \A c \in Conversations :
                 /\ summary[c] \in Seq(SummaryRow) /\ Len(summary[c]) \in Nat
                 /\ \A v \in 1..Len(summary[c]) :
                       /\ summary[c][v] \in SummaryRow /\ summary[c][v].mark \in 1..lastMsg
                       /\ summary[c][v].by \in Runs
           /\ \A c \in Conversations : \A v \in 0..Len(summary[c]) : MarkOf(c, v) \in 0..lastMsg
<1>1. /\ lastMsg \in Nat /\ stops \in Nat /\ up \in BOOLEAN
      /\ run \in Seq(RunRow)
      /\ reading \in [Runs -> ReadRow]
      /\ turn \in [Runs -> {"none", "next", "waits"}]
      /\ \A c \in Conversations : summary[c] \in Seq(SummaryRow)
  BY DEF AnswersInv, AnswersTypeOK
<1>2. /\ Len(run) \in Nat /\ DOMAIN run = Runs /\ Runs = 1..Len(run)
      /\ \A r \in Runs : run[r] \in RunRow
  BY <1>1 DEF Runs
<1>3. \A r \in Runs : run[r].done \in Nat /\ run[r].thread \in AgentThreads
  BY <1>2 DEF RunRow
<1>4. \A c \in Conversations :
         /\ summary[c] \in Seq(SummaryRow) /\ Len(summary[c]) \in Nat
         /\ \A v \in 1..Len(summary[c]) : summary[c][v] \in SummaryRow
  BY <1>1
<1>5. \A c \in Conversations : \A v \in 1..Len(summary[c]) :
          summary[c][v].mark \in 1..lastMsg /\ summary[c][v].by \in Runs
  BY <1>4 DEF SummaryRow
<1>6. \A c \in Conversations : \A v \in 0..Len(summary[c]) : MarkOf(c, v) \in 0..lastMsg
  BY <1>1, <1>4, <1>5 DEF MarkOf
<1> QED
  BY <1>1, <1>2, <1>3, <1>4, <1>5, <1>6

\* A message more changes nothing of what is covered.
LEMMA TextsGrow ==
    ASSUME lastMsg \in Nat, lastMsg' \in {lastMsg, lastMsg + 1}
    PROVE  /\ lastMsg' \in Nat /\ lastMsg <= lastMsg'
           /\ \A c : TextsOf(c) \subseteq TextsOf(c)'
           /\ \A c : \A past, mark \in 0..lastMsg : \A texts :
                 Covers(c, past, mark, texts) => Covers(c, past, mark, texts)'
<1>1. lastMsg' \in Nat /\ lastMsg <= lastMsg'
  OBVIOUS
<1>2. \A c : TextsOf(c) \subseteq TextsOf(c)'
  BY <1>1 DEF TextsOf
<1>3. \A c : \A mark \in 0..lastMsg : \A m \in TextsOf(c)' : m <= mark => m \in TextsOf(c)
  BY <1>1 DEF TextsOf
<1>4. \A c : \A past, mark \in 0..lastMsg : \A texts :
         Covers(c, past, mark, texts) => Covers(c, past, mark, texts)'
  BY <1>3 DEF Covers
<1> QED
  BY <1>1, <1>2, <1>4

\* Rows of runs, readings and versions keep their type while messages come.
LEMMA RowsGrow ==
    ASSUME lastMsg \in Nat, lastMsg' \in Nat, lastMsg <= lastMsg', setup' = setup,
           Runs \subseteq Runs'
    PROVE  RunRow' = RunRow /\ ReadRow \subseteq ReadRow' /\ SummaryRow \subseteq SummaryRow'
<1>1. 0..lastMsg \subseteq 0..lastMsg' /\ 1..lastMsg \subseteq 1..lastMsg'
  OBVIOUS
<1>2. RunRow' = RunRow
  BY DEF RunRow
<1>3. ReadRow \subseteq ReadRow'
  BY <1>1 DEF ReadRow
<1>4. SummaryRow \subseteq SummaryRow'
  BY <1>1 DEF SummaryRow
<1> QED
  BY <1>2, <1>3, <1>4

\* A run goes on or ends.
Moved(r) ==
    /\ run'[r].thread = run[r].thread /\ run'[r].asked = run[r].asked
    /\ run'[r].status \in {"pending", "running"} =>
          run[r].status \in {"pending", "running"}
    /\ run[r].done <= run'[r].done
    /\ ProgressOf(run[r], turn[r], reading[r].pc)'

ReadingMoved(r) ==
    \/ reading'[r].pc \notin {"topped", "done"}
    \/ reading'[r] = reading[r] /\ run'[r].conv = run[r].conv
    \/ ReadFits(run'[r].conv, reading'[r])

\* Runs that go on or end keep to their nodes.
LEMMA RunsFitMoved ==
    ASSUME AnswersInv, UNCHANGED <<bound, deleted>>, Runs' = Runs, \A r \in Runs : Moved(r)
    PROVE  RunsFit'
<1>1. \A r \in Runs' : ProgressOf(run[r], turn[r], reading[r].pc)'
  BY DEF Moved
<1>2. \A r \in ActiveRuns' : r \in ActiveRuns /\ run'[r].thread = run[r].thread
                             /\ run'[r].asked = run[r].asked
  BY DEF ActiveRuns, Moved
<1>3. \A r, q \in ActiveRuns' : run'[r].thread = run'[q].thread => r = q
  BY <1>2 DEF AnswersInv, RunsFit
<1>4. \A r \in ActiveRuns' : bound'[run'[r].thread] = run'[r].asked
                             /\ run'[r].thread \notin deleted'
  BY <1>2 DEF AnswersInv, RunsFit
<1> QED
  BY <1>1, <1>3, <1>4 DEF RunsFit

\* Runs go on or end, while the summaries stay.
LEMMA RunsMove ==
    ASSUME AnswersInv, GroundKept, UNCHANGED <<summary, deleted>>,
           up' \in BOOLEAN, stops' \in Nat,
           run' \in Seq(RunRow), Len(run') = Len(run),
           turn' \in [Runs -> {"none", "next", "waits"}],
           reading' \in [Runs -> ReadRow],
           \A r \in Runs : Moved(r) /\ ReadingMoved(r)
    PROVE  AnswersInv'
<1>1. /\ lastMsg' \in Nat /\ lastMsg <= lastMsg' /\ Runs' = Runs
      /\ bound' = bound /\ setup' = setup /\ summary' = summary
  BY TextsGrow, AnswersTypes DEF GroundKept, Runs
<1>2. RunRow' = RunRow /\ ReadRow \subseteq ReadRow' /\ SummaryRow \subseteq SummaryRow'
  BY <1>1, RowsGrow, AnswersTypes
<1>3. AnswersTypeOK'
  <2>1. summary' \in [Conversations -> Seq(SummaryRow')]
    <3>1. summary \in [Conversations -> Seq(SummaryRow)]
      BY DEF AnswersInv, AnswersTypeOK
    <3>2. \A q \in Seq(SummaryRow) : q \in Seq(SummaryRow')
      BY <1>2
    <3> QED
      BY <1>1, <3>1, <3>2
  <2>2. reading' \in [Runs' -> ReadRow'] /\ turn' \in [Runs' -> {"none", "next", "waits"}]
    BY <1>1, <1>2
  <2> QED
    BY <1>1, <1>2, <2>1, <2>2 DEF AnswersInv, AnswersTypeOK
<1>4. RunsFit'
  BY <1>1, RunsFitMoved
<1>5. /\ \A c : TextsOf(c) \subseteq TextsOf(c)'
      /\ \A c : \A past, mark \in 0..lastMsg : \A texts :
            Covers(c, past, mark, texts) => Covers(c, past, mark, texts)'
      /\ \A c : \A v : MarkOf(c, v)' = MarkOf(c, v)
  BY <1>1, TextsGrow, AnswersTypes DEF GroundKept, MarkOf
<1>6. ReadingsFit'
  <2> SUFFICES ASSUME NEW r \in Runs PROVE ReadFits(run[r].conv, reading[r])'
    BY <1>1 DEF ReadingsFit
  <2>1. CASE reading'[r].pc \notin {"topped", "done"}
    BY <2>1 DEF ReadFits
  <2>3. CASE reading'[r] = reading[r] /\ run'[r].conv = run[r].conv
    <3>1. ReadFits(run[r].conv, reading[r])
      BY DEF AnswersInv, ReadingsFit
    <3>2. reading[r].mark \in 0..lastMsg /\ reading[r].top \in 0..lastMsg
      BY AnswersTypes DEF ReadRow
    <3> QED
      BY <1>1, <1>5, <2>3, <3>1, <3>2 DEF ReadFits
  <2>2. CASE ReadFits(run'[r].conv, reading'[r])
    <3>1. reading'[r].mark \in 0..lastMsg /\ reading'[r].top \in 0..lastMsg
      BY DEF ReadRow
    <3> QED
      BY <1>1, <1>5, <2>2, <3>1 DEF ReadFits
  <2> QED
    BY <2>1, <2>2, <2>3, <1>5 DEF ReadingMoved
<1>7. SummariesFit'
  <2> SUFFICES ASSUME NEW c \in Conversations, NEW v \in 1..Len(summary[c])
               PROVE  /\ summary[c][v].mark \in TextsOf(c)'
                      /\ MarkOf(c, v - 1)' <= summary[c][v].mark
                      /\ Covers(c, MarkOf(c, v - 1), summary[c][v].mark, summary[c][v].texts)'
                      /\ run'[summary[c][v].by].done >= 4
                      /\ \A w \in 1..(v - 1) : summary[c][w].by # summary[c][v].by
    BY <1>1 DEF SummariesFit
  <2>1. /\ summary[c][v].mark \in TextsOf(c)
        /\ MarkOf(c, v - 1) <= summary[c][v].mark
        /\ Covers(c, MarkOf(c, v - 1), summary[c][v].mark, summary[c][v].texts)
        /\ run[summary[c][v].by].done >= 4
        /\ \A w \in 1..(v - 1) : summary[c][w].by # summary[c][v].by
    BY DEF AnswersInv, SummariesFit
  <2>2. /\ summary[c][v].mark \in 0..lastMsg /\ summary[c][v].by \in Runs
        /\ v - 1 \in 0..Len(summary[c])
    BY AnswersTypes
  <2>3. MarkOf(c, v - 1) \in 0..lastMsg
    BY <2>2, AnswersTypes
  <2>4. \A r \in Runs : run[r].done \in Nat /\ run'[r].done \in Nat /\ run[r].done <= run'[r].done
    <3>1. \A r \in Runs : run'[r] \in RunRow
      BY DEF Runs
    <3>2. \A r \in Runs : run'[r].done \in Nat
      BY <3>1 DEF RunRow
    <3> QED
      BY <3>2, AnswersTypes DEF Moved
  <2>5. Covers(c, MarkOf(c, v - 1), summary[c][v].mark, summary[c][v].texts)'
    BY <1>1, <1>5, <2>1, <2>2, <2>3
  <2>6. run'[summary[c][v].by].done >= 4
    BY <2>1, <2>2, <2>4, SMTT(30)
  <2> QED
    BY <1>5, <2>1, <2>5, <2>6
<1> QED
  BY <1>3, <1>4, <1>6, <1>7 DEF AnswersInv

\* One run goes on or ends, with its task and what its thread has read.
OneMove(r, row, pc, read) ==
    /\ GroundKept /\ UNCHANGED <<up, stops, deleted>>
    /\ run' = [run EXCEPT ![r] = row]
    /\ turn' = [turn EXCEPT ![r] = pc]
    /\ reading' = [reading EXCEPT ![r] = read]

OneFits(r, row, pc, read) ==
    /\ row \in RunRow /\ pc \in {"none", "next", "waits"} /\ read \in ReadRow
    /\ row.thread = run[r].thread /\ row.asked = run[r].asked
    /\ row.status \in {"pending", "running"} => run[r].status \in {"pending", "running"}
    /\ run[r].done <= row.done
    /\ ProgressOf(row, pc, read.pc)
    /\ \/ read.pc \notin {"topped", "done"}
       \/ read = reading[r] /\ row.conv = run[r].conv
       \/ ReadFits(row.conv, read)

LEMMA OneMoved ==
    ASSUME AnswersInv, NEW r \in Runs, NEW row, NEW pc, NEW read,
           OneMove(r, row, pc, read), OneFits(r, row, pc, read)
    PROVE  /\ run' \in Seq(RunRow) /\ Len(run') = Len(run) /\ Runs' = Runs
           /\ turn' \in [Runs -> {"none", "next", "waits"}]
           /\ reading' \in [Runs -> ReadRow] /\ reading'[r] = read
           /\ \A q \in Runs : q # r => reading'[q] = reading[q] /\ run'[q] = run[q]
           /\ run'[r] = row
           /\ up' \in BOOLEAN /\ stops' \in Nat /\ GroundKept /\ deleted' = deleted
           /\ \A q \in Runs : Moved(q)
<1>1. /\ run \in Seq(RunRow) /\ reading \in [Runs -> ReadRow]
      /\ turn \in [Runs -> {"none", "next", "waits"}]
      /\ up \in BOOLEAN /\ stops \in Nat /\ Runs = 1..Len(run) /\ Len(run) \in Nat
  BY AnswersTypes DEF AnswersInv, AnswersTypeOK
<1>0. /\ row \in RunRow /\ pc \in {"none", "next", "waits"} /\ read \in ReadRow
      /\ run' = [run EXCEPT ![r] = row]
      /\ turn' = [turn EXCEPT ![r] = pc]
      /\ reading' = [reading EXCEPT ![r] = read]
      /\ UNCHANGED <<up, stops, deleted>> /\ GroundKept
  BY DEF OneMove, OneFits
<1>2. /\ run' \in Seq(RunRow) /\ Len(run') = Len(run)
      /\ run'[r] = row /\ \A q \in Runs : q # r => run'[q] = run[q]
  BY <1>0, <1>1
<1>3. /\ turn' \in [Runs -> {"none", "next", "waits"}]
      /\ turn'[r] = pc /\ \A q \in Runs : q # r => turn'[q] = turn[q]
  BY <1>0, <1>1
<1>4. /\ reading' \in [Runs -> ReadRow]
      /\ reading'[r] = read /\ \A q \in Runs : q # r => reading'[q] = reading[q]
  BY <1>0, <1>1
<1>5. ASSUME NEW q \in Runs PROVE Moved(q)
  <2>1. CASE q = r
    <3>1. ProgressOf(run[q], turn[q], reading[q].pc)'
      BY <1>0, <1>2, <1>3, <1>4, <2>1 DEF ProgressOf, OneFits
    <3> QED
      BY <1>2, <2>1, <3>1 DEF Moved, OneFits
  <2>2. CASE q # r
    <3>1. ProgressOf(run[q], turn[q], reading[q].pc)
      BY DEF AnswersInv, RunsFit
    <3>2. ProgressOf(run[q], turn[q], reading[q].pc)'
      BY <1>0, <1>2, <1>3, <1>4, <2>2, <3>1 DEF ProgressOf
    <3>3. run[q].done \in Nat
      BY AnswersTypes
    <3> QED
      BY <1>2, <2>2, <3>2, <3>3 DEF Moved
  <2> QED
    BY <2>1, <2>2
<1>6. up' \in BOOLEAN /\ stops' \in Nat
  BY <1>0, <1>1
<1> QED
  BY <1>0, <1>1, <1>2, <1>3, <1>4, <1>5, <1>6 DEF Runs

LEMMA OneMoves ==
    ASSUME AnswersInv, NEW r \in Runs, NEW row, NEW pc, NEW read,
           OneMove(r, row, pc, read), OneFits(r, row, pc, read),
           UNCHANGED summary
    PROVE  AnswersInv'
<1>1. ASSUME NEW q \in Runs PROVE ReadingMoved(q)
  BY OneMoved DEF ReadingMoved, OneFits
<1> QED
  BY <1>1, OneMoved, RunsMove

\* What is said of one run, its task and its reading.
LEMMA OneRun ==
    ASSUME AnswersInv, NEW r \in Runs
    PROVE  /\ run[r] \in RunRow /\ reading[r] \in ReadRow
           /\ turn[r] \in {"none", "next", "waits"}
           /\ run[r].done \in 0..5 /\ run[r].asked \in Conversations
           /\ ProgressOf(run[r], turn[r], reading[r].pc)
           /\ ReadFits(run[r].conv, reading[r])
           /\ r \in ActiveRuns <=> run[r].status \in {"pending", "running"}
           /\ reading = [reading EXCEPT ![r] = reading[r]]
           /\ turn = [turn EXCEPT ![r] = turn[r]]
           /\ run = [run EXCEPT ![r] = run[r]]
<1>1. run[r] \in RunRow /\ reading[r] \in ReadRow /\ turn[r] \in {"none", "next", "waits"}
  BY AnswersTypes
<1>2. run[r].done \in 0..5 /\ run[r].asked \in Conversations
  BY <1>1 DEF RunRow
<1>3. ProgressOf(run[r], turn[r], reading[r].pc)
  BY DEF AnswersInv, RunsFit
<1>4. ReadFits(run[r].conv, reading[r])
  BY DEF AnswersInv, ReadingsFit
<1>5. r \in ActiveRuns <=> run[r].status \in {"pending", "running"}
  BY DEF ActiveRuns
<1>6. /\ reading \in [Runs -> ReadRow] /\ turn \in [Runs -> {"none", "next", "waits"}]
      /\ run \in Seq(RunRow)
  BY DEF AnswersInv, AnswersTypeOK
<1>7. /\ reading = [reading EXCEPT ![r] = reading[r]]
      /\ turn = [turn EXCEPT ![r] = turn[r]]
      /\ run = [run EXCEPT ![r] = run[r]]
  BY <1>6
<1> QED
  BY <1>1, <1>2, <1>3, <1>4, <1>5, <1>7

LEMMA CaseVarsGround ==
    ASSUME UNCHANGED caseVars
    PROVE  GroundKept /\ UNCHANGED <<up, stops>>
BY DEF caseVars, syncVars, accessVars, threads, content, reqVars, analysis, GroundKept

LEMMA NodeNames ==
    /\ Len(Nodes) = 5
    /\ \A r : run[r].done \in 0..4 =>
          /\ Node(r) = "prepare_run" <=> run[r].done = 0
          /\ Node(r) = "execute_tools" <=> run[r].done = 1
          /\ Node(r) = "generate_answer" <=> run[r].done = 2
          /\ Node(r) = "persist_answer" <=> run[r].done = 3
          /\ Node(r) = "publish_completed" <=> run[r].done = 4
BY DEF Nodes, Node

\* A run whose task is at a node, and one that waits.
LEMMA TaskAt ==
    ASSUME AnswersInv, NEW r \in Runs, turn[r] # "none"
    PROVE  /\ up /\ run[r].status \in {"pending", "running"} /\ run[r].done \in 0..4
           /\ run[r].done >= 1 => run[r].conv = run[r].asked
           /\ run[r].done >= 4 => run[r].answer
           /\ run[r].done >= 2 => reading[r].pc = "done"
           /\ reading[r].pc # "none" => run[r].done >= 1
           /\ run[r].tool = "running" => run[r].done = 1 /\ run[r].step = "running"
           /\ run[r].conv \in {"none", run[r].asked}
BY OneRun DEF ProgressOf

\* The rows a step makes.
LEMMA PassedRow ==
    ASSUME NEW row \in RunRow, row.done \in 0..4
    PROVE  /\ Passed(row) \in RunRow
           /\ Passed(row).done = row.done + 1 /\ Passed(row).step = "pending"
           /\ Passed(row).thread = row.thread /\ Passed(row).asked = row.asked
           /\ Passed(row).conv = row.conv /\ Passed(row).status = row.status
           /\ Passed(row).tool = row.tool /\ Passed(row).answer = row.answer
<1>1. Passed(row) \in RunRow
  <2>1. row.done + 1 \in 0..5
    OBVIOUS
  <2>2. ASSUME NEW n \in 0..5 PROVE [row EXCEPT !.done = n] \in RunRow
    BY DEF RunRow
  <2>3. ASSUME NEW other \in RunRow PROVE [other EXCEPT !.step = "pending"] \in RunRow
    BY DEF RunRow
  <2> QED
    BY <2>1, <2>2, <2>3 DEF Passed
<1>2. /\ Passed(row).done = row.done + 1 /\ Passed(row).step = "pending"
      /\ Passed(row).thread = row.thread /\ Passed(row).asked = row.asked
  BY DEF RunRow, Passed
<1>3. /\ Passed(row).conv = row.conv /\ Passed(row).status = row.status
      /\ Passed(row).tool = row.tool /\ Passed(row).answer = row.answer
  BY DEF RunRow, Passed
<1> QED
  BY <1>1, <1>2, <1>3

LEMMA FailedRow ==
    ASSUME NEW row \in RunRow
    PROVE  /\ Failed(row) \in RunRow
           /\ Failed(row).done = row.done /\ Failed(row).step = "failed"
           /\ Failed(row).thread = row.thread /\ Failed(row).asked = row.asked
           /\ Failed(row).conv = row.conv /\ Failed(row).status = "failed"
           /\ Failed(row).tool = row.tool /\ Failed(row).answer = row.answer
BY DEF RunRow, Failed, Ends

LEMMA PrepareKeeps ==
    ASSUME AnswersInv, NEW r \in Runs, PrepareRun(r)
    PROVE  AnswersInv'
<1> DEFINE row == [Passed(run[r]) EXCEPT !.status = "running", !.conv = bound[run[r].thread]]
<1>1. /\ GroundKept /\ UNCHANGED <<up, stops, summary, deleted, reading>>
      /\ run' = [run EXCEPT ![r] = row] /\ turn' = [turn EXCEPT ![r] = "next"]
      /\ up /\ turn[r] = "next" /\ r \in ActiveRuns /\ run[r].done = 0
  BY CaseVarsGround, NodeNames, TaskAt DEF PrepareRun, AtNode, Becomes
<1>2. bound[run[r].thread] = run[r].asked
  BY <1>1 DEF AnswersInv, RunsFit
<1>3. /\ Passed(run[r]) \in RunRow /\ Passed(run[r]).done = 1
      /\ Passed(run[r]).thread = run[r].thread /\ Passed(run[r]).asked = run[r].asked
      /\ Passed(run[r]).tool = run[r].tool
  BY <1>1, OneRun, PassedRow
<1>4. /\ row \in RunRow /\ row.thread = run[r].thread /\ row.asked = run[r].asked
      /\ row.status = "running" /\ row.conv = run[r].asked /\ row.done = 1
      /\ row.tool = run[r].tool
  BY <1>2, <1>3, OneRun DEF RunRow
<1>5. /\ reading[r].pc \in {"none"} /\ row.tool # "running"
      /\ run[r].status \in {"pending", "running"}
  BY <1>1, <1>4, TaskAt
<1> HIDE DEF row
<1>6. ProgressOf(row, "next", reading[r].pc)
  BY <1>1, <1>4, <1>5 DEF ProgressOf, Ends
<1>7. reading' = [reading EXCEPT ![r] = reading[r]] /\ reading[r] \in ReadRow
  BY <1>1, OneRun
<1>8. OneMove(r, row, "next", reading[r])
  BY <1>1, <1>4, <1>5, <1>6, <1>7 DEF OneMove
<1>9. OneFits(r, row, "next", reading[r])
  BY <1>1, <1>4, <1>5, <1>6, <1>7 DEF OneFits
<1> QED
  BY <1>1, <1>8, <1>9, OneMoves

LEMMA ExecuteKeeps ==
    ASSUME AnswersInv, NEW r \in Runs, ExecuteTools(r)
    PROVE  AnswersInv'
<1> DEFINE row == [run[r] EXCEPT !.step = "running", !.tool = "running"]
           read == [reading[r] EXCEPT !.pc = "begun"]
<1>1. /\ GroundKept /\ UNCHANGED <<up, stops, summary, deleted>>
      /\ run' = [run EXCEPT ![r] = row] /\ turn' = [turn EXCEPT ![r] = "waits"]
      /\ up /\ turn[r] = "next" /\ run[r].done = 1
  BY CaseVarsGround, NodeNames, TaskAt DEF ExecuteTools, AtNode, Becomes
<1>2. reading' = [reading EXCEPT ![r] = read]
  BY AnswersTypes DEF ExecuteTools
<1>3. read \in ReadRow /\ read.pc = "begun"
  BY OneRun DEF ReadRow
<1>4. /\ row \in RunRow /\ row.thread = run[r].thread /\ row.asked = run[r].asked
      /\ row.status = run[r].status /\ row.conv = run[r].conv /\ row.done = run[r].done
      /\ row.step = "running"
  BY OneRun, ZenonT(40) DEF RunRow
<1> HIDE DEF row, read
<1>5. ProgressOf(row, "waits", read.pc)
  BY <1>1, <1>3, <1>4, TaskAt DEF ProgressOf, Ends
<1>8. OneMove(r, row, "waits", read)
  BY <1>1, <1>2, <1>3, <1>4, <1>5 DEF OneMove
<1>9. OneFits(r, row, "waits", read)
  BY <1>1, <1>2, <1>3, <1>4, <1>5 DEF OneFits
<1> QED
  BY <1>1, <1>8, <1>9, OneMoves

LEMMA GenerateKeeps ==
    ASSUME AnswersInv, NEW r \in Runs, GenerateAnswer(r)
    PROVE  AnswersInv'
<1> DEFINE row == [run[r] EXCEPT !.step = "running"]
<1>1. /\ GroundKept /\ UNCHANGED <<up, stops, summary, deleted, reading>>
      /\ run' = [run EXCEPT ![r] = row] /\ turn' = [turn EXCEPT ![r] = "waits"]
      /\ up /\ turn[r] = "next" /\ run[r].done = 2
  BY CaseVarsGround, NodeNames, TaskAt DEF GenerateAnswer, AtNode, Becomes
<1>2. reading' = [reading EXCEPT ![r] = reading[r]] /\ reading[r] \in ReadRow
  BY <1>1, OneRun
<1>3. /\ row \in RunRow /\ row.thread = run[r].thread /\ row.asked = run[r].asked
      /\ row.status = run[r].status /\ row.conv = run[r].conv /\ row.done = run[r].done
      /\ row.tool = run[r].tool
  BY OneRun DEF RunRow
<1> HIDE DEF row
<1>4. ProgressOf(row, "waits", reading[r].pc)
  BY <1>1, <1>3, TaskAt DEF ProgressOf, Ends
<1>8. OneMove(r, row, "waits", reading[r])
  BY <1>1, <1>2, <1>3, <1>4 DEF OneMove
<1>9. OneFits(r, row, "waits", reading[r])
  BY <1>1, <1>2, <1>3, <1>4 DEF OneFits
<1> QED
  BY <1>1, <1>8, <1>9, OneMoves

LEMMA PublishKeeps ==
    ASSUME AnswersInv, NEW r \in Runs, PublishCompleted(r)
    PROVE  AnswersInv'
<1> DEFINE row == [Passed(run[r]) EXCEPT !.status = "completed"]
<1>1. /\ GroundKept /\ UNCHANGED <<up, stops, summary, deleted, reading>>
      /\ run' = [run EXCEPT ![r] = row] /\ turn' = [turn EXCEPT ![r] = "none"]
      /\ up /\ turn[r] = "next" /\ run[r].done = 4
  BY CaseVarsGround, NodeNames, TaskAt DEF PublishCompleted, AtNode, Becomes
<1>2. reading' = [reading EXCEPT ![r] = reading[r]] /\ reading[r] \in ReadRow
  BY <1>1, OneRun
<1>3. /\ Passed(run[r]) \in RunRow /\ Passed(run[r]).done = 5
      /\ Passed(run[r]).thread = run[r].thread /\ Passed(run[r]).asked = run[r].asked
      /\ Passed(run[r]).tool = run[r].tool /\ Passed(run[r]).conv = run[r].conv
      /\ Passed(run[r]).answer = run[r].answer /\ Passed(run[r]).step = "pending"
  BY <1>1, OneRun, PassedRow
<1>4. /\ row \in RunRow /\ row.thread = run[r].thread /\ row.asked = run[r].asked
      /\ row.status = "completed" /\ row.conv = run[r].conv /\ row.done = 5
      /\ row.tool = run[r].tool /\ row.answer = run[r].answer /\ row.step = "pending"
  BY <1>3 DEF RunRow, Ends
<1> HIDE DEF row
<1>5. ProgressOf(row, "none", reading[r].pc)
  BY <1>1, <1>4, TaskAt DEF ProgressOf
<1>6. run[r].status \in {"pending", "running"}
  BY <1>1, TaskAt
<1>8. OneMove(r, row, "none", reading[r])
  BY <1>1, <1>2, <1>4, <1>5, <1>6 DEF OneMove
<1>9. OneFits(r, row, "none", reading[r])
  BY <1>1, <1>2, <1>4, <1>5, <1>6 DEF OneFits
<1> QED
  BY <1>1, <1>8, <1>9, OneMoves

LEMMA ModelKeeps ==
    ASSUME AnswersInv, NEW r \in Runs, ModelReturns(r)
    PROVE  AnswersInv'
<1>1. /\ GroundKept /\ UNCHANGED <<up, stops, summary, deleted, reading>>
      /\ up /\ turn[r] = "waits" /\ run[r].done = 2
      /\ run[r].status \in {"pending", "running"}
  BY CaseVarsGround, NodeNames, TaskAt DEF ModelReturns
<1>2. reading' = [reading EXCEPT ![r] = reading[r]] /\ reading[r] \in ReadRow
  BY <1>1, OneRun
<1>3. CASE Becomes(r, Failed(run[r]), "none")
  <2>1. ProgressOf(Failed(run[r]), "none", reading[r].pc)
    BY <1>1, TaskAt, FailedRow, OneRun DEF ProgressOf
  <2>8. OneMove(r, Failed(run[r]), "none", reading[r])
    BY <1>1, <1>2, <1>3, <2>1 DEF OneMove, Becomes
  <2>9. OneFits(r, Failed(run[r]), "none", reading[r])
    BY <1>1, <1>2, <1>3, <2>1, FailedRow, OneRun DEF OneFits
  <2> QED
    BY <1>1, <2>8, <2>9, OneMoves
<1>4. ASSUME NEW proposes \in BOOLEAN,
             Becomes(r, [Passed(run[r]) EXCEPT !.proposes = proposes], "next")
      PROVE  AnswersInv'
  <2> DEFINE row == [Passed(run[r]) EXCEPT !.proposes = proposes]
  <2>1. /\ Passed(run[r]) \in RunRow /\ Passed(run[r]).done = 3
        /\ Passed(run[r]).thread = run[r].thread /\ Passed(run[r]).asked = run[r].asked
        /\ Passed(run[r]).tool = run[r].tool /\ Passed(run[r]).conv = run[r].conv
        /\ Passed(run[r]).status = run[r].status
    BY <1>1, OneRun, PassedRow
  <2>2. /\ row \in RunRow /\ row.thread = run[r].thread /\ row.asked = run[r].asked
        /\ row.status = run[r].status /\ row.conv = run[r].conv /\ row.done = 3
        /\ row.tool = run[r].tool
    BY <2>1 DEF RunRow
  <2>3. run' = [run EXCEPT ![r] = row] /\ turn' = [turn EXCEPT ![r] = "next"]
    BY <1>4 DEF Becomes
  <2> HIDE DEF row
  <2>4. ProgressOf(row, "next", reading[r].pc)
    BY <1>1, <2>2, TaskAt DEF ProgressOf, Ends
  <2>8. OneMove(r, row, "next", reading[r])
    BY <1>1, <1>2, <2>2, <2>3, <2>4 DEF OneMove
  <2>9. OneFits(r, row, "next", reading[r])
    BY <1>1, <1>2, <2>2, <2>3, <2>4 DEF OneFits
  <2> QED
    BY <1>1, <2>8, <2>9, OneMoves
<1> QED
  BY <1>3, <1>4 DEF ModelReturns

LEMMA ToolKeeps ==
    ASSUME AnswersInv, NEW r \in Runs, ToolReturns(r)
    PROVE  AnswersInv'
<1>1. /\ GroundKept /\ UNCHANGED <<up, stops, summary, deleted, reading>>
      /\ up /\ turn[r] = "waits" /\ run[r].done = 1
      /\ run[r].status \in {"pending", "running"}
  BY CaseVarsGround, NodeNames, TaskAt DEF ToolReturns
<1>2. reading' = [reading EXCEPT ![r] = reading[r]] /\ reading[r] \in ReadRow
  BY <1>1, OneRun
<1>3. CASE Becomes(r, [Failed(run[r]) EXCEPT !.tool = "failed"], "none")
  <2> DEFINE row == [Failed(run[r]) EXCEPT !.tool = "failed"]
  <2>1. /\ row \in RunRow /\ row.thread = run[r].thread /\ row.asked = run[r].asked
        /\ row.status = "failed" /\ row.conv = run[r].conv /\ row.done = 1
        /\ row.tool = "failed" /\ row.step = "failed"
    BY <1>1, OneRun, FailedRow DEF RunRow, Ends
  <2>2. run' = [run EXCEPT ![r] = row] /\ turn' = [turn EXCEPT ![r] = "none"]
    BY <1>3 DEF Becomes
  <2> HIDE DEF row
  <2>3. ProgressOf(row, "none", reading[r].pc)
    BY <1>1, <2>1, TaskAt DEF ProgressOf
  <2>8. OneMove(r, row, "none", reading[r])
    BY <1>1, <1>2, <2>1, <2>2, <2>3 DEF OneMove
  <2>9. OneFits(r, row, "none", reading[r])
    BY <1>1, <1>2, <2>1, <2>2, <2>3 DEF OneFits
  <2> QED
    BY <1>1, <2>8, <2>9, OneMoves
<1>4. CASE reading[r].pc = "done" /\ Becomes(r, [Passed(run[r]) EXCEPT !.tool = "completed"], "next")
  <2> DEFINE row == [Passed(run[r]) EXCEPT !.tool = "completed"]
  <2>1. /\ Passed(run[r]) \in RunRow /\ Passed(run[r]).done = 2
        /\ Passed(run[r]).thread = run[r].thread /\ Passed(run[r]).asked = run[r].asked
        /\ Passed(run[r]).conv = run[r].conv /\ Passed(run[r]).status = run[r].status
    BY <1>1, OneRun, PassedRow
  <2>2. /\ row \in RunRow /\ row.thread = run[r].thread /\ row.asked = run[r].asked
        /\ row.status = run[r].status /\ row.conv = run[r].conv /\ row.done = 2
        /\ row.tool = "completed"
    BY <2>1 DEF RunRow, Ends
  <2>3. run' = [run EXCEPT ![r] = row] /\ turn' = [turn EXCEPT ![r] = "next"]
    BY <1>4 DEF Becomes
  <2> HIDE DEF row
  <2>4. ProgressOf(row, "next", reading[r].pc)
    BY <1>1, <1>4, <2>2, TaskAt DEF ProgressOf, Ends
  <2>8. OneMove(r, row, "next", reading[r])
    BY <1>1, <1>2, <2>2, <2>3, <2>4 DEF OneMove
  <2>9. OneFits(r, row, "next", reading[r])
    BY <1>1, <1>2, <2>2, <2>3, <2>4 DEF OneFits
  <2> QED
    BY <1>1, <2>8, <2>9, OneMoves
<1> QED
  BY <1>3, <1>4 DEF ToolReturns

\* A reading, and a call that ends, of a run the user cancels.
LEMMA CancelKeeps ==
    ASSUME AnswersInv, NEW r \in Runs, CancelRun(r)
    PROVE  AnswersInv'
<1> DEFINE row == Terminal(Cancelled(run[r]))
<1>1. /\ GroundKept /\ UNCHANGED <<up, stops, summary, deleted>>
      /\ run' = [run EXCEPT ![r] = row] /\ turn' = [turn EXCEPT ![r] = "none"]
      /\ reading' = [reading EXCEPT ![r] = NoReading]
      /\ up /\ run[r].status \in {"pending", "running"}
  BY CaseVarsGround, OneRun DEF CancelRun, Becomes
<1>2. NoReading \in ReadRow /\ NoReading.pc = "none"
  BY AnswersTypes DEF NoReading, ReadRow
<1>3. /\ Cancelled(run[r]) \in RunRow /\ Cancelled(run[r]).status = "cancelled"
      /\ Cancelled(run[r]).thread = run[r].thread /\ Cancelled(run[r]).asked = run[r].asked
      /\ Cancelled(run[r]).conv = run[r].conv /\ Cancelled(run[r]).done = run[r].done
  BY OneRun DEF RunRow, Cancelled, Ends
<1>4. ASSUME NEW old \in RunRow
      PROVE  /\ Terminal(old) \in RunRow /\ Terminal(old).status = old.status
             /\ Terminal(old).thread = old.thread /\ Terminal(old).asked = old.asked
             /\ Terminal(old).conv = old.conv /\ Terminal(old).done = old.done
             /\ Terminal(old).tool # "running"
             /\ old.done < 5 => Terminal(old).step # "running"
  <2>1. old.step \in {"pending", "running"} \cup Ends /\ old.tool \in {"none", "running"} \cup Ends
    BY DEF RunRow
  <2> DEFINE Ended(new, s, x) ==
        /\ new \in RunRow /\ new.step = s /\ new.tool = x
        /\ new.status = old.status /\ new.thread = old.thread
        /\ new.asked = old.asked /\ new.conv = old.conv /\ new.done = old.done
  <2>2. ASSUME NEW s \in {"pending", "running"} \cup Ends, NEW x \in {"none", "running"} \cup Ends
        PROVE  Ended([old EXCEPT !.step = s, !.tool = x], s, x)
    <3>1. [old EXCEPT !.step = s, !.tool = x] \in RunRow
      BY <2>2 DEF RunRow
    <3> QED
      BY <3>1 DEF RunRow
  <2> DEFINE s == IF old.done < Len(Nodes) THEN "cancelled" ELSE old.step
             x == IF old.tool = "running" THEN "cancelled" ELSE old.tool
  <2>3. s \in {"pending", "running"} \cup Ends /\ x \in {"none", "running"} \cup Ends
    BY <2>1 DEF Ends
  <2>4. x # "running" /\ (old.done < 5 => s # "running")
    BY NodeNames
  <2>5. Terminal(old) = [old EXCEPT !.step = s, !.tool = x]
    BY DEF Terminal, RunRow
  <2> HIDE DEF s, x, Ended
  <2>6. Ended([old EXCEPT !.step = s, !.tool = x], s, x)
    BY <2>2, <2>3
  <2>7. Ended(Terminal(old), s, x)
    BY <2>5, <2>6, Zenon
  <2> QED
    BY <2>4, <2>7 DEF Ended
<1>5. /\ row \in RunRow /\ row.status = "cancelled" /\ row.thread = run[r].thread
      /\ row.asked = run[r].asked /\ row.conv = run[r].conv /\ row.done = run[r].done
      /\ row.tool # "running" /\ (run[r].done < 5 => row.step # "running")
  BY <1>3, <1>4
<1>6. run[r].done < 5 /\ run[r].conv \in {"none", run[r].asked}
      /\ (run[r].done >= 1 => run[r].conv = run[r].asked) /\ run[r].done \in 0..5
  BY <1>1, OneRun DEF ProgressOf
<1> HIDE DEF row
<1>7. ProgressOf(row, "none", "none")
  BY <1>5, <1>6 DEF ProgressOf
<1>8. OneMove(r, row, "none", NoReading)
  BY <1>1 DEF OneMove
<1>9. OneFits(r, row, "none", NoReading)
  BY <1>1, <1>2, <1>5, <1>6, <1>7 DEF OneFits
<1> QED
  BY <1>1, <1>8, <1>9, OneMoves

\* The newest text of a conversation.
LEMMA NewestText ==
    ASSUME lastMsg \in Nat, NEW c
    PROVE  /\ Newest(TextsOf(c)) \in TextsOf(c) \cup {0}
           /\ Newest(TextsOf(c)) \in 0..lastMsg
           /\ \A m \in TextsOf(c) \cup {0} : m <= Newest(TextsOf(c))
<1>1. TextsOf(c) \cup {0} \in SUBSET (0..lastMsg) /\ TextsOf(c) \cup {0} # {}
  BY DEF TextsOf
<1> QED
  BY <1>1, Largest DEF Newest

LEMMA TopKeeps ==
    ASSUME AnswersInv, NEW r \in Runs, ReadTop(r)
    PROVE  AnswersInv'
<1> DEFINE c == run[r].conv
           past == summary[c]
           read == [pc |-> "topped", base |-> Len(past), top |-> Newest(TextsOf(c)),
                    mark |-> IF past = <<>> THEN 0 ELSE past[Len(past)].mark, texts |-> {}]
<1>1. /\ GroundKept /\ UNCHANGED <<up, stops, summary, deleted, run, turn>>
      /\ reading' = [reading EXCEPT ![r] = read]
      /\ up /\ reading[r].pc = "begun"
  BY CaseVarsGround DEF ReadTop
<1>2. /\ run' = [run EXCEPT ![r] = run[r]] /\ turn' = [turn EXCEPT ![r] = turn[r]]
      /\ run[r] \in RunRow /\ turn[r] \in {"none", "next", "waits"}
  BY <1>1, OneRun
<1>3. run[r].done >= 1 /\ c = run[r].asked /\ c \in Conversations
  BY <1>1, OneRun DEF ProgressOf
<1>4. /\ past \in Seq(SummaryRow) /\ Len(past) \in Nat /\ lastMsg \in Nat
      /\ (past = <<>> <=> Len(past) = 0)
  BY <1>3, AnswersTypes
<1>5. read.mark = MarkOf(c, Len(past)) /\ read.mark \in 0..lastMsg
  BY <1>3, <1>4, AnswersTypes DEF MarkOf
<1>6. read.top \in TextsOf(c) \cup {0} /\ read.top \in 0..lastMsg
      /\ \A m \in TextsOf(c) \cup {0} : m <= read.top
  BY <1>4, NewestText
<1>7. read.mark \in TextsOf(c) \cup {0}
  BY <1>3, <1>4, <1>5 DEF MarkOf, AnswersInv, SummariesFit
<1>8. /\ read \in ReadRow /\ read.pc = "topped" /\ read.base = Len(past)
  BY <1>4, <1>5, <1>6 DEF ReadRow
<1> HIDE DEF read
<1>9. ReadFits(c, read)
  BY <1>4, <1>5, <1>6, <1>7, <1>8 DEF ReadFits
<1>10. ProgressOf(run[r], turn[r], read.pc)
  BY <1>1, <1>3, <1>8, OneRun DEF ProgressOf
<1>11. OneMove(r, run[r], turn[r], read)
  BY <1>1, <1>2 DEF OneMove
<1>12. OneFits(r, run[r], turn[r], read)
  BY <1>2, <1>3, <1>8, <1>9, <1>10, OneRun DEF OneFits
<1> QED
  BY <1>1, <1>11, <1>12, OneMoves

\* The texts of a full reading: all there are, or as many as fit.
LEMMA HighestCovers ==
    ASSUME NEW n \in Nat, NEW ids \in SUBSET (1..n), NEW w \in Nat
    PROVE  ids \subseteq Highest(w, ids) \/ Cardinality(Highest(w, ids)) >= w
<1> DEFINE H == Highest(w, ids)
           left == ids \ H
<1>1. H \subseteq ids /\ \A k \in ids : k \in 1..n
  BY DEF Highest
<1>2. ASSUME NEW m \in ids, m \notin H PROVE ~(Cardinality({k \in ids : k > m}) < w)
  BY <1>2 DEF Highest
<1>3. IsFiniteSet(H)
  <2>1. IsFiniteSet(1..n)
    BY FS_Interval
  <2> QED
    BY <1>1, <2>1, FS_Subset
<1> HIDE DEF H
<1> SUFFICES ASSUME left # {} PROVE Cardinality(H) >= w
  BY DEF H
<1>4. PICK m \in left : \A k \in left : k <= m
  <2>1. left \in SUBSET (0..n)
    BY <1>1
  <2> HIDE DEF left
  <2> QED
    BY <2>1, Largest
<1> DEFINE over == {k \in ids : k > m}
<1>5. over \in SUBSET H
  <2>1. ASSUME NEW k \in ids, k > m PROVE k \in H
    <3>1. ~(k <= m)
      BY <1>1, <1>4, <2>1
    <3> QED
      BY <1>4, <3>1
  <2> QED
    BY <2>1
<1>6. ~(Cardinality(over) < w)
  BY <1>2, <1>4
<1> HIDE DEF over, left
<1>7. IsFiniteSet(over) /\ Cardinality(over) <= Cardinality(H)
  BY <1>3, <1>5, FS_Subset
<1>8. Cardinality(over) \in Nat /\ Cardinality(H) \in Nat
  BY <1>3, <1>7, FS_CardinalityType
<1> QED
  BY <1>6, <1>7, <1>8

LEMMA TextsKeep ==
    ASSUME AnswersInv, NEW r \in Runs, ReadTexts(r)
    PROVE  AnswersInv'
<1> DEFINE c == run[r].conv
           read == [reading[r] EXCEPT !.pc = "done", !.texts = ContextTexts(r)]
<1>1. /\ GroundKept /\ UNCHANGED <<up, stops, summary, deleted, run, turn>>
      /\ up /\ reading[r].pc = "topped"
  BY CaseVarsGround DEF ReadTexts
<1>2. reading' = [reading EXCEPT ![r] = read]
  BY AnswersTypes DEF ReadTexts
<1>3. /\ run' = [run EXCEPT ![r] = run[r]] /\ turn' = [turn EXCEPT ![r] = turn[r]]
      /\ run[r] \in RunRow /\ turn[r] \in {"none", "next", "waits"}
  BY <1>1, OneRun
<1>4. lastMsg \in Nat /\ Window \in Nat /\ TextsOf(c) \in SUBSET (1..lastMsg)
  BY AnswersTypes, AgentAssumption DEF TextsOf
<1>5. /\ ContextTexts(r) \in SUBSET (1..lastMsg)
      /\ Covers(c, reading[r].mark, reading[r].top, ContextTexts(r))
  <2>1. CASE ContextTexts(r) = {m \in TextsOf(c) : m > reading[r].mark}
    <3>1. \A m \in TextsOf(c) : m \in Nat
      BY <1>4
    <3>2. reading[r].mark \in 0..lastMsg
      BY OneRun DEF ReadRow
    <3> QED
      BY <1>4, <2>1, <3>1, <3>2 DEF Covers
  <2>2. CASE ContextTexts(r) = Highest(Window, TextsOf(c))
    <3>1. \/ TextsOf(c) \subseteq Highest(Window, TextsOf(c))
          \/ Cardinality(Highest(Window, TextsOf(c))) >= Window
      BY <1>4, HighestCovers
    <3>2. Highest(Window, TextsOf(c)) \subseteq TextsOf(c)
      BY DEF Highest
    <3> QED
      BY <1>4, <2>2, <3>1, <3>2 DEF Covers
  <2> QED
    BY <2>1, <2>2 DEF ContextTexts
<1>6. /\ read \in ReadRow /\ read.pc = "done" /\ read.texts = ContextTexts(r)
      /\ read.base = reading[r].base /\ read.mark = reading[r].mark
      /\ read.top = reading[r].top
  <2>1. ASSUME NEW texts \in SUBSET (1..lastMsg)
        PROVE  [reading[r] EXCEPT !.pc = "done", !.texts = texts] \in ReadRow
    BY OneRun DEF ReadRow
  <2>2. reading[r] \in ReadRow
    BY OneRun
  <2>3. read \in ReadRow
    BY <1>5, <2>1
  <2> QED
    BY <2>2, <2>3 DEF ReadRow
<1> HIDE DEF read
<1>7. ReadFits(c, read)
  BY <1>1, <1>5, <1>6, OneRun DEF ReadFits
<1>8. ProgressOf(run[r], turn[r], read.pc)
  BY <1>1, <1>6, OneRun DEF ProgressOf
<1>9. OneMove(r, run[r], turn[r], read)
  BY <1>1, <1>2, <1>3 DEF OneMove
<1>10. OneFits(r, run[r], turn[r], read)
  BY <1>3, <1>6, <1>7, <1>8, OneRun DEF OneFits
<1> QED
  BY <1>1, <1>9, <1>10, OneMoves

\* The answer of a run that stays within the version it read.
LEMMA AnswerRow ==
    ASSUME AnswersInv, NEW r \in Runs, turn[r] = "next", run[r].done = 3,
           GroundKept, UNCHANGED <<up, stops, deleted, reading>>,
           Becomes(r, [Passed(run[r]) EXCEPT !.answer = TRUE], "next")
    PROVE  /\ OneMove(r, [Passed(run[r]) EXCEPT !.answer = TRUE], "next", reading[r])
           /\ OneFits(r, [Passed(run[r]) EXCEPT !.answer = TRUE], "next", reading[r])
           /\ [Passed(run[r]) EXCEPT !.answer = TRUE].done = 4
           /\ [Passed(run[r]) EXCEPT !.answer = TRUE].conv = run[r].conv
<1> DEFINE row == [Passed(run[r]) EXCEPT !.answer = TRUE]
<1>1. /\ Passed(run[r]) \in RunRow /\ Passed(run[r]).done = 4
      /\ Passed(run[r]).thread = run[r].thread /\ Passed(run[r]).asked = run[r].asked
      /\ Passed(run[r]).conv = run[r].conv /\ Passed(run[r]).status = run[r].status
      /\ Passed(run[r]).tool = run[r].tool
  BY OneRun, PassedRow
<1>2. /\ row \in RunRow /\ row.thread = run[r].thread /\ row.asked = run[r].asked
      /\ row.status = run[r].status /\ row.conv = run[r].conv /\ row.done = 4
      /\ row.answer /\ row.tool = run[r].tool
  BY <1>1 DEF RunRow
<1>3. /\ run' = [run EXCEPT ![r] = row] /\ turn' = [turn EXCEPT ![r] = "next"]
      /\ reading' = [reading EXCEPT ![r] = reading[r]] /\ reading[r] \in ReadRow
  BY OneRun DEF Becomes
<1> HIDE DEF row
<1>4. ProgressOf(row, "next", reading[r].pc)
  BY <1>2, TaskAt DEF ProgressOf, Ends
<1>5. OneMove(r, row, "next", reading[r])
  BY <1>3 DEF OneMove
<1>6. OneFits(r, row, "next", reading[r])
  BY <1>2, <1>3, <1>4 DEF OneFits
<1> QED
  BY <1>2, <1>5, <1>6 DEF row

\* A version more for a conversation, of a run that had written none.
Versioned(r, c, this) ==
    /\ GroundKept /\ deleted' = deleted
    /\ c \in Conversations /\ c = run[r].conv /\ this \in SummaryRow /\ this.by = r
    /\ reading[r].pc = "done" /\ Len(summary[c]) = reading[r].base
    /\ this.mark = reading[r].top /\ this.mark # 0 /\ this.texts = reading[r].texts
    /\ run[r].done = 3 /\ run'[r].done = 4
    /\ summary' = [summary EXCEPT ![c] = Append(@, this)]

LEMMA VersionMore ==
    ASSUME AnswersInv, NEW r \in Runs, NEW c, NEW this, Versioned(r, c, this)
    PROVE  /\ summary' \in [Conversations -> Seq(SummaryRow)]
           /\ summary'[c] = Append(summary[c], this)
           /\ Len(summary'[c]) = Len(summary[c]) + 1
           /\ \A d \in Conversations : d # c => summary'[d] = summary[d]
           /\ \A d \in Conversations : Len(summary[d]) <= Len(summary'[d])
           /\ \A d \in Conversations : \A v \in 1..Len(summary[d]) : summary'[d][v] = summary[d][v]
           /\ summary'[c][Len(summary[c]) + 1] = this
           /\ \A d \in Conversations : \A v \in 0..Len(summary[d]) : MarkOf(d, v)' = MarkOf(d, v)
<1>1. summary \in [Conversations -> Seq(SummaryRow)]
  BY DEF AnswersInv, AnswersTypeOK
<1>2. c \in Conversations /\ this \in SummaryRow
      /\ summary' = [summary EXCEPT ![c] = Append(summary[c], this)]
  BY DEF Versioned
<1>3. summary[c] \in Seq(SummaryRow) /\ Append(summary[c], this) \in Seq(SummaryRow)
  BY <1>1, <1>2
<1>4. /\ summary' \in [Conversations -> Seq(SummaryRow)]
      /\ summary'[c] = Append(summary[c], this)
      /\ \A d \in Conversations : d # c => summary'[d] = summary[d]
  BY <1>1, <1>2, <1>3
<1>5. \A d \in Conversations : Len(summary[d]) \in Nat
  BY <1>1
<1>6. /\ Len(Append(summary[c], this)) = Len(summary[c]) + 1
      /\ \A v \in 1..Len(summary[c]) : Append(summary[c], this)[v] = summary[c][v]
      /\ Append(summary[c], this)[Len(summary[c]) + 1] = this
  BY <1>2, <1>3, <1>5
<1>7. /\ \A d \in Conversations : Len(summary[d]) <= Len(summary'[d])
      /\ \A d \in Conversations : \A v \in 1..Len(summary[d]) : summary'[d][v] = summary[d][v]
  <2> SUFFICES ASSUME NEW d \in Conversations
               PROVE  /\ Len(summary[d]) <= Len(summary'[d])
                      /\ \A v \in 1..Len(summary[d]) : summary'[d][v] = summary[d][v]
    OBVIOUS
  <2>1. CASE d = c
    BY <1>4, <1>5, <1>6, <2>1
  <2>2. CASE d # c
    BY <1>4, <1>5, <2>2
  <2> QED
    BY <2>1, <2>2
<1>8. \A d \in Conversations : \A v \in 0..Len(summary[d]) : MarkOf(d, v)' = MarkOf(d, v)
  BY <1>5, <1>7 DEF MarkOf
<1> QED
  BY <1>4, <1>6, <1>7, <1>8

LEMMA VersionSummaries ==
    ASSUME AnswersInv, NEW r \in Runs, NEW c, NEW this, Versioned(r, c, this),
           \A q \in Runs : Moved(q) /\ run'[q].done \in Nat
    PROVE  SummariesFit'
<1>1. /\ lastMsg' \in Nat /\ lastMsg <= lastMsg'
      /\ \A d : TextsOf(d) \subseteq TextsOf(d)'
      /\ \A d : \A past, mark \in 0..lastMsg : \A texts :
            Covers(d, past, mark, texts) => Covers(d, past, mark, texts)'
  BY TextsGrow, AnswersTypes DEF Versioned, GroundKept
<1>2. \A q \in Runs : run[q].done \in Nat /\ run'[q].done \in Nat /\ run[q].done <= run'[q].done
  BY AnswersTypes DEF Moved
<1>3. ASSUME NEW d \in Conversations, NEW v \in 1..Len(summary[d])
      PROVE  /\ summary'[d][v].mark \in TextsOf(d)'
             /\ MarkOf(d, v - 1)' <= summary'[d][v].mark
             /\ Covers(d, MarkOf(d, v - 1), summary[d][v].mark, summary[d][v].texts)'
             /\ run'[summary'[d][v].by].done >= 4
             /\ \A w \in 1..(v - 1) : summary'[d][w].by # summary'[d][v].by
  <2>1. /\ summary[d][v].mark \in TextsOf(d)
        /\ MarkOf(d, v - 1) <= summary[d][v].mark
        /\ Covers(d, MarkOf(d, v - 1), summary[d][v].mark, summary[d][v].texts)
        /\ run[summary[d][v].by].done >= 4
        /\ \A w \in 1..(v - 1) : summary[d][w].by # summary[d][v].by
    BY DEF AnswersInv, SummariesFit
  <2>2. /\ summary[d][v].mark \in 0..lastMsg /\ summary[d][v].by \in Runs
        /\ v - 1 \in 0..Len(summary[d]) /\ Len(summary[d]) \in Nat
    BY AnswersTypes
  <2>3. MarkOf(d, v - 1) \in 0..lastMsg
    BY <2>2, AnswersTypes
  <2>4. /\ summary'[d][v] = summary[d][v] /\ MarkOf(d, v - 1)' = MarkOf(d, v - 1)
        /\ \A w \in 1..(v - 1) : summary'[d][w] = summary[d][w]
    BY <2>2, VersionMore
  <2>5. Covers(d, MarkOf(d, v - 1), summary[d][v].mark, summary[d][v].texts)'
    BY <1>1, <2>1, <2>2, <2>3, <2>4
  <2>6. run'[summary[d][v].by].done >= 4
    BY <1>2, <2>1, <2>2
  <2> HIDE DEF Covers, MarkOf
  <2> QED
    BY <1>1, <2>1, <2>4, <2>5, <2>6
<1>4. PICK n \in Nat : n = Len(summary[c]) + 1
  BY AnswersTypes DEF Versioned
<1>5. /\ summary'[c][n].mark \in TextsOf(c)'
      /\ MarkOf(c, n - 1)' <= summary'[c][n].mark
      /\ Covers(c, MarkOf(c, n - 1), summary[c][n].mark, summary[c][n].texts)'
      /\ run'[summary'[c][n].by].done >= 4
      /\ \A w \in 1..(n - 1) : summary'[c][w].by # summary'[c][n].by
  <2>1. /\ c \in Conversations /\ c = run[r].conv /\ this.by = r
        /\ reading[r].pc = "done" /\ Len(summary[c]) = reading[r].base
        /\ this.mark = reading[r].top /\ this.mark # 0 /\ this.texts = reading[r].texts
        /\ run[r].done = 3 /\ run'[r].done = 4
    BY DEF Versioned
  <2>2. PICK past \in 0..lastMsg : past = reading[r].mark
    BY OneRun DEF ReadRow
  <2>3. /\ past = MarkOf(c, Len(summary[c])) /\ past <= this.mark
        /\ this.mark \in TextsOf(c) /\ this.mark \in 0..lastMsg
        /\ Covers(c, past, this.mark, this.texts)
    <3>1. reading[r].top \in 0..lastMsg
      BY OneRun DEF ReadRow
    <3> QED
      BY <2>1, <2>2, <3>1, OneRun DEF ReadFits
  <2>4. Len(summary[c]) \in Nat /\ n - 1 = Len(summary[c]) /\ Len(summary[c]) \in 0..Len(summary[c])
    <3>1. Len(summary[c]) \in Nat
      BY <2>1, AnswersTypes
    <3> QED
      BY <1>4, <3>1
  <2>5. summary'[c][n] = this /\ MarkOf(c, n - 1)' = past
    <3>1. summary'[c][Len(summary[c]) + 1] = this
      BY VersionMore
    <3>2. \A v \in 0..Len(summary[c]) : MarkOf(c, v)' = MarkOf(c, v)
      BY <2>1, VersionMore
    <3>3. n - 1 \in 0..Len(summary[c]) /\ MarkOf(c, n - 1) = past
      BY <2>3, <2>4
    <3>4. MarkOf(c, n - 1)' = past
      BY <3>2, <3>3
    <3>5. summary'[c][n] = this
      BY <1>4, <3>1
    <3> QED
      BY <3>4, <3>5
  <2>6. Covers(c, past, this.mark, this.texts)'
    BY <1>1, <2>2, <2>3
  <2>7. \A w \in 1..(n - 1) : summary'[c][w].by # summary'[c][n].by
    <3> SUFFICES ASSUME NEW w \in 1..Len(summary[c]) PROVE summary'[c][w].by # this.by
      BY <2>4, <2>5
    <3>1. summary'[c][w] = summary[c][w]
      BY <2>1, VersionMore
    <3>2. run[summary[c][w].by].done >= 4
      BY <2>1 DEF AnswersInv, SummariesFit
    <3> QED
      BY <2>1, <3>1, <3>2
  <2>8. Covers(c, MarkOf(c, n - 1), summary[c][n].mark, summary[c][n].texts)'
    BY <2>5, <2>6
  <2> HIDE DEF Covers, MarkOf
  <2> QED
    BY <1>1, <2>1, <2>3, <2>5, <2>7, <2>8
<1>6. \A d \in Conversations : \A v \in 1..Len(summary'[d]) :
          v \in 1..Len(summary[d]) \/ (d = c /\ v = n)
  <2> SUFFICES ASSUME NEW d \in Conversations, NEW v \in 1..Len(summary'[d])
               PROVE  v \in 1..Len(summary[d]) \/ (d = c /\ v = n)
    OBVIOUS
  <2>1. Len(summary[d]) \in Nat
    BY AnswersTypes
  <2>2. IF d = c THEN Len(summary'[d]) = Len(summary[d]) + 1 ELSE summary'[d] = summary[d]
    BY VersionMore
  <2> QED
    BY <1>4, <2>1, <2>2
<1> QED
  BY <1>3, <1>5, <1>6 DEF SummariesFit

LEMMA VersionReadings ==
    ASSUME AnswersInv, NEW r \in Runs, NEW c, NEW this, Versioned(r, c, this),
           Runs' = Runs, reading' = reading, \A q \in Runs : run'[q].conv = run[q].conv
    PROVE  ReadingsFit'
<1> SUFFICES ASSUME NEW q \in Runs PROVE ReadFits(run[q].conv, reading[q])'
  BY DEF ReadingsFit
<1>1. /\ \A d : TextsOf(d) \subseteq TextsOf(d)'
      /\ \A d : \A past, mark \in 0..lastMsg : \A texts :
            Covers(d, past, mark, texts) => Covers(d, past, mark, texts)'
  BY TextsGrow, AnswersTypes DEF Versioned, GroundKept
<1>2. CASE reading[q].pc \notin {"topped", "done"}
  BY <1>2 DEF ReadFits
<1>3. CASE reading[q].pc \in {"topped", "done"}
  <2>1. PICK row \in ReadRow : row = reading[q]
    BY OneRun
  <2>2. PICK d \in Conversations : d = run[q].conv
    BY <1>3, OneRun DEF ProgressOf
  <2>3. ReadFits(d, row)
    BY <2>1, <2>2, OneRun
  <2>4. row.mark \in 0..lastMsg /\ row.top \in 0..lastMsg /\ row.base \in Nat
    BY <2>1 DEF ReadRow
  <2>5. /\ Len(summary[d]) \in Nat /\ Len(summary'[d]) \in Nat
        /\ Len(summary[d]) <= Len(summary'[d])
        /\ \A v \in 0..Len(summary[d]) : MarkOf(d, v)' = MarkOf(d, v)
    BY VersionMore, AnswersTypes
  <2>6. ReadFits(d, row)'
    <3>1. row.pc \in {"topped", "done"}
      BY <1>3, <2>1
    <3>2. /\ row.base <= Len(summary[d]) /\ row.mark = MarkOf(d, row.base)
          /\ row.mark <= row.top /\ row.top \in TextsOf(d) \cup {0}
          /\ row.pc = "done" => Covers(d, row.mark, row.top, row.texts)
      BY <2>3, <3>1 DEF ReadFits
    <3>3. row.base \in 0..Len(summary[d])
      BY <2>4, <2>5, <3>2
    <3>4. row.base <= Len(summary'[d]) /\ MarkOf(d, row.base)' = row.mark
      BY <2>4, <2>5, <3>2, <3>3
    <3>5. row.pc = "done" => Covers(d, row.mark, row.top, row.texts)'
      BY <1>1, <2>4, <3>2
    <3>6. row.top \in TextsOf(d)' \cup {0}
      BY <1>1, <3>2
    <3> QED
      BY <3>2, <3>4, <3>5, <3>6 DEF ReadFits
  <2>7. run'[q].conv = d /\ reading'[q] = row
    BY <2>1, <2>2
  <2> QED
    BY <2>6, <2>7 DEF ReadFits
<1> QED
  BY <1>2, <1>3

LEMMA PersistKeeps ==
    ASSUME AnswersInv, NEW r \in Runs, PersistAnswer(r)
    PROVE  AnswersInv'
<1> DEFINE c == run[r].conv
           row == [Passed(run[r]) EXCEPT !.answer = TRUE]
           this == [by |-> r, mark |-> Through(r), texts |-> reading[r].texts]
<1>1. /\ GroundKept /\ UNCHANGED <<up, stops, deleted, reading>>
      /\ up /\ turn[r] = "next" /\ run[r].done = 3
      /\ run[r].status \in {"pending", "running"} /\ reading[r].pc = "done"
      /\ c = run[r].asked /\ c \in Conversations
  BY CaseVarsGround, NodeNames, TaskAt, OneRun DEF PersistAnswer, AtNode
<1>2. reading' = [reading EXCEPT ![r] = reading[r]] /\ reading[r] \in ReadRow
  BY <1>1, OneRun
<1>3. CASE Becomes(r, Failed(run[r]), "none") /\ UNCHANGED summary
  <2>1. ProgressOf(Failed(run[r]), "none", reading[r].pc)
    BY <1>1, TaskAt, FailedRow, OneRun DEF ProgressOf
  <2>2. OneMove(r, Failed(run[r]), "none", reading[r])
    BY <1>1, <1>2, <1>3 DEF OneMove, Becomes
  <2>3. OneFits(r, Failed(run[r]), "none", reading[r])
    BY <1>1, <1>2, <2>1, FailedRow, OneRun DEF OneFits
  <2> QED
    BY <1>3, <2>2, <2>3, OneMoves
<1>4. CASE Becomes(r, row, "next") /\ summary' = summary
  <2>1. OneMove(r, row, "next", reading[r]) /\ OneFits(r, row, "next", reading[r])
    BY <1>1, <1>4, AnswerRow
  <2> HIDE DEF row
  <2> QED
    BY <1>4, <2>1, OneMoves
<1>5. CASE /\ Becomes(r, row, "next") /\ Summarises(r) /\ SameVersion(r)
           /\ summary' = [summary EXCEPT ![c] = Append(@, this)]
  <2>1. /\ OneMove(r, row, "next", reading[r]) /\ OneFits(r, row, "next", reading[r])
        /\ row.done = 4 /\ row.conv = run[r].conv
    BY <1>1, <1>5, AnswerRow
  <2> HIDE DEF row
  <2>2. /\ run' \in Seq(RunRow) /\ Len(run') = Len(run) /\ Runs' = Runs
        /\ turn' \in [Runs -> {"none", "next", "waits"}]
        /\ run'[r] = row /\ \A q \in Runs : q # r => run'[q] = run[q]
        /\ up' \in BOOLEAN /\ stops' \in Nat
        /\ \A q \in Runs : Moved(q)
    BY <2>1, OneMoved
  <2>3. this \in SummaryRow /\ this.by = r /\ this.mark = reading[r].top /\ this.mark # 0
        /\ this.texts = reading[r].texts
    <3>1. reading[r].top \in 0..lastMsg /\ reading[r].texts \in SUBSET (1..lastMsg)
      BY OneRun DEF ReadRow
    <3>2. reading[r].top # 0 /\ lastMsg \in Nat
      BY <1>5, AnswersTypes DEF Summarises
    <3>3. reading[r].top \in 1..lastMsg
      BY <3>1, <3>2
    <3> QED
      BY <3>1, <3>2, <3>3 DEF SummaryRow, Through
  <2> HIDE DEF this
  <2>4. Versioned(r, c, this)
    BY <1>1, <1>5, <2>1, <2>2, <2>3 DEF Versioned, SameVersion
  <2>5. \A q \in Runs : run'[q].conv = run[q].conv
    BY <2>1, <2>2
  <2>6. \A q \in Runs : run'[q].done \in Nat
    <3>1. \A q \in Runs : run'[q] \in RunRow
      BY <2>2 DEF Runs
    <3> QED
      BY <3>1 DEF RunRow
  <2>7. RunsFit'
    BY <1>1, <2>2, RunsFitMoved DEF GroundKept
  <2>8. ReadingsFit'
    BY <1>1, <2>2, <2>4, <2>5, VersionReadings
  <2>9. SummariesFit'
    BY <2>2, <2>4, <2>6, VersionSummaries
  <2>10. AnswersTypeOK'
    <3>1. /\ lastMsg' \in Nat /\ lastMsg <= lastMsg' /\ setup' = setup
      BY <1>1, TextsGrow, AnswersTypes DEF GroundKept
    <3>2. RunRow' = RunRow /\ ReadRow \subseteq ReadRow' /\ SummaryRow \subseteq SummaryRow'
      BY <2>2, <3>1, RowsGrow, AnswersTypes
    <3>3. summary' \in [Conversations -> Seq(SummaryRow')]
      <4>1. summary' \in [Conversations -> Seq(SummaryRow)]
        BY <2>4, VersionMore
      <4>2. \A s \in Seq(SummaryRow) : s \in Seq(SummaryRow')
        BY <3>2
      <4> QED
        BY <4>1, <4>2
    <3>4. reading' \in [Runs' -> ReadRow'] /\ turn' \in [Runs' -> {"none", "next", "waits"}]
      BY <1>1, <2>2, <3>2, AnswersTypes
    <3> QED
      BY <1>1, <2>2, <3>1, <3>2, <3>3, <3>4 DEF AnswersInv, AnswersTypeOK
  <2> QED
    BY <2>7, <2>8, <2>9, <2>10 DEF AnswersInv
<1> QED
  BY <1>3, <1>4, <1>5 DEF PersistAnswer

LEMMA Appended ==
    ASSUME NEW S, NEW q \in Seq(S), NEW e \in S
    PROVE  /\ Append(q, e) \in Seq(S) /\ Len(Append(q, e)) = Len(q) + 1
           /\ Append(q, e) \in [1..(Len(q) + 1) -> S]
           /\ Append(q, e)[Len(q) + 1] = e
           /\ \A i \in 1..Len(q) : Append(q, e)[i] = q[i]
<1>1. /\ Append(q, e) \in Seq(S) /\ Len(Append(q, e)) = Len(q) + 1
      /\ Append(q, e)[Len(q) + 1] = e
      /\ \A i \in 1..Len(q) : Append(q, e)[i] = q[i]
  OBVIOUS
<1>2. Append(q, e) \in [1..Len(Append(q, e)) -> S]
  BY <1>1, LenProperties
<1> QED
  BY <1>1, <1>2

\* What rests on the texts and the summaries alone.
LEMMA SameTexts ==
    ASSUME lastMsg' = lastMsg, summary' = summary
    PROVE  /\ \A c : TextsOf(c)' = TextsOf(c)
           /\ \A c, v : MarkOf(c, v)' = MarkOf(c, v)
           /\ \A c, past, mark, texts :
                 Covers(c, past, mark, texts)' <=> Covers(c, past, mark, texts)
           /\ \A c, read : ReadFits(c, read)' <=> ReadFits(c, read)
<1>1. /\ \A c : TextsOf(c)' = TextsOf(c)
      /\ \A c, v : MarkOf(c, v)' = MarkOf(c, v)
  BY DEF TextsOf, MarkOf
<1>2. \A c, past, mark, texts :
         Covers(c, past, mark, texts)' <=> Covers(c, past, mark, texts)
  BY <1>1 DEF Covers
<1>3. \A c, read : ReadFits(c, read)' <=> ReadFits(c, read)
  BY <1>1, <1>2 DEF ReadFits
<1> QED
  BY <1>1, <1>2, <1>3

LEMMA SameSummaries ==
    ASSUME AnswersInv, lastMsg' = lastMsg, summary' = summary,
           \A r \in Runs : run'[r] = run[r]
    PROVE  SummariesFit'
<1> SUFFICES ASSUME NEW c \in Conversations, NEW v \in 1..Len(summary[c])
             PROVE  /\ summary[c][v].mark \in TextsOf(c)'
                    /\ MarkOf(c, v - 1)' <= summary[c][v].mark
                    /\ Covers(c, MarkOf(c, v - 1), summary[c][v].mark, summary[c][v].texts)'
                    /\ run'[summary[c][v].by].done >= 4
                    /\ \A w \in 1..(v - 1) : summary[c][w].by # summary[c][v].by
  BY DEF SummariesFit
<1>1. /\ summary[c][v].mark \in TextsOf(c)
      /\ MarkOf(c, v - 1) <= summary[c][v].mark
      /\ Covers(c, MarkOf(c, v - 1), summary[c][v].mark, summary[c][v].texts)
      /\ run[summary[c][v].by].done >= 4
      /\ \A w \in 1..(v - 1) : summary[c][w].by # summary[c][v].by
  BY DEF AnswersInv, SummariesFit
<1>2. run'[summary[c][v].by] = run[summary[c][v].by]
  BY AnswersTypes
<1>3. Covers(c, MarkOf(c, v - 1), summary[c][v].mark, summary[c][v].texts)'
  BY <1>1, SameTexts
<1> QED
  BY <1>1, <1>2, <1>3, SameTexts

\* The user asks: a run more, in a thread that has none.
LEMMA SubmitKeeps ==
    ASSUME AnswersInv, GrantsInv, NEW t \in AgentThreads, NEW full \in BOOLEAN,
           SubmitMessage(t, full)
    PROVE  AnswersInv'
<1> DEFINE row == NewRun(t, full)
           n == Len(run) + 1
<1>1. /\ GroundKept /\ UNCHANGED <<up, stops, summary, deleted>>
      /\ UNCHANGED <<bound, setup, lastMsg>>
      /\ run' = Append(run, row) /\ reading' = Append(reading, NoReading)
      /\ turn' = Append(turn, "next")
      /\ up /\ Len(run) < setup.answers /\ t \in setup.threads \ deleted /\ Idle(t)
  BY CaseVarsGround DEF SubmitMessage, caseVars, syncVars, accessVars, threads, content
<1>2. bound[t] \in Conversations
  BY <1>1, GrantsTypes DEF Threads
<1>3. /\ row \in RunRow /\ row.thread = t /\ row.asked = bound[t] /\ row.conv = "none"
      /\ row.status = "pending" /\ row.done = 0 /\ row.step = "pending" /\ row.tool = "none"
  BY <1>1, <1>2 DEF NewRun, RunRow
<1>4. NoReading \in ReadRow /\ NoReading.pc = "none"
  BY AnswersTypes DEF NoReading, ReadRow
<1>5. /\ run \in Seq(RunRow) /\ Len(run) \in Nat /\ Runs = 1..Len(run)
      /\ reading \in Seq(ReadRow) /\ Len(reading) = Len(run)
      /\ turn \in Seq({"none", "next", "waits"}) /\ Len(turn) = Len(run)
  <2>1. /\ run \in Seq(RunRow) /\ Len(run) \in Nat /\ Runs = 1..Len(run)
        /\ reading \in [1..Len(run) -> ReadRow]
        /\ turn \in [1..Len(run) -> {"none", "next", "waits"}]
    BY AnswersTypes DEF AnswersInv, AnswersTypeOK
  <2> QED
    BY <2>1
<1> HIDE DEF row
<1>6. /\ run' \in Seq(RunRow) /\ Len(run') = n /\ Runs' = 1..n /\ n \in Nat
      /\ run'[n] = row /\ \A r \in Runs : run'[r] = run[r]
  BY <1>1, <1>3, <1>5 DEF Runs
<1>7. /\ reading' \in [1..n -> ReadRow]
      /\ reading'[n] = NoReading /\ \A r \in Runs : reading'[r] = reading[r]
  BY <1>1, <1>4, <1>5, Appended
<1>8. /\ turn' \in [1..n -> {"none", "next", "waits"}]
      /\ turn'[n] = "next" /\ \A r \in Runs : turn'[r] = turn[r]
  <2> DEFINE Turns == {"none", "next", "waits"}
  <2>1. "next" \in Turns /\ turn \in Seq(Turns) /\ Len(turn) = Len(run)
    BY <1>5
  <2> HIDE DEF Turns
  <2>2. turn' \in [1..n -> Turns] /\ turn'[n] = "next" /\ \A r \in Runs : turn'[r] = turn[r]
    BY <1>1, <1>5, <2>1, Appended
  <2> QED
    BY <2>2 DEF Turns
<1>9. Runs' = Runs \cup {n} /\ Runs \subseteq Runs'
  BY <1>5, <1>6
<1> HIDE DEF n
<1>10. RunRow' = RunRow /\ ReadRow \subseteq ReadRow' /\ SummaryRow \subseteq SummaryRow'
  BY <1>1, <1>9, RowsGrow, AnswersTypes
<1>11. AnswersTypeOK'
  <2>1. summary' \in [Conversations -> Seq(SummaryRow')]
    <3>1. summary \in [Conversations -> Seq(SummaryRow)]
      BY DEF AnswersInv, AnswersTypeOK
    <3>2. \A q \in Seq(SummaryRow) : q \in Seq(SummaryRow')
      BY <1>10
    <3> QED
      BY <1>1, <3>1, <3>2
  <2>2. Len(run') <= setup.answers
    <3>1. setup.answers \in Nat
      BY GrantsTypes, Sizes
    <3> QED
      BY <1>1, <1>5, <1>6, <3>1 DEF n
  <2>3. lastMsg \in Nat /\ stops \in Nat /\ up \in BOOLEAN /\ deleted \subseteq AgentThreads
    BY DEF AnswersInv, AnswersTypeOK
  <2> QED
    BY <1>1, <1>6, <1>7, <1>8, <1>10, <2>1, <2>2, <2>3 DEF AnswersTypeOK
<1>12. RunsFit'
  <2>1. ASSUME NEW r \in Runs' PROVE ProgressOf(run[r], turn[r], reading[r].pc)'
    <3>1. CASE r \in Runs
      <4>1. ProgressOf(run[r], turn[r], reading[r].pc)
        BY <3>1, OneRun
      <4> QED
        BY <1>1, <1>6, <1>7, <1>8, <3>1, <4>1 DEF ProgressOf
    <3>2. CASE r = n
      BY <1>1, <1>3, <1>4, <1>6, <1>7, <1>8, <3>2 DEF ProgressOf, Ends
    <3> QED
      BY <1>9, <3>1, <3>2
  <2>2. ASSUME NEW r \in ActiveRuns' PROVE r = n \/ (r \in ActiveRuns /\ run'[r] = run[r])
    BY <1>6, <1>9 DEF ActiveRuns
  <2>3. ASSUME NEW r \in ActiveRuns PROVE run[r].thread # t
    BY <1>1 DEF Idle
  <2>4. \A r, q \in ActiveRuns' : run'[r].thread = run'[q].thread => r = q
    BY <1>3, <1>6, <2>2, <2>3 DEF AnswersInv, RunsFit
  <2>5. \A r \in ActiveRuns' : bound'[run'[r].thread] = run'[r].asked
                               /\ run'[r].thread \notin deleted'
    BY <1>1, <1>3, <1>6, <2>2, ZenonT(40) DEF AnswersInv, RunsFit
  <2> QED
    BY <2>1, <2>4, <2>5 DEF RunsFit
<1>13. ReadingsFit'
  <2> SUFFICES ASSUME NEW r \in Runs' PROVE ReadFits(run[r].conv, reading[r])'
    BY DEF ReadingsFit
  <2>1. CASE r \in Runs
    <3>1. ReadFits(run[r].conv, reading[r])
      BY <2>1, OneRun
    <3> QED
      BY <1>1, <1>6, <1>7, <2>1, <3>1, SameTexts
  <2>2. CASE r = n
    BY <1>4, <1>7, <2>2 DEF ReadFits
  <2> QED
    BY <1>9, <2>1, <2>2
<1>14. SummariesFit'
  BY <1>1, <1>6, SameSummaries
<1> QED
  BY <1>11, <1>12, <1>13, <1>14 DEF AnswersInv

\* A thread moves or is deleted while it has no answer.
LEMMA ThreadKeeps ==
    ASSUME AnswersInv, NEW t \in AgentThreads, Idle(t),
           UNCHANGED <<setup, lastMsg, up, stops, run, reading, turn, summary>>,
           \A u \in AgentThreads \ {t} : bound'[u] = bound[u],
           deleted' \subseteq deleted \cup {t}
    PROVE  AnswersInv'
<1>1. Runs' = Runs /\ ActiveRuns' = ActiveRuns
  BY DEF Runs, ActiveRuns
<1>2. AnswersTypeOK'
  <2>1. RunRow' = RunRow /\ ReadRow' = ReadRow /\ SummaryRow' = SummaryRow
    BY <1>1 DEF RunRow, ReadRow, SummaryRow
  <2>2. deleted' \subseteq AgentThreads
    BY DEF AnswersInv, AnswersTypeOK
  <2> QED
    BY <1>1, <2>1, <2>2 DEF AnswersInv, AnswersTypeOK
<1>3. RunsFit'
  <2>1. \A r \in ActiveRuns : run[r].thread \in AgentThreads \ {t}
    <3>1. \A r \in ActiveRuns : r \in Runs
      BY DEF ActiveRuns
    <3> QED
      BY <3>1, AnswersTypes DEF Idle
  <2>2. \A r \in ActiveRuns : bound'[run[r].thread] = run[r].asked
                              /\ run[r].thread \notin deleted'
    BY <2>1 DEF AnswersInv, RunsFit
  <2>3. \A r \in Runs : ProgressOf(run[r], turn[r], reading[r].pc)'
    BY DEF AnswersInv, RunsFit, ProgressOf
  <2> QED
    BY <1>1, <2>2, <2>3 DEF AnswersInv, RunsFit
<1>4. ReadingsFit'
  BY <1>1, SameTexts DEF AnswersInv, ReadingsFit
<1>5. SummariesFit'
  BY SameSummaries
<1> QED
  BY <1>2, <1>3, <1>4, <1>5 DEF AnswersInv

\* The process ends.
LEMMA HaltKeeps ==
    ASSUME AnswersInv, AgentsHalt
    PROVE  AnswersInv'
<1>1. /\ GroundKept /\ up = TRUE /\ up' = FALSE /\ stops' = stops + 1 /\ stops \in Nat
      /\ UNCHANGED <<summary, deleted>>
  BY AnswersTypes DEF AgentsHalt
<1>2. up' \in BOOLEAN /\ stops' \in Nat /\ stops' > 0
  <2>1. up' \in BOOLEAN
    BY <1>1
  <2>2. stops' = stops + 1 /\ stops \in Nat
    BY <1>1
  <2>3. stops' \in Nat /\ stops' > 0
    BY <2>2
  <2> QED
    BY <2>1, <2>3
<1>3. NoReading \in ReadRow /\ NoReading.pc = "none"
  BY AnswersTypes DEF NoReading, ReadRow
<1>4. /\ turn' = [r \in Runs |-> "none"] /\ reading' = [r \in Runs |-> NoReading]
  BY DEF AgentsHalt, Halted, HaltedInCancel
<1>5. /\ turn' \in [Runs -> {"none", "next", "waits"}] /\ reading' \in [Runs -> ReadRow]
      /\ \A r \in Runs : turn'[r] = "none" /\ reading'[r].pc = "none"
  BY <1>3, <1>4
<1> DEFINE Ended(row, new) ==
      /\ new \in RunRow /\ new.thread = row.thread /\ new.asked = row.asked
      /\ new.conv = row.conv /\ new.done = row.done /\ new.answer = row.answer
      /\ new.tool = row.tool
      /\ \/ new = row
         \/ new.status = "interrupted" /\ new.step # "running" /\ row.status \in {"pending", "running"}
         \/ new.status = "cancelled" /\ row.status \in {"pending", "running"}
<1>6. ASSUME NEW row \in RunRow, row.status \in {"pending", "running"}
      PROVE  /\ Ended(row, Cancelled(row))
             /\ Ended(row, [row EXCEPT !.status = "interrupted",
                                       !.step = IF @ = "running" THEN "interrupted" ELSE @])
  <2>1. ASSUME NEW s \in {"pending", "running"} \cup Ends, s # "running"
        PROVE  Ended(row, [row EXCEPT !.status = "interrupted", !.step = s])
    <3>1. [row EXCEPT !.status = "interrupted", !.step = s] \in RunRow
      BY <2>1 DEF RunRow, Ends
    <3> QED
      BY <1>6, <2>1, <3>1 DEF RunRow
  <2>2. Cancelled(row) \in RunRow
    BY DEF RunRow, Ends, Cancelled
  <2>3. Ended(row, Cancelled(row))
    BY <1>6, <2>2 DEF RunRow, Cancelled
  <2>4. PICK s \in {"pending", "running"} \cup Ends :
            s = (IF row.step = "running" THEN "interrupted" ELSE row.step) /\ s # "running"
    BY DEF RunRow, Ends
  <2>5. [row EXCEPT !.status = "interrupted", !.step = s]
           = [row EXCEPT !.status = "interrupted",
                         !.step = IF @ = "running" THEN "interrupted" ELSE @]
    BY <2>4 DEF RunRow
  <2>6. Ended(row, [row EXCEPT !.status = "interrupted", !.step = s])
    BY <2>1, <2>4
  <2> HIDE DEF Ended
  <2> QED
    BY <2>3, <2>5, <2>6
<1>7. \A row \in RunRow : Ended(row, row)
  OBVIOUS
<1>8. run \in Seq(RunRow) /\ Len(run) \in Nat /\ Runs = 1..Len(run) /\ DOMAIN run = Runs
      /\ \A r \in Runs : run[r] \in RunRow
  BY AnswersTypes DEF AnswersInv, AnswersTypeOK
<1> HIDE DEF Ended
<1>9. /\ run' \in [Runs -> RunRow] /\ \A r \in Runs : Ended(run[r], run'[r])
  <2>1. CASE \E orderly \in BOOLEAN : Halted(orderly)
    <3>1. PICK orderly \in BOOLEAN :
            run' = [r \in Runs |->
                      IF orderly /\ r \in ActiveRuns
                      THEN [run[r] EXCEPT !.status = "interrupted",
                                          !.step = IF @ = "running" THEN "interrupted" ELSE @]
                      ELSE run[r]]
      BY <2>1 DEF Halted
    <3>2. ASSUME NEW r \in Runs PROVE Ended(run[r], run'[r])
      <4>1. CASE orderly /\ r \in ActiveRuns
        <5>1. run'[r] = [run[r] EXCEPT !.status = "interrupted",
                                       !.step = IF @ = "running" THEN "interrupted" ELSE @]
          BY <3>1, <4>1
        <5>2. run[r] \in RunRow /\ run[r].status \in {"pending", "running"}
          BY <1>8, <4>1 DEF ActiveRuns
        <5> QED
          BY <1>6, <5>1, <5>2
      <4>2. CASE ~(orderly /\ r \in ActiveRuns)
        <5>1. run'[r] = run[r]
          BY <3>1, <4>2
        <5> QED
          BY <1>7, <1>8, <5>1
      <4> QED
        BY <4>1, <4>2
    <3>3. \A r \in Runs : run'[r] \in RunRow
      BY <3>2 DEF Ended
    <3>4. run' = [r \in Runs |-> run'[r]]
      BY <3>1
    <3> QED
      BY <3>2, <3>3, <3>4
  <2>2. CASE HaltedInCancel
    <3>1. PICK q \in ActiveRuns : run' = [run EXCEPT ![q] = Cancelled(run[q])]
      BY <2>2 DEF HaltedInCancel
    <3>2. q \in Runs /\ run[q].status \in {"pending", "running"}
      BY DEF ActiveRuns
    <3>3. run \in [Runs -> RunRow]
      BY <1>8
    <3>4. Cancelled(run[q]) \in RunRow /\ Ended(run[q], Cancelled(run[q]))
      BY <1>6, <1>8, <3>2 DEF Ended
    <3>5. run' \in [Runs -> RunRow]
      BY <3>1, <3>2, <3>3, <3>4
    <3>6. ASSUME NEW r \in Runs PROVE Ended(run[r], run'[r])
      <4>1. CASE r = q
        BY <3>1, <3>2, <3>3, <3>4, <4>1
      <4>2. CASE r # q
        BY <1>7, <1>8, <3>1, <3>3, <4>2
      <4> QED
        BY <4>1, <4>2
    <3> QED
      BY <3>5, <3>6
  <2> QED
    BY <2>1, <2>2 DEF AgentsHalt
<1>10. run' \in Seq(RunRow) /\ Len(run') = Len(run)
  BY <1>8, <1>9
<1>11. ASSUME NEW r \in Runs PROVE Moved(r) /\ ReadingMoved(r)
  <2>1. /\ Ended(run[r], run'[r]) /\ run[r] \in RunRow
        /\ ProgressOf(run[r], turn[r], reading[r].pc) /\ run[r].done \in 0..5
    BY <1>9, OneRun
  <2>2. /\ run'[r].thread = run[r].thread /\ run'[r].asked = run[r].asked
        /\ run'[r].status \in {"pending", "running"} => run[r].status \in {"pending", "running"}
        /\ run[r].done <= run'[r].done
    BY <2>1 DEF Ended
  <2>3. ProgressOf(run[r], turn[r], reading[r].pc)'
    BY <1>1, <1>2, <1>5, <2>1 DEF Ended, ProgressOf
  <2> QED
    BY <1>5, <2>2, <2>3 DEF Moved, ReadingMoved
<1> QED
  BY <1>1, <1>2, <1>5, <1>10, <1>11, RunsMove

\* The process is started again.
LEMMA RecoverKeeps ==
    ASSUME AnswersInv, AgentsRecover
    PROVE  AnswersInv'
<1>1. /\ GroundKept /\ up = FALSE /\ up' = TRUE /\ stops' = stops /\ stops \in Nat
      /\ UNCHANGED <<reading, turn, summary, deleted>>
      /\ run' = [r \in Runs |-> Recovered(run[r])]
  BY AnswersTypes DEF AgentsRecover
<1>2. /\ Runs = 1..Len(run) /\ Len(run) \in Nat
      /\ turn \in [Runs -> {"none", "next", "waits"}] /\ reading \in [Runs -> ReadRow]
  BY AnswersTypes
<1> DEFINE Ended(row, new) ==
      /\ new \in RunRow /\ new.thread = row.thread /\ new.asked = row.asked
      /\ new.conv = row.conv /\ new.done = row.done /\ new.answer = row.answer
      /\ \/ new = row /\ row.status \notin {"pending", "running"}
         \/ /\ row.status \in {"pending", "running"} /\ new.status = "interrupted"
            /\ new.step # "running" /\ new.tool # "running"
<1>3. ASSUME NEW row \in RunRow PROVE Ended(row, Recovered(row))
  <2>1. CASE row.status \notin {"pending", "running"}
    BY <2>1 DEF Recovered
  <2>2. CASE row.status \in {"pending", "running"}
    <3>1. ASSUME NEW s \in {"pending", "running"} \cup Ends, s # "running",
                 NEW x \in {"none", "running"} \cup Ends, x # "running"
          PROVE  Ended(row, [row EXCEPT !.status = "interrupted", !.step = s, !.tool = x])
      <4>1. [row EXCEPT !.status = "interrupted", !.step = s, !.tool = x] \in RunRow
        BY <3>1 DEF RunRow, Ends
      <4> QED
        BY <2>2, <3>1, <4>1 DEF RunRow
    <3>2. PICK s \in {"pending", "running"} \cup Ends :
              s = (IF row.step = "running" THEN "interrupted" ELSE row.step) /\ s # "running"
      BY DEF RunRow, Ends
    <3>3. PICK x \in {"none", "running"} \cup Ends :
              x = (IF row.tool = "running" THEN "interrupted" ELSE row.tool) /\ x # "running"
      BY DEF RunRow, Ends
    <3>4. Recovered(row) = [row EXCEPT !.status = "interrupted", !.step = s, !.tool = x]
      BY <2>2, <3>2, <3>3 DEF Recovered, RunRow
    <3>5. Ended(row, [row EXCEPT !.status = "interrupted", !.step = s, !.tool = x])
      BY <3>1, <3>2, <3>3
    <3> HIDE DEF Ended
    <3> QED
      BY <3>4, <3>5
  <2> QED
    BY <2>1, <2>2
<1> HIDE DEF Ended
<1>4. ASSUME NEW r \in Runs PROVE Ended(run[r], run'[r])
  BY <1>1, <1>3, OneRun
<1>5. run' \in Seq(RunRow) /\ Len(run') = Len(run)
  <2>1. \A r \in 1..Len(run) : run'[r] \in RunRow
    BY <1>2, <1>4 DEF Ended
  <2>2. run' = [r \in 1..Len(run) |-> run'[r]]
    BY <1>1, <1>2
  <2> QED
    BY <1>2, <2>1, <2>2
<1>6. ASSUME NEW r \in Runs PROVE Moved(r) /\ ReadingMoved(r)
  <2>1. /\ Ended(run[r], run'[r]) /\ run[r] \in RunRow
        /\ ProgressOf(run[r], turn[r], reading[r].pc) /\ run[r].done \in 0..5
    BY <1>4, OneRun
  <2>2. /\ run'[r].thread = run[r].thread /\ run'[r].asked = run[r].asked
        /\ run'[r].status \in {"pending", "running"} => run[r].status \in {"pending", "running"}
        /\ run[r].done <= run'[r].done
    BY <2>1 DEF Ended
  <2>3. ProgressOf(run[r], turn[r], reading[r].pc)'
    BY <1>1, <2>1 DEF Ended, ProgressOf
  <2>4. run'[r].conv = run[r].conv
    BY <2>1 DEF Ended
  <2> QED
    BY <1>1, <2>2, <2>3, <2>4 DEF Moved, ReadingMoved
<1>7. up' \in BOOLEAN /\ stops' \in Nat
  BY <1>1
<1> QED
  BY <1>1, <1>2, <1>5, <1>6, <1>7, RunsMove

\* The answers are left alone.
LEMMA RestKeeps ==
    ASSUME AnswersInv, AgentsRest
    PROVE  AnswersInv'
<1>1. /\ GroundKept /\ UNCHANGED <<up, stops, run, reading, turn, summary, deleted>>
  BY DEF AgentsRest, agentVars
<1>2. \A r \in Runs : Moved(r) /\ ReadingMoved(r)
  <2> SUFFICES ASSUME NEW r \in Runs PROVE Moved(r) /\ ReadingMoved(r)
    OBVIOUS
  <2>1. ProgressOf(run[r], turn[r], reading[r].pc) /\ run[r].done \in Nat
    BY OneRun
  <2>2. ProgressOf(run[r], turn[r], reading[r].pc)'
    BY <1>1, <2>1 DEF ProgressOf
  <2> QED
    BY <1>1, <2>1, <2>2 DEF Moved, ReadingMoved
<1> QED
  BY <1>1, <1>2, RunsMove DEF AnswersInv, AnswersTypeOK

LEMMA AnswersStep ==
    ASSUME AnswersInv, GrantsInv, [Next]_vars
    PROVE  AnswersInv'
<1>1. AgentStep
  BY AgentSteps
<1>2. ASSUME NEW t \in AgentThreads, NEW c \in Conversations, UpdateThread(t, c)
      PROVE  AnswersInv'
  <2>1. /\ Idle(t) /\ Rescope(t, c) /\ UNCHANGED content /\ UNCHANGED reqVars
        /\ UNCHANGED agentVars
    BY <1>2 DEF UpdateThread
  <2>2. bound' = [bound EXCEPT ![t] = c] /\ setup' = setup
    BY <2>1 DEF Rescope
  <2>3. \A u \in AgentThreads \ {t} : bound'[u] = bound[u]
    BY <2>2, GrantsTypes DEF Threads
  <2>4. UNCHANGED <<lastMsg, up, stops, run, reading, turn, summary, deleted>>
    BY <2>1 DEF content, reqVars, analysis, agentVars
  <2> QED
    BY <2>1, <2>2, <2>3, <2>4, ThreadKeeps
<1>3. ASSUME NEW t \in AgentThreads, DeleteThread(t) PROVE AnswersInv'
  <2>1. /\ Idle(t) /\ UNCHANGED content /\ UNCHANGED reqVars /\ deleted' = deleted \cup {t}
        /\ UNCHANGED <<bound, setup, run, reading, turn, summary>>
    BY <1>3 DEF DeleteThread
  <2>2. UNCHANGED <<lastMsg, up, stops>>
    BY <2>1 DEF content, reqVars, analysis
  <2> QED
    BY <2>1, <2>2, ThreadKeeps
<1>4. ASSUME NEW r \in Runs, RunStep(r) PROVE AnswersInv'
  BY <1>4, PrepareKeeps, ExecuteKeeps, TopKeeps, TextsKeep, ToolKeeps, GenerateKeeps,
     ModelKeeps, PersistKeeps, PublishKeeps DEF RunStep
<1> QED
  BY <1>1, <1>2, <1>3, <1>4, RestKeeps, HaltKeeps, RecoverKeeps, SubmitKeeps, CancelKeeps
     DEF AgentStep

LEMMA AnswersAlways == Spec => []AnswersInv
<1>1. Init => AnswersInv
  BY AnswersInit
<1>2. AnswersInv /\ GrantsInv /\ [Next]_vars => AnswersInv'
  BY AnswersStep
<1> QED
  BY <1>1, <1>2, GrantsAlways, PTL DEF Spec

\* A thread has one answer at a time, about the conversation the user asked in; what
\* has ended shows nothing that runs; and a version of a summary covers nothing that
\* was not read (submit_message, _terminalize_inflight_trace, _graph_persist_answer).
THEOREM AnswersAreKept == Spec => []AnswersHold
<1>1. ASSUME AnswersInv PROVE AnswersHold
  <2>1. OneAnswerPerThread
    <3>1. ASSUME NEW r \in Runs
          PROVE  /\ run[r].conv \in {"none", run[r].asked}
                 /\ run[r].status = "completed" => run[r].done = Len(Nodes) /\ run[r].answer
      BY <1>1, OneRun, NodeNames DEF ProgressOf
    <3> QED
      BY <1>1, <3>1 DEF OneAnswerPerThread, AnswersInv, RunsFit
  <2>2. TraceEnds
    <3> SUFFICES ASSUME NEW r \in Runs, r \notin ActiveRuns
                 PROVE  /\ run[r].step = "running" => run[r].status = "cancelled" /\ stops > 0
                        /\ run[r].tool = "running" =>
                              run[r].status \in {"cancelled", "interrupted"} /\ stops > 0
      BY DEF TraceEnds
    <3> QED
      BY <1>1, OneRun DEF ProgressOf
  <2>3. SummaryCoversRead
    <3> SUFFICES ASSUME NEW c \in Conversations, NEW v \in 1..Len(summary[c])
                 PROVE  LET past == IF v = 1 THEN 0 ELSE summary[c][v - 1].mark
                            this == summary[c][v]
                        IN
                        /\ past <= this.mark
                        /\ \/ {m \in TextsOf(c) : past < m /\ m <= this.mark} \subseteq this.texts
                           \/ Cardinality(this.texts) >= Window
                        /\ \A w \in 1..(v - 1) : summary[c][w].by # this.by
      BY DEF SummaryCoversRead
    <3>1. (IF v = 1 THEN 0 ELSE summary[c][v - 1].mark) = MarkOf(c, v - 1)
      BY DEF MarkOf
    <3>2. /\ MarkOf(c, v - 1) <= summary[c][v].mark
          /\ Covers(c, MarkOf(c, v - 1), summary[c][v].mark, summary[c][v].texts)
          /\ \A w \in 1..(v - 1) : summary[c][w].by # summary[c][v].by
      BY <1>1 DEF AnswersInv, SummariesFit
    <3> HIDE DEF MarkOf
    <3> QED
      BY <3>1, <3>2 DEF Covers
  <2> QED
    BY <2>1, <2>2, <2>3 DEF AnswersHold
<1> QED
  BY <1>1, AnswersAlways, PTL
-----------------------------------------------------------------------------
(* The batches: the inductive invariant.                                   *)

ImageStates == {"none", "pending", "stored", "deleted"}

Scope == [owner : Identities \cup {"tunnel"}, sources : SUBSET Conversations,
          perm : Permissions, horizon : Nat]

StateRow == [textV : Nat, imageV : Nat, mark : Nat, sumMark : Nat, summary : BOOLEAN,
             acked : [Images -> ImageStates]]

BatchRow == [scope : Scope, kind : {"text", "image"},
             status : {"pending", "confirmed", "superseded"}, base : Nat,
             texts : SUBSET MessageIds, images : [Images -> ImageStates],
             read : SUBSET Images, link : Nat]

\* What the texts and the archive are, and what a grant saw of them.
ContentTyped ==
    /\ lastMsg \in Nat /\ lastMsg <= setup.messages
    /\ image \in [Images -> ImageStates]
    /\ horizon \in [Granted -> 0..lastMsg]

\* A summary that was taken over brings its watermark with it.
StatesTyped ==
    \A s \in DOMAIN sync :
        /\ sync[s] \in StateRow
        /\ s.horizon # 0 => s.horizon \in Granted
        /\ sync[s].sumMark <= sync[s].mark /\ sync[s].mark <= lastMsg
        /\ sync[s].textV <= lastBatch
        /\ sync[s].textV = 0 /\ ~sync[s].summary => sync[s].mark = 0

BatchesTyped ==
    /\ batch \in Seq(BatchRow) /\ lastBatch = Len(batch) /\ lastBatch <= setup.batches
    /\ \A b \in Batches :
          /\ batch[b].scope \in DOMAIN sync
          /\ batch[b].link \in 0..lastBatch
          /\ batch[b].kind = "text" => batch[b].base < b /\ batch[b].status # "superseded"
          /\ batch[b].kind = "image" => batch[b].texts = {} /\ batch[b].link = 0

OfKind(s, kind) == {b \in Batches : batch[b].scope = s /\ batch[b].kind = kind}

DoneTexts(s) == {b \in OfKind(s, "text") : batch[b].status = "confirmed"}

Value(s, kind) == IF kind = "text" THEN StateOf(s).textV ELSE StateOf(s).imageV

\* A pending batch is for the version of the state, every other for an older one.
BasesFit(s, kind) ==
    \A b \in OfKind(s, kind) :
        /\ batch[b].base <= Value(s, kind)
        /\ batch[b].base = Value(s, kind) <=> batch[b].status = "pending"
        /\ \A a \in OfKind(s, kind) : a # b => batch[a].base # batch[b].base

\* Confirmed texts lie up to the watermark; those of a pending batch lie above it,
\* none between them is missing, and after a first batch none before them.
TextsFit(s) ==
    \A b \in OfKind(s, "text") :
        /\ batch[b].texts \subseteq Texts(s)
        /\ \A m \in batch[b].texts :
              batch[b].status = "pending" <=> StateOf(s).mark < m
        /\ batch[b].status = "pending" =>
              \A x \in batch[b].texts : \A m \in Texts(s) :
                  m <= x /\ \/ \E y \in batch[b].texts : y <= m
                            \/ StateOf(s).textV # 0 /\ StateOf(s).mark < m
                  => m \in batch[b].texts

\* Between a confirmed text and the watermark all are confirmed, once.
DoneFit(s) ==
    /\ \A a, b \in DoneTexts(s) : a # b => batch[a].texts \cap batch[b].texts = {}
    /\ \A a \in DoneTexts(s) : \A x \in batch[a].texts : \A m \in Texts(s) :
          x <= m /\ m <= StateOf(s).mark => \E b \in DoneTexts(s) : m \in batch[b].texts

TextSide(s) ==
    BasesFit(s, "text") /\ TextsFit(s) /\ DoneFit(s) /\ Cardinality(Unsummarised(s)) <= PageSize

\* What a state says it has seen was delivered.
SeenFit(s) ==
    \A i \in Images : StateOf(s).acked[i] = "stored" =>
        \E b \in Batches : batch[b].scope = s /\ i \in batch[b].read

ScopeFits(s) == TextSide(s) /\ BasesFit(s, "image") /\ SeenFit(s)

LinksFit ==
    \A b \in Batches :
        batch[b].status = "confirmed" /\ batch[b].link # 0 => AllRead(batch[b].link)

BatchesInv ==
    /\ ContentTyped /\ StatesTyped /\ BatchesTyped /\ LinksFit
    /\ \A s \in DOMAIN sync : ScopeFits(s)

LEMMA SyncSizes ==
    ASSUME setup \in Setups
    PROVE  setup.messages \in Nat /\ setup.batches \in Nat
<1>1. setup \in [ways : SUBSET Ways, modes : SUBSET {"tunnel", "oauth"},
                 perms : SUBSET Permissions, ends : BOOLEAN,
                 relink : BOOLEAN, threads : SUBSET Threads, grants : 0..MaxGrants,
                 reads : Nat, messages : Nat, images : BOOLEAN,
                 batches : Nat, fresh : SUBSET Conversations,
                 relates : SUBSET Conversations, imports : Nat, proposals : Nat,
                 versions : Nat, tasks : Nat, stops : Nat, uploads : Nat,
                 answers : Nat, moves : BOOLEAN]
  BY AccessAssumption
<1> QED
  BY <1>1, SMT

LEMMA BatchesInit == Init => BatchesInv
<1> SUFFICES ASSUME Init PROVE BatchesInv
  OBVIOUS
<1>1. /\ lastMsg = 0 /\ image = NoImages /\ horizon = <<>> /\ sync = [s \in {} |-> FreshState]
      /\ batch = <<>> /\ lastBatch = 0 /\ lastGrant = 0 /\ setup \in Setups
  BY DEF Init, CaseInit, SyncInit, AccessInit
<1>2. DOMAIN sync = {} /\ Batches = {} /\ Granted = {} /\ Len(batch) = 0
  BY <1>1 DEF Batches, Granted
<1>3. setup.messages \in Nat /\ setup.batches \in Nat
  BY <1>1, SyncSizes
<1>4. ContentTyped
  <2>1. image \in [Images -> ImageStates]
    BY <1>1 DEF NoImages, ImageStates
  <2>2. horizon \in [Granted -> 0..lastMsg]
    BY <1>1, <1>2
  <2> QED
    BY <1>1, <1>3, <2>1, <2>2 DEF ContentTyped
<1>5. StatesTyped /\ BatchesTyped /\ LinksFit
  BY <1>1, <1>2, <1>3 DEF StatesTyped, BatchesTyped, LinksFit
<1> QED
  BY <1>2, <1>4, <1>5 DEF BatchesInv

LEMMA BatchTypes ==
    ASSUME BatchesTyped
    PROVE  /\ lastBatch \in Nat /\ lastBatch = Len(batch) /\ Batches = 1..Len(batch)
           /\ DOMAIN batch = Batches
           /\ \A b \in Batches :
                 /\ batch[b] \in BatchRow /\ batch[b].base \in Nat
                 /\ batch[b].scope \in Scope /\ batch[b].kind \in {"text", "image"}
                 /\ batch[b].texts \subseteq MessageIds /\ batch[b].read \subseteq Images
                 /\ batch[b].images \in [Images -> ImageStates]
                 /\ batch[b].status \in {"pending", "confirmed", "superseded"}
                 /\ b \in Nat
<1>1. /\ lastBatch \in Nat /\ lastBatch = Len(batch) /\ Batches = 1..Len(batch)
      /\ DOMAIN batch = Batches /\ \A b \in Batches : batch[b] \in BatchRow
  BY DEF BatchesTyped, Batches
<1>2. \A row \in BatchRow :
         /\ row.base \in Nat /\ row.scope \in Scope /\ row.kind \in {"text", "image"}
         /\ row.texts \subseteq MessageIds /\ row.read \subseteq Images
         /\ row.images \in [Images -> ImageStates]
         /\ row.status \in {"pending", "confirmed", "superseded"}
  BY DEF BatchRow
<1> QED
  BY <1>1, <1>2

LEMMA FreshTypes ==
    /\ FreshState \in StateRow /\ FreshState.textV = 0 /\ FreshState.imageV = 0
    /\ FreshState.mark = 0 /\ FreshState.sumMark = 0 /\ FreshState.summary = FALSE
    /\ \A i \in Images : FreshState.acked[i] = "none"
<1>1. [i \in Images |-> "none"] \in [Images -> ImageStates]
  BY DEF ImageStates
<1> QED
  BY <1>1 DEF FreshState, StateRow

LEMMA StateTypes ==
    ASSUME ContentTyped, StatesTyped, BatchesTyped, NEW s
    PROVE  /\ StateOf(s) \in StateRow /\ lastMsg \in Nat /\ lastBatch \in Nat
           /\ StateOf(s).textV \in Nat /\ StateOf(s).imageV \in Nat
           /\ StateOf(s).textV <= lastBatch
           /\ StateOf(s).mark \in Nat /\ StateOf(s).mark <= lastMsg
           /\ StateOf(s).sumMark \in Nat /\ StateOf(s).sumMark <= StateOf(s).mark
           /\ StateOf(s).summary \in BOOLEAN
           /\ StateOf(s).acked \in [Images -> ImageStates]
           /\ StateOf(s).textV = 0 /\ ~StateOf(s).summary => StateOf(s).mark = 0
           /\ s \in DOMAIN sync => StateOf(s) = sync[s]
           /\ s \notin DOMAIN sync => StateOf(s) = FreshState
<1>1. lastMsg \in Nat /\ lastBatch \in Nat
  BY BatchTypes DEF ContentTyped
<1>2. \A row \in StateRow :
         /\ row.textV \in Nat /\ row.imageV \in Nat /\ row.mark \in Nat /\ row.sumMark \in Nat
         /\ row.summary \in BOOLEAN /\ row.acked \in [Images -> ImageStates]
  BY DEF StateRow
<1>3. CASE s \in DOMAIN sync
  <2>1. StateOf(s) = sync[s]
    BY <1>3 DEF StateOf
  <2>2. sync[s] \in StateRow
    BY <1>3 DEF StatesTyped
  <2>3. /\ sync[s].sumMark <= sync[s].mark /\ sync[s].mark <= lastMsg /\ sync[s].textV <= lastBatch
        /\ (sync[s].textV = 0 /\ ~sync[s].summary => sync[s].mark = 0)
    BY <1>3 DEF StatesTyped
  <2> QED
    BY <1>1, <1>2, <1>3, <2>1, <2>2, <2>3
<1>4. CASE s \notin DOMAIN sync
  <2>1. StateOf(s) = FreshState
    BY <1>4 DEF StateOf
  <2> QED
    BY <1>1, <1>2, <1>4, <2>1, FreshTypes
<1> QED
  BY <1>3, <1>4

\* A scope without a state has no batches.
LEMMA FreshFits ==
    ASSUME ContentTyped, StatesTyped, BatchesTyped, NEW s, s \notin DOMAIN sync
    PROVE  ScopeFits(s) /\ \A kind : OfKind(s, kind) = {}
<1>1. \A b \in Batches : batch[b].scope # s
  BY DEF BatchesTyped
<1>2. \A kind : OfKind(s, kind) = {}
  BY <1>1 DEF OfKind
<1>3. Unsummarised(s) = {}
  BY <1>1 DEF Unsummarised
<1>4. Cardinality(Unsummarised(s)) <= PageSize
  BY <1>3, FS_EmptySet, SyncAssumption
<1>5. SeenFit(s)
  <2>1. \A i \in Images : StateOf(s).acked[i] = "none"
    BY StateTypes, FreshTypes
  <2> QED
    BY <2>1 DEF SeenFit
<1> QED
  BY <1>2, <1>4, <1>5 DEF ScopeFits, TextSide, BasesFit, TextsFit, DoneFit, DoneTexts

LEMMA TextsAre ==
    ASSUME lastMsg \in Nat, NEW s
    PROVE  /\ Texts(s) \subseteq MessageIds /\ MessageIds \subseteq Nat \ {0}
           /\ \A m \in Texts(s) : m \in Nat /\ m >= 1 /\ m <= lastMsg
           /\ IsFiniteSet(MessageIds)
<1>1. MaxMessages \in Nat /\ MessageIds = 1..MaxMessages
  BY SyncAssumption DEF MessageIds
<1>2. IsFiniteSet(MessageIds)
  BY <1>1, FS_Interval
<1> QED
  BY <1>1, <1>2 DEF Texts, Shows

-----------------------------------------------------------------------------
(* What a step may do to the batches.                                      *)

\* Nothing is read; texts arrive, images change, grants come.
BatchesStay ==
    /\ UNCHANGED <<setup, progress>> /\ lastMsg' \in {lastMsg, lastMsg + 1}
    /\ Granted \subseteq Granted' /\ \A g \in Granted : horizon'[g] = horizon[g]
    /\ ContentTyped'

LEMMA StayKeeps ==
    ASSUME BatchesInv, BatchesStay
    PROVE  BatchesInv'
<1>1. /\ ContentTyped /\ StatesTyped /\ BatchesTyped /\ LinksFit /\ lastMsg \in Nat
      /\ UNCHANGED <<sync, batch, lastBatch>> /\ Batches' = Batches /\ setup' = setup
      /\ lastMsg' \in Nat /\ lastMsg <= lastMsg'
  BY DEF BatchesInv, BatchesStay, progress, Batches, ContentTyped
<1>2. StatesTyped'
  <2>1. \A s \in DOMAIN sync : sync[s].mark \in Nat
    BY <1>1 DEF StatesTyped, StateRow
  <2> QED
    BY <1>1, <2>1 DEF StatesTyped, BatchesStay
<1>3. BatchesTyped' /\ LinksFit'
  BY <1>1 DEF BatchesTyped, LinksFit, AllRead
<1>4. ASSUME NEW s \in DOMAIN sync PROVE ScopeFits(s)'
  <2>1. /\ Texts(s) \subseteq Texts(s)'
        /\ \A m \in Texts(s)' : m <= lastMsg => m \in Texts(s)
        /\ \A m \in Texts(s)' : m \in Nat
    <3>1. s.horizon # 0 => horizon'[s.horizon] = horizon[s.horizon]
      BY <1>1 DEF StatesTyped, BatchesStay
    <3>2. \A m \in MessageIds : m \in Nat
      BY <1>1, TextsAre
    <3>3. ASSUME NEW m \in MessageIds, Shows(s, m) PROVE Shows(s, m)'
      BY <1>1, <3>1, <3>2, <3>3 DEF Shows
    <3>4. ASSUME NEW m \in MessageIds, Shows(s, m)', m <= lastMsg PROVE Shows(s, m)
      BY <3>1, <3>4 DEF Shows
    <3> QED
      BY <3>2, <3>3, <3>4 DEF Texts
  <2>2. /\ ScopeFits(s) /\ StateOf(s)' = StateOf(s) /\ \A kind : OfKind(s, kind)' = OfKind(s, kind)
        /\ DoneTexts(s)' = DoneTexts(s) /\ Unsummarised(s)' = Unsummarised(s)
    BY <1>1 DEF BatchesInv, StateOf, OfKind, DoneTexts, Unsummarised
  <2>3. \A kind : BasesFit(s, kind) => BasesFit(s, kind)'
    BY <1>1, <2>2 DEF BasesFit, Value
  <2>4. SeenFit(s)'
    BY <1>1, <2>2 DEF SeenFit, ScopeFits
  <2>5. TextsFit(s) /\ DoneFit(s)
    BY <2>2 DEF ScopeFits, TextSide
  <2>6. StateOf(s).mark \in Nat /\ StateOf(s).mark <= lastMsg
    BY <1>1, StateTypes
  <2>7. \A m \in Texts(s) : m \in Nat /\ m <= lastMsg
    BY <1>1, TextsAre
  <2>8. TextsFit(s)'
    <3>1. ASSUME NEW b \in OfKind(s, "text")
          PROVE  /\ batch[b].texts \subseteq Texts(s)'
                 /\ \A m \in batch[b].texts : batch[b].status = "pending" <=> StateOf(s).mark < m
                 /\ batch[b].status = "pending" =>
                       \A x \in batch[b].texts : \A m \in Texts(s)' :
                           m <= x /\ \/ \E y \in batch[b].texts : y <= m
                                     \/ StateOf(s).textV # 0 /\ StateOf(s).mark < m
                           => m \in batch[b].texts
      <4>1. ASSUME NEW x \in batch[b].texts, NEW m \in Texts(s)', m <= x PROVE m \in Texts(s)
        <5>1. x \in Nat /\ x <= lastMsg /\ m \in Nat
          BY <2>1, <2>5, <2>7 DEF TextsFit
        <5> QED
          BY <1>1, <2>1, <4>1, <5>1
      <4> QED
        BY <2>1, <2>5, <4>1 DEF TextsFit
    <3> QED
      BY <1>1, <2>2, <3>1 DEF TextsFit
  <2>9. DoneFit(s)'
    <3>1. \A m \in Texts(s)' : m <= StateOf(s).mark => m \in Texts(s)
      BY <1>1, <2>1, <2>6
    <3> QED
      BY <1>1, <2>2, <2>5, <3>1 DEF DoneFit
  <2> QED
    BY <2>2, <2>3, <2>4, <2>8, <2>9 DEF ScopeFits, TextSide
<1> QED
  BY <1>1, <1>2, <1>3, <1>4 DEF BatchesInv, BatchesStay

\* The state of one scope is written.
OneState(s, row) ==
    /\ DOMAIN sync' = DOMAIN sync \cup {s} /\ sync'[s] = row
    /\ \A t \in DOMAIN sync : t # s => sync'[t] = sync[t]

\* A state may be written in such a way.
StateFits(s, row) ==
    /\ row \in StateRow
    /\ s.horizon # 0 => s.horizon \in Granted
    /\ row.sumMark <= row.mark /\ row.mark <= lastMsg
    /\ row.textV <= lastBatch
    /\ row.textV = 0 /\ ~row.summary => row.mark = 0

\* The rows of the scope go on; what was read stays read.
RowsGo(s) ==
    /\ batch' \in Seq(BatchRow) /\ lastBatch' = Len(batch')
    /\ lastBatch <= lastBatch' /\ lastBatch' <= setup.batches
    /\ \A b \in Batches :
          /\ batch'[b].scope = batch[b].scope /\ batch'[b].kind = batch[b].kind
          /\ batch'[b].base = batch[b].base /\ batch'[b].texts = batch[b].texts
          /\ batch'[b].images = batch[b].images /\ batch[b].read \subseteq batch'[b].read
          /\ batch[b].scope # s => batch'[b].status = batch[b].status
          /\ batch'[b].status = "superseded" /\ batch[b].kind = "text" =>
                batch[b].status = "superseded"
          /\ batch'[b].link \in 0..lastBatch'
          /\ batch[b].kind = "image" => batch'[b].link = batch[b].link
          /\ batch'[b].status = "confirmed" /\ batch'[b].link # 0 =>
                /\ batch'[b].link = batch[b].link
                /\ batch[b].status = "confirmed" \/ AllRead(batch[b].link)
    /\ \A b \in Batches' : b \notin Batches =>
          /\ batch'[b].scope = s /\ batch'[b].status = "pending" /\ batch'[b].link = 0
          /\ batch'[b].kind = "text" => batch'[b].base < b
          /\ batch'[b].kind = "image" => batch'[b].texts = {}

\* The rows of a kind are read, not written.
KindKept(s, kind) ==
    /\ OfKind(s, kind)' = OfKind(s, kind)
    /\ \A b \in OfKind(s, kind) :
          /\ batch'[b].base = batch[b].base /\ batch'[b].texts = batch[b].texts
          /\ batch'[b].status = batch[b].status

LEMMA BasesKept ==
    ASSUME NEW s, NEW kind, BasesFit(s, kind), KindKept(s, kind), Value(s, kind)' = Value(s, kind)
    PROVE  BasesFit(s, kind)'
BY DEF BasesFit, KindKept

\* Texts that no summary covers, among the text batches.
LEMMA UnsummarisedAre ==
    ASSUME BatchesTyped, NEW s
    PROVE  Unsummarised(s) = {m \in UNION {batch[b].texts : b \in DoneTexts(s)} :
                                  m > StateOf(s).sumMark}
<1>1. \A b \in Batches : batch[b].kind = "image" => batch[b].texts = {}
  BY DEF BatchesTyped
<1>2. \A b \in Batches : batch[b].kind \in {"text", "image"}
  BY BatchTypes
<1> QED
  BY <1>1, <1>2 DEF Unsummarised, DoneTexts, OfKind

LEMMA UnsummarisedThen ==
    ASSUME BatchesTyped', NEW s
    PROVE  Unsummarised(s)' = {m \in UNION {batch'[b].texts : b \in DoneTexts(s)'} :
                                  m > StateOf(s)'.sumMark}
<1>1. \A b \in Batches' : batch'[b].kind = "image" => batch'[b].texts = {}
  BY DEF BatchesTyped
<1>2. \A b \in Batches' : batch'[b].kind \in {"text", "image"}
  <2>1. \A b \in Batches' : batch'[b] \in BatchRow
    BY DEF BatchesTyped, Batches
  <2> QED
    BY <2>1 DEF BatchRow
<1> QED
  BY <1>1, <1>2 DEF Unsummarised, DoneTexts, OfKind

LEMMA TextsSame ==
    ASSUME UNCHANGED <<content, horizon>>, NEW s
    PROVE  Texts(s)' = Texts(s)
BY DEF content, Texts, Shows

LEMMA TextSideKept ==
    ASSUME BatchesTyped, BatchesTyped', UNCHANGED <<content, horizon>>, NEW s, TextSide(s),
           KindKept(s, "text"), StateOf(s)'.textV = StateOf(s).textV,
           StateOf(s)'.mark = StateOf(s).mark, StateOf(s)'.sumMark = StateOf(s).sumMark
    PROVE  TextSide(s)'
<1>1. Texts(s)' = Texts(s)
  BY TextsSame
<1>2. BasesFit(s, "text")'
  BY BasesKept DEF TextSide, Value
<1>3. DoneTexts(s)' = DoneTexts(s) /\ \A b \in DoneTexts(s) : batch'[b].texts = batch[b].texts
  BY DEF KindKept, DoneTexts
<1>4. TextsFit(s)'
  <2>1. TextsFit(s)
    BY DEF TextSide
  <2>2. ASSUME NEW b \in OfKind(s, "text")
        PROVE  batch'[b].texts = batch[b].texts /\ batch'[b].status = batch[b].status
    BY DEF KindKept
  <2>3. OfKind(s, "text")' = OfKind(s, "text")
    BY DEF KindKept
  <2> QED
    BY <1>1, <2>1, <2>2, <2>3 DEF TextsFit
<1>5. DoneFit(s)'
  BY <1>1, <1>3 DEF TextSide, DoneFit
<1>6. Unsummarised(s)' = Unsummarised(s)
  <2>1. /\ Unsummarised(s) = {m \in UNION {batch[b].texts : b \in DoneTexts(s)} :
                                  m > StateOf(s).sumMark}
        /\ Unsummarised(s)' = {m \in UNION {batch'[b].texts : b \in DoneTexts(s)'} :
                                  m > StateOf(s)'.sumMark}
    BY UnsummarisedAre, UnsummarisedThen
  <2>2. {batch'[b].texts : b \in DoneTexts(s)'} = {batch[b].texts : b \in DoneTexts(s)}
    BY <1>3
  <2> QED
    BY <2>1, <2>2
<1> QED
  BY <1>2, <1>4, <1>5, <1>6 DEF TextSide

\* The rows of other scopes are kept.
LEMMA OthersKept ==
    ASSUME BatchesTyped, NEW s, RowsGo(s), NEW t, t # s
    PROVE  \A kind : KindKept(t, kind)
<1>1. Batches \subseteq Batches'
  BY DEF RowsGo, BatchesTyped, Batches
<1>2. \A b \in Batches' : batch'[b].scope = t => b \in Batches
  BY DEF RowsGo
<1> QED
  BY <1>1, <1>2 DEF KindKept, OfKind, RowsGo

LEMMA SeenKept ==
    ASSUME BatchesTyped, NEW s, RowsGo(s), NEW t, SeenFit(t),
           \A i \in Images : StateOf(t)'.acked[i] = "stored" => StateOf(t).acked[i] = "stored"
    PROVE  SeenFit(t)'
<1>1. Batches \subseteq Batches'
  BY DEF RowsGo, BatchesTyped, Batches
<1> QED
  BY <1>1 DEF SeenFit, RowsGo

LEMMA WorkedTyped ==
    ASSUME StatesTyped, BatchesTyped, LinksFit, UNCHANGED <<content, horizon, lastGrant, setup>>,
           NEW s, NEW row, StateFits(s, row), OneState(s, row), RowsGo(s)
    PROVE  StatesTyped' /\ BatchesTyped' /\ LinksFit'
<1>1. /\ lastBatch \in Nat /\ lastBatch' \in Nat /\ Batches \subseteq Batches'
      /\ lastMsg' = lastMsg /\ Granted' = Granted
      /\ Batches = 1..lastBatch /\ Batches' = 1..lastBatch' /\ lastBatch <= lastBatch'
  BY DEF RowsGo, BatchesTyped, Batches, content, Granted
<1>2. StatesTyped'
  <2>1. ASSUME NEW t \in DOMAIN sync', t # s PROVE t \in DOMAIN sync /\ sync'[t] = sync[t]
    BY <2>1 DEF OneState
  <2>2. \A t \in DOMAIN sync : sync[t].textV \in Nat
    BY DEF StatesTyped, StateRow
  <2>3. row.textV \in Nat
    BY DEF StateFits, StateRow
  <2>4. sync'[s] = row
    BY DEF OneState
  <2> QED
    BY <1>1, <2>1, <2>2, <2>3, <2>4 DEF StatesTyped, StateFits
<1>3. BatchesTyped'
  <2>1. ASSUME NEW b \in Batches'
        PROVE  /\ batch'[b].scope \in DOMAIN sync'
               /\ batch'[b].link \in 0..lastBatch'
               /\ batch'[b].kind = "text" => batch'[b].base < b /\ batch'[b].status # "superseded"
               /\ batch'[b].kind = "image" => batch'[b].texts = {} /\ batch'[b].link = 0
    <3>1. CASE b \in Batches
      BY <1>1, <3>1 DEF RowsGo, BatchesTyped, OneState
    <3>2. CASE b \notin Batches
      BY <1>1, <3>2 DEF RowsGo, OneState
    <3> QED
      BY <3>1, <3>2
  <2>2. batch' \in Seq(BatchRow) /\ lastBatch' = Len(batch') /\ lastBatch' <= setup'.batches
    BY DEF RowsGo
  <2> QED
    BY <2>1, <2>2 DEF BatchesTyped
<1>4. LinksFit'
  <2>1. ASSUME NEW b \in Batches, AllRead(b) PROVE AllRead(b)'
    BY <2>1 DEF AllRead, RowsGo
  <2>2. ASSUME NEW b \in Batches', batch'[b].status = "confirmed", batch'[b].link # 0
        PROVE  AllRead(batch[b].link)'
    <3>1. b \in Batches
      BY <2>2 DEF RowsGo
    <3>2. batch'[b].link = batch[b].link /\ (batch[b].status = "confirmed" \/ AllRead(batch[b].link))
      BY <2>2, <3>1 DEF RowsGo
    <3>3. AllRead(batch[b].link)
      BY <2>2, <3>1, <3>2 DEF LinksFit
    <3>4. batch[b].link \in Batches
      BY <1>1, <2>2, <3>1, <3>2 DEF BatchesTyped
    <3>5. PICK c \in Batches : c = batch[b].link
      BY <3>4
    <3>6. AllRead(c)'
      BY <2>1, <3>3, <3>5
    <3> QED
      BY <3>2, <3>5, <3>6 DEF AllRead
  <2> QED
    BY <2>2 DEF LinksFit
<1> QED
  BY <1>2, <1>3, <1>4

\* A step that works on one scope leaves that scope to be looked at.
LEMMA WorkedKeeps ==
    ASSUME BatchesInv, UNCHANGED <<content, horizon, lastGrant, setup>>,
           NEW s, NEW row, StateFits(s, row), OneState(s, row), RowsGo(s),
           TextSide(s)', BasesFit(s, "image")', SeenFit(s)'
    PROVE  BatchesInv'
<1>1. ContentTyped /\ StatesTyped /\ BatchesTyped /\ LinksFit
  BY DEF BatchesInv
<1>2. StatesTyped' /\ BatchesTyped' /\ LinksFit'
  BY <1>1, WorkedTyped
<1>3. ContentTyped'
  BY <1>1 DEF ContentTyped, content, Granted
<1>4. ASSUME NEW t \in DOMAIN sync, t # s PROVE ScopeFits(t)'
  <2>1. ScopeFits(t) /\ \A kind : KindKept(t, kind)
    BY <1>1, <1>4, OthersKept DEF BatchesInv
  <2>2. StateOf(t)' = StateOf(t)
    BY <1>4 DEF OneState, StateOf
  <2>3. TextSide(t)'
    BY <1>1, <1>2, <2>1, <2>2, TextSideKept DEF ScopeFits
  <2>4. BasesFit(t, "image")'
    BY <2>1, <2>2, BasesKept DEF ScopeFits, Value
  <2>5. SeenFit(t)'
    BY <1>1, <2>1, <2>2, SeenKept DEF ScopeFits
  <2> QED
    BY <2>3, <2>4, <2>5 DEF ScopeFits
<1>5. \A t \in DOMAIN sync' : ScopeFits(t)'
  BY <1>4 DEF OneState, ScopeFits
<1> QED
  BY <1>1, <1>2, <1>3, <1>5 DEF BatchesInv

LEMMA SyncWithIs ==
    ASSUME NEW s, NEW row, sync' = SyncWith(s, row)
    PROVE  OneState(s, row) /\ StateOf(s)' = row
BY DEF SyncWith, OneState, StateOf

\* What is known of a call.
LEMMA CalledScope ==
    ASSUME GrantsInv, BatchesInv, NEW g, NEW by \in Identities \cup {"tunnel"}, Called(g, by)
    PROVE  /\ ScopeFor(g, by) \in Scope
           /\ ScopeFor(g, by).horizon # 0 => ScopeFor(g, by).horizon \in Granted
           /\ UNCHANGED <<lastGrant, setup>>
           /\ ScopeFits(ScopeFor(g, by)) /\ ContentTyped /\ StatesTyped /\ BatchesTyped
<1>1. g \in Granted /\ UNCHANGED <<lastGrant, setup>> /\ lastGrant \in Nat
  BY GrantsTypes DEF Called, KeyRead, KeyResolved
<1>2. grant[g].scope \in SUBSET Conversations /\ grant[g].perm \in Permissions /\ g \in Nat
  BY <1>1, GrantsTypes DEF Grant, Granted
<1>3. PICK h : h = IF grant[g].perm = "frozen" THEN g ELSE 0
  OBVIOUS
<1>4. ScopeFor(g, by) = [owner |-> by, sources |-> grant[g].scope, perm |-> grant[g].perm,
                         horizon |-> h]
  BY <1>3 DEF ScopeFor, ScopeOf
<1>5. h \in Nat /\ (h # 0 => h \in Granted)
  BY <1>1, <1>2, <1>3
<1>6. ScopeFor(g, by) \in Scope /\ ScopeFor(g, by).horizon = h
  BY <1>2, <1>4, <1>5 DEF Scope
<1>7. ContentTyped /\ StatesTyped /\ BatchesTyped /\ \A t \in DOMAIN sync : ScopeFits(t)
  BY DEF BatchesInv
<1>8. ScopeFits(ScopeFor(g, by))
  BY <1>7, FreshFits
<1> QED
  BY <1>1, <1>5, <1>6, <1>7, <1>8

\* A row that is the same but for its status and what was read of it.
Like(new, row) ==
    /\ new \in BatchRow
    /\ new.scope = row.scope /\ new.kind = row.kind /\ new.base = row.base
    /\ new.texts = row.texts /\ new.images = row.images /\ new.link = row.link
    /\ row.read \subseteq new.read

LEMMA RowsLike ==
    ASSUME BatchesTyped, DOMAIN batch' = Batches, batch' = [b \in Batches |-> batch'[b]],
           UNCHANGED <<lastBatch, setup>>, NEW s,
           \A b \in Batches : Like(batch'[b], batch[b]),
           \A b \in Batches : batch'[b].status # batch[b].status =>
               /\ batch[b].scope = s
               /\ batch[b].kind = "text" => batch'[b].status # "superseded"
               /\ batch'[b].status = "confirmed" /\ batch[b].link # 0 => AllRead(batch[b].link)
    PROVE  RowsGo(s) /\ Batches' = Batches
<1>1. /\ lastBatch = Len(batch) /\ Batches = 1..Len(batch) /\ lastBatch \in Nat
      /\ Batches' = Batches /\ lastBatch <= setup.batches
      /\ \A b \in Batches : batch[b].link \in 0..lastBatch
  BY BatchTypes DEF BatchesTyped, Batches
<1>2. batch' \in Seq(BatchRow) /\ Len(batch') = lastBatch
  <2>1. \A b \in Batches : batch'[b] \in BatchRow
    BY DEF Like
  <2> QED
    BY <1>1, <2>1
<1> QED
  BY <1>1, <1>2 DEF RowsGo, Like

LEMMA StateStays ==
    ASSUME ContentTyped, StatesTyped, BatchesTyped, NEW s, s.horizon # 0 => s.horizon \in Granted
    PROVE  StateFits(s, StateOf(s))
BY StateTypes DEF StateFits

-----------------------------------------------------------------------------
(* Images are delivered.                                                   *)

LEMMA ReadRowLike ==
    ASSUME NEW row \in BatchRow, NEW i \in Images, NEW new,
           new = row \/ new = [row EXCEPT !.read = @ \cup {i}]
    PROVE  Like(new, row) /\ new.status = row.status
BY DEF BatchRow, Like

LEMMA ReadImageKeeps ==
    ASSUME GrantsInv, BatchesInv, NEW g, NEW by \in Identities \cup {"tunnel"},
           NEW i \in Images, ReadImage(g, by, i)
    PROVE  BatchesInv'
<1>1. PICK s : s = ScopeFor(g, by)
  OBVIOUS
<1>2. /\ Called(g, by) /\ sync' = SyncWith(s, StateOf(s)) /\ UNCHANGED <<content, horizon, lastBatch>>
      /\ batch' = [b \in Batches |->
                      IF b \in PendingOf(s, "image") /\ batch[b].images[i] = "stored"
                      THEN [batch[b] EXCEPT !.read = @ \cup {i}] ELSE batch[b]]
  BY <1>1 DEF ReadImage
<1>3. /\ s.horizon # 0 => s.horizon \in Granted
      /\ UNCHANGED <<lastGrant, setup>> /\ ScopeFits(s)
      /\ ContentTyped /\ StatesTyped /\ BatchesTyped
  BY <1>1, <1>2, CalledScope
<1>4. StateFits(s, StateOf(s)) /\ OneState(s, StateOf(s)) /\ StateOf(s)' = StateOf(s)
  BY <1>2, <1>3, StateStays, SyncWithIs
<1>5. \A b \in Batches : Like(batch'[b], batch[b]) /\ batch'[b].status = batch[b].status
  <2>1. ASSUME NEW b \in Batches
        PROVE  Like(batch'[b], batch[b]) /\ batch'[b].status = batch[b].status
    <3>1. batch[b] \in BatchRow
      BY <1>3, BatchTypes
    <3>2. batch'[b] = batch[b] \/ batch'[b] = [batch[b] EXCEPT !.read = @ \cup {i}]
      BY <1>2
    <3> QED
      BY <3>1, <3>2, ReadRowLike
  <2> QED
    BY <2>1
<1>6. RowsGo(s) /\ Batches' = Batches
  <2>1. DOMAIN batch' = Batches /\ batch' = [b \in Batches |-> batch'[b]]
    BY <1>2
  <2> QED
    BY <1>2, <1>3, <1>5, <2>1, RowsLike
<1>7. \A kind : KindKept(s, kind)
  BY <1>5, <1>6 DEF KindKept, OfKind, Like
<1>8. BatchesTyped'
  BY <1>2, <1>3, <1>4, <1>6, WorkedTyped DEF BatchesInv
<1>9. TextSide(s)'
  BY <1>2, <1>3, <1>4, <1>7, <1>8, TextSideKept DEF ScopeFits
<1>10. BasesFit(s, "image")'
  BY <1>3, <1>4, <1>7, BasesKept DEF ScopeFits, Value
<1>11. SeenFit(s)'
  BY <1>3, <1>4, <1>6, SeenKept DEF ScopeFits
<1> QED
  BY <1>2, <1>3, <1>4, <1>6, <1>9, <1>10, <1>11, WorkedKeeps

-----------------------------------------------------------------------------
(* Texts are read.                                                         *)

LEMMA HighestUp ==
    ASSUME NEW ids \in SUBSET Nat, IsFiniteSet(ids), NEW n \in Nat,
           NEW y \in Highest(n, ids), NEW m \in ids, y <= m
    PROVE  m \in Highest(n, ids)
<1>1. y \in ids /\ Cardinality({k \in ids : k > y}) < n
  BY DEF Highest
<1> DEFINE above == {k \in ids : k > y}
           over == {k \in ids : k > m}
<1>2. over \subseteq above
  <2>1. y \in Nat /\ m \in Nat /\ \A k \in ids : k \in Nat
    BY <1>1
  <2>2. ASSUME NEW k \in ids, k > m PROVE k > y
    BY <2>1, <2>2
  <2> QED
    BY <2>2
<1>3. above \subseteq ids
  OBVIOUS
<1>4. IsFiniteSet(above)
  BY <1>3, FS_Subset
<1> HIDE DEF above, over
<1>5. /\ IsFiniteSet(over) /\ Cardinality(over) <= Cardinality(above)
  BY <1>2, <1>4, FS_Subset
<1>6. Cardinality(over) \in Nat /\ Cardinality(above) \in Nat
  BY <1>4, <1>5, FS_CardinalityType
<1>7. Cardinality(over) < n
  BY <1>1, <1>5, <1>6 DEF above
<1> QED
  BY <1>7 DEF Highest, over

LEMMA LowestDown ==
    ASSUME NEW ids \in SUBSET Nat, IsFiniteSet(ids), NEW n \in Nat,
           NEW y \in Lowest(n, ids), NEW m \in ids, m <= y
    PROVE  m \in Lowest(n, ids)
<1>1. y \in ids /\ Cardinality({k \in ids : k < y}) < n
  BY DEF Lowest
<1> DEFINE below == {k \in ids : k < y}
           under == {k \in ids : k < m}
<1>2. under \subseteq below
  <2>1. y \in Nat /\ m \in Nat /\ \A k \in ids : k \in Nat
    BY <1>1
  <2>2. ASSUME NEW k \in ids, k < m PROVE k < y
    BY <2>1, <2>2
  <2> QED
    BY <2>2
<1>3. below \subseteq ids
  OBVIOUS
<1>4. IsFiniteSet(below)
  BY <1>3, FS_Subset
<1> HIDE DEF below, under
<1>5. /\ IsFiniteSet(under) /\ Cardinality(under) <= Cardinality(below)
  BY <1>2, <1>4, FS_Subset
<1>6. Cardinality(under) \in Nat /\ Cardinality(below) \in Nat
  BY <1>4, <1>5, FS_CardinalityType
<1>7. Cardinality(under) < n
  BY <1>1, <1>5, <1>6 DEF below
<1> QED
  BY <1>7 DEF Lowest, under

\* A page has no gaps, and none before it once a page was confirmed.
LEMMA PageIs ==
    ASSUME lastMsg \in Nat, NEW s, NEW row, row.mark \in Nat,
           row.textV = 0 /\ ~row.summary => row.mark = 0
    PROVE  /\ Page(s, row) \subseteq Texts(s)
           /\ \A x \in Page(s, row) : row.mark < x
           /\ \A x \in Page(s, row) : \A m \in Texts(s) :
                  m <= x /\ \/ \E y \in Page(s, row) : y <= m
                            \/ row.textV # 0 /\ row.mark < m
                  => m \in Page(s, row)
<1>1. /\ Texts(s) \in SUBSET Nat /\ IsFiniteSet(Texts(s)) /\ \A m \in Texts(s) : m >= 1
      /\ PageSize \in Nat
  BY TextsAre, FS_Subset, SyncAssumption
<1>2. CASE row.textV = 0 /\ ~row.summary
  <2>1. Page(s, row) = Highest(PageSize, Texts(s)) /\ row.mark = 0
    BY <1>2 DEF Page
  <2>2. Page(s, row) \subseteq Texts(s)
    BY <2>1 DEF Highest
  <2>3. \A y \in Page(s, row) : \A m \in Texts(s) : y <= m => m \in Page(s, row)
    BY <1>1, <2>1, HighestUp
  <2> QED
    BY <1>1, <1>2, <2>1, <2>2, <2>3
<1>3. CASE ~(row.textV = 0 /\ ~row.summary)
  <2> DEFINE ids == {m \in Texts(s) : m > row.mark}
  <2>1. Page(s, row) = Lowest(PageSize, ids)
    BY <1>3 DEF Page
  <2>2. ids \in SUBSET Nat /\ IsFiniteSet(ids)
    BY <1>1, FS_Subset
  <2>3. Page(s, row) \subseteq ids
    BY <2>1 DEF Lowest
  <2> HIDE DEF ids
  <2>4. \A y \in Page(s, row) : \A m \in ids : m <= y => m \in Page(s, row)
    BY <1>1, <2>1, <2>2, LowestDown
  <2>5. \A m \in Texts(s) : \A y \in Page(s, row) : y <= m => m \in ids
    BY <1>1, <2>3 DEF ids
  <2> QED
    BY <1>1, <2>3, <2>4, <2>5 DEF ids
<1> QED
  BY <1>2, <1>3

\* A summary is taken over with its watermark.
TakenOver(row, old, m) ==
    /\ row.textV = old.textV /\ row.imageV = old.imageV /\ row.acked = old.acked
    /\ row.summary = TRUE /\ row.mark = m /\ row.sumMark = m

LEMMA BootstrapIs ==
    ASSUME NEW s \in Scope, StateOf(s) \in StateRow, NEW row \in Bootstrapped(s)
    PROVE  row = StateOf(s)
           \/ /\ StateOf(s).textV = 0
              /\ \E m \in Texts(s) : TakenOver(row, StateOf(s), m)
<1>1. ASSUME NEW old \in StateRow, NEW m, NEW new,
             new = [old EXCEPT !.summary = TRUE, !.mark = m, !.sumMark = m]
      PROVE  TakenOver(new, old, m)
  BY <1>1 DEF StateRow, TakenOver
<1>2. \/ row = StateOf(s)
      \/ /\ StateOf(s).textV = 0
         /\ \E m \in Texts(s) :
               row = [StateOf(s) EXCEPT !.summary = TRUE, !.mark = m, !.sumMark = m]
  BY DEF Bootstrapped
<1> QED
  BY <1>1, <1>2

LEMMA TakenOverFits ==
    ASSUME ContentTyped, StatesTyped, BatchesTyped, NEW s, s.horizon # 0 => s.horizon \in Granted,
           NEW row, NEW m \in Texts(s), row \in StateRow, StateOf(s).textV = 0,
           TakenOver(row, StateOf(s), m)
    PROVE  StateFits(s, row)
<1>1. /\ lastMsg \in Nat /\ lastBatch \in Nat /\ m \in Nat /\ m <= lastMsg
  BY StateTypes, TextsAre
<1> QED
  BY <1>1 DEF StateFits, TakenOver

\* Without a pending batch a state at version 0 has no batches.
LEMMA NoTextYet ==
    ASSUME BatchesTyped, NEW s, BasesFit(s, "text"), StateOf(s).textV = 0, PendingOf(s, "text") = {}
    PROVE  OfKind(s, "text") = {}
<1> SUFFICES ASSUME NEW b \in OfKind(s, "text") PROVE FALSE
  OBVIOUS
<1>1. b \in Batches /\ batch[b].base \in Nat /\ batch[b].scope = s /\ batch[b].kind = "text"
  BY BatchTypes DEF OfKind
<1>2. batch[b].base <= 0 /\ (batch[b].base = 0 <=> batch[b].status = "pending")
  BY DEF BasesFit, Value
<1>3. batch[b].status = "pending"
  BY <1>1, <1>2
<1> QED
  BY <1>1, <1>3 DEF PendingOf

LEMMA TextAdded ==
    ASSUME ContentTyped, StatesTyped, BatchesTyped, BatchesTyped', UNCHANGED <<content, horizon>>,
           NEW s, TextSide(s), NEW row, StateOf(s)' = row, row.mark \in Nat,
           row.textV = 0 /\ ~row.summary => row.mark = 0,
           row.textV = StateOf(s).textV,
           row = StateOf(s) \/ OfKind(s, "text") = {},
           PendingOf(s, "text") = {}, NEW n, n \notin OfKind(s, "text"),
           OfKind(s, "text")' = OfKind(s, "text") \cup {n},
           \A b \in OfKind(s, "text") : batch'[b] = batch[b],
           batch'[n].base = row.textV, batch'[n].status = "pending",
           batch'[n].texts = Page(s, row)
    PROVE  TextSide(s)'
<1>1. /\ Texts(s)' = Texts(s) /\ lastMsg \in Nat /\ row.textV \in Nat
      /\ \A b \in OfKind(s, "text") : b \in Batches /\ batch[b].status # "pending"
      /\ BasesFit(s, "text") /\ TextsFit(s) /\ DoneFit(s) /\ Cardinality(Unsummarised(s)) <= PageSize
  BY TextsSame, StateTypes DEF TextSide, PendingOf, OfKind
<1>2. BasesFit(s, "text")'
  <2>1. \A b \in OfKind(s, "text") : batch[b].base \in Nat
    BY <1>1, BatchTypes
  <2>2. \A b \in OfKind(s, "text") : batch[b].base <= row.textV /\ batch[b].base # row.textV
    BY <1>1, <2>1 DEF BasesFit, Value
  <2>3. Value(s, "text")' = row.textV
    BY DEF Value
  <2>4. ASSUME NEW b \in OfKind(s, "text")'
        PROVE  /\ batch'[b].base <= row.textV
               /\ batch'[b].base = row.textV <=> batch'[b].status = "pending"
    <3>1. CASE b = n
      BY <1>1, <3>1
    <3>2. CASE b \in OfKind(s, "text")
      BY <1>1, <2>2, <3>2
    <3> QED
      BY <3>1, <3>2
  <2>5. ASSUME NEW b \in OfKind(s, "text")', NEW a \in OfKind(s, "text")', a # b
        PROVE  batch'[a].base # batch'[b].base
    <3>1. CASE a = n \/ b = n
      BY <2>2, <2>5, <3>1
    <3>2. CASE a \in OfKind(s, "text") /\ b \in OfKind(s, "text")
      BY <1>1, <2>5, <3>2 DEF BasesFit
    <3> QED
      BY <3>1, <3>2
  <2> QED
    BY <2>3, <2>4, <2>5 DEF BasesFit
<1>3. TextsFit(s)'
  <2>1. ASSUME NEW b \in OfKind(s, "text")
        PROVE  /\ batch'[b].texts \subseteq Texts(s)
               /\ \A m \in batch'[b].texts : batch'[b].status = "pending" <=> row.mark < m
               /\ batch'[b].status # "pending"
    <3>1. row = StateOf(s) /\ batch'[b] = batch[b]
      OBVIOUS
    <3> QED
      BY <1>1, <3>1 DEF TextsFit
  <2>2. /\ Page(s, row) \subseteq Texts(s)
        /\ \A x \in Page(s, row) : row.mark < x
        /\ \A x \in Page(s, row) : \A m \in Texts(s) :
               m <= x /\ \/ \E y \in Page(s, row) : y <= m
                         \/ row.textV # 0 /\ row.mark < m
               => m \in Page(s, row)
    BY <1>1, PageIs
  <2>3. ASSUME NEW b \in OfKind(s, "text")'
        PROVE  /\ batch'[b].texts \subseteq Texts(s)
               /\ \A m \in batch'[b].texts : batch'[b].status = "pending" <=> row.mark < m
               /\ batch'[b].status = "pending" =>
                     \A x \in batch'[b].texts : \A m \in Texts(s) :
                         m <= x /\ \/ \E y \in batch'[b].texts : y <= m
                                   \/ row.textV # 0 /\ row.mark < m
                         => m \in batch'[b].texts
    <3>1. CASE b = n
      BY <2>2, <3>1
    <3>2. CASE b \in OfKind(s, "text")
      BY <2>1, <3>2
    <3> QED
      BY <3>1, <3>2
  <2> QED
    BY <1>1, <2>3 DEF TextsFit
<1>4. /\ DoneTexts(s)' = DoneTexts(s) /\ \A b \in DoneTexts(s) : batch'[b] = batch[b]
  BY DEF DoneTexts
<1>5. row = StateOf(s) \/ DoneTexts(s) = {}
  BY DEF DoneTexts
<1>6. DoneFit(s)'
  BY <1>1, <1>4, <1>5 DEF DoneFit
<1>7. Cardinality(Unsummarised(s)') <= PageSize
  <2>1. /\ Unsummarised(s) = {m \in UNION {batch[b].texts : b \in DoneTexts(s)} :
                                  m > StateOf(s).sumMark}
        /\ Unsummarised(s)' = {m \in UNION {batch'[b].texts : b \in DoneTexts(s)'} :
                                  m > row.sumMark}
    BY UnsummarisedAre, UnsummarisedThen
  <2>2. {batch'[b].texts : b \in DoneTexts(s)'} = {batch[b].texts : b \in DoneTexts(s)}
    BY <1>4
  <2>3. CASE row = StateOf(s)
    <3>1. Unsummarised(s)' = Unsummarised(s)
      BY <2>1, <2>2, <2>3
    <3> QED
      BY <1>1, <3>1
  <2>4. CASE DoneTexts(s) = {}
    <3>1. Unsummarised(s)' = {}
      BY <1>4, <2>1, <2>4
    <3> QED
      BY <3>1, FS_EmptySet, SyncAssumption
  <2> QED
    BY <1>5, <2>3, <2>4
<1> QED
  BY <1>2, <1>3, <1>6, <1>7 DEF TextSide

IsTextRow(new, s, base, texts) ==
    /\ new \in BatchRow /\ new.scope = s /\ new.kind = "text" /\ new.status = "pending"
    /\ new.base = base /\ new.texts = texts /\ new.link = 0

LEMMA TextRow ==
    ASSUME NEW s \in Scope, NEW base \in Nat, NEW texts \in SUBSET MessageIds
    PROVE  IsTextRow([NewBatch(s, "text", base) EXCEPT !.texts = texts], s, base, texts)
<1>1. NoImages \in [Images -> ImageStates]
  BY DEF NoImages, ImageStates
<1> QED
  BY <1>1 DEF NewBatch, BatchRow, IsTextRow

\* A new pending batch at the end.
LEMMA RowAppended ==
    ASSUME BatchesTyped, NEW s, NEW new \in BatchRow, new.scope = s, new.status = "pending",
           new.link = 0, new.kind = "text" => new.base < lastBatch + 1,
           new.kind = "image" => new.texts = {},
           lastBatch < setup.batches, setup.batches \in Nat, lastBatch' = lastBatch + 1,
           batch' = Append(batch, new)
    PROVE  /\ RowsGo(s) /\ Batches' = Batches \cup {lastBatch + 1} /\ lastBatch + 1 \notin Batches
           /\ batch'[lastBatch + 1] = new /\ \A b \in Batches : batch'[b] = batch[b]
<1>1. /\ lastBatch = Len(batch) /\ Batches = 1..lastBatch /\ lastBatch \in Nat
      /\ \A b \in Batches : batch[b].link \in 0..lastBatch
      /\ batch \in Seq(BatchRow)
  BY BatchTypes DEF BatchesTyped
<1>2. /\ batch' \in Seq(BatchRow) /\ Len(batch') = lastBatch + 1
      /\ batch'[lastBatch + 1] = new /\ \A b \in Batches : batch'[b] = batch[b]
  BY <1>1
<1>3. Batches' = Batches \cup {lastBatch + 1} /\ lastBatch + 1 \notin Batches
  BY <1>1 DEF Batches
<1>4. \A b \in Batches : batch[b].link \in 0..lastBatch'
  BY <1>1
<1>5. \A b \in Batches' : b \notin Batches => b = lastBatch + 1 /\ batch'[b] = new
  BY <1>2, <1>3
<1>6. lastBatch <= lastBatch' /\ lastBatch' <= setup.batches
  BY <1>1
<1>7. ASSUME NEW b \in Batches, batch[b].status = "confirmed", batch[b].link # 0
      PROVE  batch'[b].link = batch[b].link
  BY <1>2
<1> QED
  BY <1>2, <1>3, <1>4, <1>5, <1>6, <1>7 DEF RowsGo

LEMMA SameRows ==
    ASSUME BatchesTyped, UNCHANGED <<batch, lastBatch, setup>>, NEW s
    PROVE  RowsGo(s) /\ Batches' = Batches /\ \A kind : KindKept(s, kind)
<1>1. /\ lastBatch = Len(batch) /\ lastBatch \in Nat /\ lastBatch <= setup.batches
      /\ \A b \in Batches : batch[b].link \in 0..lastBatch
      /\ batch \in Seq(BatchRow) /\ Batches' = Batches
  BY BatchTypes DEF BatchesTyped, Batches
<1>2. RowsGo(s)
  BY <1>1 DEF RowsGo
<1>3. \A kind : KindKept(s, kind)
  BY <1>1 DEF KindKept, OfKind
<1> QED
  BY <1>1, <1>2, <1>3

LEMMA ReadTextKeeps ==
    ASSUME GrantsInv, BatchesInv, setup \in Setups, NEW g,
           NEW by \in Identities \cup {"tunnel"}, ReadText(g, by)
    PROVE  BatchesInv'
<1>1. PICK s : s = ScopeFor(g, by)
  OBVIOUS
<1>2. /\ Called(g, by) /\ PendingOf(s, "text") = {} /\ UNCHANGED <<content, horizon>>
      /\ \E row \in Bootstrapped(s) :
            /\ sync' = SyncWith(s, row)
            /\ IF Page(s, row) = {} /\ row.textV # 0
               THEN UNCHANGED <<batch, lastBatch>>
               ELSE /\ lastBatch < setup.batches
                    /\ lastBatch' = lastBatch + 1
                    /\ batch' = Append(batch, [NewBatch(s, "text", row.textV) EXCEPT
                                                   !.texts = Page(s, row)])
  BY <1>1 DEF ReadText
<1>3. PICK row \in Bootstrapped(s) :
            /\ sync' = SyncWith(s, row)
            /\ \/ row.textV # 0 /\ UNCHANGED <<batch, lastBatch>>
               \/ /\ lastBatch < setup.batches
                  /\ lastBatch' = lastBatch + 1
                  /\ batch' = Append(batch, [NewBatch(s, "text", row.textV) EXCEPT
                                                 !.texts = Page(s, row)])
  BY <1>2
<1>4. /\ s \in Scope /\ (s.horizon # 0 => s.horizon \in Granted)
      /\ UNCHANGED <<lastGrant, setup>> /\ ScopeFits(s)
      /\ ContentTyped /\ StatesTyped /\ BatchesTyped
  BY <1>1, <1>2, CalledScope
<1>5. StateOf(s) \in StateRow /\ lastMsg \in Nat /\ lastBatch \in Nat /\ StateOf(s).textV \in Nat
  BY <1>4, StateTypes
<1>6. /\ row = StateOf(s) \/ (StateOf(s).textV = 0 /\ \E m \in Texts(s) : TakenOver(row, StateOf(s), m))
  BY <1>3, <1>4, <1>5, BootstrapIs
<1>7. row \in StateRow
  <2>1. ASSUME NEW old \in StateRow, NEW m \in Nat
        PROVE  [old EXCEPT !.summary = TRUE, !.mark = m, !.sumMark = m] \in StateRow
    BY DEF StateRow
  <2>2. \A m \in Texts(s) : m \in Nat
    BY <1>5, TextsAre
  <2> QED
    BY <1>3, <1>5, <2>1, <2>2 DEF Bootstrapped
<1>8. StateFits(s, row)
  BY <1>4, <1>5, <1>6, <1>7, StateStays, TakenOverFits
<1>9. row.textV = StateOf(s).textV /\ row.imageV = StateOf(s).imageV /\ row.acked = StateOf(s).acked
  BY <1>6 DEF TakenOver
<1>10. row = StateOf(s) \/ (OfKind(s, "text") = {} /\ row.textV = 0)
  BY <1>2, <1>4, <1>6, <1>9, NoTextYet DEF ScopeFits, TextSide
<1>11. OneState(s, row) /\ StateOf(s)' = row
  BY <1>3, SyncWithIs
<1>12. setup.batches \in Nat
  BY SyncSizes
<1>13. CASE row.textV # 0 /\ UNCHANGED <<batch, lastBatch>>
  <2>1. RowsGo(s) /\ \A kind : KindKept(s, kind)
    BY <1>4, <1>13, SameRows
  <2>2. BatchesTyped'
    BY <1>2, <1>4, <1>8, <1>11, <2>1, WorkedTyped DEF BatchesInv
  <2>3. TextSide(s)'
    BY <1>2, <1>4, <1>10, <1>11, <1>13, <2>1, <2>2, TextSideKept DEF ScopeFits
  <2>4. BasesFit(s, "image")'
    BY <1>4, <1>9, <1>11, <2>1, BasesKept DEF ScopeFits, Value
  <2>5. SeenFit(s)'
    BY <1>4, <1>9, <1>11, <2>1, SeenKept DEF ScopeFits
  <2> QED
    BY <1>2, <1>4, <1>8, <1>11, <2>1, <2>3, <2>4, <2>5, WorkedKeeps
<1>14. CASE /\ lastBatch < setup.batches
            /\ lastBatch' = lastBatch + 1
            /\ batch' = Append(batch, [NewBatch(s, "text", row.textV) EXCEPT !.texts = Page(s, row)])
  <2>1. /\ row.mark \in Nat /\ row.textV \in Nat /\ row.textV <= lastBatch
        /\ row.textV = 0 /\ ~row.summary => row.mark = 0
    BY <1>7, <1>8 DEF StateFits, StateRow
  <2>2. Page(s, row) \in SUBSET MessageIds
    BY <1>5, <2>1, PageIs, TextsAre
  <2>3. PICK new : new = [NewBatch(s, "text", row.textV) EXCEPT !.texts = Page(s, row)]
    OBVIOUS
  <2>4. /\ new \in BatchRow /\ new.scope = s /\ new.kind = "text" /\ new.status = "pending"
        /\ new.base = row.textV /\ new.texts = Page(s, row) /\ new.link = 0
    <3>1. s \in Scope /\ row.textV \in Nat
      BY <1>4, <2>1
    <3> QED
      BY <2>2, <2>3, <3>1, TextRow DEF IsTextRow
  <2>5. new.base < lastBatch + 1
    BY <1>5, <2>1, <2>4
  <2>6. /\ RowsGo(s) /\ Batches' = Batches \cup {lastBatch + 1} /\ lastBatch + 1 \notin Batches
        /\ batch'[lastBatch + 1] = new /\ \A b \in Batches : batch'[b] = batch[b]
    BY <1>4, <1>12, <1>14, <2>3, <2>4, <2>5, RowAppended, ZenonT(40)
  <2>7. /\ OfKind(s, "text")' = OfKind(s, "text") \cup {lastBatch + 1}
        /\ lastBatch + 1 \notin OfKind(s, "text")
        /\ \A b \in OfKind(s, "text") : batch'[b] = batch[b]
        /\ KindKept(s, "image")
    BY <2>4, <2>6 DEF OfKind, KindKept
  <2>8. BatchesTyped'
    BY <1>2, <1>4, <1>8, <1>11, <2>6, WorkedTyped DEF BatchesInv
  <2>9. TextSide(s)'
    <3>1. PICK n : n = lastBatch + 1
      OBVIOUS
    <3>2. /\ OfKind(s, "text")' = OfKind(s, "text") \cup {n} /\ n \notin OfKind(s, "text")
          /\ batch'[n] = new
      BY <2>6, <2>7, <3>1
    <3>3. TextSide(s)
      BY <1>4 DEF ScopeFits
    <3> QED
      BY <1>2, <1>4, <1>9, <1>10, <1>11, <2>1, <2>4, <2>7, <2>8, <3>2, <3>3, TextAdded
  <2>10. BasesFit(s, "image")'
    BY <1>4, <1>9, <1>11, <2>7, BasesKept DEF ScopeFits, Value
  <2>11. SeenFit(s)'
    BY <1>4, <1>9, <1>11, <2>6, SeenKept DEF ScopeFits
  <2> QED
    BY <1>2, <1>4, <1>8, <1>11, <2>6, <2>9, <2>10, <2>11, WorkedKeeps
<1> QED
  BY <1>3, <1>13, <1>14

-----------------------------------------------------------------------------
(* The images are offered.                                                 *)

\* The state behind a manifest differs in the version of its images alone.
AfterIs(s) ==
    /\ AfterManifest(s).textV = StateOf(s).textV /\ AfterManifest(s).mark = StateOf(s).mark
    /\ AfterManifest(s).sumMark = StateOf(s).sumMark /\ AfterManifest(s).acked = StateOf(s).acked
    /\ AfterManifest(s).imageV =
          IF Stale(s) = {} THEN StateOf(s).imageV ELSE StateOf(s).imageV + 1

LEMMA AfterFits ==
    ASSUME ContentTyped, StatesTyped, BatchesTyped, NEW s, s.horizon # 0 => s.horizon \in Granted
    PROVE  StateFits(s, AfterManifest(s)) /\ AfterIs(s)
<1>1. StateOf(s) \in StateRow /\ StateOf(s).imageV \in Nat /\ StateFits(s, StateOf(s))
  BY StateTypes, StateStays
<1>2. CASE Stale(s) = {}
  <2>1. AfterManifest(s) = StateOf(s)
    BY <1>2 DEF AfterManifest
  <2> QED
    BY <1>1, <1>2, <2>1 DEF AfterIs
<1>3. CASE Stale(s) # {}
  <2>1. PICK old \in StateRow : old = StateOf(s)
    BY <1>1
  <2>2. AfterManifest(s) = [old EXCEPT !.imageV = @ + 1]
    BY <1>3, <2>1 DEF AfterManifest
  <2>3. PICK new : new = [old EXCEPT !.imageV = @ + 1]
    OBVIOUS
  <2>4. /\ new \in StateRow /\ new.textV = old.textV /\ new.mark = old.mark
        /\ new.sumMark = old.sumMark /\ new.acked = old.acked /\ new.imageV = old.imageV + 1
        /\ new.summary = old.summary
    BY <2>3 DEF StateRow
  <2> QED
    BY <1>1, <1>3, <2>1, <2>2, <2>3, <2>4 DEF AfterIs, StateFits
<1> QED
  BY <1>2, <1>3

\* There is one pending batch at most.
LEMMA OnePending ==
    ASSUME NEW s, BasesFit(s, "image"), NEW a \in PendingOf(s, "image"),
           NEW b \in PendingOf(s, "image")
    PROVE  a = b
BY DEF PendingOf, BasesFit, OfKind

LEMMA StaleIs ==
    ASSUME NEW s, NEW b \in Stale(s)
    PROVE  /\ b \in Batches /\ batch[b].scope = s /\ batch[b].kind = "image"
           /\ batch[b].status = "pending" /\ b \in PendingOf(s, "image")
BY DEF Stale, PendingOf

LEMMA OfferedIs ==
    ASSUME BatchesTyped, NEW s
    PROVE  /\ Offered(s) \in 0..lastBatch + 1
           /\ Offered(s) = lastBatch + 1 => PendingOf(s, "image") \ Stale(s) = {}
<1>1. lastBatch \in Nat /\ PendingOf(s, "image") \in SUBSET (0..lastBatch)
  BY BatchTypes DEF PendingOf, Batches
<1>2. CASE PendingOf(s, "image") \ Stale(s) # {}
  <2>1. Offered(s) = Max(PendingOf(s, "image")) /\ PendingOf(s, "image") # {}
    BY <1>2 DEF Offered
  <2>2. Max(PendingOf(s, "image")) \in PendingOf(s, "image")
    BY <1>1, <2>1, Largest
  <2> QED
    BY <1>1, <2>1, <2>2
<1>3. CASE PendingOf(s, "image") \ Stale(s) = {}
  <2>1. Offered(s) \in {lastBatch + 1, 0}
    BY <1>3 DEF Offered
  <2> QED
    BY <1>1, <1>3, <2>1
<1> QED
  BY <1>2, <1>3

\* What a manifest leaves of a row that was there, and the row it adds.
Offers(new, b, s) ==
    /\ new \in BatchRow
    /\ new.scope = batch[b].scope /\ new.kind = batch[b].kind /\ new.base = batch[b].base
    /\ new.texts = batch[b].texts /\ new.images = batch[b].images /\ new.read = batch[b].read
    /\ new.status = IF b \in Stale(s) THEN "superseded" ELSE batch[b].status
    /\ new.link = batch[b].link \/ (batch[b].kind = "text" /\ batch[b].status = "pending")

ImageRow(new, s) ==
    /\ new \in BatchRow /\ new.scope = s /\ new.kind = "image" /\ new.status = "pending"
    /\ new.base = AfterManifest(s).imageV /\ new.texts = {} /\ new.link = 0

ManifestRows(s, rows) ==
    /\ rows \in Seq(BatchRow)
    /\ Len(rows) = IF Offered(s) = lastBatch + 1 THEN lastBatch + 1 ELSE lastBatch
    /\ \A b \in Batches : Offers(rows[b], b, s) /\ rows[b].link \in 0..Len(rows)
    /\ Offered(s) = lastBatch + 1 => ImageRow(rows[lastBatch + 1], s)

LEMMA SupersededRow ==
    ASSUME NEW row \in BatchRow, NEW new, new = [row EXCEPT !.status = "superseded"]
    PROVE  /\ new \in BatchRow /\ new.scope = row.scope /\ new.kind = row.kind
           /\ new.base = row.base /\ new.texts = row.texts /\ new.images = row.images
           /\ new.read = row.read /\ new.status = "superseded" /\ new.link = row.link
BY DEF BatchRow

LEMMA SupersededIs ==
    ASSUME BatchesTyped, NEW s
    PROVE  /\ Superseded(s) \in Seq(BatchRow) /\ Len(Superseded(s)) = lastBatch
           /\ \A b \in Batches : /\ Offers(Superseded(s)[b], b, s)
                                 /\ Superseded(s)[b].link = batch[b].link
<1>1. /\ lastBatch \in Nat /\ Batches = 1..lastBatch
      /\ \A b \in Batches : batch[b] \in BatchRow
  BY BatchTypes
<1>2. PICK rows : rows = Superseded(s)
  OBVIOUS
<1>3. /\ DOMAIN rows = Batches /\ rows = [b \in Batches |-> rows[b]]
      /\ \A b \in Batches : rows[b] = IF b \in Stale(s)
                                      THEN [batch[b] EXCEPT !.status = "superseded"]
                                      ELSE batch[b]
  BY <1>2 DEF Superseded
<1>4. ASSUME NEW b \in Batches PROVE Offers(rows[b], b, s) /\ rows[b].link = batch[b].link
  <2>1. CASE b \in Stale(s)
    <3>1. rows[b] = [batch[b] EXCEPT !.status = "superseded"]
      BY <1>3, <2>1
    <3> QED
      BY <1>1, <2>1, <3>1, SupersededRow DEF Offers
  <2>2. CASE b \notin Stale(s)
    BY <1>1, <1>3, <2>2 DEF Offers
  <2> QED
    BY <2>1, <2>2
<1>5. rows \in Seq(BatchRow) /\ Len(rows) = lastBatch
  <2>1. \A b \in Batches : rows[b] \in BatchRow
    BY <1>4 DEF Offers
  <2> QED
    BY <1>1, <1>3, <2>1
<1> QED
  BY <1>2, <1>4, <1>5

LEMMA RowsAfterFit ==
    ASSUME ContentTyped, BatchesTyped, NEW s \in Scope, AfterManifest(s).imageV \in Nat
    PROVE  ManifestRows(s, RowsAfter(s))
<1>1. /\ lastBatch \in Nat /\ Batches = 1..lastBatch
      /\ \A b \in Batches : batch[b].link \in 0..lastBatch
  BY BatchTypes DEF BatchesTyped
<1>2. PICK old : old = Superseded(s)
  OBVIOUS
<1>3. /\ old \in Seq(BatchRow) /\ Len(old) = lastBatch
      /\ \A b \in Batches : Offers(old[b], b, s) /\ old[b].link = batch[b].link
  BY <1>2, SupersededIs
<1>4. CASE Offered(s) = lastBatch + 1
  <2> DEFINE images == [i \in Images |-> IF i \in Changed(s) THEN image[i] ELSE "none"]
  <2>1. PICK new : new = [NewBatch(s, "image", AfterManifest(s).imageV) EXCEPT !.images = images]
    OBVIOUS
  <2>2. images \in [Images -> ImageStates]
    BY DEF ContentTyped, ImageStates
  <2>3. RowsAfter(s) = Append(old, new)
    BY <1>2, <1>4, <2>1 DEF RowsAfter
  <2> HIDE DEF images
  <2>4. ImageRow(new, s)
    BY <2>1, <2>2 DEF NewBatch, BatchRow, ImageRow
  <2>5. PICK rows : rows = Append(old, new)
    OBVIOUS
  <2>6. new \in BatchRow
    BY <2>4 DEF ImageRow
  <2>7. /\ rows \in Seq(BatchRow) /\ Len(rows) = lastBatch + 1 /\ rows[lastBatch + 1] = new
        /\ \A b \in Batches : rows[b] = old[b]
    BY <1>1, <1>3, <2>5, <2>6
  <2>8. \A b \in Batches : rows[b].link \in 0..lastBatch + 1
    BY <1>1, <1>3, <2>7
  <2> QED
    BY <1>3, <1>4, <2>3, <2>4, <2>5, <2>7, <2>8 DEF ManifestRows
<1>5. CASE Offered(s) # lastBatch + 1
  <2>1. RowsAfter(s) = old
    BY <1>2, <1>5 DEF RowsAfter
  <2> QED
    BY <1>1, <1>3, <1>5, <2>1 DEF ManifestRows
<1> QED
  BY <1>4, <1>5

LEMMA LinkedRow ==
    ASSUME NEW row \in BatchRow, NEW l \in Nat, NEW new, new = [row EXCEPT !.link = l]
    PROVE  /\ new \in BatchRow /\ new.scope = row.scope /\ new.kind = row.kind
           /\ new.base = row.base /\ new.texts = row.texts /\ new.images = row.images
           /\ new.read = row.read /\ new.status = row.status /\ new.link = l
BY DEF BatchRow

\* The link of a pending text batch.
LEMMA TimelineRowsFit ==
    ASSUME BatchesTyped, NEW s, NEW rows, ManifestRows(s, rows), PendingOf(s, "text") # {},
           Offered(s) # 0
    PROVE  ManifestRows(s, [rows EXCEPT ![Max(PendingOf(s, "text"))].link = Offered(s)])
<1>1. lastBatch \in Nat /\ Batches = 1..lastBatch
  BY BatchTypes
<1>2. PICK t : t = Max(PendingOf(s, "text"))
  OBVIOUS
<1>3. t \in PendingOf(s, "text")
  <2>1. PendingOf(s, "text") \in SUBSET (0..lastBatch)
    BY <1>1 DEF PendingOf
  <2> QED
    BY <1>1, <1>2, <2>1, Largest
<1>4. t \in Batches /\ batch[t].kind = "text" /\ batch[t].status = "pending"
  BY <1>3 DEF PendingOf
<1>5. PICK l : l = Offered(s)
  OBVIOUS
<1>6. /\ rows \in Seq(BatchRow) /\ Len(rows) \in Nat /\ lastBatch <= Len(rows)
      /\ Len(rows) = IF Offered(s) = lastBatch + 1 THEN lastBatch + 1 ELSE lastBatch
      /\ \A b \in Batches : Offers(rows[b], b, s) /\ rows[b].link \in 0..Len(rows)
      /\ Offered(s) = lastBatch + 1 => ImageRow(rows[lastBatch + 1], s)
  BY <1>1 DEF ManifestRows
<1>7. l \in 0..Len(rows) /\ l \in Nat
  BY <1>1, <1>5, <1>6, OfferedIs
<1>8. PICK new : new = [rows[t] EXCEPT !.link = l]
  OBVIOUS
<1>9. rows[t] \in BatchRow
  BY <1>4, <1>6 DEF Offers
<1>10. Offers(new, t, s) /\ new.link = l /\ new \in BatchRow
  BY <1>4, <1>6, <1>7, <1>8, <1>9, LinkedRow DEF Offers
<1>11. PICK linked : linked = [rows EXCEPT ![Max(PendingOf(s, "text"))].link = Offered(s)]
  OBVIOUS
<1>12. linked = [rows EXCEPT ![t] = new]
  BY <1>2, <1>5, <1>8, <1>11
<1>13. t \in 1..Len(rows)
  BY <1>1, <1>4, <1>6
<1>14. /\ linked \in Seq(BatchRow) /\ Len(linked) = Len(rows) /\ linked[t] = new
       /\ \A b \in 1..Len(rows) : b # t => linked[b] = rows[b]
  BY <1>6, <1>10, <1>12, <1>13
<1>15. \A b \in Batches : Offers(linked[b], b, s) /\ linked[b].link \in 0..Len(rows)
  <2>1. ASSUME NEW b \in Batches
        PROVE  Offers(linked[b], b, s) /\ linked[b].link \in 0..Len(rows)
    <3>1. CASE b = t
      BY <1>7, <1>10, <1>14, <3>1
    <3>2. CASE b # t
      <4>1. b \in 1..Len(rows)
        BY <1>1, <1>6
      <4> QED
        BY <1>6, <1>14, <3>2, <4>1
    <3> QED
      BY <3>1, <3>2
  <2> QED
    BY <2>1
<1>16. Offered(s) = lastBatch + 1 => linked[lastBatch + 1] = rows[lastBatch + 1]
  BY <1>1, <1>4, <1>6, <1>14
<1> QED
  BY <1>6, <1>11, <1>14, <1>15, <1>16 DEF ManifestRows

LEMMA ManifestKeeps ==
    ASSUME GrantsInv, BatchesInv, NEW g, NEW by \in Identities \cup {"tunnel"}, NEW rows,
           NEW s, s = ScopeFor(g, by), ManifestRows(s, rows), ManifestRead(g, by, rows)
    PROVE  BatchesInv'
<1>1. /\ Called(g, by) /\ Len(rows) <= setup.batches /\ sync' = SyncWith(s, AfterManifest(s))
      /\ batch' = rows /\ lastBatch' = Len(rows) /\ UNCHANGED <<content, horizon>>
  BY DEF ManifestRead
<1>2. /\ s \in Scope /\ (s.horizon # 0 => s.horizon \in Granted)
      /\ UNCHANGED <<lastGrant, setup>> /\ ScopeFits(s)
      /\ ContentTyped /\ StatesTyped /\ BatchesTyped
  BY <1>1, CalledScope
<1>3. StateFits(s, AfterManifest(s)) /\ AfterIs(s)
  BY <1>2, AfterFits
<1>4. OneState(s, AfterManifest(s)) /\ StateOf(s)' = AfterManifest(s)
  BY <1>1, SyncWithIs
<1>5. /\ lastBatch \in Nat /\ Batches = 1..lastBatch /\ StateOf(s).imageV \in Nat
      /\ \A b \in Batches : /\ batch[b].link \in 0..lastBatch /\ batch[b].base \in Nat
                            /\ batch[b].kind = "image" => batch[b].link = 0
                            /\ batch[b].kind \in {"text", "image"}
  BY <1>2, BatchTypes, StateTypes DEF BatchesTyped
<1>6. /\ batch' \in Seq(BatchRow)
      /\ lastBatch' = IF Offered(s) = lastBatch + 1 THEN lastBatch + 1 ELSE lastBatch
      /\ \A b \in Batches : Offers(batch'[b], b, s) /\ batch'[b].link \in 0..lastBatch'
      /\ Offered(s) = lastBatch + 1 => ImageRow(batch'[lastBatch + 1], s)
  BY <1>1 DEF ManifestRows
<1>7. /\ lastBatch \in Nat /\ lastBatch' \in Nat /\ lastBatch <= lastBatch' /\ Batches \subseteq Batches'
      /\ \A b \in Batches' : b \notin Batches => b = lastBatch + 1 /\ ImageRow(batch'[b], s)
      /\ lastBatch + 1 \notin Batches
  BY <1>5, <1>6 DEF Batches
<1>8. ASSUME NEW b \in Batches
      PROVE  /\ batch'[b].scope = batch[b].scope /\ batch'[b].kind = batch[b].kind
             /\ batch'[b].base = batch[b].base /\ batch'[b].texts = batch[b].texts
             /\ batch'[b].images = batch[b].images /\ batch'[b].read = batch[b].read
             /\ b \in Stale(s) => batch'[b].status = "superseded"
             /\ b \notin Stale(s) => batch'[b].status = batch[b].status
             /\ batch'[b].link = batch[b].link
                   \/ (batch[b].kind = "text" /\ batch[b].status = "pending")
  BY <1>6 DEF Offers
<1>9. RowsGo(s)
  <2>1. ASSUME NEW b \in Batches
        PROVE  /\ batch[b].scope # s => batch'[b].status = batch[b].status
               /\ batch'[b].status = "superseded" /\ batch[b].kind = "text" =>
                      batch[b].status = "superseded"
               /\ batch[b].kind = "image" => batch'[b].link = batch[b].link
               /\ batch'[b].status = "confirmed" /\ batch'[b].link # 0 =>
                     /\ batch'[b].link = batch[b].link
                     /\ batch[b].status = "confirmed" \/ AllRead(batch[b].link)
    <3>1. CASE b \in Stale(s)
      BY <1>8, <3>1, StaleIs
    <3>2. CASE b \notin Stale(s)
      BY <1>8, <3>2
    <3> QED
      BY <3>1, <3>2
  <2>2. ASSUME NEW b \in Batches', b \notin Batches
        PROVE  /\ batch'[b].scope = s /\ batch'[b].status = "pending" /\ batch'[b].link = 0
               /\ batch'[b].kind = "image" /\ batch'[b].texts = {}
    BY <1>7, <2>2 DEF ImageRow
  <2>3. lastBatch' = Len(batch') /\ lastBatch' <= setup.batches
    BY <1>1
  <2> QED
    BY <1>6, <1>7, <1>8, <2>1, <2>2, <2>3 DEF RowsGo
<1>10. KindKept(s, "text")
  <2>1. OfKind(s, "text")' = OfKind(s, "text")
    BY <1>7, <1>8 DEF OfKind, ImageRow
  <2>2. \A b \in OfKind(s, "text") : b \in Batches /\ b \notin Stale(s)
    BY StaleIs DEF OfKind
  <2> QED
    BY <1>8, <2>1, <2>2 DEF KindKept
<1>11. BatchesTyped'
  BY <1>1, <1>2, <1>3, <1>4, <1>9, WorkedTyped DEF BatchesInv
<1>12. TextSide(s)'
  BY <1>1, <1>2, <1>3, <1>4, <1>10, <1>11, TextSideKept DEF ScopeFits, AfterIs
<1>13. BasesFit(s, "image")'
  <2>1. BasesFit(s, "image")
    BY <1>2 DEF ScopeFits
  <2>2. PICK v : v = AfterManifest(s).imageV
    OBVIOUS
  <2>3. Value(s, "image")' = v
    BY <1>4, <2>2 DEF Value
  <2>4. v = IF Stale(s) = {} THEN StateOf(s).imageV ELSE StateOf(s).imageV + 1
    BY <1>3, <2>2 DEF AfterIs
  <2>5. ASSUME NEW b \in OfKind(s, "image")
        PROVE  /\ b \in Batches /\ batch'[b].base = batch[b].base /\ batch[b].base \in Nat
               /\ batch[b].base <= v
               /\ batch[b].base = v <=> batch'[b].status = "pending"
               /\ batch[b].base = v => b \in PendingOf(s, "image") \ Stale(s)
    <3>1. b \in Batches /\ batch[b].base \in Nat /\ batch[b].scope = s /\ batch[b].kind = "image"
      BY <1>5 DEF OfKind
    <3>2. batch[b].base <= StateOf(s).imageV
          /\ (batch[b].base = StateOf(s).imageV <=> batch[b].status = "pending")
      BY <2>1 DEF BasesFit, Value
    <3>3. CASE Stale(s) = {}
      BY <1>8, <2>4, <3>1, <3>2, <3>3 DEF PendingOf
    <3>4. CASE Stale(s) # {}
      <4>1. batch'[b].status # "pending"
        <5>1. CASE b \in Stale(s)
          BY <1>8, <3>1, <5>1
        <5>2. CASE b \notin Stale(s)
          <6>1. batch[b].status # "pending"
            BY <2>1, <3>1, <3>4, <5>2, OnePending, StaleIs DEF PendingOf
          <6> QED
            BY <1>8, <3>1, <5>2, <6>1
        <5> QED
          BY <5>1, <5>2
      <4>2. batch[b].base <= v /\ batch[b].base # v
        BY <1>5, <2>4, <3>1, <3>2, <3>4
      <4> QED
        BY <1>8, <3>1, <4>1, <4>2
    <3> QED
      BY <3>3, <3>4
  <2>6. ASSUME NEW b \in OfKind(s, "image")', b \notin OfKind(s, "image")
        PROVE  /\ batch'[b].base = v /\ batch'[b].status = "pending" /\ b = lastBatch + 1
               /\ PendingOf(s, "image") \ Stale(s) = {}
    <3>1. b \in Batches' /\ b \notin Batches
      BY <1>8, <2>6 DEF OfKind
    <3>2. b = lastBatch + 1 /\ ImageRow(batch'[b], s) /\ Offered(s) = lastBatch + 1
      BY <1>5, <1>6, <1>7, <3>1 DEF Batches
    <3> QED
      BY <1>2, <2>2, <3>2, OfferedIs DEF ImageRow
  <2>7. \A b \in OfKind(s, "image")' : b \in OfKind(s, "image") \/ b = lastBatch + 1
    BY <2>6
  <2>8. v \in Nat
    BY <1>5, <2>4
  <2>9. ASSUME NEW b \in OfKind(s, "image")', NEW a \in OfKind(s, "image")', a # b
        PROVE  batch'[a].base # batch'[b].base
    <3>1. CASE a \in OfKind(s, "image") /\ b \in OfKind(s, "image")
      BY <2>1, <2>5, <2>9, <3>1 DEF BasesFit
    <3>2. CASE a \notin OfKind(s, "image") /\ b \in OfKind(s, "image")
      BY <2>5, <2>6, <3>2
    <3>3. CASE b \notin OfKind(s, "image") /\ a \in OfKind(s, "image")
      BY <2>5, <2>6, <3>3
    <3> QED
      BY <2>6, <2>9, <3>1, <3>2, <3>3
  <2>10. ASSUME NEW b \in OfKind(s, "image")'
         PROVE  batch'[b].base <= v /\ (batch'[b].base = v <=> batch'[b].status = "pending")
    <3>1. CASE b \in OfKind(s, "image")
      BY <2>5, <3>1
    <3>2. CASE b \notin OfKind(s, "image")
      BY <2>6, <2>8, <3>2
    <3> QED
      BY <3>1, <3>2
  <2> QED
    BY <2>3, <2>9, <2>10 DEF BasesFit
<1>14. SeenFit(s)'
  BY <1>2, <1>3, <1>4, <1>9, SeenKept DEF ScopeFits, AfterIs
<1> QED
  BY <1>1, <1>2, <1>3, <1>4, <1>9, <1>12, <1>13, <1>14, WorkedKeeps

LEMMA ReadManifestKeeps ==
    ASSUME GrantsInv, BatchesInv, NEW g, NEW by \in Identities \cup {"tunnel"},
           ReadManifest(g, by)
    PROVE  BatchesInv'
<1>1. PICK s : s = ScopeFor(g, by)
  OBVIOUS
<1>2. ManifestRead(g, by, RowsAfter(s))
  BY <1>1 DEF ReadManifest
<1>3. Called(g, by)
  BY <1>2 DEF ManifestRead
<1>4. /\ s \in Scope /\ (s.horizon # 0 => s.horizon \in Granted)
      /\ ContentTyped /\ StatesTyped /\ BatchesTyped
  BY <1>1, <1>3, CalledScope
<1>5. AfterManifest(s).imageV \in Nat
  BY <1>4, AfterFits DEF StateFits, StateRow
<1>6. ManifestRows(s, RowsAfter(s))
  BY <1>4, <1>5, RowsAfterFit
<1> QED
  BY <1>1, <1>2, <1>6, ManifestKeeps

LEMMA ReadTimelineKeeps ==
    ASSUME GrantsInv, BatchesInv, NEW g, NEW by \in Identities \cup {"tunnel"},
           ReadTimeline(g, by)
    PROVE  BatchesInv'
<1>1. PICK s : s = ScopeFor(g, by)
  OBVIOUS
<1>2. PICK rows : rows = [RowsAfter(s) EXCEPT ![Max(PendingOf(s, "text"))].link = Offered(s)]
  OBVIOUS
<1>3. ManifestRead(g, by, rows) /\ PendingOf(s, "text") # {} /\ Offered(s) # 0
  BY <1>1, <1>2 DEF ReadTimeline
<1>4. Called(g, by)
  BY <1>3 DEF ManifestRead
<1>5. /\ s \in Scope /\ (s.horizon # 0 => s.horizon \in Granted)
      /\ ContentTyped /\ StatesTyped /\ BatchesTyped
  BY <1>1, <1>4, CalledScope
<1>6. AfterManifest(s).imageV \in Nat
  BY <1>5, AfterFits DEF StateFits, StateRow
<1>7. ManifestRows(s, RowsAfter(s))
  BY <1>5, <1>6, RowsAfterFit
<1>8. ManifestRows(s, rows)
  BY <1>2, <1>3, <1>5, <1>7, TimelineRowsFit
<1> QED
  BY <1>1, <1>3, <1>8, ManifestKeeps

-----------------------------------------------------------------------------
(* Batches are confirmed.                                                  *)

LEMMA ConfirmedRow ==
    ASSUME NEW row \in BatchRow, NEW new, new = [row EXCEPT !.status = "confirmed"]
    PROVE  Like(new, row) /\ new.status = "confirmed" /\ new.read = row.read
BY DEF BatchRow, Like

\* The batch b of the scope is confirmed.
Done(b) == batch' = [batch EXCEPT ![b].status = "confirmed"]

BatchDone(s, kind, b) ==
    /\ RowsGo(s) /\ Batches' = Batches /\ b \in OfKind(s, kind)
    /\ batch[b].status = "pending" /\ batch'[b].status = "confirmed"
    /\ \A a \in Batches : Like(batch'[a], batch[a])
    /\ \A a \in Batches : a # b => batch'[a] = batch[a]
    /\ \A k : OfKind(s, k)' = OfKind(s, k)

LEMMA ConfirmedRows ==
    ASSUME BatchesTyped, UNCHANGED <<lastBatch, setup>>, NEW s, NEW kind, NEW b \in PendingOf(s, kind),
           batch[b].link # 0 => AllRead(batch[b].link), Done(b)
    PROVE  BatchDone(s, kind, b)
<1>1. /\ b \in Batches /\ batch[b].scope = s /\ batch[b].kind = kind /\ batch[b].status = "pending"
      /\ \A a \in Batches : batch[a] \in BatchRow
      /\ DOMAIN batch = Batches
  BY BatchTypes DEF PendingOf
<1>2. PICK new : new = [batch[b] EXCEPT !.status = "confirmed"]
  OBVIOUS
<1>3. Like(new, batch[b]) /\ new.status = "confirmed"
  BY <1>1, <1>2, ConfirmedRow
<1>4. batch' = [batch EXCEPT ![b] = new]
  BY <1>2 DEF Done
<1>5. /\ DOMAIN batch' = Batches /\ batch' = [a \in Batches |-> batch'[a]]
      /\ batch'[b] = new /\ \A a \in Batches : a # b => batch'[a] = batch[a]
  BY <1>1, <1>4
<1>6. \A a \in Batches : Like(batch[a], batch[a])
  BY <1>1 DEF Like
<1>7. \A a \in Batches : Like(batch'[a], batch[a])
  BY <1>3, <1>5, <1>6
<1>8. ASSUME NEW a \in Batches, batch'[a].status # batch[a].status
      PROVE  /\ batch[a].scope = s
             /\ batch[a].kind = "text" => batch'[a].status # "superseded"
             /\ batch'[a].status = "confirmed" /\ batch[a].link # 0 => AllRead(batch[a].link)
  <2>1. a = b
    BY <1>5, <1>8
  <2>2. batch'[a].status = "confirmed"
    BY <1>3, <1>5, <2>1
  <2> QED
    BY <1>1, <2>1, <2>2
<1>9. RowsGo(s) /\ Batches' = Batches
  BY <1>5, <1>7, <1>8, RowsLike
<1>10. \A k : OfKind(s, k)' = OfKind(s, k)
  BY <1>7, <1>9 DEF OfKind, Like
<1>11. b \in OfKind(s, kind)
  BY <1>1 DEF OfKind
<1> QED
  BY <1>1, <1>3, <1>5, <1>7, <1>9, <1>10, <1>11 DEF BatchDone

\* A version is confirmed: the state goes to the next one.
LEMMA VersionDone ==
    ASSUME BatchesTyped, NEW s, NEW kind, BasesFit(s, kind), NEW b \in OfKind(s, kind),
           Value(s, kind) \in Nat, Value(s, kind)' = Value(s, kind) + 1,
           batch[b].status = "pending", batch'[b].status = "confirmed",
           OfKind(s, kind)' = OfKind(s, kind),
           \A a \in OfKind(s, kind) : batch'[a].base = batch[a].base,
           \A a \in OfKind(s, kind) : a # b => batch'[a].status = batch[a].status
    PROVE  /\ BasesFit(s, kind)'
           /\ \A a \in OfKind(s, kind) : a # b =>
                 batch[a].status # "pending" /\ batch[a].base < Value(s, kind)
<1>1. PICK v \in Nat : v = Value(s, kind)
  OBVIOUS
<1>2. ASSUME NEW a \in OfKind(s, kind)
      PROVE  /\ batch[a].base \in Nat /\ batch[a].base <= v
             /\ batch[a].base = v <=> batch[a].status = "pending"
  BY <1>1, BatchTypes DEF BasesFit, OfKind
<1>3. batch[b].base = v
  BY <1>2
<1>4. ASSUME NEW a \in OfKind(s, kind), a # b
      PROVE  batch[a].base # v
  BY <1>3, <1>4 DEF BasesFit
<1>5. ASSUME NEW a \in OfKind(s, kind), a # b
      PROVE  batch[a].status # "pending" /\ batch[a].base < v
  BY <1>2, <1>4, <1>5
<1>6. ASSUME NEW a \in OfKind(s, kind)
      PROVE  /\ batch'[a].base <= v + 1 /\ batch'[a].base # v + 1
             /\ batch'[a].status # "pending"
  <2>1. batch'[a].status # "pending"
    BY <1>5
  <2>2. batch[a].base <= v + 1 /\ batch[a].base # v + 1
    BY <1>2
  <2> QED
    BY <2>1, <2>2
<1>7. Value(s, kind)' = v + 1
  BY <1>1
<1>8. ASSUME NEW x \in OfKind(s, kind), NEW a \in OfKind(s, kind), a # x
      PROVE  batch'[a].base # batch'[x].base
  BY <1>8 DEF BasesFit
<1>9. BasesFit(s, kind)'
  BY <1>6, <1>7, <1>8 DEF BasesFit
<1> QED
  BY <1>1, <1>5, <1>9

\* The texts of a confirmed batch follow those that were confirmed.
LEMMA TextDone ==
    ASSUME ContentTyped, StatesTyped, BatchesTyped, BatchesTyped', UNCHANGED <<content, horizon>>,
           NEW s, TextSide(s), BasesFit(s, "text")', NEW b \in OfKind(s, "text"),
           batch[b].status = "pending", batch'[b].status = "confirmed",
           OfKind(s, "text")' = OfKind(s, "text"),
           \A a \in OfKind(s, "text") : batch'[a].texts = batch[a].texts,
           \A a \in OfKind(s, "text") : a # b =>
              /\ batch'[a].status = batch[a].status /\ batch[a].status # "pending"
              /\ batch[a].base < StateOf(s).textV,
           NEW mark \in Nat, StateOf(s).mark <= mark, mark \in batch[b].texts \cup {StateOf(s).mark},
           \A m \in batch[b].texts : m <= mark,
           StateOf(s)'.mark = mark,
           \/ StateOf(s)'.sumMark = mark
           \/ StateOf(s)'.sumMark = StateOf(s).sumMark /\ Fits(s, b)
    PROVE  TextSide(s)'
<1>1. /\ Texts(s)' = Texts(s) /\ TextsFit(s) /\ DoneFit(s)
      /\ \A m \in Texts(s) : m \in Nat /\ IsFiniteSet(Texts(s))
  BY TextsSame, TextsAre, FS_Subset DEF TextSide, ContentTyped
<1>2. PICK old \in Nat : old = StateOf(s).mark
  BY StateTypes
<1>3. PICK texts : texts = batch[b].texts
  OBVIOUS
<1>4. /\ old <= mark /\ mark \in texts \cup {old} /\ texts \subseteq Texts(s)
      /\ \A m \in texts : m <= mark /\ old < m
  BY <1>1, <1>2, <1>3 DEF TextsFit
<1>5. \A x \in texts : \A m \in Texts(s) :
          m <= x /\ \/ \E y \in texts : y <= m
                    \/ StateOf(s).textV # 0 /\ old < m
          => m \in texts
  BY <1>1, <1>2, <1>3 DEF TextsFit
<1>6. ASSUME NEW a \in OfKind(s, "text"), a # b
      PROVE  /\ batch[a].texts \subseteq Texts(s) /\ \A m \in batch[a].texts : m <= old
             /\ StateOf(s).textV # 0
  <2>1. batch[a].texts \subseteq Texts(s) /\ \A m \in batch[a].texts : ~(old < m)
    BY <1>1, <1>2, <1>6 DEF TextsFit
  <2>2. \A m \in batch[a].texts : m \in Nat
    BY <1>1, <2>1
  <2>3. batch[a].base \in Nat /\ StateOf(s).textV \in Nat /\ batch[a].base < StateOf(s).textV
    BY <1>6, BatchTypes, StateTypes DEF OfKind
  <2>4. StateOf(s).textV # 0
    BY <2>3
  <2> QED
    BY <2>1, <2>2, <2>4
<1>7. TextsFit(s)'
  <2>1. ASSUME NEW a \in OfKind(s, "text")
        PROVE  /\ batch'[a].texts \subseteq Texts(s) /\ batch'[a].status # "pending"
               /\ \A m \in batch'[a].texts : ~(mark < m)
    <3>1. CASE a = b
      <4>1. \A m \in texts : m \in Nat /\ m <= mark
        BY <1>1, <1>4
      <4>2. \A m \in texts : ~(mark < m)
        BY <4>1
      <4>3. batch'[a].texts = texts /\ batch'[a].status = "confirmed"
        BY <1>3, <3>1
      <4> QED
        BY <1>4, <4>2, <4>3
    <3>2. CASE a # b
      <4>1. \A m \in batch[a].texts : m \in Nat /\ m <= old
        BY <1>1, <1>6, <3>2
      <4> QED
        BY <1>4, <1>6, <3>2, <4>1
    <3> QED
      BY <3>1, <3>2
  <2> QED
    BY <1>1, <2>1 DEF TextsFit
<1>8. /\ DoneTexts(s)' = DoneTexts(s) \cup {b} /\ b \notin DoneTexts(s)
      /\ \A a \in DoneTexts(s) : a \in OfKind(s, "text") /\ a # b
      /\ \A a \in DoneTexts(s) : batch'[a].texts = batch[a].texts
      /\ batch'[b].texts = texts
  BY <1>3 DEF DoneTexts
<1>9. DoneFit(s)'
  <2>1. ASSUME NEW a \in DoneTexts(s) PROVE batch[a].texts \cap texts = {}
    <3>1. \A m \in batch[a].texts : m \in Nat /\ m <= old
      BY <1>1, <1>6, <1>8
    <3>2. \A m \in texts : m \in Nat /\ old < m
      BY <1>1, <1>4
    <3> QED
      BY <3>1, <3>2
  <2>2. ASSUME NEW a \in DoneTexts(s)', NEW c \in DoneTexts(s)', a # c
        PROVE  batch'[a].texts \cap batch'[c].texts = {}
    <3>1. CASE a = b \/ c = b
      BY <1>8, <2>1, <2>2, <3>1
    <3>2. CASE a # b /\ c # b
      BY <1>1, <1>8, <2>2, <3>2 DEF DoneFit
    <3> QED
      BY <3>1, <3>2
  <2>3. ASSUME NEW a \in DoneTexts(s)', NEW x \in batch'[a].texts, NEW m \in Texts(s),
               x <= m, m <= mark
        PROVE  \E c \in DoneTexts(s)' : m \in batch'[c].texts
    <3>1. m \in Nat
      BY <1>1
    <3>2. CASE m <= old
      <4>1. a # b
        <5>1. SUFFICES ASSUME a = b PROVE FALSE
          OBVIOUS
        <5>2. x \in texts
          BY <1>8, <5>1
        <5>3. x \in Nat /\ old < x
          BY <1>1, <1>4, <5>2
        <5> QED
          BY <2>3, <3>1, <3>2, <5>3
      <4>2. a \in DoneTexts(s) /\ x \in batch[a].texts
        BY <1>8, <4>1
      <4>3. PICK c \in DoneTexts(s) : m \in batch[c].texts
        BY <1>1, <1>2, <2>3, <3>2, <4>2 DEF DoneFit
      <4> QED
        BY <1>8, <4>3
    <3>3. CASE old < m
      <4>1. mark \in texts
        BY <1>4, <2>3, <3>1, <3>3
      <4>2. m \in texts
        <5>1. CASE a = b
          BY <1>5, <1>8, <2>3, <4>1, <5>1
        <5>2. CASE a # b
          BY <1>5, <1>6, <1>8, <2>3, <3>3, <4>1, <5>2
        <5> QED
          BY <5>1, <5>2
      <4> QED
        BY <1>8, <4>2
    <3> QED
      BY <3>1, <3>2, <3>3
  <2> QED
    BY <1>1, <2>2, <2>3 DEF DoneFit
<1>10. Cardinality(Unsummarised(s)') <= PageSize
  <2>1. /\ Unsummarised(s) = {m \in UNION {batch[a].texts : a \in DoneTexts(s)} :
                                  m > StateOf(s).sumMark}
        /\ Unsummarised(s)' = {m \in UNION {batch'[a].texts : a \in DoneTexts(s)'} :
                                  m > StateOf(s)'.sumMark}
    BY UnsummarisedAre, UnsummarisedThen
  <2>2. UNION {batch'[a].texts : a \in DoneTexts(s)'}
            = (UNION {batch[a].texts : a \in DoneTexts(s)}) \cup texts
    <3>1. {batch'[a].texts : a \in DoneTexts(s)'}
              = {batch[a].texts : a \in DoneTexts(s)} \cup {texts}
      BY <1>8
    <3> QED
      BY <3>1
  <2>3. CASE StateOf(s)'.sumMark = mark
    <3>1. \A a \in DoneTexts(s) : \A m \in batch[a].texts : m \in Nat /\ m <= old
      BY <1>1, <1>6, <1>8
    <3>2. \A m \in texts : m \in Nat /\ m <= mark
      BY <1>1, <1>4
    <3>3. \A m \in (UNION {batch[a].texts : a \in DoneTexts(s)}) \cup texts : ~(m > mark)
      <4>1. \A m \in (UNION {batch[a].texts : a \in DoneTexts(s)}) \cup texts :
                m \in Nat /\ (m <= old \/ m <= mark)
        BY <3>1, <3>2
      <4> QED
        BY <1>4, <4>1
    <3>4. Unsummarised(s)' = {}
      BY <2>1, <2>2, <2>3, <3>3
    <3> QED
      BY <3>4, FS_EmptySet, SyncAssumption
  <2>4. CASE StateOf(s)'.sumMark = StateOf(s).sumMark /\ Fits(s, b)
    <3>1. Unsummarised(s)' \subseteq Unsummarised(s) \cup texts
      BY <2>1, <2>2, <2>4
    <3>2. Unsummarised(s) \subseteq Texts(s)
      BY <1>6, <1>8, <2>1
    <3>3. IsFiniteSet(Texts(s))
      BY TextsAre, FS_Subset DEF ContentTyped
    <3>4. IsFiniteSet(Unsummarised(s)) /\ IsFiniteSet(texts)
      BY <1>4, <3>2, <3>3, FS_Subset
    <3>5. PICK all : all = Unsummarised(s) \cup texts
      OBVIOUS
    <3>6. /\ IsFiniteSet(all)
          /\ Cardinality(all) = Cardinality(Unsummarised(s)) + Cardinality(texts)
                                   - Cardinality(Unsummarised(s) \cap texts)
      BY <3>4, <3>5, FS_Union
    <3>7. IsFiniteSet(Unsummarised(s) \cap texts)
      BY <3>4, FS_Subset
    <3>8. /\ IsFiniteSet(Unsummarised(s)')
          /\ Cardinality(Unsummarised(s)') <= Cardinality(all)
      BY <3>1, <3>5, <3>6, FS_Subset
    <3>9. /\ Cardinality(Unsummarised(s)') \in Nat /\ Cardinality(all) \in Nat
          /\ Cardinality(Unsummarised(s)) \in Nat /\ Cardinality(texts) \in Nat
          /\ Cardinality(Unsummarised(s) \cap texts) \in Nat
      BY <3>4, <3>6, <3>7, <3>8, FS_CardinalityType
    <3>10. Cardinality(Unsummarised(s)) + Cardinality(texts) <= PageSize
      BY <1>3, <2>4 DEF Fits
    <3>11. PageSize \in Nat
      BY SyncAssumption
    <3> QED
      BY <3>6, <3>8, <3>9, <3>10, <3>11
  <2> QED
    BY <2>3, <2>4
<1> QED
  BY <1>7, <1>9, <1>10 DEF TextSide

LEMMA MarkIs ==
    ASSUME NEW n \in Nat, NEW texts \in SUBSET (0..n), NEW old \in 0..n
    PROVE  LET mark == Max(texts \cup {old})
           IN  mark \in texts \cup {old} /\ old <= mark /\ mark \in 0..n /\ \A m \in texts : m <= mark
<1>1. PICK all : all = texts \cup {old}
  OBVIOUS
<1>2. all \in SUBSET (0..n) /\ all # {}
  BY <1>1
<1>3. Max(all) \in all /\ \A k \in all : k <= Max(all)
  BY <1>2, Largest
<1> QED
  BY <1>1, <1>2, <1>3

LEMMA ConfirmTextKeeps ==
    ASSUME GrantsInv, BatchesInv, NEW g, NEW by \in Identities \cup {"tunnel"},
           NEW b, NEW summed \in BOOLEAN, ConfirmText(g, by, b, summed)
    PROVE  BatchesInv'
<1>1. PICK s : s = ScopeFor(g, by)
  OBVIOUS
<1>2. PICK row : row = StateOf(s)
  OBVIOUS
<1>3. PICK mark : mark = Max(batch[b].texts \cup {row.mark})
  OBVIOUS
<1>4. PICK new : new = [row EXCEPT !.textV = batch[b].base + 1, !.mark = mark,
                                   !.sumMark = IF summed THEN mark ELSE row.sumMark,
                                   !.summary = summed \/ row.summary]
  OBVIOUS
<1>5. /\ Called(g, by) /\ b \in PendingOf(s, "text") /\ batch[b].base = row.textV
      /\ batch[b].link # 0 => AllRead(batch[b].link)
      /\ summed \/ Fits(s, b)
      /\ sync' = [sync EXCEPT ![s] = new]
      /\ Done(b)
      /\ UNCHANGED <<content, horizon, lastBatch>>
  BY <1>1, <1>2, <1>3, <1>4 DEF ConfirmText, Done
<1>6. /\ s \in Scope /\ (s.horizon # 0 => s.horizon \in Granted)
      /\ UNCHANGED <<lastGrant, setup>> /\ ScopeFits(s)
      /\ ContentTyped /\ StatesTyped /\ BatchesTyped
  BY <1>1, <1>5, CalledScope
<1>7. /\ RowsGo(s) /\ Batches' = Batches /\ b \in OfKind(s, "text")
      /\ batch[b].status = "pending" /\ batch'[b].status = "confirmed"
      /\ \A a \in Batches : Like(batch'[a], batch[a])
      /\ \A a \in Batches : a # b => batch'[a] = batch[a]
      /\ \A k : OfKind(s, k)' = OfKind(s, k)
  BY <1>5, <1>6, ConfirmedRows DEF BatchDone
<1>8. /\ row \in StateRow /\ row.textV \in Nat /\ row.mark \in Nat /\ row.mark <= lastMsg
      /\ row.sumMark \in Nat /\ row.sumMark <= row.mark /\ lastMsg \in Nat /\ lastBatch \in Nat
  BY <1>2, <1>6, StateTypes
<1>9. /\ b \in Batches /\ batch[b].base < b /\ b <= lastBatch /\ b \in Nat /\ s \in DOMAIN sync
      /\ batch[b].texts \subseteq Texts(s)
  BY <1>6, <1>7, BatchTypes DEF OfKind, BatchesTyped, ScopeFits, TextSide, TextsFit
<1>10. batch[b].texts \in SUBSET (0..lastMsg) /\ row.mark \in 0..lastMsg
  BY <1>8, <1>9, TextsAre
<1>11. /\ mark \in batch[b].texts \cup {row.mark} /\ row.mark <= mark /\ mark \in 0..lastMsg
       /\ \A m \in batch[b].texts : m <= mark
  BY <1>3, <1>8, <1>10, MarkIs
<1>12. /\ new \in StateRow /\ new.textV = row.textV + 1 /\ new.mark = mark
       /\ new.sumMark = IF summed THEN mark ELSE row.sumMark
       /\ new.imageV = row.imageV /\ new.acked = row.acked
  <2>1. mark \in Nat
    BY <1>8, <1>11
  <2>3. PICK v \in Nat : v = batch[b].base + 1 /\ v = row.textV + 1
    BY <1>5, <1>8
  <2>4. PICK u \in Nat : u = IF summed THEN mark ELSE row.sumMark
    BY <1>8, <2>1
  <2>5. PICK t \in BOOLEAN : t = (summed \/ row.summary)
    OBVIOUS
  <2>6. new = [row EXCEPT !.textV = v, !.mark = mark, !.sumMark = u, !.summary = t]
    BY <1>4, <2>3, <2>4, <2>5
  <2>7. /\ new \in StateRow /\ new.textV = v /\ new.mark = mark /\ new.sumMark = u
        /\ new.imageV = row.imageV /\ new.acked = row.acked
    BY <1>8, <2>1, <2>6 DEF StateRow
  <2> QED
    BY <2>3, <2>4, <2>7
<1>13. StateFits(s, new)
  <2>1. new.sumMark <= new.mark /\ new.mark <= lastMsg
    BY <1>8, <1>11, <1>12
  <2>2. new.textV <= lastBatch /\ new.textV # 0
    BY <1>5, <1>8, <1>9, <1>12
  <2> QED
    BY <1>6, <1>12, <2>1, <2>2 DEF StateFits
<1>14. OneState(s, new) /\ StateOf(s)' = new
  <2>1. DOMAIN sync' = DOMAIN sync /\ sync'[s] = new /\ \A t \in DOMAIN sync : t # s => sync'[t] = sync[t]
    BY <1>5, <1>9
  <2> QED
    BY <1>9, <2>1 DEF OneState, StateOf
<1>15. BatchesTyped'
  BY <1>5, <1>6, <1>7, <1>13, <1>14, WorkedTyped DEF BatchesInv
<1>16. /\ \A a \in OfKind(s, "text") : batch'[a].base = batch[a].base /\ batch'[a].texts = batch[a].texts
       /\ \A a \in OfKind(s, "text") : a # b => batch'[a].status = batch[a].status
       /\ KindKept(s, "image")
  <2>1. \A k : \A a \in OfKind(s, k) : a \in Batches
    BY DEF OfKind
  <2>2. b \notin OfKind(s, "image")
    BY <1>7 DEF OfKind
  <2> QED
    BY <1>7, <2>1, <2>2 DEF Like, KindKept
<1>17. /\ Value(s, "text") \in Nat /\ Value(s, "text") = row.textV
       /\ Value(s, "text")' = Value(s, "text") + 1
  BY <1>2, <1>8, <1>12, <1>14 DEF Value
<1>18. /\ BasesFit(s, "text")'
       /\ \A a \in OfKind(s, "text") : a # b =>
             batch[a].status # "pending" /\ batch[a].base < Value(s, "text")
  <2>1. BasesFit(s, "text")
    BY <1>6 DEF ScopeFits, TextSide
  <2>2. OfKind(s, "text")' = OfKind(s, "text")
    BY <1>7
  <2> QED
    BY <1>6, <1>7, <1>16, <1>17, <2>1, <2>2, VersionDone
<1>19. TextSide(s)'
  <2>1. TextSide(s) /\ OfKind(s, "text")' = OfKind(s, "text")
    BY <1>6, <1>7 DEF ScopeFits
  <2>2. \A a \in OfKind(s, "text") : a # b =>
           /\ batch'[a].status = batch[a].status /\ batch[a].status # "pending"
           /\ batch[a].base < StateOf(s).textV
    BY <1>2, <1>16, <1>17, <1>18
  <2>3. mark \in Nat /\ StateOf(s).mark <= mark /\ mark \in batch[b].texts \cup {StateOf(s).mark}
        /\ StateOf(s)'.mark = mark
    BY <1>2, <1>8, <1>11, <1>12, <1>14
  <2>4. \/ StateOf(s)'.sumMark = mark
        \/ StateOf(s)'.sumMark = StateOf(s).sumMark /\ Fits(s, b)
    BY <1>2, <1>5, <1>12, <1>14
  <2> QED
    BY <1>5, <1>6, <1>7, <1>11, <1>15, <1>16, <1>18, <2>1, <2>2, <2>3, <2>4, TextDone
<1>20. BasesFit(s, "image")'
  <2>1. Value(s, "image")' = Value(s, "image")
    BY <1>2, <1>12, <1>14 DEF Value
  <2> QED
    BY <1>6, <1>16, <2>1, BasesKept DEF ScopeFits
<1>21. SeenFit(s)'
  BY <1>2, <1>6, <1>7, <1>12, <1>14, SeenKept DEF ScopeFits
<1> QED
  BY <1>5, <1>6, <1>7, <1>13, <1>14, <1>19, <1>20, <1>21, WorkedKeeps

LEMMA ConfirmImagesKeeps ==
    ASSUME GrantsInv, BatchesInv, NEW g, NEW by \in Identities \cup {"tunnel"},
           NEW b, ConfirmImages(g, by, b)
    PROVE  BatchesInv'
<1>1. PICK s : s = ScopeFor(g, by)
  OBVIOUS
<1>2. PICK row : row = StateOf(s)
  OBVIOUS
<1>3. PICK acked : acked = [i \in Images |-> IF batch[b].images[i] = "none" THEN row.acked[i]
                                             ELSE batch[b].images[i]]
  OBVIOUS
<1>4. PICK new : new = [row EXCEPT !.imageV = batch[b].base + 1, !.acked = acked]
  OBVIOUS
<1>5. /\ Called(g, by) /\ b \in PendingOf(s, "image") /\ batch[b].base = row.imageV
      /\ AllRead(b) /\ sync' = [sync EXCEPT ![s] = new]
      /\ Done(b)
      /\ UNCHANGED <<content, horizon, lastBatch>>
  BY <1>1, <1>2, <1>3, <1>4 DEF ConfirmImages, Seen, Done
<1>6. /\ s \in Scope /\ (s.horizon # 0 => s.horizon \in Granted)
      /\ UNCHANGED <<lastGrant, setup>> /\ ScopeFits(s)
      /\ ContentTyped /\ StatesTyped /\ BatchesTyped
  BY <1>1, <1>5, CalledScope
<1>7. batch[b].link = 0 /\ b \in Batches /\ batch[b].scope = s /\ s \in DOMAIN sync
  BY <1>5, <1>6 DEF PendingOf, BatchesTyped
<1>8. /\ RowsGo(s) /\ Batches' = Batches /\ b \in OfKind(s, "image")
      /\ batch[b].status = "pending" /\ batch'[b].status = "confirmed"
      /\ \A a \in Batches : Like(batch'[a], batch[a])
      /\ \A a \in Batches : a # b => batch'[a] = batch[a]
      /\ \A k : OfKind(s, k)' = OfKind(s, k)
  <2>1. BatchDone(s, "image", b)
    BY <1>5, <1>6, <1>7, ConfirmedRows
  <2> QED
    BY <2>1 DEF BatchDone
<1>9. /\ row \in StateRow /\ row.imageV \in Nat /\ row.acked \in [Images -> ImageStates]
      /\ batch[b].images \in [Images -> ImageStates] /\ StateFits(s, row)
  BY <1>2, <1>6, <1>7, StateTypes, BatchTypes, StateStays
<1>10. acked \in [Images -> ImageStates]
  BY <1>3, <1>9
<1>11. /\ new \in StateRow /\ new.textV = row.textV /\ new.mark = row.mark
       /\ new.sumMark = row.sumMark /\ new.summary = row.summary
       /\ new.imageV = row.imageV + 1 /\ new.acked = acked
  <2>1. PICK v \in Nat : v = batch[b].base + 1 /\ v = row.imageV + 1
    BY <1>5, <1>9
  <2>2. new = [row EXCEPT !.imageV = v, !.acked = acked]
    BY <1>4, <2>1
  <2>3. /\ new \in StateRow /\ new.textV = row.textV /\ new.mark = row.mark
        /\ new.sumMark = row.sumMark /\ new.summary = row.summary
        /\ new.imageV = v /\ new.acked = acked
    BY <1>9, <1>10, <2>2 DEF StateRow
  <2> QED
    BY <2>1, <2>3
<1>12. StateFits(s, new)
  BY <1>9, <1>11 DEF StateFits
<1>13. OneState(s, new) /\ StateOf(s)' = new
  <2>1. DOMAIN sync' = DOMAIN sync /\ sync'[s] = new /\ \A t \in DOMAIN sync : t # s => sync'[t] = sync[t]
    BY <1>5, <1>7
  <2> QED
    BY <1>7, <2>1 DEF OneState, StateOf
<1>14. BatchesTyped'
  BY <1>5, <1>6, <1>8, <1>12, <1>13, WorkedTyped DEF BatchesInv
<1>15. /\ \A a \in OfKind(s, "image") : batch'[a].base = batch[a].base
       /\ \A a \in OfKind(s, "image") : a # b => batch'[a].status = batch[a].status
       /\ KindKept(s, "text")
  <2>1. \A k : \A a \in OfKind(s, k) : a \in Batches
    BY DEF OfKind
  <2>2. b \notin OfKind(s, "text")
    BY <1>8 DEF OfKind
  <2> QED
    BY <1>8, <2>1, <2>2 DEF Like, KindKept
<1>16. BasesFit(s, "image")'
  <2>1. BasesFit(s, "image") /\ OfKind(s, "image")' = OfKind(s, "image")
    BY <1>6, <1>8 DEF ScopeFits
  <2>2. Value(s, "image") \in Nat /\ Value(s, "image")' = Value(s, "image") + 1
    BY <1>2, <1>9, <1>11, <1>13 DEF Value
  <2> QED
    BY <1>6, <1>8, <1>15, <2>1, <2>2, VersionDone
<1>17. TextSide(s)'
  BY <1>2, <1>5, <1>6, <1>11, <1>13, <1>14, <1>15, TextSideKept DEF ScopeFits
<1>18. SeenFit(s)'
  <2>1. ASSUME NEW i \in Images, acked[i] = "stored"
        PROVE  \E a \in Batches : batch'[a].scope = s /\ i \in batch'[a].read
    <3>1. PICK a \in Batches : batch[a].scope = s /\ i \in batch[a].read
      <4>1. CASE batch[b].images[i] = "none"
        <5>1. row.acked[i] = "stored"
          BY <1>3, <2>1, <4>1
        <5> QED
          BY <1>2, <1>6, <5>1 DEF ScopeFits, SeenFit
      <4>2. CASE batch[b].images[i] # "none"
        <5>1. batch[b].images[i] = "stored"
          BY <1>3, <2>1, <4>2
        <5> QED
          BY <1>5, <1>7, <5>1 DEF AllRead
      <4> QED
        BY <4>1, <4>2
    <3> QED
      BY <1>8, <3>1 DEF Like
  <2> QED
    BY <1>8, <1>11, <1>13, <2>1 DEF SeenFit
<1> QED
  BY <1>5, <1>6, <1>8, <1>12, <1>13, <1>16, <1>17, <1>18, WorkedKeeps

-----------------------------------------------------------------------------
(* Every step keeps the batches.                                           *)

\* Nothing that the batches depend on changes.
SyncRests == UNCHANGED <<content, horizon, progress, lastGrant, setup>>

SyncStep == SyncRests \/ SyncNext

LEMMA KeptRests ==
    ASSUME AccessKept
    PROVE  SyncRests
BY DEF AccessKept, rights, SyncRests

LEMMA ReqRests ==
    ASSUME ReqNext
    PROVE  SyncStep
<1>1. CASE Outside
  BY <1>1 DEF Outside, SyncStep
<1>2. CASE Relating
  BY <1>2, KeptRests DEF Relating, ConfirmRequirementCustomer, CreateCustomer,
     ConfirmSalesAnalysis, OpenLead, ConvertLead, SyncStep
<1>3. CASE Importing
  BY <1>3, KeptRests DEF Importing, PreviewImport, CommitImport, ExpirePreview, SyncStep
<1>4. CASE CaseWork
  BY <1>4, KeptRests DEF CaseWork, EditCase, LinkProject, TransferCase, SyncStep
<1>5. CASE Proposing
  <2>0. \A g : \A by : Called(g, by) => UNCHANGED <<lastGrant, setup>>
    BY DEF Called, KeyRead
  <2>1. CASE \E g \in Granted, by \in Identities \cup {"tunnel"}, i \in 0..Len(case) :
                Propose(g, by, i)
    BY <2>0, <2>1 DEF Propose, SyncRests, SyncStep
  <2>2. CASE \E p \in 1..Len(proposal) : \E by \in Identities \cup {"tunnel"} :
                ConfirmOutside(p, by)
    BY <2>0, <2>2 DEF ConfirmOutside, Confirmed, SyncRests, SyncStep
  <2>3. CASE \E p \in 1..Len(proposal) : ConfirmHere(p)
    BY <2>3 DEF ConfirmHere, Confirmed, rights, SyncRests, SyncStep
  <2>4. CASE \E p \in 1..Len(proposal) : ExpireProposal(p)
    BY <2>4, KeptRests DEF ExpireProposal, SyncStep
  <2> QED
    BY <1>5, <2>1, <2>2, <2>3, <2>4 DEF Proposing
<1>6. CASE Analysing
  <2>1. AnalysisStep
    BY <1>6 DEF Analysing, Enqueue, Cancel, TakeTask, Answer, EndTask, Start, Stop
  <2> QED
    BY <2>1, KeptRests DEF AnalysisStep, SyncStep
<1> QED
  BY <1>1, <1>2, <1>3, <1>4, <1>5, <1>6 DEF ReqNext

LEMMA SyncSteps ==
    ASSUME [Next]_vars
    PROVE  SyncStep
<1>0. UNCHANGED syncVars => SyncStep
  BY DEF syncVars, accessVars, rights, SyncRests, SyncStep
<1>1. CASE UNCHANGED vars
  BY <1>0, <1>1 DEF vars, caseVars
<1>2. CASE Elsewhere
  <2>1. CaseNext
    BY <1>2 DEF Elsewhere
  <2>2. CASE Work
    BY <2>2, ReqRests DEF Work
  <2>3. CASE UNCHANGED syncVars
    BY <1>0, <2>3
  <2> QED
    BY <2>1, <2>2, <2>3 DEF CaseNext
<1>3. CASE \E t \in AgentThreads, c \in Conversations : UpdateThread(t, c)
  BY <1>3 DEF UpdateThread, Rescope, rights, SyncRests, SyncStep
<1>4. CASE \E t \in AgentThreads : DeleteThread(t)
  BY <1>4 DEF DeleteThread, rights, SyncRests, SyncStep
<1>5. CASE \E t \in AgentThreads : \E full \in BOOLEAN : SubmitMessage(t, full)
  BY <1>0, <1>5 DEF SubmitMessage, caseVars
<1>6. CASE \E r \in Runs : CancelRun(r)
  BY <1>0, <1>6 DEF CancelRun, caseVars
<1>7. CASE \E r \in Runs : ConfirmCustomerCreate(r)
  BY <1>7, KeptRests DEF ConfirmCustomerCreate, CreateCustomer, SyncStep
<1>8. CASE \E r \in Runs : RunStep(r)
  <2>1. UNCHANGED caseVars
    BY <1>8 DEF RunStep, PrepareRun, ExecuteTools, ReadTop, ReadTexts, ToolReturns,
                GenerateAnswer, ModelReturns, PersistAnswer, PublishCompleted
  <2> QED
    BY <1>0, <2>1 DEF caseVars
<1> QED
  BY <1>1, <1>2, <1>3, <1>4, <1>5, <1>6, <1>7, <1>8 DEF Next, Asking

LEMMA RestingStays ==
    ASSUME BatchesInv, SyncRests
    PROVE  BatchesStay
<1>1. ContentTyped /\ Granted' = Granted /\ UNCHANGED <<setup, progress, lastMsg, image, horizon>>
  BY DEF BatchesInv, SyncRests, content, Granted
<1>2. ContentTyped'
  BY <1>1 DEF ContentTyped
<1> QED
  BY <1>1, <1>2 DEF BatchesStay

LEMMA AccessStays ==
    ASSUME BatchesInv, GrantsInv, [Next]_vars, Access
    PROVE  BatchesStay
<1>1. Onward /\ setup' = setup
  BY AccessSteps, AllOnward, SyncGround DEF SyncNext, GroundKept
<1>2. /\ UNCHANGED <<lastMsg, image, progress>> /\ Granted' = 1..lastGrant'
      /\ horizon' = [g \in 1..lastGrant' |-> IF g \in Granted THEN horizon[g] ELSE lastMsg]
  BY DEF Access, content, Granted
<1>3. Granted \subseteq Granted'
  BY <1>1 DEF Onward
<1>4. \A g \in Granted : horizon'[g] = horizon[g]
  BY <1>2, <1>3
<1>5. ContentTyped'
  <2>1. ContentTyped /\ lastMsg \in Nat
    BY DEF BatchesInv, ContentTyped
  <2>2. \A g \in Granted : horizon[g] \in 0..lastMsg
    BY <2>1 DEF ContentTyped
  <2>3. horizon' \in [Granted' -> 0..lastMsg]
    BY <1>2, <2>1, <2>2
  <2> QED
    BY <1>1, <1>2, <2>1, <2>3 DEF ContentTyped
<1> QED
  BY <1>1, <1>2, <1>3, <1>4, <1>5 DEF BatchesStay

LEMMA MessageStays ==
    ASSUME BatchesInv, GrantsInv, Message
    PROVE  BatchesStay
<1>1. /\ ContentTyped /\ lastMsg \in Nat /\ lastMsg < setup.messages /\ lastMsg' = lastMsg + 1
      /\ UNCHANGED <<setup, image, horizon, progress, lastGrant>> /\ Granted' = Granted
      /\ setup.messages \in Nat
  BY GrantsTypes, SyncSizes DEF BatchesInv, ContentTyped, Message, accessVars, rights, Granted
<1>2. horizon' \in [Granted' -> 0..lastMsg']
  <2>1. \A g \in Granted : horizon[g] \in 0..lastMsg'
    BY <1>1 DEF ContentTyped
  <2> QED
    BY <1>1, <2>1 DEF ContentTyped
<1>3. ContentTyped'
  BY <1>1, <1>2 DEF ContentTyped
<1> QED
  BY <1>1, <1>3 DEF BatchesStay

LEMMA ArchiveStays ==
    ASSUME BatchesInv, NEW i \in Images, Archive(i)
    PROVE  BatchesStay
<1>1. /\ ContentTyped /\ image \in [Images -> ImageStates]
      /\ UNCHANGED <<setup, lastMsg, horizon, progress, lastGrant>> /\ Granted' = Granted
      /\ \E is \in ImageStates : image' = [image EXCEPT ![i] = is]
  BY DEF BatchesInv, ContentTyped, Archive, accessVars, rights, Granted, ImageStates
<1>2. ContentTyped'
  BY <1>1 DEF ContentTyped
<1> QED
  BY <1>1, <1>2 DEF BatchesStay

LEMMA BatchesStep ==
    ASSUME BatchesInv, GrantsInv, [Next]_vars
    PROVE  BatchesInv'
<1>1. SyncStep
  BY SyncSteps
<1>2. CASE SyncRests
  BY <1>2, RestingStays, StayKeeps
<1>3. CASE Access
  BY <1>3, AccessStays, StayKeeps
<1>4. CASE Message
  BY <1>4, MessageStays, StayKeeps
<1>5. CASE \E i \in Images : Archive(i)
  BY <1>5, ArchiveStays, StayKeeps
<1>6. CASE Reads
  <2>1. PICK g \in Granted, by \in Identities \cup {"tunnel"} :
            \/ ReadText(g, by) \/ ReadManifest(g, by) \/ ReadTimeline(g, by)
            \/ \E i \in Images : ReadImage(g, by, i)
            \/ \E b \in Batches :
                  \/ \E summed \in BOOLEAN : ConfirmText(g, by, b, summed)
                  \/ ConfirmImages(g, by, b)
    BY <1>6 DEF Reads
  <2>2. setup \in Setups
    BY GrantsTypes
  <2>3. CASE ReadText(g, by)
    BY <2>2, <2>3, ReadTextKeeps
  <2>4. CASE ReadManifest(g, by)
    BY <2>4, ReadManifestKeeps
  <2>5. CASE ReadTimeline(g, by)
    BY <2>5, ReadTimelineKeeps
  <2>6. CASE \E i \in Images : ReadImage(g, by, i)
    BY <2>6, ReadImageKeeps
  <2>7. CASE \E b \in Batches : \E summed \in BOOLEAN : ConfirmText(g, by, b, summed)
    BY <2>7, ConfirmTextKeeps
  <2>8. CASE \E b \in Batches : ConfirmImages(g, by, b)
    BY <2>8, ConfirmImagesKeeps
  <2> QED
    BY <2>1, <2>3, <2>4, <2>5, <2>6, <2>7, <2>8
<1> QED
  BY <1>1, <1>2, <1>3, <1>4, <1>5, <1>6 DEF SyncStep, SyncNext

LEMMA BatchesAlways == Spec => []BatchesInv
<1>1. Init => BatchesInv
  BY BatchesInit
<1>2. BatchesInv /\ GrantsInv /\ [Next]_vars => BatchesInv'
  BY BatchesStep
<1> QED
  BY <1>1, <1>2, GrantsAlways, PTL DEF Spec

LEMMA TextsOnce ==
    ASSUME BatchesInv, NEW s \in DOMAIN sync
    PROVE  LET done == {b \in Batches : batch[b].scope = s /\ batch[b].status = "confirmed"}
               texts == UNION {batch[b].texts : b \in done}
           IN  /\ \A a, b \in done : a # b => batch[a].texts \cap batch[b].texts = {}
               /\ texts # {} => texts = {m \in Texts(s) : Min(texts) <= m /\ m <= sync[s].mark}
               /\ Cardinality(Unsummarised(s)) <= PageSize
<1> DEFINE done == {b \in Batches : batch[b].scope = s /\ batch[b].status = "confirmed"}
           texts == UNION {batch[b].texts : b \in done}
<1>1. /\ ContentTyped /\ StatesTyped /\ BatchesTyped /\ TextsFit(s) /\ DoneFit(s)
      /\ Cardinality(Unsummarised(s)) <= PageSize
      /\ StateOf(s) = sync[s] /\ sync[s].mark \in Nat
  BY StateTypes DEF BatchesInv, ScopeFits, TextSide
<1>2. DoneTexts(s) \subseteq done /\ \A b \in done : b \in DoneTexts(s) \/ batch[b].texts = {}
  <2>1. \A b \in Batches : /\ batch[b].kind \in {"text", "image"}
                           /\ batch[b].kind = "image" => batch[b].texts = {}
    BY <1>1, BatchTypes DEF BatchesTyped
  <2> QED
    BY <2>1 DEF DoneTexts, OfKind
<1>3. \A a, b \in done : a # b => batch[a].texts \cap batch[b].texts = {}
  BY <1>1, <1>2 DEF DoneFit
<1>4. /\ texts \subseteq Texts(s)
      /\ \A m \in texts : m <= sync[s].mark
  <2>1. ASSUME NEW b \in DoneTexts(s), NEW m \in batch[b].texts
        PROVE  m \in Texts(s) /\ ~(sync[s].mark < m)
    <3>1. b \in OfKind(s, "text") /\ batch[b].status = "confirmed"
      BY DEF DoneTexts
    <3> QED
      BY <1>1, <3>1 DEF TextsFit
  <2>2. \A m \in texts : m \in Texts(s) /\ ~(sync[s].mark < m)
    BY <1>2, <2>1
  <2>3. \A m \in Texts(s) : m \in Nat
    BY <1>1, TextsAre DEF ContentTyped
  <2> HIDE DEF texts
  <2> QED
    BY <1>1, <2>2, <2>3
<1>5. \A m \in Texts(s) : m \in Nat
  BY <1>1, TextsAre DEF ContentTyped
<1>6. ASSUME NEW x \in texts, NEW m \in Texts(s), x <= m, m <= sync[s].mark
      PROVE  m \in texts
  <2>1. PICK a \in DoneTexts(s) : x \in batch[a].texts
    BY <1>2
  <2>2. PICK b \in DoneTexts(s) : m \in batch[b].texts
    BY <1>1, <1>6, <2>1 DEF DoneFit
  <2> QED
    BY <1>2, <2>2
<1> HIDE DEF texts
<1>7. texts # {} => texts = {m \in Texts(s) : Min(texts) <= m /\ m <= sync[s].mark}
  <2> SUFFICES ASSUME texts # {}
               PROVE  texts = {m \in Texts(s) : Min(texts) <= m /\ m <= sync[s].mark}
    OBVIOUS
  <2>1. texts \in SUBSET Nat
    BY <1>4, <1>5
  <2>2. \E m \in texts : \A k \in texts : m <= k
    BY <2>1, Smallest
  <2>3. Min(texts) \in texts /\ \A k \in texts : Min(texts) <= k
    BY <2>2 DEF Min
  <2> QED
    BY <1>4, <1>6, <2>3
<1> QED
  BY <1>1, <1>3, <1>7 DEF texts

LEMMA BatchesInvHolds == BatchesInv => BatchesHold
<1> SUFFICES ASSUME BatchesInv PROVE BatchesHold
  OBVIOUS
<1>1. /\ ContentTyped /\ StatesTyped /\ BatchesTyped /\ LinksFit
      /\ \A s \in DOMAIN sync : ScopeFits(s)
  BY DEF BatchesInv
<1>2. ASSUME NEW a \in Batches, NEW b \in Batches, a # b, batch[a].scope = batch[b].scope,
             batch[a].kind = batch[b].kind
      PROVE  /\ batch[a].base # batch[b].base
             /\ {batch[a].status, batch[b].status} # {"pending"}
  <2>1. PICK s \in DOMAIN sync : s = batch[a].scope
    BY <1>1 DEF BatchesTyped
  <2>2. PICK kind \in {"text", "image"} : kind = batch[a].kind
    BY <1>1, BatchTypes
  <2>3. BasesFit(s, kind) /\ a \in OfKind(s, kind) /\ b \in OfKind(s, kind)
    BY <1>1, <1>2, <2>1, <2>2 DEF ScopeFits, TextSide, OfKind
  <2>4. batch[a].base # batch[b].base
    BY <1>2, <2>3 DEF BasesFit
  <2>5. /\ batch[a].status = "pending" => batch[a].base = Value(s, kind)
        /\ batch[b].status = "pending" => batch[b].base = Value(s, kind)
    BY <2>3 DEF BasesFit
  <2> QED
    BY <2>4, <2>5
<1>3. EveryTextOnce
  BY <1>2, TextsOnce DEF EveryTextOnce
<1>4. SeenWasDelivered
  <2>1. ASSUME NEW s \in DOMAIN sync, NEW i \in Images, sync[s].acked[i] = "stored"
        PROVE  \E b \in Batches : batch[b].scope = s /\ i \in batch[b].read
    BY <1>1, <2>1, StateTypes DEF ScopeFits, SeenFit
  <2> QED
    BY <1>1, <2>1 DEF SeenWasDelivered, LinksFit
<1> QED
  BY <1>3, <1>4 DEF BatchesHold

\* Whatever replays, new keys, late messages and changing images come between a read
\* and its confirmation: a scope confirms every text from its first page to the
\* watermark once, those without a summary fit a page, a kind has one pending batch,
\* and what is confirmed as seen was delivered to its owner.
THEOREM BatchesAreAcknowledged == Spec => []BatchesHold
BY BatchesAlways, BatchesInvHolds, PTL
=============================================================================
