--------------------------- MODULE ContextAccess ---------------------------
(***************************************************************************)
(* Who may read a customer's context from outside                          *)
(* (backend/app/services/customer_context_gateway.py, with the group scope *)
(* of customer_conversation_groups.py and the credentials accepted by      *)
(* customer_context_mcp.py).                                               *)
(*                                                                         *)
(* A grant belongs to a thread of one conversation and is in force while   *)
(* the thread keeps the revision the grant was given.  It is read through  *)
(* its own capability, through the one slot of the tunnel, through an      *)
(* opaque key of its own (whose first OAuth user owns it), or through an   *)
(* OAuth token, which binds itself to the newest grant confirmed before it *)
(* was issued.  A group widens a keyed grant to chosen conversations.      *)
(*                                                                         *)
(* Every operation is one transaction and every tool call, from resolving  *)
(* its credential to its answer, runs on one event loop without an await   *)
(* in between: one action each.  A request that repeats a request id, or   *)
(* that was decided on an older revision, changes nothing and is no action.*)
(***************************************************************************)
EXTENDS Integers, FiniteSets, FiniteSetsExt

CONSTANTS
    Conversations,  \* customer conversations
    AgentThreads,   \* threads of the global agent, which change conversation
    Customers,      \* customers of the ledger
    Home,           \* the customer whose group is followed
    MaxGrants,      \* bound: grants
    MaxRevision,    \* bound: revision of an agent thread
    Tokens,         \* OAuth access tokens
    Identity,       \* OAuth token -> its issuer, subject and client
    Setups          \* what to explore together: ways, threads and permissions to
                    \* grant, modes, whether grants end, conversations without a
                    \* customer or whose customer changes, bounds of grants, kinds
                    \* of reads, messages, batches, imports, proposals, versions
                    \* of a case, analyses, stops, uploads and answers of an agent,
                    \* and whether its threads change

GrantIds == 1..MaxGrants

\* The direct thread of a conversation is known by the conversation.
Threads == Conversations \cup AgentThreads

Identities == {Identity[k] : k \in Tokens}

Ways == {"capability", "tunnel", "key", "group"}

Permissions == {"all", "text", "frozen"}  \* frozen: allow_new_messages is off

ASSUME AccessAssumption ==
    /\ MaxGrants \in Nat \ {0}
    /\ MaxRevision \in Nat
    /\ Conversations # {}
    /\ AgentThreads \cap Conversations = {}
    /\ Home \in Customers
    /\ "none" \notin Customers
    /\ "tunnel" \notin Identities
    /\ "nobody" \notin Identities
    /\ Setups \subseteq [ways : SUBSET Ways, modes : SUBSET {"tunnel", "oauth"},
                        perms : SUBSET Permissions, ends : BOOLEAN,
                        relink : BOOLEAN, threads : SUBSET Threads, grants : 0..MaxGrants,
                        reads : Nat, messages : Nat, images : BOOLEAN,
                        batches : Nat, fresh : SUBSET Conversations,
                        relates : SUBSET Conversations, imports : Nat, proposals : Nat,
                        versions : Nat, tasks : Nat, stops : Nat, uploads : Nat,
                        answers : Nat, moves : BOOLEAN]

VARIABLES
    revision,    \* thread -> its revision
    bound,       \* thread -> the conversation it is bound to
    grant,       \* grant id -> row of customer_context_grants
    lastGrant,   \* the newest grant id (0: none)
    slot,        \* grant of the tunnel binding (0: none yet)
    key,         \* grant id -> row of customer_context_thread_bindings
    group,       \* the group of conversations
    owner,       \* conversation -> customer of its channel identity, or "none"
    cutoff,      \* token -> newest grant confirmed by its issue plus the clock
                 \* skew (-1: not issued yet)
    tokenGrant,  \* token -> grant it is bound to (0: not yet)
    mode,        \* authentication of the endpoint: tunnel or oauth
    audits,      \* reads that were authorised: credential and grant
    setup        \* the setup explored, chosen once

threads == <<revision, bound>>
rights == <<grant, lastGrant, slot, key>>
accessVars == <<threads, rights, group, owner, cutoff, tokenGrant, mode,
                audits, setup>>

-----------------------------------------------------------------------------
Grant ==
    [status  : {"none", "active", "revoked"},
     thread  : Threads,
     conv    : Conversations,
     rev     : Nat,             \* revision of the thread when it was granted
     way     : Ways,
     scope   : SUBSET Conversations,
     perm    : Permissions,
     expired : BOOLEAN]         \* past expires_at

Key == [status : {"none", "active", "revoked"}, mode : {"tunnel", "oauth"},
        owner  : Identities \cup {"tunnel", "nobody"}]

NoKey == [status |-> "none", mode |-> "tunnel", owner |-> "nobody"]

Credential ==
    [kind : {"capability"}, id : GrantIds] \cup
    [kind : {"slot"}, id : {0}] \cup
    [kind : {"key"}, id : GrantIds, by : Identities \cup {"tunnel"}] \cup
    [kind : {"token"}, id : Tokens]

Granted == 1..lastGrant

\* candidate_rows: the conversations whose channel identity is the customer's.
Linked == {c \in Conversations : owner[c] = Home}

Active(g) == g \in Granted /\ grant[g].status = "active"

\* _validate_bound_grant
Valid(g) ==
    /\ Active(g)
    /\ ~grant[g].expired
    /\ bound[grant[g].thread] = grant[g].conv
    /\ revision[grant[g].thread] = grant[g].rev

\* grant_conversation_scope: the members that were chosen are still there.
ScopeOpen(g) ==
    grant[g].way = "group" => grant[g].scope \subseteq group.members \cap Linked

ActiveOf(t) == {g \in Granted : Active(g) /\ grant[g].thread = t}

\* A keyed binding of the mode is active and may be used.
Keyed == \E g \in Granted : key[g].status = "active" /\ key[g].mode = mode /\ Valid(g)

AccessTypeOK ==
    /\ revision \in [Threads -> Nat]
    /\ bound \in [Threads -> Conversations]
    /\ lastGrant \in 0..MaxGrants
    /\ DOMAIN grant = Granted /\ \A g \in Granted : grant[g] \in Grant
    /\ slot \in 0..lastGrant
    /\ key \in [Granted -> Key]
    /\ group \in [exists : BOOLEAN, members : SUBSET Conversations]
    /\ owner \in [Conversations -> Customers \cup {"none"}]
    /\ cutoff \in [Tokens -> -1..MaxGrants]
    /\ tokenGrant \in [Tokens -> 0..lastGrant]
    /\ mode \in {"tunnel", "oauth"}
    /\ audits \subseteq [by : Credential, grant : Granted]
    /\ setup \in Setups

AccessInit ==
    /\ setup \in Setups
    /\ revision = [t \in Threads |-> 0]
    /\ bound = [t \in Threads |-> IF t \in Conversations THEN t
                                  ELSE CHOOSE c \in Conversations : TRUE]
    /\ grant = [g \in {} |-> {}]
    /\ lastGrant = 0
    /\ slot = 0
    /\ key = [g \in {} |-> NoKey]
    /\ group = [exists |-> FALSE, members |-> {}]
    /\ owner = [c \in Conversations |-> IF c \in setup.fresh THEN "none" ELSE Home]
    /\ cutoff = [k \in Tokens |-> -1]
    /\ tokenGrant = [k \in Tokens |-> 0]
    /\ audits = {}
    /\ mode \in setup.modes

-----------------------------------------------------------------------------
\* The grant of a thread takes the place of the thread's active ones; others may
\* be revoked with them, and their threads change revision.
NewGrant(t, way, scope, perm, revoked, bumped) ==
    LET g == lastGrant + 1 IN
    /\ lastGrant < setup.grants
    /\ way \in setup.ways
    /\ t \in setup.threads
    /\ lastGrant' = g
    /\ grant' = [h \in 1..g |->
                    IF h = g
                    THEN [status |-> "active", thread |-> t, conv |-> bound[t],
                          rev |-> revision[t] + 1, way |-> way, scope |-> scope,
                          perm |-> perm, expired |-> FALSE]
                    ELSE IF h \in ActiveOf(t) \cup revoked
                         THEN [grant[h] EXCEPT !.status = "revoked"]
                         ELSE grant[h]]
    /\ revision' = [u \in Threads |->
                       IF u = t \/ u \in bumped THEN revision[u] + 1 ELSE revision[u]]
    /\ UNCHANGED bound

KeysAfter(row, revoked) ==
    [h \in 1..(lastGrant + 1) |->
        IF h = lastGrant + 1 THEN row
        ELSE IF h \in revoked THEN [key[h] EXCEPT !.status = "revoked"]
        ELSE key[h]]

\* create_grant for an agent thread, create_conversation_grant for a direct one.
CreateGrant(t, perm) ==
    /\ NewGrant(t, "capability", {bound[t]}, perm, {}, {})
    /\ key' = KeysAfter(NoKey, {})
    /\ UNCHANGED <<slot, group, owner, cutoff, tokenGrant, mode, audits, setup>>

\* The grant in the slot, when it is an active grant of another thread.
SlotElsewhere(t) ==
    {g \in Granted : g = slot /\ Active(g) /\ grant[g].thread # t}

ReplaceTunnel(c, perm) ==
    LET old == SlotElsewhere(c) IN
    /\ mode = "tunnel"
    /\ NewGrant(c, "tunnel", {c}, perm, old, {grant[g].thread : g \in old})
    /\ slot' = lastGrant + 1
    /\ key' = KeysAfter(NoKey, {})
    /\ UNCHANGED <<group, owner, cutoff, tokenGrant, mode, audits, setup>>

\* create_thread_binding: one key for a conversation, or for chosen members of
\* the group.  The conversation's older keys end; in tunnel mode the grant of the
\* slot ends too.
CreateKey(c, scope, perm) ==
    LET old == IF mode = "tunnel" THEN SlotElsewhere(c) ELSE {} IN
    /\ \E way \in {"key", "group"} :
          /\ IF way = "key" THEN scope = {c}
             ELSE c \in scope /\ scope \subseteq group.members \cap Linked
          /\ NewGrant(c, way, scope, perm, old,
                      {grant[g].thread : g \in {h \in old :
                          revision[grant[h].thread] = grant[h].rev}})
    /\ key' = KeysAfter([status |-> "active", mode |-> mode,
                         owner |-> IF mode = "tunnel" THEN "tunnel" ELSE "nobody"],
                        {g \in Granted : key[g].status = "active" /\ grant[g].thread = c})
    /\ UNCHANGED <<slot, group, owner, cutoff, tokenGrant, mode, audits, setup>>

-----------------------------------------------------------------------------
Revoke(g) == grant' = [grant EXCEPT ![g].status = "revoked"]

\* Mutant: the revision stays.
NoBump(t) == UNCHANGED revision

Bump(t) == revision' = [revision EXCEPT ![t] = @ + 1]

RevokeGrant(g) ==
    /\ Active(g)
    /\ Revoke(g)
    /\ Bump(grant[g].thread)
    /\ UNCHANGED <<bound, lastGrant, slot, key, group, owner, cutoff, tokenGrant,
                   mode, audits, setup>>

RevokeTunnel ==
    /\ mode = "tunnel"
    /\ slot # 0
    /\ Valid(slot)
    /\ Revoke(slot)
    /\ Bump(grant[slot].thread)
    /\ UNCHANGED <<bound, lastGrant, slot, key, group, owner, cutoff, tokenGrant,
                   mode, audits, setup>>

\* Its grant may have ended before it.
RevokeKey(g) ==
    /\ g \in Granted
    /\ key[g].status = "active"
    /\ key' = [key EXCEPT ![g].status = "revoked"]
    /\ IF Active(g)
       THEN /\ Revoke(g)
            /\ IF revision[grant[g].thread] = grant[g].rev
               THEN Bump(grant[g].thread) ELSE UNCHANGED revision
       ELSE UNCHANGED <<grant, revision>>
    /\ UNCHANGED <<bound, lastGrant, slot, group, owner, cutoff, tokenGrant, mode,
                   audits, setup>>

\* change() of the group, after its preview: the grants that chose a removed
\* member end, and their threads keep their revision.
ChangeGroup(members) ==
    LET removed == group.members \ members
        ended == {g \in Granted : /\ Active(g) /\ grant[g].way = "group"
                                  /\ grant[g].scope \cap removed # {} \/ members = {}}
    IN
    /\ "group" \in setup.ways
    /\ members \subseteq Linked
    /\ group.exists \/ Cardinality(members) >= 2
    /\ group' = [exists |-> TRUE, members |-> members]
    /\ grant' = [g \in Granted |->
                    IF g \in ended THEN [grant[g] EXCEPT !.status = "revoked"]
                    ELSE grant[g]]
    /\ UNCHANGED <<threads, lastGrant, slot, key, owner, cutoff, tokenGrant, mode,
                   audits, setup>>

\* An agent's thread changes: it moves to another conversation, or stays with its
\* own.
Rescope(t, c) ==
    /\ t \in setup.threads
    /\ revision[t] < MaxRevision
    /\ bound' = [bound EXCEPT ![t] = c]
    /\ Bump(t)
    /\ UNCHANGED <<rights, group, owner, cutoff, tokenGrant, mode, audits, setup>>

\* The channel identity of a conversation moves to another customer, or back.
Relink(c) ==
    /\ setup.relink
    /\ \E u \in Customers \ {owner[c]} : owner' = [owner EXCEPT ![c] = u]
    /\ UNCHANGED <<threads, rights, group, cutoff, tokenGrant, mode, audits, setup>>

Expire(g) ==
    /\ Active(g)
    /\ ~grant[g].expired
    /\ grant' = [grant EXCEPT ![g].expired = TRUE]
    /\ UNCHANGED <<threads, lastGrant, slot, key, group, owner, cutoff, tokenGrant,
                   mode, audits, setup>>

\* The identity provider issues a token.  How many grants are confirmed within
\* the clock skew is settled here.
IssueToken(k) ==
    /\ "oauth" \in setup.modes
    /\ cutoff[k] = -1
    /\ \E newest \in lastGrant..setup.grants : cutoff' = [cutoff EXCEPT ![k] = newest]
    /\ UNCHANGED <<threads, rights, group, owner, tokenGrant, mode, audits, setup>>

\* The endpoint is restarted with another authentication.
Reconfigure ==
    /\ mode' \in setup.modes \ {mode}
    /\ UNCHANGED <<threads, rights, group, owner, cutoff, tokenGrant, audits, setup>>

-----------------------------------------------------------------------------
\* authorize_access: the read is recorded, or denied.
Audited(by, g) ==
    /\ audits' = IF ScopeOpen(g) THEN audits \cup {[by |-> by, grant |-> g]} ELSE audits
    /\ Cardinality(audits') <= setup.reads

\* Without a key a read is refused while keyed bindings are active.
SlotRead ==
    /\ mode = "tunnel"
    /\ ~Keyed
    /\ slot # 0
    /\ Valid(slot)
    /\ Audited([kind |-> "slot", id |-> 0], slot)
    /\ UNCHANGED <<threads, rights, group, owner, cutoff, tokenGrant, mode, setup>>

CapabilityRead(g) ==
    /\ mode = "oauth"
    /\ g \in Granted
    /\ grant[g].way = "capability"
    /\ Valid(g)
    /\ Audited([kind |-> "capability", id |-> g], g)
    /\ UNCHANGED <<threads, rights, group, owner, cutoff, tokenGrant, mode, setup>>

\* Mutant: the owner of the key is not compared.
KeyResolvedForAny(g, by) ==
    /\ g \in Granted
    /\ key[g].status = "active"
    /\ key[g].mode = mode
    /\ Valid(g)
    /\ IF mode = "oauth"
       THEN /\ by \in {Identity[k] : k \in {j \in Tokens : cutoff[j] # -1}}
            /\ key' = [key EXCEPT ![g].owner = by]
       ELSE by = "tunnel" /\ UNCHANGED key

\* resolve_active_thread_binding: the first OAuth user of a key claims it.
KeyResolved(g, by) ==
    /\ g \in Granted
    /\ key[g].status = "active"
    /\ key[g].mode = mode
    /\ Valid(g)
    /\ IF mode = "oauth"
       THEN /\ by \in {Identity[k] : k \in {j \in Tokens : cutoff[j] # -1}}
            /\ key[g].owner \in {"nobody", by}
            /\ key' = [key EXCEPT ![g].owner = by]
       ELSE by = "tunnel" /\ UNCHANGED key

KeyRead(g, by) ==
    /\ KeyResolved(g, by)
    /\ Audited([kind |-> "key", id |-> g, by |-> by], g)
    /\ UNCHANGED <<threads, grant, lastGrant, slot, group, owner, cutoff,
                   tokenGrant, mode, setup>>

\* Grants a token may bind itself to, of which it takes the newest.
Candidates(k) ==
    {g \in Granted : g <= cutoff[k] /\ Valid(g) /\ grant[g].thread \in Conversations}

\* resolve_or_bind_oauth_capability: a bound token stays with its grant.
TokenRead(k) ==
    /\ mode = "oauth"
    /\ cutoff[k] # -1
    /\ ~Keyed
    /\ IF tokenGrant[k] # 0 THEN Valid(tokenGrant[k]) ELSE Candidates(k) # {}
    /\ LET g == IF tokenGrant[k] # 0 THEN tokenGrant[k] ELSE Max(Candidates(k)) IN
          /\ tokenGrant' = [tokenGrant EXCEPT ![k] = g]
          /\ Audited([kind |-> "token", id |-> k], g)
    /\ UNCHANGED <<threads, rights, group, owner, cutoff, mode, setup>>

-----------------------------------------------------------------------------
Grants ==
    \E perm \in setup.perms :
        \/ \E t \in Threads : CreateGrant(t, perm)
        \/ \E c \in Conversations :
              \/ ReplaceTunnel(c, perm)
              \/ \E scope \in SUBSET Conversations : CreateKey(c, scope, perm)

Endings ==
    /\ setup.ends
    /\ \/ \E g \in Granted : RevokeGrant(g) \/ RevokeKey(g) \/ Expire(g)
       \/ RevokeTunnel
       \/ \E members \in SUBSET Conversations : ChangeGroup(members)

Surroundings ==
    \/ \E c \in Conversations : Relink(c)
    \/ \E k \in Tokens : IssueToken(k)
    \/ Reconfigure

\* Reads that leave the state of the synchronisation alone.
PlainReads ==
    \/ SlotRead
    \/ \E g \in Granted :
          \/ CapabilityRead(g)
          \/ \E by \in Identities \cup {"tunnel"} : KeyRead(g, by)
    \/ \E k \in Tokens : TokenRead(k)

AccessNext == Grants \/ Endings \/ Surroundings \/ PlainReads
=============================================================================
