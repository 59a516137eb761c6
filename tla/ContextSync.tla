---------------------------- MODULE ContextSync ----------------------------
(***************************************************************************)
(* Reading a customer's context in acknowledged batches                    *)
(* (backend/app/services/customer_context_sync.py, customer_sync_models.py *)
(* and the tool calls of customer_context_reader.py), over the access that *)
(* ContextAccess grants.                                                   *)
(*                                                                         *)
(* A keyed reader is given the next page of texts, or the archived images  *)
(* that changed, as a batch that is repeated until it is confirmed.  The   *)
(* progress belongs to the owner of the key, its sources and permissions,  *)
(* not to the grant: it survives a new key.  The unified timeline links a  *)
(* text batch to an image batch, whose images must be read first.          *)
(***************************************************************************)
EXTENDS ContextAccess, Sequences

CONSTANTS
    MaxMessages,  \* bound: text messages
    SourceOf,     \* message id -> its conversation
    Images,       \* archived images
    MessageOf,    \* image -> its message
    MaxBatches,   \* bound: rows of customer_context_read_batches
    PageSize      \* texts of a page, of the first window and of the tail that
                  \* no summary covers (200)

MessageIds == 1..MaxMessages
BatchIds == 1..MaxBatches

ASSUME SyncAssumption ==
    /\ MaxMessages \in Nat
    /\ SourceOf \in [MessageIds -> Conversations]
    /\ MessageOf \in [Images -> MessageIds]
    /\ MaxBatches \in Nat
    /\ PageSize \in Nat \ {0}

VARIABLES
    lastMsg,    \* text messages stored so far
    image,      \* image -> what the archive says of it
    horizon,    \* grant -> newest message when it was confirmed
    sync,       \* scope -> row of customer_context_sync_states
    batch,      \* batch id -> row of customer_context_read_batches
    lastBatch   \* the newest batch id (0: none)

content == <<lastMsg, image>>
progress == <<sync, batch, lastBatch>>
syncVars == <<accessVars, content, horizon, progress>>

-----------------------------------------------------------------------------
\* _scope: whose progress it is.  The horizon of a grant without new messages is
\* its own.
ScopeOf(g) ==
    [owner   |-> key[g].owner,
     sources |-> grant[g].scope,
     perm    |-> grant[g].perm,
     horizon |-> IF grant[g].perm = "frozen" THEN g ELSE 0]

\* Messages and images a scope shows.
Shows(s, m) ==
    /\ m <= lastMsg
    /\ SourceOf[m] \in s.sources
    /\ s.horizon # 0 => m <= horizon[s.horizon]

Texts(s) == {m \in MessageIds : Shows(s, m)}

\* Rows of the manifest: the images of the scope that the archive knows.
Manifest(s) ==
    {i \in Images : image[i] # "none" /\ s.perm # "text" /\ Shows(s, MessageOf[i])}

FreshState ==
    [textV   |-> 0, imageV |-> 0,     \* versions
     mark    |-> 0, sumMark |-> 0,    \* watermarks of the texts and the summary
     summary |-> FALSE,               \* there is a summary
     acked   |-> [i \in Images |-> "none"]]  \* image_versions_json

StateOf(s) == IF s \in DOMAIN sync THEN sync[s] ELSE FreshState

SyncWith(s, row) == [t \in DOMAIN sync \cup {s} |-> IF t = s THEN row ELSE sync[t]]

\* What a batch carries of an image: its state in the archive.
NoImages == [i \in Images |-> "none"]

Batches == 1..lastBatch

PendingOf(s, kind) ==
    {b \in Batches : batch[b].scope = s /\ batch[b].kind = kind /\ batch[b].status = "pending"}

\* Confirmed texts that no summary covers.
Unsummarised(s) ==
    {m \in UNION {batch[b].texts : b \in {c \in Batches :
            batch[c].scope = s /\ batch[c].status = "confirmed"}} : m > StateOf(s).sumMark}

Lowest(n, ids) == {m \in ids : Cardinality({k \in ids : k < m}) < n}
Highest(n, ids) == {m \in ids : Cardinality({k \in ids : k > m}) < n}

SyncTypeOK ==
    /\ lastMsg \in 0..setup.messages
    /\ image \in [Images -> {"none", "pending", "stored", "deleted"}]
    /\ horizon \in [Granted -> 0..lastMsg]
    /\ \A s \in DOMAIN sync :
          /\ sync[s].mark \in 0..lastMsg
          /\ sync[s].sumMark \in 0..sync[s].mark
          /\ sync[s].textV \in 0..lastBatch /\ sync[s].imageV \in Nat
    /\ lastBatch \in 0..setup.batches
    /\ DOMAIN batch = Batches
    /\ \A b \in Batches :
          /\ batch[b].scope \in DOMAIN sync
          /\ batch[b].kind \in {"text", "image"}
          /\ batch[b].status \in {"pending", "confirmed", "superseded"}
          /\ batch[b].texts \subseteq 1..lastMsg
          /\ batch[b].read \subseteq Images
          /\ batch[b].link \in 0..lastBatch

SyncInit ==
    /\ AccessInit
    /\ lastMsg = 0
    /\ image = NoImages
    /\ horizon = <<>>
    /\ sync = [s \in {} |-> FreshState]
    /\ batch = <<>>
    /\ lastBatch = 0

-----------------------------------------------------------------------------
\* The archive and the ingestion.
Message ==
    /\ lastMsg < setup.messages
    /\ lastMsg' = lastMsg + 1
    /\ UNCHANGED <<accessVars, image, horizon, progress>>

Archive(i) ==
    /\ setup.images
    /\ MessageOf[i] <= lastMsg
    /\ \/ image[i] = "none" /\ image' = [image EXCEPT ![i] = "pending"]
       \/ image[i] \in {"none", "pending"} /\ image' = [image EXCEPT ![i] = "stored"]
       \/ image[i] \in {"pending", "stored"} /\ image' = [image EXCEPT ![i] = "deleted"]
    /\ UNCHANGED <<accessVars, lastMsg, horizon, progress>>

-----------------------------------------------------------------------------
\* A tool call with the key g: its credential is resolved and the read recorded.
Called(g, by) == KeyRead(g, by) /\ ScopeOpen(g)

\* The scope once the call's identity has claimed the key.
ScopeFor(g, by) == [ScopeOf(g) EXCEPT !.owner = by]

NewBatch(s, kind, base) ==
    [scope |-> s, kind |-> kind, status |-> "pending", base |-> base,
     texts |-> {}, images |-> NoImages, read |-> {}, link |-> 0]

\* Mutant: the watermark of the texts stays behind the summary that is taken over.
BootstrappedSummary(s) ==
    LET row == StateOf(s) IN
    IF row.textV = 0 /\ ~row.summary /\ Cardinality(s.sources) = 1 /\ s.perm # "frozen"
    THEN {row} \cup {[row EXCEPT !.summary = TRUE, !.sumMark = m] : m \in Texts(s)}
    ELSE {row}

\* text(): a state without a summary may take over the one of the sales agent.
Bootstrapped(s) ==
    LET row == StateOf(s) IN
    IF row.textV = 0 /\ ~row.summary /\ Cardinality(s.sources) = 1 /\ s.perm # "frozen"
    THEN {row} \cup {[row EXCEPT !.summary = TRUE, !.mark = m, !.sumMark = m] : m \in Texts(s)}
    ELSE {row}

\* Mutant: the page begins at the watermark.
PageFrom(s, row) ==
    IF row.textV = 0 /\ ~row.summary THEN Highest(PageSize, Texts(s))
    ELSE Lowest(PageSize, {m \in Texts(s) : m >= row.mark})

\* The next page: the first one is the latest window, the others go forward.
Page(s, row) ==
    IF row.textV = 0 /\ ~row.summary THEN Highest(PageSize, Texts(s))
    ELSE Lowest(PageSize, {m \in Texts(s) : m > row.mark})

\* A text read that finds its pending batch repeats it; with nothing new there is
\* no batch.
ReadText(g, by) ==
    LET s == ScopeFor(g, by) IN
    /\ Called(g, by)
    /\ PendingOf(s, "text") = {}
    /\ \E row \in Bootstrapped(s) :
          /\ sync' = SyncWith(s, row)
          /\ IF Page(s, row) = {} /\ row.textV # 0
             THEN UNCHANGED <<batch, lastBatch>>
             ELSE /\ lastBatch < setup.batches
                  /\ lastBatch' = lastBatch + 1
                  /\ batch' = Append(batch, [NewBatch(s, "text", row.textV) EXCEPT
                                                 !.texts = Page(s, row)])
    /\ UNCHANGED <<content, horizon>>

\* A pending image batch is superseded when one of its images has changed.
Stale(s) ==
    {b \in PendingOf(s, "image") :
        \E i \in Images : batch[b].images[i] # "none" /\ batch[b].images[i] # image[i]}

Superseded(s) ==
    [b \in Batches |-> IF b \in Stale(s) THEN [batch[b] EXCEPT !.status = "superseded"]
                       ELSE batch[b]]

AfterManifest(s) ==
    IF Stale(s) = {} THEN StateOf(s)
    ELSE [StateOf(s) EXCEPT !.imageV = @ + 1]

Changed(s) == {i \in Manifest(s) : StateOf(s).acked[i] # image[i]}

\* The batch images() offers: the pending one, a new one, or none (0).
Offered(s) ==
    IF PendingOf(s, "image") \ Stale(s) # {} THEN Max(PendingOf(s, "image"))
    ELSE IF Changed(s) # {} THEN lastBatch + 1 ELSE 0

\* The rows images() leaves.
RowsAfter(s) ==
    IF Offered(s) = lastBatch + 1
    THEN Append(Superseded(s),
            [NewBatch(s, "image", AfterManifest(s).imageV) EXCEPT
                !.images = [i \in Images |-> IF i \in Changed(s) THEN image[i] ELSE "none"]])
    ELSE Superseded(s)

ManifestRead(g, by, rows) ==
    LET s == ScopeFor(g, by) IN
    /\ Called(g, by)
    /\ s.perm # "text"
    /\ Len(rows) <= setup.batches
    /\ sync' = SyncWith(s, AfterManifest(s))
    /\ batch' = rows
    /\ lastBatch' = Len(rows)
    /\ UNCHANGED <<content, horizon>>

ReadManifest(g, by) == ManifestRead(g, by, RowsAfter(ScopeFor(g, by)))

\* The unified read, once its text batch is there (ReadText): the text batch is
\* linked to the image batch that is offered, if there is one.
ReadTimeline(g, by) ==
    LET s == ScopeFor(g, by) IN
    /\ PendingOf(s, "text") # {}
    /\ Offered(s) # 0
    /\ ManifestRead(g, by, [RowsAfter(s) EXCEPT ![Max(PendingOf(s, "text"))].link = Offered(s)])

\* An image is delivered; a pending batch that carries it counts it as read.
ReadImage(g, by, i) ==
    LET s == ScopeFor(g, by) IN
    /\ Called(g, by)
    /\ i \in Manifest(s)
    /\ image[i] = "stored"
    /\ sync' = SyncWith(s, StateOf(s))
    /\ batch' = [b \in Batches |->
                    IF b \in PendingOf(s, "image") /\ batch[b].images[i] = "stored"
                    THEN [batch[b] EXCEPT !.read = @ \cup {i}] ELSE batch[b]]
    /\ UNCHANGED <<content, horizon, lastBatch>>

-----------------------------------------------------------------------------
AllRead(b) == \A i \in Images : batch[b].images[i] = "stored" => i \in batch[b].read

\* The texts that no summary covers, with those of the batch.
Fits(s, b) == Cardinality(Unsummarised(s)) + Cardinality(batch[b].texts) <= PageSize

\* Mutant: what the archive says now.
SeenNow(b, i) == image[i]

\* What a batch has shown of an image.
Seen(b, i) == batch[b].images[i]

\* A confirmation of the pending batch b, with a summary of everything so far or
\* without.  To confirm again changes nothing.
ConfirmText(g, by, b, summed) ==
    LET s == ScopeFor(g, by)
        row == StateOf(s)
        mark == Max(batch[b].texts \cup {row.mark})
    IN
    /\ Called(g, by)
    /\ b \in PendingOf(s, "text")
    /\ batch[b].base = row.textV
    /\ batch[b].link # 0 =>
          /\ batch[batch[b].link].status \in {"pending", "confirmed"}
          /\ AllRead(batch[b].link)
    /\ summed \/ Fits(s, b)
    /\ sync' = [sync EXCEPT ![s] =
                   [row EXCEPT !.textV = batch[b].base + 1, !.mark = mark,
                               !.sumMark = IF summed THEN mark ELSE row.sumMark,
                               !.summary = summed \/ row.summary]]
    /\ batch' = [batch EXCEPT ![b].status = "confirmed"]
    /\ UNCHANGED <<content, horizon, lastBatch>>

ConfirmImages(g, by, b) ==
    LET s == ScopeFor(g, by)
        row == StateOf(s)
    IN
    /\ Called(g, by)
    /\ b \in PendingOf(s, "image")
    /\ batch[b].base = row.imageV
    /\ AllRead(b)
    /\ sync' = [sync EXCEPT ![s] =
                   [row EXCEPT !.imageV = batch[b].base + 1,
                               !.acked = [i \in Images |->
                                             IF batch[b].images[i] = "none" THEN row.acked[i]
                                             ELSE Seen(b, i)]]]
    /\ batch' = [batch EXCEPT ![b].status = "confirmed"]
    /\ UNCHANGED <<content, horizon, lastBatch>>

-----------------------------------------------------------------------------
\* What ContextAccess does by itself.  A grant sees the messages it was confirmed
\* over.
Access ==
    /\ AccessNext
    /\ horizon' = [g \in 1..lastGrant' |-> IF g \in Granted THEN horizon[g] ELSE lastMsg]
    /\ UNCHANGED <<content, progress>>

Reads ==
    \E g \in Granted, by \in Identities \cup {"tunnel"} :
        \/ ReadText(g, by) \/ ReadManifest(g, by) \/ ReadTimeline(g, by)
        \/ \E i \in Images : ReadImage(g, by, i)
        \/ \E b \in Batches :
              \/ \E summed \in BOOLEAN : ConfirmText(g, by, b, summed)
              \/ ConfirmImages(g, by, b)

SyncNext == Access \/ Message \/ (\E i \in Images : Archive(i)) \/ Reads
=============================================================================
