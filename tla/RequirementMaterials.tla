------------------------ MODULE RequirementMaterials ------------------------
(***************************************************************************)
(* The pictures a user adds to a conversation for an analysis              *)
(* (backend/app/services/requirement_materials.py): one picture of one     *)
(* conversation, added to several messages, whose rows share one file.     *)
(*                                                                         *)
(* An upload runs on the event loop, a deletion in a thread of its own,    *)
(* and neither holds a lock: the rows a deletion counts, the commit of its *)
(* own row and the removal of the file are three steps, an upload reads    *)
(* and writes the file before it commits its row.                          *)
(***************************************************************************)
EXTENDS Requirements

CONSTANTS Spots  \* messages a picture is added to, or the conversation itself

VARIABLES
    attached,  \* rows of message_attachments: spot -> "none" or privacy_status
    file,      \* the shared file is there
    upload,    \* the upload that runs: its spot ("none": none) and whether it
               \* made the file
    removal,   \* spot -> how far its deletion is
    uploads,   \* uploads begun
    mixed      \* observed: a deletion ran beside an upload, beside another one

materials == <<attached, file, upload, removal, uploads, mixed>>
caseVars == <<syncVars, reqVars, materials>>

-----------------------------------------------------------------------------
Rows == {s \in Spots : attached[s] # "none"}

Removing == {s \in Spots : removal[s] # "none"}

NoUpload == [spot |-> "none", made |-> FALSE]

MaterialsTypeOK ==
    /\ attached \in [Spots -> {"none", "pending", "reviewed", "excluded"}]
    /\ file \in BOOLEAN
    /\ upload \in [spot : Spots \cup {"none"}, made : BOOLEAN]
    /\ removal \in [Spots -> {"none", "shared", "last", "unlink"}]
    /\ uploads \in 0..setup.uploads
    /\ mixed \subseteq {"upload", "deletion"}

MaterialsInit ==
    /\ attached = [s \in Spots |-> "none"]
    /\ file = FALSE
    /\ upload = NoUpload
    /\ removal = [s \in Spots |-> "none"]
    /\ uploads = 0
    /\ mixed = {}

CaseInit == SyncInit /\ ReqInit /\ MaterialsInit

\* add_attachment up to its commit: the file is written unless a row has it and
\* it is there.  The same picture at the same spot is a duplicate.
BeginUpload(s) ==
    /\ uploads < setup.uploads
    /\ upload = NoUpload
    /\ attached[s] = "none"
    /\ upload' = [spot |-> s, made |-> Rows = {} \/ ~file]
    /\ uploads' = uploads + 1
    /\ file' = TRUE
    /\ mixed' = IF Removing = {} THEN mixed ELSE mixed \cup {"upload"}
    /\ UNCHANGED <<attached, removal>>

\* The commit of its row; when that fails, a file it made goes again.
EndUpload ==
    /\ upload # NoUpload
    /\ upload' = NoUpload
    /\ \/ /\ attached' = [attached EXCEPT ![upload.spot] = "pending"]
          /\ UNCHANGED file
       \/ /\ file' = (file /\ ~upload.made)
          /\ UNCHANGED attached
    /\ UNCHANGED <<removal, uploads, mixed>>

\* update_privacy
Review(s) ==
    /\ s \in Rows
    /\ \E p \in {"pending", "reviewed", "excluded"} : attached' = [attached EXCEPT ![s] = p]
    /\ UNCHANGED <<file, upload, removal, uploads, mixed>>

\* Mutant: the rows of other messages are not counted.
NoneRemain(s) == TRUE

\* remaining_references = 0
LastRow(s) == Rows \subseteq {s}

BeginRemoval(s) ==
    /\ s \in Rows \ Removing
    /\ removal' = [removal EXCEPT ![s] = IF LastRow(s) THEN "last" ELSE "shared"]
    /\ mixed' = mixed \cup (IF upload # NoUpload THEN {"upload"} ELSE {})
                      \cup (IF Removing # {} THEN {"deletion"} ELSE {})
    /\ UNCHANGED <<attached, file, upload, uploads>>

CommitRemoval(s) ==
    /\ removal[s] \in {"last", "shared"}
    /\ attached' = [attached EXCEPT ![s] = "none"]
    /\ removal' = [removal EXCEPT ![s] = IF @ = "last" THEN "unlink" ELSE "none"]
    /\ UNCHANGED <<file, upload, uploads, mixed>>

RemoveFile(s) ==
    /\ removal[s] = "unlink"
    /\ file' = FALSE
    /\ removal' = [removal EXCEPT ![s] = "none"]
    /\ UNCHANGED <<attached, upload, uploads, mixed>>

Attaching ==
    \/ EndUpload
    \/ \E s \in Spots :
          \/ BeginUpload(s) \/ Review(s)
          \/ BeginRemoval(s) \/ CommitRemoval(s) \/ RemoveFile(s)

\* What Requirements does by itself; a stop ends the requests that run.
Work ==
    /\ ReqNext
    /\ IF up /\ ~up'
       THEN /\ upload' = NoUpload
            /\ removal' = [s \in Spots |-> "none"]
            /\ UNCHANGED <<attached, file, uploads, mixed>>
       ELSE UNCHANGED materials

CaseNext == Work \/ (up /\ Attaching /\ UNCHANGED <<syncVars, reqVars>>)
=============================================================================
