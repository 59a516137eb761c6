----------------------------- MODULE MCContext -----------------------------
(***************************************************************************)
(* Values for the constants of ContextAccess, ContextSync, Requirements,   *)
(* RequirementMaterials and GlobalAgent.                                   *)
(***************************************************************************)
EXTENDS ContextProps, TLC

CONSTANTS a, b, agent, clerk, k1, k2, ann, bob, pic, home, other

ByToken == (k1 :> ann) @@ (k2 :> bob)
BySource == <<a, a, a, a>>
ByImage == (pic :> 1)

Base == [ways |-> {"key"}, threads |-> {a}, perms |-> {"all"}, modes |-> {"tunnel"},
         ends |-> TRUE, relink |-> FALSE, grants |-> 3, reads |-> 0, messages |-> 0, images |-> FALSE,
         batches |-> 0, fresh |-> {}, relates |-> {}, imports |-> 0, proposals |-> 0,
         versions |-> 0, tasks |-> 0, stops |-> 0, uploads |-> 0, answers |-> 0, moves |-> FALSE]

\* Grants, keys and the slot replace each other; so do the grants of an agent's
\* thread.
Replacing == [Base EXCEPT !.ways = {"capability", "tunnel", "key"}, !.threads = {a, b}]
Moving == [Base EXCEPT !.ways = {"capability"}, !.threads = {agent}, !.moves = TRUE]

\* Tokens, keys and capabilities of two users, while the mode changes.
Owning == [Base EXCEPT !.ways = {"capability", "key"},
                       !.modes = {"oauth", "tunnel"}, !.grants = 2, !.reads = 2]

\* Groups lose and regain their members.
Grouping == [Base EXCEPT !.ways = {"group"}, !.relink = TRUE, !.grants = 2, !.reads = 1]

\* Texts in pages; texts and an image in the timeline; and a second key.
Texting == [Base EXCEPT !.ends = FALSE, !.grants = 1, !.reads = 1, !.messages = 4,
                        !.batches = 4]
Picturing == [Base EXCEPT !.ends = FALSE, !.grants = 1, !.reads = 1, !.messages = 1,
                          !.images = TRUE, !.batches = 4]
Rekeying == [Base EXCEPT !.ends = FALSE, !.perms = {"all", "frozen"}, !.grants = 2,
                         !.reads = 2, !.messages = 2, !.batches = 2]

\* Imports of two conversations, one of them without a customer yet; edits and
\* transfers.
ImportingCases == [Base EXCEPT !.grants = 0, !.fresh = {b}, !.relates = {b}, !.imports = 2,
                          !.versions = 2]

\* Proposals over a group whose members leave; beside an import; with a picture.
ProposingCases == [Base EXCEPT !.ways = {"group"}, !.relink = TRUE, !.grants = 1, !.reads = 1,
                          !.proposals = 2, !.versions = 1]
CompetingCases == [Base EXCEPT !.ends = FALSE, !.grants = 1, !.reads = 1, !.proposals = 2,
                               !.imports = 1, !.versions = 2]
RelatingCases == [Base EXCEPT !.ends = FALSE, !.relates = {a}, !.grants = 1, !.reads = 1,
                              !.proposals = 1, !.imports = 1, !.versions = 1]
ShowingEvidence == [Base EXCEPT !.ends = FALSE, !.perms = {"all", "text"}, !.grants = 1,
                           !.reads = 1, !.messages = 1, !.images = TRUE, !.proposals = 1,
                           !.versions = 1]

\* Analyses beside an import, over two stops; pictures of a conversation.
AnalysingTwice == [Base EXCEPT !.grants = 0, !.imports = 1, !.versions = 2, !.tasks = 2,
                          !.stops = 2]
AttachingPictures == [Base EXCEPT !.grants = 0, !.uploads = 3, !.stops = 1]

\* Two threads answer about one conversation while messages arrive; one thread, more
\* messages than a window; a thread that moves, with a stop; a proposal of a
\* customer beside the user's own decision.
Summarising == [Base EXCEPT !.threads = {agent, clerk}, !.grants = 0, !.messages = 2,
                            !.answers = 2]
Rechecking == [Base EXCEPT !.threads = {agent}, !.grants = 0, !.messages = 4, !.answers = 2]
Answering == [Base EXCEPT !.threads = {agent}, !.grants = 0, !.answers = 2, !.stops = 1,
                          !.moves = TRUE]
ProposingCustomers == [Base EXCEPT !.threads = {agent}, !.grants = 0, !.fresh = {a, b},
                                   !.relates = {a}, !.answers = 1]

AllSetups == {Replacing, Moving, Owning, Grouping, Texting, Picturing, Rekeying, ImportingCases,
              ProposingCases, CompetingCases, RelatingCases, ShowingEvidence, AnalysingTwice, AttachingPictures,
              Summarising, Rechecking, Answering, ProposingCustomers}
=============================================================================
