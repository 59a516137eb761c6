------------------------------ MODULE MCIntake ------------------------------
(***************************************************************************)
(* Values for the constants of MessageIntake and CustomerImages.           *)
(***************************************************************************)
EXTENDS IntakeProps, TLC

CONSTANTS a, b

ByConversation == <<a, a, b>>

\* Requests of the user meet a replacement of the login; messages are pushed,
\* missed, reconciled and hydrated, over a connection that holds or breaks; images
\* are deleted, imported and restored, pushed again over restarts, and downloaded
\* over a stop or a crash.
Base == [user |-> {}, answers |-> {}, images |-> {}, trouble |-> FALSE, messages |-> 0,
         imports |-> 0, requests |-> 0, logins |-> 1, restarts |-> 0]
Controlling == [Base EXCEPT !.user = {"pause", "resume", "reconnect", "recover", "shutdown"},
                            !.trouble = TRUE, !.requests = 2, !.logins = 2, !.restarts = 1]
Receiving == [Base EXCEPT !.answers = {"newest", "history"}, !.messages = 3]
Breaking == [Base EXCEPT !.answers = {"newest", "history"}, !.messages = 2, !.trouble = TRUE,
                        !.restarts = 1]
Deleting == [Base EXCEPT !.user = {"delete"}, !.images = {1, 2}, !.messages = 2,
                         !.imports = 1]
Replaying == [Base EXCEPT !.user = {"delete"}, !.images = {1}, !.messages = 1,
                          !.answers = {"repeat"}, !.imports = 2, !.restarts = 2]
Interrupting == [Base EXCEPT !.images = {1, 2}, !.messages = 2, !.imports = 1,
                             !.restarts = 1]
Stopping == [Base EXCEPT !.user = {"shutdown", "delete"}, !.images = {1}, !.messages = 1,
                         !.imports = 1, !.requests = 1, !.restarts = 1]
Restoring == [Base EXCEPT !.user = {"delete", "restore"}, !.images = {1}, !.messages = 1,
                          !.imports = 1, !.restarts = 1]
AllSetups == {Controlling, Receiving, Breaking, Deleting, Replaying, Interrupting,
              Stopping, Restoring}
=============================================================================
