-------------------------- MODULE LoginCoordinator --------------------------
(***************************************************************************)
(* Login and the realm list (crates/runtime application/                   *)
(* login_coordinator.rs, the login arms of client_services.rs, and         *)
(* crates/network authentication/grunt_login.rs).                          *)
(*                                                                         *)
(* One worker task at a time owns the realmd stream: it logs in or asks    *)
(* for the realm list.  The main thread polls a one-shot channel for its   *)
(* outcome once a frame and, between polls, obeys the Glue screens.        *)
(* Requests and replies on the stream are numbered; realmd answers every   *)
(* request it reads, in order.  A session is shown only when the scenes of *)
(* GlueBackdrops, read meanwhile, are all there.                           *)
(***************************************************************************)
EXTENDS Integers, GlueBackdrops

CONSTANTS
    MaxLogins,     \* bound: login attempts in one behaviour
    MaxRequests,   \* bound: realm-list requests of the first login; one fewer
                   \* for the second, and so on
    AsksAgain      \* may the user ask again while a cancelled query settles?

ASSUME LoginAssumption ==
    /\ MaxLogins \in Nat \ {0} /\ MaxRequests \in Nat \ {0} /\ AsksAgain \in BOOLEAN

VARIABLES
    task,          \* RuntimeLoginCoordinator.active: its kind
    canCancel,     \* active.cancellation has not been taken
    stopping,      \* the cancellation is on its way to the worker
    worker,        \* where the spawned task is
    outcome,       \* content of the one-shot result channel
    authenticated, \* the main thread retains the realmd session
    rows,          \* which request the session's realm rows answer
    requests,      \* realm-list requests written on this stream
    answered,      \* ... of which realmd has answered
    consumed,      \* ... and whose answer has been read completely
    torn,          \* an answer was read in part and then abandoned
    realmdOpen,    \* the peer keeps the connection
    prewarm,       \* authentication_prewarm_active
    published,     \* realm_directory_published
    dialog,        \* the Glue status dialog
    pendingRealm,  \* pending_realm_id: the login it was chosen in, 0 for None
    logins,        \* attempts so far
    cancels        \* history: a query was cancelled on this stream

streamVars == <<requests, answered, consumed, torn, realmdOpen, cancels>>
taskVars == <<task, canCancel, stopping, worker, outcome>>
sessionVars == <<authenticated, rows>>
glueVars == <<prewarm, published, dialog>>
loginVars == <<taskVars, sessionVars, streamVars, glueVars, pendingRealm, logins>>
vars == <<loginVars, backdropVars>>

Nothing == "nothing"
Busy == {"connecting", "request", "waiting", "reading"}

TypeOK ==
    /\ task \in {"none", "login", "refresh"}
    /\ canCancel \in BOOLEAN /\ stopping \in BOOLEAN
    /\ worker \in Busy \union {"idle"}
    /\ outcome \in {Nothing, "authenticated", "updated", "cancelled", "failed"}
    /\ authenticated \in BOOLEAN
    /\ rows \in 0..MaxRequests
    /\ requests \in 0..MaxRequests /\ answered \in 0..requests /\ consumed \in 0..answered
    /\ torn \in BOOLEAN /\ realmdOpen \in BOOLEAN /\ cancels \in BOOLEAN
    /\ prewarm \in BOOLEAN /\ published \in BOOLEAN
    /\ dialog \in {"none", "cancel", "okay"}
    /\ logins \in 0..MaxLogins /\ pendingRealm \in 0..logins

\* A login connects anew.
FreshStream ==
    /\ requests' = 0 /\ answered' = 0 /\ consumed' = 0
    /\ torn' = FALSE /\ realmdOpen' = TRUE /\ cancels' = FALSE

Init ==
    /\ task = "none" /\ canCancel = FALSE /\ stopping = FALSE
    /\ worker = "idle" /\ outcome = Nothing
    /\ authenticated = FALSE /\ rows = 0
    /\ requests = 0 /\ answered = 0 /\ consumed = 0
    /\ torn = FALSE /\ realmdOpen = TRUE /\ cancels = FALSE
    /\ prewarm = FALSE /\ published = FALSE /\ dialog = "none"
    /\ logins = 0 /\ pendingRealm = 0
    /\ BackdropInit

-----------------------------------------------------------------------------
(* The coordinator's operations, used by the Glue actions below.           *)

Spawn(kind, stage) ==
    /\ task' = kind /\ canCancel' = (kind = "refresh") /\ stopping' = FALSE
    /\ worker' = stage /\ outcome' = Nothing

\* cancel: the task is aborted, and with it whatever it owns or has sent.
Abort ==
    /\ task' = "none" /\ canCancel' = FALSE /\ stopping' = FALSE
    /\ worker' = "idle" /\ outcome' = Nothing

\* cancel_realm_refresh returns true.
CanStop == task = "refresh" /\ canCancel /\ worker \in Busy

\* cancel_realm_refresh takes the sender whether or not its worker still listens.
TakeCancellation ==
    /\ canCancel' = (canCancel /\ task # "refresh")
    /\ stopping' = (stopping \/ CanStop)
    /\ UNCHANGED <<task, worker, outcome>>

\* disconnect: the task and the retained session go.
DropLogin ==
    /\ Abort
    /\ authenticated' = FALSE /\ rows' = 0

PublishFailure == prewarm' = FALSE /\ published' = FALSE /\ dialog' = "okay"

\* begin_pending_world; a realm once listed stays listed.
BeginPendingWorld ==
    pendingRealm' = IF authenticated' THEN 0 ELSE pendingRealm

-----------------------------------------------------------------------------
(* Glue actions drained by service_login.  The status dialog is modal.     *)

\* begin; the credentials may be refused before a task is spawned.
Login ==
    /\ task = "none" /\ ~authenticated /\ dialog # "cancel" /\ logins < MaxLogins
    /\ logins' = logins + 1
    /\ UNCHANGED <<sessionVars, pendingRealm>>
    /\ \/ /\ Spawn("login", "connecting") /\ FreshStream
          /\ published' = FALSE /\ prewarm' = TRUE /\ dialog' = "cancel"
       \/ /\ PublishFailure
          /\ UNCHANGED <<taskVars, streamVars>>

\* Called by the security prompts that belong to a login in progress.
CancelLogin ==
    /\ dialog # "none" /\ task = "login"
    /\ dialog' = "none"
    /\ Abort
    /\ prewarm' = FALSE /\ published' = FALSE
    /\ UNCHANGED <<sessionVars, streamVars, pendingRealm, logins>>

\* StatusDialogClick outside a character operation.
StatusDialogClick ==
    /\ dialog # "none"
    /\ dialog' = "none"
    /\ IF CanStop \/ task = "none"
       THEN TakeCancellation /\ UNCHANGED published
       ELSE Abort /\ published' = FALSE
    /\ UNCHANGED <<sessionVars, streamVars, prewarm, pendingRealm, logins>>

\* Defect: the session is copied, not moved, into the refresh task.
RequestRealmList_Copies(showDialog) ==
    /\ dialog # "cancel" /\ requests + logins <= MaxRequests /\ (AsksAgain \/ ~stopping)
    /\ task = "none" /\ authenticated
    /\ Spawn("refresh", "request")
    /\ dialog' = IF showDialog THEN "cancel" ELSE dialog
    /\ UNCHANGED <<sessionVars, streamVars, pendingRealm, logins, prewarm, published>>

\* refresh_realms; its AlreadyActive is ignored and NotAuthenticated shown.
RequestRealmList(showDialog) ==
    /\ dialog # "cancel" /\ requests + logins <= MaxRequests /\ (AsksAgain \/ ~stopping)
    /\ UNCHANGED <<streamVars, rows, pendingRealm, logins>>
    /\ \/ /\ task = "none" /\ authenticated
          /\ authenticated' = FALSE
          /\ Spawn("refresh", "request")
          /\ dialog' = IF showDialog THEN "cancel" ELSE dialog
          /\ UNCHANGED <<prewarm, published>>
       \/ /\ task # "none"
          /\ dialog' = IF showDialog THEN "cancel" ELSE dialog
          /\ UNCHANGED <<taskVars, authenticated, prewarm, published>>
       \/ /\ task = "none" /\ ~authenticated
          /\ PublishFailure
          /\ UNCHANGED <<taskVars, authenticated>>

\* Sent when the realm list is left, so never from under the modal dialog.
CancelRealmListQuery ==
    /\ dialog # "cancel" /\ task = "refresh"
    /\ TakeCancellation
    /\ UNCHANGED <<sessionVars, streamVars, glueVars, pendingRealm, logins>>

\* ChangeRealm; the list is hidden first, which cancels its query.
ChangeRealm ==
    /\ published /\ dialog # "cancel" /\ (authenticated \/ task = "refresh")
    /\ TakeCancellation
    /\ pendingRealm' = IF authenticated THEN 0 ELSE logins
    /\ UNCHANGED <<sessionVars, streamVars, glueVars, logins>>

\* RealmListDialogCancelled from the login screen: its list is still open.
CloseRealmList ==
    /\ dialog # "cancel" /\ pendingRealm # logins /\ (task # "none" \/ authenticated)
    /\ DropLogin
    /\ published' = FALSE
    /\ UNCHANGED <<streamVars, prewarm, dialog, pendingRealm, logins>>

\* The login half of disconnect_from_server.
Disconnect ==
    /\ dialog # "cancel" /\ (task # "none" \/ authenticated)
    /\ DropLogin
    /\ prewarm' = FALSE /\ published' = FALSE /\ pendingRealm' = 0
    /\ UNCHANGED <<streamVars, dialog, logins>>

\* A frame under the authentication dialog or a movie.  The frame that starts a
\* login does not end the prewarm, which the next one may.
PrewarmFrame(spare) ==
    /\ ServicePrewarms(spare)
    /\ prewarm' = (prewarm /\ ~BackdropsComplete')
    /\ UNCHANGED <<taskVars, sessionVars, streamVars, published, dialog, pendingRealm, logins>>

\* Any other Glue frame: the screens behind the realm list, while no dialog
\* covers them, show scenes of their own, and every screen goes on reading.
ScreenFrame(room) ==
    /\ \/ published /\ dialog = "none" /\ \E s \in Scenes : AssignScene(s, room)
       \/ published /\ (SceneFrame(room) \/ ClearScene)
       \/ OtherSceneFrame
       \/ AskAgain(room)
    /\ UNCHANGED loginVars

-----------------------------------------------------------------------------
(* The worker task and realmd.                                             *)

\* The worker sends its result and ends; a cancellation still unread is lost.
Finish(result) == outcome' = result /\ worker' = "idle"

\* Connect, challenge and proof, SRP abstracted to accepted.
Authenticate ==
    /\ worker = "connecting" /\ realmdOpen
    /\ worker' = "request"
    /\ UNCHANGED <<task, canCancel, stopping, outcome, sessionVars, streamVars, glueVars, pendingRealm, logins>>

\* Connect refused, credentials rejected, or the peer gone.
WorkerFails ==
    /\ worker = "connecting" \/ (worker \in Busy /\ ~realmdOpen)
    /\ Finish("failed")
    /\ UNCHANGED <<task, canCancel, stopping, sessionVars, streamVars, glueVars, pendingRealm, logins>>

\* request_realms: the request is written whole.
WriteRequest ==
    /\ worker = "request" /\ requests + logins <= MaxRequests
    /\ requests' = requests + 1
    /\ worker' = "waiting"
    /\ UNCHANGED <<task, canCancel, stopping, outcome, sessionVars, answered, consumed, torn,
                   realmdOpen, cancels, glueVars, pendingRealm, logins>>

RealmdAnswers ==
    /\ realmdOpen /\ answered < requests
    /\ answered' = answered + 1
    /\ UNCHANGED <<taskVars, sessionVars, requests, consumed, torn, realmdOpen, cancels,
                   glueVars, pendingRealm, logins>>

RealmdCloses ==
    /\ realmdOpen /\ logins > 0
    /\ realmdOpen' = FALSE
    /\ UNCHANGED <<taskVars, sessionVars, requests, answered, consumed, torn, cancels,
                   glueVars, pendingRealm, logins>>

\* The first bytes of the oldest unread answer arrive.
BeginRead ==
    /\ worker = "waiting" /\ consumed < answered
    /\ worker' = "reading"
    /\ UNCHANGED <<task, canCancel, stopping, outcome, sessionVars, streamVars, glueVars, pendingRealm, logins>>

\* Defect: the refreshed rows are not stored in the session.
FinishRead_KeepsRows ==
    /\ worker = "reading"
    /\ consumed' = consumed + 1
    /\ rows' = IF task = "login" THEN consumed + 1 ELSE rows
    /\ Finish(IF task = "login" THEN "authenticated" ELSE "updated")
    /\ UNCHANGED <<task, canCancel, stopping, authenticated, requests, answered, torn,
                   realmdOpen, cancels, glueVars, pendingRealm, logins>>

\* A reader that starts in the middle of an answer decodes no realm list.
FinishRead ==
    /\ worker = "reading"
    /\ \/ /\ ~torn
          /\ consumed' = consumed + 1
          /\ rows' = consumed + 1
          /\ Finish(IF task = "login" THEN "authenticated" ELSE "updated")
       \/ /\ torn
          /\ Finish("failed")
          /\ UNCHANGED <<consumed, rows>>
    /\ UNCHANGED <<task, canCancel, stopping, authenticated, requests, answered, torn,
                   realmdOpen, cancels, glueVars, pendingRealm, logins>>

\* Defect: the cancellation is looked at once, before the request is written.
ObserveCancel_BeforeRequest ==
    /\ task = "refresh" /\ stopping /\ worker = "request"
    /\ Finish("cancelled")
    /\ cancels' = TRUE
    /\ UNCHANGED <<task, canCancel, stopping, sessionVars, requests, answered, consumed, torn,
                   realmdOpen, glueVars, pendingRealm, logins>>

\* select! takes the cancellation branch and drops the query where it is.
ObserveCancel ==
    /\ task = "refresh" /\ stopping /\ worker \in Busy
    /\ Finish("cancelled")
    /\ torn' = (torn \/ worker = "reading")
    /\ cancels' = TRUE
    /\ UNCHANGED <<task, canCancel, stopping, sessionVars, requests, answered, consumed,
                   realmdOpen, glueVars, pendingRealm, logins>>

-----------------------------------------------------------------------------
(* RuntimeLoginCoordinator::poll and the arms of service_login.            *)

\* The task has left an outcome.
PollFinished ==
    /\ task # "none" /\ outcome # Nothing
    /\ Abort
    /\ authenticated' = (outcome # "failed")
    /\ \/ /\ outcome = "failed"
          /\ PublishFailure
          /\ rows' = 0 /\ UNCHANGED pendingRealm
       \/ /\ outcome = "updated"
          /\ dialog' = "none" /\ published' = TRUE
          /\ BeginPendingWorld
          /\ UNCHANGED <<prewarm, rows>>
       \/ /\ outcome = "cancelled"
          /\ BeginPendingWorld
          /\ UNCHANGED <<glueVars, rows>>
       \/ /\ outcome = "authenticated"
          /\ IF prewarm \/ published
             THEN UNCHANGED <<dialog, published>>
             ELSE dialog' = "none" /\ published' = TRUE
          /\ UNCHANGED <<prewarm, rows, pendingRealm>>
    /\ UNCHANGED <<streamVars, logins>>

\* No task: an authenticated session not yet shown is shown.
PollAuthenticated ==
    /\ task = "none" /\ authenticated /\ ~prewarm /\ ~published
    /\ published' = TRUE /\ dialog' = "none"
    /\ UNCHANGED <<taskVars, sessionVars, streamVars, prewarm, pendingRealm, logins>>

Worker ==
    /\ Authenticate \/ WorkerFails \/ WriteRequest \/ BeginRead \/ FinishRead \/ ObserveCancel
    /\ UNCHANGED backdropVars

Poll == (PollFinished \/ PollAuthenticated) /\ UNCHANGED backdropVars

Glue ==
    \/ Login \/ CancelLogin \/ StatusDialogClick
    \/ \E showDialog \in BOOLEAN : RequestRealmList(showDialog)
    \/ CancelRealmListQuery \/ ChangeRealm \/ CloseRealmList \/ Disconnect

Jobs == (ReadEnds \/ PlanEnds) /\ UNCHANGED loginVars

Next ==
    \/ (Glue \/ RealmdAnswers \/ RealmdCloses) /\ UNCHANGED backdropVars
    \/ Worker \/ Poll \/ Jobs
    \/ \E spare \in BOOLEAN : PrewarmFrame(spare)
    \/ \E room \in BOOLEAN : ScreenFrame(room)

Spec == Init /\ [][Next]_vars

\* The workers run, frames go on and find room in the pool; realmd owes nothing,
\* nor does the user, who may leave a scene before it is there.
FairSpec ==
    Spec /\ WF_vars(Worker) /\ WF_vars(Poll) /\ WF_vars(Jobs)
         /\ WF_vars(prewarm /\ PrewarmFrame(TRUE))
         /\ WF_vars(AskAgain(TRUE) /\ UNCHANGED loginVars)

-----------------------------------------------------------------------------
(* Properties.                                                             *)

HasSession == authenticated \/ (task # "none" /\ outcome # "failed")

\* The realmd stream has one owner: the main thread never keeps a session
\* whose stream a worker is using (refresh_realms, :253-273).
OneStreamOwner == authenticated => task = "none" /\ worker = "idle"

\* As long as no query was cancelled the stream carries one exchange at a
\* time: a session between two exchanges has no answer left to read, and its
\* rows answer the last request.  Cancelling a query, which is dropped wherever
\* it stands, ends that (RefreshAnswersItself, below).
StreamInStep ==
    (authenticated \/ outcome \in {"authenticated", "updated"}) /\ ~cancels
        => consumed = requests /\ rows = requests /\ ~torn

\* What the documents promise; the code does not keep it (README, section 6):
\* a CANCEL dialog is there for something: an exchange in progress, or a
\* session about to be shown (realm-selection.md:3-9).
DialogHasOwner == dialog = "cancel" => task # "none" \/ (authenticated /\ ~published)

\* What the documents promise; the code does not keep it (README, section 6):
\* every refresh that completes returns the answer to its own request:
\* grunt_login.rs:119 "Requests and owns the current realm directory".
RefreshAnswersItself == outcome = "updated" => rows = requests

\* A cancelled query gives the session back without waiting for realmd.
CancelSettles == stopping ~> task = "none"

\* A realm chosen while its list is still being queried is entered as soon as
\* the query has settled, unless the login is lost (begin_pending_world).
ChosenRealmBegins ==
    pendingRealm # 0 /\ pendingRealm = logins ~> pendingRealm = 0 \/ ~HasSession

\* A CANCEL dialog is taken down once its exchange is over and the backdrops are
\* there, those that cannot be read given up; unless a read nobody asks for any
\* more keeps the prewarm from ending.
DialogCloses ==
    dialog = "cancel" /\ task = "none" ~> dialog # "cancel" \/ task # "none" \/ ReadAbandoned

\* What the documents promise; the code does not keep it (README, section 6):
\* leaving a scene does not cost the result of its read: glue-completion.md:213
\* "A new selection preserves the active request's eventual result".
DialogAlwaysCloses == dialog = "cancel" /\ task = "none" ~> dialog # "cancel" \/ task # "none"

\* Whatever waits for a query that was answered, lost or cancelled goes on: the session,
\* the dialog and the realm chosen meanwhile.
QueriesSettle == CancelSettles /\ DialogCloses /\ ChosenRealmBegins
=============================================================================
