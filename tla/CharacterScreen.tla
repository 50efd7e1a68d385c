--------------------------- MODULE CharacterScreen ---------------------------
(***************************************************************************)
(* Character selection and world entry (crates/runtime application/        *)
(* world_coordinator.rs, the character arms of client_services.rs and      *)
(* client_services/session_lifecycle.rs).                                  *)
(*                                                                         *)
(* The encrypted world session is a value: the main thread retains it, or  *)
(* lends it to one worker that writes a request and reads packets until    *)
(* the answer, or gives it to gameplay.  A frame first obeys the Glue      *)
(* screens, then admits a pending list refresh, then polls the login task  *)
(* and the worker.  A realm chosen while the login task asks for the realm *)
(* list waits for it, whatever the worker or gameplay does meanwhile.      *)
(* Bounds: MaxRequests character operations, MaxRealms realm queries and   *)
(* choices, MaxSetup unrelated packets, MaxEvents of them together, and    *)
(* SetupLimit for MAX_SETUP_PACKETS.                                       *)
(***************************************************************************)
EXTENDS Integers, Sequences, FiniteSets

CONSTANTS Characters, MaxRequests, MaxRealms, MaxSetup, MaxEvents, SetupLimit

ASSUME ScreenAssumption ==
    /\ IsFiniteSet(Characters)
    /\ MaxRequests \in Nat /\ MaxRealms \in Nat /\ MaxSetup \in Nat
    /\ MaxEvents \in Nat /\ SetupLimit \in Nat

VARIABLES
    at,                 \* where the frame is: draining actions or polling
    phase,              \* active.phase
    cancelled,          \* active.cancelled
    screen,             \* character_screen is Some
    selection,          \* character_selection is Some
    gameplay,           \* RuntimeGameplayCoordinator owns a session
    apart,              \* ... of an older connection than the coordinator's
    query,              \* the login task asks for the realm list
    pendingRealm,       \* pending_realm_id is Some
    directory,          \* the directory that travels with the session
    setup,              \* setup_packets.len() of the session
    sinceRequest,       \* history: of which arrived during this operation
    job,                \* what the worker still has to write
    worker,             \* where the worker is
    outcome,            \* content of the one-shot result channel
    toServer, toClient, \* the two directions of the stream
    halfRead,           \* a frame has been consumed in part
    roster,             \* the account's characters on the server
    serverOpen,         \* the peer keeps the connection
    glue,               \* the Glue screen shown
    dialog,             \* the Glue status dialog
    shown,              \* the character list Glue shows
    screenPublished,    \* character_screen_published
    directoryPublished, \* character_directory_published
    mailbox,            \* CharacterSelect_OnShow has queued its requests
    pending,            \* pending_character_screen_requests is not empty
    loading,            \* loading_screen is Some
    behind,             \* history: a cancelled operation succeeded unseen
    spent               \* how much of each bound is used

activeVars == <<phase, cancelled, job, worker, outcome, sinceRequest>>
playVars == <<gameplay, apart>>
realmVars == <<query, pendingRealm>>
retainedVars == <<screen, selection, playVars, directory, setup>>
streamVars == <<toServer, toClient, halfRead, roster, serverOpen>>
glueVars == <<glue, dialog, shown, screenPublished, directoryPublished, mailbox, pending, loading>>
vars == <<at, activeVars, retainedVars, streamVars, glueVars, behind, realmVars, spent>>

Nothing == [kind |-> "nothing"]
Enumerate == [kind |-> "enum"]
Operations == {"creating", "deleting", "renaming", "entering"}
Rosters == [Characters -> {"absent", "named", "renamed"}]
NoCharacters == [c \in Characters |-> "absent"]

Requests == {Enumerate} \union [kind : {"create", "delete", "rename", "enter"}, who : Characters]
AnswerKinds == {"enum", "created", "deleted", "renamed", "verified", "rejected"}
Packets == [kind : AnswerKinds \union {"setup"}, ok : BOOLEAN, chars : Rosters]
Outcomes == [kind : {"nothing", "screen", "error", "io"}] \union
            [kind : AnswerKinds, ok : BOOLEAN, chars : Rosters]

\* The packets that end an operation; any other packet is kept as setup.
Answers(operation) ==
    CASE operation = "refreshing" -> {"enum"}
      [] operation = "creating" -> {"created"}
      [] operation = "deleting" -> {"deleted"}
      [] operation = "renaming" -> {"renamed"}
      [] operation = "entering" -> {"verified", "rejected"}

Request(kind, c) == [kind |-> kind, who |-> c]
Packet(kind, ok, list) == [kind |-> kind, ok |-> ok, chars |-> list]

TypeOK ==
    /\ at \in {"actions", "poll"}
    /\ phase \in {"none", "connecting", "refreshing"} \union Operations
    /\ cancelled \in BOOLEAN /\ screen \in BOOLEAN /\ selection \in BOOLEAN
    /\ gameplay \in BOOLEAN /\ apart \in BOOLEAN /\ directory \in Rosters
    /\ query \in BOOLEAN /\ pendingRealm \in BOOLEAN
    /\ setup \in 0..SetupLimit /\ sinceRequest \in 0..setup
    /\ worker \in {"idle", "connecting", "write", "read"}
    /\ job \in Requests \union {Nothing} /\ outcome \in Outcomes
    /\ toServer \in Seq(Requests) /\ Len(toServer) <= 1
    /\ toClient \in Seq(Packets) /\ Len(toClient) <= MaxSetup + 1
    /\ halfRead \in BOOLEAN /\ roster \in Rosters /\ serverOpen \in BOOLEAN
    /\ glue \in {"login", "charselect", "charcreate"}
    /\ dialog \in {"none", "cancel", "okay"} /\ shown \in Rosters
    /\ screenPublished \in BOOLEAN /\ directoryPublished \in BOOLEAN
    /\ mailbox \in BOOLEAN /\ pending \in BOOLEAN /\ loading \in BOOLEAN
    /\ behind \in BOOLEAN
    /\ spent \in [requests : 0..MaxRequests, realms : 0..MaxRealms, setup : 0..MaxSetup]

Init ==
    /\ at = "actions" /\ phase = "none" /\ cancelled = FALSE
    /\ screen = FALSE /\ selection = FALSE /\ gameplay = FALSE /\ apart = FALSE
    /\ query = FALSE /\ pendingRealm = FALSE
    /\ directory = NoCharacters /\ setup = 0 /\ sinceRequest = 0
    /\ job = Nothing /\ worker = "idle" /\ outcome = Nothing
    /\ toServer = <<>> /\ toClient = <<>> /\ halfRead = FALSE
    /\ roster \in {r \in Rosters : \A c \in Characters : r[c] # "renamed"}
    /\ serverOpen = TRUE
    /\ glue = "login" /\ dialog = "none" /\ shown = NoCharacters
    /\ screenPublished = FALSE /\ directoryPublished = FALSE
    /\ mailbox = FALSE /\ pending = FALSE /\ loading = FALSE
    /\ behind = FALSE /\ spent = [requests |-> 0, realms |-> 0, setup |-> 0]

-----------------------------------------------------------------------------
(* Parts of the coordinator used by several actions.                       *)

Spawn(kind, stage, request) ==
    /\ phase' = kind /\ cancelled' = FALSE
    /\ job' = request /\ worker' = stage /\ outcome' = Nothing /\ sinceRequest' = 0

Settle ==
    /\ phase' = "none" /\ cancelled' = FALSE
    /\ job' = Nothing /\ worker' = "idle" /\ outcome' = Nothing /\ sinceRequest' = 0

\* A dropped session closes its socket; a new one starts empty.
NewStream ==
    /\ toServer' = <<>> /\ toClient' = <<>> /\ halfRead' = FALSE
    /\ serverOpen' = TRUE /\ UNCHANGED roster

\* disconnect of the coordinator; gameplay's session is not its own.
Drop ==
    /\ screen' = FALSE /\ selection' = FALSE
    /\ directory' = NoCharacters /\ setup' = 0

\* disconnect_from_server; Glue goes back to login.
DisconnectFromServer ==
    /\ Settle /\ Drop /\ NewStream
    /\ gameplay' = FALSE /\ apart' = FALSE
    /\ query' = FALSE /\ pendingRealm' = FALSE
    /\ glue' = "login"
    /\ screenPublished' = FALSE /\ directoryPublished' = FALSE
    /\ pending' = FALSE /\ loading' = FALSE
    /\ UNCHANGED <<shown, mailbox>>

ConnectionLost == DisconnectFromServer /\ dialog' = "okay"

\* The other half of publish_world_failure: no dialog is opened or closed.
FailQuietly ==
    /\ loading' = FALSE /\ screenPublished' = FALSE /\ directoryPublished' = FALSE
    /\ UNCHANGED <<glue, dialog, shown, mailbox, pending>>

\* SetGlueScreen hides and shows the frame, which runs its OnShow.
ShowCharSelect == glue' = "charselect" /\ mailbox' = TRUE

\* Glue has the keyboard and the mouse, and no dialog is in front of it.
Interactive == at = "actions" /\ dialog = "none" /\ ~loading /\ ~gameplay

Spend(what) ==
    /\ spent.requests + spent.realms + spent.setup < MaxEvents
    /\ spent' = [spent EXCEPT ![what] = @ + 1]

-----------------------------------------------------------------------------
(* Glue actions drained by service_login.                                  *)

\* begin_pending_world with a realm that is listed: the coordinator's old world
\* goes first, but neither gameplay nor the loading card does.
BeginPendingWorld ==
    /\ Drop /\ NewStream /\ Spawn("connecting", "connecting", Nothing)
    /\ apart' = gameplay /\ pendingRealm' = FALSE
    /\ screenPublished' = FALSE /\ directoryPublished' = FALSE
    /\ UNCHANGED <<gameplay, glue, shown, mailbox, pending, loading, behind>>

\* refresh_realms, with a progress dialog or behind an open realm list; it
\* fails once the realmd session is gone.
RequestRealmList ==
    /\ Interactive /\ glue # "charcreate" /\ spent.realms < MaxRealms
    /\ Spend("realms")
    /\ \/ query' = TRUE /\ dialog' \in {"none", "cancel"}
       \/ ~query /\ UNCHANGED query /\ dialog' = "okay"
    /\ UNCHANGED <<at, activeVars, retainedVars, streamVars, glue, shown, screenPublished,
                   directoryPublished, mailbox, pending, loading, behind, pendingRealm>>

\* ChangeRealm; login.authenticated() is None while a query runs, or since one
\* was aborted.
ChooseRealm ==
    /\ Interactive /\ glue # "charcreate" /\ spent.realms < MaxRealms
    /\ Spend("realms")
    /\ \/ ~query /\ BeginPendingWorld
       \/ /\ pendingRealm' = TRUE
          /\ UNCHANGED <<activeVars, retainedVars, streamVars, glue, shown, screenPublished,
                         directoryPublished, mailbox, pending, loading, behind>>
    /\ UNCHANGED <<at, dialog, query>>

\* The Glue screens' way back to login.
Disconnect ==
    /\ Interactive /\ glue = "charselect"
    /\ DisconnectFromServer
    /\ behind' = FALSE /\ UNCHANGED <<at, dialog, spent>>

\* create_, delete_, rename_character and enter_world; while another operation
\* is active they answer AlreadyActive, which is ignored.
Begin(kind, request, c) ==
    /\ Interactive /\ phase = "none" /\ spent.requests < MaxRequests
    /\ Spend("requests")
    /\ \/ /\ selection /\ (kind = "creating" \/ directory[c] # "absent")
          /\ selection' = FALSE
          /\ Spawn(kind, "write", Request(request, c))
          /\ dialog' = IF kind = "entering" THEN "none" ELSE "cancel"
          /\ loading' = (kind = "entering")
          /\ UNCHANGED <<glue, shown, screenPublished, directoryPublished, mailbox, pending>>
       \/ /\ ~selection \/ (kind # "creating" /\ directory[c] = "absent")
          /\ FailQuietly
          /\ UNCHANGED <<activeVars, selection>>
    /\ UNCHANGED <<at, screen, playVars, directory, setup, streamVars, behind, realmVars>>

CreateCharacter(c) ==
    glue = "charcreate" /\ shown[c] = "absent" /\ Begin("creating", "create", c)
DeleteCharacter(c) ==
    glue = "charselect" /\ shown[c] # "absent" /\ Begin("deleting", "delete", c)
\* Offered for the characters the server wants renamed.
RenameCharacter(c) ==
    glue = "charselect" /\ shown[c] = "named" /\ Begin("renaming", "rename", c)

\* CharacterCreation::new and CharacterRename::new check the name first.
RefuseName ==
    /\ Interactive /\ glue # "login"
    /\ \/ FailQuietly
       \/ /\ glue = "charselect" /\ dialog' = "okay"
          /\ UNCHANGED <<glue, shown, screenPublished, directoryPublished, mailbox, pending,
                         loading>>
    /\ UNCHANGED <<at, activeVars, retainedVars, streamVars, behind, realmVars, spent>>

\* Defect: the loading card is put up before the coordinator has agreed.
EnterWorld_CardFirst(c) ==
    /\ glue = "charselect" /\ shown[c] # "absent"
    /\ \/ Begin("entering", "enter", c)
       \/ /\ Interactive /\ phase # "none"
          /\ loading' = TRUE
          /\ UNCHANGED <<at, activeVars, retainedVars, streamVars, glue, dialog, shown,
                         screenPublished, directoryPublished, mailbox, pending, behind,
                         realmVars, spent>>

\* The loading card covers the entry from its admission on.
EnterWorld(c) ==
    glue = "charselect" /\ shown[c] # "absent" /\ Begin("entering", "enter", c)

\* Defect: the session is taken back from the worker at once.
StatusDialogClick_TakesBack ==
    /\ at = "actions" /\ dialog # "none" /\ ~loading /\ ~gameplay
    /\ dialog' = "none"
    /\ IF phase \in Operations
       THEN Settle /\ selection' = TRUE
       ELSE UNCHANGED <<activeVars, selection>>
    /\ UNCHANGED <<at, screen, playVars, directory, setup, streamVars, glue, shown,
                   screenPublished, directoryPublished, mailbox, pending, loading, behind,
                   realmVars, spent>>

\* cancel_character_operation only marks the operation.  Any other click is for
\* the query, which settles or, if it no longer listens, is aborted.
StatusDialogClick ==
    /\ at = "actions" /\ dialog # "none" /\ ~loading /\ ~gameplay
    /\ dialog' = "none"
    /\ \/ /\ phase \in Operations /\ ~cancelled
          /\ cancelled' = TRUE
          /\ UNCHANGED query
       \/ /\ phase \notin Operations \/ cancelled
          /\ query' \in {query, FALSE}
          /\ UNCHANGED cancelled
    /\ UNCHANGED <<at, phase, job, worker, outcome, sinceRequest, retainedVars, streamVars, glue,
                   shown, screenPublished, directoryPublished, mailbox, pending, loading, behind,
                   pendingRealm, spent>>

\* The Glue screens' own navigation between selection and creation.
ShowCharacterCreate ==
    /\ Interactive /\ glue = "charselect"
    /\ glue' = "charcreate"
    /\ UNCHANGED <<at, activeVars, retainedVars, streamVars, dialog, shown, screenPublished,
                   directoryPublished, mailbox, pending, loading, behind, realmVars, spent>>

LeaveCharacterCreate ==
    /\ Interactive /\ glue = "charcreate"
    /\ ShowCharSelect
    /\ UNCHANGED <<at, activeVars, retainedVars, streamVars, dialog, shown, screenPublished,
                   directoryPublished, pending, loading, behind, realmVars, spent>>

\* request_character_screen_data lends the retained session to a refresh.
LendForRefresh ==
    /\ Spawn("refreshing", "write", Enumerate)
    /\ screen' = FALSE /\ selection' = FALSE
    /\ pending' = FALSE /\ directoryPublished' = FALSE

\* Defect: a refresh needs an earlier directory.
CanRefresh_SelectionOnly == phase = "none" /\ selection

CanRefresh == phase = "none" /\ (screen \/ selection)

\* Queued list requests join the pending ones, which are admitted now or later;
\* the send-only requests that accompany them change no state.
Admit ==
    /\ at = "actions"
    /\ at' = "poll" /\ mailbox' = FALSE
    /\ IF (pending \/ mailbox) /\ CanRefresh
       THEN LendForRefresh
       ELSE /\ pending' = (pending \/ mailbox)
            /\ UNCHANGED <<activeVars, screen, selection, directoryPublished>>
    /\ UNCHANGED <<playVars, directory, setup, streamVars, glue, dialog, shown,
                   screenPublished, loading, behind, realmVars, spent>>
-----------------------------------------------------------------------------
(* The worker.                                                             *)

Finish(result) == outcome' = result /\ worker' = "idle"

\* authenticate_world, the queue included; refused without a dialog.
Connect ==
    /\ worker = "connecting"
    /\ \E result \in {"screen", "error"} : Finish([kind |-> result])
    /\ UNCHANGED <<at, phase, cancelled, job, sinceRequest, retainedVars, streamVars, glueVars,
                   behind, realmVars, spent>>

WriteRequest ==
    /\ worker = "write" /\ serverOpen
    /\ toServer' = Append(toServer, job)
    /\ worker' = "read"
    /\ UNCHANGED <<at, phase, cancelled, job, outcome, sinceRequest, retainedVars, toClient,
                   halfRead, roster, serverOpen, glueVars, behind, realmVars, spent>>

WorkerFails ==
    /\ worker \in {"write", "read"} /\ ~serverOpen
    /\ Finish([kind |-> "io"])
    /\ UNCHANGED <<at, phase, cancelled, job, sinceRequest, retainedVars, streamVars, glueVars,
                   behind, realmVars, spent>>

\* receive_packet has consumed a header, or part of one.
BeginRead ==
    /\ worker = "read" /\ toClient # <<>> /\ ~halfRead
    /\ halfRead' = TRUE
    /\ UNCHANGED <<at, activeVars, retainedVars, toServer, toClient, roster, serverOpen,
                   glueVars, behind, realmVars, spent>>

\* An unrelated packet is kept with the session, up to MAX_SETUP_PACKETS.
KeepSetup ==
    IF setup = SetupLimit
    THEN Finish([kind |-> "error"]) /\ UNCHANGED <<setup, sinceRequest>>
    ELSE /\ setup' = setup + 1 /\ sinceRequest' = sinceRequest + 1
         /\ UNCHANGED <<outcome, worker>>

FinishRead ==
    /\ worker = "read" /\ halfRead
    /\ halfRead' = FALSE /\ toClient' = Tail(toClient)
    /\ IF Head(toClient).kind \in Answers(phase)
       THEN Finish(Head(toClient)) /\ UNCHANGED <<setup, sinceRequest>>
       ELSE KeepSetup
    /\ UNCHANGED <<at, phase, cancelled, job, screen, selection, playVars, directory, toServer,
                   roster, serverOpen, glueVars, behind, realmVars, spent>>

-----------------------------------------------------------------------------
(* The world server: it answers requests in order and may say other things. *)

\* Gameplay has the session of the coordinator's connection.
InPlay == gameplay /\ ~apart

Connected == screen \/ selection \/ InPlay \/ phase \in Operations \union {"refreshing"}

\* The roster after a request that is granted.
Granted(request) ==
    CASE request.kind = "create" -> [roster EXCEPT ![request.who] = "named"]
      [] request.kind = "delete" -> [roster EXCEPT ![request.who] = "absent"]
      [] request.kind = "rename" -> [roster EXCEPT ![request.who] = "renamed"]

Reply(request) == CASE request.kind = "create" -> "created"
                    [] request.kind = "delete" -> "deleted"
                    [] request.kind = "rename" -> "renamed"

Serve ==
    /\ serverOpen /\ toServer # <<>>
    /\ LET request == Head(toServer)
           answer(packet) == toClient' = Append(toClient, packet)
       IN  \/ /\ request.kind = "enum"
              /\ answer(Packet("enum", TRUE, roster)) /\ UNCHANGED roster
           \/ /\ request.kind = "enter"
              /\ \/ roster[request.who] # "absent" /\ answer(Packet("verified", TRUE, roster))
                 \/ answer(Packet("rejected", FALSE, roster))
              /\ UNCHANGED roster
           \/ /\ request.kind \in {"create", "delete", "rename"}
              /\ \/ /\ (request.kind = "create") = (roster[request.who] = "absent")
                    /\ roster' = Granted(request)
                    /\ answer(Packet(Reply(request), TRUE, roster'))
                 \/ /\ answer(Packet(Reply(request), FALSE, roster)) /\ UNCHANGED roster
    /\ toServer' = Tail(toServer)
    /\ UNCHANGED <<at, activeVars, retainedVars, halfRead, serverOpen, glueVars, behind,
                   realmVars, spent>>

ServerSpeaks ==
    /\ serverOpen /\ Connected /\ ~InPlay /\ spent.setup < MaxSetup
    /\ Spend("setup")
    /\ toClient' = Append(toClient, Packet("setup", TRUE, NoCharacters))
    /\ UNCHANGED <<at, activeVars, retainedVars, toServer, halfRead, roster, serverOpen,
                   glueVars, behind, realmVars>>

ServerCloses ==
    /\ serverOpen /\ Connected
    /\ serverOpen' = FALSE
    /\ UNCHANGED <<at, activeVars, retainedVars, toServer, toClient, halfRead, roster, glueVars,
                   behind, realmVars, spent>>

-----------------------------------------------------------------------------
(* The polls of the login task and the world coordinator in service_login.  *)

\* Before the world's poll, whatever the worker or gameplay is doing: the query
\* is answered, was cancelled or fails, and a realm that waited is begun.
RealmQuerySettles ==
    /\ at = "poll" /\ query
    /\ query' = FALSE
    /\ \/ /\ dialog' \in {"none", dialog}
          /\ IF pendingRealm
             THEN BeginPendingWorld
             ELSE UNCHANGED <<activeVars, retainedVars, streamVars, glue, shown, screenPublished,
                              directoryPublished, mailbox, pending, loading, behind, pendingRealm>>
       \/ /\ dialog' = "okay"
          /\ UNCHANGED <<activeVars, retainedVars, streamVars, glue, shown, screenPublished,
                         directoryPublished, mailbox, pending, loading, behind, pendingRealm>>
    /\ UNCHANGED <<at, spent>>

Polling == at = "poll" /\ at' = "actions"

\* A retained session is watched for closure before anything else.
PollClosed ==
    /\ Polling /\ phase = "none" /\ (screen \/ selection) /\ ~serverOpen
    /\ ConnectionLost
    /\ behind' = FALSE /\ UNCHANGED spent

\* The arms for a screen and a directory Glue has not been told of.
PublishScreen ==
    /\ screenPublished' = TRUE /\ shown' = NoCharacters
    /\ ShowCharSelect
    /\ UNCHANGED <<dialog, directoryPublished, pending, loading>>

PublishDirectory(list) ==
    /\ shown' = list /\ directoryPublished' = TRUE
    /\ UNCHANGED <<glue, dialog, screenPublished, mailbox, pending, loading>>

PollRetained ==
    /\ Polling /\ phase = "none" /\ ((screen \/ selection) => serverOpen)
    /\ IF selection
       THEN IF directoryPublished THEN UNCHANGED glueVars ELSE PublishDirectory(directory)
       ELSE IF screen /\ ~screenPublished THEN PublishScreen ELSE UNCHANGED glueVars
    /\ UNCHANGED <<activeVars, retainedVars, streamVars, behind, realmVars, spent>>

PollPending ==
    /\ Polling /\ phase # "none" /\ outcome = Nothing
    /\ UNCHANGED <<activeVars, retainedVars, streamVars, glueVars, behind, realmVars, spent>>

Took(kind) == Polling /\ outcome.kind = kind /\ Settle

PollScreen ==
    /\ Took("screen")
    /\ screen' = TRUE
    /\ PublishScreen
    /\ UNCHANGED <<selection, playVars, directory, setup, streamVars, behind, realmVars, spent>>

PollDirectory ==
    /\ Took("enum")
    /\ selection' = TRUE /\ directory' = outcome.chars
    /\ PublishDirectory(outcome.chars)
    /\ behind' = FALSE
    /\ UNCHANGED <<screen, playVars, setup, streamVars, realmVars, spent>>

\* CharacterOperationCancelled: nothing is told to Glue, success included.
Unseen ==
    /\ cancelled
    /\ behind' = (behind \/ outcome.ok)
    /\ UNCHANGED glueVars

Refused ==
    /\ ~cancelled /\ ~outcome.ok
    /\ dialog' = "okay"
    /\ UNCHANGED <<glue, shown, screenPublished, directoryPublished, mailbox, pending, loading,
                   behind>>
\* Creation leads back to the selection screen, whose OnShow asks for the list.
PollCreated ==
    /\ Took("created")
    /\ selection' = TRUE
    /\ \/ Unseen \/ Refused
       \/ /\ ~cancelled /\ outcome.ok
          /\ directoryPublished' = FALSE /\ dialog' = "none"
          /\ ShowCharSelect
          /\ UNCHANGED <<shown, screenPublished, pending, loading, behind>>
    /\ UNCHANGED <<screen, playVars, directory, setup, streamVars, realmVars, spent>>

\* Deletion and renaming stay on the screen and leave a refresh pending.
Changed ==
    /\ ~cancelled /\ outcome.ok
    /\ directoryPublished' = FALSE /\ pending' = TRUE /\ dialog' = "none"
    /\ UNCHANGED <<glue, shown, screenPublished, mailbox, loading, behind>>

PollDeleted ==
    /\ Took("deleted")
    /\ selection' = TRUE
    /\ Unseen \/ Refused \/ Changed
    /\ UNCHANGED <<screen, playVars, directory, setup, streamVars, realmVars, spent>>

\* Defect: no refresh is left pending.
PollRenamed_Forgets ==
    /\ Took("renamed")
    /\ selection' = TRUE
    /\ \/ Unseen \/ Refused
       \/ /\ ~cancelled /\ outcome.ok
          /\ directoryPublished' = FALSE /\ dialog' = "none"
          /\ UNCHANGED <<glue, shown, screenPublished, mailbox, pending, loading, behind>>
    /\ UNCHANGED <<screen, playVars, directory, setup, streamVars, realmVars, spent>>

PollRenamed ==
    /\ Took("renamed")
    /\ selection' = TRUE
    /\ Unseen \/ Refused \/ Changed
    /\ UNCHANGED <<screen, playVars, directory, setup, streamVars, realmVars, spent>>

\* The entry is handed to gameplay in the same frame, cancelled or not.
PollEntered ==
    /\ Took("verified")
    /\ gameplay' = TRUE /\ apart' = FALSE /\ directory' = NoCharacters /\ setup' = 0
    /\ UNCHANGED <<screen, selection, streamVars, glueVars, behind, realmVars, spent>>

\* No dialog can be clicked under the loading card, so no entry was cancelled.
PollRejected ==
    /\ Took("rejected") /\ ~cancelled
    /\ selection' = TRUE
    /\ shown' = directory /\ directoryPublished' = TRUE
    /\ dialog' = "okay" /\ loading' = FALSE
    /\ UNCHANGED <<screen, playVars, directory, setup, streamVars, glue, screenPublished,
                   mailbox, pending, behind, realmVars, spent>>

\* The session is gone with the worker.
PollFails ==
    /\ Polling
    /\ \/ outcome.kind = "io" /\ ConnectionLost
       \/ /\ outcome.kind = "error" /\ Settle /\ Drop /\ NewStream /\ FailQuietly
          /\ UNCHANGED <<playVars, realmVars>>
    /\ behind' = FALSE /\ UNCHANGED spent

-----------------------------------------------------------------------------
(* Gameplay, as far as it returns the session.                             *)

\* The world is complete and the loading card has been presented.
WorldShown ==
    /\ gameplay /\ loading
    /\ loading' = FALSE
    /\ UNCHANGED <<at, activeVars, retainedVars, streamVars, glue, dialog, shown,
                   screenPublished, directoryPublished, mailbox, pending, behind, realmVars, spent>>

\* complete_logout, after this frame's poll; resume_character_screen refuses the
\* session when the coordinator has begun another world, and it is dropped.
CompleteLogout ==
    /\ at = "actions" /\ gameplay /\ ~loading /\ (apart \/ serverOpen)
    /\ gameplay' = FALSE /\ apart' = FALSE
    /\ screen' = (screen \/ (phase = "none" /\ ~selection))
    /\ screenPublished' = FALSE /\ directoryPublished' = FALSE /\ pending' = FALSE
    /\ behind' = FALSE
    /\ UNCHANGED <<at, activeVars, selection, directory, setup, streamVars, glue, dialog, shown,
                   mailbox, loading, realmVars, spent>>

GameplayLost ==
    /\ at = "actions" /\ gameplay /\ (apart \/ ~serverOpen)
    /\ ConnectionLost
    /\ behind' = FALSE /\ UNCHANGED <<at, spent>>

Poll ==
    \/ PollClosed \/ PollRetained \/ PollPending \/ PollScreen \/ PollDirectory
    \/ PollCreated \/ PollDeleted \/ PollRenamed \/ PollEntered \/ PollRejected \/ PollFails

Worker == Connect \/ WriteRequest \/ WorkerFails \/ BeginRead \/ FinishRead

Next ==
    \/ RequestRealmList \/ ChooseRealm \/ RealmQuerySettles \/ Disconnect
    \/ StatusDialogClick \/ RefuseName \/ ShowCharacterCreate \/ LeaveCharacterCreate
    \/ \E c \in Characters : CreateCharacter(c) \/ DeleteCharacter(c)
    \/ \E c \in Characters : RenameCharacter(c) \/ EnterWorld(c)
    \/ Admit \/ Poll
    \/ Worker
    \/ Serve \/ ServerSpeaks \/ ServerCloses
    \/ WorldShown \/ CompleteLogout \/ GameplayLost

Spec == Init /\ [][Next]_vars

\* Frames go on, the worker runs and a live server answers.
FairSpec ==
    Spec /\ WF_vars(Admit) /\ WF_vars(Poll) /\ WF_vars(Worker) /\ WF_vars(Serve)

-----------------------------------------------------------------------------
(* Properties.                                                             *)

WorkerHolds == phase \in Operations \union {"refreshing"} \/ outcome.kind = "screen"

\* The encrypted session has one owner: a cipher shared by two would lose step.
SessionHeldOnce ==
    /\ screen => ~selection /\ ~InPlay /\ ~WorkerHolds
    /\ selection => ~InPlay /\ ~WorkerHolds
    /\ InPlay => ~WorkerHolds

\* A session handed back stands between two frames, with no request unanswered
\* and no answer unread, cancelled operations included (world_coordinator.rs:
\* 457-462: dropping a partly consumed frame would lose stream alignment).
RetainedInStep ==
    screen \/ selection \/ InPlay =>
        /\ ~halfRead /\ toServer = <<>>
        /\ \A i \in 1..Len(toClient) : toClient[i].kind = "setup"

\* One owner at a time, and never between the halves of an exchange.
SessionInStep == SessionHeldOnce /\ RetainedInStep

\* The loading card is up without an entry under way and without gameplay:
\* it suppresses the input, and nothing is left to take it down.
CardLeftUp == loading /\ ~gameplay /\ phase # "entering"

\* No refused, ignored, rejected or failed entry and no end of gameplay leaves
\* the card up; only a realm choice that waited for a query does, when it
\* replaces the world being entered (client_services.rs:2116, 3333).
CardComesDown == [][CardLeftUp' => CardLeftUp \/ (pendingRealm /\ ~pendingRealm')]_vars

\* Once everything has settled the list on the screen is the server's, unless
\* a cancelled operation succeeded.
SettledShowsRoster ==
    /\ glue = "charselect" /\ selection /\ directoryPublished
    /\ ~pending /\ ~mailbox /\ ~behind
    => shown = roster

\* An authenticated screen gets its characters, or the connection ends.
CharactersAppear == screen ~> selection \/ ~Connected

\* What the documents promise; the code does not keep it (README, section 6):
\* world_coordinator.rs:108 "world sent more than {maximum} setup packets
\* before character enumeration": the limit speaks of one operation's packets.
LimitMeansFlood == outcome.kind = "error" /\ phase # "connecting" => sinceRequest >= SetupLimit

\* What the code would need to say without exception; the choice that waited
\* breaks it (README, section 6).
CardNeverLeftUp == ~CardLeftUp
=============================================================================
